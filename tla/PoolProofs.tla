----------------------------- MODULE PoolProofs -----------------------------
(***************************************************************************)
(* For any number of callers, sizes and pools: no two sized pools of one   *)
(* size are ever held at once, each holder of a count runs on that many    *)
(* threads, and the process default, once set, is everybody's.             *)
(*                                                                         *)
(* What is promised of the handles follows from where the mutex is.  A     *)
(* caller between the failed upgrade and its build holds the mutex, and    *)
(* while it does nobody comes to hold a pool of the size it asked for: the *)
(* only way to one is a clone, and no handle of that size is left.         *)
(***************************************************************************)
EXTENDS Pool, TLAPS

Inside(c)   == pc[c] \in {"upgrade", "build"}
Building(c) == pc[c] = "build"

\* The callers inside Threads::new hold the mutex.
LockHeld == \A c \in Callers : Inside(c) => lock = c

\* While one of them builds a size, no handle of that size is left.
NoneLeft ==
  \A c, d \in Callers : Building(c) /\ HoldsSized(d) => held[d].n # asked[c]

\* A first call that has built has a pool with threads in hand.
BuiltInHand ==
  \A c \in Callers : pc[c] = "set" => own[c] \in Pools /\ size[own[c]] \in Sizes

DefaultSized == default # NoPool => size[default] \in Sizes

\* An entry names a pool of its size.
EntrySized ==
  \A n \in Sizes : registry[n] # NoPool => registry[n] \in Pools /\ size[registry[n]] = n

IInv == /\ TypeOK /\ LockHeld /\ NoneLeft /\ RegistryFindsHeld /\ EntrySized
        /\ HeldAsAsked /\ OneDefault /\ BuiltInHand /\ DefaultSized

\* A pool that is built takes the identity of no pool that is still named.
LEMMA NewPoolIsFresh ==
  ASSUME CanBuild
  PROVE  /\ NewPool \in Pools /\ NewPool # default
         /\ \A c \in Callers : HoldsSized(c) => held[c].pool # NewPool
         /\ \A n \in Sizes : registry[n] # NewPool
         /\ \A c \in Callers : own[c] # NewPool
  BY DEF CanBuild, NewPool, Fresh, Alive

\* gram_share gives a task at least one thread and at most the pool.
THEOREM GramShareInPool ==
  ASSUME NEW tasks \in Nat, NEW pool \in Nat \ {0}
  PROVE  GramShare(tasks, pool) \in 1 .. pool
<1>1. CASE tasks = 0 \/ 2 * tasks > pool
  BY <1>1 DEF GramShare
<1>2. CASE tasks # 0 /\ 2 * tasks <= pool
  <2>1. (2 * pool) \div tasks \in Nat /\ (2 * pool) \div tasks >= 1
    BY <1>2
  <2> QED
    BY <1>2, <2>1 DEF GramShare
<1> QED
  BY <1>1, <1>2

LEMMA InitEstablishes == Init => IInv
<1> SUFFICES ASSUME Init PROVE IInv
  OBVIOUS
<1> USE PoolAssumption DEF Init
<1>1. TypeOK
  <2>1. Process \in Handles
    BY DEF Process, Handles
  <2>2. held \in [Callers -> Handles]
    BY <2>1
  <2>3. size \in [Pools -> Sizes \cup {0}] /\ registry \in [Sizes -> Pools \cup {NoPool}]
    OBVIOUS
  <2>4. asks \in [Callers -> 0 .. MaxAsks]
    OBVIOUS
  <2> QED
    BY <2>2, <2>3, <2>4 DEF TypeOK
<1>2. \A c \in Callers : held[c].kind = "process"
  BY DEF Process
<1>3. LockHeld /\ NoneLeft /\ BuiltInHand
  BY DEF LockHeld, NoneLeft, BuiltInHand, Inside, Building
<1>4. RegistryFindsHeld /\ EntrySized /\ HeldAsAsked /\ OneDefault /\ DefaultSized
  BY <1>2 DEF RegistryFindsHeld, EntrySized, HeldAsAsked, OneDefault, DefaultSized, HoldsSized
<1> QED
  BY <1>1, <1>3, <1>4 DEF IInv

-----------------------------------------------------------------------------
(***************************************************************************)
(* The calls for a size.                                                   *)
(***************************************************************************)

LEMMA AskKeeps ==
  ASSUME IInv, NEW c \in Callers, NEW n \in Sizes \cup {0}, Ask(c, n)
  PROVE  IInv'
<1> USE PoolAssumption DEF IInv, Ask, Checked, registering
<1>0. n \in Sizes
  OBVIOUS
<1>1. CASE IsDefault(n)
  <2> DEFINE h == [Default(default) EXCEPT !.n = n]
  <2>1. h = [kind |-> "default", pool |-> default, n |-> n] /\ h \in Handles
    BY <1>0, <1>1 DEF Default, Handles, TypeOK, IsDefault
  <2>2. held' = [held EXCEPT ![c] = h] /\ UNCHANGED <<pc, asked>>
    BY <1>1 DEF Hold
  <2>3. default \in Pools /\ size[default] = n
    BY <1>1 DEF IsDefault, TypeOK
  <2>4. TypeOK'
    BY <2>1, <2>2 DEF TypeOK
  <2>5. \A d \in Callers : held'[d] = IF d = c THEN h ELSE held[d]
    BY <2>2 DEF TypeOK
  <2> HIDE DEF h
  <2>6. LockHeld' /\ BuiltInHand' /\ DefaultSized' /\ EntrySized'
    BY <2>2 DEF LockHeld, Inside, BuiltInHand, DefaultSized, EntrySized
  <2>7. NoneLeft' /\ RegistryFindsHeld'
    BY <2>1, <2>2, <2>5 DEF NoneLeft, RegistryFindsHeld, HoldsSized, Building
  <2>8. HeldAsAsked' /\ OneDefault'
    BY <1>0, <2>1, <2>3, <2>5 DEF HeldAsAsked, OneDefault
  <2> QED
    BY <2>4, <2>6, <2>7, <2>8
<1>2. CASE ~IsDefault(n)
  <2>1. /\ pc' = [pc EXCEPT ![c] = "lock"] /\ asked' = [asked EXCEPT ![c] = n]
        /\ pc[c] = "ready" /\ UNCHANGED <<held, lock>>
    BY <1>2 DEF Goto
  <2>2. TypeOK'
    BY <1>0, <2>1 DEF TypeOK
  <2>3. LockHeld' /\ BuiltInHand' /\ NoneLeft'
    BY <2>1 DEF TypeOK, LockHeld, BuiltInHand, NoneLeft, Inside, Building, HoldsSized
  <2>4. RegistryFindsHeld' /\ EntrySized' /\ HeldAsAsked' /\ OneDefault' /\ DefaultSized'
    BY <2>1 DEF RegistryFindsHeld, EntrySized, HeldAsAsked, OneDefault, DefaultSized, HoldsSized
  <2> QED
    BY <2>2, <2>3, <2>4
<1> QED
  BY <1>1, <1>2

LEMMA LockKeeps ==
  ASSUME IInv, NEW c \in Callers, Lock(c)
  PROVE  IInv'
<1> USE PoolAssumption DEF IInv, Lock, Goto
<1>1. TypeOK'
  BY DEF TypeOK
<1>2. LockHeld' /\ BuiltInHand' /\ NoneLeft'
  BY DEF TypeOK, LockHeld, BuiltInHand, NoneLeft, Inside, Building, HoldsSized, Free
<1>3. RegistryFindsHeld' /\ EntrySized' /\ HeldAsAsked' /\ OneDefault' /\ DefaultSized'
  BY DEF RegistryFindsHeld, EntrySized, HeldAsAsked, OneDefault, DefaultSized, HoldsSized
<1> QED
  BY <1>1, <1>2, <1>3

LEMMA ShareKeeps ==
  ASSUME IInv, NEW c \in Callers, Share(c)
  PROVE  IInv'
<1> USE PoolAssumption DEF IInv, Share
<1> DEFINE h == Sized(Entry(c), asked[c])
<1>1. /\ h = [kind |-> "sized", pool |-> registry[asked[c]], n |-> asked[c]]
      /\ asked[c] \in Sizes /\ registry[asked[c]] \in Pools
      /\ size[registry[asked[c]]] = asked[c]
  BY DEF Sized, Entry, TypeOK, EntrySized
<1>2. /\ held' = [held EXCEPT ![c] = h] /\ pc' = [pc EXCEPT ![c] = "ready"]
      /\ lock' = NoCaller /\ lock = c
  BY DEF Hold, Goto, LockHeld, Inside
<1>3. TypeOK'
  BY <1>1, <1>2 DEF TypeOK, Handles
<1>4. \A d \in Callers : held'[d] = IF d = c THEN h ELSE held[d]
  BY <1>2 DEF TypeOK
<1> HIDE DEF h
<1>5. \A d \in Callers : ~Inside(d)'
  BY <1>2 DEF TypeOK, LockHeld, Inside
<1>6. LockHeld' /\ NoneLeft'
  BY <1>5 DEF LockHeld, NoneLeft, Inside, Building
<1>7. BuiltInHand' /\ DefaultSized' /\ EntrySized'
  BY <1>2 DEF TypeOK, BuiltInHand, DefaultSized, EntrySized
<1>8. RegistryFindsHeld' /\ HeldAsAsked' /\ OneDefault'
  BY <1>1, <1>4 DEF RegistryFindsHeld, HeldAsAsked, OneDefault, HoldsSized
<1> QED
  BY <1>3, <1>6, <1>7, <1>8

LEMMA SweepKeeps ==
  ASSUME IInv, NEW c \in Callers, Sweep(c)
  PROVE  IInv'
<1> USE PoolAssumption DEF IInv, Sweep
<1>1. pc' = [pc EXCEPT ![c] = "build"] /\ lock = c /\ asked[c] \in Sizes
  BY DEF Goto, LockHeld, Inside, TypeOK
<1>2. \A n \in Sizes : registry'[n] = IF Alive(registry[n]) THEN registry[n] ELSE NoPool
  BY DEF Swept
<1>3. TypeOK'
  <2>1. registry' \in [Sizes -> Pools \cup {NoPool}]
    BY DEF Swept, TypeOK
  <2> QED
    BY <1>1, <2>1 DEF TypeOK
<1>4. \A d \in Callers : HoldsSized(d) => held[d].n # asked[c]
  BY <1>1 DEF Entry, Alive, RegistryFindsHeld, HeldAsAsked, HoldsSized, TypeOK
<1>5. LockHeld' /\ BuiltInHand' /\ DefaultSized' /\ HeldAsAsked' /\ OneDefault'
  BY <1>1 DEF TypeOK, LockHeld, Inside, BuiltInHand, DefaultSized, HeldAsAsked, OneDefault
<1>6. NoneLeft'
  BY <1>1, <1>4 DEF NoneLeft, Building, HoldsSized, LockHeld, Inside, TypeOK
<1>7. RegistryFindsHeld'
  BY <1>2 DEF RegistryFindsHeld, Alive, HoldsSized, HeldAsAsked
<1>8. EntrySized'
  BY <1>2 DEF EntrySized
<1> QED
  BY <1>3, <1>5, <1>6, <1>7, <1>8

LEMMA BuildKeeps ==
  ASSUME IInv, NEW c \in Callers, Build(c)
  PROVE  IInv'
<1> USE PoolAssumption DEF IInv
<1> DEFINE p == NewPool
<1> DEFINE h == Sized(p, asked[c])
<1>1. /\ p \in Pools /\ p # default /\ p # NoPool
      /\ \A d \in Callers : HoldsSized(d) => held[d].pool # p
      /\ \A n \in Sizes : registry[n] # p
      /\ \A d \in Callers : own[d] # p
  BY NewPoolIsFresh DEF Build
<1> HIDE DEF p
<1>2. h = [kind |-> "sized", pool |-> p, n |-> asked[c]] /\ asked[c] \in Sizes
  BY DEF Build, Sized, TypeOK
<1>3. /\ held' = [held EXCEPT ![c] = h] /\ pc' = [pc EXCEPT ![c] = "ready"]
      /\ size' = [size EXCEPT ![p] = asked[c]]
      /\ registry' = [registry EXCEPT ![asked[c]] = p] /\ lock = c
      /\ pc[c] = "build" /\ lock' = NoCaller
      /\ default' = default /\ asked' = asked /\ own' = own /\ ran' = ran /\ asks' = asks
  BY DEF Build, Hold, Goto, LockHeld, Inside, p
<1>4. TypeOK'
  BY <1>1, <1>2, <1>3 DEF TypeOK, Handles
<1>5. /\ \A d \in Callers : held'[d] = IF d = c THEN h ELSE held[d]
      /\ \A q \in Pools : size'[q] = IF q = p THEN asked[c] ELSE size[q]
      /\ \A n \in Sizes : registry'[n] = IF n = asked[c] THEN p ELSE registry[n]
  BY <1>3 DEF TypeOK
<1>6. \A d \in Callers : HoldsSized(d) => held[d].n # asked[c]
  BY <1>3 DEF NoneLeft, Building
<1> HIDE DEF h
<1>7. LockHeld' /\ NoneLeft'
  BY <1>3 DEF TypeOK, LockHeld, NoneLeft, Inside, Building
<1>8. BuiltInHand' /\ DefaultSized'
  BY <1>1, <1>3, <1>5 DEF TypeOK, BuiltInHand, DefaultSized
<1>9. EntrySized'
  <2> SUFFICES ASSUME NEW n \in Sizes, (registry[n])' # NoPool
               PROVE  (registry[n])' \in Pools /\ (size[registry[n]])' = n
    BY Zenon DEF EntrySized
  <2>1. CASE n = asked[c]
    BY <1>1, <1>5, <2>1
  <2>2. CASE n # asked[c]
    <3>1. registry[n] \in Pools /\ size[registry[n]] = n /\ registry'[n] = registry[n]
      BY <1>5, <2>2 DEF EntrySized
    <3> QED
      BY <1>1, <1>5, <3>1
  <2> QED
    BY <2>1, <2>2
<1>10. RegistryFindsHeld'
  <2> SUFFICES ASSUME NEW d \in Callers, HoldsSized(d)'
               PROVE  registry'[held'[d].n] = held'[d].pool
    BY DEF RegistryFindsHeld
  <2>0. held'[d].kind = "sized"
    BY DEF HoldsSized
  <2>1. CASE d = c
    <3>1. held'[d] = h
      BY <1>5, <2>1
    <3>2. h.n = asked[c] /\ h.pool = p
      BY <1>2
    <3>3. registry'[asked[c]] = p
      BY <1>2, <1>5
    <3> QED
      BY <3>1, <3>2, <3>3
  <2>2. CASE d # c
    <3>1. held'[d] = held[d] /\ HoldsSized(d)
      BY <1>5, <2>0, <2>2 DEF HoldsSized
    <3>2. held[d].n \in Sizes /\ held[d].n # asked[c] /\ registry[held[d].n] = held[d].pool
      BY <1>6, <3>1 DEF HeldAsAsked, HoldsSized, RegistryFindsHeld
    <3> QED
      BY <1>5, <3>1, <3>2
  <2> QED
    BY <2>1, <2>2
<1>11. HeldAsAsked'
  <2> SUFFICES ASSUME NEW d \in Callers, held'[d].kind # "process"
               PROVE  /\ held'[d].pool \in Pools /\ held'[d].n \in Sizes
                      /\ size'[held'[d].pool] = held'[d].n
    BY DEF HeldAsAsked
  <2>1. CASE d = c
    BY <1>1, <1>2, <1>5, <2>1
  <2>2. CASE d # c
    <3>1. held'[d] = held[d] /\ held[d].kind # "process"
      BY <1>5, <2>2
    <3>2. held[d].pool \in Pools /\ held[d].n \in Sizes /\ size[held[d].pool] = held[d].n
      BY <3>1 DEF HeldAsAsked
    <3>3. held[d].pool # p
      <4>1. held[d].kind = "sized" \/ held[d].kind = "default"
        BY <3>1 DEF TypeOK, Handles
      <4> QED
        BY <1>1, <4>1 DEF HoldsSized, OneDefault
    <3> QED
      BY <1>5, <3>1, <3>2, <3>3
  <2> QED
    BY <2>1, <2>2
<1>12. OneDefault'
  BY <1>2, <1>3, <1>5 DEF OneDefault
<1> QED
  BY <1>4, <1>7, <1>8, <1>9, <1>10, <1>11, <1>12

LEMMA BuildFailsKeeps ==
  ASSUME IInv, NEW c \in Callers, BuildFails(c)
  PROVE  IInv'
<1> USE PoolAssumption DEF IInv, BuildFails, Failed, Goto
<1>1. TypeOK'
  BY DEF TypeOK
<1>2. LockHeld' /\ BuiltInHand' /\ NoneLeft'
  BY DEF TypeOK, LockHeld, BuiltInHand, NoneLeft, Inside, Building, HoldsSized
<1>3. RegistryFindsHeld' /\ EntrySized' /\ HeldAsAsked' /\ OneDefault' /\ DefaultSized'
  BY DEF RegistryFindsHeld, EntrySized, HeldAsAsked, OneDefault, DefaultSized, HoldsSized
<1> QED
  BY <1>1, <1>2, <1>3

-----------------------------------------------------------------------------
(***************************************************************************)
(* Letting go, handing on, and the process default.                        *)
(***************************************************************************)

LEMMA AskDefaultKeeps ==
  ASSUME IInv, NEW c \in Callers, AskDefault(c)
  PROVE  IInv'
<1> USE DEF IInv, AskDefault, registering
<1>1. \A d \in Callers : held'[d] = IF d = c THEN Process ELSE held[d]
  BY DEF Hold, TypeOK
<1>2. Process.kind = "process" /\ Process \in Handles
  BY DEF Process, Handles
<1>3. TypeOK'
  BY <1>2 DEF TypeOK, Hold
<1>4. LockHeld' /\ BuiltInHand' /\ DefaultSized' /\ EntrySized'
  BY DEF LockHeld, Inside, BuiltInHand, DefaultSized, EntrySized
<1>5. NoneLeft' /\ RegistryFindsHeld' /\ HeldAsAsked' /\ OneDefault'
  BY <1>1, <1>2 DEF NoneLeft, RegistryFindsHeld, HeldAsAsked, OneDefault, HoldsSized, Building
<1> QED
  BY <1>3, <1>4, <1>5

LEMMA CloneKeeps ==
  ASSUME IInv, NEW c \in Callers, NEW d \in Callers, Clone(c, d)
  PROVE  IInv'
<1> USE DEF IInv, Clone, registering
<1>1. \A e \in Callers : held'[e] = IF e = d THEN held[c] ELSE held[e]
  BY DEF Hold, TypeOK
<1>2. TypeOK'
  BY DEF TypeOK, Hold
<1>3. LockHeld' /\ BuiltInHand' /\ DefaultSized' /\ EntrySized'
  BY DEF LockHeld, Inside, BuiltInHand, DefaultSized, EntrySized
<1>4. NoneLeft' /\ RegistryFindsHeld' /\ HeldAsAsked' /\ OneDefault'
  BY <1>1 DEF NoneLeft, RegistryFindsHeld, HeldAsAsked, OneDefault, HoldsSized, Building
<1> QED
  BY <1>2, <1>3, <1>4

LEMMA EnterKeeps ==
  ASSUME IInv, NEW c \in Callers, Enter(c)
  PROVE  IInv'
<1> USE DEF IInv, Enter, registering, Goto
<1>1. TypeOK'
  BY DEF TypeOK
<1>2. LockHeld' /\ BuiltInHand' /\ NoneLeft'
  BY DEF TypeOK, LockHeld, BuiltInHand, NoneLeft, Inside, Building, HoldsSized
<1>3. RegistryFindsHeld' /\ EntrySized' /\ HeldAsAsked' /\ OneDefault' /\ DefaultSized'
  BY DEF TypeOK, RegistryFindsHeld, EntrySized, HeldAsAsked, OneDefault, DefaultSized, HoldsSized
<1> QED
  BY <1>1, <1>2, <1>3

LEMMA BuildFirstKeeps ==
  ASSUME IInv, NEW c \in Callers, NEW n \in Sizes, BuildFirst(c, n)
  PROVE  IInv'
<1> USE PoolAssumption DEF IInv, BuildFirst, registering
<1> DEFINE p == NewPool
<1>1. /\ p \in Pools /\ p # default /\ p # NoPool
      /\ \A d \in Callers : HoldsSized(d) => held[d].pool # p
      /\ \A k \in Sizes : registry[k] # p
      /\ \A d \in Callers : own[d] # p
  BY NewPoolIsFresh
<1>2. /\ pc' = [pc EXCEPT ![c] = "set"] /\ own' = [own EXCEPT ![c] = p]
      /\ size' = [size EXCEPT ![p] = n]
  BY DEF Goto
<1> HIDE DEF p
<1>3. /\ \A q \in Pools : size'[q] = IF q = p THEN n ELSE size[q]
      /\ \A d \in Callers : own'[d] = IF d = c THEN p ELSE own[d]
      /\ \A d \in Callers : pc'[d] = IF d = c THEN "set" ELSE pc[d]
  BY <1>2 DEF TypeOK
<1>4. TypeOK'
  BY <1>1, <1>2 DEF TypeOK
<1>5. LockHeld' /\ NoneLeft' /\ RegistryFindsHeld' /\ OneDefault'
  BY <1>3 DEF LockHeld, NoneLeft, Inside, Building, HoldsSized, RegistryFindsHeld, OneDefault
<1>6. BuiltInHand'
  BY <1>1, <1>3 DEF BuiltInHand
<1>7. DefaultSized'
  BY <1>1, <1>3 DEF DefaultSized, TypeOK
<1>8. EntrySized'
  BY <1>1, <1>3 DEF EntrySized
<1>9. HeldAsAsked'
  <2> SUFFICES ASSUME NEW d \in Callers, held[d].kind # "process"
               PROVE  /\ held[d].pool \in Pools /\ held[d].n \in Sizes
                      /\ size'[held[d].pool] = held[d].n
    BY DEF HeldAsAsked
  <2>1. held[d].pool \in Pools /\ held[d].n \in Sizes /\ size[held[d].pool] = held[d].n
    BY DEF HeldAsAsked
  <2>2. held[d].kind = "sized" \/ held[d].kind = "default"
    BY DEF TypeOK, Handles
  <2>3. held[d].pool # p
    BY <1>1, <2>2 DEF HoldsSized, OneDefault
  <2> QED
    BY <1>3, <2>1, <2>3
<1> QED
  BY <1>4, <1>5, <1>6, <1>7, <1>8, <1>9

LEMMA FirstFailsKeeps ==
  ASSUME IInv, NEW c \in Callers, FirstFails(c)
  PROVE  IInv'
<1> USE DEF IInv, FirstFails, registering, Goto
<1>1. TypeOK'
  BY DEF TypeOK
<1>2. LockHeld' /\ BuiltInHand' /\ NoneLeft'
  BY DEF TypeOK, LockHeld, BuiltInHand, NoneLeft, Inside, Building, HoldsSized
<1>3. RegistryFindsHeld' /\ EntrySized' /\ HeldAsAsked' /\ OneDefault' /\ DefaultSized'
  BY DEF TypeOK, RegistryFindsHeld, EntrySized, HeldAsAsked, OneDefault, DefaultSized, HoldsSized
<1> QED
  BY <1>1, <1>2, <1>3

\* The first pool set is kept, so what ran on the default before it was set
\* was nothing, and what runs on it after is the same pool.
LEMMA SetKeeps ==
  ASSUME IInv, NEW c \in Callers, Set(c)
  PROVE  IInv'
<1> USE PoolAssumption DEF IInv, Set, Entered, registering, Goto
<1>1. own[c] \in Pools /\ size[own[c]] \in Sizes
  BY DEF BuiltInHand
<1>2. default' \in Pools /\ size[default'] \in Sizes /\ (default # NoPool => default' = default)
  BY <1>1 DEF SetFirst, TypeOK, DefaultSized
<1>3. /\ \A d \in Callers : ran'[d] = IF d = c THEN default' ELSE ran[d]
      /\ \A d \in Callers : own'[d] = IF d = c THEN NoPool ELSE own[d]
      /\ \A d \in Callers : pc'[d] = IF d = c THEN "ready" ELSE pc[d]
  BY DEF TypeOK
<1>4. TypeOK'
  BY <1>2 DEF TypeOK
<1>5. LockHeld' /\ NoneLeft' /\ RegistryFindsHeld' /\ EntrySized' /\ HeldAsAsked'
  BY <1>3 DEF LockHeld, NoneLeft, Inside, Building, HoldsSized, RegistryFindsHeld, EntrySized, HeldAsAsked
<1>6. BuiltInHand' /\ DefaultSized'
  BY <1>2, <1>3 DEF BuiltInHand, DefaultSized
<1>7. OneDefault'
  <2>1. ASSUME NEW d \in Callers, held[d].kind = "default" PROVE held[d].pool = default'
    BY <1>2, <2>1 DEF OneDefault, HeldAsAsked
  <2>2. ASSUME NEW d \in Callers, ran[d] # NoPool PROVE ran[d] = default'
    BY <1>2, <2>2 DEF OneDefault
  <2> QED
    BY <1>3, <2>1, <2>2 DEF OneDefault
<1> QED
  BY <1>4, <1>5, <1>6, <1>7

-----------------------------------------------------------------------------
LEMMA StepKeeps == IInv /\ [Next]_vars => IInv'
<1> SUFFICES ASSUME IInv, [Next]_vars PROVE IInv'
  OBVIOUS
<1>1. CASE UNCHANGED vars
  BY <1>1 DEF vars, registering, IInv, TypeOK, LockHeld, NoneLeft, RegistryFindsHeld,
     EntrySized, HeldAsAsked, OneDefault, BuiltInHand, DefaultSized, Inside, Building,
     HoldsSized
<1>2. ASSUME NEW c \in Callers, New(c) PROVE IInv'
  BY <1>2, LockKeeps, ShareKeeps, SweepKeeps, BuildKeeps, BuildFailsKeeps DEF New
<1>3. ASSUME NEW c \in Callers, First(c) PROVE IInv'
  BY <1>3, BuildFirstKeeps, FirstFailsKeeps, SetKeeps DEF First
<1> QED
  BY <1>1, <1>2, <1>3, AskKeeps, AskDefaultKeeps, EnterKeeps, CloneKeeps DEF Next

THEOREM Inductive == Spec => []IInv
  BY InitEstablishes, StepKeeps, PTL DEF Spec

\* The pools' variables stay within their types.
THEOREM TypeCorrect == Spec => []TypeOK
<1>1. IInv => TypeOK
  BY DEF IInv
<1> QED
  BY <1>1, Inductive, PTL

\* Whoever holds n shares one pool with everyone else who does.
THEOREM OnePoolPerSizeAlways == Spec => []OnePoolPerSize
<1>1. IInv => OnePoolPerSize
  BY DEF IInv, RegistryFindsHeld, OnePoolPerSize
<1> QED
  BY <1>1, Inductive, PTL

\* A holder of n runs on n threads.
THEOREM HeldAsAskedAlways == Spec => []HeldAsAsked
<1>1. IInv => HeldAsAsked
  BY DEF IInv
<1> QED
  BY <1>1, Inductive, PTL

\* A pool that is held is found by the next ask for its size.
THEOREM RegistryFindsHeldAlways == Spec => []RegistryFindsHeld
<1>1. IInv => RegistryFindsHeld
  BY DEF IInv
<1> QED
  BY <1>1, Inductive, PTL

\* Whatever entered the process default entered the one that was set first.
THEOREM OneDefaultAlways == Spec => []OneDefault
<1>1. IInv => OneDefault
  BY DEF IInv
<1> QED
  BY <1>1, Inductive, PTL

\* The process default and its size are set once.
THEOREM DefaultStaysAlways == Spec => DefaultStays
<1> DEFINE Stays == default # NoPool => default' = default /\ size'[default] = size[default]
<1>1. ASSUME IInv, [Next]_vars PROVE [Stays]_vars
  <2> SUFFICES ASSUME default # NoPool, Next
               PROVE  default' = default /\ size'[default] = size[default]
    BY <1>1
  <2>1. default \in Pools
    BY <1>1 DEF IInv, TypeOK
  <2>2. ASSUME NEW c \in Callers, Build(c) \/ \E n \in Sizes : BuildFirst(c, n)
        PROVE  default' = default /\ size'[default] = size[default]
    BY <1>1, <2>1, <2>2, NewPoolIsFresh DEF Build, BuildFirst, IInv, TypeOK
  <2>3. ASSUME NEW c \in Callers, Set(c)
        PROVE  default' = default /\ size'[default] = size[default]
    BY <2>3 DEF Set, SetFirst
  <2>4. ASSUME NEW c \in Callers, New(c) \/ First(c)
        PROVE  default' = default /\ size'[default] = size[default]
    BY <2>2, <2>3, <2>4 DEF New, First, Lock, Share, Sweep, BuildFails, FirstFails
  <2>5. ASSUME NEW c \in Callers,
               \/ \E n \in Sizes \cup {0} : Ask(c, n)
               \/ AskDefault(c) \/ Enter(c) \/ \E d \in Callers : Clone(c, d)
        PROVE  default' = default /\ size'[default] = size[default]
    BY <2>5 DEF Ask, AskDefault, Enter, Clone
  <2> QED
    BY <2>4, <2>5 DEF Next
<1> QED
  BY <1>1, Inductive, PTL DEF Spec, DefaultStays
=============================================================================
