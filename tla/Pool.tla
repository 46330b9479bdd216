-------------------------------- MODULE Pool --------------------------------
(***************************************************************************)
(* The thread pools a bank, a run or a Gram fit works on                   *)
(* (crates/online-polars/src/pool.rs): the process default, built from the *)
(* environment at its first use and kept in a OnceLock, and the pools of   *)
(* an asked size, kept by a registry that holds each of them weakly.       *)
(*                                                                         *)
(* A caller is a thread with a bank of its own, which holds one handle.    *)
(* Callers ask for a size, hand their handle on, let it go and enter it,   *)
(* all at once.  A pool is the allocation that carries it: it lives while  *)
(* a handle holds it, and its identity is not used again while a weak      *)
(* entry of the registry still names it.                                   *)
(***************************************************************************)
EXTENDS Integers

CONSTANTS
  Callers,
  Sizes,    \* the thread counts a caller may ask for
  Pools,    \* the identities of pools
  NoPool,
  NoCaller,
  MaxAsks   \* bound: the sizes one caller asks for

ASSUME PoolAssumption ==
  /\ Sizes \subseteq Nat \ {0}
  /\ NoPool \notin Pools
  /\ NoCaller \notin Callers
  /\ MaxAsks \in Nat

VARIABLES
  default,   \* POOL: the process default, once a call has set it
  size,      \* how many threads each pool was built with
  registry,  \* SIZED: what each size's weak entry names
  lock,      \* the caller that holds SIZED's mutex
  held,      \* each caller's Threads
  pc,        \* where each caller is
  asked,     \* the size it asks for
  own,       \* the pool it built for POOL and has not set yet
  ran,       \* history: the pool it last entered as the process default
  asks       \* how many sizes it has asked for

registering == <<registry, lock>>
vars == <<default, size, registering, held, pc, asked, own, ran, asks>>

Process    == [kind |-> "process", pool |-> NoPool, n |-> 0]
Default(p) == [kind |-> "default", pool |-> p, n |-> size[p]]
Sized(p, n) == [kind |-> "sized", pool |-> p, n |-> n]
HoldsSized(c) == held[c].kind = "sized"

\* Whether a pool's strong count is above zero.
Alive(p) == \E c \in Callers : HoldsSized(c) /\ held[c].pool = p

\* A new pool is no pool anything holds, strongly or weakly.
Fresh(p) ==
  /\ p # default /\ ~Alive(p)
  /\ \A n \in Sizes : registry[n] # p
  /\ \A c \in Callers : own[c] # p
CanBuild == \E p \in Pools : Fresh(p)
NewPool  == CHOOSE p \in Pools : Fresh(p)

(***************************************************************************)
(* gram_share: the threads "auto" gives one Gram update when tasks share a *)
(* pool.                                                                   *)
(***************************************************************************)
GramShare(tasks, pool) ==
  IF tasks = 0 \/ 2 * tasks > pool THEN 1
  ELSE LET twice == (2 * pool) \div tasks IN IF twice < pool THEN twice ELSE pool

-----------------------------------------------------------------------------
Init ==
  /\ default = NoPool
  /\ size \in [Pools -> {0}]
  /\ registry = [n \in Sizes |-> NoPool]
  /\ lock = NoCaller
  /\ held = [c \in Callers |-> Process]
  /\ pc = [c \in Callers |-> "ready"]
  /\ asked = [c \in Callers |-> 0]
  /\ own = [c \in Callers |-> NoPool] /\ ran = [c \in Callers |-> NoPool]
  /\ asks = [c \in Callers |-> 0]

Hold(c, handle) == held' = [held EXCEPT ![c] = handle]
Goto(c, place)  == pc' = [pc EXCEPT ![c] = place]

(***************************************************************************)
(* Threads::new with a count, as Bank::set_threads calls it: the handle    *)
(* the bank has is let go only once the new one is in place.  A count of 0 *)
(* is refused, and the default is used when it already has the size.       *)
(***************************************************************************)
Checked(n) == n # 0
IsDefault(n) == default # NoPool /\ size[default] = n

Ask(c, n) ==
  /\ pc[c] = "ready" /\ asks[c] < MaxAsks
  /\ Checked(n)
  /\ asks' = [asks EXCEPT ![c] = @ + 1]
  /\ \/ /\ IsDefault(n)
        /\ Hold(c, [Default(default) EXCEPT !.n = n])
        /\ UNCHANGED <<pc, asked>>
     \/ /\ ~IsDefault(n)
        /\ Goto(c, "lock")
        /\ asked' = [asked EXCEPT ![c] = n]
        /\ UNCHANGED held
  /\ UNCHANGED <<default, size, registering, own, ran>>

\* Threads::new without a count.
AskDefault(c) ==
  /\ pc[c] = "ready" /\ Hold(c, Process)
  /\ UNCHANGED <<default, size, registering, pc, asked, own, ran, asks>>

\* A mutex that a panic poisoned is taken all the same.
Unlocked == TRUE   \* fault: the lock is not held across the build
Free == lock = NoCaller
Lock(c) ==
  /\ pc[c] = "lock" /\ Free
  /\ lock' = c
  /\ Goto(c, "upgrade")
  /\ UNCHANGED <<default, size, registry, held, asked, own, ran, asks>>

Entry(c) == registry[asked[c]]

\* The entry of the size asked for still has its pool.
Share(c) ==
  /\ pc[c] = "upgrade" /\ Entry(c) # NoPool /\ Alive(Entry(c))
  /\ Hold(c, Sized(Entry(c), asked[c]))
  /\ lock' = NoCaller /\ Goto(c, "ready")
  /\ UNCHANGED <<default, size, registry, asked, own, ran, asks>>

\* It has none, or one whose last holder has let go: the dead entries go.
Swept == [n \in Sizes |-> IF Alive(registry[n]) THEN registry[n] ELSE NoPool]
Sweep(c) ==
  /\ pc[c] = "upgrade" /\ (Entry(c) = NoPool \/ ~Alive(Entry(c)))
  /\ registry' = Swept
  /\ Goto(c, "build")
  /\ UNCHANGED <<default, size, lock, held, asked, own, ran, asks>>

Build(c) ==
  /\ pc[c] = "build" /\ CanBuild
  /\ size' = [size EXCEPT ![NewPool] = asked[c]]
  /\ registry' = [registry EXCEPT ![asked[c]] = NewPool]
  /\ Hold(c, Sized(NewPool, asked[c]))
  /\ lock' = NoCaller /\ Goto(c, "ready")
  /\ UNCHANGED <<default, asked, own, ran, asks>>

\* The system starts no such pool, and the call ends with an error or a panic.
FailedRetries(c) == UNCHANGED lock /\ Goto(c, "upgrade")   \* fault: it tries again
Failed(c) == lock' = NoCaller /\ Goto(c, "ready")

BuildFails(c) ==
  /\ pc[c] = "build" /\ Failed(c)
  /\ UNCHANGED <<default, size, registry, held, asked, own, ran, asks>>

(***************************************************************************)
(* A handle is cloned to another caller, or let go.                        *)
(***************************************************************************)
Clone(c, d) ==
  /\ pc[c] = "ready" /\ pc[d] = "ready" /\ Hold(d, held[c])
  /\ UNCHANGED <<default, size, registering, pc, asked, own, ran, asks>>

(***************************************************************************)
(* pool(): the process default, built by the first call that enters it.    *)
(* What the variable says is any count, or not a count.  Two first calls   *)
(* each build one, and the one set first is kept.                          *)
(***************************************************************************)
Enter(c) ==
  /\ pc[c] = "ready" /\ held[c].kind = "process"
  /\ IF default # NoPool
     THEN ran' = [ran EXCEPT ![c] = default] /\ UNCHANGED pc
     ELSE Goto(c, "first") /\ UNCHANGED ran
  /\ UNCHANGED <<default, size, registering, held, asked, own, asks>>

BuildFirst(c, n) ==
  /\ pc[c] = "first" /\ CanBuild
  /\ size' = [size EXCEPT ![NewPool] = n]
  /\ own' = [own EXCEPT ![c] = NewPool]
  /\ Goto(c, "set")
  /\ UNCHANGED <<default, registering, held, asked, ran, asks>>

\* The variable is no count, or the system will not start the threads.
FirstFails(c) ==
  /\ pc[c] = "first" /\ Goto(c, "ready")
  /\ UNCHANGED <<default, size, registering, held, asked, own, ran, asks>>

SetFirst(c) == IF default = NoPool THEN own[c] ELSE default
EnteredOwn(c) == own[c]   \* fault: the pool built here, not the one kept
Entered(c) == SetFirst(c)

Set(c) ==
  /\ pc[c] = "set"
  /\ default' = SetFirst(c)
  /\ ran' = [ran EXCEPT ![c] = Entered(c)]
  /\ own' = [own EXCEPT ![c] = NoPool]
  /\ Goto(c, "ready")
  /\ UNCHANGED <<size, registering, held, asked, asks>>

-----------------------------------------------------------------------------
New(c)   == Lock(c) \/ Share(c) \/ Sweep(c) \/ Build(c) \/ BuildFails(c)
First(c) == (\E n \in Sizes : BuildFirst(c, n)) \/ FirstFails(c) \/ Set(c)

Next ==
  \E c \in Callers :
    \/ \E n \in Sizes \cup {0} : Ask(c, n)
    \/ AskDefault(c) \/ Enter(c)
    \/ \E d \in Callers : Clone(c, d)
    \/ New(c) \/ First(c)

Spec == Init /\ [][Next]_vars

\* A thread inside a call goes on with it.
FairSpec == Spec /\ \A c \in Callers : WF_vars(New(c)) /\ WF_vars(First(c))

-----------------------------------------------------------------------------
Handles == [kind : {"process", "default", "sized"}, pool : Pools \cup {NoPool},
            n : Sizes \cup {0}]

TypeOK ==
  /\ default \in Pools \cup {NoPool}
  /\ size \in [Pools -> Sizes \cup {0}]
  /\ registry \in [Sizes -> Pools \cup {NoPool}]
  /\ lock \in Callers \cup {NoCaller}
  /\ held \in [Callers -> Handles]
  /\ pc \in [Callers -> {"ready", "lock", "upgrade", "build", "first", "set"}]
  /\ asked \in [Callers -> Sizes \cup {0}]
  /\ \A c \in Callers : pc[c] \in {"lock", "upgrade", "build"} => asked[c] \in Sizes
  /\ own \in [Callers -> Pools \cup {NoPool}]
  /\ ran \in [Callers -> Pools \cup {NoPool}]
  /\ asks \in [Callers -> 0 .. MaxAsks]

\* "Every holder of n shares one pool": however asks, builds that fail or
\* panic, and the letting go of the last handle interleave, no two sized pools
\* of one size are held at once (Threads::new, the lock and the upgrade).
OnePoolPerSize ==
  \A c, d \in Callers :
    HoldsSized(c) /\ HoldsSized(d) /\ held[c].n = held[d].n => held[c].pool = held[d].pool

\* A holder of n runs on n threads, whether the pool came from the registry, a
\* clone or the process default, and also after its identity's earlier pool
\* went (Threads::asked).
HeldAsAsked ==
  \A c \in Callers : held[c].kind # "process" =>
    held[c].pool \in Pools /\ held[c].n \in Sizes /\ size[held[c].pool] = held[c].n

\* The registry never loses a pool that is held: a sweep, a failed build or a
\* panic leaves the entry of every live size, so the next ask for it shares.
RegistryFindsHeld ==
  \A c \in Callers : HoldsSized(c) => registry[held[c].n] = held[c].pool

\* All that runs on the process default runs on one pool, the one set first,
\* when several first calls built one each, and a handle that stands for the
\* default by its size is that pool too (pool(), Held::Default).
OneDefault ==
  \A c \in Callers :
    /\ ran[c] # NoPool => ran[c] = default
    /\ held[c].kind = "default" => held[c].pool = default

\* Once set, the process default and its size stay: the variable set later is
\* ignored, and no other build takes over the pool's identity.
DefaultStays == [][default # NoPool => default' = default /\ size'[default] = size[default]]_vars

\* Every ask for a size comes back, with a pool or an error, also behind a
\* build that panicked with the mutex held.  The asks are finitely many, so the
\* mutex is not contended for ever.
AskReturns == \A c \in Callers : pc[c] = "lock" ~> pc[c] = "ready"
=============================================================================
