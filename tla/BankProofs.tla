----------------------------- MODULE BankProofs -----------------------------
(***************************************************************************)
(* Theorems about Bank, for any setups, keys, sessions and room for refits.*)
(***************************************************************************)
EXTENDS Bank, SequenceTheorems, FiniteSetTheorems, WellFoundedInduction, TLAPS

-----------------------------------------------------------------------------
(* Numbers, orders and sequences                                           *)

(* A set of naturals that is not empty has a least one: of the intervals   *)
(* up to its members one contains no other.                                *)
LEMMA Least ==
  ASSUME NEW T, T \subseteq Nat, T # {}
  PROVE  \E n \in T : \A m \in T : n <= m
<1> DEFINE Up == {1..n : n \in T}
<1>1. Up \subseteq FiniteSubsetsOf(Nat) /\ Up # {}
  <2>1. \A n \in T : IsFiniteSet(1..n) /\ 1..n \in SUBSET Nat
    BY FS_Interval
  <2> QED BY <2>1 DEF FiniteSubsetsOf
<1>2. IsWellFoundedOn(StrictSubsetOrdering(Nat), FiniteSubsetsOf(Nat))
  BY FS_StrictSubsetOrderingWellFounded
<1>3. PICK x \in Up : \A y \in Up : ~(<<y, x>> \in StrictSubsetOrdering(Nat))
  <2> HIDE DEF Up
  <2> QED BY <1>1, <1>2, WFMin
<1>4. PICK n \in T : x = 1..n
  BY <1>3
<1>5. ASSUME NEW m \in T PROVE n <= m
  <2> SUFFICES ASSUME m < n PROVE FALSE
    BY <1>4
  <2>1. m \in Nat /\ n \in Nat
    BY <1>4
  <2>2. 1..m \subseteq 1..n /\ n \in 1..n /\ n \notin 1..m
    BY <2>1
  <2>3. 1..m \in Up /\ 1..m \in SUBSET Nat /\ 1..n \in SUBSET Nat
    BY <2>1
  <2>4. <<1..m, 1..n>> \in StrictSubsetOrdering(Nat)
    BY <2>2, <2>3 DEF StrictSubsetOrdering
  <2> QED BY <1>3, <1>4, <2>3, <2>4
<1> QED BY <1>4, <1>5

(* A set of naturals with 0 and each member's successor is all of them.    *)
LEMMA Induct ==
  ASSUME NEW T, T \subseteq Nat, 0 \in T, \A n \in T : n + 1 \in T
  PROVE  T = Nat
<1> SUFFICES ASSUME Nat \ T # {} PROVE FALSE
  OBVIOUS
<1>1. PICK n \in Nat \ T : \A m \in Nat \ T : n <= m
  BY Least
<1>2. n - 1 \in Nat /\ n - 1 \in T
  BY <1>1
<1> QED BY <1>1, <1>2

(* In a finite set with a strict order (its pairs are R), the n-th member  *)
(* is the one with n - 1 before it: there is one, and every member is one. *)
Rank(S, R, x) == Cardinality({y \in S : <<y, x>> \in R})
IsOrder(S, R) ==
  /\ \A x \in S : <<x, x>> \notin R
  /\ \A x, y \in S : x # y => <<x, y>> \in R \/ <<y, x>> \in R
  /\ \A x, y, z \in S : <<x, y>> \in R /\ <<y, z>> \in R => <<x, z>> \in R

LEMMA RankGrows ==
  ASSUME NEW S, IsFiniteSet(S), NEW R, IsOrder(S, R),
         NEW x \in S, NEW y \in S, <<x, y>> \in R
  PROVE  Rank(S, R, x) \in Nat /\ Rank(S, R, y) \in Nat /\ Rank(S, R, x) < Rank(S, R, y)
<1> DEFINE Below(v) == {u \in S : <<u, v>> \in R}
<1>1. IsFiniteSet(Below(x)) /\ IsFiniteSet(Below(y))
  BY FS_Subset
<1>2. Below(x) \subseteq Below(y) /\ x \in Below(y) /\ x \notin Below(x)
  BY DEF IsOrder
<1>3. Cardinality(Below(x)) \in Nat /\ Cardinality(Below(y)) \in Nat
  BY <1>1, FS_CardinalityType
<1>4. Cardinality(Below(x)) <= Cardinality(Below(y)) /\ Cardinality(Below(x)) # Cardinality(Below(y))
  <2> HIDE DEF Below
  <2> QED BY <1>1, <1>2, FS_Subset
<1> QED BY <1>3, <1>4 DEF Rank

LEMMA RankInjective ==
  ASSUME NEW S, IsFiniteSet(S), NEW R, IsOrder(S, R), NEW x \in S, NEW y \in S,
         Rank(S, R, x) = Rank(S, R, y)
  PROVE  x = y
<1> SUFFICES ASSUME x # y PROVE FALSE
  OBVIOUS
<1>1. <<x, y>> \in R \/ <<y, x>> \in R
  BY DEF IsOrder
<1>2. CASE <<x, y>> \in R
  BY <1>2, RankGrows
<1>3. CASE <<y, x>> \in R
  BY <1>3, RankGrows
<1> QED BY <1>1, <1>2, <1>3

LEMMA RankBelowSize ==
  ASSUME NEW S, IsFiniteSet(S), NEW R, IsOrder(S, R), NEW x \in S
  PROVE  Rank(S, R, x) \in 0..(Cardinality(S) - 1)
<1> DEFINE Below == {u \in S : <<u, x>> \in R}
<1>1. Below \subseteq S /\ x \notin Below
  BY DEF IsOrder
<1>2. IsFiniteSet(Below) /\ Cardinality(Below) <= Cardinality(S) /\ Cardinality(Below) # Cardinality(S)
  <2> HIDE DEF Below
  <2> QED BY <1>1, FS_Subset
<1>3. Cardinality(Below) \in Nat /\ Cardinality(S) \in Nat
  BY <1>2, FS_CardinalityType
<1> QED BY <1>2, <1>3 DEF Rank

LEMMA RankOnto ==
  ASSUME NEW S, IsFiniteSet(S), NEW R, IsOrder(S, R), NEW n \in 1..Cardinality(S)
  PROVE  \E x \in S : Rank(S, R, x) = n - 1
<1> DEFINE f == [x \in S |-> Rank(S, R, x)]
           T == 0..(Cardinality(S) - 1)
<1>1. Cardinality(S) \in Nat
  BY FS_CardinalityType
<1>2. f \in [S -> T]
  BY RankBelowSize
<1>3. \A x, y \in S : f[x] = f[y] => x = y
  BY RankInjective
<1>4. f \in Injection(S, T)
  BY <1>2, <1>3 DEF Injection, IsInjective
<1>5. IsFiniteSet(T) /\ Cardinality(T) = Cardinality(S)
  <2>1. 0 \in Int /\ Cardinality(S) - 1 \in Int
    BY <1>1
  <2>2. /\ IsFiniteSet(T)
        /\ Cardinality(T) = IF 0 > Cardinality(S) - 1 THEN 0 ELSE (Cardinality(S) - 1) - 0 + 1
    BY <2>1, FS_Interval
  <2> QED BY <1>1, <2>2
<1>6. f \in Surjection(S, T)
  <2> HIDE DEF f, T
  <2> QED BY <1>4, <1>5, FS_Injection
<1>7. n - 1 \in T
  BY <1>1
<1>8. \E x \in S : f[x] = n - 1
  BY <1>6, <1>7 DEF Surjection
<1> QED BY <1>8

(* A sequence that names the n-th member at place n has them all, in order.*)
InRank(q, S, R) ==
  q = [n \in 1..Cardinality(S) |-> CHOOSE x \in S : Rank(S, R, x) = n - 1]

LEMMA RankSorts ==
  ASSUME NEW S, IsFiniteSet(S), NEW R, IsOrder(S, R), NEW q, InRank(q, S, R)
  PROVE  /\ q \in [1..Cardinality(S) -> S]
         /\ \A a, b \in 1..Cardinality(S) : a < b => <<q[a], q[b]>> \in R
         /\ \A x \in S : \E n \in 1..Cardinality(S) : q[n] = x
<1>0. Cardinality(S) \in Nat
  BY FS_CardinalityType
<1>1. ASSUME NEW n \in 1..Cardinality(S) PROVE q[n] \in S /\ Rank(S, R, q[n]) = n - 1
  <2>1. \E x \in S : Rank(S, R, x) = n - 1
    BY RankOnto
  <2>2. q[n] = CHOOSE x \in S : Rank(S, R, x) = n - 1
    BY DEF InRank
  <2> QED BY <2>1, <2>2
<1>2. q \in [1..Cardinality(S) -> S]
  BY <1>1 DEF InRank
<1>3. ASSUME NEW a \in 1..Cardinality(S), NEW b \in 1..Cardinality(S), a < b
      PROVE  <<q[a], q[b]>> \in R
  <2>1. q[a] \in S /\ q[b] \in S /\ Rank(S, R, q[a]) = a - 1 /\ Rank(S, R, q[b]) = b - 1
    BY <1>1
  <2>2. a \in Int /\ b \in Int
    BY <1>0
  <2>3. q[a] # q[b]
    BY <1>3, <2>1, <2>2
  <2>4. CASE <<q[b], q[a]>> \in R
    <3>1. Rank(S, R, q[b]) < Rank(S, R, q[a])
      BY <2>1, <2>4, RankGrows
    <3> QED BY <1>3, <2>1, <2>2, <3>1
  <2> QED BY <2>1, <2>3, <2>4 DEF IsOrder
<1>4. ASSUME NEW x \in S PROVE \E n \in 1..Cardinality(S) : q[n] = x
  <2>1. Rank(S, R, x) \in 0..(Cardinality(S) - 1)
    BY RankBelowSize
  <2>2. PICK n \in 1..Cardinality(S) : n - 1 = Rank(S, R, x)
    <3>1. Rank(S, R, x) + 1 \in 1..Cardinality(S) /\ (Rank(S, R, x) + 1) - 1 = Rank(S, R, x)
      BY <1>0, <2>1
    <3> QED BY <3>1
  <2>3. q[n] \in S /\ Rank(S, R, q[n]) = Rank(S, R, x)
    BY <1>1, <2>2
  <2> QED BY <2>3, RankInjective
<1> QED BY <1>2, <1>3, <1>4

(* Ascending lists the members of a finite set of naturals from the least. *)
LEMMA AscendingSorts ==
  ASSUME NEW S, IsFiniteSet(S), S \subseteq Nat
  PROVE  /\ Cardinality(S) \in Nat
         /\ Ascending(S) \in [1..Cardinality(S) -> S]
         /\ Ascending(S) \in Seq(S) /\ Len(Ascending(S)) = Cardinality(S)
         /\ \A a, b \in 1..Cardinality(S) : a < b => Ascending(S)[a] < Ascending(S)[b]
         /\ \A x \in S : \E n \in 1..Cardinality(S) : Ascending(S)[n] = x
<1> DEFINE R == {p \in S \X S : p[1] < p[2]}
<1>1. \A a, b \in S : <<a, b>> \in R <=> a < b
  OBVIOUS
<1>2. IsOrder(S, R)
  <2> HIDE DEF R
  <2> QED BY <1>1 DEF IsOrder
<1>3. InRank(Ascending(S), S, R)
  <2>1. \A x \in S : {y \in S : y < x} = {y \in S : <<y, x>> \in R}
    BY <1>1
  <2>2. \A n : (CHOOSE x \in S : Cardinality({y \in S : y < x}) = n - 1)
               = CHOOSE x \in S : Rank(S, R, x) = n - 1
    <3> HIDE DEF R
    <3>1. \A x \in S : Cardinality({y \in S : y < x}) = Rank(S, R, x)
      BY <2>1 DEF Rank
    <3> QED BY <3>1
  <2> HIDE DEF R
  <2> QED BY <2>2 DEF Ascending, Sorted, InRank
<1>4. Cardinality(S) \in Nat
  BY FS_CardinalityType
<1>5. /\ Ascending(S) \in [1..Cardinality(S) -> S]
      /\ \A a, b \in 1..Cardinality(S) : a < b => <<Ascending(S)[a], Ascending(S)[b]>> \in R
      /\ \A x \in S : \E n \in 1..Cardinality(S) : Ascending(S)[n] = x
  <2> HIDE DEF R
  <2> QED BY <1>2, <1>3, RankSorts
<1>6. \A a, b \in 1..Cardinality(S) : a < b => Ascending(S)[a] < Ascending(S)[b]
  BY <1>1, <1>5
<1>7. Ascending(S) \in Seq(S) /\ Len(Ascending(S)) = Cardinality(S)
  <2> HIDE DEF R
  <2> QED BY <1>4, <1>5
<1> QED BY <1>4, <1>5, <1>6, <1>7

(* FlattenSeq's recursion has a solution, which yields sequences.          *)
Flattens(f, seqs, n) ==
  \A i \in 1..n : f[i] = IF i = 1 THEN seqs[i] ELSE f[i - 1] \o seqs[i]

LEMMA FlattenStep ==
  ASSUME NEW S, NEW n \in Nat, NEW seqs \in [1..n -> Seq(S)]
  PROVE  \E f \in [1..n -> Seq(S)] : Flattens(f, seqs, n)
<1> DEFINE Good(m, f) == Flattens(f, seqs, m)
           T == {m \in Nat : m <= n => \E f \in [1..m -> Seq(S)] : Good(m, f)}
<1>1. 0 \in T
  <2>1. [i \in 1..0 |-> <<>>] \in [1..0 -> Seq(S)]
    OBVIOUS
  <2>2. Good(0, [i \in 1..0 |-> <<>>])
    BY DEF Flattens
  <2> QED BY <2>1, <2>2
<1>2. ASSUME NEW m \in T PROVE m + 1 \in T
  <2>a. m \in Nat /\ m + 1 \in Nat
    <3> HIDE DEF Good
    <3> QED BY <1>2
  <2> SUFFICES ASSUME m + 1 <= n PROVE \E f \in [1..(m + 1) -> Seq(S)] : Good(m + 1, f)
    <3> HIDE DEF Good
    <3> QED BY <2>a
  <2>0. m \in Nat /\ m <= n
    BY <2>a
  <2>1. PICK f \in [1..m -> Seq(S)] : Good(m, f)
    <3> HIDE DEF Good
    <3> QED BY <1>2, <2>0
  <2>2. seqs[m + 1] \in Seq(S)
    BY <2>0
  <2> DEFINE last == IF m = 0 THEN seqs[m + 1] ELSE f[m] \o seqs[m + 1]
             g == [i \in 1..(m + 1) |-> IF i = m + 1 THEN last ELSE f[i]]
  <2>3. last \in Seq(S)
    <3>1. m # 0 => f[m] \in Seq(S)
      BY <2>0
    <3> QED BY <2>2, <3>1, ConcatProperties
  <2>4. g \in [1..(m + 1) -> Seq(S)]
    <3> HIDE DEF last
    <3> QED BY <2>0, <2>3
  <2>5. ASSUME NEW i \in 1..(m + 1)
        PROVE  g[i] = IF i = 1 THEN seqs[i] ELSE g[i - 1] \o seqs[i]
    <3>1. CASE i = m + 1
      BY <2>0, <3>1
    <3>2. CASE i # m + 1
      <4>1. i \in 1..m /\ (i # 1 => i - 1 \in 1..m /\ i - 1 # m + 1 /\ i - 1 \in 1..(m + 1))
        BY <2>0, <3>2
      <4>2. g[i] = f[i] /\ (i # 1 => g[i - 1] = f[i - 1])
        BY <3>2, <4>1
      <4> QED BY <2>1, <4>1, <4>2 DEF Flattens
    <3> QED BY <3>1, <3>2
  <2>6. Good(m + 1, g)
    BY <2>5 DEF Flattens
  <2> HIDE DEF g, Good
  <2> QED BY <2>4, <2>6
<1>3. n \in T
  <2> HIDE DEF T
  <2>1. T \subseteq Nat
    BY DEF T
  <2> QED BY <1>1, <1>2, <2>1, Induct
<1> QED BY <1>3

(* FlattenSeq yields that solution's last one.                             *)
LEMMA FlattenIs ==
  ASSUME NEW S, NEW n \in Nat, NEW seqs \in [1..n -> Seq(S)]
  PROVE  \E f \in [1..n -> Seq(S)] :
           Flattens(f, seqs, n) /\ FlattenSeq(seqs) = IF n = 0 THEN <<>> ELSE f[n]
<1>1. seqs \in Seq(Seq(S)) /\ Len(seqs) = n
  OBVIOUS
<1>2. CASE n = 0
  <2>1. seqs = <<>>
    BY <1>1, <1>2
  <2>2. FlattenSeq(seqs) = <<>>
    BY <2>1 DEF FlattenSeq
  <2>3. PICK f \in [1..n -> Seq(S)] : Flattens(f, seqs, n)
    BY FlattenStep
  <2> QED BY <1>2, <2>2, <2>3
<1>3. CASE n # 0
  <2> DEFINE E(f) == [i \in 1..n |-> IF i = 1 THEN seqs[i] ELSE f[i - 1] \o seqs[i]]
             h == CHOOSE f : f = E(f)
  <2>0. PICK f \in [1..n -> Seq(S)] : Flattens(f, seqs, n)
    BY FlattenStep
  <2>1. f = E(f)
    BY <2>0 DEF Flattens
  <2>2. h = E(h)
    <3> HIDE DEF E
    <3> QED BY <2>1
  <2>3. FlattenSeq(seqs) = h[n]
    BY <1>1, <1>3 DEF FlattenSeq
  <2>4. \A m \in 1..n : h[m] = f[m]
    <3> DEFINE T == {m \in Nat : m \in 1..n => h[m] = f[m]}
    <3>1. 0 \in T
      OBVIOUS
    <3>2. ASSUME NEW m \in T PROVE m + 1 \in T
      <4> SUFFICES ASSUME m + 1 \in 1..n PROVE h[m + 1] = f[m + 1]
        OBVIOUS
      <4>1. h[m + 1] = IF m + 1 = 1 THEN seqs[m + 1] ELSE h[(m + 1) - 1] \o seqs[m + 1]
        <5> HIDE DEF h
        <5> QED BY <2>2
      <4>2. f[m + 1] = IF m + 1 = 1 THEN seqs[m + 1] ELSE f[(m + 1) - 1] \o seqs[m + 1]
        BY <2>1
      <4>3. m + 1 # 1 => (m + 1) - 1 = m /\ m \in 1..n
        BY <3>2
      <4> HIDE DEF h, E
      <4> QED BY <3>2, <4>1, <4>2, <4>3
    <3>3. T \subseteq Nat
      OBVIOUS
    <3> HIDE DEF T
    <3>4. T = Nat
      BY <3>1, <3>2, <3>3, Induct
    <3>5. ASSUME NEW m \in 1..n PROVE h[m] = f[m]
      <4>1. m \in T
        BY <3>4
      <4> HIDE DEF h, E
      <4> QED BY <4>1 DEF T
    <3> QED BY <3>5
  <2>5. n \in 1..n
    BY <1>3
  <2>6. FlattenSeq(seqs) = f[n]
    <3> HIDE DEF h, E
    <3> QED BY <2>3, <2>4, <2>5
  <2> HIDE DEF h, E
  <2> QED BY <1>3, <2>0, <2>6
<1> QED BY <1>2, <1>3

(* FlattenSeq yields a sequence of what its sequences hold.                *)
LEMMA FlattenType ==
  ASSUME NEW S, NEW n \in Nat, NEW seqs \in [1..n -> Seq(S)]
  PROVE  FlattenSeq(seqs) \in Seq(S)
<1>1. PICK f \in [1..n -> Seq(S)] :
        Flattens(f, seqs, n) /\ FlattenSeq(seqs) = IF n = 0 THEN <<>> ELSE f[n]
  BY FlattenIs
<1>2. n # 0 => f[n] \in Seq(S)
  OBVIOUS
<1> QED BY <1>1, <1>2, EmptySeq

-----------------------------------------------------------------------------
(* The types of a bank's parts                                             *)

Notice == [spec : SpecIds, group : Keys, row : 1..MaxFed, span : Sessions \cup {None}]
Stream == [rows : Seq(1..MaxFed), session : Sessions \cup {None}, pending : Seq(Notice),
           givenUp : BOOLEAN]
Streams == UNION {[K -> Stream] : K \in FiniteSubsetsOf(Keys)}

(* The rows of a chunk that fits: the rows the bank has are base, and those*)
(* of the chunk come after them.                                           *)
Fits(rows, base) == rows \in Chunks /\ base \in Nat /\ base + Len(rows) <= MaxFed

LEMMA SetupTyped ==
  ASSUME setup \in Setups
  PROVE  /\ Specs \in Seq(SpecKinds) /\ Len(Specs) \in Nat /\ SpecIds = 1..Len(Specs)
         /\ \A i \in SpecIds : Specs[i] \in SpecKinds
         /\ MaxRows \in Nat /\ MaxFed \in Nat /\ NoticeAt \in Nat \ {0}
         /\ setup.sessions \subseteq Sessions /\ Sessions \subseteq Nat \ {0}
         /\ Keys \subseteq Nat \ {0} /\ RefitRoom \in Nat
<1>1. Specs \in Seq(SpecKinds)
  BY SpecsAssumption DEF Specs
<1>2. Len(Specs) \in Nat /\ SpecIds = 1..Len(Specs) /\ \A i \in SpecIds : Specs[i] \in SpecKinds
  <2> HIDE DEF SpecKinds
  <2> QED BY <1>1, LenProperties DEF SpecIds
<1> QED BY <1>1, <1>2, ValuesAssumption DEF MaxRows, MaxFed, NoticeAt

LEMMA RowsTyped ==
  ASSUME setup \in Setups, NEW rows \in Chunks
  PROVE  /\ Len(rows) \in 0..MaxRows /\ Len(rows) \in Nat /\ DOMAIN rows = 1..Len(rows)
         /\ \A n \in 1..Len(rows) : rows[n].g \in Keys /\ rows[n].s \in Sessions /\ rows[n].s # None
<1>1. PICK n \in 0..MaxRows : rows \in [1..n -> Row]
  BY DEF Chunks
<1>2. n \in Nat /\ DOMAIN rows = 1..n
  BY <1>1, SetupTyped
<1>3. Len(rows) = n
  BY <1>1, <1>2
<1>4. \A m \in 1..n : rows[m] \in Row
  BY <1>1
<1>5. \A m \in 1..n : rows[m].g \in Keys /\ rows[m].s \in setup.sessions
  BY <1>4 DEF Row
<1> QED BY <1>1, <1>2, <1>3, <1>5, SetupTyped DEF None

(* A chunk's groups are finitely many keys.                                *)
LEMMA GroupsTyped ==
  ASSUME setup \in Setups, NEW rows \in Chunks
  PROVE  GroupsIn(rows) \in FiniteSubsetsOf(Keys)
<1> DEFINE S == DOMAIN rows
           f == [n \in S |-> rows[n].g]
<1>1. S = 1..Len(rows) /\ Len(rows) \in Nat
  BY RowsTyped
<1>2. IsFiniteSet(S)
  BY <1>1, FS_Interval
<1>3. f \in Surjection(S, GroupsIn(rows))
  BY DEF Surjection, GroupsIn
<1>4. IsFiniteSet(GroupsIn(rows))
  <2> HIDE DEF f, S
  <2> QED BY <1>2, <1>3, FS_Surjection
<1>5. GroupsIn(rows) \subseteq Keys
  BY <1>1, RowsTyped DEF GroupsIn
<1> QED BY <1>4, <1>5 DEF FiniteSubsetsOf

(* A group's rows are places of the chunk, in order, and one at least.     *)
LEMMA OwnTyped ==
  ASSUME setup \in Setups, NEW rows \in Chunks, NEW k
  PROVE  /\ RowsOf(rows, k) \in Seq(1..Len(rows))
         /\ \A a, b \in 1..Len(RowsOf(rows, k)) :
              a < b => RowsOf(rows, k)[a] < RowsOf(rows, k)[b]
         /\ \A a \in 1..Len(RowsOf(rows, k)) : rows[RowsOf(rows, k)[a]].g = k
         /\ k \in GroupsIn(rows) => RowsOf(rows, k) # <<>>
<1> DEFINE S == {n \in DOMAIN rows : rows[n].g = k}
<1>1. DOMAIN rows = 1..Len(rows) /\ Len(rows) \in Nat
  BY RowsTyped
<1>2. S \subseteq 1..Len(rows) /\ S \subseteq Nat /\ \A n \in S : rows[n].g = k
  BY <1>1
<1>3. IsFiniteSet(S)
  <2>1. IsFiniteSet(1..Len(rows))
    BY <1>1, FS_Interval
  <2> HIDE DEF S
  <2> QED BY <1>2, <2>1, FS_Subset
<1>4. k \in GroupsIn(rows) => S # {}
  BY DEF GroupsIn
<1>5. RowsOf(rows, k) = Ascending(S)
  BY DEF RowsOf
<1> HIDE DEF S
<1>6. /\ Cardinality(S) \in Nat
      /\ Ascending(S) \in [1..Cardinality(S) -> S]
      /\ Ascending(S) \in Seq(S) /\ Len(Ascending(S)) = Cardinality(S)
      /\ \A a, b \in 1..Cardinality(S) : a < b => Ascending(S)[a] < Ascending(S)[b]
      /\ \A x \in S : \E n \in 1..Cardinality(S) : Ascending(S)[n] = x
  BY <1>2, <1>3, AscendingSorts
<1>7. Ascending(S) \in Seq(1..Len(rows))
  BY <1>2, <1>6, SeqMonotonic
<1>8. S # {} => Ascending(S) # <<>>
  <2>1. Len(<<>>) = 0
    OBVIOUS
  <2> QED BY <1>6, <2>1
<1>9. \A a \in 1..Len(Ascending(S)) : rows[Ascending(S)[a]].g = k
  BY <1>2, <1>6
<1> QED BY <1>4, <1>5, <1>6, <1>7, <1>8, <1>9

(* The last of the bounds up to j.                                         *)
LEMMA LastCut ==
  ASSUME NEW j \in Nat, NEW cuts, cuts \subseteq 1..j, cuts # {}
  PROVE  (CHOOSE b \in cuts : \A c \in cuts : c <= b) \in cuts
<1> DEFINE T == {j - c : c \in cuts}
<1>0. \A c \in cuts : c \in Int /\ 1 <= c /\ c <= j
  <2>1. ASSUME NEW c \in cuts PROVE c \in 1..j
    OBVIOUS
  <2> QED BY <2>1
<1>1. T \subseteq Nat /\ T # {}
  <2>1. \A c \in cuts : j - c \in Nat
    BY <1>0
  <2> QED BY <2>1
<1>2. PICK n \in T : \A m \in T : n <= m
  <2> HIDE DEF T
  <2> QED BY <1>1, Least
<1>3. PICK b \in cuts : n = j - b
  BY <1>2
<1>4. \A c \in cuts : c <= b
  <2>1. \A c \in cuts : j - b <= j - c
    BY <1>2, <1>3
  <2> QED BY <1>0, <2>1
<1> QED BY <1>4

(* A span holds rows of the bank: the ones it had, and the chunk's.        *)
LEMMA SpanTyped ==
  ASSUME setup \in Setups, NEW rows, NEW base, Fits(rows, base), NEW st \in Stream,
         NEW own \in Seq(1..Len(rows)), NEW bounds, bounds \subseteq DOMAIN own,
         NEW j \in 0..Len(own)
  PROVE  Span(st, own, base, bounds, j) \in Seq(1..MaxFed)
<1> DEFINE cuts == {b \in bounds : b <= j}
           first == IF cuts = {} THEN 1 ELSE CHOOSE b \in cuts : \A c \in cuts : c <= b
           head == IF cuts = {} THEN st.rows ELSE <<>>
           tail == [n \in 1..(j + 1 - first) |-> base + own[first + n - 1]]
<1>1. Len(own) \in Nat /\ DOMAIN own = 1..Len(own) /\ own \in [1..Len(own) -> 1..Len(rows)]
  BY LenProperties
<1>2. Len(rows) \in Nat /\ base \in Nat /\ base + Len(rows) <= MaxFed /\ MaxFed \in Nat
  BY RowsTyped, SetupTyped DEF Fits
<1>3. j \in Nat /\ j <= Len(own)
  BY <1>1
<1>4. cuts \subseteq 1..j
  BY <1>1, <1>3
<1>5. cuts # {} => first \in cuts
  BY <1>3, <1>4, LastCut
<1>6. first \in Nat /\ first >= 1
  <2> HIDE DEF first
  <2>1. cuts = {} => first = 1
    BY DEF first
  <2> QED BY <1>3, <1>4, <1>5, <2>1
<1>7. ASSUME NEW n \in 1..(j + 1 - first) PROVE base + own[first + n - 1] \in 1..MaxFed
  <2> HIDE DEF first
  <2>1. first + n - 1 \in 1..Len(own)
    BY <1>1, <1>3, <1>6
  <2>2. own[first + n - 1] \in 1..Len(rows)
    BY <1>1, <2>1
  <2> QED BY <1>2, <2>2
<1>8. tail \in Seq(1..MaxFed)
  <2> HIDE DEF first
  <2>1. j + 1 - first \in Int
    BY <1>3, <1>6
  <2>2. CASE j + 1 - first \in Nat
    <3>1. PICK m \in Nat : m = j + 1 - first
      BY <2>2
    <3>2. tail \in [1..m -> 1..MaxFed]
      BY <1>7, <3>1
    <3> HIDE DEF tail
    <3> QED BY <1>2, <3>2
  <2>3. CASE j + 1 - first < 0
    <3>1. 1..(j + 1 - first) = {} /\ 1..0 = {}
      BY <2>1, <2>3
    <3>2. tail = [n \in 1..0 |-> base + own[first + n - 1]]
      BY <3>1
    <3>3. [n \in 1..0 |-> base + own[first + n - 1]] \in [1..0 -> 1..MaxFed]
      BY <3>1
    <3>4. 0 \in Nat /\ tail \in [1..0 -> 1..MaxFed]
      <4> HIDE DEF tail
      <4> QED BY <3>2, <3>3
    <3> HIDE DEF tail
    <3> QED BY <3>4, SeqDef
  <2> QED BY <2>1, <2>2, <2>3
<1>9. head \in Seq(1..MaxFed)
  BY EmptySeq DEF Stream
<1>10. head \o tail \in Seq(1..MaxFed)
  <2> HIDE DEF head, tail
  <2> QED BY <1>8, <1>9, ConcatProperties
<1> QED BY <1>10 DEF Span

(* The notices a stream's rows raise name places of the chunk.             *)
LEMMA RaisedTyped ==
  ASSUME setup \in Setups, NEW rows, NEW base, Fits(rows, base), NEW st \in Stream,
         NEW own \in Seq(1..Len(rows)), NEW i \in SpecIds, NEW k \in Keys
  PROVE  /\ Raised(i, k, rows, st, own, base) \in Seq(Notice)
         /\ \A n \in DOMAIN Raised(i, k, rows, st, own, base) :
              Raised(i, k, rows, st, own, base)[n].row - base \in 1..Len(rows)
<1> DEFINE S == {j \in DOMAIN own : Len(Span(st, own, base, Bounds(i, rows, st, own), j)) = NoticeAt}
           at == Ascending(S)
           said == [n \in DOMAIN at |-> [spec |-> i, group |-> k, row |-> base + own[at[n]],
                                         span |-> None]]
<1>1. Len(own) \in Nat /\ DOMAIN own = 1..Len(own) /\ own \in [1..Len(own) -> 1..Len(rows)]
  BY LenProperties
<1>2. Len(rows) \in Nat /\ base \in Nat /\ base + Len(rows) <= MaxFed /\ MaxFed \in Nat
  BY RowsTyped, SetupTyped DEF Fits
<1>3. S \subseteq 1..Len(own) /\ S \subseteq Nat /\ IsFiniteSet(S)
  <2>1. S \subseteq 1..Len(own) /\ S \subseteq Nat
    BY <1>1
  <2>2. IsFiniteSet(1..Len(own))
    BY <1>1, FS_Interval
  <2> HIDE DEF S
  <2> QED BY <2>1, <2>2, FS_Subset
<1>4. Cardinality(S) \in Nat /\ at \in [1..Cardinality(S) -> S]
  <2> HIDE DEF S
  <2> QED BY <1>3, AscendingSorts
<1>5. Raised(i, k, rows, st, own, base) = said
  BY DEF Raised
<1>6. ASSUME NEW n \in 1..Cardinality(S) PROVE own[at[n]] \in 1..Len(rows)
  <2> HIDE DEF S, at
  <2>1. at[n] \in 1..Len(own)
    BY <1>3, <1>4
  <2> QED BY <1>1, <2>1
<1>7. ASSUME NEW n \in 1..Cardinality(S)
      PROVE  said[n] \in Notice /\ said[n].row - base \in 1..Len(rows)
  <2> HIDE DEF S, at
  <2>1. own[at[n]] \in 1..Len(rows)
    BY <1>6
  <2>2. base + own[at[n]] \in 1..MaxFed /\ (base + own[at[n]]) - base = own[at[n]]
    BY <1>2, <2>1
  <2>3. said[n] = [spec |-> i, group |-> k, row |-> base + own[at[n]], span |-> None]
    BY <1>4
  <2> HIDE DEF said
  <2> QED BY <2>1, <2>2, <2>3 DEF Notice
<1>8. DOMAIN said = 1..Cardinality(S)
  <2> HIDE DEF S, at
  <2> QED BY <1>4
<1>9. said \in [1..Cardinality(S) -> Notice]
  <2> HIDE DEF S, at
  <2> QED BY <1>7, <1>8
<1>10. said \in Seq(Notice)
  <2>1. PICK m \in Nat : m = Cardinality(S)
    BY <1>4
  <2>2. said \in [1..m -> Notice]
    BY <1>9, <2>1
  <2> HIDE DEF said, S, at
  <2> QED BY <2>2
<1> HIDE DEF said, S, at
<1> QED BY <1>5, <1>7, <1>8, <1>10

LEMMA NamedTyped ==
  ASSUME NEW pending \in Seq(Notice), NEW session \in Sessions \cup {None}
  PROVE  Named(pending, session) \in Seq(Notice)
<1>1. Len(pending) \in Nat /\ DOMAIN pending = 1..Len(pending)
      /\ \A n \in 1..Len(pending) : pending[n] \in Notice
  BY LenProperties
<1>2. ASSUME NEW n \in 1..Len(pending)
      PROVE  (IF pending[n].span = None THEN [pending[n] EXCEPT !.span = session] ELSE pending[n])
             \in Notice
  <2>1. pending[n] \in Notice
    BY <1>1
  <2> QED BY <2>1 DEF Notice
<1>3. Named(pending, session) \in [1..Len(pending) -> Notice]
  BY <1>1, <1>2 DEF Named
<1> QED BY <1>1, <1>3

(* What a stream carries over its spans are notices.                       *)
LEMMA CarriedTyped ==
  ASSUME setup \in Setups, NEW rows, NEW base, Fits(rows, base), NEW st \in Stream,
         NEW said \in Seq(Notice), \A n \in DOMAIN said : said[n].row - base \in 1..Len(rows),
         NEW ends
  PROVE  Carried(st, said, rows, base, ends) \in Seq(Notice)
<1>1. Len(said) \in Nat /\ DOMAIN said = 1..Len(said) /\ \A n \in 1..Len(said) : said[n] \in Notice
  BY LenProperties
<1>2. st.pending \in Seq(Notice) /\ st.session \in Sessions \cup {None}
  BY DEF Stream
<1> DEFINE told == [n \in DOMAIN said |-> IF \E e \in ends : said[n].row < e
                              THEN [said[n] EXCEPT !.span = rows[said[n].row - base].s] ELSE said[n]]
<1>3. ASSUME NEW n \in 1..Len(said) PROVE told[n] \in Notice
  <2>1. said[n] \in Notice /\ rows[said[n].row - base].s \in Sessions
    BY <1>1, RowsTyped DEF Fits
  <2>2. [said[n] EXCEPT !.span = rows[said[n].row - base].s] \in Notice
    BY <2>1 DEF Notice
  <2> QED BY <1>1, <2>1, <2>2
<1>4. told \in Seq(Notice)
  <2>1. told \in [1..Len(said) -> Notice]
    BY <1>1, <1>3
  <2> HIDE DEF told
  <2> QED BY <1>1, <2>1
<1>5. Named(st.pending, st.session) \o told \in Seq(Notice)
  <2> HIDE DEF told
  <2> QED BY <1>2, <1>4, NamedTyped, ConcatProperties
<1>6. st.pending \o said \in Seq(Notice)
  BY <1>2, ConcatProperties
<1> QED BY <1>5, <1>6 DEF Carried

(* What a stream learns leaves it a stream, its refits as they were.       *)
LEMMA LearnedTyped ==
  ASSUME setup \in Setups, NEW rows, NEW base, Fits(rows, base), NEW st \in Stream,
         NEW own \in Seq(1..Len(rows)), NEW i \in SpecIds, NEW k \in Keys
  PROVE  /\ Learned(i, k, rows, st, own, base) \in Stream
         /\ Learned(i, k, rows, st, own, base).givenUp = st.givenUp
<1> DEFINE bounds == Bounds(i, rows, st, own)
           said == Raised(i, k, rows, st, own, base)
           span == Span(st, own, base, bounds, Len(own))
           carried == Carried(st, said, rows, base, {base + own[b] : b \in bounds})
           named == IF Specs[i].close = "session" /\ own # <<>> THEN rows[own[Len(own)]].s
                    ELSE st.session
<1>1. Len(own) \in Nat /\ DOMAIN own = 1..Len(own) /\ own \in [1..Len(own) -> 1..Len(rows)]
  BY LenProperties
<1>2. bounds \subseteq DOMAIN own
  BY DEF Bounds, SessionBounds
<1>3. span \in Seq(1..MaxFed)
  <2> HIDE DEF bounds
  <2>1. Len(own) \in 0..Len(own)
    BY <1>1
  <2> QED BY <1>2, <2>1, SpanTyped
<1>4. carried \in Seq(Notice)
  <2> HIDE DEF bounds
  <2> QED BY RaisedTyped, CarriedTyped
<1>5. named \in Sessions \cup {None}
  <2>1. CASE own = <<>>
    BY <2>1 DEF Stream
  <2>2. CASE own # <<>>
    <3>1. Len(own) # 0
      BY <2>2, EmptySeq
    <3>2. own[Len(own)] \in 1..Len(rows)
      BY <1>1, <3>1
    <3> QED BY <3>2, RowsTyped DEF Fits, Stream
  <2> QED BY <2>1, <2>2
<1>6. Learned(i, k, rows, st, own, base) =
        [rows |-> span, session |-> named, pending |-> carried, givenUp |-> st.givenUp]
  BY DEF Learned, StaysGivenUp
<1>7. st.givenUp \in BOOLEAN
  BY DEF Stream
<1> HIDE DEF bounds, said, span, carried, named
<1> QED BY <1>3, <1>4, <1>5, <1>6, <1>7 DEF Stream

(* The places own of a chunk, by the bank's numbers of their rows.         *)
Numbered(own, base) == [n \in DOMAIN own |-> base + own[n]]

(* A stream whose spans do not end takes its rows behind the ones it has.  *)
LEMMA LearnedRows ==
  \A rows, base, st, own, i, k :
    Len(own) \in Nat /\ DOMAIN own = 1..Len(own) /\ Specs[i].close # "session"
    => Learned(i, k, rows, st, own, base).rows = st.rows \o Numbered(own, base)
<1>1. SUFFICES ASSUME NEW rows, NEW base, NEW st, NEW own, NEW i, NEW k,
                      Len(own) \in Nat, DOMAIN own = 1..Len(own), Specs[i].close # "session"
               PROVE  Learned(i, k, rows, st, own, base).rows = st.rows \o Numbered(own, base)
  OBVIOUS
<1>2. Learned(i, k, rows, st, own, base).rows = Span(st, own, base, {}, Len(own))
  BY <1>1 DEF Learned, Bounds
<1>3. Span(st, own, base, {}, Len(own)) =
        st.rows \o [n \in 1..(Len(own) + 1 - 1) |-> base + own[1 + n - 1]]
  BY DEF Span
<1>4. 1..(Len(own) + 1 - 1) = DOMAIN own
  BY <1>1
<1>5. [n \in 1..(Len(own) + 1 - 1) |-> base + own[1 + n - 1]] = [n \in DOMAIN own |-> base + own[n]]
  <2>1. \A n \in DOMAIN own : 1 + n - 1 = n
    BY <1>1
  <2> QED BY <1>4, <2>1
<1> QED BY <1>2, <1>3, <1>5 DEF Numbered

-----------------------------------------------------------------------------
(* The first rows of a chunk's groups, and who gets a buffer               *)

LEMMA FirstRowIs ==
  ASSUME setup \in Setups, NEW rows \in Chunks, NEW k \in GroupsIn(rows)
  PROVE  FirstRow(rows, k) \in 1..Len(rows) /\ rows[FirstRow(rows, k)].g = k
<1> DEFINE T == {n \in DOMAIN rows : rows[n].g = k}
<1>1. DOMAIN rows = 1..Len(rows) /\ Len(rows) \in Nat
  BY RowsTyped
<1>2. T \subseteq Nat /\ T # {}
  BY <1>1 DEF GroupsIn
<1>3. PICK n \in T : \A m \in T : n <= m
  <2> HIDE DEF T
  <2> QED BY <1>2, Least
<1>4. ASSUME NEW m \in 1..(n - 1) PROVE rows[m].g # k
  <2>1. n \in 1..Len(rows)
    BY <1>1, <1>3
  <2>2. m \in DOMAIN rows /\ m < n /\ m \in Int /\ n \in Int
    BY <1>1, <2>1
  <2> QED BY <1>3, <2>2
<1>5. n \in DOMAIN rows /\ rows[n].g = k
  BY <1>3
<1>6. FirstRow(rows, k) \in DOMAIN rows /\ rows[FirstRow(rows, k)].g = k
  <2> HIDE DEF T
  <2> QED BY <1>4, <1>5 DEF FirstRow
<1> QED BY <1>1, <1>6

(* Groups are before each other by their first rows: Before is a rank.     *)
Arrive(rows, S) == {p \in S \X S : FirstRow(rows, p[1]) < FirstRow(rows, p[2])}

LEMMA ArriveOrders ==
  ASSUME setup \in Setups, NEW rows \in Chunks, NEW S, S \subseteq GroupsIn(rows)
  PROVE  /\ IsFiniteSet(S) /\ IsOrder(S, Arrive(rows, S))
         /\ \A k \in S : Before(rows, S, k) = Rank(S, Arrive(rows, S), k)
<1>1. IsFiniteSet(S)
  BY GroupsTyped, FS_Subset DEF FiniteSubsetsOf
<1>2. \A k \in S : FirstRow(rows, k) \in Int /\ rows[FirstRow(rows, k)].g = k
  BY FirstRowIs, RowsTyped
<1>3. \A h, k \in S : <<h, k>> \in Arrive(rows, S) <=> FirstRow(rows, h) < FirstRow(rows, k)
  BY DEF Arrive
<1>4. \A h, k \in S : FirstRow(rows, h) = FirstRow(rows, k) => h = k
  BY <1>2
<1>5. IsOrder(S, Arrive(rows, S))
  BY <1>2, <1>3, <1>4 DEF IsOrder
<1>6. ASSUME NEW k \in S PROVE Before(rows, S, k) = Rank(S, Arrive(rows, S), k)
  <2>1. {h \in S : FirstRow(rows, h) < FirstRow(rows, k)} = {h \in S : <<h, k>> \in Arrive(rows, S)}
    BY <1>3
  <2> QED BY <2>1 DEF Before, Rank
<1> QED BY <1>1, <1>5, <1>6

(* Of an order, those ranked below m are at most m.                        *)
LEMMA RankedBelow ==
  ASSUME NEW S, IsFiniteSet(S), NEW R, IsOrder(S, R), NEW m \in Nat,
         NEW A, A \subseteq S, \A x \in A : Rank(S, R, x) < m
  PROVE  IsFiniteSet(A) /\ Cardinality(A) \in Nat /\ Cardinality(A) <= m
<1> DEFINE f == [x \in A |-> Rank(S, R, x)]
           T == 0..(m - 1)
<1>1. IsFiniteSet(A)
  BY FS_Subset
<1>2. ASSUME NEW x \in A PROVE Rank(S, R, x) \in T
  <2>1. Rank(S, R, x) \in 0..(Cardinality(S) - 1)
    BY RankBelowSize
  <2>2. Rank(S, R, x) \in Nat
    BY <2>1, FS_CardinalityType
  <2> QED BY <2>2
<1>3. \A x, y \in A : f[x] = f[y] => x = y
  BY RankInjective
<1>4. f \in Injection(A, T)
  <2>1. f \in [A -> T]
    BY <1>2
  <2>2. DOMAIN f = A
    OBVIOUS
  <2> HIDE DEF f, T
  <2> QED BY <1>3, <2>1, <2>2 DEF Injection, IsInjective
<1>5. IsFiniteSet(T) /\ Cardinality(T) = m
  <2>1. 0 \in Int /\ m - 1 \in Int
    OBVIOUS
  <2>2. IsFiniteSet(T) /\ Cardinality(T) = IF 0 > m - 1 THEN 0 ELSE (m - 1) - 0 + 1
    BY <2>1, FS_Interval
  <2> QED BY <2>2
<1>6. Cardinality(A) <= Cardinality(T)
  <2> HIDE DEF f, T
  <2> QED BY <1>4, <1>5, FS_Injection
<1> QED BY <1>1, <1>5, <1>6, FS_CardinalityType

(* A call reserves no more buffers than the budget has room for, in the    *)
(* order the groups arrive.                                                *)
LEMMA ReservesFit ==
  ASSUME setup \in Setups, NEW rows \in Chunks, NEW i \in SpecIds, reserved[i] \in 0..RefitRoom
  PROVE  LET taken == {k \in Fresh(i, rows) : Reserves(i, rows, k)}
         IN IsFiniteSet(taken) /\ Cardinality(taken) \in Nat
            /\ reserved[i] + Cardinality(taken) \in 0..RefitRoom
<1> DEFINE S == Fresh(i, rows)
           R == Arrive(rows, S)
           taken == {k \in S : Reserves(i, rows, k)}
<1>0. RefitRoom \in Nat /\ reserved[i] \in Nat /\ reserved[i] <= RefitRoom
  BY SetupTyped
<1>1. S \subseteq GroupsIn(rows)
  BY DEF Fresh
<1>2. IsFiniteSet(S) /\ IsOrder(S, R) /\ \A k \in S : Before(rows, S, k) = Rank(S, R, k)
  <2> HIDE DEF S
  <2> QED BY <1>1, ArriveOrders
<1>3. \A k \in S : Rank(S, R, k) \in Nat
  <2> HIDE DEF S, R
  <2>1. \A k \in S : Rank(S, R, k) \in 0..(Cardinality(S) - 1)
    BY <1>2, RankBelowSize
  <2>2. Cardinality(S) \in Nat
    BY <1>2, FS_CardinalityType
  <2> QED BY <2>1, <2>2
<1>4. ASSUME NEW k \in taken PROVE Rank(S, R, k) < RefitRoom - reserved[i]
  <2>1. k \in S /\ reserved[i] + Before(rows, S, k) < RefitRoom
    BY DEF Reserves
  <2> HIDE DEF S, R
  <2>2. Rank(S, R, k) \in Nat /\ reserved[i] + Rank(S, R, k) < RefitRoom
    BY <1>2, <1>3, <2>1
  <2> QED BY <1>0, <2>2
<1>5. taken \subseteq S /\ RefitRoom - reserved[i] \in Nat
  BY <1>0
<1>6. IsFiniteSet(taken) /\ Cardinality(taken) \in Nat /\ Cardinality(taken) <= RefitRoom - reserved[i]
  <2> HIDE DEF S, R, taken
  <2> QED BY <1>2, <1>4, <1>5, RankedBelow
<1> QED BY <1>0, <1>6

-----------------------------------------------------------------------------
(* Counting the notices that a budget is reached                           *)

BankNotice == [spec : SpecIds, group : Keys, row : 0..MaxFed, span : Sessions \cup {None}]

LEMMA NoticeInBank ==
  ASSUME setup \in Setups
  PROVE  /\ Notice \subseteq BankNotice
         /\ \A q \in Seq(Notice) : q \in Seq(BankNotice) /\ \A n \in DOMAIN q : q[n].row # None
<1>1. MaxFed \in Nat
  BY SetupTyped
<1>2. \A n \in Notice : n \in BankNotice /\ n.row # None
  BY <1>1 DEF Notice, BankNotice, None
<1>3. \A q \in Seq(Notice) : DOMAIN q = 1..Len(q) /\ \A n \in DOMAIN q : q[n] \in Notice
  BY LenProperties
<1> QED BY <1>2, <1>3, SeqMonotonic

LEMMA Shifted ==
  ASSUME NEW S, IsFiniteSet(S), S \subseteq Nat, NEW d \in Nat
  PROVE  LET T == {d + n : n \in S} IN IsFiniteSet(T) /\ Cardinality(T) = Cardinality(S)
<1> DEFINE T == {d + n : n \in S}
           f == [n \in S |-> d + n]
<1>1. f \in Surjection(S, T)
  BY DEF Surjection
<1>2. f \in Injection(S, T)
  BY DEF Injection, IsInjective
<1> HIDE DEF T, f
<1> QED BY <1>1, <1>2, FS_Surjection DEF T

LEMMA RefitsInFinite ==
  ASSUME NEW S, NEW q \in Seq(S), NEW i
  PROVE  /\ IsFiniteSet({n \in DOMAIN q : q[n].row = None /\ q[n].spec = i})
         /\ RefitsIn(q, i) \in Nat
<1> DEFINE A == {n \in DOMAIN q : q[n].row = None /\ q[n].spec = i}
<1>1. DOMAIN q = 1..Len(q) /\ Len(q) \in Nat
  BY LenProperties
<1>2. IsFiniteSet(DOMAIN q)
  BY <1>1, FS_Interval
<1>3. IsFiniteSet(A)
  <2>1. A \subseteq DOMAIN q
    OBVIOUS
  <2> HIDE DEF A
  <2> QED BY <1>2, <2>1, FS_Subset
<1> HIDE DEF A
<1> QED BY <1>3, FS_CardinalityType DEF RefitsIn, A

LEMMA RefitsInConcat ==
  ASSUME NEW S, NEW p \in Seq(S), NEW q \in Seq(S), NEW i
  PROVE  RefitsIn(p \o q, i) = RefitsIn(p, i) + RefitsIn(q, i)
<1> DEFINE At(s) == {n \in DOMAIN s : s[n].row = None /\ s[n].spec = i}
           moved == {Len(p) + n : n \in At(q)}
<1>1. /\ DOMAIN p = 1..Len(p) /\ Len(p) \in Nat /\ DOMAIN q = 1..Len(q) /\ Len(q) \in Nat
      /\ DOMAIN (p \o q) = 1..(Len(p) + Len(q))
      /\ \A n \in 1..(Len(p) + Len(q)) : (p \o q)[n] = IF n <= Len(p) THEN p[n] ELSE q[n - Len(p)]
  <2>1. p \o q \in Seq(S) /\ Len(p \o q) = Len(p) + Len(q)
    BY ConcatProperties
  <2>2. DOMAIN (p \o q) = 1..Len(p \o q)
    BY <2>1, LenProperties
  <2> QED BY <2>1, <2>2, LenProperties, ConcatProperties
<1>2. IsFiniteSet(At(p)) /\ IsFiniteSet(At(q))
  BY RefitsInFinite
<1>3. At(q) \subseteq Nat /\ At(p) \subseteq 1..Len(p)
  BY <1>1
<1>4. IsFiniteSet(moved) /\ Cardinality(moved) = Cardinality(At(q))
  <2> HIDE DEF At
  <2> QED BY <1>1, <1>2, <1>3, Shifted
<1>5. At(p \o q) = At(p) \cup moved
  <2>1. ASSUME NEW n \in At(p \o q) PROVE n \in At(p) \cup moved
    <3>1. n \in 1..(Len(p) + Len(q))
      BY <1>1
    <3>2. CASE n <= Len(p)
      BY <1>1, <2>1, <3>1, <3>2
    <3>3. CASE ~(n <= Len(p))
      <4>1. n - Len(p) \in 1..Len(q) /\ n = Len(p) + (n - Len(p))
        BY <1>1, <3>1, <3>3
      <4>2. n - Len(p) \in At(q)
        BY <1>1, <2>1, <3>1, <3>3, <4>1
      <4> HIDE DEF At
      <4> QED BY <4>1, <4>2
    <3> QED BY <3>2, <3>3
  <2>2. ASSUME NEW n \in At(p) PROVE n \in At(p \o q)
    <3>1. n \in 1..Len(p) /\ n \in 1..(Len(p) + Len(q)) /\ n <= Len(p)
      BY <1>1
    <3> QED BY <1>1, <3>1
  <2>3. ASSUME NEW n \in At(q) PROVE Len(p) + n \in At(p \o q)
    <3>1. n \in 1..Len(q)
      BY <1>1
    <3>2. Len(p) + n \in 1..(Len(p) + Len(q)) /\ ~(Len(p) + n <= Len(p)) /\ (Len(p) + n) - Len(p) = n
      BY <1>1, <3>1
    <3>3. (p \o q)[Len(p) + n] = q[n]
      BY <1>1, <3>2
    <3> QED BY <1>1, <3>2, <3>3
  <2> HIDE DEF At
  <2> QED BY <2>1, <2>2, <2>3
<1>6. At(p) \cap moved = {}
  <2>1. ASSUME NEW n \in At(q) PROVE Len(p) + n \notin At(p)
    <3>1. n \in 1..Len(q)
      BY <1>1
    <3> QED BY <1>1, <3>1
  <2> HIDE DEF At
  <2> QED BY <2>1
<1>7. Cardinality(At(p) \cup moved) = Cardinality(At(p)) + Cardinality(moved)
  <2> HIDE DEF At, moved
  <2>1. Cardinality(At(p) \cap moved) = 0
    BY <1>6, FS_EmptySet
  <2>2. Cardinality(At(p)) \in Nat /\ Cardinality(moved) \in Nat
    BY <1>2, <1>4, FS_CardinalityType
  <2>3. Cardinality(At(p) \cup moved)
        = Cardinality(At(p)) + Cardinality(moved) - Cardinality(At(p) \cap moved)
    BY <1>2, <1>4, FS_Union
  <2>4. \A a, b \in Nat : a + b - 0 = a + b
    OBVIOUS
  <2> QED BY <2>1, <2>2, <2>3, <2>4
<1> HIDE DEF moved
<1> QED BY <1>4, <1>5, <1>7 DEF RefitsIn

LEMMA NoRefitsIn ==
  ASSUME NEW q, \A n \in DOMAIN q : q[n].row # None, NEW i
  PROVE  RefitsIn(q, i) = 0
<1>1. {n \in DOMAIN q : q[n].row = None /\ q[n].spec = i} = {}
  OBVIOUS
<1> QED BY <1>1, FS_EmptySet DEF RefitsIn

(* A call says once of each spec that its budget is reached, if it is and  *)
(* was not said before.                                                    *)
LEMMA RefitNoticesTyped ==
  ASSUME setup \in Setups, NEW rows \in Chunks
  PROVE  /\ RefitNotices(rows) \in Seq(BankNotice)
         /\ \A i \in SpecIds : RefitsIn(RefitNotices(rows), i) =
              IF noticed[i] \/ FirstGivenUp(i, rows) = {} THEN 0 ELSE 1
<1> DEFINE S == {i \in SpecIds : ~noticed[i] /\ FirstGivenUp(i, rows) # {}}
           at == Ascending(S)
           first(i) == CHOOSE k \in FirstGivenUp(i, rows) : Before(rows, FirstGivenUp(i, rows), k) = 0
           said == [n \in DOMAIN at |-> [spec |-> at[n], row |-> None, span |-> None,
                                         group |-> first(at[n])]]
<1>0. SpecIds = 1..Len(Specs) /\ Len(Specs) \in Nat /\ MaxFed \in Nat
  BY SetupTyped
<1>1. S \subseteq Nat /\ IsFiniteSet(S) /\ S \subseteq SpecIds
  <2>1. IsFiniteSet(SpecIds)
    BY <1>0, FS_Interval
  <2>2. S \subseteq SpecIds
    OBVIOUS
  <2>3. SpecIds \subseteq Nat
    BY <1>0
  <2> HIDE DEF S
  <2>4. IsFiniteSet(S)
    BY <2>1, <2>2, FS_Subset
  <2> QED BY <2>2, <2>3, <2>4
<1>2. /\ Cardinality(S) \in Nat /\ at \in [1..Cardinality(S) -> S]
      /\ \A a, b \in 1..Cardinality(S) : a < b => at[a] < at[b]
      /\ \A x \in S : \E n \in 1..Cardinality(S) : at[n] = x
  <2> HIDE DEF S
  <2> QED BY <1>1, AscendingSorts
<1>3. RefitNotices(rows) = said
  BY DEF RefitNotices
<1>4. ASSUME NEW i \in S PROVE first(i) \in Keys
  <2> DEFINE G == FirstGivenUp(i, rows)
  <2>1. G # {} /\ G \subseteq GroupsIn(rows)
    BY DEF FirstGivenUp, Fresh
  <2> HIDE DEF G
  <2>2. IsFiniteSet(G) /\ IsOrder(G, Arrive(rows, G))
        /\ \A k \in G : Before(rows, G, k) = Rank(G, Arrive(rows, G), k)
    BY <2>1, ArriveOrders
  <2>3. 1 \in 1..Cardinality(G)
    <3>1. Cardinality(G) \in Nat /\ Cardinality(G) # 0
      BY <2>1, <2>2, FS_EmptySet, FS_CardinalityType
    <3> QED BY <3>1
  <2>4. \E k \in G : Rank(G, Arrive(rows, G), k) = 1 - 1
    BY <2>2, <2>3, RankOnto
  <2>5. \E k \in G : Before(rows, G, k) = 0
    BY <2>2, <2>4
  <2>6. first(i) \in G
    BY <2>5 DEF G
  <2>7. GroupsIn(rows) \subseteq Keys
    BY GroupsTyped DEF FiniteSubsetsOf
  <2> QED BY <2>1, <2>6, <2>7
<1>5. ASSUME NEW n \in 1..Cardinality(S)
      PROVE  /\ said[n] \in BankNotice
             /\ said[n].spec = at[n] /\ said[n].row = None
  <2>1. at[n] \in S /\ at[n] \in SpecIds
    <3> HIDE DEF S, at
    <3> QED BY <1>1, <1>2
  <2>2. first(at[n]) \in Keys
    <3> HIDE DEF S, at, first
    <3> QED BY <1>4, <2>1
  <2>3. said[n] = [spec |-> at[n], row |-> None, span |-> None, group |-> first(at[n])]
    <3> HIDE DEF S, at, first
    <3> QED BY <1>2
  <2>4. None \in 0..MaxFed
    BY <1>0 DEF None
  <2> HIDE DEF S, at, first, said
  <2> QED BY <2>1, <2>2, <2>3, <2>4 DEF BankNotice
<1>6. DOMAIN said = 1..Cardinality(S)
  <2> HIDE DEF S, at, first
  <2> QED BY <1>2
<1>7. said \in Seq(BankNotice)
  <2>1. PICK m \in Nat : m = Cardinality(S)
    BY <1>2
  <2>2. said \in [1..m -> BankNotice]
    <3> HIDE DEF S, at, first
    <3> QED BY <1>5, <1>6, <2>1
  <2> HIDE DEF S, at, first, said
  <2> QED BY <2>2
<1>8. ASSUME NEW i \in SpecIds
      PROVE  RefitsIn(said, i) = IF noticed[i] \/ FirstGivenUp(i, rows) = {} THEN 0 ELSE 1
  <2> DEFINE A == {n \in DOMAIN said : said[n].row = None /\ said[n].spec = i}
  <2>1. A = {n \in 1..Cardinality(S) : at[n] = i}
    <3> HIDE DEF S, at, first, said
    <3> QED BY <1>5, <1>6
  <2>2. CASE i \notin S
    <3>1. A = {}
      <4> HIDE DEF S, at, first, said, A
      <4> QED BY <1>2, <2>1, <2>2
    <3> QED BY <2>2, <3>1, FS_EmptySet DEF RefitsIn
  <2>3. CASE i \in S
    <3>1. PICK n \in 1..Cardinality(S) : at[n] = i
      <4> HIDE DEF S, at, first, said, A
      <4> QED BY <1>2, <2>3
    <3>2. \A m \in 1..Cardinality(S) : at[m] = i => m = n
      <4> HIDE DEF S, at, first, said, A
      <4>1. i \in Nat
        BY <1>1, <2>3
      <4>2. ASSUME NEW m \in 1..Cardinality(S), at[m] = i, m # n PROVE FALSE
        <5>1. m < n \/ n < m
          BY <1>2, <4>2
        <5> QED BY <1>2, <3>1, <4>1, <4>2, <5>1
      <4> QED BY <4>2
    <3>3. A = {n}
      <4> HIDE DEF S, at, first, said, A
      <4> QED BY <2>1, <3>1, <3>2
    <3> QED BY <2>3, <3>3, FS_Singleton DEF RefitsIn
  <2> QED BY <2>2, <2>3
<1> HIDE DEF said, S, at, first
<1> QED BY <1>3, <1>7, <1>8

-----------------------------------------------------------------------------
(* The bank keeps to its types                                             *)

CoreMap == UNION {[K -> Seq(1..MaxFed)] : K \in SUBSET Keys}
Core == [runs : CoreMap, saved : CoreMap]
Reservations == [SpecIds -> 0..RefitRoom]
Flags == [SpecIds -> BOOLEAN]
ClosedAt == [spec : SpecIds, group : Keys, session : Sessions \cup {None}, rows : Seq(1..MaxFed),
             at : Nat]
Steps == {"check", "prepare", "resolve", "prepass", "learn"}
CallType ==
  [step : Steps, rows : Chunks, form : {"integer", "text"}, fresh : SUBSET (SpecIds \X Keys),
   before : [reserved : Reservations, noticed : Flags, notices : Nat],
   snapshot : {<<>>} \cup [Formulas -> Core], todo : SUBSET (SpecIds \X Keys), phase : Nat,
   over : BOOLEAN, left : BOOLEAN, closed : SUBSET ClosedAt]

StatesTyped == states \in [SpecIds -> Streams]
CoresTyped == resolvers \in [Formulas -> Core]
RefitsTyped == reserved \in Reservations /\ noticed \in Flags /\ refitsSaid \in [SpecIds -> Nat]
NoticesTyped == notices \in Seq(BankNotice)
MarksTyped ==
  /\ highWater \in [SpecIds -> Keys \cup {None}] /\ keyForm \in {"none", "integer", "text"}
  /\ rowsFed \in 0..MaxFed /\ noticesLeft \in BOOLEAN /\ broken \in BOOLEAN
(* A call's rows fit, and each spec has a stream for each of their groups; *)
(* where a step may need the cores as they were prepared, it has them.     *)
SnapshotTaken ==
  call.step \in {"resolve", "prepass"} /\ NeedsSnapshot => call.snapshot \in [Formulas -> Core]
CallTyped ==
  \/ call = Idle
  \/ /\ call \in CallType
     /\ Fits(call.rows, rowsFed)
     /\ \A i \in SpecIds : GroupsIn(call.rows) \subseteq DOMAIN states[i]
     /\ call.before.notices <= Len(notices)
     /\ SnapshotTaken
FileTyped ==
  /\ file.bank.states \in [SpecIds -> Streams] /\ file.bank.resolvers \in [Formulas -> Core]
  /\ file.bank.reserved \in Reservations /\ file.bank.highWater \in [SpecIds -> Keys \cup {None}]
  /\ file.bank.keyForm \in {"none", "integer", "text"} /\ file.bank.rowsFed \in 0..MaxFed

Typed ==
  /\ setup \in Setups /\ StatesTyped /\ CoresTyped /\ RefitsTyped /\ NoticesTyped /\ MarksTyped
  /\ CallTyped /\ FileTyped

(* The setup stays, and the types with it.                                 *)
LEMMA SetupStays ==
  ASSUME UNCHANGED setup
  PROVE  /\ SpecIds' = SpecIds /\ Specs' = Specs /\ Formulas' = Formulas /\ MaxFed' = MaxFed
         /\ Chunks' = Chunks /\ Notice' = Notice /\ BankNotice' = BankNotice /\ Stream' = Stream
         /\ Streams' = Streams /\ Core' = Core /\ Reservations' = Reservations /\ Flags' = Flags
         /\ ClosedAt' = ClosedAt /\ CallType' = CallType /\ Unreadable' = Unreadable
         /\ NeedsSnapshot' = NeedsSnapshot
<1>1. SpecIds' = SpecIds /\ Specs' = Specs /\ MaxFed' = MaxFed /\ MaxRows' = MaxRows
      /\ Unreadable' = Unreadable
  BY DEF SpecIds, Specs, MaxFed, MaxRows, Unreadable
<1>2. Formulas' = Formulas
  BY <1>1 DEF Formulas
<1>3. Row' = Row /\ Notice' = Notice /\ BankNotice' = BankNotice
  BY <1>1 DEF Row, Notice, BankNotice
<1>4. Chunks' = Chunks
  BY <1>1, <1>3 DEF Chunks
<1>5. Stream' = Stream
  BY <1>1, <1>3 DEF Stream
<1>6. Streams' = Streams
  BY <1>5 DEF Streams
<1>7. CoreMap' = CoreMap
  BY <1>1 DEF CoreMap
<1>8. Core' = Core /\ Reservations' = Reservations /\ Flags' = Flags /\ ClosedAt' = ClosedAt
  BY <1>1, <1>7 DEF Core, Reservations, Flags, ClosedAt
<1>9. CallType' = CallType
  BY <1>1, <1>2, <1>4, <1>8 DEF CallType
<1>10. NeedsSnapshot' = NeedsSnapshot
  BY <1>1, <1>2 DEF NeedsSnapshot
<1> QED BY <1>1, <1>2, <1>3, <1>4, <1>5, <1>6, <1>8, <1>9, <1>10

LEMMA StatesStay ==
  ASSUME UNCHANGED setup, StatesTyped, states' = states PROVE StatesTyped'
BY SetupStays DEF StatesTyped

LEMMA CoresStay ==
  ASSUME UNCHANGED setup, CoresTyped, resolvers' = resolvers PROVE CoresTyped'
BY SetupStays DEF CoresTyped

LEMMA RefitsStay ==
  ASSUME UNCHANGED setup, RefitsTyped, reserved' = reserved, noticed' = noticed,
         refitsSaid' = refitsSaid
  PROVE  RefitsTyped'
BY SetupStays DEF RefitsTyped

LEMMA NoticesStay ==
  ASSUME UNCHANGED setup, NoticesTyped, notices' = notices PROVE NoticesTyped'
BY SetupStays DEF NoticesTyped

LEMMA MarksStay ==
  ASSUME UNCHANGED setup, MarksTyped, highWater' = highWater, keyForm' = keyForm,
         rowsFed' = rowsFed, noticesLeft' \in BOOLEAN, broken' \in BOOLEAN
  PROVE  MarksTyped'
BY SetupStays DEF MarksTyped

LEMMA FileStays ==
  ASSUME UNCHANGED setup, FileTyped, file' = file PROVE FileTyped'
BY SetupStays DEF FileTyped

(* A call that goes on, over streams of the same groups.                   *)
LEMMA CallGoesOn ==
  ASSUME UNCHANGED setup, CallTyped, call # Idle, call' \in CallType, call'.rows = call.rows,
         call'.before = call.before, notices' = notices, SnapshotTaken',
         rowsFed' = rowsFed, \A i \in SpecIds : DOMAIN states'[i] = DOMAIN states[i]
  PROVE  CallTyped'
<1>1. Fits(call.rows, rowsFed)'
  BY SetupStays DEF CallTyped, Fits
<1>2. \A i \in SpecIds' : GroupsIn(call'.rows) \subseteq DOMAIN states'[i]
  BY SetupStays DEF CallTyped
<1>3. call'.before.notices <= Len(notices')
  BY DEF CallTyped
<1> QED BY <1>1, <1>2, <1>3, SetupStays DEF CallTyped

LEMMA CallEnds == ASSUME call' = Idle PROVE CallTyped'
BY DEF CallTyped, Idle

LEMMA CallKept ==
  ASSUME UNCHANGED setup, CallTyped, call' = call,
         call # Idle => rowsFed' = rowsFed /\ states' = states /\ notices' = notices
  PROVE  CallTyped'
<1>1. CASE call = Idle
  BY <1>1 DEF CallTyped, Idle
<1>2. CASE call # Idle
  <2>1. SnapshotTaken'
    BY <1>2, SetupStays DEF CallTyped, SnapshotTaken
  <2> QED BY <1>2, <2>1, CallGoesOn DEF CallTyped
<1> QED BY <1>1, <1>2

(* A call at a step is under way.                                          *)
LEMMA UnderWay ==
  ASSUME CallTyped, call.step \in Steps
  PROVE  /\ call # Idle /\ call \in CallType /\ Fits(call.rows, rowsFed)
         /\ \A i \in SpecIds : GroupsIn(call.rows) \subseteq DOMAIN states[i]
         /\ call.before.reserved \in Reservations /\ call.before.noticed \in Flags
         /\ call.before.notices \in 0..Len(notices) /\ SnapshotTaken
<1>1. Idle.step \notin Steps
  BY DEF Idle, Steps
<1>2. call # Idle /\ call \in CallType /\ call.before.notices <= Len(notices)
  BY <1>1 DEF CallTyped
<1>3. call.before \in [reserved : Reservations, noticed : Flags, notices : Nat]
  BY <1>2 DEF CallType
<1> QED BY <1>1, <1>2, <1>3 DEF CallTyped

(* Maps of groups to streams.                                              *)
LEMMA StreamsAre ==
  ASSUME NEW m \in Streams
  PROVE  /\ DOMAIN m \subseteq Keys /\ IsFiniteSet(DOMAIN m) /\ DOMAIN m \in FiniteSubsetsOf(Keys)
         /\ m \in [DOMAIN m -> Stream] /\ \A k \in DOMAIN m : m[k] \in Stream
<1>1. PICK K \in FiniteSubsetsOf(Keys) : m \in [K -> Stream]
  BY DEF Streams
<1> QED BY <1>1 DEF FiniteSubsetsOf

LEMMA StreamsMade ==
  ASSUME NEW K \in FiniteSubsetsOf(Keys), NEW m \in [K -> Stream]
  PROVE  m \in Streams
BY DEF Streams

LEMMA FiniteSubset ==
  ASSUME NEW K \in FiniteSubsetsOf(Keys), NEW J, J \subseteq K
  PROVE  J \in FiniteSubsetsOf(Keys)
BY FS_Subset DEF FiniteSubsetsOf

LEMMA FiniteJoin ==
  ASSUME NEW K \in FiniteSubsetsOf(Keys), NEW J \in FiniteSubsetsOf(Keys)
  PROVE  K \cup J \in FiniteSubsetsOf(Keys)
BY FS_Union DEF FiniteSubsetsOf

(* A spec's streams without some of them.                                  *)
LEMMA StreamsLeft ==
  ASSUME NEW m \in Streams, NEW J, J \subseteq DOMAIN m
  PROVE  [k \in J |-> m[k]] \in Streams
<1>1. DOMAIN m \in FiniteSubsetsOf(Keys) /\ \A k \in DOMAIN m : m[k] \in Stream
  BY StreamsAre
<1>2. J \in FiniteSubsetsOf(Keys)
  BY <1>1, FiniteSubset
<1>3. [k \in J |-> m[k]] \in [J -> Stream]
  BY <1>1
<1> QED BY <1>2, <1>3, StreamsMade

LEMMA ForgetTyped ==
  ASSUME StatesTyped, NEW fresh
  PROVE  /\ Forget(states, fresh) \in [SpecIds -> Streams]
         /\ \A i \in SpecIds :
              /\ DOMAIN Forget(states, fresh)[i] = {k \in DOMAIN states[i] : <<i, k>> \notin fresh}
              /\ \A k \in DOMAIN Forget(states, fresh)[i] : Forget(states, fresh)[i][k] = states[i][k]
<1>1. ASSUME NEW i \in SpecIds
      PROVE  [k \in {k \in DOMAIN states[i] : <<i, k>> \notin fresh} |-> states[i][k]] \in Streams
  <2>1. states[i] \in Streams
    BY DEF StatesTyped
  <2>2. {k \in DOMAIN states[i] : <<i, k>> \notin fresh} \subseteq DOMAIN states[i]
    OBVIOUS
  <2> QED BY <2>1, <2>2, StreamsLeft
<1> QED BY <1>1 DEF Forget

LEMMA NewStreamTyped ==
  ASSUME NEW b \in BOOLEAN
  PROVE  NewStream(b) \in Stream /\ NewStream(b).rows = <<>> /\ NewStream(b).pending = <<>>
         /\ NewStream(b).givenUp = b
<1>1. <<>> \in Seq(1..MaxFed) /\ <<>> \in Seq(Notice)
  BY EmptySeq
<1> QED BY <1>1 DEF NewStream, Stream

(* What a stream says.                                                     *)
LEMMA SaidTyped ==
  ASSUME setup \in Setups, StatesTyped, NEW i \in SpecIds, NEW ks, ks \subseteq DOMAIN states[i]
  PROVE  Said(i, ks) \in Seq(Notice)
<1> DEFINE order == Ascending(ks)
           seqs == [n \in DOMAIN order |->
                      Named(states[i][order[n]].pending, states[i][order[n]].session)]
<1>1. states[i] \in Streams
  BY DEF StatesTyped
<1>2. ks \subseteq Nat /\ IsFiniteSet(ks) /\ \A k \in ks : states[i][k] \in Stream
  <2>1. DOMAIN states[i] \subseteq Keys /\ IsFiniteSet(DOMAIN states[i])
        /\ \A k \in DOMAIN states[i] : states[i][k] \in Stream
    BY <1>1, StreamsAre
  <2> QED BY <2>1, FS_Subset, SetupTyped
<1>3. PICK m \in Nat : m = Cardinality(ks)
  BY <1>2, FS_CardinalityType
<1>4. order \in [1..m -> ks]
  BY <1>2, <1>3, AscendingSorts
<1>5. ASSUME NEW n \in 1..m
      PROVE  Named(states[i][order[n]].pending, states[i][order[n]].session) \in Seq(Notice)
  <2> HIDE DEF order
  <2>1. states[i][order[n]] \in Stream
    BY <1>2, <1>4
  <2>2. states[i][order[n]].pending \in Seq(Notice)
        /\ states[i][order[n]].session \in Sessions \cup {None}
    BY <2>1 DEF Stream
  <2> QED BY <2>2, NamedTyped
<1>6. seqs \in [1..m -> Seq(Notice)]
  <2> HIDE DEF order
  <2> QED BY <1>4, <1>5
<1>7. FlattenSeq(seqs) \in Seq(Notice)
  <2> HIDE DEF order, seqs
  <2> QED BY <1>6, FlattenType
<1> QED BY <1>7 DEF Said, SaidBy

(* What the specs say together, one spec after the other.                  *)
LEMMA AllSaid ==
  ASSUME setup \in Setups, NEW said \in [SpecIds -> Seq(Notice)], NoticesTyped
  PROVE  /\ FlattenSeq(said) \in Seq(Notice) /\ FlattenSeq(said) \in Seq(BankNotice)
         /\ notices \o FlattenSeq(said) \in Seq(BankNotice)
         /\ \A i : RefitsIn(notices \o FlattenSeq(said), i) = RefitsIn(notices, i)
<1>1. PICK n \in Nat : SpecIds = 1..n
  BY SetupTyped
<1>2. FlattenSeq(said) \in Seq(Notice)
  BY <1>1, FlattenType
<1>3. FlattenSeq(said) \in Seq(BankNotice)
      /\ \A m \in DOMAIN FlattenSeq(said) : FlattenSeq(said)[m].row # None
  BY <1>2, NoticeInBank
<1>4. notices \o FlattenSeq(said) \in Seq(BankNotice)
  BY <1>3, ConcatProperties DEF NoticesTyped
<1>5. ASSUME NEW i
      PROVE  RefitsIn(notices \o FlattenSeq(said), i) = RefitsIn(notices, i)
  <2>1. RefitsIn(notices \o FlattenSeq(said), i) = RefitsIn(notices, i) + RefitsIn(FlattenSeq(said), i)
    BY <1>3, RefitsInConcat DEF NoticesTyped
  <2>2. RefitsIn(FlattenSeq(said), i) = 0
    BY <1>3, NoRefitsIn
  <2>3. RefitsIn(notices, i) \in Nat
    BY RefitsInFinite DEF NoticesTyped
  <2>4. \A c \in Nat : c + 0 = c
    OBVIOUS
  <2> QED BY <2>1, <2>2, <2>3, <2>4
<1> QED BY <1>2, <1>3, <1>4, <1>5

(* Window cores.                                                           *)
LEMMA CoreMapMade ==
  ASSUME NEW K, K \subseteq Keys, NEW m \in [K -> Seq(1..MaxFed)]
  PROVE  m \in CoreMap
BY DEF CoreMap

LEMMA CoreMapIs ==
  ASSUME NEW m \in CoreMap
  PROVE  DOMAIN m \subseteq Keys /\ \A k \in DOMAIN m : m[k] \in Seq(1..MaxFed)
BY DEF CoreMap

LEMMA CoreIs ==
  ASSUME NEW core \in Core
  PROVE  /\ DOMAIN core.runs \subseteq Keys /\ \A k \in DOMAIN core.runs : core.runs[k] \in Seq(1..MaxFed)
         /\ DOMAIN core.saved \subseteq Keys
         /\ \A k \in DOMAIN core.saved : core.saved[k] \in Seq(1..MaxFed)
<1>1. core.runs \in CoreMap /\ core.saved \in CoreMap
  BY DEF Core
<1> QED BY <1>1, CoreMapIs

LEMMA PreparedTyped ==
  ASSUME NEW core \in Core, NEW ks, ks \subseteq Keys
  PROVE  Prepared(core, ks) \in Core
<1> DEFINE runs == [k \in DOMAIN core.runs \cup ks |->
               IF k \in DOMAIN core.runs THEN core.runs[k]
               ELSE IF k \in DOMAIN core.saved THEN core.saved[k] ELSE <<>>]
           saved == [k \in DOMAIN core.saved \ (ks \ DOMAIN core.runs) |-> core.saved[k]]
<1>1. /\ DOMAIN core.runs \subseteq Keys /\ \A k \in DOMAIN core.runs : core.runs[k] \in Seq(1..MaxFed)
      /\ DOMAIN core.saved \subseteq Keys
      /\ \A k \in DOMAIN core.saved : core.saved[k] \in Seq(1..MaxFed)
  BY CoreIs
<1>2. <<>> \in Seq(1..MaxFed)
  BY EmptySeq
<1>3. runs \in CoreMap
  <2>1. runs \in [DOMAIN core.runs \cup ks -> Seq(1..MaxFed)]
    BY <1>1, <1>2
  <2>2. DOMAIN core.runs \cup ks \subseteq Keys
    BY <1>1
  <2> HIDE DEF runs
  <2> QED BY <2>1, <2>2, CoreMapMade
<1>4. saved \in CoreMap
  <2>1. saved \in [DOMAIN core.saved \ (ks \ DOMAIN core.runs) -> Seq(1..MaxFed)]
    BY <1>1
  <2>2. DOMAIN core.saved \ (ks \ DOMAIN core.runs) \subseteq Keys
    BY <1>1
  <2> HIDE DEF saved
  <2> QED BY <2>1, <2>2, CoreMapMade
<1>5. Prepared(core, ks) = [runs |-> runs, saved |-> saved]
  BY DEF Prepared
<1> HIDE DEF runs, saved
<1> QED BY <1>3, <1>4, <1>5 DEF Core

(* The rows a chunk feeds to group k.                                      *)
Feed(rows, base, k) == [n \in DOMAIN RowsOf(rows, k) |-> base + RowsOf(rows, k)[n]]

LEMMA FeedTyped ==
  ASSUME setup \in Setups, NEW rows, NEW base, Fits(rows, base), NEW k
  PROVE  Feed(rows, base, k) \in Seq(1..MaxFed)
<1>1. PICK m \in Nat : m = Len(rows)
  BY RowsTyped DEF Fits
<1>2. RowsOf(rows, k) \in Seq(1..m)
  BY <1>1, OwnTyped DEF Fits
<1>3. PICK l \in Nat : DOMAIN RowsOf(rows, k) = 1..l /\ \A n \in 1..l : RowsOf(rows, k)[n] \in 1..m
  <2> HIDE DEF RowsOf
  <2>1. /\ Len(RowsOf(rows, k)) \in Nat /\ DOMAIN RowsOf(rows, k) = 1..Len(RowsOf(rows, k))
        /\ \A n \in 1..Len(RowsOf(rows, k)) : RowsOf(rows, k)[n] \in 1..m
    BY <1>2, LenProperties
  <2> QED BY <2>1
<1>4. base \in Nat /\ base + m <= MaxFed /\ MaxFed \in Nat
  BY <1>1, SetupTyped DEF Fits
<1>5. Feed(rows, base, k) \in [1..l -> 1..MaxFed]
  BY <1>3, <1>4 DEF Feed
<1> QED BY <1>4, <1>5

LEMMA FedTyped ==
  ASSUME setup \in Setups, Fits(call.rows, rowsFed), NEW core \in Core, NEW ks
  PROVE  /\ Fed(core, ks) \in Core /\ DOMAIN Fed(core, ks).runs = DOMAIN core.runs
         /\ Fed(core, ks).saved = core.saved
         /\ \A k \in DOMAIN core.runs :
              Fed(core, ks).runs[k] = IF k \in ks THEN core.runs[k] \o Feed(call.rows, rowsFed, k)
                                      ELSE core.runs[k]
<1> DEFINE runs == [k \in DOMAIN core.runs |-> IF k \in ks
                      THEN core.runs[k] \o Feed(call.rows, rowsFed, k) ELSE core.runs[k]]
<1>1. DOMAIN core.runs \subseteq Keys /\ \A k \in DOMAIN core.runs : core.runs[k] \in Seq(1..MaxFed)
  BY CoreIs
<1>2. ASSUME NEW k \in DOMAIN core.runs
      PROVE  core.runs[k] \o Feed(call.rows, rowsFed, k) \in Seq(1..MaxFed)
  <2>1. core.runs[k] \in Seq(1..MaxFed) /\ Feed(call.rows, rowsFed, k) \in Seq(1..MaxFed)
    BY <1>1, FeedTyped
  <2> QED BY <2>1, ConcatProperties
<1>3. runs \in CoreMap
  <2>1. runs \in [DOMAIN core.runs -> Seq(1..MaxFed)]
    BY <1>1, <1>2
  <2> HIDE DEF runs
  <2> QED BY <1>1, <2>1, CoreMapMade
<1>4. Fed(core, ks) = [core EXCEPT !.runs = runs]
  BY DEF Fed, Feed
<1>5. Fed(core, ks).runs = runs /\ Fed(core, ks).saved = core.saved
      /\ Fed(core, ks) = [runs |-> runs, saved |-> core.saved]
  <2> HIDE DEF runs
  <2> QED BY <1>4 DEF Core
<1>6. core.saved \in CoreMap
  BY DEF Core
<1>7. Fed(core, ks) \in Core
  <2> HIDE DEF runs
  <2> QED BY <1>3, <1>5, <1>6 DEF Core
<1> QED BY <1>5, <1>7

(* A call begins: its groups have streams, within the budget.              *)
LEMMA BeginTyped ==
  ASSUME Typed, UNCHANGED setup, NEW rows \in Chunks, NEW form \in {"integer", "text"},
         Begin(rows, form)
  PROVE  Typed'
<1>2. states' = [i \in SpecIds |-> [k \in DOMAIN states[i] \cup GroupsIn(rows) |->
        IF k \in DOMAIN states[i] THEN states[i][k]
        ELSE NewStream(Specs[i].refit /\ ~Reserves(i, rows, k))]]
  BY DEF Begin
<1>3. /\ reserved' = [i \in SpecIds |->
           reserved[i] + Cardinality({k \in Fresh(i, rows) : Reserves(i, rows, k)})]
      /\ noticed' = [i \in SpecIds |-> noticed[i] \/ FirstGivenUp(i, rows) # {}]
  BY DEF Begin
<1>4. notices' = notices \o RefitNotices(rows)
  BY DEF Begin
<1>5. rowsFed + Len(rows) <= MaxFed /\ rowsFed' = rowsFed /\ refitsSaid' = refitsSaid
  BY DEF Begin
<1>6. call' = [step |-> "check", rows |-> rows, form |-> form,
              fresh |-> UNION {{i} \X Fresh(i, rows) : i \in SpecIds},
              before |-> [reserved |-> reserved, noticed |-> noticed, notices |-> Len(notices)],
              snapshot |-> <<>>, todo |-> {}, phase |-> 0, over |-> FALSE, left |-> FALSE,
              closed |-> {}]
  BY DEF Begin
<1>t1. StatesTyped'
  <2>1. ASSUME NEW i \in SpecIds
        PROVE  [k \in DOMAIN states[i] \cup GroupsIn(rows) |->
                  IF k \in DOMAIN states[i] THEN states[i][k]
                  ELSE NewStream(Specs[i].refit /\ ~Reserves(i, rows, k))] \in Streams
    <3> DEFINE J == DOMAIN states[i] \cup GroupsIn(rows)
               m == [k \in J |-> IF k \in DOMAIN states[i] THEN states[i][k]
                                 ELSE NewStream(Specs[i].refit /\ ~Reserves(i, rows, k))]
    <3>1. states[i] \in Streams
      BY DEF Typed, StatesTyped
    <3>2. DOMAIN states[i] \in FiniteSubsetsOf(Keys) /\ \A k \in DOMAIN states[i] : states[i][k] \in Stream
      BY <3>1, StreamsAre
    <3>3. J \in FiniteSubsetsOf(Keys)
      BY <3>2, GroupsTyped, FiniteJoin DEF Typed
    <3>4. ASSUME NEW k PROVE NewStream(Specs[i].refit /\ ~Reserves(i, rows, k)) \in Stream
      <4>1. (Specs[i].refit /\ ~Reserves(i, rows, k)) \in BOOLEAN
        OBVIOUS
      <4> QED BY <4>1, NewStreamTyped
    <3>5. m \in [J -> Stream]
      BY <3>2, <3>4
    <3> HIDE DEF J, m
    <3>6. m \in Streams
      BY <3>3, <3>5, StreamsMade
    <3> QED BY <3>6 DEF m, J
  <2>2. states' \in [SpecIds -> Streams]
    BY <1>2, <2>1
  <2> QED BY <2>2, SetupStays DEF StatesTyped
<1>t2. CoresTyped'
  BY CoresStay DEF Typed, Begin
<1>t3. RefitsTyped'
  <2>1. ASSUME NEW i \in SpecIds
        PROVE  reserved[i] + Cardinality({k \in Fresh(i, rows) : Reserves(i, rows, k)}) \in 0..RefitRoom
    <3>1. reserved[i] \in 0..RefitRoom
      BY DEF Typed, RefitsTyped, Reservations
    <3> QED BY <3>1, ReservesFit DEF Typed
  <2>2. reserved' \in Reservations
    BY <1>3, <2>1 DEF Reservations
  <2>3. noticed' \in Flags
    BY <1>3 DEF Flags
  <2>4. refitsSaid' \in [SpecIds -> Nat]
    BY <1>5 DEF Typed, RefitsTyped
  <2> QED BY <2>2, <2>3, <2>4, SetupStays DEF RefitsTyped
<1>t4. NoticesTyped'
  <2>1. RefitNotices(rows) \in Seq(BankNotice)
    BY RefitNoticesTyped DEF Typed
  <2>2. notices \o RefitNotices(rows) \in Seq(BankNotice)
    BY <2>1, ConcatProperties DEF Typed, NoticesTyped
  <2> QED BY <1>4, <2>2, SetupStays DEF NoticesTyped
<1>t5. MarksTyped'
  BY MarksStay DEF Typed, MarksTyped, Begin
<1>t6. CallTyped'
  <2>1. Fits(rows, rowsFed)
    BY <1>5, SetupTyped DEF Typed, MarksTyped, Fits
  <2>2. UNION {{i} \X Fresh(i, rows) : i \in SpecIds} \subseteq SpecIds \X Keys
    <3>1. \A i \in SpecIds : Fresh(i, rows) \subseteq Keys
      BY GroupsTyped DEF Fresh, FiniteSubsetsOf, Typed
    <3> QED BY <3>1
  <2>3. [reserved |-> reserved, noticed |-> noticed, notices |-> Len(notices)]
        \in [reserved : Reservations, noticed : Flags, notices : Nat]
    <3>1. Len(notices) \in Nat
      BY LenProperties DEF Typed, NoticesTyped
    <3> QED BY <3>1 DEF Typed, RefitsTyped
  <2>4. call' \in CallType
    BY <1>6, <2>2, <2>3 DEF CallType, Steps
  <2>5. call'.rows = rows
    BY <1>6
  <2>6. \A i \in SpecIds : GroupsIn(rows) \subseteq DOMAIN states'[i]
    BY <1>2
  <2>7. Fits(call.rows, rowsFed)'
    BY <1>5, <2>1, <2>5, SetupStays DEF Fits
  <2>8. call'.before.notices <= Len(notices')
    <3>1. call'.before.notices = Len(notices)
      BY <1>6
    <3>2. /\ Len(notices \o RefitNotices(rows)) = Len(notices) + Len(RefitNotices(rows))
          /\ Len(notices) \in Nat /\ Len(RefitNotices(rows)) \in Nat
      BY RefitNoticesTyped, ConcatProperties, LenProperties DEF Typed, NoticesTyped
    <3> QED BY <1>4, <3>1, <3>2
  <2>9. SnapshotTaken'
    BY <1>6 DEF SnapshotTaken
  <2> QED BY <2>4, <2>5, <2>6, <2>7, <2>8, <2>9, SetupStays DEF CallTyped
<1>t7. FileTyped'
  BY FileStays DEF Typed, Begin
<1> QED BY <1>t1, <1>t2, <1>t3, <1>t4, <1>t5, <1>t6, <1>t7 DEF Typed

(* A refusal puts the bank back within its types.                          *)
LEMMA RefuseTyped ==
  ASSUME Typed, UNCHANGED setup, call.step \in Steps,
         NEW cores \in [Formulas -> Core], Refuse(cores)
  PROVE  Typed'
<1>1. /\ call.before.reserved \in Reservations /\ call.before.noticed \in Flags
      /\ call.before.notices \in 0..Len(notices) /\ Len(notices) \in Nat
  BY UnderWay, LenProperties DEF Typed, NoticesTyped
<1>t1. StatesTyped'
  <2>1. Forget(states, call.fresh) \in [SpecIds -> Streams]
    BY ForgetTyped DEF Typed
  <2> QED BY <2>1, SetupStays DEF StatesTyped, Refuse
<1>t2. CoresTyped'
  BY SetupStays DEF CoresTyped, Refuse
<1>t3. RefitsTyped'
  <2>1. refitsSaid' \in [SpecIds -> Nat]
    BY DEF Typed, RefitsTyped, Refuse
  <2> QED BY <1>1, <2>1, SetupStays DEF RefitsTyped, Refuse, RefitsRestored
<1>t4. NoticesTyped'
  <2>1. \A n \in 1..call.before.notices : notices[n] \in BankNotice
    BY <1>1, LenProperties DEF Typed, NoticesTyped
  <2>2. SubSeq(notices, 1, call.before.notices) \in Seq(BankNotice)
    BY <1>1, <2>1, SubSeqProperties
  <2> QED BY <2>2, SetupStays DEF NoticesTyped, Refuse, RefitsRestored
<1>t5. MarksTyped'
  BY MarksStay DEF Typed, MarksTyped, Refuse
<1>t6. CallTyped'
  BY CallEnds DEF Refuse
<1>t7. FileTyped'
  BY FileStays DEF Typed, Refuse
<1> QED BY <1>t1, <1>t2, <1>t3, <1>t4, <1>t5, <1>t6, <1>t7 DEF Typed

(* Each refusal is one, of a call before its rows are learned, with cores  *)
(* of their type.                                                          *)
LEMMA RefusalIs ==
  ASSUME Typed, Refusal
  PROVE  /\ call.step \in {"check", "prepare", "resolve", "prepass"}
         /\ \E cores \in [Formulas -> Core] : Refuse(cores)
<1>1. resolvers \in [Formulas -> Core] /\ setup \in Setups
  BY DEF Typed, CoresTyped
<1>2. CASE CheckRefuses
  BY <1>1, <1>2 DEF CheckRefuses
<1>3. CASE PrepareRefuses
  <2>1. PICK i \in Formulas, k \in GroupsIn(call.rows) :
          call.step = "prepare" /\ Refuse(PreparedUpTo(i, k))
    BY <1>3 DEF PrepareRefuses
  <2>2. GroupsIn(call.rows) \subseteq Keys
    BY <1>1, <2>1, UnderWay, GroupsTyped DEF Typed, Steps, Fits, FiniteSubsetsOf
  <2>3. ASSUME NEW j \in Formulas PROVE PreparedUpTo(i, k)[j] \in Core
    <3> DEFINE core == Prepared(resolvers[j], Reached(j, i, k))
               rest == [h \in DOMAIN core.saved \ {k} |-> core.saved[h]]
    <3>1. core \in Core
      <4>1. Reached(j, i, k) \subseteq Keys
        BY <2>2 DEF Reached
      <4> QED BY <1>1, <4>1, PreparedTyped
    <3>2. rest \in CoreMap
      <4> HIDE DEF core
      <4>1. DOMAIN core.saved \subseteq Keys /\ \A h \in DOMAIN core.saved : core.saved[h] \in Seq(1..MaxFed)
        BY <3>1, CoreIs
      <4>2. rest \in [DOMAIN core.saved \ {k} -> Seq(1..MaxFed)]
        BY <4>1
      <4>3. DOMAIN core.saved \ {k} \subseteq Keys
        BY <4>1
      <4> HIDE DEF rest
      <4> QED BY <4>2, <4>3, CoreMapMade
    <3>3. [core EXCEPT !.saved = rest] \in Core
      <4> HIDE DEF core, rest
      <4> QED BY <3>1, <3>2 DEF Core
    <3>4. PreparedUpTo(i, k)[j] = IF j # i THEN core ELSE [core EXCEPT !.saved = rest]
      BY DEF PreparedUpTo
    <3> HIDE DEF core, rest
    <3> QED BY <3>1, <3>3, <3>4
  <2>4. PreparedUpTo(i, k) \in [Formulas -> Core]
    <3>1. DOMAIN PreparedUpTo(i, k) = Formulas
          /\ PreparedUpTo(i, k) = [j \in Formulas |-> PreparedUpTo(i, k)[j]]
      BY DEF PreparedUpTo
    <3> QED BY <2>3, <3>1
  <2> QED BY <2>1, <2>4
<1>4. CASE ResolveRefuses
  <2>1. PICK i \in Formulas, k \in GroupsIn(call.rows) :
          call.step = "resolve" /\ Refuse(IF NeedsSnapshot THEN call.snapshot
            ELSE [j \in Formulas |->
                    Fed(resolvers[j], Reached(j, i, k) \cup (IF j = i THEN {k} ELSE {}))])
    BY <1>4 DEF ResolveRefuses
  <2>2. Fits(call.rows, rowsFed) /\ SnapshotTaken
    BY <2>1, UnderWay DEF Typed, Steps
  <2>3. CASE NeedsSnapshot
    <3>1. call.snapshot \in [Formulas -> Core] /\ Refuse(call.snapshot)
      BY <2>1, <2>2, <2>3 DEF SnapshotTaken
    <3> QED BY <2>1, <3>1
  <2>4. CASE ~NeedsSnapshot
    <3> DEFINE cores == [j \in Formulas |->
                    Fed(resolvers[j], Reached(j, i, k) \cup (IF j = i THEN {k} ELSE {}))]
    <3>1. ASSUME NEW j \in Formulas
          PROVE  Fed(resolvers[j], Reached(j, i, k) \cup (IF j = i THEN {k} ELSE {})) \in Core
      BY <1>1, <2>2, FedTyped
    <3>2. cores \in [Formulas -> Core]
      BY <3>1
    <3>3. Refuse(cores)
      BY <2>1, <2>4
    <3> HIDE DEF cores
    <3> QED BY <2>1, <3>2, <3>3
  <2> QED BY <2>3, <2>4
<1>5. CASE PrepassRefuses
  <2>1. call.step = "prepass" /\ Refuse(IF NeedsSnapshot THEN call.snapshot ELSE resolvers)
    BY <1>5 DEF PrepassRefuses
  <2>2. NeedsSnapshot => call.snapshot \in [Formulas -> Core]
    BY <2>1, UnderWay DEF Typed, Steps, SnapshotTaken
  <2> QED BY <1>1, <2>1, <2>2
<1> QED BY <1>2, <1>3, <1>4, <1>5 DEF Refusal

LEMMA RefusalTyped ==
  ASSUME Typed, UNCHANGED setup, Refusal
  PROVE  Typed'
<1>1. PICK cores \in [Formulas -> Core] : Refuse(cores)
  BY RefusalIs
<1>2. call.step \in Steps
  BY RefusalIs DEF Steps
<1> QED BY <1>1, <1>2, RefuseTyped

(* The checks pass.                                                        *)
LEMMA CheckPassesTyped ==
  ASSUME Typed, UNCHANGED setup, CheckPasses
  PROVE  Typed'
<1>1. call.step = "check"
  BY DEF CheckPasses
<1>2. call' = [call EXCEPT !.step = "prepare"]
  BY DEF CheckPasses, NextStep
<1>t1. StatesTyped'
  BY StatesStay DEF Typed, CheckPasses, NextStep, history
<1>t2. CoresTyped'
  BY CoresStay DEF Typed, CheckPasses, NextStep, history
<1>t3. RefitsTyped'
  BY RefitsStay DEF Typed, CheckPasses, NextStep, history
<1>t4. NoticesTyped'
  BY NoticesStay DEF Typed, CheckPasses, NextStep, history
<1>t5. MarksTyped'
  BY MarksStay DEF Typed, MarksTyped, CheckPasses, NextStep, history
<1>t6. CallTyped'
  <2>1. call # Idle /\ call \in CallType /\ SnapshotTaken
    BY <1>1, UnderWay DEF Typed, Steps
  <2>2. call' \in CallType /\ call'.rows = call.rows /\ call'.before = call.before
    BY <2>1, <1>2 DEF CallType, Steps
  <2>3. SnapshotTaken'
    BY <1>2, <2>1 DEF SnapshotTaken, CallType
  <2> QED BY <2>1, <2>2, <2>3, CallGoesOn DEF Typed, CheckPasses, NextStep
<1>t7. FileTyped'
  BY FileStays DEF Typed, CheckPasses, NextStep, history
<1> QED BY <1>t1, <1>t2, <1>t3, <1>t4, <1>t5, <1>t6, <1>t7 DEF Typed

(* The cores are built or resumed.                                         *)
LEMMA PreparePassesTyped ==
  ASSUME Typed, UNCHANGED setup, PreparePasses
  PROVE  Typed'
<1> DEFINE cores == [i \in Formulas |-> Prepared(resolvers[i], GroupsIn(call.rows))]
<1>1. call.step = "prepare"
  BY DEF PreparePasses
<1>2. call' = [call EXCEPT !.step = "resolve", !.snapshot = IF NeedsSnapshot THEN cores ELSE <<>>]
  BY DEF PreparePasses
<1>3. resolvers' = cores
  BY DEF PreparePasses
<1>4. cores \in [Formulas -> Core]
  <2>1. GroupsIn(call.rows) \subseteq Keys
    BY <1>1, UnderWay, GroupsTyped DEF Typed, Steps, Fits, FiniteSubsetsOf
  <2>2. ASSUME NEW i \in Formulas PROVE Prepared(resolvers[i], GroupsIn(call.rows)) \in Core
    BY <2>1, PreparedTyped DEF Typed, CoresTyped
  <2> QED BY <2>2
<1>t1. StatesTyped'
  BY StatesStay DEF Typed, PreparePasses, history
<1>t2. CoresTyped'
  BY <1>3, <1>4, SetupStays DEF CoresTyped
<1>t3. RefitsTyped'
  BY RefitsStay DEF Typed, PreparePasses, history
<1>t4. NoticesTyped'
  BY NoticesStay DEF Typed, PreparePasses, history
<1>t5. MarksTyped'
  BY MarksStay DEF Typed, MarksTyped, PreparePasses, history
<1>t6. CallTyped'
  <2>1. call # Idle /\ call \in CallType
    BY <1>1, UnderWay DEF Typed, Steps
  <2>2. call' = [call EXCEPT !.step = "resolve", !.snapshot = call'.snapshot]
        /\ call'.snapshot \in {<<>>} \cup [Formulas -> Core]
    <3> HIDE DEF cores
    <3> QED BY <1>2, <1>4, <2>1 DEF CallType
  <2>3. call' \in CallType /\ call'.rows = call.rows /\ call'.before = call.before
    BY <2>1, <2>2 DEF CallType, Steps
  <2>4. SnapshotTaken'
    <3>1. NeedsSnapshot => call'.snapshot = cores
      <4> HIDE DEF cores
      <4> QED BY <1>2, <2>1 DEF CallType
    <3> HIDE DEF cores
    <3> QED BY <3>1, <1>4, SetupStays DEF SnapshotTaken
  <2> QED BY <2>1, <2>3, <2>4, CallGoesOn DEF Typed, PreparePasses
<1>t7. FileTyped'
  BY FileStays DEF Typed, PreparePasses, history
<1> QED BY <1>t1, <1>t2, <1>t3, <1>t4, <1>t5, <1>t6, <1>t7 DEF Typed

(* The cores are fed.                                                      *)
LEMMA ResolvePassesTyped ==
  ASSUME Typed, UNCHANGED setup, ResolvePasses
  PROVE  Typed'
<1>1. call.step = "resolve"
  BY DEF ResolvePasses
<1>2. call' = [call EXCEPT !.step = "prepass"]
  BY DEF ResolvePasses, NextStep
<1>t1. StatesTyped'
  BY StatesStay DEF Typed, ResolvePasses, NextStep, history
<1>t2. CoresTyped'
  <2>1. ASSUME NEW i \in Formulas PROVE Fed(resolvers[i], GroupsIn(call.rows)) \in Core
    BY <1>1, UnderWay, FedTyped DEF Typed, CoresTyped, Steps
  <2>2. [i \in Formulas |-> Fed(resolvers[i], GroupsIn(call.rows))] \in [Formulas -> Core]
    BY <2>1
  <2> QED BY <2>2, SetupStays DEF CoresTyped, ResolvePasses
<1>t3. RefitsTyped'
  BY RefitsStay DEF Typed, ResolvePasses, NextStep, history
<1>t4. NoticesTyped'
  BY NoticesStay DEF Typed, ResolvePasses, NextStep, history
<1>t5. MarksTyped'
  BY MarksStay DEF Typed, MarksTyped, ResolvePasses, NextStep, history
<1>t6. CallTyped'
  <2>1. call # Idle /\ call \in CallType /\ SnapshotTaken
    BY <1>1, UnderWay DEF Typed, Steps
  <2>2. call' \in CallType /\ call'.rows = call.rows /\ call'.before = call.before
    BY <2>1, <1>2 DEF CallType, Steps
  <2>3. SnapshotTaken'
    BY <1>1, <1>2, <2>1, SetupStays DEF SnapshotTaken, CallType
  <2> QED BY <2>1, <2>2, <2>3, CallGoesOn DEF Typed, ResolvePasses, NextStep
<1>t7. FileTyped'
  BY FileStays DEF Typed, ResolvePasses, NextStep, history
<1> QED BY <1>t1, <1>t2, <1>t3, <1>t4, <1>t5, <1>t6, <1>t7 DEF Typed

(* The rings fit.                                                          *)
LEMMA PrepassPassesTyped ==
  ASSUME Typed, UNCHANGED setup, PrepassPasses
  PROVE  Typed'
<1>1. call.step = "prepass"
  BY DEF PrepassPasses
<1>2. call' = [call EXCEPT !.step = "learn", !.phase = 1, !.todo = Tasks(1), !.left = noticesLeft]
  BY DEF PrepassPasses
<1>t1. StatesTyped'
  BY StatesStay DEF Typed, PrepassPasses, kept, history
<1>t2. CoresTyped'
  BY CoresStay DEF Typed, PrepassPasses, kept, history
<1>t3. RefitsTyped'
  BY RefitsStay DEF Typed, PrepassPasses, kept, history
<1>t4. NoticesTyped'
  BY NoticesStay DEF Typed, PrepassPasses, kept, history
<1>t5. MarksTyped'
  BY MarksStay DEF Typed, MarksTyped, PrepassPasses, kept, history
<1>t6. CallTyped'
  <2>1. call # Idle /\ call \in CallType /\ SnapshotTaken
    BY <1>1, UnderWay DEF Typed, Steps
  <2>4. Tasks(1) \subseteq SpecIds \X Keys /\ noticesLeft \in BOOLEAN
    BY <2>1, GroupsTyped, UnderWay, <1>1 DEF Tasks, Typed, Fits, Steps, FiniteSubsetsOf, MarksTyped
  <2>2. call' \in CallType /\ call'.rows = call.rows /\ call'.before = call.before
    BY <2>1, <2>4, <1>2 DEF CallType, Steps
  <2>3. SnapshotTaken'
    BY <1>2, <2>1 DEF SnapshotTaken, CallType
  <2> QED BY <2>1, <2>2, <2>3, CallGoesOn DEF Typed, PrepassPasses, kept
<1>t7. FileTyped'
  BY FileStays DEF Typed, PrepassPasses, kept, history
<1> QED BY <1>t1, <1>t2, <1>t3, <1>t4, <1>t5, <1>t6, <1>t7 DEF Typed

(* A finite set of numbers has a greatest.                                 *)
LEMMA Greatest ==
  ASSUME NEW S, IsFiniteSet(S), S \subseteq Nat, S # {}
  PROVE  \E m \in S : \A x \in S : x <= m
<1> DEFINE c == Cardinality(S)
           q == Ascending(S)
<1>1. /\ c \in Nat /\ q \in [1..c -> S]
      /\ \A a, b \in 1..c : a < b => q[a] < q[b]
      /\ \A x \in S : \E n \in 1..c : q[n] = x
  BY AscendingSorts
<1>2. c # 0
  BY FS_EmptySet
<1> HIDE DEF c, q
<1>3. c \in 1..c /\ q[c] \in S /\ \A n \in 1..c : n = c \/ n < c
  BY <1>1, <1>2
<1>4. ASSUME NEW n \in 1..c PROVE q[n] <= q[c]
  <2>1. q[n] \in Nat /\ q[c] \in Nat
    BY <1>1, <1>3
  <2>2. n = c \/ q[n] < q[c]
    BY <1>1, <1>3
  <2> QED BY <2>1, <2>2
<1> QED BY <1>1, <1>3, <1>4

(* A chunk's rows have a largest key, in the order its column is read in.  *)
LEMMA LargestIs ==
  ASSUME setup \in Setups, call.rows \in Chunks, call.rows # <<>>
  PROVE  Largest \in GroupsIn(call.rows) /\ Largest \in Keys
<1> DEFINE S == GroupsIn(call.rows)
           f == [k \in S |-> IF call.form = "integer" THEN k ELSE TextRank[k]]
           T == {f[k] : k \in S}
<1>1. S \in FiniteSubsetsOf(Keys)
  BY GroupsTyped
<1>2. IsFiniteSet(S) /\ S \subseteq Keys /\ S \subseteq Nat
  BY <1>1, SetupTyped DEF FiniteSubsetsOf
<1>3. \A k \in S : f[k] \in Nat
  BY <1>2, ValuesAssumption
<1>4. S # {}
  <2>1. DOMAIN call.rows = 1..Len(call.rows) /\ Len(call.rows) \in Nat
    BY RowsTyped
  <2>2. Len(call.rows) # 0
    <3>1. PICK n \in 0..MaxRows : call.rows \in [1..n -> Row]
      BY DEF Chunks
    <3>2. n \in Nat /\ call.rows \in Seq(Row)
      BY <3>1, SetupTyped
    <3> QED BY <3>2, EmptySeq
  <2>3. 1 \in DOMAIN call.rows
    BY <2>1, <2>2
  <2> QED BY <2>3 DEF GroupsIn
<1>5. IsFiniteSet(T) /\ T \subseteq Nat /\ T # {}
  <2>1. f \in Surjection(S, T)
    <3> HIDE DEF S
    <3> QED BY DEF Surjection
  <2>2. T \subseteq Nat /\ T # {}
    <3> HIDE DEF S, f
    <3> QED BY <1>3, <1>4
  <2> HIDE DEF S, f, T
  <2> QED BY <1>2, <2>1, <2>2, FS_Surjection
<1>6. PICK m \in T : \A x \in T : x <= m
  <2> HIDE DEF T
  <2> QED BY <1>5, Greatest
<1>7. PICK k \in S : f[k] = m
  <2> HIDE DEF S, f
  <2> QED BY <1>6
<1>8. \A h \in S : ~Less(call.form, k, h)
  <2>1. \A h \in S : f[h] <= f[k]
    <3> HIDE DEF S, f
    <3> QED BY <1>6, <1>7
  <2>2. \A h \in S : f[h] \in Nat /\ f[k] \in Nat /\ (Less(call.form, k, h) <=> f[k] < f[h])
    <3>1. \A h \in S : f[h] = IF call.form = "integer" THEN h ELSE TextRank[h]
      OBVIOUS
    <3> HIDE DEF S, f
    <3> QED BY <1>3, <3>1 DEF Less
  <2> HIDE DEF S, f
  <2> QED BY <2>1, <2>2
<1>9. Largest \in S
  BY <1>8 DEF Largest
<1> QED BY <1>2, <1>9

(* The rows a stream closes its spans with are rows of the bank.           *)
LEMMA SpansClosedTyped ==
  ASSUME setup \in Setups, NEW rows, NEW base, Fits(rows, base), NEW st \in Stream,
         NEW own \in Seq(1..Len(rows)), NEW i \in SpecIds, NEW k \in Keys
  PROVE  SpansClosed(i, k, rows, st, own, base) \subseteq ClosedAt
<1> DEFINE bounds == Bounds(i, rows, st, own)
<1>1. Len(own) \in Nat /\ DOMAIN own = 1..Len(own) /\ own \in [1..Len(own) -> 1..Len(rows)]
  BY LenProperties
<1>2. bounds \subseteq DOMAIN own
  BY DEF Bounds, SessionBounds
<1>3. ASSUME NEW b \in bounds
      PROVE  [spec |-> i, group |-> k,
              session |-> IF b = 1 THEN st.session ELSE rows[own[b - 1]].s,
              rows |-> Span(st, own, base, bounds, b - 1), at |-> own[b]] \in ClosedAt
  <2>1. b \in 1..Len(own) /\ b - 1 \in 0..Len(own) /\ own[b] \in Nat
    <3> HIDE DEF bounds
    <3>1. b \in 1..Len(own)
      BY <1>1, <1>2
    <3> QED BY <1>1, <3>1
  <2>2. Span(st, own, base, bounds, b - 1) \in Seq(1..MaxFed)
    <3> HIDE DEF bounds
    <3> QED BY <1>2, <2>1, SpanTyped
  <2>3. (IF b = 1 THEN st.session ELSE rows[own[b - 1]].s) \in Sessions \cup {None}
    <3>1. b # 1 => own[b - 1] \in 1..Len(rows)
      BY <1>1, <2>1
    <3> QED BY <3>1, RowsTyped DEF Fits, Stream
  <2> HIDE DEF bounds
  <2> QED BY <2>1, <2>2, <2>3 DEF ClosedAt
<1> QED BY <1>3 DEF SpansClosed

(* Only its own stream is changed by what one takes.                       *)
LEMMA TakesIs ==
  ASSUME Typed, call.step = "learn", NEW i \in SpecIds, NEW k \in GroupsIn(call.rows),
         NEW own \in Seq(1..Len(call.rows)), NEW over \in BOOLEAN, StreamTakes(i, k, own, over)
  PROVE  /\ k \in DOMAIN states[i] /\ k \in Keys /\ states[i][k] \in Stream
         /\ states' \in [SpecIds -> Streams]
         /\ \A j \in SpecIds : DOMAIN states'[j] = DOMAIN states[j]
         /\ \A j \in SpecIds : \A h \in DOMAIN states[j] :
              states'[j][h] = IF j = i /\ h = k
                              THEN Learned(i, k, call.rows, states[i][k], own, rowsFed)
                              ELSE states[j][h]
         /\ Learned(i, k, call.rows, states[i][k], own, rowsFed) \in Stream
<1> DEFINE new == Learned(i, k, call.rows, states[i][k], own, rowsFed)
<1>1. setup \in Setups /\ Fits(call.rows, rowsFed) /\ k \in DOMAIN states[i] /\ states[i] \in Streams
  BY UnderWay DEF Typed, Steps, StatesTyped
<1>2. states[i] \in [DOMAIN states[i] -> Stream] /\ k \in Keys /\ states[i][k] \in Stream
      /\ DOMAIN states[i] \in FiniteSubsetsOf(Keys)
  BY <1>1, StreamsAre
<1>3. new \in Stream
  BY <1>1, <1>2, LearnedTyped
<1>4. states' = [states EXCEPT ![i][k] = new]
  BY DEF StreamTakes
<1> HIDE DEF new
<1>5. [states[i] EXCEPT ![k] = new] \in [DOMAIN states[i] -> Stream]
  BY <1>2, <1>3
<1>6. [states[i] EXCEPT ![k] = new] \in Streams
  BY <1>2, <1>5, StreamsMade
<1>7. states' = [states EXCEPT ![i] = [states[i] EXCEPT ![k] = new]]
  BY <1>4
<1>8. states \in [SpecIds -> Streams]
  BY DEF Typed, StatesTyped
<1>9. states' \in [SpecIds -> Streams]
  BY <1>6, <1>7, <1>8
<1>10. \A j \in SpecIds : states'[j] = IF j = i THEN [states[i] EXCEPT ![k] = new] ELSE states[j]
  BY <1>7, <1>8
<1>11. \A j \in SpecIds : DOMAIN states'[j] = DOMAIN states[j]
  BY <1>2, <1>5, <1>10
<1>12. \A j \in SpecIds : \A h \in DOMAIN states[j] :
         states'[j][h] = IF j = i /\ h = k THEN new ELSE states[j][h]
  BY <1>2, <1>10
<1> QED BY <1>1, <1>2, <1>3, <1>9, <1>11, <1>12 DEF new

(* A step that learns is a stream's that takes its rows, or the first of   *)
(* them and is over.                                                       *)
LEMMA LearningIs ==
  ASSUME Typed, Learn \/ LearnPastBudget
  PROVE  /\ call.step = "learn"
         /\ \E i \in SpecIds, k \in GroupsIn(call.rows), own \in Seq(1..Len(call.rows)),
              over \in BOOLEAN :
              /\ <<i, k>> \in call.todo /\ (~over => own = RowsOf(call.rows, k))
              /\ StreamTakes(i, k, own, over)
<1>1. CASE Learn
  <2>1. PICK i \in SpecIds, k \in GroupsIn(call.rows) :
          /\ call.step = "learn" /\ <<i, k>> \in call.todo
          /\ StreamTakes(i, k, RowsOf(call.rows, k), FALSE)
    BY <1>1 DEF Learn
  <2>2. RowsOf(call.rows, k) \in Seq(1..Len(call.rows))
    BY <2>1, UnderWay, OwnTyped DEF Typed, Steps, Fits
  <2> QED BY <2>1, <2>2
<1>2. CASE LearnPastBudget
  <2>1. PICK i \in SpecIds, k \in GroupsIn(call.rows) :
          /\ call.step = "learn" /\ <<i, k>> \in call.todo
          /\ \E n \in 1..Len(RowsOf(call.rows, k)) :
               StreamTakes(i, k, SubSeq(RowsOf(call.rows, k), 1, n), TRUE)
    BY <1>2 DEF LearnPastBudget
  <2>2. PICK n \in 1..Len(RowsOf(call.rows, k)) :
          StreamTakes(i, k, SubSeq(RowsOf(call.rows, k), 1, n), TRUE)
    BY <2>1
  <2>3. RowsOf(call.rows, k) \in Seq(1..Len(call.rows))
    BY <2>1, UnderWay, OwnTyped DEF Typed, Steps, Fits
  <2>4. \A m \in 1..n : RowsOf(call.rows, k)[m] \in 1..Len(call.rows)
    <3> HIDE DEF RowsOf
    <3>1. Len(RowsOf(call.rows, k)) \in Nat
          /\ \A m \in 1..Len(RowsOf(call.rows, k)) : RowsOf(call.rows, k)[m] \in 1..Len(call.rows)
      BY <2>3, LenProperties
    <3> QED BY <3>1
  <2>5. SubSeq(RowsOf(call.rows, k), 1, n) \in Seq(1..Len(call.rows))
    <3> HIDE DEF RowsOf
    <3>1. n \in Nat
      BY <2>3, LenProperties
    <3> QED BY <2>3, <2>4, <3>1, SubSeqProperties
  <2> QED BY <2>1, <2>2, <2>5
<1> QED BY <1>1, <1>2

(* A stream takes rows.                                                    *)
LEMMA TakesTyped ==
  ASSUME Typed, UNCHANGED setup, call.step = "learn",
         NEW i \in SpecIds, NEW k \in GroupsIn(call.rows), NEW own \in Seq(1..Len(call.rows)),
         NEW over \in BOOLEAN, StreamTakes(i, k, own, over)
  PROVE  Typed'
<1>t1. StatesTyped'
  BY TakesIs, SetupStays DEF StatesTyped
<1>t2. CoresTyped'
  BY CoresStay DEF Typed, StreamTakes
<1>t3. RefitsTyped'
  BY RefitsStay DEF Typed, StreamTakes
<1>t4. NoticesTyped'
  BY NoticesStay DEF Typed, StreamTakes
<1>t5. MarksTyped'
  BY MarksStay DEF Typed, MarksTyped, StreamTakes
<1>t6. CallTyped'
  <2>1. call # Idle /\ call \in CallType /\ Fits(call.rows, rowsFed)
    BY UnderWay DEF Typed, Steps
  <2>2. SpansClosed(i, k, call.rows, states[i][k], own, rowsFed) \subseteq ClosedAt
    BY <2>1, TakesIs, SpansClosedTyped DEF Typed
  <2>3. call' = [call EXCEPT !.todo = @ \ {<<i, k>>}, !.over = @ \/ over,
           !.closed = @ \cup SpansClosed(i, k, call.rows, states[i][k], own, rowsFed)]
    BY DEF StreamTakes
  <2>4. call' \in CallType /\ call'.rows = call.rows /\ call'.before = call.before
        /\ call'.step = "learn"
    BY <2>1, <2>2, <2>3 DEF CallType
  <2>5. SnapshotTaken'
    BY <2>4 DEF SnapshotTaken
  <2> QED BY <2>1, <2>4, <2>5, TakesIs, CallGoesOn DEF Typed, StreamTakes
<1>t7. FileTyped'
  BY FileStays DEF Typed, StreamTakes
<1> QED BY <1>t1, <1>t2, <1>t3, <1>t4, <1>t5, <1>t6, <1>t7 DEF Typed

LEMMA PutBackTyped ==
  ASSUME Typed, call.step \in Steps, UNCHANGED setup, states' = Forget(states, call.fresh), RefitsRestored,
         refitsSaid' = refitsSaid
  PROVE  StatesTyped' /\ RefitsTyped' /\ NoticesTyped'
<1>1. /\ call.before.reserved \in Reservations /\ call.before.noticed \in Flags
      /\ call.before.notices \in 0..Len(notices) /\ Len(notices) \in Nat
  BY UnderWay, LenProperties DEF Typed, NoticesTyped
<1>2. Forget(states, call.fresh) \in [SpecIds -> Streams]
  BY ForgetTyped DEF Typed
<1>3. refitsSaid' \in [SpecIds -> Nat]
  BY DEF Typed, RefitsTyped
<1>4. \A n \in 1..call.before.notices : notices[n] \in BankNotice
  BY <1>1, LenProperties DEF Typed, NoticesTyped
<1>5. SubSeq(notices, 1, call.before.notices) \in Seq(BankNotice)
  BY <1>1, <1>4, SubSeqProperties
<1>6. StatesTyped'
  BY <1>2, SetupStays DEF StatesTyped
<1>7. RefitsTyped'
  BY <1>1, <1>3, SetupStays DEF RefitsTyped, RefitsRestored
<1>8. NoticesTyped'
  BY <1>5, SetupStays DEF NoticesTyped, RefitsRestored
<1> QED BY <1>6, <1>7, <1>8

(* A phase is refused.                                                     *)
LEMMA PhaseRefusesTyped ==
  ASSUME Typed, UNCHANGED setup, PhaseRefuses
  PROVE  Typed'
<1>1. StatesTyped' /\ RefitsTyped' /\ NoticesTyped'
  BY PutBackTyped DEF PhaseRefuses, history, Steps
<1>t1. StatesTyped'
  BY <1>1
<1>t2. CoresTyped'
  BY CoresStay DEF Typed, PhaseRefuses, history
<1>t3. RefitsTyped'
  BY <1>1
<1>t4. NoticesTyped'
  BY <1>1
<1>t5. MarksTyped'
  BY MarksStay DEF Typed, MarksTyped, PhaseRefuses, history
<1>t6. CallTyped'
  BY CallEnds DEF PhaseRefuses
<1>t7. FileTyped'
  BY FileStays DEF Typed, PhaseRefuses, history
<1> QED BY <1>t1, <1>t2, <1>t3, <1>t4, <1>t5, <1>t6, <1>t7 DEF Typed

(* The comparisons run.                                                    *)
LEMMA SecondPhaseTyped ==
  ASSUME Typed, UNCHANGED setup, SecondPhase
  PROVE  Typed'
<1>1. call.step = "learn"
  BY DEF SecondPhase
<1>2. call' = [call EXCEPT !.phase = 2, !.todo = Tasks(2)]
  BY DEF SecondPhase
<1>t1. StatesTyped'
  BY StatesStay DEF Typed, SecondPhase, kept, history
<1>t2. CoresTyped'
  BY CoresStay DEF Typed, SecondPhase, kept, history
<1>t3. RefitsTyped'
  BY RefitsStay DEF Typed, SecondPhase, kept, history
<1>t4. NoticesTyped'
  BY NoticesStay DEF Typed, SecondPhase, kept, history
<1>t5. MarksTyped'
  BY MarksStay DEF Typed, MarksTyped, SecondPhase, kept, history
<1>t6. CallTyped'
  <2>1. call # Idle /\ call \in CallType /\ Fits(call.rows, rowsFed)
    BY <1>1, UnderWay DEF Typed, Steps
  <2>2. Tasks(2) \subseteq SpecIds \X Keys
    BY <2>1, GroupsTyped DEF Tasks, Typed, Fits, FiniteSubsetsOf
  <2>3. call' \in CallType /\ call'.rows = call.rows /\ call'.before = call.before
        /\ call'.step = "learn"
    BY <1>1, <1>2, <2>1, <2>2 DEF CallType
  <2>4. SnapshotTaken'
    BY <2>3 DEF SnapshotTaken
  <2> QED BY <2>1, <2>3, <2>4, CallGoesOn DEF Typed, SecondPhase, kept
<1>t7. FileTyped'
  BY FileStays DEF Typed, SecondPhase, kept, history
<1> QED BY <1>t1, <1>t2, <1>t3, <1>t4, <1>t5, <1>t6, <1>t7 DEF Typed

(* The output cannot be assembled.                                         *)
LEMMA AssemblyFailsTyped ==
  ASSUME Typed, UNCHANGED setup, AssemblyFails
  PROVE  Typed'
<1>t1. StatesTyped'
  BY StatesStay DEF Typed, AssemblyFails, kept
<1>t2. CoresTyped'
  BY CoresStay DEF Typed, AssemblyFails, kept
<1>t3. RefitsTyped'
  BY RefitsStay DEF Typed, AssemblyFails, kept
<1>t4. NoticesTyped'
  BY NoticesStay DEF Typed, AssemblyFails, kept
<1>t5. MarksTyped'
  BY MarksStay DEF Typed, MarksTyped, AssemblyFails, kept
<1>t6. CallTyped'
  BY CallEnds DEF AssemblyFails
<1>t7. FileTyped'
  BY FileStays DEF Typed, AssemblyFails, kept
<1> QED BY <1>t1, <1>t2, <1>t3, <1>t4, <1>t5, <1>t6, <1>t7 DEF Typed

(* Streams whose notices are taken are otherwise as they were.             *)
LEMMA SilentTyped ==
  ASSUME NEW m \in Streams, NEW J, J \subseteq DOMAIN m, NEW ks
  PROVE  /\ Silent([k \in J |-> m[k]], ks) \in Streams
         /\ DOMAIN Silent([k \in J |-> m[k]], ks) = J
         /\ \A k \in J : /\ Silent([h \in J |-> m[h]], ks)[k].rows = m[k].rows
                         /\ Silent([h \in J |-> m[h]], ks)[k].givenUp = m[k].givenUp
<1> DEFINE q == Silent([k \in J |-> m[k]], ks)
<1>1. J \in FiniteSubsetsOf(Keys) /\ \A k \in J : m[k] \in Stream
  BY StreamsAre, FiniteSubset
<1>2. q = [k \in J |-> IF k \in ks THEN [m[k] EXCEPT !.pending = <<>>] ELSE m[k]]
  BY DEF Silent
<1>3. <<>> \in Seq(Notice)
  BY EmptySeq
<1>4. ASSUME NEW k \in J
      PROVE  q[k] \in Stream /\ q[k].rows = m[k].rows /\ q[k].givenUp = m[k].givenUp
  <2>1. m[k] \in Stream
    BY <1>1
  <2>2. q[k] = IF k \in ks THEN [m[k] EXCEPT !.pending = <<>>] ELSE m[k]
    BY <1>2
  <2> HIDE DEF q
  <2> QED BY <1>3, <2>1, <2>2 DEF Stream
<1>5. q \in [J -> Stream] /\ DOMAIN q = J
  BY <1>2, <1>4
<1>6. q \in Streams
  <2> HIDE DEF q
  <2> QED BY <1>1, <1>5, StreamsMade
<1> QED BY <1>4, <1>5, <1>6

(* The call returns.                                                       *)
LEMMA ReturnTyped ==
  ASSUME Typed, UNCHANGED setup, Return
  PROVE  Typed'
<1>1. call.step \in Steps
  BY DEF Return, Steps
<1>2. call \in CallType /\ Fits(call.rows, rowsFed)
      /\ \A i \in SpecIds : GroupsIn(call.rows) \subseteq DOMAIN states[i]
  BY <1>1, UnderWay DEF Typed
<1>t1. StatesTyped'
  <2>1. ASSUME NEW i \in SpecIds
        PROVE  Silent([k \in DOMAIN states[i] \ Finished(i) |-> states[i][k]], Speaking(i)) \in Streams
    <3>1. states[i] \in Streams /\ DOMAIN states[i] \ Finished(i) \subseteq DOMAIN states[i]
      BY DEF Typed, StatesTyped
    <3> QED BY <3>1, SilentTyped
  <2>2. [i \in SpecIds |-> Silent([k \in DOMAIN states[i] \ Finished(i) |-> states[i][k]],
                                  Speaking(i))] \in [SpecIds -> Streams]
    BY <2>1
  <2> QED BY <2>2, SetupStays DEF StatesTyped, Return
<1>t2. CoresTyped'
  BY CoresStay DEF Typed, Return
<1>t3. RefitsTyped'
  BY RefitsStay DEF Typed, Return
<1>t4. NoticesTyped'
  <2> DEFINE said == [i \in SpecIds |-> Said(i, Speaking(i))]
  <2>1. ASSUME NEW i \in SpecIds PROVE Said(i, Speaking(i)) \in Seq(Notice)
    <3>1. Speaking(i) \subseteq DOMAIN states[i]
      BY <1>2 DEF Speaking
    <3> QED BY <3>1, SaidTyped DEF Typed
  <2>2. said \in [SpecIds -> Seq(Notice)]
    BY <2>1
  <2>3. notices' = notices \o FlattenSeq(said)
    BY DEF Return
  <2>4. notices \o FlattenSeq(said) \in Seq(BankNotice)
    <3> HIDE DEF said
    <3> QED BY <2>2, AllSaid DEF Typed
  <2> HIDE DEF said
  <2> QED BY <2>3, <2>4, SetupStays DEF NoticesTyped
<1>t5. MarksTyped'
  <2>1. ASSUME NEW i \in SpecIds
        PROVE  (IF Specs[i].close = "monotone" /\ call.rows # <<>> THEN Largest ELSE highWater[i])
               \in Keys \cup {None}
    BY <1>2, LargestIs DEF Typed, MarksTyped, Fits
  <2>2. highWater' \in [SpecIds -> Keys \cup {None}]
    BY <2>1 DEF Return
  <2>3. rowsFed' \in 0..MaxFed
    <3>1. rowsFed' = rowsFed + Len(call.rows)
      BY DEF Return
    <3>2. Len(call.rows) \in Nat /\ rowsFed \in Nat /\ rowsFed + Len(call.rows) <= MaxFed
      BY <1>2, RowsTyped DEF Fits, Typed
    <3> QED BY <3>1, <3>2
  <2>4. keyForm' \in {"integer", "text"}
    BY <1>2 DEF Return, CallType
  <2>5. noticesLeft' \in BOOLEAN /\ broken' \in BOOLEAN
    BY DEF Return, Typed, MarksTyped
  <2> QED BY <2>2, <2>3, <2>4, <2>5, SetupStays DEF MarksTyped
<1>t6. CallTyped'
  BY CallEnds DEF Return
<1>t7. FileTyped'
  BY FileStays DEF Typed, Return
<1> QED BY <1>t1, <1>t2, <1>t3, <1>t4, <1>t5, <1>t6, <1>t7 DEF Typed

(* The notices are taken.                                                  *)
LEMMA TakeNoticesTyped ==
  ASSUME Typed, UNCHANGED setup, TakeNotices
  PROVE  Typed'
<1>t1. StatesTyped'
  BY StatesStay DEF Typed, TakeNotices, kept
<1>t2. CoresTyped'
  BY CoresStay DEF Typed, TakeNotices, kept
<1>t3. RefitsTyped'
  <2>1. ASSUME NEW i \in SpecIds PROVE refitsSaid[i] + RefitsIn(notices, i) \in Nat
    <3>1. RefitsIn(notices, i) \in Nat /\ refitsSaid[i] \in Nat
      BY RefitsInFinite DEF Typed, NoticesTyped, RefitsTyped
    <3> QED BY <3>1
  <2>2. refitsSaid' \in [SpecIds -> Nat]
    BY <2>1 DEF TakeNotices
  <2> QED BY <2>2, SetupStays DEF RefitsTyped, Typed, TakeNotices, kept
<1>t4. NoticesTyped'
  <2>1. <<>> \in Seq(BankNotice)
    BY EmptySeq
  <2> QED BY <2>1, SetupStays DEF NoticesTyped, TakeNotices
<1>t5. MarksTyped'
  BY MarksStay DEF Typed, MarksTyped, TakeNotices, kept
<1>t6. CallTyped'
  BY CallKept DEF Typed, TakeNotices, kept
<1>t7. FileTyped'
  BY FileStays DEF Typed, TakeNotices, kept
<1> QED BY <1>t1, <1>t2, <1>t3, <1>t4, <1>t5, <1>t6, <1>t7 DEF Typed

(* The closed rows are read.                                               *)
LEMMA ClosedGroupsTyped ==
  ASSUME Typed, UNCHANGED setup, ClosedGroups
  PROVE  Typed'
<1>t1. StatesTyped'
  BY StatesStay DEF Typed, ClosedGroups
<1>t2. CoresTyped'
  BY CoresStay DEF Typed, ClosedGroups
<1>t3. RefitsTyped'
  BY RefitsStay DEF Typed, ClosedGroups
<1>t4. NoticesTyped'
  BY NoticesStay DEF Typed, ClosedGroups
<1>t5. MarksTyped'
  BY MarksStay DEF Typed, MarksTyped, ClosedGroups
<1>t6. CallTyped'
  BY CallKept DEF Typed, ClosedGroups
<1>t7. FileTyped'
  BY FileStays DEF Typed, ClosedGroups
<1> QED BY <1>t1, <1>t2, <1>t3, <1>t4, <1>t5, <1>t6, <1>t7 DEF Typed

(* A core without some of its groups.                                      *)
LEMMA CoreLeft ==
  ASSUME NEW core \in Core, NEW J
  PROVE  [runs |-> [k \in DOMAIN core.runs \ J |-> core.runs[k]],
          saved |-> [k \in DOMAIN core.saved \ J |-> core.saved[k]]] \in Core
<1> DEFINE runs == [k \in DOMAIN core.runs \ J |-> core.runs[k]]
           saved == [k \in DOMAIN core.saved \ J |-> core.saved[k]]
<1>1. /\ DOMAIN core.runs \subseteq Keys /\ \A k \in DOMAIN core.runs : core.runs[k] \in Seq(1..MaxFed)
      /\ DOMAIN core.saved \subseteq Keys
      /\ \A k \in DOMAIN core.saved : core.saved[k] \in Seq(1..MaxFed)
  BY CoreIs
<1>2. runs \in [DOMAIN core.runs \ J -> Seq(1..MaxFed)] /\ DOMAIN core.runs \ J \subseteq Keys
      /\ saved \in [DOMAIN core.saved \ J -> Seq(1..MaxFed)] /\ DOMAIN core.saved \ J \subseteq Keys
  BY <1>1
<1> HIDE DEF runs, saved
<1>3. runs \in CoreMap /\ saved \in CoreMap
  BY <1>2, CoreMapMade
<1> QED BY <1>3 DEF Core, runs, saved

(* What dropping the groups in keys, of the specs in S, leaves.            *)
Dropped(S, keys, i) == IF i \in S THEN keys ELSE {}
DropLeaves(S, keys) ==
  /\ S \in SpecChoices /\ keys \in SUBSET Keys /\ call = Idle
  /\ notices' = notices \o FlattenSeq([i \in SpecIds |->
       Said(i, IF i \in S THEN keys \cap DOMAIN states[i] ELSE {})])
  /\ states' = [i \in SpecIds |-> [k \in DOMAIN states[i] \ Dropped(S, keys, i) |-> states[i][k]]]
  /\ resolvers' = [i \in Formulas |->
       [runs |-> [k \in DOMAIN resolvers[i].runs \ Dropped(S, keys, i) |-> resolvers[i].runs[k]],
        saved |-> [k \in DOMAIN resolvers[i].saved \ Dropped(S, keys, i) |-> resolvers[i].saved[k]]]]

LEMMA DropIs ==
  ASSUME DropGroups
  PROVE  \E S \in SpecChoices, keys \in SUBSET Keys : DropLeaves(S, keys)
BY DEF DropGroups, DropLeaves, Dropped

LEMMA DropNotices ==
  ASSUME Typed, NEW S, NEW keys, DropLeaves(S, keys)
  PROVE  /\ notices' \in Seq(BankNotice)
         /\ \A i : RefitsIn(notices', i) = RefitsIn(notices, i)
<1> DEFINE said == [i \in SpecIds |-> Said(i, IF i \in S THEN keys \cap DOMAIN states[i] ELSE {})]
<1>1. ASSUME NEW i \in SpecIds
      PROVE  Said(i, IF i \in S THEN keys \cap DOMAIN states[i] ELSE {}) \in Seq(Notice)
  BY SaidTyped DEF Typed
<1>2. said \in [SpecIds -> Seq(Notice)]
  BY <1>1
<1>3. notices' = notices \o FlattenSeq(said)
  BY DEF DropLeaves
<1> HIDE DEF said
<1>4. /\ notices \o FlattenSeq(said) \in Seq(BankNotice)
      /\ \A i : RefitsIn(notices \o FlattenSeq(said), i) = RefitsIn(notices, i)
  BY <1>2, AllSaid DEF Typed
<1> QED BY <1>3, <1>4

(* Groups are dropped.                                                     *)
LEMMA DropGroupsTyped ==
  ASSUME Typed, UNCHANGED setup, DropGroups
  PROVE  Typed'
<1>1. PICK S \in SpecChoices, keys \in SUBSET Keys : DropLeaves(S, keys)
  BY DropIs
<1>t1. StatesTyped'
  <2>1. ASSUME NEW i \in SpecIds
        PROVE  [k \in DOMAIN states[i] \ Dropped(S, keys, i) |-> states[i][k]] \in Streams
    BY StreamsLeft DEF Typed, StatesTyped
  <2>2. states' \in [SpecIds -> Streams]
    BY <2>1, <1>1 DEF DropLeaves
  <2> QED BY <2>2, SetupStays DEF StatesTyped
<1>t2. CoresTyped'
  <2>1. ASSUME NEW i \in Formulas
        PROVE  [runs |-> [k \in DOMAIN resolvers[i].runs \ Dropped(S, keys, i) |-> resolvers[i].runs[k]],
                saved |-> [k \in DOMAIN resolvers[i].saved \ Dropped(S, keys, i) |-> resolvers[i].saved[k]]]
               \in Core
    BY CoreLeft DEF Typed, CoresTyped
  <2>2. resolvers' \in [Formulas -> Core]
    BY <2>1, <1>1 DEF DropLeaves
  <2> QED BY <2>2, SetupStays DEF CoresTyped
<1>t3. RefitsTyped'
  BY RefitsStay DEF Typed, DropGroups, history
<1>t4. NoticesTyped'
  BY <1>1, DropNotices, SetupStays DEF NoticesTyped
<1>t5. MarksTyped'
  BY MarksStay DEF Typed, MarksTyped, DropGroups, history
<1>t6. CallTyped'
  BY CallKept DEF Typed, DropGroups, history
<1>t7. FileTyped'
  BY FileStays DEF Typed, DropGroups, history
<1> QED BY <1>t1, <1>t2, <1>t3, <1>t4, <1>t5, <1>t6, <1>t7 DEF Typed

(* What a file holds of the cores.                                         *)
SavedCores == [i \in Formulas |->
  [runs |-> <<>>,
   saved |-> [k \in DOMAIN resolvers[i].runs \cup DOMAIN resolvers[i].saved |-> CoreRows(i, k)]]]

LEMMA SavedCoresTyped ==
  ASSUME CoresTyped
  PROVE  SavedCores \in [Formulas -> Core]
<1>1. ASSUME NEW i \in Formulas
      PROVE  [runs |-> <<>>, saved |-> [k \in DOMAIN resolvers[i].runs \cup DOMAIN resolvers[i].saved |->
                CoreRows(i, k)]] \in Core
  <2> DEFINE K == DOMAIN resolvers[i].runs \cup DOMAIN resolvers[i].saved
             saved == [k \in K |-> CoreRows(i, k)]
  <2>1. resolvers[i] \in Core
    BY DEF CoresTyped
  <2>2. /\ DOMAIN resolvers[i].runs \subseteq Keys
        /\ \A k \in DOMAIN resolvers[i].runs : resolvers[i].runs[k] \in Seq(1..MaxFed)
        /\ DOMAIN resolvers[i].saved \subseteq Keys
        /\ \A k \in DOMAIN resolvers[i].saved : resolvers[i].saved[k] \in Seq(1..MaxFed)
    BY <2>1, CoreIs
  <2>3. saved \in [K -> Seq(1..MaxFed)] /\ K \subseteq Keys
    BY <2>2 DEF CoreRows
  <2>4. saved \in CoreMap
    <3> HIDE DEF saved, K
    <3> QED BY <2>3, CoreMapMade
  <2>5. <<>> \in CoreMap
    <3>1. <<>> \in [{} -> Seq(1..MaxFed)]
      OBVIOUS
    <3> QED BY <3>1 DEF CoreMap
  <2> HIDE DEF saved
  <2> QED BY <2>4, <2>5 DEF Core, saved
<1> QED BY <1>1 DEF SavedCores

LEMMA SaveIs ==
  ASSUME Save
  PROVE  /\ call = Idle /\ ~broken
         /\ file' = [bank |-> [states |-> states, resolvers |-> SavedCores, reserved |-> reserved,
                               highWater |-> highWater, keyForm |-> keyForm, closed |-> closed,
                               rowsFed |-> rowsFed],
                     drained |-> drained]
<1>1. file' = [bank |-> [Standing EXCEPT !.resolvers = SavedCores], drained |-> drained]
  BY DEF Save, SavedCores
<1>2. [Standing EXCEPT !.resolvers = SavedCores] =
        [states |-> states, resolvers |-> SavedCores, reserved |-> reserved,
         highWater |-> highWater, keyForm |-> keyForm, closed |-> closed, rowsFed |-> rowsFed]
  BY DEF Standing
<1> QED BY <1>1, <1>2 DEF Save, RefuseIfBroken

(* The bank is saved.                                                      *)
LEMMA SaveTyped ==
  ASSUME Typed, UNCHANGED setup, Save
  PROVE  Typed'
<1>t1. StatesTyped'
  BY StatesStay DEF Typed, Save, kept, history
<1>t2. CoresTyped'
  BY CoresStay DEF Typed, Save, kept, history
<1>t3. RefitsTyped'
  BY RefitsStay DEF Typed, Save, kept, history
<1>t4. NoticesTyped'
  BY NoticesStay DEF Typed, Save, kept, history
<1>t5. MarksTyped'
  BY MarksStay DEF Typed, MarksTyped, Save, kept, history
<1>t6. CallTyped'
  BY CallKept DEF Typed, Save, kept, history
<1>t7. FileTyped'
  <2>1. SavedCores \in [Formulas -> Core]
    BY SavedCoresTyped DEF Typed
  <2>2. /\ file'.bank.states = states /\ file'.bank.resolvers = SavedCores
        /\ file'.bank.reserved = reserved /\ file'.bank.highWater = highWater
        /\ file'.bank.keyForm = keyForm /\ file'.bank.rowsFed = rowsFed
    BY SaveIs
  <2> QED BY <2>1, <2>2, SetupStays DEF FileTyped, Typed, StatesTyped, RefitsTyped, MarksTyped
<1> QED BY <1>t1, <1>t2, <1>t3, <1>t4, <1>t5, <1>t6, <1>t7 DEF Typed

(* The file is loaded.                                                     *)
LEMMA RestartTyped ==
  ASSUME Typed, UNCHANGED setup, Restart
  PROVE  Typed'
<1>t1. StatesTyped'
  BY SetupStays DEF Typed, StatesTyped, FileTyped, Restart
<1>t2. CoresTyped'
  BY SetupStays DEF Typed, CoresTyped, FileTyped, Restart
<1>t3. RefitsTyped'
  <2>1. noticed' \in Flags
    BY DEF Restart, Flags
  <2>2. refitsSaid' \in [SpecIds -> Nat]
    BY DEF Restart
  <2>3. reserved' \in Reservations
    BY DEF Restart, Typed, FileTyped
  <2> QED BY <2>1, <2>2, <2>3, SetupStays DEF RefitsTyped
<1>t4. NoticesTyped'
  <2>1. <<>> \in Seq(BankNotice)
    BY EmptySeq
  <2> QED BY <2>1, SetupStays DEF NoticesTyped, Restart
<1>t5. MarksTyped'
  BY SetupStays DEF Typed, MarksTyped, FileTyped, Restart
<1>t6. CallTyped'
  BY CallEnds DEF Restart
<1>t7. FileTyped'
  BY FileStays DEF Typed, Restart
<1> QED BY <1>t1, <1>t2, <1>t3, <1>t4, <1>t5, <1>t6, <1>t7 DEF Typed

(* Nothing happens.                                                        *)
LEMMA StutterTyped ==
  ASSUME Typed, UNCHANGED vars
  PROVE  Typed'
<1>1. UNCHANGED <<setup, kept, noticed, notices, noticesLeft, broken, call, file, history>>
  BY DEF vars
<1>2. StatesTyped' /\ CoresTyped' /\ RefitsTyped' /\ NoticesTyped' /\ FileTyped'
  BY <1>1, StatesStay, CoresStay, RefitsStay, NoticesStay, FileStays DEF Typed, kept, history
<1>3. MarksTyped'
  BY <1>1, MarksStay DEF Typed, kept, MarksTyped
<1>4. CallTyped'
  BY <1>1, CallKept DEF Typed, kept
<1> QED BY <1>1, <1>2, <1>3, <1>4 DEF Typed

LEMMA InitTyped ==
  ASSUME Init
  PROVE  Typed
<1>1. setup \in Setups
  BY DEF Init
<1>2. <<>> \in Streams
  <2>1. {} \in FiniteSubsetsOf(Keys)
    BY FS_EmptySet DEF FiniteSubsetsOf
  <2>2. <<>> \in [{} -> Stream]
    OBVIOUS
  <2> QED BY <2>1, <2>2, StreamsMade
<1>3. [runs |-> <<>>, saved |-> <<>>] \in Core
  <2>1. <<>> \in [{} -> Seq(1..MaxFed)]
    OBVIOUS
  <2>2. <<>> \in CoreMap
    BY <2>1 DEF CoreMap
  <2> QED BY <2>2 DEF Core
<1>4. MaxFed \in Nat /\ RefitRoom \in Nat
  BY <1>1, SetupTyped
<1>5. StatesTyped
  BY <1>2 DEF Init, StatesTyped
<1>6. CoresTyped
  BY <1>3 DEF Init, CoresTyped
<1>7. RefitsTyped
  BY <1>4 DEF Init, RefitsTyped, Reservations, Flags
<1>8. NoticesTyped
  <2>1. <<>> \in Seq(BankNotice)
    BY EmptySeq
  <2> QED BY <2>1 DEF Init, NoticesTyped
<1>9. MarksTyped
  <2>1. highWater \in [SpecIds -> Keys \cup {None}] /\ keyForm \in {"none", "integer", "text"}
    BY DEF Init
  <2>2. rowsFed \in 0..MaxFed
    <3>1. rowsFed = 0
      BY DEF Init
    <3> QED BY <1>4, <3>1
  <2>3. noticesLeft \in BOOLEAN /\ broken \in BOOLEAN
    BY DEF Init
  <2> QED BY <2>1, <2>2, <2>3 DEF MarksTyped
<1>10. CallTyped
  BY DEF Init, CallTyped
<1>11. FileTyped
  <2>1. /\ file.bank.states = states /\ file.bank.resolvers = resolvers
        /\ file.bank.reserved = reserved /\ file.bank.highWater = highWater
        /\ file.bank.keyForm = keyForm /\ file.bank.rowsFed = rowsFed
    BY DEF Init, Standing
  <2> QED BY <2>1, <1>5, <1>6, <1>7, <1>9 DEF FileTyped, StatesTyped, CoresTyped, RefitsTyped, MarksTyped
<1> QED BY <1>1, <1>5, <1>6, <1>7, <1>8, <1>9, <1>10, <1>11 DEF Typed

(* A bank keeps to its types: the streams, the cores and the notices are   *)
(* of rows it was fed and of its groups, no more groups hold refit buffers *)
(* than the budget has room for, a chunk under way fits and has a stream   *)
(* for each of its groups, and a call that may have to put its cores back  *)
(* has them (fit_predict_on_pool, reserve_refits, save and load).          *)
THEOREM TypesKept == Spec => []Typed
<1>1. Init => Typed
  BY InitTyped
<1>2. ASSUME Typed, [Next]_vars PROVE Typed'
  <2>1. CASE UNCHANGED vars
    BY <1>2, <2>1, StutterTyped
  <2>2. CASE Next
    <3>1. Step /\ UNCHANGED setup
      BY <2>2 DEF Next
    <3>2. CASE \E rows \in Chunks, form \in {"integer", "text"} : Begin(rows, form)
      BY <1>2, <3>1, <3>2, BeginTyped
    <3>3. CASE CheckRefuses \/ PrepareRefuses \/ ResolveRefuses \/ PrepassRefuses
      BY <1>2, <3>1, <3>3, RefusalTyped DEF Refusal
    <3>4. CASE CheckPasses \/ PreparePasses \/ ResolvePasses \/ PrepassPasses
      BY <1>2, <3>1, <3>4, CheckPassesTyped, PreparePassesTyped, ResolvePassesTyped, PrepassPassesTyped
    <3>5. CASE Learn \/ LearnPastBudget
      BY <1>2, <3>1, <3>5, LearningIs, TakesTyped
    <3>6. CASE PhaseRefuses \/ SecondPhase \/ AssemblyFails \/ Return
      BY <1>2, <3>1, <3>6, PhaseRefusesTyped, SecondPhaseTyped, AssemblyFailsTyped, ReturnTyped
    <3>7. CASE TakeNotices \/ ClosedGroups \/ DropGroups \/ Save \/ Restart
      BY <1>2, <3>1, <3>7, TakeNoticesTyped, ClosedGroupsTyped, DropGroupsTyped, SaveTyped, RestartTyped
    <3> QED BY <3>1, <3>2, <3>3, <3>4, <3>5, <3>6, <3>7 DEF Step
  <2> QED BY <1>2, <2>1, <2>2
<1> QED BY <1>1, <1>2, PTL DEF Spec

-----------------------------------------------------------------------------
(* A refused chunk leaves nothing behind                                   *)

(* What was appended can be taken off again.                               *)
LEMMA ConcatFront ==
  ASSUME NEW S, NEW p \in Seq(S), NEW q \in Seq(S)
  PROVE  SubSeq(p \o q, 1, Len(p)) = p
<1>1. /\ Len(p) \in Nat /\ Len(q) \in Nat
      /\ \A n \in 1..Len(p) : p[n] \in S /\ (p \o q)[n] = p[n]
  BY LenProperties, ConcatProperties
<1> DEFINE s == SubSeq(p \o q, 1, Len(p))
<1>2. s \in Seq(S) /\ Len(s) = (IF 1 <= Len(p) THEN Len(p) - 1 + 1 ELSE 0)
      /\ \A n \in 1..(Len(p) - 1 + 1) : s[n] = (p \o q)[1 + n - 1]
  BY <1>1, SubSeqProperties
<1> HIDE DEF s
<1>3. Len(s) = Len(p)
  BY <1>1, <1>2
<1>4. ASSUME NEW n \in 1..Len(s) PROVE s[n] = p[n]
  <2>1. n \in 1..(Len(p) - 1 + 1) /\ 1 + n - 1 = n /\ n \in 1..Len(p)
    BY <1>1, <1>3
  <2>2. s[n] = (p \o q)[n]
    BY <1>2, <2>1
  <2> QED BY <1>1, <2>1, <2>2
<1>5. s = p
  BY <1>2, <1>3, <1>4, SeqEqual
<1> QED BY <1>5 DEF s

(* The steps of a call that can still refuse it, before a row is learned.  *)
MayRefuse == {"check", "prepare", "resolve", "prepass"}

(* Until a chunk is learned, putting back what it moved gives the bank the *)
(* call began with.                                                        *)
WasKept ==
  call.step \in MayRefuse =>
    /\ was.bank.states = Forget(states, call.fresh)
    /\ was.bank = [states |-> was.bank.states, resolvers |-> was.bank.resolvers,
                   reserved |-> call.before.reserved, highWater |-> highWater,
                   keyForm |-> keyForm, closed |-> closed, rowsFed |-> rowsFed]
    /\ was.noticed = call.before.noticed
    /\ was.notices = SubSeq(notices, 1, call.before.notices)

(* A step of a call that goes on to another that can still refuse it.      *)
GoesOn == CheckPasses \/ PreparePasses \/ ResolvePasses

LEMMA GoesOnIs ==
  ASSUME Typed, UNCHANGED setup, GoesOn
  PROVE  /\ call.step \in MayRefuse /\ call'.step \in MayRefuse
         /\ call'.rows = call.rows /\ call'.fresh = call.fresh /\ call'.before = call.before
         /\ UNCHANGED <<states, reserved, noticed, notices, highWater, keyForm, closed, rowsFed,
                        noticesLeft, broken, file, history>>
<1>1. call.step \in Steps /\ call.step \in MayRefuse
  BY DEF GoesOn, CheckPasses, PreparePasses, ResolvePasses, Steps, MayRefuse
<1>2. call \in CallType
  BY <1>1, UnderWay DEF Typed
<1>3. CASE CheckPasses
  BY <1>1, <1>2, <1>3 DEF CheckPasses, NextStep, CallType, MayRefuse
<1>4. CASE PreparePasses
  <2>1. \E snapshot : call' = [call EXCEPT !.step = "resolve", !.snapshot = snapshot]
    BY <1>4 DEF PreparePasses
  <2> QED BY <1>1, <1>2, <1>4, <2>1 DEF PreparePasses, CallType, MayRefuse
<1>5. CASE ResolvePasses
  BY <1>1, <1>2, <1>5 DEF ResolvePasses, NextStep, CallType, MayRefuse
<1> QED BY <1>3, <1>4, <1>5 DEF GoesOn

(* After any other step but a call's beginning no step can refuse.         *)
LEMMA NoMoreRefusals ==
  ASSUME Typed, UNCHANGED setup,
         \/ Refusal \/ PrepassPasses \/ Learn \/ LearnPastBudget \/ PhaseRefuses \/ SecondPhase
         \/ AssemblyFails \/ Return \/ TakeNotices \/ ClosedGroups \/ DropGroups \/ Save \/ Restart
  PROVE  call'.step \notin MayRefuse
<1>1. Idle.step \notin MayRefuse
  BY DEF Idle, MayRefuse
<1>2. CASE Refusal
  <2>1. PICK cores \in [Formulas -> Core] : Refuse(cores)
    BY <1>2, RefusalIs
  <2> QED BY <1>1, <2>1 DEF Refuse
<1>3. CASE PhaseRefuses \/ AssemblyFails \/ Return \/ Restart
  BY <1>1, <1>3 DEF PhaseRefuses, AssemblyFails, Return, Restart
<1>4. CASE TakeNotices \/ ClosedGroups \/ DropGroups \/ Save
  BY <1>1, <1>4 DEF TakeNotices, ClosedGroups, DropGroups, Save
<1>5. CASE PrepassPasses
  <2>1. call \in CallType
    BY <1>5, UnderWay DEF Typed, PrepassPasses, Steps
  <2>2. call' = [call EXCEPT !.step = "learn", !.phase = 1, !.todo = Tasks(1), !.left = noticesLeft]
    BY <1>5 DEF PrepassPasses
  <2> QED BY <2>1, <2>2 DEF CallType, MayRefuse
<1>6. CASE SecondPhase
  <2>1. call \in CallType /\ call.step = "learn"
    BY <1>6, UnderWay DEF Typed, SecondPhase, Steps
  <2>2. call' = [call EXCEPT !.phase = 2, !.todo = Tasks(2)]
    BY <1>6 DEF SecondPhase
  <2> QED BY <2>1, <2>2 DEF CallType, MayRefuse
<1>7. CASE Learn \/ LearnPastBudget
  <2>1. PICK i \in SpecIds, k \in GroupsIn(call.rows), own \in Seq(1..Len(call.rows)),
             over \in BOOLEAN : StreamTakes(i, k, own, over)
    BY <1>7, LearningIs
  <2>2. call \in CallType /\ call.step = "learn"
    BY <1>7, LearningIs, UnderWay DEF Typed, Steps
  <2>3. \E todo, closedRows, isOver :
          call' = [call EXCEPT !.todo = todo, !.over = isOver, !.closed = closedRows]
    BY <2>1 DEF StreamTakes
  <2> QED BY <2>2, <2>3 DEF CallType, MayRefuse
<1> QED BY <1>2, <1>3, <1>4, <1>5, <1>6, <1>7

(* The streams a call's new groups are given are forgotten with them.      *)
LEMMA BeginForgotten ==
  ASSUME Typed, UNCHANGED setup, NEW rows \in Chunks, NEW form \in {"integer", "text"},
         Begin(rows, form)
  PROVE  Forget(states, call.fresh)' = states
<1>1. states \in [SpecIds -> Streams] /\ SpecIds' = SpecIds
  BY SetupStays DEF Typed, StatesTyped
<1>2. call'.fresh = UNION {{i} \X Fresh(i, rows) : i \in SpecIds}
  BY DEF Begin
<1>3. states' = [i \in SpecIds |-> [k \in DOMAIN states[i] \cup GroupsIn(rows) |->
        IF k \in DOMAIN states[i] THEN states[i][k]
        ELSE NewStream(Specs[i].refit /\ ~Reserves(i, rows, k))]]
  BY DEF Begin
<1>4. ASSUME NEW i \in SpecIds
      PROVE  [k \in {k \in DOMAIN states'[i] : <<i, k>> \notin call'.fresh} |-> states'[i][k]] = states[i]
  <2>1. \A k : <<i, k>> \in call'.fresh <=> k \in Fresh(i, rows)
    BY <1>2
  <2>2. DOMAIN states'[i] = DOMAIN states[i] \cup GroupsIn(rows)
    BY <1>3
  <2>3. {k \in DOMAIN states'[i] : <<i, k>> \notin call'.fresh} = DOMAIN states[i]
    BY <2>1, <2>2 DEF Fresh
  <2>4. \A k \in DOMAIN states[i] : states'[i][k] = states[i][k]
    BY <1>3
  <2>5. states[i] = [k \in DOMAIN states[i] |-> states[i][k]]
    BY <1>1, StreamsAre
  <2> QED BY <2>3, <2>4, <2>5
<1>5. Forget(states, call.fresh)' =
        [i \in SpecIds |->
           [k \in {k \in DOMAIN states'[i] : <<i, k>> \notin call'.fresh} |-> states'[i][k]]]
  BY <1>1 DEF Forget
<1>6. [i \in SpecIds |->
         [k \in {k \in DOMAIN states'[i] : <<i, k>> \notin call'.fresh} |-> states'[i][k]]]
      = [i \in SpecIds |-> states[i]]
  BY <1>4
<1> QED BY <1>1, <1>5, <1>6

LEMMA BeginKeeps ==
  ASSUME Typed, UNCHANGED setup, NEW rows \in Chunks, NEW form \in {"integer", "text"},
         Begin(rows, form)
  PROVE  WasKept'
<1>1. was' = [bank |-> Standing, noticed |-> noticed, notices |-> notices]
  BY DEF Begin
<1>2. call'.before = [reserved |-> reserved, noticed |-> noticed, notices |-> Len(notices)]
  BY DEF Begin
<1>3. UNCHANGED <<highWater, keyForm, closed, rowsFed>>
  BY DEF Begin
<1>4. notices' = notices \o RefitNotices(rows)
  BY DEF Begin
<1>5. SubSeq(notices', 1, Len(notices)) = notices
  BY <1>4, RefitNoticesTyped, ConcatFront DEF Typed, NoticesTyped
<1>6. was'.bank = Standing /\ was'.bank.states = states
  BY <1>1 DEF Standing
<1>7. was'.bank = [states |-> was'.bank.states, resolvers |-> was'.bank.resolvers,
                   reserved |-> call'.before.reserved, highWater |-> highWater',
                   keyForm |-> keyForm', closed |-> closed', rowsFed |-> rowsFed']
  BY <1>2, <1>3, <1>6 DEF Standing
<1>8. was'.noticed = call'.before.noticed /\ was'.notices = notices /\ call'.before.notices = Len(notices)
  BY <1>1, <1>2
<1>9. was'.bank.states = Forget(states, call.fresh)'
  BY <1>6, BeginForgotten
<1> QED BY <1>5, <1>7, <1>8, <1>9 DEF WasKept

LEMMA GoingOnKeeps ==
  ASSUME Typed, UNCHANGED setup, WasKept, GoesOn
  PROVE  WasKept'
<1>1. /\ call.step \in MayRefuse /\ call'.fresh = call.fresh /\ call'.before = call.before
      /\ UNCHANGED <<states, notices, highWater, keyForm, closed, rowsFed, was>>
  BY GoesOnIs DEF history
<1>2. Forget(states, call.fresh)' = Forget(states, call.fresh)
  BY <1>1, SetupStays DEF Forget
<1> QED BY <1>1, <1>2 DEF WasKept

(* Where a call stands, a step of it or of another leaves what was kept.   *)
LEMMA StepKeeps ==
  ASSUME Typed, WasKept, [Next]_vars
  PROVE  WasKept'
<1>1. CASE UNCHANGED vars
  <2>1. UNCHANGED <<setup, states, notices, call, highWater, keyForm, closed, rowsFed, was>>
    BY <1>1 DEF vars, kept, history
  <2>2. Forget(states, call.fresh)' = Forget(states, call.fresh)
    BY <2>1, SetupStays DEF Forget
  <2> QED BY <2>1, <2>2 DEF WasKept
<1>2. CASE Next
  <2>1. Step /\ UNCHANGED setup
    BY <1>2 DEF Next
  <2>2. CASE \E rows \in Chunks, form \in {"integer", "text"} : Begin(rows, form)
    BY <2>1, <2>2, BeginKeeps
  <2>3. CASE GoesOn
    BY <2>1, <2>3, GoingOnKeeps
  <2>4. CASE ~GoesOn /\ ~(\E rows \in Chunks, form \in {"integer", "text"} : Begin(rows, form))
    BY <2>1, <2>4, NoMoreRefusals DEF Step, GoesOn, Refusal, WasKept
  <2> QED BY <2>2, <2>3, <2>4
<1> QED BY <1>1, <1>2

LEMMA WasKeptAlways == Spec => [](Typed /\ WasKept)
<1>1. Init => WasKept
  BY DEF Init, WasKept, Idle, MayRefuse
<1>2. Typed /\ WasKept /\ [Next]_vars => WasKept'
  BY StepKeeps
<1> QED BY <1>1, <1>2, TypesKept, PTL DEF Spec

(* A refused chunk leaves nothing behind: no stream of a group it brought, *)
(* no refit buffers reserved, no notice and no flag that keeps a later one *)
(* from being said, whatever the chunk held and whichever step refused it  *)
(* (the forget and RefitsBefore::restore of each return).                  *)
THEOREM RefusalsRestore == Spec => RefusalRestores
<1> DEFINE Restores == Refusal =>
             /\ [Standing EXCEPT !.resolvers = <<>>]' = [was.bank EXCEPT !.resolvers = <<>>]
             /\ noticed' = was.noticed /\ notices' = was.notices
<1>1. ASSUME Typed, WasKept, Refusal
      PROVE  /\ [Standing EXCEPT !.resolvers = <<>>]' = [was.bank EXCEPT !.resolvers = <<>>]
             /\ noticed' = was.noticed /\ notices' = was.notices
  <2>1. call.step \in MayRefuse
    BY <1>1, RefusalIs DEF MayRefuse
  <2>2. PICK cores \in [Formulas -> Core] : Refuse(cores)
    BY <1>1, RefusalIs
  <2>3. /\ states' = Forget(states, call.fresh) /\ reserved' = call.before.reserved
        /\ noticed' = call.before.noticed /\ notices' = SubSeq(notices, 1, call.before.notices)
        /\ highWater' = highWater /\ keyForm' = keyForm /\ closed' = closed /\ rowsFed' = rowsFed
    BY <2>2 DEF Refuse, RefitsRestored
  <2>4. was.bank = [states |-> states', resolvers |-> was.bank.resolvers, reserved |-> reserved',
                    highWater |-> highWater', keyForm |-> keyForm', closed |-> closed',
                    rowsFed |-> rowsFed']
    BY <1>1, <2>1, <2>3 DEF WasKept
  <2>5. [was.bank EXCEPT !.resolvers = <<>>] =
          [states |-> states', resolvers |-> <<>>, reserved |-> reserved', highWater |-> highWater',
           keyForm |-> keyForm', closed |-> closed', rowsFed |-> rowsFed']
    BY <2>4
  <2>6. [Standing EXCEPT !.resolvers = <<>>]' =
          [states |-> states', resolvers |-> <<>>, reserved |-> reserved', highWater |-> highWater',
           keyForm |-> keyForm', closed |-> closed', rowsFed |-> rowsFed']
    BY DEF Standing
  <2> QED BY <1>1, <2>1, <2>3, <2>5, <2>6 DEF WasKept
<1>2. Typed /\ WasKept => Restores
  BY <1>1
<1>3. Typed /\ WasKept /\ [Next]_vars => [Restores]_vars
  BY <1>2
<1> HIDE DEF Restores
<1>4. Spec => [][Restores]_vars
  BY <1>3, WasKeptAlways, PTL DEF Spec
<1> QED BY <1>4 DEF RefusalRestores, Restores
-----------------------------------------------------------------------------
(* Refit buffers are within the budget, and reaching it is said once       *)

(* The groups of a spec that hold refit buffers, and whether they are no   *)
(* more than were reserved.                                                *)
Holding(ss, i) == {k \in DOMAIN ss[i] : ~ss[i][k].givenUp}
Fit(ss, made) == \A i \in SpecIds : Specs[i].refit => Cardinality(Holding(ss, i)) <= made[i]

FitNow == Fit(states, reserved)
FitBefore == call.step \in Steps => Fit(Forget(states, call.fresh), call.before.reserved)
FitFile == Fit(file.bank.states, file.bank.reserved)

(* How often reaching spec i's budget was said or is about to be.          *)
Times(said, left, i) == said[i] + RefitsIn(left, i)
SaidNow == \A i \in SpecIds : Times(refitsSaid, notices, i) = IF noticed[i] THEN 1 ELSE 0
SaidBefore ==
  call.step \in Steps =>
    \A i \in SpecIds : Times(refitsSaid, SubSeq(notices, 1, call.before.notices), i) =
      IF call.before.noticed[i] THEN 1 ELSE 0

Budgeted == FitNow /\ FitBefore /\ FitFile /\ SaidNow /\ SaidBefore

(* Streams of no more groups, their refits given up as they were, hold no  *)
(* more buffers.                                                           *)
Fewer(tt, ss) ==
  \A i \in SpecIds : /\ DOMAIN tt[i] \subseteq DOMAIN ss[i]
                     /\ \A k \in DOMAIN tt[i] : tt[i][k].givenUp = ss[i][k].givenUp

LEMMA HoldingFinite ==
  ASSUME NEW ss \in [SpecIds -> Streams], NEW i \in SpecIds
  PROVE  IsFiniteSet(Holding(ss, i)) /\ Cardinality(Holding(ss, i)) \in Nat
<1>1. IsFiniteSet(DOMAIN ss[i])
  BY StreamsAre
<1>2. Holding(ss, i) \subseteq DOMAIN ss[i]
  BY DEF Holding
<1> QED BY <1>1, <1>2, FS_Subset, FS_CardinalityType

LEMMA FewerFit ==
  ASSUME NEW ss \in [SpecIds -> Streams], NEW tt, Fewer(tt, ss),
         NEW made \in Reservations, Fit(ss, made), RefitRoom \in Nat
  PROVE  Fit(tt, made)
<1>1. ASSUME NEW i \in SpecIds, Specs[i].refit
      PROVE  Cardinality(Holding(tt, i)) <= made[i]
  <2>1. Holding(tt, i) \subseteq Holding(ss, i)
    BY DEF Holding, Fewer
  <2>2. IsFiniteSet(Holding(ss, i)) /\ Cardinality(Holding(ss, i)) \in Nat
    BY HoldingFinite
  <2>3. IsFiniteSet(Holding(tt, i)) /\ Cardinality(Holding(tt, i)) \in Nat
        /\ Cardinality(Holding(tt, i)) <= Cardinality(Holding(ss, i))
    BY <2>1, <2>2, FS_Subset, FS_CardinalityType
  <2>4. Cardinality(Holding(ss, i)) <= made[i] /\ made[i] \in Nat
    BY <1>1 DEF Fit, Reservations
  <2> QED BY <2>2, <2>3, <2>4
<1> QED BY <1>1 DEF Fit

LEMMA FitStays ==
  ASSUME UNCHANGED setup, NEW ss, NEW made
  PROVE  Fit(ss, made)' <=> Fit(ss', made')
BY SetupStays DEF Fit, Holding

(* The steps that neither reserve buffers nor put any back.                *)
Steady ==
  \/ GoesOn \/ PrepassPasses \/ Learn \/ LearnPastBudget \/ SecondPhase \/ AssemblyFails
  \/ Return \/ TakeNotices \/ ClosedGroups \/ DropGroups \/ Save \/ UNCHANGED vars

LEMMA SteadyFewer ==
  ASSUME Typed, UNCHANGED setup, Steady
  PROVE  reserved' = reserved /\ noticed' = noticed /\ Fewer(states', states)
<1>1. states' = states => Fewer(states', states)
  BY DEF Fewer
<1>2. CASE GoesOn
  BY <1>1, <1>2, GoesOnIs
<1>3. CASE PrepassPasses \/ SecondPhase \/ AssemblyFails \/ TakeNotices \/ ClosedGroups \/ Save
  BY <1>1, <1>3 DEF PrepassPasses, SecondPhase, AssemblyFails, TakeNotices, ClosedGroups, Save, kept
<1>4. CASE Learn \/ LearnPastBudget
  <2>1. PICK i \in SpecIds, k \in GroupsIn(call.rows), own \in Seq(1..Len(call.rows)),
             over \in BOOLEAN : StreamTakes(i, k, own, over)
    BY <1>4, LearningIs
  <2>2. call.step = "learn" /\ Fits(call.rows, rowsFed)
    BY <1>4, LearningIs, UnderWay DEF Typed, Steps
  <2>3. Learned(i, k, call.rows, states[i][k], own, rowsFed).givenUp = states[i][k].givenUp
    BY <2>1, <2>2, TakesIs, LearnedTyped DEF Typed
  <2>4. Fewer(states', states)
    BY <2>1, <2>2, <2>3, TakesIs DEF Fewer
  <2> QED BY <2>1, <2>4 DEF StreamTakes
<1>5. CASE Return
  <2>1. ASSUME NEW i \in SpecIds
        PROVE  /\ DOMAIN states'[i] \subseteq DOMAIN states[i]
               /\ \A k \in DOMAIN states'[i] : states'[i][k].givenUp = states[i][k].givenUp
    <3>1. states[i] \in Streams /\ DOMAIN states[i] \ Finished(i) \subseteq DOMAIN states[i]
      BY DEF Typed, StatesTyped
    <3>2. states'[i] = Silent([k \in DOMAIN states[i] \ Finished(i) |-> states[i][k]], Speaking(i))
      BY <1>5 DEF Return
    <3> QED BY <3>1, <3>2, SilentTyped
  <2> QED BY <1>5, <2>1 DEF Fewer, Return
<1>6. CASE DropGroups
  <2>1. PICK S \in SpecChoices, keys \in SUBSET Keys : DropLeaves(S, keys)
    BY <1>6, DropIs
  <2> QED BY <1>6, <2>1 DEF Fewer, DropGroups, DropLeaves
<1>7. CASE UNCHANGED vars
  BY <1>1, <1>7 DEF vars, kept
<1> QED BY <1>2, <1>3, <1>4, <1>5, <1>6, <1>7 DEF Steady

LEMMA SteadySays ==
  ASSUME Typed, UNCHANGED setup, Steady
  PROVE  \A i \in SpecIds : Times(refitsSaid', notices', i) = Times(refitsSaid, notices, i)
<1>1. CASE GoesOn
  BY <1>1, GoesOnIs DEF history, Times
<1>2. CASE PrepassPasses \/ SecondPhase \/ AssemblyFails \/ ClosedGroups \/ Save
  BY <1>2 DEF PrepassPasses, SecondPhase, AssemblyFails, ClosedGroups, Save, history, Times
<1>3. CASE Learn \/ LearnPastBudget
  <2>1. PICK i \in SpecIds, k \in GroupsIn(call.rows), own \in Seq(1..Len(call.rows)),
             over \in BOOLEAN : StreamTakes(i, k, own, over)
    BY <1>3, LearningIs
  <2> QED BY <2>1 DEF StreamTakes, Times
<1>4. CASE Return
  <2> DEFINE said == [i \in SpecIds |-> Said(i, Speaking(i))]
  <2>1. \A i \in SpecIds : GroupsIn(call.rows) \subseteq DOMAIN states[i]
    BY <1>4, UnderWay DEF Return, Steps, Typed
  <2>2. ASSUME NEW i \in SpecIds PROVE Said(i, Speaking(i)) \in Seq(Notice)
    <3>1. Speaking(i) \subseteq DOMAIN states[i]
      BY <2>1 DEF Speaking
    <3> QED BY <3>1, SaidTyped DEF Typed
  <2>3. said \in [SpecIds -> Seq(Notice)]
    BY <2>2
  <2>4. notices' = notices \o FlattenSeq(said) /\ refitsSaid' = refitsSaid
    BY <1>4 DEF Return
  <2> HIDE DEF said
  <2>5. \A i : RefitsIn(notices', i) = RefitsIn(notices, i)
    BY <2>3, <2>4, AllSaid DEF Typed
  <2> QED BY <2>4, <2>5 DEF Times
<1>5. CASE TakeNotices
  <2>1. ASSUME NEW i \in SpecIds
        PROVE  Times(refitsSaid', notices', i) = Times(refitsSaid, notices, i)
    <3>1. refitsSaid'[i] = refitsSaid[i] + RefitsIn(notices, i) /\ notices' = <<>>
      BY <1>5 DEF TakeNotices
    <3>2. RefitsIn(<<>>, i) = 0
      BY NoRefitsIn
    <3>3. refitsSaid[i] \in Nat /\ RefitsIn(notices, i) \in Nat
      BY RefitsInFinite DEF Typed, RefitsTyped, NoticesTyped
    <3> QED BY <3>1, <3>2, <3>3 DEF Times
  <2> QED BY <2>1
<1>6. CASE DropGroups
  <2>1. PICK S \in SpecChoices, keys \in SUBSET Keys : DropLeaves(S, keys)
    BY <1>6, DropIs
  <2>2. \A i : RefitsIn(notices', i) = RefitsIn(notices, i)
    BY <2>1, DropNotices
  <2> QED BY <1>6, <2>2 DEF DropGroups, history, Times
<1>7. CASE UNCHANGED vars
  BY <1>7 DEF vars, history, Times
<1> QED BY <1>1, <1>2, <1>3, <1>4, <1>5, <1>6, <1>7 DEF Steady

(* What a call keeps from its beginning while it goes on.                  *)
LEMMA SteadyCall ==
  ASSUME Typed, UNCHANGED setup, Steady, call'.step \in Steps
  PROVE  /\ call.step \in Steps /\ call'.fresh = call.fresh /\ call'.before = call.before
         /\ notices' = notices /\ refitsSaid' = refitsSaid
         /\ \A i \in SpecIds : DOMAIN states'[i] = DOMAIN states[i]
<1>1. Idle.step \notin Steps
  BY DEF Idle, Steps
<1>2. CASE GoesOn
  BY <1>2, GoesOnIs DEF Steps, MayRefuse, history
<1>3. CASE PrepassPasses
  <2>1. call \in CallType /\ call.step \in Steps
    BY <1>3, UnderWay DEF Typed, PrepassPasses, Steps
  <2>2. call' = [call EXCEPT !.step = "learn", !.phase = 1, !.todo = Tasks(1), !.left = noticesLeft]
    BY <1>3 DEF PrepassPasses
  <2>3. call'.fresh = call.fresh /\ call'.before = call.before
    BY <2>1, <2>2 DEF CallType
  <2> QED BY <1>3, <2>1, <2>3 DEF PrepassPasses, kept, history
<1>4. CASE SecondPhase
  <2>1. call \in CallType /\ call.step \in Steps
    BY <1>4, UnderWay DEF Typed, SecondPhase, Steps
  <2>2. call' = [call EXCEPT !.phase = 2, !.todo = Tasks(2)]
    BY <1>4 DEF SecondPhase
  <2>3. call'.fresh = call.fresh /\ call'.before = call.before
    BY <2>1, <2>2 DEF CallType
  <2> QED BY <1>4, <2>1, <2>3 DEF SecondPhase, kept, history
<1>5. CASE Learn \/ LearnPastBudget
  <2>1. PICK i \in SpecIds, k \in GroupsIn(call.rows), own \in Seq(1..Len(call.rows)),
             over \in BOOLEAN : StreamTakes(i, k, own, over)
    BY <1>5, LearningIs
  <2>2. call \in CallType /\ call.step = "learn" /\ call.step \in Steps
    BY <1>5, LearningIs, UnderWay DEF Typed, Steps
  <2>3. \E todo, closedRows, isOver :
          call' = [call EXCEPT !.todo = todo, !.over = isOver, !.closed = closedRows]
    BY <2>1 DEF StreamTakes
  <2>4. call'.fresh = call.fresh /\ call'.before = call.before
    BY <2>2, <2>3 DEF CallType
  <2> QED BY <2>1, <2>2, <2>4, TakesIs DEF StreamTakes
<1>6. CASE AssemblyFails \/ Return
  BY <1>1, <1>6 DEF AssemblyFails, Return
<1>7. CASE TakeNotices \/ ClosedGroups \/ DropGroups \/ Save
  BY <1>1, <1>7 DEF TakeNotices, ClosedGroups, DropGroups, Save
<1>8. CASE UNCHANGED vars
  BY <1>8 DEF vars, kept, history
<1> QED BY <1>2, <1>3, <1>4, <1>5, <1>6, <1>7, <1>8 DEF Steady

LEMMA SteadyBudgeted ==
  ASSUME Typed, UNCHANGED setup, Budgeted, Steady
  PROVE  Budgeted'
<1>0. RefitRoom \in Nat /\ states \in [SpecIds -> Streams] /\ reserved \in Reservations
      /\ SpecIds' = SpecIds /\ setup \in Setups
  BY SetupTyped, SetupStays DEF Typed, StatesTyped, RefitsTyped
<1>1. Fewer(states', states) /\ reserved' = reserved /\ noticed' = noticed
  BY SteadyFewer
<1>2. FitNow'
  <2>1. Fit(states', reserved)
    BY <1>0, <1>1, FewerFit DEF Budgeted, FitNow
  <2>2. Fit(states', reserved')
    BY <2>1, <1>1
  <2> QED BY <2>2, FitStays DEF FitNow
<1>3. FitBefore'
  <2> SUFFICES ASSUME call'.step \in Steps PROVE Fit(Forget(states, call.fresh), call.before.reserved)'
    BY SetupStays DEF FitBefore, Steps
  <2>1. /\ call.step \in Steps /\ call'.fresh = call.fresh /\ call'.before = call.before
        /\ \A i \in SpecIds : DOMAIN states'[i] = DOMAIN states[i]
    BY SteadyCall
  <2> DEFINE ss == Forget(states, call.fresh)
             tt == Forget(states', call.fresh)
  <2>2. ss \in [SpecIds -> Streams]
    BY ForgetTyped DEF Typed
  <2>3. Fewer(tt, ss)
    BY <1>1, <2>1 DEF Fewer, Forget
  <2>4. call.before.reserved \in Reservations
    BY <2>1, UnderWay DEF Typed
  <2>5. Fit(tt, call.before.reserved)
    <3> HIDE DEF ss, tt
    <3> QED BY <1>0, <2>1, <2>2, <2>3, <2>4, FewerFit DEF Budgeted, FitBefore, ss
  <2>6. Forget(states, call.fresh)' = tt
    BY <2>1, <1>0 DEF Forget
  <2> HIDE DEF tt
  <2>7. Fit(Forget(states, call.fresh)', call'.before.reserved)
    BY <2>1, <2>5, <2>6
  <2> QED BY <2>7, FitStays
<1>4. FitFile'
  <2>1. CASE Save
    <3>1. file'.bank.states = states /\ file'.bank.reserved = reserved
      BY <2>1, SaveIs
    <3> QED BY <3>1, FitStays DEF FitFile, Budgeted, FitNow
  <2>2. CASE ~Save
    <3>1. file' = file
      <4>1. CASE GoesOn
        BY <4>1, GoesOnIs
      <4>2. CASE Learn \/ LearnPastBudget
        BY <4>2, LearningIs DEF StreamTakes
      <4>3. CASE DropGroups
        BY <4>3 DEF DropGroups
      <4>4. CASE UNCHANGED vars
        BY <4>4 DEF vars
      <4>5. CASE PrepassPasses \/ SecondPhase \/ AssemblyFails \/ Return \/ TakeNotices \/ ClosedGroups
        BY <4>5 DEF PrepassPasses, SecondPhase, AssemblyFails, Return, TakeNotices, ClosedGroups
      <4> QED BY <2>2, <4>1, <4>2, <4>3, <4>4, <4>5 DEF Steady
    <3> QED BY <3>1, FitStays DEF FitFile, Budgeted
  <2> QED BY <2>1, <2>2
<1>5. SaidNow'
  BY <1>0, <1>1, SteadySays DEF SaidNow, Budgeted, Times, RefitsIn
<1>6. SaidBefore'
  <2> SUFFICES ASSUME call'.step \in Steps
               PROVE  \A i \in SpecIds : Times(refitsSaid, SubSeq(notices, 1, call.before.notices), i)' =
                        IF call'.before.noticed[i] THEN 1 ELSE 0
    BY <1>0 DEF SaidBefore, Steps
  <2>1. /\ call.step \in Steps /\ call'.before = call.before
        /\ notices' = notices /\ refitsSaid' = refitsSaid
    BY SteadyCall
  <2> QED BY <2>1 DEF SaidBefore, Budgeted, Times, RefitsIn
<1> QED BY <1>2, <1>3, <1>4, <1>5, <1>6 DEF Budgeted
(* A call begins: each new group either has its buffers reserved or gives  *)
(* them up, and what the notices say of it is what the bank notes.         *)
LEMMA BeginBudgeted ==
  ASSUME Typed, UNCHANGED setup, Budgeted, NEW rows \in Chunks, NEW form \in {"integer", "text"},
         Begin(rows, form)
  PROVE  Budgeted'
<1>0. RefitRoom \in Nat /\ states \in [SpecIds -> Streams] /\ reserved \in Reservations
      /\ SpecIds' = SpecIds /\ setup \in Setups /\ notices \in Seq(BankNotice)
  BY SetupTyped, SetupStays DEF Typed, StatesTyped, RefitsTyped, NoticesTyped
<1>1. /\ states' = [i \in SpecIds |-> [k \in DOMAIN states[i] \cup GroupsIn(rows) |->
           IF k \in DOMAIN states[i] THEN states[i][k]
           ELSE NewStream(Specs[i].refit /\ ~Reserves(i, rows, k))]]
      /\ reserved' = [i \in SpecIds |->
           reserved[i] + Cardinality({k \in Fresh(i, rows) : Reserves(i, rows, k)})]
  BY DEF Begin
<1>2. /\ notices' = notices \o RefitNotices(rows) /\ refitsSaid' = refitsSaid /\ file' = file
      /\ noticed' = [i \in SpecIds |-> noticed[i] \/ FirstGivenUp(i, rows) # {}]
  BY DEF Begin
<1>3. call'.before = [reserved |-> reserved, noticed |-> noticed, notices |-> Len(notices)]
  BY DEF Begin
<1>4. FitNow'
  <2>1. ASSUME NEW i \in SpecIds, Specs[i].refit
        PROVE  Cardinality(Holding(states', i)) <= reserved'[i]
    <3> DEFINE taken == {k \in Fresh(i, rows) : Reserves(i, rows, k)}
    <3>1. Holding(states', i) \subseteq Holding(states, i) \cup taken
      <4>1. ASSUME NEW k \in Holding(states', i), k \notin DOMAIN states[i]
            PROVE  k \in taken
        <5>1. k \in GroupsIn(rows) /\ states'[i][k] = NewStream(Specs[i].refit /\ ~Reserves(i, rows, k))
              /\ ~states'[i][k].givenUp
          BY <1>1, <4>1 DEF Holding
        <5>2. Reserves(i, rows, k)
          <6> SUFFICES ASSUME ~Reserves(i, rows, k) PROVE FALSE
            OBVIOUS
          <6>1. (Specs[i].refit /\ ~Reserves(i, rows, k)) = TRUE
            BY <2>1
          <6> QED BY <5>1, <6>1, NewStreamTyped
        <5> QED BY <4>1, <5>1, <5>2 DEF Fresh
      <4>2. ASSUME NEW k \in Holding(states', i), k \in DOMAIN states[i]
            PROVE  k \in Holding(states, i)
        BY <1>1, <4>2 DEF Holding
      <4> HIDE DEF taken
      <4> QED BY <4>1, <4>2
    <3>2. IsFiniteSet(Holding(states, i)) /\ Cardinality(Holding(states, i)) \in Nat
      BY <1>0, HoldingFinite
    <3>3. reserved[i] \in 0..RefitRoom
      BY <1>0 DEF Reservations
    <3>4. IsFiniteSet(taken) /\ Cardinality(taken) \in Nat
      BY <1>0, <3>3, ReservesFit
    <3>5. reserved'[i] = reserved[i] + Cardinality(taken)
      BY <1>1
    <3>6. Cardinality(Holding(states, i)) <= reserved[i]
      BY <2>1 DEF Budgeted, FitNow, Fit
    <3> HIDE DEF taken
    <3>7. /\ IsFiniteSet(Holding(states, i) \cup taken)
          /\ Cardinality(Holding(states, i) \cup taken) \in Nat
          /\ Cardinality(Holding(states, i) \cup taken)
               <= Cardinality(Holding(states, i)) + Cardinality(taken)
      <4>1. /\ IsFiniteSet(Holding(states, i) \cup taken)
            /\ Cardinality(Holding(states, i) \cup taken) =
                 Cardinality(Holding(states, i)) + Cardinality(taken)
                   - Cardinality(Holding(states, i) \cap taken)
        BY <3>2, <3>4, FS_Union
      <4>2. Cardinality(Holding(states, i) \cap taken) \in Nat
            /\ Cardinality(Holding(states, i) \cup taken) \in Nat
        BY <3>2, <4>1, FS_Intersection, FS_CardinalityType
      <4> QED BY <3>2, <3>4, <4>1, <4>2
    <3>8. Cardinality(Holding(states', i)) \in Nat
          /\ Cardinality(Holding(states', i)) <= Cardinality(Holding(states, i) \cup taken)
      BY <3>1, <3>7, FS_Subset, FS_CardinalityType
    <3>9. reserved[i] \in Nat
      BY <1>0, <3>3
    <3> QED BY <3>2, <3>4, <3>5, <3>6, <3>7, <3>8, <3>9
  <2>2. Fit(states', reserved')
    BY <2>1 DEF Fit
  <2> QED BY <2>2, FitStays DEF FitNow
<1>5. FitBefore'
  <2>1. Forget(states, call.fresh)' = states
    BY BeginForgotten
  <2>2. call'.before.reserved = reserved
    BY <1>3
  <2>3. Fit(Forget(states, call.fresh)', call'.before.reserved)
    BY <2>1, <2>2 DEF Budgeted, FitNow
  <2> QED BY <2>3, FitStays DEF FitBefore
<1>6. FitFile'
  BY <1>2, FitStays DEF FitFile, Budgeted
<1>7. SaidNow'
  <2>1. ASSUME NEW i \in SpecIds
        PROVE  Times(refitsSaid', notices', i) = IF noticed'[i] THEN 1 ELSE 0
    <3>1. RefitsIn(notices', i) = RefitsIn(notices, i) + RefitsIn(RefitNotices(rows), i)
      BY <1>0, <1>2, RefitsInConcat, RefitNoticesTyped
    <3>2. RefitsIn(RefitNotices(rows), i) = IF noticed[i] \/ FirstGivenUp(i, rows) = {} THEN 0 ELSE 1
      BY <1>0, RefitNoticesTyped
    <3>3. RefitsIn(notices, i) \in Nat /\ refitsSaid[i] \in Nat
      BY <1>0, RefitsInFinite DEF Typed, RefitsTyped
    <3>4. refitsSaid[i] + RefitsIn(notices, i) = IF noticed[i] THEN 1 ELSE 0
      BY DEF Budgeted, SaidNow, Times
    <3>5. noticed'[i] <=> noticed[i] \/ FirstGivenUp(i, rows) # {}
      BY <1>2
    <3>6. CASE noticed[i]
      BY <1>2, <3>1, <3>2, <3>3, <3>4, <3>5, <3>6 DEF Times
    <3>7. CASE ~noticed[i] /\ FirstGivenUp(i, rows) = {}
      <4>1. RefitsIn(RefitNotices(rows), i) = 0
        BY <3>2, <3>7
      <4>2. refitsSaid[i] + RefitsIn(notices, i) = 0
        BY <3>4, <3>7
      <4>3. refitsSaid'[i] + RefitsIn(notices', i) = 0
        BY <1>2, <3>1, <3>3, <4>1, <4>2
      <4>4. (IF noticed'[i] THEN 1 ELSE 0) = 0
        BY <3>5, <3>7
      <4> QED BY <4>3, <4>4 DEF Times
    <3>8. CASE ~noticed[i] /\ FirstGivenUp(i, rows) # {}
      <4>1. RefitsIn(RefitNotices(rows), i) = 1
        BY <3>2, <3>8
      <4>2. refitsSaid[i] + RefitsIn(notices, i) = 0
        BY <3>4, <3>8
      <4>3. refitsSaid'[i] + RefitsIn(notices', i) = 1
        BY <1>2, <3>1, <3>3, <4>1, <4>2
      <4>4. (IF noticed'[i] THEN 1 ELSE 0) = 1
        BY <3>5, <3>8
      <4> QED BY <4>3, <4>4 DEF Times
    <3> QED BY <3>6, <3>7, <3>8
  <2> QED BY <1>0, <2>1 DEF SaidNow, Times, RefitsIn
<1>8. SaidBefore'
  <2>1. SubSeq(notices', 1, call'.before.notices) = notices
    BY <1>0, <1>2, <1>3, RefitNoticesTyped, ConcatFront
  <2>2. call'.before.noticed = noticed
    BY <1>3
  <2> QED BY <1>0, <1>2, <2>1, <2>2 DEF SaidBefore, Budgeted, SaidNow, Times, RefitsIn
<1> QED BY <1>4, <1>5, <1>6, <1>7, <1>8 DEF Budgeted

(* A call that is refused puts the budget back, or the file is loaded.     *)
LEMMA PutBackBudgeted ==
  ASSUME Typed, UNCHANGED setup, Budgeted, call.step \in Steps, call' = Idle, file' = file,
         refitsSaid' = refitsSaid, states' = Forget(states, call.fresh), RefitsRestored
  PROVE  Budgeted'
<1>1. SpecIds' = SpecIds /\ call'.step \notin Steps'
  BY SetupStays DEF Idle, Steps
<1>2. /\ reserved' = call.before.reserved /\ noticed' = call.before.noticed
      /\ notices' = SubSeq(notices, 1, call.before.notices)
  BY DEF RefitsRestored
<1>3. FitNow'
  BY <1>2, FitStays DEF FitNow, FitBefore, Budgeted
<1>4. FitFile'
  BY FitStays DEF FitFile, Budgeted
<1>5. SaidNow'
  <2>1. \A i \in SpecIds : Times(refitsSaid', notices', i) = IF noticed'[i] THEN 1 ELSE 0
    BY <1>2 DEF SaidBefore, Budgeted
  <2> QED BY <1>1, <2>1 DEF SaidNow, Times, RefitsIn
<1> QED BY <1>1, <1>3, <1>4, <1>5 DEF Budgeted, FitBefore, SaidBefore

LEMMA RestartBudgeted ==
  ASSUME Typed, UNCHANGED setup, Budgeted, Restart
  PROVE  Budgeted'
<1>1. SpecIds' = SpecIds /\ call'.step \notin Steps'
  BY SetupStays DEF Idle, Steps, Restart
<1>2. FitNow'
  BY FitStays DEF FitNow, FitFile, Budgeted, Restart
<1>3. FitFile'
  BY FitStays DEF FitFile, Budgeted, Restart
<1>4. SaidNow'
  <2>1. ASSUME NEW i \in SpecIds
        PROVE  Times(refitsSaid', notices', i) = IF noticed'[i] THEN 1 ELSE 0
    <3>1. refitsSaid'[i] = 0 /\ notices' = <<>> /\ noticed'[i] = FALSE
      BY DEF Restart
    <3>2. RefitsIn(<<>>, i) = 0
      BY NoRefitsIn
    <3> QED BY <3>1, <3>2 DEF Times
  <2> QED BY <1>1, <2>1 DEF SaidNow, Times, RefitsIn
<1> QED BY <1>1, <1>2, <1>3, <1>4 DEF Budgeted, FitBefore, SaidBefore

LEMMA InitBudgeted ==
  ASSUME Init, Typed
  PROVE  Budgeted
<1>1. call.step \notin Steps
  BY DEF Init, Idle, Steps
<1>2. ASSUME NEW i \in SpecIds PROVE Holding(states, i) = {} /\ Cardinality(Holding(states, i)) = 0
  <2>1. Holding(states, i) = {}
    BY DEF Init, Holding
  <2> QED BY <2>1, FS_EmptySet
<1>3. FitNow
  BY <1>2 DEF FitNow, Fit, Init
<1>4. FitFile
  <2>1. file.bank.states = states /\ file.bank.reserved = reserved
    BY DEF Init, Standing
  <2> QED BY <1>3, <2>1 DEF FitFile, FitNow
<1>5. SaidNow
  <2>1. ASSUME NEW i \in SpecIds PROVE Times(refitsSaid, notices, i) = 0 /\ ~noticed[i]
    <3>1. refitsSaid[i] = 0 /\ notices = <<>> /\ ~noticed[i]
      BY DEF Init
    <3> QED BY <3>1, NoRefitsIn DEF Times
  <2> QED BY <2>1 DEF SaidNow
<1> QED BY <1>1, <1>3, <1>4, <1>5 DEF Budgeted, FitBefore, SaidBefore

LEMMA StepBudgeted ==
  ASSUME Typed, Budgeted, [Next]_vars
  PROVE  Budgeted'
<1>1. CASE UNCHANGED vars
  BY <1>1, SteadyBudgeted DEF Steady, vars
<1>2. CASE Next
  <2>1. Step /\ UNCHANGED setup
    BY <1>2 DEF Next
  <2>2. CASE \E rows \in Chunks, form \in {"integer", "text"} : Begin(rows, form)
    BY <2>1, <2>2, BeginBudgeted
  <2>3. CASE Refusal
    <3>1. PICK cores \in [Formulas -> Core] : Refuse(cores)
      BY <2>3, RefusalIs
    <3>2. call.step \in Steps
      BY <2>3, RefusalIs DEF Steps
    <3> QED BY <2>1, <3>1, <3>2, PutBackBudgeted DEF Refuse
  <2>4. CASE PhaseRefuses
    BY <2>1, <2>4, PutBackBudgeted DEF PhaseRefuses, history, Steps
  <2>5. CASE Restart
    BY <2>1, <2>5, RestartBudgeted
  <2>6. CASE Steady
    BY <2>1, <2>6, SteadyBudgeted
  <2> QED BY <2>1, <2>2, <2>3, <2>4, <2>5, <2>6 DEF Step, Refusal, Steady, GoesOn
<1> QED BY <1>1, <1>2

(* The groups that hold refit buffers fit in what was reserved of the      *)
(* refit_budget, over refusals, closed spans, drops, failed phases, saves  *)
(* and loads; and reaching the budget is said once a bank, and only where  *)
(* it happened (Stream::refit_give_up, reserve_refits, RefitsBefore).      *)
THEOREM RefitsAlwaysAccounted == Spec => []RefitsAccounted
<1>1. Init /\ Typed => Budgeted
  BY InitBudgeted
<1>2. Typed /\ Budgeted /\ [Next]_vars => Budgeted'
  BY StepBudgeted
<1>3. Budgeted => RefitsAccounted
  BY DEF Budgeted, FitNow, Fit, Holding, SaidNow, Times, RefitsAccounted, RefitsFit, RefitSaidOnce
<1> QED BY <1>1, <1>2, <1>3, TypesKept, PTL DEF Spec
-----------------------------------------------------------------------------
(* The window cores and the streams stay in step                           *)

(* The rows a group's stream holds, and those its core was fed.            *)
StreamRows(ss, i, k) == IF k \in DOMAIN ss[i] THEN ss[i][k].rows ELSE <<>>
FedRows(core, k) ==
  IF k \in DOMAIN core.runs THEN core.runs[k]
  ELSE IF k \in DOMAIN core.saved THEN core.saved[k] ELSE <<>>

Matched(cores, ss) == \A i \in Formulas, k \in Keys : FedRows(cores[i], k) = StreamRows(ss, i, k)

(* The cores are ahead of the streams of the groups in some set by the     *)
(* rows the chunk has for them.                                            *)
Ahead(cores, ss, tasks) ==
  \A i \in Formulas, k \in Keys :
    FedRows(cores[i], k) = IF <<i, k>> \in tasks
                           THEN StreamRows(ss, i, k) \o Feed(call.rows, rowsFed, k)
                           ELSE StreamRows(ss, i, k)

(* Between calls, and until a call feeds them, the cores hold their        *)
(* streams' rows; a call that feeds them has a copy that does where it may *)
(* still be refused, and is ahead by its rows until the streams learn.     *)
MatchedNow ==
  (call = Idle /\ ~broken) \/ call.step \in {"check", "prepare", "resolve"} => Matched(resolvers, states)
MatchedCopy ==
  call.step \in {"resolve", "prepass"} /\ NeedsSnapshot => Matched(call.snapshot, states)
BuiltFirst ==
  call.step = "resolve" => \A i \in Formulas : GroupsIn(call.rows) \subseteq DOMAIN resolvers[i].runs
AheadOnceFed ==
  call.step = "prepass" => Ahead(resolvers, states, Formulas \X GroupsIn(call.rows))
AheadWhileLearning ==
  call.step = "learn" /\ ~call.over => Ahead(resolvers, states, call.todo)
MatchedFile == Matched(file.bank.resolvers, file.bank.states)
NewAreEmpty ==
  call.step \in MayRefuse =>
    \A i \in SpecIds : \A k \in DOMAIN states[i] : <<i, k>> \in call.fresh => states[i][k].rows = <<>>

InStep ==
  /\ MatchedNow /\ MatchedCopy /\ BuiltFirst /\ AheadOnceFed /\ AheadWhileLearning /\ MatchedFile
  /\ NewAreEmpty

(* A spec with a formula closes no group and is no comparison.             *)
LEMMA FormulasAre ==
  ASSUME setup \in Setups, NEW i \in Formulas
  PROVE  i \in SpecIds /\ Specs[i].close = "never" /\ Specs[i].compares = FALSE
<1>1. i \in SpecIds /\ Specs[i].target # "column" /\ Specs[i] \in SpecKinds
  BY SetupTyped DEF Formulas
<1>2. /\ Specs[i].close # "never" => Specs[i].target = "column"
      /\ Specs[i].compares => Specs[i].target = "column"
  BY <1>1, SpecsAssumption DEF Specs, SpecIds
<1>3. Specs[i].compares \in BOOLEAN
  BY <1>1 DEF SpecKinds
<1> QED BY <1>1, <1>2, <1>3

LEMMA CoreRowsAre ==
  \A i, k : CoreRows(i, k) = FedRows(resolvers[i], k)
BY DEF CoreRows, FedRows

LEMMA PreparedRows ==
  ASSUME NEW core, NEW ks, NEW k
  PROVE  FedRows(Prepared(core, ks), k) = FedRows(core, k)
<1> DEFINE runs == [h \in DOMAIN core.runs \cup ks |->
               IF h \in DOMAIN core.runs THEN core.runs[h]
               ELSE IF h \in DOMAIN core.saved THEN core.saved[h] ELSE <<>>]
           saved == [h \in DOMAIN core.saved \ (ks \ DOMAIN core.runs) |-> core.saved[h]]
<1>1. Prepared(core, ks).runs = runs /\ Prepared(core, ks).saved = saved
  BY DEF Prepared
<1>2. CASE k \in DOMAIN core.runs \cup ks
  <2>1. k \in DOMAIN runs /\ runs[k] = FedRows(core, k)
    BY <1>2 DEF FedRows
  <2> HIDE DEF runs
  <2> QED BY <1>1, <2>1 DEF FedRows
<1>3. CASE k \notin DOMAIN core.runs \cup ks
  <2>1. k \notin DOMAIN runs /\ (k \in DOMAIN saved <=> k \in DOMAIN core.saved)
        /\ (k \in DOMAIN saved => saved[k] = core.saved[k])
    BY <1>3
  <2> HIDE DEF runs, saved
  <2> QED BY <1>1, <1>3, <2>1 DEF FedRows
<1> QED BY <1>2, <1>3

(* The new groups' streams are empty: without them the cores still match.  *)
LEMMA ForgottenMatch ==
  ASSUME Typed, call.step \in MayRefuse, NewAreEmpty, NEW cores, Matched(cores, states)
  PROVE  Matched(cores, Forget(states, call.fresh))
<1>1. ASSUME NEW i \in Formulas, NEW k \in Keys
      PROVE  StreamRows(Forget(states, call.fresh), i, k) = StreamRows(states, i, k)
  <2>1. i \in SpecIds
    BY DEF Formulas
  <2>2. DOMAIN Forget(states, call.fresh)[i] = {h \in DOMAIN states[i] : <<i, h>> \notin call.fresh}
        /\ \A h \in DOMAIN Forget(states, call.fresh)[i] : Forget(states, call.fresh)[i][h] = states[i][h]
    BY <2>1, ForgetTyped DEF Typed
  <2>3. k \in DOMAIN states[i] /\ <<i, k>> \in call.fresh => states[i][k].rows = <<>>
    BY <2>1 DEF NewAreEmpty
  <2> QED BY <2>2, <2>3 DEF StreamRows
<1> QED BY <1>1 DEF Matched

(* A refused chunk leaves the cores with the rows of their streams, where  *)
(* they can be resumed: what was fed is put back.                          *)
LEMMA RefusalMatches ==
  ASSUME Typed, UNCHANGED setup, ~Unreadable, InStep, Refusal
  PROVE  InStep'
<1>1. PICK cores \in [Formulas -> Core] : Refuse(cores) /\ Matched(cores, states)
  <2>1. CASE CheckRefuses
    <3>1. Refuse(resolvers) /\ Matched(resolvers, states) /\ resolvers \in [Formulas -> Core]
      BY <2>1 DEF CheckRefuses, InStep, MatchedNow, Typed, CoresTyped
    <3> QED BY <3>1
  <2>2. CASE PrepareRefuses
    BY <2>2 DEF PrepareRefuses
  <2>3. CASE ResolveRefuses
    <3>1. PICK i \in Formulas, k \in GroupsIn(call.rows) :
            /\ call.step = "resolve" /\ Specs[i].target = "cast"
            /\ Refuse(IF NeedsSnapshot THEN call.snapshot
                      ELSE [j \in Formulas |->
                              Fed(resolvers[j], Reached(j, i, k) \cup (IF j = i THEN {k} ELSE {}))])
      BY <2>3 DEF ResolveRefuses
    <3>2. NeedsSnapshot
      BY <3>1 DEF NeedsSnapshot
    <3>3. call.snapshot \in [Formulas -> Core]
      BY <3>1, <3>2, UnderWay DEF Typed, Steps, SnapshotTaken
    <3> QED BY <3>1, <3>2, <3>3 DEF InStep, MatchedCopy
  <2>4. CASE PrepassRefuses
    <3>1. call.step = "prepass" /\ NeedsSnapshot
          /\ Refuse(IF NeedsSnapshot THEN call.snapshot ELSE resolvers)
      <4>1. PICK i \in SpecIds : Specs[i].ring = "replayed"
        BY <2>4 DEF PrepassRefuses
      <4>2. NeedsSnapshot
        BY <4>1 DEF NeedsSnapshot
      <4> QED BY <2>4, <4>2 DEF PrepassRefuses
    <3>2. call.snapshot \in [Formulas -> Core]
      BY <3>1, UnderWay DEF Typed, Steps, SnapshotTaken
    <3> QED BY <3>1, <3>2 DEF InStep, MatchedCopy
  <2> QED BY <2>1, <2>2, <2>3, <2>4 DEF Refusal
<1>2. call.step \in MayRefuse
  BY RefusalIs DEF MayRefuse
<1>3. /\ states' = Forget(states, call.fresh) /\ resolvers' = cores /\ call' = Idle /\ file' = file
  BY <1>1 DEF Refuse
<1>4. Matched(resolvers', states')
  BY <1>1, <1>2, <1>3, ForgottenMatch DEF InStep
<1>5. call'.step = "idle"
  BY <1>3 DEF Idle
<1>6. MatchedFile'
  BY <1>3, SetupStays DEF InStep, MatchedFile, Matched, StreamRows, FedRows
<1>7. Matched(resolvers, states)'
  BY <1>4, SetupStays DEF Matched, StreamRows, FedRows
<1> QED BY <1>5, <1>6, <1>7
        DEF InStep, MatchedNow, MatchedCopy, BuiltFirst, AheadOnceFed, AheadWhileLearning, NewAreEmpty,
            MayRefuse

LEMMA MatchedStays ==
  ASSUME UNCHANGED setup, NEW cores, NEW ss
  PROVE  Matched(cores, ss)' <=> Matched(cores', ss')
BY SetupStays DEF Matched, StreamRows, FedRows

LEMMA AheadStays ==
  ASSUME UNCHANGED setup, call'.rows = call.rows, rowsFed' = rowsFed, NEW cores, NEW ss, NEW tasks
  PROVE  Ahead(cores, ss, tasks)' <=>
           \A i \in Formulas, k \in Keys :
             FedRows(cores'[i], k) = IF <<i, k>> \in tasks'
                                     THEN StreamRows(ss', i, k) \o Feed(call.rows, rowsFed, k)
                                     ELSE StreamRows(ss', i, k)
<1>1. Formulas' = Formulas
  BY SetupStays
<1>2. \A i, k : Feed(call.rows, rowsFed, k)' = Feed(call.rows, rowsFed, k)
  BY DEF Feed, RowsOf, Ascending, Sorted
<1> QED BY <1>1, <1>2 DEF Ahead, StreamRows, FedRows
(* Where the call stands decides what of InStep there is to show.          *)
LEMMA AtCheck ==
  ASSUME call'.step \in {"check", "prepare"}, MatchedNow', MatchedFile', NewAreEmpty' PROVE InStep'
BY DEF InStep, MatchedCopy, BuiltFirst, AheadOnceFed, AheadWhileLearning

LEMMA AtLearn ==
  ASSUME call'.step = "learn", AheadWhileLearning', MatchedFile' PROVE InStep'
BY DEF InStep, MatchedCopy, BuiltFirst, AheadOnceFed, AheadWhileLearning, MatchedNow, NewAreEmpty,
       MayRefuse, Idle

LEMMA AtRest ==
  ASSUME call' = Idle, MatchedNow', MatchedFile' PROVE InStep'
<1>1. call'.step = "idle"
  BY DEF Idle
<1> QED BY <1>1 DEF InStep, MatchedCopy, BuiltFirst, AheadOnceFed, AheadWhileLearning, NewAreEmpty,
                    MayRefuse

LEMMA FileMatches ==
  ASSUME UNCHANGED setup, MatchedFile, file' = file PROVE MatchedFile'
BY SetupStays DEF MatchedFile, Matched, StreamRows, FedRows

LEMMA BeginMatches ==
  ASSUME Typed, UNCHANGED setup, InStep, NEW rows \in Chunks, NEW form \in {"integer", "text"},
         Begin(rows, form)
  PROVE  InStep'
<1>1. /\ states' = [i \in SpecIds |-> [k \in DOMAIN states[i] \cup GroupsIn(rows) |->
           IF k \in DOMAIN states[i] THEN states[i][k]
           ELSE NewStream(Specs[i].refit /\ ~Reserves(i, rows, k))]]
      /\ resolvers' = resolvers /\ file' = file /\ call'.step = "check"
      /\ call'.fresh = UNION {{i} \X Fresh(i, rows) : i \in SpecIds}
      /\ call = Idle /\ ~broken
  BY DEF Begin, RefuseIfBroken
<1>2. \A b : NewStream(b).rows = <<>>
  BY DEF NewStream
<1>3. ASSUME NEW i \in SpecIds, NEW k PROVE StreamRows(states', i, k) = StreamRows(states, i, k)
  BY <1>1, <1>2 DEF StreamRows
<1>4. Matched(resolvers', states')
  BY <1>1, <1>3 DEF InStep, MatchedNow, Matched, Formulas
<1>5. MatchedNow'
  BY <1>4, MatchedStays DEF MatchedNow
<1>6. NewAreEmpty'
  <2>1. ASSUME NEW i \in SpecIds, NEW k \in DOMAIN states'[i], <<i, k>> \in call'.fresh
        PROVE  states'[i][k].rows = <<>>
    <3>1. k \in Fresh(i, rows)
      BY <1>1, <2>1
    <3> QED BY <1>1, <1>2, <2>1, <3>1 DEF Fresh
  <2> QED BY <2>1, SetupStays DEF NewAreEmpty
<1>7. MatchedFile'
  BY <1>1, FileMatches DEF InStep
<1> QED BY <1>1, <1>5, <1>6, <1>7, AtCheck

LEMMA GoingOnMatches ==
  ASSUME Typed, UNCHANGED setup, InStep, GoesOn
  PROVE  InStep'
<1>0. /\ call.step \in MayRefuse /\ call'.rows = call.rows /\ call'.fresh = call.fresh
      /\ states' = states /\ rowsFed' = rowsFed /\ file' = file
  BY GoesOnIs
<1>1. call \in CallType /\ Fits(call.rows, rowsFed)
  BY <1>0, UnderWay DEF Typed, Steps, MayRefuse
<1>2. NewAreEmpty'
  BY <1>0, SetupStays DEF InStep, NewAreEmpty
<1>3. MatchedFile'
  BY <1>0, FileMatches DEF InStep
<1>4. CASE CheckPasses
  <2>1. call.step = "check" /\ call'.step = "prepare" /\ resolvers' = resolvers
    BY <1>1, <1>4 DEF CheckPasses, NextStep, CallType
  <2>2. Matched(resolvers', states')
    BY <1>0, <2>1 DEF InStep, MatchedNow
  <2>3. MatchedNow'
    BY <2>2, MatchedStays DEF MatchedNow
  <2> QED BY <1>2, <1>3, <2>1, <2>3, AtCheck
<1>5. CASE PreparePasses
  <2> DEFINE cores == [i \in Formulas |-> Prepared(resolvers[i], GroupsIn(call.rows))]
  <2>1. /\ call.step = "prepare" /\ resolvers' = cores
        /\ call' = [call EXCEPT !.step = "resolve", !.snapshot = IF NeedsSnapshot THEN cores ELSE <<>>]
    BY <1>5 DEF PreparePasses
  <2>2. call'.step = "resolve" /\ (NeedsSnapshot => call'.snapshot = cores)
    <3> HIDE DEF cores
    <3> QED BY <1>1, <2>1 DEF CallType
  <2>3. \A i \in Formulas, k \in Keys : FedRows(cores[i], k) = FedRows(resolvers[i], k)
    BY PreparedRows
  <2>4. \A i \in Formulas : GroupsIn(call.rows) \subseteq DOMAIN cores[i].runs
    BY DEF Prepared
  <2> HIDE DEF cores
  <2>5. Matched(cores, states)
    BY <2>1, <2>3 DEF InStep, MatchedNow, Matched
  <2>6. Matched(resolvers', states') /\ (NeedsSnapshot => Matched(call'.snapshot, states'))
    BY <1>0, <2>1, <2>2, <2>5
  <2>7. MatchedNow'
    BY <2>6, MatchedStays DEF MatchedNow
  <2>8. MatchedCopy'
    BY <2>6, MatchedStays, SetupStays DEF MatchedCopy
  <2>9. BuiltFirst'
    BY <1>0, <2>1, <2>4, SetupStays DEF BuiltFirst
  <2> QED BY <1>2, <1>3, <2>2, <2>7, <2>8, <2>9 DEF InStep, AheadOnceFed, AheadWhileLearning
<1>6. CASE ResolvePasses
  <2>1. /\ call.step = "resolve" /\ call' = [call EXCEPT !.step = "prepass"]
        /\ resolvers' = [i \in Formulas |-> Fed(resolvers[i], GroupsIn(call.rows))]
    BY <1>6 DEF ResolvePasses, NextStep
  <2>2. call'.step = "prepass" /\ call'.snapshot = call.snapshot
    BY <1>1, <2>1 DEF CallType
  <2>3. ASSUME NEW i \in Formulas, NEW k \in Keys
        PROVE  FedRows(resolvers'[i], k) = IF <<i, k>> \in Formulas \X GroupsIn(call.rows)
                 THEN StreamRows(states, i, k) \o Feed(call.rows, rowsFed, k)
                 ELSE StreamRows(states, i, k)
    <3> DEFINE core == resolvers[i]
               fed == Fed(core, GroupsIn(call.rows))
    <3>1. core \in Core /\ resolvers'[i] = fed
      BY <2>1 DEF Typed, CoresTyped
    <3>2. /\ DOMAIN fed.runs = DOMAIN core.runs /\ fed.saved = core.saved
          /\ \A h \in DOMAIN core.runs :
               fed.runs[h] = IF h \in GroupsIn(call.rows) THEN core.runs[h] \o Feed(call.rows, rowsFed, h)
                             ELSE core.runs[h]
      <4> HIDE DEF core
      <4> QED BY <1>1, <3>1, FedTyped DEF Typed
    <3>3. FedRows(core, k) = StreamRows(states, i, k)
      BY <2>1 DEF InStep, MatchedNow, Matched
    <3>4. GroupsIn(call.rows) \subseteq DOMAIN core.runs
      BY <2>1 DEF InStep, BuiltFirst
    <3> HIDE DEF core, fed
    <3>5. CASE k \in DOMAIN core.runs
      BY <3>1, <3>2, <3>3, <3>5 DEF FedRows
    <3>6. CASE k \notin DOMAIN core.runs
      BY <3>1, <3>2, <3>3, <3>4, <3>6 DEF FedRows
    <3> QED BY <3>5, <3>6
  <2>4. (Formulas \X GroupsIn(call.rows))' = Formulas \X GroupsIn(call.rows)
    BY <1>0, SetupStays DEF GroupsIn
  <2>5. Ahead(resolvers, states, Formulas \X GroupsIn(call.rows))'
    BY <1>0, <2>3, <2>4, AheadStays
  <2>6. AheadOnceFed'
    BY <2>5 DEF AheadOnceFed
  <2>7. MatchedCopy'
    BY <1>0, <2>1, <2>2, MatchedStays, SetupStays DEF InStep, MatchedCopy
  <2>8. call' # Idle
    BY <2>2 DEF Idle
  <2> QED BY <1>2, <1>3, <2>2, <2>6, <2>7, <2>8 DEF InStep, MatchedNow, BuiltFirst, AheadWhileLearning
<1> QED BY <1>4, <1>5, <1>6 DEF GoesOn

(* The rows are learned: a stream catches up with its core.                *)
LEMMA PrepassMatches ==
  ASSUME Typed, UNCHANGED setup, InStep, PrepassPasses
  PROVE  InStep'
<1>1. call.step = "prepass" /\ states' = states /\ resolvers' = resolvers /\ rowsFed' = rowsFed /\ file' = file
      /\ call' = [call EXCEPT !.step = "learn", !.phase = 1, !.todo = Tasks(1), !.left = noticesLeft]
  BY DEF PrepassPasses, kept
<1>2. call \in CallType
  BY <1>1, UnderWay DEF Typed, Steps
<1>3. call'.step = "learn" /\ call'.rows = call.rows /\ call'.todo = Tasks(1)
  BY <1>1, <1>2 DEF CallType
<1>4. ASSUME NEW i \in Formulas, NEW k
      PROVE  <<i, k>> \in Tasks(1) <=> <<i, k>> \in Formulas \X GroupsIn(call.rows)
  <2>1. i \in SpecIds /\ Specs[i].compares = FALSE
    BY FormulasAre DEF Typed
  <2>2. Tasks(1) = {j \in SpecIds : Specs[j].compares = FALSE} \X GroupsIn(call.rows)
    <3>1. (1 = 2) = FALSE
      OBVIOUS
    <3> QED BY <3>1 DEF Tasks
  <2>3. i \in {j \in SpecIds : Specs[j].compares = FALSE}
    BY <2>1
  <2> QED BY <2>2, <2>3
<1>5. ASSUME NEW i \in Formulas, NEW k \in Keys
      PROVE  FedRows(resolvers'[i], k) = IF <<i, k>> \in call'.todo
                                         THEN StreamRows(states', i, k) \o Feed(call.rows, rowsFed, k)
                                         ELSE StreamRows(states', i, k)
  <2>1. Ahead(resolvers, states, Formulas \X GroupsIn(call.rows))
    BY <1>1 DEF InStep, AheadOnceFed
  <2>2. FedRows(resolvers[i], k) = IF <<i, k>> \in Formulas \X GroupsIn(call.rows)
                                   THEN StreamRows(states, i, k) \o Feed(call.rows, rowsFed, k)
                                   ELSE StreamRows(states, i, k)
    BY <2>1 DEF Ahead
  <2>3. <<i, k>> \in call'.todo <=> <<i, k>> \in Formulas \X GroupsIn(call.rows)
    BY <1>3, <1>4
  <2> QED BY <1>1, <2>2, <2>3
<1>6. Ahead(resolvers, states, call.todo)'
  BY <1>1, <1>3, <1>5, AheadStays
<1>7. AheadWhileLearning'
  BY <1>6 DEF AheadWhileLearning
<1>8. MatchedFile'
  BY <1>1, FileMatches DEF InStep
<1> QED BY <1>3, <1>7, <1>8, AtLearn

LEMMA LearningMatches ==
  ASSUME Typed, UNCHANGED setup, InStep, Learn \/ LearnPastBudget
  PROVE  InStep'
<1>1. call.step = "learn"
  BY LearningIs
<1>2. PICK i \in SpecIds, k \in GroupsIn(call.rows), own \in Seq(1..Len(call.rows)), over \in BOOLEAN :
        /\ <<i, k>> \in call.todo /\ (~over => own = RowsOf(call.rows, k))
        /\ StreamTakes(i, k, own, over)
  BY LearningIs
<1>3. call \in CallType /\ Fits(call.rows, rowsFed)
  BY <1>1, UnderWay DEF Typed, Steps
<1>4. /\ resolvers' = resolvers /\ rowsFed' = rowsFed /\ file' = file
      /\ call' = [call EXCEPT !.todo = @ \ {<<i, k>>}, !.over = @ \/ over,
           !.closed = @ \cup SpansClosed(i, k, call.rows, states[i][k], own, rowsFed)]
  BY <1>2 DEF StreamTakes
<1>5. /\ call'.step = "learn" /\ call'.rows = call.rows /\ call'.todo = call.todo \ {<<i, k>>}
      /\ call'.over = (call.over \/ over)
  <2> HIDE DEF SpansClosed
  <2> QED BY <1>1, <1>3, <1>4 DEF CallType
<1>6. /\ k \in DOMAIN states[i]
      /\ \A j \in SpecIds : DOMAIN states'[j] = DOMAIN states[j]
      /\ \A j \in SpecIds : \A h \in DOMAIN states[j] :
           states'[j][h] = IF j = i /\ h = k
                           THEN Learned(i, k, call.rows, states[i][k], own, rowsFed)
                           ELSE states[j][h]
  BY <1>1, <1>2, TakesIs
<1>7. ASSUME ~call'.over PROVE Ahead(resolvers, states, call.todo)'
  <2>1. ~call.over /\ ~over
    BY <1>5, <1>7
  <2>2. ASSUME NEW j \in Formulas, NEW h \in Keys
        PROVE  FedRows(resolvers'[j], h) = IF <<j, h>> \in call'.todo
                 THEN StreamRows(states', j, h) \o Feed(call.rows, rowsFed, h)
                 ELSE StreamRows(states', j, h)
    <3>1. j \in SpecIds
      BY DEF Formulas
    <3>2. FedRows(resolvers[j], h) = IF <<j, h>> \in call.todo
                 THEN StreamRows(states, j, h) \o Feed(call.rows, rowsFed, h)
                 ELSE StreamRows(states, j, h)
      BY <1>1, <2>1 DEF InStep, AheadWhileLearning, Ahead
    <3>3. CASE j = i /\ h = k
      <4>1. Learned(i, k, call.rows, states[i][k], own, rowsFed).rows =
              states[i][k].rows \o Numbered(own, rowsFed)
        <5>1. Specs[i].close # "session" /\ Len(call.rows) \in Nat
          BY <1>3, <3>3, FormulasAre, RowsTyped DEF Typed, Fits
        <5>2. Len(own) \in Nat /\ DOMAIN own = 1..Len(own)
          BY <1>2, LenProperties
        <5>3. \A st : Learned(i, k, call.rows, st, own, rowsFed).rows = st.rows \o Numbered(own, rowsFed)
          BY <5>1, <5>2, LearnedRows
        <5> QED BY <5>3, Zenon
      <4>2. Numbered(own, rowsFed) = Feed(call.rows, rowsFed, k)
        BY <1>2, <2>1 DEF Feed, Numbered
      <4>3. StreamRows(states', j, h) = StreamRows(states, j, h) \o Feed(call.rows, rowsFed, h)
        BY <1>6, <3>1, <3>3, <4>1, <4>2 DEF StreamRows
      <4> QED BY <1>2, <1>4, <1>5, <3>2, <3>3, <4>3
    <3>4. CASE ~(j = i /\ h = k)
      <4>1. StreamRows(states', j, h) = StreamRows(states, j, h)
        BY <1>6, <3>1, <3>4 DEF StreamRows
      <4>2. <<j, h>> \in call'.todo <=> <<j, h>> \in call.todo
        BY <1>5, <3>4
      <4> QED BY <1>4, <3>2, <4>1, <4>2
    <3> QED BY <3>3, <3>4
  <2> QED BY <1>4, <1>5, <2>2, AheadStays
<1>8. AheadWhileLearning'
  BY <1>7 DEF AheadWhileLearning
<1>9. MatchedFile'
  BY <1>4, FileMatches DEF InStep
<1> QED BY <1>5, <1>8, <1>9, AtLearn

(* A call whose tasks are done leaves the cores with their streams' rows.  *)
LEMMA DoneMatches ==
  ASSUME Typed, InStep, call.step = "learn", call.todo = {}, ~call.over
  PROVE  Matched(resolvers, states)
BY DEF InStep, AheadWhileLearning, Ahead, Matched

LEMMA PhasesMatch ==
  ASSUME Typed, UNCHANGED setup, InStep, PhaseRefuses \/ SecondPhase \/ AssemblyFails \/ Return
  PROVE  InStep'
<1>1. CASE PhaseRefuses
  <2>1. call' = Idle /\ broken' = TRUE /\ file' = file
    BY <1>1 DEF PhaseRefuses
  <2>2. call'.step = "idle"
    BY <2>1 DEF Idle
  <2>3. MatchedNow'
    BY <2>1, <2>2 DEF MatchedNow
  <2> QED BY <2>1, <2>3, FileMatches, AtRest DEF InStep
<1>2. CASE SecondPhase
  <2>1. call.step = "learn" /\ call.todo = {} /\ ~call.over /\ states' = states /\ resolvers' = resolvers
        /\ rowsFed' = rowsFed /\ file' = file /\ call' = [call EXCEPT !.phase = 2, !.todo = Tasks(2)]
    BY <1>2 DEF SecondPhase, kept
  <2>2. call \in CallType
    BY <2>1, UnderWay DEF Typed, Steps
  <2>3. call'.step = "learn" /\ call'.rows = call.rows /\ call'.todo = Tasks(2)
    BY <2>1, <2>2 DEF CallType
  <2>4. \A k : \A i \in Formulas : <<i, k>> \notin Tasks(2)
    BY FormulasAre DEF Typed, Tasks
  <2>5. Matched(resolvers, states)
    BY <2>1, DoneMatches
  <2>6. Ahead(resolvers, states, call.todo)'
    BY <2>1, <2>3, <2>4, <2>5, AheadStays DEF Matched
  <2>7. AheadWhileLearning'
    BY <2>6 DEF AheadWhileLearning
  <2> QED BY <2>1, <2>3, <2>7, FileMatches, AtLearn DEF InStep
<1>3. CASE AssemblyFails
  <2>1. call.step = "learn" /\ call.todo = {} /\ ~call.over /\ call' = Idle
        /\ states' = states /\ resolvers' = resolvers /\ file' = file
    BY <1>3 DEF AssemblyFails, kept
  <2>2. Matched(resolvers', states')
    BY <2>1, DoneMatches
  <2>3. MatchedNow'
    BY <2>2, MatchedStays DEF MatchedNow
  <2> QED BY <2>1, <2>3, FileMatches, AtRest DEF InStep
<1>4. CASE Return
  <2>1. call.step = "learn" /\ call.todo = {} /\ ~call.over /\ call' = Idle
        /\ resolvers' = resolvers /\ file' = file
        /\ states' = [i \in SpecIds |->
             Silent([k \in DOMAIN states[i] \ Finished(i) |-> states[i][k]], Speaking(i))]
    BY <1>4 DEF Return
  <2>2. Matched(resolvers, states)
    BY <2>1, DoneMatches
  <2>3. ASSUME NEW i \in Formulas, NEW k \in Keys
        PROVE  StreamRows(states', i, k) = StreamRows(states, i, k)
    <3>1. i \in SpecIds /\ Finished(i) = {}
      BY FormulasAre DEF Finished, Typed
    <3>2. states[i] \in Streams /\ DOMAIN states[i] \ Finished(i) = DOMAIN states[i]
      BY <3>1 DEF Typed, StatesTyped
    <3>3. states'[i] = Silent([h \in DOMAIN states[i] |-> states[i][h]], Speaking(i))
      BY <2>1, <3>1, <3>2
    <3>4. DOMAIN states'[i] = DOMAIN states[i]
          /\ \A h \in DOMAIN states[i] : states'[i][h].rows = states[i][h].rows
      BY <3>2, <3>3, SilentTyped
    <3> QED BY <3>4 DEF StreamRows
  <2>4. Matched(resolvers', states')
    BY <2>1, <2>2, <2>3 DEF Matched
  <2>5. MatchedNow'
    BY <2>4, MatchedStays DEF MatchedNow
  <2> QED BY <2>1, <2>5, FileMatches, AtRest DEF InStep
<1> QED BY <1>1, <1>2, <1>3, <1>4

LEMMA OtherCallsMatch ==
  ASSUME Typed, UNCHANGED setup, InStep,
         TakeNotices \/ ClosedGroups \/ DropGroups \/ Save \/ Restart
  PROVE  InStep'
<1>1. CASE TakeNotices \/ ClosedGroups
  <2>1. call' = call /\ call = Idle /\ broken' = broken /\ states' = states /\ resolvers' = resolvers
        /\ file' = file
    BY <1>1 DEF TakeNotices, ClosedGroups, kept
  <2>2. ~broken => Matched(resolvers', states')
    BY <2>1 DEF InStep, MatchedNow
  <2>3. MatchedNow'
    BY <2>1, <2>2, MatchedStays DEF MatchedNow, Idle
  <2> QED BY <2>1, <2>3, FileMatches, AtRest DEF InStep
<1>2. CASE DropGroups
  <2>1. PICK S \in SpecChoices, keys \in SUBSET Keys : DropLeaves(S, keys)
    BY <1>2, DropIs
  <2>2. call' = call /\ call = Idle /\ broken' = broken /\ file' = file
    BY <1>2 DEF DropGroups
  <2>3. ASSUME ~broken, NEW i \in Formulas, NEW k \in Keys
        PROVE  FedRows(resolvers'[i], k) = StreamRows(states', i, k)
    <3>1. i \in SpecIds
      BY DEF Formulas
    <3>2. FedRows(resolvers[i], k) = StreamRows(states, i, k)
      BY <2>2, <2>3 DEF InStep, MatchedNow, Matched
    <3>3. /\ states'[i] = [h \in DOMAIN states[i] \ Dropped(S, keys, i) |-> states[i][h]]
          /\ resolvers'[i].runs = [h \in DOMAIN resolvers[i].runs \ Dropped(S, keys, i) |-> resolvers[i].runs[h]]
          /\ resolvers'[i].saved = [h \in DOMAIN resolvers[i].saved \ Dropped(S, keys, i) |->
                                      resolvers[i].saved[h]]
      BY <2>1, <3>1 DEF DropLeaves
    <3>4. CASE k \in Dropped(S, keys, i)
      BY <3>3, <3>4 DEF FedRows, StreamRows
    <3>5. CASE k \notin Dropped(S, keys, i)
      BY <3>2, <3>3, <3>5 DEF FedRows, StreamRows
    <3> QED BY <3>4, <3>5
  <2>4. ~broken => Matched(resolvers, states)'
    BY <2>3, SetupStays DEF Matched, FedRows, StreamRows
  <2>5. MatchedNow'
    BY <2>2, <2>4 DEF MatchedNow, Idle
  <2> QED BY <2>2, <2>5, FileMatches, AtRest DEF InStep
<1>3. CASE Save
  <2>1. call' = call /\ call = Idle /\ ~broken /\ broken' = broken /\ states' = states /\ resolvers' = resolvers
        /\ file'.bank.states = states /\ file'.bank.resolvers = SavedCores
    BY <1>3, SaveIs DEF Save, kept
  <2>2. Matched(resolvers, states)
    BY <2>1 DEF InStep, MatchedNow
  <2>3. ASSUME NEW i \in Formulas, NEW k \in Keys
        PROVE  FedRows(SavedCores[i], k) = FedRows(resolvers[i], k)
    BY DEF SavedCores, FedRows, CoreRows
  <2>4. Matched(SavedCores, states)
    BY <2>2, <2>3 DEF Matched
  <2>5. Matched(file'.bank.resolvers, file'.bank.states)
    BY <2>1, <2>4
  <2>6. MatchedFile'
    BY <2>5, MatchedStays DEF MatchedFile
  <2>7. MatchedNow'
    BY <2>1, <2>2, MatchedStays DEF MatchedNow
  <2> QED BY <2>1, <2>6, <2>7, AtRest
<1>4. CASE Restart
  <2>1. call' = Idle /\ file' = file /\ Matched(resolvers', states')
    BY <1>4 DEF Restart, InStep, MatchedFile
  <2>2. MatchedNow'
    BY <2>1, MatchedStays DEF MatchedNow
  <2> QED BY <2>1, <2>2, FileMatches, AtRest DEF InStep
<1> QED BY <1>1, <1>2, <1>3, <1>4

LEMMA InitMatches ==
  ASSUME Init
  PROVE  InStep
<1>1. ASSUME NEW i \in Formulas, NEW k \in Keys
      PROVE  FedRows(resolvers[i], k) = StreamRows(states, i, k)
  BY DEF Init, FedRows, StreamRows, Formulas
<1>2. Matched(resolvers, states)
  BY <1>1 DEF Matched
<1>3. MatchedFile
  BY <1>2 DEF MatchedFile, Init, Standing
<1> QED BY <1>2, <1>3 DEF Init, Idle, InStep, MatchedNow, MatchedCopy, BuiltFirst, AheadOnceFed,
                          AheadWhileLearning, NewAreEmpty, MayRefuse

LEMMA StepMatches ==
  ASSUME Typed, ~Unreadable, InStep, [Next]_vars
  PROVE  InStep'
<1>1. CASE UNCHANGED vars
  <2>1. UNCHANGED <<setup, states, resolvers, broken, call, file, rowsFed>>
    BY <1>1 DEF vars, kept
  <2>2. MatchedNow' /\ MatchedCopy' /\ MatchedFile' /\ NewAreEmpty'
    BY <2>1, SetupStays
       DEF InStep, MatchedNow, MatchedCopy, MatchedFile, NewAreEmpty, Matched, FedRows, StreamRows, Idle
  <2>3. BuiltFirst'
    BY <2>1, SetupStays DEF InStep, BuiltFirst, GroupsIn
  <2>4. (Formulas \X GroupsIn(call.rows))' = Formulas \X GroupsIn(call.rows) /\ call'.todo = call.todo
    BY <2>1, SetupStays DEF GroupsIn
  <2>5. AheadOnceFed'
    <3> SUFFICES ASSUME call.step = "prepass"
                 PROVE  Ahead(resolvers, states, Formulas \X GroupsIn(call.rows))'
      BY <2>1 DEF AheadOnceFed
    <3>1. \A i \in Formulas, k \in Keys :
            FedRows(resolvers[i], k) = IF <<i, k>> \in Formulas \X GroupsIn(call.rows)
                                       THEN StreamRows(states, i, k) \o Feed(call.rows, rowsFed, k)
                                       ELSE StreamRows(states, i, k)
      BY DEF InStep, AheadOnceFed, Ahead
    <3> QED BY <2>1, <2>4, <3>1, AheadStays
  <2>6. AheadWhileLearning'
    <3> SUFFICES ASSUME call.step = "learn", ~call.over PROVE Ahead(resolvers, states, call.todo)'
      BY <2>1 DEF AheadWhileLearning
    <3>1. \A i \in Formulas, k \in Keys :
            FedRows(resolvers[i], k) = IF <<i, k>> \in call.todo
                                       THEN StreamRows(states, i, k) \o Feed(call.rows, rowsFed, k)
                                       ELSE StreamRows(states, i, k)
      BY DEF InStep, AheadWhileLearning, Ahead
    <3> QED BY <2>1, <2>4, <3>1, AheadStays
  <2> QED BY <2>2, <2>3, <2>5, <2>6 DEF InStep
<1>2. CASE Next
  <2>1. Step /\ UNCHANGED setup
    BY <1>2 DEF Next
  <2>2. CASE \E rows \in Chunks, form \in {"integer", "text"} : Begin(rows, form)
    BY <2>1, <2>2, BeginMatches
  <2>3. CASE Refusal
    BY <2>1, <2>3, RefusalMatches
  <2>4. CASE GoesOn
    BY <2>1, <2>4, GoingOnMatches
  <2>5. CASE PrepassPasses \/ Learn \/ LearnPastBudget
    BY <2>1, <2>5, PrepassMatches, LearningMatches
  <2>6. CASE PhaseRefuses \/ SecondPhase \/ AssemblyFails \/ Return
    BY <2>1, <2>6, PhasesMatch
  <2>7. CASE TakeNotices \/ ClosedGroups \/ DropGroups \/ Save \/ Restart
    BY <2>1, <2>7, OtherCallsMatch
  <2> QED BY <2>1, <2>2, <2>3, <2>4, <2>5, <2>6, <2>7 DEF Step, Refusal, GoesOn
<1> QED BY <1>1, <1>2

(* Where a loaded core can always be resumed, a group's window core has    *)
(* been fed, between calls, exactly the rows its stream holds, whatever    *)
(* chunks were refused on the way and wherever the process died: a core    *)
(* with more or fewer would pair a row with another row's target           *)
(* (fit_predict_on_pool's copy of the cores, drop_groups, the file).       *)
THEOREM CoresAlwaysInStep == Spec => []CoresInStep
<1>1. Init => (~Unreadable => InStep)
  BY InitMatches
<1>2. Typed /\ (~Unreadable => InStep) /\ [Next]_vars => (~Unreadable => InStep)'
  <2>1. [Next]_vars => Unreadable' = Unreadable
    BY DEF Next, vars, Unreadable
  <2> QED BY <2>1, StepMatches
<1>3. (~Unreadable => InStep) => CoresInStep
  BY CoreRowsAre DEF InStep, MatchedNow, Matched, StreamRows, CoresInStep, CoresHoldRows
<1> QED BY <1>1, <1>2, <1>3, TypesKept, PTL DEF Spec

-----------------------------------------------------------------------------
(* The rest of a bank's types: cores apart, and rows that close once       *)

(* A group's core runs or waits to be resumed, and never both: in the bank,*)
(* in the copy a call may put back, and in the file.                       *)
Apart(cores) == \A i \in Formulas : DOMAIN cores[i].runs \cap DOMAIN cores[i].saved = {}
CopyApart == call.step \in {"resolve", "prepass"} /\ NeedsSnapshot => Apart(call.snapshot)
CoresApart == Apart(resolvers) /\ CopyApart /\ Apart(file.bank.resolvers)

LEMMA PreparedApart ==
  ASSUME NEW core, NEW ks, DOMAIN core.runs \cap DOMAIN core.saved = {}
  PROVE  DOMAIN Prepared(core, ks).runs \cap DOMAIN Prepared(core, ks).saved = {}
<1>1. DOMAIN Prepared(core, ks).runs = DOMAIN core.runs \cup ks
      /\ DOMAIN Prepared(core, ks).saved = DOMAIN core.saved \ (ks \ DOMAIN core.runs)
  BY DEF Prepared
<1> QED BY <1>1

(* What a refusal leaves of the cores.                                     *)
LEMMA RefusalApart ==
  ASSUME Typed, CoresApart, Refusal
  PROVE  \E cores : Refuse(cores) /\ Apart(cores)
<1>1. CASE CheckRefuses
  BY <1>1 DEF CheckRefuses, CoresApart
<1>2. CASE PrepareRefuses
  <2>1. PICK i \in Formulas, k \in GroupsIn(call.rows) : Refuse(PreparedUpTo(i, k))
    BY <1>2 DEF PrepareRefuses
  <2>2. ASSUME NEW j \in Formulas
        PROVE  DOMAIN PreparedUpTo(i, k)[j].runs \cap DOMAIN PreparedUpTo(i, k)[j].saved = {}
    <3> DEFINE core == Prepared(resolvers[j], Reached(j, i, k))
    <3>1. DOMAIN core.runs \cap DOMAIN core.saved = {}
      BY PreparedApart DEF CoresApart, Apart
    <3>2. core = [runs |-> core.runs, saved |-> core.saved]
      BY DEF Prepared
    <3>3. PreparedUpTo(i, k)[j] =
            IF j # i THEN core ELSE [core EXCEPT !.saved = [h \in DOMAIN @ \ {k} |-> @[h]]]
      BY DEF PreparedUpTo
    <3> HIDE DEF core
    <3>4. CASE j # i
      BY <3>1, <3>3, <3>4
    <3>5. CASE j = i
      <4>1. PreparedUpTo(i, k)[j].runs = core.runs
            /\ DOMAIN PreparedUpTo(i, k)[j].saved = DOMAIN core.saved \ {k}
        BY <3>2, <3>3, <3>5
      <4> QED BY <3>1, <4>1
    <3> QED BY <3>4, <3>5
  <2> QED BY <2>1, <2>2 DEF Apart
<1>3. CASE ResolveRefuses
  <2>1. PICK i \in Formulas, k \in GroupsIn(call.rows) :
          Refuse(IF NeedsSnapshot THEN call.snapshot
                 ELSE [j \in Formulas |->
                         Fed(resolvers[j], Reached(j, i, k) \cup (IF j = i THEN {k} ELSE {}))])
    BY <1>3 DEF ResolveRefuses
  <2>2. CASE NeedsSnapshot
    BY <1>3, <2>1, <2>2 DEF ResolveRefuses, CoresApart, CopyApart
  <2>3. CASE ~NeedsSnapshot
    <3> DEFINE cores == [j \in Formulas |->
                 Fed(resolvers[j], Reached(j, i, k) \cup (IF j = i THEN {k} ELSE {}))]
    <3>1. Refuse(cores)
      BY <2>1, <2>3
    <3>2. setup \in Setups /\ Fits(call.rows, rowsFed) /\ resolvers \in [Formulas -> Core]
      BY <1>3, UnderWay DEF Typed, CoresTyped, ResolveRefuses, Steps
    <3>3. Apart(cores)
      BY <3>2, FedTyped DEF CoresApart, Apart
    <3> QED BY <3>1, <3>3
  <2> QED BY <2>2, <2>3
<1>4. CASE PrepassRefuses
  <2>1. call.step = "prepass" /\ Refuse(IF NeedsSnapshot THEN call.snapshot ELSE resolvers)
    BY <1>4 DEF PrepassRefuses
  <2>2. Apart(IF NeedsSnapshot THEN call.snapshot ELSE resolvers)
    BY <2>1 DEF CoresApart, CopyApart
  <2> QED BY <2>1, <2>2
<1> QED BY <1>1, <1>2, <1>3, <1>4 DEF Refusal

(* The steps that leave the cores and the file alone and take no copy.     *)
LeavesCores ==
  /\ resolvers' = resolvers /\ file' = file
  /\ call' = call \/ call'.step \notin {"resolve", "prepass"}

LEMMA LeavesApart ==
  ASSUME UNCHANGED setup, CoresApart, LeavesCores
  PROVE  CoresApart'
BY SetupStays DEF CoresApart, CopyApart, Apart, LeavesCores

LEMMA StepApart ==
  ASSUME Typed, CoresApart, [Next]_vars
  PROVE  CoresApart'
<1>1. CASE UNCHANGED vars
  BY <1>1, LeavesApart DEF vars, kept, LeavesCores
<1>2. CASE Next
  <2>1. Step /\ UNCHANGED setup
    BY <1>2 DEF Next
  <2>2. CASE \E rows \in Chunks, form \in {"integer", "text"} : Begin(rows, form)
    BY <2>1, <2>2, LeavesApart DEF Begin, LeavesCores
  <2>3. CASE Refusal
    <3>1. PICK cores : Refuse(cores) /\ Apart(cores)
      BY <2>3, RefusalApart
    <3>2. resolvers' = cores /\ file' = file /\ call' = Idle
      BY <3>1 DEF Refuse
    <3> QED BY <2>1, <3>1, <3>2, SetupStays DEF CoresApart, CopyApart, Apart, Idle
  <2>4. CASE CheckPasses
    BY <2>1, <2>4, LeavesApart, UnderWay DEF Typed, CheckPasses, NextStep, LeavesCores, Steps, CallType
  <2>5. CASE PreparePasses
    <3> DEFINE cores == [i \in Formulas |-> Prepared(resolvers[i], GroupsIn(call.rows))]
    <3>1. resolvers' = cores /\ file' = file
          /\ call' = [call EXCEPT !.step = "resolve",
                                  !.snapshot = IF NeedsSnapshot THEN cores ELSE <<>>]
      BY <2>5 DEF PreparePasses
    <3>2. Apart(cores)
      BY PreparedApart DEF CoresApart, Apart
    <3>3. call \in CallType
      BY <2>5, UnderWay DEF Typed, PreparePasses, Steps
    <3> HIDE DEF cores
    <3>4. NeedsSnapshot => call'.snapshot = cores
      BY <3>1, <3>3 DEF CallType
    <3> QED BY <2>1, <3>1, <3>2, <3>4, SetupStays DEF CoresApart, CopyApart, Apart
  <2>6. CASE ResolvePasses
    <3>1. resolvers' = [i \in Formulas |-> Fed(resolvers[i], GroupsIn(call.rows))] /\ file' = file
          /\ call.step = "resolve" /\ call' = [call EXCEPT !.step = "prepass"]
      BY <2>6 DEF ResolvePasses, NextStep
    <3>2. setup \in Setups /\ Fits(call.rows, rowsFed) /\ resolvers \in [Formulas -> Core]
          /\ call \in CallType
      BY <3>1, UnderWay DEF Typed, CoresTyped, Steps
    <3>3. Apart(resolvers')
      BY <3>1, <3>2, FedTyped DEF CoresApart, Apart
    <3>4. call'.snapshot = call.snapshot
      BY <3>1, <3>2 DEF CallType
    <3>5. NeedsSnapshot => Apart(call.snapshot)
      BY <3>1 DEF CoresApart, CopyApart
    <3>6. CopyApart'
      BY <2>1, <3>4, <3>5, SetupStays DEF CopyApart, Apart
    <3>7. Apart(file.bank.resolvers)'
      BY <2>1, <3>1, SetupStays DEF CoresApart, Apart
    <3> QED BY <2>1, <3>3, <3>6, <3>7, SetupStays DEF CoresApart, Apart
  <2>7. CASE PrepassPasses \/ SecondPhase
    <3>1. call \in CallType /\ call'.step = "learn"
      BY <2>7, UnderWay DEF Typed, PrepassPasses, SecondPhase, Steps, CallType
    <3> QED BY <2>1, <2>7, <3>1, LeavesApart DEF PrepassPasses, SecondPhase, LeavesCores, kept
  <2>8. CASE Learn \/ LearnPastBudget
    <3>1. PICK i \in SpecIds, k \in GroupsIn(call.rows), own \in Seq(1..Len(call.rows)),
               over \in BOOLEAN : call.step = "learn" /\ StreamTakes(i, k, own, over)
      BY <2>8, LearningIs
    <3>2. call \in CallType
      BY <3>1, UnderWay DEF Typed, Steps
    <3>3. call'.step = "learn"
      BY <3>1, <3>2 DEF StreamTakes, CallType
    <3> QED BY <2>1, <3>1, <3>3, LeavesApart DEF StreamTakes, LeavesCores
  <2>9. CASE PhaseRefuses \/ AssemblyFails \/ Return \/ TakeNotices \/ ClosedGroups
    <3>1. resolvers' = resolvers /\ file' = file /\ (call' = Idle \/ call' = call)
      BY <2>9 DEF PhaseRefuses, AssemblyFails, Return, TakeNotices, ClosedGroups, kept
    <3> QED BY <2>1, <3>1, LeavesApart DEF LeavesCores, Idle
  <2>10. CASE DropGroups
    <3>1. PICK S \in SpecChoices, keys \in SUBSET Keys : DropLeaves(S, keys)
      BY <2>10, DropIs
    <3>2. Apart(resolvers')
      BY <3>1 DEF DropLeaves, CoresApart, Apart
    <3> QED BY <2>1, <2>10, <3>2, SetupStays DEF DropGroups, CoresApart, CopyApart, Apart
  <2>11. CASE Save
    <3>1. file'.bank.resolvers = SavedCores /\ resolvers' = resolvers /\ call' = call
      BY <2>11, SaveIs DEF Save, kept
    <3>2. Apart(SavedCores)
      BY DEF SavedCores, Apart
    <3> QED BY <2>1, <3>1, <3>2, SetupStays DEF CoresApart, CopyApart, Apart
  <2>12. CASE Restart
    BY <2>1, <2>12, SetupStays DEF Restart, CoresApart, CopyApart, Apart, Idle
  <2> QED BY <2>1, <2>2, <2>3, <2>4, <2>5, <2>6, <2>7, <2>8, <2>9, <2>10, <2>11, <2>12
          DEF Step, Refusal
<1> QED BY <1>1, <1>2

(* The rows a call's spans close with are of the groups that have learned, *)
(* each ended by a row of its group, and no row ends two spans of a stream.*)
SpanEnded(r) ==
  /\ Specs[r.spec].close = "session" /\ <<r.spec, r.group>> \notin call.todo
  /\ Specs[r.spec].compares => call.phase = 2
  /\ r.at \in 1..Len(call.rows) /\ call.rows[r.at].g = r.group
NoneEnded == call.step \in MayRefuse => call.closed = {}
TasksLeft == call.step = "learn" => call.phase \in {1, 2} /\ call.todo \subseteq Tasks(call.phase)
SpansEnded == call.step = "learn" => \A r \in call.closed : SpanEnded(r)
EndedOnce ==
  call.step = "learn" =>
    /\ IsFiniteSet(call.closed)
    /\ \A r, q \in call.closed : r.spec = q.spec /\ r.at = q.at => r = q
Ended == NoneEnded /\ TasksLeft /\ SpansEnded /\ EndedOnce

(* The rows of a group that a task takes: places of the chunk, in order.   *)
OwnRows(rows, own, k) ==
  /\ own \in Seq(1..Len(rows))
  /\ \A a, b \in 1..Len(own) : a < b => own[a] < own[b]
  /\ \A a \in 1..Len(own) : rows[own[a]].g = k

LEMMA PartOfOwn ==
  ASSUME NEW rows, Len(rows) \in Nat, NEW own, NEW k, OwnRows(rows, own, k), NEW n \in 1..Len(own)
  PROVE  OwnRows(rows, SubSeq(own, 1, n), k) /\ Len(SubSeq(own, 1, n)) = n
         /\ \A m \in 1..n : SubSeq(own, 1, n)[m] = own[m]
<1>1. own \in Seq(1..Len(rows)) /\ Len(own) \in Nat /\ n \in Nat /\ n <= Len(own)
      /\ own \in [1..Len(own) -> 1..Len(rows)]
  BY LenProperties DEF OwnRows
<1>2. \A m \in 1..n : own[m] \in 1..Len(rows)
  BY <1>1
<1>3. /\ SubSeq(own, 1, n) \in Seq(1..Len(rows)) /\ Len(SubSeq(own, 1, n)) = n
      /\ \A m \in 1..n : SubSeq(own, 1, n)[m] = own[m]
  BY <1>1, <1>2, SubSeqProperties
<1>4. \A a, b \in 1..n : a < b => own[a] < own[b]
  BY <1>1 DEF OwnRows
<1>5. \A a \in 1..n : rows[own[a]].g = k
  BY <1>1 DEF OwnRows
<1> HIDE DEF OwnRows
<1> QED BY <1>3, <1>4, <1>5 DEF OwnRows

(* A step that learns is a task's, which takes rows of its group.          *)
LEMMA LearningOwn ==
  ASSUME Typed, Learn \/ LearnPastBudget
  PROVE  /\ call.step = "learn"
         /\ \E i \in SpecIds, k \in GroupsIn(call.rows), own \in Seq(1..Len(call.rows)),
              over \in BOOLEAN :
              /\ <<i, k>> \in call.todo /\ OwnRows(call.rows, own, k) /\ own # <<>>
              /\ StreamTakes(i, k, own, over)
<1>1. call.step = "learn" /\ setup \in Setups /\ call.rows \in Chunks
  BY UnderWay DEF Typed, Learn, LearnPastBudget, Steps, Fits
<1>2. \A k : /\ OwnRows(call.rows, RowsOf(call.rows, k), k)
             /\ RowsOf(call.rows, k) \in Seq(1..Len(call.rows))
             /\ k \in GroupsIn(call.rows) => RowsOf(call.rows, k) # <<>>
  BY <1>1, OwnTyped DEF OwnRows
<1>3. CASE Learn
  <2>1. PICK i \in SpecIds, k \in GroupsIn(call.rows) :
          <<i, k>> \in call.todo /\ StreamTakes(i, k, RowsOf(call.rows, k), FALSE)
    BY <1>3 DEF Learn
  <2> DEFINE mine == RowsOf(call.rows, k)
  <2>2. OwnRows(call.rows, mine, k) /\ mine \in Seq(1..Len(call.rows)) /\ mine # <<>>
    BY <1>2
  <2>3. StreamTakes(i, k, mine, FALSE)
    BY <2>1
  <2> HIDE DEF mine
  <2> QED BY <1>1, <2>1, <2>2, <2>3
<1>4. CASE LearnPastBudget
  <2>1. PICK i \in SpecIds, k \in GroupsIn(call.rows) :
          /\ <<i, k>> \in call.todo
          /\ \E n \in 1..Len(RowsOf(call.rows, k)) :
               StreamTakes(i, k, SubSeq(RowsOf(call.rows, k), 1, n), TRUE)
    BY <1>4 DEF LearnPastBudget
  <2> DEFINE mine == RowsOf(call.rows, k)
  <2>2. PICK n \in 1..Len(mine) : StreamTakes(i, k, SubSeq(mine, 1, n), TRUE)
    BY <2>1
  <2>3. OwnRows(call.rows, mine, k)
    BY <1>2
  <2>4. Len(call.rows) \in Nat
    BY <1>1, RowsTyped
  <2> HIDE DEF mine
  <2> DEFINE part == SubSeq(mine, 1, n)
  <2>5. OwnRows(call.rows, part, k) /\ Len(part) = n
    BY ONLY <2>3, <2>4, n \in 1..Len(mine), PartOfOwn
  <2>6. StreamTakes(i, k, part, TRUE)
    BY <2>2
  <2> HIDE DEF part
  <2>7. part # <<>> /\ part \in Seq(1..Len(call.rows))
    <3>1. n # 0 /\ Len(<<>>) = 0
      BY <2>3 DEF OwnRows
    <3> QED BY <2>5, <3>1 DEF OwnRows
  <2> QED BY <1>1, <2>1, <2>5, <2>6, <2>7
<1> QED BY <1>3, <1>4

(* The rows a stream's spans close with, one per row that ended one.       *)
LEMMA SpansAre ==
  ASSUME setup \in Setups, NEW rows \in Chunks, NEW st, NEW own, NEW i \in SpecIds, NEW k, NEW base,
         OwnRows(rows, own, k)
  PROVE  /\ IsFiniteSet(SpansClosed(i, k, rows, st, own, base))
         /\ \A r \in SpansClosed(i, k, rows, st, own, base) :
              /\ r.spec = i /\ r.group = k /\ Specs[i].close = "session"
              /\ r.at \in 1..Len(rows) /\ rows[r.at].g = k
         /\ \A r, q \in SpansClosed(i, k, rows, st, own, base) : r.at = q.at => r = q
<1> DEFINE bounds == Bounds(i, rows, st, own)
           session(b) == IF b = 1 THEN st.session ELSE rows[own[b - 1]].s
           span(b) == Span(st, own, base, bounds, b - 1)
           ClosedRow(b) == [spec |-> i, group |-> k, session |-> session(b), rows |-> span(b), at |-> own[b]]
<1>1. SpansClosed(i, k, rows, st, own, base) = {ClosedRow(b) : b \in bounds}
  BY DEF SpansClosed
<1>2. bounds \subseteq DOMAIN own /\ (bounds # {} => Specs[i].close = "session")
  BY DEF Bounds, SessionBounds
<1>3. Len(rows) \in Nat
  BY RowsTyped
<1>4. Len(own) \in Nat /\ DOMAIN own = 1..Len(own) /\ own \in [1..Len(own) -> 1..Len(rows)]
  BY LenProperties DEF OwnRows
<1> HIDE DEF bounds, session, span
<1>5. IsFiniteSet(bounds)
  <2>1. IsFiniteSet(1..Len(own))
    BY <1>4, FS_Interval
  <2> QED BY <1>2, <1>4, <2>1, FS_Subset
<1>6. IsFiniteSet({ClosedRow(b) : b \in bounds})
  <2> DEFINE f == [b \in bounds |-> ClosedRow(b)]
             S == {ClosedRow(b) : b \in bounds}
  <2>1. f \in Surjection(bounds, S)
    BY DEF Surjection
  <2> HIDE DEF f, S
  <2>2. IsFiniteSet(S)
    BY <1>5, <2>1, FS_Surjection
  <2> QED BY <2>2 DEF S
<1>7. ASSUME NEW b \in bounds
      PROVE  /\ ClosedRow(b).spec = i /\ ClosedRow(b).group = k /\ Specs[i].close = "session"
             /\ ClosedRow(b).at = own[b] /\ own[b] \in 1..Len(rows) /\ rows[own[b]].g = k
  <2>1. b \in 1..Len(own)
    BY <1>2, <1>4
  <2>2. own[b] \in 1..Len(rows) /\ rows[own[b]].g = k
    BY <1>4, <2>1 DEF OwnRows
  <2> QED BY <1>2, <2>2
<1>8. ASSUME NEW b \in bounds, NEW c \in bounds, own[b] = own[c] PROVE b = c
  <2>1. b \in 1..Len(own) /\ c \in 1..Len(own)
    BY <1>2, <1>4
  <2>2. own[b] \in Nat /\ own[c] \in Nat
    BY <1>3, <1>4, <2>1
  <2>3. (b < c => own[b] < own[c]) /\ (c < b => own[c] < own[b])
    BY <2>1 DEF OwnRows
  <2>4. b \in Nat /\ c \in Nat
    BY <1>4, <2>1
  <2> QED BY <1>8, <2>2, <2>3, <2>4
<1>9. \A r \in {ClosedRow(b) : b \in bounds} :
        /\ r.spec = i /\ r.group = k /\ Specs[i].close = "session"
        /\ r.at \in 1..Len(rows) /\ rows[r.at].g = k
  BY <1>7
<1>10. \A r, q \in {ClosedRow(b) : b \in bounds} : r.at = q.at => r = q
  <2>1. ASSUME NEW b \in bounds, NEW c \in bounds, ClosedRow(b).at = ClosedRow(c).at PROVE ClosedRow(b) = ClosedRow(c)
    <3>1. b = c
      BY <1>7, <1>8, <2>1
    <3> QED BY <3>1
  <2> HIDE DEF ClosedRow
  <2> QED BY <2>1
<1> QED BY <1>1, <1>6, <1>9, <1>10

(* A task's rows join the closed ones.                                     *)
LEMMA LearningEnded ==
  ASSUME Typed, UNCHANGED setup, Ended, Learn \/ LearnPastBudget
  PROVE  Ended'
<1>1. PICK i \in SpecIds, k \in GroupsIn(call.rows), own \in Seq(1..Len(call.rows)),
           over \in BOOLEAN :
        /\ call.step = "learn" /\ <<i, k>> \in call.todo /\ OwnRows(call.rows, own, k)
        /\ StreamTakes(i, k, own, over)
  BY LearningOwn
<1> DEFINE new == SpansClosed(i, k, call.rows, states[i][k], own, rowsFed)
<1>2. call \in CallType /\ call.rows \in Chunks /\ setup \in Setups
  BY <1>1, UnderWay DEF Typed, Steps, Fits
<1>3. /\ call'.step = "learn" /\ call'.rows = call.rows /\ call'.phase = call.phase
      /\ call'.todo = call.todo \ {<<i, k>>} /\ call'.closed = call.closed \cup new
  BY <1>1, <1>2 DEF StreamTakes, CallType
<1>4. /\ IsFiniteSet(new)
      /\ \A r \in new : /\ r.spec = i /\ r.group = k /\ Specs[i].close = "session"
                        /\ r.at \in 1..Len(call.rows) /\ call.rows[r.at].g = k
      /\ \A r, q \in new : r.at = q.at => r = q
  BY <1>1, <1>2, SpansAre
<1>5. /\ call.phase \in {1, 2} /\ call.todo \subseteq Tasks(call.phase)
      /\ \A r \in call.closed : SpanEnded(r)
      /\ IsFiniteSet(call.closed)
      /\ \A r, q \in call.closed : r.spec = q.spec /\ r.at = q.at => r = q
  BY <1>1 DEF Ended, TasksLeft, SpansEnded, EndedOnce
<1> HIDE DEF new
<1>6. NoneEnded'
  BY <1>3 DEF NoneEnded, MayRefuse
<1>7. TasksLeft'
  <2>1. Tasks(call.phase)' = Tasks(call.phase)
    BY <1>3, SetupStays DEF Tasks
  <2> QED BY <1>3, <1>5, <2>1 DEF TasksLeft
<1>8. SpansEnded'
  <2>1. ASSUME NEW r \in call.closed PROVE SpanEnded(r)'
    <3>1. SpanEnded(r)
      BY <1>5
    <3> QED BY <1>3, <3>1, SetupStays DEF SpanEnded
  <2>2. ASSUME NEW r \in new PROVE SpanEnded(r)'
    <3>1. Specs[i].compares => call.phase = 2
      BY <1>1, <1>5 DEF Tasks
    <3> QED BY <1>3, <1>4, <3>1, SetupStays DEF SpanEnded
  <2> QED BY <1>3, <2>1, <2>2 DEF SpansEnded
<1>9. EndedOnce'
  <2>1. IsFiniteSet(call'.closed)
    <3>1. IsFiniteSet(call.closed \cup new)
      BY <1>4, <1>5, FS_Union
    <3> QED BY <1>3, <3>1
  <2>2. ASSUME NEW r \in call.closed, NEW q \in new PROVE ~(r.spec = q.spec /\ r.at = q.at)
    BY <1>1, <1>4, <1>5 DEF SpanEnded
  <2>3. \A r, q \in call'.closed : r.spec = q.spec /\ r.at = q.at => r = q
    BY <1>3, <1>4, <1>5, <2>2
  <2> QED BY <2>1, <2>3 DEF EndedOnce
<1> QED BY <1>6, <1>7, <1>8, <1>9 DEF Ended

LEMMA EndedStays ==
  ASSUME UNCHANGED setup, Ended, call' = call \/ call' = Idle
  PROVE  Ended'
<1>1. CASE call' = call
  BY <1>1, SetupStays DEF Ended, NoneEnded, TasksLeft, SpansEnded, EndedOnce, SpanEnded, Tasks
<1>2. CASE call' = Idle
  BY <1>2 DEF Ended, NoneEnded, TasksLeft, SpansEnded, EndedOnce, Idle, MayRefuse
<1> QED BY <1>1, <1>2

LEMMA StepEnded ==
  ASSUME Typed, Ended, [Next]_vars
  PROVE  Ended'
<1>1. CASE UNCHANGED vars
  BY <1>1, EndedStays DEF vars
<1>2. CASE Next
  <2>1. Step /\ UNCHANGED setup
    BY <1>2 DEF Next
  <2>2. CASE \E rows \in Chunks, form \in {"integer", "text"} : Begin(rows, form)
    <3>1. call'.step = "check" /\ call'.closed = {}
      BY <2>2 DEF Begin
    <3> QED BY <3>1 DEF Ended, NoneEnded, TasksLeft, SpansEnded, EndedOnce
  <2>3. CASE Refusal
    <3>1. call' = Idle
      BY <2>3, RefusalIs DEF Refuse
    <3> QED BY <2>1, <3>1, EndedStays
  <2>4. CASE CheckPasses \/ PreparePasses \/ ResolvePasses
    <3>1. call.step \in {"check", "prepare", "resolve"}
      BY <2>4 DEF CheckPasses, PreparePasses, ResolvePasses
    <3>2. call \in CallType
      BY <3>1, UnderWay DEF Typed, Steps
    <3>3. call'.step \in {"prepare", "resolve", "prepass"} /\ call'.closed = call.closed
      <4>1. CASE CheckPasses
        BY <3>2, <4>1 DEF CheckPasses, NextStep, CallType
      <4>2. CASE PreparePasses
        BY <3>2, <4>2 DEF PreparePasses, CallType
      <4>3. CASE ResolvePasses
        BY <3>2, <4>3 DEF ResolvePasses, NextStep, CallType
      <4> QED BY <2>4, <4>1, <4>2, <4>3
    <3>4. call.closed = {}
      BY <3>1 DEF Ended, NoneEnded, MayRefuse
    <3> QED BY <3>3, <3>4 DEF Ended, NoneEnded, TasksLeft, SpansEnded, EndedOnce
  <2>5. CASE PrepassPasses
    <3>1. call.step = "prepass" /\ call' = [call EXCEPT !.step = "learn", !.phase = 1,
                                                        !.todo = Tasks(1), !.left = noticesLeft]
      BY <2>5 DEF PrepassPasses
    <3>2. call \in CallType /\ call.closed = {}
      BY <3>1, UnderWay DEF Typed, Steps, Ended, NoneEnded, MayRefuse
    <3>3. call'.step = "learn" /\ call'.phase = 1 /\ call'.todo = Tasks(1) /\ call'.closed = {}
          /\ call'.rows = call.rows
      BY <3>1, <3>2 DEF CallType
    <3>4. Tasks(1)' = Tasks(1)
      BY <2>1, <3>3, SetupStays DEF Tasks
    <3>5. IsFiniteSet({})
      BY FS_EmptySet
    <3> QED BY <3>3, <3>4, <3>5 DEF Ended, NoneEnded, TasksLeft, SpansEnded, EndedOnce, MayRefuse
  <2>6. CASE Learn \/ LearnPastBudget
    BY <2>1, <2>6, LearningEnded
  <2>7. CASE SecondPhase
    <3>1. call.step = "learn" /\ call.phase = 1
          /\ call' = [call EXCEPT !.phase = 2, !.todo = Tasks(2)]
      BY <2>7 DEF SecondPhase
    <3>2. call \in CallType /\ setup \in Setups
      BY <3>1, UnderWay DEF Typed, Steps
    <3>3. call'.step = "learn" /\ call'.phase = 2 /\ call'.todo = Tasks(2)
          /\ call'.closed = call.closed /\ call'.rows = call.rows
      BY <3>1, <3>2 DEF CallType
    <3>4. Tasks(2)' = Tasks(2)
      BY <2>1, <3>3, SetupStays DEF Tasks
    <3>5. ASSUME NEW r \in call.closed PROVE SpanEnded(r)'
      <4>1. SpanEnded(r) /\ ~Specs[r.spec].compares
        BY <3>1 DEF Ended, SpansEnded, SpanEnded
      <4>2. <<r.spec, r.group>> \notin Tasks(2)
        BY <4>1 DEF Tasks
      <4> QED BY <2>1, <3>3, <4>1, <4>2, SetupStays DEF SpanEnded
    <3>6. EndedOnce'
      BY <3>1, <3>3 DEF Ended, EndedOnce
    <3> QED BY <3>3, <3>4, <3>5, <3>6 DEF Ended, NoneEnded, TasksLeft, SpansEnded, MayRefuse
  <2>8. CASE PhaseRefuses \/ AssemblyFails \/ Return \/ TakeNotices \/ ClosedGroups \/ DropGroups
             \/ Save \/ Restart
    <3>1. call' = call \/ call' = Idle
      BY <2>8 DEF PhaseRefuses, AssemblyFails, Return, TakeNotices, ClosedGroups, DropGroups, Save,
                  Restart
    <3> QED BY <2>1, <3>1, EndedStays
  <2> QED BY <2>1, <2>2, <2>3, <2>4, <2>5, <2>6, <2>7, <2>8 DEF Step, Refusal
<1> QED BY <1>1, <1>2

(* The closed rows of a chunk in a strict order.                           *)
LEMMA LessOrders ==
  ASSUME NEW form \in {"integer", "text"}
  PROVE  /\ \A a \in Keys : ~Less(form, a, a)
         /\ \A a, b \in Keys : a # b => Less(form, a, b) \/ Less(form, b, a)
         /\ \A a, b, c \in Keys : Less(form, a, b) /\ Less(form, b, c) => Less(form, a, c)
<1>1. CASE form = "integer"
  <2>1. Keys \subseteq Nat
    BY ValuesAssumption
  <2> QED BY <1>1, <2>1 DEF Less
<1>2. CASE form = "text"
  <2>1. \A a \in Keys : TextRank[a] \in Nat
    BY ValuesAssumption
  <2>2. \A a, b \in Keys : a # b => TextRank[a] # TextRank[b]
    BY ValuesAssumption
  <2>3. \A a, b : Less(form, a, b) <=> TextRank[a] < TextRank[b]
    BY <1>2 DEF Less
  <2> QED BY <2>1, <2>2, <2>3
<1> QED BY <1>1, <1>2

Earlier(form, a, b) ==
  \/ a.at < b.at
  \/ a.at = b.at /\ a.spec < b.spec
  \/ a.at = b.at /\ a.spec = b.spec /\ Less(form, a.group, b.group)

(* Rows that no two of have the row that closed them, the spec and the     *)
(* group in common are in order.                                           *)
Distinct(C) ==
  \A a, b \in C : a.at = b.at /\ a.spec = b.spec /\ a.group = b.group => a = b
EarlierIn(C, form) == {p \in C \X C : Earlier(form, p[1], p[2])}

LEMMA EarlierOrders ==
  ASSUME setup \in Setups, NEW form \in {"integer", "text"}, NEW C, C \subseteq ClosedAt, Distinct(C)
  PROVE  IsOrder(C, EarlierIn(C, form))
<1> DEFINE R == EarlierIn(C, form)
<1>1. \A a, b \in C : <<a, b>> \in R <=> Earlier(form, a, b)
  BY DEF EarlierIn
<1>2. \A a \in C : a.at \in Nat /\ a.spec \in Nat /\ a.group \in Keys
  <2>1. SpecIds \subseteq Nat
    BY SetupTyped
  <2> QED BY <2>1 DEF ClosedAt
<1> HIDE DEF R
<1>3. ASSUME NEW a \in C PROVE ~Earlier(form, a, a)
  BY <1>2, LessOrders DEF Earlier
<1>4. ASSUME NEW a \in C, NEW b \in C, a # b
      PROVE  Earlier(form, a, b) \/ Earlier(form, b, a)
  <2>1. ~(a.at = b.at /\ a.spec = b.spec /\ a.group = b.group)
    BY <1>4 DEF Distinct
  <2>2. a.group # b.group => Less(form, a.group, b.group) \/ Less(form, b.group, a.group)
    BY <1>2, LessOrders
  <2> QED BY <1>2, <2>1, <2>2 DEF Earlier
<1>5. ASSUME NEW a \in C, NEW b \in C, NEW c \in C, Earlier(form, a, b), Earlier(form, b, c)
      PROVE  Earlier(form, a, c)
  <2>1. Less(form, a.group, b.group) /\ Less(form, b.group, c.group) => Less(form, a.group, c.group)
    BY <1>2, LessOrders
  <2> QED BY <1>2, <1>5, <2>1 DEF Earlier
<1> QED BY <1>1, <1>3, <1>4, <1>5 DEF IsOrder, R

(* The queue lists the rows by that order.                                 *)
LEMMA QueuedTyped ==
  ASSUME setup \in Setups, call.form \in {"integer", "text"}, NEW C, C \subseteq ClosedAt,
         IsFiniteSet(C), Distinct(C)
  PROVE  Queued(C) \in Seq(ClosedType)
<1> DEFINE R == EarlierIn(C, call.form)
           nth(n) == CHOOSE x \in C : Rank(C, R, x) = n - 1
           with(n) == CHOOSE x \in C : Cardinality({y \in C : Earlier(call.form, y, x)}) = n - 1
           q == [n \in 1..Cardinality(C) |-> nth(n)]
<1>1. \A x \in C : {y \in C : Earlier(call.form, y, x)} = {y \in C : <<y, x>> \in R}
  BY DEF EarlierIn
<1>2. \A x \in C : Cardinality({y \in C : Earlier(call.form, y, x)}) = Rank(C, R, x)
  BY <1>1 DEF Rank
<1>3. \A n : with(n) = nth(n)
  <2> HIDE DEF R
  <2> QED BY <1>2
<1>4. Queued(C) = [n \in DOMAIN q |-> [spec |-> q[n].spec, group |-> q[n].group,
                                       session |-> q[n].session, rows |-> q[n].rows]]
  <2>1. q = [n \in 1..Cardinality(C) |-> with(n)]
    <3> HIDE DEF R, with, nth
    <3> QED BY <1>3
  <2> HIDE DEF q
  <2> QED BY <2>1 DEF Queued, Sorted, Earlier
<1>5. q \in [1..Cardinality(C) -> C] /\ Cardinality(C) \in Nat
  <2>1. IsOrder(C, R)
    BY EarlierOrders
  <2>2. InRank(q, C, R)
    BY DEF InRank
  <2> HIDE DEF R, q
  <2> QED BY <2>1, <2>2, RankSorts, FS_CardinalityType
<1> HIDE DEF q, R
<1>6. ASSUME NEW n \in 1..Cardinality(C)
      PROVE  [spec |-> q[n].spec, group |-> q[n].group, session |-> q[n].session, rows |-> q[n].rows]
             \in ClosedType
  <2>1. q[n] \in ClosedAt
    BY <1>5
  <2> QED BY <2>1 DEF ClosedAt, ClosedType
<1>7. Queued(C) = [n \in 1..Cardinality(C) |->
                     [spec |-> q[n].spec, group |-> q[n].group, session |-> q[n].session,
                      rows |-> q[n].rows]]
  BY <1>4, <1>5
<1>8. Queued(C) \in [1..Cardinality(C) -> ClosedType]
  BY <1>6, <1>7
<1> QED BY <1>5, <1>8

(* The rows the monotone groups close with, one per group that is past.    *)
LEMMA GroupsClosedAre ==
  ASSUME Typed, call.step = "learn", NEW i \in SpecIds
  PROVE  /\ IsFiniteSet(GroupsClosed(i)) /\ GroupsClosed(i) \subseteq ClosedAt
         /\ \A r \in GroupsClosed(i) : r.spec = i /\ Specs[i].close = "monotone"
         /\ \A r, q \in GroupsClosed(i) : r.group = q.group => r = q
<1> DEFINE at(k) == CHOOSE n \in DOMAIN call.rows :
                      /\ Less(call.form, k, call.rows[n].g)
                      /\ \A m \in 1..(n - 1) : ~Less(call.form, k, call.rows[m].g)
           ClosedRow(k) == [spec |-> i, group |-> k, session |-> None, rows |-> states[i][k].rows,
                      at |-> at(k)]
           S == {ClosedRow(k) : k \in Finished(i)}
<1>1. setup \in Setups /\ call.rows \in Chunks /\ states[i] \in Streams
  BY UnderWay DEF Typed, Steps, Fits, StatesTyped
<1>2. GroupsClosed(i) = S
  BY DEF GroupsClosed
<1>3. Finished(i) \subseteq DOMAIN states[i]
      /\ (Finished(i) # {} => Specs[i].close = "monotone" /\ call.rows # <<>>)
      /\ \A k \in Finished(i) : Less(call.form, k, Largest)
  BY DEF Finished
<1>4. IsFiniteSet(Finished(i))
  <2>1. IsFiniteSet(DOMAIN states[i])
    BY <1>1, StreamsAre
  <2> QED BY <1>3, <2>1, FS_Subset
<1>5. IsFiniteSet(S)
  <2> DEFINE f == [k \in Finished(i) |-> ClosedRow(k)]
  <2>1. f \in Surjection(Finished(i), S)
    <3> HIDE DEF ClosedRow
    <3> QED BY DEF Surjection
  <2> HIDE DEF f, S
  <2> QED BY <1>4, <2>1, FS_Surjection
<1>6. ASSUME NEW k \in Finished(i) PROVE at(k) \in Nat
  <2>1. DOMAIN call.rows = 1..Len(call.rows) /\ Len(call.rows) \in Nat
    BY <1>1, RowsTyped
  <2>2. Largest \in GroupsIn(call.rows) /\ Less(call.form, k, Largest)
    BY <1>1, <1>3, LargestIs
  <2> DEFINE T == {n \in DOMAIN call.rows : Less(call.form, k, call.rows[n].g)}
  <2>3. T \subseteq Nat /\ T # {}
    BY <2>1, <2>2 DEF GroupsIn
  <2>4. PICK n \in T : \A m \in T : n <= m
    <3> HIDE DEF T
    <3> QED BY <2>3, Least
  <2>5. n \in DOMAIN call.rows /\ Less(call.form, k, call.rows[n].g)
    BY <2>4
  <2>6. ASSUME NEW m \in 1..(n - 1) PROVE ~Less(call.form, k, call.rows[m].g)
    <3>1. m \in DOMAIN call.rows /\ ~(n <= m)
      BY <2>1, <2>5
    <3> QED BY <2>4, <3>1
  <2>7. at(k) \in DOMAIN call.rows
    BY <2>5, <2>6
  <2> HIDE DEF at
  <2> QED BY <2>1, <2>7
<1>7. ASSUME NEW k \in Finished(i) PROVE ClosedRow(k) \in ClosedAt
  <2>1. k \in Keys /\ states[i][k] \in Stream
    BY <1>1, <1>3, StreamsAre
  <2>2. states[i][k].rows \in Seq(1..MaxFed)
    BY <2>1 DEF Stream
  <2> HIDE DEF at
  <2> QED BY <1>6, <2>1, <2>2 DEF ClosedAt
<1> HIDE DEF at
<1>8. S \subseteq ClosedAt
  BY <1>7
<1>9. \A r \in S : r.spec = i /\ Specs[i].close = "monotone"
  BY <1>3
<1>10. \A r, q \in S : r.group = q.group => r = q
  OBVIOUS
<1> HIDE DEF S
<1> QED BY <1>2, <1>5, <1>8, <1>9, <1>10

(* What a call that returns has to queue.                                  *)
ToQueue == call.closed \cup UNION {GroupsClosed(i) : i \in SpecIds}

LEMMA ToQueueIs ==
  ASSUME Typed, Ended, call.step = "learn"
  PROVE  IsFiniteSet(ToQueue) /\ ToQueue \subseteq ClosedAt /\ Distinct(ToQueue)
<1> DEFINE groups == {GroupsClosed(i) : i \in SpecIds}
<1>1. setup \in Setups /\ call \in CallType
  BY UnderWay DEF Typed, Steps
<1>2. /\ IsFiniteSet(call.closed)
      /\ \A r \in call.closed : SpanEnded(r)
      /\ \A r, q \in call.closed : r.spec = q.spec /\ r.at = q.at => r = q
  BY DEF Ended, SpansEnded, EndedOnce
<1>3. call.closed \subseteq ClosedAt
  BY <1>1 DEF CallType
<1>4. IsFiniteSet(UNION groups)
  <2>1. IsFiniteSet(SpecIds)
    <3>1. Len(Specs) \in Nat /\ SpecIds = 1..Len(Specs)
      BY <1>1, SetupTyped
    <3>2. IsFiniteSet(1..Len(Specs))
      BY <3>1, FS_Interval
    <3> QED BY <3>1, <3>2
  <2> DEFINE f == [i \in SpecIds |-> GroupsClosed(i)]
  <2>2. f \in Surjection(SpecIds, groups)
    BY DEF Surjection
  <2> HIDE DEF f, groups
  <2>3. IsFiniteSet(groups)
    BY <2>1, <2>2, FS_Surjection
  <2>4. \A T \in groups : IsFiniteSet(T)
    BY GroupsClosedAre DEF groups
  <2> QED BY <2>3, <2>4, FS_UNION
<1>5. \A r \in UNION groups : \E i \in SpecIds : r \in GroupsClosed(i)
  OBVIOUS
<1> HIDE DEF groups
<1>6. \A r \in UNION groups : r \in ClosedAt /\ Specs[r.spec].close = "monotone"
  BY <1>5, GroupsClosedAre
<1>7. \A r, q \in UNION groups : r.spec = q.spec /\ r.group = q.group => r = q
  BY <1>5, GroupsClosedAre
<1>8. \A r \in call.closed : Specs[r.spec].close = "session"
  BY <1>2 DEF SpanEnded
<1>9. ToQueue = call.closed \cup UNION groups
  BY DEF ToQueue, groups
<1>10. IsFiniteSet(ToQueue)
  <2>1. IsFiniteSet(call.closed \cup UNION groups)
    BY <1>2, <1>4, FS_Union
  <2> QED BY <1>9, <2>1
<1>11. ToQueue \subseteq ClosedAt
  BY <1>3, <1>6, <1>9
<1>12. ASSUME NEW r \in ToQueue, NEW q \in ToQueue, r.at = q.at, r.spec = q.spec, r.group = q.group
       PROVE  r = q
  <2>1. CASE r \in call.closed /\ q \in call.closed
    BY <1>2, <1>12, <2>1
  <2>2. CASE r \in UNION groups /\ q \in UNION groups
    BY <1>7, <1>12, <2>2
  <2>3. ~(r \in call.closed /\ q \in UNION groups) /\ ~(q \in call.closed /\ r \in UNION groups)
    BY <1>6, <1>8, <1>12
  <2> QED BY <1>9, <2>1, <2>2, <2>3
<1> QED BY <1>10, <1>11, <1>12 DEF Distinct

(* The closed rows left of a queue, and handed out of it.                  *)
LEMMA ClosedOfTyped ==
  ASSUME closed \in Seq(ClosedType), NEW S
  PROVE  ClosedOf(S) \in Seq(ClosedType)
<1> DEFINE W == {n \in DOMAIN closed : closed[n].spec \in S}
           at == Ascending(W)
<1>1. Len(closed) \in Nat /\ DOMAIN closed = 1..Len(closed)
      /\ \A n \in 1..Len(closed) : closed[n] \in ClosedType
  BY LenProperties
<1>2. IsFiniteSet(W)
  <2>1. IsFiniteSet(1..Len(closed))
    BY <1>1, FS_Interval
  <2>2. W \subseteq 1..Len(closed)
    BY <1>1
  <2> QED BY <2>1, <2>2, FS_Subset
<1>3. W \subseteq Nat /\ W \subseteq 1..Len(closed)
  BY <1>1
<1>4. ClosedOf(S) = [n \in DOMAIN at |-> closed[at[n]]]
  BY DEF ClosedOf
<1> HIDE DEF W
<1>5. at \in Seq(W) /\ Len(at) \in Nat /\ DOMAIN at = 1..Len(at)
      /\ \A n \in 1..Len(at) : at[n] \in W
  <2>1. at \in Seq(W)
    BY <1>2, <1>3, AscendingSorts
  <2> HIDE DEF at
  <2> QED BY <2>1, LenProperties
<1> HIDE DEF at
<1>6. ClosedOf(S) = [n \in 1..Len(at) |-> closed[at[n]]]
  BY <1>4, <1>5
<1>7. \A n \in 1..Len(at) : closed[at[n]] \in ClosedType
  BY <1>1, <1>3, <1>5
<1> QED BY <1>5, <1>6, <1>7

ClosedTyped ==
  /\ closed \in Seq(ClosedType) /\ drained \in Seq(ClosedType)
  /\ file.bank.closed \in Seq(ClosedType) /\ file.drained \in Seq(ClosedType)

LEMMA StepClosedTyped ==
  ASSUME Typed, Ended, ClosedTyped, [Next]_vars
  PROVE  ClosedTyped'
<1>0. setup' = setup => ClosedType' = ClosedType
  BY SetupStays DEF ClosedType
<1>1. CASE UNCHANGED vars
  BY <1>0, <1>1 DEF vars, kept, history, ClosedTyped
<1>2. CASE Next
  <2>1. Step /\ UNCHANGED setup
    BY <1>2 DEF Next
  <2>2. CASE closed' = closed /\ drained' = drained /\ file' = file
    BY <1>0, <2>1, <2>2 DEF ClosedTyped
  <2>3. CASE \/ \E rows \in Chunks, form \in {"integer", "text"} : Begin(rows, form)
             \/ CheckPasses \/ PreparePasses \/ ResolvePasses \/ PrepassPasses
             \/ PhaseRefuses \/ SecondPhase \/ AssemblyFails
    BY <2>2, <2>3 DEF Begin, CheckPasses, NextStep, PreparePasses, ResolvePasses, PrepassPasses,
                      PhaseRefuses, SecondPhase, AssemblyFails, kept, history
  <2>4. CASE Refusal
    BY <2>2, <2>4, RefusalIs DEF Refuse
  <2>5. CASE Learn \/ LearnPastBudget
    <3>1. PICK i \in SpecIds, k \in GroupsIn(call.rows), own \in Seq(1..Len(call.rows)),
               over \in BOOLEAN : StreamTakes(i, k, own, over)
      BY <2>5, LearningIs
    <3> QED BY <2>2, <3>1 DEF StreamTakes
  <2>6. CASE Return
    <3>1. /\ call.step = "learn" /\ drained' = drained /\ file' = file
          /\ closed' = closed \o Queued(ToQueue)
      BY <2>6 DEF Return, ToQueue
    <3>2. Queued(ToQueue) \in Seq(ClosedType)
      <4>1. setup \in Setups /\ call.form \in {"integer", "text"}
        BY <3>1, UnderWay DEF Typed, Steps, CallType
      <4> QED BY <3>1, <4>1, ToQueueIs, QueuedTyped
    <3>3. closed \o Queued(ToQueue) \in Seq(ClosedType)
      BY <3>2, ConcatProperties DEF ClosedTyped
    <3> QED BY <1>0, <2>1, <3>1, <3>3 DEF ClosedTyped
  <2>7. CASE ClosedGroups
    <3>1. PICK S \in SpecChoices :
            closed' = ClosedOf(SpecIds \ S) /\ drained' = drained \o ClosedOf(S) /\ file' = file
      BY <2>7 DEF ClosedGroups
    <3>2. ClosedOf(SpecIds \ S) \in Seq(ClosedType) /\ ClosedOf(S) \in Seq(ClosedType)
      BY ClosedOfTyped DEF ClosedTyped
    <3>3. drained \o ClosedOf(S) \in Seq(ClosedType)
      BY <3>2, ConcatProperties DEF ClosedTyped
    <3> QED BY <1>0, <2>1, <3>1, <3>2, <3>3 DEF ClosedTyped
  <2>8. CASE TakeNotices \/ DropGroups
    BY <2>2, <2>8 DEF TakeNotices, DropGroups, kept, history
  <2>9. CASE Save
    <3>1. file'.bank.closed = closed /\ file'.drained = drained /\ closed' = closed /\ drained' = drained
      BY <2>9, SaveIs DEF Save, kept, history
    <3> QED BY <1>0, <2>1, <3>1 DEF ClosedTyped
  <2>10. CASE Restart
    BY <1>0, <2>1, <2>10 DEF Restart, ClosedTyped
  <2> QED BY <2>1, <2>3, <2>4, <2>5, <2>6, <2>7, <2>8, <2>9, <2>10 DEF Step, Refusal
<1> QED BY <1>1, <1>2

(* The types a run checks are the ones kept.                               *)
LEMMA TypesAre ==
  ASSUME Typed, CoresApart, ClosedTyped
  PROVE  TypeOK
<1>1. Stream \subseteq StreamType
  <2>1. Notice \subseteq [spec : SpecIds, group : Keys, row : Nat, span : Sessions \cup {None}]
    BY SetupTyped DEF Typed, Notice
  <2>2. Seq(Notice) \subseteq
          Seq([spec : SpecIds, group : Keys, row : Nat, span : Sessions \cup {None}])
    BY <2>1, SeqMonotonic
  <2> HIDE DEF Notice
  <2> QED BY <2>2 DEF Stream, StreamType
<1>2. ASSUME NEW i \in SpecIds
      PROVE  DOMAIN states[i] \subseteq Keys /\ Range(states[i]) \subseteq StreamType
  <2>1. states[i] \in Streams
    BY DEF Typed, StatesTyped
  <2>2. DOMAIN states[i] \subseteq Keys /\ \A k \in DOMAIN states[i] : states[i][k] \in StreamType
    BY <1>1, <2>1, StreamsAre
  <2> QED BY <2>2 DEF Range
<1>3. ASSUME NEW i \in Formulas
      PROVE  /\ DOMAIN resolvers[i].runs \cap DOMAIN resolvers[i].saved = {}
             /\ Range(resolvers[i].runs) \cup Range(resolvers[i].saved) \subseteq Seq(1..MaxFed)
  <2>1. /\ \A k \in DOMAIN resolvers[i].runs : resolvers[i].runs[k] \in Seq(1..MaxFed)
        /\ \A k \in DOMAIN resolvers[i].saved : resolvers[i].saved[k] \in Seq(1..MaxFed)
    BY CoreIs DEF Typed, CoresTyped
  <2> QED BY <2>1 DEF CoresApart, Apart, Range
<1>4. call.step \in {"idle", "check", "prepare", "resolve", "prepass", "learn"}
  BY DEF Typed, CallTyped, CallType, Steps, Idle
<1> QED BY <1>2, <1>3, <1>4
        DEF TypeOK, Typed, RefitsTyped, MarksTyped, ClosedTyped, Reservations, Flags

(* A bank's types, for any rows and calls. Beside those of TypesKept: a    *)
(* group's window core never both runs and waits to be resumed, so that a  *)
(* file holds one of each; and the closed rows are of the bank's groups and*)
(* rows, queued in an order no two of them tie in, which needs that a row  *)
(* ends one span of a stream at most and that a task runs once a phase     *)
(* (prepare and its resume, closed_rows, closed_groups, save and load).    *)
THEOREM TypesHold == Spec => []TypeOK
<1>1. Init => CoresApart /\ Ended /\ ClosedTyped
  <2>1. <<>> \in Seq(ClosedType)
    BY EmptySeq
  <2>2. Init => ClosedTyped
    <3> SUFFICES ASSUME Init PROVE ClosedTyped
      OBVIOUS
    <3>1. closed = <<>> /\ drained = <<>> /\ file.bank.closed = closed /\ file.drained = <<>>
      BY DEF Init, Standing
    <3> QED BY <2>1, <3>1 DEF ClosedTyped
  <2>3. Init => CoresApart
    <3> SUFFICES ASSUME Init PROVE CoresApart
      OBVIOUS
    <3>1. \A i \in Formulas : resolvers[i] = [runs |-> <<>>, saved |-> <<>>]
      BY DEF Init
    <3>2. file.bank.resolvers = resolvers /\ call.step = "idle"
      BY DEF Init, Standing, Idle
    <3> QED BY <3>1, <3>2 DEF CoresApart, CopyApart, Apart
  <2>4. Init => Ended
    BY DEF Init, Idle, Ended, NoneEnded, TasksLeft, SpansEnded, EndedOnce, MayRefuse
  <2> QED BY <2>2, <2>3, <2>4
<1>2. Typed /\ CoresApart /\ Ended /\ ClosedTyped /\ [Next]_vars
      => CoresApart' /\ Ended' /\ ClosedTyped'
  BY StepApart, StepEnded, StepClosedTyped
<1>3. Typed /\ CoresApart /\ ClosedTyped => TypeOK
  BY TypesAre
<1> QED BY <1>1, <1>2, <1>3, TypesKept, PTL DEF Spec

-----------------------------------------------------------------------------
(* Counting notices                                                        *)

(* How often n is in a sequence, and in a bag.                             *)
Occurs(n, q) == Cardinality({m \in DOMAIN q : q[m] = n})
Has(B, n) == IF n \in DOMAIN B THEN B[n] ELSE 0
IsBagOf(B, S) == DOMAIN B \subseteq S /\ B \in [DOMAIN B -> Nat \ {0}]

LEMMA OccursFinite ==
  ASSUME NEW S, NEW q \in Seq(S), NEW n
  PROVE  IsFiniteSet({m \in DOMAIN q : q[m] = n}) /\ Occurs(n, q) \in Nat
<1> DEFINE A == {m \in DOMAIN q : q[m] = n}
<1>1. IsFiniteSet(DOMAIN q)
  <2>1. DOMAIN q = 1..Len(q) /\ Len(q) \in Nat
    BY LenProperties
  <2>2. IsFiniteSet(1..Len(q))
    BY <2>1, FS_Interval
  <2> QED BY <2>1, <2>2
<1>2. IsFiniteSet(A)
  <2>1. A \subseteq DOMAIN q
    OBVIOUS
  <2> HIDE DEF A
  <2> QED BY <1>1, <2>1, FS_Subset
<1> HIDE DEF A
<1> QED BY <1>2, FS_CardinalityType DEF Occurs, A

LEMMA OccursNever ==
  ASSUME NEW q, NEW n, \A m \in DOMAIN q : q[m] # n
  PROVE  Occurs(n, q) = 0
<1>1. {m \in DOMAIN q : q[m] = n} = {}
  OBVIOUS
<1> QED BY <1>1, FS_EmptySet DEF Occurs

LEMMA OccursIn ==
  ASSUME NEW S, NEW q \in Seq(S), NEW n
  PROVE  Occurs(n, q) > 0 <=> \E m \in DOMAIN q : q[m] = n
<1> DEFINE A == {m \in DOMAIN q : q[m] = n}
<1>1. IsFiniteSet(A) /\ Occurs(n, q) = Cardinality(A) /\ Occurs(n, q) \in Nat
  BY OccursFinite DEF Occurs
<1>2. Cardinality(A) = 0 <=> A = {}
  <2> HIDE DEF A
  <2> QED BY <1>1, FS_EmptySet
<1>3. A # {} <=> \E m \in DOMAIN q : q[m] = n
  OBVIOUS
<1> HIDE DEF A
<1> QED BY <1>1, <1>2, <1>3

LEMMA SeqMade ==
  ASSUME NEW S, NEW n \in Nat, NEW q \in [1..n -> S]
  PROVE  q \in Seq(S) /\ Len(q) = n /\ DOMAIN q = 1..n
OBVIOUS

LEMMA ConcatIs ==
  ASSUME NEW S, NEW p \in Seq(S), NEW q \in Seq(S)
  PROVE  /\ DOMAIN p = 1..Len(p) /\ Len(p) \in Nat /\ DOMAIN q = 1..Len(q) /\ Len(q) \in Nat
         /\ p \o q \in Seq(S) /\ Len(p \o q) = Len(p) + Len(q)
         /\ DOMAIN (p \o q) = 1..(Len(p) + Len(q))
         /\ \A n \in 1..(Len(p) + Len(q)) : (p \o q)[n] = IF n <= Len(p) THEN p[n] ELSE q[n - Len(p)]
<1>1. p \o q \in Seq(S) /\ Len(p \o q) = Len(p) + Len(q)
  BY ConcatProperties
<1>2. DOMAIN (p \o q) = 1..Len(p \o q)
  BY <1>1, LenProperties
<1> QED BY <1>1, <1>2, LenProperties, ConcatProperties

LEMMA OccursConcat ==
  ASSUME NEW S, NEW p \in Seq(S), NEW q \in Seq(S), NEW n
  PROVE  Occurs(n, p \o q) = Occurs(n, p) + Occurs(n, q)
<1> DEFINE At(s) == {m \in DOMAIN s : s[m] = n}
           moved == {Len(p) + m : m \in At(q)}
<1>1. /\ DOMAIN p = 1..Len(p) /\ Len(p) \in Nat /\ DOMAIN q = 1..Len(q) /\ Len(q) \in Nat
      /\ DOMAIN (p \o q) = 1..(Len(p) + Len(q))
      /\ \A m \in 1..(Len(p) + Len(q)) : (p \o q)[m] = IF m <= Len(p) THEN p[m] ELSE q[m - Len(p)]
  BY ConcatIs
<1>2. IsFiniteSet(At(p)) /\ IsFiniteSet(At(q))
  BY OccursFinite
<1>3. At(q) \subseteq Nat /\ At(p) \subseteq 1..Len(p)
  BY <1>1
<1>4. IsFiniteSet(moved) /\ Cardinality(moved) = Cardinality(At(q))
  <2> HIDE DEF At
  <2> QED BY <1>1, <1>2, <1>3, Shifted
<1>5. At(p \o q) = At(p) \cup moved
  <2>1. ASSUME NEW m \in At(p \o q) PROVE m \in At(p) \cup moved
    <3>1. m \in 1..(Len(p) + Len(q))
      BY <1>1
    <3>2. CASE m <= Len(p)
      BY <1>1, <2>1, <3>1, <3>2
    <3>3. CASE ~(m <= Len(p))
      <4>1. m - Len(p) \in 1..Len(q) /\ m = Len(p) + (m - Len(p))
        BY <1>1, <3>1, <3>3
      <4>2. m - Len(p) \in At(q)
        BY <1>1, <2>1, <3>1, <3>3, <4>1
      <4> HIDE DEF At
      <4> QED BY <4>1, <4>2
    <3> QED BY <3>2, <3>3
  <2>2. ASSUME NEW m \in At(p) PROVE m \in At(p \o q)
    <3>1. m \in 1..Len(p) /\ m \in 1..(Len(p) + Len(q)) /\ m <= Len(p)
      BY <1>1
    <3> QED BY <1>1, <3>1
  <2>3. ASSUME NEW m \in At(q) PROVE Len(p) + m \in At(p \o q)
    <3>1. m \in 1..Len(q)
      BY <1>1
    <3>2. Len(p) + m \in 1..(Len(p) + Len(q)) /\ ~(Len(p) + m <= Len(p)) /\ (Len(p) + m) - Len(p) = m
      BY <1>1, <3>1
    <3>3. (p \o q)[Len(p) + m] = q[m]
      BY <1>1, <3>2
    <3> QED BY <1>1, <3>2, <3>3
  <2> HIDE DEF At
  <2> QED BY <2>1, <2>2, <2>3
<1>6. At(p) \cap moved = {}
  <2>1. ASSUME NEW m \in At(q) PROVE Len(p) + m \notin At(p)
    <3>1. m \in 1..Len(q)
      BY <1>1
    <3> QED BY <1>1, <3>1
  <2> HIDE DEF At
  <2> QED BY <2>1
<1>7. Cardinality(At(p) \cup moved) = Cardinality(At(p)) + Cardinality(moved)
  <2> HIDE DEF At, moved
  <2>1. Cardinality(At(p) \cap moved) = 0
    BY <1>6, FS_EmptySet
  <2>2. Cardinality(At(p)) \in Nat /\ Cardinality(moved) \in Nat
    BY <1>2, <1>4, FS_CardinalityType
  <2>3. Cardinality(At(p) \cup moved)
        = Cardinality(At(p)) + Cardinality(moved) - Cardinality(At(p) \cap moved)
    BY <1>2, <1>4, FS_Union
  <2>4. \A a, b \in Nat : a + b - 0 = a + b
    OBVIOUS
  <2> QED BY <2>1, <2>2, <2>3, <2>4
<1> HIDE DEF moved
<1> QED BY <1>4, <1>5, <1>7 DEF Occurs

(* Of sequences that only one has n, all together have it as often.        *)
LEMMA OccursFlatten ==
  ASSUME NEW S, NEW n \in Nat, NEW seqs \in [1..n -> Seq(S)], NEW x, NEW i \in Nat,
         \A j \in 1..n : j # i => Occurs(x, seqs[j]) = 0
  PROVE  Occurs(x, FlattenSeq(seqs)) = IF i \in 1..n THEN Occurs(x, seqs[i]) ELSE 0
<1>1. PICK f \in [1..n -> Seq(S)] :
        Flattens(f, seqs, n) /\ FlattenSeq(seqs) = IF n = 0 THEN <<>> ELSE f[n]
  BY FlattenIs
<1>2. CASE n = 0
  <2>1. FlattenSeq(seqs) = <<>> /\ i \notin 1..n
    BY <1>1, <1>2
  <2> QED BY <2>1, OccursNever
<1>3. CASE n # 0
  <2> DEFINE T == {m \in Nat : m \in 1..n =>
                     Occurs(x, f[m]) = IF i \in 1..m THEN Occurs(x, seqs[i]) ELSE 0}
  <2>1. 0 \in T
    OBVIOUS
  <2>2. ASSUME NEW m \in T PROVE m + 1 \in T
    <3> SUFFICES ASSUME m + 1 \in 1..n
                 PROVE  Occurs(x, f[m + 1]) = IF i \in 1..(m + 1) THEN Occurs(x, seqs[i]) ELSE 0
      OBVIOUS
    <3>0. m \in Nat /\ seqs[m + 1] \in Seq(S) /\ Occurs(x, seqs[m + 1]) \in Nat
      BY OccursFinite
    <3>1. f[m + 1] = IF m + 1 = 1 THEN seqs[m + 1] ELSE f[(m + 1) - 1] \o seqs[m + 1]
      BY <1>1 DEF Flattens
    <3>2. i # m + 1 => Occurs(x, seqs[m + 1]) = 0
      OBVIOUS
    <3>3. CASE m = 0
      <4>1. f[m + 1] = seqs[m + 1] /\ (i \in 1..(m + 1) <=> i = m + 1)
        BY <3>1, <3>3
      <4> QED BY <3>2, <4>1
    <3>4. CASE m # 0
      <4>0. m \in 1..n /\ m + 1 # 1 /\ (m + 1) - 1 = m
        BY <3>0, <3>4
      <4>1. m \in 1..n /\ f[m + 1] = f[m] \o seqs[m + 1]
        BY <3>1, <4>0
      <4>2. f[m] \in Seq(S) /\ Occurs(x, f[m]) = IF i \in 1..m THEN Occurs(x, seqs[i]) ELSE 0
        BY <2>2, <4>1
      <4>3. Occurs(x, f[m + 1]) = Occurs(x, f[m]) + Occurs(x, seqs[m + 1])
        BY <3>0, <4>1, <4>2, OccursConcat
      <4>4. Occurs(x, f[m]) \in Nat
        BY <4>2, OccursFinite
      <4>5. CASE i = m + 1
        <5>1. i \notin 1..m /\ i \in 1..(m + 1)
          BY <4>5
        <5> QED BY <3>0, <4>2, <4>3, <4>5, <5>1
      <4>6. CASE i # m + 1
        <5>1. i \in 1..(m + 1) <=> i \in 1..m
          BY <3>0, <4>6
        <5>2. Occurs(x, f[m + 1]) = Occurs(x, f[m])
          BY <3>2, <4>3, <4>4, <4>6
        <5> QED BY <4>2, <5>1, <5>2
      <4> QED BY <4>5, <4>6
    <3> QED BY <3>3, <3>4
  <2>3. T \subseteq Nat
    OBVIOUS
  <2> HIDE DEF T
  <2>4. n \in T
    BY <2>1, <2>2, <2>3, Induct
  <2>5. n \in 1..n
    BY <1>3
  <2> QED BY <1>1, <1>3, <2>4, <2>5 DEF T
<1> QED BY <1>2, <1>3

(* A bag of a sequence's members has each as often as the sequence.        *)
LEMMA BagOfIs ==
  ASSUME NEW S, NEW q \in Seq(S)
  PROVE  IsBagOf(BagOf(q), S) /\ \A n : Has(BagOf(q), n) = Occurs(n, q)
<1>1. DOMAIN q = 1..Len(q) /\ \A m \in DOMAIN q : q[m] \in S
  BY LenProperties
<1>2. BagOf(q) = [n \in Range(q) |-> Occurs(n, q)]
  BY DEF BagOf, Occurs
<1>3. Range(q) \subseteq S /\ \A n : n \in Range(q) <=> \E m \in DOMAIN q : q[m] = n
  BY <1>1 DEF Range
<1>4. \A n : Occurs(n, q) \in Nat /\ (Occurs(n, q) > 0 <=> n \in Range(q))
  BY <1>3, OccursFinite, OccursIn
<1> QED BY <1>2, <1>3, <1>4 DEF IsBagOf, Has

LEMMA BagsAdd ==
  ASSUME NEW S, NEW A, NEW B, IsBagOf(A, S), IsBagOf(B, S)
  PROVE  IsBagOf(A (+) B, S) /\ \A n : Has(A (+) B, n) = Has(A, n) + Has(B, n)
<1> DEFINE C == A (+) B
<1>1. C = [n \in DOMAIN A \cup DOMAIN B |-> Has(A, n) + Has(B, n)]
  BY DEF (+), Has
<1>2. \A n : /\ Has(A, n) \in Nat /\ Has(B, n) \in Nat
             /\ (n \in DOMAIN A <=> Has(A, n) # 0) /\ (n \in DOMAIN B <=> Has(B, n) # 0)
  BY DEF IsBagOf, Has
<1>3. DOMAIN A \cup DOMAIN B \subseteq S
  BY DEF IsBagOf
<1> HIDE DEF C
<1>4. IsBagOf(C, S)
  BY <1>1, <1>2, <1>3 DEF IsBagOf
<1>5. ASSUME NEW n PROVE Has(C, n) = Has(A, n) + Has(B, n)
  <2>1. CASE n \in DOMAIN A \cup DOMAIN B
    BY <1>1, <2>1 DEF Has
  <2>2. CASE n \notin DOMAIN A \cup DOMAIN B
    <3>1. Has(A, n) = 0 /\ Has(B, n) = 0
      BY <2>2 DEF Has
    <3>2. Has(C, n) = 0
      BY <1>1, <2>2 DEF Has
    <3> QED BY <3>1, <3>2
  <2> QED BY <2>1, <2>2
<1> QED BY <1>4, <1>5 DEF C

LEMMA BagsLess ==
  ASSUME NEW S, NEW R, NEW A, NEW B, IsBagOf(A, S), IsBagOf(B, R)
  PROVE  /\ IsBagOf(A (-) B, S)
         /\ \A n : Has(B, n) <= Has(A, n) => Has(A (-) B, n) = Has(A, n) - Has(B, n)
<1> DEFINE D == [n \in DOMAIN A |-> A[n] - Has(B, n)]
           C == [n \in {d \in DOMAIN D : D[d] > 0} |-> D[n]]
<1>2. \A n : /\ Has(A, n) \in Nat /\ Has(B, n) \in Nat
             /\ (n \in DOMAIN A <=> Has(A, n) # 0) /\ (n \in DOMAIN A => Has(A, n) = A[n])
  BY DEF IsBagOf, Has
<1>1. A (-) B = C
  <2> DEFINE less(n) == IF n \in DOMAIN B THEN A[n] - B[n] ELSE A[n]
  <2>1. \A n \in DOMAIN A : less(n) = A[n] - Has(B, n)
    BY <1>2 DEF Has
  <2>2. D = [n \in DOMAIN A |-> less(n)]
    <3> HIDE DEF less
    <3> QED BY <2>1
  <2>3. A (-) B = LET E == [n \in DOMAIN A |-> less(n)] IN [n \in {d \in DOMAIN E : E[d] > 0} |-> E[n]]
    BY DEF (-)
  <2> HIDE DEF D, less
  <2> QED BY <2>2, <2>3
<1>3. DOMAIN C = {n \in DOMAIN A : A[n] - Has(B, n) > 0}
      /\ \A n \in DOMAIN C : C[n] = A[n] - Has(B, n)
  OBVIOUS
<1>4. C = [n \in DOMAIN C |-> C[n]]
  OBVIOUS
<1> HIDE DEF C, D
<1>5. IsBagOf(C, S)
  <2>1. DOMAIN C \subseteq S
    BY <1>3 DEF IsBagOf
  <2>2. \A n \in DOMAIN C : C[n] \in Nat \ {0}
    BY <1>2, <1>3
  <2> QED BY <1>4, <2>1, <2>2 DEF IsBagOf
<1>6. ASSUME NEW n, Has(B, n) <= Has(A, n) PROVE Has(C, n) = Has(A, n) - Has(B, n)
  <2>1. CASE n \in DOMAIN C
    BY <1>2, <1>3, <2>1 DEF Has
  <2>2. CASE n \notin DOMAIN C
    <3>1. Has(C, n) = 0
      BY <2>2 DEF Has
    <3>2. Has(A, n) - Has(B, n) = 0
      BY <1>2, <1>3, <1>6, <2>2
    <3> QED BY <3>1, <3>2
  <2> QED BY <2>1, <2>2
<1> QED BY <1>1, <1>5, <1>6

-----------------------------------------------------------------------------
(* What streams say                                                        *)

(* The notices a stream holds, each under the name of its span.            *)
Says(st) == Named(st.pending, st.session)

(* A stream holds notices of its own spec and group; where spans have a    *)
(* session, one that saw none holds no notice.                             *)
OwnPending(i, k, st) ==
  /\ \A m \in DOMAIN st.pending : st.pending[m].spec = i /\ st.pending[m].group = k
  /\ IF Specs[i].close = "session" THEN st.session = None => st.pending = <<>> ELSE st.session = None
AllOwn(ss) == \A i \in SpecIds : \A k \in DOMAIN ss[i] : OwnPending(i, k, ss[i][k])

(* How often the streams hold a notice.                                    *)
HeldIn(ss, n) == IF n.group \in DOMAIN ss[n.spec] THEN Occurs(n, Says(ss[n.spec][n.group])) ELSE 0

LEMMA SaysTyped ==
  ASSUME NEW st \in Stream
  PROVE  /\ Says(st) \in Seq(Notice) /\ DOMAIN Says(st) = DOMAIN st.pending
         /\ \A m \in DOMAIN st.pending : /\ Says(st)[m].spec = st.pending[m].spec
                                         /\ Says(st)[m].group = st.pending[m].group
         /\ st.pending = <<>> => \A n : Occurs(n, Says(st)) = 0
<1>1. st.pending \in Seq(Notice) /\ st.session \in Sessions \cup {None}
  BY DEF Stream
<1>2. Says(st) \in Seq(Notice)
  BY <1>1, NamedTyped DEF Says
<1>3. /\ DOMAIN Says(st) = DOMAIN st.pending
      /\ \A m \in DOMAIN st.pending :
           Says(st)[m] = IF st.pending[m].span = None THEN [st.pending[m] EXCEPT !.span = st.session]
                         ELSE st.pending[m]
  BY DEF Says, Named
<1>4. ASSUME NEW m \in DOMAIN st.pending
      PROVE  Says(st)[m].spec = st.pending[m].spec /\ Says(st)[m].group = st.pending[m].group
  <2>1. st.pending[m] \in Notice
    BY <1>1, LenProperties
  <2> QED BY <1>3, <2>1 DEF Notice
<1>5. st.pending = <<>> => DOMAIN Says(st) = {}
  BY <1>3
<1>6. st.pending = <<>> => \A n : Occurs(n, Says(st)) = 0
  BY <1>5, OccursNever
<1> QED BY <1>2, <1>3, <1>4, <1>6

(* What the groups in ks of a spec say is what each of them does.          *)
LEMMA SaidByCounts ==
  ASSUME setup \in Setups, NEW i \in SpecIds, NEW ss \in Streams,
         \A k \in DOMAIN ss : OwnPending(i, k, ss[k]), NEW ks, ks \subseteq DOMAIN ss
  PROVE  /\ SaidBy(ss, ks) \in Seq(Notice)
         /\ \A x \in Notice : Occurs(x, SaidBy(ss, ks)) =
              IF x.spec = i /\ x.group \in ks THEN Occurs(x, Says(ss[x.group])) ELSE 0
<1> DEFINE order == Ascending(ks)
           seqs == [n \in DOMAIN order |-> Says(ss[order[n]])]
<1>1. IsFiniteSet(ks) /\ ks \subseteq Nat /\ \A k \in DOMAIN ss : ss[k] \in Stream
  <2>1. IsFiniteSet(DOMAIN ss) /\ DOMAIN ss \subseteq Keys /\ Keys \subseteq Nat
        /\ \A k \in DOMAIN ss : ss[k] \in Stream
    BY SetupTyped, StreamsAre
  <2> QED BY <2>1, FS_Subset
<1>2. SaidBy(ss, ks) = FlattenSeq(seqs)
  BY DEF SaidBy, Says
<1>3. PICK c \in Nat :
        /\ DOMAIN order = 1..c /\ \A n \in 1..c : order[n] \in ks /\ order[n] \in Nat
        /\ \A a, b \in 1..c : a < b => order[a] < order[b]
        /\ \A k \in ks : \E n \in 1..c : order[n] = k
  <2>1. /\ Cardinality(ks) \in Nat /\ order \in [1..Cardinality(ks) -> ks]
        /\ \A a, b \in 1..Cardinality(ks) : a < b => order[a] < order[b]
        /\ \A k \in ks : \E n \in 1..Cardinality(ks) : order[n] = k
    BY <1>1, AscendingSorts
  <2> HIDE DEF order
  <2> QED BY <1>1, <2>1
<1> HIDE DEF order
<1>4. \A a, b \in 1..c : order[a] = order[b] => a = b
  BY <1>3
<1>5. seqs \in [1..c -> Seq(Notice)]
  BY <1>1, <1>3, SaysTyped
<1>6. \A n \in 1..c : seqs[n] = Says(ss[order[n]])
  BY <1>3
<1>7. ASSUME NEW x \in Notice, NEW n \in 1..c, ~(x.spec = i /\ x.group = order[n])
      PROVE  Occurs(x, seqs[n]) = 0
  <2>1. order[n] \in DOMAIN ss /\ ss[order[n]] \in Stream
    BY <1>1, <1>3
  <2>2. \A m \in DOMAIN seqs[n] : seqs[n][m].spec = i /\ seqs[n][m].group = order[n]
    BY <1>6, <2>1, SaysTyped DEF OwnPending
  <2> HIDE DEF seqs
  <2> QED BY <1>7, <2>2, OccursNever
<1> HIDE DEF seqs
<1>8. FlattenSeq(seqs) \in Seq(Notice)
  BY <1>5, FlattenType
<1>9. ASSUME NEW x \in Notice, x.spec = i, x.group \in ks
      PROVE  Occurs(x, FlattenSeq(seqs)) = Occurs(x, Says(ss[x.group]))
  <2>1. PICK p \in 1..c : order[p] = x.group
    BY <1>3, <1>9
  <2>2. \A j \in 1..c : j # p => Occurs(x, seqs[j]) = 0
    BY <1>4, <1>7, <2>1
  <2>3. Occurs(x, FlattenSeq(seqs)) = IF p \in 1..c THEN Occurs(x, seqs[p]) ELSE 0
    <3>1. c \in Nat /\ seqs \in [1..c -> Seq(Notice)] /\ p \in Nat
      BY <1>5
    <3> QED BY ONLY <2>2, <3>1, OccursFlatten
  <2> QED BY <1>6, <2>1, <2>3
<1>10. ASSUME NEW x \in Notice, ~(x.spec = i /\ x.group \in ks)
       PROVE  Occurs(x, FlattenSeq(seqs)) = 0
  <2>1. \A j \in 1..c : j # 0 => Occurs(x, seqs[j]) = 0
    BY <1>3, <1>7, <1>10
  <2>2. Occurs(x, FlattenSeq(seqs)) = IF 0 \in 1..c THEN Occurs(x, seqs[0]) ELSE 0
    BY <1>5, <2>1, OccursFlatten
  <2> QED BY <2>2
<1> QED BY <1>2, <1>8, <1>9, <1>10

(* And so what the specs say together.                                     *)
LEMMA StreamsSay ==
  ASSUME setup \in Setups, NEW ss \in [SpecIds -> Streams], AllOwn(ss),
         NEW ks \in [SpecIds -> SUBSET Keys], \A i \in SpecIds : ks[i] \subseteq DOMAIN ss[i],
         NEW said, said = [i \in SpecIds |-> SaidBy(ss[i], ks[i])]
  PROVE  /\ said \in [SpecIds -> Seq(Notice)] /\ FlattenSeq(said) \in Seq(Notice)
         /\ \A x \in Notice : Occurs(x, FlattenSeq(said)) =
              IF x.group \in ks[x.spec] THEN HeldIn(ss, x) ELSE 0
<1>1. PICK n \in Nat : SpecIds = 1..n
  BY SetupTyped
<1>2. ASSUME NEW i \in SpecIds
      PROVE  /\ said[i] \in Seq(Notice)
             /\ \A x \in Notice : Occurs(x, said[i]) =
                  IF x.spec = i /\ x.group \in ks[i] THEN Occurs(x, Says(ss[i][x.group])) ELSE 0
  <2>1. ss[i] \in Streams /\ ks[i] \subseteq DOMAIN ss[i] /\ said[i] = SaidBy(ss[i], ks[i])
        /\ \A k \in DOMAIN ss[i] : OwnPending(i, k, ss[i][k])
    BY DEF AllOwn
  <2> QED BY <2>1, SaidByCounts
<1>3. said \in [1..n -> Seq(Notice)]
  BY <1>1, <1>2
<1>4. FlattenSeq(said) \in Seq(Notice)
  BY <1>3, FlattenType
<1>5. ASSUME NEW x \in Notice
      PROVE  Occurs(x, FlattenSeq(said)) = IF x.group \in ks[x.spec] THEN HeldIn(ss, x) ELSE 0
  <2>1. x.spec \in 1..n /\ x.spec \in SpecIds /\ x.spec \in Nat
    BY <1>1 DEF Notice
  <2>2. \A j \in 1..n : j # x.spec => Occurs(x, said[j]) = 0
    BY <1>1, <1>2
  <2>3. PICK i \in Nat : i = x.spec
    BY <2>1
  <2>4. \A j \in 1..n : j # i => Occurs(x, said[j]) = 0
    BY <2>2, <2>3
  <2>5. Occurs(x, FlattenSeq(said)) = IF i \in 1..n THEN Occurs(x, said[i]) ELSE 0
    BY ONLY n \in Nat, i \in Nat, <1>3, <2>4, OccursFlatten
  <2> QED BY <1>2, <2>1, <2>3, <2>5 DEF HeldIn
<1> QED BY <1>1, <1>3, <1>4, <1>5

(* What the rows own raise: notices of those rows, one of each at most.    *)
RaisesAt(i, k, rows, st, own, base, c, at) ==
  /\ \A a, b \in 1..c : a < b => at[a] < at[b]
  /\ DOMAIN Raised(i, k, rows, st, own, base) = 1..c
  /\ \A n \in 1..c : Raised(i, k, rows, st, own, base)[n] =
       [spec |-> i, group |-> k, row |-> base + own[at[n]], span |-> None]

LEMMA RaisedIs ==
  ASSUME setup \in Setups, NEW rows, NEW base, Fits(rows, base), NEW st \in Stream,
         NEW i \in SpecIds, NEW k \in Keys, NEW own \in Seq(1..Len(rows))
  PROVE  \E c \in Nat : \E at \in [1..c -> 1..Len(own)] :
           RaisesAt(i, k, rows, st, own, base, c, at)
<1> DEFINE S == {j \in DOMAIN own : Len(Span(st, own, base, Bounds(i, rows, st, own), j)) = NoticeAt}
           at == Ascending(S)
<1>1. Len(own) \in Nat /\ DOMAIN own = 1..Len(own)
  BY LenProperties
<1>2. S \subseteq 1..Len(own) /\ S \subseteq Nat /\ IsFiniteSet(S)
  <2>1. S \subseteq 1..Len(own) /\ S \subseteq Nat
    BY <1>1
  <2>2. IsFiniteSet(1..Len(own))
    BY <1>1, FS_Interval
  <2> HIDE DEF S
  <2> QED BY <2>1, <2>2, FS_Subset
<1>3. Raised(i, k, rows, st, own, base)
      = [n \in DOMAIN at |-> [spec |-> i, group |-> k, row |-> base + own[at[n]], span |-> None]]
  BY DEF Raised
<1>4. /\ Cardinality(S) \in Nat /\ at \in [1..Cardinality(S) -> S]
      /\ \A a, b \in 1..Cardinality(S) : a < b => at[a] < at[b]
  <2> HIDE DEF S
  <2> QED BY <1>2, AscendingSorts
<1> HIDE DEF S, at
<1>5. at \in [1..Cardinality(S) -> 1..Len(own)] /\ DOMAIN at = 1..Cardinality(S)
  BY <1>2, <1>4
<1> DEFINE said == Raised(i, k, rows, st, own, base)
<1>6. /\ DOMAIN said = 1..Cardinality(S)
      /\ \A n \in 1..Cardinality(S) :
           said[n] = [spec |-> i, group |-> k, row |-> base + own[at[n]], span |-> None]
  BY <1>3, <1>5
<1> HIDE DEF said
<1>7. \E q \in [1..Cardinality(S) -> 1..Len(own)] :
        /\ \A a, b \in 1..Cardinality(S) : a < b => q[a] < q[b]
        /\ DOMAIN said = 1..Cardinality(S)
        /\ \A n \in 1..Cardinality(S) :
             said[n] = [spec |-> i, group |-> k, row |-> base + own[q[n]], span |-> None]
  BY <1>4, <1>5, <1>6
<1>8. Cardinality(S) \in Nat
  BY <1>4
<1> QED BY <1>7, <1>8 DEF said, RaisesAt

(* Rows of a stream between which no span ends have one session.           *)
LEMMA SameSession ==
  ASSUME setup \in Setups, NEW rows \in Chunks, NEW st, NEW own \in Seq(1..Len(rows)),
         NEW j \in 1..Len(own), NEW l \in 1..Len(own), j <= l,
         \A b \in SessionBounds(rows, st, own) : ~(j < b /\ b <= l)
  PROVE  rows[own[j]].s = rows[own[l]].s
<1> DEFINE s(n) == rows[own[n]].s
           T == {d \in Nat : j + d <= l => s(j + d) = s(j)}
<1>1. Len(own) \in Nat /\ DOMAIN own = 1..Len(own) /\ \A n \in 1..Len(own) : own[n] \in 1..Len(rows)
  BY LenProperties
<1>2. \A n \in 1..Len(own) : s(n) # None
  BY <1>1, RowsTyped
<1>3. 0 \in T
  BY <1>1
<1>4. ASSUME NEW d \in T PROVE d + 1 \in T
  <2> SUFFICES ASSUME j + (d + 1) <= l PROVE s(j + (d + 1)) = s(j)
    OBVIOUS
  <2>1. /\ j + (d + 1) \in 1..Len(own) /\ j + (d + 1) # 1 /\ (j + (d + 1)) - 1 = j + d
        /\ j + d \in 1..Len(own) /\ j + d <= l /\ j < j + (d + 1)
    BY <1>1
  <2>2. s(j + d) = s(j)
    BY <1>4, <2>1
  <2>3. j + (d + 1) \notin SessionBounds(rows, st, own)
    BY <2>1
  <2>4. s(j + d) \in {None, s(j + (d + 1))}
    BY <1>1, <2>1, <2>3 DEF SessionBounds
  <2> HIDE DEF s
  <2> QED BY <1>2, <2>1, <2>2, <2>4
<1>5. l - j \in T
  <2>1. T \subseteq Nat /\ l - j \in Nat
    BY <1>1
  <2> HIDE DEF T
  <2> QED BY <1>3, <1>4, <2>1, Induct
<1>6. j + (l - j) = l /\ l <= l
  BY <1>1
<1> QED BY <1>5, <1>6

LEMMA NamedConcat ==
  ASSUME NEW S, NEW p \in Seq(S), NEW q \in Seq(S), NEW session
  PROVE  Named(p \o q, session) = Named(p, session) \o Named(q, session)
<1> DEFINE name(n) == IF n.span = None THEN [n EXCEPT !.span = session] ELSE n
           a == Named(p, session)
           b == Named(q, session)
<1>1. /\ DOMAIN p = 1..Len(p) /\ Len(p) \in Nat /\ DOMAIN q = 1..Len(q) /\ Len(q) \in Nat
      /\ DOMAIN (p \o q) = 1..(Len(p) + Len(q))
      /\ \A n \in 1..(Len(p) + Len(q)) : (p \o q)[n] = IF n <= Len(p) THEN p[n] ELSE q[n - Len(p)]
  BY ConcatIs
<1>2. \A r : Named(r, session) = [n \in DOMAIN r |-> name(r[n])]
  BY DEF Named
<1> DEFINE U == {name(n) : n \in S}
<1>3. a = [n \in 1..Len(p) |-> name(p[n])] /\ b = [n \in 1..Len(q) |-> name(q[n])]
      /\ Named(p \o q, session) = [n \in 1..(Len(p) + Len(q)) |-> name((p \o q)[n])]
  BY <1>1, <1>2
<1> HIDE DEF name, a, b
<1>4. (\A n \in 1..Len(p) : p[n] \in S) /\ (\A n \in 1..Len(q) : q[n] \in S)
  BY <1>1, LenProperties
<1>5. a \in Seq(U) /\ b \in Seq(U) /\ Len(a) = Len(p) /\ Len(b) = Len(q)
  <2>1. a \in [1..Len(p) -> U] /\ b \in [1..Len(q) -> U]
    BY <1>3, <1>4
  <2> HIDE DEF U
  <2> QED BY <1>1, <2>1, SeqMade
<1>6. /\ a \o b \in Seq(U) /\ Len(a \o b) = Len(p) + Len(q)
      /\ \A n \in 1..(Len(p) + Len(q)) : (a \o b)[n] = IF n <= Len(p) THEN a[n] ELSE b[n - Len(p)]
  <2> HIDE DEF U
  <2>1. /\ a \o b \in Seq(U) /\ Len(a \o b) = Len(a) + Len(b)
        /\ \A n \in 1..(Len(a) + Len(b)) : (a \o b)[n] = IF n <= Len(a) THEN a[n] ELSE b[n - Len(a)]
    BY <1>5, ConcatIs
  <2> QED BY <1>5, <2>1
<1>7. ASSUME NEW n \in 1..(Len(p) + Len(q)) PROVE (a \o b)[n] = name((p \o q)[n])
  <2>1. CASE n <= Len(p)
    <3>1. n \in 1..Len(p)
      BY <1>1, <2>1
    <3> QED BY <1>1, <1>3, <1>6, <2>1, <3>1
  <2>2. CASE ~(n <= Len(p))
    <3>1. n - Len(p) \in 1..Len(q)
      BY <1>1, <2>2
    <3> QED BY <1>1, <1>3, <1>6, <2>2, <3>1
  <2> QED BY <2>1, <2>2
<1>8. a \o b = [n \in 1..(Len(p) + Len(q)) |-> (a \o b)[n]]
  <2> HIDE DEF U
  <2>1. DOMAIN (a \o b) = 1..(Len(p) + Len(q)) /\ a \o b \in [1..Len(a \o b) -> U]
    BY <1>6, LenProperties
  <2> QED BY <2>1
<1>9. a \o b = Named(p \o q, session)
  BY <1>3, <1>7, <1>8
<1> QED BY <1>9 DEF a, b

(* The notices a task's rows raise, each under the name of its own span.   *)
Told(i, k, rows, st, own, base) ==
  LET said == Raised(i, k, rows, st, own, base)
  IN [n \in DOMAIN said |->
        [said[n] EXCEPT !.span = IF Specs[i].close = "session" THEN rows[said[n].row - base].s
                                 ELSE None]]

(* The notices a task's rows raise, by the places at of own that raise them*)
(* and as they are told: no two are the same.                              *)
ToldAt(i, k, rows, st, own, base, c, at) ==
  /\ \A n \in 1..c : at[n] \in 1..Len(own) /\ own[at[n]] \in 1..Len(rows)
  /\ DOMAIN Raised(i, k, rows, st, own, base) = 1..c
  /\ DOMAIN Told(i, k, rows, st, own, base) = 1..c
  /\ \A n \in 1..c :
       /\ Raised(i, k, rows, st, own, base)[n] =
            [spec |-> i, group |-> k, row |-> base + own[at[n]], span |-> None]
       /\ Told(i, k, rows, st, own, base)[n] =
            [spec |-> i, group |-> k, row |-> base + own[at[n]],
             span |-> IF Specs[i].close = "session" THEN rows[own[at[n]]].s ELSE None]
  /\ Raised(i, k, rows, st, own, base) \in Seq(Notice)
  /\ Told(i, k, rows, st, own, base) \in Seq(Notice)
  /\ \A a, b \in 1..c : Told(i, k, rows, st, own, base)[a] = Told(i, k, rows, st, own, base)[b]
                         => a = b

LEMMA ToldIs ==
  ASSUME setup \in Setups, NEW rows, NEW base, Fits(rows, base), NEW st \in Stream,
         NEW i \in SpecIds, NEW k \in Keys, NEW own, OwnRows(rows, own, k)
  PROVE  \E c \in Nat : \E at \in [1..c -> 1..Len(own)] : ToldAt(i, k, rows, st, own, base, c, at)
<1> DEFINE said == Raised(i, k, rows, st, own, base)
           told == Told(i, k, rows, st, own, base)
           span(j) == IF Specs[i].close = "session" THEN rows[j].s ELSE None
<1>1. /\ Len(own) \in Nat /\ own \in Seq(1..Len(rows)) /\ \A n \in 1..Len(own) : own[n] \in 1..Len(rows)
      /\ \A a, b \in 1..Len(own) : a < b => own[a] < own[b]
  BY LenProperties DEF OwnRows
<1>2. /\ rows \in Chunks /\ Len(rows) \in Nat /\ base \in Nat
      /\ \A j \in 1..Len(rows) : rows[j].s \in Sessions
  BY RowsTyped DEF Fits
<1>0. own \in Seq(1..Len(rows))
  BY <1>1
<1>c. PICK c \in Nat : \E at \in [1..c -> 1..Len(own)] : RaisesAt(i, k, rows, st, own, base, c, at)
  BY <1>0, RaisedIs
<1>d. PICK at \in [1..c -> 1..Len(own)] : RaisesAt(i, k, rows, st, own, base, c, at)
  BY <1>c
<1>3. /\ \A a, b \in 1..c : a < b => at[a] < at[b]
      /\ DOMAIN said = 1..c
      /\ \A n \in 1..c : said[n] = [spec |-> i, group |-> k, row |-> base + own[at[n]], span |-> None]
  BY <1>d DEF RaisesAt
<1>4. said \in Seq(Notice)
  BY <1>1, RaisedTyped
<1>5. told = [n \in DOMAIN said |-> [said[n] EXCEPT !.span = IF Specs[i].close = "session"
                                              THEN rows[said[n].row - base].s ELSE None]]
  BY DEF Told
<1> HIDE DEF said, told
<1>6. \A n \in 1..c : at[n] \in 1..Len(own) /\ own[at[n]] \in 1..Len(rows)
  BY <1>1
<1>7. DOMAIN said = 1..c
  BY <1>3
<1>8. ASSUME NEW n \in 1..c
      PROVE  told[n] = [spec |-> i, group |-> k, row |-> base + own[at[n]], span |-> span(own[at[n]])]
  <2>1. said[n] = [spec |-> i, group |-> k, row |-> base + own[at[n]], span |-> None]
    BY <1>3
  <2>2. own[at[n]] \in 1..Len(rows)
    BY <1>6
  <2>3. said[n].row - base = own[at[n]]
    BY <1>2, <2>1, <2>2
  <2>4. told[n] = [said[n] EXCEPT !.span = span(own[at[n]])]
    BY <1>5, <1>7, <2>3
  <2> HIDE DEF span
  <2> QED BY <2>1, <2>4
<1>9. DOMAIN told = 1..c /\ told = [n \in 1..c |-> told[n]]
  BY <1>5, <1>7
<1>10. told \in Seq(Notice)
  <2>1. ASSUME NEW n \in 1..c PROVE told[n] \in Notice
    <3>1. said[n] \in Notice
      BY <1>4, <1>7, LenProperties
    <3>2. said[n].row \in 1..MaxFed /\ said[n].row = base + own[at[n]]
      BY <1>3, <3>1 DEF Notice
    <3>3. span(own[at[n]]) \in Sessions \cup {None}
      BY <1>2, <1>6
    <3>4. told[n] = [spec |-> i, group |-> k, row |-> base + own[at[n]], span |-> span(own[at[n]])]
      BY <1>8
    <3> HIDE DEF span
    <3> QED BY <3>2, <3>3, <3>4 DEF Notice
  <2>2. told \in [1..c -> Notice]
    BY <1>9, <2>1
  <2> QED BY <2>2, SeqMade
<1>11. ASSUME NEW a \in 1..c, NEW b \in 1..c, told[a] = told[b] PROVE a = b
  <2>1. base + own[at[a]] = base + own[at[b]]
    <3>1. told[a] = [spec |-> i, group |-> k, row |-> base + own[at[a]], span |-> span(own[at[a]])]
          /\ told[b] = [spec |-> i, group |-> k, row |-> base + own[at[b]], span |-> span(own[at[b]])]
      BY <1>8
    <3> HIDE DEF span
    <3>2. told[a].row = base + own[at[a]] /\ told[b].row = base + own[at[b]]
      BY <3>1
    <3> QED BY <1>11, <3>2
  <2>2. own[at[a]] \in Nat /\ own[at[b]] \in Nat /\ at[a] \in 1..Len(own) /\ at[b] \in 1..Len(own)
    BY <1>2, <1>6
  <2>3. own[at[a]] = own[at[b]]
    BY <1>2, <2>1, <2>2
  <2>5. (at[a] < at[b] => own[at[a]] < own[at[b]]) /\ (at[b] < at[a] => own[at[b]] < own[at[a]])
    BY <1>1, <2>2
  <2>4. at[a] = at[b]
    BY ONLY <1>1, <2>2, <2>3, <2>5
  <2> QED BY <1>3, <1>1, <2>2, <2>4
<1>12. \A a, b \in 1..c : told[a] = told[b] => a = b
  BY <1>11
<1>13. ToldAt(i, k, rows, st, own, base, c, at)
  BY <1>3, <1>4, <1>6, <1>8, <1>9, <1>10, <1>12 DEF said, told, ToldAt
<1> QED BY <1>13

(* The notices that name their spans keep the names.                       *)
LEMMA NamedOnce ==
  ASSUME NEW st \in Stream, NEW session, st.session = None => st.pending = <<>>
  PROVE  Named(Says(st), session) = Says(st)
<1>1. Says(st) \in Seq(Notice) /\ DOMAIN Says(st) = DOMAIN st.pending
  BY SaysTyped
<1>2. ASSUME NEW m \in DOMAIN st.pending PROVE Says(st)[m].span # None
  <2>1. st.pending \in Seq(Notice) /\ st.session # None
    BY DEF Stream
  <2>2. st.pending[m] \in Notice
    BY <2>1, LenProperties
  <2>3. Says(st)[m] = IF st.pending[m].span = None THEN [st.pending[m] EXCEPT !.span = st.session]
                      ELSE st.pending[m]
    BY DEF Says, Named
  <2> QED BY <2>1, <2>2, <2>3 DEF Notice
<1>3. Named(Says(st), session) = [m \in DOMAIN Says(st) |-> Says(st)[m]]
  BY <1>1, <1>2 DEF Named
<1>4. Says(st) = [m \in DOMAIN Says(st) |-> Says(st)[m]]
  BY DEF Says, Named
<1> QED BY <1>3, <1>4

Unnamed(n) == [n EXCEPT !.span = None]

(* Notices of which some lack their span's name, given it.                 *)
LEMMA NamedAs ==
  ASSUME NEW told \in Seq(Notice), NEW q, NEW session, DOMAIN q = DOMAIN told,
         \A n \in DOMAIN told : \/ q[n] = Unnamed(told[n]) /\ told[n].span = session
                                \/ q[n] = told[n] /\ told[n].span # None
  PROVE  Named(q, session) = told
<1> DEFINE name(n) == IF q[n].span = None THEN [q[n] EXCEPT !.span = session] ELSE q[n]
<1>1. Named(q, session) = [n \in DOMAIN told |-> name(n)]
  BY DEF Named
<1>2. ASSUME NEW n \in DOMAIN told PROVE name(n) = told[n]
  <2>1. told[n] \in Notice
    BY LenProperties
  <2>2. CASE q[n] = Unnamed(told[n]) /\ told[n].span = session
    <3>1. q[n].span = None
      BY <2>1, <2>2 DEF Notice, Unnamed
    <3>2. [q[n] EXCEPT !.span = session] = told[n]
      BY <2>1, <2>2 DEF Notice, Unnamed
    <3> QED BY <3>1, <3>2
  <2>3. CASE q[n] = told[n] /\ told[n].span # None
    BY <2>3
  <2> QED BY <2>2, <2>3
<1>3. told = [n \in DOMAIN told |-> told[n]]
  <2>1. DOMAIN told = 1..Len(told) /\ told \in [1..Len(told) -> Notice]
    BY LenProperties
  <2> QED BY <2>1
<1> HIDE DEF name
<1> QED BY <1>1, <1>2, <1>3

(* The session a stream has once it learned: that of the rows after its    *)
(* last bound.                                                             *)
LEMMA SessionAfter ==
  ASSUME setup \in Setups, NEW rows \in Chunks, NEW st \in Stream, NEW i \in SpecIds,
         Specs[i].close = "session", NEW k, NEW own, OwnRows(rows, own, k), own # <<>>, NEW base,
         NEW n \in 1..Len(own), \A b \in Bounds(i, rows, st, own) : ~(n < b)
  PROVE  Learned(i, k, rows, st, own, base).session = rows[own[n]].s
<1>1. Len(own) \in Nat /\ own \in Seq(1..Len(rows)) /\ Len(own) \in 1..Len(own) /\ n <= Len(own)
  BY EmptySeq, LenProperties DEF OwnRows
<1>2. Learned(i, k, rows, st, own, base).session = rows[own[Len(own)]].s
  BY DEF Learned
<1>3. \A b \in SessionBounds(rows, st, own) : ~(n < b /\ b <= Len(own))
  BY DEF Bounds
<1>4. rows[own[n]].s = rows[own[Len(own)]].s
  BY <1>1, <1>3, SameSession
<1> QED BY <1>2, <1>4

(* A stream that learns holds what it held, and what its rows raised, each *)
(* notice under the name of the span that raised it.                       *)
LEMMA LearnedSays ==
  ASSUME setup \in Setups, NEW rows, NEW base, Fits(rows, base), NEW st \in Stream,
         NEW i \in SpecIds, NEW k \in Keys, OwnPending(i, k, st), NEW own,
         OwnRows(rows, own, k), own # <<>>
  PROVE  /\ Says(Learned(i, k, rows, st, own, base)) = Says(st) \o Told(i, k, rows, st, own, base)
         /\ OwnPending(i, k, Learned(i, k, rows, st, own, base))
<1> DEFINE said == Raised(i, k, rows, st, own, base)
           told == Told(i, k, rows, st, own, base)
           L == Learned(i, k, rows, st, own, base)
           bounds == Bounds(i, rows, st, own)
           ends == {base + own[b] : b \in bounds}
           renamed(n) == [said[n] EXCEPT !.span = rows[said[n].row - base].s]
           B == [n \in DOMAIN said |-> IF \E e \in ends : said[n].row < e THEN renamed(n) ELSE said[n]]
<1>1. /\ Len(own) \in Nat /\ DOMAIN own = 1..Len(own) /\ own \in Seq(1..Len(rows))
      /\ Len(own) \in 1..Len(own) /\ 1 \in 1..Len(own)
      /\ \A n \in 1..Len(own) : own[n] \in 1..Len(rows)
      /\ \A a, b \in 1..Len(own) : a < b => own[a] < own[b]
  BY EmptySeq, LenProperties DEF OwnRows
<1>2. /\ rows \in Chunks /\ Len(rows) \in Nat /\ base \in Nat
      /\ \A j \in 1..Len(rows) : rows[j].s \in Sessions /\ rows[j].s # None
  BY RowsTyped DEF Fits
<1>3. st.pending \in Seq(Notice) /\ st.session \in Sessions \cup {None} /\ None \notin Sessions
  BY SetupTyped DEF Stream, None
<1>4. PICK c \in Nat : \E at \in [1..c -> 1..Len(own)] : ToldAt(i, k, rows, st, own, base, c, at)
  BY ToldIs
<1>5. PICK at \in [1..c -> 1..Len(own)] : ToldAt(i, k, rows, st, own, base, c, at)
  BY <1>4
<1>6. /\ \A n \in 1..c : at[n] \in 1..Len(own) /\ own[at[n]] \in 1..Len(rows)
      /\ DOMAIN said = 1..c /\ DOMAIN told = 1..c
      /\ said \in Seq(Notice) /\ told \in Seq(Notice)
      /\ \A n \in 1..c :
           /\ said[n] = [spec |-> i, group |-> k, row |-> base + own[at[n]], span |-> None]
           /\ told[n] = [spec |-> i, group |-> k, row |-> base + own[at[n]],
                         span |-> IF Specs[i].close = "session" THEN rows[own[at[n]]].s ELSE None]
  BY <1>5 DEF ToldAt
<1>7. bounds \subseteq 1..Len(own)
  BY <1>1 DEF Bounds, SessionBounds
<1>8. L \in Stream /\ L.pending = Carried(st, said, rows, base, ends)
      /\ L.session = IF Specs[i].close = "session" /\ own # <<>> THEN rows[own[Len(own)]].s
                     ELSE st.session
  BY <1>1, LearnedTyped DEF Learned
<1>9. Says(L) = Named(L.pending, L.session) /\ Says(st) = Named(st.pending, st.session)
  BY DEF Says
<1> HIDE DEF L, told, said
<1>10. ASSUME NEW n \in 1..c
       PROVE  /\ said[n] = [told[n] EXCEPT !.span = None]
              /\ said[n].row = base + own[at[n]] /\ said[n].row - base = own[at[n]]
  <2>1. /\ said[n] = [spec |-> i, group |-> k, row |-> base + own[at[n]], span |-> None]
        /\ told[n] = [spec |-> i, group |-> k, row |-> base + own[at[n]],
                      span |-> IF Specs[i].close = "session" THEN rows[own[at[n]]].s ELSE None]
    BY <1>6
  <2>2. own[at[n]] \in 1..Len(rows)
    BY <1>6
  <2> QED BY <1>2, <2>1, <2>2
<1>11. ASSUME ends = {}, NEW session,
              \A n \in 1..c : told[n].span = session,
              Named(st.pending, session) = Says(st), L.session = session
       PROVE  Says(L) = Says(st) \o told
  <2>1. L.pending = st.pending \o said
    BY <1>8, <1>11 DEF Carried
  <2>2. Named(st.pending \o said, session) = Named(st.pending, session) \o Named(said, session)
    <3> DEFINE pending == st.pending
    <3>1. pending \in Seq(Notice) /\ said \in Seq(Notice)
      BY <1>3, <1>6
    <3> HIDE DEF pending
    <3>2. Named(pending \o said, session) = Named(pending, session) \o Named(said, session)
      BY <3>1, NamedConcat
    <3> QED BY <3>2 DEF pending
  <2>3. Named(said, session) = told
    <3>1. told \in Seq(Notice) /\ DOMAIN said = DOMAIN told
      BY <1>6
    <3>2. \A n \in DOMAIN told : said[n] = Unnamed(told[n]) /\ told[n].span = session
      BY <1>6, <1>10, <1>11 DEF Unnamed
    <3> QED BY ONLY <3>1, <3>2, NamedAs
  <2> QED BY ONLY <1>9, <1>11, <2>1, <2>2, <2>3
<1>12. ASSUME Specs[i].close # "session"
       PROVE  Says(L) = Says(st) \o told /\ L.session = None
  <2>1. bounds = {} /\ st.session = None
    BY <1>12 DEF Bounds, OwnPending
  <2>2. ends = {}
    BY <2>1
  <2>3. \A n \in 1..c : told[n].span = None
    BY <1>6, <1>12
  <2>4. L.session = None /\ Named(st.pending, None) = Says(st)
    BY <1>8, <1>9, <1>12, <2>1
  <2> HIDE DEF ends
  <2>5. Says(L) = Says(st) \o told
    BY ONLY <1>11, <2>2, <2>3, <2>4
  <2> QED BY <2>4, <2>5
<1>13. ASSUME Specs[i].close = "session"
       PROVE  L.session # None /\ L.session \in Sessions
  BY <1>1, <1>2, <1>8, <1>13
<1>14. ASSUME Specs[i].close = "session", bounds = {}
       PROVE  Says(L) = Says(st) \o told
  <2>1. ends = {}
    BY <1>14
  <2>2. \A n \in 1..c : told[n].span = L.session
    <3> SUFFICES ASSUME NEW n \in 1..c PROVE told[n].span = L.session
      OBVIOUS
    <3>1. at[n] \in 1..Len(own) /\ told[n].span = rows[own[at[n]]].s
      BY <1>6, <1>14
    <3>2. Learned(i, k, rows, st, own, base).session = rows[own[at[n]]].s
      BY <1>2, <1>14, <3>1, SessionAfter
    <3> QED BY <3>1, <3>2 DEF L
  <2>3. Named(st.pending, L.session) = Says(st)
    <3>1. CASE st.session = None
      <4>1. st.pending = <<>>
        BY <1>14, <3>1 DEF OwnPending
      <4> QED BY <1>9, <4>1 DEF Named
    <3>2. CASE st.session # None
      <4>1. 1 \notin SessionBounds(rows, st, own)
        BY <1>14 DEF Bounds
      <4>2. rows[own[1]].s = st.session
        BY <1>1, <1>3, <3>2, <4>1 DEF SessionBounds
      <4>3. Learned(i, k, rows, st, own, base).session = rows[own[1]].s
        <5>1. 1 \in 1..Len(own) /\ rows \in Chunks
          BY <1>1, <1>2
        <5>2. \A b \in Bounds(i, rows, st, own) : ~(1 < b)
          BY <1>14
        <5> QED BY <1>14, <5>1, <5>2, SessionAfter
      <4> QED BY <1>9, <4>2, <4>3 DEF L
    <3> QED BY <3>1, <3>2
  <2> HIDE DEF ends
  <2> DEFINE session == L.session
  <2> HIDE DEF session
  <2>4. \A n \in 1..c : told[n].span = session
    BY <2>2 DEF session
  <2>5. Named(st.pending, session) = Says(st) /\ L.session = session
    BY <2>3 DEF session
  <2> QED BY ONLY <1>11, <2>1, <2>4, <2>5
<1>15. ASSUME Specs[i].close = "session", bounds # {}
       PROVE  Says(L) = Says(st) \o told
  <2>1. ends # {}
    BY <1>15
  <2>2. L.pending = Says(st) \o B
    BY <1>8, <1>9, <2>1 DEF Carried
  <2>3. DOMAIN B = 1..c
    BY <1>6
  <2>4. ASSUME NEW n \in 1..c
        PROVE  \/ B[n] = Unnamed(told[n]) /\ told[n].span = L.session
               \/ B[n] = told[n] /\ told[n].span # None
    <3>1. at[n] \in 1..Len(own) /\ own[at[n]] \in 1..Len(rows)
          /\ told[n].span = rows[own[at[n]]].s
          /\ said[n].row = base + own[at[n]] /\ said[n].row - base = own[at[n]]
          /\ told[n] = [spec |-> i, group |-> k, row |-> base + own[at[n]],
                        span |-> rows[own[at[n]]].s]
          /\ said[n] = [spec |-> i, group |-> k, row |-> base + own[at[n]], span |-> None]
      BY <1>6, <1>10, <1>15
    <3>2. CASE \E e \in ends : said[n].row < e
      <4>1. B[n] = [said[n] EXCEPT !.span = rows[own[at[n]]].s]
        BY <1>6, <3>1, <3>2
      <4>2. told[n].span # None
        BY <1>2, <3>1
      <4> QED BY <3>1, <4>1, <4>2
    <3>3. CASE ~ \E e \in ends : said[n].row < e
      <4>1. B[n] = said[n]
        BY <1>6, <3>3
      <4>2. ASSUME NEW b \in bounds PROVE ~(at[n] < b)
        <5>1. base + own[b] \in ends /\ b \in 1..Len(own)
          BY <1>7
        <5>2. own[at[n]] \in Int /\ own[b] \in Int /\ base \in Int
          BY <1>1, <1>2, <3>1, <5>1
        <5>3. ~(base + own[at[n]] < base + own[b])
          <6>1. ~(said[n].row < base + own[b]) /\ said[n].row = base + own[at[n]]
            BY <3>1, <3>3, <5>1
          <6> QED BY ONLY <6>1
        <5>4. ~(own[at[n]] < own[b])
          BY ONLY <5>2, <5>3
        <5> QED BY <1>1, <3>1, <5>1, <5>4
      <4>3. Learned(i, k, rows, st, own, base).session = rows[own[at[n]]].s
        <5>1. at[n] \in 1..Len(own) /\ rows \in Chunks /\ Specs[i].close = "session"
          BY <1>2, <1>15, <3>1
        <5>2. \A b \in Bounds(i, rows, st, own) : ~(at[n] < b)
          BY <4>2
        <5> QED BY <5>1, <5>2, SessionAfter
      <4>4. told[n].span = L.session
        BY <3>1, <4>3 DEF L
      <4> QED BY <1>10, <4>1, <4>4 DEF Unnamed
    <3> QED BY <3>2, <3>3
  <2>5. \A n \in 1..c : B[n] \in Notice
    <3> SUFFICES ASSUME NEW n \in 1..c PROVE B[n] \in Notice
      OBVIOUS
    <3>1. told[n] \in Notice
      BY <1>6, LenProperties
    <3>2. Unnamed(told[n]) \in Notice
      BY <3>1 DEF Notice, Unnamed
    <3> QED BY <2>4, <3>1, <3>2
  <2> HIDE DEF B, ends, bounds
  <2>6. B \in Seq(Notice)
    <3>1. B = [n \in 1..c |-> B[n]]
      BY <2>3 DEF B
    <3> QED BY <2>5, <3>1
  <2>7. Says(st) \in Seq(Notice)
    BY SaysTyped
  <2>8. Named(Says(st) \o B, L.session) = Named(Says(st), L.session) \o Named(B, L.session)
    BY ONLY <2>6, <2>7, NamedConcat
  <2>9. Named(B, L.session) = told
    <3>1. told \in Seq(Notice) /\ DOMAIN B = DOMAIN told
      BY <1>6, <2>3
    <3>2. \A n \in DOMAIN told : \/ B[n] = Unnamed(told[n]) /\ told[n].span = L.session
                                 \/ B[n] = told[n] /\ told[n].span # None
      BY <1>6, <2>4
    <3> QED BY ONLY <3>1, <3>2, NamedAs
  <2>10. Named(Says(st), L.session) = Says(st)
    <3>1. st.session = None => st.pending = <<>>
      BY <1>15 DEF OwnPending
    <3> QED BY <3>1, NamedOnce
  <2> QED BY ONLY <1>9, <2>2, <2>8, <2>9, <2>10
<1>16. Says(L) = Says(st) \o told
  BY <1>12, <1>14, <1>15
<1>17. \A m \in DOMAIN L.pending : L.pending[m].spec = i /\ L.pending[m].group = k
  <2>1. \A m \in DOMAIN Says(st) : Says(st)[m].spec = i /\ Says(st)[m].group = k
    BY SaysTyped DEF OwnPending
  <2>2. \A m \in DOMAIN told : told[m].spec = i /\ told[m].group = k
    BY <1>6
  <2>3. Says(st) \in Seq(Notice) /\ told \in Seq(Notice)
    BY <1>6, SaysTyped
  <2>4. \A m \in DOMAIN Says(L) : Says(L)[m].spec = i /\ Says(L)[m].group = k
    <3> SUFFICES ASSUME NEW m \in DOMAIN Says(L) PROVE Says(L)[m].spec = i /\ Says(L)[m].group = k
      OBVIOUS
    <3>1. /\ DOMAIN Says(st) = 1..Len(Says(st)) /\ Len(Says(st)) \in Nat
          /\ DOMAIN told = 1..Len(told) /\ Len(told) \in Nat
          /\ DOMAIN Says(L) = 1..(Len(Says(st)) + Len(told))
          /\ Says(L)[m] = IF m <= Len(Says(st)) THEN Says(st)[m] ELSE told[m - Len(Says(st))]
      BY <1>16, <2>3, ConcatIs
    <3> QED BY <2>1, <2>2, <3>1
  <2> QED BY <1>8, <2>4, SaysTyped
<1>18. OwnPending(i, k, L)
  BY <1>12, <1>13, <1>17 DEF OwnPending
<1> QED BY <1>16, <1>18 DEF L, told

-----------------------------------------------------------------------------
(* Every notice raised is held once                                        *)

(* What a task's rows raise is owed, each once.                            *)
LEMMA ToldBag ==
  ASSUME setup \in Setups, Fits(call.rows, rowsFed), NEW st \in Stream,
         NEW i \in SpecIds, NEW k \in Keys, NEW own, OwnRows(call.rows, own, k)
  PROVE  /\ Told(i, k, call.rows, st, own, rowsFed) \in Seq(Notice)
         /\ IsBagOf(RaisedNow(i, k, st, own), Notice)
         /\ \A x : Has(RaisedNow(i, k, st, own), x) = Occurs(x, Told(i, k, call.rows, st, own, rowsFed))
         /\ \A x : ~(x.spec = i /\ x.group = k) =>
              Occurs(x, Told(i, k, call.rows, st, own, rowsFed)) = 0
<1> DEFINE said == Raised(i, k, call.rows, st, own, rowsFed)
           told == Told(i, k, call.rows, st, own, rowsFed)
           name(n) == [n EXCEPT !.span = IF Specs[i].close = "session"
                                         THEN call.rows[n.row - rowsFed].s ELSE None]
           R == Range(told)
           B == RaisedNow(i, k, st, own)
<1>1. PICK c \in Nat : \E at \in [1..c -> 1..Len(own)] : ToldAt(i, k, call.rows, st, own, rowsFed, c, at)
  BY ToldIs
<1>2. PICK at \in [1..c -> 1..Len(own)] : ToldAt(i, k, call.rows, st, own, rowsFed, c, at)
  BY <1>1
<1>3. /\ DOMAIN said = 1..c /\ DOMAIN told = 1..c /\ told \in Seq(Notice)
      /\ \A a, b \in 1..c : told[a] = told[b] => a = b
      /\ \A n \in 1..c : told[n].spec = i /\ told[n].group = k
  <2>1. /\ DOMAIN said = 1..c /\ DOMAIN told = 1..c /\ told \in Seq(Notice)
        /\ \A a, b \in 1..c : told[a] = told[b] => a = b
    BY <1>2 DEF ToldAt
  <2>2. \A n \in 1..c :
          told[n] = [spec |-> i, group |-> k, row |-> rowsFed + own[at[n]],
                     span |-> IF Specs[i].close = "session" THEN call.rows[own[at[n]]].s ELSE None]
    BY <1>2 DEF ToldAt
  <2> HIDE DEF told, said
  <2>3. ASSUME NEW n \in 1..c PROVE told[n].spec = i /\ told[n].group = k
    <3> DEFINE row == rowsFed + own[at[n]]
               span == IF Specs[i].close = "session" THEN call.rows[own[at[n]]].s ELSE None
    <3>1. told[n] = [spec |-> i, group |-> k, row |-> row, span |-> span]
      BY <2>2
    <3> HIDE DEF row, span, name
    <3> QED BY ONLY <3>1
  <2> QED BY <2>1, <2>3
<1>4. B = SetToBag({name(n) : n \in Range(said)})
  BY DEF RaisedNow
<1>5. told = [n \in DOMAIN said |-> name(said[n])]
  BY DEF Told
<1> HIDE DEF told, said, name
<1>6. {name(n) : n \in Range(said)} = R
  <2>1. \A n \in 1..c : told[n] = name(said[n])
    BY <1>3, <1>5
  <2>2. Range(said) = {said[n] : n \in 1..c} /\ R = {told[n] : n \in 1..c}
    BY <1>3 DEF Range
  <2> QED BY <2>1, <2>2
<1>7. B = [e \in R |-> 1]
  BY <1>4, <1>6 DEF SetToBag
<1>8. R \subseteq Notice
  <2>1. \A n \in 1..c : told[n] \in Notice
    BY <1>3, LenProperties
  <2> QED BY <1>3, <2>1 DEF Range
<1> HIDE DEF B, R
<1>9. IsBagOf(B, Notice)
  BY <1>7, <1>8 DEF IsBagOf
<1>10. ASSUME NEW x PROVE Has(B, x) = Occurs(x, told)
  <2>1. CASE x \in R
    <3>1. PICK n \in 1..c : told[n] = x
      BY <1>3, <2>1 DEF R, Range
    <3>2. {m \in DOMAIN told : told[m] = x} = {n}
      BY <1>3, <3>1
    <3>3. Occurs(x, told) = 1
      BY <3>2, FS_Singleton DEF Occurs
    <3> QED BY <1>7, <2>1, <3>3 DEF Has
  <2>2. CASE x \notin R
    <3>1. \A m \in DOMAIN told : told[m] # x
      BY <2>2 DEF R, Range
    <3>2. Occurs(x, told) = 0
      BY <3>1, OccursNever
    <3> QED BY <1>7, <2>2, <3>2 DEF Has
  <2> QED BY <2>1, <2>2
<1>11. ASSUME NEW x, ~(x.spec = i /\ x.group = k) PROVE Occurs(x, told) = 0
  <2>1. \A m \in DOMAIN told : told[m] # x
    BY <1>3, <1>11
  <2> QED BY <2>1, OccursNever
<1> QED BY <1>3, <1>9, <1>10, <1>11 DEF B, told

(* Each notice of a row is owed as often as the queue said and the streams *)
(* ss hold it; between them, no stream of ss holds any.                    *)
Balanced(owe, said, ss) == \A n \in Notice : Has(owe, n) = Occurs(n, said) + HeldIn(ss, n)
AllSilent(ss) == \A i \in SpecIds : \A k \in DOMAIN ss[i] : ss[i][k].pending = <<>>

LEMMA SilentHold ==
  ASSUME NEW ss \in [SpecIds -> Streams], NEW n \in Notice,
         n.group \in DOMAIN ss[n.spec] => ss[n.spec][n.group].pending = <<>>
  PROVE  HeldIn(ss, n) = 0
<1>1. n.spec \in SpecIds /\ ss[n.spec] \in Streams
  BY DEF Notice
<1>2. CASE n.group \in DOMAIN ss[n.spec]
  <2>1. ss[n.spec][n.group] \in Stream
    BY <1>1, <1>2, StreamsAre
  <2> QED BY <1>2, <2>1, SaysTyped DEF HeldIn
<1>3. CASE n.group \notin DOMAIN ss[n.spec]
  BY <1>3 DEF HeldIn
<1> QED BY <1>2, <1>3

(* A stream of ss holds a notice a number of times.                        *)
LEMMA HeldNumber ==
  ASSUME NEW ss \in [SpecIds -> Streams], NEW n \in Notice
  PROVE  HeldIn(ss, n) \in Nat
<1>1. n.spec \in SpecIds /\ ss[n.spec] \in Streams
  BY DEF Notice
<1>2. CASE n.group \in DOMAIN ss[n.spec]
  <2>1. ss[n.spec][n.group] \in Stream
    BY <1>1, <1>2, StreamsAre
  <2>2. Says(ss[n.spec][n.group]) \in Seq(Notice)
    BY <2>1, SaysTyped
  <2> QED BY <1>2, <2>2, OccursFinite DEF HeldIn
<1>3. CASE n.group \notin DOMAIN ss[n.spec]
  BY <1>3 DEF HeldIn
<1> QED BY <1>2, <1>3

(* A task's rows are learned: what they raise is owed, and its stream holds*)
(* it.                                                                     *)
LEMMA LearningOwes ==
  ASSUME Typed, UNCHANGED setup, Learn \/ LearnPastBudget, IsBagOf(owed, Notice), AllOwn(states)
  PROVE  /\ IsBagOf(owed', Notice) /\ AllOwn(states')
         /\ Balanced(owed, notices, states) => Balanced(owed', notices', states')
         /\ broken' = broken /\ noticesLeft' = noticesLeft /\ file' = file
         /\ call'.step = "learn" /\ call'.left = call.left /\ call'.rows = call.rows
         /\ \A i \in SpecIds : DOMAIN states'[i] = DOMAIN states[i]
         /\ \A i \in SpecIds : \A k \in DOMAIN states[i] \ GroupsIn(call.rows) :
              states'[i][k] = states[i][k]
<1>1. call.step = "learn"
  BY LearningOwn
<1>2. PICK i \in SpecIds, k \in GroupsIn(call.rows), own \in Seq(1..Len(call.rows)), over \in BOOLEAN :
        OwnRows(call.rows, own, k) /\ own # <<>> /\ StreamTakes(i, k, own, over)
  BY LearningOwn
<1> DEFINE st == states[i][k]
           L == Learned(i, k, call.rows, st, own, rowsFed)
           told == Told(i, k, call.rows, st, own, rowsFed)
           raised == RaisedNow(i, k, st, own)
<1>3. call \in CallType /\ Fits(call.rows, rowsFed) /\ setup \in Setups
      /\ states \in [SpecIds -> Streams]
  BY <1>1, UnderWay DEF Typed, Steps, StatesTyped
<1>4. /\ k \in DOMAIN states[i] /\ k \in Keys /\ st \in Stream /\ L \in Stream
      /\ states' \in [SpecIds -> Streams]
      /\ \A j \in SpecIds : DOMAIN states'[j] = DOMAIN states[j]
      /\ \A j \in SpecIds : \A h \in DOMAIN states[j] :
           states'[j][h] = IF j = i /\ h = k THEN L ELSE states[j][h]
  BY <1>1, <1>2, TakesIs
<1>5. /\ owed' = owed (+) raised /\ notices' = notices /\ broken' = broken
      /\ noticesLeft' = noticesLeft /\ file' = file
  BY <1>2 DEF StreamTakes
<1>6. call'.step = "learn" /\ call'.left = call.left /\ call'.rows = call.rows
  BY <1>1, <1>2, <1>3 DEF StreamTakes, CallType
<1>7. OwnPending(i, k, st)
  BY <1>4 DEF AllOwn
<1>8. Says(L) = Says(st) \o told /\ OwnPending(i, k, L)
  BY <1>2, <1>3, <1>4, <1>7, LearnedSays
<1>9. /\ told \in Seq(Notice) /\ IsBagOf(raised, Notice)
      /\ \A x : Has(raised, x) = Occurs(x, told)
      /\ \A x : ~(x.spec = i /\ x.group = k) => Occurs(x, told) = 0
  BY <1>2, <1>3, <1>4, ToldBag
<1> HIDE DEF st, L, told, raised
<1>10. IsBagOf(owed', Notice) /\ \A x : Has(owed', x) = Has(owed, x) + Has(raised, x)
  BY <1>5, <1>9, BagsAdd
<1>11. AllOwn(states')
  <2>1. ASSUME NEW j \in SpecIds, NEW h \in DOMAIN states[j]
        PROVE  OwnPending(j, h, states'[j][h])
    <3>1. CASE j = i /\ h = k
      BY <1>4, <1>8, <3>1
    <3>2. CASE ~(j = i /\ h = k)
      BY <1>4, <3>2 DEF AllOwn
    <3> QED BY <3>1, <3>2
  <2> QED BY <1>4, <2>1 DEF AllOwn
<1>12. ASSUME NEW x \in Notice
       PROVE  HeldIn(states', x) = HeldIn(states, x) + Occurs(x, told)
  <2>1. x.spec \in SpecIds
    BY DEF Notice
  <2>2. HeldIn(states, x) \in Nat
    BY <1>3, HeldNumber
  <2>3. CASE x.spec = i /\ x.group = k
    <3>1. HeldIn(states', x) = Occurs(x, Says(L)) /\ HeldIn(states, x) = Occurs(x, Says(st))
      BY <1>4, <2>3 DEF HeldIn, st
    <3>2. Says(st) \in Seq(Notice)
      BY <1>4, SaysTyped
    <3>3. Occurs(x, Says(st) \o told) = Occurs(x, Says(st)) + Occurs(x, told)
      BY <1>9, <3>2, OccursConcat
    <3> QED BY <1>8, <3>1, <3>3
  <2>4. CASE ~(x.spec = i /\ x.group = k)
    <3>1. HeldIn(states', x) = HeldIn(states, x)
      BY <1>4, <2>1, <2>4 DEF HeldIn
    <3>2. Occurs(x, told) = 0
      BY <1>9, <2>4
    <3> QED BY <2>2, <3>1, <3>2
  <2> QED BY <2>3, <2>4
<1>13. ASSUME Balanced(owed, notices, states) PROVE Balanced(owed', notices', states')
  <2> SUFFICES ASSUME NEW x \in Notice
               PROVE  Has(owed', x) = Occurs(x, notices') + HeldIn(states', x)
    BY DEF Balanced
  <2>1. Has(owed, x) = Occurs(x, notices) + HeldIn(states, x)
    BY <1>13 DEF Balanced
  <2>2. Occurs(x, notices) \in Nat
    BY OccursFinite DEF Typed, NoticesTyped
  <2>3. Occurs(x, told) \in Nat
    BY <1>9, OccursFinite
  <2>4. HeldIn(states, x) \in Nat
    BY <1>3, HeldNumber
  <2>5. /\ Has(owed', x) = Has(owed, x) + Occurs(x, told)
        /\ HeldIn(states', x) = HeldIn(states, x) + Occurs(x, told)
        /\ Occurs(x, notices') = Occurs(x, notices)
    BY <1>5, <1>9, <1>10, <1>12
  <2> QED BY ONLY <2>1, <2>2, <2>3, <2>4, <2>5
<1>14. \A j \in SpecIds : \A h \in DOMAIN states[j] \ GroupsIn(call.rows) :
         states'[j][h] = states[j][h]
  BY <1>4
<1> QED BY <1>4, <1>5, <1>6, <1>10, <1>11, <1>13, <1>14

(* A chunk's new streams hold nothing, and a refusal puts nothing back but *)
(* what the call noted.                                                    *)
LEMMA BeginOwes ==
  ASSUME Typed, UNCHANGED setup, NEW rows \in Chunks, NEW form \in {"integer", "text"},
         Begin(rows, form), AllOwn(states)
  PROVE  /\ AllOwn(states') /\ owed' = owed /\ broken' = broken /\ noticesLeft' = noticesLeft
         /\ file' = file /\ call'.step = "check" /\ call'.before.notices = Len(notices)
         /\ Balanced(owed, notices, states) => Balanced(owed', notices', states')
         /\ \A i \in SpecIds : \A k \in DOMAIN states'[i] :
              \/ <<i, k>> \in call'.fresh /\ states'[i][k].pending = <<>>
              \/ <<i, k>> \notin call'.fresh /\ k \in DOMAIN states[i] /\ states'[i][k] = states[i][k]
         /\ \A m \in DOMAIN notices' : m > Len(notices) => notices'[m].row = None
<1>1. /\ states \in [SpecIds -> Streams] /\ notices \in Seq(BankNotice) /\ setup \in Setups
      /\ Len(notices) \in Nat
  BY LenProperties DEF Typed, StatesTyped, NoticesTyped
<1>2. /\ states' = [i \in SpecIds |-> [k \in DOMAIN states[i] \cup GroupsIn(rows) |->
           IF k \in DOMAIN states[i] THEN states[i][k]
           ELSE NewStream(Specs[i].refit /\ ~Reserves(i, rows, k))]]
      /\ notices' = notices \o RefitNotices(rows)
      /\ owed' = owed /\ broken' = broken /\ noticesLeft' = noticesLeft /\ file' = file
      /\ call'.step = "check" /\ call'.before.notices = Len(notices)
      /\ call'.fresh = UNION {{i} \X Fresh(i, rows) : i \in SpecIds}
  BY DEF Begin
<1>3. ASSUME NEW i \in SpecIds
      PROVE  /\ DOMAIN states'[i] = DOMAIN states[i] \cup GroupsIn(rows)
             /\ \A k \in DOMAIN states[i] : states'[i][k] = states[i][k] /\ <<i, k>> \notin call'.fresh
             /\ \A k \in DOMAIN states'[i] \ DOMAIN states[i] :
                  /\ states'[i][k].pending = <<>> /\ states'[i][k].session = None
                  /\ <<i, k>> \in call'.fresh
  <2>1. \A k : <<i, k>> \in call'.fresh <=> k \in Fresh(i, rows)
    BY <1>2
  <2>2. DOMAIN states'[i] = DOMAIN states[i] \cup GroupsIn(rows)
    BY <1>2
  <2>3. \A k \in DOMAIN states[i] : states'[i][k] = states[i][k]
    BY <1>2
  <2>4. \A k \in DOMAIN states'[i] \ DOMAIN states[i] :
          states'[i][k] = NewStream(Specs[i].refit /\ ~Reserves(i, rows, k))
    BY <1>2
  <2>5. \A givenUp : NewStream(givenUp).pending = <<>> /\ NewStream(givenUp).session = None
    BY DEF NewStream
  <2> QED BY <2>1, <2>2, <2>3, <2>4, <2>5 DEF Fresh
<1>4. AllOwn(states')
  <2>1. ASSUME NEW i \in SpecIds, NEW k \in DOMAIN states'[i]
        PROVE  OwnPending(i, k, states'[i][k])
    <3>1. CASE k \in DOMAIN states[i]
      BY <1>3, <3>1 DEF AllOwn
    <3>2. CASE k \notin DOMAIN states[i]
      <4>1. states'[i][k].pending = <<>> /\ states'[i][k].session = None
        BY <1>3, <3>2
      <4>2. \A m \in DOMAIN states'[i][k].pending : FALSE
        BY <4>1
      <4> QED BY <4>1, <4>2 DEF OwnPending
    <3> QED BY <3>1, <3>2
  <2> QED BY <2>1 DEF AllOwn
<1>5. ASSUME NEW x \in Notice PROVE HeldIn(states', x) = HeldIn(states, x)
  <2>1. x.spec \in SpecIds /\ states[x.spec] \in Streams
    BY <1>1 DEF Notice
  <2>2. CASE x.group \in DOMAIN states[x.spec]
    <3>1. /\ x.group \in DOMAIN states'[x.spec]
          /\ states'[x.spec][x.group] = states[x.spec][x.group]
      <4>1. /\ DOMAIN states'[x.spec] = DOMAIN states[x.spec] \cup GroupsIn(rows)
            /\ \A k \in DOMAIN states[x.spec] : states'[x.spec][k] = states[x.spec][k]
        BY <1>3, <2>1
      <4> QED BY ONLY <2>2, <4>1
    <3> QED BY <2>2, <3>1 DEF HeldIn
  <2>3. CASE x.group \notin DOMAIN states[x.spec]
    <3>1. HeldIn(states, x) = 0
      BY <2>3 DEF HeldIn
    <3>2. CASE x.group \in DOMAIN states'[x.spec]
      <4>1. states'[x.spec][x.group].pending = <<>>
        BY <1>3, <2>1, <2>3, <3>2
      <4>2. Says(states'[x.spec][x.group]) = <<>>
        BY <4>1 DEF Says, Named
      <4>3. Occurs(x, <<>>) = 0
        BY OccursNever
      <4> QED BY <3>1, <3>2, <4>2, <4>3 DEF HeldIn
    <3>3. CASE x.group \notin DOMAIN states'[x.spec]
      BY <3>1, <3>3 DEF HeldIn
    <3> QED BY <3>2, <3>3
  <2> QED BY <2>2, <2>3
<1> DEFINE more == RefitNotices(rows)
<1>6. more \in Seq(BankNotice) /\ \A m \in DOMAIN more : more[m].row = None
  <2>1. more \in Seq(BankNotice)
    BY <1>1, RefitNoticesTyped
  <2>2. \A m \in DOMAIN more : more[m].row = None
    BY DEF RefitNotices
  <2> QED BY <2>1, <2>2
<1> HIDE DEF more
<1>7. /\ DOMAIN notices' = 1..(Len(notices) + Len(more)) /\ Len(more) \in Nat
      /\ DOMAIN more = 1..Len(more)
      /\ \A m \in 1..(Len(notices) + Len(more)) :
           notices'[m] = IF m <= Len(notices) THEN notices[m] ELSE more[m - Len(notices)]
  BY <1>1, <1>2, <1>6, ConcatIs DEF more
<1>8. ASSUME NEW m \in DOMAIN notices', m > Len(notices) PROVE notices'[m].row = None
  BY <1>1, <1>6, <1>7, <1>8
<1>9. ASSUME NEW x \in Notice PROVE Occurs(x, notices') = Occurs(x, notices)
  <2>1. x.row # None
    BY SetupTyped, <1>1 DEF Notice, None
  <2>2. Occurs(x, more) = 0
    BY <1>6, <2>1, OccursNever
  <2>3. Occurs(x, notices \o more) = Occurs(x, notices) + Occurs(x, more)
    BY <1>1, <1>6, OccursConcat
  <2>4. Occurs(x, notices) \in Nat
    BY <1>1, OccursFinite
  <2> QED BY <1>2, <2>2, <2>3, <2>4 DEF more
<1>10. Balanced(owed, notices, states) => Balanced(owed', notices', states')
  BY <1>2, <1>5, <1>9 DEF Balanced
<1>11. ASSUME NEW i \in SpecIds, NEW k \in DOMAIN states'[i]
       PROVE  \/ <<i, k>> \in call'.fresh /\ states'[i][k].pending = <<>>
              \/ <<i, k>> \notin call'.fresh /\ k \in DOMAIN states[i] /\ states'[i][k] = states[i][k]
  BY <1>3
<1> QED BY <1>2, <1>4, <1>8, <1>10, <1>11

(* Putting back what a refused chunk moved.                                *)
LEMMA PutBackOwes ==
  ASSUME Typed, call.step \in Steps, AllOwn(states),
         states' = Forget(states, call.fresh), RefitsRestored
  PROVE  /\ AllOwn(states')
         /\ AllSilent(states) => AllSilent(states')
         /\ (/\ Balanced(owed, notices, states)
             /\ \A i \in SpecIds : \A k \in DOMAIN states[i] :
                  <<i, k>> \in call.fresh => states[i][k].pending = <<>>
             /\ \A m \in DOMAIN notices : m > call.before.notices => notices[m].row = None)
            => Balanced(owed, notices', states')
<1>1. /\ states \in [SpecIds -> Streams] /\ notices \in Seq(BankNotice) /\ setup \in Setups
      /\ Len(notices) \in Nat /\ call.before.notices \in 0..Len(notices)
      /\ DOMAIN notices = 1..Len(notices)
  BY UnderWay, LenProperties DEF Typed, StatesTyped, NoticesTyped
<1>2. /\ states' \in [SpecIds -> Streams]
      /\ \A i \in SpecIds :
           /\ DOMAIN states'[i] = {k \in DOMAIN states[i] : <<i, k>> \notin call.fresh}
           /\ \A k \in DOMAIN states'[i] : states'[i][k] = states[i][k]
  BY ForgetTyped DEF Typed
<1>3. AllOwn(states') /\ (AllSilent(states) => AllSilent(states'))
  <2>1. \A i \in SpecIds : \A k \in DOMAIN states'[i] :
          k \in DOMAIN states[i] /\ states'[i][k] = states[i][k]
    BY <1>2
  <2>2. AllOwn(states')
    BY <2>1 DEF AllOwn
  <2>3. ASSUME AllSilent(states) PROVE AllSilent(states')
    BY <2>1, <2>3 DEF AllSilent
  <2> QED BY <2>2, <2>3
<1>4. ASSUME NEW x \in Notice,
             \A i \in SpecIds : \A k \in DOMAIN states[i] :
               <<i, k>> \in call.fresh => states[i][k].pending = <<>>
      PROVE  HeldIn(states', x) = HeldIn(states, x)
  <2>1. x.spec \in SpecIds
    BY DEF Notice
  <2>2. CASE x.group \in DOMAIN states'[x.spec]
    BY <1>2, <2>1, <2>2 DEF HeldIn
  <2>3. CASE x.group \notin DOMAIN states'[x.spec]
    <3>1. HeldIn(states', x) = 0
      BY <2>3 DEF HeldIn
    <3>2. x.group \in DOMAIN states[x.spec] => states[x.spec][x.group].pending = <<>>
      BY <1>2, <1>4, <2>1, <2>3
    <3> QED BY <1>1, <3>1, <3>2, SilentHold
  <2> QED BY <2>2, <2>3
<1> DEFINE b == call.before.notices
           rest == [m \in 1..(Len(notices) - b) |-> notices[b + m]]
           first == SubSeq(notices, 1, b)
<1>5. first \in Seq(BankNotice) /\ notices' = first /\ b \in 0..Len(notices) /\ Len(first) = b
      /\ \A m \in 1..b : first[m] = notices[m]
  <2>1. \A m \in 1..b : notices[m] \in BankNotice
    BY <1>1, LenProperties
  <2>2. first \in Seq(BankNotice) /\ Len(first) = b /\ \A m \in 1..b : first[m] = notices[m]
    BY <1>1, <2>1, SubSeqProperties
  <2> QED BY <1>1, <2>2 DEF RefitsRestored
<1>6. rest \in Seq(BankNotice) /\ Len(rest) = Len(notices) - b /\ DOMAIN rest = 1..(Len(notices) - b)
  <2>1. Len(notices) - b \in Nat /\ \A m \in 1..(Len(notices) - b) : b + m \in 1..Len(notices)
    BY <1>1
  <2>2. rest \in [1..(Len(notices) - b) -> BankNotice]
    BY <1>1, <2>1, LenProperties
  <2> HIDE DEF rest
  <2> QED BY ONLY <2>1, <2>2, SeqMade
<1>7. notices = first \o rest
  <2>1. \A m \in 1..(Len(notices) - b) : rest[m] = notices[b + m]
    OBVIOUS
  <2> HIDE DEF first, rest, b
  <2>2. /\ DOMAIN (first \o rest) = 1..(Len(first) + Len(rest)) /\ first \o rest \in Seq(BankNotice)
        /\ \A m \in 1..(Len(first) + Len(rest)) :
             (first \o rest)[m] = IF m <= Len(first) THEN first[m] ELSE rest[m - Len(first)]
        /\ Len(first \o rest) = Len(first) + Len(rest)
    BY <1>5, <1>6, ConcatIs
  <2>3. Len(first) + Len(rest) = Len(notices)
    BY <1>1, <1>5, <1>6
  <2>4. ASSUME NEW m \in 1..Len(notices) PROVE (first \o rest)[m] = notices[m]
    <3>1. CASE m <= b
      BY <1>1, <1>5, <2>2, <2>3, <3>1
    <3>2. CASE ~(m <= b)
      <4>1. m - b \in 1..(Len(notices) - b) /\ b + (m - b) = m
        BY <1>1, <1>5, <3>2
      <4>2. rest[m - b] = notices[m]
        BY <2>1, <4>1
      <4> QED BY <1>5, <2>2, <2>3, <3>2, <4>2
    <3> QED BY <3>1, <3>2
  <2> DEFINE whole == first \o rest
  <2>5. whole \in Seq(BankNotice) /\ Len(whole) = Len(notices)
    BY <2>2, <2>3
  <2>6. \A m \in 1..Len(notices) : whole[m] = notices[m]
    BY <2>4
  <2> HIDE DEF whole
  <2>7. whole = notices
    BY ONLY <1>1, <2>5, <2>6, SeqEqual
  <2> QED BY <2>7 DEF whole
<1>8. ASSUME NEW x \in Notice,
             \A m \in DOMAIN notices : m > b => notices[m].row = None
      PROVE  Occurs(x, notices') = Occurs(x, notices)
  <2>1. x.row # None
    BY SetupTyped, <1>1 DEF Notice, None
  <2>2. ASSUME NEW m \in DOMAIN rest PROVE rest[m] # x
    <3>1. b + m \in 1..Len(notices) /\ b + m > b /\ rest[m] = notices[b + m]
      BY <1>1, <1>5, <1>6, <2>2
    <3> QED BY <1>1, <1>8, <2>1, <3>1
  <2>3. Occurs(x, rest) = 0
    BY <2>2, OccursNever
  <2> HIDE DEF first, rest, b
  <2>4. Occurs(x, first \o rest) = Occurs(x, first) + Occurs(x, rest)
    BY <1>5, <1>6, OccursConcat
  <2>5. Occurs(x, first) \in Nat
    BY <1>5, OccursFinite
  <2> QED BY <1>5, <1>7, <2>3, <2>4, <2>5
<1> HIDE DEF b
<1>9. ASSUME Balanced(owed, notices, states),
             \A i \in SpecIds : \A k \in DOMAIN states[i] :
               <<i, k>> \in call.fresh => states[i][k].pending = <<>>,
             \A m \in DOMAIN notices : m > b => notices[m].row = None
      PROVE  Balanced(owed, notices', states')
  BY <1>4, <1>8, <1>9 DEF Balanced
<1> QED BY <1>3, <1>9 DEF b

(* A stream that said what it held, and a notice of none.                  *)
LEMMA OwnSilent ==
  ASSUME NEW i, NEW k, NEW st, OwnPending(i, k, st), NEW s, s.pending = <<>>, s.session = st.session
  PROVE  OwnPending(i, k, s)
<1>1. \A m \in DOMAIN s.pending : FALSE
  OBVIOUS
<1> QED BY <1>1 DEF OwnPending

(* All the notices that streams hold, as a bag.                            *)
LEMMA PendingCounts ==
  ASSUME setup \in Setups, NEW ss \in [SpecIds -> Streams], AllOwn(ss)
  PROVE  IsBagOf(Pending(ss), Notice) /\ \A x \in Notice : Has(Pending(ss), x) = HeldIn(ss, x)
<1> DEFINE ks == [i \in SpecIds |-> DOMAIN ss[i]]
           said == [i \in SpecIds |-> SaidBy(ss[i], DOMAIN ss[i])]
           all == FlattenSeq(said)
<1>1. ks \in [SpecIds -> SUBSET Keys] /\ \A i \in SpecIds : ks[i] = DOMAIN ss[i]
  BY StreamsAre
<1>2. said = [i \in SpecIds |-> SaidBy(ss[i], ks[i])]
  OBVIOUS
<1>3. Pending(ss) = BagOf(all)
  BY DEF Pending
<1> HIDE DEF ks, said
<1>4. /\ all \in Seq(Notice)
      /\ \A x \in Notice : Occurs(x, all) = IF x.group \in ks[x.spec] THEN HeldIn(ss, x) ELSE 0
  BY <1>1, <1>2, StreamsSay
<1> HIDE DEF all
<1>5. IsBagOf(BagOf(all), Notice) /\ \A x : Has(BagOf(all), x) = Occurs(x, all)
  BY <1>4, BagOfIs
<1>6. ASSUME NEW x \in Notice PROVE Occurs(x, all) = HeldIn(ss, x)
  <2>1. x.spec \in SpecIds /\ ks[x.spec] = DOMAIN ss[x.spec]
    BY <1>1 DEF Notice
  <2>2. x.group \notin DOMAIN ss[x.spec] => HeldIn(ss, x) = 0
    BY DEF HeldIn
  <2> QED BY <1>4, <2>1, <2>2
<1> QED BY <1>3, <1>5, <1>6

(* Notices that the groups in ks of the streams say join the queue.        *)
LEMMA SaidJoin ==
  ASSUME Typed, AllOwn(states),
         NEW ks \in [SpecIds -> SUBSET Keys], \A i \in SpecIds : ks[i] \subseteq DOMAIN states[i],
         notices' = notices \o FlattenSeq([i \in SpecIds |-> Said(i, ks[i])]), NEW x \in Notice
  PROVE  Occurs(x, notices') = Occurs(x, notices) +
           IF x.group \in ks[x.spec] THEN HeldIn(states, x) ELSE 0
<1> DEFINE said == [i \in SpecIds |-> SaidBy(states[i], ks[i])]
           all == FlattenSeq(said)
<1>1. setup \in Setups /\ states \in [SpecIds -> Streams] /\ notices \in Seq(BankNotice)
  BY DEF Typed, StatesTyped, NoticesTyped
<1>2. notices' = notices \o all
  BY DEF Said
<1> HIDE DEF said
<1>3. /\ all \in Seq(Notice)
      /\ Occurs(x, all) = IF x.group \in ks[x.spec] THEN HeldIn(states, x) ELSE 0
  BY <1>1, StreamsSay DEF said
<1> HIDE DEF all
<1>4. all \in Seq(BankNotice)
  BY <1>1, <1>3, NoticeInBank
<1>5. Occurs(x, notices \o all) = Occurs(x, notices) + Occurs(x, all)
  BY <1>1, <1>4, OccursConcat
<1> QED BY <1>2, <1>3, <1>5

(* A call returns: the groups that may hold notices have said them, those  *)
(* that close among them.                                                  *)
LEMMA ReturnOwes ==
  ASSUME Typed, UNCHANGED setup, Return, AllOwn(states),
         ~call.left => \A i \in SpecIds : \A k \in DOMAIN states[i] \ GroupsIn(call.rows) :
                         states[i][k].pending = <<>>
  PROVE  /\ AllOwn(states') /\ AllSilent(states')
         /\ owed' = owed /\ broken' = broken /\ file' = file /\ call' = Idle
         /\ Balanced(owed, notices, states) => Balanced(owed', notices', states')
<1> DEFINE ks == [i \in SpecIds |-> Speaking(i)]
<1>1. /\ setup \in Setups /\ states \in [SpecIds -> Streams]
      /\ \A i \in SpecIds : GroupsIn(call.rows) \subseteq DOMAIN states[i]
  BY UnderWay DEF Return, Steps, Typed, StatesTyped
<1>2. /\ notices' = notices \o FlattenSeq([i \in SpecIds |-> Said(i, Speaking(i))])
      /\ states' = [i \in SpecIds |->
           Silent([k \in DOMAIN states[i] \ Finished(i) |-> states[i][k]], Speaking(i))]
      /\ owed' = owed /\ broken' = broken /\ file' = file /\ call' = Idle
  BY DEF Return
<1>3. ASSUME NEW i \in SpecIds
      PROVE  /\ Speaking(i) \subseteq DOMAIN states[i] /\ Speaking(i) \subseteq Keys
             /\ \A k \in DOMAIN states[i] \ Speaking(i) : states[i][k].pending = <<>>
  <2>1. DOMAIN states[i] \subseteq Keys
    BY <1>1, StreamsAre
  <2>2. CASE call.left
    BY <2>1, <2>2 DEF Speaking
  <2>3. CASE ~call.left
    BY <1>1, <2>1, <2>3 DEF Speaking
  <2> QED BY <2>2, <2>3
<1>4. ASSUME NEW i \in SpecIds
      PROVE  /\ states'[i] \in Streams /\ DOMAIN states'[i] \subseteq DOMAIN states[i]
             /\ \A k \in DOMAIN states'[i] : /\ states'[i][k].pending = <<>>
                                             /\ states'[i][k].session = states[i][k].session
  <2> DEFINE J == DOMAIN states[i] \ Finished(i)
             left == [k \in J |-> states[i][k]]
  <2>1. states'[i] = Silent(left, Speaking(i))
    BY <1>2
  <2>2. states[i] \in Streams /\ J \subseteq DOMAIN states[i]
    BY <1>1
  <2>3. Silent(left, Speaking(i)) \in Streams /\ DOMAIN Silent(left, Speaking(i)) = J
    BY <2>2, SilentTyped
  <2>4. ASSUME NEW k \in J
        PROVE  /\ Silent(left, Speaking(i))[k].pending = <<>>
               /\ Silent(left, Speaking(i))[k].session = states[i][k].session
    <3>1. states[i][k] \in Stream /\ left[k] = states[i][k] /\ k \in DOMAIN left
      BY <2>2, StreamsAre
    <3>2. CASE k \in Speaking(i)
      <4>1. Silent(left, Speaking(i))[k] = [states[i][k] EXCEPT !.pending = <<>>]
        BY <3>1, <3>2 DEF Silent
      <4> QED BY <3>1, <4>1 DEF Stream
    <3>3. CASE k \notin Speaking(i)
      <4>1. Silent(left, Speaking(i))[k] = states[i][k]
        BY <3>1, <3>3 DEF Silent
      <4>2. states[i][k].pending = <<>>
        BY <1>3, <2>2, <3>3
      <4> QED BY <4>1, <4>2
    <3> QED BY <3>2, <3>3
  <2> HIDE DEF J, left
  <2> QED BY <2>1, <2>2, <2>3, <2>4
<1>5. AllSilent(states')
  BY <1>4 DEF AllSilent
<1>6. AllOwn(states')
  <2> SUFFICES ASSUME NEW i \in SpecIds, NEW k \in DOMAIN states'[i]
               PROVE  OwnPending(i, k, states'[i][k])
    BY DEF AllOwn
  <2>1. k \in DOMAIN states[i] /\ OwnPending(i, k, states[i][k])
    BY <1>4 DEF AllOwn
  <2>2. states'[i][k].pending = <<>> /\ states'[i][k].session = states[i][k].session
    BY <1>4
  <2> QED BY <2>1, <2>2, OwnSilent
<1>7. states' \in [SpecIds -> Streams]
  BY <1>2, <1>4
<1>8. ks \in [SpecIds -> SUBSET Keys] /\ \A i \in SpecIds : ks[i] \subseteq DOMAIN states[i]
  BY <1>3
<1>9. notices' = notices \o FlattenSeq([i \in SpecIds |-> Said(i, ks[i])])
  BY <1>2
<1>10. \A i \in SpecIds : ks[i] = Speaking(i)
  OBVIOUS
<1> HIDE DEF ks
<1>11. ASSUME NEW x \in Notice, Balanced(owed, notices, states)
       PROVE  Has(owed', x) = Occurs(x, notices') + HeldIn(states', x)
  <2>1. x.spec \in SpecIds
    BY DEF Notice
  <2>2. Has(owed, x) = Occurs(x, notices) + HeldIn(states, x)
    BY <1>11 DEF Balanced
  <2>3. HeldIn(states', x) = 0
    BY <1>4, <1>7, <2>1, SilentHold
  <2>4. x.group \notin ks[x.spec] => HeldIn(states, x) = 0
    <3>1. ASSUME x.group \notin ks[x.spec], x.group \in DOMAIN states[x.spec]
          PROVE  states[x.spec][x.group].pending = <<>>
      BY <1>3, <1>10, <2>1, <3>1
    <3> QED BY <1>1, <3>1, SilentHold
  <2>5. Occurs(x, notices') = Occurs(x, notices) + HeldIn(states, x)
    BY <1>8, <1>9, <2>4, SaidJoin
  <2>6. HeldIn(states, x) \in Nat /\ Occurs(x, notices) \in Nat
    BY <1>1, HeldNumber, OccursFinite DEF Typed, NoticesTyped
  <2> QED BY <1>2, <2>2, <2>3, <2>5, <2>6
<1> QED BY <1>2, <1>5, <1>6, <1>11 DEF Balanced

(* The caller takes the queue.                                             *)
LEMMA TakeOwes ==
  ASSUME Typed, TakeNotices, IsBagOf(owed, Notice)
  PROVE  /\ IsBagOf(owed', Notice) /\ states' = states /\ broken' = broken
         /\ noticesLeft' = noticesLeft /\ file' = file /\ call' = call /\ call = Idle
         /\ Balanced(owed, notices, states) => Balanced(owed', notices', states')
<1>1. /\ owed' = owed (-) BagOf(notices) /\ notices' = <<>> /\ states' = states
      /\ broken' = broken /\ noticesLeft' = noticesLeft /\ file' = file
      /\ call' = call /\ call = Idle
  BY DEF TakeNotices, kept
<1>2. notices \in Seq(BankNotice) /\ states \in [SpecIds -> Streams]
  BY DEF Typed, NoticesTyped, StatesTyped
<1>3. IsBagOf(BagOf(notices), BankNotice) /\ \A n : Has(BagOf(notices), n) = Occurs(n, notices)
  BY <1>2, BagOfIs
<1> DEFINE taken == BagOf(notices)
<1> HIDE DEF taken
<1>4. /\ IsBagOf(owed (-) taken, Notice)
      /\ \A n : Has(taken, n) <= Has(owed, n) => Has(owed (-) taken, n) = Has(owed, n) - Has(taken, n)
  BY <1>3, BagsLess DEF taken
<1>5. ASSUME NEW x \in Notice, Balanced(owed, notices, states)
      PROVE  Has(owed', x) = Occurs(x, notices') + HeldIn(states', x)
  <2>1. Has(owed, x) = Occurs(x, notices) + HeldIn(states, x)
    BY <1>5 DEF Balanced
  <2>2. Occurs(x, notices) \in Nat /\ HeldIn(states, x) \in Nat
    BY <1>2, HeldNumber, OccursFinite
  <2>3. Has(taken, x) = Occurs(x, notices)
    BY <1>3 DEF taken
  <2>4. Has(owed', x) = Has(owed, x) - Has(taken, x)
    BY <1>1, <1>4, <2>1, <2>2, <2>3 DEF taken
  <2>5. Occurs(x, notices') = 0
    BY <1>1, OccursNever
  <2> QED BY <1>1, <2>1, <2>2, <2>3, <2>4, <2>5
<1> QED BY <1>1, <1>4, <1>5 DEF Balanced, taken

(* Groups are dropped: what they held is said.                             *)
LEMMA DropOwes ==
  ASSUME Typed, UNCHANGED setup, DropGroups, AllOwn(states)
  PROVE  /\ AllOwn(states') /\ owed' = owed /\ broken' = broken /\ noticesLeft' = noticesLeft
         /\ file' = file /\ call' = Idle
         /\ AllSilent(states) => AllSilent(states')
         /\ Balanced(owed, notices, states) => Balanced(owed', notices', states')
<1>1. PICK S \in SpecChoices, keys \in SUBSET Keys : DropLeaves(S, keys)
  BY DropIs
<1>2. /\ owed' = owed /\ broken' = broken /\ noticesLeft' = noticesLeft /\ file' = file
      /\ call' = Idle
  BY DEF DropGroups, history
<1> DEFINE ks == [i \in SpecIds |-> IF i \in S THEN keys \cap DOMAIN states[i] ELSE {}]
<1>3. states \in [SpecIds -> Streams]
  BY DEF Typed, StatesTyped
<1>4. ks \in [SpecIds -> SUBSET Keys] /\ \A i \in SpecIds : ks[i] \subseteq DOMAIN states[i]
  BY <1>1
<1>5. notices' = notices \o FlattenSeq([i \in SpecIds |-> Said(i, ks[i])])
  BY <1>1 DEF DropLeaves
<1>6. ASSUME NEW i \in SpecIds
      PROVE  /\ DOMAIN states'[i] = DOMAIN states[i] \ ks[i]
             /\ \A k \in DOMAIN states'[i] : states'[i][k] = states[i][k]
  <2>1. states'[i] = [k \in DOMAIN states[i] \ Dropped(S, keys, i) |-> states[i][k]]
    BY <1>1 DEF DropLeaves
  <2>2. DOMAIN states[i] \ Dropped(S, keys, i) = DOMAIN states[i] \ ks[i]
    BY DEF Dropped
  <2> QED BY <2>1, <2>2
<1> HIDE DEF ks
<1>7. AllOwn(states')
  BY <1>6 DEF AllOwn
<1>8. ASSUME AllSilent(states) PROVE AllSilent(states')
  BY <1>6, <1>8 DEF AllSilent
<1>9. ASSUME NEW x \in Notice, Balanced(owed, notices, states)
      PROVE  Has(owed', x) = Occurs(x, notices') + HeldIn(states', x)
  <2>1. x.spec \in SpecIds
    BY DEF Notice
  <2>2. Has(owed, x) = Occurs(x, notices) + HeldIn(states, x)
    BY <1>9 DEF Balanced
  <2>3. Occurs(x, notices') = Occurs(x, notices) +
          IF x.group \in ks[x.spec] THEN HeldIn(states, x) ELSE 0
    BY <1>4, <1>5, SaidJoin
  <2>4. HeldIn(states, x) \in Nat /\ Occurs(x, notices) \in Nat
    BY <1>3, HeldNumber, OccursFinite DEF Typed, NoticesTyped
  <2>5. /\ DOMAIN states'[x.spec] = DOMAIN states[x.spec] \ ks[x.spec]
        /\ \A k \in DOMAIN states'[x.spec] : states'[x.spec][k] = states[x.spec][k]
    BY <1>6, <2>1
  <2>6. CASE x.group \in ks[x.spec]
    <3>1. HeldIn(states', x) = 0
      BY <2>5, <2>6 DEF HeldIn
    <3> QED BY <1>2, <2>2, <2>3, <2>4, <2>6, <3>1
  <2>7. CASE x.group \notin ks[x.spec]
    <3>1. HeldIn(states', x) = HeldIn(states, x)
      BY <2>5, <2>7 DEF HeldIn
    <3> QED BY <1>2, <2>2, <2>3, <2>4, <2>7, <3>1
  <2> QED BY <2>6, <2>7
<1> QED BY <1>2, <1>7, <1>8, <1>9 DEF Balanced

(* A loaded bank owes what the file's streams hold.                        *)
LEMMA RestartOwes ==
  ASSUME Typed, UNCHANGED setup, Restart, AllOwn(file.bank.states)
  PROVE  /\ IsBagOf(owed', Notice) /\ AllOwn(states') /\ file' = file /\ call' = Idle
         /\ noticesLeft' = TRUE /\ Balanced(owed', notices', states')
<1>1. /\ states' = file.bank.states /\ notices' = <<>> /\ owed' = Pending(file.bank.states)
      /\ file' = file /\ call' = Idle /\ noticesLeft' = TRUE
  BY DEF Restart
<1>2. file.bank.states \in [SpecIds -> Streams] /\ setup \in Setups
  BY DEF Typed, FileTyped
<1> DEFINE ss == file.bank.states
<1>3. IsBagOf(Pending(ss), Notice) /\ \A x \in Notice : Has(Pending(ss), x) = HeldIn(ss, x)
  BY <1>2, PendingCounts
<1> HIDE DEF ss
<1>4. ASSUME NEW x \in Notice
      PROVE  Has(owed', x) = Occurs(x, notices') + HeldIn(states', x)
  <2>1. Occurs(x, notices') = 0
    BY <1>1, OccursNever
  <2>2. HeldIn(ss, x) \in Nat
    BY <1>2, HeldNumber DEF ss
  <2> QED BY <1>1, <1>3, <2>1, <2>2 DEF ss
<1> QED BY <1>1, <1>3, <1>4 DEF Balanced, ss

(* What is owed, and whose the held notices are.                           *)
OwedHeld == IsBagOf(owed, Notice) /\ (~broken => Balanced(owed, notices, states))
OwnHeld == AllOwn(states) /\ AllOwn(file.bank.states)
(* Where notices can be: until a call learns, none in its new streams and  *)
(* none of a row in what it queued; none in a stream where the bank need   *)
(* not look, nor, in a call that found it so, in the streams of groups that*)
(* the chunk has no rows of.                                               *)
NewSilent ==
  call.step \in MayRefuse =>
    \A i \in SpecIds : \A k \in DOMAIN states[i] :
      <<i, k>> \in call.fresh => states[i][k].pending = <<>>
SinceBegun ==
  call.step \in MayRefuse =>
    \A m \in DOMAIN notices : m > call.before.notices => notices[m].row = None
Known == ~noticesLeft => AllSilent(states)
LearningKnown == call.step = "learn" => noticesLeft
OthersSilent ==
  call.step = "learn" /\ ~call.left =>
    \A i \in SpecIds : \A k \in DOMAIN states[i] \ GroupsIn(call.rows) : states[i][k].pending = <<>>

InHand ==
  OwedHeld /\ OwnHeld /\ NewSilent /\ SinceBegun /\ Known /\ LearningKnown /\ OthersSilent

LEMMA OwedStands ==
  ASSUME UNCHANGED setup, IsBagOf(owed', Notice), ~broken' => Balanced(owed', notices', states'),
         AllOwn(states'), AllOwn(file'.bank.states), ~noticesLeft' => AllSilent(states')
  PROVE  OwedHeld' /\ OwnHeld' /\ Known'
<1>1. SpecIds' = SpecIds /\ Specs' = Specs /\ Notice' = Notice
  BY SetupStays
<1>2. OwedHeld'
  BY <1>1 DEF OwedHeld, IsBagOf, Balanced
<1>3. OwnHeld'
  BY <1>1 DEF OwnHeld, AllOwn, OwnPending
<1>4. Known'
  BY <1>1 DEF Known, AllSilent
<1> QED BY <1>2, <1>3, <1>4

LEMMA AtRestHeld ==
  ASSUME call' = Idle
  PROVE  NewSilent' /\ SinceBegun' /\ LearningKnown' /\ OthersSilent'
BY DEF NewSilent, SinceBegun, LearningKnown, OthersSilent, Idle, MayRefuse

LEMMA InitInHand ==
  ASSUME Init, Typed
  PROVE  InHand
<1>1. /\ owed = EmptyBag /\ notices = <<>> /\ states = [i \in SpecIds |-> <<>>] /\ call = Idle
      /\ file.bank.states = states
  BY DEF Init, Standing
<1>2. \A i \in SpecIds : DOMAIN states[i] = {}
  BY <1>1
<1>3. OwnHeld /\ Known
  BY <1>1, <1>2 DEF OwnHeld, AllOwn, Known, AllSilent
<1>4. EmptyBag = [n \in {} |-> 1]
  BY DEF EmptyBag, SetToBag
<1>5. IsBagOf(owed, Notice)
  <2>1. DOMAIN owed = {}
    BY <1>1, <1>4
  <2> QED BY <1>1, <1>4, <2>1 DEF IsBagOf
<1>6. ASSUME NEW n \in Notice PROVE Has(owed, n) = Occurs(n, notices) + HeldIn(states, n)
  <2>1. n.spec \in SpecIds
    BY DEF Notice
  <2>2. HeldIn(states, n) = 0
    BY <1>2, <2>1 DEF HeldIn
  <2>3. Occurs(n, notices) = 0
    BY <1>1, OccursNever
  <2>4. Has(owed, n) = 0
    BY <1>1, <1>4 DEF Has
  <2> QED BY <2>2, <2>3, <2>4
<1>7. OwedHeld
  BY <1>5, <1>6 DEF OwedHeld, Balanced
<1>8. NewSilent /\ SinceBegun /\ LearningKnown /\ OthersSilent
  BY <1>1 DEF NewSilent, SinceBegun, LearningKnown, OthersSilent, Idle, MayRefuse
<1> QED BY <1>3, <1>7, <1>8 DEF InHand

(* The steps that move no notice.                                          *)
LEMMA QuietHeld ==
  ASSUME UNCHANGED setup, InHand, UNCHANGED <<states, notices, owed, broken>>,
         noticesLeft' \in {noticesLeft, TRUE}, AllOwn(file'.bank.states)
  PROVE  OwedHeld' /\ OwnHeld' /\ Known'
<1>1. IsBagOf(owed, Notice) /\ (~broken => Balanced(owed, notices, states)) /\ AllOwn(states)
  BY DEF InHand, OwedHeld, OwnHeld
<1>2. ~noticesLeft => AllSilent(states)
  BY DEF InHand, Known
<1>3. ~noticesLeft' => AllSilent(states')
  <2>1. CASE noticesLeft' = noticesLeft
    BY <1>2, <2>1
  <2>2. CASE noticesLeft' = TRUE
    BY <2>2
  <2> QED BY <2>1, <2>2
<1>4. /\ IsBagOf(owed', Notice) /\ AllOwn(states')
      /\ ~broken' => Balanced(owed', notices', states')
  BY <1>1
<1> QED BY <1>3, <1>4, OwedStands

LEMMA BeginInHand ==
  ASSUME Typed, InHand, UNCHANGED setup, NEW rows \in Chunks, NEW form \in {"integer", "text"},
         Begin(rows, form)
  PROVE  InHand'
<1>1. IsBagOf(owed, Notice) /\ (~broken => Balanced(owed, notices, states)) /\ AllOwn(states)
      /\ AllOwn(file.bank.states) /\ (~noticesLeft => AllSilent(states))
  BY DEF InHand, OwedHeld, OwnHeld, Known
<1>2. /\ AllOwn(states') /\ owed' = owed /\ broken' = broken /\ noticesLeft' = noticesLeft
      /\ file' = file /\ call'.step = "check" /\ call'.before.notices = Len(notices)
      /\ Balanced(owed, notices, states) => Balanced(owed', notices', states')
      /\ \A i \in SpecIds : \A k \in DOMAIN states'[i] :
           \/ <<i, k>> \in call'.fresh /\ states'[i][k].pending = <<>>
           \/ <<i, k>> \notin call'.fresh /\ k \in DOMAIN states[i] /\ states'[i][k] = states[i][k]
      /\ \A m \in DOMAIN notices' : m > Len(notices) => notices'[m].row = None
  BY <1>1, BeginOwes
<1>3. ~noticesLeft' => AllSilent(states')
  BY <1>1, <1>2 DEF AllSilent
<1>4. OwedHeld' /\ OwnHeld' /\ Known'
  BY <1>1, <1>2, <1>3, OwedStands
<1>5. SpecIds' = SpecIds
  BY SetupStays
<1>6. NewSilent'
  BY <1>2, <1>5 DEF NewSilent
<1>7. SinceBegun'
  BY <1>2 DEF SinceBegun
<1>8. LearningKnown' /\ OthersSilent'
  BY <1>2 DEF LearningKnown, OthersSilent
<1> QED BY <1>4, <1>6, <1>7, <1>8 DEF InHand

LEMMA RefusalInHand ==
  ASSUME Typed, InHand, UNCHANGED setup, Refusal
  PROVE  InHand'
<1>1. IsBagOf(owed, Notice) /\ (~broken => Balanced(owed, notices, states)) /\ AllOwn(states)
      /\ AllOwn(file.bank.states) /\ (~noticesLeft => AllSilent(states))
  BY DEF InHand, OwedHeld, OwnHeld, Known
<1>2. call.step \in MayRefuse /\ call.step \in Steps
  BY RefusalIs DEF MayRefuse, Steps
<1>3. PICK cores \in [Formulas -> Core] : Refuse(cores)
  BY RefusalIs
<1>4. /\ states' = Forget(states, call.fresh) /\ RefitsRestored /\ call' = Idle
      /\ owed' = owed /\ broken' = broken /\ noticesLeft' = noticesLeft /\ file' = file
  BY <1>3 DEF Refuse
<1>5. /\ \A i \in SpecIds : \A k \in DOMAIN states[i] :
           <<i, k>> \in call.fresh => states[i][k].pending = <<>>
      /\ \A m \in DOMAIN notices : m > call.before.notices => notices[m].row = None
  BY <1>2 DEF InHand, NewSilent, SinceBegun
<1>6. /\ AllOwn(states') /\ (AllSilent(states) => AllSilent(states'))
      /\ Balanced(owed, notices, states) => Balanced(owed, notices', states')
  BY <1>1, <1>2, <1>4, <1>5, PutBackOwes
<1>7. OwedHeld' /\ OwnHeld' /\ Known'
  BY <1>1, <1>4, <1>6, OwedStands
<1> QED BY <1>4, <1>7, AtRestHeld DEF InHand

LEMMA PhaseInHand ==
  ASSUME Typed, InHand, UNCHANGED setup, PhaseRefuses
  PROVE  InHand'
<1>1. IsBagOf(owed, Notice) /\ AllOwn(states) /\ AllOwn(file.bank.states)
  BY DEF InHand, OwedHeld, OwnHeld
<1>2. /\ states' = Forget(states, call.fresh) /\ RefitsRestored /\ call' = Idle
      /\ owed' = owed /\ broken' = TRUE /\ noticesLeft' = noticesLeft /\ file' = file
      /\ call.step = "learn"
  BY DEF PhaseRefuses, history
<1>3. call.step \in Steps /\ noticesLeft
  BY <1>2 DEF Steps, InHand, LearningKnown
<1>4. AllOwn(states')
  BY <1>1, <1>2, <1>3, PutBackOwes
<1>5. OwedHeld' /\ OwnHeld' /\ Known'
  BY <1>1, <1>2, <1>3, <1>4, OwedStands
<1> QED BY <1>2, <1>5, AtRestHeld DEF InHand

LEMMA LearnInHand ==
  ASSUME Typed, InHand, UNCHANGED setup, Learn \/ LearnPastBudget
  PROVE  InHand'
<1>1. IsBagOf(owed, Notice) /\ (~broken => Balanced(owed, notices, states)) /\ AllOwn(states)
      /\ AllOwn(file.bank.states)
  BY DEF InHand, OwedHeld, OwnHeld
<1>2. /\ IsBagOf(owed', Notice) /\ AllOwn(states')
      /\ Balanced(owed, notices, states) => Balanced(owed', notices', states')
      /\ broken' = broken /\ noticesLeft' = noticesLeft /\ file' = file
      /\ call'.step = "learn" /\ call'.left = call.left /\ call'.rows = call.rows
      /\ \A i \in SpecIds : DOMAIN states'[i] = DOMAIN states[i]
      /\ \A i \in SpecIds : \A k \in DOMAIN states[i] \ GroupsIn(call.rows) :
           states'[i][k] = states[i][k]
  BY <1>1, LearningOwes
<1>3. call.step = "learn" /\ noticesLeft
  BY DEF Learn, LearnPastBudget, InHand, LearningKnown
<1>4. OwedHeld' /\ OwnHeld' /\ Known'
  BY <1>1, <1>2, <1>3, OwedStands
<1>5. SpecIds' = SpecIds
  BY SetupStays
<1>6. OthersSilent'
  <2>1. ASSUME ~call.left, NEW i \in SpecIds, NEW k \in DOMAIN states[i] \ GroupsIn(call.rows)
        PROVE  states[i][k].pending = <<>>
    BY <1>3, <2>1 DEF InHand, OthersSilent
  <2>2. GroupsIn(call'.rows) = GroupsIn(call.rows)
    BY <1>2
  <2> QED BY <1>2, <1>5, <2>1, <2>2 DEF OthersSilent, GroupsIn
<1>7. NewSilent' /\ SinceBegun' /\ LearningKnown'
  BY <1>2, <1>3 DEF NewSilent, SinceBegun, LearningKnown, MayRefuse
<1> QED BY <1>4, <1>6, <1>7 DEF InHand

LEMMA ReturnInHand ==
  ASSUME Typed, InHand, UNCHANGED setup, Return
  PROVE  InHand'
<1>1. IsBagOf(owed, Notice) /\ (~broken => Balanced(owed, notices, states)) /\ AllOwn(states)
      /\ AllOwn(file.bank.states)
  BY DEF InHand, OwedHeld, OwnHeld
<1>2. ~call.left => \A i \in SpecIds : \A k \in DOMAIN states[i] \ GroupsIn(call.rows) :
                      states[i][k].pending = <<>>
  BY DEF Return, InHand, OthersSilent
<1>3. /\ AllOwn(states') /\ AllSilent(states')
      /\ owed' = owed /\ broken' = broken /\ file' = file /\ call' = Idle
      /\ Balanced(owed, notices, states) => Balanced(owed', notices', states')
  BY <1>1, <1>2, ReturnOwes
<1>4. OwedHeld' /\ OwnHeld' /\ Known'
  BY <1>1, <1>3, OwedStands
<1> QED BY <1>3, <1>4, AtRestHeld DEF InHand

(* The bank's other calls.                                                 *)
LEMMA CallsInHand ==
  ASSUME Typed, InHand, UNCHANGED setup, TakeNotices \/ DropGroups \/ Restart
  PROVE  InHand'
<1>1. IsBagOf(owed, Notice) /\ (~broken => Balanced(owed, notices, states)) /\ AllOwn(states)
      /\ AllOwn(file.bank.states) /\ (~noticesLeft => AllSilent(states))
  BY DEF InHand, OwedHeld, OwnHeld, Known
<1>2. CASE TakeNotices
  <2>1. /\ IsBagOf(owed', Notice) /\ states' = states /\ broken' = broken
        /\ noticesLeft' = noticesLeft /\ file' = file /\ call' = call /\ call = Idle
        /\ Balanced(owed, notices, states) => Balanced(owed', notices', states')
    BY <1>1, <1>2, TakeOwes
  <2>2. ~noticesLeft' => AllSilent(states')
    BY <1>1, <2>1
  <2>3. AllOwn(states') /\ AllOwn(file'.bank.states)
    BY <1>1, <2>1
  <2>4. OwedHeld' /\ OwnHeld' /\ Known'
    BY <1>1, <2>1, <2>2, <2>3, OwedStands
  <2> QED BY <2>1, <2>4, AtRestHeld DEF InHand
<1>3. CASE DropGroups
  <2>1. /\ AllOwn(states') /\ owed' = owed /\ broken' = broken /\ noticesLeft' = noticesLeft
        /\ file' = file /\ call' = Idle
        /\ AllSilent(states) => AllSilent(states')
        /\ Balanced(owed, notices, states) => Balanced(owed', notices', states')
    BY <1>1, <1>3, DropOwes
  <2>2. OwedHeld' /\ OwnHeld' /\ Known'
    BY <1>1, <2>1, OwedStands
  <2> QED BY <2>1, <2>2, AtRestHeld DEF InHand
<1>4. CASE Restart
  <2>1. /\ IsBagOf(owed', Notice) /\ AllOwn(states') /\ file' = file /\ call' = Idle
        /\ noticesLeft' = TRUE /\ Balanced(owed', notices', states')
    BY <1>1, <1>4, RestartOwes
  <2>2. OwedHeld' /\ OwnHeld' /\ Known'
    BY <1>1, <2>1, OwedStands
  <2> QED BY <2>1, <2>2, AtRestHeld DEF InHand
<1> QED BY <1>2, <1>3, <1>4

LEMMA QuietInHand ==
  ASSUME Typed, InHand, UNCHANGED setup,
         \/ GoesOn \/ PrepassPasses \/ SecondPhase \/ AssemblyFails
         \/ ClosedGroups \/ Save \/ UNCHANGED vars
  PROVE  InHand'
<1>1. AllOwn(states) /\ AllOwn(file.bank.states) /\ (~noticesLeft => AllSilent(states))
  BY DEF InHand, OwnHeld, Known
<1>2. SpecIds' = SpecIds
  BY SetupStays
<1>3. CASE GoesOn
  <2>1. /\ call.step \in MayRefuse /\ call'.step \in MayRefuse
        /\ call'.fresh = call.fresh /\ call'.before = call.before
        /\ UNCHANGED <<states, noticed, notices, noticesLeft, broken, file, owed>>
    BY <1>3, GoesOnIs DEF history
  <2>2. OwedHeld' /\ OwnHeld' /\ Known'
    BY <1>1, <2>1, QuietHeld
  <2>3. NewSilent'
    BY <1>2, <2>1 DEF InHand, NewSilent
  <2>4. SinceBegun'
    BY <2>1 DEF InHand, SinceBegun
  <2>5. LearningKnown' /\ OthersSilent'
    BY <2>1 DEF LearningKnown, OthersSilent, MayRefuse
  <2> QED BY <2>2, <2>3, <2>4, <2>5 DEF InHand
<1>4. CASE PrepassPasses
  <2>1. call.step \in Steps
    BY <1>4 DEF PrepassPasses, Steps
  <2>2. call \in CallType
    BY <2>1, UnderWay DEF Typed
  <2>3. /\ call'.step = "learn" /\ call'.left = noticesLeft /\ call'.rows = call.rows
        /\ noticesLeft' = TRUE /\ UNCHANGED <<states, notices, broken, file, owed>>
    BY <1>4, <2>2 DEF PrepassPasses, CallType, kept, history
  <2>4. OwedHeld' /\ OwnHeld' /\ Known'
    BY <1>1, <2>3, QuietHeld
  <2>5. OthersSilent'
    BY <1>1, <1>2, <2>3 DEF OthersSilent, AllSilent
  <2>6. NewSilent' /\ SinceBegun' /\ LearningKnown'
    BY <2>3 DEF NewSilent, SinceBegun, LearningKnown, MayRefuse
  <2> QED BY <2>4, <2>5, <2>6 DEF InHand
<1>5. CASE SecondPhase
  <2>1. call.step = "learn" /\ call.step \in Steps
    BY <1>5 DEF SecondPhase, Steps
  <2>2. call \in CallType
    BY <2>1, UnderWay DEF Typed
  <2>3. /\ call'.step = "learn" /\ call'.left = call.left /\ call'.rows = call.rows
        /\ UNCHANGED <<states, notices, noticesLeft, broken, file, owed>>
    BY <1>5, <2>1, <2>2 DEF SecondPhase, CallType, kept, history
  <2>4. OwedHeld' /\ OwnHeld' /\ Known'
    BY <1>1, <2>3, QuietHeld
  <2>5. OthersSilent'
    BY <1>2, <2>1, <2>3 DEF InHand, OthersSilent, GroupsIn
  <2>6. NewSilent' /\ SinceBegun' /\ LearningKnown'
    BY <2>1, <2>3 DEF NewSilent, SinceBegun, LearningKnown, MayRefuse, InHand
  <2> QED BY <2>4, <2>5, <2>6 DEF InHand
<1>6. CASE AssemblyFails \/ ClosedGroups \/ Save
  <2>1. call' = Idle /\ UNCHANGED <<states, notices, noticesLeft, broken, owed>>
    BY <1>6 DEF AssemblyFails, ClosedGroups, Save, kept, history
  <2>2. AllOwn(file'.bank.states)
    <3>1. CASE Save
      <4>1. file'.bank.states = states
        BY <3>1, SaveIs
      <4> QED BY <1>1, <4>1
    <3>2. CASE AssemblyFails \/ ClosedGroups
      BY <1>1, <3>2 DEF AssemblyFails, ClosedGroups
    <3> QED BY <1>6, <3>1, <3>2
  <2>3. OwedHeld' /\ OwnHeld' /\ Known'
    BY <2>1, <2>2, QuietHeld
  <2> QED BY <2>1, <2>3, AtRestHeld DEF InHand
<1>7. CASE UNCHANGED vars
  <2>1. UNCHANGED <<states, notices, noticesLeft, broken, owed, call, file>>
    BY <1>7 DEF vars, kept, history
  <2>2. OwedHeld' /\ OwnHeld' /\ Known'
    BY <1>1, <2>1, QuietHeld
  <2>3. NewSilent' /\ OthersSilent'
    BY <1>2, <2>1 DEF InHand, NewSilent, OthersSilent, GroupsIn
  <2>4. SinceBegun' /\ LearningKnown'
    BY <2>1 DEF InHand, SinceBegun, LearningKnown
  <2> QED BY <2>2, <2>3, <2>4 DEF InHand
<1> QED BY <1>3, <1>4, <1>5, <1>6, <1>7

LEMMA StepInHand ==
  ASSUME Typed, InHand, [Next]_vars
  PROVE  InHand'
<1>1. CASE UNCHANGED vars
  <2>1. UNCHANGED setup
    BY <1>1 DEF vars
  <2> QED BY <1>1, <2>1, QuietInHand
<1>2. CASE Next
  <2>1. Step /\ UNCHANGED setup
    BY <1>2 DEF Next
  <2>2. CASE \E rows \in Chunks, form \in {"integer", "text"} : Begin(rows, form)
    BY <2>1, <2>2, BeginInHand
  <2>3. CASE Refusal
    BY <2>1, <2>3, RefusalInHand
  <2>4. CASE PhaseRefuses
    BY <2>1, <2>4, PhaseInHand
  <2>5. CASE Learn \/ LearnPastBudget
    BY <2>1, <2>5, LearnInHand
  <2>6. CASE Return
    BY <2>1, <2>6, ReturnInHand
  <2>7. CASE TakeNotices \/ DropGroups \/ Restart
    BY <2>1, <2>7, CallsInHand
  <2>8. CASE GoesOn \/ PrepassPasses \/ SecondPhase \/ AssemblyFails \/ ClosedGroups \/ Save
    BY <2>1, <2>8, QuietInHand
  <2> QED BY <2>1, <2>2, <2>3, <2>4, <2>5, <2>6, <2>7, <2>8 DEF Step, Refusal, GoesOn
<1> QED BY <1>1, <1>2

(* Counts that agree are bags that agree.                                  *)
LEMMA HeldOnceHolds ==
  ASSUME Typed, OwedHeld, OwnHeld, ~broken
  PROVE  HeldOnce
<1> DEFINE inQueue == BagOf(notices)
           inStreams == Pending(states)
           held == inQueue (+) inStreams
           rowed == {n \in DOMAIN held : n.row # None}
<1>1. /\ notices \in Seq(BankNotice) /\ states \in [SpecIds -> Streams] /\ setup \in Setups
      /\ AllOwn(states) /\ IsBagOf(owed, Notice) /\ Balanced(owed, notices, states)
  BY DEF Typed, NoticesTyped, StatesTyped, OwedHeld, OwnHeld
<1>2. IsBagOf(inQueue, BankNotice) /\ \A n : Has(inQueue, n) = Occurs(n, notices)
  BY <1>1, BagOfIs
<1>3. IsBagOf(inStreams, Notice) /\ \A x \in Notice : Has(inStreams, x) = HeldIn(states, x)
  BY <1>1, PendingCounts
<1>4. Notice \subseteq BankNotice /\ \A n \in Notice : n.row # None
  <2>1. Notice \subseteq BankNotice
    BY <1>1, NoticeInBank
  <2>2. \A n \in Notice : n.row \in 1..MaxFed
    BY DEF Notice
  <2> QED BY <2>1, <2>2 DEF None
<1> HIDE DEF inQueue, inStreams, held, rowed
<1>5. IsBagOf(inStreams, BankNotice)
  BY <1>3, <1>4 DEF IsBagOf
<1>6. /\ IsBagOf(held, BankNotice)
      /\ \A n : Has(held, n) = Has(inQueue, n) + Has(inStreams, n)
  <2>1. IsBagOf(inQueue, BankNotice)
    BY <1>2
  <2>2. held = inQueue (+) inStreams
    BY DEF held
  <2> QED BY ONLY <1>5, <2>1, <2>2, BagsAdd
<1>7. \A n \in BankNotice : n.row # None => n \in Notice
  <2>1. MaxFed \in Nat
    BY <1>1, SetupTyped
  <2> QED BY <2>1 DEF BankNotice, Notice, None
<1>8. ASSUME NEW n \in Notice PROVE Has(owed, n) = Has(held, n)
  BY <1>1, <1>2, <1>3, <1>6 DEF Balanced
<1>9. rowed \subseteq Notice
  BY <1>6, <1>7 DEF IsBagOf, rowed
<1>10. DOMAIN owed = rowed
  <2>1. ASSUME NEW n \in DOMAIN owed PROVE n \in rowed
    <3>1. n \in Notice /\ Has(owed, n) # 0
      BY <1>1 DEF IsBagOf, Has
    <3>2. n \in DOMAIN held
      BY <1>8, <3>1 DEF Has
    <3> QED BY <1>4, <3>1, <3>2 DEF rowed
  <2>2. ASSUME NEW n \in rowed PROVE n \in DOMAIN owed
    <3>1. n \in Notice /\ Has(held, n) # 0
      BY <1>6, <1>9, <2>2 DEF IsBagOf, Has, rowed
    <3> QED BY <1>8, <3>1 DEF Has
  <2> QED BY <2>1, <2>2
<1>11. \A n \in rowed : owed[n] = held[n]
  BY <1>8, <1>9, <1>10 DEF Has, rowed
<1>12. owed = [n \in DOMAIN owed |-> owed[n]]
  BY <1>1 DEF IsBagOf
<1>13. owed = [n \in rowed |-> held[n]]
  BY <1>10, <1>11, <1>12
<1> QED BY <1>13 DEF HeldOnce, held, rowed, inQueue, inStreams

(* Every readiness notice that a row raised and the caller has not taken   *)
(* is held exactly once, in its stream or in the bank's queue, whatever    *)
(* calls were refused, failed late or closed its group, and over a load;   *)
(* and between calls the bank knows whether to look (take_notices,         *)
(* carry_notices, say_notices, notices_left).                              *)
THEOREM NoticesHeldOnce == Spec => []NoticesSaidOnce
<1>1. Init /\ Typed => InHand
  BY InitInHand
<1>2. Typed /\ InHand /\ [Next]_vars => InHand'
  BY StepInHand
<1>3. Typed /\ InHand => NoticesSaidOnce
  <2>1. ASSUME Typed, InHand PROVE NoticesSaidOnce
    <3>1. OwedHeld /\ OwnHeld /\ Known
      BY <2>1 DEF InHand
    <3>2. ~broken => HeldOnce
      BY <2>1, <3>1, HeldOnceHolds
    <3>3. HeldFound
      BY <3>1 DEF HeldFound, Known, AllSilent
    <3> QED BY <3>2, <3>3 DEF NoticesSaidOnce
  <2> QED BY <2>1
<1> QED BY <1>1, <1>2, <1>3, TypesKept, PTL DEF Spec
=============================================================================
