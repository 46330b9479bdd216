-------------------------- MODULE WindowRingProofs --------------------------
(***************************************************************************)
(* Proofs about a ring of snapshots, for every window, edge, cadence and   *)
(* budget, every number of rows and every cut of them into chunks and runs *)
(* of rows: what a ring holds counts as the budget says, and what a model  *)
(* reads through it is the window that was asked for.                      *)
(***************************************************************************)
EXTENDS WindowRing, SequenceTheorems, FiniteSetTheorems, WellFoundedInduction, TLAPS

-----------------------------------------------------------------------------
(* Numbers and recursion.                                                  *)

\* A set of naturals that is not empty has a least one: of the intervals up to
\* its members one contains no other.
LEMMA Least ==
  ASSUME NEW T, T \subseteq Nat, T # {}
  PROVE  \E n \in T : \A m \in T : n <= m
<1> DEFINE Up == {1 .. n : n \in T}
<1>1. Up \subseteq FiniteSubsetsOf(Nat) /\ Up # {}
  <2>1. \A n \in T : IsFiniteSet(1 .. n) /\ 1 .. n \in SUBSET Nat
    BY FS_Interval
  <2> QED BY <2>1 DEF FiniteSubsetsOf
<1>2. IsWellFoundedOn(StrictSubsetOrdering(Nat), FiniteSubsetsOf(Nat))
  BY FS_StrictSubsetOrderingWellFounded
<1>3. PICK x \in Up : \A y \in Up : ~(<<y, x>> \in StrictSubsetOrdering(Nat))
  <2> HIDE DEF Up
  <2> QED BY <1>1, <1>2, WFMin
<1>4. PICK n \in T : x = 1 .. n
  BY <1>3
<1>5. ASSUME NEW m \in T PROVE n <= m
  <2> SUFFICES ASSUME m < n PROVE FALSE
    BY <1>4
  <2>1. m \in Nat /\ n \in Nat
    BY <1>4
  <2>2. 1 .. m \subseteq 1 .. n /\ n \in 1 .. n /\ n \notin 1 .. m
    BY <2>1
  <2>3. 1 .. m \in Up /\ 1 .. m \in SUBSET Nat /\ 1 .. n \in SUBSET Nat
    BY <2>1
  <2>4. <<1 .. m, 1 .. n>> \in StrictSubsetOrdering(Nat)
    BY <2>2, <2>3 DEF StrictSubsetOrdering
  <2> QED BY <1>3, <1>4, <2>3, <2>4
<1> QED BY <1>4, <1>5

\* What holds of 0, and of n whenever of n - 1, holds up to N: T is where.
LEMMA UpTo ==
  ASSUME NEW N \in Nat, NEW T, 0 \in T, \A n \in 1 .. N : n - 1 \in T => n \in T
  PROVE  0 .. N \subseteq T
<1> SUFFICES ASSUME (0 .. N) \ T # {} PROVE FALSE
  OBVIOUS
<1>0. (0 .. N) \ T \subseteq Nat
  OBVIOUS
<1>1. PICK n \in (0 .. N) \ T : \A m \in (0 .. N) \ T : n <= m
  BY <1>0, Least
<1>2. n \in 1 .. N /\ n - 1 \in 0 .. N /\ n - 1 \in T
  BY <1>1
<1> QED BY <1>1, <1>2

\* A recursion over 0..N whose steps stay within V has a solution: F is the
\* step, as a function of the value before and the place.
Recurs(f, a, F, N) ==
  \A n \in 0 .. N : f[n] = IF n = 0 THEN a ELSE F[<<f[n - 1], n>>]

LEMMA Recursion ==
  ASSUME NEW V, NEW a \in V, NEW N \in Nat, NEW F \in [V \X (1 .. N) -> V]
  PROVE  \E f \in [0 .. N -> V] : Recurs(f, a, F, N)
<1> DEFINE Solved(m) == \E f \in [0 .. m -> V] : Recurs(f, a, F, m)
           T == {m \in 0 .. N : Solved(m)}
<1>1. 0 \in T
  <2>1. [n \in 0 .. 0 |-> a] \in [0 .. 0 -> V] /\ Recurs([n \in 0 .. 0 |-> a], a, F, 0)
    BY DEF Recurs
  <2> QED BY <2>1
<1>2. ASSUME NEW m \in 1 .. N, m - 1 \in T PROVE m \in T
  <2>1. m - 1 \in Nat /\ m \in 0 .. N /\ Solved(m - 1)
    BY <1>2
  <2>2. PICK f \in [0 .. m - 1 -> V] : Recurs(f, a, F, m - 1)
    BY <2>1
  <2> DEFINE g == [n \in 0 .. m |-> IF n = m THEN F[<<f[m - 1], m>>] ELSE f[n]]
  <2>3. g \in [0 .. m -> V]
    <3>1. f[m - 1] \in V /\ F[<<f[m - 1], m>>] \in V
      BY <2>1
    <3> QED BY <3>1
  <2>4. ASSUME NEW n \in 0 .. m PROVE g[n] = IF n = 0 THEN a ELSE F[<<g[n - 1], n>>]
    <3>1. CASE n = m
      <4>1. n # 0 /\ n - 1 \in 0 .. m /\ n - 1 # m /\ g[n - 1] = f[n - 1]
        BY <3>1
      <4> QED BY <3>1, <4>1
    <3>2. CASE n # m
      <4>1. n \in 0 .. m - 1 /\ g[n] = f[n]
        BY <3>2
      <4>2. n # 0 => n - 1 \in 0 .. m /\ n - 1 # m /\ g[n - 1] = f[n - 1]
        BY <3>2
      <4> QED BY <2>2, <4>1, <4>2 DEF Recurs
    <3> QED BY <3>1, <3>2
  <2>5. Recurs(g, a, F, m)
    <3> HIDE DEF g
    <3> QED BY <2>4 DEF Recurs
  <2> HIDE DEF g
  <2> QED BY <2>1, <2>3, <2>5
<1>3. N \in T
  <2> HIDE DEF T
  <2>1. 0 .. N \subseteq T
    BY <1>1, <1>2, UpTo
  <2> QED BY <2>1
<1> QED BY <1>3

-----------------------------------------------------------------------------
(* What a ring's snapshots take together.                                  *)

\* f holds the sums of the bytes of the first snapshots.
Sums(f, snaps) ==
  /\ f \in [0 .. Len(snaps) -> Nat]
  /\ f[0] = 0
  /\ \A n \in 1 .. Len(snaps) : f[n] = f[n - 1] + snaps[n].bytes

LEMMA SumsExist ==
  ASSUME NEW snaps \in Seq(Snapshot)
  PROVE  \E f : Sums(f, snaps)
<1> DEFINE N == Len(snaps)
           F == [p \in Nat \X (1 .. N) |-> p[1] + snaps[p[2]].bytes]
<1>1. N \in Nat /\ \A n \in 1 .. N : snaps[n].bytes \in Nat
  <2>1. \A n \in 1 .. N : snaps[n] \in Snapshot
    OBVIOUS
  <2> QED BY <2>1 DEF Snapshot, Small, Large
<1>2. F \in [Nat \X (1 .. N) -> Nat]
  BY <1>1
<1> HIDE DEF F
<1>3. PICK f \in [0 .. N -> Nat] : Recurs(f, 0, F, N)
  BY <1>1, <1>2, Recursion
<1>4. ASSUME NEW n \in 1 .. N PROVE f[n] = f[n - 1] + snaps[n].bytes
  <2>1. n \in 0 .. N /\ n # 0 /\ n - 1 \in 0 .. N
    BY <1>1
  <2>2. f[n] = F[<<f[n - 1], n>>] /\ f[n - 1] \in Nat
    BY <1>3, <2>1 DEF Recurs
  <2> QED BY <2>2 DEF F
<1>5. f[0] = 0
  BY <1>1, <1>3 DEF Recurs
<1> QED BY <1>1, <1>3, <1>4, <1>5 DEF Sums

\* Snapshots::bytes is the last of the sums.
LEMMA BytesAreSum ==
  ASSUME NEW snaps \in Seq(Snapshot), NEW f, Sums(f, snaps)
  PROVE  BytesOf(snaps) = f[Len(snaps)]
<1> DEFINE N == Len(snaps)
           E(g) == [n \in 0 .. N |-> IF n = 0 THEN 0 ELSE g[n - 1] + snaps[n].bytes]
           h == CHOOSE g : g = E(g)
<1>1. N \in Nat
  OBVIOUS
<1>2. f = E(f)
  BY <1>1 DEF Sums
<1>3. h = E(h)
  <2> HIDE DEF E
  <2> QED BY <1>2
<1>4. BytesOf(snaps) = h[N]
  BY DEF BytesOf
<1> DEFINE T == {n \in 0 .. N : h[n] = f[n]}
<1>5. 0 \in T
  <2>1. h[0] = 0
    <3> HIDE DEF h
    <3> QED BY <1>1, <1>3
  <2> HIDE DEF h
  <2> QED BY <1>1, <2>1 DEF Sums
<1>6. ASSUME NEW n \in 1 .. N, n - 1 \in T PROVE n \in T
  <2>1. n \in 0 .. N /\ n # 0
    BY <1>1
  <2>2. h[n] = h[n - 1] + snaps[n].bytes
    <3> HIDE DEF h
    <3> QED BY <1>3, <2>1
  <2> HIDE DEF h
  <2> QED BY <1>6, <2>1, <2>2 DEF Sums
<1>7. N \in T
  <2> HIDE DEF T
  <2>1. 0 .. N \subseteq T
    BY <1>1, <1>5, <1>6, UpTo
  <2> QED BY <1>1, <2>1
<1> HIDE DEF h
<1> QED BY <1>4, <1>7

LEMMA BytesTyped ==
  ASSUME NEW snaps \in Seq(Snapshot)
  PROVE  BytesOf(snaps) \in Nat /\ (snaps = <<>> => BytesOf(snaps) = 0)
<1>1. PICK f : Sums(f, snaps)
  BY SumsExist
<1>2. BytesOf(snaps) = f[Len(snaps)]
  BY <1>1, BytesAreSum
<1>3. Len(snaps) \in 0 .. Len(snaps) /\ (snaps = <<>> => Len(snaps) = 0)
  OBVIOUS
<1> QED BY <1>1, <1>2, <1>3 DEF Sums

\* A snapshot taken adds its bytes.
LEMMA BytesOfAppend ==
  ASSUME NEW snaps \in Seq(Snapshot), NEW e \in Snapshot
  PROVE  BytesOf(Append(snaps, e)) = BytesOf(snaps) + e.bytes
<1> DEFINE N == Len(snaps)
           more == Append(snaps, e)
<1>1. PICK f : Sums(f, snaps)
  BY SumsExist
<1>2. BytesOf(snaps) = f[N]
  BY <1>1, BytesAreSum
<1>3. N \in Nat /\ more \in Seq(Snapshot) /\ Len(more) = N + 1 /\ more[N + 1] = e
      /\ \A n \in 1 .. N : more[n] = snaps[n]
  OBVIOUS
<1>4. e.bytes \in Nat
  BY DEF Snapshot, Small, Large
<1> DEFINE g == [n \in 0 .. N + 1 |-> IF n = N + 1 THEN f[N] + e.bytes ELSE f[n]]
<1>5. Sums(g, more)
  <2> HIDE DEF more
  <2>1. f[N] \in Nat
    BY <1>1, <1>3 DEF Sums
  <2>2. g \in [0 .. N + 1 -> Nat]
    BY <1>1, <1>3, <1>4, <2>1 DEF Sums
  <2>3. g[0] = 0
    BY <1>1, <1>3 DEF Sums
  <2>4. ASSUME NEW n \in 1 .. N + 1 PROVE g[n] = g[n - 1] + more[n].bytes
    <3>1. n - 1 \in 0 .. N + 1 /\ n - 1 # N + 1 /\ g[n - 1] = f[n - 1]
      BY <1>3
    <3>2. CASE n = N + 1
      <4>1. n - 1 = N /\ n \in 0 .. N + 1 /\ g[n] = f[N] + e.bytes
        BY <1>3, <3>2
      <4> QED BY <1>3, <3>1, <3>2, <4>1
    <3>3. CASE n # N + 1
      <4>1. n \in 1 .. N /\ n \in 0 .. N + 1
        BY <1>3, <3>3
      <4> QED BY <1>1, <1>3, <3>1, <3>3, <4>1 DEF Sums
    <3> QED BY <3>2, <3>3
  <2> HIDE DEF g
  <2> QED BY <1>3, <2>2, <2>3, <2>4 DEF Sums
<1>6. BytesOf(more) = g[N + 1]
  <2> HIDE DEF g, more
  <2> QED BY <1>3, <1>5, BytesAreSum
<1>7. N + 1 \in 0 .. N + 1
  BY <1>3
<1> QED BY <1>2, <1>6, <1>7

\* Snapshots dropped at the front take their bytes with them.
LEMMA BytesOfRest ==
  ASSUME NEW snaps \in Seq(Snapshot), NEW k \in 0 .. Len(snaps)
  PROVE  /\ BytesOf(SubSeq(snaps, 1, k)) \in Nat
         /\ BytesOf(SubSeq(snaps, k + 1, Len(snaps))) =
              BytesOf(snaps) - BytesOf(SubSeq(snaps, 1, k))
<1> DEFINE N == Len(snaps)
           a == SubSeq(snaps, 1, k)
           b == SubSeq(snaps, k + 1, N)
<1>1. PICK f : Sums(f, snaps)
  BY SumsExist
<1>2. BytesOf(snaps) = f[N]
  BY <1>1, BytesAreSum
<1>3. N \in Nat /\ k \in Nat /\ k <= N /\ \A n \in 1 .. N : snaps[n] \in Snapshot
  OBVIOUS
<1>4. a \in Seq(Snapshot) /\ Len(a) = k /\ \A n \in 1 .. k : a[n] = snaps[n]
  <2>1. \A n \in 1 .. k : snaps[n] \in Snapshot
    BY <1>3
  <2> QED BY <1>3, <2>1, SubSeqProperties
<1>5. b \in Seq(Snapshot) /\ Len(b) = N - k /\ \A n \in 1 .. N - k : b[n] = snaps[k + n]
  <2>1. \A n \in k + 1 .. N : snaps[n] \in Snapshot
    BY <1>3
  <2>2. /\ b \in Seq(Snapshot) /\ Len(b) = IF k + 1 <= N THEN N - (k + 1) + 1 ELSE 0
        /\ \A n \in 1 .. N - (k + 1) + 1 : b[n] = snaps[k + 1 + n - 1]
    BY <1>3, <2>1, SubSeqProperties
  <2> HIDE DEF b
  <2>3. N - (k + 1) + 1 = N - k /\ Len(b) = N - k
    BY <1>3, <2>2
  <2>4. ASSUME NEW n \in 1 .. N - k PROVE b[n] = snaps[k + n]
    <3>1. n \in 1 .. N - (k + 1) + 1 /\ k + 1 + n - 1 = k + n
      BY <1>3
    <3> QED BY <2>2, <3>1
  <2> QED BY <2>2, <2>3, <2>4
<1> HIDE DEF a, b
<1> DEFINE g == [n \in 0 .. k |-> f[n]]
           h == [n \in 0 .. N - k |-> f[k + n] - f[k]]
<1>6. \A n \in 0 .. N : f[n] \in Nat
  BY <1>1 DEF Sums
<1>7. Sums(g, a)
  <2>1. g \in [0 .. k -> Nat] /\ g[0] = 0
    BY <1>1, <1>3, <1>6 DEF Sums
  <2>2. ASSUME NEW n \in 1 .. k PROVE g[n] = g[n - 1] + a[n].bytes
    <3>1. n \in 1 .. N /\ n \in 0 .. k /\ n - 1 \in 0 .. k
      BY <1>3
    <3> QED BY <1>1, <1>4, <3>1 DEF Sums
  <2> HIDE DEF g
  <2> QED BY <1>4, <2>1, <2>2 DEF Sums
<1>8. BytesOf(a) = f[k]
  <2>1. BytesOf(a) = g[k]
    <3> HIDE DEF g
    <3> QED BY <1>4, <1>7, BytesAreSum
  <2> QED BY <1>3, <2>1
<1>9. ASSUME NEW n \in 1 .. N - k
      PROVE  f[k + n] = f[k + (n - 1)] + b[n].bytes /\ b[n].bytes \in Nat
  <2>1. k + n \in 1 .. N /\ (k + n) - 1 = k + (n - 1)
    BY <1>3
  <2>2. b[n] \in Snapshot
    BY <1>5, ElementOfSeq
  <2>3. b[n].bytes \in Nat
    BY <2>2 DEF Snapshot, Small, Large
  <2> QED BY <1>1, <1>5, <2>1, <2>3 DEF Sums
<1>10. \A n \in 0 .. N - k : f[k + n] \in Nat /\ f[k + n] >= f[k]
  <2> DEFINE T == {n \in 0 .. N - k : f[k + n] >= f[k]}
  <2>1. 0 \in T
    BY <1>3, <1>6
  <2>2. ASSUME NEW n \in 1 .. N - k, n - 1 \in T PROVE n \in T
    <3>1. f[k + (n - 1)] \in Nat /\ f[k] \in Nat /\ f[k + (n - 1)] >= f[k]
      BY <1>3, <1>6, <2>2
    <3> QED BY <1>3, <1>9, <3>1
  <2>3. N - k \in Nat
    BY <1>3
  <2>4. 0 .. N - k \subseteq T
    <3> HIDE DEF T
    <3> QED BY <2>1, <2>2, <2>3, UpTo
  <2>5. \A n \in 0 .. N - k : k + n \in 0 .. N
    BY <1>3
  <2> QED BY <1>6, <2>4, <2>5
<1>11. Sums(h, b)
  <2>1. h \in [0 .. N - k -> Nat]
    <3>1. f[k] \in Nat
      BY <1>3, <1>6
    <3>2. ASSUME NEW n \in 0 .. N - k PROVE f[k + n] - f[k] \in Nat
      <4>1. f[k + n] \in Nat /\ f[k + n] >= f[k]
        BY <1>10
      <4> HIDE DEF h
      <4> QED BY <3>1, <4>1
    <3> QED BY <3>2
  <2>2. h[0] = 0
    BY <1>3, <1>6
  <2>3. ASSUME NEW n \in 1 .. N - k PROVE h[n] = h[n - 1] + b[n].bytes
    <3>1. n \in 0 .. N - k /\ n - 1 \in 0 .. N - k
      BY <1>3
    <3>2. h[n] = f[k + n] - f[k] /\ h[n - 1] = f[k + (n - 1)] - f[k]
      BY <3>1
    <3>3. f[k] \in Nat /\ f[k + (n - 1)] \in Nat
      BY <1>3, <1>6, <1>10, <3>1
    <3> HIDE DEF h
    <3> QED BY <1>9, <3>2, <3>3
  <2> HIDE DEF h
  <2> QED BY <1>5, <2>1, <2>2, <2>3 DEF Sums
<1>12. BytesOf(b) = f[N] - f[k]
  <2>1. BytesOf(b) = h[N - k]
    <3> HIDE DEF h
    <3> QED BY <1>5, <1>11, BytesAreSum
  <2>2. N - k \in 0 .. N - k /\ k + (N - k) = N
    BY <1>3
  <2> QED BY <2>1, <2>2
<1>13. f[k] \in Nat
  BY <1>3, <1>6
<1> QED BY <1>2, <1>8, <1>12, <1>13 DEF a, b

-----------------------------------------------------------------------------
(* A ring, and what thinning makes of it.                                  *)

Rings == [every : Nat, spacing : Nat, since : Nat, held : Nat, over : Nat,
          snaps : Seq(Snapshot)]

\* Each snapshot precedes the row it says, in the rows' order.
Placed(snaps, rows) ==
  /\ \A i \in 1 .. Len(snaps) :
       /\ snaps[i].rows \in 0 .. Len(rows) - 1
       /\ snaps[i].at = rows[snaps[i].rows + 1]
  /\ \A i, j \in 1 .. Len(snaps) : i < j => snaps[i].rows < snaps[j].rows

\* A cadence as it was, or coarser in what it counts by.
Coarser(v, r) ==
  /\ v.every >= r.every /\ v.spacing >= r.spacing
  /\ (v.every = 0 <=> r.every = 0) /\ (v.spacing = 0 <=> r.spacing = 0)
  /\ r.every > 0 => v.every > r.every
  /\ r.spacing > 0 => v.spacing > r.spacing

\* Neighbours are as near, in rows, as the cadence in force says; so are the first
\* of them and the first row learned, or a row that has left the window.
Neighbours(snaps, n) == \A i \in 1 .. Len(snaps) - 1 : snaps[i + 1].rows - snaps[i].rows <= n
FewBefore(first, n, rows) ==
  \/ first <= n - 1
  \/ \E p \in 1 .. first : HasLeft(Last(rows), rows[p]) /\ first - (p - 1) <= n
Counted(r, rows) ==
  r.every > 0 => Neighbours(r.snaps, r.every) /\ FewBefore(r.snaps[1].rows, r.every, rows)

\* What thinning makes of r on the way: its newest snapshot stays.
ThinOf(v, r, rows) ==
  /\ v \in Rings /\ v.since = r.since /\ v.over = r.over
  /\ v.held = BytesOf(v.snaps)
  /\ v.snaps # <<>> /\ Last(v.snaps) = Last(r.snaps)
  /\ Placed(v.snaps, rows) /\ Counted(v, rows)
  /\ v = r \/ Coarser(v, r)

SettingTyped ==
  /\ setting.window \in Nat \ {0} /\ setting.closed \in {"right", "both"}
  /\ setting.every \in Nat /\ setting.spacing \in Nat
  /\ setting.every > 0 \/ setting.spacing > 0
  /\ setting.budget.kind \in {"none", "thin", "refuse"} /\ setting.budget.bytes \in Nat
  /\ setting.embargo \in Nat /\ setting.maxRows \in Nat
  /\ setting.rows \subseteq [gap : Nat, accept : BOOLEAN, opens : BOOLEAN, odd : BOOLEAN]

LEMMA SettingIs == setting \in Settings => SettingTyped
  BY WindowRingAssumption DEF SettingTyped

LEMMA OtherSnapshots ==
  ASSUME NEW snaps \in Seq(Snapshot), Len(snaps) > 1
  PROVE  /\ EveryOther(snaps) \in Seq(Snapshot)
         /\ Len(EveryOther(snaps)) \in 1 .. Len(snaps) - 1
         /\ Last(EveryOther(snaps)) = Last(snaps)
         /\ \A rows : Placed(snaps, rows) => Placed(EveryOther(snaps), rows)
<1> DEFINE N == Len(snaps)
           left == (N + 1) \div 2
           other == [i \in 1 .. left |-> snaps[N - (left - i) * 2]]
<1>1. N \in Nat /\ N > 1 /\ left \in 1 .. N - 1 /\ 2 * left >= N /\ 2 * left <= N + 1
  OBVIOUS
<1>2. EveryOther(snaps) = other
  BY DEF EveryOther
<1> HIDE DEF left
<1>3. ASSUME NEW i \in 1 .. left
      PROVE  /\ N - (left - i) * 2 \in 1 .. N
             /\ i = left => N - (left - i) * 2 = N
  BY <1>1
<1>4. other \in [1 .. left -> Snapshot]
  <2>1. ASSUME NEW i \in 1 .. left PROVE snaps[N - (left - i) * 2] \in Snapshot
    BY <1>3, ElementOfSeq
  <2> QED BY <2>1
<1>5. other \in Seq(Snapshot) /\ Len(other) = left
  <2> HIDE DEF other
  <2>1. left \in Nat
    BY <1>1
  <2> QED BY <1>4, <2>1
<1>6. Last(other) = Last(snaps)
  <2>1. other[left] = snaps[N]
    BY <1>1, <1>3
  <2> HIDE DEF other
  <2> QED BY <1>5, <2>1 DEF Last
<1>7. ASSUME NEW rows, Placed(snaps, rows) PROVE Placed(other, rows)
  <2>1. ASSUME NEW i \in 1 .. left
        PROVE  /\ other[i].rows \in 0 .. Len(rows) - 1
               /\ other[i].at = rows[other[i].rows + 1]
    <3>1. other[i] = snaps[N - (left - i) * 2]
      OBVIOUS
    <3> HIDE DEF other
    <3> QED BY <1>3, <1>7, <3>1 DEF Placed
  <2>2. ASSUME NEW i \in 1 .. left, NEW j \in 1 .. left, i < j
        PROVE  other[i].rows < other[j].rows
    <3>1. other[i] = snaps[N - (left - i) * 2] /\ other[j] = snaps[N - (left - j) * 2]
      OBVIOUS
    <3>2. N - (left - i) * 2 < N - (left - j) * 2
      BY <1>1, <2>2
    <3> HIDE DEF other
    <3> QED BY <1>3, <1>7, <3>1, <3>2 DEF Placed
  <2> HIDE DEF other
  <2> QED BY <1>5, <2>1, <2>2 DEF Placed
<1> HIDE DEF other
<1> QED BY <1>1, <1>2, <1>5, <1>6, <1>7

\* What is left of them is twice as far apart.
LEMMA OthersCounted ==
  ASSUME NEW snaps \in Seq(Snapshot), Len(snaps) > 1, NEW rows, Placed(snaps, rows),
         NEW n \in Nat, Neighbours(snaps, n), FewBefore(snaps[1].rows, n, rows)
  PROVE  /\ Neighbours(EveryOther(snaps), n * 2)
         /\ FewBefore(EveryOther(snaps)[1].rows, n * 2, rows)
<1> DEFINE N == Len(snaps)
           left == (N + 1) \div 2
           other == [i \in 1 .. left |-> snaps[N - (left - i) * 2]]
<1>1. N \in Nat /\ N > 1 /\ left \in 1 .. N - 1 /\ 2 * left >= N /\ 2 * left <= N + 1
  OBVIOUS
<1>2. EveryOther(snaps) = other /\ Len(EveryOther(snaps)) = left
  <2>1. EveryOther(snaps) = other
    BY DEF EveryOther
  <2>2. EveryOther(snaps) \in Seq(Snapshot)
    BY OtherSnapshots
  <2>3. DOMAIN EveryOther(snaps) = 1 .. left
    BY <2>1
  <2> HIDE DEF other, left
  <2> QED BY <1>1, <2>1, <2>2, <2>3, LenProperties
<1>3. \A i \in 1 .. N : snaps[i].rows \in Nat
  <2>1. \A i \in 1 .. N : snaps[i] \in Snapshot
    BY ElementOfSeq
  <2> QED BY <2>1 DEF Snapshot
<1> HIDE DEF left
<1>4. \A i \in 1 .. left : other[i] = snaps[N - (left - i) * 2]
  OBVIOUS
<1> HIDE DEF other
<1>5. ASSUME NEW i \in 1 .. left - 1 PROVE other[i + 1].rows - other[i].rows <= n * 2
  <2> DEFINE a == N - (left - i) * 2
  <2>1. a \in Nat /\ a \in 1 .. N - 1 /\ a + 1 \in 1 .. N - 1 /\ a + 2 \in 1 .. N
        /\ N - (left - (i + 1)) * 2 = a + 2 /\ i \in 1 .. left /\ i + 1 \in 1 .. left
    BY <1>1
  <2>2. other[i] = snaps[a] /\ other[i + 1] = snaps[a + 2]
    BY <1>4, <2>1
  <2> HIDE DEF a
  <2>3. snaps[a + 1].rows - snaps[a].rows <= n /\ snaps[(a + 1) + 1].rows - snaps[a + 1].rows <= n
    BY <2>1 DEF Neighbours
  <2>4. (a + 1) + 1 = a + 2 /\ a \in 1 .. N /\ a + 1 \in 1 .. N
    BY <1>1, <2>1
  <2> QED BY <1>3, <2>1, <2>2, <2>3, <2>4
<1>6. FewBefore(other[1].rows, n * 2, rows)
  <2> DEFINE a == N - (left - 1) * 2
  <2>1. a \in {1, 2} /\ 1 \in 1 .. left /\ 1 \in 1 .. N - 1 /\ 1 \in 1 .. N /\ 2 \in 1 .. N
    BY <1>1
  <2>2. other[1] = snaps[a]
    BY <1>4, <2>1
  <2> HIDE DEF a
  <2>3. snaps[1 + 1].rows - snaps[1].rows <= n
    BY <2>1 DEF Neighbours
  <2>4. snaps[1].rows < snaps[2].rows
    BY <2>1 DEF Placed
  <2>5. /\ snaps[1].rows \in Nat /\ other[1].rows \in Nat /\ snaps[1].rows <= other[1].rows
        /\ other[1].rows <= snaps[1].rows + n
    BY <1>3, <2>1, <2>2, <2>3, <2>4
  <2>6. CASE snaps[1].rows <= n - 1
    BY <2>5, <2>6 DEF FewBefore
  <2>7. ASSUME NEW p \in 1 .. snaps[1].rows, HasLeft(Last(rows), rows[p]),
               snaps[1].rows - (p - 1) <= n
        PROVE  FewBefore(other[1].rows, n * 2, rows)
    <3>1. p \in 1 .. other[1].rows /\ other[1].rows - (p - 1) <= n * 2
      BY <2>5, <2>7
    <3> QED BY <2>7, <3>1 DEF FewBefore
  <2> QED BY <2>6, <2>7 DEF FewBefore
<1> QED BY <1>2, <1>5, <1>6 DEF Neighbours

LEMMA HalvedIsThin ==
  ASSUME SettingTyped, NEW r \in Rings, NEW v, NEW rows, ThinOf(v, r, rows),
         r.every > 0 \/ r.spacing > 0, ~Fits(v.snaps)
  PROVE  ThinOf(Halved(v), r, rows) /\ Len(Halved(v).snaps) < Len(v.snaps)
<1>1. v \in Rings /\ v.snaps \in Seq(Snapshot) /\ v.snaps # <<>>
  BY DEF ThinOf, Rings
<1>2. Len(v.snaps) > 1
  <2>1. Len(v.snaps) # 1
    BY DEF Fits
  <2>2. Len(v.snaps) \in Nat \ {0}
    BY <1>1, EmptySeq
  <2>3. \A n \in Nat \ {0} : n # 1 => n > 1
    OBVIOUS
  <2> QED BY <2>1, <2>2, <2>3, Zenon
<1> DEFINE snaps == EveryOther(v.snaps)
<1>3. /\ snaps \in Seq(Snapshot) /\ Len(snaps) \in 1 .. Len(v.snaps) - 1
      /\ Last(snaps) = Last(v.snaps) /\ Placed(snaps, rows)
  BY <1>1, <1>2, OtherSnapshots DEF ThinOf
<1>4. Halved(v) = [v EXCEPT !.snaps = snaps, !.every = @ * 2, !.spacing = @ * 2,
                            !.held = BytesOf(snaps)]
  BY DEF Halved
<1>5. BytesOf(snaps) \in Nat /\ snaps # <<>>
  <2> HIDE DEF snaps
  <2> QED BY <1>3, BytesTyped
<1> HIDE DEF snaps
<1>6. /\ Halved(v) \in Rings
      /\ Halved(v).since = v.since /\ Halved(v).over = v.over
      /\ Halved(v).every = v.every * 2 /\ Halved(v).spacing = v.spacing * 2
      /\ Halved(v).snaps = snaps /\ Halved(v).held = BytesOf(snaps)
  <2>1. /\ v.every * 2 \in Nat /\ v.spacing * 2 \in Nat
        /\ DOMAIN v = {"every", "spacing", "since", "held", "over", "snaps"}
    BY <1>1 DEF Rings
  <2>2. /\ Halved(v).since = v.since /\ Halved(v).over = v.over
        /\ Halved(v).every = v.every * 2 /\ Halved(v).spacing = v.spacing * 2
        /\ Halved(v).snaps = snaps /\ Halved(v).held = BytesOf(snaps)
    BY <1>4, <2>1
  <2>3. Halved(v) = [every |-> v.every * 2, spacing |-> v.spacing * 2, since |-> v.since,
                     held |-> BytesOf(snaps), over |-> v.over, snaps |-> snaps]
    BY <1>1, <1>4 DEF Rings
  <2> QED BY <1>1, <1>3, <1>5, <2>1, <2>2, <2>3 DEF Rings
<1>7. Coarser(Halved(v), r)
  <2>1. v.every \in Nat /\ v.spacing \in Nat /\ r.every \in Nat /\ r.spacing \in Nat
    BY <1>1 DEF Rings
  <2>2. v = r \/ Coarser(v, r)
    BY DEF ThinOf
  <2> QED BY <1>6, <2>1, <2>2 DEF Coarser
<1>8. Len(v.snaps) \in Nat
  BY <1>1
<1>9. Counted(Halved(v), rows)
  <2>1. v.every \in Nat /\ Placed(v.snaps, rows) /\ Counted(v, rows)
    BY <1>1 DEF ThinOf, Rings
  <2>2. ASSUME v.every > 0
        PROVE  Neighbours(snaps, v.every * 2) /\ FewBefore(snaps[1].rows, v.every * 2, rows)
    <3>1. Neighbours(v.snaps, v.every) /\ FewBefore(v.snaps[1].rows, v.every, rows)
      BY <2>1, <2>2 DEF Counted
    <3> QED BY <1>1, <1>2, <2>1, <3>1, OthersCounted DEF snaps
  <2>3. v.every * 2 > 0 => v.every > 0
    BY <2>1
  <2> QED BY <1>6, <2>2, <2>3 DEF Counted
<1> QED BY <1>3, <1>5, <1>6, <1>7, <1>8, <1>9 DEF ThinOf

\* A thinning ring gives up every other snapshot until it fits.
LEMMA ThinnedFits ==
  ASSUME SettingTyped, NEW r \in Rings, NEW rows, ThinOf(r, r, rows),
         r.every > 0 \/ r.spacing > 0
  PROVE  /\ ThinOf(Thinned(r), r, rows) /\ Fits(Thinned(r).snaps)
         /\ Fits(r.snaps) => Thinned(r) = r
<1> DEFINE N == Len(r.snaps)
           V == {v \in Rings : ThinOf(v, r, rows)}
           next(v) == IF Fits(v.snaps) THEN v ELSE Halved(v)
           F == [p \in V \X (1 .. N) |-> next(p[1])]
           E(g) == [n \in 0 .. N |-> IF n = 0 THEN r ELSE IF Fits(g[n - 1].snaps) THEN g[n - 1] ELSE Halved(g[n - 1])]
           h == CHOOSE g : g = E(g)
<1>1. N \in Nat /\ N > 0
  <2>1. r.snaps \in Seq(Snapshot) /\ r.snaps # <<>>
    BY DEF ThinOf, Rings
  <2> QED BY <2>1, EmptySeq
<1>2. r \in V
  OBVIOUS
<1>3. ASSUME NEW v \in V PROVE next(v) \in V
  <2>1. ~Fits(v.snaps) => ThinOf(Halved(v), r, rows)
    BY HalvedIsThin
  <2> QED BY <2>1 DEF ThinOf
<1> HIDE DEF V
<1>4. F \in [V \X (1 .. N) -> V]
  <2> HIDE DEF next
  <2> QED BY <1>3
<1>5. PICK f \in [0 .. N -> V] : Recurs(f, r, F, N)
  <2> HIDE DEF F
  <2> QED BY <1>1, <1>2, <1>4, Recursion
<1>6. f = E(f)
  <2>1. ASSUME NEW n \in 0 .. N
        PROVE  f[n] = IF n = 0 THEN r ELSE IF Fits(f[n - 1].snaps) THEN f[n - 1] ELSE Halved(f[n - 1])
    <3>1. f[n] = IF n = 0 THEN r ELSE F[<<f[n - 1], n>>]
      <4> HIDE DEF F
      <4> QED BY <1>5 DEF Recurs
    <3>2. ASSUME n # 0 PROVE F[<<f[n - 1], n>>] = next(f[n - 1])
      <4>1. n \in 1 .. N /\ n - 1 \in 0 .. N
        BY <1>1, <3>2
      <4>2. f[n - 1] \in V
        BY <4>1
      <4> HIDE DEF next
      <4> QED BY <4>1, <4>2
    <3> HIDE DEF F
    <3> QED BY <3>1, <3>2
  <2> QED BY <1>5, <2>1
<1> HIDE DEF F
<1>7. h = E(h)
  <2> HIDE DEF E
  <2> QED BY <1>6
<1>8. Thinned(r) = h[N]
  BY DEF Thinned
<1> HIDE DEF h
<1>9. h[0] = r
  BY <1>1, <1>7
<1>10. ASSUME NEW n \in 1 .. N PROVE h[n] = next(h[n - 1])
  <2>1. n \in 0 .. N /\ n # 0
    BY <1>1
  <2> QED BY <1>7, <2>1
<1> HIDE DEF E
<1> DEFINE Right(n) == /\ h[n] \in V
                       /\ Fits(h[n].snaps) \/ Len(h[n].snaps) + n <= N
                       /\ Fits(r.snaps) => h[n] = r
           T == {n \in 0 .. N : Right(n)}
<1>11. 0 \in T
  BY <1>1, <1>2, <1>9
<1>12. ASSUME NEW n \in 1 .. N, n - 1 \in T PROVE n \in T
  <2>1. h[n - 1] \in V /\ (Fits(h[n - 1].snaps) \/ Len(h[n - 1].snaps) + (n - 1) <= N)
        /\ (Fits(r.snaps) => h[n - 1] = r)
    BY <1>12
  <2>2. n \in 0 .. N
    BY <1>1
  <2>3. h[n] \in V
    <3> HIDE DEF next
    <3> QED BY <1>3, <1>10, <2>1
  <2>4. Fits(h[n].snaps) \/ Len(h[n].snaps) + n <= N
    <3>1. CASE Fits(h[n - 1].snaps)
      BY <1>10, <3>1
    <3>2. CASE ~Fits(h[n - 1].snaps)
      <4>1. h[n] = Halved(h[n - 1])
        BY <1>10, <3>2
      <4>2. ThinOf(h[n - 1], r, rows)
        BY <2>1 DEF V
      <4>3. Len(h[n].snaps) < Len(h[n - 1].snaps)
        BY <3>2, <4>1, <4>2, HalvedIsThin
      <4>4. Len(h[n - 1].snaps) \in Nat /\ Len(h[n].snaps) \in Nat
        <5>1. h[n - 1].snaps \in Seq(Snapshot) /\ h[n].snaps \in Seq(Snapshot)
          BY <2>1, <2>3 DEF V, Rings
        <5> QED BY <5>1, LenProperties
      <4> QED BY <1>1, <2>1, <3>2, <4>3, <4>4
    <3> QED BY <3>1, <3>2
  <2>5. Fits(r.snaps) => h[n] = r
    BY <1>10, <2>1
  <2> QED BY <2>2, <2>3, <2>4, <2>5
<1>13. N \in T
  <2>1. N \in 0 .. N
    BY <1>1
  <2> HIDE DEF T
  <2>2. 0 .. N \subseteq T
    BY <1>1, <1>11, <1>12, UpTo
  <2> QED BY <2>1, <2>2
<1>14. ThinOf(h[N], r, rows) /\ h[N] \in Rings
  BY <1>13 DEF V
<1>15. Fits(h[N].snaps)
  <2>1. h[N].snaps \in Seq(Snapshot) /\ h[N].snaps # <<>>
    BY <1>14 DEF ThinOf, Rings
  <2>2. Len(h[N].snaps) \in Nat \ {0}
    BY <2>1, EmptySeq
  <2>3. Fits(h[N].snaps) \/ Len(h[N].snaps) + N <= N
    BY <1>13
  <2>4. ~(Len(h[N].snaps) + N <= N)
    BY <1>1, <2>2
  <2> QED BY <2>3, <2>4
<1> QED BY <1>8, <1>13, <1>14, <1>15

-----------------------------------------------------------------------------
(* What a row that is learned does to a ring: `rows` are the stamps of the *)
(* rows the model has learned.                                             *)

Rising(rows) ==
  /\ rows \in Seq(Nat)
  /\ \A i, j \in 1 .. Len(rows) : i <= j => rows[i] <= rows[j]

\* The bytes are counted, and within the budget.
Budgeted(r) ==
  /\ r.held = BytesOf(r.snaps)
  /\ Refusing => r.held <= setting.budget.bytes
  /\ Thinning => Fits(r.snaps)

\* The cadence is the setting's, or a coarser one of the same kinds.
InForce(r) ==
  /\ r.every >= setting.every /\ r.spacing >= setting.spacing
  /\ (r.every = 0 <=> setting.every = 0) /\ (r.spacing = 0 <=> setting.spacing = 0)
Unthinned(r) == setting.spacing > 0 /\ r.spacing = setting.spacing

\* The newest snapshot is in the window, and the next is not due.
Timely(r, rows) ==
  /\ r.snaps # <<>>
  /\ r.since = Len(rows) - Last(r.snaps).rows - 1
  /\ r.every > 0 => r.since < r.every
  /\ r.spacing > 0 => Last(rows) - Last(r.snaps).at < r.spacing
  /\ ~HasLeft(Last(rows), Last(r.snaps).at)

\* Two snapshots before rows a + 1 and b + 1 are as near on the clock as the
\* setting says.
Spaced(a, b, rows) == \A j \in a + 1 .. b : rows[j] - rows[a + 1] < setting.spacing

\* So are all of a ring, and the first one and a snapshot that has left.
FirstOfAll(r) == r.snaps[1].rows = 0
AfterOneThatLeft(r, rows) ==
  \E p \in 1 .. r.snaps[1].rows :
    HasLeft(Last(rows), rows[p]) /\ Spaced(p - 1, r.snaps[1].rows, rows)
OnCadence(r, rows) ==
  /\ \A i \in 1 .. Len(r.snaps) - 1 : Spaced(r.snaps[i].rows, r.snaps[i + 1].rows, rows)
  /\ FirstOfAll(r) \/ AfterOneThatLeft(r, rows)

Offered(r, rows) ==
  /\ r \in Rings /\ Budgeted(r) /\ InForce(r) /\ Placed(r.snaps, rows)
  /\ r.over = 0 =>
       Timely(r, rows) /\ Counted(r, rows) /\ (Unthinned(r) => OnCadence(r, rows))
RingFits(r, rows) ==
  IF rows = <<>> THEN r = NewRing
  ELSE Offered(r, rows) /\ (r.over = 0 => ~HasLeft(Last(rows), r.snaps[1].at))

\* What has left the window stays outside, and what is older has left too.
LEMMA LeavesForGood ==
  ASSUME SettingTyped
  PROVE  /\ \A at, later, s \in Nat : at <= later /\ HasLeft(at, s) => HasLeft(later, s)
         /\ \A at, s, older \in Nat : older <= s /\ HasLeft(at, s) => HasLeft(at, older)
         /\ \A at \in Nat : ~HasLeft(at, at)
  BY DEF HasLeft, SettingTyped

LEMMA RowsGrow ==
  ASSUME NEW rows, Rising(rows), NEW at \in Nat, rows = <<>> \/ Last(rows) <= at
  PROVE  /\ Rising(Append(rows, at))
         /\ Len(Append(rows, at)) = Len(rows) + 1 /\ Len(rows) \in Nat
         /\ Last(Append(rows, at)) = at /\ Append(rows, at) # <<>>
         /\ \A i \in 1 .. Len(rows) : Append(rows, at)[i] = rows[i]
         /\ Append(rows, at)[Len(rows) + 1] = at
<1> DEFINE more == Append(rows, at)
           N == Len(rows)
<1>1. rows \in Seq(Nat) /\ N \in Nat /\ \A i \in 1 .. N : rows[i] \in Nat
  BY DEF Rising
<1>2. more \in Seq(Nat) /\ Len(more) = N + 1 /\ more[N + 1] = at
      /\ \A i \in 1 .. N : more[i] = rows[i]
  BY <1>1
<1> HIDE DEF more
<1>3. \A i \in 1 .. N : rows[i] <= at
  <2> SUFFICES ASSUME NEW i \in 1 .. N PROVE rows[i] <= at
    OBVIOUS
  <2>1. rows # <<>> /\ N \in 1 .. N /\ rows[N] <= at
    BY <1>1 DEF Last
  <2>2. rows[i] <= rows[N]
    BY <1>1, <2>1 DEF Rising
  <2> QED BY <1>1, <2>1, <2>2
<1>4. ASSUME NEW i \in 1 .. N + 1, NEW j \in 1 .. N + 1, i <= j PROVE more[i] <= more[j]
  <2>1. CASE j = N + 1
    BY <1>1, <1>2, <1>3, <2>1
  <2>2. CASE j # N + 1
    <3>1. i \in 1 .. N /\ j \in 1 .. N
      BY <1>1, <1>4, <2>2
    <3> QED BY <1>2, <1>4, <3>1 DEF Rising
  <2> QED BY <2>1, <2>2
<1>5. Last(more) = at /\ more # <<>>
  BY <1>1, <1>2 DEF Last
<1> QED BY <1>1, <1>2, <1>4, <1>5 DEF Rising, more

\* With a row more, the snapshots stand as they stood.
LEMMA PlacedGrows ==
  ASSUME NEW rows, Rising(rows), NEW at \in Nat, rows = <<>> \/ Last(rows) <= at,
         NEW snaps \in Seq(Snapshot), Placed(snaps, rows)
  PROVE  Placed(snaps, Append(rows, at))
<1>1. /\ Len(Append(rows, at)) = Len(rows) + 1 /\ Len(rows) \in Nat
      /\ \A i \in 1 .. Len(rows) : Append(rows, at)[i] = rows[i]
  BY RowsGrow
<1> DEFINE more == Append(rows, at)
<1> HIDE DEF more
<1>2. ASSUME NEW i \in 1 .. Len(snaps)
      PROVE  snaps[i].rows \in 0 .. Len(more) - 1 /\ snaps[i].at = more[snaps[i].rows + 1]
  <2>1. snaps[i].rows \in 0 .. Len(rows) - 1 /\ snaps[i].at = rows[snaps[i].rows + 1]
    BY DEF Placed
  <2>2. snaps[i].rows + 1 \in 1 .. Len(rows)
    BY <1>1, <2>1
  <2> QED BY <1>1, <2>1, <2>2 DEF more
<1> QED BY <1>2 DEF Placed, more

LEMMA SpacedGrows ==
  ASSUME NEW rows, Rising(rows), NEW at \in Nat, rows = <<>> \/ Last(rows) <= at,
         NEW a \in Nat, NEW b \in Nat, a < b, b <= Len(rows), Spaced(a, b, rows)
  PROVE  Spaced(a, b, Append(rows, at))
<1>1. Len(rows) \in Nat /\ \A i \in 1 .. Len(rows) : Append(rows, at)[i] = rows[i]
  BY RowsGrow
<1>2. a + 1 \in 1 .. Len(rows) /\ \A j \in a + 1 .. b : j \in 1 .. Len(rows)
  BY <1>1
<1> QED BY <1>1, <1>2 DEF Spaced

\* Rings stay counted, and spaced, with a row more.
LEMMA CountedGrows ==
  ASSUME SettingTyped, NEW rows, Rising(rows), NEW at \in Nat, rows # <<>>, Last(rows) <= at,
         NEW r \in Rings, r.snaps # <<>>, Placed(r.snaps, rows), Counted(r, rows)
  PROVE  Counted(r, Append(rows, at))
<1> DEFINE more == Append(rows, at)
           first == r.snaps[1].rows
<1>1. /\ Len(rows) \in Nat /\ Last(more) = at
      /\ \A i \in 1 .. Len(rows) : more[i] = rows[i] /\ rows[i] \in Nat
  <2>1. \A i \in 1 .. Len(rows) : rows[i] \in Nat
    BY DEF Rising
  <2> QED BY <2>1, RowsGrow
<1>2. first \in Nat /\ first < Len(rows)
  <2>1. 1 \in 1 .. Len(r.snaps)
    <3>1. r.snaps \in Seq(Snapshot)
      BY DEF Rings
    <3> QED BY <3>1, EmptySeq
  <2> QED BY <1>1, <2>1 DEF Placed
<1> HIDE DEF more, first
<1>3. ASSUME NEW n, FewBefore(first, n, rows) PROVE FewBefore(first, n, more)
  <2>1. CASE first <= n - 1
    BY <2>1 DEF FewBefore
  <2>2. ASSUME NEW p \in 1 .. first, HasLeft(Last(rows), rows[p]), first - (p - 1) <= n
        PROVE  FewBefore(first, n, more)
    <3>1. p \in 1 .. Len(rows) /\ Len(rows) \in 1 .. Len(rows)
      BY <1>1, <1>2
    <3>2. Last(rows) \in Nat /\ rows[p] \in Nat /\ more[p] = rows[p]
      BY <1>1, <3>1 DEF Last
    <3>3. HasLeft(at, more[p])
      BY <2>2, <3>2, LeavesForGood
    <3> QED BY <1>1, <2>2, <3>3 DEF FewBefore
  <2> QED BY <1>3, <2>1, <2>2 DEF FewBefore
<1> QED BY <1>3 DEF Counted, first, more

LEMMA CadenceGrows ==
  ASSUME SettingTyped, NEW rows, Rising(rows), NEW at \in Nat, rows # <<>>, Last(rows) <= at,
         NEW r \in Rings, r.snaps # <<>>, Placed(r.snaps, rows), OnCadence(r, rows)
  PROVE  OnCadence(r, Append(rows, at))
<1> DEFINE more == Append(rows, at)
<1>1. /\ Len(rows) \in Nat /\ Last(more) = at
      /\ \A i \in 1 .. Len(rows) : more[i] = rows[i] /\ rows[i] \in Nat
  <2>1. \A i \in 1 .. Len(rows) : rows[i] \in Nat
    BY DEF Rising
  <2> QED BY <2>1, RowsGrow
<1>2. r.snaps \in Seq(Snapshot) /\ Len(r.snaps) \in Nat \ {0}
  <2>1. r.snaps \in Seq(Snapshot)
    BY DEF Rings
  <2> QED BY <2>1, EmptySeq
<1>3. \A i \in 1 .. Len(r.snaps) : r.snaps[i].rows \in Nat /\ r.snaps[i].rows < Len(rows)
  BY <1>1 DEF Placed
<1> HIDE DEF more
<1>4. ASSUME NEW i \in 1 .. Len(r.snaps) - 1
      PROVE  Spaced(r.snaps[i].rows, r.snaps[i + 1].rows, more)
  <2>1. i \in 1 .. Len(r.snaps) /\ i + 1 \in 1 .. Len(r.snaps) /\ i < i + 1
    BY <1>2
  <2>2. r.snaps[i].rows < r.snaps[i + 1].rows
    BY <2>1 DEF Placed
  <2>3. Spaced(r.snaps[i].rows, r.snaps[i + 1].rows, rows)
    BY DEF OnCadence
  <2>4. r.snaps[i].rows \in Nat /\ r.snaps[i + 1].rows \in Nat /\ r.snaps[i + 1].rows <= Len(rows)
    BY <1>1, <1>3, <2>1
  <2> QED BY <2>2, <2>3, <2>4, SpacedGrows DEF more
<1>5. ASSUME AfterOneThatLeft(r, rows) PROVE AfterOneThatLeft(r, more)
  <2>1. PICK p \in 1 .. r.snaps[1].rows :
          HasLeft(Last(rows), rows[p]) /\ Spaced(p - 1, r.snaps[1].rows, rows)
    BY <1>5 DEF AfterOneThatLeft
  <2>2. r.snaps[1].rows \in Nat /\ r.snaps[1].rows < Len(rows)
    BY <1>2, <1>3
  <2>3. p \in 1 .. Len(rows) /\ Len(rows) \in 1 .. Len(rows) /\ p - 1 \in Nat /\ p - 1 < r.snaps[1].rows
    BY <1>1, <2>2
  <2>4. Spaced(p - 1, r.snaps[1].rows, more)
    BY <2>1, <2>2, <2>3, SpacedGrows DEF more
  <2>5. Last(rows) \in Nat /\ rows[p] \in Nat /\ more[p] = rows[p]
    BY <1>1, <2>3 DEF Last
  <2>6. HasLeft(at, more[p])
    BY <2>1, <2>5, LeavesForGood
  <2> QED BY <1>1, <2>4, <2>6 DEF AfterOneThatLeft
<1> QED BY <1>4, <1>5 DEF OnCadence, more

\* Thinning, or none, keeps what a ring has after a snapshot was taken.
LEMMA EnforceKeeps ==
  ASSUME SettingTyped, NEW rows, Last(rows) \in Nat,
         NEW r \in Rings, r.over = 0, r.held = BytesOf(r.snaps),
         Refusing => r.held <= setting.budget.bytes,
         InForce(r), Placed(r.snaps, rows), Timely(r, rows), Counted(r, rows),
         Unthinned(r) => OnCadence(r, rows)
  PROVE  Offered(Enforce(r), rows)
<1>1. r.snaps # <<>> /\ setting.budget.bytes \in Nat
  BY DEF Timely, SettingTyped
<1>2. r.held \in Nat /\ r.every \in Nat /\ r.spacing \in Nat
      /\ setting.every \in Nat /\ setting.spacing \in Nat
  BY DEF Rings, SettingTyped
<1>3. CASE Enforce(r) = r /\ (Thinning => Fits(r.snaps))
  BY <1>3 DEF Offered, Budgeted
<1>4. CASE setting.budget.kind = "none"
  <2>1. Enforce(r) = r /\ ~Thinning
    BY <1>4 DEF Enforce, Thinning
  <2> QED BY <1>3, <2>1
<1>5. CASE r.held <= setting.budget.bytes
  <2>1. Enforce(r) = r /\ Fits(r.snaps)
    BY <1>5 DEF Enforce, Fits
  <2> QED BY <1>3, <2>1
<1>6. CASE setting.budget.kind # "none" /\ ~(r.held <= setting.budget.bytes)
  <2>1. ~Refusing
    BY <1>6
  <2>2. Enforce(r) = Thinned(r)
    BY <1>6, <2>1 DEF Enforce
  <2>3. ThinOf(r, r, rows)
    BY <1>1 DEF ThinOf
  <2>4. r.every > 0 \/ r.spacing > 0
    BY <1>2 DEF InForce, SettingTyped
  <2> DEFINE t == Thinned(r)
  <2>5. ThinOf(t, r, rows) /\ Fits(t.snaps)
    BY <2>3, <2>4, ThinnedFits
  <2> HIDE DEF t
  <2>6. CASE t = r
    BY <1>3, <2>2, <2>5, <2>6 DEF t
  <2>7. CASE Coarser(t, r)
    <3>1. t \in Rings /\ t.every \in Nat /\ t.spacing \in Nat
      BY <2>5 DEF ThinOf, Rings
    <3>2. InForce(t) /\ ~Unthinned(t)
      BY <1>2, <2>7, <3>1 DEF InForce, Coarser, Unthinned
    <3>3. Timely(t, rows)
      <4>1. t.since = r.since /\ t.snaps # <<>> /\ Last(t.snaps) = Last(r.snaps)
        BY <2>5 DEF ThinOf
      <4>2. r.since \in Nat
        BY DEF Rings
      <4>3. t.every > 0 => t.since < t.every
        BY <1>2, <2>7, <3>1, <4>1, <4>2 DEF Timely, Coarser
      <4>4. t.spacing > 0 => r.spacing > 0 /\ r.spacing <= t.spacing
        BY <1>2, <2>7, <3>1 DEF Coarser
      <4> DEFINE d == Last(rows) - Last(r.snaps).at
      <4>5. ASSUME t.spacing > 0 PROVE d < t.spacing
        <5>1. d \in Int
          <6>1. r.snaps \in Seq(Snapshot) /\ Len(r.snaps) \in 1 .. Len(r.snaps)
            BY <1>1, EmptySeq DEF Rings
          <6>2. Last(r.snaps) \in Snapshot
            BY <6>1, ElementOfSeq DEF Last
          <6> QED BY <6>2 DEF Snapshot
        <5>2. d < r.spacing
          BY <4>4, <4>5 DEF Timely
        <5> HIDE DEF d
        <5> QED BY <1>2, <3>1, <4>4, <4>5, <5>1, <5>2
      <4> QED BY <4>1, <4>3, <4>5 DEF Timely
    <3>4. Budgeted(t)
      BY <2>1, <2>5 DEF Budgeted, ThinOf
    <3> QED BY <2>2, <2>5, <3>1, <3>2, <3>3, <3>4 DEF Offered, ThinOf, t
  <2> QED BY <2>5, <2>6, <2>7 DEF ThinOf
<1> QED BY <1>4, <1>5, <1>6

\* A ring of no rows is the new one, and has what any other has.
LEMMA RingIs ==
  ASSUME SettingTyped, NEW rows, NEW r, RingFits(r, rows)
  PROVE  /\ r \in Rings /\ Budgeted(r) /\ InForce(r) /\ Placed(r.snaps, rows)
         /\ rows # <<>> /\ r.over = 0 =>
              Timely(r, rows) /\ Counted(r, rows) /\ (Unthinned(r) => OnCadence(r, rows))
<1>1. CASE rows = <<>>
  <2>1. r = NewRing
    BY <1>1 DEF RingFits
  <2>2. <<>> \in Seq(Snapshot) /\ BytesOf(<<>>) = 0
    BY EmptySeq, BytesTyped
  <2>3. r \in Rings
    BY <2>1, <2>2 DEF NewRing, Rings, SettingTyped
  <2>4. Budgeted(r)
    BY <2>1, <2>2 DEF NewRing, Budgeted, Fits, SettingTyped
  <2>5. InForce(r)
    BY <2>1 DEF NewRing, InForce, SettingTyped
  <2>6. Placed(r.snaps, rows)
    BY <2>1 DEF NewRing, Placed
  <2> QED BY <1>1, <2>3, <2>4, <2>5, <2>6
<1>2. CASE rows # <<>>
  BY <1>2 DEF RingFits, Offered
<1> QED BY <1>1, <1>2

\* A snapshot taken before the row at `at`, which it then precedes.
LEMMA TakenKeeps ==
  ASSUME SettingTyped, NEW rows, Rising(rows), NEW at \in Nat, rows = <<>> \/ Last(rows) <= at,
         NEW bytes \in {Small, Large}, NEW r, RingFits(r, rows), r.over = 0,
         ~Crosses(r, bytes)
  PROVE  Offered(Taken(r, at, bytes, Len(rows)), Append(rows, at))
<1> DEFINE more == Append(rows, at)
           N == Len(rows)
           e == [at |-> at, bytes |-> bytes, rows |-> N]
           t == [r EXCEPT !.since = 0, !.held = @ + bytes, !.snaps = Append(@, e)]
<1>1. /\ Rising(more) /\ Len(more) = N + 1 /\ N \in Nat /\ Last(more) = at
      /\ more[N + 1] = at /\ \A i \in 1 .. N : more[i] = rows[i]
  BY RowsGrow
<1>2. r \in Rings /\ Budgeted(r) /\ InForce(r) /\ Placed(r.snaps, rows)
      /\ (rows # <<>> => Timely(r, rows) /\ Counted(r, rows) /\ (Unthinned(r) => OnCadence(r, rows)))
  BY RingIs
<1>3. bytes \in Nat /\ e \in Snapshot /\ r.held \in Nat /\ r.snaps \in Seq(Snapshot)
  BY <1>1, <1>2 DEF Small, Large, Snapshot, Rings
<1>e. e.rows = N /\ e.at = at /\ e.bytes = bytes
  OBVIOUS
<1> HIDE DEF e
<1> DEFINE snaps == Append(r.snaps, e)
           M == Len(r.snaps)
<1>4. /\ snaps \in Seq(Snapshot) /\ Len(snaps) = M + 1 /\ M \in Nat /\ Last(snaps) = e
      /\ snaps # <<>> /\ snaps[M + 1] = e /\ \A i \in 1 .. M : snaps[i] = r.snaps[i]
  BY <1>3 DEF Last
<1>5. BytesOf(snaps) = r.held + bytes
  <2>1. BytesOf(snaps) = BytesOf(r.snaps) + e.bytes
    BY <1>3, BytesOfAppend
  <2> QED BY <1>2, <1>e, <2>1 DEF Budgeted
<1> HIDE DEF more, snaps
<1>6. /\ t \in Rings /\ t.since = 0 /\ t.held = r.held + bytes /\ t.snaps = snaps /\ t.over = 0
      /\ t.every = r.every /\ t.spacing = r.spacing
  <2>0. t = [r EXCEPT !.since = 0, !.held = r.held + bytes, !.snaps = snaps]
    BY DEF snaps
  <2>1. t = [every |-> r.every, spacing |-> r.spacing, since |-> 0, held |-> r.held + bytes,
             over |-> r.over, snaps |-> snaps]
    <3> HIDE DEF t
    <3> QED BY <1>2, <2>0 DEF Rings
  <2>2. r.held + bytes \in Nat
    BY <1>3
  <2> QED BY <1>2, <1>4, <2>1, <2>2 DEF Rings
<1>7. Placed(snaps, more)
  <2>1. Placed(r.snaps, more)
    BY <1>2, <1>3, PlacedGrows DEF more
  <2>2. ASSUME NEW i \in 1 .. M + 1
        PROVE  snaps[i].rows \in 0 .. Len(more) - 1 /\ snaps[i].at = more[snaps[i].rows + 1]
    <3>1. CASE i = M + 1
      BY <1>1, <1>4, <1>e, <3>1
    <3>2. CASE i # M + 1
      <4>1. i \in 1 .. M
        BY <1>4, <3>2
      <4> QED BY <1>4, <2>1, <4>1 DEF Placed
    <3> QED BY <3>1, <3>2
  <2>3. ASSUME NEW i \in 1 .. M + 1, NEW j \in 1 .. M + 1, i < j
        PROVE  snaps[i].rows < snaps[j].rows
    <3>1. i \in 1 .. M /\ snaps[i] = r.snaps[i]
      BY <1>4, <2>3
    <3>2. r.snaps[i].rows \in 0 .. N - 1
      BY <1>2, <3>1 DEF Placed
    <3>3. CASE j = M + 1
      <4>1. snaps[j].rows = N
        BY <1>4, <1>e, <3>3
      <4>2. snaps[i].rows < N
        BY <1>1, <3>1, <3>2
      <4> QED BY <4>1, <4>2
    <3>4. CASE j # M + 1
      <4>1. j \in 1 .. M
        BY <1>4, <3>4
      <4> QED BY <1>2, <1>4, <2>3, <3>1, <4>1 DEF Placed
    <3> QED BY <3>3, <3>4
  <2> QED BY <1>4, <2>2, <2>3 DEF Placed
<1>8. Timely(t, more)
  <2>2. ~HasLeft(at, at)
    BY LeavesForGood
  <2>3. at - at = 0 /\ 0 = (N + 1) - N - 1
    BY <1>1
  <2> HIDE DEF t
  <2> QED BY <1>1, <1>4, <1>6, <1>e, <2>2, <2>3 DEF Timely
<1>9. InForce(t)
  BY <1>2, <1>6 DEF InForce
<1>10. ASSUME Unthinned(t) PROVE OnCadence(t, more)
  <2>1. Unthinned(r)
    BY <1>6, <1>10 DEF Unthinned
  <2>2. CASE M = 0
    <3>1. N = 0
      <4>1. r.snaps = <<>>
        BY <1>3, <2>2, EmptySeq
      <4>2. rows = <<>>
        BY <1>2, <4>1 DEF Timely
      <4> QED BY <4>2
    <3>2. FirstOfAll(t)
      BY <1>4, <1>6, <1>e, <2>2, <3>1 DEF FirstOfAll
    <3>3. 1 .. Len(t.snaps) - 1 = {}
      BY <1>4, <1>6, <2>2
    <3> QED BY <3>2, <3>3 DEF OnCadence
  <2>3. CASE M # 0
    <3>1. rows # <<>> /\ M \in 1 .. M
      <4>1. rows = <<>> => r = NewRing
        BY DEF RingFits
      <4>2. rows # <<>>
        BY <2>3, <4>1 DEF NewRing
      <4> QED BY <1>4, <2>3, <4>2
    <3>2. OnCadence(r, more)
      <4>1. r.snaps # <<>> /\ OnCadence(r, rows) /\ Last(rows) <= at
        BY <1>2, <2>1, <3>1 DEF Timely
      <4> QED BY <1>2, <3>1, <4>1, CadenceGrows DEF more
    <3>3. r.snaps[M].rows \in 0 .. N - 1 /\ r.snaps[M].at = rows[r.snaps[M].rows + 1]
      BY <1>2, <3>1 DEF Placed
    <3>4. Spaced(r.snaps[M].rows, N, more)
      <4> DEFINE a == r.snaps[M].rows
      <4>1. a \in Nat /\ a < N /\ a + 1 \in 1 .. N /\ N \in 1 .. N
        BY <1>1, <3>3
      <4>2. /\ r.since = N - a - 1
            /\ r.every > 0 => r.since < r.every
            /\ r.spacing > 0 => rows[N] - rows[a + 1] < r.spacing
        BY <1>2, <3>1, <3>3 DEF Timely, Last
      <4>3. r.spacing = setting.spacing /\ setting.spacing \in Nat /\ setting.spacing > 0
        BY <2>1 DEF Unthinned, SettingTyped
      <4> HIDE DEF a
      <4>5. ASSUME NEW j \in a + 1 .. N
            PROVE  more[j] - more[a + 1] < setting.spacing
        <5>1. j \in 1 .. N
          BY <1>1, <4>1
        <5>2. more[j] = rows[j] /\ more[a + 1] = rows[a + 1]
          BY <1>1, <4>1, <5>1
        <5>3. rows[j] <= rows[N] /\ rows[j] \in Nat /\ rows[N] \in Nat /\ rows[a + 1] \in Nat
          BY <4>1, <5>1 DEF Rising
        <5>4. rows[N] - rows[a + 1] < setting.spacing
          BY <4>2, <4>3
        <5> QED BY <4>3, <5>2, <5>3, <5>4
      <4> QED BY <4>5 DEF Spaced, a
    <3>5. ASSUME NEW i \in 1 .. Len(t.snaps) - 1
          PROVE  Spaced(t.snaps[i].rows, t.snaps[i + 1].rows, more)
      <4>1. t.snaps[i] = r.snaps[i] /\ i \in 1 .. M /\ t.snaps = snaps
        BY <1>4, <1>6, <3>5
      <4>2. CASE i = M
        <5>1. t.snaps[i + 1] = e /\ e.rows = N
          BY <1>4, <1>e, <4>1, <4>2
        <5> QED BY <3>4, <4>1, <4>2, <5>1
      <4>3. CASE i # M
        <5>1. i \in 1 .. Len(r.snaps) - 1 /\ i + 1 \in 1 .. M
          BY <1>4, <4>1, <4>3
        <5>2. t.snaps[i + 1] = r.snaps[i + 1]
          BY <1>4, <4>1, <5>1
        <5> QED BY <3>2, <4>1, <5>1, <5>2 DEF OnCadence
      <4> QED BY <4>2, <4>3
    <3>6. t.snaps[1] = r.snaps[1]
      BY <1>4, <1>6, <3>1
    <3>7. FirstOfAll(t) \/ AfterOneThatLeft(t, more)
      BY <3>2, <3>6 DEF OnCadence, FirstOfAll, AfterOneThatLeft
    <3> QED BY <3>5, <3>7 DEF OnCadence
  <2> QED BY <2>2, <2>3
<1>c. Counted(t, more)
  <2> DEFINE E == r.every
  <2>0. E \in Nat /\ t.every = E /\ t.snaps = snaps
    BY <1>2, <1>6 DEF Rings
  <2> HIDE DEF t, E
  <2> SUFFICES ASSUME E > 0 PROVE Neighbours(snaps, E) /\ FewBefore(snaps[1].rows, E, more)
    BY <2>0 DEF Counted
  <2>1. CASE M = 0
    <3>1. r.snaps = <<>>
      BY <1>3, <2>1, EmptySeq
    <3>2. rows = <<>>
      BY <1>2, <3>1 DEF Timely
    <3>3. snaps[1].rows = 0
      BY <1>4, <1>e, <2>1, <3>2
    <3>4. Neighbours(snaps, E)
      BY <1>4, <2>1 DEF Neighbours
    <3> QED BY <2>0, <3>3, <3>4 DEF FewBefore
  <2>2. CASE M # 0
    <3>1. rows # <<>> /\ M \in 1 .. M /\ r.snaps # <<>> /\ 1 \in 1 .. M
      <4>1. rows = <<>> => r = NewRing
        BY DEF RingFits
      <4>2. rows # <<>>
        BY <2>2, <4>1 DEF NewRing
      <4> QED BY <1>4, <2>2, <4>2
    <3>2. Timely(r, rows) /\ Counted(r, rows) /\ Last(rows) <= at
      BY <1>2, <3>1
    <3>3. Counted(r, more)
      BY <1>2, <3>1, <3>2, CountedGrows DEF more
    <3>4. Neighbours(r.snaps, E) /\ FewBefore(r.snaps[1].rows, E, more)
      BY <3>3 DEF Counted, E
    <3>5. r.snaps[M].rows \in 0 .. N - 1
      BY <1>2, <3>1 DEF Placed
    <3>6. N - r.snaps[M].rows <= E
      <4>1. r.since = N - r.snaps[M].rows - 1 /\ r.since < E
        BY <3>2 DEF Timely, Last, E
      <4> QED BY <1>1, <2>0, <3>5, <4>1
    <3>7. ASSUME NEW i \in 1 .. M PROVE snaps[i + 1].rows - snaps[i].rows <= E
      <4>1. CASE i = M
        BY <1>4, <1>e, <3>1, <3>6, <4>1
      <4>2. CASE i # M
        <5>1. i \in 1 .. M - 1 /\ i + 1 \in 1 .. M
          BY <1>4, <4>2
        <5>2. r.snaps[i + 1].rows - r.snaps[i].rows <= E
          BY <3>4, <5>1 DEF Neighbours
        <5> QED BY <1>4, <5>1, <5>2
      <4> QED BY <4>1, <4>2
    <3>8. Neighbours(snaps, E)
      <4>1. 1 .. Len(snaps) - 1 = 1 .. M
        BY <1>4
      <4> QED BY <3>7, <4>1 DEF Neighbours
    <3> QED BY <1>4, <3>1, <3>4, <3>8
  <2> QED BY <2>1, <2>2
<1>11. Refusing => t.held <= setting.budget.bytes
  <2>1. ~(r.held + bytes > setting.budget.bytes) \/ ~Refusing
    BY DEF Crosses
  <2>2. setting.budget.bytes \in Nat
    BY DEF SettingTyped
  <2> HIDE DEF t
  <2> QED BY <1>3, <1>6, <2>1, <2>2
<1>12. Taken(r, at, bytes, N) = Enforce(t)
  BY DEF Taken, e
<1> HIDE DEF t
<1>13. Offered(Enforce(t), more)
  BY <1>1, <1>5, <1>6, <1>7, <1>8, <1>9, <1>10, <1>c, <1>11, EnforceKeeps
<1> QED BY <1>12, <1>13 DEF more

\* A row that comes to a ring, which takes its snapshot, or does not, or may
\* take none any more.
LEMMA OfferKeeps ==
  ASSUME SettingTyped, NEW rows, Rising(rows), NEW at \in Nat, rows = <<>> \/ Last(rows) <= at,
         NEW bytes \in {Small, Large}, NEW r, RingFits(r, rows)
  PROVE  Offered(Offer(r, at, bytes, Len(rows)), Append(rows, at))
<1> DEFINE more == Append(rows, at)
           N == Len(rows)
           next == [r EXCEPT !.since = @ + 1]
           over == [next EXCEPT !.since = 0, !.over = r.held + bytes]
<1>1. /\ Len(more) = N + 1 /\ N \in Nat /\ Last(more) = at
      /\ \A i \in 1 .. N : more[i] = rows[i]
  BY RowsGrow
<1>2. /\ r \in Rings /\ Budgeted(r) /\ InForce(r) /\ Placed(r.snaps, rows)
      /\ rows # <<>> /\ r.over = 0 =>
           Timely(r, rows) /\ Counted(r, rows) /\ (Unthinned(r) => OnCadence(r, rows))
  BY RingIs
<1>3. r.snaps \in Seq(Snapshot) /\ r.since \in Nat /\ r.held \in Nat /\ r.over \in Nat
      /\ r.every \in Nat /\ r.spacing \in Nat /\ bytes \in Nat /\ bytes > 0
  BY <1>2 DEF Rings, Small, Large
<1>4. Placed(r.snaps, more)
  BY <1>2, <1>3, PlacedGrows
<1> HIDE DEF more
<1>5. /\ next \in Rings /\ next.since = r.since + 1 /\ next.held = r.held /\ next.snaps = r.snaps
      /\ next.over = r.over /\ next.every = r.every /\ next.spacing = r.spacing
  BY <1>2 DEF Rings
<1>6. CASE r.over > 0 \/ ~Due(next, at)
  <2>1. Offer(r, at, bytes, N) = next
    BY <1>6 DEF Offer
  <2>2. ASSUME r.over = 0
        PROVE  Timely(next, more) /\ Counted(next, more) /\ (Unthinned(next) => OnCadence(next, more))
    <3>1. /\ r.snaps # <<>>
          /\ r.every > 0 => ~(r.since + 1 >= r.every)
          /\ r.spacing > 0 => ~(at - Last(r.snaps).at >= r.spacing)
          /\ ~HasLeft(at, Last(r.snaps).at)
      BY <1>3, <1>5, <1>6, <2>2 DEF Due
    <3>2. rows # <<>>
      BY <3>1 DEF RingFits, NewRing
    <3>3. r.since = N - Last(r.snaps).rows - 1 /\ (Unthinned(r) => OnCadence(r, rows))
      BY <1>2, <2>2, <3>2 DEF Timely
    <3>4. Last(r.snaps).at \in Nat /\ Last(r.snaps).rows \in Nat
      <4>1. Len(r.snaps) \in 1 .. Len(r.snaps)
        BY <1>3, <3>1, EmptySeq
      <4>2. Last(r.snaps) \in Snapshot
        BY <1>3, <4>1, ElementOfSeq DEF Last
      <4> QED BY <4>2 DEF Snapshot
    <3> HIDE DEF next
    <3>5. Timely(next, more)
      <4>1. next.since = Len(more) - Last(r.snaps).rows - 1
        BY <1>1, <1>3, <1>5, <3>3, <3>4
      <4>2. r.every > 0 => next.since < r.every
        BY <1>3, <1>5, <3>1
      <4>3. r.spacing > 0 => at - Last(r.snaps).at < r.spacing
        BY <1>3, <3>1, <3>4
      <4> QED BY <1>1, <1>5, <3>1, <4>1, <4>2, <4>3 DEF Timely
    <3>6. ASSUME Unthinned(next) PROVE OnCadence(next, more)
      <4>1. OnCadence(r, rows)
        BY <1>5, <3>3, <3>6 DEF Unthinned
      <4>2. OnCadence(r, more)
        BY <1>2, <3>1, <3>2, <4>1, CadenceGrows DEF more
      <4> QED BY <1>5, <4>2 DEF OnCadence, FirstOfAll, AfterOneThatLeft
    <3>7. Counted(next, more)
      <4>1. Counted(r, rows) /\ Last(rows) <= at
        BY <1>2, <2>2, <3>2
      <4>2. Counted(r, more)
        BY <1>2, <3>1, <3>2, <4>1, CountedGrows DEF more
      <4> QED BY <1>5, <4>2 DEF Counted
    <3> QED BY <3>5, <3>6, <3>7
  <2> HIDE DEF next
  <2>3. Budgeted(next) /\ InForce(next)
    BY <1>2, <1>5 DEF Budgeted, InForce
  <2> QED BY <1>4, <1>5, <2>1, <2>2, <2>3 DEF Offered, more
<1>7. CASE ~(r.over > 0 \/ ~Due(next, at)) /\ Crosses(r, bytes)
  <2>1. Offer(r, at, bytes, N) = over
    BY <1>7 DEF Offer
  <2>2. /\ over \in Rings /\ over.held = r.held /\ over.snaps = r.snaps
        /\ over.over = r.held + bytes /\ over.every = r.every /\ over.spacing = r.spacing
    <3> HIDE DEF next
    <3>1. r.held + bytes \in Nat
      BY <1>3
    <3> QED BY <1>5, <3>1 DEF Rings
  <2> HIDE DEF over
  <2>3. over.over # 0
    BY <1>3, <2>2
  <2>4. Budgeted(over) /\ InForce(over)
    BY <1>2, <2>2 DEF Budgeted, InForce
  <2> QED BY <1>4, <2>1, <2>2, <2>3, <2>4 DEF Offered, more
<1>8. CASE ~(r.over > 0 \/ ~Due(next, at)) /\ ~Crosses(r, bytes)
  <2>1. Offer(r, at, bytes, N) = Taken(r, at, bytes, N)
    BY <1>8 DEF Offer
  <2>2. r.over = 0
    BY <1>3, <1>8
  <2> QED BY <1>8, <2>1, <2>2, TakenKeeps DEF more
<1> QED BY <1>6, <1>7, <1>8

\* The snapshots that go are those before the first inside the window.
LEMMA LeavingIs ==
  ASSUME NEW r \in Rings, NEW at
  PROVE  /\ Leaving(r, at) \in 0 .. Len(r.snaps)
         /\ r.snaps # <<>> => Leaving(r, at) < Len(r.snaps)
         /\ \A i \in 1 .. Leaving(r, at) : HasLeft(at, r.snaps[i].at)
         /\ (\E i \in 1 .. Len(r.snaps) : ~HasLeft(at, r.snaps[i].at))
              => ~HasLeft(at, r.snaps[Leaving(r, at) + 1].at)
<1> DEFINE I == {i \in 1 .. Len(r.snaps) : ~HasLeft(at, r.snaps[i].at)}
           stays == IF I # {} THEN Min(I) ELSE 0
<1>1. Leaving(r, at) = IF stays > 0 THEN stays - 1
                       ELSE IF r.snaps = <<>> THEN 0 ELSE Len(r.snaps) - 1
  BY DEF Leaving, SelectInSeq
<1>2. Len(r.snaps) \in Nat /\ (r.snaps # <<>> => Len(r.snaps) > 0)
  <2>1. r.snaps \in Seq(Snapshot)
    BY DEF Rings
  <2> QED BY <2>1, EmptySeq
<1>3. CASE I = {}
  <2>1. stays = 0
    BY <1>3
  <2>2. \A i \in 1 .. Len(r.snaps) : HasLeft(at, r.snaps[i].at)
    BY <1>3
  <2> HIDE DEF I, stays
  <2>3. Leaving(r, at) = IF r.snaps = <<>> THEN 0 ELSE Len(r.snaps) - 1
    BY <1>1, <2>1
  <2> QED BY <1>2, <2>2, <2>3
<1>4. CASE I # {}
  <2>1. PICK n \in I : \A m \in I : n <= m
    <3>1. I \subseteq Nat
      BY <1>2
    <3> HIDE DEF I
    <3> QED BY <1>4, <3>1, Least
  <2>2. Min(I) \in I /\ \A m \in I : Min(I) <= m
    <3> HIDE DEF I
    <3> QED BY <2>1 DEF Min
  <2>3. stays = Min(I)
    BY <1>4
  <2>4. stays \in 1 .. Len(r.snaps) /\ ~HasLeft(at, r.snaps[stays].at)
        /\ \A i \in 1 .. Len(r.snaps) : i < stays => HasLeft(at, r.snaps[i].at)
    <3>1. stays \in I /\ \A m \in I : stays <= m
      BY <2>2, <2>3
    <3> HIDE DEF stays
    <3>2. stays \in 1 .. Len(r.snaps) /\ ~HasLeft(at, r.snaps[stays].at)
      BY <3>1
    <3>3. ASSUME NEW i \in 1 .. Len(r.snaps), i < stays PROVE HasLeft(at, r.snaps[i].at)
      <4>1. i \notin I
        BY <1>2, <3>1, <3>2, <3>3
      <4> QED BY <4>1
    <3> QED BY <3>2, <3>3
  <2> HIDE DEF I, stays
  <2>5. Leaving(r, at) = stays - 1
    BY <1>1, <1>2, <2>4
  <2> QED BY <1>2, <2>4, <2>5
<1> QED BY <1>3, <1>4

\* What left the window leaves the ring, which keeps what it had.
LEMMA TrimKeeps ==
  ASSUME SettingTyped, NEW rows, Rising(rows), rows # <<>>, NEW r, Offered(r, rows)
  PROVE  RingFits(Trim(r, Last(rows)), rows)
<1> DEFINE at == Last(rows)
           n == Leaving(r, at)
           M == Len(r.snaps)
           rest == SubSeq(r.snaps, n + 1, M)
           gone == BytesOf(SubSeq(r.snaps, 1, n))
           t == [r EXCEPT !.snaps = rest, !.held = @ - gone]
<1>1. /\ r \in Rings /\ Budgeted(r) /\ InForce(r) /\ Placed(r.snaps, rows)
      /\ r.over = 0 => Timely(r, rows) /\ Counted(r, rows) /\ (Unthinned(r) => OnCadence(r, rows))
  BY DEF Offered
<1>2. r.snaps \in Seq(Snapshot) /\ M \in Nat /\ r.held \in Nat
  BY <1>1 DEF Rings
<1>3. /\ n \in 0 .. M /\ (r.snaps # <<>> => n < M)
      /\ \A i \in 1 .. n : HasLeft(at, r.snaps[i].at)
      /\ (\E i \in 1 .. M : ~HasLeft(at, r.snaps[i].at)) => ~HasLeft(at, r.snaps[n + 1].at)
  <2> HIDE DEF at
  <2> QED BY <1>1, LeavingIs
<1>4. Trim(r, at) = t
  BY DEF Trim
<1> HIDE DEF n
<1>5. /\ rest \in Seq(Snapshot) /\ Len(rest) = M - n
      /\ \A i \in 1 .. M - n : rest[i] = r.snaps[n + i]
  <2>1. \A i \in n + 1 .. M : r.snaps[i] \in Snapshot
    BY <1>2, <1>3
  <2>2. /\ rest \in Seq(Snapshot) /\ Len(rest) = IF n + 1 <= M THEN M - (n + 1) + 1 ELSE 0
        /\ \A i \in 1 .. M - (n + 1) + 1 : rest[i] = r.snaps[n + 1 + i - 1]
    BY <1>2, <1>3, <2>1, SubSeqProperties
  <2> HIDE DEF rest
  <2>3. M - (n + 1) + 1 = M - n /\ Len(rest) = M - n
    BY <1>2, <1>3, <2>2
  <2>4. ASSUME NEW i \in 1 .. M - n PROVE rest[i] = r.snaps[n + i]
    <3>1. i \in 1 .. M - (n + 1) + 1 /\ n + 1 + i - 1 = n + i
      BY <1>2, <1>3
    <3> QED BY <2>2, <3>1
  <2> QED BY <2>2, <2>3, <2>4
<1>6. gone \in Nat /\ BytesOf(rest) = r.held - gone /\ BytesOf(rest) \in Nat
  <2>1. gone \in Nat /\ BytesOf(rest) = BytesOf(r.snaps) - gone
    BY <1>2, <1>3, BytesOfRest
  <2>2. BytesOf(rest) \in Nat
    <3> HIDE DEF rest
    <3> QED BY <1>5, BytesTyped
  <2> QED BY <1>1, <2>1, <2>2 DEF Budgeted
<1> HIDE DEF rest, gone
<1>7. /\ t \in Rings /\ t.held = BytesOf(rest) /\ t.snaps = rest /\ t.since = r.since
      /\ t.over = r.over /\ t.every = r.every /\ t.spacing = r.spacing
  <2>1. t = [every |-> r.every, spacing |-> r.spacing, since |-> r.since, held |-> r.held - gone,
             over |-> r.over, snaps |-> rest]
    <3>1. t = [r EXCEPT !.snaps = rest, !.held = r.held - gone]
      OBVIOUS
    <3> HIDE DEF t
    <3> QED BY <1>1, <3>1 DEF Rings
  <2> QED BY <1>1, <1>5, <1>6, <2>1 DEF Rings
<1> HIDE DEF t
<1>8. Budgeted(t)
  <2>1. setting.budget.bytes \in Nat
    BY DEF SettingTyped
  <2>2. Refusing => t.held <= setting.budget.bytes
    BY <1>1, <1>2, <1>6, <1>7, <2>1 DEF Budgeted
  <2>3. ASSUME Thinning PROVE Fits(rest)
    <3>1. Fits(r.snaps)
      BY <1>1, <2>3 DEF Budgeted
    <3>2. CASE r.held <= setting.budget.bytes
      BY <1>2, <1>6, <2>1, <3>2 DEF Fits
    <3>3. CASE M = 1
      <4>1. r.snaps # <<>>
        BY <3>3
      <4>2. n = 0
        BY <1>3, <3>3, <4>1
      <4> QED BY <1>5, <3>3, <4>2 DEF Fits
    <3> QED BY <1>1, <3>1, <3>2, <3>3 DEF Fits, Budgeted
  <2> QED BY <1>7, <2>2, <2>3 DEF Budgeted
<1>9. Placed(rest, rows)
  <2>1. ASSUME NEW i \in 1 .. M - n
        PROVE  rest[i].rows \in 0 .. Len(rows) - 1 /\ rest[i].at = rows[rest[i].rows + 1]
    <3>1. n + i \in 1 .. M
      BY <1>2, <1>3
    <3> QED BY <1>1, <1>5, <3>1 DEF Placed
  <2>2. ASSUME NEW i \in 1 .. M - n, NEW j \in 1 .. M - n, i < j
        PROVE  rest[i].rows < rest[j].rows
    <3>1. n + i \in 1 .. M /\ n + j \in 1 .. M /\ n + i < n + j
      BY <1>2, <1>3, <2>2
    <3> QED BY <1>1, <1>5, <3>1 DEF Placed
  <2> QED BY <1>5, <2>1, <2>2 DEF Placed
<1>10. InForce(t)
  BY <1>1, <1>7 DEF InForce
<1>11. ASSUME r.over = 0
       PROVE  /\ Timely(t, rows) /\ Counted(t, rows) /\ (Unthinned(t) => OnCadence(t, rows))
              /\ ~HasLeft(at, rest[1].at)
  <2>1. Timely(r, rows) /\ r.snaps # <<>>
    BY <1>1, <1>11 DEF Timely
  <2>2. n < M /\ M \in 1 .. M /\ M - n \in 1 .. M - n /\ 1 \in 1 .. M - n
    BY <1>2, <1>3, <2>1
  <2>3. n + (M - n) = M /\ n + 1 \in 1 .. M
    BY <1>2, <1>3, <2>2
  <2>4. Last(rest) = Last(r.snaps) /\ rest # <<>> /\ rest[1] = r.snaps[n + 1]
    <3>1. rest[M - n] = r.snaps[n + (M - n)]
      BY <1>5, <2>2
    <3>2. Len(rest) # 0
      BY <1>5, <2>2
    <3> QED BY <1>5, <2>2, <2>3, <3>1, <3>2 DEF Last
  <2>5. Timely(t, rows)
    BY <1>7, <2>1, <2>4 DEF Timely
  <2>6. ~HasLeft(at, rest[1].at)
    <3>1. ~HasLeft(at, r.snaps[M].at)
      BY <2>1 DEF Timely, Last
    <3> QED BY <1>3, <2>2, <2>4, <3>1
  <2>7. ASSUME Unthinned(t) PROVE OnCadence(t, rows)
    <3>1. OnCadence(r, rows)
      BY <1>1, <1>7, <1>11, <2>7 DEF Unthinned
    <3>2. ASSUME NEW i \in 1 .. Len(rest) - 1
          PROVE  Spaced(rest[i].rows, rest[i + 1].rows, rows)
      <4>1. i \in 1 .. M - n /\ i + 1 \in 1 .. M - n /\ n + i \in 1 .. M - 1
            /\ n + (i + 1) = (n + i) + 1
        <5>1. n \in Nat /\ i \in 1 .. (M - n) - 1
          BY <1>2, <1>3, <1>5, <3>2
        <5> HIDE DEF M
        <5> QED BY <1>2, <5>1
      <4>2. rest[i] = r.snaps[n + i] /\ rest[i + 1] = r.snaps[(n + i) + 1]
        BY <1>5, <4>1
      <4> QED BY <3>1, <4>1, <4>2 DEF OnCadence
    <3>3. CASE n = 0
      <4>1. rest[1] = r.snaps[1]
        BY <2>4, <3>3
      <4>2. FirstOfAll(t) \/ AfterOneThatLeft(t, rows)
        BY <1>7, <3>1, <4>1 DEF OnCadence, FirstOfAll, AfterOneThatLeft
      <4> QED BY <1>7, <3>2, <4>2 DEF OnCadence
    <3>4. CASE n # 0
      <4>1. n \in 1 .. n /\ n \in 1 .. M - 1 /\ n \in 1 .. M /\ n < n + 1
        BY <1>2, <1>3, <2>2, <3>4
      <4> DEFINE a == r.snaps[n].rows
      <4>2. a \in Nat /\ a < r.snaps[n + 1].rows /\ r.snaps[n].at = rows[a + 1]
        BY <1>1, <2>3, <4>1 DEF Placed
      <4>3. HasLeft(at, rows[a + 1])
        BY <1>3, <4>1, <4>2
      <4>4. Spaced(a, r.snaps[n + 1].rows, rows)
        BY <3>1, <4>1 DEF OnCadence
      <4>5. r.snaps[n + 1].rows \in Nat
        BY <1>1, <2>3 DEF Placed
      <4> HIDE DEF a
      <4>6. a + 1 \in 1 .. r.snaps[n + 1].rows /\ (a + 1) - 1 = a
        BY <4>2, <4>5
      <4>7. t.snaps[1].rows = r.snaps[n + 1].rows
        BY <1>7, <2>4
      <4>8. AfterOneThatLeft(t, rows)
        BY <4>3, <4>4, <4>6, <4>7 DEF AfterOneThatLeft
      <4> QED BY <1>7, <3>2, <4>8 DEF OnCadence
    <3> QED BY <3>3, <3>4
  <2>8. Counted(t, rows)
    <3> DEFINE E == r.every
    <3>0. E \in Nat /\ t.every = E /\ t.snaps = rest
      BY <1>1, <1>7 DEF Rings
    <3> SUFFICES ASSUME E > 0 PROVE Neighbours(rest, E) /\ FewBefore(rest[1].rows, E, rows)
      BY <3>0 DEF Counted
    <3>1. Neighbours(r.snaps, E) /\ FewBefore(r.snaps[1].rows, E, rows)
      BY <1>1, <1>11 DEF Counted
    <3> HIDE DEF E
    <3>2. ASSUME NEW i \in 1 .. Len(rest) - 1 PROVE rest[i + 1].rows - rest[i].rows <= E
      <4>1. i \in 1 .. M - n /\ i + 1 \in 1 .. M - n /\ n + i \in 1 .. M - 1
            /\ n + (i + 1) = (n + i) + 1
        <5>1. n \in Nat /\ i \in 1 .. (M - n) - 1
          BY <1>2, <1>3, <1>5, <3>2
        <5> HIDE DEF M
        <5> QED BY <1>2, <5>1
      <4>2. rest[i] = r.snaps[n + i] /\ rest[i + 1] = r.snaps[(n + i) + 1]
        BY <1>5, <4>1
      <4> QED BY <3>1, <4>1, <4>2 DEF Neighbours
    <3>3. CASE n = 0
      <4>1. rest[1] = r.snaps[1]
        BY <2>4, <3>3
      <4> QED BY <3>1, <3>2, <4>1 DEF Neighbours
    <3>4. CASE n # 0
      <4>1. n \in 1 .. n /\ n \in 1 .. M - 1 /\ n \in 1 .. M /\ n < n + 1
        BY <1>2, <1>3, <2>2, <3>4
      <4> DEFINE a == r.snaps[n].rows
                 b == r.snaps[n + 1].rows
      <4>2. a \in Nat /\ b \in Nat /\ a < b /\ r.snaps[n].at = rows[a + 1]
        BY <1>1, <2>3, <4>1 DEF Placed
      <4>3. HasLeft(at, rows[a + 1])
        BY <1>3, <4>1, <4>2
      <4>4. b - a <= E
        BY <3>1, <4>1 DEF Neighbours
      <4>7. rest[1].rows = b
        BY <2>4
      <4> HIDE DEF a, b
      <4>6. a + 1 \in 1 .. b /\ b - ((a + 1) - 1) <= E
        BY <3>0, <4>2, <4>4
      <4>8. FewBefore(b, E, rows)
        BY <4>3, <4>6 DEF FewBefore
      <4> QED BY <3>2, <4>7, <4>8 DEF Neighbours
    <3> QED BY <3>3, <3>4
  <2> QED BY <2>5, <2>6, <2>7, <2>8
<1> QED BY <1>1, <1>4, <1>7, <1>8, <1>9, <1>10, <1>11 DEF RingFits, Offered

\* A row that is learned leaves a ring that fits the rows with it.
LEMMA LearnKeeps ==
  ASSUME SettingTyped, NEW rows, Rising(rows), NEW at \in Nat, rows = <<>> \/ Last(rows) <= at,
         NEW bytes \in {Small, Large}, NEW r, RingFits(r, rows)
  PROVE  RingFits(Learn(r, at, bytes, Len(rows)), Append(rows, at))
<1> DEFINE more == Append(rows, at)
           o == Offer(r, at, bytes, Len(rows))
<1>1. Rising(more) /\ more # <<>> /\ Last(more) = at
  BY RowsGrow
<1>2. Offered(o, more)
  BY OfferKeeps
<1>3. Learn(r, at, bytes, Len(rows)) = Trim(o, at)
  BY DEF Learn
<1> HIDE DEF o, more
<1> QED BY <1>1, <1>2, <1>3, TrimKeeps DEF more

\* A budget set anew changes no ring that goes on.
LEMMA BudgetStands ==
  ASSUME SettingTyped, NEW rows, NEW r, RingFits(r, rows), r.over = 0
  PROVE  SetBudget(r) = r
<1>1. r \in Rings /\ Budgeted(r) /\ InForce(r) /\ Placed(r.snaps, rows)
      /\ (rows # <<>> => r.snaps # <<>> /\ Counted(r, rows))
  BY RingIs DEF Timely
<1>2. [r EXCEPT !.over = 0, !.held = BytesOf(r.snaps)] = r
  BY <1>1 DEF Budgeted, Rings
<1>3. SetBudget(r) = Enforce(r)
  BY <1>2 DEF SetBudget
<1>4. CASE setting.budget.kind = "none" \/ r.held <= setting.budget.bytes
  BY <1>3, <1>4 DEF Enforce
<1>5. CASE ~(setting.budget.kind = "none" \/ r.held <= setting.budget.bytes)
  <2>1. ~Refusing
    BY <1>1, <1>5 DEF Budgeted
  <2>2. Thinning
    BY <1>5, <2>1 DEF Refusing, Thinning, SettingTyped
  <2>3. Fits(r.snaps)
    BY <1>1, <2>2 DEF Budgeted
  <2>4. rows # <<>>
    <3>1. rows = <<>> => r = NewRing
      BY DEF RingFits
    <3> QED BY <1>5, <3>1 DEF NewRing, SettingTyped
  <2>5. ThinOf(r, r, rows)
    BY <1>1, <2>4 DEF ThinOf, Budgeted
  <2>6. r.every > 0 \/ r.spacing > 0
    BY <1>1 DEF InForce, SettingTyped, Rings
  <2>7. Thinned(r) = r
    BY <1>1, <2>3, <2>5, <2>6, ThinnedFits
  <2> QED BY <1>3, <1>5, <2>1, <2>7 DEF Enforce
<1> QED BY <1>4, <1>5

-----------------------------------------------------------------------------
(* The rows a turn learns, one after the other.                            *)

Held   == [at : Nat, odd : BOOLEAN]
Models == [ring : Rings, size : {Small, Large}, learned : Seq(Nat)]
Runs   == [model : Models, n : Nat, fires : SUBSET Nat, over : BOOLEAN, grew : BOOLEAN]

\* A model's ring fits the rows it has learned.
ModelFits(m) == m \in Models /\ Rising(m.learned) /\ RingFits(m.ring, m.learned)
\* It has learned no row past b.
Upto(m, b) == m.learned = <<>> \/ Last(m.learned) <= b

\* Rows in the order they came.
InTurn(rows) ==
  /\ rows \in Seq(Held)
  /\ \A i, j \in 1 .. Len(rows) : i <= j => rows[i].at <= rows[j].at

LEMMA NewModelFits ==
  ASSUME SettingTyped
  PROVE  ModelFits(NewModel) /\ NewModel.learned = <<>> /\ Len(NewModel.learned) = 0
<1>1. NewModel.learned = <<>> /\ NewModel.ring = NewRing /\ NewModel.size = Small
  BY DEF NewModel
<1>2. RingFits(NewRing, <<>>)
  BY DEF RingFits
<1>3. NewRing \in Rings
  BY <1>2, RingIs
<1>4. <<>> \in Seq(Nat) /\ Len(<<>>) = 0 /\ Rising(<<>>)
  BY EmptySeq DEF Rising
<1>5. NewModel \in Models
  BY <1>3, <1>4 DEF NewModel, Models
<1> QED BY <1>1, <1>2, <1>4, <1>5 DEF ModelFits

\* A row learned, and the model rebuilt if a drift fires at it.
LEMMA RowLearned ==
  ASSUME SettingTyped, NEW s \in Runs, ModelFits(s.model), NEW h \in Held, Upto(s.model, h.at)
  PROVE  /\ LearnRow(s, h) \in Runs /\ ModelFits(LearnRow(s, h).model)
         /\ Len(LearnRow(s, h).model.learned) <= Len(s.model.learned) + 1
         /\ \A b \in Nat : h.at <= b => Upto(LearnRow(s, h).model, b)
<1> DEFINE rows == s.model.learned
           r == Learn(s.model.ring, h.at, s.model.size, Len(rows))
           more == Append(rows, h.at)
           model == [ring |-> r, size |-> IF h.odd THEN Large ELSE s.model.size, learned |-> more]
           after == LearnRow(s, h)
<1>1. /\ s.model \in Models /\ Rising(rows) /\ RingFits(s.model.ring, rows)
      /\ s.model.size \in {Small, Large} /\ h.at \in Nat /\ h.odd \in BOOLEAN
      /\ rows = <<>> \/ Last(rows) <= h.at
  BY DEF ModelFits, Models, Held, Upto
<1>2. RingFits(r, more)
  BY <1>1, LearnKeeps
<1>3. Rising(more) /\ Len(more) = Len(rows) + 1 /\ Len(rows) \in Nat /\ Last(more) = h.at
  BY <1>1, RowsGrow
<1>4. after = [model |-> Drifted(s, model), n |-> s.n + 1, fires |-> s.fires,
               over |-> s.over \/ r.over > 0, grew |-> s.grew \/ model.size # s.model.size]
  BY DEF LearnRow
<1> HIDE DEF r, more
<1>5. r \in Rings
  BY <1>2, RingIs
<1>6. model \in Models /\ model.learned = more /\ model.ring = r
  BY <1>1, <1>3, <1>5 DEF Models, Rising, Large
<1>7. ModelFits(model)
  BY <1>2, <1>3, <1>6 DEF ModelFits
<1> HIDE DEF model
<1>8. Drifted(s, model) = model \/ Drifted(s, model) = NewModel
  BY DEF Drifted, Rebuilt
<1>9. ModelFits(Drifted(s, model)) /\ Drifted(s, model) \in Models
  BY <1>7, <1>8, NewModelFits DEF ModelFits
<1>10. after \in Runs /\ after.model = Drifted(s, model)
  <2>1. /\ s.n + 1 \in Nat /\ s.fires \in SUBSET Nat
        /\ (s.over \/ r.over > 0) \in BOOLEAN
        /\ (s.grew \/ model.size # s.model.size) \in BOOLEAN
    BY DEF Runs
  <2> QED BY <1>4, <1>9, <2>1 DEF Runs
<1> HIDE DEF after
<1>11. Len(after.model.learned) <= Len(rows) + 1
  BY <1>3, <1>6, <1>8, <1>10, NewModelFits
<1>12. ASSUME NEW b \in Nat, h.at <= b PROVE Upto(after.model, b)
  BY <1>3, <1>6, <1>8, <1>10, <1>12, NewModelFits DEF Upto
<1> QED BY <1>9, <1>10, <1>11, <1>12 DEF after

\* Where a turn stands after n of its rows.
StandsAt(s, n, start, rows) ==
  /\ s \in Runs /\ ModelFits(s.model)
  /\ Len(s.model.learned) <= Len(start.model.learned) + n
  /\ \A m \in n + 1 .. Len(rows) : Upto(s.model, rows[m].at)
  /\ \A b \in Nat :
       Upto(start.model, b) /\ (\A m \in 1 .. Len(rows) : rows[m].at <= b) => Upto(s.model, b)

LEMMA RowStands ==
  ASSUME SettingTyped, NEW rows, InTurn(rows), NEW start, NEW n \in 1 .. Len(rows),
         start \in Runs, NEW s, StandsAt(s, n - 1, start, rows)
  PROVE  StandsAt(LearnRow(s, rows[n]), n, start, rows)
<1>1. rows \in Seq(Held) /\ Len(rows) \in Nat /\ rows[n] \in Held /\ n \in n .. Len(rows)
      /\ n \in (n - 1) + 1 .. Len(rows)
  <2>1. rows \in Seq(Held)
    BY DEF InTurn
  <2> QED BY <2>1, ElementOfSeq
<1>2. s \in Runs /\ ModelFits(s.model) /\ Upto(s.model, rows[n].at)
  BY <1>1 DEF StandsAt
<1> DEFINE after == LearnRow(s, rows[n])
<1>3. /\ after \in Runs /\ ModelFits(after.model)
      /\ Len(after.model.learned) <= Len(s.model.learned) + 1
      /\ \A b \in Nat : rows[n].at <= b => Upto(after.model, b)
  BY <1>1, <1>2, RowLearned
<1> HIDE DEF after
<1>4. Len(after.model.learned) <= Len(start.model.learned) + n
  <2>1. /\ Len(after.model.learned) \in Nat /\ Len(s.model.learned) \in Nat
        /\ Len(start.model.learned) \in Nat
    <3>1. /\ after.model.learned \in Seq(Nat) /\ s.model.learned \in Seq(Nat)
          /\ start.model.learned \in Seq(Nat)
      BY <1>2, <1>3 DEF Runs, Models
    <3> QED BY <3>1, LenProperties
  <2>2. Len(s.model.learned) <= Len(start.model.learned) + (n - 1)
    BY DEF StandsAt
  <2>3. Len(after.model.learned) <= Len(s.model.learned) + 1 /\ n \in Nat
    BY <1>1, <1>3
  <2>4. \A a, b, c, k \in Nat : a <= b + 1 /\ b <= c + (k - 1) => a <= c + k
    OBVIOUS
  <2> QED BY <2>1, <2>2, <2>3, <2>4
<1>5. ASSUME NEW m \in n + 1 .. Len(rows) PROVE Upto(after.model, rows[m].at)
  <2>1. m \in 1 .. Len(rows) /\ n <= m
    BY <1>1
  <2>2. rows[n].at <= rows[m].at
    BY <2>1 DEF InTurn
  <2>3. rows[m].at \in Nat
    <3>1. rows[m] \in Held
      BY <1>1, <2>1, ElementOfSeq
    <3> QED BY <3>1 DEF Held
  <2> QED BY <1>3, <2>2, <2>3
<1>6. ASSUME NEW b \in Nat, \A m \in 1 .. Len(rows) : rows[m].at <= b
      PROVE  Upto(after.model, b)
  BY <1>3, <1>6
<1> QED BY <1>3, <1>4, <1>5, <1>6 DEF StandsAt, after

LEMMA RowsLearned ==
  ASSUME SettingTyped, NEW rows, InTurn(rows), NEW start, StandsAt(start, 0, start, rows)
  PROVE  StandsAt(LearnRows(start, rows), Len(rows), start, rows)
<1> DEFINE N == Len(rows)
           ready(s, n) == StandsAt(s, n - 1, start, rows)
           F == [p \in Runs \X (1 .. N) |-> IF ready(p[1], p[2]) THEN LearnRow(p[1], rows[p[2]]) ELSE p[1]]
           E(g) == [n \in 0 .. N |-> IF n = 0 THEN start ELSE LearnRow(g[n - 1], rows[n])]
           h == CHOOSE g : g = E(g)
<1>1. N \in Nat /\ start \in Runs
  BY DEF InTurn, StandsAt
<1>2. F \in [Runs \X (1 .. N) -> Runs]
  <2>1. ASSUME NEW s \in Runs, NEW n \in 1 .. N, ready(s, n) PROVE LearnRow(s, rows[n]) \in Runs
    <3>1. StandsAt(LearnRow(s, rows[n]), n, start, rows)
      BY <1>1, <2>1, RowStands
    <3> QED BY <3>1 DEF StandsAt
  <2> HIDE DEF ready
  <2> QED BY <2>1
<1>3. PICK f \in [0 .. N -> Runs] : Recurs(f, start, F, N)
  <2> HIDE DEF F
  <2> QED BY <1>1, <1>2, Recursion
<1>4. f[0] = start
  <2> HIDE DEF F
  <2>1. 0 \in 0 .. N
    BY <1>1
  <2>2. \A n \in 0 .. N : f[n] = IF n = 0 THEN start ELSE F[<<f[n - 1], n>>]
    BY <1>3 DEF Recurs
  <2> QED BY <2>1, <2>2, Zenon
<1>5. ASSUME NEW n \in 1 .. N
      PROVE  f[n] = IF ready(f[n - 1], n) THEN LearnRow(f[n - 1], rows[n]) ELSE f[n - 1]
  <2>1. n \in 0 .. N /\ n # 0 /\ n - 1 \in 0 .. N
    BY <1>1
  <2>2. f[n] = F[<<f[n - 1], n>>] /\ f[n - 1] \in Runs
    <3> HIDE DEF F
    <3> QED BY <1>3, <2>1 DEF Recurs
  <2> HIDE DEF ready
  <2> QED BY <2>2
<1> HIDE DEF F
<1> DEFINE T == {n \in 0 .. N : StandsAt(f[n], n, start, rows)}
<1>6. 0 .. N \subseteq T
  <2>1. 0 \in T
    BY <1>1, <1>4
  <2>2. ASSUME NEW n \in 1 .. N, n - 1 \in T PROVE n \in T
    <3>1. StandsAt(f[n - 1], n - 1, start, rows) /\ n \in 0 .. N
      BY <1>1, <2>2
    <3>2. StandsAt(LearnRow(f[n - 1], rows[n]), n, start, rows)
      BY <1>1, <3>1, RowStands
    <3>3. f[n] = LearnRow(f[n - 1], rows[n])
      BY <1>5, <3>1
    <3> QED BY <3>1, <3>2, <3>3
  <2> HIDE DEF T
  <2> QED BY <1>1, <2>1, <2>2, UpTo
<1>7. f = E(f)
  <2>1. ASSUME NEW n \in 1 .. N PROVE f[n] = LearnRow(f[n - 1], rows[n])
    <3>1. n - 1 \in T
      <4> HIDE DEF T
      <4>1. n - 1 \in 0 .. N
        BY <1>1
      <4> QED BY <1>6, <4>1
    <3> QED BY <1>5, <3>1
  <2>2. ASSUME NEW n \in 0 .. N
        PROVE  f[n] = IF n = 0 THEN start ELSE LearnRow(f[n - 1], rows[n])
    <3>1. n # 0 => n \in 1 .. N
      BY <1>1
    <3> QED BY <1>4, <2>1, <3>1
  <2> QED BY <1>3, <2>2
<1>8. h = E(h)
  <2> HIDE DEF E
  <2> QED BY <1>7
<1>9. LearnRows(start, rows) = h[N]
  BY DEF LearnRows
<1> HIDE DEF h
<1>10. h[0] = start
  BY <1>1, <1>8
<1>11. ASSUME NEW n \in 1 .. N PROVE h[n] = LearnRow(h[n - 1], rows[n])
  <2>1. n \in 0 .. N /\ n # 0
    BY <1>1
  <2> QED BY <1>8, <2>1
<1> HIDE DEF E, T
<1> DEFINE U == {n \in 0 .. N : StandsAt(h[n], n, start, rows)}
<1>12. 0 \in U
  BY <1>1, <1>10
<1>13. ASSUME NEW n \in 1 .. N, n - 1 \in U PROVE n \in U
  <2>1. StandsAt(h[n - 1], n - 1, start, rows) /\ n \in 0 .. N
    BY <1>1, <1>13
  <2>2. StandsAt(LearnRow(h[n - 1], rows[n]), n, start, rows)
    BY <1>1, <2>1, RowStands
  <2> QED BY <1>11, <2>1, <2>2
<1>14. N \in U
  <2>1. N \in 0 .. N
    BY <1>1
  <2> HIDE DEF U
  <2>2. 0 .. N \subseteq U
    BY <1>1, <1>12, <1>13, UpTo
  <2> QED BY <2>1, <2>2
<1> QED BY <1>9, <1>14


-----------------------------------------------------------------------------
(* The schedule of a row.                                                  *)

Bounded(queue, at) == \A i \in 1 .. Len(queue) : queue[i].at <= at
\* A model has learned nothing past what a queue holds.
Ahead(m, queue) == \A i \in 1 .. Len(queue) : Upto(m, queue[i].at)

LEMMA QueueGrows ==
  ASSUME NEW queue, InTurn(queue), NEW at \in Nat, Bounded(queue, at), NEW odd \in BOOLEAN,
         NEW m, Ahead(m, queue), Upto(m, at)
  PROVE  LET all == Append(queue, [at |-> at, odd |-> odd])
         IN  /\ InTurn(all) /\ Bounded(all, at) /\ Ahead(m, all)
             /\ Len(all) = Len(queue) + 1 /\ Len(queue) \in Nat
<1> DEFINE h == [at |-> at, odd |-> odd]
           all == Append(queue, h)
           N == Len(queue)
<1>1. queue \in Seq(Held) /\ N \in Nat
  BY DEF InTurn
<1>2. h \in Held /\ h.at = at
  BY DEF Held
<1> HIDE DEF h
<1>3. /\ all \in Seq(Held) /\ Len(all) = N + 1 /\ all[N + 1] = h
      /\ \A i \in 1 .. N : all[i] = queue[i]
  BY <1>1, <1>2, AppendProperties
<1> HIDE DEF all
<1>4. ASSUME NEW i \in 1 .. N + 1 PROVE all[i].at <= at /\ Upto(m, all[i].at)
  <2>1. CASE i = N + 1
    BY <1>2, <1>3, <2>1
  <2>2. CASE i # N + 1
    <3>1. i \in 1 .. N
      BY <1>1, <2>2
    <3> QED BY <1>3, <3>1 DEF Bounded, Ahead
  <2> QED BY <2>1, <2>2
<1>5. ASSUME NEW i \in 1 .. N + 1, NEW j \in 1 .. N + 1, i <= j PROVE all[i].at <= all[j].at
  <2>1. CASE j = N + 1
    <3>1. all[j].at = at
      BY <1>2, <1>3, <2>1
    <3> QED BY <1>4, <3>1
  <2>2. CASE j # N + 1
    <3>1. i \in 1 .. N /\ j \in 1 .. N
      BY <1>1, <1>5, <2>2
    <3>2. queue[i].at <= queue[j].at
      BY <1>5, <3>1 DEF InTurn
    <3> QED BY <1>3, <3>1, <3>2
  <2> QED BY <2>1, <2>2
<1>6. InTurn(all)
  BY <1>3, <1>5 DEF InTurn
<1>7. Bounded(all, at) /\ Ahead(m, all)
  BY <1>3, <1>4 DEF Bounded, Ahead
<1> QED BY <1>1, <1>3, <1>6, <1>7 DEF all, h

\* A part of a queue is in turn as well.
LEMMA QueuePart ==
  ASSUME NEW queue, InTurn(queue), NEW a \in 1 .. Len(queue) + 1, NEW b \in a - 1 .. Len(queue)
  PROVE  LET part == SubSeq(queue, a, b)
         IN  /\ InTurn(part) /\ Len(part) = b - a + 1
             /\ \A at : Bounded(queue, at) => Bounded(part, at)
             /\ \A m : Ahead(m, queue) => Ahead(m, part)
             /\ \A i \in 1 .. b - a + 1 : part[i] = queue[a + i - 1]
<1> DEFINE part == SubSeq(queue, a, b)
           N == Len(queue)
<1>1. queue \in Seq(Held) /\ N \in Nat /\ a \in Nat /\ b \in Nat
  BY DEF InTurn
<1>2. \A i \in a .. b : queue[i] \in Held
  <2>1. ASSUME NEW i \in a .. b PROVE queue[i] \in Held
    <3>1. i \in 1 .. N
      BY <1>1
    <3> QED BY <1>1, <3>1, ElementOfSeq
  <2> QED BY <2>1
<1>3. /\ part \in Seq(Held) /\ Len(part) = IF a <= b THEN b - a + 1 ELSE 0
      /\ \A i \in 1 .. b - a + 1 : part[i] = queue[a + i - 1]
  BY <1>1, <1>2, SubSeqProperties
<1> HIDE DEF part
<1>4. Len(part) = b - a + 1
  BY <1>1, <1>3
<1>5. ASSUME NEW i \in 1 .. b - a + 1 PROVE a + i - 1 \in 1 .. N
  BY <1>1
<1>6. ASSUME NEW i \in 1 .. b - a + 1, NEW j \in 1 .. b - a + 1, i <= j
      PROVE  part[i].at <= part[j].at
  <2>1. a + i - 1 <= a + j - 1
    BY <1>1, <1>6
  <2>2. queue[a + i - 1].at <= queue[a + j - 1].at
    BY <1>5, <2>1 DEF InTurn
  <2> QED BY <1>3, <2>2
<1>7. InTurn(part)
  BY <1>3, <1>4, <1>6 DEF InTurn
<1>8. ASSUME NEW at, Bounded(queue, at) PROVE Bounded(part, at)
  <2>1. ASSUME NEW i \in 1 .. Len(part) PROVE part[i].at <= at
    BY <1>3, <1>4, <1>5, <1>8 DEF Bounded
  <2> QED BY <2>1 DEF Bounded
<1>9. ASSUME NEW m, Ahead(m, queue) PROVE Ahead(m, part)
  <2>1. ASSUME NEW i \in 1 .. Len(part) PROVE Upto(m, part[i].at)
    BY <1>3, <1>4, <1>5, <1>9 DEF Ahead
  <2> QED BY <2>1 DEF Ahead
<1> QED BY <1>3, <1>4, <1>7, <1>8, <1>9 DEF part

LEMMA ReleasedIs ==
  ASSUME NEW queue, InTurn(queue), NEW at
  PROVE  Released(queue, at) \in 0 .. Len(queue)
<1> DEFINE I == {i \in 1 .. Len(queue) : at - queue[i].at < setting.embargo}
           stays == IF I # {} THEN Min(I) ELSE 0
<1>1. Released(queue, at) = IF stays = 0 THEN Len(queue) ELSE stays - 1
  BY DEF Released, SelectInSeq
<1>2. Len(queue) \in Nat
  BY DEF InTurn
<1>3. stays \in 0 .. Len(queue)
  <2>1. CASE I = {}
    BY <1>2, <2>1
  <2>2. CASE I # {}
    <3>1. PICK n \in I : \A m \in I : n <= m
      <4>1. I \subseteq Nat
        BY <1>2
      <4> HIDE DEF I
      <4> QED BY <2>2, <4>1, Least
    <3>2. Min(I) \in I
      <4> HIDE DEF I
      <4> QED BY <3>1 DEF Min
    <3>3. stays = Min(I) /\ stays \in I
      <4>1. stays = Min(I)
        BY <2>2
      <4> HIDE DEF I, stays
      <4> QED BY <3>2, <4>1
    <3> HIDE DEF stays
    <3> QED BY <1>2, <3>3
  <2> QED BY <2>1, <2>2
<1> HIDE DEF stays
<1> QED BY <1>1, <1>2, <1>3

\* What a row's schedule comes to: the rows it has learned came before those
\* that stay held, all of them up to its clock, and no row is there twice.
Turn(s, learns, at, queue, m) ==
  /\ s.now \in Nat /\ s.now >= at
  /\ InTurn(s.pending) /\ Bounded(s.pending, s.now) /\ Ahead(m, s.pending)
  /\ InTurn(learns) /\ Bounded(learns, s.now) /\ Ahead(m, learns)
  /\ \A i \in 1 .. Len(learns), j \in 1 .. Len(s.pending) : learns[i].at <= s.pending[j].at
  /\ Len(learns) + Len(s.pending) <= Len(queue) + 1
  /\ Upto(m, s.now)

LEMMA ScheduleKeeps ==
  ASSUME SettingTyped, NEW at \in Nat, NEW rows \in Nat, NEW queue, InTurn(queue), Bounded(queue, at),
         NEW row \in setting.rows, NEW m \in Models, Upto(m, at), Ahead(m, queue)
  PROVE  LET s == Scheduled(Planning([now |-> at, rows |-> rows, pending |-> queue]), row)
         IN  Turn(s, s.plans[1].learns, at, queue, m)
<1> DEFINE p == [now |-> at, rows |-> rows, pending |-> queue]
           now1 == at + row.gap
           kept == IF Restarts(Planning(p), row) THEN <<>> ELSE queue
           all == Append(kept, [at |-> now1, odd |-> row.odd])
           n == IF setting.embargo = 0 THEN Len(all) ELSE Released(kept, now1)
           s == Scheduled(Planning(p), row)
           learns == IF row.accept THEN SubSeq(all, 1, n) ELSE <<>>
           held == IF row.accept THEN SubSeq(all, n + 1, Len(all)) ELSE kept
<1>1. s.now = now1 /\ s.pending = held /\ s.plans[1].learns = learns
  <2>1. Planning(p) = [now |-> at, rows |-> rows, pending |-> queue, plans |-> <<>>]
    BY DEF Planning
  <2> DEFINE plan == [reset |-> Restarts(Planning(p), row), learns |-> learns]
  <2>2. s = [now |-> now1, rows |-> rows + 1, pending |-> held, plans |-> Append(<<>>, plan)]
    <3> DEFINE P == Planning(p)
    <3>1. P.now = at /\ P.rows = rows /\ P.pending = queue /\ P.plans = <<>>
      <4> HIDE DEF p
      <4> QED BY <2>1
    <3>2. s = LET at1   == P.now + row.gap
                  kept1 == IF Restarts(P, row) THEN <<>> ELSE P.pending
                  all1  == Append(kept1, [at |-> at1, odd |-> row.odd])
                  n1    == IF setting.embargo = 0 THEN Len(all1) ELSE Released(kept1, at1)
              IN  [now |-> at1, rows |-> P.rows + 1,
                   pending |-> IF row.accept THEN SubSeq(all1, n1 + 1, Len(all1)) ELSE kept1,
                   plans |-> Append(P.plans,
                               [reset |-> Restarts(P, row),
                                learns |-> IF row.accept THEN SubSeq(all1, 1, n1) ELSE <<>>])]
      BY DEF Scheduled, Stays
    <3> HIDE DEF P, s
    <3> QED BY <3>1, <3>2, Zenon DEF P
  <2> HIDE DEF plan, learns, held, s, now1
  <2>3. Append(<<>>, plan)[1] = plan
    OBVIOUS
  <2>4. s.now = now1 /\ s.pending = held /\ s.plans[1] = plan
    BY <2>2, <2>3
  <2> QED BY <2>4 DEF plan
<1>2. /\ row.gap \in Nat /\ row.accept \in BOOLEAN /\ row.odd \in BOOLEAN
      /\ now1 \in Nat /\ now1 >= at
  BY DEF SettingTyped
<1>3. Upto(m, now1)
  <2>1. m.learned = <<>> \/ Last(m.learned) \in Nat
    <3>1. m.learned \in Seq(Nat)
      BY DEF Models
    <3> HIDE DEF now1
    <3>2. m.learned # <<>> => Len(m.learned) \in 1 .. Len(m.learned)
      BY <3>1, EmptySeq, LenProperties
    <3> QED BY <3>1, <3>2, ElementOfSeq DEF Last
  <2> QED BY <1>2, <2>1 DEF Upto
<1>4. /\ InTurn(kept) /\ Bounded(kept, now1) /\ Ahead(m, kept)
      /\ Len(kept) \in Nat /\ Len(queue) \in Nat /\ Len(kept) <= Len(queue)
  <2>1. InTurn(<<>>) /\ Bounded(<<>>, now1) /\ Ahead(m, <<>>) /\ Len(<<>>) = 0
    BY EmptySeq DEF InTurn, Bounded, Ahead
  <2>2. queue \in Seq(Held) /\ Len(queue) \in Nat
    BY DEF InTurn
  <2>3. Bounded(queue, now1)
    <3>1. ASSUME NEW i \in 1 .. Len(queue) PROVE queue[i].at <= now1
      <4>1. queue[i] \in Held /\ queue[i].at <= at
        BY <2>2, ElementOfSeq DEF Bounded
      <4>2. queue[i].at \in Nat
        BY <4>1 DEF Held
      <4> HIDE DEF now1
      <4> QED BY <1>2, <4>1, <4>2
    <3> QED BY <3>1 DEF Bounded
  <2>4. kept = <<>> \/ kept = queue
    OBVIOUS
  <2> HIDE DEF kept, now1
  <2> QED BY <2>1, <2>2, <2>3, <2>4
<1> HIDE DEF kept, now1, s, p
<1>5. /\ InTurn(all) /\ Bounded(all, now1) /\ Ahead(m, all) /\ Len(all) = Len(kept) + 1
  BY <1>2, <1>3, <1>4, QueueGrows
<1>6. n \in 0 .. Len(all)
  <2>1. Released(kept, now1) \in 0 .. Len(kept)
    BY <1>4, ReleasedIs
  <2> HIDE DEF all
  <2> QED BY <1>4, <1>5, <2>1
<1> HIDE DEF all, n
<1>7. CASE row.accept
  <2> DEFINE first == SubSeq(all, 1, n)
             rest == SubSeq(all, n + 1, Len(all))
  <2>1. learns = first /\ held = rest
    BY <1>7
  <2>2. Len(all) \in Nat /\ n \in Nat /\ n <= Len(all)
    BY <1>4, <1>5, <1>6
  <2>3. /\ InTurn(first) /\ Len(first) = n /\ Bounded(first, now1) /\ Ahead(m, first)
        /\ \A i \in 1 .. n : first[i] = all[i]
    <3>1. 1 \in 1 .. Len(all) + 1 /\ n \in 1 - 1 .. Len(all) /\ n - 1 + 1 = n
      BY <2>2
    <3>2. \A i \in 1 .. n : 1 + i - 1 = i
      BY <2>2
    <3> QED BY <1>5, <3>1, <3>2, QueuePart
  <2>4. /\ InTurn(rest) /\ Len(rest) = Len(all) - n /\ Bounded(rest, now1) /\ Ahead(m, rest)
        /\ \A i \in 1 .. Len(all) - n : rest[i] = all[n + i]
    <3>1. n + 1 \in 1 .. Len(all) + 1 /\ Len(all) \in (n + 1) - 1 .. Len(all)
          /\ Len(all) - (n + 1) + 1 = Len(all) - n
      BY <2>2
    <3>2. \A i \in 1 .. Len(all) - n : (n + 1) + i - 1 = n + i
      BY <2>2
    <3> QED BY <1>5, <3>1, <3>2, QueuePart
  <2>5. ASSUME NEW i \in 1 .. n, NEW j \in 1 .. Len(all) - n PROVE first[i].at <= rest[j].at
    <3>1. i \in 1 .. Len(all) /\ n + j \in 1 .. Len(all) /\ i <= n + j
      BY <2>2
    <3>2. all[i].at <= all[n + j].at
      BY <1>5, <3>1 DEF InTurn
    <3> QED BY <2>3, <2>4, <3>2
  <2> HIDE DEF first, rest, learns, held
  <2>6. Len(first) + Len(rest) <= Len(queue) + 1
    BY <1>4, <1>5, <2>2, <2>3, <2>4
  <2>7. Turn(s, learns, at, queue, m)
    BY <1>1, <1>2, <1>3, <2>1, <2>3, <2>4, <2>5, <2>6 DEF Turn
  <2> QED BY <1>1, <2>7 DEF s, p
<1>8. CASE ~row.accept
  <2>1. learns = <<>> /\ held = kept
    BY <1>8
  <2>2. InTurn(<<>>) /\ Bounded(<<>>, now1) /\ Ahead(m, <<>>) /\ Len(<<>>) = 0
    BY EmptySeq DEF InTurn, Bounded, Ahead
  <2> HIDE DEF learns, held
  <2>3. \A i \in 1 .. Len(learns) : FALSE
    BY <2>1, <2>2
  <2>4. Len(learns) + Len(held) <= Len(queue) + 1
    BY <1>4, <2>1, <2>2
  <2>5. Turn(s, learns, at, queue, m)
    BY <1>1, <1>2, <1>3, <1>4, <2>1, <2>2, <2>3, <2>4 DEF Turn
  <2> QED BY <1>1, <2>5 DEF s, p
<1> QED BY <1>2, <1>7, <1>8

-----------------------------------------------------------------------------
(* What every step keeps.                                                  *)

Instance == [ring |-> ring, size |-> size, learned |-> learned]

FeedTyped ==
  /\ setting \in Settings
  /\ now \in Nat /\ fed \in Nat /\ inRun \in 0 .. RunRows - 1
  /\ todo \in Seq(setting.rows) /\ fed + Len(todo) <= setting.maxRows
\* The ring fits the rows learned, none of which came after the clock.
ModelStands == ModelFits(Instance) /\ Upto(Instance, now)
\* The rows an embargo holds came after those learned, and no row is lost or
\* held twice.
QueueStands ==
  /\ InTurn(pending) /\ Bounded(pending, now) /\ Ahead(Instance, pending)
  /\ Len(learned) + Len(pending) <= fed
\* Between calls, a bank that takes another has no ring past its budget.
AtRest == todo = <<>> /\ ~broken => ring.over = 0

Inv == FeedTyped /\ ModelStands /\ QueueStands /\ AtRest

LEMMA InstanceIs ==
  ASSUME ModelStands
  PROVE  /\ ring \in Rings /\ size \in {Small, Large} /\ Rising(learned) /\ RingFits(ring, learned)
         /\ learned \in Seq(Nat) /\ Len(learned) \in Nat
         /\ learned = <<>> \/ Last(learned) <= now
<1>1. Instance.ring = ring /\ Instance.size = size /\ Instance.learned = learned
  BY DEF Instance
<1>2. Instance \in Models /\ Rising(Instance.learned) /\ RingFits(Instance.ring, Instance.learned)
      /\ Upto(Instance, now)
  BY DEF ModelStands, ModelFits
<1>3. Instance.ring \in Rings /\ Instance.size \in {Small, Large} /\ Instance.learned \in Seq(Nat)
  BY <1>2 DEF Models
<1> HIDE DEF Instance
<1> QED BY <1>1, <1>2, <1>3, LenProperties DEF Upto

\* A stream's setting stays, and so does what its ring is measured by.
LEMMA SettingStays ==
  ASSUME setting' = setting, ModelFits(Instance'), Upto(Instance', now')
  PROVE  ModelStands'
<1>1. ModelFits(Instance)'
  BY DEF ModelFits, RingFits, Offered, Budgeted, InForce, Unthinned, Timely, OnCadence, FirstOfAll,
         AfterOneThatLeft, Spaced, Counted, FewBefore, HasLeft, Fits, Refusing, Thinning, NewRing
<1>2. Upto(Instance, now)'
  BY DEF Upto
<1> QED BY <1>1, <1>2 DEF ModelStands

LEMMA InitInv == Init => Inv
<1> SUFFICES ASSUME Init PROVE Inv
  OBVIOUS
<1>1. setting \in Settings /\ SettingTyped
  BY SettingIs DEF Init
<1>2. /\ Instance = NewModel /\ learned = <<>> /\ pending = <<>> /\ todo = <<>>
      /\ now = 0 /\ fed = 0 /\ inRun = 0 /\ ring.over = 0
  BY DEF Init, Instance, NewModel, NewRing
<1>3. Len(<<>>) = 0 /\ <<>> \in Seq(setting.rows) /\ <<>> \in Seq(Held)
  BY EmptySeq
<1>4. FeedTyped
  BY <1>1, <1>2, <1>3, WindowRingAssumption DEF FeedTyped, SettingTyped
<1>5. ModelStands
  BY <1>1, <1>2, NewModelFits DEF ModelStands, Upto
<1>6. QueueStands
  BY <1>2, <1>3 DEF QueueStands, InTurn, Bounded, Ahead
<1> QED BY <1>2, <1>4, <1>5, <1>6 DEF Inv, AtRest

LEMMA FeedKeeps == Inv /\ Feed => Inv'
<1> SUFFICES ASSUME Inv, Feed PROVE Inv'
  OBVIOUS
<1>1. PICK n \in 1 .. ChunkRows : \E rows \in [1 .. n -> setting.rows] :
        fed + n <= setting.maxRows /\ todo' = rows
  BY DEF Feed
<1>2. PICK rows \in [1 .. n -> setting.rows] : fed + n <= setting.maxRows /\ todo' = rows
  BY <1>1
<1>3. /\ todo = <<>> /\ ~broken /\ broken' = broken /\ inRun' = 0 /\ fed' = fed
      /\ setting' = setting /\ ring' = ring /\ size' = size /\ learned' = learned
      /\ now' = now /\ pending' = pending
  BY DEF Feed, stream
<1>4. rows \in Seq(setting.rows) /\ Len(rows) = n
  BY WindowRingAssumption
<1>5. FeedTyped'
  BY <1>2, <1>3, <1>4, WindowRingAssumption DEF Inv, FeedTyped
<1>6. Instance' = Instance
  BY <1>3 DEF Instance
<1>7. ModelStands'
  <2>1. ModelFits(Instance') /\ Upto(Instance', now')
    BY <1>3, <1>6 DEF Inv, ModelStands
  <2> QED BY <1>3, <2>1, SettingStays
<1>8. QueueStands'
  BY <1>3, <1>6 DEF Inv, QueueStands
<1>9. AtRest'
  BY <1>3 DEF Inv, AtRest
<1> QED BY <1>5, <1>7, <1>8, <1>9 DEF Inv

\* A row, with what it lets the model learn and where its runs are looked at.
LEMMA StepKeeps == Inv /\ StepRow => Inv'
<1> SUFFICES ASSUME Inv, StepRow PROVE Inv'
  OBVIOUS
<1> DEFINE row == Head(todo)
           first == Begins(row, fed)
           model == IF first THEN NewModel ELSE Instance
           S == IF first THEN Afresh ELSE AsFed
           s == Scheduled(Planning(S), row)
           plan == s.plans[1]
           base == IF plan.reset THEN Rebuilt(model) ELSE model
           start(fires) == [model |-> base, n |-> 1, fires |-> fires, over |-> FALSE, grew |-> FALSE]
           run(fires) == LearnRows(start(fires), plan.learns)
           stops(fires) == RunEnds /\ run(fires).model.ring.over > 0
<1>1. /\ todo # <<>> /\ todo \in Seq(setting.rows) /\ row \in setting.rows
      /\ Tail(todo) \in Seq(setting.rows) /\ Len(Tail(todo)) = Len(todo) - 1 /\ Len(todo) \in Nat
      /\ SettingTyped
  <2>1. todo # <<>> /\ todo \in Seq(setting.rows) /\ setting \in Settings
    BY DEF StepRow, Inv, FeedTyped
  <2>2. row \in setting.rows /\ Tail(todo) \in Seq(setting.rows) /\ Len(Tail(todo)) = Len(todo) - 1
    BY <2>1, HeadTailProperties
  <2> HIDE DEF row
  <2> QED BY <2>1, <2>2, SettingIs, LenProperties
<1>2. PICK fires \in SUBSET (IF setting.drift THEN DOMAIN plan.learns ELSE {}) :
        /\ ring' = run(fires).model.ring /\ size' = run(fires).model.size
        /\ learned' = run(fires).model.learned
        /\ now' = s.now /\ pending' = s.pending
        /\ broken' = stops(fires)
        /\ todo' = IF stops(fires) THEN <<>> ELSE Tail(todo)
  BY DEF StepRow, Instance
<1>3. fed' = fed + 1 /\ inRun' = (IF RunEnds THEN 0 ELSE inRun + 1) /\ setting' = setting
  BY DEF StepRow
<1>4. /\ S.now \in Nat /\ S.rows \in Nat /\ InTurn(S.pending) /\ Bounded(S.pending, S.now)
      /\ ModelFits(model) /\ Upto(model, S.now) /\ Ahead(model, S.pending)
      /\ Len(model.learned) + Len(S.pending) <= fed
      /\ S = [now |-> S.now, rows |-> S.rows, pending |-> S.pending]
  <2>1. CASE first
    <3>1. model = NewModel /\ S = Afresh
      BY <2>1
    <3>2. S.now = 0 /\ S.rows = 0 /\ S.pending = <<>>
          /\ S = [now |-> S.now, rows |-> S.rows, pending |-> S.pending]
      BY <3>1 DEF Afresh
    <3>3. InTurn(<<>>) /\ Bounded(<<>>, 0) /\ Ahead(NewModel, <<>>) /\ Len(<<>>) = 0
      BY EmptySeq DEF InTurn, Bounded, Ahead
    <3>4. ModelFits(NewModel) /\ Upto(NewModel, 0) /\ Len(NewModel.learned) = 0
      BY <1>1, NewModelFits DEF Upto
    <3>5. fed \in Nat
      BY DEF Inv, FeedTyped
    <3> HIDE DEF model, S
    <3> QED BY <3>1, <3>2, <3>3, <3>4, <3>5
  <2>2. CASE ~first
    <3>1. model = Instance /\ S = AsFed
      BY <2>2
    <3>2. S.now = now /\ S.rows = fed /\ S.pending = pending
          /\ S = [now |-> S.now, rows |-> S.rows, pending |-> S.pending]
      BY <3>1 DEF AsFed
    <3>3. Instance.learned = learned
      BY DEF Instance
    <3> HIDE DEF model, S
    <3>4. now \in Nat /\ fed \in Nat
      BY DEF Inv, FeedTyped
    <3>5. ModelFits(Instance) /\ Upto(Instance, now)
      BY DEF Inv, ModelStands
    <3>6. InTurn(pending) /\ Bounded(pending, now) /\ Ahead(Instance, pending)
          /\ Len(learned) + Len(pending) <= fed
      BY DEF Inv, QueueStands
    <3> QED BY <3>1, <3>2, <3>3, <3>4, <3>5, <3>6
  <2> QED BY <2>1, <2>2
<1>5. model \in Models
  BY <1>4 DEF ModelFits
<1>6. Turn(s, plan.learns, S.now, S.pending, model)
  <2> HIDE DEF S, model, row
  <2> QED BY <1>1, <1>4, <1>5, ScheduleKeeps
<1>7. /\ ModelFits(base) /\ base \in Models
      /\ base = model \/ (base.learned = <<>> /\ Len(base.learned) = 0)
  <2> HIDE DEF plan, model
  <2> QED BY <1>1, <1>4, <1>5, NewModelFits DEF Rebuilt, ModelFits
<1> HIDE DEF S, s, plan, model, base
<1>8. \A b : Upto(model, b) => Upto(base, b)
  BY <1>7 DEF Upto
<1> DEFINE learns == plan.learns
<1>9. /\ s.now \in Nat /\ InTurn(s.pending) /\ Bounded(s.pending, s.now) /\ Ahead(model, s.pending)
      /\ InTurn(learns) /\ Bounded(learns, s.now) /\ Ahead(model, learns)
      /\ \A i \in 1 .. Len(learns), j \in 1 .. Len(s.pending) : learns[i].at <= s.pending[j].at
      /\ Len(learns) + Len(s.pending) <= Len(S.pending) + 1 /\ Upto(model, s.now)
      /\ learns \in Seq(Held) /\ s.pending \in Seq(Held)
  BY <1>6 DEF Turn, InTurn
<1>10. start(fires) \in Runs /\ start(fires).model = base
  <2>1. DOMAIN learns \subseteq Nat
    <3> HIDE DEF learns
    <3> QED BY <1>9
  <2>2. fires \in SUBSET Nat
    BY <2>1
  <2> QED BY <1>7, <2>2 DEF Runs
<1> DEFINE st == start(fires)
           after == LearnRows(st, learns)
<1>11. after = run(fires) /\ st \in Runs /\ st.model = base
  BY <1>10
<1> HIDE DEF start, st, learns
<1>12. StandsAt(st, 0, st, learns)
  <2>1. ASSUME NEW m \in 1 .. Len(learns) PROVE Upto(base, learns[m].at)
    BY <1>8, <1>9 DEF Ahead
  <2>2. Len(st.model.learned) \in Nat
    <3>1. base.learned \in Seq(Nat)
      BY <1>7 DEF Models
    <3> QED BY <1>11, <3>1, LenProperties
  <2>3. Len(st.model.learned) <= Len(st.model.learned) + 0
    BY <2>2
  <2>4. \A m \in 0 + 1 .. Len(learns) : Upto(st.model, learns[m].at)
    BY <1>11, <2>1
  <2> QED BY <1>7, <1>11, <2>3, <2>4 DEF StandsAt
<1>13. StandsAt(after, Len(learns), st, learns)
  BY <1>1, <1>9, <1>12, RowsLearned
<1> HIDE DEF after
<1>14. /\ after \in Runs /\ ModelFits(after.model) /\ after.model \in Models
       /\ Len(after.model.learned) <= Len(base.learned) + Len(learns)
       /\ \A b \in Nat :
            Upto(base, b) /\ (\A m \in 1 .. Len(learns) : learns[m].at <= b) => Upto(after.model, b)
  BY <1>11, <1>13 DEF StandsAt, ModelFits
<1>15. /\ Instance' = after.model /\ ring' = after.model.ring /\ learned' = after.model.learned
       /\ now' = s.now /\ pending' = s.pending
  <2>1. ring' = after.model.ring /\ size' = after.model.size /\ learned' = after.model.learned
    BY <1>2, <1>11 DEF learns
  <2>2. after.model = [ring |-> after.model.ring, size |-> after.model.size,
                       learned |-> after.model.learned]
    BY <1>14 DEF Models
  <2> QED BY <1>2, <2>1, <2>2 DEF Instance
<1>16. Upto(after.model, s.now)
  BY <1>8, <1>9, <1>14 DEF Bounded
<1>17. Ahead(after.model, s.pending)
  <2>1. ASSUME NEW j \in 1 .. Len(s.pending) PROVE Upto(after.model, s.pending[j].at)
    <3>1. s.pending[j] \in Held
      BY <1>9, ElementOfSeq
    <3>2. s.pending[j].at \in Nat
      BY <3>1 DEF Held
    <3>3. Upto(base, s.pending[j].at)
      BY <1>8, <1>9 DEF Ahead
    <3>4. \A m \in 1 .. Len(learns) : learns[m].at <= s.pending[j].at
      BY <1>9
    <3> QED BY <1>14, <3>2, <3>3, <3>4
  <2> QED BY <2>1 DEF Ahead
<1>18. ModelStands'
  BY <1>3, <1>14, <1>15, <1>16, SettingStays
<1>19. QueueStands'
  <2>1. Len(after.model.learned) + Len(s.pending) <= fed + 1
    <3>1. /\ Len(after.model.learned) \in Nat /\ Len(base.learned) \in Nat /\ Len(model.learned) \in Nat
          /\ Len(S.pending) \in Nat /\ Len(s.pending) \in Nat /\ Len(learns) \in Nat /\ fed \in Nat
      <4>1. after.model.learned \in Seq(Nat) /\ base.learned \in Seq(Nat) /\ model.learned \in Seq(Nat)
        BY <1>5, <1>7, <1>14 DEF Models
      <4>2. S.pending \in Seq(Held) /\ fed \in Nat
        BY <1>4 DEF InTurn, Inv, FeedTyped
      <4> QED BY <1>9, <4>1, <4>2, LenProperties
    <3>2. Len(base.learned) <= Len(model.learned)
      BY <1>7, <3>1
    <3>3. \A a, b, c, p, q, l, n \in Nat :
            a <= b + l /\ b <= c /\ l + q <= p + 1 /\ c + p <= n => a + q <= n + 1
      OBVIOUS
    <3> HIDE DEF row
    <3> QED BY <1>4, <1>9, <1>14, <3>1, <3>2, <3>3
  <2>2. Instance' = after.model /\ pending' = s.pending /\ now' = s.now /\ fed' = fed + 1
        /\ learned' = after.model.learned
    BY <1>3, <1>15
  <2> QED BY <1>9, <1>17, <2>1, <2>2 DEF QueueStands, InTurn, Bounded, Ahead, Upto
<1>20. FeedTyped'
  <2>1. now' \in Nat /\ fed' = fed + 1 /\ fed \in Nat /\ setting' = setting /\ setting \in Settings
    BY <1>3, <1>9, <1>15 DEF Inv, FeedTyped
  <2>2. inRun' \in 0 .. RunRows - 1
    <3>1. inRun \in 0 .. RunRows - 1 /\ RunRows \in Nat
      BY WindowRingAssumption DEF Inv, FeedTyped
    <3> QED BY <1>3, <3>1 DEF RunEnds
  <2>3. todo' \in Seq(setting.rows) /\ fed + 1 + Len(todo') <= setting.maxRows
    <3>1. todo' = <<>> \/ todo' = Tail(todo)
      BY <1>2
    <3>2. <<>> \in Seq(setting.rows) /\ Len(<<>>) = 0 /\ Len(todo) > 0
      BY <1>1, EmptySeq
    <3>3. fed + Len(todo) <= setting.maxRows /\ setting.maxRows \in Nat /\ fed \in Nat
      BY <1>1 DEF Inv, FeedTyped, SettingTyped
    <3>4. Len(todo') \in Nat /\ Len(todo') <= Len(todo) - 1 /\ todo' \in Seq(setting.rows)
      <4> HIDE DEF row
      <4>1. CASE todo' = <<>>
        BY <1>1, <3>2, <4>1
      <4>2. CASE todo' = Tail(todo)
        BY <1>1, <4>2, LenProperties
      <4> QED BY <3>1, <4>1, <4>2
    <3> HIDE DEF row
    <3> QED BY <1>1, <3>3, <3>4
  <2> QED BY <2>1, <2>2, <2>3 DEF FeedTyped
<1>21. AtRest'
  <2>1. ASSUME todo' = <<>>, ~broken' PROVE ring'.over = 0
    <3>1. ~stops(fires) /\ Tail(todo) = <<>>
      BY <1>2, <2>1
    <3>2. RunEnds
      BY <3>1 DEF RunEnds
    <3>3. ~(ring'.over > 0)
      BY <1>2, <3>1, <3>2
    <3>4. ring'.over \in Nat
      BY <1>14, <1>15 DEF Models, Rings
    <3> QED BY <3>3, <3>4
  <2> QED BY <2>1 DEF AtRest
<1> QED BY <1>18, <1>19, <1>20, <1>21 DEF Inv

\* A bank that is loaded has its rings' budgets set anew, and nothing comes of it.
LEMMA LoadKeeps == Inv /\ Load => Inv'
<1> SUFFICES ASSUME Inv, Load PROVE Inv'
  OBVIOUS
<1>1. /\ todo = <<>> /\ ~broken /\ ring' = SetBudget(ring)
      /\ setting' = setting /\ size' = size /\ learned' = learned /\ now' = now
      /\ pending' = pending /\ fed' = fed /\ todo' = todo /\ inRun' = inRun /\ broken' = broken
  BY DEF Load, chunk
<1>2. ring' = ring
  <2>1. SettingTyped
    BY SettingIs DEF Inv, FeedTyped
  <2>2. RingFits(ring, learned)
    BY InstanceIs DEF Inv
  <2>3. ring.over = 0
    BY <1>1 DEF Inv, AtRest
  <2> QED BY <1>1, <2>1, <2>2, <2>3, BudgetStands
<1>3. Instance' = Instance
  BY <1>1, <1>2 DEF Instance
<1>4. ModelStands'
  <2>1. ModelFits(Instance') /\ Upto(Instance', now')
    BY <1>1, <1>3 DEF Inv, ModelStands
  <2> QED BY <1>1, <2>1, SettingStays
<1>5. FeedTyped' /\ AtRest'
  BY <1>1, <1>2 DEF Inv, FeedTyped, AtRest
<1>6. QueueStands'
  BY <1>1, <1>3 DEF Inv, QueueStands, InTurn, Bounded, Ahead, Upto
<1> QED BY <1>4, <1>5, <1>6 DEF Inv

LEMMA StutterKeeps == Inv /\ UNCHANGED vars => Inv'
<1> SUFFICES ASSUME Inv, UNCHANGED vars PROVE Inv'
  OBVIOUS
<1>1. /\ setting' = setting /\ ring' = ring /\ size' = size /\ learned' = learned /\ now' = now
      /\ pending' = pending /\ fed' = fed /\ todo' = todo /\ inRun' = inRun /\ broken' = broken
  BY DEF vars, stream, chunk
<1>2. Instance' = Instance
  BY <1>1 DEF Instance
<1>3. ModelStands'
  <2>1. ModelFits(Instance') /\ Upto(Instance', now')
    BY <1>1, <1>2 DEF Inv, ModelStands
  <2> QED BY <1>1, <2>1, SettingStays
<1>4. FeedTyped' /\ AtRest'
  BY <1>1 DEF Inv, FeedTyped, AtRest
<1>5. QueueStands'
  BY <1>1, <1>2 DEF Inv, QueueStands, InTurn, Bounded, Ahead, Upto
<1> QED BY <1>3, <1>4, <1>5 DEF Inv

\* The invariant of the ring and its stream, for every setting.
THEOREM RingStands == Spec => []Inv
<1>1. Inv /\ [Next]_vars => Inv'
  BY FeedKeeps, StepKeeps, LoadKeeps, StutterKeeps DEF Next
<1> QED BY <1>1, InitInv, PTL DEF Spec

-----------------------------------------------------------------------------
(* The theorems.                                                           *)

\* Types: what a ring, its stream and its chunk hold, a row fed being learned
\* or held once at most (Snapshots in window.rs, Stream in stream.rs).
THEOREM Types == Spec => []TypeOK
<1>1. Inv => TypeOK
  <2> SUFFICES ASSUME Inv PROVE TypeOK
    OBVIOUS
  <2>1. /\ ring \in Rings /\ size \in {Small, Large} /\ Rising(learned) /\ Len(learned) \in Nat
        /\ learned \in Seq(Nat) /\ (learned = <<>> \/ Last(learned) <= now)
    BY InstanceIs DEF Inv
  <2>2. /\ ring.every \in Nat /\ ring.spacing \in Nat /\ ring.since \in Nat
        /\ ring.held \in Nat /\ ring.over \in Nat /\ ring.snaps \in Seq(Snapshot)
    BY <2>1 DEF Rings
  <2>3. ToSet(ring.snaps) \subseteq Snapshot
    <3>1. \A i \in DOMAIN ring.snaps : ring.snaps[i] \in Snapshot
      BY <2>2, ElementOfSeq, LenProperties
    <3> QED BY <3>1 DEF ToSet
  <2>4. ToSet(learned) \subseteq 0 .. now
    <3>1. now \in Nat /\ DOMAIN learned = 1 .. Len(learned)
      BY <2>1, LenProperties DEF Inv, FeedTyped
    <3>2. ASSUME NEW i \in 1 .. Len(learned) PROVE learned[i] \in 0 .. now
      <4>1. Len(learned) \in 1 .. Len(learned) /\ i <= Len(learned) /\ learned # <<>>
        BY <2>1
      <4>2. learned[i] <= learned[Len(learned)]
        BY <2>1, <4>1 DEF Rising
      <4>3. learned[Len(learned)] <= now
        BY <2>1, <4>1 DEF Last
      <4>4. learned[i] \in Nat /\ learned[Len(learned)] \in Nat
        BY <2>1, <4>1, ElementOfSeq
      <4> QED BY <3>1, <4>2, <4>3, <4>4
    <3> QED BY <3>1, <3>2 DEF ToSet
  <2>5. /\ setting \in Settings /\ inRun \in 0 .. RunRows - 1 /\ fed \in Nat
        /\ fed + Len(todo) <= setting.maxRows /\ Len(todo) \in Nat /\ setting.maxRows \in Nat
    BY SettingIs, LenProperties DEF Inv, FeedTyped, SettingTyped
  <2>6. Len(learned) + Len(pending) <= fed
    BY DEF Inv, QueueStands
  <2>7. fed \in 0 .. setting.maxRows
    BY <2>5
  <2> QED BY <2>1, <2>2, <2>3, <2>4, <2>5, <2>6, <2>7 DEF TypeOK
<1> QED BY <1>1, RingStands, PTL

\* Snapshots::take, trim and set_budget: a ring counts the bytes it holds, and
\* is within its budget but for one snapshot that a thinning ring must keep.
THEOREM WithinBudget == Spec => []BudgetHolds
<1>1. Inv => BudgetHolds
  <2> SUFFICES ASSUME Inv PROVE BudgetHolds
    OBVIOUS
  <2>1. Budgeted(ring)
    BY InstanceIs, RingIs, SettingIs DEF Inv, FeedTyped
  <2> QED BY <2>1 DEF BudgetHolds, Budgeted
<1> QED BY <1>1, RingStands, PTL

\* Snapshots::due and trim, Snapshots::enforce: what a model reads through the
\* ring is the window asked for, short of it by less than the cadence in force
\* in rows, thinned or not, and by less than the spacing asked for on the clock
\* while no budget has thinned the ring.
THEOREM TheWindowAskedFor == Spec => []WindowKept
<1>1. Inv => WindowKept
  <2> SUFFICES ASSUME Inv, learned # <<>>, ring.over = 0
      PROVE  /\ Kept \subseteq Inside /\ Len(learned) \in Kept
             /\ NextInTime
             /\ LostToCadence
    BY DEF WindowKept
  <2> DEFINE last == Last(learned)
             first == ring.snaps[1]
             N == Len(learned)
  <2>1. /\ SettingTyped /\ ring \in Rings /\ Rising(learned) /\ RingFits(ring, learned)
        /\ learned \in Seq(Nat) /\ N \in Nat /\ N \in 1 .. N /\ DOMAIN learned = 1 .. N
    <3>1. /\ ring \in Rings /\ Rising(learned) /\ RingFits(ring, learned)
          /\ learned \in Seq(Nat) /\ N \in Nat
      BY InstanceIs DEF Inv
    <3>2. N > 0 /\ DOMAIN learned = 1 .. N
      BY <3>1, EmptySeq, LenProperties
    <3> QED BY <3>1, <3>2, SettingIs DEF Inv, FeedTyped
  <2>2. /\ Placed(ring.snaps, learned) /\ Timely(ring, learned) /\ ~HasLeft(last, first.at)
        /\ Counted(ring, learned) /\ (Unthinned(ring) => OnCadence(ring, learned))
    BY <2>1 DEF RingFits, Offered
  <2>3. /\ ring.snaps \in Seq(Snapshot) /\ Len(ring.snaps) \in Nat
        /\ 1 \in 1 .. Len(ring.snaps) /\ Len(ring.snaps) \in 1 .. Len(ring.snaps)
    <3>1. ring.snaps \in Seq(Snapshot) /\ ring.snaps # <<>>
      BY <2>1, <2>2 DEF Rings, Timely
    <3> QED BY <3>1, EmptySeq
  <2>4. \A i \in 1 .. N : learned[i] \in Nat
    BY <2>1, ElementOfSeq
  <2>5. last = learned[N] /\ last \in Nat
    BY <2>1, <2>4 DEF Last
  <2>6. \A i, j \in 1 .. N : i <= j => learned[i] <= learned[j]
    BY <2>1 DEF Rising
  <2>7. first.rows \in 0 .. N - 1 /\ first.at = learned[first.rows + 1] /\ first.rows + 1 \in 1 .. N
    BY <2>1, <2>2, <2>3 DEF Placed
  <2> HIDE DEF first, last
  <2>8. \A i \in 1 .. N : ~HasLeft(last, learned[i]) => i \in Inside
    <3>1. ASSUME NEW i \in 1 .. N, ~HasLeft(last, learned[i]) PROVE i \in Inside
      <4>1. last - learned[i] < setting.window + IF setting.closed = "both" THEN 1 ELSE 0
        BY <2>1, <2>4, <2>5, <3>1 DEF HasLeft, SettingTyped
      <4> QED BY <2>1, <4>1 DEF Inside, Age, last
    <3> QED BY <3>1
  <2>9. Kept \subseteq Inside
    <3>1. ASSUME NEW i \in Kept PROVE i \in Inside
      <4>1. i \in 1 .. N /\ first.rows + 1 <= i
        BY <2>1, <2>7 DEF Kept, first
      <4>2. learned[first.rows + 1] <= learned[i]
        BY <2>6, <2>7, <4>1
      <4>3. ~HasLeft(last, learned[i])
        BY <2>1, <2>2, <2>4, <2>5, <2>7, <4>1, <4>2, LeavesForGood
      <4> QED BY <2>8, <4>1, <4>3
    <3> QED BY <3>1
  <2>10. N \in Kept
    BY <2>1, <2>7 DEF Kept, first
  <2>11. NextInTime
    <3> DEFINE newest == Last(ring.snaps)
    <3>1. newest.rows + 1 \in 1 .. N /\ newest.at = learned[newest.rows + 1]
      <4> DEFINE z == Len(ring.snaps)
      <4>1. newest = ring.snaps[z]
        BY DEF Last
      <4>2. z \in 1 .. Len(ring.snaps)
        BY <2>3
      <4> HIDE DEF z, newest
      <4>3. ring.snaps[z].rows \in 0 .. N - 1 /\ ring.snaps[z].at = learned[ring.snaps[z].rows + 1]
        BY <2>2, <4>2 DEF Placed
      <4>4. N \in Nat
        BY <2>1
      <4> QED BY <4>1, <4>3, <4>4
    <3>2. ~HasLeft(last, newest.at)
      BY <2>2 DEF Timely, last
    <3>3. newest.rows + 1 \in Inside
      BY <2>8, <3>1, <3>2
    <3> HIDE DEF newest
    <3>4. ring.since = N - newest.rows - 1 /\ (ring.every > 0 => ring.since < ring.every)
          /\ (ring.spacing > 0 => last - newest.at < ring.spacing)
      BY <2>2 DEF Timely, newest, last
    <3> QED BY <3>3, <3>4 DEF NextInTime, newest, last
  <2>w. ASSUME NEW p \in 1 .. first.rows, HasLeft(last, learned[p]), NEW i \in Lost
        PROVE  i > p /\ i \in 1 .. first.rows /\ last - learned[p] >= setting.window
    <3>1. i \in 1 .. N /\ i <= first.rows /\ i \in Inside /\ p \in 1 .. N
      BY <2>1, <2>7 DEF Lost, Kept, Inside, first
    <3>2. learned[p] \in Nat /\ learned[i] \in Nat /\ setting.window \in Nat
      BY <2>1, <2>4, <3>1 DEF SettingTyped
    <3>3. last - learned[p] >= setting.window
          /\ (setting.closed = "both" => last - learned[p] > setting.window)
      BY <2>1, <2>5, <2>w, <3>2 DEF HasLeft, SettingTyped
    <3>4. last - learned[i] < setting.window + IF setting.closed = "both" THEN 1 ELSE 0
      BY <3>1 DEF Inside, Age, last
    <3>5. learned[i] > learned[p]
      <4>1. \A w, l, p0, i0 \in Nat : l - p0 >= w /\ l - i0 < w => i0 > p0
        OBVIOUS
      <4>2. \A w, l, p0, i0 \in Nat : l - p0 > w /\ l - i0 < w + 1 => i0 > p0
        OBVIOUS
      <4>3. CASE setting.closed = "both"
        BY <2>5, <3>2, <3>3, <3>4, <4>2, <4>3
      <4>4. CASE setting.closed # "both"
        <5>1. last - learned[i] < setting.window + 0
          BY <3>4, <4>4
        <5>2. last - learned[i] < setting.window
          BY <2>5, <3>2, <5>1
        <5> QED BY <2>5, <3>2, <3>3, <4>1, <5>2
      <4> QED BY <4>3, <4>4
    <3>6. ~(i <= p)
      BY <2>6, <3>1, <3>2, <3>5
    <3> QED BY <3>1, <3>3, <3>6
  <2>12. ASSUME ring.every > 0, NEW i \in Lost PROVE first.rows - i < ring.every - 1
    <3>1. FewBefore(first.rows, ring.every, learned)
      BY <2>2, <2>12 DEF Counted, first
    <3>2. ring.every \in Nat /\ first.rows \in Nat
      BY <2>1, <2>7 DEF Rings
    <3>3. i \in Nat /\ i >= 1
      BY <2>1 DEF Lost, Inside
    <3>4. CASE first.rows <= ring.every - 1
      BY <3>2, <3>3, <3>4
    <3>5. ASSUME NEW p \in 1 .. first.rows, HasLeft(Last(learned), learned[p]),
                 first.rows - (p - 1) <= ring.every
          PROVE  first.rows - i < ring.every - 1
      <4>1. i > p
        BY <2>w, <3>5 DEF last
      <4> QED BY <3>2, <3>3, <3>5, <4>1
    <3> QED BY <3>1, <3>4, <3>5 DEF FewBefore
  <2>13. ASSUME setting.spacing > 0, ring.spacing = setting.spacing, NEW i \in Lost
         PROVE  Age(i) > setting.window - setting.spacing
    <3>1. OnCadence(ring, learned)
      BY <2>2, <2>13 DEF Unthinned
    <3>2. i \in 1 .. N /\ i <= first.rows
      BY <2>1, <2>7 DEF Lost, Kept, Inside, first
    <3>3. AfterOneThatLeft(ring, learned)
      BY <2>7, <3>1, <3>2 DEF OnCadence, FirstOfAll, first
    <3>4. PICK p \in 1 .. first.rows :
            HasLeft(last, learned[p]) /\ Spaced(p - 1, first.rows, learned)
      BY <3>3 DEF AfterOneThatLeft, first, last
    <3>5. i > p /\ i \in 1 .. first.rows /\ last - learned[p] >= setting.window
      BY <2>w, <3>4
    <3>6. p \in 1 .. N /\ learned[p] \in Nat /\ learned[i] \in Nat
          /\ setting.window \in Nat /\ setting.spacing \in Nat
      <4>1. p \in 1 .. N
        BY <2>1, <2>7
      <4> QED BY <2>1, <2>4, <3>2, <4>1 DEF SettingTyped
    <3>7. (p - 1) + 1 = p /\ i \in p .. first.rows
      BY <2>7, <3>2, <3>5, <3>6
    <3>8. learned[i] - learned[p] < setting.spacing
      BY <3>4, <3>7 DEF Spaced
    <3>9. Age(i) = last - learned[i]
      BY DEF Age, last
    <3>10. \A w, x, l, p0, i0 \in Nat : l - p0 >= w /\ i0 - p0 < x => l - i0 > w - x
      OBVIOUS
    <3> QED BY <2>5, <3>5, <3>6, <3>8, <3>9, <3>10
  <2>14. LostToCadence
    BY <2>12, <2>13 DEF LostToCadence, first
  <2> QED BY <2>9, <2>10, <2>11, <2>14
<1> QED BY <1>1, RingStands, PTL
=============================================================================
