-------------------------- MODULE LabelDelayProofs --------------------------
(***************************************************************************)
(* Proofs about rows that are scored where they stand and learned later,   *)
(* for every spec, every stream of rows, every cut of it into chunks and   *)
(* every drift: the rows are learned when they are due and in their order, *)
(* none is lost, the records stay beside them, and a model is handed what  *)
(* a bank that never held a row would hand it.                             *)
(***************************************************************************)
EXTENDS LabelDelayQueues


-----------------------------------------------------------------------------
(* The labels that are checked are those of the rows held.                 *)

IdsIn(P) == {P[i].id : i \in 1 .. Len(P)}
LabelsOf(h, S) == {<<h[j].label, j>> : j \in S}

LEMMA IdsOf ==
  ASSUME NEW s, NEW h, NEW n, NEW S, NEW q \in Seq(S)
  PROVE  IdsIn(Pending(s, h, n, q)) = {q[i] : i \in 1 .. Len(q)}
<1>1. /\ Len(Pending(s, h, n, q)) = Len(q)
      /\ \A i \in 1 .. Len(q) : Pending(s, h, n, q)[i] = HeldOf(s, h, n, q[i])
  BY PendingIs
<1>2. \A i \in 1 .. Len(q) : Pending(s, h, n, q)[i].id = q[i]
  <2>1. \A j : HeldOf(s, h, n, j).id = j
    BY DEF HeldOf
  <2> QED BY <1>1, <2>1
<1> QED BY <1>1, <1>2 DEF IdsIn

LEMMA IdsInsert ==
  ASSUME NEW P, IsSeq(P), NEW e, NEW i \in 1 .. Len(P) + 1
  PROVE  IdsIn(InsertAt(P, i, e)) = IdsIn(P) \cup {e.id}
<1> DEFINE U == Parts(P) \cup {e}
           N == Len(P)
           t == InsertAt(P, i, e)
<1>1. Parts(P) \subseteq U /\ e \in U
  OBVIOUS
<1> HIDE DEF U
<1>2. P \in Seq(U)
  BY <1>1, SeqOfParts
<1>3. HasIn(U, P, i, e, t)
  BY <1>1, <1>2, InsertIs
<1> HIDE DEF t
<1>4. /\ Len(t) = N + 1 /\ N \in Nat
      /\ \A j \in 1 .. N + 1 : t[j] = IF j < i THEN P[j] ELSE IF j = i THEN e ELSE P[j - 1]
  BY <1>3 DEF HasIn, IsSeq
<1>5. ASSUME NEW z \in IdsIn(t) PROVE z \in IdsIn(P) \cup {e.id}
  <2>1. PICK j \in 1 .. N + 1 : z = t[j].id
    BY <1>4 DEF IdsIn
  <2>2. CASE j < i
    <3>1. j \in 1 .. N /\ t[j] = P[j]
      BY <1>4, <2>2
    <3> QED BY <2>1, <3>1 DEF IdsIn
  <2>3. CASE j = i
    <3>1. t[j] = e
      BY <1>4, <2>3
    <3> QED BY <2>1, <3>1
  <2>4. CASE ~(j < i) /\ j # i
    <3>1. j - 1 \in 1 .. N /\ t[j] = P[j - 1]
      BY <1>4, <2>4
    <3> QED BY <2>1, <3>1 DEF IdsIn
  <2> QED BY <2>2, <2>3, <2>4
<1>6. ASSUME NEW z \in IdsIn(P) PROVE z \in IdsIn(t)
  <2>1. PICK j \in 1 .. N : z = P[j].id
    BY DEF IdsIn
  <2>2. CASE j < i
    <3>1. j \in 1 .. N + 1 /\ t[j] = P[j]
      BY <1>4, <2>2
    <3> QED BY <1>4, <2>1, <3>1 DEF IdsIn
  <2>3. CASE ~(j < i)
    <3>1. j + 1 \in 1 .. N + 1 /\ ~(j + 1 < i) /\ j + 1 # i /\ (j + 1) - 1 = j
      BY <1>4, <2>3
    <3>2. t[j + 1] = P[j]
      BY <1>4, <3>1
    <3> QED BY <1>4, <2>1, <3>1, <3>2 DEF IdsIn
  <2> QED BY <2>2, <2>3
<1>7. e.id \in IdsIn(t)
  <2>1. i \in 1 .. N + 1 /\ t[i] = e
    BY <1>4
  <2> QED BY <1>4, <2>1 DEF IdsIn
<1>8. IdsIn(t) = IdsIn(P) \cup {e.id}
  BY <1>5, <1>6, <1>7
<1> QED BY <1>8 DEF t

\* Where no row is dropped, those that are left of the rows held are the ones
\* not yet due.
LEMMA LeftOfHeld ==
  ASSUME NEW s \in Settings, NEW h \in Streams(s), ~s.dropOldest, NEW k \in 1 .. Len(h),
         NEW e, e \in 1 .. k,
         NEW w, UpToRow(w, k - 1), Books(s, h, w, e, k - 1, k),
         NEW v, UpToRow(v, k - 1), Books(s, h, v, e, k - 1, k),
         v.queue # <<>> => ~DueBy(s, h, v.queue[1], k)
  PROVE  Held(v) = {j \in Held(w) : ~DueBy(s, h, j, k)}
<1>1. InQueue(s, h, w, e) /\ InLearnt(s, h, w, e, k) /\ Kept(s, h, w, e, k - 1)
  BY DEF Books
<1>2. InQueue(s, h, v, e) /\ InLearnt(s, h, v, e, k) /\ Kept(s, h, v, e, k - 1)
  BY DEF Books
<1>3. \A i \in 1 .. Len(v.queue) : ~DueBy(s, h, v.queue[i], k)
  BY <1>2, NoneDue
<1>4. \A i \in 1 .. Len(w.queue) : w.queue[i] \in e .. k - 1 /\ HasLesson(s, h[w.queue[i]])
  <2>1. w.queue \in Seq(1 .. k - 1)
    BY DEF UpToRow
  <2>2. \A i \in 1 .. Len(w.queue) : w.queue[i] \in 1 .. k - 1
    BY <2>1, ElementOfSeq
  <2> QED BY <1>1, <2>2 DEF InQueue
<1>5. \A i \in 1 .. Len(v.queue) : v.queue[i] \in e .. k - 1 /\ HasLesson(s, h[v.queue[i]])
  <2>1. v.queue \in Seq(1 .. k - 1)
    BY DEF UpToRow
  <2>2. \A i \in 1 .. Len(v.queue) : v.queue[i] \in 1 .. k - 1
    BY <2>1, ElementOfSeq
  <2> QED BY <1>2, <2>2 DEF InQueue
<1>6. ASSUME NEW j \in Held(v) PROVE j \in Held(w) /\ ~DueBy(s, h, j, k)
  <2>1. j \in e .. k - 1 /\ HasLesson(s, h[j]) /\ ~DueBy(s, h, j, k)
    BY <1>3, <1>5 DEF Held
  <2>2. j \in Taken(w) \cup Held(w)
    BY <1>1, <2>1 DEF Kept
  <2>3. j \notin Taken(w)
    <3> SUFFICES ASSUME j \in Taken(w) PROVE FALSE
      OBVIOUS
    <3>1. PICK i \in 1 .. Len(w.learnt) : j = w.learnt[i]
      BY DEF Taken
    <3>2. w.learnt[i] >= e
      BY <2>1, <3>1
    <3> QED BY <1>1, <2>1, <3>1, <3>2 DEF InLearnt
  <2> QED BY <2>1, <2>2, <2>3
<1>7. ASSUME NEW j \in Held(w), ~DueBy(s, h, j, k) PROVE j \in Held(v)
  <2>1. j \in e .. k - 1 /\ HasLesson(s, h[j])
    BY <1>4 DEF Held
  <2>2. j \in Taken(v) \cup Held(v)
    BY <1>2, <2>1 DEF Kept
  <2>3. j \notin Taken(v)
    <3> SUFFICES ASSUME j \in Taken(v) PROVE FALSE
      OBVIOUS
    <3>1. PICK i \in 1 .. Len(v.learnt) : j = v.learnt[i]
      BY DEF Taken
    <3>2. v.learnt[i] >= e
      BY <2>1, <3>1
    <3> QED BY <1>2, <1>7, <3>1, <3>2 DEF InLearnt
  <2> QED BY <2>2, <2>3
<1> QED BY <1>6, <1>7

\* There are as many labels as rows held, one more with another.
LEMMA LabelsCount ==
  ASSUME NEW s \in Settings, NEW h \in Streams(s), NEW k \in 1 .. Len(h), NEW e,
         NEW v, UpToRow(v, k - 1), InQueue(s, h, v, e)
  PROVE  Cardinality(LabelsOf(h, Held(v) \cup {k})) = Len(v.queue) + 1
<1> DEFINE N == Len(v.queue)
           T == LabelsOf(h, Held(v) \cup {k})
           at(i) == IF i = N + 1 THEN k ELSE v.queue[i]
           f == [i \in 1 .. N + 1 |-> <<h[at(i)].label, at(i)>>]
<1>1. N \in Nat /\ \A i \in 1 .. N : v.queue[i] \in 1 .. k - 1
  <2>1. v.queue \in Seq(1 .. k - 1)
    BY DEF UpToRow
  <2>2. \A i \in 1 .. Len(v.queue) : v.queue[i] \in 1 .. k - 1
    BY <2>1, ElementOfSeq
  <2> QED BY <2>1, <2>2
<1>2. \A i, j \in 1 .. N : v.queue[i] = v.queue[j] => i = j
  <2> SUFFICES ASSUME NEW i \in 1 .. N, NEW j \in 1 .. N, v.queue[i] = v.queue[j], i < j
               PROVE FALSE
    BY <1>1
  <2>1. i \in 1 .. j - 1
    OBVIOUS
  <2>2. Earlier(s, h, v.queue[i], v.queue[j])
    BY <2>1 DEF InQueue
  <2>3. v.queue[i] \in 1 .. Len(h)
    BY <1>1 DEF Streams
  <2> QED BY <2>2, <2>3, EarlierIs
<1>3. ASSUME NEW i \in 1 .. N + 1, NEW j \in 1 .. N + 1, f[i] = f[j] PROVE i = j
  <2>1. at(i) = at(j)
    BY <1>3
  <2>2. CASE i = N + 1
    <3>1. ~(j \in 1 .. N)
      BY <1>1, <2>1, <2>2
    <3> QED BY <1>1, <2>2, <3>1
  <2>3. CASE i # N + 1
    <3>1. i \in 1 .. N
      BY <1>1, <2>3
    <3>2. j # N + 1
      BY <1>1, <2>1, <2>3, <3>1
    <3>3. j \in 1 .. N
      BY <1>1, <3>2
    <3> QED BY <1>2, <2>1, <2>3, <3>1, <3>2, <3>3
  <2> QED BY <2>2, <2>3
<1>4. \A z : z \in T <=> \E i \in 1 .. N + 1 : z = <<h[at(i)].label, at(i)>>
  <2>1. ASSUME NEW z \in T PROVE \E i \in 1 .. N + 1 : z = <<h[at(i)].label, at(i)>>
    <3>1. PICK j \in Held(v) \cup {k} : z = <<h[j].label, j>>
      BY DEF LabelsOf
    <3>2. CASE j = k
      <4>1. N + 1 \in 1 .. N + 1 /\ at(N + 1) = j
        BY <1>1, <3>2
      <4> HIDE DEF at
      <4> QED BY <3>1, <4>1
    <3>3. CASE j # k
      <4>1. PICK i \in 1 .. N : j = v.queue[i]
        BY <3>1, <3>3 DEF Held
      <4>2. i \in 1 .. N + 1 /\ at(i) = j
        BY <1>1, <4>1
      <4> HIDE DEF at
      <4> QED BY <3>1, <4>2
    <3> QED BY <3>2, <3>3
  <2>2. ASSUME NEW z, NEW i \in 1 .. N + 1, z = <<h[at(i)].label, at(i)>> PROVE z \in T
    <3>1. at(i) \in Held(v) \cup {k}
      <4>1. CASE i = N + 1
        BY <4>1
      <4>2. CASE i # N + 1
        <5>1. i \in 1 .. N
          BY <1>1, <4>2
        <5> QED BY <4>2, <5>1 DEF Held
      <4> QED BY <4>1, <4>2
    <3> HIDE DEF at
    <3> QED BY <2>2, <3>1 DEF LabelsOf
  <2> QED BY <2>1, <2>2
<1> HIDE DEF at, T
<1>5. f \in Bijection(1 .. N + 1, T)
  <2>1. f \in [1 .. N + 1 -> T]
    BY <1>4
  <2>2. \A i, j \in 1 .. N + 1 : f[i] = f[j] => i = j
    BY <1>3
  <2>3. \A z \in T : \E i \in 1 .. N + 1 : f[i] = z
    BY <1>4
  <2> HIDE DEF f
  <2> QED BY <2>1, <2>2, <2>3, Fun_IsBij
<1> HIDE DEF f
<1>6. Cardinality(T) = N + 1
  <2>1. ExistsBijection(1 .. N + 1, T)
    BY <1>5 DEF ExistsBijection
  <2>2. N + 1 \in Nat
    BY <1>1
  <2> QED BY <2>1, <2>2, FS_CountingElements
<1> QED BY <1>6 DEF T

\* What is checked at a row, of labels none of which was refused.
IsCheck(c) == c = [held |-> c.held, refused |-> c.refused] /\ c.refused \in BOOLEAN
HereOf(c, p) == IF p.reset THEN {} ELSE c.held
LateOf(c, p) == {l \in HereOf(c, p) : l[1] > p.row.at}
WithOf(c, p) == LateOf(c, p) \cup {<<p.row.label, p.id>>}
Passes(c, p, out) ==
  /\ ~p.row.accept => out.held = HereOf(c, p)
  /\ p.row.accept /\ p.row.label # NoLabel => ~(p.row.label < p.row.at)
  /\ p.row.accept /\ (p.row.label = NoLabel \/ p.row.w = 0) => out.held = LateOf(c, p)
  /\ p.row.accept /\ ~(p.row.label = NoLabel \/ p.row.w = 0) =>
       out.held = WithOf(c, p) /\ (Over(Cardinality(WithOf(c, p))) => setting.dropOldest)

LEMMA CheckedIs ==
  ASSUME setting \in Settings, NEW c, IsCheck(c), NEW p
  PROVE  /\ IsCheck(CheckedLabel(c, p)) /\ (c.refused => CheckedLabel(c, p).refused)
         /\ ~CheckedLabel(c, p).refused => Passes(c, p, CheckedLabel(c, p))
<1> DEFINE r == p.row
           H == HereOf(c, p)
           L == LateOf(c, p)
           W == WithOf(c, p)
           f == ~setting.dropOldest /\ Over(Cardinality(W))
           out == CheckedLabel(c, p)
<1>1. c = [held |-> c.held, refused |-> c.refused] /\ c.refused \in BOOLEAN
  BY DEF IsCheck
<1>2. out = IF c.refused \/ ~r.accept THEN [c EXCEPT !.held = H]
            ELSE IF r.label = NoLabel THEN [c EXCEPT !.held = L]
            ELSE IF r.label < r.at THEN [c EXCEPT !.refused = TRUE]
            ELSE IF r.w = 0 THEN [c EXCEPT !.held = L]
            ELSE [held |-> W, refused |-> f]
  BY DEF CheckedLabel, HereOf, LateOf, WithOf
<1>3. f \in BOOLEAN
  BY DEF Over
<1>4. ~f => (Over(Cardinality(W)) => setting.dropOldest)
  OBVIOUS
<1> HIDE DEF out, H, L, W, f
<1>5. CASE c.refused \/ ~r.accept
  <2>1. out = [c EXCEPT !.held = H]
    BY <1>2, <1>5
  <2>2. out = [held |-> H, refused |-> c.refused]
    BY <1>1, <2>1
  <2>3. out.held = H /\ out.refused = c.refused
    BY <2>2
  <2>4. IsCheck(out)
    BY <1>1, <2>2, <2>3 DEF IsCheck
  <2>5. ~out.refused => Passes(c, p, out)
    BY <1>5, <2>3 DEF Passes, H
  <2> QED BY <2>3, <2>4, <2>5 DEF out
<1>6. CASE ~c.refused /\ r.accept
  <2>1. CASE r.label = NoLabel
    <3>1. out = [c EXCEPT !.held = L]
      BY <1>2, <1>6, <2>1
    <3>2. out = [held |-> L, refused |-> c.refused]
      BY <1>1, <3>1
    <3>3. out.held = L /\ out.refused = c.refused
      BY <3>2
    <3>4. IsCheck(out)
      BY <1>1, <3>2, <3>3 DEF IsCheck
    <3>5. Passes(c, p, out)
      BY <1>6, <2>1, <3>3 DEF Passes, L
    <3> QED BY <1>6, <3>4, <3>5 DEF out
  <2>2. CASE r.label # NoLabel /\ r.label < r.at
    <3>1. out = [c EXCEPT !.refused = TRUE]
      BY <1>2, <1>6, <2>2
    <3>2. out = [held |-> c.held, refused |-> TRUE]
      BY <1>1, <3>1
    <3>3. out.held = c.held /\ out.refused = TRUE
      BY <3>2
    <3>4. IsCheck(out)
      BY <3>2, <3>3 DEF IsCheck
    <3> QED BY <3>3, <3>4 DEF out
  <2>3. CASE r.label # NoLabel /\ ~(r.label < r.at) /\ r.w = 0
    <3>1. out = [c EXCEPT !.held = L]
      BY <1>2, <1>6, <2>3
    <3>2. out = [held |-> L, refused |-> c.refused]
      BY <1>1, <3>1
    <3>3. out.held = L /\ out.refused = c.refused
      BY <3>2
    <3>4. IsCheck(out)
      BY <1>1, <3>2, <3>3 DEF IsCheck
    <3>5. Passes(c, p, out)
      BY <1>6, <2>3, <3>3 DEF Passes, L
    <3> QED BY <1>6, <3>4, <3>5 DEF out
  <2>4. CASE r.label # NoLabel /\ ~(r.label < r.at) /\ r.w # 0
    <3>1. out = [held |-> W, refused |-> f]
      BY <1>2, <1>6, <2>4
    <3>2. out.held = W /\ out.refused = f
      BY <3>1
    <3>3. IsCheck(out)
      BY <1>3, <3>1, <3>2 DEF IsCheck
    <3>4. ~out.refused => Passes(c, p, out)
      BY <1>4, <1>6, <2>4, <3>2 DEF Passes, W
    <3> QED BY <1>6, <3>3, <3>4 DEF out
  <2> QED BY <2>1, <2>2, <2>3, <2>4
<1> QED BY <1>5, <1>6

\* The labels checked beside the rows held.
HeldAs(h, a, c) == setting.dropOldest \/ c.held = LabelsOf(h, IdsIn(a.pending))

\* What goes with a row that passes, of the rows held.
LEMMA CheckStep ==
  ASSUME setting \in Settings, NEW h \in Streams(setting), Legal(setting, h), Lab(setting),
         NEW x, Sound(setting, h, x), NEW x0, Sound(setting, h, x0),
         NEW k \in 1 .. Len(h), x.row = k - 1, h[k].accept,
         NEW c, c.held = LabelsOf(h, Held(x)), NEW b, NEW r, Ready(setting, h, k, x0, b, r),
         NEW p, p = PlanOf(setting, h, k), ~setting.dropOldest
  PROVE  /\ LateOf(c, p) = LabelsOf(h, IdsIn(r.pending))
         /\ WithOf(c, p) = LabelsOf(h, IdsIn(r.pending) \cup {k})
         /\ Cardinality(WithOf(c, p)) = Len(r.pending) + 1
         /\ IsSeq(r.pending)
<1> DEFINE s == setting
           w == Emptied(s, h, x, k)
           e == EpochAt(s, h, k)
<1>1. Ledger(h, x) /\ s \in Settings
  BY DEF Sound
<1>2. EmptiedTo(s, h, x, k, w) /\ Ledger(h, w)
  BY <1>1, EmptiedFields
<1>3. Books(s, h, w, e, k - 1, k) /\ e \in 1 .. k
  <2>1. k = x.row + 1
    OBVIOUS
  <2> QED BY <2>1, EmptiedIs
<1>4. PICK y : /\ Path(s, h, x0, r.out, y) /\ y.row = k - 1
               /\ ReadyAt(s, h, k, Emptied(s, h, y, k), r)
  BY DEF Ready
<1> DEFINE v == Emptied(s, h, y, k)
<1>5. /\ Ledger(h, y) /\ Ledger(h, v) /\ v.queue \in Seq(1 .. k - 1)
      /\ Books(s, h, v, e, k - 1, k)
  BY <1>4, ReadyBooks
<1>6. EmptiedTo(s, h, y, k, v)
  BY <1>5, EmptiedFields
<1>7. r.pending = Pending(s, h, k, v.queue) /\ (v.queue # <<>> => ~DueBy(s, h, v.queue[1], k))
  BY <1>4 DEF ReadyAt
<1>8. x.row = k - 1 /\ w.row = k - 1 /\ v.row = k - 1
  <2>1. x.row = k - 1
    OBVIOUS
  <2> QED BY <1>2, <1>4, <1>6, <2>1 DEF EmptiedTo
<1> HIDE DEF w, v, e, s
<1>9. UpToRow(w, k - 1) /\ UpToRow(v, k - 1)
  BY <1>2, <1>5, <1>8 DEF Ledger, UpToRow
<1>10. Held(v) = {j \in Held(w) : ~DueBy(s, h, j, k)}
  <2>1. ~s.dropOldest /\ h \in Streams(s)
    BY DEF s
  <2> QED BY <1>1, <1>3, <1>5, <1>7, <1>9, <2>1, LeftOfHeld
<1>11. IdsIn(r.pending) = Held(v)
  <2>1. IdsIn(Pending(s, h, k, v.queue)) = {v.queue[i] : i \in 1 .. Len(v.queue)}
    BY <1>5, IdsOf
  <2> QED BY <1>7, <2>1 DEF Held
<1>12. HereOf(c, p) = LabelsOf(h, Held(w))
  <2>1. p.reset = ResetAt(s, h, k)
    BY DEF PlanOf, s
  <2>2. CASE ResetAt(s, h, k)
    <3>1. w.queue = <<>>
      BY <1>2, <2>2 DEF EmptiedTo
    <3>2. Held(w) = {}
      BY <3>1 DEF Held
    <3> QED BY <2>1, <2>2, <3>2 DEF HereOf, LabelsOf
  <2>3. CASE ~ResetAt(s, h, k)
    <3>1. w.queue = x.queue
      BY <1>2, <2>3 DEF EmptiedTo
    <3>2. Held(w) = Held(x)
      BY <3>1 DEF Held
    <3> QED BY <2>1, <2>3, <3>2 DEF HereOf
  <2> QED BY <2>2, <2>3
<1>13. LateOf(c, p) = LabelsOf(h, Held(v))
  <2>1. p.row.at = h[k].at /\ h[k].at \in Int
    BY RowIs DEF PlanOf
  <2>2. \A j \in Held(w) : h[j].label \in Int
    <3>1. w.queue \in Seq(1 .. k - 1)
      BY <1>9 DEF UpToRow
    <3>2. \A i \in 1 .. Len(w.queue) : w.queue[i] \in 1 .. k - 1
      BY <3>1, ElementOfSeq
    <3>3. 1 .. k - 1 \subseteq 1 .. Len(h)
      BY DEF Streams
    <3> QED BY <3>2, <3>3, RowIs DEF Held
  <2>3. \A j \in Held(w) : ~DueBy(s, h, j, k) <=> h[j].label > h[k].at
    BY <2>1, <2>2 DEF DueBy, s
  <2>4. ASSUME NEW l \in LateOf(c, p) PROVE l \in LabelsOf(h, Held(v))
    <3>1. l \in LabelsOf(h, Held(w)) /\ l[1] > h[k].at
      BY <1>12, <2>1 DEF LateOf
    <3>2. PICK j \in Held(w) : l = <<h[j].label, j>>
      BY <3>1 DEF LabelsOf
    <3>3. h[j].label > h[k].at
      BY <3>1, <3>2
    <3>4. j \in Held(v)
      BY <1>10, <2>3, <3>3
    <3> QED BY <3>2, <3>4 DEF LabelsOf
  <2>5. ASSUME NEW l \in LabelsOf(h, Held(v)) PROVE l \in LateOf(c, p)
    <3>1. PICK j \in Held(v) : l = <<h[j].label, j>>
      BY DEF LabelsOf
    <3>2. j \in Held(w) /\ h[j].label > h[k].at
      BY <1>10, <2>3
    <3>3. l \in LabelsOf(h, Held(w)) /\ l[1] = h[j].label
      BY <3>1, <3>2 DEF LabelsOf
    <3> QED BY <1>12, <2>1, <3>2, <3>3 DEF LateOf
  <2> QED BY <2>4, <2>5
<1>14. WithOf(c, p) = LabelsOf(h, Held(v) \cup {k})
  <2>1. p.row.label = h[k].label /\ p.id = k
    BY DEF PlanOf
  <2>2. LabelsOf(h, Held(v) \cup {k}) = LabelsOf(h, Held(v)) \cup {<<h[k].label, k>>}
    BY DEF LabelsOf
  <2> QED BY <1>13, <2>1, <2>2 DEF WithOf
<1>15. Cardinality(LabelsOf(h, Held(v) \cup {k})) = Len(v.queue) + 1
  <2>1. InQueue(s, h, v, e)
    BY <1>5 DEF Books
  <2>2. h \in Streams(s)
    BY DEF s
  <2> QED BY <1>1, <1>9, <2>1, <2>2, LabelsCount
<1>16. Len(r.pending) = Len(v.queue) /\ IsSeq(r.pending)
  <2>1. Len(Pending(s, h, k, v.queue)) = Len(v.queue) /\ IsSeq(Pending(s, h, k, v.queue))
    BY <1>5, PendingIs
  <2> QED BY <1>7, <2>1
<1> QED BY <1>11, <1>13, <1>14, <1>15, <1>16

\* One with something to teach goes in by its label; a full buffer drops a row.
LEMMA LabelPuts ==
  ASSUME setting \in Settings, NEW h \in Streams(setting), Legal(setting, h), Lab(setting),
         NEW x0, Sound(setting, h, x0), NEW k \in 1 .. Len(h), h[k].accept,
         NEW b, b.missing = Nulls(setting, h, k - 1),
         NEW r, Ready(setting, h, k, x0, b, r),
         NEW p, p = PlanOf(setting, h, k), ~Parks(p.row),
         Over(Len(r.pending) + 1) => setting.dropOldest
  PROVE  /\ DelayedTo(setting, h, k, x0, HoldForLabel(r, p))
         /\ ~Over(Len(r.pending) + 1) =>
              IdsIn(HoldForLabel(r, p).pending) = IdsIn(r.pending) \cup {k}
<1> DEFINE s == setting
<1>1. PICK y : /\ Path(s, h, x0, r.out, y) /\ y.row = k - 1
               /\ ReadyAt(s, h, k, Emptied(s, h, y, k), r)
  BY DEF Ready
<1> DEFINE v == Emptied(s, h, y, k)
           N == Len(v.queue)
           at == Place(r.pending, p.row.label)
           rec == [id |-> p.id, clock |-> p.row.at, arrived |-> p.place, d |-> p.d, fresh |-> 0,
                   events |-> {}, resolved |-> TRUE, label |-> p.row.label]
           with == InsertAt(r.pending, at, rec)
           drop == IF Over(Len(with)) THEN Oldest(with) ELSE 0
           q == Score(p, <<>>, at, drop, TRUE)
           P == IF drop = 0 THEN with ELSE RemoveAt(with, drop)
           D == r.dropped + (IF drop = 0 THEN 0 ELSE 1)
           O == Append(r.out, q)
           t == InsertAt(v.queue, at, k)
           out == HoldForLabel(r, p)
<1>2. /\ Ledger(h, y) /\ Ledger(h, v) /\ v.queue \in Seq(1 .. k - 1)
      /\ Books(s, h, v, EpochAt(s, h, k), k - 1, k)
  BY <1>1, ReadyBooks
<1>3. IsBuffer(r) /\ r.missing = Nulls(s, h, k - 1) /\ r.heldBreak = {}
  BY DEF Ready
<1>4. r.pending = Pending(s, h, k, v.queue) /\ r.dropped = v.dropped
  BY <1>1 DEF ReadyAt
<1>5. /\ p.id = k /\ p.row = h[k] /\ p.reset = ResetAt(s, h, k) /\ p.d = DAt(s, h, k)
      /\ p.fresh = FreshAt(s, h, k) /\ p.place = ElapsedBy(s, h, k)
  BY DEF PlanOf
<1>6. HasLesson(s, h[k])
  <2>1. h[k].w \in Nat
    BY RowIs
  <2> QED BY <1>5, <2>1 DEF Parks, HasLesson
<1> HIDE DEF v
<1>7. out = [r EXCEPT !.pending = P, !.dropped = D, !.out = O]
  BY DEF HoldForLabel
<1> HIDE DEF out
<1>8. N \in Nat /\ Len(r.pending) = N
  <2>1. Len(Pending(s, h, k, v.queue)) = Len(v.queue)
    BY <1>2, PendingIs
  <2> QED BY <1>2, <1>4, <2>1
<1>9. /\ at \in 1 .. N + 1 /\ \A i \in 1 .. N : i < at <=> Earlier(s, h, v.queue[i], k)
  <2>1. \A j \in 1 .. N : \A i \in 1 .. j - 1 : Earlier(s, h, v.queue[i], v.queue[j])
    BY <1>2 DEF Books, InQueue
  <2>2. /\ Place(Pending(s, h, k, v.queue), h[k].label) \in 1 .. Len(v.queue) + 1
        /\ \A i \in 1 .. Len(v.queue) :
             i < Place(Pending(s, h, k, v.queue), h[k].label) <=> Earlier(s, h, v.queue[i], k)
    BY <1>2, <2>1, PlaceSorts
  <2>3. at = Place(Pending(s, h, k, v.queue), h[k].label)
    BY <1>4, <1>5
  <2> QED BY <2>2, <2>3
<1> HIDE DEF at
<1>10. rec = HeldOf(s, h, k, k)
  <2>1. ~Frm(s)
    BY SettingIs
  <2> QED BY <1>5, <2>1 DEF HeldOf, FreshOf
<1> HIDE DEF rec
<1>11. v.queue \in Seq(1 .. k) /\ k \in 1 .. k
  <2> DEFINE S == 1 .. k
  <2>1. (\A i \in 1 .. k - 1 : i \in S) /\ k \in S
    OBVIOUS
  <2> HIDE DEF S
  <2>2. v.queue \in Seq(S)
    BY <1>2, <2>1
  <2> QED BY <2>1, <2>2 DEF S
<1>12. t \in Seq(1 .. k) /\ Len(t) = N + 1
  <2> DEFINE S == 1 .. k
  <2> HIDE DEF S
  <2>1. v.queue \in Seq(S) /\ k \in S
    BY <1>11 DEF S
  <2>2. at \in 1 .. Len(v.queue) + 1
    BY <1>9
  <2>3. HasIn(S, v.queue, at, k, t)
    BY <2>1, <2>2, InsertIs
  <2> QED BY <2>3 DEF HasIn, S
<1>13. with = Pending(s, h, k, t)
  <2> DEFINE S == 1 .. k
  <2> HIDE DEF S
  <2>1. v.queue \in Seq(S) /\ k \in S
    BY <1>11 DEF S
  <2>2. at \in 1 .. Len(v.queue) + 1
    BY <1>9
  <2>3. InsertAt(Pending(s, h, k, v.queue), at, HeldOf(s, h, k, k)) = Pending(s, h, k, t)
    BY <2>1, <2>2, PendingInsert
  <2> QED BY <1>4, <1>10, <2>3
<1> HIDE DEF with, t
<1>14. /\ Len(with) = N + 1 /\ DOMAIN with = 1 .. N + 1
       /\ \A i \in 1 .. N + 1 : with[i].clock \in Int
  <2>1. /\ Len(Pending(s, h, k, t)) = Len(t) /\ DOMAIN Pending(s, h, k, t) = 1 .. Len(t)
        /\ \A i \in 1 .. Len(t) : Pending(s, h, k, t)[i] = HeldOf(s, h, k, t[i])
    BY <1>12, PendingIs
  <2>2. ASSUME NEW i \in 1 .. N + 1 PROVE with[i].clock \in Int
    <3>1. t[i] \in 1 .. k
      BY <1>12, ElementOfSeq
    <3>2. t[i] \in 1 .. Len(h)
      BY <3>1 DEF Streams
    <3>3. h[t[i]].at \in Int
      BY <3>2, RowIs
    <3>4. with[i] = HeldOf(s, h, k, t[i])
      BY <1>12, <1>13, <2>1
    <3> QED BY <3>3, <3>4 DEF HeldOf
  <2>3. Len(with) = Len(t) /\ DOMAIN with = 1 .. Len(t)
    BY <1>13, <2>1
  <2> QED BY <1>12, <2>2, <2>3
<1>15. drop \in 0 .. N + 1 /\ (drop # 0 <=> Overflows(s, v.queue)) /\ (drop # 0 => s.dropOldest)
  <2>1. Oldest(with) \in 1 .. N + 1
    <3>1. Len(with) \in Nat /\ Len(with) > 0 /\ DOMAIN with = 1 .. Len(with)
      BY <1>8, <1>14
    <3>2. Oldest(with) \in 1 .. Len(with)
      BY <1>14, <3>1, OldestIs
    <3> QED BY <1>14, <3>2
  <2>2. Over(Len(with)) <=> Overflows(s, v.queue)
    BY <1>14 DEF Over, Overflows
  <2>3. Over(Len(with)) => s.dropOldest
    BY <1>8, <1>14
  <2> QED BY <1>8, <2>1, <2>2, <2>3
<1> HIDE DEF drop
<1>16. /\ q.kind = "score" /\ q.id = p.id /\ q.reset = p.reset /\ q.events = {} /\ q.d = p.d
       /\ q.fresh = p.fresh /\ q.cut = <<>> /\ q.held = TRUE /\ q.at = at /\ q.drop = drop
  BY DEF Score
<1> HIDE DEF q
<1>17. ScorePlan(s, h, k, v, q)
  <2>1. PutIn(s, h, v.queue, q)
    BY <1>5, <1>9, <1>15, <1>16 DEF PutIn
  <2> QED BY <1>5, <1>6, <1>16, <2>1 DEF ScorePlan, CutBefore
<1>18. P = Pending(s, h, k, Record(v.queue, q))
  <2>1. Record(v.queue, q) = IF drop = 0 THEN t ELSE RemoveAt(t, drop)
    BY <1>5, <1>16 DEF Record, t
  <2>2. CASE drop = 0
    BY <1>13, <2>1, <2>2
  <2>3. CASE drop # 0
    <3>1. drop \in 1 .. Len(t)
      BY <1>8, <1>12, <1>15, <2>3
    <3>2. RemoveAt(Pending(s, h, k, t), drop) = Pending(s, h, k, RemoveAt(t, drop))
      BY <1>12, <3>1, PendingRemove
    <3> QED BY <1>13, <2>1, <2>3, <3>2
  <2> QED BY <2>2, <2>3
<1> HIDE DEF P
<1>19. D = r.dropped + One(q.drop # 0)
  BY <1>16 DEF One
<1> HIDE DEF D
<1>20. Nulls(s, h, k) = Nulls(s, h, k - 1)
  <2>1. Nulls(s, h, k) = Nulls(s, h, k - 1) + One(LacksLabel(h[k]))
    BY MarkNext
  <2>2. One(LacksLabel(h[k])) = 0
    BY <1>6 DEF One, LacksLabel, HasLesson
  <2>3. Nulls(s, h, k - 1) \in Nat
    <3>1. k - 1 \in 0 .. Len(h)
      BY DEF Streams
    <3> QED BY <3>1, MarkIs
  <2> QED BY <2>1, <2>2, <2>3
<1>21. HeldBy(s, h, k, v, q, r, out)
  <2>1. r = [pending |-> r.pending, heldBreak |-> r.heldBreak, learned |-> r.learned,
             missing |-> r.missing, dropped |-> r.dropped, out |-> r.out]
    BY <1>3 DEF IsBuffer
  <2> HIDE DEF O
  <2>2. out = [pending |-> P, heldBreak |-> r.heldBreak, learned |-> r.learned,
               missing |-> r.missing, dropped |-> D, out |-> O]
    BY <1>7, <2>1
  <2>3. /\ out.pending = P /\ out.heldBreak = r.heldBreak /\ out.learned = r.learned
        /\ out.missing = r.missing /\ out.dropped = D /\ out.out = O
    BY <2>2
  <2>4. IsBuffer(out)
    BY <2>2, <2>3 DEF IsBuffer
  <2> QED BY <1>3, <1>16, <1>18, <1>19, <1>20, <2>3, <2>4 DEF HeldBy, O
<1>22. DelayedTo(s, h, k, x0, out)
  <2>1. ReadyAt(s, h, k, Emptied(s, h, y, k), r)
    BY <1>1
  <2>2. ScorePlan(s, h, k, Emptied(s, h, y, k), q)
    BY <1>17 DEF v
  <2>3. HeldBy(s, h, k, Emptied(s, h, y, k), q, r, out)
    BY <1>21 DEF v
  <2>4. Path(s, h, x0, r.out, y) /\ y.row = k - 1
    BY <1>1
  <2> HIDE DEF s
  <2>5. s \in Settings /\ h \in Streams(s)
    BY DEF s
  <2> QED BY ONLY <1>2, <2>1, <2>2, <2>3, <2>4, <2>5, h[k].accept, k \in 1 .. Len(h), ScoreDelays
<1>23. ASSUME ~Over(Len(r.pending) + 1) PROVE IdsIn(out.pending) = IdsIn(r.pending) \cup {k}
  <2>1. drop = 0
    BY <1>8, <1>14, <1>23 DEF drop
  <2>2. P = with
    BY <2>1 DEF P
  <2>3. rec.id = k
    BY <1>5 DEF rec
  <2>4. IsSeq(r.pending)
    <3>1. IsSeq(Pending(s, h, k, v.queue))
      BY <1>2, PendingIs
    <3> QED BY <1>4, <3>1
  <2>5. at \in 1 .. Len(r.pending) + 1
    BY <1>8, <1>9
  <2>6. IdsIn(with) = IdsIn(r.pending) \cup {rec.id}
    BY <2>4, <2>5, IdsInsert DEF with
  <2>7. out.pending = P
    <3>1. r = [pending |-> r.pending, heldBreak |-> r.heldBreak, learned |-> r.learned,
               missing |-> r.missing, dropped |-> r.dropped, out |-> r.out]
      BY <1>3 DEF IsBuffer
    <3> HIDE DEF O
    <3>2. out = [pending |-> P, heldBreak |-> r.heldBreak, learned |-> r.learned,
                 missing |-> r.missing, dropped |-> D, out |-> O]
      BY <1>7, <3>1
    <3> QED BY <3>2
  <2> QED BY <2>2, <2>3, <2>6, <2>7
<1> QED BY <1>22, <1>23 DEF out

\* A row comes: the buffer, the plans and the labels checked after it.
LEMMA DelayIs ==
  ASSUME setting \in Settings, NEW h \in Streams(setting), Legal(setting, h),
         NEW x0, Sound(setting, h, x0), NEW k \in 1 .. Len(h),
         NEW a, DelayedTo(setting, h, k - 1, x0, a), NEW m \in 0 .. k - 1, NEW known,
         Frm(setting) => KnownIs(setting, h, m, Len(h), known),
         NEW p, p = PlanOf(setting, h, k),
         NEW c, Lab(setting) => IsCheck(c) /\ HeldAs(h, a, c) /\ ~CheckedLabel(c, p).refused
  PROVE  /\ DelayedTo(setting, h, k, x0, Delay(a, p, known))
         /\ Lab(setting) => HeldAs(h, Delay(a, p, known), CheckedLabel(c, p))
<1> DEFINE s == setting
           b == Resolve(Restarted(a, p), p, known)
           r == IF Lab(s) THEN ReleaseByLabel(b, p) ELSE Release(b, p)
           out == Delay(a, p, known)
           d == CheckedLabel(c, p)
<1>1. PICK x : Path(s, h, x0, a.out, x) /\ x.row = k - 1 /\ Buffered(s, h, k - 1, x, a)
  BY DEF DelayedTo
<1>2. Sound(s, h, x) /\ k = x.row + 1 /\ IsBuffer(a)
  <2>1. Sound(s, h, x)
    BY <1>1, PathSound
  <2>2. k = x.row + 1
    BY <1>1
  <2> QED BY <2>1, <2>2 DEF DelayedTo
<1> DEFINE w == Emptied(s, h, x, k)
<1>3. Entering(s, h, k, w, a, b)
  BY <1>1, <1>2, EnteringIs
<1>4. p.row = h[k] /\ h[k].accept \in BOOLEAN /\ p.id = k /\ p.reset = ResetAt(s, h, k)
  BY RowIs DEF PlanOf
<1>5. Labelled <=> Lab(s)
  BY DEF Labelled, Lab
<1>6. out = IF ~p.row.accept THEN Skip(b, p)
            ELSE IF Labelled THEN HoldForLabel(r, p) ELSE Hold(r, p)
  BY <1>5 DEF Delay
<1>7. a.pending = Pending(s, h, k - 1, x.queue)
  BY <1>1 DEF Buffered
<1>8. Lab(s) /\ ~d.refused => Passes(c, p, d)
  BY CheckedIs
<1> HIDE DEF b, out, d
<1>9. CASE ~h[k].accept
  <2>1. out = Skip(b, p)
    BY <1>4, <1>6, <1>9
  <2>2. DelayedTo(s, h, k, x0, out)
    BY <1>1, <1>2, <1>3, <1>9, <2>1, SkipDelays
  <2>3. ASSUME Lab(s) PROVE HeldAs(h, out, d)
    <3> SUFFICES ASSUME ~setting.dropOldest PROVE d.held = LabelsOf(h, IdsIn(out.pending))
      BY DEF HeldAs
    <3>1. d.held = HereOf(c, p) /\ c.held = LabelsOf(h, IdsIn(a.pending))
      BY <1>4, <1>8, <1>9, <2>3 DEF Passes, HeldAs, d
    <3>2. out.pending = b.pending
      <4> DEFINE B == b.heldBreak \cup p.events
                 O == Append(b.out, [kind |-> "skip", id |-> p.id, reset |-> p.reset,
                                     events |-> {}])
      <4>1. b = [pending |-> b.pending, heldBreak |-> b.heldBreak, learned |-> b.learned,
                 missing |-> b.missing, dropped |-> b.dropped, out |-> b.out]
        BY <1>3 DEF Entering, IsBuffer
      <4>2. out = [b EXCEPT !.heldBreak = B, !.out = O]
        BY <2>1 DEF Skip
      <4> HIDE DEF B, O
      <4>3. out = [pending |-> b.pending, heldBreak |-> B, learned |-> b.learned,
                   missing |-> b.missing, dropped |-> b.dropped, out |-> O]
        BY <4>1, <4>2
      <4> QED BY <4>3
    <3>3. b.pending = Pending(s, h, k, w.queue)
      BY <1>3 DEF Entering
    <3>4. Ledger(h, x)
      BY <1>2 DEF Sound
    <3>5. EmptiedTo(s, h, x, k, w) /\ Ledger(h, w)
      BY <3>4, EmptiedFields
    <3>6. x.queue \in Seq(1 .. x.row) /\ w.queue \in Seq(1 .. w.row)
      BY <3>4, <3>5 DEF Ledger
    <3>7. IdsIn(out.pending) = {w.queue[i] : i \in 1 .. Len(w.queue)}
      <4>1. IdsIn(Pending(s, h, k, w.queue)) = {w.queue[i] : i \in 1 .. Len(w.queue)}
        BY <3>6, IdsOf
      <4> QED BY <3>2, <3>3, <4>1
    <3>8. IdsIn(a.pending) = {x.queue[i] : i \in 1 .. Len(x.queue)}
      <4>1. IdsIn(Pending(s, h, k - 1, x.queue)) = {x.queue[i] : i \in 1 .. Len(x.queue)}
        BY <3>6, IdsOf
      <4> QED BY <1>7, <4>1
    <3> HIDE DEF w
    <3>9. CASE ResetAt(s, h, k)
      <4>1. w.queue = <<>>
        BY <3>5, <3>9 DEF EmptiedTo
      <4>2. IdsIn(out.pending) = {}
        BY <3>7, <4>1
      <4>3. d.held = {}
        BY <1>4, <3>1, <3>9 DEF HereOf
      <4> QED BY <4>2, <4>3 DEF LabelsOf
    <3>10. CASE ~ResetAt(s, h, k)
      <4>1. w.queue = x.queue
        BY <3>5, <3>10 DEF EmptiedTo
      <4>2. IdsIn(out.pending) = IdsIn(a.pending)
        BY <3>7, <3>8, <4>1
      <4>3. d.held = c.held
        BY <1>4, <3>1, <3>10 DEF HereOf
      <4> QED BY <3>1, <4>2, <4>3
    <3> QED BY <3>9, <3>10
  <2> QED BY <2>2, <2>3 DEF out, d
<1>10. /\ b.heldBreak = (IF ResetAt(s, h, k) THEN {} ELSE BreakHeld(s, h, k - 1))
       /\ b.missing = (IF Lab(s) THEN Nulls(s, h, k - 1) ELSE 0)
  <2>1. /\ b.heldBreak = (IF ResetAt(s, h, k) THEN {} ELSE a.heldBreak)
        /\ b.missing = a.missing
    BY <1>3 DEF Entering
  <2>2. /\ a.heldBreak = BreakHeld(s, h, k - 1)
        /\ a.missing = (IF Lab(s) THEN Nulls(s, h, k - 1) ELSE 0)
    BY <1>1 DEF Buffered
  <2> QED BY <2>1, <2>2
<1>11. CASE h[k].accept /\ ~Lab(s)
  <2>1. out = Hold(r, p) /\ r = Release(b, p)
    BY <1>4, <1>5, <1>6, <1>11
  <2>2. Ready(s, h, k, x0, b, Release(b, p))
    BY <1>1, <1>2, <1>3, <1>11, ReleaseReady
  <2>3. DelayedTo(s, h, k, x0, Hold(Release(b, p), p))
    <3>1. b.missing = 0
      BY <1>10, <1>11
    <3> QED BY <1>10, <1>11, <2>2, <3>1, HoldDelays
  <2> QED BY <1>11, <2>1, <2>3 DEF out
<1>12. CASE h[k].accept /\ Lab(s)
  <2>1. out = HoldForLabel(r, p) /\ r = ReleaseByLabel(b, p)
    BY <1>4, <1>5, <1>6, <1>12
  <2>2. Ready(s, h, k, x0, b, ReleaseByLabel(b, p))
    BY <1>1, <1>2, <1>3, <1>12, LabelReady
  <2>3. Ready(s, h, k, x0, b, r)
    BY <2>1, <2>2
  <2> HIDE DEF r
  <2>4. b.missing = Nulls(s, h, k - 1)
    BY <1>10, <1>12
  <2>5. Passes(c, p, d) /\ HeldAs(h, a, c)
    BY <1>8, <1>12 DEF d
  <2>6. ~setting.dropOldest =>
          /\ LateOf(c, p) = LabelsOf(h, IdsIn(r.pending))
          /\ WithOf(c, p) = LabelsOf(h, IdsIn(r.pending) \cup {k})
          /\ Cardinality(WithOf(c, p)) = Len(r.pending) + 1
          /\ IsSeq(r.pending)
    <3> SUFFICES ASSUME ~setting.dropOldest
                 PROVE  /\ LateOf(c, p) = LabelsOf(h, IdsIn(r.pending))
                        /\ WithOf(c, p) = LabelsOf(h, IdsIn(r.pending) \cup {k})
                        /\ Cardinality(WithOf(c, p)) = Len(r.pending) + 1
                        /\ IsSeq(r.pending)
      OBVIOUS
    <3>1. /\ Lab(setting) /\ h[k].accept /\ Sound(setting, h, x) /\ x.row = k - 1
          /\ Ready(setting, h, k, x0, b, r)
      BY <1>1, <1>2, <1>12, <2>3
    <3>2. c.held = LabelsOf(h, Held(x))
      <4>1. x.queue \in Seq(1 .. x.row)
        BY <1>2 DEF Sound, Ledger
      <4>2. IdsIn(Pending(s, h, k - 1, x.queue)) = {x.queue[i] : i \in 1 .. Len(x.queue)}
        BY <4>1, IdsOf
      <4>3. IdsIn(a.pending) = Held(x)
        BY <1>7, <4>2 DEF Held
      <4> QED BY <2>5, <4>3 DEF HeldAs
    <3> QED BY ONLY <3>1, <3>2, setting \in Settings, h \in Streams(setting), Legal(setting, h),
                    Sound(setting, h, x0), k \in 1 .. Len(h), p = PlanOf(setting, h, k),
                    ~setting.dropOldest, CheckStep
  <2>7. CASE Parks(p.row)
    <3>1. DelayedTo(s, h, k, x0, out)
      BY <1>12, <2>1, <2>3, <2>4, <2>7, LabelParks
    <3>2. out.pending = r.pending
      <4> DEFINE M == r.missing + (IF p.row.label = NoLabel THEN 1 ELSE 0)
                 O == Append(r.out, Score(p, <<>>, 0, 0, FALSE))
      <4>1. r = [pending |-> r.pending, heldBreak |-> r.heldBreak, learned |-> r.learned,
                 missing |-> r.missing, dropped |-> r.dropped, out |-> r.out]
        BY <2>3 DEF Ready, IsBuffer
      <4>2. out = [r EXCEPT !.missing = M, !.out = O]
        BY <2>1, <2>7 DEF HoldForLabel
      <4> HIDE DEF M, O
      <4>3. out = [pending |-> r.pending, heldBreak |-> r.heldBreak, learned |-> r.learned,
                   missing |-> M, dropped |-> r.dropped, out |-> O]
        BY <4>1, <4>2
      <4> QED BY <4>3
    <3>3. d.held = LateOf(c, p)
      BY <1>4, <1>12, <2>5, <2>7 DEF Passes, Parks
    <3>4. HeldAs(h, out, d)
      BY <2>6, <3>2, <3>3 DEF HeldAs
    <3> QED BY <3>1, <3>4 DEF out, d
  <2>8. CASE ~Parks(p.row)
    <3>1. d.held = WithOf(c, p) /\ (Over(Cardinality(WithOf(c, p))) => setting.dropOldest)
      BY <1>4, <1>12, <2>5, <2>8 DEF Passes, Parks
    <3>2. Over(Len(r.pending) + 1) => setting.dropOldest
      BY <2>6, <3>1
    <3>3. /\ DelayedTo(s, h, k, x0, out)
          /\ ~Over(Len(r.pending) + 1) => IdsIn(out.pending) = IdsIn(r.pending) \cup {k}
      <4>1. /\ DelayedTo(s, h, k, x0, HoldForLabel(r, p))
            /\ ~Over(Len(r.pending) + 1) =>
                 IdsIn(HoldForLabel(r, p).pending) = IdsIn(r.pending) \cup {k}
        <5>1. /\ Lab(setting) /\ h[k].accept /\ b.missing = Nulls(setting, h, k - 1)
              /\ Ready(setting, h, k, x0, b, r)
          BY <1>12, <2>3, <2>4
        <5> QED BY ONLY <2>8, <3>2, <5>1, setting \in Settings, h \in Streams(setting),
                        Legal(setting, h), Sound(setting, h, x0), k \in 1 .. Len(h),
                        p = PlanOf(setting, h, k), LabelPuts
      <4> QED BY <2>1, <4>1
    <3>4. HeldAs(h, out, d)
      BY <2>6, <3>1, <3>2, <3>3 DEF HeldAs
    <3> QED BY <3>3, <3>4 DEF out, d
  <2> QED BY <2>7, <2>8
<1> QED BY <1>4, <1>9, <1>11, <1>12

-----------------------------------------------------------------------------
(* A chunk: what is fed.                                                   *)

\* The buffer as it stands, and over a chunk's plans.
BufferNow == [pending |-> pending, heldBreak |-> heldBreak, learned |-> learnedClock,
              missing |-> missing, dropped |-> dropped, out |-> <<>>]
ApplyRun(sch, run) ==
  /\ run[0] = BufferNow
  /\ \A n \in 1 .. Len(sch.plans) : run[n] = Delay(run[n - 1], sch.plans[n], sch.known)

LEMMA ApplyRuns ==
  ASSUME NEW sch, Len(sch.plans) \in Nat
  PROVE  \E run : ApplyRun(sch, run) /\ ApplyLabelDelay(sch) = run[Len(sch.plans)]
<1> DEFINE N == Len(sch.plans)
           E(g, m) == [n \in 0 .. m |-> IF n = 0 THEN BufferNow ELSE Delay(g[n - 1], sch.plans[n], sch.known)]
           T == {m \in 0 .. N : \E g : g = E(g, m)}
           run == CHOOSE g : g = E(g, N)
<1>1. 0 \in T
  <2> DEFINE g == [n \in 0 .. 0 |-> BufferNow]
  <2>1. g = E(g, 0)
    OBVIOUS
  <2>2. 0 \in 0 .. N
    OBVIOUS
  <2> HIDE DEF g, E
  <2> QED BY <2>1, <2>2
<1>2. ASSUME NEW m \in 1 .. N, m - 1 \in T PROVE m \in T
  <2>1. PICK g : g = E(g, m - 1)
    BY <1>2
  <2> DEFINE next == Delay(g[m - 1], sch.plans[m], sch.known)
             q == [n \in 0 .. m |-> IF n = m THEN next ELSE g[n]]
  <2>2. ASSUME NEW n \in 0 .. m
        PROVE  q[n] = IF n = 0 THEN BufferNow ELSE Delay(q[n - 1], sch.plans[n], sch.known)
    <3> HIDE DEF next
    <3>1. CASE n = m
      <4>1. q[n] = next /\ n # 0 /\ n - 1 \in 0 .. m /\ n - 1 # m
        BY <3>1
      <4>2. q[n - 1] = g[n - 1]
        BY <4>1
      <4> QED BY <3>1, <4>1, <4>2 DEF next
    <3>2. CASE n # m
      <4>1. q[n] = g[n] /\ n \in 0 .. m - 1
        BY <3>2
      <4>2. n # 0 => n - 1 \in 0 .. m /\ n - 1 # m
        BY <3>2
      <4>3. n # 0 => q[n - 1] = g[n - 1]
        BY <4>2
      <4>4. g[n] = E(g, m - 1)[n]
        BY <2>1
      <4> HIDE DEF q
      <4> QED BY <4>1, <4>3, <4>4
    <3> QED BY <3>1, <3>2
  <2>3. q = E(q, m)
    <3>1. q = [n \in 0 .. m |-> q[n]]
      OBVIOUS
    <3> HIDE DEF q
    <3> QED BY <2>2, <3>1
  <2>4. m \in 0 .. N
    OBVIOUS
  <2> HIDE DEF q, E
  <2> QED BY <2>3, <2>4
<1>3. N \in T
  <2> HIDE DEF T
  <2>1. 0 .. N \subseteq T
    BY <1>1, <1>2, UpTo
  <2> QED BY <2>1
<1>4. run = E(run, N)
  <2> HIDE DEF E
  <2> QED BY <1>3
<1>5. ApplyLabelDelay(sch) = run[N]
  BY DEF ApplyLabelDelay, BufferNow
<1> HIDE DEF run
<1>6. run[0] = BufferNow
  BY <1>4
<1>7. ASSUME NEW n \in 1 .. N PROVE run[n] = Delay(run[n - 1], sch.plans[n], sch.known)
  <2>1. n \in 0 .. N /\ n # 0
    OBVIOUS
  <2>2. run[n] = E(run, N)[n]
    BY <1>4
  <2> QED BY <2>1, <2>2
<1> QED BY <1>5, <1>6, <1>7 DEF ApplyRun


\* The labels checked.
CheckStart == [held |-> {<<r.label, r.id>> : r \in ToSet(pending)}, refused |-> FALSE]
CheckRun(sch, run) ==
  /\ run[0] = CheckStart
  /\ \A n \in 1 .. Len(sch.plans) : run[n] = CheckedLabel(run[n - 1], sch.plans[n])

LEMMA CheckRuns ==
  ASSUME NEW sch, Len(sch.plans) \in Nat
  PROVE  \E run : CheckRun(sch, run)
                  /\ (CheckLabels(sch) <=> Labelled /\ run[Len(sch.plans)].refused)
<1> DEFINE N == Len(sch.plans)
           E(g, m) == [n \in 0 .. m |-> IF n = 0 THEN CheckStart ELSE CheckedLabel(g[n - 1], sch.plans[n])]
           T == {m \in 0 .. N : \E g : g = E(g, m)}
           run == CHOOSE g : g = E(g, N)
<1>1. 0 \in T
  <2> DEFINE g == [n \in 0 .. 0 |-> CheckStart]
  <2>1. g = E(g, 0)
    OBVIOUS
  <2>2. 0 \in 0 .. N
    OBVIOUS
  <2> HIDE DEF g, E
  <2> QED BY <2>1, <2>2
<1>2. ASSUME NEW m \in 1 .. N, m - 1 \in T PROVE m \in T
  <2>1. PICK g : g = E(g, m - 1)
    BY <1>2
  <2> DEFINE next == CheckedLabel(g[m - 1], sch.plans[m])
             q == [n \in 0 .. m |-> IF n = m THEN next ELSE g[n]]
  <2>2. ASSUME NEW n \in 0 .. m
        PROVE  q[n] = IF n = 0 THEN CheckStart ELSE CheckedLabel(q[n - 1], sch.plans[n])
    <3> HIDE DEF next
    <3>1. CASE n = m
      <4>1. q[n] = next /\ n # 0 /\ n - 1 \in 0 .. m /\ n - 1 # m
        BY <3>1
      <4>2. q[n - 1] = g[n - 1]
        BY <4>1
      <4> QED BY <3>1, <4>1, <4>2 DEF next
    <3>2. CASE n # m
      <4>1. q[n] = g[n] /\ n \in 0 .. m - 1
        BY <3>2
      <4>2. n # 0 => n - 1 \in 0 .. m /\ n - 1 # m
        BY <3>2
      <4>3. n # 0 => q[n - 1] = g[n - 1]
        BY <4>2
      <4>4. g[n] = E(g, m - 1)[n]
        BY <2>1
      <4> HIDE DEF q
      <4> QED BY <4>1, <4>3, <4>4
    <3> QED BY <3>1, <3>2
  <2>3. q = E(q, m)
    <3>1. q = [n \in 0 .. m |-> q[n]]
      OBVIOUS
    <3> HIDE DEF q
    <3> QED BY <2>2, <3>1
  <2>4. m \in 0 .. N
    OBVIOUS
  <2> HIDE DEF q, E
  <2> QED BY <2>3, <2>4
<1>3. N \in T
  <2> HIDE DEF T
  <2>1. 0 .. N \subseteq T
    BY <1>1, <1>2, UpTo
  <2> QED BY <2>1
<1>4. run = E(run, N)
  <2> HIDE DEF E
  <2> QED BY <1>3
<1>5. CheckLabels(sch) <=> Labelled /\ run[N].refused
  BY DEF CheckLabels, CheckStart
<1> HIDE DEF run
<1>6. run[0] = CheckStart
  BY <1>4
<1>7. ASSUME NEW n \in 1 .. N PROVE run[n] = CheckedLabel(run[n - 1], sch.plans[n])
  <2>1. n \in 0 .. N /\ n # 0
    OBVIOUS
  <2>2. run[n] = E(run, N)[n]
    BY <1>4
  <2> QED BY <2>1, <2>2
<1> QED BY <1>5, <1>6, <1>7 DEF CheckRun


\* A chunk that passes was refused at none of its rows.
LEMMA AllPass ==
  ASSUME setting \in Settings, NEW sch, Len(sch.plans) \in Nat, NEW run, CheckRun(sch, run),
         ~run[Len(sch.plans)].refused
  PROVE  /\ IsCheck(run[0]) /\ ~run[0].refused
         /\ \A n \in 1 .. Len(sch.plans) :
              /\ IsCheck(run[n - 1]) /\ ~CheckedLabel(run[n - 1], sch.plans[n]).refused
              /\ Passes(run[n - 1], sch.plans[n], run[n])
<1> DEFINE N == Len(sch.plans)
           T == {n \in 0 .. N : IsCheck(run[n])}
           Q == {i \in 0 .. N : ~run[N - i].refused}
<1>1. IsCheck(run[0]) /\ ~run[0].refused
  <2>1. run[0] = CheckStart
    BY DEF CheckRun
  <2> QED BY <2>1 DEF CheckStart, IsCheck
<1>2. \A n \in 1 .. N : run[n] = CheckedLabel(run[n - 1], sch.plans[n])
  BY DEF CheckRun
<1>3. 0 \in T
  BY <1>1
<1>4. ASSUME NEW n \in 1 .. N, n - 1 \in T PROVE n \in T
  <2>1. IsCheck(run[n - 1])
    BY <1>4
  <2>2. IsCheck(run[n])
    BY <1>2, <2>1, CheckedIs
  <2> QED BY <2>2
<1>5. \A n \in 0 .. N : IsCheck(run[n])
  <2> HIDE DEF T
  <2>1. 0 .. N \subseteq T
    BY <1>3, <1>4, UpTo
  <2> QED BY <2>1 DEF T
<1>6. 0 \in Q
  <2>1. N - 0 = N
    OBVIOUS
  <2> QED BY <2>1
<1>7. ASSUME NEW i \in 1 .. N, i - 1 \in Q PROVE i \in Q
  <2>1. N - i \in 0 .. N /\ N - i + 1 \in 1 .. N /\ N - (i - 1) = N - i + 1
        /\ (N - i + 1) - 1 = N - i
    OBVIOUS
  <2>2. ~run[N - i + 1].refused
    BY <1>7, <2>1
  <2>3. run[N - i + 1] = CheckedLabel(run[N - i], sch.plans[N - i + 1])
    BY <1>2, <2>1
  <2>4. IsCheck(run[N - i])
    BY <1>5, <2>1
  <2>5. ~run[N - i].refused
    BY <2>2, <2>3, <2>4, CheckedIs
  <2> QED BY <2>5
<1>8. \A n \in 0 .. N : ~run[n].refused
  <2>1. 0 .. N \subseteq Q
    <3> HIDE DEF Q
    <3> QED BY <1>6, <1>7, UpTo
  <2> SUFFICES ASSUME NEW n \in 0 .. N PROVE ~run[n].refused
    OBVIOUS
  <2>2. N - n \in 0 .. N /\ N - (N - n) = n
    OBVIOUS
  <2>3. N - n \in Q
    BY <2>1, <2>2
  <2>4. ~run[N - (N - n)].refused
    BY <2>3
  <2> QED BY <2>2, <2>4
<1>9. ASSUME NEW n \in 1 .. N
      PROVE  /\ IsCheck(run[n - 1]) /\ ~CheckedLabel(run[n - 1], sch.plans[n]).refused
             /\ Passes(run[n - 1], sch.plans[n], run[n])
  <2>1. n - 1 \in 0 .. N
    OBVIOUS
  <2>2. IsCheck(run[n - 1])
    BY <1>5, <2>1
  <2>3. run[n] = CheckedLabel(run[n - 1], sch.plans[n])
    BY <1>2
  <2>4. ~CheckedLabel(run[n - 1], sch.plans[n]).refused
    BY <1>8, <2>3
  <2>5. Passes(run[n - 1], sch.plans[n], CheckedLabel(run[n - 1], sch.plans[n]))
    BY <2>2, <2>4, CheckedIs
  <2> QED BY <2>2, <2>3, <2>4, <2>5
<1> QED BY <1>1, <1>9

\* Rows fed later change nothing of what is held.
LEMMA RanksGrow ==
  ASSUME NEW s \in Settings, NEW h \in Streams(s), NEW c \in Streams(s),
         NEW n \in 0 .. Len(h), NEW j \in 0 .. Len(h)
  PROVE  /\ Rank(s, h \o c, j, n) = Rank(s, h, j, n)
         /\ Closed(s, h \o c, n) = Closed(s, h, n)
<1> DEFINE g == h \o c
           e == EpochAt(s, h, n)
<1>1. Len(h) \in Nat
  BY DEF Streams
<1>2. e - 1 \in 0 .. Len(h) /\ (n # 0 => e \in 0 .. Len(h))
  <2>1. EpochAt(s, h, n) \in Nat /\ EpochAt(s, h, n) >= 1 /\ (n >= 1 => EpochAt(s, h, n) <= n)
        /\ (n = 0 => EpochAt(s, h, n) = 1)
    BY EpochIs
  <2> HIDE DEF e
  <2>2. e \in Nat /\ e >= 1 /\ (n >= 1 => e <= n) /\ (n = 0 => e = 1)
    BY <2>1 DEF e
  <2> QED BY <1>1, <2>2
<1>3. EpochAt(s, g, n) = e
  BY MarksGrow
<1> HIDE DEF e
<1>4. Rank(s, g, j, n) = Rank(s, h, j, n)
  <2>1. Count(s, g, j) = Count(s, h, j) /\ Count(s, g, e - 1) = Count(s, h, e - 1)
    BY <1>2, MarksGrow
  <2> HIDE DEF g
  <2>2. Rank(s, g, j, n) = Count(s, g, j) - Count(s, g, e - 1)
    BY <1>3 DEF Rank
  <2>3. Rank(s, h, j, n) = Count(s, h, j) - Count(s, h, e - 1)
    BY DEF Rank, e
  <2> QED BY <2>1, <2>2, <2>3
<1>5. Closed(s, g, n) = Closed(s, h, n)
  <2>1. CASE n = 0
    BY <2>1 DEF Closed
  <2>2. CASE n # 0
    <3>1. Shut(s, g, n) = Shut(s, h, n) /\ Shut(s, g, e) = Shut(s, h, e)
      BY <1>2, <2>2, MarksGrow
    <3> HIDE DEF g
    <3>2. Closed(s, g, n) = Shut(s, g, n) - Shut(s, g, e)
      BY <1>3, <2>2 DEF Closed
    <3>3. Closed(s, h, n) = Shut(s, h, n) - Shut(s, h, e)
      BY <2>2 DEF Closed, e
    <3> QED BY <3>1, <3>2, <3>3
  <2> QED BY <2>1, <2>2
<1> QED BY <1>4, <1>5

\* The rows the clocks step from.
LEMMA BaseRange ==
  ASSUME NEW s \in Settings, NEW h \in Streams(s), NEW k \in 1 .. Len(h)
  PROVE  /\ BaseAt(s, h, k - 1) \in 0 .. Len(h) /\ FoldAt(s, h, k - 1) \in 0 .. Len(h)
         /\ EpochAt(s, h, k) \in 1 .. k /\ BreakFrom(s, h, k) \in 1 .. k
         /\ k - 1 \in 0 .. Len(h)
<1> DEFINE l == LastAt(s, h, k - 1)
           e == EpochAt(s, h, k - 1)
           f == EpochAt(s, h, k)
<1>1. Len(h) \in Nat /\ k - 1 \in 0 .. Len(h)
  BY DEF Streams
<1>2. l \in 0 .. k - 1
  BY <1>1, LastIs
<1>3. e \in 1 .. k
  <2>1. e \in Nat /\ e >= 1 /\ (k - 1 >= 1 => e <= k - 1) /\ (k - 1 = 0 => e = 1)
    BY <1>1, EpochIs
  <2> HIDE DEF e
  <2> QED BY <1>1, <2>1
<1>4. f \in 1 .. k
  BY BaseIs
<1> HIDE DEF l, e, f
<1>5. LaterOf(l, e) \in 0 .. Len(h) /\ LaterOf(l + 1, e) \in 0 .. Len(h)
      /\ LaterOf(l + 1, f) \in 1 .. k
  BY <1>1, <1>2, <1>3, <1>4 DEF LaterOf
<1> QED BY <1>1, <1>4, <1>5 DEF BaseAt, FoldAt, BreakFrom, l, e, f

LEMMA PlaceGrows ==
  ASSUME NEW s \in Settings, NEW h \in Streams(s), NEW c \in Streams(s), NEW k \in 1 .. Len(h)
  PROVE  /\ (h \o c)[k] = h[k] /\ ResetAt(s, h \o c, k) = ResetAt(s, h, k)
         /\ DAt(s, h \o c, k) = DAt(s, h, k) /\ FreshAt(s, h \o c, k) = FreshAt(s, h, k)
         /\ ElapsedBy(s, h \o c, k) = ElapsedBy(s, h, k)
         /\ EventsAt(s, h \o c, k) = EventsAt(s, h, k)
         /\ BreakFrom(s, h \o c, k) = BreakFrom(s, h, k)
<1> DEFINE g == h \o c
           b == BaseAt(s, h, k - 1)
           f == FoldAt(s, h, k - 1)
           e == EpochAt(s, h, k)
<1>1. /\ b \in 0 .. Len(h) /\ f \in 0 .. Len(h) /\ e \in 0 .. Len(h)
      /\ k - 1 \in 0 .. Len(h) /\ k \in 0 .. Len(h) /\ k # 0
  <2>1. /\ b \in 0 .. Len(h) /\ f \in 0 .. Len(h) /\ e \in 1 .. k /\ k - 1 \in 0 .. Len(h)
    BY BaseRange
  <2>2. Len(h) \in Nat
    BY DEF Streams
  <2> HIDE DEF e
  <2> QED BY <2>1, <2>2
<1>2. /\ g[k] = h[k] /\ Steps(s, g, k) = Steps(s, h, k) /\ Time(s, g, k) = Time(s, h, k)
      /\ EpochAt(s, g, k) = e /\ LastAt(s, g, k - 1) = LastAt(s, h, k - 1)
  BY <1>1, MarksGrow
<1>3. /\ ResetAt(s, g, k) = ResetAt(s, h, k) /\ ChangedAt(g, k) = ChangedAt(h, k)
      /\ PastCapAt(s, g, k) = PastCapAt(s, h, k)
  BY <1>1, BasesGrow
<1>4. BaseAt(s, g, k - 1) = b /\ FoldAt(s, g, k - 1) = f
  BY <1>1, BasesGrow
<1>5. Steps(s, g, b) = Steps(s, h, b) /\ Steps(s, g, f) = Steps(s, h, f)
      /\ Time(s, g, e) = Time(s, h, e)
  BY <1>1, MarksGrow
<1> HIDE DEF g, b, f, e
<1>6. TotalSince(s, g, b, k) = TotalSince(s, h, b, k) /\ TotalSince(s, g, f, k) = TotalSince(s, h, f, k)
  BY <1>2, <1>3, <1>5 DEF TotalSince
<1>7. TotalAt(s, g, k) = TotalAt(s, h, k)
  BY <1>4, <1>6 DEF TotalAt, b
<1>8. DAt(s, g, k) = DAt(s, h, k)
  BY <1>2, <1>7 DEF DAt
<1>9. FreshAt(s, g, k) = FreshAt(s, h, k)
  BY <1>2, <1>4, <1>6 DEF FreshAt, Follows, f
<1>10. ElapsedBy(s, g, k) = ElapsedBy(s, h, k)
  BY <1>2, <1>5 DEF ElapsedBy, e
<1>11. GapAt(s, g, k) = GapAt(s, h, k)
  BY <1>2, <1>3, <1>7 DEF GapAt
<1>12. EventsAt(s, g, k) = EventsAt(s, h, k)
  BY <1>3, <1>11 DEF EventsAt
<1>13. BreakFrom(s, g, k) = BreakFrom(s, h, k)
  BY <1>2 DEF BreakFrom, e
<1> QED BY <1>2, <1>3, <1>8, <1>9, <1>10, <1>12, <1>13 DEF g

LEMMA BreaksGrow ==
  ASSUME NEW s \in Settings, NEW h \in Streams(s), NEW c \in Streams(s), NEW k \in 1 .. Len(h)
  PROVE  EventsOf(s, h \o c, k) = EventsOf(s, h, k)
<1> DEFINE g == h \o c
           m == BreakFrom(s, h, k)
<1>1. m \in 1 .. k /\ BreakFrom(s, g, k) = m
  BY BaseRange, PlaceGrows
<1>2. \A i \in m .. k : i \in 1 .. Len(h)
  <2>1. Len(h) \in Nat
    BY DEF Streams
  <2> HIDE DEF m
  <2> QED BY <1>1, <2>1
<1>3. \A i \in m .. k : EventsAt(s, g, i) = EventsAt(s, h, i)
  BY <1>2, PlaceGrows
<1> HIDE DEF g, m
<1>4. {EventsAt(s, g, i) : i \in m .. k} = {EventsAt(s, h, i) : i \in m .. k}
  BY <1>3
<1>5. EventsOf(s, g, k) = UNION {EventsAt(s, g, i) : i \in m .. k}
  BY <1>1 DEF EventsOf
<1>6. EventsOf(s, h, k) = UNION {EventsAt(s, h, i) : i \in m .. k}
  BY DEF EventsOf, m
<1> QED BY <1>4, <1>5, <1>6 DEF g

LEMMA HeldGrows ==
  ASSUME NEW s \in Settings, NEW h \in Streams(s), NEW c \in Streams(s),
         NEW n \in 0 .. Len(h), NEW k \in 1 .. Len(h)
  PROVE  HeldOf(s, h \o c, n, k) = HeldOf(s, h, n, k)
<1>1. k \in 0 .. Len(h)
  OBVIOUS
<1>2. /\ (h \o c)[k] = h[k]
      /\ DAt(s, h \o c, k) = DAt(s, h, k) /\ FreshAt(s, h \o c, k) = FreshAt(s, h, k)
      /\ ElapsedBy(s, h \o c, k) = ElapsedBy(s, h, k)
  BY PlaceGrows
<1>3. EventsOf(s, h \o c, k) = EventsOf(s, h, k)
  BY BreaksGrow
<1>4. Rank(s, h \o c, k, n) = Rank(s, h, k, n) /\ Closed(s, h \o c, n) = Closed(s, h, n)
  BY <1>1, RanksGrow
<1>5. FreshOf(s, h \o c, k) = FreshOf(s, h, k)
  BY <1>2 DEF FreshOf
<1> DEFINE g == h \o c
<1> HIDE DEF g
<1> QED BY <1>2, <1>3, <1>4, <1>5, Zenon DEF HeldOf

LEMMA BufferedGrows ==
  ASSUME NEW s \in Settings, NEW h \in Streams(s), NEW c \in Streams(s), NEW x, Sound(s, h, x),
         NEW n, n = Len(h), x.row = n, NEW a, Buffered(s, h, n, x, a)
  PROVE  Buffered(s, h \o c, n, x, a)
<1> DEFINE g == h \o c
<1>1. Len(h) \in Nat /\ n \in 0 .. Len(h)
  BY DEF Streams
<1>2. Ledger(h, x)
  BY DEF Sound
<1>3. x.queue \in Seq(1 .. Len(h)) /\ x.last \in 0 .. Len(h)
  BY <1>2 DEF Ledger
<1>4. Pending(s, g, n, x.queue) = Pending(s, h, n, x.queue)
  <2>1. \A i \in 1 .. Len(x.queue) : x.queue[i] \in 1 .. Len(h)
    BY <1>3, ElementOfSeq
  <2>2. \A i \in 1 .. Len(x.queue) : HeldOf(s, g, n, x.queue[i]) = HeldOf(s, h, n, x.queue[i])
    BY <1>1, <2>1, HeldGrows
  <2> HIDE DEF g
  <2> QED BY <2>2 DEF Pending
<1>5. BreakHeld(s, g, n) = BreakHeld(s, h, n)
  <2>1. LastAt(s, g, n) = LastAt(s, h, n)
    BY <1>1, MarksGrow
  <2>2. CASE n = 0
    <3>1. LastAt(s, h, 0) = 0
      BY MarkZero
    <3> QED BY <2>1, <2>2, <3>1 DEF BreakHeld
  <2>3. CASE n # 0
    <3>1. n \in 1 .. Len(h)
      BY <1>1, <2>3
    <3>2. EventsOf(s, g, n) = EventsOf(s, h, n)
      BY <3>1, BreaksGrow
    <3> QED BY <2>1, <3>2 DEF BreakHeld
  <2> QED BY <2>2, <2>3
<1>6. Nulls(s, g, n) = Nulls(s, h, n)
  BY <1>1, MarksGrow
<1>7. LabelClock(s, g, x, a.learned)
  <2>1. x.last # 0 => g[x.last] = h[x.last]
    BY <1>3, MarksGrow
  <2>2. LabelClock(s, h, x, a.learned)
    BY DEF Buffered
  <2> HIDE DEF g
  <2> QED BY <2>1, <2>2 DEF LabelClock, LabelledBy
<1> HIDE DEF g
<1>8. Buffered(s, g, n, x, a)
  BY <1>4, <1>5, <1>6, <1>7 DEF Buffered
<1> QED BY <1>8 DEF g

\* A stream stays legal with a chunk that was not refused.
LEMMA LegalGrows ==
  ASSUME NEW s \in Settings, NEW h \in Streams(s), NEW c \in Streams(s), Legal(s, h),
         \A i \in 1 .. Len(c) :
           /\ StepsOn(s, h \o c, Len(h) + i) /\ ClosesIn(s, h \o c, Len(h) + i)
           /\ Lab(s) /\ c[i].accept /\ c[i].label # NoLabel => c[i].at <= c[i].label
  PROVE  Legal(s, h \o c)
<1> DEFINE g == h \o c
<1>1. /\ Len(g) = Len(h) + Len(c) /\ Len(h) \in Nat /\ Len(c) \in Nat
      /\ \A i \in 1 .. Len(c) : g[Len(h) + i] = c[i]
  <2>1. Len(h) \in Nat /\ Len(c) \in Nat
    BY DEF Streams
  <2>2. Len(g) = Len(h) + Len(c) /\ \A i \in 1 .. Len(c) : g[Len(h) + i] = c[i]
    BY TrailGrows
  <2> QED BY <2>1, <2>2
<1>2. ASSUME NEW k \in 1 .. Len(h)
      PROVE  /\ StepsOn(s, g, k) /\ ClosesIn(s, g, k)
             /\ Lab(s) /\ g[k].accept /\ g[k].label # NoLabel => g[k].at <= g[k].label
  <2>1. k \in 0 .. Len(h) /\ k # 0 /\ k - 1 \in 0 .. Len(h)
    BY <1>1
  <2>2. g[k] = h[k] /\ (k > 1 => g[k - 1] = h[k - 1])
    BY <2>1, MarksGrow
  <2>3. ResetAt(s, g, k) = ResetAt(s, h, k)
    BY <2>1, BasesGrow
  <2>4. Rank(s, g, k - 1, k - 1) = Rank(s, h, k - 1, k - 1)
        /\ Closed(s, g, k - 1) = Closed(s, h, k - 1)
    BY <2>1, RanksGrow
  <2>5. /\ StepsOn(s, h, k) /\ ClosesIn(s, h, k)
        /\ Lab(s) /\ h[k].accept /\ h[k].label # NoLabel => h[k].at <= h[k].label
    BY DEF Legal
  <2> HIDE DEF g
  <2>6. StepsOn(s, g, k)
    BY <2>2, <2>3, <2>5 DEF StepsOn
  <2>7. ClosesIn(s, g, k)
    BY <2>2, <2>3, <2>4, <2>5 DEF ClosesIn
  <2> QED BY <2>2, <2>5, <2>6, <2>7
<1>3. ASSUME NEW k \in 1 .. Len(g), ~(k \in 1 .. Len(h))
      PROVE  /\ StepsOn(s, g, k) /\ ClosesIn(s, g, k)
             /\ Lab(s) /\ g[k].accept /\ g[k].label # NoLabel => g[k].at <= g[k].label
  <2> DEFINE i == k - Len(h)
  <2>1. i \in 1 .. Len(c) /\ Len(h) + i = k
    BY <1>1, <1>3
  <2> HIDE DEF i
  <2>2. g[k] = c[i]
    BY <1>1, <2>1
  <2>3. /\ StepsOn(s, g, Len(h) + i) /\ ClosesIn(s, g, Len(h) + i)
        /\ Lab(s) /\ c[i].accept /\ c[i].label # NoLabel => c[i].at <= c[i].label
    BY <2>1
  <2> QED BY <2>1, <2>2, <2>3
<1> HIDE DEF g
<1>4. Legal(s, g)
  BY <1>2, <1>3 DEF Legal
<1> QED BY <1>4 DEF g

\* At first the labels checked are those of the rows held.
LEMMA FirstHeld ==
  ASSUME NEW h, NEW n, NEW S, NEW q \in Seq(S), Lab(setting),
         BufferNow.pending = Pending(setting, h, n, q)
  PROVE  HeldAs(h, BufferNow, CheckStart)
<1>1. BufferNow.pending = pending /\ CheckStart.held = {<<r.label, r.id>> : r \in ToSet(pending)}
  BY DEF BufferNow, CheckStart
<1>2. /\ Len(pending) = Len(q) /\ DOMAIN pending = 1 .. Len(q)
      /\ \A i \in 1 .. Len(q) : pending[i] = HeldOf(setting, h, n, q[i])
  <2>1. /\ Len(Pending(setting, h, n, q)) = Len(q) /\ DOMAIN Pending(setting, h, n, q) = 1 .. Len(q)
        /\ \A i \in 1 .. Len(q) : Pending(setting, h, n, q)[i] = HeldOf(setting, h, n, q[i])
    BY PendingIs
  <2> QED BY <1>1, <2>1
<1>3. \A i \in 1 .. Len(q) : pending[i].id = q[i] /\ pending[i].label = h[q[i]].label
  <2>1. \A j : HeldOf(setting, h, n, j).id = j /\ HeldOf(setting, h, n, j).label = h[j].label
    BY DEF HeldOf
  <2> QED BY <1>2, <2>1
<1>4. ASSUME NEW l \in CheckStart.held PROVE l \in LabelsOf(h, IdsIn(pending))
  <2>1. PICK i \in 1 .. Len(q) : l = <<pending[i].label, pending[i].id>>
    BY <1>1, <1>2 DEF ToSet
  <2>2. pending[i].id \in IdsIn(pending)
    BY <1>2 DEF IdsIn
  <2>3. l = <<h[q[i]].label, q[i]>> /\ q[i] \in IdsIn(pending)
    BY <1>3, <2>1, <2>2
  <2> QED BY <2>3 DEF LabelsOf
<1>5. ASSUME NEW l \in LabelsOf(h, IdsIn(pending)) PROVE l \in CheckStart.held
  <2>1. PICK j \in IdsIn(pending) : l = <<h[j].label, j>>
    BY DEF LabelsOf
  <2>2. PICK i \in 1 .. Len(q) : j = pending[i].id
    BY <1>2 DEF IdsIn
  <2>3. j = q[i]
    BY <1>3, <2>2
  <2>4. l = <<pending[i].label, pending[i].id>>
    BY <1>3, <2>1, <2>3
  <2>5. pending[i] \in ToSet(pending)
    BY <1>2 DEF ToSet
  <2> QED BY <1>1, <2>4, <2>5
<1> QED BY <1>1, <1>4, <1>5 DEF HeldAs

\* A chunk that is taken: the stream stays legal, and the plans put out are a
\* way from the ledger before it to the one after its last row.
LEMMA FeedLegal ==
  ASSUME setting \in Settings, hist \in Streams(setting), NEW chunk \in Streams(setting),
         Legal(setting, hist), CouldClose(chunk), ~C!CheckClock(clock, chunk),
         ~CheckLabels(Schedule(chunk)), StreamClock(setting, hist, Len(hist), clock),
         FoldClock(setting, hist, Len(hist), restartFold),
         OpenIs(setting, hist, Len(hist), open)
  PROVE  Legal(setting, hist \o chunk)
<1> DEFINE s == setting
           h == hist \o chunk
           m == Len(hist)
           sch == Schedule(chunk)
           N == Len(chunk)
<1>1. /\ SchedIs(s, h, m, Len(h), sch) /\ \A i \in 1 .. N : ClosesIn(s, h, m + i)
  BY ScheduleIs
<1>2. \A i \in 1 .. N : StepsOn(s, h, m + i)
  BY CheckedSteps
<1>3. /\ Len(h) = m + N /\ m \in Nat /\ N \in Nat /\ \A i \in 1 .. N : h[m + i] = chunk[i]
  <2>1. m \in Nat /\ N \in Nat
    BY DEF Streams
  <2>2. Len(h) = m + N /\ \A i \in 1 .. N : h[m + i] = chunk[i]
    BY TrailGrows
  <2> QED BY <2>1, <2>2
<1> HIDE DEF h, m, N, sch
<1>4. Len(sch.plans) = N /\ \A i \in 1 .. N : sch.plans[i] = PlanOf(s, h, m + i)
  <2>1. Len(h) - m = N
    BY <1>3
  <2> QED BY <1>1, <2>1 DEF SchedIs
<1>5. ASSUME Lab(s), NEW i \in 1 .. N, chunk[i].accept, chunk[i].label # NoLabel
      PROVE  chunk[i].at <= chunk[i].label
  <2>1. Len(sch.plans) \in Nat
    BY <1>3, <1>4
  <2>2. PICK run : CheckRun(sch, run) /\ (CheckLabels(sch) <=> Labelled /\ run[Len(sch.plans)].refused)
    BY <2>1, CheckRuns
  <2>3. ~run[Len(sch.plans)].refused
    BY <1>5, <2>2 DEF Labelled, Lab, sch
  <2>4. i \in 1 .. Len(sch.plans)
    BY <1>4
  <2>5. Passes(run[i - 1], sch.plans[i], run[i])
    BY <2>1, <2>2, <2>3, <2>4, AllPass
  <2>6. sch.plans[i].row = chunk[i]
    <3>1. sch.plans[i] = PlanOf(s, h, m + i) /\ h[m + i] = chunk[i]
      BY <1>3, <1>4
    <3> QED BY <3>1 DEF PlanOf
  <2>7. ~(chunk[i].label < chunk[i].at)
    BY <1>5, <2>5, <2>6 DEF Passes
  <2>8. chunk[i].label \in Int /\ chunk[i].at \in Int
    BY RowIs DEF N
  <2> QED BY <2>7, <2>8
<1>6. Legal(s, h)
  <2>1. \A i \in 1 .. Len(chunk) :
          /\ StepsOn(s, hist \o chunk, Len(hist) + i) /\ ClosesIn(s, hist \o chunk, Len(hist) + i)
          /\ Lab(s) /\ chunk[i].accept /\ chunk[i].label # NoLabel =>
               chunk[i].at <= chunk[i].label
    BY <1>1, <1>2, <1>5 DEF h, m, N
  <2> QED BY <2>1, LegalGrows DEF h
<1> QED BY <1>6 DEF h

LEMMA FeedIs ==
  ASSUME setting \in Settings, hist \in Streams(setting), NEW chunk \in Streams(setting),
         Legal(setting, hist), CouldClose(chunk), ~C!CheckClock(clock, chunk),
         ~CheckLabels(Schedule(chunk)), StreamClock(setting, hist, Len(hist), clock),
         FoldClock(setting, hist, Len(hist), restartFold),
         OpenIs(setting, hist, Len(hist), open),
         NEW x0, Sound(setting, hist, x0), x0.row = Len(hist),
         Buffered(setting, hist, Len(hist), x0, BufferNow)
  PROVE  DelayedTo(setting, hist \o chunk, Len(hist \o chunk), x0, ApplyLabelDelay(Schedule(chunk)))
<1> DEFINE s == setting
           h == hist \o chunk
           m == Len(hist)
           sch == Schedule(chunk)
           N == Len(chunk)
<1>1. SchedIs(s, h, m, Len(h), sch)
  BY ScheduleIs
<1>2. Legal(s, h)
  BY FeedLegal
<1>3. Sound(s, h, x0)
  BY SoundGrows
<1>4. Buffered(s, h, m, x0, BufferNow)
  BY BufferedGrows
<1>5. /\ Len(h) = m + N /\ m \in Nat /\ N \in Nat /\ h \in Streams(s)
  <2>1. m \in Nat /\ N \in Nat
    BY DEF Streams
  <2>2. Len(h) = m + N /\ h \in Streams(s)
    BY TrailGrows
  <2> QED BY <2>1, <2>2
<1>6. ~CheckLabels(sch) /\ x0.row = m /\ s \in Settings
  OBVIOUS
<1> HIDE DEF h, m, N, sch
<1>7. Len(sch.plans) = N /\ \A i \in 1 .. N : sch.plans[i] = PlanOf(s, h, m + i)
  <2>1. Len(h) - m = N
    BY <1>5
  <2> QED BY <1>1, <2>1 DEF SchedIs
<1>8. Len(sch.plans) \in Nat
  BY <1>5, <1>7
<1>9. PICK run : ApplyRun(sch, run) /\ ApplyLabelDelay(sch) = run[Len(sch.plans)]
  BY <1>8, ApplyRuns
<1>10. PICK chk : /\ CheckRun(sch, chk)
                  /\ CheckLabels(sch) <=> Labelled /\ chk[Len(sch.plans)].refused
  BY <1>8, CheckRuns
<1>11. Lab(s) =>
         \A n \in 1 .. N : IsCheck(chk[n - 1]) /\ ~CheckedLabel(chk[n - 1], sch.plans[n]).refused
  <2> SUFFICES ASSUME Lab(s)
               PROVE  \A n \in 1 .. N :
                        IsCheck(chk[n - 1]) /\ ~CheckedLabel(chk[n - 1], sch.plans[n]).refused
    OBVIOUS
  <2>1. ~chk[Len(sch.plans)].refused
    BY <1>6, <1>10 DEF Labelled, Lab
  <2>2. \A n \in 1 .. Len(sch.plans) :
          IsCheck(chk[n - 1]) /\ ~CheckedLabel(chk[n - 1], sch.plans[n]).refused
    BY <1>8, <1>10, <2>1, AllPass
  <2> QED BY <1>7, <2>2
<1> DEFINE Good(n) == /\ DelayedTo(s, h, m + n, x0, run[n])
                      /\ Lab(s) => HeldAs(h, run[n], chk[n])
           T == {n \in 0 .. N : Good(n)}
<1>12. 0 \in T
  <2>1. run[0] = BufferNow /\ chk[0] = CheckStart
    BY <1>9, <1>10 DEF ApplyRun, CheckRun
  <2>2. DelayedTo(s, h, m, x0, BufferNow)
    <3>1. IsBuffer(BufferNow) /\ BufferNow.out = <<>>
      BY DEF IsBuffer, BufferNow
    <3>2. Path(s, h, x0, BufferNow.out, x0)
      BY <3>1, NoPath
    <3> QED BY <1>4, <1>6, <3>1, <3>2 DEF DelayedTo
  <2>3. ASSUME Lab(s) PROVE HeldAs(h, BufferNow, CheckStart)
    <3>1. BufferNow.pending = Pending(s, h, m, x0.queue)
      BY <1>4 DEF Buffered
    <3>2. x0.queue \in Seq(1 .. x0.row)
      BY <1>3 DEF Sound, Ledger
    <3> QED BY <2>3, <3>1, <3>2, FirstHeld
  <2>4. m + 0 = m
    BY <1>5
  <2>5. Good(0)
    BY <2>1, <2>2, <2>3, <2>4
  <2> HIDE DEF Good
  <2> QED BY <1>5, <2>5
<1>13. ASSUME NEW n \in 1 .. N, n - 1 \in T PROVE n \in T
  <2>1. DelayedTo(s, h, m + (n - 1), x0, run[n - 1])
        /\ (Lab(s) => HeldAs(h, run[n - 1], chk[n - 1]))
    BY <1>13
  <2>2. m + (n - 1) = (m + n) - 1 /\ m + n \in 1 .. Len(h) /\ m \in 0 .. (m + n) - 1
    BY <1>5
  <2>3. sch.plans[n] = PlanOf(s, h, m + n)
    BY <1>7
  <2>4. Lab(s) => /\ IsCheck(chk[n - 1]) /\ HeldAs(h, run[n - 1], chk[n - 1])
                  /\ ~CheckedLabel(chk[n - 1], sch.plans[n]).refused
    BY <1>11, <2>1
  <2>5. Frm(s) => KnownIs(s, h, m, Len(h), sch.known)
    BY <1>1 DEF SchedIs
  <2>6. run[n] = Delay(run[n - 1], sch.plans[n], sch.known)
    BY <1>7, <1>9 DEF ApplyRun
  <2>7. chk[n] = CheckedLabel(chk[n - 1], sch.plans[n])
    BY <1>7, <1>10 DEF CheckRun
  <2> DEFINE k == m + n
             a == run[n - 1]
             c == chk[n - 1]
             p == sch.plans[n]
             known == sch.known
  <2>8. DelayedTo(s, h, k - 1, x0, a) /\ k \in 1 .. Len(h) /\ m \in 0 .. k - 1 /\ p = PlanOf(s, h, k)
    BY <2>1, <2>2, <2>3
  <2>9. Lab(s) => IsCheck(c) /\ HeldAs(h, a, c) /\ ~CheckedLabel(c, p).refused
    BY <2>4
  <2>10. Frm(s) => KnownIs(s, h, m, Len(h), known)
    BY <2>5
  <2>11. s = setting
    OBVIOUS
  <2>14. run[n] = Delay(a, p, known) /\ chk[n] = CheckedLabel(c, p)
    BY <2>6, <2>7
  <2> HIDE DEF k, a, c, p, known
  <2>12. /\ DelayedTo(s, h, k, x0, Delay(a, p, known))
         /\ Lab(s) => HeldAs(h, Delay(a, p, known), CheckedLabel(c, p))
    BY ONLY <1>2, <1>3, <1>5, <1>6, <2>8, <2>9, <2>10, <2>11, DelayIs
  <2>13. Good(n)
    BY <2>12, <2>14 DEF k
  <2> HIDE DEF Good
  <2> QED BY <2>13
<1>14. N \in T
  <2>1. 0 .. N \subseteq T
    <3> HIDE DEF T
    <3> QED BY <1>5, <1>12, <1>13, UpTo
  <2> QED BY <1>5, <2>1
<1>15. DelayedTo(s, h, Len(h), x0, ApplyLabelDelay(sch))
  <2>1. DelayedTo(s, h, m + N, x0, run[N])
    BY <1>14
  <2> QED BY <1>5, <1>7, <1>9, <2>1
<1> QED BY <1>15 DEF h, sch

-----------------------------------------------------------------------------
(* The invariant: there is a ledger of what the model did, and the plans    *)
(* left are a way from it to the ledger the buffer stands at.               *)

StreamInv ==
  /\ setting \in Settings /\ hist \in Streams(setting) /\ Len(hist) <= setting.maxRows
  /\ Legal(setting, hist)
  /\ StreamClock(setting, hist, Len(hist), clock)
  /\ FoldClock(setting, hist, Len(hist), restartFold)
  /\ OpenIs(setting, hist, Len(hist), open)
Way(x, y) ==
  /\ Path(setting, hist, x, plans, y) /\ Sound(setting, hist, x)
  /\ y.row = Len(hist) /\ Buffered(setting, hist, Len(hist), y, BufferNow)
AtLedger(x) ==
  /\ learnt = x.learnt /\ inst.records = x.queue /\ epoch = EpochAt(setting, hist, x.row)
  /\ read.what = "scored" =>
       /\ read.id = x.row /\ x.now = x.row /\ x.row > 0 /\ hist[x.row].accept
       /\ learnt \in Seq(1 .. x.row - 1)
  /\ read.what = "learned" => read.record = read.id
IsInst(i) ==
  i = [decayTime |-> i.decayTime, restarted |-> i.restarted, held |-> i.held,
       records |-> i.records, fit |-> i.fit, lagged |-> i.lagged, newest |-> i.newest]

LEMMA InitInv ==
  ASSUME Init
  PROVE  StreamInv /\ Way(NoLedger, NoLedger) /\ AtLedger(NoLedger) /\ IsInst(inst)
<1>1. /\ setting \in Settings /\ clock = C!New /\ restartFold = <<>> /\ open = <<>>
      /\ pending = <<>> /\ heldBreak = {} /\ learnedClock = C!New /\ missing = 0 /\ dropped = 0
      /\ plans = <<>> /\ inst = Fresh /\ read = Nothing /\ hist = <<>> /\ epoch = 1
      /\ learnt = <<>>
  BY DEF Init
<1>2. Len(hist) = 0 /\ hist \in Streams(setting) /\ setting.maxRows \in Nat
  BY <1>1, SettingIs DEF Streams
<1>3. /\ Steps(setting, hist, 0) = 0 /\ EpochAt(setting, hist, 0) = 1
      /\ LastAt(setting, hist, 0) = 0 /\ Nulls(setting, hist, 0) = 0
      /\ Count(setting, hist, 0) = 0
  BY <1>1, <1>2, MarkZero
<1>4. StreamInv
  <2>1. Legal(setting, hist)
    BY <1>2 DEF Legal
  <2>2. StreamClock(setting, hist, 0, clock)
    <3>1. IsClock(clock) /\ ~clock.started
      BY <1>1, NewIsClock
    <3> QED BY <3>1 DEF StreamClock, After
  <2>3. FoldClock(setting, hist, 0, restartFold)
    BY <1>1, <1>3 DEF FoldClock
  <2>4. OpenIs(setting, hist, 0, open)
    <3>1. Rank(setting, hist, 0, 0) = 0 /\ Closed(setting, hist, 0) = 0
      BY <1>3 DEF Rank, Closed
    <3>2. open \in Seq(1 .. 0) /\ Len(open) = 0
      BY <1>1
    <3> QED BY <1>1, <3>1, <3>2 DEF OpenIs
  <2> QED BY <1>1, <1>2, <2>1, <2>2, <2>3, <2>4 DEF StreamInv
<1>5. Way(NoLedger, NoLedger)
  <2>1. Path(setting, hist, NoLedger, plans, NoLedger)
    BY <1>1, NoPath
  <2>2. Sound(setting, hist, NoLedger)
    BY <1>1, FirstSound
  <2>3. /\ NoLedger.row = 0 /\ NoLedger.queue = <<>> /\ NoLedger.last = 0 /\ NoLedger.dropped = 0
    BY DEF NoLedger
  <2>4. /\ BufferNow.pending = <<>> /\ BufferNow.heldBreak = {} /\ BufferNow.learned = C!New
        /\ BufferNow.missing = 0 /\ BufferNow.dropped = 0
    BY <1>1 DEF BufferNow
  <2>5. Pending(setting, hist, 0, <<>>) = <<>>
    BY DEF Pending
  <2>6. BreakHeld(setting, hist, 0) = {}
    BY <1>3 DEF BreakHeld
  <2>7. LabelClock(setting, hist, NoLedger, C!New)
    <3>1. IsClock(C!New) /\ ~C!New.started
      BY NewIsClock
    <3> QED BY <2>3, <3>1 DEF LabelClock, LabelledBy
  <2>8. Buffered(setting, hist, 0, NoLedger, BufferNow)
    BY <1>3, <2>3, <2>4, <2>5, <2>6, <2>7 DEF Buffered
  <2> QED BY <1>2, <2>1, <2>2, <2>3, <2>8 DEF Way
<1>6. AtLedger(NoLedger)
  BY <1>1, <1>3 DEF AtLedger, NoLedger, Fresh, Nothing
<1>7. IsInst(inst)
  BY <1>1 DEF IsInst, Fresh
<1> QED BY <1>4, <1>5, <1>6, <1>7

\* A chunk taken.
LEMMA FeedInv ==
  ASSUME StreamInv, NEW x, NEW y, Way(x, y), AtLedger(x), Feed
  PROVE  StreamInv' /\ (\E z : Way(x, z)') /\ AtLedger(x)' /\ x.row = Len(hist)
         /\ \E chunk \in Streams(setting) : hist' = hist \o chunk
<1>1. /\ setting \in Settings /\ hist \in Streams(setting) /\ Legal(setting, hist)
      /\ StreamClock(setting, hist, Len(hist), clock)
      /\ FoldClock(setting, hist, Len(hist), restartFold)
      /\ OpenIs(setting, hist, Len(hist), open)
  BY DEF StreamInv
<1>2. /\ plans = <<>> /\ setting' = setting /\ inst' = inst /\ read' = read /\ epoch' = epoch
      /\ learnt' = learnt /\ start' = start
  BY DEF Feed, model
<1>3. PICK n \in 1 .. ChunkRows : \E chunk \in [1 .. n -> setting.rows] :
        /\ Len(hist) + n <= setting.maxRows /\ CouldClose(chunk) /\ ~C!CheckClock(clock, chunk)
        /\ Take(Schedule(chunk)) /\ hist' = hist \o chunk
  BY DEF Feed
<1>4. PICK chunk \in [1 .. n -> setting.rows] :
        /\ Len(hist) + n <= setting.maxRows /\ CouldClose(chunk) /\ ~C!CheckClock(clock, chunk)
        /\ Take(Schedule(chunk)) /\ hist' = hist \o chunk
  BY <1>3
<1> DEFINE h == hist \o chunk
           sch == Schedule(chunk)
           A == ApplyLabelDelay(sch)
<1>5. chunk \in Streams(setting) /\ Len(chunk) = n
  <2>1. n \in Nat
    BY SettingsAssumption
  <2>2. chunk \in Seq(setting.rows) /\ Len(chunk) = n
    BY <2>1
  <2> QED BY <2>2 DEF Streams
<1>6. /\ ~CheckLabels(sch) /\ clock' = sch.clock /\ restartFold' = sch.fold /\ open' = sch.open
      /\ pending' = A.pending /\ heldBreak' = A.heldBreak /\ learnedClock' = A.learned
      /\ missing' = A.missing /\ dropped' = A.dropped /\ plans' = A.out
  BY <1>4 DEF Take, Delayed
<1>7. /\ Path(setting, hist, x, <<>>, y) /\ Sound(setting, hist, x) /\ y.row = Len(hist)
      /\ Buffered(setting, hist, Len(hist), y, BufferNow)
  BY <1>2 DEF Way
<1>8. y = x
  BY <1>7, PathEnd
<1>9. x.row = Len(hist) /\ Buffered(setting, hist, Len(hist), x, BufferNow)
  BY <1>7, <1>8
<1>10. DelayedTo(setting, h, Len(h), x, A)
  BY <1>1, <1>4, <1>5, <1>6, <1>7, <1>9, FeedIs
<1>11. SchedIs(setting, h, Len(hist), Len(h), sch)
  BY <1>1, <1>4, <1>5, ScheduleIs
<1>12. Legal(setting, h)
  BY <1>1, <1>4, <1>5, <1>6, FeedLegal
<1>13. h \in Streams(setting) /\ Len(h) = Len(hist) + n
  BY <1>1, <1>5, TrailGrows
<1>14. Sound(setting, h, x)
  BY <1>1, <1>5, <1>7, SoundGrows
<1>15. hist' = h
  BY <1>4
<1>16. Len(hist) + n <= setting.maxRows
  BY <1>4
<1> HIDE DEF h, sch, A
<1>17. StreamInv'
  <2>1. /\ StreamClock(setting, h, Len(h), sch.clock) /\ FoldClock(setting, h, Len(h), sch.fold)
        /\ OpenIs(setting, h, Len(h), sch.open)
    BY <1>11 DEF SchedIs
  <2> QED BY <1>1, <1>2, <1>6, <1>12, <1>13, <1>15, <1>16, <2>1 DEF StreamInv
<1>18. \E z : Way(x, z)'
  <2>1. PICK z : Path(setting, h, x, A.out, z) /\ z.row = Len(h) /\ Buffered(setting, h, Len(h), z, A)
    BY <1>10 DEF DelayedTo
  <2>2. BufferNow' = [pending |-> A.pending, heldBreak |-> A.heldBreak, learned |-> A.learned,
                      missing |-> A.missing, dropped |-> A.dropped, out |-> <<>>]
    BY <1>6 DEF BufferNow
  <2> DEFINE B == BufferNow'
  <2> HIDE DEF B
  <2>3. /\ B.pending = A.pending /\ B.heldBreak = A.heldBreak /\ B.learned = A.learned
        /\ B.missing = A.missing /\ B.dropped = A.dropped
    BY <2>2 DEF B
  <2>4. Buffered(setting, h, Len(h), z, B)
    BY <2>1, <2>3 DEF Buffered
  <2>5. Way(x, z)'
    BY <1>2, <1>6, <1>14, <1>15, <2>1, <2>4 DEF Way, B
  <2> QED BY <2>5
<1>19. AtLedger(x)'
  <2>1. AtLedger(x) /\ x.row \in 0 .. Len(hist)
    BY <1>7 DEF Sound, Ledger
  <2>2. EpochAt(setting, h, x.row) = EpochAt(setting, hist, x.row)
        /\ (x.row # 0 => h[x.row] = hist[x.row])
    BY <1>1, <1>5, <2>1, MarksGrow DEF h
  <2>3. /\ learnt = x.learnt /\ inst.records = x.queue /\ epoch = EpochAt(setting, hist, x.row)
        /\ read.what = "scored" =>
             /\ read.id = x.row /\ x.now = x.row /\ x.row > 0 /\ hist[x.row].accept
             /\ learnt \in Seq(1 .. x.row - 1)
        /\ read.what = "learned" => read.record = read.id
    BY DEF AtLedger
  <2>4. read.what = "scored" => h[x.row].accept
    BY <2>1, <2>2, <2>3
  <2> QED BY <1>2, <1>15, <2>2, <2>3, <2>4 DEF AtLedger
<1> QED BY <1>5, <1>9, <1>15, <1>17, <1>18, <1>19 DEF h

-----------------------------------------------------------------------------
(* A plan gone through: the ledger's step, field by field, and the model's. *)

\* What a row skipped, learned or scored makes of the ledger.
SkippedTo(s, h, x, k, p, z) ==
  /\ k \in 1 .. Len(h) /\ ~h[k].accept /\ p.id = k /\ p.kind = "skip"
  /\ p.reset = ResetAt(s, h, k) /\ p.events = {}
  /\ z.queue = (IF ResetAt(s, h, k) THEN <<>> ELSE x.queue)
  /\ z.last = (IF ResetAt(s, h, k) THEN 0 ELSE x.last)
  /\ z.learnt = x.learnt /\ z.row = k /\ z.now = k
LEMMA SkipFields ==
  ASSUME NEW s, NEW h, NEW x, Ledger(h, x), NEW p, NEW z, Skips(s, h, x, p, z),
         NEW k, k = x.row + 1
  PROVE  SkippedTo(s, h, x, k, p, z)
<1> DEFINE w == Emptied(s, h, x, k)
<1>1. EmptiedTo(s, h, x, k, w) /\ Ledger(h, w)
  BY EmptiedFields
<1>2. /\ k \in 1 .. Len(h) /\ ~h[k].accept /\ p.id = k /\ p.reset = ResetAt(s, h, k)
      /\ p.kind = "skip" /\ p.events = {} /\ z = [w EXCEPT !.row = k, !.now = k]
  BY DEF Skips
<1> HIDE DEF w
<1>3. w = [queue |-> w.queue, learnt |-> w.learnt, row |-> w.row, now |-> w.now,
           last |-> w.last, dropped |-> w.dropped]
  BY <1>1 DEF Ledger
<1>4. z = [queue |-> w.queue, learnt |-> w.learnt, row |-> k, now |-> k,
           last |-> w.last, dropped |-> w.dropped]
  BY <1>2, <1>3
<1>5. /\ z.queue = w.queue /\ z.learnt = w.learnt /\ z.row = k /\ z.now = k
      /\ z.last = w.last
  BY <1>4
<1> QED BY <1>1, <1>2, <1>5 DEF EmptiedTo, SkippedTo

LearnedTo(s, h, x, p, z) ==
  /\ x.queue # <<>> /\ x.queue[1] \in 1 .. x.row /\ p.id = x.queue[1] /\ p.reset = FALSE
  /\ p.kind = "learn" /\ p.d = LearnStep(s, h, x) /\ p.fresh = FreshOf(s, h, x.queue[1])
  /\ p.events = LearnEvents(s, h, x)
  /\ z.queue = Tail(x.queue) /\ z.last = x.queue[1] /\ z.row = x.row
  /\ z.learnt = Append(x.learnt, x.queue[1]) /\ z.now = x.row + 1
LEMMA LearnFields ==
  ASSUME NEW s, NEW h, NEW x, Ledger(h, x), NEW p, NEW z, Learns(s, h, x, p, z)
  PROVE  LearnedTo(s, h, x, p, z)
<1>1. /\ x.queue # <<>> /\ p.id = x.queue[1] /\ p.reset = FALSE /\ p.kind = "learn"
      /\ p.d = LearnStep(s, h, x) /\ p.fresh = FreshOf(s, h, x.queue[1])
      /\ p.events = LearnEvents(s, h, x)
      /\ z = [x EXCEPT !.queue = Tail(@), !.learnt = Append(@, x.queue[1]), !.now = x.row + 1,
                       !.last = x.queue[1]]
  BY DEF Learns, Learned
<1>2. x = [queue |-> x.queue, learnt |-> x.learnt, row |-> x.row, now |-> x.now,
           last |-> x.last, dropped |-> x.dropped] /\ x.queue \in Seq(1 .. x.row)
  BY DEF Ledger
<1>3. z = [queue |-> Tail(x.queue), learnt |-> Append(x.learnt, x.queue[1]), row |-> x.row,
           now |-> x.row + 1, last |-> x.queue[1], dropped |-> x.dropped]
  BY <1>1, <1>2
<1>4. /\ z.queue = Tail(x.queue) /\ z.learnt = Append(x.learnt, x.queue[1]) /\ z.row = x.row
      /\ z.now = x.row + 1 /\ z.last = x.queue[1]
  BY <1>3
<1>5. x.queue[1] \in 1 .. x.row
  <2>1. Len(x.queue) \in Nat /\ Len(x.queue) # 0
    BY <1>1, <1>2, EmptySeq
  <2>2. 1 \in 1 .. Len(x.queue)
    BY <2>1
  <2> QED BY <1>2, <2>2, ElementOfSeq
<1> QED BY <1>1, <1>4, <1>5 DEF LearnedTo

ScoredTo(s, h, x, k, p, z) ==
  /\ k \in 1 .. Len(h) /\ h[k].accept /\ p.id = k /\ p.kind = "score"
  /\ p.reset = ResetAt(s, h, k) /\ p.events = {}
  /\ p.d = DAt(s, h, k) /\ p.fresh = FreshAt(s, h, k)
  /\ p.cut = CutBefore(s, h, IF ResetAt(s, h, k) THEN <<>> ELSE x.queue)
  /\ p.held <=> HasLesson(s, h[k])
  /\ z.queue = Record(IF ResetAt(s, h, k) THEN <<>> ELSE x.queue, p)
  /\ z.last = (IF ResetAt(s, h, k) THEN 0 ELSE x.last)
  /\ z.learnt = x.learnt /\ z.row = k /\ z.now = k
LEMMA ScoreFields ==
  ASSUME NEW s, NEW h, NEW x, Ledger(h, x), NEW p, NEW z, Scores(s, h, x, p, z),
         NEW k, k = x.row + 1
  PROVE  ScoredTo(s, h, x, k, p, z)
<1> DEFINE w == Emptied(s, h, x, k)
<1>1. EmptiedTo(s, h, x, k, w) /\ Ledger(h, w)
  BY EmptiedFields
<1>2. /\ k \in 1 .. Len(h) /\ h[k].accept /\ p.id = k /\ p.reset = ResetAt(s, h, k)
      /\ p.kind = "score" /\ p.events = {} /\ p.d = DAt(s, h, k) /\ p.fresh = FreshAt(s, h, k)
      /\ p.cut = CutBefore(s, h, w.queue) /\ (p.held <=> HasLesson(s, h[k]))
      /\ z = Scored(w, k, p)
  BY DEF Scores
<1> HIDE DEF w
<1>3. w = [queue |-> w.queue, learnt |-> w.learnt, row |-> w.row, now |-> w.now,
           last |-> w.last, dropped |-> w.dropped]
  BY <1>1 DEF Ledger
<1>4. /\ z.queue = Record(w.queue, p) /\ z.learnt = w.learnt /\ z.row = k /\ z.now = k
      /\ z.last = w.last
  <2>1. CASE ~p.held
    <3>1. z = [w EXCEPT !.row = k, !.now = k]
      BY <1>2, <2>1 DEF Scored
    <3>2. z = [queue |-> w.queue, learnt |-> w.learnt, row |-> k, now |-> k,
               last |-> w.last, dropped |-> w.dropped]
      BY <1>3, <3>1
    <3>3. Record(w.queue, p) = w.queue
      BY <2>1 DEF Record
    <3> QED BY <3>2, <3>3
  <2>2. CASE p.held
    <3>1. z = [w EXCEPT !.row = k, !.now = k, !.queue = Record(@, p), !.dropped = @ + One(p.drop # 0)]
      BY <1>2, <2>2 DEF Scored
    <3>2. z = [queue |-> Record(w.queue, p), learnt |-> w.learnt, row |-> k, now |-> k,
               last |-> w.last, dropped |-> w.dropped + One(p.drop # 0)]
      BY <1>3, <3>1
    <3> QED BY <3>2
  <2> QED BY <2>1, <2>2
<1>5. w.queue = (IF ResetAt(s, h, k) THEN <<>> ELSE x.queue)
      /\ w.last = (IF ResetAt(s, h, k) THEN 0 ELSE x.last) /\ w.learnt = x.learnt
  BY <1>1 DEF EmptiedTo
<1> QED BY <1>2, <1>4, <1>5 DEF ScoredTo

\* The stream's part of a step, and the way on.
LEMMA StepPath ==
  ASSUME StreamInv, NEW x, NEW y, Way(x, y), plans # <<>>, plans' = Tail(plans),
         UNCHANGED <<setting, clock, restartFold, buffer, hist>>
  PROVE  StreamInv' /\ \E z : Booked(setting, hist, x, Head(plans), z) /\ Way(z, y)'
<1>1. /\ setting \in Settings /\ hist \in Streams(setting) /\ Legal(setting, hist)
  BY DEF StreamInv
<1>2. /\ setting' = setting /\ clock' = clock /\ restartFold' = restartFold /\ hist' = hist
      /\ open' = open /\ BufferNow' = BufferNow
  BY DEF buffer, BufferNow
<1>3. /\ Path(setting, hist, x, plans, y) /\ Sound(setting, hist, x)
      /\ y.row = Len(hist) /\ Buffered(setting, hist, Len(hist), y, BufferNow)
  BY DEF Way
<1>4. PICK z : Booked(setting, hist, x, Head(plans), z) /\ Path(setting, hist, z, Tail(plans), y)
  BY <1>3, PathHead
<1>5. Sound(setting, hist, z)
  BY <1>1, <1>3, <1>4, BookedSound
<1>6. Way(z, y)'
  BY <1>2, <1>3, <1>4, <1>5 DEF Way
<1>7. StreamInv'
  BY <1>2 DEF StreamInv
<1> QED BY <1>4, <1>6, <1>7

LEMMA WhichBooked ==
  ASSUME NEW s, NEW h, NEW x, NEW p, NEW z, Booked(s, h, x, p, z)
  PROVE  /\ p.kind = "skip"  => Skips(s, h, x, p, z)
         /\ p.kind = "score" => Scores(s, h, x, p, z)
         /\ p.kind = "learn" => Learns(s, h, x, p, z)
BY DEF Booked, Skips, Scores, Learns

\* The instance a plan finds.
LEMMA EnteredIs ==
  ASSUME IsInst(inst), NEW p
  PROVE  /\ IsInst(Entered(p))
         /\ p.reset => /\ Entered(p).decayTime = 0 /\ Entered(p).held = 0
                       /\ Entered(p).records = <<>> /\ Entered(p).fit = FALSE
                       /\ Entered(p).lagged = FALSE /\ Entered(p).newest = <<>>
                       /\ Entered(p).restarted = (p.kind # "skip")
         /\ ~p.reset => Entered(p) = inst
BY DEF IsInst, Entered, Fresh

LEMMA SkipInv ==
  ASSUME StreamInv, NEW x, NEW y, Way(x, y), AtLedger(x), IsInst(inst), StepSkip
  PROVE  StreamInv' /\ IsInst(inst)'
         /\ \E z : /\ Skips(setting, hist, x, Head(plans), z) /\ Way(z, y)' /\ AtLedger(z)'
<1>1. /\ plans # <<>> /\ Head(plans).kind = "skip" /\ inst' = Entered(Head(plans))
      /\ epoch' = (IF Head(plans).reset THEN Head(plans).id ELSE epoch)
      /\ read' = Nothing /\ plans' = Tail(plans) /\ learnt' = learnt
      /\ UNCHANGED <<setting, clock, restartFold, buffer, hist>>
  BY DEF StepSkip
<1>2. StreamInv' /\ \E z : Booked(setting, hist, x, Head(plans), z) /\ Way(z, y)'
  BY <1>1, StepPath
<1>3. PICK z : Booked(setting, hist, x, Head(plans), z) /\ Way(z, y)'
  BY <1>2
<1> DEFINE p == Head(plans)
           k == x.row + 1
<1>4. Skips(setting, hist, x, p, z)
  BY <1>1, <1>3, WhichBooked
<1>5. setting \in Settings /\ hist \in Streams(setting) /\ Sound(setting, hist, x)
      /\ Ledger(hist, x)
  BY DEF StreamInv, Way, Sound
<1>6. /\ learnt = x.learnt /\ inst.records = x.queue /\ epoch = EpochAt(setting, hist, x.row)
  BY DEF AtLedger
<1>0. k = x.row + 1 /\ Ledger(hist, x)
  BY <1>5
<1> HIDE DEF p, k
<1>7. /\ k \in 1 .. Len(hist) /\ p.id = k /\ p.reset = ResetAt(setting, hist, k)
      /\ z.queue = (IF ResetAt(setting, hist, k) THEN <<>> ELSE x.queue)
      /\ z.learnt = x.learnt /\ z.row = k
  <2>1. SkippedTo(setting, hist, x, k, p, z)
    BY ONLY <1>0, <1>4, SkipFields
  <2> QED BY ONLY <2>1 DEF SkippedTo
<1>8. k - 1 = x.row
  BY <1>5 DEF k, Ledger
<1>9. EpochAt(setting, hist, k) = IF ResetAt(setting, hist, k) THEN k ELSE EpochAt(setting, hist, x.row)
  BY <1>5, <1>7, <1>8, MarkNext
<1>10. epoch' = EpochAt(setting, hist, z.row)
  BY <1>1, <1>6, <1>7, <1>9 DEF p
<1>11. inst'.records = z.queue
  BY <1>1, <1>6, <1>7, EnteredIs DEF p
<1>12. IsInst(inst)'
  BY <1>1, EnteredIs DEF IsInst
<1>13. read'.what = "nothing"
  BY <1>1 DEF Nothing
<1>14. AtLedger(z)'
  BY <1>1, <1>6, <1>7, <1>10, <1>11, <1>13 DEF AtLedger
<1> QED BY <1>2, <1>3, <1>4, <1>12, <1>14 DEF p

\* What a row scored leaves in the instance.
ScoredInst(i, p) ==
  [i EXCEPT !.held = IF HoldsClock THEN @ + p.d ELSE @, !.records = Record(@, p)]
LEMMA ScoredInstIs ==
  ASSUME NEW i, IsInst(i), NEW p
  PROVE  LET j == ScoredInst(i, p)
         IN  /\ IsInst(j) /\ j.decayTime = i.decayTime /\ j.restarted = i.restarted
             /\ j.held = (IF HoldsClock THEN i.held + p.d ELSE i.held)
             /\ j.records = Record(i.records, p) /\ j.fit = i.fit /\ j.lagged = i.lagged
             /\ j.newest = i.newest
<1> DEFINE a == IF HoldsClock THEN i.held + p.d ELSE i.held
           b == Record(i.records, p)
           j == ScoredInst(i, p)
<1>1. j = [i EXCEPT !.held = a, !.records = b]
  BY DEF ScoredInst
<1> HIDE DEF a, b, j
<1>2. j = [decayTime |-> i.decayTime, restarted |-> i.restarted, held |-> a,
           records |-> b, fit |-> i.fit, lagged |-> i.lagged, newest |-> i.newest]
  BY <1>1 DEF IsInst
<1>3. /\ IsInst(j) /\ j.decayTime = i.decayTime /\ j.restarted = i.restarted
      /\ j.held = a /\ j.records = b /\ j.fit = i.fit /\ j.lagged = i.lagged
      /\ j.newest = i.newest
  BY <1>2 DEF IsInst
<1> QED BY <1>3 DEF a, b, j

LEMMA ScoreInv ==
  ASSUME StreamInv, NEW x, NEW y, Way(x, y), AtLedger(x), IsInst(inst), StepScore
  PROVE  StreamInv' /\ IsInst(inst)'
         /\ \E z : /\ Scores(setting, hist, x, Head(plans), z) /\ Way(z, y)' /\ AtLedger(z)'
<1> DEFINE p == Head(plans)
           i == Entered(p)
           k == x.row + 1
<1>1. /\ plans # <<>> /\ p.kind = "score" /\ inst' = ScoredInst(i, p)
      /\ epoch' = (IF p.reset THEN p.id ELSE epoch)
      /\ plans' = Tail(plans) /\ learnt' = learnt
      /\ UNCHANGED <<setting, clock, restartFold, buffer, hist>>
  BY DEF StepScore, ScoredInst
<1>2. read'.what = "scored" /\ read'.id = p.id
  BY DEF StepScore, Nothing
<1>3. StreamInv' /\ \E z : Booked(setting, hist, x, Head(plans), z) /\ Way(z, y)'
  BY <1>1, StepPath
<1>4. PICK z : Booked(setting, hist, x, Head(plans), z) /\ Way(z, y)'
  BY <1>3
<1>5. Scores(setting, hist, x, p, z)
  BY <1>1, <1>4, WhichBooked
<1>6. setting \in Settings /\ hist \in Streams(setting) /\ Sound(setting, hist, x)
      /\ Ledger(hist, x)
  BY DEF StreamInv, Way, Sound
<1>7. /\ learnt = x.learnt /\ inst.records = x.queue /\ epoch = EpochAt(setting, hist, x.row)
  BY DEF AtLedger
<1>8. IsInst(i) /\ i.records = IF p.reset THEN <<>> ELSE inst.records
  BY EnteredIs
<1>0. k = x.row + 1 /\ Ledger(hist, x)
  BY <1>6
<1> HIDE DEF p, i, k
<1>9. /\ k \in 1 .. Len(hist) /\ hist[k].accept /\ p.id = k /\ p.reset = ResetAt(setting, hist, k)
      /\ z.queue = Record(IF ResetAt(setting, hist, k) THEN <<>> ELSE x.queue, p)
      /\ z.learnt = x.learnt /\ z.row = k /\ z.now = k
  <2>1. ScoredTo(setting, hist, x, k, p, z)
    BY ONLY <1>0, <1>5, ScoreFields
  <2> QED BY ONLY <2>1 DEF ScoredTo
<1>10. k - 1 = x.row /\ k > 0 /\ x.learnt \in Seq(1 .. x.row)
  BY <1>6, <1>9 DEF k, Ledger
<1>11. EpochAt(setting, hist, k) = IF ResetAt(setting, hist, k) THEN k ELSE EpochAt(setting, hist, x.row)
  BY <1>6, <1>9, <1>10, MarkNext
<1>12. epoch' = EpochAt(setting, hist, z.row)
  BY <1>1, <1>7, <1>9, <1>11
<1>13. IsInst(inst)' /\ inst'.records = Record(i.records, p)
  BY <1>1, <1>8, ScoredInstIs DEF IsInst
<1>14. inst'.records = z.queue
  BY <1>7, <1>8, <1>9, <1>13
<1>15. learnt' \in Seq(1 .. z.row - 1)
  BY <1>1, <1>7, <1>9, <1>10
<1>16. AtLedger(z)'
  BY <1>1, <1>2, <1>7, <1>9, <1>10, <1>12, <1>14, <1>15 DEF AtLedger
<1> QED BY <1>3, <1>4, <1>5, <1>13, <1>16 DEF p

\* What a row learned leaves in it, and what a drift it trips leaves of that.
LearnedInst(i, p, d) ==
  [i EXCEPT !.decayTime = @ + d, !.restarted = FALSE,
            !.held = IF HoldsClock THEN @ - p.d ELSE @,
            !.records = Tail(@), !.fit = TRUE, !.lagged = TRUE,
            !.newest = IF hist[p.id].w > 0 THEN <<hist[p.id].at>> ELSE @]
LEMMA LearnedInstIs ==
  ASSUME NEW i, IsInst(i), NEW p, NEW d
  PROVE  LET j == LearnedInst(i, p, d)
         IN  /\ IsInst(j) /\ j.decayTime = i.decayTime + d /\ j.restarted = FALSE
             /\ j.held = (IF HoldsClock THEN i.held - p.d ELSE i.held)
             /\ j.records = Tail(i.records) /\ j.fit = TRUE /\ j.lagged = TRUE
             /\ j.newest = (IF hist[p.id].w > 0 THEN <<hist[p.id].at>> ELSE i.newest)
<1> DEFINE a == IF HoldsClock THEN i.held - p.d ELSE i.held
           b == Tail(i.records)
           c == IF hist[p.id].w > 0 THEN <<hist[p.id].at>> ELSE i.newest
           e == i.decayTime + d
           j == LearnedInst(i, p, d)
<1>1. j = [i EXCEPT !.decayTime = e, !.restarted = FALSE, !.held = a, !.records = b,
                    !.fit = TRUE, !.lagged = TRUE, !.newest = c]
  BY DEF LearnedInst
<1> HIDE DEF a, b, c, e, j
<1>2. j = [decayTime |-> e, restarted |-> FALSE, held |-> a,
           records |-> b, fit |-> TRUE, lagged |-> TRUE, newest |-> c]
  BY <1>1 DEF IsInst
<1>3. /\ IsInst(j) /\ j.decayTime = e /\ j.restarted = FALSE
      /\ j.held = a /\ j.records = b /\ j.fit = TRUE /\ j.lagged = TRUE
      /\ j.newest = c
  BY <1>2 DEF IsInst
<1> QED BY <1>3 DEF a, b, c, e, j

LEMMA ResetIs ==
  ASSUME NEW i
  PROVE  LET j == Reset(i)
         IN  /\ IsInst(j) /\ j.decayTime = 0 /\ j.restarted = TRUE /\ j.held = i.held
             /\ j.records = i.records /\ j.fit = FALSE /\ j.lagged = FALSE /\ j.newest = <<>>
<1> DEFINE j == Reset(i)
           a == i.held
           b == i.records
<1>0. j = [Fresh EXCEPT !.restarted = TRUE, !.held = a, !.records = b]
  BY DEF Reset, ResetHeld
<1> HIDE DEF a, b, j
<1>1. j = [decayTime |-> 0, restarted |-> TRUE, held |-> a, records |-> b,
           fit |-> FALSE, lagged |-> FALSE, newest |-> <<>>]
  BY <1>0 DEF Fresh
<1>2. /\ IsInst(j) /\ j.decayTime = 0 /\ j.restarted = TRUE /\ j.held = a
      /\ j.records = b /\ j.fit = FALSE /\ j.lagged = FALSE /\ j.newest = <<>>
  BY <1>1 DEF IsInst
<1> QED BY <1>2 DEF a, b, j

LEMMA LearnInv ==
  ASSUME StreamInv, NEW x, NEW y, Way(x, y), AtLedger(x), IsInst(inst), StepLearn
  PROVE  StreamInv' /\ IsInst(inst)'
         /\ \E z : /\ Learns(setting, hist, x, Head(plans), z) /\ Way(z, y)' /\ AtLedger(z)'
<1> DEFINE p == Head(plans)
           d == StepRead(inst, p)
           i == LearnedInst(inst, p, d)
<1>1. /\ plans # <<>> /\ p.kind = "learn" /\ (inst' = i \/ inst' = Reset(i))
      /\ epoch' = epoch /\ plans' = Tail(plans) /\ learnt' = Append(learnt, p.id)
      /\ UNCHANGED <<setting, clock, restartFold, buffer, hist>>
  BY DEF StepLearn, LearnedInst
<1>2. read'.what = "learned" /\ read'.id = p.id /\ read'.record = Head(inst.records)
  BY DEF StepLearn, Nothing
<1>3. StreamInv' /\ \E z : Booked(setting, hist, x, Head(plans), z) /\ Way(z, y)'
  BY <1>1, StepPath
<1>4. PICK z : Booked(setting, hist, x, Head(plans), z) /\ Way(z, y)'
  BY <1>3
<1>5. Learns(setting, hist, x, p, z)
  BY <1>1, <1>4, WhichBooked
<1>6. setting \in Settings /\ hist \in Streams(setting) /\ Sound(setting, hist, x)
      /\ Ledger(hist, x)
  BY DEF StreamInv, Way, Sound
<1>7. /\ learnt = x.learnt /\ inst.records = x.queue /\ epoch = EpochAt(setting, hist, x.row)
  BY DEF AtLedger
<1>8. IsInst(i) /\ i.records = Tail(inst.records)
  <2> HIDE DEF d
  <2>1. /\ IsInst(LearnedInst(inst, p, d))
        /\ LearnedInst(inst, p, d).records = Tail(inst.records)
    BY LearnedInstIs
  <2> QED BY <2>1
<1>0. Ledger(hist, x)
  BY <1>6
<1> HIDE DEF p, d, i
<1>9. /\ p.id = x.queue[1] /\ z.queue = Tail(x.queue) /\ z.row = x.row
      /\ z.learnt = Append(x.learnt, x.queue[1])
  <2>1. LearnedTo(setting, hist, x, p, z)
    BY ONLY <1>0, <1>5, LearnFields
  <2> QED BY ONLY <2>1 DEF LearnedTo
<1>10. IsInst(inst)' /\ inst'.records = Tail(x.queue)
  BY <1>1, <1>7, <1>8, ResetIs DEF IsInst
<1>11. read'.record = read'.id
  <2>1. x.queue \in Seq(1 .. x.row)
    BY <1>0 DEF Ledger
  <2>2. Head(x.queue) = x.queue[1]
    BY <2>1, HeadTailProperties
  <2> QED BY <1>2, <1>7, <1>9, <2>2
<1>12. read'.what # "scored"
  BY <1>2
<1>13. AtLedger(z)'
  BY <1>1, <1>7, <1>9, <1>10, <1>11, <1>12 DEF AtLedger
<1> QED BY <1>3, <1>4, <1>5, <1>10, <1>13 DEF p


-----------------------------------------------------------------------------
(* Sums over rows.                                                         *)

\* R is a running sum of the terms.
SumsTo(from, to, term, R) ==
  /\ \A i \in from - 1 .. to : R[i] \in Int
  /\ \A i \in from .. to : term[i] \in Int /\ R[i] = R[i - 1] + term[i]

LEMMA SumIs ==
  ASSUME NEW from \in Int, NEW to \in Int, from - 1 <= to, NEW term, NEW R,
         SumsTo(from, to, term, R)
  PROVE  Sum(from, to, term) = R[to] - R[from - 1]
<1> DEFINE E(g) == [i \in (from - 1) .. to |-> IF i < from THEN 0 ELSE g[i - 1] + term[i]]
           q == [i \in (from - 1) .. to |-> R[i] - R[from - 1]]
           sum == CHOOSE g : g = E(g)
<1>1. from - 1 \in from - 1 .. to /\ to \in from - 1 .. to
  OBVIOUS
<1>0. /\ \A i \in from - 1 .. to : R[i] \in Int
      /\ \A i \in from .. to : term[i] \in Int /\ R[i] = R[i - 1] + term[i]
  BY DEF SumsTo
<1>2. ASSUME NEW i \in from - 1 .. to
      PROVE  q[i] = IF i < from THEN 0 ELSE q[i - 1] + term[i]
  <2>1. q[i] = R[i] - R[from - 1] /\ R[i] \in Int /\ R[from - 1] \in Int
    BY <1>0, <1>1
  <2>2. CASE i < from
    <3>1. i = from - 1
      BY <2>2
    <3> QED BY <2>1, <2>2, <3>1
  <2>3. CASE ~(i < from)
    <3>1. i \in from .. to /\ i - 1 \in from - 1 .. to
      BY <2>3
    <3>2. q[i - 1] = R[i - 1] - R[from - 1]
      BY <3>1
    <3>3. R[i] = R[i - 1] + term[i] /\ R[i - 1] \in Int /\ term[i] \in Int
      BY <1>0, <3>1
    <3> QED BY <2>1, <2>3, <3>2, <3>3
  <2> QED BY <2>2, <2>3
<1>3. q = E(q)
  <2>1. q = [i \in (from - 1) .. to |-> q[i]]
    OBVIOUS
  <2> HIDE DEF q
  <2> QED BY <1>2, <2>1
<1>4. sum = E(sum)
  <2> HIDE DEF E, q
  <2> QED BY <1>3
<1>5. Sum(from, to, term) = sum[to]
  BY DEF Sum
<1> HIDE DEF sum, q
<1>6. ASSUME NEW i \in from - 1 .. to
      PROVE  sum[i] = IF i < from THEN 0 ELSE sum[i - 1] + term[i]
  BY <1>4
<1> DEFINE T == {i \in from - 1 .. to : sum[i] = R[i] - R[from - 1]}
<1>7. from - 1 \in T
  <2>1. sum[from - 1] = 0 /\ R[from - 1] \in Int
    BY <1>0, <1>1, <1>6
  <2>2. R[from - 1] - R[from - 1] = 0
    BY <2>1
  <2> QED BY <1>1, <2>1, <2>2
<1>8. ASSUME NEW i \in (from - 1) + 1 .. to, i - 1 \in T PROVE i \in T
  <2>1. i \in from .. to /\ i \in from - 1 .. to /\ i - 1 \in from - 1 .. to /\ ~(i < from)
    OBVIOUS
  <2>2. sum[i] = sum[i - 1] + term[i]
    BY <1>6, <2>1
  <2>3. sum[i - 1] = R[i - 1] - R[from - 1]
    BY <1>8
  <2>4. R[i] = R[i - 1] + term[i] /\ R[i - 1] \in Int /\ term[i] \in Int /\ R[from - 1] \in Int
    BY <1>0, <1>1, <2>1
  <2>5. sum[i] = R[i] - R[from - 1]
    BY <2>2, <2>3, <2>4
  <2> QED BY <2>1, <2>5
<1>9. to \in T
  <2>1. from - 1 .. to \subseteq T
    <3> HIDE DEF T
    <3> QED BY <1>7, <1>8, Along
  <2> HIDE DEF T
  <2> QED BY <1>1, <2>1
<1> QED BY <1>5, <1>9

\* Under a label clock the time is what the clock column says, since it last
\* started over, and the steps say as much, up to the cap.
LEMMA LabPair ==
  ASSUME NEW s \in Settings, NEW h \in Streams(s), Legal(s, h), Lab(s),
         NEW j \in 2 .. Len(h), ~ResetAt(s, h, j)
  PROVE  /\ h[j].at \in Int /\ h[j - 1].at \in Int /\ h[j - 1].at <= h[j].at
         /\ PassedAt(s, h, j) = h[j].at - h[j - 1].at
         /\ StepAt(s, h, j) = Lesser(h[j].at - h[j - 1].at, s.clk.cap)
         /\ PastCapAt(s, h, j) <=> h[j].at - h[j - 1].at > s.clk.cap
         /\ ~ChangedAt(h, j)
<1>1. j \in 1 .. Len(h) /\ j - 1 \in 1 .. Len(h) /\ j > 1
  BY RowIs
<1>2. /\ h[j] \in s.rows /\ h[j - 1] \in s.rows /\ h[j].at \in Int /\ h[j - 1].at \in Int
      /\ h[j].session \in Nat /\ h[j - 1].session \in Nat
  BY <1>1, RowIs
<1>3. s.clk.column /\ s.clk.gap = "none" /\ s.clk.cap \in Nat
      /\ \A r \in s.rows : r.session # 0 <=> s.clk.gap # "none"
  BY SettingIs
<1>4. h[j].session = 0 /\ h[j - 1].session = 0
  BY <1>2, <1>3
<1>5. ~NewSession(h[j - 1], h[j]) /\ ~ChangedAt(h, j)
  BY <1>4 DEF NewSession, ChangedAt
<1>6. h[j - 1].at <= h[j].at
  <2>1. StepsOn(s, h, j)
    BY <1>1 DEF Legal
  <2> QED BY <1>1, <1>3, <1>5, <2>1 DEF StepsOn
<1>7. RawTo(s, h[j - 1], h[j]) = h[j].at - h[j - 1].at
  BY <1>3 DEF RawTo
<1> DEFINE a == h[j - 1]
           b == h[j]
           raw == b.at - a.at
<1>8. raw \in Int /\ raw >= 0 /\ RawTo(s, a, b) = raw
  BY <1>2, <1>6, <1>7
<1>9. ~ResetTo(s, a, b) /\ ~GapTo(s, a, b)
  <2>1. ~ResetTo(s, a, b)
    BY <1>1 DEF ResetAt
  <2> QED BY <1>5, <2>1 DEF GapTo
<1> HIDE DEF a, b, raw
<1>10. ~BackTo(s, a, b)
  BY <1>8 DEF BackTo
<1>11. /\ PassedTo(s, a, b) = raw /\ StepTo(s, a, b) = Lesser(raw, s.clk.cap)
       /\ PastCap(s, a, b) <=> raw > s.clk.cap
  BY <1>3, <1>8, <1>9, <1>10 DEF PassedTo, StepTo, PastCap, Capped
<1>12. /\ PassedAt(s, h, j) = raw /\ StepAt(s, h, j) = Lesser(raw, s.clk.cap)
       /\ PastCapAt(s, h, j) <=> raw > s.clk.cap
  BY <1>1, <1>11 DEF PassedAt, StepAt, PastCapAt, a, b
<1> QED BY <1>2, <1>5, <1>6, <1>12 DEF a, b, raw

LEMMA LabTime ==
  ASSUME NEW s \in Settings, NEW h \in Streams(s), Legal(s, h), Lab(s),
         NEW n \in 1 .. Len(h), NEW k \in EpochAt(s, h, n) .. n
  PROVE  Time(s, h, n) - Time(s, h, k) = h[n].at - h[k].at
<1>1. n \in 0 .. Len(h) /\ Len(h) \in Nat /\ n >= 1
  BY RowIs
<1>2. /\ EpochAt(s, h, n) \in 1 .. n
      /\ \A j \in EpochAt(s, h, n) + 1 .. n : ~ResetAt(s, h, j)
  BY <1>1, EpochIs
<1>3. k \in 1 .. n /\ k \in Int /\ n \in Int
  BY <1>2
<1> DEFINE T == {m \in k .. n : Time(s, h, m) - Time(s, h, k) = h[m].at - h[k].at}
<1>4. k \in T
  <2>1. k \in 1 .. Len(h) /\ k \in 0 .. Len(h) /\ k \in k .. n
    BY <1>1, <1>3
  <2>2. Time(s, h, k) \in Nat /\ h[k].at \in Int
    BY <2>1, MarkIs, RowIs
  <2>3. Time(s, h, k) - Time(s, h, k) = h[k].at - h[k].at
    BY <2>2
  <2> QED BY <2>1, <2>3
<1>5. ASSUME NEW m \in k + 1 .. n, m - 1 \in T PROVE m \in T
  <2>1. /\ m \in 2 .. Len(h) /\ m \in 1 .. Len(h) /\ m - 1 \in 0 .. Len(h) /\ m \in 0 .. Len(h)
        /\ k \in 0 .. Len(h) /\ m \in EpochAt(s, h, n) + 1 .. n /\ m \in k .. n
        /\ k \in 1 .. Len(h)
    BY <1>1, <1>2, <1>3
  <2>2. ~ResetAt(s, h, m)
    BY <1>2, <2>1
  <2>3. PassedAt(s, h, m) = h[m].at - h[m - 1].at /\ h[m].at \in Int /\ h[m - 1].at \in Int
    BY <2>1, <2>2, LabPair
  <2>4. Time(s, h, m) = Time(s, h, m - 1) + PassedAt(s, h, m)
    BY <2>1, MarkNext
  <2>5. Time(s, h, m - 1) \in Nat /\ Time(s, h, k) \in Nat /\ h[k].at \in Int
    BY <2>1, MarkIs, RowIs
  <2>6. Time(s, h, m - 1) - Time(s, h, k) = h[m - 1].at - h[k].at
    BY <1>5
  <2> DEFINE x == Time(s, h, m)
             y == Time(s, h, m - 1)
             z == Time(s, h, k)
             a == h[m].at
             b == h[m - 1].at
             c == h[k].at
  <2>7. x = y + (a - b) /\ y \in Int /\ z \in Int /\ a \in Int /\ b \in Int /\ c \in Int
        /\ y - z = b - c
    BY <2>3, <2>4, <2>5, <2>6
  <2> HIDE DEF x, y, z, a, b, c
  <2>8. x - z = a - c
    BY <2>7
  <2> QED BY <2>1, <2>8 DEF x, z, a, c
<1>6. n \in T
  <2>1. k .. n \subseteq T
    <3> HIDE DEF T
    <3> QED BY <1>3, <1>4, <1>5, Along
  <2>2. n \in k .. n
    BY <1>3
  <2> HIDE DEF T
  <2> QED BY <2>1, <2>2
<1> QED BY <1>6

\* What a stream that learned each row where it stood would say of the time and
\* of the windows.
LEMMA ElapsedIs ==
  ASSUME setting \in Settings, hist \in Streams(setting), NEW n \in 1 .. Len(hist),
         epoch = EpochAt(setting, hist, n), NEW k \in epoch .. n
  PROVE  ElapsedFrom(k, n) = Time(setting, hist, n) - Time(setting, hist, k)
<1>1. n \in 0 .. Len(hist) /\ Len(hist) \in Nat /\ n >= 1
  BY RowIs
<1>2. /\ epoch \in 1 .. n
      /\ \A j \in epoch + 1 .. n : ~ResetAt(setting, hist, j)
  BY <1>1, EpochIs
<1>3. k \in 1 .. n /\ k \in Int /\ n \in Int /\ epoch \in 1 .. Len(hist) /\ n \in epoch .. Len(hist)
      /\ epoch \in Int
  BY <1>1, <1>2
<1> DEFINE run == Bank(epoch, n, epoch .. n)
           term == [i \in epoch .. n |-> C!Elapsed(run[i - 1].clock, hist[i])]
           R == [i \in 0 .. Len(hist) |-> Time(setting, hist, i)]
<1>4. \A i \in epoch .. n :
        BankAt(setting, hist, epoch, epoch .. n, i, run[i - 1], run[i])
  <2> HIDE DEF run
  <2> QED BY <1>2, <1>3, BankIs DEF run
<1>5. ASSUME NEW i \in k + 1 .. n
      PROVE  term[i] \in Int /\ R[i] = R[i - 1] + term[i]
  <2>1. i \in epoch .. n /\ i > epoch /\ i \in 1 .. Len(hist) /\ i \in 0 .. Len(hist)
        /\ i - 1 \in 0 .. Len(hist)
    BY <1>1, <1>2, <1>3
  <2>2. term[i] = C!Elapsed(run[i - 1].clock, hist[i])
    BY <2>1
  <2>3. C!Elapsed(run[i - 1].clock, hist[i]) = PassedAt(setting, hist, i)
    <3> HIDE DEF run
    <3> QED BY <1>4, <2>1 DEF BankAt
  <2>4. PassedAt(setting, hist, i) \in Nat
    BY <2>1, PlaceIs
  <2>5. Time(setting, hist, i) = Time(setting, hist, i - 1) + PassedAt(setting, hist, i)
    BY <2>1, MarkNext
  <2>6. R[i] = Time(setting, hist, i) /\ R[i - 1] = Time(setting, hist, i - 1)
    BY <2>1
  <2> HIDE DEF term, R
  <2> QED BY <2>2, <2>3, <2>4, <2>5, <2>6
<1>6. ASSUME NEW i \in k .. n PROVE R[i] \in Int
  <2>1. i \in 0 .. Len(hist)
    BY <1>1, <1>3
  <2> QED BY <2>1, MarkIs
<1>7. k \in 0 .. Len(hist) /\ R[k] = Time(setting, hist, k) /\ R[n] = Time(setting, hist, n)
  BY <1>1, <1>3
<1>8. ElapsedFrom(k, n) = Sum(k + 1, n, term)
  BY DEF ElapsedFrom, Undelayed
<1> HIDE DEF R, term
<1>9. Sum(k + 1, n, term) = R[n] - R[(k + 1) - 1]
  <2>1. k + 1 \in Int /\ n \in Int /\ (k + 1) - 1 <= n /\ (k + 1) - 1 = k
    BY <1>3
  <2>2. \A i \in (k + 1) - 1 .. n : R[i] \in Int
    BY <1>6, <2>1
  <2>3. \A i \in k + 1 .. n : term[i] \in Int /\ R[i] = R[i - 1] + term[i]
    BY <1>5
  <2>4. SumsTo(k + 1, n, term, R)
    BY ONLY <2>2, <2>3 DEF SumsTo
  <2> QED BY ONLY <2>1, <2>4, SumIs
<1>10. (k + 1) - 1 = k
  BY <1>3
<1> QED BY <1>7, <1>8, <1>9, <1>10

LEMMA ClosedByIs ==
  ASSUME setting \in Settings, hist \in Streams(setting), NEW n \in 1 .. Len(hist),
         epoch = EpochAt(setting, hist, n), NEW k \in epoch .. n
  PROVE  ClosedBy(k, n) <=>
           (Frm(setting) => Rank(setting, hist, k, n) <= Closed(setting, hist, n))
<1>1. n \in 0 .. Len(hist) /\ Len(hist) \in Nat /\ n >= 1
  BY RowIs
<1>2. epoch \in 1 .. n
  BY <1>1, EpochIs
<1>3. k \in 1 .. n /\ k \in Int /\ n \in Int /\ epoch \in 1 .. Len(hist) + 1
      /\ epoch \in Int /\ k \in epoch - 1 .. Len(hist) /\ n # 0
  BY <1>1, <1>2
<1> DEFINE term == [i \in epoch .. n |-> IF i = epoch THEN 0 ELSE hist[i].closes]
           R == [i \in 0 .. Len(hist) |-> IF i < epoch THEN Shut(setting, hist, epoch)
                                          ELSE Shut(setting, hist, i)]
<1>4. epoch \in 0 .. Len(hist) /\ epoch - 1 \in 0 .. Len(hist) /\ epoch - 1 < epoch
      /\ ~(n < epoch)
  BY <1>1, <1>2, <1>3
<1>5. ASSUME NEW i \in epoch .. n
      PROVE  term[i] \in Int /\ R[i] = R[i - 1] + term[i]
  <2>1. i \in 1 .. Len(hist) /\ i \in 0 .. Len(hist) /\ i - 1 \in 0 .. Len(hist) /\ ~(i < epoch)
    BY <1>1, <1>2
  <2>2. hist[i].closes \in Nat /\ Shut(setting, hist, i) = Shut(setting, hist, i - 1) + hist[i].closes
    BY <2>1, RowIs, MarkNext
  <2>3. R[i] = Shut(setting, hist, i) /\ Shut(setting, hist, i) \in Nat
    BY <2>1, MarkIs
  <2>4. CASE i = epoch
    <3>1. term[i] = 0 /\ R[i - 1] = Shut(setting, hist, epoch)
      BY <1>4, <2>1, <2>4
    <3> HIDE DEF term, R
    <3> QED BY <2>3, <2>4, <3>1
  <2>5. CASE i # epoch
    <3>1. ~(i - 1 < epoch)
      BY <1>3, <2>1, <2>5
    <3>2. term[i] = hist[i].closes /\ R[i - 1] = Shut(setting, hist, i - 1)
      BY <2>1, <2>5, <3>1
    <3> HIDE DEF term, R
    <3> QED BY <2>2, <2>3, <3>2
  <2> QED BY <2>4, <2>5
<1>6. ASSUME NEW i \in epoch - 1 .. n PROVE R[i] \in Int
  <2>1. i \in 0 .. Len(hist)
    BY <1>1, <1>3, <1>4
  <2>2. Shut(setting, hist, i) \in Nat /\ Shut(setting, hist, epoch) \in Nat
    BY <1>4, <2>1, MarkIs
  <2>3. R[i] = IF i < epoch THEN Shut(setting, hist, epoch) ELSE Shut(setting, hist, i)
    BY <2>1
  <2> HIDE DEF R
  <2> QED BY <2>2, <2>3
<1>7. R[n] = Shut(setting, hist, n) /\ R[epoch - 1] = Shut(setting, hist, epoch)
  BY <1>1, <1>4
<1>8. ClosedBy(k, n) <=> (Formulas => Sum(epoch, n, term) >= Cardinality(Accepted(epoch, k)))
  BY DEF ClosedBy
<1> HIDE DEF R, term
<1>9. Sum(epoch, n, term) = R[n] - R[epoch - 1]
  <2>1. epoch \in Int /\ n \in Int /\ epoch - 1 <= n
    BY <1>2, <1>3
  <2>2. \A i \in epoch - 1 .. n : R[i] \in Int
    BY <1>6
  <2>3. \A i \in epoch .. n : term[i] \in Int /\ R[i] = R[i - 1] + term[i]
    BY <1>5
  <2>4. SumsTo(epoch, n, term, R)
    BY ONLY <2>2, <2>3 DEF SumsTo
  <2> QED BY ONLY <2>1, <2>4, SumIs
<1>10. Sum(epoch, n, term) = Closed(setting, hist, n)
  BY <1>3, <1>7, <1>9 DEF Closed
<1>11. Cardinality(Accepted(epoch, k)) = Rank(setting, hist, k, n)
  <2>1. Cardinality({i \in epoch .. k : hist[i].accept})
          = Count(setting, hist, k) - Count(setting, hist, epoch - 1)
    BY <1>3, CountIs
  <2> QED BY <2>1 DEF Accepted, Rank
<1>12. Rank(setting, hist, k, n) \in Int /\ Closed(setting, hist, n) \in Int
  <2>1. k \in 0 .. Len(hist) /\ Count(setting, hist, k) \in Nat /\ Count(setting, hist, epoch - 1) \in Nat
    BY <1>1, <1>3, <1>4, MarkIs
  <2>2. Closed(setting, hist, n) \in Nat
    BY RanksOf
  <2> QED BY <2>1, <2>2 DEF Rank
<1>13. (Closed(setting, hist, n) >= Rank(setting, hist, k, n))
         <=> (Rank(setting, hist, k, n) <= Closed(setting, hist, n))
  BY <1>12
<1>14. Formulas <=> Frm(setting)
  BY DEF Formulas, Frm
<1> QED BY <1>8, <1>10, <1>11, <1>13, <1>14


-----------------------------------------------------------------------------
(* The theorems about the rows.                                            *)

Booking == StreamInv /\ IsInst(inst) /\ \E x, y : Way(x, y) /\ AtLedger(x)

LEMMA BookingInit ==
  ASSUME Init
  PROVE  Booking
BY InitInv DEF Booking

LEMMA BookingStill ==
  ASSUME Booking, UNCHANGED vars
  PROVE  Booking'
<1>1. /\ setting' = setting /\ clock' = clock /\ restartFold' = restartFold /\ hist' = hist
      /\ open' = open /\ BufferNow' = BufferNow /\ plans' = plans /\ inst' = inst
      /\ read' = read /\ epoch' = epoch /\ learnt' = learnt
  BY DEF vars, buffer, model, BufferNow
<1>2. StreamInv'
  BY <1>1 DEF Booking, StreamInv
<1>3. IsInst(inst)'
  BY <1>1 DEF Booking, IsInst
<1>4. PICK x, y : Way(x, y) /\ AtLedger(x)
  BY DEF Booking
<1>5. Way(x, y)' /\ AtLedger(x)'
  BY <1>1, <1>4 DEF Way, AtLedger
<1> QED BY <1>2, <1>3, <1>5 DEF Booking

LEMMA BookingNext ==
  ASSUME Booking, Next
  PROVE  Booking'
<1>1. StreamInv /\ IsInst(inst)
  BY DEF Booking
<1>2. PICK x, y : Way(x, y) /\ AtLedger(x)
  BY DEF Booking
<1>3. CASE Feed
  <2>1. StreamInv' /\ (\E z : Way(x, z)') /\ AtLedger(x)'
    BY <1>1, <1>2, <1>3, FeedInv
  <2>2. IsInst(inst)'
    BY <1>1, <1>3 DEF Feed, model, IsInst
  <2> QED BY <2>1, <2>2 DEF Booking
<1>4. CASE StepSkip
  <2>1. StreamInv' /\ IsInst(inst)' /\ \E z : Way(z, y)' /\ AtLedger(z)'
    BY <1>1, <1>2, <1>4, SkipInv
  <2> QED BY <2>1 DEF Booking
<1>5. CASE StepScore
  <2>1. StreamInv' /\ IsInst(inst)' /\ \E z : Way(z, y)' /\ AtLedger(z)'
    BY <1>1, <1>2, <1>5, ScoreInv
  <2> QED BY <2>1 DEF Booking
<1>6. CASE StepLearn
  <2>1. StreamInv' /\ IsInst(inst)' /\ \E z : Way(z, y)' /\ AtLedger(z)'
    BY <1>1, <1>2, <1>6, LearnInv
  <2> QED BY <2>1 DEF Booking
<1> QED BY <1>3, <1>4, <1>5, <1>6 DEF Next

\* What was fed, held and learned at any time is a ledger of the stream's rows:
\* whatever the cut into chunks, and at whatever row a drift restarts a model.
THEOREM LedgerKept == Spec => []Booking
<1>1. Init => Booking
  BY BookingInit
<1>2. Booking /\ [Next]_vars => Booking'
  BY BookingNext, BookingStill
<1> QED BY <1>1, <1>2, PTL DEF Spec

\* Between chunks the buffer holds the rows of the ledger.
LEMMA AtRest ==
  ASSUME StreamInv, NEW x, NEW y, Way(x, y), plans = <<>>
  PROVE  /\ x.row = Len(hist) /\ Buffered(setting, hist, Len(hist), x, BufferNow)
         /\ Sound(setting, hist, x) /\ x.queue \in Seq(1 .. Len(hist))
         /\ Len(pending) = Len(x.queue) /\ DOMAIN pending = 1 .. Len(x.queue)
         /\ \A i \in 1 .. Len(x.queue) :
              /\ pending[i] = HeldOf(setting, hist, Len(hist), x.queue[i])
              /\ pending[i].id = x.queue[i]
<1>1. /\ Path(setting, hist, x, <<>>, y) /\ Sound(setting, hist, x) /\ y.row = Len(hist)
      /\ Buffered(setting, hist, Len(hist), y, BufferNow)
  BY DEF Way
<1>2. y = x
  BY <1>1, PathEnd
<1>3. Sound(setting, hist, x) /\ x.row = Len(hist)
      /\ Buffered(setting, hist, Len(hist), x, BufferNow)
  BY <1>1, <1>2
<1>4. x.queue \in Seq(1 .. Len(hist))
  BY <1>3 DEF Sound, Ledger
<1>5. pending = Pending(setting, hist, Len(hist), x.queue)
  BY <1>3 DEF Buffered, BufferNow
<1>6. /\ Len(pending) = Len(x.queue) /\ DOMAIN pending = 1 .. Len(x.queue)
      /\ \A i \in 1 .. Len(x.queue) : pending[i] = HeldOf(setting, hist, Len(hist), x.queue[i])
  BY <1>4, <1>5, PendingIs
<1>7. \A i \in 1 .. Len(x.queue) : pending[i].id = x.queue[i]
  <2>1. \A k : HeldOf(setting, hist, Len(hist), k).id = k
    BY DEF HeldOf
  <2> QED BY <1>6, <2>1
<1> QED BY <1>3, <1>4, <1>6, <1>7

LEMMA BookedInStep ==
  ASSUME Booking
  PROVE  RecordsInStep
<1>1. StreamInv
  BY DEF Booking
<1>2. PICK x, y : Way(x, y) /\ AtLedger(x)
  BY DEF Booking
<1>3. inst.records = x.queue /\ (read.what = "learned" => read.record = read.id)
  BY <1>2 DEF AtLedger
<1>4. ASSUME plans = <<>> PROVE inst.records = [i \in DOMAIN pending |-> pending[i].id]
  <2>1. /\ x.queue \in Seq(1 .. Len(hist)) /\ DOMAIN pending = 1 .. Len(x.queue)
        /\ \A i \in 1 .. Len(x.queue) : pending[i].id = x.queue[i]
    BY <1>1, <1>2, <1>4, AtRest
  <2>2. x.queue = [i \in 1 .. Len(x.queue) |-> x.queue[i]]
    BY <2>1, SeqIs DEF IsSeq
  <2>3. [i \in DOMAIN pending |-> pending[i].id] = [i \in 1 .. Len(x.queue) |-> x.queue[i]]
    BY <2>1
  <2> QED BY <1>3, <2>2, <2>3
<1> QED BY <1>3, <1>4 DEF RecordsInStep

\* What a row was scored with is found again when it is learned: an instance's
\* records are those of the rows held, in the buffer's order, over the inserts
\* and drops of a label clock, clock resets and drifts (Record, run_instance).
THEOREM RecordsFound == Spec => []RecordsInStep
<1>1. Booking => RecordsInStep
  BY BookedInStep
<1> QED BY <1>1, LedgerKept, PTL

-----------------------------------------------------------------------------
\* A row's lesson, as the definitions of the model name it.
LEMMA LessonIs ==
  ASSUME setting \in Settings, NEW k
  PROVE  /\ Labelled => (Teaches(k) <=> HasLesson(setting, hist[k]))
         /\ ~Labelled => (hist[k].accept <=> HasLesson(setting, hist[k]))
         /\ Labelled <=> Lab(setting)
BY DEF Teaches, HasLesson, Labelled, Lab

LEMMA LearntIs ==
  ASSUME StreamInv, NEW x, NEW y, Way(x, y), AtLedger(x)
  PROVE  /\ learnt = x.learnt /\ learnt \in Seq(1 .. x.row) /\ ToSet(learnt) = Taken(x)
         /\ ToSet(learnt) \subseteq 1 .. x.row /\ x.row \in 0 .. Len(hist)
         /\ epoch = EpochAt(setting, hist, x.row)
<1>1. learnt = x.learnt /\ epoch = EpochAt(setting, hist, x.row)
  BY DEF AtLedger
<1>2. x.learnt \in Seq(1 .. x.row) /\ x.row \in 0 .. Len(hist)
  BY DEF Way, Sound, Ledger
<1>3. DOMAIN learnt = 1 .. Len(learnt)
  BY <1>1, <1>2
<1>4. ToSet(learnt) = Taken(x)
  BY <1>1, <1>3 DEF ToSet, Taken
<1>5. \A i \in 1 .. Len(x.learnt) : x.learnt[i] \in 1 .. x.row
  BY <1>2, ElementOfSeq
<1>6. Taken(x) \subseteq 1 .. x.row
  BY <1>5 DEF Taken
<1> QED BY <1>1, <1>2, <1>4, <1>6

LEMMA BookedAccounted ==
  ASSUME Booking
  PROVE  EachRowAccounted
<1> DEFINE s == setting
           N == Len(hist)
           held == {pending[i].id : i \in DOMAIN pending}
<1>1. StreamInv /\ setting \in Settings /\ hist \in Streams(setting)
  BY DEF Booking, StreamInv
<1>2. PICK x, y : Way(x, y) /\ AtLedger(x)
  BY DEF Booking
<1>3. SUFFICES ASSUME plans = <<>>
      PROVE  IF Labelled
             THEN /\ Cardinality({k \in 1 .. Len(hist) : Teaches(k)})
                       = Len(learnt) + Len(pending) + dropped
                  /\ missing = Cardinality({k \in Accepted(1, Len(hist)) : hist[k].label = NoLabel})
                  /\ setting.maxHeld > 0 => Len(pending) <= setting.maxHeld
                  /\ ~setting.dropOldest =>
                       {k \in epoch .. Len(hist) : Teaches(k)} \subseteq ToSet(learnt) \cup held
             ELSE Accepted(epoch, Len(hist)) = {k \in ToSet(learnt) : k >= epoch} \cup held
  BY DEF EachRowAccounted
<1>4. /\ x.row = N /\ Buffered(s, hist, N, x, BufferNow)
      /\ Sound(s, hist, x) /\ x.queue \in Seq(1 .. N)
      /\ Len(pending) = Len(x.queue) /\ DOMAIN pending = 1 .. Len(x.queue)
      /\ \A i \in 1 .. Len(x.queue) : pending[i].id = x.queue[i]
  BY <1>1, <1>2, <1>3, AtRest
<1>5. held = Held(x)
  BY <1>4 DEF Held
<1>6. /\ learnt = x.learnt /\ ToSet(learnt) = Taken(x) /\ ToSet(learnt) \subseteq 1 .. N
      /\ epoch = EpochAt(s, hist, N)
  BY <1>1, <1>2, <1>4, LearntIs
<1>7. Held(x) \subseteq 1 .. N
  <2>1. \A i \in 1 .. Len(x.queue) : x.queue[i] \in 1 .. N
    BY <1>4, ElementOfSeq
  <2> QED BY <2>1 DEF Held
<1>8. Books(s, hist, x, epoch, N, x.now)
  BY <1>4, <1>6 DEF Sound
<1>9. N \in Nat /\ N \in 0 .. N
  BY <1>1 DEF Streams
<1>10. ASSUME Labelled
       PROVE  /\ Cardinality({k \in 1 .. Len(hist) : Teaches(k)})
                   = Len(learnt) + Len(pending) + dropped
              /\ missing = Cardinality({k \in Accepted(1, Len(hist)) : hist[k].label = NoLabel})
              /\ setting.maxHeld > 0 => Len(pending) <= setting.maxHeld
              /\ ~setting.dropOldest =>
                   {k \in epoch .. Len(hist) : Teaches(k)} \subseteq ToSet(learnt) \cup held
  <2>1. Lab(s)
    BY <1>1, <1>10, LessonIs
  <2>2. {k \in 1 .. Len(hist) : Teaches(k)} = {k \in 1 .. N : HasLesson(s, hist[k])}
    BY <1>1, <1>10, LessonIs
  <2>3. Cardinality({k \in 1 .. N : HasLesson(s, hist[k])}) = Lessons(s, hist, N)
    BY <1>1, <1>9, LessonsAre
  <2>4. /\ Lessons(s, hist, N) = Len(x.learnt) + Len(x.queue) + x.dropped
        /\ s.maxHeld > 0 => Len(x.queue) <= s.maxHeld
    BY <1>8, <2>1 DEF Books, Counted
  <2>5. dropped = x.dropped /\ missing = Nulls(s, hist, N)
    BY <1>4, <2>1 DEF Buffered, BufferNow
  <2>6. {k \in Accepted(1, Len(hist)) : hist[k].label = NoLabel}
          = {k \in 1 .. N : LacksLabel(hist[k])}
    BY DEF Accepted, LacksLabel
  <2>7. Cardinality({k \in 1 .. N : LacksLabel(hist[k])}) = Nulls(s, hist, N)
    BY <1>1, <1>9, LessonsAre
  <2>8. ASSUME ~setting.dropOldest
        PROVE  {k \in epoch .. Len(hist) : Teaches(k)} \subseteq ToSet(learnt) \cup held
    <3>1. \A k \in epoch .. N : HasLesson(s, hist[k]) => k \in Taken(x) \cup Held(x)
      BY <1>8, <2>8 DEF Books, Kept
    <3>2. \A k \in epoch .. N : Teaches(k) => k \in Taken(x) \cup Held(x)
      BY <1>1, <1>10, <3>1, LessonIs
    <3> QED BY <1>5, <1>6, <3>2
  <2>9. Cardinality({k \in 1 .. Len(hist) : Teaches(k)}) = Len(learnt) + Len(pending) + dropped
    BY <1>4, <1>6, <2>2, <2>3, <2>4, <2>5
  <2>10. missing = Cardinality({k \in Accepted(1, Len(hist)) : hist[k].label = NoLabel})
    BY <2>5, <2>6, <2>7
  <2>11. setting.maxHeld > 0 => Len(pending) <= setting.maxHeld
    BY <1>4, <2>4
  <2> QED BY <2>8, <2>9, <2>10, <2>11
<1>11. ASSUME ~Labelled
       PROVE  Accepted(epoch, Len(hist)) = {k \in ToSet(learnt) : k >= epoch} \cup held
  <2>1. ~Lab(s) /\ \A k : hist[k].accept <=> HasLesson(s, hist[k])
    BY <1>1, <1>11, LessonIs
  <2>2. \A k \in epoch .. N : HasLesson(s, hist[k]) => k \in Taken(x) \cup Held(x)
    BY <1>8, <2>1 DEF Books, Kept
  <2>3. \A k \in Held(x) : k >= epoch /\ HasLesson(s, hist[k])
    <3>1. InQueue(s, hist, x, epoch)
      BY <1>8 DEF Books
    <3> QED BY <3>1 DEF InQueue, Held
  <2>4. \A k \in Taken(x) : k >= epoch => HasLesson(s, hist[k])
    <3>1. InLearnt(s, hist, x, epoch, x.now)
      BY <1>8 DEF Books
    <3> QED BY <3>1 DEF InLearnt, Taken
  <2>5. epoch \in Nat
    BY <1>1, <1>6, <1>9, MarkIs
  <2>6. ASSUME NEW k \in Accepted(epoch, Len(hist))
        PROVE  k \in {j \in ToSet(learnt) : j >= epoch} \cup held
    <3>1. k \in epoch .. N /\ hist[k].accept
      BY DEF Accepted
    <3>2. k \in Taken(x) \cup Held(x)
      BY <2>1, <2>2, <3>1
    <3> QED BY <1>5, <1>6, <3>1, <3>2
  <2>7. ASSUME NEW k \in {j \in ToSet(learnt) : j >= epoch} \cup held
        PROVE  k \in Accepted(epoch, Len(hist))
    <3>1. k \in 1 .. N /\ k >= epoch /\ HasLesson(s, hist[k])
      BY <1>5, <1>6, <1>7, <2>3, <2>4
    <3>2. k \in epoch .. N
      BY <1>9, <2>5, <3>1
    <3> QED BY <2>1, <3>1, <3>2 DEF Accepted
  <2> QED BY <2>6, <2>7
<1> QED BY <1>10, <1>11

\* No row is lost or counted twice between chunks: each that has something to
\* teach was learned, is held or was counted as dropped, and each without a
\* label was counted as missing (labels_missing, labels_dropped); a buffer that
\* refuses to overflow has dropped nothing but at a clock reset.
THEOREM RowsAccounted == Spec => []EachRowAccounted
<1>1. Booking => EachRowAccounted
  BY BookedAccounted
<1> QED BY <1>1, LedgerKept, PTL

-----------------------------------------------------------------------------
\* A row is due as the ledger says it.
LEMMA DueAtIs ==
  ASSUME setting \in Settings, hist \in Streams(setting), NEW n \in 1 .. Len(hist),
         epoch = EpochAt(setting, hist, n), NEW k \in epoch .. n, hist[k].accept
  PROVE  DueAt(k, n) <=> HasLesson(setting, hist[k]) /\ DueBy(setting, hist, k, n)
<1>1. CASE Labelled
  <2>1. Lab(setting) /\ (Teaches(k) <=> HasLesson(setting, hist[k]))
    BY <1>1, LessonIs
  <2>2. hist[n].at \in Int /\ hist[k].label \in Int
    <3>1. n \in 0 .. Len(hist) /\ epoch \in 1 .. n
      BY RowIs, EpochIs
    <3>2. k \in 1 .. Len(hist)
      BY <3>1
    <3> QED BY <3>2, RowIs
  <2> QED BY <1>1, <2>1, <2>2 DEF DueAt, DueBy
<1>2. CASE ~Labelled
  <2>1. ~Lab(setting) /\ HasLesson(setting, hist[k])
    BY <1>2, LessonIs
  <2>2. ElapsedFrom(k, n) = Time(setting, hist, n) - Time(setting, hist, k)
    BY ElapsedIs
  <2>3. ClosedBy(k, n) <=>
          (Frm(setting) => Rank(setting, hist, k, n) <= Closed(setting, hist, n))
    BY ClosedByIs
  <2>4. Embargoed <=> Emb(setting)
    BY DEF Embargoed, Emb
  <2> QED BY <1>2, <2>1, <2>2, <2>3, <2>4 DEF DueAt, DueBy
<1> QED BY <1>1, <1>2

\* What a ledger says of the rows learned, at a row scored.
LEMMA BookedByNow ==
  ASSUME StreamInv, NEW x, NEW y, Way(x, y), AtLedger(x), read.what = "scored"
  PROVE  LearnedByNow(read.id)
<1> DEFINE s == setting
           n == x.row
           due == {k \in Accepted(epoch, n - 1) : DueAt(k, n)}
           now == {k \in ToSet(learnt) : k >= epoch}
<1>1. s \in Settings /\ hist \in Streams(s) /\ Legal(s, hist)
  BY DEF StreamInv
<1>2. /\ read.id = n /\ x.now = n /\ n > 0 /\ hist[n].accept /\ learnt \in Seq(1 .. n - 1)
  BY DEF AtLedger
<1>3. /\ learnt = x.learnt /\ ToSet(learnt) = Taken(x) /\ x.row \in 0 .. Len(hist)
      /\ epoch = EpochAt(s, hist, n)
  BY <1>1, LearntIs
<1>4. n \in 1 .. Len(hist) /\ n \in 0 .. Len(hist) /\ Len(hist) \in Nat
  <2>1. Len(hist) \in Nat
    BY <1>1 DEF Streams
  <2> QED BY <1>2, <1>3, <2>1
<1>5. epoch \in 1 .. n
  BY <1>1, <1>3, <1>4, EpochIs
<1>6. Sound(s, hist, x) /\ Ledger(hist, x)
  BY DEF Way, Sound
<1>7. Books(s, hist, x, epoch, n, n) /\ NotDue(s, hist, x)
  BY <1>2, <1>3, <1>6 DEF Sound
<1>8. \A k \in now : k \in epoch .. n - 1
  <2>1. DOMAIN learnt = 1 .. Len(learnt)
    BY <1>2
  <2>2. \A i \in DOMAIN learnt : learnt[i] \in 1 .. n - 1
    BY <1>2, <2>1, ElementOfSeq
  <2>3. \A k \in ToSet(learnt) : k \in 1 .. n - 1
    BY <2>2 DEF ToSet
  <2> QED BY <1>4, <1>5, <2>3
<1>9. \A k \in now : HasLesson(s, hist[k]) /\ DueBy(s, hist, k, n)
  <2>1. InLearnt(s, hist, x, epoch, n)
    BY <1>7 DEF Books
  <2> QED BY <1>3, <2>1 DEF InLearnt, Taken
<1>10. \A k \in epoch .. n - 1 : hist[k].accept =>
         (DueAt(k, n) <=> HasLesson(s, hist[k]) /\ DueBy(s, hist, k, n))
  <2>1. SUFFICES ASSUME NEW k \in epoch .. n - 1, hist[k].accept
                 PROVE  DueAt(k, n) <=> HasLesson(s, hist[k]) /\ DueBy(s, hist, k, n)
    OBVIOUS
  <2>2. k \in epoch .. n
    BY <1>4, <1>5
  <2> HIDE DEF n
  <2> QED BY <1>1, <1>3, <1>4, <2>1, <2>2, DueAtIs
<1>11. now \subseteq due
  <2>1. SUFFICES ASSUME NEW k \in now PROVE k \in due
    OBVIOUS
  <2>2. k \in epoch .. n - 1 /\ HasLesson(s, hist[k]) /\ DueBy(s, hist, k, n)
    BY <1>8, <1>9
  <2>3. hist[k].accept
    BY <2>2 DEF HasLesson
  <2>4. DueAt(k, n)
    BY <1>10, <2>2, <2>3
  <2> QED BY <2>2, <2>3, <2>4 DEF Accepted
\* One before the last row scored that is not learned is not due.
<1>12. \A k \in Held(x) : k # n => ~DueBy(s, hist, k, n)
  BY <1>2, <1>7 DEF NotDue, Held
<1>13. ASSUME ~setting.dropOldest PROVE due \subseteq now
  <2>1. SUFFICES ASSUME NEW k \in due PROVE k \in now
    OBVIOUS
  <2>2. k \in epoch .. n - 1 /\ hist[k].accept /\ DueAt(k, n)
    BY DEF Accepted
  <2>3. HasLesson(s, hist[k]) /\ DueBy(s, hist, k, n)
    BY <1>10, <2>2
  <2>4. k \in epoch .. n /\ k # n /\ k >= epoch
    BY <1>4, <1>5, <2>2
  <2>5. Kept(s, hist, x, epoch, n)
    BY <1>7 DEF Books
  <2>6. k \in Taken(x) \cup Held(x)
    BY <1>13, <2>3, <2>4, <2>5 DEF Kept
  <2> QED BY <1>3, <1>12, <2>3, <2>4, <2>6
<1>14. ASSUME Labelled, AsDelay
       PROVE  now = {k \in Accepted(epoch, n - 1) : ElapsedFrom(k, n) >= setting.by}
  <2>1. Lab(s) /\ s.by > 0 /\ s.by \in Int
    <3>1. Lab(s)
      BY <1>14 DEF Lab, Labelled
    <3>2. ~Emb(s) /\ s.by \in Nat
      BY <1>1, <3>1, SettingIs
    <3>3. ~Embargoed
      BY <3>2 DEF Emb, Embargoed
    <3>4. s.by > 0
      BY <1>14, <3>3 DEF AsDelay, LabelsBehind
    <3> QED BY <3>1, <3>2, <3>4
  <2>2. ASSUME NEW k \in epoch .. n - 1
        PROVE  (ElapsedFrom(k, n) >= setting.by) <=> DueBy(s, hist, k, n)
    <3>1. k \in epoch .. n /\ k \in 1 .. Len(hist)
      BY <1>4, <1>5
    <3>2. ElapsedFrom(k, n) = Time(s, hist, n) - Time(s, hist, k)
      <4> HIDE DEF n
      <4> QED BY <1>1, <1>3, <1>4, <3>1, ElapsedIs
    <3>3. Time(s, hist, n) - Time(s, hist, k) = hist[n].at - hist[k].at
      <4> HIDE DEF n
      <4> QED BY <1>1, <1>3, <1>4, <2>1, <3>1, LabTime
    <3>4. hist[k].label = hist[k].at + s.by
      <4>1. hist[k] \in s.rows
        BY <1>1, <3>1, RowIs
      <4>2. \A r \in s.rows : r.label = r.at + s.by
        BY <1>1, <2>1, SettingIs
      <4> QED BY <4>1, <4>2
    <3>5. hist[n].at \in Int /\ hist[k].at \in Int
      BY <1>1, <1>4, <3>1, RowIs
    <3>6. DueBy(s, hist, k, n) <=> hist[n].at >= hist[k].label
      BY <2>1 DEF DueBy
    <3>7. \A a, b, c \in Int : (a - b >= c) <=> (a >= b + c)
      OBVIOUS
    <3>8. (hist[n].at - hist[k].at >= s.by) <=> (hist[n].at >= hist[k].at + s.by)
      BY <2>1, <3>5, <3>7
    <3> QED BY <3>2, <3>3, <3>4, <3>6, <3>8
  <2>3. ASSUME NEW k \in now
        PROVE  k \in {j \in Accepted(epoch, n - 1) : ElapsedFrom(j, n) >= setting.by}
    <3>1. k \in epoch .. n - 1 /\ HasLesson(s, hist[k]) /\ DueBy(s, hist, k, n)
      BY <1>8, <1>9
    <3>2. hist[k].accept
      BY <3>1 DEF HasLesson
    <3> QED BY <2>2, <3>1, <3>2 DEF Accepted
  <2>4. ASSUME NEW k \in Accepted(epoch, n - 1), ElapsedFrom(k, n) >= setting.by
        PROVE  k \in now
    <3>1. k \in epoch .. n - 1 /\ hist[k].accept
      BY DEF Accepted
    <3>2. DueBy(s, hist, k, n)
      BY <2>2, <2>4, <3>1
    <3>3. k \in epoch .. n /\ k # n /\ k >= epoch /\ k \in 1 .. Len(hist) /\ k \in 0 .. Len(hist)
          /\ k \in 1 .. n
      BY <1>4, <1>5, <3>1
    <3>4. InLine(s, hist, x, epoch, n)
      BY <1>7 DEF Books
    <3> DEFINE F == Frontier(x, epoch)
    <3>5. /\ F <= n /\ Len(x.queue) = Count(s, hist, n) - Count(s, hist, F)
          /\ \A i \in 1 .. Len(x.queue) : Count(s, hist, x.queue[i]) = Count(s, hist, F) + i
          /\ \A j \in epoch .. n : j \in Taken(x) <=> j <= F /\ hist[j].accept
      BY <2>1, <3>4 DEF InLine
    <3>6. F \in 0 .. n
      <4>1. x.last \in 0 .. n
        BY <1>6 DEF Ledger
      <4> QED BY <1>4, <1>5, <4>1 DEF Frontier
    <3> HIDE DEF F
    <3>7. k <= F
      <4>1. SUFFICES ASSUME ~(k <= F) PROVE FALSE
        OBVIOUS
      <4>2. F \in 0 .. Len(hist) /\ k - 1 \in F .. Len(hist) /\ k \in F .. Len(hist)
            /\ n \in k .. Len(hist) /\ k - 1 \in 0 .. Len(hist)
        BY <1>4, <3>3, <3>6, <4>1
      <4>3. Count(s, hist, F) <= Count(s, hist, k - 1) /\ Count(s, hist, k) <= Count(s, hist, n)
        BY <1>1, <3>3, <4>2, MarksRise
      <4>4. Count(s, hist, k) = Count(s, hist, k - 1) + 1
        BY <1>1, <3>1, <3>3, MarkNext DEF One
      <4>5. /\ Count(s, hist, F) \in Nat /\ Count(s, hist, k) \in Nat /\ Count(s, hist, n) \in Nat
            /\ Count(s, hist, k - 1) \in Nat
        BY <1>1, <1>4, <3>3, <4>2, MarkIs
      <4> DEFINE i == Count(s, hist, k) - Count(s, hist, F)
      <4>6. i \in 1 .. Len(x.queue) /\ Count(s, hist, F) + i = Count(s, hist, k)
        BY <3>5, <4>3, <4>4, <4>5
      <4> HIDE DEF i
      <4>7. Count(s, hist, x.queue[i]) = Count(s, hist, k)
        BY <3>5, <4>6
      <4>8. x.queue[i] \in 1 .. n
        <5>1. x.queue \in Seq(1 .. n)
          BY <1>6 DEF Ledger
        <5> QED BY <4>6, <5>1, ElementOfSeq
      <4>9. x.queue[i] \in 1 .. Len(hist)
        BY <1>4, <4>8
      <4>10. hist[x.queue[i]].accept
        <5>1. InQueue(s, hist, x, epoch)
          BY <1>7 DEF Books
        <5> QED BY <4>6, <5>1 DEF InQueue, HasLesson
      <4>11. x.queue[i] = k
        BY <1>1, <3>1, <3>3, <4>7, <4>9, <4>10, SameRank
      <4>12. k \in Held(x)
        BY <4>6, <4>11 DEF Held
      <4> QED BY <1>12, <3>2, <3>3, <4>12
    <3>8. k \in Taken(x)
      BY <3>1, <3>3, <3>5, <3>7
    <3> QED BY <1>3, <3>3, <3>8
  <2> QED BY <2>3, <2>4
<1> QED BY <1>2, <1>11, <1>13, <1>14 DEF LearnedByNow

LEMMA BookedWhenDue ==
  ASSUME Booking
  PROVE  LearnedWhenDue
<1>1. StreamInv /\ setting \in Settings
  BY DEF Booking, StreamInv
<1>2. PICK x, y : Way(x, y) /\ AtLedger(x)
  BY DEF Booking
<1>3. read.what = "scored" => LearnedByNow(read.id)
  BY <1>1, <1>2, BookedByNow
<1>4. ASSUME NEW m, m = Len(learnt), m > 1, learnt[m - 1] >= epoch
      PROVE  LearnedInOrder(learnt[m - 1], learnt[m])
  <2>1. learnt = x.learnt /\ epoch = EpochAt(setting, hist, x.row)
    BY <1>2 DEF AtLedger
  <2>2. InLearnt(setting, hist, x, epoch, x.now)
    BY <1>2, <2>1 DEF Way, Sound, Books
  <2>3. Earlier(setting, hist, learnt[m - 1], learnt[m])
    BY <1>4, <2>1, <2>2 DEF InLearnt
  <2>4. Labelled <=> Lab(setting)
    BY DEF Labelled, Lab
  <2> QED BY <2>3, <2>4 DEF Earlier, LearnedInOrder
<1> QED BY <1>3, <1>4 DEF LearnedWhenDue

\* By the time a row is scored exactly those before it that are due were
\* learned (Embargo::passed, Stream::resolve, hold_for_label), each once, in the
\* order they came; or of their labels, then of their coming.
THEOREM LearnedAsDue == Spec => []LearnedWhenDue
<1>1. Booking => LearnedWhenDue
  BY BookedWhenDue
<1> QED BY <1>1, LedgerKept, PTL


-----------------------------------------------------------------------------
(* What a bank that never held a row steps over: from row f on, at row k.   *)

RunSum(n, g) ==
  LET sum[k \in 0 .. n] == IF k = 0 THEN 0 ELSE sum[k - 1] + g[k]
  IN  sum

LEMMA RunSumIs ==
  ASSUME NEW n \in Nat, NEW g \in [1 .. n -> Nat]
  PROVE  /\ RunSum(n, g) \in [0 .. n -> Nat]
         /\ RunSum(n, g)[0] = 0
         /\ \A k \in 1 .. n : RunSum(n, g)[k] = RunSum(n, g)[k - 1] + g[k]
<1> DEFINE F == [p \in Nat \X (1 .. n) |-> p[1] + g[p[2]]]
           E(q) == [k \in 0 .. n |-> IF k = 0 THEN 0 ELSE q[k - 1] + g[k]]
           t == CHOOSE q : q = E(q)
<1>1. F \in [Nat \X (1 .. n) -> Nat]
  OBVIOUS
<1> HIDE DEF F
<1>2. PICK f \in [0 .. n -> Nat] : Recurs(f, 0, F, n)
  BY <1>1, Recursion
<1>3. ASSUME NEW k \in 0 .. n
      PROVE  f[k] = IF k = 0 THEN 0 ELSE f[k - 1] + g[k]
  <2>1. f[k] = IF k = 0 THEN 0 ELSE F[<<f[k - 1], k>>]
    BY <1>2 DEF Recurs
  <2>2. ASSUME k # 0 PROVE F[<<f[k - 1], k>>] = f[k - 1] + g[k]
    <3>1. k \in 1 .. n /\ k - 1 \in 0 .. n
      BY <2>2
    <3>2. f[k - 1] \in Nat
      BY <3>1
    <3> QED BY <3>1, <3>2 DEF F
  <2> QED BY <2>1, <2>2
<1>4. f = E(f)
  BY <1>2, <1>3
<1>5. t = E(t)
  <2> HIDE DEF E
  <2> QED BY <1>4
<1>6. RunSum(n, g) = t
  BY DEF RunSum
<1> HIDE DEF t
<1>7. t[0] = 0
  BY <1>5
<1>8. ASSUME NEW k \in 1 .. n PROVE t[k] = t[k - 1] + g[k]
  <2>1. k \in 0 .. n /\ k # 0
    OBVIOUS
  <2> QED BY <1>5, <2>1
<1>9. t \in [0 .. n -> Nat]
  <2> DEFINE T == {k \in 0 .. n : t[k] \in Nat}
  <2>1. 0 \in T
    BY <1>7
  <2>2. ASSUME NEW k \in 1 .. n, k - 1 \in T PROVE k \in T
    <3>1. g[k] \in Nat /\ t[k - 1] \in Nat /\ k \in 0 .. n
      BY <2>2
    <3> QED BY <1>8, <3>1
  <2>3. 0 .. n \subseteq T
    <3> HIDE DEF T
    <3> QED BY <2>1, <2>2, UpTo
  <2>4. \A k \in 0 .. n : t[k] \in Nat
    BY <2>3
  <2>5. t = [k \in 0 .. n |-> t[k]]
    BY <1>5
  <2> QED BY <2>4, <2>5
<1> QED BY <1>6, <1>7, <1>8, <1>9

\* Nothing is added where the terms are 0.
LEMMA RunSumFlat ==
  ASSUME NEW n \in Nat, NEW g \in [1 .. n -> Nat], NEW a \in 0 .. n, NEW b \in a .. n,
         \A j \in a + 1 .. b : g[j] = 0
  PROVE  RunSum(n, g)[b] = RunSum(n, g)[a]
<1> DEFINE t == RunSum(n, g)
           T == {k \in a .. b : t[k] = t[a]}
<1>1. /\ t \in [0 .. n -> Nat] /\ \A k \in 1 .. n : t[k] = t[k - 1] + g[k]
  BY RunSumIs
<1>0. a \in Int /\ b \in Int
  OBVIOUS
<1> HIDE DEF t
<1>2. a \in T
  OBVIOUS
<1>3. ASSUME NEW k \in a + 1 .. b, k - 1 \in T PROVE k \in T
  <2>1. k \in 1 .. n /\ k - 1 \in 0 .. n /\ k \in a .. b /\ g[k] = 0
    OBVIOUS
  <2>2. t[k] = t[k - 1] + 0 /\ t[k - 1] \in Nat
    BY <1>1, <2>1
  <2> QED BY <1>3, <2>1, <2>2
<1>4. b \in T
  <2>1. a .. b \subseteq T
    <3> HIDE DEF T
    <3> QED BY <1>0, <1>2, <1>3, Along
  <2>2. b \in a .. b
    OBVIOUS
  <2> HIDE DEF T
  <2> QED BY <2>1, <2>2
<1> QED BY <1>4 DEF t

\* Equal terms add up to the same.
LEMMA RunSumSame ==
  ASSUME NEW n \in Nat, NEW g \in [1 .. n -> Nat], NEW m \in Nat, NEW f \in [1 .. m -> Nat],
         NEW a \in 0 .. n, a \in 0 .. m, NEW b \in a .. n, b \in a .. m,
         \A j \in a + 1 .. b : g[j] = f[j]
  PROVE  RunSum(n, g)[b] - RunSum(n, g)[a] = RunSum(m, f)[b] - RunSum(m, f)[a]
<1> DEFINE t == RunSum(n, g)
           u == RunSum(m, f)
           T == {k \in a .. b : t[k] - t[a] = u[k] - u[a]}
<1>1. /\ t \in [0 .. n -> Nat] /\ \A k \in 1 .. n : t[k] = t[k - 1] + g[k]
  BY RunSumIs
<1>2. /\ u \in [0 .. m -> Nat] /\ \A k \in 1 .. m : u[k] = u[k - 1] + f[k]
  BY RunSumIs
<1>0. a \in Int /\ b \in Int
  OBVIOUS
<1> HIDE DEF t, u
<1>3. a \in T
  BY <1>1, <1>2
<1>4. ASSUME NEW k \in a + 1 .. b, k - 1 \in T PROVE k \in T
  <2>1. k \in 1 .. n /\ k - 1 \in 0 .. n /\ k \in a .. b /\ g[k] = f[k] /\ g[k] \in Nat
        /\ k \in 1 .. m /\ k - 1 \in 0 .. m /\ a \in 0 .. n /\ a \in 0 .. m
    OBVIOUS
  <2>2. t[k] = t[k - 1] + g[k] /\ t[k - 1] \in Nat /\ t[a] \in Nat
    BY <1>1, <2>1
  <2>3. u[k] = u[k - 1] + g[k] /\ u[k - 1] \in Nat /\ u[a] \in Nat
    BY <1>2, <2>1
  <2>4. t[k - 1] - t[a] = u[k - 1] - u[a]
    BY <1>4
  <2> DEFINE tk == t[k]
             uk == u[k]
             gk == g[k]
             ta == t[a]
             ua == u[a]
             v == t[k - 1]
             w == u[k - 1]
  <2>5. v - ta = w - ua /\ tk = v + gk /\ uk = w + gk /\ v \in Int /\ w \in Int
        /\ gk \in Int /\ ta \in Int /\ ua \in Int
    <3>1. v - ta = w - ua
      BY ONLY <2>4
    <3>2. tk = v + gk /\ v \in Nat /\ ta \in Nat
      BY ONLY <2>2
    <3>3. uk = w + gk /\ w \in Nat /\ ua \in Nat
      BY ONLY <2>3
    <3>4. gk \in Nat
      BY ONLY <2>1
    <3> HIDE DEF tk, uk, gk, ta, ua, v, w
    <3> QED BY ONLY <3>1, <3>2, <3>3, <3>4
  <2> HIDE DEF tk, uk, gk, ta, ua, v, w
  <2>6. tk - ta = uk - ua
    BY <2>5
  <2> QED BY <2>1, <2>6 DEF tk, uk, ta, ua
<1>5. b \in T
  <2>1. a .. b \subseteq T
    <3> HIDE DEF T
    <3> QED BY <1>0, <1>3, <1>4, Along
  <2>2. b \in a .. b
    OBVIOUS
  <2> HIDE DEF T
  <2> QED BY <2>1, <2>2
<1> QED BY <1>5 DEF t, u

BaseSince(s, h, f, k) == LaterOf(LastAt(s, h, k), f)
BankStep(s, h, f, k) ==
  IF k <= f \/ ~h[k].accept THEN 0
  ELSE Lesser(Steps(s, h, k) - Steps(s, h, BaseSince(s, h, f, k - 1)), s.clk.cap)
BankGap(s, h, f, k) ==
  \/ PastCapAt(s, h, k)
  \/ h[k].accept /\ Steps(s, h, k) - Steps(s, h, BaseSince(s, h, f, k - 1)) > s.clk.cap

\* The steps of the rows up to k, of the stream's own clock and of a bank's.
DSum(s, h, k)    == RunSum(Len(h), [i \in 1 .. Len(h) |-> DAt(s, h, i)])[k]
BSum(s, h, f, k) == RunSum(Len(h), [i \in 1 .. Len(h) |-> BankStep(s, h, f, i)])[k]

LEMMA BankStepIs ==
  ASSUME NEW s \in Settings, NEW h \in Streams(s), NEW f \in 1 .. Len(h) + 1, NEW k \in 1 .. Len(h)
  PROVE  /\ BankStep(s, h, f, k) \in Nat /\ BankStep(s, h, f, k) <= s.clk.cap
         /\ k > f => /\ BaseSince(s, h, f, k - 1) \in f .. k - 1
                     /\ Steps(s, h, k) - Steps(s, h, BaseSince(s, h, f, k - 1)) \in Nat
<1>1. s.clk.cap \in Nat /\ Len(h) \in Nat /\ k - 1 \in 0 .. Len(h) /\ k \in 0 .. Len(h)
  BY SettingIs, RowIs
<1>2. ASSUME k > f
      PROVE  /\ BaseSince(s, h, f, k - 1) \in f .. k - 1
             /\ Steps(s, h, k) - Steps(s, h, BaseSince(s, h, f, k - 1)) \in Nat
  <2>1. LastAt(s, h, k - 1) \in 0 .. k - 1
    BY <1>1, LastIs
  <2>2. BaseSince(s, h, f, k - 1) \in f .. k - 1
    BY <1>2, <2>1 DEF BaseSince, LaterOf
  <2> DEFINE b == BaseSince(s, h, f, k - 1)
  <2> HIDE DEF b
  <2>3. b \in 0 .. Len(h) /\ k \in b .. Len(h)
    BY <2>2 DEF b
  <2>4. Steps(s, h, b) \in Nat /\ Steps(s, h, k) \in Nat /\ Steps(s, h, b) <= Steps(s, h, k)
    BY <1>1, <2>3, MarkIs, MarksRise
  <2>5. Steps(s, h, k) - Steps(s, h, b) \in Nat
    BY <2>4
  <2> QED BY <2>2, <2>5 DEF b
<1>3. CASE k <= f \/ ~h[k].accept
  <2>1. BankStep(s, h, f, k) = 0
    BY <1>3 DEF BankStep
  <2> QED BY <1>1, <1>2, <2>1
<1>4. CASE ~(k <= f \/ ~h[k].accept)
  <2>1. k > f
    BY <1>4
  <2>2. BankStep(s, h, f, k)
          = Lesser(Steps(s, h, k) - Steps(s, h, BaseSince(s, h, f, k - 1)), s.clk.cap)
    BY <1>4 DEF BankStep
  <2>3. \A a \in Nat : Lesser(a, s.clk.cap) \in Nat /\ Lesser(a, s.clk.cap) <= s.clk.cap
    BY <1>1 DEF Lesser
  <2> QED BY <1>2, <2>1, <2>2, <2>3
<1> QED BY <1>3, <1>4

LEMMA DAtIs ==
  ASSUME NEW s \in Settings, NEW h \in Streams(s), NEW k \in 1 .. Len(h)
  PROVE  /\ DAt(s, h, k) \in Nat /\ DAt(s, h, k) <= s.clk.cap
         /\ DAt(s, h, k) = BankStep(s, h, EpochAt(s, h, k), k)
         /\ ~ResetAt(s, h, k) =>
              (GapAt(s, h, k) <=> BankGap(s, h, EpochAt(s, h, k), k))
<1>1. Len(h) \in Nat /\ k \in 0 .. Len(h) /\ k - 1 \in 0 .. Len(h) /\ s.clk.cap \in Nat
  BY RowIs, SettingIs
<1>2. EpochAt(s, h, k) \in 1 .. k
      /\ EpochAt(s, h, k) = IF k = 1 \/ ResetAt(s, h, k) THEN k ELSE EpochAt(s, h, k - 1)
  BY BaseIs
<1> DEFINE e == EpochAt(s, h, k)
<1>3. e \in 1 .. Len(h) + 1
  BY <1>2
<1>4. CASE ResetAt(s, h, k)
  <2>1. e = k
    BY <1>2, <1>4
  <2>2. BankStep(s, h, e, k) = 0
    BY <2>1 DEF BankStep
  <2>3. TotalAt(s, h, k) = 0
    BY <1>4 DEF TotalAt, TotalSince
  <2>4. DAt(s, h, k) = 0
    BY <1>1, <2>3 DEF DAt, Lesser
  <2> QED BY <1>1, <1>4, <2>2, <2>4
<1>5. CASE ~ResetAt(s, h, k) /\ k = 1
  <2>1. e = 1 /\ EpochAt(s, h, k - 1) = 1 /\ LastAt(s, h, k - 1) = 0
    BY <1>2, <1>5, MarkZero
  <2>2. BaseAt(s, h, k - 1) = 1 /\ BaseSince(s, h, e, k - 1) = 1
    BY <2>1 DEF BaseAt, LaterOf, BaseSince
  <2>3. Steps(s, h, 1) \in Nat
    BY <1>1, <1>5, MarkIs
  <2>4. TotalAt(s, h, k) = 0
    BY <1>5, <2>2, <2>3 DEF TotalAt, TotalSince
  <2>5. DAt(s, h, k) = 0 /\ BankStep(s, h, e, k) = 0
    BY <1>1, <1>5, <2>1, <2>4 DEF DAt, Lesser, BankStep
  <2>6. GapAt(s, h, k) <=> BankGap(s, h, e, k)
    BY <1>5, <2>2 DEF GapAt, BankGap, TotalAt, TotalSince
  <2> QED BY <1>1, <2>5, <2>6
<1>6. CASE ~ResetAt(s, h, k) /\ k # 1
  <2>1. e = EpochAt(s, h, k - 1)
    BY <1>2, <1>6
  <2>2. e \in 1 .. k - 1
    <3>1. k - 1 >= 1 /\ EpochAt(s, h, k - 1) \in Nat /\ EpochAt(s, h, k - 1) <= k - 1
          /\ EpochAt(s, h, k - 1) >= 1
      BY <1>1, <1>6, EpochIs
    <3> QED BY <2>1, <3>1
  <2>3. BaseAt(s, h, k - 1) = BaseSince(s, h, e, k - 1)
    BY <2>1 DEF BaseAt, BaseSince
  <2>4. TotalAt(s, h, k) = Steps(s, h, k) - Steps(s, h, BaseSince(s, h, e, k - 1))
    BY <1>6, <2>3 DEF TotalAt, TotalSince
  <2>5. DAt(s, h, k) = BankStep(s, h, e, k)
    <3>1. ~(k <= e)
      BY <2>2
    <3> QED BY <2>4, <3>1 DEF DAt, BankStep
  <2>6. GapAt(s, h, k) <=> BankGap(s, h, e, k)
    BY <2>4 DEF GapAt, BankGap
  <2>7. BankStep(s, h, e, k) \in Nat /\ BankStep(s, h, e, k) <= s.clk.cap
    BY <1>3, BankStepIs
  <2> QED BY <2>5, <2>6, <2>7
<1> QED BY <1>4, <1>5, <1>6


-----------------------------------------------------------------------------
(* The model beside the ledger: what it has learned is what a bank begun at *)
(* row st has, fed every row up to the last one learned.                    *)

Holds(s) == Emb(s) \/ Lab(s)
FrontAt(s, h, x) == Frontier(x, EpochAt(s, h, x.row))

\* Rows held by a delay, by a formula, or by labels one delay behind them with
\* none skipped before the first.
LikeDelay(s, h, x) ==
  ~Lab(s) \/ (s.by > 0 /\ (x.row > 0 => h[EpochAt(s, h, x.row)].accept))

\* Where the instance began: at the row the clock started over at, or after a
\* row that tripped a drift.
BegunAt(s, h, x, i, st) ==
  LET e == EpochAt(s, h, x.row)
      f == FrontAt(s, h, x)
  IN  /\ ~s.drift => st = e
      /\ st \in e .. f + 1
      /\ st # e => h[st - 1].accept /\ (~i.restarted => f >= st)
      /\ i.restarted =>
           /\ f = st - 1
           /\ st = e => ResetAt(s, h, e) /\ h[e].accept /\ e <= x.row
      /\ i.fit <=> f >= st
      /\ i.lagged <=> f >= st

\* Its clock, and the clock of the rows held.
ClockAt(s, h, x, i, st) ==
  LET f == FrontAt(s, h, x)
  IN  /\ i.decayTime \in Nat /\ i.held \in Int
      /\ LikeDelay(s, h, x) =>
           /\ i.decayTime = BSum(s, h, st, f)
           /\ Holds(s) => i.held = DSum(s, h, x.row) - DSum(s, h, f)
      /\ ~Holds(s) => i.held = 0
      /\ Lab(s) => i.decayTime + i.held
                     = DSum(s, h, x.row) - DSum(s, h, EpochAt(s, h, x.row) - 1)

\* The newest row of some weight among those from row st to row f.
Weighs(h, k) == h[k].accept /\ h[k].w > 0
NewestOf(h, st, f, newest) ==
  \/ newest = <<>> /\ \A k \in st .. f : ~Weighs(h, k)
  \/ \E m \in st .. f : /\ Weighs(h, m) /\ newest = <<h[m].at>>
                        /\ \A k \in m + 1 .. f : ~Weighs(h, k)

\* What a row learned was handed, as a bank begun at row f would hand it.
HandedAt(s, h, f, k, rd) ==
  LET l == LastAt(s, h, k - 1)
  IN  /\ f \in 1 .. k /\ k <= Len(h) /\ h[k].accept
      /\ \A j \in f + 1 .. k : ~ResetAt(s, h, j)
      /\ rd.d = BankStep(s, h, f, k)
      /\ rd.paired <=> l >= f /\ \A j \in l + 1 .. k : ~ChangedAt(h, j) /\ ~BankGap(s, h, f, j)
      /\ rd.blended <=> l >= f /\ \E j \in l + 1 .. k : ChangedAt(h, j)
LearnedAs(s, h, st, rd) ==
  /\ rd.d \in 0 .. s.clk.cap /\ rd.settled = 0 /\ rd.scoreStep = 0
  /\ rd.from \in 1 .. rd.id /\ rd.id \in 1 .. Len(h)
  /\ Lab(s) => rd.from = st
  /\ ~Lab(s) \/ (s.by > 0 /\ h[rd.from].accept) => HandedAt(s, h, rd.from, rd.id, rd)

\* What a row scored read: the steps since the last row learned, the clock with
\* the rows held, and the newest row learned.
ScoredAs(s, h, x, st, rd) ==
  LET f == FrontAt(s, h, x)
  IN  /\ rd.d \in 0 .. s.clk.cap /\ rd.settled \in Nat
      /\ ~Lab(s) => rd.scoreStep \in 0 .. s.clk.cap
      /\ f < x.row
      /\ Holds(s) /\ LikeDelay(s, h, x) =>
           /\ rd.settled = BSum(s, h, st, x.row - 1)
           /\ rd.scoreStep =
                Lesser(Steps(s, h, x.row) - Steps(s, h, LaterOf(f, st)), s.clk.cap)
      /\ Emb(s) => NewestOf(h, st, f, rd.newest)

ReadAs(s, h, x, st, rd) ==
  /\ rd.what \in {"nothing", "learned", "scored"}
  /\ rd.what = "nothing" => rd.d = 0 /\ rd.settled = 0 /\ rd.scoreStep = 0
  /\ rd.what = "learned" => LearnedAs(s, h, st, rd)
  /\ rd.what = "scored"  => ScoredAs(s, h, x, st, rd)


-----------------------------------------------------------------------------
(* The sums of those steps.                                                 *)

LEMMA DSumIs ==
  ASSUME NEW s \in Settings, NEW h \in Streams(s)
  PROVE  /\ \A k \in 0 .. Len(h) : DSum(s, h, k) \in Nat
         /\ DSum(s, h, 0) = 0
         /\ \A k \in 1 .. Len(h) : DSum(s, h, k) = DSum(s, h, k - 1) + DAt(s, h, k)
<1> DEFINE g == [i \in 1 .. Len(h) |-> DAt(s, h, i)]
           R == RunSum(Len(h), g)
<1>1. g \in [1 .. Len(h) -> Nat] /\ Len(h) \in Nat /\ \A k \in 1 .. Len(h) : g[k] = DAt(s, h, k)
  BY DAtIs DEF Streams
<1>2. \A k : DSum(s, h, k) = R[k]
  BY DEF DSum
<1> HIDE DEF g
<1>3. /\ R \in [0 .. Len(h) -> Nat] /\ R[0] = 0
      /\ \A k \in 1 .. Len(h) : R[k] = R[k - 1] + g[k]
  BY <1>1, RunSumIs
<1> HIDE DEF R
<1> QED BY <1>1, <1>2, <1>3

LEMMA BSumIs ==
  ASSUME NEW s \in Settings, NEW h \in Streams(s), NEW f \in 1 .. Len(h) + 1
  PROVE  /\ \A k \in 0 .. Len(h) : BSum(s, h, f, k) \in Nat
         /\ BSum(s, h, f, 0) = 0
         /\ \A k \in 1 .. Len(h) : BSum(s, h, f, k) = BSum(s, h, f, k - 1) + BankStep(s, h, f, k)
<1> DEFINE g == [i \in 1 .. Len(h) |-> BankStep(s, h, f, i)]
           R == RunSum(Len(h), g)
<1>1. g \in [1 .. Len(h) -> Nat] /\ Len(h) \in Nat
      /\ \A k \in 1 .. Len(h) : g[k] = BankStep(s, h, f, k)
  BY BankStepIs DEF Streams
<1>2. \A k : BSum(s, h, f, k) = R[k]
  BY DEF BSum
<1> HIDE DEF g
<1>3. /\ R \in [0 .. Len(h) -> Nat] /\ R[0] = 0
      /\ \A k \in 1 .. Len(h) : R[k] = R[k - 1] + g[k]
  BY <1>1, RunSumIs
<1> HIDE DEF R
<1> QED BY <1>1, <1>2, <1>3

\* Over rows that are skipped nothing is added, nor before a bank begins.
LEMMA SumsFlat ==
  ASSUME NEW s \in Settings, NEW h \in Streams(s), NEW f \in 1 .. Len(h) + 1,
         NEW a \in 0 .. Len(h), NEW b \in a .. Len(h), \A j \in a + 1 .. b : ~h[j].accept
  PROVE  DSum(s, h, b) = DSum(s, h, a) /\ BSum(s, h, f, b) = BSum(s, h, f, a)
<1>1. ASSUME NEW j \in a + 1 .. b
      PROVE  j \in 1 .. Len(h) /\ DAt(s, h, j) = 0 /\ BankStep(s, h, f, j) = 0
  <2>1. j \in 1 .. Len(h) /\ ~h[j].accept
    OBVIOUS
  <2> QED BY <2>1 DEF DAt, BankStep
<1>2. Len(h) \in Nat
  BY DEF Streams
<1>3. DSum(s, h, b) = DSum(s, h, a)
  <2> DEFINE g == [i \in 1 .. Len(h) |-> DAt(s, h, i)]
  <2>1. g \in [1 .. Len(h) -> Nat]
    BY DAtIs
  <2>2. \A j \in a + 1 .. b : g[j] = 0
    BY <1>1
  <2>3. DSum(s, h, b) = RunSum(Len(h), g)[b] /\ DSum(s, h, a) = RunSum(Len(h), g)[a]
    BY DEF DSum
  <2> HIDE DEF g
  <2>4. RunSum(Len(h), g)[b] = RunSum(Len(h), g)[a]
    BY <1>2, <2>1, <2>2, RunSumFlat
  <2> QED BY <2>3, <2>4
<1>4. BSum(s, h, f, b) = BSum(s, h, f, a)
  <2> DEFINE g == [i \in 1 .. Len(h) |-> BankStep(s, h, f, i)]
  <2>1. g \in [1 .. Len(h) -> Nat]
    BY BankStepIs
  <2>2. \A j \in a + 1 .. b : g[j] = 0
    BY <1>1
  <2>3. BSum(s, h, f, b) = RunSum(Len(h), g)[b] /\ BSum(s, h, f, a) = RunSum(Len(h), g)[a]
    BY DEF BSum
  <2> HIDE DEF g
  <2>4. RunSum(Len(h), g)[b] = RunSum(Len(h), g)[a]
    BY <1>2, <2>1, <2>2, RunSumFlat
  <2> QED BY <2>3, <2>4
<1> QED BY <1>3, <1>4

LEMMA SumStarts ==
  ASSUME NEW s \in Settings, NEW h \in Streams(s), NEW f \in 1 .. Len(h) + 1, NEW b \in 0 .. f,
         b <= Len(h)
  PROVE  BSum(s, h, f, b) = 0
<1> DEFINE g == [i \in 1 .. Len(h) |-> BankStep(s, h, f, i)]
<1>0. Len(h) \in Nat /\ b \in 0 .. Len(h) /\ 0 \in 0 .. Len(h)
  BY DEF Streams
<1>1. g \in [1 .. Len(h) -> Nat]
  BY BankStepIs
<1>2. ASSUME NEW j \in 0 + 1 .. b PROVE g[j] = 0
  <2>1. j \in 1 .. Len(h) /\ j <= f
    BY <1>0
  <2> QED BY <2>1 DEF BankStep
<1>3. BSum(s, h, f, b) = RunSum(Len(h), g)[b] /\ BSum(s, h, f, 0) = RunSum(Len(h), g)[0]
  BY DEF BSum
<1> HIDE DEF g
<1>4. b \in 0 .. Len(h) /\ b \in 0 .. b
  BY <1>0
<1>5. RunSum(Len(h), g)[b] = RunSum(Len(h), g)[0]
  BY <1>0, <1>1, <1>2, <1>4, RunSumFlat
<1> QED BY <1>3, <1>5, BSumIs

\* Where each step is the bank's, so are the sums.
LEMMA SumsSame ==
  ASSUME NEW s \in Settings, NEW h \in Streams(s), NEW f \in 1 .. Len(h) + 1,
         NEW a \in 0 .. Len(h), NEW b \in a .. Len(h),
         \A j \in a + 1 .. b : DAt(s, h, j) = BankStep(s, h, f, j)
  PROVE  DSum(s, h, b) - DSum(s, h, a) = BSum(s, h, f, b) - BSum(s, h, f, a)
<1> DEFINE g == [i \in 1 .. Len(h) |-> DAt(s, h, i)]
           k == [i \in 1 .. Len(h) |-> BankStep(s, h, f, i)]
<1>0. Len(h) \in Nat /\ a \in 0 .. Len(h) /\ b \in a .. Len(h)
  BY DEF Streams
<1>1. g \in [1 .. Len(h) -> Nat] /\ k \in [1 .. Len(h) -> Nat]
  BY BankStepIs, DAtIs
<1>2. ASSUME NEW j \in a + 1 .. b PROVE g[j] = k[j]
  <2>1. j \in 1 .. Len(h)
    BY <1>0
  <2> QED BY <2>1
<1>3. /\ BSum(s, h, f, b) = RunSum(Len(h), k)[b] /\ BSum(s, h, f, a) = RunSum(Len(h), k)[a]
      /\ DSum(s, h, b) = RunSum(Len(h), g)[b] /\ DSum(s, h, a) = RunSum(Len(h), g)[a]
  BY DEF BSum, DSum
<1> HIDE DEF g, k
<1>5. RunSum(Len(h), g)[b] - RunSum(Len(h), g)[a] = RunSum(Len(h), k)[b] - RunSum(Len(h), k)[a]
  BY <1>0, <1>1, <1>2, RunSumSame
<1> QED BY <1>3, <1>5

\* A row steps alike after a row accepted since both began.
LEMMA StepSame ==
  ASSUME NEW s \in Settings, NEW h \in Streams(s), NEW k \in 1 .. Len(h),
         NEW f \in EpochAt(s, h, k) .. k, f = EpochAt(s, h, k) \/ LastAt(s, h, k - 1) >= f
  PROVE  /\ DAt(s, h, k) = BankStep(s, h, f, k)
         /\ ~ResetAt(s, h, k) => (GapAt(s, h, k) <=> BankGap(s, h, f, k))
<1> DEFINE e == EpochAt(s, h, k)
<1>1. e \in 1 .. k
  BY BaseIs
<1>2. DAt(s, h, k) = BankStep(s, h, e, k)
      /\ (~ResetAt(s, h, k) => (GapAt(s, h, k) <=> BankGap(s, h, e, k)))
  BY DAtIs
<1>3. CASE f = e
  BY <1>2, <1>3
<1>4. CASE f # e
  <2>1. LastAt(s, h, k - 1) >= f /\ f > e
    BY <1>1, <1>4
  <2>2. k - 1 \in 0 .. Len(h)
    BY <1>1
  <2>3. LastAt(s, h, k - 1) \in 0 .. k - 1
    BY <2>2, LastIs
  <2>4. BaseSince(s, h, f, k - 1) = LastAt(s, h, k - 1)
        /\ BaseSince(s, h, e, k - 1) = LastAt(s, h, k - 1)
    <3> DEFINE l == LastAt(s, h, k - 1)
    <3>1. l \in Int /\ f \in Int /\ e \in Int /\ l >= f /\ f > e
      BY <1>1, <2>1, <2>3
    <3> HIDE DEF l, e
    <3>2. LaterOf(l, f) = l /\ LaterOf(l, e) = l
      BY <3>1 DEF LaterOf
    <3> QED BY <3>2 DEF BaseSince, l
  <2>5. k > f /\ k > e
    BY <1>1, <2>1, <2>3
  <2>6. BankGap(s, h, f, k) <=> BankGap(s, h, e, k)
    BY <2>4 DEF BankGap
  <2>7. ~(k <= f) /\ ~(k <= e)
    BY <1>1, <2>5
  <2>8. BankStep(s, h, f, k) = BankStep(s, h, e, k)
    <3> DEFINE bf == BaseSince(s, h, f, k - 1)
               be == BaseSince(s, h, e, k - 1)
    <3>1. bf = be
      BY <2>4
    <3>2. /\ BankStep(s, h, f, k) = (IF ~h[k].accept THEN 0
                 ELSE Lesser(Steps(s, h, k) - Steps(s, h, bf), s.clk.cap))
          /\ BankStep(s, h, e, k) = (IF ~h[k].accept THEN 0
                 ELSE Lesser(Steps(s, h, k) - Steps(s, h, be), s.clk.cap))
      BY <2>7 DEF BankStep
    <3> QED BY <3>1, <3>2
  <2> QED BY <1>2, <2>6, <2>8
<1> QED BY <1>3, <1>4


\* Under the cap it is one whether steps are added up or taken at once.
LEMMA CapAdds ==
  ASSUME NEW a \in Nat, NEW t \in Nat, NEW d \in Nat, NEW c \in Nat,
         Lesser(a, c) = Lesser(t, c)
  PROVE  Lesser(a + Lesser(d, c), c) = Lesser(t + d, c)
BY DEF Lesser

LEMMA CapSum ==
  ASSUME NEW s \in Settings, NEW h \in Streams(s), NEW f \in 1 .. Len(h), NEW b \in f .. Len(h),
         b = f \/ h[b].accept
  PROVE  \A k \in b .. Len(h) :
           /\ BaseSince(s, h, f, k) \in b .. k
           /\ Lesser(BSum(s, h, f, k) - BSum(s, h, f, b), s.clk.cap)
                = Lesser(Steps(s, h, BaseSince(s, h, f, k)) - Steps(s, h, b), s.clk.cap)
<1> DEFINE R(k) == BSum(s, h, f, k)
           B(k) == BaseSince(s, h, f, k)
           c == s.clk.cap
           Good(k) == /\ B(k) \in b .. k
                      /\ Lesser(R(k) - R(b), c) = Lesser(Steps(s, h, B(k)) - Steps(s, h, b), c)
           T == {k \in b .. Len(h) : Good(k)}
<1>0. /\ Len(h) \in Nat /\ c \in Nat /\ b \in Nat /\ f \in Nat /\ f <= b /\ f \in 1 .. Len(h) + 1
      /\ b \in 1 .. Len(h)
  BY SettingIs DEF Streams
<1>1. /\ \A k \in 0 .. Len(h) : R(k) \in Nat
      /\ \A k \in 1 .. Len(h) : R(k) = R(k - 1) + BankStep(s, h, f, k)
  BY <1>0, BSumIs
<1>2. \A k \in 1 .. Len(h) :
        /\ LastAt(s, h, k) = IF h[k].accept THEN k ELSE LastAt(s, h, k - 1)
        /\ LastAt(s, h, k) \in 0 .. k
  <2> SUFFICES ASSUME NEW k \in 1 .. Len(h)
               PROVE  /\ LastAt(s, h, k) = IF h[k].accept THEN k ELSE LastAt(s, h, k - 1)
                      /\ LastAt(s, h, k) \in 0 .. k
    OBVIOUS
  <2>1. k \in 0 .. Len(h)
    OBVIOUS
  <2> QED BY <2>1, MarkNext, LastIs
<1>3. b \in T
  <2>1. LastAt(s, h, b) \in 0 .. b /\ (h[b].accept => LastAt(s, h, b) = b)
    BY <1>0, <1>2
  <2>2. B(b) = b
    BY <1>0, <2>1 DEF BaseSince, LaterOf
  <2>3. R(b) \in Nat /\ Steps(s, h, b) \in Nat
    <3>1. b \in 0 .. Len(h)
      BY <1>0
    <3> QED BY <1>1, <3>1, MarkIs
  <2>4. R(b) - R(b) = 0 /\ Steps(s, h, B(b)) - Steps(s, h, b) = 0
    BY <2>2, <2>3
  <2>5. Good(b)
    BY <1>0, <2>2, <2>4
  <2> QED BY <1>0, <2>5
<1>4. ASSUME NEW k \in b + 1 .. Len(h), k - 1 \in T PROVE k \in T
  <2>1. k \in 1 .. Len(h) /\ k - 1 \in 0 .. Len(h) /\ k \in b .. Len(h) /\ k > f /\ k > b
        /\ k \in 0 .. Len(h)
    BY <1>0
  <2>2. Good(k - 1)
    BY <1>4
  <2> DEFINE u == B(k - 1)
             v == B(k)
             su == Steps(s, h, u)
             sk == Steps(s, h, k)
             sb == Steps(s, h, b)
  <2>3. u \in b .. k - 1
    BY <2>2
  <2>4. su \in Nat /\ sk \in Nat /\ sb \in Nat /\ su <= sk /\ sb <= su
    <3> HIDE DEF u
    <3>1. u \in 0 .. Len(h) /\ b \in 0 .. Len(h) /\ u \in b .. Len(h) /\ k \in u .. Len(h)
      BY <1>0, <2>1, <2>3
    <3> QED BY <2>1, <3>1, MarkIs, MarksRise
  <2>5. R(k) = R(k - 1) + BankStep(s, h, f, k) /\ R(k - 1) \in Nat /\ R(b) \in Nat
    BY <1>0, <1>1, <2>1
  <2>6. Lesser(R(k - 1) - R(b), c) = Lesser(su - sb, c)
    BY <2>2
  <2>7. R(b) <= R(k - 1)
    <3> DEFINE U == {j \in b .. k - 1 : R(b) <= R(j)}
    <3> HIDE DEF R
    <3>1. b \in U
      BY <1>0, <2>1, <2>5
    <3>2. ASSUME NEW j \in b + 1 .. k - 1, j - 1 \in U PROVE j \in U
      <4>1. j \in 1 .. Len(h) /\ j - 1 \in 0 .. Len(h) /\ j \in b .. k - 1
        BY <1>0, <2>1
      <4>2. R(j) = R(j - 1) + BankStep(s, h, f, j) /\ R(j - 1) \in Nat
            /\ BankStep(s, h, f, j) \in Nat
        BY <1>0, <1>1, <4>1, BankStepIs
      <4>3. R(b) <= R(j - 1)
        BY <3>2
      <4> QED BY <2>5, <4>1, <4>2, <4>3
    <3>3. b .. k - 1 \subseteq U
      <4>1. b \in Int /\ k - 1 \in Int
        BY <1>0, <2>1
      <4> HIDE DEF U
      <4> QED BY <3>1, <3>2, <4>1, Along
    <3>4. k - 1 \in b .. k - 1
      BY <1>0, <2>1
    <3> QED BY <3>3, <3>4
  <2>8. CASE h[k].accept
    <3>1. LastAt(s, h, k) = k
      BY <1>2, <2>1, <2>8
    <3>2. v = k
      BY <2>1, <3>1 DEF BaseSince, LaterOf
    <3>3. BankStep(s, h, f, k) = Lesser(sk - su, c)
      <4>1. ~(k <= f)
        BY <1>0, <2>1
      <4> QED BY <2>8, <4>1 DEF BankStep
    <3> DEFINE r1 == R(k - 1)
               rb == R(b)
               l == Lesser(sk - su, c)
    <3>4. R(k) = r1 + l
      BY <2>5, <3>3
    <3>5. Lesser(r1 - rb, c) = Lesser(su - sb, c) /\ r1 - rb \in Nat /\ su - sb \in Nat
          /\ sk - su \in Nat
      BY <2>4, <2>5, <2>6, <2>7
    <3>6. Lesser((r1 - rb) + l, c) = Lesser((su - sb) + (sk - su), c)
      <4> DEFINE aa == r1 - rb
                 tt == su - sb
                 dd == sk - su
      <4>1. aa \in Nat /\ tt \in Nat /\ dd \in Nat /\ Lesser(aa, c) = Lesser(tt, c)
        BY <3>5
      <4> HIDE DEF aa, tt, dd, c
      <4>2. Lesser(aa + Lesser(dd, c), c) = Lesser(tt + dd, c)
        BY <1>0, <4>1, CapAdds
      <4> QED BY <4>2 DEF aa, tt, dd
    <3>7. l \in Nat
      BY <1>0, <3>5 DEF Lesser
    <3>8. (r1 - rb) + l = R(k) - rb /\ (su - sb) + (sk - su) = sk - sb
      <4> DEFINE rk == R(k)
      <4>1. rk = r1 + l /\ r1 \in Nat /\ rb \in Nat /\ l \in Nat
            /\ su \in Nat /\ sb \in Nat /\ sk \in Nat
        BY <2>4, <2>5, <3>4, <3>7
      <4> HIDE DEF r1, rb, l, su, sb, sk, rk
      <4>2. (r1 - rb) + l = rk - rb /\ (su - sb) + (sk - su) = sk - sb
        BY <4>1
      <4> QED BY <4>2 DEF rk
    <3>9. Good(k)
      BY <2>1, <3>2, <3>6, <3>8, <1>0
    <3> QED BY <2>1, <3>9
  <2>9. CASE ~h[k].accept
    <3>1. LastAt(s, h, k) = LastAt(s, h, k - 1)
      BY <1>2, <2>1, <2>9
    <3>2. v = u
      BY <3>1 DEF BaseSince
    <3>3. BankStep(s, h, f, k) = 0
      BY <2>9 DEF BankStep
    <3>4. R(k) = R(k - 1)
      BY <2>5, <3>3
    <3>5. B(k) \in b .. k
      BY <2>1, <2>3, <3>2
    <3>6. Good(k)
      BY <2>6, <3>2, <3>4, <3>5
    <3> QED BY <2>1, <3>6
  <2> QED BY <2>8, <2>9
<1>5. b .. Len(h) \subseteq T
  <2>1. b \in Int /\ Len(h) \in Int
    BY <1>0
  <2> HIDE DEF T
  <2> QED BY <1>3, <1>4, <2>1, Along
<1> QED BY <1>5


\* Rows fed later change none of this.
LEMMA BankGrows ==
  ASSUME NEW s \in Settings, NEW h \in Streams(s), NEW c \in Streams(s),
         NEW f \in 1 .. Len(h) + 1, NEW k \in 1 .. Len(h)
  PROVE  /\ BankStep(s, h \o c, f, k) = BankStep(s, h, f, k)
         /\ f <= k => (BankGap(s, h \o c, f, k) <=> BankGap(s, h, f, k))
<1> DEFINE g == h \o c
           b == BaseSince(s, h, f, k - 1)
           bg == BaseSince(s, g, f, k - 1)
<1>1. g \in Streams(s) /\ Len(g) = Len(h) + Len(c) /\ Len(c) \in Nat /\ Len(h) \in Nat
  BY TrailGrows DEF Streams
<1>2. k \in 0 .. Len(h) /\ k - 1 \in 0 .. Len(h)
  BY <1>1
<1>3. LastAt(s, g, k - 1) = LastAt(s, h, k - 1) /\ Steps(s, g, k) = Steps(s, h, k) /\ g[k] = h[k]
  BY <1>2, MarksGrow
<1>4. LastAt(s, h, k - 1) \in 0 .. k - 1
  BY <1>2, LastIs
<1>5. bg = b
  BY <1>3 DEF BaseSince
<1>6. ASSUME f <= k
      PROVE  Steps(s, g, bg) = Steps(s, h, b)
  <2>1. b \in 0 .. Len(h)
    BY <1>2, <1>4, <1>6 DEF BaseSince, LaterOf
  <2>2. Steps(s, g, b) = Steps(s, h, b)
    BY <2>1, MarksGrow
  <2> QED BY <1>5, <2>2
<1>7. PastCapAt(s, g, k) = PastCapAt(s, h, k)
  BY <1>2, BasesGrow
<1>8. BankStep(s, g, f, k) = BankStep(s, h, f, k)
  <2> DEFINE tg == Steps(s, g, k) - Steps(s, g, bg)
             th == Steps(s, h, k) - Steps(s, h, b)
  <2>1. /\ BankStep(s, g, f, k) = (IF k <= f \/ ~g[k].accept THEN 0 ELSE Lesser(tg, s.clk.cap))
        /\ BankStep(s, h, f, k) = (IF k <= f \/ ~h[k].accept THEN 0 ELSE Lesser(th, s.clk.cap))
    BY DEF BankStep
  <2>2. CASE k <= f
    BY <2>1, <2>2
  <2>3. CASE ~(k <= f)
    <3>1. f <= k
      BY <1>2, <2>3
    <3>2. tg = th
      BY <1>3, <1>6, <3>1
    <3> QED BY <1>3, <2>1, <3>2
  <2> QED BY <2>2, <2>3
<1>9. ASSUME f <= k PROVE BankGap(s, g, f, k) <=> BankGap(s, h, f, k)
  <2> DEFINE tg == Steps(s, g, k) - Steps(s, g, bg)
             th == Steps(s, h, k) - Steps(s, h, b)
  <2>1. /\ BankGap(s, g, f, k) <=> PastCapAt(s, g, k) \/ (g[k].accept /\ tg > s.clk.cap)
        /\ BankGap(s, h, f, k) <=> PastCapAt(s, h, k) \/ (h[k].accept /\ th > s.clk.cap)
    BY DEF BankGap
  <2>2. tg = th
    BY <1>3, <1>6, <1>9
  <2> QED BY <1>3, <1>7, <2>1, <2>2
<1> QED BY <1>8, <1>9

LEMMA SumsGrow ==
  ASSUME NEW s \in Settings, NEW h \in Streams(s), NEW c \in Streams(s), NEW k \in 0 .. Len(h)
  PROVE  /\ DSum(s, h \o c, k) = DSum(s, h, k)
         /\ \A f \in 1 .. Len(h) + 1 : BSum(s, h \o c, f, k) = BSum(s, h, f, k)
<1> DEFINE g == h \o c
<1>1. g \in Streams(s) /\ Len(g) = Len(h) + Len(c) /\ Len(c) \in Nat /\ Len(h) \in Nat
  BY TrailGrows DEF Streams
<1>2. Len(g) \in Nat /\ 0 \in 0 .. Len(g) /\ 0 \in 0 .. Len(h) /\ k \in 0 .. Len(g) /\ k \in 0 .. Len(h)
  BY <1>1
<1>3. DSum(s, g, k) = DSum(s, h, k)
  <2> DEFINE u == [i \in 1 .. Len(g) |-> DAt(s, g, i)]
             v == [i \in 1 .. Len(h) |-> DAt(s, h, i)]
  <2>1. u \in [1 .. Len(g) -> Nat] /\ v \in [1 .. Len(h) -> Nat]
    <3> HIDE DEF g
    <3> QED BY <1>1, DAtIs
  <2>2. ASSUME NEW j \in 0 + 1 .. k PROVE u[j] = v[j]
    <3>1. j \in 1 .. Len(h) /\ j \in 1 .. Len(g)
      BY <1>1
    <3>2. DAt(s, g, j) = DAt(s, h, j)
      BY <3>1, PlaceGrows
    <3> QED BY <3>1, <3>2
  <2>3. /\ DSum(s, g, k) = RunSum(Len(g), u)[k] /\ DSum(s, g, 0) = RunSum(Len(g), u)[0]
        /\ DSum(s, h, k) = RunSum(Len(h), v)[k] /\ DSum(s, h, 0) = RunSum(Len(h), v)[0]
    BY DEF DSum
  <2>4. DSum(s, g, 0) = 0 /\ DSum(s, h, 0) = 0 /\ DSum(s, g, k) \in Nat /\ DSum(s, h, k) \in Nat
    <3> HIDE DEF g
    <3> QED BY <1>1, <1>2, DSumIs
  <2> HIDE DEF u, v, g
  <2>5. RunSum(Len(g), u)[k] - RunSum(Len(g), u)[0] = RunSum(Len(h), v)[k] - RunSum(Len(h), v)[0]
    BY <1>1, <1>2, <2>1, <2>2, RunSumSame
  <2> QED BY <2>3, <2>4, <2>5
<1>4. ASSUME NEW f \in 1 .. Len(h) + 1
      PROVE  BSum(s, g, f, k) = BSum(s, h, f, k)
  <2> DEFINE u == [i \in 1 .. Len(g) |-> BankStep(s, g, f, i)]
             v == [i \in 1 .. Len(h) |-> BankStep(s, h, f, i)]
  <2>0. f \in 1 .. Len(g) + 1
    BY <1>1
  <2>1. u \in [1 .. Len(g) -> Nat] /\ v \in [1 .. Len(h) -> Nat]
    <3> HIDE DEF g
    <3> QED BY <1>1, <2>0, BankStepIs
  <2>2. ASSUME NEW j \in 0 + 1 .. k PROVE u[j] = v[j]
    <3>1. j \in 1 .. Len(h) /\ j \in 1 .. Len(g)
      BY <1>1
    <3>2. BankStep(s, g, f, j) = BankStep(s, h, f, j)
      BY <3>1, BankGrows
    <3> QED BY <3>1, <3>2
  <2>3. /\ BSum(s, g, f, k) = RunSum(Len(g), u)[k] /\ BSum(s, g, f, 0) = RunSum(Len(g), u)[0]
        /\ BSum(s, h, f, k) = RunSum(Len(h), v)[k] /\ BSum(s, h, f, 0) = RunSum(Len(h), v)[0]
    BY DEF BSum
  <2>4. BSum(s, g, f, 0) = 0 /\ BSum(s, h, f, 0) = 0 /\ BSum(s, g, f, k) \in Nat
        /\ BSum(s, h, f, k) \in Nat
    <3> HIDE DEF g
    <3> QED BY <1>1, <1>2, <2>0, BSumIs
  <2> HIDE DEF u, v, g
  <2>5. RunSum(Len(g), u)[k] - RunSum(Len(g), u)[0] = RunSum(Len(h), v)[k] - RunSum(Len(h), v)[0]
    BY <1>1, <1>2, <2>1, <2>2, RunSumSame
  <2> QED BY <2>3, <2>4, <2>5
<1> QED BY <1>3, <1>4

\* The last row learned, or the one before the epoch.
LEMMA FrontSound ==
  ASSUME NEW s \in Settings, NEW h \in Streams(s), NEW x, Sound(s, h, x)
  PROVE  LET e == EpochAt(s, h, x.row)
             f == FrontAt(s, h, x)
         IN  /\ x.row \in 0 .. Len(h) /\ Len(h) \in Nat
             /\ e \in 1 .. x.row + 1 /\ (x.row > 0 => e <= x.row) /\ (x.row = 0 => e = 1)
             /\ f \in e - 1 .. x.row /\ (x.last = 0 <=> f = e - 1)
             /\ f >= e => f = x.last /\ h[f].accept
             /\ \A j \in e + 1 .. x.row : ~ResetAt(s, h, j)
             /\ x.last # 0 => x.last \in e .. x.row
<1> DEFINE e == EpochAt(s, h, x.row)
           f == FrontAt(s, h, x)
<1>1. x.row \in 0 .. Len(h) /\ Len(h) \in Nat /\ x.last \in 0 .. x.row
  BY DEF Sound, Ledger, Streams
<1>2. /\ e \in 1 .. x.row + 1 /\ (x.row > 0 => e <= x.row) /\ (x.row = 0 => e = 1)
      /\ \A j \in e + 1 .. x.row : ~ResetAt(s, h, j)
  <2>1. /\ e \in Nat /\ e >= 1 /\ (x.row >= 1 => e <= x.row) /\ (x.row = 0 => e = 1)
        /\ \A j \in e + 1 .. x.row : ~ResetAt(s, h, j)
    BY <1>1, EpochIs
  <2> QED BY <1>1, <2>1
<1>3. /\ x.last # 0 => /\ Len(x.learnt) > 0 /\ x.last = x.learnt[Len(x.learnt)] /\ x.last >= e
      /\ \A i \in 1 .. Len(x.learnt) : x.learnt[i] >= e => HasLesson(s, h[x.learnt[i]])
      /\ Len(x.learnt) \in Nat
  <2>1. InLearnt(s, h, x, e, x.now) /\ x.learnt \in Seq(1 .. x.row)
    BY DEF Sound, Books, Ledger
  <2> QED BY <2>1 DEF InLearnt
<1>4. f = IF x.last = 0 THEN e - 1 ELSE x.last
  BY DEF FrontAt, Frontier
<1>5. ASSUME x.last # 0 PROVE h[x.last].accept
  <2>1. Len(x.learnt) \in 1 .. Len(x.learnt)
    BY <1>3, <1>5
  <2> QED BY <1>3, <1>5, <2>1 DEF HasLesson
<1>6. f \in e - 1 .. x.row /\ (x.last = 0 <=> f = e - 1) /\ (f >= e => f = x.last /\ h[f].accept)
      /\ (x.last # 0 => x.last \in e .. x.row)
  <2> HIDE DEF e, f
  <2> QED BY <1>1, <1>2, <1>3, <1>4, <1>5
<1> QED BY <1>1, <1>2, <1>6


\* Between two rows of one count none is accepted.
LEMMA NoneBetween ==
  ASSUME NEW s \in Settings, NEW h \in Streams(s), NEW a \in 0 .. Len(h), NEW b \in a .. Len(h),
         Count(s, h, b) = Count(s, h, a)
  PROVE  \A j \in a + 1 .. b : ~h[j].accept
<1> SUFFICES ASSUME NEW j \in a + 1 .. b, h[j].accept PROVE FALSE
  OBVIOUS
<1>1. Len(h) \in Nat /\ j \in 1 .. Len(h) /\ j - 1 \in a .. Len(h) /\ b \in j .. Len(h)
      /\ j \in 0 .. Len(h) /\ j - 1 \in 0 .. Len(h) /\ b \in 0 .. Len(h)
  BY DEF Streams
<1>2. Count(s, h, j) = Count(s, h, j - 1) + One(h[j].accept)
  BY <1>1, MarkNext
<1>3. Count(s, h, a) <= Count(s, h, j - 1) /\ Count(s, h, j) <= Count(s, h, b)
  BY <1>1, MarksRise
<1>4. Count(s, h, j) \in Nat /\ Count(s, h, j - 1) \in Nat /\ Count(s, h, a) \in Nat
      /\ Count(s, h, b) \in Nat
  BY <1>1, MarkIs
<1>5. Count(s, h, j) = Count(s, h, j - 1) + 1
  BY <1>2 DEF One
<1> QED BY <1>3, <1>4, <1>5

\* The row last accepted, seen past rows that are skipped.
LEMMA LastPast ==
  ASSUME NEW s \in Settings, NEW h \in Streams(s), NEW a \in 0 .. Len(h), NEW b \in a .. Len(h),
         \A j \in a + 1 .. b : ~h[j].accept
  PROVE  /\ LastAt(s, h, b) \in 0 .. a
         /\ a > 0 /\ h[a].accept => LastAt(s, h, b) = a
<1>1. b \in 0 .. Len(h) /\ a \in Nat /\ b \in Nat /\ Len(h) \in Nat
  BY DEF Streams
<1> DEFINE l == LastAt(s, h, b)
<1>2. l \in 0 .. b /\ (l # 0 => h[l].accept) /\ \A j \in l + 1 .. b : ~h[j].accept
  BY <1>1, LastIs
<1> HIDE DEF l
<1>3. l <= a
  <2> SUFFICES ASSUME l > a PROVE FALSE
    BY <1>1, <1>2
  <2>1. l \in a + 1 .. b /\ l # 0
    BY <1>1, <1>2
  <2> QED BY <1>2, <2>1
<1>4. ASSUME a > 0, h[a].accept PROVE l = a
  <2> SUFFICES ASSUME l < a PROVE FALSE
    BY <1>1, <1>2, <1>3
  <2>1. a \in l + 1 .. b
    BY <1>1, <1>2
  <2> QED BY <1>2, <1>4, <2>1
<1>5. l \in 0 .. a
  BY <1>1, <1>2, <1>3
<1> QED BY <1>4, <1>5 DEF l

\* In line, the rows between the last one learned and the first one held are
\* skipped ones.
LEMMA QueueHead ==
  ASSUME NEW s \in Settings, NEW h \in Streams(s), NEW x, Sound(s, h, x), ~Lab(s) \/ s.by > 0
  PROVE  LET f == FrontAt(s, h, x)
         IN  /\ x.queue = <<>> => \A j \in f + 1 .. x.row : ~h[j].accept
             /\ x.queue # <<>> =>
                  /\ x.queue[1] \in f + 1 .. x.row /\ h[x.queue[1]].accept
                  /\ \A j \in f + 1 .. x.queue[1] - 1 : ~h[j].accept
<1> DEFINE e == EpochAt(s, h, x.row)
           f == FrontAt(s, h, x)
           q == x.queue
<1>1. /\ x.row \in 0 .. Len(h) /\ Len(h) \in Nat /\ f \in e - 1 .. x.row /\ e \in 1 .. x.row + 1
  BY FrontSound
<1>2. q \in Seq(1 .. x.row) /\ Books(s, h, x, e, x.row, x.now)
  BY DEF Sound, Ledger
<1>3. /\ Len(q) = Count(s, h, x.row) - Count(s, h, f)
      /\ \A i \in 1 .. Len(q) : Count(s, h, q[i]) = Count(s, h, f) + i
      /\ \A i \in 1 .. Len(q) : HasLesson(s, h[q[i]])
  <2>1. InLine(s, h, x, e, x.row) /\ InQueue(s, h, x, e)
    BY <1>2 DEF Books
  <2>2. f = Frontier(x, e)
    BY DEF FrontAt
  <2>3. \A i \in 1 .. Len(q) : HasLesson(s, h[q[i]])
    BY <2>1 DEF InQueue
  <2> QED BY <2>1, <2>2, <2>3 DEF InLine
<1>4. f \in 0 .. Len(h) /\ x.row \in f .. Len(h) /\ f \in Nat
  <2> HIDE DEF e, f
  <2> QED BY <1>1
<1> HIDE DEF e, f
<1>5. Count(s, h, f) \in Nat /\ Count(s, h, x.row) \in Nat
  BY <1>1, <1>4, MarkIs
<1>6. ASSUME q = <<>> PROVE \A j \in f + 1 .. x.row : ~h[j].accept
  <2>1. Len(q) = 0
    BY <1>6
  <2>2. Count(s, h, x.row) = Count(s, h, f)
    BY <1>3, <1>5, <2>1
  <2> QED BY <1>4, <2>2, NoneBetween
<1>7. ASSUME q # <<>>
      PROVE  /\ q[1] \in f + 1 .. x.row /\ h[q[1]].accept
             /\ \A j \in f + 1 .. q[1] - 1 : ~h[j].accept
  <2>1. 1 \in 1 .. Len(q) /\ q[1] \in 1 .. x.row
    <3>1. Len(q) \in Nat /\ Len(q) # 0
      BY <1>2, <1>7
    <3>2. 1 \in 1 .. Len(q)
      BY <3>1
    <3> QED BY <1>2, <3>2, ElementOfSeq
  <2> DEFINE k == q[1]
  <2>2. Count(s, h, k) = Count(s, h, f) + 1 /\ h[k].accept
    BY <1>3, <2>1 DEF HasLesson
  <2> HIDE DEF k
  <2>3. k \in 1 .. Len(h) /\ k \in 1 .. x.row
    BY <1>1, <2>1 DEF k
  <2>4. k > f
    <3> SUFFICES ASSUME k <= f PROVE FALSE
      BY <1>4, <2>3
    <3>1. k \in 0 .. Len(h) /\ f \in k .. Len(h)
      BY <1>4, <2>3
    <3>2. Count(s, h, k) <= Count(s, h, f)
      BY <3>1, MarksRise
    <3> QED BY <1>5, <2>2, <3>2
  <2>5. Count(s, h, k) = Count(s, h, k - 1) + One(h[k].accept)
    BY <2>3, MarkNext
  <2>6. k - 1 \in f .. Len(h) /\ k - 1 \in 0 .. Len(h)
    BY <1>4, <2>3, <2>4
  <2>7. Count(s, h, k - 1) = Count(s, h, f)
    <3>1. Count(s, h, k - 1) \in Nat
      BY <2>6, MarkIs
    <3> QED BY <1>5, <2>2, <2>5, <3>1 DEF One
  <2>8. \A j \in f + 1 .. k - 1 : ~h[j].accept
    BY <1>4, <2>6, <2>7, NoneBetween
  <2>9. k \in f + 1 .. x.row
    BY <1>4, <2>3, <2>4
  <2> QED BY <2>2, <2>8, <2>9 DEF k
<1> QED BY <1>6, <1>7 DEF f


\* The step a row reads that is the first after a drift.
LEMMA FreshIs ==
  ASSUME NEW s \in Settings, NEW h \in Streams(s), s.drift, NEW k \in 1 .. Len(h), h[k].accept,
         NEW f \in EpochAt(s, h, k) .. k - 1, LastAt(s, h, k - 1) = f
  PROVE  FreshAt(s, h, k) = BankStep(s, h, f + 1, k)
<1>0. Len(h) \in Nat /\ s.clk.cap \in Nat
  BY SettingIs DEF Streams
<1>1. EpochAt(s, h, k) \in 1 .. k
      /\ EpochAt(s, h, k) = IF k = 1 \/ ResetAt(s, h, k) THEN k ELSE EpochAt(s, h, k - 1)
  BY BaseIs
<1>2. ~ResetAt(s, h, k) /\ EpochAt(s, h, k - 1) = EpochAt(s, h, k) /\ f \in 1 .. k - 1
  BY <1>1
<1>3. CASE f = k - 1
  <2>1. Follows(s, h, k)
    BY <1>3 DEF Follows
  <2>2. FreshAt(s, h, k) = 0
    BY <2>1 DEF FreshAt
  <2>3. k <= f + 1
    BY <1>3, <1>2
  <2>4. BankStep(s, h, f + 1, k) = 0
    BY <2>3 DEF BankStep
  <2> QED BY <2>2, <2>4
<1>4. CASE f # k - 1
  <2>1. ~Follows(s, h, k)
    BY <1>4 DEF Follows
  <2>2. FoldAt(s, h, k - 1) = f + 1
    <3>1. FoldAt(s, h, k - 1) = LaterOf(f + 1, EpochAt(s, h, k))
      BY <1>2 DEF FoldAt
    <3> DEFINE e == EpochAt(s, h, k)
    <3>2. f \in Int /\ e \in Int /\ e <= f
      BY <1>1
    <3> HIDE DEF e
    <3>3. LaterOf(f + 1, e) = f + 1
      BY <3>2 DEF LaterOf
    <3> QED BY <3>1, <3>3 DEF e
  <2>3. BaseSince(s, h, f + 1, k - 1) = f + 1
    <3>1. f \in Int
      BY <1>2
    <3> QED BY <3>1 DEF BaseSince, LaterOf
  <2> DEFINE d == Steps(s, h, k) - Steps(s, h, f + 1)
  <2>4. FreshAt(s, h, k) = Lesser(d, s.clk.cap)
    BY <1>2, <2>1, <2>2 DEF FreshAt, TotalSince
  <2>5. ~(k <= f + 1)
    BY <1>2, <1>4
  <2>6. BankStep(s, h, f + 1, k) = Lesser(d, s.clk.cap)
    BY <2>3, <2>5 DEF BankStep
  <2> QED BY <2>4, <2>6
<1> QED BY <1>3, <1>4

LEMMA FreshTyped ==
  ASSUME NEW s \in Settings, NEW h \in Streams(s), NEW k \in 1 .. Len(h)
  PROVE  /\ FreshAt(s, h, k) \in 0 .. s.clk.cap
         /\ ResetAt(s, h, k) => FreshAt(s, h, k) = 0 /\ DAt(s, h, k) = 0
<1>0. Len(h) \in Nat /\ s.clk.cap \in Nat /\ k - 1 \in 0 .. Len(h)
  BY SettingIs DEF Streams
<1> DEFINE b == FoldAt(s, h, k - 1)
           t == TotalSince(s, h, b, k)
<1>1. FreshAt(s, h, k) = 0 \/ (~Follows(s, h, k) /\ FreshAt(s, h, k) = Lesser(t, s.clk.cap))
  BY DEF FreshAt
<1>2. ResetAt(s, h, k) => t = 0 /\ TotalAt(s, h, k) = 0
  BY DEF TotalSince, TotalAt
<1>3. ASSUME ~ResetAt(s, h, k), ~Follows(s, h, k) PROVE t \in Nat
  <2>1. t = Steps(s, h, k) - Steps(s, h, b)
    BY <1>3 DEF TotalSince
  <2>2. LastAt(s, h, k - 1) \in 0 .. k - 1 /\ LastAt(s, h, k - 1) # k - 1
    BY <1>0, <1>3, LastIs DEF Follows
  <2>3. EpochAt(s, h, k - 1) \in 0 .. k
    <3>1. EpochAt(s, h, k - 1) \in Nat /\ (k - 1 >= 1 => EpochAt(s, h, k - 1) <= k - 1)
          /\ (k - 1 = 0 => EpochAt(s, h, k - 1) = 1)
      BY <1>0, EpochIs
    <3> QED BY <3>1
  <2>4. b \in 0 .. k
    <3> DEFINE l == LastAt(s, h, k - 1)
               e == EpochAt(s, h, k - 1)
    <3>1. l \in 0 .. k - 1 /\ e \in 0 .. k /\ b = LaterOf(l + 1, e)
      BY <2>2, <2>3 DEF FoldAt
    <3> HIDE DEF l, e, b
    <3> QED BY <3>1 DEF LaterOf
  <2> HIDE DEF b
  <2>5. b \in 0 .. Len(h) /\ k \in b .. Len(h) /\ k \in 0 .. Len(h)
    BY <1>0, <2>4
  <2>6. Steps(s, h, b) \in Nat /\ Steps(s, h, k) \in Nat /\ Steps(s, h, b) <= Steps(s, h, k)
    BY <2>5, MarkIs, MarksRise
  <2> QED BY <2>1, <2>6
<1>4. Lesser(0, s.clk.cap) = 0 /\ \A a \in Nat : Lesser(a, s.clk.cap) \in 0 .. s.clk.cap
  BY <1>0 DEF Lesser
<1> HIDE DEF t
<1>5. FreshAt(s, h, k) \in 0 .. s.clk.cap
  <2>1. CASE FreshAt(s, h, k) = 0
    BY <1>0, <2>1
  <2>2. CASE ~(FreshAt(s, h, k) = 0)
    <3>1. FreshAt(s, h, k) = Lesser(t, s.clk.cap) /\ ~Follows(s, h, k)
      BY <1>1, <2>2
    <3>2. t \in Nat
      BY <1>2, <1>3, <3>1
    <3> QED BY <1>4, <3>1, <3>2
  <2> QED BY <2>1, <2>2
<1>6. ASSUME ResetAt(s, h, k) PROVE FreshAt(s, h, k) = 0 /\ DAt(s, h, k) = 0
  <2>1. t = 0 /\ TotalAt(s, h, k) = 0
    BY <1>2, <1>6
  <2>2. FreshAt(s, h, k) = 0
    BY <1>1, <1>4, <2>1
  <2>3. DAt(s, h, k) = 0
    BY <1>4, <2>1 DEF DAt
  <2> QED BY <2>2, <2>3
<1> QED BY <1>5, <1>6

\* The times of labels one delay behind their rows, and the steps of the rows.
LEMMA LabSteps ==
  ASSUME NEW s \in Settings, NEW h \in Streams(s), Legal(s, h), Lab(s),
         NEW n \in 1 .. Len(h), NEW f \in EpochAt(s, h, n) .. n
  PROVE  LET a == h[n].at - h[f].at
             d == Steps(s, h, n) - Steps(s, h, f)
         IN  /\ a \in Nat /\ d \in Nat
             /\ Lesser(a, s.clk.cap) = Lesser(d, s.clk.cap)
             /\ a > s.clk.cap <=> (d > s.clk.cap \/ \E j \in f + 1 .. n : PastCapAt(s, h, j))
<1>0. Len(h) \in Nat /\ s.clk.cap \in Nat /\ EpochAt(s, h, n) \in 1 .. n
  BY SettingIs, BaseIs DEF Streams
<1> DEFINE a(k) == h[k].at - h[f].at
           d(k) == Steps(s, h, k) - Steps(s, h, f)
           c == s.clk.cap
           Past(k) == \E j \in f + 1 .. k : PastCapAt(s, h, j)
           Good(k) == /\ a(k) \in Nat /\ d(k) \in Nat
                      /\ ~Past(k) => a(k) = d(k)
                      /\ Past(k) => a(k) > c /\ d(k) >= c
           T == {k \in f .. n : Good(k)}
<1>1. f \in 1 .. Len(h) /\ f \in Nat /\ n \in Nat /\ f <= n
  BY <1>0
<1>2. f \in T
  <2>1. h[f].at \in Int /\ Steps(s, h, f) \in Nat
    <3>1. f \in 0 .. Len(h)
      BY <1>1
    <3> QED BY <1>1, <3>1, RowIs, MarkIs
  <2>2. a(f) = 0 /\ d(f) = 0
    BY <2>1
  <2>3. ~Past(f)
    BY <1>1
  <2>4. Good(f)
    BY <2>2, <2>3
  <2> QED BY <1>1, <2>4
<1>3. ASSUME NEW k \in f + 1 .. n, k - 1 \in T PROVE k \in T
  <2>1. k \in 2 .. Len(h) /\ k \in f .. n /\ k - 1 \in 1 .. Len(h) /\ k \in 1 .. Len(h)
        /\ k \in EpochAt(s, h, n) + 1 .. n
    BY <1>0, <1>1
  <2>2. ~ResetAt(s, h, k)
    <3>1. n \in 0 .. Len(h)
      BY <1>0
    <3> QED BY <2>1, <3>1, EpochIs
  <2>3. /\ h[k].at \in Int /\ h[k - 1].at \in Int /\ h[k - 1].at <= h[k].at
        /\ StepAt(s, h, k) = Lesser(h[k].at - h[k - 1].at, c)
        /\ PastCapAt(s, h, k) <=> h[k].at - h[k - 1].at > c
    BY <2>1, <2>2, LabPair
  <2>4. Steps(s, h, k) = Steps(s, h, k - 1) + StepAt(s, h, k)
    BY <2>1, MarkNext
  <2>5. Good(k - 1)
    BY <1>3
  <2>6. h[f].at \in Int /\ Steps(s, h, f) \in Nat /\ Steps(s, h, k - 1) \in Nat
    <3>1. f \in 0 .. Len(h) /\ k - 1 \in 0 .. Len(h)
      BY <1>1, <2>1
    <3> QED BY <1>1, <3>1, RowIs, MarkIs
  <2>7. Past(k) <=> Past(k - 1) \/ PastCapAt(s, h, k)
    <3>1. f + 1 .. k = (f + 1 .. k - 1) \cup {k}
      BY <1>1, <2>1
    <3> QED BY <3>1
  <2> DEFINE pk == PastCapAt(s, h, k)
             p1 == Past(k - 1)
             pp == Past(k)
             hk == h[k].at
             h1 == h[k - 1].at
             hf == h[f].at
             sk == Steps(s, h, k)
             s1 == Steps(s, h, k - 1)
             sf == Steps(s, h, f)
             l == Lesser(hk - h1, c)
  <2>8. /\ hk \in Int /\ h1 \in Int /\ hf \in Int /\ s1 \in Nat /\ sf \in Nat /\ c \in Nat
        /\ h1 <= hk /\ sk = s1 + l /\ (pk <=> hk - h1 > c) /\ (pp <=> p1 \/ pk)
        /\ h1 - hf \in Nat /\ s1 - sf \in Nat
        /\ (~p1 => h1 - hf = s1 - sf) /\ (p1 => h1 - hf > c /\ s1 - sf >= c)
    <3> HIDE DEF Past
    <3> QED BY <1>0, <2>3, <2>4, <2>5, <2>6, <2>7
  <2>9. l = IF hk - h1 <= c THEN hk - h1 ELSE c
    BY DEF Lesser
  <2> HIDE DEF pk, p1, pp, hk, h1, hf, sk, s1, sf, l, c
  <2>10. /\ hk - hf \in Nat /\ sk - sf \in Nat /\ (~pp => hk - hf = sk - sf)
         /\ (pp => hk - hf > c /\ sk - sf >= c)
    <3>1. hk - h1 \in Nat /\ l \in Nat
      BY <2>8, <2>9
    <3>2. CASE pk
      <4>1. l = c /\ hk - h1 > c
        BY <2>8, <2>9, <3>2
      <4> QED BY <2>8, <3>1, <3>2, <4>1
    <3>3. CASE ~pk
      <4>1. l = hk - h1
        BY <2>8, <2>9, <3>1, <3>3
      <4> QED BY <2>8, <3>1, <3>3, <4>1
    <3> QED BY <3>2, <3>3
  <2>11. Good(k)
    BY <2>10 DEF pp, hk, hf, sk, sf, c
  <2> QED BY <2>1, <2>11
<1>4. n \in T
  <2>1. f .. n \subseteq T
    <3>1. f \in Int /\ n \in Int
      BY <1>1
    <3> HIDE DEF T
    <3> QED BY <1>2, <1>3, <3>1, Along
  <2>2. n \in f .. n
    BY <1>1
  <2> HIDE DEF T
  <2> QED BY <2>1, <2>2
<1>5. Good(n)
  BY <1>4
<1> DEFINE an == a(n)
           dn == d(n)
           pn == Past(n)
<1>6. an \in Nat /\ dn \in Nat /\ c \in Nat /\ (~pn => an = dn) /\ (pn => an > c /\ dn >= c)
  BY <1>0, <1>5
<1> HIDE DEF an, dn, pn, c
<1>7. an \in Nat /\ dn \in Nat /\ Lesser(an, c) = Lesser(dn, c) /\ (an > c <=> dn > c \/ pn)
  BY <1>6 DEF Lesser
<1> QED BY <1>7 DEF an, dn, pn, c


-----------------------------------------------------------------------------
(* A row learned reads what a bank begun at row st would.                   *)

\* The first row held, and the rows from the last one learned to it.
HeadAt(s, h, x, st, f, e, k) ==
  /\ e = EpochAt(s, h, x.row) /\ f = FrontAt(s, h, x) /\ k = x.queue[1]
  /\ Len(h) \in Nat /\ x.row \in 1 .. Len(h) /\ e \in 1 .. x.row
  /\ f \in e - 1 .. x.row /\ st \in e .. f + 1 /\ k \in f + 1 .. x.row
  /\ EpochAt(s, h, k) = e /\ h[k].accept
  /\ \A j \in f + 1 .. k - 1 : ~h[j].accept
  /\ \A j \in e + 1 .. x.row : ~ResetAt(s, h, j)
  /\ LastAt(s, h, k - 1) \in 0 .. f
  /\ f >= e => LastAt(s, h, k - 1) = f /\ h[f].accept /\ x.last = f
  /\ f < e => x.last = 0

LEMMA HeadIs ==
  ASSUME NEW s \in Settings, NEW h \in Streams(s), NEW x, Sound(s, h, x), x.queue # <<>>,
         ~Lab(s) \/ s.by > 0, NEW i, NEW st, BegunAt(s, h, x, i, st)
  PROVE  HeadAt(s, h, x, st, FrontAt(s, h, x), EpochAt(s, h, x.row), x.queue[1])
<1> DEFINE e == EpochAt(s, h, x.row)
           f == FrontAt(s, h, x)
           k == x.queue[1]
<1>1. /\ x.row \in 0 .. Len(h) /\ Len(h) \in Nat
      /\ e \in 1 .. x.row + 1 /\ (x.row > 0 => e <= x.row) /\ (x.row = 0 => e = 1)
      /\ f \in e - 1 .. x.row /\ (x.last = 0 <=> f = e - 1)
      /\ (f >= e => f = x.last /\ h[f].accept)
      /\ \A j \in e + 1 .. x.row : ~ResetAt(s, h, j)
  BY FrontSound
<1>2. k \in f + 1 .. x.row /\ h[k].accept /\ \A j \in f + 1 .. k - 1 : ~h[j].accept
  BY QueueHead
<1>3. st \in e .. f + 1
  BY DEF BegunAt
<1> HIDE DEF e, f, k
<1>4. x.row \in 1 .. Len(h) /\ e \in 1 .. x.row /\ k \in e .. x.row /\ f \in 0 .. Len(h)
      /\ k - 1 \in f .. Len(h) /\ x.row \in 0 .. Len(h)
  BY <1>1, <1>2
<1>5. EpochAt(s, h, k) = e
  <2>1. \A j \in EpochAt(s, h, x.row) .. x.row : EpochAt(s, h, j) = EpochAt(s, h, x.row)
    BY <1>4, EpochIs
  <2> QED BY <1>4, <2>1 DEF e
<1>6. LastAt(s, h, k - 1) \in 0 .. f /\ (f > 0 /\ h[f].accept => LastAt(s, h, k - 1) = f)
  BY <1>2, <1>4, LastPast
<1>7. f >= e => LastAt(s, h, k - 1) = f /\ h[f].accept /\ x.last = f
  BY <1>1, <1>4, <1>6
<1>8. f < e => x.last = 0
  BY <1>1, <1>4
<1>9. HeadAt(s, h, x, st, f, e, k)
  BY <1>1, <1>2, <1>3, <1>4, <1>5, <1>6, <1>7, <1>8 DEF HeadAt, e, f, k
<1> QED BY <1>9 DEF e, f, k

\* Its step is the one the stream's own clock gave it.
LEMMA LearnStepIs ==
  ASSUME NEW s \in Settings, NEW h \in Streams(s), Legal(s, h), NEW x,
         LikeDelay(s, h, x), NEW st, NEW f, NEW e, NEW k, HeadAt(s, h, x, st, f, e, k)
  PROVE  /\ LearnStep(s, h, x) = DAt(s, h, k)
         /\ Lab(s) /\ x.last # 0 =>
              (LabelStep(h, x) > s.clk.cap <=>
                 \/ Steps(s, h, k) - Steps(s, h, f) > s.clk.cap
                 \/ \E j \in f + 1 .. k : PastCapAt(s, h, j))
<1>0. /\ Len(h) \in Nat /\ x.row \in 1 .. Len(h) /\ e \in 1 .. x.row /\ k = x.queue[1]
      /\ f \in e - 1 .. x.row /\ k \in f + 1 .. x.row /\ EpochAt(s, h, k) = e /\ h[k].accept
      /\ \A j \in f + 1 .. k - 1 : ~h[j].accept
  BY DEF HeadAt
<1>1. CASE ~Lab(s)
  <2>1. LearnStep(s, h, x) = DAt(s, h, k)
    BY <1>0, <1>1 DEF LearnStep
  <2> QED BY <1>1, <2>1
<1>2. CASE Lab(s) /\ x.last = 0
  <2>1. h[e].accept
    <3>1. x.row > 0 /\ e = EpochAt(s, h, x.row)
      BY <1>0 DEF HeadAt
    <3> QED BY <1>2, <3>1 DEF LikeDelay
  <2>2. f = e - 1
    <3>1. f >= e => x.last = f
      BY DEF HeadAt
    <3> QED BY <1>0, <1>2, <3>1
  <2>3. k = e
    <3> SUFFICES ASSUME k # e PROVE FALSE
      OBVIOUS
    <3>1. e \in f + 1 .. k - 1
      BY <1>0, <2>2
    <3> QED BY <1>0, <2>1, <3>1
  <2>4. DAt(s, h, k) = 0
    <3>1. k \in 1 .. Len(h)
      BY <1>0
    <3>2. DAt(s, h, k) = BankStep(s, h, e, k)
      BY <1>0, <3>1, DAtIs
    <3>3. k <= e
      BY <1>0, <2>3
    <3> QED BY <3>2, <3>3 DEF BankStep
  <2>5. LearnStep(s, h, x) = 0
    BY <1>2 DEF LearnStep
  <2> QED BY <1>2, <2>4, <2>5
<1>3. CASE Lab(s) /\ x.last # 0
  <2>1. f >= e /\ x.last = f /\ LastAt(s, h, k - 1) = f
    BY <1>0, <1>3 DEF HeadAt
  <2>2. f \in e .. k /\ k \in 1 .. Len(h) /\ f \in 1 .. Len(h) /\ f \in EpochAt(s, h, k) .. k /\ k > e
    BY <1>0, <2>1
  <2>3. s.by > 0
    BY <1>3 DEF LikeDelay
  <2> DEFINE a == h[k].at - h[f].at
             d == Steps(s, h, k) - Steps(s, h, f)
  <2>4. /\ a \in Nat /\ d \in Nat /\ Lesser(a, s.clk.cap) = Lesser(d, s.clk.cap)
        /\ a > s.clk.cap <=> (d > s.clk.cap \/ \E j \in f + 1 .. k : PastCapAt(s, h, j))
    BY <1>3, <2>2, LabSteps
  <2>5. h[k].label - h[f].label = a
    <3>1. h[k] \in s.rows /\ h[f] \in s.rows /\ h[k].at \in Int /\ h[f].at \in Int /\ s.by \in Nat
      BY <2>2, RowIs, SettingIs
    <3>2. h[k].label = h[k].at + s.by /\ h[f].label = h[f].at + s.by
      BY <1>3, <2>3, <3>1, SettingIs
    <3> DEFINE hk == h[k].at
               hf == h[f].at
    <3>3. h[k].label - h[f].label = (hk + s.by) - (hf + s.by) /\ a = hk - hf
      BY <3>2
    <3>4. hk \in Int /\ hf \in Int /\ s.by \in Int
      BY <3>1
    <3> HIDE DEF hk, hf
    <3>5. (hk + s.by) - (hf + s.by) = hk - hf
      BY <3>4
    <3> QED BY <3>3, <3>5
  <2>6. LabelStep(h, x) = a
    BY <1>0, <2>1, <2>5 DEF LabelStep
  <2>7. LearnStep(s, h, x) = Lesser(a, s.clk.cap)
    BY <1>3, <2>6 DEF LearnStep
  <2>8. DAt(s, h, k) = Lesser(d, s.clk.cap)
    <3>1. DAt(s, h, k) = BankStep(s, h, e, k)
      BY <1>0, <2>2, DAtIs
    <3>2. BaseSince(s, h, e, k - 1) = f
      BY <2>1 DEF BaseSince, LaterOf
    <3>3. ~(k <= e)
      BY <1>0, <2>2
    <3>4. BankStep(s, h, e, k) = Lesser(d, s.clk.cap)
      BY <1>0, <3>2, <3>3 DEF BankStep
    <3> QED BY <3>1, <3>4
  <2> QED BY <2>4, <2>6, <2>7, <2>8
<1> QED BY <1>1, <1>2, <1>3

\* The step the model is handed.
LEMMA LearnReads ==
  ASSUME setting \in Settings, hist \in Streams(setting), Legal(setting, hist), NEW x,
         LikeDelay(setting, hist, x), NEW st, NEW f, NEW e, NEW k,
         HeadAt(setting, hist, x, st, f, e, k),
         NEW i, BegunAt(setting, hist, x, i, st),
         NEW p, NEW z, LearnedTo(setting, hist, x, p, z)
  PROVE  StepRead(i, p) = BankStep(setting, hist, st, k)
<1>0. /\ Len(hist) \in Nat /\ x.row \in 1 .. Len(hist) /\ e \in 1 .. x.row /\ k = x.queue[1]
      /\ f \in e - 1 .. x.row /\ k \in f + 1 .. x.row /\ EpochAt(setting, hist, k) = e
      /\ hist[k].accept /\ st \in e .. f + 1
      /\ \A j \in f + 1 .. k - 1 : ~hist[j].accept
      /\ (f >= e => LastAt(setting, hist, k - 1) = f)
      /\ e = EpochAt(setting, hist, x.row) /\ f = FrontAt(setting, hist, x)
  BY DEF HeadAt
<1>1. /\ ~setting.drift => st = e
      /\ st # e => (~i.restarted => f >= st)
      /\ i.restarted => /\ f = st - 1
                        /\ st = e => ResetAt(setting, hist, e) /\ hist[e].accept
  BY <1>0 DEF BegunAt
<1>2. /\ p.kind = "learn" /\ p.d = LearnStep(setting, hist, x)
      /\ p.fresh = FreshOf(setting, hist, k)
  BY <1>0 DEF LearnedTo
<1>3. StepRead(i, p) = IF ~i.restarted THEN p.d ELSE p.fresh
  BY <1>2 DEF StepRead
<1>4. k \in 1 .. Len(hist) /\ st \in EpochAt(setting, hist, k) .. k
  BY <1>0
<1>5. CASE ~i.restarted
  <2>1. p.d = DAt(setting, hist, k)
    BY <1>2, LearnStepIs
  <2>2. st = EpochAt(setting, hist, k) \/ LastAt(setting, hist, k - 1) >= st
    BY <1>0, <1>1, <1>5
  <2>3. DAt(setting, hist, k) = BankStep(setting, hist, st, k)
    BY <1>4, <2>2, StepSame
  <2> QED BY <1>3, <1>5, <2>1, <2>3
<1>6. CASE i.restarted /\ st = e
  <2>1. k = e
    <3> SUFFICES ASSUME k # e PROVE FALSE
      OBVIOUS
    <3>1. e \in f + 1 .. k - 1
      BY <1>0, <1>1, <1>6
    <3> QED BY <1>0, <1>1, <1>6, <3>1
  <2>2. FreshAt(setting, hist, k) = 0
    BY <1>1, <1>4, <1>6, <2>1, FreshTyped
  <2>3. p.fresh = 0
    BY <1>2, <2>2 DEF FreshOf
  <2>4. k <= st
    BY <1>0, <1>6, <2>1
  <2>5. BankStep(setting, hist, st, k) = 0
    BY <2>4 DEF BankStep
  <2> QED BY <1>3, <1>6, <2>3, <2>5
<1>7. CASE i.restarted /\ st # e
  <2>1. setting.drift /\ f = st - 1 /\ f >= e
    BY <1>0, <1>1, <1>7
  <2>2. ~Lab(setting)
    BY <2>1, SettingIs
  <2>3. f \in EpochAt(setting, hist, k) .. k - 1 /\ LastAt(setting, hist, k - 1) = f /\ f + 1 = st
    BY <1>0, <2>1
  <2>4. FreshAt(setting, hist, k) = BankStep(setting, hist, f + 1, k)
    BY <1>0, <1>4, <2>1, <2>3, FreshIs
  <2>5. p.fresh = FreshAt(setting, hist, k)
    BY <1>2, <2>2 DEF FreshOf
  <2> QED BY <1>3, <1>7, <2>3, <2>4, <2>5
<1> QED BY <1>5, <1>6, <1>7

\* What is told of the rows before it: the session changes and the gaps of a
\* bank's clock since the row learned last.
ToldOf(s, h, st, f, k, events) ==
  /\ events \cap {"session", "gap"} = {} <=>
       \A j \in f + 1 .. k : ~ChangedAt(h, j) /\ ~BankGap(s, h, st, j)
  /\ "blend" \in events <=> \E j \in f + 1 .. k : ChangedAt(h, j)

LEMMA DelayTold ==
  ASSUME NEW s \in Settings, NEW h \in Streams(s), ~Lab(s), NEW x, NEW st, NEW f, NEW e, NEW k,
         HeadAt(s, h, x, st, f, e, k), f >= st
  PROVE  ToldOf(s, h, st, f, k, EventsOf(s, h, k))
<1>0. /\ Len(h) \in Nat /\ x.row \in 1 .. Len(h) /\ e \in 1 .. x.row
      /\ f \in e - 1 .. x.row /\ k \in f + 1 .. x.row /\ EpochAt(s, h, k) = e
      /\ st \in e .. f + 1
      /\ \A j \in f + 1 .. k - 1 : ~h[j].accept
      /\ \A j \in e + 1 .. x.row : ~ResetAt(s, h, j)
      /\ (f >= e => LastAt(s, h, k - 1) = f /\ h[f].accept)
  BY DEF HeadAt
<1>1. f >= e /\ LastAt(s, h, k - 1) = f /\ h[f].accept /\ st \in e .. f /\ f \in 1 .. Len(h)
      /\ k \in 1 .. Len(h) /\ f \in e .. k - 1
  BY <1>0
<1>2. BreakFrom(s, h, k) = f + 1
  <2>1. f + 1 >= e
    BY <1>0, <1>1
  <2> QED BY <1>0, <1>1, <2>1 DEF BreakFrom, LaterOf
<1>3. ASSUME NEW j \in f + 1 .. k
      PROVE  ~ResetAt(s, h, j) /\ (GapAt(s, h, j) <=> BankGap(s, h, st, j))
  <2>1. j \in 1 .. Len(h) /\ j \in e + 1 .. x.row /\ j - 1 \in f .. Len(h) /\ f \in 0 .. Len(h)
    BY <1>0, <1>1
  <2>2. ~ResetAt(s, h, j)
    BY <1>0, <2>1
  <2>3. EpochAt(s, h, j) = e
    <3>1. \A i \in EpochAt(s, h, k) .. k : EpochAt(s, h, i) = EpochAt(s, h, k)
      <4>1. k \in 0 .. Len(h)
        BY <1>1
      <4> QED BY <4>1, EpochIs
    <3>2. j \in e .. k
      BY <1>0, <1>1
    <3> QED BY <1>0, <3>1, <3>2
  <2>4. LastAt(s, h, j - 1) = f
    <3>1. \A i \in f + 1 .. j - 1 : ~h[i].accept
      BY <1>0, <1>1
    <3>2. f > 0
      BY <1>1
    <3> QED BY <1>1, <2>1, <3>1, <3>2, LastPast
  <2>5. st \in EpochAt(s, h, j) .. j /\ LastAt(s, h, j - 1) >= st
    BY <1>0, <1>1, <2>3, <2>4
  <2> QED BY <2>1, <2>2, <2>5, StepSame
<1> DEFINE E == EventsOf(s, h, k)
           R == f + 1 .. k
<1>4. \A v : v \in E <=> \E j \in R : v \in EventsAt(s, h, j)
  BY <1>2 DEF EventsOf
<1>5. ASSUME NEW j \in R
      PROVE  /\ "session" \in EventsAt(s, h, j) <=> ChangedAt(h, j)
             /\ "blend" \in EventsAt(s, h, j) <=> ChangedAt(h, j)
             /\ "gap" \in EventsAt(s, h, j) <=> BankGap(s, h, st, j)
  BY <1>3 DEF EventsAt
<1> HIDE DEF E, R
<1>6. "session" \in E <=> \E j \in R : ChangedAt(h, j)
  BY <1>4, <1>5
<1>7. "blend" \in E <=> \E j \in R : ChangedAt(h, j)
  BY <1>4, <1>5
<1>8. "gap" \in E <=> \E j \in R : BankGap(s, h, st, j)
  BY <1>4, <1>5
<1>9. E \cap {"session", "gap"} = {} <=> "session" \notin E /\ "gap" \notin E
  OBVIOUS
<1>10. E \cap {"session", "gap"} = {} <=> \A j \in R : ~ChangedAt(h, j) /\ ~BankGap(s, h, st, j)
  BY <1>6, <1>8, <1>9
<1> QED BY <1>7, <1>10 DEF ToldOf, E, R

LEMMA LabelTold ==
  ASSUME NEW s \in Settings, NEW h \in Streams(s), Legal(s, h), Lab(s), NEW x,
         LikeDelay(s, h, x), NEW st, NEW f, NEW e, NEW k,
         HeadAt(s, h, x, st, f, e, k), f >= st
  PROVE  ToldOf(s, h, st, f, k, LearnEvents(s, h, x))
<1>0. /\ Len(h) \in Nat /\ x.row \in 1 .. Len(h) /\ e \in 1 .. x.row
      /\ f \in e - 1 .. x.row /\ k \in f + 1 .. x.row /\ h[k].accept
      /\ st \in e .. f + 1
      /\ \A j \in f + 1 .. k - 1 : ~h[j].accept
      /\ \A j \in e + 1 .. x.row : ~ResetAt(s, h, j)
      /\ (f >= e => LastAt(s, h, k - 1) = f /\ x.last = f)
  BY DEF HeadAt
<1>1. f >= e /\ LastAt(s, h, k - 1) = f /\ x.last = f /\ x.last # 0 /\ f \in 1 .. Len(h)
      /\ k \in 1 .. Len(h)
  BY <1>0
<1> DEFINE R == f + 1 .. k
           E == LearnEvents(s, h, x)
<1>2. ASSUME NEW j \in R PROVE ~ChangedAt(h, j)
  <2>1. j \in 2 .. Len(h) /\ j \in e + 1 .. x.row
    BY <1>0, <1>1
  <2> QED BY <1>0, <2>1, LabPair
<1>3. LabelStep(h, x) > s.clk.cap <=> \E j \in R : BankGap(s, h, st, j)
  <2>1. LabelStep(h, x) > s.clk.cap <=>
          \/ Steps(s, h, k) - Steps(s, h, f) > s.clk.cap
          \/ \E j \in R : PastCapAt(s, h, j)
    BY <1>1, LearnStepIs
  <2>2. BaseSince(s, h, st, k - 1) = f
    BY <1>1 DEF BaseSince, LaterOf
  <2>3. BankGap(s, h, st, k) <=>
          PastCapAt(s, h, k) \/ Steps(s, h, k) - Steps(s, h, f) > s.clk.cap
    BY <1>0, <2>2 DEF BankGap
  <2>4. ASSUME NEW j \in R, j # k PROVE BankGap(s, h, st, j) <=> PastCapAt(s, h, j)
    <3>1. j \in f + 1 .. k - 1
      BY <1>0, <2>4
    <3>2. ~h[j].accept
      BY <1>0, <3>1
    <3> QED BY <3>2 DEF BankGap
  <2>5. k \in R
    BY <1>0
  <2> HIDE DEF R
  <2> QED BY <2>1, <2>3, <2>4, <2>5
<1>4. E = IF LabelStep(h, x) > s.clk.cap THEN {"gap"} ELSE {}
  BY <1>1 DEF LearnEvents
<1> HIDE DEF R, E
<1>5. "blend" \notin E
  BY <1>4
<1>6. E \cap {"session", "gap"} = {} <=> ~(LabelStep(h, x) > s.clk.cap)
  BY <1>4
<1>7. E \cap {"session", "gap"} = {} <=> \A j \in R : ~ChangedAt(h, j) /\ ~BankGap(s, h, st, j)
  BY <1>2, <1>3, <1>6
<1>8. "blend" \in E <=> \E j \in R : ChangedAt(h, j)
  BY <1>2, <1>5
<1> QED BY <1>7, <1>8 DEF ToldOf, R, E

\* What the model is handed with the row.
ReadOf(i, p, rd) ==
  /\ rd.d = StepRead(i, p) /\ rd.paired = Lagged(i, p)
  /\ rd.blended = (i.fit /\ "blend" \in p.events)

LEMMA LearnHands ==
  ASSUME setting \in Settings, hist \in Streams(setting), Legal(setting, hist), NEW x,
         LikeDelay(setting, hist, x), NEW st, NEW f, NEW e, NEW k,
         HeadAt(setting, hist, x, st, f, e, k),
         NEW i, BegunAt(setting, hist, x, i, st),
         NEW p, NEW z, LearnedTo(setting, hist, x, p, z), NEW rd, ReadOf(i, p, rd)
  PROVE  HandedAt(setting, hist, st, k, rd)
<1> DEFINE s == setting
           h == hist
           l == LastAt(s, h, k - 1)
<1>0. /\ Len(h) \in Nat /\ x.row \in 1 .. Len(h) /\ e \in 1 .. x.row /\ k = x.queue[1]
      /\ f \in e - 1 .. x.row /\ k \in f + 1 .. x.row /\ h[k].accept
      /\ st \in e .. f + 1 /\ l \in 0 .. f
      /\ \A j \in e + 1 .. x.row : ~ResetAt(s, h, j)
      /\ (f >= e => l = f)
      /\ f = FrontAt(s, h, x)
  BY DEF HeadAt
<1>1. (i.fit <=> f >= st) /\ (i.lagged <=> f >= st)
  BY <1>0 DEF BegunAt
<1>2. rd.d = BankStep(s, h, st, k)
  BY LearnReads DEF ReadOf
<1>3. st \in 1 .. k /\ k <= Len(h) /\ \A j \in st + 1 .. k : ~ResetAt(s, h, j)
  <2>1. \A j \in st + 1 .. k : j \in e + 1 .. x.row
    BY <1>0
  <2> QED BY <1>0, <2>1
<1>4. l >= st <=> f >= st
  BY <1>0
<1>5. p.events = LearnEvents(s, h, x)
  BY DEF LearnedTo
<1>6. f >= st => ToldOf(s, h, st, f, k, p.events) /\ l = f
  <2> SUFFICES ASSUME f >= st PROVE ToldOf(s, h, st, f, k, p.events) /\ l = f
    OBVIOUS
  <2>1. l = f
    BY <1>0
  <2>2. CASE Lab(s)
    <3>1. ToldOf(s, h, st, f, k, LearnEvents(s, h, x))
      BY <2>2, LabelTold
    <3> QED BY <1>5, <2>1, <3>1
  <2>3. CASE ~Lab(s)
    <3>1. ToldOf(s, h, st, f, k, EventsOf(s, h, k))
      BY <2>3, DelayTold
    <3>2. LearnEvents(s, h, x) = EventsOf(s, h, k)
      BY <1>0, <2>3 DEF LearnEvents
    <3> QED BY <1>5, <2>1, <3>1, <3>2
  <2> QED BY <2>2, <2>3
<1>7. rd.paired <=> i.lagged /\ p.events \cap {"session", "gap"} = {}
  BY DEF ReadOf, Lagged
<1>8. rd.blended <=> i.fit /\ "blend" \in p.events
  BY DEF ReadOf
<1> HIDE DEF s, h, l
<1>9. rd.paired <=> l >= st /\ \A j \in l + 1 .. k : ~ChangedAt(h, j) /\ ~BankGap(s, h, st, j)
  BY <1>1, <1>4, <1>6, <1>7 DEF ToldOf
<1>10. rd.blended <=> l >= st /\ \E j \in l + 1 .. k : ChangedAt(h, j)
  BY <1>1, <1>4, <1>6, <1>8 DEF ToldOf
<1> QED BY <1>0, <1>2, <1>3, <1>9, <1>10 DEF HandedAt, s, h, l

-----------------------------------------------------------------------------
(* A row scored reads what a bank begun at row st would.                    *)

\* From a row on the stream's own clock and the bank's step alike.
LEMMA SpanSame ==
  ASSUME NEW s \in Settings, NEW h \in Streams(s), NEW e \in 1 .. Len(h) + 1,
         NEW m \in e - 1 .. Len(h), NEW b \in m .. Len(h), NEW st \in e .. m + 1,
         \A j \in m + 1 .. b : EpochAt(s, h, j) = e,
         st = e \/ (m >= st /\ h[m].accept)
  PROVE  /\ \A j \in m + 1 .. b : DAt(s, h, j) = BankStep(s, h, st, j)
         /\ DSum(s, h, b) - DSum(s, h, m) = BSum(s, h, st, b) - BSum(s, h, st, m)
<1>0. Len(h) \in Nat /\ e \in Nat /\ m \in 0 .. Len(h) /\ b \in Nat /\ st \in 1 .. Len(h) + 1
  BY DEF Streams
<1>1. ASSUME NEW j \in m + 1 .. b PROVE DAt(s, h, j) = BankStep(s, h, st, j)
  <2>1. j \in 1 .. Len(h) /\ st \in EpochAt(s, h, j) .. j /\ j - 1 \in 0 .. Len(h)
    BY <1>0
  <2>2. st = EpochAt(s, h, j) \/ LastAt(s, h, j - 1) >= st
    <3> SUFFICES ASSUME st # e PROVE LastAt(s, h, j - 1) >= st
      OBVIOUS
    <3>1. m >= st /\ h[m].accept /\ m \in 1 .. j - 1
      BY <1>0, <2>1
    <3> DEFINE l == LastAt(s, h, j - 1)
    <3>2. l \in 0 .. j - 1 /\ \A i \in l + 1 .. j - 1 : ~h[i].accept
      BY <2>1, LastIs
    <3> HIDE DEF l
    <3>3. ~(l < m)
      <4> SUFFICES ASSUME l < m PROVE FALSE
        OBVIOUS
      <4>1. m \in l + 1 .. j - 1
        BY <3>1, <3>2
      <4> QED BY <3>1, <3>2, <4>1
    <3>4. l >= st
      BY <1>0, <3>1, <3>2, <3>3
    <3> QED BY <3>4 DEF l
  <2> QED BY <2>1, <2>2, StepSame
<1>2. DSum(s, h, b) - DSum(s, h, m) = BSum(s, h, st, b) - BSum(s, h, st, m)
  BY <1>0, <1>1, SumsSame
<1> QED BY <1>1, <1>2

\* The next row, and the rows from the last one learned to it.
NextAt(s, h, x, st, f, e, k) ==
  /\ e = EpochAt(s, h, x.row) /\ f = FrontAt(s, h, x) /\ k = x.row + 1
  /\ Len(h) \in Nat /\ x.row \in 0 .. Len(h) /\ k \in 1 .. Len(h) /\ e \in 1 .. k
  /\ f \in e - 1 .. k - 1 /\ st \in e .. f + 1 /\ h[k].accept
  /\ \A j \in f + 1 .. k : EpochAt(s, h, j) = e
  /\ f >= e => h[f].accept
  /\ x.queue = <<>> => \A j \in f + 1 .. k - 1 : ~h[j].accept
  /\ x.queue # <<>> => /\ x.queue[1] \in f + 1 .. k - 1 /\ h[x.queue[1]].accept
                       /\ \A j \in f + 1 .. x.queue[1] - 1 : ~h[j].accept

LEMMA NextIs ==
  ASSUME NEW s \in Settings, NEW h \in Streams(s), NEW x, Sound(s, h, x), ~Lab(s) \/ s.by > 0,
         NEW i, NEW st, BegunAt(s, h, x, i, st), NEW k, k = x.row + 1, k \in 1 .. Len(h),
         h[k].accept, ~ResetAt(s, h, k)
  PROVE  NextAt(s, h, x, st, FrontAt(s, h, x), EpochAt(s, h, x.row), k)
<1> DEFINE e == EpochAt(s, h, x.row)
           f == FrontAt(s, h, x)
<1>1. /\ x.row \in 0 .. Len(h) /\ Len(h) \in Nat
      /\ e \in 1 .. x.row + 1
      /\ f \in e - 1 .. x.row
      /\ (f >= e => f = x.last /\ h[f].accept)
      /\ \A j \in e + 1 .. x.row : ~ResetAt(s, h, j)
  BY FrontSound
<1>2. /\ x.queue = <<>> => \A j \in f + 1 .. x.row : ~h[j].accept
      /\ x.queue # <<>> => /\ x.queue[1] \in f + 1 .. x.row /\ h[x.queue[1]].accept
                           /\ \A j \in f + 1 .. x.queue[1] - 1 : ~h[j].accept
  BY QueueHead
<1>3. st \in e .. f + 1
  BY DEF BegunAt
<1>4. EpochAt(s, h, k) = e
  BY <1>1, MarkNext
<1> HIDE DEF f
<1>5. k - 1 = x.row /\ e \in 1 .. k
  BY <1>1
<1>6. \A j \in f + 1 .. k : EpochAt(s, h, j) = e
  <2>1. k \in 0 .. Len(h)
    BY <1>1
  <2>2. \A j \in EpochAt(s, h, k) .. k : EpochAt(s, h, j) = EpochAt(s, h, k)
    BY <2>1, EpochIs
  <2>3. \A j \in f + 1 .. k : j \in e .. k
    BY <1>1, <1>5
  <2> HIDE DEF e
  <2> QED BY <1>4, <2>2, <2>3
<1> HIDE DEF e
<1>7. NextAt(s, h, x, st, f, e, k)
  BY <1>1, <1>2, <1>3, <1>5, <1>6 DEF NextAt, e, f
<1> QED BY <1>7 DEF e, f

\* The clock of the rows held and the step it reads.
ReadsNext(s, h, i, p, st, f, k) ==
  /\ StepRead(i, p) = BankStep(s, h, st, k)
  /\ HeldRead(i, p) = BSum(s, h, st, k - 1) - BSum(s, h, st, f)

\* A restarted instance's first row, past a drift: the rows held step from the
\* row the drift was at.
LEMMA CutIs ==
  ASSUME NEW s \in Settings, NEW h \in Streams(s), s.drift, NEW x, NEW st, NEW f, NEW e, NEW k,
         NextAt(s, h, x, st, f, e, k), f = st - 1, f >= e, NEW q, q = x.queue[1],
         x.queue # <<>>
  PROVE  /\ DAt(s, h, k) = BankStep(s, h, st, k)
         /\ (DSum(s, h, k - 1) - DSum(s, h, f)) - (DAt(s, h, q) - FreshAt(s, h, q))
              = BSum(s, h, st, k - 1) - BSum(s, h, st, f)
<1>0. /\ Len(h) \in Nat /\ k \in 1 .. Len(h) /\ e \in 1 .. k /\ f \in e - 1 .. k - 1
      /\ st \in e .. f + 1 /\ h[f].accept
      /\ \A j \in f + 1 .. k : EpochAt(s, h, j) = e
      /\ q \in f + 1 .. k - 1 /\ h[q].accept /\ \A j \in f + 1 .. q - 1 : ~h[j].accept
  BY DEF NextAt
<1>1. /\ f \in 1 .. Len(h) /\ f \in 0 .. Len(h) /\ q \in 1 .. Len(h) /\ q - 1 \in f .. Len(h)
      /\ st = f + 1 /\ st \in 1 .. Len(h) + 1 /\ e \in 1 .. Len(h) + 1 /\ f > 0
      /\ q \in e - 1 .. Len(h) /\ k - 1 \in q .. Len(h) /\ k \in q .. Len(h)
      /\ st \in e .. q + 1 /\ q >= st /\ k - 1 \in 0 .. Len(h)
  <2>1. Len(h) \in Nat /\ k \in 1 .. Len(h) /\ e \in 1 .. k /\ f \in Int /\ st \in Int /\ q \in Int
    BY <1>0
  <2>2. e - 1 <= f /\ e <= f /\ f <= k - 1 /\ st = f + 1 /\ f + 1 <= q /\ q <= k - 1
    BY <1>0, <2>1
  <2> DEFINE n == Len(h)
  <2> HIDE DEF n
  <2>3. n \in Nat /\ k \in Nat /\ e \in Nat /\ 1 <= e /\ e <= k /\ 1 <= k /\ k <= n
    BY <2>1 DEF n
  <2>4. /\ f \in 1 .. n /\ f \in 0 .. n /\ q \in 1 .. n /\ q - 1 \in f .. n
        /\ st \in 1 .. n + 1 /\ e \in 1 .. n + 1 /\ f > 0
    BY <2>1, <2>2, <2>3
  <2>5. /\ q \in e - 1 .. n /\ k - 1 \in q .. n /\ k \in q .. n
        /\ st \in e .. q + 1 /\ q >= st /\ k - 1 \in 0 .. n
    BY <2>1, <2>2, <2>3
  <2> QED BY <2>2, <2>4, <2>5 DEF n
<1>a. /\ e \in 1 .. Len(h) + 1 /\ q \in e - 1 .. Len(h) /\ st \in e .. q + 1
      /\ (st = e \/ (q >= st /\ h[q].accept))
  BY <1>0, <1>1
<1>2. \A j \in q + 1 .. k : DAt(s, h, j) = BankStep(s, h, st, j)
  <2>1. \A j \in q + 1 .. k : EpochAt(s, h, j) = e
    BY <1>0, <1>1
  <2>2. k \in q .. Len(h)
    BY <1>1
  <2> QED BY <1>a, <2>1, <2>2, SpanSame
<1>3. DSum(s, h, k - 1) - DSum(s, h, q) = BSum(s, h, st, k - 1) - BSum(s, h, st, q)
  <2>1. \A j \in q + 1 .. k - 1 : EpochAt(s, h, j) = e
    <3>1. \A j \in q + 1 .. k - 1 : j \in f + 1 .. k
      <4>1. q \in Int /\ f \in Int /\ k \in Int /\ f <= q
        BY <1>0, <1>1
      <4> QED BY ONLY <4>1
    <3> QED BY <1>0, <3>1
  <2>2. k - 1 \in q .. Len(h)
    BY <1>1
  <2> QED BY <1>a, <2>1, <2>2, SpanSame
<1>4. DSum(s, h, q - 1) = DSum(s, h, f) /\ BSum(s, h, st, q - 1) = BSum(s, h, st, f)
  <2>1. /\ st \in 1 .. Len(h) + 1 /\ f \in 0 .. Len(h) /\ q - 1 \in f .. Len(h)
        /\ \A j \in f + 1 .. q - 1 : ~h[j].accept
    BY <1>0, <1>1
  <2> QED BY <2>1, SumsFlat
<1>5. FreshAt(s, h, q) = BankStep(s, h, st, q)
  <2>1. LastAt(s, h, q - 1) = f
    <3>1. /\ f \in 0 .. Len(h) /\ q - 1 \in f .. Len(h) /\ f > 0 /\ h[f].accept
          /\ \A j \in f + 1 .. q - 1 : ~h[j].accept
      BY <1>0, <1>1
    <3> QED BY <3>1, LastPast
  <2>2. f \in EpochAt(s, h, q) .. q - 1
    BY <1>0, <1>1
  <2> QED BY <1>0, <1>1, <2>1, <2>2, FreshIs
<1>6. /\ DSum(s, h, q) = DSum(s, h, q - 1) + DAt(s, h, q)
      /\ BSum(s, h, st, q) = BSum(s, h, st, q - 1) + BankStep(s, h, st, q)
  BY <1>1, DSumIs, BSumIs
<1>7. /\ DSum(s, h, k - 1) \in Nat /\ DSum(s, h, q) \in Nat /\ DSum(s, h, f) \in Nat
      /\ BSum(s, h, st, k - 1) \in Nat /\ BSum(s, h, st, q) \in Nat /\ BSum(s, h, st, f) \in Nat
      /\ q \in 0 .. Len(h)
  <2>1. q \in 0 .. Len(h)
    BY <1>1
  <2>2. \A j \in 0 .. Len(h) : DSum(s, h, j) \in Nat /\ BSum(s, h, st, j) \in Nat
    BY <1>1, DSumIs, BSumIs
  <2> QED BY <1>1, <2>1, <2>2
<1>8. DAt(s, h, q) \in Nat /\ FreshAt(s, h, q) \in Nat
  <2>1. FreshAt(s, h, q) \in 0 .. s.clk.cap /\ s.clk.cap \in Nat
    BY <1>1, FreshTyped, SettingIs
  <2>2. DAt(s, h, q) \in Nat
    BY <1>1, DAtIs
  <2> QED BY <2>1, <2>2
<1>9. (DSum(s, h, k - 1) - DSum(s, h, f)) - (DAt(s, h, q) - FreshAt(s, h, q))
        = BSum(s, h, st, k - 1) - BSum(s, h, st, f)
  <2> DEFINE d1 == DSum(s, h, k - 1)
             d2 == DSum(s, h, q)
             d3 == DSum(s, h, f)
             b1 == BSum(s, h, st, k - 1)
             b2 == BSum(s, h, st, q)
             b3 == BSum(s, h, st, f)
             d == DAt(s, h, q)
             g == FreshAt(s, h, q)
  <2>1. /\ d1 \in Nat /\ d2 \in Nat /\ d3 \in Nat /\ b1 \in Nat /\ b2 \in Nat /\ b3 \in Nat
        /\ d \in Nat /\ g \in Nat
        /\ d1 - d2 = b1 - b2 /\ d2 = d3 + d /\ b2 = b3 + g
    BY <1>3, <1>4, <1>5, <1>6, <1>7, <1>8
  <2> HIDE DEF d1, d2, d3, b1, b2, b3, d, g
  <2>2. (d1 - d3) - (d - g) = b1 - b3
    BY <2>1
  <2> QED BY <2>2 DEF d1, d2, d3, b1, b2, b3, d, g
<1>10. DAt(s, h, k) = BankStep(s, h, st, k)
  <2>1. k \in q + 1 .. k
    BY <1>0, <1>1
  <2> QED BY <1>2, <2>1
<1> QED BY <1>9, <1>10

LEMMA ScoreReads ==
  ASSUME setting \in Settings, hist \in Streams(setting), Holds(setting), NEW x,
         NEW st, NEW f, NEW e, NEW k, NextAt(setting, hist, x, st, f, e, k),
         NEW i, BegunAt(setting, hist, x, i, st),
         i.held = DSum(setting, hist, k - 1) - DSum(setting, hist, f),
         NEW p, NEW z, ScoredTo(setting, hist, x, k, p, z), ~ResetAt(setting, hist, k)
  PROVE  ReadsNext(setting, hist, i, p, st, f, k)
<1> DEFINE s == setting
           h == hist
<1>0. /\ Len(h) \in Nat /\ k \in 1 .. Len(h) /\ e \in 1 .. k /\ f \in e - 1 .. k - 1
      /\ st \in e .. f + 1 /\ h[k].accept
      /\ \A j \in f + 1 .. k : EpochAt(s, h, j) = e
      /\ (f >= e => h[f].accept)
      /\ e = EpochAt(s, h, x.row) /\ f = FrontAt(s, h, x) /\ k = x.row + 1
  BY DEF NextAt
<1>1. /\ f \in 0 .. Len(h) /\ st \in 1 .. Len(h) + 1 /\ e \in 1 .. Len(h) + 1
      /\ k \in f .. Len(h) /\ k - 1 \in f .. Len(h)
      /\ k - 1 \in 0 .. Len(h)
  BY <1>0
<1>2. /\ ~s.drift => st = e
      /\ st # e => (~i.restarted => f >= st)
      /\ i.restarted => /\ f = st - 1
                        /\ st = e => ResetAt(s, h, e) /\ h[e].accept /\ e <= x.row
  BY <1>0 DEF BegunAt
<1>3. /\ p.kind = "score" /\ p.d = DAt(s, h, k) /\ p.fresh = FreshAt(s, h, k)
      /\ p.cut = CutBefore(s, h, x.queue)
  BY DEF ScoredTo
<1>4. HoldsClock /\ (KeepsCuts <=> Emb(s) /\ s.drift)
  BY DEF HoldsClock, KeepsCuts, Embargoed, Labelled, Holds, Emb, Lab
<1>5. /\ StepRead(i, p) = IF i.restarted /\ KeepsCuts /\ p.cut = <<>> THEN p.fresh ELSE p.d
      /\ HeldRead(i, p) = IF ~i.restarted \/ ~KeepsCuts THEN i.held
                          ELSE IF p.cut = <<>> THEN 0 ELSE i.held - p.cut[1]
  BY <1>3, <1>4 DEF StepRead, HeldRead
<1>6. Emb(s) => p.cut = IF x.queue = <<>> THEN <<>>
                        ELSE <<DAt(s, h, x.queue[1]) - FreshAt(s, h, x.queue[1])>>
  <2>1. Emb(s) => ~Lab(s)
    BY SettingIs
  <2> QED BY <1>3, <2>1 DEF CutBefore
<1>7. /\ DSum(s, h, k - 1) \in Nat /\ DSum(s, h, f) \in Nat
  BY <1>1, DSumIs
<1>8. ASSUME st = e \/ (f >= st /\ h[f].accept)
      PROVE  /\ DAt(s, h, k) = BankStep(s, h, st, k)
             /\ DSum(s, h, k - 1) - DSum(s, h, f) = BSum(s, h, st, k - 1) - BSum(s, h, st, f)
  <2>a. /\ e \in 1 .. Len(h) + 1 /\ f \in e - 1 .. Len(h) /\ st \in e .. f + 1
        /\ (st = e \/ (f >= st /\ h[f].accept))
    BY <1>0, <1>1, <1>8
  <2>b. k \in f .. Len(h) /\ \A j \in f + 1 .. k : EpochAt(s, h, j) = e
    BY <1>0, <1>1
  <2>1. DAt(s, h, k) = BankStep(s, h, st, k)
    <3>1. \A j \in f + 1 .. k : DAt(s, h, j) = BankStep(s, h, st, j)
      BY <2>a, <2>b, SpanSame
    <3>2. k \in f + 1 .. k
      BY <1>0
    <3> QED BY <3>1, <3>2
  <2>2. DSum(s, h, k - 1) - DSum(s, h, f) = BSum(s, h, st, k - 1) - BSum(s, h, st, f)
    <3>1. \A j \in f + 1 .. k - 1 : EpochAt(s, h, j) = e
      BY <1>0
    <3>2. k - 1 \in f .. Len(h)
      BY <1>1
    <3> QED BY <2>a, <3>1, <3>2, SpanSame
  <2> QED BY <2>1, <2>2
<1> HIDE DEF s, h
<1>9. CASE ~i.restarted
  <2>1. st = e \/ (f >= st /\ h[f].accept)
    BY <1>0, <1>2, <1>9
  <2> QED BY <1>3, <1>5, <1>8, <1>9, <2>1 DEF ReadsNext, s, h
<1>10. CASE i.restarted /\ st = e
  <2>1. f = e - 1 /\ ResetAt(s, h, e) /\ h[e].accept /\ e <= x.row
    BY <1>2, <1>10
  <2>2. x.queue # <<>> /\ x.queue[1] = e
    <3>1. e \in f + 1 .. k - 1
      <4>1. k = x.row + 1 /\ e <= x.row /\ e \in 1 .. k /\ f = e - 1
        BY <1>0, <2>1
      <4>2. x.row \in Int
        BY DEF NextAt
      <4> QED BY ONLY <4>1, <4>2, <1>0
    <3>2. x.queue # <<>>
      BY <2>1, <3>1 DEF NextAt, s, h
    <3>3. /\ x.queue[1] \in f + 1 .. k - 1
          /\ \A j \in f + 1 .. x.queue[1] - 1 : ~h[j].accept
      BY <3>2 DEF NextAt, s, h
    <3>4. x.queue[1] = e
      <4> SUFFICES ASSUME x.queue[1] # e PROVE FALSE
        OBVIOUS
      <4> DEFINE q == x.queue[1]
      <4>1. q \in f + 1 .. k - 1 /\ q # e
        BY <3>3
      <4> HIDE DEF q
      <4>2. e \in f + 1 .. q - 1
        BY <1>0, <2>1, <4>1
      <4> QED BY <2>1, <3>3, <4>2 DEF q
    <3> QED BY <3>2, <3>4
  <2>3. FreshAt(s, h, e) = 0 /\ DAt(s, h, e) = 0
    <3>1. e \in 1 .. Len(h)
      BY <1>0
    <3> QED BY <2>1, <3>1, FreshTyped DEF s, h
  <2>4. Emb(s) => p.cut = <<0>>
    BY <1>6, <2>2, <2>3
  <2>5. StepRead(i, p) = p.d /\ HeldRead(i, p) = i.held
    <3>1. i.held \in Int
      BY <1>7 DEF s, h
    <3>2. CASE KeepsCuts
      <4>1. p.cut = <<0>>
        BY <1>4, <2>4, <3>2
      <4>2. p.cut # <<>> /\ p.cut[1] = 0
        BY <4>1
      <4>3. HeldRead(i, p) = i.held - 0
        BY <1>5, <1>10, <3>2, <4>2
      <4> QED BY <1>5, <3>1, <4>2, <4>3
    <3>3. CASE ~KeepsCuts
      BY <1>5, <3>3
    <3> QED BY <3>2, <3>3
  <2> QED BY <1>3, <1>8, <1>10, <2>5 DEF ReadsNext, s, h
<1>11. CASE i.restarted /\ st # e
  <2>1. s.drift /\ f = st - 1 /\ f >= e
    BY <1>0, <1>2, <1>11
  <2>2. Emb(s) /\ KeepsCuts
    <3>1. ~Lab(s)
      BY <2>1, SettingIs DEF s
    <3> QED BY <1>4, <2>1, <3>1 DEF Holds, s
  <2>3. CASE x.queue = <<>>
    <3>1. \A j \in f + 1 .. k - 1 : ~h[j].accept
      BY <2>3 DEF NextAt, s, h
    <3>2. LastAt(s, h, k - 1) = f
      <4>1. f > 0 /\ h[f].accept
        BY <1>0, <2>1
      <4> QED BY <1>1, <3>1, <4>1, LastPast DEF s, h
    <3>3. FreshAt(s, h, k) = BankStep(s, h, st, k)
      <4>1. f \in EpochAt(s, h, k) .. k - 1
        <5>1. k \in f + 1 .. k
          BY <1>0
        <5> QED BY <1>0, <2>1, <5>1
      <4>2. f + 1 = st
        BY <1>0, <2>1
      <4>3. FreshAt(s, h, k) = BankStep(s, h, f + 1, k)
        BY <1>0, <2>1, <3>2, <4>1, FreshIs DEF s, h
      <4> QED BY <4>2, <4>3
    <3>4. BSum(s, h, st, k - 1) = BSum(s, h, st, f)
      BY <1>1, <3>1, SumsFlat DEF s, h
    <3>5. BSum(s, h, st, k - 1) - BSum(s, h, st, f) = 0
      <4>1. BSum(s, h, st, f) \in Nat
        BY <1>1, BSumIs DEF s, h
      <4> QED BY <3>4, <4>1
    <3>6. p.cut = <<>>
      BY <1>6, <2>2, <2>3
    <3>7. StepRead(i, p) = p.fresh /\ HeldRead(i, p) = 0
      BY <1>5, <1>11, <2>2, <3>6
    <3> QED BY <1>3, <3>3, <3>5, <3>7 DEF ReadsNext, s, h
  <2>4. CASE x.queue # <<>>
    <3> DEFINE q == x.queue[1]
               c == DAt(s, h, q) - FreshAt(s, h, q)
    <3>1. /\ DAt(s, h, k) = BankStep(s, h, st, k)
          /\ (DSum(s, h, k - 1) - DSum(s, h, f)) - c
               = BSum(s, h, st, k - 1) - BSum(s, h, st, f)
      BY <2>1, <2>4, CutIs DEF s, h
    <3>2. p.cut = <<c>>
      BY <1>6, <2>2, <2>4
    <3> HIDE DEF c
    <3>3. p.cut # <<>> /\ p.cut[1] = c
      BY <3>2
    <3>4. StepRead(i, p) = p.d /\ HeldRead(i, p) = i.held - c
      BY <1>5, <1>11, <2>2, <3>3
    <3> QED BY <1>3, <3>1, <3>4 DEF ReadsNext, s, h
  <2> QED BY <2>3, <2>4
<1> QED BY <1>9, <1>10, <1>11

\* The clock a row scored reads, and the step it is scored over.
LEMMA ScoreSteps ==
  ASSUME setting \in Settings, hist \in Streams(setting), Holds(setting), NEW x,
         NEW st, NEW f, NEW e, NEW k, NextAt(setting, hist, x, st, f, e, k),
         NEW i, i.decayTime = BSum(setting, hist, st, f),
         NEW p, ReadsNext(setting, hist, i, p, st, f, k)
  PROVE  /\ i.decayTime + HeldRead(i, p) = BSum(setting, hist, st, k - 1)
         /\ ScoreStep(HeldRead(i, p), StepRead(i, p)) =
              Lesser(Steps(setting, hist, k) - Steps(setting, hist, LaterOf(f, st)),
                     setting.clk.cap)
<1> DEFINE s == setting
           h == hist
           b == LaterOf(f, st)
<1>0. /\ Len(h) \in Nat /\ k \in 1 .. Len(h) /\ e \in 1 .. k /\ f \in e - 1 .. k - 1
      /\ st \in e .. f + 1 /\ h[k].accept /\ (f >= e => h[f].accept)
  BY DEF NextAt
<1>1. /\ f \in 0 .. Len(h) /\ k - 1 \in 0 .. Len(h) /\ k \in 0 .. Len(h)
      /\ st \in 1 .. Len(h) + 1 /\ st \in 1 .. Len(h) /\ st \in 1 .. k
  BY <1>0
<1>2. b \in st .. Len(h) /\ b \in 0 .. Len(h) /\ (b = st \/ h[b].accept) /\ k \in b .. Len(h)
  BY <1>0, <1>1 DEF LaterOf
<1>3. /\ \A j \in 0 .. Len(h) : BSum(s, h, st, j) \in Nat
      /\ BSum(s, h, st, k) = BSum(s, h, st, k - 1) + BankStep(s, h, st, k)
  BY <1>0, <1>1, BSumIs
<1>4. BSum(s, h, st, f) = BSum(s, h, st, b)
  <2>1. CASE f >= st
    BY <2>1 DEF LaterOf
  <2>2. CASE ~(f >= st)
    <3>1. b = st /\ f \in 0 .. st /\ st \in 0 .. st /\ st <= Len(h) /\ f <= Len(h)
      BY <1>0, <1>1, <2>2 DEF LaterOf
    <3>2. BSum(s, h, st, f) = 0 /\ BSum(s, h, st, st) = 0
      BY <1>1, <3>1, SumStarts
    <3> QED BY <3>1, <3>2
  <2> QED BY <2>1, <2>2
<1>5. BaseSince(s, h, st, k) = k
  <2>1. LastAt(s, h, k) = k
    BY <1>0, MarkNext
  <2> QED BY <1>1, <2>1 DEF BaseSince, LaterOf
<1>6. Lesser(BSum(s, h, st, k) - BSum(s, h, st, b), s.clk.cap)
        = Lesser(Steps(s, h, k) - Steps(s, h, b), s.clk.cap)
  <2> HIDE DEF b
  <2>1. \A j \in b .. Len(h) :
          /\ BaseSince(s, h, st, j) \in b .. j
          /\ Lesser(BSum(s, h, st, j) - BSum(s, h, st, b), s.clk.cap)
               = Lesser(Steps(s, h, BaseSince(s, h, st, j)) - Steps(s, h, b), s.clk.cap)
    BY <1>1, <1>2, CapSum
  <2>2. Lesser(BSum(s, h, st, k) - BSum(s, h, st, b), s.clk.cap)
          = Lesser(Steps(s, h, BaseSince(s, h, st, k)) - Steps(s, h, b), s.clk.cap)
    BY <1>2, <2>1
  <2> QED BY <1>5, <2>2
<1> DEFINE hr == HeldRead(i, p)
           sr == StepRead(i, p)
           bf == BSum(s, h, st, f)
           br == BSum(s, h, st, k - 1)
           bk == BSum(s, h, st, k)
<1>7. /\ sr = BankStep(s, h, st, k) /\ hr = br - bf /\ i.decayTime = bf /\ bk = br + sr
      /\ bf \in Nat /\ br \in Nat /\ bk \in Nat /\ sr \in Nat
  <2>1. BankStep(s, h, st, k) \in Nat
    BY <1>0, <1>1, BankStepIs
  <2> QED BY <1>1, <1>3, <2>1 DEF ReadsNext
<1>8. HoldsClock
  BY DEF HoldsClock, Embargoed, Labelled, Holds, Emb, Lab
<1>9. ScoreStep(hr, sr) = Lesser(hr + sr, s.clk.cap)
  BY <1>8 DEF ScoreStep, C!Least, Lesser
<1>10. Lesser(bk - bf, s.clk.cap) = Lesser(Steps(s, h, k) - Steps(s, h, b), s.clk.cap)
  BY <1>4, <1>6
<1> HIDE DEF hr, sr, bf, br, bk, b, s, h
<1>11. i.decayTime + hr = br /\ hr + sr = bk - bf
  <2> DEFINE t == i.decayTime
  <2>1. t = bf
    BY <1>7
  <2> HIDE DEF t
  <2>2. t + hr = br /\ hr + sr = bk - bf
    BY <1>7, <2>1
  <2> QED BY <2>2 DEF t
<1>12. ScoreStep(hr, sr) = Lesser(Steps(s, h, k) - Steps(s, h, b), s.clk.cap)
  BY <1>9, <1>10, <1>11
<1> QED BY <1>11, <1>12 DEF hr, sr, br, b, s, h

-----------------------------------------------------------------------------
(* The model beside the ledger, over a chunk fed.                           *)
NewestAs(s, h, x, i, st) == Emb(s) => NewestOf(h, st, FrontAt(s, h, x), i.newest)
AsBank(s, h, x, i, st, rd) ==
  /\ BegunAt(s, h, x, i, st) /\ ClockAt(s, h, x, i, st)
  /\ NewestAs(s, h, x, i, st) /\ ReadAs(s, h, x, st, rd)

\* The rows a ledger is read by.
RangesOf(s, h, x, st, e, f) ==
  /\ Len(h) \in Nat /\ e = EpochAt(s, h, x.row) /\ f = FrontAt(s, h, x)
  /\ x.row \in 0 .. Len(h) /\ e \in 1 .. x.row + 1 /\ (x.row > 0 => e <= x.row)
  /\ (x.row = 0 => e = 1) /\ f \in e - 1 .. x.row /\ st \in e .. f + 1
  /\ f \in 0 .. Len(h) /\ st \in 1 .. Len(h) + 1

LEMMA RangesAre ==
  ASSUME NEW s \in Settings, NEW h \in Streams(s), NEW x, Sound(s, h, x),
         NEW i, NEW st, BegunAt(s, h, x, i, st)
  PROVE  RangesOf(s, h, x, st, EpochAt(s, h, x.row), FrontAt(s, h, x))
<1> DEFINE e == EpochAt(s, h, x.row)
           f == FrontAt(s, h, x)
<1>1. /\ x.row \in 0 .. Len(h) /\ Len(h) \in Nat
      /\ e \in 1 .. x.row + 1 /\ (x.row > 0 => e <= x.row) /\ (x.row = 0 => e = 1)
      /\ f \in e - 1 .. x.row
  BY FrontSound
<1>2. st \in e .. f + 1
  BY DEF BegunAt
<1> HIDE DEF e, f
<1>3. f \in 0 .. Len(h) /\ st \in 1 .. Len(h) + 1
  BY <1>1, <1>2
<1>4. RangesOf(s, h, x, st, e, f)
  BY <1>1, <1>2, <1>3 DEF RangesOf, e, f
<1> QED BY <1>4 DEF e, f

LEMMA BegunGrows ==
  ASSUME NEW s \in Settings, NEW h \in Streams(s), NEW c \in Streams(s), NEW x, Sound(s, h, x),
         NEW i, NEW st, BegunAt(s, h, x, i, st), ClockAt(s, h, x, i, st), NewestAs(s, h, x, i, st)
  PROVE  /\ BegunAt(s, h \o c, x, i, st) /\ ClockAt(s, h \o c, x, i, st)
         /\ NewestAs(s, h \o c, x, i, st)
<1> DEFINE g == h \o c
           e == EpochAt(s, h, x.row)
           f == FrontAt(s, h, x)
<1>1. RangesOf(s, h, x, st, e, f)
  BY RangesAre
<1>2. EpochAt(s, g, x.row) = e /\ FrontAt(s, g, x) = f
  <2>1. x.row \in 0 .. Len(h)
    BY <1>1 DEF RangesOf
  <2>2. EpochAt(s, g, x.row) = e
    BY <2>1, MarksGrow
  <2> QED BY <2>2 DEF FrontAt
<1>3. \A k \in 1 .. Len(h) : g[k] = h[k]
  BY TrailGrows
<1>4. \A k \in 0 .. Len(h) : /\ DSum(s, g, k) = DSum(s, h, k)
                             /\ \A n \in 1 .. Len(h) + 1 : BSum(s, g, n, k) = BSum(s, h, n, k)
  BY SumsGrow
<1>5. LikeDelay(s, g, x) <=> LikeDelay(s, h, x)
  <2>1. x.row > 0 => e \in 1 .. Len(h) /\ g[e] = h[e]
    BY <1>1, <1>3 DEF RangesOf
  <2> QED BY <1>2, <2>1 DEF LikeDelay
<1>6. BegunAt(s, g, x, i, st)
  <2>1. /\ ~s.drift => st = e
        /\ st \in e .. f + 1
        /\ st # e => h[st - 1].accept /\ (~i.restarted => f >= st)
        /\ i.restarted =>
             /\ f = st - 1
             /\ st = e => ResetAt(s, h, e) /\ h[e].accept /\ e <= x.row
        /\ i.fit <=> f >= st
        /\ i.lagged <=> f >= st
    BY DEF BegunAt
  <2>2. st # e => g[st - 1] = h[st - 1]
    <3>1. st # e => st - 1 \in 1 .. Len(h)
      BY <1>1 DEF RangesOf
    <3> QED BY <1>3, <3>1
  <2>3. e <= x.row => ResetAt(s, g, e) = ResetAt(s, h, e) /\ g[e] = h[e]
    <3>1. e <= x.row => e \in 1 .. Len(h)
      BY <1>1 DEF RangesOf
    <3> QED BY <3>1, PlaceGrows
  <2>4. i.restarted =>
             /\ f = st - 1
             /\ st = e => ResetAt(s, g, e) /\ g[e].accept /\ e <= x.row
    BY <2>1, <2>3
  <2>5. st # e => g[st - 1].accept /\ (~i.restarted => f >= st)
    BY <2>1, <2>2
  <2> HIDE DEF g, e, f
  <2> QED BY <1>2, <2>1, <2>4, <2>5 DEF BegunAt
<1>7. ClockAt(s, g, x, i, st)
  <2>1. /\ DSum(s, g, x.row) = DSum(s, h, x.row) /\ DSum(s, g, f) = DSum(s, h, f)
        /\ DSum(s, g, e - 1) = DSum(s, h, e - 1) /\ BSum(s, g, st, f) = BSum(s, h, st, f)
    <3>1. x.row \in 0 .. Len(h) /\ f \in 0 .. Len(h) /\ e - 1 \in 0 .. Len(h) /\ st \in 1 .. Len(h) + 1
      BY <1>1 DEF RangesOf
    <3> QED BY <1>4, <3>1
  <2>2. /\ i.decayTime \in Nat /\ i.held \in Int
        /\ LikeDelay(s, h, x) =>
             /\ i.decayTime = BSum(s, h, st, f)
             /\ Holds(s) => i.held = DSum(s, h, x.row) - DSum(s, h, f)
        /\ ~Holds(s) => i.held = 0
        /\ Lab(s) => i.decayTime + i.held = DSum(s, h, x.row) - DSum(s, h, e - 1)
    BY DEF ClockAt
  <2> HIDE DEF g, e, f
  <2> QED BY <1>2, <1>5, <2>1, <2>2 DEF ClockAt
<1>8. NewestAs(s, g, x, i, st)
  <2>1. \A k \in st .. f : g[k] = h[k]
    <3>1. \A k \in st .. f : k \in 1 .. Len(h)
      BY <1>1 DEF RangesOf
    <3> QED BY <1>3, <3>1
  <2>2. NewestOf(h, st, f, i.newest) => NewestOf(g, st, f, i.newest)
    <3>1. \A k \in st .. f : Weighs(g, k) <=> Weighs(h, k)
      BY <2>1 DEF Weighs
    <3>2. \A m \in st .. f : \A k \in m + 1 .. f : k \in st .. f
      BY <1>1 DEF RangesOf
    <3> HIDE DEF g, f
    <3> QED BY <2>1, <3>1, <3>2 DEF NewestOf
  <2> HIDE DEF g, f
  <2> QED BY <1>2, <2>2 DEF NewestAs, f
<1> QED BY <1>6, <1>7, <1>8

\* What was read stays, too.
LEMMA HandedGrows ==
  ASSUME NEW s \in Settings, NEW h \in Streams(s), NEW c \in Streams(s),
         NEW f, NEW k \in 1 .. Len(h), NEW rd, HandedAt(s, h, f, k, rd)
  PROVE  HandedAt(s, h \o c, f, k, rd)
<1> DEFINE g == h \o c
           l == LastAt(s, h, k - 1)
<1>0. /\ f \in 1 .. k /\ k <= Len(h) /\ h[k].accept
      /\ \A j \in f + 1 .. k : ~ResetAt(s, h, j)
      /\ rd.d = BankStep(s, h, f, k)
      /\ rd.paired <=> l >= f /\ \A j \in l + 1 .. k : ~ChangedAt(h, j) /\ ~BankGap(s, h, f, j)
      /\ rd.blended <=> l >= f /\ \E j \in l + 1 .. k : ChangedAt(h, j)
  BY DEF HandedAt
<1>1. Len(h) \in Nat /\ Len(g) \in Nat /\ Len(h) <= Len(g)
  <2>1. Len(h) \in Nat /\ Len(c) \in Nat
    BY DEF Streams
  <2>2. Len(g) = Len(h) + Len(c)
    BY TrailGrows
  <2> HIDE DEF g
  <2> QED BY <2>1, <2>2
<1>2. /\ k \in Int /\ f \in Int
  BY <1>0, <1>1
<1>3. k \in 1 .. Len(h) /\ k - 1 \in 0 .. Len(h) /\ f \in 1 .. Len(h) + 1
  BY <1>0, <1>1, <1>2
<1>4. LastAt(s, g, k - 1) = l
  BY <1>3, MarksGrow
<1>5. g[k] = h[k]
  BY <1>3, TrailGrows
<1>6. \A j \in f + 1 .. k : ResetAt(s, g, j) = ResetAt(s, h, j)
  <2>1. \A j \in f + 1 .. k : j \in 1 .. Len(h)
    BY <1>0, <1>1, <1>3
  <2> QED BY <2>1, PlaceGrows
<1>7. BankStep(s, g, f, k) = BankStep(s, h, f, k)
  BY <1>3, BankGrows
<1>8. l >= f => \A j \in l + 1 .. k : /\ ChangedAt(g, j) = ChangedAt(h, j)
                                      /\ BankGap(s, g, f, j) <=> BankGap(s, h, f, j)
  <2> SUFFICES ASSUME l >= f, NEW j \in l + 1 .. k
               PROVE  ChangedAt(g, j) = ChangedAt(h, j) /\ (BankGap(s, g, f, j) <=> BankGap(s, h, f, j))
    OBVIOUS
  <2>1. l \in 0 .. k - 1
    BY <1>3, LastIs
  <2> HIDE DEF l
  <2>2. j \in 0 .. Len(h) /\ j \in 1 .. Len(h) /\ f <= j
    BY <1>1, <1>3, <2>1
  <2>3. ChangedAt(g, j) = ChangedAt(h, j)
    BY <2>2, BasesGrow
  <2>4. BankGap(s, g, f, j) <=> BankGap(s, h, f, j)
    BY <1>3, <2>2, BankGrows
  <2> QED BY <2>3, <2>4
<1>9. k <= Len(g)
  <2> HIDE DEF g
  <2> QED BY <1>1, <1>3
<1> HIDE DEF g, l
<1>10. rd.paired <=> l >= f /\ \A j \in l + 1 .. k : ~ChangedAt(g, j) /\ ~BankGap(s, g, f, j)
  BY <1>0, <1>8
<1>11. rd.blended <=> l >= f /\ \E j \in l + 1 .. k : ChangedAt(g, j)
  BY <1>0, <1>8
<1>12. HandedAt(s, g, f, k, rd)
  BY <1>0, <1>4, <1>5, <1>6, <1>7, <1>9, <1>10, <1>11 DEF HandedAt
<1> QED BY <1>12 DEF g

LEMMA LearnedGrows ==
  ASSUME NEW s \in Settings, NEW h \in Streams(s), NEW c \in Streams(s),
         NEW st, NEW rd, LearnedAs(s, h, st, rd)
  PROVE  LearnedAs(s, h \o c, st, rd)
<1> DEFINE g == h \o c
<1>1. /\ rd.d \in 0 .. s.clk.cap /\ rd.settled = 0 /\ rd.scoreStep = 0
      /\ rd.from \in 1 .. rd.id /\ rd.id \in 1 .. Len(h)
      /\ Lab(s) => rd.from = st
      /\ ~Lab(s) \/ (s.by > 0 /\ h[rd.from].accept) => HandedAt(s, h, rd.from, rd.id, rd)
  BY DEF LearnedAs
<1>2. Len(h) \in Nat /\ Len(g) \in Nat /\ Len(h) <= Len(g)
  <2>1. Len(h) \in Nat /\ Len(c) \in Nat
    BY DEF Streams
  <2>2. Len(g) = Len(h) + Len(c)
    BY TrailGrows
  <2> HIDE DEF g
  <2> QED BY <2>1, <2>2
<1>3. rd.from \in 1 .. Len(h) /\ rd.id \in 1 .. Len(g)
  <2> HIDE DEF g
  <2> QED BY <1>1, <1>2
<1>4. g[rd.from] = h[rd.from]
  BY <1>3, TrailGrows
<1>5. HandedAt(s, h, rd.from, rd.id, rd) => HandedAt(s, g, rd.from, rd.id, rd)
  <2>1. rd.id \in 1 .. Len(h)
    BY <1>1
  <2> QED BY <2>1, HandedGrows
<1> HIDE DEF g
<1>6. LearnedAs(s, g, st, rd)
  BY <1>1, <1>3, <1>4, <1>5 DEF LearnedAs
<1> QED BY <1>6 DEF g

LEMMA ScoredGrows ==
  ASSUME NEW s \in Settings, NEW h \in Streams(s), NEW c \in Streams(s), NEW x, Sound(s, h, x),
         NEW i, NEW st, BegunAt(s, h, x, i, st), NEW rd, ScoredAs(s, h, x, st, rd)
  PROVE  ScoredAs(s, h \o c, x, st, rd)
<1> DEFINE g == h \o c
           e == EpochAt(s, h, x.row)
           f == FrontAt(s, h, x)
           b == LaterOf(f, st)
           r == x.row
<1>1. RangesOf(s, h, x, st, e, f)
  BY RangesAre
<1>2. /\ rd.d \in 0 .. s.clk.cap /\ rd.settled \in Nat
      /\ ~Lab(s) => rd.scoreStep \in 0 .. s.clk.cap
      /\ f < r
      /\ Holds(s) /\ LikeDelay(s, h, x) =>
           /\ rd.settled = BSum(s, h, st, r - 1)
           /\ rd.scoreStep = Lesser(Steps(s, h, r) - Steps(s, h, b), s.clk.cap)
      /\ Emb(s) => NewestOf(h, st, f, rd.newest)
  BY DEF ScoredAs
<1>3. EpochAt(s, g, r) = e /\ FrontAt(s, g, x) = f
  <2>1. r \in 0 .. Len(h)
    BY <1>1 DEF RangesOf
  <2>2. EpochAt(s, g, r) = e
    BY <2>1, MarksGrow
  <2> QED BY <2>2 DEF FrontAt
<1>4. \A k \in 1 .. Len(h) : g[k] = h[k]
  BY TrailGrows
<1>5. LikeDelay(s, g, x) <=> LikeDelay(s, h, x)
  <2>1. r > 0 => e \in 1 .. Len(h) /\ g[e] = h[e]
    BY <1>1, <1>4 DEF RangesOf
  <2> QED BY <1>3, <2>1 DEF LikeDelay
<1>6. r \in 0 .. Len(h) /\ r - 1 \in 0 .. Len(h) /\ b \in 0 .. Len(h) /\ st \in 1 .. Len(h) + 1
  <2> HIDE DEF f, e
  <2>1. f < r
    BY <1>2
  <2> QED BY <1>1, <2>1 DEF RangesOf, LaterOf
<1>7. BSum(s, g, st, r - 1) = BSum(s, h, st, r - 1)
  BY <1>6, SumsGrow
<1>8. Steps(s, g, r) = Steps(s, h, r) /\ Steps(s, g, b) = Steps(s, h, b)
  <2> HIDE DEF b
  <2> QED BY <1>6, MarksGrow
<1>9. NewestOf(h, st, f, rd.newest) => NewestOf(g, st, f, rd.newest)
  <2>1. \A k \in st .. f : g[k] = h[k]
    <3>1. \A k \in st .. f : k \in 1 .. Len(h)
      BY <1>1 DEF RangesOf
    <3> QED BY <1>4, <3>1
  <2>2. \A k \in st .. f : Weighs(g, k) <=> Weighs(h, k)
    BY <2>1 DEF Weighs
  <2>3. \A m \in st .. f : \A k \in m + 1 .. f : k \in st .. f
    BY <1>1 DEF RangesOf
  <2> HIDE DEF g, f
  <2> QED BY <2>1, <2>2, <2>3 DEF NewestOf
<1> HIDE DEF g, e, f
<1>10. ScoredAs(s, g, x, st, rd)
  BY <1>2, <1>3, <1>5, <1>7, <1>8, <1>9 DEF ScoredAs
<1> QED BY <1>10 DEF g

LEMMA AsBankGrows ==
  ASSUME NEW s \in Settings, NEW h \in Streams(s), NEW c \in Streams(s), NEW x, Sound(s, h, x),
         NEW i, NEW st, NEW rd, AsBank(s, h, x, i, st, rd)
  PROVE  AsBank(s, h \o c, x, i, st, rd)
<1>1. /\ BegunAt(s, h, x, i, st) /\ ClockAt(s, h, x, i, st)
      /\ NewestAs(s, h, x, i, st) /\ ReadAs(s, h, x, st, rd)
  BY DEF AsBank
<1>2. /\ BegunAt(s, h \o c, x, i, st) /\ ClockAt(s, h \o c, x, i, st)
      /\ NewestAs(s, h \o c, x, i, st)
  BY <1>1, BegunGrows
<1>3. LearnedAs(s, h, st, rd) => LearnedAs(s, h \o c, st, rd)
  BY LearnedGrows
<1>4. ScoredAs(s, h, x, st, rd) => ScoredAs(s, h \o c, x, st, rd)
  BY <1>1, ScoredGrows
<1>5. ReadAs(s, h \o c, x, st, rd)
  BY <1>1, <1>3, <1>4 DEF ReadAs
<1> QED BY <1>2, <1>5 DEF AsBank

-----------------------------------------------------------------------------
(* The model beside the ledger, over a row.                                 *)

\* A row scored or skipped, where the clock does not start over: the model is
\* as it was, the row's step added to the clock of the rows held.
HeldMore(s, h, k, i, j) ==
  /\ j.decayTime = i.decayTime /\ j.restarted = i.restarted /\ j.fit = i.fit
  /\ j.lagged = i.lagged /\ j.newest = i.newest
  /\ j.held = IF Holds(s) THEN i.held + DAt(s, h, k) ELSE i.held
RowOn(s, h, x, k, z) ==
  /\ k \in 1 .. Len(h) /\ k = x.row + 1 /\ z.row = k
  /\ z.last = IF ResetAt(s, h, k) THEN 0 ELSE x.last

LEMMA OnwardFront ==
  ASSUME NEW s \in Settings, NEW h \in Streams(s), NEW x, Sound(s, h, x), NEW k, NEW z,
         RowOn(s, h, x, k, z), ~ResetAt(s, h, k)
  PROVE  /\ EpochAt(s, h, z.row) = EpochAt(s, h, x.row) /\ FrontAt(s, h, z) = FrontAt(s, h, x)
         /\ LikeDelay(s, h, z) => LikeDelay(s, h, x)
<1>1. k \in 1 .. Len(h) /\ x.row = k - 1 /\ z.row = k /\ z.last = x.last /\ x.row \in 0 .. Len(h)
  <2>1. x.row \in 0 .. Len(h) /\ Len(h) \in Nat
    BY FrontSound
  <2> QED BY <2>1 DEF RowOn
<1>2. EpochAt(s, h, z.row) = EpochAt(s, h, x.row)
  BY <1>1, MarkNext
<1>3. FrontAt(s, h, z) = FrontAt(s, h, x)
  BY <1>1, <1>2 DEF FrontAt, Frontier
<1>4. LikeDelay(s, h, z) => LikeDelay(s, h, x)
  <2>1. z.row > 0
    BY <1>1
  <2> QED BY <1>2, <2>1 DEF LikeDelay
<1> QED BY <1>2, <1>3, <1>4

LEMMA OnwardIs ==
  ASSUME NEW s \in Settings, NEW h \in Streams(s), NEW x, Sound(s, h, x),
         NEW i, NEW st, BegunAt(s, h, x, i, st), ClockAt(s, h, x, i, st), NewestAs(s, h, x, i, st),
         NEW k, NEW z, RowOn(s, h, x, k, z), ~ResetAt(s, h, k), NEW j, HeldMore(s, h, k, i, j)
  PROVE  BegunAt(s, h, z, j, st) /\ ClockAt(s, h, z, j, st) /\ NewestAs(s, h, z, j, st)
<1> DEFINE e == EpochAt(s, h, x.row)
           f == FrontAt(s, h, x)
<1>1. /\ EpochAt(s, h, z.row) = e /\ FrontAt(s, h, z) = f
      /\ LikeDelay(s, h, z) => LikeDelay(s, h, x)
  BY OnwardFront
<1>2. RangesOf(s, h, x, st, e, f)
  BY RangesAre
<1>3. k \in 1 .. Len(h) /\ x.row = k - 1 /\ z.row = k /\ x.row < k /\ x.row \in 0 .. Len(h)
  BY <1>2 DEF RangesOf, RowOn
<1>4. /\ DSum(s, h, k) = DSum(s, h, k - 1) + DAt(s, h, k)
      /\ DSum(s, h, k - 1) \in Nat /\ DSum(s, h, f) \in Nat /\ DSum(s, h, e - 1) \in Nat
      /\ DAt(s, h, k) \in Nat
  <2>1. k - 1 \in 0 .. Len(h) /\ f \in 0 .. Len(h) /\ e - 1 \in 0 .. Len(h)
    BY <1>2, <1>3 DEF RangesOf
  <2> HIDE DEF e, f
  <2>2. /\ \A n \in 0 .. Len(h) : DSum(s, h, n) \in Nat
        /\ \A n \in 1 .. Len(h) : DSum(s, h, n) = DSum(s, h, n - 1) + DAt(s, h, n)
    BY DSumIs
  <2>3. DAt(s, h, k) \in Nat
    BY <1>3, DAtIs
  <2> QED BY <1>3, <2>1, <2>2, <2>3
<1>5. BegunAt(s, h, z, j, st)
  <2>1. /\ ~s.drift => st = e
        /\ st \in e .. f + 1
        /\ st # e => h[st - 1].accept /\ (~i.restarted => f >= st)
        /\ i.restarted =>
             /\ f = st - 1
             /\ st = e => ResetAt(s, h, e) /\ h[e].accept /\ e <= x.row
        /\ i.fit <=> f >= st
        /\ i.lagged <=> f >= st
    BY DEF BegunAt
  <2>2. e <= x.row => e <= z.row
    BY <1>2, <1>3 DEF RangesOf
  <2>3. j.restarted = i.restarted /\ j.fit = i.fit /\ j.lagged = i.lagged
    BY DEF HeldMore
  <2> HIDE DEF e, f
  <2> QED BY <1>1, <2>1, <2>2, <2>3 DEF BegunAt
<1>6. ClockAt(s, h, z, j, st)
  <2>1. /\ i.decayTime \in Nat /\ i.held \in Int
        /\ LikeDelay(s, h, x) =>
             /\ i.decayTime = BSum(s, h, st, f)
             /\ Holds(s) => i.held = DSum(s, h, k - 1) - DSum(s, h, f)
        /\ ~Holds(s) => i.held = 0
        /\ Lab(s) => i.decayTime + i.held = DSum(s, h, k - 1) - DSum(s, h, e - 1)
    BY <1>3 DEF ClockAt
  <2>2. j.decayTime = i.decayTime /\ j.held = IF Holds(s) THEN i.held + DAt(s, h, k) ELSE i.held
    BY DEF HeldMore
  <2> DEFINE hi == i.held
             hj == j.held
             t  == i.decayTime
             d  == DAt(s, h, k)
             a  == DSum(s, h, k)
             b  == DSum(s, h, k - 1)
             c  == DSum(s, h, f)
             g  == DSum(s, h, e - 1)
  <2>3. /\ hi \in Int /\ t \in Nat /\ d \in Nat /\ a = b + d /\ b \in Nat /\ c \in Nat /\ g \in Nat
        /\ hj = IF Holds(s) THEN hi + d ELSE hi
    BY <1>4, <2>1, <2>2
  <2> HIDE DEF hi, hj, t, d, a, b, c, g
  <2>4. hj \in Int /\ (hi = b - c => hi + d = a - c) /\ (t + hi = b - g => t + (hi + d) = a - g)
    BY <2>3
  <2>5. Lab(s) => Holds(s)
    BY DEF Holds
  <2>6. /\ LikeDelay(s, h, x) /\ Holds(s) => hj = a - c
        /\ ~Holds(s) => hj = 0
        /\ Lab(s) => t + hj = a - g
    BY <2>1, <2>3, <2>4, <2>5 DEF hi, t, b, c, g
  <2>7. /\ j.decayTime \in Nat /\ j.held \in Int
        /\ LikeDelay(s, h, x) =>
             /\ j.decayTime = BSum(s, h, st, f)
             /\ Holds(s) => j.held = DSum(s, h, k) - DSum(s, h, f)
        /\ ~Holds(s) => j.held = 0
        /\ Lab(s) => j.decayTime + j.held = DSum(s, h, k) - DSum(s, h, e - 1)
    BY <2>1, <2>2, <2>4, <2>6 DEF hj, t, a, c, g
  <2> HIDE DEF e, f
  <2> QED BY <1>1, <1>3, <2>7 DEF ClockAt
<1>7. NewestAs(s, h, z, j, st)
  BY <1>1 DEF NewestAs, HeldMore
<1> QED BY <1>5, <1>6, <1>7

\* A row at which the clock starts over: the model begins again.
BeginsOver(h, k, j) ==
  /\ j.decayTime = 0 /\ j.held = 0 /\ j.fit = FALSE /\ j.lagged = FALSE /\ j.newest = <<>>
  /\ j.restarted \in BOOLEAN /\ (j.restarted => h[k].accept)

LEMMA BegunOver ==
  ASSUME NEW s \in Settings, NEW h \in Streams(s), NEW x, Sound(s, h, x),
         NEW k, NEW z, RowOn(s, h, x, k, z), ResetAt(s, h, k), NEW j, BeginsOver(h, k, j)
  PROVE  /\ BegunAt(s, h, z, j, k) /\ ClockAt(s, h, z, j, k) /\ NewestAs(s, h, z, j, k)
         /\ FrontAt(s, h, z) = k - 1
<1>1. k \in 1 .. Len(h) /\ z.row = k /\ z.last = 0 /\ Len(h) \in Nat
  <2>1. Len(h) \in Nat
    BY DEF Streams
  <2> QED BY <2>1 DEF RowOn
<1>2. EpochAt(s, h, k) = k
  BY <1>1, MarkNext
<1>3. FrontAt(s, h, z) = k - 1
  BY <1>1, <1>2 DEF FrontAt, Frontier
<1>4. BegunAt(s, h, z, j, k)
  <2>1. k \in k .. (k - 1) + 1 /\ k <= k /\ ~(k - 1 >= k)
    BY <1>1
  <2>2. j.fit = FALSE /\ j.lagged = FALSE /\ (j.restarted => h[k].accept)
    BY DEF BeginsOver
  <2> QED BY <1>1, <1>2, <1>3, <2>1, <2>2 DEF BegunAt
<1>5. ClockAt(s, h, z, j, k)
  <2>1. BSum(s, h, k, k - 1) = 0
    <3>1. k \in 1 .. Len(h) + 1 /\ k - 1 \in 0 .. k /\ k - 1 <= Len(h)
      BY <1>1
    <3> QED BY <3>1, SumStarts
  <2>2. DSum(s, h, k) - DSum(s, h, k - 1) = 0
    <3>1. DAt(s, h, k) = 0
      BY <1>1, FreshTyped
    <3>2. k - 1 \in 0 .. Len(h) /\ k \in 1 .. Len(h)
      BY <1>1
    <3>3. DSum(s, h, k - 1) \in Nat /\ DSum(s, h, k) = DSum(s, h, k - 1) + DAt(s, h, k)
      BY <3>2, DSumIs
    <3> DEFINE a == DSum(s, h, k)
               b == DSum(s, h, k - 1)
    <3>4. b \in Nat /\ a = b + 0
      BY <3>1, <3>3
    <3> HIDE DEF a, b
    <3>5. a - b = 0
      BY <3>4
    <3> QED BY <3>5 DEF a, b
  <2>3. j.decayTime = 0 /\ j.held = 0 /\ j.decayTime + j.held = 0
    BY DEF BeginsOver
  <2> QED BY <1>1, <1>2, <1>3, <2>1, <2>2, <2>3 DEF ClockAt
<1>6. NewestAs(s, h, z, j, k)
  <2>1. j.newest = <<>> /\ \A n \in k .. k - 1 : ~Weighs(h, n)
    BY <1>1 DEF BeginsOver
  <2> QED BY <1>3, <2>1 DEF NewestAs, NewestOf
<1> QED BY <1>3, <1>4, <1>5, <1>6

\* The sums rise.
LEMMA SumsRise ==
  ASSUME NEW s \in Settings, NEW h \in Streams(s), NEW a \in 0 .. Len(h), NEW b \in a .. Len(h)
  PROVE  DSum(s, h, b) - DSum(s, h, a) \in Nat
<1> DEFINE T == {n \in a .. Len(h) : DSum(s, h, n) - DSum(s, h, a) \in Nat}
<1>0. Len(h) \in Nat /\ a \in Int /\ b \in Int
  BY DEF Streams
<1>1. /\ \A n \in 0 .. Len(h) : DSum(s, h, n) \in Nat
      /\ \A n \in 1 .. Len(h) : DSum(s, h, n) = DSum(s, h, n - 1) + DAt(s, h, n)
  BY DSumIs
<1>2. a \in T
  BY <1>0, <1>1
<1>3. ASSUME NEW n \in a + 1 .. b, n - 1 \in T PROVE n \in T
  <2> DEFINE p == DSum(s, h, n - 1)
             q == DSum(s, h, a)
             d == DAt(s, h, n)
             m == DSum(s, h, n)
  <2>1. n \in 1 .. Len(h) /\ n \in a .. Len(h) /\ n - 1 \in 0 .. Len(h)
    BY <1>0
  <2>2. d \in Nat /\ p \in Nat /\ q \in Nat /\ m = p + d /\ p - q \in Nat
    BY <1>1, <1>3, <2>1, DAtIs
  <2> HIDE DEF p, q, d, m
  <2>3. m - q \in Nat
    BY <2>2
  <2> QED BY <2>1, <2>3 DEF m, q
<1>4. a .. b \subseteq T
  <2> HIDE DEF T
  <2> QED BY <1>0, <1>2, <1>3, Along
<1> QED BY <1>0, <1>4

\* The step a row reads is one of the two it is handed, under the cap.
LEMMA ReadTyped ==
  ASSUME setting \in Settings, hist \in Streams(setting), NEW x, NEW k, NEW i, NEW p, NEW z,
         ScoredTo(setting, hist, x, k, p, z)
  PROVE  StepRead(i, p) \in 0 .. setting.clk.cap /\ setting.clk.cap \in Nat
<1>1. k \in 1 .. Len(hist) /\ p.d = DAt(setting, hist, k) /\ p.fresh = FreshAt(setting, hist, k)
  BY DEF ScoredTo
<1>2. setting.clk.cap \in Nat
  BY SettingIs
<1>3. p.d \in 0 .. setting.clk.cap
  <2>1. DAt(setting, hist, k) \in Nat /\ DAt(setting, hist, k) <= setting.clk.cap
    BY <1>1, DAtIs
  <2> QED BY <1>1, <1>2, <2>1
<1>4. p.fresh \in 0 .. setting.clk.cap
  BY <1>1, FreshTyped
<1>5. StepRead(i, p) = p.d \/ StepRead(i, p) = p.fresh
  BY DEF StepRead
<1> QED BY <1>2, <1>3, <1>4, <1>5

\* What a row scored reads of the model.
ScoreRead(i, p, rd) ==
  /\ rd.what = "scored" /\ rd.d = StepRead(i, p) /\ rd.newest = i.newest
  /\ rd.settled = i.decayTime + HeldRead(i, p)
  /\ rd.scoreStep = ScoreStep(HeldRead(i, p), StepRead(i, p))

LEMMA ScoredOn ==
  ASSUME setting \in Settings, hist \in Streams(setting), NEW x, Sound(setting, hist, x),
         NEW i, NEW st, BegunAt(setting, hist, x, i, st), ClockAt(setting, hist, x, i, st),
         NewestAs(setting, hist, x, i, st),
         NEW k, NEW p, NEW z, ScoredTo(setting, hist, x, k, p, z), RowOn(setting, hist, x, k, z),
         ~ResetAt(setting, hist, k), NEW rd, ScoreRead(i, p, rd)
  PROVE  ScoredAs(setting, hist, z, st, rd)
<1> DEFINE s == setting
           h == hist
           e == EpochAt(s, h, x.row)
           f == FrontAt(s, h, x)
<1>1. RangesOf(s, h, x, st, e, f)
  BY RangesAre
<1>2. /\ EpochAt(s, h, z.row) = e /\ FrontAt(s, h, z) = f
      /\ LikeDelay(s, h, z) => LikeDelay(s, h, x)
  BY OnwardFront
<1>3. StepRead(i, p) \in 0 .. s.clk.cap /\ s.clk.cap \in Nat
  BY ReadTyped
<1>4. /\ i.decayTime \in Nat /\ i.held \in Int
      /\ LikeDelay(s, h, x) =>
           /\ i.decayTime = BSum(s, h, st, f)
           /\ Holds(s) => i.held = DSum(s, h, x.row) - DSum(s, h, f)
      /\ ~Holds(s) => i.held = 0
      /\ Lab(s) => i.decayTime + i.held = DSum(s, h, x.row) - DSum(s, h, e - 1)
  BY DEF ClockAt
<1>5. /\ k \in 1 .. Len(h) /\ k = x.row + 1 /\ z.row = k /\ h[k].accept
      /\ x.row \in 0 .. Len(h) /\ x.row = k - 1 /\ f \in 0 .. k - 1 /\ st \in 1 .. k
  <2>1. k \in 1 .. Len(h) /\ k = x.row + 1 /\ z.row = k /\ h[k].accept
    BY DEF ScoredTo, RowOn
  <2> HIDE DEF e, f
  <2> QED BY <1>1, <2>1 DEF RangesOf
<1>6. HoldsClock <=> Holds(s)
  BY DEF HoldsClock, Embargoed, Labelled, Holds, Emb, Lab
<1>7. ASSUME Holds(s), LikeDelay(s, h, z)
      PROVE  /\ rd.settled = BSum(s, h, st, k - 1)
             /\ rd.scoreStep =
                  Lesser(Steps(s, h, k) - Steps(s, h, LaterOf(f, st)), s.clk.cap)
  <2>1. ~Lab(s) \/ s.by > 0
    BY <1>7 DEF LikeDelay
  <2>2. NextAt(s, h, x, st, f, e, k)
    <3>1. k = x.row + 1 /\ k \in 1 .. Len(h) /\ h[k].accept
      BY <1>5
    <3> QED BY <2>1, <3>1, NextIs
  <2>3. LikeDelay(s, h, x)
    BY <1>2, <1>7
  <2>4. i.decayTime = BSum(s, h, st, f) /\ i.held = DSum(s, h, k - 1) - DSum(s, h, f)
    BY <1>4, <1>5, <1>7, <2>3
  <2> HIDE DEF e, f
  <2>5. ReadsNext(s, h, i, p, st, f, k)
    BY <1>7, <2>2, <2>4, ScoreReads
  <2>6. /\ i.decayTime + HeldRead(i, p) = BSum(s, h, st, k - 1)
        /\ ScoreStep(HeldRead(i, p), StepRead(i, p)) =
             Lesser(Steps(s, h, k) - Steps(s, h, LaterOf(f, st)), s.clk.cap)
    BY <1>7, <2>2, <2>4, <2>5, ScoreSteps
  <2> QED BY <2>6 DEF ScoreRead
<1>8. rd.settled \in Nat
  <2>1. CASE ~Holds(s)
    <3>1. HeldRead(i, p) = 0
      BY <1>4, <1>6, <2>1 DEF HeldRead
    <3> QED BY <1>4, <3>1 DEF ScoreRead
  <2>2. CASE Holds(s) /\ LikeDelay(s, h, z)
    <3>1. BSum(s, h, st, k - 1) \in Nat
      <4>1. st \in 1 .. Len(h) + 1 /\ k - 1 \in 0 .. Len(h)
        BY <1>1, <1>5 DEF RangesOf
      <4> QED BY <4>1, BSumIs
    <3> QED BY <1>7, <2>2, <3>1
  <2>3. CASE Holds(s) /\ ~LikeDelay(s, h, z)
    <3>1. Lab(s)
      BY <2>3 DEF LikeDelay
    <3>2. ~KeepsCuts
      <4>1. ~Emb(s)
        BY <3>1, SettingIs
      <4> QED BY <4>1 DEF KeepsCuts, Embargoed, Emb
    <3>3. HeldRead(i, p) = i.held
      BY <3>2 DEF HeldRead
    <3>4. rd.settled = DSum(s, h, x.row) - DSum(s, h, e - 1)
      BY <1>4, <3>1, <3>3 DEF ScoreRead
    <3>5. e - 1 \in 0 .. Len(h) /\ x.row \in e - 1 .. Len(h)
      BY <1>1 DEF RangesOf
    <3> HIDE DEF e
    <3>6. DSum(s, h, x.row) - DSum(s, h, e - 1) \in Nat
      BY <3>5, SumsRise
    <3> QED BY <3>4, <3>6
  <2> QED BY <2>1, <2>2, <2>3
<1>9. ~Lab(s) => rd.scoreStep \in 0 .. s.clk.cap
  <2>1. CASE ~Holds(s)
    BY <1>3, <1>6, <2>1 DEF ScoreRead, ScoreStep
  <2>2. CASE Emb(s) /\ ~Lab(s)
    <3>1. rd.scoreStep = Lesser(Steps(s, h, k) - Steps(s, h, LaterOf(f, st)), s.clk.cap)
      BY <1>7, <2>2 DEF Holds, LikeDelay
    <3> DEFINE b == LaterOf(f, st)
    <3>2. b \in 0 .. Len(h) /\ k \in b .. Len(h)
      <4> HIDE DEF f
      <4> QED BY <1>5 DEF LaterOf
    <3> HIDE DEF b
    <3>3. Steps(s, h, k) \in Nat /\ Steps(s, h, b) \in Nat /\ Steps(s, h, b) <= Steps(s, h, k)
      <4>1. k \in 0 .. Len(h)
        BY <1>5
      <4> QED BY <3>2, <4>1, MarkIs, MarksRise
    <3>4. Steps(s, h, k) - Steps(s, h, b) \in Nat
      BY <3>3
    <3>5. Lesser(Steps(s, h, k) - Steps(s, h, b), s.clk.cap) \in 0 .. s.clk.cap
      BY <1>3, <3>4 DEF Lesser
    <3> QED BY <3>1, <3>5 DEF b
  <2> QED BY <2>1, <2>2 DEF Holds
<1>10. Emb(s) => NewestOf(h, st, f, rd.newest)
  BY DEF NewestAs, ScoreRead
<1>11. rd.d \in 0 .. s.clk.cap
  BY <1>3 DEF ScoreRead
<1>12. f < k /\ k - 1 = x.row
  <2> HIDE DEF f
  <2> QED BY <1>5
<1> HIDE DEF s, h, e, f
<1>13. ScoredAs(s, h, z, st, rd)
  BY <1>2, <1>5, <1>7, <1>8, <1>9, <1>10, <1>11, <1>12 DEF ScoredAs
<1> QED BY <1>13 DEF s, h

\* A row skipped.
LEMMA SkipBank ==
  ASSUME setting \in Settings, hist \in Streams(setting), IsInst(inst), NEW x,
         Sound(setting, hist, x), AsBank(setting, hist, x, inst, start, read),
         NEW p, NEW z, Skips(setting, hist, x, p, z)
  PROVE  AsBank(setting, hist, z, Entered(p), Began(p), Nothing)
<1> DEFINE s == setting
           h == hist
           k == x.row + 1
           i == Entered(p)
<1>1. SkippedTo(s, h, x, k, p, z)
  BY SkipFields DEF Sound
<1>2. RowOn(s, h, x, k, z)
  BY <1>1 DEF SkippedTo, RowOn
<1>3. /\ BegunAt(s, h, x, inst, start) /\ ClockAt(s, h, x, inst, start)
      /\ NewestAs(s, h, x, inst, start)
  BY DEF AsBank
<1>4. k \in 1 .. Len(h) /\ ~h[k].accept /\ p.id = k /\ p.kind = "skip" /\ p.reset = ResetAt(s, h, k)
  BY <1>1 DEF SkippedTo
<1> HIDE DEF k, s, h
<1>5. CASE ResetAt(s, h, k)
  <2>1. BeginsOver(h, k, i)
    <3>1. p.reset
      BY <1>4, <1>5
    <3>2. /\ i.decayTime = 0 /\ i.held = 0 /\ i.fit = FALSE /\ i.lagged = FALSE
          /\ i.newest = <<>> /\ i.restarted = (p.kind # "skip")
      BY <3>1, EnteredIs
    <3> HIDE DEF i
    <3> QED BY <1>4, <3>2 DEF BeginsOver
  <2>2. Began(p) = k
    BY <1>4, <1>5 DEF Began
  <2> HIDE DEF i
  <2> QED BY <1>2, <1>5, <2>1, <2>2, BegunOver DEF s, h, AsBank, ReadAs, Nothing, i
<1>6. CASE ~ResetAt(s, h, k)
  <2>1. i = inst /\ Began(p) = start
    BY <1>4, <1>6, EnteredIs DEF Began
  <2>2. DAt(s, h, k) = 0
    BY <1>4 DEF DAt
  <2>3. inst.held \in Int
    BY <1>3 DEF ClockAt
  <2>4. HeldMore(s, h, k, inst, inst)
    <3>1. inst.held = inst.held + 0
      BY <2>3
    <3> QED BY <2>2, <3>1 DEF HeldMore
  <2> HIDE DEF i
  <2>5. /\ BegunAt(s, h, z, inst, start) /\ ClockAt(s, h, z, inst, start)
        /\ NewestAs(s, h, z, inst, start)
    BY <1>2, <1>3, <1>6, <2>4, OnwardIs DEF s, h
  <2> QED BY <2>1, <2>5 DEF s, h, AsBank, ReadAs, Nothing, i
<1> QED BY <1>5, <1>6

\* A row scored.
LEMMA ScoreBank ==
  ASSUME setting \in Settings, hist \in Streams(setting), IsInst(inst), NEW x,
         Sound(setting, hist, x), AsBank(setting, hist, x, inst, start, read),
         NEW p, NEW z, Scores(setting, hist, x, p, z), NEW rd, ScoreRead(Entered(p), p, rd)
  PROVE  AsBank(setting, hist, z, ScoredInst(Entered(p), p), Began(p), rd)
<1> DEFINE s == setting
           h == hist
           k == x.row + 1
           i == Entered(p)
           j == ScoredInst(i, p)
<1>1. ScoredTo(s, h, x, k, p, z)
  BY ScoreFields DEF Sound
<1>2. RowOn(s, h, x, k, z)
  BY <1>1 DEF ScoredTo, RowOn
<1>3. /\ BegunAt(s, h, x, inst, start) /\ ClockAt(s, h, x, inst, start)
      /\ NewestAs(s, h, x, inst, start)
  BY DEF AsBank
<1>4. /\ k \in 1 .. Len(h) /\ h[k].accept /\ p.id = k /\ p.kind = "score"
      /\ p.reset = ResetAt(s, h, k) /\ p.d = DAt(s, h, k)
  BY <1>1 DEF ScoredTo
<1>5. HoldsClock <=> Holds(s)
  BY DEF HoldsClock, Embargoed, Labelled, Holds, Emb, Lab
<1>6. IsInst(i)
  BY EnteredIs
<1>7. /\ j.decayTime = i.decayTime /\ j.restarted = i.restarted
      /\ j.held = (IF HoldsClock THEN i.held + p.d ELSE i.held)
      /\ j.fit = i.fit /\ j.lagged = i.lagged /\ j.newest = i.newest
  <2> HIDE DEF i
  <2> QED BY <1>6, ScoredInstIs
<1>8. rd.what = "scored"
  BY DEF ScoreRead
<1> HIDE DEF k, s, h, j
<1>9. CASE ResetAt(s, h, k)
  <2>1. /\ i.decayTime = 0 /\ i.held = 0 /\ i.fit = FALSE /\ i.lagged = FALSE
        /\ i.newest = <<>> /\ i.restarted = TRUE
    <3>1. p.reset
      BY <1>4, <1>9
    <3> QED BY <1>4, <3>1, EnteredIs
  <2>2. DAt(s, h, k) = 0 /\ FreshAt(s, h, k) = 0
    BY <1>4, <1>9, FreshTyped DEF s, h
  <2> HIDE DEF i
  <2>3. BeginsOver(h, k, j)
    <3>1. j.held = 0
      BY <1>4, <1>7, <2>1, <2>2
    <3> QED BY <1>4, <1>7, <2>1, <3>1 DEF BeginsOver
  <2>4. Began(p) = k
    BY <1>4, <1>9 DEF Began
  <2>5. /\ BegunAt(s, h, z, j, k) /\ ClockAt(s, h, z, j, k) /\ NewestAs(s, h, z, j, k)
        /\ FrontAt(s, h, z) = k - 1
    BY <1>2, <1>9, <2>3, BegunOver DEF s, h
  <2>6. StepRead(i, p) = 0 /\ HeldRead(i, p) = 0
    <3>1. p.d = 0 /\ p.fresh = 0 /\ p.cut = <<>>
      BY <1>1, <1>9, <2>2 DEF ScoredTo, CutBefore
    <3>2. StepRead(i, p) = 0
      BY <3>1 DEF StepRead
    <3>3. HeldRead(i, p) = 0
      BY <2>1, <3>1 DEF HeldRead
    <3> QED BY <3>2, <3>3
  <2>7. rd.d = 0 /\ rd.settled = 0 /\ rd.scoreStep = 0 /\ rd.newest = <<>>
    <3>1. setting.clk.cap \in Nat
      BY SettingIs
    <3>2. ScoreStep(0, 0) = 0
      BY <3>1 DEF ScoreStep, C!Least
    <3> QED BY <2>1, <2>6, <3>2 DEF ScoreRead, i
  <2>8. ScoredAs(s, h, z, k, rd)
    <3>1. z.row = k /\ k \in Nat /\ k - 1 < k
      BY <1>2, <1>4 DEF RowOn, s, h
    <3>2. LaterOf(k - 1, k) = k
      BY <3>1 DEF LaterOf
    <3>3. BSum(s, h, k, k - 1) = 0
      <4>1. k \in 1 .. Len(h) + 1 /\ k - 1 \in 0 .. k /\ k - 1 <= Len(h)
        <5>1. Len(h) \in Nat
          BY DEF Streams, h
        <5> QED BY <1>4, <5>1
      <4> QED BY <4>1, SumStarts DEF s, h
    <3>4. Lesser(Steps(s, h, k) - Steps(s, h, k), s.clk.cap) = 0
      <4>1. Steps(s, h, k) \in Nat /\ s.clk.cap \in Nat
        <5>1. k \in 0 .. Len(h)
          BY <1>4
        <5> QED BY <5>1, MarkIs, SettingIs DEF s, h
      <4>2. Steps(s, h, k) - Steps(s, h, k) = 0
        BY <4>1
      <4> QED BY <4>1, <4>2 DEF Lesser
    <3>5. NewestOf(h, k, k - 1, rd.newest)
      <4>1. \A n \in k .. k - 1 : ~Weighs(h, n)
        BY <3>1
      <4> QED BY <2>7, <4>1 DEF NewestOf
    <3>6. rd.d \in 0 .. s.clk.cap /\ rd.settled \in Nat /\ rd.scoreStep \in 0 .. s.clk.cap
      <4>1. s.clk.cap \in Nat
        BY SettingIs DEF s
      <4> QED BY <2>7, <4>1
    <3> QED BY <2>5, <2>7, <3>1, <3>2, <3>3, <3>4, <3>5, <3>6 DEF ScoredAs
  <2> QED BY <1>8, <2>4, <2>5, <2>8 DEF s, h, j, AsBank, ReadAs, i
<1>10. CASE ~ResetAt(s, h, k)
  <2>1. i = inst /\ Began(p) = start
    BY <1>4, <1>10, EnteredIs DEF Began
  <2>2. HeldMore(s, h, k, inst, j)
    BY <1>4, <1>5, <1>7, <2>1 DEF HeldMore
  <2>3. ScoreRead(inst, p, rd)
    BY <2>1
  <2> HIDE DEF i
  <2>4. /\ BegunAt(s, h, z, j, start) /\ ClockAt(s, h, z, j, start)
        /\ NewestAs(s, h, z, j, start)
    BY <1>2, <1>3, <1>10, <2>2, OnwardIs DEF s, h
  <2>5. ScoredAs(s, h, z, start, rd)
    BY <1>1, <1>2, <1>3, <1>10, <2>3, ScoredOn DEF s, h
  <2>6. AsBank(s, h, z, j, start, rd)
    BY <1>8, <2>4, <2>5 DEF AsBank, ReadAs
  <2> QED BY <2>1, <2>6 DEF s, h, j, i
<1> QED BY <1>9, <1>10

\* A row learned: where it stands in its epoch.
LearnsAt(s, h, x, st, e, k, p, z) ==
  /\ Len(h) \in Nat /\ e = EpochAt(s, h, x.row) /\ k = x.queue[1] /\ k \in 1 .. Len(h)
  /\ x.row \in 1 .. Len(h) /\ k \in e .. x.row /\ e \in 1 .. x.row /\ st \in e .. k /\ p.id = k
  /\ h[k].accept /\ z.row = x.row /\ z.last = k /\ FrontAt(s, h, z) = k
  /\ p.kind = "learn" /\ p.d = LearnStep(s, h, x) /\ p.fresh = FreshOf(s, h, k)

LEMMA LearnsIs ==
  ASSUME NEW s \in Settings, NEW h \in Streams(s), NEW x, Sound(s, h, x),
         NEW i, NEW st, BegunAt(s, h, x, i, st), NEW p, NEW z, LearnedTo(s, h, x, p, z)
  PROVE  LearnsAt(s, h, x, st, EpochAt(s, h, x.row), x.queue[1], p, z)
<1> DEFINE e == EpochAt(s, h, x.row)
           f == FrontAt(s, h, x)
           k == x.queue[1]
<1>1. RangesOf(s, h, x, st, e, f)
  BY RangesAre
<1>2. /\ x.queue # <<>> /\ k \in 1 .. x.row /\ p.id = k /\ z.row = x.row /\ z.last = k
      /\ p.kind = "learn" /\ p.d = LearnStep(s, h, x) /\ p.fresh = FreshOf(s, h, k)
  BY DEF LearnedTo
<1>3. k >= e /\ h[k].accept
  <2>1. InQueue(s, h, x, e)
    BY DEF Sound, Books
  <2>2. 1 \in 1 .. Len(x.queue)
    <3>1. x.queue \in Seq(1 .. x.row)
      BY DEF Sound, Ledger
    <3> QED BY <1>2, <3>1
  <2> QED BY <2>1, <2>2 DEF InQueue, HasLesson
<1>4. FrontAt(s, h, z) = k
  <2>1. k # 0
    BY <1>1, <1>2 DEF RangesOf
  <2> QED BY <1>2, <2>1 DEF FrontAt, Frontier
<1>5. st <= k
  <2>1. CASE ~Lab(s)
    <3>1. k \in f + 1 .. x.row
      BY <1>2, <2>1, QueueHead
    <3> HIDE DEF f, k, e
    <3> QED BY <1>1, <3>1 DEF RangesOf
  <2>2. CASE Lab(s)
    <3>1. ~s.drift
      BY <2>2, SettingIs
    <3>2. st = e
      BY <3>1 DEF BegunAt
    <3> HIDE DEF k, e
    <3> QED BY <1>1, <1>2, <1>3, <3>2 DEF RangesOf
  <2> QED BY <2>1, <2>2
<1> HIDE DEF e, f, k
<1>6. /\ Len(h) \in Nat /\ k \in 1 .. Len(h) /\ x.row \in 1 .. Len(h) /\ k \in e .. x.row
      /\ e \in 1 .. x.row /\ st \in e .. k
  BY <1>1, <1>2, <1>3, <1>5 DEF RangesOf
<1>7. LearnsAt(s, h, x, st, e, k, p, z)
  BY <1>2, <1>3, <1>4, <1>6 DEF LearnsAt, e, k
<1> QED BY <1>7 DEF e, k

LEMMA LearnTyped ==
  ASSUME NEW s \in Settings, NEW h \in Streams(s), NEW x, Sound(s, h, x),
         NEW st, NEW e, NEW k, NEW p, NEW z, LearnsAt(s, h, x, st, e, k, p, z), x.queue # <<>>
  PROVE  p.d \in 0 .. s.clk.cap /\ p.fresh \in 0 .. s.clk.cap /\ s.clk.cap \in Nat
<1>0. /\ k = x.queue[1] /\ k \in 1 .. Len(h) /\ e = EpochAt(s, h, x.row)
      /\ p.d = LearnStep(s, h, x) /\ p.fresh = FreshOf(s, h, k)
  BY DEF LearnsAt
<1>1. s.clk.cap \in Nat
  BY SettingIs
<1>2. p.fresh \in 0 .. s.clk.cap
  <2>1. FreshAt(s, h, k) \in 0 .. s.clk.cap
    BY <1>0, FreshTyped
  <2>2. 0 \in 0 .. s.clk.cap
    BY <1>1
  <2> QED BY <1>0, <2>1, <2>2 DEF FreshOf
<1>3. LearnStep(s, h, x) \in 0 .. s.clk.cap
  <2>1. CASE ~Lab(s)
    <3>1. DAt(s, h, k) \in Nat /\ DAt(s, h, k) <= s.clk.cap
      BY <1>0, DAtIs
    <3>2. LearnStep(s, h, x) = DAt(s, h, k)
      BY <1>0, <2>1 DEF LearnStep
    <3> QED BY <1>1, <3>1, <3>2
  <2>2. CASE Lab(s) /\ x.last = 0
    <3>1. LearnStep(s, h, x) = 0
      BY <2>2 DEF LearnStep
    <3> QED BY <1>1, <3>1
  <2>3. CASE Lab(s) /\ x.last # 0
    <3>1. Earlier(s, h, x.last, k)
      <4>1. InLearnt(s, h, x, e, x.now)
        BY <1>0 DEF Sound, Books
      <4>2. 1 \in 1 .. Len(x.queue)
        <5>1. x.queue \in Seq(1 .. x.row)
          BY DEF Sound, Ledger
        <5> QED BY <5>1
      <4> QED BY <1>0, <2>3, <4>1, <4>2 DEF InLearnt
    <3>2. x.last \in 1 .. Len(h)
      <4>1. x.last \in 0 .. x.row /\ x.row \in 0 .. Len(h) /\ Len(h) \in Nat
        BY DEF Sound, Ledger, Streams
      <4> QED BY <2>3, <4>1
    <3> DEFINE a == h[k].label
               b == h[x.last].label
    <3>3. a \in Int /\ b \in Int
      BY <1>0, <3>2, RowIs
    <3>4. b <= a
      <4>1. b < a \/ b = a
        BY <2>3, <3>1 DEF Earlier
      <4> HIDE DEF a, b
      <4> QED BY <3>3, <4>1
    <3>5. LearnStep(s, h, x) = Lesser(a - b, s.clk.cap)
      BY <1>0, <2>3 DEF LearnStep, LabelStep
    <3> HIDE DEF a, b
    <3>6. Lesser(a - b, s.clk.cap) \in 0 .. s.clk.cap
      BY <1>1, <3>3, <3>4 DEF Lesser
    <3> QED BY <3>5, <3>6
  <2> QED BY <2>1, <2>2, <2>3
<1> QED BY <1>0, <1>1, <1>2, <1>3

\* What it makes of the model but the clock.
LearnedFrom(i, p, d, j) ==
  /\ j.decayTime = i.decayTime + d /\ j.restarted = FALSE /\ j.fit = TRUE /\ j.lagged = TRUE
  /\ j.held = (IF HoldsClock THEN i.held - p.d ELSE i.held)
  /\ j.newest = (IF hist[p.id].w > 0 THEN <<hist[p.id].at>> ELSE i.newest)

LEMMA LearnBegun ==
  ASSUME NEW s \in Settings, NEW h \in Streams(s), NEW x, NEW i, NEW st, BegunAt(s, h, x, i, st),
         NEW e, NEW k, NEW p, NEW z, LearnsAt(s, h, x, st, e, k, p, z),
         NEW j, j.restarted = FALSE, j.fit = TRUE, j.lagged = TRUE
  PROVE  BegunAt(s, h, z, j, st)
<1>1. /\ e = EpochAt(s, h, x.row) /\ z.row = x.row /\ FrontAt(s, h, z) = k /\ st \in e .. k
      /\ e \in 1 .. x.row /\ k \in 1 .. Len(h) /\ x.row \in 1 .. Len(h) /\ Len(h) \in Nat
  BY DEF LearnsAt
<1>2. (~s.drift => st = e) /\ (st # e => h[st - 1].accept)
  BY <1>1 DEF BegunAt
<1>3. st \in e .. k + 1 /\ k >= st
  BY <1>1
<1> QED BY <1>1, <1>2, <1>3 DEF BegunAt

\* A drift: the model begins at the next row.
LEMMA DriftBegun ==
  ASSUME NEW s \in Settings, NEW h \in Streams(s), s.drift, NEW x, NEW st,
         NEW e, NEW k, NEW p, NEW z, LearnsAt(s, h, x, st, e, k, p, z),
         NEW j, j.restarted = TRUE, j.fit = FALSE, j.lagged = FALSE
  PROVE  BegunAt(s, h, z, j, k + 1)
<1>1. /\ e = EpochAt(s, h, x.row) /\ z.row = x.row /\ FrontAt(s, h, z) = k /\ k \in e .. x.row
      /\ e \in 1 .. x.row /\ k \in 1 .. Len(h) /\ x.row \in 1 .. Len(h) /\ Len(h) \in Nat
      /\ h[k].accept
  BY DEF LearnsAt
<1>2. k + 1 \in e .. k + 1 /\ k + 1 # e /\ (k + 1) - 1 = k /\ ~(k >= k + 1)
  BY <1>1
<1> QED BY <1>1, <1>2 DEF BegunAt

-----------------------------------------------------------------------------
\* The step a row learned reads is one of the two it is handed; under labels
\* they are one where the model was restarted.
LEMMA LearnStepTyped ==
  ASSUME setting \in Settings, hist \in Streams(setting), NEW x, Sound(setting, hist, x),
         NEW i, NEW st, BegunAt(setting, hist, x, i, st),
         NEW e, NEW k, NEW p, NEW z, LearnsAt(setting, hist, x, st, e, k, p, z), x.queue # <<>>
  PROVE  /\ StepRead(i, p) \in 0 .. setting.clk.cap /\ StepRead(i, p) \in Nat
         /\ p.d \in Nat /\ setting.clk.cap \in Nat
         /\ Lab(setting) => StepRead(i, p) = p.d
<1> DEFINE s == setting
           h == hist
           c == s.clk.cap
           d == p.d
           r == p.fresh
<1>1. d \in 0 .. c /\ r \in 0 .. c /\ c \in Nat
  BY LearnTyped
<1>2. p.kind = "learn" /\ r = FreshOf(s, h, k) /\ d = LearnStep(s, h, x)
  BY DEF LearnsAt
<1>3. StepRead(i, p) = IF ~i.restarted THEN d ELSE r
  BY <1>2 DEF StepRead
<1>4. ASSUME Lab(s), i.restarted PROVE d = r
  <2>1. r = 0
    BY <1>2, <1>4 DEF FreshOf
  <2>2. ~s.drift
    BY <1>4, SettingIs
  <2> DEFINE f == FrontAt(s, h, x)
             g == EpochAt(s, h, x.row)
  <2>3. st = g /\ f = st - 1
    BY <1>4, <2>2 DEF BegunAt
  <2>4. x.last = 0 <=> f = g - 1
    BY FrontSound
  <2>5. x.last = 0
    BY <2>3, <2>4
  <2> QED BY <1>2, <1>4, <2>1, <2>5 DEF LearnStep
<1>5. StepRead(i, p) \in 0 .. c
  BY <1>1, <1>3
<1>6. d \in Nat /\ StepRead(i, p) \in Nat
  <2> HIDE DEF c, d
  <2> DEFINE sr == StepRead(i, p)
  <2> HIDE DEF sr
  <2> QED BY <1>1, <1>5 DEF sr
<1>7. Lab(s) => StepRead(i, p) = d
  BY <1>3, <1>4
<1> QED BY <1>1, <1>5, <1>6, <1>7

\* Its clocks go on by it.
LEMMA LearnClock ==
  ASSUME setting \in Settings, hist \in Streams(setting), Legal(setting, hist), NEW x,
         Sound(setting, hist, x), NEW i, NEW st, BegunAt(setting, hist, x, i, st),
         ClockAt(setting, hist, x, i, st),
         NEW p, NEW z, LearnedTo(setting, hist, x, p, z),
         NEW j, LearnedFrom(i, p, StepRead(i, p), j)
  PROVE  ClockAt(setting, hist, z, j, st)
<1> DEFINE s == setting
           h == hist
           e == EpochAt(s, h, x.row)
           f == FrontAt(s, h, x)
           k == x.queue[1]
           sr == StepRead(i, p)
           d == p.d
<1>0. x.queue # <<>> /\ d = LearnStep(s, h, x)
  BY DEF LearnedTo
<1>1. LearnsAt(s, h, x, st, e, k, p, z)
  BY LearnsIs
<1>2. /\ Len(h) \in Nat /\ k \in 1 .. Len(h) /\ x.row \in 1 .. Len(h) /\ k \in e .. x.row
      /\ e \in 1 .. x.row /\ st \in e .. k /\ z.row = x.row /\ FrontAt(s, h, z) = k
  BY <1>1 DEF LearnsAt
<1>3. sr \in Nat /\ d \in Nat /\ (Lab(s) => sr = d)
  BY <1>0, <1>1, LearnStepTyped
<1>4. HoldsClock <=> Holds(s)
  BY DEF HoldsClock, Embargoed, Labelled, Holds, Emb, Lab
<1>5. /\ j.decayTime = i.decayTime + sr
      /\ j.held = (IF Holds(s) THEN i.held - d ELSE i.held)
  BY <1>4 DEF LearnedFrom
<1>6. i.decayTime \in Nat /\ i.held \in Int
  BY DEF ClockAt
<1>7. j.decayTime \in Nat /\ j.held \in Int
  <2> DEFINE a == i.decayTime
             b == i.held
             aa == j.decayTime
             bb == j.held
  <2>1. a \in Nat /\ b \in Int /\ sr \in Nat /\ d \in Nat
    BY <1>3, <1>6
  <2>2. aa = a + sr /\ (bb = b - d \/ bb = b)
    BY <1>5
  <2> HIDE DEF a, b, aa, bb, sr, d
  <2>3. aa \in Nat /\ bb \in Int
    BY <2>1, <2>2
  <2> QED BY <2>3 DEF aa, bb
<1>8. ASSUME LikeDelay(s, h, z)
      PROVE  /\ j.decayTime = BSum(s, h, st, k)
             /\ Holds(s) => j.held = DSum(s, h, x.row) - DSum(s, h, k)
  <2>1. LikeDelay(s, h, x)
    BY <1>2, <1>8 DEF LikeDelay
  <2>2. ~Lab(s) \/ s.by > 0
    BY <2>1 DEF LikeDelay
  <2>3. HeadAt(s, h, x, st, f, e, k)
    BY <1>0, <2>2, HeadIs
  <2>4. sr = BankStep(s, h, st, k)
    BY <2>1, <2>3, LearnReads
  <2>5. d = DAt(s, h, k)
    BY <1>0, <2>1, <2>3, LearnStepIs
  <2>6. /\ f \in 0 .. Len(h) /\ k - 1 \in f .. Len(h) /\ \A n \in f + 1 .. k - 1 : ~h[n].accept
        /\ st \in 1 .. Len(h) + 1 /\ k - 1 \in 0 .. Len(h)
    <3>1. /\ e \in 1 .. x.row /\ f \in e - 1 .. x.row /\ k \in f + 1 .. x.row
          /\ st \in e .. f + 1 /\ \A n \in f + 1 .. k - 1 : ~h[n].accept
      BY <2>3 DEF HeadAt
    <3> HIDE DEF e, f, k
    <3> QED BY <1>2, <3>1
  <2>7. DSum(s, h, k - 1) = DSum(s, h, f) /\ BSum(s, h, st, k - 1) = BSum(s, h, st, f)
    <3> HIDE DEF f, k
    <3> QED BY <2>6, SumsFlat
  <2>8. /\ DSum(s, h, k) = DSum(s, h, k - 1) + DAt(s, h, k)
        /\ DSum(s, h, x.row) \in Nat /\ DSum(s, h, k - 1) \in Nat /\ DSum(s, h, k) \in Nat
    <3>1. x.row \in 0 .. Len(h) /\ k \in 0 .. Len(h)
      BY <1>2
    <3> QED BY <1>2, <2>6, <3>1, DSumIs
  <2>9. BSum(s, h, st, k) = BSum(s, h, st, k - 1) + BankStep(s, h, st, k)
    BY <1>2, <2>6, BSumIs
  <2>10. /\ i.decayTime = BSum(s, h, st, f)
         /\ Holds(s) => i.held = DSum(s, h, x.row) - DSum(s, h, f)
    BY <2>1 DEF ClockAt
  <2>11. j.decayTime = BSum(s, h, st, k)
    BY <1>5, <2>4, <2>7, <2>9, <2>10
  <2>12. ASSUME Holds(s) PROVE j.held = DSum(s, h, x.row) - DSum(s, h, k)
    <3> DEFINE b == i.held
               bb == j.held
               A == DSum(s, h, x.row)
               B == DSum(s, h, k - 1)
               D == DSum(s, h, k)
    <3>1. bb = b - d /\ b = A - B /\ D = B + d /\ A \in Nat /\ B \in Nat /\ D \in Nat /\ d \in Nat
      BY <1>3, <1>5, <2>5, <2>7, <2>8, <2>10, <2>12
    <3> HIDE DEF b, bb, A, B, D, d
    <3>2. bb = A - D
      BY <3>1
    <3> QED BY <3>2 DEF bb, A, D
  <2> QED BY <2>11, <2>12
<1>9. ~Holds(s) => j.held = 0
  BY <1>5 DEF ClockAt
<1>10. ASSUME Lab(s)
       PROVE  j.decayTime + j.held
                = DSum(s, h, x.row) - DSum(s, h, EpochAt(s, h, x.row) - 1)
  <2> DEFINE a == i.decayTime
             b == i.held
             aa == j.decayTime
             bb == j.held
             R == DSum(s, h, x.row) - DSum(s, h, EpochAt(s, h, x.row) - 1)
  <2>1. a + b = R
    BY <1>10 DEF ClockAt
  <2>2. aa = a + d /\ bb = b - d /\ a \in Nat /\ b \in Int /\ d \in Nat
    BY <1>3, <1>5, <1>6, <1>10 DEF Holds
  <2> HIDE DEF a, b, aa, bb, R, d
  <2>3. aa + bb = R
    BY <2>1, <2>2
  <2> QED BY <2>3 DEF aa, bb, R
<1> HIDE DEF k
<1> QED BY <1>2, <1>7, <1>8, <1>9, <1>10 DEF ClockAt

\* After a drift the rows held are those after it.
LEMMA DriftClock ==
  ASSUME NEW s \in Settings, NEW h \in Streams(s), s.drift, NEW x, NEW st,
         NEW e, NEW k, NEW p, NEW z, LearnsAt(s, h, x, st, e, k, p, z),
         NEW i, ClockAt(s, h, z, i, st),
         NEW j, j.decayTime = 0, j.held = i.held
  PROVE  ClockAt(s, h, z, j, k + 1)
<1>1. /\ z.row = x.row /\ FrontAt(s, h, z) = k /\ k \in 1 .. Len(h) /\ Len(h) \in Nat
  BY DEF LearnsAt
<1>2. ~Lab(s)
  BY SettingIs
<1>3. BSum(s, h, k + 1, k) = 0
  <2>1. k + 1 \in 1 .. Len(h) + 1 /\ k \in 0 .. k + 1 /\ k <= Len(h)
    BY <1>1
  <2> QED BY <2>1, SumStarts
<1>4. /\ i.held \in Int
      /\ LikeDelay(s, h, z) /\ Holds(s) => i.held = DSum(s, h, z.row) - DSum(s, h, k)
      /\ ~Holds(s) => i.held = 0
  BY <1>1 DEF ClockAt
<1> QED BY <1>1, <1>2, <1>3, <1>4 DEF ClockAt

\* The newest row of some weight is the last one learned that had any.
LEMMA LearnNewest ==
  ASSUME setting \in Settings, hist \in Streams(setting), NEW x, Sound(setting, hist, x),
         NEW i, NEW st, BegunAt(setting, hist, x, i, st), NewestAs(setting, hist, x, i, st),
         NEW p, NEW z, LearnedTo(setting, hist, x, p, z),
         NEW d, NEW j, LearnedFrom(i, p, d, j)
  PROVE  NewestAs(setting, hist, z, j, st)
<1> DEFINE s == setting
           h == hist
           e == EpochAt(s, h, x.row)
           f == FrontAt(s, h, x)
           k == x.queue[1]
<1>1. SUFFICES ASSUME Emb(s) PROVE NewestOf(h, st, k, j.newest)
  <2>1. FrontAt(s, h, z) = k
    <3>1. LearnsAt(s, h, x, st, e, k, p, z)
      BY LearnsIs
    <3> QED BY <3>1 DEF LearnsAt
  <2> QED BY <2>1 DEF NewestAs
<1>2. x.queue # <<>> /\ p.id = k
  BY DEF LearnedTo
<1>3. HeadAt(s, h, x, st, f, e, k)
  <2>1. ~Lab(s)
    BY <1>1, SettingIs
  <2> QED BY <1>2, <2>1, HeadIs
<1>4. /\ h[k].accept /\ e \in 1 .. x.row /\ x.row \in 1 .. Len(h) /\ Len(h) \in Nat
      /\ f \in e - 1 .. x.row /\ st \in e .. f + 1 /\ k \in f + 1 .. x.row
      /\ \A n \in f + 1 .. k - 1 : ~h[n].accept
  BY <1>3 DEF HeadAt
<1>5. NewestOf(h, st, f, i.newest)
  BY <1>1 DEF NewestAs
<1>6. j.newest = (IF h[k].w > 0 THEN <<h[k].at>> ELSE i.newest)
  BY <1>2 DEF LearnedFrom
<1> HIDE DEF e, f, k
<1>7. CASE h[k].w > 0
  <2>1. k \in st .. k /\ Weighs(h, k) /\ j.newest = <<h[k].at>>
    BY <1>4, <1>6, <1>7 DEF Weighs
  <2>2. \A n \in k + 1 .. k : ~Weighs(h, n)
    BY <1>4
  <2> QED BY <2>1, <2>2 DEF NewestOf
<1>8. CASE ~(h[k].w > 0)
  <2>1. j.newest = i.newest
    BY <1>6, <1>8
  <2>2. \A n \in f + 1 .. k : ~Weighs(h, n)
    <3>1. SUFFICES ASSUME NEW n \in f + 1 .. k PROVE ~Weighs(h, n)
      OBVIOUS
    <3>2. n \in f + 1 .. k - 1 \/ n = k
      BY <1>4
    <3> QED BY <1>4, <1>8, <3>2 DEF Weighs
  <2>3. CASE i.newest = <<>> /\ \A n \in st .. f : ~Weighs(h, n)
    <3>1. \A n \in st .. k : ~Weighs(h, n)
      <4>1. SUFFICES ASSUME NEW n \in st .. k PROVE ~Weighs(h, n)
        OBVIOUS
      <4>2. n \in st .. f \/ n \in f + 1 .. k
        BY <1>4
      <4> QED BY <2>2, <2>3, <4>2
    <3> QED BY <2>1, <2>3, <3>1 DEF NewestOf
  <2>4. ASSUME NEW m \in st .. f, Weighs(h, m), i.newest = <<h[m].at>>,
               \A n \in m + 1 .. f : ~Weighs(h, n)
        PROVE  NewestOf(h, st, k, j.newest)
    <3>1. m \in st .. k
      BY <1>4, <2>4
    <3>2. \A n \in m + 1 .. k : ~Weighs(h, n)
      <4>1. SUFFICES ASSUME NEW n \in m + 1 .. k PROVE ~Weighs(h, n)
        OBVIOUS
      <4>2. n \in m + 1 .. f \/ n \in f + 1 .. k
        BY <1>4, <2>4
      <4> QED BY <2>2, <2>4, <4>2
    <3> QED BY <2>1, <2>4, <3>1, <3>2 DEF NewestOf
  <2> QED BY <1>5, <2>3, <2>4 DEF NewestOf
<1> QED BY <1>7, <1>8

\* What a row learned reads of the model.
LearnRead(i, p, st, rd) ==
  /\ rd.what = "learned" /\ rd.id = p.id /\ rd.from = st /\ rd.settled = 0 /\ rd.scoreStep = 0
  /\ ReadOf(i, p, rd)

LEMMA LearnedReads ==
  ASSUME setting \in Settings, hist \in Streams(setting), Legal(setting, hist), NEW x,
         Sound(setting, hist, x), NEW i, NEW st, BegunAt(setting, hist, x, i, st),
         NEW p, NEW z, LearnedTo(setting, hist, x, p, z), NEW rd, LearnRead(i, p, st, rd),
         NEW t, Lab(setting) => t = st
  PROVE  LearnedAs(setting, hist, t, rd)
<1> DEFINE s == setting
           h == hist
           e == EpochAt(s, h, x.row)
           f == FrontAt(s, h, x)
           k == x.queue[1]
<1>0. x.queue # <<>> /\ p.id = k
  BY DEF LearnedTo
<1>1. LearnsAt(s, h, x, st, e, k, p, z)
  BY LearnsIs
<1>2. /\ Len(h) \in Nat /\ k \in 1 .. Len(h) /\ e \in 1 .. x.row /\ x.row \in 1 .. Len(h)
      /\ st \in e .. k
  BY <1>1 DEF LearnsAt
<1>3. rd.d \in 0 .. s.clk.cap
  <2>1. StepRead(i, p) \in 0 .. s.clk.cap
    BY <1>0, <1>1, LearnStepTyped
  <2> QED BY <2>1 DEF LearnRead, ReadOf
<1>4. /\ rd.settled = 0 /\ rd.scoreStep = 0 /\ rd.id = k /\ rd.from = st /\ ReadOf(i, p, rd)
  BY <1>0 DEF LearnRead
<1>5. rd.from \in 1 .. rd.id /\ rd.id \in 1 .. Len(h)
  <2> HIDE DEF e, k
  <2>1. st \in 1 .. k
    BY <1>2
  <2> QED BY <1>2, <1>4, <2>1
<1>6. ASSUME ~Lab(s) \/ (s.by > 0 /\ h[st].accept)
      PROVE  HandedAt(s, h, st, k, rd)
  <2>1. LikeDelay(s, h, x)
    <3>1. CASE ~Lab(s)
      BY <3>1 DEF LikeDelay
    <3>2. CASE Lab(s)
      <4>1. ~s.drift
        BY <3>2, SettingIs
      <4>2. st = e
        BY <4>1 DEF BegunAt
      <4> QED BY <1>6, <3>2, <4>2 DEF LikeDelay
    <3> QED BY <3>1, <3>2
  <2>2. ~Lab(s) \/ s.by > 0
    BY <1>6
  <2>3. HeadAt(s, h, x, st, f, e, k)
    BY <1>0, <2>2, HeadIs
  <2> QED BY <1>4, <2>1, <2>3, LearnHands
<1>7. ~Lab(s) \/ (s.by > 0 /\ h[rd.from].accept) => HandedAt(s, h, rd.from, rd.id, rd)
  <2> HIDE DEF e, f, k
  <2> QED BY <1>4, <1>6
<1> QED BY <1>3, <1>4, <1>5, <1>7 DEF LearnedAs

LEMMA LearnedIs ==
  ASSUME NEW i, IsInst(i), NEW p, NEW d
  PROVE  LearnedFrom(i, p, d, LearnedInst(i, p, d))
<1> DEFINE n == LearnedInst(i, p, d)
           a == IF HoldsClock THEN i.held - p.d ELSE i.held
           b == Tail(i.records)
           c == IF hist[p.id].w > 0 THEN <<hist[p.id].at>> ELSE i.newest
           e == i.decayTime + d
<1>1. n = [i EXCEPT !.decayTime = e, !.restarted = FALSE, !.held = a, !.records = b,
                    !.fit = TRUE, !.lagged = TRUE, !.newest = c]
  BY DEF LearnedInst
<1> HIDE DEF a, b, c, e, n
<1>2. n = [decayTime |-> e, restarted |-> FALSE, held |-> a,
           records |-> b, fit |-> TRUE, lagged |-> TRUE, newest |-> c]
  BY <1>1 DEF IsInst
<1>3. /\ n.decayTime = e /\ n.restarted = FALSE /\ n.held = a /\ n.fit = TRUE
      /\ n.lagged = TRUE /\ n.newest = c
  BY <1>2
<1>4. LearnedFrom(i, p, d, n)
  BY <1>3 DEF LearnedFrom, a, c, e
<1> QED BY <1>4 DEF n

\* A row learned, and a drift at it.
LEMMA LearnBank ==
  ASSUME setting \in Settings, hist \in Streams(setting), Legal(setting, hist), IsInst(inst),
         NEW x, Sound(setting, hist, x), AsBank(setting, hist, x, inst, start, read),
         NEW p, NEW z, LearnedTo(setting, hist, x, p, z), NEW rd, LearnRead(inst, p, start, rd)
  PROVE  LET j == LearnedInst(inst, p, StepRead(inst, p))
         IN  /\ AsBank(setting, hist, z, j, start, rd)
             /\ setting.drift => AsBank(setting, hist, z, Reset(j), p.id + 1, rd)
<1> DEFINE s == setting
           h == hist
           e == EpochAt(s, h, x.row)
           k == x.queue[1]
           d == StepRead(inst, p)
           j == LearnedInst(inst, p, d)
           m == Reset(j)
<1>0. /\ BegunAt(s, h, x, inst, start) /\ ClockAt(s, h, x, inst, start)
      /\ NewestAs(s, h, x, inst, start)
  BY DEF AsBank
<1>1. LearnsAt(s, h, x, start, e, k, p, z) /\ p.id = k
  <2>1. LearnsAt(s, h, x, start, e, k, p, z)
    BY <1>0, LearnsIs
  <2> QED BY <2>1 DEF LearnedTo
<1>3. LearnedFrom(inst, p, d, j)
  BY LearnedIs
<1>2. j.restarted = FALSE /\ j.fit = TRUE /\ j.lagged = TRUE
  BY <1>3 DEF LearnedFrom
<1>4. /\ m.decayTime = 0 /\ m.restarted = TRUE /\ m.held = j.held
      /\ m.fit = FALSE /\ m.lagged = FALSE /\ m.newest = <<>>
  <2> HIDE DEF j
  <2> QED BY ResetIs
<1>5. BegunAt(s, h, z, j, start)
  <2> HIDE DEF j, e, k
  <2> QED BY <1>0, <1>1, <1>2, LearnBegun
<1>6. ClockAt(s, h, z, j, start)
  BY <1>0, <1>3, LearnClock
<1>7. NewestAs(s, h, z, j, start)
  BY <1>0, <1>3, LearnNewest
<1>8. ASSUME NEW t, Lab(s) => t = start PROVE ReadAs(s, h, z, t, rd)
  <2>1. LearnedAs(s, h, t, rd)
    BY <1>0, <1>8, LearnedReads
  <2>2. rd.what = "learned"
    BY DEF LearnRead
  <2> QED BY <2>1, <2>2 DEF ReadAs
<1>9. AsBank(s, h, z, j, start, rd)
  <2>1. ReadAs(s, h, z, start, rd)
    BY <1>8
  <2> HIDE DEF j
  <2> QED BY <1>5, <1>6, <1>7, <2>1 DEF AsBank
<1>10. ASSUME s.drift PROVE AsBank(s, h, z, m, p.id + 1, rd)
  <2>1. BegunAt(s, h, z, m, k + 1)
    <3> HIDE DEF m, e, k
    <3> QED BY <1>1, <1>4, <1>10, DriftBegun
  <2>2. ClockAt(s, h, z, m, k + 1)
    <3> HIDE DEF m, j, e, k
    <3> QED BY <1>1, <1>4, <1>6, <1>10, DriftClock
  <2>3. NewestAs(s, h, z, m, k + 1)
    <3>1. FrontAt(s, h, z) = k /\ k \in Nat
      BY <1>1 DEF LearnsAt
    <3>2. \A n \in k + 1 .. k : ~Weighs(h, n)
      <4> HIDE DEF k
      <4> QED BY <3>1
    <3> HIDE DEF k, m
    <3> QED BY <1>4, <3>1, <3>2 DEF NewestAs, NewestOf
  <2>4. ReadAs(s, h, z, k + 1, rd)
    <3>1. ~Lab(s)
      BY <1>10, SettingIs
    <3> QED BY <1>8, <3>1
  <2> HIDE DEF m, k
  <2> QED BY <1>1, <2>1, <2>2, <2>3, <2>4 DEF AsBank
<1> HIDE DEF j, m, d
<1>11. AsBank(s, h, z, j, start, rd) /\ (s.drift => AsBank(s, h, z, m, p.id + 1, rd))
  BY <1>9, <1>10
<1> QED BY <1>11 DEF j, m, d

-----------------------------------------------------------------------------
(* The invariant of the rows and the model.                                 *)
Modelled ==
  /\ StreamInv /\ IsInst(inst)
  /\ \E x, y : /\ Way(x, y) /\ AtLedger(x)
               /\ AsBank(setting, hist, x, inst, start, read)

LEMMA FirstBank ==
  ASSUME NEW s \in Settings, NEW h, h = <<>>
  PROVE  AsBank(s, h, NoLedger, Fresh, 1, Nothing)
<1>0. h \in Streams(s) /\ Len(h) = 0
  BY DEF Streams
<1>1. NoLedger.row = 0 /\ NoLedger.last = 0
  BY DEF NoLedger
<1>2. EpochAt(s, h, 0) = 1
  BY <1>0, MarkZero
<1>3. FrontAt(s, h, NoLedger) = 0
  BY <1>1, <1>2 DEF FrontAt, Frontier
<1>4. /\ Fresh.decayTime = 0 /\ Fresh.held = 0 /\ Fresh.restarted = FALSE /\ Fresh.fit = FALSE
      /\ Fresh.lagged = FALSE /\ Fresh.newest = <<>>
  BY DEF Fresh
<1>5. /\ Nothing.what = "nothing" /\ Nothing.d = 0 /\ Nothing.settled = 0 /\ Nothing.scoreStep = 0
  BY DEF Nothing
<1>6. BSum(s, h, 1, 0) = 0 /\ DSum(s, h, 0) = 0
  <2>1. 1 \in 1 .. Len(h) + 1
    BY <1>0
  <2> QED BY <1>0, <2>1, BSumIs, DSumIs
<1>7. BegunAt(s, h, NoLedger, Fresh, 1)
  BY <1>1, <1>2, <1>3, <1>4 DEF BegunAt
<1>8. ClockAt(s, h, NoLedger, Fresh, 1)
  <2>1. NoLedger.row = 0 /\ EpochAt(s, h, NoLedger.row) - 1 = 0
    BY <1>1, <1>2
  <2> QED BY <1>3, <1>4, <1>6, <2>1 DEF ClockAt
<1>9. NewestAs(s, h, NoLedger, Fresh, 1)
  BY <1>3, <1>4 DEF NewestAs, NewestOf
<1>10. ReadAs(s, h, NoLedger, 1, Nothing)
  BY <1>5 DEF ReadAs
<1> QED BY <1>7, <1>8, <1>9, <1>10 DEF AsBank

LEMMA ModelledInit ==
  ASSUME Init
  PROVE  Modelled
<1>1. StreamInv /\ Way(NoLedger, NoLedger) /\ AtLedger(NoLedger) /\ IsInst(inst)
  BY InitInv
<1>2. setting \in Settings /\ hist = <<>> /\ inst = Fresh /\ start = 1 /\ read = Nothing
  BY DEF Init
<1>3. AsBank(setting, hist, NoLedger, inst, start, read)
  BY <1>2, FirstBank
<1> QED BY <1>1, <1>3 DEF Modelled

LEMMA ModelledStill ==
  ASSUME Modelled, UNCHANGED vars
  PROVE  Modelled'
<1>1. /\ setting' = setting /\ clock' = clock /\ restartFold' = restartFold /\ hist' = hist
      /\ open' = open /\ BufferNow' = BufferNow /\ plans' = plans /\ inst' = inst
      /\ read' = read /\ epoch' = epoch /\ start' = start /\ learnt' = learnt
  BY DEF vars, buffer, model, BufferNow
<1>2. StreamInv'
  BY <1>1 DEF Modelled, StreamInv
<1>3. IsInst(inst)'
  BY <1>1 DEF Modelled, IsInst
<1>4. PICK x, y : Way(x, y) /\ AtLedger(x) /\ AsBank(setting, hist, x, inst, start, read)
  BY DEF Modelled
<1>5. Way(x, y)' /\ AtLedger(x)' /\ AsBank(setting, hist, x, inst, start, read)'
  BY <1>1, <1>4 DEF Way, AtLedger
<1> QED BY <1>2, <1>3, <1>5 DEF Modelled

LEMMA ModelledNext ==
  ASSUME Modelled, Next
  PROVE  Modelled'
<1>1. StreamInv /\ IsInst(inst)
  BY DEF Modelled
<1>2. PICK x, y : Way(x, y) /\ AtLedger(x) /\ AsBank(setting, hist, x, inst, start, read)
  BY DEF Modelled
<1>3. /\ setting \in Settings /\ hist \in Streams(setting) /\ Legal(setting, hist)
      /\ Sound(setting, hist, x) /\ Ledger(hist, x)
  BY <1>1, <1>2 DEF StreamInv, Way, Sound
<1> DEFINE p == Head(plans)
<1>4. CASE Feed
  <2>1. StreamInv' /\ (\E z : Way(x, z)') /\ AtLedger(x)'
        /\ \E chunk \in Streams(setting) : hist' = hist \o chunk
    BY <1>1, <1>2, <1>4, FeedInv
  <2>2. IsInst(inst)' /\ setting' = setting /\ inst' = inst /\ start' = start /\ read' = read
    BY <1>1, <1>4 DEF Feed, model, IsInst
  <2>3. PICK chunk \in Streams(setting) : hist' = hist \o chunk
    BY <2>1
  <2>4. AsBank(setting, hist \o chunk, x, inst, start, read)
    BY <1>2, <1>3, AsBankGrows
  <2>5. AsBank(setting, hist, x, inst, start, read)'
    BY <2>2, <2>3, <2>4
  <2> QED BY <2>1, <2>2, <2>5 DEF Modelled
<1>5. CASE StepSkip
  <2>1. StreamInv' /\ IsInst(inst)'
        /\ \E z, g : Skips(setting, hist, x, p, z) /\ Way(z, g)' /\ AtLedger(z)'
    BY <1>1, <1>2, <1>5, SkipInv
  <2>2. PICK z, g : Skips(setting, hist, x, p, z) /\ Way(z, g)' /\ AtLedger(z)'
    BY <2>1
  <2>3. AsBank(setting, hist, z, Entered(p), Began(p), Nothing)
    BY <1>1, <1>2, <1>3, <2>2, SkipBank
  <2>4. /\ setting' = setting /\ hist' = hist /\ inst' = Entered(p) /\ start' = Began(p)
        /\ read' = Nothing
    BY <1>5 DEF StepSkip
  <2>5. AsBank(setting, hist, z, inst, start, read)'
    BY <2>3, <2>4
  <2> QED BY <2>1, <2>2, <2>5 DEF Modelled
<1>6. CASE StepScore
  <2>1. StreamInv' /\ IsInst(inst)'
        /\ \E z, g : Scores(setting, hist, x, p, z) /\ Way(z, g)' /\ AtLedger(z)'
    BY <1>1, <1>2, <1>6, ScoreInv
  <2>2. PICK z, g : Scores(setting, hist, x, p, z) /\ Way(z, g)' /\ AtLedger(z)'
    BY <2>1
  <2>3. ScoreRead(Entered(p), p, read')
    BY <1>6 DEF StepScore, ScoreRead, Nothing
  <2>4. AsBank(setting, hist, z, ScoredInst(Entered(p), p), Began(p), read')
    BY <1>1, <1>2, <1>3, <2>2, <2>3, ScoreBank
  <2>5. /\ setting' = setting /\ hist' = hist /\ inst' = ScoredInst(Entered(p), p)
        /\ start' = Began(p)
    BY <1>6 DEF StepScore, ScoredInst
  <2>6. AsBank(setting, hist, z, inst, start, read)'
    BY <2>4, <2>5
  <2> QED BY <2>1, <2>2, <2>6 DEF Modelled
<1>7. CASE StepLearn
  <2> DEFINE i == LearnedInst(inst, p, StepRead(inst, p))
  <2>1. StreamInv' /\ IsInst(inst)'
        /\ \E z, g : Learns(setting, hist, x, p, z) /\ Way(z, g)' /\ AtLedger(z)'
    BY <1>1, <1>2, <1>7, LearnInv
  <2>2. PICK z, g : Learns(setting, hist, x, p, z) /\ Way(z, g)' /\ AtLedger(z)'
    BY <2>1
  <2>3. LearnedTo(setting, hist, x, p, z)
    BY <1>3, <2>2, LearnFields
  <2>4. LearnRead(inst, p, start, read')
    BY <1>7 DEF StepLearn, LearnRead, ReadOf, Nothing
  <2>5. /\ AsBank(setting, hist, z, i, start, read')
        /\ setting.drift => AsBank(setting, hist, z, Reset(i), p.id + 1, read')
    BY <1>1, <1>2, <1>3, <2>3, <2>4, LearnBank
  <2>6. /\ setting' = setting /\ hist' = hist
        /\ \/ inst' = i /\ start' = start
           \/ setting.drift /\ inst' = Reset(i) /\ start' = p.id + 1
    BY <1>7 DEF StepLearn, LearnedInst, MayTrip
  <2>7. AsBank(setting, hist, z, inst, start, read)'
    <3> HIDE DEF i
    <3> QED BY <2>5, <2>6
  <2> QED BY <2>1, <2>2, <2>7 DEF Modelled
<1> QED BY <1>4, <1>5, <1>6, <1>7 DEF Next

\* At any time the model has learned what a bank has that was begun where it
\* was last restarted and was fed every row up to the last one learned: its
\* clock, its lags and its newest row are the bank's, and the clock of the rows
\* held makes up for those ahead, over clock resets and drifts.
THEOREM ModelKept == Spec => []Modelled
<1>1. Init => Modelled
  BY ModelledInit
<1>2. Modelled /\ [Next]_vars => Modelled'
  BY ModelledNext, ModelledStill
<1> QED BY <1>1, <1>2, PTL DEF Spec

-----------------------------------------------------------------------------
(* What is learned is what a bank that held no row learns.                  *)

\* The clock of a bank that learns every row where it stands.
UndelayedAt(s, h, f, k, out) ==
  /\ out.adv.dClock = BankStep(s, h, f, k)
  /\ out.adv.changed <=> k > f /\ ChangedAt(h, k)
  /\ out.adv.capped <=> k > f /\ BankGap(s, h, f, k)

LEMMA UndelayedIs ==
  ASSUME setting \in Settings, hist \in Streams(setting),
         NEW f \in 1 .. Len(hist), NEW to \in f .. Len(hist),
         \A j \in f + 1 .. to : ~ResetAt(setting, hist, j)
  PROVE  \A k \in f .. to : UndelayedAt(setting, hist, f, k, Undelayed(f, to)[k])
<1> DEFINE s == setting
           h == hist
           t == f .. to
           run == Bank(f, to, t)
<1>0. Len(h) \in Nat
  BY DEF Streams
<1>1. \A k \in f .. to : BankAt(s, h, f, t, k, run[k - 1], run[k])
  <2> HIDE DEF run, t
  <2> QED BY BankIs DEF run
<1>2. SUFFICES ASSUME NEW k \in f .. to PROVE UndelayedAt(s, h, f, k, run[k])
  BY DEF Undelayed
<1> DEFINE out == run[k]
<1>3. BankAt(s, h, f, t, k, run[k - 1], out)
  BY <1>1
<1>4. k \in 1 .. Len(h) /\ k - 1 \in 0 .. Len(h) /\ k \in Nat /\ f \in Nat
  BY <1>0
<1>5. TakenAt(h, t, k) <=> h[k].accept
  BY DEF TakenAt
<1> HIDE DEF out, run
<1>8. out.adv.changed <=> k > f /\ ChangedAt(h, k)
  <2>1. out.adv.changed = (k > f /\ ChangedAt(h, k))
    BY <1>3 DEF BankAt
  <2> QED BY <2>1
<1>6. CASE k = f
  <2>1. out.adv.dClock = 0 /\ out.adv.capped = FALSE
    BY <1>3, <1>6 DEF BankAt
  <2>3. ~(k > f)
    BY <1>4, <1>6
  <2>2. BankStep(s, h, f, k) = 0
    BY <1>4, <1>6 DEF BankStep
  <2>4. out.adv.capped <=> k > f /\ BankGap(s, h, f, k)
    BY <2>1, <2>3
  <2>5. out.adv.dClock = BankStep(s, h, f, k)
    BY <2>1, <2>2
  <2> QED BY <1>8, <2>4, <2>5 DEF UndelayedAt, out
<1>7. CASE k # f
  <2>1. k > f /\ k - 1 \in f .. Len(h)
    BY <1>4, <1>7
  <2> DEFINE l == LastAt(s, h, k - 1)
             m == BaseSince(s, h, f, k - 1)
  <2>2. l \in 0 .. k - 1 /\ (l # 0 => h[l].accept) /\ \A j \in l + 1 .. k - 1 : ~h[j].accept
    BY <1>4, LastIs
  <2>3. m = LaterOf(l, f)
    BY DEF BaseSince
  <2>4. BaseFor(h, f, t, k - 1, m)
    <3> HIDE DEF l, m
    <3>1. m \in f .. k - 1
      BY <1>4, <2>1, <2>2, <2>3 DEF LaterOf
    <3>2. m = f \/ TakenAt(h, t, m)
      <4>1. SUFFICES ASSUME m # f PROVE TakenAt(h, t, m)
        OBVIOUS
      <4>2. m = l /\ l # 0 /\ m \in f .. to
        BY <1>4, <2>1, <2>2, <2>3, <3>1, <4>1 DEF LaterOf
      <4> QED BY <2>2, <4>2 DEF TakenAt
    <3>3. \A j \in m + 1 .. k - 1 : ~TakenAt(h, t, j)
      <4>1. SUFFICES ASSUME NEW j \in m + 1 .. k - 1 PROVE ~h[j].accept
        BY DEF TakenAt
      <4>2. j \in l + 1 .. k - 1
        BY <1>4, <2>2, <2>3 DEF LaterOf
      <4> QED BY <2>2, <4>2
    <3> QED BY <3>1, <3>2, <3>3 DEF BaseFor
  <2>5. /\ out.adv.capped = (PastCapAt(s, h, k) \/
             (h[k].accept /\ Steps(s, h, k) - Steps(s, h, m) > s.clk.cap))
        /\ out.adv.dClock =
             (IF h[k].accept THEN Lesser(Steps(s, h, k) - Steps(s, h, m), s.clk.cap) ELSE 0)
    <3> HIDE DEF m, t
    <3> QED BY <1>3, <1>5, <2>1, <2>4 DEF BankAt
  <2>6. out.adv.dClock = BankStep(s, h, f, k)
    <3>1. ~(k <= f)
      BY <1>4, <2>1
    <3> QED BY <2>5, <3>1 DEF BankStep, m
  <2>7. out.adv.capped <=> BankGap(s, h, f, k)
    BY <2>5 DEF BankGap
  <2>8. out.adv.capped <=> k > f /\ BankGap(s, h, f, k)
    BY <2>1, <2>7
  <2> QED BY <1>8, <2>6, <2>8 DEF UndelayedAt, out
<1> QED BY <1>6, <1>7

LEMMA MaxIs ==
  ASSUME NEW S \in SUBSET Int, NEW m \in S, \A x \in S : x <= m
  PROVE  Max(S) = m
<1>1. m \in S /\ \A y \in S : m >= y
  OBVIOUS
<1>2. Max(S) \in S /\ \A y \in S : Max(S) >= y
  BY <1>1 DEF Max
<1> DEFINE n == Max(S)
<1>3. n \in Int /\ m \in Int /\ n >= m /\ n <= m
  BY <1>2
<1> HIDE DEF n
<1> QED BY <1>3 DEF n

\* The last row accepted before row k, if one is among those from row f on.
LEMMA BeforeIs ==
  ASSUME setting \in Settings, hist \in Streams(setting),
         NEW k \in 1 .. Len(hist), NEW f \in 1 .. k
  PROVE  LET l == LastAt(setting, hist, k - 1)
         IN  /\ l \in 0 .. k - 1
             /\ l < f => Accepted(f, k - 1) = {}
             /\ l >= f => Accepted(f, k - 1) # {} /\ Max(Accepted(f, k - 1)) = l
<1> DEFINE l == LastAt(setting, hist, k - 1)
           S == Accepted(f, k - 1)
<1>0. Len(hist) \in Nat /\ k - 1 \in 0 .. Len(hist) /\ k \in Nat /\ f \in Nat
  BY DEF Streams
<1>1. /\ l \in 0 .. k - 1 /\ (l # 0 => hist[l].accept)
      /\ \A j \in l + 1 .. k - 1 : ~hist[j].accept
  BY <1>0, LastIs
<1>2. S \in SUBSET Int /\ \A j \in S : j \in f .. k - 1 /\ hist[j].accept
  BY <1>0 DEF Accepted
<1>3. \A j \in S : j <= l
  <2>1. SUFFICES ASSUME NEW j \in S, ~(j <= l) PROVE FALSE
    OBVIOUS
  <2>2. j \in f .. k - 1 /\ hist[j].accept
    BY <1>2
  <2>3. j \in l + 1 .. k - 1
    <3> HIDE DEF l, S
    <3> QED BY <1>0, <1>1, <2>1, <2>2
  <2> QED BY <1>1, <2>2, <2>3
<1>4. ASSUME l < f PROVE S = {}
  <2>1. \A j \in S : FALSE
    <3>1. SUFFICES ASSUME NEW j \in S PROVE FALSE
      OBVIOUS
    <3> HIDE DEF l, S
    <3> QED BY <1>0, <1>1, <1>2, <1>3, <1>4
  <2> QED BY <2>1
<1>5. ASSUME l >= f PROVE S # {} /\ Max(S) = l
  <2>1. l \in f .. k - 1 /\ hist[l].accept
    <3> HIDE DEF l
    <3> QED BY <1>0, <1>1, <1>5
  <2>2. l \in S
    BY <2>1 DEF Accepted
  <2> HIDE DEF l, S
  <2> QED BY <1>2, <1>3, <2>2, MaxIs
<1> QED BY <1>1, <1>4, <1>5

\* What was handed is what such a bank hands.
LEMMA HandedIs ==
  ASSUME setting \in Settings, hist \in Streams(setting), NEW f, NEW k \in 1 .. Len(hist),
         HandedAt(setting, hist, f, k, read)
  PROVE  LET run    == Undelayed(f, k)
             before == Accepted(f, k - 1)
             since  == IF before = {} THEN {} ELSE (Max(before) + 1) .. k
         IN  /\ read.d = run[k].adv.dClock
             /\ read.paired <=> before # {} /\ \A i \in since :
                  ~run[i].adv.changed /\ ~run[i].adv.capped
             /\ read.blended <=> \E i \in since : run[i].adv.changed
<1> DEFINE s == setting
           h == hist
           l == LastAt(s, h, k - 1)
           run == Undelayed(f, k)
           before == Accepted(f, k - 1)
           since == IF before = {} THEN {} ELSE (Max(before) + 1) .. k
<1>1. /\ f \in 1 .. k /\ k <= Len(h) /\ h[k].accept
      /\ \A j \in f + 1 .. k : ~ResetAt(s, h, j)
      /\ read.d = BankStep(s, h, f, k)
      /\ read.paired <=> l >= f /\ \A j \in l + 1 .. k : ~ChangedAt(h, j) /\ ~BankGap(s, h, f, j)
      /\ read.blended <=> l >= f /\ \E j \in l + 1 .. k : ChangedAt(h, j)
  BY DEF HandedAt
<1>2. /\ Len(h) \in Nat /\ k \in 1 .. Len(h) /\ f \in 1 .. Len(h) /\ k \in f .. Len(h)
      /\ k \in f .. k
  <2>1. Len(h) \in Nat
    BY DEF Streams
  <2> QED BY <1>1, <2>1
<1>3. \A i \in f .. k : UndelayedAt(s, h, f, i, run[i])
  <2> HIDE DEF run
  <2> QED BY <1>1, <1>2, UndelayedIs DEF run
<1>4. /\ l \in 0 .. k - 1
      /\ l < f => before = {}
      /\ l >= f => before # {} /\ Max(before) = l
  BY <1>1, <1>2, BeforeIs
<1> HIDE DEF run, before, l
<1>5. read.d = run[k].adv.dClock
  BY <1>1, <1>2, <1>3 DEF UndelayedAt
<1>6. CASE l < f
  <2>1. ~(l >= f)
    BY <1>1, <1>2, <1>4, <1>6
  <2>2. before = {} /\ since = {}
    BY <1>4, <1>6
  <2>3. ~read.paired /\ ~read.blended
    BY <1>1, <2>1
  <2> HIDE DEF since
  <2>4. /\ read.paired <=> before # {} /\ \A i \in since :
                  ~run[i].adv.changed /\ ~run[i].adv.capped
        /\ read.blended <=> \E i \in since : run[i].adv.changed
    BY <2>2, <2>3
  <2> QED BY <1>5, <2>4 DEF run, before, since
<1>7. CASE ~(l < f)
  <2>1. l >= f
    BY <1>1, <1>2, <1>4, <1>7
  <2>2. before # {} /\ since = l + 1 .. k
    BY <1>4, <2>1
  <2>3. ASSUME NEW i \in l + 1 .. k
        PROVE  /\ run[i].adv.changed <=> ChangedAt(h, i)
               /\ run[i].adv.capped <=> BankGap(s, h, f, i)
    <3>1. i \in f .. k /\ i > f
      BY <1>2, <1>4, <2>1
    <3> QED BY <1>3, <3>1 DEF UndelayedAt
  <2> HIDE DEF since
  <2>4. read.paired <=> before # {} /\ \A i \in since :
                  ~run[i].adv.changed /\ ~run[i].adv.capped
    BY <1>1, <2>1, <2>2, <2>3
  <2>5. read.blended <=> \E i \in since : run[i].adv.changed
    BY <1>1, <2>1, <2>2, <2>3
  <2> QED BY <1>5, <2>4, <2>5 DEF run, before, since
<1> QED BY <1>6, <1>7

LEMMA ModelledLearns ==
  ASSUME Modelled
  PROVE  LearnsAsUndelayed
<1>1. SUFFICES ASSUME read.what = "learned", AsDelay \/ Formulas
               PROVE  HandedAt(setting, hist, read.from, read.id, read)
                      /\ setting \in Settings /\ hist \in Streams(setting)
                      /\ read.id \in 1 .. Len(hist)
  BY HandedIs DEF LearnsAsUndelayed
<1>2. PICK x : AsBank(setting, hist, x, inst, start, read)
  BY DEF Modelled
<1>3. setting \in Settings /\ hist \in Streams(setting)
  BY DEF Modelled, StreamInv
<1>4. LearnedAs(setting, hist, start, read)
  BY <1>1, <1>2 DEF AsBank, ReadAs
<1>5. ~Lab(setting) \/ (setting.by > 0 /\ hist[read.from].accept)
  <2>1. CASE Lab(setting)
    <3>1. ~Embargoed /\ ~Formulas
      BY <1>3, <2>1, SettingIs DEF Embargoed, Formulas, Emb, Frm
    <3>2. LabelsBehind /\ hist[start].accept
      BY <1>1, <3>1 DEF AsDelay
    <3>3. read.from = start
      BY <1>4, <2>1 DEF LearnedAs
    <3> QED BY <3>2, <3>3 DEF LabelsBehind
  <2> QED BY <2>1
<1> QED BY <1>3, <1>4, <1>5 DEF LearnedAs

\* A row held by a delay or a formula is learned as a bank that never held it
\* would learn it, begun where the model was last restarted: over the same step,
\* with the same row behind it in the lags and the same blend (run_instance,
\* apply_label_delay).
THEOREM LearnedAsUndelayed == Spec => []LearnsAsUndelayed
BY ModelKept, ModelledLearns, PTL

-----------------------------------------------------------------------------
(* What is scored ahead of the rows held.                                   *)

\* Where a row scored stands: row st the model's first, row f the last learned.
ScoredHere(x, st, e, f, k) ==
  /\ setting \in Settings /\ hist \in Streams(setting) /\ Len(hist) \in Nat
  /\ e \in 1 .. k /\ k \in 1 .. Len(hist) /\ f \in e - 1 .. k - 1 /\ st \in e .. f + 1
  /\ hist[k].accept /\ f = FrontAt(setting, hist, x) /\ e = EpochAt(setting, hist, x.row)
  /\ \A j \in e + 1 .. k : ~ResetAt(setting, hist, j)
  /\ f >= e => hist[f].accept
  /\ ScoredAs(setting, hist, x, st, read) /\ read.id = k /\ x.row = k
\* In line, the rows learned since are the accepted ones up to f.
TakenHere(e, f, k) ==
  \A j \in e .. k : j \in ToSet(learnt) <=> j <= f /\ hist[j].accept

LEMMA ScoredHereIs ==
  ASSUME StreamInv, NEW x, NEW y, Way(x, y), AtLedger(x),
         AsBank(setting, hist, x, inst, start, read), read.what = "scored"
  PROVE  /\ ScoredHere(x, start, EpochAt(setting, hist, x.row), FrontAt(setting, hist, x), x.row)
         /\ ~Lab(setting) \/ setting.by > 0 =>
              TakenHere(EpochAt(setting, hist, x.row), FrontAt(setting, hist, x), x.row)
         /\ ~setting.drift => start = EpochAt(setting, hist, x.row)
<1> DEFINE s == setting
           h == hist
           e == EpochAt(s, h, x.row)
           f == FrontAt(s, h, x)
           k == x.row
<1>1. setting \in Settings /\ hist \in Streams(setting) /\ Sound(setting, hist, x)
  BY DEF StreamInv, Way
<1>2. read.id = k /\ k > 0 /\ h[k].accept
  BY DEF AtLedger
<1>3. BegunAt(s, h, x, inst, start)
  BY DEF AsBank
<1>4. ScoredAs(s, h, x, start, read)
  BY DEF AsBank, ReadAs
<1>5. /\ k \in 0 .. Len(h) /\ Len(h) \in Nat /\ (k > 0 => e <= k) /\ e \in 1 .. k + 1
      /\ f \in e - 1 .. k /\ (f >= e => h[f].accept)
      /\ \A j \in e + 1 .. k : ~ResetAt(s, h, j)
  BY <1>1, FrontSound
<1>6. f < k
  BY <1>4 DEF ScoredAs
<1>7. start \in e .. f + 1 /\ (~s.drift => start = e)
  BY <1>3 DEF BegunAt
<1>8. ScoredHere(x, start, e, f, k)
  <2>1. f = FrontAt(setting, hist, x) /\ e = EpochAt(setting, hist, x.row) /\ k = x.row
    OBVIOUS
  <2> HIDE DEF e, f, k
  <2>2. e \in 1 .. k /\ k \in 1 .. Len(h) /\ f \in e - 1 .. k - 1
    BY <1>2, <1>5, <1>6
  <2> QED BY <1>1, <1>2, <1>4, <1>5, <1>7, <2>1, <2>2 DEF ScoredHere
<1>9. ASSUME ~Lab(s) \/ s.by > 0 PROVE TakenHere(e, f, k)
  <2>1. \A j \in e .. k : j \in Taken(x) <=> j <= Frontier(x, e) /\ h[j].accept
    BY <1>1, <1>9 DEF Sound, Books, InLine
  <2>2. ToSet(learnt) = Taken(x)
    BY LearntIs
  <2> QED BY <2>1, <2>2 DEF TakenHere, FrontAt
<1> QED BY <1>7, <1>8, <1>9

\* An embargo's rows, and those of labels one delay behind them.
LEMMA AsDelayIs ==
  ASSUME setting \in Settings, AsDelay, NEW x,
         ~setting.drift => start = EpochAt(setting, hist, x.row)
  PROVE  /\ ~Lab(setting) \/ setting.by > 0
         /\ Holds(setting) /\ LikeDelay(setting, hist, x)
<1>1. CASE Embargoed
  <2>1. Emb(setting)
    BY <1>1 DEF Embargoed, Emb
  <2>2. ~Lab(setting)
    BY <2>1, SettingIs
  <2> QED BY <2>1, <2>2 DEF Holds, LikeDelay
<1>2. CASE ~Embargoed
  <2>1. Lab(setting) /\ setting.by > 0 /\ hist[start].accept
    BY <1>2 DEF AsDelay, LabelsBehind, Labelled, Lab
  <2>2. ~setting.drift
    BY <2>1, SettingIs
  <2> QED BY <2>1, <2>2 DEF Holds, LikeDelay
<1> QED BY <1>1, <1>2

LEMMA ScoredFrom ==
  ASSUME NEW x, NEW e, NEW f, NEW k, ScoredHere(x, start, e, f, k), TakenHere(e, f, k),
         Holds(setting), LikeDelay(setting, hist, x)
  PROVE  read.scoreStep = Bank(start, k, ToSet(learnt) \cup {k})[k].adv.dClock
<1> DEFINE s == setting
           h == hist
           st == start
           t == ToSet(learnt) \cup {k}
           run == Bank(st, k, t)
           m == LaterOf(f, st)
<1>1. /\ s \in Settings /\ h \in Streams(s) /\ Len(h) \in Nat
      /\ e \in 1 .. k /\ k \in 1 .. Len(h) /\ f \in e - 1 .. k - 1 /\ st \in e .. f + 1
      /\ h[k].accept /\ (f >= e => h[f].accept) /\ x.row = k
      /\ \A j \in e + 1 .. k : ~ResetAt(s, h, j)
  BY DEF ScoredHere
<1>2. read.scoreStep = Lesser(Steps(s, h, k) - Steps(s, h, m), s.clk.cap)
  BY <1>1 DEF ScoredHere, ScoredAs
<1>3. /\ st \in 1 .. Len(h) /\ k \in st .. Len(h) /\ k \in st .. k
      /\ \A j \in st + 1 .. k : ~ResetAt(s, h, j)
  BY <1>1
<1>4. BankAt(s, h, st, t, k, run[k - 1], run[k])
  <2>1. \A j \in st .. k : BankAt(s, h, st, t, j, run[j - 1], run[j])
    <3> HIDE DEF run, t
    <3> QED BY <1>1, <1>3, BankIs DEF run
  <2> QED BY <1>3, <2>1
<1> DEFINE out == run[k]
<1>5. BankAt(s, h, st, t, k, run[k - 1], out)
  BY <1>4
<1>6. TakenAt(h, t, k)
  BY <1>1 DEF TakenAt
<1> HIDE DEF run, out
<1>7. CASE k = st
  <2>1. out.adv.dClock = 0
    BY <1>5, <1>7 DEF BankAt
  <2>2. m = k
    <3> HIDE DEF st
    <3> QED BY <1>1, <1>7 DEF LaterOf
  <2>3. Steps(s, h, k) \in Nat /\ s.clk.cap \in Nat
    <3>1. k \in 0 .. Len(h)
      BY <1>1
    <3> QED BY <1>1, <3>1, MarkIs, SettingIs
  <2>4. read.scoreStep = 0
    <3> HIDE DEF m
    <3> QED BY <1>2, <2>2, <2>3 DEF Lesser
  <2> QED BY <2>1, <2>4 DEF out, run
<1>8. CASE k # st
  <2>1. k > st /\ m \in st .. k - 1 /\ (m = st \/ (m = f /\ f > st))
    <3> HIDE DEF st
    <3> QED BY <1>1, <1>8 DEF LaterOf
  <2>2. BaseFor(h, st, t, k - 1, m)
    <3>1. m = st \/ TakenAt(h, t, m)
      <4>1. SUFFICES ASSUME m = f, f > st PROVE TakenAt(h, t, f)
        BY <2>1
      <4>2. f \in e .. k /\ f >= e /\ f <= f
        BY <1>1, <4>1
      <4>3. f \in ToSet(learnt)
        BY <1>1, <4>2 DEF TakenHere
      <4> QED BY <1>1, <4>2, <4>3 DEF TakenAt
    <3>2. \A j \in m + 1 .. k - 1 : ~TakenAt(h, t, j)
      <4>1. SUFFICES ASSUME NEW j \in m + 1 .. k - 1 PROVE j \notin ToSet(learnt) /\ j # k
        BY DEF TakenAt
      <4>2. j \in e .. k /\ ~(j <= f) /\ j # k
        <5> HIDE DEF st
        <5> QED BY <1>1, <4>1 DEF LaterOf
      <4> QED BY <4>2 DEF TakenHere
    <3> QED BY <2>1, <3>1, <3>2 DEF BaseFor
  <2>3. out.adv.dClock = Lesser(Steps(s, h, k) - Steps(s, h, m), s.clk.cap)
    <3> HIDE DEF m, t
    <3> QED BY <1>5, <1>6, <2>1, <2>2 DEF BankAt
  <2> QED BY <1>2, <2>3 DEF out, run
<1> QED BY <1>7, <1>8

\* The settled clock is that of a bank that held no row.
LEMMA ScoredSettled ==
  ASSUME NEW x, NEW e, NEW f, NEW k, ScoredHere(x, start, e, f, k),
         Holds(setting), LikeDelay(setting, hist, x)
  PROVE  LET run == Undelayed(start, k)
         IN  read.settled = Sum(start, k - 1, [i \in start .. k |-> run[i].adv.dClock])
<1> DEFINE s == setting
           h == hist
           st == start
           run == Undelayed(st, k)
           term == [i \in st .. k |-> run[i].adv.dClock]
           R == [i \in 0 .. Len(h) |-> BSum(s, h, st, i)]
<1>1. /\ s \in Settings /\ h \in Streams(s) /\ Len(h) \in Nat
      /\ e \in 1 .. k /\ k \in 1 .. Len(h) /\ f \in e - 1 .. k - 1 /\ st \in e .. f + 1
      /\ x.row = k /\ \A j \in e + 1 .. k : ~ResetAt(s, h, j)
  BY DEF ScoredHere
<1>2. read.settled = BSum(s, h, st, k - 1)
  BY <1>1 DEF ScoredHere, ScoredAs
<1>3. /\ st \in 1 .. Len(h) /\ k \in st .. Len(h) /\ st - 1 \in 0 .. Len(h) /\ k - 1 \in 0 .. Len(h)
      /\ st \in 1 .. Len(h) + 1 /\ st \in Int /\ k - 1 \in Int /\ st - 1 <= k - 1
      /\ st - 1 \in 0 .. st /\ st - 1 <= Len(h)
      /\ \A j \in st + 1 .. k : ~ResetAt(s, h, j)
  BY <1>1
<1>4. \A i \in st .. k : UndelayedAt(s, h, st, i, run[i])
  <2> HIDE DEF run
  <2> QED BY <1>1, <1>3, UndelayedIs DEF run
<1>5. /\ \A i \in 0 .. Len(h) : BSum(s, h, st, i) \in Nat
      /\ \A i \in 1 .. Len(h) : BSum(s, h, st, i) = BSum(s, h, st, i - 1) + BankStep(s, h, st, i)
  BY <1>1, <1>3, BSumIs
<1>6. BSum(s, h, st, st - 1) = 0
  BY <1>1, <1>3, SumStarts
<1>7. ASSUME NEW i \in st .. k - 1 PROVE term[i] \in Int /\ R[i] = R[i - 1] + term[i]
  <2>1. i \in st .. k /\ i \in 1 .. Len(h) /\ i \in 0 .. Len(h) /\ i - 1 \in 0 .. Len(h)
    BY <1>1, <1>3
  <2>2. term[i] = BankStep(s, h, st, i)
    <3> HIDE DEF run
    <3> QED BY <1>4, <2>1 DEF UndelayedAt
  <2>3. R[i] = BSum(s, h, st, i) /\ R[i - 1] = BSum(s, h, st, i - 1)
    BY <2>1
  <2>4. BankStep(s, h, st, i) \in Nat
    BY <1>1, <1>3, <2>1, BankStepIs
  <2> HIDE DEF term, R
  <2> QED BY <1>5, <2>1, <2>2, <2>3, <2>4
<1>8. \A i \in st - 1 .. k - 1 : R[i] \in Int
  <2>1. SUFFICES ASSUME NEW i \in st - 1 .. k - 1 PROVE R[i] \in Int
    OBVIOUS
  <2>2. i \in 0 .. Len(h)
    BY <1>1, <1>3
  <2> QED BY <1>5, <2>2
<1>9. R[k - 1] = BSum(s, h, st, k - 1) /\ R[st - 1] = BSum(s, h, st, st - 1)
      /\ BSum(s, h, st, k - 1) \in Nat
  BY <1>3, <1>5
<1> HIDE DEF term, R
<1>10. SumsTo(st, k - 1, term, R)
  BY <1>7, <1>8 DEF SumsTo
<1>11. Sum(st, k - 1, term) = R[k - 1] - R[st - 1]
  BY ONLY <1>3, <1>10, SumIs
<1>12. read.settled = Sum(st, k - 1, term)
  BY <1>2, <1>6, <1>9, <1>11
<1> QED BY <1>12 DEF term

\* The learned clock shows the newest row learned of some weight.
LEMMA ScoredNewest ==
  ASSUME NEW x, NEW e, NEW f, NEW k, ScoredHere(x, start, e, f, k), TakenHere(e, f, k),
         Embargoed, ToSet(learnt) \subseteq 1 .. k
  PROVE  LET taught == {j \in ToSet(learnt) : j >= start /\ hist[j].w > 0}
         IN  read.newest = IF taught = {} THEN <<>> ELSE <<hist[Max(taught)].at>>
<1> DEFINE s == setting
           h == hist
           st == start
           T == {j \in ToSet(learnt) : j >= st /\ h[j].w > 0}
<1>1. /\ e \in 1 .. k /\ k \in 1 .. Len(h) /\ f \in e - 1 .. k - 1 /\ st \in e .. f + 1
      /\ Len(h) \in Nat /\ f = FrontAt(s, h, x)
  BY DEF ScoredHere
<1>2. NewestOf(h, st, f, read.newest)
  <2>1. Emb(s)
    BY DEF Embargoed, Emb
  <2> QED BY <1>1, <2>1 DEF ScoredHere, ScoredAs
<1>3. \A j : j \in T <=> j \in st .. f /\ Weighs(h, j)
  <2>1. ASSUME NEW j \in T PROVE j \in st .. f /\ Weighs(h, j)
    <3>1. j \in ToSet(learnt) /\ j >= st /\ h[j].w > 0 /\ j \in 1 .. k
      OBVIOUS
    <3>2. j \in e .. k
      <4> HIDE DEF T, st
      <4> QED BY <1>1, <3>1
    <3>3. j <= f /\ h[j].accept
      BY <3>1, <3>2 DEF TakenHere
    <3>4. j \in st .. f
      <4> HIDE DEF T, st
      <4> QED BY <1>1, <3>1, <3>2, <3>3
    <3> QED BY <3>1, <3>3, <3>4 DEF Weighs
  <2>2. ASSUME NEW j \in st .. f, Weighs(h, j) PROVE j \in T
    <3>1. j \in e .. k /\ j <= f /\ j >= st
      <4> HIDE DEF st
      <4> QED BY <1>1, <2>2
    <3>2. j \in ToSet(learnt)
      BY <2>2, <3>1 DEF TakenHere, Weighs
    <3> QED BY <2>2, <3>1, <3>2 DEF Weighs
  <2> QED BY <2>1, <2>2
<1> HIDE DEF T
<1>4. CASE read.newest = <<>> /\ \A j \in st .. f : ~Weighs(h, j)
  <2>1. T = {}
    BY <1>3, <1>4
  <2> QED BY <1>4, <2>1 DEF T
<1>5. ASSUME NEW m \in st .. f, Weighs(h, m), read.newest = <<h[m].at>>,
             \A j \in m + 1 .. f : ~Weighs(h, j)
      PROVE  read.newest = IF T = {} THEN <<>> ELSE <<h[Max(T)].at>>
  <2>1. m \in T
    BY <1>3, <1>5
  <2>2. T \in SUBSET Int
    <3>1. \A j \in T : j \in Int
      <4>1. SUFFICES ASSUME NEW j \in T PROVE j \in Int
        OBVIOUS
      <4>2. j \in st .. f
        BY <1>3
      <4> QED BY <1>1, <4>2
    <3> QED BY <3>1
  <2>3. \A j \in T : j <= m
    <3>1. SUFFICES ASSUME NEW j \in T, ~(j <= m) PROVE FALSE
      OBVIOUS
    <3>2. j \in st .. f /\ Weighs(h, j)
      BY <1>3
    <3>3. j \in m + 1 .. f
      <4> HIDE DEF st
      <4> QED BY <1>1, <1>5, <3>1, <3>2
    <3> QED BY <1>5, <3>2, <3>3
  <2>4. Max(T) = m
    BY <2>1, <2>2, <2>3, MaxIs
  <2> QED BY <1>5, <2>1, <2>4
<1>6. read.newest = IF T = {} THEN <<>> ELSE <<h[Max(T)].at>>
  BY <1>2, <1>4, <1>5 DEF NewestOf, T
<1> QED BY <1>6 DEF T

\* Between chunks a summary reads the held clock the next row would.
LEMMA SummaryReads ==
  ASSUME StreamInv, NEW x, NEW y, Way(x, y), AsBank(setting, hist, x, inst, start, read),
         plans = <<>>, Embargoed
  PROVE  HeldClock = NextRowReads
<1> DEFINE s == setting
           h == hist
           e == EpochAt(s, h, x.row)
           f == FrontAt(s, h, x)
           c == CutOf(pending)
<1>1. s \in Settings /\ h \in Streams(s) /\ Sound(s, h, x)
  BY DEF StreamInv, Way
<1>2. BegunAt(s, h, x, inst, start) /\ inst.held \in Int
  BY DEF AsBank, ClockAt
<1>3. ~Lab(s) /\ HoldsClock /\ (KeepsCuts <=> s.drift)
  <2>1. Emb(s)
    BY DEF Embargoed, Emb
  <2> QED BY <1>1, <2>1, SettingIs DEF HoldsClock, KeepsCuts, Embargoed
<1>4. c = IF pending = <<>> THEN <<>> ELSE <<Cut(pending[1])>>
  BY DEF CutOf
<1>5. NextRowReads =
        (IF ~inst.restarted \/ ~KeepsCuts THEN inst.held
         ELSE IF c = <<>> THEN 0 ELSE inst.held - c[1])
  BY <1>3 DEF NextRowReads, HeldRead
<1>6. HeldClock = (IF ~inst.restarted THEN inst.held
                   ELSE IF pending = <<>> THEN 0 ELSE inst.held - Cut(pending[1]))
  BY DEF HeldClock
<1>7. CASE ~inst.restarted
  BY <1>5, <1>6, <1>7
<1>8. CASE inst.restarted /\ s.drift
  <2>1. pending = <<>> => c = <<>>
    BY <1>4
  <2>2. pending # <<>> => c # <<>> /\ c[1] = Cut(pending[1])
    BY <1>4
  <2> HIDE DEF c
  <2> QED BY <1>3, <1>5, <1>6, <1>8, <2>1, <2>2
<1>9. CASE inst.restarted /\ ~s.drift
  <2>1. f = e - 1 /\ ResetAt(s, h, e) /\ h[e].accept /\ e <= x.row
    <3>1. start = e
      BY <1>2, <1>9 DEF BegunAt
    <3>2. f = start - 1 /\ (start = e => ResetAt(s, h, e) /\ h[e].accept /\ e <= x.row)
      BY <1>2, <1>9 DEF BegunAt
    <3> QED BY <3>1, <3>2
  <2>2. x.row \in 0 .. Len(h) /\ Len(h) \in Nat /\ e \in 1 .. x.row + 1
    BY <1>1, FrontSound
  <2>3. /\ x.queue = <<>> => \A j \in f + 1 .. x.row : ~h[j].accept
        /\ x.queue # <<>> =>
             /\ x.queue[1] \in f + 1 .. x.row /\ h[x.queue[1]].accept
             /\ \A j \in f + 1 .. x.queue[1] - 1 : ~h[j].accept
    BY <1>1, <1>3, QueueHead
  <2>4. /\ Len(pending) = Len(x.queue) /\ x.queue \in Seq(1 .. Len(h))
        /\ \A i \in 1 .. Len(x.queue) : pending[i] = HeldOf(s, h, Len(h), x.queue[i])
        /\ DOMAIN pending = 1 .. Len(x.queue)
    BY AtRest
  <2> HIDE DEF e, f
  <2>5. x.queue # <<>> /\ x.queue[1] = e
    <3>1. e \in f + 1 .. x.row
      BY <2>1, <2>2
    <3>2. x.queue # <<>>
      BY <2>1, <2>3, <3>1
    <3> DEFINE q == x.queue[1]
    <3>3. q \in f + 1 .. x.row /\ \A j \in f + 1 .. q - 1 : ~h[j].accept
      BY <2>3, <3>2
    <3> HIDE DEF q
    <3>4. ~(e \in f + 1 .. q - 1)
      BY <2>1, <3>3
    <3>5. q = e
      BY <2>1, <2>2, <3>1, <3>3, <3>4
    <3> QED BY <3>2, <3>5 DEF q
  <2>6. pending[1] = HeldOf(s, h, Len(h), e) /\ pending # <<>>
    <3>1. 1 \in 1 .. Len(x.queue)
      BY <2>4, <2>5
    <3>2. pending[1] = HeldOf(s, h, Len(h), e)
      BY <2>4, <2>5, <3>1
    <3>3. DOMAIN pending # {}
      BY <2>4, <3>1
    <3> QED BY <3>2, <3>3
  <2>7. DAt(s, h, e) = 0
    <3>1. e \in 1 .. Len(h)
      BY <2>1, <2>2
    <3> QED BY <1>1, <2>1, <3>1, FreshTyped
  <2>8. pending[1].d = 0 /\ pending[1].fresh = 0
    BY <1>3, <1>9, <2>6, <2>7 DEF HeldOf, FreshOf, FreshAt
  <2>9. Cut(pending[1]) = 0
    BY <2>8 DEF Cut
  <2> HIDE DEF c
  <2> QED BY <1>2, <1>3, <1>5, <1>6, <1>9, <2>6, <2>9
<1> QED BY <1>7, <1>8, <1>9

LEMMA ModelledScored ==
  ASSUME Modelled
  PROVE  ScoredAsUndelayed
<1>1. StreamInv
  BY DEF Modelled
<1>2. PICK x, y : Way(x, y) /\ AtLedger(x) /\ AsBank(setting, hist, x, inst, start, read)
  BY DEF Modelled
<1>3. SummaryReadsEmbargo
  BY <1>1, <1>2, SummaryReads DEF SummaryReadsEmbargo
<1>4. ASSUME read.what = "scored"
      PROVE  ScoredFromLastLearned /\ SettledAsUndelayed /\ LearnedClockNewest
  <2> DEFINE e == EpochAt(setting, hist, x.row)
             f == FrontAt(setting, hist, x)
             k == x.row
  <2>1. /\ ScoredHere(x, start, e, f, k)
        /\ ~Lab(setting) \/ setting.by > 0 => TakenHere(e, f, k)
        /\ ~setting.drift => start = EpochAt(setting, hist, x.row)
    BY <1>1, <1>2, <1>4, ScoredHereIs
  <2>2. ToSet(learnt) \subseteq 1 .. k
    BY <1>1, <1>2, LearntIs
  <2>3. read.id = k /\ setting \in Settings
    BY <2>1 DEF ScoredHere
  <2> HIDE DEF e, f, k
  <2>4. ASSUME AsDelay
        PROVE  /\ TakenHere(e, f, k)
               /\ Holds(setting) /\ LikeDelay(setting, hist, x)
    BY <2>1, <2>3, <2>4, AsDelayIs
  <2>5. ScoredFromLastLearned
    BY <2>1, <2>3, <2>4, ScoredFrom DEF ScoredFromLastLearned
  <2>6. SettledAsUndelayed
    BY <2>1, <2>3, <2>4, ScoredSettled DEF SettledAsUndelayed
  <2>7. LearnedClockNewest
    <3>1. SUFFICES ASSUME Embargoed
                   PROVE  TakenHere(e, f, k)
      BY <2>1, <2>2, ScoredNewest DEF LearnedClockNewest
    <3>2. ~Lab(setting)
      BY <2>3, <3>1, SettingIs DEF Embargoed, Emb
    <3> QED BY <2>1, <3>2
  <2> QED BY <2>5, <2>6, <2>7
<1> QED BY <1>3, <1>4 DEF ScoredAsUndelayed

\* A row scored ahead of rows held is scored over the step from the last row
\* learned, its settled clock counts the rows held as had none been, and the
\* learned clock shows the newest row learned; between chunks a summary reads the
\* held clock the next row would (run_instance, Stream::readiness).
THEOREM ScoredFromLearned == Spec => []ScoredAsUndelayed
BY ModelKept, ModelledScored, PTL

-----------------------------------------------------------------------------
(* Type correctness.                                                        *)

LEMMA EventsTyped ==
  ASSUME NEW s, NEW h, NEW k
  PROVE  EventsOf(s, h, k) \subseteq {"session", "blend", "gap"}
<1>1. \A i : EventsAt(s, h, i) \subseteq {"session", "blend", "gap"}
  BY DEF EventsAt
<1> QED BY <1>1 DEF EventsOf

LEMMA HeldTyped ==
  ASSUME setting \in Settings, hist \in Streams(setting), NEW k \in 1 .. Len(hist)
  PROVE  HeldOf(setting, hist, Len(hist), k) \in HeldRow
<1> DEFINE s == setting
           h == hist
           r == HeldOf(s, h, Len(h), k)
           ev == IF Lab(s) THEN {} ELSE EventsOf(s, h, k)
           rs == (~Frm(s) \/ Rank(s, h, k, Len(h)) <= Closed(s, h, Len(h)))
           lb == IF Lab(s) THEN h[k].label ELSE NoLabel
           fr == FreshOf(s, h, k)
           d  == DAt(s, h, k)
           ar == ElapsedBy(s, h, k)
           at == h[k].at
<1>0. Len(h) \in Nat /\ k \in 0 .. Len(h)
  BY DEF Streams
<1>1. k \in Ids
  BY <1>0 DEF Ids
<1>2. at \in Int /\ lb \in Int
  BY RowIs DEF NoLabel
<1>3. ar \in Int
  <2>1. EpochAt(s, h, k) \in 0 .. Len(h)
    <3> DEFINE e == EpochAt(s, h, k)
    <3>1. e \in Nat /\ e <= k
      BY <1>0, EpochIs
    <3> HIDE DEF e
    <3> QED BY <1>0, <3>1 DEF e
  <2>2. Time(s, h, k) \in Nat /\ Time(s, h, EpochAt(s, h, k)) \in Nat
    BY <1>0, <2>1, MarkIs
  <2> QED BY <2>2 DEF ElapsedBy
<1>4. d \in Nat
  BY DAtIs
<1>5. fr \in Nat
  <2>1. FreshAt(s, h, k) \in 0 .. s.clk.cap /\ s.clk.cap \in Nat
    BY FreshTyped, SettingIs
  <2>2. FreshAt(s, h, k) \in Nat
    <3> DEFINE a == FreshAt(s, h, k)
    <3> HIDE DEF a
    <3> QED BY <2>1 DEF a
  <2> QED BY <2>2 DEF FreshOf
<1>6. ev \in SUBSET {"session", "blend", "gap"} /\ rs \in BOOLEAN
  BY EventsTyped
<1>7. r = [id |-> k, clock |-> at, arrived |-> ar, d |-> d, fresh |-> fr, events |-> ev,
           resolved |-> rs, label |-> lb]
  BY DEF HeldOf
<1> HIDE DEF r, ev, rs, lb, fr, d, ar, at
<1>8. r \in HeldRow
  BY <1>1, <1>2, <1>3, <1>4, <1>5, <1>6, <1>7 DEF HeldRow
<1> QED BY <1>8 DEF r

\* The buffer, and the windows open.
LEMMA BufferTyped ==
  ASSUME StreamInv, NEW x, NEW y, Way(x, y)
  PROVE  /\ Len(restartFold) <= 1 /\ ToSet(open) \subseteq Ids
         /\ ToSet(pending) \subseteq HeldRow
         /\ heldBreak \subseteq {"session", "blend", "gap"}
         /\ missing \in Nat /\ dropped \in Nat
<1> DEFINE s == setting
           h == hist
           n == Len(h)
<1>1. /\ s \in Settings /\ h \in Streams(s) /\ Legal(s, h)
      /\ FoldClock(s, h, n, restartFold) /\ OpenIs(s, h, n, open)
  BY DEF StreamInv
<1>2. n \in Nat /\ n \in 0 .. n
  BY <1>1 DEF Streams
<1>3. Path(s, h, x, plans, y) /\ Sound(s, h, x) /\ y.row = n /\ Buffered(s, h, n, y, BufferNow)
  BY DEF Way
<1>4. Sound(s, h, y)
  BY <1>1, <1>3, PathSound
<1>5. y.queue \in Seq(1 .. n) /\ y.dropped \in Nat
  BY <1>3, <1>4 DEF Sound, Ledger
<1>6. /\ pending = Pending(s, h, n, y.queue) /\ heldBreak = BreakHeld(s, h, n)
      /\ missing = (IF Lab(s) THEN Nulls(s, h, n) ELSE 0) /\ dropped = y.dropped
  BY <1>3 DEF Buffered, BufferNow
<1>7. Len(restartFold) <= 1
  BY <1>1 DEF FoldClock
<1>8. ToSet(open) \subseteq Ids
  <2>1. open \in Seq(1 .. n)
    <3>1. CASE Frm(s)
      BY <1>1, <3>1 DEF OpenIs
    <3>2. CASE ~Frm(s)
      <4>1. open = <<>>
        BY <1>1, <3>2 DEF OpenIs
      <4> QED BY <4>1
    <3> QED BY <3>1, <3>2
  <2>2. \A i \in DOMAIN open : open[i] \in 1 .. n
    <3> DEFINE S == 1 .. n
    <3>1. open \in Seq(S)
      BY <2>1
    <3> HIDE DEF S
    <3>2. \A i \in DOMAIN open : open[i] \in S
      BY <3>1
    <3> QED BY <3>2 DEF S
  <2>3. \A j \in 1 .. n : j \in Ids
    BY <1>2 DEF Ids
  <2> HIDE DEF n
  <2> QED BY <2>2, <2>3 DEF ToSet
<1>9. ToSet(pending) \subseteq HeldRow
  <2>1. /\ DOMAIN pending = 1 .. Len(y.queue)
        /\ \A i \in 1 .. Len(y.queue) : pending[i] = HeldOf(s, h, n, y.queue[i])
    <3> HIDE DEF n
    <3> QED BY <1>5, <1>6, PendingIs
  <2>2. \A i \in DOMAIN pending : pending[i] \in HeldRow
    <3>1. SUFFICES ASSUME NEW i \in 1 .. Len(y.queue) PROVE pending[i] \in HeldRow
      BY <2>1
    <3>2. y.queue[i] \in 1 .. n
      <4> DEFINE S == 1 .. n
      <4>1. y.queue \in Seq(S)
        BY <1>5
      <4> HIDE DEF S
      <4>2. y.queue[i] \in S
        BY <3>1, <4>1
      <4> QED BY <4>2 DEF S
    <3>3. HeldOf(s, h, n, y.queue[i]) \in HeldRow
      BY <1>1, <3>2, HeldTyped
    <3> QED BY <2>1, <3>3
  <2> QED BY <2>2 DEF ToSet
<1>10. heldBreak \subseteq {"session", "blend", "gap"}
  BY <1>6, EventsTyped DEF BreakHeld
<1>11. missing \in Nat
  <2>1. Nulls(s, h, n) \in Nat
    BY <1>1, <1>2, MarkIs
  <2> QED BY <1>6, <2>1
<1> QED BY <1>5, <1>6, <1>7, <1>8, <1>9, <1>10, <1>11

\* The model and what it last read.
LEMMA ModelTyped ==
  ASSUME StreamInv, NEW x, NEW y, Way(x, y), AtLedger(x),
         AsBank(setting, hist, x, inst, start, read)
  PROVE  /\ inst.decayTime \in Nat /\ ToSet(inst.records) \subseteq Ids
         /\ read.d \in 0 .. setting.clk.cap /\ read.settled \in Nat
         /\ ~Labelled => inst.held \in Nat /\ read.scoreStep \in 0 .. setting.clk.cap
         /\ epoch \in 1 .. setting.maxRows /\ start \in 1 .. setting.maxRows + 1
<1> DEFINE s == setting
           h == hist
           n == Len(h)
           e == EpochAt(s, h, x.row)
           f == FrontAt(s, h, x)
<1>1. /\ s \in Settings /\ h \in Streams(s) /\ Sound(s, h, x) /\ n <= s.maxRows
  BY DEF StreamInv, Way
<1>2. n \in Nat /\ s.maxRows \in Nat /\ s.maxRows > 0 /\ s.clk.cap \in Nat
  BY <1>1, SettingIs DEF Streams
<1>3. /\ BegunAt(s, h, x, inst, start) /\ ClockAt(s, h, x, inst, start)
      /\ ReadAs(s, h, x, start, read)
  BY DEF AsBank
<1>4. /\ x.row \in 0 .. n /\ e \in 1 .. x.row + 1 /\ (x.row > 0 => e <= x.row)
      /\ (x.row = 0 => e = 1) /\ f \in e - 1 .. x.row
  BY <1>1, FrontSound
<1>5. start \in e .. f + 1
  BY <1>3 DEF BegunAt
<1>6. inst.decayTime \in Nat
  BY <1>3 DEF ClockAt
<1>7. ToSet(inst.records) \subseteq Ids
  <2>1. inst.records \in Seq(1 .. x.row)
    BY <1>1 DEF AtLedger, Sound, Ledger
  <2>2. \A i \in DOMAIN inst.records : inst.records[i] \in 1 .. x.row
    <3> DEFINE S == 1 .. x.row
    <3>1. inst.records \in Seq(S)
      BY <2>1
    <3> HIDE DEF S
    <3>2. \A i \in DOMAIN inst.records : inst.records[i] \in S
      BY <3>1
    <3> QED BY <3>2 DEF S
  <2>3. \A j \in 1 .. x.row : j \in Ids
    BY <1>2, <1>4 DEF Ids
  <2> QED BY <2>2, <2>3 DEF ToSet
<1>8. epoch = e
  BY DEF AtLedger
<1>9. epoch \in 1 .. s.maxRows /\ start \in 1 .. s.maxRows + 1
  <2> DEFINE m == s.maxRows
             r == x.row
  <2>1. /\ n <= m /\ n \in Nat /\ m \in Nat /\ m > 0 /\ r \in 0 .. n /\ e \in 1 .. r + 1
        /\ (r > 0 => e <= r) /\ (r = 0 => e = 1) /\ f \in e - 1 .. r /\ start \in e .. f + 1
    BY <1>1, <1>2, <1>4, <1>5
  <2> HIDE DEF n, m, r, e, f
  <2>2. e \in 1 .. m /\ start \in 1 .. m + 1
    BY <2>1
  <2> QED BY <1>8, <2>2 DEF m
<1>10. /\ read.d \in 0 .. s.clk.cap /\ read.settled \in Nat
       /\ ~Lab(s) => read.scoreStep \in 0 .. s.clk.cap
  <2>1. 0 \in 0 .. s.clk.cap
    BY <1>2
  <2>2. CASE read.what = "nothing"
    BY <1>3, <2>1, <2>2 DEF ReadAs
  <2>3. CASE read.what = "learned"
    BY <1>3, <2>1, <2>3 DEF ReadAs, LearnedAs
  <2>4. CASE read.what = "scored"
    BY <1>3, <2>4 DEF ReadAs, ScoredAs
  <2> QED BY <1>3, <2>2, <2>3, <2>4 DEF ReadAs
<1>11. ASSUME ~Lab(s) PROVE inst.held \in Nat
  <2>1. LikeDelay(s, h, x)
    BY <1>11 DEF LikeDelay
  <2>2. CASE Holds(s)
    <3>1. inst.held = DSum(s, h, x.row) - DSum(s, h, f)
      BY <1>3, <2>1, <2>2 DEF ClockAt
    <3>2. f \in 0 .. n /\ x.row \in f .. n
      <4> HIDE DEF n, e, f
      <4> QED BY <1>2, <1>4
    <3>3. DSum(s, h, x.row) - DSum(s, h, f) \in Nat
      <4> HIDE DEF f
      <4> QED BY <1>1, <3>2, SumsRise
    <3> QED BY <3>1, <3>3
  <2>3. CASE ~Holds(s)
    BY <1>3, <2>3 DEF ClockAt
  <2> QED BY <2>2, <2>3
<1>12. Labelled <=> Lab(s)
  BY DEF Labelled, Lab
<1> QED BY <1>6, <1>7, <1>9, <1>10, <1>11, <1>12

LEMMA ModelledTypes ==
  ASSUME Modelled
  PROVE  TypeOK
<1>1. StreamInv /\ setting \in Settings
  BY DEF Modelled, StreamInv
<1>2. PICK x, y : Way(x, y) /\ AtLedger(x) /\ AsBank(setting, hist, x, inst, start, read)
  BY DEF Modelled
<1>3. /\ Len(restartFold) <= 1 /\ ToSet(open) \subseteq Ids
      /\ ToSet(pending) \subseteq HeldRow
      /\ heldBreak \subseteq {"session", "blend", "gap"}
      /\ missing \in Nat /\ dropped \in Nat
  BY <1>1, <1>2, BufferTyped
<1>4. /\ inst.decayTime \in Nat /\ ToSet(inst.records) \subseteq Ids
      /\ read.d \in 0 .. setting.clk.cap /\ read.settled \in Nat
      /\ ~Labelled => inst.held \in Nat /\ read.scoreStep \in 0 .. setting.clk.cap
      /\ epoch \in 1 .. setting.maxRows /\ start \in 1 .. setting.maxRows + 1
  BY <1>1, <1>2, ModelTyped
<1> QED BY <1>1, <1>3, <1>4 DEF TypeOK

\* Rows, steps and clocks keep their types: no clock turns negative, no step
\* passes the cap and what is held are rows fed (Stream::apply_label_delay,
\* run_instance).
THEOREM TypeCorrect == Spec => []TypeOK
BY ModelKept, ModelledTypes, PTL
=============================================================================
