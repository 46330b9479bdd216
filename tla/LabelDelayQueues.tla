------------------------- MODULE LabelDelayQueues -------------------------
(***************************************************************************)
(* Lemmas about what the label delay keeps for a row it has not learned,   *)
(* for every spec and every stream of rows: the clock the bank reads in    *)
(* spans of rows, the running marks (counts and sums) of a stream's rows,  *)
(* the queue and its books, the buffer of labels beside them, and what     *)
(* each step of a row (skipped, scored, learned, put back) does to them.   *)
(***************************************************************************)
EXTENDS LabelDelay, SequenceTheorems, FunctionTheorems, FiniteSetTheorems, WellFoundedInduction, TLAPS

-----------------------------------------------------------------------------
(* Numbers and recursion.                                                  *)

\* A set of naturals that is not empty has a least one: of the intervals up to
\* its members one contains no other.
LEMMA Least ==
  ASSUME NEW T, T \subseteq Nat, T # {}
  PROVE  \E n \in T : \A m \in T : n <= m
<1> DEFINE Up == {1 .. n : n \in T}
<1>1. Up \subseteq FiniteSubsetsOf(Nat) /\ Up # {}
  <2>1. \A n \in T : IsFiniteSet(1 .. n) /\ 1 .. n \in SUBSET Nat
    BY FS_Interval
  <2> QED BY <2>1 DEF FiniteSubsetsOf
<1>2. IsWellFoundedOn(StrictSubsetOrdering(Nat), FiniteSubsetsOf(Nat))
  BY FS_StrictSubsetOrderingWellFounded
<1>3. PICK x \in Up : \A y \in Up : ~(<<y, x>> \in StrictSubsetOrdering(Nat))
  <2> HIDE DEF Up
  <2> QED BY <1>1, <1>2, WFMin
<1>4. PICK n \in T : x = 1 .. n
  BY <1>3
<1>5. ASSUME NEW m \in T PROVE n <= m
  <2> SUFFICES ASSUME m < n PROVE FALSE
    BY <1>4
  <2>1. m \in Nat /\ n \in Nat
    BY <1>4
  <2>2. 1 .. m \subseteq 1 .. n /\ n \in 1 .. n /\ n \notin 1 .. m
    BY <2>1
  <2>3. 1 .. m \in Up /\ 1 .. m \in SUBSET Nat /\ 1 .. n \in SUBSET Nat
    BY <2>1
  <2>4. <<1 .. m, 1 .. n>> \in StrictSubsetOrdering(Nat)
    BY <2>2, <2>3 DEF StrictSubsetOrdering
  <2> QED BY <1>3, <1>4, <2>3, <2>4
<1> QED BY <1>4, <1>5

\* What holds of 0, and of n whenever of n - 1, holds up to N: T is where.
LEMMA UpTo ==
  ASSUME NEW N \in Nat, NEW T, 0 \in T, \A n \in 1 .. N : n - 1 \in T => n \in T
  PROVE  0 .. N \subseteq T
<1> SUFFICES ASSUME (0 .. N) \ T # {} PROVE FALSE
  OBVIOUS
<1>0. (0 .. N) \ T \subseteq Nat
  OBVIOUS
<1>1. PICK n \in (0 .. N) \ T : \A m \in (0 .. N) \ T : n <= m
  BY <1>0, Least
<1>2. n \in 1 .. N /\ n - 1 \in 0 .. N /\ n - 1 \in T
  BY <1>1
<1> QED BY <1>1, <1>2

\* A recursion over 0..N whose steps stay within V has a solution: F is the
\* step, as a function of the value before and the place.
Recurs(f, a, F, N) ==
  \A n \in 0 .. N : f[n] = IF n = 0 THEN a ELSE F[<<f[n - 1], n>>]

LEMMA Recursion ==
  ASSUME NEW V, NEW a \in V, NEW N \in Nat, NEW F \in [V \X (1 .. N) -> V]
  PROVE  \E f \in [0 .. N -> V] : Recurs(f, a, F, N)
<1> DEFINE Solved(m) == \E f \in [0 .. m -> V] : Recurs(f, a, F, m)
           T == {m \in 0 .. N : Solved(m)}
<1>1. 0 \in T
  <2>1. [n \in 0 .. 0 |-> a] \in [0 .. 0 -> V] /\ Recurs([n \in 0 .. 0 |-> a], a, F, 0)
    BY DEF Recurs
  <2> QED BY <2>1
<1>2. ASSUME NEW m \in 1 .. N, m - 1 \in T PROVE m \in T
  <2>1. m - 1 \in Nat /\ m \in 0 .. N /\ Solved(m - 1)
    BY <1>2
  <2>2. PICK f \in [0 .. m - 1 -> V] : Recurs(f, a, F, m - 1)
    BY <2>1
  <2> DEFINE g == [n \in 0 .. m |-> IF n = m THEN F[<<f[m - 1], m>>] ELSE f[n]]
  <2>3. g \in [0 .. m -> V]
    <3>1. f[m - 1] \in V /\ F[<<f[m - 1], m>>] \in V
      BY <2>1
    <3> QED BY <3>1
  <2>4. ASSUME NEW n \in 0 .. m PROVE g[n] = IF n = 0 THEN a ELSE F[<<g[n - 1], n>>]
    <3>1. CASE n = m
      <4>1. n # 0 /\ n - 1 \in 0 .. m /\ n - 1 # m /\ g[n - 1] = f[n - 1]
        BY <3>1
      <4> QED BY <3>1, <4>1
    <3>2. CASE n # m
      <4>1. n \in 0 .. m - 1 /\ g[n] = f[n]
        BY <3>2
      <4>2. n # 0 => n - 1 \in 0 .. m /\ n - 1 # m /\ g[n - 1] = f[n - 1]
        BY <3>2
      <4> QED BY <2>2, <4>1, <4>2 DEF Recurs
    <3> QED BY <3>1, <3>2
  <2>5. Recurs(g, a, F, m)
    <3> HIDE DEF g
    <3> QED BY <2>4 DEF Recurs
  <2> HIDE DEF g
  <2> QED BY <2>1, <2>3, <2>5
<1>3. N \in T
  <2> HIDE DEF T
  <2>1. 0 .. N \subseteq T
    BY <1>1, <1>2, UpTo
  <2> QED BY <2>1
<1> QED BY <1>3


\* The same from a to b.
LEMMA Along ==
  ASSUME NEW a \in Int, NEW b \in Int, NEW T, a \in T,
         \A n \in a + 1 .. b : n - 1 \in T => n \in T
  PROVE  a .. b \subseteq T
<1> SUFFICES ASSUME NEW i \in a .. b PROVE i \in T
  OBVIOUS
<1> DEFINE U == {n \in 0 .. b - a : a + n \in T}
<1>1. b - a \in Nat /\ i - a \in 0 .. b - a /\ a + (i - a) = i
  OBVIOUS
<1>2. 0 \in U
  BY <1>1
<1>3. ASSUME NEW n \in 1 .. b - a, n - 1 \in U PROVE n \in U
  <2>1. /\ a + n \in a + 1 .. b /\ (a + n) - 1 = a + (n - 1) /\ n \in 0 .. b - a
    BY <1>1
  <2> QED BY <1>3, <2>1
<1>4. 0 .. b - a \subseteq U
  <2> HIDE DEF U
  <2> QED BY <1>1, <1>2, <1>3, UpTo
<1> QED BY <1>1, <1>4

\* What is left of a sequence from its front, and its front.
LEMMA BackOf ==
  ASSUME NEW S, NEW o \in Seq(S), NEW n \in 0 .. Len(o)
  PROVE  /\ SubSeq(o, n + 1, Len(o)) \in Seq(S)
         /\ Len(SubSeq(o, n + 1, Len(o))) = Len(o) - n
         /\ \A i \in 1 .. Len(o) - n : SubSeq(o, n + 1, Len(o))[i] = o[n + i]
<1>1. Len(o) \in Nat /\ n \in Nat /\ n <= Len(o)
  OBVIOUS
<1>2. n + 1 \in Int /\ Len(o) \in Int /\ \A i \in n + 1 .. Len(o) : o[i] \in S
  BY <1>1, ElementOfSeq
<1>3. /\ SubSeq(o, n + 1, Len(o)) \in Seq(S)
      /\ Len(SubSeq(o, n + 1, Len(o))) = IF n + 1 <= Len(o) THEN Len(o) - (n + 1) + 1 ELSE 0
      /\ \A i \in 1 .. Len(o) - (n + 1) + 1 : SubSeq(o, n + 1, Len(o))[i] = o[(n + 1) + i - 1]
  BY <1>2, SubSeqProperties
<1>4. (IF n + 1 <= Len(o) THEN Len(o) - (n + 1) + 1 ELSE 0) = Len(o) - n
  BY <1>1
<1>5. ASSUME NEW i \in 1 .. Len(o) - n PROVE SubSeq(o, n + 1, Len(o))[i] = o[n + i]
  <2>1. i \in 1 .. Len(o) - (n + 1) + 1 /\ (n + 1) + i - 1 = n + i
    BY <1>1
  <2> QED BY <1>3, <2>1
<1> QED BY <1>3, <1>4, <1>5

LEMMA FrontSeqOf ==
  ASSUME NEW S, NEW o \in Seq(S), NEW n \in 0 .. Len(o)
  PROVE  /\ SubSeq(o, 1, n) \in Seq(S)
         /\ Len(SubSeq(o, 1, n)) = n
         /\ \A i \in 1 .. n : SubSeq(o, 1, n)[i] = o[i]
<1>1. Len(o) \in Nat /\ n \in Nat /\ n <= Len(o)
  OBVIOUS
<1>2. 1 \in Int /\ n \in Int /\ \A i \in 1 .. n : o[i] \in S
  BY <1>1, ElementOfSeq
<1>3. /\ SubSeq(o, 1, n) \in Seq(S)
      /\ Len(SubSeq(o, 1, n)) = IF 1 <= n THEN n - 1 + 1 ELSE 0
      /\ \A i \in 1 .. n - 1 + 1 : SubSeq(o, 1, n)[i] = o[1 + i - 1]
  BY <1>2, SubSeqProperties
<1>4. (IF 1 <= n THEN n - 1 + 1 ELSE 0) = n
  BY <1>1
<1>5. ASSUME NEW i \in 1 .. n PROVE SubSeq(o, 1, n)[i] = o[i]
  <2>1. i \in 1 .. n - 1 + 1 /\ 1 + i - 1 = i
    BY <1>1
  <2> QED BY <1>3, <2>1
<1> QED BY <1>3, <1>4, <1>5
-----------------------------------------------------------------------------
(* What rows say of themselves.  `s` is a setting, `h` the rows fed.       *)

Emb(s) == "embargo" \in s.holds
Frm(s) == "formula" \in s.holds
Lab(s) == "label" \in s.holds

Lesser(x, y) == IF x <= y THEN x ELSE y
Capped(s, x) == IF x < 0 THEN 0 ELSE Lesser(x, s.clk.cap)

\* A row b after a row a: the step, and whether it restarts the clock.
RawTo(s, a, b) == IF s.clk.column THEN b.at - a.at ELSE 1
NewSession(a, b) == b.session # a.session
BackTo(s, a, b) == ~NewSession(a, b) /\ RawTo(s, a, b) < 0
ResetTo(s, a, b) ==
  \/ NewSession(a, b) /\ s.clk.gap = "reset"
  \/ BackTo(s, a, b) /\ ~(s.clk.policy = "error" \/ -RawTo(s, a, b) <= s.clk.minBack)
GapTo(s, a, b) == NewSession(a, b) /\ s.clk.gap = "gap"
StepTo(s, a, b) ==
  IF ResetTo(s, a, b) \/ BackTo(s, a, b) THEN 0
  ELSE Capped(s, IF GapTo(s, a, b) THEN s.clk.gapBy ELSE RawTo(s, a, b))
PastCap(s, a, b) ==
  /\ ~ResetTo(s, a, b)
  /\ (IF GapTo(s, a, b) THEN s.clk.gapBy ELSE RawTo(s, a, b)) > s.clk.cap
PassedTo(s, a, b) ==
  IF ResetTo(s, a, b) THEN 0
  ELSE IF RawTo(s, a, b) >= 0 THEN RawTo(s, a, b)
  ELSE IF GapTo(s, a, b) THEN s.clk.gapBy ELSE 0

ResetAt(s, h, k) == k > 1 /\ ResetTo(s, h[k - 1], h[k])
StepAt(s, h, k)  == IF k > 1 THEN StepTo(s, h[k - 1], h[k]) ELSE 0
PassedAt(s, h, k) == IF k > 1 THEN PassedTo(s, h[k - 1], h[k]) ELSE 0
ChangedAt(h, k)  == k > 1 /\ NewSession(h[k - 1], h[k])

\* A row that is held, if rows are held for their labels or for anything else.
HasLesson(s, r) == r.accept /\ (Lab(s) => r.label # NoLabel /\ r.w > 0)
LacksLabel(r) == r.accept /\ r.label = NoLabel

\* What has come by a row: the steps and the time, the windows closed, the rows
\* accepted, with a lesson and without a label, the row the clock started over
\* at and the last one accepted.
Mark == [steps : Nat, passed : Nat, closes : Nat, accepted : Nat, lessons : Nat,
         unlabelled : Nat, epoch : Nat, last : Nat]
NoMark == [steps |-> 0, passed |-> 0, closes |-> 0, accepted |-> 0, lessons |-> 0,
           unlabelled |-> 0, epoch |-> 1, last |-> 0]
One(b) == IF b THEN 1 ELSE 0
Marked(s, h, m, k) ==
  [steps      |-> m.steps + StepAt(s, h, k),
   passed     |-> m.passed + PassedAt(s, h, k),
   closes     |-> m.closes + h[k].closes,
   accepted   |-> m.accepted + One(h[k].accept),
   lessons    |-> m.lessons + One(HasLesson(s, h[k])),
   unlabelled |-> m.unlabelled + One(LacksLabel(h[k])),
   epoch      |-> IF ResetAt(s, h, k) THEN k ELSE m.epoch,
   last       |-> IF h[k].accept THEN k ELSE m.last]
Trail(s, h) ==
  LET trail[k \in 0 .. Len(h)] ==
        IF k = 0 THEN NoMark ELSE Marked(s, h, trail[k - 1], k)
  IN  trail

\* A setting, the rows of one, and a stream of them.
RowOf == [at : Int, session : Nat, accept : BOOLEAN, w : Nat, label : Int, closes : Nat]
Streams(s) == Seq(s.rows)

LEMMA SettingIs ==
  ASSUME NEW s \in Settings
  PROVE  /\ s.clk.column \in BOOLEAN /\ s.clk.cap \in Nat /\ s.clk.cap > 0
         /\ s.clk.policy \in {"error", "reset_state"} /\ s.clk.minBack \in Nat
         /\ s.clk.gap \in {"none", "reset", "gap"} /\ s.clk.gapBy \in Nat
         /\ s.holds \in SUBSET {"embargo", "formula", "label"} /\ s.by \in Nat
         /\ s.drift \in BOOLEAN /\ s.maxHeld \in Nat /\ s.dropOldest \in BOOLEAN
         /\ s.maxRows \in Nat /\ s.maxRows > 0 /\ s.rows \subseteq RowOf
         /\ \A r \in s.rows : r.session # 0 <=> s.clk.gap # "none"
         /\ \A r \in s.rows : r.label \in Values \cup {NoLabel} /\ r.at \in Values
         /\ Frm(s) \/ \A r \in s.rows : r.closes = 0
         /\ Lab(s) => ~Emb(s) /\ ~Frm(s) /\ s.clk.column /\ s.clk.gap = "none" /\ ~s.drift
         /\ Lab(s) /\ s.by > 0 =>
              /\ s.maxHeld = 0
              /\ \A r \in s.rows : r.label = r.at + s.by /\ r.label # NoLabel /\ r.w > 0
<1>1. s \in [clk : [column : BOOLEAN, cap : Nat \ {0}, policy : {"error", "reset_state"},
               minBack : Nat, gap : {"none", "reset", "gap"}, gapBy : Nat],
        holds : (SUBSET {"embargo", "formula", "label"}) \ {{}}, by : Nat, drift : BOOLEAN,
        maxHeld : Nat, dropOldest : BOOLEAN, maxRows : Nat \ {0},
        rows : SUBSET [at : Values, session : Sessions \cup {0}, accept : BOOLEAN,
                       w : Nat, label : Values \cup {NoLabel}, closes : Nat]]
  BY SettingsAssumption DEF C!NoSession
<1>2. [at : Values, session : Sessions \cup {0}, accept : BOOLEAN,
       w : Nat, label : Values \cup {NoLabel}, closes : Nat] \subseteq RowOf
  <2>1. Values \subseteq Int /\ Sessions \subseteq Nat /\ NoLabel \in Int
    BY SettingsAssumption DEF NoLabel
  <2> SUFFICES ASSUME NEW r \in [at : Values, session : Sessions \cup {0}, accept : BOOLEAN,
                                 w : Nat, label : Values \cup {NoLabel}, closes : Nat]
               PROVE  r \in RowOf
    OBVIOUS
  <2>2. /\ r.at \in Int /\ r.session \in Nat /\ r.accept \in BOOLEAN
        /\ r.w \in Nat /\ r.label \in Int /\ r.closes \in Nat
    <3>1. /\ r.at \in Values /\ r.session \in Sessions \cup {0} /\ r.accept \in BOOLEAN
          /\ r.w \in Nat /\ r.label \in Values \cup {NoLabel} /\ r.closes \in Nat
      OBVIOUS
    <3>2. r.at \in Int /\ r.label \in Int
      BY <2>1, <3>1
    <3>3. r.session \in Nat
      <4>1. r.session \in Sessions \/ r.session = 0
        BY <3>1
      <4>2. Sessions \subseteq Nat
        BY <2>1
      <4>3. ASSUME r.session \in Sessions PROVE r.session \in Nat
        BY <4>2, <4>3
      <4> QED BY <4>1, <4>3
    <3> QED BY <3>1, <3>2, <3>3
  <2>3. r = [at |-> r.at, session |-> r.session, accept |-> r.accept, w |-> r.w,
             label |-> r.label, closes |-> r.closes]
    OBVIOUS
  <2> QED BY <2>2, <2>3 DEF RowOf
<1>3. s.rows \subseteq [at : Values, session : Sessions \cup {0}, accept : BOOLEAN,
                        w : Nat, label : Values \cup {NoLabel}, closes : Nat]
  BY <1>1
<1>4. s.rows \subseteq RowOf
  BY <1>2, <1>3
<1>5. \A r \in s.rows : r.label \in Values \cup {NoLabel} /\ r.at \in Values
  BY <1>3
<1>6. /\ \A r \in s.rows : r.session # 0 <=> s.clk.gap # "none"
      /\ "label" \in s.holds =>
            /\ s.holds = {"label"} /\ s.clk.column /\ s.clk.gap = "none" /\ ~s.drift
            /\ s.by > 0 => s.maxHeld = 0 /\ \A r \in s.rows :
                              r.label = r.at + s.by /\ r.label # NoLabel /\ r.w > 0
  BY SettingsAssumption DEF C!NoSession
<1>8. Frm(s) \/ \A r \in s.rows : r.closes = 0
  BY SettingsAssumption DEF Frm
<1>7. /\ Lab(s) => ~Emb(s) /\ ~Frm(s) /\ s.clk.column /\ s.clk.gap = "none" /\ ~s.drift
      /\ Lab(s) /\ s.by > 0 =>
              /\ s.maxHeld = 0
              /\ \A r \in s.rows : r.label = r.at + s.by /\ r.label # NoLabel /\ r.w > 0
  BY <1>6 DEF Lab, Emb, Frm
<1> QED BY <1>1, <1>4, <1>5, <1>6, <1>7, <1>8

LEMMA RowIs ==
  ASSUME NEW s \in Settings, NEW h \in Streams(s), NEW k \in 1 .. Len(h)
  PROVE  /\ h[k] \in s.rows /\ h[k] \in RowOf
         /\ h[k].at \in Int /\ h[k].session \in Nat /\ h[k].accept \in BOOLEAN
         /\ h[k].w \in Nat /\ h[k].label \in Int /\ h[k].closes \in Nat
         /\ Len(h) \in Nat
<1>1. h[k] \in s.rows /\ Len(h) \in Nat
  BY ElementOfSeq DEF Streams
<1>2. h[k] \in RowOf
  BY <1>1, SettingIs
<1> QED BY <1>1, <1>2 DEF RowOf

\* What a pair of rows says is a step under the cap and a time.
LEMMA PairIs ==
  ASSUME NEW s \in Settings, NEW a, NEW b, a.at \in Int, b.at \in Int
  PROVE  /\ StepTo(s, a, b) \in Nat /\ StepTo(s, a, b) <= s.clk.cap
         /\ PassedTo(s, a, b) \in Nat
         /\ ResetTo(s, a, b) => StepTo(s, a, b) = 0 /\ PassedTo(s, a, b) = 0
<1>1. /\ s.clk.cap \in Nat /\ s.clk.gapBy \in Nat /\ RawTo(s, a, b) \in Int
      /\ s.clk.minBack \in Nat
  BY SettingIs DEF RawTo
<1>2. ASSUME NEW x \in Int PROVE Capped(s, x) \in Nat /\ Capped(s, x) <= s.clk.cap
  BY <1>1 DEF Capped, Lesser
<1>3. StepTo(s, a, b) \in Nat /\ StepTo(s, a, b) <= s.clk.cap
  BY <1>1, <1>2 DEF StepTo
<1>4. PassedTo(s, a, b) \in Nat
  BY <1>1 DEF PassedTo
<1>5. ResetTo(s, a, b) => StepTo(s, a, b) = 0 /\ PassedTo(s, a, b) = 0
  BY DEF StepTo, PassedTo
<1> QED BY <1>3, <1>4, <1>5

LEMMA PlaceIs ==
  ASSUME NEW s \in Settings, NEW h \in Streams(s), NEW k \in 1 .. Len(h)
  PROVE  /\ StepAt(s, h, k) \in Nat /\ StepAt(s, h, k) <= s.clk.cap
         /\ PassedAt(s, h, k) \in Nat
         /\ ResetAt(s, h, k) => StepAt(s, h, k) = 0 /\ PassedAt(s, h, k) = 0
<1>1. CASE k = 1
  BY <1>1, SettingIs DEF StepAt, PassedAt, ResetAt
<1>2. CASE k > 1
  <2>1. k - 1 \in 1 .. Len(h)
    BY <1>2
  <2>2. h[k - 1].at \in Int /\ h[k].at \in Int
    BY <2>1, RowIs
  <2> QED BY <1>2, <2>2, PairIs DEF StepAt, PassedAt, ResetAt
<1> QED BY <1>1, <1>2

Steps(s, h, k)   == Trail(s, h)[k].steps
Time(s, h, k)    == Trail(s, h)[k].passed
Shut(s, h, k)    == Trail(s, h)[k].closes
Count(s, h, k)   == Trail(s, h)[k].accepted
Lessons(s, h, k) == Trail(s, h)[k].lessons
Nulls(s, h, k)   == Trail(s, h)[k].unlabelled
EpochAt(s, h, k) == Trail(s, h)[k].epoch
LastAt(s, h, k)  == Trail(s, h)[k].last

LEMMA MarkedTyped ==
  ASSUME NEW s \in Settings, NEW h \in Streams(s), NEW k \in 1 .. Len(h), NEW m \in Mark
  PROVE  Marked(s, h, m, k) \in Mark
<1>1. StepAt(s, h, k) \in Nat /\ PassedAt(s, h, k) \in Nat /\ h[k].closes \in Nat
  BY PlaceIs, RowIs
<1>2. /\ m.steps \in Nat /\ m.passed \in Nat /\ m.closes \in Nat /\ m.accepted \in Nat
      /\ m.lessons \in Nat /\ m.unlabelled \in Nat /\ m.epoch \in Nat /\ m.last \in Nat
  BY DEF Mark
<1>3. \A b : One(b) \in Nat
  BY DEF One
<1> DEFINE v == Marked(s, h, m, k)
<1>4. /\ v.steps \in Nat /\ v.passed \in Nat /\ v.closes \in Nat /\ v.accepted \in Nat
      /\ v.lessons \in Nat /\ v.unlabelled \in Nat /\ v.epoch \in Nat /\ v.last \in Nat
  <2>1. /\ v.steps = m.steps + StepAt(s, h, k) /\ v.passed = m.passed + PassedAt(s, h, k)
        /\ v.closes = m.closes + h[k].closes
        /\ v.accepted = m.accepted + One(h[k].accept)
        /\ v.lessons = m.lessons + One(HasLesson(s, h[k]))
        /\ v.unlabelled = m.unlabelled + One(LacksLabel(h[k]))
    BY DEF Marked
  <2>2. /\ One(h[k].accept) \in Nat /\ One(HasLesson(s, h[k])) \in Nat
        /\ One(LacksLabel(h[k])) \in Nat
    BY <1>3
  <2>3. v.epoch \in Nat
    BY <1>2 DEF Marked
  <2>4. v.last \in Nat
    BY <1>2 DEF Marked
  <2> HIDE DEF v
  <2>5. \A a, b \in Nat : a + b \in Nat
    OBVIOUS
  <2>6. v.steps \in Nat /\ v.passed \in Nat /\ v.closes \in Nat
    BY <1>1, <1>2, <2>1, <2>5
  <2>7. v.accepted \in Nat /\ v.lessons \in Nat /\ v.unlabelled \in Nat
    BY <1>1, <1>2, <2>1, <2>2, <2>5
  <2> QED BY <2>3, <2>4, <2>6, <2>7
<1>5. v = [steps |-> v.steps, passed |-> v.passed, closes |-> v.closes,
           accepted |-> v.accepted, lessons |-> v.lessons, unlabelled |-> v.unlabelled,
           epoch |-> v.epoch, last |-> v.last]
  BY DEF Marked
<1> HIDE DEF v
<1> QED BY <1>4, <1>5 DEF Mark, v

LEMMA TrailIs ==
  ASSUME NEW s \in Settings, NEW h \in Streams(s)
  PROVE  /\ Trail(s, h) \in [0 .. Len(h) -> Mark]
         /\ Trail(s, h)[0] = NoMark
         /\ \A k \in 1 .. Len(h) : Trail(s, h)[k] = Marked(s, h, Trail(s, h)[k - 1], k)
<1> DEFINE N == Len(h)
           F == [p \in Mark \X (1 .. N) |-> Marked(s, h, p[1], p[2])]
           E(g) == [k \in 0 .. N |-> IF k = 0 THEN NoMark ELSE Marked(s, h, g[k - 1], k)]
           t == CHOOSE g : g = E(g)
<1>1. N \in Nat /\ NoMark \in Mark
  BY DEF Streams, NoMark, Mark
<1>2. F \in [Mark \X (1 .. N) -> Mark]
  BY MarkedTyped
<1> HIDE DEF F
<1>3. PICK f \in [0 .. N -> Mark] : Recurs(f, NoMark, F, N)
  BY <1>1, <1>2, Recursion
<1>4. ASSUME NEW k \in 0 .. N
      PROVE  f[k] = IF k = 0 THEN NoMark ELSE Marked(s, h, f[k - 1], k)
  <2>1. f[k] = IF k = 0 THEN NoMark ELSE F[<<f[k - 1], k>>]
    BY <1>3 DEF Recurs
  <2>2. ASSUME k # 0 PROVE F[<<f[k - 1], k>>] = Marked(s, h, f[k - 1], k)
    <3>1. k \in 1 .. N /\ k - 1 \in 0 .. N
      BY <1>1, <2>2
    <3>2. f[k - 1] \in Mark
      BY <3>1
    <3> QED BY <3>1, <3>2 DEF F
  <2> QED BY <2>1, <2>2
<1>5. f = E(f)
  BY <1>3, <1>4
<1>6. t = E(t)
  <2> HIDE DEF E
  <2> QED BY <1>5
<1>7. Trail(s, h) = t
  BY DEF Trail
<1> HIDE DEF t
<1>8. t[0] = NoMark
  BY <1>1, <1>6
<1>9. ASSUME NEW k \in 1 .. N PROVE t[k] = Marked(s, h, t[k - 1], k)
  <2>1. k \in 0 .. N /\ k # 0
    BY <1>1
  <2> QED BY <1>6, <2>1
<1> DEFINE T == {k \in 0 .. N : t[k] \in Mark}
<1>10. 0 \in T
  BY <1>1, <1>8
<1>11. ASSUME NEW k \in 1 .. N, k - 1 \in T PROVE k \in T
  BY <1>1, <1>9, <1>11, MarkedTyped
<1>12. 0 .. N \subseteq T
  <2> HIDE DEF T
  <2> QED BY <1>1, <1>10, <1>11, UpTo
<1>13. t \in [0 .. N -> Mark]
  <2>1. t = [k \in 0 .. N |-> t[k]]
    BY <1>6
  <2>2. \A k \in 0 .. N : t[k] \in Mark
    BY <1>12
  <2> HIDE DEF E
  <2> QED BY <2>1, <2>2
<1> QED BY <1>7, <1>8, <1>9, <1>13

LEMMA MarkIs ==
  ASSUME NEW s \in Settings, NEW h \in Streams(s), NEW k \in 0 .. Len(h)
  PROVE  /\ Steps(s, h, k) \in Nat /\ Time(s, h, k) \in Nat /\ Shut(s, h, k) \in Nat
         /\ Count(s, h, k) \in Nat /\ Lessons(s, h, k) \in Nat /\ Nulls(s, h, k) \in Nat
         /\ EpochAt(s, h, k) \in Nat /\ LastAt(s, h, k) \in Nat
         /\ Len(h) \in Nat
<1>1. Trail(s, h)[k] \in Mark
  BY TrailIs
<1>2. Len(h) \in Nat
  BY DEF Streams
<1> QED BY <1>1, <1>2 DEF Mark, Steps, Time, Shut, Count, Lessons, Nulls, EpochAt, LastAt

LEMMA MarkZero ==
  ASSUME NEW s \in Settings, NEW h \in Streams(s)
  PROVE  /\ Steps(s, h, 0) = 0 /\ Time(s, h, 0) = 0 /\ Shut(s, h, 0) = 0
         /\ Count(s, h, 0) = 0 /\ Lessons(s, h, 0) = 0 /\ Nulls(s, h, 0) = 0
         /\ EpochAt(s, h, 0) = 1 /\ LastAt(s, h, 0) = 0
<1>1. Trail(s, h)[0] = NoMark
  BY TrailIs
<1> QED BY <1>1 DEF NoMark, Steps, Time, Shut, Count, Lessons, Nulls, EpochAt, LastAt

LEMMA MarkNext ==
  ASSUME NEW s \in Settings, NEW h \in Streams(s), NEW k \in 1 .. Len(h)
  PROVE  /\ Steps(s, h, k) = Steps(s, h, k - 1) + StepAt(s, h, k)
         /\ Time(s, h, k) = Time(s, h, k - 1) + PassedAt(s, h, k)
         /\ Shut(s, h, k) = Shut(s, h, k - 1) + h[k].closes
         /\ Count(s, h, k) = Count(s, h, k - 1) + One(h[k].accept)
         /\ Lessons(s, h, k) = Lessons(s, h, k - 1) + One(HasLesson(s, h[k]))
         /\ Nulls(s, h, k) = Nulls(s, h, k - 1) + One(LacksLabel(h[k]))
         /\ EpochAt(s, h, k) = IF ResetAt(s, h, k) THEN k ELSE EpochAt(s, h, k - 1)
         /\ LastAt(s, h, k) = IF h[k].accept THEN k ELSE LastAt(s, h, k - 1)
<1>1. Trail(s, h)[k] = Marked(s, h, Trail(s, h)[k - 1], k)
  BY TrailIs
<1> QED BY <1>1 DEF Marked, Steps, Time, Shut, Count, Lessons, Nulls, EpochAt, LastAt

\* The marks rise, and are those of the rows alone: a row more changes none.
LEMMA MarksRise ==
  ASSUME NEW s \in Settings, NEW h \in Streams(s), NEW j \in 0 .. Len(h)
  PROVE  \A k \in j .. Len(h) :
           /\ Steps(s, h, j) <= Steps(s, h, k) /\ Time(s, h, j) <= Time(s, h, k)
           /\ Shut(s, h, j) <= Shut(s, h, k) /\ Count(s, h, j) <= Count(s, h, k)
           /\ Lessons(s, h, j) <= Lessons(s, h, k)
           /\ Count(s, h, k) - Count(s, h, j) <= k - j
<1> DEFINE Rises(k) ==
             /\ Steps(s, h, j) <= Steps(s, h, k) /\ Time(s, h, j) <= Time(s, h, k)
             /\ Shut(s, h, j) <= Shut(s, h, k) /\ Count(s, h, j) <= Count(s, h, k)
             /\ Lessons(s, h, j) <= Lessons(s, h, k)
             /\ Count(s, h, k) - Count(s, h, j) <= k - j
           T == {k \in 0 .. Len(h) : k >= j => Rises(k)}
<1>0. Len(h) \in Nat
  BY MarkIs
<1>1. Rises(j)
  BY MarkIs
<1>2. 0 \in T
  BY <1>0, <1>1
<1>3. ASSUME NEW k \in 1 .. Len(h), k - 1 \in T PROVE k \in T
  <2>0. k \in 0 .. Len(h) /\ k - 1 \in 0 .. Len(h)
    BY <1>0
  <2>1. CASE k = j
    BY <1>1, <2>0, <2>1
  <2>2. CASE k < j
    BY <2>0, <2>2
  <2>3. CASE k > j
    <3>1. Rises(k - 1)
      BY <1>3, <2>3
    <3>2. /\ StepAt(s, h, k) \in Nat /\ PassedAt(s, h, k) \in Nat /\ h[k].closes \in Nat
          /\ One(h[k].accept) \in 0 .. 1 /\ One(HasLesson(s, h[k])) \in 0 .. 1
      BY PlaceIs, RowIs DEF One
    <3>3. /\ Steps(s, h, k) = Steps(s, h, k - 1) + StepAt(s, h, k)
          /\ Time(s, h, k) = Time(s, h, k - 1) + PassedAt(s, h, k)
          /\ Shut(s, h, k) = Shut(s, h, k - 1) + h[k].closes
          /\ Count(s, h, k) = Count(s, h, k - 1) + One(h[k].accept)
          /\ Lessons(s, h, k) = Lessons(s, h, k - 1) + One(HasLesson(s, h[k]))
      BY MarkNext
    <3>4. /\ Steps(s, h, k - 1) \in Nat /\ Time(s, h, k - 1) \in Nat
          /\ Shut(s, h, k - 1) \in Nat /\ Count(s, h, k - 1) \in Nat
          /\ Lessons(s, h, k - 1) \in Nat
          /\ Steps(s, h, j) \in Nat /\ Time(s, h, j) \in Nat
          /\ Shut(s, h, j) \in Nat /\ Count(s, h, j) \in Nat /\ Lessons(s, h, j) \in Nat
      BY <2>0, MarkIs
    <3>5. Rises(k)
      <4>0. \A a, b, d \in Nat : a <= b => a <= b + d
        OBVIOUS
      <4>00. One(h[k].accept) \in Nat /\ One(HasLesson(s, h[k])) \in Nat
        BY <3>2
      <4>01. \A a, b \in Nat : \A d \in 0 .. 1 :
               b - a <= (k - 1) - j => (b + d) - a <= k - j
        BY <2>0
      <4>1. Steps(s, h, j) <= Steps(s, h, k) /\ Time(s, h, j) <= Time(s, h, k)
        BY <3>1, <3>2, <3>3, <3>4, <4>0
      <4>2. Shut(s, h, j) <= Shut(s, h, k)
        BY <3>1, <3>2, <3>3, <3>4, <4>0, <4>00
      <4>3. Lessons(s, h, j) <= Lessons(s, h, k)
        BY <3>1, <3>2, <3>3, <3>4, <4>0, <4>00
      <4>4. /\ Count(s, h, j) <= Count(s, h, k)
            /\ Count(s, h, k) - Count(s, h, j) <= k - j
        BY <3>1, <3>2, <3>3, <3>4, <2>0, <4>0, <4>00, <4>01
      <4> QED BY <4>1, <4>2, <4>3, <4>4
    <3> HIDE DEF Rises
    <3> QED BY <2>0, <3>5
  <2> QED BY <1>0, <2>1, <2>2, <2>3
<1>4. 0 .. Len(h) \subseteq T
  <2> HIDE DEF T
  <2> QED BY <1>0, <1>2, <1>3, UpTo
<1>5. ASSUME NEW k \in j .. Len(h) PROVE Rises(k)
  <2>1. k \in 0 .. Len(h) /\ k >= j
    BY <1>0
  <2> HIDE DEF Rises
  <2> QED BY <1>4, <2>1
<1> QED BY <1>5

LEMMA TrailGrows ==
  ASSUME NEW s \in Settings, NEW h \in Streams(s), NEW c \in Streams(s)
  PROVE  /\ h \o c \in Streams(s) /\ Len(h \o c) = Len(h) + Len(c)
         /\ \A k \in 1 .. Len(h) : (h \o c)[k] = h[k]
         /\ \A k \in 1 .. Len(c) : (h \o c)[Len(h) + k] = c[k]
         /\ \A k \in 0 .. Len(h) : Trail(s, h \o c)[k] = Trail(s, h)[k]
<1> DEFINE g == h \o c
           N == Len(h)
           T == {k \in 0 .. N : Trail(s, g)[k] = Trail(s, h)[k]}
<1>0. h \in Seq(s.rows) /\ c \in Seq(s.rows) /\ Len(c) \in Nat /\ N \in Nat
  BY DEF Streams
<1>1. /\ g \in Streams(s) /\ Len(g) = N + Len(c)
      /\ \A k \in 1 .. N + Len(c) : g[k] = IF k <= N THEN h[k] ELSE c[k - N]
  BY <1>0, ConcatProperties DEF Streams
<1>2. /\ \A k \in 1 .. N : g[k] = h[k]
      /\ \A k \in 1 .. Len(c) : g[N + k] = c[k]
  <2>1. ASSUME NEW k \in 1 .. N PROVE g[k] = h[k]
    BY <1>0, <1>1
  <2>2. ASSUME NEW k \in 1 .. Len(c) PROVE g[N + k] = c[k]
    <3>1. N + k \in 1 .. N + Len(c) /\ ~(N + k <= N) /\ N + k - N = k
      BY <1>0
    <3> HIDE DEF g
    <3> QED BY <1>1, <3>1
  <2> QED BY <2>1, <2>2
<1> HIDE DEF g
<1>3. 0 \in T
  BY <1>0, <1>1, TrailIs
<1>4. ASSUME NEW k \in 1 .. N, k - 1 \in T PROVE k \in T
  <2>1. k \in 1 .. Len(g) /\ g[k] = h[k] /\ (k > 1 => g[k - 1] = h[k - 1])
    <3>1. k > 1 => k - 1 \in 1 .. N
      BY <1>0
    <3> QED BY <1>0, <1>1, <1>2, <3>1
  <2>2. /\ StepAt(s, g, k) = StepAt(s, h, k) /\ PassedAt(s, g, k) = PassedAt(s, h, k)
        /\ ResetAt(s, g, k) = ResetAt(s, h, k)
    BY <2>1 DEF StepAt, PassedAt, ResetAt
  <2>3. \A m : Marked(s, g, m, k) = Marked(s, h, m, k)
    BY <2>1, <2>2 DEF Marked
  <2>4. Trail(s, g)[k] = Marked(s, g, Trail(s, g)[k - 1], k)
    BY <1>1, <2>1, TrailIs
  <2>5. Trail(s, h)[k] = Marked(s, h, Trail(s, h)[k - 1], k)
    BY TrailIs
  <2>6. k \in 0 .. N
    BY <1>0
  <2> QED BY <1>4, <2>3, <2>4, <2>5, <2>6
<1>5. 0 .. N \subseteq T
  <2> HIDE DEF T
  <2> QED BY <1>0, <1>3, <1>4, UpTo
<1> QED BY <1>1, <1>2, <1>5 DEF g

\* The row the clock started over at, and the last row accepted.
LEMMA EpochIs ==
  ASSUME NEW s \in Settings, NEW h \in Streams(s), NEW k \in 0 .. Len(h)
  PROVE  /\ EpochAt(s, h, k) \in Nat /\ EpochAt(s, h, k) >= 1
         /\ k >= 1 => EpochAt(s, h, k) <= k
         /\ k = 0 => EpochAt(s, h, k) = 1
         /\ EpochAt(s, h, k) = 1 \/ ResetAt(s, h, EpochAt(s, h, k))
         /\ \A j \in EpochAt(s, h, k) + 1 .. k : ~ResetAt(s, h, j)
         /\ \A j \in EpochAt(s, h, k) .. k : EpochAt(s, h, j) = EpochAt(s, h, k)
<1> DEFINE Right(n) ==
             /\ EpochAt(s, h, n) \in Nat /\ EpochAt(s, h, n) >= 1
             /\ n >= 1 => EpochAt(s, h, n) <= n
             /\ n = 0 => EpochAt(s, h, n) = 1
             /\ EpochAt(s, h, n) = 1 \/ ResetAt(s, h, EpochAt(s, h, n))
             /\ \A j \in EpochAt(s, h, n) + 1 .. n : ~ResetAt(s, h, j)
             /\ \A j \in EpochAt(s, h, n) .. n : EpochAt(s, h, j) = EpochAt(s, h, n)
           T == {n \in 0 .. Len(h) : Right(n)}
<1>0. Len(h) \in Nat
  BY MarkIs
<1>1. 0 \in T
  <2>1. EpochAt(s, h, 0) = 1
    BY MarkZero
  <2> QED BY <1>0, <2>1
<1>2. ASSUME NEW n \in 1 .. Len(h), n - 1 \in T PROVE n \in T
  <2>0. n \in 0 .. Len(h) /\ n - 1 \in 0 .. Len(h)
    BY <1>0
  <2>1. Right(n - 1)
    BY <1>2
  <2>2. EpochAt(s, h, n) = IF ResetAt(s, h, n) THEN n ELSE EpochAt(s, h, n - 1)
    BY MarkNext
  <2>3. CASE ResetAt(s, h, n)
    <3>1. EpochAt(s, h, n) = n
      BY <2>2, <2>3
    <3>2. Right(n)
      <4>1. \A j \in n + 1 .. n : FALSE
        BY <2>0
      <4>2. \A j \in n .. n : j = n
        BY <2>0
      <4> QED BY <2>0, <2>3, <3>1, <4>1, <4>2
    <3> HIDE DEF Right
    <3> QED BY <2>0, <3>2
  <2>4. CASE ~ResetAt(s, h, n)
    <3> DEFINE e == EpochAt(s, h, n - 1)
    <3>1. EpochAt(s, h, n) = e
      BY <2>2, <2>4
    <3>2. e \in Nat /\ e >= 1 /\ e <= n
      BY <2>0, <2>1
    <3>3. e = 1 \/ ResetAt(s, h, e)
      BY <2>1
    <3>4. ASSUME NEW j \in e + 1 .. n PROVE ~ResetAt(s, h, j)
      <4>1. j = n \/ j \in e + 1 .. n - 1
        BY <3>2
      <4> QED BY <2>1, <2>4, <4>1
    <3>5. ASSUME NEW j \in e .. n PROVE EpochAt(s, h, j) = e
      <4>1. j = n \/ j \in e .. n - 1
        BY <3>2
      <4> QED BY <2>1, <3>1, <4>1
    <3> HIDE DEF e
    <3>6. Right(n)
      BY <2>0, <3>1, <3>2, <3>3, <3>4, <3>5
    <3> HIDE DEF Right
    <3> QED BY <2>0, <3>6
  <2> QED BY <2>3, <2>4
<1>3. 0 .. Len(h) \subseteq T
  <2> HIDE DEF T
  <2> QED BY <1>0, <1>1, <1>2, UpTo
<1>4. Right(k)
  BY <1>3
<1> QED BY <1>4

LEMMA LastIs ==
  ASSUME NEW s \in Settings, NEW h \in Streams(s), NEW k \in 0 .. Len(h)
  PROVE  /\ LastAt(s, h, k) \in 0 .. k
         /\ LastAt(s, h, k) # 0 => h[LastAt(s, h, k)].accept
         /\ \A j \in LastAt(s, h, k) + 1 .. k : ~h[j].accept
<1> DEFINE Right(n) ==
             /\ LastAt(s, h, n) \in 0 .. n
             /\ LastAt(s, h, n) # 0 => h[LastAt(s, h, n)].accept
             /\ \A j \in LastAt(s, h, n) + 1 .. n : ~h[j].accept
           T == {n \in 0 .. Len(h) : Right(n)}
<1>0. Len(h) \in Nat
  BY MarkIs
<1>1. 0 \in T
  <2>1. LastAt(s, h, 0) = 0
    BY MarkZero
  <2> QED BY <1>0, <2>1
<1>2. ASSUME NEW n \in 1 .. Len(h), n - 1 \in T PROVE n \in T
  <2>0. n \in 0 .. Len(h) /\ n - 1 \in 0 .. Len(h)
    BY <1>0
  <2>1. Right(n - 1)
    BY <1>2
  <2>2. LastAt(s, h, n) = IF h[n].accept THEN n ELSE LastAt(s, h, n - 1)
    BY MarkNext
  <2>3. CASE h[n].accept
    <3>1. LastAt(s, h, n) = n
      BY <2>2, <2>3
    <3>2. Right(n)
      <4>1. \A j \in n + 1 .. n : FALSE
        BY <2>0
      <4> QED BY <2>0, <2>3, <3>1, <4>1
    <3> HIDE DEF Right
    <3> QED BY <2>0, <3>2
  <2>4. CASE ~h[n].accept
    <3> DEFINE l == LastAt(s, h, n - 1)
    <3>1. LastAt(s, h, n) = l
      BY <2>2, <2>4
    <3>2. l \in Nat /\ l <= n - 1 /\ (l # 0 => h[l].accept)
      BY <2>0, <2>1
    <3>4. ASSUME NEW j \in l + 1 .. n PROVE ~h[j].accept
      <4>1. j = n \/ j \in l + 1 .. n - 1
        BY <3>2
      <4> QED BY <2>1, <2>4, <4>1
    <3> HIDE DEF l
    <3>6. Right(n)
      BY <2>0, <3>1, <3>2, <3>4
    <3> HIDE DEF Right
    <3> QED BY <2>0, <3>6
  <2> QED BY <2>3, <2>4
<1>3. 0 .. Len(h) \subseteq T
  <2> HIDE DEF T
  <2> QED BY <1>0, <1>1, <1>2, UpTo
<1>4. Right(k)
  BY <1>3
<1> QED BY <1>4

\* The counts are of sets of rows.
LEMMA CountIs ==
  ASSUME NEW s \in Settings, NEW h \in Streams(s), NEW e \in 1 .. Len(h) + 1
  PROVE  \A k \in e - 1 .. Len(h) :
           /\ IsFiniteSet({i \in e .. k : h[i].accept})
           /\ Cardinality({i \in e .. k : h[i].accept}) = Count(s, h, k) - Count(s, h, e - 1)
<1> DEFINE A(k) == {i \in e .. k : h[i].accept}
           Right(k) == /\ IsFiniteSet(A(k))
                       /\ Cardinality(A(k)) = Count(s, h, k) - Count(s, h, e - 1)
           T == {k \in 0 .. Len(h) : k >= e - 1 => Right(k)}
<1>0. Len(h) \in Nat /\ e - 1 \in 0 .. Len(h)
  <2>1. Len(h) \in Nat
    BY DEF Streams
  <2> QED BY <2>1
<1>1. Right(e - 1)
  <2>1. A(e - 1) = {}
    BY <1>0
  <2>2. Count(s, h, e - 1) \in Nat
    BY <1>0, MarkIs
  <2>3. IsFiniteSet(A(e - 1)) /\ Cardinality(A(e - 1)) = 0
    BY <2>1, FS_EmptySet
  <2> HIDE DEF A
  <2> QED BY <2>2, <2>3
<1>2. 0 \in T
  <2>1. 0 >= e - 1 => e - 1 = 0
    BY <1>0
  <2> HIDE DEF Right
  <2> QED BY <1>0, <1>1, <2>1
<1>3. ASSUME NEW k \in 1 .. Len(h), k - 1 \in T PROVE k \in T
  <2>0. k \in 0 .. Len(h) /\ k - 1 \in 0 .. Len(h)
    BY <1>0
  <2>1. CASE k < e
    <3>1. k >= e - 1 => k = e - 1
      BY <1>0, <2>0, <2>1
    <3> HIDE DEF Right
    <3> QED BY <1>1, <2>0, <3>1
  <2>2. CASE k >= e
    <3>1. Right(k - 1)
      BY <1>0, <1>3, <2>2
    <3>2. A(k) = IF h[k].accept THEN A(k - 1) \cup {k} ELSE A(k - 1)
      BY <1>0, <2>0, <2>2
    <3>3. k \notin A(k - 1)
      BY <2>0
    <3>4. Count(s, h, k) = Count(s, h, k - 1) + One(h[k].accept)
      BY MarkNext
    <3>5. Count(s, h, k - 1) \in Nat /\ Count(s, h, e - 1) \in Nat
      BY <1>0, <2>0, MarkIs
    <3>6. Right(k)
      <4> HIDE DEF A
      <4>1. CASE h[k].accept
        <5>1. /\ IsFiniteSet(A(k - 1) \cup {k})
              /\ Cardinality(A(k - 1) \cup {k}) = Cardinality(A(k - 1)) + 1
          BY <3>1, <3>3, FS_AddElement
        <5> QED BY <3>1, <3>2, <3>4, <3>5, <4>1, <5>1 DEF One
      <4>2. CASE ~h[k].accept
        BY <3>1, <3>2, <3>4, <3>5, <4>2 DEF One
      <4> QED BY <4>1, <4>2
    <3> HIDE DEF Right
    <3> QED BY <2>0, <3>6
  <2> QED BY <1>0, <2>0, <2>1, <2>2
<1>4. 0 .. Len(h) \subseteq T
  <2> HIDE DEF T
  <2> QED BY <1>0, <1>2, <1>3, UpTo
<1>5. ASSUME NEW k \in e - 1 .. Len(h) PROVE Right(k)
  <2>1. k \in 0 .. Len(h) /\ k >= e - 1
    BY <1>0
  <2> HIDE DEF Right
  <2> QED BY <1>4, <2>1
<1> QED BY <1>5

LEMMA LessonsAre ==
  ASSUME NEW s \in Settings, NEW h \in Streams(s)
  PROVE  \A k \in 0 .. Len(h) :
           /\ IsFiniteSet({i \in 1 .. k : HasLesson(s, h[i])})
           /\ Cardinality({i \in 1 .. k : HasLesson(s, h[i])}) = Lessons(s, h, k)
           /\ IsFiniteSet({i \in 1 .. k : LacksLabel(h[i])})
           /\ Cardinality({i \in 1 .. k : LacksLabel(h[i])}) = Nulls(s, h, k)
<1> DEFINE A(k) == {i \in 1 .. k : HasLesson(s, h[i])}
           B(k) == {i \in 1 .. k : LacksLabel(h[i])}
           Right(k) == /\ IsFiniteSet(A(k)) /\ Cardinality(A(k)) = Lessons(s, h, k)
                       /\ IsFiniteSet(B(k)) /\ Cardinality(B(k)) = Nulls(s, h, k)
           T == {k \in 0 .. Len(h) : Right(k)}
<1>0. Len(h) \in Nat
  BY DEF Streams
<1>1. 0 \in T
  <2>1. A(0) = {} /\ B(0) = {}
    OBVIOUS
  <2>2. Lessons(s, h, 0) = 0 /\ Nulls(s, h, 0) = 0
    BY MarkZero
  <2>3. /\ IsFiniteSet(A(0)) /\ Cardinality(A(0)) = 0
        /\ IsFiniteSet(B(0)) /\ Cardinality(B(0)) = 0
    BY <2>1, FS_EmptySet
  <2> HIDE DEF A, B
  <2> QED BY <1>0, <2>2, <2>3
<1>2. ASSUME NEW k \in 1 .. Len(h), k - 1 \in T PROVE k \in T
  <2>0. k \in 0 .. Len(h) /\ k - 1 \in 0 .. Len(h)
    BY <1>0
  <2>1. Right(k - 1)
    BY <1>2
  <2>2. /\ A(k) = IF HasLesson(s, h[k]) THEN A(k - 1) \cup {k} ELSE A(k - 1)
        /\ B(k) = IF LacksLabel(h[k]) THEN B(k - 1) \cup {k} ELSE B(k - 1)
    BY <1>0, <2>0
  <2>3. k \notin A(k - 1) /\ k \notin B(k - 1)
    BY <2>0
  <2>4. /\ Lessons(s, h, k) = Lessons(s, h, k - 1) + One(HasLesson(s, h[k]))
        /\ Nulls(s, h, k) = Nulls(s, h, k - 1) + One(LacksLabel(h[k]))
    BY MarkNext
  <2>5. Lessons(s, h, k - 1) \in Nat /\ Nulls(s, h, k - 1) \in Nat
    BY <2>0, MarkIs
  <2> HIDE DEF A, B
  <2>6. IsFiniteSet(A(k)) /\ Cardinality(A(k)) = Lessons(s, h, k)
    <3>1. CASE HasLesson(s, h[k])
      <4>1. /\ IsFiniteSet(A(k - 1) \cup {k})
            /\ Cardinality(A(k - 1) \cup {k}) = Cardinality(A(k - 1)) + 1
        BY <2>1, <2>3, FS_AddElement
      <4> QED BY <2>1, <2>2, <2>4, <2>5, <3>1, <4>1 DEF One
    <3>2. CASE ~HasLesson(s, h[k])
      BY <2>1, <2>2, <2>4, <2>5, <3>2 DEF One
    <3> QED BY <3>1, <3>2
  <2>7. IsFiniteSet(B(k)) /\ Cardinality(B(k)) = Nulls(s, h, k)
    <3>1. CASE LacksLabel(h[k])
      <4>1. /\ IsFiniteSet(B(k - 1) \cup {k})
            /\ Cardinality(B(k - 1) \cup {k}) = Cardinality(B(k - 1)) + 1
        BY <2>1, <2>3, FS_AddElement
      <4> QED BY <2>1, <2>2, <2>4, <2>5, <3>1, <4>1 DEF One
    <3>2. CASE ~LacksLabel(h[k])
      BY <2>1, <2>2, <2>4, <2>5, <3>2 DEF One
    <3> QED BY <3>1, <3>2
  <2> QED BY <2>0, <2>6, <2>7
<1>3. 0 .. Len(h) \subseteq T
  <2> HIDE DEF T
  <2> QED BY <1>0, <1>1, <1>2, UpTo
<1> QED BY <1>3


-----------------------------------------------------------------------------
(* What the clock makes of a row after a row.                              *)

IsClock(c) ==
  /\ c.started \in BOOLEAN /\ c.prev \in Int /\ c.session \in Nat /\ c.pending \in Nat
  /\ c.exact.elapsedNs \in Nat
  /\ ~c.started => c.pending = 0 /\ c.exact.elapsedNs = 0
Behind(c) == [at |-> c.prev, session |-> c.session]
IsFed(r) == r.at \in Int /\ r.session \in Nat /\ r.accept \in BOOLEAN

\* What is due at a row, the steps of the skipped rows before it included.
TotalTo(s, c, r) ==
  (IF ResetTo(s, Behind(c), r) THEN 0 ELSE c.pending) + StepTo(s, Behind(c), r)

Moves(s, c, r, out) ==
  /\ out.clock.started /\ out.clock.prev = r.at /\ out.clock.session = r.session
  /\ ~c.started =>
       /\ out.adv.reset = FALSE /\ out.adv.changed = FALSE /\ out.adv.capped = FALSE
       /\ out.adv.dClock = 0 /\ out.clock.pending = 0 /\ out.clock.exact.elapsedNs = 0
  /\ c.started =>
       /\ out.adv.reset = ResetTo(s, Behind(c), r)
       /\ out.adv.changed = NewSession(Behind(c), r)
       /\ out.adv.capped =
            (PastCap(s, Behind(c), r) \/ (r.accept /\ TotalTo(s, c, r) > s.clk.cap))
       /\ out.adv.dClock = (IF r.accept THEN Lesser(TotalTo(s, c, r), s.clk.cap) ELSE 0)
       /\ out.clock.pending = (IF r.accept THEN 0 ELSE TotalTo(s, c, r))
       /\ out.clock.exact.elapsedNs =
            (IF ResetTo(s, Behind(c), r) THEN 0 ELSE c.exact.elapsedNs)
              + PassedTo(s, Behind(c), r)
  /\ r.accept => out.adv.stamp.elapsedNs = out.clock.exact.elapsedNs
  /\ ~r.accept => out.adv.stamp.elapsedNs = 0

LEMMA StepAnyMoves ==
  ASSUME setting \in Settings, NEW c, IsClock(c), NEW r, IsFed(r)
  PROVE  Moves(setting, c, r, C!StepAny(c, r))
<1> DEFINE s == setting
           a == Behind(c)
           out == C!StepAny(c, r)
<1>0. /\ s.clk.cap \in Nat /\ s.clk.cap > 0 /\ s.clk.gapBy \in Nat /\ s.clk.minBack \in Nat
      /\ s.clk.column \in BOOLEAN
  BY SettingIs
<1>1. a.at = c.prev /\ a.session = c.session
  BY DEF Behind
<1>2. ASSUME c.started
      PROVE  /\ C!Raw(c, r) = RawTo(s, a, r) /\ C!Changed(c, r) = NewSession(a, r)
             /\ C!StepsBack(c, r) = BackTo(s, a, r) /\ C!Resets(c, r) = ResetTo(s, a, r)
  <2>1. C!Raw(c, r) = RawTo(s, a, r)
    BY <1>1 DEF C!Raw, RawTo
  <2>2. C!Changed(c, r) = NewSession(a, r)
    BY <1>1, <1>2 DEF C!Changed, NewSession
  <2>3. C!StepsBack(c, r) = BackTo(s, a, r)
    BY <1>2, <2>1, <2>2 DEF C!StepsBack, BackTo
  <2>4. C!Resets(c, r) = ResetTo(s, a, r)
    BY <2>1, <2>2, <2>3 DEF C!Resets, ResetTo, C!RefusedBack
  <2> QED BY <2>1, <2>2, <2>3, <2>4
<1>3. ASSUME NEW x \in Int PROVE C!Clamped(x) = Capped(s, x)
  BY DEF C!Clamped, Capped, C!Least, Lesser
<1>4. ASSUME c.started
      PROVE  /\ C!Step(c, r) = StepTo(s, a, r)
             /\ C!OwnCap(c, r) = PastCap(s, a, r)
             /\ C!Elapsed(c, r) = PassedTo(s, a, r)
  <2>0. RawTo(s, a, r) \in Int
    BY <1>0, <1>1 DEF RawTo, IsClock, IsFed
  <2>1. C!Step(c, r) = StepTo(s, a, r)
    BY <1>0, <1>2, <1>3, <1>4, <2>0 DEF C!Step, StepTo, GapTo
  <2>2. C!OwnCap(c, r) = PastCap(s, a, r)
    BY <1>2, <1>4 DEF C!OwnCap, PastCap, GapTo
  <2>3. C!Elapsed(c, r) = PassedTo(s, a, r)
    BY <1>2, <1>4 DEF C!Elapsed, PassedTo, GapTo
  <2> QED BY <2>1, <2>2, <2>3
<1>5. ASSUME ~c.started
      PROVE  /\ C!Resets(c, r) = FALSE /\ C!Changed(c, r) = FALSE /\ C!StepsBack(c, r) = FALSE
             /\ C!Step(c, r) = 0 /\ C!OwnCap(c, r) = FALSE /\ C!Elapsed(c, r) = 0
  BY <1>5 DEF C!Resets, C!Changed, C!StepsBack, C!Step, C!OwnCap, C!Elapsed
<1> DEFINE total == (IF C!Resets(c, r) THEN 0 ELSE c.pending) + C!Step(c, r)
<1>6. /\ out.clock.started = TRUE /\ out.clock.prev = r.at /\ out.clock.session = r.session
      /\ out.clock.pending = (IF r.accept THEN 0 ELSE total)
      /\ out.clock.exact = C!ExactStep(c, r)
      /\ out.adv.reset = C!Resets(c, r) /\ out.adv.changed = C!Changed(c, r)
      /\ out.adv.capped = (C!OwnCap(c, r) \/ (r.accept /\ total > s.clk.cap))
      /\ out.adv.dClock = (IF r.accept THEN C!Seen(total) ELSE 0)
      /\ out.adv.stamp = (IF r.accept THEN C!StampOf(r, C!ExactStep(c, r)) ELSE C!NoStamp)
  BY DEF C!StepAny
<1>7. C!ExactStep(c, r).elapsedNs =
        (IF C!Resets(c, r) THEN 0 ELSE c.exact.elapsedNs) + C!Elapsed(c, r)
  <2>1. CASE C!Resets(c, r)
    BY <2>1 DEF C!ExactStep, C!NoExact
  <2>2. CASE ~C!Resets(c, r)
    BY <2>2 DEF C!ExactStep
  <2> QED BY <2>1, <2>2
<1>8. /\ r.accept => out.adv.stamp.elapsedNs = out.clock.exact.elapsedNs
      /\ ~r.accept => out.adv.stamp.elapsedNs = 0
  <2> HIDE DEF out
  <2> QED BY <1>6 DEF C!StampOf, C!NoStamp
<1>9. ASSUME NEW x \in Nat PROVE C!Seen(x) = Lesser(x, s.clk.cap)
  BY DEF C!Seen, C!Least, Lesser
<1>10. CASE c.started
  <2>1. total = TotalTo(s, c, r)
    BY <1>2, <1>4, <1>10 DEF TotalTo
  <2>2. total \in Nat
    <3>1. StepTo(s, a, r) \in Nat
      BY <1>1, PairIs DEF IsClock, IsFed
    <3>2. c.pending \in Nat
      BY DEF IsClock
    <3> QED BY <2>1, <3>1, <3>2 DEF TotalTo
  <2>3. C!Seen(total) = Lesser(TotalTo(s, c, r), s.clk.cap)
    BY <1>9, <2>1, <2>2
  <2>4. out.clock.exact.elapsedNs =
          (IF ResetTo(s, a, r) THEN 0 ELSE c.exact.elapsedNs) + PassedTo(s, a, r)
    BY <1>2, <1>4, <1>6, <1>7, <1>10
  <2>5. /\ out.adv.reset = ResetTo(s, a, r) /\ out.adv.changed = NewSession(a, r)
    BY <1>2, <1>6, <1>10
  <2>6. out.adv.capped = (PastCap(s, a, r) \/ (r.accept /\ TotalTo(s, c, r) > s.clk.cap))
    <3> HIDE DEF out, total
    <3> QED BY <1>4, <1>6, <1>10, <2>1
  <2>7. Moves(s, c, r, out)
    <3> HIDE DEF out, total
    <3> QED BY <1>6, <1>8, <1>10, <2>1, <2>3, <2>4, <2>5, <2>6 DEF Moves
  <2> QED BY <2>7
<1>11. CASE ~c.started
  <2>0. c.pending = 0 /\ c.exact.elapsedNs = 0
    BY <1>11 DEF IsClock
  <2>1. total = 0
    <3>1. C!Step(c, r) = 0 /\ ~C!Resets(c, r)
      BY <1>5, <1>11
    <3> QED BY <2>0, <3>1
  <2>2. C!Seen(total) = 0 /\ ~(total > s.clk.cap)
    <3> HIDE DEF total
    <3>1. C!Seen(0) = Lesser(0, s.clk.cap)
      BY <1>9
    <3> QED BY <1>0, <2>1, <3>1 DEF Lesser
  <2>3. out.clock.exact.elapsedNs = 0
    <3>1. C!Elapsed(c, r) = 0 /\ ~C!Resets(c, r)
      BY <1>5, <1>11
    <3>2. out.clock.exact.elapsedNs = c.exact.elapsedNs + 0
      BY <1>6, <1>7, <3>1
    <3> QED BY <2>0, <3>2
  <2>7. Moves(s, c, r, out)
    <3> HIDE DEF out, total
    <3>4. /\ out.adv.reset = FALSE /\ out.adv.changed = FALSE
      BY <1>5, <1>6, <1>11
    <3>5. out.adv.capped = FALSE
      BY <1>5, <1>6, <1>11, <2>2
    <3>6. out.adv.dClock = 0 /\ out.clock.pending = 0
      BY <1>6, <2>1, <2>2
    <3> QED BY <1>6, <1>8, <1>11, <2>3, <3>4, <3>5, <3>6 DEF Moves
  <2> QED BY <2>7
<1> QED BY <1>10, <1>11 DEF IsClock

LEMMA ForwardMoves ==
  ASSUME setting \in Settings, NEW c, IsClock(c), NEW r, IsFed(r), C!ForwardTakes(c, r)
  PROVE  Moves(setting, c, r, C!Forward(c, r))
<1> DEFINE s == setting
           a == Behind(c)
           out == C!Forward(c, r)
           raw == r.at - c.prev
           d == IF raw > s.clk.cap THEN s.clk.cap ELSE raw
           total == c.pending + d
           over == IF total > s.clk.cap THEN total - s.clk.cap ELSE 0
<1>0. s.clk.cap \in Nat /\ s.clk.cap > 0
  BY SettingIs
<1>1. a.at = c.prev /\ a.session = c.session
  BY DEF Behind
<1>2. /\ s.clk.column /\ r.accept /\ c.started /\ r.session = c.session /\ raw >= 0
      /\ raw \in Int /\ c.pending \in Nat
  <2>1. /\ s.clk.column /\ r.accept /\ c.started /\ ~C!Changed(c, r) /\ raw >= 0
    BY DEF C!ForwardTakes
  <2>2. r.session = c.session
    BY <2>1 DEF C!Changed
  <2> QED BY <2>1, <2>2 DEF IsClock, IsFed
<1>3. RawTo(s, a, r) = raw /\ ~NewSession(a, r)
  BY <1>1, <1>2 DEF RawTo, NewSession
<1>4. ~BackTo(s, a, r) /\ ~ResetTo(s, a, r) /\ ~GapTo(s, a, r)
  <2> HIDE DEF raw
  <2> QED BY <1>2, <1>3 DEF BackTo, ResetTo, GapTo
<1>5. /\ StepTo(s, a, r) = d /\ (PastCap(s, a, r) <=> raw > s.clk.cap)
      /\ PassedTo(s, a, r) = raw
  <2> HIDE DEF raw
  <2>1. StepTo(s, a, r) = Capped(s, raw)
    BY <1>3, <1>4 DEF StepTo
  <2>2. Capped(s, raw) = d
    BY <1>0, <1>2 DEF Capped, Lesser
  <2>3. PastCap(s, a, r) <=> raw > s.clk.cap
    BY <1>3, <1>4 DEF PastCap
  <2>4. PassedTo(s, a, r) = raw
    BY <1>2, <1>3, <1>4 DEF PassedTo
  <2> QED BY <2>1, <2>2, <2>3, <2>4
<1>6. /\ out.clock.started = TRUE /\ out.clock.prev = r.at /\ out.clock.session = r.session
      /\ out.clock.pending = 0 /\ out.adv.reset = FALSE /\ out.adv.changed = FALSE
      /\ out.adv.capped = (raw > s.clk.cap \/ over > 0)
      /\ out.adv.dClock = C!Seen(total)
      /\ out.clock.exact.elapsedNs = c.exact.elapsedNs + raw
      /\ out.adv.stamp.elapsedNs = out.clock.exact.elapsedNs
  BY DEF C!Forward, C!ForwardTotal, C!StampOf
<1>7. d \in Nat /\ total \in Nat
  <2> HIDE DEF raw
  <2> QED BY <1>0, <1>2
<1>8. C!Seen(total) = Lesser(total, s.clk.cap) /\ (over > 0 <=> total > s.clk.cap)
  <2>1. C!Seen(total) = Lesser(total, s.clk.cap)
    BY DEF C!Seen, C!Least, Lesser
  <2>2. over > 0 <=> total > s.clk.cap
    <3> HIDE DEF total
    <3> QED BY <1>0, <1>7
  <2> QED BY <2>1, <2>2
<1>9. total = TotalTo(s, c, r)
  BY <1>4, <1>5 DEF TotalTo
<1>10. out.adv.capped = (PastCap(s, a, r) \/ (r.accept /\ TotalTo(s, c, r) > s.clk.cap))
  <2>1. (raw > s.clk.cap \/ over > 0) = (PastCap(s, a, r) \/ total > s.clk.cap)
    <3> HIDE DEF raw, over, total
    <3>1. over > 0 <=> total > s.clk.cap
      BY <1>8
    <3>2. PastCap(s, a, r) <=> raw > s.clk.cap
      BY <1>5
    <3>3. PastCap(s, a, r) \in BOOLEAN
      BY DEF PastCap
    <3> QED BY <3>1, <3>2, <3>3
  <2> HIDE DEF out, raw, over, total
  <2> QED BY <1>2, <1>6, <1>9, <2>1
<1>11. NewSession(a, r) = FALSE /\ ResetTo(s, a, r) = FALSE
  BY <1>3, <1>4 DEF NewSession, ResetTo
<1>12. Moves(s, c, r, out)
  <2> HIDE DEF out, total, over, raw
  <2> QED BY <1>2, <1>5, <1>6, <1>8, <1>9, <1>10, <1>11 DEF Moves
<1> QED BY <1>12

LEMMA AdvanceMoves ==
  ASSUME setting \in Settings, NEW c, IsClock(c), NEW r, IsFed(r)
  PROVE  Moves(setting, c, r, C!Advance(c, r)) /\ IsClock(C!Advance(c, r).clock)
<1> DEFINE s == setting
           a == Behind(c)
           out == C!Advance(c, r)
<1>1. Moves(s, c, r, out)
  BY StepAnyMoves, ForwardMoves DEF C!Advance
<1> HIDE DEF out
<1>2. a.at \in Int
  BY DEF Behind, IsClock
<1>3. StepTo(s, a, r) \in Nat /\ PassedTo(s, a, r) \in Nat
  BY <1>2, PairIs DEF IsFed
<1>4. TotalTo(s, c, r) \in Nat
  <2>1. c.pending \in Nat
    BY DEF IsClock
  <2> QED BY <1>3, <2>1 DEF TotalTo
<1>5. out.clock.pending \in Nat /\ out.clock.exact.elapsedNs \in Nat
  <2>1. CASE c.started
    <3>1. c.exact.elapsedNs \in Nat
      BY DEF IsClock
    <3>2. out.clock.pending \in Nat
      BY <1>1, <1>4, <2>1 DEF Moves
    <3>3. out.clock.exact.elapsedNs \in Nat
      BY <1>1, <1>3, <2>1, <3>1 DEF Moves
    <3> QED BY <3>2, <3>3
  <2>2. CASE ~c.started
    BY <1>1, <2>2 DEF Moves
  <2> QED BY <2>1, <2>2 DEF IsClock
<1>6. IsClock(out.clock)
  <2>1. /\ out.clock.started /\ out.clock.prev = r.at /\ out.clock.session = r.session
    BY <1>1 DEF Moves
  <2>2. out.clock.started \in BOOLEAN
    BY <1>1 DEF Moves, out, C!Advance, C!StepAny, C!Forward
  <2> QED BY <1>5, <2>1, <2>2 DEF IsClock, IsFed
<1> QED BY <1>1, <1>6 DEF out

LEMMA NewIsClock == IsClock(C!New) /\ ~C!New.started
BY DEF IsClock, C!New, C!NoExact, C!NoSession

-----------------------------------------------------------------------------
(* A clock fed the rows of a stream from row f on, of which a model takes   *)
(* some.  Row e is where it last started over, row b the last one taken     *)
(* since, or e.                                                             *)

PastCapAt(s, h, k) == k > 1 /\ PastCap(s, h[k - 1], h[k])
TotalSince(s, h, b, k) == IF ResetAt(s, h, k) THEN 0 ELSE Steps(s, h, k) - Steps(s, h, b)

After(s, h, f, e, b, k, c) ==
  /\ IsClock(c)
  /\ k < f => ~c.started
  /\ k >= f =>
       /\ c.started /\ c.prev = h[k].at /\ c.session = h[k].session
       /\ e \in f .. k /\ b \in e .. k
       /\ c.pending = Steps(s, h, k) - Steps(s, h, b)
       /\ c.exact.elapsedNs = Time(s, h, k) - Time(s, h, e)

\* What the next row makes of it, whether the model takes it or not.
TakesAt(s, h, f, e, b, k, x, out) ==
  LET reset == k > f /\ ResetAt(s, h, k)
      e1 == IF k = f \/ reset THEN k ELSE e
      b1 == IF k = f \/ reset \/ x THEN k ELSE b
      total == IF k = f THEN 0 ELSE TotalSince(s, h, b, k)
  IN  /\ After(s, h, f, e1, b1, k, out.clock)
      /\ out.adv.reset = reset
      /\ out.adv.changed = (k > f /\ ChangedAt(h, k))
      /\ out.adv.capped = (k > f /\ (PastCapAt(s, h, k) \/ (x /\ total > s.clk.cap)))
      /\ total \in Nat
      /\ out.adv.dClock = (IF x THEN Lesser(total, s.clk.cap) ELSE 0)
      /\ out.adv.stamp.elapsedNs = (IF x THEN Time(s, h, k) - Time(s, h, e1) ELSE 0)

LEMMA AfterStep ==
  ASSUME setting \in Settings, NEW h \in Streams(setting),
         NEW f \in 1 .. Len(h), NEW k \in f .. Len(h), NEW e, NEW b,
         NEW c, After(setting, h, f, e, b, k - 1, c),
         NEW r, NEW x \in BOOLEAN,
         r.at = h[k].at, r.session = h[k].session, r.accept = x
  PROVE  TakesAt(setting, h, f, e, b, k, x, C!Advance(c, r))
<1> DEFINE s == setting
           out == C!Advance(c, r)
           a == Behind(c)
<1>0. Len(h) \in Nat /\ k \in 1 .. Len(h) /\ k \in 0 .. Len(h) /\ k - 1 \in 0 .. Len(h)
  <2>1. Len(h) \in Nat
    BY DEF Streams
  <2> QED BY <2>1
<1>1. h[k].at \in Int /\ h[k].session \in Nat /\ IsFed(r)
  BY <1>0, RowIs DEF IsFed
<1>2. IsClock(c)
  BY DEF After
<1>3. Moves(s, c, r, out) /\ IsClock(out.clock)
  BY <1>1, <1>2, AdvanceMoves
<1> HIDE DEF out
<1>4. /\ out.clock.started /\ out.clock.prev = h[k].at /\ out.clock.session = h[k].session
  BY <1>3 DEF Moves
<1>5. /\ Steps(s, h, k) \in Nat /\ Time(s, h, k) \in Nat /\ s.clk.cap \in Nat
      /\ Steps(s, h, k - 1) \in Nat /\ Time(s, h, k - 1) \in Nat
  BY <1>0, MarkIs, SettingIs
<1>6. CASE k = f
  <2>1. ~c.started
    BY <1>0, <1>6 DEF After
  <2>2. /\ out.adv.reset = FALSE /\ out.adv.changed = FALSE /\ out.adv.capped = FALSE
        /\ out.adv.dClock = 0 /\ out.clock.pending = 0 /\ out.clock.exact.elapsedNs = 0
        /\ out.adv.stamp.elapsedNs = 0
    BY <1>3, <2>1 DEF Moves
  <2>3. After(s, h, f, k, k, k, out.clock)
    <3>1. Steps(s, h, k) - Steps(s, h, k) = 0 /\ Time(s, h, k) - Time(s, h, k) = 0
      BY <1>5
    <3> QED BY <1>0, <1>3, <1>4, <1>6, <2>2, <3>1 DEF After
  <2>4. Lesser(0, s.clk.cap) = 0 /\ Time(s, h, k) - Time(s, h, k) = 0 /\ ~(k > f)
    BY <1>5, <1>6 DEF Lesser
  <2> QED BY <1>6, <2>2, <2>3, <2>4 DEF TakesAt, out
<1>7. CASE k > f
  <2>1. /\ k - 1 >= f /\ k > 1
    BY <1>0, <1>7
  <2>2. /\ c.started /\ c.prev = h[k - 1].at /\ c.session = h[k - 1].session
        /\ e \in f .. k - 1 /\ b \in e .. k - 1
        /\ c.pending = Steps(s, h, k - 1) - Steps(s, h, b)
        /\ c.exact.elapsedNs = Time(s, h, k - 1) - Time(s, h, e)
    BY <2>1 DEF After
  <2>3. a.at = h[k - 1].at /\ a.session = h[k - 1].session
    BY <2>2 DEF Behind
  <2>4. /\ ResetTo(s, a, r) = ResetTo(s, h[k - 1], h[k])
        /\ StepTo(s, a, r) = StepTo(s, h[k - 1], h[k])
        /\ PassedTo(s, a, r) = PassedTo(s, h[k - 1], h[k])
        /\ PastCap(s, a, r) = PastCap(s, h[k - 1], h[k])
        /\ NewSession(a, r) = NewSession(h[k - 1], h[k])
    <3>1. /\ RawTo(s, a, r) = RawTo(s, h[k - 1], h[k])
          /\ NewSession(a, r) = NewSession(h[k - 1], h[k])
      BY <2>3 DEF RawTo, NewSession
    <3>2. BackTo(s, a, r) = BackTo(s, h[k - 1], h[k])
      BY <3>1 DEF BackTo
    <3>3. ResetTo(s, a, r) = ResetTo(s, h[k - 1], h[k])
      BY <3>1, <3>2 DEF ResetTo
    <3>4. GapTo(s, a, r) = GapTo(s, h[k - 1], h[k])
      BY <3>1 DEF GapTo
    <3> QED BY <3>1, <3>2, <3>3, <3>4 DEF StepTo, PassedTo, PastCap
  <2>5. /\ ResetTo(s, a, r) = ResetAt(s, h, k) /\ StepTo(s, a, r) = StepAt(s, h, k)
        /\ PassedTo(s, a, r) = PassedAt(s, h, k) /\ PastCap(s, a, r) = PastCapAt(s, h, k)
        /\ NewSession(a, r) = ChangedAt(h, k)
    <3>1. ResetTo(s, a, r) = ResetAt(s, h, k)
      <4>1. ResetTo(s, h[k - 1], h[k]) \in BOOLEAN
        BY DEF ResetTo
      <4> QED BY <2>1, <2>4, <4>1 DEF ResetAt
    <3>2. PastCap(s, a, r) = PastCapAt(s, h, k)
      <4>1. PastCap(s, h[k - 1], h[k]) \in BOOLEAN
        BY DEF PastCap
      <4> QED BY <2>1, <2>4, <4>1 DEF PastCapAt
    <3>3. NewSession(a, r) = ChangedAt(h, k)
      BY <2>1, <2>4 DEF ChangedAt, NewSession
    <3> QED BY <2>1, <2>4, <3>1, <3>2, <3>3 DEF StepAt, PassedAt
  <2>6. /\ Steps(s, h, k) = Steps(s, h, k - 1) + StepAt(s, h, k)
        /\ Time(s, h, k) = Time(s, h, k - 1) + PassedAt(s, h, k)
        /\ StepAt(s, h, k) \in Nat /\ PassedAt(s, h, k) \in Nat
        /\ ResetAt(s, h, k) => StepAt(s, h, k) = 0 /\ PassedAt(s, h, k) = 0
    BY <1>0, MarkNext, PlaceIs
  <2>7. /\ Steps(s, h, b) \in Nat /\ Time(s, h, e) \in Nat
        /\ Steps(s, h, b) <= Steps(s, h, k) /\ Time(s, h, e) <= Time(s, h, k)
    <3>1. /\ b \in 0 .. Len(h) /\ e \in 0 .. Len(h) /\ k \in b .. Len(h) /\ k \in e .. Len(h)
      BY <1>0, <2>2
    <3> QED BY <3>1, MarkIs, MarksRise
  <2> DEFINE total == TotalSince(s, h, b, k)
  <2>8. total = TotalTo(s, c, r) /\ total \in Nat
    <3>1. CASE ResetAt(s, h, k)
      <4>1. TotalTo(s, c, r) = 0 + StepAt(s, h, k)
        BY <2>5, <3>1 DEF TotalTo
      <4> QED BY <2>6, <3>1, <4>1 DEF TotalSince
    <3>2. CASE ~ResetAt(s, h, k)
      <4>1. TotalTo(s, c, r) = c.pending + StepAt(s, h, k)
        BY <2>5, <3>2 DEF TotalTo
      <4>2. total = Steps(s, h, k) - Steps(s, h, b)
        BY <3>2 DEF TotalSince
      <4>3. \A i, j, l, m \in Nat :
              i = j + l /\ m <= i => (j - m) + l = i - m /\ i - m \in Nat
        OBVIOUS
      <4>4. TotalTo(s, c, r) = (Steps(s, h, k - 1) - Steps(s, h, b)) + StepAt(s, h, k)
        BY <2>2, <4>1
      <4>5. /\ (Steps(s, h, k - 1) - Steps(s, h, b)) + StepAt(s, h, k)
                 = Steps(s, h, k) - Steps(s, h, b)
            /\ Steps(s, h, k) - Steps(s, h, b) \in Nat
        <5>1. /\ Steps(s, h, k) = Steps(s, h, k - 1) + StepAt(s, h, k)
              /\ Steps(s, h, k - 1) \in Nat /\ StepAt(s, h, k) \in Nat
              /\ Steps(s, h, k) \in Nat /\ Steps(s, h, b) \in Nat
              /\ Steps(s, h, b) <= Steps(s, h, k)
          BY <1>5, <2>6, <2>7
        <5>2. Steps(s, h, k) - Steps(s, h, b) \in Nat
          BY ONLY <5>1
        <5>3. (Steps(s, h, k - 1) - Steps(s, h, b)) + StepAt(s, h, k)
                = Steps(s, h, k) - Steps(s, h, b)
          BY ONLY <5>1
        <5> QED BY <5>2, <5>3
      <4>6. TotalTo(s, c, r) = total
        BY ONLY <4>2, <4>4, <4>5
      <4> QED BY <4>2, <4>5, <4>6
    <3> QED BY <3>1, <3>2
  <2> DEFINE e1 == IF ResetAt(s, h, k) THEN k ELSE e
             b1 == IF ResetAt(s, h, k) \/ x THEN k ELSE b
  <2>9. /\ out.adv.reset = ResetAt(s, h, k) /\ out.adv.changed = ChangedAt(h, k)
        /\ out.adv.capped = (PastCapAt(s, h, k) \/ (x /\ total > s.clk.cap))
        /\ out.adv.dClock = (IF x THEN Lesser(total, s.clk.cap) ELSE 0)
        /\ out.clock.pending = (IF x THEN 0 ELSE total)
        /\ out.clock.exact.elapsedNs =
             (IF ResetAt(s, h, k) THEN 0 ELSE c.exact.elapsedNs) + PassedAt(s, h, k)
    <3> HIDE DEF total
    <3> QED BY <1>3, <2>2, <2>5, <2>8 DEF Moves
  <2>10. e1 \in f .. k /\ b1 \in e1 .. k
    <3>1. CASE ResetAt(s, h, k)
      BY <1>0, <1>7, <3>1
    <3>2. CASE ~ResetAt(s, h, k)
      BY <1>0, <1>7, <2>2, <3>2
    <3> QED BY <3>1, <3>2
  <2>11. out.clock.pending = Steps(s, h, k) - Steps(s, h, b1)
    <3>1. CASE ResetAt(s, h, k) \/ x
      <4>1. total = 0 \/ x
        BY <3>1 DEF TotalSince
      <4>2. out.clock.pending = 0
        <5> HIDE DEF total
        <5> QED BY <2>9, <4>1
      <4>3. b1 = k
        BY <3>1
      <4> HIDE DEF b1
      <4> QED BY <1>5, <4>2, <4>3
    <3>2. CASE ~(ResetAt(s, h, k) \/ x)
      <4>1. total = Steps(s, h, k) - Steps(s, h, b) /\ b1 = b
        BY <3>2 DEF TotalSince
      <4> HIDE DEF total, b1
      <4> QED BY <2>9, <3>2, <4>1
    <3> QED BY <3>1, <3>2
  <2>12. out.clock.exact.elapsedNs = Time(s, h, k) - Time(s, h, e1)
    <3>1. CASE ResetAt(s, h, k)
      BY <1>5, <2>6, <2>9, <3>1
    <3>2. CASE ~ResetAt(s, h, k)
      <4>1. out.clock.exact.elapsedNs = (Time(s, h, k - 1) - Time(s, h, e)) + PassedAt(s, h, k)
        BY <2>2, <2>9, <3>2
      <4>2. e1 = e
        BY <3>2
      <4> HIDE DEF e1
      <4> QED BY <1>5, <2>6, <2>7, <4>1, <4>2
    <3> QED BY <3>1, <3>2
  <2>13. out.adv.stamp.elapsedNs = (IF x THEN Time(s, h, k) - Time(s, h, e1) ELSE 0)
    <3> HIDE DEF e1
    <3> QED BY <1>3, <2>12 DEF Moves
  <2>14. After(s, h, f, e1, b1, k, out.clock)
    <3> HIDE DEF e1, b1
    <3> QED BY <1>0, <1>3, <1>4, <1>7, <2>10, <2>11, <2>12 DEF After
  <2>15. k # f /\ (k > f) = TRUE
    BY <1>7
  <2>16. /\ ResetAt(s, h, k) \in BOOLEAN /\ ChangedAt(h, k) \in BOOLEAN
    BY DEF ResetAt, ChangedAt
  <2> HIDE DEF total
  <2> QED BY <2>8, <2>9, <2>13, <2>14, <2>15, <2>16 DEF TakesAt, out, total
<1> QED BY <1>0, <1>6, <1>7

\* The run of a bank is what its definition says of it.
LEMMA BankRuns ==
  ASSUME NEW from \in Int, NEW to \in Int, from - 1 <= to, NEW takes
  PROVE  /\ Bank(from, to, takes)[from - 1] = [clock |-> C!New, adv |-> C!NoRow]
         /\ \A i \in from .. to : Bank(from, to, takes)[i] =
              C!Advance(Bank(from, to, takes)[i - 1].clock,
                        [hist[i] EXCEPT !.accept = @ /\ i \in takes])
<1> DEFINE E(g, m) == [i \in (from - 1) .. m |->
                         IF i < from THEN [clock |-> C!New, adv |-> C!NoRow]
                         ELSE C!Advance(g[i - 1].clock,
                                [hist[i] EXCEPT !.accept = @ /\ i \in takes])]
           T == {m \in from - 1 .. to : \E g : g = E(g, m)}
           run == CHOOSE g : g = E(g, to)
<1>1. from - 1 \in T
  <2> DEFINE g == [i \in (from - 1) .. (from - 1) |-> [clock |-> C!New, adv |-> C!NoRow]]
  <2>1. g = E(g, from - 1)
    OBVIOUS
  <2>2. from - 1 \in from - 1 .. to
    OBVIOUS
  <2> HIDE DEF g, E
  <2> QED BY <2>1, <2>2
<1>2. ASSUME NEW m \in (from - 1) + 1 .. to, m - 1 \in T PROVE m \in T
  <2>1. PICK g : g = E(g, m - 1)
    BY <1>2
  <2> DEFINE next == C!Advance(g[m - 1].clock, [hist[m] EXCEPT !.accept = @ /\ m \in takes])
             q == [i \in (from - 1) .. m |-> IF i = m THEN next ELSE g[i]]
  <2>2. ASSUME NEW i \in from - 1 .. m
        PROVE  q[i] = IF i < from THEN [clock |-> C!New, adv |-> C!NoRow]
                      ELSE C!Advance(q[i - 1].clock,
                             [hist[i] EXCEPT !.accept = @ /\ i \in takes])
    <3> HIDE DEF next
    <3>1. CASE i = m
      <4>1. q[i] = next /\ ~(i < from) /\ i - 1 \in from - 1 .. m /\ i - 1 # m
        BY <3>1
      <4>2. q[i - 1] = g[i - 1]
        BY <4>1
      <4> QED BY <3>1, <4>1, <4>2 DEF next
    <3>2. CASE i # m
      <4>1. q[i] = g[i] /\ i \in from - 1 .. m - 1
        BY <3>2
      <4>2. ~(i < from) => i - 1 \in from - 1 .. m /\ i - 1 # m
        BY <3>2
      <4>3. ~(i < from) => q[i - 1] = g[i - 1]
        BY <4>2
      <4>4. g[i] = E(g, m - 1)[i]
        BY <2>1
      <4> HIDE DEF q
      <4> QED BY <4>1, <4>3, <4>4
    <3> QED BY <3>1, <3>2
  <2>3. q = E(q, m)
    <3>1. q = [i \in from - 1 .. m |-> q[i]]
      OBVIOUS
    <3> HIDE DEF q
    <3> QED BY <2>2, <3>1
  <2> HIDE DEF q, E
  <2> QED BY <2>3
<1>3. to \in T
  <2>1. from - 1 .. to \subseteq T
    <3> HIDE DEF T
    <3> QED BY <1>1, <1>2, Along
  <2> HIDE DEF T
  <2> QED BY <2>1
<1>4. run = E(run, to)
  <2> HIDE DEF E
  <2> QED BY <1>3
<1>5. Bank(from, to, takes) = run
  BY DEF Bank
<1> HIDE DEF run
<1>6. run[from - 1] = [clock |-> C!New, adv |-> C!NoRow]
  BY <1>4
<1>7. ASSUME NEW i \in from .. to
      PROVE  run[i] = C!Advance(run[i - 1].clock, [hist[i] EXCEPT !.accept = @ /\ i \in takes])
  <2>1. i \in from - 1 .. to /\ ~(i < from)
    OBVIOUS
  <2>2. run[i] = E(run, to)[i]
    BY <1>4
  <2> QED BY <2>1, <2>2
<1> QED BY <1>5, <1>6, <1>7

\* The last row a bank begun at f took by row k, or its first.
TakenAt(h, t, k) == h[k].accept /\ k \in t
BaseFor(h, f, t, k, m) ==
  /\ m \in f .. k
  /\ m = f \/ TakenAt(h, t, m)
  /\ \A j \in m + 1 .. k : ~TakenAt(h, t, j)

LEMMA OneBase ==
  ASSUME NEW h, NEW t, NEW f \in Nat, NEW k \in Nat, NEW m, NEW n,
         BaseFor(h, f, t, k, m), BaseFor(h, f, t, k, n)
  PROVE  m = n
<1>1. m \in f .. k /\ n \in f .. k
  BY DEF BaseFor
<1>2. ~(m < n)
  <2> SUFFICES ASSUME m < n PROVE FALSE
    OBVIOUS
  <2>1. n # f /\ n \in m + 1 .. k
    BY <1>1
  <2> QED BY <2>1 DEF BaseFor
<1>3. ~(n < m)
  <2> SUFFICES ASSUME n < m PROVE FALSE
    OBVIOUS
  <2>1. m # f /\ m \in n + 1 .. k
    BY <1>1
  <2> QED BY <2>1 DEF BaseFor
<1> QED BY <1>1, <1>2, <1>3

BankAt(s, h, f, t, k, prev, out) ==
  /\ out.adv.changed = (k > f /\ ChangedAt(h, k))
  /\ k = f => out.adv.dClock = 0 /\ out.adv.capped = FALSE
  /\ k > f => \A m : BaseFor(h, f, t, k - 1, m) =>
       /\ Steps(s, h, k) - Steps(s, h, m) \in Nat
       /\ out.adv.capped = (PastCapAt(s, h, k) \/
            (TakenAt(h, t, k) /\ Steps(s, h, k) - Steps(s, h, m) > s.clk.cap))
       /\ out.adv.dClock =
            (IF TakenAt(h, t, k) THEN Lesser(Steps(s, h, k) - Steps(s, h, m), s.clk.cap) ELSE 0)
  /\ k > f => C!Elapsed(prev.clock, h[k]) = PassedAt(s, h, k)

LEMMA ElapsedAt ==
  ASSUME setting \in Settings, NEW h, NEW k, k > 1, NEW c, c.started,
         c.prev = h[k - 1].at, c.session = h[k - 1].session, ~ResetAt(setting, h, k)
  PROVE  C!Elapsed(c, h[k]) = PassedAt(setting, h, k)
<1> DEFINE s == setting
           r == h[k]
           a == h[k - 1]
<1> HIDE DEF r, a
<1>1. C!Raw(c, r) = RawTo(s, a, r)
  BY DEF C!Raw, RawTo, r, a
<1>2. C!Changed(c, r) = NewSession(a, r)
  BY DEF C!Changed, NewSession, r, a
<1>3. C!StepsBack(c, r) = BackTo(s, a, r)
  BY <1>1, <1>2 DEF C!StepsBack, BackTo
<1>4. C!Resets(c, r) = ResetTo(s, a, r)
  BY <1>1, <1>2, <1>3 DEF C!Resets, ResetTo, C!RefusedBack
<1>5. ~ResetTo(s, a, r)
  BY DEF ResetAt, r, a
<1>6. C!Elapsed(c, r) = PassedTo(s, a, r)
  BY <1>1, <1>2, <1>4, <1>5 DEF C!Elapsed, PassedTo, GapTo
<1> QED BY <1>6 DEF PassedAt, r, a

LEMMA BankIs ==
  ASSUME setting \in Settings, hist \in Streams(setting),
         NEW f \in 1 .. Len(hist), NEW to \in f .. Len(hist), NEW t,
         \A j \in f + 1 .. to : ~ResetAt(setting, hist, j)
  PROVE  \A k \in f .. to :
           BankAt(setting, hist, f, t, k, Bank(f, to, t)[k - 1], Bank(f, to, t)[k])
<1> DEFINE s == setting
           h == hist
           run == Bank(f, to, t)
           Right(k) == \E m : /\ k >= f => BaseFor(h, f, t, k, m)
                              /\ After(s, h, f, f, m, k, run[k].clock)
           T == {k \in f - 1 .. to : Right(k)}
<1>0. /\ Len(h) \in Nat /\ f \in Nat /\ to \in Nat /\ f - 1 <= to /\ f >= 1
      /\ s.clk.cap \in Nat
  <2>1. Len(h) \in Nat
    BY DEF Streams
  <2> QED BY <2>1, SettingIs
<1>1. /\ run[f - 1] = [clock |-> C!New, adv |-> C!NoRow]
      /\ \A i \in f .. to : run[i] =
           C!Advance(run[i - 1].clock, [h[i] EXCEPT !.accept = @ /\ i \in t])
  BY <1>0, BankRuns
<1> HIDE DEF run
<1>2. f - 1 \in T
  <2>1. After(s, h, f, f, f, f - 1, run[f - 1].clock)
    BY <1>0, <1>1, NewIsClock DEF After
  <2>2. Right(f - 1)
    BY <1>0, <2>1
  <2> HIDE DEF Right
  <2> QED BY <1>0, <2>2
<1>3. ASSUME NEW k \in f .. to, NEW m, k - 1 >= f => BaseFor(h, f, t, k - 1, m),
             After(s, h, f, f, m, k - 1, run[k - 1].clock)
      PROVE  TakesAt(s, h, f, f, m, k, TakenAt(h, t, k), run[k])
  <2> DEFINE r == [h[k] EXCEPT !.accept = @ /\ k \in t]
  <2>1. k \in f .. Len(h) /\ k \in 1 .. Len(h)
    BY <1>0
  <2>2. r.at = h[k].at /\ r.session = h[k].session /\ r.accept = TakenAt(h, t, k)
    <3>1. h[k] \in RowOf
      BY <2>1, RowIs
    <3> QED BY <3>1 DEF RowOf, TakenAt
  <2>3. TakenAt(h, t, k) \in BOOLEAN
    BY <2>1, RowIs DEF TakenAt
  <2>4. run[k] = C!Advance(run[k - 1].clock, r)
    BY <1>1
  <2> HIDE DEF r
  <2>5. TakesAt(s, h, f, f, m, k, TakenAt(h, t, k), C!Advance(run[k - 1].clock, r))
    BY <1>3, <2>1, <2>2, <2>3, AfterStep
  <2> QED BY <2>4, <2>5
<1>4. ASSUME NEW k \in f .. to, NEW m, k - 1 >= f => BaseFor(h, f, t, k - 1, m),
             After(s, h, f, f, m, k - 1, run[k - 1].clock)
      PROVE  Right(k)
  <2> DEFINE n == IF k = f \/ TakenAt(h, t, k) THEN k ELSE m
  <2>1. k > f => ~ResetAt(s, h, k)
    BY <1>0
  <2>2. After(s, h, f, IF k = f THEN k ELSE f, n, k, run[k].clock)
    <3>1. (k > f /\ ResetAt(s, h, k)) = FALSE
      BY <2>1
    <3> QED BY <1>3, <1>4, <3>1 DEF TakesAt
  <2>3. After(s, h, f, f, n, k, run[k].clock)
    <3>1. (IF k = f THEN k ELSE f) = f
      OBVIOUS
    <3> HIDE DEF n
    <3> QED BY <2>2, <3>1
  <2>4. BaseFor(h, f, t, k, n)
    <3>1. CASE k = f
      BY <1>0, <3>1 DEF BaseFor
    <3>2. CASE k # f /\ TakenAt(h, t, k)
      BY <1>0, <3>2 DEF BaseFor
    <3>3. CASE k # f /\ ~TakenAt(h, t, k)
      <4>1. BaseFor(h, f, t, k - 1, m)
        BY <1>0, <1>4, <3>3
      <4>2. n = m /\ m \in f .. k
        BY <1>0, <3>3, <4>1 DEF BaseFor
      <4>3. ASSUME NEW j \in m + 1 .. k PROVE ~TakenAt(h, t, j)
        <5>1. j = k \/ j \in m + 1 .. k - 1
          BY <1>0, <4>2
        <5> QED BY <3>3, <4>1, <5>1 DEF BaseFor
      <4> QED BY <4>1, <4>2, <4>3 DEF BaseFor
    <3> QED BY <3>1, <3>2, <3>3
  <2> HIDE DEF n
  <2> QED BY <2>3, <2>4
<1>5. ASSUME NEW k \in (f - 1) + 1 .. to, k - 1 \in T PROVE k \in T
  <2>1. k \in f .. to /\ k \in f - 1 .. to
    BY <1>0
  <2>2. PICK m : /\ k - 1 >= f => BaseFor(h, f, t, k - 1, m)
                 /\ After(s, h, f, f, m, k - 1, run[k - 1].clock)
    BY <1>5
  <2>3. Right(k)
    <3> HIDE DEF Right
    <3> QED BY <1>4, <2>1, <2>2
  <2> HIDE DEF Right
  <2> QED BY <2>1, <2>3
<1>6. f - 1 .. to \subseteq T
  <2>1. f - 1 \in Int /\ to \in Int
    BY <1>0
  <2> HIDE DEF T
  <2> QED BY <1>2, <1>5, <2>1, Along
<1>7. ASSUME NEW k \in f .. to
      PROVE  BankAt(s, h, f, t, k, run[k - 1], run[k])
  <2>1. k - 1 \in f - 1 .. to
    BY <1>0
  <2>2. PICK m : /\ k - 1 >= f => BaseFor(h, f, t, k - 1, m)
                 /\ After(s, h, f, f, m, k - 1, run[k - 1].clock)
    BY <1>6, <2>1
  <2>3. TakesAt(s, h, f, f, m, k, TakenAt(h, t, k), run[k])
    <3> HIDE DEF Right, T
    <3> QED BY <1>3, <2>2
  <2>4. k > f => ~ResetAt(s, h, k)
    BY <1>0
  <2>5. run[k].adv.changed = (k > f /\ ChangedAt(h, k))
    BY <2>3 DEF TakesAt
  <2>6. ASSUME k = f PROVE run[k].adv.dClock = 0 /\ run[k].adv.capped = FALSE
    <3>1. Lesser(0, s.clk.cap) = 0
      BY <1>0 DEF Lesser
    <3>2. (k > f) = FALSE
      BY <1>0, <2>6
    <3>3. run[k].adv.dClock = IF TakenAt(h, t, k) THEN Lesser(0, s.clk.cap) ELSE 0
      BY <2>3, <2>6 DEF TakesAt
    <3>4. run[k].adv.capped = FALSE
      BY <2>3, <3>2 DEF TakesAt
    <3> QED BY <3>1, <3>3, <3>4
  <2>7. ASSUME k > f, NEW n, BaseFor(h, f, t, k - 1, n)
        PROVE  /\ Steps(s, h, k) - Steps(s, h, n) \in Nat
               /\ run[k].adv.capped = (PastCapAt(s, h, k) \/
                    (TakenAt(h, t, k) /\ Steps(s, h, k) - Steps(s, h, n) > s.clk.cap))
               /\ run[k].adv.dClock = (IF TakenAt(h, t, k)
                    THEN Lesser(Steps(s, h, k) - Steps(s, h, n), s.clk.cap) ELSE 0)
    <3>1. n = m
      <4>1. k - 1 \in Nat /\ k - 1 >= f
        BY <1>0, <2>7
      <4> QED BY <1>0, <2>2, <2>7, <4>1, OneBase
    <3>2. k # f /\ (k > f) = TRUE
      BY <1>0, <2>7
    <3>3. TotalSince(s, h, m, k) = Steps(s, h, k) - Steps(s, h, n)
      BY <2>4, <2>7, <3>1 DEF TotalSince
    <3> QED BY <2>3, <3>2, <3>3 DEF TakesAt
  <2>8. ASSUME k > f PROVE C!Elapsed(run[k - 1].clock, h[k]) = PassedAt(s, h, k)
    <3>1. k - 1 >= f /\ k > 1
      BY <1>0, <2>8
    <3>2. /\ run[k - 1].clock.started /\ run[k - 1].clock.prev = h[k - 1].at
          /\ run[k - 1].clock.session = h[k - 1].session
      BY <2>2, <3>1 DEF After
    <3> QED BY <2>4, <2>8, <3>1, <3>2, ElapsedAt
  <2> QED BY <2>5, <2>6, <2>7, <2>8 DEF BankAt
<1> QED BY <1>7 DEF run

-----------------------------------------------------------------------------
(* What a row is handed by the stream's own clock, and by the clock begun   *)
(* after the row accepted before it.                                        *)

LaterOf(a, b) == IF a >= b THEN a ELSE b
BaseAt(s, h, k)  == LaterOf(LastAt(s, h, k), EpochAt(s, h, k))
FoldAt(s, h, k)  == LaterOf(LastAt(s, h, k) + 1, EpochAt(s, h, k))
TotalAt(s, h, k) == TotalSince(s, h, BaseAt(s, h, k - 1), k)
DAt(s, h, k)     == IF h[k].accept THEN Lesser(TotalAt(s, h, k), s.clk.cap) ELSE 0
GapAt(s, h, k)   == PastCapAt(s, h, k) \/ (h[k].accept /\ TotalAt(s, h, k) > s.clk.cap)
EventsAt(s, h, k) ==
  (IF ChangedAt(h, k) THEN {"session"} ELSE {}) \cup
  (IF ChangedAt(h, k) /\ ~ResetAt(s, h, k) THEN {"blend"} ELSE {}) \cup
  (IF GapAt(s, h, k) THEN {"gap"} ELSE {})
Follows(s, h, k) == LastAt(s, h, k - 1) = k - 1
FreshAt(s, h, k) ==
  IF ~s.drift \/ ~h[k].accept \/ Follows(s, h, k) THEN 0
  ELSE Lesser(TotalSince(s, h, FoldAt(s, h, k - 1), k), s.clk.cap)
ElapsedBy(s, h, k) ==
  IF h[k].accept THEN Time(s, h, k) - Time(s, h, EpochAt(s, h, k)) ELSE 0
PlanOf(s, h, k) ==
  [kind |-> "row", id |-> k, row |-> h[k], reset |-> ResetAt(s, h, k),
   events |-> EventsAt(s, h, k), d |-> DAt(s, h, k), fresh |-> FreshAt(s, h, k),
   place |-> ElapsedBy(s, h, k)]

LEMMA BaseIs ==
  ASSUME NEW s \in Settings, NEW h \in Streams(s), NEW k \in 1 .. Len(h)
  PROVE  /\ BaseAt(s, h, k) \in EpochAt(s, h, k) .. k
         /\ BaseAt(s, h, k) = IF k = 1 \/ ResetAt(s, h, k) \/ h[k].accept THEN k
                              ELSE BaseAt(s, h, k - 1)
         /\ EpochAt(s, h, k) = IF k = 1 \/ ResetAt(s, h, k) THEN k
                               ELSE EpochAt(s, h, k - 1)
         /\ EpochAt(s, h, k) \in 1 .. k
<1>0. Len(h) \in Nat /\ k \in 0 .. Len(h) /\ k - 1 \in 0 .. Len(h) /\ k >= 1
  <2>1. Len(h) \in Nat
    BY DEF Streams
  <2> QED BY <2>1
<1>1. /\ EpochAt(s, h, k) = IF ResetAt(s, h, k) THEN k ELSE EpochAt(s, h, k - 1)
      /\ LastAt(s, h, k) = IF h[k].accept THEN k ELSE LastAt(s, h, k - 1)
  BY MarkNext
<1>2. /\ EpochAt(s, h, k) \in 1 .. k /\ LastAt(s, h, k) \in 0 .. k
      /\ LastAt(s, h, k - 1) \in 0 .. k - 1 /\ EpochAt(s, h, k - 1) \in Nat
      /\ EpochAt(s, h, k - 1) >= 1
  BY <1>0, EpochIs, LastIs
<1>3. EpochAt(s, h, k) = IF k = 1 \/ ResetAt(s, h, k) THEN k ELSE EpochAt(s, h, k - 1)
  <2>1. CASE k = 1
    BY <1>2, <2>1
  <2>2. CASE k # 1
    BY <1>1, <2>2
  <2> QED BY <2>1, <2>2
<1>4. BaseAt(s, h, k) \in EpochAt(s, h, k) .. k
  BY <1>0, <1>2 DEF BaseAt, LaterOf
<1>5. BaseAt(s, h, k) = IF k = 1 \/ ResetAt(s, h, k) \/ h[k].accept THEN k
                        ELSE BaseAt(s, h, k - 1)
  <2>1. CASE k = 1 \/ ResetAt(s, h, k)
    <3>1. EpochAt(s, h, k) = k
      BY <1>3, <2>1
    <3> QED BY <1>4, <2>1, <3>1
  <2>2. CASE ~(k = 1 \/ ResetAt(s, h, k)) /\ h[k].accept
    <3>1. LastAt(s, h, k) = k
      BY <1>1, <2>2
    <3> QED BY <1>0, <1>2, <2>2, <3>1 DEF BaseAt, LaterOf
  <2>3. CASE ~(k = 1 \/ ResetAt(s, h, k)) /\ ~h[k].accept
    <3>1. LastAt(s, h, k) = LastAt(s, h, k - 1) /\ EpochAt(s, h, k) = EpochAt(s, h, k - 1)
      BY <1>1, <1>3, <2>3
    <3> QED BY <2>3, <3>1 DEF BaseAt
  <2> QED BY <2>1, <2>2, <2>3
<1> QED BY <1>2, <1>3, <1>4, <1>5

\* The stream's own clock after k rows, and the one begun after the row last
\* accepted.
StreamClock(s, h, k, c) == After(s, h, 1, EpochAt(s, h, k), BaseAt(s, h, k), k, c)
FoldClock(s, h, k, f) ==
  /\ Len(f) <= 1
  /\ ~s.drift \/ LastAt(s, h, k) = k => f = <<>>
  /\ s.drift /\ LastAt(s, h, k) # k =>
       /\ f # <<>>
       /\ After(s, h, LastAt(s, h, k) + 1, FoldAt(s, h, k), FoldAt(s, h, k), k, f[1])

LEMMA StreamClockStep ==
  ASSUME setting \in Settings, NEW h \in Streams(setting), NEW k \in 1 .. Len(h),
         NEW c, StreamClock(setting, h, k - 1, c)
  PROVE  LET out == C!Advance(c, h[k])
         IN  /\ StreamClock(setting, h, k, out.clock)
             /\ out.adv.reset = ResetAt(setting, h, k)
             /\ out.adv.changed = ChangedAt(h, k)
             /\ out.adv.capped = GapAt(setting, h, k)
             /\ out.adv.dClock = DAt(setting, h, k)
             /\ out.adv.stamp.elapsedNs = ElapsedBy(setting, h, k)
<1> DEFINE s == setting
           out == C!Advance(c, h[k])
           x == h[k].accept
           e == EpochAt(s, h, k - 1)
           b == BaseAt(s, h, k - 1)
<1>0. /\ Len(h) \in Nat /\ k >= 1 /\ k \in Nat /\ k \in 0 .. Len(h)
      /\ 1 \in 1 .. Len(h) /\ s.clk.cap \in Nat /\ s.clk.cap > 0
      /\ x \in BOOLEAN
  <2>1. Len(h) \in Nat
    BY DEF Streams
  <2> QED BY <2>1, SettingIs, RowIs
<1>1. TakesAt(s, h, 1, e, b, k, x, out)
  <2>1. After(s, h, 1, e, b, k - 1, c)
    BY DEF StreamClock
  <2> HIDE DEF e, b
  <2> QED BY <1>0, <2>1, AfterStep
<1>2. /\ EpochAt(s, h, k) = IF k = 1 \/ (k > 1 /\ ResetAt(s, h, k)) THEN k ELSE e
      /\ BaseAt(s, h, k) = IF k = 1 \/ (k > 1 /\ ResetAt(s, h, k)) \/ x THEN k ELSE b
  BY <1>0, BaseIs
<1>3. StreamClock(s, h, k, out.clock)
  BY <1>1, <1>2 DEF StreamClock, TakesAt
<1>4. out.adv.reset = ResetAt(s, h, k) /\ out.adv.changed = ChangedAt(h, k)
  <2>1. /\ out.adv.reset = (k > 1 /\ ResetAt(s, h, k))
        /\ out.adv.changed = (k > 1 /\ ChangedAt(h, k))
    BY <1>1 DEF TakesAt
  <2> HIDE DEF out
  <2> QED BY <2>1 DEF ResetAt, ChangedAt
<1>5. (IF k = 1 THEN 0 ELSE TotalSince(s, h, b, k)) = TotalAt(s, h, k)
  <2>1. CASE k = 1
    <3>1. Steps(s, h, 1) = 0
      <4>1. Steps(s, h, 1) = Steps(s, h, 1 - 1) + StepAt(s, h, 1)
        BY <1>0, MarkNext
      <4>2. Steps(s, h, 0) = 0 /\ StepAt(s, h, 1) = 0
        BY MarkZero DEF StepAt
      <4> QED BY <4>1, <4>2
    <3>2. b = 1
      BY <2>1, MarkZero DEF BaseAt, LaterOf
    <3>3. TotalSince(s, h, b, k) = 0
      BY <2>1, <3>1, <3>2 DEF TotalSince
    <3> QED BY <2>1, <3>3 DEF TotalAt
  <2>2. CASE k # 1
    BY <2>2 DEF TotalAt
  <2> QED BY <2>1, <2>2
<1>6. out.adv.dClock = DAt(s, h, k) /\ TotalAt(s, h, k) \in Nat
  <2>1. /\ out.adv.dClock =
             (IF x THEN Lesser(IF k = 1 THEN 0 ELSE TotalSince(s, h, b, k), s.clk.cap) ELSE 0)
        /\ (IF k = 1 THEN 0 ELSE TotalSince(s, h, b, k)) \in Nat
    BY <1>1 DEF TakesAt
  <2> HIDE DEF out, b
  <2> QED BY <1>5, <2>1 DEF DAt
<1>7. out.adv.capped = GapAt(s, h, k)
  <2>1. out.adv.capped = (k > 1 /\ (PastCapAt(s, h, k) \/
                            (x /\ (IF k = 1 THEN 0 ELSE TotalSince(s, h, b, k)) > s.clk.cap)))
    BY <1>1 DEF TakesAt
  <2>2. out.adv.capped = (k > 1 /\ (PastCapAt(s, h, k) \/ (x /\ TotalAt(s, h, k) > s.clk.cap)))
    BY <1>5, <2>1
  <2>3. CASE k = 1
    <3>1. TotalAt(s, h, k) = 0
      BY <1>5, <2>3
    <3>2. ~(TotalAt(s, h, k) > s.clk.cap)
      BY <1>0, <3>1
    <3>3. ~PastCapAt(s, h, k)
      BY <2>3 DEF PastCapAt
    <3>4. (k > 1) = FALSE
      BY <2>3
    <3> HIDE DEF out
    <3> QED BY <2>2, <3>2, <3>3, <3>4 DEF GapAt
  <2>4. CASE k # 1
    <3>1. (k > 1) = TRUE
      BY <1>0, <2>4
    <3> HIDE DEF out
    <3> QED BY <2>2, <3>1 DEF GapAt
  <2> QED BY <2>3, <2>4
<1>8. out.adv.stamp.elapsedNs = ElapsedBy(s, h, k)
  BY <1>1, <1>2 DEF TakesAt, ElapsedBy
<1> QED BY <1>3, <1>4, <1>6, <1>7, <1>8

LEMMA FoldClockStep ==
  ASSUME setting \in Settings, NEW h \in Streams(setting), NEW k \in 1 .. Len(h),
         NEW f, FoldClock(setting, h, k - 1, f)
  PROVE  /\ FreshStep(f, h[k]) = FreshAt(setting, h, k)
         /\ FoldClock(setting, h, k,
              IF ~setting.drift \/ h[k].accept THEN <<>> ELSE <<Fold(f, h[k]).clock>>)
<1> DEFINE s == setting
           from == LastAt(s, h, k - 1) + 1
           x == h[k].accept
<1>0. /\ Len(h) \in Nat /\ k \in Nat /\ k >= 1 /\ k - 1 \in 0 .. Len(h) /\ k \in 0 .. Len(h)
      /\ s.clk.cap \in Nat /\ s.clk.cap > 0 /\ x \in BOOLEAN /\ s.drift \in BOOLEAN
  <2>1. Len(h) \in Nat
    BY DEF Streams
  <2> QED BY <2>1, SettingIs, RowIs
<1>1. /\ LastAt(s, h, k - 1) \in 0 .. k - 1
      /\ EpochAt(s, h, k - 1) >= 1 /\ EpochAt(s, h, k - 1) \in Nat
      /\ k > 1 => EpochAt(s, h, k - 1) <= k - 1
      /\ k = 1 => EpochAt(s, h, k - 1) = 1
      /\ LastAt(s, h, k) = IF x THEN k ELSE LastAt(s, h, k - 1)
      /\ EpochAt(s, h, k) = IF k = 1 \/ ResetAt(s, h, k) THEN k ELSE EpochAt(s, h, k - 1)
  BY <1>0, LastIs, EpochIs, MarkNext, BaseIs
<1>2. CASE ~s.drift
  <2>1. f = <<>>
    BY <1>2 DEF FoldClock
  <2>2. FreshStep(f, h[k]) = 0 /\ FreshAt(s, h, k) = 0
    BY <1>2, <2>1 DEF FreshStep, FreshAt
  <2> QED BY <1>2, <2>2 DEF FoldClock
<1>3. CASE s.drift
  <2> DEFINE c == IF f = <<>> THEN C!New ELSE f[1]
             b == IF f = <<>> THEN k ELSE FoldAt(s, h, k - 1)
  <2>1. f = <<>> <=> LastAt(s, h, k - 1) = k - 1
    BY <1>3 DEF FoldClock
  <2>2. After(s, h, from, b, b, k - 1, c)
    <3>1. CASE f = <<>>
      BY <1>0, <1>1, <2>1, <3>1, NewIsClock DEF After
    <3>2. CASE f # <<>>
      BY <1>3, <2>1, <3>2 DEF FoldClock
    <3> QED BY <3>1, <3>2
  <2>3. from \in 1 .. Len(h) /\ k \in from .. Len(h)
    BY <1>0, <1>1
  <2>4. Fold(f, h[k]) = C!Advance(c, h[k])
    BY DEF Fold
  <2> DEFINE out == Fold(f, h[k])
  <2>5. TakesAt(s, h, from, b, b, k, x, out)
    <3> HIDE DEF from, b, c
    <3> QED BY <1>0, <2>2, <2>3, <2>4, AfterStep
  <2> HIDE DEF out
  <2>6. f # <<>> => k # from
    BY <1>0, <1>1, <2>1
  <2>7. FreshStep(f, h[k]) = FreshAt(s, h, k)
    <3>1. CASE ~x \/ f = <<>>
      BY <2>1, <3>1 DEF FreshStep, FreshAt, Follows
    <3>2. CASE x /\ f # <<>>
      <4>1. out.adv.dClock = Lesser(TotalSince(s, h, b, k), s.clk.cap)
        BY <2>5, <2>6, <3>2 DEF TakesAt
      <4>2. b = FoldAt(s, h, k - 1)
        BY <3>2
      <4>3. FreshStep(f, h[k]) = out.adv.dClock
        BY <3>2 DEF FreshStep, out
      <4> HIDE DEF b
      <4> QED BY <1>3, <2>1, <3>2, <4>1, <4>2, <4>3 DEF FreshAt, Follows
    <3> QED BY <3>1, <3>2
  <2>8. FoldClock(s, h, k, IF ~s.drift \/ x THEN <<>> ELSE <<out.clock>>)
    <3>1. CASE x
      BY <1>1, <3>1 DEF FoldClock
    <3>2. CASE ~x
      <4>1. LastAt(s, h, k) = LastAt(s, h, k - 1) /\ LastAt(s, h, k) # k
            /\ LastAt(s, h, k) + 1 = from
        BY <1>0, <1>1, <3>2
      <4>2. After(s, h, from, IF k = from \/ (k > from /\ ResetAt(s, h, k)) THEN k ELSE b,
                  IF k = from \/ (k > from /\ ResetAt(s, h, k)) \/ x THEN k ELSE b, k, out.clock)
        BY <2>5 DEF TakesAt
      <4>3. (IF k = from \/ (k > from /\ ResetAt(s, h, k)) THEN k ELSE b) = FoldAt(s, h, k)
        <5>1. CASE k = from
          <6>1. EpochAt(s, h, k) <= k
            BY <1>0, <1>1
          <6> QED BY <1>0, <1>1, <4>1, <5>1, <6>1 DEF FoldAt, LaterOf
        <5>2. CASE k # from /\ ResetAt(s, h, k)
          <6>1. k > from
            BY <1>0, <1>1, <5>2
          <6>2. EpochAt(s, h, k) = k
            BY <1>1, <5>2
          <6>3. FoldAt(s, h, k) = k
            <7>1. from \in Nat /\ from < k
              BY <1>0, <1>1, <6>1
            <7>2. ~(from >= k)
              <8> HIDE DEF from
              <8> QED BY <1>0, <7>1
            <7>3. FoldAt(s, h, k) = LaterOf(from, k)
              BY <4>1, <6>2 DEF FoldAt
            <7> HIDE DEF from
            <7> QED BY <7>2, <7>3 DEF LaterOf
          <6> QED BY <5>2, <6>1, <6>3
        <5>3. CASE k # from /\ ~ResetAt(s, h, k)
          <6>1. f # <<>> /\ k # 1
            BY <1>0, <1>1, <2>1, <5>3
          <6>2. EpochAt(s, h, k) = EpochAt(s, h, k - 1)
            BY <1>1, <5>3, <6>1
          <6>3. FoldAt(s, h, k) = FoldAt(s, h, k - 1)
            BY <4>1, <6>2 DEF FoldAt
          <6> QED BY <5>3, <6>1, <6>3
        <5> QED BY <5>1, <5>2, <5>3
      <4>4. After(s, h, from, FoldAt(s, h, k), FoldAt(s, h, k), k, out.clock)
        <5> HIDE DEF from, b
        <5> QED BY <3>2, <4>2, <4>3
      <4>5. Len(<<out.clock>>) = 1 /\ <<out.clock>>[1] = out.clock /\ <<out.clock>> # <<>>
        OBVIOUS
      <4> HIDE DEF from, b
      <4> QED BY <1>3, <3>2, <4>1, <4>4, <4>5 DEF FoldClock
    <3> QED BY <3>1, <3>2
  <2> QED BY <2>7, <2>8 DEF out
<1> QED BY <1>2, <1>3

-----------------------------------------------------------------------------
(* The windows open at a row: the accepted rows since the clock last        *)
(* started over, but for the first ones, as many as windows were closed.    *)

Rank(s, h, j, n) == Count(s, h, j) - Count(s, h, EpochAt(s, h, n) - 1)
Closed(s, h, n) == IF n = 0 THEN 0 ELSE Shut(s, h, n) - Shut(s, h, EpochAt(s, h, n))

\* Row j's window is closed by row n.
ClosesAt(s, h, j, n) ==
  /\ Frm(s) /\ n > 1 /\ ~ResetAt(s, h, n)
  /\ j \in EpochAt(s, h, n) .. n - 1 /\ h[j].accept
  /\ Rank(s, h, j, n) \in Closed(s, h, n - 1) + 1 .. Closed(s, h, n)

OpenIs(s, h, n, o) ==
  /\ ~Frm(s) => o = <<>>
  /\ Frm(s) =>
       /\ o \in Seq(1 .. n) /\ Closed(s, h, n) \in Nat
       /\ Len(o) = Rank(s, h, n, n) - Closed(s, h, n)
       /\ \A i \in 1 .. Len(o) :
            /\ o[i] \in EpochAt(s, h, n) .. n /\ h[o[i]].accept
            /\ Rank(s, h, o[i], n) = Closed(s, h, n) + i

LEMMA SameRank ==
  ASSUME NEW s \in Settings, NEW h \in Streams(s),
         NEW a \in 1 .. Len(h), NEW b \in 1 .. Len(h), h[a].accept, h[b].accept,
         Count(s, h, a) = Count(s, h, b)
  PROVE  a = b
<1>0. Len(h) \in Nat
  BY DEF Streams
<1>1. ASSUME NEW i \in 1 .. Len(h), NEW j \in 1 .. Len(h), h[j].accept, i < j
      PROVE  Count(s, h, i) < Count(s, h, j)
  <2>1. i \in 0 .. Len(h) /\ j - 1 \in i .. Len(h) /\ j \in 0 .. Len(h) /\ j - 1 \in 0 .. Len(h)
    BY <1>0, <1>1
  <2>2. Count(s, h, i) <= Count(s, h, j - 1)
    BY <2>1, MarksRise
  <2>3. Count(s, h, j) = Count(s, h, j - 1) + 1
    BY <1>1, MarkNext DEF One
  <2>4. Count(s, h, i) \in Nat /\ Count(s, h, j - 1) \in Nat
    BY <2>1, MarkIs
  <2> QED BY <2>2, <2>3, <2>4
<1>2. ~(a < b)
  <2> SUFFICES ASSUME a < b PROVE FALSE
    OBVIOUS
  <2>1. Count(s, h, a) < Count(s, h, b)
    BY <1>1
  <2>2. Count(s, h, a) \in Nat
    BY <1>0, MarkIs
  <2> QED BY <2>1, <2>2
<1>3. ~(b < a)
  <2> SUFFICES ASSUME b < a PROVE FALSE
    OBVIOUS
  <2>1. Count(s, h, b) < Count(s, h, a)
    BY <1>1
  <2>2. Count(s, h, a) \in Nat
    BY <1>0, MarkIs
  <2> QED BY <2>1, <2>2
<1> QED BY <1>0, <1>2, <1>3

LEMMA RanksOf ==
  ASSUME NEW s \in Settings, NEW h \in Streams(s), NEW n \in 1 .. Len(h)
  PROVE  /\ n > 1 /\ ~ResetAt(s, h, n) =>
              /\ EpochAt(s, h, n) = EpochAt(s, h, n - 1)
              /\ \A j : Rank(s, h, j, n) = Rank(s, h, j, n - 1)
              /\ Closed(s, h, n) = Closed(s, h, n - 1) + h[n].closes
              /\ Rank(s, h, n, n) = Rank(s, h, n - 1, n - 1) + One(h[n].accept)
         /\ n = 1 \/ ResetAt(s, h, n) =>
              /\ EpochAt(s, h, n) = n /\ Closed(s, h, n) = 0
              /\ Rank(s, h, n, n) = One(h[n].accept)
         /\ Rank(s, h, n, n) \in Nat /\ Closed(s, h, n) \in Nat
<1>0. /\ Len(h) \in Nat /\ n \in 0 .. Len(h) /\ n - 1 \in 0 .. Len(h)
      /\ h[n].closes \in Nat /\ One(h[n].accept) \in 0 .. 1
  <2>1. Len(h) \in Nat
    BY DEF Streams
  <2> QED BY <2>1, RowIs DEF One
<1>1. /\ EpochAt(s, h, n) = IF n = 1 \/ ResetAt(s, h, n) THEN n ELSE EpochAt(s, h, n - 1)
      /\ EpochAt(s, h, n) \in 1 .. n
  BY BaseIs
<1>2. /\ Count(s, h, n) = Count(s, h, n - 1) + One(h[n].accept)
      /\ Shut(s, h, n) = Shut(s, h, n - 1) + h[n].closes
  BY MarkNext
<1> DEFINE e == EpochAt(s, h, n)
<1>3. /\ Count(s, h, n) \in Nat /\ Count(s, h, n - 1) \in Nat
      /\ Shut(s, h, n) \in Nat /\ Shut(s, h, n - 1) \in Nat
      /\ Count(s, h, e - 1) \in Nat /\ Shut(s, h, e) \in Nat
      /\ Count(s, h, e - 1) <= Count(s, h, n) /\ Shut(s, h, e) <= Shut(s, h, n)
  <2>1. /\ e \in 0 .. Len(h) /\ e - 1 \in 0 .. Len(h) /\ n \in e .. Len(h)
        /\ n \in e - 1 .. Len(h)
    BY <1>0, <1>1
  <2> HIDE DEF e
  <2> QED BY <1>0, <2>1, MarkIs, MarksRise
<1>4. Rank(s, h, n, n) \in Nat /\ Closed(s, h, n) \in Nat
  <2>1. n # 0
    OBVIOUS
  <2>2. \A a, b \in Nat : a <= b => b - a \in Nat
    OBVIOUS
  <2> QED BY <1>3, <2>1, <2>2 DEF Rank, Closed
<1>5. ASSUME n > 1, ~ResetAt(s, h, n)
      PROVE  /\ EpochAt(s, h, n) = EpochAt(s, h, n - 1)
             /\ \A j : Rank(s, h, j, n) = Rank(s, h, j, n - 1)
             /\ Closed(s, h, n) = Closed(s, h, n - 1) + h[n].closes
             /\ Rank(s, h, n, n) = Rank(s, h, n - 1, n - 1) + One(h[n].accept)
  <2>1. e = EpochAt(s, h, n - 1) /\ n # 0 /\ n - 1 # 0
    BY <1>1, <1>5
  <2>2. \A j : Rank(s, h, j, n) = Rank(s, h, j, n - 1)
    BY <2>1 DEF Rank
  <2>3. /\ Closed(s, h, n) = Shut(s, h, n) - Shut(s, h, e)
        /\ Closed(s, h, n - 1) = Shut(s, h, n - 1) - Shut(s, h, e)
    BY <2>1 DEF Closed
  <2>4. /\ Rank(s, h, n, n) = Count(s, h, n) - Count(s, h, e - 1)
        /\ Rank(s, h, n - 1, n - 1) = Count(s, h, n - 1) - Count(s, h, e - 1)
    BY <2>1 DEF Rank
  <2>5. \A a, b, c, d \in Nat : a = b + d => a - c = (b - c) + d
    OBVIOUS
  <2>6. One(h[n].accept) \in Nat
    BY <1>0
  <2> HIDE DEF e
  <2>7. Closed(s, h, n) = Closed(s, h, n - 1) + h[n].closes
    BY <1>0, <1>2, <1>3, <2>3, <2>5
  <2>8. Rank(s, h, n, n) = Rank(s, h, n - 1, n - 1) + One(h[n].accept)
    BY <1>2, <1>3, <2>4, <2>5, <2>6
  <2> QED BY <2>1, <2>2, <2>7, <2>8 DEF e
<1>6. ASSUME n = 1 \/ ResetAt(s, h, n)
      PROVE  /\ EpochAt(s, h, n) = n /\ Closed(s, h, n) = 0
             /\ Rank(s, h, n, n) = One(h[n].accept)
  <2>1. EpochAt(s, h, n) = n
    BY <1>1, <1>6
  <2>2. Closed(s, h, n) = 0
    BY <1>3, <2>1 DEF Closed
  <2>3. Rank(s, h, n, n) = Count(s, h, n) - Count(s, h, n - 1)
    BY <2>1 DEF Rank
  <2>4. \A a, b \in Nat : \A d \in 0 .. 1 : a = b + d => a - b = d
    OBVIOUS
  <2>5. Rank(s, h, n, n) = One(h[n].accept)
    BY <1>0, <1>2, <1>3, <2>3, <2>4
  <2> QED BY <2>1, <2>2, <2>5
<1> QED BY <1>4, <1>5, <1>6

LEMMA OpenStep ==
  ASSUME setting \in Settings, NEW h \in Streams(setting), NEW k \in 1 .. Len(h),
         NEW st, OpenIs(setting, h, k - 1, st.open),
         Formulas => h[k].closes <= Len(st.open),
         NEW adv, adv.reset = ResetAt(setting, h, k)
  PROVE  /\ OpenIs(setting, h, k, StillOpen(st, h[k], adv, k))
         /\ Formulas => \A j : j \in ToSet(Closing(st, h[k], adv)) <=> ClosesAt(setting, h, j, k)
<1> DEFINE s == setting
           o == st.open
           n == h[k].closes
           x == h[k].accept
<1>0. /\ Len(h) \in Nat /\ k \in Nat /\ k \in 0 .. Len(h) /\ k - 1 \in 0 .. Len(h)
      /\ n \in Nat /\ x \in BOOLEAN /\ h[k] \in s.rows
  <2>1. Len(h) \in Nat
    BY DEF Streams
  <2> QED BY <2>1, RowIs
<1>1. Formulas <=> Frm(s)
  BY DEF Formulas, Frm
<1>2. CASE ~Frm(s)
  <2>1. o = <<>> /\ n = 0
    BY <1>0, <1>2, SettingIs DEF OpenIs
  <2>2. SubSeq(o, n + 1, Len(o)) = <<>>
    BY <2>1
  <2>3. StillOpen(st, h[k], adv, k) = <<>>
    BY <1>1, <1>2, <2>2 DEF StillOpen
  <2> QED BY <1>1, <1>2, <2>3 DEF OpenIs
<1>3. CASE Frm(s)
  <2>0. /\ o \in Seq(1 .. k - 1) /\ Len(o) \in Nat /\ n <= Len(o)
        /\ Closed(s, h, k - 1) \in Nat
        /\ Len(o) = Rank(s, h, k - 1, k - 1) - Closed(s, h, k - 1)
        /\ \A i \in 1 .. Len(o) :
             /\ o[i] \in EpochAt(s, h, k - 1) .. k - 1 /\ h[o[i]].accept
             /\ Rank(s, h, o[i], k - 1) = Closed(s, h, k - 1) + i
    BY <1>1, <1>3 DEF OpenIs
  <2> DEFINE left == IF adv.reset THEN <<>> ELSE SubSeq(o, n + 1, Len(o))
  <2>1. CASE k = 1 \/ ResetAt(s, h, k)
    <3>1. EpochAt(s, h, k) = k /\ Closed(s, h, k) = 0 /\ Rank(s, h, k, k) = One(x)
      BY <2>1, RanksOf
    <3>2. k = 1 => o = <<>>
      <4>1. ASSUME k = 1 PROVE Len(o) = 0
        <5>1. k - 1 = 0
          BY <4>1
        <5>2. Closed(s, h, 0) = 0 /\ Rank(s, h, 0, 0) = 0
          <6>1. EpochAt(s, h, 0) = 1 /\ Count(s, h, 0) = 0
            BY MarkZero
          <6>2. Rank(s, h, 0, 0) = Count(s, h, 0) - Count(s, h, 1 - 1)
            BY <6>1 DEF Rank
          <6>3. Rank(s, h, 0, 0) = 0
            BY <6>1, <6>2
          <6> QED BY <6>3 DEF Closed
        <5> QED BY <2>0, <5>1, <5>2
      <4> QED BY <2>0, <4>1, EmptySeq
    <3>3. left = <<>>
      <4>1. CASE adv.reset
        BY <4>1
      <4>2. CASE ~adv.reset
        <5>1. o = <<>> /\ n = 0
          BY <1>0, <2>0, <2>1, <3>2, <4>2
        <5> QED BY <4>2, <5>1
      <4> QED BY <4>1, <4>2
    <3>4. StillOpen(st, h[k], adv, k) = IF x THEN <<k>> ELSE <<>>
      <4>1. StillOpen(st, h[k], adv, k) = IF x THEN Append(left, k) ELSE left
        BY <1>1, <1>3 DEF StillOpen
      <4> HIDE DEF left
      <4> QED BY <3>3, <4>1
    <3>5. OpenIs(s, h, k, StillOpen(st, h[k], adv, k))
      <4>1. CASE x
        <5> DEFINE q == <<k>>
        <5>1. q \in Seq(1 .. k) /\ Len(q) = 1 /\ q[1] = k
          BY <1>0
        <5>2. Rank(s, h, k, k) = 1
          BY <3>1, <4>1 DEF One
        <5> HIDE DEF q
        <5>3. \A i \in 1 .. Len(q) : q[i] = k /\ i = 1
          BY <5>1
        <5>5. /\ Len(q) = Rank(s, h, k, k) - Closed(s, h, k) /\ Closed(s, h, k) \in Nat
              /\ Closed(s, h, k) + 1 = 1 /\ k \in k .. k
          BY <1>0, <3>1, <5>1, <5>2
        <5>4. OpenIs(s, h, k, q)
          BY <1>3, <3>1, <4>1, <5>1, <5>2, <5>3, <5>5 DEF OpenIs
        <5> QED BY <3>4, <4>1, <5>4 DEF q
      <4>2. CASE ~x
        <5> DEFINE q == <<>>
        <5>1. q \in Seq(1 .. k) /\ Len(q) = 0
          OBVIOUS
        <5>2. Rank(s, h, k, k) = 0
          BY <3>1, <4>2 DEF One
        <5> HIDE DEF q
        <5>3. \A i \in 1 .. Len(q) : FALSE
          BY <5>1
        <5>4. OpenIs(s, h, k, q)
          BY <1>3, <3>1, <5>1, <5>2, <5>3 DEF OpenIs
        <5> QED BY <3>4, <4>2, <5>4 DEF q
      <4> QED BY <4>1, <4>2
    <3>6. Closing(st, h[k], adv) = <<>>
      <4>1. CASE adv.reset
        BY <4>1 DEF Closing
      <4>2. CASE ~adv.reset
        <5>1. o = <<>> /\ n = 0
          BY <1>0, <2>0, <2>1, <3>2, <4>2
        <5>2. SubSeq(<<>>, 1, 0) = <<>>
          OBVIOUS
        <5> QED BY <4>2, <5>1, <5>2 DEF Closing
      <4> QED BY <4>1, <4>2
    <3>7. ToSet(<<>>) = {}
      BY DEF ToSet
    <3>8. \A j : ~ClosesAt(s, h, j, k)
      BY <2>1 DEF ClosesAt
    <3> QED BY <3>5, <3>6, <3>7, <3>8
  <2>2. CASE k > 1 /\ ~ResetAt(s, h, k)
    <3>1. /\ EpochAt(s, h, k) = EpochAt(s, h, k - 1)
          /\ \A j : Rank(s, h, j, k) = Rank(s, h, j, k - 1)
          /\ Closed(s, h, k) = Closed(s, h, k - 1) + n
          /\ Rank(s, h, k, k) = Rank(s, h, k - 1, k - 1) + One(x)
          /\ Rank(s, h, k, k) \in Nat /\ Closed(s, h, k) \in Nat
          /\ Rank(s, h, k - 1, k - 1) \in Nat
      <4>1. k - 1 \in 1 .. Len(h)
        BY <1>0, <2>2
      <4> QED BY <2>2, <4>1, RanksOf
    <3>2. EpochAt(s, h, k) \in 1 .. k
      BY BaseIs
    <3>3. left = SubSeq(o, n + 1, Len(o))
      BY <2>2
    <3> DEFINE c == Closed(s, h, k - 1)
    <3>4. /\ left \in Seq(1 .. k - 1) /\ Len(left) = Len(o) - n
          /\ \A i \in 1 .. Len(left) : left[i] = o[n + i]
      <4>1. n \in 0 .. Len(o)
        BY <1>0, <2>0
      <4>2. /\ SubSeq(o, n + 1, Len(o)) \in Seq(1 .. k - 1)
            /\ Len(SubSeq(o, n + 1, Len(o))) = Len(o) - n
            /\ \A i \in 1 .. Len(o) - n : SubSeq(o, n + 1, Len(o))[i] = o[n + i]
        BY <2>0, <4>1, BackOf
      <4> HIDE DEF left
      <4> QED BY <3>3, <4>2
    <3> HIDE DEF left
    <3>5. /\ Len(left) \in Nat
          /\ \A i \in 1 .. Len(left) :
               /\ left[i] \in EpochAt(s, h, k) .. k - 1 /\ h[left[i]].accept
               /\ Rank(s, h, left[i], k) = Closed(s, h, k) + i
      <4>1. Len(left) \in Nat
        BY <1>0, <2>0, <3>4
      <4>2. ASSUME NEW i \in 1 .. Len(left)
            PROVE  /\ left[i] \in EpochAt(s, h, k) .. k - 1 /\ h[left[i]].accept
                   /\ Rank(s, h, left[i], k) = Closed(s, h, k) + i
        <5>0. \A a, b \in Nat : \A j \in 1 .. a - b : b + j \in 1 .. a
          OBVIOUS
        <5>00. i \in 1 .. Len(o) - n
          BY <3>4
        <5>1. n + i \in 1 .. Len(o) /\ left[i] = o[n + i]
          BY <1>0, <2>0, <3>4, <5>0, <5>00
        <5>2. /\ o[n + i] \in EpochAt(s, h, k - 1) .. k - 1 /\ h[o[n + i]].accept
              /\ Rank(s, h, o[n + i], k - 1) = c + (n + i)
          BY <2>0, <5>1
        <5>3. c + (n + i) = (c + n) + i
          BY <1>0, <2>0
        <5> QED BY <3>1, <5>1, <5>2, <5>3
      <4> QED BY <4>1, <4>2
    <3>6. StillOpen(st, h[k], adv, k) = IF x THEN Append(left, k) ELSE left
      BY <1>1, <1>3 DEF StillOpen, left
    <3>7. OpenIs(s, h, k, StillOpen(st, h[k], adv, k))
      <4>1. CASE ~x
        <5>1. Len(left) = Rank(s, h, k, k) - Closed(s, h, k)
          <6>1. Rank(s, h, k, k) = Rank(s, h, k - 1, k - 1) + 0
            BY <3>1, <4>1 DEF One
          <6> QED BY <1>0, <2>0, <3>1, <3>4, <6>1
        <5>2. left \in Seq(1 .. k)
          <6>1. \A i \in 1 .. Len(left) : left[i] \in 1 .. k
            BY <1>0, <3>2, <3>5
          <6> QED BY <3>4, <6>1
        <5>3. \A i \in 1 .. Len(left) : left[i] \in EpochAt(s, h, k) .. k
          BY <1>0, <3>2, <3>5
        <5>4. OpenIs(s, h, k, left)
          BY <1>3, <3>1, <3>5, <5>1, <5>2, <5>3 DEF OpenIs
        <5> QED BY <3>6, <4>1, <5>4
      <4>2. CASE x
        <5> DEFINE q == Append(left, k)
        <5>1. /\ q \in Seq(1 .. k) /\ Len(q) = Len(left) + 1 /\ q[Len(left) + 1] = k
              /\ \A i \in 1 .. Len(left) : q[i] = left[i]
          <6>1. left \in Seq(1 .. k) /\ k \in 1 .. k
            <7>1. \A i \in 1 .. Len(left) : left[i] \in 1 .. k
              BY <1>0, <3>2, <3>5
            <7> QED BY <1>0, <3>4, <7>1
          <6> QED BY <3>5, <6>1, AppendProperties
        <5> HIDE DEF q
        <5>2. Len(q) = Rank(s, h, k, k) - Closed(s, h, k)
          <6>1. Rank(s, h, k, k) = Rank(s, h, k - 1, k - 1) + 1
            BY <3>1, <4>2 DEF One
          <6>2. \A a, b, c0, d \in Nat : a = b - c0 => (a - d) + 1 = (b + 1) - (c0 + d)
            OBVIOUS
          <6>3. (Len(o) - n) + 1
                  = (Rank(s, h, k - 1, k - 1) + 1) - (Closed(s, h, k - 1) + n)
            <7>1. /\ Len(o) \in Nat /\ n \in Nat /\ Rank(s, h, k - 1, k - 1) \in Nat
                  /\ Closed(s, h, k - 1) \in Nat
                  /\ Len(o) = Rank(s, h, k - 1, k - 1) - Closed(s, h, k - 1)
              BY <1>0, <2>0, <3>1
            <7> HIDE DEF o, n
            <7> QED BY <6>2, <7>1
          <6> QED BY <3>1, <3>4, <5>1, <6>1, <6>3
        <5>3. ASSUME NEW i \in 1 .. Len(q)
              PROVE  /\ q[i] \in EpochAt(s, h, k) .. k /\ h[q[i]].accept
                     /\ Rank(s, h, q[i], k) = Closed(s, h, k) + i
          <6>1. CASE i = Len(left) + 1
            <7>1. q[i] = k
              BY <5>1, <6>1
            <7>2. Rank(s, h, k, k) = Closed(s, h, k) + i
              BY <3>1, <3>5, <5>1, <5>2, <6>1
            <7> QED BY <1>0, <3>2, <4>2, <7>1, <7>2
          <6>2. CASE i # Len(left) + 1
            <7>1. i \in 1 .. Len(left)
              BY <3>5, <5>1, <6>2
            <7>2. q[i] = left[i] /\ left[i] \in EpochAt(s, h, k) .. k - 1
              BY <3>5, <5>1, <7>1
            <7>3. q[i] \in EpochAt(s, h, k) .. k
              BY <1>0, <3>2, <7>2
            <7> QED BY <3>5, <7>1, <7>2, <7>3
          <6> QED BY <6>1, <6>2
        <5>4. OpenIs(s, h, k, q)
          BY <1>3, <3>1, <5>1, <5>2, <5>3 DEF OpenIs
        <5> QED BY <3>6, <4>2, <5>4 DEF q
      <4> QED BY <4>1, <4>2
    <3> DEFINE gone == SubSeq(o, 1, n)
    <3>8. Closing(st, h[k], adv) = gone
      BY <2>2 DEF Closing
    <3>9. Len(gone) = n /\ \A i \in 1 .. n : gone[i] = o[i]
      <4>1. n \in 0 .. Len(o)
        BY <1>0, <2>0
      <4> QED BY <2>0, <4>1, FrontSeqOf
    <3>10. ASSUME NEW j
           PROVE  (\E i \in 1 .. n : o[i] = j) <=> ClosesAt(s, h, j, k)
      <4>1. ASSUME NEW i \in 1 .. n, o[i] = j PROVE ClosesAt(s, h, j, k)
        <5>1. i \in 1 .. Len(o)
          BY <1>0, <2>0
        <5>2. /\ j \in EpochAt(s, h, k) .. k - 1 /\ h[j].accept
              /\ Rank(s, h, j, k) = c + i
          BY <2>0, <3>1, <4>1, <5>1
        <5>3. c + i \in c + 1 .. Closed(s, h, k)
          <6>1. \A a, b \in Nat : \A v \in 1 .. b : a + v \in a + 1 .. a + b
            OBVIOUS
          <6> QED BY <1>0, <2>0, <3>1, <6>1
        <5> QED BY <1>3, <2>2, <5>2, <5>3 DEF ClosesAt
      <4>2. ASSUME ClosesAt(s, h, j, k) PROVE \E i \in 1 .. n : o[i] = j
        <5>1. /\ j \in EpochAt(s, h, k) .. k - 1 /\ h[j].accept
              /\ Rank(s, h, j, k) \in c + 1 .. Closed(s, h, k)
          BY <4>2 DEF ClosesAt
        <5> DEFINE i == Rank(s, h, j, k) - c
        <5>2. i \in 1 .. n /\ i \in 1 .. Len(o) /\ Rank(s, h, j, k) = c + i
          <6>1. \A a, b \in Nat : \A v \in a + 1 .. a + b : v - a \in 1 .. b /\ v = a + (v - a)
            OBVIOUS
          <6>2. i \in 1 .. n /\ Rank(s, h, j, k) = c + i
            BY <1>0, <2>0, <3>1, <5>1, <6>1
          <6> HIDE DEF i
          <6> QED BY <1>0, <2>0, <6>2
        <5> HIDE DEF i
        <5>3. /\ o[i] \in EpochAt(s, h, k) .. k - 1 /\ h[o[i]].accept
              /\ Rank(s, h, o[i], k) = Rank(s, h, j, k)
          BY <2>0, <3>1, <5>2
        <5>4. o[i] \in 1 .. Len(h) /\ j \in 1 .. Len(h)
          BY <1>0, <3>2, <5>1, <5>3
        <5>5. Count(s, h, o[i]) = Count(s, h, j)
          <6>1. /\ Count(s, h, o[i]) \in Nat /\ Count(s, h, j) \in Nat
                /\ Count(s, h, EpochAt(s, h, k) - 1) \in Nat
            <7>1. /\ o[i] \in 0 .. Len(h) /\ j \in 0 .. Len(h)
                  /\ EpochAt(s, h, k) - 1 \in 0 .. Len(h)
              BY <1>0, <3>2, <5>4
            <7> QED BY <7>1, MarkIs
          <6>2. \A u, v, w \in Nat : u - w = v - w => u = v
            OBVIOUS
          <6> QED BY <5>3, <6>1, <6>2 DEF Rank
        <5>6. o[i] = j
          BY <5>1, <5>3, <5>4, <5>5, SameRank
        <5> QED BY <5>2, <5>6
      <4> QED BY <4>1, <4>2
    <3>11. \A j : j \in ToSet(gone) <=> \E i \in 1 .. n : o[i] = j
      <4>1. ToSet(gone) = {gone[i] : i \in DOMAIN gone}
        BY DEF ToSet
      <4>2. DOMAIN gone = 1 .. n
        <5>1. gone \in Seq(1 .. k - 1)
          <6>1. n \in 0 .. Len(o)
            BY <1>0, <2>0
          <6> QED BY <2>0, <6>1, FrontSeqOf
        <5> HIDE DEF gone
        <5> QED BY <3>9, <5>1
      <4> HIDE DEF gone
      <4> QED BY <3>9, <4>1, <4>2
    <3> QED BY <3>7, <3>8, <3>10, <3>11
  <2> QED BY <1>0, <2>1, <2>2
<1> QED BY <1>2, <1>3

-----------------------------------------------------------------------------
(* A chunk's plans: what the rows before and in it say of each row.         *)

KnownIs(s, h, m, n, known) ==
  \A x : x \in known <=>
           \E i \in m + 1 .. n : \E j \in 1 .. n : ClosesAt(s, h, j, i) /\ x = [id |-> j, at |-> i]
PlansOf(s, h) == {PlanOf(s, h, k) : k \in 1 .. Len(h)}

\* After row n, of the chunk that begins past row m.
SchedIs(s, h, m, n, st) ==
  /\ st.id = n
  /\ StreamClock(s, h, n, st.clock) /\ FoldClock(s, h, n, st.fold)
  /\ OpenIs(s, h, n, st.open)
  /\ Frm(s) => KnownIs(s, h, m, n, st.known)
  /\ st.plans \in Seq(PlansOf(s, h)) /\ Len(st.plans) = n - m
  /\ \A j \in 1 .. n - m : st.plans[j] = PlanOf(s, h, m + j)

LEMMA PlannedIs ==
  ASSUME setting \in Settings, NEW h \in Streams(setting), NEW m \in 0 .. Len(h),
         NEW k \in m + 1 .. Len(h), NEW st, SchedIs(setting, h, m, k - 1, st),
         Formulas => h[k].closes <= Len(st.open)
  PROVE  SchedIs(setting, h, m, k, Planned(st, h[k]))
<1> DEFINE s == setting
           out == C!Advance(st.clock, h[k])
           next == Planned(st, h[k])
<1>0. /\ Len(h) \in Nat /\ m \in Nat /\ k \in Nat /\ k \in 1 .. Len(h) /\ k > m
      /\ (k - 1) + 1 = k
  <2>1. Len(h) \in Nat
    BY DEF Streams
  <2> QED BY <2>1
<1>1. /\ StreamClock(s, h, k, out.clock)
      /\ out.adv.reset = ResetAt(s, h, k) /\ out.adv.changed = ChangedAt(h, k)
      /\ out.adv.capped = GapAt(s, h, k) /\ out.adv.dClock = DAt(s, h, k)
      /\ out.adv.stamp.elapsedNs = ElapsedBy(s, h, k)
  BY <1>0, StreamClockStep DEF SchedIs
<1> HIDE DEF out
<1>2. st.id + 1 = k
  BY <1>0 DEF SchedIs
<1> DEFINE plan == [kind |-> "row", id |-> k, row |-> h[k], reset |-> out.adv.reset,
                    events |-> Events(out.adv), d |-> out.adv.dClock,
                    fresh |-> FreshStep(st.fold, h[k]), place |-> out.adv.stamp.elapsedNs]
<1>3. /\ next.clock = out.clock /\ next.id = k
      /\ next.fold = (IF ~s.drift \/ h[k].accept THEN <<>> ELSE <<Fold(st.fold, h[k]).clock>>)
      /\ next.open = StillOpen(st, h[k], out.adv, k)
      /\ next.known = st.known \cup {[id |-> j, at |-> k] : j \in ToSet(Closing(st, h[k], out.adv))}
      /\ next.plans = Append(st.plans, plan)
  BY <1>2 DEF Planned, PlannedAt, out
<1> HIDE DEF next
<1>4. /\ FreshStep(st.fold, h[k]) = FreshAt(s, h, k)
      /\ FoldClock(s, h, k, next.fold)
  <2>1. FoldClock(s, h, k - 1, st.fold)
    BY DEF SchedIs
  <2> QED BY <1>0, <1>3, <2>1, FoldClockStep
<1>5. plan = PlanOf(s, h, k)
  <2>1. Events(out.adv) = EventsAt(s, h, k)
    BY <1>1 DEF Events, EventsAt
  <2> QED BY <1>1, <1>4, <2>1 DEF PlanOf
<1> HIDE DEF plan
<1>6. /\ OpenIs(s, h, k, next.open)
      /\ Formulas => \A j : j \in ToSet(Closing(st, h[k], out.adv)) <=> ClosesAt(s, h, j, k)
  <2>1. OpenIs(s, h, k - 1, st.open)
    BY DEF SchedIs
  <2> QED BY <1>0, <1>1, <1>3, <2>1, OpenStep
<1>7. ASSUME Frm(s) PROVE KnownIs(s, h, m, k, next.known)
  <2>1. KnownIs(s, h, m, k - 1, st.known)
    BY <1>7 DEF SchedIs
  <2>2. \A j : j \in ToSet(Closing(st, h[k], out.adv)) <=> ClosesAt(s, h, j, k)
    BY <1>6, <1>7 DEF Formulas, Frm
  <2>3. ASSUME NEW i \in m + 1 .. k, NEW j, ClosesAt(s, h, j, i)
        PROVE  j \in 1 .. i - 1 /\ j \in 1 .. k /\ (i # k => j \in 1 .. k - 1 /\ i \in m + 1 .. k - 1)
    <3>1. j \in EpochAt(s, h, i) .. i - 1
      BY <2>3 DEF ClosesAt
    <3>2. EpochAt(s, h, i) \in 1 .. i
      BY <1>0, BaseIs
    <3> QED BY <1>0, <3>1, <3>2
  <2>4. ASSUME NEW x
        PROVE  x \in next.known <=>
                 \E i \in m + 1 .. k : \E j \in 1 .. k :
                   ClosesAt(s, h, j, i) /\ x = [id |-> j, at |-> i]
    <3>1. x \in next.known <=>
            \/ x \in st.known
            \/ \E j : ClosesAt(s, h, j, k) /\ x = [id |-> j, at |-> k]
      BY <1>3, <2>2
    <3>2. x \in st.known <=>
            \E i \in m + 1 .. k - 1 : \E j \in 1 .. k - 1 :
              ClosesAt(s, h, j, i) /\ x = [id |-> j, at |-> i]
      BY <2>1 DEF KnownIs
    <3>3. ASSUME x \in next.known
          PROVE  \E i \in m + 1 .. k : \E j \in 1 .. k :
                   ClosesAt(s, h, j, i) /\ x = [id |-> j, at |-> i]
      <4>1. CASE x \in st.known
        <5>1. m + 1 .. k - 1 \subseteq m + 1 .. k /\ 1 .. k - 1 \subseteq 1 .. k
          BY <1>0
        <5> QED BY <3>2, <4>1, <5>1
      <4>2. CASE \E j : ClosesAt(s, h, j, k) /\ x = [id |-> j, at |-> k]
        <5>1. k \in m + 1 .. k
          BY <1>0
        <5> QED BY <2>3, <4>2, <5>1
      <4> QED BY <3>1, <3>3, <4>1, <4>2
    <3>4. ASSUME NEW i \in m + 1 .. k, NEW j \in 1 .. k, ClosesAt(s, h, j, i),
                 x = [id |-> j, at |-> i]
          PROVE  x \in next.known
      <4>1. CASE i = k
        BY <3>1, <3>4, <4>1
      <4>2. CASE i # k
        <5>1. j \in 1 .. k - 1 /\ i \in m + 1 .. k - 1
          BY <2>3, <3>4, <4>2
        <5> QED BY <3>1, <3>2, <3>4, <5>1
      <4> QED BY <4>1, <4>2
    <3> QED BY <3>3, <3>4
  <2> QED BY <2>4 DEF KnownIs
<1>8. /\ next.plans \in Seq(PlansOf(s, h)) /\ Len(next.plans) = k - m
      /\ \A j \in 1 .. k - m : next.plans[j] = PlanOf(s, h, m + j)
  <2>1. /\ st.plans \in Seq(PlansOf(s, h)) /\ Len(st.plans) = (k - 1) - m
        /\ \A j \in 1 .. (k - 1) - m : st.plans[j] = PlanOf(s, h, m + j)
    BY DEF SchedIs
  <2>2. plan \in PlansOf(s, h)
    BY <1>0, <1>5 DEF PlansOf
  <2>3. /\ next.plans \in Seq(PlansOf(s, h)) /\ Len(next.plans) = Len(st.plans) + 1
        /\ next.plans[Len(st.plans) + 1] = plan
        /\ \A j \in 1 .. Len(st.plans) : next.plans[j] = st.plans[j]
    BY <1>3, <2>1, <2>2, AppendProperties
  <2>4. Len(next.plans) = k - m /\ Len(st.plans) + 1 = k - m
    BY <1>0, <2>1, <2>3
  <2>5. ASSUME NEW j \in 1 .. k - m PROVE next.plans[j] = PlanOf(s, h, m + j)
    <3>1. CASE j = k - m
      <4>1. m + j = k
        BY <1>0, <3>1
      <4> QED BY <1>5, <2>3, <2>4, <3>1, <4>1
    <3>2. CASE j # k - m
      <4>1. j \in 1 .. (k - 1) - m
        BY <1>0, <3>2
      <4> QED BY <2>1, <2>3, <4>1
    <3> QED BY <3>1, <3>2
  <2> QED BY <2>3, <2>4, <2>5
<1>9. SchedIs(s, h, m, k, next)
  BY <1>1, <1>3, <1>4, <1>6, <1>7, <1>8 DEF SchedIs
<1> QED BY <1>9 DEF next

\* The run of a chunk is what its definition says of it.
SchedStart == [clock |-> clock, fold |-> restartFold, open |-> open, known |-> {},
               id |-> Len(hist), plans |-> <<>>]
SchedRun(chunk, run) ==
  /\ run[0] = SchedStart
  /\ \A n \in 1 .. Len(chunk) : run[n] = Planned(run[n - 1], chunk[n])

LEMMA ScheduleRuns ==
  ASSUME NEW chunk, Len(chunk) \in Nat
  PROVE  \E run : SchedRun(chunk, run) /\ Schedule(chunk) = run[Len(chunk)]
<1> DEFINE N == Len(chunk)
           E(g, m) == [n \in 0 .. m |-> IF n = 0 THEN SchedStart ELSE Planned(g[n - 1], chunk[n])]
           T == {m \in 0 .. N : \E g : g = E(g, m)}
           run == CHOOSE g : g = E(g, N)
<1>1. 0 \in T
  <2> DEFINE g == [n \in 0 .. 0 |-> SchedStart]
  <2>1. g = E(g, 0)
    OBVIOUS
  <2>2. 0 \in 0 .. N
    OBVIOUS
  <2> HIDE DEF g, E
  <2> QED BY <2>1, <2>2
<1>2. ASSUME NEW m \in 1 .. N, m - 1 \in T PROVE m \in T
  <2>1. PICK g : g = E(g, m - 1)
    BY <1>2
  <2> DEFINE next == Planned(g[m - 1], chunk[m])
             q == [n \in 0 .. m |-> IF n = m THEN next ELSE g[n]]
  <2>2. ASSUME NEW n \in 0 .. m
        PROVE  q[n] = IF n = 0 THEN SchedStart ELSE Planned(q[n - 1], chunk[n])
    <3> HIDE DEF next
    <3>1. CASE n = m
      <4>1. q[n] = next /\ n # 0 /\ n - 1 \in 0 .. m /\ n - 1 # m
        BY <3>1
      <4>2. q[n - 1] = g[n - 1]
        BY <4>1
      <4> QED BY <3>1, <4>1, <4>2 DEF next
    <3>2. CASE n # m
      <4>1. q[n] = g[n] /\ n \in 0 .. m - 1
        BY <3>2
      <4>2. n # 0 => n - 1 \in 0 .. m /\ n - 1 # m
        BY <3>2
      <4>3. n # 0 => q[n - 1] = g[n - 1]
        BY <4>2
      <4>4. g[n] = E(g, m - 1)[n]
        BY <2>1
      <4> HIDE DEF q
      <4> QED BY <4>1, <4>3, <4>4
    <3> QED BY <3>1, <3>2
  <2>3. q = E(q, m)
    <3>1. q = [n \in 0 .. m |-> q[n]]
      OBVIOUS
    <3> HIDE DEF q
    <3> QED BY <2>2, <3>1
  <2>4. m \in 0 .. N
    OBVIOUS
  <2> HIDE DEF q, E
  <2> QED BY <2>3, <2>4
<1>3. N \in T
  <2> HIDE DEF T
  <2>1. 0 .. N \subseteq T
    BY <1>1, <1>2, UpTo
  <2> QED BY <2>1
<1>4. run = E(run, N)
  <2> HIDE DEF E
  <2> QED BY <1>3
<1>5. Schedule(chunk) = run[N]
  BY DEF Schedule, SchedStart
<1> HIDE DEF run
<1>6. run[0] = SchedStart
  BY <1>4
<1>7. ASSUME NEW n \in 1 .. N PROVE run[n] = Planned(run[n - 1], chunk[n])
  <2>1. n \in 0 .. N /\ n # 0
    OBVIOUS
  <2>2. run[n] = E(run, N)[n]
    BY <1>4
  <2> QED BY <2>1, <2>2
<1> QED BY <1>5, <1>6, <1>7 DEF SchedRun

\* The plans of the first rows are those of the chunk's first rows.
LEMMA PrefixRuns ==
  ASSUME NEW S, NEW chunk \in Seq(S), NEW run, SchedRun(chunk, run), NEW i \in 0 .. Len(chunk)
  PROVE  Schedule(SubSeq(chunk, 1, i)) = run[i]
<1> DEFINE c == SubSeq(chunk, 1, i)
<1>1. Len(c) = i /\ (\A j \in 1 .. i : c[j] = chunk[j]) /\ i \in Nat
  BY FrontSeqOf
<1> HIDE DEF c
<1>2. PICK r : SchedRun(c, r) /\ Schedule(c) = r[i]
  BY <1>1, ScheduleRuns
<1> DEFINE T == {n \in 0 .. i : r[n] = run[n]}
<1>3. 0 \in T
  BY <1>1, <1>2 DEF SchedRun
<1>4. ASSUME NEW n \in 1 .. i, n - 1 \in T PROVE n \in T
  <2>1. n \in 1 .. Len(chunk) /\ n \in 1 .. Len(c) /\ n \in 0 .. i
    BY <1>1
  <2>2. r[n] = Planned(r[n - 1], c[n]) /\ run[n] = Planned(run[n - 1], chunk[n])
    BY <1>2, <2>1 DEF SchedRun
  <2> QED BY <1>1, <1>4, <2>1, <2>2
<1>5. 0 .. i \subseteq T
  <2> HIDE DEF T
  <2> QED BY <1>1, <1>3, <1>4, UpTo
<1>6. r[i] = run[i]
  BY <1>1, <1>5
<1> QED BY <1>2, <1>6 DEF c

\* A row more changes nothing that was said of the rows before.
LEMMA MarksGrow ==
  ASSUME NEW s \in Settings, NEW h \in Streams(s), NEW c \in Streams(s), NEW k \in 0 .. Len(h)
  PROVE  /\ Steps(s, h \o c, k) = Steps(s, h, k) /\ Time(s, h \o c, k) = Time(s, h, k)
         /\ Shut(s, h \o c, k) = Shut(s, h, k) /\ Count(s, h \o c, k) = Count(s, h, k)
         /\ Lessons(s, h \o c, k) = Lessons(s, h, k) /\ Nulls(s, h \o c, k) = Nulls(s, h, k)
         /\ EpochAt(s, h \o c, k) = EpochAt(s, h, k) /\ LastAt(s, h \o c, k) = LastAt(s, h, k)
         /\ k # 0 => (h \o c)[k] = h[k]
         /\ k > 1 => (h \o c)[k - 1] = h[k - 1]
<1>0. Len(h) \in Nat
  BY DEF Streams
<1>1. Trail(s, h \o c)[k] = Trail(s, h)[k]
  BY TrailGrows
<1>2. k # 0 => (h \o c)[k] = h[k]
  <2>1. k # 0 => k \in 1 .. Len(h)
    BY <1>0
  <2> QED BY <2>1, TrailGrows
<1>3. k > 1 => (h \o c)[k - 1] = h[k - 1]
  <2>1. k > 1 => k - 1 \in 1 .. Len(h)
    BY <1>0
  <2> QED BY <2>1, TrailGrows
<1> QED BY <1>1, <1>2, <1>3 DEF Steps, Time, Shut, Count, Lessons, Nulls, EpochAt, LastAt

LEMMA BasesGrow ==
  ASSUME NEW s \in Settings, NEW h \in Streams(s), NEW c \in Streams(s), NEW k \in 0 .. Len(h)
  PROVE  /\ BaseAt(s, h \o c, k) = BaseAt(s, h, k) /\ FoldAt(s, h \o c, k) = FoldAt(s, h, k)
         /\ ResetAt(s, h \o c, k) = ResetAt(s, h, k) /\ ChangedAt(h \o c, k) = ChangedAt(h, k)
         /\ PastCapAt(s, h \o c, k) = PastCapAt(s, h, k)
<1>1. /\ EpochAt(s, h \o c, k) = EpochAt(s, h, k) /\ LastAt(s, h \o c, k) = LastAt(s, h, k)
      /\ k # 0 => (h \o c)[k] = h[k]
      /\ k > 1 => (h \o c)[k - 1] = h[k - 1]
  BY MarksGrow
<1>2. k > 1 => k # 0
  OBVIOUS
<1>3. BaseAt(s, h \o c, k) = BaseAt(s, h, k) /\ FoldAt(s, h \o c, k) = FoldAt(s, h, k)
  BY <1>1 DEF BaseAt, FoldAt
<1>4. CASE k > 1
  BY <1>1, <1>2, <1>3, <1>4 DEF ResetAt, ChangedAt, PastCapAt
<1>5. CASE ~(k > 1)
  BY <1>3, <1>5 DEF ResetAt, ChangedAt, PastCapAt
<1> QED BY <1>4, <1>5

LEMMA StateGrows ==
  ASSUME NEW s \in Settings, NEW h \in Streams(s), NEW c \in Streams(s), NEW n, n = Len(h)
  PROVE  /\ \A u : StreamClock(s, h, n, u) => StreamClock(s, h \o c, n, u)
         /\ \A u : FoldClock(s, h, n, u) => FoldClock(s, h \o c, n, u)
         /\ \A u : OpenIs(s, h, n, u) => OpenIs(s, h \o c, n, u)
<1> DEFINE g == h \o c
<1>0. n \in Nat /\ n \in 0 .. Len(h)
  <2>1. Len(h) \in Nat
    BY DEF Streams
  <2> QED BY <2>1
<1>1. ASSUME NEW f \in Nat, NEW e, NEW b, NEW u, f >= 1, After(s, h, f, e, b, n, u)
      PROVE  After(s, g, f, e, b, n, u)
  <2>1. CASE n < f
    BY <1>0, <1>1, <2>1 DEF After
  <2>2. CASE n >= f
    <3>1. e \in 0 .. Len(h) /\ b \in 0 .. Len(h) /\ n # 0
      <4>1. e \in f .. n /\ b \in e .. n
        BY <1>1, <2>2 DEF After
      <4> QED BY <1>0, <1>1, <2>2, <4>1
    <3>2. /\ Steps(s, g, n) = Steps(s, h, n) /\ Time(s, g, n) = Time(s, h, n) /\ g[n] = h[n]
      BY <1>0, <3>1, MarksGrow
    <3>3. Steps(s, g, b) = Steps(s, h, b) /\ Time(s, g, e) = Time(s, h, e)
      BY <3>1, MarksGrow
    <3> HIDE DEF g
    <3> QED BY <1>1, <3>2, <3>3 DEF After
  <2> QED BY <1>0, <1>1, <2>1, <2>2
<1>2. /\ EpochAt(s, g, n) = EpochAt(s, h, n) /\ LastAt(s, g, n) = LastAt(s, h, n)
      /\ BaseAt(s, g, n) = BaseAt(s, h, n) /\ FoldAt(s, g, n) = FoldAt(s, h, n)
  BY <1>0, MarksGrow, BasesGrow
<1>3. ASSUME NEW u, StreamClock(s, h, n, u) PROVE StreamClock(s, g, n, u)
  <2>1. After(s, h, 1, EpochAt(s, h, n), BaseAt(s, h, n), n, u)
    BY <1>3 DEF StreamClock
  <2>2. After(s, g, 1, EpochAt(s, h, n), BaseAt(s, h, n), n, u)
    <3> HIDE DEF g
    <3> QED BY <1>1, <2>1
  <2> QED BY <1>2, <2>2 DEF StreamClock
<1>4. ASSUME NEW u, FoldClock(s, h, n, u) PROVE FoldClock(s, g, n, u)
  <2>1. ASSUME s.drift, LastAt(s, h, n) # n
        PROVE  After(s, g, LastAt(s, h, n) + 1, FoldAt(s, h, n), FoldAt(s, h, n), n, u[1])
    <3>1. After(s, h, LastAt(s, h, n) + 1, FoldAt(s, h, n), FoldAt(s, h, n), n, u[1])
      BY <1>4, <2>1 DEF FoldClock
    <3>2. LastAt(s, h, n) + 1 \in Nat /\ LastAt(s, h, n) + 1 >= 1
      BY <1>0, LastIs
    <3> HIDE DEF g
    <3> QED BY <1>1, <3>1, <3>2
  <2> HIDE DEF g
  <2> QED BY <1>2, <1>4, <2>1 DEF FoldClock
<1>5. ASSUME NEW u, OpenIs(s, h, n, u) PROVE OpenIs(s, g, n, u)
  <2>1. CASE ~Frm(s)
    BY <1>5, <2>1 DEF OpenIs
  <2>2. CASE Frm(s)
    <3>0. EpochAt(s, h, n) \in Nat /\ EpochAt(s, h, n) >= 1 /\ (n # 0 => EpochAt(s, h, n) <= n)
          /\ EpochAt(s, h, n) - 1 \in 0 .. Len(h)
      <4>1. /\ EpochAt(s, h, n) \in Nat /\ EpochAt(s, h, n) >= 1
            /\ n >= 1 => EpochAt(s, h, n) <= n
            /\ n = 0 => EpochAt(s, h, n) = 1
        BY <1>0, EpochIs
      <4> QED BY <1>0, <4>1
    <3>1. Closed(s, g, n) = Closed(s, h, n)
      <4>1. CASE n = 0
        BY <4>1 DEF Closed
      <4>2. CASE n # 0
        <5>1. EpochAt(s, h, n) \in 0 .. Len(h)
          BY <1>0, <3>0, <4>2
        <5>2. Shut(s, g, n) = Shut(s, h, n)
          BY <1>0, MarksGrow
        <5>3. Shut(s, g, EpochAt(s, h, n)) = Shut(s, h, EpochAt(s, h, n))
          BY <5>1, MarksGrow
        <5> HIDE DEF g
        <5> QED BY <1>2, <4>2, <5>2, <5>3 DEF Closed
      <4> QED BY <4>1, <4>2
    <3>2. ASSUME NEW j \in 0 .. n PROVE Rank(s, g, j, n) = Rank(s, h, j, n)
      <4>1. Count(s, g, j) = Count(s, h, j)
        BY <1>0, MarksGrow
      <4>2. Count(s, g, EpochAt(s, h, n) - 1) = Count(s, h, EpochAt(s, h, n) - 1)
        BY <3>0, MarksGrow
      <4> HIDE DEF g
      <4> QED BY <1>2, <4>1, <4>2 DEF Rank
    <3>3. ASSUME NEW i \in 1 .. Len(u)
          PROVE  /\ u[i] \in EpochAt(s, g, n) .. n /\ g[u[i]].accept
                 /\ Rank(s, g, u[i], n) = Closed(s, g, n) + i
      <4>1. /\ u[i] \in EpochAt(s, h, n) .. n /\ h[u[i]].accept
            /\ Rank(s, h, u[i], n) = Closed(s, h, n) + i
        BY <1>5, <2>2 DEF OpenIs
      <4>2. u[i] \in 0 .. n /\ u[i] # 0 /\ u[i] \in 0 .. Len(h)
        BY <1>0, <3>0, <4>1
      <4>3. g[u[i]] = h[u[i]]
        BY <4>2, MarksGrow
      <4> HIDE DEF g
      <4> QED BY <1>2, <3>1, <3>2, <4>1, <4>2, <4>3
    <3>4. Rank(s, g, n, n) = Rank(s, h, n, n)
      BY <1>0, <3>2
    <3> HIDE DEF g
    <3> QED BY <1>5, <2>2, <3>1, <3>3, <3>4 DEF OpenIs
  <2> QED BY <2>1, <2>2
<1> QED BY <1>3, <1>4, <1>5

\* A row closes no more windows than are open.
ClosesIn(s, h, k) ==
  Frm(s) /\ k > 1 /\ ~ResetAt(s, h, k) =>
    h[k].closes <= Rank(s, h, k - 1, k - 1) - Closed(s, h, k - 1)

LEMMA ScheduleIs ==
  ASSUME setting \in Settings, hist \in Streams(setting),
         NEW chunk \in Streams(setting), CouldClose(chunk),
         StreamClock(setting, hist, Len(hist), clock),
         FoldClock(setting, hist, Len(hist), restartFold),
         OpenIs(setting, hist, Len(hist), open)
  PROVE  /\ SchedIs(setting, hist \o chunk, Len(hist), Len(hist \o chunk), Schedule(chunk))
         /\ \A i \in 1 .. Len(chunk) : ClosesIn(setting, hist \o chunk, Len(hist) + i)
<1> DEFINE s == setting
           m == Len(hist)
           g == hist \o chunk
           N == Len(chunk)
<1>0. /\ m \in Nat /\ N \in Nat /\ g \in Streams(s) /\ Len(g) = m + N
      /\ \A i \in 1 .. N : g[m + i] = chunk[i]
      /\ chunk \in Seq(s.rows)
  BY TrailGrows DEF Streams
<1>1. PICK run : SchedRun(chunk, run) /\ Schedule(chunk) = run[N]
  BY <1>0, ScheduleRuns
<1> HIDE DEF g
<1> DEFINE T == {i \in 0 .. N : SchedIs(s, g, m, m + i, run[i]) /\ (i # 0 => ClosesIn(s, g, m + i))}
<1>2. 0 \in T
  <2>1. /\ run[0].id = m /\ run[0].clock = clock /\ run[0].fold = restartFold
        /\ run[0].open = open /\ run[0].known = {} /\ run[0].plans = <<>>
    BY <1>1 DEF SchedRun, SchedStart
  <2>2. /\ StreamClock(s, g, m, clock) /\ FoldClock(s, g, m, restartFold)
        /\ OpenIs(s, g, m, open)
    BY StateGrows DEF g
  <2>3. KnownIs(s, g, m, m, {})
    <3>1. \A i \in m + 1 .. m : FALSE
      BY <1>0
    <3> QED BY <3>1 DEF KnownIs
  <2>4. <<>> \in Seq(PlansOf(s, g)) /\ Len(<<>>) = m - m /\ \A j \in 1 .. m - m : FALSE
    BY <1>0
  <2>5. SchedIs(s, g, m, m, run[0])
    BY <2>1, <2>2, <2>3, <2>4 DEF SchedIs
  <2>6. m + 0 = m /\ 0 \in 0 .. N
    BY <1>0
  <2> QED BY <2>5, <2>6
<1>3. ASSUME NEW i \in 1 .. N, i - 1 \in T PROVE i \in T
  <2>0. /\ i \in Nat /\ i \in 0 .. N /\ i - 1 \in 0 .. N /\ m + i \in m + 1 .. Len(g)
        /\ m + (i - 1) = (m + i) - 1 /\ m \in 0 .. Len(g) /\ i \in 1 .. Len(chunk)
    BY <1>0
  <2>1. SchedIs(s, g, m, (m + i) - 1, run[i - 1])
    BY <1>3, <2>0
  <2>2. Schedule(SubSeq(chunk, 1, i - 1)) = run[i - 1]
    BY <1>0, <1>1, <2>0, PrefixRuns
  <2>3. Formulas => g[m + i].closes <= Len(run[i - 1].open)
    <3>1. DOMAIN chunk = 1 .. N
      BY <1>0
    <3>2. Formulas => chunk[i].closes <= Len(Schedule(SubSeq(chunk, 1, i - 1)).open)
      BY <3>1 DEF CouldClose
    <3> QED BY <1>0, <2>2, <3>2
  <2>4. SchedIs(s, g, m, m + i, Planned(run[i - 1], g[m + i]))
    BY <1>0, <2>0, <2>1, <2>3, PlannedIs
  <2>5. run[i] = Planned(run[i - 1], g[m + i])
    BY <1>0, <1>1 DEF SchedRun
  <2>6. ClosesIn(s, g, m + i)
    <3>1. Frm(s) => OpenIs(s, g, (m + i) - 1, run[i - 1].open)
      BY <2>1 DEF SchedIs
    <3>2. Frm(s) => Len(run[i - 1].open)
                      = Rank(s, g, (m + i) - 1, (m + i) - 1) - Closed(s, g, (m + i) - 1)
      BY <3>1 DEF OpenIs
    <3>3. Frm(s) => g[m + i].closes <= Len(run[i - 1].open)
      BY <2>3 DEF Formulas, Frm
    <3> QED BY <3>2, <3>3 DEF ClosesIn
  <2> QED BY <2>0, <2>4, <2>5, <2>6
<1>4. 0 .. N \subseteq T
  <2> HIDE DEF T
  <2> QED BY <1>0, <1>2, <1>3, UpTo
<1>5. SchedIs(s, g, m, m + N, run[N])
  BY <1>0, <1>4
<1>6. \A i \in 1 .. N : ClosesIn(s, g, m + i)
  <2> SUFFICES ASSUME NEW i \in 1 .. N PROVE ClosesIn(s, g, m + i)
    OBVIOUS
  <2>1. i \in 0 .. N /\ i # 0
    BY <1>0
  <2> QED BY <1>4, <2>1
<1>7. SchedIs(s, g, m, Len(g), Schedule(chunk))
  BY <1>0, <1>1, <1>5
<1> QED BY <1>6, <1>7 DEF g

\* No step back is left in a stream that was checked, but those that restart
\* the clock.
StepsOn(s, h, k) ==
  k > 1 /\ s.clk.column /\ ~NewSession(h[k - 1], h[k]) /\ ~ResetAt(s, h, k) =>
    h[k - 1].at <= h[k].at

LEMMA CheckedSteps ==
  ASSUME setting \in Settings, hist \in Streams(setting),
         NEW chunk \in Streams(setting), ~C!CheckClock(clock, chunk),
         StreamClock(setting, hist, Len(hist), clock)
  PROVE  \A i \in 1 .. Len(chunk) : StepsOn(setting, hist \o chunk, Len(hist) + i)
<1> DEFINE s == setting
           m == Len(hist)
           g == hist \o chunk
           N == Len(chunk)
<1>0. /\ m \in Nat /\ N \in Nat /\ g \in Streams(s) /\ Len(g) = m + N
      /\ \A i \in 1 .. N : g[m + i] = chunk[i]
      /\ \A k \in 1 .. m : g[k] = hist[k]
  BY TrailGrows DEF Streams
<1> HIDE DEF g
<1> SUFFICES ASSUME NEW i \in 1 .. N PROVE StepsOn(s, g, m + i)
  BY DEF g
<1> DEFINE k == m + i
           a == g[k - 1]
           b == g[k]
           copy == C!CopyAt(clock, chunk, i)
<1>1. k \in 1 .. Len(g) /\ k \in Nat
  BY <1>0
<1>2. SUFFICES ASSUME k > 1, s.clk.column, ~NewSession(a, b), ~ResetAt(s, g, k), ~(a.at <= b.at)
      PROVE  FALSE
  BY DEF StepsOn
<1>3. a.at \in Int /\ b.at \in Int
  <2>1. k - 1 \in 1 .. Len(g)
    BY <1>1, <1>2
  <2> QED BY <1>0, <1>1, <2>1, RowIs
<1>4. /\ copy.started /\ copy.prev = a.at /\ copy.session = a.session
  <2>1. CASE i = 1
    <3>1. copy = clock
      BY <2>1 DEF C!CopyAt
    <3>2. m >= 1 /\ k - 1 = m /\ m \in 1 .. m
      BY <1>0, <1>2, <2>1
    <3>3. clock.started /\ clock.prev = hist[m].at /\ clock.session = hist[m].session
      BY <3>2 DEF StreamClock, After
    <3>4. g[m] = hist[m]
      BY <1>0, <3>2
    <3> QED BY <3>1, <3>2, <3>3, <3>4
  <2>2. CASE i # 1
    <3>1. i - 1 \in 1 .. N /\ m + (i - 1) = k - 1
      BY <1>0, <2>2
    <3>2. g[k - 1] = chunk[i - 1]
      BY <1>0, <3>1
    <3>3. copy = [clock EXCEPT !.started = TRUE, !.prev = chunk[i - 1].at,
                               !.session = chunk[i - 1].session]
      BY <2>2 DEF C!CopyAt
    <3>4. IsClock(clock)
      BY DEF StreamClock, After
    <3> QED BY <3>2, <3>3
  <2> QED BY <2>1, <2>2
<1>5. chunk[i] = b
  BY <1>0
<1>6. BackTo(s, a, b) /\ RawTo(s, a, b) = b.at - a.at /\ b.at - a.at < 0
  <2>1. RawTo(s, a, b) = b.at - a.at
    BY <1>2 DEF RawTo
  <2>2. b.at - a.at < 0 /\ b.at < a.at
    <3> HIDE DEF a, b
    <3> QED BY <1>2, <1>3
  <2> HIDE DEF a, b
  <2> QED BY <1>2, <2>1, <2>2 DEF BackTo
<1>7. s.clk.policy = "error" \/ -(b.at - a.at) <= s.clk.minBack
  <2>1. ~ResetTo(s, a, b)
    BY <1>2 DEF ResetAt
  <2> HIDE DEF a, b
  <2> QED BY <1>6, <2>1 DEF ResetTo
<1>8. C!Refusal(copy, chunk[i])
  <2>1. b.session = a.session /\ b.at < a.at
    <3>1. b.session = a.session
      BY <1>2 DEF NewSession
    <3> HIDE DEF a, b
    <3> QED BY <1>2, <1>3, <3>1
  <2>2. C!RefusedBack(b.at - a.at)
    BY <1>7 DEF C!RefusedBack
  <2> HIDE DEF a, b, copy
  <2> QED BY <1>4, <1>5, <2>1, <2>2 DEF C!Refusal
<1>9. s.clk.policy = "error" \/ s.clk.minBack > 0
  <2>1. s.clk.minBack \in Nat
    BY SettingIs
  <2> HIDE DEF a, b
  <2> QED BY <1>3, <1>6, <1>7, <2>1
<1> QED BY <1>2, <1>8, <1>9 DEF C!CheckClock

-----------------------------------------------------------------------------
(* A queue with an element put in, taken out or taken from its front.       *)

HasIn(S, q, i, e, out) ==
  /\ out \in Seq(S) /\ Len(out) = Len(q) + 1
  /\ \A j \in 1 .. Len(q) + 1 :
       out[j] = IF j < i THEN q[j] ELSE IF j = i THEN e ELSE q[j - 1]
HasLost(S, q, i, out) ==
  /\ out \in Seq(S) /\ Len(out) = Len(q) - 1
  /\ \A j \in 1 .. Len(q) - 1 : out[j] = IF j < i THEN q[j] ELSE q[j + 1]

LEMMA InsertIs ==
  ASSUME NEW S, NEW q \in Seq(S), NEW e \in S, NEW i \in 1 .. Len(q) + 1
  PROVE  HasIn(S, q, i, e, InsertAt(q, i, e))
<1> DEFINE f == SubSeq(q, 1, i - 1)
           b == SubSeq(q, (i - 1) + 1, Len(q))
           g == f \o <<e>>
<1>1. Len(q) \in Nat /\ i - 1 \in 0 .. Len(q) /\ (i - 1) + 1 = i /\ i \in Nat
  OBVIOUS
<1>2. f \in Seq(S) /\ Len(f) = i - 1 /\ \A j \in 1 .. i - 1 : f[j] = q[j]
  BY <1>1, FrontSeqOf
<1>3. /\ b \in Seq(S) /\ Len(b) = Len(q) - (i - 1)
      /\ \A j \in 1 .. Len(q) - (i - 1) : b[j] = q[(i - 1) + j]
  <2> HIDE DEF f, g
  <2> QED BY <1>1, BackOf
<1>4. <<e>> \in Seq(S) /\ Len(<<e>>) = 1 /\ <<e>>[1] = e
  OBVIOUS
<1>5. InsertAt(q, i, e) = g \o b
  <2>1. InsertAt(q, i, e) = (SubSeq(q, 1, i - 1) \o <<e>>) \o SubSeq(q, i, Len(q))
    BY DEF InsertAt
  <2>2. (i - 1) + 1 = i
    BY <1>1
  <2> QED BY ONLY <2>1, <2>2
<1> HIDE DEF f, b
<1>6. /\ g \in Seq(S) /\ Len(g) = (i - 1) + 1
      /\ \A j \in 1 .. (i - 1) + 1 : g[j] = IF j <= i - 1 THEN f[j] ELSE <<e>>[j - (i - 1)]
  <2>1. f \in Seq(S) /\ <<e>> \in Seq(S)
    BY <1>2, <1>4
  <2>2. /\ f \o <<e>> \in Seq(S) /\ Len(f \o <<e>>) = Len(f) + Len(<<e>>)
        /\ \A j \in 1 .. Len(f) + Len(<<e>>) :
             (f \o <<e>>)[j] = IF j <= Len(f) THEN f[j] ELSE <<e>>[j - Len(f)]
    BY <2>1, ConcatProperties
  <2>3. Len(f) = i - 1 /\ Len(<<e>>) = 1
    BY <1>2, <1>4
  <2> QED BY <2>2, <2>3
<1> HIDE DEF g
<1>7. /\ g \o b \in Seq(S) /\ Len(g \o b) = Len(g) + Len(b)
      /\ \A j \in 1 .. Len(g) + Len(b) :
           (g \o b)[j] = IF j <= Len(g) THEN g[j] ELSE b[j - Len(g)]
  BY <1>3, <1>6, ConcatProperties
<1>8. Len(g) = i /\ Len(g) + Len(b) = Len(q) + 1
  BY <1>1, <1>3, <1>6
<1>9. ASSUME NEW j \in 1 .. Len(q) + 1
      PROVE  (g \o b)[j] = IF j < i THEN q[j] ELSE IF j = i THEN e ELSE q[j - 1]
  <2>1. CASE j < i
    <3>1. j \in 1 .. i - 1 /\ j \in 1 .. (i - 1) + 1 /\ j <= i - 1 /\ j <= i
      BY <1>1, <2>1
    <3> QED BY <1>2, <1>6, <1>7, <1>8, <2>1, <3>1
  <2>2. CASE j = i
    <3>1. j \in 1 .. (i - 1) + 1 /\ ~(j <= i - 1) /\ j <= i /\ j - (i - 1) = 1 /\ ~(j < i)
      BY <1>1, <2>2
    <3> QED BY <1>4, <1>6, <1>7, <1>8, <2>2, <3>1
  <2>3. CASE j > i
    <3>1. /\ ~(j <= i) /\ ~(j < i) /\ j # i /\ j - i \in 1 .. Len(q) - (i - 1)
          /\ (i - 1) + (j - i) = j - 1
      BY <1>1, <2>3
    <3> QED BY <1>3, <1>7, <1>8, <2>3, <3>1
  <2>4. j < i \/ j = i \/ j > i
    BY <1>1
  <2> HIDE DEF g
  <2> QED BY <2>1, <2>2, <2>3, <2>4
<1> QED BY <1>5, <1>7, <1>8, <1>9 DEF HasIn

LEMMA RemoveIs ==
  ASSUME NEW S, NEW q \in Seq(S), NEW i \in 1 .. Len(q)
  PROVE  HasLost(S, q, i, RemoveAt(q, i))
<1> DEFINE f == SubSeq(q, 1, i - 1)
           b == SubSeq(q, i + 1, Len(q))
<1>1. Len(q) \in Nat /\ i - 1 \in 0 .. Len(q) /\ i \in 0 .. Len(q) /\ i \in Nat
  OBVIOUS
<1>2. f \in Seq(S) /\ Len(f) = i - 1 /\ \A j \in 1 .. i - 1 : f[j] = q[j]
  BY <1>1, FrontSeqOf
<1>3. b \in Seq(S) /\ Len(b) = Len(q) - i /\ \A j \in 1 .. Len(q) - i : b[j] = q[i + j]
  <2> HIDE DEF f
  <2> QED BY <1>1, BackOf
<1>4. RemoveAt(q, i) = f \o b
  BY DEF RemoveAt
<1> HIDE DEF f, b
<1>5. /\ f \o b \in Seq(S) /\ Len(f \o b) = Len(f) + Len(b)
      /\ \A j \in 1 .. Len(f) + Len(b) :
           (f \o b)[j] = IF j <= Len(f) THEN f[j] ELSE b[j - Len(f)]
  BY <1>2, <1>3, ConcatProperties
<1>6. Len(f) + Len(b) = Len(q) - 1
  BY <1>1, <1>2, <1>3
<1>7. ASSUME NEW j \in 1 .. Len(q) - 1
      PROVE  (f \o b)[j] = IF j < i THEN q[j] ELSE q[j + 1]
  <2>1. CASE j < i
    <3>1. j \in 1 .. i - 1 /\ j <= i - 1
      BY <1>1, <2>1
    <3> QED BY <1>2, <1>5, <1>6, <2>1, <3>1
  <2>2. CASE ~(j < i)
    <3>1. ~(j <= i - 1) /\ j - (i - 1) \in 1 .. Len(q) - i /\ i + (j - (i - 1)) = j + 1
      BY <1>1, <2>2
    <3>2. Len(f) = i - 1 /\ j \in 1 .. Len(f) + Len(b)
      BY <1>2, <1>6
    <3>3. (f \o b)[j] = b[j - (i - 1)]
      BY <1>5, <3>1, <3>2
    <3>4. b[j - (i - 1)] = q[i + (j - (i - 1))]
      BY <1>3, <3>1
    <3> QED BY <2>2, <3>1, <3>3, <3>4
  <2> QED BY <2>1, <2>2
<1> QED BY <1>4, <1>5, <1>6, <1>7 DEF HasLost

\* What is recorded of a row.
HasPut(S, q, p, out) ==
  /\ out \in Seq(S) /\ Len(out) = (IF p.drop = 0 THEN Len(q) + 1 ELSE Len(q))
  /\ \A j \in 1 .. Len(out) : out[j] =
       InsertAt(q, p.at, p.id)[IF p.drop = 0 \/ j < p.drop THEN j ELSE j + 1]

LEMMA PutIs ==
  ASSUME NEW S, NEW q \in Seq(S), NEW p, p.id \in S, p.held = TRUE,
         p.at \in 1 .. Len(q) + 1, p.drop \in 0 .. Len(q) + 1
  PROVE  HasPut(S, q, p, Record(q, p))
<1> DEFINE with == InsertAt(q, p.at, p.id)
<1>1. with \in Seq(S) /\ Len(with) = Len(q) + 1 /\ Len(q) \in Nat
  <2>1. HasIn(S, q, p.at, p.id, with)
    BY InsertIs
  <2> HIDE DEF with
  <2> QED BY <2>1 DEF HasIn
<1> HIDE DEF with
<1>2. CASE p.drop = 0
  <2>1. Record(q, p) = with
    BY <1>2 DEF Record, with
  <2> QED BY <1>1, <1>2, <2>1 DEF HasPut, with
<1>3. CASE p.drop # 0
  <2>1. Record(q, p) = RemoveAt(with, p.drop)
    BY <1>3 DEF Record, with
  <2>2. p.drop \in 1 .. Len(with) /\ Len(with) - 1 = Len(q)
    BY <1>1, <1>3
  <2>3. HasLost(S, with, p.drop, RemoveAt(with, p.drop))
    BY <1>1, <2>2, RemoveIs
  <2>4. HasLost(S, with, p.drop, Record(q, p))
    BY <2>1, <2>3
  <2> QED BY <1>1, <1>3, <2>2, <2>4 DEF HasPut, HasLost, with
<1> QED BY <1>2, <1>3

-----------------------------------------------------------------------------
(* The ledger: what is held and learned at a place in a chunk's plans.  Row  *)
(* `row` is the last one scored or skipped, row `now` the last one at which *)
(* anything was done; `last` is the last row learned since the clock last   *)
(* started over.                                                            *)

BreakFrom(s, h, k) == LaterOf(LastAt(s, h, k - 1) + 1, EpochAt(s, h, k))
EventsOf(s, h, k)  == UNION {EventsAt(s, h, i) : i \in BreakFrom(s, h, k) .. k}

\* Row k is to be learned by row n, and is learned before another.
DueBy(s, h, k, n) ==
  IF Lab(s) THEN h[n].at >= h[k].label
  ELSE /\ Emb(s) => Time(s, h, n) - Time(s, h, k) >= s.by
       /\ Frm(s) => Rank(s, h, k, n) <= Closed(s, h, n)
Earlier(s, h, j, k) ==
  IF Lab(s) THEN h[j].label < h[k].label \/ (h[j].label = h[k].label /\ j < k)
  ELSE j < k

\* The step a row is learned over, and whether a gap is told with it.
LabelStep(h, x) == h[x.queue[1]].label - h[x.last].label
LearnStep(s, h, x) ==
  IF ~Lab(s) THEN DAt(s, h, x.queue[1])
  ELSE IF x.last = 0 THEN 0 ELSE Lesser(LabelStep(h, x), s.clk.cap)
LearnEvents(s, h, x) ==
  IF ~Lab(s) THEN EventsOf(s, h, x.queue[1])
  ELSE IF x.last # 0 /\ LabelStep(h, x) > s.clk.cap THEN {"gap"} ELSE {}
FreshOf(s, h, k) == IF Lab(s) THEN 0 ELSE FreshAt(s, h, k)
CutBefore(s, h, q) ==
  IF Lab(s) \/ q = <<>> THEN <<>> ELSE <<DAt(s, h, q[1]) - FreshAt(s, h, q[1])>>

\* A clock reset drops what is held.
Emptied(s, h, x, k) ==
  IF ~ResetAt(s, h, k) THEN x
  ELSE [x EXCEPT !.queue = <<>>, !.last = 0,
                 !.dropped = @ + IF Lab(s) THEN Len(x.queue) ELSE 0]

Skips(s, h, x, p, y) ==
  LET k == x.row + 1
  IN  /\ k \in 1 .. Len(h) /\ ~h[k].accept
      /\ p.kind = "skip" /\ p.id = k /\ p.reset = ResetAt(s, h, k) /\ p.events = {}
      /\ y = [Emptied(s, h, x, k) EXCEPT !.row = k, !.now = k]

Learned(x, n) ==
  [x EXCEPT !.queue = Tail(@), !.learnt = Append(@, x.queue[1]), !.now = n, !.last = x.queue[1]]
Learns(s, h, x, p, y) ==
  LET n == x.row + 1
  IN  /\ n \in 1 .. Len(h) /\ h[n].accept /\ ~ResetAt(s, h, n)
      /\ x.queue # <<>> /\ DueBy(s, h, x.queue[1], n)
      /\ p.kind = "learn" /\ p.id = x.queue[1] /\ p.at = n /\ p.reset = FALSE
      /\ p.d = LearnStep(s, h, x) /\ p.fresh = FreshOf(s, h, x.queue[1])
      /\ p.events = LearnEvents(s, h, x)
      /\ y = Learned(x, n)

\* The row goes into the queue at its place, if it is held, and the one dropped
\* for it out of it.
Overflows(s, q) == Lab(s) /\ s.maxHeld > 0 /\ Len(q) + 1 > s.maxHeld
PutIn(s, h, q, p) ==
  LET with == InsertAt(q, p.at, p.id)
  IN  /\ p.at \in 1 .. Len(q) + 1
      /\ \A i \in 1 .. Len(q) : i < p.at <=> Earlier(s, h, q[i], p.id)
      /\ p.drop \in 0 .. Len(q) + 1
      /\ p.drop # 0 <=> Overflows(s, q)
      /\ p.drop # 0 => s.dropOldest
Scored(x, k, p) ==
  IF ~p.held THEN [x EXCEPT !.row = k, !.now = k]
  ELSE [x EXCEPT !.row = k, !.now = k, !.queue = Record(@, p), !.dropped = @ + One(p.drop # 0)]
Scores(s, h, x, p, y) ==
  LET k == x.row + 1
      w == Emptied(s, h, x, k)
  IN  /\ k \in 1 .. Len(h) /\ h[k].accept
      /\ w.queue # <<>> => ~DueBy(s, h, w.queue[1], k)
      /\ p.kind = "score" /\ p.id = k /\ p.reset = ResetAt(s, h, k) /\ p.events = {}
      /\ p.d = DAt(s, h, k) /\ p.fresh = FreshAt(s, h, k)
      /\ p.cut = CutBefore(s, h, w.queue)
      /\ p.held \in BOOLEAN /\ (p.held <=> HasLesson(s, h[k]))
      /\ p.held => PutIn(s, h, w.queue, p)
      /\ y = Scored(w, k, p)

Booked(s, h, x, p, y) ==
  Skips(s, h, x, p, y) \/ Learns(s, h, x, p, y) \/ Scores(s, h, x, p, y)

\* What a stream that was not refused has: no step back left but those that
\* restart the clock, no window closed that is not open, and no label before
\* its row.
Legal(s, h) ==
  \A k \in 1 .. Len(h) :
    /\ StepsOn(s, h, k) /\ ClosesIn(s, h, k)
    /\ Lab(s) /\ h[k].accept /\ h[k].label # NoLabel => h[k].at <= h[k].label

-----------------------------------------------------------------------------
(* What is true of the ledger at every place: of an epoch that began at row *)
(* e, once the rows up to r were scored or skipped and what was due by row  *)
(* n could be learned.                                                      *)

Ledger(h, x) ==
  /\ x = [queue |-> x.queue, learnt |-> x.learnt, row |-> x.row, now |-> x.now,
          last |-> x.last, dropped |-> x.dropped]
  /\ x.row \in 0 .. Len(h) /\ x.now \in x.row .. x.row + 1 /\ x.now <= Len(h)
  /\ x.queue \in Seq(1 .. x.row) /\ x.learnt \in Seq(1 .. x.row)
  /\ x.last \in 0 .. x.row /\ x.dropped \in Nat

\* The rows held are the epoch's, with a lesson, in their order.
InQueue(s, h, x, e) ==
  /\ \A i \in 1 .. Len(x.queue) : x.queue[i] >= e /\ HasLesson(s, h[x.queue[i]])
  /\ \A j \in 1 .. Len(x.queue) : \A i \in 1 .. j - 1 : Earlier(s, h, x.queue[i], x.queue[j])

\* Those learned were due, and come before those held.
InLearnt(s, h, x, e, n) ==
  LET m == Len(x.learnt)
  IN  /\ x.last = 0 => \A i \in 1 .. m : x.learnt[i] < e
      /\ x.last # 0 => /\ m > 0 /\ x.last = x.learnt[m] /\ x.last >= e
                       /\ \A i \in 1 .. Len(x.queue) : Earlier(s, h, x.last, x.queue[i])
      /\ \A i \in 1 .. m : x.learnt[i] >= e =>
           HasLesson(s, h[x.learnt[i]]) /\ DueBy(s, h, x.learnt[i], n)
      /\ m > 1 /\ x.learnt[m - 1] >= e => Earlier(s, h, x.learnt[m - 1], x.learnt[m])

\* None is lost but what is counted.
Held(x)  == {x.queue[i] : i \in 1 .. Len(x.queue)}
Taken(x) == {x.learnt[i] : i \in 1 .. Len(x.learnt)}
Kept(s, h, x, e, r) ==
  ~Lab(s) \/ ~s.dropOldest =>
    \A k \in e .. r : HasLesson(s, h[k]) => k \in Taken(x) \cup Held(x)
Counted(s, h, x, r) ==
  Lab(s) => /\ Lessons(s, h, r) = Len(x.learnt) + Len(x.queue) + x.dropped
            /\ s.maxHeld > 0 => Len(x.queue) <= s.maxHeld

\* Held in the order they came, they are the accepted rows after the last one
\* learned.
Frontier(x, e) == IF x.last = 0 THEN e - 1 ELSE x.last
InLine(s, h, x, e, r) ==
  ~Lab(s) \/ s.by > 0 =>
    /\ Frontier(x, e) <= r
    /\ Len(x.queue) = Count(s, h, r) - Count(s, h, Frontier(x, e))
    /\ \A i \in 1 .. Len(x.queue) :
         Count(s, h, x.queue[i]) = Count(s, h, Frontier(x, e)) + i
    /\ \A k \in e .. r : k \in Taken(x) <=> k <= Frontier(x, e) /\ h[k].accept

Books(s, h, x, e, r, n) ==
  /\ InQueue(s, h, x, e) /\ InLearnt(s, h, x, e, n)
  /\ Kept(s, h, x, e, r) /\ Counted(s, h, x, r) /\ InLine(s, h, x, e, r)

\* No row before the last one scored is left due.
NotDue(s, h, x) ==
  x.now = x.row /\ x.row > 0 /\ h[x.row].accept =>
    \A i \in 1 .. Len(x.queue) : x.queue[i] # x.row => ~DueBy(s, h, x.queue[i], x.row)

Sound(s, h, x) ==
  /\ Ledger(h, x) /\ EpochAt(s, h, x.row) = EpochAt(s, h, x.now)
  /\ Books(s, h, x, EpochAt(s, h, x.row), x.row, x.now) /\ NotDue(s, h, x)

\* Under a label clock the rows of an epoch come in the order of their clock.
LEMMA AtsRise ==
  ASSUME NEW s \in Settings, NEW h \in Streams(s), Legal(s, h), Lab(s),
         NEW n \in 1 .. Len(h), NEW m \in EpochAt(s, h, n) .. n
  PROVE  h[m].at <= h[n].at
<1>1. Len(h) \in Nat /\ n \in 0 .. Len(h)
  BY DEF Streams
<1>2. EpochAt(s, h, n) \in Nat /\ EpochAt(s, h, n) >= 1
      /\ \A j \in EpochAt(s, h, n) + 1 .. n : ~ResetAt(s, h, j)
  BY <1>1, EpochIs
<1>3. m \in Nat /\ m >= 1 /\ m <= n /\ n \in Nat /\ n <= Len(h)
  BY <1>1, <1>2
<1> DEFINE T == {i \in m .. n : h[m].at <= h[i].at}
<1>4. m \in T
  <2>1. m \in 1 .. Len(h) /\ m \in m .. n
    BY <1>1, <1>3
  <2>2. h[m].at \in Int
    BY <2>1, RowIs
  <2> QED BY <2>1, <2>2
<1>5. ASSUME NEW i \in m + 1 .. n, i - 1 \in T PROVE i \in T
  <2>1. /\ i \in 1 .. Len(h) /\ i - 1 \in 1 .. Len(h) /\ i > 1 /\ i \in m .. n
        /\ i \in EpochAt(s, h, n) + 1 .. n /\ m \in 1 .. Len(h)
    BY <1>1, <1>2, <1>3
  <2>2. ~ResetAt(s, h, i)
    BY <1>2, <2>1
  <2>3. s.clk.column /\ s.clk.gap = "none"
    BY SettingIs
  <2>4. h[i] \in s.rows /\ h[i - 1] \in s.rows
    BY <2>1, RowIs
  <2>5. h[i].session = 0 /\ h[i - 1].session = 0
    <3>1. \A r \in s.rows : r.session # 0 <=> s.clk.gap # "none"
      BY SettingIs
    <3> QED BY <2>3, <2>4, <3>1
  <2>6. ~NewSession(h[i - 1], h[i])
    BY <2>5 DEF NewSession
  <2>7. h[i - 1].at <= h[i].at
    BY <2>1, <2>2, <2>3, <2>6 DEF Legal, StepsOn
  <2>8. h[m].at \in Int /\ h[i].at \in Int /\ h[i - 1].at \in Int
    BY <2>1, RowIs
  <2> QED BY <1>5, <2>1, <2>7, <2>8
<1>6. n \in T
  <2> HIDE DEF T
  <2>1. m \in Int /\ n \in Int /\ n \in m .. n
    BY <1>3
  <2>2. m .. n \subseteq T
    BY <1>4, <1>5, <2>1, Along
  <2> QED BY <2>1, <2>2
<1> QED BY <1>6

\* What is due stays due, until the clock starts over.
LEMMA DueGrows ==
  ASSUME NEW s \in Settings, NEW h \in Streams(s), Legal(s, h),
         NEW n \in 1 .. Len(h), NEW m \in 1 .. n, EpochAt(s, h, m) = EpochAt(s, h, n),
         NEW j \in 1 .. m, j >= EpochAt(s, h, n), DueBy(s, h, j, m)
  PROVE  DueBy(s, h, j, n)
<1>1. /\ Len(h) \in Nat /\ n \in Nat /\ m \in Nat /\ j \in Nat /\ n \in 0 .. Len(h)
      /\ m \in 0 .. Len(h) /\ j \in 0 .. Len(h) /\ m <= n /\ j \in 1 .. Len(h)
      /\ m \in 1 .. Len(h) /\ n \in m .. Len(h)
  <2>1. Len(h) \in Nat
    BY DEF Streams
  <2> QED BY <2>1
<1> DEFINE e == EpochAt(s, h, n)
<1>2. e \in Nat /\ e >= 1 /\ e <= m
  <2>1. EpochAt(s, h, m) \in Nat /\ EpochAt(s, h, m) >= 1 /\ EpochAt(s, h, m) <= m
    BY <1>1, EpochIs
  <2> QED BY <2>1
<1>3. CASE Lab(s)
  <2>1. m \in e .. n
    BY <1>1, <1>2
  <2>2. h[m].at <= h[n].at
    BY <1>3, <2>1, AtsRise
  <2>3. h[m].at \in Int /\ h[n].at \in Int /\ h[j].label \in Int
    BY <1>1, RowIs
  <2>4. h[m].at >= h[j].label
    BY <1>3 DEF DueBy
  <2>5. h[n].at >= h[j].label
    BY <2>2, <2>3, <2>4
  <2> QED BY <1>3, <2>5 DEF DueBy
<1>4. CASE ~Lab(s)
  <2>1. ASSUME Emb(s) PROVE Time(s, h, n) - Time(s, h, j) >= s.by
    <3>1. Time(s, h, m) - Time(s, h, j) >= s.by
      BY <1>4, <2>1 DEF DueBy
    <3>2. Time(s, h, m) <= Time(s, h, n)
      BY <1>1, MarksRise
    <3>3. Time(s, h, m) \in Nat /\ Time(s, h, n) \in Nat /\ Time(s, h, j) \in Nat /\ s.by \in Nat
      BY <1>1, MarkIs, SettingIs
    <3>4. \A a, b, c, d \in Nat : a - b >= d /\ a <= c => c - b >= d
      OBVIOUS
    <3> QED BY <3>1, <3>2, <3>3, <3>4
  <2>2. ASSUME Frm(s) PROVE Rank(s, h, j, n) <= Closed(s, h, n)
    <3>1. Rank(s, h, j, m) <= Closed(s, h, m)
      BY <1>4, <2>2 DEF DueBy
    <3>2. Rank(s, h, j, n) = Rank(s, h, j, m)
      BY DEF Rank
    <3>3. Closed(s, h, m) = Shut(s, h, m) - Shut(s, h, e) /\ Closed(s, h, n) = Shut(s, h, n) - Shut(s, h, e)
      BY <1>1 DEF Closed
    <3>4. Shut(s, h, m) <= Shut(s, h, n)
      BY <1>1, MarksRise
    <3>5. Rank(s, h, j, m) = Count(s, h, j) - Count(s, h, e - 1)
      BY DEF Rank
    <3>6. /\ Shut(s, h, m) \in Nat /\ Shut(s, h, n) \in Nat /\ Shut(s, h, e) \in Nat
          /\ Count(s, h, j) \in Nat /\ Count(s, h, e - 1) \in Nat
      <4>1. e \in 0 .. Len(h) /\ e - 1 \in 0 .. Len(h)
        BY <1>1, <1>2
      <4> HIDE DEF e
      <4> QED BY <1>1, <4>1, MarkIs
    <3>7. \A a, b, c, d, g \in Nat : a - b <= c - d /\ c <= g => a - b <= g - d
      OBVIOUS
    <3> HIDE DEF e
    <3> QED BY <3>1, <3>2, <3>3, <3>4, <3>5, <3>6, <3>7
  <2> QED BY <1>4, <2>1, <2>2 DEF DueBy
<1> QED BY <1>3, <1>4

\* A row is due when one that comes after it is.
LEMMA DueOrder ==
  ASSUME NEW s \in Settings, NEW h \in Streams(s), NEW n \in 1 .. Len(h),
         NEW j \in 1 .. n, NEW k \in 1 .. n, Earlier(s, h, j, k), DueBy(s, h, k, n)
  PROVE  DueBy(s, h, j, n)
<1>1. /\ Len(h) \in Nat /\ n \in Nat /\ j \in Nat /\ k \in Nat /\ n \in 0 .. Len(h)
      /\ j \in 0 .. Len(h) /\ k \in 0 .. Len(h) /\ j \in 1 .. Len(h) /\ k \in 1 .. Len(h)
  <2>1. Len(h) \in Nat
    BY DEF Streams
  <2> QED BY <2>1
<1>2. CASE Lab(s)
  <2>1. h[j].label \in Int /\ h[k].label \in Int /\ h[n].at \in Int
    BY <1>1, RowIs
  <2>2. h[j].label <= h[k].label /\ h[n].at >= h[k].label
    BY <1>2, <2>1 DEF Earlier, DueBy
  <2>3. h[n].at >= h[j].label
    BY <2>1, <2>2
  <2> QED BY <1>2, <2>3 DEF DueBy
<1>3. CASE ~Lab(s)
  <2>1. k \in j .. Len(h)
    BY <1>1, <1>3 DEF Earlier
  <2>2. Time(s, h, j) <= Time(s, h, k) /\ Count(s, h, j) <= Count(s, h, k)
    BY <1>1, <2>1, MarksRise
  <2>3. /\ Time(s, h, j) \in Nat /\ Time(s, h, k) \in Nat /\ Time(s, h, n) \in Nat /\ s.by \in Nat
        /\ Count(s, h, j) \in Nat /\ Count(s, h, k) \in Nat
    BY <1>1, MarkIs, SettingIs
  <2>4. ASSUME Emb(s) PROVE Time(s, h, n) - Time(s, h, j) >= s.by
    <3>1. Time(s, h, n) - Time(s, h, k) >= s.by
      BY <1>3, <2>4 DEF DueBy
    <3>2. \A a, b, c, d \in Nat : c - b >= d /\ a <= b => c - a >= d
      OBVIOUS
    <3> QED BY <2>2, <2>3, <3>1, <3>2
  <2>5. ASSUME Frm(s) PROVE Rank(s, h, j, n) <= Closed(s, h, n)
    <3>1. Rank(s, h, k, n) <= Closed(s, h, n)
      BY <1>3, <2>5 DEF DueBy
    <3>2. EpochAt(s, h, n) - 1 \in 0 .. Len(h)
      <4>1. EpochAt(s, h, n) \in Nat /\ EpochAt(s, h, n) >= 1 /\ EpochAt(s, h, n) <= n
        BY <1>1, EpochIs
      <4> QED BY <1>1, <4>1
    <3>3. Count(s, h, EpochAt(s, h, n) - 1) \in Nat
      BY <3>2, MarkIs
    <3>4. Closed(s, h, n) \in Nat
      BY RanksOf
    <3>5. \A a, b, c, d \in Nat : b - c <= d /\ a <= b => a - c <= d
      OBVIOUS
    <3>6. Count(s, h, j) - Count(s, h, EpochAt(s, h, n) - 1) <= Closed(s, h, n)
      BY <2>2, <2>3, <3>1, <3>3, <3>4, <3>5 DEF Rank
    <3> QED BY <3>6 DEF Rank
  <2> QED BY <1>3, <2>4, <2>5 DEF DueBy
<1> QED BY <1>2, <1>3

\* The rows are in one order.
LEMMA EarlierIs ==
  ASSUME NEW s \in Settings, NEW h \in Streams(s),
         NEW j \in 1 .. Len(h), NEW k \in 1 .. Len(h)
  PROVE  /\ ~(Earlier(s, h, j, k) /\ Earlier(s, h, k, j))
         /\ j # k => Earlier(s, h, j, k) \/ Earlier(s, h, k, j)
         /\ ~Earlier(s, h, j, j)
         /\ \A i \in 1 .. Len(h) : Earlier(s, h, i, j) /\ Earlier(s, h, j, k) => Earlier(s, h, i, k)
<1>1. \A i \in 1 .. Len(h) : h[i].label \in Int /\ i \in Int
  BY RowIs
<1> QED BY <1>1 DEF Earlier

-----------------------------------------------------------------------------
(* The ledger over a step.                                                  *)

\* Before a row: what a clock reset at the row leaves.
EmptiedTo(s, h, x, k, w) ==
  /\ w.queue = (IF ResetAt(s, h, k) THEN <<>> ELSE x.queue)
  /\ w.last = (IF ResetAt(s, h, k) THEN 0 ELSE x.last)
  /\ w.dropped =
       (IF ResetAt(s, h, k) /\ Lab(s) THEN x.dropped + Len(x.queue) ELSE x.dropped)
  /\ w.learnt = x.learnt /\ w.row = x.row /\ w.now = x.now
LEMMA EmptiedFields ==
  ASSUME NEW s, NEW h, NEW x, NEW k, Ledger(h, x)
  PROVE  EmptiedTo(s, h, x, k, Emptied(s, h, x, k)) /\ Ledger(h, Emptied(s, h, x, k))
<1> DEFINE w == Emptied(s, h, x, k)
<1>1. /\ x = [queue |-> x.queue, learnt |-> x.learnt, row |-> x.row, now |-> x.now,
              last |-> x.last, dropped |-> x.dropped]
      /\ x.row \in Nat /\ x.queue \in Seq(1 .. x.row) /\ Len(x.queue) \in Nat
      /\ x.dropped \in Nat
  BY DEF Ledger
<1>2. CASE ~ResetAt(s, h, k)
  <2>1. w = x
    BY <1>2 DEF Emptied
  <2> HIDE DEF w
  <2>2. EmptiedTo(s, h, x, k, w) /\ Ledger(h, w)
    BY <1>2, <2>1 DEF EmptiedTo
  <2> QED BY <2>2 DEF w
<1>3. CASE ResetAt(s, h, k)
  <2> DEFINE z == IF Lab(s) THEN Len(x.queue) ELSE 0
  <2>1. z \in Nat /\ (Lab(s) => z = Len(x.queue)) /\ (~Lab(s) => z = 0)
    BY <1>1
  <2>2. w = [x EXCEPT !.queue = <<>>, !.last = 0, !.dropped = @ + z]
    BY <1>3 DEF Emptied
  <2> HIDE DEF w, z
  <2>3. w = [queue |-> <<>>, learnt |-> x.learnt, row |-> x.row, now |-> x.now,
             last |-> 0, dropped |-> x.dropped + z]
    BY <1>1, <2>2
  <2>4. w.queue = <<>> /\ w.learnt = x.learnt /\ w.row = x.row /\ w.now = x.now
        /\ w.last = 0 /\ w.dropped = x.dropped + z
    BY <2>3
  <2>5. x.dropped + 0 = x.dropped
    BY <1>1
  <2>6. w.dropped = (IF ResetAt(s, h, k) /\ Lab(s) THEN x.dropped + Len(x.queue) ELSE x.dropped)
    BY <1>3, <2>1, <2>4, <2>5
  <2>7. <<>> \in Seq(1 .. x.row) /\ 0 \in 0 .. x.row /\ x.dropped + z \in Nat
    BY <1>1, <2>1, EmptySeq
  <2>8. Ledger(h, w)
    <3>1. /\ x.row \in 0 .. Len(h) /\ x.now \in x.row .. x.row + 1 /\ x.now <= Len(h)
          /\ x.learnt \in Seq(1 .. x.row)
      BY DEF Ledger
    <3> QED BY <2>3, <2>4, <2>7, <3>1 DEF Ledger
  <2>9. EmptiedTo(s, h, x, k, w)
    BY <1>3, <2>4, <2>6 DEF EmptiedTo
  <2> QED BY <2>8, <2>9 DEF w
<1> QED BY <1>2, <1>3

LEMMA EmptiedIs ==
  ASSUME NEW s \in Settings, NEW h \in Streams(s), Legal(s, h),
         NEW x, Sound(s, h, x), NEW k, k = x.row + 1, k \in 1 .. Len(h)
  PROVE  /\ Books(s, h, Emptied(s, h, x, k), EpochAt(s, h, k), k - 1, k)
         /\ EpochAt(s, h, k) \in 1 .. k
         /\ EpochAt(s, h, k) = IF ResetAt(s, h, k) THEN k ELSE EpochAt(s, h, x.row)
<1> DEFINE w == Emptied(s, h, x, k)
           e == EpochAt(s, h, k)
<1>1. /\ Len(h) \in Nat /\ x.row \in Nat /\ x.row = k - 1 /\ x.row \in 0 .. Len(h)
      /\ x.now \in x.row .. x.row + 1 /\ x.queue \in Seq(1 .. x.row)
      /\ x.learnt \in Seq(1 .. x.row) /\ Ledger(h, x) /\ k \in Nat /\ x.dropped \in Nat
  <2>1. Len(h) \in Nat
    BY DEF Streams
  <2>2. Ledger(h, x)
    BY DEF Sound
  <2>3. /\ x.row \in 0 .. Len(h) /\ x.now \in x.row .. x.row + 1 /\ x.queue \in Seq(1 .. x.row)
        /\ x.learnt \in Seq(1 .. x.row) /\ x.dropped \in Nat
    BY <2>2 DEF Ledger
  <2>4. x.row \in Nat /\ x.row = k - 1 /\ k \in Nat
    <3>1. x.row \in 0 .. Len(h)
      BY <2>3
    <3> QED BY <2>1, <3>1
  <2> HIDE DEF w, e
  <2> QED BY ONLY <2>1, <2>2, <2>3, <2>4
<1>2. e = IF ResetAt(s, h, k) THEN k ELSE EpochAt(s, h, x.row)
  BY <1>1, MarkNext
<1>3. e \in 1 .. k
  <2>1. EpochAt(s, h, k) \in Nat /\ EpochAt(s, h, k) >= 1 /\ EpochAt(s, h, k) <= k
    BY <1>1, EpochIs
  <2> QED BY <1>1, <2>1
<1>4. /\ w.queue = (IF ResetAt(s, h, k) THEN <<>> ELSE x.queue)
      /\ w.last = (IF ResetAt(s, h, k) THEN 0 ELSE x.last)
      /\ w.dropped = (IF ResetAt(s, h, k) /\ Lab(s) THEN x.dropped + Len(x.queue)
                      ELSE x.dropped)
      /\ w.learnt = x.learnt
  <2>1. EmptiedTo(s, h, x, k, w)
    BY <1>1, EmptiedFields
  <2> HIDE DEF w
  <2> QED BY <2>1 DEF EmptiedTo
<1>5. Books(s, h, x, EpochAt(s, h, x.row), x.row, x.now) /\ EpochAt(s, h, x.row) = EpochAt(s, h, x.now)
  BY DEF Sound
<1>6. ASSUME ~ResetAt(s, h, k) PROVE Books(s, h, w, e, k - 1, k)
  <2>1. w = x /\ e = EpochAt(s, h, x.row)
    BY <1>2, <1>6 DEF Emptied
  <2>2. InLearnt(s, h, x, e, k)
    <3>1. InLearnt(s, h, x, e, x.now)
      BY <1>5, <2>1 DEF Books
    <3>2. ASSUME NEW i \in 1 .. Len(x.learnt), x.learnt[i] >= e
          PROVE  HasLesson(s, h[x.learnt[i]]) /\ DueBy(s, h, x.learnt[i], k)
      <4>1. HasLesson(s, h[x.learnt[i]]) /\ DueBy(s, h, x.learnt[i], x.now)
        BY <3>1, <3>2 DEF InLearnt
      <4>2. x.learnt[i] \in 1 .. x.row
        BY <1>1, ElementOfSeq
      <4>3. x.now \in 1 .. k /\ x.learnt[i] \in 1 .. x.now
        <5>1. \A r, n, l \in Int : l \in 1 .. r /\ n \in r .. r + 1 => n \in 1 .. r + 1 /\ l \in 1 .. n
          OBVIOUS
        <5>2. x.row \in Int /\ x.now \in Int /\ x.learnt[i] \in Int /\ k = x.row + 1
          BY <1>1, <4>2
        <5> QED BY <1>1, <4>2, <5>1, <5>2
      <4>4. EpochAt(s, h, x.now) = EpochAt(s, h, k)
        BY <1>5, <2>1
      <4>5. DueBy(s, h, x.learnt[i], k)
        BY <3>2, <4>1, <4>3, <4>4, DueGrows
      <4> QED BY <4>1, <4>5
    <3> HIDE DEF e
    <3> QED BY <3>1, <3>2 DEF InLearnt
  <2> HIDE DEF w, e
  <2> QED BY <1>1, <1>5, <2>1, <2>2 DEF Books
<1>7. ASSUME ResetAt(s, h, k) PROVE Books(s, h, w, e, k - 1, k)
  <2>1. w.queue = <<>> /\ w.last = 0 /\ w.learnt = x.learnt /\ e = k /\ Len(w.queue) = 0
    BY <1>2, <1>4, <1>7
  <2>2. \A i \in 1 .. Len(x.learnt) : x.learnt[i] < k
    <3>1. \A i \in 1 .. Len(x.learnt) : x.learnt[i] \in 1 .. x.row
      BY <1>1, ElementOfSeq
    <3> QED BY <1>1, <3>1
  <2>3. Lab(s) => w.dropped = x.dropped + Len(x.queue)
    BY <1>4, <1>7
  <2>4. Len(x.learnt) \in Nat /\ Len(x.queue) \in Nat /\ s.maxHeld \in Nat
    BY <1>1, SettingIs
  <2>5. Counted(s, h, x, k - 1)
    BY <1>1, <1>5 DEF Books
  <2>6. Count(s, h, k - 1) \in Nat
    BY <1>1, MarkIs
  <2> HIDE DEF w, e
  <2>7. InQueue(s, h, w, e)
    BY <2>1 DEF InQueue
  <2>8. InLearnt(s, h, w, e, k)
    <3>1. \A i \in 1 .. Len(x.learnt) : ~(x.learnt[i] >= k)
      <4>1. \A i \in 1 .. Len(x.learnt) : x.learnt[i] \in 1 .. x.row
        BY <1>1, ElementOfSeq
      <4> QED BY <1>1, <4>1
    <3>2. Len(x.learnt) > 1 => ~(x.learnt[Len(x.learnt) - 1] >= k)
      <4>1. Len(x.learnt) > 1 => Len(x.learnt) - 1 \in 1 .. Len(x.learnt)
        BY <2>4
      <4> QED BY <3>1, <4>1
    <3> QED BY <2>1, <2>2, <3>1, <3>2 DEF InLearnt
  <2>13. \A j \in e .. k - 1 : FALSE
    <3>1. e = k /\ k \in Nat
      BY <1>1, <2>1
    <3> QED BY <3>1
  <2>9. Kept(s, h, w, e, k - 1)
    BY <2>13 DEF Kept
  <2>10. Counted(s, h, w, k - 1)
    <3>1. ASSUME Lab(s)
          PROVE  /\ Lessons(s, h, k - 1) = Len(w.learnt) + Len(w.queue) + w.dropped
                 /\ s.maxHeld > 0 => Len(w.queue) <= s.maxHeld
      <4>1. Lessons(s, h, k - 1) = Len(x.learnt) + Len(x.queue) + x.dropped
        BY <2>5, <3>1 DEF Counted
      <4>2. w.learnt = x.learnt /\ Len(w.queue) = 0 /\ w.dropped = x.dropped + Len(x.queue)
        BY <2>1, <2>3, <3>1
      <4>3. \A a, b, c \in Nat : a + b + c = a + 0 + (c + b)
        OBVIOUS
      <4>4. x.dropped \in Nat
        BY <1>1
      <4>5. Len(x.learnt) + Len(x.queue) + x.dropped = Len(x.learnt) + 0 + (x.dropped + Len(x.queue))
        BY <2>4, <4>3, <4>4
      <4>6. Lessons(s, h, k - 1) = Len(w.learnt) + Len(w.queue) + w.dropped
        BY <4>1, <4>2, <4>5
      <4>7. s.maxHeld > 0 => Len(w.queue) <= s.maxHeld
        <5>1. s.maxHeld \in Nat /\ Len(w.queue) = 0
          BY <2>4, <4>2
        <5> QED BY <5>1
      <4> QED BY <4>6, <4>7
    <3> QED BY <3>1 DEF Counted
  <2>11. InLine(s, h, w, e, k - 1)
    <3>1. Frontier(w, e) = k - 1
      BY <2>1 DEF Frontier
    <3> QED BY <1>1, <2>1, <2>6, <2>13, <3>1 DEF InLine
  <2> QED BY <2>7, <2>8, <2>9, <2>10, <2>11 DEF Books
<1> QED BY <1>2, <1>3, <1>6, <1>7

UpToRow(x, r) ==
  /\ x.queue \in Seq(1 .. r) /\ x.learnt \in Seq(1 .. r)
  /\ x.last \in 0 .. r /\ x.dropped \in Nat

\* In line, a lesson is what an accepted row has.
LEMMA LineLessons ==
  ASSUME NEW s \in Settings, NEW h \in Streams(s), NEW k \in 1 .. Len(h), ~Lab(s) \/ s.by > 0
  PROVE  HasLesson(s, h[k]) <=> h[k].accept
<1>1. h[k] \in s.rows /\ h[k].accept \in BOOLEAN
  BY RowIs
<1>2. Lab(s) => h[k].label # NoLabel /\ h[k].w > 0
  BY <1>1, SettingIs
<1> QED BY <1>1, <1>2 DEF HasLesson

\* A row with nothing to teach changes nothing.
LEMMA SkipBooks ==
  ASSUME NEW s \in Settings, NEW h \in Streams(s), NEW k \in 1 .. Len(h), NEW e \in 1 .. k,
         NEW w, UpToRow(w, k - 1), Books(s, h, w, e, k - 1, k), ~HasLesson(s, h[k]),
         NEW y, y.queue = w.queue, y.learnt = w.learnt, y.last = w.last, y.dropped = w.dropped
  PROVE  Books(s, h, y, e, k, k)
<1>1. /\ Len(h) \in Nat /\ k \in Nat /\ k - 1 \in 0 .. Len(h) /\ e \in Nat
      /\ w.learnt \in Seq(1 .. k - 1) /\ w.last \in 0 .. k - 1 /\ h[k].accept \in BOOLEAN
  <2>1. Len(h) \in Nat
    BY DEF Streams
  <2>2. w.learnt \in Seq(1 .. k - 1) /\ w.last \in 0 .. k - 1
    BY DEF UpToRow
  <2>3. h[k].accept \in BOOLEAN
    BY RowIs
  <2> QED BY <2>1, <2>2, <2>3
<1>2. Held(y) = Held(w) /\ Taken(y) = Taken(w) /\ Frontier(y, e) = Frontier(w, e)
  BY DEF Held, Taken, Frontier
<1>3. InQueue(s, h, y, e) /\ InLearnt(s, h, y, e, k)
  BY DEF Books, InQueue, InLearnt
<1>4. Kept(s, h, y, e, k)
  <2>1. Kept(s, h, w, e, k - 1)
    BY DEF Books
  <2>2. ASSUME ~Lab(s) \/ ~s.dropOldest, NEW j \in e .. k, HasLesson(s, h[j])
        PROVE  j \in Taken(y) \cup Held(y)
    <3>1. j # k
      BY <2>2
    <3>2. j \in e .. k - 1
      BY <1>1, <3>1
    <3> QED BY <1>2, <2>1, <2>2, <3>2 DEF Kept
  <2> QED BY <2>2 DEF Kept
<1>5. Counted(s, h, y, k)
  <2>1. Lessons(s, h, k) = Lessons(s, h, k - 1) + One(HasLesson(s, h[k])) /\ Lessons(s, h, k - 1) \in Nat
    BY <1>1, MarkNext, MarkIs
  <2>2. One(HasLesson(s, h[k])) = 0
    BY DEF One
  <2>3. Lessons(s, h, k) = Lessons(s, h, k - 1)
    BY <2>1, <2>2
  <2>4. Counted(s, h, w, k - 1)
    BY DEF Books
  <2> QED BY <2>3, <2>4 DEF Counted
<1>6. InLine(s, h, y, e, k)
  <2> SUFFICES ASSUME ~Lab(s) \/ s.by > 0
               PROVE  /\ Frontier(y, e) <= k
                      /\ Len(y.queue) = Count(s, h, k) - Count(s, h, Frontier(y, e))
                      /\ \A i \in 1 .. Len(y.queue) :
                           Count(s, h, y.queue[i]) = Count(s, h, Frontier(y, e)) + i
                      /\ \A j \in e .. k : j \in Taken(y) <=> j <= Frontier(y, e) /\ h[j].accept
    BY DEF InLine
  <2>1. ~h[k].accept
    BY LineLessons
  <2>2. Count(s, h, k) = Count(s, h, k - 1)
    <3>1. Count(s, h, k) = Count(s, h, k - 1) + One(h[k].accept) /\ Count(s, h, k - 1) \in Nat
      BY <1>1, MarkNext, MarkIs
    <3>2. One(h[k].accept) = 0
      BY <2>1 DEF One
    <3> QED BY <3>1, <3>2
  <2>3. InLine(s, h, w, e, k - 1)
    BY DEF Books
  <2>4. Frontier(w, e) \in Int /\ Frontier(w, e) <= k - 1
    <3>1. Frontier(w, e) <= k - 1
      BY <2>3 DEF InLine
    <3> QED BY <1>1, <3>1 DEF Frontier
  <2>5. Frontier(y, e) <= k
    BY <1>1, <1>2, <2>4
  <2>6. ASSUME NEW j \in e .. k PROVE j \in Taken(y) <=> j <= Frontier(y, e) /\ h[j].accept
    <3>1. CASE j = k
      <4>1. j \notin Taken(w)
        <5>1. \A i \in 1 .. Len(w.learnt) : w.learnt[i] \in 1 .. k - 1
          BY <1>1, ElementOfSeq
        <5>2. \A i \in 1 .. Len(w.learnt) : w.learnt[i] # k
          BY <1>1, <5>1
        <5> QED BY <3>1, <5>2 DEF Taken
      <4> QED BY <1>2, <2>1, <3>1, <4>1
    <3>2. CASE j # k
      <4>1. j \in e .. k - 1
        BY <1>1, <3>2
      <4> QED BY <1>2, <2>3, <4>1 DEF InLine
    <3> QED BY <3>1, <3>2
  <2> QED BY <1>2, <2>2, <2>3, <2>5, <2>6 DEF InLine
<1> QED BY <1>3, <1>4, <1>5, <1>6 DEF Books

\* The first row held is learned.
LEMMA LearnBooks ==
  ASSUME NEW s \in Settings, NEW h \in Streams(s), NEW k \in 1 .. Len(h), NEW e \in 1 .. k,
         NEW x, UpToRow(x, k - 1), Books(s, h, x, e, k - 1, k),
         x.queue # <<>>, DueBy(s, h, x.queue[1], k),
         NEW y, y.queue = Tail(x.queue), y.learnt = Append(x.learnt, x.queue[1]),
         y.last = x.queue[1], y.dropped = x.dropped
  PROVE  UpToRow(y, k - 1) /\ Books(s, h, y, e, k - 1, k)
<1> DEFINE q == x.queue
           l == x.learnt
           d == x.queue[1]
           n == Len(x.queue)
           m == Len(x.learnt)
           F == Frontier(x, e)
<1>1. /\ Len(h) \in Nat /\ k \in Nat /\ e \in Nat /\ q \in Seq(1 .. k - 1) /\ l \in Seq(1 .. k - 1)
      /\ n \in Nat /\ n > 0 /\ m \in Nat /\ x.last \in 0 .. k - 1 /\ x.dropped \in Nat
      /\ k - 1 \in 0 .. Len(h)
  <2>1. Len(h) \in Nat
    BY DEF Streams
  <2>2. q \in Seq(1 .. k - 1) /\ l \in Seq(1 .. k - 1) /\ x.last \in 0 .. k - 1 /\ x.dropped \in Nat
    BY DEF UpToRow
  <2>3. n \in Nat /\ n > 0 /\ m \in Nat
    BY <2>2, EmptySeq
  <2> QED BY <2>1, <2>2, <2>3
<1>2. d \in 1 .. k - 1 /\ d \in 1 .. Len(h) /\ d # 0 /\ d \in 0 .. Len(h) /\ d \in Nat
  <2>1. 1 \in 1 .. n
    BY <1>1
  <2>2. d \in 1 .. k - 1
    BY <1>1, <2>1, ElementOfSeq
  <2> QED BY <1>1, <2>2
<1>3. /\ y.queue \in Seq(1 .. k - 1) /\ Len(y.queue) = n - 1
      /\ \A i \in 1 .. n - 1 : y.queue[i] = q[i + 1] /\ i + 1 \in 1 .. n
  <2>1. /\ Tail(q) \in Seq(1 .. k - 1) /\ Len(Tail(q)) = n - 1
        /\ \A i \in 1 .. Len(Tail(q)) : Tail(q)[i] = q[i + 1]
    BY <1>1, HeadTailProperties
  <2>2. \A i \in 1 .. n - 1 : i + 1 \in 1 .. n
    BY <1>1
  <2> QED BY <2>1, <2>2
<1>4. /\ y.learnt \in Seq(1 .. k - 1) /\ Len(y.learnt) = m + 1
      /\ \A i \in 1 .. m : y.learnt[i] = l[i]
      /\ y.learnt[m + 1] = d
  <2> HIDE DEF d, l
  <2>1. Append(l, d) \in Seq(1 .. k - 1) /\ Len(Append(l, d)) = m + 1
        /\ (\A i \in 1 .. m : Append(l, d)[i] = l[i]) /\ Append(l, d)[m + 1] = d
    BY <1>1, <1>2, AppendProperties DEF l
  <2>2. y.learnt = Append(l, d)
    BY DEF l, d
  <2> QED BY <2>1, <2>2
<1>5. UpToRow(y, k - 1)
  <2>1. d \in 0 .. k - 1
    BY <1>2
  <2> QED BY <1>1, <1>3, <1>4, <2>1 DEF UpToRow
<1>6. InQueue(s, h, x, e) /\ InLearnt(s, h, x, e, k)
  BY DEF Books
<1>7. d >= e /\ HasLesson(s, h[d])
  <2>1. 1 \in 1 .. n
    BY <1>1
  <2> QED BY <1>6, <2>1 DEF InQueue
<1>8. Taken(y) = Taken(x) \cup {d} /\ Held(x) = Held(y) \cup {d}
  <2> HIDE DEF d
  <2>1. ASSUME NEW j PROVE j \in Taken(y) <=> j \in Taken(x) \cup {d}
    <3>1. ASSUME j \in Taken(y) PROVE j \in Taken(x) \cup {d}
      <4>1. PICK i \in 1 .. m + 1 : j = y.learnt[i]
        BY <1>4, <3>1 DEF Taken
      <4>2. CASE i = m + 1
        BY <1>4, <4>1, <4>2
      <4>3. CASE i # m + 1
        <5>1. i \in 1 .. m
          <6>1. m \in Nat
            BY <1>1
          <6> HIDE DEF m
          <6> QED BY <6>1, <4>3
        <5> QED BY <1>4, <4>1, <5>1 DEF Taken
      <4> QED BY <4>2, <4>3
    <3>2. ASSUME j \in Taken(x) PROVE j \in Taken(y)
      <4>1. PICK i \in 1 .. m : j = l[i]
        BY <3>2 DEF Taken
      <4>2. i \in 1 .. m + 1 /\ j = y.learnt[i]
        BY <1>1, <1>4, <4>1
      <4> QED BY <1>4, <4>2 DEF Taken
    <3>3. d \in Taken(y)
      <4>1. m + 1 \in 1 .. m + 1
        BY <1>1
      <4> QED BY <1>4, <4>1 DEF Taken
    <3> QED BY <3>1, <3>2, <3>3
  <2>2. ASSUME NEW j PROVE j \in Held(x) <=> j \in Held(y) \cup {d}
    <3>1. ASSUME j \in Held(x) PROVE j \in Held(y) \cup {d}
      <4>1. PICK i \in 1 .. n : j = q[i]
        BY <3>1 DEF Held
      <4>2. CASE i = 1
        BY <4>1, <4>2 DEF d
      <4>3. CASE i # 1
        <5>1. i - 1 \in 1 .. n - 1 /\ (i - 1) + 1 = i
          BY <1>1, <4>3
        <5>2. y.queue[i - 1] = q[i]
          BY <1>3, <5>1
        <5> QED BY <1>3, <4>1, <5>1, <5>2 DEF Held
      <4> QED BY <4>2, <4>3
    <3>2. ASSUME j \in Held(y) PROVE j \in Held(x)
      <4>1. PICK i \in 1 .. n - 1 : j = y.queue[i]
        BY <1>3, <3>2 DEF Held
      <4>2. j = q[i + 1] /\ i + 1 \in 1 .. n
        BY <1>3, <4>1
      <4> QED BY <4>2 DEF Held
    <3>3. d \in Held(x)
      <4>1. 1 \in 1 .. n
        BY <1>1
      <4> QED BY <4>1 DEF Held, d
    <3> QED BY <3>1, <3>2, <3>3
  <2> QED BY <2>1, <2>2
<1>9. InQueue(s, h, y, e)
  <2>1. ASSUME NEW i \in 1 .. n - 1
        PROVE  y.queue[i] >= e /\ HasLesson(s, h[y.queue[i]])
    BY <1>3, <1>6 DEF InQueue
  <2>2. ASSUME NEW j \in 1 .. n - 1, NEW i \in 1 .. j - 1
        PROVE  Earlier(s, h, y.queue[i], y.queue[j])
    <3>1. i \in 1 .. n - 1 /\ i + 1 \in 1 .. (j + 1) - 1
      BY <1>1
    <3>2. y.queue[i] = q[i + 1] /\ y.queue[j] = q[j + 1] /\ j + 1 \in 1 .. n
      BY <1>3, <3>1
    <3> QED BY <1>6, <3>1, <3>2 DEF InQueue
  <2> QED BY <1>3, <2>1, <2>2 DEF InQueue
<1>10. InLearnt(s, h, y, e, k)
  <2>1. \A i \in 1 .. n - 1 : Earlier(s, h, d, y.queue[i])
    <3>1. ASSUME NEW i \in 1 .. n - 1 PROVE Earlier(s, h, d, y.queue[i])
      <4>1. i + 1 \in 1 .. n /\ y.queue[i] = q[i + 1]
        BY <1>3
      <4>2. 1 \in 1 .. (i + 1) - 1
        BY <1>1
      <4> QED BY <1>6, <4>1, <4>2 DEF InQueue
    <3> QED BY <3>1
  <2>2. \A i \in 1 .. m + 1 : y.learnt[i] >= e =>
          HasLesson(s, h[y.learnt[i]]) /\ DueBy(s, h, y.learnt[i], k)
    <3>1. ASSUME NEW i \in 1 .. m + 1, y.learnt[i] >= e
          PROVE  HasLesson(s, h[y.learnt[i]]) /\ DueBy(s, h, y.learnt[i], k)
      <4>1. CASE i = m + 1
        <5>1. y.learnt[i] = d
          BY <1>4, <4>1
        <5> QED BY <1>7, <5>1
      <4>2. CASE i # m + 1
        <5>1. i \in 1 .. m
          <6>1. m \in Nat
            BY <1>1
          <6> HIDE DEF m
          <6> QED BY <6>1, <4>2
        <5>2. y.learnt[i] = l[i]
          BY <1>4, <5>1
        <5> QED BY <1>6, <3>1, <5>1, <5>2 DEF InLearnt
      <4> QED BY <4>1, <4>2
    <3> QED BY <3>1
  <2>3. ASSUME m + 1 > 1, y.learnt[m] >= e PROVE Earlier(s, h, y.learnt[m], d)
    <3>1. m \in 1 .. m /\ m > 0
      BY <1>1, <2>3
    <3>2. y.learnt[m] = l[m] /\ l[m] \in 1 .. k - 1
      BY <1>1, <1>4, <3>1, ElementOfSeq
    <3>3. x.last # 0
      <4>1. ~(l[m] < e)
        BY <1>1, <2>3, <3>2
      <4> QED BY <1>6, <3>1, <4>1 DEF InLearnt
    <3>4. x.last = l[m] /\ \A i \in 1 .. n : Earlier(s, h, x.last, q[i])
      BY <1>6, <3>3 DEF InLearnt
    <3>5. 1 \in 1 .. n
      BY <1>1
    <3> QED BY <3>2, <3>4, <3>5
  <2>4. m + 1 > 0 /\ (m + 1) - 1 = m
    BY <1>1
  <2>5. y.last = y.learnt[m + 1] /\ y.last # 0 /\ y.last >= e /\ y.last = d
    BY <1>2, <1>4, <1>7
  <2> QED BY <1>3, <1>4, <2>1, <2>2, <2>3, <2>4, <2>5 DEF InLearnt
<1>11. Kept(s, h, y, e, k - 1)
  <2>1. Kept(s, h, x, e, k - 1)
    BY DEF Books
  <2> QED BY <1>8, <2>1 DEF Kept
<1>12. Counted(s, h, y, k - 1)
  <2>1. Counted(s, h, x, k - 1)
    BY DEF Books
  <2>2. s.maxHeld \in Nat
    BY SettingIs
  <2>3. ASSUME Lab(s)
        PROVE  /\ Lessons(s, h, k - 1) = Len(y.learnt) + Len(y.queue) + y.dropped
               /\ s.maxHeld > 0 => Len(y.queue) <= s.maxHeld
    <3>1. Lessons(s, h, k - 1) = m + n + x.dropped /\ (s.maxHeld > 0 => n <= s.maxHeld)
      BY <2>1, <2>3 DEF Counted
    <3>2. \A a, b, c \in Nat : b > 0 => a + b + c = (a + 1) + (b - 1) + c
      OBVIOUS
    <3>3. m + n + x.dropped = (m + 1) + (n - 1) + x.dropped
      BY <1>1, <3>2
    <3>4. s.maxHeld > 0 => n - 1 <= s.maxHeld
      BY <1>1, <2>2, <3>1
    <3> QED BY <1>3, <1>4, <3>1, <3>3, <3>4
  <2> QED BY <2>3 DEF Counted
<1>13. InLine(s, h, y, e, k - 1)
  <2> SUFFICES ASSUME ~Lab(s) \/ s.by > 0
               PROVE  /\ Frontier(y, e) <= k - 1
                      /\ Len(y.queue) = Count(s, h, k - 1) - Count(s, h, Frontier(y, e))
                      /\ \A i \in 1 .. Len(y.queue) :
                           Count(s, h, y.queue[i]) = Count(s, h, Frontier(y, e)) + i
                      /\ \A j \in e .. k - 1 : j \in Taken(y) <=> j <= Frontier(y, e) /\ h[j].accept
    BY DEF InLine
  <2>1. Frontier(y, e) = d
    BY <1>2 DEF Frontier
  <2>2. /\ F <= k - 1 /\ n = Count(s, h, k - 1) - Count(s, h, F)
        /\ \A i \in 1 .. n : Count(s, h, q[i]) = Count(s, h, F) + i
        /\ \A j \in e .. k - 1 : j \in Taken(x) <=> j <= F /\ h[j].accept
    BY DEF Books, InLine
  <2>3. F \in Nat /\ F \in 0 .. Len(h)
    <3>1. F \in Nat
      BY <1>1 DEF Frontier
    <3> QED BY <1>1, <2>2, <3>1
  <2> HIDE DEF F, d
  <2>4. /\ Count(s, h, d) \in Nat /\ Count(s, h, F) \in Nat /\ Count(s, h, k - 1) \in Nat
    BY <1>1, <1>2, <2>3, MarkIs
  <2>5. Count(s, h, d) = Count(s, h, F) + 1
    <3>1. 1 \in 1 .. n
      BY <1>1
    <3> QED BY <2>2, <3>1 DEF d
  <2>6. n - 1 = Count(s, h, k - 1) - Count(s, h, d)
    BY <1>1, <2>2, <2>4, <2>5
  <2>7. ASSUME NEW i \in 1 .. n - 1 PROVE Count(s, h, y.queue[i]) = Count(s, h, d) + i
    <3>1. y.queue[i] = q[i + 1] /\ i + 1 \in 1 .. n
      BY <1>3
    <3>2. Count(s, h, q[i + 1]) = Count(s, h, F) + (i + 1)
      BY <2>2, <3>1
    <3>3. \A a, b, c \in Nat : a = b + 1 => b + (c + 1) = a + c
      OBVIOUS
    <3>4. i \in Nat
      BY <1>1
    <3>5. Count(s, h, F) + (i + 1) = Count(s, h, d) + i
      BY <2>4, <2>5, <3>3, <3>4
    <3> QED BY <3>1, <3>2, <3>5
  <2>8. F < d
    <3>1. ASSUME d <= F PROVE FALSE
      <4>1. F \in d .. Len(h)
        BY <1>2, <2>3, <3>1
      <4>2. Count(s, h, d) <= Count(s, h, F)
        BY <1>2, <4>1, MarksRise
      <4> QED BY <2>4, <2>5, <4>2
    <3> QED BY <1>2, <2>3, <3>1
  <2>9. h[d].accept
    BY <1>7 DEF HasLesson
  <2>10. ASSUME NEW j \in e .. k - 1 PROVE j \in Taken(y) <=> j <= d /\ h[j].accept
    <3>0. j \in Nat /\ j \in 1 .. Len(h) /\ j \in 0 .. Len(h) /\ j - 1 \in 0 .. Len(h)
      BY <1>1
    <3>1. ASSUME j \in Taken(y) PROVE j <= d /\ h[j].accept
      <4>1. CASE j = d
        BY <1>2, <2>9, <4>1
      <4>2. CASE j # d
        <5>1. j <= F /\ h[j].accept
          BY <1>8, <2>2, <3>1, <4>2
        <5> QED BY <1>2, <2>3, <2>8, <3>0, <5>1
      <4> QED BY <4>1, <4>2
    <3>2. ASSUME j <= d, h[j].accept PROVE j \in Taken(y)
      <4>1. CASE j <= F
        BY <1>8, <2>2, <3>2, <4>1
      <4>2. CASE ~(j <= F)
        <5>1. j - 1 \in F .. Len(h) /\ d \in j .. Len(h)
          BY <1>2, <2>3, <3>0, <3>2, <4>2
        <5>2. Count(s, h, F) <= Count(s, h, j - 1)
          BY <2>3, <5>1, MarksRise
        <5>3. Count(s, h, j) = Count(s, h, j - 1) + One(h[j].accept)
          BY <3>0, MarkNext
        <5>4. One(h[j].accept) = 1
          BY <3>2 DEF One
        <5>5. Count(s, h, j) <= Count(s, h, d)
          BY <3>0, <5>1, MarksRise
        <5>6. Count(s, h, j) \in Nat /\ Count(s, h, j - 1) \in Nat
          BY <3>0, MarkIs
        <5>7. Count(s, h, j) = Count(s, h, d)
          BY <2>4, <2>5, <5>2, <5>3, <5>4, <5>5, <5>6
        <5>8. j = d
          BY <1>2, <2>9, <3>0, <3>2, <5>7, SameRank
        <5> QED BY <1>8, <5>8
      <4> QED BY <4>1, <4>2
    <3> QED BY <3>1, <3>2
  <2>11. d <= k - 1
    BY <1>1, <1>2
  <2> QED BY <1>3, <2>1, <2>6, <2>7, <2>10, <2>11
<1> QED BY <1>5, <1>9, <1>10, <1>11, <1>12, <1>13 DEF Books

\* The queue with a row put in: its rows, in their order.
HoldsWith(s, h, k, q, p, out) ==
  /\ out \in Seq(1 .. k) /\ Len(out) = (IF p.drop = 0 THEN Len(q) + 1 ELSE Len(q))
  /\ \A j \in 1 .. Len(out) : out[j] = k \/ \E i \in 1 .. Len(q) : out[j] = q[i]
  /\ p.drop = 0 =>
       /\ \E i \in 1 .. Len(q) + 1 : out[i] = k
       /\ \A i \in 1 .. Len(q) : \E j \in 1 .. Len(q) + 1 : out[j] = q[i]
  /\ p.drop = 0 /\ p.at = Len(q) + 1 =>
       (\A i \in 1 .. Len(q) : out[i] = q[i]) /\ out[Len(q) + 1] = k
  /\ \A j \in 1 .. Len(out) : \A i \in 1 .. j - 1 : Earlier(s, h, out[i], out[j])

LEMMA PutSorted ==
  ASSUME NEW s \in Settings, NEW h \in Streams(s), NEW k \in 1 .. Len(h),
         NEW q \in Seq(1 .. k - 1), NEW p, p.id = k, p.held = TRUE, PutIn(s, h, q, p),
         \A j \in 1 .. Len(q) : \A i \in 1 .. j - 1 : Earlier(s, h, q[i], q[j])
  PROVE  HoldsWith(s, h, k, q, p, Record(q, p))
<1> DEFINE n == Len(q)
           a == p.at
           with == InsertAt(q, p.at, p.id)
           out == Record(q, p)
<1>0. /\ a \in 1 .. n + 1 /\ p.drop \in 0 .. n + 1 /\ n \in Nat /\ a \in Nat
      /\ \A i \in 1 .. n : i < a <=> Earlier(s, h, q[i], k)
  BY DEF PutIn
<1>1. /\ q \in Seq(1 .. k) /\ p.id \in 1 .. k /\ k \in Nat
      /\ \A i \in 1 .. n : q[i] \in 1 .. k - 1 /\ q[i] \in 1 .. Len(h)
  <2>1. 1 .. k - 1 \subseteq 1 .. k /\ k \in 1 .. k /\ k \in Nat /\ 1 .. k - 1 \subseteq 1 .. Len(h)
    OBVIOUS
  <2>2. q \in Seq(1 .. k)
    BY <2>1, SeqMonotonic
  <2>3. \A i \in 1 .. n : q[i] \in 1 .. k - 1
    BY ElementOfSeq
  <2> QED BY <2>1, <2>2, <2>3
<1>2. /\ with \in Seq(1 .. k) /\ Len(with) = n + 1
      /\ \A j \in 1 .. n + 1 :
           with[j] = IF j < a THEN q[j] ELSE IF j = a THEN k ELSE q[j - 1]
  <2>1. HasIn(1 .. k, q, a, p.id, with)
    BY <1>0, <1>1, InsertIs
  <2> HIDE DEF with
  <2> QED BY <2>1 DEF HasIn
<1>3. /\ out \in Seq(1 .. k) /\ Len(out) = (IF p.drop = 0 THEN n + 1 ELSE n)
      /\ \A j \in 1 .. Len(out) : out[j] = with[IF p.drop = 0 \/ j < p.drop THEN j ELSE j + 1]
  <2>1. HasPut(1 .. k, q, p, out)
    BY <1>0, <1>1, PutIs
  <2> HIDE DEF out
  <2> QED BY <2>1 DEF HasPut
<1> HIDE DEF with, out
<1>4. ASSUME NEW j \in 1 .. n + 1 PROVE with[j] = k \/ \E i \in 1 .. n : with[j] = q[i]
  <2>1. CASE j < a
    <3>1. j \in 1 .. n
      BY <1>0, <2>1
    <3> QED BY <1>2, <2>1, <3>1
  <2>2. CASE j = a
    <3>1. ~(j < a)
      BY <1>0, <2>2
    <3> QED BY <1>2, <2>2, <3>1
  <2>3. CASE j > a
    <3>1. ~(j < a) /\ j # a /\ j - 1 \in 1 .. n
      BY <1>0, <2>3
    <3> QED BY <1>2, <3>1
  <2> QED BY <1>0, <2>1, <2>2, <2>3
<1>5. ASSUME NEW i \in 1 .. n PROVE \E j \in 1 .. n + 1 : with[j] = q[i]
  <2>1. CASE i < a
    <3>1. i \in 1 .. n + 1
      BY <1>0
    <3> QED BY <1>2, <2>1, <3>1
  <2>2. CASE ~(i < a)
    <3>1. i + 1 \in 1 .. n + 1 /\ ~(i + 1 < a) /\ i + 1 # a /\ (i + 1) - 1 = i
      BY <1>0, <2>2
    <3> QED BY <1>2, <3>1
  <2> QED BY <2>1, <2>2
<1>6. with[a] = k
  <2>1. ~(a < a)
    BY <1>0
  <2> QED BY <1>0, <1>2, <2>1
<1>7. ASSUME NEW j \in 1 .. n + 1, NEW i \in 1 .. j - 1 PROVE Earlier(s, h, with[i], with[j])
  <2>0. i \in 1 .. n + 1 /\ i \in Nat /\ j \in Nat /\ i < j
    BY <1>0
  <2>1. CASE j < a
    <3>1. j \in 1 .. n /\ i < a
      BY <1>0, <2>0, <2>1
    <3>2. with[i] = q[i] /\ with[j] = q[j]
      BY <1>2, <2>0, <2>1, <3>1
    <3> QED BY <3>1, <3>2
  <2>2. CASE j = a
    <3>1. i \in 1 .. n /\ i < a /\ ~(j < a)
      BY <1>0, <2>0, <2>2
    <3>2. with[i] = q[i] /\ with[j] = k
      BY <1>2, <2>0, <2>2, <3>1
    <3> QED BY <1>0, <3>1, <3>2
  <2>3. CASE j > a
    <3>1. j - 1 \in 1 .. n /\ ~(j - 1 < a) /\ ~(j < a) /\ j # a
      BY <1>0, <2>0, <2>3
    <3>2. with[j] = q[j - 1]
      BY <1>2, <3>1
    <3>3. Earlier(s, h, k, q[j - 1])
      <4>1. ~Earlier(s, h, q[j - 1], k)
        BY <1>0, <3>1
      <4>2. q[j - 1] \in 1 .. k - 1 /\ q[j - 1] \in 1 .. Len(h)
        BY <1>1, <3>1
      <4>3. q[j - 1] # k
        BY <1>1, <4>2
      <4> QED BY <4>1, <4>2, <4>3, EarlierIs
    <3>4. CASE i < a
      <4>1. with[i] = q[i]
        BY <1>2, <2>0, <3>4
      <4>2. i \in 1 .. (j - 1) - 1
        BY <1>0, <2>0, <2>3, <3>4
      <4> QED BY <3>1, <3>2, <4>1, <4>2
    <3>5. CASE i = a
      <4> QED BY <1>6, <3>2, <3>3, <3>5
    <3>6. CASE i > a
      <4>1. ~(i < a) /\ i # a /\ i - 1 \in 1 .. (j - 1) - 1
        BY <1>0, <2>0, <3>6
      <4>2. with[i] = q[i - 1]
        BY <1>2, <2>0, <4>1
      <4> QED BY <3>1, <3>2, <4>1, <4>2
    <3> QED BY <1>0, <2>0, <3>4, <3>5, <3>6
  <2> QED BY <1>0, <2>0, <2>1, <2>2, <2>3
<1> DEFINE f(j) == IF p.drop = 0 \/ j < p.drop THEN j ELSE j + 1
<1>8. ASSUME NEW j \in 1 .. Len(out) PROVE f(j) \in 1 .. n + 1 /\ out[j] = with[f(j)]
  <2>1. out[j] = with[f(j)]
    BY <1>3
  <2>2. CASE p.drop = 0
    <3>1. f(j) = j /\ j \in 1 .. n + 1
      BY <1>3, <2>2
    <3> QED BY <2>1, <3>1
  <2>3. CASE p.drop # 0
    <3>1. j \in 1 .. n
      BY <1>3, <2>3
    <3>2. j \in 1 .. n + 1 /\ j + 1 \in 1 .. n + 1
      BY <1>0, <3>1
    <3>3. f(j) \in 1 .. n + 1
      BY ONLY <3>2
    <3> QED BY <2>1, <3>3
  <2> QED BY <2>2, <2>3
<1>9. ASSUME NEW j \in 1 .. Len(out), NEW i \in 1 .. j - 1
      PROVE  i \in 1 .. Len(out) /\ f(i) \in 1 .. f(j) - 1
  <2>1. Len(out) \in Nat /\ p.drop \in Nat
    BY <1>0, <1>3
  <2>2. i \in Nat /\ j \in Nat /\ 1 <= i /\ i < j /\ i \in 1 .. Len(out)
    BY <2>1
  <2>3. f(i) \in 1 .. f(j) - 1
    BY ONLY <2>1, <2>2
  <2> QED BY <2>2, <2>3
<1>10. p.drop = 0 => \A j \in 1 .. n + 1 : out[j] = with[j]
  BY <1>3
<1>11. \A j \in 1 .. Len(out) : out[j] = k \/ \E i \in 1 .. n : out[j] = q[i]
  <2> HIDE DEF f
  <2> QED BY <1>4, <1>8
<1>12. \A j \in 1 .. Len(out) : \A i \in 1 .. j - 1 : Earlier(s, h, out[i], out[j])
  <2> HIDE DEF f
  <2>1. ASSUME NEW j \in 1 .. Len(out), NEW i \in 1 .. j - 1 PROVE Earlier(s, h, out[i], out[j])
    <3>1. i \in 1 .. Len(out) /\ f(i) \in 1 .. f(j) - 1
      BY <1>9
    <3>2. f(j) \in 1 .. n + 1 /\ out[j] = with[f(j)] /\ out[i] = with[f(i)]
      BY <1>8, <3>1
    <3> QED BY <1>7, <3>1, <3>2
  <2> QED BY <2>1
<1>13. p.drop = 0 => /\ \E i \in 1 .. n + 1 : out[i] = k
                     /\ \A i \in 1 .. n : \E j \in 1 .. n + 1 : out[j] = q[i]
  <2>1. ASSUME p.drop = 0 PROVE \E i \in 1 .. n + 1 : out[i] = k
    BY <1>0, <1>6, <1>10, <2>1
  <2>2. ASSUME p.drop = 0, NEW i \in 1 .. n PROVE \E j \in 1 .. n + 1 : out[j] = q[i]
    <3>1. PICK j \in 1 .. n + 1 : with[j] = q[i]
      BY <1>5
    <3> QED BY <1>10, <2>2, <3>1
  <2> QED BY <2>1, <2>2
<1>14. p.drop = 0 /\ a = n + 1 =>
         (\A i \in 1 .. n : out[i] = q[i]) /\ out[n + 1] = k
  <2>1. ASSUME p.drop = 0, a = n + 1, NEW i \in 1 .. n PROVE out[i] = q[i]
    <3>1. i \in 1 .. n + 1 /\ i < a
      BY <1>0, <2>1
    <3> QED BY <1>2, <1>10, <2>1, <3>1
  <2>2. ASSUME p.drop = 0, a = n + 1 PROVE out[n + 1] = k
    <3>1. n + 1 \in 1 .. n + 1
      BY <1>0
    <3> QED BY <1>6, <1>10, <2>2, <3>1
  <2> QED BY <2>1, <2>2
<1> QED BY <1>3, <1>11, <1>12, <1>13, <1>14 DEF out, HoldsWith

\* A row is put into the queue.
LEMMA PutBooks ==
  ASSUME NEW s \in Settings, NEW h \in Streams(s), Legal(s, h), NEW k \in 1 .. Len(h),
         NEW e, e = EpochAt(s, h, k), e \in 1 .. k,
         NEW w, UpToRow(w, k - 1), Books(s, h, w, e, k - 1, k),
         w.queue # <<>> => ~DueBy(s, h, w.queue[1], k),
         HasLesson(s, h[k]), NEW p, p.id = k, p.held = TRUE, PutIn(s, h, w.queue, p),
         NEW y, y.queue = Record(w.queue, p), y.learnt = w.learnt, y.last = w.last,
         y.dropped = w.dropped + One(p.drop # 0)
  PROVE  /\ UpToRow(y, k) /\ Books(s, h, y, e, k, k)
         /\ \A i \in 1 .. Len(y.queue) : y.queue[i] # k => ~DueBy(s, h, y.queue[i], k)
<1> DEFINE q == w.queue
           l == w.learnt
           n == Len(q)
           out == y.queue
<1>1. /\ Len(h) \in Nat /\ k \in Nat /\ e \in Nat /\ q \in Seq(1 .. k - 1) /\ l \in Seq(1 .. k - 1)
      /\ n \in Nat /\ Len(l) \in Nat /\ w.last \in 0 .. k - 1 /\ w.dropped \in Nat
      /\ k - 1 \in 0 .. Len(h)
  <2>1. Len(h) \in Nat
    BY DEF Streams
  <2>2. q \in Seq(1 .. k - 1) /\ l \in Seq(1 .. k - 1) /\ w.last \in 0 .. k - 1 /\ w.dropped \in Nat
    BY DEF UpToRow
  <2>3. n \in Nat /\ Len(l) \in Nat
    BY <2>2
  <2> QED BY <2>1, <2>2, <2>3
<1>2. InQueue(s, h, w, e) /\ InLearnt(s, h, w, e, k)
  BY DEF Books
<1>3. /\ out \in Seq(1 .. k) /\ Len(out) = (IF p.drop = 0 THEN n + 1 ELSE n)
      /\ \A j \in 1 .. Len(out) : out[j] = k \/ \E i \in 1 .. n : out[j] = q[i]
      /\ p.drop = 0 =>
           /\ \E i \in 1 .. n + 1 : out[i] = k
           /\ \A i \in 1 .. n : \E j \in 1 .. n + 1 : out[j] = q[i]
      /\ p.drop = 0 /\ p.at = n + 1 => (\A i \in 1 .. n : out[i] = q[i]) /\ out[n + 1] = k
      /\ \A j \in 1 .. Len(out) : \A i \in 1 .. j - 1 : Earlier(s, h, out[i], out[j])
  <2>1. \A j \in 1 .. n : \A i \in 1 .. j - 1 : Earlier(s, h, q[i], q[j])
    BY <1>2 DEF InQueue
  <2>2. out = Record(q, p)
    OBVIOUS
  <2> HIDE DEF out, q
  <2>3. PutIn(s, h, q, p)
    BY DEF q
  <2>4. HoldsWith(s, h, k, q, p, out)
    BY <1>1, <2>1, <2>2, <2>3, PutSorted
  <2> QED BY <2>4 DEF HoldsWith
<1>4. /\ p.at \in 1 .. n + 1 /\ p.drop \in 0 .. n + 1 /\ (p.drop # 0 <=> Overflows(s, q))
      /\ (p.drop # 0 => s.dropOldest) /\ (\A i \in 1 .. n : i < p.at <=> Earlier(s, h, q[i], k))
  BY DEF PutIn
<1>5. \A i \in 1 .. n : q[i] \in 1 .. k - 1 /\ q[i] \in 1 .. Len(h) /\ q[i] >= e /\ HasLesson(s, h[q[i]])
  <2>1. \A i \in 1 .. n : q[i] \in 1 .. k - 1
    BY <1>1, ElementOfSeq
  <2>2. 1 .. k - 1 \subseteq 1 .. Len(h)
    BY <1>1
  <2> QED BY <1>2, <2>1, <2>2 DEF InQueue
<1> HIDE DEF out
<1>6. UpToRow(y, k)
  <2>1. 1 .. k - 1 \subseteq 1 .. k /\ w.last \in 0 .. k
    BY <1>1
  <2>2. l \in Seq(1 .. k)
    BY <1>1, <2>1, SeqMonotonic
  <2>3. One(p.drop # 0) \in Nat
    BY DEF One
  <2>4. y.dropped \in Nat
    BY <1>1, <2>3
  <2> QED BY <1>3, <2>1, <2>2, <2>4 DEF UpToRow, out
<1>7. ASSUME NEW j \in 1 .. Len(out) PROVE out[j] >= e /\ HasLesson(s, h[out[j]])
  <2>1. CASE out[j] = k
    <3>1. k >= e
      BY <1>1
    <3> QED BY <2>1, <3>1
  <2>2. CASE \E i \in 1 .. n : out[j] = q[i]
    BY <1>5, <2>2
  <2> QED BY <1>3, <2>1, <2>2
<1>8. InQueue(s, h, y, e)
  <2>1. \A j \in 1 .. Len(out) : \A i \in 1 .. j - 1 : Earlier(s, h, out[i], out[j])
    BY <1>3
  <2> QED BY <1>7, <2>1 DEF InQueue, out
<1>9. InLearnt(s, h, y, e, k)
  <2>1. ASSUME w.last # 0, NEW i \in 1 .. Len(out) PROVE Earlier(s, h, w.last, out[i])
    <3>1. /\ Len(l) > 0 /\ w.last = l[Len(l)] /\ w.last >= e
          /\ \A j \in 1 .. n : Earlier(s, h, w.last, q[j])
      BY <1>2, <2>1 DEF InLearnt
    <3>2. Len(l) \in 1 .. Len(l)
      BY <1>1, <3>1
    <3>3. DueBy(s, h, w.last, k)
      BY <1>2, <3>1, <3>2 DEF InLearnt
    <3>4. Earlier(s, h, w.last, k)
      <4>1. w.last < k /\ w.last \in 1 .. Len(h)
        <5>1. Len(h) \in Nat /\ k \in 1 .. Len(h) /\ w.last \in 0 .. k - 1 /\ w.last # 0
          BY <1>1, <2>1
        <5> QED BY ONLY <5>1
      <4>2. CASE Lab(s)
        <5>1. h[k].at >= h[w.last].label
          BY <3>3, <4>2 DEF DueBy
        <5>2. h[k].accept /\ h[k].label # NoLabel
          BY <4>2 DEF HasLesson
        <5>3. h[k].at <= h[k].label
          BY <4>2, <5>2 DEF Legal
        <5>4. h[k].at \in Int /\ h[k].label \in Int /\ h[w.last].label \in Int
          BY <4>1, RowIs
        <5>5. h[w.last].label <= h[k].label
          BY <5>1, <5>3, <5>4
        <5> QED BY <4>1, <4>2, <5>4, <5>5 DEF Earlier
      <4>3. CASE ~Lab(s)
        BY <4>1, <4>3 DEF Earlier
      <4> QED BY <4>2, <4>3
    <3> QED BY <1>3, <3>1, <3>4
  <2>2. y.last = w.last /\ y.learnt = l
    OBVIOUS
  <2> QED BY <1>2, <2>1, <2>2 DEF InLearnt, out
<1>10. Kept(s, h, y, e, k)
  <2>1. ASSUME ~Lab(s) \/ ~s.dropOldest, NEW j \in e .. k, HasLesson(s, h[j])
        PROVE  j \in Taken(y) \cup Held(y)
    <3>1. p.drop = 0
      BY <1>4, <2>1 DEF Overflows
    <3>2. Len(out) = n + 1
      BY <1>3, <3>1
    <3>3. CASE j = k
      <4>1. \E i \in 1 .. n + 1 : out[i] = k
        BY <1>3, <3>1
      <4> QED BY <3>2, <3>3, <4>1 DEF Held, out
    <3>4. CASE j # k
      <4>1. j \in e .. k - 1
        BY <1>1, <3>4
      <4>2. j \in Taken(w) \cup Held(w)
        BY <2>1, <4>1 DEF Books, Kept
      <4>3. CASE j \in Taken(w)
        BY <4>3 DEF Taken
      <4>4. CASE j \in Held(w)
        <5>1. PICK i \in 1 .. n : j = q[i]
          BY <4>4 DEF Held
        <5>2. PICK i2 \in 1 .. n + 1 : out[i2] = q[i]
          BY <1>3, <3>1
        <5> QED BY <3>2, <5>1, <5>2 DEF Held, out
      <4> QED BY <4>2, <4>3, <4>4
    <3> QED BY <3>3, <3>4
  <2> QED BY <2>1 DEF Kept
<1>11. Counted(s, h, y, k)
  <2>1. ASSUME Lab(s)
        PROVE  /\ Lessons(s, h, k) = Len(l) + Len(out) + y.dropped
               /\ s.maxHeld > 0 => Len(out) <= s.maxHeld
    <3>1. /\ Lessons(s, h, k - 1) = Len(l) + n + w.dropped
          /\ s.maxHeld > 0 => n <= s.maxHeld
      BY <2>1 DEF Books, Counted
    <3>2. Lessons(s, h, k) = Lessons(s, h, k - 1) + One(HasLesson(s, h[k]))
      BY MarkNext
    <3>3. One(HasLesson(s, h[k])) = 1
      BY DEF One
    <3>4. s.maxHeld \in Nat /\ Lessons(s, h, k - 1) \in Nat
      BY <1>1, SettingIs, MarkIs
    <3>7. Lessons(s, h, k) = (Len(l) + n + w.dropped) + 1
      BY <3>1, <3>2, <3>3
    <3>5. CASE p.drop = 0
      <4>1. One(p.drop # 0) = 0 /\ Len(out) = n + 1 /\ ~Overflows(s, q)
        BY <1>3, <1>4, <3>5 DEF One
      <4>2. s.maxHeld > 0 => ~(n + 1 > s.maxHeld)
        BY <2>1, <4>1 DEF Overflows
      <4>3. \A a, b, c \in Nat : (a + b + c) + 1 = a + (b + 1) + (c + 0)
        OBVIOUS
      <4>4. Lessons(s, h, k) = Len(l) + (n + 1) + (w.dropped + 0)
        <5>1. Len(l) \in Nat /\ n \in Nat /\ w.dropped \in Nat
          BY <1>1
        <5> HIDE DEF l, n
        <5>2. (Len(l) + n + w.dropped) + 1 = Len(l) + (n + 1) + (w.dropped + 0)
          BY ONLY <4>3, <5>1
        <5> QED BY <3>7, <5>2
      <4>5. s.maxHeld > 0 => n + 1 <= s.maxHeld
        BY <1>1, <3>4, <4>2
      <4> QED BY <4>1, <4>4, <4>5
    <3>6. CASE p.drop # 0
      <4>1. One(p.drop # 0) = 1 /\ Len(out) = n
        BY <1>3, <3>6 DEF One
      <4>2. \A a, b, c \in Nat : (a + b + c) + 1 = a + b + (c + 1)
        OBVIOUS
      <4>3. Lessons(s, h, k) = Len(l) + n + (w.dropped + 1)
        <5>1. Len(l) \in Nat /\ n \in Nat /\ w.dropped \in Nat
          BY <1>1
        <5> HIDE DEF l, n
        <5>2. (Len(l) + n + w.dropped) + 1 = Len(l) + n + (w.dropped + 1)
          BY ONLY <4>2, <5>1
        <5> QED BY <3>7, <5>2
      <4> QED BY <3>1, <4>1, <4>3
    <3> QED BY <3>5, <3>6
  <2> QED BY <2>1 DEF Counted, out
<1>12. InLine(s, h, y, e, k)
  <2> DEFINE F == Frontier(w, e)
  <2> SUFFICES ASSUME ~Lab(s) \/ s.by > 0
               PROVE  /\ Frontier(y, e) <= k
                      /\ Len(y.queue) = Count(s, h, k) - Count(s, h, Frontier(y, e))
                      /\ \A i \in 1 .. Len(y.queue) :
                           Count(s, h, y.queue[i]) = Count(s, h, Frontier(y, e)) + i
                      /\ \A j \in e .. k : j \in Taken(y) <=> j <= Frontier(y, e) /\ h[j].accept
    BY DEF InLine
  <2>1. p.drop = 0
    <3>1. Lab(s) => s.maxHeld = 0
      BY SettingIs
    <3> QED BY <1>4, <3>1 DEF Overflows
  <2>2. \A i \in 1 .. n : Earlier(s, h, q[i], k)
    <3>1. ASSUME NEW i \in 1 .. n PROVE Earlier(s, h, q[i], k)
      <4>1. q[i] \in e .. k /\ q[i] < k /\ q[i] \in 1 .. Len(h)
        <5>1. k \in Nat /\ e \in Nat /\ q[i] \in 1 .. k - 1 /\ q[i] >= e /\ q[i] \in 1 .. Len(h)
          BY <1>1, <1>5
        <5> QED BY ONLY <5>1
      <4>2. CASE Lab(s)
        <5>1. h[q[i]].at <= h[k].at
          BY <4>1, <4>2, AtsRise
        <5>2. h[q[i]] \in s.rows /\ h[k] \in s.rows
          BY <4>1, RowIs
        <5>3. h[q[i]].label = h[q[i]].at + s.by /\ h[k].label = h[k].at + s.by
          BY <4>2, <5>2, SettingIs
        <5>4. h[q[i]].at \in Int /\ h[k].at \in Int /\ s.by \in Int
          BY <4>1, RowIs, SettingIs
        <5>5. \A a, b, c \in Int : a <= b => a + c < b + c \/ a + c = b + c
          OBVIOUS
        <5>6. h[q[i]].label < h[k].label \/ h[q[i]].label = h[k].label
          BY <5>1, <5>3, <5>4, <5>5
        <5> QED BY <4>1, <4>2, <5>6 DEF Earlier
      <4>3. CASE ~Lab(s)
        BY <4>1, <4>3 DEF Earlier
      <4> QED BY <4>2, <4>3
    <3> QED BY <3>1
  <2>3. p.at = n + 1
    <3>1. \A i \in 1 .. n : i < p.at
      BY <1>4, <2>2
    <3>2. ASSUME p.at # n + 1 PROVE FALSE
      <4>2. p.at \in 1 .. n + 1 /\ p.at # n + 1 /\ n \in Nat
        BY <1>1, <1>4, <3>2
      <4>1. p.at \in 1 .. n /\ ~(p.at < p.at)
        BY ONLY <4>2
      <4> QED BY <3>1, <4>1
    <3> QED BY <3>2
  <2>4. (\A i \in 1 .. n : out[i] = q[i]) /\ out[n + 1] = k /\ Len(out) = n + 1
    BY <1>3, <2>1, <2>3
  <2>5. Frontier(y, e) = F /\ Taken(y) = Taken(w)
    BY DEF Frontier, Taken
  <2>6. /\ F <= k - 1 /\ n = Count(s, h, k - 1) - Count(s, h, F)
        /\ \A i \in 1 .. n : Count(s, h, q[i]) = Count(s, h, F) + i
        /\ \A j \in e .. k - 1 : j \in Taken(w) <=> j <= F /\ h[j].accept
    BY DEF Books, InLine
  <2>7. F \in Nat /\ F \in 0 .. Len(h)
    <3>1. F \in Nat
      BY <1>1 DEF Frontier
    <3> QED BY <1>1, <2>6, <3>1
  <2> HIDE DEF F
  <2>8. Count(s, h, F) \in Nat /\ Count(s, h, k - 1) \in Nat
    BY <1>1, <2>7, MarkIs
  <2>9. Count(s, h, k) = Count(s, h, k - 1) + 1
    <3>1. Count(s, h, k) = Count(s, h, k - 1) + One(h[k].accept)
      BY MarkNext
    <3>2. One(h[k].accept) = 1
      BY DEF One, HasLesson
    <3> QED BY <3>1, <3>2
  <2>10. Len(out) = Count(s, h, k) - Count(s, h, F)
    BY <1>1, <2>4, <2>6, <2>8, <2>9
  <2>11. ASSUME NEW i \in 1 .. Len(out) PROVE Count(s, h, out[i]) = Count(s, h, F) + i
    <3>1. CASE i = n + 1
      <4>1. Count(s, h, k) = Count(s, h, F) + (n + 1)
        BY <1>1, <2>6, <2>8, <2>9
      <4> QED BY <2>4, <3>1, <4>1
    <3>2. CASE i # n + 1
      <4>1. i \in 1 .. n
        BY <1>1, <2>4, <3>2
      <4> QED BY <2>4, <2>6, <4>1
    <3> QED BY <3>1, <3>2
  <2>12. ASSUME NEW j \in e .. k PROVE j \in Taken(w) <=> j <= F /\ h[j].accept
    <3>1. CASE j = k
      <4>1. \A i \in 1 .. Len(l) : l[i] \in 1 .. k - 1
        BY <1>1, ElementOfSeq
      <4>2. \A i \in 1 .. Len(l) : l[i] # k
        <5>1. k \in Nat
          BY <1>1
        <5> QED BY ONLY <4>1, <5>1
      <4>3. j \notin Taken(w)
        BY <3>1, <4>2 DEF Taken
      <4>4. ~(j <= F)
        BY <1>1, <2>6, <2>7, <3>1
      <4> QED BY <4>3, <4>4
    <3>2. CASE j # k
      <4>1. j \in e .. k - 1
        BY <1>1, <3>2
      <4> QED BY <2>6, <4>1
    <3> QED BY <3>1, <3>2
  <2>13. F <= k
    BY <1>1, <2>6, <2>7
  <2>14. y.queue = out
    BY DEF out
  <2> HIDE DEF out
  <2>15. Frontier(y, e) <= k
    BY ONLY <2>5, <2>13
  <2>16. Len(y.queue) = Count(s, h, k) - Count(s, h, Frontier(y, e))
    BY ONLY <2>5, <2>10, <2>14
  <2>17. \A i \in 1 .. Len(y.queue) : Count(s, h, y.queue[i]) = Count(s, h, Frontier(y, e)) + i
    BY ONLY <2>5, <2>11, <2>14
  <2>18. \A j \in e .. k : j \in Taken(y) <=> j <= Frontier(y, e) /\ h[j].accept
    BY ONLY <2>5, <2>12
  <2> QED BY ONLY <2>15, <2>16, <2>17, <2>18
<1>13. ASSUME NEW i \in 1 .. Len(out), out[i] # k PROVE ~DueBy(s, h, out[i], k)
  <2>1. PICK j \in 1 .. n : out[i] = q[j]
    BY <1>3, <1>13
  <2>2. n > 0 /\ 1 \in 1 .. n /\ q # <<>>
    <3>1. n \in Nat /\ j \in 1 .. n
      BY <1>1
    <3>2. n > 0 /\ 1 \in 1 .. n
      BY ONLY <3>1
    <3>3. q # <<>>
      BY <3>2
    <3> QED BY <3>2, <3>3
  <2>3. ~DueBy(s, h, q[1], k)
    BY <2>2
  <2>4. CASE j = 1
    BY <2>1, <2>3, <2>4
  <2>5. CASE j # 1
    <3>1. 1 \in 1 .. j - 1
      BY <1>1, <2>5
    <3>2. Earlier(s, h, q[1], q[j])
      BY <1>2, <3>1 DEF InQueue
    <3>3. q[1] \in 1 .. k /\ q[j] \in 1 .. k
      <4>1. 1 .. k - 1 \subseteq 1 .. k
        BY <1>1
      <4>2. q[1] \in 1 .. k - 1 /\ q[j] \in 1 .. k - 1
        BY <1>5, <2>2
      <4> QED BY <4>1, <4>2
    <3>4. DueBy(s, h, q[j], k) => DueBy(s, h, q[1], k)
      BY <3>2, <3>3, DueOrder
    <3> QED BY <2>1, <2>3, <3>4
  <2> QED BY <2>4, <2>5
<1> QED BY <1>6, <1>8, <1>9, <1>10, <1>11, <1>12, <1>13 DEF Books, out

LEMMA NoneDue ==
  ASSUME NEW s \in Settings, NEW h \in Streams(s), NEW k \in 1 .. Len(h), NEW e,
         NEW w, UpToRow(w, k - 1), InQueue(s, h, w, e),
         w.queue # <<>> => ~DueBy(s, h, w.queue[1], k)
  PROVE  \A i \in 1 .. Len(w.queue) : ~DueBy(s, h, w.queue[i], k)
<1> SUFFICES ASSUME NEW i \in 1 .. Len(w.queue) PROVE ~DueBy(s, h, w.queue[i], k)
  OBVIOUS
<1> DEFINE q == w.queue
           n == Len(q)
<1>1. q \in Seq(1 .. k - 1) /\ n \in Nat /\ n > 0 /\ k \in Nat
  <2>1. q \in Seq(1 .. k - 1)
    BY DEF UpToRow
  <2> QED BY <2>1
<1>2. 1 \in 1 .. n /\ q # <<>>
  BY <1>1, EmptySeq
<1>3. q[1] \in 1 .. k /\ q[i] \in 1 .. k
  <2>1. q[1] \in 1 .. k - 1 /\ q[i] \in 1 .. k - 1
    BY <1>1, <1>2, ElementOfSeq
  <2>2. 1 .. k - 1 \subseteq 1 .. k
    BY <1>1
  <2> QED BY <2>1, <2>2
<1>4. CASE i = 1
  BY <1>2, <1>4
<1>5. CASE i # 1
  <2>1. 1 \in 1 .. i - 1
    BY <1>1, <1>5
  <2>2. Earlier(s, h, q[1], q[i])
    BY <2>1 DEF InQueue
  <2>3. DueBy(s, h, q[i], k) => DueBy(s, h, q[1], k)
    BY <1>3, <2>2, DueOrder
  <2> QED BY <1>2, <2>3
<1> QED BY <1>4, <1>5

LEMMA BookedSound ==
  ASSUME NEW s \in Settings, NEW h \in Streams(s), Legal(s, h),
         NEW x, Sound(s, h, x), NEW p, NEW y, Booked(s, h, x, p, y)
  PROVE  Sound(s, h, y)
<1> DEFINE k == x.row + 1
           w == Emptied(s, h, x, k)
           e == EpochAt(s, h, k)
<1>1. k \in 1 .. Len(h)
  BY DEF Booked, Skips, Learns, Scores
<1>2. Ledger(h, x) /\ x.row \in Nat /\ x.row = k - 1 /\ Len(h) \in Nat
  <2>1. Len(h) \in Nat
    BY DEF Streams
  <2>2. Ledger(h, x)
    BY DEF Sound
  <2>3. x.row \in 0 .. Len(h)
    BY <2>2 DEF Ledger
  <2> QED BY <2>1, <2>2, <2>3
<1> HIDE DEF k
<1>3. EmptiedTo(s, h, x, k, w) /\ Ledger(h, w)
  BY <1>2, EmptiedFields
<1>4. /\ Books(s, h, w, e, k - 1, k) /\ e \in 1 .. k
      /\ e = IF ResetAt(s, h, k) THEN k ELSE EpochAt(s, h, x.row)
  BY <1>1, EmptiedIs DEF k
<1> HIDE DEF w, e
<1>5. UpToRow(w, k - 1) /\ w.row = k - 1
  BY <1>2, <1>3 DEF UpToRow, Ledger, EmptiedTo
<1>6. w = [queue |-> w.queue, learnt |-> w.learnt, row |-> w.row, now |-> w.now,
           last |-> w.last, dropped |-> w.dropped]
  BY <1>3 DEF Ledger
<1>7. k \in 0 .. Len(h) /\ k \in k .. k + 1 /\ k <= Len(h) /\ k \in Nat /\ k > 0
  BY <1>1, <1>2
<1>8. CASE Skips(s, h, x, p, y)
  <2>1. y = [w EXCEPT !.row = k, !.now = k] /\ ~h[k].accept
    BY <1>8 DEF Skips, k, w
  <2>2. y = [queue |-> w.queue, learnt |-> w.learnt, row |-> k, now |-> k,
             last |-> w.last, dropped |-> w.dropped]
    BY <1>6, <2>1
  <2>3. /\ y.queue = w.queue /\ y.learnt = w.learnt /\ y.row = k /\ y.now = k
        /\ y.last = w.last /\ y.dropped = w.dropped
    BY <2>2
  <2>4. ~HasLesson(s, h[k])
    BY <2>1 DEF HasLesson
  <2>5. Books(s, h, y, e, k, k)
    BY <1>1, <1>4, <1>5, <2>3, <2>4, SkipBooks
  <2>6. Ledger(h, y)
    <3>1. 1 .. k - 1 \subseteq 1 .. k /\ 0 .. k - 1 \subseteq 0 .. k
      BY <1>7
    <3>2. w.queue \in Seq(1 .. k) /\ w.learnt \in Seq(1 .. k) /\ w.last \in 0 .. k /\ w.dropped \in Nat
      BY <1>5, <3>1, SeqMonotonic DEF UpToRow
    <3> QED BY <1>7, <2>2, <2>3, <3>2 DEF Ledger
  <2>7. NotDue(s, h, y)
    BY <2>1, <2>3 DEF NotDue
  <2> QED BY <2>3, <2>5, <2>6, <2>7 DEF Sound, e
<1>9. CASE Learns(s, h, x, p, y)
  <2>1. /\ h[k].accept /\ ~ResetAt(s, h, k) /\ x.queue # <<>> /\ DueBy(s, h, x.queue[1], k)
        /\ y = [x EXCEPT !.queue = Tail(@), !.learnt = Append(@, x.queue[1]), !.now = k,
                         !.last = x.queue[1]]
    BY <1>9 DEF Learns, Learned, k
  <2>2. w = x
    BY <2>1 DEF Emptied, w
  <2>3. y = [queue |-> Tail(x.queue), learnt |-> Append(x.learnt, x.queue[1]), row |-> x.row,
             now |-> k, last |-> x.queue[1], dropped |-> x.dropped]
    <3>1. x = [queue |-> x.queue, learnt |-> x.learnt, row |-> x.row, now |-> x.now,
               last |-> x.last, dropped |-> x.dropped]
      BY <1>2 DEF Ledger
    <3> QED BY <2>1, <3>1
  <2>4. /\ y.queue = Tail(x.queue) /\ y.learnt = Append(x.learnt, x.queue[1]) /\ y.row = x.row
        /\ y.now = k /\ y.last = x.queue[1] /\ y.dropped = x.dropped
    BY <2>3
  <2>5. UpToRow(y, k - 1) /\ Books(s, h, y, e, k - 1, k)
    BY <1>1, <1>4, <1>5, <2>1, <2>2, <2>4, LearnBooks
  <2>6. Ledger(h, y)
    <3>1. k \in x.row .. x.row + 1 /\ x.row \in 0 .. Len(h) /\ x.row = k - 1
      BY <1>2, <1>7
    <3> QED BY <1>7, <2>3, <2>4, <2>5, <3>1 DEF Ledger, UpToRow
  <2>7. NotDue(s, h, y)
    <3>1. y.now # y.row
      BY <1>2, <1>7, <2>4
    <3> QED BY <3>1 DEF NotDue
  <2>8. EpochAt(s, h, y.row) = e /\ EpochAt(s, h, y.now) = e
    BY <1>4, <2>1, <2>4 DEF e
  <2>9. Books(s, h, y, EpochAt(s, h, y.row), y.row, y.now)
    BY <1>2, <2>4, <2>5, <2>8
  <2> QED BY <2>6, <2>7, <2>8, <2>9 DEF Sound
<1>10. CASE Scores(s, h, x, p, y)
  <2>1. /\ h[k].accept /\ p.id = k /\ p.held \in BOOLEAN /\ (p.held <=> HasLesson(s, h[k]))
        /\ (w.queue # <<>> => ~DueBy(s, h, w.queue[1], k))
        /\ (p.held => PutIn(s, h, w.queue, p)) /\ y = Scored(w, k, p)
    BY <1>10 DEF Scores, k, w
  <2>2. ASSUME ~p.held PROVE Sound(s, h, y)
    <3>1. y = [w EXCEPT !.row = k, !.now = k]
      BY <2>1, <2>2 DEF Scored
    <3>2. y = [queue |-> w.queue, learnt |-> w.learnt, row |-> k, now |-> k,
               last |-> w.last, dropped |-> w.dropped]
      BY <1>6, <3>1
    <3>3. /\ y.queue = w.queue /\ y.learnt = w.learnt /\ y.row = k /\ y.now = k
          /\ y.last = w.last /\ y.dropped = w.dropped
      BY <3>2
    <3>4. ~HasLesson(s, h[k])
      BY <2>1, <2>2
    <3>5. Books(s, h, y, e, k, k)
      BY <1>1, <1>4, <1>5, <3>3, <3>4, SkipBooks
    <3>6. Ledger(h, y)
      <4>1. 1 .. k - 1 \subseteq 1 .. k /\ 0 .. k - 1 \subseteq 0 .. k
        BY <1>7
      <4>2. w.queue \in Seq(1 .. k) /\ w.learnt \in Seq(1 .. k) /\ w.last \in 0 .. k /\ w.dropped \in Nat
        BY <1>5, <4>1, SeqMonotonic DEF UpToRow
      <4> QED BY <1>7, <3>2, <3>3, <4>2 DEF Ledger
    <3>7. NotDue(s, h, y)
      <4>1. InQueue(s, h, w, e)
        BY <1>4 DEF Books
      <4>2. \A i \in 1 .. Len(w.queue) : ~DueBy(s, h, w.queue[i], k)
        BY <1>1, <1>5, <2>1, <4>1, NoneDue
      <4> QED BY <3>3, <4>2 DEF NotDue
    <3> QED BY <3>3, <3>5, <3>6, <3>7 DEF Sound, e
  <2>3. ASSUME p.held PROVE Sound(s, h, y)
    <3>1. y = [w EXCEPT !.row = k, !.now = k, !.queue = Record(@, p), !.dropped = @ + One(p.drop # 0)]
      BY <2>1, <2>3 DEF Scored
    <3>2. y = [queue |-> Record(w.queue, p), learnt |-> w.learnt, row |-> k, now |-> k,
               last |-> w.last, dropped |-> w.dropped + One(p.drop # 0)]
      BY <1>6, <3>1
    <3>3. /\ y.queue = Record(w.queue, p) /\ y.learnt = w.learnt /\ y.row = k /\ y.now = k
          /\ y.last = w.last /\ y.dropped = w.dropped + One(p.drop # 0)
      BY <3>2
    <3>4. HasLesson(s, h[k]) /\ PutIn(s, h, w.queue, p) /\ p.held = TRUE
      BY <2>1, <2>3
    <3>5. /\ UpToRow(y, k) /\ Books(s, h, y, e, k, k)
          /\ \A i \in 1 .. Len(y.queue) : y.queue[i] # k => ~DueBy(s, h, y.queue[i], k)
      <4>1. e = EpochAt(s, h, k)
        BY DEF e
      <4>2. e \in 1 .. k /\ Books(s, h, w, e, k - 1, k)
        BY <1>4
      <4>3. w.queue # <<>> => ~DueBy(s, h, w.queue[1], k)
        BY <2>1
      <4>4. p.id = k
        BY <2>1
      <4>5. UpToRow(w, k - 1)
        BY <1>5
      <4>6. y.queue = Record(w.queue, p) /\ y.learnt = w.learnt /\ y.last = w.last
            /\ y.dropped = w.dropped + One(p.drop # 0)
        BY <3>3
      <4> QED BY ONLY s \in Settings, h \in Streams(s), Legal(s, h), <1>1, <3>4, <4>1, <4>2,
                      <4>3, <4>4, <4>5, <4>6, PutBooks
    <3>6. Ledger(h, y)
      BY <1>7, <3>2, <3>3, <3>5 DEF Ledger, UpToRow
    <3>7. NotDue(s, h, y)
      BY <3>3, <3>5 DEF NotDue
    <3> QED BY <3>3, <3>5, <3>6, <3>7 DEF Sound, e
  <2> QED BY <2>1, <2>2, <2>3
<1> QED BY <1>8, <1>9, <1>10 DEF Booked

\* Rows fed later change nothing of it.
LEMMA DueGrown ==
  ASSUME NEW s \in Settings, NEW h \in Streams(s), NEW c \in Streams(s),
         NEW j \in 1 .. Len(h), NEW n \in 1 .. Len(h)
  PROVE  /\ DueBy(s, h \o c, j, n) <=> DueBy(s, h, j, n)
         /\ Earlier(s, h \o c, j, n) <=> Earlier(s, h, j, n)
<1> DEFINE g == h \o c
           e == EpochAt(s, h, n)
<1>1. Len(h) \in Nat /\ j \in 0 .. Len(h) /\ n \in 0 .. Len(h) /\ j # 0 /\ n # 0
  <2>1. Len(h) \in Nat
    BY DEF Streams
  <2> QED BY <2>1
<1>2. g[j] = h[j] /\ g[n] = h[n]
  BY <1>1, MarksGrow
<1>3. Time(s, g, n) = Time(s, h, n) /\ Time(s, g, j) = Time(s, h, j)
  BY <1>1, MarksGrow
<1>4. e \in 0 .. Len(h) /\ e - 1 \in 0 .. Len(h)
  <2>1. EpochAt(s, h, n) \in Nat /\ EpochAt(s, h, n) >= 1 /\ EpochAt(s, h, n) <= n
    BY <1>1, EpochIs
  <2> QED BY <1>1, <2>1
<1>5. EpochAt(s, g, n) = e
  BY <1>1, MarksGrow
<1> HIDE DEF e
<1>6. Rank(s, g, j, n) = Rank(s, h, j, n)
  <2>1. Count(s, g, j) = Count(s, h, j) /\ Count(s, g, e - 1) = Count(s, h, e - 1)
    BY <1>1, <1>4, MarksGrow
  <2> HIDE DEF g
  <2>2. Rank(s, g, j, n) = Count(s, g, j) - Count(s, g, e - 1)
    BY <1>5 DEF Rank
  <2>3. Rank(s, h, j, n) = Count(s, h, j) - Count(s, h, e - 1)
    BY DEF Rank, e
  <2> QED BY <2>1, <2>2, <2>3
<1>7. Closed(s, g, n) = Closed(s, h, n)
  <2>1. Shut(s, g, n) = Shut(s, h, n) /\ Shut(s, g, e) = Shut(s, h, e)
    BY <1>1, <1>4, MarksGrow
  <2> HIDE DEF g
  <2>2. Closed(s, g, n) = Shut(s, g, n) - Shut(s, g, e)
    BY <1>1, <1>5 DEF Closed
  <2>3. Closed(s, h, n) = Shut(s, h, n) - Shut(s, h, e)
    BY <1>1 DEF Closed, e
  <2> QED BY <2>1, <2>2, <2>3
<1> HIDE DEF g
<1>8. DueBy(s, g, j, n) <=> DueBy(s, h, j, n)
  BY <1>2, <1>3, <1>6, <1>7 DEF DueBy
<1>9. Earlier(s, g, j, n) <=> Earlier(s, h, j, n)
  BY <1>2 DEF Earlier
<1> QED BY <1>8, <1>9 DEF g

LEMMA SoundGrows ==
  ASSUME NEW s \in Settings, NEW h \in Streams(s), NEW c \in Streams(s), NEW x, Sound(s, h, x)
  PROVE  Sound(s, h \o c, x)
<1> DEFINE g == h \o c
           r == x.row
           e == EpochAt(s, h, x.row)
           F == Frontier(x, e)
<1>1. /\ g \in Streams(s) /\ Len(g) = Len(h) + Len(c) /\ Len(h) \in Nat /\ Len(c) \in Nat
      /\ Len(h) <= Len(g)
  <2>1. Len(h) \in Nat /\ Len(c) \in Nat
    BY DEF Streams
  <2>2. g \in Streams(s) /\ Len(g) = Len(h) + Len(c)
    BY TrailGrows
  <2> QED BY <2>1, <2>2
<1>2. Ledger(h, x) /\ r \in 0 .. Len(h) /\ x.now \in r .. r + 1 /\ x.now <= Len(h)
      /\ x.queue \in Seq(1 .. r) /\ x.learnt \in Seq(1 .. r) /\ x.last \in 0 .. r
  BY DEF Sound, Ledger
<1>3. x.now \in 0 .. Len(h) /\ r \in Nat /\ x.now \in Nat
  <2>1. r \in 0 .. Len(h) /\ x.now \in r .. r + 1 /\ x.now <= Len(h)
    BY <1>2
  <2> QED BY <1>1, <2>1
<1>4. EpochAt(s, g, r) = e /\ EpochAt(s, g, x.now) = EpochAt(s, h, x.now)
  BY <1>2, <1>3, MarksGrow
<1>5. Ledger(g, x)
  <2>1. r \in 0 .. Len(g) /\ x.now <= Len(g)
    BY <1>1, <1>2, <1>3
  <2> QED BY <1>2, <2>1 DEF Ledger
<1>6. /\ \A i \in 1 .. Len(x.queue) : x.queue[i] \in 1 .. Len(h) /\ x.queue[i] \in 1 .. r
      /\ \A i \in 1 .. Len(x.learnt) : x.learnt[i] \in 1 .. Len(h) /\ x.learnt[i] \in 1 .. r
      /\ Len(x.queue) \in Nat /\ Len(x.learnt) \in Nat
  <2>1. 1 .. r \subseteq 1 .. Len(h)
    BY <1>1, <1>2
  <2>2. \A i \in 1 .. Len(x.queue) : x.queue[i] \in 1 .. r
    BY <1>2, ElementOfSeq
  <2>3. \A i \in 1 .. Len(x.learnt) : x.learnt[i] \in 1 .. r
    BY <1>2, ElementOfSeq
  <2> QED BY <1>2, <2>1, <2>2, <2>3
<1>7. \A j \in 1 .. Len(h) : g[j] = h[j]
  BY TrailGrows
<1>8. \A j \in 1 .. Len(h) : \A n \in 1 .. Len(h) :
        /\ DueBy(s, g, j, n) <=> DueBy(s, h, j, n)
        /\ Earlier(s, g, j, n) <=> Earlier(s, h, j, n)
  BY DueGrown
<1>9. /\ EpochAt(s, h, r) = EpochAt(s, h, x.now) /\ InQueue(s, h, x, e)
      /\ InLearnt(s, h, x, e, x.now) /\ Kept(s, h, x, e, r) /\ Counted(s, h, x, r)
      /\ InLine(s, h, x, e, r) /\ NotDue(s, h, x)
  BY DEF Sound, Books
<1>10. e \in Nat /\ e >= 1 /\ e - 1 \in 0 .. Len(h)
  <2>1. EpochAt(s, h, r) \in Nat /\ EpochAt(s, h, r) >= 1
        /\ (r >= 1 => EpochAt(s, h, r) <= r) /\ (r = 0 => EpochAt(s, h, r) = 1)
    BY <1>2, EpochIs
  <2>2. r >= 1 \/ r = 0
    BY <1>3
  <2>3. r <= Len(h)
    BY <1>1, <1>2
  <2> QED BY <1>1, <1>3, <2>1, <2>2, <2>3
<1> HIDE DEF g, e, r
<1>11. InQueue(s, g, x, e)
  <2>1. ASSUME NEW j \in 1 .. Len(x.queue), NEW i \in 1 .. j - 1
        PROVE  Earlier(s, g, x.queue[i], x.queue[j])
    <3>1. i \in 1 .. Len(x.queue)
      BY <1>6
    <3> QED BY <1>6, <1>8, <1>9, <3>1 DEF InQueue
  <2>2. \A i \in 1 .. Len(x.queue) : x.queue[i] >= e /\ HasLesson(s, g[x.queue[i]])
    BY <1>6, <1>7, <1>9 DEF InQueue
  <2> QED BY <2>1, <2>2 DEF InQueue
<1>12. InLearnt(s, g, x, e, x.now)
  <2>1. ASSUME x.last # 0, NEW i \in 1 .. Len(x.queue) PROVE Earlier(s, g, x.last, x.queue[i])
    <3>1. x.last \in 1 .. Len(h)
      BY <1>1, <1>2, <1>3, <2>1 DEF r
    <3> QED BY <1>6, <1>8, <1>9, <2>1, <3>1 DEF InLearnt
  <2>2. ASSUME NEW i \in 1 .. Len(x.learnt), x.learnt[i] >= e
        PROVE  HasLesson(s, g[x.learnt[i]]) /\ DueBy(s, g, x.learnt[i], x.now)
    <3>1. x.now \in 1 .. Len(h)
      <4>1. x.learnt[i] \in 1 .. r
        BY <1>6
      <4>2. r >= 1 /\ x.now >= r
        BY <1>2, <1>3, <4>1
      <4> QED BY <1>3, <4>2
    <3>2. HasLesson(s, h[x.learnt[i]]) /\ DueBy(s, h, x.learnt[i], x.now)
      BY <1>9, <2>2 DEF InLearnt
    <3> QED BY <1>6, <1>7, <1>8, <3>1, <3>2
  <2> DEFINE m == Len(x.learnt)
  <2>3. ASSUME m > 1, x.learnt[m - 1] >= e PROVE Earlier(s, g, x.learnt[m - 1], x.learnt[m])
    <3>1. m - 1 \in 1 .. m /\ m \in 1 .. m
      BY <1>6, <2>3
    <3>2. Earlier(s, h, x.learnt[m - 1], x.learnt[m])
      BY <1>9, <2>3 DEF InLearnt
    <3> QED BY <1>6, <1>8, <3>1, <3>2
  <2> QED BY <1>9, <2>1, <2>2, <2>3 DEF InLearnt
<1>13. Kept(s, g, x, e, r)
  <2>1. ASSUME NEW j \in e .. r PROVE g[j] = h[j]
    <3>1. j \in 1 .. Len(h)
      BY <1>1, <1>2, <1>3, <1>10
    <3> QED BY <1>7, <3>1
  <2> QED BY <1>9, <2>1 DEF Kept
<1>14. Counted(s, g, x, r)
  <2>1. Lessons(s, g, r) = Lessons(s, h, r)
    BY <1>2, MarksGrow DEF g
  <2> QED BY <1>9, <2>1 DEF Counted
<1>15. InLine(s, g, x, e, r)
  <2> SUFFICES ASSUME ~Lab(s) \/ s.by > 0
               PROVE  /\ F <= r
                      /\ Len(x.queue) = Count(s, g, r) - Count(s, g, F)
                      /\ \A i \in 1 .. Len(x.queue) :
                           Count(s, g, x.queue[i]) = Count(s, g, F) + i
                      /\ \A j \in e .. r : j \in Taken(x) <=> j <= F /\ g[j].accept
    BY DEF InLine
  <2>1. /\ F <= r /\ Len(x.queue) = Count(s, h, r) - Count(s, h, F)
        /\ \A i \in 1 .. Len(x.queue) : Count(s, h, x.queue[i]) = Count(s, h, F) + i
        /\ \A j \in e .. r : j \in Taken(x) <=> j <= F /\ h[j].accept
    BY <1>9 DEF InLine
  <2>2. F \in 0 .. Len(h)
    <3>1. CASE x.last = 0
      <4>1. F = e - 1
        BY <3>1 DEF Frontier
      <4> QED BY <1>10, <4>1
    <3>2. CASE x.last # 0
      <4>1. F = x.last
        BY <3>2 DEF Frontier
      <4>2. x.last \in 0 .. r /\ r <= Len(h)
        BY <1>1, <1>2
      <4> QED BY <1>1, <1>3, <4>1, <4>2
    <3> QED BY <3>1, <3>2
  <2> HIDE DEF F
  <2>3. Count(s, g, r) = Count(s, h, r) /\ Count(s, g, F) = Count(s, h, F)
    BY <1>2, <2>2, MarksGrow DEF g
  <2>4. ASSUME NEW i \in 1 .. Len(x.queue)
        PROVE  Count(s, g, x.queue[i]) = Count(s, h, x.queue[i])
    <3>1. x.queue[i] \in 0 .. Len(h)
      <4>1. x.queue[i] \in 1 .. Len(h)
        BY <1>6
      <4> QED BY <1>1, <4>1
    <3> QED BY <3>1, MarksGrow DEF g
  <2>5. ASSUME NEW j \in e .. r PROVE g[j] = h[j]
    <3>1. j \in 1 .. Len(h)
      BY <1>1, <1>2, <1>3, <1>10
    <3> QED BY <1>7, <3>1
  <2> QED BY <2>1, <2>3, <2>4, <2>5
<1>16. NotDue(s, g, x)
  <2>1. ASSUME x.now = x.row, x.row > 0, g[x.row].accept, NEW i \in 1 .. Len(x.queue),
               x.queue[i] # x.row
        PROVE  ~DueBy(s, g, x.queue[i], x.row)
    <3>1. x.row \in 1 .. Len(h)
      BY <1>2, <1>3, <2>1 DEF r
    <3>2. g[x.row] = h[x.row]
      BY <1>7, <3>1
    <3>3. ~DueBy(s, h, x.queue[i], x.row)
      BY <1>9, <2>1, <3>2 DEF NotDue
    <3> QED BY <1>6, <1>8, <3>1, <3>3
  <2> QED BY <2>1 DEF NotDue
<1>17. Books(s, g, x, e, r, x.now)
  BY <1>11, <1>12, <1>13, <1>14, <1>15 DEF Books
<1>18. Sound(s, g, x)
  BY <1>4, <1>5, <1>9, <1>16, <1>17 DEF Sound, r, e
<1> QED BY <1>18 DEF g

-----------------------------------------------------------------------------
(* A model goes through the plans: the ledger from place to place.          *)

IsSeq(q) == q = [i \in 1 .. Len(q) |-> q[i]] /\ Len(q) \in Nat
Path(s, h, x, ps, y) ==
  /\ IsSeq(ps)
  /\ \E L : /\ L[0] = x /\ L[Len(ps)] = y
            /\ \A i \in 1 .. Len(ps) : Booked(s, h, L[i - 1], ps[i], L[i])

Parts(q) == {q[i] : i \in 1 .. Len(q)}
LEMMA SeqOfParts ==
  ASSUME NEW q, IsSeq(q), NEW S, Parts(q) \subseteq S
  PROVE  q \in Seq(S)
<1>1. \A i \in 1 .. Len(q) : q[i] \in S
  BY DEF Parts
<1>2. q = [i \in 1 .. Len(q) |-> q[i]] /\ Len(q) \in Nat
  BY DEF IsSeq
<1> DEFINE n == Len(q)
<1>3. [i \in 1 .. n |-> q[i]] \in [1 .. n -> S]
  BY <1>1
<1> HIDE DEF n
<1>4. [i \in 1 .. n |-> q[i]] \in Seq(S)
  BY <1>2, <1>3, SeqDef DEF n
<1> QED BY <1>2, <1>4 DEF n

LEMMA SeqIs ==
  ASSUME NEW S, NEW q \in Seq(S)
  PROVE  IsSeq(q)
<1>1. Len(q) \in Nat /\ DOMAIN q = 1 .. Len(q)
  OBVIOUS
<1>2. q = [i \in DOMAIN q |-> q[i]]
  OBVIOUS
<1> QED BY <1>1, <1>2 DEF IsSeq

LEMMA NoPath ==
  ASSUME NEW s, NEW h, NEW x
  PROVE  Path(s, h, x, <<>>, x)
<1> DEFINE L == [i \in 0 .. 0 |-> x]
<1>1. L[0] = x /\ L[Len(<<>>)] = x
  OBVIOUS
<1>2. 1 .. Len(<<>>) = {}
  OBVIOUS
<1>3. IsSeq(<<>>)
  <2>1. <<>> \in Seq({})
    OBVIOUS
  <2> QED BY <2>1, SeqIs
<1> QED BY <1>1, <1>2, <1>3 DEF Path

LEMMA PathEnd ==
  ASSUME NEW s, NEW h, NEW x, NEW y, Path(s, h, x, <<>>, y)
  PROVE  y = x
BY DEF Path

\* One path after another.
Joins(ps, qs, out) ==
  /\ IsSeq(out) /\ Len(out) = Len(ps) + Len(qs)
  /\ \A i \in 1 .. Len(ps) : out[i] = ps[i]
  /\ \A i \in 1 .. Len(qs) : out[Len(ps) + i] = qs[i]
LEMMA JoinIs ==
  ASSUME NEW ps, IsSeq(ps), NEW qs, IsSeq(qs)
  PROVE  Joins(ps, qs, ps \o qs)
<1> DEFINE S == Parts(ps) \cup Parts(qs)
<1>1. ps \in Seq(S) /\ qs \in Seq(S)
  BY SeqOfParts
<1> HIDE DEF S
<1>2. /\ ps \o qs \in Seq(S) /\ Len(ps \o qs) = Len(ps) + Len(qs)
      /\ Len(ps) \in Nat /\ Len(qs) \in Nat
  BY <1>1, ConcatProperties
<1>3. \A i \in 1 .. Len(ps) + Len(qs) :
        (ps \o qs)[i] = IF i <= Len(ps) THEN ps[i] ELSE qs[i - Len(ps)]
  BY <1>1, ConcatProperties
<1>4. ASSUME NEW i \in 1 .. Len(ps) PROVE (ps \o qs)[i] = ps[i]
  <2>1. i \in 1 .. Len(ps) + Len(qs) /\ i <= Len(ps)
    BY <1>2
  <2> QED BY <1>3, <2>1
<1>5. ASSUME NEW i \in 1 .. Len(qs) PROVE (ps \o qs)[Len(ps) + i] = qs[i]
  <2>1. /\ Len(ps) + i \in 1 .. Len(ps) + Len(qs) /\ ~(Len(ps) + i <= Len(ps))
        /\ (Len(ps) + i) - Len(ps) = i
    BY <1>2
  <2> QED BY <1>3, <2>1
<1>6. IsSeq(ps \o qs)
  BY <1>2, SeqIs
<1> QED BY <1>2, <1>4, <1>5, <1>6 DEF Joins

LEMMA PathJoin ==
  ASSUME NEW s, NEW h, NEW x, NEW y, NEW z, NEW ps, NEW qs,
         Path(s, h, x, ps, y), Path(s, h, y, qs, z)
  PROVE  Path(s, h, x, ps \o qs, z)
<1> DEFINE n == Len(ps)
           m == Len(qs)
           out == ps \o qs
<1>1. IsSeq(ps) /\ IsSeq(qs)
  BY DEF Path
<1>2. n \in Nat /\ m \in Nat
  BY <1>1 DEF IsSeq
<1>3. Joins(ps, qs, out)
  BY <1>1, JoinIs
<1>4. PICK L : /\ L[0] = x /\ L[n] = y
               /\ \A i \in 1 .. n : Booked(s, h, L[i - 1], ps[i], L[i])
  BY DEF Path
<1>5. PICK M : /\ M[0] = y /\ M[m] = z
               /\ \A i \in 1 .. m : Booked(s, h, M[i - 1], qs[i], M[i])
  BY DEF Path
<1> DEFINE K == [i \in 0 .. n + m |-> IF i <= n THEN L[i] ELSE M[i - n]]
<1> HIDE DEF n, m, out
<1>6. K[0] = x
  BY <1>2, <1>4
<1>7. K[n + m] = z
  <2>1. CASE m = 0
    <3>1. K[n + m] = L[n] /\ M[m] = M[0]
      BY <1>2, <2>1
    <3> QED BY <1>4, <1>5, <3>1
  <2>2. CASE m # 0
    <3>1. n + m \in 0 .. n + m /\ ~(n + m <= n) /\ (n + m) - n = m
      BY <1>2, <2>2
    <3> QED BY <1>5, <3>1
  <2> QED BY <2>1, <2>2
<1>8. Len(out) = n + m /\ IsSeq(out)
  BY <1>3 DEF Joins, n, m
<1>9. ASSUME NEW i \in 1 .. n + m PROVE Booked(s, h, K[i - 1], out[i], K[i])
  <2>1. CASE i <= n
    <3>1. i \in 1 .. n /\ i \in 0 .. n + m /\ i - 1 \in 0 .. n + m /\ i - 1 <= n
      BY <1>2, <2>1
    <3>2. K[i] = L[i] /\ K[i - 1] = L[i - 1]
      BY <2>1, <3>1
    <3>3. out[i] = ps[i]
      BY <1>3, <3>1 DEF Joins, n
    <3> HIDE DEF K
    <3> QED BY <1>4, <3>1, <3>2, <3>3
  <2>2. CASE ~(i <= n)
    <3>1. i - n \in 1 .. m /\ i \in 0 .. n + m /\ i - 1 \in 0 .. n + m /\ n + (i - n) = i
      BY <1>2, <2>2
    <3>2. K[i] = M[i - n]
      BY <2>2, <3>1
    <3>3. K[i - 1] = M[(i - n) - 1]
      <4>1. CASE i - 1 <= n
        <5>1. i - 1 = n /\ (i - n) - 1 = 0
          BY <1>2, <2>2, <4>1
        <5>2. K[i - 1] = L[n]
          BY <3>1, <5>1
        <5> HIDE DEF K
        <5> QED BY <1>4, <1>5, <5>1, <5>2
      <4>2. CASE ~(i - 1 <= n)
        <5>1. (i - 1) - n = (i - n) - 1
          BY <1>2
        <5> QED BY <3>1, <4>2, <5>1
      <4> QED BY <4>1, <4>2
    <3>4. out[i] = qs[i - n]
      BY <1>3, <3>1 DEF Joins, n, m
    <3> HIDE DEF K
    <3> QED BY <1>5, <3>1, <3>2, <3>3, <3>4
  <2> QED BY <2>1, <2>2
<1> HIDE DEF K
<1>10. \A i \in 1 .. Len(out) : Booked(s, h, K[i - 1], out[i], K[i])
  BY <1>8, <1>9
<1>11. K[Len(out)] = z
  BY <1>7, <1>8
<1>12. Path(s, h, x, out, z)
  BY <1>6, <1>8, <1>10, <1>11 DEF Path
<1> QED BY <1>12 DEF out

LEMMA PathOne ==
  ASSUME NEW s, NEW h, NEW x, NEW p, NEW y, Booked(s, h, x, p, y)
  PROVE  Path(s, h, x, <<p>>, y)
<1> DEFINE L == [i \in 0 .. 1 |-> IF i = 0 THEN x ELSE y]
<1>1. L[0] = x /\ L[1] = y /\ Len(<<p>>) = 1 /\ <<p>>[1] = p
  OBVIOUS
<1>2. IsSeq(<<p>>)
  <2>1. <<p>> \in Seq({p})
    OBVIOUS
  <2> QED BY <2>1, SeqIs
<1> HIDE DEF L
<1>3. \A i \in 1 .. Len(<<p>>) : Booked(s, h, L[i - 1], <<p>>[i], L[i])
  <2> SUFFICES ASSUME NEW i \in 1 .. 1 PROVE Booked(s, h, L[i - 1], <<p>>[i], L[i])
    BY <1>1
  <2>1. i = 1 /\ i - 1 = 0
    OBVIOUS
  <2> QED BY <1>1, <2>1
<1> QED BY <1>1, <1>2, <1>3 DEF Path

\* The first plan and those after it.
LEMMA PathHead ==
  ASSUME NEW s, NEW h, NEW x, NEW y, NEW ps, Path(s, h, x, ps, y), ps # <<>>
  PROVE  \E z : Booked(s, h, x, Head(ps), z) /\ Path(s, h, z, Tail(ps), y)
<1> DEFINE n == Len(ps)
           S == Parts(ps)
<1>1. IsSeq(ps)
  BY DEF Path
<1>2. ps \in Seq(S)
  BY <1>1, SeqOfParts
<1>3. PICK L : /\ L[0] = x /\ L[n] = y
               /\ \A i \in 1 .. n : Booked(s, h, L[i - 1], ps[i], L[i])
  BY DEF Path
<1> HIDE DEF S
<1>4. n \in Nat /\ n > 0
  BY <1>2, EmptySeq
<1>5. Head(ps) = ps[1]
  BY <1>2
<1>6. /\ Tail(ps) \in Seq(S) /\ Len(Tail(ps)) = n - 1
      /\ \A i \in 1 .. Len(Tail(ps)) : Tail(ps)[i] = ps[i + 1]
  BY <1>2, HeadTailProperties
<1> DEFINE t == Tail(ps)
           K == [i \in 0 .. n - 1 |-> L[i + 1]]
<1> HIDE DEF n, t
<1>7. K[0] = L[1] /\ K[n - 1] = y
  <2>1. 0 \in 0 .. n - 1 /\ n - 1 \in 0 .. n - 1 /\ 0 + 1 = 1 /\ (n - 1) + 1 = n
    BY <1>4
  <2> QED BY <1>3, <2>1
<1>8. ASSUME NEW i \in 1 .. n - 1 PROVE Booked(s, h, K[i - 1], t[i], K[i])
  <2>1. /\ i \in 0 .. n - 1 /\ i - 1 \in 0 .. n - 1 /\ (i - 1) + 1 = (i + 1) - 1
        /\ i + 1 \in 1 .. n
    BY <1>4
  <2>2. K[i - 1] = L[(i + 1) - 1] /\ K[i] = L[i + 1]
    BY <2>1
  <2>3. t[i] = ps[i + 1]
    BY <1>6 DEF t
  <2> HIDE DEF K
  <2> QED BY <1>3, <2>1, <2>2, <2>3
<1> HIDE DEF K
<1>9. IsSeq(t)
  BY <1>6, SeqIs DEF t
<1>10. Path(s, h, L[1], t, y)
  BY <1>6, <1>7, <1>8, <1>9 DEF Path, t
<1>11. Booked(s, h, x, Head(ps), L[1])
  <2>1. 1 \in 1 .. n /\ 1 - 1 = 0
    BY <1>4
  <2>2. Booked(s, h, L[1 - 1], ps[1], L[1])
    BY <1>3, <2>1
  <2> QED BY <1>3, <1>5, <2>1, <2>2
<1> QED BY <1>10, <1>11 DEF t

LEMMA PathSound ==
  ASSUME NEW s \in Settings, NEW h \in Streams(s), Legal(s, h),
         NEW x, Sound(s, h, x), NEW ps, NEW y, Path(s, h, x, ps, y)
  PROVE  Sound(s, h, y)
<1> DEFINE n == Len(ps)
<1>1. PICK L : /\ L[0] = x /\ L[n] = y
               /\ \A i \in 1 .. n : Booked(s, h, L[i - 1], ps[i], L[i])
  BY DEF Path
<1>2. n \in Nat
  BY DEF Path, IsSeq
<1> DEFINE T == {i \in 0 .. n : Sound(s, h, L[i])}
<1>3. 0 \in T
  BY <1>1, <1>2
<1> HIDE DEF n
<1>4. ASSUME NEW i \in 1 .. n, i - 1 \in T PROVE i \in T
  <2>1. Sound(s, h, L[i - 1]) /\ Booked(s, h, L[i - 1], ps[i], L[i])
    BY <1>1, <1>4
  <2>2. Sound(s, h, L[i])
    BY <2>1, BookedSound
  <2> QED BY <1>2, <2>2
<1>5. 0 .. n \subseteq T
  <2> HIDE DEF T
  <2> QED BY <1>2, <1>3, <1>4, UpTo
<1>6. n \in 0 .. n
  BY <1>2
<1> QED BY <1>1, <1>5, <1>6

\* At first nothing is held and nothing learned.
NoLedger == [queue |-> <<>>, learnt |-> <<>>, row |-> 0, now |-> 0, last |-> 0, dropped |-> 0]
LEMMA FirstSound ==
  ASSUME NEW s \in Settings
  PROVE  Sound(s, <<>>, NoLedger)
<1> DEFINE x == NoLedger
           h == <<>>
<1>1. h \in Streams(s) /\ Len(h) = 0
  BY DEF Streams
<1>2. /\ x.queue = <<>> /\ x.learnt = <<>> /\ x.row = 0 /\ x.now = 0 /\ x.last = 0
      /\ x.dropped = 0 /\ Len(x.queue) = 0 /\ Len(x.learnt) = 0
      /\ x = [queue |-> x.queue, learnt |-> x.learnt, row |-> x.row, now |-> x.now,
              last |-> x.last, dropped |-> x.dropped]
  BY DEF NoLedger
<1>3. EpochAt(s, h, 0) = 1 /\ Count(s, h, 0) = 0 /\ Lessons(s, h, 0) = 0
  BY <1>1, MarkZero
<1> HIDE DEF x, h
<1>4. \A i \in 1 .. 0 : FALSE
  OBVIOUS
<1>5. Ledger(h, x)
  BY <1>1, <1>2 DEF Ledger
<1>6. InQueue(s, h, x, 1) /\ InLearnt(s, h, x, 1, 0)
  BY <1>2, <1>4 DEF InQueue, InLearnt
<1>7. Kept(s, h, x, 1, 0)
  BY <1>4 DEF Kept
<1>8. s.maxHeld \in Nat
  BY SettingIs
<1>9. Counted(s, h, x, 0)
  BY <1>2, <1>3, <1>8 DEF Counted
<1>10. InLine(s, h, x, 1, 0)
  BY <1>2, <1>3, <1>4 DEF InLine, Frontier
<1>11. NotDue(s, h, x)
  BY <1>2 DEF NotDue
<1>12. Books(s, h, x, EpochAt(s, h, x.row), x.row, x.now)
  BY <1>2, <1>3, <1>6, <1>7, <1>9, <1>10 DEF Books
<1>13. Sound(s, h, x)
  BY <1>2, <1>5, <1>11, <1>12 DEF Sound
<1> QED BY <1>13 DEF x, h

-----------------------------------------------------------------------------
(* The buffer beside the ledger: what is held of each row, at row n.        *)

HeldOf(s, h, n, k) ==
  [id |-> k, clock |-> h[k].at, arrived |-> ElapsedBy(s, h, k), d |-> DAt(s, h, k),
   fresh |-> FreshOf(s, h, k), events |-> IF Lab(s) THEN {} ELSE EventsOf(s, h, k),
   resolved |-> (~Frm(s) \/ Rank(s, h, k, n) <= Closed(s, h, n)),
   label |-> IF Lab(s) THEN h[k].label ELSE NoLabel]
Pending(s, h, n, q) == [i \in 1 .. Len(q) |-> HeldOf(s, h, n, q[i])]
BreakHeld(s, h, n)  == IF LastAt(s, h, n) = n THEN {} ELSE EventsOf(s, h, n)
LabelledBy(h, last, c) ==
  /\ IsClock(c)
  /\ last = 0 => ~c.started
  /\ last # 0 => c.started /\ c.prev = h[last].label /\ c.session = 0 /\ c.pending = 0
LabelClock(s, h, x, c) == Lab(s) => LabelledBy(h, x.last, c)
Buffered(s, h, n, x, a) ==
  /\ a.pending = Pending(s, h, n, x.queue)
  /\ a.heldBreak = BreakHeld(s, h, n)
  /\ LabelClock(s, h, x, a.learned)
  /\ a.missing = (IF Lab(s) THEN Nulls(s, h, n) ELSE 0)
  /\ a.dropped = x.dropped
IsBuffer(a) ==
  a = [pending |-> a.pending, heldBreak |-> a.heldBreak, learned |-> a.learned,
       missing |-> a.missing, dropped |-> a.dropped, out |-> a.out]

\* The row that closed a row's windows has come, or it has not.
LEMMA ResolvedIs ==
  ASSUME NEW s \in Settings, NEW h \in Streams(s), NEW k \in 1 .. Len(h), ~ResetAt(s, h, k),
         NEW j \in EpochAt(s, h, k) .. k - 1, h[j].accept, NEW m \in 0 .. k - 1, NEW known,
         Frm(s) => KnownIs(s, h, m, Len(h), known), NEW p, p.id = k
  PROVE  (~Frm(s) \/ Rank(s, h, j, k) <= Closed(s, h, k))
           = ((~Frm(s) \/ Rank(s, h, j, k - 1) <= Closed(s, h, k - 1)) \/ ResolvedBy(j, p, known))
<1> SUFFICES ASSUME Frm(s)
             PROVE  Rank(s, h, j, k) <= Closed(s, h, k)
                      <=> (Rank(s, h, j, k - 1) <= Closed(s, h, k - 1) \/ ResolvedBy(j, p, known))
  OBVIOUS
<1>1. k \in Nat /\ k \in 0 .. Len(h) /\ Len(h) \in Nat /\ m \in Nat
  BY DEF Streams
<1>2. EpochAt(s, h, k) \in Nat /\ EpochAt(s, h, k) >= 1 /\ j \in Nat /\ j < k /\ k > 1 /\ j \in 1 .. Len(h)
  <2>1. EpochAt(s, h, k) \in Nat /\ EpochAt(s, h, k) >= 1
    BY <1>1, EpochIs
  <2> QED BY <1>1, <2>1
<1>3. KnownIs(s, h, m, Len(h), known)
  OBVIOUS
<1>4. /\ EpochAt(s, h, k) = EpochAt(s, h, k - 1)
      /\ Rank(s, h, j, k) = Rank(s, h, j, k - 1)
      /\ Closed(s, h, k) = Closed(s, h, k - 1) + h[k].closes
  BY <1>2, RanksOf
<1>5. h[k].closes \in Nat /\ Closed(s, h, k) \in Nat /\ Closed(s, h, k - 1) \in Nat
  <2>1. k - 1 \in 1 .. Len(h)
    BY <1>1, <1>2
  <2> QED BY <2>1, RowIs, RanksOf
<1>6. Rank(s, h, j, k) \in Int
  <2>1. j \in 0 .. Len(h) /\ EpochAt(s, h, k) - 1 \in 0 .. Len(h)
    BY <1>1, <1>2
  <2>2. Count(s, h, j) \in Nat /\ Count(s, h, EpochAt(s, h, k) - 1) \in Nat
    BY <2>1, MarkIs
  <2> QED BY <2>2 DEF Rank
<1>7. ASSUME ResolvedBy(j, p, known) PROVE Rank(s, h, j, k) <= Closed(s, h, k)
  <2>1. PICK x \in known : x.id = j /\ x.at <= k
    BY <1>7 DEF ResolvedBy
  <2>2. PICK i \in m + 1 .. Len(h), l \in 1 .. Len(h) :
          ClosesAt(s, h, l, i) /\ x = [id |-> l, at |-> i]
    BY <1>3, <2>1 DEF KnownIs
  <2>3. ClosesAt(s, h, j, i) /\ i <= k
    BY <2>1, <2>2
  <2>4. j \in EpochAt(s, h, i) .. i - 1 /\ Rank(s, h, j, i) \in Closed(s, h, i - 1) + 1 .. Closed(s, h, i)
    BY <2>3 DEF ClosesAt
  <2>5. i \in Nat /\ i \in 1 .. Len(h) /\ i \in 0 .. Len(h)
    BY <1>1
  <2>6. EpochAt(s, h, i) \in Nat
    BY <2>5, MarkIs
  <2>7. i \in EpochAt(s, h, k) .. k
    BY <1>1, <1>2, <2>3, <2>4, <2>5, <2>6
  <2>8. EpochAt(s, h, i) = EpochAt(s, h, k)
    BY <1>1, <2>7, EpochIs
  <2>9. Rank(s, h, j, i) = Rank(s, h, j, k)
    BY <2>8 DEF Rank
  <2>10. Closed(s, h, i) <= Closed(s, h, k)
    <3>1. Shut(s, h, i) <= Shut(s, h, k)
      <4>1. k \in i .. Len(h)
        BY <1>1, <2>3, <2>5
      <4> QED BY <2>5, <4>1, MarksRise
    <3>2. i # 0 /\ k # 0
      BY <1>1, <2>5
    <3>3. Shut(s, h, i) \in Nat /\ Shut(s, h, k) \in Nat /\ Shut(s, h, EpochAt(s, h, k)) \in Nat
      <4>1. EpochAt(s, h, k) \in 0 .. Len(h)
        BY <1>1, <1>2
      <4> QED BY <1>1, <2>5, <4>1, MarkIs
    <3>4. /\ Closed(s, h, i) = Shut(s, h, i) - Shut(s, h, EpochAt(s, h, k))
          /\ Closed(s, h, k) = Shut(s, h, k) - Shut(s, h, EpochAt(s, h, k))
      BY <2>8, <3>2 DEF Closed
    <3> QED BY <3>1, <3>3, <3>4
  <2>11. Closed(s, h, i) \in Nat /\ Closed(s, h, i - 1) \in Nat
    <3>1. Closed(s, h, i) \in Nat
      BY <2>5, RanksOf
    <3>2. CASE i = 1
      BY <3>1, <3>2 DEF Closed
    <3>3. CASE i # 1
      <4>1. i - 1 \in 1 .. Len(h)
        BY <2>5, <3>3
      <4> QED BY <3>1, <4>1, RanksOf
    <3> QED BY <3>2, <3>3
  <2>12. Rank(s, h, j, k) <= Closed(s, h, i)
    BY <2>4, <2>9, <2>11
  <2> QED BY <1>5, <1>6, <2>10, <2>11, <2>12
<1>8. ASSUME Rank(s, h, j, k) <= Closed(s, h, k), ~(Rank(s, h, j, k) <= Closed(s, h, k - 1))
      PROVE  ResolvedBy(j, p, known)
  <2>1. Rank(s, h, j, k) \in Closed(s, h, k - 1) + 1 .. Closed(s, h, k)
    BY <1>5, <1>6, <1>8
  <2>2. ClosesAt(s, h, j, k)
    BY <1>2, <1>4, <2>1 DEF ClosesAt
  <2>3. k \in m + 1 .. Len(h)
    BY <1>1
  <2> DEFINE x == [id |-> j, at |-> k]
  <2>4. x \in known
    BY <1>2, <1>3, <2>2, <2>3 DEF KnownIs
  <2>5. x.id = j /\ x.at = k /\ k <= k
    BY <1>1
  <2> HIDE DEF x
  <2> QED BY <2>4, <2>5 DEF ResolvedBy
<1>9. Rank(s, h, j, k) <= Closed(s, h, k - 1) => Rank(s, h, j, k) <= Closed(s, h, k)
  BY <1>4, <1>5, <1>6
<1> QED BY <1>4, <1>7, <1>8, <1>9

\* A row comes to the buffer: a clock reset drops what is held, and the rows
\* whose windows it closed are resolved.
Entering(s, h, k, w, a, b) ==
  /\ IsBuffer(b)
  /\ b.pending = Pending(s, h, k, w.queue)
  /\ b.heldBreak = (IF ResetAt(s, h, k) THEN {} ELSE a.heldBreak)
  /\ LabelClock(s, h, w, b.learned)
  /\ b.missing = a.missing /\ b.dropped = w.dropped /\ b.out = a.out

LEMMA PendingIs ==
  ASSUME NEW s, NEW h, NEW n, NEW S, NEW q \in Seq(S)
  PROVE  /\ Len(Pending(s, h, n, q)) = Len(q) /\ DOMAIN Pending(s, h, n, q) = 1 .. Len(q)
         /\ \A i \in 1 .. Len(q) : Pending(s, h, n, q)[i] = HeldOf(s, h, n, q[i])
         /\ IsSeq(Pending(s, h, n, q))
<1> DEFINE P == Pending(s, h, n, q)
           m == Len(q)
<1>1. m \in Nat
  OBVIOUS
<1>2. P = [i \in 1 .. m |-> HeldOf(s, h, n, q[i])]
  BY DEF Pending
<1>3. DOMAIN P = 1 .. m /\ \A i \in 1 .. m : P[i] = HeldOf(s, h, n, q[i])
  BY <1>2
<1> HIDE DEF P, m
<1>4. P = [i \in 1 .. m |-> P[i]]
  BY <1>2, <1>3
<1>5. Len(P) = m
  <2> DEFINE T == {P[i] : i \in 1 .. m}
  <2>1. P \in [1 .. m -> T]
    BY <1>4
  <2> HIDE DEF T
  <2>2. P \in Seq(T)
    BY <1>1, <2>1, SeqDef
  <2>3. Len(P) \in Nat /\ 1 .. Len(P) = 1 .. m
    BY <1>3, <2>2, LenProperties
  <2> QED BY <1>1, <2>3
<1>6. IsSeq(P)
  BY <1>1, <1>4, <1>5 DEF IsSeq
<1> QED BY <1>3, <1>5, <1>6 DEF P, m

LEMMA EnteringIs ==
  ASSUME setting \in Settings, NEW h \in Streams(setting), Legal(setting, h),
         NEW x, Sound(setting, h, x), NEW k, k = x.row + 1, k \in 1 .. Len(h),
         NEW a, IsBuffer(a), Buffered(setting, h, k - 1, x, a), NEW m \in 0 .. k - 1, NEW known,
         Frm(setting) => KnownIs(setting, h, m, Len(h), known),
         NEW p, p = PlanOf(setting, h, k)
  PROVE  Entering(setting, h, k, Emptied(setting, h, x, k), a, Resolve(Restarted(a, p), p, known))
<1> DEFINE s == setting
           w == Emptied(s, h, x, k)
           c == Restarted(a, p)
           b == Resolve(c, p, known)
           reset == ResetAt(s, h, k)
<1>1. p.reset = reset /\ p.id = k /\ s \in Settings
  BY DEF PlanOf
<1>2. Ledger(h, x)
  BY DEF Sound
<1>3. EmptiedTo(s, h, x, k, w) /\ Ledger(h, w)
  BY <1>2, EmptiedFields
<1>4. /\ Books(s, h, w, EpochAt(s, h, k), k - 1, k)
      /\ EpochAt(s, h, k) \in 1 .. k
  BY <1>1, EmptiedIs
<1>5. x.queue \in Seq(1 .. x.row) /\ w.queue \in Seq(1 .. x.row)
  BY <1>2, <1>3 DEF Ledger, EmptiedTo
<1> HIDE DEF w, s
<1>6. /\ Len(Pending(s, h, k - 1, x.queue)) = Len(x.queue)
      /\ DOMAIN Pending(s, h, k - 1, w.queue) = 1 .. Len(w.queue)
      /\ \A i \in 1 .. Len(w.queue) : Pending(s, h, k - 1, w.queue)[i] = HeldOf(s, h, k - 1, w.queue[i])
  BY <1>5, PendingIs
<1>7. /\ IsBuffer(c) /\ c.pending = Pending(s, h, k - 1, w.queue)
      /\ c.heldBreak = (IF reset THEN {} ELSE a.heldBreak)
      /\ c.missing = a.missing /\ c.dropped = w.dropped /\ c.out = a.out
      /\ c.learned = (IF reset THEN C!New ELSE a.learned)
  <2>1. /\ a.pending = Pending(s, h, k - 1, x.queue) /\ a.dropped = x.dropped
    BY DEF Buffered, s
  <2>2. a = [pending |-> a.pending, heldBreak |-> a.heldBreak, learned |-> a.learned,
             missing |-> a.missing, dropped |-> a.dropped, out |-> a.out]
    BY DEF IsBuffer
  <2>3. ASSUME reset
        PROVE  c = [pending |-> <<>>, heldBreak |-> {}, learned |-> C!New, missing |-> a.missing,
                    dropped |-> w.dropped, out |-> a.out]
    <3>1. c = [a EXCEPT !.pending = <<>>, !.heldBreak = {}, !.learned = C!New,
                        !.dropped = @ + IF Labelled THEN Len(a.pending) ELSE 0]
      BY <1>1, <2>3 DEF Restarted, s
    <3>2. a.dropped + (IF Labelled THEN Len(a.pending) ELSE 0) = w.dropped
      <4>1. x.dropped \in Nat
        BY <1>2 DEF Ledger
      <4>2. Labelled = Lab(s)
        BY DEF Labelled, Lab, s
      <4>3. w.dropped = IF reset /\ Lab(s) THEN x.dropped + Len(x.queue) ELSE x.dropped
        BY <1>3 DEF EmptiedTo, s
      <4> QED BY <1>6, <2>1, <2>3, <4>1, <4>2, <4>3
    <3> HIDE DEF c
    <3>3. c = [a EXCEPT !.pending = <<>>, !.heldBreak = {}, !.learned = C!New,
                        !.dropped = w.dropped]
      BY <2>2, <3>1, <3>2
    <3> QED BY <2>2, <3>3
  <2>4. ASSUME reset PROVE Pending(s, h, k - 1, w.queue) = <<>>
    <3>1. w.queue = <<>>
      BY <1>3, <2>4 DEF EmptiedTo, s
    <3> QED BY <3>1 DEF Pending
  <2>5. ASSUME ~reset PROVE c = a /\ w.queue = x.queue /\ w.dropped = x.dropped
    BY <1>1, <1>3, <2>5 DEF Restarted, EmptiedTo, s
  <2>6. CASE reset
    <3> HIDE DEF c
    <3>1. c = [pending |-> <<>>, heldBreak |-> {}, learned |-> C!New, missing |-> a.missing,
               dropped |-> w.dropped, out |-> a.out]
      BY <2>3, <2>6
    <3> QED BY <2>4, <2>6, <3>1 DEF IsBuffer
  <2>7. CASE ~reset
    <3> HIDE DEF c
    <3> QED BY <2>1, <2>2, <2>5, <2>7 DEF IsBuffer
  <2> QED BY <2>6, <2>7
<1>8. LabelClock(s, h, w, c.learned)
  <2>1. LabelClock(s, h, x, a.learned)
    BY DEF Buffered, s
  <2>2. CASE reset
    <3>1. w.last = 0
      BY <1>3, <2>2 DEF EmptiedTo, s
    <3> QED BY <1>7, <2>2, <3>1, NewIsClock DEF LabelClock, LabelledBy
  <2>3. CASE ~reset
    <3>1. w.last = x.last
      BY <1>3, <2>3 DEF EmptiedTo, s
    <3> QED BY <1>7, <2>1, <2>3, <3>1 DEF LabelClock
  <2> QED BY <2>2, <2>3
<1> HIDE DEF c
<1> DEFINE P == [i \in DOMAIN c.pending |-> Settled(c.pending[i], p, known)]
<1>9. b = [c EXCEPT !.pending = P]
  BY DEF Resolve
<1>10. P = Pending(s, h, k, w.queue)
  <2>1. P = [i \in 1 .. Len(w.queue) |->
               Settled(Pending(s, h, k - 1, w.queue)[i], p, known)]
    BY <1>6, <1>7
  <2>2. ASSUME NEW i \in 1 .. Len(w.queue)
        PROVE  Settled(Pending(s, h, k - 1, w.queue)[i], p, known) = HeldOf(s, h, k, w.queue[i])
    <3> DEFINE j == w.queue[i]
               old == HeldOf(s, h, k - 1, j)
    <3>1. Pending(s, h, k - 1, w.queue)[i] = old
      BY <1>6
    <3>2. j \in 1 .. k - 1 /\ j >= EpochAt(s, h, k) /\ h[j].accept /\ ~reset
      <4>1. w.queue[i] \in 1 .. x.row
        BY <1>5, ElementOfSeq
      <4>2. InQueue(s, h, w, EpochAt(s, h, k))
        BY <1>4 DEF Books, s
      <4>3. j >= EpochAt(s, h, k) /\ HasLesson(s, h[j])
        BY <4>2 DEF InQueue
      <4>4. ~reset
        <5>1. ASSUME reset PROVE FALSE
          <6>1. w.queue = <<>>
            BY <1>3, <5>1 DEF EmptiedTo, s
          <6> QED BY <6>1
        <5> QED BY <5>1
      <4>5. x.row \in Nat
        BY <1>2 DEF Ledger
      <4>6. x.row = k - 1
        BY <4>5
      <4> QED BY <4>1, <4>3, <4>4, <4>6 DEF HasLesson
    <3>3. (~Frm(s) \/ Rank(s, h, j, k) <= Closed(s, h, k))
            = ((~Frm(s) \/ Rank(s, h, j, k - 1) <= Closed(s, h, k - 1)) \/ ResolvedBy(j, p, known))
      <4>1. j \in EpochAt(s, h, k) .. k - 1
        BY <1>4, <3>2
      <4>2. Frm(s) => KnownIs(s, h, m, Len(h), known)
        BY DEF s
      <4>3. h \in Streams(s) /\ ~ResetAt(s, h, k) /\ h[j].accept
        BY <3>2 DEF s
      <4> QED BY <1>1, <4>1, <4>2, <4>3, ResolvedIs
    <3>4. old.id = j /\ old.resolved = (~Frm(s) \/ Rank(s, h, j, k - 1) <= Closed(s, h, k - 1))
      BY DEF HeldOf
    <3> DEFINE res == ((~Frm(s) \/ Rank(s, h, j, k - 1) <= Closed(s, h, k - 1)) \/ ResolvedBy(j, p, known))
    <3>5. Settled(old, p, known) = [old EXCEPT !.resolved = res]
      BY <3>4 DEF Settled
    <3>6. [old EXCEPT !.resolved = res] = HeldOf(s, h, k, j)
      <4> DEFINE ev == IF Lab(s) THEN {} ELSE EventsOf(s, h, j)
                 lb == IF Lab(s) THEN h[j].label ELSE NoLabel
                 was == (~Frm(s) \/ Rank(s, h, j, k - 1) <= Closed(s, h, k - 1))
      <4>1. HeldOf(s, h, k, j) =
              [id |-> j, clock |-> h[j].at, arrived |-> ElapsedBy(s, h, j), d |-> DAt(s, h, j),
               fresh |-> FreshOf(s, h, j), events |-> ev, resolved |-> res, label |-> lb]
        BY <3>3 DEF HeldOf
      <4>2. old =
              [id |-> j, clock |-> h[j].at, arrived |-> ElapsedBy(s, h, j), d |-> DAt(s, h, j),
               fresh |-> FreshOf(s, h, j), events |-> ev, resolved |-> was, label |-> lb]
        BY DEF HeldOf
      <4> HIDE DEF res, ev, lb, was, old, j
      <4> QED BY <4>1, <4>2
    <3> QED BY <3>1, <3>5, <3>6
  <2> QED BY <2>1, <2>2 DEF Pending
<1> HIDE DEF P
<1>11. b = [pending |-> P, heldBreak |-> c.heldBreak, learned |-> c.learned,
            missing |-> c.missing, dropped |-> c.dropped, out |-> c.out]
  BY <1>7, <1>9 DEF IsBuffer
<1> HIDE DEF b
<1>12. /\ b.pending = P /\ b.heldBreak = c.heldBreak /\ b.learned = c.learned
       /\ b.missing = c.missing /\ b.dropped = c.dropped /\ b.out = c.out
  BY <1>11
<1>13. IsBuffer(b)
  BY <1>11, <1>12 DEF IsBuffer
<1>14. Entering(s, h, k, w, a, b)
  BY <1>7, <1>8, <1>10, <1>12, <1>13 DEF Entering, s
<1> QED BY <1>14 DEF b, w, s, c

LEMMA PathAppend ==
  ASSUME NEW s, NEW h, NEW x, NEW y, NEW z, NEW ps, NEW p,
         Path(s, h, x, ps, y), Booked(s, h, y, p, z)
  PROVE  Path(s, h, x, Append(ps, p), z)
<1>1. IsSeq(ps)
  BY DEF Path
<1> DEFINE S == Parts(ps) \cup {p}
<1>2. ps \in Seq(S) /\ p \in S
  BY <1>1, SeqOfParts
<1> HIDE DEF S
<1>3. Append(ps, p) = ps \o <<p>>
  BY <1>2, AppendIsConcat
<1>4. Path(s, h, y, <<p>>, z)
  BY PathOne
<1> QED BY <1>3, <1>4, PathJoin

\* How many rows go from the front.
GoFirst(queue, go, n) ==
  /\ n \in 0 .. Len(queue) /\ \A i \in 1 .. n : i \in go
  /\ n < Len(queue) => n + 1 \notin go
LEMMA FrontIs ==
  ASSUME NEW queue, Len(queue) \in Nat, DOMAIN queue = 1 .. Len(queue), NEW go
  PROVE  GoFirst(queue, go, FrontOf(queue, go))
<1> DEFINE N == Len(queue)
           stay == (1 .. N) \ go
<1>1. FrontOf(queue, go) = IF stay = {} THEN N ELSE Min(stay) - 1
  BY DEF FrontOf
<1>2. CASE stay = {}
  <2>1. FrontOf(queue, go) = N /\ \A i \in 1 .. N : i \in go
    BY <1>1, <1>2
  <2> QED BY <2>1 DEF GoFirst
<1>3. CASE stay # {}
  <2>1. stay \subseteq Nat
    OBVIOUS
  <2>2. PICK m \in stay : \A i \in stay : m <= i
    <3> HIDE DEF stay
    <3> QED BY <1>3, <2>1, Least
  <2>3. Min(stay) \in stay /\ \A i \in stay : Min(stay) <= i
    <3> HIDE DEF stay
    <3> QED BY <2>2 DEF Min
  <2> DEFINE n == Min(stay)
  <2>4. n \in 1 .. N /\ n \notin go /\ n \in Nat /\ n > 0
    BY <2>3
  <2>5. FrontOf(queue, go) = n - 1
    BY <1>1, <1>3
  <2>6. ASSUME NEW i \in 1 .. n - 1 PROVE i \in go
    <3>1. i \in 1 .. N /\ ~(n <= i)
      <4>1. N \in Nat
        OBVIOUS
      <4> HIDE DEF n, N
      <4> QED BY <2>4, <4>1
    <3>2. i \notin stay
      BY <2>3, <3>1
    <3> QED BY <3>1, <3>2
  <2> HIDE DEF n, stay
  <2>7. n - 1 \in 0 .. N /\ (n - 1) + 1 = n
    BY <2>4
  <2> QED BY <2>4, <2>5, <2>6, <2>7 DEF GoFirst
<1> QED BY <1>2, <1>3

\* The events of the rows skipped, and of the one accepted after them.
LEMMA BreakIs ==
  ASSUME NEW s \in Settings, NEW h \in Streams(s), NEW k \in 1 .. Len(h)
  PROVE  /\ (IF ResetAt(s, h, k) THEN {} ELSE BreakHeld(s, h, k - 1)) \cup EventsAt(s, h, k)
              = EventsOf(s, h, k)
         /\ BreakHeld(s, h, k) = (IF h[k].accept THEN {} ELSE EventsOf(s, h, k))
<1>1. k \in Nat /\ k - 1 \in 0 .. Len(h) /\ k \in 0 .. Len(h) /\ Len(h) \in Nat
  BY DEF Streams
<1>2. /\ EpochAt(s, h, k) \in Nat /\ EpochAt(s, h, k) <= k /\ EpochAt(s, h, k) >= 1
      /\ EpochAt(s, h, k - 1) \in Nat /\ (k - 1 >= 1 => EpochAt(s, h, k - 1) <= k - 1)
      /\ (k - 1 = 0 => EpochAt(s, h, k - 1) = 1)
  BY <1>1, EpochIs
<1>3. LastAt(s, h, k - 1) \in 0 .. k - 1 /\ LastAt(s, h, k) \in 0 .. k
  BY <1>1, LastIs
<1>4. /\ EpochAt(s, h, k) = (IF ResetAt(s, h, k) THEN k ELSE EpochAt(s, h, k - 1))
      /\ LastAt(s, h, k) = (IF h[k].accept THEN k ELSE LastAt(s, h, k - 1))
  BY MarkNext
<1> DEFINE f == BreakFrom(s, h, k)
           g == BreakFrom(s, h, k - 1)
           Ev(i) == EventsAt(s, h, i)
<1>5. f \in Nat /\ f <= k
  BY <1>1, <1>2, <1>3 DEF BreakFrom, LaterOf
<1>6. EventsOf(s, h, k) = UNION {EventsAt(s, h, i) : i \in f .. k}
  BY DEF EventsOf
<1> DEFINE Both == (IF ResetAt(s, h, k) THEN {} ELSE BreakHeld(s, h, k - 1)) \cup EventsAt(s, h, k)
<1>7. ASSUME ResetAt(s, h, k) \/ LastAt(s, h, k - 1) = k - 1 PROVE Both = EventsOf(s, h, k)
  <2>1. f = k
    BY <1>1, <1>2, <1>3, <1>4, <1>7 DEF BreakFrom, LaterOf
  <2>2. f .. k = {k}
    BY <1>1, <2>1
  <2>3. EventsOf(s, h, k) = EventsAt(s, h, k)
    BY <1>6, <2>2
  <2>4. (IF ResetAt(s, h, k) THEN {} ELSE BreakHeld(s, h, k - 1)) = {}
    BY <1>7 DEF BreakHeld
  <2> QED BY <2>3, <2>4
<1>8. ASSUME ~ResetAt(s, h, k), LastAt(s, h, k - 1) # k - 1 PROVE Both = EventsOf(s, h, k)
  <2>1. k - 1 >= 1 /\ k - 1 \in 1 .. Len(h) /\ k - 1 \in Nat
    BY <1>1, <1>3, <1>8
  <2>2. LastAt(s, h, k - 1) = (IF h[k - 1].accept THEN k - 1 ELSE LastAt(s, h, (k - 1) - 1))
    BY <2>1, MarkNext
  <2>3. LastAt(s, h, k - 1) = LastAt(s, h, (k - 1) - 1)
    BY <1>8, <2>2
  <2>4. f = g
    BY <1>4, <1>8, <2>3 DEF BreakFrom
  <2>5. f <= k - 1
    BY <1>1, <1>2, <1>3, <1>4, <1>8, <2>1 DEF BreakFrom, LaterOf
  <2>6. f .. k = (f .. k - 1) \cup {k}
    <3> HIDE DEF f
    <3> QED BY <1>1, <1>5, <2>5
  <2>7. BreakHeld(s, h, k - 1) = UNION {EventsAt(s, h, i) : i \in f .. k - 1}
    BY <1>8, <2>4 DEF BreakHeld, EventsOf
  <2> HIDE DEF f
  <2> QED BY <1>6, <1>8, <2>6, <2>7
<1>9. BreakHeld(s, h, k) = (IF h[k].accept THEN {} ELSE EventsOf(s, h, k))
  <2>1. CASE h[k].accept
    BY <1>4, <2>1 DEF BreakHeld
  <2>2. CASE ~h[k].accept
    <3>1. LastAt(s, h, k) # k
      BY <1>1, <1>3, <1>4, <2>2
    <3> QED BY <2>2, <3>1 DEF BreakHeld
  <2> QED BY <2>1, <2>2
<1> QED BY <1>7, <1>8, <1>9

\* What is left of a queue after its first i rows, and what came of them.
LEMMA BackTail ==
  ASSUME NEW S, NEW q \in Seq(S), NEW i \in 1 .. Len(q)
  PROVE  /\ Tail(SubSeq(q, i, Len(q))) = SubSeq(q, i + 1, Len(q))
         /\ SubSeq(q, i, Len(q)) # <<>> /\ SubSeq(q, i, Len(q))[1] = q[i]
<1> DEFINE n == Len(q)
           b == SubSeq(q, i, n)
           t == SubSeq(q, i + 1, n)
<1>1. n \in Nat /\ i \in 0 .. n /\ i - 1 \in 0 .. n /\ (i - 1) + 1 = i
  OBVIOUS
<1>2. b \in Seq(S) /\ Len(b) = n - (i - 1) /\ \A j \in 1 .. n - (i - 1) : b[j] = q[(i - 1) + j]
  BY <1>1, BackOf
<1>3. t \in Seq(S) /\ Len(t) = n - i /\ \A j \in 1 .. n - i : t[j] = q[i + j]
  BY <1>1, BackOf
<1> HIDE DEF n, b, t
<1>4. b # <<>> /\ Len(b) = (n - i) + 1
  <2>1. Len(b) = (n - i) + 1 /\ (n - i) + 1 # 0
    BY <1>1, <1>2
  <2> QED BY <1>2, <2>1, EmptySeq
<1>5. Tail(b) \in Seq(S) /\ Len(Tail(b)) = n - i /\ \A j \in 1 .. n - i : Tail(b)[j] = b[j + 1]
  <2>1. /\ Tail(b) \in Seq(S) /\ Len(Tail(b)) = Len(b) - 1
        /\ \A j \in 1 .. Len(Tail(b)) : Tail(b)[j] = b[j + 1]
    BY <1>2, <1>4, HeadTailProperties
  <2>2. Len(b) - 1 = n - i
    BY <1>1, <1>4
  <2> QED BY <2>1, <2>2
<1>6. \A j \in 1 .. n - i : Tail(b)[j] = t[j]
  <2> SUFFICES ASSUME NEW j \in 1 .. n - i PROVE Tail(b)[j] = t[j]
    OBVIOUS
  <2>1. j + 1 \in 1 .. n - (i - 1) /\ (i - 1) + (j + 1) = i + j
    BY <1>1
  <2>2. b[j + 1] = q[(i - 1) + (j + 1)]
    BY <1>2, <2>1
  <2> QED BY <1>3, <1>5, <2>1, <2>2
<1>7. Tail(b) = t
  BY <1>3, <1>5, <1>6, SeqEqual
<1>8. b[1] = q[i]
  <2>1. 1 \in 1 .. n - (i - 1) /\ (i - 1) + 1 = i
    BY <1>1
  <2> QED BY <1>2, <2>1
<1> QED BY <1>4, <1>7, <1>8 DEF b, t, n

LEMMA FrontGrows ==
  ASSUME NEW S, NEW l \in Seq(S), NEW q \in Seq(S), NEW i \in 1 .. Len(q)
  PROVE  Append(l \o SubSeq(q, 1, i - 1), q[i]) = l \o SubSeq(q, 1, i)
<1> DEFINE n == Len(q)
           m == Len(l)
           f == SubSeq(q, 1, i - 1)
           g == SubSeq(q, 1, i)
           u == l \o f
           v == l \o g
<1>1. n \in Nat /\ m \in Nat /\ i \in 0 .. n /\ i - 1 \in 0 .. n
  OBVIOUS
<1>2. f \in Seq(S) /\ Len(f) = i - 1 /\ \A j \in 1 .. i - 1 : f[j] = q[j]
  BY <1>1, FrontSeqOf
<1>3. g \in Seq(S) /\ Len(g) = i /\ \A j \in 1 .. i : g[j] = q[j]
  BY <1>1, FrontSeqOf
<1>4. q[i] \in S
  BY ElementOfSeq
<1> HIDE DEF n, m, f, g
<1>5. u \in Seq(S) /\ Len(u) = m + (i - 1)
      /\ \A j \in 1 .. m + (i - 1) : u[j] = IF j <= m THEN l[j] ELSE f[j - m]
  BY <1>2, ConcatProperties DEF m
<1>6. v \in Seq(S) /\ Len(v) = m + i
      /\ \A j \in 1 .. m + i : v[j] = IF j <= m THEN l[j] ELSE g[j - m]
  BY <1>3, ConcatProperties DEF m
<1> HIDE DEF u, v
<1>7. /\ Append(u, q[i]) \in Seq(S) /\ Len(Append(u, q[i])) = Len(u) + 1
      /\ (\A j \in 1 .. Len(u) : Append(u, q[i])[j] = u[j]) /\ Append(u, q[i])[Len(u) + 1] = q[i]
  BY <1>4, <1>5, AppendProperties
<1> DEFINE a == Append(u, q[i])
<1>8. Len(a) = m + i
  BY <1>1, <1>5, <1>7
<1>9. \A j \in 1 .. m + i : a[j] = v[j]
  <2> SUFFICES ASSUME NEW j \in 1 .. m + i PROVE a[j] = v[j]
    OBVIOUS
  <2> HIDE DEF a
  <2>1. CASE j = m + i
    <3>1. ~(j <= m) /\ j - m = i /\ i \in 1 .. i /\ (m + (i - 1)) + 1 = m + i
      BY <1>1, <2>1
    <3>2. a[j] = q[i]
      BY <1>5, <1>7, <2>1, <3>1 DEF a
    <3> QED BY <1>3, <1>6, <3>1, <3>2
  <2>2. CASE j # m + i
    <3>1. j \in 1 .. m + (i - 1)
      BY <1>1, <2>2
    <3>2. a[j] = u[j]
      BY <1>5, <1>7, <3>1 DEF a
    <3>3. CASE j <= m
      BY <1>5, <1>6, <3>1, <3>2, <3>3
    <3>4. CASE ~(j <= m)
      <4>1. j - m \in 1 .. i - 1 /\ j - m \in 1 .. i
        BY <1>1, <3>1, <3>4
      <4>2. a[j] = f[j - m] /\ v[j] = g[j - m]
        BY <1>5, <1>6, <3>1, <3>2, <3>4
      <4> QED BY <1>2, <1>3, <4>1, <4>2
    <3> QED BY <3>3, <3>4
  <2> QED BY <2>1, <2>2
<1>10. a = v
  <2> HIDE DEF a
  <2>1. a \in Seq(S)
    BY <1>7 DEF a
  <2> QED BY <1>6, <1>8, <1>9, <2>1, SeqEqual
<1> QED BY <1>10 DEF a, u, v, f, g

\* What a row is learned with, after row `last` of its epoch or none.
StepFrom(s, h, last, k) ==
  IF ~Lab(s) THEN DAt(s, h, k)
  ELSE IF last = 0 THEN 0 ELSE Lesser(h[k].label - h[last].label, s.clk.cap)
EventsFrom(s, h, last, k) ==
  IF ~Lab(s) THEN EventsOf(s, h, k)
  ELSE IF last # 0 /\ h[k].label - h[last].label > s.clk.cap THEN {"gap"} ELSE {}
PrevOf(x, i) == IF i = 0 THEN x.last ELSE x.queue[i]
Teaching(s, h, x, n, qs) ==
  /\ IsSeq(qs) /\ Len(qs) \in 0 .. Len(x.queue)
  /\ \A i \in 1 .. Len(qs) :
       /\ DueBy(s, h, x.queue[i], n)
       /\ qs[i].kind = "learn" /\ qs[i].id = x.queue[i] /\ qs[i].at = n /\ qs[i].reset = FALSE
       /\ qs[i].d = StepFrom(s, h, PrevOf(x, i - 1), x.queue[i])
       /\ qs[i].fresh = FreshOf(s, h, x.queue[i])
       /\ qs[i].events = EventsFrom(s, h, PrevOf(x, i - 1), x.queue[i])
LeftAfter(x, i) ==
  [queue |-> SubSeq(x.queue, i + 1, Len(x.queue)), learnt |-> x.learnt \o SubSeq(x.queue, 1, i),
   row |-> x.row, now |-> IF i = 0 THEN x.now ELSE x.row + 1, last |-> PrevOf(x, i),
   dropped |-> x.dropped]

\* The first rows held, learned one after the other.
LEMMA LearnsAll ==
  ASSUME NEW s \in Settings, NEW h \in Streams(s), NEW x, Ledger(h, x),
         NEW k, k = x.row + 1, k \in 1 .. Len(h), h[k].accept, ~ResetAt(s, h, k),
         NEW qs, Teaching(s, h, x, k, qs)
  PROVE  Path(s, h, x, qs, LeftAfter(x, Len(qs)))
<1> DEFINE q == x.queue
           n == Len(qs)
           L == [i \in 0 .. n |-> LeftAfter(x, i)]
<1>1. /\ q \in Seq(1 .. x.row) /\ x.learnt \in Seq(1 .. x.row) /\ Len(q) \in Nat
      /\ IsSeq(qs) /\ n \in 0 .. Len(q) /\ n \in Nat
  BY DEF Ledger, Teaching
<1>2. LeftAfter(x, 0) = x
  <2>1. SubSeq(q, 0 + 1, Len(q)) = q
    <3>1. 0 \in 0 .. Len(q)
      BY <1>1
    <3>2. /\ SubSeq(q, 0 + 1, Len(q)) \in Seq(1 .. x.row) /\ Len(SubSeq(q, 0 + 1, Len(q))) = Len(q) - 0
          /\ \A i \in 1 .. Len(q) - 0 : SubSeq(q, 0 + 1, Len(q))[i] = q[0 + i]
      BY <1>1, <3>1, BackOf
    <3> DEFINE t == SubSeq(q, 0 + 1, Len(q))
    <3> HIDE DEF t, q
    <3>3. Len(t) = Len(q) /\ \A i \in 1 .. Len(q) : t[i] = q[i]
      BY <1>1, <3>2 DEF t
    <3> QED BY <1>1, <3>2, <3>3, SeqEqual DEF t
  <2>2. x.learnt \o SubSeq(q, 1, 0) = x.learnt
    <3>1. SubSeq(q, 1, 0) = <<>>
      BY <1>1, EmptySeq
    <3> QED BY <1>1, <3>1
  <2>3. x = [queue |-> x.queue, learnt |-> x.learnt, row |-> x.row, now |-> x.now,
             last |-> x.last, dropped |-> x.dropped]
    BY DEF Ledger
  <2> QED BY <2>1, <2>2, <2>3 DEF LeftAfter, PrevOf
<1>3. L[0] = x /\ L[n] = LeftAfter(x, n)
  BY <1>1, <1>2
<1>4. ASSUME NEW i \in 1 .. n
      PROVE  Booked(s, h, LeftAfter(x, i - 1), qs[i], LeftAfter(x, i))
  <2> DEFINE z == LeftAfter(x, i - 1)
             p == qs[i]
  <2>1. i \in 1 .. Len(q) /\ i - 1 \in 0 .. Len(q) /\ (i - 1) + 1 = i /\ i # 0
    BY <1>1
  <2>2. Tail(SubSeq(q, i, Len(q))) = SubSeq(q, i + 1, Len(q))
        /\ SubSeq(q, i, Len(q)) # <<>> /\ SubSeq(q, i, Len(q))[1] = q[i]
    BY <1>1, <2>1, BackTail
  <2>3. Append(x.learnt \o SubSeq(q, 1, i - 1), q[i]) = x.learnt \o SubSeq(q, 1, i)
    BY <1>1, <2>1, FrontGrows
  <2>4. /\ z.queue = SubSeq(q, i, Len(q)) /\ z.learnt = x.learnt \o SubSeq(q, 1, i - 1)
        /\ z.row = x.row /\ z.last = PrevOf(x, i - 1) /\ z.dropped = x.dropped
        /\ z = [queue |-> z.queue, learnt |-> z.learnt, row |-> z.row, now |-> z.now,
                last |-> z.last, dropped |-> z.dropped]
    BY <2>1 DEF LeftAfter
  <2>5. /\ DueBy(s, h, q[i], k)
        /\ p.kind = "learn" /\ p.id = q[i] /\ p.at = k /\ p.reset = FALSE
        /\ p.d = StepFrom(s, h, PrevOf(x, i - 1), q[i])
        /\ p.fresh = FreshOf(s, h, q[i])
        /\ p.events = EventsFrom(s, h, PrevOf(x, i - 1), q[i])
    BY DEF Teaching
  <2>6. LeftAfter(x, i) =
          [queue |-> SubSeq(q, i + 1, Len(q)), learnt |-> x.learnt \o SubSeq(q, 1, i),
           row |-> x.row, now |-> x.row + 1, last |-> q[i], dropped |-> x.dropped]
    BY <2>1 DEF LeftAfter, PrevOf
  <2> HIDE DEF z, p
  <2>7. z.queue[1] = q[i] /\ z.queue # <<>> /\ z.row + 1 = k
    BY <2>2, <2>4
  <2>8. Learned(z, k) = LeftAfter(x, i)
    <3>1. Learned(z, k) = [queue |-> Tail(z.queue), learnt |-> Append(z.learnt, z.queue[1]),
                           row |-> z.row, now |-> k, last |-> z.queue[1], dropped |-> z.dropped]
      <4>1. z = [queue |-> z.queue, learnt |-> z.learnt, row |-> z.row, now |-> z.now,
                 last |-> z.last, dropped |-> z.dropped]
        BY <2>4
      <4>2. Learned(z, k) = [z EXCEPT !.queue = Tail(z.queue), !.learnt = Append(z.learnt, z.queue[1]),
                                      !.now = k, !.last = z.queue[1]]
        BY <4>1 DEF Learned
      <4> DEFINE t == Tail(z.queue)
                 l == Append(z.learnt, z.queue[1])
                 u == z.queue[1]
      <4> HIDE DEF t, l, u
      <4>4. ASSUME NEW y, y = [z EXCEPT !.queue = t, !.learnt = l, !.now = k, !.last = u]
            PROVE  y = [queue |-> t, learnt |-> l, row |-> z.row, now |-> k, last |-> u,
                        dropped |-> z.dropped]
        BY <4>1, <4>4
      <4> QED BY <4>2, <4>4 DEF t, l, u
    <3> QED BY <2>2, <2>3, <2>4, <2>6, <2>7, <3>1
  <2>9. p.d = LearnStep(s, h, z) /\ p.events = LearnEvents(s, h, z)
    BY <2>4, <2>5, <2>7 DEF LearnStep, LearnEvents, LabelStep, StepFrom, EventsFrom
  <2>10. Learns(s, h, z, p, LeftAfter(x, i))
    BY <2>5, <2>7, <2>8, <2>9 DEF Learns
  <2> QED BY <2>10 DEF Booked, z, p
<1>5. ASSUME NEW i \in 1 .. n PROVE Booked(s, h, L[i - 1], qs[i], L[i])
  <2>1. L[i - 1] = LeftAfter(x, i - 1) /\ L[i] = LeftAfter(x, i)
    BY <1>1
  <2> QED BY <1>4, <2>1
<1> HIDE DEF L
<1> QED BY <1>1, <1>3, <1>5 DEF Path

\* The ledger once the first n rows held were learned.
ReleasedTo(s, h, k, w, n, v) ==
  /\ v.queue = SubSeq(w.queue, n + 1, Len(w.queue))
  /\ v.last = PrevOf(w, n) /\ v.dropped = w.dropped
LEMMA ReleasesTo ==
  ASSUME NEW s \in Settings, NEW h \in Streams(s), Legal(s, h), NEW x, Sound(s, h, x),
         NEW k, k = x.row + 1, k \in 1 .. Len(h), h[k].accept,
         NEW x0, NEW out, Path(s, h, x0, out, x),
         NEW qs, IsSeq(qs), ResetAt(s, h, k) => qs = <<>>,
         ~ResetAt(s, h, k) => Teaching(s, h, x, k, qs)
  PROVE  \E y : /\ Path(s, h, x0, out \o qs, y) /\ y.row = k - 1
                /\ ReleasedTo(s, h, k, Emptied(s, h, x, k), Len(qs), Emptied(s, h, y, k))
<1> DEFINE w == Emptied(s, h, x, k)
<1>1. Ledger(h, x) /\ x.row \in Nat /\ x.row = k - 1
  <2>1. Ledger(h, x)
    BY DEF Sound
  <2>2. x.row \in Nat
    BY <2>1 DEF Ledger
  <2> QED BY <2>1, <2>2
<1>2. EmptiedTo(s, h, x, k, w)
  BY <1>1, EmptiedFields
<1>3. CASE ResetAt(s, h, k)
  <2>1. qs = <<>> /\ Len(qs) = 0
    BY <1>3
  <2>2. IsSeq(out)
    BY DEF Path
  <2>3. out \o qs = out
    <3>1. out \in Seq(Parts(out))
      BY <2>2, SeqOfParts
    <3> QED BY <2>1, <3>1
  <2>4. w.queue = <<>>
    BY <1>2, <1>3 DEF EmptiedTo
  <2>5. SubSeq(w.queue, 0 + 1, Len(w.queue)) = w.queue
    <3>1. <<>> \in Seq({}) /\ Len(<<>>) = 0 /\ 0 \in 0 .. 0
      OBVIOUS
    <3>2. SubSeq(<<>>, 0 + 1, Len(<<>>)) \in Seq({}) /\ Len(SubSeq(<<>>, 0 + 1, Len(<<>>))) = 0 - 0
      BY <3>1, BackOf
    <3>3. SubSeq(<<>>, 0 + 1, Len(<<>>)) = <<>>
      BY <3>2, EmptySeq
    <3> QED BY <2>4, <3>3
  <2>6. PrevOf(w, 0) = w.last
    BY DEF PrevOf
  <2> HIDE DEF w
  <2>7. ReleasedTo(s, h, k, w, Len(qs), w)
    BY <2>1, <2>5, <2>6 DEF ReleasedTo
  <2> QED BY <1>1, <2>3, <2>7 DEF w
<1>4. CASE ~ResetAt(s, h, k)
  <2> DEFINE y == LeftAfter(x, Len(qs))
  <2>1. Path(s, h, x, qs, y)
    BY <1>1, <1>4, LearnsAll
  <2>2. Path(s, h, x0, out \o qs, y)
    <3> HIDE DEF y
    <3> QED BY <2>1, PathJoin
  <2>3. w = x
    BY <1>4 DEF Emptied
  <2>4. Emptied(s, h, y, k) = y
    BY <1>4 DEF Emptied
  <2>5. y.row = k - 1 /\ ReleasedTo(s, h, k, x, Len(qs), y)
    BY <1>1 DEF LeftAfter, ReleasedTo
  <2> HIDE DEF y
  <2> QED BY <2>2, <2>3, <2>4, <2>5
<1> QED BY <1>3, <1>4

\* What is left of the buffer.
LEMMA PendingBack ==
  ASSUME NEW s, NEW h, NEW k, NEW S, NEW q \in Seq(S), NEW n \in 0 .. Len(q)
  PROVE  SubSeq(Pending(s, h, k, q), n + 1, Len(Pending(s, h, k, q)))
           = Pending(s, h, k, SubSeq(q, n + 1, Len(q)))
<1> DEFINE N == Len(q)
           t == SubSeq(q, n + 1, N)
           P == Pending(s, h, k, q)
           R == Pending(s, h, k, t)
           T == Parts(P)
<1>1. N \in Nat
  OBVIOUS
<1>2. t \in Seq(S) /\ Len(t) = N - n /\ \A i \in 1 .. N - n : t[i] = q[n + i]
  BY BackOf
<1>3. Len(P) = N /\ (\A i \in 1 .. N : P[i] = HeldOf(s, h, k, q[i])) /\ IsSeq(P)
  BY PendingIs
<1> HIDE DEF t
<1>4. Len(R) = N - n /\ (\A i \in 1 .. N - n : R[i] = HeldOf(s, h, k, t[i])) /\ IsSeq(R)
  <2>1. t \in Seq(S) /\ Len(t) = N - n
    BY <1>2
  <2>2. /\ Len(Pending(s, h, k, t)) = Len(t)
        /\ \A i \in 1 .. Len(t) : Pending(s, h, k, t)[i] = HeldOf(s, h, k, t[i])
        /\ IsSeq(Pending(s, h, k, t))
    BY <2>1, PendingIs
  <2> QED BY <2>1, <2>2
<1> DEFINE U == T \cup Parts(R)
<1> HIDE DEF P, R, T
<1>5. P \in Seq(U) /\ R \in Seq(U)
  <2>1. Parts(P) \subseteq U /\ Parts(R) \subseteq U
    BY DEF T
  <2> HIDE DEF U
  <2> QED BY <1>3, <1>4, <2>1, SeqOfParts
<1> HIDE DEF U
<1> DEFINE b == SubSeq(P, n + 1, N)
<1>6. b \in Seq(U) /\ Len(b) = N - n /\ \A i \in 1 .. N - n : b[i] = P[n + i]
  <2>1. n \in 0 .. Len(P)
    BY <1>3
  <2> QED BY <1>3, <1>5, <2>1, BackOf
<1>7. \A i \in 1 .. N - n : b[i] = R[i]
  <2> SUFFICES ASSUME NEW i \in 1 .. N - n PROVE b[i] = R[i]
    OBVIOUS
  <2>1. n + i \in 1 .. N
    BY <1>1
  <2>2. b[i] = HeldOf(s, h, k, q[n + i])
    BY <1>3, <1>6, <2>1
  <2>3. R[i] = HeldOf(s, h, k, q[n + i])
    BY <1>2, <1>4
  <2> QED BY <2>2, <2>3
<1>8. b = R
  <2> HIDE DEF b
  <2> QED BY <1>4, <1>5, <1>6, <1>7, SeqEqual
<1>9. SubSeq(P, n + 1, Len(P)) = R
  BY <1>3, <1>8
<1> QED BY <1>9 DEF P, R, t

\* An embargo or a formula lets a row go when it is due.
LEMMA DueIs ==
  ASSUME setting \in Settings, NEW h \in Streams(setting), ~Lab(setting),
         NEW k \in 1 .. Len(h), h[k].accept,
         NEW j \in EpochAt(setting, h, k) .. k - 1, h[j].accept,
         NEW p, p = PlanOf(setting, h, k)
  PROVE  Due(HeldOf(setting, h, k, j), p) <=> DueBy(setting, h, j, k)
<1> DEFINE s == setting
<1>1. k \in Nat /\ k \in 0 .. Len(h) /\ Len(h) \in Nat
  BY DEF Streams
<1>2. EpochAt(s, h, k) \in Nat /\ EpochAt(s, h, k) >= 1
  BY <1>1, EpochIs
<1>3. EpochAt(s, h, j) = EpochAt(s, h, k)
  <2>1. j \in EpochAt(s, h, k) .. k
    BY <1>1, <1>2
  <2> QED BY <1>1, <2>1, EpochIs
<1>4. j \in 0 .. Len(h) /\ EpochAt(s, h, k) \in 0 .. Len(h)
  BY <1>1, <1>2
<1>5. Time(s, h, k) \in Nat /\ Time(s, h, j) \in Nat /\ Time(s, h, EpochAt(s, h, k)) \in Nat
  BY <1>1, <1>4, MarkIs
<1>6. p.place = ElapsedBy(s, h, k)
  BY DEF PlanOf
<1>7. /\ ElapsedBy(s, h, k) = Time(s, h, k) - Time(s, h, EpochAt(s, h, k))
      /\ ElapsedBy(s, h, j) = Time(s, h, j) - Time(s, h, EpochAt(s, h, k))
  BY <1>3 DEF ElapsedBy
<1> DEFINE r == HeldOf(s, h, k, j)
<1>8. r.arrived = ElapsedBy(s, h, j) /\ r.resolved = (~Frm(s) \/ Rank(s, h, j, k) <= Closed(s, h, k))
  BY DEF HeldOf
<1> HIDE DEF r
<1>9. p.place - r.arrived = Time(s, h, k) - Time(s, h, j)
  <2>1. \A u, v, e \in Nat : (u - e) - (v - e) = u - v
    OBVIOUS
  <2> QED BY <1>5, <1>6, <1>7, <1>8, <2>1
<1>10. Due(r, p) <=> r.resolved /\ (Emb(s) => p.place - r.arrived >= s.by)
  BY DEF Due, Passed, Embargoed, Emb
<1>11. Due(r, p) <=> DueBy(s, h, j, k)
  BY <1>8, <1>9, <1>10 DEF DueBy
<1> QED BY <1>11 DEF r

\* The rows that go have gone, and the first one left does not.
ReadyAt(s, h, k, v, r) ==
  /\ r.pending = Pending(s, h, k, v.queue) /\ LabelClock(s, h, v, r.learned)
  /\ r.dropped = v.dropped /\ (v.queue # <<>> => ~DueBy(s, h, v.queue[1], k))
Ready(s, h, k, x0, b, r) ==
  /\ IsBuffer(r) /\ r.missing = b.missing
  /\ r.heldBreak = (IF Lab(s) THEN {} ELSE b.heldBreak)
  /\ \E y : /\ Path(s, h, x0, r.out, y) /\ y.row = k - 1
            /\ ReadyAt(s, h, k, Emptied(s, h, y, k), r)

LEMMA ReplaysSeq ==
  ASSUME NEW n \in Nat, NEW g
  PROVE  IsSeq([i \in 1 .. n |-> g[i]]) /\ Len([i \in 1 .. n |-> g[i]]) = n
<1> DEFINE P == [i \in 1 .. n |-> g[i]]
           T == {g[i] : i \in 1 .. n}
<1>1. P \in [1 .. n -> T]
  OBVIOUS
<1> HIDE DEF T
<1>2. P \in Seq(T) /\ DOMAIN P = 1 .. n
  BY <1>1, SeqDef
<1> HIDE DEF P
<1>3. Len(P) \in Nat /\ 1 .. Len(P) = 1 .. n
  BY <1>2, LenProperties
<1>4. Len(P) = n
  BY <1>3
<1>5. IsSeq(P)
  BY <1>2, SeqIs
<1> QED BY <1>4, <1>5 DEF P

LEMMA ReleaseReady ==
  ASSUME setting \in Settings, NEW h \in Streams(setting), Legal(setting, h), ~Lab(setting),
         NEW x, Sound(setting, h, x), NEW k, k = x.row + 1, k \in 1 .. Len(h), h[k].accept,
         NEW x0, NEW a, Path(setting, h, x0, a.out, x),
         NEW b, Entering(setting, h, k, Emptied(setting, h, x, k), a, b),
         NEW p, p = PlanOf(setting, h, k)
  PROVE  Ready(setting, h, k, x0, b, Release(b, p))
<1> DEFINE s == setting
           w == Emptied(s, h, x, k)
           q == w.queue
           N == Len(w.queue)
           go == {i \in DOMAIN b.pending : Due(b.pending[i], p)}
           n == IF p.reset THEN 0 ELSE FrontOf(b.pending, go)
           qs == [i \in 1 .. n |-> Replay(b.pending[i], p)]
           r == Release(b, p)
<1>1. p.reset = ResetAt(s, h, k) /\ p.id = k /\ s \in Settings
  BY DEF PlanOf
<1>2. Ledger(h, x)
  BY DEF Sound
<1>3. EmptiedTo(s, h, x, k, w) /\ Ledger(h, w)
  BY <1>2, EmptiedFields
<1>4. /\ Books(s, h, w, EpochAt(s, h, k), k - 1, k)
      /\ EpochAt(s, h, k) \in 1 .. k
  BY <1>1, EmptiedIs
<1>5. q \in Seq(1 .. k - 1) /\ N \in Nat /\ x.row = k - 1
  <2>1. x.row \in Nat
    BY <1>2 DEF Ledger
  <2>2. x.row = k - 1
    BY <2>1
  <2>3. q \in Seq(1 .. x.row)
    BY <1>2, <1>3 DEF Ledger, EmptiedTo
  <2> QED BY <2>2, <2>3
<1>6. /\ IsBuffer(b) /\ b.pending = Pending(s, h, k, q) /\ LabelClock(s, h, w, b.learned)
      /\ b.dropped = w.dropped /\ b.out = a.out
  BY DEF Entering
<1> HIDE DEF w, s
<1>7. /\ Len(b.pending) = N /\ DOMAIN b.pending = 1 .. N
      /\ \A i \in 1 .. N : b.pending[i] = HeldOf(s, h, k, q[i])
  <2>1. /\ Len(Pending(s, h, k, q)) = Len(q) /\ DOMAIN Pending(s, h, k, q) = 1 .. Len(q)
        /\ \A i \in 1 .. Len(q) : Pending(s, h, k, q)[i] = HeldOf(s, h, k, q[i])
    BY <1>5, PendingIs
  <2> QED BY <1>6, <2>1
<1>8. GoFirst(b.pending, go, FrontOf(b.pending, go))
  <2> HIDE DEF go
  <2> QED BY <1>5, <1>7, FrontIs
<1>9. n \in 0 .. N
  BY <1>5, <1>7, <1>8 DEF GoFirst
<1>10. ASSUME NEW i \in 1 .. N
       PROVE  /\ q[i] \in EpochAt(s, h, k) .. k - 1 /\ h[q[i]].accept
              /\ i \in go <=> DueBy(s, h, q[i], k)
  <2>1. q[i] \in 1 .. k - 1
    BY <1>5, ElementOfSeq
  <2>2. InQueue(s, h, w, EpochAt(s, h, k))
    BY <1>4 DEF Books, w, s
  <2>3. q[i] >= EpochAt(s, h, k) /\ HasLesson(s, h[q[i]])
    BY <2>2 DEF InQueue
  <2>4. q[i] \in EpochAt(s, h, k) .. k - 1 /\ h[q[i]].accept
    BY <1>4, <2>1, <2>3 DEF HasLesson
  <2>5. Due(HeldOf(s, h, k, q[i]), p) <=> DueBy(s, h, q[i], k)
    BY <2>4, DueIs DEF s
  <2> QED BY <1>7, <2>4, <2>5
<1>11. qs = [i \in 1 .. n |-> qs[i]] /\ IsSeq(qs) /\ Len(qs) = n
  <2>1. qs = [i \in 1 .. n |-> qs[i]]
    OBVIOUS
  <2>2. n \in Nat
    BY <1>5, <1>9
  <2> HIDE DEF qs, n
  <2> QED BY <2>1, <2>2, ReplaysSeq
<1>12. ASSUME ~ResetAt(s, h, k) PROVE Teaching(s, h, x, k, qs)
  <2>1. w = x /\ x.queue = q
    BY <1>12 DEF Emptied, w, s
  <2>2. n = FrontOf(b.pending, go)
    BY <1>1, <1>12 DEF s
  <2>3. ASSUME NEW i \in 1 .. n
        PROVE  /\ DueBy(s, h, q[i], k)
               /\ qs[i].kind = "learn" /\ qs[i].id = q[i] /\ qs[i].at = k /\ qs[i].reset = FALSE
               /\ qs[i].d = StepFrom(s, h, PrevOf(x, i - 1), q[i])
               /\ qs[i].fresh = FreshOf(s, h, q[i])
               /\ qs[i].events = EventsFrom(s, h, PrevOf(x, i - 1), q[i])
    <3>1. i \in 1 .. N
      BY <1>5, <1>9
    <3>2. i \in go
      <4> HIDE DEF go, n
      <4> QED BY <1>8, <2>2 DEF GoFirst
    <3>3. qs[i] = Replay(HeldOf(s, h, k, q[i]), p)
      <4>1. qs[i] = Replay(b.pending[i], p)
        OBVIOUS
      <4> QED BY <1>7, <3>1, <4>1
    <3>4. ~Lab(s)
      BY DEF s
    <3>5. /\ StepFrom(s, h, PrevOf(x, i - 1), q[i]) = DAt(s, h, q[i])
          /\ EventsFrom(s, h, PrevOf(x, i - 1), q[i]) = EventsOf(s, h, q[i])
      BY <3>4 DEF StepFrom, EventsFrom
    <3> HIDE DEF qs, n
    <3>6. /\ qs[i].kind = "learn" /\ qs[i].id = q[i] /\ qs[i].at = k /\ qs[i].reset = FALSE
          /\ qs[i].d = DAt(s, h, q[i]) /\ qs[i].fresh = FreshOf(s, h, q[i])
          /\ qs[i].events = EventsOf(s, h, q[i])
      BY <1>1, <3>3, <3>4 DEF Replay, HeldOf
    <3> QED BY <1>10, <3>1, <3>2, <3>5, <3>6
  <2> HIDE DEF qs, n
  <2> QED BY <1>9, <1>11, <2>1, <2>3 DEF Teaching
<1>13. ASSUME ResetAt(s, h, k) PROVE qs = <<>>
  <2>1. n = 0
    BY <1>1, <1>13 DEF s
  <2> HIDE DEF qs, n
  <2>2. qs \in Seq(Parts(qs)) /\ Len(qs) = 0
    BY <1>11, <2>1, SeqOfParts
  <2> QED BY <2>2, EmptySeq
<1>14. r = [b EXCEPT !.pending = SubSeq(b.pending, n + 1, Len(b.pending)), !.out = b.out \o qs]
  BY DEF Release
<1> HIDE DEF n, qs, r, go
<1>15. r = [pending |-> SubSeq(b.pending, n + 1, Len(b.pending)), heldBreak |-> b.heldBreak,
            learned |-> b.learned, missing |-> b.missing, dropped |-> b.dropped,
            out |-> b.out \o qs]
  <2> DEFINE t == SubSeq(b.pending, n + 1, Len(b.pending))
             o == b.out \o qs
  <2>1. b = [pending |-> b.pending, heldBreak |-> b.heldBreak, learned |-> b.learned,
             missing |-> b.missing, dropped |-> b.dropped, out |-> b.out]
    BY <1>6 DEF IsBuffer
  <2> HIDE DEF t, o
  <2>2. r = [b EXCEPT !.pending = t, !.out = o]
    BY <1>14 DEF t, o
  <2> QED BY <2>1, <2>2 DEF t, o
<1>16. /\ r.pending = SubSeq(b.pending, n + 1, Len(b.pending)) /\ r.heldBreak = b.heldBreak
       /\ r.learned = b.learned /\ r.missing = b.missing /\ r.dropped = b.dropped
       /\ r.out = b.out \o qs /\ IsBuffer(r)
  <2>1. /\ r.pending = SubSeq(b.pending, n + 1, Len(b.pending)) /\ r.heldBreak = b.heldBreak
        /\ r.learned = b.learned /\ r.missing = b.missing /\ r.dropped = b.dropped
        /\ r.out = b.out \o qs
    BY <1>15
  <2> QED BY <1>15, <2>1 DEF IsBuffer
<1>17. PICK y : /\ Path(s, h, x0, a.out \o qs, y) /\ y.row = k - 1
                /\ ReleasedTo(s, h, k, w, n, Emptied(s, h, y, k))
  <2>1. s \in Settings /\ h \in Streams(s) /\ Legal(s, h) /\ Sound(s, h, x) /\ Path(s, h, x0, a.out, x)
    BY DEF s
  <2>2. \E y : /\ Path(s, h, x0, a.out \o qs, y) /\ y.row = k - 1
               /\ ReleasedTo(s, h, k, Emptied(s, h, x, k), Len(qs), Emptied(s, h, y, k))
    BY <1>11, <1>12, <1>13, <2>1, ReleasesTo
  <2> QED BY <1>11, <2>2 DEF w
<1> DEFINE v == Emptied(s, h, y, k)
<1>18. v.queue = SubSeq(q, n + 1, N) /\ v.dropped = w.dropped
  BY <1>17 DEF ReleasedTo
<1> HIDE DEF v
<1>26. /\ v.queue \in Seq(1 .. k - 1) /\ Len(v.queue) = N - n
       /\ \A i \in 1 .. N - n : v.queue[i] = q[n + i]
  <2>1. /\ SubSeq(q, n + 1, N) \in Seq(1 .. k - 1) /\ Len(SubSeq(q, n + 1, N)) = N - n
        /\ \A i \in 1 .. N - n : SubSeq(q, n + 1, N)[i] = q[n + i]
    <3>1. q \in Seq(1 .. k - 1) /\ n \in 0 .. Len(q)
      BY <1>5, <1>9
    <3> HIDE DEF q
    <3> QED BY ONLY <3>1, BackOf DEF q
  <2> QED BY <1>18, <2>1
<1>19. r.pending = Pending(s, h, k, v.queue)
  <2>1. SubSeq(Pending(s, h, k, q), n + 1, Len(Pending(s, h, k, q)))
          = Pending(s, h, k, SubSeq(q, n + 1, N))
    BY <1>5, <1>9, PendingBack
  <2> QED BY <1>6, <1>16, <1>18, <2>1
<1>20. ASSUME v.queue # <<>> PROVE ~DueBy(s, h, v.queue[1], k)
  <2>1. ~ResetAt(s, h, k)
    <3>1. ASSUME ResetAt(s, h, k) PROVE FALSE
      <4>1. q = <<>> /\ n \in 0 .. 0
        <5>1. q = <<>>
          BY <1>3, <3>1 DEF EmptiedTo, s
        <5> QED BY <1>9, <5>1
      <4>2. n = 0 /\ Len(q) = 0
        BY <4>1
      <4>3. Len(v.queue) = 0
        BY <1>26, <4>2
      <4> QED BY <1>20, <1>26, <4>3, EmptySeq
    <3> QED BY <3>1
  <2>3. N - n # 0
    BY <1>20, <1>26, EmptySeq
  <2>4. n < N /\ n + 1 \in 1 .. N /\ 1 \in 1 .. N - n
    BY <1>5, <1>9, <2>3
  <2>5. n + 1 \notin go
    <3>1. n = FrontOf(b.pending, go)
      BY <1>1, <2>1 DEF n, s
    <3> QED BY <1>7, <1>8, <2>4, <3>1 DEF GoFirst
  <2> QED BY <1>10, <1>26, <2>4, <2>5
<1>21. LabelClock(s, h, v, r.learned)
  <2>1. ~Lab(s)
    BY DEF s
  <2> QED BY <2>1 DEF LabelClock
<1>22. ReadyAt(s, h, k, v, r)
  BY <1>6, <1>16, <1>18, <1>19, <1>20, <1>21 DEF ReadyAt
<1>23. Path(s, h, x0, r.out, y)
  BY <1>6, <1>16, <1>17
<1>24. ~Lab(s)
  BY DEF s
<1>25. Ready(s, h, k, x0, b, r)
  BY <1>16, <1>17, <1>22, <1>23, <1>24 DEF Ready, v
<1> QED BY <1>25 DEF r, s

\* The run of the clock of the labels is what its definition says of it.
LabelNone(c) == [clock |-> c, adv |-> C!NoRow]
ByRun(c, queue, run) ==
  /\ run[0] = LabelNone(c)
  /\ \A n \in 1 .. Len(queue) : run[n] = C!Advance(run[n - 1].clock, LabelRow(queue[n]))

LEMMA ByRuns ==
  ASSUME NEW queue, Len(queue) \in Nat, NEW c
  PROVE  ByRun(c, queue, ByLabels(c, queue))
<1> DEFINE N == Len(queue)
           E(g, m) == [n \in 0 .. m |-> IF n = 0 THEN LabelNone(c) ELSE C!Advance(g[n - 1].clock, LabelRow(queue[n]))]
           T == {m \in 0 .. N : \E g : g = E(g, m)}
           run == CHOOSE g : g = E(g, N)
<1>1. 0 \in T
  <2> DEFINE g == [n \in 0 .. 0 |-> LabelNone(c)]
  <2>1. g = E(g, 0)
    OBVIOUS
  <2>2. 0 \in 0 .. N
    OBVIOUS
  <2> HIDE DEF g, E
  <2> QED BY <2>1, <2>2
<1>2. ASSUME NEW m \in 1 .. N, m - 1 \in T PROVE m \in T
  <2>1. PICK g : g = E(g, m - 1)
    BY <1>2
  <2> DEFINE next == C!Advance(g[m - 1].clock, LabelRow(queue[m]))
             q == [n \in 0 .. m |-> IF n = m THEN next ELSE g[n]]
  <2>2. ASSUME NEW n \in 0 .. m
        PROVE  q[n] = IF n = 0 THEN LabelNone(c) ELSE C!Advance(q[n - 1].clock, LabelRow(queue[n]))
    <3> HIDE DEF next
    <3>1. CASE n = m
      <4>1. q[n] = next /\ n # 0 /\ n - 1 \in 0 .. m /\ n - 1 # m
        BY <3>1
      <4>2. q[n - 1] = g[n - 1]
        BY <4>1
      <4> QED BY <3>1, <4>1, <4>2 DEF next
    <3>2. CASE n # m
      <4>1. q[n] = g[n] /\ n \in 0 .. m - 1
        BY <3>2
      <4>2. n # 0 => n - 1 \in 0 .. m /\ n - 1 # m
        BY <3>2
      <4>3. n # 0 => q[n - 1] = g[n - 1]
        BY <4>2
      <4>4. g[n] = E(g, m - 1)[n]
        BY <2>1
      <4> HIDE DEF q
      <4> QED BY <4>1, <4>3, <4>4
    <3> QED BY <3>1, <3>2
  <2>3. q = E(q, m)
    <3>1. q = [n \in 0 .. m |-> q[n]]
      OBVIOUS
    <3> HIDE DEF q
    <3> QED BY <2>2, <3>1
  <2>4. m \in 0 .. N
    OBVIOUS
  <2> HIDE DEF q, E
  <2> QED BY <2>3, <2>4
<1>3. N \in T
  <2> HIDE DEF T
  <2>1. 0 .. N \subseteq T
    BY <1>1, <1>2, UpTo
  <2> QED BY <2>1
<1>4. run = E(run, N)
  <2> HIDE DEF E
  <2> QED BY <1>3
<1>5. ByLabels(c, queue) = run
  BY DEF ByLabels, LabelNone
<1> HIDE DEF run
<1>6. run[0] = LabelNone(c)
  BY <1>4
<1>7. ASSUME NEW n \in 1 .. N PROVE run[n] = C!Advance(run[n - 1].clock, LabelRow(queue[n]))
  <2>1. n \in 0 .. N /\ n # 0
    OBVIOUS
  <2>2. run[n] = E(run, N)[n]
    BY <1>4
  <2> QED BY <2>1, <2>2
<1> QED BY <1>5, <1>6, <1>7 DEF ByRun


\* The clock of the labels, over the next one.
LEMMA LabelMoves ==
  ASSUME setting \in Settings, NEW h \in Streams(setting), Lab(setting),
         NEW last \in 0 .. Len(h), NEW j \in 1 .. Len(h), last # 0 => h[last].label <= h[j].label,
         NEW c, LabelledBy(h, last, c), NEW r, r.label = h[j].label
  PROVE  /\ LabelledBy(h, j, C!Advance(c, LabelRow(r)).clock)
         /\ C!Advance(c, LabelRow(r)).adv.dClock = StepFrom(setting, h, last, j)
         /\ (IF C!Advance(c, LabelRow(r)).adv.capped THEN {"gap"} ELSE {})
              = EventsFrom(setting, h, last, j)
<1> DEFINE s == setting
           row == LabelRow(r)
           out == C!Advance(c, row)
<1>1. row.at = h[j].label /\ row.session = 0 /\ row.accept = TRUE
  BY DEF LabelRow, C!NoSession
<1>2. h[j].label \in Int /\ (last # 0 => h[last].label \in Int)
  <2>1. h[j].label \in Int
    BY RowIs
  <2>2. last # 0 => last \in 1 .. Len(h)
    OBVIOUS
  <2> QED BY <2>1, <2>2, RowIs
<1>3. /\ s.clk.column = TRUE /\ s.clk.gap = "none" /\ s.clk.cap \in Nat /\ s.clk.cap > 0
  <2>1. s \in Settings
    OBVIOUS
  <2>2. s.clk.column \in BOOLEAN /\ (Lab(s) => s.clk.column /\ s.clk.gap = "none")
        /\ s.clk.cap \in Nat /\ s.clk.cap > 0
    BY <2>1, SettingIs
  <2> QED BY <2>2
<1> HIDE DEF row
<1>4. IsFed(row)
  <2>1. row.accept \in BOOLEAN
    BY <1>1, Zenon
  <2>2. row.at \in Int /\ row.session \in Nat
    BY <1>1, <1>2
  <2> QED BY <2>1, <2>2 DEF IsFed
<1>5. IsClock(c)
  BY DEF LabelledBy
<1>6. Moves(s, c, row, out) /\ IsClock(out.clock)
  BY <1>4, <1>5, AdvanceMoves
<1> HIDE DEF out
<1>7. j # 0 /\ out.clock.started /\ out.clock.prev = h[j].label /\ out.clock.session = 0
  BY <1>1, <1>6 DEF Moves
<1>8. CASE last = 0
  <2>1. ~c.started
    BY <1>8 DEF LabelledBy
  <2>2. out.clock.pending = 0 /\ out.adv.dClock = 0 /\ out.adv.capped = FALSE
    BY <1>6, <2>1 DEF Moves
  <2>3. LabelledBy(h, j, out.clock)
    BY <1>6, <1>7, <2>2 DEF LabelledBy
  <2>4. StepFrom(s, h, last, j) = 0 /\ EventsFrom(s, h, last, j) = {}
    BY <1>8 DEF StepFrom, EventsFrom
  <2> QED BY <2>2, <2>3, <2>4 DEF out, row
<1>9. CASE last # 0
  <2> DEFINE d == h[j].label - h[last].label
             cap == s.clk.cap
             beh == Behind(c)
  <2>1. c.started /\ c.prev = h[last].label /\ c.session = 0 /\ c.pending = 0
    BY <1>9 DEF LabelledBy
  <2>2. d \in Nat /\ cap \in Nat
    BY <1>2, <1>3, <1>9
  <2>3. RawTo(s, beh, row) = d /\ ~NewSession(beh, row)
    BY <1>1, <1>3, <2>1 DEF RawTo, NewSession, Behind
  <2> HIDE DEF beh, d, cap
  <2>4. ~BackTo(s, beh, row) /\ ~ResetTo(s, beh, row) /\ ~GapTo(s, beh, row)
    BY <2>2, <2>3 DEF BackTo, ResetTo, GapTo
  <2>5. StepTo(s, beh, row) = Capped(s, d) /\ (PastCap(s, beh, row) <=> d > cap)
    BY <2>3, <2>4 DEF StepTo, PastCap, cap
  <2>6. Capped(s, d) = Lesser(d, cap) /\ Lesser(d, cap) \in Nat /\ Lesser(d, cap) <= cap
    BY <2>2 DEF Capped, Lesser, cap
  <2>7. TotalTo(s, c, row) = Lesser(d, cap)
    <3>1. TotalTo(s, c, row) = 0 + StepTo(s, beh, row)
      BY <2>1, <2>4 DEF TotalTo, beh
    <3> QED BY <2>5, <2>6, <3>1
  <2>8. /\ out.adv.capped = (PastCap(s, beh, row) \/ (row.accept /\ TotalTo(s, c, row) > cap))
        /\ out.adv.dClock = (IF row.accept THEN Lesser(TotalTo(s, c, row), cap) ELSE 0)
        /\ out.clock.pending = (IF row.accept THEN 0 ELSE TotalTo(s, c, row))
    BY <1>6, <2>1 DEF Moves, beh, cap
  <2>9. out.adv.capped <=> d > cap
    <3>1. ~(TotalTo(s, c, row) > cap)
      BY <2>2, <2>6, <2>7
    <3>2. out.adv.capped <=> (PastCap(s, beh, row) \/ (row.accept /\ TotalTo(s, c, row) > cap))
      BY <2>8, Zenon
    <3>3. PastCap(s, beh, row) <=> d > cap
      BY <2>5
    <3> QED BY <3>1, <3>2, <3>3
  <2>10. out.adv.dClock = Lesser(d, cap)
    <3>1. Lesser(Lesser(d, cap), cap) = Lesser(d, cap)
      BY <2>2 DEF Lesser
    <3> QED BY <1>1, <2>7, <2>8, <3>1
  <2>11. LabelledBy(h, j, out.clock)
    BY <1>1, <1>6, <1>7, <2>8 DEF LabelledBy
  <2>12. StepFrom(s, h, last, j) = Lesser(d, cap)
         /\ EventsFrom(s, h, last, j) = IF d > cap THEN {"gap"} ELSE {}
    BY <1>9 DEF StepFrom, EventsFrom, d, cap
  <2> QED BY <2>9, <2>10, <2>11, <2>12 DEF out, row
<1> QED BY <1>8, <1>9

\* The clock of the labels over the rows held, in their order.
LEMMA LabelRuns ==
  ASSUME setting \in Settings, NEW h \in Streams(setting), Lab(setting),
         NEW k \in 1 .. Len(h), NEW e, NEW n, NEW w, UpToRow(w, k - 1),
         InQueue(setting, h, w, e), InLearnt(setting, h, w, e, k),
         NEW c, LabelledBy(h, w.last, c), NEW run, ByRun(c, Pending(setting, h, n, w.queue), run)
  PROVE  \A i \in 0 .. Len(w.queue) :
           /\ LabelledBy(h, PrevOf(w, i), run[i].clock)
           /\ i # 0 =>
                /\ run[i].adv.dClock = StepFrom(setting, h, PrevOf(w, i - 1), w.queue[i])
                /\ (IF run[i].adv.capped THEN {"gap"} ELSE {})
                     = EventsFrom(setting, h, PrevOf(w, i - 1), w.queue[i])
<1> DEFINE s == setting
           q == w.queue
           N == Len(w.queue)
           P == Pending(s, h, n, q)
<1>1. q \in Seq(1 .. k - 1) /\ N \in Nat /\ w.last \in 0 .. k - 1 /\ k \in Nat /\ Len(h) \in Nat
  <2>1. q \in Seq(1 .. k - 1) /\ w.last \in 0 .. k - 1
    BY DEF UpToRow
  <2>2. Len(h) \in Nat
    BY DEF Streams
  <2> QED BY <2>1, <2>2
<1>2. Len(P) = N /\ \A i \in 1 .. N : P[i] = HeldOf(s, h, n, q[i])
  <2>1. Len(P) = Len(q) /\ \A i \in 1 .. Len(q) : P[i] = HeldOf(s, h, n, q[i])
    BY <1>1, PendingIs
  <2> QED BY <2>1
<1>3. run[0] = LabelNone(c) /\ \A i \in 1 .. N : run[i] = C!Advance(run[i - 1].clock, LabelRow(P[i]))
  <2>1. run[0] = LabelNone(c) /\ \A i \in 1 .. Len(P) : run[i] = C!Advance(run[i - 1].clock, LabelRow(P[i]))
    BY DEF ByRun
  <2> HIDE DEF P
  <2> QED BY <1>2, <2>1
<1> HIDE DEF P
<1>4. ASSUME NEW i \in 1 .. N
      PROVE  /\ q[i] \in 1 .. Len(h) /\ PrevOf(w, i - 1) \in 0 .. Len(h)
             /\ PrevOf(w, i - 1) # 0 => h[PrevOf(w, i - 1)].label <= h[q[i]].label
             /\ PrevOf(w, i) = q[i]
  <2>1. q[i] \in 1 .. k - 1 /\ q[i] \in 1 .. Len(h)
    <3>1. q[i] \in 1 .. k - 1
      BY <1>1, ElementOfSeq
    <3> QED BY <1>1, <3>1
  <2>2. PrevOf(w, i) = q[i]
    BY DEF PrevOf
  <2>3. CASE i = 1
    <3>1. PrevOf(w, i - 1) = w.last
      BY <2>3 DEF PrevOf
    <3>2. w.last # 0 => Earlier(s, h, w.last, q[i])
      BY DEF InLearnt
    <3>3. w.last # 0 => w.last \in 1 .. Len(h)
      BY <1>1
    <3>4. w.last # 0 => h[w.last].label \in Int
      BY <3>3, RowIs
    <3>5. h[q[i]].label \in Int
      BY <2>1, RowIs
    <3>6. w.last # 0 => h[w.last].label <= h[q[i]].label
      BY <3>2, <3>4, <3>5 DEF Earlier
    <3>7. w.last \in 0 .. Len(h)
      BY <1>1
    <3> QED BY <2>1, <2>2, <3>1, <3>6, <3>7
  <2>4. CASE i # 1
    <3>1. i - 1 \in 1 .. i - 1 /\ i - 1 # 0 /\ i - 1 \in 1 .. N
      BY <1>1, <2>4
    <3>2. PrevOf(w, i - 1) = q[i - 1]
      BY <3>1 DEF PrevOf
    <3>3. Earlier(s, h, q[i - 1], q[i])
      BY <3>1 DEF InQueue
    <3>4. q[i - 1] \in 1 .. Len(h)
      <4>1. q[i - 1] \in 1 .. k - 1
        BY <1>1, <3>1, ElementOfSeq
      <4> QED BY <1>1, <4>1
    <3>5. h[q[i - 1]].label \in Int /\ h[q[i]].label \in Int
      BY <2>1, <3>4, RowIs
    <3>6. h[q[i - 1]].label <= h[q[i]].label
      BY <3>3, <3>5 DEF Earlier
    <3>7. q[i - 1] \in 0 .. Len(h)
      BY <3>4
    <3> QED BY <2>1, <2>2, <3>2, <3>6, <3>7
  <2> QED BY <2>3, <2>4
<1> DEFINE T == {i \in 0 .. N : LabelledBy(h, PrevOf(w, i), run[i].clock)}
<1>5. 0 \in T
  <2>1. run[0].clock = c /\ PrevOf(w, 0) = w.last
    BY <1>3 DEF LabelNone, PrevOf
  <2> QED BY <1>1, <2>1
<1>6. ASSUME NEW i \in 1 .. N, LabelledBy(h, PrevOf(w, i - 1), run[i - 1].clock)
      PROVE  /\ LabelledBy(h, q[i], run[i].clock)
             /\ run[i].adv.dClock = StepFrom(s, h, PrevOf(w, i - 1), q[i])
             /\ (IF run[i].adv.capped THEN {"gap"} ELSE {})
                  = EventsFrom(s, h, PrevOf(w, i - 1), q[i])
  <2>1. P[i].label = h[q[i]].label
    <3>1. P[i] = HeldOf(s, h, n, q[i])
      BY <1>2
    <3> QED BY <3>1 DEF HeldOf
  <2>2. run[i] = C!Advance(run[i - 1].clock, LabelRow(P[i]))
    BY <1>3
  <2> DEFINE last == PrevOf(w, i - 1)
             j == q[i]
             r == P[i]
             u == run[i - 1].clock
  <2>3. /\ last \in 0 .. Len(h) /\ j \in 1 .. Len(h) /\ (last # 0 => h[last].label <= h[j].label)
        /\ LabelledBy(h, last, u) /\ r.label = h[j].label
    BY <1>4, <1>6, <2>1
  <2> HIDE DEF last, j, r, u
  <2>4. /\ LabelledBy(h, j, C!Advance(u, LabelRow(r)).clock)
        /\ C!Advance(u, LabelRow(r)).adv.dClock = StepFrom(s, h, last, j)
        /\ (IF C!Advance(u, LabelRow(r)).adv.capped THEN {"gap"} ELSE {})
             = EventsFrom(s, h, last, j)
    BY <2>3, LabelMoves
  <2>5. run[i] = C!Advance(u, LabelRow(r))
    BY <2>2 DEF u, r
  <2> QED BY <2>4, <2>5 DEF last, j
<1>7. ASSUME NEW i \in 1 .. N, i - 1 \in T PROVE i \in T
  <2>1. LabelledBy(h, q[i], run[i].clock)
    BY <1>6, <1>7
  <2>2. PrevOf(w, i) = q[i]
    BY <1>4
  <2> QED BY <1>1, <2>1, <2>2
<1>8. 0 .. N \subseteq T
  <2> HIDE DEF T
  <2> QED BY <1>1, <1>5, <1>7, UpTo
<1> SUFFICES ASSUME NEW i \in 0 .. N
             PROVE  /\ LabelledBy(h, PrevOf(w, i), run[i].clock)
                    /\ i # 0 =>
                         /\ run[i].adv.dClock = StepFrom(s, h, PrevOf(w, i - 1), q[i])
                         /\ (IF run[i].adv.capped THEN {"gap"} ELSE {})
                              = EventsFrom(s, h, PrevOf(w, i - 1), q[i])
  OBVIOUS
<1>9. LabelledBy(h, PrevOf(w, i), run[i].clock)
  BY <1>8
<1>10. CASE i # 0
  <2>1. i \in 1 .. N /\ i - 1 \in 0 .. N
    BY <1>1, <1>10
  <2>2. LabelledBy(h, PrevOf(w, i - 1), run[i - 1].clock)
    BY <1>8, <2>1
  <2> QED BY <1>6, <1>9, <2>1, <2>2
<1> QED BY <1>9, <1>10

\* The same of rows that go by their labels.
LEMMA LabelReady ==
  ASSUME setting \in Settings, NEW h \in Streams(setting), Legal(setting, h), Lab(setting),
         NEW x, Sound(setting, h, x), NEW k, k = x.row + 1, k \in 1 .. Len(h), h[k].accept,
         NEW x0, NEW a, Path(setting, h, x0, a.out, x),
         NEW b, Entering(setting, h, k, Emptied(setting, h, x, k), a, b),
         NEW p, p = PlanOf(setting, h, k)
  PROVE  Ready(setting, h, k, x0, b, ReleaseByLabel(b, p))
<1> DEFINE s == setting
           w == Emptied(s, h, x, k)
           q == w.queue
           N == Len(w.queue)
           go == {i \in DOMAIN b.pending : Reached(b.pending[i], p)}
           n == IF p.reset THEN 0 ELSE FrontOf(b.pending, go)
           run == ByLabels(b.learned, b.pending)
           qs == [i \in 1 .. n |-> LearnAt(b.pending[i], p, run[i].adv)]
           r == ReleaseByLabel(b, p)
<1>1. p.reset = ResetAt(s, h, k) /\ p.id = k /\ s \in Settings
  BY DEF PlanOf
<1>2. Ledger(h, x)
  BY DEF Sound
<1>3. EmptiedTo(s, h, x, k, w) /\ Ledger(h, w)
  BY <1>2, EmptiedFields
<1>4. /\ Books(s, h, w, EpochAt(s, h, k), k - 1, k)
      /\ EpochAt(s, h, k) \in 1 .. k
  BY <1>1, EmptiedIs
<1>5. q \in Seq(1 .. k - 1) /\ N \in Nat /\ x.row = k - 1
  <2>1. x.row \in Nat
    BY <1>2 DEF Ledger
  <2>2. x.row = k - 1
    BY <2>1
  <2>3. q \in Seq(1 .. x.row)
    BY <1>2, <1>3 DEF Ledger, EmptiedTo
  <2> QED BY <2>2, <2>3
<1>6. /\ IsBuffer(b) /\ b.pending = Pending(s, h, k, q) /\ LabelClock(s, h, w, b.learned)
      /\ b.dropped = w.dropped /\ b.out = a.out
  BY DEF Entering
<1>28. w.row = k - 1
  BY <1>3, <1>5 DEF EmptiedTo
<1> HIDE DEF w, s
<1>7. /\ Len(b.pending) = N /\ DOMAIN b.pending = 1 .. N
      /\ \A i \in 1 .. N : b.pending[i] = HeldOf(s, h, k, q[i])
  <2>1. /\ Len(Pending(s, h, k, q)) = Len(q) /\ DOMAIN Pending(s, h, k, q) = 1 .. Len(q)
        /\ \A i \in 1 .. Len(q) : Pending(s, h, k, q)[i] = HeldOf(s, h, k, q[i])
    BY <1>5, PendingIs
  <2> QED BY <1>6, <2>1
<1>8. GoFirst(b.pending, go, FrontOf(b.pending, go))
  <2> HIDE DEF go
  <2> QED BY <1>5, <1>7, FrontIs
<1>9. n \in 0 .. N
  BY <1>5, <1>7, <1>8 DEF GoFirst
<1>10. ASSUME NEW i \in 1 .. N
       PROVE  /\ q[i] \in EpochAt(s, h, k) .. k - 1 /\ h[q[i]].accept
              /\ i \in go <=> DueBy(s, h, q[i], k)
  <2>1. q[i] \in 1 .. k - 1
    BY <1>5, ElementOfSeq
  <2>2. InQueue(s, h, w, EpochAt(s, h, k))
    BY <1>4 DEF Books, w, s
  <2>3. q[i] >= EpochAt(s, h, k) /\ HasLesson(s, h[q[i]])
    BY <2>2 DEF InQueue
  <2>4. q[i] \in EpochAt(s, h, k) .. k - 1 /\ h[q[i]].accept
    BY <1>4, <2>1, <2>3 DEF HasLesson
  <2>5. Reached(HeldOf(s, h, k, q[i]), p) <=> DueBy(s, h, q[i], k)
    BY DEF Reached, HeldOf, PlanOf, DueBy, s
  <2> QED BY <1>7, <2>4, <2>5
<1>27. \A i \in 0 .. N :
         /\ LabelledBy(h, PrevOf(w, i), run[i].clock)
         /\ i # 0 =>
              /\ run[i].adv.dClock = StepFrom(s, h, PrevOf(w, i - 1), q[i])
              /\ (IF run[i].adv.capped THEN {"gap"} ELSE {})
                   = EventsFrom(s, h, PrevOf(w, i - 1), q[i])
  <2>1. ByRun(b.learned, Pending(s, h, k, q), run)
    BY <1>5, <1>6, <1>7, ByRuns
  <2>2. UpToRow(w, k - 1)
    BY <1>3, <1>5, <1>28 DEF Ledger, UpToRow
  <2>3. InQueue(s, h, w, EpochAt(s, h, k)) /\ InLearnt(s, h, w, EpochAt(s, h, k), k)
    BY <1>4 DEF Books, w, s
  <2>4. LabelledBy(h, w.last, b.learned) /\ Lab(s) /\ h \in Streams(s)
    BY <1>6 DEF LabelClock, s
  <2> HIDE DEF run
  <2> QED BY <2>1, <2>2, <2>3, <2>4, LabelRuns DEF s
<1>11. qs = [i \in 1 .. n |-> qs[i]] /\ IsSeq(qs) /\ Len(qs) = n
  <2>1. qs = [i \in 1 .. n |-> qs[i]]
    OBVIOUS
  <2>2. n \in Nat
    BY <1>5, <1>9
  <2> HIDE DEF qs, n, run
  <2> QED BY <2>1, <2>2, ReplaysSeq
<1>12. ASSUME ~ResetAt(s, h, k) PROVE Teaching(s, h, x, k, qs)
  <2>1. w = x /\ x.queue = q
    BY <1>12 DEF Emptied, w, s
  <2>2. n = FrontOf(b.pending, go)
    BY <1>1, <1>12 DEF s
  <2>3. ASSUME NEW i \in 1 .. n
        PROVE  /\ DueBy(s, h, q[i], k)
               /\ qs[i].kind = "learn" /\ qs[i].id = q[i] /\ qs[i].at = k /\ qs[i].reset = FALSE
               /\ qs[i].d = StepFrom(s, h, PrevOf(x, i - 1), q[i])
               /\ qs[i].fresh = FreshOf(s, h, q[i])
               /\ qs[i].events = EventsFrom(s, h, PrevOf(x, i - 1), q[i])
    <3>1. i \in 1 .. N
      BY <1>5, <1>9
    <3>2. i \in go
      <4> HIDE DEF go, n
      <4> QED BY <1>8, <2>2 DEF GoFirst
    <3>3. qs[i] = LearnAt(HeldOf(s, h, k, q[i]), p, run[i].adv)
      <4> HIDE DEF run
      <4>1. qs[i] = LearnAt(b.pending[i], p, run[i].adv)
        OBVIOUS
      <4> QED BY <1>7, <3>1, <4>1
    <3>4. Lab(s)
      BY DEF s
    <3> HIDE DEF qs, n, run
    <3>5. /\ run[i].adv.dClock = StepFrom(s, h, PrevOf(w, i - 1), q[i])
          /\ (IF run[i].adv.capped THEN {"gap"} ELSE {})
               = EventsFrom(s, h, PrevOf(w, i - 1), q[i])
      <4>1. i \in 0 .. N /\ i # 0
        BY <1>5, <3>1
      <4> QED BY <1>27, <4>1
    <3>6. /\ qs[i].kind = "learn" /\ qs[i].id = q[i] /\ qs[i].at = k /\ qs[i].reset = FALSE
          /\ qs[i].d = run[i].adv.dClock /\ qs[i].fresh = 0
          /\ qs[i].events = (IF run[i].adv.capped THEN {"gap"} ELSE {})
      BY <1>1, <3>3 DEF LearnAt, HeldOf
    <3>7. FreshOf(s, h, q[i]) = 0
      BY <3>4 DEF FreshOf
    <3> QED BY <1>10, <2>1, <3>1, <3>2, <3>5, <3>6, <3>7
  <2> HIDE DEF qs, n, run
  <2> QED BY <1>9, <1>11, <2>1, <2>3 DEF Teaching
<1>13. ASSUME ResetAt(s, h, k) PROVE qs = <<>>
  <2>1. n = 0
    BY <1>1, <1>13 DEF s
  <2> HIDE DEF qs, n, run
  <2>2. qs \in Seq(Parts(qs)) /\ Len(qs) = 0
    BY <1>11, <2>1, SeqOfParts
  <2> QED BY <2>2, EmptySeq
<1>14. r = [b EXCEPT !.learned = run[n].clock, !.heldBreak = {},
                     !.pending = SubSeq(b.pending, n + 1, Len(b.pending)), !.out = b.out \o qs]
  BY DEF ReleaseByLabel
<1> DEFINE cl == run[n].clock
<1>29. cl = run[n].clock
  OBVIOUS
<1> HIDE DEF n, qs, r, go, run, cl
<1>15. r = [pending |-> SubSeq(b.pending, n + 1, Len(b.pending)), heldBreak |-> {},
            learned |-> cl, missing |-> b.missing, dropped |-> b.dropped,
            out |-> b.out \o qs]
  <2> DEFINE t == SubSeq(b.pending, n + 1, Len(b.pending))
             o == b.out \o qs
  <2>1. b = [pending |-> b.pending, heldBreak |-> b.heldBreak, learned |-> b.learned,
             missing |-> b.missing, dropped |-> b.dropped, out |-> b.out]
    BY <1>6 DEF IsBuffer
  <2> HIDE DEF t, o
  <2>2. r = [b EXCEPT !.learned = cl, !.heldBreak = {}, !.pending = t, !.out = o]
    BY <1>14, <1>29 DEF t, o
  <2> QED BY <2>1, <2>2 DEF t, o
<1>16. /\ r.pending = SubSeq(b.pending, n + 1, Len(b.pending)) /\ r.heldBreak = {}
       /\ r.learned = cl /\ r.missing = b.missing /\ r.dropped = b.dropped
       /\ r.out = b.out \o qs /\ IsBuffer(r)
  <2>1. /\ r.pending = SubSeq(b.pending, n + 1, Len(b.pending)) /\ r.heldBreak = {}
        /\ r.learned = cl /\ r.missing = b.missing /\ r.dropped = b.dropped
        /\ r.out = b.out \o qs
    BY <1>15
  <2> QED BY <1>15, <2>1 DEF IsBuffer
<1>17. PICK y : /\ Path(s, h, x0, a.out \o qs, y) /\ y.row = k - 1
                /\ ReleasedTo(s, h, k, w, n, Emptied(s, h, y, k))
  <2>1. s \in Settings /\ h \in Streams(s) /\ Legal(s, h) /\ Sound(s, h, x) /\ Path(s, h, x0, a.out, x)
    BY DEF s
  <2>2. \E y : /\ Path(s, h, x0, a.out \o qs, y) /\ y.row = k - 1
               /\ ReleasedTo(s, h, k, Emptied(s, h, x, k), Len(qs), Emptied(s, h, y, k))
    BY <1>11, <1>12, <1>13, <2>1, ReleasesTo
  <2> QED BY <1>11, <2>2 DEF w
<1> DEFINE v == Emptied(s, h, y, k)
<1>18. v.queue = SubSeq(q, n + 1, N) /\ v.dropped = w.dropped /\ v.last = PrevOf(w, n)
  BY <1>17 DEF ReleasedTo
<1> HIDE DEF v
<1>26. /\ v.queue \in Seq(1 .. k - 1) /\ Len(v.queue) = N - n
       /\ \A i \in 1 .. N - n : v.queue[i] = q[n + i]
  <2>1. /\ SubSeq(q, n + 1, N) \in Seq(1 .. k - 1) /\ Len(SubSeq(q, n + 1, N)) = N - n
        /\ \A i \in 1 .. N - n : SubSeq(q, n + 1, N)[i] = q[n + i]
    <3>1. q \in Seq(1 .. k - 1) /\ n \in 0 .. Len(q)
      BY <1>5, <1>9
    <3> HIDE DEF q
    <3> QED BY ONLY <3>1, BackOf DEF q
  <2> QED BY <1>18, <2>1
<1>19. r.pending = Pending(s, h, k, v.queue)
  <2>1. SubSeq(Pending(s, h, k, q), n + 1, Len(Pending(s, h, k, q)))
          = Pending(s, h, k, SubSeq(q, n + 1, N))
    BY <1>5, <1>9, PendingBack
  <2> QED BY <1>6, <1>16, <1>18, <2>1
<1>20. ASSUME v.queue # <<>> PROVE ~DueBy(s, h, v.queue[1], k)
  <2>1. ~ResetAt(s, h, k)
    <3>1. ASSUME ResetAt(s, h, k) PROVE FALSE
      <4>1. q = <<>> /\ n \in 0 .. 0
        <5>1. q = <<>>
          BY <1>3, <3>1 DEF EmptiedTo, s
        <5> QED BY <1>9, <5>1
      <4>2. n = 0 /\ Len(q) = 0
        BY <4>1
      <4>3. Len(v.queue) = 0
        BY <1>26, <4>2
      <4> QED BY <1>20, <1>26, <4>3, EmptySeq
    <3> QED BY <3>1
  <2>3. N - n # 0
    BY <1>20, <1>26, EmptySeq
  <2>4. n < N /\ n + 1 \in 1 .. N /\ 1 \in 1 .. N - n
    BY <1>5, <1>9, <2>3
  <2>5. n + 1 \notin go
    <3>1. n = FrontOf(b.pending, go)
      BY <1>1, <2>1 DEF n, s
    <3> QED BY <1>7, <1>8, <2>4, <3>1 DEF GoFirst
  <2> QED BY <1>10, <1>26, <2>4, <2>5
<1>21. LabelClock(s, h, v, r.learned)
  <2>1. LabelledBy(h, PrevOf(w, n), run[n].clock)
    BY <1>9, <1>27
  <2> QED BY <1>16, <1>18, <1>29, <2>1 DEF LabelClock
<1>22. ReadyAt(s, h, k, v, r)
  BY <1>6, <1>16, <1>18, <1>19, <1>20, <1>21 DEF ReadyAt
<1>23. Path(s, h, x0, r.out, y)
  BY <1>6, <1>16, <1>17
<1>24. Lab(s)
  BY DEF s
<1>25. Ready(s, h, k, x0, b, r)
  BY <1>16, <1>17, <1>22, <1>23, <1>24 DEF Ready, v
<1> QED BY <1>25 DEF r, s

\* The buffer and the plans after a row.
DelayedTo(s, h, n, x0, a) ==
  /\ IsBuffer(a)
  /\ \E y : Path(s, h, x0, a.out, y) /\ y.row = n /\ Buffered(s, h, n, y, a)

LEMMA SkipDelays ==
  ASSUME setting \in Settings, NEW h \in Streams(setting), Legal(setting, h),
         NEW x, Sound(setting, h, x), NEW k, k = x.row + 1, k \in 1 .. Len(h), ~h[k].accept,
         NEW x0, NEW a, Path(setting, h, x0, a.out, x), Buffered(setting, h, k - 1, x, a),
         NEW b, Entering(setting, h, k, Emptied(setting, h, x, k), a, b),
         NEW p, p = PlanOf(setting, h, k)
  PROVE  DelayedTo(setting, h, k, x0, Skip(b, p))
<1> DEFINE s == setting
           w == Emptied(s, h, x, k)
           q == [kind |-> "skip", id |-> p.id, reset |-> p.reset, events |-> {}]
           r == Skip(b, p)
           y == [w EXCEPT !.row = k, !.now = k]
<1>1. p.reset = ResetAt(s, h, k) /\ p.id = k /\ p.events = EventsAt(s, h, k) /\ s \in Settings
  BY DEF PlanOf
<1>2. Ledger(h, x)
  BY DEF Sound
<1>3. EmptiedTo(s, h, x, k, w) /\ Ledger(h, w)
  BY <1>2, EmptiedFields
<1>4. /\ IsBuffer(b) /\ b.pending = Pending(s, h, k, w.queue) /\ LabelClock(s, h, w, b.learned)
      /\ b.dropped = w.dropped /\ b.out = a.out /\ b.missing = a.missing
      /\ b.heldBreak = (IF ResetAt(s, h, k) THEN {} ELSE a.heldBreak)
  BY DEF Entering
<1>5. a.heldBreak = BreakHeld(s, h, k - 1) /\ a.missing = (IF Lab(s) THEN Nulls(s, h, k - 1) ELSE 0)
  BY DEF Buffered, s
<1>6. /\ y.queue = w.queue /\ y.last = w.last /\ y.dropped = w.dropped /\ y.row = k
  <2>1. w = [queue |-> w.queue, learnt |-> w.learnt, row |-> w.row, now |-> w.now,
             last |-> w.last, dropped |-> w.dropped]
    BY <1>3 DEF Ledger
  <2> HIDE DEF w
  <2> QED BY <2>1
<1>7. Skips(s, h, x, q, y)
  BY <1>1 DEF Skips, s
<1>8. Path(s, h, x0, Append(b.out, q), y)
  <2>1. Booked(s, h, x, q, y)
    BY <1>7 DEF Booked
  <2> HIDE DEF w, q, y
  <2> QED BY <1>4, <2>1, PathAppend DEF s
<1>9. r = [b EXCEPT !.heldBreak = b.heldBreak \cup p.events, !.out = Append(b.out, q)]
  BY DEF Skip
<1> HIDE DEF w, q, r, y, s
<1>10. r = [pending |-> b.pending, heldBreak |-> b.heldBreak \cup p.events, learned |-> b.learned,
            missing |-> b.missing, dropped |-> b.dropped, out |-> Append(b.out, q)]
  <2> DEFINE t == b.heldBreak \cup p.events
             o == Append(b.out, q)
  <2>1. b = [pending |-> b.pending, heldBreak |-> b.heldBreak, learned |-> b.learned,
             missing |-> b.missing, dropped |-> b.dropped, out |-> b.out]
    BY <1>4 DEF IsBuffer
  <2> HIDE DEF t, o
  <2>2. r = [b EXCEPT !.heldBreak = t, !.out = o]
    BY <1>9 DEF t, o
  <2> QED BY <2>1, <2>2 DEF t, o
<1>11. /\ r.pending = b.pending /\ r.heldBreak = b.heldBreak \cup p.events /\ r.learned = b.learned
       /\ r.missing = b.missing /\ r.dropped = b.dropped /\ r.out = Append(b.out, q)
  BY <1>10
<1>12. IsBuffer(r)
  BY <1>10, <1>11 DEF IsBuffer
<1>13. r.heldBreak = BreakHeld(s, h, k)
  <2>1. /\ (IF ResetAt(s, h, k) THEN {} ELSE BreakHeld(s, h, k - 1)) \cup EventsAt(s, h, k)
             = EventsOf(s, h, k)
        /\ BreakHeld(s, h, k) = (IF h[k].accept THEN {} ELSE EventsOf(s, h, k))
    BY BreakIs DEF s
  <2> QED BY <1>1, <1>4, <1>5, <1>11, <2>1
<1>14. r.missing = (IF Lab(s) THEN Nulls(s, h, k) ELSE 0)
  <2>1. Nulls(s, h, k) = Nulls(s, h, k - 1) + One(LacksLabel(h[k]))
    BY MarkNext DEF s
  <2>2. k - 1 \in 0 .. Len(h)
    BY DEF Streams
  <2>3. Nulls(s, h, k - 1) \in Nat
    BY <2>2, MarkIs DEF s
  <2>4. One(LacksLabel(h[k])) = 0
    BY DEF One, LacksLabel
  <2> QED BY <1>4, <1>5, <1>11, <2>1, <2>3, <2>4
<1>15. LabelClock(s, h, y, r.learned)
  BY <1>4, <1>6, <1>11 DEF LabelClock
<1>16. Buffered(s, h, k, y, r)
  BY <1>4, <1>6, <1>11, <1>13, <1>14, <1>15 DEF Buffered
<1>17. DelayedTo(s, h, k, x0, r)
  BY <1>6, <1>8, <1>11, <1>12, <1>16 DEF DelayedTo
<1> QED BY <1>17 DEF r, s

\* The buffer with a row put in or taken out.
LEMMA PendingInsert ==
  ASSUME NEW s, NEW h, NEW n, NEW S, NEW q \in Seq(S), NEW e \in S, NEW i \in 1 .. Len(q) + 1
  PROVE  InsertAt(Pending(s, h, n, q), i, HeldOf(s, h, n, e)) = Pending(s, h, n, InsertAt(q, i, e))
<1> DEFINE N == Len(q)
           P == Pending(s, h, n, q)
           t == InsertAt(q, i, e)
           R == Pending(s, h, n, t)
           r == HeldOf(s, h, n, e)
           U == Parts(P) \cup Parts(R) \cup {r}
           v == InsertAt(P, i, r)
<1>1. N \in Nat
  OBVIOUS
<1>2. HasIn(S, q, i, e, t)
  BY InsertIs
<1>3. t \in Seq(S) /\ Len(t) = N + 1
      /\ \A j \in 1 .. N + 1 : t[j] = IF j < i THEN q[j] ELSE IF j = i THEN e ELSE q[j - 1]
  BY <1>2 DEF HasIn
<1>4. Len(P) = N /\ (\A j \in 1 .. N : P[j] = HeldOf(s, h, n, q[j])) /\ IsSeq(P)
  BY PendingIs
<1> HIDE DEF t
<1>5. Len(R) = N + 1 /\ (\A j \in 1 .. N + 1 : R[j] = HeldOf(s, h, n, t[j])) /\ IsSeq(R)
  <2>1. Len(R) = Len(t) /\ (\A j \in 1 .. Len(t) : R[j] = HeldOf(s, h, n, t[j])) /\ IsSeq(R)
    BY <1>3, PendingIs
  <2> QED BY <1>3, <2>1
<1> HIDE DEF P, R, r
<1>6. P \in Seq(U) /\ R \in Seq(U) /\ r \in U
  <2>1. Parts(P) \subseteq U /\ Parts(R) \subseteq U /\ r \in U
    OBVIOUS
  <2> HIDE DEF U
  <2> QED BY <1>4, <1>5, <2>1, SeqOfParts
<1> HIDE DEF U
<1>7. HasIn(U, P, i, r, v)
  <2>1. i \in 1 .. Len(P) + 1
    BY <1>4
  <2> QED BY <1>6, <2>1, InsertIs
<1>8. v \in Seq(U) /\ Len(v) = N + 1
      /\ \A j \in 1 .. N + 1 : v[j] = IF j < i THEN P[j] ELSE IF j = i THEN r ELSE P[j - 1]
  BY <1>4, <1>7 DEF HasIn
<1> HIDE DEF v
<1>9. ASSUME NEW j \in 1 .. N + 1 PROVE v[j] = R[j]
  <2>1. CASE j < i
    <3>1. j \in 1 .. N
      BY <1>1, <2>1
    <3>2. v[j] = HeldOf(s, h, n, q[j])
      BY <1>4, <1>8, <2>1, <3>1
    <3>3. R[j] = HeldOf(s, h, n, q[j])
      BY <1>3, <1>5, <2>1
    <3> QED BY <3>2, <3>3
  <2>2. CASE j = i
    <3>1. v[j] = r /\ R[j] = HeldOf(s, h, n, e)
      BY <1>3, <1>5, <1>8, <2>2
    <3> QED BY <3>1 DEF r
  <2>3. CASE ~(j < i) /\ j # i
    <3>1. j - 1 \in 1 .. N
      BY <1>1, <2>3
    <3>2. v[j] = HeldOf(s, h, n, q[j - 1])
      BY <1>4, <1>8, <2>3, <3>1
    <3>3. R[j] = HeldOf(s, h, n, q[j - 1])
      BY <1>3, <1>5, <2>3
    <3> QED BY <3>2, <3>3
  <2> QED BY <2>1, <2>2, <2>3
<1>10. v = R
  BY <1>5, <1>6, <1>8, <1>9, SeqEqual
<1> QED BY <1>10 DEF v, P, R, r, t

LEMMA PendingRemove ==
  ASSUME NEW s, NEW h, NEW n, NEW S, NEW q \in Seq(S), NEW i \in 1 .. Len(q)
  PROVE  RemoveAt(Pending(s, h, n, q), i) = Pending(s, h, n, RemoveAt(q, i))
<1> DEFINE N == Len(q)
           P == Pending(s, h, n, q)
           t == RemoveAt(q, i)
           R == Pending(s, h, n, t)
           U == Parts(P) \cup Parts(R)
           v == RemoveAt(P, i)
<1>1. N \in Nat
  OBVIOUS
<1>2. HasLost(S, q, i, t)
  BY RemoveIs
<1>3. t \in Seq(S) /\ Len(t) = N - 1
      /\ \A j \in 1 .. N - 1 : t[j] = IF j < i THEN q[j] ELSE q[j + 1]
  BY <1>2 DEF HasLost
<1>4. Len(P) = N /\ (\A j \in 1 .. N : P[j] = HeldOf(s, h, n, q[j])) /\ IsSeq(P)
  BY PendingIs
<1> HIDE DEF t
<1>5. Len(R) = N - 1 /\ (\A j \in 1 .. N - 1 : R[j] = HeldOf(s, h, n, t[j])) /\ IsSeq(R)
  <2>1. Len(R) = Len(t) /\ (\A j \in 1 .. Len(t) : R[j] = HeldOf(s, h, n, t[j])) /\ IsSeq(R)
    BY <1>3, PendingIs
  <2> QED BY <1>3, <2>1
<1> HIDE DEF P, R
<1>6. P \in Seq(U) /\ R \in Seq(U)
  <2>1. Parts(P) \subseteq U /\ Parts(R) \subseteq U
    OBVIOUS
  <2> HIDE DEF U
  <2> QED BY <1>4, <1>5, <2>1, SeqOfParts
<1> HIDE DEF U
<1>7. HasLost(U, P, i, v)
  <2>1. i \in 1 .. Len(P)
    BY <1>4
  <2> QED BY <1>6, <2>1, RemoveIs
<1>8. v \in Seq(U) /\ Len(v) = N - 1
      /\ \A j \in 1 .. N - 1 : v[j] = IF j < i THEN P[j] ELSE P[j + 1]
  BY <1>4, <1>7 DEF HasLost
<1> HIDE DEF v
<1>9. ASSUME NEW j \in 1 .. N - 1 PROVE v[j] = R[j]
  <2>1. j \in 1 .. N /\ j + 1 \in 1 .. N
    BY <1>1
  <2>2. v[j] = HeldOf(s, h, n, IF j < i THEN q[j] ELSE q[j + 1])
    BY <1>4, <1>8, <2>1
  <2>3. R[j] = HeldOf(s, h, n, IF j < i THEN q[j] ELSE q[j + 1])
    BY <1>3, <1>5
  <2> QED BY <2>2, <2>3
<1>10. v = R
  BY <1>5, <1>6, <1>8, <1>9, SeqEqual
<1> QED BY <1>10 DEF v, P, R, t

\* A row is scored, and held or not.
ScorePlan(s, h, k, v, q) ==
  /\ q.kind = "score" /\ q.id = k /\ q.reset = ResetAt(s, h, k) /\ q.events = {}
  /\ q.d = DAt(s, h, k) /\ q.fresh = FreshAt(s, h, k) /\ q.cut = CutBefore(s, h, v.queue)
  /\ q.held \in BOOLEAN /\ (q.held <=> HasLesson(s, h[k])) /\ (q.held => PutIn(s, h, v.queue, q))
HeldBy(s, h, k, v, q, r, out) ==
  /\ IsBuffer(out) /\ out.out = Append(r.out, q)
  /\ out.pending = (IF q.held THEN Pending(s, h, k, Record(v.queue, q)) ELSE r.pending)
  /\ out.dropped = (IF q.held THEN r.dropped + One(q.drop # 0) ELSE r.dropped)
  /\ out.learned = r.learned /\ out.heldBreak = {}
  /\ out.missing = (IF Lab(s) THEN Nulls(s, h, k) ELSE 0)

LEMMA ScoreDelays ==
  ASSUME NEW s \in Settings, NEW h \in Streams(s), NEW x0,
         NEW k \in 1 .. Len(h), h[k].accept, NEW r, NEW y, Ledger(h, y), Path(s, h, x0, r.out, y),
         y.row = k - 1, ReadyAt(s, h, k, Emptied(s, h, y, k), r),
         NEW q, ScorePlan(s, h, k, Emptied(s, h, y, k), q),
         NEW out, HeldBy(s, h, k, Emptied(s, h, y, k), q, r, out)
  PROVE  DelayedTo(s, h, k, x0, out)
<1> DEFINE v == Emptied(s, h, y, k)
           z == Scored(v, k, q)
<1>1. EmptiedTo(s, h, y, k, v) /\ Ledger(h, v)
  BY EmptiedFields
<1>2. v = [queue |-> v.queue, learnt |-> v.learnt, row |-> v.row, now |-> v.now,
           last |-> v.last, dropped |-> v.dropped]
  BY <1>1 DEF Ledger
<1>3. y.row + 1 = k /\ k \in Nat
  OBVIOUS
<1>4. Scores(s, h, y, q, z)
  BY <1>3 DEF Scores, ScorePlan, ReadyAt
<1>5. Path(s, h, x0, out.out, z)
  <2>1. Booked(s, h, y, q, z)
    BY <1>4 DEF Booked
  <2>2. out.out = Append(r.out, q)
    BY DEF HeldBy
  <2> HIDE DEF z
  <2> QED BY <2>1, <2>2, PathAppend
<1> HIDE DEF v
<1>6. /\ z.row = k /\ z.last = v.last
      /\ z.queue = (IF q.held THEN Record(v.queue, q) ELSE v.queue)
      /\ z.dropped = (IF q.held THEN v.dropped + One(q.drop # 0) ELSE v.dropped)
  <2> DEFINE t == Record(v.queue, q)
             n == v.dropped + One(q.drop # 0)
  <2>1. CASE q.held
    <3>1. z = [v EXCEPT !.row = k, !.now = k, !.queue = t, !.dropped = n]
      BY <2>1 DEF Scored
    <3> HIDE DEF z, t, n
    <3>2. z = [queue |-> t, learnt |-> v.learnt, row |-> k, now |-> k, last |-> v.last,
               dropped |-> n]
      BY <1>2, <3>1
    <3>3. z.row = k /\ z.last = v.last /\ z.queue = t /\ z.dropped = n
      BY <3>2
    <3> QED BY <2>1, <3>3 DEF t, n
  <2>2. CASE ~q.held
    <3>1. z = [v EXCEPT !.row = k, !.now = k]
      BY <2>2 DEF Scored
    <3> HIDE DEF z
    <3>2. z = [queue |-> v.queue, learnt |-> v.learnt, row |-> k, now |-> k, last |-> v.last,
               dropped |-> v.dropped]
      BY <1>2, <3>1
    <3>3. z.row = k /\ z.last = v.last /\ z.queue = v.queue /\ z.dropped = v.dropped
      BY <3>2
    <3> QED BY <2>2, <3>3
  <2> QED BY <2>1, <2>2
<1> HIDE DEF z
<1>7. /\ r.pending = Pending(s, h, k, v.queue) /\ LabelClock(s, h, v, r.learned)
      /\ r.dropped = v.dropped
  BY DEF ReadyAt, v
<1>8. /\ IsBuffer(out) /\ out.learned = r.learned /\ out.heldBreak = {}
      /\ out.pending = (IF q.held THEN Pending(s, h, k, Record(v.queue, q)) ELSE r.pending)
      /\ out.dropped = (IF q.held THEN r.dropped + One(q.drop # 0) ELSE r.dropped)
      /\ out.missing = (IF Lab(s) THEN Nulls(s, h, k) ELSE 0)
  BY DEF HeldBy, v
<1>9. out.pending = Pending(s, h, k, z.queue)
  BY <1>6, <1>7, <1>8
<1>10. out.dropped = z.dropped
  BY <1>6, <1>7, <1>8
<1>11. out.heldBreak = BreakHeld(s, h, k)
  <2>1. BreakHeld(s, h, k) = (IF h[k].accept THEN {} ELSE EventsOf(s, h, k))
    BY BreakIs
  <2> QED BY <1>8, <2>1
<1>12. LabelClock(s, h, z, out.learned)
  BY <1>6, <1>7, <1>8 DEF LabelClock
<1>13. Buffered(s, h, k, z, out)
  BY <1>8, <1>9, <1>10, <1>11, <1>12 DEF Buffered
<1> QED BY <1>5, <1>6, <1>8, <1>13 DEF DelayedTo

\* A row's own windows are still open.
LEMMA OwnOpen ==
  ASSUME NEW s \in Settings, NEW h \in Streams(s), NEW k \in 1 .. Len(h), h[k].accept,
         ClosesIn(s, h, k)
  PROVE  (~Frm(s) \/ Rank(s, h, k, k) <= Closed(s, h, k)) = ~Frm(s)
<1> SUFFICES ASSUME Frm(s) PROVE ~(Rank(s, h, k, k) <= Closed(s, h, k))
  OBVIOUS
<1>1. One(h[k].accept) = 1 /\ k \in Nat
  BY DEF One
<1>2. CASE k = 1 \/ ResetAt(s, h, k)
  <2>1. Closed(s, h, k) = 0 /\ Rank(s, h, k, k) = 1
    BY <1>1, <1>2, RanksOf
  <2> QED BY <2>1
<1>3. CASE k > 1 /\ ~ResetAt(s, h, k)
  <2>1. /\ Closed(s, h, k) = Closed(s, h, k - 1) + h[k].closes
        /\ Rank(s, h, k, k) = Rank(s, h, k - 1, k - 1) + 1
    <3>1. /\ Closed(s, h, k) = Closed(s, h, k - 1) + h[k].closes
          /\ Rank(s, h, k, k) = Rank(s, h, k - 1, k - 1) + One(h[k].accept)
      BY <1>3, RanksOf, Zenon
    <3> QED BY <1>1, <3>1
  <2>2. k - 1 \in 1 .. Len(h)
    BY <1>3 DEF Streams
  <2>3. Rank(s, h, k - 1, k - 1) \in Nat /\ Closed(s, h, k - 1) \in Nat
    BY <2>2, RanksOf
  <2>4. h[k].closes \in Nat
    BY RowIs
  <2>5. h[k].closes <= Rank(s, h, k - 1, k - 1) - Closed(s, h, k - 1)
    BY <1>3 DEF ClosesIn
  <2> QED BY <2>1, <2>3, <2>4, <2>5
<1> QED BY <1>1, <1>2, <1>3

\* A row put in last.
LEMMA AppendIs ==
  ASSUME NEW S, NEW q \in Seq(S), NEW e \in S
  PROVE  InsertAt(q, Len(q) + 1, e) = Append(q, e)
<1> DEFINE n == Len(q)
           a == InsertAt(q, n + 1, e)
           b == Append(q, e)
<1>1. n \in Nat /\ n + 1 \in 1 .. n + 1
  OBVIOUS
<1>2. HasIn(S, q, n + 1, e, a)
  BY <1>1, InsertIs
<1>3. a \in Seq(S) /\ Len(a) = n + 1
      /\ \A j \in 1 .. n + 1 : a[j] = IF j < n + 1 THEN q[j] ELSE IF j = n + 1 THEN e ELSE q[j - 1]
  BY <1>2 DEF HasIn
<1>4. b \in Seq(S) /\ Len(b) = n + 1 /\ b[n + 1] = e /\ \A j \in 1 .. n : b[j] = q[j]
  BY AppendProperties
<1> HIDE DEF a, b
<1>5. ASSUME NEW j \in 1 .. n + 1 PROVE a[j] = b[j]
  <2>1. CASE j = n + 1
    <3>1. a[j] = e
      BY <1>1, <1>3, <2>1
    <3> QED BY <1>4, <2>1, <3>1
  <2>2. CASE j # n + 1
    <3>1. j \in 1 .. n /\ j < n + 1
      BY <1>1, <2>2
    <3>2. a[j] = q[j]
      BY <1>3, <3>1
    <3> QED BY <1>4, <3>1, <3>2
  <2> QED BY <2>1, <2>2
<1>6. a = b
  BY <1>3, <1>4, <1>5, SeqEqual
<1> QED BY <1>6 DEF a, b

\* The ledger once the rows that go have gone.
LEMMA ReadyBooks ==
  ASSUME NEW s \in Settings, NEW h \in Streams(s), Legal(s, h), NEW x0, Sound(s, h, x0),
         NEW k \in 1 .. Len(h), NEW ps, NEW y, Path(s, h, x0, ps, y), y.row = k - 1
  PROVE  /\ Sound(s, h, y) /\ Ledger(h, y) /\ Ledger(h, Emptied(s, h, y, k))
         /\ Emptied(s, h, y, k).queue \in Seq(1 .. k - 1)
         /\ Books(s, h, Emptied(s, h, y, k), EpochAt(s, h, k), k - 1, k)
         /\ EpochAt(s, h, k) \in 1 .. k
<1>1. Sound(s, h, y)
  BY PathSound
<1>2. Ledger(h, y)
  BY <1>1 DEF Sound
<1>3. EmptiedTo(s, h, y, k, Emptied(s, h, y, k)) /\ Ledger(h, Emptied(s, h, y, k))
  BY <1>2, EmptiedFields
<1>4. k = y.row + 1
  OBVIOUS
<1>5. /\ Books(s, h, Emptied(s, h, y, k), EpochAt(s, h, k), k - 1, k)
      /\ EpochAt(s, h, k) \in 1 .. k
  BY <1>1, <1>4, EmptiedIs
<1>6. Emptied(s, h, y, k).queue \in Seq(1 .. k - 1)
  <2>1. Emptied(s, h, y, k).row = k - 1
    BY <1>3 DEF EmptiedTo
  <2> QED BY <1>3, <2>1 DEF Ledger
<1> QED BY <1>1, <1>2, <1>3, <1>5, <1>6

\* A row held by an embargo or a formula goes in last.
LEMMA HoldDelays ==
  ASSUME setting \in Settings, NEW h \in Streams(setting), Legal(setting, h), ~Lab(setting),
         NEW x0, Sound(setting, h, x0), NEW k \in 1 .. Len(h), h[k].accept,
         NEW b, b.missing = 0,
         b.heldBreak = (IF ResetAt(setting, h, k) THEN {} ELSE BreakHeld(setting, h, k - 1)),
         NEW r, Ready(setting, h, k, x0, b, r),
         NEW p, p = PlanOf(setting, h, k)
  PROVE  DelayedTo(setting, h, k, x0, Hold(r, p))
<1> DEFINE s == setting
<1>1. PICK y : /\ Path(s, h, x0, r.out, y) /\ y.row = k - 1
               /\ ReadyAt(s, h, k, Emptied(s, h, y, k), r)
  BY DEF Ready
<1> DEFINE v == Emptied(s, h, y, k)
           N == Len(v.queue)
           q == Score(p, CutOf(r.pending), Len(r.pending) + 1, 0, TRUE)
           rec == [id |-> p.id, clock |-> p.row.at, arrived |-> p.place, d |-> p.d,
                   fresh |-> p.fresh, events |-> HeldWith(r, p), resolved |-> ~Formulas,
                   label |-> NoLabel]
           out == Hold(r, p)
<1>2. Ledger(h, y) /\ v.queue \in Seq(1 .. k - 1)
  BY <1>1, ReadyBooks
<1>3. /\ IsBuffer(r) /\ r.missing = 0
      /\ r.heldBreak = (IF ResetAt(s, h, k) THEN {} ELSE BreakHeld(s, h, k - 1))
  BY DEF Ready
<1>4. r.pending = Pending(s, h, k, v.queue) /\ r.dropped = v.dropped
  BY <1>1 DEF ReadyAt
<1> HIDE DEF v
<1>5. /\ Len(r.pending) = N /\ \A i \in 1 .. N : r.pending[i] = HeldOf(s, h, k, v.queue[i])
      /\ IsSeq(r.pending) /\ N \in Nat
  <2>1. /\ Len(Pending(s, h, k, v.queue)) = Len(v.queue)
        /\ \A i \in 1 .. Len(v.queue) : Pending(s, h, k, v.queue)[i] = HeldOf(s, h, k, v.queue[i])
        /\ IsSeq(Pending(s, h, k, v.queue))
    BY <1>2, PendingIs
  <2>2. N \in Nat
    BY <1>2
  <2> QED BY <1>4, <2>1, <2>2
<1>6. rec = HeldOf(s, h, k, k)
  <2>1. (~Frm(s) \/ Rank(s, h, k, k) <= Closed(s, h, k)) = ~Frm(s)
    BY OwnOpen DEF Legal
  <2>2. HeldWith(r, p) = EventsOf(s, h, k)
    <3>1. (IF ResetAt(s, h, k) THEN {} ELSE BreakHeld(s, h, k - 1)) \cup EventsAt(s, h, k)
            = EventsOf(s, h, k)
      BY BreakIs
    <3>2. p.events = EventsAt(s, h, k)
      BY DEF PlanOf
    <3> QED BY <1>3, <3>1, <3>2 DEF HeldWith
  <2>3. /\ p.id = k /\ p.row.at = h[k].at /\ p.place = ElapsedBy(s, h, k) /\ p.d = DAt(s, h, k)
        /\ p.fresh = FreshAt(s, h, k)
    BY DEF PlanOf
  <2>4. Formulas <=> Frm(s)
    BY DEF Formulas, Frm
  <2>5. rec = [id |-> k, clock |-> h[k].at, arrived |-> ElapsedBy(s, h, k), d |-> DAt(s, h, k),
               fresh |-> FreshAt(s, h, k), events |-> EventsOf(s, h, k),
               resolved |-> ~Frm(s), label |-> NoLabel]
    BY <2>2, <2>3, <2>4
  <2>6. HeldOf(s, h, k, k) =
              [id |-> k, clock |-> h[k].at, arrived |-> ElapsedBy(s, h, k), d |-> DAt(s, h, k),
               fresh |-> FreshAt(s, h, k), events |-> EventsOf(s, h, k),
               resolved |-> ~Frm(s), label |-> NoLabel]
    BY <2>1 DEF HeldOf, FreshOf
  <2> QED BY <2>5, <2>6
<1> HIDE DEF rec
<1>7. ScorePlan(s, h, k, v, q)
  <2>1. CutOf(r.pending) = CutBefore(s, h, v.queue)
    <3>1. CASE v.queue = <<>>
      <4>1. N = 0
        BY <3>1
      <4>2. r.pending = <<>>
        BY <1>5, <4>1 DEF IsSeq
      <4> QED BY <3>1, <4>2 DEF CutOf, CutBefore
    <3>2. CASE v.queue # <<>>
      <4>1. 1 \in 1 .. N
        BY <1>2, <3>2
      <4>2. r.pending # <<>>
        BY <1>5, <4>1
      <4>3. r.pending[1] = HeldOf(s, h, k, v.queue[1])
        BY <1>5, <4>1
      <4>4. Cut(r.pending[1]) = DAt(s, h, v.queue[1]) - FreshAt(s, h, v.queue[1])
        BY <4>3 DEF Cut, HeldOf, FreshOf
      <4> QED BY <3>2, <4>2, <4>4 DEF CutOf, CutBefore
    <3> QED BY <3>1, <3>2
  <2>2. HasLesson(s, h[k])
    BY DEF HasLesson
  <2>3. /\ q.kind = "score" /\ q.id = p.id /\ q.reset = p.reset /\ q.events = {} /\ q.d = p.d
        /\ q.fresh = p.fresh /\ q.cut = CutOf(r.pending) /\ q.held = TRUE /\ q.drop = 0
        /\ q.at = Len(r.pending) + 1
    BY DEF Score
  <2> HIDE DEF q
  <2>4. p.id = k /\ p.reset = ResetAt(s, h, k) /\ p.d = DAt(s, h, k) /\ p.fresh = FreshAt(s, h, k)
    BY DEF PlanOf
  <2>5. PutIn(s, h, v.queue, q)
    <3>1. q.at = Len(v.queue) + 1 /\ q.drop = 0 /\ q.id = k
      BY <1>5, <2>3, <2>4
    <3>2. ASSUME NEW i \in 1 .. Len(v.queue) PROVE i < q.at <=> Earlier(s, h, v.queue[i], q.id)
      <4>1. v.queue[i] \in 1 .. k - 1
        BY <1>2, ElementOfSeq
      <4>2. Earlier(s, h, v.queue[i], k)
        BY <4>1 DEF Earlier
      <4>3. i < q.at
        BY <1>5, <3>1
      <4> QED BY <3>1, <4>2, <4>3
    <3>3. ~Overflows(s, v.queue)
      BY DEF Overflows
    <3> QED BY <1>5, <3>1, <3>2, <3>3 DEF PutIn
  <2> QED BY <2>1, <2>2, <2>3, <2>4, <2>5 DEF ScorePlan
<1>8. HeldBy(s, h, k, v, q, r, out)
  <2>1. /\ r = [pending |-> r.pending, heldBreak |-> r.heldBreak, learned |-> r.learned,
                missing |-> r.missing, dropped |-> r.dropped, out |-> r.out]
    BY <1>3 DEF IsBuffer
  <2> DEFINE P == Append(r.pending, rec)
             O == Append(r.out, q)
  <2>2. out = [r EXCEPT !.pending = P, !.heldBreak = {}, !.out = O]
    BY DEF Hold, rec
  <2>3. P = Pending(s, h, k, Record(v.queue, q))
    <3>1. q.held = TRUE /\ q.drop = 0 /\ q.id = k /\ q.at = N + 1
      BY <1>5 DEF Score, PlanOf
    <3> HIDE DEF q
    <3>2. Record(v.queue, q) = InsertAt(v.queue, N + 1, k)
      BY <3>1 DEF Record
    <3> DEFINE S == 1 .. k
    <3>3. v.queue \in Seq(S) /\ k \in S /\ N + 1 \in 1 .. Len(v.queue) + 1
      <4>1. \A i \in 1 .. k - 1 : i \in S
        OBVIOUS
      <4>2. k \in S
        OBVIOUS
      <4> HIDE DEF S
      <4> QED BY <1>2, <1>5, <4>1, <4>2
    <3> HIDE DEF S
    <3>4. InsertAt(Pending(s, h, k, v.queue), N + 1, HeldOf(s, h, k, k))
            = Pending(s, h, k, InsertAt(v.queue, N + 1, k))
      BY <3>3, PendingInsert
    <3> DEFINE U == Parts(r.pending) \cup {rec}
    <3>5. Parts(r.pending) \subseteq U /\ rec \in U
      OBVIOUS
    <3> HIDE DEF U
    <3>6. r.pending \in Seq(U)
      BY <1>5, <3>5, SeqOfParts
    <3>7. InsertAt(r.pending, Len(r.pending) + 1, rec) = Append(r.pending, rec)
      BY <3>5, <3>6, AppendIs
    <3> QED BY <1>4, <1>5, <1>6, <3>2, <3>4, <3>7
  <2> HIDE DEF P, O, out
  <2>4. out = [pending |-> P, heldBreak |-> {}, learned |-> r.learned,
               missing |-> r.missing, dropped |-> r.dropped, out |-> O]
    BY <2>1, <2>2
  <2>5. /\ out.pending = P /\ out.heldBreak = {} /\ out.learned = r.learned /\ out.missing = r.missing
        /\ out.dropped = r.dropped /\ out.out = O
    BY <2>4
  <2>6. IsBuffer(out)
    BY <2>4, <2>5 DEF IsBuffer
  <2>7. q.held = TRUE /\ q.drop = 0
    BY DEF Score
  <2>8. r.dropped + One(q.drop # 0) = r.dropped
    <3>1. r.dropped \in Nat
      <4>1. Ledger(h, v)
        BY <1>1, ReadyBooks DEF v
      <4> QED BY <1>4, <4>1 DEF Ledger
    <3>2. One(q.drop # 0) = 0
      BY <2>7 DEF One
    <3>3. \A a \in Nat : a + 0 = a
      OBVIOUS
    <3>4. r.dropped + 0 = r.dropped
      BY <3>1, <3>3, Zenon
    <3> QED BY <3>2, <3>4, Zenon
  <2> QED BY <1>3, <2>3, <2>5, <2>6, <2>7, <2>8 DEF HeldBy, O
<1> HIDE DEF q, out
<1>9. DelayedTo(s, h, k, x0, out)
  <2>1. ReadyAt(s, h, k, Emptied(s, h, y, k), r)
    BY <1>1
  <2>2. ScorePlan(s, h, k, Emptied(s, h, y, k), q)
    BY <1>7 DEF v
  <2>3. HeldBy(s, h, k, Emptied(s, h, y, k), q, r, out)
    BY <1>8 DEF v
  <2>4. Path(s, h, x0, r.out, y) /\ y.row = k - 1
    BY <1>1
  <2> HIDE DEF s
  <2>5. s \in Settings /\ h \in Streams(s)
    BY DEF s
  <2> QED BY ONLY <1>2, <2>1, <2>2, <2>3, <2>4, <2>5, h[k].accept, k \in 1 .. Len(h), ScoreDelays
<1> QED BY <1>9 DEF out

\* Under a label clock a row with nothing to teach is scored and not held.
LEMMA LabelParks ==
  ASSUME setting \in Settings, NEW h \in Streams(setting), Legal(setting, h), Lab(setting),
         NEW x0, Sound(setting, h, x0), NEW k \in 1 .. Len(h), h[k].accept,
         NEW b, b.missing = Nulls(setting, h, k - 1),
         NEW r, Ready(setting, h, k, x0, b, r),
         NEW p, p = PlanOf(setting, h, k), Parks(p.row)
  PROVE  DelayedTo(setting, h, k, x0, HoldForLabel(r, p))
<1> DEFINE s == setting
<1>1. PICK y : /\ Path(s, h, x0, r.out, y) /\ y.row = k - 1
               /\ ReadyAt(s, h, k, Emptied(s, h, y, k), r)
  BY DEF Ready
<1> DEFINE v == Emptied(s, h, y, k)
           q == Score(p, <<>>, 0, 0, FALSE)
           m == r.missing + (IF p.row.label = NoLabel THEN 1 ELSE 0)
           O == Append(r.out, q)
           out == HoldForLabel(r, p)
<1>2. Ledger(h, y)
  BY <1>1, ReadyBooks
<1>3. IsBuffer(r) /\ r.missing = Nulls(s, h, k - 1) /\ r.heldBreak = {}
  BY DEF Ready
<1>4. /\ p.id = k /\ p.row = h[k] /\ p.reset = ResetAt(s, h, k) /\ p.d = DAt(s, h, k)
      /\ p.fresh = FreshAt(s, h, k)
  BY DEF PlanOf
<1> HIDE DEF v
<1>5. ~HasLesson(s, h[k])
  BY <1>4, RowIs DEF Parks, HasLesson
<1>6. /\ q.kind = "score" /\ q.id = p.id /\ q.reset = p.reset /\ q.events = {} /\ q.d = p.d
      /\ q.fresh = p.fresh /\ q.cut = <<>> /\ q.held = FALSE
  BY DEF Score
<1>7. out = [r EXCEPT !.missing = m, !.out = O]
  BY DEF HoldForLabel
<1> HIDE DEF q, out
<1>8. ScorePlan(s, h, k, v, q)
  BY <1>4, <1>5, <1>6 DEF ScorePlan, CutBefore
<1>9. m = Nulls(s, h, k)
  <2>1. Nulls(s, h, k) = Nulls(s, h, k - 1) + One(LacksLabel(h[k]))
    BY MarkNext
  <2>2. One(LacksLabel(h[k])) = (IF p.row.label = NoLabel THEN 1 ELSE 0)
    BY <1>4 DEF One, LacksLabel
  <2> QED BY <1>3, <2>1, <2>2
<1> HIDE DEF m
<1>10. HeldBy(s, h, k, v, q, r, out)
  <2>1. r = [pending |-> r.pending, heldBreak |-> r.heldBreak, learned |-> r.learned,
             missing |-> r.missing, dropped |-> r.dropped, out |-> r.out]
    BY <1>3 DEF IsBuffer
  <2> HIDE DEF O
  <2>2. out = [pending |-> r.pending, heldBreak |-> r.heldBreak, learned |-> r.learned,
               missing |-> m, dropped |-> r.dropped, out |-> O]
    BY <1>7, <2>1
  <2>3. /\ out.pending = r.pending /\ out.heldBreak = r.heldBreak /\ out.learned = r.learned
        /\ out.missing = m /\ out.dropped = r.dropped /\ out.out = O
    BY <2>2
  <2>4. IsBuffer(out)
    BY <2>2, <2>3 DEF IsBuffer
  <2> QED BY <1>3, <1>6, <1>9, <2>3, <2>4 DEF HeldBy, O
<1>11. DelayedTo(s, h, k, x0, out)
  <2>1. ReadyAt(s, h, k, Emptied(s, h, y, k), r)
    BY <1>1
  <2>2. ScorePlan(s, h, k, Emptied(s, h, y, k), q)
    BY <1>8 DEF v
  <2>3. HeldBy(s, h, k, Emptied(s, h, y, k), q, r, out)
    BY <1>10 DEF v
  <2>4. Path(s, h, x0, r.out, y) /\ y.row = k - 1
    BY <1>1
  <2> HIDE DEF s
  <2>5. s \in Settings /\ h \in Streams(s)
    BY DEF s
  <2> QED BY ONLY <1>2, <2>1, <2>2, <2>3, <2>4, <2>5, h[k].accept, k \in 1 .. Len(h), ScoreDelays
<1> QED BY <1>11 DEF out

\* One row of a buffer has the earliest clock, and comes first of those.
LEMMA OldestIs ==
  ASSUME NEW queue, Len(queue) \in Nat, DOMAIN queue = 1 .. Len(queue), Len(queue) > 0,
         \A i \in 1 .. Len(queue) : queue[i].clock \in Int
  PROVE  Oldest(queue) \in 1 .. Len(queue)
<1> DEFINE N == Len(queue)
           Best(n, i) == \A j \in 1 .. n : queue[j].clock >= queue[i].clock /\
                                           (queue[j].clock = queue[i].clock => i <= j)
           T == {n \in 0 .. N : n = 0 \/ \E i \in 1 .. n : Best(n, i)}
<1>1. 0 \in T
  OBVIOUS
<1>2. ASSUME NEW n \in 1 .. N, n - 1 \in T PROVE n \in T
  <2>1. CASE n = 1
    <3>1. Best(1, 1)
      OBVIOUS
    <3> HIDE DEF Best
    <3>2. 1 \in 1 .. n
      BY <2>1
    <3>3. \E i \in 1 .. n : Best(n, i)
      BY <2>1, <3>1, <3>2
    <3>4. n \in 0 .. N
      OBVIOUS
    <3> QED BY <3>3, <3>4
  <2>2. CASE n # 1
    <3>1. PICK i \in 1 .. n - 1 : Best(n - 1, i)
      BY <1>2, <2>2
    <3>2. queue[i].clock \in Int /\ queue[n].clock \in Int /\ \A j \in 1 .. n : queue[j].clock \in Int
      OBVIOUS
    <3>3. \A j \in 1 .. n : j = n \/ j \in 1 .. n - 1
      OBVIOUS
    <3>4. CASE queue[n].clock < queue[i].clock
      <4>1. Best(n, n)
        BY <3>1, <3>2, <3>3, <3>4
      <4> QED BY <4>1
    <3>5. CASE ~(queue[n].clock < queue[i].clock)
      <4>1. Best(n, i)
        BY <3>1, <3>2, <3>3, <3>5
      <4>2. i \in 1 .. n
        OBVIOUS
      <4> HIDE DEF Best
      <4>3. \E j \in 1 .. n : Best(n, j)
        BY <4>1, <4>2, Zenon
      <4>4. n \in 0 .. N
        OBVIOUS
      <4> QED BY <4>3, <4>4
    <3> QED BY <3>4, <3>5
  <2> QED BY <2>1, <2>2
<1> HIDE DEF T
<1>3. 0 .. N \subseteq T
  BY <1>1, <1>2, UpTo
<1>4. N \in T
  BY <1>3
<1>5. \E i \in 1 .. N : Best(N, i)
  BY <1>4 DEF T
<1>6. \E i \in DOMAIN queue : \A j \in DOMAIN queue :
        queue[j].clock >= queue[i].clock /\ (queue[j].clock = queue[i].clock => i <= j)
  BY <1>5
<1>7. Oldest(queue) \in DOMAIN queue
  BY <1>6 DEF Oldest
<1> QED BY <1>7

\* A row goes in by its label, behind those of the same.
LEMMA PlaceSorts ==
  ASSUME NEW s \in Settings, Lab(s), NEW h \in Streams(s), NEW k \in 1 .. Len(h),
         NEW q \in Seq(1 .. k - 1),
         \A j \in 1 .. Len(q) : \A i \in 1 .. j - 1 : Earlier(s, h, q[i], q[j]), NEW n
  PROVE  /\ Place(Pending(s, h, n, q), h[k].label) \in 1 .. Len(q) + 1
         /\ \A i \in 1 .. Len(q) :
              i < Place(Pending(s, h, n, q), h[k].label) <=> Earlier(s, h, q[i], k)
<1> DEFINE P == Pending(s, h, n, q)
           N == Len(q)
           label == h[k].label
           go == {i \in DOMAIN P : P[i].label <= label}
           m == FrontOf(P, go)
<1>1. /\ Len(P) = N /\ DOMAIN P = 1 .. N /\ N \in Nat
      /\ \A i \in 1 .. N : P[i].label = h[q[i]].label
  <2>1. /\ Len(Pending(s, h, n, q)) = Len(q) /\ DOMAIN Pending(s, h, n, q) = 1 .. Len(q)
        /\ \A i \in 1 .. Len(q) : Pending(s, h, n, q)[i] = HeldOf(s, h, n, q[i])
    BY PendingIs
  <2>2. N \in Nat
    OBVIOUS
  <2> QED BY <2>1, <2>2 DEF HeldOf
<1>2. Place(P, label) = m + 1
  BY DEF Place
<1> HIDE DEF P
<1>3. \A i \in 1 .. N : i \in go <=> h[q[i]].label <= label
  BY <1>1
<1> HIDE DEF go
<1>4. GoFirst(P, go, m)
  BY <1>1, FrontIs
<1>5. m \in 0 .. N /\ (\A i \in 1 .. m : i \in go) /\ (m < N => m + 1 \notin go)
  BY <1>1, <1>4 DEF GoFirst
<1> HIDE DEF m
<1>6. \A i \in 1 .. N : q[i] \in 1 .. k - 1 /\ h[q[i]].label \in Int
  <2>1. \A i \in 1 .. N : q[i] \in 1 .. k - 1
    BY ElementOfSeq
  <2>2. 1 .. k - 1 \subseteq 1 .. Len(h)
    BY DEF Streams
  <2> QED BY <2>1, <2>2, RowIs
<1>7. label \in Int /\ k \in Nat
  BY RowIs
<1>8. ASSUME NEW i \in 1 .. N PROVE i < m + 1 <=> Earlier(s, h, q[i], k)
  <2>1. q[i] < k /\ h[q[i]].label \in Int
    BY <1>6, <1>7
  <2>2. Earlier(s, h, q[i], k) <=> h[q[i]].label <= label
    BY <1>7, <2>1 DEF Earlier
  <2>3. CASE i <= m
    <3>1. i \in 1 .. m
      BY <1>1, <1>5, <2>3
    <3>2. i \in go
      BY <1>5, <3>1
    <3> QED BY <1>1, <1>3, <1>5, <2>2, <2>3, <3>2
  <2>4. CASE i = m + 1
    <3>1. i \notin go
      BY <1>1, <1>5, <2>4
    <3>2. ~(h[q[i]].label <= label)
      BY <1>3, <3>1
    <3> QED BY <1>5, <2>2, <2>4, <3>2
  <2>5. CASE i > m + 1
    <3>1. m + 1 \in 1 .. N /\ m + 1 \in 1 .. i - 1
      BY <1>1, <1>5, <2>5
    <3>2. ~(h[q[m + 1]].label <= label)
      BY <1>1, <1>3, <1>5, <3>1
    <3>3. Earlier(s, h, q[m + 1], q[i])
      BY <3>1
    <3>4. h[q[m + 1]].label <= h[q[i]].label
      <4>1. h[q[m + 1]].label \in Int /\ h[q[i]].label \in Int
        BY <1>6, <3>1
      <4> QED BY <3>3, <4>1 DEF Earlier
    <3>5. ~(h[q[i]].label <= label)
      <4>1. h[q[m + 1]].label \in Int /\ h[q[i]].label \in Int
        BY <1>6, <3>1
      <4> QED BY ONLY <1>7, <3>2, <3>4, <4>1
    <3> QED BY <1>5, <2>2, <2>5, <3>5
  <2> QED BY <1>5, <2>3, <2>4, <2>5
<1>9. m + 1 \in 1 .. N + 1
  BY <1>1, <1>5
<1> QED BY <1>2, <1>8, <1>9 DEF P
=============================================================================
