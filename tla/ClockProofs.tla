----------------------------- MODULE ClockProofs -----------------------------
(***************************************************************************)
(* Proofs about Clock, for every setting, every chunk and every number of  *)
(* rows: what the model decays by, what the stamps say and what the lag    *)
(* buffers are dropped for are one clock.                                  *)
(***************************************************************************)
EXTENDS Clock, TLAPS

\* The types of the clock, of a row and of the settings, field by field.
LEMMA Fields ==
  ASSUME TypeOK, NEW r \in ClockRows
  PROVE  /\ cfg.column \in BOOLEAN /\ cfg.cap \in Nat /\ cfg.cap > 0
         /\ cfg.minBack \in Nat /\ cfg.gapBy \in Nat
         /\ clock.started \in BOOLEAN /\ clock.prev \in Int /\ clock.session \in Nat
         /\ clock.pending \in Nat /\ clock.skippedElapsed \in Nat
         /\ clock.exact.removed \in Int /\ clock.exact.elapsedRemoved \in Int
         /\ clock.exact.rows \in Nat /\ clock.exact.ns \in Nat
         /\ clock.exact.skippedNs \in Nat /\ clock.exact.elapsedNs \in Nat
         /\ r.at \in Int /\ r.session \in Nat /\ r.accept \in BOOLEAN
<1>1. cfg \in [column : BOOLEAN, cap : Nat \ {0}, policy : {"error", "reset_state"},
               minBack : Nat, gap : {"none", "reset", "gap"}, gapBy : Nat]
  BY ClockAssumption DEF TypeOK
<1>2. r.at \in Int /\ r.session \in Nat /\ r.accept \in BOOLEAN
  <2>1. \A v \in Values : v \in Int
    BY ClockAssumption
  <2>2. \A s \in Sessions \cup {NoSession} : s \in Nat
    BY ClockAssumption DEF NoSession
  <2> QED
    BY <2>1, <2>2 DEF ClockRows
<1>3. clock.exact \in [removed : Int, elapsedRemoved : Int, rows : Nat,
                       ns : Nat, skippedNs : Nat, elapsedNs : Nat]
  BY DEF TypeOK
<1>4. /\ clock.started \in BOOLEAN /\ clock.prev \in Int /\ clock.session \in Nat
      /\ clock.pending \in Nat /\ clock.skippedElapsed \in Nat
  BY DEF TypeOK
<1> QED
  BY <1>1, <1>2, <1>3, <1>4

\* A row's step and its time are natural numbers, the step at most the cap,
\* and both the whole forward step where nothing is capped.
LEMMA Steps ==
  ASSUME TypeOK, NEW r \in ClockRows
  PROVE  /\ Raw(clock, r) \in Int
         /\ Step(clock, r) \in Nat /\ Step(clock, r) <= cfg.cap
         /\ Elapsed(clock, r) \in Nat
         /\ ~Changed(clock, r) => Step(clock, r) <= Elapsed(clock, r)
         /\ ~Changed(clock, r) /\ ~OwnCap(clock, r) => Step(clock, r) = Elapsed(clock, r)
         /\ ~Changed(clock, r) /\ OwnCap(clock, r) => Elapsed(clock, r) > cfg.cap
         /\ ~clock.started => Step(clock, r) = 0 /\ Elapsed(clock, r) = 0
         /\ Resets(clock, r) =>
              clock.started /\ Step(clock, r) = 0 /\ Elapsed(clock, r) = 0
<1>1. Raw(clock, r) \in Int
  BY Fields DEF Raw
<1> QED
  BY <1>1, Fields
  DEF Step, Elapsed, OwnCap, Changed, Resets, StepsBack, Clamped, Least

\* The short cuts take a row as the general step takes it: step_forward and
\* ns_forward against step_any (clock.rs), here for every state and row.
THEOREM ShortCutsAreSteps ==
  ASSUME TypeOK, NEW r \in ClockRows, ForwardTakes(clock, r)
  PROVE  Forward(clock, r) = StepAny(clock, r)
<1> DEFINE raw == r.at - clock.prev
           d   == IF raw > cfg.cap THEN cfg.cap ELSE raw
           total == clock.pending + d
           over  == IF total > cfg.cap THEN total - cfg.cap ELSE 0
           e == [removed        |-> clock.exact.removed + (raw - d) + over,
                 elapsedRemoved |-> clock.exact.elapsedRemoved,
                 rows           |-> clock.exact.rows + 1,
                 ns             |-> Folded(clock.exact, clock.exact.skippedNs + d),
                 skippedNs      |-> 0,
                 elapsedNs      |-> clock.exact.elapsedNs + raw]
<1>1. /\ clock.started /\ ~Changed(clock, r) /\ ~Resets(clock, r) /\ ~StepsBack(clock, r)
      /\ Raw(clock, r) = raw /\ raw \in Nat /\ r.accept /\ cfg.column
  BY Fields DEF ForwardTakes, Raw, Changed, Resets, StepsBack
<1>2. /\ Step(clock, r) = d /\ d \in Nat
      /\ Elapsed(clock, r) = raw /\ (OwnCap(clock, r) <=> raw > cfg.cap)
  BY <1>1, Fields DEF Step, Elapsed, OwnCap, Clamped, Least
<1>3. ExactStep(clock, r) = e
  <2>1. clock.exact.elapsedRemoved + (raw - raw) = clock.exact.elapsedRemoved
    BY <1>1, Fields
  <2>2. ExactStep(clock, r) =
          [removed        |-> clock.exact.removed + (Raw(clock, r) - Step(clock, r))
                                + (IF clock.pending + Step(clock, r) > cfg.cap
                                   THEN clock.pending + Step(clock, r) - cfg.cap ELSE 0),
           elapsedRemoved |-> clock.exact.elapsedRemoved
                                + (Raw(clock, r) - Elapsed(clock, r)),
           rows           |-> clock.exact.rows + 1,
           ns             |-> Folded(clock.exact, clock.exact.skippedNs + Step(clock, r)),
           skippedNs      |-> 0,
           elapsedNs      |-> clock.exact.elapsedNs + Elapsed(clock, r)]
    BY <1>1, Fields DEF ExactStep
  <2> HIDE DEF d, raw
  <2> QED
    BY <1>1, <1>2, <2>1, <2>2, Fields
<1> HIDE DEF e
<1>4. StepAny(clock, r).clock = Forward(clock, r).clock
  BY <1>1, <1>2, <1>3 DEF StepAny, Forward, ForwardTotal, e
<1>5. /\ (OwnCap(clock, r) \/ (r.accept /\ total > cfg.cap)) = (raw > cfg.cap \/ over > 0)
      /\ (StepsBack(clock, r) /\ RefusedBack(Raw(clock, r))) = FALSE
      /\ Resets(clock, r) = FALSE /\ Changed(clock, r) = FALSE /\ r.accept = TRUE
  BY <1>1, <1>2, Fields DEF Changed, Resets
<1>6. /\ (IF Resets(clock, r) THEN 0 ELSE clock.pending) + Step(clock, r) = total
      /\ (IF Resets(clock, r) THEN 0 ELSE clock.skippedElapsed) + Elapsed(clock, r)
           = clock.skippedElapsed + raw
  BY <1>1, <1>2
<1>7. Forward(clock, r).adv =
        [accepted |-> TRUE, reset |-> FALSE, refused |-> FALSE, changed |-> FALSE,
         capped |-> raw > cfg.cap \/ over > 0, dClock |-> Seen(total),
         elapsed |-> clock.skippedElapsed + raw, stamp |-> StampOf(r, e)]
  BY DEF Forward, ForwardTotal, e
<1>8. StepAny(clock, r).adv =
        [accepted |-> TRUE, reset |-> FALSE, refused |-> FALSE, changed |-> FALSE,
         capped |-> raw > cfg.cap \/ over > 0, dClock |-> Seen(total),
         elapsed |-> clock.skippedElapsed + raw, stamp |-> StampOf(r, e)]
  <2> HIDE DEF raw, over, total
  <2> QED
    BY <1>3, <1>5, <1>6 DEF StepAny
<1> QED
  BY <1>4, <1>7, <1>8 DEF Forward, StepAny

\* So a row is taken as step_any takes it, whichever way it goes.
LEMMA AdvanceIsStep ==
  ASSUME TypeOK, NEW r \in ClockRows
  PROVE  Advance(clock, r) = StepAny(clock, r)
BY ShortCutsAreSteps DEF Advance

-----------------------------------------------------------------------------
\* What a row's step makes of each variable, field by field.
Fresh(r)   == ~clock.started \/ Resets(clock, r)
Carried(r) == IF Resets(clock, r) THEN 0 ELSE clock.pending
Waited(r)  == IF Resets(clock, r) THEN 0 ELSE clock.skippedElapsed
Total(r)   == Carried(r) + Step(clock, r)
Since(r)   == IF Fresh(r) \/ adv.accepted THEN [changed |-> FALSE, dropped |-> FALSE]
              ELSE gap

\* The row, and the clock it leaves.
LEMMA RowClock ==
  ASSUME TypeOK, Row
  PROVE  LET r == Head(todo) IN
         /\ r \in ClockRows /\ todo # <<>> /\ todo' = Tail(todo) /\ cfg' = cfg
         /\ rowsFed' = rowsFed
         /\ clock' = [started |-> TRUE, prev |-> r.at, session |-> r.session,
                      pending |-> IF r.accept THEN 0 ELSE Total(r),
                      skippedElapsed |-> IF r.accept THEN 0
                                         ELSE Waited(r) + Elapsed(clock, r),
                      exact |-> ExactStep(clock, r)]
<1>1. todo # <<>> /\ todo \in Seq(ClockRows)
  BY DEF Row, TypeOK
<1>2. Head(todo) \in ClockRows
  BY <1>1
<1>3. clock' = StepAny(clock, Head(todo)).clock
  BY <1>2, AdvanceIsStep DEF Row
<1> QED
  BY <1>1, <1>2, <1>3 DEF Row, StepAny, Total, Carried, Waited

\* What its caller gets.
LEMMA RowAdvance ==
  ASSUME TypeOK, Row
  PROVE  LET r == Head(todo) IN
         /\ adv' = StepAny(clock, r).adv
         /\ adv'.accepted = r.accept
         /\ adv'.reset = Resets(clock, r)
         /\ adv'.refused = (StepsBack(clock, r) /\ RefusedBack(Raw(clock, r)))
         /\ adv'.changed = Changed(clock, r)
         /\ adv'.capped = (OwnCap(clock, r) \/ (r.accept /\ Total(r) > cfg.cap))
         /\ adv'.dClock = IF r.accept THEN Seen(Total(r)) ELSE 0
         /\ adv'.elapsed = IF r.accept THEN Waited(r) + Elapsed(clock, r) ELSE 0
         /\ adv'.stamp = IF r.accept THEN StampOf(r, ExactStep(clock, r)) ELSE NoStamp
<1>1. adv' = StepAny(clock, Head(todo)).adv
  BY RowClock, AdvanceIsStep DEF Row
<1> QED
  BY <1>1 DEF StepAny, Total, Carried, Waited

\* What the histories record of it.
LEMMA RowHistory ==
  ASSUME TypeOK, Row
  PROVE  LET r == Head(todo) IN
         /\ base' = IF ~Fresh(r) THEN base ELSE IF cfg.column THEN r.at ELSE 0
         /\ last' = IF r.accept THEN <<adv'.stamp>> ELSE IF Fresh(r) THEN <<>> ELSE last
         /\ gap' = IF Fresh(r) THEN Since(r)
                   ELSE [changed |-> Since(r).changed \/ adv'.changed,
                         dropped |-> Since(r).dropped \/ adv'.changed \/ adv'.capped]
<1>1. /\ Head(todo) \in ClockRows
      /\ Advance(clock, Head(todo)) = StepAny(clock, Head(todo))
      /\ adv' = StepAny(clock, Head(todo)).adv
      /\ adv'.reset = Resets(clock, Head(todo))
  BY RowClock, RowAdvance, AdvanceIsStep
<1> QED
  BY <1>1 DEF Row, Fresh, Since, Dropped

\* Where the clock starts: nothing counted, nothing removed, nothing waiting.
LEMMA FreshRow ==
  ASSUME Inv, NEW r \in ClockRows, Fresh(r)
  PROVE  /\ ExactStep(clock, r) = [NoExact EXCEPT !.rows = 1]
         /\ Total(r) = 0 /\ Waited(r) = 0
         /\ Step(clock, r) = 0 /\ Elapsed(clock, r) = 0
<1>1. TypeOK /\ FreshClock
  BY DEF Inv
<1>2. Step(clock, r) = 0 /\ Elapsed(clock, r) = 0
  BY <1>1, Steps DEF Fresh
<1>3. ~clock.started => clock.exact = NoExact /\ clock.pending = 0 /\ clock.skippedElapsed = 0
  BY <1>1 DEF FreshClock, New
<1>4. Carried(r) = 0 /\ Waited(r) = 0 /\ Total(r) = 0
  BY <1>2, <1>3 DEF Carried, Waited, Total, Fresh
<1>5. (IF Resets(clock, r) THEN NoExact ELSE clock.exact) = NoExact
  BY <1>3 DEF Fresh
<1>6. /\ cfg.cap \in Nat /\ cfg.cap > 0 /\ r.accept \in BOOLEAN
      /\ NoExact.ns = 0 /\ NoExact.skippedNs = 0 /\ NoExact.removed = 0
      /\ NoExact.elapsedRemoved = 0 /\ NoExact.rows = 0 /\ NoExact.elapsedNs = 0
  BY <1>1, Fields DEF NoExact
<1>7. ExactStep(clock, r) =
        [removed |-> 0, elapsedRemoved |-> 0, rows |-> 1,
         ns |-> 0, skippedNs |-> 0, elapsedNs |-> 0]
  <2>1. Folded(NoExact, 0) = 0
    BY <1>6 DEF Folded, Least
  <2>2. (IF Resets(clock, r) THEN 0 ELSE clock.pending) = 0
    BY <1>4 DEF Carried
  <2>3. (IF clock.started /\ ~Resets(clock, r) THEN Raw(clock, r) ELSE 0) = 0
    BY DEF Fresh
  <2> QED
    BY <1>2, <1>5, <1>6, <2>1, <2>2, <2>3 DEF ExactStep
<1> QED
  BY <1>2, <1>4, <1>7 DEF NoExact

\* Where it goes on: what is taken off the raw value is the step less what
\* the model sees of it, and what a fold loses to the cap.
LEMMA MovedRow ==
  ASSUME TypeOK, NEW r \in ClockRows, ~Fresh(r)
  PROVE  LET e == ExactStep(clock, r)
             d == Step(clock, r)
             over == IF clock.pending + d > cfg.cap THEN clock.pending + d - cfg.cap ELSE 0
         IN  /\ e.removed = clock.exact.removed + (Raw(clock, r) - d)
                               + (IF r.accept THEN over ELSE 0)
             /\ e.elapsedRemoved = clock.exact.elapsedRemoved
                                     + (Raw(clock, r) - Elapsed(clock, r))
             /\ e.rows = clock.exact.rows + 1
             /\ e.ns = IF r.accept THEN clock.exact.ns + Seen(clock.exact.skippedNs + d)
                       ELSE clock.exact.ns
             /\ e.skippedNs = IF r.accept THEN 0 ELSE clock.exact.skippedNs + d
             /\ e.elapsedNs = clock.exact.elapsedNs + Elapsed(clock, r)
             /\ Total(r) = clock.pending + d /\ Waited(r) = clock.skippedElapsed
             /\ Carried(r) = clock.pending
<1>1. ~Resets(clock, r) /\ clock.started
  BY DEF Fresh
<1>2. /\ (IF clock.started /\ ~Resets(clock, r) THEN Raw(clock, r) ELSE 0) = Raw(clock, r)
      /\ (IF Resets(clock, r) THEN NoExact ELSE clock.exact) = clock.exact
      /\ (IF Resets(clock, r) THEN 0 ELSE clock.pending) = clock.pending
  BY <1>1
<1>3. Total(r) = clock.pending + Step(clock, r) /\ Waited(r) = clock.skippedElapsed
        /\ Carried(r) = clock.pending
  BY <1>1 DEF Total, Carried, Waited
<1>4. r.accept \in BOOLEAN
  BY Fields
<1>5. ExactStep(clock, r) =
        [removed |-> clock.exact.removed + (Raw(clock, r) - Step(clock, r))
                       + (IF r.accept /\ clock.pending + Step(clock, r) > cfg.cap
                          THEN clock.pending + Step(clock, r) - cfg.cap ELSE 0),
         elapsedRemoved |-> clock.exact.elapsedRemoved
                              + (Raw(clock, r) - Elapsed(clock, r)),
         rows |-> clock.exact.rows + 1,
         ns |-> IF r.accept THEN Folded(clock.exact, clock.exact.skippedNs + Step(clock, r))
                ELSE clock.exact.ns,
         skippedNs |-> IF r.accept THEN 0 ELSE clock.exact.skippedNs + Step(clock, r),
         elapsedNs |-> clock.exact.elapsedNs + Elapsed(clock, r)]
  BY <1>2 DEF ExactStep
<1>6. Folded(clock.exact, clock.exact.skippedNs + Step(clock, r))
        = clock.exact.ns + Seen(clock.exact.skippedNs + Step(clock, r))
  BY DEF Folded, Seen
<1> QED
  BY <1>3, <1>4, <1>5, <1>6

\* The ceiling lowers a total to at most the cap.
LEMMA SeenBounds ==
  ASSUME TypeOK, NEW x \in Nat
  PROVE  Seen(x) \in Nat /\ Seen(x) <= x /\ Seen(x) <= cfg.cap
BY ClockAssumption DEF Seen, Least, TypeOK

\* The place of the row after a step, which its raw value moves.
LEMMA RowPlace ==
  ASSUME Inv, Row
  PROVE  LET r == Head(todo) IN
         /\ Place' \in Int
         /\ Place' = IF cfg.column THEN r.at ELSE ExactStep(clock, r).rows - 1
         /\ ~Fresh(r) => Place' = Place + Raw(clock, r)
         /\ Fresh(r) => Place' = base'
<1> DEFINE r == Head(todo)
<1>1. TypeOK /\ r \in ClockRows
  BY RowClock DEF Inv
<1>2. cfg' = cfg /\ clock'.prev = r.at /\ clock'.exact = ExactStep(clock, r)
  BY <1>1, RowClock
<1>3. Place' = IF cfg.column THEN r.at ELSE ExactStep(clock, r).rows - 1
  BY <1>2 DEF Place
<1>4. r.at \in Int /\ clock.prev \in Int /\ clock.exact.rows \in Nat
  BY <1>1, Fields
<1>5. CASE Fresh(r)
  <2>1. ExactStep(clock, r).rows = 1
    BY <1>1, <1>5, FreshRow DEF NoExact
  <2>2. base' = IF cfg.column THEN r.at ELSE 0
    BY <1>1, <1>5, RowHistory
  <2> QED
    BY <1>3, <1>4, <1>5, <2>1, <2>2
<1>6. CASE ~Fresh(r)
  <2>1. ExactStep(clock, r).rows = clock.exact.rows + 1
    BY <1>1, <1>6, MovedRow
  <2>2. Place = IF cfg.column THEN clock.prev ELSE clock.exact.rows - 1
    BY DEF Place
  <2>3. Raw(clock, r) = IF cfg.column THEN r.at - clock.prev ELSE 1
    BY DEF Raw
  <2> QED
    BY <1>3, <1>4, <1>6, <2>1, <2>2, <2>3
<1> QED
  BY <1>5, <1>6

\* The stamps of an accepted row.
LEMMA RowStamp ==
  ASSUME Inv, Row, Head(todo).accept
  PROVE  /\ adv'.stamp.raw = Place' - clock'.exact.removed
         /\ adv'.stamp.elapsedRaw = Place' - clock'.exact.elapsedRemoved
         /\ adv'.stamp.ns = clock'.exact.ns
         /\ adv'.stamp.elapsedNs = clock'.exact.elapsedNs
         /\ adv'.stamp = [raw |-> adv'.stamp.raw, ns |-> adv'.stamp.ns,
                          elapsedRaw |-> adv'.stamp.elapsedRaw,
                          elapsedNs |-> adv'.stamp.elapsedNs]
<1>1. TypeOK /\ clock'.exact = ExactStep(clock, Head(todo))
  BY RowClock DEF Inv
<1>2. adv'.stamp = StampOf(Head(todo), ExactStep(clock, Head(todo)))
  BY <1>1, RowAdvance
<1>3. Place' = IF cfg.column THEN Head(todo).at ELSE ExactStep(clock, Head(todo)).rows - 1
  BY RowPlace
<1> QED
  BY <1>1, <1>2, <1>3 DEF StampOf

\* The integers a row leaves are of their types.
LEMMA RowNumbers ==
  ASSUME Inv, Row
  PROVE  /\ clock'.exact \in [removed : Int, elapsedRemoved : Int, rows : Nat,
                              ns : Nat, skippedNs : Nat, elapsedNs : Nat]
         /\ clock'.pending \in Nat /\ clock'.skippedElapsed \in Nat
         /\ adv'.dClock \in Nat /\ adv'.elapsed \in Nat
         /\ base' \in Int
<1> DEFINE r == Head(todo)
<1>1. TypeOK /\ r \in ClockRows
  BY RowClock DEF Inv
<1>2. /\ Step(clock, r) \in Nat /\ Elapsed(clock, r) \in Nat /\ Raw(clock, r) \in Int
      /\ r.accept \in BOOLEAN /\ r.at \in Int /\ cfg.cap \in Nat
  BY <1>1, Steps, Fields
<1>3. Total(r) \in Nat /\ Waited(r) \in Nat
  BY <1>1, <1>2, Fields DEF Total, Carried, Waited
<1>4. /\ clock'.pending = IF r.accept THEN 0 ELSE Total(r)
      /\ clock'.skippedElapsed = IF r.accept THEN 0 ELSE Waited(r) + Elapsed(clock, r)
      /\ clock'.exact = ExactStep(clock, r)
  BY <1>1, RowClock
<1>5. clock'.pending \in Nat /\ clock'.skippedElapsed \in Nat
  BY <1>2, <1>3, <1>4
<1>6. adv'.dClock \in Nat /\ adv'.elapsed \in Nat
  <2>1. Seen(Total(r)) \in Nat
    BY <1>1, <1>3, SeenBounds
  <2>2. /\ adv'.dClock = IF r.accept THEN Seen(Total(r)) ELSE 0
        /\ adv'.elapsed = IF r.accept THEN Waited(r) + Elapsed(clock, r) ELSE 0
    BY <1>1, RowAdvance
  <2> QED
    BY <1>2, <1>3, <2>1, <2>2
<1>7. base' \in Int
  <2>1. base' = IF ~Fresh(r) THEN base ELSE IF cfg.column THEN r.at ELSE 0
    BY <1>1, RowHistory
  <2>2. base \in Int
    BY <1>1 DEF TypeOK
  <2> QED
    BY <1>2, <2>1, <2>2
<1>8. ExactStep(clock, r) \in [removed : Int, elapsedRemoved : Int, rows : Nat,
                               ns : Nat, skippedNs : Nat, elapsedNs : Nat]
  <2> DEFINE e == ExactStep(clock, r)
  <2>1. e = [removed |-> e.removed, elapsedRemoved |-> e.elapsedRemoved, rows |-> e.rows,
             ns |-> e.ns, skippedNs |-> e.skippedNs, elapsedNs |-> e.elapsedNs]
    BY DEF ExactStep
  <2>2. /\ e.removed \in Int /\ e.elapsedRemoved \in Int /\ e.rows \in Nat
        /\ e.ns \in Nat /\ e.skippedNs \in Nat /\ e.elapsedNs \in Nat
    <3>1. CASE Fresh(r)
      BY <1>1, <3>1, FreshRow DEF NoExact
    <3>2. CASE ~Fresh(r)
      <4>1. Seen(clock.exact.skippedNs + Step(clock, r)) \in Nat
        BY <1>1, <1>2, Fields, SeenBounds
      <4> HIDE DEF e
      <4>2. /\ e.rows = clock.exact.rows + 1
            /\ e.ns = IF r.accept THEN clock.exact.ns
                                       + Seen(clock.exact.skippedNs + Step(clock, r))
                      ELSE clock.exact.ns
            /\ e.skippedNs = IF r.accept THEN 0 ELSE clock.exact.skippedNs + Step(clock, r)
            /\ e.elapsedNs = clock.exact.elapsedNs + Elapsed(clock, r)
            /\ e.elapsedRemoved = clock.exact.elapsedRemoved
                                   + (Raw(clock, r) - Elapsed(clock, r))
        BY <1>1, <3>2, MovedRow DEF e
      <4>3. e.removed \in Int
        BY <1>1, <1>2, <3>2, MovedRow, Fields DEF e
      <4> QED
        BY <1>1, <1>2, <4>1, <4>2, <4>3, Fields
    <3> QED
      BY <3>1, <3>2
  <2> HIDE DEF e
  <2>3. e \in [removed : Int, elapsedRemoved : Int, rows : Nat,
                ns : Nat, skippedNs : Nat, elapsedNs : Nat]
    BY <2>1, <2>2
  <2> QED
    BY <2>3 DEF e
<1> QED
  BY <1>4, <1>5, <1>6, <1>7, <1>8

\* The two forms stay one clock.
LEMMA RowForms ==
  ASSUME Inv, Row
  PROVE  /\ TwoForms' /\ FormsAgree'
         /\ Place' - clock'.exact.removed
              = base' + clock'.exact.ns + clock'.exact.skippedNs
<1> DEFINE r == Head(todo)
           e == clock'.exact
<1>1. TypeOK /\ r \in ClockRows /\ e = ExactStep(clock, r) /\ clock'.started
  BY RowClock DEF Inv
<1>2. /\ e.removed \in Int /\ e.elapsedRemoved \in Int /\ e.ns \in Nat
      /\ e.skippedNs \in Nat /\ e.elapsedNs \in Nat /\ base' \in Int /\ Place' \in Int
  BY RowNumbers, RowPlace
<1>3. /\ Step(clock, r) \in Nat /\ Elapsed(clock, r) \in Nat /\ Raw(clock, r) \in Int
      /\ r.accept \in BOOLEAN
  BY <1>1, Steps, Fields
<1>4. /\ Place' - e.removed = base' + e.ns + e.skippedNs
      /\ Place' - e.elapsedRemoved = base' + e.elapsedNs
      /\ clock'.pending = e.skippedNs
  <2>1. clock'.pending = IF r.accept THEN 0 ELSE Total(r)
    BY <1>1, RowClock
  <2>2. CASE Fresh(r)
    <3>1. /\ e.removed = 0 /\ e.elapsedRemoved = 0 /\ e.ns = 0 /\ e.skippedNs = 0
          /\ e.elapsedNs = 0 /\ Total(r) = 0
      BY <1>1, <2>2, FreshRow DEF NoExact
    <3>2. Place' = base'
      BY <2>2, RowPlace
    <3> QED
      BY <1>2, <1>3, <2>1, <3>1, <3>2
  <2>3. CASE ~Fresh(r)
    <3>1. clock.started /\ base' = base
      BY <1>1, <2>3, RowHistory DEF Fresh
    <3>2. /\ Place - clock.exact.removed = base + clock.exact.ns + clock.exact.skippedNs
          /\ Place - clock.exact.elapsedRemoved = base + clock.exact.elapsedNs
          /\ clock.pending = clock.exact.skippedNs
      BY <3>1 DEF Inv, TwoForms
    <3>3. Place' = Place + Raw(clock, r) /\ Place \in Int
      BY <1>1, <2>3, RowPlace, Fields DEF Place
    <3>4. /\ e.elapsedRemoved = clock.exact.elapsedRemoved
                                 + (Raw(clock, r) - Elapsed(clock, r))
          /\ e.elapsedNs = clock.exact.elapsedNs + Elapsed(clock, r)
          /\ e.skippedNs = IF r.accept THEN 0 ELSE clock.exact.skippedNs + Step(clock, r)
          /\ e.ns = IF r.accept THEN clock.exact.ns
                                     + Seen(clock.exact.skippedNs + Step(clock, r))
                    ELSE clock.exact.ns
          /\ Total(r) = clock.pending + Step(clock, r)
      BY <1>1, <2>3, MovedRow
    <3>5. e.removed = clock.exact.removed + (Raw(clock, r) - Step(clock, r))
                        + (IF r.accept
                           THEN IF clock.pending + Step(clock, r) > cfg.cap
                                THEN clock.pending + Step(clock, r) - cfg.cap ELSE 0
                           ELSE 0)
      BY <1>1, <2>3, MovedRow
    <3>6. Seen(clock.exact.skippedNs + Step(clock, r))
            = IF clock.pending + Step(clock, r) > cfg.cap THEN cfg.cap
              ELSE clock.exact.skippedNs + Step(clock, r)
      BY <1>1, <1>3, <3>2, Fields DEF Seen, Least
    <3>7. /\ clock.exact.removed \in Int /\ clock.exact.elapsedRemoved \in Int
          /\ clock.exact.ns \in Nat /\ clock.exact.skippedNs \in Nat
          /\ clock.exact.elapsedNs \in Nat /\ clock.pending \in Nat /\ cfg.cap \in Nat
          /\ base \in Int
      BY <1>1, Fields DEF TypeOK
    <3>8. clock'.pending = e.skippedNs
      BY <1>3, <2>1, <3>2, <3>4
    <3>9. Place' - e.elapsedRemoved = base' + e.elapsedNs
      <4>1. /\ e.elapsedRemoved = clock.exact.elapsedRemoved
                                   + (Raw(clock, r) - Elapsed(clock, r))
            /\ e.elapsedNs = clock.exact.elapsedNs + Elapsed(clock, r)
        BY <3>4
      <4>2. Place' - e.elapsedRemoved
              = (Place + Raw(clock, r))
                - (clock.exact.elapsedRemoved + (Raw(clock, r) - Elapsed(clock, r)))
        BY <3>3, <4>1
      <4>3. @ = (Place - clock.exact.elapsedRemoved) + Elapsed(clock, r)
        BY <1>3, <3>3, <3>7
      <4>4. @ = base + clock.exact.elapsedNs + Elapsed(clock, r)
        BY <3>2
      <4> QED
        BY <1>3, <3>1, <3>7, <4>1, <4>2, <4>3, <4>4
    <3>10. Place' - e.removed = base' + e.ns + e.skippedNs
      <4>1. CASE r.accept
        BY <1>3, <4>1, <3>1, <3>2, <3>3, <3>4, <3>5, <3>6, <3>7
      <4>2. CASE ~r.accept
        BY <1>3, <4>2, <3>1, <3>2, <3>3, <3>4, <3>5, <3>7
      <4> QED
        BY <4>1, <4>2
    <3> QED
      BY <3>8, <3>9, <3>10
  <2> QED
    BY <2>2, <2>3
<1>5. TwoForms'
  BY <1>1, <1>4 DEF TwoForms
<1>6. FormsAgree'
  <2> SUFFICES ASSUME adv'.accepted
               PROVE  /\ adv'.stamp.raw = base' + adv'.stamp.ns
                      /\ adv'.stamp.elapsedRaw = base' + adv'.stamp.elapsedNs
    BY DEF FormsAgree
  <2>1. r.accept
    BY <1>1, RowAdvance
  <2>2. e.skippedNs = 0
    <3>1. CASE Fresh(r)
      BY <1>1, <3>1, FreshRow DEF NoExact
    <3>2. CASE ~Fresh(r)
      BY <1>1, <2>1, <3>2, MovedRow
    <3> QED
      BY <3>1, <3>2
  <2>3. /\ adv'.stamp.raw = Place' - e.removed
        /\ adv'.stamp.elapsedRaw = Place' - e.elapsedRemoved
        /\ adv'.stamp.ns = e.ns /\ adv'.stamp.elapsedNs = e.elapsedNs
    BY <2>1, RowStamp
  <2> HIDE DEF e
  <2> QED
    BY <1>2, <1>4, <2>2, <2>3
<1> QED
  BY <1>4, <1>5, <1>6

\* The stamps of the last accepted row stay the clock's, whatever is skipped.
LEMMA RowLast == ASSUME Inv, Row PROVE LastStamps'
<1> DEFINE r == Head(todo)
           e == clock'.exact
<1>1. TypeOK /\ r \in ClockRows /\ e = ExactStep(clock, r) /\ clock'.started
  BY RowClock DEF Inv
<1>2. clock'.skippedElapsed = IF r.accept THEN 0 ELSE Waited(r) + Elapsed(clock, r)
  BY <1>1, RowClock
<1>3. last' = IF r.accept THEN <<adv'.stamp>> ELSE IF Fresh(r) THEN <<>> ELSE last
  BY <1>1, RowHistory
<1>4. CASE r.accept
  <2>1. last'[1] = adv'.stamp /\ clock'.skippedElapsed = 0
    BY <1>2, <1>3, <1>4
  <2>2. /\ adv'.stamp.ns = e.ns /\ adv'.stamp.elapsedNs = e.elapsedNs
    BY <1>4, RowStamp
  <2>3. adv'.stamp.raw = base' + adv'.stamp.ns
          /\ adv'.stamp.elapsedRaw = base' + adv'.stamp.elapsedNs
    <3>1. adv'.accepted
      BY <1>1, <1>4, RowAdvance
    <3> QED
      BY <3>1, RowForms DEF FormsAgree
  <2>4. e.elapsedNs = e.elapsedNs - 0
    BY RowNumbers
  <2> QED
    BY <1>1, <2>1, <2>2, <2>3, <2>4 DEF LastStamps
<1>5. CASE ~r.accept /\ Fresh(r)
  BY <1>3, <1>5 DEF LastStamps
<1>6. CASE ~r.accept /\ ~Fresh(r)
  <2> SUFFICES ASSUME last # <<>> PROVE LastStamps'
    BY <1>3, <1>6 DEF LastStamps
  <2>1. /\ last' = last /\ base' = base /\ e.ns = clock.exact.ns
        /\ e.elapsedNs = clock.exact.elapsedNs + Elapsed(clock, r)
        /\ clock'.skippedElapsed = clock.skippedElapsed + Elapsed(clock, r)
    BY <1>1, <1>2, <1>3, <1>6, MovedRow, RowHistory
  <2>2. /\ last[1].ns = clock.exact.ns /\ last[1].raw = base + clock.exact.ns
        /\ last[1].elapsedNs = clock.exact.elapsedNs - clock.skippedElapsed
        /\ last[1].elapsedRaw = base + last[1].elapsedNs
    BY DEF Inv, LastStamps
  <2>3. last[1].elapsedNs = e.elapsedNs - clock'.skippedElapsed
    BY <1>1, <2>1, <2>2, Steps, Fields
  <2> QED
    BY <1>1, <2>1, <2>2, <2>3 DEF LastStamps
<1>7. r.accept \in BOOLEAN
  BY <1>1, Fields
<1> QED
  BY <1>4, <1>5, <1>6, <1>7

\* What waits, and what a model gets of it: at most the cap, at most the time
\* that passed, and more time than the cap exactly where the lags were dropped.
LEMMA RowWaits == ASSUME Inv, Row PROVE Waiting' /\ StepWithinCap' /\ DroppedAcrossGap'
<1> DEFINE r == Head(todo)
           d == Step(clock, r)
           t == Elapsed(clock, r)
<1>1. TypeOK /\ r \in ClockRows /\ cfg' = cfg
  BY RowClock DEF Inv
<1>2. /\ clock'.pending = IF r.accept THEN 0 ELSE Total(r)
      /\ clock'.skippedElapsed = IF r.accept THEN 0 ELSE Waited(r) + t
      /\ adv'.accepted = r.accept /\ r.accept \in BOOLEAN
      /\ adv'.dClock = IF r.accept THEN Seen(Total(r)) ELSE 0
      /\ adv'.elapsed = IF r.accept THEN Waited(r) + t ELSE 0
  BY <1>1, RowClock, RowAdvance, Fields
<1>3. /\ d \in Nat /\ d <= cfg.cap /\ t \in Nat /\ cfg.cap \in Nat /\ cfg.cap > 0
      /\ Total(r) \in Nat /\ Waited(r) \in Nat
      /\ clock.pending \in Nat /\ clock.skippedElapsed \in Nat
  BY <1>1, Steps, Fields DEF Total, Carried, Waited
<1>4. Seen(Total(r)) \in Nat /\ Seen(Total(r)) <= Total(r) /\ Seen(Total(r)) <= cfg.cap
  BY <1>1, <1>3, SeenBounds
\* The total of the steps, and whether anything was dropped on the way.
<1>5. ~gap'.changed =>
        /\ Total(r) <= Waited(r) + t
        /\ ~gap'.dropped => Total(r) = Waited(r) + t /\ (r.accept => Total(r) <= cfg.cap)
        /\ gap'.dropped => Waited(r) + t > cfg.cap
  <2>1. CASE Fresh(r)
    <3>1. Total(r) = 0 /\ Waited(r) = 0 /\ t = 0
      BY <1>1, <2>1, FreshRow
    <3>2. gap' = [changed |-> FALSE, dropped |-> FALSE]
      BY <1>1, <2>1, RowHistory DEF Since
    <3> QED
      BY <1>3, <3>1, <3>2
  <2>2. CASE ~Fresh(r)
    <3> SUFFICES ASSUME ~gap'.changed
                 PROVE  /\ Total(r) <= Waited(r) + t
                        /\ ~gap'.dropped => /\ Total(r) = Waited(r) + t
                                            /\ r.accept => Total(r) <= cfg.cap
                        /\ gap'.dropped => Waited(r) + t > cfg.cap
      OBVIOUS
    <3>1. Total(r) = clock.pending + d /\ Waited(r) = clock.skippedElapsed
      BY <1>1, <2>2, MovedRow
    <3>2. gap' = [changed |-> Since(r).changed \/ adv'.changed,
                  dropped |-> Since(r).dropped \/ adv'.changed \/ adv'.capped]
      BY <1>1, <2>2, RowHistory
    <3>3. ~Since(r).changed /\ ~adv'.changed
      BY <3>2
    <3>4. ~Changed(clock, r)
      BY <1>1, <3>3, RowAdvance
    <3>5. adv'.capped <=> OwnCap(clock, r) \/ (r.accept /\ Total(r) > cfg.cap)
      BY <1>1, RowAdvance
    <3>6. gap'.dropped <=> Since(r).dropped \/ adv'.capped
      BY <3>2, <3>3
    <3>7. /\ d <= t
          /\ ~OwnCap(clock, r) => d = t
          /\ OwnCap(clock, r) => t > cfg.cap
      BY <1>1, <3>4, Steps
    <3>8. /\ clock.pending <= clock.skippedElapsed
          /\ ~Since(r).dropped => clock.pending = clock.skippedElapsed
          /\ Since(r).dropped => clock.skippedElapsed > cfg.cap
      <4>1. CASE adv.accepted
        <5>1. clock.pending = 0 /\ clock.skippedElapsed = 0
          BY <4>1 DEF Inv, Waiting
        <5>2. ~Since(r).dropped
          BY <4>1 DEF Since
        <5> QED
          BY <5>1, <5>2
      <4>2. CASE ~adv.accepted
        <5>1. Since(r) = gap
          BY <2>2, <4>2 DEF Since
        <5> QED
          BY <3>3, <4>2, <5>1 DEF Inv, Waiting
      <4> QED
        BY <4>1, <4>2
    <3> HIDE DEF d, t, r
    <3> QED
      BY <1>3, <3>1, <3>5, <3>6, <3>7, <3>8
  <2> QED
    BY <2>1, <2>2
<1>6. Waiting'
  <2>1. adv'.accepted => clock'.pending = 0 /\ clock'.skippedElapsed = 0
    BY <1>2
  <2>2. ASSUME ~adv'.accepted, ~gap'.changed
        PROVE  /\ clock'.pending <= clock'.skippedElapsed
               /\ ~gap'.dropped => clock'.pending = clock'.skippedElapsed
               /\ gap'.dropped => clock'.skippedElapsed > cfg'.cap
    BY <1>1, <1>2, <1>5, <2>2
  <2> QED
    BY <2>1, <2>2 DEF Waiting
<1>7. StepWithinCap'
  <2> SUFFICES ASSUME adv'.accepted
               PROVE  /\ adv'.dClock <= cfg'.cap
                      /\ gap'.changed \/ adv'.dClock <= adv'.elapsed
    BY DEF StepWithinCap
  <2>1. adv'.dClock = Seen(Total(r)) /\ adv'.elapsed = Waited(r) + t
    BY <1>2
  <2> QED
    BY <1>1, <1>3, <1>4, <1>5, <2>1
<1>8. DroppedAcrossGap'
  <2> SUFFICES ASSUME adv'.accepted, ~gap'.changed
               PROVE  gap'.dropped <=> adv'.elapsed > cfg'.cap
    BY DEF DroppedAcrossGap
  <2>1. r.accept /\ adv'.elapsed = Waited(r) + t
    BY <1>2
  <2> QED
    BY <1>1, <1>3, <1>5, <2>1
<1> QED
  BY <1>6, <1>7, <1>8

\* What check_clock decides on its copy for the rows after the first is what
\* it would decide once the first is learned.
LEMMA RowChecked == ASSUME Inv, Row PROVE Checked' /\ NothingRefusedLate'
<1> DEFINE r == Head(todo)
<1>1. /\ TypeOK /\ r \in ClockRows /\ cfg' = cfg /\ todo # <<>> /\ todo' = Tail(todo)
      /\ todo \in Seq(ClockRows) /\ Len(todo) \in Nat /\ Len(todo) > 0 /\ r = todo[1]
  BY RowClock DEF Inv, TypeOK
<1>2. ~CheckClock(clock, todo)
  BY <1>1 DEF Inv, Checked
<1>3. Checked'
  <2> SUFFICES ASSUME todo' # <<>>, CheckClock(clock, todo)' PROVE FALSE
    BY DEF Checked
  <2>1. PICK i \in 1 .. Len(todo') : Refusal(CopyAt(clock, todo, i), todo[i])'
    BY DEF CheckClock
  <2>2. cfg.column /\ (cfg.policy = "error" \/ cfg.minBack > 0)
    BY <1>1 DEF CheckClock
  <2>3. /\ i + 1 \in 2 .. Len(todo) /\ todo'[i] = todo[i + 1]
        /\ i > 1 => todo'[i - 1] = todo[i]
    BY <1>1
  <2>4. /\ clock'.started /\ clock'.prev = todo[1].at /\ clock'.session = todo[1].session
    BY <1>1, RowClock
  <2> DEFINE c == CopyAt(clock, todo, i + 1)
  <2>5. /\ c.started /\ c.prev = todo[i].at /\ c.session = todo[i].session
    <3>1. i + 1 # 1 /\ (i + 1) - 1 = i
      BY <2>3
    <3>2. c = [clock EXCEPT !.started = TRUE, !.prev = todo[i].at,
                            !.session = todo[i].session]
      BY <3>1 DEF CopyAt
    <3> HIDE DEF c
    <3> QED
      BY <1>1, <3>2 DEF TypeOK
  <2>6. /\ CopyAt(clock, todo, i)'.started
        /\ CopyAt(clock, todo, i)'.prev = todo[i].at
        /\ CopyAt(clock, todo, i)'.session = todo[i].session
    <3>1. CASE i = 1
      BY <2>4, <3>1 DEF CopyAt
    <3>2. CASE i # 1
      <4>1. todo'[i - 1] = todo[i]
        BY <2>3, <3>2
      <4>2. CopyAt(clock, todo, i)' =
              [clock' EXCEPT !.started = TRUE, !.prev = todo[i].at,
                             !.session = todo[i].session]
        BY <3>2, <4>1 DEF CopyAt
      <4>3. clock' = [started |-> TRUE, prev |-> r.at, session |-> r.session,
                      pending |-> clock'.pending,
                      skippedElapsed |-> clock'.skippedElapsed, exact |-> clock'.exact]
        BY <1>1, RowClock
      <4> QED
        BY <4>2, <4>3
    <3> QED
      BY <3>1, <3>2
  <2>7. Refusal(c, todo[i + 1])
    BY <1>1, <2>1, <2>3, <2>5, <2>6 DEF Refusal, RefusedBack
  <2> QED
    BY <1>2, <2>2, <2>3, <2>7 DEF CheckClock
<1>4. NothingRefusedLate'
  <2> SUFFICES ASSUME StepsBack(clock, r), RefusedBack(Raw(clock, r)) PROVE FALSE
    BY <1>1, RowAdvance DEF NothingRefusedLate
  <2>1. /\ clock.started /\ r.session = clock.session /\ cfg.column
        /\ Raw(clock, r) = r.at - clock.prev /\ r.at < clock.prev
    BY <1>1, Fields DEF StepsBack, Changed, Raw
  <2>2. Refusal(CopyAt(clock, todo, 1), todo[1])
    BY <1>1, <2>1 DEF Refusal, CopyAt
  <2>3. cfg.policy = "error" \/ cfg.minBack > 0
    BY <1>1, <2>1, Fields DEF RefusedBack
  <2> QED
    BY <1>1, <1>2, <2>1, <2>2, <2>3 DEF CheckClock
<1> QED
  BY <1>3, <1>4

\* Every variable a row changes stays of its type.
LEMMA RowTypes == ASSUME Inv, Row PROVE TypeOK'
<1> DEFINE r == Head(todo)
<1>1. /\ TypeOK /\ r \in ClockRows /\ cfg' = cfg /\ rowsFed' = rowsFed
      /\ todo' \in Seq(ClockRows)
  <2>1. TypeOK
    BY DEF Inv
  <2>2. todo \in Seq(ClockRows)
    BY <2>1 DEF TypeOK
  <2>3. r \in ClockRows /\ todo # <<>> /\ todo' = Tail(todo) /\ cfg' = cfg /\ rowsFed' = rowsFed
    BY <2>1, RowClock
  <2>4. Tail(todo) \in Seq(ClockRows)
    BY <2>2, <2>3
  <2> QED
    BY <2>1, <2>3, <2>4
<1>2. clock' \in [started : BOOLEAN, prev : Int, session : Nat, pending : Nat,
                  skippedElapsed : Nat,
                  exact : [removed : Int, elapsedRemoved : Int, rows : Nat,
                           ns : Nat, skippedNs : Nat, elapsedNs : Nat]]
  <2>1. clock' = [started |-> TRUE, prev |-> r.at, session |-> r.session,
                  pending |-> clock'.pending,
                  skippedElapsed |-> clock'.skippedElapsed, exact |-> clock'.exact]
    BY <1>1, RowClock
  <2>2. r.at \in Int /\ r.session \in Nat
    BY <1>1, Fields
  <2>3. /\ clock'.pending \in Nat /\ clock'.skippedElapsed \in Nat
        /\ clock'.exact \in [removed : Int, elapsedRemoved : Int, rows : Nat,
                             ns : Nat, skippedNs : Nat, elapsedNs : Nat]
    BY RowNumbers
  <2>4. \A at \in Int, session, pending, waits \in Nat,
          e \in [removed : Int, elapsedRemoved : Int, rows : Nat,
                 ns : Nat, skippedNs : Nat, elapsedNs : Nat] :
          [started |-> TRUE, prev |-> at, session |-> session, pending |-> pending,
           skippedElapsed |-> waits, exact |-> e]
            \in [started : BOOLEAN, prev : Int, session : Nat, pending : Nat,
                skippedElapsed : Nat,
                exact : [removed : Int, elapsedRemoved : Int, rows : Nat,
                         ns : Nat, skippedNs : Nat, elapsedNs : Nat]]
    OBVIOUS
  <2>5. [started |-> TRUE, prev |-> r.at, session |-> r.session,
         pending |-> clock'.pending, skippedElapsed |-> clock'.skippedElapsed,
         exact |-> clock'.exact]
          \in [started : BOOLEAN, prev : Int, session : Nat, pending : Nat,
              skippedElapsed : Nat,
              exact : [removed : Int, elapsedRemoved : Int, rows : Nat,
                       ns : Nat, skippedNs : Nat, elapsedNs : Nat]]
    BY <2>2, <2>3, <2>4
  <2> HIDE DEF r
  <2> QED
    BY <2>1, <2>5, Zenon
<1>3. adv'.stamp \in Stamps
  <2>1. CASE r.accept
    <3>1. /\ Place' \in Int /\ clock'.exact.removed \in Int
          /\ clock'.exact.elapsedRemoved \in Int
          /\ clock'.exact.ns \in Int /\ clock'.exact.elapsedNs \in Int
      BY RowPlace, RowNumbers
    <3> QED
      BY <2>1, <3>1, RowStamp DEF Stamps
  <2>2. CASE ~r.accept
    BY <1>1, <2>2, RowAdvance DEF Stamps, NoStamp
  <2> QED
    BY <2>1, <2>2
<1>4. adv' \in [accepted : BOOLEAN, reset : BOOLEAN, refused : BOOLEAN,
                changed : BOOLEAN, capped : BOOLEAN, dClock : Nat, elapsed : Nat,
                stamp : Stamps]
  <2>1. /\ adv'.accepted \in BOOLEAN /\ adv'.reset \in BOOLEAN /\ adv'.refused \in BOOLEAN
        /\ adv'.changed \in BOOLEAN /\ adv'.capped \in BOOLEAN
    <3>1. /\ r.accept \in BOOLEAN /\ Resets(clock, r) \in BOOLEAN
          /\ Changed(clock, r) \in BOOLEAN
          /\ (StepsBack(clock, r) /\ RefusedBack(Raw(clock, r))) \in BOOLEAN
          /\ (OwnCap(clock, r) \/ (r.accept /\ Total(r) > cfg.cap)) \in BOOLEAN
      BY <1>1, Fields DEF Resets, Changed
    <3> QED
      BY <1>1, <3>1, RowAdvance, Zenon
  <2>2. adv' = [accepted |-> adv'.accepted, reset |-> adv'.reset,
                refused |-> adv'.refused, changed |-> adv'.changed,
                capped |-> adv'.capped, dClock |-> adv'.dClock,
                elapsed |-> adv'.elapsed, stamp |-> adv'.stamp]
    BY RowAdvance, <1>1 DEF StepAny
  <2> QED
    BY <1>3, <2>1, <2>2, RowNumbers
<1>5. last' \in Seq(Stamps)
  <2>1. last \in Seq(Stamps)
    BY <1>1 DEF TypeOK
  <2>2. last' = <<adv'.stamp>> \/ last' = <<>> \/ last' = last
    BY <1>1, RowHistory
  <2>3. <<adv'.stamp>> \in Seq(Stamps)
    BY <1>3
  <2>4. <<>> \in Seq(Stamps)
    OBVIOUS
  <2> QED
    BY <2>1, <2>2, <2>3, <2>4, Zenon
<1>6. gap' \in [changed : BOOLEAN, dropped : BOOLEAN]
  <2>1. Since(r) \in [changed : BOOLEAN, dropped : BOOLEAN]
    BY <1>1 DEF Since, TypeOK
  <2>2. /\ (Since(r).changed \/ adv'.changed) \in BOOLEAN
        /\ (Since(r).dropped \/ adv'.changed \/ adv'.capped) \in BOOLEAN
    OBVIOUS
  <2>3. \/ gap' = Since(r)
        \/ gap' = [changed |-> Since(r).changed \/ adv'.changed,
                   dropped |-> Since(r).dropped \/ adv'.changed \/ adv'.capped]
    BY <1>1, RowHistory
  <2> QED
    <3>1. \A a, b \in BOOLEAN : [changed |-> a, dropped |-> b]
                                 \in [changed : BOOLEAN, dropped : BOOLEAN]
      OBVIOUS
    <3> QED
      BY <2>1, <2>2, <2>3, <3>1, Zenon
<1>7. base' \in Int
  BY RowNumbers
<1> QED
  BY <1>1, <1>2, <1>4, <1>5, <1>6, <1>7 DEF TypeOK

\* A row keeps the invariant, part by part.
LEMMA RowInv == ASSUME Inv, Row PROVE Inv'
<1>1. FreshClock'
  BY RowClock DEF FreshClock, Inv
<1> QED
  BY <1>1, RowTypes, RowForms, RowLast, RowWaits, RowChecked DEF Inv

\* A chunk that is checked, or refused, moves nothing else.
LEMMA FeedInv == ASSUME Inv, Feed PROVE Inv'
<1>1. /\ cfg' = cfg /\ clock' = clock /\ adv' = adv /\ base' = base
      /\ last' = last /\ gap' = gap
  BY DEF Feed
<1>2. /\ todo' \in Seq(ClockRows) /\ rowsFed' \in Nat
      /\ todo' # <<>> => ~CheckClock(clock, todo')
  <2>1. \A chunk \in Chunks : chunk \in Seq(ClockRows)
    BY ClockAssumption DEF Chunks
  <2>2. todo \in Seq(ClockRows) /\ rowsFed \in Nat /\ todo = <<>>
    BY DEF Inv, TypeOK, Feed
  <2>3. PICK chunk \in Chunks :
          IF CheckClock(clock, chunk) THEN UNCHANGED <<todo, rowsFed>>
          ELSE todo' = chunk /\ rowsFed' = rowsFed + Len(chunk)
    BY DEF Feed
  <2>4. chunk \in Seq(ClockRows) /\ Len(chunk) \in Nat
    BY <2>1
  <2>5. CASE CheckClock(clock, chunk)
    BY <2>2, <2>3, <2>5
  <2>6. CASE ~CheckClock(clock, chunk)
    <3>1. todo' = chunk /\ rowsFed' = rowsFed + Len(chunk)
      BY <2>3, <2>6
    <3> QED
      BY <2>2, <2>4, <2>6, <3>1
  <2> QED
    BY <2>5, <2>6
<1>3. TypeOK'
  BY <1>1, <1>2 DEF Inv, TypeOK
<1>4. Checked'
  <2>1. CheckClock(clock, todo)' <=> CheckClock(clock, todo')
    BY <1>1 DEF CheckClock, Refusal, RefusedBack, CopyAt
  <2> QED
    BY <1>2, <2>1 DEF Checked
<1>5. /\ FreshClock' /\ TwoForms' /\ LastStamps' /\ Waiting'
      /\ FormsAgree' /\ StepWithinCap' /\ DroppedAcrossGap' /\ NothingRefusedLate'
  BY <1>1 DEF Inv, FreshClock, TwoForms, LastStamps, Waiting, FormsAgree, StepWithinCap,
              DroppedAcrossGap, NothingRefusedLate, Place
<1> QED
  BY <1>3, <1>4, <1>5 DEF Inv

\* A stream that has seen no row.
LEMMA InitInv == Init => Inv
<1> SUFFICES ASSUME Init PROVE Inv
  OBVIOUS
<1>1. TypeOK
  BY DEF Init, TypeOK, New, NoExact, NoRow, NoStamp, NoSession, Stamps
<1> QED
  BY <1>1 DEF Init, Inv, FreshClock, TwoForms, LastStamps, Waiting, Checked, FormsAgree,
              StepWithinCap, DroppedAcrossGap, NothingRefusedLate, New, NoRow

\* The inductive invariant.
THEOREM Invariance == Spec => []Inv
<1>1. Inv /\ UNCHANGED vars => Inv'
  <2> SUFFICES ASSUME Inv, UNCHANGED vars PROVE Inv'
    OBVIOUS
  <2> QED
    BY DEF vars, Inv, TypeOK, FreshClock, TwoForms, LastStamps, Waiting, Checked,
           FormsAgree, StepWithinCap, DroppedAcrossGap, NothingRefusedLate, Place,
           CheckClock, Refusal, RefusedBack, CopyAt
<1>2. Inv /\ [Next]_vars => Inv'
  BY <1>1, RowInv, FeedInv DEF Next
<1> QED
  BY <1>2, InitInv, PTL DEF Spec

-----------------------------------------------------------------------------
\* ClockState keeps to its types: what waits and what is counted is never
\* negative, whatever steps back, caps and session gaps a stream has.
THEOREM TypeCorrect == Spec => []TypeOK
BY Invariance, PTL DEF Inv

\* What Stream::check_clock passes, advance_stamped never refuses: no chunk
\* is half learned when its clock is refused.
THEOREM NothingEverRefusedLate == Spec => []NothingRefusedLate
BY Invariance, PTL DEF Inv

\* The stamp summed in nanoseconds and the raw value less what was removed
\* (the two arms of Exact::step) are one clock.
THEOREM FormsAlwaysAgree == Spec => []FormsAgree
BY Invariance, PTL DEF Inv

\* gap_cap is a ceiling on what a model sees between two rows it learns
\* from, whatever was skipped between them.
THEOREM StepAlwaysWithinCap == Spec => []StepWithinCap
BY Invariance, PTL DEF Inv

\* clear_lags is called between two accepted rows of a session exactly when
\* more time than gap_cap passed between them.
THEOREM DroppedAlwaysAcrossGap == Spec => []DroppedAcrossGap
BY Invariance, PTL DEF Inv

\* step_forward and ns_forward take a row as step_any does.
THEOREM ForwardAlwaysIsStep == Spec => []ForwardIsStep
<1>1. TypeOK => ForwardIsStep
  <2> SUFFICES ASSUME TypeOK, todo # <<>>, ForwardTakes(clock, Head(todo))
               PROVE  Forward(clock, Head(todo)) = StepAny(clock, Head(todo))
    BY DEF ForwardIsStep
  <2>1. Head(todo) \in ClockRows
    BY DEF TypeOK
  <2> QED
    BY <2>1, ShortCutsAreSteps
<1> QED
  BY <1>1, TypeCorrect, PTL

\* One accepted row after another: the stamps move by what the model is handed.
LEMMA RowAddsUp == ASSUME Inv, Row PROVE AddsUp
<1> SUFFICES ASSUME last # <<>>, adv'.accepted, ~adv'.reset PROVE AddsUp
  BY DEF AddsUp
<1> DEFINE r == Head(todo)
           e == clock'.exact
<1>1. TypeOK /\ r \in ClockRows /\ e = ExactStep(clock, r)
  BY RowClock DEF Inv
<1>2. r.accept /\ ~Fresh(r)
  <2>1. r.accept /\ ~Resets(clock, r)
    BY <1>1, RowAdvance
  <2>2. clock.started
    BY DEF Inv, LastStamps
  <2> QED
    BY <2>1, <2>2 DEF Fresh
<1>3. /\ last[1].ns = clock.exact.ns /\ last[1].raw = base + clock.exact.ns
      /\ last[1].elapsedNs = clock.exact.elapsedNs - clock.skippedElapsed
      /\ last[1].elapsedRaw = base + last[1].elapsedNs
      /\ clock.started /\ clock.pending = clock.exact.skippedNs
  BY DEF Inv, LastStamps, TwoForms
<1>4. /\ e.ns = clock.exact.ns + Seen(clock.exact.skippedNs + Step(clock, r))
      /\ e.elapsedNs = clock.exact.elapsedNs + Elapsed(clock, r)
      /\ Total(r) = clock.pending + Step(clock, r) /\ Waited(r) = clock.skippedElapsed
  BY <1>1, <1>2, MovedRow
<1>5. /\ adv'.dClock = Seen(Total(r)) /\ adv'.elapsed = Waited(r) + Elapsed(clock, r)
  BY <1>1, <1>2, RowAdvance
<1>6. /\ adv'.stamp.raw = base' + adv'.stamp.ns
      /\ adv'.stamp.elapsedRaw = base' + adv'.stamp.elapsedNs
      /\ base' = base /\ adv'.stamp.ns = e.ns /\ adv'.stamp.elapsedNs = e.elapsedNs
  BY <1>1, <1>2, RowForms, RowHistory, RowStamp DEF FormsAgree
<1>7. /\ clock.exact.ns \in Int /\ clock.exact.elapsedNs \in Int
      /\ clock.skippedElapsed \in Int /\ base \in Int /\ Elapsed(clock, r) \in Int
      /\ adv'.dClock \in Int
  <2>1. base \in Int
    BY <1>1 DEF TypeOK
  <2> QED
    BY <1>1, <2>1, Fields, Steps, RowNumbers
<1>8. e.ns = clock.exact.ns + adv'.dClock
  <2>1. clock.exact.skippedNs + Step(clock, r) = Total(r)
    BY <1>3, <1>4
  <2> QED
    BY <1>4, <1>5, <2>1
<1>9. /\ adv'.stamp.ns - last[1].ns = adv'.dClock
      /\ adv'.stamp.raw - last[1].raw = adv'.dClock
  <2>1. adv'.stamp.ns = clock.exact.ns + adv'.dClock
    BY <1>6, <1>8
  <2>2. adv'.stamp.raw = base + (clock.exact.ns + adv'.dClock)
    BY <1>6, <2>1
  <2> QED
    BY <1>3, <1>7, <2>1, <2>2
<1>10. /\ adv'.stamp.elapsedNs - last[1].elapsedNs = adv'.elapsed
       /\ adv'.stamp.elapsedRaw - last[1].elapsedRaw = adv'.elapsed
  <2> DEFINE t == Elapsed(clock, r)
  <2>1. /\ adv'.stamp.elapsedNs = clock.exact.elapsedNs + t
        /\ adv'.elapsed = clock.skippedElapsed + t
    BY <1>4, <1>5, <1>6
  <2>2. adv'.stamp.elapsedRaw = base + (clock.exact.elapsedNs + t)
    BY <1>6, <2>1
  <2>3. last[1].elapsedRaw = base + (clock.exact.elapsedNs - clock.skippedElapsed)
    BY <1>3
  <2>4. t \in Int
    BY <1>7
  <2> HIDE DEF t
  <2> QED
    BY <1>3, <1>7, <2>1, <2>2, <2>3, <2>4
<1> QED
  BY <1>9, <1>10 DEF AddsUp

\* The decayed clock moves by d_clock and the elapsed clock by elapsed
\* between two accepted rows: a window's edge, read off the stamps, is where
\* the model's decay, summed off the steps, has it.
THEOREM StampsAlwaysAddUp == Spec => StampsAddUp
<1>1. Feed => AddsUp
  BY DEF Feed, AddsUp
<1>2. Inv /\ [Next]_vars => [AddsUp]_vars
  BY <1>1, RowAddsUp DEF Next
<1> QED
  BY <1>2, Invariance, PTL DEF Spec, StampsAddUp
=============================================================================
