----------------------------- MODULE LabelDelay -----------------------------
(***************************************************************************)
(* Rows that are scored where they stand and learned later                 *)
(* (crates/online-polars/src/stream/label_delay.rs, with the schedule and  *)
(* the instances of stream.rs): under an embargo a row is learned once the *)
(* clock is past it by the delay, with a formula target once the windows   *)
(* of its target are closed, under a label clock at its label time.        *)
(*                                                                         *)
(* A chunk's rows are scheduled on the clock and put in the order in which *)
(* they are scored and learned, a list of plans; then the stream's models  *)
(* go through the plans.  A row is its number in the stream.  What a model *)
(* computes is left out: the step it is handed, what it was scored with,   *)
(* and the restarts of drift_action = "reset", which may come at any row   *)
(* learned, are what the rows' order decides.                              *)
(***************************************************************************)
EXTENDS Integers, FiniteSets, SequencesExt

CONSTANTS
  Settings,   \* specs, each with its clock and the rows it is fed
  Values,     \* what a clock column holds
  Sessions,   \* what a session column holds
  ChunkRows   \* bound: rows of a chunk (a setting's maxRows: rows fed)

VARIABLES
  setting,      \* the spec
  clock,        \* Persisted::clock
  restartFold,  \* restart_fold: the clock a fresh stream begun at the skipped
                \* rows since the last accepted one would have, if any were
  open,         \* the rows whose target's windows are open (the window core)
  pending,      \* the rows held
  heldBreak,    \* the events of rows skipped since the last accepted one
  learnedClock, \* label_learned: the clock of the labels learned
  missing,      \* labels_missing
  dropped,      \* labels_dropped
  plans,        \* what is left of the chunk's plans
  inst,         \* an instance: its model's clocks, records and lags
  read,         \* what its last row read
  hist,         \* history: the rows fed
  epoch,        \* history: the row of the last clock reset, or the first
  start,        \* history: the row a fresh bank would begin at, were it the
                \* one the instance was last restarted to be
  learnt        \* history: the rows learned, in order

buffer == <<open, pending, heldBreak, learnedClock, missing, dropped>>
model  == <<inst, read, epoch, start, learnt>>
vars   == <<setting, clock, restartFold, buffer, plans, model, hist>>

NoLabel == -1

\* What a spec holds rows for.  A label clock goes with neither of the others.
Embargoed == "embargo" \in setting.holds
Formulas  == "formula" \in setting.holds
Labelled  == "label" \in setting.holds

\* Clock's operators at this stream's settings; its state is not used.
C == INSTANCE Clock WITH
       cfg <- setting.clk, Configs <- {s.clk : s \in Settings}, MaxRows <- 0,
       adv <- 0, base <- 0, last <- 0, gap <- 0, todo <- 0, rowsFed <- 0

\* What a spec may ask for (Spec::check_label_clock), and what its rows hold: a
\* session where it has a session column, and where its labels are one delay
\* behind, each row's, to be learned from.  Only a formula has windows to close.
\* A null label is none of the values.
ASSUME SettingsAssumption ==
  /\ Values \subseteq Int /\ NoLabel \notin Values /\ Sessions \subseteq Nat \ {0}
  /\ ChunkRows \in Nat
  /\ Settings \subseteq
       [clk : [column : BOOLEAN, cap : Nat \ {0}, policy : {"error", "reset_state"},
               minBack : Nat, gap : {"none", "reset", "gap"}, gapBy : Nat],
        holds : (SUBSET {"embargo", "formula", "label"}) \ {{}}, by : Nat, drift : BOOLEAN,
        maxHeld : Nat, dropOldest : BOOLEAN, maxRows : Nat \ {0},
        rows : SUBSET [at : Values, session : Sessions \cup {C!NoSession}, accept : BOOLEAN,
                       w : Nat, label : Values \cup {NoLabel}, closes : Nat]]
  /\ \A s \in Settings :
       /\ \A r \in s.rows : r.session # C!NoSession <=> s.clk.gap # "none"
       /\ "formula" \in s.holds \/ \A r \in s.rows : r.closes = 0
       /\ "label" \in s.holds =>
            /\ s.holds = {"label"} /\ s.clk.column /\ s.clk.gap = "none" /\ ~s.drift
            /\ s.by > 0 => s.maxHeld = 0 /\ \A r \in s.rows :
                              r.label = r.at + s.by /\ r.label # NoLabel /\ r.w > 0

-----------------------------------------------------------------------------
\* Stream::schedule: the plans of a chunk before any is delayed.  `s` is what
\* the rows before have made of the clocks, the open windows and the plans.

\* The step a row reads as the first accepted one of a stream begun right
\* after the accepted row before it.
Fold(f, r)  == C!Advance(IF f = <<>> THEN C!New ELSE f[1], r)
FreshStep(f, r) == IF r.accept /\ f # <<>> THEN Fold(f, r).adv.dClock ELSE 0

\* A session change and the blend it asks for, or a gap past the cap.
Events(adv) ==
  (IF adv.changed THEN {"session"} ELSE {}) \cup
  (IF adv.changed /\ ~adv.reset THEN {"blend"} ELSE {}) \cup
  (IF adv.capped THEN {"gap"} ELSE {})

\* A row closes the oldest open windows, and opens one of its own.
Closing(s, r, adv) == IF adv.reset THEN <<>> ELSE SubSeq(s.open, 1, r.closes)
StillOpen(s, r, adv, id) ==
  LET left == IF adv.reset THEN <<>> ELSE SubSeq(s.open, r.closes + 1, Len(s.open))
  IN  IF Formulas /\ r.accept THEN Append(left, id) ELSE left

PlannedAt(s, r, out) ==
  LET id == s.id + 1
  IN  [clock |-> out.clock,
       fold  |-> IF ~setting.drift \/ r.accept THEN <<>> ELSE <<Fold(s.fold, r).clock>>,
       open  |-> StillOpen(s, r, out.adv, id),
       known |-> s.known \cup {[id |-> k, at |-> id] : k \in ToSet(Closing(s, r, out.adv))},
       id    |-> id,
       plans |-> Append(s.plans,
         [kind |-> "row", id |-> id, row |-> r, reset |-> out.adv.reset,
          events |-> Events(out.adv), d |-> out.adv.dClock,
          fresh |-> FreshStep(s.fold, r), place |-> out.adv.stamp.elapsedNs])]
Planned(s, r) == PlannedAt(s, r, C!Advance(s.clock, r))

Schedule(chunk) ==
  LET run[n \in 0 .. Len(chunk)] ==
        IF n = 0 THEN [clock |-> clock, fold |-> restartFold, open |-> open, known |-> {},
                       id |-> Len(hist), plans |-> <<>>]
        ELSE Planned(run[n - 1], chunk[n])
  IN  run[Len(chunk)]

-----------------------------------------------------------------------------
\* Stream::apply_label_delay: `a` is the buffer and the plans put out so far.

\* A clock reset drops what is held, and the breaks with it.
Restarted(a, p) ==
  IF ~p.reset THEN a
  ELSE [a EXCEPT !.pending = <<>>, !.heldBreak = {}, !.learned = C!New,
                 !.dropped = @ + IF Labelled THEN Len(a.pending) ELSE 0]

\* A row is resolved by the row that closed its windows, not before.  The
\* windows close in the rows' order.
ResolvedByMutant(k, p, known) == \E x \in known : x.id = k
ResolvedBy(k, p, known) == \E x \in known : x.id = k /\ x.at <= p.id
Settled(r, p, known) == [r EXCEPT !.resolved = @ \/ ResolvedBy(r.id, p, known)]
Resolve(a, p, known) ==
  [a EXCEPT !.pending = [i \in DOMAIN a.pending |-> Settled(a.pending[i], p, known)]]

\* Embargo::passed.
PassedMutant(now, then) == now - then > setting.by
Passed(now, then) == now - then >= setting.by
Due(r, p) == r.resolved /\ (Embargoed => Passed(p.place, r.arrived))

\* How many rows at the front of the buffer go, before the first that does not.
FrontOf(queue, go) ==
  LET stay == DOMAIN queue \ go IN IF stay = {} THEN Len(queue) ELSE Min(stay) - 1

Replay(r, p) ==
  [kind |-> "learn", id |-> r.id, at |-> p.id, d |-> r.d, fresh |-> r.fresh,
   events |-> r.events, reset |-> FALSE]
Release(a, p) ==
  LET n == IF p.reset THEN 0
           ELSE FrontOf(a.pending, {i \in DOMAIN a.pending : Due(a.pending[i], p)})
  IN  [a EXCEPT !.pending = SubSeq(@, n + 1, Len(@)),
                !.out = @ \o [i \in 1 .. n |-> Replay(a.pending[i], p)]]

\* The row itself, scored here, with the break before it, and what a restarted
\* instance takes out of the held clock: `cut`.
CutMutant(r) == r.d
Cut(r) == r.d - r.fresh
CutOf(queue) == IF queue = <<>> THEN <<>> ELSE <<Cut(queue[1])>>
Score(p, cut, at, drop, held) ==
  [kind |-> "score", id |-> p.id, d |-> p.d, fresh |-> p.fresh, events |-> {},
   reset |-> p.reset, cut |-> cut, at |-> at, drop |-> drop, held |-> held]
HeldWithMutant(a, p) == p.events
HeldWith(a, p) == a.heldBreak \cup p.events
Hold(a, p) ==
  [a EXCEPT
     !.pending = Append(@, [id |-> p.id, clock |-> p.row.at, arrived |-> p.place,
                            d |-> p.d, fresh |-> p.fresh, events |-> HeldWith(a, p),
                            resolved |-> ~Formulas, label |-> NoLabel]),
     !.heldBreak = {},
     !.out = Append(@, Score(p, CutOf(a.pending), Len(a.pending) + 1, 0, TRUE))]

\* A skipped row's events wait with the next accepted row.
Skip(a, p) ==
  [a EXCEPT !.heldBreak = @ \cup p.events,
            !.out = Append(@, [kind |-> "skip", id |-> p.id, reset |-> p.reset,
                               events |-> {}])]

-----------------------------------------------------------------------------
\* hold_for_label: a row under a label clock.  Its clock has reached the
\* labels of the rows at the front; each is learned at its label time.
ReachedMutant(r, p) == p.row.at > r.label
Reached(r, p) == p.row.at >= r.label
LearnAt(r, p, adv) ==
  [kind |-> "learn", id |-> r.id, at |-> p.id, d |-> adv.dClock, fresh |-> 0,
   events |-> IF adv.capped THEN {"gap"} ELSE {}, reset |-> FALSE]
LabelRow(r) == [at |-> r.label, session |-> C!NoSession, accept |-> TRUE]
ByLabels(learned, queue) ==
  LET run[i \in 0 .. Len(queue)] ==
        IF i = 0 THEN [clock |-> learned, adv |-> C!NoRow]
        ELSE C!Advance(run[i - 1].clock, LabelRow(queue[i]))
  IN  run
ReleaseByLabel(a, p) ==
  LET n == IF p.reset THEN 0
           ELSE FrontOf(a.pending, {i \in DOMAIN a.pending : Reached(a.pending[i], p)})
      run == ByLabels(a.learned, a.pending)
  IN  [a EXCEPT !.learned = run[n].clock, !.heldBreak = {},
                !.pending = SubSeq(@, n + 1, Len(@)),
                !.out = @ \o [i \in 1 .. n |-> LearnAt(a.pending[i], p, run[i].adv)]]

\* The row goes in by its label time, after those of the same.
PlaceMutant(queue, label) == FrontOf(queue, {i \in DOMAIN queue : queue[i].label < label}) + 1
Place(queue, label) == FrontOf(queue, {i \in DOMAIN queue : queue[i].label <= label}) + 1

\* The held row of the earliest clock, the first in the buffer of several.
Oldest(queue) ==
  CHOOSE i \in DOMAIN queue : \A j \in DOMAIN queue :
    queue[j].clock >= queue[i].clock /\ (queue[j].clock = queue[i].clock => i <= j)

\* A row with no label, or no weight, has nothing to teach.  A full buffer
\* drops the oldest row.
Parks(r) == r.label = NoLabel \/ r.w = 0
OverMutant(rows) == setting.maxHeld > 0 /\ rows > setting.maxHeld + 1
Over(rows) == setting.maxHeld > 0 /\ rows > setting.maxHeld
HoldForLabel(a, p) ==
  LET r    == p.row
      at   == Place(a.pending, r.label)
      with == InsertAt(a.pending, at,
                [id |-> p.id, clock |-> r.at, arrived |-> p.place, d |-> p.d, fresh |-> 0,
                 events |-> {}, resolved |-> TRUE, label |-> r.label])
      drop == IF Over(Len(with)) THEN Oldest(with) ELSE 0
  IN  IF Parks(r)
      THEN [a EXCEPT !.missing = @ + IF r.label = NoLabel THEN 1 ELSE 0,
                     !.out = Append(@, Score(p, <<>>, 0, 0, FALSE))]
      ELSE [a EXCEPT !.pending = IF drop = 0 THEN with ELSE RemoveAt(with, drop),
                     !.dropped = @ + IF drop = 0 THEN 0 ELSE 1,
                     !.out = Append(@, Score(p, <<>>, at, drop, TRUE))]

Delay(a, p, known) ==
  LET b == Resolve(Restarted(a, p), p, known)
  IN  IF ~p.row.accept THEN Skip(b, p)
      ELSE IF Labelled THEN HoldForLabel(ReleaseByLabel(b, p), p)
      ELSE Hold(Release(b, p), p)

ApplyLabelDelay(scheduled) ==
  LET run[n \in 0 .. Len(scheduled.plans)] ==
        IF n = 0 THEN [pending |-> pending, heldBreak |-> heldBreak, learned |-> learnedClock,
                       missing |-> missing, dropped |-> dropped, out |-> <<>>]
        ELSE Delay(run[n - 1], scheduled.plans[n], scheduled.known)
  IN  run[Len(scheduled.plans)]

-----------------------------------------------------------------------------
\* Stream::check_labels, on a copy of the labels held: a label before its row
\* is refused, and a row past max_held_rows unless the oldest is dropped.
\* The copy is a set here, each label beside its row: which labels are in it is
\* all that is read.
CheckedLabel(s, p) ==
  LET r    == p.row
      here == IF p.reset THEN {} ELSE s.held
      left == {l \in here : l[1] > r.at}
      with == left \cup {<<r.label, p.id>>}
  IN  IF s.refused \/ ~r.accept THEN [s EXCEPT !.held = here]
      ELSE IF r.label = NoLabel THEN [s EXCEPT !.held = left]
      ELSE IF r.label < r.at THEN [s EXCEPT !.refused = TRUE]
      ELSE IF r.w = 0 THEN [s EXCEPT !.held = left]
      ELSE [held |-> with, refused |-> ~setting.dropOldest /\ Over(Cardinality(with))]
CheckLabels(scheduled) ==
  LET run[n \in 0 .. Len(scheduled.plans)] ==
        IF n = 0 THEN [held |-> {<<r.label, r.id>> : r \in ToSet(pending)},
                       refused |-> FALSE]
        ELSE CheckedLabel(run[n - 1], scheduled.plans[n])
  IN  Labelled /\ run[Len(scheduled.plans)].refused

-----------------------------------------------------------------------------
Fresh == [decayTime |-> 0, restarted |-> FALSE, held |-> 0, records |-> <<>>,
          fit |-> FALSE, lagged |-> FALSE, newest |-> <<>>]
Nothing == [what |-> "nothing", id |-> 0, from |-> 0, d |-> 0, settled |-> 0, scoreStep |-> 0,
            paired |-> FALSE, blended |-> FALSE, record |-> 0, newest |-> <<>>]

Init ==
  /\ setting \in Settings
  /\ clock = C!New /\ restartFold = <<>> /\ open = <<>>
  /\ pending = <<>> /\ heldBreak = {} /\ learnedClock = C!New
  /\ missing = 0 /\ dropped = 0 /\ plans = <<>>
  /\ inst = Fresh /\ read = Nothing
  /\ hist = <<>> /\ epoch = 1 /\ start = 1 /\ learnt = <<>>

\* A chunk comes: refused by the clock or by its labels it leaves the stream as
\* it was, or else it is scheduled and delayed as a whole.
CouldClose(chunk) ==
  Formulas => \A i \in DOMAIN chunk : chunk[i].closes <= Len(Schedule(SubSeq(chunk, 1, i - 1)).open)
Delayed(a) ==
  /\ pending' = a.pending /\ heldBreak' = a.heldBreak /\ learnedClock' = a.learned
  /\ missing' = a.missing /\ dropped' = a.dropped
  /\ plans' = a.out
Take(s) ==
  /\ ~CheckLabels(s)
  /\ clock' = s.clock /\ restartFold' = s.fold /\ open' = s.open
  /\ Delayed(ApplyLabelDelay(s))
Feed ==
  /\ plans = <<>>
  /\ \E n \in 1 .. ChunkRows : \E chunk \in [1 .. n -> setting.rows] :
       /\ Len(hist) + n <= setting.maxRows
       /\ CouldClose(chunk)
       /\ ~C!CheckClock(clock, chunk)
       /\ Take(Schedule(chunk))
       /\ hist' = hist \o chunk
  /\ UNCHANGED <<setting, model>>

-----------------------------------------------------------------------------
\* run_instance: the instance at one plan.

\* A spec that holds rows by the clock keeps the clock of those it holds.
HoldsClock == Embargoed \/ Labelled
KeepsCuts  == Embargoed /\ setting.drift

\* Instance::reset: a drift keeps the rows held, their clock and their records.
ResetHeldMutant(i) == 0
ResetHeld(i) == i.held
ResetMutant(i) ==
  [Fresh EXCEPT !.restarted = TRUE, !.held = i.held, !.records = i.records,
                !.newest = i.newest]
Reset(i) == [Fresh EXCEPT !.restarted = TRUE, !.held = ResetHeld(i), !.records = i.records]

\* A clock reset, at its own row, drops them.  A skipped row leaves the next
\* one stepping from it.
Entered(p) ==
  IF p.reset THEN [Fresh EXCEPT !.restarted = (p.kind # "skip")] ELSE inst

\* The rows behind are dropped across a session change and a gap.
Lagged(i, p) == i.lagged /\ p.events \cap {"session", "gap"} = {}
Began(p) == IF p.reset THEN p.id ELSE start

\* The step a row reads, and the clock of the rows held.
StepRead(i, p) ==
  IF ~i.restarted THEN p.d
  ELSE IF ~HoldsClock \/ p.kind = "learn" THEN p.fresh
  ELSE IF KeepsCuts /\ p.cut = <<>> THEN p.fresh ELSE p.d
HeldRead(i, p) ==
  IF ~i.restarted \/ ~HoldsClock \/ ~KeepsCuts THEN i.held
  ELSE IF p.cut = <<>> THEN 0 ELSE i.held - p.cut[1]

StepSkip ==
  /\ plans # <<>> /\ Head(plans).kind = "skip"
  /\ LET p == Head(plans)
     IN  /\ inst' = Entered(p)
         /\ epoch' = IF p.reset THEN p.id ELSE epoch
         /\ start' = Began(p)
  /\ read' = Nothing /\ plans' = Tail(plans)
  /\ UNCHANGED <<setting, clock, restartFold, buffer, learnt, hist>>

\* The step a row is scored over, past the rows held, under the cap.
ScoreStepMutant(h, d) == h + d
ScoreStep(h, d) == IF HoldsClock THEN C!Least(h + d, setting.clk.cap) ELSE d

\* A row is scored; what it was scored with is recorded if it is held.
RecordMutant(records, p) == IF p.held THEN Append(records, p.id) ELSE records
Record(records, p) ==
  LET with == InsertAt(records, p.at, p.id)
  IN  IF ~p.held THEN records
      ELSE IF p.drop = 0 THEN with ELSE RemoveAt(with, p.drop)
StepScore ==
  /\ plans # <<>> /\ Head(plans).kind = "score"
  /\ LET p == Head(plans)
         i == Entered(p)
         d == StepRead(i, p)
         h == HeldRead(i, p)
     IN  /\ inst' = [i EXCEPT !.held = IF HoldsClock THEN @ + p.d ELSE @,
                              !.records = Record(@, p)]
         /\ read' = [Nothing EXCEPT
                       !.what = "scored", !.id = p.id, !.from = Began(p), !.d = d,
                       !.settled = i.decayTime + h, !.newest = i.newest,
                       !.scoreStep = ScoreStep(h, d)]
         /\ epoch' = IF p.reset THEN p.id ELSE epoch
         /\ start' = Began(p)
  /\ plans' = Tail(plans)
  /\ UNCHANGED <<setting, clock, restartFold, buffer, learnt, hist>>

\* A row released is learned, and a drift it trips restarts the instance: at a
\* row of some weight, with a spread to judge it by.
MayTrip(p) == setting.drift /\ inst.fit /\ hist[p.id].w > 0
StepLearn ==
  /\ plans # <<>> /\ Head(plans).kind = "learn"
  /\ \E drift \in {FALSE, MayTrip(Head(plans))} :
       LET p == Head(plans)
           d == StepRead(inst, p)
           i == [inst EXCEPT !.decayTime = @ + d, !.restarted = FALSE,
                             !.held = IF HoldsClock THEN @ - p.d ELSE @,
                             !.records = Tail(@), !.fit = TRUE, !.lagged = TRUE,
                             !.newest = IF hist[p.id].w > 0 THEN <<hist[p.id].at>> ELSE @]
       IN  /\ inst' = IF drift THEN Reset(i) ELSE i
           /\ read' = [Nothing EXCEPT
                         !.what = "learned", !.id = p.id, !.from = start, !.d = d,
                         !.paired = Lagged(inst, p),
                         !.blended = inst.fit /\ "blend" \in p.events,
                         !.record = Head(inst.records)]
           /\ start' = IF drift THEN p.id + 1 ELSE start
           /\ learnt' = Append(learnt, p.id)
  /\ plans' = Tail(plans)
  /\ UNCHANGED <<setting, clock, restartFold, buffer, hist, epoch>>

Next == Feed \/ StepSkip \/ StepScore \/ StepLearn

Spec == Init /\ [][Next]_vars

-----------------------------------------------------------------------------
(* What the rows alone say: the clock of a bank that begins at row `from`   *)
(* and is fed the rows up to `to`, of which it learns those of `takes` and  *)
(* skips the others.                                                        *)
Bank(from, to, takes) ==
  LET run[i \in (from - 1) .. to] ==
        IF i < from THEN [clock |-> C!New, adv |-> C!NoRow]
        ELSE C!Advance(run[i - 1].clock, [hist[i] EXCEPT !.accept = @ /\ i \in takes])
  IN  run
Undelayed(from, to) == Bank(from, to, from .. to)

Sum(from, to, term) ==
  LET sum[i \in (from - 1) .. to] == IF i < from THEN 0 ELSE sum[i - 1] + term[i]
  IN  sum[to]
Accepted(from, to) == {i \in from .. to : hist[i].accept}

\* A row whose label comes, of some weight.
Teaches(k) == hist[k].accept /\ hist[k].label # NoLabel /\ hist[k].w > 0
\* Rows held by a delay, or by labels that are one delay behind their rows.  The
\* clock of the labels begins at the first row learned, a bank's at the first row,
\* so the two are one where no row is skipped before it.
LabelsBehind == Labelled /\ setting.by > 0
AsDelay == Embargoed \/ (LabelsBehind /\ start <= Len(hist) /\ hist[start].accept)

Ids == 0 .. Len(hist)
HeldRow == [id : Ids, clock : Int, arrived : Int, d : Nat, fresh : Nat,
            events : SUBSET {"session", "blend", "gap"}, resolved : BOOLEAN, label : Int]
TypeOK ==
  /\ setting \in Settings
  /\ Len(restartFold) <= 1 /\ ToSet(open) \subseteq Ids
  /\ ToSet(pending) \subseteq HeldRow
  /\ heldBreak \subseteq {"session", "blend", "gap"}
  /\ missing \in Nat /\ dropped \in Nat
  /\ inst.decayTime \in Nat /\ ToSet(inst.records) \subseteq Ids
  /\ read.d \in 0 .. setting.clk.cap /\ read.settled \in Nat
  /\ ~Labelled => inst.held \in Nat /\ read.scoreStep \in 0 .. setting.clk.cap
  /\ epoch \in 1 .. setting.maxRows /\ start \in 1 .. setting.maxRows + 1

\* A row held by a delay or a formula is learned as a bank that never held it
\* would learn it, begun where the models were last restarted: the same step,
\* the same row behind it in the lags or none, the same blend, whatever was
\* skipped, held, cut into chunks or restarted on the way.
LearnsAsUndelayed ==
  read.what = "learned" /\ (AsDelay \/ Formulas) =>
    LET run    == Undelayed(read.from, read.id)
        before == Accepted(read.from, read.id - 1)
        since  == IF before = {} THEN {} ELSE (Max(before) + 1) .. read.id
    IN  /\ read.d = run[read.id].adv.dClock
        /\ read.paired <=> before # {} /\ \A i \in since :
             ~run[i].adv.changed /\ ~run[i].adv.capped
        /\ read.blended <=> \E i \in since : run[i].adv.changed

\* The held clock a summary reads (Stream::readiness, settled_withholds).
HeldClockMutant == inst.held
HeldClock ==
  IF ~inst.restarted THEN inst.held
  ELSE IF pending = <<>> THEN 0 ELSE inst.held - Cut(pending[1])
NextRowReads == HeldRead(inst, [cut |-> CutOf(pending)])

\* What a row scored ahead of held rows reads.  It is scored over the step from
\* the last row learned, as a bank for which the held rows were skipped would
\* score it; the settled clock counts the held rows, as had none been held; and
\* learned_clock shows the newest row the model has learned from since its last
\* restart, a drift within the same output row included.  Between chunks a
\* summary reads the held clock the next row would read.
ScoredFromLastLearned ==
  AsDelay =>
    read.scoreStep =
      Bank(start, read.id, ToSet(learnt) \cup {read.id})[read.id].adv.dClock
SettledAsUndelayed ==
  AsDelay =>
    LET run == Undelayed(start, read.id)
    IN  read.settled = Sum(start, read.id - 1, [i \in start .. read.id |-> run[i].adv.dClock])
LearnedClockNewest ==
  Embargoed =>
    LET taught == {k \in ToSet(learnt) : k >= start /\ hist[k].w > 0}
    IN  read.newest = IF taught = {} THEN <<>> ELSE <<hist[Max(taught)].at>>
SummaryReadsEmbargo == plans = <<>> /\ Embargoed => HeldClock = NextRowReads
ScoredAsUndelayed ==
  /\ read.what = "scored" => ScoredFromLastLearned /\ SettledAsUndelayed /\ LearnedClockNewest
  /\ SummaryReadsEmbargo

\* Rows are learned when they are due: by the time a row is scored, exactly those
\* before it that are past the delay by the time that passed, their windows
\* closed; or whose label time has come, less what a full buffer dropped.  They
\* are learned once, in the order they came; or of their labels, then of their
\* coming.
ElapsedFrom(k, n) ==
  LET run == Undelayed(epoch, n)
  IN  Sum(k + 1, n, [i \in epoch .. n |-> C!Elapsed(run[i - 1].clock, hist[i])])
ClosedBy(k, n) ==
  Formulas => Sum(epoch, n, [i \in epoch .. n |-> IF i = epoch THEN 0 ELSE hist[i].closes])
                >= Cardinality(Accepted(epoch, k))
DueAt(k, n) ==
  IF Labelled THEN Teaches(k) /\ hist[n].at >= hist[k].label
  ELSE (Embargoed => ElapsedFrom(k, n) >= setting.by) /\ ClosedBy(k, n)
LearnedByNow(n) ==
  LET due == {k \in Accepted(epoch, n - 1) : DueAt(k, n)}
      now == {k \in ToSet(learnt) : k >= epoch}
  IN  /\ now \subseteq due
      /\ setting.dropOldest \/ now = due
      /\ Labelled /\ AsDelay =>
           now = {k \in Accepted(epoch, n - 1) : ElapsedFrom(k, n) >= setting.by}
LearnedInOrder(j, k) ==
  IF Labelled
  THEN hist[j].label < hist[k].label \/ (hist[j].label = hist[k].label /\ j < k)
  ELSE j < k
LearnedWhenDue ==
  /\ read.what = "scored" => LearnedByNow(read.id)
  /\ LET m == Len(learnt)
     IN  m > 1 /\ learnt[m - 1] >= epoch => LearnedInOrder(learnt[m - 1], learnt[m])

\* Between chunks each row that has something to teach was learned, is held or
\* was counted as dropped, and each that never will was counted as missing.
\* A buffer that refuses to overflow has dropped nothing but at a clock reset.
EachRowAccounted ==
  plans = <<>> =>
    LET held == {pending[i].id : i \in DOMAIN pending}
    IN  IF Labelled
        THEN /\ Cardinality({k \in 1 .. Len(hist) : Teaches(k)})
                  = Len(learnt) + Len(pending) + dropped
             /\ missing = Cardinality({k \in Accepted(1, Len(hist)) : hist[k].label = NoLabel})
             /\ setting.maxHeld > 0 => Len(pending) <= setting.maxHeld
             /\ ~setting.dropOldest =>
                  {k \in epoch .. Len(hist) : Teaches(k)} \subseteq ToSet(learnt) \cup held
        ELSE Accepted(epoch, Len(hist)) = {k \in ToSet(learnt) : k >= epoch} \cup held

\* What a row was scored with is found again when it is learned: the records
\* are in the buffer's order, over inserts, drops and restarts.
RecordsInStep ==
  /\ plans = <<>> => inst.records = [i \in DOMAIN pending |-> pending[i].id]
  /\ read.what = "learned" => read.record = read.id

\* An embargo is the case of labels one delay behind their rows and gives the
\* same numbers (hold_for_label; spec.py), rows skipped before the first included.
LabelIsEmbargo ==
  read.what = "learned" /\ LabelsBehind =>
    read.d = Undelayed(read.from, read.id)[read.id].adv.dClock
=============================================================================
