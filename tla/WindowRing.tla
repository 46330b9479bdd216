----------------------------- MODULE WindowRing -----------------------------
(***************************************************************************)
(* The snapshots a windowed model keeps (crates/online-core/src/window.rs),*)
(* and how a bank keeps them within a memory budget (window_prepass in     *)
(* crates/online-polars/src/stream.rs, process in bank.rs).                *)
(*                                                                         *)
(* A windowed model subtracts what it had learned before the oldest        *)
(* snapshot in its ring, so the window begins at the row that snapshot     *)
(* precedes.  Past its budget the ring thins, or stops and is refused: a   *)
(* chunk is replayed on a shadow of the ring before any of it is learned,  *)
(* and what the replay cannot see is found after a run of the chunk's rows.*)
(*                                                                         *)
(* One stream with one ring.  A row is what the ring can tell: the clock   *)
(* it moves on, whether it is accepted, opens a session, or has targets    *)
(* missing in a way that splits the model's sums, whose snapshots are then *)
(* larger.  Which rows a drift detector fires at is left open.             *)
(***************************************************************************)
EXTENDS Integers, SequencesExt

CONSTANTS
  Settings,    \* windows, budgets and the rows a stream is fed
  ChunkRows,   \* bound: rows of a chunk (a setting's maxRows: rows fed)
  RunRows      \* ChunkOut::run_rows: rows learned before the ring is looked at

ASSUME WindowRingAssumption ==
  /\ \A s \in Settings :
       /\ s.window \in Nat \ {0} /\ s.closed \in {"right", "both"}
       /\ s.every \in Nat /\ s.spacing \in Nat /\ (s.every > 0 \/ s.spacing > 0)
       /\ s.budget \in [kind : {"none", "thin", "refuse"}, bytes : Nat]
       /\ s.embargo \in Nat /\ s.maxRows \in Nat
       /\ s.rows \subseteq [gap : Nat, accept : BOOLEAN, opens : BOOLEAN, odd : BOOLEAN]
  /\ ChunkRows \in Nat /\ RunRows \in Nat \ {0}

VARIABLES
  setting,
  ring,      \* Snapshots: its entries, cadence, bytes held and overrun
  size,      \* the bytes of a snapshot of the model as it stands
  learned,   \* the stamps of the rows the model has learned
  now,       \* the stream's decayed clock
  pending,   \* the rows an embargo holds
  fed,       \* rows fed
  todo,      \* what is left of the chunk
  inRun,     \* the rows of the run learned
  broken,    \* Bank::broken
  foretold,  \* history: the pre-pass's verdict on the chunk
  overran,   \* history: whether the chunk took a ring past its budget
  grew       \* history: whether a snapshot was to be larger than the newest in
             \* the ring, when the chunk came or within it

stream  == <<ring, size, learned, now, pending>>
chunk   == <<fed, todo, inRun>>
vars    == <<setting, stream, chunk, broken, foretold, overran, grew>>

Small == 1
Large == 2
Refusing == setting.budget.kind = "refuse"
Thinning == setting.budget.kind = "thin"

\* No rows between snapshots at most, or no clock, is 0.
NewRing == [every |-> setting.every, spacing |-> setting.spacing, since |-> 0,
            held |-> 0, over |-> 0, snaps |-> <<>>]
BytesOf(snaps) ==
  LET sum[n \in 0 .. Len(snaps)] == IF n = 0 THEN 0 ELSE sum[n - 1] + snaps[n].bytes
  IN  sum[Len(snaps)]

-----------------------------------------------------------------------------
(* The ring.                                                               *)

\* WindowClosed::has_left.
HasLeftMutant(at, stamp) == at - stamp > setting.window
HasLeft(at, stamp) ==
  \/ at - stamp > setting.window
  \/ setting.closed = "right" /\ at - stamp = setting.window

\* Whether a row takes a snapshot.
DueMutant(r, at) ==
  \/ r.snaps = <<>>
  \/ r.every > 0 /\ r.since >= r.every
  \/ r.spacing > 0 /\ at - Last(r.snaps).at >= r.spacing
DueOnClockMutant(r, at) ==
  \/ r.snaps = <<>>
  \/ IF r.spacing > 0 THEN at - Last(r.snaps).at >= r.spacing ELSE r.since >= r.every
  \/ HasLeft(at, Last(r.snaps).at)
Due(r, at) ==
  \/ r.snaps = <<>>
  \/ r.every > 0 /\ r.since >= r.every
  \/ r.spacing > 0 /\ at - Last(r.snaps).at >= r.spacing
  \/ HasLeft(at, Last(r.snaps).at)

\* Past a thinning budget the newest snapshot and every second one before it
\* are left, and taken half as often, until they fit.
EveryOther(snaps) ==
  LET left == (Len(snaps) + 1) \div 2
  IN  [i \in 1 .. left |-> snaps[Len(snaps) - (left - i) * 2]]
Fits(snaps) == BytesOf(snaps) <= setting.budget.bytes \/ Len(snaps) = 1
HalvedMutant(r) ==
  LET snaps == EveryOther(r.snaps)
  IN  [r EXCEPT !.snaps = snaps, !.held = BytesOf(snaps)]
Halved(r) ==
  LET snaps == EveryOther(r.snaps)
  IN  [r EXCEPT !.snaps = snaps, !.every = @ * 2, !.spacing = @ * 2, !.held = BytesOf(snaps)]
Thinned(r) ==
  LET loop[n \in 0 .. Len(r.snaps)] ==
        IF n = 0 THEN r ELSE IF Fits(loop[n - 1].snaps) THEN loop[n - 1] ELSE Halved(loop[n - 1])
  IN  loop[Len(r.snaps)]
Enforce(r) ==
  IF setting.budget.kind = "none" \/ r.held <= setting.budget.bytes THEN r
  ELSE IF Refusing THEN [r EXCEPT !.over = r.held]
  ELSE Thinned(r)

\* A snapshot of the model before its next row, of `rows` rows.
Taken(r, at, bytes, rows) ==
  Enforce([r EXCEPT !.since = 0, !.held = @ + bytes,
                    !.snaps = Append(@, [at |-> at, bytes |-> bytes, rows |-> rows])])
CrossesMutant(r, bytes) == FALSE
Crosses(r, bytes) == Refusing /\ r.held + bytes > setting.budget.bytes
Offer(r, at, bytes, rows) ==
  LET next == [r EXCEPT !.since = @ + 1]
  IN  IF r.over > 0 \/ ~Due(next, at) THEN next
      ELSE IF Crosses(r, bytes) THEN [next EXCEPT !.since = 0, !.over = r.held + bytes]
      ELSE Taken(r, at, bytes, rows)

\* What has left the window leaves the ring, but for the last.
Leaving(r, at) ==
  LET stays == SelectInSeq(r.snaps, LAMBDA e : ~HasLeft(at, e.at))
  IN  IF stays > 0 THEN stays - 1
      ELSE IF r.snaps = <<>> THEN 0 ELSE Len(r.snaps) - 1
TrimMutant(r, at) ==
  [r EXCEPT !.snaps = SubSeq(@, Leaving(r, at) + 1, Len(@))]
Trim(r, at) ==
  LET n == Leaving(r, at)
  IN  [r EXCEPT !.snaps = SubSeq(@, n + 1, Len(@)),
                !.held = @ - BytesOf(SubSeq(r.snaps, 1, n))]

Learn(r, at, bytes, rows) == Trim(Offer(r, at, bytes, rows), at)

\* What a budget set anew makes of a ring.
SetBudget(r) == Enforce([r EXCEPT !.over = 0, !.held = BytesOf(r.snaps)])

-----------------------------------------------------------------------------
(* The schedule of rows: Stream::schedule and apply_label_delay.  Each row  *)
(* restarts the model or not, and then has it learn some rows.              *)

RowsBefore(s) == s.rows > 0
Restarts(s, row) == setting.session = "reset" /\ row.opens /\ RowsBefore(s)

Released(queue, at) ==
  LET stays == SelectInSeq(queue, LAMBDA h : at - h.at < setting.embargo)
  IN  IF stays = 0 THEN Len(queue) ELSE stays - 1

\* What stays held of a queue whose first n rows are learned.
StaysMutant(queue, n) == SubSeq(queue, IF n = 0 THEN 1 ELSE n, Len(queue))
Stays(queue, n) == SubSeq(queue, n + 1, Len(queue))

Scheduled(s, row) ==
  LET at   == s.now + row.gap
      kept == IF Restarts(s, row) THEN <<>> ELSE s.pending
      all  == Append(kept, [at |-> at, odd |-> row.odd])
      n    == IF setting.embargo = 0 THEN Len(all) ELSE Released(kept, at)
  IN  [now |-> at, rows |-> s.rows + 1,
       pending |-> IF row.accept THEN Stays(all, n) ELSE kept,
       plans |-> Append(s.plans,
                   [reset |-> Restarts(s, row),
                    learns |-> IF row.accept THEN SubSeq(all, 1, n) ELSE <<>>])]
Planning(s) == [now |-> s.now, rows |-> s.rows, pending |-> s.pending, plans |-> <<>>]
Schedule(s, rows) == FoldLeft(Scheduled, Planning(s), rows)

-----------------------------------------------------------------------------
(* The pre-pass.                                                           *)

\* WindowShadow::new: the ring, and the newest snapshot's size.
ShadowMutant(r, bytes) == [ring |-> [r EXCEPT !.since = 0], bytes |-> bytes]
ShadowOf(r, bytes) ==
  [ring |-> r, bytes |-> IF r.snaps = <<>> THEN bytes ELSE Last(r.snaps).bytes]
FreshShadow == ShadowOf(NewRing, Small)

CouldRefuseMutant(shadow, rows) ==
  Refusing /\ shadow.ring.held + (rows - 1) * shadow.bytes > setting.budget.bytes
CouldRefuse(shadow, rows) ==
  /\ Refusing
  /\ \/ shadow.ring.over > 0
     \/ shadow.ring.held + rows * shadow.bytes > setting.budget.bytes

\* The shadows stop at the first overrun.
ShadowLearns(s, h) ==
  IF s.ring.over > 0 THEN s ELSE [s EXCEPT !.ring = Learn(@, h.at, s.bytes, 0)]
ReplayMutant(s, plan) == FoldLeft(ShadowLearns, s, plan.learns)
Replay(s, plan) ==
  FoldLeft(ShadowLearns, IF plan.reset /\ s.ring.over = 0 THEN FreshShadow ELSE s, plan.learns)

\* The bytes a ring would reach, of a stream's rows; 0 where it would not, or
\* where the replay cannot see.
WindowPrepass(s, shadow, rows) ==
  IF ~CouldRefuse(shadow, Len(rows) + Len(s.pending)) \/ setting.drift THEN 0
  ELSE FoldLeft(Replay, shadow, Schedule(s, rows).plans).ring.over

\* session_bounds: the rows of a chunk that start the stream afresh.
Begins(row, before) == setting.session = "closes" /\ row.opens /\ before > 0
Bounds(rows) == {i \in DOMAIN rows : Begins(rows[i], fed + i - 1)}
SpanEnd(rows, i) ==
  LET later == {j \in Bounds(rows) : j > i}
  IN  IF later = {} THEN Len(rows) ELSE (CHOOSE j \in later : \A k \in later : j <= k) - 1

AsFed  == [now |-> now, rows |-> fed, pending |-> pending]
Afresh == [now |-> 0, rows |-> 0, pending |-> <<>>]
SpansMutant(rows) == {WindowPrepass(AsFed, ShadowOf(ring, size), rows)}
Spans(rows) ==
  {WindowPrepass(AsFed, ShadowOf(ring, size), SubSeq(rows, 1, SpanEnd(rows, 0)))}
    \cup {WindowPrepass(Afresh, FreshShadow, SubSeq(rows, i, SpanEnd(rows, i))) :
            i \in Bounds(rows)}
Prepass(rows) == \E bytes \in Spans(rows) : bytes > 0

-----------------------------------------------------------------------------
Init ==
  /\ setting \in Settings
  /\ ring = NewRing /\ size = Small /\ learned = <<>>
  /\ now = 0 /\ pending = <<>>
  /\ fed = 0 /\ todo = <<>> /\ inRun = 0
  /\ broken = FALSE
  /\ foretold = FALSE /\ overran = FALSE /\ grew = FALSE

\* A chunk is refused whole, or its rows are learned.  A bank with its
\* pre-pass set off takes it whatever the verdict.
Feed ==
  /\ todo = <<>> /\ ~broken
  /\ \E n \in 1 .. ChunkRows : \E rows \in [1 .. n -> setting.rows] :
       /\ fed + n <= setting.maxRows
       /\ setting.prepass => ~Prepass(rows)
       /\ todo' = rows /\ foretold' = Prepass(rows)
  /\ inRun' = 0 /\ overran' = FALSE
  /\ grew' = (ring.snaps # <<>> /\ Last(ring.snaps).bytes # size)
  /\ UNCHANGED <<setting, stream, fed, broken>>

\* What an instance is: its ring, its snapshots' size and the rows it learned.
\* A rebuilt one starts over.
NewModel == [ring |-> NewRing, size |-> Small, learned |-> <<>>]
RebuiltMutant(m) == [NewModel EXCEPT !.ring = m.ring]
Rebuilt(m) == NewModel

\* A drift that fires at a row the model learned rebuilds it.
Drifted(s, model) == IF s.n \in s.fires THEN Rebuilt(model) ELSE model

\* A row the model learns: its snapshot is offered before the row splits the
\* sums.
LearnRow(s, h) ==
  LET r     == Learn(s.model.ring, h.at, s.model.size, Len(s.model.learned))
      model == [ring |-> r, size |-> IF h.odd THEN Large ELSE s.model.size,
                learned |-> Append(s.model.learned, h.at)]
  IN  [model |-> Drifted(s, model),
       n |-> s.n + 1, fires |-> s.fires,
       over |-> s.over \/ r.over > 0, grew |-> s.grew \/ model.size # s.model.size]

LearnRows(start, rows) ==
  LET run[n \in 0 .. Len(rows)] == IF n = 0 THEN start ELSE LearnRow(run[n - 1], rows[n])
  IN  run[Len(rows)]

\* A run ends when it is full, and with its span.
RunEnds ==
  \/ inRun + 1 = RunRows
  \/ Tail(todo) = <<>>
  \/ Begins(Head(Tail(todo)), fed + 1)

\* A row is scheduled and run.  The rings are looked at after the run.
StepRow ==
  /\ todo # <<>>
  /\ LET row   == Head(todo)
         first == Begins(row, fed)
         model == IF first THEN NewModel ELSE [ring |-> ring, size |-> size, learned |-> learned]
         s     == Scheduled(Planning(IF first THEN Afresh ELSE AsFed), row)
         plan  == s.plans[1]
     IN  \E fires \in SUBSET (IF setting.drift THEN DOMAIN plan.learns ELSE {}) :
           LET run == LearnRows([model |-> IF plan.reset THEN Rebuilt(model) ELSE model,
                                 n |-> 1, fires |-> fires, over |-> FALSE, grew |-> FALSE],
                                plan.learns)
               stops == RunEnds /\ run.model.ring.over > 0
           IN  /\ ring' = run.model.ring /\ size' = run.model.size
               /\ learned' = run.model.learned
               /\ now' = s.now /\ pending' = s.pending
               /\ overran' = (overran \/ run.over) /\ grew' = (grew \/ run.grew)
               /\ broken' = stops
               /\ todo' = IF stops THEN <<>> ELSE Tail(todo)
  /\ fed' = fed + 1
  /\ inRun' = IF RunEnds THEN 0 ELSE inRun + 1
  /\ UNCHANGED <<setting, foretold>>

\* A bank is saved and loaded between its calls.
Load ==
  /\ todo = <<>> /\ ~broken
  /\ ring' = SetBudget(ring)
  /\ UNCHANGED <<setting, size, learned, now, pending, chunk, broken, foretold, overran, grew>>

Next == Feed \/ StepRow \/ Load

Spec == Init /\ [][Next]_vars

-----------------------------------------------------------------------------
Snapshot == [at : Nat, bytes : {Small, Large}, rows : Nat]
TypeOK ==
  /\ setting \in Settings
  /\ ring.every \in Nat /\ ring.spacing \in Nat /\ ring.since \in Nat
  /\ ring.held \in Nat /\ ring.over \in Nat
  /\ ToSet(ring.snaps) \subseteq Snapshot /\ size \in {Small, Large}
  /\ ToSet(learned) \subseteq 0 .. now
  /\ fed \in 0 .. setting.maxRows /\ inRun \in 0 .. RunRows - 1
  /\ Len(learned) + Len(pending) <= fed

\* A ring counts the bytes it holds, and is never past its budget but for one
\* snapshot that a thinning ring cannot do without.
BudgetHolds ==
  /\ ring.held = BytesOf(ring.snaps)
  /\ Refusing => ring.held <= setting.budget.bytes
  /\ Thinning => Fits(ring.snaps)

\* The window a model reads, while no budget stops the ring: it holds no row
\* that has left it, and its next snapshot is taken in time, on the cadence in
\* force, thinned or not.  The rows it has lost that are still inside are fewer
\* than a snapshot is taken after, counted in rows, thinned or not.  Counted on
\* the clock, they are older than the window less the spacing, but only in a
\* ring that was never thinned: a thinning drops the oldest snapshot with the
\* others, however much of the window lies behind it.
Age(i) == Last(learned) - learned[i]
Inside ==
  {i \in DOMAIN learned : Age(i) < setting.window + IF setting.closed = "both" THEN 1 ELSE 0}
Kept   == {i \in DOMAIN learned : i > ring.snaps[1].rows}
Lost   == Inside \ Kept
LostToCadence ==
  /\ ring.every > 0 => \A i \in Lost : ring.snaps[1].rows - i < ring.every - 1
  /\ setting.spacing > 0 /\ ring.spacing = setting.spacing =>
       \A i \in Lost : Age(i) > setting.window - setting.spacing
NextInTime ==
  LET newest == Last(ring.snaps)
  IN  /\ ring.since = Len(learned) - newest.rows - 1
      /\ ring.every > 0 => ring.since < ring.every
      /\ ring.spacing > 0 => Last(learned) - newest.at < ring.spacing
      /\ newest.rows + 1 \in Inside
WindowKept ==
  learned # <<>> /\ ring.over = 0 =>
    /\ Kept \subseteq Inside /\ Len(learned) \in Kept
    /\ NextInTime
    /\ LostToCadence

\* The pre-pass says of a chunk what its rows would do: one it passes takes no
\* ring past its budget, and one it refuses would have.  Under drift restarts it
\* says nothing, and where the snapshots have grown past the newest in the ring
\* it may see too few bytes, never too many.
PrepassExact ==
  todo = <<>> =>
    /\ foretold => overran
    /\ overran => foretold \/ setting.drift \/ grew

\* README.md: two overruns are found only as the rows go in, one under drift
\* restarts, "the other is a snapshot that grows within the chunk", and "After
\* either, the bank refuses every call that follows".
OverrunStops == todo = <<>> /\ overran => broken
=============================================================================
