-------------------------------- MODULE Clock --------------------------------
(***************************************************************************)
(* The clock of a stream (crates/online-core/src/clock.rs): each row moves *)
(* it, a row the model skips included, and what a learned row gets is the  *)
(* step the model decays by, the time that passed, and its place on the    *)
(* decayed and on the elapsed clock.  The places are kept in two forms:    *)
(* integer nanoseconds summed (a temporal clock), and the raw value beside *)
(* the time the caps and the session steps removed (a number clock).  Here *)
(* one stream keeps both, in whole units; what a double rounds is left     *)
(* out, and with it the integer clock's copy of the second form.           *)
(*                                                                         *)
(* A chunk is checked on a copy of the clock before any of its rows is     *)
(* learned (Stream::check_clock), and then learned row by row.             *)
(***************************************************************************)
EXTENDS Integers, Sequences

CONSTANTS
  Values,     \* what a clock column may hold
  Sessions,   \* what a session column may hold
  Configs,    \* the clock settings of a stream
  ChunkRows,  \* bound: rows of a chunk
  MaxRows     \* bound: rows fed

ASSUME ClockAssumption ==
  /\ Values \subseteq Int /\ Sessions \subseteq Nat \ {0}
  /\ ChunkRows \in Nat /\ MaxRows \in Nat
  /\ Configs \subseteq
       [column : BOOLEAN,                    \* a clock column, or the row count
        cap : Nat \ {0},                     \* gap_cap
        policy : {"error", "reset_state"},   \* on_clock_reset
        minBack : Nat,                       \* min_backwards_jump
        gap : {"none", "reset", "gap"},      \* session_gap, and
        gapBy : Nat]                         \* the step it gives

\* The row count's cap is infinite: no run of MaxRows rows reaches it.
ASSUME RowCountAssumption ==
  \A c \in Configs : ~c.column => c.cap >= MaxRows * (1 + c.gapBy)

\* A session_gap needs a session column, and a stream with one needs it.
NoSession == 0
ClockRows == [at : Values, session : Sessions \cup {NoSession}, accept : BOOLEAN]
Chunks    == UNION {[1 .. n -> ClockRows] : n \in 1 .. ChunkRows}

VARIABLES
  cfg,     \* the settings of the stream
  clock,   \* ClockState
  adv,     \* the ClockAdvance of the last row
  base,    \* history: the raw value of the row the clock started at
  last,    \* history: the stamps of the last accepted row, if any since then
  gap,     \* history: whether the session changed since that row, and
           \* whether the rows lagged behind it were dropped
  todo,    \* the rows of the checked chunk that are still to be learned
  rowsFed  \* bounds the run

vars == <<cfg, clock, adv, base, last, gap, todo, rowsFed>>

HasSession(r) == r.session # NoSession

NoExact == [removed |-> 0, elapsedRemoved |-> 0, rows |-> 0,
            ns |-> 0, skippedNs |-> 0, elapsedNs |-> 0]
New     == [started |-> FALSE, prev |-> 0, session |-> NoSession,
            pending |-> 0, skippedElapsed |-> 0, exact |-> NoExact]
NoStamp == [raw |-> 0, ns |-> 0, elapsedRaw |-> 0, elapsedNs |-> 0]
NoRow   == [accepted |-> FALSE, reset |-> FALSE, refused |-> FALSE,
            changed |-> FALSE, capped |-> FALSE, dClock |-> 0, elapsed |-> 0,
            stamp |-> NoStamp]

Least(a, b) == IF a <= b THEN a ELSE b
Clamped(x)  == IF x < 0 THEN 0 ELSE Least(x, cfg.cap)

-----------------------------------------------------------------------------
\* The step of a row since the row before it.
Raw(c, r)     == IF cfg.column THEN r.at - c.prev ELSE 1
Changed(c, r) == c.started /\ r.session # c.session

\* step_back: whether a step back within a session is refused, or a restart.
RefusedBack(raw) == cfg.policy = "error" \/ -raw <= cfg.minBack

StepsBack(c, r) == c.started /\ ~Changed(c, r) /\ Raw(c, r) < 0
Resets(c, r) ==
  \/ Changed(c, r) /\ cfg.gap = "reset"
  \/ StepsBack(c, r) /\ ~RefusedBack(Raw(c, r))

\* What the model sees of the step, and whether the step is past the cap.
Step(c, r) ==
  IF ~c.started \/ Resets(c, r) \/ StepsBack(c, r) THEN 0
  ELSE IF Changed(c, r) /\ cfg.gap = "gap" THEN Clamped(cfg.gapBy)
  ELSE Clamped(Raw(c, r))
OwnCap(c, r) ==
  /\ c.started /\ ~Resets(c, r)
  /\ IF Changed(c, r) /\ cfg.gap = "gap" THEN cfg.gapBy > cfg.cap
     ELSE Raw(c, r) > cfg.cap

\* The time that passed: a step forward; across a session change that
\* restarts the clock, the session's gap.
Elapsed(c, r) ==
  IF ~c.started \/ Resets(c, r) THEN 0
  ELSE IF Raw(c, r) >= 0 THEN Raw(c, r)
  ELSE IF Changed(c, r) /\ cfg.gap = "gap" THEN cfg.gapBy ELSE 0

\* Exact::step: the two forms of the decayed and of the elapsed clock.  A
\* skipped row's step waits for the next accepted one, under the cap again.
Folded(e, total) == e.ns + Least(total, cfg.cap)
ExactStep(c, r) ==
  LET e       == IF Resets(c, r) THEN NoExact ELSE c.exact
      moves   == c.started /\ ~Resets(c, r)
      raw     == IF moves THEN Raw(c, r) ELSE 0
      d       == Step(c, r)
      pending == IF Resets(c, r) THEN 0 ELSE c.pending
      over    == IF r.accept /\ pending + d > cfg.cap THEN pending + d - cfg.cap ELSE 0
  IN  [removed        |-> e.removed + (raw - d) + over,
       elapsedRemoved |-> e.elapsedRemoved + (raw - Elapsed(c, r)),
       rows           |-> e.rows + 1,
       ns             |-> IF r.accept THEN Folded(e, e.skippedNs + d) ELSE e.ns,
       skippedNs      |-> IF r.accept THEN 0 ELSE e.skippedNs + d,
       elapsedNs      |-> e.elapsedNs + Elapsed(c, r)]

\* The ceiling holds for the total a run of skipped rows carries.
Seen(total) == Least(total, cfg.cap)

\* The stamps of an accepted row: its raw value, or its place in the stream,
\* less what was removed; or the summed nanoseconds.
StampOf(r, e) ==
  LET value == IF cfg.column THEN r.at ELSE e.rows - 1
  IN  [raw |-> value - e.removed, ns |-> e.ns,
       elapsedRaw |-> value - e.elapsedRemoved, elapsedNs |-> e.elapsedNs]

\* ClockState::step_any: the state a row leaves and what its caller gets.
StepAny(c, r) ==
  LET e       == ExactStep(c, r)
      total   == (IF Resets(c, r) THEN 0 ELSE c.pending) + Step(c, r)
      waited  == (IF Resets(c, r) THEN 0 ELSE c.skippedElapsed) + Elapsed(c, r)
      refused == StepsBack(c, r) /\ RefusedBack(Raw(c, r))
  IN  [clock |-> [started |-> TRUE, prev |-> r.at, session |-> r.session,
                  pending |-> IF r.accept THEN 0 ELSE total,
                  skippedElapsed |-> IF r.accept THEN 0 ELSE waited,
                  exact |-> e],
       adv |-> [accepted |-> r.accept, reset |-> Resets(c, r), refused |-> refused,
                changed |-> Changed(c, r),
                capped |-> OwnCap(c, r) \/ (r.accept /\ total > cfg.cap),
                dClock |-> IF r.accept THEN Seen(total) ELSE 0,
                elapsed |-> IF r.accept THEN waited ELSE 0,
                stamp |-> IF r.accept THEN StampOf(r, e) ELSE NoStamp]]

\* step_forward and ns_forward: the row almost every row is, a step forward
\* within its session, learned, past the stream's first.
ForwardTakes(c, r) ==
  /\ cfg.column /\ r.accept /\ c.started
  /\ ~Changed(c, r) /\ r.at - c.prev >= 0
ForwardTotalMutant(c, d) == d
ForwardTotal(c, d) == c.pending + d
Forward(c, r) ==
  LET raw   == r.at - c.prev
      d     == IF raw > cfg.cap THEN cfg.cap ELSE raw
      total == ForwardTotal(c, d)
      over  == IF total > cfg.cap THEN total - cfg.cap ELSE 0
      e     == [removed        |-> c.exact.removed + (raw - d) + over,
                elapsedRemoved |-> c.exact.elapsedRemoved,
                rows           |-> c.exact.rows + 1,
                ns             |-> Folded(c.exact, c.exact.skippedNs + d),
                skippedNs      |-> 0,
                elapsedNs      |-> c.exact.elapsedNs + raw]
  IN  [clock |-> [started |-> TRUE, prev |-> r.at, session |-> r.session,
                  pending |-> 0, skippedElapsed |-> 0, exact |-> e],
       adv |-> [accepted |-> TRUE, reset |-> FALSE, refused |-> FALSE,
                changed |-> FALSE, capped |-> raw > cfg.cap \/ over > 0,
                dClock |-> Seen(total), elapsed |-> c.skippedElapsed + raw,
                stamp |-> StampOf(r, e)]]

Advance(c, r) == IF ForwardTakes(c, r) THEN Forward(c, r) ELSE StepAny(c, r)

-----------------------------------------------------------------------------
\* (The definitions named *Mutant, which no action uses, are those of a
\* plausible mistake.)
\* ClockState::refusal, moving a copy of the previous row's clock and session.
RefusalMutant(c, r) == c.started /\ r.at < c.prev /\ -(r.at - c.prev) < cfg.minBack
Refusal(c, r) ==
  c.started /\ r.session = c.session /\ r.at < c.prev /\ RefusedBack(r.at - c.prev)

\* Stream::check_clock: a row of the chunk is refused.  Each row is checked
\* after the one before it.
CopyAt(c, chunk, i) ==
  IF i = 1 THEN c
  ELSE [c EXCEPT !.started = TRUE, !.prev = chunk[i - 1].at,
                 !.session = chunk[i - 1].session]
CheckClock(c, chunk) ==
  /\ cfg.column /\ (cfg.policy = "error" \/ cfg.minBack > 0)
  /\ \E i \in 1 .. Len(chunk) : Refusal(CopyAt(c, chunk, i), chunk[i])

Init ==
  /\ cfg \in Configs
  /\ clock = New /\ adv = NoRow /\ base = 0
  /\ last = <<>> /\ gap = [changed |-> FALSE, dropped |-> FALSE]
  /\ todo = <<>> /\ rowsFed = 0

\* A chunk comes.  Refused, it leaves the stream as it was.
Feed ==
  /\ todo = <<>>
  /\ \E chunk \in Chunks :
       /\ rowsFed + Len(chunk) <= MaxRows
       /\ \A i \in 1 .. Len(chunk) : HasSession(chunk[i]) <=> cfg.gap # "none"
       /\ IF CheckClock(clock, chunk) THEN UNCHANGED <<todo, rowsFed>>
          ELSE todo' = chunk /\ rowsFed' = rowsFed + Len(chunk)
  /\ UNCHANGED <<cfg, clock, adv, base, last, gap>>

\* A row of it is scheduled.  The rows lagged behind a model's last one are
\* dropped at a capped gap and at a session change, on a skipped row too.
DroppedMutant(a, g) == a.accepted /\ (a.changed \/ a.capped)
Dropped(a, g) == g.dropped \/ a.changed \/ a.capped
Row ==
  /\ todo # <<>> /\ todo' = Tail(todo)
  /\ LET r     == Head(todo)
         out   == Advance(clock, r)
         fresh == ~clock.started \/ out.adv.reset
         since == IF fresh \/ adv.accepted THEN [changed |-> FALSE, dropped |-> FALSE]
                  ELSE gap
     IN  /\ clock' = out.clock /\ adv' = out.adv
         /\ base' = IF ~fresh THEN base ELSE IF cfg.column THEN r.at ELSE 0
         /\ last' = IF r.accept THEN <<out.adv.stamp>> ELSE IF fresh THEN <<>> ELSE last
         /\ gap' = IF fresh THEN since
                   ELSE [changed |-> since.changed \/ out.adv.changed,
                         dropped |-> Dropped(out.adv, since)]
  /\ UNCHANGED <<cfg, rowsFed>>

Next == Feed \/ Row

Spec == Init /\ [][Next]_vars

-----------------------------------------------------------------------------
Stamps == [raw : Int, ns : Int, elapsedRaw : Int, elapsedNs : Int]

TypeOK ==
  /\ cfg \in Configs
  /\ clock \in [started : BOOLEAN, prev : Int, session : Nat, pending : Nat,
                skippedElapsed : Nat,
                exact : [removed : Int, elapsedRemoved : Int, rows : Nat,
                         ns : Nat, skippedNs : Nat, elapsedNs : Nat]]
  /\ adv \in [accepted : BOOLEAN, reset : BOOLEAN, refused : BOOLEAN,
              changed : BOOLEAN, capped : BOOLEAN, dClock : Nat, elapsed : Nat,
              stamp : Stamps]
  /\ base \in Int
  /\ last \in Seq(Stamps)
  /\ gap \in [changed : BOOLEAN, dropped : BOOLEAN]
  /\ todo \in Seq(ClockRows) /\ rowsFed \in Nat

\* No row of a checked chunk is refused once rows of it have been learned:
\* what check_clock decides on its copy is what advance_stamped decides.
NothingRefusedLate == ~adv.refused

\* The two forms of a stamp are one clock: they differ by the value the
\* clock started at, on the decayed and on the elapsed clock.
FormsAgree ==
  adv.accepted =>
    /\ adv.stamp.raw = base + adv.stamp.ns
    /\ adv.stamp.elapsedRaw = base + adv.stamp.elapsedNs

\* The steps a model is handed add up to the stamps: between two accepted
\* rows the decayed clock moves by d_clock and the elapsed clock by elapsed,
\* whatever was skipped between them.
AddsUp ==
  todo # <<>> /\ last # <<>> /\ adv'.accepted /\ ~adv'.reset =>
    /\ adv'.stamp.ns - last[1].ns = adv'.dClock
    /\ adv'.stamp.raw - last[1].raw = adv'.dClock
    /\ adv'.stamp.elapsedNs - last[1].elapsedNs = adv'.elapsed
    /\ adv'.stamp.elapsedRaw - last[1].elapsedRaw = adv'.elapsed
StampsAddUp == [][AddsUp]_vars

\* A model never sees more than the cap between two rows it learns from, and
\* never more time than passed but at a session change.
StepWithinCap ==
  adv.accepted =>
    adv.dClock <= cfg.cap /\ (gap.changed \/ adv.dClock <= adv.elapsed)

\* Within a session the rows behind an accepted row are dropped exactly when
\* more time passed since the last accepted one than the cap, however many
\* skipped rows, capped or not, are between them.
DroppedAcrossGap ==
  adv.accepted /\ cfg.column /\ ~gap.changed =>
    (gap.dropped <=> adv.elapsed > cfg.cap)

\* The short cuts take a row as the general step takes it.
ForwardIsStep ==
  todo # <<>> /\ ForwardTakes(clock, Head(todo)) =>
    Forward(clock, Head(todo)) = StepAny(clock, Head(todo))

-----------------------------------------------------------------------------
(* Why they hold: the two forms are one clock at every row, skipped ones    *)
(* included, and what waits in one waits in the other; the steps that wait  *)
(* are the time that waits until a session change or a cap; and what is     *)
(* left of a checked chunk would be passed again.                           *)
Place == IF cfg.column THEN clock.prev ELSE clock.exact.rows - 1

FreshClock ==
  ~clock.started =>
    clock = New /\ adv = NoRow /\ last = <<>> /\ ~gap.changed /\ ~gap.dropped

TwoForms ==
  clock.started =>
    /\ Place - clock.exact.removed = base + clock.exact.ns + clock.exact.skippedNs
    /\ Place - clock.exact.elapsedRemoved = base + clock.exact.elapsedNs
    /\ clock.pending = clock.exact.skippedNs

LastStamps ==
  last # <<>> =>
    /\ clock.started
    /\ last[1].ns = clock.exact.ns /\ last[1].raw = base + clock.exact.ns
    /\ last[1].elapsedNs = clock.exact.elapsedNs - clock.skippedElapsed
    /\ last[1].elapsedRaw = base + last[1].elapsedNs

Waiting ==
  /\ adv.accepted => clock.pending = 0 /\ clock.skippedElapsed = 0
  /\ ~adv.accepted /\ ~gap.changed =>
       /\ clock.pending <= clock.skippedElapsed
       /\ ~gap.dropped => clock.pending = clock.skippedElapsed
       /\ gap.dropped => clock.skippedElapsed > cfg.cap

Checked == todo # <<>> => ~CheckClock(clock, todo)

Inv ==
  /\ TypeOK /\ FreshClock /\ TwoForms /\ LastStamps /\ Waiting /\ Checked
  /\ FormsAgree /\ StepWithinCap /\ DroppedAcrossGap /\ NothingRefusedLate
=============================================================================
