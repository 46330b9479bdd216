------------------------------ MODULE Windows ------------------------------
(***************************************************************************)
(* The window core (crates/online-polars/src/windows.rs): operators over a *)
(* stream of grouped rows, looking back and ahead, in one pass.            *)
(*                                                                         *)
(* Each operator has a kernel with a queue of two stacks per group.  A row *)
(* is held until every kernel has resolved its window over it: one looking *)
(* back when its stamp has passed, one looking ahead when a row past its   *)
(* far edge comes, or an event ends the group's stretch of rows; rows then *)
(* leave in input order.                                                   *)
(*                                                                         *)
(* A row is named by its place in the input.  What a window's arithmetic   *)
(* makes of a row's value is abstracted to a piece: which value is counted,*)
(* over which time it is held, and whether the row brought it itself.  The *)
(* sums a queue keeps are sequences of pieces.                             *)
(***************************************************************************)
EXTENDS Integers, FiniteSets, SequencesExt

CONSTANT Settings   \* kernels, the clock's policy and the rows of a stream

ASSUME WindowsAssumption ==
  \A s \in Settings :
    /\ \A k \in DOMAIN s.kernels : s.kernels[k].window > 0 \/ s.kernels[k].back
    \* Without a clock column a row is a step of 1, and no cap is met.
    /\ s.clocked \/ \A row \in s.rows : row.at = 1 /\ row.at <= s.gapCap

VARIABLES
  setting,
  shared,   \* Windows::shared, the stream's clock
  groups,   \* Windows::groups
  listed,   \* the silent list, the group of the oldest last row first
  held,     \* held_meta and held_values
  ready,    \* how many held rows every kernel has resolved
  finished,
  input,    \* history: the rows fed
  output    \* history: the rows out

vars == <<setting, shared, groups, listed, held, ready, finished, input, output>>

Kernel(k) == setting.kernels[k]
Kernels   == DOMAIN setting.kernels
Forward   == {k \in Kernels : ~Kernel(k).back}
Windowed(k) == Kernel(k).window > 0
Mean(k) == Kernel(k).stat = "mean"

\* Closed::near and far: whether the row's own stamp, and the stamp a window
\* away, are in the window.
Near(k) == Kernel(k).closed \in {"both", IF Kernel(k).back THEN "right" ELSE "left"}
Far(k)  == Kernel(k).closed \in {"both", IF Kernel(k).back THEN "left" ELSE "right"}
Waits   == {k \in Kernels : Kernel(k).back /\ Near(k)}

\* Whether a row so far from another is past its window, by the far edge.
BeyondMutant(k, gap) == gap > Kernel(k).window
Beyond(k, gap) == IF Far(k) THEN gap >  Kernel(k).window ELSE gap >= Kernel(k).window
\* Whether it is not yet in a window that looks ahead, by the near edge.
Behind(k, gap) == IF Near(k) THEN gap < 0 ELSE gap <= 0

Ever == -9    \* before any clock: where a value with no window is held from
None == 0     \* no row
NoWindow == [parts |-> {}, mass |-> 0, span |-> 0]

-----------------------------------------------------------------------------
(* Pieces, and an operator's value from those in its window (value_of): the*)
(* rows a sum counts, or the time each value is held, and a rate's span.   *)

Piece(by, from, to, own) == [by |-> by, from |-> from, to |-> to, own |-> own]
Length(k, p) == IF ~Mean(k) THEN 1 ELSE IF p.to > p.from THEN p.to - p.from ELSE 0
Parts(k, p) ==
  {<<p.by, t>> : t \in IF Mean(k) THEN p.from .. p.to - 1 ELSE {p.from}}
ValueOf(k, pieces, span) ==
  LET mass == FoldLeft(LAMBDA m, p : m + Length(k, p), 0, pieces)
  IN  IF (\A i \in DOMAIN pieces : ~pieces[i].own) \/ mass = 0 THEN NoWindow
      ELSE [parts |-> UNION {Parts(k, pieces[i]) : i \in DOMAIN pieces}, mass |-> mass,
            span  |-> IF Kernel(k).stat = "rate" THEN span ELSE 0]

-----------------------------------------------------------------------------
(* The queue.  A row in it has the sums from itself to the newest of the   *)
(* front stack, or from the oldest of the back stack to itself.            *)

NoMemo   == [tail |-> <<>>, valuedFrom |-> 0]
NewQueue == [front |-> <<>>, back |-> <<>>, total |-> <<>>, memo |-> NoMemo]
Oldest(q) == Reverse(q.front) \o q.back
Sums(rows) == IF rows = <<>> THEN <<>> ELSE Last(rows).sums

Push(k, q, row) ==
  IF Windowed(k) THEN [q EXCEPT !.back = Append(@, [row EXCEPT !.sums = Sums(q.back) \o row.own])]
  ELSE [q EXCEPT !.total = @ \o row.own]

\* Queue::settle: the back stack turned over into an empty front one.
Settle(q) ==
  IF q.front # <<>> THEN q
  ELSE [q EXCEPT !.back = <<>>,
                 !.front = FoldLeft(LAMBDA f, row :
                                      Append(f, [row EXCEPT !.sums = row.own \o Sums(f)]),
                                    <<>>, Reverse(q.back))]

\* Queue::evict, of the rows no longer in a window, up to the first that is.
Evict(q, stale) ==
  LET fresh  == Min((1 .. Len(q.front) + Len(q.back) + 1) \ stale)
      pop(m) == [q EXCEPT !.front = SubSeq(@, 1, Len(@) - m)]
      turned(m) == [Settle([q EXCEPT !.front = <<>>]) EXCEPT !.front = SubSeq(@, 1, Len(@) - m)]
  IN  IF fresh <= Len(q.front) THEN pop(fresh - 1) ELSE turned(fresh - 1 - Len(q.front))

SumOp(k, q) == IF Windowed(k) THEN Sums(q.front) \o Sums(q.back) ELSE q.total

\* Queue::sum_after_op: the sums less the p oldest rows, and the queue.  A sum
\* of back's rows from one on is kept, and extended while it is of those rows.
TailOfMutant(q, from) ==
  q.memo.tail # <<>> /\ q.memo.tail[1].from = from /\ q.memo.tail[1].upto <= Len(q.back)
TailOf(q, from) ==
  /\ q.memo.tail # <<>>
  /\ LET t == q.memo.tail[1]
     IN  /\ t.from = from /\ t.upto <= Len(q.back)
         /\ q.back[from].seq = t.fromSeq /\ q.back[t.upto].seq = t.uptoSeq
SumAfter(q, p) ==
  LET n    == Len(q.front)
      from == p + 1 - n
      kept == IF TailOf(q, from) THEN q.memo.tail[1] ELSE [upto |-> from - 1, sum |-> <<>>]
      sum  == FoldLeft(LAMBDA s, row : s \o row.own, kept.sum,
                       SubSeq(q.back, kept.upto + 1, Len(q.back)))
  IN  IF p < n THEN [sum |-> q.front[n - p].sums \o Sums(q.back), queue |-> q]
      ELSE IF from > Len(q.back) THEN [sum |-> <<>>, queue |-> q]
      ELSE [sum |-> sum,
            queue |-> [q EXCEPT !.memo.tail =
              <<[from |-> from, fromSeq |-> q.back[from].seq, upto |-> Len(q.back),
                 uptoSeq |-> Last(q.back).seq, sum |-> sum]>>]]

\* Queue::find_oldest: the place, from the oldest, of the first row with a
\* value of its own, and the queue.  The rows before one already found, or
\* found not to be there, are not searched again.
SearchedToMutant(q, place) == (IF Oldest(q) = <<>> THEN q.memo.valuedFrom ELSE Last(Oldest(q)).seq) + 1
SearchedTo(q, place) ==
  IF place > 0 THEN Oldest(q)[place].seq
  ELSE IF Oldest(q) = <<>> THEN q.memo.valuedFrom ELSE Last(Oldest(q)).seq + 1
FindOldest(q) ==
  LET place == SelectInSeq(Oldest(q), LAMBDA row : row.seq >= q.memo.valuedFrom /\ row.valued)
  IN  [place |-> place,
       queue |-> [q EXCEPT !.memo.valuedFrom = SearchedTo(q, place)]]

\* Queue::clear, which leaves the memo.
Clear(q) == [NewQueue EXCEPT !.memo = q.memo]

-----------------------------------------------------------------------------
(* The clocks (ClockState::advance, of a row that is accepted).            *)

NewClock == [started |-> FALSE, at |-> 0, session |-> 0]
Advance(c, row, session) ==
  LET changed == c.started /\ session # c.session
      step    == IF setting.clocked THEN row.at - c.at ELSE 1
      back    == c.started /\ ~changed /\ step < 0
      far     == -step > setting.minBack
  IN  [clock   |-> [started |-> TRUE, at |-> row.at, session |-> session],
       refused |-> back /\ ~far,
       reset   |-> (back /\ far) \/ (changed /\ setting.session = "reset"),
       cut     |-> changed \/ (c.started /\ step > setting.gapCap)]

\* Windows::step_clocks: the stream's clock takes no session of a group's, and
\* where it restarts every group's does.
StepClocks(row) ==
  LET stream == Advance(shared, row, IF setting.grouped THEN 0 ELSE row.session)
      clock  == IF stream.reset THEN NewClock ELSE groups[row.group].clock
  IN  [stream |-> stream, own |-> Advance(clock, row, row.session)]

-----------------------------------------------------------------------------
(* What a row does, on w: the groups, the silent list and the held rows.   *)

NewGroup ==
  [clock |-> NewClock, at |-> 0, origin |-> 0, restart |-> TRUE, stamp |-> Ever,
   queues |-> [k \in Kernels |-> NewQueue], open |-> [k \in Kernels |-> <<>>],
   waiting |-> <<>>, closed |-> [k \in Kernels |-> 0], pending |-> <<>>,
   lastValued |-> [k \in Kernels |-> Ever], stampValues |-> [k \in Kernels |-> NoWindow]]

InOrder(s) == SetToSortSeq(s, LAMBDA a, b : a < b)
Place(seq) == seq - Len(output)   \* of a held row

\* read_backward: the window at the group's last row, with the queue.  The held
\* value of the oldest row in it is cut at the window's edge.
ReadAll(k, q, span) == [value |-> ValueOf(k, SumOp(k, q), span), queue |-> q]
ReadCut(k, first, rest, span) ==
  [value |-> ValueOf(k, <<first>> \o rest.sum, span), queue |-> rest.queue]
ReadHeld(k, found, edge, span) ==
  LET first == Oldest(found.queue)[found.place].own[1]
  IN  IF found.place > 0 /\ first.from < edge
      THEN ReadCut(k, [first EXCEPT !.from = edge], SumAfter(found.queue, found.place), span)
      ELSE ReadAll(k, found.queue, span)
Past(k, rows, now) == {i \in DOMAIN rows : Beyond(k, now - rows[i].at)}
Shorter(m, n) == IF m < n THEN m ELSE n
ReadBackward(k, g) ==
  LET q     == g.queues[k]
      width == Kernel(k).window
      live  == Evict(q, Past(k, Oldest(q), g.at))
  IN  IF ~Windowed(k) THEN ReadAll(k, q, g.at - g.origin)
      ELSE IF Mean(k)
      THEN ReadHeld(k, FindOldest(live), g.at - width, Shorter(width, g.at - g.origin))
      ELSE ReadAll(k, live, Shorter(width, g.at - g.origin))

\* write_backward, for one row.
WriteBackward(rows, k, g, seq, value) ==
  LET complete == ~Windowed(k) \/ g.at - g.origin >= Kernel(k).window
      partial  == Kernel(k).partial
      r        == Place(seq)
  IN  [rows EXCEPT ![r].drop = @ \/ (~complete /\ partial = "drop"),
                   ![r].values[k] = IF complete \/ partial = "keep" THEN value ELSE @]

\* flush_group: the windows that look back at the group's stamp.
FlushGroup(w, i) ==
  LET g    == w.groups[i]
      read == [k \in Kernels |-> IF k \in Waits THEN ReadBackward(k, g)
                                 ELSE [value |-> NoWindow, queue |-> g.queues[k]]]
      write(rows, seq) ==
        [FoldLeft(LAMBDA h, k : WriteBackward(h, k, g, seq, read[k].value), rows, InOrder(Waits))
           EXCEPT ![Place(seq)].open = @ - 1]
  IN  IF g.pending = <<>> THEN w
      ELSE [w EXCEPT !.groups[i].queues = [k \in Kernels |-> read[k].queue],
                     !.groups[i].pending = <<>>,
                     !.held = FoldLeft(write, @, g.pending)]

\* close: kernel k's window over waiting row t, up to `far`, with the open row,
\* whose value is held up to `end`.
Joins(k, open, t) ==
  open # <<>> /\ ~Behind(k, open[1].at - t.at) /\ ~Beyond(k, open[1].at - t.at)
OpenPiece(k, open, end) ==
  LET row == open[1]
  IN  IF Mean(k) /\ row.by # None THEN <<Piece(row.by, row.at, end, row.valued)>>
      ELSE IF ~Mean(k) /\ row.valued THEN <<Piece(row.seq, row.at, row.at, TRUE)>>
      ELSE <<>>
Base(k, found) ==
  IF ~Mean(k) \/ found.place = 1 THEN [sum |-> SumOp(k, found.queue), queue |-> found.queue]
  ELSE IF found.place = 0 THEN [sum |-> <<>>, queue |-> found.queue]
  ELSE SumAfter(found.queue, found.place - 1)
WithOpen(k, base, piece, span) ==
  [value |-> ValueOf(k, base.sum \o piece, span), queue |-> base.queue]
ReadForward(k, found, open, t, end, far) ==
  LET counts == Joins(k, open, t) /\ (Mean(k) => open[1].valued \/ found.place > 0)
  IN  WithOpen(k, Base(k, found),
               IF counts THEN OpenPiece(k, open, Shorter(end, far)) ELSE <<>>, far - t.at)
Early(k, rows, t) == {j \in DOMAIN rows : Behind(k, rows[j].at - t.at)}
Resolve(w, i, k, r, how, read) ==
  [w EXCEPT !.groups[i].queues[k] = read.queue,
            !.groups[i].closed[k] = @ + 1,
            !.held[r].open = @ - 1,
            !.held[r].drop = @ \/ (how = "cut" /\ Kernel(k).partial = "drop"),
            !.held[r].values[k] = read.value]
Close(w, i, k, t, how, end, edge) ==
  LET q     == w.groups[i].queues[k]
      live  == Evict(q, Early(k, Oldest(q), t))
      keeps == /\ how = "complete" \/ (how = "cut" /\ Kernel(k).partial = "keep")
               /\ w.held[Place(t.seq)].accept
      found == IF Mean(k) THEN FindOldest(live) ELSE [place |-> 0, queue |-> live]
  IN  Resolve(w, i, k, Place(t.seq), how,
              IF keeps THEN ReadForward(k, found, w.groups[i].open[k], t, end,
                                        Shorter(edge, t.at + Kernel(k).window))
              ELSE [value |-> NoWindow, queue |-> live])

\* retire: waiting rows every kernel that looks ahead has closed.
Retire(g) ==
  LET done == IF Forward = {} THEN 0 ELSE Min({g.closed[k] : k \in Forward})
  IN  [g EXCEPT !.waiting = SubSeq(@, done + 1, Len(@)),
                !.closed = [k \in Kernels |-> IF k \in Forward THEN @[k] - done ELSE @[k]]]

\* end_group: an event ends the group's windows.  One whose far edge is the
\* last row is whole, under the edges that hold that row.
WholeMutant(k, g, t) == FALSE
Whole(k, g, t) == Far(k) /\ g.at - t.at = Kernel(k).window
Left(g, k) == SubSeq(g.waiting, g.closed[k] + 1, Len(g.waiting))
EndForward(w, i, k, how) ==
  LET g == w.groups[i]
      end(v, t) == Close(v, i, k, t, IF Whole(k, g, t) THEN "complete" ELSE how, g.at, g.at)
  IN  [FoldLeft(end, w, Left(g, k)) EXCEPT !.groups[i].open[k] = <<>>,
                                           !.groups[i].queues[k] = Clear(@)]
EndGroup(w, i, how) ==
  [FoldLeft(LAMBDA v, k : EndForward(v, i, k, how), FlushGroup(w, i), InOrder(Forward))
     EXCEPT !.groups[i] = [Retire(@) EXCEPT !.restart = TRUE], !.listed = Remove(@, i)]

EndAll(w, how) == FoldLeft(LAMBDA v, i : EndGroup(v, i, how), w, InOrder(DOMAIN w.groups))

\* end_silent: the groups at the list's head that a gap cap is past.
EndSilent(w, now) ==
  LET recent == SelectInSeq(w.listed, LAMBDA i : now - w.groups[i].stamp <= setting.gapCap)
      silent == SubSeq(w.listed, 1, IF recent = 0 THEN Len(w.listed) ELSE recent - 1)
  IN  FoldLeft(LAMBDA v, i : EndGroup(v, i, "cut"), w, silent)

\* flush_stamps_before: from the list's tail, while groups wait at an earlier
\* stamp.
FlushStampsBefore(w, now) ==
  LET waits(i) == setting.clocked /\ w.groups[i].pending # <<>> /\ w.groups[i].stamp < now
      stop == SelectLastInSeq(w.listed, LAMBDA i : ~waits(i))
  IN  FoldLeft(FlushGroup, w, SubSeq(w.listed, stop + 1, Len(w.listed)))

-----------------------------------------------------------------------------
(* Windows::push.                                                          *)

\* The group's clock and last row; the first of a stretch starts it over.
Enters(w, row, clock) ==
  LET g     == w.groups[row.group]
      moved == [g EXCEPT !.clock = clock, !.at = clock.at]
      fresh == [NewGroup EXCEPT !.clock = clock, !.at = clock.at, !.origin = clock.at,
                                !.restart = FALSE, !.stampValues = g.stampValues,
                                !.queues = [k \in Kernels |-> Clear(g.queues[k])]]
  IN  [w EXCEPT !.groups[row.group] = IF g.restart THEN fresh ELSE moved]

\* The windows that look ahead to this row close, the row before it joins the
\* queue, and this one is open.
JoinsQueue(k, q, open, at) ==
  IF open = <<>> THEN q
  ELSE Push(k, q, [seq |-> open[1].seq, at |-> open[1].at, valued |-> open[1].valued,
                   own |-> OpenPiece(k, open, at), sums |-> <<>>])
Passed(k, g) ==
  LET open == SelectInSeq(Left(g, k), LAMBDA t : ~Beyond(k, g.at - t.at))
  IN  SubSeq(Left(g, k), 1, IF open = 0 THEN Len(Left(g, k)) ELSE open - 1)
LearnForward(w, k, row, seq) ==
  LET i == row.group
      g == w.groups[i]
      close(v, t) == Close(v, i, k, t, "complete", g.at, t.at + Kernel(k).window)
      before == IF g.open[k] = <<>> THEN None ELSE g.open[k][1].by
  IN  [FoldLeft(close, w, Passed(k, g)) EXCEPT
         !.groups[i].queues[k] = JoinsQueue(k, @, g.open[k], g.at),
         !.groups[i].open[k] = <<[seq |-> seq, at |-> g.at, valued |-> row.has,
                                  by |-> IF row.has THEN seq ELSE before]>>]

\* A window that looks back and leaves out its own stamp is read before the
\* stamp's rows join.
Learned(w, k, row, seq, read) ==
  LET i == row.group
      g == w.groups[i]
      start == IF g.lastValued[k] # Ever \/ ~Windowed(k) THEN g.lastValued[k]
               ELSE g.at - Kernel(k).window
      own   == IF ~row.has THEN <<>>
               ELSE <<Piece(seq, IF Mean(k) THEN start ELSE g.at, g.at, TRUE)>>
  IN  [w EXCEPT
         !.groups[i].stampValues[k] = read.value,
         !.groups[i].queues[k] = Push(k, read.queue, [seq |-> seq, at |-> g.at, valued |-> row.has,
                                                      own |-> own, sums |-> <<>>]),
         !.groups[i].lastValued[k] = IF row.has THEN g.at ELSE @,
         !.held = IF Near(k) THEN @ ELSE WriteBackward(@, k, g, seq, read.value)]
LearnBackward(w, k, row, seq) ==
  LET g == w.groups[row.group]
      newStamp == ~setting.clocked \/ g.stamp # row.at
  IN  Learned(w, k, row, seq, IF ~Near(k) /\ newStamp THEN ReadBackward(k, g)
                              ELSE [value |-> g.stampValues[k], queue |-> g.queues[k]])

\* link_back: the group of the stream's last row is the list's tail.
LinkBackMutant(list, i) == Append(list, i)
StaysMutant(list, i) == IF Contains(list, i) THEN list ELSE Append(list, i)
LinkBack(list, i) == Append(Remove(list, i), i)

Joined(w, row, seq) ==
  LET i == row.group
      wait == [w EXCEPT
                 !.groups[i].pending = IF Waits = {} THEN @ ELSE Append(@, seq),
                 !.groups[i].stamp = row.at,
                 !.groups[i].waiting = IF Forward = {} THEN @
                                       ELSE Append(@, [seq |-> seq, at |-> w.groups[i].at])]
  IN  IF setting.clocked THEN [wait EXCEPT !.listed = LinkBack(@, i)] ELSE FlushGroup(wait, i)

\* The events of the stream's clock, of the silent groups and of the group's
\* own clock.
StreamEvent(w, step) ==
  IF ~step.reset /\ ~step.cut THEN w
  ELSE [EndAll(w, IF step.reset THEN "discard" ELSE "cut")
          EXCEPT !.groups = [i \in DOMAIN @ |->
                               IF step.reset THEN [@[i] EXCEPT !.clock = NewClock] ELSE @[i]]]
OwnEvent(w, i, step) ==
  IF ~step.reset /\ ~step.cut THEN w
  ELSE EndGroup(w, i, IF step.reset THEN "discard" ELSE "cut")
Silenced(w, now) == IF setting.clocked THEN EndSilent(w, now) ELSE w
Events(w, row, steps) ==
  OwnEvent(Silenced(StreamEvent(w, steps.stream), row.at), row.group, steps.own)

HeldRow(row) ==
  [open |-> Cardinality(Forward) + (IF Waits = {} THEN 0 ELSE 1), accept |-> row.accept,
   drop |-> FALSE, values |-> [k \in Kernels |-> NoWindow]]

Taken(row, steps) ==
  LET seq   == Len(input) + 1
      now   == [groups |-> groups, listed |-> listed, held |-> held]
      clear == FlushStampsBefore(Events(now, row, steps), row.at)
      entered == Enters([clear EXCEPT !.held = Append(@, HeldRow(row))], row, steps.own.clock)
      ahead == FoldLeft(LAMBDA w, k : LearnForward(w, k, row, seq), entered, InOrder(Forward))
      back  == FoldLeft(LAMBDA w, k : LearnBackward(w, k, row, seq),
                        [ahead EXCEPT !.groups[row.group] = Retire(@)],
                        InOrder(Kernels \ Forward))
  IN  Joined(back, row, seq)

\* advance_ready.
AdvanceReady(rows) ==
  LET open == SelectInSeq(rows, LAMBDA m : m.open > 0)
  IN  IF open = 0 THEN Len(rows) ELSE open - 1

Init ==
  /\ setting \in Settings
  /\ shared = NewClock /\ groups = [i \in setting.groups |-> NewGroup] /\ listed = <<>>
  /\ held = <<>> /\ ready = 0 /\ finished = FALSE
  /\ input = <<>> /\ output = <<>>

Become(w) == groups' = w.groups /\ listed' = w.listed /\ held' = w.held
\* A row the clocks refuse changes nothing.  Without a clock column a row's time
\* is its place in its group.
PushRow ==
  /\ ~finished /\ Len(input) < setting.maxRows
  /\ \E step \in setting.rows :
       LET row   == [step EXCEPT !.at = @ + IF setting.clocked THEN shared.at
                                            ELSE groups[step.group].clock.at]
           steps == StepClocks(row)
       IN  /\ ~steps.stream.refused /\ ~steps.own.refused
           /\ Become(Taken(row, steps))
           /\ shared' = steps.stream.clock
           /\ input' = Append(input, row)
  /\ ready' = AdvanceReady(held')
  /\ UNCHANGED <<setting, finished, output>>

\* emit.
Emit(rows, n) ==
  /\ held' = SubSeq(rows, n + 1, Len(rows))
  /\ output' = output \o SubSeq(rows, 1, n)

\* drain, or drain_kept, which stops at a row that no operator drops.
Drain ==
  /\ setting.drains
  /\ \E n \in 1 .. ready :
       /\ n = ready \/ ~held[n].drop
       /\ Emit(held, n) /\ ready' = ready - n
  /\ UNCHANGED <<setting, shared, groups, listed, finished, input>>

\* A state read back has no memo.
Load ==
  /\ setting.drains /\ ~finished
  /\ groups' = [i \in DOMAIN groups |->
                  [groups[i] EXCEPT !.queues = [k \in Kernels |-> [@[k] EXCEPT !.memo = NoMemo]]]]
  /\ UNCHANGED <<setting, shared, listed, held, ready, finished, input, output>>

\* The end of the input: what waits behind is read, what looks ahead is null.
Unopened(g) ==
  [g EXCEPT !.waiting = <<>>, !.closed = [k \in Kernels |-> 0],
            !.open = [k \in Kernels |-> <<>>],
            !.queues = [k \in Kernels |-> IF k \in Forward THEN Clear(@[k]) ELSE @[k]]]
Leave(w) ==
  /\ groups' = [i \in DOMAIN w.groups |-> Unopened(w.groups[i])]
  /\ Emit(w.held, Len(w.held))
Finish ==
  /\ ~finished
  /\ Leave(FoldLeft(FlushGroup, [groups |-> groups, listed |-> listed, held |-> held],
                    InOrder(DOMAIN groups)))
  /\ listed' = <<>> /\ ready' = 0 /\ finished' = TRUE
  /\ UNCHANGED <<setting, shared, input>>

Next == PushRow \/ Drain \/ Load \/ Finish

Spec == Init /\ [][Next]_vars

-----------------------------------------------------------------------------
(* The definition: what a window is, read from the whole input.            *)

Rows(i) == {j \in DOMAIN input : input[j].group = input[i].group}
Restarts(r) ==
  /\ r > 1
  /\ LET same == setting.grouped \/ input[r].session = input[r - 1].session
     IN  \/ same /\ setting.clocked /\ input[r].at < input[r - 1].at
         \/ ~same /\ setting.session = "reset"
\* An event at row r that ends the stretch whose last row is l.
Silent(l, r) == setting.clocked /\ input[r].at - input[l].at > setting.gapCap
NewSession(l, r) == r \in Rows(l) /\ input[r].session # input[l].session
Ends(l, r) == r > l /\ (Restarts(r) \/ Silent(l, r) \/ NewSession(l, r))
Begins(j) ==
  LET before == Max({l \in Rows(j) : l < j}) IN \E r \in before + 1 .. j : Ends(before, r)
Together(i, j) == \A l \in i + 1 .. j : l \in Rows(i) => ~Begins(l)
Stretch(i) == {j \in Rows(i) : IF i <= j THEN Together(i, j) ELSE Together(j, i)}
\* How the stretch whose last row is l ends, where it has.
EndOf(l) ==
  LET enders == {r \in DOMAIN input : Ends(l, r)}
      r      == Min(enders)
  IN  IF enders = {} THEN "open"
      ELSE IF Restarts(r) THEN "discard"
      ELSE IF Silent(l, r) \/ setting.session = "cut" THEN "cut" ELSE "discard"

At(i) == input[i].at
Value(k, i, rows, from(_), to(_), span) ==
  LET valued == {j \in rows : input[j].has}
      parts  == IF ~Mean(k) THEN {<<j, At(j)>> : j \in valued}
                ELSE UNION {{<<j, t>> : t \in from(j) .. to(j) - 1} : j \in valued}
  IN  IF parts = {} THEN NoWindow
      ELSE [parts |-> parts, mass |-> Cardinality(parts),
            span |-> IF Kernel(k).stat = "rate" THEN span ELSE 0]

\* Looking back: each value is held since the one before it.
Back(k, i) ==
  LET w       == Kernel(k).window
      stretch == Stretch(i)
      age(j)  == At(i) - At(j)
      rows    == {j \in stretch :
                    /\ IF Near(k) THEN age(j) >= 0 /\ (setting.clocked \/ j <= i) ELSE age(j) > 0
                    /\ Windowed(k) => (IF Far(k) THEN age(j) <= w ELSE age(j) < w)}
      valued  == {j \in stretch : input[j].has}
      before(j) == {l \in valued : l < j}
      edge  == IF Windowed(k) THEN At(i) - w ELSE Ever
      from(j) == IF before(j) = {} \/ At(Max(before(j))) < edge THEN edge ELSE At(Max(before(j)))
      to(j) == At(j)
      whole == age(Min(stretch))
      span  == IF Windowed(k) /\ w < whole THEN w ELSE whole
  IN  [value |-> Value(k, i, rows, from, to, span), known |-> TRUE,
       end |-> IF Windowed(k) /\ whole < w THEN "cut" ELSE "complete"]

\* Looking ahead: each value is held until the next one, the far edge or the
\* end of the stretch.
Ahead(k, i) ==
  LET w       == Kernel(k).window
      stretch == Stretch(i)
      gap(j)  == At(j) - At(i)
      rows    == {j \in stretch : /\ IF Near(k) THEN gap(j) >= 0 ELSE gap(j) > 0
                                  /\ IF Far(k) THEN gap(j) <= w ELSE gap(j) < w}
      last    == Max(stretch)
      ending  == EndOf(last)
      past    == \E j \in stretch : IF Far(k) THEN gap(j) > w ELSE gap(j) >= w
      end     == IF past \/ (ending # "open" /\ gap(last) >= w) THEN "complete" ELSE ending
      valued  == {j \in stretch : input[j].has}
      after(j) == {l \in valued : l > j}
      limit == IF end = "complete" THEN At(i) + w ELSE At(last)
      next(j) == IF after(j) = {} THEN At(last) ELSE At(Min(after(j)))
      from(j) == At(j)
      to(j) == IF next(j) < limit THEN next(j) ELSE limit
  IN  [value |-> Value(k, i, rows, from, to, limit - At(i)), known |-> end # "open", end |-> end]

Window(k, i) == IF Kernel(k).back THEN Back(k, i) ELSE Ahead(k, i)
Shown(k, i) ==
  LET win == Window(k, i)
      keeps == /\ win.end = "complete" \/ (win.end = "cut" /\ Kernel(k).partial = "keep")
               /\ Kernel(k).back \/ input[i].accept
  IN  [value |-> IF keeps THEN win.value ELSE NoWindow,
       drop  |-> Kernel(k).partial = "drop" /\ win.end = "cut"]

\* Whether a row's windows cannot change any more, whatever the next rows are.
StampPassed(i) ==
  ~setting.clocked \/ EndOf(Max(Stretch(i))) # "open" \/ \E r \in DOMAIN input : r > i /\ input[r].at > input[i].at
Settled(i) ==
  /\ \A k \in Kernels : Window(k, i).known
  /\ Waits # {} => StampPassed(i)

-----------------------------------------------------------------------------
TypeOK ==
  /\ setting \in Settings /\ finished \in BOOLEAN
  /\ DOMAIN groups = setting.groups /\ ToSet(listed) \subseteq setting.groups
  /\ IsInjective(listed)
  /\ Len(output) + Len(held) = Len(input) /\ ready \in 0 .. Len(held)
  /\ \A i \in DOMAIN held : held[i].open \in 0 .. Len(setting.kernels)

\* Once the input ends, every row has gone out with the windows of the
\* definition, whenever it left and whatever came after it: no window is read
\* early, twice or past an event.
AsDefined ==
  finished =>
    /\ Len(output) = Len(input)
    /\ \A i \in DOMAIN output :
         LET shown == [k \in Kernels |-> Shown(k, i)]
         IN  /\ \A k \in Kernels : output[i].values[k] = shown[k].value
             /\ output[i].drop = \E k \in Kernels : shown[k].drop

\* A row is ready once its windows cannot change and no row before it waits: no
\* group that falls silent holds the stream's rows back.
ReadyWhenSettled ==
  ~finished =>
    LET out == Len(output) + ready
    IN  /\ \A i \in Len(output) + 1 .. out : Settled(i)
        /\ out < Len(input) => ~Settled(out + 1)
=============================================================================
