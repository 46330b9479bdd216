---------------------------- MODULE RunnerProofs ----------------------------
(***************************************************************************)
(* Proofs about the streaming runner, for every number of rows, runs and   *)
(* configurations: which values its variables have, and how the control of *)
(* its threads fits together (Control), from which follows what a run that *)
(* has returned leaves on disk; and which rows flow through the channels.  *)
(***************************************************************************)
EXTENDS Runner, FiniteSetTheorems, SequenceTheorems, TLAPS

\* Where the calling thread still feeds frames, and where it has ended both
\* writers.
Feeding == {"recv", "augment", "deliver", "drain", "send_closed", "progress", "ended",
            "deliver_empty", "last_drain", "send_last_closed"}
Over == {"scope_end", "save", "publish_state", "returned"}
PCs  == Feeding \cup Over \cup {"idle", "stop", "end_closed", "join_closed", "end_out",
                                "join_out"}
Results == {"ok", "writer_stopped"} \cup Errors
WriterPlaces == {"absent", "create", "first", "recv", "write", "finish", "done"}
ConfigShapes == [out : {"file", "batches", "discard"}, closed : BOOLEAN, save : BOOLEAN,
                 skip : BOOLEAN, size : Nat \ {0}, avail : 0 .. NRows]

RunShape ==
  /\ run \in 0 .. MaxRuns /\ (Running => run > 0)
  /\ cfg \in ConfigShapes

PlaceShape ==
  /\ pc \in PCs /\ result \in Results
  /\ closedSent \in BOOLEAN /\ fed \in BOOLEAN

ThreadShape ==
  /\ reader \in {"reading", "end_ok", "end_err", "done"} /\ readOpen \in BOOLEAN
  /\ writer \in [Writers -> WriterPlaces]
  /\ sending \in [Writers -> BOOLEAN]
  /\ written \in [Writers -> {"none", "ok", "err"}]

\* Once its scope has ended, a run has no thread but the calling one.
Dormant == ~Running \/ pc \in {"save", "publish_state"}
ThreadsEnd == Dormant => reader = "done" /\ \A w \in Writers : ~WriterLive(w)

TempShape ==
  temps \subseteq Temps \X (1 .. MaxRuns) /\ crashed \subseteq 1 .. MaxRuns

-----------------------------------------------------------------------------
(* The values the variables have.                                          *)

LEMMA RunShapeStep == RunShape /\ [Next]_vars => RunShape'
<1> SUFFICES ASSUME RunShape, [Next]_vars PROVE RunShape'
  OBVIOUS
<1> USE DEF RunShape, Running
<1>1. CASE StartRun
  BY <1>1, RunnerAssumption DEF StartRun, disk, ConfigShapes
<1>2. CASE Reader
  BY <1>2, RunnerAssumption DEF Reader, ReadChunk, disk, main, writing, model, ReadEnds,
       ReadSendsEnd, ReadGivesUp
<1>3. ASSUME NEW w \in Writers, Writer(w) PROVE RunShape'
  BY <1>3, RunnerAssumption DEF Writer, WriterFails, DropTemp, main, reading, model,
       WriterCreates, WriterReceives, WriterWrites, disk, WriterDiscards,
       WriterPublishes
<1>4. CASE Main
  BY <1>4, RunnerAssumption DEF Main, Receive, Fails, disk, writing, model, Augment,
       reading, AugmentEmpty, Deliver, Drain, SendClosed, Progress, StopReader,
       DropReceiver, EndClosed, EndWriter, EndOut, JoinClosed, JoinOut, NoWriter,
       ScopeEnds, Save
<1>5. CASE Crash
  BY <1>5, RunnerAssumption DEF Crash
<1>6. CASE UNCHANGED vars
  BY <1>6 DEF vars, disk, main, reading, writing, model
<1>7. CASE Finished
  BY <1>6, <1>7 DEF Finished
<1> QED
  BY <1>1, <1>2, <1>3, <1>4, <1>5, <1>6, <1>7 DEF Next

LEMMA PlaceShapeStep == PlaceShape /\ [Next]_vars => PlaceShape'
<1> SUFFICES ASSUME PlaceShape, [Next]_vars PROVE PlaceShape'
  OBVIOUS
<1> USE DEF PlaceShape, PCs, Results, Errors, Feeding, Over
<1>1. CASE StartRun
  BY <1>1 DEF StartRun, disk
<1>2. CASE Reader
  BY <1>2 DEF Reader, ReadChunk, disk, main, writing, model, ReadEnds, ReadSendsEnd,
       ReadGivesUp
<1>3. ASSUME NEW w \in Writers, Writer(w) PROVE PlaceShape'
  BY <1>3 DEF Writer, WriterFails, DropTemp, main, reading, model, WriterCreates,
       WriterReceives, WriterWrites, disk, WriterDiscards, WriterPublishes
<1>4. CASE Main
  BY <1>4 DEF Main, Receive, Fails, disk, writing, model, Augment, reading,
       AugmentEmpty, Deliver, Drain, SendClosed, Progress, StopReader, DropReceiver,
       EndClosed, EndWriter, EndOut, JoinClosed, JoinOut, NoWriter, ScopeEnds, Save
<1>5. CASE Crash
  BY <1>5 DEF Crash
<1>6. CASE UNCHANGED vars
  BY <1>6 DEF vars, disk, main, reading, writing, model
<1>7. CASE Finished
  BY <1>6, <1>7 DEF Finished
<1> QED
  BY <1>1, <1>2, <1>3, <1>4, <1>5, <1>6, <1>7 DEF Next

LEMMA ThreadShapeStep == ThreadShape /\ [Next]_vars => ThreadShape'
<1> SUFFICES ASSUME ThreadShape, [Next]_vars PROVE ThreadShape'
  OBVIOUS
<1> USE DEF ThreadShape, Writers, WriterPlaces
<1>1. CASE StartRun
  BY <1>1 DEF StartRun, disk
<1>2. CASE Reader
  BY <1>2 DEF Reader, ReadChunk, disk, main, writing, model, ReadEnds, ReadSendsEnd,
       ReadGivesUp
<1>3. ASSUME NEW w \in Writers, Writer(w) PROVE ThreadShape'
  <2>1. CASE WriterFails(w)
    BY <2>1 DEF WriterFails, DropTemp, main, reading, model
  <2>2. CASE WriterCreates(w)
    BY <2>2 DEF WriterCreates, main, reading, model
  <2>3. CASE WriterReceives(w)
    BY <2>3 DEF WriterReceives, DropTemp, main, reading, model
  <2>4. CASE WriterWrites(w)
    BY <2>4 DEF WriterWrites, disk, main, reading, model
  <2>5. CASE WriterDiscards(w)
    BY <2>5 DEF WriterDiscards, DropTemp, main, reading, model
  <2>6. CASE WriterPublishes(w)
    BY <2>6 DEF WriterPublishes, main, reading, model
  <2> QED
    BY <1>3, <2>1, <2>2, <2>3, <2>4, <2>5, <2>6 DEF Writer
<1>4. CASE Main
  BY <1>4 DEF Main, Receive, Fails, disk, writing, model, Augment, reading,
       AugmentEmpty, Deliver, Drain, SendClosed, Progress, StopReader, DropReceiver,
       EndClosed, EndWriter, EndOut, JoinClosed, JoinOut, NoWriter, ScopeEnds, Save
<1>5. CASE Crash
  BY <1>5 DEF Crash
<1>6. CASE UNCHANGED vars
  BY <1>6 DEF vars, disk, main, reading, writing, model
<1>7. CASE Finished
  BY <1>6, <1>7 DEF Finished
<1> QED
  BY <1>1, <1>2, <1>3, <1>4, <1>5, <1>6, <1>7 DEF Next

LEMMA ThreadsEndStep == PlaceShape /\ ThreadShape /\ ThreadsEnd /\ [Next]_vars => ThreadsEnd'
<1> SUFFICES ASSUME PlaceShape, ThreadShape, ThreadsEnd, [Next]_vars PROVE ThreadsEnd'
  OBVIOUS
<1> USE DEF ThreadsEnd, Dormant, WriterPlaces, Running, WriterLive, ThreadShape, PlaceShape,
     PCs, Feeding, Over, Writers
<1>1. CASE StartRun
  BY <1>1 DEF StartRun, disk
<1>2. CASE Reader
  BY <1>2 DEF Reader, ReadChunk, disk, main, writing, model, ReadEnds, ReadSendsEnd,
       ReadGivesUp
<1>3. ASSUME NEW w \in Writers, Writer(w) PROVE ThreadsEnd'
  BY <1>3 DEF Writer, WriterFails, DropTemp, main, reading, model, WriterCreates,
       WriterReceives, WriterWrites, disk, WriterDiscards, WriterPublishes
<1>4. CASE Main
  BY <1>4 DEF Main, Receive, Fails, disk, writing, model, Augment, reading,
       AugmentEmpty, Deliver, Drain, SendClosed, Progress, StopReader, DropReceiver,
       EndClosed, EndWriter, EndOut, JoinClosed, JoinOut, NoWriter, ScopeEnds, Save
<1>5. CASE Crash
  BY <1>5 DEF Crash
<1>6. CASE UNCHANGED vars
  BY <1>6 DEF vars, disk, main, reading, writing, model
<1>7. CASE Finished
  BY <1>6, <1>7 DEF Finished
<1> QED
  BY <1>1, <1>2, <1>3, <1>4, <1>5, <1>6, <1>7 DEF Next

LEMMA TempShapeStep == RunShape /\ PlaceShape /\ ThreadShape /\ ThreadsEnd /\ TempShape /\ [Next]_vars => TempShape'
<1> SUFFICES ASSUME RunShape, PlaceShape, ThreadShape, ThreadsEnd, TempShape, [Next]_vars PROVE TempShape'
  OBVIOUS
<1> USE DEF TempShape, RunShape, ThreadsEnd, Dormant, Running, WriterLive, Writers, Temps
<1>1. CASE StartRun
  BY <1>1 DEF StartRun, disk
<1>2. CASE Reader
  BY <1>2 DEF Reader, ReadChunk, disk, main, writing, model, ReadEnds, ReadSendsEnd,
       ReadGivesUp
<1>3. ASSUME NEW w \in Writers, Writer(w) PROVE TempShape'
  <2>1. CASE WriterFails(w)
    BY <2>1 DEF WriterFails, DropTemp, main, reading, model
  <2>2. CASE WriterCreates(w)
    BY <2>2 DEF WriterCreates, main, reading, model
  <2>3. CASE WriterReceives(w)
    BY <2>3 DEF WriterReceives, DropTemp, main, reading, model
  <2>4. CASE WriterWrites(w)
    BY <2>4 DEF WriterWrites, disk, main, reading, model
  <2>5. CASE WriterDiscards(w)
    BY <2>5 DEF WriterDiscards, DropTemp, main, reading, model
  <2>6. CASE WriterPublishes(w)
    BY <2>6 DEF WriterPublishes, main, reading, model
  <2> QED
    BY <1>3, <2>1, <2>2, <2>3, <2>4, <2>5, <2>6 DEF Writer
<1>4. CASE Main
  <2>1. CASE Receive
    BY <2>1 DEF Receive, Fails, disk, writing, model
  <2>2. CASE Augment
    BY <2>2 DEF Augment, Fails, disk, reading, writing
  <2>3. CASE AugmentEmpty
    BY <2>3 DEF AugmentEmpty, Fails, disk, reading, writing, model
  <2>4. CASE Deliver
    BY <2>4 DEF Deliver, Fails, disk, reading, model
  <2>5. CASE Drain
    BY <2>5 DEF Drain, disk, reading, writing
  <2>6. CASE SendClosed
    BY <2>6 DEF SendClosed, Fails, disk, reading, model
  <2>7. CASE Progress
    BY <2>7 DEF Progress, Fails, disk, reading, writing, model
  <2>8. CASE StopReader
    BY <2>8 DEF StopReader, DropReceiver, disk, writing, model
  <2>9. CASE EndClosed
    BY <2>9 DEF EndClosed, EndWriter, disk, reading, model
  <2>10. CASE EndOut
    BY <2>10 DEF EndOut, EndWriter, disk, reading, model
  <2>11. CASE JoinClosed
    BY <2>11 DEF JoinClosed, disk, reading, model
  <2>12. CASE JoinOut
    BY <2>12 DEF JoinOut, disk, reading, writing, model
  <2>13. CASE NoWriter
    BY <2>13 DEF NoWriter, disk, reading, writing, model
  <2>14. CASE ScopeEnds
    BY <2>14 DEF ScopeEnds, disk, reading, writing, model
  <2>15. CASE Save
    BY <2>15 DEF Save, reading, writing, model
  <2> QED
    BY <1>4, <2>1, <2>2, <2>3, <2>4, <2>5, <2>6, <2>7, <2>8, <2>9, <2>10, <2>11, <2>12,
         <2>13, <2>14, <2>15 DEF Main
<1>5. CASE Crash
  BY <1>5 DEF Crash
<1>6. CASE UNCHANGED vars
  BY <1>6 DEF vars, disk, main, reading, writing, model
<1>7. CASE Finished
  BY <1>6, <1>7 DEF Finished
<1> QED
  BY <1>1, <1>2, <1>3, <1>4, <1>5, <1>6, <1>7 DEF Next

-----------------------------------------------------------------------------
(* Rows in order, and the groups they close.                               *)

\* Rows a+1 to b, in order: what every frame of the input is.
Span(a, b) == [i \in 1 .. (b - a) |-> a + i]
Spans == {Span(a, b) : a, b \in 0 .. NRows}
Larger(a, b) == IF a < b THEN b ELSE a

\* The groups a bank has closed once it has learned rows 1 to r.
Closed(r) == IF r = 0 THEN 0 ELSE GroupOf(r) - 1

LEMMA SpanIsSeq ==
  ASSUME NEW a \in Nat, NEW b \in Nat
  PROVE  /\ Span(a, b) \in Seq(Nat)
         /\ Len(Span(a, b)) = IF a <= b THEN b - a ELSE 0
         /\ \A i \in 1 .. Len(Span(a, b)) : Span(a, b)[i] = a + i
<1>1. CASE a <= b
  <2>1. b - a \in Nat
    BY <1>1
  <2>2. Span(a, b) \in [1 .. (b - a) -> Nat]
    BY DEF Span
  <2> QED BY <1>1, <2>1, <2>2 DEF Span
<1>2. CASE b < a
  <2>1. 1 .. (b - a) = {} /\ 1 .. 0 = {}
    BY <1>2
  <2>2. Span(a, b) = <<>>
    BY <2>1 DEF Span
  <2> QED BY <1>2, <2>2
<1> QED BY <1>1, <1>2

LEMMA SpanOfRows ==
  ASSUME NEW s \in Spans
  PROVE  s \in Seq(Rows)
<1>1. PICK a \in 0 .. NRows, b \in 0 .. NRows : s = Span(a, b)
  BY DEF Spans
<1>2. /\ s \in Seq(Nat) /\ Len(s) = (IF a <= b THEN b - a ELSE 0)
      /\ \A i \in 1 .. Len(s) : s[i] = a + i
  <2>1. a \in Nat /\ b \in Nat
    BY RunnerAssumption
  <2> QED BY <1>1, <2>1, SpanIsSeq
<1>3. \A i \in 1 .. Len(s) : s[i] \in Rows
  BY <1>2, RunnerAssumption DEF Rows
<1>4. Len(s) \in Nat /\ s \in [1 .. Len(s) -> Rows]
  BY <1>2, <1>3
<1> QED BY <1>4

\* Learned::unlearned keeps of a frame in order the rows past the last one
\* learned, in order.
LEMMA UnlearnedSpan ==
  ASSUME NEW a \in Nat, NEW b \in Nat, skipTo \in Nat
  PROVE  Unlearned(Span(a, b)) = Span(Larger(a, skipTo), b)
<1> DEFINE f == Span(a, b)
           mask == {i \in DOMAIN f : f[i] > skipTo}
           Kept(j) == CHOOSE i \in mask : Cardinality({k \in mask : k <= i}) = j
           c == Larger(a, skipTo)
<1>1. Unlearned(f) = [j \in 1 .. Cardinality(mask) |-> f[Kept(j)]]
  BY DEF Unlearned
<1>2. DOMAIN f = 1 .. (b - a) /\ \A i \in DOMAIN f : f[i] = a + i
  BY DEF Span
<1>3. mask = (c - a + 1) .. (b - a) /\ c \in Nat /\ c >= a
  BY <1>2 DEF Larger
<1>4. Cardinality(mask) = IF c <= b THEN b - c ELSE 0
  <2>1. c - a + 1 \in Int /\ b - a \in Int
    BY <1>3
  <2>2. Cardinality((c - a + 1) .. (b - a)) =
          IF c - a + 1 > b - a THEN 0 ELSE b - a - (c - a + 1) + 1
    BY <2>1, FS_Interval
  <2> HIDE DEF mask, c
  <2> QED BY <1>3, <2>2
<1>5. ASSUME NEW j \in 1 .. Cardinality(mask)
      PROVE  f[Kept(j)] = c + j
  <2> DEFINE UpTo(i) == {k \in mask : k <= i}
  <2>1. c <= b /\ j \in 1 .. (b - c)
    BY <1>3, <1>4, <1>5
  <2>2. \A i \in mask : i \in Int /\ c - a + 1 <= i /\ UpTo(i) = (c - a + 1) .. i
    BY <1>3
  <2>3. c - a + 1 \in Int /\ c - a + j \in mask
    BY <2>1, <1>3
  <2>4. Kept(j) = CHOOSE i \in mask : Cardinality(UpTo(i)) = j
    OBVIOUS
  <2> HIDE DEF Kept, UpTo, mask, f, c
  <2>5. ASSUME NEW i \in mask PROVE Cardinality(UpTo(i)) = i - (c - a)
    <3>1. Cardinality((c - a + 1) .. i) = IF c - a + 1 > i THEN 0 ELSE i - (c - a + 1) + 1
      BY <2>2, <2>3, FS_Interval
    <3> QED BY <1>3, <2>2, <3>1
  <2>6. Cardinality(UpTo(c - a + j)) = j
    BY <1>3, <2>1, <2>3, <2>5
  <2>7. Kept(j) \in mask /\ Cardinality(UpTo(Kept(j))) = j
    BY <2>3, <2>4, <2>6
  <2>8. Kept(j) = c - a + j
    BY <1>3, <2>1, <2>2, <2>5, <2>7
  <2>9. f[Kept(j)] = a + Kept(j)
    <3>1. Kept(j) \in DOMAIN f
      BY <2>7 DEF mask
    <3> QED BY <1>2, <3>1
  <2> QED BY <2>1, <2>8, <2>9, <1>3
<1>6. 1 .. Cardinality(mask) = 1 .. (b - c)
  BY <1>3, <1>4
<1> QED BY <1>1, <1>5, <1>6 DEF Span

LEMMA GroupBounds ==
  ASSUME NEW r \in Nat, r > 0
  PROVE  GroupOf(r) \in 1 .. r
<1> DEFINE g == GroupOf(r)
<1>1. GroupRows \in Nat /\ GroupRows > 0
  BY RunnerAssumption
<1>2. g \in Int /\ GroupRows * g <= r + GroupRows - 1 /\ r + GroupRows - 1 < GroupRows * g + GroupRows
  BY <1>1 DEF GroupOf
<1>3. g >= 1
  BY <1>1, <1>2
<1>4. g <= r
  BY <1>1, <1>2
<1> QED BY <1>2, <1>3, <1>4

LEMMA GroupsInOrder ==
  ASSUME NEW r \in Nat, NEW s \in Nat, r <= s
  PROVE  GroupOf(r) <= GroupOf(s)
<1>1. GroupRows \in Nat /\ GroupRows > 0
  BY RunnerAssumption
<1>2. GroupOf(r) \in Int /\ GroupRows * GroupOf(r) <= r + GroupRows - 1
  BY <1>1 DEF GroupOf
<1>3. GroupOf(s) \in Int /\ s + GroupRows - 1 < GroupRows * GroupOf(s) + GroupRows
  BY <1>1 DEF GroupOf
<1>4. GroupRows * GroupOf(r) < GroupRows * (GroupOf(s) + 1)
  BY <1>1, <1>2, <1>3
<1> HIDE DEF GroupOf
<1> QED BY <1>1, <1>2, <1>3, <1>4

LEMMA ClosedBounds ==
  ASSUME NEW r \in Nat
  PROVE  Closed(r) \in 0 .. r
<1>1. CASE r = 0
  BY <1>1 DEF Closed
<1>2. CASE r > 0
  <2>1. GroupOf(r) \in 1 .. r
    BY <1>2, GroupBounds
  <2> QED BY <1>2, <2>1 DEF Closed
<1> QED BY <1>1, <1>2

LEMMA ClosedInOrder ==
  ASSUME NEW r \in Nat, NEW s \in Nat, r <= s
  PROVE  Closed(r) <= Closed(s)
<1>1. CASE r = 0
  BY <1>1, ClosedBounds DEF Closed
<1>2. CASE r > 0
  <2>1. GroupOf(r) \in Int /\ GroupOf(s) \in Int
    BY <1>2, GroupBounds
  <2> QED BY <1>2, <2>1, GroupsInOrder DEF Closed
<1> QED BY <1>1, <1>2

\* What a chunk closes is the groups between those closed before and after.
LEMMA ClosesSpan ==
  ASSUME NEW a \in Nat, NEW b \in Nat, b = 0 => a = 0
  PROVE  ClosesBetween(a, b) = Span(Closed(a), Closed(b))
<1>1. CASE b = 0
  BY <1>1 DEF ClosesBetween, Span, Closed
<1>2. CASE b > 0 /\ a = 0
  <2>1. GroupOf(b) \in Nat
    BY <1>2, GroupBounds
  <2> HIDE DEF GroupOf
  <2>2. Closed(a) = 0 /\ Closed(b) = GroupOf(b) - 1
    BY <1>2 DEF Closed
  <2>3. ClosesBetween(a, b) = [i \in 1 .. (GroupOf(b) - 1) |-> 1 + i - 1]
    BY <1>2 DEF ClosesBetween
  <2> QED BY <2>1, <2>2, <2>3 DEF Span
<1>3. CASE b > 0 /\ a > 0
  <2>1. GroupOf(a) \in Nat /\ GroupOf(b) \in Nat
    BY <1>3, GroupBounds
  <2> HIDE DEF GroupOf
  <2>2. Closed(a) = GroupOf(a) - 1 /\ Closed(b) = GroupOf(b) - 1
    BY <1>3 DEF Closed
  <2>3. ClosesBetween(a, b) = [i \in 1 .. (GroupOf(b) - GroupOf(a)) |-> GroupOf(a) + i - 1]
    BY <1>3 DEF ClosesBetween
  <2>4. Closed(b) - Closed(a) = GroupOf(b) - GroupOf(a)
    BY <2>1, <2>2
  <2>5. \A i \in 1 .. (GroupOf(b) - GroupOf(a)) : Closed(a) + i = GroupOf(a) + i - 1
    BY <2>1, <2>2
  <2> QED BY <2>3, <2>4, <2>5 DEF Span
<1> QED BY <1>1, <1>2, <1>3

LEMMA ClosesIsSeq ==
  ASSUME NEW a \in Nat, NEW b \in Nat
  PROVE  ClosesBetween(a, b) \in Seq(Nat)
<1>1. CASE b = 0
  <2>1. ClosesBetween(a, b) = <<>>
    BY <1>1 DEF ClosesBetween
  <2> QED BY <2>1
<1>2. CASE b > 0
  <2>1. Closed(a) \in Nat /\ Closed(b) \in Nat
    BY ClosedBounds
  <2>2. ClosesBetween(a, b) = Span(Closed(a), Closed(b))
    BY <1>2, ClosesSpan
  <2> QED BY <2>1, <2>2, SpanIsSeq
<1> QED BY <1>1, <1>2

-----------------------------------------------------------------------------
(* The values the variables that carry rows have.                          *)

Messages(F) == [kind : {"chunk"}, rows : F] \cup [kind : {"end"}, ok : BOOLEAN]
FileShapes  == [run : 0 .. MaxRuns, rows : Seq(Nat)]
StateShapes == [run : 0 .. MaxRuns, learned : Seq(Rows), queue : Seq(Nat),
                hadOut : BOOLEAN, hadClosed : BOOLEAN]

BankShapes  == [learned : Seq(Rows), queue : Seq(Nat)]

FileShape == file \in [Writers -> FileShapes] /\ stateFile \in StateShapes

BankShape ==
  /\ bank \in BankShapes /\ skipTo \in 0 .. NRows
  /\ chunk \in Spans /\ drained \in Seq(Nat) /\ sidecar \in Seq(Nat)

ReadShape ==
  /\ nextRow \in 1 .. NRows + 1
  /\ readQ \in Seq(Messages(Spans)) /\ Len(readQ) <= Capacity

WriteShape ==
  /\ writeQ \in [Writers -> Seq(Messages(Seq(Nat)))]
  /\ \A w \in Writers : Len(writeQ[w]) <= Capacity
  /\ buf \in [Writers -> Seq(Nat)]

LEMMA ChunkIsMessage ==
  ASSUME NEW F, NEW f \in F
  PROVE  Chunk(f) \in Messages(F)
  BY DEF Chunk, Messages

LEMMA EndIsMessage ==
  ASSUME NEW F, NEW ok \in BOOLEAN
  PROVE  End(ok) \in Messages(F)
  BY DEF End, Messages

LEMMA QueueTakesMessage ==
  ASSUME NEW S, NEW q \in Seq(S), NEW m \in S, HasRoom(q)
  PROVE  Append(q, m) \in Seq(S) /\ Len(Append(q, m)) <= Capacity
  BY RunnerAssumption DEF HasRoom

LEMMA QueueGivesMessage ==
  ASSUME NEW S, NEW q \in Seq(S), q # <<>>, Len(q) <= Capacity
  PROVE  Head(q) \in S /\ Tail(q) \in Seq(S) /\ Len(Tail(q)) <= Capacity
  BY RunnerAssumption

\* A message sent to a writer keeps the shape of its channel.
LEMMA SendKeepsShape ==
  ASSUME WriteShape, NEW v \in Writers, NEW m \in Messages(Seq(Nat)), HasRoom(writeQ[v]),
         writeQ' = [writeQ EXCEPT ![v] = Append(@, m)], UNCHANGED buf
  PROVE  WriteShape'
<1>1. writeQ[v] \in Seq(Messages(Seq(Nat)))
  BY DEF WriteShape
<1>2. Append(writeQ[v], m) \in Seq(Messages(Seq(Nat))) /\ Len(Append(writeQ[v], m)) <= Capacity
  BY <1>1, QueueTakesMessage
<1>3. writeQ' \in [Writers -> Seq(Messages(Seq(Nat)))]
  BY <1>2 DEF WriteShape
<1>4. \A u \in Writers : Len(writeQ'[u]) <= Capacity
  BY <1>2 DEF WriteShape
<1> QED BY <1>3, <1>4 DEF WriteShape

LEMMA EmptySpan == <<>> \in Spans
<1>1. Span(0, 0) = <<>>
  BY DEF Span
<1>2. 0 \in 0 .. NRows
  BY RunnerAssumption
<1> QED BY <1>1, <1>2 DEF Spans

LEMMA BankIsRecord ==
  ASSUME NEW l \in Seq(Rows), NEW q \in Seq(Nat)
  PROVE  [learned |-> l, queue |-> q] \in BankShapes
  BY DEF BankShapes

LEMMA DrainedBank ==
  ASSUME NEW b \in BankShapes
  PROVE  [b EXCEPT !.queue = <<>>] = [learned |-> b.learned, queue |-> <<>>]
  BY DEF BankShapes

\* The next frame read carries the rows after those read before.
LEMMA ChunkRead ==
  ASSUME RunShape, ReadShape, ReadChunk
  PROVE  \E to \in nextRow .. cfg.avail :
           /\ readQ' = Append(readQ, Chunk(Span(nextRow - 1, to))) /\ nextRow' = to + 1
           /\ Chunk(Span(nextRow - 1, to)) \in Messages(Spans)
<1> DEFINE to == IF nextRow + cfg.size - 1 < cfg.avail THEN nextRow + cfg.size - 1 ELSE cfg.avail
           f == [i \in 1 .. to - nextRow + 1 |-> nextRow + i - 1]
<1>1. /\ cfg.avail \in 0 .. NRows /\ cfg.size \in Nat \ {0}
      /\ nextRow \in 1 .. NRows + 1 /\ nextRow <= cfg.avail
  BY DEF RunShape, ConfigShapes, ReadChunk, ReadShape
<1>2. to \in nextRow .. cfg.avail
  BY <1>1, RunnerAssumption
<1>3. readQ' = Append(readQ, Chunk(f)) /\ nextRow' = to + 1
  BY DEF ReadChunk
<1> HIDE DEF to
<1>4. f = Span(nextRow - 1, to)
  BY <1>1, <1>2 DEF Span
<1>5. f \in Spans
  BY <1>1, <1>2, <1>4, RunnerAssumption DEF Spans
<1>6. Chunk(f) \in Messages(Spans)
  BY <1>5, ChunkIsMessage
<1> QED BY <1>2, <1>3, <1>4, <1>6

LEMMA FileShapeStep == RunShape /\ PlaceShape /\ ThreadShape /\ ThreadsEnd /\ BankShape /\ WriteShape /\ FileShape /\ [Next]_vars => FileShape'
<1> SUFFICES ASSUME RunShape, PlaceShape, ThreadShape, ThreadsEnd, BankShape, WriteShape, FileShape, [Next]_vars PROVE FileShape'
  OBVIOUS
<1> USE DEF FileShape, FileShapes, StateShapes
<1>1. CASE StartRun
  BY <1>1 DEF StartRun, disk
<1>2. CASE Reader
  BY <1>2 DEF Reader, ReadChunk, disk, main, writing, model, ReadEnds, ReadSendsEnd,
       ReadGivesUp
<1>3. ASSUME NEW w \in Writers, Writer(w) PROVE FileShape'
  <2>1. CASE WriterFails(w)
    BY <2>1 DEF WriterFails, DropTemp, main, reading, model
  <2>2. CASE WriterCreates(w)
    BY <2>2 DEF WriterCreates, main, reading, model
  <2>3. CASE WriterReceives(w)
    BY <2>3 DEF WriterReceives, DropTemp, main, reading, model
  <2>4. CASE WriterWrites(w)
    BY <2>4 DEF WriterWrites, disk, main, reading, model
  <2>5. CASE WriterDiscards(w)
    BY <2>5 DEF WriterDiscards, DropTemp, main, reading, model
  <2>6. CASE WriterPublishes(w)
    BY <2>6 DEF WriterPublishes, main, reading, model, RunShape, WriteShape, ThreadsEnd,
         Dormant, Running, WriterLive
  <2> QED
    BY <1>3, <2>1, <2>2, <2>3, <2>4, <2>5, <2>6 DEF Writer
<1>4. CASE Main
  <2>1. CASE Receive
    BY <2>1 DEF Receive, Fails, disk, writing, model
  <2>2. CASE Augment
    BY <2>2 DEF Augment, Fails, disk, reading, writing
  <2>3. CASE AugmentEmpty
    BY <2>3 DEF AugmentEmpty, Fails, disk, reading, writing, model
  <2>4. CASE Deliver
    BY <2>4 DEF Deliver, Fails, disk, reading, model
  <2>5. CASE Drain
    BY <2>5 DEF Drain, disk, reading, writing
  <2>6. CASE SendClosed
    BY <2>6 DEF SendClosed, Fails, disk, reading, model
  <2>7. CASE Progress
    BY <2>7 DEF Progress, Fails, disk, reading, writing, model
  <2>8. CASE StopReader
    BY <2>8 DEF StopReader, DropReceiver, disk, writing, model
  <2>9. CASE EndClosed
    BY <2>9 DEF EndClosed, EndWriter, disk, reading, model
  <2>10. CASE EndOut
    BY <2>10 DEF EndOut, EndWriter, disk, reading, model
  <2>11. CASE JoinClosed
    BY <2>11 DEF JoinClosed, disk, reading, model
  <2>12. CASE JoinOut
    BY <2>12 DEF JoinOut, disk, reading, writing, model
  <2>13. CASE NoWriter
    BY <2>13 DEF NoWriter, disk, reading, writing, model
  <2>14. CASE ScopeEnds
    BY <2>14 DEF ScopeEnds, disk, reading, writing, model
  <2>15. CASE Save
    <3>1. (stateFile \in StateShapes)'
      <4>1. CASE UNCHANGED stateFile
        BY <4>1
      <4>2. CASE stateFile' = [run |-> run, learned |-> bank.learned, queue |-> bank.queue,
                               hadOut |-> cfg.out = "file", hadClosed |-> cfg.closed]
        <5>1. bank.learned \in Seq(Rows) /\ bank.queue \in Seq(Nat)
          BY DEF BankShape, BankShapes
        <5>2. cfg.closed \in BOOLEAN /\ (cfg.out = "file") \in BOOLEAN /\ run \in 0 .. MaxRuns
          BY DEF RunShape, ConfigShapes
        <5> QED BY <4>2, <5>1, <5>2
      <4> QED BY <2>15, <4>1, <4>2 DEF Save
    <3>2. (file \in [Writers -> FileShapes])'
      BY <2>15 DEF Save
    <3> QED BY <3>1, <3>2
  <2> QED
    BY <1>4, <2>1, <2>2, <2>3, <2>4, <2>5, <2>6, <2>7, <2>8, <2>9, <2>10, <2>11, <2>12,
         <2>13, <2>14, <2>15 DEF Main
<1>5. CASE Crash
  BY <1>5 DEF Crash
<1>6. CASE UNCHANGED vars
  BY <1>6 DEF vars, disk, main, reading, writing, model
<1>7. CASE Finished
  BY <1>6, <1>7 DEF Finished
<1> QED
  BY <1>1, <1>2, <1>3, <1>4, <1>5, <1>6, <1>7 DEF Next

LEMMA ReadShapeStep == RunShape /\ ReadShape /\ [Next]_vars => ReadShape'
<1> SUFFICES ASSUME RunShape, ReadShape, [Next]_vars PROVE ReadShape'
  OBVIOUS
<1> USE DEF ReadShape
<1>1. CASE StartRun
  BY <1>1, RunnerAssumption DEF StartRun, disk
<1>2. CASE Reader
  <2>1. CASE ReadChunk
    <3>1. PICK to \in nextRow .. cfg.avail :
            /\ readQ' = Append(readQ, Chunk(Span(nextRow - 1, to))) /\ nextRow' = to + 1
            /\ Chunk(Span(nextRow - 1, to)) \in Messages(Spans)
      BY <2>1, ChunkRead DEF ReadShape
    <3>2. HasRoom(readQ)
      BY <2>1 DEF ReadChunk
    <3>3. readQ' \in Seq(Messages(Spans)) /\ Len(readQ') <= Capacity
      BY <3>1, <3>2, QueueTakesMessage
    <3>4. cfg.avail \in 0 .. NRows
      BY DEF RunShape, ConfigShapes
    <3>5. nextRow' \in 1 .. NRows + 1
      BY <3>1, <3>4, RunnerAssumption
    <3> QED BY <3>3, <3>5
  <2>2. CASE ReadEnds
    BY <2>2, RunnerAssumption DEF ReadEnds, disk, main, writing, model
  <2>3. CASE ReadSendsEnd
    <3>1. HasRoom(readQ) /\ readQ' = Append(readQ, End(reader = "end_ok"))
      BY <2>3 DEF ReadSendsEnd
    <3>2. readQ' \in Seq(Messages(Spans)) /\ Len(readQ') <= Capacity
      BY <3>1, EndIsMessage, QueueTakesMessage
    <3> QED BY <2>3, <3>2 DEF ReadSendsEnd
  <2>4. CASE ReadGivesUp
    BY <2>4, RunnerAssumption DEF ReadGivesUp, disk, main, writing, model
  <2> QED
    BY <1>2, <2>1, <2>2, <2>3, <2>4 DEF Reader
<1>3. ASSUME NEW w \in Writers, Writer(w) PROVE ReadShape'
  BY <1>3, RunnerAssumption DEF Writer, WriterFails, DropTemp, main, reading, model,
       WriterCreates, WriterReceives, WriterWrites, disk, WriterDiscards,
       WriterPublishes
<1>4. CASE Main
  <2>1. CASE Receive
    <3>1. readQ' = Tail(readQ) /\ readQ # <<>> /\ nextRow' = nextRow
      BY <2>1 DEF Receive
    <3>2. readQ' \in Seq(Messages(Spans)) /\ Len(readQ') <= Capacity
      BY <3>1, QueueGivesMessage
    <3> QED BY <3>1, <3>2
  <2>2. CASE Augment
    BY <2>2, RunnerAssumption DEF Augment, Fails, disk, reading, writing
  <2>3. CASE AugmentEmpty
    BY <2>3, RunnerAssumption DEF AugmentEmpty, Fails, disk, reading, writing, model
  <2>4. CASE Deliver
    BY <2>4, RunnerAssumption DEF Deliver, Fails, disk, reading, model
  <2>5. CASE Drain
    BY <2>5, RunnerAssumption DEF Drain, disk, reading, writing
  <2>6. CASE SendClosed
    BY <2>6, RunnerAssumption DEF SendClosed, Fails, disk, reading, model
  <2>7. CASE Progress
    BY <2>7, RunnerAssumption DEF Progress, Fails, disk, reading, writing, model
  <2>8. CASE StopReader
    BY <2>8, RunnerAssumption DEF StopReader, DropReceiver, disk, writing, model
  <2>9. CASE EndClosed
    BY <2>9, RunnerAssumption DEF EndClosed, EndWriter, disk, reading, model
  <2>10. CASE EndOut
    BY <2>10, RunnerAssumption DEF EndOut, EndWriter, disk, reading, model
  <2>11. CASE JoinClosed
    BY <2>11, RunnerAssumption DEF JoinClosed, disk, reading, model
  <2>12. CASE JoinOut
    BY <2>12, RunnerAssumption DEF JoinOut, disk, reading, writing, model
  <2>13. CASE NoWriter
    BY <2>13, RunnerAssumption DEF NoWriter, disk, reading, writing, model
  <2>14. CASE ScopeEnds
    BY <2>14, RunnerAssumption DEF ScopeEnds, disk, reading, writing, model
  <2>15. CASE Save
    BY <2>15, RunnerAssumption DEF Save, reading, writing, model
  <2> QED
    BY <1>4, <2>1, <2>2, <2>3, <2>4, <2>5, <2>6, <2>7, <2>8, <2>9, <2>10, <2>11, <2>12,
         <2>13, <2>14, <2>15 DEF Main
<1>5. CASE Crash
  BY <1>5, RunnerAssumption DEF Crash
<1>6. CASE UNCHANGED vars
  BY <1>6 DEF vars, disk, main, reading, writing, model
<1>7. CASE Finished
  BY <1>6, <1>7 DEF Finished
<1> QED
  BY <1>1, <1>2, <1>3, <1>4, <1>5, <1>6, <1>7 DEF Next

LEMMA WriteShapeStep == BankShape /\ ThreadShape /\ WriteShape /\ [Next]_vars => WriteShape'
<1> SUFFICES ASSUME BankShape, ThreadShape, WriteShape, [Next]_vars PROVE WriteShape'
  OBVIOUS
<1> USE DEF WriteShape
<1>1. CASE StartRun
  BY <1>1, RunnerAssumption DEF StartRun, disk
<1>2. CASE Reader
  BY <1>2 DEF Reader, ReadChunk, disk, main, writing, model, ReadEnds, ReadSendsEnd,
       ReadGivesUp
<1>3. ASSUME NEW w \in Writers, Writer(w) PROVE WriteShape'
  <2>1. CASE WriterFails(w)
    BY <2>1 DEF WriterFails, DropTemp, main, reading, model
  <2>2. CASE WriterCreates(w)
    BY <2>2 DEF WriterCreates, main, reading, model
  <2>3. CASE WriterReceives(w)
    <3> DEFINE q == writeQ[w]
    <3>1. q \in Seq(Messages(Seq(Nat))) /\ q # <<>> /\ Len(q) <= Capacity
      BY <2>3 DEF WriterReceives
    <3>2. /\ Head(q) \in Messages(Seq(Nat)) /\ Tail(q) \in Seq(Messages(Seq(Nat)))
          /\ Len(Tail(q)) <= Capacity
      BY <3>1, QueueGivesMessage
    <3>3. Head(q).kind # "end" => Head(q).rows \in Seq(Nat)
      BY <3>2 DEF Messages
    <3>4. /\ writeQ' = [writeQ EXCEPT ![w] = Tail(q)]
          /\ buf' = [buf EXCEPT ![w] = IF Head(q).kind = "end" THEN @ ELSE @ \o Head(q).rows]
      BY <2>3 DEF WriterReceives
    <3> HIDE DEF q
    <3>5. (IF Head(q).kind = "end" THEN buf[w] ELSE buf[w] \o Head(q).rows) \in Seq(Nat)
      BY <3>3
    <3>6. buf' \in [Writers -> Seq(Nat)]
      BY <3>4, <3>5
    <3>7. writeQ' \in [Writers -> Seq(Messages(Seq(Nat)))]
      BY <3>2, <3>4
    <3>8. \A u \in Writers : Len(writeQ'[u]) <= Capacity
      BY <3>2, <3>4
    <3> QED BY <3>6, <3>7, <3>8
  <2>4. CASE WriterWrites(w)
    BY <2>4 DEF WriterWrites, disk, main, reading, model
  <2>5. CASE WriterDiscards(w)
    BY <2>5 DEF WriterDiscards, DropTemp, main, reading, model
  <2>6. CASE WriterPublishes(w)
    BY <2>6 DEF WriterPublishes, main, reading, model
  <2> QED
    BY <1>3, <2>1, <2>2, <2>3, <2>4, <2>5, <2>6 DEF Writer
<1>4. CASE Main
  <2>1. CASE Receive
    BY <2>1 DEF Receive, Fails, disk, writing, model
  <2>2. CASE Augment
    BY <2>2 DEF Augment, Fails, disk, reading, writing
  <2>3. CASE AugmentEmpty
    BY <2>3 DEF AugmentEmpty, Fails, disk, reading, writing, model
  <2>4. CASE Deliver
    <3>1. \/ UNCHANGED writeQ
          \/ /\ HasRoom(writeQ["out"])
             /\ writeQ' = [writeQ EXCEPT !["out"] = Append(@, Chunk(chunk))]
      BY <2>4 DEF Deliver
    <3>3. UNCHANGED buf
      BY <2>4 DEF Deliver
    <3>2. Chunk(chunk) \in Messages(Seq(Nat))
      <4>1. chunk \in Seq(Rows)
        BY SpanOfRows DEF BankShape
      <4>2. chunk \in Seq(Nat)
        BY <4>1, RunnerAssumption DEF Rows
      <4> QED BY <4>2, ChunkIsMessage
    <3> QED BY <3>1, <3>2, <3>3, SendKeepsShape DEF Writers
  <2>5. CASE Drain
    BY <2>5 DEF Drain, disk, reading, writing
  <2>6. CASE SendClosed
    <3>1. \/ UNCHANGED writeQ
          \/ /\ HasRoom(writeQ["closed"])
             /\ writeQ' = [writeQ EXCEPT !["closed"] = Append(@, Chunk(drained))]
      BY <2>6 DEF SendClosed
    <3>3. UNCHANGED buf
      BY <2>6 DEF SendClosed
    <3>2. Chunk(drained) \in Messages(Seq(Nat))
      BY ChunkIsMessage DEF BankShape
    <3> QED BY <3>1, <3>2, <3>3, SendKeepsShape DEF Writers
  <2>7. CASE Progress
    BY <2>7 DEF Progress, Fails, disk, reading, writing, model
  <2>8. CASE StopReader
    BY <2>8 DEF StopReader, DropReceiver, disk, writing, model
  <2>9. CASE EndClosed
    <3>1. CASE PublishesClosed /\ WriterLive("closed")
      BY <2>9, <3>1, EndIsMessage, SendKeepsShape DEF EndClosed, EndWriter, Writers
    <3>2. CASE ~(PublishesClosed /\ WriterLive("closed"))
      BY <2>9, <3>2 DEF EndClosed, EndWriter
    <3> QED BY <3>1, <3>2
  <2>10. CASE EndOut
    <3>1. CASE PublishesOut /\ WriterLive("out")
      BY <2>10, <3>1, EndIsMessage, SendKeepsShape DEF EndOut, EndWriter, Writers
    <3>2. CASE ~(PublishesOut /\ WriterLive("out"))
      BY <2>10, <3>2 DEF EndOut, EndWriter
    <3> QED BY <3>1, <3>2
  <2>11. CASE JoinClosed
    BY <2>11 DEF JoinClosed, disk, reading, model
  <2>12. CASE JoinOut
    BY <2>12 DEF JoinOut, disk, reading, writing, model
  <2>13. CASE NoWriter
    BY <2>13 DEF NoWriter, disk, reading, writing, model
  <2>14. CASE ScopeEnds
    BY <2>14 DEF ScopeEnds, disk, reading, writing, model
  <2>15. CASE Save
    BY <2>15 DEF Save, reading, writing, model
  <2> QED
    BY <1>4, <2>1, <2>2, <2>3, <2>4, <2>5, <2>6, <2>7, <2>8, <2>9, <2>10, <2>11, <2>12,
         <2>13, <2>14, <2>15 DEF Main
<1>5. CASE Crash
  BY <1>5, RunnerAssumption DEF Crash
<1>6. CASE UNCHANGED vars
  BY <1>6 DEF vars, disk, main, reading, writing, model
<1>7. CASE Finished
  BY <1>6, <1>7 DEF Finished
<1> QED
  BY <1>1, <1>2, <1>3, <1>4, <1>5, <1>6, <1>7 DEF Next

LEMMA BankShapeStep == FileShape /\ ReadShape /\ BankShape /\ [Next]_vars => BankShape'
<1> SUFFICES ASSUME FileShape, ReadShape, BankShape, [Next]_vars PROVE BankShape'
  OBVIOUS
<1> USE DEF BankShape
<1>1. CASE StartRun
  BY <1>1, RunnerAssumption, EmptySpan DEF StartRun, disk, NoBank, FileShape,
       StateShapes, BankShapes, LastOf, Rows
<1>2. CASE Reader
  BY <1>2 DEF Reader, ReadChunk, disk, main, writing, model, ReadEnds, ReadSendsEnd,
       ReadGivesUp
<1>3. ASSUME NEW w \in Writers, Writer(w) PROVE BankShape'
  BY <1>3 DEF Writer, WriterFails, DropTemp, main, reading, model, WriterCreates,
       WriterReceives, WriterWrites, disk, WriterDiscards, WriterPublishes
<1>4. CASE Main
  <2>1. CASE Receive
    <3>1. Head(readQ) \in Messages(Spans)
      BY <2>1, QueueGivesMessage DEF Receive, ReadShape
    <3>2. ASSUME Head(readQ).kind = "chunk" PROVE Unlearned(Head(readQ).rows) \in Spans
      <4>1. PICK a \in 0 .. NRows, b \in 0 .. NRows : Head(readQ).rows = Span(a, b)
        <5>1. Head(readQ).rows \in Spans
          BY <3>1, <3>2 DEF Messages
        <5> QED BY <5>1 DEF Spans
      <4>2. a \in Nat /\ b \in Nat /\ skipTo \in Nat
        BY RunnerAssumption
      <4>3. Unlearned(Span(a, b)) = Span(Larger(a, skipTo), b)
        BY <4>2, UnlearnedSpan
      <4>4. Larger(a, skipTo) \in 0 .. NRows
        BY DEF Larger
      <4> QED BY <4>1, <4>3, <4>4 DEF Spans
    <3>3. chunk' \in Spans
      BY <2>1, <3>2 DEF Receive
    <3> QED BY <2>1, <3>3 DEF Receive, model
  <2>2. CASE Augment
    <3>1. chunk \in Seq(Rows)
      BY SpanOfRows
    <3>0. bank.learned \in Seq(Rows) /\ bank.queue \in Seq(Nat)
      BY DEF BankShapes
    <3>2. LastOf(bank.learned) \in Nat /\ LastOf(chunk) \in Nat
      BY <3>0, <3>1, RunnerAssumption DEF LastOf, Rows
    <3>3. ClosesBetween(LastOf(bank.learned), LastOf(chunk)) \in Seq(Nat)
      BY <3>2, ClosesIsSeq
    <3>4. bank.learned \o chunk \in Seq(Rows)
      BY <3>0, <3>1
    <3> DEFINE closes == ClosesBetween(LastOf(bank.learned), LastOf(chunk))
    <3> HIDE DEF closes
    <3>5. bank.queue \o closes \in Seq(Nat)
      BY <3>0, <3>3 DEF closes
    <3>6. \/ bank' = [learned |-> bank.learned \o chunk, queue |-> bank.queue \o closes]
          \/ UNCHANGED bank
      BY <2>2 DEF Augment, closes
    <3>7. bank' \in BankShapes
      BY <3>4, <3>5, <3>6, BankIsRecord
    <3> QED BY <2>2, <3>7 DEF Augment
  <2>3. CASE AugmentEmpty
    BY <2>3, EmptySpan DEF AugmentEmpty, Fails, disk, reading, writing, model
  <2>4. CASE Deliver
    BY <2>4 DEF Deliver, Fails, disk, reading, model
  <2>5. CASE Drain
    <3>1. bank.learned \in Seq(Rows) /\ bank.queue \in Seq(Nat)
      BY DEF BankShapes
    <3>2. \/ UNCHANGED bank
          \/ bank' = [learned |-> bank.learned, queue |-> <<>>]
      BY <2>5, DrainedBank DEF Drain
    <3> <<>> \in Seq(Nat)
      OBVIOUS
    <3>3. bank' \in BankShapes
      BY <3>1, <3>2, BankIsRecord
    <3>4. sidecar \o bank.queue \in Seq(Nat)
      BY <3>1
    <3>5. drained' \in Seq(Nat) /\ sidecar' \in Seq(Nat)
      BY <2>5, <3>1, <3>4 DEF Drain
    <3> QED BY <2>5, <3>3, <3>5 DEF Drain
  <2>6. CASE SendClosed
    BY <2>6 DEF SendClosed, Fails, disk, reading, model
  <2>7. CASE Progress
    BY <2>7 DEF Progress, Fails, disk, reading, writing, model
  <2>8. CASE StopReader
    BY <2>8 DEF StopReader, DropReceiver, disk, writing, model
  <2>9. CASE EndClosed
    BY <2>9 DEF EndClosed, EndWriter, disk, reading, model
  <2>10. CASE EndOut
    BY <2>10 DEF EndOut, EndWriter, disk, reading, model
  <2>11. CASE JoinClosed
    BY <2>11 DEF JoinClosed, disk, reading, model
  <2>12. CASE JoinOut
    BY <2>12 DEF JoinOut, disk, reading, writing, model
  <2>13. CASE NoWriter
    BY <2>13 DEF NoWriter, disk, reading, writing, model
  <2>14. CASE ScopeEnds
    BY <2>14 DEF ScopeEnds, disk, reading, writing, model
  <2>15. CASE Save
    BY <2>15 DEF Save, reading, writing, model
  <2> QED
    BY <1>4, <2>1, <2>2, <2>3, <2>4, <2>5, <2>6, <2>7, <2>8, <2>9, <2>10, <2>11, <2>12,
         <2>13, <2>14, <2>15 DEF Main
<1>5. CASE Crash
  BY <1>5, RunnerAssumption, EmptySpan DEF Crash, NoBank, BankShapes
<1>6. CASE UNCHANGED vars
  BY <1>6 DEF vars, disk, main, reading, writing, model
<1>7. CASE Finished
  BY <1>6, <1>7 DEF Finished
<1> QED
  BY <1>1, <1>2, <1>3, <1>4, <1>5, <1>6, <1>7 DEF Next

-----------------------------------------------------------------------------
(* How the threads' control fits together.                                 *)

\* Where each sender is still there.
Senders ==
  /\ pc \in Feeding \cup {"stop", "end_closed"} => sending["closed"]
  /\ pc \in Feeding \cup {"stop", "end_closed", "join_closed", "end_out"} => sending["out"]

\* A queue's last message alone may be an End, and the sender has then gone.
EndLast(q) == \A i \in 1 .. Len(q) : q[i].kind = "end" => i = Len(q)
HasEnd(q)  == q # <<>> /\ q[Len(q)].kind = "end"
Ends ==
  \A w \in Writers :
    /\ EndLast(writeQ[w])
    /\ sending[w] => ~HasEnd(writeQ[w]) /\ writer[w] # "finish"
    /\ writer[w] = "finish" => writeQ[w] = <<>>

\* What a writer returned is known when it is done, and it only returns well
\* once its sender has gone.
Returned ==
  \A w \in Writers :
    /\ written[w] = "none" <=> writer[w] # "done"
    /\ written[w] = "ok" => ~sending[w]

\* A writer's thread is there when the run has it.
Present ==
  /\ pc # "idle" => /\ writer["out"] # "absent" <=> cfg.out = "file"
                    /\ writer["closed"] # "absent" <=> cfg.closed
  /\ pc = "idle" => \A w \in Writers : writer[w] = "absent"

\* The stages a run passes are those its configuration has.
Stages ==
  /\ pc = "join_closed" => cfg.closed
  /\ pc = "join_out" => cfg.out = "file"
  /\ pc \in {"send_closed", "send_last_closed"} => cfg.closed
  /\ pc \in {"save", "publish_state"} => cfg.save
  /\ pc \in {"end_out", "join_out"} \cup Over => ~WriterLive("closed")

\* Frames are fed, and the state is saved, by a run that stands well.
OkSoFar == pc \in Feeding \cup {"save", "publish_state"} => result = "ok"

\* A run that found a channel stopped has yet to join the writer that failed;
\* the other errors of its end come when it is over.
ErrorsHaveCause ==
  /\ result = "writer_stopped" =>
       \/ /\ pc \in {"stop", "end_closed", "join_closed", "end_out", "join_out"}
          /\ written["out"] = "err"
       \/ pc \in {"stop", "end_closed", "join_closed"} /\ written["closed"] = "err"
  /\ result \in {"io_closed", "io_out"} => pc \in {"scope_end", "returned"}
  /\ result = "io_state" => pc = "returned"

LEMMA ChunkQueued ==
  ASSUME NEW F, NEW q \in Seq(Messages(F)), NEW f, EndLast(q), ~HasEnd(q)
  PROVE  LET r == Append(q, Chunk(f)) IN EndLast(r) /\ ~HasEnd(r)
<1> DEFINE r == Append(q, Chunk(f))
<1>1. /\ Len(q) \in Nat /\ Len(r) = Len(q) + 1 /\ r # <<>>
      /\ r[Len(r)] = Chunk(f) /\ \A i \in 1 .. Len(q) : r[i] = q[i]
  OBVIOUS
<1>2. \A i \in 1 .. Len(q) : q[i].kind # "end"
  BY <1>1 DEF EndLast, HasEnd
<1>3. r[Len(r)].kind # "end"
  BY <1>1 DEF Chunk
<1> HIDE DEF r
<1>4. EndLast(r) /\ ~HasEnd(r)
  BY <1>1, <1>2, <1>3 DEF EndLast, HasEnd
<1> QED BY <1>4 DEF r

LEMMA EndQueued ==
  ASSUME NEW F, NEW q \in Seq(Messages(F)), NEW ok \in BOOLEAN, EndLast(q), ~HasEnd(q)
  PROVE  LET r == Append(q, End(ok)) IN EndLast(r) /\ HasEnd(r)
<1> DEFINE r == Append(q, End(ok))
<1>1. /\ Len(q) \in Nat /\ Len(r) = Len(q) + 1 /\ r # <<>>
      /\ r[Len(r)] = End(ok) /\ \A i \in 1 .. Len(q) : r[i] = q[i]
  OBVIOUS
<1>2. \A i \in 1 .. Len(q) : q[i].kind # "end"
  BY <1>1 DEF EndLast, HasEnd
<1>3. r[Len(r)].kind = "end"
  BY <1>1 DEF End
<1> HIDE DEF r
<1>4. EndLast(r) /\ HasEnd(r)
  BY <1>1, <1>2, <1>3 DEF EndLast, HasEnd
<1> QED BY <1>4 DEF r

LEMMA MessageTaken ==
  ASSUME NEW F, NEW q \in Seq(Messages(F)), q # <<>>, EndLast(q)
  PROVE  /\ EndLast(Tail(q))
         /\ HasEnd(Tail(q)) => HasEnd(q)
         /\ Head(q).kind = "end" => Tail(q) = <<>> /\ HasEnd(q)
         /\ Head(q).kind # "end" /\ HasEnd(q) => HasEnd(Tail(q))
<1> DEFINE t == Tail(q)
<1>1. /\ Len(q) \in Nat /\ Len(q) > 0 /\ Len(t) = Len(q) - 1 /\ Head(q) = q[1]
      /\ \A i \in 1 .. Len(t) : t[i] = q[i + 1]
  OBVIOUS
<1>0. t = <<>> <=> Len(t) = 0
  <2>1. t \in Seq(Messages(F))
    OBVIOUS
  <2> HIDE DEF t
  <2> QED BY <2>1
<1> HIDE DEF t
<1>2. EndLast(t)
  BY <1>1 DEF EndLast
<1>3. t # <<>> => t[Len(t)] = q[Len(q)]
  BY <1>0, <1>1
<1>4. Head(q).kind = "end" => t = <<>> /\ Len(q) = 1
  BY <1>0, <1>1 DEF EndLast
<1>5. Len(q) = 1 \/ t # <<>>
  BY <1>0, <1>1
<1> QED BY <1>0, <1>1, <1>2, <1>3, <1>4, <1>5 DEF HasEnd, t

\* A chunk, or the End with which the sender goes, is sent to a writer.
LEMMA ChunkSentKeepsEnds ==
  ASSUME ThreadShape, WriteShape, Ends, NEW v \in Writers, NEW f, sending[v],
         writeQ' = [writeQ EXCEPT ![v] = Append(@, Chunk(f))], UNCHANGED <<writer, sending>>
  PROVE  Ends'
<1>1. writeQ[v] \in Seq(Messages(Seq(Nat))) /\ EndLast(writeQ[v]) /\ ~HasEnd(writeQ[v])
  BY DEF WriteShape, Ends
<1>2. EndLast(writeQ'[v]) /\ ~HasEnd(writeQ'[v])
  BY <1>1, ChunkQueued DEF WriteShape
<1>3. \A u \in Writers : u # v => writeQ'[u] = writeQ[u]
  BY DEF WriteShape
<1> QED BY <1>2, <1>3 DEF Ends

LEMMA EndSentKeepsEnds ==
  ASSUME ThreadShape, WriteShape, Ends, NEW v \in Writers, sending[v],
         writeQ' = [writeQ EXCEPT ![v] = Append(@, End(TRUE))],
         sending' = [sending EXCEPT ![v] = FALSE], UNCHANGED writer
  PROVE  Ends' /\ HasEnd(writeQ'[v])
<1>1. writeQ[v] \in Seq(Messages(Seq(Nat))) /\ EndLast(writeQ[v]) /\ ~HasEnd(writeQ[v])
  BY DEF WriteShape, Ends
<1>2. EndLast(writeQ'[v]) /\ HasEnd(writeQ'[v])
  BY <1>1, EndQueued DEF WriteShape
<1>3. \A u \in Writers : u # v => writeQ'[u] = writeQ[u] /\ sending'[u] = sending[u]
  BY DEF WriteShape, ThreadShape
<1>4. ~sending'[v] /\ writer[v] # "finish"
  BY DEF ThreadShape, Ends
<1> QED BY <1>2, <1>3, <1>4 DEF Ends

LEMMA SendersStep == PlaceShape /\ ThreadShape /\ Senders /\ [Next]_vars => Senders'
<1> SUFFICES ASSUME PlaceShape, ThreadShape, Senders, [Next]_vars PROVE Senders'
  OBVIOUS
<1> USE DEF Senders, PlaceShape, ThreadShape, PCs, Feeding, Over, Writers
<1>1. CASE StartRun
  BY <1>1 DEF StartRun, disk
<1>2. CASE Reader
  BY <1>2 DEF Reader, ReadChunk, disk, main, writing, model, ReadEnds, ReadSendsEnd,
       ReadGivesUp
<1>3. ASSUME NEW w \in Writers, Writer(w) PROVE Senders'
  BY <1>3 DEF Writer, WriterFails, DropTemp, main, reading, model, WriterCreates,
       WriterReceives, WriterWrites, disk, WriterDiscards, WriterPublishes
<1>4. CASE Main
  BY <1>4 DEF Main, Receive, Fails, disk, writing, model, Augment, reading,
       AugmentEmpty, Deliver, Drain, SendClosed, Progress, StopReader, DropReceiver,
       EndClosed, EndWriter, EndOut, JoinClosed, JoinOut, NoWriter, ScopeEnds, Save
<1>5. CASE Crash
  BY <1>5 DEF Crash
<1>6. CASE UNCHANGED vars
  BY <1>6 DEF vars, disk, main, reading, writing, model
<1>7. CASE Finished
  BY <1>6, <1>7 DEF Finished
<1> QED
  BY <1>1, <1>2, <1>3, <1>4, <1>5, <1>6, <1>7 DEF Next

LEMMA EndsStep == PlaceShape /\ ThreadShape /\ WriteShape /\ Senders /\ Ends /\ [Next]_vars => Ends'
<1> SUFFICES ASSUME PlaceShape, ThreadShape, WriteShape, Senders, Ends, [Next]_vars PROVE Ends'
  OBVIOUS
<1>1. CASE StartRun
  BY <1>1 DEF StartRun, disk, Ends, EndLast, HasEnd, Writers
<1>2. CASE Reader
  <2>1. CASE ReadChunk
    BY <2>1 DEF ReadChunk, disk, main, writing, model, Ends
  <2>2. CASE ReadEnds
    BY <2>2 DEF ReadEnds, disk, main, writing, model, Ends
  <2>3. CASE ReadSendsEnd
    BY <2>3 DEF ReadSendsEnd, disk, main, writing, model, Ends
  <2>4. CASE ReadGivesUp
    BY <2>4 DEF ReadGivesUp, disk, main, writing, model, Ends
  <2> QED
    BY <1>2, <2>1, <2>2, <2>3, <2>4 DEF Reader
<1>3. ASSUME NEW w \in Writers, Writer(w) PROVE Ends'
  <2>1. CASE WriterFails(w)
    BY <2>1 DEF WriterFails, DropTemp, main, reading, model, Ends, ThreadShape
  <2>2. CASE WriterCreates(w)
    BY <2>2 DEF WriterCreates, main, reading, model, Ends, ThreadShape
  <2>3. CASE WriterReceives(w)
    <3> DEFINE q == writeQ[w]
               noFrames == Head(q).kind = "end" /\ writer[w] = "first"
    <3>1. q \in Seq(Messages(Seq(Nat))) /\ q # <<>> /\ EndLast(q)
      BY <2>3 DEF WriterReceives, WriteShape, Ends
    <3>2. /\ EndLast(Tail(q)) /\ (HasEnd(Tail(q)) => HasEnd(q))
          /\ Head(q).kind = "end" => Tail(q) = <<>> /\ HasEnd(q)
      BY <3>1, MessageTaken
    <3>3. /\ writeQ' = [writeQ EXCEPT ![w] = Tail(q)] /\ UNCHANGED sending
          /\ writer' = [writer EXCEPT ![w] = IF noFrames THEN "done"
                           ELSE IF Head(q).kind = "end" THEN "finish" ELSE "write"]
      BY <2>3 DEF WriterReceives
    <3>4. \A v \in Writers : v # w => writeQ'[v] = writeQ[v] /\ writer'[v] = writer[v]
      BY <3>3 DEF WriteShape, ThreadShape
    <3>5. writeQ'[w] = Tail(q) /\ (writer'[w] = "finish" => Head(q).kind = "end")
      BY <3>3 DEF WriteShape, ThreadShape
    <3>6. sending[w] => ~HasEnd(q)
      BY DEF Ends
    <3> HIDE DEF q
    <3> QED BY <3>2, <3>3, <3>4, <3>5, <3>6 DEF Ends
  <2>4. CASE WriterWrites(w)
    BY <2>4 DEF WriterWrites, disk, main, reading, model, Ends, ThreadShape
  <2>5. CASE WriterDiscards(w)
    BY <2>5 DEF WriterDiscards, DropTemp, main, reading, model, Ends, ThreadShape
  <2>6. CASE WriterPublishes(w)
    BY <2>6 DEF WriterPublishes, main, reading, model, Ends, ThreadShape
  <2> QED
    BY <1>3, <2>1, <2>2, <2>3, <2>4, <2>5, <2>6 DEF Writer
<1>4. CASE Main
  <2>1. CASE Receive
    BY <2>1 DEF Receive, Fails, disk, writing, model, Ends
  <2>2. CASE Augment
    BY <2>2 DEF Augment, Fails, disk, reading, writing, Ends
  <2>3. CASE AugmentEmpty
    BY <2>3 DEF AugmentEmpty, Fails, disk, reading, writing, model, Ends
  <2>4. CASE Deliver
    <3>1. CASE UNCHANGED writeQ
      BY <2>4, <3>1 DEF Deliver, Ends
    <3>2. CASE writeQ' = [writeQ EXCEPT !["out"] = Append(@, Chunk(chunk))]
      <4>1. sending["out"]
        BY <2>4 DEF Deliver, Senders, Feeding
      <4> QED BY <2>4, <3>2, <4>1, ChunkSentKeepsEnds DEF Deliver, Writers
    <3> QED BY <2>4, <3>1, <3>2 DEF Deliver
  <2>5. CASE Drain
    BY <2>5 DEF Drain, disk, reading, writing, Ends
  <2>6. CASE SendClosed
    <3>1. CASE UNCHANGED writeQ
      BY <2>6, <3>1 DEF SendClosed, Ends
    <3>2. CASE writeQ' = [writeQ EXCEPT !["closed"] = Append(@, Chunk(drained))]
      <4>1. sending["closed"]
        BY <2>6 DEF SendClosed, Senders, Feeding
      <4> QED BY <2>6, <3>2, <4>1, ChunkSentKeepsEnds DEF SendClosed, Writers
    <3> QED BY <2>6, <3>1, <3>2 DEF SendClosed
  <2>7. CASE Progress
    BY <2>7 DEF Progress, Fails, disk, reading, writing, model, Ends
  <2>8. CASE StopReader
    BY <2>8 DEF StopReader, DropReceiver, disk, writing, model, Ends
  <2>9. CASE EndClosed
    <3>1. sending["closed"] /\ sending' = [sending EXCEPT !["closed"] = FALSE] /\ UNCHANGED writer
      BY <2>9 DEF EndClosed, EndWriter, Senders
    <3>2. CASE UNCHANGED writeQ
      BY <3>1, <3>2 DEF Ends, ThreadShape, Writers
    <3>3. CASE writeQ' = [writeQ EXCEPT !["closed"] = Append(@, End(TRUE))]
      BY <3>1, <3>3, EndSentKeepsEnds DEF Writers
    <3> QED BY <2>9, <3>2, <3>3 DEF EndClosed, EndWriter
  <2>10. CASE EndOut
    <3>1. sending["out"] /\ sending' = [sending EXCEPT !["out"] = FALSE] /\ UNCHANGED writer
      BY <2>10 DEF EndOut, EndWriter, Senders
    <3>2. CASE UNCHANGED writeQ
      BY <3>1, <3>2 DEF Ends, ThreadShape, Writers
    <3>3. CASE writeQ' = [writeQ EXCEPT !["out"] = Append(@, End(TRUE))]
      BY <3>1, <3>3, EndSentKeepsEnds DEF Writers
    <3> QED BY <2>10, <3>2, <3>3 DEF EndOut, EndWriter
  <2>11. CASE JoinClosed
    BY <2>11 DEF JoinClosed, disk, reading, model, Ends, ThreadShape
  <2>12. CASE JoinOut
    BY <2>12 DEF JoinOut, disk, reading, writing, model, Ends
  <2>13. CASE NoWriter
    BY <2>13 DEF NoWriter, disk, reading, writing, model, Ends
  <2>14. CASE ScopeEnds
    BY <2>14 DEF ScopeEnds, disk, reading, writing, model, Ends
  <2>15. CASE Save
    BY <2>15 DEF Save, reading, writing, model, Ends
  <2> QED
    BY <1>4, <2>1, <2>2, <2>3, <2>4, <2>5, <2>6, <2>7, <2>8, <2>9, <2>10, <2>11, <2>12,
         <2>13, <2>14, <2>15 DEF Main
<1>5. CASE Crash
  BY <1>5 DEF Crash, Ends, EndLast, HasEnd
<1>6. CASE UNCHANGED vars
  BY <1>6 DEF vars, disk, main, reading, writing, model, Ends
<1>7. CASE Finished
  BY <1>6, <1>7 DEF Finished
<1> QED
  BY <1>1, <1>2, <1>3, <1>4, <1>5, <1>6, <1>7 DEF Next

LEMMA ReturnedStep == PlaceShape /\ ThreadShape /\ Senders /\ Ends /\ Returned /\ [Next]_vars => Returned'
<1> SUFFICES ASSUME PlaceShape, ThreadShape, Senders, Ends, Returned, [Next]_vars PROVE Returned'
  OBVIOUS
<1> USE DEF Returned, PlaceShape, ThreadShape, PCs, Feeding, Over, Writers
<1>1. CASE StartRun
  BY <1>1 DEF StartRun, disk
<1>2. CASE Reader
  BY <1>2 DEF Reader, ReadChunk, disk, main, writing, model, ReadEnds, ReadSendsEnd,
       ReadGivesUp
<1>3. ASSUME NEW w \in Writers, Writer(w) PROVE Returned'
  <2>1. CASE WriterFails(w)
    BY <2>1 DEF WriterFails, DropTemp, main, reading, model
  <2>2. CASE WriterCreates(w)
    BY <2>2 DEF WriterCreates, main, reading, model
  <2>3. CASE WriterReceives(w)
    BY <2>3 DEF WriterReceives, DropTemp, main, reading, model, Senders, Ends, HasEnd
  <2>4. CASE WriterWrites(w)
    BY <2>4 DEF WriterWrites, disk, main, reading, model
  <2>5. CASE WriterDiscards(w)
    BY <2>5 DEF WriterDiscards, DropTemp, main, reading, model
  <2>6. CASE WriterPublishes(w)
    BY <2>6 DEF WriterPublishes, main, reading, model, Senders, Ends, HasEnd
  <2> QED
    BY <1>3, <2>1, <2>2, <2>3, <2>4, <2>5, <2>6 DEF Writer
<1>4. CASE Main
  BY <1>4 DEF Main, Receive, Fails, disk, writing, model, Augment, reading,
       AugmentEmpty, Deliver, Drain, SendClosed, Progress, StopReader, DropReceiver,
       EndClosed, EndWriter, EndOut, JoinClosed, JoinOut, NoWriter, ScopeEnds, Save
<1>5. CASE Crash
  BY <1>5 DEF Crash
<1>6. CASE UNCHANGED vars
  BY <1>6 DEF vars, disk, main, reading, writing, model
<1>7. CASE Finished
  BY <1>6, <1>7 DEF Finished
<1> QED
  BY <1>1, <1>2, <1>3, <1>4, <1>5, <1>6, <1>7 DEF Next

LEMMA PresentStep == PlaceShape /\ ThreadShape /\ Present /\ [Next]_vars => Present'
<1> SUFFICES ASSUME PlaceShape, ThreadShape, Present, [Next]_vars PROVE Present'
  OBVIOUS
<1> USE DEF Present, PlaceShape, ThreadShape, Writers, PCs, Results, Errors, Feeding, Over
<1>1. CASE StartRun
  BY <1>1 DEF StartRun, disk
<1>2. CASE Reader
  BY <1>2 DEF Reader, ReadChunk, disk, main, writing, model, ReadEnds, ReadSendsEnd,
       ReadGivesUp
<1>3. ASSUME NEW w \in Writers, Writer(w) PROVE Present'
  BY <1>3 DEF Writer, WriterFails, DropTemp, main, reading, model, WriterCreates,
       WriterReceives, WriterWrites, disk, WriterDiscards, WriterPublishes
<1>4. CASE Main
  BY <1>4 DEF Main, Receive, Fails, disk, writing, model, Augment, reading,
       AugmentEmpty, Deliver, Drain, SendClosed, Progress, StopReader, DropReceiver,
       EndClosed, EndWriter, EndOut, JoinClosed, JoinOut, NoWriter, ScopeEnds, Save
<1>5. CASE Crash
  BY <1>5 DEF Crash
<1>6. CASE UNCHANGED vars
  BY <1>6 DEF vars, disk, main, reading, writing, model
<1>7. CASE Finished
  BY <1>6, <1>7 DEF Finished
<1> QED
  BY <1>1, <1>2, <1>3, <1>4, <1>5, <1>6, <1>7 DEF Next

LEMMA StagesStep == PlaceShape /\ ThreadShape /\ Present /\ Stages /\ [Next]_vars => Stages'
<1> SUFFICES ASSUME PlaceShape, ThreadShape, Present, Stages, [Next]_vars PROVE Stages'
  OBVIOUS
<1> USE DEF Stages, PlaceShape, ThreadShape, Writers, WriterLive, SavesState, PCs, Results,
     Errors, Feeding, Over
<1>1. CASE StartRun
  BY <1>1 DEF StartRun, disk
<1>2. CASE Reader
  BY <1>2 DEF Reader, ReadChunk, disk, main, writing, model, ReadEnds, ReadSendsEnd,
       ReadGivesUp
<1>3. ASSUME NEW w \in Writers, Writer(w) PROVE Stages'
  BY <1>3 DEF Writer, WriterFails, DropTemp, main, reading, model, WriterCreates,
       WriterReceives, WriterWrites, disk, WriterDiscards, WriterPublishes
<1>4. CASE Main
  <2>1. CASE Receive
    BY <2>1 DEF Receive, Fails, disk, writing, model
  <2>2. CASE Augment
    BY <2>2 DEF Augment, Fails, disk, reading, writing
  <2>3. CASE AugmentEmpty
    BY <2>3 DEF AugmentEmpty, Fails, disk, reading, writing, model
  <2>4. CASE Deliver
    BY <2>4 DEF Deliver, Fails, disk, reading, model
  <2>5. CASE Drain
    BY <2>5 DEF Drain, disk, reading, writing
  <2>6. CASE SendClosed
    BY <2>6 DEF SendClosed, Fails, disk, reading, model
  <2>7. CASE Progress
    BY <2>7 DEF Progress, Fails, disk, reading, writing, model
  <2>8. CASE StopReader
    BY <2>8 DEF StopReader, DropReceiver, disk, writing, model
  <2>9. CASE EndClosed
    BY <2>9 DEF EndClosed, EndWriter, disk, reading, model
  <2>10. CASE EndOut
    BY <2>10 DEF EndOut, EndWriter, disk, reading, model
  <2>11. CASE JoinClosed
    BY <2>11 DEF JoinClosed, disk, reading, model
  <2>12. CASE JoinOut
    BY <2>12 DEF JoinOut, disk, reading, writing, model
  <2>13. CASE NoWriter
    BY <2>13 DEF NoWriter, disk, reading, writing, model, Present
  <2>14. CASE ScopeEnds
    BY <2>14 DEF ScopeEnds, disk, reading, writing, model
  <2>15. CASE Save
    BY <2>15 DEF Save, reading, writing, model
  <2> QED
    BY <1>4, <2>1, <2>2, <2>3, <2>4, <2>5, <2>6, <2>7, <2>8, <2>9, <2>10, <2>11, <2>12,
         <2>13, <2>14, <2>15 DEF Main
<1>5. CASE Crash
  BY <1>5 DEF Crash
<1>6. CASE UNCHANGED vars
  BY <1>6 DEF vars, disk, main, reading, writing, model
<1>7. CASE Finished
  BY <1>6, <1>7 DEF Finished
<1> QED
  BY <1>1, <1>2, <1>3, <1>4, <1>5, <1>6, <1>7 DEF Next

LEMMA OkSoFarStep == PlaceShape /\ OkSoFar /\ [Next]_vars => OkSoFar'
<1> SUFFICES ASSUME PlaceShape, OkSoFar, [Next]_vars PROVE OkSoFar'
  OBVIOUS
<1> USE DEF OkSoFar, PlaceShape, SavesState, PCs, Results, Errors, Feeding, Over
<1>1. CASE StartRun
  BY <1>1 DEF StartRun, disk
<1>2. CASE Reader
  BY <1>2 DEF Reader, ReadChunk, disk, main, writing, model, ReadEnds, ReadSendsEnd,
       ReadGivesUp
<1>3. ASSUME NEW w \in Writers, Writer(w) PROVE OkSoFar'
  BY <1>3 DEF Writer, WriterFails, DropTemp, main, reading, model, WriterCreates,
       WriterReceives, WriterWrites, disk, WriterDiscards, WriterPublishes
<1>4. CASE Main
  BY <1>4 DEF Main, Receive, Fails, disk, writing, model, Augment, reading,
       AugmentEmpty, Deliver, Drain, SendClosed, Progress, StopReader, DropReceiver,
       EndClosed, EndWriter, EndOut, JoinClosed, JoinOut, NoWriter, ScopeEnds, Save
<1>5. CASE Crash
  BY <1>5 DEF Crash
<1>6. CASE UNCHANGED vars
  BY <1>6 DEF vars, disk, main, reading, writing, model
<1>7. CASE Finished
  BY <1>6, <1>7 DEF Finished
<1> QED
  BY <1>1, <1>2, <1>3, <1>4, <1>5, <1>6, <1>7 DEF Next

LEMMA ErrorsHaveCauseStep == PlaceShape /\ ThreadShape /\ Senders /\ Returned /\ Present /\ Stages /\ OkSoFar /\ ErrorsHaveCause /\ [Next]_vars => ErrorsHaveCause'
<1> SUFFICES ASSUME PlaceShape, ThreadShape, Senders, Returned, Present, Stages, OkSoFar, ErrorsHaveCause, [Next]_vars PROVE ErrorsHaveCause'
  OBVIOUS
<1> USE DEF ErrorsHaveCause, PlaceShape, ThreadShape, OkSoFar, Writers, WriterLive, PCs,
     Results, Errors, Feeding, Over
<1>1. CASE StartRun
  BY <1>1 DEF StartRun, disk
<1>2. CASE Reader
  BY <1>2 DEF Reader, ReadChunk, disk, main, writing, model, ReadEnds, ReadSendsEnd,
       ReadGivesUp
<1>3. ASSUME NEW w \in Writers, Writer(w) PROVE ErrorsHaveCause'
  <2>1. CASE WriterFails(w)
    BY <2>1 DEF WriterFails, DropTemp, main, reading, model
  <2>2. CASE WriterCreates(w)
    BY <2>2 DEF WriterCreates, main, reading, model
  <2>3. CASE WriterReceives(w)
    BY <2>3 DEF WriterReceives, DropTemp, main, reading, model
  <2>4. CASE WriterWrites(w)
    BY <2>4 DEF WriterWrites, disk, main, reading, model
  <2>5. CASE WriterDiscards(w)
  <3>1. (result = "writer_stopped" =>
           \/ /\ pc \in {"stop", "end_closed", "join_closed", "end_out", "join_out"}
              /\ written["out"] = "err"
           \/ pc \in {"stop", "end_closed", "join_closed"} /\ written["closed"] = "err")'
    BY <2>5 DEF WriterDiscards, DropTemp, main, reading, model, Returned
  <3>2. (result \in {"io_closed", "io_out"} => pc \in {"scope_end", "returned"})'
    BY <2>5 DEF WriterDiscards, DropTemp, main, reading, model, Returned
  <3>3. (result = "io_state" => pc = "returned")'
    BY <2>5 DEF WriterDiscards, DropTemp, main, reading, model, Returned
  <3> QED
    BY <3>1, <3>2, <3>3
  <2>6. CASE WriterPublishes(w)
  <3>1. (result = "writer_stopped" =>
           \/ /\ pc \in {"stop", "end_closed", "join_closed", "end_out", "join_out"}
              /\ written["out"] = "err"
           \/ pc \in {"stop", "end_closed", "join_closed"} /\ written["closed"] = "err")'
    BY <2>6 DEF WriterPublishes, main, reading, model, Returned
  <3>2. (result \in {"io_closed", "io_out"} => pc \in {"scope_end", "returned"})'
    BY <2>6 DEF WriterPublishes, main, reading, model, Returned
  <3>3. (result = "io_state" => pc = "returned")'
    BY <2>6 DEF WriterPublishes, main, reading, model, Returned
  <3> QED
    BY <3>1, <3>2, <3>3
  <2> QED
    BY <1>3, <2>1, <2>2, <2>3, <2>4, <2>5, <2>6 DEF Writer
<1>4. CASE Main
  <2>1. CASE Receive
    BY <2>1 DEF Receive, Fails, disk, writing, model
  <2>2. CASE Augment
    BY <2>2 DEF Augment, Fails, disk, reading, writing
  <2>3. CASE AugmentEmpty
    BY <2>3 DEF AugmentEmpty, Fails, disk, reading, writing, model
  <2>4. CASE Deliver
    BY <2>4 DEF Deliver, Fails, disk, reading, model, Senders, Returned, Present
  <2>5. CASE Drain
    BY <2>5 DEF Drain, disk, reading, writing
  <2>6. CASE SendClosed
    BY <2>6 DEF SendClosed, Fails, disk, reading, model, Senders, Returned, Present,
         Stages
  <2>7. CASE Progress
    BY <2>7 DEF Progress, Fails, disk, reading, writing, model
  <2>8. CASE StopReader
    BY <2>8 DEF StopReader, DropReceiver, disk, writing, model
  <2>9. CASE EndClosed
    BY <2>9 DEF EndClosed, EndWriter, disk, reading, model
  <2>10. CASE EndOut
    BY <2>10 DEF EndOut, EndWriter, disk, reading, model
  <2>11. CASE JoinClosed
    BY <2>11 DEF JoinClosed, disk, reading, model, ErrorReplaces, Returned
  <2>12. CASE JoinOut
    BY <2>12 DEF JoinOut, disk, reading, writing, model, ErrorReplaces, Returned
  <2>13. CASE NoWriter
    BY <2>13 DEF NoWriter, disk, reading, writing, model, Returned, Present
  <2>14. CASE ScopeEnds
  <3>1. (result = "writer_stopped" =>
           \/ /\ pc \in {"stop", "end_closed", "join_closed", "end_out", "join_out"}
              /\ written["out"] = "err"
           \/ pc \in {"stop", "end_closed", "join_closed"} /\ written["closed"] = "err")'
    BY <2>14 DEF ScopeEnds, disk, reading, writing, model, SavesState
  <3>2. (result \in {"io_closed", "io_out"} => pc \in {"scope_end", "returned"})'
    BY <2>14 DEF ScopeEnds, disk, reading, writing, model, SavesState
  <3>3. (result = "io_state" => pc = "returned")'
    BY <2>14 DEF ScopeEnds, disk, reading, writing, model, SavesState
  <3> QED
    BY <3>1, <3>2, <3>3
  <2>15. CASE Save
    BY <2>15 DEF Save, reading, writing, model
  <2> QED
    BY <1>4, <2>1, <2>2, <2>3, <2>4, <2>5, <2>6, <2>7, <2>8, <2>9, <2>10, <2>11, <2>12,
         <2>13, <2>14, <2>15 DEF Main
<1>5. CASE Crash
  BY <1>5 DEF Crash
<1>6. CASE UNCHANGED vars
  BY <1>6 DEF vars, disk, main, reading, writing, model
<1>7. CASE Finished
  BY <1>6, <1>7 DEF Finished
<1> QED
  BY <1>1, <1>2, <1>3, <1>4, <1>5, <1>6, <1>7 DEF Next

-----------------------------------------------------------------------------
(* What the writers publish, and when.                                     *)

\* The files and the state are of this run or of earlier ones, the state of
\* earlier ones as long as a run goes on.
DiskInOrder ==
  /\ \A w \in Writers : file[w].run <= run
  /\ stateFile.run <= run
  /\ Running => stateFile.run < run

\* A writer has had a frame before it can be ended: the output's writer once
\* the first frame is delivered, the sidecar's once a frame was sent.
Waiting(w) == writer[w] \in {"create", "first"}
AfterFrame == {"drain", "send_closed", "progress", "last_drain", "send_last_closed",
               "stop", "end_closed", "join_closed", "end_out"}
FirstIsChunk ==
  \A w \in Writers : Waiting(w) /\ writeQ[w] # <<>> => Head(writeQ[w]).kind = "chunk"
OutHasFrame ==
  Waiting("out") /\ result = "ok" /\ ((fed /\ pc \in Feeding) \/ pc \in AfterFrame) =>
    writeQ["out"] # <<>>
ClosedHasFrame ==
  Waiting("closed") /\ (closedSent \/ (result = "ok" /\ pc \in {"stop", "end_closed"})) =>
    writeQ["closed"] # <<>>
FrameBefore == FirstIsChunk /\ OutHasFrame /\ ClosedHasFrame

\* The output is published by a run that stands well and is joining its
\* writer, and by no other.
Ending(w) == WriterLive(w) /\ (writer[w] = "finish" \/ HasEnd(writeQ[w]))
Good      == result \in {"ok", "io_state"}
OutEnding == Ending("out") => pc = "join_out" /\ result = "ok"
OutEnds   == pc = "join_out" /\ result = "ok" /\ WriterLive("out") => Ending("out")
OutThere  ==
  pc \in {"join_out"} \cup Over /\ written["out"] = "ok" /\ Good => file["out"].run = run
OutLate   == pc \in Over /\ WriterLive("out") => ~Good
OutFailed == pc \in Over /\ written["out"] = "err" => ~Good
OutOnlyThen ==
  pc # "idle" /\ file["out"].run = run =>
    pc \in {"join_out"} \cup Over /\ Good /\ written["out"] = "ok"
OutGoesWithResult == OutEnding /\ OutEnds /\ OutThere /\ OutLate /\ OutFailed /\ OutOnlyThen

\* The sidecar is published by a run that stands well or has sent a frame of
\* it, while it joins its writer, and by no other.
AfterClosed   == {"end_out", "join_out"} \cup Over
ClosedEnding  == Ending("closed") => pc = "join_closed"
ClosedEnds    ==
  pc = "join_closed" /\ (result = "ok" \/ closedSent) /\ WriterLive("closed") =>
    Ending("closed")
ClosedThere   ==
  /\ pc \in {"join_closed"} \cup AfterClosed /\ written["closed"] = "ok"
  /\ closedSent \/ Good
  => file["closed"].run = run
ClosedFailed  == pc \in AfterClosed /\ written["closed"] = "err" => ~Good
ClosedOnlyThen ==
  pc # "idle" /\ file["closed"].run = run =>
    pc \in {"join_closed"} \cup AfterClosed /\ written["closed"] = "ok"
ClosedGoesWithResult ==
  ClosedEnding /\ ClosedEnds /\ ClosedThere /\ ClosedFailed /\ ClosedOnlyThen

\* The temporaries are those of runs that died and of this run's threads.
TempsInUse ==
  \A t \in temps :
    \/ t[2] \in crashed
    \/ t = <<"state", run>> /\ pc = "publish_state"
    \/ \E w \in Writers :
         t = <<w, run>> /\ writer[w] \in {"first", "recv", "write", "finish"}

\* What a send, and a receive, do to the channels of the writers.
LEMMA MessageSent ==
  ASSUME WriteShape, NEW v \in Writers, NEW m \in Messages(Seq(Nat)),
         writeQ' = [writeQ EXCEPT ![v] = Append(@, m)]
  PROVE  /\ writeQ'[v] # <<>>
         /\ Head(writeQ'[v]) = IF writeQ[v] = <<>> THEN m ELSE Head(writeQ[v])
         /\ HasEnd(writeQ'[v]) <=> m.kind = "end"
         /\ \A u \in Writers : u # v => writeQ'[u] = writeQ[u]
<1> DEFINE q == writeQ[v]
           r == Append(q, m)
<1>1. q \in Seq(Messages(Seq(Nat))) /\ writeQ'[v] = r
  BY DEF WriteShape
<1>2. \A u \in Writers : u # v => writeQ'[u] = writeQ[u]
  BY DEF WriteShape
<1> HIDE DEF q
<1>3. /\ r \in Seq(Messages(Seq(Nat))) /\ Len(r) = Len(q) + 1 /\ r # <<>>
      /\ r[Len(r)] = m /\ \A i \in 1 .. Len(q) : r[i] = q[i]
  BY <1>1
<1>4. Head(r) = IF q = <<>> THEN m ELSE Head(q)
  BY <1>1
<1>5. HasEnd(r) <=> m.kind = "end"
  BY <1>3 DEF HasEnd
<1> QED BY <1>1, <1>2, <1>3, <1>4, <1>5 DEF q

ChunkGoes(v) ==
  /\ writeQ'[v] # <<>> /\ ~HasEnd(writeQ'[v])
  /\ Head(writeQ'[v]).kind = "chunk" \/ (writeQ[v] # <<>> /\ Head(writeQ'[v]) = Head(writeQ[v]))
  /\ \A u \in Writers : u # v => writeQ'[u] = writeQ[u]
EndGoes(v) ==
  /\ writeQ'[v] # <<>> /\ HasEnd(writeQ'[v])
  /\ writeQ[v] # <<>> => Head(writeQ'[v]) = Head(writeQ[v])
  /\ \A u \in Writers : u # v => writeQ'[u] = writeQ[u]

LEMMA DeliverSends ==
  ASSUME BankShape, WriteShape, Deliver
  PROVE  \/ UNCHANGED writeQ /\ ~(cfg.out = "file" /\ WriterLive("out"))
         \/ ChunkGoes("out")
<1>1. CASE writeQ' = [writeQ EXCEPT !["out"] = Append(@, Chunk(chunk))]
  <2>1. chunk \in Seq(Nat)
    BY SpanOfRows, RunnerAssumption DEF BankShape, Rows
  <2>2. Chunk(chunk) \in Messages(Seq(Nat)) /\ Chunk(chunk).kind = "chunk"
    BY <2>1, ChunkIsMessage DEF Chunk
  <2> QED BY <1>1, <2>2, MessageSent DEF ChunkGoes, Writers
<1> QED BY <1>1 DEF Deliver

LEMMA SendClosedSends ==
  ASSUME BankShape, WriteShape, SendClosed
  PROVE  \/ UNCHANGED writeQ /\ ~WriterLive("closed")
         \/ ChunkGoes("closed")
<1>1. CASE writeQ' = [writeQ EXCEPT !["closed"] = Append(@, Chunk(drained))]
  <2>1. Chunk(drained) \in Messages(Seq(Nat)) /\ Chunk(drained).kind = "chunk"
    BY ChunkIsMessage DEF Chunk, BankShape
  <2> QED BY <1>1, <2>1, MessageSent DEF ChunkGoes, Writers
<1> QED BY <1>1 DEF SendClosed

LEMMA EndWriterSends ==
  ASSUME WriteShape, NEW v \in Writers, NEW publish \in BOOLEAN, NEW from, NEW to,
         EndWriter(v, publish, from, to)
  PROVE  IF publish /\ WriterLive(v) THEN EndGoes(v) ELSE UNCHANGED writeQ
<1>1. CASE publish /\ WriterLive(v)
  <2>1. writeQ' = [writeQ EXCEPT ![v] = Append(@, End(TRUE))]
    BY <1>1 DEF EndWriter
  <2>2. End(TRUE) \in Messages(Seq(Nat)) /\ End(TRUE).kind = "end"
    BY EndIsMessage DEF End
  <2>3. EndGoes(v)
    BY <2>1, <2>2, MessageSent DEF EndGoes
  <2> QED BY <1>1, <2>3
<1> QED BY <1>1 DEF EndWriter

\* A writer that receives fails, is to publish, or has a frame to write.
LEMMA WriterTakes ==
  ASSUME ThreadShape, WriteShape, Ends, NEW w \in Writers, WriterReceives(w)
  PROVE  /\ \A u \in Writers : u # w => /\ writeQ'[u] = writeQ[u] /\ writer'[u] = writer[u]
                                       /\ written'[u] = written[u]
         /\ \/ /\ writer'[w] = "done" /\ HasEnd(writeQ[w]) /\ written'[w] = "err"
               /\ DropTemp(w)
            \/ /\ writer'[w] = "finish" /\ HasEnd(writeQ[w]) /\ written' = written
               /\ UNCHANGED temps
            \/ /\ writer'[w] = "write" /\ (HasEnd(writeQ'[w]) <=> HasEnd(writeQ[w]))
               /\ written' = written /\ UNCHANGED temps
<1> DEFINE q == writeQ[w]
           noFrames == Head(q).kind = "end" /\ writer[w] = "first"
<1>1. q \in Seq(Messages(Seq(Nat))) /\ q # <<>> /\ EndLast(q)
  BY DEF WriterReceives, WriteShape, Ends
<1>2. /\ HasEnd(Tail(q)) => HasEnd(q)
      /\ Head(q).kind = "end" => HasEnd(q)
      /\ Head(q).kind # "end" /\ HasEnd(q) => HasEnd(Tail(q))
  BY <1>1, MessageTaken
<1>3. /\ writeQ' = [writeQ EXCEPT ![w] = Tail(q)]
      /\ writer' = [writer EXCEPT ![w] = IF noFrames THEN "done"
                       ELSE IF Head(q).kind = "end" THEN "finish" ELSE "write"]
      /\ written' = [written EXCEPT ![w] = IF noFrames THEN "err" ELSE @]
      /\ IF noFrames THEN DropTemp(w) ELSE UNCHANGED temps
  BY DEF WriterReceives
<1>4. \A u \in Writers : u # w => /\ writeQ'[u] = writeQ[u] /\ writer'[u] = writer[u]
                                 /\ written'[u] = written[u]
  BY <1>3 DEF WriteShape, ThreadShape
<1>5. writeQ'[w] = Tail(q)
  BY <1>3 DEF WriteShape
<1>6. writer'[w] = IF noFrames THEN "done" ELSE IF Head(q).kind = "end" THEN "finish" ELSE "write"
  BY <1>3 DEF ThreadShape
<1>7. ~noFrames => written' = written
  BY <1>3 DEF ThreadShape
<1>8. noFrames => written'[w] = "err"
  BY <1>3 DEF ThreadShape
<1> QED BY <1>2, <1>3, <1>4, <1>5, <1>6, <1>7, <1>8

LEMMA DiskInOrderStep == RunShape /\ FileShape /\ DiskInOrder /\ [Next]_vars => DiskInOrder'
<1> SUFFICES ASSUME RunShape, FileShape, DiskInOrder, [Next]_vars PROVE DiskInOrder'
  OBVIOUS
<1> USE DEF DiskInOrder, RunShape, FileShape, FileShapes, StateShapes, Running
<1>1. CASE StartRun
  BY <1>1, RunnerAssumption DEF StartRun, disk
<1>2. CASE Reader
  BY <1>2, RunnerAssumption DEF Reader, ReadChunk, disk, main, writing, model, ReadEnds,
       ReadSendsEnd, ReadGivesUp
<1>3. ASSUME NEW w \in Writers, Writer(w) PROVE DiskInOrder'
  <2>1. CASE WriterFails(w)
    BY <2>1, RunnerAssumption DEF WriterFails, DropTemp, main, reading, model
  <2>2. CASE WriterCreates(w)
    BY <2>2, RunnerAssumption DEF WriterCreates, main, reading, model
  <2>3. CASE WriterReceives(w)
    BY <2>3, RunnerAssumption DEF WriterReceives, DropTemp, main, reading, model
  <2>4. CASE WriterWrites(w)
    BY <2>4, RunnerAssumption DEF WriterWrites, disk, main, reading, model
  <2>5. CASE WriterDiscards(w)
    BY <2>5, RunnerAssumption DEF WriterDiscards, DropTemp, main, reading, model
  <2>6. CASE WriterPublishes(w)
    BY <2>6, RunnerAssumption DEF WriterPublishes, main, reading, model
  <2> QED
    BY <1>3, <2>1, <2>2, <2>3, <2>4, <2>5, <2>6 DEF Writer
<1>4. CASE Main
  <2>1. CASE Receive
    BY <2>1, RunnerAssumption DEF Receive, Fails, disk, writing, model
  <2>2. CASE Augment
    BY <2>2, RunnerAssumption DEF Augment, Fails, disk, reading, writing
  <2>3. CASE AugmentEmpty
    BY <2>3, RunnerAssumption DEF AugmentEmpty, Fails, disk, reading, writing, model
  <2>4. CASE Deliver
    BY <2>4, RunnerAssumption DEF Deliver, Fails, disk, reading, model
  <2>5. CASE Drain
    BY <2>5, RunnerAssumption DEF Drain, disk, reading, writing
  <2>6. CASE SendClosed
    BY <2>6, RunnerAssumption DEF SendClosed, Fails, disk, reading, model
  <2>7. CASE Progress
    BY <2>7, RunnerAssumption DEF Progress, Fails, disk, reading, writing, model
  <2>8. CASE StopReader
    BY <2>8, RunnerAssumption DEF StopReader, DropReceiver, disk, writing, model
  <2>9. CASE EndClosed
    BY <2>9, RunnerAssumption DEF EndClosed, EndWriter, disk, reading, model
  <2>10. CASE EndOut
    BY <2>10, RunnerAssumption DEF EndOut, EndWriter, disk, reading, model
  <2>11. CASE JoinClosed
    BY <2>11, RunnerAssumption DEF JoinClosed, disk, reading, model
  <2>12. CASE JoinOut
    BY <2>12, RunnerAssumption DEF JoinOut, disk, reading, writing, model
  <2>13. CASE NoWriter
    BY <2>13, RunnerAssumption DEF NoWriter, disk, reading, writing, model
  <2>14. CASE ScopeEnds
    BY <2>14, RunnerAssumption DEF ScopeEnds, disk, reading, writing, model
  <2>15. CASE Save
    BY <2>15, RunnerAssumption DEF Save, reading, writing, model
  <2> QED
    BY <1>4, <2>1, <2>2, <2>3, <2>4, <2>5, <2>6, <2>7, <2>8, <2>9, <2>10, <2>11, <2>12,
         <2>13, <2>14, <2>15 DEF Main
<1>5. CASE Crash
  BY <1>5, RunnerAssumption DEF Crash
<1>6. CASE UNCHANGED vars
  BY <1>6 DEF vars, disk, main, reading, writing, model
<1>7. CASE Finished
  BY <1>6, <1>7 DEF Finished
<1> QED
  BY <1>1, <1>2, <1>3, <1>4, <1>5, <1>6, <1>7 DEF Next

LEMMA FrameBeforeStep == PlaceShape /\ ThreadShape /\ BankShape /\ WriteShape /\ Ends /\ Present /\ Stages /\ OkSoFar /\ FrameBefore /\ [Next]_vars => FrameBefore'
<1> SUFFICES ASSUME PlaceShape, ThreadShape, BankShape, WriteShape, Ends, Present, Stages, OkSoFar, FrameBefore, [Next]_vars PROVE FrameBefore'
  OBVIOUS
<1> USE DEF FrameBefore, FirstIsChunk, OutHasFrame, ClosedHasFrame, Waiting, AfterFrame,
     PlaceShape, ThreadShape, Writers, PCs, Results, Errors, Feeding, Over
<1>1. CASE StartRun
  BY <1>1 DEF StartRun, disk
<1>2. CASE Reader
  BY <1>2 DEF Reader, ReadChunk, disk, main, writing, model, ReadEnds, ReadSendsEnd,
       ReadGivesUp
<1>3. ASSUME NEW w \in Writers, Writer(w) PROVE FrameBefore'
  <2>1. CASE WriterFails(w)
    BY <2>1 DEF WriterFails, DropTemp, main, reading, model
  <2>2. CASE WriterCreates(w)
    BY <2>2 DEF WriterCreates, main, reading, model
  <2>3. CASE WriterReceives(w)
    <3> USE WriterTakes
    <3>1. FirstIsChunk'
      BY <2>3 DEF WriterReceives, main, reading, model
    <3>2. OutHasFrame'
      BY <2>3 DEF WriterReceives, main, reading, model
    <3>3. ClosedHasFrame'
      BY <2>3 DEF WriterReceives, main, reading, model
    <3> QED BY <3>1, <3>2, <3>3
  <2>4. CASE WriterWrites(w)
    BY <2>4 DEF WriterWrites, disk, main, reading, model
  <2>5. CASE WriterDiscards(w)
    BY <2>5 DEF WriterDiscards, DropTemp, main, reading, model
  <2>6. CASE WriterPublishes(w)
    BY <2>6 DEF WriterPublishes, main, reading, model
  <2> QED
    BY <1>3, <2>1, <2>2, <2>3, <2>4, <2>5, <2>6 DEF Writer
<1>4. CASE Main
  <2>1. CASE Receive
    BY <2>1 DEF Receive, Fails, disk, writing, model
  <2>2. CASE Augment
    BY <2>2 DEF Augment, Fails, disk, reading, writing
  <2>3. CASE AugmentEmpty
    BY <2>3 DEF AugmentEmpty, Fails, disk, reading, writing, model, SendsEmpty, Present,
         WriterPlaces
  <2>4. CASE Deliver
    <3>1. \/ UNCHANGED writeQ /\ ~(cfg.out = "file" /\ WriterLive("out"))
          \/ ChunkGoes("out")
      BY <2>4, DeliverSends
    <3>2. FirstIsChunk'
      BY <2>4, <3>1 DEF Deliver, Fails, ChunkGoes, disk, reading, model, Present, WriterLive
    <3>3. OutHasFrame'
      BY <2>4, <3>1 DEF Deliver, Fails, ChunkGoes, disk, reading, model, Present, WriterLive
    <3>4. ClosedHasFrame'
      BY <2>4, <3>1 DEF Deliver, Fails, ChunkGoes, disk, reading, model, Present, WriterLive
    <3> QED BY <3>2, <3>3, <3>4
  <2>5. CASE Drain
    BY <2>5 DEF Drain, disk, reading, writing, Present
  <2>6. CASE SendClosed
    <3>1. \/ UNCHANGED writeQ /\ ~WriterLive("closed")
          \/ ChunkGoes("closed")
      BY <2>6, SendClosedSends
    <3>2. FirstIsChunk'
      BY <2>6, <3>1 DEF SendClosed, Fails, ChunkGoes, disk, reading, model, WriterLive
    <3>3. OutHasFrame'
      BY <2>6, <3>1 DEF SendClosed, Fails, ChunkGoes, disk, reading, model, WriterLive
    <3>4. ClosedHasFrame'
      BY <2>6, <3>1 DEF SendClosed, Fails, ChunkGoes, disk, reading, model, WriterLive
    <3> QED BY <3>2, <3>3, <3>4
  <2>7. CASE Progress
    BY <2>7 DEF Progress, Fails, disk, reading, writing, model
  <2>8. CASE StopReader
    BY <2>8 DEF StopReader, DropReceiver, disk, writing, model
  <2>9. CASE EndClosed
    <3>0. PublishesClosed \in BOOLEAN
      BY DEF PublishesClosed, PlaceShape
    <3>1. IF PublishesClosed /\ WriterLive("closed") THEN EndGoes("closed") ELSE UNCHANGED writeQ
      BY <2>9, <3>0, EndWriterSends DEF EndClosed, Writers
    <3>2. FirstIsChunk'
      BY <2>9, <3>1 DEF EndClosed, EndWriter, EndGoes, PublishesClosed, disk, reading, model
    <3>3. OutHasFrame'
      BY <2>9, <3>1 DEF EndClosed, EndWriter, EndGoes, PublishesClosed, disk, reading, model
    <3>4. ClosedHasFrame'
      BY <2>9, <3>1 DEF EndClosed, EndWriter, EndGoes, PublishesClosed, disk, reading, model
    <3> QED BY <3>2, <3>3, <3>4
  <2>10. CASE EndOut
    <3>0. PublishesOut \in BOOLEAN
      BY DEF PublishesOut, PlaceShape
    <3>1. IF PublishesOut /\ WriterLive("out") THEN EndGoes("out") ELSE UNCHANGED writeQ
      BY <2>10, <3>0, EndWriterSends DEF EndOut, Writers
    <3>2. FirstIsChunk'
      BY <2>10, <3>1 DEF EndOut, EndWriter, EndGoes, PublishesOut, disk, reading, model
    <3>3. OutHasFrame'
      BY <2>10, <3>1 DEF EndOut, EndWriter, EndGoes, PublishesOut, disk, reading, model
    <3>4. ClosedHasFrame'
      BY <2>10, <3>1 DEF EndOut, EndWriter, EndGoes, PublishesOut, disk, reading, model
    <3> QED BY <3>2, <3>3, <3>4
  <2>11. CASE JoinClosed
    BY <2>11 DEF JoinClosed, disk, reading, model
  <2>12. CASE JoinOut
    BY <2>12 DEF JoinOut, disk, reading, writing, model
  <2>13. CASE NoWriter
    BY <2>13 DEF NoWriter, disk, reading, writing, model
  <2>14. CASE ScopeEnds
    BY <2>14 DEF ScopeEnds, disk, reading, writing, model
  <2>15. CASE Save
    BY <2>15 DEF Save, reading, writing, model
  <2> QED
    BY <1>4, <2>1, <2>2, <2>3, <2>4, <2>5, <2>6, <2>7, <2>8, <2>9, <2>10, <2>11, <2>12,
         <2>13, <2>14, <2>15 DEF Main
<1>5. CASE Crash
  BY <1>5 DEF Crash
<1>6. CASE UNCHANGED vars
  BY <1>6 DEF vars, disk, main, reading, writing, model
<1>7. CASE Finished
  BY <1>6, <1>7 DEF Finished
<1> QED
  BY <1>1, <1>2, <1>3, <1>4, <1>5, <1>6, <1>7 DEF Next

LEMMA OutGoesWithResultStep == PlaceShape /\ ThreadShape /\ BankShape /\ WriteShape /\ FileShape /\ RunShape /\ DiskInOrder /\ Senders /\ Ends /\ Returned /\ Present /\ Stages /\ OkSoFar /\ ErrorsHaveCause /\ OutGoesWithResult /\ [Next]_vars => OutGoesWithResult'
<1> SUFFICES ASSUME PlaceShape, ThreadShape, BankShape, WriteShape, FileShape, RunShape, DiskInOrder, Senders, Ends, Returned, Present, Stages, OkSoFar, ErrorsHaveCause, OutGoesWithResult, [Next]_vars PROVE OutGoesWithResult'
  OBVIOUS
<1> USE DEF OutGoesWithResult, OutEnding, OutEnds, OutThere, OutLate, OutFailed, OutOnlyThen,
     Ending, Good, PlaceShape, ThreadShape, Writers, WriterLive, Running, PCs, Results,
     Errors, Feeding, Over
<1>1. CASE StartRun
<2>1. OutEnding'
  BY <1>1 DEF StartRun, disk, HasEnd, DiskInOrder, RunShape
<2>2. OutEnds'
  BY <1>1 DEF StartRun, disk, HasEnd, DiskInOrder, RunShape
<2>3. OutThere'
  BY <1>1 DEF StartRun, disk, HasEnd, DiskInOrder, RunShape
<2>4. OutLate'
  BY <1>1 DEF StartRun, disk, HasEnd, DiskInOrder, RunShape
<2>5. OutFailed'
  BY <1>1 DEF StartRun, disk, HasEnd, DiskInOrder, RunShape
<2>6. OutOnlyThen'
  BY <1>1 DEF StartRun, disk, HasEnd, DiskInOrder, RunShape
<2> QED
  BY <2>1, <2>2, <2>3, <2>4, <2>5, <2>6
<1>2. CASE Reader
  BY <1>2 DEF Reader, ReadChunk, disk, main, writing, model, ReadEnds, ReadSendsEnd,
       ReadGivesUp
<1>3. ASSUME NEW w \in Writers, Writer(w) PROVE OutGoesWithResult'
  <2>1. CASE WriterFails(w)
  <3>1. OutEnding'
    BY <2>1 DEF WriterFails, DropTemp, main, reading, model, Returned
  <3>2. OutEnds'
    BY <2>1 DEF WriterFails, DropTemp, main, reading, model, Returned
  <3>3. OutThere'
    BY <2>1 DEF WriterFails, DropTemp, main, reading, model, Returned
  <3>4. OutLate'
    BY <2>1 DEF WriterFails, DropTemp, main, reading, model, Returned
  <3>5. OutFailed'
    BY <2>1 DEF WriterFails, DropTemp, main, reading, model, Returned
  <3>6. OutOnlyThen'
    BY <2>1 DEF WriterFails, DropTemp, main, reading, model, Returned
  <3> QED
    BY <3>1, <3>2, <3>3, <3>4, <3>5, <3>6
  <2>2. CASE WriterCreates(w)
    BY <2>2 DEF WriterCreates, main, reading, model
  <2>3. CASE WriterReceives(w)
    <3> USE WriterTakes
    <3>1. OutEnding'
      BY <2>3 DEF WriterReceives, main, reading, model, Returned
    <3>2. OutEnds'
      BY <2>3 DEF WriterReceives, main, reading, model, Returned
    <3>3. OutThere'
      BY <2>3 DEF WriterReceives, main, reading, model, Returned
    <3>4. OutLate'
      BY <2>3 DEF WriterReceives, main, reading, model, Returned
    <3>5. OutFailed'
      BY <2>3 DEF WriterReceives, main, reading, model, Returned
    <3>6. OutOnlyThen'
      BY <2>3 DEF WriterReceives, main, reading, model, Returned
    <3> QED BY <3>1, <3>2, <3>3, <3>4, <3>5, <3>6
  <2>4. CASE WriterWrites(w)
    BY <2>4 DEF WriterWrites, disk, main, reading, model
  <2>5. CASE WriterDiscards(w)
  <3>1. OutEnding'
    BY <2>5 DEF WriterDiscards, DropTemp, main, reading, model, HasEnd, ErrorsHaveCause,
         Returned
  <3>2. OutEnds'
    BY <2>5 DEF WriterDiscards, DropTemp, main, reading, model, HasEnd, ErrorsHaveCause,
         Returned
  <3>3. OutThere'
    BY <2>5 DEF WriterDiscards, DropTemp, main, reading, model, HasEnd, ErrorsHaveCause,
         Returned
  <3>4. OutLate'
    BY <2>5 DEF WriterDiscards, DropTemp, main, reading, model, HasEnd, ErrorsHaveCause,
         Returned
  <3>5. OutFailed'
    BY <2>5 DEF WriterDiscards, DropTemp, main, reading, model, HasEnd, ErrorsHaveCause,
         Returned
  <3>6. OutOnlyThen'
    BY <2>5 DEF WriterDiscards, DropTemp, main, reading, model, HasEnd, ErrorsHaveCause,
         Returned
  <3> QED
    BY <3>1, <3>2, <3>3, <3>4, <3>5, <3>6
  <2>6. CASE WriterPublishes(w)
  <3>1. OutEnding'
    BY <2>6 DEF WriterPublishes, main, reading, model, FileShape, FileShapes, Returned
  <3>2. OutEnds'
    BY <2>6 DEF WriterPublishes, main, reading, model, FileShape, FileShapes, Returned
  <3>3. OutThere'
    BY <2>6 DEF WriterPublishes, main, reading, model, FileShape, FileShapes, Returned
  <3>4. OutLate'
    BY <2>6 DEF WriterPublishes, main, reading, model, FileShape, FileShapes, Returned
  <3>5. OutFailed'
    BY <2>6 DEF WriterPublishes, main, reading, model, FileShape, FileShapes, Returned
  <3>6. OutOnlyThen'
    BY <2>6 DEF WriterPublishes, main, reading, model, FileShape, FileShapes, Returned
  <3> QED
    BY <3>1, <3>2, <3>3, <3>4, <3>5, <3>6
  <2> QED
    BY <1>3, <2>1, <2>2, <2>3, <2>4, <2>5, <2>6 DEF Writer
<1>4. CASE Main
  <2>1. CASE Receive
    BY <2>1 DEF Receive, Fails, disk, writing, model
  <2>2. CASE Augment
    BY <2>2 DEF Augment, Fails, disk, reading, writing
  <2>3. CASE AugmentEmpty
    BY <2>3 DEF AugmentEmpty, Fails, disk, reading, writing, model
  <2>4. CASE Deliver
    <3>1. \/ UNCHANGED writeQ /\ ~(cfg.out = "file" /\ WriterLive("out"))
          \/ ChunkGoes("out")
      BY <2>4, DeliverSends
    <3>2. OutEnding'
      BY <2>4, <3>1 DEF Deliver, Fails, ChunkGoes, disk, reading, model
    <3>3. OutEnds'
      BY <2>4, <3>1 DEF Deliver, Fails, ChunkGoes, disk, reading, model
    <3>4. OutThere'
      BY <2>4, <3>1 DEF Deliver, Fails, ChunkGoes, disk, reading, model
    <3>5. OutLate'
      BY <2>4, <3>1 DEF Deliver, Fails, ChunkGoes, disk, reading, model
    <3>6. OutFailed'
      BY <2>4, <3>1 DEF Deliver, Fails, ChunkGoes, disk, reading, model
    <3>7. OutOnlyThen'
      BY <2>4, <3>1 DEF Deliver, Fails, ChunkGoes, disk, reading, model
    <3> QED BY <3>2, <3>3, <3>4, <3>5, <3>6, <3>7
  <2>5. CASE Drain
    BY <2>5 DEF Drain, disk, reading, writing
  <2>6. CASE SendClosed
    <3>1. \/ UNCHANGED writeQ /\ ~WriterLive("closed")
          \/ ChunkGoes("closed")
      BY <2>6, SendClosedSends
    <3>2. OutEnding'
      BY <2>6, <3>1 DEF SendClosed, Fails, ChunkGoes, disk, reading, model
    <3>3. OutEnds'
      BY <2>6, <3>1 DEF SendClosed, Fails, ChunkGoes, disk, reading, model
    <3>4. OutThere'
      BY <2>6, <3>1 DEF SendClosed, Fails, ChunkGoes, disk, reading, model
    <3>5. OutLate'
      BY <2>6, <3>1 DEF SendClosed, Fails, ChunkGoes, disk, reading, model
    <3>6. OutFailed'
      BY <2>6, <3>1 DEF SendClosed, Fails, ChunkGoes, disk, reading, model
    <3>7. OutOnlyThen'
      BY <2>6, <3>1 DEF SendClosed, Fails, ChunkGoes, disk, reading, model
    <3> QED BY <3>2, <3>3, <3>4, <3>5, <3>6, <3>7
  <2>7. CASE Progress
    BY <2>7 DEF Progress, Fails, disk, reading, writing, model
  <2>8. CASE StopReader
    BY <2>8 DEF StopReader, DropReceiver, disk, writing, model
  <2>9. CASE EndClosed
    <3>0. PublishesClosed \in BOOLEAN
      BY DEF PublishesClosed, PlaceShape
    <3>1. IF PublishesClosed /\ WriterLive("closed") THEN EndGoes("closed") ELSE UNCHANGED writeQ
      BY <2>9, <3>0, EndWriterSends DEF EndClosed, Writers
    <3>2. OutEnding'
      BY <2>9, <3>1 DEF EndClosed, EndWriter, EndGoes, PublishesClosed, disk, reading, model
    <3>3. OutEnds'
      BY <2>9, <3>1 DEF EndClosed, EndWriter, EndGoes, PublishesClosed, disk, reading, model
    <3>4. OutThere'
      BY <2>9, <3>1 DEF EndClosed, EndWriter, EndGoes, PublishesClosed, disk, reading, model
    <3>5. OutLate'
      BY <2>9, <3>1 DEF EndClosed, EndWriter, EndGoes, PublishesClosed, disk, reading, model
    <3>6. OutFailed'
      BY <2>9, <3>1 DEF EndClosed, EndWriter, EndGoes, PublishesClosed, disk, reading, model
    <3>7. OutOnlyThen'
      BY <2>9, <3>1 DEF EndClosed, EndWriter, EndGoes, PublishesClosed, disk, reading, model
    <3> QED BY <3>2, <3>3, <3>4, <3>5, <3>6, <3>7
  <2>10. CASE EndOut
    <3>0. PublishesOut \in BOOLEAN
      BY DEF PublishesOut, PlaceShape
    <3>1. IF PublishesOut /\ WriterLive("out") THEN EndGoes("out") ELSE UNCHANGED writeQ
      BY <2>10, <3>0, EndWriterSends DEF EndOut, Writers
    <3>2. OutEnding'
      BY <2>10, <3>1 DEF EndOut, EndWriter, EndGoes, PublishesOut, disk, reading, model, Returned, Senders
    <3>3. OutEnds'
      BY <2>10, <3>1 DEF EndOut, EndWriter, EndGoes, PublishesOut, disk, reading, model, Returned, Senders
    <3>4. OutThere'
      BY <2>10, <3>1 DEF EndOut, EndWriter, EndGoes, PublishesOut, disk, reading, model, Returned, Senders
    <3>5. OutLate'
      BY <2>10, <3>1 DEF EndOut, EndWriter, EndGoes, PublishesOut, disk, reading, model, Returned, Senders
    <3>6. OutFailed'
      BY <2>10, <3>1 DEF EndOut, EndWriter, EndGoes, PublishesOut, disk, reading, model, Returned, Senders
    <3>7. OutOnlyThen'
      BY <2>10, <3>1 DEF EndOut, EndWriter, EndGoes, PublishesOut, disk, reading, model, Returned, Senders
    <3> QED BY <3>2, <3>3, <3>4, <3>5, <3>6, <3>7
  <2>11. CASE JoinClosed
    BY <2>11 DEF JoinClosed, disk, reading, model, ErrorReplaces, ErrorsHaveCause,
         Returned
  <2>12. CASE JoinOut
  <3>1. OutEnding'
    BY <2>12 DEF JoinOut, disk, reading, writing, model, ErrorReplaces, ErrorsHaveCause,
         Returned
  <3>2. OutEnds'
    BY <2>12 DEF JoinOut, disk, reading, writing, model, ErrorReplaces, ErrorsHaveCause,
         Returned
  <3>3. OutThere'
    BY <2>12 DEF JoinOut, disk, reading, writing, model, ErrorReplaces, ErrorsHaveCause,
         Returned
  <3>4. OutLate'
    BY <2>12 DEF JoinOut, disk, reading, writing, model, ErrorReplaces, ErrorsHaveCause,
         Returned
  <3>5. OutFailed'
    BY <2>12 DEF JoinOut, disk, reading, writing, model, ErrorReplaces, ErrorsHaveCause,
         Returned
  <3>6. OutOnlyThen'
    BY <2>12 DEF JoinOut, disk, reading, writing, model, ErrorReplaces, ErrorsHaveCause,
         Returned
  <3> QED
    BY <3>1, <3>2, <3>3, <3>4, <3>5, <3>6
  <2>13. CASE NoWriter
  <3>1. OutEnding'
    BY <2>13 DEF NoWriter, disk, reading, writing, model, Returned, Present
  <3>2. OutEnds'
    BY <2>13 DEF NoWriter, disk, reading, writing, model, Returned, Present
  <3>3. OutThere'
    BY <2>13 DEF NoWriter, disk, reading, writing, model, Returned, Present
  <3>4. OutLate'
    BY <2>13 DEF NoWriter, disk, reading, writing, model, Returned, Present
  <3>5. OutFailed'
    BY <2>13 DEF NoWriter, disk, reading, writing, model, Returned, Present
  <3>6. OutOnlyThen'
    BY <2>13 DEF NoWriter, disk, reading, writing, model, Returned, Present
  <3> QED
    BY <3>1, <3>2, <3>3, <3>4, <3>5, <3>6
  <2>14. CASE ScopeEnds
    BY <2>14 DEF ScopeEnds, disk, reading, writing, model, SavesState
  <2>15. CASE Save
  <3>1. OutEnding'
    BY <2>15 DEF Save, reading, writing, model, OkSoFar
  <3>2. OutEnds'
    BY <2>15 DEF Save, reading, writing, model, OkSoFar
  <3>3. OutThere'
    BY <2>15 DEF Save, reading, writing, model, OkSoFar
  <3>4. OutLate'
    BY <2>15 DEF Save, reading, writing, model, OkSoFar
  <3>5. OutFailed'
    BY <2>15 DEF Save, reading, writing, model, OkSoFar
  <3>6. OutOnlyThen'
    BY <2>15 DEF Save, reading, writing, model, OkSoFar
  <3> QED
    BY <3>1, <3>2, <3>3, <3>4, <3>5, <3>6
  <2> QED
    BY <1>4, <2>1, <2>2, <2>3, <2>4, <2>5, <2>6, <2>7, <2>8, <2>9, <2>10, <2>11, <2>12,
         <2>13, <2>14, <2>15 DEF Main
<1>5. CASE Crash
  BY <1>5 DEF Crash
<1>6. CASE UNCHANGED vars
  BY <1>6 DEF vars, disk, main, reading, writing, model
<1>7. CASE Finished
  BY <1>6, <1>7 DEF Finished
<1> QED
  BY <1>1, <1>2, <1>3, <1>4, <1>5, <1>6, <1>7 DEF Next

LEMMA ClosedGoesWithResultStep == PlaceShape /\ ThreadShape /\ BankShape /\ WriteShape /\ FileShape /\ RunShape /\ DiskInOrder /\ Senders /\ Ends /\ Returned /\ Present /\ Stages /\ OkSoFar /\ ErrorsHaveCause /\ ClosedGoesWithResult /\ [Next]_vars => ClosedGoesWithResult'
<1> SUFFICES ASSUME PlaceShape, ThreadShape, BankShape, WriteShape, FileShape, RunShape, DiskInOrder, Senders, Ends, Returned, Present, Stages, OkSoFar, ErrorsHaveCause, ClosedGoesWithResult, [Next]_vars PROVE ClosedGoesWithResult'
  OBVIOUS
<1> USE DEF ClosedGoesWithResult, ClosedEnding, ClosedEnds, ClosedThere, ClosedFailed,
     ClosedOnlyThen, AfterClosed, Ending, Good, PlaceShape, ThreadShape, Writers,
     WriterLive, Running, PCs, Results, Errors, Feeding, Over
<1>1. CASE StartRun
<2>1. ClosedEnding'
  BY <1>1 DEF StartRun, disk, HasEnd, DiskInOrder, RunShape
<2>2. ClosedEnds'
  BY <1>1 DEF StartRun, disk, HasEnd, DiskInOrder, RunShape
<2>3. ClosedThere'
  BY <1>1 DEF StartRun, disk, HasEnd, DiskInOrder, RunShape
<2>4. ClosedFailed'
  BY <1>1 DEF StartRun, disk, HasEnd, DiskInOrder, RunShape
<2>5. ClosedOnlyThen'
  BY <1>1 DEF StartRun, disk, HasEnd, DiskInOrder, RunShape
<2> QED
  BY <2>1, <2>2, <2>3, <2>4, <2>5
<1>2. CASE Reader
  BY <1>2 DEF Reader, ReadChunk, disk, main, writing, model, ReadEnds, ReadSendsEnd,
       ReadGivesUp
<1>3. ASSUME NEW w \in Writers, Writer(w) PROVE ClosedGoesWithResult'
  <2>1. CASE WriterFails(w)
  <3>1. ClosedEnding'
    BY <2>1 DEF WriterFails, DropTemp, main, reading, model, Returned, Stages
  <3>2. ClosedEnds'
    BY <2>1 DEF WriterFails, DropTemp, main, reading, model, Returned, Stages
  <3>3. ClosedThere'
    BY <2>1 DEF WriterFails, DropTemp, main, reading, model, Returned, Stages
  <3>4. ClosedFailed'
    BY <2>1 DEF WriterFails, DropTemp, main, reading, model, Returned, Stages
  <3>5. ClosedOnlyThen'
    BY <2>1 DEF WriterFails, DropTemp, main, reading, model, Returned, Stages
  <3> QED
    BY <3>1, <3>2, <3>3, <3>4, <3>5
  <2>2. CASE WriterCreates(w)
    BY <2>2 DEF WriterCreates, main, reading, model
  <2>3. CASE WriterReceives(w)
    <3> USE WriterTakes
    <3>1. ClosedEnding'
      BY <2>3 DEF WriterReceives, main, reading, model, Returned
    <3>2. ClosedEnds'
      BY <2>3 DEF WriterReceives, main, reading, model, Returned
    <3>3. ClosedThere'
      BY <2>3 DEF WriterReceives, main, reading, model, Returned
    <3>4. ClosedFailed'
      BY <2>3 DEF WriterReceives, main, reading, model, Returned
    <3>5. ClosedOnlyThen'
      BY <2>3 DEF WriterReceives, main, reading, model, Returned
    <3> QED BY <3>1, <3>2, <3>3, <3>4, <3>5
  <2>4. CASE WriterWrites(w)
    BY <2>4 DEF WriterWrites, disk, main, reading, model
  <2>5. CASE WriterDiscards(w)
  <3>1. ClosedEnding'
    BY <2>5 DEF WriterDiscards, DropTemp, main, reading, model, HasEnd, ErrorsHaveCause,
         Returned, Stages
  <3>2. ClosedEnds'
    BY <2>5 DEF WriterDiscards, DropTemp, main, reading, model, HasEnd, ErrorsHaveCause,
         Returned, Stages
  <3>3. ClosedThere'
    BY <2>5 DEF WriterDiscards, DropTemp, main, reading, model, HasEnd, ErrorsHaveCause,
         Returned, Stages
  <3>4. ClosedFailed'
    BY <2>5 DEF WriterDiscards, DropTemp, main, reading, model, HasEnd, ErrorsHaveCause,
         Returned, Stages
  <3>5. ClosedOnlyThen'
    BY <2>5 DEF WriterDiscards, DropTemp, main, reading, model, HasEnd, ErrorsHaveCause,
         Returned, Stages
  <3> QED
    BY <3>1, <3>2, <3>3, <3>4, <3>5
  <2>6. CASE WriterPublishes(w)
  <3>1. ClosedEnding'
    BY <2>6 DEF WriterPublishes, main, reading, model, FileShape, FileShapes, Returned
  <3>2. ClosedEnds'
    BY <2>6 DEF WriterPublishes, main, reading, model, FileShape, FileShapes, Returned
  <3>3. ClosedThere'
    BY <2>6 DEF WriterPublishes, main, reading, model, FileShape, FileShapes, Returned
  <3>4. ClosedFailed'
    BY <2>6 DEF WriterPublishes, main, reading, model, FileShape, FileShapes, Returned
  <3>5. ClosedOnlyThen'
    BY <2>6 DEF WriterPublishes, main, reading, model, FileShape, FileShapes, Returned
  <3> QED
    BY <3>1, <3>2, <3>3, <3>4, <3>5
  <2> QED
    BY <1>3, <2>1, <2>2, <2>3, <2>4, <2>5, <2>6 DEF Writer
<1>4. CASE Main
  <2>1. CASE Receive
    BY <2>1 DEF Receive, Fails, disk, writing, model
  <2>2. CASE Augment
    BY <2>2 DEF Augment, Fails, disk, reading, writing
  <2>3. CASE AugmentEmpty
    BY <2>3 DEF AugmentEmpty, Fails, disk, reading, writing, model
  <2>4. CASE Deliver
    <3>1. \/ UNCHANGED writeQ /\ ~(cfg.out = "file" /\ WriterLive("out"))
          \/ ChunkGoes("out")
      BY <2>4, DeliverSends
    <3>2. ClosedEnding'
      BY <2>4, <3>1 DEF Deliver, Fails, ChunkGoes, disk, reading, model
    <3>3. ClosedEnds'
      BY <2>4, <3>1 DEF Deliver, Fails, ChunkGoes, disk, reading, model
    <3>4. ClosedThere'
      BY <2>4, <3>1 DEF Deliver, Fails, ChunkGoes, disk, reading, model
    <3>5. ClosedFailed'
      BY <2>4, <3>1 DEF Deliver, Fails, ChunkGoes, disk, reading, model
    <3>6. ClosedOnlyThen'
      BY <2>4, <3>1 DEF Deliver, Fails, ChunkGoes, disk, reading, model
    <3> QED BY <3>2, <3>3, <3>4, <3>5, <3>6
  <2>5. CASE Drain
    BY <2>5 DEF Drain, disk, reading, writing
  <2>6. CASE SendClosed
    <3>1. \/ UNCHANGED writeQ /\ ~WriterLive("closed")
          \/ ChunkGoes("closed")
      BY <2>6, SendClosedSends
    <3>2. ClosedEnding'
      BY <2>6, <3>1 DEF SendClosed, Fails, ChunkGoes, disk, reading, model
    <3>3. ClosedEnds'
      BY <2>6, <3>1 DEF SendClosed, Fails, ChunkGoes, disk, reading, model
    <3>4. ClosedThere'
      BY <2>6, <3>1 DEF SendClosed, Fails, ChunkGoes, disk, reading, model
    <3>5. ClosedFailed'
      BY <2>6, <3>1 DEF SendClosed, Fails, ChunkGoes, disk, reading, model
    <3>6. ClosedOnlyThen'
      BY <2>6, <3>1 DEF SendClosed, Fails, ChunkGoes, disk, reading, model
    <3> QED BY <3>2, <3>3, <3>4, <3>5, <3>6
  <2>7. CASE Progress
    BY <2>7 DEF Progress, Fails, disk, reading, writing, model
  <2>8. CASE StopReader
    BY <2>8 DEF StopReader, DropReceiver, disk, writing, model
  <2>9. CASE EndClosed
    <3>0. PublishesClosed \in BOOLEAN
      BY DEF PublishesClosed, PlaceShape
    <3>1. IF PublishesClosed /\ WriterLive("closed") THEN EndGoes("closed") ELSE UNCHANGED writeQ
      BY <2>9, <3>0, EndWriterSends DEF EndClosed, Writers
    <3>2. ClosedEnding'
      BY <2>9, <3>1 DEF EndClosed, EndWriter, EndGoes, PublishesClosed, disk, reading, model, Returned, Senders
    <3>3. ClosedEnds'
      BY <2>9, <3>1 DEF EndClosed, EndWriter, EndGoes, PublishesClosed, disk, reading, model, Returned, Senders
    <3>4. ClosedThere'
      BY <2>9, <3>1 DEF EndClosed, EndWriter, EndGoes, PublishesClosed, disk, reading, model, Returned, Senders
    <3>5. ClosedFailed'
      BY <2>9, <3>1 DEF EndClosed, EndWriter, EndGoes, PublishesClosed, disk, reading, model, Returned, Senders
    <3>6. ClosedOnlyThen'
      BY <2>9, <3>1 DEF EndClosed, EndWriter, EndGoes, PublishesClosed, disk, reading, model, Returned, Senders
    <3> QED BY <3>2, <3>3, <3>4, <3>5, <3>6
  <2>10. CASE EndOut
    <3>0. PublishesOut \in BOOLEAN
      BY DEF PublishesOut, PlaceShape
    <3>1. IF PublishesOut /\ WriterLive("out") THEN EndGoes("out") ELSE UNCHANGED writeQ
      BY <2>10, <3>0, EndWriterSends DEF EndOut, Writers
    <3>2. ClosedEnding'
      BY <2>10, <3>1 DEF EndOut, EndWriter, EndGoes, PublishesOut, disk, reading, model
    <3>3. ClosedEnds'
      BY <2>10, <3>1 DEF EndOut, EndWriter, EndGoes, PublishesOut, disk, reading, model
    <3>4. ClosedThere'
      BY <2>10, <3>1 DEF EndOut, EndWriter, EndGoes, PublishesOut, disk, reading, model
    <3>5. ClosedFailed'
      BY <2>10, <3>1 DEF EndOut, EndWriter, EndGoes, PublishesOut, disk, reading, model
    <3>6. ClosedOnlyThen'
      BY <2>10, <3>1 DEF EndOut, EndWriter, EndGoes, PublishesOut, disk, reading, model
    <3> QED BY <3>2, <3>3, <3>4, <3>5, <3>6
  <2>11. CASE JoinClosed
  <3>1. ClosedEnding'
    BY <2>11 DEF JoinClosed, disk, reading, model, ErrorReplaces, ErrorsHaveCause,
         Returned
  <3>2. ClosedEnds'
    BY <2>11 DEF JoinClosed, disk, reading, model, ErrorReplaces, ErrorsHaveCause,
         Returned
  <3>3. ClosedThere'
    BY <2>11 DEF JoinClosed, disk, reading, model, ErrorReplaces, ErrorsHaveCause,
         Returned
  <3>4. ClosedFailed'
    BY <2>11 DEF JoinClosed, disk, reading, model, ErrorReplaces, ErrorsHaveCause,
         Returned
  <3>5. ClosedOnlyThen'
    BY <2>11 DEF JoinClosed, disk, reading, model, ErrorReplaces, ErrorsHaveCause,
         Returned
  <3> QED
    BY <3>1, <3>2, <3>3, <3>4, <3>5
  <2>12. CASE JoinOut
    BY <2>12 DEF JoinOut, disk, reading, writing, model, ErrorReplaces, ErrorsHaveCause,
         Returned
  <2>13. CASE NoWriter
  <3>1. ClosedEnding'
    BY <2>13 DEF NoWriter, disk, reading, writing, model, Returned, Present
  <3>2. ClosedEnds'
    BY <2>13 DEF NoWriter, disk, reading, writing, model, Returned, Present
  <3>3. ClosedThere'
    BY <2>13 DEF NoWriter, disk, reading, writing, model, Returned, Present
  <3>4. ClosedFailed'
    BY <2>13 DEF NoWriter, disk, reading, writing, model, Returned, Present
  <3>5. ClosedOnlyThen'
    BY <2>13 DEF NoWriter, disk, reading, writing, model, Returned, Present
  <3> QED
    BY <3>1, <3>2, <3>3, <3>4, <3>5
  <2>14. CASE ScopeEnds
    BY <2>14 DEF ScopeEnds, disk, reading, writing, model, SavesState
  <2>15. CASE Save
  <3>1. ClosedEnding'
    BY <2>15 DEF Save, reading, writing, model, OkSoFar
  <3>2. ClosedEnds'
    BY <2>15 DEF Save, reading, writing, model, OkSoFar
  <3>3. ClosedThere'
    BY <2>15 DEF Save, reading, writing, model, OkSoFar
  <3>4. ClosedFailed'
    BY <2>15 DEF Save, reading, writing, model, OkSoFar
  <3>5. ClosedOnlyThen'
    BY <2>15 DEF Save, reading, writing, model, OkSoFar
  <3> QED
    BY <3>1, <3>2, <3>3, <3>4, <3>5
  <2> QED
    BY <1>4, <2>1, <2>2, <2>3, <2>4, <2>5, <2>6, <2>7, <2>8, <2>9, <2>10, <2>11, <2>12,
         <2>13, <2>14, <2>15 DEF Main
<1>5. CASE Crash
  BY <1>5 DEF Crash
<1>6. CASE UNCHANGED vars
  BY <1>6 DEF vars, disk, main, reading, writing, model
<1>7. CASE Finished
  BY <1>6, <1>7 DEF Finished
<1> QED
  BY <1>1, <1>2, <1>3, <1>4, <1>5, <1>6, <1>7 DEF Next

LEMMA TempsInUseStep == RunShape /\ PlaceShape /\ ThreadShape /\ TempShape /\ WriteShape /\ Ends /\ ThreadsEnd /\ Present /\ TempsInUse /\ [Next]_vars => TempsInUse'
<1> SUFFICES ASSUME RunShape, PlaceShape, ThreadShape, TempShape, WriteShape, Ends, ThreadsEnd, Present, TempsInUse, [Next]_vars PROVE TempsInUse'
  OBVIOUS
<1> USE DEF TempsInUse, PlaceShape, ThreadShape, ThreadsEnd, Dormant, WriterLive, Writers,
     Running, PCs, Results, Errors, Feeding, Over
<1>1. CASE StartRun
  BY <1>1 DEF StartRun, disk
<1>2. CASE Reader
  BY <1>2 DEF Reader, ReadChunk, disk, main, writing, model, ReadEnds, ReadSendsEnd,
       ReadGivesUp
<1>3. ASSUME NEW w \in Writers, Writer(w) PROVE TempsInUse'
  <2>1. CASE WriterFails(w)
    BY <2>1 DEF WriterFails, DropTemp, main, reading, model
  <2>2. CASE WriterCreates(w)
    BY <2>2 DEF WriterCreates, main, reading, model
  <2>3. CASE WriterReceives(w)
    BY <2>3 DEF WriterReceives, DropTemp, main, reading, model
  <2>4. CASE WriterWrites(w)
    BY <2>4 DEF WriterWrites, disk, main, reading, model
  <2>5. CASE WriterDiscards(w)
    BY <2>5 DEF WriterDiscards, DropTemp, main, reading, model
  <2>6. CASE WriterPublishes(w)
    BY <2>6 DEF WriterPublishes, main, reading, model
  <2> QED
    BY <1>3, <2>1, <2>2, <2>3, <2>4, <2>5, <2>6 DEF Writer
<1>4. CASE Main
  BY <1>4 DEF Main, Receive, Fails, disk, writing, model, Augment, reading,
       AugmentEmpty, Deliver, Drain, SendClosed, Progress, StopReader, DropReceiver,
       EndClosed, EndWriter, EndOut, JoinClosed, JoinOut, NoWriter, ScopeEnds, Save
<1>5. CASE Crash
  BY <1>5 DEF Crash
<1>6. CASE UNCHANGED vars
  BY <1>6 DEF vars, disk, main, reading, writing, model
<1>7. CASE Finished
  BY <1>6, <1>7 DEF Finished
<1> QED
  BY <1>1, <1>2, <1>3, <1>4, <1>5, <1>6, <1>7 DEF Next

-----------------------------------------------------------------------------
(* The inductive invariant, and what it says of a run that has returned.   *)

Shapes  == /\ RunShape /\ PlaceShape /\ ThreadShape /\ ThreadsEnd /\ TempShape
           /\ FileShape /\ ReadShape /\ WriteShape /\ BankShape
Control == /\ Senders /\ Ends /\ Returned /\ Present /\ Stages /\ OkSoFar
           /\ ErrorsHaveCause /\ DiskInOrder /\ FrameBefore /\ OutGoesWithResult
           /\ ClosedGoesWithResult /\ TempsInUse
IInv    == Shapes /\ Control /\ StateHasItsFiles

LEMMA ShapesInit == Init => Shapes
<1> SUFFICES ASSUME Init PROVE Shapes
  OBVIOUS
<1> USE RunnerAssumption DEF Init
<1>1. RunShape
  <2>1. cfg \in ConfigShapes
    BY DEF ConfigShapes
  <2> QED BY <2>1 DEF RunShape, Running
<1>6. PlaceShape
  BY DEF PlaceShape, PCs, Results
<1>2. ThreadShape /\ ThreadsEnd /\ TempShape
  BY DEF ThreadShape, WriterPlaces, ThreadsEnd, WriterLive, TempShape
<1>3. FileShape
  BY DEF FileShape, FileShapes, StateShapes, NoFile, NoState
<1>4. ReadShape /\ WriteShape
  BY DEF ReadShape, WriteShape
<1>5. BankShape
  BY EmptySpan DEF BankShape, BankShapes, NoBank
<1> QED BY <1>1, <1>2, <1>3, <1>4, <1>5, <1>6 DEF Shapes

LEMMA ControlInit == Init => Control /\ StateHasItsFiles
<1> SUFFICES ASSUME Init PROVE Control /\ StateHasItsFiles
  OBVIOUS
<1> USE DEF Init, Feeding, Over, Writers
<1>1. Senders /\ Ends /\ Returned /\ Present /\ Stages /\ OkSoFar
  BY DEF Senders, Ends, EndLast, HasEnd, Returned, Present, Stages, WriterLive, OkSoFar
<1>2. ErrorsHaveCause /\ DiskInOrder /\ FrameBefore /\ TempsInUse /\ StateHasItsFiles
  BY DEF ErrorsHaveCause, DiskInOrder, Running, NoFile, NoState, FrameBefore, FirstIsChunk,
         OutHasFrame, ClosedHasFrame, Waiting, AfterFrame, TempsInUse, StateHasItsFiles
<1>3. OutGoesWithResult
  BY DEF OutGoesWithResult, OutEnding, OutEnds, OutThere, OutLate, OutFailed, OutOnlyThen,
         Ending, WriterLive
<1>4. ClosedGoesWithResult
  BY DEF ClosedGoesWithResult, ClosedEnding, ClosedEnds, ClosedThere, ClosedFailed,
         ClosedOnlyThen, AfterClosed, Ending, WriterLive
<1> QED BY <1>1, <1>2, <1>3, <1>4 DEF Control

LEMMA ShapesStep == Shapes /\ [Next]_vars => Shapes'
  BY RunShapeStep, PlaceShapeStep, ThreadShapeStep, ThreadsEndStep, TempShapeStep,
     FileShapeStep, ReadShapeStep, WriteShapeStep, BankShapeStep DEF Shapes

LEMMA ControlStep == Shapes /\ Control /\ [Next]_vars => Control'
  BY SendersStep, EndsStep, ReturnedStep, PresentStep, StagesStep, OkSoFarStep,
     ErrorsHaveCauseStep, DiskInOrderStep, FrameBeforeStep, OutGoesWithResultStep,
     ClosedGoesWithResultStep, TempsInUseStep DEF Shapes, Control

\* A run that stands well at its end has published what its configuration has.
LEMMA GoodRunPublished ==
  ASSUME IInv, pc \in Over, Good
  PROVE  /\ cfg.out = "file" => file["out"].run = run
         /\ cfg.closed => file["closed"].run = run
<1> USE DEF IInv, Shapes, Control, Writers, Over
<1>1. ASSUME cfg.out = "file" PROVE written["out"] = "ok"
  <2>1. writer["out"] = "done"
    BY <1>1 DEF OutGoesWithResult, OutLate, Present, WriterLive
  <2> QED BY <2>1 DEF Returned, ThreadShape, OutGoesWithResult, OutFailed
<1>2. ASSUME cfg.closed PROVE written["closed"] = "ok"
  <2>1. writer["closed"] = "done"
    BY <1>2 DEF Stages, Present, WriterLive
  <2> QED BY <2>1 DEF Returned, ThreadShape, ClosedGoesWithResult, ClosedFailed, AfterClosed
<1> QED BY <1>1, <1>2 DEF OutGoesWithResult, OutThere, ClosedGoesWithResult, ClosedThere,
                          AfterClosed

LEMMA StateHasItsFilesStep == IInv /\ [Next]_vars => StateHasItsFiles'
<1> SUFFICES ASSUME IInv, [Next]_vars PROVE StateHasItsFiles'
  OBVIOUS
<1> USE DEF StateHasItsFiles
<1>1. CASE UNCHANGED <<file, stateFile>>
  BY <1>1 DEF IInv
<1>2. ASSUME NEW w \in Writers, WriterPublishes(w) PROVE StateHasItsFiles'
  <2>1. /\ stateFile' = stateFile /\ file' = [file EXCEPT ![w] = [run |-> run, rows |-> buf[w]]]
    BY <1>2 DEF WriterPublishes
  <2>2. \A v \in Writers : file'[v].run >= file[v].run
    BY <2>1 DEF IInv, Shapes, Control, FileShape, FileShapes, RunShape, DiskInOrder
  <2>3. \A v \in Writers : file[v].run \in Nat /\ file'[v].run \in Nat
    BY <2>1, RunnerAssumption DEF IInv, Shapes, FileShape, FileShapes, RunShape
  <2>4. stateFile.run \in Nat
    BY RunnerAssumption DEF IInv, Shapes, FileShape, StateShapes
  <2> QED BY <2>1, <2>2, <2>3, <2>4 DEF IInv, Writers
<1>3. CASE Save
  <2>1. CASE UNCHANGED stateFile
    BY <1>3, <2>1 DEF Save, IInv
  <2>2. CASE stateFile' = [run |-> run, learned |-> bank.learned, queue |-> bank.queue,
                           hadOut |-> cfg.out = "file", hadClosed |-> cfg.closed]
    <3>1. pc \in Over /\ Good
      BY <1>3 DEF Save, IInv, Control, OkSoFar, Over, Good
    <3>2. run \in Nat
      BY RunnerAssumption DEF IInv, Shapes, RunShape
    <3>3. /\ cfg.out = "file" => file["out"].run = run
          /\ cfg.closed => file["closed"].run = run
      BY <3>1, GoodRunPublished
    <3>4. /\ file' = file /\ stateFile'.run = run
          /\ stateFile'.hadOut => cfg.out = "file"
          /\ stateFile'.hadClosed => cfg.closed
      BY <1>3, <2>2 DEF Save
    <3>5. file["out"].run = run => file'["out"].run >= stateFile'.run
      BY <3>2, <3>4
    <3>6. file["closed"].run = run => file'["closed"].run >= stateFile'.run
      BY <3>2, <3>4
    <3> QED BY <3>3, <3>4, <3>5, <3>6
  <2> QED BY <1>3, <2>1, <2>2 DEF Save
<1>4. CASE StartRun \/ Reader \/ Crash
  BY <1>1, <1>4 DEF StartRun, Reader, ReadChunk, ReadEnds, ReadSendsEnd, ReadGivesUp, Crash, disk
<1>5. ASSUME NEW w \in Writers, Writer(w) PROVE StateHasItsFiles'
  BY <1>1, <1>2, <1>5 DEF Writer, WriterFails, WriterCreates, WriterReceives, WriterWrites,
     WriterDiscards, disk
<1>6. CASE Main
  <2>1. Save \/ UNCHANGED disk
    BY <1>6 DEF Main, Receive, Augment, AugmentEmpty, Deliver, Drain, SendClosed, Progress,
       StopReader, EndClosed, EndOut, EndWriter, JoinClosed, JoinOut, NoWriter, ScopeEnds
  <2> QED BY <1>1, <1>3, <2>1 DEF disk
<1>7. CASE Finished \/ UNCHANGED vars
  <2>1. UNCHANGED disk
    BY <1>7 DEF Finished, vars
  <2> QED BY <1>1, <2>1 DEF disk
<1> QED BY <1>4, <1>5, <1>6, <1>7 DEF Next

LEMMA InvariantInit == Init => IInv
  BY ShapesInit, ControlInit DEF IInv

LEMMA InvariantStep == IInv /\ [Next]_vars => IInv'
  BY ShapesStep, ControlStep, StateHasItsFilesStep DEF IInv

\* The variables keep their values' shape, and the control of the threads
\* fits together, in every run and every crash.
THEOREM ControlHolds == Spec => []IInv
  BY InvariantInit, InvariantStep, PTL DEF Spec

\* The output and the sidecar that a saved state goes with are on disk
\* whenever the state is: it is saved last.
THEOREM StateLast == Spec => []StateHasItsFiles
<1>1. IInv => StateHasItsFiles
  BY DEF IInv
<1> QED BY <1>1, ControlHolds, PTL

\* A run that returns well has published its output, one that does not has
\* left the previous one, and no error stays that only says that a channel
\* was found closed.
THEOREM OutputWithResult == Spec => []OutputGoesWithResult
<1>1. IInv => OutputGoesWithResult
  <2> SUFFICES ASSUME IInv, pc = "returned" 
               PROVE  /\ result # "writer_stopped"
                      /\ cfg.out = "file" =>
                           (file["out"].run = run <=> result \in {"ok", "io_state"})
    BY DEF OutputGoesWithResult
  <2>1. result # "writer_stopped"
    BY DEF IInv, Control, ErrorsHaveCause
  <2>2. result \in {"ok", "io_state"} => (cfg.out = "file" => file["out"].run = run)
    BY GoodRunPublished DEF Good, Over
  <2>3. file["out"].run = run => result \in {"ok", "io_state"}
    BY DEF IInv, Control, OutGoesWithResult, OutOnlyThen, Good
  <2> QED BY <2>1, <2>2, <2>3
<1> QED BY <1>1, ControlHolds, PTL

\* No writer is ended before it had a frame to open its file on.
THEOREM NoWriterWithoutFrame == Spec => []FrameBeforeEnd
<1>1. IInv => FrameBeforeEnd
  BY DEF IInv, Control, FrameBefore, FirstIsChunk, Waiting, FrameBeforeEnd
<1> QED BY <1>1, ControlHolds, PTL

\* Once a run is over, only a process that died leaves temporaries.
THEOREM LitterOnlyOfCrashes == Spec => []NoLitter
<1>1. IInv => NoLitter
  <2> SUFFICES ASSUME IInv, ~Running, NEW t \in temps PROVE t[2] \in crashed
    BY DEF NoLitter
  <2>1. pc # "publish_state" /\ \A w \in Writers : ~WriterLive(w)
    BY DEF IInv, Shapes, ThreadsEnd, Dormant, Running
  <2> QED BY <2>1 DEF IInv, Control, TempsInUse, WriterLive
<1> QED BY <1>1, ControlHolds, PTL

-----------------------------------------------------------------------------
(* The rows that flow through a run: each channel carries, in order, the    *)
(* rows between what its receiver has and what its sender has sent.  From   *)
(* it, and from the control, follow what the bank learns, what the          *)
(* published files hold, and that the disk goes through what a run promises *)
(* (RunPromise).                                                           *)

\* The rows of a queue's chunks are those from a+1 to b: some cuts of that
\* interval, in order, are where one message ends and the next begins.
Flows(q, a, b) ==
  \E p \in [0 .. Len(q) -> 0 .. NRows] :
    /\ p[0] = a /\ p[Len(q)] = b
    /\ \A i, j \in 0 .. Len(q) : i <= j => p[i] <= p[j]
    /\ \A i \in 1 .. Len(q) :
         /\ q[i].kind = "chunk" => q[i].rows = Span(p[i - 1], p[i])
         /\ q[i].kind = "end" => p[i - 1] = p[i]

\* The rows learned, and the groups that have left the bank, before this run
\* drained any, and with those it drained.
L  == Len(bank.learned)
G  == Closed(L) - Len(bank.queue)
G0 == G - Len(sidecar)

\* The bank has learned the rows in order; what has closed is in its queue,
\* or has been drained from it, or was published by an earlier run.
BankFlow ==
  /\ bank.learned = Span(0, L) /\ L <= cfg.avail
  /\ Len(bank.queue) <= Closed(L) /\ bank.queue = Span(G, Closed(L))
  /\ Len(sidecar) <= G /\ sidecar = Span(G0, G)
  /\ ~cfg.closed => sidecar = <<>>
  /\ 1 .. G0 \subseteq emitted

\* What the saved bank has learned and holds, likewise.
StateFlow ==
  LET S == Len(stateFile.learned)
      H == Closed(S) - Len(stateFile.queue)
  IN  /\ stateFile.learned = Span(0, S) /\ S <= cfg.avail
      /\ Len(stateFile.queue) <= Closed(S) /\ stateFile.queue = Span(H, Closed(S))
      /\ 1 .. H \subseteq emitted

\* The reader's channel ends with its End, which comes after the last row
\* unless the source failed.
ReadEndsLast ==
  /\ nextRow <= cfg.avail + 1
  /\ reader = "end_ok" => nextRow = cfg.avail + 1
  /\ \A i \in 1 .. Len(readQ) :
       readQ[i].kind = "end" =>
         i = Len(readQ) /\ reader = "done" /\ (readQ[i].ok => nextRow = cfg.avail + 1)

\* The channel carries the rows from those the calling thread has received,
\* which the bank has learned, to those that were read.
ReadFlow ==
  /\ skipTo <= cfg.avail
  /\ pc \in Feeding =>
       \E r \in 0 .. NRows :
         /\ Flows(readQ, r, nextRow - 1)
         /\ IF pc = "augment" THEN skipTo <= L /\ L < r /\ chunk = Span(L, r)
                           ELSE L = Larger(r, skipTo)

\* A run that stands well has learned every row once it has received the End.
Learning == {"recv", "augment", "deliver", "drain", "send_closed", "progress"}
AllLearned == result = "ok" /\ pc \notin Learning \cup {"idle"} => L = cfg.avail

\* The frame the calling thread holds is what the bank learned last.
HeldFlow ==
  /\ pc = "deliver" => Len(chunk) <= L /\ chunk = Span(L - Len(chunk), L)
  /\ pc = "deliver_empty" => chunk = <<>>
  /\ drained \in Spans
  /\ pc \in {"send_closed", "send_last_closed"} =>
       Len(drained) <= Len(sidecar) /\ drained = Span(G - Len(drained), G)

\* The output's writer has written the rows from the one the run started at,
\* and its channel carries those on to the last one delivered.
Delivered == IF pc = "deliver" THEN L - Len(chunk) ELSE L
OutFlow ==
  LET to == skipTo + Len(buf["out"])
  IN  /\ to <= NRows /\ buf["out"] = Span(skipTo, to)
      /\ WriterLive("out") =>
           \E d \in 0 .. L :
             /\ Flows(writeQ["out"], to, d)
             /\ result = "ok" => d = Delivered

\* The sidecar's writer and its channel hold the closed rows drained so far.
Handed == IF pc \in {"send_closed", "send_last_closed"} THEN G - Len(drained) ELSE G
ClosedFlow ==
  LET to == G0 + Len(buf["closed"])
  IN  /\ to <= G /\ buf["closed"] = Span(G0, to)
      /\ WriterLive("closed") => Flows(writeQ["closed"], to, Handed)

\* A sidecar that has rows is on its way to being published.
SidecarSent ==
  pc \in Feeding \cup {"stop", "end_closed"} /\ sidecar # <<>> =>
    \/ closedSent \/ written["closed"] = "err"
    \/ pc \in {"send_closed", "send_last_closed"}
    \/ result = "ok" /\ pc \in {"stop", "end_closed"}
SidecarEnds  ==
  pc = "join_closed" /\ sidecar # <<>> /\ WriterLive("closed") => Ending("closed")
SidecarThere ==
  pc \in {"join_closed"} \cup AfterClosed /\ sidecar # <<>> /\ written["closed"] = "ok" =>
    file["closed"].run = run
SidecarGoes == SidecarSent /\ SidecarEnds /\ SidecarThere

\* The rows of the published files: what they were written from.
FilesFlow ==
  /\ \A w \in Writers : file[w].rows \in Spans
  /\ emitted \subseteq Rows /\ Range(file["closed"].rows) \subseteq emitted
  /\ pc # "idle" /\ file["closed"].run = run => file["closed"].rows = sidecar

Flow == /\ BankFlow /\ StateFlow /\ ReadEndsLast /\ ReadFlow /\ AllLearned /\ HeldFlow
        /\ OutFlow /\ ClosedFlow /\ SidecarGoes /\ FilesFlow

-----------------------------------------------------------------------------
(* Rows in order, one span after another.                                  *)

LEMMA SpanEmpty ==
  ASSUME NEW a \in Nat, NEW b \in Nat
  PROVE  Span(a, b) = <<>> <=> b <= a
<1>1. Span(a, b) \in Seq(Nat) /\ Len(Span(a, b)) = IF a <= b THEN b - a ELSE 0
  BY SpanIsSeq
<1>2. Span(a, b) = <<>> <=> Len(Span(a, b)) = 0
  BY <1>1
<1> QED BY <1>1, <1>2

LEMMA SpanConcat ==
  ASSUME NEW a \in Nat, NEW b \in Nat, NEW c \in Nat, a <= b, b <= c
  PROVE  Span(a, b) \o Span(b, c) = Span(a, c)
<1> DEFINE s == Span(a, b)
           t == Span(b, c)
           u == Span(a, c)
<1>1. s \in Seq(Nat) /\ Len(s) = b - a /\ \A i \in 1 .. Len(s) : s[i] = a + i
  BY SpanIsSeq
<1>2. t \in Seq(Nat) /\ Len(t) = c - b /\ \A i \in 1 .. Len(t) : t[i] = b + i
  BY SpanIsSeq
<1>3. u \in Seq(Nat) /\ Len(u) = c - a /\ \A i \in 1 .. Len(u) : u[i] = a + i
  <2>1. a <= c
    OBVIOUS
  <2> QED BY <2>1, SpanIsSeq
<1> HIDE DEF s, t, u
<1>4. s \o t = u
  <2>1. /\ s \o t \in Seq(Nat) /\ Len(s \o t) = Len(s) + Len(t)
        /\ \A i \in 1 .. Len(s) + Len(t) :
              (s \o t)[i] = IF i <= Len(s) THEN s[i] ELSE t[i - Len(s)]
    BY <1>1, <1>2, ConcatProperties
  <2>2. ASSUME NEW i \in 1 .. Len(s \o t) PROVE (s \o t)[i] = u[i]
    <3>1. i \in 1 .. c - a /\ u[i] = a + i
      BY <2>1, <1>1, <1>2, <1>3
    <3>2. (s \o t)[i] = IF i <= b - a THEN s[i] ELSE t[i - (b - a)]
      BY <2>1, <1>1, <1>2
    <3>3. CASE i <= b - a
      BY <3>1, <3>2, <3>3, <1>1
    <3>4. CASE i > b - a
      <4>1. i - (b - a) \in 1 .. c - b
        BY <3>1, <3>4
      <4>2. t[i - (b - a)] = b + (i - (b - a))
        BY <4>1, <1>2
      <4> QED BY <3>1, <3>2, <3>4, <4>2
    <3> QED BY <3>1, <3>3, <3>4
  <2>3. Len(s \o t) = Len(u)
    BY <2>1, <1>1, <1>2, <1>3
  <2> QED BY <2>1, <2>2, <2>3, <1>3, SeqEqual
<1> QED BY <1>4 DEF s, t, u

LEMMA SpanLast ==
  ASSUME NEW a \in Nat, NEW b \in Nat, a < b \/ a = 0
  PROVE  LastOf(Span(a, b)) = b
<1>1. CASE a < b
  <2>1. Len(Span(a, b)) = b - a /\ Span(a, b)[b - a] = b
    <3> DEFINE s == Span(a, b)
    <3>1. /\ Len(s) = IF a <= b THEN b - a ELSE 0
          /\ \A i \in 1 .. Len(s) : s[i] = a + i
      BY SpanIsSeq
    <3> HIDE DEF s
    <3>2. Len(s) = b - a /\ b - a \in 1 .. (b - a)
      BY <3>1, <1>1
    <3>3. s[b - a] = a + (b - a)
      BY <3>1, <3>2
    <3> QED BY <3>2, <3>3 DEF s
  <2>2. Span(a, b) # <<>>
    BY <1>1, SpanEmpty
  <2> QED BY <2>1, <2>2 DEF LastOf
<1>2. CASE a = 0 /\ b = 0
  BY <1>2, SpanEmpty DEF LastOf
<1> QED BY <1>1, <1>2

LEMMA SpanRange ==
  ASSUME NEW a \in Nat, NEW b \in Nat
  PROVE  Range(Span(a, b)) = (a + 1) .. b
<1>1. DOMAIN Span(a, b) = 1 .. (b - a) /\ \A i \in 1 .. (b - a) : Span(a, b)[i] = a + i
  BY DEF Span
<1>2. ASSUME NEW x \in Range(Span(a, b)) PROVE x \in (a + 1) .. b
  BY <1>1 DEF Range
<1>3. ASSUME NEW x \in (a + 1) .. b PROVE x \in Range(Span(a, b))
  <2>1. x - a \in 1 .. (b - a) /\ x = a + (x - a)
    OBVIOUS
  <2> QED BY <1>1, <2>1 DEF Range
<1> QED BY <1>2, <1>3

\* A span whose length is known is the one that ends where it ends.
LEMMA SpanLen ==
  ASSUME NEW a \in Nat, NEW b \in Nat, a <= b
  PROVE  Len(Span(a, b)) = b - a
  BY SpanIsSeq

LEMMA SpanIsFrame ==
  ASSUME NEW s \in Spans
  PROVE  s \in Frames /\ s \in Groups
<1>1. PICK a \in 0 .. NRows, b \in 0 .. NRows : s = Span(a, b)
  BY DEF Spans
<1>2. s \in Seq(Rows) /\ Len(s) \in 0 .. NRows
  <2>1. a \in Nat /\ b \in Nat
    BY RunnerAssumption
  <2>2. s \in Seq(Rows)
    BY SpanOfRows
  <2>3. Len(s) = IF a <= b THEN b - a ELSE 0
    BY <1>1, <2>1, SpanIsSeq
  <2> QED BY <2>1, <2>2, <2>3, RunnerAssumption
<1>3. s \in [1 .. Len(s) -> Rows]
  BY <1>2
<1> QED BY <1>2, <1>3 DEF Frames, Groups

-----------------------------------------------------------------------------
(* What the messages of a channel carry.                                   *)

LEMMA FlowEmpty ==
  ASSUME NEW a \in 0 .. NRows, NEW b
  PROVE  Flows(<<>>, a, b) <=> a = b
<1>1. ASSUME Flows(<<>>, a, b) PROVE a = b
  <2>1. Len(<<>>) = 0
    OBVIOUS
  <2> QED BY <1>1, <2>1 DEF Flows
<1>2. ASSUME a = b PROVE Flows(<<>>, a, b)
  <2> DEFINE p == [i \in 0 .. 0 |-> a]
  <2>1. p \in [0 .. 0 -> 0 .. NRows] /\ p[0] = a
    OBVIOUS
  <2>2. \A i, j \in 0 .. 0 : i = 0 /\ j = 0
    OBVIOUS
  <2>3. 1 .. 0 = {} /\ Len(<<>>) = 0
    OBVIOUS
  <2> HIDE DEF p
  <2>4. \A i, j \in 0 .. 0 : i <= j => p[i] <= p[j]
    <3>1. p[0] <= p[0]
      BY <2>1, RunnerAssumption
    <3> QED BY <2>2, <3>1
  <2> QED BY <1>2, <2>1, <2>3, <2>4 DEF Flows
<1> QED BY <1>1, <1>2

LEMMA FlowEnds ==
  ASSUME NEW S, NEW q \in Seq(S), NEW a, NEW b, Flows(q, a, b)
  PROVE  a \in 0 .. NRows /\ b \in 0 .. NRows /\ a <= b
<1>1. PICK p \in [0 .. Len(q) -> 0 .. NRows] :
        /\ p[0] = a /\ p[Len(q)] = b
        /\ \A i, j \in 0 .. Len(q) : i <= j => p[i] <= p[j]
  BY DEF Flows
<1>2. Len(q) \in Nat
  OBVIOUS
<1> QED BY <1>1, <1>2

\* A message is sent: the channel then carries its rows too.
LEMMA FlowSent ==
  ASSUME NEW S, NEW q \in Seq(S), NEW a, NEW b, Flows(q, a, b),
         NEW m \in S, NEW c \in 0 .. NRows, b <= c,
         m.kind = "chunk" => m.rows = Span(b, c), m.kind = "end" => b = c
  PROVE  Flows(Append(q, m), a, c)
<1> DEFINE n == Len(q)
           r == Append(q, m)
<1>1. PICK p \in [0 .. n -> 0 .. NRows] :
        /\ p[0] = a /\ p[n] = b
        /\ \A i, j \in 0 .. n : i <= j => p[i] <= p[j]
        /\ \A i \in 1 .. n : /\ q[i].kind = "chunk" => q[i].rows = Span(p[i - 1], p[i])
                             /\ q[i].kind = "end" => p[i - 1] = p[i]
  BY DEF Flows
<1> DEFINE t == [i \in 0 .. n + 1 |-> IF i = n + 1 THEN c ELSE p[i]]
<1>2. /\ n \in Nat /\ Len(r) = n + 1 /\ r[n + 1] = m /\ \A i \in 1 .. n : r[i] = q[i]
  OBVIOUS
<1>3. /\ t \in [0 .. n + 1 -> 0 .. NRows] /\ t[n + 1] = c
      /\ \A i \in 0 .. n : t[i] = p[i]
  BY <1>2
<1> HIDE DEF t, r, n
<1>4. \A i, j \in 0 .. n + 1 : i <= j => t[i] <= t[j]
  <2>1. \A i \in 0 .. n : p[i] <= b /\ p[i] \in Nat
    BY <1>1, <1>2, RunnerAssumption
  <2>2. \A i \in 0 .. n + 1 : i \in 0 .. n \/ i = n + 1
    BY <1>2
  <2>3. c \in Nat /\ b \in Nat
    BY <1>1, <1>2, RunnerAssumption
  <2> QED BY <1>1, <1>2, <1>3, <2>1, <2>2, <2>3
<1>5. ASSUME NEW i \in 1 .. n + 1
      PROVE  /\ r[i].kind = "chunk" => r[i].rows = Span(t[i - 1], t[i])
             /\ r[i].kind = "end" => t[i - 1] = t[i]
  <2>1. CASE i = n + 1
    <3>1. t[i - 1] = b /\ t[i] = c /\ r[i] = m
      BY <2>1, <1>1, <1>2, <1>3
    <3> QED BY <3>1
  <2>2. CASE i # n + 1
    <3>1. i \in 1 .. n /\ t[i - 1] = p[i - 1] /\ t[i] = p[i] /\ r[i] = q[i]
      BY <2>2, <1>2, <1>3
    <3> QED BY <3>1, <1>1
  <2> QED BY <2>1, <2>2
<1>6. t[0] = a
  BY <1>1, <1>2, <1>3
<1>7. Flows(r, a, c)
  BY <1>2, <1>3, <1>4, <1>5, <1>6 DEF Flows
<1> QED BY <1>7 DEF r

\* A message is received: the rest of the channel carries what follows it.
LEMMA FlowTaken ==
  ASSUME NEW S, NEW q \in Seq(S), NEW a, NEW b, Flows(q, a, b), q # <<>>
  PROVE  \E c \in 0 .. NRows :
           /\ a <= c /\ c <= b /\ Flows(Tail(q), c, b)
           /\ Head(q).kind = "chunk" => Head(q).rows = Span(a, c)
           /\ Head(q).kind = "end" => c = a
<1> DEFINE n == Len(q)
           r == Tail(q)
<1>1. PICK p \in [0 .. n -> 0 .. NRows] :
        /\ p[0] = a /\ p[n] = b
        /\ \A i, j \in 0 .. n : i <= j => p[i] <= p[j]
        /\ \A i \in 1 .. n : /\ q[i].kind = "chunk" => q[i].rows = Span(p[i - 1], p[i])
                             /\ q[i].kind = "end" => p[i - 1] = p[i]
  BY DEF Flows
<1> DEFINE t == [i \in 0 .. n - 1 |-> p[i + 1]]
<1>2. /\ n \in Nat /\ n > 0 /\ Len(r) = n - 1 /\ Head(q) = q[1]
      /\ \A i \in 1 .. n - 1 : r[i] = q[i + 1]
  OBVIOUS
<1>3. /\ t \in [0 .. n - 1 -> 0 .. NRows] /\ \A i \in 0 .. n - 1 : t[i] = p[i + 1]
  BY <1>2
<1> HIDE DEF t, r, n
<1>4. \A i, j \in 0 .. n - 1 : i <= j => t[i] <= t[j]
  <2>1. \A i \in 0 .. n - 1 : i + 1 \in 0 .. n
    BY <1>2
  <2> QED BY <1>1, <1>2, <1>3, <2>1
<1>5. ASSUME NEW i \in 1 .. n - 1
      PROVE  /\ r[i].kind = "chunk" => r[i].rows = Span(t[i - 1], t[i])
             /\ r[i].kind = "end" => t[i - 1] = t[i]
  <2>1. i + 1 \in 1 .. n /\ t[i - 1] = p[i] /\ t[i] = p[i + 1] /\ r[i] = q[i + 1] /\ i = (i + 1) - 1
    BY <1>2, <1>3
  <2> QED BY <2>1, <1>1
<1>6. t[0] = p[1] /\ t[n - 1] = b /\ p[1] \in 0 .. NRows /\ a <= p[1] /\ p[1] <= b
  BY <1>1, <1>2, <1>3
<1>7. Flows(r, p[1], b)
  <2>1. Len(r) = n - 1
    BY <1>2
  <2>2. /\ t \in [0 .. Len(r) -> 0 .. NRows] /\ t[0] = p[1] /\ t[Len(r)] = b
        /\ \A i, j \in 0 .. Len(r) : i <= j => t[i] <= t[j]
    BY <2>1, <1>3, <1>4, <1>6
  <2>3. \A i \in 1 .. Len(r) : /\ r[i].kind = "chunk" => r[i].rows = Span(t[i - 1], t[i])
                               /\ r[i].kind = "end" => t[i - 1] = t[i]
    BY <2>1, <1>5
  <2> QED BY <2>2, <2>3 DEF Flows
<1>8. /\ Head(q).kind = "chunk" => Head(q).rows = Span(a, p[1])
      /\ Head(q).kind = "end" => p[1] = a
  <2>1. 1 \in 1 .. n /\ 1 - 1 = 0
    BY <1>2
  <2> QED BY <1>1, <1>2, <2>1
<1> QED BY <1>6, <1>7, <1>8 DEF r

-----------------------------------------------------------------------------
(* What the bank learns and closes.                                        *)

LEMMA Bounded ==
  ASSUME IInv
  PROVE  /\ NRows \in Nat /\ cfg.avail \in 0 .. NRows /\ skipTo \in 0 .. NRows
         /\ nextRow \in 1 .. NRows + 1
         /\ bank.learned \in Seq(Rows) /\ bank.queue \in Seq(Nat) /\ sidecar \in Seq(Nat)
         /\ bank = [learned |-> bank.learned, queue |-> bank.queue]
         /\ Len(bank.learned) \in Nat /\ Len(bank.queue) \in Nat /\ Len(sidecar) \in Nat
<1>1. /\ bank.learned \in Seq(Rows) /\ bank.queue \in Seq(Nat) /\ sidecar \in Seq(Nat)
      /\ bank = [learned |-> bank.learned, queue |-> bank.queue]
  BY DEF IInv, Shapes, BankShape, BankShapes
<1>2. Len(bank.learned) \in Nat /\ Len(bank.queue) \in Nat /\ Len(sidecar) \in Nat
  BY <1>1
<1>3. NRows \in Nat /\ cfg.avail \in 0 .. NRows /\ skipTo \in 0 .. NRows
  BY RunnerAssumption DEF IInv, Shapes, RunShape, ConfigShapes, BankShape
<1>4. nextRow \in 1 .. NRows + 1
  BY DEF IInv, Shapes, ReadShape
<1> QED BY <1>1, <1>2, <1>3, <1>4

LEMMA Positions ==
  ASSUME IInv, BankFlow
  PROVE  /\ L \in 0 .. NRows /\ L <= cfg.avail /\ Closed(L) \in 0 .. NRows
         /\ G \in 0 .. Closed(L) /\ G0 \in 0 .. G
         /\ Len(bank.queue) = Closed(L) - G /\ Len(sidecar) = G - G0
<1>1. L \in Nat /\ L <= cfg.avail /\ Len(bank.queue) \in Nat /\ Len(sidecar) \in Nat
  BY Bounded DEF BankFlow, L
<1>2. Closed(L) \in 0 .. L
  BY <1>1, ClosedBounds
<1>3. Len(bank.queue) <= Closed(L) /\ Len(sidecar) <= G
  BY DEF BankFlow
<1>4. G \in 0 .. Closed(L) /\ Len(bank.queue) = Closed(L) - G
  BY <1>1, <1>2, <1>3 DEF G
<1>5. G0 \in 0 .. G /\ Len(sidecar) = G - G0
  BY <1>1, <1>2, <1>3, <1>4 DEF G0
<1> QED BY <1>1, <1>2, <1>4, <1>5, Bounded

\* A frame is learned: the rows follow those learned before, and the queue
\* takes the groups they close.
LEMMA Augmented ==
  ASSUME IInv, BankFlow, ReadEndsLast, ReadFlow, Augment, pc' = "deliver"
  PROVE  \E r \in 0 .. NRows :
           /\ skipTo <= L /\ L < r /\ r <= cfg.avail /\ chunk = Span(L, r)
           /\ Flows(readQ, r, nextRow - 1)
           /\ bank'.learned = Span(0, r) /\ bank'.queue = Span(G, Closed(r))
           /\ Closed(L) <= Closed(r) /\ L' = r /\ G' = G /\ G0' = G0
<1>1. PICK r \in 0 .. NRows :
        /\ Flows(readQ, r, nextRow - 1) /\ skipTo <= L /\ L < r /\ chunk = Span(L, r)
  <2>1. pc = "augment"
    BY DEF Augment
  <2> QED BY <2>1 DEF ReadFlow, Feeding
<1>2. L \in Nat /\ r \in Nat /\ 0 \in Nat /\ G \in Nat /\ G <= Closed(L) /\ Closed(L) \in Nat
  BY Positions, Bounded
<1>3. Closed(r) \in Nat /\ Closed(L) <= Closed(r)
  BY <1>1, <1>2, ClosedBounds, ClosedInOrder
<1>4. r <= cfg.avail
  <2>1. readQ \in Seq(Messages(Spans))
    BY DEF IInv, Shapes, ReadShape
  <2>2. r <= nextRow - 1
    BY <1>1, <2>1, FlowEnds
  <2> QED BY <1>2, <2>2, Bounded DEF ReadEndsLast
<1>5. bank.learned = Span(0, L) /\ bank.queue = Span(G, Closed(L))
  BY DEF BankFlow
<1>6. bank' = [learned |-> bank.learned \o chunk,
               queue |-> bank.queue \o ClosesBetween(LastOf(bank.learned), LastOf(chunk))]
  BY DEF Augment, Fails
<1>7. bank.learned \o chunk = Span(0, r)
  <2>1. 0 <= L /\ L <= r /\ r \in Nat
    BY <1>1, <1>2
  <2>2. Span(0, L) \o Span(L, r) = Span(0, r)
    BY <2>1, <1>2, SpanConcat
  <2> QED BY <2>2, <1>1, <1>5
<1>8. bank.queue \o ClosesBetween(LastOf(bank.learned), LastOf(chunk)) = Span(G, Closed(r))
  <2>1. LastOf(bank.learned) = L /\ LastOf(chunk) = r
    BY <1>1, <1>2, <1>5, SpanLast
  <2>2. ClosesBetween(L, r) = Span(Closed(L), Closed(r))
    BY <1>1, <1>2, ClosesSpan
  <2>3. Span(G, Closed(L)) \o Span(Closed(L), Closed(r)) = Span(G, Closed(r))
    BY <1>2, <1>3, SpanConcat
  <2> QED BY <2>1, <2>2, <2>3, <1>5
<1>9. bank'.learned = Span(0, r) /\ bank'.queue = Span(G, Closed(r))
  BY <1>6, <1>7, <1>8
<1>10. Len(bank'.learned) = r /\ Len(bank'.queue) = Closed(r) - G
  <2>1. Len(Span(0, r)) = r - 0 /\ r - 0 = r
    BY <1>2, SpanLen
  <2>2. G <= Closed(r)
    BY <1>2, <1>3
  <2>3. Len(Span(G, Closed(r))) = Closed(r) - G
    BY <2>2, <1>2, <1>3, SpanLen
  <2> QED BY <2>1, <2>3, <1>9
<1>11. L' = r
  BY <1>10 DEF L
<1>12. G' = G
  <2>1. G' = Closed(L)' - Len(bank'.queue) /\ Closed(L)' = Closed(L')
    BY DEF G, Closed, GroupOf
  <2> QED BY <2>1, <1>2, <1>3, <1>10, <1>11
<1>13. G0' = G0
  BY <1>12 DEF G0, Augment
<1> QED BY <1>1, <1>3, <1>4, <1>9, <1>11, <1>12, <1>13

\* Closed groups leave the bank's queue for the sidecar.
LEMMA Drained ==
  ASSUME IInv, BankFlow, Drain
  PROVE  /\ bank'.learned = bank.learned /\ L' = L /\ G0' = G0
         /\ \/ UNCHANGED <<bank, drained, sidecar>> /\ G' = G
            \/ /\ cfg.closed /\ bank'.queue = <<>> /\ G' = Closed(L)
               /\ drained' = Span(G, Closed(L)) /\ sidecar' = Span(G0, Closed(L))
<1>1. CASE UNCHANGED <<bank, drained, sidecar>>
  BY <1>1 DEF L, G, G0, Closed, GroupOf
<1>2. CASE /\ cfg.closed /\ drained' = bank.queue /\ sidecar' = sidecar \o bank.queue
           /\ bank' = [bank EXCEPT !.queue = <<>>]
  <2>1. bank' = [learned |-> bank.learned, queue |-> <<>>]
    BY <1>2, DrainedBank DEF IInv, Shapes, BankShape
  <2>2. bank'.learned = bank.learned /\ bank'.queue = <<>>
    BY <2>1
  <2>3. L' = L
    BY <2>2 DEF L
  <2>4. /\ Closed(L) \in Nat /\ G \in Nat /\ G0 \in Nat /\ G0 <= G /\ G <= Closed(L)
    BY Positions, Bounded
  <2>5. bank.queue = Span(G, Closed(L)) /\ sidecar = Span(G0, G)
    BY DEF BankFlow
  <2>6. sidecar \o bank.queue = Span(G0, Closed(L))
    BY <2>4, <2>5, SpanConcat
  <2>7. G' = Closed(L)
    <3>1. G' = Closed(L)' - Len(bank'.queue) /\ Closed(L)' = Closed(L') /\ Len(<<>>) = 0
      BY DEF G, Closed, GroupOf
    <3> QED BY <3>1, <2>2, <2>3, <2>4
  <2>8. G0' = G0
    <3>1. Len(sidecar') = Closed(L) - G0
      BY <1>2, <2>4, <2>6, SpanLen
    <3>2. G0' = G' - Len(sidecar')
      BY DEF G0
    <3> QED BY <3>1, <3>2, <2>4, <2>7
  <2> QED BY <1>2, <2>2, <2>3, <2>5, <2>6, <2>7, <2>8
<1> QED BY <1>1, <1>2 DEF Drain

\* A run starts from what the saved bank has learned, or from nothing.
LEMMA Started ==
  ASSUME IInv, StateFlow, StartRun
  PROVE  /\ bank'.learned = Span(0, L') /\ L' = skipTo' /\ L' \in Nat /\ L' <= cfg'.avail
         /\ Len(bank'.queue) \in Nat /\ Len(bank'.queue) <= Closed(L')
         /\ bank'.queue = Span(Closed(L') - Len(bank'.queue), Closed(L'))
         /\ 1 .. (Closed(L') - Len(bank'.queue)) \subseteq emitted
         /\ cfg.avail <= cfg'.avail /\ cfg'.avail \in Nat
<1> DEFINE S == Len(stateFile.learned)
<1>1. cfg'.avail \in cfg.avail .. NRows /\ cfg.avail \in Nat /\ NRows \in Nat
  BY Bounded DEF StartRun
<1>2. CASE bank' = NoBank /\ skipTo' = 0
  <2>1. bank'.learned = <<>> /\ bank'.queue = <<>> /\ Len(<<>>) = 0
    BY <1>2 DEF NoBank
  <2>2. L' = 0 /\ Closed(0) = 0
    BY <2>1 DEF L, Closed
  <2>3. Span(0, 0) = <<>> /\ 1 .. 0 = {}
    BY SpanEmpty
  <2> QED BY <1>1, <1>2, <2>1, <2>2, <2>3
<1>3. CASE /\ bank' = [learned |-> stateFile.learned, queue |-> stateFile.queue]
           /\ skipTo' = LastOf(stateFile.learned)
  <2>1. bank'.learned = stateFile.learned /\ bank'.queue = stateFile.queue
    BY <1>3
  <2>2. S \in Nat /\ Len(stateFile.queue) \in Nat
    <3>1. stateFile.learned \in Seq(Rows) /\ stateFile.queue \in Seq(Nat)
      BY DEF IInv, Shapes, FileShape, StateShapes
    <3> QED BY <3>1
  <2>3. L' = S
    BY <2>1 DEF L
  <2>4. LastOf(stateFile.learned) = S
    <3>1. stateFile.learned = Span(0, S)
      BY DEF StateFlow
    <3> HIDE DEF S
    <3>2. LastOf(Span(0, S)) = S
      BY <2>2, SpanLast
    <3> QED BY <3>1, <3>2
  <2>5. /\ stateFile.learned = Span(0, S) /\ S <= cfg.avail
        /\ Len(stateFile.queue) <= Closed(S)
        /\ stateFile.queue = Span(Closed(S) - Len(stateFile.queue), Closed(S))
        /\ 1 .. (Closed(S) - Len(stateFile.queue)) \subseteq emitted
    BY DEF StateFlow
  <2> HIDE DEF S
  <2>6. S <= cfg'.avail /\ cfg'.avail \in Nat /\ cfg.avail <= cfg'.avail
    BY <1>1, <2>2, <2>5
  <2> QED BY <1>3, <2>1, <2>2, <2>3, <2>4, <2>5, <2>6
<1> QED BY <1>2, <1>3 DEF StartRun

-----------------------------------------------------------------------------
(* Which steps change what.                                                *)

\* The configuration and the filter are chosen as a run starts.
LEMMA SettingChanges ==
  [Next]_vars =>
    StartRun \/ UNCHANGED <<run, cfg, skipTo>>
<1>1. CASE Reader
  BY <1>1 DEF Reader, ReadChunk, disk, main, writing, model, ReadEnds, ReadSendsEnd,
       ReadGivesUp
<1>2. CASE \E w \in Writers : Writer(w)
  BY <1>2 DEF Writer, WriterFails, DropTemp, main, reading, model, WriterCreates,
       WriterReceives, WriterWrites, disk, WriterDiscards, WriterPublishes
<1>3. CASE Main
  BY <1>3 DEF Main, Receive, Fails, disk, writing, model, Augment, reading,
       AugmentEmpty, Deliver, Drain, SendClosed, Progress, StopReader, DropReceiver,
       EndClosed, EndWriter, EndOut, JoinClosed, JoinOut, NoWriter, ScopeEnds, Save
<1>4. CASE StartRun
  BY <1>4
<1>5. CASE Crash
  BY <1>5 DEF Crash
<1>6. CASE UNCHANGED vars
  BY <1>6 DEF vars, disk, main, reading, writing, model
<1> QED BY <1>1, <1>2, <1>3, <1>4, <1>5, <1>6 DEF Next, Finished

LEMMA BankChanges ==
  [Next]_vars =>
    StartRun \/ Augment \/ Drain \/ Crash \/ UNCHANGED bank
<1>1. CASE Reader
  BY <1>1 DEF Reader, ReadChunk, disk, main, writing, model, ReadEnds, ReadSendsEnd,
       ReadGivesUp
<1>2. CASE \E w \in Writers : Writer(w)
  BY <1>2 DEF Writer, WriterFails, DropTemp, main, reading, model, WriterCreates,
       WriterReceives, WriterWrites, disk, WriterDiscards, WriterPublishes
<1>3. CASE Main
  BY <1>3 DEF Main, Receive, Fails, disk, writing, model, AugmentEmpty, reading,
       Deliver, SendClosed, Progress, StopReader, DropReceiver, EndClosed, EndWriter,
       EndOut, JoinClosed, JoinOut, NoWriter, ScopeEnds, Save
<1>4. CASE StartRun
  BY <1>4
<1>5. CASE Crash
  BY <1>5
<1>6. CASE UNCHANGED vars
  BY <1>6 DEF vars, disk, main, reading, writing, model
<1> QED BY <1>1, <1>2, <1>3, <1>4, <1>5, <1>6 DEF Next, Finished

LEMMA DrainedChanges ==
  [Next]_vars =>
    StartRun \/ Drain \/ Crash \/ UNCHANGED <<drained, sidecar>>
<1>1. CASE Reader
  BY <1>1 DEF Reader, ReadChunk, disk, main, writing, model, ReadEnds, ReadSendsEnd,
       ReadGivesUp
<1>2. CASE \E w \in Writers : Writer(w)
  BY <1>2 DEF Writer, WriterFails, DropTemp, main, reading, model, WriterCreates,
       WriterReceives, WriterWrites, disk, WriterDiscards, WriterPublishes
<1>3. CASE Main
  BY <1>3 DEF Main, Receive, Fails, disk, writing, model, Augment, reading,
       AugmentEmpty, Deliver, SendClosed, Progress, StopReader, DropReceiver, EndClosed,
       EndWriter, EndOut, JoinClosed, JoinOut, NoWriter, ScopeEnds, Save
<1>4. CASE StartRun
  BY <1>4
<1>5. CASE Crash
  BY <1>5
<1>6. CASE UNCHANGED vars
  BY <1>6 DEF vars, disk, main, reading, writing, model
<1> QED BY <1>1, <1>2, <1>3, <1>4, <1>5, <1>6 DEF Next, Finished

LEMMA FilesChange ==
  [Next]_vars =>
    (\E w \in Writers : WriterPublishes(w)) \/ UNCHANGED <<file, emitted>>
<1>1. CASE Reader
  BY <1>1 DEF Reader, ReadChunk, disk, main, writing, model, ReadEnds, ReadSendsEnd,
       ReadGivesUp
<1>2. CASE \E w \in Writers : Writer(w)
  BY <1>2 DEF Writer, WriterFails, DropTemp, main, reading, model, WriterCreates,
       WriterReceives, WriterWrites, disk, WriterDiscards
<1>3. CASE Main
  BY <1>3 DEF Main, Receive, Fails, disk, writing, model, Augment, reading,
       AugmentEmpty, Deliver, Drain, SendClosed, Progress, StopReader, DropReceiver,
       EndClosed, EndWriter, EndOut, JoinClosed, JoinOut, NoWriter, ScopeEnds, Save
<1>4. CASE StartRun
  BY <1>4 DEF StartRun, disk
<1>5. CASE Crash
  BY <1>5 DEF Crash
<1>6. CASE UNCHANGED vars
  BY <1>6 DEF vars, disk, main, reading, writing, model
<1> QED BY <1>1, <1>2, <1>3, <1>4, <1>5, <1>6 DEF Next, Finished

LEMMA StateChanges ==
  [Next]_vars =>
    Save \/ UNCHANGED stateFile
<1>1. CASE Reader
  BY <1>1 DEF Reader, ReadChunk, disk, main, writing, model, ReadEnds, ReadSendsEnd,
       ReadGivesUp
<1>2. CASE \E w \in Writers : Writer(w)
  BY <1>2 DEF Writer, WriterFails, DropTemp, main, reading, model, WriterCreates,
       WriterReceives, WriterWrites, disk, WriterDiscards, WriterPublishes
<1>3. CASE Main
  BY <1>3 DEF Main, Receive, Fails, disk, writing, model, Augment, reading,
       AugmentEmpty, Deliver, Drain, SendClosed, Progress, StopReader, DropReceiver,
       EndClosed, EndWriter, EndOut, JoinClosed, JoinOut, NoWriter, ScopeEnds
<1>4. CASE StartRun
  BY <1>4 DEF StartRun, disk
<1>5. CASE Crash
  BY <1>5 DEF Crash
<1>6. CASE UNCHANGED vars
  BY <1>6 DEF vars, disk, main, reading, writing, model
<1> QED BY <1>1, <1>2, <1>3, <1>4, <1>5, <1>6 DEF Next, Finished

LEMMA ReadChanges ==
  [Next]_vars =>
    StartRun \/ Crash \/ ReadChunk \/ ReadSendsEnd \/ Receive \/ StopReader
      \/ UNCHANGED <<nextRow, readQ>>
<1>1. CASE Reader
  BY <1>1 DEF Reader, ReadEnds, disk, main, writing, model, ReadGivesUp
<1>2. CASE \E w \in Writers : Writer(w)
  BY <1>2 DEF Writer, WriterFails, DropTemp, main, reading, model, WriterCreates,
       WriterReceives, WriterWrites, disk, WriterDiscards, WriterPublishes
<1>3. CASE Main
  BY <1>3 DEF Main, Augment, Fails, disk, reading, writing, AugmentEmpty, model,
       Deliver, Drain, SendClosed, Progress, EndClosed, EndWriter, EndOut, JoinClosed,
       JoinOut, NoWriter, ScopeEnds, Save
<1>4. CASE StartRun
  BY <1>4
<1>5. CASE Crash
  BY <1>5
<1>6. CASE UNCHANGED vars
  BY <1>6 DEF vars, disk, main, reading, writing, model
<1> QED BY <1>1, <1>2, <1>3, <1>4, <1>5, <1>6 DEF Next, Finished

-----------------------------------------------------------------------------
(* The bank's rows and groups, and the saved bank's.                       *)

LEMMA BankFlowStep ==
  IInv /\ BankFlow /\ StateFlow /\ ReadEndsLast /\ ReadFlow /\ [Next]_vars => BankFlow'
<1> SUFFICES ASSUME IInv, BankFlow, StateFlow, ReadEndsLast, ReadFlow, [Next]_vars
             PROVE  BankFlow'
  OBVIOUS
<1>1. emitted \subseteq emitted'
  BY FilesChange DEF WriterPublishes
<1>2. CASE UNCHANGED <<bank, sidecar, cfg>>
  BY <1>1, <1>2 DEF BankFlow, L, G, G0, Closed, GroupOf
<1>3. CASE StartRun
  <2>1. sidecar' = <<>> /\ emitted' = emitted /\ Len(<<>>) = 0
    BY <1>3 DEF StartRun, disk
  <2>2. L' = Len(bank'.learned) /\ Closed(L)' = Closed(L')
    BY DEF L, Closed, GroupOf
  <2>3. Closed(L') \in Nat
    BY <1>3, Started, ClosedBounds
  <2> DEFINE g == Closed(L') - Len(bank'.queue)
  <2>4. G' = g /\ G0' = g /\ g \in Nat
    <3>1. G' = g
      BY <2>2 DEF G
    <3>2. g \in Nat
      BY <1>3, <2>3, Started
    <3> QED BY <2>1, <3>1, <3>2 DEF G0
  <2>5. Span(g, g) = <<>>
    BY <2>4, SpanEmpty
  <2>6. /\ bank'.learned = Span(0, L') /\ L' <= cfg'.avail
        /\ Len(bank'.queue) <= Closed(L)' /\ bank'.queue = Span(G', Closed(L)')
        /\ 1 .. G0' \subseteq emitted'
    BY <1>3, <2>1, <2>2, <2>4, Started
  <2> QED BY <2>1, <2>4, <2>5, <2>6 DEF BankFlow
<1>4. CASE Augment /\ pc' = "deliver"
  <2>1. PICK r \in 0 .. NRows :
          /\ r <= cfg.avail /\ bank'.learned = Span(0, r) /\ bank'.queue = Span(G, Closed(r))
          /\ Closed(L) <= Closed(r) /\ L' = r /\ G' = G /\ G0' = G0
    BY <1>4, Augmented
  <2>2. Closed(L)' = Closed(r)
    BY <2>1 DEF Closed, GroupOf
  <2>3. sidecar' = sidecar /\ cfg' = cfg
    BY <1>4 DEF Augment
  <2>4. /\ r \in Nat /\ Closed(r) \in Nat /\ G \in Nat /\ Closed(L) \in Nat /\ G <= Closed(L)
    BY Positions, Bounded, ClosedBounds
  <2>5. Len(Span(G, Closed(r))) = Closed(r) - G /\ Closed(r) - G <= Closed(r)
    <3>1. G <= Closed(r) /\ Closed(r) - G <= Closed(r)
      BY <2>1, <2>4
    <3> QED BY <3>1, <2>4, SpanLen
  <2> QED BY <1>1, <2>1, <2>2, <2>3, <2>5 DEF BankFlow
<1>5. CASE Drain
  <2>1. /\ bank'.learned = bank.learned /\ L' = L /\ G0' = G0
        /\ \/ UNCHANGED <<bank, drained, sidecar>> /\ G' = G
           \/ /\ cfg.closed /\ bank'.queue = <<>> /\ G' = Closed(L)
              /\ sidecar' = Span(G0, Closed(L))
    BY <1>5, Drained
  <2>2. cfg' = cfg /\ emitted' = emitted
    BY <1>5 DEF Drain, disk
  <2>3. Closed(L)' = Closed(L)
    BY <2>1 DEF Closed, GroupOf
  <2>4. /\ Closed(L) \in Nat /\ G \in Nat /\ G0 \in Nat /\ G0 <= G /\ G <= Closed(L)
    BY Positions, Bounded
  <2>5. CASE UNCHANGED <<bank, drained, sidecar>> /\ G' = G
    BY <2>1, <2>2, <2>3, <2>5 DEF BankFlow
  <2>6. CASE /\ cfg.closed /\ bank'.queue = <<>> /\ G' = Closed(L)
             /\ sidecar' = Span(G0, Closed(L))
    <3>1. Len(Span(G0, Closed(L))) = Closed(L) - G0 /\ Closed(L) - G0 <= Closed(L)
      <4>1. G0 <= Closed(L) /\ Closed(L) - G0 <= Closed(L)
        BY <2>4
      <4> QED BY <4>1, <2>4, SpanLen
    <3>2. Span(Closed(L), Closed(L)) = <<>> /\ Len(<<>>) = 0
      BY <2>4, SpanEmpty
    <3> QED BY <2>1, <2>2, <2>3, <2>4, <2>6, <3>1, <3>2 DEF BankFlow
  <2> QED BY <2>1, <2>5, <2>6
<1>6. CASE Crash
  <2>1. bank'.learned = <<>> /\ bank'.queue = <<>> /\ sidecar' = <<>> /\ Len(<<>>) = 0
    BY <1>6 DEF Crash, NoBank
  <2>2. L' = 0 /\ Closed(L)' = 0 /\ G' = 0 /\ G0' = 0
    BY <2>1 DEF L, G, G0, Closed
  <2>3. Span(0, 0) = <<>> /\ 1 .. 0 = {}
    BY SpanEmpty
  <2>4. cfg' = cfg /\ 0 <= cfg.avail
    BY <1>6, Bounded DEF Crash
  <2> QED BY <2>1, <2>2, <2>3, <2>4 DEF BankFlow
<1>7. Augment => pc' = "deliver" \/ UNCHANGED bank
  BY DEF Augment, Fails
<1> QED BY <1>2, <1>3, <1>4, <1>5, <1>6, <1>7, SettingChanges, BankChanges, DrainedChanges

LEMMA StateFlowStep ==
  IInv /\ BankFlow /\ StateFlow /\ FilesFlow /\ AllLearned /\ [Next]_vars => StateFlow'
<1> SUFFICES ASSUME IInv, BankFlow, StateFlow, FilesFlow, AllLearned, [Next]_vars
             PROVE  StateFlow'
  OBVIOUS
<1>1. emitted \subseteq emitted' /\ cfg.avail <= cfg'.avail
  <2>1. emitted \subseteq emitted'
    BY FilesChange DEF WriterPublishes
  <2> QED BY <2>1, SettingChanges, Started, Bounded
<1>2. CASE UNCHANGED stateFile
  <2> DEFINE S == Len(stateFile.learned)
  <2>1. S \in Nat /\ cfg.avail \in Nat /\ cfg'.avail \in Nat
    <3>1. stateFile.learned \in Seq(Rows)
      BY DEF IInv, Shapes, FileShape, StateShapes
    <3>2. cfg'.avail \in Nat
      BY SettingChanges, Started, Bounded
    <3> QED BY <3>1, <3>2, Bounded
  <2>2. S <= cfg.avail
    BY DEF StateFlow
  <2>3. S <= cfg'.avail
    <3> HIDE DEF S
    <3> QED BY <1>1, <2>1, <2>2
  <2> QED BY <1>1, <1>2, <2>3 DEF StateFlow, Closed, GroupOf
<1>3. CASE Save /\ stateFile' # stateFile
  <2>1. stateFile' = [run |-> run, learned |-> bank.learned, queue |-> bank.queue,
                      hadOut |-> cfg.out = "file", hadClosed |-> cfg.closed]
    BY <1>3 DEF Save
  <2>2. stateFile'.learned = bank.learned /\ stateFile'.queue = bank.queue
    BY <2>1
  <2>3. cfg' = cfg /\ emitted' = emitted
    BY <1>3 DEF Save
  <2>4. 1 .. G \subseteq emitted
    <3>1. Range(sidecar) \subseteq emitted
      <4>1. CASE cfg.closed
        <5>1. pc \in Over /\ Good
          BY <1>3 DEF Save, IInv, Control, OkSoFar, Over, Good
        <5>2. file["closed"].run = run
          BY <4>1, <5>1, GoodRunPublished
        <5> QED BY <5>1, <5>2 DEF FilesFlow, Over
      <4>2. CASE ~cfg.closed
        BY <4>2 DEF BankFlow, Range
      <4> QED BY <4>1, <4>2
    <3>2. Range(sidecar) = (G0 + 1) .. G
      BY Positions, Bounded, SpanRange DEF BankFlow
    <3>3. G0 \in Nat /\ G \in Nat /\ 1 .. G0 \subseteq emitted
      BY Positions, Bounded DEF BankFlow
    <3> QED BY <3>1, <3>2, <3>3
  <2>5. /\ Len(stateFile'.learned) = L /\ Closed(Len(stateFile'.learned)) = Closed(L)
        /\ Closed(L) - Len(stateFile'.queue) = G
    BY <2>2 DEF L, G
  <2>6. StateFlow' = LET S == Len(stateFile'.learned)
                         H == Closed(S) - Len(stateFile'.queue)
                     IN  /\ stateFile'.learned = Span(0, S) /\ S <= cfg'.avail
                         /\ Len(stateFile'.queue) <= Closed(S)
                         /\ stateFile'.queue = Span(H, Closed(S)) /\ 1 .. H \subseteq emitted'
    BY DEF StateFlow, Closed, GroupOf
  <2> QED BY <2>2, <2>3, <2>4, <2>5, <2>6 DEF BankFlow
<1> QED BY <1>2, <1>3, StateChanges

-----------------------------------------------------------------------------
(* What is read, and what of it is learned.                                *)

LEMMA ReaderChanges ==
  [Next]_vars =>
    StartRun \/ Crash \/ ReadEnds \/ ReadSendsEnd \/ ReadGivesUp \/ UNCHANGED reader
<1>1. CASE Reader
  BY <1>1 DEF Reader, ReadChunk, disk, main, writing, model
<1>2. CASE \E w \in Writers : Writer(w)
  BY <1>2 DEF Writer, WriterFails, DropTemp, main, reading, model, WriterCreates,
       WriterReceives, WriterWrites, disk, WriterDiscards, WriterPublishes
<1>3. CASE Main
  BY <1>3 DEF Main, Receive, Fails, disk, writing, model, Augment, reading,
       AugmentEmpty, Deliver, Drain, SendClosed, Progress, StopReader, DropReceiver,
       EndClosed, EndWriter, EndOut, JoinClosed, JoinOut, NoWriter, ScopeEnds, Save
<1>4. CASE StartRun
  BY <1>4
<1>5. CASE Crash
  BY <1>5
<1>6. CASE UNCHANGED vars
  BY <1>6 DEF vars, disk, main, reading, writing, model
<1> QED BY <1>1, <1>2, <1>3, <1>4, <1>5, <1>6 DEF Next, Finished

LEMMA ReadEndsLastStep == IInv /\ ReadEndsLast /\ [Next]_vars => ReadEndsLast'
<1> SUFFICES ASSUME IInv, ReadEndsLast, [Next]_vars PROVE ReadEndsLast'
  OBVIOUS
<1>0. /\ readQ \in Seq(Messages(Spans)) /\ Len(readQ) \in Nat
      /\ nextRow \in Nat /\ cfg.avail \in Nat
  BY Bounded DEF IInv, Shapes, ReadShape
<1>1. CASE UNCHANGED <<reader, nextRow, readQ, cfg>>
  BY <1>1 DEF ReadEndsLast
<1>2. CASE StartRun \/ Crash
  <2>1. nextRow' = 1 /\ readQ' = <<>> /\ reader' # "end_ok" /\ Len(<<>>) = 0
    BY <1>2 DEF StartRun, Crash
  <2>2. cfg'.avail \in Nat
    <3>1. CASE StartRun
      BY <3>1, Bounded DEF StartRun
    <3>2. CASE Crash
      BY <3>2, <1>0 DEF Crash
    <3> QED BY <1>2, <3>1, <3>2
  <2> QED BY <2>1, <2>2 DEF ReadEndsLast
<1>3. CASE ReadChunk
  <2>1. PICK to \in nextRow .. cfg.avail :
          /\ readQ' = Append(readQ, Chunk(Span(nextRow - 1, to))) /\ nextRow' = to + 1
    BY <1>3, ChunkRead DEF IInv, Shapes
  <2>2. reader = "reading" /\ reader' = reader /\ cfg' = cfg
    BY <1>3 DEF ReadChunk
  <2>3. \A i \in 1 .. Len(readQ) : readQ[i].kind # "end"
    BY <2>2 DEF ReadEndsLast
  <2>4. /\ Len(readQ') = Len(readQ) + 1 /\ readQ'[Len(readQ) + 1].kind = "chunk"
        /\ \A i \in 1 .. Len(readQ) : readQ'[i] = readQ[i]
    BY <1>0, <2>1 DEF Chunk
  <2>5. \A i \in 1 .. Len(readQ') : readQ'[i].kind # "end"
    BY <1>0, <2>3, <2>4
  <2>6. nextRow' <= cfg'.avail + 1
    BY <1>0, <2>1, <2>2
  <2> QED BY <2>2, <2>5, <2>6 DEF ReadEndsLast
<1>4. CASE ReadEnds
  BY <1>0, <1>4 DEF ReadEnds, ReadEndsLast
<1>5. CASE ReadSendsEnd
  <2>1. /\ readQ' = Append(readQ, End(reader = "end_ok")) /\ reader # "done"
        /\ reader' = "done" /\ nextRow' = nextRow /\ cfg' = cfg
    BY <1>5 DEF ReadSendsEnd
  <2>2. \A i \in 1 .. Len(readQ) : readQ[i].kind # "end"
    BY <2>1 DEF ReadEndsLast
  <2>3. /\ Len(readQ') = Len(readQ) + 1
        /\ readQ'[Len(readQ) + 1].ok => reader = "end_ok"
        /\ \A i \in 1 .. Len(readQ) : readQ'[i] = readQ[i]
    <3> DEFINE m == End(reader = "end_ok")
    <3>1. m.ok => reader = "end_ok"
      BY DEF End
    <3> HIDE DEF m
    <3>2. readQ' = Append(readQ, m)
      BY <2>1 DEF m
    <3>3. /\ Len(readQ') = Len(readQ) + 1 /\ readQ'[Len(readQ) + 1] = m
          /\ \A i \in 1 .. Len(readQ) : readQ'[i] = readQ[i]
      BY <1>0, <3>2
    <3> QED BY <3>1, <3>3
  <2>4. \A i \in 1 .. Len(readQ') :
          readQ'[i].kind = "end" => i = Len(readQ') /\ (readQ'[i].ok => reader = "end_ok")
    <3> SUFFICES ASSUME NEW i \in 1 .. Len(readQ'), readQ'[i].kind = "end"
                 PROVE  i = Len(readQ) + 1
      BY <1>0, <2>3
    <3>1. i \notin 1 .. Len(readQ)
      BY <2>2, <2>3
    <3> QED BY <1>0, <2>3, <3>1
  <2> QED BY <2>1, <2>4 DEF ReadEndsLast
<1>6. CASE ReadGivesUp
  BY <1>6 DEF ReadGivesUp, ReadEndsLast
<1>7. CASE Receive
  <2>1. /\ readQ' = Tail(readQ) /\ readQ # <<>>
        /\ nextRow' = nextRow /\ cfg' = cfg /\ reader' = reader
    BY <1>7 DEF Receive
  <2>2. /\ Len(readQ') = Len(readQ) - 1 /\ Len(readQ) > 0
        /\ \A i \in 1 .. Len(readQ') : i + 1 \in 1 .. Len(readQ) /\ readQ'[i] = readQ[i + 1]
    BY <1>0, <2>1
  <2>3. \A i \in 1 .. Len(readQ') : readQ'[i].kind = "end" => 
          i = Len(readQ') /\ reader = "done" /\ (readQ'[i].ok => nextRow = cfg.avail + 1)
    <3> SUFFICES ASSUME NEW i \in 1 .. Len(readQ'), readQ'[i].kind = "end"
                 PROVE  /\ i = Len(readQ') /\ reader = "done"
                        /\ readQ'[i].ok => nextRow = cfg.avail + 1
      OBVIOUS
    <3>1. i + 1 \in 1 .. Len(readQ) /\ readQ'[i] = readQ[i + 1] /\ i \in Nat
      BY <2>2
    <3>2. /\ i + 1 = Len(readQ) /\ reader = "done"
          /\ readQ[i + 1].ok => nextRow = cfg.avail + 1
      BY <3>1 DEF ReadEndsLast
    <3> QED BY <1>0, <2>2, <3>1, <3>2
  <2> QED BY <2>1, <2>3 DEF ReadEndsLast
<1>8. CASE StopReader
  <2>1. readQ' = <<>> /\ Len(<<>>) = 0 /\ UNCHANGED <<reader, nextRow, cfg>>
    BY <1>8 DEF StopReader, DropReceiver
  <2> QED BY <2>1 DEF ReadEndsLast
<1> QED BY <1>1, <1>2, <1>3, <1>4, <1>5, <1>6, <1>7, <1>8, SettingChanges, ReadChanges,
           ReaderChanges

\* A frame is received: what is left of it follows what the bank has learned.
LEMMA Received ==
  ASSUME IInv, BankFlow, ReadFlow, Receive
  PROVE  \E r, c \in 0 .. NRows :
           /\ r <= c /\ c <= nextRow - 1 /\ L = Larger(r, skipTo)
           /\ Flows(readQ', c, nextRow - 1)
           /\ Head(readQ).kind = "chunk" => Unlearned(Head(readQ).rows) = Span(L, c)
           /\ Head(readQ).kind = "end" => c = r
<1>1. PICK r \in 0 .. NRows : Flows(readQ, r, nextRow - 1) /\ L = Larger(r, skipTo)
  <2>1. pc = "recv"
    BY DEF Receive
  <2> QED BY <2>1 DEF ReadFlow, Feeding
<1>2. readQ \in Seq(Messages(Spans)) /\ readQ # <<>> /\ readQ' = Tail(readQ)
  BY DEF IInv, Shapes, ReadShape, Receive
<1>3. PICK c \in 0 .. NRows :
        /\ r <= c /\ c <= nextRow - 1 /\ Flows(Tail(readQ), c, nextRow - 1)
        /\ Head(readQ).kind = "chunk" => Head(readQ).rows = Span(r, c)
        /\ Head(readQ).kind = "end" => c = r
  BY <1>1, <1>2, FlowTaken
<1>4. r \in Nat /\ c \in Nat /\ skipTo \in Nat
  BY Bounded
<1>5. Unlearned(Span(r, c)) = Span(L, c)
  BY <1>1, <1>4, UnlearnedSpan
<1> QED BY <1>1, <1>2, <1>3, <1>5

LEMMA ReadFlowStep ==
  IInv /\ BankFlow /\ StateFlow /\ ReadEndsLast /\ ReadFlow /\ [Next]_vars => ReadFlow'
<1> SUFFICES ASSUME IInv, BankFlow, StateFlow, ReadEndsLast, ReadFlow, [Next]_vars
             PROVE  ReadFlow'
  OBVIOUS
<1> DEFINE Carries(q, n, l, at, c) ==
             \E r \in 0 .. NRows :
               /\ Flows(q, r, n - 1)
               /\ IF at = "augment" THEN skipTo <= l /\ l < r /\ c = Span(l, r)
                                    ELSE l = Larger(r, skipTo)
<1>0. /\ skipTo \in Nat /\ skipTo <= cfg.avail /\ L \in Nat
      /\ pc \in Feeding => Carries(readQ, nextRow, L, pc, chunk)
  BY Bounded, Positions DEF ReadFlow
<1>a. readQ \in Seq(Messages(Spans)) /\ nextRow \in Nat /\ cfg.avail \in 0 .. NRows
  BY Bounded DEF IInv, Shapes, ReadShape
<1>1. ASSUME UNCHANGED <<cfg, skipTo>>,
             pc' \in Feeding => Carries(readQ', nextRow', L', pc', chunk')
      PROVE  ReadFlow'
  BY <1>0, <1>1 DEF ReadFlow
<1> HIDE DEF Carries
<1>2. CASE StartRun
  <2>1. /\ readQ' = <<>> /\ nextRow' = 1 /\ pc' = "recv"
        /\ L' = skipTo' /\ L' \in Nat /\ L' <= cfg'.avail
    BY <1>2, Started DEF StartRun
  <2>2. 0 \in 0 .. NRows /\ Flows(<<>>, 0, 1 - 1)
    <3>1. 0 \in 0 .. NRows /\ 1 - 1 = 0
      BY Bounded
    <3>2. Flows(<<>>, 0, 0)
      BY <3>1, FlowEmpty
    <3> QED BY <3>1, <3>2
  <2>3. L' = Larger(0, skipTo')
    BY <2>1 DEF Larger
  <2> QED BY <2>1, <2>2, <2>3 DEF ReadFlow
<1>3. CASE Crash
  BY <1>1, <1>3 DEF Crash, Feeding
<1>4. CASE ReadChunk
  <2>1. PICK to \in nextRow .. cfg.avail :
          /\ readQ' = Append(readQ, Chunk(Span(nextRow - 1, to))) /\ nextRow' = to + 1
          /\ Chunk(Span(nextRow - 1, to)) \in Messages(Spans)
    BY <1>4, ChunkRead DEF IInv, Shapes
  <2>2. UNCHANGED <<bank, chunk, pc, cfg, skipTo>> /\ L' = L
    BY <1>4 DEF ReadChunk, model, main, L
  <2>3. ASSUME NEW r \in 0 .. NRows, Flows(readQ, r, nextRow - 1)
        PROVE  Flows(readQ', r, nextRow' - 1)
    <3>1. to \in 0 .. NRows /\ nextRow - 1 <= to /\ nextRow' - 1 = to
      BY <1>a, <2>1, Bounded
    <3>2. /\ Chunk(Span(nextRow - 1, to)).kind = "chunk"
          /\ Chunk(Span(nextRow - 1, to)).rows = Span(nextRow - 1, to)
      BY DEF Chunk
    <3> QED BY <1>a, <2>1, <2>3, <3>1, <3>2, FlowSent
  <2> QED BY <1>0, <1>1, <2>2, <2>3 DEF Carries
<1>5. CASE ReadSendsEnd
  <2>1. /\ readQ' = Append(readQ, End(reader = "end_ok")) /\ nextRow' = nextRow
        /\ UNCHANGED <<bank, chunk, pc, cfg, skipTo>> /\ L' = L
    BY <1>5 DEF ReadSendsEnd, model, main, L
  <2>2. ASSUME NEW r \in 0 .. NRows, Flows(readQ, r, nextRow - 1)
        PROVE  Flows(readQ', r, nextRow' - 1)
    <3>1. nextRow - 1 \in 0 .. NRows /\ nextRow - 1 <= nextRow - 1
      BY <1>a, <2>2, FlowEnds
    <3>2. End(reader = "end_ok") \in Messages(Spans) /\ End(reader = "end_ok").kind = "end"
      BY EndIsMessage DEF End
    <3> QED BY <1>a, <2>1, <2>2, <3>1, <3>2, FlowSent
  <2> QED BY <1>0, <1>1, <2>1, <2>2 DEF Carries
<1>6. CASE Receive
  <2>1. PICK r \in 0 .. NRows, c \in 0 .. NRows :
          /\ r <= c /\ L = Larger(r, skipTo) /\ Flows(readQ', c, nextRow - 1)
          /\ Head(readQ).kind = "chunk" => Unlearned(Head(readQ).rows) = Span(L, c)
          /\ Head(readQ).kind = "end" => c = r
    BY <1>6, Received
  <2>2. UNCHANGED <<bank, nextRow, cfg, skipTo>> /\ L' = L
    BY <1>6 DEF Receive, model, L
  <2>3. r \in Nat /\ c \in Nat /\ skipTo <= L
    BY <1>0, <2>1 DEF Larger
  <2>4. CASE Head(readQ).kind = "chunk" /\ chunk' = Unlearned(Head(readQ).rows)
             /\ pc' = IF chunk' = <<>> THEN "recv" ELSE "augment"
    <3>1. chunk' = Span(L, c) /\ (chunk' = <<>> <=> c <= L)
      BY <1>0, <2>1, <2>3, <2>4, SpanEmpty
    <3>2. CASE chunk' = <<>>
      <4>1. L = Larger(c, skipTo)
        BY <1>0, <2>1, <2>3, <3>1, <3>2 DEF Larger
      <4> QED BY <1>1, <2>1, <2>2, <2>4, <3>2, <4>1 DEF Carries
    <3>3. CASE chunk' # <<>>
      <4>1. L < c
        BY <1>0, <2>3, <3>1, <3>3
      <4> QED BY <1>1, <2>1, <2>2, <2>3, <2>4, <3>1, <3>3, <4>1 DEF Carries
    <3> QED BY <3>2, <3>3
  <2>5. CASE Head(readQ).kind = "end" /\ pc' = "ended"
    BY <1>1, <2>1, <2>2, <2>5 DEF Carries
  <2>6. CASE pc' = "stop"
    BY <1>1, <2>2, <2>6 DEF Feeding
  <2> QED BY <1>6, <2>4, <2>5, <2>6 DEF Receive, Fails
<1>7. CASE Augment /\ pc' = "deliver"
  <2>1. PICK r \in 0 .. NRows :
          /\ skipTo <= L /\ L < r /\ Flows(readQ, r, nextRow - 1) /\ L' = r
    BY <1>7, Augmented
  <2>2. UNCHANGED <<readQ, nextRow, cfg, skipTo>>
    BY <1>7 DEF Augment, reading
  <2>3. r = Larger(r, skipTo)
    BY <1>0, <2>1 DEF Larger
  <2> QED BY <1>1, <1>7, <2>1, <2>2, <2>3 DEF Carries
<1>8. CASE /\ pc' \in Feeding => pc \in Feeding /\ pc # "augment" /\ pc' # "augment"
           /\ L' = L /\ UNCHANGED <<readQ, nextRow, cfg, skipTo>>
  BY <1>0, <1>1, <1>8 DEF Carries
<1>9. CASE UNCHANGED <<pc, readQ, nextRow, cfg, skipTo, chunk>> /\ L' = L
  BY <1>0, <1>1, <1>9
<1>10. CASE ReadEnds \/ ReadGivesUp
  BY <1>9, <1>10 DEF ReadEnds, ReadGivesUp, main, model, L
<1>11. CASE \E w \in Writers : Writer(w)
  <2>1. UNCHANGED <<pc, readQ, nextRow, cfg, skipTo, chunk, bank>>
    BY <1>11 DEF Writer, WriterFails, WriterCreates, WriterReceives, WriterWrites,
       WriterDiscards, WriterPublishes, main, reading, model
  <2> QED BY <1>9, <2>1 DEF L
<1>12. CASE Main /\ ~Receive /\ ~(Augment /\ pc' = "deliver")
  <2>1. CASE Drain
    <3>1. L' = L /\ UNCHANGED <<readQ, nextRow, cfg, skipTo>>
      BY <2>1, Drained DEF Drain, reading
    <3>2. pc \in Feeding /\ pc # "augment" /\ pc' # "augment"
      BY <2>1 DEF Drain, Feeding
    <3> QED BY <1>8, <3>1, <3>2
  <2>2. CASE Augment
    BY <1>8, <1>12, <2>2 DEF Augment, Fails, reading, L, Feeding
  <2>3. CASE ~Drain /\ ~Augment
    <3>1. /\ pc' \in Feeding => pc \in Feeding /\ pc # "augment" /\ pc' # "augment"
          /\ UNCHANGED <<bank, cfg, skipTo>>
      BY <1>12, <2>3 DEF Main, Fails, disk, writing, model, AugmentEmpty, reading,
         Deliver, SendClosed, Progress, StopReader, EndClosed, EndWriter,
         EndOut, JoinClosed, JoinOut, NoWriter, ScopeEnds, Save, Feeding
    <3>2. pc' \in Feeding => UNCHANGED <<readQ, nextRow>>
      BY <1>12, <2>3 DEF Main, Fails, disk, writing, model, AugmentEmpty, reading,
         Deliver, SendClosed, Progress, StopReader, EndClosed, EndWriter,
         EndOut, JoinClosed, JoinOut, NoWriter, ScopeEnds, Save, Feeding
    <3> QED BY <1>0, <1>1, <3>1, <3>2 DEF Carries, L
  <2> QED BY <2>1, <2>2, <2>3
<1>13. CASE UNCHANGED vars
  BY <1>9, <1>13 DEF vars, main, reading, model, L
<1> QED BY <1>2, <1>3, <1>4, <1>5, <1>6, <1>7, <1>10, <1>11, <1>12, <1>13
           DEF Next, Reader, Finished

LEMMA AllLearnedStep ==
  IInv /\ BankFlow /\ ReadEndsLast /\ ReadFlow /\ AllLearned /\ [Next]_vars => AllLearned'
<1> SUFFICES ASSUME IInv, BankFlow, ReadEndsLast, ReadFlow, AllLearned, [Next]_vars
             PROVE  AllLearned'
  OBVIOUS
<1> USE DEF Learning
<1>1. CASE /\ UNCHANGED cfg /\ L' = L
           /\ result' = "ok" /\ pc' \notin Learning \cup {"idle"} =>
                result = "ok" /\ pc \notin Learning \cup {"idle"}
  BY <1>1 DEF AllLearned
<1>2. CASE StartRun \/ Crash
  BY <1>2 DEF StartRun, Crash, AllLearned
<1>3. CASE Receive
  <2>1. CASE Head(readQ).kind = "end" /\ Head(readQ).ok
    <3>1. PICK r \in 0 .. NRows : L = Larger(r, skipTo) /\ Flows(readQ', r, nextRow - 1)
      BY <1>3, <2>1, Received
    <3>2. readQ \in Seq(Messages(Spans)) /\ readQ # <<>> /\ readQ' = Tail(readQ)
      BY <1>3 DEF IInv, Shapes, ReadShape, Receive
    <3>3. 1 \in 1 .. Len(readQ) /\ Head(readQ) = readQ[1]
      BY <3>2
    <3>4. Len(readQ) = 1 /\ nextRow = cfg.avail + 1
      BY <2>1, <3>3 DEF ReadEndsLast
    <3>5. readQ' = <<>>
      BY <3>2, <3>4
    <3>6. r = nextRow - 1
      BY <3>1, <3>5, FlowEmpty
    <3>7. L = cfg.avail
      BY <3>1, <3>4, <3>6, Bounded DEF Larger, ReadFlow
    <3> QED BY <1>3, <3>7 DEF Receive, model, AllLearned, L
  <2>2. CASE ~(Head(readQ).kind = "end" /\ Head(readQ).ok)
    BY <1>3, <2>2 DEF Receive, Fails, AllLearned
  <2> QED BY <2>1, <2>2
<1>4. CASE Augment
  BY <1>4 DEF Augment, Fails, AllLearned
<1>5. CASE Drain
  <2>1. L' = L
    BY <1>5, Drained
  <2> QED BY <1>1, <1>5, <2>1 DEF Drain
<1>6. CASE Reader \/ (\E w \in Writers : Writer(w)) \/ UNCHANGED vars
  <2>1. UNCHANGED <<pc, result, bank, cfg>>
    BY <1>6 DEF Reader, ReadChunk, ReadEnds, ReadSendsEnd, ReadGivesUp, Writer, WriterFails,
       WriterCreates, WriterReceives, WriterWrites, WriterDiscards, WriterPublishes, main,
       reading, model, vars
  <2> QED BY <1>1, <2>1 DEF L
<1>7. CASE Main /\ ~Receive /\ ~Augment /\ ~Drain
  <2>1. /\ UNCHANGED <<bank, cfg>>
        /\ result' = "ok" /\ pc' \notin Learning \cup {"idle"} =>
             result = "ok" /\ pc \notin Learning \cup {"idle"}
    BY <1>7 DEF Main, Fails, disk, writing, model, AugmentEmpty, reading,
         Deliver, SendClosed, Progress, StopReader, DropReceiver, EndClosed, EndWriter,
         EndOut, JoinClosed, JoinOut, NoWriter, ScopeEnds, Save
  <2> QED BY <1>1, <2>1 DEF L
<1> QED BY <1>2, <1>3, <1>4, <1>5, <1>6, <1>7 DEF Next, Finished

LEMMA HeldFlowStep ==
  IInv /\ BankFlow /\ ReadEndsLast /\ ReadFlow /\ HeldFlow /\ [Next]_vars => HeldFlow'
<1> SUFFICES ASSUME IInv, BankFlow, ReadEndsLast, ReadFlow, HeldFlow, [Next]_vars
             PROVE  HeldFlow'
  OBVIOUS
<1>1. CASE UNCHANGED <<pc, chunk, drained, sidecar, bank>>
  BY <1>1 DEF HeldFlow, L, G, Closed, GroupOf
<1>2. CASE StartRun \/ Crash
  BY <1>2, EmptySpan DEF StartRun, Crash, HeldFlow
<1>3. CASE Augment /\ pc' = "deliver"
  <2>1. PICK r \in 0 .. NRows : L < r /\ chunk = Span(L, r) /\ L' = r
    BY <1>3, Augmented
  <2>2. L \in Nat /\ r \in Nat /\ L <= r /\ r - (r - L) = L /\ r - L <= r
    BY <2>1, Positions, Bounded
  <2>3. Len(chunk) = r - L
    BY <2>1, <2>2, SpanLen
  <2>4. UNCHANGED <<chunk, drained>>
    BY <1>3 DEF Augment
  <2> QED BY <1>3, <2>1, <2>2, <2>3, <2>4 DEF HeldFlow
<1>4. CASE Drain
  <2>1. pc' \notin {"deliver", "deliver_empty"}
    BY <1>4 DEF Drain
  <2>2. CASE cfg.closed /\ (pc = "drain" \/ ~closedSent)
    <3>1. drained' = bank.queue /\ sidecar' = sidecar \o bank.queue
      BY <1>4, <2>2 DEF Drain
    <3>2. bank.queue = Span(G, Closed(L)) /\ G' = Closed(L)
      <4>1. bank.queue = Span(G, Closed(L))
        BY DEF BankFlow
      <4>2. CASE UNCHANGED <<bank, drained, sidecar>> /\ G' = G
        <5>1. bank.queue = <<>>
          BY <1>4, <2>2, <4>2, DrainedBank DEF Drain, IInv, Shapes, BankShape
        <5>2. G = Closed(L)
          <6>1. Len(<<>>) = 0
            OBVIOUS
          <6> QED BY <5>1, <6>1, Positions, Bounded
        <5> QED BY <4>1, <4>2, <5>2
      <4> QED BY <1>4, <4>1, <4>2, Drained
    <3>3. /\ Closed(L) \in 0 .. NRows /\ G \in 0 .. NRows /\ Len(bank.queue) = Closed(L) - G
          /\ Len(sidecar) \in Nat
      BY Positions, Bounded
    <3>4. Len(sidecar') = Len(sidecar) + Len(bank.queue)
      BY <3>1, Bounded, ConcatProperties
    <3>5. drained' \in Spans
      BY <3>1, <3>2, <3>3 DEF Spans
    <3>6. G' - Len(drained') = G /\ Len(drained') <= Len(sidecar')
      BY <3>1, <3>2, <3>3, <3>4, Bounded
    <3> QED BY <2>1, <3>1, <3>2, <3>5, <3>6 DEF HeldFlow
  <2>3. CASE ~(cfg.closed /\ (pc = "drain" \/ ~closedSent))
    BY <1>4, <2>1, <2>3 DEF Drain, HeldFlow
  <2> QED BY <2>2, <2>3
<1>5. CASE AugmentEmpty
  BY <1>5 DEF AugmentEmpty, Fails, HeldFlow
<1>6. CASE Reader \/ (\E w \in Writers : Writer(w)) \/ UNCHANGED vars
  BY <1>1, <1>6 DEF Reader, ReadChunk, ReadEnds, ReadSendsEnd, ReadGivesUp, Writer, WriterFails,
       WriterCreates, WriterReceives, WriterWrites, WriterDiscards, WriterPublishes, main,
       reading, model, vars
<1>7. CASE Main /\ ~(Augment /\ pc' = "deliver") /\ ~Drain /\ ~AugmentEmpty
  <2>1. /\ UNCHANGED drained
        /\ pc' \notin {"deliver", "deliver_empty", "send_closed", "send_last_closed"}
    BY <1>7 DEF Main, Fails, disk, writing, model, Receive, Augment, reading,
         Deliver, SendClosed, Progress, StopReader, DropReceiver, EndClosed, EndWriter,
         EndOut, JoinClosed, JoinOut, NoWriter, ScopeEnds, Save
  <2> QED BY <2>1 DEF HeldFlow
<1> QED BY <1>2, <1>3, <1>4, <1>5, <1>6, <1>7 DEF Next, Finished

-----------------------------------------------------------------------------
(* What the writers receive and write.                                     *)

\* A message sent to a writer is the next that its channel carries.
LEMMA RowsSent ==
  ASSUME IInv, NEW v \in Writers, NEW m \in Messages(Seq(Nat)),
         writeQ' = [writeQ EXCEPT ![v] = Append(@, m)],
         NEW a, NEW b, Flows(writeQ[v], a, b), NEW c \in 0 .. NRows, b <= c,
         m.kind = "chunk" => m.rows = Span(b, c), m.kind = "end" => b = c
  PROVE  Flows(writeQ'[v], a, c) /\ \A u \in Writers : u # v => writeQ'[u] = writeQ[u]
<1>1. writeQ[v] \in Seq(Messages(Seq(Nat))) /\ writeQ'[v] = Append(writeQ[v], m)
  BY DEF IInv, Shapes, WriteShape
<1>2. \A u \in Writers : u # v => writeQ'[u] = writeQ[u]
  BY DEF IInv, Shapes, WriteShape
<1> QED BY <1>1, <1>2, FlowSent

\* What a writer receives follows what it has written.
LEMMA RowsTaken ==
  ASSUME IInv, NEW w \in Writers, WriterReceives(w), NEW a \in Nat, NEW to \in 0 .. NRows,
         a <= to, buf[w] = Span(a, to), NEW d, Flows(writeQ[w], to, d)
  PROVE  \E c \in 0 .. NRows :
           to <= c /\ c <= d /\ buf'[w] = Span(a, c) /\ Flows(writeQ'[w], c, d)
<1> DEFINE q == writeQ[w]
<1>1. q \in Seq(Messages(Seq(Nat))) /\ q # <<>>
  BY DEF IInv, Shapes, WriteShape, WriterReceives
<1>2. PICK c \in 0 .. NRows :
        /\ to <= c /\ c <= d /\ Flows(Tail(q), c, d)
        /\ Head(q).kind = "chunk" => Head(q).rows = Span(to, c)
        /\ Head(q).kind = "end" => c = to
  BY <1>1, FlowTaken
<1>3. Head(q).kind \in {"chunk", "end"}
  BY <1>1, QueueGivesMessage DEF Messages, IInv, Shapes, WriteShape
<1>4. /\ writeQ'[w] = Tail(q)
      /\ buf'[w] = IF Head(q).kind = "end" THEN buf[w] ELSE buf[w] \o Head(q).rows
  BY DEF WriterReceives, IInv, Shapes, WriteShape
<1>5. buf'[w] = Span(a, c)
  <2>1. to \in Nat /\ c \in Nat
    BY Bounded
  <2>2. Span(a, to) \o Span(to, c) = Span(a, c)
    BY <1>2, <2>1, SpanConcat
  <2> HIDE DEF q
  <2> QED BY <1>2, <1>3, <1>4, <2>2
<1> QED BY <1>2, <1>4, <1>5

LEMMA OutPlace ==
  ASSUME IInv, OutFlow
  PROVE  /\ skipTo \in Nat /\ Len(buf["out"]) \in Nat
         /\ skipTo + Len(buf["out"]) \in 0 .. NRows
<1>1. buf["out"] \in Seq(Nat)
  BY DEF IInv, Shapes, WriteShape, Writers
<1>2. Len(buf["out"]) \in Nat /\ skipTo \in Nat
  BY <1>1, Bounded
<1> QED BY <1>2, Bounded DEF OutFlow

LEMMA OutFlowStep ==
  /\ IInv /\ BankFlow /\ StateFlow /\ ReadEndsLast /\ ReadFlow /\ HeldFlow /\ OutFlow
  /\ [Next]_vars
  => OutFlow'
<1> SUFFICES ASSUME IInv, BankFlow, StateFlow, ReadEndsLast, ReadFlow, HeldFlow, OutFlow,
                    [Next]_vars
             PROVE  OutFlow'
  OBVIOUS
<1> DEFINE to == skipTo + Len(buf["out"])
           Sent(q, t, l, good, d) == Flows(q, t, d) /\ (good => d = l)
<1>0. /\ to <= NRows /\ buf["out"] = Span(skipTo, to) /\ L \in 0 .. NRows
      /\ WriterLive("out") =>
           \E d \in 0 .. L : Sent(writeQ["out"], to, Delivered, result = "ok", d)
  BY Positions DEF OutFlow
<1>a. "out" \in Writers /\ "closed" \in Writers
  BY DEF Writers
<1>1. ASSUME skipTo' = skipTo, buf'["out"] = buf["out"],
             WriterLive("out")' =>
               \E d \in 0 .. L' : Sent(writeQ'["out"], to, Delivered', result' = "ok", d)
      PROVE  OutFlow'
  <2>1. to' = to
    BY <1>1
  <2> HIDE DEF to
  <2> QED BY <1>0, <1>1, <2>1 DEF OutFlow, to
<1>2. ASSUME skipTo' = skipTo, buf'["out"] = buf["out"], writeQ'["out"] = writeQ["out"],
             WriterLive("out")' => WriterLive("out"),
             L' \in Nat, L <= L', result' = "ok" => result = "ok" /\ Delivered' = Delivered
      PROVE  OutFlow'
  <2>1. \A d \in 0 .. L : d \in 0 .. L'
    BY <1>0, <1>2
  <2> HIDE DEF to
  <2>2. \A d : Sent(writeQ["out"], to, Delivered, result = "ok", d)
                 => Sent(writeQ'["out"], to, Delivered', result' = "ok", d)
    BY <1>2
  <2> QED BY <1>0, <1>1, <1>2, <2>1, <2>2
<1> HIDE DEF to, Sent
<1>3. CASE StartRun
  <2>1. /\ writeQ'["out"] = <<>> /\ buf'["out"] = <<>> /\ Len(<<>>) = 0 /\ pc' = "recv"
    BY <1>3, <1>a DEF StartRun
  <2>2. /\ L' = skipTo' /\ skipTo' \in 0 .. NRows
    <3>1. cfg'.avail <= NRows
      BY <1>3, Bounded DEF StartRun
    <3>2. L' \in Nat /\ L' = skipTo' /\ L' <= cfg'.avail /\ cfg'.avail \in Nat
      BY <1>3, Started
    <3> QED BY <3>1, <3>2, Bounded
  <2>3. Delivered' = L'
    BY <2>1 DEF Delivered
  <2>4. Flows(<<>>, skipTo', skipTo') /\ Span(skipTo', skipTo') = <<>>
    BY <2>2, FlowEmpty, SpanEmpty
  <2>5. skipTo' + 0 = skipTo' /\ L' \in 0 .. L'
    <3>1. skipTo' \in Nat /\ L' \in Nat
      BY <2>2, Bounded
    <3>2. \A n \in Nat : n + 0 = n
      OBVIOUS
    <3>3. L' \in 0 .. L'
      BY <3>1
    <3> QED BY <3>1, <3>2, <3>3
  <2> QED BY <2>1, <2>2, <2>3, <2>4, <2>5 DEF OutFlow
<1>4. CASE Crash
  <2>1. writer'["out"] = "absent" /\ buf'["out"] = <<>> /\ Len(<<>>) = 0 /\ skipTo' = skipTo
    BY <1>4, <1>a DEF Crash
  <2>2. Span(skipTo, skipTo) = <<>> /\ skipTo + 0 = skipTo /\ skipTo <= NRows
    BY Bounded, SpanEmpty
  <2> QED BY <2>1, <2>2 DEF OutFlow, WriterLive
<1>5. CASE WriterReceives("out")
  <2>1. WriterLive("out")
    BY <1>5 DEF WriterReceives, WriterLive
  <2>2. PICK d \in 0 .. L : Sent(writeQ["out"], to, Delivered, result = "ok", d)
    BY <1>0, <2>1
  <2>3. skipTo \in Nat /\ to \in 0 .. NRows /\ skipTo <= to /\ NRows \in Nat
    BY OutPlace, Bounded DEF to
  <2>4. PICK c \in 0 .. NRows :
          to <= c /\ c <= d /\ buf'["out"] = Span(skipTo, c) /\ Flows(writeQ'["out"], c, d)
    <3>1. Flows(writeQ["out"], to, d) /\ buf["out"] = Span(skipTo, to)
      BY <1>0, <2>2 DEF Sent
    <3> QED BY <1>5, <1>a, <2>3, <3>1, RowsTaken
  <2>5. Len(buf'["out"]) = c - skipTo /\ skipTo + Len(buf'["out"]) = c
    <3>1. c \in Nat /\ skipTo <= c
      BY <2>3, <2>4
    <3> QED BY <2>3, <2>4, <3>1, SpanLen
  <2>6. UNCHANGED <<skipTo, bank, pc, chunk, result>>
    BY <1>5 DEF WriterReceives, model, main
  <2>7. L' = L /\ Delivered' = Delivered
    BY <2>6 DEF L, Delivered
  <2>8. result = "ok" => d = Delivered
    BY <2>2 DEF Sent
  <2>9. c <= NRows
    BY <2>3
  <2> QED BY <2>4, <2>5, <2>6, <2>7, <2>8, <2>9 DEF OutFlow
<1>6. ASSUME NEW w \in Writers, Writer(w), ~WriterReceives("out") PROVE OutFlow'
  <2>1. UNCHANGED <<skipTo, bank, pc, chunk, result>>
    BY <1>6 DEF Writer, WriterFails, WriterCreates, WriterReceives, WriterWrites, WriterDiscards,
       WriterPublishes, model, main
  <2>2. buf'["out"] = buf["out"] /\ writeQ'["out"] = writeQ["out"]
    <3>1. CASE WriterReceives(w)
      <4>1. w = "closed"
        BY <1>6, <3>1 DEF Writers
      <4> QED BY <3>1, <4>1, <1>a DEF WriterReceives, IInv, Shapes, WriteShape
    <3>2. CASE ~WriterReceives(w)
      BY <1>6, <3>2 DEF Writer, WriterFails, WriterCreates, WriterWrites, WriterDiscards,
         WriterPublishes
    <3> QED BY <3>1, <3>2
  <2>3. WriterLive("out")' => WriterLive("out")
    <3>1. writer'["out"] # writer["out"] => WriterLive("out")
      <4>1. \A u \in Writers : u # w => writer'[u] = writer[u]
        BY <1>6 DEF Writer, WriterFails, WriterCreates, WriterReceives, WriterWrites,
           WriterDiscards, WriterPublishes, IInv, Shapes, ThreadShape
      <4>2. WriterLive(w)
        BY <1>6 DEF Writer, WriterFails, WriterCreates, WriterReceives, WriterWrites,
           WriterDiscards, WriterPublishes, WriterLive
      <4> QED BY <4>1, <4>2, <1>a
    <3> QED BY <3>1 DEF WriterLive
  <2>4. L' = L /\ Delivered' = Delivered
    BY <2>1 DEF L, Delivered
  <2> QED BY <1>0, <1>2, <2>1, <2>2, <2>3, <2>4
<1>7. CASE Deliver
  <2>1. UNCHANGED <<skipTo, buf, writer, bank, chunk>> /\ L' = L /\ pc' # "deliver"
    BY <1>7 DEF Deliver, Fails, model, L
  <2>2. Delivered' = L
    BY <2>1 DEF Delivered
  <2>3. CASE ~WriterLive("out")
    BY <1>1, <2>1, <2>3 DEF WriterLive
  <2>4. CASE WriterLive("out")
    <3>1. PICK d \in 0 .. L : Sent(writeQ["out"], to, Delivered, result = "ok", d)
      BY <1>0, <2>4
    <3>2. cfg.out = "file"
      BY <1>7, <2>4, <1>a DEF Deliver, WriterLive, IInv, Control, Present
    <3>3. writeQ' = [writeQ EXCEPT !["out"] = Append(@, Chunk(chunk))] /\ result' = result
      BY <1>7, <2>4, <3>2 DEF Deliver
    <3>4. d = Delivered
      BY <1>7, <3>1 DEF Sent, IInv, Control, OkSoFar, Deliver, Feeding
    <3>5. chunk = Span(d, L) /\ d <= L /\ d \in Nat /\ L \in Nat
      <4>1. d <= L /\ d \in Nat /\ L \in Nat
        BY <3>1, <1>0, Bounded
      <4>2. CASE pc = "deliver"
        BY <3>4, <4>1, <4>2 DEF HeldFlow, Delivered
      <4>3. CASE pc = "deliver_empty"
        <5>1. Span(L, L) = <<>>
          BY <4>1, SpanEmpty
        <5> QED BY <3>4, <4>1, <4>3, <5>1 DEF HeldFlow, Delivered
      <4> QED BY <1>7, <4>1, <4>2, <4>3 DEF Deliver
    <3>6. Flows(writeQ'["out"], to, L)
      <4>1. chunk \in Seq(Nat)
        BY SpanOfRows, RunnerAssumption DEF IInv, Shapes, BankShape, Rows
      <4>2. /\ Chunk(chunk) \in Messages(Seq(Nat)) /\ Chunk(chunk).kind = "chunk"
            /\ Chunk(chunk).rows = chunk
        BY <4>1, ChunkIsMessage DEF Chunk
      <4>3. Flows(writeQ["out"], to, d)
        BY <3>1 DEF Sent
      <4> QED BY <1>0, <1>a, <3>3, <3>5, <4>2, <4>3, RowsSent
    <3>7. L \in 0 .. L'
      BY <2>1, <3>5
    <3> QED BY <1>1, <2>1, <2>2, <3>6, <3>7 DEF Sent
  <2> QED BY <2>3, <2>4
<1>8. CASE EndOut
  <2>1. UNCHANGED <<skipTo, buf, writer, bank, chunk, result>> /\ L' = L
    BY <1>8 DEF EndOut, EndWriter, model, L
  <2>2. Delivered' = Delivered
    BY <1>8, <2>1 DEF Delivered, EndOut, EndWriter
  <2>3. CASE UNCHANGED writeQ
    BY <1>0, <1>2, <2>1, <2>2, <2>3 DEF WriterLive
  <2>4. CASE /\ WriterLive("out")
             /\ writeQ' = [writeQ EXCEPT !["out"] = Append(@, End(TRUE))]
    <3>1. PICK d \in 0 .. L : Sent(writeQ["out"], to, Delivered, result = "ok", d)
      BY <1>0, <2>4
    <3>2. End(TRUE) \in Messages(Seq(Nat)) /\ End(TRUE).kind = "end"
      BY EndIsMessage DEF End
    <3>3. Flows(writeQ["out"], to, d) /\ d \in 0 .. NRows /\ d <= d
      BY <1>0, <3>1, Bounded DEF Sent
    <3>4. Flows(writeQ'["out"], to, d)
      BY <1>a, <2>4, <3>2, <3>3, RowsSent
    <3>5. Sent(writeQ'["out"], to, Delivered', result' = "ok", d)
      BY <2>1, <2>2, <3>1, <3>4 DEF Sent
    <3> QED BY <1>1, <2>1, <3>5
  <2> QED BY <1>8, <2>3, <2>4 DEF EndOut, EndWriter
<1>9. CASE Augment /\ pc' = "deliver"
  <2>1. PICK r \in 0 .. NRows : L < r /\ chunk = Span(L, r) /\ L' = r
    BY <1>9, Augmented
  <2>2. UNCHANGED <<skipTo, buf, writer, writeQ, chunk>> /\ pc = "augment"
    BY <1>9 DEF Augment, writing
  <2>3. L \in Nat /\ r \in Nat /\ L <= r /\ r - (r - L) = L
    BY <2>1, Positions, Bounded
  <2>4. Len(chunk) = r - L
    BY <2>1, <2>3, SpanLen
  <2>5. Delivered' = L /\ Delivered = L
    BY <1>9, <2>1, <2>2, <2>3, <2>4 DEF Delivered
  <2>6. result' = result
    BY <1>9 DEF Augment, Fails
  <2> QED BY <1>2, <2>1, <2>2, <2>3, <2>5, <2>6 DEF WriterLive
<1>10. CASE Drain
  <2>1. L' = L /\ UNCHANGED <<skipTo, buf, writer, writeQ, result>> 
    BY <1>10, Drained DEF Drain, writing
  <2>2. Delivered' = L /\ Delivered = L
    BY <1>10, <2>1 DEF Delivered, Drain
  <2> QED BY <1>0, <1>2, <2>1, <2>2 DEF WriterLive
<1>11. CASE Main /\ ~Deliver /\ ~EndOut /\ ~(Augment /\ pc' = "deliver") /\ ~Drain
  <2>1. /\ UNCHANGED <<skipTo, buf, writer, bank>>
        /\ result' = "ok" => result = "ok" /\ pc # "deliver" /\ pc' # "deliver"
    BY <1>11 DEF Main, Fails, disk, writing, model, Receive, Augment, AugmentEmpty, reading,
         SendClosed, Progress, StopReader, DropReceiver, EndClosed, EndWriter,
         JoinClosed, JoinOut, NoWriter, ScopeEnds, Save
  <2>2. writeQ'["out"] = writeQ["out"]
    <3>1. UNCHANGED writeQ \/ \E m : writeQ' = [writeQ EXCEPT !["closed"] = m]
      BY <1>11 DEF Main, Fails, disk, writing, model, Receive, Augment, AugmentEmpty, reading,
         SendClosed, Progress, StopReader, DropReceiver, EndClosed, EndWriter,
         JoinClosed, JoinOut, NoWriter, ScopeEnds, Save
    <3> QED BY <3>1, <1>a DEF IInv, Shapes, WriteShape
  <2>3. L' = L
    BY <2>1 DEF L
  <2>4. result' = "ok" => Delivered' = Delivered
    BY <2>1, <2>3 DEF Delivered
  <2> QED BY <1>0, <1>2, <2>1, <2>2, <2>3, <2>4 DEF WriterLive
<1>12. CASE Reader \/ UNCHANGED vars
  <2>1. UNCHANGED <<skipTo, bank, pc, chunk, result, buf, writer, writeQ>>
    BY <1>12 DEF Reader, ReadChunk, ReadEnds, ReadSendsEnd, ReadGivesUp, writing, model, main, vars
  <2>2. L' = L /\ Delivered' = Delivered
    BY <2>1 DEF L, Delivered
  <2> QED BY <1>0, <1>2, <2>1, <2>2 DEF WriterLive
<1> QED BY <1>3, <1>4, <1>5, <1>6, <1>7, <1>8, <1>9, <1>10, <1>11, <1>12 DEF Next, Finished

LEMMA ClosedPlace ==
  ASSUME IInv, BankFlow, HeldFlow, ClosedFlow
  PROVE  LET to == G0 + Len(buf["closed"])
         IN  /\ G0 \in Nat /\ G \in 0 .. NRows /\ to \in G0 .. G /\ to \in 0 .. NRows
             /\ Handed \in 0 .. G
<1>1. buf["closed"] \in Seq(Nat)
  BY DEF IInv, Shapes, WriteShape, Writers
<1>2. Len(buf["closed"]) \in Nat
  BY <1>1
<1>3. G0 \in Nat /\ G \in 0 .. NRows
  BY Positions, Bounded
<1>4. Handed \in 0 .. G
  <2>1. CASE pc \in {"send_closed", "send_last_closed"}
    <3>1. drained \in Seq(Nat) /\ Len(drained) <= Len(sidecar)
      BY <2>1 DEF HeldFlow, IInv, Shapes, BankShape
    <3>2. Len(drained) \in Nat
      BY <3>1
    <3>3. Len(sidecar) = G - G0 /\ G \in Nat
      BY Positions, Bounded
    <3>4. G - Len(drained) \in 0 .. G
      BY <1>3, <3>1, <3>2, <3>3
    <3> QED BY <2>1, <3>4 DEF Handed
  <2>2. CASE pc \notin {"send_closed", "send_last_closed"}
    <3>1. G \in 0 .. G
      BY <1>3, Bounded
    <3> QED BY <2>2, <3>1 DEF Handed
  <2> QED BY <2>1, <2>2
<1>5. G0 + Len(buf["closed"]) \in G0 .. G /\ G0 + Len(buf["closed"]) \in 0 .. NRows
  BY <1>2, <1>3, Bounded DEF ClosedFlow
<1> QED BY <1>3, <1>4, <1>5

LEMMA ClosedFlowStep ==
  /\ IInv /\ BankFlow /\ StateFlow /\ ReadEndsLast /\ ReadFlow /\ HeldFlow /\ ClosedFlow
  /\ [Next]_vars
  => ClosedFlow'
<1> SUFFICES ASSUME IInv, BankFlow, StateFlow, ReadEndsLast, ReadFlow, HeldFlow, ClosedFlow,
                    [Next]_vars
             PROVE  ClosedFlow'
  OBVIOUS
<1> DEFINE to == G0 + Len(buf["closed"])
<1>0. /\ to \in 0 .. NRows /\ to <= G /\ G0 <= to /\ G0 \in Nat /\ G \in 0 .. NRows
      /\ Handed \in 0 .. G /\ buf["closed"] = Span(G0, to)
      /\ WriterLive("closed") => Flows(writeQ["closed"], to, Handed)
  BY ClosedPlace DEF ClosedFlow
<1>a. "out" \in Writers /\ "closed" \in Writers
  BY DEF Writers
<1>1. ASSUME G0' = G0, buf'["closed"] = buf["closed"], G' \in Nat, G <= G',
             WriterLive("closed")' => Flows(writeQ'["closed"], to, Handed')
      PROVE  ClosedFlow'
  <2>1. to' = to
    BY <1>1
  <2>2. to <= G'
    <3> HIDE DEF to
    <3> QED BY <1>0, <1>1, Bounded
  <2> HIDE DEF to
  <2> QED BY <1>0, <1>1, <2>1, <2>2 DEF ClosedFlow, to
<1>2. ASSUME G0' = G0, G' = G, buf'["closed"] = buf["closed"],
             writeQ'["closed"] = writeQ["closed"],
             WriterLive("closed")' => WriterLive("closed"), Handed' = Handed
      PROVE  ClosedFlow'
  <2>1. G' \in Nat /\ G <= G'
    BY <1>0, <1>2, Bounded
  <2> QED BY <1>0, <1>1, <1>2, <2>1
<1> HIDE DEF to
<1>b. UNCHANGED <<bank, sidecar>> => L' = L /\ G' = G /\ G0' = G0
  BY DEF L, G, G0, Closed, GroupOf
<1>3. CASE StartRun \/ Crash
  <2>1. /\ buf'["closed"] = <<>> /\ Len(<<>>) = 0 /\ pc' \in {"recv", "idle"} /\ sidecar' = <<>>
        /\ WriterLive("closed")' => writeQ'["closed"] = <<>>
    BY <1>3, <1>a DEF StartRun, Crash, WriterLive
  <2>2. G' = G0' /\ G' \in 0 .. NRows
    <3>1. CASE StartRun
      <4>0. cfg'.avail <= NRows
        BY <3>1, Bounded DEF StartRun
      <4>1. /\ L' \in Nat /\ L' <= cfg'.avail /\ cfg'.avail \in Nat
            /\ Len(bank'.queue) \in Nat /\ Len(bank'.queue) <= Closed(L')
        BY <3>1, Started
      <4>2. Closed(L') \in 0 .. L' /\ Closed(L)' = Closed(L')
        BY <4>1, ClosedBounds DEF Closed, GroupOf
      <4>3. G' = Closed(L') - Len(bank'.queue)
        BY <4>2 DEF G
      <4> DEFINE l == L'
                 c == Closed(L')
                 q == Len(bank'.queue)
                 m == cfg'.avail
                 g == G'
      <4>a. /\ l \in Nat /\ l <= m /\ m \in Nat /\ m <= NRows /\ q \in Nat /\ q <= c
            /\ c \in 0 .. l /\ g = c - q /\ NRows \in Nat
        BY <4>0, <4>1, <4>2, <4>3, Bounded
      <4> HIDE DEF l, c, q, m, g
      <4>b. g \in 0 .. NRows
        BY <4>a
      <4>4. G' \in 0 .. NRows
        BY <4>b DEF g
      <4> QED BY <2>1, <4>4, Bounded DEF G0
    <3>2. CASE Crash
      <4>1. bank'.learned = <<>> /\ bank'.queue = <<>>
        BY <3>2 DEF Crash, NoBank
      <4>2. L' = 0 /\ Closed(L)' = 0
        BY <4>1, <2>1 DEF L, Closed
      <4>3. G' = 0
        BY <4>1, <4>2, <2>1 DEF G
      <4>4. G0' = 0
        <5>1. G0' = G' - Len(sidecar')
          BY DEF G0
        <5>2. Len(sidecar') = 0 /\ 0 - 0 = 0
          BY <2>1
        <5> QED BY <4>3, <5>1, <5>2
      <4> QED BY <4>3, <4>4, Bounded
    <3> QED BY <1>3, <3>1, <3>2
  <2>3. Handed' = G'
    BY <2>1 DEF Handed
  <2>4. Span(G', G') = <<>> /\ Flows(<<>>, G', G') /\ G' + 0 = G' /\ G' <= G'
    <3>1. G' \in Nat
      BY <2>2, Bounded
    <3>2. Span(G', G') = <<>>
      BY <3>1, SpanEmpty
    <3>3. Flows(<<>>, G', G')
      BY <2>2, FlowEmpty
    <3>4. \A n \in Nat : n + 0 = n /\ n <= n
      OBVIOUS
    <3> QED BY <3>1, <3>2, <3>3, <3>4
  <2> QED BY <2>1, <2>2, <2>3, <2>4 DEF ClosedFlow
<1>5. CASE WriterReceives("closed")
  <2>1. WriterLive("closed") /\ Flows(writeQ["closed"], to, Handed)
    BY <1>0, <1>5 DEF WriterReceives, WriterLive
  <2>2. PICK c \in 0 .. NRows :
          /\ to <= c /\ c <= Handed /\ buf'["closed"] = Span(G0, c)
          /\ Flows(writeQ'["closed"], c, Handed)
    BY <1>0, <1>5, <1>a, <2>1, RowsTaken
  <2>3. c \in Nat /\ G0 <= c /\ c <= G
    BY <1>0, <2>2, Bounded
  <2>4. Len(buf'["closed"]) = c - G0 /\ G0 + Len(buf'["closed"]) = c
    BY <1>0, <2>2, <2>3, SpanLen
  <2>5. UNCHANGED <<bank, sidecar, pc, drained>>
    BY <1>5 DEF WriterReceives, model, main
  <2>6. G' = G /\ G0' = G0 /\ Handed' = Handed
    BY <1>b, <2>5 DEF Handed
  <2> QED BY <2>2, <2>3, <2>4, <2>6 DEF ClosedFlow
<1>6. ASSUME NEW w \in Writers, Writer(w), ~WriterReceives("closed") PROVE ClosedFlow'
  <2>1. UNCHANGED <<bank, sidecar, pc, drained>>
    BY <1>6 DEF Writer, WriterFails, WriterCreates, WriterReceives, WriterWrites, WriterDiscards,
       WriterPublishes, model, main
  <2>2. buf'["closed"] = buf["closed"] /\ writeQ'["closed"] = writeQ["closed"]
    <3>1. CASE WriterReceives(w)
      <4>1. w = "out"
        BY <1>6, <3>1 DEF Writers
      <4> QED BY <3>1, <4>1, <1>a DEF WriterReceives, IInv, Shapes, WriteShape
    <3>2. CASE ~WriterReceives(w)
      BY <1>6, <3>2 DEF Writer, WriterFails, WriterCreates, WriterWrites, WriterDiscards,
         WriterPublishes
    <3> QED BY <3>1, <3>2
  <2>3. WriterLive("closed")' => WriterLive("closed")
    <3>1. writer'["closed"] # writer["closed"] => WriterLive("closed")
      <4>1. \A u \in Writers : u # w => writer'[u] = writer[u]
        BY <1>6 DEF Writer, WriterFails, WriterCreates, WriterReceives, WriterWrites,
           WriterDiscards, WriterPublishes, IInv, Shapes, ThreadShape
      <4>2. WriterLive(w)
        BY <1>6 DEF Writer, WriterFails, WriterCreates, WriterReceives, WriterWrites,
           WriterDiscards, WriterPublishes, WriterLive
      <4> QED BY <4>1, <4>2, <1>a
    <3> QED BY <3>1 DEF WriterLive
  <2>4. G' = G /\ G0' = G0 /\ Handed' = Handed
    BY <1>b, <2>1 DEF Handed
  <2> QED BY <1>2, <2>2, <2>3, <2>4
<1>7. CASE SendClosed
  <2>1. UNCHANGED <<bank, sidecar, buf, writer, drained>>
    BY <1>7 DEF SendClosed, model
  <2>2. G' = G /\ G0' = G0 /\ Handed' = G /\ Handed = G - Len(drained)
    BY <1>7, <1>b, <2>1 DEF Handed, SendClosed, Fails
  <2>3. CASE ~WriterLive("closed")
    BY <1>0, <1>1, <2>1, <2>2, <2>3, Bounded DEF WriterLive
  <2>4. CASE WriterLive("closed")
    <3>1. writeQ' = [writeQ EXCEPT !["closed"] = Append(@, Chunk(drained))]
      BY <1>7, <2>4 DEF SendClosed
    <3>2. drained = Span(Handed, G) /\ drained \in Seq(Nat)
      BY <1>7, <2>2 DEF SendClosed, HeldFlow, IInv, Shapes, BankShape
    <3>3. /\ Chunk(drained) \in Messages(Seq(Nat)) /\ Chunk(drained).kind = "chunk"
          /\ Chunk(drained).rows = drained
      BY <3>2, ChunkIsMessage DEF Chunk
    <3>4. Handed <= G /\ Flows(writeQ["closed"], to, Handed)
      BY <1>0, <2>4, Bounded
    <3>5. Flows(writeQ'["closed"], to, G)
      BY <1>0, <1>a, <3>1, <3>2, <3>3, <3>4, RowsSent
    <3> QED BY <1>0, <1>1, <2>1, <2>2, <3>5, Bounded
  <2> QED BY <2>3, <2>4
<1>8. CASE EndClosed
  <2>1. UNCHANGED <<bank, sidecar, buf, writer, drained>>
    BY <1>8 DEF EndClosed, EndWriter, model
  <2>2. G' = G /\ G0' = G0 /\ Handed' = G /\ Handed = G
    BY <1>8, <1>b, <2>1 DEF Handed, EndClosed, EndWriter
  <2>3. CASE UNCHANGED writeQ
    BY <1>2, <2>1, <2>2, <2>3 DEF WriterLive
  <2>4. CASE /\ WriterLive("closed")
             /\ writeQ' = [writeQ EXCEPT !["closed"] = Append(@, End(TRUE))]
    <3>1. End(TRUE) \in Messages(Seq(Nat)) /\ End(TRUE).kind = "end"
      BY EndIsMessage DEF End
    <3>2. Flows(writeQ["closed"], to, G) /\ G <= G
      BY <1>0, <2>2, <2>4, Bounded
    <3>3. Flows(writeQ'["closed"], to, G)
      BY <1>0, <1>a, <2>4, <3>1, <3>2, RowsSent
    <3> QED BY <1>0, <1>1, <2>1, <2>2, <3>3, Bounded
  <2> QED BY <1>8, <2>3, <2>4 DEF EndClosed, EndWriter
<1>9. CASE Augment /\ pc' = "deliver"
  <2>1. G' = G /\ G0' = G0
    BY <1>9, Augmented
  <2>2. UNCHANGED <<buf, writer, writeQ, drained>> /\ pc = "augment"
    BY <1>9 DEF Augment, writing
  <2>3. Handed' = Handed
    BY <1>9, <2>1, <2>2 DEF Handed
  <2> QED BY <1>2, <2>1, <2>2, <2>3 DEF WriterLive
<1>10. CASE Drain
  <2>1. UNCHANGED <<buf, writer, writeQ>> /\ G0' = G0 /\ pc \in {"drain", "last_drain"}
    BY <1>10, Drained DEF Drain, writing
  <2>2. G' \in Nat /\ G <= G' /\ Handed = G
    <3>1. G' = G \/ G' = Closed(L)
      BY <1>10, Drained
    <3>2. G \in Nat /\ Closed(L) \in Nat /\ G <= Closed(L)
      BY Positions, Bounded
    <3> QED BY <2>1, <3>1, <3>2 DEF Handed
  <2>3. Handed' = G
    <3>1. CASE pc' \in {"send_closed", "send_last_closed"}
      <4>1. drained' = bank.queue /\ (bank.queue # <<>> \/ pc = "last_drain") /\ cfg.closed
        BY <1>10, <3>1 DEF Drain
      <4>2. G' = Closed(L)
        <5>1. CASE UNCHANGED <<bank, drained, sidecar>> /\ G' = G
          <6>1. bank.queue = <<>> /\ Len(<<>>) = 0
            BY <1>10, <3>1, <5>1, DrainedBank DEF Drain, IInv, Shapes, BankShape
          <6> QED BY <5>1, <6>1, Positions, Bounded
        <5> QED BY <1>10, <5>1, Drained
      <4>3. G' - Len(drained') = G
        BY <4>1, <4>2, Positions, Bounded
      <4> QED BY <3>1, <4>3 DEF Handed
    <3>2. CASE pc' \notin {"send_closed", "send_last_closed"}
      <4>1. G' = G
        <5>1. CASE UNCHANGED bank
          BY <1>10, <5>1, Drained, Positions, Bounded DEF G, L, Closed, GroupOf
        <5>2. CASE bank.queue = <<>>
          <6>1. Len(bank.queue) = 0
            BY <5>2
          <6> QED BY <1>10, <6>1, Drained, Positions, Bounded
        <5> QED BY <1>10, <3>2, <5>1, <5>2 DEF Drain
      <4> QED BY <3>2, <4>1 DEF Handed
    <3> QED BY <3>1, <3>2
  <2> QED BY <1>0, <1>1, <2>1, <2>2, <2>3 DEF WriterLive
<1>11. CASE Main /\ ~SendClosed /\ ~EndClosed /\ ~(Augment /\ pc' = "deliver") /\ ~Drain
  <2>1. /\ UNCHANGED <<buf, writer, bank, sidecar, drained>>
        /\ pc \notin {"send_closed", "send_last_closed"}
        /\ pc' \notin {"send_closed", "send_last_closed"}
    BY <1>11 DEF Main, Fails, disk, writing, model, Receive, Augment, AugmentEmpty, reading,
         Deliver, Progress, StopReader, DropReceiver, EndOut, EndWriter,
         JoinClosed, JoinOut, NoWriter, ScopeEnds, Save
  <2>2. writeQ'["closed"] = writeQ["closed"]
    <3>1. UNCHANGED writeQ \/ \E m : writeQ' = [writeQ EXCEPT !["out"] = m]
      BY <1>11 DEF Main, Fails, disk, writing, model, Receive, Augment, AugmentEmpty, reading,
         Deliver, Progress, StopReader, DropReceiver, EndOut, EndWriter,
         JoinClosed, JoinOut, NoWriter, ScopeEnds, Save
    <3> QED BY <3>1, <1>a DEF IInv, Shapes, WriteShape
  <2>3. G' = G /\ G0' = G0 /\ Handed' = Handed
    BY <1>b, <2>1 DEF Handed
  <2> QED BY <1>2, <2>1, <2>2, <2>3 DEF WriterLive
<1>12. CASE Reader \/ UNCHANGED vars
  <2>1. UNCHANGED <<bank, sidecar, pc, drained, buf, writer, writeQ>>
    BY <1>12 DEF Reader, ReadChunk, ReadEnds, ReadSendsEnd, ReadGivesUp, writing, model, main, vars
  <2>2. G' = G /\ G0' = G0 /\ Handed' = Handed
    BY <1>b, <2>1 DEF Handed
  <2> QED BY <1>2, <2>1, <2>2 DEF WriterLive
<1> QED BY <1>3, <1>5, <1>6, <1>7, <1>8, <1>9, <1>10, <1>11, <1>12 DEF Next, Finished

\* A sidecar that has rows is sent, and its writer told to publish it.

LEMMA SidecarGoesStep == PlaceShape /\ ThreadShape /\ BankShape /\ WriteShape /\ FileShape /\ RunShape /\ Senders /\ Ends /\ Returned /\ Present /\ Stages /\ OkSoFar /\ ErrorsHaveCause /\ BankFlow /\ SidecarGoes /\ [Next]_vars => SidecarGoes'
<1> SUFFICES ASSUME PlaceShape, ThreadShape, BankShape, WriteShape, FileShape, RunShape, Senders, Ends, Returned, Present, Stages, OkSoFar, ErrorsHaveCause, BankFlow, SidecarGoes, [Next]_vars PROVE SidecarGoes'
  OBVIOUS
<1> USE DEF SidecarGoes, SidecarSent, SidecarEnds, SidecarThere, AfterClosed, Ending,
     PlaceShape, ThreadShape, Writers, WriterLive, Running, PCs, Results, Errors,
     Feeding, Over
<1>1. CASE StartRun
  BY <1>1 DEF StartRun, disk
<1>2. CASE Reader
  BY <1>2 DEF Reader, ReadChunk, disk, main, writing, model, ReadEnds, ReadSendsEnd,
       ReadGivesUp
<1>3. ASSUME NEW w \in Writers, Writer(w) PROVE SidecarGoes'
  <2>1. CASE WriterFails(w)
    BY <2>1 DEF WriterFails, DropTemp, main, reading, model, Returned, Stages
  <2>2. CASE WriterCreates(w)
    BY <2>2 DEF WriterCreates, main, reading, model
  <2>3. CASE WriterReceives(w)
    <3> USE WriterTakes
    <3>1. SidecarSent'
      BY <2>3 DEF WriterReceives, main, reading, model, Returned
    <3>2. SidecarEnds'
      BY <2>3 DEF WriterReceives, main, reading, model, Returned
    <3>3. SidecarThere'
      BY <2>3 DEF WriterReceives, main, reading, model, Returned
    <3> QED BY <3>1, <3>2, <3>3
  <2>4. CASE WriterWrites(w)
    BY <2>4 DEF WriterWrites, disk, main, reading, model
  <2>5. CASE WriterDiscards(w)
    BY <2>5 DEF WriterDiscards, DropTemp, main, reading, model, HasEnd, Returned, Stages
  <2>6. CASE WriterPublishes(w)
    BY <2>6 DEF WriterPublishes, main, reading, model, FileShape, FileShapes, Returned
  <2> QED
    BY <1>3, <2>1, <2>2, <2>3, <2>4, <2>5, <2>6 DEF Writer
<1>4. CASE Main
  <2>1. CASE Receive
    BY <2>1 DEF Receive, Fails, disk, writing, model
  <2>2. CASE Augment
    BY <2>2 DEF Augment, Fails, disk, reading, writing
  <2>3. CASE AugmentEmpty
    BY <2>3 DEF AugmentEmpty, Fails, disk, reading, writing, model
  <2>4. CASE Deliver
    <3>1. \/ UNCHANGED writeQ /\ ~(cfg.out = "file" /\ WriterLive("out"))
          \/ ChunkGoes("out")
      BY <2>4, DeliverSends
    <3>2. SidecarSent'
      BY <2>4, <3>1 DEF Deliver, Fails, ChunkGoes, disk, reading, model
    <3>3. SidecarEnds'
      BY <2>4, <3>1 DEF Deliver, Fails, ChunkGoes, disk, reading, model
    <3>4. SidecarThere'
      BY <2>4, <3>1 DEF Deliver, Fails, ChunkGoes, disk, reading, model
    <3> QED BY <3>2, <3>3, <3>4
  <2>5. CASE Drain
    <3>1. CASE UNCHANGED sidecar \/ bank.queue = <<>>
      <4>1. sidecar \in Seq(Nat)
        BY DEF BankShape
      <4>2. UNCHANGED sidecar
        <5>1. UNCHANGED sidecar \/ sidecar' = sidecar \o bank.queue
          BY <2>5 DEF Drain
        <5>2. sidecar \o <<>> = sidecar
          BY <4>1, ConcatEmptySeq
        <5> QED BY <3>1, <5>1, <5>2
      <4> QED BY <2>5, <4>2 DEF Drain, BankFlow, reading, writing, disk
    <3>2. CASE ~UNCHANGED sidecar /\ bank.queue # <<>>
      <4>1. pc' \in {"send_closed", "send_last_closed"}
        BY <2>5, <3>2 DEF Drain
      <4> QED BY <4>1
    <3> QED BY <3>1, <3>2
  <2>6. CASE SendClosed
    <3>1. \/ UNCHANGED writeQ /\ ~WriterLive("closed")
          \/ ChunkGoes("closed")
      BY <2>6, SendClosedSends
    <3>2. SidecarSent'
      BY <2>6, <3>1 DEF SendClosed, Fails, ChunkGoes, disk, reading, model, Senders, Returned, Present, Stages, OkSoFar, WriterLive
    <3>3. SidecarEnds'
      BY <2>6, <3>1 DEF SendClosed, Fails, ChunkGoes, disk, reading, model, Senders, Returned, Present, Stages, OkSoFar, WriterLive
    <3>4. SidecarThere'
      BY <2>6, <3>1 DEF SendClosed, Fails, ChunkGoes, disk, reading, model, Senders, Returned, Present, Stages, OkSoFar, WriterLive
    <3> QED BY <3>2, <3>3, <3>4
  <2>7. CASE Progress
    BY <2>7 DEF Progress, Fails, disk, reading, writing, model
  <2>8. CASE StopReader
    BY <2>8 DEF StopReader, DropReceiver, disk, writing, model
  <2>9. CASE EndClosed
    <3>0. PublishesClosed \in BOOLEAN
      BY DEF PublishesClosed, PlaceShape
    <3>1. IF PublishesClosed /\ WriterLive("closed") THEN EndGoes("closed") ELSE UNCHANGED writeQ
      BY <2>9, <3>0, EndWriterSends DEF EndClosed, Writers
    <3>2. SidecarSent'
      BY <2>9, <3>1 DEF EndClosed, EndWriter, EndGoes, PublishesClosed, disk, reading, model, Returned, Senders
    <3>3. SidecarEnds'
      BY <2>9, <3>1 DEF EndClosed, EndWriter, EndGoes, PublishesClosed, disk, reading, model, Returned, Senders
    <3>4. SidecarThere'
      BY <2>9, <3>1 DEF EndClosed, EndWriter, EndGoes, PublishesClosed, disk, reading, model, Returned, Senders
    <3> QED BY <3>2, <3>3, <3>4
  <2>10. CASE EndOut
    <3>0. PublishesOut \in BOOLEAN
      BY DEF PublishesOut, PlaceShape
    <3>1. IF PublishesOut /\ WriterLive("out") THEN EndGoes("out") ELSE UNCHANGED writeQ
      BY <2>10, <3>0, EndWriterSends DEF EndOut, Writers
    <3>2. SidecarSent'
      BY <2>10, <3>1 DEF EndOut, EndWriter, EndGoes, PublishesOut, disk, reading, model
    <3>3. SidecarEnds'
      BY <2>10, <3>1 DEF EndOut, EndWriter, EndGoes, PublishesOut, disk, reading, model
    <3>4. SidecarThere'
      BY <2>10, <3>1 DEF EndOut, EndWriter, EndGoes, PublishesOut, disk, reading, model
    <3> QED BY <3>2, <3>3, <3>4
  <2>11. CASE JoinClosed
    BY <2>11 DEF JoinClosed, disk, reading, model, ErrorReplaces, Returned
  <2>12. CASE JoinOut
    BY <2>12 DEF JoinOut, disk, reading, writing, model, ErrorReplaces, Returned
  <2>13. CASE NoWriter
    BY <2>13 DEF NoWriter, disk, reading, writing, model, Returned, Present, BankFlow
  <2>14. CASE ScopeEnds
    BY <2>14 DEF ScopeEnds, disk, reading, writing, model, SavesState
  <2>15. CASE Save
    BY <2>15 DEF Save, reading, writing, model
  <2> QED
    BY <1>4, <2>1, <2>2, <2>3, <2>4, <2>5, <2>6, <2>7, <2>8, <2>9, <2>10, <2>11, <2>12,
         <2>13, <2>14, <2>15 DEF Main
<1>5. CASE Crash
  BY <1>5 DEF Crash
<1>6. CASE UNCHANGED vars
  BY <1>6 DEF vars, disk, main, reading, writing, model
<1>7. CASE Finished
  BY <1>6, <1>7 DEF Finished
<1> QED
  BY <1>1, <1>2, <1>3, <1>4, <1>5, <1>6, <1>7 DEF Next

\* What a writer that publishes has written: all that was handed to it.
LEMMA Publishes ==
  ASSUME IInv, Flow, NEW w \in Writers, WriterPublishes(w)
  PROVE  /\ buf[w] \in Spans
         /\ w = "out" => pc = "join_out" /\ result = "ok" /\ buf[w] = Span(skipTo, cfg.avail)
         /\ w = "closed" => pc = "join_closed" /\ buf[w] = sidecar /\ sidecar = Span(G0, G)
<1> USE DEF Flow
<1>1. writer[w] = "finish" /\ WriterLive(w) /\ writeQ[w] = <<>>
  BY DEF WriterPublishes, WriterLive, IInv, Control, Ends
<1>2. Ending(w)
  BY <1>1 DEF Ending
<1>3. CASE w = "out"
  <2>1. pc = "join_out" /\ result = "ok"
    BY <1>2, <1>3 DEF IInv, Control, OutGoesWithResult, OutEnding
  <2> DEFINE to == skipTo + Len(buf["out"])
  <2>2. to \in 0 .. NRows /\ skipTo \in 0 .. NRows
    BY OutPlace, Bounded
  <2>3. Flows(<<>>, to, L) /\ buf["out"] = Span(skipTo, to)
    BY <1>1, <1>3, <2>1 DEF OutFlow, Delivered
  <2>4. L = cfg.avail
    BY <2>1 DEF AllLearned, Learning
  <2> HIDE DEF to
  <2>5. buf["out"] = Span(skipTo, cfg.avail)
    BY <2>2, <2>3, <2>4, FlowEmpty
  <2>6. cfg.avail \in 0 .. NRows
    BY Bounded
  <2> QED BY <1>3, <2>1, <2>2, <2>5, <2>6 DEF Spans
<1>4. CASE w = "closed"
  <2>1. pc = "join_closed"
    BY <1>2, <1>4 DEF IInv, Control, ClosedGoesWithResult, ClosedEnding
  <2> DEFINE to == G0 + Len(buf["closed"])
  <2>2. to \in 0 .. NRows /\ G0 \in Nat /\ G \in 0 .. NRows /\ G0 \in 0 .. G
    BY ClosedPlace, Positions
  <2>3. Flows(<<>>, to, G) /\ buf["closed"] = Span(G0, to) /\ sidecar = Span(G0, G)
    BY <1>1, <1>4, <2>1 DEF ClosedFlow, BankFlow, Handed
  <2> HIDE DEF to
  <2>4. buf["closed"] = sidecar
    BY <2>2, <2>3, FlowEmpty
  <2>5. G0 \in 0 .. NRows
    BY <2>2, Bounded
  <2>6. buf["closed"] \in Spans
    BY <2>2, <2>3, <2>4, <2>5 DEF Spans
  <2> QED BY <1>4, <2>1, <2>3, <2>4, <2>6
<1> QED BY <1>3, <1>4 DEF Writers

LEMMA RangeOfRows ==
  ASSUME NEW s \in Spans
  PROVE  Range(s) \subseteq Rows
<1>1. s \in Seq(Rows)
  BY SpanOfRows
<1>2. \A i \in 1 .. Len(s) : s[i] \in Rows
  BY <1>1
<1>3. DOMAIN s = 1 .. Len(s)
  BY <1>1
<1> QED BY <1>2, <1>3 DEF Range

LEMMA FilesFlowStep == IInv /\ Flow /\ [Next]_vars => FilesFlow'
<1> SUFFICES ASSUME IInv, Flow, [Next]_vars PROVE FilesFlow'
  OBVIOUS
<1> USE DEF Flow
<1>1. CASE UNCHANGED <<file, emitted, run, sidecar>> /\ (pc' # "idle" => pc # "idle")
  BY <1>1 DEF FilesFlow
<1>2. ASSUME NEW w \in Writers, WriterPublishes(w) PROVE FilesFlow'
  <2>1. /\ file' = [file EXCEPT ![w] = [run |-> run, rows |-> buf[w]]]
        /\ emitted' = IF w = "closed" THEN emitted \cup Range(buf[w]) ELSE emitted
        /\ UNCHANGED <<run, sidecar, pc>>
    BY <1>2 DEF WriterPublishes, main
  <2>2. buf[w] \in Spans /\ (w = "closed" => buf[w] = sidecar) /\ Range(buf[w]) \subseteq Rows
    BY <1>2, Publishes, RangeOfRows
  <2>3. /\ file'[w] = [run |-> run, rows |-> buf[w]]
        /\ \A v \in Writers : v # w => file'[v] = file[v]
    BY <2>1 DEF IInv, Shapes, FileShape
  <2>4. file'[w].rows = buf[w]
    BY <2>3
  <2>5. \A v \in Writers : file'[v].rows \in Spans
    BY <2>2, <2>3, <2>4 DEF FilesFlow
  <2>6. CASE w = "closed"
    BY <2>1, <2>2, <2>4, <2>5, <2>6 DEF FilesFlow
  <2>7. CASE w # "closed"
    <3>1. file'["closed"] = file["closed"]
      BY <2>3, <2>7 DEF Writers
    <3> QED BY <2>1, <2>5, <2>7, <3>1 DEF FilesFlow
  <2> QED BY <2>6, <2>7
<1>3. CASE StartRun
  <2>1. run' = run + 1 /\ UNCHANGED <<file, emitted>>
    BY <1>3 DEF StartRun, disk
  <2>2. file["closed"].run <= run /\ file["closed"].run \in Nat /\ run \in Nat
    BY RunnerAssumption DEF IInv, Control, DiskInOrder, Writers, Shapes, FileShape, FileShapes,
       RunShape
  <2>3. file'["closed"].run # run'
    BY <2>1, <2>2
  <2> QED BY <2>1, <2>3 DEF FilesFlow
<1>4. CASE Crash
  BY <1>4 DEF Crash, FilesFlow
<1>5. CASE Drain
  <2>1. UNCHANGED <<file, emitted, run>> /\ pc \in Feeding
    BY <1>5 DEF Drain, disk, Feeding
  <2>2. file["closed"].run # run
    BY <2>1 DEF IInv, Control, ClosedGoesWithResult, ClosedOnlyThen, AfterClosed, Feeding, Over
  <2> QED BY <2>1, <2>2 DEF FilesFlow
<1>6. ~StartRun => run' = run /\ (pc' # "idle" => pc # "idle")
  <2>1. CASE Main
    BY <2>1 DEF Main, Fails, disk, writing, model, Receive, Augment, AugmentEmpty, Drain, reading,
         Deliver, SendClosed, Progress, StopReader, DropReceiver, EndClosed, EndOut, EndWriter,
         JoinClosed, JoinOut, NoWriter, ScopeEnds, Save
  <2>2. CASE Reader \/ (\E w \in Writers : Writer(w)) \/ UNCHANGED vars
    BY <2>2 DEF Reader, ReadChunk, ReadEnds, ReadSendsEnd, ReadGivesUp, Writer, WriterFails,
       WriterCreates, WriterReceives, WriterWrites, WriterDiscards, WriterPublishes, main,
       reading, model, vars
  <2>3. CASE Crash
    BY <2>3 DEF Crash
  <2> QED BY <2>1, <2>2, <2>3 DEF Next, Finished
<1> QED BY <1>1, <1>2, <1>3, <1>4, <1>5, <1>6, FilesChange, DrainedChanges

-----------------------------------------------------------------------------
(* The rows are where they should be, in every run and every crash.        *)

LEMMA FlowInit == Init => Flow
<1> SUFFICES ASSUME Init PROVE Flow
  OBVIOUS
<1> USE DEF Init
<1>1. /\ Len(<<>>) = 0 /\ Span(0, 0) = <<>> /\ Closed(0) = 0 /\ 1 .. 0 = {}
      /\ NRows \in Nat /\ 0 \in 0 .. NRows
  <2>1. Span(0, 0) = <<>>
    BY SpanEmpty
  <2> QED BY <2>1, RunnerAssumption DEF Closed
<1>2. L = 0 /\ G = 0 /\ G0 = 0
  BY <1>1 DEF L, G, G0, NoBank
<1>3. BankFlow
  <2>1. bank.learned = <<>> /\ bank.queue = <<>>
    BY DEF NoBank
  <2> QED BY <1>1, <1>2, <2>1 DEF BankFlow
<1>4. StateFlow
  <2>1. stateFile.learned = <<>> /\ stateFile.queue = <<>>
    BY DEF NoState
  <2>2. Closed(0) - 0 = 0
    BY <1>1
  <2> QED BY <1>1, <2>1, <2>2 DEF StateFlow
<1>5. ReadEndsLast /\ ReadFlow /\ AllLearned
  BY <1>1 DEF ReadEndsLast, ReadFlow, AllLearned, Feeding
<1>6. HeldFlow
  BY EmptySpan DEF HeldFlow
<1>7. OutFlow /\ ClosedFlow
  <2>1. /\ buf["out"] = <<>> /\ buf["closed"] = <<>> /\ 0 + 0 = 0
        /\ ~WriterLive("out") /\ ~WriterLive("closed")
    BY DEF Writers, WriterLive
  <2> QED BY <1>1, <1>2, <2>1 DEF OutFlow, ClosedFlow
<1>8. SidecarGoes
  BY DEF SidecarGoes, SidecarSent, SidecarEnds, SidecarThere, Feeding, AfterClosed, Over
<1>9. FilesFlow
  <2>1. \A w \in Writers : file[w].rows = <<>>
    BY DEF NoFile
  <2>2. Range(<<>>) = {}
    BY DEF Range
  <2> QED BY <2>1, <2>2, EmptySpan DEF FilesFlow, Writers
<1> QED BY <1>3, <1>4, <1>5, <1>6, <1>7, <1>8, <1>9 DEF Flow

LEMMA FlowStep == IInv /\ Flow /\ [Next]_vars => Flow'
<1> SUFFICES ASSUME IInv, Flow, [Next]_vars PROVE Flow'
  OBVIOUS
<1>1. BankFlow' /\ StateFlow' /\ ReadEndsLast' /\ ReadFlow' /\ AllLearned' /\ HeldFlow'
  BY BankFlowStep, StateFlowStep, ReadEndsLastStep, ReadFlowStep, AllLearnedStep, HeldFlowStep
     DEF Flow
<1>2. OutFlow' /\ ClosedFlow' /\ FilesFlow'
  BY OutFlowStep, ClosedFlowStep, FilesFlowStep DEF Flow
<1>3. SidecarGoes'
  BY SidecarGoesStep DEF Flow, IInv, Shapes, Control
<1> QED BY <1>1, <1>2, <1>3 DEF Flow

\* Each channel, file and saved state carries the rows and the groups that
\* lie between what its two ends have seen.
THEOREM FlowHolds == Spec => [](IInv /\ Flow)
<1>1. Init => IInv /\ Flow
  BY InvariantInit, FlowInit
<1>2. (IInv /\ Flow) /\ [Next]_vars => (IInv /\ Flow)'
  BY InvariantStep, FlowStep
<1> QED BY <1>1, <1>2, PTL DEF Spec

\* With skip_learned a resumed run learns each row of the input once, in
\* order, however the chunks of the runs overlap.
THEOREM RowsLearnedOnce == Spec => []LearnedOnce
<1>1. IInv /\ Flow => LearnedOnce
  <2> SUFFICES ASSUME IInv, Flow, NEW i \in 1 .. Len(bank.learned)
               PROVE  bank.learned[i] = i
    BY DEF LearnedOnce
  <2>1. L \in Nat /\ bank.learned = Span(0, L) /\ i \in 1 .. L
    BY Positions, Bounded DEF Flow, BankFlow, L
  <2>2. Span(0, L)[i] = 0 + i
    BY <2>1, SpanIsSeq, SpanLen
  <2> QED BY <2>1, <2>2
<1> QED BY <1>1, FlowHolds, PTL

\* A group that closed before the saved position is in the saved queue or has
\* been published, across runs, crashes and failures.
THEOREM GroupsKept == Spec => []NoClosedGroupLost
<1>1. IInv /\ Flow => NoClosedGroupLost
  <2> SUFFICES ASSUME IInv, Flow
               PROVE  Range(ClosesBetween(0, LastOf(stateFile.learned)))
                        \subseteq emitted \cup Range(stateFile.queue)
    BY DEF NoClosedGroupLost
  <2> DEFINE S == Len(stateFile.learned)
             H == Closed(S) - Len(stateFile.queue)
  <2>1. /\ stateFile.learned = Span(0, S) /\ stateFile.queue = Span(H, Closed(S))
        /\ Len(stateFile.queue) <= Closed(S) /\ 1 .. H \subseteq emitted
    BY DEF Flow, StateFlow
  <2>2. S \in Nat /\ Len(stateFile.queue) \in Nat
    <3>1. stateFile.learned \in Seq(Rows) /\ stateFile.queue \in Seq(Nat)
      BY DEF IInv, Shapes, FileShape, StateShapes
    <3> QED BY <3>1
  <2> HIDE DEF S
  <2>3. Closed(S) \in Nat /\ Closed(0) = 0
    BY <2>2, ClosedBounds DEF Closed
  <2>4. H \in Nat /\ H <= Closed(S)
    BY <2>1, <2>2, <2>3
  <2> HIDE DEF H
  <2>5. LastOf(stateFile.learned) = S
    BY <2>1, <2>2, SpanLast
  <2>6. ClosesBetween(0, S) = Span(0, Closed(S))
    BY <2>2, <2>3, ClosesSpan
  <2>7. Range(Span(0, Closed(S))) = 1 .. Closed(S)
    <3>1. Range(Span(0, Closed(S))) = (0 + 1) .. Closed(S)
      BY <2>3, SpanRange
    <3> QED BY <3>1
  <2>8. Range(stateFile.queue) = (H + 1) .. Closed(S)
    BY <2>1, <2>3, <2>4, SpanRange
  <2> QED BY <2>1, <2>3, <2>4, <2>5, <2>6, <2>7, <2>8
<1> QED BY <1>1, FlowHolds, PTL

\* A closed row that left the bank is in the published sidecar, however the
\* run ended, unless the sidecar's own writer failed; then the run fails too.
THEOREM DrainedArePublished == Spec => []DrainedRowsPublished
<1>1. IInv /\ Flow => DrainedRowsPublished
  <2> SUFFICES ASSUME IInv, Flow, pc = "returned", cfg.closed
               PROVE  IF written["closed"] = "ok"
                      THEN sidecar # <<>> \/ result = "ok" =>
                             file["closed"] = [run |-> run, rows |-> sidecar]
                      ELSE result \notin {"ok", "io_state"}
    BY DEF DrainedRowsPublished
  <2>1. written["closed"] \in {"ok", "err"}
    <3>1. writer["closed"] = "done"
      BY DEF IInv, Control, Stages, Present, WriterLive, Over
    <3> QED BY <3>1 DEF IInv, Shapes, Control, ThreadShape, Returned, Writers
  <2>2. written["closed"] = "err" => result \notin {"ok", "io_state"}
    BY DEF IInv, Control, ClosedGoesWithResult, ClosedFailed, AfterClosed, Over, Good
  <2>3. ASSUME written["closed"] = "ok", sidecar # <<>> \/ result = "ok"
        PROVE  file["closed"] = [run |-> run, rows |-> sidecar]
    <3>1. file["closed"].run = run
      BY <2>3 DEF IInv, Control, ClosedGoesWithResult, ClosedThere, AfterClosed, Over, Good,
         Flow, SidecarGoes, SidecarThere
    <3>2. file["closed"].rows = sidecar
      BY <3>1 DEF Flow, FilesFlow
    <3>3. file["closed"] \in FileShapes
      BY DEF IInv, Shapes, FileShape, Writers
    <3> QED BY <3>1, <3>2, <3>3 DEF FileShapes
  <2> QED BY <2>1, <2>2, <2>3
<1> QED BY <1>1, FlowHolds, PTL

\* Every variable keeps its type: the rows that are read, learned, drained,
\* queued, written and published are frames of rows of the input, and the
\* channels are never over their capacity.
THEOREM TypesHold == Spec => []TypeOK
<1>1. IInv /\ Flow => TypeOK
  <2> SUFFICES ASSUME IInv, Flow PROVE TypeOK
    OBVIOUS
  <2>1. \A s \in Spans : s \in Frames /\ s \in Groups
    BY SpanIsFrame
  <2>2. /\ L \in 0 .. NRows /\ 0 \in 0 .. NRows /\ Closed(L) \in 0 .. NRows
        /\ G \in 0 .. NRows /\ G0 \in 0 .. NRows
    <3>1. BankFlow
      BY DEF Flow
    <3> QED BY <3>1, Positions, RunnerAssumption
  <2>3. bank \in [learned : Frames, queue : Groups] /\ sidecar \in Groups
    <3>1. bank.learned \in Spans /\ bank.queue \in Spans /\ sidecar \in Spans
      BY <2>2 DEF Flow, BankFlow, Spans
    <3>2. bank = [learned |-> bank.learned, queue |-> bank.queue]
      BY Bounded
    <3>3. bank.learned \in Frames /\ bank.queue \in Groups
      BY <2>1, <3>1
    <3> QED BY <2>1, <3>1, <3>2, <3>3
  <2>4. stateFile \in [run : 0 .. MaxRuns, learned : Frames, queue : Groups,
                       hadOut : BOOLEAN, hadClosed : BOOLEAN]
    <3> DEFINE S == Len(stateFile.learned)
               H == Closed(S) - Len(stateFile.queue)
    <3>1. /\ stateFile.learned = Span(0, S) /\ S <= cfg.avail
          /\ Len(stateFile.queue) <= Closed(S) /\ stateFile.queue = Span(H, Closed(S))
      BY DEF Flow, StateFlow
    <3>2. stateFile \in StateShapes
      BY DEF IInv, Shapes, FileShape
    <3>3. S \in Nat /\ Len(stateFile.queue) \in Nat
      BY <3>2 DEF StateShapes
    <3> HIDE DEF S
    <3>4. Closed(S) \in 0 .. S /\ S \in 0 .. NRows
      BY <3>1, <3>3, ClosedBounds, Bounded
    <3>5. H \in 0 .. NRows /\ Closed(S) \in 0 .. NRows
      BY <3>1, <3>3, <3>4, RunnerAssumption
    <3> HIDE DEF H
    <3>6. stateFile.learned \in Spans /\ stateFile.queue \in Spans
      BY <2>2, <3>1, <3>4, <3>5 DEF Spans
    <3>7. stateFile.learned \in Frames /\ stateFile.queue \in Groups
      BY <2>1, <3>6
    <3> QED BY <3>2, <3>7 DEF StateShapes
  <2>5. file \in [Writers -> [run : 0 .. MaxRuns, rows : Frames]]
    <3>1. file \in [Writers -> FileShapes] /\ \A w \in Writers : file[w].rows \in Frames
      BY <2>1 DEF IInv, Shapes, FileShape, Flow, FilesFlow
    <3>2. \A w \in Writers : file[w] \in [run : 0 .. MaxRuns, rows : Frames]
      BY <3>1 DEF FileShapes
    <3> QED BY <3>1, <3>2
  <2>6. buf \in [Writers -> Frames]
    <3>1. buf["out"] \in Spans
      <4> DEFINE to == skipTo + Len(buf["out"])
      <4>1. to \in 0 .. NRows /\ skipTo \in 0 .. NRows
        BY OutPlace, Bounded DEF Flow
      <4>2. buf["out"] = Span(skipTo, to)
        BY DEF Flow, OutFlow
      <4> HIDE DEF to
      <4> QED BY <4>1, <4>2 DEF Spans
    <3>2. buf["closed"] \in Spans
      <4> DEFINE to == G0 + Len(buf["closed"])
      <4>1. to \in 0 .. NRows
        BY ClosedPlace DEF Flow
      <4>2. buf["closed"] = Span(G0, to)
        BY DEF Flow, ClosedFlow
      <4> HIDE DEF to
      <4> QED BY <2>2, <4>1, <4>2 DEF Spans
    <3> QED BY <2>1, <3>1, <3>2 DEF IInv, Shapes, WriteShape, Writers
  <2>7. chunk \in Frames /\ drained \in Groups /\ skipTo \in 0 .. NRows
    BY <2>1 DEF IInv, Shapes, BankShape, Flow, HeldFlow
  <2>8. /\ temps \subseteq Temps \X (1 .. MaxRuns) /\ crashed \subseteq 1 .. MaxRuns
        /\ emitted \subseteq Rows /\ run \in 0 .. MaxRuns /\ cfg.avail \in 0 .. NRows
    BY Bounded DEF IInv, Shapes, TempShape, Flow, FilesFlow, RunShape
  <2>9. /\ pc \in PCs /\ result \in Results /\ closedSent \in BOOLEAN /\ fed \in BOOLEAN
        /\ reader \in {"reading", "end_ok", "end_err", "done"} /\ readOpen \in BOOLEAN
        /\ writer \in [Writers -> WriterPlaces] /\ sending \in [Writers -> BOOLEAN]
        /\ written \in [Writers -> {"none", "ok", "err"}]
    BY DEF IInv, Shapes, PlaceShape, ThreadShape
  <2>10. /\ nextRow \in 1 .. NRows + 1 /\ Len(readQ) <= Capacity
         /\ \A w \in Writers : Len(writeQ[w]) <= Capacity
    BY DEF IInv, Shapes, ReadShape, WriteShape
  <2> QED BY <2>3, <2>4, <2>5, <2>6, <2>7, <2>8, <2>9, <2>10
          DEF TypeOK, PCs, Feeding, Over, Results, WriterPlaces
<1> QED BY <1>1, FlowHolds, PTL

-----------------------------------------------------------------------------
(* What the runs promise of their files.                                   *)

LEMMA StartBegins ==
  ASSUME IInv, Flow, StartRun
  PROVE  Promise!Begin
<1>1. /\ run < MaxRuns /\ run' = run + 1 /\ UNCHANGED <<file, stateFile>>
      /\ cfg'.avail \in cfg.avail .. NRows
  BY DEF StartRun, disk
<1>2. skipTo' \in {0, LastOf(stateFile.learned)}
  BY DEF StartRun
<1>3. LastOf(stateFile.learned) = Len(stateFile.learned)
  <2> DEFINE S == Len(stateFile.learned)
  <2>1. stateFile.learned = Span(0, S)
    BY DEF Flow, StateFlow
  <2>2. S \in Nat
    BY DEF IInv, Shapes, FileShape, StateShapes
  <2> HIDE DEF S
  <2>3. LastOf(Span(0, S)) = S
    BY <2>2, SpanLast
  <2> QED BY <2>1, <2>3 DEF S
<1> QED BY <1>1, <1>2, <1>3 DEF Promise!Begin

\* A writer publishes in the order, and with the rows, that are promised.
LEMMA PublishesAsPromised ==
  ASSUME IInv, Flow, NEW w \in Writers, WriterPublishes(w)
  PROVE  Promise!PublishClosed \/ Promise!PublishOut
<1>1. /\ file' = [file EXCEPT ![w] = [run |-> run, rows |-> buf[w]]]
      /\ UNCHANGED <<stateFile, run, cfg, skipTo>> /\ writer[w] = "finish"
  BY DEF WriterPublishes, model
<1>2. written[w] = "none"
  BY <1>1 DEF IInv, Control, Returned
<1>3. file[w].run < run
  <2>1. pc # "idle"
    BY <1>1 DEF IInv, Control, Present
  <2>2. file[w].run # run
    BY <1>2, <2>1 DEF IInv, Control, OutGoesWithResult, OutOnlyThen, ClosedGoesWithResult,
       ClosedOnlyThen, Writers
  <2>3. file[w].run <= run /\ file[w].run \in Nat /\ run \in Nat
    BY RunnerAssumption DEF IInv, Control, DiskInOrder, Shapes, FileShape, FileShapes, RunShape
  <2> QED BY <2>2, <2>3
<1>4. CASE w = "out"
  <2>1. pc = "join_out" /\ result = "ok" /\ buf["out"] = Span(skipTo, cfg.avail)
    BY <1>4, Publishes
  <2>2. cfg.out = "file"
    BY <2>1 DEF IInv, Control, Stages
  <2>3. cfg.closed => file["closed"].run = run
    <3> SUFFICES ASSUME cfg.closed PROVE file["closed"].run = run
      OBVIOUS
    <3>1. writer["closed"] = "done"
      BY <2>1 DEF IInv, Control, Stages, Present, WriterLive
    <3>2. written["closed"] \in {"ok", "err"}
      BY <3>1 DEF IInv, Shapes, Control, ThreadShape, Returned, Writers
    <3> QED BY <2>1, <3>2 DEF IInv, Control, ClosedGoesWithResult, ClosedFailed, ClosedThere,
                              AfterClosed, Good
  <2>4. file' = [file EXCEPT !["out"] =
                   [run |-> run, rows |-> Promise!RowsTo(skipTo, cfg.avail)]]
    BY <1>1, <1>4, <2>1 DEF Span, Promise!RowsTo
  <2> QED BY <1>1, <1>3, <1>4, <2>2, <2>3, <2>4 DEF Promise!PublishOut
<1>5. CASE w = "closed"
  <2>1. pc = "join_closed" /\ buf["closed"] = Span(G0, G)
    BY <1>5, Publishes
  <2>2. cfg.closed
    BY <2>1 DEF IInv, Control, Stages
  <2>3. file["out"].run < run
    <3>1. file["out"].run # run
      BY <2>1 DEF IInv, Control, OutGoesWithResult, OutOnlyThen, Over
    <3>2. file["out"].run <= run /\ file["out"].run \in Nat /\ run \in Nat
      BY RunnerAssumption DEF IInv, Control, DiskInOrder, Shapes, FileShape, FileShapes, RunShape,
         Writers
    <3> QED BY <3>1, <3>2
  <2>4. file'["closed"] = [run |-> run, rows |-> Span(G0, G)]
    BY <1>1, <1>5, <2>1 DEF IInv, Shapes, FileShape
  <2>5. file'["closed"].run = run /\ file'["closed"].rows = Span(G0, G)
    BY <2>4
  <2>6. file' = [file EXCEPT !["closed"] = file'["closed"]]
    BY <1>1, <1>5, <2>1, <2>4
  <2>7. ASSUME NEW i \in 1 .. Len(file'["closed"].rows) - 1
        PROVE  file'["closed"].rows[i + 1] = file'["closed"].rows[i] + 1
    <3>1. G0 \in Nat /\ G \in Nat
      BY Positions, Bounded DEF Flow
    <3> DEFINE s == Span(G0, G)
    <3>2. s \in Seq(Nat) /\ \A j \in 1 .. Len(s) : s[j] = G0 + j
      BY <3>1, SpanIsSeq
    <3> HIDE DEF s
    <3>3. i \in 1 .. Len(s) /\ i + 1 \in 1 .. Len(s)
      <4>1. Len(s) \in Nat
        BY <3>2
      <4> QED BY <2>5, <2>7, <4>1 DEF s
    <3>4. s[i + 1] = G0 + (i + 1) /\ s[i] = G0 + i
      BY <3>2, <3>3
    <3>5. s[i + 1] = s[i] + 1
      BY <3>1, <3>3, <3>4
    <3> QED BY <2>5, <3>5 DEF s
  <2> QED BY <1>1, <1>3, <1>5, <2>2, <2>3, <2>5, <2>6, <2>7 DEF Promise!PublishClosed
<1> QED BY <1>4, <1>5 DEF Writers

\* The state is saved last, with every row learned once.
LEMMA SavesAsPromised ==
  ASSUME IInv, Flow, Save
  PROVE  Promise!SaveState \/ UNCHANGED Promise!vars
<1>1. UNCHANGED <<file, run, cfg, skipTo>>
  BY DEF Save, model
<1>2. CASE UNCHANGED stateFile
  BY <1>1, <1>2 DEF Promise!vars
<1>3. CASE /\ pc = "publish_state"
           /\ stateFile' = [run |-> run, learned |-> bank.learned, queue |-> bank.queue,
                            hadOut |-> cfg.out = "file", hadClosed |-> cfg.closed]
  <2>1. cfg.save /\ result = "ok"
    BY <1>3 DEF IInv, Control, Stages, OkSoFar
  <2>2. stateFile.run < run
    BY <1>3 DEF IInv, Control, DiskInOrder, Running
  <2>3. /\ cfg.out = "file" => file["out"].run = run
        /\ cfg.closed => file["closed"].run = run
    BY <1>3, <2>1, GoodRunPublished DEF Over, Good
  <2>4. bank.learned = Span(0, cfg.avail)
    BY <1>3, <2>1 DEF Flow, BankFlow, AllLearned, Learning
  <2>5. stateFile'.run = run /\ stateFile'.learned = Promise!RowsTo(0, cfg.avail)
    BY <1>3, <2>4 DEF Span, Promise!RowsTo
  <2> QED BY <1>1, <2>1, <2>2, <2>3, <2>5 DEF Promise!SaveState
<1> QED BY <1>2, <1>3 DEF Save

\* Every step of the threads, and every crash, leaves the disk as it was or
\* takes it through a step that is promised.
LEMMA StepKeepsPromise == IInv /\ Flow /\ [Next]_vars => [Promise!Next]_(Promise!vars)
<1> SUFFICES ASSUME IInv, Flow, [Next]_vars
             PROVE  Promise!Next \/ UNCHANGED Promise!vars
  OBVIOUS
<1>1. CASE StartRun
  BY <1>1, StartBegins DEF Promise!Next
<1>2. CASE \E w \in Writers : WriterPublishes(w)
  BY <1>2, PublishesAsPromised DEF Promise!Next
<1>3. CASE Save
  BY <1>3, SavesAsPromised DEF Promise!Next
<1>4. CASE UNCHANGED <<run, cfg, skipTo>> /\ UNCHANGED file /\ UNCHANGED stateFile
  BY <1>4 DEF Promise!vars
<1> QED BY <1>1, <1>2, <1>3, <1>4, SettingChanges, FilesChange, StateChanges

\* The threads of a run, whatever their order and wherever they stop, take
\* the disk through what a run promises.
THEOREM PromiseKept == Spec => KeepsPromise
<1>1. Init => Promise!Init
  BY DEF Init, Promise!Init, NoFile, NoState, Writers
<1>2. IInv /\ Flow /\ [Next]_vars => [Promise!Next]_(Promise!vars)
  BY StepKeepsPromise
<1> QED BY <1>1, <1>2, FlowHolds, PTL DEF Spec, KeepsPromise, Promise!Spec
=============================================================================
