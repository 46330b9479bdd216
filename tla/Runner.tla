------------------------------- MODULE Runner -------------------------------
(***************************************************************************)
(* The streaming runner (crates/online-polars/src/runner.rs): a run reads  *)
(* its input on one thread, feeds the bank on the calling thread and       *)
(* writes the output, and the closed groups' sidecar, on a thread each.    *)
(* The stages pass frames over channels of capacity one.  The bank is      *)
(* saved last.  A process may die at any step, and a later run may resume  *)
(* from the state that is on disk.                                         *)
(*                                                                         *)
(* A row of the input is its position in the stream, which is also its     *)
(* clock, and a frame is a sequence of rows.  Of the bank the runner needs *)
(* what it has learned and the queue of closed groups: under               *)
(* group_close = "monotone" each group of GroupRows rows closes with the   *)
(* chunk that brings a later group.                                        *)
(***************************************************************************)
EXTENDS Naturals, Sequences, FiniteSets, Functions

CONSTANTS
  NRows,       \* bound: the rows the input can grow to
  GroupRows,   \* rows of one group
  ChunkSizes,  \* the chunk sizes a run may be given
  Configs,     \* the run configurations that pass RunConfig::validate
  MaxRuns,     \* bound: runs of the program, one after the other
  Capacity     \* frames a channel buffers (sync_channel(1))

ASSUME RunnerAssumption ==
  /\ NRows \in Nat
  /\ GroupRows \in Nat \ {0}
  /\ ChunkSizes \in SUBSET (Nat \ {0}) /\ ChunkSizes # {}
  /\ MaxRuns \in Nat
  /\ Capacity \in Nat \ {0}
  /\ Configs \subseteq [out: {"file", "batches", "discard"}, closed: BOOLEAN,
                        save: BOOLEAN, skip: BOOLEAN]
  /\ \A c \in Configs : c.out = "discard" => c.save \/ c.closed
  /\ \A c \in Configs : c.out = "batches" => ~c.save /\ ~c.closed /\ ~c.skip

Writers == {"out", "closed"}
Temps   == {"out", "closed", "state"}
Rows    == 1 .. NRows

VARIABLES
  file,       \* the two published files: which run wrote each, and its rows
  stateFile,  \* the saved bank
  temps,      \* the temporaries on disk: <<which file, which run>>
  crashed,    \* history: the runs whose process died
  emitted,    \* history: the groups some published sidecar held
  run,        \* the number of the current run, 0 before the first
  cfg,        \* its configuration, chunk size and number of input rows
  pc,         \* where the calling thread is
  result,     \* how the run stands: "ok", or the error that ended it
  chunk,      \* the frame the calling thread holds
  drained,    \* the closed rows it holds, drained from the bank's queue
  closedSent, \* run_with's closed_sent
  fed,        \* stats.chunks > 0
  bank,       \* the bank: rows learned, in order, and the closed queue
  skipTo,     \* the snapshot skip_learned filters by: the last row learned
  reader,     \* where the reader thread is
  nextRow,    \* the next row it reads
  readQ,      \* the reader's channel
  readOpen,   \* whether its receiver is alive
  writer,     \* where each writer thread is
  writeQ,     \* each writer's channel
  sending,    \* whether its sender is alive
  buf,        \* the rows each writer has written to its temporary
  written,    \* what each writer thread returned
  sidecar     \* history: every closed row drained in this run

disk    == <<file, stateFile, temps, crashed, emitted>>
main    == <<pc, result, chunk, drained, closedSent, fed, sidecar>>
reading == <<reader, nextRow, readQ, readOpen>>
writing == <<writer, writeQ, sending, buf, written>>
model   == <<bank, skipTo>>
vars    == <<disk, run, cfg, main, reading, writing, model>>

NoFile  == [run |-> 0, rows |-> <<>>]
NoState == [run |-> 0, learned |-> <<>>, queue |-> <<>>,
            hadOut |-> FALSE, hadClosed |-> FALSE]
NoBank  == [learned |-> <<>>, queue |-> <<>>]

Chunk(f) == [kind |-> "chunk", rows |-> f]
End(ok)  == [kind |-> "end", ok |-> ok]

\* The group of a row, and the groups a bank that has learned up to row
\* `from` closes when a chunk ends with row `to`.
GroupOf(r) == (r + GroupRows - 1) \div GroupRows
ClosesBetween(from, to) ==
  LET first == IF from = 0 THEN 1 ELSE GroupOf(from)
  IN  [i \in 1 .. (IF to = 0 THEN 0 ELSE GroupOf(to) - first) |-> first + i - 1]
LastOf(s) == IF s = <<>> THEN 0 ELSE s[Len(s)]

\* The rows of a frame that Learned::unlearned keeps, by a mask of its rows,
\* and, for the mutants of this module (definitions named *Mutant, which no
\* action uses), a filter that was forgotten.
UnlearnedMutant(f) == f
Unlearned(f) ==
  LET mask == {i \in DOMAIN f : f[i] > skipTo}
      Kept(j) == CHOOSE i \in mask : Cardinality({k \in mask : k <= i}) = j
  IN  [j \in 1 .. Cardinality(mask) |-> f[Kept(j)]]

Running    == pc \notin {"idle", "returned"}
WriterLive(w) == writer[w] \notin {"absent", "done"}
HasRoomMutant(q) == Len(q) <= Capacity
HasRoom(q)    == Len(q) < Capacity
Fails(why)    == result' = why /\ pc' = "stop"

\* AtomicFile's Drop: the temporary of a writer that gives up is removed.
DropTempMutant(w) == UNCHANGED temps
DropTemp(w) == temps' = temps \ {<<w, run>>}

\* Whether the run tells each writer to publish, or drops its sender.
PublishesOutMutant == TRUE
PublishesOut == result = "ok"
PublishesClosedMutant == result = "ok"
PublishesClosed == result = "ok" \/ closedSent

\* A writer's own error ends a run that stood well, and replaces the error
\* of the channel it stopped.
ErrorReplacesMutant(w) == FALSE
ErrorReplacesOnlyOkMutant(w) == written[w] = "err" /\ result = "ok"
ErrorReplaces(w) == written[w] = "err" /\ result \in {"ok", "writer_stopped"}

\* Whether an empty frame stands for an input that fed none.
SendsEmptyMutant == FALSE
SendsEmpty == ~fed /\ cfg.out # "discard"

SavesStateMutant == cfg.save
SavesState == result = "ok" /\ cfg.save

\* drop(read_rx)
DropReceiverMutant == UNCHANGED <<readOpen, readQ>>
DropReceiver == readOpen' = FALSE /\ readQ' = <<>>

-----------------------------------------------------------------------------
Init ==
  /\ file = [w \in Writers |-> NoFile] /\ stateFile = NoState
  /\ temps = {} /\ crashed = {} /\ emitted = {} /\ run = 0
  /\ cfg = [out |-> "discard", closed |-> FALSE, save |-> FALSE, skip |-> FALSE,
            size |-> 1, avail |-> 0]
  /\ pc = "idle" /\ result = "ok" /\ chunk = <<>> /\ drained = <<>>
  /\ closedSent = FALSE /\ fed = FALSE /\ sidecar = <<>>
  /\ bank = NoBank /\ skipTo = 0
  /\ reader = "done" /\ nextRow = 1 /\ readQ = <<>> /\ readOpen = FALSE
  /\ writer = [w \in Writers |-> "absent"]
  /\ writeQ = [w \in Writers |-> <<>>]
  /\ sending = [w \in Writers |-> FALSE]
  /\ buf = [w \in Writers |-> <<>>]
  /\ written = [w \in Writers |-> "none"]

\* A run starts: the bank is loaded from the state on disk, with the rows it
\* has learned as the filter, or is fresh; the input has grown or not; the
\* threads are spawned.
StartRun ==
  /\ pc \in {"idle", "returned"} /\ run < MaxRuns
  /\ \E c \in Configs, size \in ChunkSizes, avail \in cfg.avail .. NRows :
       /\ c.skip => stateFile.run > 0
       /\ run' = run + 1
       /\ cfg' = [out |-> c.out, closed |-> c.closed, save |-> c.save,
                  skip |-> c.skip, size |-> size, avail |-> avail]
       /\ bank' = IF c.skip THEN [learned |-> stateFile.learned,
                                  queue |-> stateFile.queue]
                            ELSE NoBank
       /\ skipTo' = IF c.skip THEN LastOf(stateFile.learned) ELSE 0
       /\ writer' = [w \in Writers |->
                       IF \/ w = "out" /\ c.out = "file"
                          \/ w = "closed" /\ c.closed
                       THEN "create" ELSE "absent"]
  /\ sending' = [w \in Writers |-> TRUE]
  /\ writeQ' = [w \in Writers |-> <<>>] /\ buf' = [w \in Writers |-> <<>>]
  /\ written' = [w \in Writers |-> "none"]
  /\ reader' = "reading" /\ nextRow' = 1 /\ readQ' = <<>> /\ readOpen' = TRUE
  /\ pc' = "recv" /\ result' = "ok" /\ chunk' = <<>> /\ drained' = <<>>
  /\ closedSent' = FALSE /\ fed' = FALSE /\ sidecar' = <<>>
  /\ UNCHANGED disk

-----------------------------------------------------------------------------
(* The reader thread: read_plan and read_frames.                           *)

\* The next frame is sent.  A send waits for room while the receiver lives.
ReadChunk ==
  /\ reader = "reading" /\ nextRow <= cfg.avail
  /\ readOpen /\ HasRoom(readQ)
  /\ LET to == IF nextRow + cfg.size - 1 < cfg.avail
               THEN nextRow + cfg.size - 1 ELSE cfg.avail
     IN  /\ readQ' = Append(readQ, Chunk([i \in 1 .. to - nextRow + 1 |-> nextRow + i - 1]))
         /\ nextRow' = to + 1
  /\ UNCHANGED <<disk, run, cfg, main, writing, model, reader, readOpen>>

\* The query ends, well or with an error of the source's.
ReadEnds ==
  /\ reader = "reading" /\ readOpen
  /\ \/ nextRow > cfg.avail /\ reader' = "end_ok"
     \/ reader' = "end_err"
  /\ UNCHANGED <<disk, run, cfg, main, writing, model, nextRow, readQ, readOpen>>

ReadSendsEnd ==
  /\ reader \in {"end_ok", "end_err"} /\ readOpen /\ HasRoom(readQ)
  /\ readQ' = Append(readQ, End(reader = "end_ok"))
  /\ reader' = "done"
  /\ UNCHANGED <<disk, run, cfg, main, writing, model, nextRow, readOpen>>

\* A send on a channel whose receiver is gone fails, and the reader stops.
ReadGivesUp ==
  /\ reader # "done" /\ ~readOpen
  /\ reader' = "done"
  /\ UNCHANGED <<disk, run, cfg, main, writing, model, nextRow, readQ, readOpen>>

Reader == ReadChunk \/ ReadEnds \/ ReadSendsEnd \/ ReadGivesUp

-----------------------------------------------------------------------------
(* A writer thread: write_frames, over an AtomicFile.                      *)

\* Each write may fail; the temporary is removed and the receiver dropped.
WriterFails(w) ==
  /\ writer[w] \in {"create", "write", "finish"}
  /\ writer' = [writer EXCEPT ![w] = "done"]
  /\ written' = [written EXCEPT ![w] = "err"]
  /\ DropTemp(w)
  /\ UNCHANGED <<file, stateFile, crashed, emitted, run, cfg, main, reading,
                 model, writeQ, sending, buf>>

WriterCreates(w) ==
  /\ writer[w] = "create"
  /\ temps' = temps \cup {<<w, run>>}
  /\ writer' = [writer EXCEPT ![w] = "first"]
  /\ UNCHANGED <<file, stateFile, crashed, emitted, run, cfg, main, reading,
                 model, writeQ, sending, buf, written>>

\* An End with no frame before it is the code's internal error.
WriterReceives(w) ==
  /\ writer[w] \in {"first", "recv"} /\ writeQ[w] # <<>>
  /\ writeQ' = [writeQ EXCEPT ![w] = Tail(@)]
  /\ LET m == Head(writeQ[w])
         noFrames == m.kind = "end" /\ writer[w] = "first"
     IN  /\ writer' = [writer EXCEPT ![w] =
                         IF noFrames THEN "done"
                         ELSE IF m.kind = "end" THEN "finish" ELSE "write"]
         /\ written' = [written EXCEPT ![w] = IF noFrames THEN "err" ELSE @]
         /\ IF noFrames THEN DropTemp(w) ELSE UNCHANGED temps
         /\ buf' = [buf EXCEPT ![w] = IF m.kind = "end" THEN @ ELSE @ \o m.rows]
  /\ UNCHANGED <<file, stateFile, crashed, emitted, run, cfg, main, reading,
                 model, sending>>

WriterWrites(w) ==
  /\ writer[w] = "write"
  /\ writer' = [writer EXCEPT ![w] = "recv"]
  /\ UNCHANGED <<disk, run, cfg, main, reading, model, writeQ, sending, buf, written>>

\* The sender went away without End: a failed run.  The temporary is removed
\* and the thread returns without an error.
WriterDiscards(w) ==
  /\ writer[w] \in {"first", "recv"} /\ writeQ[w] = <<>> /\ ~sending[w]
  /\ DropTemp(w)
  /\ writer' = [writer EXCEPT ![w] = "done"]
  /\ written' = [written EXCEPT ![w] = "ok"]
  /\ UNCHANGED <<file, stateFile, crashed, emitted, run, cfg, main, reading,
                 model, writeQ, sending, buf>>

\* AtomicFile::commit: the complete temporary is renamed over the file.
WriterPublishes(w) ==
  /\ writer[w] = "finish"
  /\ file' = [file EXCEPT ![w] = [run |-> run, rows |-> buf[w]]]
  /\ temps' = temps \ {<<w, run>>}
  /\ writer' = [writer EXCEPT ![w] = "done"]
  /\ written' = [written EXCEPT ![w] = "ok"]
  /\ emitted' = IF w = "closed" THEN emitted \cup Range(buf[w]) ELSE emitted
  /\ UNCHANGED <<stateFile, crashed, run, cfg, main, reading, model,
                 writeQ, sending, buf>>

Writer(w) ==
  \/ WriterFails(w) \/ WriterCreates(w) \/ WriterReceives(w)
  \/ WriterWrites(w) \/ WriterDiscards(w) \/ WriterPublishes(w)

-----------------------------------------------------------------------------
(* The calling thread: run_with's loop, its end, and run_config_on's save. *)

\* A frame is received, and the rows the loaded state has learned dropped; a
\* frame with none left is not fed.  Filtering refuses what the bank would.
Receive ==
  /\ pc = "recv" /\ readQ # <<>>
  /\ readQ' = Tail(readQ)
  /\ LET m == Head(readQ) IN
       \/ /\ m.kind = "chunk"
          /\ chunk' = Unlearned(m.rows)
          /\ pc' = IF chunk' = <<>> THEN "recv" ELSE "augment"
          /\ UNCHANGED result
       \/ m.kind = "chunk" /\ cfg.skip /\ Fails("bank") /\ UNCHANGED chunk
       \/ m.kind = "end" /\ m.ok /\ pc' = "ended" /\ UNCHANGED <<result, chunk>>
       \/ m.kind = "end" /\ ~m.ok /\ Fails("source") /\ UNCHANGED chunk
  /\ UNCHANGED <<disk, run, cfg, drained, closedSent, fed, sidecar,
                 reader, nextRow, readOpen, writing, model>>

\* The bank learns the frame, closing the groups it passes, or refuses it
\* and is left as it was.
Augment ==
  /\ pc = "augment"
  /\ \/ /\ bank' = [learned |-> bank.learned \o chunk,
                    queue |-> bank.queue \o
                                ClosesBetween(LastOf(bank.learned), LastOf(chunk))]
        /\ pc' = "deliver" /\ UNCHANGED result
     \/ Fails("bank") /\ UNCHANGED bank
  /\ UNCHANGED <<disk, run, cfg, chunk, drained, closedSent, fed,
                 sidecar, reading, writing, skipTo>>

\* After the last frame, a run that fed none delivers an empty one.
AugmentEmpty ==
  /\ pc = "ended"
  /\ \/ ~SendsEmpty /\ pc' = "last_drain" /\ UNCHANGED <<result, chunk>>
     \/ SendsEmpty /\ pc' = "deliver_empty" /\ chunk' = <<>> /\ UNCHANGED result
     \/ SendsEmpty /\ Fails("bank") /\ UNCHANGED chunk
  /\ UNCHANGED <<disk, run, cfg, drained, closedSent, fed, sidecar,
                 reading, writing, model>>

\* The augmented frame goes to the writer, to the caller's callback, or
\* nowhere.  A send waits for room while the writer lives, and fails when it
\* does not.
Deliver ==
  /\ pc \in {"deliver", "deliver_empty"}
  /\ LET next == IF pc = "deliver" THEN "drain" ELSE "last_drain" IN
       \/ /\ cfg.out = "file" /\ WriterLive("out") /\ HasRoom(writeQ["out"])
          /\ writeQ' = [writeQ EXCEPT !["out"] = Append(@, Chunk(chunk))]
          /\ pc' = next /\ UNCHANGED result
       \/ /\ cfg.out = "file" /\ ~WriterLive("out")
          /\ Fails("writer_stopped") /\ UNCHANGED writeQ
       \/ /\ cfg.out = "batches"
          /\ \/ pc' = next /\ UNCHANGED result
             \/ Fails("callback")
          /\ UNCHANGED writeQ
       \/ /\ cfg.out = "discard" /\ pc' = next
          /\ UNCHANGED <<result, writeQ>>
  /\ UNCHANGED <<disk, run, cfg, chunk, drained, closedSent, fed, sidecar,
                 reading, writer, sending, buf, written, model>>

\* The bank's closed groups are drained, after every chunk and, when nothing
\* was sent, once more at the end so that the sidecar has a frame.
Drain ==
  /\ pc \in {"drain", "last_drain"}
  /\ LET sends == cfg.closed /\ (IF pc = "drain" THEN bank.queue # <<>> ELSE ~closedSent)
         next  == IF pc = "drain" THEN "progress" ELSE "stop"
     IN  /\ IF cfg.closed /\ (pc = "drain" \/ ~closedSent)
            THEN /\ drained' = bank.queue
                 /\ sidecar' = sidecar \o bank.queue
                 /\ bank' = [bank EXCEPT !.queue = <<>>]
            ELSE UNCHANGED <<drained, sidecar, bank>>
         /\ pc' = IF ~sends THEN next
                  ELSE IF pc = "drain" THEN "send_closed" ELSE "send_last_closed"
  /\ UNCHANGED <<disk, run, cfg, result, chunk, closedSent, fed,
                 reading, writing, skipTo>>

SendClosed ==
  /\ pc \in {"send_closed", "send_last_closed"}
  /\ \/ /\ WriterLive("closed") /\ HasRoom(writeQ["closed"])
        /\ writeQ' = [writeQ EXCEPT !["closed"] = Append(@, Chunk(drained))]
        /\ closedSent' = (closedSent \/ pc = "send_closed")
        /\ pc' = IF pc = "send_closed" THEN "progress" ELSE "stop"
        /\ UNCHANGED result
     \/ /\ ~WriterLive("closed")
        /\ Fails("writer_stopped") /\ UNCHANGED <<writeQ, closedSent>>
  /\ UNCHANGED <<disk, run, cfg, chunk, drained, fed, sidecar, reading,
                 writer, sending, buf, written, model>>

Progress ==
  /\ pc = "progress"
  /\ fed' = TRUE
  /\ \/ pc' = "recv" /\ UNCHANGED result
     \/ Fails("progress")
  /\ UNCHANGED <<disk, run, cfg, chunk, drained, closedSent, sidecar,
                 reading, writing, model>>

StopReader ==
  /\ pc = "stop" /\ DropReceiver
  /\ pc' = "end_closed"
  /\ UNCHANGED <<disk, run, cfg, result, chunk, drained, closedSent, fed,
                 sidecar, reader, nextRow, writing, model>>

\* A writer is ended: it is told to publish, or, its sender dropped without
\* End, to discard.  The End waits for room as any send does.
EndWriter(w, publish, from, to) ==
  /\ pc = from
  /\ IF publish /\ WriterLive(w)
     THEN HasRoom(writeQ[w]) /\ writeQ' = [writeQ EXCEPT ![w] = Append(@, End(TRUE))]
     ELSE UNCHANGED writeQ
  /\ sending' = [sending EXCEPT ![w] = FALSE]
  /\ pc' = to
  /\ UNCHANGED <<disk, run, cfg, result, chunk, drained, closedSent, fed,
                 sidecar, reading, writer, buf, written, model>>

\* The sidecar is published by a run that got here in full, and by one that
\* did not when it drained anything.
EndClosed ==
  cfg.closed /\ EndWriter("closed", PublishesClosed, "end_closed", "join_closed")

\* Only a run that got here in full publishes the output.
EndOut ==
  cfg.out = "file" /\ EndWriter("out", PublishesOut, "end_out", "join_out")

\* The closed groups' writer has returned.  Its failure ends a run that
\* stood well, and replaces a "writer stopped": the run then returns with the
\* output's sender dropped.
JoinClosed ==
  /\ pc = "join_closed" /\ writer["closed"] = "done"
  /\ IF ErrorReplaces("closed")
     THEN /\ result' = "io_closed" /\ pc' = "scope_end"
          /\ sending' = [sending EXCEPT !["out"] = FALSE]
     ELSE pc' = "end_out" /\ UNCHANGED <<result, sending>>
  /\ UNCHANGED <<disk, run, cfg, chunk, drained, closedSent, fed, sidecar,
                 reading, writer, writeQ, buf, written, model>>

JoinOut ==
  /\ pc = "join_out" /\ writer["out"] = "done"
  /\ result' = IF ErrorReplaces("out") THEN "io_out" ELSE result
  /\ pc' = "scope_end"
  /\ UNCHANGED <<disk, run, cfg, chunk, drained, closedSent, fed, sidecar,
                 reading, writing, model>>

\* A stage the run does not have is passed over.
NoWriter ==
  /\ \/ pc = "end_closed" /\ ~cfg.closed /\ pc' = "end_out"
     \/ pc = "end_out" /\ cfg.out # "file" /\ pc' = "scope_end"
  /\ UNCHANGED <<disk, run, cfg, result, chunk, drained, closedSent, fed,
                 sidecar, reading, writing, model>>

\* std::thread::scope returns once every thread has.
ScopeEnds ==
  /\ pc = "scope_end" /\ reader = "done"
  /\ \A w \in Writers : ~WriterLive(w)
  /\ pc' = IF SavesState THEN "save" ELSE "returned"
  /\ UNCHANGED <<disk, run, cfg, result, chunk, drained, closedSent, fed,
                 sidecar, reading, writing, model>>

\* Bank::save: the state is written to a temporary, then renamed into place.
Save ==
  /\ \/ /\ pc = "save"
        /\ temps' = temps \cup {<<"state", run>>}
        /\ pc' = "publish_state" /\ UNCHANGED <<result, stateFile>>
     \/ /\ pc \in {"save", "publish_state"}
        /\ temps' = temps \ {<<"state", run>>}
        /\ result' = "io_state" /\ pc' = "returned" /\ UNCHANGED stateFile
     \/ /\ pc = "publish_state"
        /\ stateFile' = [run |-> run, learned |-> bank.learned, queue |-> bank.queue,
                         hadOut |-> cfg.out = "file", hadClosed |-> cfg.closed]
        /\ temps' = temps \ {<<"state", run>>}
        /\ pc' = "returned" /\ UNCHANGED result
  /\ UNCHANGED <<file, crashed, emitted, run, cfg, chunk, drained, closedSent, fed,
                 sidecar, reading, writing, model>>

Main ==
  \/ Receive \/ Augment \/ AugmentEmpty \/ Deliver \/ Drain \/ SendClosed
  \/ Progress \/ StopReader \/ EndClosed \/ EndOut \/ JoinClosed \/ JoinOut
  \/ NoWriter \/ ScopeEnds \/ Save

\* The process dies.  The disk is what survives, the temporaries with it.
Crash ==
  /\ Running
  /\ crashed' = crashed \cup {run}
  /\ pc' = "idle" /\ result' = "ok" /\ chunk' = <<>> /\ drained' = <<>>
  /\ closedSent' = FALSE /\ fed' = FALSE /\ sidecar' = <<>>
  /\ bank' = NoBank
  /\ reader' = "done" /\ nextRow' = 1 /\ readQ' = <<>> /\ readOpen' = FALSE
  /\ writer' = [w \in Writers |-> "absent"]
  /\ writeQ' = [w \in Writers |-> <<>>] /\ buf' = [w \in Writers |-> <<>>]
  /\ sending' = [w \in Writers |-> FALSE]
  /\ written' = [w \in Writers |-> "none"]
  /\ UNCHANGED <<file, stateFile, temps, emitted, run, cfg, skipTo>>

\* The last run has returned: the program is over.
Finished ==
  ~Running /\ run = MaxRuns /\ UNCHANGED vars

Next ==
  \/ StartRun \/ Reader \/ (\E w \in Writers : Writer(w)) \/ Main
  \/ Crash \/ Finished

Spec == Init /\ [][Next]_vars

\* Each thread is scheduled by the operating system, so a thread that can
\* take a step takes one: the source yields or ends, a write ends.
Fairness ==
  /\ WF_vars(Reader) /\ WF_vars(Main)
  /\ \A w \in Writers : WF_vars(Writer(w))

FairSpec == Spec /\ Fairness

-----------------------------------------------------------------------------
Frames == UNION {[1 .. n -> Rows] : n \in 0 .. NRows}
Groups == UNION {[1 .. n -> Rows] : n \in 0 .. NRows}
Errors == {"source", "bank", "callback", "progress", "io_closed", "io_out", "io_state"}

TypeOK ==
  /\ file \in [Writers -> [run : 0 .. MaxRuns, rows : Frames]]
  /\ stateFile \in [run : 0 .. MaxRuns, learned : Frames, queue : Groups,
                    hadOut : BOOLEAN, hadClosed : BOOLEAN]
  /\ temps \subseteq Temps \X (1 .. MaxRuns)
  /\ crashed \subseteq 1 .. MaxRuns /\ emitted \subseteq Rows
  /\ run \in 0 .. MaxRuns /\ cfg.avail \in 0 .. NRows
  /\ pc \in {"idle", "returned", "recv", "augment", "deliver", "drain",
             "send_closed", "progress", "ended", "deliver_empty", "last_drain",
             "send_last_closed", "stop", "end_closed", "join_closed", "end_out",
             "join_out", "scope_end", "save", "publish_state"}
  /\ result \in {"ok", "writer_stopped"} \cup Errors
  /\ chunk \in Frames /\ drained \in Groups /\ sidecar \in Groups
  /\ closedSent \in BOOLEAN /\ fed \in BOOLEAN
  /\ bank \in [learned : Frames, queue : Groups] /\ skipTo \in 0 .. NRows
  /\ reader \in {"reading", "end_ok", "end_err", "done"}
  /\ nextRow \in 1 .. NRows + 1 /\ readOpen \in BOOLEAN /\ Len(readQ) <= Capacity
  /\ writer \in [Writers -> {"absent", "create", "first", "recv", "write",
                             "finish", "done"}]
  /\ sending \in [Writers -> BOOLEAN] /\ buf \in [Writers -> Frames]
  /\ written \in [Writers -> {"none", "ok", "err"}]
  /\ \A w \in Writers : Len(writeQ[w]) <= Capacity

\* A state file always has an output, and the closed rows, to go with it: a
\* run's state is on disk only when the run's own files are, or later ones
\* (run_config: "the state is saved last").
StateHasItsFiles ==
  /\ stateFile.hadOut => file["out"].run >= stateFile.run
  /\ stateFile.hadClosed => file["closed"].run >= stateFile.run

\* A run that ends with an error before its state is saved leaves the
\* previous output where it was; one that ends well has published its own.
\* The error it returns names its cause: the stopped channel it was noticed
\* by is always replaced by the writer's own error.
OutputGoesWithResult ==
  pc = "returned" =>
    /\ result # "writer_stopped"
    /\ cfg.out = "file" => (file["out"].run = run <=> result \in {"ok", "io_state"})

\* A closed row that left the bank is in the published sidecar, however the
\* run ended, unless the sidecar's own writer failed; then the run fails too.
DrainedRowsPublished ==
  pc = "returned" /\ cfg.closed =>
    IF written["closed"] = "ok"
    THEN sidecar # <<>> \/ result = "ok" =>
           file["closed"] = [run |-> run, rows |-> sidecar]
    ELSE result \notin {"ok", "io_state"}

\* Across runs, crashes and failures, every group that closed before the
\* saved position is in the saved queue or has been published.
NoClosedGroupLost ==
  stateFile.run > 0 =>
    Range(ClosesBetween(0, LastOf(stateFile.learned)))
      \subseteq emitted \cup Range(stateFile.queue)

\* With skip_learned a resumed run learns each row of the input once, in
\* order, however the chunks of the runs overlap.
LearnedOnce ==
  \A i \in 1 .. Len(bank.learned) : bank.learned[i] = i

\* A temporary outlives its run only when the process died in it.
NoLitter == ~Running => \A t \in temps : t[2] \in crashed

\* A writer is never ended before it had a frame to open its file on, which
\* the code answers with an internal error.
FrameBeforeEnd ==
  \A w \in Writers :
    writer[w] = "first" /\ writeQ[w] # <<>> => Head(writeQ[w]).kind = "chunk"

\* What run_config's documentation says of every error: "Whatever ends the
\* run leaves the previous `output` in place".
ErrorKeepsOutput ==
  pc = "returned" /\ result # "ok" => file["out"].run # run

\* No arrangement of blocked threads keeps a run from returning.
RunReturns == Running ~> ~Running

\* The disk goes through what a run promises.
Promise == INSTANCE RunPromise WITH from <- skipTo
KeepsPromise == Promise!Spec
=============================================================================
