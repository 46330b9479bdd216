----------------------------- MODULE RunPromise -----------------------------
(***************************************************************************)
(* What a run of the program promises about the files it leaves, whatever  *)
(* its threads do and wherever it stops (the documentation of run_config   *)
(* and run_with in crates/online-polars/src/runner.rs): a file is the one  *)
(* it was or a complete new one, the output is published after the sidecar *)
(* of closed groups and the state after both, and the state has learned    *)
(* every row of the input once.                                            *)
(***************************************************************************)
EXTENDS Naturals, Sequences

CONSTANTS NRows, MaxRuns

VARIABLES
  file,       \* the output and the sidecar: the run that wrote each, its rows
  stateFile,  \* the saved bank
  run,        \* the number of the run in progress, or of the last one
  cfg,        \* its configuration, and the number of its input rows
  from        \* the last row it does not process

vars == <<file, stateFile, run, cfg, from>>

RowsTo(a, b) == [i \in 1 .. (b - a) |-> a + i]

Begin ==
  /\ run < MaxRuns /\ run' = run + 1
  /\ cfg'.avail \in cfg.avail .. NRows
  /\ from' \in {0, Len(stateFile.learned)}
  /\ UNCHANGED <<file, stateFile>>

\* The sidecar is published once, with groups in the order they closed.
PublishClosed ==
  /\ cfg.closed /\ file["closed"].run < run /\ file["out"].run < run
  /\ file'["closed"].run = run
  /\ \A i \in 1 .. Len(file'["closed"].rows) - 1 :
        file'["closed"].rows[i + 1] = file'["closed"].rows[i] + 1
  /\ file' = [file EXCEPT !["closed"] = file'["closed"]]
  /\ UNCHANGED <<stateFile, run, cfg, from>>

\* The output is published once, with every row of the run.
PublishOut ==
  /\ cfg.out = "file" /\ file["out"].run < run
  /\ cfg.closed => file["closed"].run = run
  /\ file' = [file EXCEPT !["out"] =
                [run |-> run, rows |-> RowsTo(from, cfg.avail)]]
  /\ UNCHANGED <<stateFile, run, cfg, from>>

\* The state is saved last, with every row learned once.
SaveState ==
  /\ cfg.save /\ stateFile.run < run
  /\ cfg.out = "file" => file["out"].run = run
  /\ cfg.closed => file["closed"].run = run
  /\ stateFile'.run = run /\ stateFile'.learned = RowsTo(0, cfg.avail)
  /\ UNCHANGED <<file, run, cfg, from>>

Init ==
  /\ run = 0 /\ from = 0 /\ cfg.avail = 0
  /\ \A w \in DOMAIN file : file[w].run = 0
  /\ stateFile.run = 0 /\ stateFile.learned = <<>>

Next == Begin \/ PublishClosed \/ PublishOut \/ SaveState

Spec == Init /\ [][Next]_vars
=============================================================================
