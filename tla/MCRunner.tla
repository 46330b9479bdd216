------------------------------ MODULE MCRunner ------------------------------
(***************************************************************************)
(* Runner, with the run configurations TLC starts.                         *)
(***************************************************************************)
EXTENDS Runner

Config(out, closed, save, skip) ==
  [out |-> out, closed |-> closed, save |-> save, skip |-> skip]

\* Runs that resume from one another's state, with and without an output and a
\* sidecar, and runs that hand their frames on and keep no state.
RunConfigs ==
  {Config("file", TRUE, TRUE, FALSE), Config("file", TRUE, TRUE, TRUE),
   Config("discard", FALSE, TRUE, TRUE), Config("batches", FALSE, FALSE, FALSE)}
=============================================================================
