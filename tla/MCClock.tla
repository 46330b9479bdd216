------------------------------ MODULE MCClock ------------------------------
(***************************************************************************)
(* Clock, with the settings and the values TLC feeds it.                   *)
(***************************************************************************)
EXTENDS Clock

Setting(column, policy, minBack, session, by) ==
  [column |-> column, cap |-> IF column THEN 2 ELSE 100, policy |-> policy, minBack |-> minBack,
   gap |-> session, gapBy |-> by]

\* The two policies for a step back, each kind of session step, one longer
\* than the cap, and the row count.
MCConfigs ==
  {Setting(TRUE, "error", 0, "gap", 1), Setting(TRUE, "reset_state", 1, "gap", 3),
   Setting(TRUE, "reset_state", 0, "reset", 0), Setting(TRUE, "error", 0, "none", 0),
   Setting(FALSE, "error", 0, "reset", 0), Setting(FALSE, "error", 0, "gap", 3)}

MCValues == {0, 1, 3, 6}
=============================================================================
