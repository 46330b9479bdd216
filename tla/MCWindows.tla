----------------------------- MODULE MCWindows -----------------------------
(***************************************************************************)
(* Windows, with kernels, policies and rows small enough for TLC.  A row's *)
(* clock is given as its step from the row before it in the stream.        *)
(***************************************************************************)
EXTENDS Windows

Looks(back, window, closed, stat, partial) ==
  [back |-> back, window |-> window, closed |-> closed, stat |-> stat, partial |-> partial]
Steps(gs, gaps, sessions, has, accepts) ==
  [group : gs, at : gaps, session : sessions, has : has, accept : accepts]

(* One group, values that may be null, and both ways of looking.           *)
One(closed) ==
  [kernels |-> <<Looks(TRUE, 2, closed, "mean", "keep"), Looks(FALSE, 2, closed, "mean", "keep")>>,
   clocked |-> TRUE, grouped |-> FALSE, groups |-> {1}, gapCap |-> 3, minBack |-> 0,
   session |-> "cut", drains |-> FALSE, maxRows |-> 4,
   rows |-> Steps({1}, {0, 1, 2, 4}, {0}, BOOLEAN, {TRUE})]

(* Counts and rates, of windows that are null or drop their row when cut.  *)
Counted ==
  [One("both") EXCEPT
     !.kernels = <<Looks(TRUE, 2, "both", "rate", "null"), Looks(FALSE, 3, "left", "sum", "drop"),
                   Looks(FALSE, 2, "right", "rate", "keep")>>,
     !.rows = Steps({1}, {0, 1, 2, 4}, {0}, {TRUE}, BOOLEAN)]

(* Two far edges to wait for, and a window over all of the past.           *)
TwoAhead ==
  [One("left") EXCEPT
     !.kernels = <<Looks(FALSE, 1, "right", "sum", "null"), Looks(FALSE, 3, "left", "mean", "keep"),
                   Looks(TRUE, 0, "right", "mean", "keep")>>,
     !.maxRows = 5, !.rows = Steps({1}, {0, 1, 3, 4}, {0}, {TRUE}, {TRUE})]

(* Two groups in turn, at one stamp or past the cap.                       *)
TwoGroups(closed) ==
  [One(closed) EXCEPT
     !.kernels = <<Looks(TRUE, 2, closed, "mean", "keep"), Looks(FALSE, 1, closed, "sum", "drop")>>,
     !.grouped = TRUE, !.groups = {1, 2}, !.gapCap = 2,
     !.maxRows = 5, !.rows = Steps({1, 2}, {0, 1, 3}, {0}, {TRUE}, {TRUE})]

(* Sessions that end stretches of rows, of the stream or of a group.       *)
Sessions(grouped, session) ==
  [One("both") EXCEPT
     !.grouped = grouped, !.groups = IF grouped THEN {1, 2} ELSE {1}, !.session = session,
     !.maxRows = 5,
     !.rows = Steps(IF grouped THEN {1, 2} ELSE {1}, {1} \cup (IF grouped THEN {} ELSE {-1}),
                    {0, 1}, {TRUE}, {TRUE})]

(* Clocks that step back, far enough to start over or to be refused.       *)
Restarting ==
  [TwoGroups("right") EXCEPT !.minBack = 1, !.rows = Steps({1, 2}, {-2, -1, 0, 1}, {0}, {TRUE}, {TRUE})]

(* Rows that leave as they are ready, and a state read back between.       *)
Drained ==
  [One("right") EXCEPT !.drains = TRUE, !.rows = Steps({1}, {1, 2}, {0}, BOOLEAN, {TRUE})]

(* Without a clock a row is a step, of one group or of two.                *)
RowCount ==
  [One("both") EXCEPT !.clocked = FALSE, !.maxRows = 5,
                      !.rows = Steps({1}, {1}, {0}, BOOLEAN, BOOLEAN)]
RowCounts ==
  [TwoGroups("both") EXCEPT !.clocked = FALSE, !.maxRows = 6,
                            !.rows = Steps({1, 2}, {1}, {0}, BOOLEAN, {TRUE})]

MCSettings ==
  {One(closed) : closed \in {"right", "left", "both", "none"}}
    \cup {Counted, TwoAhead, TwoGroups("right"), TwoGroups("none"), Restarting, Drained, RowCount, RowCounts}
    \cup {Sessions(grouped, session) : grouped \in BOOLEAN, session \in {"cut", "reset"}}
=============================================================================
