---------------------------- MODULE MCWindowRing ----------------------------
(***************************************************************************)
(* WindowRing, with windows, budgets and rows small enough for TLC.        *)
(***************************************************************************)
EXTENDS WindowRing

Rows(gaps, accepts, opens, odds) ==
  {r \in [gap : gaps, accept : accepts, opens : opens, odd : odds] : r.opens => r.accept}
Budget(kind, bytes) == [kind |-> kind, bytes |-> bytes]

Plain == [window |-> 4, every |-> 0, spacing |-> 2, closed |-> "right",
          budget |-> Budget("none", 0), embargo |-> 0, session |-> "none", drift |-> FALSE,
          prepass |-> TRUE, maxRows |-> 6,
          rows |-> Rows(0 .. 3, {TRUE}, {FALSE}, {FALSE})]

(* Edges and cadences, with no budget.                                     *)
Spaced  == [Plain EXCEPT !.closed = "both"]
Counted == [Plain EXCEPT !.every = 3, !.spacing = 0]
Either  == [Plain EXCEPT !.every = 3, !.spacing = 3, !.closed = "both"]

(* A budget of three snapshots, thinned on the clock and in rows.          *)
Thin     == [Plain EXCEPT !.budget = Budget("thin", 3), !.spacing = 1, !.window = 6,
                          !.maxRows = 6, !.rows = Rows(0 .. 2, {TRUE}, {FALSE}, BOOLEAN)]
ThinRows == [Thin EXCEPT !.every = 1, !.spacing = 0, !.budget = Budget("thin", 2)]

(* A budget that refuses, past rows that are skipped, held, or restart the *)
(* model or the stream, by a bank that looks ahead and by one that does not.*)
Refuse  == [Plain EXCEPT !.budget = Budget("refuse", 2), !.every = 1, !.spacing = 0,
                         !.closed = "both", !.window = 2, !.prepass = FALSE,
                         !.rows = Rows({0, 1, 3}, BOOLEAN, {FALSE}, {FALSE})]
Skipped == [Refuse EXCEPT !.every = 2, !.prepass = TRUE]
Held    == [Refuse EXCEPT !.embargo = 2, !.every = 2]
Resets  == [Refuse EXCEPT !.session = "reset", !.embargo = 1,
                          !.rows = Rows({0, 1}, {TRUE}, BOOLEAN, {FALSE})]
Closes  == [Resets EXCEPT !.session = "closes", !.embargo = 0]
Grows   == [Refuse EXCEPT !.rows = Rows({0, 1, 3}, {TRUE}, {FALSE}, BOOLEAN),
                          !.budget = Budget("refuse", 3)]
Drifts  == [Refuse EXCEPT !.drift = TRUE, !.prepass = TRUE, !.embargo = 1,
                          !.rows = Rows({0, 1}, {TRUE}, {FALSE}, {FALSE})]

MCSettings == {Spaced, Counted, Either, Thin, ThinRows, Refuse, Skipped, Held, Resets, Closes,
               Grows, Drifts}
DriftSettings == {[Drifts EXCEPT !.embargo = 0]}
=============================================================================
