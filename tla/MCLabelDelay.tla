---------------------------- MODULE MCLabelDelay ----------------------------
(***************************************************************************)
(* LabelDelay, with specs and rows small enough for TLC.                   *)
(***************************************************************************)
EXTENDS LabelDelay

Clk(policy, gapKind, by) ==
  [column |-> TRUE, cap |-> 2, policy |-> policy, minBack |-> 0, gap |-> gapKind, gapBy |-> by]

Row(at, session, accept, w, label, closes) ==
  [at |-> at, session |-> session, accept |-> accept, w |-> w, label |-> label,
   closes |-> closes]

Plain == [clk |-> Clk("error", "none", 0), holds |-> {"embargo"}, by |-> 1, drift |-> FALSE,
          maxHeld |-> 0, dropOldest |-> FALSE, maxRows |-> 5,
          rows |-> {Row(at, 0, accept, 1, NoLabel, 0) : at \in {0, 1, 3}, accept \in BOOLEAN}]

(* Held by a delay, with steps back and drifts that restart the models.    *)
Drifting == [Plain EXCEPT !.clk = Clk("reset_state", "none", 0), !.drift = TRUE]

(* Sessions, whose change takes a step, longer than the cap, or restarts.  *)
SessionRows == {Row(at, session, accept, 1, NoLabel, 0) :
                  at \in {0, 2}, session \in Sessions, accept \in BOOLEAN}
Sessional == [Plain EXCEPT !.clk = Clk("error", "gap", 3), !.by = 2, !.drift = TRUE,
                           !.rows = SessionRows]
Starting  == [Sessional EXCEPT !.clk = Clk("reset_state", "reset", 0)]

(* Held until the windows of a target close, with a delay and without.     *)
FormulaRows == {Row(at, 0, accept, 1, NoLabel, closes) :
                  at \in {0, 1}, accept \in BOOLEAN, closes \in 0 .. 2}
Targets == [Drifting EXCEPT !.holds = {"formula"}, !.rows = FormulaRows]
Both    == [Targets EXCEPT !.holds = {"formula", "embargo"},
                           !.rows = {r \in FormulaRows : r.closes # 1}]

(* Held until a label one delay behind the row.                            *)
LabelBehind == [Plain EXCEPT !.clk = Clk("reset_state", "none", 0), !.holds = {"label"},
                  !.rows = {Row(at, 0, accept, 1, at + 1, 0) :
                              at \in {0, 1, 3, 4}, accept \in BOOLEAN}]

(* Held until a label of its own, in buffers of two.                       *)
LabelRows ==
  {Row(0, 0, FALSE, 1, NoLabel, 0)}
    \cup {Row(at, 0, TRUE, 1, label, 0) : at \in {0, 1}, label \in {NoLabel, 1, 2, 3}}
    \cup {Row(1, 0, TRUE, 0, 3, 0)}
Dropping == [Plain EXCEPT !.clk = Clk("reset_state", "none", 0), !.holds = {"label"}, !.by = 0,
                          !.maxHeld = 2, !.dropOldest = TRUE, !.rows = LabelRows]
Filling  == [Dropping EXCEPT !.dropOldest = FALSE, !.rows = {r \in LabelRows : r.label # 2}]

MCSettings == {Drifting, Sessional, Starting, Targets, Both, LabelBehind, Dropping, Filling}
LabelSettings == {LabelBehind}
MCValues == 0 .. 5
=============================================================================
