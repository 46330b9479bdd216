------------------------------- MODULE MCBank -------------------------------
(***************************************************************************)
(* Banks small enough for TLC. The keys 9 and 10 are in one order as       *)
(* numbers and in the other as text.                                       *)
(***************************************************************************)
EXTENDS Bank

Plain == [close |-> "never", target |-> "column", ring |-> "none", compares |-> FALSE,
          refit |-> FALSE]

(* Two rows in chunks of two, no notice, and every output assembled.       *)
Quiet == [specs |-> <<Plain>>, sessions |-> {1}, noticeAt |-> 9, unreadable |-> FALSE,
          calls |-> {"drain", "drop", "save"}, maxLate |-> 0, maxRows |-> 2, maxFed |-> 2]

(* Groups that close, both ways, the second kind with refit buffers.       *)
ClosingGroups ==
  [Quiet EXCEPT !.specs = <<[Plain EXCEPT !.close = "monotone"],
                            [Plain EXCEPT !.close = "session", !.refit = TRUE]>>,
                !.sessions = {1, 2}]
LongerClosing(calls, rows) == [ClosingGroups EXCEPT !.calls = calls, !.maxFed = rows]

(* One core, that a strict cast, a ring the pre-pass replays and a ring it *)
(* is blind to may each refuse after it was fed.                           *)
Cores ==
  [Quiet EXCEPT !.specs = <<[Plain EXCEPT !.target = "cast", !.ring = "blind"],
                            [Plain EXCEPT !.ring = "replayed", !.refit = TRUE]>>]

(* Two specs with cores, so that one can refuse after the other's is built.*)
Refusing ==
  [Quiet EXCEPT !.specs = <<[Plain EXCEPT !.target = "formula", !.ring = "replayed"],
                            [Plain EXCEPT !.target = "cast", !.refit = TRUE]>>,
                !.calls = {"drop"}]

(* A core that may not be resumed, behind a spec with a ring.              *)
Resuming ==
  [Quiet EXCEPT !.specs = <<[Plain EXCEPT !.ring = "replayed"],
                            [Plain EXCEPT !.target = "cast", !.refit = TRUE]>>,
                !.unreadable = TRUE]

(* Groups of spans, whose notices a failed call leaves in their streams.   *)
Spans ==
  [Quiet EXCEPT !.specs = <<[Plain EXCEPT !.close = "session"]>>,
                !.sessions = {1, 2}, !.noticeAt = 1, !.calls = {"drop", "save"},
                !.maxLate = 1, !.maxRows = 1]

(* Groups that close, and a comparison that learns after them.             *)
Comparing ==
  [Quiet EXCEPT !.specs = <<[Plain EXCEPT !.close = "monotone"],
                            [Plain EXCEPT !.compares = TRUE, !.close = "session"]>>,
                !.sessions = {1, 2}, !.noticeAt = 1]

(* One spec with a formula target, whose columns may come unreadable.      *)
Unread ==
  [Quiet EXCEPT !.specs = <<[Plain EXCEPT !.target = "formula"]>>,
                !.unreadable = TRUE, !.maxRows = 1]

BankSetups ==
  {ClosingGroups, LongerClosing({"drain", "drop"}, 3), LongerClosing({"drain"}, 4),
   Cores, Refusing, Resuming, Spans, Comparing}
UnreadSetup == {Unread}

MCKeys == {9, 10}
MCTextRank == [k \in MCKeys |-> IF k = 10 THEN 1 ELSE 2]
=============================================================================
