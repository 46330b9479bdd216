---------------------------- MODULE BankPromise ----------------------------
(***************************************************************************)
(* What a bank promises its caller (crates/online-polars/src/bank.rs and   *)
(* the README's "A refused chunk leaves the bank as it was"): however the  *)
(* rows are cut into chunks, the bank is the bank they make one at a time; *)
(* a chunk is taken whole or not at all; a closed group is never opened    *)
(* again; and the queue of closed rows and a saved file are those of the   *)
(* rows whose output was returned.                                         *)
(***************************************************************************)
EXTENDS Integers, SequencesExt

CONSTANTS Keys,       \* the values of the group column, positive integers
          TextRank,   \* where each key stands among the keys' texts
          Sessions,   \* the values of the session column, positive integers
          RefitRoom   \* the groups a spec's refit_budget holds

VARIABLES specs,      \* the bank's specs, a sequence of records
          open,       \* per spec, its open groups
          mark,       \* per monotone spec, the key of the row before
          reserved,   \* per spec, the refit buffers reserved
          form,       \* the form of the group column
          fed,        \* the rows taken
          queue,      \* the closed rows not read, oldest first
          drained,    \* the closed rows handed out
          saved,      \* the bank and the rows handed out, as saved last
          void        \* whether a call failed once its rows were learned
bankVars == <<open, mark, reserved, form, fed, queue>>
vars == <<specs, bankVars, drained, saved, void>>

SpecIds == DOMAIN specs
None == 0

(* The order of the keys: an integer column's as numbers, a text column's  *)
(* as text.                                                                *)
Less(f, a, b) ==
  IF f = "integer" THEN a < b ELSE TextRank[a] < TextRank[b]

Row == [g : Keys, s : Sessions]

Bank == [open |-> open, mark |-> mark, reserved |-> reserved, form |-> form, fed |-> fed,
         queue |-> queue]
Becomes(b) ==
  /\ queue' = b.queue /\ fed' = b.fed /\ form' = b.form
  /\ open' = b.open /\ mark' = b.mark /\ reserved' = b.reserved

-----------------------------------------------------------------------------
(* The groups of spec i that row closes, of those open.                    *)
Closing(b, i, row) ==
  CASE specs[i].close = "monotone" ->
         {k \in DOMAIN b.open[i] : Less(b.form, k, row.g)}
    [] specs[i].close = "session" ->
         {k \in DOMAIN b.open[i] \cap {row.g} : b.open[i][k].session # row.s}
    [] OTHER -> {}

GivenUp(b, i, k) ==
  IF k \in DOMAIN b.open[i] THEN b.open[i][k].givenUp
  ELSE specs[i].refit /\ b.reserved[i] >= RefitRoom

(* Spec i's groups once row is learned, as row number n.                   *)
OpenAfter(b, i, row, n) ==
  LET closing == Closing(b, i, row)
      kept == DOMAIN b.open[i] \ closing
  IN [k \in kept \cup {row.g} |->
        IF k = row.g
        THEN [rows |-> IF k \in kept THEN Append(b.open[i][k].rows, n) ELSE <<n>>,
              session |-> IF specs[i].close = "session" THEN row.s ELSE None,
              givenUp |-> GivenUp(b, i, k)]
        ELSE b.open[i][k]]

ClosedAt(b, i, row) ==
  [j \in 1..IF Closing(b, i, row) = {} THEN 0 ELSE 1 |->
     LET k == CHOOSE x \in Closing(b, i, row) : TRUE
     IN [spec |-> i, group |-> k, session |-> b.open[i][k].session, rows |-> b.open[i][k].rows]]

(* One row taken by every spec.                                            *)
TakeRow(b, row) ==
  [b EXCEPT
     !.open = [i \in SpecIds |-> OpenAfter(b, i, row, b.fed + 1)],
     !.mark = [i \in SpecIds |-> IF specs[i].close = "monotone" THEN row.g ELSE None],
     !.reserved = [i \in SpecIds |->
        @[i] + IF specs[i].refit /\ row.g \notin DOMAIN b.open[i] /\ @[i] < RefitRoom
               THEN 1 ELSE 0],
     !.fed = @ + 1,
     !.queue = FoldLeft(LAMBDA q, i : q \o ClosedAt(b, i, row), @, [i \in SpecIds |-> i])]

(* Rows whose keys a monotone spec can take: none below the one before.    *)
InOrder(b, rows) ==
  \A i \in SpecIds : specs[i].close = "monotone" =>
    \A n \in DOMAIN rows :
      LET before == IF n = 1 THEN b.mark[i] ELSE rows[n - 1].g
      IN before # None => ~Less(b.form, rows[n].g, before)

-----------------------------------------------------------------------------
Init ==
  /\ open = [i \in SpecIds |-> <<>>] /\ mark = [i \in SpecIds |-> None]
  /\ reserved = [i \in SpecIds |-> 0] /\ form = "none" /\ fed = 0 /\ queue = <<>>
  /\ drained = <<>> /\ saved = [bank |-> Bank, drained |-> <<>>] /\ void = FALSE

(* A call that returns its output.                                         *)
TakeChunk == \E f \in {"integer", "text"} :
  /\ form' = f /\ form \in {"none", f}
  /\ fed' >= fed /\ UNCHANGED <<drained, saved>>
  /\ \E rows \in [1..(fed' - fed) -> Row] :
       LET b == [Bank EXCEPT !.form = f]
       IN InOrder(b, rows) /\ Becomes(FoldLeft(TakeRow, b, rows))

(* Groups forgotten, in every spec or in one.                              *)
Drop ==
  /\ open' # open
  /\ UNCHANGED <<mark, reserved, form, fed, queue, drained, saved>>
  /\ \E gone \in SUBSET Keys, S \in {{i} : i \in SpecIds} \cup {SpecIds} :
       open' = [i \in SpecIds |->
         IF i \in S THEN [k \in DOMAIN open[i] \ gone |-> open[i][k]] ELSE open[i]]

(* The closed rows handed out, those of every spec or of one.              *)
Drain ==
  /\ queue' # queue
  /\ UNCHANGED <<open, mark, reserved, form, fed, saved>>
  /\ \E S \in {{i} : i \in SpecIds} \cup {SpecIds} :
       /\ drained' = drained \o SelectSeq(queue, LAMBDA r : r.spec \in S)
       /\ queue' = SelectSeq(queue, LAMBDA r : r.spec \notin S)

Save ==
  /\ saved' # saved /\ saved' = [bank |-> Bank, drained |-> drained]
  /\ UNCHANGED <<bankVars, drained>>

Reload ==
  /\ drained' = saved.drained /\ UNCHANGED saved
  /\ Becomes(saved.bank)

(* Nothing is promised of a bank once a call failed with its rows learned. *)
Keeps ==
  /\ TakeChunk \/ Drop \/ Drain \/ Save \/ Reload
  /\ UNCHANGED <<specs, void>>

Next == Keeps \/ void'

Spec == Init /\ [][Next]_vars
=============================================================================
