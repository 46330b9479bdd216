-------------------------------- MODULE Bank --------------------------------
(***************************************************************************)
(* A bank and a call of its fit_predict                                    *)
(* (crates/online-polars/src/bank.rs, and resolvers.rs for the window      *)
(* cores of formula targets).                                              *)
(*                                                                         *)
(* A bank keeps, per spec, one stream per group of rows. A call takes a    *)
(* chunk of rows of any groups: it checks every stream's part of it, feeds *)
(* the window cores, replays the window rings, and only then lets the      *)
(* streams learn, in parallel, each a task of its own. Each of these steps *)
(* may refuse the chunk, and has to leave the bank as it was. What cannot  *)
(* be undone, a refusal found as the rows are learned, breaks the bank.    *)
(*                                                                         *)
(* A stream is modelled by the numbers of the rows it holds, a core by     *)
(* those it was fed. Rows are numbered from 1 over the bank's life. A call *)
(* has the bank to itself, so the steps of one call meet no other call;    *)
(* the process may die at any of them.                                     *)
(*                                                                         *)
(* A definition named *Mutant is a plausible mistake in the one of that    *)
(* name after it, and no action uses it.                                   *)
(***************************************************************************)
EXTENDS Integers, SequencesExt

CONSTANTS Setups,      \* the banks to be checked, each with its bounds
          Keys,        \* the values of the group column, positive integers
          TextRank,    \* where each key stands among the keys' texts
          Sessions,    \* the values of the session column, positive integers
          RefitRoom    \* the groups whose refit buffers fit in a refit_budget

(* What a spec says that a call's control depends on: when its groups      *)
(* close; whether its target is a formula, with a strict cast or not; the  *)
(* window ring it keeps under a refusing window_budget, which the pre-pass *)
(* can replay or (drift_action = "reset") is blind to; whether it compares *)
(* two other specs; whether its groups reserve refit buffers.              *)
SpecKinds == [close : {"never", "monotone", "session"}, target : {"column", "formula", "cast"},
              ring : {"none", "replayed", "blind"}, compares : BOOLEAN, refit : BOOLEAN]

(* group_close is refused with a formula target, and a comparison has no   *)
(* formula, no ring and no refits of its own (spec.rs:2815, bank.rs:3147). *)
ASSUME SpecsAssumption == \A b \in Setups :
  /\ b.specs \in Seq(SpecKinds) /\ b.specs # <<>>
  /\ \A i \in DOMAIN b.specs :
       /\ b.specs[i].close # "never" => b.specs[i].target = "column"
       /\ b.specs[i].compares => /\ b.specs[i].target = "column"
                                /\ b.specs[i].ring = "none" /\ ~b.specs[i].refit
ASSUME ValuesAssumption ==
  /\ Keys \subseteq Nat \ {0} /\ Sessions \subseteq Nat \ {0}
  /\ TextRank \in [Keys -> Nat] /\ RefitRoom \in Nat
  /\ \A a, b \in Keys : TextRank[a] = TextRank[b] => a = b
  /\ \A b \in Setups :
       /\ b.sessions \subseteq Sessions /\ b.unreadable \in BOOLEAN
       /\ b.noticeAt \in Nat \ {0}
       /\ b.calls \subseteq {"drain", "drop", "save"}
       /\ b.maxLate \in Nat /\ b.maxRows \in Nat /\ b.maxFed \in Nat

VARIABLES
  setup,        \* the bank, and the bounds it is checked in
  states,       \* per spec, the stream of each group
  resolvers,    \* per spec, its groups' window cores, running and loaded
  reserved,     \* per spec, the refit buffers its groups reserved
  noticed,      \* per spec, whether reaching refit_budget has been said
  highWater,    \* per monotone spec, the largest key seen
  keyForm,      \* the form of the group column, as first taken
  closed,       \* the closed rows not read yet, oldest first
  rowsFed,      \* the rows of completed calls
  notices,      \* the notices not taken yet
  noticesLeft,  \* whether streams outside a call's chunk may hold notices
  broken,       \* whether a chunk was refused after some of it was learned
  call,         \* the call under way
  file,         \* the last file saved
  drained,      \* history: the closed rows handed out
  owed,         \* history: the notices raised and not yet taken, as a bag
  refitsSaid,   \* history: per spec, how often reaching refit_budget was said
  late,         \* history: the calls whose output could not be assembled
  was           \* history: the bank as the call under way, or the one that
                \* broke it, found it

(* The specs, the rows after which a stream's models raise a notice, and   *)
(* whether a formula's columns may come as no core reads them; the bounds: *)
(* the bank's other calls that are made, the calls whose output cannot be  *)
(* assembled, the rows of a chunk and the rows the bank takes.             *)
Specs == setup.specs
NoticeAt == setup.noticeAt
Unreadable == setup.unreadable
Calls == setup.calls
MaxLate == setup.maxLate
MaxRows == setup.maxRows
MaxFed == setup.maxFed

SpecIds == DOMAIN Specs
None == 0
kept == <<states, resolvers, reserved, highWater, keyForm, closed, rowsFed>>
history == <<drained, owed, refitsSaid, late, was>>
vars == <<setup, kept, noticed, notices, noticesLeft, broken, call, file, history>>

Formulas == {i \in SpecIds : Specs[i].target # "column"}
Row == [g : Keys, s : setup.sessions]
Chunks == UNION {[1..n -> Row] : n \in 0..MaxRows}
Idle == [step |-> "idle", rows |-> <<>>, todo |-> {}]

(* The bank as it stands, for a file and for the history.                  *)
Standing == [states |-> states, resolvers |-> resolvers, reserved |-> reserved,
             highWater |-> highWater, keyForm |-> keyForm, closed |-> closed, rowsFed |-> rowsFed]

-----------------------------------------------------------------------------
(* Keys and rows                                                           *)

Less(form, a, b) ==
  IF form = "integer" THEN a < b ELSE TextRank[a] < TextRank[b]

(* The members of S in an order: the n-th has n - 1 others before it.      *)
Sorted(S, before(_, _)) ==
  [n \in 1..Cardinality(S) |-> CHOOSE x \in S : Cardinality({y \in S : before(y, x)}) = n - 1]
Ascending(S) == Sorted(S, LAMBDA a, b : a < b)

GroupsIn(rows) == {rows[n].g : n \in DOMAIN rows}
RowsOf(rows, k) == Ascending({n \in DOMAIN rows : rows[n].g = k})
FirstRow(rows, k) == CHOOSE n \in DOMAIN rows :
  rows[n].g = k /\ \A m \in 1..(n - 1) : rows[m].g # k

(* How many of the groups in S have a row before group k's first.          *)
Before(rows, S, k) == Cardinality({h \in S : FirstRow(rows, h) < FirstRow(rows, k)})

InOrderMutant(rows, form, mark) ==
  \A n \in DOMAIN rows :
    n > 1 => ~Less(form, rows[n].g, rows[n - 1].g)

(* The keys a monotone spec takes: in order, and none below its mark.      *)
InOrder(rows, form, mark) ==
  \A n \in DOMAIN rows :
    LET before == IF n = 1 THEN mark ELSE rows[n - 1].g
    IN before # None => ~Less(form, rows[n].g, before)

-----------------------------------------------------------------------------
(* Streams                                                                 *)

NewStream(givenUp) == [rows |-> <<>>, session |-> None, pending |-> <<>>, givenUp |-> givenUp]

(* The places in own, the chunk's rows of one stream, where the session    *)
(* changes: each is the first row of a new span.                           *)
SessionBounds(rows, st, own) ==
  {j \in DOMAIN own :
     LET before == IF j = 1 THEN st.session ELSE rows[own[j - 1]].s
     IN before \notin {None, rows[own[j]].s}}

(* The span that holds own[j], up to that row; the stream as it stood for  *)
(* j = 0.                                                                  *)
Span(st, own, base, bounds, j) ==
  LET cuts == {b \in bounds : b <= j}
      first == IF cuts = {} THEN 1 ELSE CHOOSE b \in cuts : \A c \in cuts : c <= b
  IN (IF cuts = {} THEN st.rows ELSE <<>>) \o [n \in 1..(j + 1 - first) |-> base + own[first + n - 1]]

Bounds(i, rows, st, own) ==
  IF Specs[i].close = "session" THEN SessionBounds(rows, st, own) ELSE {}

(* The notices the rows of own raise.                                      *)
Raised(i, k, rows, st, own, base) ==
  LET bounds == Bounds(i, rows, st, own)
      at == Ascending({j \in DOMAIN own : Len(Span(st, own, base, bounds, j)) = NoticeAt})
  IN [n \in DOMAIN at |-> [spec |-> i, group |-> k, row |-> base + own[at[n]], span |-> None]]

Named(pending, session) ==
  [n \in DOMAIN pending |-> IF pending[n].span = None THEN [pending[n] EXCEPT !.span = session]
                            ELSE pending[n]]

CarriedMutant(st, said, rows, base, ends) ==
  IF ends = {} THEN st.pending \o said
  ELSE SelectSeq(said, LAMBDA n : \A e \in ends : n.row >= e)

(* The notices a stream holds once its spans end at the rows in ends: a    *)
(* span's take its session's name and go on to the next span's stream.     *)
Carried(st, said, rows, base, ends) ==
  IF ends = {} THEN st.pending \o said
  ELSE Named(st.pending, st.session) \o
       [n \in DOMAIN said |-> IF \E e \in ends : said[n].row < e
                              THEN [said[n] EXCEPT !.span = rows[said[n].row - base].s] ELSE said[n]]

StaysGivenUpMutant(st, bounds) == st.givenUp /\ bounds = {}

(* The group's refits stay given up over its spans.                        *)
StaysGivenUp(st, bounds) == st.givenUp

(* The stream of group k of spec i once it has learned own.                *)
Learned(i, k, rows, st, own, base) ==
  LET bounds == Bounds(i, rows, st, own)
  IN [rows |-> Span(st, own, base, bounds, Len(own)),
      session |-> IF Specs[i].close = "session" /\ own # <<>> THEN rows[own[Len(own)]].s
                  ELSE st.session,
      pending |-> Carried(st, Raised(i, k, rows, st, own, base), rows, base,
                          {base + own[b] : b \in bounds}),
      givenUp |-> StaysGivenUp(st, bounds)]

(* The rows a stream closes its spans with, each at the row that ended it. *)
SpansClosed(i, k, rows, st, own, base) ==
  LET bounds == Bounds(i, rows, st, own)
      before(b) == IF b = 1 THEN st.session ELSE rows[own[b - 1]].s
  IN {[spec |-> i, group |-> k, session |-> before(b),
       rows |-> Span(st, own, base, bounds, b - 1), at |-> own[b]] : b \in bounds}

-----------------------------------------------------------------------------
(* Refusals before a row is learned                                        *)

ForgetMutant(ss, fresh) == ss

Forget(ss, fresh) ==
  [i \in SpecIds |-> [k \in {k \in DOMAIN ss[i] : <<i, k>> \notin fresh} |-> ss[i][k]]]

RefitsRestoredMutant ==
  /\ reserved' = call.before.reserved
  /\ notices' = SubSeq(notices, 1, call.before.notices)
  /\ UNCHANGED noticed

(* What the chunk's new groups moved of the refit budget's bookkeeping,    *)
(* put back.                                                               *)
RefitsRestored ==
  /\ reserved' = call.before.reserved
  /\ noticed' = call.before.noticed
  /\ notices' = SubSeq(notices, 1, call.before.notices)

(* The chunk is refused and the new groups forgotten, with the cores as    *)
(* given.                                                                  *)
Refuse(cores) ==
  /\ states' = Forget(states, call.fresh)
  /\ RefitsRestored
  /\ resolvers' = cores
  /\ call' = Idle /\ was' = <<>>
  /\ UNCHANGED <<highWater, keyForm, closed, rowsFed, noticesLeft, broken, file,
                 drained, owed, refitsSaid, late>>

NextStep(step) ==
  /\ call' = [call EXCEPT !.step = step]
  /\ UNCHANGED <<states, reserved, noticed, notices, highWater, keyForm, closed, rowsFed,
                 noticesLeft, broken, file, history>>

-----------------------------------------------------------------------------
(* The steps of a call                                                     *)

RefuseIfBrokenMutant == TRUE

(* Whether the bank goes on: no chunk was refused after it was learned.    *)
RefuseIfBroken == ~broken

(* The groups the chunk adds, in the order their rows first arrive, each   *)
(* with its refit buffers reserved where the budget has room.              *)
Fresh(i, rows) == GroupsIn(rows) \ DOMAIN states[i]
ReservesMutant(i, rows, k) ==
  Specs[i].refit /\ reserved[i] + Before(rows, Fresh(i, rows), k) <= RefitRoom
Reserves(i, rows, k) ==
  Specs[i].refit /\ reserved[i] + Before(rows, Fresh(i, rows), k) < RefitRoom
FirstGivenUp(i, rows) ==
  {k \in Fresh(i, rows) : Specs[i].refit /\ reserved[i] + Before(rows, Fresh(i, rows), k) >= RefitRoom}

(* The notices that a spec's refit_budget is reached, each of the first    *)
(* group it left out.                                                      *)
RefitNotices(rows) ==
  LET at == Ascending({i \in SpecIds : ~noticed[i] /\ FirstGivenUp(i, rows) # {}})
  IN [n \in DOMAIN at |-> [spec |-> at[n], row |-> None, span |-> None,
        group |-> CHOOSE k \in FirstGivenUp(at[n], rows) :
                    Before(rows, FirstGivenUp(at[n], rows), k) = 0]]

(* fit_predict_on_pool up to its checks: a broken bank, a column of        *)
(* another form and keys out of order are refused with nothing changed;    *)
(* the streams the chunk needs are made.                                   *)
Begin(rows, form) ==
  /\ call = Idle
  /\ RefuseIfBroken
  /\ keyForm \in {"none", form}
  /\ rowsFed + Len(rows) <= MaxFed
  /\ \A i \in SpecIds : Specs[i].close = "monotone" => InOrder(rows, form, highWater[i])
  /\ states' = [i \in SpecIds |-> [k \in DOMAIN states[i] \cup GroupsIn(rows) |->
       IF k \in DOMAIN states[i] THEN states[i][k]
       ELSE NewStream(Specs[i].refit /\ ~Reserves(i, rows, k))]]
  /\ reserved' = [i \in SpecIds |->
       reserved[i] + Cardinality({k \in Fresh(i, rows) : Reserves(i, rows, k)})]
  /\ notices' = notices \o RefitNotices(rows)
  /\ noticed' = [i \in SpecIds |-> noticed[i] \/ FirstGivenUp(i, rows) # {}]
  /\ call' = [step |-> "check", rows |-> rows, form |-> form,
              fresh |-> UNION {{i} \X Fresh(i, rows) : i \in SpecIds},
              before |-> [reserved |-> reserved, noticed |-> noticed, notices |-> Len(notices)],
              snapshot |-> <<>>, todo |-> {}, phase |-> 0, over |-> FALSE, left |-> FALSE,
              closed |-> {}]
  /\ was' = [bank |-> Standing, noticed |-> noticed, notices |-> notices]
  /\ UNCHANGED <<resolvers, highWater, keyForm, closed, rowsFed, noticesLeft, broken, file,
                 drained, owed, refitsSaid, late>>

(* Every stream checks its clock and its labels on a copy (Clock.tla).     *)
CheckRefuses == call.step = "check" /\ Refuse(resolvers)
CheckPasses == call.step = "check" /\ NextStep("prepare") /\ UNCHANGED resolvers

(* A core is built, or resumed from the loaded file, at its group's first  *)
(* chunk.                                                                  *)
Prepared(core, ks) ==
  [runs |-> [k \in DOMAIN core.runs \cup ks |->
               IF k \in DOMAIN core.runs THEN core.runs[k]
               ELSE IF k \in DOMAIN core.saved THEN core.saved[k] ELSE <<>>],
   saved |-> [k \in DOMAIN core.saved \ (ks \ DOMAIN core.runs) |-> core.saved[k]]]

(* The groups of spec j that come before group k of spec i, specs being    *)
(* taken in order and groups as their rows first arrive.                   *)
Reached(j, i, k) ==
  {h \in GroupsIn(call.rows) :
     j < i \/ (j = i /\ FirstRow(call.rows, h) < FirstRow(call.rows, k))}

(* A core cannot be built, or resumed, on the chunk's columns: those before*)
(* it stay, and the bytes that could not be resumed were taken out of the  *)
(* map to be read.                                                         *)
PreparedUpTo(i, k) ==
  [j \in Formulas |->
     LET core == Prepared(resolvers[j], Reached(j, i, k))
     IN IF j # i THEN core
        ELSE [core EXCEPT !.saved = [h \in DOMAIN @ \ {k} |-> @[h]]]]

PrepareRefuses == \E i \in Formulas, k \in GroupsIn(call.rows) :
  /\ call.step = "prepare" /\ Unreadable
  /\ k \notin DOMAIN resolvers[i].runs
  /\ Refuse(PreparedUpTo(i, k))

NeedsSnapshotMutant == Cardinality(Formulas) > 1

(* The cores are copied only where a later step can refuse.                *)
NeedsSnapshot ==
  \/ Cardinality(Formulas) > 1
  \/ \E i \in Formulas : Specs[i].target = "cast"
  \/ \E i \in SpecIds : Specs[i].ring # "none"

PreparePasses ==
  /\ call.step = "prepare"
  /\ LET cores == [i \in Formulas |-> Prepared(resolvers[i], GroupsIn(call.rows))]
     IN /\ resolvers' = cores
        /\ call' = [call EXCEPT !.step = "resolve",
                                !.snapshot = IF NeedsSnapshot THEN cores ELSE <<>>]
  /\ UNCHANGED <<states, reserved, noticed, notices, highWater, keyForm, closed, rowsFed,
                 noticesLeft, broken, file, history>>

(* A core fed the chunk's rows of its groups in ks.                        *)
Fed(core, ks) ==
  [core EXCEPT !.runs = [k \in DOMAIN @ |->
     IF k \in ks
     THEN @[k] \o [n \in DOMAIN RowsOf(call.rows, k) |-> rowsFed + RowsOf(call.rows, k)[n]]
     ELSE @[k]]]

(* A strict cast fails on the rows spec i's core of group k resolved: the  *)
(* cores before it, and its own, were fed.                                 *)
ResolveRefuses == \E i \in Formulas, k \in GroupsIn(call.rows) :
  /\ call.step = "resolve" /\ Specs[i].target = "cast"
  /\ Refuse(IF NeedsSnapshot THEN call.snapshot
            ELSE [j \in Formulas |->
                    Fed(resolvers[j], Reached(j, i, k) \cup (IF j = i THEN {k} ELSE {}))])

ResolvePasses ==
  /\ call.step = "resolve"
  /\ resolvers' = [i \in Formulas |-> Fed(resolvers[i], GroupsIn(call.rows))]
  /\ NextStep("prepass")

(* A ring would pass its budget: found by a replay before any row goes in. *)
PrepassRefuses ==
  /\ call.step = "prepass" /\ call.rows # <<>>
  /\ \E i \in SpecIds : Specs[i].ring = "replayed"
  /\ Refuse(IF NeedsSnapshot THEN call.snapshot ELSE resolvers)

(* The streams learn in two phases, the comparisons after the specs they   *)
(* compare. From here every stream may hold notices.                       *)
Tasks(phase) == {i \in SpecIds : Specs[i].compares = (phase = 2)} \X GroupsIn(call.rows)

PrepassPasses ==
  /\ call.step = "prepass"
  /\ call' = [call EXCEPT !.step = "learn", !.phase = 1, !.todo = Tasks(1),
                          !.left = noticesLeft]
  /\ noticesLeft' = TRUE
  /\ UNCHANGED <<kept, noticed, notices, broken, file, history>>

-----------------------------------------------------------------------------
(* The rows are learned                                                    *)

(* The notices own raised, each under the name of its own span.            *)
RaisedNow(i, k, st, own) ==
  LET said == Raised(i, k, call.rows, st, own, rowsFed)
  IN SetToBag({[n EXCEPT !.span = IF Specs[i].close = "session"
                                  THEN call.rows[n.row - rowsFed].s ELSE None] : n \in Range(said)})

(* A task's stream takes own, the rows of its group or the first of them.  *)
StreamTakes(i, k, own, over) ==
  /\ states' = [states EXCEPT ![i][k] = Learned(i, k, call.rows, @, own, rowsFed)]
  /\ owed' = owed (+) RaisedNow(i, k, states[i][k], own)
  /\ call' = [call EXCEPT !.todo = @ \ {<<i, k>>}, !.over = @ \/ over,
        !.closed = @ \cup SpansClosed(i, k, call.rows, states[i][k], own, rowsFed)]
  /\ UNCHANGED <<resolvers, reserved, highWater, keyForm, closed, rowsFed, noticed, notices,
                 noticesLeft, broken, file, drained, refitsSaid, late, was>>

Learn == \E i \in SpecIds, k \in GroupsIn(call.rows) :
  /\ call.step = "learn" /\ <<i, k>> \in call.todo
  /\ StreamTakes(i, k, RowsOf(call.rows, k), FALSE)

(* A ring the pre-pass is blind to passes its budget: the stream stops     *)
(* after the rows it has learned, the other tasks go on.                   *)
LearnPastBudget == \E i \in SpecIds, k \in GroupsIn(call.rows) :
  /\ call.step = "learn" /\ <<i, k>> \in call.todo /\ Specs[i].ring = "blind"
  /\ \E n \in 1..Len(RowsOf(call.rows, k)) :
       StreamTakes(i, k, SubSeq(RowsOf(call.rows, k), 1, n), TRUE)

(* A phase one of whose tasks was refused: the bank holds rows whose       *)
(* output is never returned, and goes no further.                          *)
PhaseRefuses ==
  /\ call.step = "learn" /\ call.todo = {} /\ call.over
  /\ states' = Forget(states, call.fresh)
  /\ RefitsRestored
  /\ broken' = TRUE
  /\ call' = Idle
  /\ UNCHANGED <<resolvers, highWater, keyForm, closed, rowsFed, noticesLeft, file, history>>

(* The first phase's output assembles, and the comparisons run on it.      *)
SecondPhase ==
  /\ call.step = "learn" /\ call.phase = 1 /\ call.todo = {} /\ ~call.over
  /\ call' = [call EXCEPT !.phase = 2, !.todo = Tasks(2)]
  /\ UNCHANGED <<kept, noticed, notices, noticesLeft, broken, file, history>>

(* The output cannot be assembled: what was learned stays, and so do the   *)
(* notices in their streams. (No input reaches this; the code keeps a hook *)
(* for its tests.)                                                         *)
AssemblyFails ==
  /\ call.step = "learn" /\ call.todo = {} /\ ~call.over
  /\ late < MaxLate /\ late' = late + 1
  /\ call' = Idle /\ was' = <<>>
  /\ UNCHANGED <<kept, noticed, notices, noticesLeft, broken, file, drained, owed, refitsSaid>>

-----------------------------------------------------------------------------
(* A call that returns its output                                          *)

(* The notices of the streams ss of a spec's groups in ks, each with the   *)
(* name of its span.                                                       *)
SaidBy(ss, ks) ==
  LET order == Ascending(ks)
  IN FlattenSeq([n \in DOMAIN order |-> Named(ss[order[n]].pending, ss[order[n]].session)])
Said(i, ks) == SaidBy(states[i], ks)

BagOf(said) == [n \in Range(said) |-> Cardinality({m \in DOMAIN said : said[m] = n})]

Silent(ss, ks) ==
  [k \in DOMAIN ss |-> IF k \in ks THEN [ss[k] EXCEPT !.pending = <<>>] ELSE ss[k]]

(* The monotone groups the chunk's largest key finishes, each closed by    *)
(* the first row of the first group past it.                               *)
Largest == CHOOSE k \in GroupsIn(call.rows) : \A h \in GroupsIn(call.rows) : ~Less(call.form, k, h)
Finished(i) ==
  IF Specs[i].close = "monotone" /\ call.rows # <<>>
  THEN {k \in DOMAIN states[i] : Less(call.form, k, Largest)} ELSE {}
GroupsClosed(i) ==
  {[spec |-> i, group |-> k, session |-> None, rows |-> states[i][k].rows,
    at |-> CHOOSE n \in DOMAIN call.rows :
             /\ Less(call.form, k, call.rows[n].g)
             /\ \A m \in 1..(n - 1) : ~Less(call.form, k, call.rows[m].g)] : k \in Finished(i)}

SpeakingMutant(i) == GroupsIn(call.rows) \cap DOMAIN states[i]

SpeakingKeptMutant(i) ==
  (IF call.left THEN DOMAIN states[i] ELSE GroupsIn(call.rows)) \ Finished(i)

(* The groups whose notices a call that completes takes: its chunk's, or   *)
(* all of them where others may hold some.                                 *)
Speaking(i) == IF call.left THEN DOMAIN states[i] ELSE GroupsIn(call.rows)

QueuedMutant(rows) ==
  LET ahead(a, b) == \/ a.spec < b.spec
                     \/ a.spec = b.spec /\ Less(call.form, a.group, b.group)
                     \/ a.spec = b.spec /\ a.group = b.group /\ a.at < b.at
      queue == Sorted(rows, ahead)
  IN [n \in DOMAIN queue |-> [spec |-> queue[n].spec, group |-> queue[n].group,
                              session |-> queue[n].session, rows |-> queue[n].rows]]

(* A chunk's closed rows in the order they are queued: by the row that     *)
(* closed them, then by spec, then by key.                                 *)
Queued(rows) ==
  LET ahead(a, b) == \/ a.at < b.at
                     \/ a.at = b.at /\ a.spec < b.spec
                     \/ a.at = b.at /\ a.spec = b.spec /\ Less(call.form, a.group, b.group)
      queue == Sorted(rows, ahead)
  IN [n \in DOMAIN queue |-> [spec |-> queue[n].spec, group |-> queue[n].group,
                              session |-> queue[n].session, rows |-> queue[n].rows]]

(* Both phases are done: the notices are taken, then the monotone groups   *)
(* close, and the chunk's closed rows are queued.                          *)
Return ==
  /\ call.step = "learn" /\ call.phase = 2 /\ call.todo = {} /\ ~call.over
  /\ notices' = notices \o FlattenSeq([i \in SpecIds |-> Said(i, Speaking(i))])
  /\ noticesLeft' = FALSE
  /\ states' = [i \in SpecIds |->
       Silent([k \in DOMAIN states[i] \ Finished(i) |-> states[i][k]], Speaking(i))]
  /\ highWater' = [i \in SpecIds |->
       IF Specs[i].close = "monotone" /\ call.rows # <<>> THEN Largest ELSE highWater[i]]
  /\ closed' = closed \o Queued(call.closed \cup UNION {GroupsClosed(i) : i \in SpecIds})
  /\ rowsFed' = rowsFed + Len(call.rows)
  /\ keyForm' = call.form
  /\ call' = Idle /\ was' = <<>>
  /\ UNCHANGED <<resolvers, reserved, noticed, broken, file, drained, owed, refitsSaid, late>>

-----------------------------------------------------------------------------
(* The bank's other calls                                                  *)

RefitsIn(said, i) == Cardinality({n \in DOMAIN said : said[n].row = None /\ said[n].spec = i})

TakeNotices ==
  /\ call = Idle /\ notices # <<>>
  /\ owed' = owed (-) BagOf(notices)
  /\ refitsSaid' = [i \in SpecIds |-> refitsSaid[i] + RefitsIn(notices, i)]
  /\ notices' = <<>>
  /\ UNCHANGED <<kept, noticed, noticesLeft, broken, call, file, drained, late, was>>

SpecChoices == {{i} : i \in SpecIds} \cup {SpecIds}

(* The closed rows of the specs in S, in the order of the queue.           *)
ClosedOf(S) ==
  LET at == Ascending({n \in DOMAIN closed : closed[n].spec \in S})
  IN [n \in DOMAIN at |-> closed[at[n]]]

(* closed_groups with drop = true, of every spec or of one.                *)
ClosedGroups == \E S \in SpecChoices :
  /\ call = Idle /\ "drain" \in Calls
  /\ \E r \in Range(closed) : r.spec \in S
  /\ closed' = ClosedOf(SpecIds \ S) /\ drained' = drained \o ClosedOf(S)
  /\ UNCHANGED <<states, resolvers, reserved, highWater, keyForm, rowsFed, noticed, notices,
                 noticesLeft, broken, call, file, owed, refitsSaid, late, was>>

(* A dropped stream's notices are said; its core goes with it, and the     *)
(* refit buffers it reserved stay reserved.                                *)
DropGroups == \E S \in SpecChoices, keys \in SUBSET Keys :
  /\ call = Idle /\ "drop" \in Calls
  /\ \E i \in S : keys \cap DOMAIN states[i] # {}
  /\ notices' = notices \o FlattenSeq([i \in SpecIds |->
       Said(i, IF i \in S THEN keys \cap DOMAIN states[i] ELSE {})])
  /\ states' = [i \in SpecIds |->
       [k \in DOMAIN states[i] \ (IF i \in S THEN keys ELSE {}) |-> states[i][k]]]
  /\ resolvers' = [i \in Formulas |->
       LET left(m) == [k \in DOMAIN m \ (IF i \in S THEN keys ELSE {}) |-> m[k]]
       IN [runs |-> left(resolvers[i].runs), saved |-> left(resolvers[i].saved)]]
  /\ UNCHANGED <<reserved, highWater, keyForm, closed, rowsFed, noticed, noticesLeft, broken, call,
                 file, history>>

(* The rows that group k's core of spec i was fed, whether it runs or      *)
(* waits to be resumed.                                                    *)
CoreRows(i, k) ==
  IF k \in DOMAIN resolvers[i].runs THEN resolvers[i].runs[k]
  ELSE IF k \in DOMAIN resolvers[i].saved THEN resolvers[i].saved[k] ELSE <<>>

(* The file carries a core's bytes, whichever of the two it does.          *)
Save ==
  /\ call = Idle /\ "save" \in Calls /\ RefuseIfBroken
  /\ file' = [bank |-> [Standing EXCEPT !.resolvers = [i \in Formulas |->
                 [runs |-> <<>>,
                  saved |-> [k \in DOMAIN resolvers[i].runs \cup DOMAIN resolvers[i].saved |->
                               CoreRows(i, k)]]]],
              drained |-> drained]
  /\ UNCHANGED <<kept, noticed, notices, noticesLeft, broken, call, history>>

(* The process ends, whatever it was at, and the file is loaded into a     *)
(* bank of a new one. The file has no notices but those its streams hold.  *)
Pending(ss) == BagOf(FlattenSeq([i \in SpecIds |-> SaidBy(ss[i], DOMAIN ss[i])]))

Restart ==
  /\ states' = file.bank.states /\ resolvers' = file.bank.resolvers
  /\ reserved' = file.bank.reserved /\ highWater' = file.bank.highWater
  /\ keyForm' = file.bank.keyForm /\ closed' = file.bank.closed /\ rowsFed' = file.bank.rowsFed
  /\ noticed' = [i \in SpecIds |-> FALSE] /\ notices' = <<>> /\ noticesLeft' = TRUE
  /\ broken' = FALSE /\ call' = Idle
  /\ drained' = file.drained /\ owed' = Pending(file.bank.states) /\ refitsSaid' = [i \in SpecIds |-> 0]
  /\ was' = <<>>
  /\ UNCHANGED <<file, late>>

-----------------------------------------------------------------------------
Init ==
  /\ setup \in Setups
  /\ states = [i \in SpecIds |-> <<>>]
  /\ resolvers = [i \in Formulas |-> [runs |-> <<>>, saved |-> <<>>]]
  /\ reserved = [i \in SpecIds |-> 0] /\ noticed = [i \in SpecIds |-> FALSE]
  /\ highWater = [i \in SpecIds |-> None] /\ keyForm = "none"
  /\ closed = <<>> /\ rowsFed = 0
  /\ notices = <<>> /\ noticesLeft = FALSE /\ broken = FALSE /\ call = Idle
  /\ file = [bank |-> Standing, drained |-> <<>>]
  /\ drained = <<>> /\ owed = EmptyBag /\ refitsSaid = [i \in SpecIds |-> 0] /\ late = 0 /\ was = <<>>

Step ==
  \/ \E rows \in Chunks, form \in {"integer", "text"} : Begin(rows, form)
  \/ CheckRefuses \/ CheckPasses \/ PrepareRefuses \/ PreparePasses
  \/ ResolveRefuses \/ ResolvePasses \/ PrepassRefuses \/ PrepassPasses
  \/ Learn \/ LearnPastBudget \/ PhaseRefuses \/ SecondPhase \/ AssemblyFails \/ Return
  \/ TakeNotices \/ ClosedGroups \/ DropGroups \/ Save \/ Restart

Next == Step /\ UNCHANGED setup

Spec == Init /\ [][Next]_vars

-----------------------------------------------------------------------------
(* Properties                                                              *)

(* The types of the bank's state (the Bank struct).                        *)
StreamType == [rows : Seq(1..MaxFed), session : Sessions \cup {None}, pending : Seq(
                 [spec : SpecIds, group : Keys, row : Nat, span : Sessions \cup {None}]),
               givenUp : BOOLEAN]
ClosedType == [spec : SpecIds, group : Keys, session : Sessions \cup {None}, rows : Seq(1..MaxFed)]
TypeOK ==
  /\ \A i \in SpecIds : DOMAIN states[i] \subseteq Keys /\ Range(states[i]) \subseteq StreamType
  /\ \A i \in Formulas :
       /\ DOMAIN resolvers[i].runs \cap DOMAIN resolvers[i].saved = {}
       /\ Range(resolvers[i].runs) \cup Range(resolvers[i].saved) \subseteq Seq(1..MaxFed)
  /\ reserved \in [SpecIds -> 0..RefitRoom] /\ noticed \in [SpecIds -> BOOLEAN]
  /\ highWater \in [SpecIds -> Keys \cup {None}] /\ keyForm \in {"none", "integer", "text"}
  /\ closed \in Seq(ClosedType) /\ drained \in Seq(ClosedType) /\ rowsFed \in 0..MaxFed
  /\ noticesLeft \in BOOLEAN /\ broken \in BOOLEAN
  /\ call.step \in {"idle", "check", "prepare", "resolve", "prepass", "learn"}

(* However its rows are cut into chunks, and whichever step of a call      *)
(* refuses or dies, the bank is the one its returned rows make: fit_predict*)
(* with its refusals, drop_groups, closed_groups and a save and load keep  *)
(* the promise of BankPromise.tla. A call under way, and a bank one broke, *)
(* stand for the bank the call began with; a call that fails once its rows *)
(* are learned voids the promise.                                          *)
Open(b) ==
  [i \in SpecIds |-> [k \in DOMAIN b.states[i] |->
     LET st == b.states[i][k] IN [rows |-> st.rows, session |-> st.session, givenUp |-> st.givenUp]]]
Returned == IF was = <<>> THEN Standing ELSE was.bank
Promise == INSTANCE BankPromise WITH
  specs <- Specs, open <- Open(Returned), mark <- Returned.highWater, reserved <- Returned.reserved,
  form <- Returned.keyForm, fed <- Returned.rowsFed, queue <- closed,
  saved <- [bank |-> [open |-> Open(file.bank), mark |-> file.bank.highWater,
                      reserved |-> file.bank.reserved, form |-> file.bank.keyForm,
                      fed |-> file.bank.rowsFed, queue |-> file.bank.closed],
            drained |-> file.drained],
  void <- late > 0
KeepsPromise == Promise!Spec

(* A refused chunk leaves nothing behind: no stream of a group it brought, *)
(* no refit buffers reserved, no notice and no flag that keeps a later one *)
(* from being said (the forget and RefitsBefore::restore of each return).  *)
Refusal == CheckRefuses \/ PrepareRefuses \/ ResolveRefuses \/ PrepassRefuses
RefusalRestores == [][Refusal =>
  /\ [Standing EXCEPT !.resolvers = <<>>]' = [was.bank EXCEPT !.resolvers = <<>>]
  /\ noticed' = was.noticed /\ notices' = was.notices]_vars

(* Between calls a group's window core has been fed exactly the rows its   *)
(* stream holds, whatever chunks were refused on the way: a core that had  *)
(* more or fewer would pair a row with another row's target                *)
(* (fit_predict_on_pool's snapshot of the cores, drop_groups, the file).   *)
(* Where a chunk may come that no loaded core can be resumed with, that    *)
(* fails: CoresOutliveRefusal.                                             *)
CoresHoldRows ==
  call = Idle /\ ~broken =>
    \A i \in Formulas, k \in Keys :
      CoreRows(i, k) = IF k \in DOMAIN states[i] THEN states[i][k].rows ELSE <<>>

CoresInStep == ~Unreadable => CoresHoldRows

(* A refused chunk leaves the cores as they were, though one of them could *)
(* not be resumed (bank.rs:4028).                                          *)
CoresOutliveRefusal == CoresHoldRows

(* The readiness notices the rows raised and the caller has not taken are, *)
(* each exactly once, in a stream or in the bank's queue, and say the span *)
(* that raised them, whether its group closed in the call, its call failed *)
(* late or the bank was loaded; and where a stream still holds one between *)
(* calls, the bank knows to look (take_notices, carry_notices,             *)
(* say_notices, notices_left).                                             *)
HeldOnce ==
  LET held == BagOf(notices) (+) Pending(states)
  IN owed = [n \in {n \in DOMAIN held : n.row # None} |-> held[n]]
HeldFound ==
  call = Idle /\ ~noticesLeft =>
    \A i \in SpecIds : \A k \in DOMAIN states[i] : states[i][k].pending = <<>>
NoticesSaidOnce == (~broken => HeldOnce) /\ HeldFound

(* The groups that hold refit buffers fit in refit_budget, over closed     *)
(* spans, drops and loads, and reaching the budget is said once a bank,    *)
(* and said if it happened (Stream::refit_give_up, reserve_refits,         *)
(* RefitsBefore).                                                          *)
RefitSaidOnce(i) == refitsSaid[i] + RefitsIn(notices, i) = IF noticed[i] THEN 1 ELSE 0
RefitsFit(i) ==
  Specs[i].refit => Cardinality({k \in DOMAIN states[i] : ~states[i][k].givenUp}) <= reserved[i]
RefitsAccounted == \A i \in SpecIds : RefitsFit(i) /\ RefitSaidOnce(i)
=============================================================================
