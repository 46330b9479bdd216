# polars-online, in TLA+

These modules model the parts of polars-online whose correctness is a matter of
control: what a call does when one of its steps refuses, what a run leaves on the
disk when a thread fails or the process dies, how a file is replaced, how a stream's
clock moves, when a held row is learned and a window is known, what a budget keeps of
a ring of snapshots, and which threads share a pool. Each is translated from the Rust
source; paths below are relative to the repository's root. TLC checks each model on small
instances, and TLAPS proves theorems of seven of them for every value of their constants:
the runner, the bank, the label delay, the window ring, the clock, the replacement of files
and the pools.

    tlc -workers 2 -config MCClock.cfg MCClock      # check a model
    tlapm ClockProofs.tla                           # check proofs

## The system

polars-online fits models row by row over streams of grouped rows. What it is made
of, from the bottom up:

| Part | Source | State it keeps | Operations |
|---|---|---|---|
| Numeric models and detectors | `online-core` | moments, weights, detectors' sums | update, predict, merge |
| Group clock | `online-core/src/clock.rs` | where the clock stands, the time skipped rows left, the exact stamps in two forms | `advance_stamped` (`step_forward`, `ns_forward`, `step_any`), `refusal` |
| Stream | `online-polars/src/stream.rs`, `stream/` | one group's models, clock, lags, window rings, held rows, pending notices | `check_clock`, `window_prepass`, `learn` |
| Label delay | `stream/label_delay.rs` | the rows whose label is not known yet | hold, release, cut |
| Bank | `bank.rs`, `bank/`, `resolvers.rs` | per spec a stream per group, window cores, refit reservations, marks, closed rows, notices, whether it is broken | `fit_predict`, `predict`, `drop_groups`, `closed_groups`, `take_notices`, save, load |
| Window ring | `online-core/src/window.rs` | a model's snapshots, their cadence and bytes, an overrun | `learn_decayed` (`offer`, `trim`), `enforce`, `WindowShadow` |
| Window operators | `windows.rs`, `windows_frame.rs` | per group and kernel a queue of two stacks, rows that wait; the rows held for all | `push`, `drain`, `drain_kept`, `finish`, save, load |
| Refresh-time sampling | `refresh.rs` | the last value of each key | a scan |
| Thread pools | `pool.rs` | a registry of weak references by size, the process default | `Threads::new`, `pool` |
| Streaming runner | `runner.rs` | threads, channels, temporaries, the run's result | `run_config`, `run_with` |
| Atomic replacement | `atomic.rs` | a temporary and its handle, a counter of the process | `create`, write, `commit`, drop |
| Specs, formulas | `spec.rs`, `formula.rs` | none after construction | parse, validate |
| Arrow, columns, figures | `arrow.rs`, `column.rs`, `summary.rs` | none | convert |
| Gradient boosting, Gram fits | `gbdt/`, `gramfit.rs` | one sample | train, solve |
| Python package, command line | `online-py`, `online-cli` | handles | call the above |

How they interact. The command line and Python call the runner or the bank. The
runner reads frames on one thread, passes them over a channel of capacity one to the
calling thread, where the bank learns them, and passes the output and the closed
groups on to a writer thread each; a writer writes through an `AtomicFile`, and the
state is saved through one last. The bank cuts a frame into its groups' rows, and
runs one task per spec and group on a pool; a task owns its stream. A stream steps
its clock at each row and hands its models the step, the stamps and the lags.
Formula targets are computed by window cores the bank owns, before the streams learn.

What is hard, and what makes each part correct:

* **Runner.** Four threads end in any order, each for a reason of its own, while
  closed groups leave the bank for good when they are read from it. Correct: it
  always returns, and with the error that caused it; the output is replaced only by
  a run that succeeded; no closed group is lost; a resumed run learns each row once.
* **Atomic replacement.** Threads, processes, deaths, pids used again, and power
  losses. Correct: the destination is always one writer's contents, whole, with its
  mode; temporaries are never shared, nor left by a failure.
* **Group clock.** Rows skipped, steps back, session changes, gaps over the cap, two
  short cuts beside the general step, two forms of one stamp, and a check on a copy
  that must refuse just what the step refuses. Correct: all of these are one clock.
* **Bank.** A call has five steps that may refuse, after some of them have already
  changed the bank; groups close in the call that feeds them; tasks run in parallel;
  late failures leave part of a call done. Correct: a refused chunk leaves the bank
  as it was; the result does not depend on how rows are cut into chunks nor on the
  order of the tasks; every notice is said once; cores stay in step with streams.
* **Label delay, stream.** Held rows are released by the clock, by windows that close or
  by labels of their own, and are dropped or restarted by sessions, gaps and resets, in
  an order of their own; two queues and a held clock move beside them. Correct: a row is
  learned once, when it is due, and as a stream that never held it would learn it.
* **Window ring.** Snapshots are taken on a cadence, trimmed at an edge, thinned or
  refused at a budget, and replayed on a shadow before a chunk is learned. Correct: the
  window is the one asked for, the budget holds, and the replay says what learning does.
* **Window operators.** Rows wait for windows of several kernels and groups that end at
  edges, gaps, sessions, restarts and the end of the input, over queues that remember sums.
  Correct: each row leaves with the windows its definition reads from the whole input, no
  sooner than they are settled and no later.
* **Pools.** A weak reference found while its last holder lets go; two first calls.
  Correct: one pool a size, one default, and every ask comes back.

`PROJECT.json` lists every component with its status, and under "hazards" each
place in the code where one of these bites, with the properties that cover it.

## The modules

| Module | What it is | Composed of |
|---|---|---|
| `AtomicFile` | replacement of a file by competing writers | |
| `AtomicFileProofs` | its theorems | `AtomicFile`, `TLAPS` |
| `Clock`, `MCClock` | one stream's clock; its settings for TLC | |
| `ClockProofs` | its theorems | `Clock`, `TLAPS` |
| `RunPromise` | what a run promises about its files (abstract) | |
| `Runner`, `MCRunner` | the runner's threads; configurations for TLC | implements `RunPromise` |
| `RunnerProofs` | its theorems: its control, its rows, and the refinement | `Runner`, `TLAPS` |
| `BankPromise` | what a bank promises its caller (abstract) | |
| `Bank`, `MCBank` | a bank and the steps of a call; specs for TLC | implements `BankPromise` |
| `BankProofs` | its theorems | `Bank`, `TLAPS` |
| `LabelDelay`, `MCLabelDelay` | rows held for their labels; specs and rows for TLC | takes `Clock`'s operators |
| `LabelDelayQueues` | lemmas: the clock in spans of rows, a stream's running marks, the queue, its books and buffer | `LabelDelay`, `TLAPS` |
| `LabelDelayProofs` | its theorems | `LabelDelayQueues` |
| `WindowRing`, `MCWindowRing` | a ring of snapshots, its budget and its replay; settings for TLC | |
| `WindowRingProofs` | its theorems | `WindowRing`, `TLAPS` |
| `Windows`, `MCWindows` | the window core and the definition of its windows; kernels and rows for TLC | |
| `Pool`, `MCPool` | the pools' registry and the process default; callers for TLC | |
| `PoolProofs` | its theorems | `Pool`, `TLAPS` |

A definition named `*Mutant` is a plausible mistake in the definition of the same
name. No action and no property uses one; they serve to see that a property fails
when the code is wrong in that way.

### AtomicFile (`atomic.rs`)

A file's contents are `Parts` parts, each holding the number of the attempt that
wrote it, so that a mixture of two writers or a missing part can be seen.

| State | Code |
|---|---|
| `dest`, `temp`, `data`, `mode` | the directory, the files' contents and permissions, as a reader sees them |
| `durable`, `synced` | the same, as far as they have reached the disk |
| `seq` | the process's `NEXT_TEMP` |
| `pc`, `name`, `open`, `mine`, `done` | an `AtomicFile` of one thread: where it is, its temporary, its handle, what it writes |

`Create` is `AtomicFile::create` (the number is taken, then the file opened and
emptied if it is there), `Write` the caller's writes, `Sync`, `KeepMode` and `Rename`
the three steps of `commit`, and `Fail` the error of any of them with the `Drop` that
removes the temporary. `Die` is the death of a process; a process that takes its pid
counts from 0 again. `Flush` is the system writing the directory or a file to the
disk when it likes, `PowerLoss` what it leaves.

Assumed: processes alive at the same time have different pids (so they share one
machine's numbering), and a journaling file system, whose directory after a power
loss is one it had before. The resolution of a symbolic link is left out: it chooses
the destination and changes nothing. That `commit` does not sync the directory is
modelled: after a power loss the old file may be back, whole.

### Clock (`clock.rs`)

`clock` is `ClockState`, with both forms of its exact stamps: the integer
nanoseconds a temporal clock sums (`ns`, `skippedNs`, `elapsedNs`), and for a number
clock what caps and sessions removed from the raw value (`removed`,
`elapsedRemoved`). One stream of the program keeps one form; the model keeps both to
compare them. `adv` is the `ClockAdvance` its caller gets. `StepAny` is `step_any`,
`Forward` both short cuts (`step_forward`, `ns_forward`), `Advance` the choice between
them, `CheckClock` `Stream::check_clock`'s walk of a copy over the chunk. `Feed` takes
a chunk or refuses it; `Row` is one row's learning step with the lag buffers' verdict
(`Dropped`). `base`, `last` and `gap` are history variables: where the clock started,
the stamps of the last learned row, and what happened since.

Left out: the rounding of doubles (the model is over integers: it says that the
arithmetic is the right one, not how far a sum of doubles drifts from it), values that
are no number, and the step of a scored row, which leaves the state alone. Sessions
occur only with a `session_gap`, which `spec.rs` requires. The row count's cap is
infinite, which `RowCountAssumption` says of the settings.

### Runner (`runner.rs`) and RunPromise

A row is its position in the input; a frame is a sequence of rows. Of the bank the
runner needs what it has learned and the queue of closed groups.

| Actions | Code |
|---|---|
| `StartRun` | `run_config_on` up to the threads: load the state, take the snapshot `skip_learned` filters by, create the channels and writers |
| `ReadChunk`, `ReadEnds`, `ReadSendsEnd`, `ReadGivesUp` | `read_plan`/`read_frames` on the reader's thread |
| `WriterCreates` ... `WriterPublishes`, `WriterFails` | `write_frames` on a writer's thread, over an `AtomicFile` |
| `Receive`, `Augment`, `Deliver`, `Drain`, `SendClosed`, `Progress` and the `...Empty` variants | one turn of `run_with`'s loop, and the empty frame of an input with no rows |
| `StopReader`, `EndClosed`, `EndOut`, `JoinClosed`, `JoinOut`, `ScopeEnds` | the end of `run_with`, in the code's order |
| `Save` | `run_config_on`'s save of the state |
| `Crash` | the process dies at any step; its temporaries stay |

Every stage may fail wherever the code returns an error: the source, the bank, the
callback, the progress report, each writer's creation, write and publishing, and the
save.

`RunPromise` knows only the files: a run publishes its sidecar of closed groups, then
its output, then its state, each at most once and whole, the output with every row of
the run and the state with every row learned once. `KeepsPromise` is `Runner`'s
refinement of it, with the last row not processed as `from`.

Not modelled: the predict mode of a run (which closes and saves nothing), the
closing readiness lines, file formats, and the check of a path before the run.

### Bank (`bank.rs`, `resolvers.rs`) and BankPromise

A stream is the numbers of the rows it holds, a window core the numbers of those it
was fed: enough to tell whether a bank is the one its rows make, and not how a model
computes. A spec is what a call's control depends on (`SpecKinds`).

A call of `fit_predict` is a walk through `call.step`:

| Step | Actions | Code |
|---|---|---|
| begin | `Begin` | the checks that change nothing (broken bank, the group column's form, keys in order); new streams made, refit buffers reserved and that the budget is reached noted |
| check | `CheckPasses`, `CheckRefuses` | each stream's check of clock and labels on a copy |
| prepare | `PreparePasses`, `PrepareRefuses` | each group's window core built, or resumed from the loaded file |
| resolve | `ResolvePasses`, `ResolveRefuses` | cores fed; a strict cast of a target may fail after that |
| prepass | `PrepassPasses`, `PrepassRefuses` | the replay of the window rings against `window_budget` |
| learn | `Learn`, `LearnPastBudget`, `SecondPhase` | the parallel tasks, one action each in any order; comparisons in a second phase after the specs they compare |
| end | `PhaseRefuses`, `AssemblyFails`, `Return` | the bank broken; the output not assembled; notices taken, monotone groups closed, closed rows queued in order |

`TakeNotices`, `ClosedGroups`, `DropGroups` and `Save` are the bank's other calls, and
`Restart` is the death of the process at any step and the load of the last file.
Calls do not overlap (they take `&mut self`), so the tasks of a phase are the only
concurrency: each changes its own stream, and the order matters only for what a call
puts together afterwards.

History variables: `drained` (closed rows handed out), `owed` (notices raised and not
yet taken, as a bag), `refitsSaid`, `late` (calls that could not be assembled, a
bound), and `was`: the bank as the call under way, or the one that broke it, found it.

`BankPromise` takes rows one at a time, in input order. A chunk is taken whole or not
at all; a group below a monotone mark is never opened; the queue is the one the rows
make. `KeepsPromise` says the bank implements it, where a bank with a call under way,
or broken by one, stands for the bank that call began with.

Not modelled: `predict`, null groups and specs with no group (each is one more key or
a single one), the sign continuity of pca, the forms of clock columns, a spec's several
decay instances (they take the same rows), and what a model computes. That the budget
of a ring is passed, that a cast fails, that a core cannot be resumed are free choices,
wherever the spec has the ring, the cast, the core. `AssemblyFails` is reached in the
code through a hook of its own tests only; it is bounded by `MaxLate` and off except
in one setup, and voids the promise: what stays then is that notices are said once.

### LabelDelay (`stream/label_delay.rs`, the schedule and instances of `stream.rs`)

| State | Code |
|---|---|
| `clock`, `restartFold` | `Persisted::clock`; the fold a fresh stream begun at the skipped rows would have |
| `pending`, `heldBreak` | the rows held, and the events of rows skipped since the last accepted one |
| `learnedClock`, `missing`, `dropped` | `label_learned` and the counts of labels never come and of rows a full buffer dropped |
| `open` | the rows whose target's window is open, in the core outside (external) |
| `plans` | what `schedule` and `apply_label_delay` made of a chunk, not yet gone through |
| `inst` | one instance: its decayed and held clocks, whether it was restarted, records, lags |

`Feed` is a chunk's schedule, its labels' check (`CheckLabels`, which may refuse it) and its delay:
each row is resolved, released, held or skipped by `ApplyLabelDelay`, in the code's order,
or by `HoldForLabel` under a label clock. `StepSkip`, `StepScore` and `StepLearn` are one
turn each of `run_instance` over the plans; a drift restart may come at any row learned.
`read` is what the last turn read, for the properties. The clock is `Clock`'s own operators,
instantiated. A reference, `Undelayed`, is the same rows through the same clock with nothing
held, begun at the row of the last restart; the properties compare with it.

### WindowRing (`window.rs`, `Stream::window_prepass`, `process` in `bank.rs`)

One stream with one ring; `ring` is `Snapshots`, `size` what the model's next snapshot
takes, `pending` an embargo's rows. `Feed` replays a chunk on a shadow (`WindowPrepass`, one
per span) and refuses it or lets it in; `StepRow` schedules and runs one row, and looks
for an overrun where a run of rows or a span ends; `Load` is a save and load, which puts the
budget on again. A snapshot is small or large, as missing targets have split a model's sums
or not. Not modelled: the difference of two snapshots and what is in one.

### Windows (`windows.rs`)

| State | Code |
|---|---|
| `shared`, `groups[i].clock` | the stream's clock and a group's own |
| `groups[i].queues` | a kernel's two stacks, running sums and memo (`Queue`) |
| `groups[i].open`, `waiting`, `closed`, `pending`, `stamp`, `restart` | `Group`'s fields |
| `listed` | the silent list, a sequence for the links `prev` and `next` |
| `held`, `ready` | `held_meta` with `held_values`, and the count that may leave |

`PushRow` is `Windows::push` whole, from both clocks' steps to `advance_ready`; `Drain` is
`drain` and `drain_kept`, `Load` a state read back (the memos are gone), `Finish` the end of
the input. The arithmetic is abstracted to pieces: which value is counted and over which
time it is held. So a sum that counts a row twice, holds a value a step too long or reads
an old memo is another sum, whatever the numbers. Below the actions stands the definition
(`Stretch`, `EndOf`, `Back`, `Ahead`), which reads a window from the whole input; it is
translated from the rules the module's documentation and its brute-force test state.

Not modelled: the decay, which discounts each piece by its age; variances and quantile
sketches; `min_samples`; a window's nanoseconds beside its number; `peek`, which changes
nothing; the names of groups; and the frame runner, which passes chunks through Polars.

### Pool (`pool.rs`)

`registry` is `SIZED`, `default` `POOL`, `lock` the registry's mutex, `held` a caller's
`Threads`, `pc` where it is inside `Threads::new` or `pool`. A pool is an identity, which is
free again when no handle holds it, strongly or weakly. Two callers ask, share, build, fail,
panic, clone, let go and enter at the same time.

## The runs

Every run finishes in seconds to about two and a half minutes with two workers.

| Run | Cfg | Question | States |
|---|---|---|---|
| `runner` | `MCRunner` | However two runs end: do files go with the result, is anything lost, learned twice or left behind, does each run return? | 318k |
| `runner_save_fails` | `MCRunnerSaveFails` | Does every error leave the previous output, as documented? No | a violation |
| `atomic_file` | `MCAtomicFile` | Is the file always whole and private, are temporaries never shared, and is litter only a death's? | 41k |
| `clock` | `MCClock` | Are the check, the step, the short cuts, both stamps and the lag drops one clock? | 201k |
| `bank` | `MCBank` | Is the bank that of its returned rows, however they are cut and whichever step refuses; are cores, notices and refit buffers in step? | 946k |
| `bank_lost_core` | `MCBankLostCore` | Does a core survive a refused chunk after a load? No | a violation |
| `label_delay` | `MCLabelDelay` | Is a held row learned once, when due, and as if never held? | 897k |
| `label_embargo` | `MCLabelEmbargo` | Is a label one delay behind its row that embargo? Not with rows skipped first | a violation |
| `window_ring` | `MCWindowRing` | Does a ring keep its window within its budget, and does the replay foretell? | 622k |
| `window_overrun` | `MCWindowOverrun` | Does an overrun always break the bank? Not under drift restarts | a violation |
| `windows` | `MCWindows` | Does each row leave with its windows, and as soon as they are settled? | 139k |
| `pool` | `MCPool` | Is there one pool a size and one default, and does each ask return? | 107k |

### What the properties say

* `AtomicFile`. `DestWhole`: the destination, on the disk too, is one writer's
  contents whole. `ModeStays`: a replacement does not open a private file to others.
  `TempsDiffer`: two writers at work never share a temporary. `TempsRemoved`: only a
  death or a power loss leaves one.
* `Clock`. `NothingRefusedLate`: what `check_clock` passed is never refused half way.
  `StampsAddUp`: the steps a model is given are the differences of the stamps, in both
  their forms. `DroppedAcrossGap`: lags are dropped exactly across more than the cap.
  `ForwardIsStep`: the short cuts are the general step.
* `Runner`. `OutputGoesWithResult`, `DrainedRowsPublished`, `FrameBeforeEnd` of one run;
  `StateHasItsFiles`, `NoClosedGroupLost`, `LearnedOnce`, `NoLitter` across runs;
  `KeepsPromise` (refinement); `RunReturns` (liveness).
* `Bank`. `KeepsPromise` (refinement), `CoresInStep`, `RefusalRestores` (a step
  property), `NoticesSaidOnce`, `RefitsAccounted`.
* `LabelDelay`. `LearnsAsUndelayed`: the step, the lag and the blend a row is learned with
  are those of a stream that held nothing. `ScoredAsUndelayed`: so is what a row is scored
  over, and what a summary reads between chunks. `LearnedWhenDue`: by each row, just the rows
  due by then are learned, in order. `EachRowAccounted`: a row fed is learned, held, dropped
  or missing, and counted once. `RecordsInStep`: a learned row meets what it was scored with.
* `WindowRing`. `BudgetHolds`; `WindowKept`: the ring holds no row that left, takes its next
  snapshot in time, and is short of the window by less than the cadence in force, in rows whether
  thinned or not, on the clock while it was never thinned; `PrepassExact`: a chunk is
  refused if and only if learning it would pass the budget, but for what the replay cannot see.
* `Windows`. `AsDefined`: every row leaves with the windows and the drop of the definition;
  `ReadyWhenSettled`: a row may leave if and only if no later row can change its windows.
* `Pool`. `OnePoolPerSize`, `OneDefault`, `AskReturns` (liveness).

Each of them is stated in words above its definition, and each was seen to fail for
at least one of the `*Mutant` definitions.

### Bounds, and why they are enough

* `AtomicFile`: two processes of two threads, two parts, three replacements. A mixture
  needs two writers and two parts; a leftover that is taken for one's own needs a death
  and the pid again, hence the third attempt. Threads share `seq` and die together,
  processes do not.
* `Clock`: four rows in chunks of two, values 0, 1, 3, 6 under a cap of 2: steps below,
  at and above the cap, steps back below and above `min_backwards_jump`, a skipped row
  between two learned ones in and across a chunk. A skipped step that only with the
  next one passes the cap takes three rows; a restart after that, four. The theorems
  remove the bounds.
* `Runner`: the channels hold one frame, as in the code. Three rows in chunks of up to
  two, each a group that closes, give a first frame, a second and the end: enough to fill
  a channel with one waiting behind it, which is what a deadlock needs. Two runs give every
  pair of a run that ended or died and one that resumes it or starts afresh, on the same or
  a longer input. A third run would resume from a state of the same kind.
* `Bank`: two keys, 9 and 10, in one order as numbers and the other as text. Two rows in
  a chunk are enough for a chunk that opens a group and closes another, in either order
  of specs; a third and a fourth row in the bank for calls on a bank whose groups closed
  before. One group fits the refit budget and the second does not. `NoticeAt` is 1 where
  notices matter and beyond the run's rows elsewhere. `Calls` bounds, per setup, which of the
  other calls are made: all of them with two rows, fewer with three and four. The setup with
  a late failure has chunks of one row: each failed call leaves one notice, and the next
  call, or a load, finds it.
* `LabelDelay`: five rows, so that a drift restart falls behind held rows, in chunks of up to
  two; delays of 1 and 2 under a cap of 2, labels at, before and past the clocks of the rows, a
  buffer of two held rows. Each way of holding has a setting, and the two that go together one.
* `WindowRing`: six rows in chunks of up to three and runs of two, windows of 2 to 6 under
  cadences of rows, time and both, budgets of two and three small snapshots, so that a ring
  takes, thins, crosses and trims, more than once each.
* `Windows`: four to six rows, windows of 1 to 3 under a cap of 2 or 3; each of the four edge
  rules looking both ways at once; two groups at one stamp, in turn and past the cap, and with no
  clock at all; sessions of the stream and of groups, cut or reset; steps back that start over and
  steps back that are refused; nulls. A queue is turned over, its
  memo extended and found stale within four rows.
* `Pool`: two callers, two sizes, two asks each, and five identities, more than can be held
  or named at once. The theorems remove the bounds.

`CHECK_DEADLOCK FALSE` is said for `Clock`, `LabelDelay`, `WindowRing` and `Windows`, which
stop after their rows, and for `Bank`, which takes at most `MaxFed`. `Runner` is checked for
deadlock: it has a step of its own for a program that is over, so that a run whose threads
wait on each other is found. `Pool`'s callers may always clone a handle or enter the
default once they are ready. `AtomicFile` never stops.

### Fairness

`RunReturns` assumes weak fairness of the reader, of the calling thread and
of each writer. Each is a thread of the operating system, which schedules one that can
go on; that a step ends means that the source yields a frame or its end, that the
bank's call returns and that a write returns or fails. Nothing is assumed of a channel:
whether a send may go on is the model's own condition, so a cycle of threads waiting
is found. A crash is never fair, and is not needed for a run to return.

`AskReturns` assumes weak fairness of each caller's steps inside `Threads::new` and inside
`pool`: a thread that can go on does. Nothing is assumed of the mutex but that it is free when
nobody holds it; asks are finitely many, so that no caller is passed over for ever. No caller
has to ask, clone or let go.

### Where the code and its documentation differ

* `runner_save_fails`. `run_config`'s documentation (`runner.rs:686`) says that whatever
  ends a run leaves the previous `output` in place. The state is saved after the output
  is published (`runner.rs:832`): a run that ends with the error of the save has replaced
  the output. `OutputGoesWithResult` states what holds instead.
* `bank_lost_core`. The README (`README.md:1141`) and `bank.rs:4028` say that a refused chunk
  leaves the bank as it was. `TargetWindows::run` (`resolvers.rs:159`) takes a loaded core's
  bytes out of its map before `load_bytes` may refuse them, and the refusal's return does
  not put them back: after a load, a chunk whose formula column has another type is refused
  and the core is gone; the corrected chunk starts a fresh core for a stream that already
  holds rows. `bank` shows that cores stay in step where no such chunk comes
  (`CoresInStep`), and that everything else is restored where one does (`RefusalRestores`).
* `label_embargo`. `label_delay.rs:523` and `spec.py:221` say that an embargo of `d` and a label
  time of `clock + d` give the same numbers. A released row is learned on a clock of the labels
  alone, whose first step is 0; an embargo replays the row's own step. With rows skipped before the
  first one learned the two differ by that step, on the held clock for good.
* `window_overrun`. `README.md:922` and `stream.rs:3157` say that an overrun found as rows go in stops
  the bank. Under `drift_action = "reset"` a drift after the overrun, in the same run of rows,
  rebuilds the ring and the overrun with it, and the call returns. `PrepassExact` holds beside it.

Met on the way and not made a run: the replay cannot see snapshots that a model outgrew in an
earlier chunk either, before the ring takes one of the new size, where `README.md:922` speaks of one
that grows within the chunk (`PrepassExact` names the case `grew`); and a thinning drops old
snapshots with the others, so that until the ring fills again the window may be shorter than
`window_size` less the spacing in force, which `README.md:858` gives as its least: on the clock,
where the row before a snapshot may be far from it (`LostToCadence` asks its part on the clock of
rings that were not thinned; its part in rows holds of every ring).

## What is proved

Every theorem holds for all values of the constants that satisfy the assumptions named
in the modules, which say no more than their types need.

**`AtomicFileProofs`** (assumption `AtomicAssumption`: at least one part, and at least
the attempt the file starts with; any processes, threads and attempts). The safety
properties are not inductive: `DestWhole` after a rename needs that what the writer's
handle wrote is whole, which needs that no other writer had the same file, which needs
that names differ. The invariant `Inv` adds just that chain: `NamesNumbered` (a name
has its process's pid and a number taken before), `FilesCreated`, `FilesDiffer` (two
names never name one file, nor the destination's, on the disk either), `OwnFile`
(the handle is the file its temporary names), `WrittenSoFar` (the parts a writer has
written are its own, and synced before the rename), `DestsWhole` and `ModesKept` (of
the destination both as seen and as durable, since a power loss may swap them). One
lemma per action shows that `Inv` is kept; `Invariance` puts them together, and
`DestAlwaysWhole`, `ModeAlwaysStays` and `TempsAlwaysDiffer` follow. `DestAlwaysReplaced`
is the step property from `Inv` before the step, and `TempsAlwaysRemoved` is proved
beside `Inv`.

**`PoolProofs`** (assumption `PoolAssumption`: sizes are positive and the marks for no pool and no
caller are none; any callers, sizes, pools and asks). That no two pools of one size are held is not
inductive: between a caller's failed upgrade and its build, another must not come to hold a pool of
that size. `LockHeld` says that the callers inside `Threads::new` hold the mutex, hence are one;
`NoneLeft` that while it builds a size no handle of that size is left, which a clone cannot
change, as there is none to clone; `RegistryFindsHeld` and `EntrySized` that an entry names each pool
held and one of its size. `OneDefaultAlways` and `DefaultStaysAlways` rest on `BuiltInHand` and
`DefaultSized`: a first call's pool is its own until it is set or dropped. `GramShareInPool` is about
`gram_share` alone.

**`ClockProofs`** (assumptions `ClockAssumption`, the types of the settings with a
positive cap, and `RowCountAssumption`, that the row count's infinite cap is not
reached). `ShortCutsAreSteps` is about the operators alone: for every state of the right
types and every row the short cut takes, it yields what the general step yields. The
others need `Inv`: `TwoForms` says the forms agree at every row, skipped ones included,
with what a skipped row left still waiting in both; `LastStamps` that the history's stamps
are the clock's; `Waiting` that the time waiting is the step waiting unless something was
capped; `Checked` that what is left of a checked chunk would pass the check again, from
which `NothingEverRefusedLate` follows row by row without looking back at the chunk. A row
is one action whose effect is cut into lemmas by what it disturbs (`RowForms`, `RowLast`,
`RowWaits`, `RowChecked`, `RowTypes`), over lemmas on a fresh row and on one that moves the
clock. `StampsAlwaysAddUp` is a step property proved from `Inv` before the step.

**`RunnerProofs`** (assumption `RunnerAssumption`: positive chunks,
groups and channels, and that an output that is thrown away is asked for only with a sidecar or a
state, as the configurations' validation has it; any rows, runs, chunk sizes and configurations).
Its first part proves what holds whatever the rows are. `Shapes` gives each variable its values, place by
place. `Control` relates the four threads: a writer lives only while the calling thread has not
joined it (`Stages`, `Present`), an end message is the last of its channel and is sent once
(`Senders`, `Ends`), an error has a thread that met it (`ErrorsHaveCause`), a first frame comes before
an end (`FrameBefore`), and what a writer publishes depends on how far the end of the run has come
(`OutGoesWithResult`, `ClosedGoesWithResult`, `DiskInOrder`). `OutputWithResult`,
`NoWriterWithoutFrame`, `StateLast` and `LitterOnlyOfCrashes` are its consequences.

The second part proves where the rows are. That each row is learned once cannot be seen from the bank
alone: the invariant `Flow` says of every place between the input and the disk which rows it holds.
A channel carries the rows from what its receiver has to what its sender has sent, cut anywhere into
messages (`Flows`); a file holds the rows before its channel's; the bank holds the rows before the
reader's, and its closed queue the groups before the sidecar's (`ReadFlow`, `OutFlow`, `ClosedFlow`,
`BankFlow`, `StateFlow`, `FilesFlow`). A death leaves only what is on the disk, for which `StateFlow`
is enough to start the next run. `RowsLearnedOnce`, `GroupsKept`, `DrainedArePublished` and
`TypesHold` follow, and `PromiseKept`: every step of `Runner` is, on the files, a step of `RunPromise`
or none.

**`BankProofs`** (assumptions `SpecsAssumption`, what `spec.rs` refuses of combinations, and
`ValuesAssumption`, types and that two keys are two texts; any specs, keys, sessions, chunks and budget). `Typed` holds of every
reachable bank: a chunk under way fits, each spec has a stream for each of its groups, and where a
later step may refuse, the cores to put back have been kept. On top of it: `WasKept`, that until a
call's rows are learned the bank is the one the call found but for what it noted to undo, from which
`RefusalsRestore` follows as a property of the refusing step; `Budgeted`, the count of groups with
refit buffers and of the notices said, over every chunk's groups in the order they arrive
(`RefitsAlwaysAccounted`); and `InStep`, that by the step a call is at, each core has been fed the rows
of its stream, or those and the chunk's (`CoresAlwaysInStep`, for banks whose loaded cores can be
resumed: `bank_lost_core` is the counterexample for the others). `TypesHold` adds what a type alone does
not give: that no core both runs and waits (`CoresApart`), and that the queue of closed rows, which the
code sorts by row, spec and group from what several tasks closed, sorts rows of which no two tie
(`Ended`, `ToQueueIs`), so that each is queued. The lemmas on ranks say that `Sorted` and `Ascending`,
which choose the member with n - 1 others before it, list a finite order whole.

`NoticesHeldOnce` is an argument on counts: `Occurs` counts a notice in a sequence, `Has` in a bag,
`HeldIn` in the streams. A notice carries its spec and its group, so one stream alone can hold it
(`OwnPending`), and of the sequences that are joined when a call returns at most one counts
(`OccursFlatten`). `LearnedSays` says that a stream that learns says what it said and, after it, what
its rows raised, each notice under the name of the span the row was in, though the code gives a span's
name only where the span ends or the call does. `Balanced` is then kept by every step: what is owed of
a notice is what the queue and the streams have of it. `InHand` adds where notices can be: in none of
the streams a chunk has made until it learns, nor among what it queued, which is what makes putting
back harmless; and, where `notices_left` did not say to look at every stream, only in those of the
chunk's groups.

**`LabelDelayQueues`** and **`LabelDelayProofs`** (assumption `SettingsAssumption`: types, what
`Spec::check_label_clock` refuses of combinations, a label of its own for each row where labels are one
delay behind, and windows only for a formula; any settings, streams, cuts into chunks and drifts). All
of `LabelDelay`'s passing properties are theorems. The model goes through the plans of a chunk one by
one while the buffer already stands at the chunk's end, so no property is inductive over the variables
alone. The proof names a third thing, a *ledger*: which rows, by number, are held, learned and dropped
once the stream's rows up to some row were gone through. `Skips`, `Learns` and `Scores` say what one
plan does to it; `Sound` what holds of it at every place: the rows held have something to teach and are
in the order they are due, those learned were due and come first, none is missing from both but what is
counted, and nothing due is left when a row is scored (`InQueue`, `InLearnt`, `Kept`, `Counted`,
`InLine`, `NotDue`). `Booking` is the invariant: a sound ledger says what the instance has done, and the
plans left are a path from it to another that is the buffer's (`Way`, `Buffered`). A chunk fed extends
the path (`FeedInv`: what the schedule, the label check and `ApplyLabelDelay` make of any chunk, row by
row), and a turn of the instance takes its first step. `RecordsFound`, `RowsAccounted` and
`LearnedAsDue` are consequences.

`Modelled` adds the instance's figures to it (`AsBank`): with `start` the row the instance began at, its
decayed clock is the sum of a bank's steps that began there and was fed up to the last row learned
(`BSum`); its held clock is the sum of the stream's own steps since (`DSum`), which differ from the
bank's at the head of the queue, where `ApplyLabelDelay` cuts the first step, and nowhere else
(`SpanSame`, `CutIs`); its newest row and its lags are that bank's. A label clock whose labels keep no
fixed distance has no such bank: there only the sum of both clocks is kept. From `ModelKept` follow
`LearnedAsUndelayed`, `ScoredFromLearned` and `TypeCorrect`. What rows passed, closed, were accepted or
dropped up to each row, the stream's own clock and the bank's sums are recursive functions of the stream;
each is shown to have a solution once (`Recurs`), and facts about them go along the rows by the set of
places where they hold, whose least member cannot be missing (`Least`).

**`WindowRingProofs`** (assumption `WindowRingAssumption`: types, a window and one of the two cadences
positive; any settings, rows and cuts into chunks and runs). What a ring holds depends on every row
since its first snapshot, so the invariant is of the ring and the rows learned together: `RingFits`
says that each snapshot stands before the row it names (`Placed`), that its bytes are counted and in
budget (`Budgeted`), that the cadence in force is the setting's or a coarser one (`InForce`), that the
newest snapshot is inside the window and the next not yet due (`Timely`), that neighbours, and the first
and the rows before it that are still inside, are as near in rows as the cadence in force says
(`Counted`), and, while no budget thinned it, as near on the clock as the setting says, the oldest to one
that has left (`OnCadence`). These last two are what `WindowKept` needs of the rows between a snapshot
that left and the next, and no property mentions them. Thinning keeps `Counted` because it doubles the
cadence as it drops every other snapshot (`OthersCounted`). An offer, a trim and a thinning keep it (`OfferKeeps`, `TrimKeeps`,
`EnforceKeeps`); a run of rows does, drifts among them (`RowsLearned`); and a row's schedule yields rows
in the order of the clock, none twice (`ScheduleKeeps`). A load sets every budget anew: `BudgetStands`
says that nothing comes of it. `Types`, `WithinBudget` and `TheWindowAskedFor` follow.

The bytes of snapshots, the thinning loop and the rows of a run are recursive functions: `Recursion`
shows that each has a solution, from sets of naturals alone, and facts about them go by `UpTo` on the
set of places where they hold.

Only model-checked: `Windows` as a whole; of `Bank`, `KeepsPromise`; of `WindowRing`,
`PrepassExact`; and `RunReturns` and `AskReturns`. Beyond the prover are liveness under fairness and
`ENABLED`, and what a fold computes for every input (those of `BankPromise` and `Windows`, and the
replay of a chunk in `WindowRing`), which needs induction over data with an operator for a
parameter. The four properties of the runs that expect a violation are false, and no theorem states
them.

## What is not modelled

* The numeric models, detectors, Gram fits and boosted trees: recurrences over doubles
  whose correctness is about rounding and identities of real numbers, which the
  repository checks against oracles; their control is straight.
* Specs, formulas, configurations: parsing and refusals without state. What they refuse
  appears as assumptions on `Specs` and `Configs`.
* Arrow layout, columns, summaries, the fields of the output: pure conversions.
* The Python package and the command line: one call each into the above.
* Refresh-time sampling: one sequential scan that keeps the last value of each key.
* The frame runner of the window operators: passes of a chunk through Polars, around the core.

## The plan

Written, in the order of what matters most to a user's data: `AtomicFile`, `Runner` with
`RunPromise`, `Clock`, `Bank` with `BankPromise`, `LabelDelay`, `Pool`, `WindowRing`, `Windows`;
theorems of all of them but `Windows`.

To come, as theorems:

1. `WindowRing`: `PrepassExact`, which sets the ring beside a shadow fed the same rows.
2. `Bank`: `KeepsPromise`, up to the folds of `BankPromise`.

And as models: the frame runner's held rows over `Windows`, and a bank's pre-pass and windows taken
from `WindowRing` and `Windows` in place of `Bank`'s free choices.
