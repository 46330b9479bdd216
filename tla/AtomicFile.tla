----------------------------- MODULE AtomicFile -----------------------------
(***************************************************************************)
(* A file replaced as a whole (crates/online-polars/src/atomic.rs): it is  *)
(* written next to the destination, synced, given the destination's mode   *)
(* and renamed over it.  Several writers, in threads of one process and in *)
(* several processes, may replace one destination at the same time; a      *)
(* process may die and another take its pid; the machine may lose power,   *)
(* when what is left of the directory and the modes is what they were at   *)
(* some earlier moment (a journal keeps their order), and of a file's      *)
(* contents what had reached the disk.                                     *)
(*                                                                         *)
(* A file's contents are Parts parts, each holding the number of the       *)
(* attempt that wrote it, or 0.  The contents the destination starts with  *)
(* are attempt 1's.                                                        *)
(***************************************************************************)
EXTENDS Naturals

CONSTANTS
  Pids,        \* process ids; the processes alive at one time differ in theirs
  Threads,     \* the threads of a process that write
  Parts,       \* parts of a file's contents
  MaxAttempts  \* bound: files created, or tried, the first included

ASSUME AtomicAssumption ==
  /\ Parts \in Nat \ {0}
  /\ MaxAttempts \in Nat \ {0}

Writers  == Pids \X Threads
Attempts == 1 .. MaxAttempts
Names    == Pids \X (0 .. MaxAttempts)   \* a temporary: pid and sequence number

VARIABLES
  attempts,  \* files created so far, or tried
  dest,      \* the file the destination names
  temp,      \* the file each temporary names, 0 when there is none
  data,      \* the contents of each file, as a reader sees them
  mode,      \* who may read each file
  durable,   \* the directory and the modes as they are on the disk
  synced,    \* the contents of each file as they are on the disk
  seq,       \* NEXT_TEMP of each process
  pc,        \* where each writer is
  name,      \* the temporary of each writer
  open,      \* the file its handle writes
  mine,      \* its attempt
  done,      \* the parts it has written
  crashed    \* history: the temporaries whose process died

disk   == <<dest, temp, data, mode>>
writer == <<pc, name, open, mine, done>>
vars   == <<attempts, disk, durable, synced, seq, writer, crashed>>

Blank == [p \in 1 .. Parts |-> 0]
Whole(c) == \E a \in Attempts : c = [p \in 1 .. Parts |-> a]

Init ==
  /\ attempts = 1 /\ dest = 1 /\ temp = [n \in Names |-> 0]
  /\ data = [a \in Attempts |-> IF a = 1 THEN [p \in 1 .. Parts |-> 1] ELSE Blank]
  /\ mode = [a \in Attempts |-> IF a = 1 THEN "private" ELSE "default"]
  /\ durable = [dest |-> dest, temp |-> temp, mode |-> mode]
  /\ synced = data
  /\ seq = [p \in Pids |-> 0]
  /\ pc = [w \in Writers |-> "idle"]
  /\ name \in [Writers -> {n \in Names : n[2] = 0}]
  /\ \A w \in Writers : name[w][1] = w[1]
  /\ open = [w \in Writers |-> 0] /\ mine = [w \in Writers |-> 0]
  /\ done = [w \in Writers |-> 0] /\ crashed = {}

\* temp_name: pid and sequence number.  The pid alone was the name once.
TempNameMutant(w) == <<w[1], 0>>
TempName(w) == <<w[1], seq[w[1]]>>

Goto(w, l) == pc' = [pc EXCEPT ![w] = l]

\* AtomicFile::create: the next number is taken and the temporary opened;
\* one that is there already is emptied.
Create(w) ==
  /\ pc[w] = "idle" /\ attempts < MaxAttempts /\ seq[w[1]] < MaxAttempts
  /\ LET n == TempName(w)
         a == attempts + 1
         f == IF temp[n] = 0 THEN a ELSE temp[n]
     IN  /\ attempts' = a
         /\ seq' = [seq EXCEPT ![w[1]] = @ + 1]
         /\ name' = [name EXCEPT ![w] = n] /\ mine' = [mine EXCEPT ![w] = a]
         /\ open' = [open EXCEPT ![w] = f] /\ done' = [done EXCEPT ![w] = 0]
         /\ temp' = [temp EXCEPT ![n] = f]
         /\ data' = [data EXCEPT ![f] = Blank]
         /\ crashed' = crashed \ {n}
  /\ Goto(w, "write")
  /\ UNCHANGED <<dest, mode, durable, synced>>

\* The temporary cannot be opened: its number is taken all the same.
CreateFails(w) ==
  /\ pc[w] = "idle" /\ attempts < MaxAttempts /\ seq[w[1]] < MaxAttempts
  /\ attempts' = attempts + 1
  /\ seq' = [seq EXCEPT ![w[1]] = @ + 1]
  /\ UNCHANGED <<disk, durable, synced, writer, crashed>>

\* The caller writes the contents through the handle it was given.
PartsLeft(w) == done[w] < Parts
Write(w) ==
  /\ pc[w] = "write" /\ PartsLeft(w)
  /\ data' = [data EXCEPT ![open[w]][done[w] + 1] = mine[w]]
  /\ done' = [done EXCEPT ![w] = @ + 1]
  /\ UNCHANGED <<attempts, dest, temp, mode, durable, synced, seq, pc, name, open,
                 mine, crashed>>

\* commit: the temporary is reopened and synced before anything else.
SyncedAfterMutant(w) == synced
SyncedAfter(w) == [synced EXCEPT ![temp[name[w]]] = data[temp[name[w]]]]
Sync(w) ==
  /\ pc[w] = "write" /\ ~PartsLeft(w) /\ temp[name[w]] # 0
  /\ synced' = SyncedAfter(w)
  /\ Goto(w, "mode")
  /\ UNCHANGED <<attempts, disk, durable, seq, name, open, mine, done, crashed>>

\* keep_mode: the temporary takes the mode of the file it replaces.
ModeKeptMutant == "default"
ModeKept == mode[dest]
KeepMode(w) ==
  /\ pc[w] = "mode" /\ temp[name[w]] # 0
  /\ mode' = [mode EXCEPT ![temp[name[w]]] = ModeKept]
  /\ Goto(w, "rename")
  /\ UNCHANGED <<attempts, dest, temp, data, durable, synced, seq, name, open, mine,
                 done, crashed>>

\* The rename publishes the temporary; `pending` is cleared.
Rename(w) ==
  /\ pc[w] = "rename" /\ temp[name[w]] # 0
  /\ dest' = temp[name[w]]
  /\ temp' = [temp EXCEPT ![name[w]] = 0]
  /\ Goto(w, "idle")
  /\ UNCHANGED <<attempts, data, mode, durable, synced, seq, name, open, mine, done,
                 crashed>>

\* Any step may fail, and the drop removes the temporary, if it is there.
RemovedMutant(w) == temp
Removed(w) == [temp EXCEPT ![name[w]] = 0]
Fail(w) ==
  /\ pc[w] # "idle"
  /\ temp' = Removed(w)
  /\ Goto(w, "idle")
  /\ UNCHANGED <<attempts, dest, data, mode, durable, synced, seq, name, open, mine,
                 done, crashed>>

\* A process dies; its temporaries stay.  A process that takes its pid
\* numbers its temporaries from 0 again.
Die(p) ==
  /\ \E w \in Writers : w[1] = p /\ pc[w] # "idle"
  /\ pc' = [w \in Writers |-> IF w[1] = p THEN "idle" ELSE pc[w]]
  /\ seq' = [seq EXCEPT ![p] = 0]
  /\ crashed' = crashed \cup {name[w] : w \in {v \in Writers : v[1] = p /\ pc[v] # "idle"}}
  /\ UNCHANGED <<attempts, disk, durable, synced, name, open, mine, done>>

\* The system writes the directory, or a file's contents, when it likes.
Flush ==
  /\ \/ durable' = [dest |-> dest, temp |-> temp, mode |-> mode] /\ UNCHANGED synced
     \/ \E a \in Attempts : synced' = [synced EXCEPT ![a] = data[a]] /\ UNCHANGED durable
  /\ UNCHANGED <<attempts, disk, seq, writer, crashed>>

\* The power goes, and what is on the disk is what there is.
PowerLoss ==
  /\ dest' = durable.dest /\ temp' = durable.temp
  /\ mode' = durable.mode /\ data' = synced
  /\ pc' = [w \in Writers |-> "idle"]
  /\ seq' = [p \in Pids |-> 0]
  /\ crashed' = {n \in Names : durable.temp[n] # 0}
  /\ UNCHANGED <<attempts, durable, synced, name, open, mine, done>>

Next ==
  \/ \E w \in Writers : \/ Create(w) \/ CreateFails(w) \/ Write(w) \/ Sync(w)
                        \/ KeepMode(w) \/ Rename(w) \/ Fail(w)
  \/ \E p \in Pids : Die(p)
  \/ Flush \/ PowerLoss

Spec == Init /\ [][Next]_vars

-----------------------------------------------------------------------------
TypeOK ==
  /\ attempts \in Attempts /\ dest \in Attempts
  /\ temp \in [Names -> {0} \cup Attempts]
  /\ data \in [Attempts -> [1 .. Parts -> {0} \cup Attempts]]
  /\ mode \in [Attempts -> {"private", "default"}]
  /\ durable \in [dest : Attempts, temp : [Names -> {0} \cup Attempts],
                  mode : [Attempts -> {"private", "default"}]]
  /\ synced \in [Attempts -> [1 .. Parts -> {0} \cup Attempts]]
  /\ seq \in [Pids -> 0 .. MaxAttempts]
  /\ pc \in [Writers -> {"idle", "write", "mode", "rename"}]
  /\ name \in [Writers -> Names]
  /\ open \in [Writers -> {0} \cup Attempts] /\ mine \in [Writers -> {0} \cup Attempts]
  /\ done \in [Writers -> 0 .. Parts] /\ crashed \subseteq Names

\* The destination always holds one writer's contents, whole: never a
\* mixture of two writers', never a part, and no less after a power loss.
DestWhole == Whole(data[dest]) /\ Whole(synced[durable.dest])

\* A save does not change who may read the file.
ModeStays == mode[dest] = "private"

\* Two writers at work never have the same temporary.
TempsDiffer ==
  \A v, w \in Writers : v # w /\ pc[v] # "idle" /\ pc[w] # "idle" => name[v] # name[w]

\* A temporary with no writer at work was left by a death or a power loss.
TempsRemoved ==
  \A n \in Names : temp[n] # 0 =>
    n \in crashed \/ \E w \in Writers : pc[w] # "idle" /\ name[w] = n

\* The destination changes to what its writer finished writing, or goes back
\* to an earlier whole file with the power; nothing else changes its contents.
Replaces ==
  data'[dest'] # data[dest] =>
    \/ \E w \in Writers : pc[w] = "rename" /\ data'[dest'] = [p \in 1 .. Parts |-> mine[w]]
    \/ dest' = durable.dest
DestReplaced == [][Replaces]_vars

-----------------------------------------------------------------------------
(* Why they hold: each writer at work has a temporary, and so a file, of    *)
(* its own, which is neither the destination nor what is left of it on the  *)
(* disk; and what is published was written and synced whole.                *)
AtWork(w) == pc[w] # "idle"
Filled(w) == [p \in 1 .. Parts |-> mine[w]]

NamesNumbered ==
  \A w \in Writers : name[w][1] = w[1] /\ (AtWork(w) => name[w][2] < seq[w[1]])

FilesCreated ==
  /\ dest <= attempts /\ durable.dest <= attempts
  /\ \A n \in Names : temp[n] <= attempts /\ durable.temp[n] <= attempts

FilesDiffer ==
  /\ \A m, n \in Names : temp[m] # 0 /\ m # n => temp[m] # temp[n]
  /\ \A m, n \in Names : durable.temp[m] # 0 /\ m # n => durable.temp[m] # durable.temp[n]
  /\ \A n \in Names : /\ temp[n] # dest /\ temp[n] # durable.dest
                      /\ durable.temp[n] # durable.dest

OwnFile == \A w \in Writers : AtWork(w) => open[w] # 0 /\ temp[name[w]] = open[w]

WrittenSoFar ==
  \A w \in Writers :
    /\ AtWork(w) => mine[w] # 0
    /\ pc[w] = "write" => \A p \in 1 .. done[w] : data[open[w]][p] = mine[w]
    /\ pc[w] \in {"mode", "rename"} =>
         data[open[w]] = Filled(w) /\ synced[open[w]] = Filled(w)

DestsWhole ==
  /\ Whole(data[dest]) /\ Whole(synced[dest])
  /\ Whole(data[durable.dest]) /\ Whole(synced[durable.dest])

ModesKept ==
  /\ mode[dest] = "private" /\ durable.mode[durable.dest] = "private"
  /\ mode[durable.dest] = "private"
  /\ \A w \in Writers : pc[w] = "rename" => mode[open[w]] = "private"

Inv ==
  /\ TypeOK /\ NamesNumbered /\ TempsDiffer /\ FilesCreated /\ FilesDiffer
  /\ OwnFile /\ WrittenSoFar /\ DestsWhole /\ ModesKept
=============================================================================
