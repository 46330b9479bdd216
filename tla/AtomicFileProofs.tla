-------------------------- MODULE AtomicFileProofs --------------------------
(***************************************************************************)
(* Proofs about AtomicFile, for every number of processes, threads, parts  *)
(* and replacements.                                                       *)
(***************************************************************************)
EXTENDS AtomicFile, TLAPS

\* The first file, whole and private, with nobody at work.
LEMMA InitInv == Init => Inv
<1> SUFFICES ASSUME Init PROVE Inv
  OBVIOUS
<1> USE AtomicAssumption
<1>1. TypeOK
  BY DEF Init, TypeOK, Attempts, Names, Writers, Blank
<1>2. Whole(data[1]) /\ data[1] = synced[1]
  <2>1. 1 \in Attempts /\ data[1] = [p \in 1 .. Parts |-> 1]
    BY DEF Init, Attempts
  <2> QED
    BY <2>1 DEF Whole, Init
<1>3. DestsWhole
  BY <1>2 DEF Init, DestsWhole
<1>4. NamesNumbered /\ TempsDiffer /\ FilesCreated /\ FilesDiffer
  BY DEF Init, NamesNumbered, TempsDiffer, FilesCreated, FilesDiffer, AtWork, Names
<1>5. OwnFile /\ WrittenSoFar /\ ModesKept
  BY DEF Init, OwnFile, WrittenSoFar, ModesKept, AtWork, Attempts
<1> QED
  BY <1>1, <1>3, <1>4, <1>5 DEF Inv

\* The files the directories name, as numbers.
LEMMA Numbers ==
  ASSUME TypeOK
  PROVE  /\ attempts \in Nat /\ dest \in Nat /\ durable.dest \in Attempts
         /\ \A n \in Names : temp[n] \in Nat /\ durable.temp[n] \in Nat
         /\ durable.temp \in [Names -> {0} \cup Attempts]
         /\ durable.mode \in [Attempts -> {"private", "default"}]
<1>1. \A a \in {0} \cup Attempts : a \in Nat
  BY AtomicAssumption DEF Attempts
<1>2. /\ durable.dest \in Attempts
      /\ durable.temp \in [Names -> {0} \cup Attempts]
      /\ durable.mode \in [Attempts -> {"private", "default"}]
  BY DEF TypeOK
<1>3. attempts \in Attempts /\ dest \in Attempts /\ temp \in [Names -> {0} \cup Attempts]
  BY DEF TypeOK
<1>4. ASSUME NEW n \in Names PROVE temp[n] \in Nat /\ durable.temp[n] \in Nat
  <2>1. temp[n] \in {0} \cup Attempts
    BY <1>3
  <2>2. durable.temp[n] \in {0} \cup Attempts
    BY <1>2
  <2> QED
    BY <1>1, <2>1, <2>2
<1>5. attempts \in Nat /\ dest \in Nat
  BY <1>1, <1>3
<1> QED
  BY <1>2, <1>4, <1>5

\* AtomicFile::create gives the writer a temporary no other writer at work
\* has: its pid with a number its process has not used.  A leftover of that
\* name is emptied, and is nobody's.
LEMMA CreateInv == ASSUME Inv, NEW w \in Writers, Create(w) PROVE Inv'
<1> USE AtomicAssumption
<1> DEFINE n == TempName(w)
           a == attempts + 1
           f == IF temp[n] = 0 THEN a ELSE temp[n]
<1>1. /\ n \in Names /\ a \in Attempts /\ f \in Attempts /\ f # 0
      /\ attempts \in Nat /\ w[1] \in Pids
  BY DEF Inv, TypeOK, Create, TempName, Names, Attempts, Writers
<1>2. /\ f # dest /\ f # durable.dest
      /\ \A m \in Names : m # n => temp[m] # f
      /\ \A v \in Writers : AtWork(v) => name[v] # n /\ open[v] # f
  <2>1. f # dest /\ f # durable.dest /\ \A m \in Names : m # n => temp[m] # f
    BY <1>1 DEF Inv, TypeOK, FilesCreated, FilesDiffer, Attempts
  <2>2. ASSUME NEW v \in Writers, AtWork(v) PROVE name[v] # n
    BY <1>1, <2>2 DEF Inv, TypeOK, NamesNumbered, TempName, Names, Writers
  <2> QED
    BY <2>1, <2>2 DEF Inv, OwnFile, TypeOK
<1>3. TypeOK'
  <2>1. Blank \in [1 .. Parts -> {0} \cup Attempts] /\ 0 \in 0 .. Parts
    BY DEF Blank
  <2>2. seq[w[1]] + 1 \in 0 .. MaxAttempts
    BY <1>1 DEF Inv, TypeOK, Create
  <2>3. /\ attempts' \in Attempts /\ dest' \in Attempts
        /\ temp' \in [Names -> {0} \cup Attempts]
        /\ data' \in [Attempts -> [1 .. Parts -> {0} \cup Attempts]]
    BY <1>1, <2>1 DEF Inv, TypeOK, Create
  <2>4. /\ mode' \in [Attempts -> {"private", "default"}]
        /\ durable' = durable /\ synced' = synced
        /\ seq' \in [Pids -> 0 .. MaxAttempts]
        /\ pc' \in [Writers -> {"idle", "write", "mode", "rename"}]
    BY <1>1, <2>2 DEF Inv, TypeOK, Create, Goto
  <2>5. /\ name' \in [Writers -> Names]
        /\ open' \in [Writers -> {0} \cup Attempts] /\ mine' \in [Writers -> {0} \cup Attempts]
        /\ done' \in [Writers -> 0 .. Parts] /\ crashed' \subseteq Names
    BY <1>1, <2>1 DEF Inv, TypeOK, Create
  <2> QED
    BY <2>3, <2>4, <2>5 DEF Inv, TypeOK
<1>4. NamesNumbered' /\ TempsDiffer'
  BY <1>1, <1>2 DEF Inv, TypeOK, NamesNumbered, TempsDiffer, AtWork, Create, Goto,
                    TempName, Writers, Names
<1>5. FilesCreated' /\ FilesDiffer'
  <2>1. /\ attempts' = a /\ dest' = dest /\ durable' = durable
        /\ temp' = [temp EXCEPT ![n] = f]
    BY DEF Create
  <2>2. /\ \A m \in Names : temp'[m] = IF m = n THEN f ELSE temp[m]
        /\ f <= a
    BY <1>1, <2>1 DEF Inv, TypeOK, FilesCreated, Attempts
  <2>3. FilesCreated'
    <3>1. \A m \in Names : temp[m] <= attempts + 1 /\ durable.temp[m] <= attempts + 1
      BY <1>1, Numbers DEF Inv, FilesCreated
    <3>2. dest <= attempts + 1 /\ durable.dest <= attempts + 1
      BY <1>1, Numbers DEF Inv, FilesCreated, Attempts
    <3> QED
      BY <2>1, <2>2, <3>1, <3>2 DEF FilesCreated
  <2>4. FilesDiffer'
    BY <1>1, <1>2, <2>1, <2>2 DEF Inv, FilesDiffer
  <2> QED
    BY <2>3, <2>4
<1>6. OwnFile' /\ WrittenSoFar'
  BY <1>1, <1>2 DEF Inv, TypeOK, OwnFile, WrittenSoFar, Create, Goto, AtWork, Filled,
                    Attempts
<1>7. DestsWhole'
  BY <1>1, <1>2 DEF Inv, TypeOK, DestsWhole, Create, Whole
<1>8. ModesKept'
  BY <1>1, <1>2 DEF Inv, TypeOK, ModesKept, Create, Goto, AtWork
<1> QED
  BY <1>3, <1>4, <1>5, <1>6, <1>7, <1>8 DEF Inv

\* A temporary that cannot be opened uses up its number and nothing else.
LEMMA CreateFailsInv == ASSUME Inv, NEW w \in Writers, CreateFails(w) PROVE Inv'
<1> USE AtomicAssumption
<1>1. /\ attempts' = attempts + 1 /\ seq' = [seq EXCEPT ![w[1]] = @ + 1]
      /\ UNCHANGED <<dest, temp, data, mode, durable, synced, pc, name, open, mine, done,
                     crashed>>
  BY DEF CreateFails, disk, writer
<1>2. TypeOK'
  <2>1. attempts' \in Attempts /\ seq' \in [Pids -> 0 .. MaxAttempts]
    BY <1>1 DEF Inv, TypeOK, CreateFails, Attempts, Writers
  <2> QED
    BY <1>1, <2>1 DEF Inv, TypeOK
<1>3. NamesNumbered'
  BY <1>1 DEF Inv, TypeOK, NamesNumbered, AtWork, Names, Writers
<1>4. FilesCreated'
  <2>1. /\ \A m \in Names : temp[m] <= attempts + 1 /\ durable.temp[m] <= attempts + 1
        /\ dest <= attempts + 1 /\ durable.dest <= attempts + 1
    BY Numbers DEF Inv, FilesCreated, Attempts
  <2> QED
    BY <1>1, <2>1 DEF FilesCreated
<1>5. TempsDiffer' /\ FilesDiffer' /\ OwnFile' /\ DestsWhole' /\ ModesKept'
  BY <1>1 DEF Inv, TempsDiffer, FilesDiffer, OwnFile, DestsWhole, ModesKept, AtWork
<1>6. WrittenSoFar'
  <2>1. \A v \in Writers : Filled(v)' = Filled(v)
    BY <1>1 DEF Filled
  <2> QED
    BY <1>1, <2>1 DEF Inv, WrittenSoFar, AtWork
<1> QED
  BY <1>2, <1>3, <1>4, <1>5, <1>6 DEF Inv

\* The file of a writer at work is its own.
LEMMA OwnFileDiffers ==
  ASSUME Inv, NEW w \in Writers, AtWork(w)
  PROVE  /\ open[w] \in Attempts /\ mine[w] \in Attempts /\ name[w] \in Names
         /\ temp[name[w]] = open[w]
         /\ open[w] # dest /\ open[w] # durable.dest
         /\ \A m \in Names : m # name[w] => temp[m] # open[w]
         /\ \A v \in Writers : AtWork(v) /\ v # w => open[v] # open[w] /\ name[v] # name[w]
<1>1. /\ open[w] \in Attempts /\ mine[w] \in Attempts /\ name[w] \in Names
      /\ temp[name[w]] = open[w] /\ open[w] # 0
  BY DEF Inv, TypeOK, OwnFile, WrittenSoFar
<1>2. open[w] # dest /\ open[w] # durable.dest
  BY <1>1 DEF Inv, FilesDiffer
<1>3. \A m \in Names : m # name[w] => temp[m] # open[w]
  BY <1>1 DEF Inv, FilesDiffer
<1>4. ASSUME NEW v \in Writers, AtWork(v), v # w
      PROVE  open[v] # open[w] /\ name[v] # name[w]
  <2>1. name[v] # name[w] /\ name[v] \in Names /\ temp[name[v]] = open[v]
    BY <1>4 DEF Inv, TypeOK, TempsDiffer, OwnFile, AtWork
  <2> QED
    BY <1>3, <2>1
<1> QED
  BY <1>1, <1>2, <1>3, <1>4

\* A write reaches the writer's own file, which no reader reads yet.
LEMMA WriteInv == ASSUME Inv, NEW w \in Writers, Write(w) PROVE Inv'
<1> USE AtomicAssumption
<1>1. /\ pc[w] = "write" /\ done[w] < Parts
      /\ data' = [data EXCEPT ![open[w]][done[w] + 1] = mine[w]]
      /\ done' = [done EXCEPT ![w] = @ + 1]
      /\ UNCHANGED <<attempts, dest, temp, mode, durable, synced, seq, pc, name, open,
                     mine, crashed>>
  BY DEF Write, PartsLeft
<1>2. /\ open[w] \in Attempts /\ mine[w] \in Attempts
      /\ open[w] # dest /\ open[w] # durable.dest
      /\ \A v \in Writers : AtWork(v) /\ v # w => open[v] # open[w]
  BY <1>1, OwnFileDiffers DEF AtWork
<1>3. done[w] \in Nat /\ done[w] + 1 \in 1 .. Parts
  BY <1>1 DEF Inv, TypeOK
<1>4. /\ \A f \in Attempts : f # open[w] => data'[f] = data[f]
      /\ data'[open[w]] = [data[open[w]] EXCEPT ![done[w] + 1] = mine[w]]
      /\ data[open[w]] \in [1 .. Parts -> {0} \cup Attempts]
  BY <1>1, <1>2 DEF Inv, TypeOK
<1>5. TypeOK'
  <2>1. data' \in [Attempts -> [1 .. Parts -> {0} \cup Attempts]]
    BY <1>1, <1>2, <1>3 DEF Inv, TypeOK
  <2>2. done' \in [Writers -> 0 .. Parts]
    BY <1>1, <1>3 DEF Inv, TypeOK
  <2> QED
    BY <1>1, <2>1, <2>2 DEF Inv, TypeOK
<1>6. NamesNumbered' /\ TempsDiffer' /\ FilesCreated' /\ FilesDiffer' /\ OwnFile' /\ ModesKept'
  BY <1>1 DEF Inv, NamesNumbered, TempsDiffer, FilesCreated, FilesDiffer, OwnFile,
              ModesKept, AtWork
<1>7. WrittenSoFar'
  <2> SUFFICES ASSUME NEW v \in Writers
               PROVE  /\ AtWork(v)' => mine'[v] # 0
                      /\ pc'[v] = "write" =>
                           \A p \in 1 .. done'[v] : data'[open'[v]][p] = mine'[v]
                      /\ pc'[v] \in {"mode", "rename"} =>
                           data'[open'[v]] = Filled(v)' /\ synced'[open'[v]] = Filled(v)'
    BY DEF WrittenSoFar
  <2>1. CASE v = w
    <3>1. \A p \in 1 .. done[w] : data[open[w]][p] = mine[w]
      BY <1>1 DEF Inv, WrittenSoFar
    <3>2. \A p \in 1 .. done[w] + 1 : data'[open[w]][p] = mine[w]
      BY <1>3, <1>4, <3>1
    <3>3. done'[w] = done[w] + 1
      BY <1>1 DEF Inv, TypeOK
    <3> QED
      BY <1>1, <2>1, <3>2, <3>3 DEF Inv, WrittenSoFar, AtWork
  <2>2. CASE v # w /\ AtWork(v)
    <3>1. data'[open[v]] = data[open[v]] /\ done'[v] = done[v]
      BY <1>1, <1>2, <1>4, <2>2, OwnFileDiffers DEF Inv, TypeOK
    <3>2. Filled(v)' = Filled(v)
      BY <1>1 DEF Filled
    <3> QED
      BY <1>1, <2>2, <3>1, <3>2 DEF Inv, WrittenSoFar, AtWork
  <2>3. CASE ~AtWork(v)
    BY <1>1, <2>3 DEF AtWork
  <2> QED
    BY <2>1, <2>2, <2>3
<1>8. DestsWhole'
  <2>1. data'[dest] = data[dest] /\ data'[durable.dest] = data[durable.dest]
    BY <1>2, <1>4, Numbers DEF Inv, TypeOK
  <2> QED
    BY <1>1, <2>1 DEF Inv, DestsWhole
<1> QED
  BY <1>5, <1>6, <1>7, <1>8 DEF Inv

\* commit's sync puts the whole contents on the disk before the rename.
LEMMA SyncInv == ASSUME Inv, NEW w \in Writers, Sync(w) PROVE Inv'
<1> USE AtomicAssumption
<1>1. /\ pc[w] = "write" /\ ~(done[w] < Parts)
      /\ pc' = [pc EXCEPT ![w] = "mode"]
      /\ UNCHANGED <<attempts, dest, temp, data, mode, durable, seq, name, open, mine, done,
                     crashed>>
  BY DEF Sync, PartsLeft, Goto, disk
<1>2. /\ open[w] \in Attempts /\ open[w] # dest /\ open[w] # durable.dest
      /\ \A v \in Writers : AtWork(v) /\ v # w => open[v] # open[w]
      /\ temp[name[w]] = open[w]
  BY <1>1, OwnFileDiffers DEF AtWork
<1>3. synced' = [synced EXCEPT ![open[w]] = data[open[w]]]
  BY <1>2 DEF Sync, SyncedAfter
<1>4. data[open[w]] = Filled(w)
  <2>1. data[open[w]] \in [1 .. Parts -> {0} \cup Attempts] /\ done[w] = Parts
    BY <1>1, <1>2 DEF Inv, TypeOK
  <2>2. \A p \in 1 .. Parts : data[open[w]][p] = mine[w]
    BY <1>1, <2>1 DEF Inv, WrittenSoFar
  <2> QED
    BY <2>1, <2>2 DEF Filled
<1>5. TypeOK'
  <2>1. synced' \in [Attempts -> [1 .. Parts -> {0} \cup Attempts]]
    BY <1>2, <1>3 DEF Inv, TypeOK
  <2>2. pc' \in [Writers -> {"idle", "write", "mode", "rename"}]
    BY <1>1 DEF Inv, TypeOK
  <2> QED
    BY <1>1, <2>1, <2>2 DEF Inv, TypeOK
<1>6. \A v \in Writers : AtWork(v)' <=> AtWork(v)
  BY <1>1 DEF Inv, TypeOK, AtWork
<1>7. NamesNumbered' /\ TempsDiffer' /\ FilesCreated' /\ FilesDiffer' /\ OwnFile'
  BY <1>1, <1>6 DEF Inv, NamesNumbered, TempsDiffer, FilesCreated, FilesDiffer, OwnFile, AtWork
<1>8. ModesKept'
  BY <1>1 DEF Inv, TypeOK, ModesKept
<1>9. WrittenSoFar'
  <2>1. \A v \in Writers : Filled(v)' = Filled(v)
    BY <1>1 DEF Filled
  <2>2. ASSUME NEW v \in Writers, pc[v] \in {"mode", "rename"}
        PROVE  synced'[open[v]] = synced[open[v]]
    <3>1. AtWork(v) /\ v # w
      BY <1>1, <2>2 DEF AtWork
    <3>2. open[v] # open[w] /\ open[v] \in Attempts
      BY <1>2, <3>1, OwnFileDiffers
    <3> QED
      BY <1>3, <3>2 DEF Inv, TypeOK
  <2>3. synced'[open[w]] = data[open[w]]
    BY <1>2, <1>3 DEF Inv, TypeOK
  <2>4. /\ pc'[w] = "mode" /\ mine[w] # 0
        /\ \A v \in Writers : v # w => pc'[v] = pc[v]
    BY <1>1 DEF Inv, TypeOK, WrittenSoFar, AtWork
  <2>5. ASSUME NEW v \in Writers
        PROVE  /\ AtWork(v)' => mine'[v] # 0
               /\ pc'[v] = "write" => \A p \in 1 .. done'[v] : data'[open'[v]][p] = mine'[v]
               /\ pc'[v] \in {"mode", "rename"} =>
                    data'[open'[v]] = Filled(v) /\ synced'[open'[v]] = Filled(v)
    <3>1. CASE v = w
      BY <1>1, <1>4, <2>3, <2>4, <3>1
    <3>2. CASE v # w
      BY <1>1, <1>6, <2>2, <2>4, <3>2 DEF Inv, WrittenSoFar
    <3> QED
      BY <3>1, <3>2
  <2> QED
    BY <2>1, <2>5 DEF WrittenSoFar
<1>10. DestsWhole'
  <2>1. synced'[dest] = synced[dest] /\ synced'[durable.dest] = synced[durable.dest]
    BY <1>2, <1>3, Numbers DEF Inv, TypeOK
  <2> QED
    BY <1>1, <2>1 DEF Inv, DestsWhole
<1> QED
  BY <1>5, <1>7, <1>8, <1>9, <1>10 DEF Inv

\* keep_mode gives the temporary the destination's mode, the only file it
\* touches.
LEMMA KeepModeInv == ASSUME Inv, NEW w \in Writers, KeepMode(w) PROVE Inv'
<1> USE AtomicAssumption
<1>1. /\ pc[w] = "mode" /\ pc' = [pc EXCEPT ![w] = "rename"]
      /\ UNCHANGED <<attempts, dest, temp, data, durable, synced, seq, name, open, mine, done,
                     crashed>>
  BY DEF KeepMode, Goto
<1>2. /\ open[w] \in Attempts /\ open[w] # dest /\ open[w] # durable.dest
      /\ temp[name[w]] = open[w]
  BY <1>1, OwnFileDiffers DEF AtWork
<1>3. mode' = [mode EXCEPT ![open[w]] = "private"]
  BY <1>2 DEF KeepMode, ModeKept, Inv, ModesKept
<1>4. TypeOK'
  <2>1. mode' \in [Attempts -> {"private", "default"}]
    BY <1>2, <1>3 DEF Inv, TypeOK
  <2>2. pc' \in [Writers -> {"idle", "write", "mode", "rename"}]
    BY <1>1 DEF Inv, TypeOK
  <2> QED
    BY <1>1, <2>1, <2>2 DEF Inv, TypeOK
<1>5. \A v \in Writers : AtWork(v)' <=> AtWork(v)
  BY <1>1 DEF Inv, TypeOK, AtWork
<1>6. NamesNumbered' /\ TempsDiffer' /\ FilesCreated' /\ FilesDiffer' /\ OwnFile' /\ DestsWhole'
  BY <1>1, <1>5 DEF Inv, NamesNumbered, TempsDiffer, FilesCreated, FilesDiffer, OwnFile,
                    DestsWhole, AtWork
<1>7. ModesKept'
  <2>1. \A f \in Attempts : mode[f] = "private" => mode'[f] = "private"
    BY <1>2, <1>3 DEF Inv, TypeOK
  <2>2. mode'[open[w]] = "private"
    BY <1>2, <1>3 DEF Inv, TypeOK
  <2>3. ASSUME NEW v \in Writers, pc'[v] = "rename", v # w PROVE mode'[open[v]] = "private"
    <3>1. pc[v] = "rename" /\ open[v] \in Attempts
      BY <1>1, <2>3, OwnFileDiffers DEF Inv, TypeOK, AtWork
    <3> QED
      BY <2>1, <3>1 DEF Inv, ModesKept
  <2>4. mode'[dest] = "private" /\ mode'[durable.dest] = "private"
    BY <2>1, Numbers DEF Inv, TypeOK, ModesKept
  <2> QED
    BY <1>1, <2>2, <2>3, <2>4 DEF Inv, ModesKept
<1>8. WrittenSoFar'
  <2>1. \A v \in Writers : Filled(v)' = Filled(v)
    BY <1>1 DEF Filled
  <2>2. \A v \in Writers : /\ pc'[v] = "write" => pc[v] = "write"
                           /\ pc'[v] \in {"mode", "rename"} => pc[v] \in {"mode", "rename"}
    BY <1>1 DEF Inv, TypeOK
  <2> QED
    BY <1>1, <1>5, <2>1, <2>2 DEF Inv, WrittenSoFar
<1> QED
  BY <1>4, <1>6, <1>7, <1>8 DEF Inv

\* The rename publishes a file that was written, synced and given its mode.
LEMMA RenameInv == ASSUME Inv, NEW w \in Writers, Rename(w) PROVE Inv'
<1> USE AtomicAssumption
<1>1. /\ pc[w] = "rename" /\ pc' = [pc EXCEPT ![w] = "idle"]
      /\ temp' = [temp EXCEPT ![name[w]] = 0]
      /\ UNCHANGED <<attempts, data, mode, durable, synced, seq, name, open, mine, done,
                     crashed>>
  BY DEF Rename, Goto
<1>2. /\ open[w] \in Attempts /\ name[w] \in Names /\ temp[name[w]] = open[w]
      /\ \A m \in Names : m # name[w] => temp[m] # open[w]
      /\ \A v \in Writers : AtWork(v) /\ v # w => name[v] # name[w]
      /\ open[w] # 0
  BY <1>1, OwnFileDiffers DEF AtWork, Inv, OwnFile
<1>3. dest' = open[w]
  BY <1>2 DEF Rename
<1>4. /\ temp'[name[w]] = 0
      /\ \A m \in Names : m # name[w] => temp'[m] = temp[m]
  BY <1>1, <1>2 DEF Inv, TypeOK
<1>5. TypeOK'
  <2>1. temp' \in [Names -> {0} \cup Attempts]
    BY <1>1, <1>2 DEF Inv, TypeOK
  <2>2. pc' \in [Writers -> {"idle", "write", "mode", "rename"}]
    BY <1>1 DEF Inv, TypeOK
  <2> QED
    BY <1>1, <1>2, <1>3, <2>1, <2>2 DEF Inv, TypeOK
<1>6. /\ pc'[w] = "idle" /\ \A v \in Writers : v # w => pc'[v] = pc[v]
      /\ \A v \in Writers : AtWork(v)' => AtWork(v) /\ v # w
  BY <1>1 DEF Inv, TypeOK, AtWork
<1>7. NamesNumbered' /\ TempsDiffer'
  BY <1>1, <1>6 DEF Inv, NamesNumbered, TempsDiffer, AtWork
<1>8. FilesCreated'
  <2>1. open[w] <= attempts /\ 0 <= attempts
    BY <1>2, Numbers DEF Inv, FilesCreated
  <2> QED
    BY <1>1, <1>3, <1>4, <2>1 DEF Inv, FilesCreated
<1>9. FilesDiffer'
  <2>1. durable.dest # 0 /\ open[w] # durable.dest
    BY <1>1, <1>2, OwnFileDiffers, Numbers DEF Attempts, Inv, AtWork
  <2> QED
    BY <1>1, <1>2, <1>3, <1>4, <2>1 DEF Inv, FilesDiffer
<1>10. OwnFile'
  BY <1>1, <1>2, <1>4, <1>6 DEF Inv, TypeOK, OwnFile
<1>11. WrittenSoFar' /\ ModesKept'
  <2>1. \A v \in Writers : Filled(v)' = Filled(v)
    BY <1>1 DEF Filled
  <2>2. WrittenSoFar'
    BY <1>1, <1>6, <2>1 DEF Inv, WrittenSoFar, AtWork
  <2>3. ModesKept'
    BY <1>1, <1>3, <1>6 DEF Inv, ModesKept
  <2> QED
    BY <2>2, <2>3
<1>12. DestsWhole'
  <2>1. data[open[w]] = Filled(w) /\ synced[open[w]] = Filled(w) /\ mine[w] \in Attempts
    BY <1>1, OwnFileDiffers DEF Inv, WrittenSoFar, AtWork
  <2>2. Whole(data[open[w]]) /\ Whole(synced[open[w]])
    BY <2>1 DEF Whole, Filled
  <2> QED
    BY <1>1, <1>3, <2>2 DEF Inv, DestsWhole
<1> QED
  BY <1>5, <1>7, <1>8, <1>9, <1>10, <1>11, <1>12 DEF Inv

\* A writer that gives up leaves the destination where it was.
LEMMA FailInv == ASSUME Inv, NEW w \in Writers, Fail(w) PROVE Inv'
<1> USE AtomicAssumption
<1>1. /\ AtWork(w) /\ pc' = [pc EXCEPT ![w] = "idle"]
      /\ temp' = [temp EXCEPT ![name[w]] = 0]
      /\ UNCHANGED <<attempts, dest, data, mode, durable, synced, seq, name, open, mine, done,
                     crashed>>
  BY DEF Fail, Removed, Goto, AtWork
<1>2. /\ name[w] \in Names
      /\ \A v \in Writers : AtWork(v) /\ v # w => name[v] # name[w]
  BY <1>1, OwnFileDiffers
<1>3. /\ temp'[name[w]] = 0
      /\ \A m \in Names : m # name[w] => temp'[m] = temp[m]
  BY <1>1, <1>2 DEF Inv, TypeOK
<1>4. TypeOK'
  <2>1. temp' \in [Names -> {0} \cup Attempts]
    BY <1>1, <1>2 DEF Inv, TypeOK
  <2>2. pc' \in [Writers -> {"idle", "write", "mode", "rename"}]
    BY <1>1 DEF Inv, TypeOK
  <2> QED
    BY <1>1, <2>1, <2>2 DEF Inv, TypeOK
<1>5. /\ pc'[w] = "idle" /\ \A v \in Writers : v # w => pc'[v] = pc[v]
      /\ \A v \in Writers : AtWork(v)' => AtWork(v) /\ v # w
  BY <1>1 DEF Inv, TypeOK, AtWork
<1>6. NamesNumbered' /\ TempsDiffer'
  BY <1>1, <1>5 DEF Inv, NamesNumbered, TempsDiffer, AtWork
<1>7. FilesCreated'
  BY <1>1, <1>3, Numbers DEF Inv, FilesCreated
<1>8. FilesDiffer'
  <2>1. durable.dest # 0 /\ dest # 0
    BY Numbers DEF Attempts, Inv, TypeOK
  <2> QED
    BY <1>1, <1>3, <2>1 DEF Inv, FilesDiffer
<1>9. OwnFile'
  BY <1>1, <1>2, <1>3, <1>5 DEF Inv, TypeOK, OwnFile
<1>10. WrittenSoFar' /\ ModesKept'
  <2>1. \A v \in Writers : Filled(v)' = Filled(v)
    BY <1>1 DEF Filled
  <2>2. WrittenSoFar'
    BY <1>1, <1>5, <2>1 DEF Inv, WrittenSoFar, AtWork
  <2>3. ModesKept'
    BY <1>1, <1>5 DEF Inv, ModesKept
  <2> QED
    BY <2>2, <2>3
<1>11. DestsWhole'
  BY <1>1 DEF Inv, DestsWhole
<1> QED
  BY <1>4, <1>6, <1>7, <1>8, <1>9, <1>10, <1>11 DEF Inv

\* A process that dies leaves its temporaries, whose names a process with
\* its pid may take again.
LEMMA DieInv == ASSUME Inv, NEW p \in Pids, Die(p) PROVE Inv'
<1> USE AtomicAssumption
<1>1. /\ pc' = [w \in Writers |-> IF w[1] = p THEN "idle" ELSE pc[w]]
      /\ seq' = [seq EXCEPT ![p] = 0]
      /\ UNCHANGED <<attempts, dest, temp, data, mode, durable, synced, name, open, mine, done>>
  BY DEF Die, disk
<1>2. /\ \A v \in Writers : AtWork(v)' => AtWork(v) /\ v[1] # p /\ pc'[v] = pc[v]
      /\ \A v \in Writers : ~AtWork(v)' => pc'[v] = "idle"
  BY <1>1 DEF AtWork
<1>3. TypeOK'
  <2>1. pc' \in [Writers -> {"idle", "write", "mode", "rename"}]
    BY <1>1 DEF Inv, TypeOK
  <2>2. seq' \in [Pids -> 0 .. MaxAttempts]
    BY <1>1 DEF Inv, TypeOK
  <2>3. crashed' \subseteq Names
    BY DEF Inv, TypeOK, Die
  <2> QED
    BY <1>1, <2>1, <2>2, <2>3 DEF Inv, TypeOK
<1>4. NamesNumbered'
  <2>1. \A v \in Writers : v[1] # p => seq'[v[1]] = seq[v[1]]
    BY <1>1 DEF Inv, TypeOK, Writers
  <2> QED
    BY <1>1, <1>2, <2>1 DEF Inv, NamesNumbered
<1>5. TempsDiffer' /\ OwnFile' /\ FilesCreated' /\ FilesDiffer' /\ DestsWhole'
  BY <1>1, <1>2 DEF Inv, TempsDiffer, OwnFile, AtWork, FilesCreated, FilesDiffer, DestsWhole
<1>6. WrittenSoFar'
  <2>1. \A v \in Writers : Filled(v)' = Filled(v)
    BY <1>1 DEF Filled
  <2> QED
    BY <1>1, <1>2, <2>1 DEF Inv, WrittenSoFar
<1>7. ModesKept'
  BY <1>1, <1>2 DEF Inv, ModesKept
<1> QED
  BY <1>3, <1>4, <1>5, <1>6, <1>7 DEF Inv

\* What the system writes to the disk by itself is what is there already.
LEMMA FlushInv == ASSUME Inv, Flush PROVE Inv'
<1> USE AtomicAssumption
<1>1. UNCHANGED <<attempts, dest, temp, data, mode, seq, pc, name, open, mine, done, crashed>>
  BY DEF Flush, disk, writer
<1>2. NamesNumbered' /\ TempsDiffer' /\ OwnFile'
  BY <1>1 DEF Inv, NamesNumbered, TempsDiffer, OwnFile, AtWork
<1>3. \A v \in Writers : Filled(v)' = Filled(v) /\ (AtWork(v)' <=> AtWork(v))
  BY <1>1 DEF Filled, AtWork
<1>4. CASE durable' = [dest |-> dest, temp |-> temp, mode |-> mode] /\ synced' = synced
  <2>1. durable'.dest = dest /\ durable'.temp = temp /\ durable'.mode = mode
    BY <1>4
  <2>2. TypeOK'
    BY <1>1, <1>4 DEF Inv, TypeOK
  <2>3. FilesCreated' /\ FilesDiffer'
    BY <1>1, <2>1 DEF Inv, FilesCreated, FilesDiffer
  <2>4. DestsWhole' /\ ModesKept'
    BY <1>1, <1>4, <2>1 DEF Inv, DestsWhole, ModesKept
  <2>5. WrittenSoFar'
    BY <1>1, <1>3, <1>4 DEF Inv, WrittenSoFar
  <2> QED
    BY <1>2, <2>2, <2>3, <2>4, <2>5 DEF Inv
<1>5. ASSUME NEW a \in Attempts, synced' = [synced EXCEPT ![a] = data[a]], durable' = durable
      PROVE  Inv'
  <2>1. \A f \in Attempts : synced'[f] = data[f] \/ synced'[f] = synced[f]
    BY <1>5 DEF Inv, TypeOK
  <2>2. TypeOK'
    <3>1. synced' \in [Attempts -> [1 .. Parts -> {0} \cup Attempts]]
      BY <1>5 DEF Inv, TypeOK
    <3> QED
      BY <1>1, <1>5, <3>1 DEF Inv, TypeOK
  <2>3. FilesCreated' /\ FilesDiffer' /\ ModesKept'
    BY <1>1, <1>5 DEF Inv, FilesCreated, FilesDiffer, ModesKept
  <2>4. DestsWhole'
    BY <1>1, <1>5, <2>1, Numbers DEF Inv, TypeOK, DestsWhole
  <2>5. WrittenSoFar'
    <3>1. ASSUME NEW v \in Writers, pc[v] \in {"mode", "rename"}
          PROVE  synced'[open[v]] = Filled(v)
      <4>1. open[v] \in Attempts
        BY <3>1, OwnFileDiffers DEF AtWork
      <4> QED
        BY <2>1, <3>1, <4>1 DEF Inv, WrittenSoFar
    <3> QED
      BY <1>1, <1>3, <3>1 DEF Inv, WrittenSoFar
  <2> QED
    BY <1>2, <2>2, <2>3, <2>4, <2>5 DEF Inv
<1> QED
  BY <1>4, <1>5 DEF Flush

\* With the power gone the destination is an earlier one, whole on the disk.
LEMMA PowerLossInv == ASSUME Inv, PowerLoss PROVE Inv'
<1> USE AtomicAssumption
<1>1. /\ dest' = durable.dest /\ temp' = durable.temp /\ mode' = durable.mode /\ data' = synced
      /\ pc' = [w \in Writers |-> "idle"] /\ seq' = [p \in Pids |-> 0]
      /\ crashed' \subseteq Names
      /\ UNCHANGED <<attempts, durable, synced, name, open, mine, done>>
  BY DEF PowerLoss
<1>2. TypeOK'
  <2>1. /\ dest' \in Attempts /\ temp' \in [Names -> {0} \cup Attempts]
        /\ mode' \in [Attempts -> {"private", "default"}]
    BY <1>1, Numbers DEF Inv
  <2>2. /\ pc' \in [Writers -> {"idle", "write", "mode", "rename"}]
        /\ seq' \in [Pids -> 0 .. MaxAttempts]
    BY <1>1
  <2> QED
    BY <1>1, <2>1, <2>2 DEF Inv, TypeOK
<1>3. \A w \in Writers : ~AtWork(w)' /\ pc'[w] = "idle"
  BY <1>1 DEF AtWork
<1>4. TempsDiffer' /\ OwnFile' /\ WrittenSoFar'
  BY <1>1, <1>3 DEF TempsDiffer, OwnFile, WrittenSoFar, AtWork
<1>5. NamesNumbered'
  BY <1>1, <1>3 DEF Inv, NamesNumbered
<1>6. FilesCreated' /\ FilesDiffer'
  BY <1>1 DEF Inv, FilesCreated, FilesDiffer
<1>7. DestsWhole' /\ ModesKept'
  BY <1>1, <1>3 DEF Inv, DestsWhole, ModesKept
<1> QED
  BY <1>2, <1>4, <1>5, <1>6, <1>7 DEF Inv

\* The inductive invariant.
THEOREM Invariance == Spec => []Inv
<1>1. Inv /\ [Next]_vars => Inv'
  <2> SUFFICES ASSUME Inv, [Next]_vars PROVE Inv'
    OBVIOUS
  <2>1. ASSUME NEW w \in Writers,
               \/ Create(w) \/ CreateFails(w) \/ Write(w) \/ Sync(w)
               \/ KeepMode(w) \/ Rename(w) \/ Fail(w)
        PROVE  Inv'
    BY <2>1, CreateInv, CreateFailsInv, WriteInv, SyncInv, KeepModeInv, RenameInv, FailInv
  <2>2. CASE UNCHANGED vars
    <3>1. UNCHANGED <<attempts, dest, temp, data, mode, durable, synced, seq, pc, name, open,
                      mine, done, crashed>>
      BY <2>2 DEF vars, disk, writer
    <3>2. TypeOK' /\ NamesNumbered' /\ TempsDiffer' /\ FilesCreated' /\ FilesDiffer'
      BY <3>1 DEF Inv, TypeOK, NamesNumbered, TempsDiffer, FilesCreated, FilesDiffer, AtWork
    <3>3. OwnFile' /\ DestsWhole' /\ ModesKept'
      BY <3>1 DEF Inv, OwnFile, DestsWhole, ModesKept, AtWork
    <3>4. \A v \in Writers : Filled(v)' = Filled(v)
      BY <3>1 DEF Filled
    <3>5. WrittenSoFar'
      BY <3>1, <3>4 DEF Inv, WrittenSoFar, AtWork
    <3> QED
      BY <3>2, <3>3, <3>5 DEF Inv
  <2> QED
    BY <2>1, <2>2, DieInv, FlushInv, PowerLossInv DEF Next
<1> QED
  BY <1>1, InitInv, PTL DEF Spec

\* The state of every reachable moment has its type.
THEOREM TypeCorrect == Spec => []TypeOK
<1>1. Inv => TypeOK
  BY DEF Inv
<1> QED
  BY <1>1, Invariance, PTL

\* The destination is whole whatever its writers do and wherever they, or the
\* machine, stop.
THEOREM DestAlwaysWhole == Spec => []DestWhole
<1>1. Inv => DestWhole
  BY DEF Inv, DestsWhole, DestWhole
<1> QED
  BY <1>1, Invariance, PTL

\* No two writers at work share a temporary.
THEOREM TempsAlwaysDiffer == Spec => []TempsDiffer
<1>1. Inv => TempsDiffer
  BY DEF Inv
<1> QED
  BY <1>1, Invariance, PTL

\* A save never changes who may read the file.
THEOREM ModeAlwaysStays == Spec => []ModeStays
<1>1. Inv => ModeStays
  BY DEF Inv, ModesKept, ModeStays
<1> QED
  BY <1>1, Invariance, PTL

\* The contents of the destination change to one writer's, complete, or back
\* with the power.
THEOREM DestAlwaysReplaced == Spec => DestReplaced
<1>1. Inv /\ [Next]_vars => [Replaces]_vars
  <2> SUFFICES ASSUME Inv, Next PROVE Replaces
    OBVIOUS
  <2>1. ASSUME NEW w \in Writers, Create(w) \/ Write(w) PROVE Replaces
    <3>1. CASE Create(w)
      <4> DEFINE f == IF temp[TempName(w)] = 0 THEN attempts + 1 ELSE temp[TempName(w)]
      <4>1. f # dest
        <5>1. TempName(w) \in Names
          BY <3>1 DEF Create, TempName, Names, Writers, Inv, TypeOK
        <5> QED
          BY <3>1, <5>1, Numbers DEF Inv, FilesCreated, FilesDiffer
      <4> QED
        BY <3>1, <4>1 DEF Create, Replaces, Inv, TypeOK
    <3>2. CASE Write(w)
      <4>1. open[w] # dest
        BY <3>2, OwnFileDiffers DEF Write, AtWork
      <4> QED
        BY <3>2, <4>1 DEF Write, Replaces, Inv, TypeOK
    <3> QED
      BY <2>1, <3>1, <3>2
  <2>2. ASSUME NEW w \in Writers, Rename(w) PROVE Replaces
    <3>1. dest' = open[w] /\ data' = data
      BY <2>2, OwnFileDiffers DEF Rename, AtWork
    <3>2. pc[w] = "rename" /\ data[open[w]] = Filled(w)
      BY <2>2 DEF Rename, Inv, WrittenSoFar
    <3> QED
      BY <3>1, <3>2 DEF Replaces, Filled
  <2>3. ASSUME NEW w \in Writers, CreateFails(w) \/ Sync(w) \/ KeepMode(w) \/ Fail(w)
        PROVE  Replaces
    BY <2>3 DEF CreateFails, Sync, KeepMode, Fail, Replaces, disk
  <2>4. ASSUME NEW p \in Pids, Die(p) PROVE Replaces
    BY <2>4 DEF Die, Replaces, disk
  <2>5. CASE Flush \/ PowerLoss
    BY <2>5 DEF Flush, PowerLoss, Replaces, disk
  <2> QED
    BY <2>1, <2>2, <2>3, <2>4, <2>5 DEF Next
<1> QED
  BY <1>1, Invariance, PTL DEF Spec, DestReplaced

\* A temporary nobody writes was left by a death or a power loss.
THEOREM TempsAlwaysRemoved == Spec => []TempsRemoved
<1>1. Init => TempsRemoved
  BY DEF Init, TempsRemoved, Names
<1>2. TypeOK /\ TempsRemoved /\ [Next]_vars => TempsRemoved'
  <2> SUFFICES ASSUME TypeOK, TempsRemoved, [Next]_vars PROVE TempsRemoved'
    OBVIOUS
  <2>1. ASSUME NEW w \in Writers, Create(w) PROVE TempsRemoved'
    <3>1. /\ \A n \in Names : n # TempName(w) => temp'[n] = temp[n]
          /\ crashed' = crashed \ {TempName(w)}
      BY <2>1 DEF Create, TypeOK
    <3>2. /\ name'[w] = TempName(w) /\ pc'[w] = "write"
          /\ \A v \in Writers : v # w => name'[v] = name[v] /\ pc'[v] = pc[v]
          /\ pc[w] = "idle"
      BY <2>1 DEF Create, Goto, TypeOK
    <3> QED
      BY <3>1, <3>2 DEF TempsRemoved
  <2>2. ASSUME NEW w \in Writers, Rename(w) \/ Fail(w) PROVE TempsRemoved'
    <3>1. /\ temp' = [temp EXCEPT ![name[w]] = 0] /\ name[w] \in Names
          /\ name' = name /\ crashed' = crashed
          /\ \A v \in Writers : v # w => pc'[v] = pc[v]
      BY <2>2 DEF Rename, Fail, Removed, Goto, TypeOK
    <3> QED
      BY <3>1 DEF TempsRemoved, TypeOK
  <2>3. ASSUME NEW w \in Writers,
               CreateFails(w) \/ Write(w) \/ Sync(w) \/ KeepMode(w)
        PROVE  TempsRemoved'
    <3>1. /\ temp' = temp /\ name' = name /\ crashed' = crashed
          /\ \A v \in Writers : pc[v] # "idle" => pc'[v] # "idle"
      BY <2>3 DEF CreateFails, Write, Sync, KeepMode, Goto, TypeOK, disk, writer
    <3> QED
      BY <3>1 DEF TempsRemoved
  <2>4. ASSUME NEW p \in Pids, Die(p) PROVE TempsRemoved'
    BY <2>4 DEF Die, TempsRemoved, disk
  <2>5. CASE Flush \/ UNCHANGED vars
    BY <2>5 DEF Flush, TempsRemoved, disk, writer, vars
  <2>6. CASE PowerLoss
    BY <2>6 DEF PowerLoss, TempsRemoved
  <2> QED
    BY <2>1, <2>2, <2>3, <2>4, <2>5, <2>6 DEF Next
<1> QED
  BY <1>1, <1>2, TypeCorrect, PTL DEF Spec
=============================================================================
