------------------------- MODULE MemoryBatchProofs -------------------------
(***************************************************************************)
(* Machine-checked facts about MemoryBatch, for any files, thresholds and  *)
(* number of batches.                                                      *)
(***************************************************************************)
EXTENDS MemoryBatch, TLAPS

(* What a batch notes of a file, and of its files.                         *)
Note  == [own : Object \cup {None}, hash : 0..MaxVer]
Notes == UNION {[S -> Note] : S \in SUBSET Files}

TaskPCs == {"none", "read", "ask", "check", "verify", "save"}

Task == [pc : TaskPCs, sameGen : BOOLEAN, aborted : BOOLEAN, todo : SUBSET Files, files : Notes,
         at : Files \cup {None}, removed : BOOLEAN, done : BOOLEAN]

(* The state beside the task.                                              *)
StateType ==
    /\ disk \in [Files -> 0..MaxVer]
    /\ store \in [Files -> Object \cup {None}]
    /\ memoryBatchFilesLeft \in 1..BatchFiles
    /\ chain \in 0..MaxChain
    /\ projectMap \in [Files -> 0..MaxVer]
    /\ stale \subseteq {f \in Files : projectMap[f] # 0}
    /\ mapFile \in Content
    /\ writers \in [Writer -> {None} \cup [base : Content, data : [Files -> 0..MaxVer]]]
    /\ mode \in {"running", "flushing", "saving", "closed"}
    /\ contended \in BOOLEAN

(* A batch that holds no object of its own for a file finds one in the     *)
(* store; the mount it is about to commit was there when it looked.        *)
TaskInv ==
    /\ task \in Task
    /\ task.todo \subseteq DOMAIN task.files
    /\ task.pc # "read" => task.todo = {}
    /\ \A f \in DOMAIN task.files : task.files[f].own = None => Mounted(f)
    /\ task.pc = "verify" => /\ task.at \in DOMAIN task.files
                             /\ Mounted(task.at) \/ task.removed

(* Once shutdown() has taken the map from a session at rest, nobody        *)
(* changes the map and nobody else writes the file.                        *)
ShutdownInv ==
    /\ writers["batch"] # None => task.pc = "save"
    /\ mode \in {"saving", "closed"} /\ ~contended =>
           chain = 0 /\ task.pc = "none" /\ writers["scan"] = None
    /\ mode = "saving" /\ ~contended => writers["shutdown"].data = projectMap
    /\ mode = "closed" /\ ~contended =>
           \A f \in Files : projectMap[f] # 0 => mapFile[f] \in {projectMap[f], Other}

MemoryInv == StateType /\ TaskInv /\ ShutdownInv
-----------------------------------------------------------------------------
(* The notes of a batch.                                                   *)

LEMMA NotesFacts ==
    ASSUME NEW n \in Notes
    PROVE  /\ DOMAIN n \subseteq Files
           /\ n \in [DOMAIN n -> Note]
           /\ \A f \in DOMAIN n : n[f] \in Note /\ n[f].own \in Object \cup {None} /\ n[f].hash \in 0..MaxVer
<1>1. PICK S \in SUBSET Files : n \in [S -> Note]
  BY DEF Notes
<1> QED
  BY <1>1 DEF Note

LEMMA NotesAre ==
    ASSUME NEW S \in SUBSET Files, NEW n \in [S -> Note]
    PROVE  n \in Notes
BY DEF Notes

LEMMA EmptyNotes == <<>> \in Notes /\ DOMAIN <<>> = {}
<1>1. <<>> = [f \in {} |-> [own |-> None, hash |-> 0]]
  OBVIOUS
<1>2. [f \in {} |-> [own |-> None, hash |-> 0]] \in [{} -> Note]
  OBVIOUS
<1> QED
  BY <1>1, <1>2, NotesAre

LEMMA NoTaskType == NoTask \in Task
BY EmptyNotes DEF NoTask, Task, TaskPCs

LEMMA NoTaskInv == task' = NoTask => TaskInv'
<1> SUFFICES ASSUME task' = NoTask PROVE TaskInv'
  OBVIOUS
<1>1. NoTask.pc = "none" /\ NoTask.todo = {} /\ NoTask.files = <<>>
  BY DEF NoTask
<1> QED
  BY <1>1, NoTaskType, EmptyNotes DEF TaskInv

LEMMA TypeFromInv == StateType /\ TaskInv => TypeOK
<1> SUFFICES ASSUME StateType, TaskInv PROVE TypeOK
  OBVIOUS
<1>1. task.pc \in TaskPCs /\ task.files \in Notes
  BY DEF TaskInv, Task
<1> QED
  BY <1>1, NotesFacts DEF StateType, TaskInv, TypeOK, TaskPCs, Mounted

LEMMA TaskFields ==
    ASSUME TaskInv
    PROVE  /\ task.pc \in TaskPCs /\ task.sameGen \in BOOLEAN /\ task.aborted \in BOOLEAN
           /\ task.todo \subseteq Files /\ task.files \in Notes /\ task.at \in Files \cup {None}
           /\ task.removed \in BOOLEAN /\ task.done \in BOOLEAN
           /\ DOMAIN task.files \subseteq Files
           /\ \A f \in DOMAIN task.files : task.files[f] \in Note
<1>1. /\ task.pc \in TaskPCs /\ task.sameGen \in BOOLEAN /\ task.aborted \in BOOLEAN
      /\ task.todo \subseteq Files /\ task.files \in Notes /\ task.at \in Files \cup {None}
      /\ task.removed \in BOOLEAN /\ task.done \in BOOLEAN
  BY DEF TaskInv, Task
<1> QED
  BY <1>1, NotesFacts

(* The notes on some of the files.                                         *)
LEMMA OnlyNotes ==
    ASSUME TaskInv, NEW fs, fs \subseteq DOMAIN task.files
    PROVE  /\ Only(fs) \in Notes /\ DOMAIN Only(fs) = fs
           /\ \A f \in fs : Only(fs)[f] = task.files[f]
<1>1. fs \in SUBSET Files
  BY TaskFields
<1>2. Only(fs) \in [fs -> Note]
  BY TaskFields DEF Only
<1> QED
  BY <1>1, <1>2, NotesAre DEF Only

(* What leaves the store is kept by the batch that needs it.               *)
LEMMA KeepingEffect ==
    ASSUME StateType, TaskInv, NEW f \in Files
    PROVE  LET k == Keeping(f)
           IN  /\ k \in Task
               /\ k.pc = task.pc /\ k.sameGen = task.sameGen /\ k.aborted = task.aborted
               /\ k.todo = task.todo /\ k.at = task.at /\ k.removed = task.removed
               /\ k.done = task.done
               /\ DOMAIN k.files = DOMAIN task.files
               /\ f \in DOMAIN k.files => k.files[f].own # None
               /\ \A g \in DOMAIN k.files : g # f => k.files[g] = task.files[g]
<1>1. CASE f \in DOMAIN task.files /\ task.files[f].own = None
  <2> DEFINE n == [task.files[f] EXCEPT !.own = store[f]]
             fs == [task.files EXCEPT ![f] = n]
  <2>1. store[f] \in Object /\ store[f] # None
    BY <1>1 DEF StateType, TaskInv, Mounted
  <2>2. n \in Note /\ n.own = store[f]
    BY <1>1, <2>1, TaskFields DEF Note
  <2>3. task.files \in [DOMAIN task.files -> Note]
    BY TaskFields, NotesFacts
  <2>4. fs \in [DOMAIN task.files -> Note]
    BY <2>2, <2>3
  <2>5. fs \in Notes
    BY <2>4, TaskFields, NotesAre
  <2>6. Keeping(f) = [task EXCEPT !.files = fs]
    BY <1>1 DEF Keeping
  <2>7. DOMAIN fs = DOMAIN task.files /\ fs[f] = n /\ \A g \in DOMAIN fs : g # f => fs[g] = task.files[g]
    BY <1>1, <2>3
  <2> HIDE DEF fs, n
  <2>8. Keeping(f) \in Task /\ Keeping(f).files = fs
    BY <2>5, <2>6 DEF TaskInv, Task
  <2>9. LET k == Keeping(f)
        IN  /\ k.pc = task.pc /\ k.sameGen = task.sameGen /\ k.aborted = task.aborted
            /\ k.todo = task.todo /\ k.at = task.at /\ k.removed = task.removed
            /\ k.done = task.done
    BY <2>6 DEF TaskInv, Task
  <2> QED
    BY <2>1, <2>2, <2>7, <2>8, <2>9
<1>2. CASE ~(f \in DOMAIN task.files /\ task.files[f].own = None)
  BY <1>2 DEF Keeping, TaskInv
<1> QED
  BY <1>1, <1>2

(* A step that leaves the map, its file and the shutdown alone.            *)
LEMMA ShutdownKept ==
    ASSUME ShutdownInv, UNCHANGED <<projectMap, mapFile, writers, mode, contended>>,
           task.pc \in {"none", "save"} => task'.pc = task.pc,
           chain' = chain \/ mode = "running"
    PROVE  ShutdownInv'
BY DEF ShutdownInv

(* The store gets another object for f.                                    *)
LEMMA PutStep ==
    ASSUME StateType, TaskInv, NEW f \in Files, NEW object \in Object, Put(f, object)
    PROVE  TaskInv' /\ store' \in [Files -> Object \cup {None}] /\ task'.pc = task.pc
<1>1. store' \in [Files -> Object \cup {None}] /\ store'[f] = object
      /\ \A g \in Files : g # f => store'[g] = store[g]
  BY DEF Put, StateType
<1>2. task' = Keeping(f)
  BY DEF Put
<1>3. Mounted(f)'
  BY <1>1, NoneIsNoObject DEF Mounted
<1>4. \A g \in Files : Mounted(g) => Mounted(g)'
  BY <1>1, <1>3 DEF Mounted
<1>5. TaskInv'
  BY <1>2, <1>3, <1>4, KeepingEffect, TaskFields DEF TaskInv
<1> QED
  BY <1>1, <1>2, <1>5, KeepingEffect

LEMMA UnmountStep ==
    ASSUME StateType, TaskInv, NEW f \in Files, NEW sameGen \in BOOLEAN, Unmount(f, sameGen)
    PROVE  TaskInv' /\ store' \in [Files -> Object \cup {None}] /\ task'.pc = task.pc
<1>1. store' \in [Files -> Object \cup {None}]
      /\ \A g \in Files : g # f => store'[g] = store[g]
  BY DEF Unmount, StateType
<1> DEFINE k == Keeping(f)
           rem == (k.removed \/ task.at = f)
           gen == (k.sameGen /\ (sameGen \/ task.pc = "none"))
<1>2. task' = [k EXCEPT !.removed = rem, !.sameGen = gen]
  BY DEF Unmount
<1>3. /\ k \in Task
      /\ k.pc = task.pc /\ k.todo = task.todo /\ k.at = task.at /\ k.removed = task.removed
      /\ DOMAIN k.files = DOMAIN task.files
      /\ f \in DOMAIN k.files => k.files[f].own # None
      /\ \A g \in DOMAIN k.files : g # f => k.files[g] = task.files[g]
  BY KeepingEffect
<1>4. rem \in BOOLEAN /\ gen \in BOOLEAN
  OBVIOUS
<1>5. rem = (task.removed \/ task.at = f)
  BY <1>3
<1> HIDE DEF k, rem, gen
<1>6. /\ task' \in Task /\ task'.pc = k.pc /\ task'.todo = k.todo /\ task'.at = k.at
      /\ task'.files = k.files /\ task'.removed = rem
  BY <1>2, <1>3, <1>4 DEF Task
<1>7. \A g \in Files : g # f => (Mounted(g) => Mounted(g)')
  BY <1>1 DEF Mounted
<1>8. \A g \in DOMAIN task'.files : task'.files[g].own = None => Mounted(g)'
  BY <1>3, <1>6, <1>7, TaskFields DEF TaskInv
<1>9. task'.pc = "verify" => task'.at \in DOMAIN task'.files /\ (Mounted(task.at)' \/ task'.removed)
  BY <1>3, <1>5, <1>6, <1>7, TaskFields DEF TaskInv
<1>10. task'.todo \subseteq DOMAIN task'.files /\ (task'.pc # "read" => task'.todo = {})
  BY <1>3, <1>6 DEF TaskInv
<1> QED
  BY <1>1, <1>3, <1>6, <1>8, <1>9, <1>10 DEF TaskInv, Mounted

(* The same batch, the same mounts.                                        *)
LEMMA TaskKept ==
    ASSUME TaskInv, task' = task, \A f \in Files : Mounted(f) => Mounted(f)'
    PROVE  TaskInv'
BY TaskFields DEF TaskInv

LEMMA TriggerType ==
    ASSUME StateType, NEW pending, NEW left \in 1..BatchFiles, chain < MaxChain, Trigger(pending, left)
    PROVE  /\ memoryBatchFilesLeft' \in 1..BatchFiles /\ chain' \in 0..MaxChain
           /\ chain' = chain \/ mode = "running"
BY MemoryAssumption DEF StateType, Trigger

(* Reads and edits.                                                        *)
LEMMA MountSteps ==
    ASSUME MemoryInv, NEW f \in Files,
           MountNew(f) \/ Increment(f) \/ Update(f) \/ Edit(f) \/ Delete(f)
    PROVE  MemoryInv'
<1>0. StateType /\ TaskInv /\ ShutdownInv
  BY DEF MemoryInv
<1>1. CASE MountNew(f)
  <2> DEFINE o == [hash |-> disk[f], memoryState |-> "pending"]
  <2>1. o \in Object
    BY <1>0, <1>1, MemoryAssumption DEF MountNew, Object, StateType
  <2>2. /\ Put(f, o) /\ Trigger(Pending \cup {f}, memoryBatchFilesLeft) /\ chain < MaxChain
        /\ UNCHANGED <<disk, maps, mode, contended>>
    BY <1>1 DEF MountNew
  <2>3. TaskInv' /\ store' \in [Files -> Object \cup {None}] /\ task'.pc = task.pc
    BY <1>0, <2>1, <2>2, PutStep
  <2>4. /\ memoryBatchFilesLeft' \in 1..BatchFiles /\ chain' \in 0..MaxChain
        /\ chain' = chain \/ mode = "running"
    BY <1>0, <2>2, TriggerType DEF StateType
  <2> QED
    BY <1>0, <2>2, <2>3, <2>4, ShutdownKept DEF MemoryInv, StateType, maps
<1>2. CASE Increment(f)
  <2>1. store[f] \in Object /\ Put(f, store[f])
    BY <1>0, <1>2 DEF Increment, Mounted, StateType
  <2>2. UNCHANGED <<disk, memoryBatchFilesLeft, chain, maps, mode, contended>>
    BY <1>2 DEF Increment
  <2>3. TaskInv' /\ store' \in [Files -> Object \cup {None}] /\ task'.pc = task.pc
    BY <1>0, <2>1, PutStep
  <2> QED
    BY <1>0, <2>2, <2>3, ShutdownKept DEF MemoryInv, StateType, maps
<1>3. CASE Update(f)
  <2> DEFINE o == [hash |-> disk[f], memoryState |-> "unset"]
  <2>1. o \in Object
    BY <1>0, <1>3, MemoryAssumption DEF Update, Object, StateType
  <2>2. Put(f, o) \/ Unmount(f, TRUE)
    BY <1>3 DEF Update
  <2>3. UNCHANGED <<disk, memoryBatchFilesLeft, chain, maps, mode, contended>>
    BY <1>3 DEF Update
  <2>4. TaskInv' /\ store' \in [Files -> Object \cup {None}] /\ task'.pc = task.pc
    BY <1>0, <2>1, <2>2, PutStep, UnmountStep
  <2> QED
    BY <1>0, <2>3, <2>4, ShutdownKept DEF MemoryInv, StateType, maps
<1>4. CASE Edit(f) \/ Delete(f)
  <2>1. disk' \in [Files -> 0..MaxVer]
    BY <1>0, <1>4, MemoryAssumption DEF Edit, Delete, StateType
  <2>2. UNCHANGED <<store, memoryBatchFilesLeft, chain, task, maps, mode, contended>>
    BY <1>4 DEF Edit, Delete
  <2> QED
    BY <1>0, <2>1, <2>2, ShutdownKept, TaskKept DEF MemoryInv, StateType, maps, Mounted
<1> QED
  BY <1>1, <1>2, <1>3, <1>4

LEMMA SettledStep ==
    ASSUME MemoryInv, onAgentSettled
    PROVE  MemoryInv'
<1>1. UNCHANGED <<disk, store, task, maps, mode, contended>>
  BY DEF onAgentSettled
<1>2. LoweredThreshold(memoryBatchFilesLeft) \in 1..BatchFiles
  BY MemoryAssumption DEF LoweredThreshold, MemoryInv, StateType
<1>3. /\ memoryBatchFilesLeft' \in 1..BatchFiles /\ chain' \in 0..MaxChain
      /\ chain' = chain \/ mode = "running"
  BY <1>2, TriggerType DEF onAgentSettled, MemoryInv
<1> QED
  BY <1>1, <1>3, ShutdownKept, TaskKept DEF MemoryInv, StateType, maps, Mounted

-----------------------------------------------------------------------------
(* The map file.                                                           *)

WriterCall == [base : Content, data : [Files -> 0..MaxVer]]

LEMMA BegunType ==
    ASSUME StateType, NEW w \in Writer
    PROVE  LET b == Begun(w, projectMap)
           IN  /\ b \in [Writer -> {None} \cup WriterCall]
               /\ b[w] = [base |-> mapFile, data |-> projectMap]
               /\ \A v \in Writer : v # w => b[v] = writers[v]
<1>1. [base |-> mapFile, data |-> projectMap] \in WriterCall
  BY DEF StateType, WriterCall
<1> QED
  BY <1>1 DEF Begun, StateType, WriterCall

LEMMA WrittenType ==
    ASSUME StateType, NEW w \in Writer, Written(w)
    PROVE  /\ writers[w].data \in [Files -> 0..MaxVer]
           /\ mapFile' \in Content
           /\ \A f \in Files : mapFile'[f] = IF writers[w].data[f] # 0 THEN writers[w].data[f]
                                             ELSE writers[w].base[f]
           /\ writers' \in [Writer -> {None} \cup WriterCall]
           /\ writers'[w] = None /\ \A v \in Writer : v # w => writers'[v] = writers[v]
<1>1. writers[w] \in WriterCall
  BY DEF StateType, WriterCall, Written
<1>2. writers[w].base \in Content /\ writers[w].data \in [Files -> 0..MaxVer]
  BY <1>1 DEF WriterCall
<1>3. mapFile' = Merge(writers[w])
  BY DEF Written
<1>4. \A f \in Files : mapFile'[f] = IF writers[w].data[f] # 0 THEN writers[w].data[f]
                                    ELSE writers[w].base[f]
  BY <1>3 DEF Merge
<1>5. mapFile' \in Content
  BY <1>2, <1>3 DEF Merge, Content, Entry
<1>6. writers' \in [Writer -> {None} \cup WriterCall]
      /\ writers'[w] = None /\ \A v \in Writer : v # w => writers'[v] = writers[v]
  BY DEF Written, StateType, WriterCall
<1> QED
  BY <1>2, <1>4, <1>5, <1>6

LEMMA WriterNames == {"scan", "batch", "shutdown"} = Writer
BY DEF Writer

LEMMA ScanSteps ==
    ASSUME MemoryInv, NEW f \in Files, Scan(f)
    PROVE  MemoryInv'
<1>0. StateType /\ TaskInv /\ ShutdownInv
  BY DEF MemoryInv
<1>1. /\ mode = "running" /\ writers["scan"] = None
      /\ UNCHANGED <<disk, memoryBatchFilesLeft, chain, projectMap, mapFile, mode, contended>>
  BY DEF Scan
<1>2. \/ writers' = writers
      \/ writers' = Begun("scan", projectMap)
  BY DEF Scan, ScanGone, ScanRetires, ScanFollows
<1>3. writers' \in [Writer -> {None} \cup WriterCall] /\ writers'["batch"] = writers["batch"]
  BY <1>0, <1>2, BegunType, WriterNames DEF StateType, WriterCall
<1>4. stale' \subseteq {g \in Files : projectMap[g] # 0}
  BY <1>0 DEF Scan, ScanGone, ScanRetires, ScanFollows, StateType, Live
<1>5. TaskInv' /\ store' \in [Files -> Object \cup {None}] /\ task'.pc = task.pc
  <2>1. CASE Unmount(f, FALSE)
    BY <1>0, <2>1, UnmountStep
  <2>2. CASE UNCHANGED <<store, task>>
    BY <1>0, <2>2, TaskKept DEF StateType, Mounted
  <2>3. CASE ScanFollows(f) /\ ~UNCHANGED <<store, task>>
    <3>1. /\ disk[f] # 0 /\ Mounted(f) /\ task' = task
          /\ store' = [store EXCEPT ![f].hash = disk[f]]
      BY <2>3 DEF ScanFollows
    <3>2. store[f] \in Object /\ disk[f] \in 1..MaxVer
      BY <1>0, <3>1, MemoryAssumption DEF StateType, Mounted
    <3>3. [store[f] EXCEPT !.hash = disk[f]] \in Object
      BY <3>2 DEF Object
    <3>4. store' = [store EXCEPT ![f] = [store[f] EXCEPT !.hash = disk[f]]]
      BY <3>1
    <3>5. store' \in [Files -> Object \cup {None}] /\ store'[f] \in Object
          /\ \A g \in Files : g # f => store'[g] = store[g]
      BY <1>0, <3>3, <3>4 DEF StateType
    <3>6. \A g \in Files : Mounted(g) => Mounted(g)'
      BY <3>5, NoneIsNoObject DEF Mounted
    <3> QED
      BY <1>0, <3>1, <3>5, <3>6, TaskKept
  <2> QED
    BY <2>1, <2>2, <2>3 DEF Scan, ScanGone, ScanRetires
<1>6. ShutdownInv'
  BY <1>0, <1>1, <1>3, <1>5 DEF ShutdownInv
<1>7. StateType'
  BY <1>0, <1>1, <1>3, <1>4, <1>5 DEF StateType, WriterCall
<1> QED
  BY <1>5, <1>6, <1>7 DEF MemoryInv

LEMMA WriteSteps ==
    ASSUME MemoryInv, \/ ScanWrites \/ ShutdownWrites \/ BatchWrites
                      \/ \E f \in Files : OtherWrites(f)
    PROVE  MemoryInv'
<1>0. StateType /\ TaskInv /\ ShutdownInv
  BY DEF MemoryInv
<1>1. CASE ScanWrites
  <2>1. /\ Written("scan") /\ writers["scan"] # None
        /\ UNCHANGED <<disk, store, memoryBatchFilesLeft, chain, task, projectMap, stale, mode, contended>>
    BY <1>1 DEF ScanWrites, Written
  <2>2. /\ mapFile' \in Content /\ writers' \in [Writer -> {None} \cup WriterCall]
        /\ \A v \in Writer : v # "scan" => writers'[v] = writers[v]
    BY <1>0, <2>1, WrittenType, WriterNames
  <2>3. TaskInv'
    BY <1>0, <2>1, TaskKept DEF Mounted
  <2>4. ShutdownInv'
    BY <1>0, <2>1, <2>2, WriterNames DEF ShutdownInv
  <2>5. StateType'
    BY <1>0, <2>1, <2>2 DEF StateType, WriterCall
  <2> QED
    BY <2>3, <2>4, <2>5 DEF MemoryInv
<1>2. CASE BatchWrites
  <2>1. /\ Written("batch") /\ writers["batch"] # None /\ task.pc = "save" /\ task' = NoTask
        /\ UNCHANGED <<disk, store, memoryBatchFilesLeft, chain, projectMap, stale, mode, contended>>
    BY <1>2 DEF BatchWrites, Written
  <2>2. /\ mapFile' \in Content /\ writers' \in [Writer -> {None} \cup WriterCall]
        /\ writers'["batch"] = None
        /\ \A v \in Writer : v # "batch" => writers'[v] = writers[v]
    BY <1>0, <2>1, WrittenType, WriterNames
  <2>3. TaskInv'
    BY <2>1, NoTaskInv
  <2>4. ShutdownInv'
    BY <1>0, <2>1, <2>2, WriterNames DEF ShutdownInv
  <2>5. StateType'
    BY <1>0, <2>1, <2>2 DEF StateType, WriterCall
  <2> QED
    BY <2>3, <2>4, <2>5 DEF MemoryInv
<1>3. CASE ShutdownWrites
  <2>1. /\ Written("shutdown") /\ mode = "saving" /\ mode' = "closed"
        /\ UNCHANGED <<disk, store, memoryBatchFilesLeft, chain, task, projectMap, stale, contended>>
    BY <1>3 DEF ShutdownWrites
  <2>2. /\ mapFile' \in Content /\ writers' \in [Writer -> {None} \cup WriterCall]
        /\ \A v \in Writer : v # "shutdown" => writers'[v] = writers[v]
        /\ \A f \in Files : mapFile'[f] = IF writers["shutdown"].data[f] # 0
                                          THEN writers["shutdown"].data[f]
                                          ELSE writers["shutdown"].base[f]
    BY <1>0, <2>1, WrittenType, WriterNames
  <2>3. TaskInv'
    BY <1>0, <2>1, TaskKept DEF Mounted
  <2>4. ~contended => writers["shutdown"].data = projectMap
    BY <1>0, <2>1 DEF ShutdownInv
  <2>5. ~contended => \A f \in Files : projectMap[f] # 0 => mapFile'[f] = projectMap[f]
    BY <2>2, <2>4
  <2>6. ShutdownInv'
    BY <1>0, <2>1, <2>2, <2>5, WriterNames DEF ShutdownInv
  <2>7. StateType'
    BY <1>0, <2>1, <2>2 DEF StateType, WriterCall
  <2> QED
    BY <2>3, <2>6, <2>7 DEF MemoryInv
<1>4. ASSUME NEW f \in Files, OtherWrites(f) PROVE MemoryInv'
  <2>1. /\ mapFile' = [mapFile EXCEPT ![f] = Other]
        /\ UNCHANGED <<disk, store, memoryBatchFilesLeft, chain, task, projectMap, stale, writers,
                       mode, contended>>
    BY <1>4 DEF OtherWrites
  <2>2. /\ mapFile' \in Content
        /\ \A g \in Files : mapFile'[g] = Other \/ mapFile'[g] = mapFile[g]
    BY <1>0, <2>1 DEF StateType, Content, Entry
  <2>3. TaskInv'
    BY <1>0, <2>1, TaskKept DEF Mounted
  <2>4. ShutdownInv'
    BY <1>0, <2>1, <2>2 DEF ShutdownInv
  <2>5. StateType'
    BY <1>0, <2>1, <2>2 DEF StateType
  <2> QED
    BY <2>3, <2>4, <2>5 DEF MemoryInv
<1> QED
  BY <1>1, <1>2, <1>3, <1>4

-----------------------------------------------------------------------------
(* The steps of a batch.                                                   *)

(* The batch goes on with fewer files, or ends.                            *)
LEMMA BatchKept ==
    ASSUME MemoryInv, TaskInv', OnlyTask, chain' \in 0..MaxChain,
           \/ chain' = chain /\ task.pc \notin {"none", "save"} 
           \/ chain > 0 /\ task.pc = "none"
    PROVE  MemoryInv'
<1>1. UNCHANGED <<disk, store, memoryBatchFilesLeft, projectMap, stale, mapFile, writers, mode, contended>>
  BY DEF OnlyTask, maps
<1>2. StateType'
  BY <1>1 DEF MemoryInv, StateType
<1>3. writers["batch"] = None
  BY DEF MemoryInv, ShutdownInv
<1>4. ShutdownInv'
  BY <1>1, <1>3 DEF MemoryInv, ShutdownInv, StateType
<1> QED
  BY <1>2, <1>4 DEF MemoryInv

LEMMA StartStep ==
    ASSUME MemoryInv, TaskStart
    PROVE  MemoryInv'
<1>0. StateType /\ TaskInv /\ ShutdownInv
  BY DEF MemoryInv
<1>1. chain' \in 0..MaxChain /\ chain > 0 /\ task.pc = "none" /\ OnlyTask
  BY <1>0, MemoryAssumption DEF TaskStart, StateType
<1>2. CASE Pending = {}
  BY <1>1, <1>2, NoTaskInv, BatchKept DEF TaskStart
<1>3. CASE Pending # {}
  <2> DEFINE fs == [f \in Pending |-> [own |-> None, hash |-> 0]]
  <2>1. task' = [NoTask EXCEPT !.pc = "read", !.todo = Pending, !.files = fs]
    BY <1>3 DEF TaskStart
  <2>2. Pending \in SUBSET Files
    BY DEF Pending
  <2>3. fs \in [Pending -> Note] /\ DOMAIN fs = Pending
    BY MemoryAssumption DEF Note
  <2>4. fs \in Notes
    BY <2>2, <2>3, NotesAre
  <2> HIDE DEF fs
  <2>5. /\ task' \in Task /\ task'.pc = "read" /\ task'.todo = Pending /\ task'.files = fs
    BY <2>1, <2>2, <2>4, NoTaskType DEF Task, TaskPCs
  <2>6. UNCHANGED store
    BY <1>1 DEF OnlyTask
  <2>7. TaskInv'
    BY <2>3, <2>5, <2>6 DEF TaskInv, Pending, Mounted
  <2> QED
    BY <1>1, <2>7, BatchKept
<1> QED
  BY <1>2, <1>3

LEMMA ReadStep ==
    ASSUME MemoryInv, NEW f \in Files, TaskRead(f)
    PROVE  MemoryInv'
<1>0. StateType /\ TaskInv /\ ShutdownInv
  BY DEF MemoryInv
<1>1. /\ task.pc = "read" /\ f \in task.todo /\ f \in DOMAIN task.files
      /\ chain' = chain /\ chain \in 0..MaxChain /\ OnlyTask /\ UNCHANGED store
  BY <1>0 DEF TaskRead, TaskInv, StateType, OnlyTask
<1> DEFINE read == IF disk[f] = 0 THEN Without(f) ELSE [task.files EXCEPT ![f].hash = disk[f]]
           left == task.todo \ {f}
           pc == IF left = {} THEN "ask" ELSE "read"
<1>2. task' = NoTask \/ task' = [task EXCEPT !.todo = left, !.files = read, !.pc = pc]
  BY DEF TaskRead
<1>3. /\ read \in Notes /\ left \subseteq DOMAIN read /\ DOMAIN read \subseteq DOMAIN task.files
      /\ \A g \in DOMAIN read : read[g].own = task.files[g].own
  <2>1. CASE disk[f] = 0
    <3>1. DOMAIN task.files \ {f} \subseteq DOMAIN task.files
      OBVIOUS
    <3>2. /\ Without(f) \in Notes /\ DOMAIN Without(f) = DOMAIN task.files \ {f}
          /\ \A g \in DOMAIN task.files \ {f} : Without(f)[g] = task.files[g]
      BY <1>0, <3>1, OnlyNotes DEF Without
    <3> QED
      BY <1>0, <2>1, <3>2 DEF TaskInv
  <2>2. CASE disk[f] # 0
    <3> DEFINE n == [task.files[f] EXCEPT !.hash = disk[f]]
    <3>1. n \in Note /\ n.own = task.files[f].own
      BY <1>0, <1>1, TaskFields DEF Note, StateType
    <3>2. task.files \in [DOMAIN task.files -> Note]
      BY <1>0, TaskFields, NotesFacts
    <3>3. read = [task.files EXCEPT ![f] = n]
      BY <2>2
    <3> HIDE DEF read, n
    <3>4. read \in [DOMAIN task.files -> Note]
      BY <3>1, <3>2, <3>3
    <3>5. read \in Notes
      BY <1>0, <3>4, TaskFields, NotesAre
    <3>6. \A g \in DOMAIN read : read[g].own = task.files[g].own
      BY <1>1, <3>1, <3>2, <3>3
    <3> QED
      BY <1>0, <3>4, <3>5, <3>6 DEF TaskInv
  <2> QED
    BY <2>1, <2>2
<1>4. pc \in TaskPCs /\ left \in SUBSET Files /\ (pc # "read" => left = {}) /\ pc # "verify"
  BY <1>0, TaskFields DEF TaskPCs
<1> HIDE DEF read, left, pc
<1>5. CASE task' = [task EXCEPT !.todo = left, !.files = read, !.pc = pc]
  <2>1. task' \in Task /\ task'.todo = left /\ task'.files = read /\ task'.pc = pc
    BY <1>0, <1>3, <1>4, <1>5 DEF TaskInv, Task
  <2>2. TaskInv'
    BY <1>0, <1>1, <1>3, <1>4, <2>1 DEF TaskInv, Mounted
  <2> QED
    BY <1>1, <2>2, BatchKept
<1>6. CASE task' = NoTask
  BY <1>1, <1>6, NoTaskInv, BatchKept
<1> QED
  BY <1>2, <1>5, <1>6

LEMMA AnswerStep ==
    ASSUME MemoryInv, NEW answered \in SUBSET Files, Answer(answered)
    PROVE  MemoryInv'
<1>0. StateType /\ TaskInv /\ ShutdownInv
  BY DEF MemoryInv
<1>1. /\ task.pc = "ask" /\ answered \subseteq DOMAIN task.files /\ task.todo = {}
      /\ chain' = chain /\ chain \in 0..MaxChain /\ OnlyTask /\ UNCHANGED store
  BY <1>0 DEF Answer, TaskInv, StateType, OnlyTask
<1>2. CASE task' = NoTask
  BY <1>1, <1>2, NoTaskInv, BatchKept
<1>3. CASE task' = [task EXCEPT !.pc = "check", !.files = Only(answered)]
  <2>1. /\ Only(answered) \in Notes /\ DOMAIN Only(answered) = answered
        /\ \A f \in answered : Only(answered)[f] = task.files[f]
    BY <1>0, <1>1, OnlyNotes
  <2>2. /\ task' \in Task /\ task'.todo = {} /\ task'.files = Only(answered) /\ task'.pc = "check"
    BY <1>0, <1>1, <1>3, <2>1 DEF TaskInv, Task, TaskPCs
  <2>3. TaskInv'
    BY <1>0, <1>1, <2>1, <2>2 DEF TaskInv, Mounted
  <2> QED
    BY <1>1, <2>3, BatchKept
<1> QED
  BY <1>2, <1>3 DEF Answer

LEMMA CheckStep ==
    ASSUME MemoryInv, NEW f \in Files, TaskCheck(f)
    PROVE  MemoryInv'
<1>0. StateType /\ TaskInv /\ ShutdownInv
  BY DEF MemoryInv
<1>1. /\ task.pc = "check" /\ f \in DOMAIN task.files /\ task.todo = {}
      /\ chain' = chain /\ chain \in 0..MaxChain /\ OnlyTask /\ UNCHANGED store
  BY <1>0 DEF TaskCheck, TaskInv, StateType, OnlyTask
<1>2. CASE task' = NoTask
  BY <1>1, <1>2, NoTaskInv, BatchKept
<1>3. CASE task' = [task EXCEPT !.files = Without(f)]
  <2>0. DOMAIN task.files \ {f} \subseteq DOMAIN task.files
    OBVIOUS
  <2>1. /\ Without(f) \in Notes /\ DOMAIN Without(f) = DOMAIN task.files \ {f}
        /\ \A g \in DOMAIN task.files \ {f} : Without(f)[g] = task.files[g]
    BY <1>0, <2>0, OnlyNotes DEF Without
  <2>2. /\ task' \in Task /\ task'.todo = {} /\ task'.files = Without(f) /\ task'.pc = "check"
    BY <1>0, <1>1, <1>3, <2>1 DEF TaskInv, Task
  <2>3. TaskInv'
    BY <1>0, <1>1, <2>1, <2>2 DEF TaskInv, Mounted
  <2> QED
    BY <1>1, <2>3, BatchKept
<1>4. CASE ~Droppable(f) /\ task' = [task EXCEPT !.pc = "verify", !.at = f]
  <2>1. /\ task' \in Task /\ task'.todo = {} /\ task'.files = task.files /\ task'.pc = "verify"
        /\ task'.at = f
    BY <1>0, <1>1, <1>4 DEF TaskInv, Task, TaskPCs
  <2>2. TaskInv'
    BY <1>0, <1>1, <1>4, <2>1 DEF TaskInv, Mounted, Droppable
  <2> QED
    BY <1>1, <2>2, BatchKept
<1> QED
  BY <1>2, <1>3, <1>4 DEF TaskCheck

LEMMA VerifyStep ==
    ASSUME MemoryInv, Verify
    PROVE  MemoryInv'
<1>0. StateType /\ TaskInv /\ ShutdownInv
  BY DEF MemoryInv
<1> DEFINE f == task.at
           object == IF task.files[f].own = None THEN store[f] ELSE task.files[f].own
           ok == disk[f] = task.files[f].hash
           done == (task.done \/ ok)
<1>1. task.pc = "verify" /\ f \in DOMAIN task.files /\ f \in Files /\ task.todo = {}
  BY <1>0, TaskFields DEF Verify, TaskInv
<1>2. /\ task' = [task EXCEPT !.pc = "check", !.at = None, !.removed = FALSE, !.files = Without(f),
                              !.done = done]
      /\ IF ok THEN /\ projectMap' = [projectMap EXCEPT ![f] = disk[f]]
                    /\ stale' = stale \ {f}
                    /\ store' = [store EXCEPT ![f] = [object EXCEPT !.memoryState = "done"]]
               ELSE UNCHANGED <<projectMap, stale, store>>
      /\ UNCHANGED <<disk, memoryBatchFilesLeft, chain, mapFile, writers, mode, contended>>
  BY DEF Verify
<1>3. object \in Object
  BY <1>0, <1>1, TaskFields DEF TaskInv, Mounted, StateType, Note
<1>4. [object EXCEPT !.memoryState = "done"] \in Object
  BY <1>3 DEF Object
<1>5. disk[f] \in 0..MaxVer /\ done \in BOOLEAN
  BY <1>0, <1>1 DEF StateType
<1>6. DOMAIN task.files \ {f} \subseteq DOMAIN task.files
  OBVIOUS
<1>7. /\ Without(f) \in Notes /\ DOMAIN Without(f) = DOMAIN task.files \ {f}
      /\ \A g \in DOMAIN task.files \ {f} : Without(f)[g] = task.files[g]
  BY <1>0, <1>6, OnlyNotes DEF Without
<1> HIDE DEF object, done
<1>8. /\ store' \in [Files -> Object \cup {None}]
      /\ \A g \in Files : g # f => store'[g] = store[g]
      /\ projectMap' \in [Files -> 0..MaxVer]
      /\ stale' \subseteq {g \in Files : projectMap'[g] # 0}
  BY <1>0, <1>1, <1>2, <1>4, <1>5 DEF StateType
<1> HIDE DEF f
<1>9. /\ task' \in Task /\ task'.todo = {} /\ task'.files = Without(f) /\ task'.pc = "check"
  BY <1>0, <1>1, <1>2, <1>5, <1>7 DEF TaskInv, Task, TaskPCs
<1>10. TaskInv'
  BY <1>0, <1>1, <1>7, <1>8, <1>9, TaskFields DEF TaskInv, Mounted
<1>11. StateType'
  BY <1>0, <1>2, <1>8 DEF StateType
<1>12. ShutdownInv'
  BY <1>0, <1>1, <1>2 DEF ShutdownInv
<1> QED
  BY <1>10, <1>11, <1>12 DEF MemoryInv

LEMMA SaveStep ==
    ASSUME MemoryInv, Save
    PROVE  MemoryInv'
<1>0. StateType /\ TaskInv /\ ShutdownInv
  BY DEF MemoryInv
<1>1. /\ task.pc = "check" /\ DOMAIN task.files = {} /\ task.todo = {}
      /\ UNCHANGED <<disk, store, memoryBatchFilesLeft, chain, projectMap, stale, mapFile, mode,
                     contended>>
  BY <1>0 DEF Save, TaskInv
<1>2. CASE task' = NoTask /\ UNCHANGED writers
  <2>1. TaskInv'
    BY <1>2, NoTaskInv
  <2>2. StateType' /\ ShutdownInv'
    BY <1>0, <1>1, <1>2 DEF StateType, ShutdownInv
  <2> QED
    BY <2>1, <2>2 DEF MemoryInv
<1>3. CASE task' = [task EXCEPT !.pc = "save"] /\ writers' = Begun("batch", projectMap)
  <2>1. /\ writers' \in [Writer -> {None} \cup WriterCall]
        /\ \A v \in Writer : v # "batch" => writers'[v] = writers[v]
    BY <1>0, <1>3, BegunType, WriterNames
  <2>2. task' \in Task /\ task'.pc = "save" /\ task'.files = task.files /\ task'.todo = {}
    BY <1>0, <1>1, <1>3 DEF TaskInv, Task, TaskPCs
  <2>3. TaskInv'
    BY <1>1, <2>2 DEF TaskInv
  <2>4. StateType'
    BY <1>0, <1>1, <2>1 DEF StateType, WriterCall
  <2>5. ShutdownInv'
    BY <1>0, <1>1, <2>2 DEF ShutdownInv
  <2> QED
    BY <2>3, <2>4, <2>5 DEF MemoryInv
<1> QED
  BY <1>2, <1>3 DEF Save

-----------------------------------------------------------------------------
(* The shutdown.                                                           *)

LEMMA ShutdownSteps ==
    ASSUME MemoryInv, Shutdown \/ Flushed \/ FlushTimesOut
    PROVE  MemoryInv'
<1>0. StateType /\ TaskInv /\ ShutdownInv
  BY DEF MemoryInv
<1>1. ASSUME ShutdownSaves
      PROVE  /\ writers' \in [Writer -> {None} \cup WriterCall] /\ mode' \in {"saving", "closed"}
             /\ writers'["batch"] = writers["batch"] /\ writers'["scan"] = writers["scan"]
             /\ mode' = "saving" => writers'["shutdown"].data = projectMap
             /\ mode' = "closed" => \A f \in Files : projectMap[f] = 0
  <2>1. CASE mode' = "saving" /\ writers' = Begun("shutdown", projectMap)
    BY <1>0, <2>1, BegunType, WriterNames
  <2>2. CASE mode' = "closed" /\ UNCHANGED writers /\ \A f \in Files : projectMap[f] = 0
    BY <1>0, <2>2 DEF StateType, WriterCall
  <2> QED
    BY <1>1, <2>1, <2>2 DEF ShutdownSaves
<1>2. CASE Shutdown
  <2>1. /\ mode = "running" /\ mode' = "flushing"
        /\ UNCHANGED <<disk, store, memoryBatchFilesLeft, chain, task, projectMap, stale, mapFile,
                       writers, contended>>
    BY <1>2 DEF Shutdown, maps
  <2>2. TaskInv'
    BY <1>0, <2>1, TaskKept DEF Mounted
  <2>3. StateType' /\ ShutdownInv'
    BY <1>0, <2>1 DEF StateType, ShutdownInv
  <2> QED
    BY <2>2, <2>3 DEF MemoryInv
<1>3. CASE Flushed
  <2>1. /\ chain = 0 /\ task.pc = "none" /\ contended' = (writers["scan"] # None) /\ ShutdownSaves
        /\ UNCHANGED <<disk, store, memoryBatchFilesLeft, chain, task, projectMap, stale, mapFile>>
    BY <1>3 DEF Flushed
  <2>2. TaskInv'
    BY <1>0, <2>1, TaskKept DEF Mounted
  <2>3. StateType'
    BY <1>0, <1>1, <2>1 DEF StateType, WriterCall
  <2>4. ShutdownInv'
    BY <1>0, <1>1, <2>1 DEF ShutdownInv
  <2> QED
    BY <2>2, <2>3, <2>4 DEF MemoryInv
<1>4. CASE FlushTimesOut
  <2>1. /\ task' = [task EXCEPT !.aborted = TRUE] /\ contended' = TRUE /\ ShutdownSaves
        /\ UNCHANGED <<disk, store, memoryBatchFilesLeft, chain, projectMap, stale, mapFile>>
    BY <1>4 DEF FlushTimesOut
  <2>2. /\ task' \in Task /\ task'.pc = task.pc /\ task'.files = task.files /\ task'.todo = task.todo
        /\ task'.at = task.at /\ task'.removed = task.removed
    BY <1>0, <2>1 DEF TaskInv, Task
  <2>3. TaskInv'
    BY <1>0, <2>1, <2>2 DEF TaskInv, Mounted
  <2>4. StateType'
    BY <1>0, <1>1, <2>1 DEF StateType, WriterCall
  <2>5. ShutdownInv'
    BY <1>0, <1>1, <2>1, <2>2 DEF ShutdownInv
  <2> QED
    BY <2>3, <2>4, <2>5 DEF MemoryInv
<1> QED
  BY <1>2, <1>3, <1>4

LEMMA MemoryInit == Init => MemoryInv
<1> SUFFICES ASSUME Init PROVE MemoryInv
  OBVIOUS
<1>1. mapFile \in Content /\ projectMap \in [Files -> 0..MaxVer] /\ disk \in [Files -> 0..MaxVer]
  BY MemoryAssumption DEF Init, Content, Entry
<1>2. stale \subseteq {f \in Files : projectMap[f] # 0} /\ store \in [Files -> Object \cup {None}]
      /\ writers \in [Writer -> {None} \cup [base : Content, data : [Files -> 0..MaxVer]]]
  BY DEF Init
<1>3. memoryBatchFilesLeft \in 1..BatchFiles /\ chain \in 0..MaxChain
  BY MemoryAssumption DEF Init
<1>4. StateType
  BY <1>1, <1>2, <1>3 DEF Init, StateType
<1>5. task = NoTask
  BY DEF Init
<1>6. NoTask.pc = "none" /\ NoTask.todo = {} /\ NoTask.files = <<>>
  BY DEF NoTask
<1>7. TaskInv
  BY <1>5, <1>6, NoTaskType, EmptyNotes DEF TaskInv
<1>8. ShutdownInv
  BY DEF Init, ShutdownInv, Writer
<1> QED
  BY <1>4, <1>7, <1>8 DEF MemoryInv

LEMMA MemoryNext ==
    ASSUME MemoryInv, [Next]_vars
    PROVE  MemoryInv'
<1>1. CASE UNCHANGED vars
  <2>1. UNCHANGED <<disk, store, memoryBatchFilesLeft, chain, task, projectMap, stale, mapFile,
                    writers, mode, contended>>
    BY <1>1 DEF vars, maps
  <2>2. TaskInv'
    BY <2>1, TaskKept DEF MemoryInv, Mounted
  <2>3. StateType' /\ ShutdownInv'
    BY <2>1 DEF MemoryInv, StateType, ShutdownInv
  <2> QED
    BY <2>2, <2>3 DEF MemoryInv
<1>2. CASE TaskStep
  BY <1>2, StartStep, ReadStep, AnswerStep, CheckStep, VerifyStep, SaveStep, WriteSteps DEF TaskStep
<1>3. ASSUME NEW f \in Files, MountNew(f) \/ Increment(f) \/ Update(f) \/ Edit(f) \/ Delete(f)
      PROVE  MemoryInv'
  BY <1>3, MountSteps
<1> QED
  BY <1>1, <1>2, <1>3, SettledStep, ScanSteps, WriteSteps, ShutdownSteps DEF Next

LEMMA MemoryAlways == Spec => []MemoryInv
<1>1. MemoryInv /\ [Next]_vars => MemoryInv'
  BY MemoryNext
<1> QED
  BY <1>1, MemoryInit, PTL DEF Spec

(* After a shutdown() that found no batch and no scan at work, the file    *)
(* has every entry of this session's map, whatever was written before and  *)
(* whichever session writes in between.                                    *)
THEOREM ShutdownSavesMap == Spec => []MapSaved
<1>1. MemoryInv => MapSaved
  BY TypeFromInv DEF MemoryInv, ShutdownInv, MapSaved
<1> QED
  BY <1>1, MemoryAlways, PTL

-----------------------------------------------------------------------------
(* Action properties.                                                      *)

Revived(f) == store[f] = None /\ store'[f] # None

LEMMA RevivalStep ==
    ASSUME MemoryInv, [Next]_vars, NEW f \in Files, Revived(f)
    PROVE  store'[f].memoryState = "pending" \/ task.removed
<1>0. store \in [Files -> Object \cup {None}] /\ store[f] = None /\ store'[f] # None /\ store' # store
  BY DEF MemoryInv, StateType, Revived
<1>1. ASSUME NEW g \in Files, MountNew(g) PROVE store'[f].memoryState = "pending"
  BY <1>0, <1>1 DEF MountNew, Put
<1>2. ASSUME NEW g \in Files, Unmount(g, TRUE) \/ Unmount(g, FALSE) PROVE FALSE
  BY <1>0, <1>2 DEF Unmount
<1>3. ASSUME NEW g \in Files, Increment(g) \/ Update(g) PROVE FALSE
  BY <1>0, <1>2, <1>3 DEF Increment, Update, Put, Mounted
<1>4. ASSUME NEW g \in Files, Scan(g) PROVE FALSE
  <2>1. CASE ScanFollows(g)
    BY <1>0, <2>1 DEF ScanFollows, Mounted
  <2> QED
    BY <1>0, <1>2, <1>4, <2>1 DEF Scan, ScanGone, ScanRetires
<1>5. CASE Verify
  <2>1. task.at = f
    BY <1>0, <1>5 DEF Verify
  <2> QED
    BY <1>0, <1>5, <2>1 DEF MemoryInv, TaskInv, Mounted, Verify
<1>6. ASSUME \/ \E g \in Files : \/ Edit(g) \/ Delete(g) \/ OtherWrites(g) \/ TaskRead(g) \/ TaskCheck(g)
             \/ \E answered \in SUBSET Files : Answer(answered)
             \/ onAgentSettled \/ ScanWrites \/ TaskStart \/ Save \/ BatchWrites
             \/ Shutdown \/ Flushed \/ FlushTimesOut \/ ShutdownWrites \/ UNCHANGED vars
      PROVE  FALSE
  <2>1. UNCHANGED store
    BY <1>6 DEF Edit, Delete, OtherWrites, TaskRead, TaskCheck, Answer, onAgentSettled, ScanWrites,
       TaskStart, Save, BatchWrites, Shutdown, Flushed, FlushTimesOut, ShutdownWrites, vars, OnlyTask
  <2> QED
    BY <1>0, <2>1
<1> QED
  BY <1>1, <1>3, <1>4, <1>5, <1>6 DEF Next, TaskStep

(* A batch never mounts again a file whose mount a scan or a read has      *)
(* dropped, except when it is dropped during the batch's last await.       *)
THEOREM NothingIsRevived == Spec => NoRevival
<1>1. MemoryInv /\ [Next]_vars =>
        [\A f \in Files : store[f] = None /\ store'[f] # None =>
             store'[f].memoryState = "pending" \/ task.removed]_vars
  BY RevivalStep DEF Revived
<1> QED
  BY <1>1, MemoryAlways, PTL DEF Spec, NoRevival

ReplacedBy(w, f) ==
    /\ writers[w] # None /\ writers'[w] = None
    /\ writers[w].data[f] # 0 \/ writers[w].base[f] # Other

LEMMA OthersStep ==
    ASSUME MemoryInv, [Next]_vars, NEW f \in Files, mapFile[f] = Other, mapFile'[f] # Other
    PROVE  \E w \in Writer : ReplacedBy(w, f)
<1>1. ASSUME NEW w \in Writer, Written(w) PROVE ReplacedBy(w, f)
  <2>1. /\ mapFile'[f] = IF writers[w].data[f] # 0 THEN writers[w].data[f] ELSE writers[w].base[f]
        /\ writers'[w] = None /\ writers[w] # None
    BY <1>1, WrittenType DEF MemoryInv, Written
  <2> QED
    BY <2>1 DEF ReplacedBy
<1>2. CASE ScanWrites \/ BatchWrites \/ ShutdownWrites
  BY <1>1, <1>2, WriterNames DEF ScanWrites, BatchWrites, ShutdownWrites
<1>3. ASSUME NEW g \in Files, OtherWrites(g) PROVE FALSE
  BY <1>3 DEF OtherWrites, MemoryInv, StateType, Content
<1>4. ASSUME \/ \E g \in Files : \/ MountNew(g) \/ Increment(g) \/ Update(g) \/ Scan(g) \/ Edit(g)
                                 \/ Delete(g) \/ TaskRead(g) \/ TaskCheck(g)
             \/ \E answered \in SUBSET Files : Answer(answered)
             \/ onAgentSettled \/ TaskStart \/ Verify \/ Save
             \/ Shutdown \/ Flushed \/ FlushTimesOut \/ UNCHANGED vars
      PROVE  FALSE
  <2>1. UNCHANGED mapFile
    BY <1>4 DEF MountNew, Increment, Update, Scan, Edit, Delete, TaskRead, TaskCheck, Answer,
       onAgentSettled, TaskStart, Verify, Save, Shutdown, Flushed, FlushTimesOut, vars, OnlyTask, maps
  <2> QED
    BY <2>1
<1> QED
  BY <1>2, <1>3, <1>4 DEF Next, TaskStep

(* A write of the map file replaces another session's entry only by one of *)
(* its own, or when that session wrote between the write's reading of the  *)
(* file and its writing.                                                   *)
THEOREM OtherSessionsKept == Spec => OthersKept
<1>1. MemoryInv /\ [Next]_vars =>
        [\A f \in Files : mapFile[f] = Other /\ mapFile'[f] # Other =>
           \E w \in Writer : /\ writers[w] # None /\ writers'[w] = None
                             /\ writers[w].data[f] # 0 \/ writers[w].base[f] # Other]_vars
  BY OthersStep DEF ReplacedBy
<1> QED
  BY <1>1, MemoryAlways, PTL DEF Spec, OthersKept
=============================================================================
