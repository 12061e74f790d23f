---------------------------- MODULE MemoryBatch ----------------------------
(***************************************************************************)
(* The memory of the piwpi harness: newly mounted files are organised in   *)
(* batches by a model call, and the result goes into the project map and   *)
(* its file (harness.ts, memory/queue.ts, memory/persist.ts).  Batches run *)
(* one after the other on the promise chain of MemoryQueue, beside the     *)
(* agent; every await of a batch is a step of its own, so mounts, scans,   *)
(* edits and the shutdown come in between.                                 *)
(*                                                                         *)
(* Plugins are objects.  Reading more lines or new text of a file puts a   *)
(* new object in the store, a scan changes the one that is there, and a    *)
(* batch keeps the ones it started with.  So a batch holds for its file f  *)
(* either the object of the store, or its own when that was replaced or    *)
(* removed meanwhile.  sessionGeneration is kept as what a batch learns of *)
(* it: whether it changed since the batch began (onSessionStart(), which   *)
(* also moves it, comes before the first batch).                           *)
(* A content is a number, 0 a missing file.  MemoryQueue.enqueue() is left *)
(* out: no worker is ever set, so it drops every job.  A memory model is   *)
(* configured (memoryAutoAllowed() holds); without one nothing is batched. *)
(***************************************************************************)
EXTENDS Naturals, Sequences, FiniteSets

CONSTANTS Files,
          Big,         \* files of memoryBatchLines lines and more
          Edited,      \* bound: files that are edited and deleted
          Shared,      \* bound: files that other sessions organise too
          BatchFiles,  \* memoryBatchFiles
          MaxVer,      \* bound: contents of a file
          MaxChain,    \* bound: batches waiting on the chain
          Other, None

ASSUME MemoryAssumption ==
    /\ Big \cup Edited \cup Shared \subseteq Files
    /\ {BatchFiles, MaxVer, MaxChain} \subseteq Nat \ {0}

VARIABLES disk,       \* the files
          store,      \* the plugin objects, None for none
          memoryBatchFilesLeft,
          chain,      \* MemoryQueue.chain: batches that have not started
          task,       \* the running batch: the locals of runMemoryBatch()
          projectMap, \* ProjectMap.entries: the content an entry was made from, 0 for none
          stale,      \* the entries marked stale
          mapFile,    \* project-map.json: the same, or Other for another session's entry
          writers,    \* the calls of writeProjectMapFileMerged() that have not written
          mode,       \* "running", and the steps of shutdown()
          contended   \* history: a batch or a scan was at work when shutdown() took the map

maps   == <<projectMap, stale, mapFile, writers>>
vars   == <<disk, store, memoryBatchFilesLeft, chain, task, maps, mode, contended>>

Object  == [hash : 1..MaxVer, memoryState : {"pending", "done", "unset"}]

ASSUME NoneIsNoObject == None \notin Object

Entry   == 0..MaxVer \cup {Other}
Content == [Files -> Entry]

(* The callers of writeProjectMapFileMerged().                             *)
Writer  == {"scan", "batch", "shutdown"}

(* The locals of a batch: files maps each file it is not through with to   *)
(* what it holds of it, todo are the files not read.  removed: the mount   *)
(* it is about to commit was removed after its checks (a history).         *)
NoTask == [pc |-> "none", sameGen |-> TRUE, aborted |-> FALSE, todo |-> {}, files |-> <<>>,
           at |-> None, removed |-> FALSE, done |-> FALSE]

TypeOK ==
    /\ disk \in [Files -> 0..MaxVer]
    /\ store \in [Files -> Object \cup {None}]
    /\ memoryBatchFilesLeft \in 1..BatchFiles
    /\ chain \in 0..MaxChain
    /\ task.pc \in {"none", "read", "ask", "check", "verify", "save"}
    /\ task.todo \subseteq DOMAIN task.files
    /\ DOMAIN task.files \subseteq Files
    /\ \A f \in DOMAIN task.files : /\ task.files[f].own \in Object \cup {None}
                                    /\ task.files[f].hash \in 0..MaxVer
                                    /\ task.files[f].own = None => store[f] # None
    /\ projectMap \in [Files -> 0..MaxVer]
    /\ stale \subseteq {f \in Files : projectMap[f] # 0}
    /\ mapFile \in Content
    /\ writers \in [Writer -> {None} \cup [base : Content, data : [Files -> 0..MaxVer]]]
    /\ mode \in {"running", "flushing", "saving", "closed"}
    /\ contended \in BOOLEAN

Init ==
    /\ disk = [f \in Files |-> 1]
    /\ store = [f \in Files |-> None]
    /\ memoryBatchFilesLeft = BatchFiles
    /\ chain = 0
    /\ task = NoTask
    /\ mapFile \in [Files -> {0, 1}]
    /\ projectMap = mapFile
    /\ stale = {}
    /\ writers = [w \in Writer |-> None]
    /\ mode = "running"
    /\ contended = FALSE

----------------------------------------------------------------------------
(* Mounts, as far as the memory depends on them (module Mounts has them).  *)

Mounted(f) == store[f] # None

Pending == {f \in Files : Mounted(f) /\ store[f].memoryState = "pending"}

(* The batch keeps the object that leaves the store.                       *)
Keeping(f) ==
    IF f \in DOMAIN task.files /\ task.files[f].own = None
    THEN [task EXCEPT !.files[f].own = store[f]] ELSE task

Put(f, object) ==
    /\ store' = [store EXCEPT ![f] = object]
    /\ task' = Keeping(f)

Unmount(f, sameGen) ==
    /\ store' = [store EXCEPT ![f] = None]
    /\ task' = [Keeping(f) EXCEPT !.removed = @ \/ task.at = f,
                                  !.sameGen = @ /\ (sameGen \/ task.pc = "none")]

(* pendingStats() reaches a threshold: a new round of collecting begins,   *)
(* and a batch is put on the chain unless the session is shutting down.    *)
Reached(pending, filesLeft) ==
    Cardinality(pending) >= filesLeft \/ pending \cap Big # {}

Trigger(pending, filesLeft) ==
    IF Reached(pending, filesLeft)
    THEN /\ memoryBatchFilesLeft' = BatchFiles
         /\ chain' = IF mode = "running" THEN chain + 1 ELSE chain
    ELSE /\ memoryBatchFilesLeft' = filesLeft
         /\ UNCHANGED chain

(* A turn reads files when the scan before its request is through.         *)
Reading == writers["scan"] = None

(* The three results of a read that change the mount of f; "updated" gives *)
(* an object without memoryState, or drops the mount of a file that        *)
(* changed a lot.                                                          *)
MountNew(f) ==
    /\ Reading
    /\ ~Mounted(f)
    /\ disk[f] # 0
    /\ chain < MaxChain
    /\ Put(f, [hash |-> disk[f], memoryState |-> "pending"])
    /\ Trigger(Pending \cup {f}, memoryBatchFilesLeft)
    /\ UNCHANGED <<disk, maps, mode, contended>>

Increment(f) ==
    /\ Reading
    /\ Mounted(f)
    /\ disk[f] = store[f].hash
    /\ Put(f, store[f])
    /\ UNCHANGED <<disk, memoryBatchFilesLeft, chain, maps, mode, contended>>

Update(f) ==
    /\ Reading
    /\ Mounted(f)
    /\ disk[f] \notin {0, store[f].hash}
    /\ Put(f, [hash |-> disk[f], memoryState |-> "unset"]) \/ Unmount(f, TRUE)
    /\ UNCHANGED <<disk, memoryBatchFilesLeft, chain, maps, mode, contended>>

Edit(f) ==
    /\ f \in Edited
    /\ disk[f] \in 1..(MaxVer - 1)
    /\ disk' = [disk EXCEPT ![f] = @ + 1]
    /\ UNCHANGED <<store, memoryBatchFilesLeft, chain, task, maps, mode, contended>>

Delete(f) ==
    /\ f \in Edited
    /\ disk[f] # 0
    /\ disk' = [disk EXCEPT ![f] = 0]
    /\ UNCHANGED <<store, memoryBatchFilesLeft, chain, task, maps, mode, contended>>

(* Mutant: the threshold stays where it is.                                *)
SameThreshold(left) == left

LoweredThreshold(left) == IF left > 1 THEN left - 1 ELSE left

onAgentSettled ==
    /\ Reading
    /\ mode = "running"
    /\ chain < MaxChain
    /\ Trigger(Pending, LoweredThreshold(memoryBatchFilesLeft))
    /\ UNCHANGED <<disk, store, task, maps, mode, contended>>

----------------------------------------------------------------------------
(* The project map file.  writeProjectMapFileMerged() takes the map, reads *)
(* the file, and writes the file's entries with its own over them.         *)

(* Mutant: the file's entries are not kept.                                *)
Overwrite(w) == w.data

(* Mutant: the file's entries go over the map's.                           *)
FileFirst(w) == [f \in Files |-> IF w.base[f] # 0 THEN w.base[f] ELSE w.data[f]]

Merge(w) == [f \in Files |-> IF w.data[f] # 0 THEN w.data[f] ELSE w.base[f]]

Begun(w, data) == [writers EXCEPT ![w] = [base |-> mapFile, data |-> data]]

Written(w) ==
    /\ writers[w] # None
    /\ mapFile' = Merge(writers[w])
    /\ writers' = [writers EXCEPT ![w] = None]

(* The end of scanDiskChanges().                                           *)
ScanWrites ==
    /\ Written("scan")
    /\ UNCHANGED <<disk, store, memoryBatchFilesLeft, chain, task, projectMap, stale, mode, contended>>

(* Another session adds its own entry for f.                               *)
OtherWrites(f) ==
    /\ f \in Shared
    /\ mapFile[f] # Other
    /\ mapFile' = [mapFile EXCEPT ![f] = Other]
    /\ UNCHANGED <<disk, store, memoryBatchFilesLeft, chain, task, projectMap, stale, writers,
                   mode, contended>>

(* scanDiskChanges() on one file: the mount is dropped (the file is gone,  *)
(* or changed a lot) or follows the file, and its map entry is marked      *)
(* stale or counts the change; either makes the map dirty.  A dropped      *)
(* mount leaves the entry of a file that exists to a later scan.           *)
Live(f) == projectMap[f] # 0 /\ f \notin stale

ScanGone(f) ==
    /\ disk[f] = 0
    /\ Mounted(f) \/ Live(f)
    /\ IF Mounted(f) THEN Unmount(f, FALSE) ELSE UNCHANGED <<store, task>>
    /\ IF Live(f) THEN /\ stale' = stale \cup {f}
                       /\ writers' = Begun("scan", projectMap)
                  ELSE UNCHANGED <<stale, writers>>

ScanRetires(f) ==
    /\ disk[f] # 0
    /\ Mounted(f)
    /\ disk[f] # store[f].hash
    /\ Unmount(f, FALSE)
    /\ UNCHANGED <<stale, writers>>

ScanFollows(f) ==
    LET mount == Mounted(f) /\ disk[f] # store[f].hash
        entry == Live(f) /\ disk[f] # projectMap[f]
    IN  /\ disk[f] # 0
        /\ mount \/ entry
        /\ store' = IF mount THEN [store EXCEPT ![f].hash = disk[f]] ELSE store
        /\ IF entry THEN /\ stale' \in {stale, stale \cup {f}}
                         /\ writers' = Begun("scan", projectMap)
                    ELSE UNCHANGED <<stale, writers>>
        /\ UNCHANGED task

Scan(f) ==
    /\ mode = "running"
    /\ writers["scan"] = None
    /\ ScanGone(f) \/ ScanRetires(f) \/ ScanFollows(f)
    /\ UNCHANGED <<disk, memoryBatchFilesLeft, chain, projectMap, mapFile, mode, contended>>

----------------------------------------------------------------------------
(* A batch: runMemoryBatch() on the chain of the queue.                    *)

(* Every step of a batch but its commits and its write.                    *)
OnlyTask == UNCHANGED <<disk, store, memoryBatchFilesLeft, maps, mode, contended>>

TaskStart ==
    /\ task.pc = "none"
    /\ chain > 0
    /\ chain' = chain - 1
    /\ task' = IF Pending = {} THEN NoTask
               ELSE [NoTask EXCEPT !.pc = "read", !.todo = Pending,
                                   !.files = [f \in Pending |-> [own |-> None, hash |-> 0]]]
    /\ OnlyTask

Only(fs) == [f \in fs |-> task.files[f]]
Without(f) == Only(DOMAIN task.files \ {f})

(* The file is read, unless the batch was aborted; a missing one is left.  *)
TaskRead(f) ==
    /\ task.pc = "read"
    /\ f \in task.todo
    /\ LET read == IF disk[f] = 0 THEN Without(f) ELSE [task.files EXCEPT ![f].hash = disk[f]]
           left == task.todo \ {f}
       IN  task' = CASE task.aborted -> NoTask
                     [] ~task.aborted /\ left = {} /\ read = <<>> -> NoTask
                     [] OTHER -> [task EXCEPT !.todo = left, !.files = read,
                                              !.pc = IF left = {} THEN "ask" ELSE "read"]
    /\ UNCHANGED chain
    /\ OnlyTask

(* summarize() returns: entries for some of the files, or none when it     *)
(* fails.                                                                  *)
Answer(answered) ==
    /\ task.pc = "ask"
    /\ answered \subseteq DOMAIN task.files
    /\ task' = IF task.aborted \/ answered = {} THEN NoTask
               ELSE [task EXCEPT !.pc = "check", !.files = Only(answered)]
    /\ UNCHANGED chain
    /\ OnlyTask

(* Mutant: a batch does not look whether its file is still mounted.        *)
NeverDropped(f) == FALSE

(* The checks before the last await.                                       *)
Droppable(f) == ~task.sameGen \/ ~Mounted(f)

TaskCheck(f) ==
    /\ task.pc = "check"
    /\ f \in DOMAIN task.files
    /\ task' = CASE Droppable(f) -> [task EXCEPT !.files = Without(f)]
                  [] ~Droppable(f) /\ task.aborted -> NoTask
                  [] OTHER -> [task EXCEPT !.pc = "verify", !.at = f]
    /\ UNCHANGED chain
    /\ OnlyTask

(* The last await returns: the result is dropped when the file is not the  *)
(* one that was read, and committed otherwise.                             *)
Verify ==
    /\ task.pc = "verify"
    /\ LET f == task.at
           object == IF task.files[f].own = None THEN store[f] ELSE task.files[f].own
           ok == disk[f] = task.files[f].hash
       IN  /\ task' = [task EXCEPT !.pc = "check", !.at = None, !.removed = FALSE,
                                   !.files = Without(f), !.done = @ \/ ok]
           /\ IF ok THEN /\ projectMap' = [projectMap EXCEPT ![f] = disk[f]]
                         /\ stale' = stale \ {f}
                         /\ store' = [store EXCEPT ![f] = [object EXCEPT !.memoryState = "done"]]
                    ELSE UNCHANGED <<projectMap, stale, store>>
    /\ UNCHANGED <<disk, memoryBatchFilesLeft, chain, mapFile, writers, mode, contended>>

(* All results are looked at: the map is written if one was committed.     *)
Save ==
    /\ task.pc = "check"
    /\ DOMAIN task.files = {}
    /\ IF task.done THEN /\ task' = [task EXCEPT !.pc = "save"]
                         /\ writers' = Begun("batch", projectMap)
                    ELSE task' = NoTask /\ UNCHANGED writers
    /\ UNCHANGED <<disk, store, memoryBatchFilesLeft, chain, projectMap, stale, mapFile, mode, contended>>

BatchWrites ==
    /\ task.pc = "save"
    /\ Written("batch")
    /\ task' = NoTask
    /\ UNCHANGED <<disk, store, memoryBatchFilesLeft, chain, projectMap, stale, mode, contended>>

----------------------------------------------------------------------------
(* shutdown(): wait for the chain, at most five seconds, then write.       *)

Shutdown ==
    /\ mode = "running"
    /\ mode' = "flushing"
    /\ UNCHANGED <<disk, store, memoryBatchFilesLeft, chain, task, maps, contended>>

ShutdownSaves ==
    IF \E f \in Files : projectMap[f] # 0
    THEN mode' = "saving" /\ writers' = Begun("shutdown", projectMap)
    ELSE mode' = "closed" /\ UNCHANGED writers

Flushed ==
    /\ mode = "flushing"
    /\ chain = 0 /\ task.pc = "none"
    /\ contended' = (writers["scan"] # None)
    /\ ShutdownSaves
    /\ UNCHANGED <<disk, store, memoryBatchFilesLeft, chain, task, projectMap, stale, mapFile>>

(* flush() gives up: the running batch is aborted, those that wait on the  *)
(* chain are not.                                                          *)
FlushTimesOut ==
    /\ mode = "flushing"
    /\ task.pc # "none"
    /\ task' = [task EXCEPT !.aborted = TRUE]
    /\ contended' = TRUE
    /\ ShutdownSaves
    /\ UNCHANGED <<disk, store, memoryBatchFilesLeft, chain, projectMap, stale, mapFile>>

ShutdownWrites ==
    /\ mode = "saving"
    /\ Written("shutdown")
    /\ mode' = "closed"
    /\ UNCHANGED <<disk, store, memoryBatchFilesLeft, chain, task, projectMap, stale, contended>>

TaskStep ==
    \/ TaskStart \/ Verify \/ Save \/ BatchWrites
    \/ \E f \in Files : TaskRead(f) \/ TaskCheck(f)
    \/ \E answered \in SUBSET Files : Answer(answered)

Next ==
    \/ \E f \in Files : \/ MountNew(f) \/ Increment(f) \/ Update(f)
                        \/ Scan(f) \/ Edit(f) \/ Delete(f) \/ OtherWrites(f)
    \/ onAgentSettled \/ ScanWrites
    \/ TaskStep
    \/ Shutdown \/ Flushed \/ FlushTimesOut \/ ShutdownWrites

Spec == Init /\ [][Next]_vars

(* Batches, writes and the shutdown run on their own; turns go on ending   *)
(* while the session runs.                                                 *)
FairSpec ==
    /\ Spec
    /\ WF_vars(TaskStep) /\ WF_vars(ScanWrites)
    /\ SF_vars(onAgentSettled)
    /\ WF_vars(Flushed \/ FlushTimesOut) /\ WF_vars(ShutdownWrites)

----------------------------------------------------------------------------

(* What shutdown() leaves: when it found no batch and no scan at work, the *)
(* file has every entry this session made, whatever older writes landed    *)
(* before it and whichever session wrote in between.  And the state is     *)
(* well typed.                                                             *)
MapSaved ==
    /\ TypeOK
    /\ mode = "closed" /\ ~contended =>
           \A f \in Files : projectMap[f] # 0 => mapFile[f] \in {projectMap[f], Other}

(* A batch never brings back a mount that a scan or a read has dropped     *)
(* (the notice that it is gone is already out): only a new read mounts a   *)
(* file.  The code checks this before its last await, so a mount dropped   *)
(* during that await is excepted.                                          *)
NoRevival ==
    [][\A f \in Files : store[f] = None /\ store'[f] # None =>
           store'[f].memoryState = "pending" \/ task.removed]_vars

(* A write replaces another session's entry only by an entry of its own,   *)
(* or when the other wrote between this write's reading and its writing.   *)
OthersKept ==
    [][\A f \in Files : mapFile[f] = Other /\ mapFile'[f] # Other =>
           \E w \in Writer : /\ writers[w] # None /\ writers'[w] = None
                             /\ writers[w].data[f] # 0 \/ writers[w].base[f] # Other]_vars

(* However few files are mounted, the threshold comes down turn by turn    *)
(* until a batch takes them up.                                            *)
PendingTriggers ==
    \A f \in Files :
        f \in Pending ~> f \in DOMAIN task.files \/ f \notin Pending \/ mode # "running"

(* shutdown() ends, however long the batches take.                         *)
ShutdownEnds == mode = "flushing" ~> mode = "closed"

(* The memory never gets stuck: files are taken up and shutdown() ends.    *)
MemoryProgress == PendingTriggers /\ ShutdownEnds
=============================================================================
