----------------------------- MODULE FileCache -----------------------------
(***************************************************************************)
(* FileContentCache (core/piwpi/file-cache.ts): the only reader of mounted *)
(* files.  get() stats the file, answers from the cache when the stat and  *)
(* the TTL allow it, and otherwise reads the file and stores the content   *)
(* under the stat taken BEFORE the read.  Every await is a separate step,  *)
(* so calls interleave with each other and with writers of the file.       *)
(*                                                                         *)
(* The contents a file ever had are numbered 0, 1, 2, ...; a hash, or the  *)
(* text of a file, is that number.  A stat (mtimeNs and size together) is  *)
(* the number of the write that last changed it.  A write that restores    *)
(* the time stamp and keeps the size (SilentWrite) changes the content and *)
(* leaves the stat alone: the case the TTL exists for.                     *)
(***************************************************************************)
EXTENDS Naturals, FiniteSets

CONSTANTS Paths,      \* absolute paths
          Callers,    \* concurrent callers of get() and readLines()
          BigFiles,   \* files of more than opts.maxCachedLines lines: no text is cached
          Mountable,  \* files the harness may mount, hence pin
          Capacity,   \* opts.capacity
          TTL,        \* TTL_MS
          MaxVer,     \* bound: writes per file
          MaxClock,   \* bound: ticks of Date.now()
          NoEntry     \* Map.get() of a missing key

Entry == [stat : Nat, ver : Nat, lastVerified : Nat]

ASSUME ConstantsAssumption ==
    /\ BigFiles \subseteq Paths
    /\ Mountable \subseteq Paths
    /\ Capacity \in Nat
    /\ TTL \in Nat
    /\ MaxVer \in Nat
    /\ MaxClock \in Nat
    /\ NoEntry \notin Entry
    /\ NoEntry \notin Nat

VARIABLES disk,     \* the file system: what each path holds now
          clock,    \* Date.now()
          byPath,   \* FileContentCache.byPath
          pinned,   \* FileContentCache.pinned
          calls,    \* the locals of each call in progress, and its result
          verAt     \* history: verAt[p][t] is the content of p when clock became t

vars == <<disk, clock, byPath, pinned, calls, verAt>>

CallPC == {"idle", "stat", "check", "read", "store", "reread", "done", "failed"}

(* path, st, now, old and ver are the locals of get(); toLines tells          *)
(* readLines() from get(); start* remember the world when the call was made.  *)
Call == [pc : CallPC, path : Paths, toLines : BOOLEAN,
         st : Nat, now : Nat, old : Nat \cup {NoEntry}, ver : Nat,
         startStat : Nat, startClock : Nat]

File == [exists : BOOLEAN, stat : Nat, ver : Nat]

TypeOK ==
    /\ disk \in [Paths -> File]
    /\ clock \in 0..MaxClock
    /\ byPath \in [Paths -> Entry \cup {NoEntry}]
    /\ pinned \subseteq Paths
    /\ calls \in [Callers -> Call]
    /\ verAt \in [Paths -> [0..MaxClock -> Nat]]

(* Idle(p) is a caller between two calls.                                  *)

Idle(p) == [pc |-> "idle", path |-> p, toLines |-> FALSE,
            st |-> 0, now |-> 0, old |-> NoEntry, ver |-> 0,
            startStat |-> 0, startClock |-> 0]

Init ==
    /\ disk = [p \in Paths |-> [exists |-> TRUE, stat |-> 0, ver |-> 0]]
    /\ clock = 0
    /\ byPath = [p \in Paths |-> NoEntry]
    /\ pinned = {}
    /\ \E p0 \in Paths :
         calls = [c \in Callers |-> Idle(p0)]
    /\ verAt = [p \in Paths |-> [t \in 0..MaxClock |-> 0]]

----------------------------------------------------------------------------
(* The world outside the cache: writers of the files and the clock.        *)

Write(p) ==
    /\ disk[p].ver < MaxVer
    /\ disk' = [disk EXCEPT ![p] = [exists |-> TRUE, stat |-> @.ver + 1, ver |-> @.ver + 1]]
    /\ UNCHANGED <<clock, byPath, pinned, calls, verAt>>

SilentWrite(p) ==
    /\ disk[p].exists
    /\ disk[p].ver < MaxVer
    /\ disk' = [disk EXCEPT ![p].ver = @ + 1]
    /\ UNCHANGED <<clock, byPath, pinned, calls, verAt>>

Delete(p) ==
    /\ disk[p].exists
    /\ disk' = [disk EXCEPT ![p].exists = FALSE]
    /\ UNCHANGED <<clock, byPath, pinned, calls, verAt>>

Tick ==
    /\ clock < MaxClock
    /\ clock' = clock + 1
    /\ verAt' = [p \in Paths |-> [verAt[p] EXCEPT ![clock + 1] = disk[p].ver]]
    /\ UNCHANGED <<disk, byPath, pinned, calls>>

----------------------------------------------------------------------------
(* pin() and unpin(): mounted files are not evicted.                       *)

Pin(p) ==
    /\ p \in Mountable \ pinned
    /\ pinned' = pinned \cup {p}
    /\ UNCHANGED <<disk, clock, byPath, calls, verAt>>

Unpin(p) ==
    /\ p \in pinned
    /\ pinned' = pinned \ {p}
    /\ UNCHANGED <<disk, clock, byPath, calls, verAt>>

----------------------------------------------------------------------------
(* evict(): at most one entry goes, the unpinned one verified longest ago. *)

Held(m) == {p \in Paths : m[p] # NoEntry}

(* Mutant: mounted files are evicted like any other.                        *)
EvictablePinnedToo(m) ==
    {p \in Held(m) : \A q \in Held(m) : m[p].lastVerified <= m[q].lastVerified}

Evictable(m) ==
    {p \in Held(m) \ pinned :
        \A q \in Held(m) \ pinned : m[p].lastVerified <= m[q].lastVerified}

(* Two entries verified in the same millisecond leave in insertion order;  *)
(* the model lets either go.                                               *)
evict(m) ==
    IF Cardinality(Held(m)) <= Capacity \/ Evictable(m) = {}
    THEN {m}
    ELSE {[m EXCEPT ![p] = NoEntry] : p \in Evictable(m)}

----------------------------------------------------------------------------
(* get() and readLines().  Answer and Missing are the two ends of get(),   *)
(* where its locals die: readLines() goes on to read the file itself when  *)
(* there is no entry or the entry holds no lines.                          *)

Answer(r, v) ==
    LET text == r.toLines /\ r.path \in BigFiles
    IN  [r EXCEPT !.pc = IF text THEN "reread" ELSE "done",
                  !.ver = v, !.st = 0, !.now = 0, !.toLines = text]

Missing(r) ==
    IF r.toLines THEN [r EXCEPT !.pc = "reread", !.ver = 0, !.st = 0, !.now = 0, !.old = NoEntry]
                 ELSE [Idle(r.path) EXCEPT !.pc = "failed"]

Get(c, p, toLines) ==
    /\ calls[c].pc \in {"idle", "done", "failed"}
    /\ calls' = [calls EXCEPT ![c] =
                   [Idle(p) EXCEPT !.pc = "stat", !.toLines = toLines,
                                   !.startStat = disk[p].stat, !.startClock = clock]]
    /\ UNCHANGED <<disk, clock, byPath, pinned, verAt>>

(* The file system answers stat(); the continuation runs later.            *)
StatDone(c) ==
    /\ calls[c].pc = "stat"
    /\ disk[calls[c].path].exists
    /\ calls' = [calls EXCEPT ![c].pc = "check", ![c].st = disk[calls[c].path].stat]
    /\ UNCHANGED <<disk, clock, byPath, pinned, verAt>>

(* stat() or readFile() fails: the file is gone, or any other I/O error.   *)
IoError(c) ==
    /\ calls[c].pc \in {"stat", "read"}
    /\ byPath' = [byPath EXCEPT ![calls[c].path] = NoEntry]
    /\ calls' = [calls EXCEPT ![c] = Missing(@)]
    /\ UNCHANGED <<disk, clock, pinned, verAt>>

(* Mutants: trusting the TTL alone, or the stat alone.                     *)
ValidByAge(e, st) == e # NoEntry /\ clock - e.lastVerified < TTL

ValidByStat(e, st) == e # NoEntry /\ e.stat = st

Valid(e, st) ==
    /\ e # NoEntry
    /\ e.stat = st
    /\ clock - e.lastVerified < TTL

Hit(c) ==
    LET r == calls[c]
        e == byPath[r.path]
    IN  /\ r.pc = "check"
        /\ Valid(e, r.st)
        /\ calls' = [calls EXCEPT ![c] = Answer(@, e.ver)]
        /\ UNCHANGED <<disk, clock, byPath, pinned, verAt>>

Miss(c) ==
    LET r == calls[c]
        e == byPath[r.path]
    IN  /\ r.pc = "check"
        /\ ~ Valid(e, r.st)
        /\ calls' = [calls EXCEPT ![c].pc = "read", ![c].now = clock,
                                  ![c].old = IF e = NoEntry THEN NoEntry ELSE e.ver]
        /\ UNCHANGED <<disk, clock, byPath, pinned, verAt>>

(* The file system answers readFile(); the continuation runs later.        *)
ReadDone(c) ==
    LET f == disk[calls[c].path]
    IN  /\ calls[c].pc = "read"
        /\ f.exists
        /\ calls' = [calls EXCEPT ![c].pc = "store", ![c].ver = f.ver]
        /\ UNCHANGED <<disk, clock, byPath, pinned, verAt>>

(* Mutants: labelling the content with a stat taken after the read, or     *)
(* without the time of its verification.                                   *)
NewEntryStatAfterRead(r) ==
    [stat |-> disk[r.path].stat, ver |-> r.ver, lastVerified |-> r.now]

NewEntryUnstamped(r) == [stat |-> r.st, ver |-> r.ver]

NewEntry(r) ==
    [stat |-> r.st, ver |-> r.ver, lastVerified |-> r.now]

(* Mutant: the replaced entry is looked up when the new one is stored.     *)
StoreLateOld(c) ==
    LET r == calls[c]
        e == byPath[r.path]
    IN  /\ r.pc = "store"
        /\ byPath' \in evict([byPath EXCEPT ![r.path] = NewEntry(r)])
        /\ calls' = [calls EXCEPT ![c] = Answer([@ EXCEPT !.old = IF e = NoEntry THEN NoEntry
                                                                  ELSE e.ver], r.ver)]
        /\ UNCHANGED <<disk, clock, pinned, verAt>>

Store(c) ==
    LET r == calls[c]
    IN  /\ r.pc = "store"
        /\ byPath' \in evict([byPath EXCEPT ![r.path] = NewEntry(r)])
        /\ calls' = [calls EXCEPT ![c] = Answer(@, r.ver)]
        /\ UNCHANGED <<disk, clock, pinned, verAt>>

(* readLines() of a file whose text is not cached: read it and keep nothing. *)
Reread(c) ==
    LET f == disk[calls[c].path]
    IN  /\ calls[c].pc = "reread"
        /\ f.exists
        /\ calls' = [calls EXCEPT ![c].pc = "done", ![c].ver = f.ver, ![c].toLines = FALSE]
        /\ UNCHANGED <<disk, clock, byPath, pinned, verAt>>

RereadError(c) ==
    /\ calls[c].pc = "reread"
    /\ calls' = [calls EXCEPT ![c] = [Idle(@.path) EXCEPT !.pc = "failed"]]
    /\ UNCHANGED <<disk, clock, byPath, pinned, verAt>>

Next ==
    \/ Tick
    \/ \E p \in Paths : \/ Write(p)
                        \/ SilentWrite(p)
                        \/ Delete(p)
                        \/ Pin(p)
                        \/ Unpin(p)
    \/ \E c \in Callers : \/ \E p \in Paths, l \in BOOLEAN : Get(c, p, l)
                          \/ StatDone(c)
                          \/ IoError(c)
                          \/ Hit(c)
                          \/ Miss(c)
                          \/ ReadDone(c)
                          \/ Store(c)
                          \/ Reread(c)
                          \/ RereadError(c)

Spec == Init /\ [][Next]_vars

----------------------------------------------------------------------------
(* What the cache promises.                                                *)

(* "Never poisoned" (file-cache.ts, the pre-read stat invariant): an entry *)
(* that the next stat would accept never holds content older than the last *)
(* write that changed the file's stat.                                     *)
NeverPoisoned ==
    \A p \in Paths :
        LET e == byPath[p]
        IN  (e # NoEntry /\ e.stat = disk[p].stat) => e.ver >= disk[p].stat

(* A caller that asked after a write was visible to stat() gets the content *)
(* of that write or of a later one, whatever ran between its awaits.        *)
FreshSinceCall ==
    \A c \in Callers :
        calls[c].pc = "done" => calls[c].ver >= calls[c].startStat

(* The TTL safety valve: even when writes keep the stat, what a call returns *)
(* is at least as new as what the disk held TTL before the call was made.    *)
StaleAtMostTTL ==
    \A c \in Callers :
        calls[c].pc = "done" =>
            \A t \in 0..calls[c].startClock :
                t + TTL <= calls[c].startClock => calls[c].ver >= verAt[calls[c].path][t]

(* The diff a caller computes from the replaced entry runs forward: the      *)
(* entry get() reports as `old' is never newer than the one it returns.      *)
DiffRunsForward ==
    \A c \in Callers :
        (calls[c].pc = "done" /\ calls[c].old # NoEntry) => calls[c].old <= calls[c].ver

(* Mounted files stay resident: a pinned entry leaves the cache only when a  *)
(* stat or a read of that very file failed.                                  *)
PinnedStays ==
    [][\A p \in pinned :
          (byPath[p] # NoEntry /\ byPath'[p] = NoEntry) =>
              \E c \in Callers : /\ calls[c].path = p
                                 /\ calls[c].pc \in {"stat", "read"}
                                 /\ calls'[c].pc \in {"failed", "reread"}]_vars
=============================================================================
