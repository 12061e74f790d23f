-------------------------- MODULE FileCacheProofs --------------------------
(***************************************************************************)
(* Proofs about FileCache for any number of files, callers, versions and   *)
(* ticks, any capacity and any TTL.  The safety properties speak of        *)
(* finished calls and of the cache; they are inductive only together with  *)
(* what each call in progress already knows about the disk (CallInv) and   *)
(* with the label of every entry being honest (EntryInv).                  *)
(***************************************************************************)
EXTENDS FileCache, TLAPS

(* A stat is never newer than the content, nor is any remembered content.  *)
DiskInv ==
    \A p \in Paths :
        /\ disk[p].stat <= disk[p].ver
        /\ \A t \in 0..clock : verAt[p][t] <= disk[p].ver

(* An entry's content is at least as new as its stat label and as whatever *)
(* the disk held up to the moment of its verification.                     *)
EntryInv ==
    \A p \in Paths :
        byPath[p] # NoEntry =>
            /\ byPath[p].stat <= byPath[p].ver
            /\ byPath[p].ver <= disk[p].ver
            /\ byPath[p].lastVerified <= clock
            /\ \A t \in 0..byPath[p].lastVerified : verAt[p][t] <= byPath[p].ver

Started == {"stat", "check", "read", "store", "reread", "done"}

(* What the locals of a call guarantee at each of its awaits.              *)
CallOK(c) ==
    LET r == calls[c]
        d == disk[calls[c].path]
    IN  /\ r.pc \in Started => r.startStat <= d.stat /\ r.startClock <= clock
        /\ r.pc \in {"stat", "check"} => r.old = NoEntry
        /\ r.pc \in {"check", "read", "store"} => r.startStat <= r.st /\ r.st <= d.stat
        /\ r.pc \in {"read", "store"} => r.startClock <= r.now /\ r.now <= clock
        /\ (r.pc \in {"read", "reread"} /\ r.old # NoEntry) => r.old <= d.ver
        /\ r.pc = "store" =>
             /\ r.st <= r.ver
             /\ r.ver <= d.ver
             /\ \A t \in 0..r.now : verAt[r.path][t] <= r.ver
             /\ r.old # NoEntry => r.old <= r.ver
        /\ r.pc = "done" =>
             /\ r.ver >= r.startStat
             /\ \A t \in 0..r.startClock :
                   t + TTL <= r.startClock => r.ver >= verAt[r.path][t]
             /\ r.old # NoEntry => r.old <= r.ver

CallInv == \A c \in Callers : CallOK(c)

Inv == TypeOK /\ DiskInv /\ EntryInv /\ CallInv

----------------------------------------------------------------------------
(* evict() only ever removes entries.                                      *)
LEMMA EvictRemoves ==
    ASSUME NEW m \in [Paths -> Entry \cup {NoEntry}], NEW n \in evict(m)
    PROVE  /\ n \in [Paths -> Entry \cup {NoEntry}]
           /\ \A p \in Paths : n[p] = m[p] \/ n[p] = NoEntry
           /\ \A p \in pinned \cap Paths : n[p] = m[p]
<1>1. CASE n = m
  BY <1>1
<1>2. CASE \E p \in Evictable(m) : n = [m EXCEPT ![p] = NoEntry]
  BY <1>2 DEF Evictable, Held
<1> QED
  BY <1>1, <1>2 DEF evict

(* The four ways a call record changes keep its type.                      *)
LEMMA CallTypes ==
    ASSUME NEW r \in Call, NEW v \in Nat
    PROVE  /\ Answer(r, v) \in Call
           /\ Missing(r) \in Call
           /\ \A p \in Paths : Idle(p) \in Call
  BY ConstantsAssumption DEF Answer, Missing, Idle, Call, CallPC

(* The type invariant holds initially and is kept by every step.           *)
LEMMA TypeInit == Init => TypeOK
<1> SUFFICES ASSUME Init PROVE TypeOK
  OBVIOUS
<1>1. \A p \in Paths : Idle(p) \in Call
  BY DEF Idle, Call, CallPC
<1>2. PICK p0 \in Paths : calls = [c \in Callers |-> Idle(p0)]
  BY DEF Init
<1>3. calls \in [Callers -> Call]
  BY <1>1, <1>2
<1> QED
  BY <1>3, ConstantsAssumption DEF Init, TypeOK, File

LEMMA TypeStep == TypeOK /\ [Next]_vars => TypeOK'
<1> SUFFICES ASSUME TypeOK, [Next]_vars PROVE TypeOK'
  OBVIOUS
<1> USE ConstantsAssumption
<1>0. CASE UNCHANGED vars
  BY <1>0 DEF vars, TypeOK
<1>1. CASE Tick
  BY <1>1 DEF Tick, TypeOK, File
<1>2. ASSUME NEW p \in Paths, Write(p) \/ SilentWrite(p) \/ Delete(p) PROVE TypeOK'
  <2>1. disk[p] \in File
    BY DEF TypeOK
  <2>2. \E f \in File : disk' = [disk EXCEPT ![p] = f]
    <3>1. CASE Write(p)
      <4> DEFINE f == [exists |-> TRUE, stat |-> disk[p].ver + 1, ver |-> disk[p].ver + 1]
      <4>1. f \in File
        BY <2>1 DEF File
      <4> QED
        BY <3>1, <4>1 DEF Write
    <3>2. CASE SilentWrite(p)
      <4> DEFINE f == [disk[p] EXCEPT !.ver = disk[p].ver + 1]
      <4>1. f \in File
        BY <2>1 DEF File
      <4>2. disk' = [disk EXCEPT ![p] = f]
        BY <3>2 DEF SilentWrite
      <4> QED
        BY <4>1, <4>2
    <3>3. CASE Delete(p)
      BY <3>3, <2>1 DEF Delete, File
    <3> QED
      BY <1>2, <3>1, <3>2, <3>3
  <2>3. UNCHANGED <<clock, byPath, pinned, calls, verAt>>
    BY <1>2 DEF Write, SilentWrite, Delete
  <2> QED
    BY <2>2, <2>3 DEF TypeOK
<1>3. ASSUME NEW p \in Paths, Pin(p) \/ Unpin(p) PROVE TypeOK'
  BY <1>3 DEF Pin, Unpin, TypeOK
<1>4. ASSUME NEW c \in Callers PROVE calls[c] \in Call /\ calls[c].path \in Paths
             /\ calls[c].ver \in Nat /\ disk[calls[c].path] \in File
             /\ byPath[calls[c].path] \in Entry \cup {NoEntry}
  BY DEF TypeOK, Call
<1>5. ASSUME NEW c \in Callers, NEW p \in Paths, NEW l \in BOOLEAN, Get(c, p, l) PROVE TypeOK'
  <2> DEFINE r == [Idle(p) EXCEPT !.pc = "stat", !.toLines = l,
                                  !.startStat = disk[p].stat, !.startClock = clock]
  <2>1. r \in Call
    <3>1. disk[p].stat \in Nat /\ clock \in Nat
      BY DEF TypeOK, File
    <3> QED
      BY <3>1 DEF Idle, Call, CallPC
  <2>2. /\ calls' = [calls EXCEPT ![c] = r]
        /\ UNCHANGED <<disk, clock, byPath, pinned, verAt>>
    BY <1>5 DEF Get
  <2> HIDE DEF r
  <2> QED
    BY <2>1, <2>2 DEF TypeOK
<1>6. ASSUME NEW c \in Callers, StatDone(c) PROVE TypeOK'
  <2> DEFINE r == [calls[c] EXCEPT !.pc = "check", !.st = disk[calls[c].path].stat]
  <2>1. r \in Call
    <3>1. disk[calls[c].path].stat \in Nat
      BY <1>4 DEF File
    <3> QED
      BY <3>1, <1>4 DEF Call, CallPC
  <2>2. calls' = [calls EXCEPT ![c] = r] /\ UNCHANGED <<disk, clock, byPath, pinned, verAt>>
    BY <1>6, <1>4 DEF StatDone, TypeOK, Call
  <2> HIDE DEF r
  <2> QED
    BY <2>1, <2>2 DEF TypeOK
<1>7. ASSUME NEW c \in Callers, IoError(c) PROVE TypeOK'
  <2>1. Missing(calls[c]) \in Call
    BY <1>4, CallTypes
  <2>2. /\ calls' = [calls EXCEPT ![c] = Missing(calls[c])]
        /\ byPath' = [byPath EXCEPT ![calls[c].path] = NoEntry]
        /\ UNCHANGED <<disk, clock, pinned, verAt>>
    BY <1>7 DEF IoError
  <2> QED
    BY <2>1, <2>2, <1>4 DEF TypeOK
<1>8. ASSUME NEW c \in Callers, Hit(c) PROVE TypeOK'
  <2>1. byPath[calls[c].path].ver \in Nat
    BY <1>8, <1>4 DEF Hit, Valid, Entry
  <2> QED
    BY <1>8, <1>4, <2>1, CallTypes DEF Hit, TypeOK
<1>9. ASSUME NEW c \in Callers, Miss(c) PROVE TypeOK'
  <2> DEFINE o == IF byPath[calls[c].path] = NoEntry THEN NoEntry ELSE byPath[calls[c].path].ver
             r == [calls[c] EXCEPT !.pc = "read", !.now = clock, !.old = o]
  <2>1. o \in Nat \cup {NoEntry}
    BY <1>4 DEF Entry
  <2>2. clock \in Nat
    BY DEF TypeOK
  <2>3. r \in Call
    <3> HIDE DEF o
    <3> QED
      BY <1>4, <2>1, <2>2 DEF Call, CallPC
  <2>4. calls' = [calls EXCEPT ![c] = r] /\ UNCHANGED <<disk, clock, byPath, pinned, verAt>>
    BY <1>9, <1>4 DEF Miss, TypeOK, Call
  <2> HIDE DEF r
  <2> QED
    BY <2>3, <2>4 DEF TypeOK
<1>10. ASSUME NEW c \in Callers, ReadDone(c) PROVE TypeOK'
  <2> DEFINE r == [calls[c] EXCEPT !.pc = "store", !.ver = disk[calls[c].path].ver]
  <2>1. r \in Call
    <3>1. disk[calls[c].path].ver \in Nat
      BY <1>4 DEF File
    <3> QED
      BY <3>1, <1>4 DEF Call, CallPC
  <2>2. calls' = [calls EXCEPT ![c] = r] /\ UNCHANGED <<disk, clock, byPath, pinned, verAt>>
    BY <1>10, <1>4 DEF ReadDone, TypeOK, Call
  <2> HIDE DEF r
  <2> QED
    BY <2>1, <2>2 DEF TypeOK
<1>11. ASSUME NEW c \in Callers, Store(c) PROVE TypeOK'
  <2>1. [byPath EXCEPT ![calls[c].path] = NewEntry(calls[c])] \in [Paths -> Entry \cup {NoEntry}]
    BY <1>4 DEF NewEntry, Entry, Call, TypeOK
  <2>2. byPath' \in [Paths -> Entry \cup {NoEntry}]
    BY <1>11, <2>1, EvictRemoves DEF Store
  <2> QED
    BY <1>11, <1>4, <2>2, CallTypes DEF Store, TypeOK
<1>12. ASSUME NEW c \in Callers, Reread(c) PROVE TypeOK'
  <2> DEFINE r == [calls[c] EXCEPT !.pc = "done", !.ver = disk[calls[c].path].ver, !.toLines = FALSE]
  <2>1. r \in Call
    <3>1. disk[calls[c].path].ver \in Nat
      BY <1>4 DEF File
    <3> QED
      BY <3>1, <1>4 DEF Call, CallPC
  <2>2. calls' = [calls EXCEPT ![c] = r] /\ UNCHANGED <<disk, clock, byPath, pinned, verAt>>
    BY <1>12, <1>4 DEF Reread, TypeOK, Call
  <2> HIDE DEF r
  <2> QED
    BY <2>1, <2>2 DEF TypeOK
<1>13. ASSUME NEW c \in Callers, RereadError(c) PROVE TypeOK'
  <2>1. [Idle(calls[c].path) EXCEPT !.pc = "failed"] \in Call
    BY <1>4 DEF Idle, Call, CallPC
  <2> QED
    BY <1>13, <2>1 DEF RereadError, TypeOK
<1> QED
  BY <1>0, <1>1, <1>2, <1>3, <1>5, <1>6, <1>7, <1>8, <1>9, <1>10, <1>11, <1>12, <1>13
  DEF Next

(* Every state the cache, its callers and the file system reach is well    *)
(* typed.                                                                  *)
THEOREM TypeCorrect == Spec => []TypeOK
  BY TypeInit, TypeStep, PTL DEF Spec

----------------------------------------------------------------------------
(* What TypeOK says of one caller and one entry, spelled out for SMT.      *)
LEMMA CallFields ==
    ASSUME TypeOK, NEW c \in Callers
    PROVE  /\ calls[c] \in Call
           /\ calls[c].path \in Paths
           /\ calls[c].st \in Nat /\ calls[c].now \in Nat /\ calls[c].ver \in Nat
           /\ calls[c].startStat \in Nat /\ calls[c].startClock \in Nat
           /\ calls[c].old \in Nat \cup {NoEntry}
           /\ calls[c].toLines \in BOOLEAN
  BY DEF TypeOK, Call

LEMMA DiskFields ==
    ASSUME TypeOK, NEW p \in Paths
    PROVE  /\ disk[p].stat \in Nat /\ disk[p].ver \in Nat
           /\ clock \in Nat
           /\ \A t \in 0..MaxClock : verAt[p][t] \in Nat
           /\ byPath[p] # NoEntry =>
                 /\ byPath[p].stat \in Nat
                 /\ byPath[p].ver \in Nat
                 /\ byPath[p].lastVerified \in Nat
<1>1. disk[p] \in File /\ byPath[p] \in Entry \cup {NoEntry}
  BY DEF TypeOK
<1>2. verAt[p] \in [0..MaxClock -> Nat] /\ clock \in 0..MaxClock
  BY DEF TypeOK
<1>3. byPath[p] # NoEntry => /\ byPath[p].stat \in Nat
                             /\ byPath[p].ver \in Nat
                             /\ byPath[p].lastVerified \in Nat
  BY <1>1 DEF Entry
<1>4. disk[p].stat \in Nat /\ disk[p].ver \in Nat
  BY <1>1 DEF File
<1> QED
  BY <1>2, <1>3, <1>4, ConstantsAssumption

(* Writers only move a file forward, so what entries and calls know about  *)
(* it stays true.                                                          *)
LEMMA WriterStep ==
    ASSUME Inv, TypeOK', NEW p \in Paths, Write(p) \/ SilentWrite(p) \/ Delete(p)
    PROVE  DiskInv' /\ EntryInv' /\ CallInv'
<1>1. UNCHANGED <<clock, byPath, pinned, calls, verAt>>
  BY DEF Write, SilentWrite, Delete
<1>2. \A q \in Paths : /\ disk[q].stat <= disk'[q].stat
                       /\ disk[q].ver <= disk'[q].ver
                       /\ disk'[q].stat <= disk'[q].ver
  <2> SUFFICES ASSUME NEW q \in Paths
               PROVE  /\ disk[q].stat <= disk'[q].stat
                      /\ disk[q].ver <= disk'[q].ver
                      /\ disk'[q].stat <= disk'[q].ver
    OBVIOUS
  <2>1. disk[q].stat \in Nat /\ disk[q].ver \in Nat /\ disk[q].stat <= disk[q].ver
    BY DiskFields DEF Inv, DiskInv
  <2>2. disk \in [Paths -> File]
    BY DEF Inv, TypeOK
  <2>3. CASE Write(p)
    BY <2>1, <2>2, <2>3 DEF Write, File
  <2>4. CASE SilentWrite(p)
    BY <2>1, <2>2, <2>4 DEF SilentWrite, File
  <2>5. CASE Delete(p)
    BY <2>1, <2>2, <2>5 DEF Delete, File
  <2> QED
    BY <2>3, <2>4, <2>5
<1>3. TypeOK
  BY DEF Inv
<1>4. \A q \in Paths : disk'[q].stat \in Nat /\ disk'[q].ver \in Nat
  BY DEF TypeOK, File
<1>5. DiskInv'
  <2> SUFFICES ASSUME NEW q \in Paths, NEW t \in 0..clock
               PROVE  verAt[q][t] <= disk'[q].ver
    BY <1>1, <1>2 DEF DiskInv
  <2>1. verAt[q][t] <= disk[q].ver
    BY DEF Inv, DiskInv
  <2>2. verAt[q][t] \in Nat /\ disk[q].ver \in Nat
    <3>1. t \in 0..MaxClock
      BY <1>3, ConstantsAssumption DEF TypeOK
    <3> QED
      BY <3>1, <1>3, DiskFields
  <2> QED
    BY <2>1, <2>2, <1>2, <1>4
<1>6. EntryInv'
  <2> SUFFICES ASSUME NEW q \in Paths, byPath[q] # NoEntry
               PROVE  byPath[q].ver <= disk'[q].ver
    BY <1>1 DEF EntryInv, Inv
  <2>1. byPath[q].ver <= disk[q].ver
    BY DEF Inv, EntryInv
  <2> QED
    BY <2>1, <1>2, <1>3, <1>4, DiskFields
<1>7. CallInv'
  <2> SUFFICES ASSUME NEW c \in Callers PROVE CallOK(c)'
    BY DEF CallInv
  <2>1. CallOK(c)
    BY DEF Inv, CallInv
  <2>2. calls' = calls /\ verAt' = verAt /\ clock' = clock
    BY <1>1
  <2> QED
    BY <2>1, <2>2, <1>2, <1>3, <1>4, CallFields, DiskFields DEF CallOK
<1> QED
  BY <1>5, <1>6, <1>7

(* A tick records the present contents and leaves the past alone.          *)
LEMMA TickStep ==
    ASSUME Inv, Tick
    PROVE  DiskInv' /\ EntryInv' /\ CallInv'
<1>1. TypeOK
  BY DEF Inv
<1>2. /\ clock' = clock + 1
      /\ UNCHANGED <<disk, byPath, pinned, calls>>
      /\ \A q \in Paths : /\ \A t \in 0..clock : verAt'[q][t] = verAt[q][t]
                          /\ verAt'[q][clock + 1] = disk[q].ver
  BY <1>1, ConstantsAssumption DEF Tick, TypeOK
<1>3. DiskInv'
  <2> SUFFICES ASSUME NEW q \in Paths, NEW t \in 0..(clock + 1)
               PROVE  verAt'[q][t] <= disk[q].ver
    BY <1>2 DEF DiskInv, Inv
  <2>1. CASE t = clock + 1
    BY <2>1, <1>1, <1>2, DiskFields
  <2>2. CASE t \in 0..clock
    BY <2>2, <1>2 DEF Inv, DiskInv
  <2> QED
    BY <2>1, <2>2, <1>1, DiskFields
<1>4. EntryInv'
  <2> SUFFICES ASSUME NEW q \in Paths, byPath[q] # NoEntry
               PROVE  /\ byPath[q].lastVerified <= clock + 1
                      /\ \A t \in 0..byPath[q].lastVerified : verAt'[q][t] <= byPath[q].ver
    BY <1>2 DEF EntryInv, Inv
  <2>1. /\ byPath[q].lastVerified <= clock
        /\ \A t \in 0..byPath[q].lastVerified : verAt[q][t] <= byPath[q].ver
    BY DEF Inv, EntryInv
  <2>2. byPath[q].lastVerified \in Nat /\ clock \in Nat
    BY <1>1, DiskFields
  <2> QED
    BY <2>1, <2>2, <1>2
<1>5. CallInv'
  <2> SUFFICES ASSUME NEW c \in Callers PROVE CallOK(c)'
    BY DEF CallInv
  <2>1. CallOK(c) /\ calls' = calls /\ disk' = disk /\ clock' = clock + 1 /\ clock \in Nat
    BY <1>1, <1>2 DEF Inv, CallInv, TypeOK
  <2>2. \A t \in 0..clock : verAt'[calls[c].path][t] = verAt[calls[c].path][t]
    BY <1>1, <1>2, CallFields
  <2> QED
    BY <2>1, <2>2, <1>1, CallFields DEF CallOK, Started
<1> QED
  BY <1>3, <1>4, <1>5

(* A step of one caller that leaves the disk, the clock and the history    *)
(* alone disturbs no other caller.                                         *)
LEMMA OneCaller ==
    ASSUME Inv, NEW c \in Callers, NEW r, calls' = [calls EXCEPT ![c] = r],
           UNCHANGED <<disk, clock, verAt>>, CallOK(c)'
    PROVE  DiskInv' /\ CallInv'
<1>1. DiskInv'
  BY DEF Inv, DiskInv
<1>2. ASSUME NEW d \in Callers, d # c PROVE CallOK(d)'
  <2>1. calls'[d] = calls[d] /\ CallOK(d)
    BY <1>2 DEF Inv, TypeOK, CallInv
  <2> QED
    BY <2>1 DEF CallOK
<1> QED
  BY <1>1, <1>2 DEF CallInv

LEMMA GetStep ==
    ASSUME Inv, NEW c \in Callers, NEW p \in Paths, NEW l \in BOOLEAN, Get(c, p, l)
    PROVE  DiskInv' /\ EntryInv' /\ CallInv'
<1> DEFINE r == [Idle(p) EXCEPT !.pc = "stat", !.toLines = l,
                                !.startStat = disk[p].stat, !.startClock = clock]
<1>1. calls' = [calls EXCEPT ![c] = r] /\ UNCHANGED <<disk, clock, byPath, pinned, verAt>>
  BY DEF Get
<1>2. calls'[c] = r
  BY <1>1 DEF Inv, TypeOK
<1>3. /\ r.pc = "stat" /\ r.path = p /\ r.old = NoEntry
      /\ r.startStat = disk[p].stat /\ r.startClock = clock
  BY DEF Idle
<1>4. disk[p].stat \in Nat /\ clock \in Nat
  BY DiskFields DEF Inv
<1> HIDE DEF r
<1>5. CallOK(c)'
  BY <1>1, <1>2, <1>3, <1>4 DEF CallOK, Started
<1>6. EntryInv'
  BY <1>1 DEF Inv, EntryInv
<1> QED
  BY <1>1, <1>5, <1>6, OneCaller

LEMMA StatDoneStep ==
    ASSUME Inv, NEW c \in Callers, StatDone(c)
    PROVE  DiskInv' /\ EntryInv' /\ CallInv'
<1> DEFINE r == [calls[c] EXCEPT !.pc = "check", !.st = disk[calls[c].path].stat]
<1>0. TypeOK /\ CallOK(c) /\ calls[c] \in Call /\ calls[c].path \in Paths /\ calls[c].pc = "stat"
  BY CallFields DEF Inv, CallInv, StatDone
<1>1. calls' = [calls EXCEPT ![c] = r] /\ UNCHANGED <<disk, clock, byPath, pinned, verAt>>
  BY <1>0 DEF StatDone, TypeOK, Call
<1>2. calls'[c] = r
  BY <1>0, <1>1 DEF TypeOK
<1>3. /\ r.pc = "check" /\ r.path = calls[c].path /\ r.st = disk[calls[c].path].stat
      /\ r.startStat = calls[c].startStat /\ r.startClock = calls[c].startClock
      /\ r.old = calls[c].old
  BY <1>0 DEF Call
<1>4. disk[calls[c].path].stat \in Nat
  BY <1>0, DiskFields
<1> HIDE DEF r
<1>5. CallOK(c)'
  BY <1>0, <1>1, <1>2, <1>3, <1>4 DEF CallOK, Started
<1>6. EntryInv'
  BY <1>1 DEF Inv, EntryInv
<1> QED
  BY <1>1, <1>5, <1>6, OneCaller

LEMMA IoErrorStep ==
    ASSUME Inv, NEW c \in Callers, IoError(c)
    PROVE  DiskInv' /\ EntryInv' /\ CallInv'
<1> DEFINE r == Missing(calls[c])
<1>0. /\ TypeOK /\ CallOK(c) /\ calls[c] \in Call /\ calls[c].path \in Paths
      /\ calls[c].pc \in {"stat", "read"}
  BY CallFields DEF Inv, CallInv, IoError
<1>1. /\ calls' = [calls EXCEPT ![c] = r]
      /\ byPath' = [byPath EXCEPT ![calls[c].path] = NoEntry]
      /\ UNCHANGED <<disk, clock, pinned, verAt>>
  BY DEF IoError
<1>2. calls'[c] = r
  BY <1>0, <1>1 DEF TypeOK
<1>3. \/ r.pc = "failed"
      \/ /\ r.pc = "reread" /\ r.path = calls[c].path /\ r.old = NoEntry
         /\ r.startStat = calls[c].startStat /\ r.startClock = calls[c].startClock
  BY <1>0 DEF Missing, Call, Idle
<1> HIDE DEF r
<1>5. CallOK(c)'
  BY <1>0, <1>1, <1>2, <1>3 DEF CallOK, Started
<1>6. EntryInv'
  BY <1>0, <1>1 DEF Inv, EntryInv, TypeOK
<1> QED
  BY <1>1, <1>5, <1>6, OneCaller

(* A hit: the entry's stat is the file's, so its content is no older than  *)
(* the caller's view, and it was verified less than TTL ago.               *)
LEMMA HitStep ==
    ASSUME Inv, NEW c \in Callers, Hit(c)
    PROVE  DiskInv' /\ EntryInv' /\ CallInv'
<1> DEFINE p == calls[c].path
           e == byPath[p]
           r == Answer(calls[c], e.ver)
<1>0. TypeOK /\ CallOK(c) /\ calls[c] \in Call /\ p \in Paths /\ calls[c].pc = "check"
  BY CallFields DEF Inv, CallInv, Hit
<1>1. calls' = [calls EXCEPT ![c] = r] /\ UNCHANGED <<disk, clock, byPath, pinned, verAt>>
  BY DEF Hit
<1>2. calls'[c] = r
  BY <1>0, <1>1 DEF TypeOK
<1>3. /\ r.pc \in {"done", "reread"} /\ r.path = p /\ r.ver = e.ver /\ r.old = calls[c].old
      /\ r.startStat = calls[c].startStat /\ r.startClock = calls[c].startClock
  BY <1>0 DEF Answer, Call
<1>4. e # NoEntry /\ e.stat = calls[c].st /\ clock - e.lastVerified < TTL
  BY DEF Hit, Valid
<1>5. /\ e.stat <= e.ver /\ e.lastVerified <= clock
      /\ \A t \in 0..e.lastVerified : verAt[p][t] <= e.ver
  BY <1>0, <1>4 DEF Inv, EntryInv
<1>6. /\ e.stat \in Nat /\ e.ver \in Nat /\ e.lastVerified \in Nat /\ clock \in Nat
      /\ calls[c].st \in Nat /\ calls[c].startStat \in Nat /\ calls[c].startClock \in Nat
      /\ TTL \in Nat
  BY <1>0, <1>4, DiskFields, CallFields, ConstantsAssumption
<1>7. /\ calls[c].startStat <= disk[p].stat /\ calls[c].startClock <= clock
      /\ calls[c].old = NoEntry /\ calls[c].startStat <= calls[c].st
  BY <1>0 DEF CallOK, Started
<1>8. \A t \in 0..calls[c].startClock :
          t + TTL <= calls[c].startClock => e.ver >= verAt[p][t]
  <2> SUFFICES ASSUME NEW t \in 0..calls[c].startClock, t + TTL <= calls[c].startClock
               PROVE  verAt[p][t] <= e.ver /\ verAt[p][t] \in Nat
    BY <1>6
  <2>1. t \in 0..e.lastVerified
    BY <1>4, <1>5, <1>6, <1>7
  <2>2. t \in 0..MaxClock
    BY <2>1, <1>0, <1>5, <1>6, ConstantsAssumption DEF TypeOK
  <2> QED
    BY <2>1, <2>2, <1>0, <1>5, DiskFields
<1>9. e.ver >= calls[c].startStat
  BY <1>4, <1>5, <1>6, <1>7
<1> HIDE DEF r, e, p
<1>10. CallOK(c)'
  BY <1>1, <1>2, <1>3, <1>7, <1>8, <1>9 DEF CallOK, Started, p
<1>11. EntryInv'
  BY <1>1 DEF Inv, EntryInv
<1> QED
  BY <1>1, <1>10, <1>11, OneCaller

LEMMA MissStep ==
    ASSUME Inv, NEW c \in Callers, Miss(c)
    PROVE  DiskInv' /\ EntryInv' /\ CallInv'
<1> DEFINE p == calls[c].path
           o == IF byPath[p] = NoEntry THEN NoEntry ELSE byPath[p].ver
           r == [calls[c] EXCEPT !.pc = "read", !.now = clock, !.old = o]
<1>0. TypeOK /\ CallOK(c) /\ calls[c] \in Call /\ p \in Paths /\ calls[c].pc = "check"
  BY CallFields DEF Inv, CallInv, Miss
<1>1. calls' = [calls EXCEPT ![c] = r] /\ UNCHANGED <<disk, clock, byPath, pinned, verAt>>
  BY <1>0 DEF Miss, TypeOK, Call
<1>2. calls'[c] = r
  BY <1>0, <1>1 DEF TypeOK
<1>3. o # NoEntry => o <= disk[p].ver
  BY <1>0 DEF Inv, EntryInv
<1>4. /\ r.pc = "read" /\ r.path = p /\ r.now = clock /\ r.old = o /\ r.st = calls[c].st
      /\ r.startStat = calls[c].startStat /\ r.startClock = calls[c].startClock
  BY <1>0 DEF Call
<1>5. clock \in Nat
  BY <1>0, DiskFields
<1> HIDE DEF r, o, p
<1>6. CallOK(c)'
  BY <1>0, <1>1, <1>2, <1>3, <1>4, <1>5 DEF CallOK, Started, p
<1>7. EntryInv'
  BY <1>1 DEF Inv, EntryInv
<1> QED
  BY <1>1, <1>6, <1>7, OneCaller

(* What readFile() returns is the present content, hence newer than every  *)
(* stat, entry and remembered content of the file.                         *)
LEMMA ReadDoneStep ==
    ASSUME Inv, NEW c \in Callers, ReadDone(c)
    PROVE  DiskInv' /\ EntryInv' /\ CallInv'
<1> DEFINE p == calls[c].path
           r == [calls[c] EXCEPT !.pc = "store", !.ver = disk[p].ver]
<1>0. TypeOK /\ CallOK(c) /\ calls[c] \in Call /\ p \in Paths /\ calls[c].pc = "read"
  BY CallFields DEF Inv, CallInv, ReadDone
<1>1. calls' = [calls EXCEPT ![c] = r] /\ UNCHANGED <<disk, clock, byPath, pinned, verAt>>
  BY <1>0 DEF ReadDone, TypeOK, Call
<1>2. calls'[c] = r
  BY <1>0, <1>1 DEF TypeOK
<1>3. /\ r.pc = "store" /\ r.path = p /\ r.now = calls[c].now /\ r.old = calls[c].old
      /\ r.st = calls[c].st /\ r.ver = disk[p].ver
      /\ r.startStat = calls[c].startStat /\ r.startClock = calls[c].startClock
  BY <1>0 DEF Call
<1>4. /\ disk[p].stat \in Nat /\ disk[p].ver \in Nat /\ clock \in Nat
      /\ calls[c].st \in Nat /\ calls[c].now \in Nat
  BY <1>0, DiskFields, CallFields
<1>5. disk[p].stat <= disk[p].ver /\ \A t \in 0..clock : verAt[p][t] <= disk[p].ver
  BY <1>0 DEF Inv, DiskInv
<1>6. /\ calls[c].startStat <= calls[c].st /\ calls[c].st <= disk[p].stat
      /\ calls[c].startClock <= calls[c].now /\ calls[c].now <= clock
      /\ calls[c].startStat <= disk[p].stat /\ calls[c].startClock <= clock
      /\ calls[c].old # NoEntry => calls[c].old <= disk[p].ver
  BY <1>0 DEF CallOK, Started
<1>7. calls[c].st <= disk[p].ver /\ \A t \in 0..calls[c].now : verAt[p][t] <= disk[p].ver
  BY <1>4, <1>5, <1>6
<1> HIDE DEF r
<1>8. CallOK(c)'
  BY <1>1, <1>2, <1>3, <1>4, <1>6, <1>7 DEF CallOK, Started
<1>9. EntryInv'
  BY <1>1 DEF Inv, EntryInv
<1> QED
  BY <1>1, <1>8, <1>9, OneCaller

(* The entry stored last may be older than the one it replaces, but its    *)
(* label is as old as its content.                                         *)
LEMMA StoreStep ==
    ASSUME Inv, NEW c \in Callers, Store(c)
    PROVE  DiskInv' /\ EntryInv' /\ CallInv'
<1> DEFINE p == calls[c].path
           r == Answer(calls[c], calls[c].ver)
           n == NewEntry(calls[c])
           m == [byPath EXCEPT ![p] = n]
<1>0. TypeOK /\ CallOK(c) /\ calls[c] \in Call /\ p \in Paths /\ calls[c].pc = "store"
  BY CallFields DEF Inv, CallInv, Store
<1>1. /\ calls' = [calls EXCEPT ![c] = r]
      /\ byPath' \in evict(m)
      /\ UNCHANGED <<disk, clock, pinned, verAt>>
  BY DEF Store
<1>2. calls'[c] = r
  BY <1>0, <1>1 DEF TypeOK
<1>3. /\ r.pc \in {"done", "reread"} /\ r.path = p /\ r.ver = calls[c].ver
      /\ r.old = calls[c].old
      /\ r.startStat = calls[c].startStat /\ r.startClock = calls[c].startClock
  BY <1>0 DEF Answer, Call
<1>4. /\ disk[p].stat \in Nat /\ disk[p].ver \in Nat /\ clock \in Nat
      /\ calls[c].st \in Nat /\ calls[c].now \in Nat /\ calls[c].ver \in Nat
      /\ calls[c].startStat \in Nat /\ calls[c].startClock \in Nat
      /\ calls[c].old \in Nat \cup {NoEntry} /\ TTL \in Nat
  BY <1>0, DiskFields, CallFields, ConstantsAssumption
<1>5. /\ calls[c].startStat <= calls[c].st /\ calls[c].st <= calls[c].ver
      /\ calls[c].ver <= disk[p].ver
      /\ calls[c].startClock <= calls[c].now /\ calls[c].now <= clock
      /\ calls[c].startStat <= disk[p].stat /\ calls[c].startClock <= clock
      /\ \A t \in 0..calls[c].now : verAt[p][t] <= calls[c].ver
      /\ calls[c].old # NoEntry => calls[c].old <= calls[c].ver
  BY <1>0 DEF CallOK, Started
<1>6. \A t \in 0..calls[c].startClock : verAt[p][t] <= calls[c].ver /\ verAt[p][t] \in Nat
  <2> SUFFICES ASSUME NEW t \in 0..calls[c].startClock
               PROVE  verAt[p][t] <= calls[c].ver /\ verAt[p][t] \in Nat
    OBVIOUS
  <2>1. t \in 0..calls[c].now /\ t \in 0..MaxClock
    BY <1>0, <1>4, <1>5, ConstantsAssumption DEF TypeOK
  <2> QED
    BY <2>1, <1>0, <1>5, DiskFields
<1>7. calls[c].old # NoEntry => calls[c].old <= disk[p].ver
  BY <1>4, <1>5
<1>8. calls[c].ver >= calls[c].startStat
  BY <1>4, <1>5
<1>9. CallOK(c)'
  <2>1. \A t \in 0..calls[c].startClock : calls[c].ver >= verAt[p][t]
    BY <1>4, <1>6
  <2> HIDE DEF r
  <2> QED
    BY <1>1, <1>2, <1>3, <1>5, <1>7, <1>8, <2>1 DEF CallOK, Started
<1>10. n \in Entry /\ n.stat = calls[c].st /\ n.ver = calls[c].ver /\ n.lastVerified = calls[c].now
  BY <1>4 DEF NewEntry, Entry
<1>11. EntryInv'
  <2> SUFFICES ASSUME NEW q \in Paths, byPath'[q] # NoEntry
               PROVE  /\ byPath'[q].stat <= byPath'[q].ver
                      /\ byPath'[q].ver <= disk[q].ver
                      /\ byPath'[q].lastVerified <= clock
                      /\ \A t \in 0..byPath'[q].lastVerified : verAt[q][t] <= byPath'[q].ver
    BY <1>1 DEF EntryInv
  <2>1. m \in [Paths -> Entry \cup {NoEntry}]
    BY <1>0, <1>10 DEF TypeOK
  <2>2. byPath'[q] = m[q]
    <3> HIDE DEF m
    <3> QED
      BY <1>1, <2>1, EvictRemoves
  <2>3. CASE q = p
    <3>1. byPath'[q] = n
      BY <2>2, <2>3, <1>0 DEF TypeOK
    <3> HIDE DEF n
    <3> QED
      BY <3>1, <2>3, <1>10, <1>5
  <2>4. CASE q # p
    <3>1. byPath'[q] = byPath[q]
      BY <2>2, <2>4, <1>0 DEF TypeOK
    <3> QED
      BY <3>1 DEF Inv, EntryInv
  <2> QED
    BY <2>3, <2>4
<1> QED
  BY <1>1, <1>9, <1>11, OneCaller

LEMMA RereadStep ==
    ASSUME Inv, NEW c \in Callers, Reread(c) \/ RereadError(c)
    PROVE  DiskInv' /\ EntryInv' /\ CallInv'
<1> DEFINE p == calls[c].path
<1>0. TypeOK /\ CallOK(c) /\ calls[c] \in Call /\ p \in Paths /\ calls[c].pc = "reread"
  BY CallFields DEF Inv, CallInv, Reread, RereadError
<1>1. UNCHANGED <<disk, clock, byPath, pinned, verAt>>
  BY DEF Reread, RereadError
<1>2. EntryInv'
  BY <1>1 DEF Inv, EntryInv
<1>3. CASE RereadError(c)
  <2> DEFINE r == [Idle(p) EXCEPT !.pc = "failed"]
  <2>1. calls' = [calls EXCEPT ![c] = r]
    BY <1>3 DEF RereadError
  <2>2. calls'[c].pc = "failed"
    BY <2>1, <1>0 DEF TypeOK, Idle
  <2>3. CallOK(c)'
    BY <2>2 DEF CallOK, Started
  <2> QED
    BY <1>1, <1>2, <2>1, <2>3, OneCaller
<1>4. CASE Reread(c)
  <2> DEFINE r == [calls[c] EXCEPT !.pc = "done", !.ver = disk[p].ver, !.toLines = FALSE]
  <2>1. calls' = [calls EXCEPT ![c] = r]
    BY <1>4, <1>0 DEF Reread, TypeOK, Call
  <2>2. calls'[c] = r
    BY <2>1, <1>0 DEF TypeOK
  <2>3. /\ r.pc = "done" /\ r.path = p /\ r.old = calls[c].old /\ r.ver = disk[p].ver
        /\ r.startStat = calls[c].startStat /\ r.startClock = calls[c].startClock
    BY <1>0 DEF Call
  <2>4. /\ disk[p].stat \in Nat /\ disk[p].ver \in Nat /\ clock \in Nat
        /\ calls[c].startStat \in Nat /\ calls[c].startClock \in Nat
    BY <1>0, DiskFields, CallFields
  <2>5. /\ calls[c].startStat <= disk[p].stat /\ calls[c].startClock <= clock
        /\ calls[c].old # NoEntry => calls[c].old <= disk[p].ver
    BY <1>0 DEF CallOK, Started
  <2>6. disk[p].stat <= disk[p].ver /\ \A t \in 0..clock : verAt[p][t] <= disk[p].ver
    BY <1>0 DEF Inv, DiskInv
  <2>7. \A t \in 0..calls[c].startClock : disk[p].ver >= verAt[p][t]
    <3> SUFFICES ASSUME NEW t \in 0..calls[c].startClock PROVE disk[p].ver >= verAt[p][t]
      OBVIOUS
    <3>1. t \in 0..clock /\ t \in 0..MaxClock
      BY <1>0, <2>4, <2>5, ConstantsAssumption DEF TypeOK
    <3>2. verAt[p][t] \in Nat /\ verAt[p][t] <= disk[p].ver
      BY <3>1, <2>6, <1>0, DiskFields
    <3> QED
      BY <3>2, <2>4
  <2>8. disk[p].ver >= calls[c].startStat
    BY <2>4, <2>5, <2>6
  <2> HIDE DEF r
  <2>9. CallOK(c)'
    BY <1>1, <2>2, <2>3, <2>5, <2>7, <2>8 DEF CallOK, Started
  <2> QED
    BY <1>1, <1>2, <2>1, <2>9, OneCaller
<1> QED
  BY <1>3, <1>4

----------------------------------------------------------------------------
LEMMA InvInit == Init => Inv
<1> SUFFICES ASSUME Init PROVE Inv
  OBVIOUS
<1>1. TypeOK
  BY TypeInit
<1>2. DiskInv /\ EntryInv
  BY ConstantsAssumption DEF Init, DiskInv, EntryInv
<1>3. \A c \in Callers : calls[c].pc = "idle"
  BY DEF Init, Idle
<1>4. CallInv
  BY <1>3 DEF CallInv, CallOK, Started
<1> QED
  BY <1>1, <1>2, <1>4 DEF Inv

LEMMA InvStep == Inv /\ [Next]_vars => Inv'
<1> SUFFICES ASSUME Inv, [Next]_vars PROVE Inv'
  OBVIOUS
<1>0. TypeOK'
  BY TypeStep DEF Inv
<1>1. DiskInv' /\ EntryInv' /\ CallInv'
  <2>1. CASE UNCHANGED vars
    BY <2>1 DEF vars, Inv, DiskInv, EntryInv, CallInv, CallOK
  <2>2. CASE Tick
    BY <2>2, TickStep
  <2>3. ASSUME NEW p \in Paths, Pin(p) \/ Unpin(p) PROVE DiskInv' /\ EntryInv' /\ CallInv'
    BY <2>3 DEF Pin, Unpin, Inv, DiskInv, EntryInv, CallInv, CallOK
  <2>4. ASSUME NEW p \in Paths, Write(p) \/ SilentWrite(p) \/ Delete(p)
        PROVE  DiskInv' /\ EntryInv' /\ CallInv'
    BY <2>4, <1>0, WriterStep
  <2>5. ASSUME NEW c \in Callers, NEW p \in Paths, NEW l \in BOOLEAN, Get(c, p, l)
        PROVE  DiskInv' /\ EntryInv' /\ CallInv'
    BY <2>5, GetStep
  <2>6. ASSUME NEW c \in Callers,
               \/ StatDone(c) \/ IoError(c) \/ Hit(c) \/ Miss(c)
               \/ ReadDone(c) \/ Store(c) \/ Reread(c) \/ RereadError(c)
        PROVE  DiskInv' /\ EntryInv' /\ CallInv'
    BY <2>6, StatDoneStep, IoErrorStep, HitStep, MissStep, ReadDoneStep, StoreStep, RereadStep
  <2> QED
    BY <2>1, <2>2, <2>3, <2>4, <2>5, <2>6 DEF Next
<1> QED
  BY <1>0, <1>1 DEF Inv

LEMMA Invariance == Spec => []Inv
  BY InvInit, InvStep, PTL DEF Spec

(* The pre-read stat invariant of file-cache.ts: whatever reads overlap,   *)
(* the cache is never poisoned.                                            *)
THEOREM CacheNeverPoisoned == Spec => []NeverPoisoned
<1>1. Inv => NeverPoisoned
  <2> SUFFICES ASSUME Inv, NEW p \in Paths, byPath[p] # NoEntry, byPath[p].stat = disk[p].stat
               PROVE  byPath[p].ver >= disk[p].stat
    BY DEF NeverPoisoned
  <2>1. byPath[p].stat <= byPath[p].ver
    BY DEF Inv, EntryInv
  <2> QED
    BY <2>1, DiskFields DEF Inv
<1> QED
  BY <1>1, Invariance, PTL

(* No get() or readLines() returns content older than the last write that  *)
(* stat() could see when the call was made.                                *)
THEOREM AnswersAreFresh == Spec => []FreshSinceCall
<1>1. Inv => FreshSinceCall
  BY DEF Inv, CallInv, CallOK, FreshSinceCall
<1> QED
  BY <1>1, Invariance, PTL

(* TTL_MS bounds how stale an answer can be, even after writes that stat() *)
(* cannot see.                                                             *)
THEOREM StalenessBounded == Spec => []StaleAtMostTTL
<1>1. Inv => StaleAtMostTTL
  BY DEF Inv, CallInv, CallOK, StaleAtMostTTL
<1> QED
  BY <1>1, Invariance, PTL

(* FileCacheResult.old never lies after FileCacheResult.entry.             *)
THEOREM DiffsRunForward == Spec => []DiffRunsForward
<1>1. Inv => DiffRunsForward
  BY DEF Inv, CallInv, CallOK, DiffRunsForward
<1> QED
  BY <1>1, Invariance, PTL

(* A pinned entry stays unless get() fails on its very file.               *)
LEMMA PinnedStep ==
    ASSUME TypeOK, [Next]_vars, NEW p \in pinned, byPath[p] # NoEntry, byPath'[p] = NoEntry
    PROVE  \E c \in Callers : /\ calls[c].path = p
                              /\ calls[c].pc \in {"stat", "read"}
                              /\ calls'[c].pc \in {"failed", "reread"}
<1>1. p \in Paths
  BY DEF TypeOK
<1>2. ASSUME NEW c \in Callers, IoError(c)
      PROVE  /\ calls[c].path = p
             /\ calls[c].pc \in {"stat", "read"}
             /\ calls'[c].pc \in {"failed", "reread"}
  <2> DEFINE r == Missing(calls[c])
  <2>1. /\ calls[c] \in Call /\ calls[c].pc \in {"stat", "read"}
        /\ calls' = [calls EXCEPT ![c] = r]
        /\ byPath' = [byPath EXCEPT ![calls[c].path] = NoEntry]
    BY <1>2 DEF IoError, TypeOK
  <2>2. r.pc \in {"failed", "reread"}
    BY <2>1 DEF Missing, Idle, Call
  <2> HIDE DEF r
  <2>3. calls'[c] = r
    BY <2>1 DEF TypeOK
  <2>4. calls[c].path = p
    BY <1>1, <2>1 DEF TypeOK
  <2> QED
    BY <2>1, <2>2, <2>3, <2>4
<1>3. ASSUME NEW c \in Callers, Store(c)
      PROVE  FALSE
  <2> DEFINE n == NewEntry(calls[c])
             m == [byPath EXCEPT ![calls[c].path] = n]
  <2>1. calls[c] \in Call /\ byPath' \in evict(m)
    BY <1>3 DEF Store, TypeOK
  <2>2. n \in Entry
    BY <2>1 DEF NewEntry, Call, Entry
  <2>3. n # NoEntry
    BY <2>2, ConstantsAssumption
  <2> HIDE DEF n
  <2>4. m \in [Paths -> Entry \cup {NoEntry}] /\ m[p] # NoEntry
    BY <1>1, <2>1, <2>2, <2>3 DEF TypeOK
  <2> HIDE DEF m
  <2>5. byPath'[p] = m[p]
    BY <1>1, <2>1, <2>4, EvictRemoves
  <2> QED
    BY <2>4, <2>5
<1>4. byPath' # byPath
  OBVIOUS
<1>5. PICK c \in Callers : IoError(c) \/ Store(c)
  BY <1>4 DEF Next, Tick, Write, SilentWrite, Delete, Pin, Unpin, Get, StatDone, Hit, Miss,
              ReadDone, Reread, RereadError, vars
<1> QED
  BY <1>2, <1>3, <1>5

(* pin(): mounted files are resident until unpin(), whatever else is read. *)
THEOREM MountedFilesStay == Spec => PinnedStays
<1>1. TypeOK /\ [Next]_vars => [\A p \in pinned :
          (byPath[p] # NoEntry /\ byPath'[p] = NoEntry) =>
              \E c \in Callers : /\ calls[c].path = p
                                 /\ calls[c].pc \in {"stat", "read"}
                                 /\ calls'[c].pc \in {"failed", "reread"}]_vars
  BY PinnedStep
<1> QED
  BY <1>1, TypeCorrect, PTL DEF Spec, PinnedStays
=============================================================================
