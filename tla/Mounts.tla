------------------------------- MODULE Mounts -------------------------------
(***************************************************************************)
(* The mount of one file by the piwpi harness (core/piwpi/harness.ts).     *)
(* read() results are intercepted: the first one becomes the anchor of a   *)
(* mount, later ones are answered with a reference, with the lines that    *)
(* are still missing, or with the new text.  History is never rewritten;   *)
(* before every request to the provider the harness scans the disk (once   *)
(* per run) and appends a delta entry when the disk no longer holds what   *)
(* the anchor shows.  All state of the harness is keyed by plugin, so one  *)
(* file stands for each of them.                                           *)
(*                                                                         *)
(* A content is a sequence of line texts and is its own hash.  A get() of  *)
(* the file cache answers with the disk at the moment its handler resumes  *)
(* (module FileCache has the steps in between).  Files have no more than   *)
(* MAX_CACHED_LINES lines and no line above the byte limit of read().      *)
(***************************************************************************)
EXTENDS LineAlgorithms

CONSTANTS Contents,    \* texts the file may hold, each a non-empty sequence of lines
          MaxLines,    \* MAX_CACHED_LINES of the file cache
          Initial,     \* the texts it may hold at first
          Inputs,      \* offset and limit of the reads the model asks for
          Calls,       \* tool calls of one batch
          MinChange,   \* the 8 of changeThreshold()
          MaxOutput,   \* DEFAULT_MAX_LINES of read()
          Reverts,     \* whether the file may get a text back that it had before
          MaxEdits,    \* bound: writes to the file
          NoFile,      \* the file is missing
          None

ASSUME MountsAssumption ==
    /\ \A c \in Contents : c \in Seq(Range(c)) \ {<<>>} /\ Len(c) <= MaxLines
    /\ Initial \subseteq Contents
    /\ Inputs \subseteq [offset : Int, limit : Int]
    /\ MinChange \in Nat \ {0}
    /\ MaxOutput \in Nat \ {0}
    /\ MaxLines \in Nat
    /\ Reverts \in BOOLEAN
    /\ MaxEdits \in Nat

LineNos == 1..MaxLines
Texts == UNION {Range(c) : c \in Contents}

VARIABLES disk,         \* the file
          past,         \* history: texts the file had
          edits,        \* bound: number of writes
          cached,       \* the text the file cache holds for the file
          store,        \* PluginStore: the plugin of the file
          anchorHash,   \* anchorHashes of the plugin
          retired,      \* whether retiredMounts has the plugin
          persisted,    \* the last custom entry written for the plugin
          calls,        \* tool calls: Pending and the locals of the handlers
          phase,        \* where the agent loop is
          scanPending,
          shown,        \* history: the text the conversation shows for each line of the mount
          mounted,      \* history: the lines mounted so far, as a set
          rebased,      \* history: anchorHash was moved away from what the anchor shows
          clobbered,    \* history: a handler wrote over a plugin newer than the one it had read
          request       \* history: what the last request told the model

harness == <<cached, store, anchorHash, retired, persisted, scanPending>>
ghosts  == <<shown, mounted, rebased, clobbered, request>>
vars    == <<disk, past, edits, harness, calls, phase, ghosts>>

Plugin == [hash : Contents, segments : Seq([start : LineNos, end : LineNos]),
           pendingMemoryLines : Nat, lineHashes : Contents]

(* What stands for no file and for no value is none of the values.         *)
ASSUME NoneAssumption ==
    /\ NoFile # None /\ {NoFile, None} \cap Contents = {}
    /\ None \notin Texts \cup Plugin

Kinds == {"native", "noop", "increment", "updated", "new"}

(* pc is the await a call is in: "called" before the tool runs, "ran" with *)
(* its output, "reread" while currentLines() is awaited.                   *)
Call == [pc : {"idle", "called", "ran", "reread"}, kind : Kinds,
         hash : Contents \cup {None}, oldLines : Contents \cup {None},
         input : [offset : Int, limit : Int], text : Contents \cup {NoFile, None},
         got : [start : Nat, end : Int], existing : Plugin \cup {None}]

Idle == [pc |-> "idle", kind |-> "native", hash |-> None, oldLines |-> None,
         input |-> [offset |-> NoNum, limit |-> NoNum], text |-> None,
         got |-> [start |-> 0, end |-> 0], existing |-> None]

TypeOK ==
    /\ disk \in Contents \cup {NoFile}
    /\ past \subseteq Contents
    /\ edits \in 0..MaxEdits
    /\ cached \in Contents \cup {None}
    /\ store \in Plugin \cup {None}
    /\ anchorHash \in Contents \cup {None}
    /\ retired \in BOOLEAN
    /\ persisted \in Plugin \cup {None}
    /\ calls \in [Calls -> Call]
    /\ phase \in {"idle", "scan", "delta", "tools", "run"}
    /\ scanPending \in BOOLEAN
    /\ shown \in [LineNos -> Texts \cup {None}]
    /\ mounted \subseteq LineNos
    /\ {rebased, clobbered} \subseteq BOOLEAN
    /\ request \in [told : BOOLEAN, outdated : BOOLEAN, rebased : BOOLEAN]

Nothing == [l \in LineNos |-> None]
NoRequest == [told |-> FALSE, outdated |-> FALSE, rebased |-> FALSE]

Init ==
    /\ disk \in Initial
    /\ past = {disk}
    /\ edits = 0
    /\ cached = None
    /\ store = None
    /\ anchorHash = None
    /\ persisted = None
    /\ retired = FALSE
    /\ calls = [c \in Calls |-> Idle]
    /\ phase = "idle"
    /\ scanPending = TRUE
    /\ shown = Nothing
    /\ mounted = {}
    /\ rebased = FALSE
    /\ clobbered = FALSE
    /\ request = NoRequest

----------------------------------------------------------------------------
(* The world: editors write and delete the file.                           *)

Edit(c) ==
    /\ edits < MaxEdits
    /\ c # disk
    /\ Reverts \/ c \notin past
    /\ disk' = c
    /\ past' = past \cup {c}
    /\ edits' = edits + 1
    /\ UNCHANGED <<harness, calls, phase, ghosts>>

Delete ==
    /\ edits < MaxEdits
    /\ disk # NoFile
    /\ disk' = NoFile
    /\ edits' = edits + 1
    /\ UNCHANGED <<past, harness, calls, phase, ghosts>>

world == <<disk, past, edits>>

(* get(): the cache takes over the disk.  The entry it replaced is handed  *)
(* out; one of the same text only when the TTL forced the reading.  Only a *)
(* mounted file's entry is ever used, and that one is pinned.              *)
Get == cached' = IF disk = NoFile THEN None ELSE disk

Replaced == IF cached = None THEN {None}
            ELSE IF cached = disk THEN {None, cached} ELSE {cached}

----------------------------------------------------------------------------
(* How much the mounted text changed.                                      *)

changeThreshold(totalLines) == Greatest(MinChange, (totalLines + 5) \div 10)

changedLines(s, oldLines, newLines) ==
    IF Kept(s, Len(newLines))
    THEN countChangedLines(sliceText(oldLines, s), sliceText(newLines, clamp(s, Len(newLines))))
    ELSE s.end - s.start + 1

changedLinesOf(segments, oldLines, newLines) ==
    LET upTo[i \in 0..Len(segments)] ==
            IF i = 0 THEN 0 ELSE upTo[i - 1] + changedLines(segments[i], oldLines, newLines)
    IN  upTo[Len(segments)]

----------------------------------------------------------------------------
(* onContext(): the scan, then the delta.                                  *)

Prompt ==
    /\ phase = "idle"
    /\ phase' = "scan"
    /\ UNCHANGED <<world, harness, calls, ghosts>>

NoScan ==
    /\ phase = "scan"
    /\ (scanPending /\ store # None) => disk = store.hash
    /\ scanPending' = FALSE
    /\ phase' = "delta"
    /\ IF scanPending /\ store # None THEN Get ELSE cached' = cached
    /\ UNCHANGED <<world, store, anchorHash, retired, persisted, calls, ghosts>>

Retire ==
    /\ store' = None
    /\ retired' = TRUE
    /\ UNCHANGED persisted

(* A small change: the plugin catches up with the disk and is persisted.   *)
Remount(lines, accumulated) ==
    /\ store' = [hash |-> lines, segments |-> clampAll(store.segments, Len(lines)),
                 pendingMemoryLines |-> accumulated, lineHashes |-> lines]
    /\ persisted' = store'
    /\ UNCHANGED retired

(* Mutant: the re-mount is taken for what the anchor shows.                *)
AnchorFollowsScan(hash) == anchorHash' = hash

AnchorAfterScan(hash) == anchorHash' = anchorHash

scanDiskChanges ==
    /\ phase = "scan"
    /\ scanPending
    /\ store # None
    /\ disk # store.hash
    /\ scanPending' = FALSE
    /\ phase' = "delta"
    /\ Get
    /\ \/ /\ disk = NoFile
          /\ Retire
          /\ UNCHANGED <<anchorHash, mounted>>
       \/ /\ disk # NoFile
          /\ \E old \in Replaced :
               LET change == IF old # None THEN changedLinesOf(store.segments, old, disk)
                             ELSE countDelta(store.lineHashes, disk)
                   accumulated == store.pendingMemoryLines + change
               IN  IF accumulated >= changeThreshold(Len(disk))
                   THEN Retire /\ UNCHANGED <<anchorHash, mounted>>
                   ELSE /\ Remount(disk, accumulated)
                        /\ AnchorAfterScan(disk)
                        /\ mounted' = mounted \cap 1..Len(disk)
    /\ UNCHANGED <<world, calls, shown, rebased, clobbered, request>>

(* Some line of the mount, or of what the conversation shows of it, is not *)
(* what the file holds.                                                    *)
Outdated ==
    \E l \in LineNos :
        /\ shown[l] # None \/ (store # None /\ l \in Lines(store.segments))
        /\ disk = NoFile \/ l \notin DOMAIN disk \/ shown[l] # disk[l]

(* Mutant: the delta compares the disk with the store.                     *)
DeltaOfStore == retired \/ (store # None /\ disk # store.hash)

HasDelta == retired \/ (store # None /\ disk # anchorHash)

(* The delta is appended to a copy of the last message: the request shows  *)
(* it, the conversation does not keep it.                                  *)
buildMountDelta ==
    /\ phase = "delta"
    /\ phase' = "tools"
    /\ IF store # None THEN Get ELSE cached' = cached
    /\ request' = [told |-> HasDelta, outdated |-> Outdated, rebased |-> rebased]
    /\ UNCHANGED <<world, store, anchorHash, retired, persisted, scanPending, calls,
                   shown, mounted, rebased, clobbered>>

Quiet == \A c \in Calls : calls[c].pc = "idle"

NextTurn ==
    /\ phase \in {"tools", "run"}
    /\ Quiet
    /\ phase' = "scan"
    /\ request' = NoRequest
    /\ UNCHANGED <<world, harness, calls, shown, mounted, rebased, clobbered>>

onAgentSettled ==
    /\ phase \in {"tools", "run"}
    /\ Quiet
    /\ phase' = "idle"
    /\ scanPending' = TRUE
    /\ request' = NoRequest
    /\ UNCHANGED <<world, cached, store, anchorHash, retired, persisted, calls,
                   shown, mounted, rebased, clobbered>>

----------------------------------------------------------------------------
(* onToolCall().  The calls of a batch are prepared before any of them     *)
(* runs; a sequential batch is a row of batches of one.                    *)

Preparing == phase = "tools" \/ (phase = "run" /\ Quiet)

Registered(c, kind, hash, oldLines, input) ==
    calls' = [calls EXCEPT ![c] = [Idle EXCEPT !.pc = "called", !.kind = kind, !.hash = hash,
                                               !.oldLines = oldLines, !.input = input]]

Unregistered(c, input) == Registered(c, "native", None, None, input)

(* A read of the mounted text: nothing to add, or the first missing part.  *)
ReadMounted(c, input) ==
    LET want    == rangeFromInput(input, Len(disk))
        missing == subtract(store.segments, want)
        first   == [offset |-> missing[1].start,
                    limit  |-> missing[1].end - missing[1].start + 1]
    IN  IF want.start > Len(disk) THEN Unregistered(c, input)
        ELSE IF missing = <<>> THEN Registered(c, "noop", None, None, input)
             ELSE Registered(c, "increment", disk, None, first)

onToolCall(c, input) ==
    /\ Preparing
    /\ phase' = "tools"
    /\ calls[c].pc = "idle"
    /\ Get
    /\ \/ disk = NoFile /\ Unregistered(c, input)
       \/ disk # NoFile /\ store # None /\ store.hash = disk /\ ReadMounted(c, input)
       \/ /\ disk # NoFile /\ store # None /\ store.hash # disk
          /\ \E old \in Replaced : Registered(c, "updated", disk, old, input)
       \/ disk # NoFile /\ store = None /\ Registered(c, "new", disk, None, input)
    /\ UNCHANGED <<world, store, anchorHash, retired, persisted, scanPending, ghosts>>

(* An extension blocks the call, or the run is aborted before it starts.   *)
Blocked(c) ==
    /\ calls[c].pc = "called"
    /\ calls' = [calls EXCEPT ![c] = Idle]
    /\ UNCHANGED <<world, harness, phase, ghosts>>

(* The read tool takes its own copy of the file.                           *)
RunRead(c) ==
    /\ calls[c].pc = "called"
    /\ calls' = [calls EXCEPT ![c].pc = "ran", ![c].text = disk]
    /\ phase' = "run"
    /\ UNCHANGED <<world, harness, ghosts>>

----------------------------------------------------------------------------
(* onToolResult().                                                         *)

Start(input) == Greatest(1, input.offset)

(* The lines read() put out, and whether it cut the selection short.       *)
Selected(call) == rangeFromInput(call.input, Len(call.text)).end
Output(call) == [start |-> Start(call.input),
                 end   |-> Least(Selected(call), Start(call.input) + MaxOutput - 1)]
Truncated(call) == Output(call).end < Selected(call)

Failed(call) == call.text # NoFile => Start(call.input) > Len(call.text)

(* The lines the harness takes the output for, given the total it reads.   *)
Got(call, totalLines) ==
    LET from == Start(call.input)
    IN  [start |-> from,
         end   |-> IF Truncated(call) THEN Output(call).end
                   ELSE IF call.input.limit # NoNum
                        THEN from + Least(Greatest(0, call.input.limit), totalLines - from + 1) - 1
                        ELSE totalLines]

(* What a result adds to the conversation: lines r of text.                *)
Show(on, text, r) ==
    [l \in LineNos |-> IF l \in r.start..r.end \cap DOMAIN text THEN text[l] ELSE on[l]]

(* The result goes through as the tool gave it; the model may read in it   *)
(* lines that it knew otherwise from the mount.                            *)
Native(c) ==
    /\ calls' = [calls EXCEPT ![c] = Idle]
    /\ shown' = IF Failed(calls[c]) THEN shown
                ELSE LET now == Show(shown, calls[c].text, Output(calls[c]))
                     IN  [l \in LineNos |-> IF shown[l] = None THEN None ELSE now[l]]
    /\ UNCHANGED <<store, anchorHash, retired, persisted, mounted, rebased, clobbered>>

Within(r, totalLines) == IF r.end <= totalLines THEN <<r>> ELSE <<>>

(* Mutant: the notice of an earlier mount stays.                           *)
KeepNotice == retired' = retired

ClearNotice == retired' = FALSE

(* The first result: it is the anchor of the mount.  Its hash is the one   *)
(* onToolCall() saw.                                                       *)
MountNew(c, got) ==
    LET call == calls[c]
    IN  /\ store' = [hash |-> call.hash, segments |-> Within(got, Len(disk)),
                     pendingMemoryLines |-> 0, lineHashes |-> disk]
        /\ persisted' = store'
        /\ anchorHash' = call.hash
        /\ ClearNotice
        /\ calls' = [calls EXCEPT ![c] = Idle]
        /\ shown' = Show(Nothing, call.text, Output(call))
        /\ mounted' = Lines(store'.segments)
        /\ rebased' = FALSE
        /\ clobbered' = FALSE

(* Up to the second await.  The plugin read here is the one the handler    *)
(* builds on afterwards.                                                   *)
onToolResult(c) ==
    /\ calls[c].pc = "ran"
    /\ LET call == calls[c]
           got  == Got(call, Len(disk))
       IN  \/ /\ call.kind = "native" \/ Failed(call)
              /\ Native(c)
              /\ UNCHANGED cached
           \/ /\ call.kind = "noop" /\ ~Failed(call)
              /\ IF store = None THEN Native(c)
                 ELSE /\ calls' = [calls EXCEPT ![c] = Idle]
                      /\ UNCHANGED <<store, anchorHash, retired, persisted, shown,
                                     mounted, rebased, clobbered>>
              /\ UNCHANGED cached
           \/ /\ call.kind \in {"increment", "updated", "new"} /\ ~Failed(call)
              /\ call.kind = "new" \/ store # None
              /\ Get
              /\ IF disk # NoFile => got.end < got.start THEN Native(c)
                 ELSE IF store = None THEN MountNew(c, got)
                 ELSE /\ calls' = [calls EXCEPT ![c].pc = "reread", ![c].got = got,
                                                ![c].existing = store]
                      /\ UNCHANGED <<store, anchorHash, retired, persisted, shown,
                                     mounted, rebased, clobbered>>
           \/ /\ call.kind \in {"increment", "updated"} /\ ~Failed(call)
              /\ store = None
              /\ Native(c)
              /\ UNCHANGED cached
    /\ UNCHANGED <<world, scanPending, phase, request>>

(* currentLines() answered.                                                *)
Reread(c) ==
    /\ calls[c].pc = "reread"
    /\ Get

Changed(c) ==
    /\ Reread(c)
    /\ disk # calls[c].hash
    /\ Native(c)
    /\ UNCHANGED <<world, scanPending, phase, request>>

Increment(c) ==
    /\ Reread(c)
    /\ disk = calls[c].hash
    /\ calls[c].kind \in {"increment", "new"}
    /\ LET call == calls[c]
       IN  /\ store' = [call.existing EXCEPT !.segments = mergeSegments(Append(@, call.got))]
           /\ anchorHash' = call.hash
           /\ shown' = Show(shown, disk, call.got)
           /\ mounted' = mounted \cup (call.got.start..call.got.end)
           /\ rebased' = (rebased \/ anchorHash # call.hash)
           /\ clobbered' = (clobbered \/ store # call.existing)
    /\ calls' = [calls EXCEPT ![c] = Idle]
    /\ UNCHANGED <<world, retired, persisted, scanPending, phase, request>>

Update(c) ==
    /\ Reread(c)
    /\ disk = calls[c].hash
    /\ calls[c].kind = "updated"
    /\ LET call == calls[c]
           old  == call.existing
           accumulated == IF call.oldLines = None THEN 0
                          ELSE old.pendingMemoryLines
                               + changedLinesOf(old.segments, call.oldLines, disk)
       IN  IF call.oldLines # None /\ accumulated >= changeThreshold(Len(disk))
           THEN Retire /\ UNCHANGED <<shown, mounted, clobbered>>
           ELSE /\ store' = [hash |-> call.hash,
                             segments |-> mergeSegments(clampAll(old.segments, Len(disk))
                                                        \o Within(call.got, Len(disk))),
                             pendingMemoryLines |-> accumulated, lineHashes |-> disk]
                /\ persisted' = store'
                /\ shown' = Show(shown, disk, call.got)
                /\ mounted' = (mounted \cap 1..Len(disk))
                              \cup Lines(Within(call.got, Len(disk)))
                /\ clobbered' = (clobbered \/ store # old)
                /\ UNCHANGED retired
    /\ calls' = [calls EXCEPT ![c] = Idle]
    /\ UNCHANGED <<world, anchorHash, scanPending, phase, rebased, request>>

----------------------------------------------------------------------------
(* The process ends, at any point, and the session is resumed: the custom  *)
(* entries and the conversation are what is left.                          *)

Resume ==
    /\ persisted # None
    /\ store' = persisted
    /\ anchorHash' = persisted.hash
    /\ retired' = FALSE
    /\ cached' = None
    /\ scanPending' = TRUE
    /\ phase' = "idle"
    /\ calls' = [c \in Calls |-> Idle]
    /\ mounted' = Lines(persisted.segments)
    /\ rebased' = (rebased \/ anchorHash # persisted.hash)
    /\ clobbered' = FALSE
    /\ request' = NoRequest
    /\ UNCHANGED <<world, persisted, shown>>

Next ==
    \/ \E c \in Contents : Edit(c)
    \/ Delete
    \/ Prompt \/ NoScan \/ scanDiskChanges \/ buildMountDelta
    \/ NextTurn \/ onAgentSettled
    \/ \E c \in Calls, input \in Inputs : onToolCall(c, input)
    \/ \E c \in Calls : \/ Blocked(c) \/ RunRead(c) \/ onToolResult(c)
                        \/ Changed(c) \/ Increment(c) \/ Update(c)
    \/ Resume

Spec == Init /\ [][Next]_vars

----------------------------------------------------------------------------
(* Properties.                                                             *)

(* The state is well typed: the list of mounted ranges is sorted, its ranges neither touch nor      *)
(* overlap, and it stands for exactly the lines that were mounted and not  *)
(* cut off since: merging, clamping and subtracting lists of ranges        *)
(* (ranges.ts, source.ts) is the union, the intersection and the           *)
(* difference of sets of lines, whatever calls, scans and shrinking files  *)
(* follow each other.                                                      *)
SegmentsExact ==
    /\ TypeOK
    /\ store # None =>
           /\ Normal(store.segments)
           /\ ~clobbered => Lines(store.segments) = mounted

(* A read of a mounted file is narrowed to lines that were asked for and   *)
(* are not mounted yet, starting with the first of them; it is answered    *)
(* with a mere reference only when all of them are mounted                 *)
(* (harness.ts, onToolCall).                                               *)
OnlyMissingRead ==
    [][\A c \in Calls :
         calls[c].pc = "idle" /\ calls'[c].kind \in {"noop", "increment"} =>
           \A input \in Inputs : onToolCall(c, input) =>
             LET want    == rangeFromInput(input, Len(disk))
                 lacking == (want.start..want.end) \ Lines(store.segments)
                 call    == calls'[c]
                 next    == call.input.offset + call.input.limit
                 asked   == call.input.offset..(next - 1)
             IN  /\ call.kind = "noop" => lacking = {}
                 /\ call.kind = "increment" =>
                      /\ asked # {} /\ asked \subseteq lacking
                      /\ next \notin lacking
                      /\ \A l \in lacking : call.input.offset <= l]_vars

(* As long as the conversation shows text of a mount, the plugin is either *)
(* in the store or announced as retired, and never both: a mount neither   *)
(* vanishes silently nor is declared void while reads are still answered   *)
(* from it.  The one exception is a result that wrote back the plugin it   *)
(* had read before its last await.                                         *)
MountedOrRetired ==
    shown # Nothing /\ ~clobbered => ((store # None) # retired)

(* A request never shows text of a mounted file that the file no longer    *)
(* holds without an entry of the delta about it.  The one exception is an  *)
(* anchorHash that was moved while the anchor in the conversation stayed.  *)
ToldWhenOutdated ==
    request.outdated /\ ~request.rebased => request.told
=============================================================================
