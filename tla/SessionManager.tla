--------------------------- MODULE SessionManager ---------------------------
(***************************************************************************)
(* SessionManager (core/session-manager.ts): the conversation as a tree of *)
(* entries in memory and as a JSON-lines file that only grows, and what    *)
(* the model is shown of it; with the compaction of core/compaction, the   *)
(* tree navigation of AgentSession and the fork of AgentSessionRuntime,    *)
(* which are its users.                                                    *)
(*                                                                         *)
(* An entry is appended below the leaf.  The file is first written when an *)
(* assistant message is there, all entries at once, and then line by line. *)
(* The process may be killed at any moment, within a write too, and a      *)
(* write may fail; after that only messages are appended and the session   *)
(* opened again (a bound).  Summaries are modelled by what they tell of:   *)
(* the set of the entries a model call was given, directly or through an   *)
(* earlier summary.  bashExecution and custom messages are user messages   *)
(* here, and all entries without a message are labels (label, with its     *)
(* target) or "custom".                                                    *)
(***************************************************************************)
EXTENDS Naturals, Sequences, FiniteSets, SequencesExt

CONSTANTS Types,       \* the types of the entries that are appended
          MaxEntries,  \* bound: entries made
          MaxMoves,    \* bound: navigations, forks and restarts
          MaxFaults,   \* bound: failed writes and torn lines
          Header, None

ASSUME SessionAssumption ==
    /\ Types \subseteq {"user", "assistant", "toolResult", "label", "custom"}
    /\ MaxEntries \in Nat /\ MaxMoves \in Nat /\ MaxFaults \in Nat

VARIABLES fileEntries,  \* the entries in memory, without the header
          leafId,       \* the id of the leaf, 0 for none
          flushed,
          file,         \* the lines that parse, None when there is no file
          tail,         \* its end: "whole", or a last line "cut" short or without newline ("open")
          alive,        \* the process runs
          preparation,  \* the compaction under way, None for none
          lastId,       \* ids given so far
          moves, faults,
          stored,       \* history: the entries whose write returned
          forgotten     \* history: messages that the known gaps have lost

memory == <<fileEntries, leafId, flushed, alive>>
disk   == <<file, tail>>
vars   == <<memory, disk, preparation, lastId, moves, faults, stored, forgotten>>

(* ref: the target of a label, firstKeptEntryId of a compaction.           *)
Entry == [id : 1..MaxEntries, parentId : 0..MaxEntries,
          type : Types \cup {"compaction", "branch_summary"},
          ref : 0..MaxEntries, summary : SUBSET (1..MaxEntries)]

(* A header is no entry, and no file is not a file without lines.          *)
ASSUME LinesAssumption ==
    Header \notin Entry /\ None \notin Seq(Entry \cup {Header})

TypeOK ==
    /\ \A i \in DOMAIN fileEntries : fileEntries[i] \in Entry
    /\ leafId = 0 \/ \E e \in ToSet(fileEntries) : e.id = leafId
    /\ flushed \in BOOLEAN
    /\ file # None => ToSet(file) \subseteq Entry \cup {Header}
    /\ tail \in {"whole", "cut", "open"}
    /\ alive \in BOOLEAN
    /\ lastId \in 0..MaxEntries
    /\ moves \in 0..MaxMoves
    /\ faults \in 0..MaxFaults
    /\ stored \cup forgotten \subseteq 1..MaxEntries

Init ==
    /\ fileEntries = <<>>
    /\ leafId = 0
    /\ flushed = FALSE
    /\ file = None
    /\ tail = "whole"
    /\ alive = TRUE
    /\ preparation = None
    /\ lastId = 0
    /\ moves = 0
    /\ faults = 0
    /\ stored = {}
    /\ forgotten = {}

----------------------------------------------------------------------------
(* The tree, and what the model is shown of it.                            *)

IdsInOrder(es) == [i \in DOMAIN es |-> es[i].id]
Ids(es) == {es[i].id : i \in DOMAIN es}

(* The place of an entry in a sequence, 0 for none.                        *)
PlaceOf(es, id) ==
    LET at == {i \in DOMAIN es : es[i].id = id} IN IF at = {} THEN 0 ELSE CHOOSE i \in at : TRUE

(* getBranch(): from an entry to the root; a missing parent ends the walk. *)
(* Of its way, branchWithout() leaves out the entries of some types.       *)
branchWithout(es, from, types) ==
    LET up[id \in 0..MaxEntries] ==
            IF id \notin Ids(es) THEN <<>>
            ELSE LET e == CHOOSE e \in ToSet(es) : e.id = id
                 IN  IF e.type \in types THEN up[e.parentId] ELSE Append(up[e.parentId], e)
    IN  up[from]

getBranch(es, from) == branchWithout(es, from, {})

(* _buildIndex(): the last entry of the file is the leaf.                  *)
leafOf(es) == IF es = <<>> THEN 0 ELSE Last(es).id

(* sessionEntryToContextMessages() gives a message.                        *)
Visible(e) == e.type \notin {"label", "custom"}
Visibles(es) == SelectSeq(es, Visible)

IsCompaction(e) == e.type = "compaction"
LatestCompaction(path) == Max({0} \cup {i \in DOMAIN path : IsCompaction(path[i])})

(* The latest compaction, the entries it kept, and those after it.         *)
buildContextEntries(path) ==
    LET c == LatestCompaction(path)
        kept == PlaceOf(path, path[c].ref)
    IN  IF c = 0 THEN path
        ELSE <<path[c]>>
             \o (IF kept \in 1..(c - 1) THEN SubSeq(path, kept, c - 1) ELSE <<>>)
             \o SubSeq(path, c + 1, Len(path))

Context == Visibles(buildContextEntries(getBranch(fileEntries, leafId)))

----------------------------------------------------------------------------
(* The file.                                                               *)

hasAssistant(es) == \E e \in ToSet(es) : e.type = "assistant"

Parsed == IF file = None THEN <<>> ELSE file
(* Mutant: the whole line before a cut one goes too.                       *)
BaseShort == IF tail = "whole" \/ Parsed = <<>> THEN Parsed ELSE Front(Parsed)

(* A line that is added to a line without its newline makes one line that  *)
(* does not parse.                                                         *)
Base == IF tail = "open" THEN Front(Parsed) ELSE Parsed
Added(lines) == IF tail = "whole" THEN Parsed \o lines ELSE Base \o Tail(lines)

(* A write of these lines that ends early: after k whole lines, and with   *)
(* the next one cut short or only without its newline.                     *)
Partly(lines, k, end) ==
    /\ k < Len(lines)
    /\ tail = "whole" \/ k > 0 \/ end = "cut"
    /\ file' = IF k = 0 /\ tail # "whole" THEN Base
               ELSE Added(SubSeq(lines, 1, IF end = "open" THEN k + 1 ELSE k))
    /\ tail' = end

Written(lines) == {l.id : l \in ToSet(lines) \ {Header}}

(* What _persist() writes when es are the entries, the last one new: the   *)
(* file is created with all of them (open with "wx", which throws when     *)
(* there is one), or the new one is added.                                 *)
toWrite(es) ==
    CASE flushed -> <<Last(es)>>
      [] ~flushed /\ hasAssistant(es) /\ file = None -> <<Header>> \o es
      [] OTHER -> <<>>

Saved(es) ==
    /\ flushed' = (flushed \/ toWrite(es) # <<>>)
    /\ IF toWrite(es) = <<>> THEN UNCHANGED disk
       ELSE file' = Added(toWrite(es)) /\ tail' = "whole"
    /\ stored' = stored \cup Written(toWrite(es))
    /\ UNCHANGED <<alive, faults>>

(* The write throws: the entry stays in memory.  Or the process is killed  *)
(* within it; between two lines that is no fault of the disk.  Its memory  *)
(* is gone then.                                                           *)
NotSaved(es, k, end) ==
    /\ Partly(toWrite(es), k, end)
    /\ alive' \in IF moves < MaxMoves THEN BOOLEAN ELSE {TRUE}
    /\ flushed' = (flushed /\ alive')
    /\ faults' = IF alive' \/ end # "whole" THEN faults + 1 ELSE faults
    /\ faults' <= MaxFaults
    /\ UNCHANGED stored

Persisted(es) ==
    \/ Saved(es)
    \/ \E k \in 0..MaxEntries, end \in {"whole", "cut", "open"} : NotSaved(es, k, end)

(* _appendEntry()                                                          *)
Entered(type, parent, ref, summary) ==
    LET e == [id |-> lastId + 1, parentId |-> parent, type |-> type, ref |-> ref,
              summary |-> summary]
    IN  /\ lastId < MaxEntries
        /\ lastId' = lastId + 1
        /\ Persisted(Append(fileEntries, e))
        /\ fileEntries' = IF alive' THEN Append(fileEntries, e) ELSE <<>>
        /\ leafId' = IF alive' THEN e.id ELSE 0

(* The messages, labels and other entries of the session.  A tool result   *)
(* comes right after its assistant message.                                *)
AppendEntry(type, target) ==
    /\ alive
    /\ type = "label" => target \in Ids(fileEntries) /\ faults = 0
    /\ type # "label" => target = 0
    /\ type = "toolResult" =>
           LET path == Visibles(getBranch(fileEntries, leafId))
           IN  /\ path # <<>> /\ Last(fileEntries).id = leafId
               /\ Last(path).type \in {"assistant", "toolResult"}
    /\ Entered(type, leafId, target, {})
    /\ UNCHANGED <<preparation, moves, forgotten>>

Kill ==
    /\ alive
    /\ moves < MaxMoves
    /\ alive' = FALSE
    /\ fileEntries' = <<>>
    /\ leafId' = 0
    /\ flushed' = FALSE
    /\ preparation' = None
    /\ UNCHANGED <<disk, lastId, moves, faults, stored, forgotten>>

(* open(): a file whose header was cut off is refused, and another session *)
(* started; an empty one gets its header.                                  *)
Open ==
    /\ ~alive
    /\ moves < MaxMoves
    /\ moves' = moves + 1
    /\ alive' = TRUE
    /\ preparation' = None
    /\ LET refused == file # None /\ Parsed = <<>> /\ tail # "whole"
           lines == IF file # None /\ Parsed = <<>> THEN <<Header>> ELSE Parsed
           es == IF refused \/ file = None THEN <<>> ELSE Tail(lines)
       IN  /\ fileEntries' = es
           /\ leafId' = leafOf(es)
           /\ flushed' = (file # None /\ ~refused)
           /\ file' = IF refused \/ file = None THEN None ELSE lines
           /\ tail' = IF refused THEN "whole" ELSE tail
    /\ UNCHANGED <<lastId, faults, stored, forgotten>>

----------------------------------------------------------------------------
(* Compaction.                                                             *)

(* Mutant: a turn may be cut before a tool result.                         *)
isCutAnywhere(e) == Visible(e) /\ e.type # "compaction"

isCutPoint(e) == Visible(e) /\ e.type \notin {"compaction", "toolResult"}
startsTurn(e) == isCutPoint(e) /\ e.type # "assistant"

(* findCutPoint(): the first valid cut from where the budget is used up,   *)
(* the first of all when there is none, and back over the entries without  *)
(* a message.                                                              *)
findCutPoint(path, start, full) ==
    LET cuts == {i \in start..Len(path) : isCutPoint(path[i])}
        late == {i \in cuts : i >= full}
        cut  == CASE cuts = {} -> start [] late # {} -> Min(late) [] OTHER -> Min(cuts)
        back == {i \in start..cut : \A j \in i..(cut - 1) : ~Visible(path[j])}
    IN  IF cuts = {} THEN start ELSE Min(back)

(* The boundary of the last compaction: what it kept was never summarised. *)
boundaryStart(path) ==
    LET c == LatestCompaction(path)
        kept == PlaceOf(path, path[c].ref)
    IN  CASE c = 0 -> 1 [] c # 0 /\ kept # 0 -> kept [] OTHER -> c + 1

Messages(path, from, to) ==
    {path[i].id : i \in {j \in from..to : Visible(path[j]) /\ ~IsCompaction(path[j])}}

(* Mutant: the beginning of a turn that is cut is left out.                *)
noPrefix(path, from, to) == {}

turnPrefixMessages(path, from, to) == Messages(path, from, to)

(* prepareCompaction() and the text compact() makes of it: history and, of *)
(* a turn that is cut, its beginning.  Without history before the turn the *)
(* previous summary is not used.                                           *)
prepareCompaction(path, full) ==
    LET c == LatestCompaction(path)
        start == boundaryStart(path)
        first == findCutPoint(path, start, full)
        turns == {i \in start..first : startsTurn(path[i])}
        split == ~startsTurn(path[first]) /\ turns # {}
        end == IF split THEN Max(turns) ELSE first
        history == Messages(path, start, end - 1)
        prefix == IF split THEN turnPrefixMessages(path, end, first - 1) ELSE {}
        previous == IF c = 0 THEN {} ELSE path[c].summary
    IN  [firstKept |-> path[first].id, history |-> history, prefix |-> prefix,
         previous |-> previous, leafId |-> Last(path).id,
         summary |-> prefix \cup history
                     \cup (IF prefix # {} /\ history = {} THEN {} ELSE previous)]

PrepareCompaction(full) ==
    LET path == getBranch(fileEntries, leafId)
        prepared == prepareCompaction(path, full)
    IN  /\ alive
        /\ preparation = None /\ faults = 0
        /\ path # <<>> /\ ~IsCompaction(Last(path))
        /\ full \in DOMAIN path
        /\ boundaryStart(path) \in DOMAIN path
        /\ prepared.history \cup prepared.prefix # {}
        /\ preparation' = prepared
        /\ UNCHANGED <<memory, disk, lastId, moves, faults, stored, forgotten>>

(* The model has answered.  Lost, without a gap in the model's view: what  *)
(* the previous summary told and this one does not, and the whole path     *)
(* when the leaf was moved to another branch meanwhile.                    *)
FinishCompaction ==
    /\ alive
    /\ preparation # None
    /\ Entered("compaction", leafId, preparation.firstKept, preparation.summary)
    /\ preparation' = None
    /\ LET path == getBranch(fileEntries, leafId)
       IN  forgotten' = forgotten \cup (preparation.previous \ preparation.summary)
                        \cup IF PlaceOf(path, preparation.leafId) = 0 THEN Ids(path) ELSE {}
    /\ UNCHANGED moves

CancelCompaction ==
    /\ alive
    /\ preparation # None
    /\ preparation' = None
    /\ UNCHANGED <<memory, disk, lastId, moves, faults, stored, forgotten>>

----------------------------------------------------------------------------
(* Moving in the tree, and to a session made of one path of it.            *)

(* navigateTree(): a user message goes back to the editor, so the leaf is  *)
(* its parent; with a summary of the path left behind, if that is wanted.  *)
NavigateTree(target, summarize) ==
    /\ alive /\ faults = 0
    /\ moves < MaxMoves
    /\ moves' = moves + 1
    /\ target \in Ids(fileEntries) \ {leafId}
    /\ LET path == getBranch(fileEntries, target)
           newLeaf == IF Last(path).type = "user" THEN Last(path).parentId ELSE target
           left == {e \in ToSet(getBranch(fileEntries, leafId)) : e \notin ToSet(path)}
           told == {e.id : e \in {f \in left : Visible(f) /\ f.type # "toolResult"}}
       IN  IF summarize /\ left # {} THEN Entered("branch_summary", newLeaf, 0, told)
           ELSE /\ leafId' = newLeaf
                /\ UNCHANGED <<fileEntries, flushed, alive, disk, lastId, faults, stored>>
    /\ UNCHANGED <<preparation, forgotten>>

(* createBranchedSession(): the path without its labels, each entry below  *)
(* the one before, then a label for each labelled entry, in some order.    *)
(* Mutant: the entries keep their parents.                                 *)
Unchained(path) == path

Rechained(path) ==
    [i \in DOMAIN path |-> [path[i] EXCEPT !.parentId = IF i = 1 THEN 0 ELSE path[i - 1].id]]

(* Mutant: only messages are taken over.                                   *)
LeftOutToo == {"label", "custom", "compaction", "branch_summary"}

LeftOut == {"label"}

Branched(es, target) ==
    LET path == Rechained(branchWithout(es, target, LeftOut))
        marks == SetToSeq({e.ref : e \in {f \in ToSet(es) : f.type = "label"}} \cap Ids(path))
    IN  path \o [i \in DOMAIN marks |->
                    [id |-> lastId + i, type |-> "label", ref |-> marks[i], summary |-> {},
                     parentId |-> IF i > 1 THEN lastId + i - 1
                                  ELSE IF path = <<>> THEN 0 ELSE Last(path).id]]

(* fork(): the file is opened again and the path goes to a new one, which  *)
(* is written when it has an assistant message.  Gone too, when the first  *)
(* entry a compaction kept was a label: all that it kept, wherever the     *)
(* session goes from there.                                                *)
Fork(target) ==
    /\ alive /\ faults = 0
    /\ moves < MaxMoves
    /\ moves' = moves + 1
    /\ file \notin {None, <<>>}
    /\ target \in Ids(Tail(file))
    /\ preparation' = None
    /\ LET es == Branched(Tail(file), target)
           path == getBranch(es, leafOf(es))
           gaps == {i \in DOMAIN path : IsCompaction(path[i]) /\ PlaceOf(path, path[i].ref) = 0}
       IN  /\ es # <<>> /\ Ids(es) \subseteq 1..MaxEntries
           /\ fileEntries' = es
           /\ leafId' = leafOf(es)
           /\ lastId' = Max(Ids(es) \cup {lastId})
           /\ flushed' = hasAssistant(es)
           /\ file' = IF hasAssistant(es) THEN <<Header>> \o es ELSE None
           /\ tail' = "whole"
           /\ stored' = IF hasAssistant(es) THEN Ids(es) ELSE {}
           /\ forgotten' = forgotten \cup UNION {Ids(SubSeq(path, 1, i)) : i \in gaps}
    /\ UNCHANGED <<alive, faults>>

Next ==
    \/ \E type \in Types, target \in 0..MaxEntries : AppendEntry(type, target)
    \/ Kill \/ Open
    \/ \E full \in 1..MaxEntries : PrepareCompaction(full)
    \/ FinishCompaction \/ CancelCompaction
    \/ \E target \in 1..MaxEntries : Fork(target) \/ \E s \in BOOLEAN : NavigateTree(target, s)

Spec == Init /\ [][Next]_vars

----------------------------------------------------------------------------
(* Properties                                                              *)

(* Once the file exists it holds the header and every entry in memory, in  *)
(* order, whatever was appended before the first assistant message, after  *)
(* a restart from a half-written file, or on a branch.                     *)
StoredIsMemory ==
    alive /\ flushed /\ faults = 0 => file = <<Header>> \o fileEntries

(* The parent of every entry comes before it, so that no walk to the root  *)
(* ends early: after a kill within the first write, and in a fork that     *)
(* leaves labels out.                                                      *)
TreeUnbroken ==
    faults = 0 => \A i \in DOMAIN fileEntries :
        fileEntries[i].parentId \in {0} \cup Ids(SubSeq(fileEntries, 1, i - 1))

(* The session is intact: well typed, the file is the memory, and the tree *)
(* is connected.                                                           *)
Intact == TypeOK /\ StoredIsMemory /\ TreeUnbroken

(* Every message on the current path is in the model's context or told in  *)
(* the summary that stands there, through any number of compactions,       *)
(* navigations and forks, but for the known gaps.                          *)
DroppedIsSummarised ==
    faults = 0 =>
        LET path == getBranch(fileEntries, leafId)
            c == LatestCompaction(path)
            shown == ToSet(Context)
        IN  \A e \in ToSet(path) :
                Visible(e) /\ ~IsCompaction(e) =>
                    \/ e \in shown
                    \/ c # 0 /\ e.id \in path[c].summary
                    \/ e.id \in forgotten

(* The context never has a tool result without its assistant message ("it  *)
(* never cuts at tool results"), whatever comes between the two on the     *)
(* path.                                                                   *)
ResultsFollowCalls ==
    faults = 0 =>
        LET shown == Context
        IN  \A i \in DOMAIN shown : shown[i].type = "toolResult" =>
                \/ i > 1 /\ shown[i - 1].type \in {"assistant", "toolResult"}
                \/ shown[i].id \in forgotten

(* A torn line or a failed write costs, of the entries whose writing       *)
(* succeeded, at most one: the line that is added to it.                   *)
OneEntryPerFault == Cardinality(stored \ Written(Parsed)) <= faults

(* A fork shows the model what the session showed it at that entry, unless *)
(* the first entry a compaction kept is a label, which a fork leaves out.  *)
ForkKeepsContext ==
    [][moves' # moves /\ fileEntries' # fileEntries /\ alive =>
       \A target \in 1..MaxEntries : Fork(target) =>
        LET path == getBranch(Tail(file), target)
            c == LatestCompaction(path)
        IN  \/ IdsInOrder(Visibles(buildContextEntries(path))) = IdsInOrder(Context)'
            \/ c # 0 /\ \E e \in ToSet(path) : e.id = path[c].ref /\ e.type = "label"]_vars

(* "passing the previous summary as iterative context when present": what  *)
(* a summary on the path told, the next one tells.                         *)
SummariesGrow ==
    LET path == getBranch(fileEntries, leafId)
        summaries == SelectSeq(path, IsCompaction)
    IN  \A i, j \in DOMAIN summaries : i < j => summaries[i].summary \subseteq summaries[j].summary
=============================================================================
