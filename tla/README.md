# A verification of piwpi

piwpi is a coding agent: a language model that works on a repository through
tools, driven from a terminal, an RPC client or a desktop application, with a
layer of its own that mounts the files the model has read. This directory
holds TLA+ models of the parts of it in which steps of several actors
interleave, the TLC configurations that check them on small instances, and
TLAPS proofs of the invariants that matter most for every instance.

    tlc -workers 2 -config AgentRun.cfg AgentRunRefinement
    tlapm AgentRunProofs.tla

## 1. The system

### Parts, their state and how they interact

| part | source | state | operations |
|---|---|---|---|
| Agent | `packages/agent/src/agent.ts` | `activeRun` with its abort signal, `_state` (messages, `isStreaming`, `pendingToolCalls`, `errorMessage`), steering and follow-up queues with a mode each | `prompt`, `continue`, `steer`, `followUp`, `clearAllQueues`, `abort`, `waitForIdle`, `reset`; `processEvents` reduces the loop's events |
| Agent loop | `packages/agent/src/agent-loop.ts` | locals of `runLoop`: its copy of the context, pending messages, the tool batch | turns: inject messages, request, tools (parallel or sequential), polls of the queues |
| AgentSession | `packages/coding-agent/src/core/agent-session.ts` | `_isAgentRunActive`, retry attempt and backoff controller, compaction controllers, `_overflowRecoveryAttempted`, `_lastAssistantMessage`, pending bash results, the idle wait, the queues shown to the UI | `prompt` with its preflight, `sendCustomMessage`, the run driver, retry, auto-compaction, `compact`, `abort`, `abortRetry`, `executeBash`, settling |
| RPC mode | `packages/coding-agent/src/modes/rpc/rpc-mode.ts` | `initialPromptInFlight` | commands on stdin, answers on stdout |
| FileContentCache | `core/piwpi/file-cache.ts` | entries by path, pinned paths | `get`, `readLines`, `pin`, `unpin`, `evict` |
| Piwpi harness | `core/piwpi/harness.ts`, `store.ts`, `adapters/source.ts` | mounted plugins, anchor hashes, retired mounts, pending reads, scan flag, session generation | `onToolCall`, `onToolResult`, `onContext` (scan and delta), `onSessionStart`, `onAgentSettled`, `shutdown` |
| Piwpi memory | `core/piwpi/memory/*` | serial task chain, debounced jobs, project map in memory and in a file | batches, merge and write of the map file |
| Session manager | `core/session-manager.ts` | the session tree: entries, leaf, `flushed`, the JSON-lines file | append, open, branch, branched session, build context |
| Compaction | `core/compaction/*` | none: from a path of entries to a cut and a summary | `prepareCompaction`, `compact`, branch summaries |
| Session runtime | `core/agent-session-runtime.ts` | the current session | new, resume, fork, switch |
| Agent harness | `packages/agent/src/harness/*`, `core/coding-agent-harness.ts` | a second driver over the loop, with repositories of sessions | - |
| Providers | `packages/ai` | per request stream | streaming, retries, authentication |
| Session server | `packages/server` | connections and their stage, live and opening sessions, snapshot revision and queue of broadcasts | handshake, create, attach, detach, operations, disposal, broadcasts, close |
| Client | `packages/client` | connection, pending requests, attached sessions, leases with counts | connect, acquire, release, request, snapshots |
| Protocol, storage | `packages/protocol`, `packages/storage` | none; a database | framing; queries |
| User interfaces | `packages/tui`, `modes/interactive`, `desktop` | screens | rendering, keys |

A prompt enters through RPC mode or the UI, goes through AgentSession's
preflight (input hooks, credentials, a compaction check, hooks before the
start), and becomes a run of the Agent. The loop calls the provider and the
tools and reports events; the Agent reduces them into its transcript and
awaits its listeners, AgentSession among them, which persists messages and
informs extensions and the UI. When the run is over AgentSession decides
whether to retry, to compact, or to continue with queued messages, and
otherwise settles. The piwpi harness hangs on the tool and context events of
the run and reads files only through the FileContentCache; its memory batches
run beside the agent and share the store of mounts with it. AgentSession keeps
every message in the session manager, compacts and navigates its tree; the
runtime forks it. The session server offers such sessions to several clients
over connections that may end at any time.

### What is hard in it

Everything runs on one event loop, so steps between two awaits are atomic and
everything else interleaves:

* messages arrive, and aborts fire, at every await of a run;
* the loop and the Agent each keep a copy of the transcript;
* tools of one batch end in any order, and may outlive a run that failed;
* several prompts can be in preflight at once, between reading
  `isStreaming` and setting the flag behind it;
* retry, overflow recovery and continuation follow each other and edit the
  transcript; limits are reset by the answers in between;
* bash results come at any time and have to wait for the run;
* a file can change between a stat and a read, and without its stat changing;
* two reads of one file can be under way, each with several awaits, while the
  file changes and a scan runs;
* a memory batch works for minutes with objects the agent replaces meanwhile;
* several sessions write one project map file;
* the process may be killed within a write of the session file;
* the tree can be navigated while a compaction is under way;
* a runtime is opened, used and disposed for connections that come and go, and
  a client's view is put together from responses and numbered snapshots.

`PROJECT.json` lists these as hazards, each at the line where it bites.

### What makes each part correct

* *Agent and loop*: no message is lost, delivered twice or overtaken; tool
  results follow their calls; the provider is sent what the session shows;
  an aborted run ends.
* *AgentSession*: the flag that guards everything tells the truth; what was
  accepted reaches the agent; a session settles, and only when nothing is
  queued; retries start with a full budget; bash results neither land in the
  middle of a run nor stay behind.
* *FileContentCache*: no stale content under a fresh stat; bounded staleness
  when the stat lies; differences that run forward; mounted files resident.
* *Harness*: what the model sees of a mounted file, history plus delta, is what
  is on the disk as of the last scan; ranges are exact.
* *Memory*: a batch brings nothing back that is gone; mounted files are
  eventually taken up; shutdown ends.
* *Project map*: no session loses what another one wrote.
* *Session manager and compaction*: the file is the memory, a fault costs
  little, the tree stays connected, and what the model is no longer shown has
  been summarised.
* *Server and client*: one runtime per session and none left over, an answer to
  every request, and agreement on who is attached.

## 2. Modules

| module | what it is |
|---|---|
| `FileCache` | the FileContentCache with its callers, the file system and the clock |
| `MCFileCache` | its symmetry for TLC |
| `FileCacheProofs` | theorems about it |
| `AgentRun` | the Agent and its loop |
| `AgentContract` | abstract specification: what the session relies on when it gives a message to the Agent |
| `AgentRunRefinement` | the refinement mapping from AgentRun to AgentContract |
| `AgentRunProofs` | theorems about AgentRun, and that it implements AgentContract |
| `AgentSession` | AgentSession and the RPC commands, over a reduced Agent |
| `MCAgentSession` | its symmetry for TLC |
| `AgentSessionProofs` | theorems about AgentSession |
| `LineAlgorithms` | ranges of lines, and counts of changed lines, as pure operators |
| `Mounts`, `MCMounts` | the mount of one file by the harness; over LineAlgorithms |
| `MountsProofs` | theorems about the line algorithms and about Mounts |
| `MemoryBatch`, `MCMemoryBatch` | batches of the memory agent, the project map and its file |
| `MemoryBatchProofs` | theorems about MemoryBatch |
| `SessionManager` | the session tree and its file, compaction, navigation, fork |
| `SessionManagerProofs` | theorems about it |
| `LiveSessions` | the session server |
| `RemoteSessions`, `MCRemoteSessions` | the clients; extends LiveSessions |
| `RemoteSessionsProofs` | theorems about server and clients together |
| `RemoteAgreementProofs` | that they agree on who is attached |

### FileCache

`get()` is split at its awaits: `Get` (the call), `StatDone`, `Hit` or `Miss`,
`ReadDone`, `Store`; `IoError` is either failure. What `readLines()` does after
its `get()` is `Reread`. The stat's answer and its use are two steps, because
other callers run between them. Contents are numbered in the order they were
written; a stat is the number of the last write that changed it, so
`SilentWrite` (same time stamp, same size) is a new number under an old stat.
`verAt` remembers what the disk held at each tick; it exists for
`StaleAtMostTTL` only. Two entries verified in the same millisecond leave in
insertion order in the code and in either order in the model.

### AgentRun

`loop.pc` is the await the loop is at. A run is `Prompt`, `ContinueQueued` or
`ContinueTranscript`, then `EmitPrompt`/`PromptsEmitted`, `InitialPoll` (with the
poll that `continue()` suppresses once), `Inject`/`Injected`, `RequestStarted`
and `Respond`, the tool batch, `EndTurn`, `PollSteering`, `PollFollowUp`,
`FinishRun`. A batch is `StartTools`, `Prepare`, then
`Dispatch` (parallel: all calls are prepared first) or `DispatchOne`
(sequential), `ToolEnds` in any order, `ToolsEnded`, `EmitResult` in the order
of the calls, `BatchDone`. `RunFails` is a listener, hook or stream function
that rejects; tools still executing then become `orphans`, whose later events
still reach `processEvents` (`OrphanEnds`). `DropFailedAnswer` is what
AgentSession does to the transcript before a retry.

Streaming deltas, the contents of messages, and the arguments and results of
tools are left out: nothing in the control depends on them. Whether a tool is
blocked, fails, or asks to terminate is a choice. `Agent.reset()` and the
setters of model, tools and prompt are not modelled.

### AgentContract

Messages are numbered as they are sent, wait in one of two lanes, are taken
from the front of a lane by a run, are appended to the transcript while that
run is active, and disappear only when the lanes are cleared or a run fails
that holds them. A run never ends with a message in its hand. The mapping
takes `active` for "running", the two queues for the lanes, the loop's
prompts and pending messages for the hand, and the user messages of the
transcript for what was delivered.

### AgentSession

A *request* is one message a caller sends, in one of four ways (`Modes`): an
RPC prompt without `streamingBehavior` ("initial"), one with it ("behaviour"),
the steer and follow_up commands ("queue"), and `sendCustomMessage` with
`triggerTurn` ("custom"). `req[r].pc` is the await its async function is at:
the preflight (`SubmitPrompt`, `InputDone`, `AuthDone`, `CheckBeforePrompt`,
`StartRun`), then, for the request that drives the run, `PostRun`, `EndSleep`,
`CheckRun`, `EndAutoCompaction`, and `Settled`. The Agent is reduced to what
AgentRun shows of it: an owner, a phase and a signal; `Deliver`, `Turn`,
`Answer`, `Terminate`, `FinishRun`. `Abort`, `AbortRetry`, `Compact`,
`AbortCompaction`, `ClearQueue` and `RecordBash` are the other callers.

Abstractions, and why they are sound:

* From the last look at the queues (`_handlePostAgentRun`) to the finally block
  or the next `continue()` there are only promise jobs, so no I/O, timer or
  command is handled between them: they are one step (`Decide`, `Continue`,
  `Settle`).
* Of the transcript and of the session only the number of assistant messages
  at the end is kept (`tail`, `logTail`), which is all `agent.continue()` looks
  at. Compaction keeps some end of the session (`Kept`).
* How an answer compares with the context window is a choice (`Checks`), within
  what `_checkCompaction` allows for its stop reason. Auto-compaction is enabled.
* `MaxRetries = 0` is retry disabled.

Not modelled: the queues shown to the UI, `nextTurn` messages, extension
commands, model and tool selection, the remaining RPC commands. Compaction is
only a step here; what it does to the session, and tree navigation, are in
SessionManager.

### LineAlgorithms and Mounts

`normalize`, `subtract`, `clamp`, `mergeSegments` and the two counts of changed
lines are recursive functions, a loop of the code being a function of how many elements it has
seen (`merged`, `skipped`, `clampAll`), with its body as an operator (`Coalesce`, `Skip`,
`Clamped`); `sort()` inserts one range after the other. Mounts uses
them and keeps beside the list of ranges the set of lines it should stand for.

A file is a short sequence of line texts, its own hash. A read is
`onToolCall` (which narrows it to what is not mounted), the tool (`RunRead`),
`onToolResult`, and after its await `MountNew`, `Increment` or `Update`; two of
them run in parallel, with the plugin each captured. A turn is `Prompt`,
`scanDiskChanges` once, `buildMountDelta` before each request, and `NextTurn`.
`Edit` and `Delete` happen at any time, `Resume` is a crash and `restorePlugins()`.
`shown` is the text the conversation shows and `request` what the last request
to the provider said. All state of the harness is keyed by plugin, so one file
stands for all; the scan of several is in MemoryBatch.

### MemoryBatch

A batch is the locals of `runMemoryBatch()` in `task`: `TaskStart`, `TaskRead`
per file, `Answer` (the model call), `TaskCheck` and `Verify` per file, with the
awaits in between, and the write of the map. Plugins are objects in the
code; the batch either still holds the object of the store or has its own
(`Keeping`). A write of the map file is a read, a merge and a write in two steps
(`Begun`, `Written`), by the scan, a batch, the shutdown or another session.
`Shutdown`, `Flushed` or `FlushTimesOut`, `ShutdownSaves` end the session.

### SessionManager

`fileEntries`, `leafId` and `flushed` are the fields of the class; `file` holds the
lines that parse and `tail` tells how the last one ends. `Persisted` is
`_persist()`: a write that succeeds, one that throws part of the way, or one
the process is killed in. `Open` reads the file again. Summaries are modelled by
what they tell of: the set of entries that reached a model call, directly or
through an earlier summary. The token budget is the choice of the entry at
which it is used up, over all of them. `PrepareCompaction` and
`FinishCompaction` are the two ends of the model call. `NavigateTree` is one step although a
branch summary takes a model call; a label it may set is the append that follows.
After a fault only messages are appended and the session opened again, a bound.
`forgotten` collects what the gaps named in section 5 lose, so that
`DroppedIsSummarised` can speak of everything else.

### LiveSessions and RemoteSessions

One session. A request under way on the server is a task at the
await it has reached: the disposal it waits for, the opening, the snapshot
after attaching or before the end of a detach, the operation. `lives` are the
LiveSession objects, of which one is in the map. Broadcasts queue up and are
numbered when they start. On the client a lease goes through reservation,
waiting for a detachment, reconciliation, attachment, use and release; requests
are shared by leases where the code shares their promise.

Abstractions: prompt, steer, abort and the two setters are one operation that
makes the runtime busy until `RunEnds`; list and progress change no state; gaps
that only promise jobs fill are closed; a broadcast reaches all
connections in one step, while the second snapshot of a handshake is listed and
sent in two; session snapshots carry no revision; a client does not acquire a
session that it is just creating. `session_removed` is never sent by the server.

## 3. Runs

A passing run explores all reachable states of its instance. Deadlock is not checked
where the system may rest for good (an idle session, an agent that no message
is left for). Where a property is a conjunction (`OnceInOrder`, `Intact`,
`OneRuntimeInUse`, `MemoryProgress`), the module names and comments its parts;
`SegmentsExact`, `MapSaved`, `Intact` and `Exclusive` include the type invariant of
their modules.

| run | instance | distinct states | shows |
|---|---|---|---|
| `file_cache` | 1 file, 2 callers, 2 writes, TTL 1, 2 ticks | 3.4 M | `TypeOK`, `NeverPoisoned`, `FreshSinceCall`, `StaleAtMostTTL`, `DiffRunsForward` |
| `file_cache_evict` | 2 files (one too large to keep its text), 1 slot, pins | 1.7 M | `PinnedStays` |
| `agent_run` | 3 messages, parallel batches of up to 2 calls, throwing listeners | 176 k | `TypeOK`, `OnceInOrder`, `ContextMirrorsTranscript`, `ResultsFollowCalls`, `PendingCallsAreReal`, `AbortEnds`, `ImplementsContract` |
| `agent_run_sequential` | 3 messages, sequential batches, both queues in mode "all", a second run | 270 k | `OnceInOrder` |
| `agent_session` | 3 requests (initial, queue), 2 retries, a bash command, an abort | 1.5 M | `TypeOK`, `IsStreamingTruthful`, `AcceptedReachesAgent`, `BashDeferred`, `SettlesClean` |
| `agent_session_open` | 2 requests of every mode, with `compact()` | 2.5 M | what still holds when runs overlap: `BashFlushed` |
| `agent_session_live` | 2 requests, 1 retry, `compact()` | 156 k | `RunSettles`, `GuardReleased`, `AbortReturns` |
| `mounts` | 1 file, 2 parallel reads, 2 edits, deletion, resume | 1.2 M | `SegmentsExact`, `OnlyMissingRead`, `MountedOrRetired`, `ToldWhenOutdated` |
| `memory_batch` | 2 files, batches of 2, 2 contents, another session | 456 k | `MapSaved`, `NoRevival`, `OthersKept`, `MemoryProgress` |
| `session_manager` | 5 entries, 2 moves (navigation, fork, restart), 1 fault | 956 k | `Intact`, `DroppedIsSummarised`, `ResultsFollowCalls`, `OneEntryPerFault`, `ForkKeepsContext` |
| `compaction_history` | the same, without moves | violation | `SummariesGrow` fails |
| `remote_sessions` | 2 clients, 3 leases, 2 connections, 3 calls, 1 fault | 1.0 M | `OneRuntimeInUse`, `ResponseUnderWay`, `Agreement`, `Exclusive` |

*Bounds.* One file is enough for the freshness properties of the cache, since
entries of different files meet only in `evict()`, which has its own run; two
writes let the cache hold one content, a caller another and the disk a third.
In a batch of two calls one can end before, while and after the other is
dispatched. Three messages allow two in one queue and one in the hand of the
loop. Three requests allow one that drives a run, one in preflight and one in
the queue; two retries tell an attempt that counts from one that
starts over. `MaxAborts` is one: with unboundedly many calls of
`abort()` during backoffs, and a message queued each time, a session need not
settle. Two reads meet each other in every pair of
awaits, and two edits change the file before and after either; no edit brings an earlier text
back (`Reverts`), for with one `ToldWhenOutdated` fails, see section 5. `MaxLines` is `MAX_CACHED_LINES`; the
texts have three lines at most. Two files let a batch commit
one and drop the other. Five entries are what a second compaction of a cut turn
needs (a message on each side, an answer, two compactions). Three calls are an
acquisition, a use or a release, and one of another lease or client; with two
connections a client comes back before the server has seen it go, or two
clients share a session. Larger instances were explored once without error:
`remote_sessions` with four calls (6.2 M states), and with messages that take
their time (`Latency`) and two calls (5.5 M); `session_manager` with six entries,
one fault and one move. The symmetric sets are the callers of the cache and the requests,
and the reads of a batch, which no definition tells apart; the runs with liveness use no symmetry.

*Fairness.* In AgentRun the loop's own steps are weakly fair, as the event loop
runs what is ready; a provider and a tool are only relied on once the signal
they were given has fired (`AbortEnds`), because the code gives neither a time
limit. `AgentSessionLive` assumes more, since it asks whether the *session*
ever gets in its own way: hooks, credential lookups, backoff timers, summaries
and listeners come back, and the provider answers or fails. No fairness is
assumed of callers. `Deliver` and `Turn` need none: a run that does not
answer for ever is excluded by the fairness of the answer, which stays enabled
because a failure is always possible. In MemoryBatch a batch, a write of the
map and the shutdown go on when they can; `onAgentSettled` is strongly fair,
which says that turns keep ending, since between them it is not enabled. The
model call of a batch is taken to come back, if only with an error; the end of
the shutdown does not rest on that, since `FlushTimesOut` is enabled for as long
as it waits. The other modules state safety only.

Each property of a passing run has a mutant in the module it is about: a
definition that differs from the real one by a slip one could make in that
code (`LeftNothing`, `NewEntryStatAfterRead`, `CoalesceOverlapping`, `SettleUnflushed`, ...), under
which TLC must find the property violated.

## 4. Proofs

**FileCacheProofs** proves, for any sets of paths and callers and any
capacity, TTL and bounds, `TypeOK`, `NeverPoisoned`, `FreshSinceCall`,
`StaleAtMostTTL` and `DiffRunsForward`. None but the first is inductive. The
invariant `Inv` adds `DiskInv` (the disk never runs behind its stat or its
history), `EntryInv` (an entry is at least as new as its stat, and as what the
disk held when it was verified) and `CallInv`, which says for
every await what a call in progress already knows: after the stat its `st`
covers the last write visible at the start, after the read its content covers
`st` and what it will replace. `PinnedStays`, an action property, needs no
invariant but `TypeOK`: it is a lemma about `evict()` over any order of the
entries.

**AgentRunProofs** proves, for any number of calls, turns and messages and
for all queue and tool modes, the five invariants of the module and the refinement. `TypeOK`,
`ContextMirrorsTranscript` and `PendingCallsAreReal` follow from the inductive
invariant `IInv`, the conjunction of

* `TypeOK`;
* `Shape`: the loop is idle exactly when no run is active, a batch exists only
  at the awaits of a batch, and prompts only at the start;
* `Mirror`: context and transcript agree, up to the prompts not yet emitted at
  the start and the results already emitted in a batch (the Agent is told of a
  result before the loop adds the batch to its context);
* `Progress`: which statuses the calls before and after the index of the batch
  can have;
* `OrphansAreOld`: tools that outlived a failed run belong to an earlier turn,
  so their late events cannot end a call of the present batch;
* `IdleClean` and `PendingCallsAreReal`.

`OrphansAreOld` and `Progress` are what a direct attempt at
`PendingCallsAreReal` lacks: without the first a late `tool_execution_end` could
remove a live call, without the second the results could be emitted over calls
that are still running.

`OnceInOrder` needs `Delivery`: put one behind the other, the transcript, the
prompts and the pending messages of the loop (`Core`) and the two queues hold every
number sent and not discarded once, and with each queue the messages of its kind in
ascending order (`Kept`); each queue holds one kind only, and the loop holds
queued messages at its injection only. Without the last two a message of one kind could be put in
front of another by a queue that is not its own. Every step
of the program is one of few changes of these sequences: moving a prefix
of one to the end of another, appending a new number, or dropping a part; a
lemma says of each that it preserves `Kept`.

`ResultsFollowCalls` needs `Answering`: outside a batch every call in
the transcript is answered and every result follows its call (`Replied`);
inside one the same holds of the context up to the message that holds the calls
of the batch (`Batched`). The message in front of a result is never removed
without it, and `DropFailedAnswer`, which removes the last message, removes one
that failed and hence has no results (`Excused`).

`AgentKeepsContract`, that AgentRun implements AgentContract, follows from
`TypeOK`, `Shape` and `Delivery`. Every step is mapped to one
of the contract or to a stutter: a prompt is `Start`, steering and follow-ups
`Join`, `continue()` is `Resume`, or `Take` of what it drains, a poll `Take`, an emitted or
injected message `Deliver`, and the steps by which a run ends, fails or is cleared their
namesakes. `Shape` and `Delivery` say that the loop's hand is empty
where it polls and where it ends. What the transcript delivers is `UserIds`, a recursive
function: that it exists for a sequence of any length is shown by `NatInd`
(`WalkExists`), and from it that appending a message appends its number
or nothing (`UserIdsAppend`), and that removing a failed answer changes nothing.
The contract states no fairness, and neither does the theorem.

**AgentSessionProofs** proves the properties of AgentSession for any number of
requests, retries and commands. `TypeOK` (with it the bound of the retry
counter) and `BashFlushed` hold in every mode. The others are proved under a
hypothesis that the theorem states, because the code does not have them otherwise:

* `Serialised`: callers use initial prompts and the two queueing commands. A
  prompt with `streamingBehavior`, or a custom message that triggers a turn, does not look at the
  guard of RPC mode and may start a run beside another; section 5 has what then
  happens to `isStreaming`, and the run `agent_session_open` explores it.
* `~Compactor`, for `SettlesClean` only: `compact()` replaces the transcript
  under the driver, which then may retry a run that the Agent refuses.

`SerialInv` is the invariant: at most one prompt before its run, and it holds
the guard (`OnePrompt`); none past its look at `isStreaming` while a run is driven
(`PromptAlone`); one driver, and the flag up while there is one (`OneDriver`);
the Agent's run is the one its driver awaits (`RunIsDriven`); a backoff that can be
cancelled is one that is slept through (`BackoffIsOwned`). `IsStreamingTruthful`
is not inductive without the first three: a second driver would take the flag down when it
settles. `SettlesClean` adds `Settling`: what a driver knows of the answer its
run ended with, and that the transcript ends with one answer at most
(`OneAnswer`), which is why `agent.continue()` is not refused.

**MountsProofs** first proves what the line algorithms do, for lists of any length over
`1..MaxLines`. Their functions recurse over the elements seen; `LoopExists` (by `NatInd`) gives a
function that satisfies the recursion, and an induction over it one fact about each:

* `SortedFacts`, `MergedFacts`, `MergeFacts`: sorting keeps the ranges and puts their starts in
  order; merging an ordered list gives one in normal form (ascending, neither overlapping nor
  touching) that covers the same lines;
* `ClampFacts`: clamping a normal list is the intersection with `1..maxEnd`, and normal;
* `SubtractFacts`: nothing is missing exactly when the wanted lines are all covered, and otherwise the
  first range is the first run of wanted lines that are not covered;
* `CountChangedNat`, `CountDeltaNat`: either measure of a change is a natural number.

From these follow the properties of Mounts for any texts, reads, number of
parallel calls, thresholds and number of edits:

* `SegmentsExact` and `OnlyMissingRead`, from `Sound`: types, normal form of every list of ranges that
  somebody holds (the store, the persisted entry, the plugin a waiting call has captured), what a
  call knows at each of its awaits (`GoodCall`), and `Exact`. The normal form of the captured
  plugins is what `SegmentsExact` lacks to be inductive: a handler writes back what it
  captured, not what is in the store by then;
* `MountedOrRetired`, from `KeptInv`, which says the two halves of it for what each can lose: a plugin in
  the store has no notice, unless one was clobbered; text shown has either, always;
* `ToldWhenOutdated`, from `AnchorShown`: while the disk holds what `anchorHash` stands for, the
  conversation shows the text of the disk for every line of the mount, wherever a list of its lines is
  kept. A handler moves `anchorHash` to the hash its call saw when it was prepared, and shows the
  text its tool read later. That both are one text is `Current`; that a range
  taken from an output lies in the file, `Fits`; and that a mount made by one call of a
  batch meets no other call waiting for an older one, `NewBatch`, from `Quietly` (which handlers run
  in which phase). `Current` rests on `Known`, every hash is one of a text the file had, and on the
  hypothesis of the theorem, `~Reverts`.

`~Reverts` says that the file gets no text back that it had before. Without it the property fails
in the code: a call is prepared, the file changes, the tool reads the new text, and the file is
changed back before the result is looked at; the old hash then is the anchor of a text never
shown. `NoneAssumption` (no file and no value are neither texts nor plugins) is an assumption of
the encoding, not of the code.

**MemoryBatchProofs** proves `MapSaved`, `NoRevival` and `OthersKept` for any
files, threshold and number of batches and versions. `ShutdownInv` says at each
stage of the shutdown who may still write: a batch writes only from its last
await, and a shutdown that was not contended runs alone, so that what it is
about to write is the map. `NoneIsNoObject` (no plugin object is the value that stands
for "none") is an assumption of the encoding, not of the code.

**RemoteSessionsProofs** proves, for any clients, connections, leases, calls and faults and
with or without latency, what server and clients promise together. The set of
leases is assumed finite, as leases are counted; that `None` is neither a snapshot nor a
record of a session being made is an assumption of the encoding.

* `OneRuntimeInUse`, from `RuntimeInv`: requests have numbers of their own on
  their way and in the server (`Numbered`); of the runtimes at most one is not
  disposed, and none exists while one opens (`OneLive`); `operationCount` is
  the number of operations under way (`Counted`) and `NoIdleRuntime` that a
  runtime that nobody uses is being disposed. Without `Numbered` the end of an
  operation could be taken for that of another, and the count be wrong.
* `ResponseUnderWay`, from `AnswerInv`: a connection belongs to one
  client from the time it is accepted and `close()` leaves none open (`Owned`), what is pending was
  asked on the present connection of its client (`Asked`), and every task of
  the server ends in a message (`Working`, `Sent`).
* `Exclusive`, from `LeaseInv`: the count of a client is the number of leases
  it holds, an exclusive one is the only one, and each lease in creation or
  detachment has the one pending request that will end it (`Engaged`).
  Otherwise a late answer could free a lease that has been acquired again.
  `BoundInv` bounds the operations under way by the calls made.

**RemoteAgreementProofs** proves `Agreement`: when nothing is under way any more, client,
connection and live session have the same view of who is attached, and those are the
clients with an active lease, unless a connection met one of the known gaps. The state
at rest says nothing of how it came about, so the invariant has to say what will be believed while
things are still under way:

* `Attachments`: what a connection has in `sessionIds` and what the live session has in
  its connections are the same, but for connections that met a gap, and no request works for
  a session that is being disposed, except while the server closes;
* `Phases`: a client has one control request at a time, and the state of its leases
  tells which; before the session exists it has none to be stored (`Unstored`);
* `Links`: what is in work is pending, nothing in work has its response already (`Once`), and a
  response says what was the case when it was sent (`Proper`, `Right`);
* `Beliefs`: what the client will believe once it has handled all that is on its way
  (`Ends`), also when a snapshot that was taken earlier arrives later (`Later`). Snapshots
  replace one another by revision, so this rests on `Revisions`: in what order numbers are given
  out, listed and sent.

A step of the server is reduced to one description (`Serving`) of what it may send and change, a
step of a client to another (`ClientDoes`); each invariant is kept by both. At
rest nothing is on its way, and what will be believed is what is believed.

**SessionManagerProofs** proves `Intact` and `OneEntryPerFault` for any types of
entries and any number of entries, moves and faults. The invariant `SInv` adds to `TypeOK`

* `Grown`: an entry is younger than its parent and no id is above `lastId`, in
  memory and (`FileGrown`) in the file. It is what makes a walk to the root end: the
  recursive function of `getBranch()` exists because of it (`WalkExists`, by `NatInd`), and
  from the function follows that a branch consists of entries of the tree in the order of
  their ids (`BranchFacts`), so that the path of a fork, chained anew and
  with its labels behind it, is a tree again (`BranchedFacts`);
* `FaultFree`, which says of the file and the memory what `Intact` says of the
  memory: without a fault the file ends with a newline, is a header with the entries, and
  every entry comes after its parent, also while the process is dead. A fork reads the file,
  not the memory, and a restart trusts it;
* `Losses`: `OneEntryPerFault` for a file whose last line lacks its newline. Such
  a line has cost nothing yet, since it still parses, but the next write will destroy it, and
  the fault that left it pays for it in advance. Without `Losses` the property is not
  inductive;
* `Prepared`: what a compaction under way will write is well typed.

What a write may leave behind is described once, as a piece of its lines behind what is left
of the file (`Appended`), and every step that enters something uses that (`EnteredStep`).
`LinesAssumption` (a header is no entry, and no file is not a file without lines) is an
assumption of the encoding, not of the code.

Two facts about numbers are proved in the modules that count: the least element of a set of natural
numbers (`LeastNat`, from `WFMin` of WellFoundedInduction) and induction (`NatInd`). The
induction theorems of the library take an operator as a parameter and cannot be used
by the provers installed; stated for a *set* of natural numbers they are first-order.

The assumptions are the named `...Assumption` of each module, which TLC
evaluates in every run.

*Model-checked only*:

* the liveness properties, which need fairness: `RunSettles`, `GuardReleased`,
  `AbortReturns`, `AbortEnds`, `MemoryProgress`;
* `DroppedIsSummarised`, `ResultsFollowCalls` and `ForkKeepsContext` of SessionManager: they
  compare two walks to the root, before and after a step, and the cut that `findCutPoint()`
  makes of one. `BranchFacts` says which entries a walk has, but not yet that it has all of
  them.

What `countChangedLines` and `countDelta` count is not compared with a definition of the longest common
subsequence; the properties of Mounts hold whatever natural number they give.

## 5. What was found

With a violation run and an entry under "findings":

* `compaction_history`: when the turn that is cut begins at the first entry the
  last compaction kept, `compact()` has no history to summarise, writes "No prior
  history." and drops the previous summary (compaction.ts:881), where
  docs/compaction.md:43 says that it is passed on. Two messages, a compaction
  that keeps the second, an answer, and a second compaction are enough.

The other gaps below were met while modelling. The models contain them, and the
properties name them as exceptions where they would otherwise fail.

*FileContentCache.* `evict()` removes one entry per store, so files unpinned
above the capacity keep the cache above it (file-cache.ts:124). It picks the
entry verified longest ago, which a hit does not refresh, where the comment
speaks of the least recently used.

*Agent and loop.* A listener that rejects during a parallel batch ends the run,
with `agent_end`, while sibling tools still have events to emit
(agent-loop.ts:592; the README of the package says that `agent_end` "means no more loop events will be emitted").
After an abort a parallel batch leaves started calls without an end, and the
steering queue is still polled.

*AgentSession and RPC.*

* The RPC guard looks only at prompts without `streamingBehavior`: with one of
  each in preflight both are answered with success and one is dropped
  (rpc-mode.ts:402).
* A retried error stays in the session; a compaction after an overflow brings
  it back, and the retry is refused by `agent.continue()` (agent-session.ts:2371).
* A prompt in preflight when `compact()` starts runs during the compaction,
  which then replaces the transcript under it (agent-session.ts:1300).
* Auto-compaction before a prompt runs while `isIdle` is true.
* Failed and aborted runs end with messages in the queues, where a comment says
  that the loop drains both before `agent_end`.
* While `abort()` waits, the driver goes on with queued messages.

*Mounts* (`rebased` and `clobbered` mark the first three and the fourth):

* `restorePlugins()` takes the last persisted hash for what the history shows
  ("假定历史锚点文本反映持久化 hash；磁盘已变时 delta 会按 hash 差产出"), but a scan that
  re-mounts a file persists the new hash and leaves the history (harness.ts:810).
* Reading a missing range after such a scan moves the anchor's hash although the
  anchor still shows old text of other ranges (harness.ts:1026).
* A file that got an earlier text back, and parallel reads that mount at
  different contents, move it too (harness.ts:955, :989).
* Parallel results write back the plugin they captured before their last await:
  lines of one increment are lost, a mount that a scan removed comes back, or a
  notice stays for good.
* Compaction and tree navigation take the anchor out of the conversation, and
  reads are still answered by a reference to it (not modelled).

*MemoryBatch.*

* A mount dropped during the last await of a batch is brought back
  (harness.ts:761; the comment at :750 rules that out), and a batch aborted there
  still commits. `task.removed` marks it.
* A batch commits the object it captured and so undoes an increment (:774).
* Batches already on the chain start after a shutdown that timed out
  (:1232: "不启动任何新模型调用").
* Map writes are not ordered: an older one may land last; and entries that a
  session only loaded overwrite newer ones of other sessions
  (persist.ts:90: "任何会话写都不得覆盖他人沉淀"). `contended` and the exceptions of
  `OthersKept` stand for these.

*SessionManager* (`forgotten` holds what the first two lose):

* Navigation is allowed during `compact()`: the compaction of one branch is
  appended to another, whose entries the model is then no longer shown
  (agent-session.ts:3088).
* A fork leaves labels out; when a label was the first entry a compaction kept
  (compaction.ts:465), nothing of what it kept is found again.
* A torn last line swallows the entry appended to it.
* A first write that fails leaves a file that every later "wx" refuses, so the
  session is never saved again.
* Migration truncates the file before it writes it (not modelled).

*RemoteSessions* (`skewed` marks the connections concerned):

* The connection that opened a session is gone when it is open: `attach()`
  disposes it, and those who shared the opening attach to a disposed session
  (sessions.ts:309).
* A detach whose disposal fails is answered with an error although the
  connection is detached, and nobody is told (:89).
* An attach whose snapshot fails is answered with an error and stays attached (:76).
* The second snapshot of a handshake is numbered before it is listed and listed before it is
  sent; a lease taken on it may believe in an attachment that is gone
  (server.ts:238), also when the detachment came between the two.
* `createSession()` reserves its lease only when the response is there
  (client.ts:143; not modelled).

## 6. Not modelled, and plan

Not modelled, and worth it:

1. The queues shown to the UI beside the Agent's, matched by text
   (agent-session.ts:724).
2. Teardown and start of services when the session runtime replaces a session.
3. Migration of old session files; the file mutation queue; several files beyond
   the 64 of one scan.
4. The agent harness of `packages/agent/src/harness`, a second driver over the
   same loop with repositories of its own.
5. Several sessions per client and connection.

Worth proving next: `ForkKeepsContext` of SessionManager, from a lemma that a walk stays the same when
the tree grows; then `ResultsFollowCalls` and `DroppedIsSummarised`.

Out of reach or of no interest to these methods: providers and generated
catalogs, terminal rendering, text editing of files, export, desktop windows,
configuration formats; together they are most of the repository's lines.
`PROJECT.json` gives a reason for each part left out.
