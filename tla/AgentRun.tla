------------------------------ MODULE AgentRun ------------------------------
(***************************************************************************)
(* The Agent class (packages/agent/src/agent.ts) and the loop it drives    *)
(* (agent-loop.ts): prompt(), continue(), the steering and follow-up       *)
(* queues, abort(), the turns of a run with their provider request and     *)
(* tool batch, and the ways a run ends.  The loop is one async task; every *)
(* await at which a caller, the provider or a tool can act is a step.      *)
(*                                                                         *)
(* A user message is its kind and a serial number; an assistant message is *)
(* the number of its turn, how many tool calls it holds and its stop       *)
(* reason; a tool call is <<turn, index>>.                                 *)
(***************************************************************************)
EXTENDS Naturals, Sequences, FiniteSets, SequencesExt

CONSTANTS SteeringMode, FollowUpMode,   \* QueueMode of the two queues
          Parallel,                     \* toolExecution = "parallel"
          MaxCalls,                     \* bound: tool calls per assistant message
          MaxToolTurns,                 \* bound: answers with tool calls in a transcript
          MaxTurns,                     \* bound: answers received before the last run starts
          MaxSent,                      \* bound: user messages ever sent
          MayThrow                      \* listeners, hooks and stream functions may reject

Modes == {"all", "one-at-a-time"}

ASSUME ConstantsAssumption ==
    /\ SteeringMode \in Modes /\ FollowUpMode \in Modes
    /\ Parallel \in BOOLEAN /\ MayThrow \in BOOLEAN
    /\ MaxCalls \in Nat /\ MaxToolTurns \in Nat
    /\ MaxTurns \in Nat /\ MaxSent \in Nat

VARIABLES active,         \* Agent.activeRun is set
          aborted,        \* its AbortController has fired
          state,          \* Agent._state
          steeringQueue, followUpQueue,
          loop,           \* locals of runLoop() and of the tool batch it executes
          orphans,        \* tools still executing for a run that has failed
          sent, turns,    \* user messages sent, assistant messages received
          dropped,        \* history: messages cleared, or in flight when a run failed
          cutShort        \* history: turns whose batch an abort or a failure ended early

queues == <<steeringQueue, followUpQueue>>
hist == <<orphans, sent, turns, dropped, cutShort>>
vars == <<active, aborted, state, queues, loop, hist>>

UserKinds == {"prompt", "steer", "followUp"}
StopReasons == {"stop", "toolUse", "length", "error", "aborted"}

user(kind, k) == [role |-> kind, id |-> k, calls |-> 0, stop |-> "stop"]
assistant(t, n, stop) == [role |-> "assistant", id |-> t, calls |-> n, stop |-> stop]
toolResult(t, i) == [role |-> "toolResult", id |-> t, calls |-> i, stop |-> "stop"]

Message == [role : UserKinds \cup {"assistant", "toolResult"},
            id : Nat, calls : Nat, stop : StopReasons]

CallStatus == {"new", "preparing", "immediate", "prepared", "running", "done"}

NoTools == [n |-> 0, k |-> 1, st |-> <<>>, terminate |-> {}, parallel |-> FALSE]

PCs == {"idle", "start", "poll", "inject", "request", "streaming", "prepare", "dispatch",
        "execute", "results", "turnEnd", "pollSteering", "pollFollowUp", "failed", "end"}

AgentState == [messages : Seq(Message), isStreaming : BOOLEAN, streamingMessage : BOOLEAN,
               pendingToolCalls : SUBSET (Nat \X Nat), errorMessage : BOOLEAN]

Batch == [n : Nat, k : Nat, st : Seq(CallStatus), terminate : SUBSET Nat, parallel : BOOLEAN]

Loop == [pc : PCs, context : Seq(Message), pending : Seq(Message), prompts : Seq(Message),
         skipPoll : BOOLEAN, hasMore : BOOLEAN, tools : Batch]

BatchOK(b) == Len(b.st) = b.n /\ b.n <= MaxCalls /\ b.k \in 1..(b.n + 1)

TypeOK ==
    /\ active \in BOOLEAN /\ aborted \in BOOLEAN
    /\ state \in AgentState
    /\ steeringQueue \in Seq(Message) /\ followUpQueue \in Seq(Message)
    /\ loop \in Loop
    /\ BatchOK(loop.tools)
    /\ orphans \subseteq Nat \X Nat
    /\ sent \in 0..MaxSent /\ turns \in Nat
    /\ dropped \subseteq Nat /\ cutShort \subseteq Nat

IdleLoop == [pc |-> "idle", context |-> <<>>, pending |-> <<>>, prompts |-> <<>>,
             skipPoll |-> FALSE, hasMore |-> FALSE, tools |-> NoTools]

Init ==
    /\ active = FALSE /\ aborted = FALSE
    /\ state = [messages |-> <<>>, isStreaming |-> FALSE, streamingMessage |-> FALSE,
                pendingToolCalls |-> {}, errorMessage |-> FALSE]
    /\ steeringQueue = <<>> /\ followUpQueue = <<>>
    /\ loop = IdleLoop
    /\ orphans = {} /\ sent = 0 /\ turns = 0 /\ dropped = {} /\ cutShort = {}

----------------------------------------------------------------------------
(* PendingMessageQueue: what drain() returns and what it leaves.           *)

Drained(q, mode) ==
    IF mode = "all" \/ q = <<>> THEN q ELSE <<Head(q)>>

(* Mutant: one message taken and all cleared.                              *)
LeftNothing(q, mode) == <<>>

Left(q, mode) ==
    IF mode = "all" \/ q = <<>> THEN <<>> ELSE Tail(q)

Ids(q) == {q[i].id : i \in DOMAIN q}

LastRole == Last(state.messages).role

----------------------------------------------------------------------------
(* The Agent's public operations.  prompt() and continue() reject while a  *)
(* run is active.                                                          *)

(* runWithLifecycle() up to its first await: activeRun is set before the   *)
(* executor runs, so no second run can slip in.                            *)
Launch(prompts, skipPoll) ==
    /\ turns < MaxTurns
    /\ active' = TRUE /\ aborted' = FALSE
    /\ state' = [state EXCEPT !.isStreaming = TRUE, !.streamingMessage = FALSE,
                              !.errorMessage = FALSE]
    /\ loop' = [IdleLoop EXCEPT !.pc = "start", !.prompts = prompts, !.skipPoll = skipPoll,
                                !.context = state.messages \o prompts, !.hasMore = TRUE]

Prompt ==
    /\ ~ active
    /\ sent < MaxSent
    /\ sent' = sent + 1
    /\ Launch(<<user("prompt", sent + 1)>>, FALSE)
    /\ UNCHANGED <<queues, orphans, turns, dropped, cutShort>>

(* continue() from an assistant message drains a queue into a new run ...  *)
ContinueQueued ==
    /\ ~ active
    /\ state.messages # <<>> /\ LastRole = "assistant"
    /\ \/ /\ steeringQueue # <<>>
          /\ Launch(Drained(steeringQueue, SteeringMode), TRUE)
          /\ steeringQueue' = Left(steeringQueue, SteeringMode)
          /\ UNCHANGED followUpQueue
       \/ /\ steeringQueue = <<>> /\ followUpQueue # <<>>
          /\ Launch(Drained(followUpQueue, FollowUpMode), FALSE)
          /\ followUpQueue' = Left(followUpQueue, FollowUpMode)
          /\ UNCHANGED steeringQueue
    /\ UNCHANGED hist

(* ... and otherwise resumes from the transcript as it stands.             *)
ContinueTranscript ==
    /\ ~ active
    /\ state.messages # <<>> /\ LastRole # "assistant"
    /\ Launch(<<>>, FALSE)
    /\ UNCHANGED <<queues, hist>>

(* Mutant: the newest message goes first.                                  *)
steerFirst ==
    /\ sent < MaxSent
    /\ sent' = sent + 1
    /\ steeringQueue' = <<user("steer", sent + 1)>> \o steeringQueue
    /\ UNCHANGED <<active, aborted, state, followUpQueue, loop, orphans, turns, dropped, cutShort>>

steer ==
    /\ sent < MaxSent
    /\ sent' = sent + 1
    /\ steeringQueue' = Append(steeringQueue, user("steer", sent + 1))
    /\ UNCHANGED <<active, aborted, state, followUpQueue, loop, orphans, turns, dropped, cutShort>>

followUp ==
    /\ sent < MaxSent
    /\ sent' = sent + 1
    /\ followUpQueue' = Append(followUpQueue, user("followUp", sent + 1))
    /\ UNCHANGED <<active, aborted, state, steeringQueue, loop, orphans, turns, dropped, cutShort>>

clearAllQueues ==
    /\ steeringQueue \o followUpQueue # <<>>
    /\ steeringQueue' = <<>> /\ followUpQueue' = <<>>
    /\ dropped' = dropped \cup Ids(steeringQueue) \cup Ids(followUpQueue)
    /\ UNCHANGED <<active, aborted, state, loop, orphans, sent, turns, cutShort>>

abort ==
    /\ active /\ ~ aborted
    /\ aborted' = TRUE
    /\ UNCHANGED <<active, state, queues, loop, hist>>

(* The session drops a failed answer before it retries with continue()     *)
(* (_prepareRetry and _checkCompaction, between runs).                     *)
DropFailedAnswer ==
    /\ ~ active
    /\ state.messages # <<>> /\ LastRole = "assistant"
    /\ Last(state.messages).stop \in {"error", "length"}
    /\ state' = [state EXCEPT !.messages = Front(@)]
    /\ UNCHANGED <<active, aborted, queues, loop, hist>>

----------------------------------------------------------------------------
(* runAgentLoop() and runLoop(): from the prompts to the provider request. *)

At(p) == active /\ loop.pc = p

Push(m) == [state EXCEPT !.messages = Append(@, m), !.streamingMessage = FALSE]

EmitPrompt ==
    /\ At("start")
    /\ loop.prompts # <<>>
    /\ state' = Push(Head(loop.prompts))
    /\ loop' = [loop EXCEPT !.prompts = Tail(@)]
    /\ UNCHANGED <<active, aborted, queues, hist>>

PromptsEmitted ==
    /\ At("start")
    /\ loop.prompts = <<>>
    /\ loop' = [loop EXCEPT !.pc = "poll"]
    /\ UNCHANGED <<active, aborted, state, queues, hist>>

(* getSteeringMessages(): the first poll is skipped after continue().      *)
InitialPoll ==
    /\ At("poll")
    /\ IF loop.skipPoll
       THEN /\ loop' = [loop EXCEPT !.pc = "inject", !.skipPoll = FALSE]
            /\ UNCHANGED steeringQueue
       ELSE /\ loop' = [loop EXCEPT !.pc = "inject",
                                    !.pending = Drained(steeringQueue, SteeringMode)]
            /\ steeringQueue' = Left(steeringQueue, SteeringMode)
    /\ UNCHANGED <<active, aborted, state, followUpQueue, hist>>

(* Mutant: a queued message is announced but not sent to the provider.     *)
InjectUnsent ==
    /\ At("inject")
    /\ loop.pending # <<>>
    /\ state' = Push(Head(loop.pending))
    /\ loop' = [loop EXCEPT !.pending = Tail(@)]
    /\ UNCHANGED <<active, aborted, queues, hist>>

Inject ==
    /\ At("inject")
    /\ loop.pending # <<>>
    /\ state' = Push(Head(loop.pending))
    /\ loop' = [loop EXCEPT !.context = Append(@, Head(loop.pending)), !.pending = Tail(@)]
    /\ UNCHANGED <<active, aborted, queues, hist>>

Injected ==
    /\ At("inject")
    /\ loop.pending = <<>>
    /\ loop' = [loop EXCEPT !.pc = "request"]
    /\ UNCHANGED <<active, aborted, state, queues, hist>>

(* streamAssistantResponse().  Receive is the final message of the stream  *)
(* and what runLoop() makes of it.  The batch runs sequentially when one   *)
(* of its tools asks for it.                                               *)
Fatal == {"error", "aborted"}

AfterAnswer(n, stop) ==
    CASE stop \in Fatal -> "end"
      [] stop \notin Fatal /\ n = 0 -> "turnEnd"
      [] stop = "length" /\ n > 0 -> "results"
      [] OTHER -> "prepare"

(* Mutant: the batch counts its calls from zero.                           *)
NewToolsFromZero(n, stop, parallel) ==
    [n |-> n, k |-> 0, terminate |-> {}, parallel |-> parallel, st |-> [i \in 1..n |-> "new"]]

NewTools(n, stop, parallel) ==
    IF n = 0 \/ stop \in Fatal THEN NoTools
    ELSE [n |-> n, k |-> 1, terminate |-> {}, parallel |-> parallel,
          st |-> [i \in 1..n |-> IF stop = "length" THEN "done" ELSE "new"]]

Receive(n, stop, parallel) ==
    LET m == assistant(turns + 1, n, stop)
    IN  /\ turns' = turns + 1
        /\ state' = [Push(m) EXCEPT !.errorMessage = @ \/ stop \in Fatal]
        /\ loop' = [loop EXCEPT !.context = Append(@, m),
                                !.hasMore = FALSE,
                                !.pc = AfterAnswer(n, stop),
                                !.tools = NewTools(n, stop, parallel)]
        /\ UNCHANGED <<active, aborted, queues, orphans, sent, dropped, cutShort>>

(* A provider given a signal that has already fired answers "aborted".     *)
RequestAborted ==
    /\ At("request") /\ aborted
    /\ Receive(0, "aborted", FALSE)

RequestStarted ==
    /\ At("request") /\ ~ aborted
    /\ state' = [state EXCEPT !.streamingMessage = TRUE]
    /\ loop' = [loop EXCEPT !.pc = "streaming"]
    /\ UNCHANGED <<active, aborted, queues, hist>>

(* Tool calls already streamed stay in a message that ends in an error or  *)
(* an abort; an answer may complete although the signal has fired.         *)
ToolTurns ==
    {i \in DOMAIN loop.context : loop.context[i].role = "assistant" /\ loop.context[i].calls > 0}

Respond ==
    /\ At("streaming")
    /\ \E n \in 0..MaxCalls, stop \in {"stop", "toolUse", "length", "error"}, sequential \in BOOLEAN :
         /\ stop = "stop" => n = 0
         /\ stop = "toolUse" => n > 0
         /\ n > 0 => Cardinality(ToolTurns) < MaxToolTurns
         /\ sequential => stop = "toolUse"
         /\ Receive(n, stop, Parallel /\ ~ sequential)

(* Mutant: the provider is not given the signal.                           *)
RespondUnsignalled ==
    /\ At("streaming") /\ aborted /\ loop.context = <<>>
    /\ Receive(0, "aborted", FALSE)

RespondAborted ==
    /\ At("streaming") /\ aborted
    /\ \E n \in 0..MaxCalls : Receive(n, "aborted", FALSE)

----------------------------------------------------------------------------
(* executeToolCalls().  tools.k is the call the batch's own loop is at.    *)

Call(i) == <<turns, i>>

Started(calls) == [state EXCEPT !.pendingToolCalls = @ \cup {Call(i) : i \in calls}]

(* Mutant: no tool_execution_end for the call.                             *)
EndedSilently(i) == state

Ended(i) == [state EXCEPT !.pendingToolCalls = @ \ {Call(i)}]

(* tool_execution_start: for all calls at once in parallel mode, for the   *)
(* call at hand in sequential mode.                                        *)
StartTools ==
    LET calls == IF loop.tools.parallel THEN 1..loop.tools.n ELSE {loop.tools.k}
    IN  /\ At("prepare")
        /\ \A i \in calls : loop.tools.st[i] = "new"
        /\ state' = Started(calls)
        /\ loop' = [loop EXCEPT !.tools.st = [i \in DOMAIN @ |-> IF i \in calls THEN "preparing"
                                                                 ELSE @[i]]]
        /\ UNCHANGED <<active, aborted, queues, hist>>

(* prepareToolCall(): an unknown tool, invalid arguments, a block by       *)
(* beforeToolCall or an abort end the call at once with an error result.   *)
Prepare(i) ==
    /\ At("prepare")
    /\ loop.tools.st[i] = "preparing"
    /\ \E outcome \in {"immediate", "prepared"} :
         /\ aborted => outcome = "immediate"
         /\ loop' = [loop EXCEPT !.tools.st[i] = outcome]
    /\ UNCHANGED <<active, aborted, state, queues, hist>>

Settled == \A i \in 1..loop.tools.n : loop.tools.st[i] \notin {"new", "preparing"}

(* Parallel mode: the second loop ends immediate calls and collects the    *)
(* prepared ones, and stops where it sees the abort.                       *)
PreparedAll ==
    /\ loop.tools.parallel /\ At("prepare") /\ Settled
    /\ loop' = [loop EXCEPT !.pc = "dispatch"]
    /\ UNCHANGED <<active, aborted, state, queues, hist>>

Dispatch ==
    LET k == loop.tools.k
        last == aborted \/ k = loop.tools.n
    IN  /\ At("dispatch")
        /\ state' = IF loop.tools.st[k] = "immediate" THEN Ended(k) ELSE state
        /\ loop' = [loop EXCEPT
             !.tools.st[k] = IF @ = "immediate" THEN "done" ELSE "running",
             !.tools.k = IF last THEN 1 ELSE k + 1,
             !.pc = IF last THEN "execute" ELSE "dispatch"]
        /\ UNCHANGED <<active, aborted, queues, hist>>

(* Sequential mode: the call at hand runs, or ends at once.                *)
DispatchOne ==
    LET k == loop.tools.k
    IN  /\ ~ loop.tools.parallel /\ At("prepare")
        /\ loop.tools.st[k] \in {"immediate", "prepared"}
        /\ state' = IF loop.tools.st[k] = "immediate" THEN Ended(k) ELSE state
        /\ loop' = [loop EXCEPT
             !.tools.st[k] = IF @ = "immediate" THEN "done" ELSE "running",
             !.pc = "execute"]
        /\ UNCHANGED <<active, aborted, queues, hist>>

(* executePreparedToolCall() and finalizeExecutedToolCall(), up to         *)
(* tool_execution_end.  A result may ask to terminate the batch.           *)
ToolEnds(i) ==
    /\ At("execute")
    /\ loop.tools.st[i] = "running"
    /\ state' = Ended(i)
    /\ \E terminate \in BOOLEAN :
         loop' = [loop EXCEPT !.tools.st[i] = "done",
                              !.tools.terminate = IF terminate THEN @ \cup {i} ELSE @]
    /\ UNCHANGED <<active, aborted, queues, hist>>

(* Mutant: the batch goes on with the first tool that ends.                *)
ToolsEndedFirst ==
    /\ At("execute")
    /\ \E i \in 1..loop.tools.n : loop.tools.st[i] = "done"
    /\ loop' = [loop EXCEPT !.pc = "results"]
    /\ UNCHANGED <<active, aborted, state, queues, hist>>

ToolsEnded ==
    /\ At("execute")
    /\ \A i \in 1..loop.tools.n : loop.tools.st[i] # "running"
    /\ loop' = [loop EXCEPT !.pc = "results"]
    /\ UNCHANGED <<active, aborted, state, queues, hist>>

Finalized == {i \in 1..loop.tools.n : loop.tools.st[i] = "done"}

(* The result messages, in the order of the calls.  In sequential mode     *)
(* each is emitted right after its call and the abort is looked at then.   *)
EmitResult ==
    LET k == loop.tools.k
    IN  /\ At("results")
        /\ k \in Finalized
        /\ state' = Push(toolResult(turns, k))
        /\ loop' = [loop EXCEPT
             !.tools.k = k + 1,
             !.pc = IF loop.tools.parallel \/ aborted \/ Last(loop.context).stop = "length"
                       \/ k = loop.tools.n
                    THEN "results" ELSE "prepare"]
        /\ UNCHANGED <<active, aborted, queues, hist>>

(* shouldTerminateToolBatch(), and the results enter the loop's context.   *)
BatchDone ==
    LET k == loop.tools.k
        results == [i \in 1..(k - 1) |-> toolResult(turns, i)]
    IN  /\ At("results")
        /\ k \notin Finalized
        /\ loop' = [loop EXCEPT
             !.context = @ \o results,
             !.hasMore = ~ (results # <<>> /\ \A i \in 1..(k - 1) : i \in loop.tools.terminate),
             !.tools = NoTools,
             !.pc = "turnEnd"]
        /\ cutShort' = IF aborted /\ k <= loop.tools.n THEN cutShort \cup {turns} ELSE cutShort
        /\ UNCHANGED <<active, aborted, state, queues, orphans, sent, turns, dropped>>

----------------------------------------------------------------------------
(* The end of a turn and of a run.                                         *)

(* turn_end, prepareNextTurn() and shouldStopAfterTurn(): a stop leaves    *)
(* before the queues are polled.                                           *)
EndTurn ==
    /\ At("turnEnd")
    /\ \E stop \in BOOLEAN :
         loop' = [loop EXCEPT !.pc = IF stop THEN "end" ELSE "pollSteering"]
    /\ UNCHANGED <<active, aborted, state, queues, hist>>

PollSteering ==
    LET drained == Drained(steeringQueue, SteeringMode)
    IN  /\ At("pollSteering")
        /\ steeringQueue' = Left(steeringQueue, SteeringMode)
        /\ loop' = [loop EXCEPT
             !.pending = drained,
             !.pc = IF loop.hasMore \/ drained # <<>> THEN "inject" ELSE "pollFollowUp"]
        /\ UNCHANGED <<active, aborted, state, followUpQueue, hist>>

PollFollowUp ==
    LET drained == Drained(followUpQueue, FollowUpMode)
    IN  /\ At("pollFollowUp")
        /\ followUpQueue' = Left(followUpQueue, FollowUpMode)
        /\ loop' = [loop EXCEPT
             !.pending = drained,
             !.hasMore = TRUE,
             !.pc = IF drained # <<>> THEN "inject" ELSE "end"]
        /\ UNCHANGED <<active, aborted, state, steeringQueue, hist>>

(* A listener, a hook or the stream function rejects.  In a parallel batch *)
(* Promise.all gives up at once and the other tools keep running.          *)
RunFails ==
    /\ MayThrow /\ active
    /\ loop.pc \notin {"failed", "end"}
    /\ LET running == {i \in 1..loop.tools.n : loop.tools.st[i] = "running"}
       IN  IF loop.pc = "execute" /\ running # {}
           THEN \E i \in running : orphans' = orphans \cup {Call(j) : j \in running \ {i}}
           ELSE UNCHANGED orphans
    /\ dropped' = dropped \cup Ids(loop.pending) \cup Ids(loop.prompts)
    /\ cutShort' = IF loop.tools.n > 0 THEN cutShort \cup {turns} ELSE cutShort
    /\ loop' = [IdleLoop EXCEPT !.pc = "failed"]
    /\ UNCHANGED <<active, aborted, state, queues, sent, turns>>

(* handleRunFailure(): a closing message says how the run ended.           *)
HandleRunFailure ==
    /\ At("failed")
    /\ turns' = turns + 1
    /\ state' = [Push(assistant(turns + 1, 0, IF aborted THEN "aborted" ELSE "error"))
                   EXCEPT !.errorMessage = TRUE]
    /\ loop' = [loop EXCEPT !.pc = "end"]
    /\ UNCHANGED <<active, aborted, queues, orphans, sent, dropped, cutShort>>

(* agent_end has been emitted; finishRun() follows its listeners, and also *)
(* a second failure while the first is being reported.                     *)
FinishRun ==
    /\ At("end") \/ (MayThrow /\ At("failed"))
    /\ state' = [state EXCEPT !.isStreaming = FALSE, !.streamingMessage = FALSE,
                              !.pendingToolCalls = {}]
    /\ active' = FALSE /\ aborted' = FALSE
    /\ loop' = IdleLoop
    /\ UNCHANGED <<queues, hist>>

(* A tool of a failed run ends: processEvents() updates the state first    *)
(* and only then notices that there is no run.                             *)
OrphanEnds ==
    /\ \E o \in orphans :
         /\ orphans' = orphans \ {o}
         /\ state' = [state EXCEPT !.pendingToolCalls = @ \ {o}]
    /\ UNCHANGED <<active, aborted, queues, loop, sent, turns, dropped, cutShort>>

LoopStep ==
    \/ EmitPrompt \/ PromptsEmitted \/ InitialPoll \/ Inject \/ Injected
    \/ RequestAborted \/ RequestStarted
    \/ StartTools \/ PreparedAll \/ Dispatch \/ DispatchOne
    \/ \E i \in 1..loop.tools.n : Prepare(i)
    \/ ToolsEnded \/ EmitResult \/ BatchDone
    \/ EndTurn \/ PollSteering \/ PollFollowUp
    \/ HandleRunFailure \/ FinishRun

ToolStep == \E i \in 1..loop.tools.n : ToolEnds(i)

CallerStep ==
    \/ Prompt \/ ContinueQueued \/ ContinueTranscript
    \/ steer \/ followUp \/ clearAllQueues \/ abort \/ DropFailedAnswer

Next ==
    \/ LoopStep \/ ToolStep \/ CallerStep
    \/ Respond \/ RespondAborted
    \/ RunFails \/ OrphanEnds

(* The event loop runs what is ready.  A provider and a tool are only      *)
(* relied upon once the signal they were given has fired.                  *)
Fairness ==
    /\ WF_vars(LoopStep)
    /\ WF_vars(RespondAborted)
    /\ WF_vars(aborted /\ ToolStep)

Spec == Init /\ [][Next]_vars /\ Fairness

----------------------------------------------------------------------------
(* Properties.                                                             *)

IsUser(m) == m.role \in UserKinds

(* Where a user message can be, in the order in which it travels.          *)
Travel(queue) == state.messages \o loop.prompts \o loop.pending \o queue

(* No user message is lost or delivered twice: whatever prompt(), steer()  *)
(* or followUp() was given is at exactly one place - a queue, the hands of *)
(* the loop or the transcript - unless clearAllQueues() discarded it or a  *)
(* run failed while it held the message.                                   *)
OnePlace ==
    LET all == Travel(steeringQueue \o followUpQueue)
    IN  \A k \in 1..sent :
          Cardinality({i \in DOMAIN all : IsUser(all[i]) /\ all[i].id = k})
            = IF k \in dropped THEN 0 ELSE 1

(* Messages of one kind travel in the order in which they were sent,       *)
(* across runs, retries and both queue modes.                              *)
Ordered(s, kind) ==
    \A i, j \in DOMAIN s : i < j /\ s[i].role = kind /\ s[j].role = kind => s[i].id < s[j].id

SentOrder ==
    Ordered(Travel(steeringQueue), "steer") /\ Ordered(Travel(followUpQueue), "followUp")

(* Every user message is delivered once and in order: none is lost, none   *)
(* is delivered twice, and none overtakes another one of its kind.         *)
OnceInOrder == OnePlace /\ SentOrder

(* The loop works on its own copy of the transcript.  The copy it sends to *)
(* the provider is the one the session sees and persists.                  *)
ContextMirrorsTranscript ==
    At("request") \/ At("streaming") => loop.context = state.messages

(* What the loop sends to the provider answers every tool call: an         *)
(* assistant message is followed at once by the results of its calls, in   *)
(* the order of the calls and with none missing, unless an abort or a      *)
(* failure cut its batch short or its stream never completed.              *)
ResultsFollowCalls ==
    At("request") =>
      \A p \in DOMAIN loop.context :
        LET m == loop.context[p]
            following(i) == p + i \in DOMAIN loop.context /\ loop.context[p + i].role = "toolResult"
        IN  /\ m.role = "assistant" =>
                 \A i \in 1..m.calls :
                   \/ following(i) /\ loop.context[p + i] = toolResult(m.id, i)
                   \/ m.stop \in Fatal \/ m.id \in cutShort
            /\ m.role = "toolResult" =>
                 p > 1 /\ loop.context[p - 1] = IF m.calls = 1
                                                THEN assistant(m.id, loop.context[p - 1].calls,
                                                               loop.context[p - 1].stop)
                                                ELSE toolResult(m.id, m.calls - 1)

(* Until it is aborted, a run shows as pending exactly the tool calls that *)
(* have started and not ended; so none when it asks the provider again.    *)
PendingCallsAreReal ==
    active /\ ~ aborted /\ loop.pc \notin {"failed", "end"} =>
      state.pendingToolCalls =
        {Call(i) : i \in {j \in 1..loop.tools.n :
                            loop.tools.st[j] \in {"preparing", "immediate", "prepared", "running"}}}

(* abort() ends the run: providers and tools obey the signal they are      *)
(* given, and the loop never waits for anything else.                      *)
AbortEnds == (active /\ aborted) ~> ~ active
=============================================================================
