---------------------------- MODULE AgentSession ----------------------------
(***************************************************************************)
(* AgentSession (packages/coding-agent/src/core/agent-session.ts) over the *)
(* Agent, with the prompt, steer, abort and compact commands of RPC mode   *)
(* (modes/rpc/rpc-mode.ts): the preflight of a prompt, the run it drives,  *)
(* what happens after a run (retry with backoff, compaction and retry,     *)
(* continuation for queued messages), settling, and the bash results that  *)
(* wait for it.                                                            *)
(*                                                                         *)
(* The Agent itself is reduced to what AgentRun shows of it: one run at a  *)
(* time, queued messages reach the transcript, a run ends with an answer.  *)
(* A request is one message a caller sends; the request that starts a run  *)
(* drives it until the session settles.  Every await at which something    *)
(* else can happen is a step; the promise jobs between the last look at    *)
(* the queues and the settling (or the continuation) are one step, because *)
(* no I/O can be handled between them.                                     *)
(***************************************************************************)
EXTENDS Naturals, FiniteSets

CONSTANTS Requests, None,
          Modes,          \* how callers send messages, a subset of AllModes
          MaxRetries,     \* settings.retry.maxRetries; 0 is retry disabled
          Compactor,      \* a caller may use compact()
          MaxTurns,       \* bound: answers with tool calls
          MaxAborts,      \* bound: calls of abort(), abortRetry() and compact()
          MaxBash         \* bound: user bash commands

\* "initial": RPC prompt without streamingBehavior.  "behaviour": prompt with it.
\* "queue": steer and follow_up.  "custom": sendCustomMessage with triggerTurn.
AllModes == {"initial", "behaviour", "queue", "custom"}

ASSUME ConstantsAssumption ==
    /\ IsFiniteSet(Requests) /\ None \notin Requests
    /\ Modes \subseteq AllModes /\ Compactor \in BOOLEAN
    /\ MaxRetries \in Nat /\ MaxTurns \in Nat /\ MaxAborts \in Nat /\ MaxBash \in Nat

VARIABLES req,                  \* per request: where its async function is, what it was answered
          initialPromptInFlight,
          runActive,            \* _isAgentRunActive
          agent,                \* Agent.activeRun: who awaits it, its phase, its signal
          queued, delivered,    \* messages in the Agent's queues / in its transcript
          cleared,              \* history: messages handed back by clearQueue()
          lastMsg,              \* _lastAssistantMessage
          retryAttempt, overflowAttempted,
          tail, logTail,        \* assistant messages at the end of agent.state.messages / of the session
          retryCtl,             \* the request whose backoff holds _retryAbortController
          autoCtl,              \* _autoCompactionAbortController
          waiters,              \* who awaits _idleWaitPromise
          manual,               \* where compact() is
          bash,                 \* bash results: waiting for the run to end / in the transcript
          turns, aborts,        \* bounds
          rejected              \* history: requests whose run the Agent refused to start or continue

sessionVars == <<initialPromptInFlight, runActive>>
agentVars == <<agent, queued, delivered>>
retryVars == <<retryAttempt, retryCtl>>
compactVars == <<overflowAttempted, autoCtl>>
textVars == <<tail, logTail>>
outside == <<cleared, waiters, manual, turns, aborts>>
vars == <<req, sessionVars, agentVars, lastMsg, retryVars, compactVars, textVars, bash, outside, rejected>>

Answers == {"stop", "length", "overflow", "error", "fatal", "aborted"}
\* The answers with stopReason "error"; "error" is the retryable one.
Failures == {"error", "overflow", "fatal"}

Preflight == {"input", "auth", "check", "precompacting", "prerecovering", "hooks"}
Driving == {"running", "post", "checkRun", "sleeping", "cancelled", "compacting", "recovering"}
PCs == {"new", "handled", "done", "settling"} \cup Preflight \cup Driving

NoRun == [owner |-> None, phase |-> "idle", aborted |-> FALSE]

TypeOK ==
    /\ req \in [Requests -> [pc : PCs, mode : AllModes, msg : Answers \cup {"none"},
                             answer : {"none", "success", "error"}]]
    /\ initialPromptInFlight \in BOOLEAN /\ runActive \in BOOLEAN
    /\ agent \in [owner : Requests \cup {None}, phase : {"idle", "turns", "ended"}, aborted : BOOLEAN]
    /\ queued \subseteq Requests /\ delivered \subseteq Requests /\ cleared \subseteq Requests
    /\ lastMsg \in Answers \cup {"none"}
    /\ retryAttempt \in 0..MaxRetries /\ overflowAttempted \in BOOLEAN
    /\ tail \in Nat /\ logTail \in Nat
    /\ retryCtl \in Requests \cup {None} /\ autoCtl \in {"none", "live", "aborted"}
    /\ waiters \subseteq {"abort", "compact"}
    /\ manual \in {"free", "waiting", "compacting", "cancelled"}
    /\ bash \in [pending : 0..MaxBash, recorded : 0..MaxBash]
    /\ turns \in 0..MaxTurns /\ aborts \in 0..MaxAborts
    /\ rejected \subseteq Requests

Init ==
    /\ req = [r \in Requests |-> [pc |-> "new", mode |-> "initial", msg |-> "none", answer |-> "none"]]
    /\ initialPromptInFlight = FALSE /\ runActive = FALSE
    /\ agent = NoRun
    /\ queued = {} /\ delivered = {} /\ cleared = {}
    /\ lastMsg = "none" /\ retryAttempt = 0 /\ overflowAttempted = FALSE
    /\ tail = 0 /\ logTail = 0
    /\ retryCtl = None /\ autoCtl = "none"
    /\ waiters = {} /\ manual = "free"
    /\ bash = [pending |-> 0, recorded |-> 0]
    /\ turns = 0 /\ aborts = 0 /\ rejected = {}

\* Mutant: the Agent's own flag, which is down during retries and compaction.
isAgentRunning == agent.owner # None
isStreaming == runActive
hasQueuedMessages == queued # {}

\* The failed answer is taken off the transcript before a retry.
Trimmed(t) == IF t > 0 THEN t - 1 ELSE 0

Goto(r, pc) == req' = [req EXCEPT ![r].pc = pc]

-----------------------------------------------------------------------------
(* What the driver of a run does at its ends.  t and l are the tails of    *)
(* the transcript and of the session when it gets there.                   *)

\* _flushPendingBashMessages(): bash results end both the transcript and the session.
Flush(t, l) ==
    /\ bash' = [pending |-> 0, recorded |-> bash.recorded + bash.pending]
    /\ tail' = IF bash.pending > 0 THEN 0 ELSE t
    /\ logTail' = IF bash.pending > 0 THEN 0 ELSE l

\* Mutant: the flush is forgotten.
SettleUnflushed(r, t, l) ==
    /\ runActive' = FALSE
    /\ tail' = t /\ logTail' = l
    /\ Goto(r, "settling")
    /\ UNCHANGED <<agentVars, bash>>

\* The finally block of _runAgentPrompt, up to the await in _emitAgentSettled.
Settle(r, t, l) ==
    /\ Flush(t, l)
    /\ runActive' = FALSE
    /\ Goto(r, "settling")
    /\ UNCHANGED agentVars

\* The Agent starts a run for r with the messages S as prompts (none: it goes on
\* from the transcript).
Started(r, S, l) ==
    /\ agent' = [owner |-> r, phase |-> "turns", aborted |-> FALSE]
    /\ delivered' = delivered \cup S
    /\ queued' = queued \ S
    /\ tail' = 0
    /\ logTail' = IF S = {} THEN l ELSE 0
    /\ Goto(r, "running")
    /\ UNCHANGED <<runActive, bash>>

\* agent.continue(): from an assistant message only with queued messages.
CanContinue(t) == agent.owner = None /\ (t > 0 => hasQueuedMessages)

Continue(r, t, l) ==
    \/ /\ CanContinue(t)
       /\ \E S \in IF t > 0 THEN SUBSET queued \ {{}} ELSE {{}} : Started(r, S, l)
       /\ UNCHANGED rejected
    \/ /\ ~CanContinue(t)
       /\ Settle(r, t, l)
       /\ rejected' = rejected \cup {r}

\* Mutant: messages queued after the last poll are left for the next prompt.
DecideToSettle(r, t, l) == Settle(r, t, l) /\ UNCHANGED rejected

\* The end of _handlePostAgentRun: one more run if messages are queued.
Decide(r, t, l) ==
    \/ hasQueuedMessages /\ Continue(r, t, l)
    \/ ~hasQueuedMessages /\ Settle(r, t, l) /\ UNCHANGED rejected

\* _runAgentPrompt(): agent.prompt() throws when a run is active.
RunAgentPrompt(r) ==
    \/ /\ agent.owner = None
       /\ runActive' = TRUE
       /\ agent' = [owner |-> r, phase |-> "turns", aborted |-> FALSE]
       /\ delivered' = delivered \cup {r}
       /\ tail' = 0 /\ logTail' = 0
       /\ overflowAttempted' = FALSE
       /\ UNCHANGED <<queued, bash, rejected>>
    \/ /\ agent.owner # None
       /\ Flush(tail, logTail)
       /\ runActive' = FALSE
       /\ rejected' = rejected \cup {r}
       /\ UNCHANGED <<agentVars, overflowAttempted>>

AfterStart == IF agent.owner = None THEN "running" ELSE "settling"

-----------------------------------------------------------------------------
(* A request: the RPC commands and AgentSession.prompt().                  *)

\* Mutant: only success releases the guard.
AnsweredHoldingGuard(r, pc, ok) ==
    /\ req' = [req EXCEPT ![r].pc = pc, ![r].answer = IF ok THEN "success" ELSE "error"]
    /\ initialPromptInFlight' = (initialPromptInFlight /\ ~(ok /\ req[r].mode = "initial"))

\* preflightResult(): the RPC answer; the guard is released either way.
Answered(r, pc, ok) ==
    /\ req' = [req EXCEPT ![r].pc = pc, ![r].answer = IF ok THEN "success" ELSE "error"]
    /\ initialPromptInFlight' = (initialPromptInFlight /\ req[r].mode # "initial")

\* Mutant: initial prompts are not serialised.
RejectsNone(m) == FALSE

\* The RPC handler and prompt() up to its first await.
Rejects(m) == m = "initial" /\ initialPromptInFlight

SubmitPrompt(r) ==
    /\ req[r].pc = "new"
    /\ \E m \in Modes \cap {"initial", "behaviour"} :
        \/ /\ Rejects(m) \/ manual \in {"compacting", "cancelled"}
           /\ req' = [req EXCEPT ![r] = [@ EXCEPT !.pc = "done", !.mode = m, !.answer = "error"]]
           /\ UNCHANGED initialPromptInFlight
        \/ /\ ~Rejects(m) /\ manual \in {"free", "waiting"}
           /\ req' = [req EXCEPT ![r] = [@ EXCEPT !.pc = "input", !.mode = m]]
           /\ initialPromptInFlight' = (initialPromptInFlight \/ m = "initial")
    /\ UNCHANGED <<runActive, agentVars, lastMsg, retryVars, compactVars, textVars, bash, outside, rejected>>

\* After the input event: handled by an extension, queued, refused, or on to preflight.
InputDone(r) ==
    /\ req[r].pc = "input"
    /\ \/ /\ Answered(r, "handled", TRUE)
          /\ UNCHANGED <<agentVars, textVars, bash>>
       \/ /\ isStreaming
          /\ req[r].mode = "initial"
          /\ Answered(r, "done", FALSE)
          /\ UNCHANGED <<agentVars, textVars, bash>>
       \/ /\ isStreaming
          /\ req[r].mode = "behaviour"
          /\ Answered(r, "done", TRUE)
          /\ queued' = queued \cup {r}
          /\ UNCHANGED <<agent, delivered, textVars, bash>>
       \/ /\ ~isStreaming
          /\ Flush(tail, logTail)
          /\ Goto(r, "auth")
          /\ UNCHANGED <<initialPromptInFlight, agentVars>>
    /\ UNCHANGED <<runActive, lastMsg, retryVars, compactVars, outside, rejected>>

AuthDone(r) ==
    /\ req[r].pc = "auth"
    /\ \/ Answered(r, "done", FALSE)
       \/ Goto(r, "check") /\ UNCHANGED initialPromptInFlight
    /\ UNCHANGED <<runActive, agentVars, lastMsg, retryVars, compactVars, textVars, bash, outside, rejected>>

\* _checkCompaction() before the prompt: how the last assistant message and the
\* context size compare with the limits is left open.
CheckBeforePrompt(r) ==
    /\ req[r].pc = "check"
    /\ \/ Goto(r, "hooks") /\ UNCHANGED <<compactVars, textVars>>
       \/ Goto(r, "precompacting") /\ autoCtl' = "live" /\ UNCHANGED <<overflowAttempted, textVars>>
       \/ /\ ~overflowAttempted
          /\ overflowAttempted' = TRUE
          /\ tail' = Trimmed(tail)
          /\ autoCtl' = "live"
          /\ Goto(r, "prerecovering")
          /\ UNCHANGED logTail
    /\ UNCHANGED <<sessionVars, agentVars, lastMsg, retryVars, bash, outside, rejected>>

\* After before_agent_start: the request is accepted and its run started.
StartRun(r) ==
    /\ req[r].pc = "hooks"
    /\ Answered(r, AfterStart, TRUE)
    /\ RunAgentPrompt(r)
    /\ UNCHANGED <<lastMsg, retryVars, autoCtl, outside>>

\* The RPC commands steer and follow_up, whether a run is active or not.
QueueMessage(r) ==
    /\ req[r].pc = "new" /\ "queue" \in Modes
    /\ req' = [req EXCEPT ![r] = [@ EXCEPT !.pc = "done", !.mode = "queue", !.answer = "success"]]
    /\ queued' = queued \cup {r}
    /\ UNCHANGED <<sessionVars, agent, delivered, lastMsg, retryVars, compactVars, textVars, bash, outside, rejected>>

\* sendCustomMessage() with triggerTurn.
CustomMessage(r) ==
    /\ req[r].pc = "new" /\ "custom" \in Modes
    /\ \/ /\ isStreaming
          /\ req' = [req EXCEPT ![r] = [@ EXCEPT !.pc = "done", !.mode = "custom", !.answer = "success"]]
          /\ queued' = queued \cup {r}
          /\ UNCHANGED <<runActive, agent, delivered, overflowAttempted, textVars, bash, rejected>>
       \/ /\ ~isStreaming
          /\ req' = [req EXCEPT ![r] = [@ EXCEPT !.pc = AfterStart, !.mode = "custom",
                                                   !.answer = IF agent.owner = None THEN "success" ELSE "error"]]
          /\ RunAgentPrompt(r)
    /\ UNCHANGED <<initialPromptInFlight, lastMsg, retryVars, autoCtl, outside>>

-----------------------------------------------------------------------------
(* The Agent's run, as AgentSession sees it through _handleAgentEvent.     *)

\* The loop takes messages from the queues at its polls, after an abort too.
Deliver ==
    /\ agent.phase = "turns"
    /\ \E S \in SUBSET queued \ {{}} :
        /\ delivered' = delivered \cup S
        /\ queued' = queued \ S
    /\ overflowAttempted' = FALSE
    /\ tail' = 0 /\ logTail' = 0
    /\ UNCHANGED <<req, sessionVars, agent, lastMsg, retryVars, autoCtl, bash, outside, rejected>>

\* An answer with tool calls, and their results.
Turn ==
    /\ agent.phase = "turns" /\ ~agent.aborted /\ turns < MaxTurns
    /\ turns' = turns + 1
    /\ lastMsg' = "stop"
    /\ retryAttempt' = 0 /\ overflowAttempted' = FALSE
    /\ tail' = 0 /\ logTail' = 0
    /\ UNCHANGED <<req, sessionVars, agentVars, retryCtl, autoCtl, bash, cleared, waiters, manual, aborts, rejected>>

\* The last answer of a run.  Failed and aborted runs end without another poll.
Answer(k) ==
    /\ agent.phase = "turns"
    /\ k = "aborted" => agent.aborted
    /\ k \in {"stop", "length"} => ~hasQueuedMessages
    /\ agent' = [agent EXCEPT !.phase = "ended"]
    /\ lastMsg' = k
    /\ retryAttempt' = IF k \in Failures THEN retryAttempt ELSE 0
    /\ overflowAttempted' = (overflowAttempted /\ k \in Failures \cup {"length"})
    /\ tail' = tail + 1 /\ logTail' = logTail + 1
    /\ UNCHANGED <<req, sessionVars, queued, delivered, retryCtl, autoCtl, bash, outside, rejected>>

\* Every tool of the last batch asks to terminate: the run ends without another answer.
Terminate ==
    /\ agent.phase = "turns" /\ lastMsg = "stop" /\ tail = 0 /\ ~hasQueuedMessages
    /\ agent' = [agent EXCEPT !.phase = "ended"]
    /\ UNCHANGED <<req, sessionVars, queued, delivered, lastMsg, retryVars, compactVars, textVars, bash, outside, rejected>>

\* The agent_end listeners are done; prompt() or continue() returns.
FinishRun ==
    /\ agent.phase = "ended"
    /\ Goto(agent.owner, "post")
    /\ agent' = NoRun
    /\ UNCHANGED <<sessionVars, queued, delivered, lastMsg, retryVars, compactVars, textVars, bash, outside, rejected>>

-----------------------------------------------------------------------------
(* _handlePostAgentRun(), _prepareRetry(), _checkCompaction().             *)

\* Mutant: one attempt too many.
RetriesOnceMore(m) == m = "error" /\ retryAttempt <= MaxRetries
Retries(m) == m = "error" /\ retryAttempt < MaxRetries

PostRun(r) ==
    /\ req[r].pc = "post"
    /\ lastMsg' = "none"
    /\ \/ /\ lastMsg = "none"
          /\ Settle(r, tail, logTail)
          /\ UNCHANGED retryVars
       \/ /\ Retries(lastMsg)
          /\ retryAttempt' = retryAttempt + 1
          /\ retryCtl' = r
          /\ tail' = Trimmed(tail)
          /\ req' = [req EXCEPT ![r].pc = "sleeping", ![r].msg = lastMsg]
          /\ UNCHANGED <<runActive, agentVars, bash, logTail>>
       \/ /\ lastMsg # "none" /\ ~Retries(lastMsg)
          /\ retryAttempt' = IF lastMsg \in Failures THEN 0 ELSE retryAttempt
          /\ req' = [req EXCEPT ![r].pc = "checkRun", ![r].msg = lastMsg]
          /\ UNCHANGED <<runActive, agentVars, bash, retryCtl, textVars>>
    /\ UNCHANGED <<initialPromptInFlight, compactVars, outside, rejected>>

\* The backoff is over: continue, or go on without a retry if it was cancelled.
EndSleep(r) ==
    /\ retryCtl' = None
    /\ \/ /\ req[r].pc = "sleeping"
          /\ Continue(r, tail, logTail)
          /\ overflowAttempted' = (overflowAttempted /\ delivered' = delivered)
          /\ UNCHANGED retryAttempt
       \/ /\ req[r].pc = "cancelled"
          /\ retryAttempt' = 0
          /\ Goto(r, "checkRun")
          /\ UNCHANGED <<runActive, agentVars, overflowAttempted, textVars, bash, rejected>>
    /\ UNCHANGED <<initialPromptInFlight, lastMsg, autoCtl, outside>>

\* Mutant: recovery is not limited to one attempt.
ChecksAgain(m) ==
    CASE m = "aborted" -> {"none"}
      [] m = "overflow" -> {"recover"}
      [] m = "length" -> {"none", "threshold", "recover"}
      [] OTHER -> {"none", "threshold"}

\* What _checkCompaction() may decide for an answer.
Checks(m) ==
    CASE m = "aborted" -> {"none"}
      [] m = "overflow" -> IF overflowAttempted THEN {"none"} ELSE {"recover"}
      [] m = "length" -> {"none", "threshold"} \cup IF overflowAttempted THEN {} ELSE {"recover"}
      [] OTHER -> {"none", "threshold"}

CheckRun(r) ==
    /\ req[r].pc = "checkRun"
    /\ \/ /\ "none" \in Checks(req[r].msg)
          /\ Decide(r, tail, logTail)
          /\ overflowAttempted' = (overflowAttempted /\ delivered' = delivered)
          /\ UNCHANGED autoCtl
       \/ /\ "threshold" \in Checks(req[r].msg)
          /\ autoCtl' = "live"
          /\ Goto(r, "compacting")
          /\ UNCHANGED <<runActive, agentVars, overflowAttempted, textVars, bash, rejected>>
       \/ /\ "recover" \in Checks(req[r].msg)
          /\ overflowAttempted' = TRUE
          /\ autoCtl' = "live"
          /\ tail' = Trimmed(tail)
          /\ Goto(r, "recovering")
          /\ UNCHANGED <<runActive, agentVars, logTail, bash, rejected>>
    /\ UNCHANGED <<initialPromptInFlight, lastMsg, retryVars, outside>>

\* The transcript is rebuilt from the session.  The cut keeps the end of it.
Kept == IF logTail = 0 THEN {0} ELSE 1..logTail

\* _runAutoCompaction(): it may fail, be cancelled, or find nothing to compact.
EndAutoCompaction(r) ==
    /\ autoCtl' = "none"
    /\ \/ /\ autoCtl = "live"
          /\ \E t \in Kept :
              \/ req[r].pc = "recovering" /\ Continue(r, Trimmed(t), 0)
              \/ req[r].pc = "compacting" /\ Decide(r, t, 0)
              \/ /\ req[r].pc \in {"precompacting", "prerecovering"}
                 /\ tail' = IF req[r].pc = "prerecovering" THEN Trimmed(t) ELSE t
                 /\ logTail' = 0
                 /\ Goto(r, "hooks")
                 /\ UNCHANGED <<runActive, agentVars, bash, rejected>>
       \/ req[r].pc \in {"recovering", "compacting"} /\ Decide(r, tail, logTail)
       \/ /\ req[r].pc \in {"precompacting", "prerecovering"}
          /\ Goto(r, "hooks")
          /\ UNCHANGED <<runActive, agentVars, textVars, bash, rejected>>
    /\ overflowAttempted' = (overflowAttempted /\ delivered' = delivered)
    /\ UNCHANGED <<initialPromptInFlight, lastMsg, retryVars, outside>>

\* Mutant: nobody resolves the idle wait.
SettledSilently(r) ==
    /\ req[r].pc = "settling"
    /\ Goto(r, "done")
    /\ UNCHANGED <<sessionVars, agentVars, lastMsg, retryVars, compactVars, textVars, bash, outside, rejected>>

\* The agent_settled handlers are done: whoever waits for idle goes on, unless
\* one of them has started a run.
Settled(r) ==
    /\ req[r].pc = "settling"
    /\ Goto(r, "done")
    /\ waiters' = IF isStreaming THEN waiters ELSE {}
    /\ UNCHANGED <<sessionVars, agentVars, lastMsg, retryVars, compactVars, textVars, bash, cleared, manual, turns, aborts, rejected>>

-----------------------------------------------------------------------------
(* Other callers: abort(), compact(), clearQueue(), abortCompaction(),     *)
(* user bash commands.                                                     *)

CancelSleep == req' = IF retryCtl # None THEN [req EXCEPT ![retryCtl].pc = "cancelled"] ELSE req

AbortRetry ==
    /\ retryCtl # None /\ CancelSleep
    /\ aborts < MaxAborts /\ aborts' = aborts + 1
    /\ UNCHANGED <<sessionVars, agentVars, lastMsg, retryVars, compactVars, textVars, bash, cleared, waiters, manual, turns, rejected>>

\* abortRetry() and agent.abort().
AbortCurrent ==
    /\ CancelSleep
    /\ agent' = [agent EXCEPT !.aborted = agent.owner # None]

\* abort(), which then waits for idle; compact() begins with it.
Abort ==
    /\ aborts < MaxAborts
    /\ aborts' = aborts + 1
    /\ AbortCurrent
    /\ waiters' = IF isStreaming THEN waiters \cup {"abort"} ELSE waiters
    /\ UNCHANGED <<sessionVars, queued, delivered, lastMsg, retryVars, compactVars, textVars, bash, cleared, manual, turns, rejected>>

Compact ==
    /\ Compactor /\ manual = "free" /\ aborts < MaxAborts
    /\ aborts' = aborts + 1
    /\ AbortCurrent
    /\ waiters' = IF isStreaming THEN waiters \cup {"compact"} ELSE waiters
    /\ manual' = IF isStreaming THEN "waiting" ELSE "compacting"
    /\ UNCHANGED <<sessionVars, queued, delivered, lastMsg, retryVars, compactVars, textVars, bash, cleared, turns, rejected>>

CompactAborted ==
    /\ manual = "waiting" /\ "compact" \notin waiters
    /\ manual' = "compacting"
    /\ UNCHANGED <<req, sessionVars, agentVars, lastMsg, retryVars, compactVars, textVars, bash, cleared, waiters, turns, aborts, rejected>>

\* Compaction succeeds and replaces agent.state.messages, or fails.
EndCompact ==
    /\ manual \in {"compacting", "cancelled"}
    /\ manual' = "free"
    /\ \/ manual = "compacting" /\ tail' \in Kept /\ logTail' = 0
       \/ UNCHANGED textVars
    /\ UNCHANGED <<req, sessionVars, agentVars, lastMsg, retryVars, compactVars, bash, cleared, waiters, turns, aborts, rejected>>

AbortCompaction ==
    /\ manual = "compacting" \/ autoCtl = "live"
    /\ manual' = IF manual = "compacting" THEN "cancelled" ELSE manual
    /\ autoCtl' = IF autoCtl = "live" THEN "aborted" ELSE autoCtl
    /\ UNCHANGED <<req, sessionVars, agentVars, lastMsg, retryVars, overflowAttempted, textVars, bash, cleared, waiters, turns, aborts, rejected>>

ClearQueue ==
    /\ hasQueuedMessages
    /\ cleared' = cleared \cup queued
    /\ queued' = {}
    /\ UNCHANGED <<req, sessionVars, agent, delivered, lastMsg, retryVars, compactVars, textVars, bash, waiters, manual, turns, aborts, rejected>>

\* Mutant: results go straight into the transcript.
RecordBashAtOnce ==
    /\ bash.pending + bash.recorded < MaxBash
    /\ bash' = [bash EXCEPT !.recorded = @ + 1]
    /\ tail' = 0 /\ logTail' = 0
    /\ UNCHANGED <<req, sessionVars, agentVars, lastMsg, retryVars, compactVars, outside, rejected>>

\* recordBashResult(): deferred while the session is streaming.
RecordBash ==
    /\ bash.pending + bash.recorded < MaxBash
    /\ \/ /\ isStreaming
          /\ bash' = [bash EXCEPT !.pending = @ + 1]
          /\ UNCHANGED textVars
       \/ /\ ~isStreaming
          /\ bash' = [bash EXCEPT !.recorded = @ + 1]
          /\ tail' = 0 /\ logTail' = 0
    /\ UNCHANGED <<req, sessionVars, agentVars, lastMsg, retryVars, compactVars, outside, rejected>>

-----------------------------------------------------------------------------
PromptStep(r) == InputDone(r) \/ AuthDone(r) \/ CheckBeforePrompt(r) \/ StartRun(r)
DriverStep(r) == PostRun(r) \/ EndSleep(r) \/ CheckRun(r) \/ EndAutoCompaction(r) \/ Settled(r)
Answering == \E k \in Answers : Answer(k)

Next ==
    \/ \E r \in Requests :
        SubmitPrompt(r) \/ QueueMessage(r) \/ CustomMessage(r) \/ PromptStep(r) \/ DriverStep(r)
    \/ Deliver \/ Turn \/ Answering \/ Terminate \/ FinishRun
    \/ Abort \/ AbortRetry \/ Compact \/ CompactAborted \/ EndCompact \/ AbortCompaction
    \/ ClearQueue \/ RecordBash

Spec == Init /\ [][Next]_vars

\* Hooks, credential lookups, backoff timers, summaries and listeners come back, and
\* the provider answers or fails.
Fairness ==
    /\ \A r \in Requests : WF_vars(PromptStep(r)) /\ WF_vars(DriverStep(r))
    /\ WF_vars(Answering) /\ WF_vars(FinishRun)

FairSpec == Spec /\ Fairness

-----------------------------------------------------------------------------
(* Properties.                                                             *)

\* isStreaming ("processing an agent run or post-run continuation") is never false
\* while the Agent has a run or a request is between the runs it drives.
IsStreamingTruthful ==
    agent.owner # None \/ (\E r \in Requests : req[r].pc \in Driving) => runActive

\* A prompt that was answered with success (and not handled by an extension) is in
\* the transcript, in a queue, or was handed back by clearQueue(): the answer is
\* sent before agent.prompt() is called, and an error after it is swallowed.
AcceptedReachesAgent ==
    \A r \in Requests : req[r].answer = "success" =>
        r \in delivered \cup queued \cup cleared \/ req[r].pc = "handled"

\* A bash result never lands in the transcript between the messages of a run, where
\* it could separate tool calls from their results.
BashDeferred == [][bash.recorded' # bash.recorded => agent.owner = None]_vars

\* A settled session has no bash result waiting: the flush at the end of a run is
\* reached on every way out of it.
BashFlushed == ~runActive => bash.pending = 0

\* A session settles clean, whichever way its last prompt ended (success, exhausted
\* retries, cancelled backoff, overflow): no message is left in the queues, what came
\* after the loop's last poll or was left by a failed or aborted run got a
\* continuation; no bash result waits; and the next prompt has its whole retry budget.
SettlesClean ==
    [][runActive /\ ~runActive' => queued = {} /\ bash.pending' = 0 /\ retryAttempt' = 0]_vars

\* The session comes to rest: retries, compact-and-retry and continuations end.
RunSettles == runActive ~> ~runActive

\* The RPC guard is released whatever becomes of the prompt that took it.
GuardReleased == initialPromptInFlight ~> ~initialPromptInFlight

\* abort(), and compact() which begins with it, get past their wait for idle, also
\* when a new run starts while the old one is settling.
AbortReturns == \A w \in {"abort", "compact"} : w \in waiters ~> w \notin waiters
=============================================================================
