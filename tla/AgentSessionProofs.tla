------------------------- MODULE AgentSessionProofs -------------------------
(***************************************************************************)
(* Machine-checked facts about AgentSession, for any number of requests,   *)
(* retries, turns, aborts and bash commands.                               *)
(***************************************************************************)
EXTENDS AgentSession, TLAPS

(* The callers for whom the guard of RPC mode serialises prompts: initial  *)
(* prompts and queued messages.  (Prompts with a streaming behaviour and   *)
(* custom messages pass by the guard.)                                     *)
Serialised == Modes \subseteq {"initial", "queue"}

(* The bound on bash commands, as RecordBash keeps it.                     *)
BashBound == bash.pending + bash.recorded <= MaxBash

(* A prompt before its run holds the guard, and no other one is there.     *)
OnePrompt ==
    /\ \A r \in Requests : req[r].pc \in Preflight =>
           req[r].mode = "initial" /\ initialPromptInFlight
    /\ \A r, s \in Requests : req[r].pc \in Preflight /\ req[s].pc \in Preflight => r = s

(* It is past its look at isStreaming only when nothing runs.              *)
PromptAlone ==
    \A r \in Requests : req[r].pc \in Preflight \ {"input"} => ~runActive

(* One request drives the runs of the session.                             *)
OneDriver ==
    /\ \A r \in Requests : req[r].pc \in Driving => runActive
    /\ \A r, s \in Requests : req[r].pc \in Driving /\ req[s].pc \in Driving => r = s

(* The Agent's run is the one its driver awaits.                           *)
RunIsDriven ==
    /\ agent.phase = "idle" <=> agent.owner = None
    /\ \A r \in Requests : req[r].pc = "running" <=> agent.owner = r

(* A backoff that can be cancelled is one that is waited for.              *)
BackoffIsOwned ==
    retryCtl # None => req[retryCtl].pc \in {"sleeping", "cancelled"}

SerialInv ==
    /\ TypeOK
    /\ OnePrompt /\ PromptAlone /\ OneDriver /\ RunIsDriven /\ BackoffIsOwned

(* What a driver knows of the run that ended.                              *)
EndedRun ==
    /\ agent.phase = "ended" \/ (\E r \in Requests : req[r].pc = "post") => lastMsg # "none"
    /\ lastMsg \notin Failures \cup {"none"} => retryAttempt = 0
    /\ \A r \in Requests : req[r].pc \in {"checkRun", "compacting", "recovering"} => retryAttempt = 0

(* The transcript ends with one answer at most when a run ends, and with   *)
(* none while its retry waits: agent.continue() is not refused.            *)
OneAnswer ==
    /\ agent.phase = "turns" => tail = 0
    /\ agent.phase = "ended" \/ (\E r \in Requests : req[r].pc = "post") => tail <= 1
    /\ \A r \in Requests : req[r].pc = "sleeping" => tail = 0

(* With no compact() meanwhile, the retry budget is whole at rest.         *)
Settling ==
    /\ EndedRun /\ OneAnswer
    /\ manual = "free"
    /\ ~runActive => retryAttempt = 0
-----------------------------------------------------------------------------
(* Type correctness, for every way of sending messages.                    *)

Request == [pc : PCs, mode : AllModes, msg : Answers \cup {"none"},
            answer : {"none", "success", "error"}]

LEMMA RequestWith ==
    ASSUME NEW q \in Request, NEW pc \in PCs
    PROVE  /\ [q EXCEPT !.pc = pc] \in Request
           /\ \A a \in {"none", "success", "error"} : [q EXCEPT !.pc = pc, !.answer = a] \in Request
           /\ \A m \in Answers : [q EXCEPT !.pc = pc, !.msg = m] \in Request
           /\ \A m \in AllModes, a \in {"none", "success", "error"} :
                  [q EXCEPT !.pc = pc, !.mode = m, !.answer = a] \in Request
           /\ \A m \in AllModes : [q EXCEPT !.pc = pc, !.mode = m] \in Request
BY DEF Request

LEMMA Fields ==
    ASSUME TypeOK
    PROVE  /\ \A r \in Requests : /\ req[r].pc \in PCs /\ req[r].mode \in AllModes
                                  /\ req[r].msg \in Answers \cup {"none"}
                                  /\ req[r].answer \in {"none", "success", "error"}
           /\ agent.owner \in Requests \cup {None}
           /\ agent.phase \in {"idle", "turns", "ended"} /\ agent.aborted \in BOOLEAN
           /\ bash.pending \in Nat /\ bash.recorded \in Nat
BY ConstantsAssumption DEF TypeOK

(* Only the request r has changed, to q.                                   *)
LEMMA TypeReq ==
    ASSUME TypeOK, NEW r \in Requests, NEW q \in Request, req' = [req EXCEPT ![r] = q]
    PROVE  req' \in [Requests -> Request]
BY DEF TypeOK, Request

(* The parts that several actions share.                                   *)
LEMMA TypeGoto ==
    ASSUME TypeOK, NEW r \in Requests, NEW pc \in PCs, Goto(r, pc)
    PROVE  req' \in [Requests -> Request]
<1>1. req \in [Requests -> Request]
  BY DEF TypeOK, Request
<1>2. req' = [req EXCEPT ![r] = [req[r] EXCEPT !.pc = pc]]
  BY <1>1 DEF Goto
<1> QED
  BY <1>1, <1>2, TypeReq, RequestWith

LEMMA TypeFlush ==
    ASSUME TypeOK, BashBound, NEW t \in Nat, NEW l \in Nat, Flush(t, l)
    PROVE  /\ bash' \in [pending : 0..MaxBash, recorded : 0..MaxBash] /\ BashBound'
           /\ tail' \in Nat /\ logTail' \in Nat
BY Fields, ConstantsAssumption DEF TypeOK, Flush, BashBound

Movers == /\ req' \in [Requests -> Request]
          /\ bash' \in [pending : 0..MaxBash, recorded : 0..MaxBash] /\ BashBound'
          /\ tail' \in Nat /\ logTail' \in Nat
          /\ runActive' \in BOOLEAN
          /\ agent' \in [owner : Requests \cup {None}, phase : {"idle", "turns", "ended"},
                         aborted : BOOLEAN]
          /\ queued' \subseteq Requests /\ delivered' \subseteq Requests

LEMMA TypeSettle ==
    ASSUME TypeOK, BashBound, NEW r \in Requests, NEW t \in Nat, NEW l \in Nat, Settle(r, t, l)
    PROVE  Movers
<1>1. "settling" \in PCs
  BY DEF PCs
<1> QED
  BY <1>1, TypeGoto, TypeFlush DEF TypeOK, Settle, Movers, agentVars

LEMMA TypeStarted ==
    ASSUME TypeOK, BashBound, NEW r \in Requests, NEW S \in SUBSET Requests, NEW l \in Nat,
           Started(r, S, l)
    PROVE  Movers
<1>1. "running" \in PCs
  BY DEF PCs, Driving
<1>2. req' \in [Requests -> Request]
  BY <1>1, TypeGoto DEF Started
<1> QED
  BY <1>2 DEF TypeOK, Started, Movers, BashBound

LEMMA TypeContinue ==
    ASSUME TypeOK, BashBound, NEW r \in Requests, NEW t \in Nat, NEW l \in Nat, Continue(r, t, l)
    PROVE  Movers /\ rejected' \subseteq Requests
<1>1. CASE CanContinue(t)
  <2>1. PICK S \in IF t > 0 THEN SUBSET queued \ {{}} ELSE {{}} : Started(r, S, l)
    BY <1>1 DEF Continue
  <2>2. S \in SUBSET Requests
    BY DEF TypeOK
  <2> QED
    BY <1>1, <2>1, <2>2, TypeStarted DEF Continue, TypeOK
<1>2. CASE ~CanContinue(t)
  BY <1>2, TypeSettle DEF Continue, TypeOK
<1> QED
  BY <1>1, <1>2

LEMMA TypeDecide ==
    ASSUME TypeOK, BashBound, NEW r \in Requests, NEW t \in Nat, NEW l \in Nat, Decide(r, t, l)
    PROVE  Movers /\ rejected' \subseteq Requests
BY TypeContinue, TypeSettle DEF Decide, TypeOK

LEMMA TypeAnswered ==
    ASSUME TypeOK, NEW r \in Requests, NEW pc \in PCs, NEW ok \in BOOLEAN, Answered(r, pc, ok)
    PROVE  /\ req' \in [Requests -> Request]
           /\ initialPromptInFlight' \in BOOLEAN
<1>1. initialPromptInFlight' \in BOOLEAN
  BY DEF TypeOK, Answered
<1>2. PICK a \in {"none", "success", "error"} : req' = [req EXCEPT ![r].pc = pc, ![r].answer = a]
  BY DEF Answered
<1>3. req \in [Requests -> Request]
  BY DEF TypeOK, Request
<1>4. req' = [req EXCEPT ![r] = [req[r] EXCEPT !.pc = pc, !.answer = a]]
  BY <1>2, <1>3
<1> QED
  BY <1>1, <1>3, <1>4, TypeReq, RequestWith

LEMMA TypeRunAgentPrompt ==
    ASSUME TypeOK, BashBound, NEW r \in Requests, RunAgentPrompt(r)
    PROVE  /\ bash' \in [pending : 0..MaxBash, recorded : 0..MaxBash] /\ BashBound'
           /\ tail' \in Nat /\ logTail' \in Nat
           /\ runActive' \in BOOLEAN /\ overflowAttempted' \in BOOLEAN
           /\ agent' \in [owner : Requests \cup {None}, phase : {"idle", "turns", "ended"},
                          aborted : BOOLEAN]
           /\ queued' \subseteq Requests /\ delivered' \subseteq Requests
           /\ rejected' \subseteq Requests
<1>1. CASE agent.owner = None
  <2>1. /\ runActive' = TRUE /\ overflowAttempted' = FALSE
        /\ agent' = [owner |-> r, phase |-> "turns", aborted |-> FALSE]
        /\ delivered' = delivered \cup {r}
        /\ tail' = 0 /\ logTail' = 0
        /\ UNCHANGED <<queued, bash, rejected>>
    BY <1>1 DEF RunAgentPrompt
  <2> QED
    BY <2>1 DEF TypeOK, BashBound
<1>2. CASE agent.owner # None
  <2>1. Flush(tail, logTail)
    BY <1>2 DEF RunAgentPrompt
  <2>2. /\ bash' \in [pending : 0..MaxBash, recorded : 0..MaxBash] /\ BashBound'
        /\ tail' \in Nat /\ logTail' \in Nat
    BY <2>1, TypeFlush DEF TypeOK
  <2> QED
    BY <1>2, <2>2 DEF RunAgentPrompt, TypeOK, agentVars
<1> QED
  BY <1>1, <1>2

LEMMA TypeInit == Init => TypeOK /\ BashBound
<1> SUFFICES ASSUME Init PROVE TypeOK /\ BashBound
  OBVIOUS
<1>1. [pc |-> "new", mode |-> "initial", msg |-> "none", answer |-> "none"] \in Request
  BY DEF Request, PCs, AllModes
<1>2. req \in [Requests -> Request]
  BY <1>1 DEF Init
<1>3. /\ agent \in [owner : Requests \cup {None}, phase : {"idle", "turns", "ended"},
                    aborted : BOOLEAN]
      /\ bash \in [pending : 0..MaxBash, recorded : 0..MaxBash] /\ BashBound
  BY ConstantsAssumption DEF Init, NoRun, BashBound
<1>4. retryAttempt \in 0..MaxRetries /\ turns \in 0..MaxTurns /\ aborts \in 0..MaxAborts
  BY ConstantsAssumption DEF Init
<1> QED
  BY <1>2, <1>3, <1>4 DEF Init, TypeOK, Request

(* The steps of a request before its run.                                  *)
LEMMA TypePromptSteps ==
    ASSUME TypeOK, BashBound, NEW r \in Requests,
           SubmitPrompt(r) \/ QueueMessage(r) \/ CustomMessage(r) \/ PromptStep(r)
    PROVE  TypeOK' /\ BashBound'
<1>0. req \in [Requests -> Request] /\ req[r] \in Request
  BY DEF TypeOK, Request
<1>1. {"done", "input", "handled", "auth", "check", "hooks", "precompacting", "prerecovering",
       "running", "settling"} \subseteq PCs
  BY DEF PCs, Preflight, Driving
<1>2. AfterStart \in PCs
  BY <1>1 DEF AfterStart
<1>3. ASSUME req' \in [Requests -> Request]
      PROVE  req' \in [Requests -> [pc : PCs, mode : AllModes, msg : Answers \cup {"none"},
                                    answer : {"none", "success", "error"}]]
  BY <1>3 DEF Request
<1>4. CASE SubmitPrompt(r)
  <2>1. PICK m \in Modes \cap {"initial", "behaviour"} :
           \/ /\ req' = [req EXCEPT ![r] = [@ EXCEPT !.pc = "done", !.mode = m, !.answer = "error"]]
              /\ UNCHANGED initialPromptInFlight
           \/ /\ req' = [req EXCEPT ![r] = [@ EXCEPT !.pc = "input", !.mode = m]]
              /\ initialPromptInFlight' = (initialPromptInFlight \/ m = "initial")
    BY <1>4 DEF SubmitPrompt
  <2>2. m \in AllModes
    BY DEF AllModes
  <2>3. [req[r] EXCEPT !.pc = "done", !.mode = m, !.answer = "error"] \in Request
    BY <1>0, <1>1, <2>2, RequestWith
  <2>4. [req[r] EXCEPT !.pc = "input", !.mode = m] \in Request
    BY <1>0, <1>1, <2>2, RequestWith
  <2>5. req' \in [Requests -> Request]
    BY <1>0, <2>1, <2>3, <2>4, TypeReq
  <2>6. initialPromptInFlight' \in BOOLEAN
    BY <2>1 DEF TypeOK
  <2>7. UNCHANGED <<runActive, agentVars, lastMsg, retryVars, compactVars, textVars, bash, outside,
                    rejected>>
    BY <1>4 DEF SubmitPrompt
  <2> QED
    BY <1>3, <2>5, <2>6, <2>7
    DEF TypeOK, BashBound, agentVars, retryVars, compactVars, textVars, outside
<1>5. CASE QueueMessage(r)
  <2>1. "queue" \in AllModes
    BY DEF AllModes
  <2>2. [req[r] EXCEPT !.pc = "done", !.mode = "queue", !.answer = "success"] \in Request
    BY <1>0, <1>1, <2>1, RequestWith
  <2>3. req' \in [Requests -> Request]
    BY <1>0, <1>5, <2>2, TypeReq DEF QueueMessage
  <2>4. /\ queued' = queued \cup {r}
        /\ UNCHANGED <<sessionVars, agent, delivered, lastMsg, retryVars, compactVars, textVars,
                       bash, outside, rejected>>
    BY <1>5 DEF QueueMessage
  <2> QED
    BY <1>3, <2>3, <2>4 DEF TypeOK, BashBound, sessionVars, retryVars, compactVars, textVars, outside
<1>6. CASE CustomMessage(r)
  <2>1. "custom" \in AllModes
    BY DEF AllModes
  <2>2. CASE /\ isStreaming
             /\ req' = [req EXCEPT ![r] = [@ EXCEPT !.pc = "done", !.mode = "custom",
                                                    !.answer = "success"]]
             /\ queued' = queued \cup {r}
             /\ UNCHANGED <<runActive, agent, delivered, overflowAttempted, textVars, bash, rejected>>
    <3>1. [req[r] EXCEPT !.pc = "done", !.mode = "custom", !.answer = "success"] \in Request
      BY <1>0, <1>1, <2>1, RequestWith
    <3>2. req' \in [Requests -> Request]
      BY <1>0, <2>2, <3>1, TypeReq
    <3> QED
      BY <1>3, <1>6, <2>2, <3>2 DEF TypeOK, BashBound, CustomMessage, retryVars, textVars, outside
  <2>3. CASE /\ req' = [req EXCEPT ![r] = [@ EXCEPT !.pc = AfterStart, !.mode = "custom",
                                  !.answer = IF agent.owner = None THEN "success" ELSE "error"]]
             /\ RunAgentPrompt(r)
    <3>1. [req[r] EXCEPT !.pc = AfterStart, !.mode = "custom",
                         !.answer = IF agent.owner = None THEN "success" ELSE "error"] \in Request
      BY <1>0, <1>2, <2>1, RequestWith
    <3>2. req' \in [Requests -> Request]
      BY <1>0, <2>3, <3>1, TypeReq
    <3> QED
      BY <1>3, <1>6, <2>3, <3>2, TypeRunAgentPrompt DEF TypeOK, CustomMessage, retryVars, outside
  <2> QED
    BY <1>6, <2>2, <2>3 DEF CustomMessage
<1>7. CASE InputDone(r)
  <2>1. CASE Answered(r, "handled", TRUE) /\ UNCHANGED <<agentVars, textVars, bash>>
    <3>1. req' \in [Requests -> Request] /\ initialPromptInFlight' \in BOOLEAN
      BY <1>1, <2>1, TypeAnswered
    <3> QED
      BY <1>3, <1>7, <2>1, <3>1 DEF TypeOK, BashBound, InputDone, agentVars, retryVars,
         compactVars, textVars, outside
  <2>2. CASE Answered(r, "done", FALSE) /\ UNCHANGED <<agentVars, textVars, bash>>
    <3>1. req' \in [Requests -> Request] /\ initialPromptInFlight' \in BOOLEAN
      BY <1>1, <2>2, TypeAnswered
    <3> QED
      BY <1>3, <1>7, <2>2, <3>1 DEF TypeOK, BashBound, InputDone, agentVars, retryVars,
         compactVars, textVars, outside
  <2>3. CASE /\ Answered(r, "done", TRUE)
             /\ queued' = queued \cup {r}
             /\ UNCHANGED <<agent, delivered, textVars, bash>>
    <3>1. req' \in [Requests -> Request] /\ initialPromptInFlight' \in BOOLEAN
      BY <1>1, <2>3, TypeAnswered
    <3> QED
      BY <1>3, <1>7, <2>3, <3>1 DEF TypeOK, BashBound, InputDone, retryVars,
         compactVars, textVars, outside
  <2>4. CASE /\ Flush(tail, logTail)
             /\ Goto(r, "auth")
             /\ UNCHANGED <<initialPromptInFlight, agentVars>>
    <3>1. req' \in [Requests -> Request]
      BY <1>1, <2>4, TypeGoto
    <3>2. /\ bash' \in [pending : 0..MaxBash, recorded : 0..MaxBash] /\ BashBound'
          /\ tail' \in Nat /\ logTail' \in Nat
      BY <2>4, TypeFlush DEF TypeOK
    <3> QED
      BY <1>3, <1>7, <2>4, <3>1, <3>2 DEF TypeOK, InputDone, agentVars, retryVars,
         compactVars, outside
  <2> QED
    BY <1>7, <2>1, <2>2, <2>3, <2>4 DEF InputDone
<1>8. CASE AuthDone(r)
  <2>1. req' \in [Requests -> Request] /\ initialPromptInFlight' \in BOOLEAN
    BY <1>1, <1>8, TypeAnswered, TypeGoto DEF AuthDone, TypeOK
  <2> QED
    BY <1>3, <1>8, <2>1 DEF TypeOK, BashBound, AuthDone, agentVars, retryVars, compactVars,
       textVars, outside
<1>9. CASE CheckBeforePrompt(r)
  <2>1. req' \in [Requests -> Request]
    BY <1>1, <1>9, TypeGoto DEF CheckBeforePrompt
  <2>2. tail' \in Nat /\ logTail' \in Nat
    BY <1>9 DEF CheckBeforePrompt, TypeOK, textVars, Trimmed
  <2>3. overflowAttempted' \in BOOLEAN /\ autoCtl' \in {"none", "live", "aborted"}
    BY <1>9 DEF CheckBeforePrompt, TypeOK, compactVars
  <2> QED
    BY <1>3, <1>9, <2>1, <2>2, <2>3 DEF TypeOK, BashBound, CheckBeforePrompt, sessionVars,
       agentVars, retryVars, outside
<1>10. CASE StartRun(r)
  <2>1. req' \in [Requests -> Request] /\ initialPromptInFlight' \in BOOLEAN
    BY <1>2, <1>10, TypeAnswered DEF StartRun
  <2>2. RunAgentPrompt(r)
    BY <1>10 DEF StartRun
  <2> QED
    BY <1>3, <1>10, <2>1, <2>2, TypeRunAgentPrompt DEF TypeOK, StartRun, retryVars, outside
<1> QED
  BY <1>4, <1>5, <1>6, <1>7, <1>8, <1>9, <1>10 DEF PromptStep

(* The steps of the Agent's run.                                           *)
LEMMA TypeRunSteps ==
    ASSUME TypeOK, BashBound, Deliver \/ Turn \/ Answering \/ Terminate \/ FinishRun
    PROVE  TypeOK' /\ BashBound'
<1>1. CASE Deliver
  BY <1>1 DEF TypeOK, BashBound, Deliver, sessionVars, retryVars, outside
<1>2. CASE Turn
  <2>1. turns' \in 0..MaxTurns /\ retryAttempt' \in 0..MaxRetries
    BY <1>2, ConstantsAssumption DEF TypeOK, Turn
  <2> QED
    BY <1>2, <2>1 DEF TypeOK, BashBound, Turn, sessionVars, agentVars, Answers
<1>3. CASE Answering
  <2>1. PICK k \in Answers : Answer(k)
    BY <1>3 DEF Answering
  <2>2. agent' \in [owner : Requests \cup {None}, phase : {"idle", "turns", "ended"},
                    aborted : BOOLEAN]
    BY <2>1 DEF TypeOK, Answer
  <2>3. tail' \in Nat /\ logTail' \in Nat /\ retryAttempt' \in 0..MaxRetries
    BY <2>1, ConstantsAssumption DEF TypeOK, Answer
  <2>4. overflowAttempted' \in BOOLEAN
    BY <2>1 DEF TypeOK, Answer
  <2> QED
    BY <2>1, <2>2, <2>3, <2>4 DEF TypeOK, BashBound, Answer, sessionVars, outside
<1>4. CASE Terminate
  BY <1>4 DEF TypeOK, BashBound, Terminate, sessionVars, retryVars, compactVars, textVars, outside
<1>5. CASE FinishRun
  <2>1. CASE agent.owner \in Requests
    <3>1. req' \in [Requests -> Request]
      BY <1>5, <2>1, TypeGoto DEF FinishRun, PCs, Driving
    <3> QED
      BY <1>5, <3>1 DEF TypeOK, BashBound, FinishRun, NoRun, Request, sessionVars, retryVars,
         compactVars, textVars, outside
  <2>2. CASE agent.owner \notin Requests
    <3>1. req' = req
      BY <1>5, <2>2 DEF FinishRun, Goto, TypeOK
    <3> QED
      BY <1>5, <3>1 DEF TypeOK, BashBound, FinishRun, NoRun, sessionVars, retryVars,
         compactVars, textVars, outside
  <2> QED
    BY <2>1, <2>2
<1> QED
  BY <1>1, <1>2, <1>3, <1>4, <1>5

(* The steps of the driver between runs.                                   *)
LEMMA TypeDriverSteps ==
    ASSUME TypeOK, BashBound, NEW r \in Requests, DriverStep(r)
    PROVE  TypeOK' /\ BashBound'
<1>0. req \in [Requests -> Request] /\ req[r] \in Request
  BY DEF TypeOK, Request
<1>1. {"sleeping", "checkRun", "compacting", "recovering", "hooks", "done"} \subseteq PCs
  BY DEF PCs, Preflight, Driving
<1>2. \A t \in Nat : Trimmed(t) \in Nat
  BY DEF Trimmed
<1>3. CASE PostRun(r)
  <2>1. CASE lastMsg = "none" /\ Settle(r, tail, logTail) /\ UNCHANGED retryVars
    <3>1. Movers
      BY <2>1, TypeSettle DEF TypeOK
    <3> QED
      BY <1>3, <2>1, <3>1 DEF Movers, TypeOK, Request, PostRun, retryVars, compactVars, outside,
         Settle, agentVars
  <2>2. CASE /\ Retries(lastMsg)
             /\ retryAttempt' = retryAttempt + 1
             /\ retryCtl' = r
             /\ tail' = Trimmed(tail)
             /\ req' = [req EXCEPT ![r].pc = "sleeping", ![r].msg = lastMsg]
             /\ UNCHANGED <<runActive, agentVars, bash, logTail>>
    <3>1. lastMsg \in Answers /\ retryAttempt' \in 0..MaxRetries
      BY <2>2, ConstantsAssumption DEF Retries, TypeOK, Answers
    <3>2. req' = [req EXCEPT ![r] = [req[r] EXCEPT !.pc = "sleeping", !.msg = lastMsg]]
      BY <1>0, <2>2
    <3>3. req' \in [Requests -> Request]
      BY <1>0, <1>1, <3>1, <3>2, RequestWith, TypeReq
    <3>4. /\ lastMsg' = "none"
          /\ UNCHANGED <<initialPromptInFlight, compactVars, outside, rejected>>
      BY <1>3 DEF PostRun
    <3>5. tail' \in Nat
      BY <1>2, <2>2 DEF TypeOK
    <3> QED
      BY <2>2, <3>1, <3>3, <3>4, <3>5 DEF TypeOK, Request, BashBound, compactVars, outside, agentVars
  <2>3. CASE /\ lastMsg # "none" /\ ~Retries(lastMsg)
             /\ retryAttempt' = IF lastMsg \in Failures THEN 0 ELSE retryAttempt
             /\ req' = [req EXCEPT ![r].pc = "checkRun", ![r].msg = lastMsg]
             /\ UNCHANGED <<runActive, agentVars, bash, retryCtl, textVars>>
    <3>1. lastMsg \in Answers /\ retryAttempt' \in 0..MaxRetries
      BY <2>3, ConstantsAssumption DEF TypeOK
    <3>2. req' = [req EXCEPT ![r] = [req[r] EXCEPT !.pc = "checkRun", !.msg = lastMsg]]
      BY <1>0, <2>3
    <3>3. req' \in [Requests -> Request]
      BY <1>0, <1>1, <3>1, <3>2, RequestWith, TypeReq
    <3>4. /\ lastMsg' = "none"
          /\ UNCHANGED <<initialPromptInFlight, compactVars, outside, rejected>>
      BY <1>3 DEF PostRun
    <3> QED
      BY <2>3, <3>1, <3>3, <3>4 DEF TypeOK, Request, BashBound, compactVars, outside, agentVars, textVars
  <2> QED
    BY <1>3, <2>1, <2>2, <2>3 DEF PostRun
<1>4. CASE EndSleep(r)
  <2>1. CASE /\ Continue(r, tail, logTail)
             /\ overflowAttempted' = (overflowAttempted /\ delivered' = delivered)
             /\ UNCHANGED retryAttempt
    <3>1. Movers /\ rejected' \subseteq Requests
      BY <2>1, TypeContinue DEF TypeOK
    <3>2. overflowAttempted' \in BOOLEAN
      BY <2>1 DEF TypeOK
    <3> QED
      BY <1>4, <2>1, <3>1, <3>2 DEF Movers, TypeOK, Request, EndSleep, outside
  <2>2. CASE /\ retryAttempt' = 0
             /\ Goto(r, "checkRun")
             /\ UNCHANGED <<runActive, agentVars, overflowAttempted, textVars, bash, rejected>>
    <3>1. req' \in [Requests -> Request] /\ retryAttempt' \in 0..MaxRetries
      BY <1>1, <2>2, TypeGoto, ConstantsAssumption
    <3> QED
      BY <1>4, <2>2, <3>1 DEF TypeOK, BashBound, Request, EndSleep, outside, agentVars, textVars
  <2> QED
    BY <1>4, <2>1, <2>2 DEF EndSleep
<1>5. CASE CheckRun(r)
  <2>1. CASE /\ Decide(r, tail, logTail)
             /\ overflowAttempted' = (overflowAttempted /\ delivered' = delivered)
             /\ UNCHANGED autoCtl
    <3>1. Movers /\ rejected' \subseteq Requests
      BY <2>1, TypeDecide DEF TypeOK
    <3>2. overflowAttempted' \in BOOLEAN
      BY <2>1 DEF TypeOK
    <3> QED
      BY <1>5, <2>1, <3>1, <3>2 DEF Movers, TypeOK, Request, CheckRun, outside, retryVars
  <2>2. CASE /\ autoCtl' = "live"
             /\ Goto(r, "compacting")
             /\ UNCHANGED <<runActive, agentVars, overflowAttempted, textVars, bash, rejected>>
    <3>1. req' \in [Requests -> Request]
      BY <1>1, <2>2, TypeGoto
    <3> QED
      BY <1>5, <2>2, <3>1 DEF TypeOK, BashBound, Request, CheckRun, outside, agentVars, textVars, retryVars
  <2>3. CASE /\ overflowAttempted' = TRUE
             /\ autoCtl' = "live"
             /\ tail' = Trimmed(tail)
             /\ Goto(r, "recovering")
             /\ UNCHANGED <<runActive, agentVars, logTail, bash, rejected>>
    <3>1. req' \in [Requests -> Request] /\ tail' \in Nat
      BY <1>1, <1>2, <2>3, TypeGoto DEF TypeOK
    <3> QED
      BY <1>5, <2>3, <3>1 DEF TypeOK, BashBound, Request, CheckRun, outside, agentVars, retryVars
  <2> QED
    BY <1>5, <2>1, <2>2, <2>3 DEF CheckRun
<1>6. CASE EndAutoCompaction(r)
  <2>1. Kept \subseteq Nat
    BY DEF Kept, TypeOK
  <2>2. Movers /\ rejected' \subseteq Requests
    <3>1. ASSUME NEW t \in Kept, Continue(r, Trimmed(t), 0)
          PROVE  Movers /\ rejected' \subseteq Requests
      <4>1. Trimmed(t) \in Nat
        BY <1>2, <2>1
      <4> QED
        BY <3>1, <4>1, TypeContinue
    <3>2. ASSUME NEW t \in Kept, Decide(r, t, 0)
          PROVE  Movers /\ rejected' \subseteq Requests
      BY <2>1, <3>2, TypeDecide
    <3>3. ASSUME NEW t \in Nat, tail' = t \/ tail' = Trimmed(t), logTail' \in Nat, Goto(r, "hooks"),
                 UNCHANGED <<runActive, agentVars, bash, rejected>>
          PROVE  Movers /\ rejected' \subseteq Requests
      <4>1. req' \in [Requests -> Request]
        BY <1>1, <3>3, TypeGoto
      <4>2. tail' \in Nat
        BY <1>2, <3>3
      <4> QED
        BY <3>3, <4>1, <4>2 DEF Movers, TypeOK, BashBound, agentVars
    <3>4. ASSUME Decide(r, tail, logTail)
          PROVE  Movers /\ rejected' \subseteq Requests
      BY <3>4, TypeDecide DEF TypeOK
    <3>5. CASE autoCtl = "live" /\ \E t \in Kept :
              \/ req[r].pc = "recovering" /\ Continue(r, Trimmed(t), 0)
              \/ req[r].pc = "compacting" /\ Decide(r, t, 0)
              \/ /\ req[r].pc \in {"precompacting", "prerecovering"}
                 /\ tail' = IF req[r].pc = "prerecovering" THEN Trimmed(t) ELSE t
                 /\ logTail' = 0
                 /\ Goto(r, "hooks")
                 /\ UNCHANGED <<runActive, agentVars, bash, rejected>>
      <4>1. PICK t \in Kept :
              \/ Continue(r, Trimmed(t), 0)
              \/ Decide(r, t, 0)
              \/ /\ tail' = t \/ tail' = Trimmed(t)
                 /\ logTail' = 0
                 /\ Goto(r, "hooks")
                 /\ UNCHANGED <<runActive, agentVars, bash, rejected>>
        BY <3>5
      <4>2. t \in Nat /\ 0 \in Nat
        BY <2>1
      <4> QED
        BY <3>1, <3>2, <3>3, <4>1, <4>2
    <3>6. CASE /\ Goto(r, "hooks")
               /\ UNCHANGED <<runActive, agentVars, textVars, bash, rejected>>
      <4>1. tail \in Nat /\ logTail \in Nat /\ tail' = tail /\ logTail' = logTail
        BY <3>6 DEF TypeOK, textVars
      <4> QED
        BY <3>3, <3>6, <4>1
    <3> QED
      BY <1>6, <3>4, <3>5, <3>6 DEF EndAutoCompaction
  <2>3. overflowAttempted' \in BOOLEAN
    BY <1>6 DEF EndAutoCompaction, TypeOK
  <2>4. /\ autoCtl' = "none"
        /\ UNCHANGED <<initialPromptInFlight, lastMsg, retryVars, outside>>
    BY <1>6 DEF EndAutoCompaction
  <2> QED
    BY <2>2, <2>3, <2>4 DEF Movers, TypeOK, Request, outside, retryVars
<1>7. CASE Settled(r)
  <2>1. req' \in [Requests -> Request]
    BY <1>1, <1>7, TypeGoto DEF Settled
  <2> QED
    BY <1>7, <2>1 DEF TypeOK, BashBound, Settled, Request, sessionVars, agentVars, retryVars,
       compactVars, textVars
<1> QED
  BY <1>3, <1>4, <1>5, <1>6, <1>7 DEF DriverStep

(* Other callers.                                                          *)
LEMMA TypeCallers ==
    ASSUME TypeOK, BashBound,
           \/ Abort \/ AbortRetry \/ Compact \/ CompactAborted \/ EndCompact
           \/ AbortCompaction \/ ClearQueue \/ RecordBash
    PROVE  TypeOK' /\ BashBound'
<1>1. ASSUME CancelSleep PROVE req' \in [Requests -> Request]
  <2>1. CASE retryCtl # None
    <3>1. retryCtl \in Requests /\ "cancelled" \in PCs
      BY <2>1 DEF TypeOK, PCs, Driving
    <3>2. Goto(retryCtl, "cancelled")
      BY <1>1, <2>1 DEF CancelSleep, Goto
    <3> QED
      BY <3>1, <3>2, TypeGoto
  <2>2. CASE retryCtl = None
    BY <1>1, <2>2 DEF CancelSleep, TypeOK, Request
  <2> QED
    BY <2>1, <2>2
<1>2. ASSUME AbortCurrent
      PROVE  agent' \in [owner : Requests \cup {None}, phase : {"idle", "turns", "ended"},
                         aborted : BOOLEAN]
  BY <1>2 DEF AbortCurrent, TypeOK
<1>3. CASE Abort
  <2>1. req' \in [Requests -> Request]
    BY <1>1, <1>3 DEF Abort, AbortCurrent
  <2>2. aborts' \in 0..MaxAborts /\ waiters' \subseteq {"abort", "compact"}
    BY <1>3, ConstantsAssumption DEF Abort, TypeOK
  <2> QED
    BY <1>2, <1>3, <2>1, <2>2 DEF Abort, TypeOK, BashBound, Request, sessionVars, retryVars,
       compactVars, textVars
<1>4. CASE AbortRetry
  <2>1. req' \in [Requests -> Request]
    BY <1>1, <1>4 DEF AbortRetry
  <2>2. aborts' \in 0..MaxAborts
    BY <1>4, ConstantsAssumption DEF AbortRetry, TypeOK
  <2> QED
    BY <1>4, <2>1, <2>2 DEF AbortRetry, TypeOK, BashBound, Request, sessionVars, agentVars,
       retryVars, compactVars, textVars
<1>5. CASE Compact
  <2>1. req' \in [Requests -> Request]
    BY <1>1, <1>5 DEF Compact, AbortCurrent
  <2>2. /\ aborts' \in 0..MaxAborts /\ waiters' \subseteq {"abort", "compact"}
        /\ manual' \in {"free", "waiting", "compacting", "cancelled"}
    BY <1>5, ConstantsAssumption DEF Compact, TypeOK
  <2> QED
    BY <1>2, <1>5, <2>1, <2>2 DEF Compact, TypeOK, BashBound, Request, sessionVars, retryVars,
       compactVars, textVars
<1>6. CASE CompactAborted
  BY <1>6 DEF CompactAborted, TypeOK, BashBound, sessionVars, agentVars, retryVars, compactVars,
     textVars
<1>7. CASE EndCompact
  <2>1. tail' \in Nat /\ logTail' \in Nat
    BY <1>7 DEF EndCompact, TypeOK, textVars, Kept
  <2> QED
    BY <1>7, <2>1 DEF EndCompact, TypeOK, BashBound, sessionVars, agentVars, retryVars, compactVars
<1>8. CASE AbortCompaction
  BY <1>8 DEF AbortCompaction, TypeOK, BashBound, sessionVars, agentVars, retryVars, textVars
<1>9. CASE ClearQueue
  BY <1>9 DEF ClearQueue, TypeOK, BashBound, sessionVars, retryVars, compactVars, textVars
<1>10. CASE RecordBash
  <2>1. bash' \in [pending : 0..MaxBash, recorded : 0..MaxBash] /\ BashBound'
    BY <1>10, Fields, ConstantsAssumption DEF RecordBash, TypeOK, BashBound
  <2>2. tail' \in Nat /\ logTail' \in Nat
    BY <1>10 DEF RecordBash, TypeOK, textVars
  <2> QED
    BY <1>10, <2>1, <2>2 DEF RecordBash, TypeOK, sessionVars, agentVars, retryVars, compactVars,
       outside
<1> QED
  BY <1>3, <1>4, <1>5, <1>6, <1>7, <1>8, <1>9, <1>10

LEMMA TypeUnchanged ==
    ASSUME TypeOK, BashBound, UNCHANGED vars
    PROVE  TypeOK' /\ BashBound'
BY DEF TypeOK, BashBound, vars, sessionVars, agentVars, retryVars, compactVars, textVars, outside

LEMMA TypeNext ==
    ASSUME TypeOK, BashBound, [Next]_vars
    PROVE  TypeOK' /\ BashBound'
BY TypePromptSteps, TypeRunSteps, TypeDriverSteps, TypeCallers, TypeUnchanged DEF Next

(* The state is well typed, for every way of sending messages: in          *)
(* particular the retries of a prompt never exceed maxRetries.             *)
THEOREM TypeCorrect == Spec => []TypeOK
<1>1. TypeOK /\ BashBound /\ [Next]_vars => (TypeOK /\ BashBound)'
  BY TypeNext
<1> QED
  BY <1>1, TypeInit, PTL DEF Spec

-----------------------------------------------------------------------------
(* Bash results, for every way of sending messages.                        *)

LEMMA FlushedNext ==
    ASSUME TypeOK, BashFlushed, [Next]_vars
    PROVE  BashFlushed'
<1>1. ASSUME NEW t, NEW l, Flush(t, l) PROVE bash'.pending = 0
  BY <1>1 DEF Flush
<1>2. ASSUME NEW r, NEW t, NEW l, Continue(r, t, l) \/ Settle(r, t, l) PROVE BashFlushed'
  BY <1>1, <1>2 DEF Continue, Settle, Started, BashFlushed
<1>3. ASSUME NEW r, NEW t, NEW l, Decide(r, t, l) PROVE BashFlushed'
  BY <1>2, <1>3 DEF Decide
<1>4. ASSUME NEW r, RunAgentPrompt(r) PROVE BashFlushed'
  BY <1>1, <1>4 DEF RunAgentPrompt, BashFlushed
<1>5. ASSUME UNCHANGED <<runActive, bash>> PROVE BashFlushed'
  BY <1>5 DEF BashFlushed
<1>6. ASSUME NEW r \in Requests, PromptStep(r) \/ CustomMessage(r) PROVE BashFlushed'
  <2>1. CASE InputDone(r)
    BY <1>1, <2>1 DEF InputDone, BashFlushed
  <2>2. CASE StartRun(r)
    BY <1>4, <2>2 DEF StartRun
  <2>3. CASE CustomMessage(r)
    BY <1>4, <1>5, <2>3 DEF CustomMessage
  <2> QED
    BY <1>5, <1>6, <2>1, <2>2, <2>3 DEF PromptStep, AuthDone, CheckBeforePrompt, sessionVars
<1>7. ASSUME NEW r \in Requests, DriverStep(r) PROVE BashFlushed'
  <2>1. CASE PostRun(r)
    BY <1>2, <1>5, <2>1 DEF PostRun
  <2>2. CASE EndSleep(r)
    BY <1>2, <1>5, <2>2 DEF EndSleep
  <2>3. CASE CheckRun(r)
    BY <1>3, <1>5, <2>3 DEF CheckRun
  <2>4. CASE EndAutoCompaction(r)
    BY <1>2, <1>3, <1>5, <2>4 DEF EndAutoCompaction
  <2>5. CASE Settled(r)
    BY <1>5, <2>5 DEF Settled, sessionVars
  <2> QED
    BY <1>7, <2>1, <2>2, <2>3, <2>4, <2>5 DEF DriverStep
<1>8. ASSUME RecordBash PROVE BashFlushed'
  BY <1>8, Fields DEF RecordBash, BashFlushed, isStreaming, sessionVars, TypeOK
<1>9. ASSUME NEW r \in Requests, SubmitPrompt(r) \/ QueueMessage(r) PROVE BashFlushed'
  BY <1>5, <1>9 DEF SubmitPrompt, QueueMessage, sessionVars
<1>10. ASSUME \/ Deliver \/ Turn \/ Answering \/ Terminate \/ FinishRun
              \/ Abort \/ AbortRetry \/ Compact \/ CompactAborted \/ EndCompact
              \/ AbortCompaction \/ ClearQueue \/ UNCHANGED vars
       PROVE  BashFlushed'
  BY <1>5, <1>10 DEF Deliver, Turn, Answering, Answer, Terminate, FinishRun, Abort, AbortRetry,
     Compact, CompactAborted, EndCompact, AbortCompaction, ClearQueue, vars, sessionVars
<1> QED
  BY <1>6, <1>7, <1>8, <1>9, <1>10 DEF Next

(* No bash result waits in a session that is not streaming, whichever way  *)
(* its runs ended and whoever sends messages meanwhile: every way out of   *)
(* _runAgentPrompt() flushes them.                                         *)
THEOREM BashIsFlushed == Spec => []BashFlushed
<1>1. Init => BashFlushed
  BY DEF Init, BashFlushed
<1>2. TypeOK /\ BashFlushed /\ [Next]_vars => BashFlushed'
  BY FlushedNext
<1> QED
  BY <1>1, <1>2, TypeCorrect, PTL DEF Spec

-----------------------------------------------------------------------------
(* What becomes of a driver that is between two runs.                      *)

Others(r) == \A s \in Requests \ {r} : req'[s] = req[s]

RunsOn(r) ==
    /\ Goto(r, "running")
    /\ agent' = [owner |-> r, phase |-> "turns", aborted |-> FALSE]
    /\ tail' = 0
    /\ delivered' \cup queued' = delivered \cup queued
    /\ UNCHANGED <<runActive, bash>>

Settles(r) ==
    /\ Goto(r, "settling")
    /\ runActive' = FALSE
    /\ bash'.pending = 0
    /\ UNCHANGED agentVars

LEMMA Moved ==
    ASSUME TypeOK, NEW r \in Requests, NEW pc, Goto(r, pc)
    PROVE  /\ req'[r].pc = pc /\ req'[r].mode = req[r].mode
           /\ req'[r].msg = req[r].msg /\ req'[r].answer = req[r].answer
           /\ Others(r)
BY DEF TypeOK, Goto, Others

LEMMA MovedAnswered ==
    ASSUME TypeOK, NEW r \in Requests, NEW pc, NEW ok \in BOOLEAN, Answered(r, pc, ok)
    PROVE  /\ req'[r].pc = pc /\ req'[r].mode = req[r].mode
           /\ req'[r].answer = IF ok THEN "success" ELSE "error"
           /\ Others(r)
           /\ initialPromptInFlight' = (initialPromptInFlight /\ req[r].mode # "initial")
BY DEF TypeOK, Answered, Others

LEMMA SettleEffect ==
    ASSUME TypeOK, NEW r \in Requests, NEW t, NEW l, Settle(r, t, l)
    PROVE  Settles(r)
BY DEF Settle, Settles, Flush

(* agent.continue() is refused only when nothing is queued.                *)
LEMMA ContinueEffect ==
    ASSUME TypeOK, agent.owner = None, NEW r \in Requests, NEW t \in Nat, NEW l, Continue(r, t, l)
    PROVE  /\ RunsOn(r) \/ (Settles(r) /\ queued = {})
           /\ t = 0 => RunsOn(r)
<1>1. CASE CanContinue(t)
  <2>1. PICK S \in IF t > 0 THEN SUBSET queued \ {{}} ELSE {{}} : Started(r, S, l)
    BY <1>1 DEF Continue
  <2>2. S \subseteq queued
    OBVIOUS
  <2>3. delivered' \cup queued' = delivered \cup queued
    BY <2>1, <2>2 DEF Started
  <2> QED
    BY <2>1, <2>3 DEF Started, RunsOn
<1>2. CASE ~CanContinue(t)
  <2>1. t > 0 /\ queued = {}
    BY <1>2 DEF CanContinue, hasQueuedMessages
  <2>2. Settles(r)
    BY <1>2, SettleEffect DEF Continue
  <2> QED
    BY <2>1, <2>2
<1> QED
  BY <1>1, <1>2

LEMMA DecideEffect ==
    ASSUME TypeOK, agent.owner = None, NEW r \in Requests, NEW t \in Nat, NEW l, Decide(r, t, l)
    PROVE  RunsOn(r) \/ (Settles(r) /\ queued = {})
BY ContinueEffect, SettleEffect DEF Decide, hasQueuedMessages

-----------------------------------------------------------------------------
(* Serialised callers: one prompt before its run, one driver of runs.      *)

LEMMA SerialInit == Init => SerialInv
<1> SUFFICES ASSUME Init PROVE SerialInv
  OBVIOUS
<1>1. \A r \in Requests : req[r].pc = "new"
  BY DEF Init
<1> QED
  BY <1>1, TypeInit, ConstantsAssumption
  DEF Init, SerialInv, OnePrompt, PromptAlone, OneDriver, RunIsDriven, BackoffIsOwned, NoRun,
      Preflight, Driving

(* Steps that move nobody.                                                 *)
LEMMA SerialKept ==
    ASSUME SerialInv, TypeOK', UNCHANGED <<req, initialPromptInFlight, runActive, retryCtl>>,
           agent'.owner = agent.owner, agent'.phase = "idle" <=> agent.phase = "idle"
    PROVE  SerialInv'
BY DEF SerialInv, OnePrompt, PromptAlone, OneDriver, RunIsDriven, BackoffIsOwned

(* Between its runs the driver is the only one.                            *)
LEMMA BetweenRuns ==
    ASSUME SerialInv, NEW r \in Requests, req[r].pc \in Driving \ {"running"}
    PROVE  /\ agent.owner = None /\ agent.phase = "idle" /\ runActive
           /\ \A s \in Requests \ {r} : req[s].pc \notin Driving
           /\ \A s \in Requests : req[s].pc \notin Preflight \ {"input"}
           /\ retryCtl \in {r, None}
<1>1. \A s \in Requests \ {r} : req[s].pc \notin Driving
  BY DEF SerialInv, OneDriver
<1>2. runActive
  BY DEF SerialInv, OneDriver
<1>3. "running" \in Driving /\ {"sleeping", "cancelled"} \subseteq Driving
  BY DEF Driving
<1>4. agent.owner \in Requests => req[agent.owner].pc = "running"
  BY DEF SerialInv, RunIsDriven
<1>5. agent.owner = None
  BY <1>1, <1>3, <1>4, Fields DEF SerialInv
<1>6. retryCtl \in {r, None}
  BY <1>1, <1>3 DEF SerialInv, BackoffIsOwned, TypeOK
<1> QED
  BY <1>1, <1>2, <1>5, <1>6 DEF SerialInv, RunIsDriven, PromptAlone

LEMMA SerialRunsOn ==
    ASSUME SerialInv, TypeOK', NEW r \in Requests, req[r].pc \in Driving \ {"running"}, RunsOn(r),
           retryCtl' = None \/ (retryCtl' = retryCtl /\ req[r].pc \notin {"sleeping", "cancelled"}),
           UNCHANGED initialPromptInFlight
    PROVE  SerialInv'
<1>1. /\ agent.owner = None /\ runActive /\ retryCtl \in {r, None}
      /\ \A s \in Requests \ {r} : req[s].pc \notin Driving
      /\ \A s \in Requests : req[s].pc \notin Preflight \ {"input"}
  BY BetweenRuns
<1>2. req'[r].pc = "running" /\ Others(r)
  BY Moved DEF RunsOn, SerialInv
<1>3. agent'.owner = r /\ agent'.phase = "turns" /\ runActive'
  BY <1>1 DEF RunsOn
<1>4. "running" \in Driving /\ "running" \notin Preflight
  BY DEF Driving, Preflight
<1>5. OnePrompt' /\ PromptAlone'
  BY <1>1, <1>2, <1>4 DEF SerialInv, OnePrompt, PromptAlone, Others
<1>6. OneDriver'
  BY <1>1, <1>2, <1>3 DEF OneDriver, Others
<1>7. RunIsDriven'
  BY <1>1, <1>2, <1>3, <1>4, ConstantsAssumption DEF RunIsDriven, Others
<1>8. BackoffIsOwned'
  BY <1>1, <1>2 DEF SerialInv, BackoffIsOwned, Others
<1> QED
  BY <1>5, <1>6, <1>7, <1>8 DEF SerialInv

LEMMA SerialSettles ==
    ASSUME SerialInv, TypeOK', NEW r \in Requests, req[r].pc \in Driving \ {"running"}, Settles(r),
           retryCtl' = None \/ (retryCtl' = retryCtl /\ req[r].pc \notin {"sleeping", "cancelled"}),
           UNCHANGED initialPromptInFlight
    PROVE  SerialInv'
<1>1. /\ agent.owner = None /\ agent.phase = "idle" /\ retryCtl \in {r, None}
      /\ \A s \in Requests \ {r} : req[s].pc \notin Driving
      /\ \A s \in Requests : req[s].pc \notin Preflight \ {"input"}
  BY BetweenRuns
<1>2. req'[r].pc = "settling" /\ Others(r)
  BY Moved DEF Settles, SerialInv
<1>3. agent' = agent /\ ~runActive'
  BY DEF Settles, agentVars
<1>4. "settling" \notin Driving /\ "settling" \notin Preflight /\ "running" \in Driving
  BY DEF Driving, Preflight
<1>5. OnePrompt' /\ PromptAlone'
  BY <1>1, <1>2, <1>4 DEF SerialInv, OnePrompt, PromptAlone, Others
<1>6. OneDriver' /\ RunIsDriven'
  BY <1>1, <1>2, <1>3, <1>4, ConstantsAssumption DEF OneDriver, RunIsDriven, Others
<1>7. BackoffIsOwned'
  BY <1>1, <1>2 DEF SerialInv, BackoffIsOwned, Others
<1> QED
  BY <1>5, <1>6, <1>7 DEF SerialInv

(* The driver goes from one place between runs to another.                 *)
LEMMA SerialMoves ==
    ASSUME SerialInv, TypeOK', NEW r \in Requests, req[r].pc \in Driving \ {"running"},
           req'[r].pc \in Driving \ {"running"}, Others(r),
           \/ retryCtl' = None
           \/ retryCtl' = r /\ req'[r].pc \in {"sleeping", "cancelled"}
           \/ retryCtl' = retryCtl /\ req[r].pc \notin {"sleeping", "cancelled"},
           UNCHANGED <<initialPromptInFlight, runActive, agent>>
    PROVE  SerialInv'
<1>1. /\ agent.owner = None /\ runActive /\ retryCtl \in {r, None}
      /\ \A s \in Requests \ {r} : req[s].pc \notin Driving
      /\ \A s \in Requests : req[s].pc \notin Preflight \ {"input"}
  BY BetweenRuns
<1>2. Driving \cap Preflight = {} /\ "running" \in Driving
  BY DEF Driving, Preflight
<1>3. OnePrompt' /\ PromptAlone'
  BY <1>1, <1>2 DEF SerialInv, OnePrompt, PromptAlone, Others
<1>4. OneDriver'
  BY <1>1, <1>2 DEF SerialInv, OneDriver, Others
<1>5. RunIsDriven'
  BY <1>1, <1>2, ConstantsAssumption DEF SerialInv, RunIsDriven, Others
<1>6. BackoffIsOwned'
  BY <1>1 DEF SerialInv, BackoffIsOwned, Others
<1> QED
  BY <1>3, <1>4, <1>5, <1>6 DEF SerialInv

(* A prompt goes on towards its run, or ends before it.                    *)
LEMMA SerialPrompt ==
    ASSUME SerialInv, TypeOK', NEW r \in Requests, req[r].pc \in Preflight, Others(r),
           req'[r].mode = req[r].mode,
           \/ /\ req'[r].pc \in Preflight /\ UNCHANGED initialPromptInFlight
              /\ req[r].pc = "input" => ~runActive
           \/ req'[r].pc \in {"handled", "done"},
           UNCHANGED <<runActive, agent, retryCtl>>
    PROVE  SerialInv'
<1>1. \A s \in Requests \ {r} : req[s].pc \notin Preflight
  BY DEF SerialInv, OnePrompt
<1>2. Driving \cap Preflight = {} /\ "running" \in Driving
  BY DEF Driving, Preflight
<1>3. req'[r].pc \notin Driving /\ req[r].pc \notin Driving
  BY <1>2 DEF Driving
<1>4. OnePrompt'
  BY <1>1 DEF SerialInv, OnePrompt, Others, Preflight
<1>5. PromptAlone'
  BY <1>1 DEF SerialInv, PromptAlone, Others, Preflight
<1>6. OneDriver' /\ RunIsDriven'
  BY <1>2, <1>3 DEF SerialInv, OneDriver, RunIsDriven, Others
<1>7. BackoffIsOwned'
  <2>1. retryCtl # r
    BY <1>3, Fields, ConstantsAssumption DEF SerialInv, BackoffIsOwned, Driving
  <2> QED
    BY <2>1 DEF SerialInv, BackoffIsOwned, Others, TypeOK
<1> QED
  BY <1>4, <1>5, <1>6, <1>7 DEF SerialInv

(* A prompt starts its run: the guard has kept all others away.            *)
LEMMA SerialStart ==
    ASSUME SerialInv, TypeOK', NEW r \in Requests, StartRun(r)
    PROVE  /\ SerialInv'
           /\ agent.owner = None /\ r \in delivered' /\ delivered \subseteq delivered'
           /\ req'[r].pc = "running" /\ Others(r) /\ agent'.phase = "turns"
           /\ tail' = 0 /\ UNCHANGED <<queued, bash>>
<1>1. req[r].pc = "hooks" /\ "hooks" \in Preflight \ {"input"}
  BY DEF StartRun, Preflight
<1>2. ~runActive /\ req[r].mode = "initial"
  BY <1>1 DEF SerialInv, PromptAlone, OnePrompt
<1>3. \A s \in Requests : req[s].pc \notin Driving
  BY <1>2 DEF SerialInv, OneDriver
<1>4. \A s \in Requests \ {r} : req[s].pc \notin Preflight
  BY <1>1 DEF SerialInv, OnePrompt
<1>5. "running" \in Driving /\ "running" \notin Preflight /\ {"sleeping", "cancelled"} \subseteq Driving
  BY DEF Driving, Preflight
<1>6. agent.owner = None
  BY <1>3, <1>5, Fields DEF SerialInv, RunIsDriven
<1>7. retryCtl = None
  BY <1>3, <1>5 DEF SerialInv, BackoffIsOwned, TypeOK
<1>8. /\ runActive' = TRUE
      /\ agent' = [owner |-> r, phase |-> "turns", aborted |-> FALSE]
      /\ delivered' = delivered \cup {r}
      /\ tail' = 0 /\ UNCHANGED <<queued, bash, retryCtl>>
  BY <1>6 DEF StartRun, RunAgentPrompt, retryVars
<1>9. req'[r].pc = "running" /\ req'[r].mode = "initial" /\ Others(r)
  BY <1>2, <1>6, MovedAnswered DEF StartRun, AfterStart, SerialInv
<1>10. OnePrompt' /\ PromptAlone'
  BY <1>4, <1>5, <1>9 DEF OnePrompt, PromptAlone, Others
<1>11. OneDriver'
  BY <1>3, <1>8, <1>9 DEF OneDriver, Others
<1>12. RunIsDriven'
  BY <1>3, <1>5, <1>8, <1>9, ConstantsAssumption DEF RunIsDriven, Others
<1>13. BackoffIsOwned'
  BY <1>7, <1>8 DEF BackoffIsOwned
<1> QED
  BY <1>6, <1>8, <1>9, <1>10, <1>11, <1>12, <1>13 DEF SerialInv

(* A message is sent: to be queued, or as a prompt that takes the guard.   *)
LEMMA SerialSent ==
    ASSUME Serialised, SerialInv, TypeOK', NEW r \in Requests, SubmitPrompt(r) \/ QueueMessage(r)
    PROVE  SerialInv' /\ Others(r) /\ req[r].pc = "new" /\ req'[r].pc \in {"done", "input"}
<1>0. req \in [Requests -> Request]
  BY DEF SerialInv, TypeOK, Request
<1>1. req[r].pc = "new" /\ UNCHANGED <<runActive, agent, retryCtl>>
  BY DEF SubmitPrompt, QueueMessage, sessionVars, agentVars, retryVars
<1>2. \/ /\ req'[r].pc = "done" /\ UNCHANGED initialPromptInFlight
      \/ /\ req'[r].pc = "input" /\ req'[r].mode = "initial"
         /\ ~initialPromptInFlight /\ initialPromptInFlight'
  <2>1. CASE QueueMessage(r)
    BY <1>0, <2>1 DEF QueueMessage, sessionVars
  <2>2. CASE SubmitPrompt(r)
    <3>1. PICK m \in Modes \cap {"initial", "behaviour"} :
           \/ /\ req' = [req EXCEPT ![r] = [@ EXCEPT !.pc = "done", !.mode = m, !.answer = "error"]]
              /\ UNCHANGED initialPromptInFlight
           \/ /\ ~Rejects(m)
              /\ req' = [req EXCEPT ![r] = [@ EXCEPT !.pc = "input", !.mode = m]]
              /\ initialPromptInFlight' = (initialPromptInFlight \/ m = "initial")
      BY <2>2 DEF SubmitPrompt
    <3>2. m = "initial"
      BY DEF Serialised
    <3>3. \/ req'[r].pc = "done" /\ UNCHANGED initialPromptInFlight
          \/ /\ ~Rejects(m) /\ req'[r].pc = "input" /\ req'[r].mode = m
             /\ initialPromptInFlight' = (initialPromptInFlight \/ m = "initial")
      <4> DEFINE D == [req[r] EXCEPT !.pc = "done", !.mode = m, !.answer = "error"]
                 I == [req[r] EXCEPT !.pc = "input", !.mode = m]
      <4>1. D.pc = "done" /\ I.pc = "input" /\ I.mode = m
        BY <1>0 DEF Request
      <4>2. \/ req'[r] = D /\ UNCHANGED initialPromptInFlight
            \/ /\ ~Rejects(m) /\ req'[r] = I
               /\ initialPromptInFlight' = (initialPromptInFlight \/ m = "initial")
        BY <1>0, <3>1
      <4> QED
        BY <4>1, <4>2
    <3> QED
      BY <3>2, <3>3, Zenon DEF Rejects
  <2> QED
    BY <2>1, <2>2
<1>3. Others(r)
  <2>1. CASE QueueMessage(r)
    BY <1>0, <2>1 DEF QueueMessage, Others
  <2>2. CASE SubmitPrompt(r)
    BY <1>0, <2>2 DEF SubmitPrompt, Others
  <2> QED
    BY <2>1, <2>2
<1>4. {"new", "done", "input"} \cap Driving = {} /\ {"new", "done"} \cap Preflight = {}
  BY DEF Driving, Preflight
<1>5. OnePrompt'
  BY <1>1, <1>2, <1>3, <1>4 DEF SerialInv, OnePrompt, Others
<1>6. PromptAlone'
  BY <1>1, <1>2, <1>3, <1>4 DEF SerialInv, PromptAlone, Others
<1>7. OneDriver' /\ RunIsDriven'
  BY <1>1, <1>2, <1>3, <1>4 DEF SerialInv, OneDriver, RunIsDriven, Others
<1>8. BackoffIsOwned'
  BY <1>1, <1>3 DEF SerialInv, BackoffIsOwned, Others, TypeOK
<1> QED
  BY <1>1, <1>2, <1>3, <1>5, <1>6, <1>7, <1>8 DEF SerialInv

LEMMA SerialPromptSteps ==
    ASSUME SerialInv, TypeOK', NEW r \in Requests, PromptStep(r)
    PROVE  SerialInv'
<1>1. CASE InputDone(r)
  <2>1. req[r].pc = "input" /\ "input" \in Preflight /\ "auth" \in Preflight
    BY <1>1 DEF InputDone, Preflight
  <2>2. Others(r) /\ req'[r].mode = req[r].mode
    BY <1>1, Moved, MovedAnswered DEF InputDone, SerialInv
  <2>3. \/ req'[r].pc \in {"handled", "done"}
        \/ req'[r].pc = "auth" /\ ~runActive /\ UNCHANGED initialPromptInFlight
    BY <1>1, Moved, MovedAnswered DEF InputDone, SerialInv, isStreaming
  <2>4. UNCHANGED <<runActive, agent, retryCtl>>
    BY <1>1 DEF InputDone, agentVars, retryVars
  <2> QED
    BY <2>1, <2>2, <2>3, <2>4, SerialPrompt
<1>2. CASE AuthDone(r)
  <2>1. req[r].pc = "auth" /\ {"auth", "check"} \subseteq Preflight
    BY <1>2 DEF AuthDone, Preflight
  <2>2. Others(r) /\ req'[r].mode = req[r].mode
    BY <1>2, Moved, MovedAnswered DEF AuthDone, SerialInv
  <2>3. req'[r].pc = "done" \/ (req'[r].pc = "check" /\ UNCHANGED initialPromptInFlight)
    BY <1>2, Moved, MovedAnswered DEF AuthDone, SerialInv
  <2>4. UNCHANGED <<runActive, agent, retryCtl>>
    BY <1>2 DEF AuthDone, agentVars, retryVars
  <2> QED
    BY <2>1, <2>2, <2>3, <2>4, SerialPrompt
<1>3. CASE CheckBeforePrompt(r)
  <2>1. /\ req[r].pc = "check"
        /\ {"check", "hooks", "precompacting", "prerecovering"} \subseteq Preflight
    BY <1>3 DEF CheckBeforePrompt, Preflight
  <2>2. /\ Others(r) /\ req'[r].mode = req[r].mode
        /\ req'[r].pc \in {"hooks", "precompacting", "prerecovering"}
    BY <1>3, Moved DEF CheckBeforePrompt, SerialInv
  <2>3. UNCHANGED <<runActive, agent, retryCtl, initialPromptInFlight>>
    BY <1>3 DEF CheckBeforePrompt, agentVars, retryVars, sessionVars
  <2> QED
    BY <2>1, <2>2, <2>3, SerialPrompt
<1>4. CASE StartRun(r)
  BY <1>4, SerialStart
<1> QED
  BY <1>1, <1>2, <1>3, <1>4 DEF PromptStep

LEMMA SerialFinishRun ==
    ASSUME SerialInv, TypeOK', FinishRun
    PROVE  /\ SerialInv'
           /\ agent.owner \in Requests /\ req'[agent.owner].pc = "post" /\ Others(agent.owner)
<1>1. agent.owner \in Requests
  BY Fields DEF FinishRun, SerialInv, RunIsDriven
<1> DEFINE r == agent.owner
<1>2. req[r].pc = "running"
  BY <1>1 DEF SerialInv, RunIsDriven
<1>3. req'[r].pc = "post" /\ Others(r)
  BY <1>1, Moved DEF FinishRun, SerialInv
<1>4. {"running", "post"} \subseteq Driving /\ Driving \cap Preflight = {}
  BY DEF Driving, Preflight
<1>5. /\ agent' = NoRun /\ UNCHANGED <<runActive, initialPromptInFlight, retryCtl>>
  BY DEF FinishRun, sessionVars, retryVars
<1>6. OnePrompt' /\ PromptAlone'
  BY <1>1, <1>3, <1>4, <1>5 DEF SerialInv, OnePrompt, PromptAlone, Others
<1>7. OneDriver'
  BY <1>1, <1>2, <1>3, <1>4, <1>5 DEF SerialInv, OneDriver, Others
<1>8. RunIsDriven'
  BY <1>1, <1>2, <1>3, <1>4, <1>5, ConstantsAssumption DEF SerialInv, OneDriver, RunIsDriven, Others, NoRun
<1>9. BackoffIsOwned'
  BY <1>1, <1>2, <1>3, <1>5 DEF SerialInv, BackoffIsOwned, Others, TypeOK
<1> QED
  BY <1>1, <1>3, <1>6, <1>7, <1>8, <1>9 DEF SerialInv

LEMMA SerialRunSteps ==
    ASSUME SerialInv, TypeOK', Deliver \/ Turn \/ Answering \/ Terminate \/ FinishRun
    PROVE  SerialInv'
<1>1. CASE Deliver \/ Turn
  BY <1>1, SerialKept DEF Deliver, Turn, sessionVars, retryVars, agentVars
<1>2. CASE Answering \/ Terminate
  <2>1. /\ agent.phase = "turns" /\ agent' = [agent EXCEPT !.phase = "ended"]
        /\ UNCHANGED <<req, initialPromptInFlight, runActive, retryCtl>>
    BY <1>2 DEF Answering, Answer, Terminate, sessionVars, retryVars
  <2>2. agent'.owner = agent.owner /\ agent'.phase = "ended"
    BY <2>1 DEF SerialInv, TypeOK
  <2> QED
    BY <2>1, <2>2, SerialKept
<1>3. CASE FinishRun
  BY <1>3, SerialFinishRun
<1> QED
  BY <1>1, <1>2, <1>3

(* The driver between runs: it settles only when nothing is queued.        *)
LEMMA SerialDriverSteps ==
    ASSUME SerialInv, TypeOK', NEW r \in Requests, DriverStep(r)
    PROVE  SerialInv'
<1>0. {"post", "sleeping", "cancelled", "checkRun", "compacting", "recovering"}
        \subseteq Driving \ {"running"}
  BY DEF Driving
<1>1. CASE PostRun(r)
  <2>1. req[r].pc = "post" /\ UNCHANGED initialPromptInFlight
    BY <1>1 DEF PostRun
  <2>2. CASE Settle(r, tail, logTail) /\ UNCHANGED retryVars
    BY <1>0, <2>1, <2>2, SettleEffect, SerialSettles DEF SerialInv, retryVars
  <2>3. CASE \/ /\ retryCtl' = r
                /\ req' = [req EXCEPT ![r].pc = "sleeping", ![r].msg = lastMsg]
                /\ UNCHANGED <<runActive, agentVars>>
             \/ /\ req' = [req EXCEPT ![r].pc = "checkRun", ![r].msg = lastMsg]
                /\ UNCHANGED <<runActive, agentVars, retryCtl>>
    <3>1. Others(r)
      BY <2>3 DEF Others, SerialInv, TypeOK
    <3>2. \/ retryCtl' = r /\ req'[r].pc = "sleeping"
          \/ retryCtl' = retryCtl /\ req'[r].pc = "checkRun"
      BY <2>3 DEF SerialInv, TypeOK
    <3>3. UNCHANGED <<runActive, agent>>
      BY <2>3 DEF agentVars
    <3> QED
      BY <1>0, <2>1, <3>1, <3>2, <3>3, SerialMoves
  <2> QED
    BY <1>1, <2>2, <2>3 DEF PostRun
<1>2. CASE EndSleep(r)
  <2>1. req[r].pc \in {"sleeping", "cancelled"} /\ retryCtl' = None /\ UNCHANGED initialPromptInFlight
    BY <1>2 DEF EndSleep
  <2>2. CASE Continue(r, tail, logTail)
    <3>1. agent.owner = None
      BY <1>0, <2>1, BetweenRuns
    <3>2. tail \in Nat
      BY DEF SerialInv, TypeOK
    <3> QED
      BY <1>0, <2>1, <2>2, <3>1, <3>2, ContinueEffect, SerialRunsOn, SerialSettles DEF SerialInv
  <2>3. CASE Goto(r, "checkRun") /\ UNCHANGED <<runActive, agentVars>>
    BY <1>0, <2>1, <2>3, Moved, SerialMoves DEF SerialInv, agentVars
  <2> QED
    BY <1>2, <2>2, <2>3 DEF EndSleep
<1>3. CASE CheckRun(r)
  <2>1. req[r].pc = "checkRun" /\ UNCHANGED <<initialPromptInFlight, retryCtl>>
    BY <1>3 DEF CheckRun, retryVars
  <2>2. CASE Decide(r, tail, logTail)
    <3>1. agent.owner = None
      BY <1>0, <2>1, BetweenRuns
    <3>2. tail \in Nat
      BY DEF SerialInv, TypeOK
    <3> QED
      BY <1>0, <2>1, <2>2, <3>1, <3>2, DecideEffect, SerialRunsOn, SerialSettles DEF SerialInv
  <2>3. CASE (Goto(r, "compacting") \/ Goto(r, "recovering")) /\ UNCHANGED <<runActive, agentVars>>
    BY <1>0, <2>1, <2>3, Moved, SerialMoves DEF SerialInv, agentVars
  <2> QED
    BY <1>3, <2>2, <2>3 DEF CheckRun
<1>4. CASE EndAutoCompaction(r)
  <2>1. UNCHANGED <<initialPromptInFlight, retryCtl>>
    BY <1>4 DEF EndAutoCompaction, retryVars
  <2>2. CASE req[r].pc \in {"recovering", "compacting"}
    <3>1. agent.owner = None
      BY <1>0, <2>2, BetweenRuns
    <3>2. PICK t \in Nat, l \in Nat : Continue(r, t, l) \/ Decide(r, t, l)
      <4>1. tail \in Nat /\ logTail \in Nat /\ Kept \subseteq Nat
        BY DEF SerialInv, TypeOK, Kept
      <4>2. \A t \in Kept : t \in Nat /\ Trimmed(t) \in Nat
        BY <4>1 DEF Trimmed
      <4> QED
        BY <1>4, <2>2, <4>1, <4>2 DEF EndAutoCompaction
    <3>3. RunsOn(r) \/ Settles(r)
      BY <3>1, <3>2, ContinueEffect, DecideEffect DEF SerialInv
    <3> QED
      BY <1>0, <2>1, <2>2, <3>3, SerialRunsOn, SerialSettles
  <2>3. CASE req[r].pc \in {"precompacting", "prerecovering"}
    <3>1. Goto(r, "hooks") /\ UNCHANGED <<runActive, agentVars>>
      BY <1>4, <2>3 DEF EndAutoCompaction
    <3>2. {"precompacting", "prerecovering", "hooks"} \subseteq Preflight
      BY DEF Preflight
    <3> QED
      BY <2>1, <2>3, <3>1, <3>2, Moved, SerialPrompt DEF SerialInv, agentVars
  <2> QED
    BY <1>4, <2>2, <2>3 DEF EndAutoCompaction
<1>5. CASE Settled(r)
  <2>1. req[r].pc = "settling" /\ req'[r].pc = "done" /\ Others(r)
    BY <1>5, Moved DEF Settled, SerialInv
  <2>2. UNCHANGED <<initialPromptInFlight, runActive, agent, retryCtl>>
    BY <1>5 DEF Settled, sessionVars, agentVars, retryVars
  <2>3. {"settling", "done"} \cap (Driving \cup Preflight) = {} /\ "running" \in Driving
    BY DEF Driving, Preflight
  <2>4. OnePrompt' /\ PromptAlone'
    BY <2>1, <2>2, <2>3 DEF SerialInv, OnePrompt, PromptAlone, Others
  <2>5. OneDriver' /\ RunIsDriven'
    BY <2>1, <2>2, <2>3 DEF SerialInv, OneDriver, RunIsDriven, Others
  <2>6. BackoffIsOwned'
    BY <2>1, <2>2 DEF SerialInv, BackoffIsOwned, Others, TypeOK
  <2> QED
    BY <2>4, <2>5, <2>6 DEF SerialInv
<1> QED
  BY <1>1, <1>2, <1>3, <1>4, <1>5 DEF DriverStep

LEMMA SerialCallers ==
    ASSUME SerialInv, TypeOK',
           \/ Abort \/ AbortRetry \/ Compact \/ CompactAborted \/ EndCompact
           \/ AbortCompaction \/ ClearQueue \/ RecordBash \/ UNCHANGED vars
    PROVE  SerialInv'
<1>1. ASSUME CancelSleep, agent'.owner = agent.owner, agent'.phase = agent.phase,
             UNCHANGED <<initialPromptInFlight, runActive, retryCtl>>
      PROVE  SerialInv'
  <2>1. CASE retryCtl = None
    BY <1>1, <2>1, SerialKept DEF CancelSleep
  <2>2. CASE retryCtl # None
    <3> DEFINE r == retryCtl
    <3>1. r \in Requests /\ req[r].pc \in {"sleeping", "cancelled"}
      BY <2>2 DEF SerialInv, BackoffIsOwned, TypeOK
    <3>2. req'[r].pc = "cancelled" /\ Others(r)
      BY <1>1, <2>2, <3>1, Moved DEF CancelSleep, Goto, SerialInv
    <3>3. {"sleeping", "cancelled"} \subseteq Driving \ {"running"} /\ Driving \cap Preflight = {}
      BY DEF Driving, Preflight
    <3>4. OnePrompt' /\ PromptAlone'
      BY <1>1, <3>1, <3>2, <3>3 DEF SerialInv, OnePrompt, PromptAlone, Others
    <3>5. OneDriver' /\ RunIsDriven'
      BY <1>1, <3>1, <3>2, <3>3 DEF SerialInv, OneDriver, RunIsDriven, Others
    <3>6. BackoffIsOwned'
      BY <1>1, <3>2 DEF BackoffIsOwned
    <3> QED
      BY <3>4, <3>5, <3>6 DEF SerialInv
  <2> QED
    BY <2>1, <2>2
<1>2. CASE Abort \/ Compact
  <2>1. CancelSleep /\ agent' = [agent EXCEPT !.aborted = agent.owner # None]
    BY <1>2 DEF Abort, Compact, AbortCurrent
  <2>2. agent'.owner = agent.owner /\ agent'.phase = agent.phase
    BY <2>1 DEF SerialInv, TypeOK
  <2> QED
    BY <1>1, <1>2, <2>1, <2>2 DEF Abort, Compact, sessionVars, retryVars
<1>3. CASE AbortRetry
  BY <1>1, <1>3 DEF AbortRetry, sessionVars, retryVars, agentVars
<1>4. CASE CompactAborted \/ EndCompact \/ AbortCompaction \/ ClearQueue \/ RecordBash \/ UNCHANGED vars
  BY <1>4, SerialKept DEF CompactAborted, EndCompact, AbortCompaction, ClearQueue, RecordBash, vars,
     sessionVars, agentVars, retryVars
<1> QED
  BY <1>2, <1>3, <1>4

LEMMA SerialNext ==
    ASSUME Serialised, SerialInv, TypeOK', [Next]_vars
    PROVE  SerialInv'
<1>1. \A r \in Requests : ~CustomMessage(r)
  BY DEF Serialised, CustomMessage
<1> QED
  BY <1>1, SerialSent, SerialPromptSteps, SerialRunSteps, SerialDriverSteps, SerialCallers DEF Next

LEMMA SerialAlways == ASSUME Serialised PROVE Spec => []SerialInv
<1>1. SerialInv /\ TypeOK' /\ [Next]_vars => SerialInv'
  BY SerialNext
<1> QED
  BY <1>1, SerialInit, TypeCorrect, PTL DEF Spec

(* isStreaming is never false while the Agent has a run or a request is    *)
(* between the runs it drives, when callers send prompts through the guard *)
(* of RPC mode: retries, compactions and continuations keep the flag up.   *)
THEOREM StreamingIsTruthful == ASSUME Serialised PROVE Spec => []IsStreamingTruthful
<1>1. SerialInv => IsStreamingTruthful
  <2> SUFFICES ASSUME SerialInv PROVE IsStreamingTruthful
    OBVIOUS
  <2>1. agent.owner # None => req[agent.owner].pc = "running" /\ agent.owner \in Requests
    BY Fields DEF SerialInv, RunIsDriven
  <2> QED
    BY <2>1 DEF SerialInv, OneDriver, IsStreamingTruthful, Driving
<1> QED
  BY <1>1, SerialAlways, PTL

-----------------------------------------------------------------------------
(* An accepted prompt reaches the Agent.                                   *)

LEMMA AcceptedMoved ==
    ASSUME TypeOK, AcceptedReachesAgent, NEW r \in Requests, Others(r),
           delivered \cup queued \cup cleared \subseteq delivered' \cup queued' \cup cleared',
           \/ req[r].pc # "handled" /\ req'[r].answer = req[r].answer
           \/ req'[r].answer # "success"
           \/ req'[r].pc = "handled"
           \/ r \in delivered' \cup queued'
    PROVE  AcceptedReachesAgent'
<1> SUFFICES ASSUME NEW s \in Requests, req'[s].answer = "success"
             PROVE  s \in delivered' \cup queued' \cup cleared' \/ req'[s].pc = "handled"
  BY DEF AcceptedReachesAgent
<1>1. CASE s = r
  BY <1>1 DEF AcceptedReachesAgent
<1>2. CASE s # r
  BY <1>2 DEF AcceptedReachesAgent, Others
<1> QED
  BY <1>1, <1>2

LEMMA AcceptedKept ==
    ASSUME AcceptedReachesAgent, UNCHANGED req,
           delivered \cup queued \cup cleared \subseteq delivered' \cup queued' \cup cleared'
    PROVE  AcceptedReachesAgent'
BY DEF AcceptedReachesAgent

(* A driver that goes on or settles loses no message.                      *)
LEMMA DriverKeeps ==
    ASSUME NEW r \in Requests, NEW t, NEW l,
           Continue(r, t, l) \/ Decide(r, t, l) \/ Settle(r, t, l)
    PROVE  /\ delivered' \cup queued' = delivered \cup queued
           /\ Goto(r, "running") \/ Goto(r, "settling")
<1>1. ASSUME Settle(r, t, l)
      PROVE  delivered' \cup queued' = delivered \cup queued /\ Goto(r, "settling")
  BY <1>1 DEF Settle, agentVars
<1>2. ASSUME Continue(r, t, l)
      PROVE  /\ delivered' \cup queued' = delivered \cup queued
             /\ Goto(r, "running") \/ Goto(r, "settling")
  <2>1. CASE CanContinue(t)
    <3>1. PICK S \in IF t > 0 THEN SUBSET queued \ {{}} ELSE {{}} : Started(r, S, l)
      BY <1>2, <2>1 DEF Continue
    <3>2. S \subseteq queued
      OBVIOUS
    <3> QED
      BY <3>1, <3>2 DEF Started
  <2>2. CASE ~CanContinue(t)
    BY <1>1, <1>2, <2>2 DEF Continue
  <2> QED
    BY <2>1, <2>2
<1> QED
  BY <1>1, <1>2 DEF Decide

LEMMA AcceptedDriverSteps ==
    ASSUME TypeOK, AcceptedReachesAgent, NEW r \in Requests, DriverStep(r)
    PROVE  AcceptedReachesAgent'
<1>1. UNCHANGED cleared /\ req[r].pc # "handled"
  BY DEF DriverStep, PostRun, EndSleep, CheckRun, EndAutoCompaction, Settled, outside
<1>2. ASSUME NEW pc, Goto(r, pc), delivered' \cup queued' = delivered \cup queued
      PROVE  AcceptedReachesAgent'
  BY <1>1, <1>2, Moved, AcceptedMoved
<1>3. ASSUME NEW t, NEW l, Continue(r, t, l) \/ Decide(r, t, l) \/ Settle(r, t, l)
      PROVE  AcceptedReachesAgent'
  BY <1>2, <1>3, DriverKeeps
<1>4. ASSUME NEW pc, Goto(r, pc), UNCHANGED agentVars
      PROVE  AcceptedReachesAgent'
  BY <1>2, <1>4 DEF agentVars
<1>5. CASE PostRun(r)
  <2>1. CASE Settle(r, tail, logTail)
    BY <1>3, <2>1
  <2>2. CASE /\ \/ req' = [req EXCEPT ![r].pc = "sleeping", ![r].msg = lastMsg]
                \/ req' = [req EXCEPT ![r].pc = "checkRun", ![r].msg = lastMsg]
             /\ UNCHANGED agentVars
    <3>1. req'[r].answer = req[r].answer /\ Others(r)
      BY <2>2 DEF TypeOK, Others
    <3> QED
      BY <1>1, <2>2, <3>1, AcceptedMoved DEF agentVars
  <2> QED
    BY <1>5, <2>1, <2>2 DEF PostRun
<1>6. CASE EndSleep(r)
  BY <1>3, <1>4, <1>6 DEF EndSleep
<1>7. CASE CheckRun(r)
  BY <1>3, <1>4, <1>7 DEF CheckRun
<1>8. CASE EndAutoCompaction(r)
  BY <1>3, <1>4, <1>8 DEF EndAutoCompaction
<1>9. CASE Settled(r)
  BY <1>4, <1>9 DEF Settled
<1> QED
  BY <1>5, <1>6, <1>7, <1>8, <1>9 DEF DriverStep

LEMMA AcceptedPromptSteps ==
    ASSUME SerialInv, TypeOK', AcceptedReachesAgent, NEW r \in Requests, PromptStep(r)
    PROVE  AcceptedReachesAgent'
<1>0. TypeOK
  BY DEF SerialInv
<1>1. UNCHANGED cleared /\ req[r].pc # "handled"
  BY DEF PromptStep, InputDone, AuthDone, CheckBeforePrompt, StartRun, outside
<1>2. CASE InputDone(r)
  <2>1. CASE Answered(r, "handled", TRUE) /\ UNCHANGED agentVars
    BY <1>0, <1>1, <2>1, MovedAnswered, AcceptedMoved DEF agentVars
  <2>2. CASE Answered(r, "done", FALSE) /\ UNCHANGED agentVars
    BY <1>0, <1>1, <2>2, MovedAnswered, AcceptedMoved DEF agentVars
  <2>3. CASE Answered(r, "done", TRUE) /\ queued' = queued \cup {r} /\ UNCHANGED delivered
    BY <1>0, <1>1, <2>3, MovedAnswered, AcceptedMoved
  <2>4. CASE Goto(r, "auth") /\ UNCHANGED agentVars
    BY <1>0, <1>1, <2>4, Moved, AcceptedMoved DEF agentVars
  <2> QED
    BY <1>2, <2>1, <2>2, <2>3, <2>4 DEF InputDone
<1>3. CASE AuthDone(r)
  BY <1>0, <1>1, <1>3, Moved, MovedAnswered, AcceptedMoved DEF AuthDone, agentVars
<1>4. CASE CheckBeforePrompt(r)
  BY <1>0, <1>1, <1>4, Moved, AcceptedMoved DEF CheckBeforePrompt, agentVars
<1>5. CASE StartRun(r)
  BY <1>0, <1>1, <1>5, SerialStart, AcceptedMoved
<1> QED
  BY <1>2, <1>3, <1>4, <1>5 DEF PromptStep

LEMMA AcceptedNext ==
    ASSUME Serialised, SerialInv, TypeOK', AcceptedReachesAgent, [Next]_vars
    PROVE  AcceptedReachesAgent'
<1>0. TypeOK /\ req \in [Requests -> Request]
  BY DEF SerialInv, TypeOK, Request
<1>1. ASSUME NEW r \in Requests, SubmitPrompt(r) PROVE AcceptedReachesAgent'
  <2>1. Others(r) /\ req[r].pc = "new"
    BY <1>1, SerialSent
  <2>2. UNCHANGED <<delivered, queued, cleared>>
    BY <1>1 DEF SubmitPrompt, agentVars, outside
  <2>3. PICK m \in Modes : \/ req' = [req EXCEPT ![r] = [@ EXCEPT !.pc = "done", !.mode = m, !.answer = "error"]]
                           \/ req' = [req EXCEPT ![r] = [@ EXCEPT !.pc = "input", !.mode = m]]
    BY <1>1 DEF SubmitPrompt
  <2> DEFINE D == [req[r] EXCEPT !.pc = "done", !.mode = m, !.answer = "error"]
             I == [req[r] EXCEPT !.pc = "input", !.mode = m]
  <2>4. D.answer = "error" /\ I.answer = req[r].answer
    BY <1>0 DEF Request
  <2>5. req'[r] = D \/ req'[r] = I
    BY <1>0, <2>3
  <2> QED
    BY <1>0, <2>1, <2>2, <2>4, <2>5, AcceptedMoved
<1>2. ASSUME NEW r \in Requests, QueueMessage(r) PROVE AcceptedReachesAgent'
  <2>1. Others(r)
    BY <1>2, SerialSent
  <2>2. queued' = queued \cup {r} /\ UNCHANGED <<delivered, cleared>>
    BY <1>2 DEF QueueMessage, outside
  <2> QED
    BY <1>0, <2>1, <2>2, AcceptedMoved
<1>3. ASSUME NEW r \in Requests PROVE ~CustomMessage(r)
  BY DEF Serialised, CustomMessage
<1>4. CASE Deliver
  <2>1. delivered' \cup queued' = delivered \cup queued /\ UNCHANGED <<req, cleared>>
    BY <1>4 DEF Deliver, outside
  <2> QED
    BY <2>1, AcceptedKept
<1>5. CASE Turn \/ Answering \/ Terminate
  BY <1>5, AcceptedKept DEF Turn, Answering, Answer, Terminate, agentVars, outside
<1>6. CASE FinishRun
  <2>1. agent.owner \in Requests /\ req[agent.owner].pc = "running"
    BY <1>6, SerialFinishRun DEF SerialInv, RunIsDriven
  <2>2. UNCHANGED <<delivered, queued, cleared>>
    BY <1>6 DEF FinishRun, outside
  <2> QED
    BY <1>0, <1>6, <2>1, <2>2, Moved, AcceptedMoved DEF FinishRun
<1>7. ASSUME CancelSleep, UNCHANGED <<delivered, queued, cleared>> PROVE AcceptedReachesAgent'
  <2>1. CASE retryCtl = None
    BY <1>7, <2>1, AcceptedKept DEF CancelSleep
  <2>2. CASE retryCtl # None
    <3>1. retryCtl \in Requests /\ req[retryCtl].pc # "handled"
      BY <2>2 DEF SerialInv, BackoffIsOwned, TypeOK
    <3>2. Goto(retryCtl, "cancelled")
      BY <1>7, <2>2 DEF CancelSleep, Goto
    <3> QED
      BY <1>0, <1>7, <3>1, <3>2, Moved, AcceptedMoved
  <2> QED
    BY <2>1, <2>2
<1>8. CASE Abort \/ AbortRetry \/ Compact
  BY <1>7, <1>8 DEF Abort, AbortRetry, Compact, AbortCurrent, agentVars
<1>9. CASE ClearQueue
  BY <1>9, AcceptedKept DEF ClearQueue
<1>10. CASE CompactAborted \/ EndCompact \/ AbortCompaction \/ RecordBash \/ UNCHANGED vars
  BY <1>10, AcceptedKept DEF CompactAborted, EndCompact, AbortCompaction, RecordBash, vars, agentVars,
     outside
<1> QED
  BY <1>0, <1>1, <1>2, <1>3, <1>4, <1>5, <1>6, <1>8, <1>9, <1>10, AcceptedPromptSteps,
     AcceptedDriverSteps DEF Next

(* A prompt or queued message that was answered with success, and was not  *)
(* handled by an extension, is in the transcript, in a queue or was handed *)
(* back: with the guard the run that the answer promises is never refused. *)
THEOREM AcceptedIsKept == ASSUME Serialised PROVE Spec => []AcceptedReachesAgent
<1>1. Init => AcceptedReachesAgent
  BY DEF Init, AcceptedReachesAgent
<1>2. SerialInv /\ TypeOK' /\ AcceptedReachesAgent /\ [Next]_vars => AcceptedReachesAgent'
  BY AcceptedNext
<1> QED
  BY <1>1, <1>2, SerialAlways, TypeCorrect, PTL DEF Spec

-----------------------------------------------------------------------------
(* Bash results stay out of runs.                                          *)

LEMMA QuietSession ==
    ASSUME SerialInv, ~runActive
    PROVE  /\ agent.owner = None /\ agent.phase = "idle"
           /\ \A r \in Requests : req[r].pc \notin Driving
<1>1. \A r \in Requests : req[r].pc \notin Driving
  BY DEF SerialInv, OneDriver
<1>2. agent.owner \notin Requests
  BY <1>1 DEF SerialInv, RunIsDriven, Driving
<1> QED
  BY <1>1, <1>2, Fields DEF SerialInv, RunIsDriven

LEMMA DeferredNext ==
    ASSUME Serialised, SerialInv, TypeOK', [Next]_vars, bash' # bash,
           bash'.recorded # bash.recorded
    PROVE  agent.owner = None
<1>1. ASSUME NEW r \in Requests, PromptStep(r) PROVE agent.owner = None
  <2>1. CASE InputDone(r)
    BY <2>1, QuietSession DEF InputDone, isStreaming
  <2>2. CASE StartRun(r)
    BY <2>2, SerialStart
  <2> QED
    BY <1>1, <2>1, <2>2 DEF PromptStep, AuthDone, CheckBeforePrompt
<1>2. ASSUME NEW r \in Requests, DriverStep(r) PROVE agent.owner = None
  <2>1. CASE req[r].pc \in Driving \ {"running"}
    BY <2>1, BetweenRuns
  <2>2. CASE req[r].pc \notin Driving \ {"running"}
    BY <1>2, <2>2 DEF DriverStep, PostRun, EndSleep, CheckRun, EndAutoCompaction, Settled, Driving
  <2> QED
    BY <2>1, <2>2
<1>3. CASE RecordBash
  BY <1>3, QuietSession DEF RecordBash, isStreaming, SerialInv, TypeOK
<1>4. ASSUME NEW r \in Requests PROVE ~SubmitPrompt(r) /\ ~QueueMessage(r) /\ ~CustomMessage(r)
  BY DEF Serialised, CustomMessage, SubmitPrompt, QueueMessage
<1>5. /\ ~Deliver /\ ~Turn /\ ~Answering /\ ~Terminate /\ ~FinishRun
      /\ ~Abort /\ ~AbortRetry /\ ~Compact /\ ~CompactAborted /\ ~EndCompact
      /\ ~AbortCompaction /\ ~ClearQueue /\ ~UNCHANGED vars
  BY DEF Deliver, Turn, Answering, Answer, Terminate, FinishRun, Abort, AbortRetry, Compact,
     CompactAborted, EndCompact, AbortCompaction, ClearQueue, vars
<1> QED
  BY <1>1, <1>2, <1>3, <1>4, <1>5 DEF Next

(* A bash result is added to the transcript only while the Agent has no    *)
(* run: never between a tool call and its result.                          *)
THEOREM BashStaysOut == ASSUME Serialised PROVE Spec => BashDeferred
<1>1. SerialInv /\ TypeOK' /\ [Next]_vars => [bash.recorded' # bash.recorded => agent.owner = None]_vars
  BY DeferredNext
<1> QED
  BY <1>1, SerialAlways, TypeCorrect, PTL DEF Spec, BashDeferred

-----------------------------------------------------------------------------
(* Settling, when compact() is not called: it would replace the transcript *)
(* under the run.                                                          *)

(* The places of a driver that EndedRun and OneAnswer speak of.            *)
Watched == {"post", "checkRun", "compacting", "recovering", "sleeping"}

(* No driver and no run: what remains is the retry budget.                 *)
LEMMA SettlingQuiet ==
    ASSUME \A s \in Requests : req'[s].pc \notin Watched, agent'.phase = "idle",
           manual' = "free", retryAttempt' = 0
    PROVE  Settling'
BY DEF Settling, EndedRun, OneAnswer, Watched

LEMMA SettlingKept ==
    ASSUME Settling, \A s \in Requests : req'[s].pc \in Watched => req'[s].pc = req[s].pc,
           agent'.phase = agent.phase,
           UNCHANGED <<lastMsg, retryAttempt, tail, manual, runActive>>
    PROVE  Settling'
BY DEF Settling, EndedRun, OneAnswer, Watched

LEMMA SettlingInit == Init => Settling
<1> SUFFICES ASSUME Init PROVE Settling
  OBVIOUS
<1>1. \A r \in Requests : req[r].pc = "new"
  BY DEF Init
<1>2. agent.phase = "idle" /\ manual = "free" /\ retryAttempt = 0
  BY DEF Init, NoRun
<1> QED
  BY <1>1, <1>2 DEF Settling, EndedRun, OneAnswer

(* A prompt past its look at isStreaming finds a quiet session and leaves  *)
(* it so, until its run starts.                                            *)
LEMMA SettlingPrompt ==
    ASSUME SerialInv, Settling, NEW r \in Requests, ~runActive, Others(r),
           req'[r].pc \notin Watched, UNCHANGED <<agent, manual, retryAttempt>>
    PROVE  Settling'
<1>1. agent.phase = "idle" /\ \A s \in Requests : req[s].pc \notin Driving
  BY QuietSession
<1>2. Watched \subseteq Driving
  BY DEF Watched, Driving
<1> QED
  BY <1>1, <1>2, SettlingQuiet DEF Settling, Others

LEMMA SettlingPromptSteps ==
    ASSUME SerialInv, TypeOK', Settling, NEW r \in Requests, PromptStep(r)
    PROVE  Settling' /\ (runActive => runActive')
<1>0. TypeOK /\ {"handled", "done", "auth", "check", "hooks", "precompacting", "prerecovering"}
                   \cap Watched = {}
  BY DEF SerialInv, Watched
<1>1. CASE InputDone(r)
  <2>1. UNCHANGED <<agent, manual, retryAttempt, lastMsg, runActive>>
    BY <1>1 DEF InputDone, agentVars, retryVars, outside
  <2>2. Others(r) /\ req'[r].pc \in {"handled", "done", "auth"}
    BY <1>0, <1>1, Moved, MovedAnswered DEF InputDone
  <2>3. \A s \in Requests : req'[s].pc \in Watched => req'[s].pc = req[s].pc
    BY <1>0, <2>2 DEF Others
  <2>4. ~runActive \/ tail' = tail
    BY <1>1 DEF InputDone, isStreaming, textVars
  <2> QED
    BY <1>0, <2>1, <2>2, <2>3, <2>4, SettlingPrompt, SettlingKept
<1>2. CASE AuthDone(r)
  <2>1. UNCHANGED <<agent, manual, retryAttempt, lastMsg, runActive, tail>>
    BY <1>2 DEF AuthDone, agentVars, retryVars, outside, textVars
  <2>2. Others(r) /\ req'[r].pc \in {"done", "check"}
    BY <1>0, <1>2, Moved, MovedAnswered DEF AuthDone
  <2>3. \A s \in Requests : req'[s].pc \in Watched => req'[s].pc = req[s].pc
    BY <1>0, <2>2 DEF Others
  <2> QED
    BY <2>1, <2>3, SettlingKept
<1>3. CASE CheckBeforePrompt(r)
  <2>1. UNCHANGED <<agent, manual, retryAttempt, runActive>>
    BY <1>3 DEF CheckBeforePrompt, agentVars, retryVars, outside, sessionVars
  <2>2. Others(r) /\ req'[r].pc \in {"hooks", "precompacting", "prerecovering"}
    BY <1>0, <1>3, Moved DEF CheckBeforePrompt
  <2>3. ~runActive
    BY <1>3 DEF CheckBeforePrompt, SerialInv, PromptAlone, Preflight
  <2> QED
    BY <1>0, <2>1, <2>2, <2>3, SettlingPrompt
<1>4. CASE StartRun(r)
  <2>1. /\ req'[r].pc = "running" /\ Others(r) /\ agent'.phase = "turns" /\ tail' = 0
    BY <1>4, SerialStart
  <2>2. ~runActive
    BY <1>4 DEF StartRun, SerialInv, PromptAlone, Preflight
  <2>3. \A s \in Requests : req[s].pc \notin Driving
    BY <2>2, QuietSession
  <2>4. \A s \in Requests : req'[s].pc \notin Watched
    BY <2>1, <2>3 DEF Others, Watched, Driving
  <2>5. UNCHANGED <<lastMsg, retryAttempt, manual>>
    BY <1>4 DEF StartRun, retryVars, outside
  <2> QED
    BY <2>1, <2>2, <2>4, <2>5 DEF Settling, EndedRun, OneAnswer, Watched
<1> QED
  BY <1>1, <1>2, <1>3, <1>4 DEF PromptStep

LEMMA SettlingRunSteps ==
    ASSUME SerialInv, TypeOK', Settling, Deliver \/ Turn \/ Answering \/ Terminate \/ FinishRun
    PROVE  Settling' /\ UNCHANGED runActive
<1>0. TypeOK
  BY DEF SerialInv
<1>1. UNCHANGED <<runActive, manual>>
  BY DEF Deliver, Turn, Answering, Answer, Terminate, FinishRun, sessionVars, outside
<1>2. ASSUME agent.phase # "idle"
      PROVE  /\ agent.owner \in Requests /\ req[agent.owner].pc = "running" /\ runActive
             /\ \A s \in Requests : req[s].pc \notin Watched
  <2>1. agent.owner \in Requests /\ req[agent.owner].pc = "running"
    BY <1>0, <1>2, Fields DEF SerialInv, RunIsDriven
  <2>2. "running" \in Driving /\ Watched \subseteq Driving /\ "running" \notin Watched
    BY DEF Driving, Watched
  <2> QED
    BY <2>1, <2>2 DEF SerialInv, OneDriver
<1>3. CASE Deliver
  <2>1. agent.phase = "turns" /\ tail' = 0 /\ UNCHANGED <<req, agent, lastMsg, retryAttempt>>
    BY <1>3 DEF Deliver, retryVars
  <2> QED
    BY <1>1, <1>2, <2>1 DEF Settling, EndedRun, OneAnswer, Watched
<1>4. CASE Turn
  <2>1. agent.phase = "turns" /\ tail' = 0 /\ retryAttempt' = 0 /\ UNCHANGED <<req, agent>>
    BY <1>4 DEF Turn, agentVars
  <2> QED
    BY <1>1, <1>2, <2>1 DEF Settling, EndedRun, OneAnswer, Watched
<1>5. CASE Answering
  <2>1. PICK k \in Answers : Answer(k)
    BY <1>5 DEF Answering
  <2>2. /\ agent.phase = "turns" /\ agent' = [agent EXCEPT !.phase = "ended"]
        /\ tail' = tail + 1 /\ lastMsg' = k
        /\ retryAttempt' = IF k \in Failures THEN retryAttempt ELSE 0
        /\ UNCHANGED req
    BY <2>1 DEF Answer
  <2>3. agent'.phase = "ended" /\ tail' = 1
    BY <1>0, <2>2 DEF TypeOK, Settling, OneAnswer
  <2>4. k # "none"
    BY DEF Answers
  <2> QED
    BY <1>1, <1>2, <2>2, <2>3, <2>4 DEF Settling, EndedRun, OneAnswer, Watched
<1>6. CASE Terminate
  <2>1. /\ agent.phase = "turns" /\ lastMsg = "stop" /\ tail = 0
        /\ agent' = [agent EXCEPT !.phase = "ended"]
        /\ UNCHANGED <<req, lastMsg, retryAttempt, tail>>
    BY <1>6 DEF Terminate, retryVars, textVars
  <2>2. agent'.phase = "ended"
    BY <1>0, <2>1 DEF TypeOK
  <2> QED
    BY <1>1, <1>2, <2>1, <2>2 DEF Settling, EndedRun, OneAnswer, Watched
<1>7. CASE FinishRun
  <2>1. agent.phase = "ended" /\ agent'.phase = "idle" /\ UNCHANGED <<lastMsg, retryAttempt, tail>>
    BY <1>7 DEF FinishRun, NoRun, retryVars, textVars
  <2>2. req'[agent.owner].pc = "post" /\ Others(agent.owner)
    BY <1>7, SerialFinishRun
  <2>3. \A s \in Requests : req'[s].pc \in Watched => req'[s].pc = "post"
    BY <1>2, <2>1, <2>2 DEF Others
  <2> QED
    BY <1>1, <1>2, <2>1, <2>3 DEF Settling, EndedRun, OneAnswer, Watched
<1> QED
  BY <1>1, <1>3, <1>4, <1>5, <1>6, <1>7

(* The driver goes on, or settles with the budget back and nothing queued. *)
Rests(r) == Settles(r) /\ queued = {} /\ retryAttempt' = 0

LEMMA SettlingEnds ==
    ASSUME SerialInv, Settling, NEW r \in Requests, req[r].pc \in Driving \ {"running"},
           RunsOn(r) \/ Rests(r),
           UNCHANGED <<lastMsg, manual>>, retryAttempt' = retryAttempt \/ retryAttempt' = 0
    PROVE  Settling' /\ (runActive /\ ~runActive' => queued = {} /\ retryAttempt' = 0)
<1>1. /\ agent.phase = "idle" /\ runActive /\ \A s \in Requests \ {r} : req[s].pc \notin Driving
  BY BetweenRuns
<1>2. Watched \subseteq Driving /\ "running" \notin Watched /\ "settling" \notin Watched
  BY DEF Watched, Driving
<1>3. Others(r) /\ req'[r].pc \in {"running", "settling"}
  BY Moved DEF RunsOn, Rests, Settles, SerialInv
<1>4. \A s \in Requests : req'[s].pc \notin Watched
  BY <1>1, <1>2, <1>3 DEF Others
<1>5. CASE RunsOn(r)
  <2>1. agent'.phase = "turns" /\ tail' = 0 /\ runActive' = runActive
    BY <1>5 DEF RunsOn
  <2> QED
    BY <1>1, <1>4, <2>1 DEF Settling, EndedRun, OneAnswer, Watched
<1>6. CASE Rests(r)
  <2>1. agent'.phase = "idle" /\ retryAttempt' = 0 /\ queued = {}
    BY <1>1, <1>6 DEF Rests, Settles, agentVars
  <2> QED
    BY <1>4, <2>1, SettlingQuiet DEF Settling
<1> QED
  BY <1>5, <1>6

(* The driver goes to another place between runs.                          *)
LEMMA SettlingMoves ==
    ASSUME SerialInv, Settling, NEW r \in Requests, req[r].pc \in Driving \ {"running"}, Others(r),
           UNCHANGED <<runActive, agent, manual>>,
           lastMsg' = lastMsg \/ lastMsg' = "none",
           \/ req'[r].pc = "sleeping" /\ tail' = 0 /\ lastMsg' = "none"
           \/ /\ req'[r].pc \in {"checkRun", "compacting", "recovering"} /\ retryAttempt' = 0
    PROVE  Settling'
<1>1. /\ agent.phase = "idle" /\ runActive /\ \A s \in Requests \ {r} : req[s].pc \notin Driving
  BY BetweenRuns
<1>2. Watched \subseteq Driving
  BY DEF Watched, Driving
<1>3. \A s \in Requests \ {r} : req'[s].pc \notin Watched
  BY <1>1, <1>2 DEF Others
<1> QED
  BY <1>1, <1>3 DEF Settling, EndedRun, OneAnswer, Watched

LEMMA SettlingDriverSteps ==
    ASSUME SerialInv, TypeOK', Settling, NEW r \in Requests, DriverStep(r)
    PROVE  Settling' /\ (runActive /\ ~runActive' => queued = {} /\ retryAttempt' = 0)
<1>0. {"post", "sleeping", "cancelled", "checkRun", "compacting", "recovering"}
        \subseteq Driving \ {"running"}
  BY DEF Driving
<1>1. TypeOK /\ tail \in Nat /\ logTail \in Nat
  BY DEF SerialInv, TypeOK
<1>2. CASE PostRun(r)
  <2>1. /\ req[r].pc = "post" /\ lastMsg' = "none" /\ UNCHANGED manual
    BY <1>2 DEF PostRun, outside
  <2>2. lastMsg # "none" /\ tail \in {0, 1}
    BY <1>1, <2>1 DEF Settling, EndedRun, OneAnswer
  <2>3. CASE /\ retryAttempt' = retryAttempt + 1
             /\ tail' = Trimmed(tail)
             /\ req' = [req EXCEPT ![r].pc = "sleeping", ![r].msg = lastMsg]
             /\ UNCHANGED <<runActive, agentVars>>
    <3>1. tail' = 0
      BY <2>2, <2>3 DEF Trimmed
    <3>2. Others(r) /\ req'[r].pc = "sleeping"
      BY <1>1, <2>3 DEF TypeOK, Others
    <3> QED
      BY <1>0, <2>1, <2>3, <3>1, <3>2, SettlingMoves DEF agentVars
  <2>4. CASE /\ lastMsg # "none"
             /\ retryAttempt' = IF lastMsg \in Failures THEN 0 ELSE retryAttempt
             /\ req' = [req EXCEPT ![r].pc = "checkRun", ![r].msg = lastMsg]
             /\ UNCHANGED <<runActive, agentVars>>
    <3>1. retryAttempt' = 0
      BY <2>4 DEF Settling, EndedRun
    <3>2. Others(r) /\ req'[r].pc = "checkRun"
      BY <1>1, <2>4 DEF TypeOK, Others
    <3> QED
      BY <1>0, <2>1, <2>4, <3>1, <3>2, SettlingMoves DEF agentVars
  <2> QED
    BY <1>2, <2>2, <2>3, <2>4 DEF PostRun
<1>3. CASE EndSleep(r)
  <2>1. UNCHANGED <<lastMsg, manual>>
    BY <1>3 DEF EndSleep, outside
  <2>2. CASE req[r].pc = "sleeping" /\ Continue(r, tail, logTail) /\ UNCHANGED retryAttempt
    <3>1. agent.owner = None
      BY <1>0, <2>2, BetweenRuns
    <3>2. tail = 0
      BY <2>2 DEF Settling, OneAnswer
    <3>3. RunsOn(r)
      BY <1>1, <2>2, <3>1, <3>2, ContinueEffect
    <3> QED
      BY <1>0, <2>1, <2>2, <3>3, SettlingEnds
  <2>3. CASE /\ req[r].pc = "cancelled" /\ retryAttempt' = 0
             /\ Goto(r, "checkRun") /\ UNCHANGED <<runActive, agentVars>>
    <3>1. Others(r) /\ req'[r].pc = "checkRun"
      BY <1>1, <2>3, Moved
    <3> QED
      BY <1>0, <2>1, <2>3, <3>1, SettlingMoves DEF agentVars
  <2> QED
    BY <1>3, <2>2, <2>3 DEF EndSleep
<1>4. CASE CheckRun(r)
  <2>1. req[r].pc = "checkRun" /\ UNCHANGED <<lastMsg, manual, retryAttempt>>
    BY <1>4 DEF CheckRun, outside, retryVars
  <2>2. retryAttempt' = 0
    BY <2>1 DEF Settling, EndedRun
  <2>3. CASE Decide(r, tail, logTail)
    <3>1. agent.owner = None
      BY <1>0, <2>1, BetweenRuns
    <3>2. RunsOn(r) \/ Rests(r)
      BY <1>1, <2>2, <2>3, <3>1, DecideEffect DEF Rests
    <3> QED
      BY <1>0, <2>1, <3>2, SettlingEnds
  <2>4. CASE (Goto(r, "compacting") \/ Goto(r, "recovering")) /\ UNCHANGED <<runActive, agentVars>>
    <3>1. Others(r) /\ req'[r].pc \in {"compacting", "recovering"}
      BY <1>1, <2>4, Moved
    <3> QED
      BY <1>0, <2>1, <2>2, <2>4, <3>1, SettlingMoves DEF agentVars
  <2> QED
    BY <1>4, <2>3, <2>4 DEF CheckRun
<1>5. CASE EndAutoCompaction(r)
  <2>1. UNCHANGED <<lastMsg, manual, retryAttempt>>
    BY <1>5 DEF EndAutoCompaction, outside, retryVars
  <2>2. CASE req[r].pc \in {"recovering", "compacting"}
    <3>1. agent.owner = None
      BY <1>0, <2>2, BetweenRuns
    <3>2. PICK t \in Nat, l \in Nat : Continue(r, t, l) \/ Decide(r, t, l)
      <4>1. Kept \subseteq Nat
        BY <1>1 DEF Kept
      <4>2. \A t \in Kept : t \in Nat /\ Trimmed(t) \in Nat
        BY <4>1 DEF Trimmed
      <4> QED
        BY <1>1, <1>5, <2>2, <4>1, <4>2 DEF EndAutoCompaction
    <3>3. retryAttempt' = 0
      BY <2>1, <2>2 DEF Settling, EndedRun
    <3>4. RunsOn(r) \/ Rests(r)
      BY <1>1, <3>1, <3>2, <3>3, ContinueEffect, DecideEffect DEF Rests
    <3> QED
      BY <1>0, <2>1, <2>2, <3>4, SettlingEnds
  <2>3. CASE req[r].pc \in {"precompacting", "prerecovering"}
    <3>1. Goto(r, "hooks") /\ UNCHANGED <<runActive, agentVars>>
      BY <1>5, <2>3 DEF EndAutoCompaction
    <3>2. Others(r) /\ req'[r].pc = "hooks" /\ "hooks" \notin Watched
      BY <1>1, <3>1, Moved DEF Watched
    <3>3. ~runActive
      BY <2>3 DEF SerialInv, PromptAlone, Preflight
    <3> QED
      BY <2>1, <3>1, <3>2, <3>3, SettlingPrompt DEF agentVars
  <2> QED
    BY <1>5, <2>2, <2>3 DEF EndAutoCompaction
<1>6. CASE Settled(r)
  <2>1. Others(r) /\ req'[r].pc = "done"
    BY <1>1, <1>6, Moved DEF Settled
  <2>2. \A s \in Requests : req'[s].pc \in Watched => req'[s].pc = req[s].pc
    BY <2>1 DEF Others, Watched
  <2>3. UNCHANGED <<agent, lastMsg, retryAttempt, tail, manual, runActive>>
    BY <1>6 DEF Settled, sessionVars, agentVars, retryVars, textVars
  <2> QED
    BY <2>2, <2>3, SettlingKept
<1> QED
  BY <1>2, <1>3, <1>4, <1>5, <1>6 DEF DriverStep

LEMMA SettlingCallers ==
    ASSUME SerialInv, TypeOK', Settling, ~Compactor,
           \/ Abort \/ AbortRetry \/ Compact \/ CompactAborted \/ EndCompact
           \/ AbortCompaction \/ ClearQueue \/ RecordBash \/ UNCHANGED vars
    PROVE  Settling' /\ UNCHANGED runActive
<1>0. TypeOK /\ manual = "free"
  BY DEF SerialInv, Settling
<1>1. ~Compact /\ ~CompactAborted /\ ~EndCompact
  BY <1>0 DEF Compact, CompactAborted, EndCompact
<1>2. UNCHANGED runActive
  BY <1>1 DEF Abort, AbortRetry, AbortCompaction, ClearQueue, RecordBash, vars, sessionVars
<1>3. CASE Abort \/ AbortRetry
  <2>1. CancelSleep /\ UNCHANGED <<lastMsg, retryAttempt, tail, manual>>
    BY <1>3 DEF Abort, AbortRetry, AbortCurrent, retryVars, textVars
  <2>2. agent'.phase = agent.phase
    BY <1>0, <1>3 DEF Abort, AbortRetry, AbortCurrent, agentVars, TypeOK
  <2>3. \A s \in Requests : req'[s].pc \in Watched => req'[s].pc = req[s].pc
    <3>1. CASE retryCtl = None
      BY <2>1, <3>1 DEF CancelSleep
    <3>2. CASE retryCtl # None
      <4>1. retryCtl \in Requests /\ Goto(retryCtl, "cancelled")
        BY <1>0, <2>1, <3>2 DEF CancelSleep, Goto, TypeOK
      <4> QED
        BY <1>0, <4>1, Moved DEF Others, Watched
    <3> QED
      BY <3>1, <3>2
  <2> QED
    BY <1>2, <2>1, <2>2, <2>3, SettlingKept
<1>4. CASE AbortCompaction \/ ClearQueue \/ UNCHANGED vars
  <2>1. UNCHANGED <<req, agent, lastMsg, retryAttempt, tail, manual>>
    BY <1>0, <1>4 DEF AbortCompaction, ClearQueue, vars, agentVars, retryVars, textVars, outside
  <2> QED
    BY <1>2, <2>1, SettlingKept
<1>5. CASE RecordBash
  <2>1. UNCHANGED <<req, agent, lastMsg, retryAttempt, manual>> /\ (~runActive \/ tail' = tail)
    BY <1>5 DEF RecordBash, agentVars, retryVars, textVars, outside, isStreaming
  <2>2. CASE runActive
    BY <1>2, <2>1, <2>2, SettlingKept
  <2>3. CASE ~runActive
    <3>1. agent.phase = "idle" /\ \A s \in Requests : req[s].pc \notin Driving
      BY <2>3, QuietSession
    <3> QED
      BY <1>0, <1>2, <2>1, <2>3, <3>1, SettlingQuiet DEF Settling, Watched, Driving
  <2> QED
    BY <2>2, <2>3
<1> QED
  BY <1>1, <1>2, <1>3, <1>4, <1>5

LEMMA SettlingNext ==
    ASSUME Serialised, ~Compactor, SerialInv, TypeOK', Settling, [Next]_vars
    PROVE  Settling' /\ (runActive /\ ~runActive' => queued = {} /\ retryAttempt' = 0)
<1>1. ASSUME NEW r \in Requests, SubmitPrompt(r) \/ QueueMessage(r)
      PROVE  Settling' /\ UNCHANGED runActive
  <2>1. Others(r) /\ req'[r].pc \in {"done", "input"}
    BY <1>1, SerialSent
  <2>2. UNCHANGED <<agent, lastMsg, retryAttempt, tail, manual, runActive>>
    BY <1>1 DEF SubmitPrompt, QueueMessage, sessionVars, agentVars, retryVars, textVars, outside
  <2>3. \A s \in Requests : req'[s].pc \in Watched => req'[s].pc = req[s].pc
    BY <2>1 DEF Others, Watched
  <2> QED
    BY <2>2, <2>3, SettlingKept
<1>2. \A r \in Requests : ~CustomMessage(r)
  BY DEF Serialised, CustomMessage
<1> QED
  BY <1>1, <1>2, SettlingPromptSteps, SettlingRunSteps, SettlingDriverSteps, SettlingCallers DEF Next

(* A session settles clean whichever way its last run ended: nothing is    *)
(* left in the queues, no bash result waits and the retry budget is whole. *)
(* In particular the retry after a backoff is never refused by the Agent.  *)
THEOREM SessionSettlesClean == ASSUME Serialised, ~Compactor PROVE Spec => SettlesClean
<1>1. SerialInv /\ TypeOK' /\ Settling /\ [Next]_vars => Settling'
  BY SettlingNext
<1>2. SerialInv /\ TypeOK' /\ Settling /\ BashFlushed' /\ [Next]_vars =>
        [runActive /\ ~runActive' => queued = {} /\ bash.pending' = 0 /\ retryAttempt' = 0]_vars
  BY SettlingNext DEF BashFlushed
<1> QED
  BY <1>1, <1>2, SettlingInit, SerialAlways, TypeCorrect, BashIsFlushed, PTL DEF Spec, SettlesClean
=============================================================================
