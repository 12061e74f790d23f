--------------------------- MODULE AgentRunProofs ---------------------------
(***************************************************************************)
(* Machine-checked facts about AgentRun, for any number of messages, tool  *)
(* calls and turns; and that it implements AgentContract: every initial    *)
(* state and every step is mapped to one of the contract.                  *)
(***************************************************************************)
EXTENDS AgentRunRefinement, WellFoundedInduction, SequenceTheorems, FiniteSetTheorems, TLAPS

(* Natural numbers: facts without an operator parameter, so that every     *)
(* installed prover can use them.                                          *)

(* A set of natural numbers that is not empty has a least element.         *)
LEMMA LeastNat ==
    ASSUME NEW T, T \subseteq Nat, T # {}
    PROVE  \E n \in T : \A m \in T : n <= m
<1> DEFINE R == OpToRel(<, Nat)
<1>1. IsWellFoundedOn(R, Nat)
  BY NatLessThanWellFounded
<1>2. \A x, y \in Nat : y < x => <<y, x>> \in R
  BY DEF OpToRel
<1> HIDE DEF R
<1>3. \E x \in T : \A y \in T : ~ (<<y, x>> \in R)
  BY <1>1, WFMin
<1>4. PICK x \in T : \A y \in T : ~ (<<y, x>> \in R)
  BY <1>3
<1>5. ASSUME NEW y \in T PROVE x <= y
  <2>1. x \in Nat /\ y \in Nat
    OBVIOUS
  <2>2. ~(y < x)
    BY <2>1, <1>2, <1>4, Zenon
  <2> QED BY <2>1, <2>2
<1> QED BY <1>5

(* Induction: a set that has 0, and n + 1 with each n, has them all.       *)
LEMMA NatInd ==
    ASSUME NEW S, 0 \in S, \A n \in Nat : n \in S => n + 1 \in S
    PROVE  Nat \subseteq S
<1> DEFINE T == Nat \ S
<1> SUFFICES ASSUME T # {} PROVE FALSE
  OBVIOUS
<1>1. PICK x \in T : \A m \in T : x <= m
  BY LeastNat
<1>2. x # 0 /\ x - 1 \in Nat /\ x - 1 \notin T
  BY <1>1
<1> QED BY <1>2

(* The program counter and the tool batch agree.                           *)
BatchPCs == {"prepare", "dispatch", "execute", "results"}

Shape ==
    /\ active <=> loop.pc # "idle"
    /\ loop.pc \notin BatchPCs => loop.tools = NoTools
    /\ loop.pc \in BatchPCs => loop.tools.n > 0
    /\ loop.pc \in BatchPCs \ {"results"} => loop.tools.k <= loop.tools.n
    /\ loop.pc # "start" => loop.prompts = <<>>
    /\ loop.pc = "dispatch" => loop.tools.parallel
    /\ loop.pc \in {"prepare", "execute"} /\ loop.tools.parallel => loop.tools.k = 1

(* The results that have been emitted and are not yet in the context.      *)
Results(t, n) == [i \in 1..n |-> toolResult(t, i)]

Emitted ==
    IF loop.pc = "results" \/ ~ loop.tools.parallel THEN loop.tools.k - 1 ELSE 0

PlainPCs == {"poll", "inject", "request", "streaming", "turnEnd", "pollSteering", "pollFollowUp"}

(* The loop's context and the transcript, at every step of a run.          *)
Mirror ==
    /\ loop.pc = "start" => state.messages \o loop.prompts = loop.context
    /\ loop.pc \in PlainPCs => state.messages = loop.context
    /\ loop.pc \in BatchPCs => state.messages = loop.context \o Results(turns, Emitted)

(* The progress of the calls of a batch.  A batch of a truncated message   *)
(* is done from the start; only an abort leaves calls behind.              *)
Progress ==
    LET tools == loop.tools
    IN  loop.pc \in BatchPCs =>
          /\ loop.pc # "dispatch" => \A i \in 1..(tools.k - 1) : tools.st[i] = "done"
          /\ loop.pc = "prepare" /\ tools.parallel =>
               \A i \in 1..tools.n : tools.st[i] \in {"new", "preparing", "immediate", "prepared"}
          /\ loop.pc = "dispatch" =>
               /\ \A i \in 1..(tools.k - 1) : tools.st[i] \in {"running", "done"}
               /\ \A i \in tools.k..tools.n : tools.st[i] \in {"immediate", "prepared"}
          /\ loop.pc = "execute" => tools.st[tools.k] \in {"running", "done"}
          /\ loop.pc = "results" => \A i \in 1..tools.n : tools.st[i] # "running"
          /\ loop.pc \in {"execute", "results"} /\ tools.parallel /\ ~ aborted =>
               \A i \in 1..tools.n : tools.st[i] \in {"running", "done"}
          /\ loop.pc = "results" /\ ~ aborted /\ tools.k <= tools.n => tools.st[tools.k] = "done"
          /\ Last(loop.context).stop = "length" => \A i \in 1..tools.n : tools.st[i] = "done"

(* Tools of failed runs belong to earlier turns than the batch at hand.    *)
OrphansAreOld ==
    \A o \in orphans : o[1] <= turns /\ (loop.tools.n > 0 => o[1] < turns)

(* Between runs nothing is pending.                                        *)
IdleClean == ~ active => state.pendingToolCalls = {}

(* The inductive invariant.                                                *)
IInv ==
    /\ TypeOK /\ Shape /\ Mirror /\ Progress
    /\ OrphansAreOld /\ IdleClean /\ PendingCallsAreReal

(* Reading a field of a typed record.                                      *)
LEMMA LoopFields ==
    ASSUME NEW l \in Loop
    PROVE  /\ l.pc \in PCs /\ l.context \in Seq(Message) /\ l.pending \in Seq(Message)
           /\ l.prompts \in Seq(Message) /\ l.skipPoll \in BOOLEAN /\ l.hasMore \in BOOLEAN
           /\ l.tools \in Batch
BY DEF Loop

LEMMA BatchFields ==
    ASSUME NEW b \in Batch
    PROVE  /\ b.n \in Nat /\ b.k \in Nat /\ b.st \in Seq(CallStatus)
           /\ b.terminate \subseteq Nat /\ b.parallel \in BOOLEAN
BY DEF Batch

LEMMA StateFields ==
    ASSUME NEW s \in AgentState
    PROVE  /\ s.messages \in Seq(Message) /\ s.isStreaming \in BOOLEAN
           /\ s.streamingMessage \in BOOLEAN /\ s.pendingToolCalls \subseteq Nat \X Nat
           /\ s.errorMessage \in BOOLEAN
BY DEF AgentState

(* The messages the model makes are messages.                              *)
LEMMA MessagesTyped ==
    /\ \A kind \in UserKinds, k \in Nat : user(kind, k) \in Message
    /\ \A t \in Nat, n \in Nat, stop \in StopReasons : assistant(t, n, stop) \in Message
    /\ \A t \in Nat, i \in Nat : toolResult(t, i) \in Message
BY DEF user, assistant, toolResult, Message, UserKinds, StopReasons

(* What drain() returns and leaves of a queue are sequences of messages.   *)
LEMMA DrainTyped ==
    ASSUME NEW q \in Seq(Message), NEW mode \in Modes
    PROVE  Drained(q, mode) \in Seq(Message) /\ Left(q, mode) \in Seq(Message)
BY DEF Drained, Left, Modes

LEMMA IdsTyped ==
    ASSUME NEW q \in Seq(Message)
    PROVE  Ids(q) \subseteq Nat
<1>1. \A i \in DOMAIN q : q[i] \in Message
  OBVIOUS
<1>2. \A m \in Message : m.id \in Nat
  BY DEF Message
<1> QED
  BY <1>1, <1>2 DEF Ids

LEMMA IdleLoopTyped ==
    /\ NoTools \in Batch /\ NoTools.n = 0 /\ NoTools.k = 1 /\ NoTools.st = <<>>
    /\ BatchOK(NoTools)
    /\ IdleLoop \in Loop /\ IdleLoop.tools = NoTools
<1>1. <<>> \in Seq(CallStatus) /\ <<>> \in Seq(Message)
  OBVIOUS
<1>2. NoTools \in Batch
  BY <1>1 DEF NoTools, Batch
<1>3. IdleLoop \in Loop
  BY <1>1, <1>2 DEF IdleLoop, Loop, PCs
<1> QED
  BY <1>2, <1>3, ConstantsAssumption DEF NoTools, IdleLoop, BatchOK

(* Changing a few fields of a typed record keeps it typed.                 *)
LEMMA PushTyped ==
    ASSUME state \in AgentState, NEW m \in Message
    PROVE  /\ Push(m) \in AgentState
           /\ Push(m).messages = Append(state.messages, m)
           /\ Push(m).pendingToolCalls = state.pendingToolCalls
<1>1. Append(state.messages, m) \in Seq(Message)
  BY StateFields
<1>2. Push(m) = [state EXCEPT !.messages = Append(state.messages, m), !.streamingMessage = FALSE]
  BY DEF Push
<1> QED
  BY <1>1, <1>2 DEF AgentState

LEMMA TypeInit == Init => TypeOK
<1> SUFFICES ASSUME Init PROVE TypeOK
  OBVIOUS
<1>1. state \in AgentState
  <2>1. <<>> \in Seq(Message)
    OBVIOUS
  <2> QED
    BY <2>1 DEF Init, AgentState
<1>2. loop \in Loop /\ BatchOK(loop.tools)
  BY IdleLoopTyped DEF Init
<1>3. sent \in 0..MaxSent /\ turns \in Nat
  BY ConstantsAssumption DEF Init
<1>4. steeringQueue \in Seq(Message) /\ followUpQueue \in Seq(Message)
  BY DEF Init
<1> QED
  BY <1>1, <1>2, <1>3, <1>4 DEF Init, TypeOK

LEMMA TypeLaunch ==
    ASSUME TypeOK, NEW prompts \in Seq(Message), NEW skipPoll \in BOOLEAN, Launch(prompts, skipPoll)
    PROVE  /\ active' \in BOOLEAN /\ aborted' \in BOOLEAN
           /\ state' \in AgentState
           /\ loop' \in Loop /\ loop'.tools = NoTools
<1>1. state' \in AgentState
  BY DEF Launch, TypeOK, AgentState
<1>2. state.messages \o prompts \in Seq(Message)
  BY StateFields DEF TypeOK
<1>3. loop' \in Loop /\ loop'.tools = NoTools
  BY <1>2, IdleLoopTyped DEF Launch, Loop, PCs
<1> QED
  BY <1>1, <1>3 DEF Launch

(* The calls that start a run.                                             *)
LEMMA TypeRunStarts ==
    ASSUME TypeOK, Prompt \/ ContinueQueued \/ ContinueTranscript
    PROVE  TypeOK'
<1>1. CASE Prompt
  <2>1. sent + 1 \in Nat /\ user("prompt", sent + 1) \in Message
    BY MessagesTyped DEF TypeOK, UserKinds
  <2>2. <<user("prompt", sent + 1)>> \in Seq(Message)
    BY <2>1
  <2>3. Launch(<<user("prompt", sent + 1)>>, FALSE)
    BY <1>1 DEF Prompt
  <2>4. sent' \in 0..MaxSent
    BY <1>1, ConstantsAssumption DEF TypeOK, Prompt
  <2>5. /\ active' \in BOOLEAN /\ aborted' \in BOOLEAN /\ state' \in AgentState
        /\ loop' \in Loop /\ loop'.tools = NoTools
    BY <2>2, <2>3, TypeLaunch
  <2> QED
    BY <1>1, <2>4, <2>5, IdleLoopTyped DEF TypeOK, Prompt, queues
<1>2. CASE ContinueQueued
  <2>1. CASE /\ Launch(Drained(steeringQueue, SteeringMode), TRUE)
             /\ steeringQueue' = Left(steeringQueue, SteeringMode)
             /\ UNCHANGED <<followUpQueue, hist>>
    <3>1. Drained(steeringQueue, SteeringMode) \in Seq(Message) /\ steeringQueue' \in Seq(Message)
      BY <2>1, DrainTyped, ConstantsAssumption DEF TypeOK
    <3> QED
      BY <2>1, <3>1, TypeLaunch, IdleLoopTyped DEF TypeOK, hist
  <2>2. CASE /\ Launch(Drained(followUpQueue, FollowUpMode), FALSE)
             /\ followUpQueue' = Left(followUpQueue, FollowUpMode)
             /\ UNCHANGED <<steeringQueue, hist>>
    <3>1. Drained(followUpQueue, FollowUpMode) \in Seq(Message) /\ followUpQueue' \in Seq(Message)
      BY <2>2, DrainTyped, ConstantsAssumption DEF TypeOK
    <3> QED
      BY <2>2, <3>1, TypeLaunch, IdleLoopTyped DEF TypeOK, hist
  <2> QED
    BY <1>2, <2>1, <2>2 DEF ContinueQueued
<1>3. CASE ContinueTranscript
  <2>1. Launch(<<>>, FALSE)
    BY <1>3 DEF ContinueTranscript
  <2>2. <<>> \in Seq(Message)
    OBVIOUS
  <2> QED
    BY <1>3, <2>1, <2>2, TypeLaunch, IdleLoopTyped DEF TypeOK, ContinueTranscript, queues, hist
<1> QED
  BY <1>1, <1>2, <1>3

(* The other calls of a caller.                                            *)
LEMMA TypeCallers ==
    ASSUME TypeOK, steer \/ followUp \/ clearAllQueues \/ abort \/ DropFailedAnswer
    PROVE  TypeOK'
<1>1. CASE steer
  <2>1. sent + 1 \in Nat /\ user("steer", sent + 1) \in Message
    BY MessagesTyped DEF TypeOK, UserKinds
  <2> QED
    BY <1>1, <2>1, ConstantsAssumption DEF TypeOK, steer
<1>2. CASE followUp
  <2>1. sent + 1 \in Nat /\ user("followUp", sent + 1) \in Message
    BY MessagesTyped DEF TypeOK, UserKinds
  <2> QED
    BY <1>2, <2>1, ConstantsAssumption DEF TypeOK, followUp
<1>3. CASE clearAllQueues
  <2>1. Ids(steeringQueue) \subseteq Nat /\ Ids(followUpQueue) \subseteq Nat
    BY IdsTyped DEF TypeOK
  <2>2. steeringQueue' \in Seq(Message) /\ followUpQueue' \in Seq(Message)
    BY <1>3 DEF clearAllQueues
  <2>3. dropped' \subseteq Nat
    BY <1>3, <2>1 DEF TypeOK, clearAllQueues
  <2> QED
    BY <1>3, <2>2, <2>3 DEF TypeOK, clearAllQueues
<1>4. CASE abort
  BY <1>4 DEF TypeOK, abort, queues, hist
<1>5. CASE DropFailedAnswer
  <2>1. state.messages \in Seq(Message) /\ state.messages # <<>>
    BY <1>5, StateFields DEF TypeOK, DropFailedAnswer
  <2>2. Front(state.messages) \in Seq(Message)
    BY <2>1 DEF Front
  <2>3. state' \in AgentState
    BY <1>5, <2>2 DEF TypeOK, DropFailedAnswer, AgentState
  <2> QED
    BY <1>5, <2>3 DEF TypeOK, DropFailedAnswer, queues, hist
<1> QED
  BY <1>1, <1>2, <1>3, <1>4, <1>5

(* From the start of a run to the provider request.                        *)
LEMMA TypeOpening ==
    ASSUME TypeOK,
           EmitPrompt \/ PromptsEmitted \/ InitialPoll \/ Inject \/ Injected \/ RequestStarted
    PROVE  TypeOK'
<1> USE DEF queues, hist
<1>f. /\ loop.prompts \in Seq(Message) /\ loop.pending \in Seq(Message)
      /\ loop.context \in Seq(Message)
  BY LoopFields DEF TypeOK
<1>1. CASE EmitPrompt
  <2>1. Head(loop.prompts) \in Message /\ Tail(loop.prompts) \in Seq(Message)
    BY <1>1, <1>f DEF EmitPrompt
  <2>2. state' \in AgentState
    BY <1>1, <2>1, PushTyped DEF EmitPrompt, TypeOK
  <2>3. loop' \in Loop /\ loop'.tools = loop.tools
    BY <1>1, <2>1 DEF EmitPrompt, TypeOK, Loop
  <2> QED
    BY <1>1, <2>2, <2>3 DEF EmitPrompt, TypeOK
<1>2. CASE PromptsEmitted
  <2>1. loop' \in Loop /\ loop'.tools = loop.tools
    BY <1>2 DEF PromptsEmitted, TypeOK, Loop, PCs
  <2> QED
    BY <1>2, <2>1 DEF PromptsEmitted, TypeOK
<1>3. CASE InitialPoll
  <2>1. /\ Drained(steeringQueue, SteeringMode) \in Seq(Message)
        /\ Left(steeringQueue, SteeringMode) \in Seq(Message)
    BY DrainTyped, ConstantsAssumption DEF TypeOK
  <2>2. loop' \in Loop /\ loop'.tools = loop.tools
    BY <1>3, <2>1 DEF InitialPoll, TypeOK, Loop, PCs
  <2> QED
    BY <1>3, <2>1, <2>2 DEF InitialPoll, TypeOK
<1>4. CASE Inject
  <2>1. Head(loop.pending) \in Message /\ Tail(loop.pending) \in Seq(Message)
    BY <1>4, <1>f DEF Inject
  <2>2. Append(loop.context, Head(loop.pending)) \in Seq(Message)
    BY <1>f, <2>1
  <2>3. state' \in AgentState
    BY <1>4, <2>1, PushTyped DEF Inject, TypeOK
  <2>4. loop' \in Loop /\ loop'.tools = loop.tools
    BY <1>4, <2>1, <2>2 DEF Inject, TypeOK, Loop
  <2> QED
    BY <1>4, <2>3, <2>4 DEF Inject, TypeOK
<1>5. CASE Injected
  <2>1. loop' \in Loop /\ loop'.tools = loop.tools
    BY <1>5 DEF Injected, TypeOK, Loop, PCs
  <2> QED
    BY <1>5, <2>1 DEF Injected, TypeOK
<1>6. CASE RequestStarted
  <2>1. loop' \in Loop /\ loop'.tools = loop.tools
    BY <1>6 DEF RequestStarted, TypeOK, Loop, PCs
  <2>2. state' \in AgentState
    BY <1>6 DEF RequestStarted, TypeOK, AgentState
  <2> QED
    BY <1>6, <2>1, <2>2 DEF RequestStarted, TypeOK
<1> QED
  BY <1>1, <1>2, <1>3, <1>4, <1>5, <1>6

(* A new batch has one status for each of its calls.                       *)
LEMMA NewToolsTyped ==
    ASSUME NEW n \in 0..MaxCalls, NEW stop \in StopReasons, NEW parallel \in BOOLEAN
    PROVE  NewTools(n, stop, parallel) \in Batch /\ BatchOK(NewTools(n, stop, parallel))
<1>1. CASE n = 0 \/ stop \in Fatal
  BY <1>1, IdleLoopTyped DEF NewTools
<1>2. CASE ~ (n = 0 \/ stop \in Fatal)
  <2> DEFINE st == [i \in 1..n |-> IF stop = "length" THEN "done" ELSE "new"]
  <2>1. n \in Nat /\ n <= MaxCalls
    BY ConstantsAssumption
  <2>2. st \in Seq(CallStatus) /\ Len(st) = n
    BY <2>1 DEF CallStatus
  <2>3. NewTools(n, stop, parallel) =
          [n |-> n, k |-> 1, terminate |-> {}, parallel |-> parallel, st |-> st]
    BY <1>2 DEF NewTools
  <2> HIDE DEF st
  <2> QED
    BY <2>1, <2>2, <2>3 DEF Batch, BatchOK
<1> QED
  BY <1>1, <1>2

LEMMA TypeReceive ==
    ASSUME TypeOK, NEW n \in 0..MaxCalls, NEW stop \in StopReasons, NEW parallel \in BOOLEAN,
           Receive(n, stop, parallel)
    PROVE  TypeOK'
<1> DEFINE m == assistant(turns + 1, n, stop)
<1>1. n \in Nat /\ turns + 1 \in Nat
  BY ConstantsAssumption DEF TypeOK
<1>2. m \in Message
  BY <1>1, MessagesTyped
<1>3. state' = [Push(m) EXCEPT !.errorMessage = @ \/ stop \in Fatal] /\ turns' = turns + 1
  BY DEF Receive
<1>4. Append(loop.context, m) \in Seq(Message)
  BY <1>2, LoopFields DEF TypeOK
<1>5. AfterAnswer(n, stop) \in PCs
  BY DEF AfterAnswer, PCs
<1>6. loop' = [loop EXCEPT !.context = Append(loop.context, m), !.hasMore = FALSE,
                           !.pc = AfterAnswer(n, stop), !.tools = NewTools(n, stop, parallel)]
  BY DEF Receive
<1>7. Push(m) \in AgentState
  BY <1>2, PushTyped DEF TypeOK
<1> HIDE DEF m
<1>8. loop' \in Loop /\ loop'.tools = NewTools(n, stop, parallel)
  BY <1>4, <1>5, <1>6, NewToolsTyped DEF TypeOK, Loop
<1>9. state' \in AgentState
  BY <1>3, <1>7 DEF AgentState
<1> QED
  BY <1>1, <1>3, <1>8, <1>9, NewToolsTyped DEF TypeOK, Receive, queues

LEMMA TypeAnswers ==
    ASSUME TypeOK, RequestAborted \/ Respond \/ RespondAborted
    PROVE  TypeOK'
<1>1. \A n \in 0..MaxCalls, stop \in StopReasons, parallel \in BOOLEAN :
        Receive(n, stop, parallel) => TypeOK'
  BY TypeReceive
<1>2. 0 \in 0..MaxCalls /\ FALSE \in BOOLEAN /\ "aborted" \in StopReasons
  BY ConstantsAssumption DEF StopReasons
<1>3. CASE RequestAborted
  BY <1>1, <1>2, <1>3 DEF RequestAborted
<1>4. CASE Respond
  <2>1. PICK n \in 0..MaxCalls, stop \in {"stop", "toolUse", "length", "error"}, sequential \in BOOLEAN :
          Receive(n, stop, Parallel /\ ~ sequential)
    BY <1>4 DEF Respond
  <2>2. stop \in StopReasons /\ (Parallel /\ ~ sequential) \in BOOLEAN
    BY ConstantsAssumption DEF StopReasons
  <2> QED
    BY <1>1, <2>1, <2>2
<1>5. CASE RespondAborted
  BY <1>1, <1>2, <1>5 DEF RespondAborted
<1> QED
  BY <1>3, <1>4, <1>5

(* The state changes of tool_execution_start and tool_execution_end.       *)
LEMMA ToolEventsTyped ==
    ASSUME TypeOK
    PROVE  /\ \A i : Ended(i) \in AgentState /\ Ended(i).messages = state.messages
           /\ \A calls \in SUBSET Nat : /\ Started(calls) \in AgentState
                                        /\ Started(calls).messages = state.messages
<1>1. state.pendingToolCalls \subseteq Nat \X Nat
  BY StateFields DEF TypeOK
<1>2. \A i : Ended(i) \in AgentState /\ Ended(i).messages = state.messages
  BY <1>1 DEF Ended, AgentState, TypeOK
<1>3. ASSUME NEW calls \in SUBSET Nat
      PROVE  Started(calls) \in AgentState /\ Started(calls).messages = state.messages
  <2>1. state.pendingToolCalls \cup {Call(i) : i \in calls} \subseteq Nat \X Nat
    BY <1>1 DEF Call, TypeOK
  <2> QED
    BY <2>1 DEF Started, AgentState, TypeOK
<1> QED
  BY <1>2, <1>3

(* A new status for one call, with the batch's other fields typed.         *)
LEMMA BatchUpdate ==
    ASSUME NEW b \in Batch, BatchOK(b), NEW i \in 1..b.n, NEW status \in CallStatus
    PROVE  /\ [b EXCEPT !.st[i] = status] \in Batch
           /\ BatchOK([b EXCEPT !.st[i] = status])
<1>1. b.st \in Seq(CallStatus) /\ Len(b.st) = b.n /\ b.n \in Nat
  BY BatchFields DEF BatchOK
<1> DEFINE st == [b.st EXCEPT ![i] = status]
<1>2. st \in Seq(CallStatus) /\ Len(st) = b.n
  BY <1>1
<1>3. [b EXCEPT !.st[i] = status] = [b EXCEPT !.st = st]
  BY <1>1 DEF Batch
<1> HIDE DEF st
<1> QED
  BY <1>2, <1>3 DEF Batch, BatchOK

LEMMA LoopUpdate ==
    ASSUME TypeOK, NEW pc \in PCs, NEW b \in Batch
    PROVE  /\ [loop EXCEPT !.pc = pc, !.tools = b] \in Loop
           /\ [loop EXCEPT !.pc = pc, !.tools = b].tools = b
BY DEF TypeOK, Loop

(* A function on 1..n is a sequence of length n.                           *)
LEMMA FunctionIsSeq ==
    ASSUME NEW n \in Nat, NEW S, NEW f,
           \A i \in 1..n : f[i] \in S,
           f = [i \in 1..n |-> f[i]]
    PROVE  f \in Seq(S) /\ Len(f) = n
<1>1. f \in [1..n -> S]
  OBVIOUS
<1>2. QED
  BY <1>1

(* The calls of a batch start and are prepared.                            *)
LEMMA TypeBatchStarts ==
    ASSUME TypeOK,
           \/ StartTools \/ PreparedAll
           \/ \E i \in 1..loop.tools.n : Prepare(i)
    PROVE  TypeOK'
<1> USE DEF queues, hist
<1>f. /\ loop.tools \in Batch /\ BatchOK(loop.tools) /\ loop.tools.n \in Nat /\ loop.tools.k \in Nat
      /\ loop.tools.st \in Seq(CallStatus) /\ Len(loop.tools.st) = loop.tools.n
  BY LoopFields, BatchFields DEF TypeOK, BatchOK
<1>1. CASE StartTools
  <2> DEFINE calls == IF loop.tools.parallel THEN 1..loop.tools.n ELSE {loop.tools.k}
             st == [i \in DOMAIN loop.tools.st |-> IF i \in calls THEN "preparing" ELSE loop.tools.st[i]]
  <2>1. calls \in SUBSET Nat
    BY <1>f
  <2>2. state' \in AgentState
    BY <1>1, <2>1, ToolEventsTyped DEF StartTools
  <2>3. st \in Seq(CallStatus) /\ Len(st) = loop.tools.n
    <3>1. \A i \in 1..loop.tools.n : st[i] \in CallStatus
      BY <1>f DEF CallStatus
    <3> HIDE DEF calls
    <3>2. st = [i \in 1..loop.tools.n |-> st[i]]
      BY <1>f
    <3>3. loop.tools.n \in Nat
      BY <1>f
    <3> HIDE DEF st
    <3> QED
      BY <3>1, <3>2, <3>3, FunctionIsSeq
  <2>4. loop' = [loop EXCEPT !.tools = [loop.tools EXCEPT !.st = st]]
    BY <1>1, <1>f DEF StartTools, TypeOK, Loop
  <2> HIDE DEF st
  <2>5. [loop.tools EXCEPT !.st = st] \in Batch /\ BatchOK([loop.tools EXCEPT !.st = st])
    BY <1>f, <2>3 DEF Batch, BatchOK
  <2>6. loop' \in Loop /\ loop'.tools = [loop.tools EXCEPT !.st = st]
    BY <2>4, <2>5 DEF TypeOK, Loop
  <2> QED
    BY <1>1, <2>2, <2>5, <2>6 DEF StartTools, TypeOK
<1>2. CASE PreparedAll
  <2>1. loop' \in Loop /\ loop'.tools = loop.tools
    BY <1>2 DEF PreparedAll, TypeOK, Loop, PCs
  <2> QED
    BY <1>2, <2>1 DEF PreparedAll, TypeOK
<1>3. ASSUME NEW i \in 1..loop.tools.n, Prepare(i)
      PROVE  TypeOK'
  <2>1. PICK outcome \in {"immediate", "prepared"} : loop' = [loop EXCEPT !.tools.st[i] = outcome]
    BY <1>3 DEF Prepare
  <2> DEFINE b == [loop.tools EXCEPT !.st[i] = outcome]
  <2>2. b \in Batch /\ BatchOK(b)
    BY <1>f, BatchUpdate DEF CallStatus
  <2>3. loop' = [loop EXCEPT !.tools = b]
    BY <2>1 DEF TypeOK, Loop
  <2> HIDE DEF b
  <2>4. loop' \in Loop /\ loop'.tools = b
    BY <2>2, <2>3 DEF TypeOK, Loop
  <2> QED
    BY <1>3, <2>2, <2>4 DEF Prepare, TypeOK
<1> QED
  BY <1>1, <1>2, <1>3

(* The fields of a batch and of the loop after a step that dispatches call *)
(* k, in either mode.                                                      *)
LEMMA DispatchFields ==
    ASSUME TypeOK, NEW k \in 1..loop.tools.n, NEW next \in 1..loop.tools.n, NEW pc \in PCs,
           NEW status \in CallStatus,
           loop' = [loop EXCEPT !.tools.st[k] = status, !.tools.k = next, !.pc = pc]
    PROVE  /\ loop' \in Loop /\ BatchOK(loop'.tools) /\ loop'.pc = pc
           /\ loop'.tools.n = loop.tools.n /\ loop'.tools.k = next
           /\ loop'.tools.parallel = loop.tools.parallel
           /\ loop'.tools.st = [loop.tools.st EXCEPT ![k] = status]
           /\ loop'.context = loop.context /\ loop'.prompts = loop.prompts
           /\ loop'.pending = loop.pending
<1> DEFINE a == [loop.tools EXCEPT !.st[k] = status]
           b == [a EXCEPT !.k = next]
<1>1. loop.tools \in Batch /\ BatchOK(loop.tools)
  BY LoopFields DEF TypeOK
<1>2. a \in Batch /\ BatchOK(a)
  BY <1>1, BatchUpdate
<1>3. /\ a.n = loop.tools.n /\ a.parallel = loop.tools.parallel
      /\ a.st = [loop.tools.st EXCEPT ![k] = status]
  BY <1>1 DEF Batch
<1>4. loop' = [loop EXCEPT !.tools = b, !.pc = pc]
  BY <1>1 DEF TypeOK, Loop, Batch
<1> HIDE DEF a
<1>5. next \in Nat /\ next \in 1..(a.n + 1)
  BY <1>1, <1>3, BatchFields
<1>6. b \in Batch /\ BatchOK(b) /\ b.n = a.n /\ b.st = a.st /\ b.parallel = a.parallel /\ b.k = next
  BY <1>2, <1>5 DEF Batch, BatchOK
<1> HIDE DEF b
<1> QED
  BY <1>3, <1>4, <1>6 DEF TypeOK, Loop

LEMMA DispatchStep ==
    ASSUME TypeOK, Shape, Dispatch
    PROVE  LET k == loop.tools.k
               last == aborted \/ k = loop.tools.n
           IN  /\ TypeOK'
               /\ state' = IF loop.tools.st[k] = "immediate" THEN Ended(k) ELSE state
               /\ loop'.pc = IF last THEN "execute" ELSE "dispatch"
               /\ loop'.tools.n = loop.tools.n /\ loop'.tools.k = IF last THEN 1 ELSE k + 1
               /\ loop'.tools.parallel = loop.tools.parallel
               /\ loop'.tools.st = [loop.tools.st EXCEPT
                                      ![k] = IF @ = "immediate" THEN "done" ELSE "running"]
               /\ loop'.context = loop.context /\ loop'.prompts = loop.prompts
               /\ loop'.pending = loop.pending
<1> DEFINE k == loop.tools.k
           last == aborted \/ k = loop.tools.n
           status == IF loop.tools.st[k] = "immediate" THEN "done" ELSE "running"
           next == IF last THEN 1 ELSE k + 1
           pc == IF last THEN "execute" ELSE "dispatch"
<1>1. k \in 1..loop.tools.n /\ loop.tools.n \in Nat
  BY LoopFields, BatchFields DEF TypeOK, BatchOK, Shape, BatchPCs, Dispatch, At
<1>2. next \in 1..loop.tools.n /\ pc \in PCs /\ status \in CallStatus
  BY <1>1 DEF PCs, CallStatus
<1>3. loop.tools.st \in Seq(CallStatus) /\ k \in DOMAIN loop.tools.st
  BY <1>1, LoopFields, BatchFields DEF TypeOK, BatchOK
<1>4. loop' = [loop EXCEPT !.tools.st[k] = status, !.tools.k = next, !.pc = pc]
  BY <1>3 DEF Dispatch, TypeOK, Loop, Batch
<1>5. [loop.tools.st EXCEPT ![k] = IF @ = "immediate" THEN "done" ELSE "running"]
        = [loop.tools.st EXCEPT ![k] = status]
  BY <1>3
<1>6. state' = IF loop.tools.st[k] = "immediate" THEN Ended(k) ELSE state
  BY DEF Dispatch
<1>7. state' \in AgentState
  BY <1>6, ToolEventsTyped DEF TypeOK
<1> HIDE DEF next, pc, status, k
<1>8. /\ loop' \in Loop /\ BatchOK(loop'.tools) /\ loop'.pc = pc
      /\ loop'.tools.n = loop.tools.n /\ loop'.tools.k = next
      /\ loop'.tools.parallel = loop.tools.parallel
      /\ loop'.tools.st = [loop.tools.st EXCEPT ![k] = status]
      /\ loop'.context = loop.context /\ loop'.prompts = loop.prompts
      /\ loop'.pending = loop.pending
  BY <1>1, <1>2, <1>4, DispatchFields
<1>9. TypeOK'
  BY <1>7, <1>8 DEF TypeOK, Dispatch, queues, hist
<1> QED
  BY <1>5, <1>6, <1>8, <1>9 DEF next, pc, k

LEMMA DispatchOneStep ==
    ASSUME TypeOK, Shape, DispatchOne
    PROVE  LET k == loop.tools.k
           IN  /\ TypeOK'
               /\ state' = IF loop.tools.st[k] = "immediate" THEN Ended(k) ELSE state
               /\ loop'.pc = "execute"
               /\ loop'.tools.n = loop.tools.n /\ loop'.tools.k = k
               /\ loop'.tools.parallel = loop.tools.parallel
               /\ loop'.tools.st = [loop.tools.st EXCEPT
                                      ![k] = IF @ = "immediate" THEN "done" ELSE "running"]
               /\ loop'.context = loop.context /\ loop'.prompts = loop.prompts
               /\ loop'.pending = loop.pending
<1> DEFINE k == loop.tools.k
           status == IF loop.tools.st[k] = "immediate" THEN "done" ELSE "running"
<1>1. k \in 1..loop.tools.n /\ loop.tools.n \in Nat
  BY LoopFields, BatchFields DEF TypeOK, BatchOK, Shape, BatchPCs, DispatchOne, At
<1>2. "execute" \in PCs /\ status \in CallStatus
  BY DEF PCs, CallStatus
<1>3. loop.tools.st \in Seq(CallStatus) /\ k \in DOMAIN loop.tools.st
  BY <1>1, LoopFields, BatchFields DEF TypeOK, BatchOK
<1>4. loop' = [loop EXCEPT !.tools.st[k] = status, !.tools.k = k, !.pc = "execute"]
  BY <1>3 DEF DispatchOne, TypeOK, Loop, Batch
<1>5. [loop.tools.st EXCEPT ![k] = IF @ = "immediate" THEN "done" ELSE "running"]
        = [loop.tools.st EXCEPT ![k] = status]
  BY <1>3
<1>6. state' = IF loop.tools.st[k] = "immediate" THEN Ended(k) ELSE state
  BY DEF DispatchOne
<1>7. state' \in AgentState
  BY <1>6, ToolEventsTyped DEF TypeOK
<1> HIDE DEF status, k
<1>8. /\ loop' \in Loop /\ BatchOK(loop'.tools) /\ loop'.pc = "execute"
      /\ loop'.tools.n = loop.tools.n /\ loop'.tools.k = k
      /\ loop'.tools.parallel = loop.tools.parallel
      /\ loop'.tools.st = [loop.tools.st EXCEPT ![k] = status]
      /\ loop'.context = loop.context /\ loop'.prompts = loop.prompts
      /\ loop'.pending = loop.pending
  BY <1>1, <1>2, <1>4, DispatchFields
<1>9. TypeOK'
  BY <1>7, <1>8 DEF TypeOK, DispatchOne, queues, hist
<1> QED
  BY <1>5, <1>6, <1>8, <1>9 DEF k

LEMMA ToolEndsStep ==
    ASSUME TypeOK, Shape, NEW i \in 1..loop.tools.n, ToolEnds(i)
    PROVE  /\ TypeOK'
           /\ state' = Ended(i)
           /\ loop'.pc = "execute" /\ loop'.tools.n = loop.tools.n /\ loop'.tools.k = loop.tools.k
           /\ loop'.tools.parallel = loop.tools.parallel
           /\ loop'.tools.st = [loop.tools.st EXCEPT ![i] = "done"]
           /\ loop'.context = loop.context /\ loop'.prompts = loop.prompts
           /\ loop'.pending = loop.pending
<1>1. PICK terminate \in BOOLEAN :
        loop' = [loop EXCEPT !.tools.st[i] = "done",
                             !.tools.terminate = IF terminate THEN @ \cup {i} ELSE @]
  BY DEF ToolEnds
<1>2. loop.tools \in Batch /\ BatchOK(loop.tools) /\ i \in Nat /\ loop.pc = "execute"
  BY LoopFields, BatchFields DEF TypeOK, ToolEnds, At
<1> DEFINE a == [loop.tools EXCEPT !.st[i] = "done"]
           t == IF terminate THEN loop.tools.terminate \cup {i} ELSE loop.tools.terminate
           b == [a EXCEPT !.terminate = t]
<1>3. a \in Batch /\ BatchOK(a)
  BY <1>2, BatchUpdate DEF CallStatus
<1>4. /\ a.n = loop.tools.n /\ a.k = loop.tools.k /\ a.parallel = loop.tools.parallel
      /\ a.st = [loop.tools.st EXCEPT ![i] = "done"]
  BY <1>2 DEF Batch
<1>5. t \subseteq Nat
  BY <1>2, BatchFields
<1>6. loop' = [loop EXCEPT !.tools = b]
  BY <1>1, <1>2 DEF TypeOK, Loop, Batch
<1> HIDE DEF a, t
<1>7. b \in Batch /\ BatchOK(b) /\ b.n = a.n /\ b.k = a.k /\ b.st = a.st /\ b.parallel = a.parallel
  BY <1>3, <1>5 DEF Batch, BatchOK
<1> HIDE DEF b
<1>8. /\ loop' \in Loop /\ loop'.tools = b /\ loop'.pc = loop.pc
      /\ loop'.context = loop.context /\ loop'.prompts = loop.prompts
      /\ loop'.pending = loop.pending
  BY <1>6, <1>7 DEF TypeOK, Loop
<1>9. state' = Ended(i) /\ state' \in AgentState
  BY ToolEventsTyped DEF ToolEnds
<1>10. TypeOK'
  BY <1>7, <1>8, <1>9 DEF TypeOK, ToolEnds, queues, hist
<1> QED
  BY <1>2, <1>4, <1>7, <1>8, <1>9, <1>10

LEMMA EmitResultStep ==
    ASSUME TypeOK, Shape, EmitResult
    PROVE  LET k == loop.tools.k
           IN  /\ TypeOK'
               /\ k \in 1..loop.tools.n /\ loop.tools.st[k] = "done"
               /\ state' = Push(toolResult(turns, k))
               /\ loop'.pc = IF loop.tools.parallel \/ aborted \/ Last(loop.context).stop = "length"
                                \/ k = loop.tools.n
                             THEN "results" ELSE "prepare"
               /\ loop'.tools.n = loop.tools.n /\ loop'.tools.k = k + 1
               /\ loop'.tools.parallel = loop.tools.parallel
               /\ loop'.tools.st = loop.tools.st
               /\ loop'.context = loop.context /\ loop'.prompts = loop.prompts
               /\ loop'.pending = loop.pending
<1> DEFINE k == loop.tools.k
           pc == IF loop.tools.parallel \/ aborted \/ Last(loop.context).stop = "length"
                    \/ k = loop.tools.n
                 THEN "results" ELSE "prepare"
           b == [loop.tools EXCEPT !.k = k + 1]
<1>1. loop.tools \in Batch /\ BatchOK(loop.tools) /\ loop.tools.n \in Nat
  BY LoopFields, BatchFields DEF TypeOK
<1>2. k \in 1..loop.tools.n /\ loop.tools.st[k] = "done"
  BY DEF EmitResult, Finalized
<1>3. loop' = [loop EXCEPT !.tools = b, !.pc = pc]
  BY <1>1 DEF EmitResult, TypeOK, Loop, Batch
<1>4. /\ b \in Batch /\ BatchOK(b) /\ b.n = loop.tools.n /\ b.k = k + 1 /\ b.st = loop.tools.st
      /\ b.parallel = loop.tools.parallel
  BY <1>1, <1>2 DEF Batch, BatchOK
<1>5. pc \in PCs
  BY DEF PCs
<1> HIDE DEF b, pc
<1>6. /\ loop' \in Loop /\ loop'.tools = b /\ loop'.pc = pc
      /\ loop'.context = loop.context /\ loop'.prompts = loop.prompts
      /\ loop'.pending = loop.pending
  BY <1>3, <1>4, <1>5 DEF TypeOK, Loop
<1>7. state' = Push(toolResult(turns, k))
  BY DEF EmitResult
<1>8. toolResult(turns, k) \in Message
  BY <1>1, <1>2, MessagesTyped DEF TypeOK
<1>9. state' \in AgentState
  BY <1>7, <1>8, PushTyped DEF TypeOK
<1>10. TypeOK'
  BY <1>4, <1>6, <1>9 DEF TypeOK, EmitResult, queues, hist
<1> QED
  BY <1>2, <1>4, <1>6, <1>7, <1>10 DEF pc

LEMMA BatchDoneStep ==
    ASSUME TypeOK, Shape, BatchDone
    PROVE  /\ TypeOK'
           /\ loop'.pc = "turnEnd" /\ loop'.tools = NoTools
           /\ loop'.context = loop.context \o [i \in 1..(loop.tools.k - 1) |-> toolResult(turns, i)]
           /\ loop'.prompts = loop.prompts /\ loop'.pending = loop.pending
<1> DEFINE results == [i \in 1..(loop.tools.k - 1) |-> toolResult(turns, i)]
           more == ~ (results # <<>> /\ \A i \in 1..(loop.tools.k - 1) : i \in loop.tools.terminate)
<1>1. loop.tools.k \in Nat /\ loop.tools.k >= 1 /\ turns \in Nat
  BY LoopFields, BatchFields DEF TypeOK, BatchOK
<1>2. \A i \in 1..(loop.tools.k - 1) : toolResult(turns, i) \in Message
  BY <1>1, MessagesTyped
<1>3. results \in Seq(Message)
  BY <1>1, <1>2
<1>4. more \in BOOLEAN
  OBVIOUS
<1>5. loop' = [loop EXCEPT !.context = loop.context \o results, !.hasMore = more,
                           !.tools = NoTools, !.pc = "turnEnd"]
  BY DEF BatchDone
<1> HIDE DEF more
<1>6. loop.context \o results \in Seq(Message)
  BY <1>3, LoopFields DEF TypeOK
<1>7. /\ loop' \in Loop /\ loop'.tools = NoTools /\ loop'.pc = "turnEnd"
      /\ loop'.context = loop.context \o results /\ loop'.prompts = loop.prompts
      /\ loop'.pending = loop.pending
  <2> HIDE DEF results
  <2> QED
    BY <1>4, <1>5, <1>6, IdleLoopTyped DEF TypeOK, Loop, PCs
<1>8. cutShort' \subseteq Nat
  BY <1>1 DEF BatchDone, TypeOK
<1>9. TypeOK'
  BY <1>7, <1>8, IdleLoopTyped DEF TypeOK, BatchDone, queues
<1> QED
  BY <1>7, <1>9

(* The end of a batch, of a turn and of a run.                             *)
LEMMA TypeClosing ==
    ASSUME TypeOK,
           \/ ToolsEnded \/ EndTurn \/ PollSteering \/ PollFollowUp
           \/ RunFails \/ HandleRunFailure \/ FinishRun \/ OrphanEnds
    PROVE  TypeOK'
<1> USE DEF queues, hist
<1>1. CASE ToolsEnded
  <2>1. loop' \in Loop /\ loop'.tools = loop.tools
    BY <1>1 DEF ToolsEnded, TypeOK, Loop, PCs
  <2> QED
    BY <1>1, <2>1 DEF ToolsEnded, TypeOK
<1>2. CASE EndTurn
  <2>1. loop' \in Loop /\ loop'.tools = loop.tools
    BY <1>2 DEF EndTurn, TypeOK, Loop, PCs
  <2> QED
    BY <1>2, <2>1 DEF EndTurn, TypeOK
<1>3. CASE PollSteering
  <2>1. /\ Drained(steeringQueue, SteeringMode) \in Seq(Message)
        /\ Left(steeringQueue, SteeringMode) \in Seq(Message)
    BY DrainTyped, ConstantsAssumption DEF TypeOK
  <2>2. loop' \in Loop /\ loop'.tools = loop.tools
    BY <1>3, <2>1 DEF PollSteering, TypeOK, Loop, PCs
  <2> QED
    BY <1>3, <2>1, <2>2 DEF PollSteering, TypeOK
<1>4. CASE PollFollowUp
  <2>1. /\ Drained(followUpQueue, FollowUpMode) \in Seq(Message)
        /\ Left(followUpQueue, FollowUpMode) \in Seq(Message)
    BY DrainTyped, ConstantsAssumption DEF TypeOK
  <2>2. loop' \in Loop /\ loop'.tools = loop.tools
    BY <1>4, <2>1 DEF PollFollowUp, TypeOK, Loop, PCs
  <2> QED
    BY <1>4, <2>1, <2>2 DEF PollFollowUp, TypeOK
<1>5. CASE RunFails
  <2>1. loop' \in Loop /\ loop'.tools = NoTools
    BY <1>5, IdleLoopTyped DEF RunFails, Loop, PCs
  <2>2. orphans' \subseteq Nat \X Nat
    <3>1. \A j \in 1..loop.tools.n : Call(j) \in Nat \X Nat
      BY LoopFields, BatchFields DEF TypeOK, Call
    <3> QED
      BY <1>5, <3>1 DEF RunFails, TypeOK
  <2>3. dropped' \subseteq Nat
    BY <1>5, IdsTyped, LoopFields DEF RunFails, TypeOK
  <2>4. cutShort' \subseteq Nat
    BY <1>5 DEF RunFails, TypeOK
  <2> QED
    BY <1>5, <2>1, <2>2, <2>3, <2>4, IdleLoopTyped DEF RunFails, TypeOK
<1>6. CASE HandleRunFailure
  <2> DEFINE m == assistant(turns + 1, 0, IF aborted THEN "aborted" ELSE "error")
  <2>1. m \in Message /\ turns + 1 \in Nat
    BY MessagesTyped DEF TypeOK, StopReasons
  <2>2. Push(m) \in AgentState
    BY <2>1, PushTyped DEF TypeOK
  <2>3. state' = [Push(m) EXCEPT !.errorMessage = TRUE]
    BY <1>6 DEF HandleRunFailure
  <2> HIDE DEF m
  <2>4. state' \in AgentState
    BY <2>2, <2>3 DEF AgentState
  <2>5. loop' \in Loop /\ loop'.tools = loop.tools
    BY <1>6 DEF HandleRunFailure, TypeOK, Loop, PCs
  <2> QED
    BY <1>6, <2>1, <2>4, <2>5 DEF HandleRunFailure, TypeOK
<1>7. CASE FinishRun
  <2>1. state' \in AgentState
    BY <1>7 DEF FinishRun, TypeOK, AgentState
  <2> QED
    BY <1>7, <2>1, IdleLoopTyped DEF FinishRun, TypeOK
<1>8. CASE OrphanEnds
  <2>1. state' \in AgentState
    <3>1. PICK o : state' = [state EXCEPT !.pendingToolCalls = @ \ {o}]
      BY <1>8 DEF OrphanEnds
    <3> QED
      BY <3>1 DEF TypeOK, AgentState
  <2>2. orphans' \subseteq Nat \X Nat
    BY <1>8 DEF OrphanEnds, TypeOK
  <2> QED
    BY <1>8, <2>1, <2>2 DEF OrphanEnds, TypeOK
<1> QED
  BY <1>1, <1>2, <1>3, <1>4, <1>5, <1>6, <1>7, <1>8

LEMMA TypeNext ==
    ASSUME TypeOK, Shape, [Next]_vars
    PROVE  TypeOK'
<1>1. CASE UNCHANGED vars
  BY <1>1 DEF TypeOK, vars, queues, hist
<1>2. CASE LoopStep
  BY <1>2, TypeOpening, TypeAnswers, TypeBatchStarts, DispatchStep, DispatchOneStep,
     EmitResultStep, BatchDoneStep, TypeClosing DEF LoopStep
<1>3. CASE ToolStep
  BY <1>3, ToolEndsStep DEF ToolStep
<1>4. CASE CallerStep
  BY <1>4, TypeRunStarts, TypeCallers DEF CallerStep
<1>5. CASE Respond \/ RespondAborted \/ RunFails \/ OrphanEnds
  BY <1>5, TypeAnswers, TypeClosing
<1> QED
  BY <1>1, <1>2, <1>3, <1>4, <1>5 DEF Next

----------------------------------------------------------------------------
(* The control of the loop.                                                *)

LEMMA ShapeInit == Init => Shape
BY DEF Init, Shape, IdleLoop, BatchPCs


LEMMA ShapeCallers ==
    ASSUME TypeOK, Shape, CallerStep
    PROVE  Shape'
<1>1. ASSUME NEW prompts, NEW skipPoll, Launch(prompts, skipPoll)
      PROVE  Shape'
  <2>1. active' /\ loop'.pc = "start" /\ loop'.tools = NoTools
    BY <1>1 DEF Launch, IdleLoop
  <2> QED
    BY <2>1 DEF Shape, BatchPCs
<1>2. CASE Prompt \/ ContinueQueued \/ ContinueTranscript
  BY <1>1, <1>2 DEF Prompt, ContinueQueued, ContinueTranscript
<1>3. CASE steer \/ followUp \/ clearAllQueues \/ abort \/ DropFailedAnswer
  BY <1>3 DEF Shape, steer, followUp, clearAllQueues, abort, DropFailedAnswer
<1> QED
  BY <1>2, <1>3 DEF CallerStep

(* Steps outside a tool batch, and the one that leaves a batch's phase.    *)
LEMMA ShapePlain ==
    ASSUME TypeOK, Shape,
           \/ EmitPrompt \/ PromptsEmitted \/ InitialPoll \/ Inject \/ Injected \/ RequestStarted
           \/ ToolsEnded \/ EndTurn \/ PollSteering \/ PollFollowUp
           \/ RunFails \/ HandleRunFailure \/ FinishRun \/ OrphanEnds
    PROVE  Shape'
<1> USE DEF At, BatchPCs
<1>1. CASE EmitPrompt
  BY <1>1 DEF EmitPrompt, Shape, TypeOK, Loop
<1>2. CASE PromptsEmitted
  BY <1>2 DEF PromptsEmitted, Shape, TypeOK, Loop
<1>3. CASE InitialPoll
  BY <1>3 DEF InitialPoll, Shape, TypeOK, Loop
<1>4. CASE Inject
  BY <1>4 DEF Inject, Shape, TypeOK, Loop
<1>5. CASE Injected
  BY <1>5 DEF Injected, Shape, TypeOK, Loop
<1>6. CASE RequestStarted
  BY <1>6 DEF RequestStarted, Shape, TypeOK, Loop
<1>7. CASE ToolsEnded
  BY <1>7 DEF ToolsEnded, Shape, TypeOK, Loop
<1>8. CASE EndTurn
  BY <1>8 DEF EndTurn, Shape, TypeOK, Loop
<1>9. CASE PollSteering
  BY <1>9 DEF PollSteering, Shape, TypeOK, Loop
<1>10. CASE PollFollowUp
  BY <1>10 DEF PollFollowUp, Shape, TypeOK, Loop
<1>11. CASE RunFails
  BY <1>11 DEF RunFails, Shape, IdleLoop
<1>12. CASE HandleRunFailure
  BY <1>12 DEF HandleRunFailure, Shape, TypeOK, Loop
<1>13. CASE FinishRun
  BY <1>13 DEF FinishRun, Shape, IdleLoop
<1>14. CASE OrphanEnds
  BY <1>14 DEF OrphanEnds, Shape
<1> QED
  BY <1>1, <1>2, <1>3, <1>4, <1>5, <1>6, <1>7, <1>8, <1>9, <1>10, <1>11, <1>12, <1>13, <1>14

LEMMA ReceiveFields ==
    ASSUME TypeOK, NEW n \in 0..MaxCalls, NEW stop, NEW parallel, Receive(n, stop, parallel)
    PROVE  LET m == assistant(turns + 1, n, stop)
           IN  /\ loop'.pc = AfterAnswer(n, stop)
               /\ loop'.tools = NewTools(n, stop, parallel)
               /\ loop'.context = Append(loop.context, m)
               /\ loop'.prompts = loop.prompts /\ loop'.pending = loop.pending
               /\ state'.messages = Append(state.messages, m)
               /\ state'.pendingToolCalls = state.pendingToolCalls
               /\ turns' = turns + 1 /\ orphans' = orphans
               /\ active' = active /\ aborted' = aborted
<1> DEFINE m == assistant(turns + 1, n, stop)
<1>1. loop' = [loop EXCEPT !.context = Append(loop.context, m), !.hasMore = FALSE,
                           !.pc = AfterAnswer(n, stop), !.tools = NewTools(n, stop, parallel)]
  BY DEF Receive
<1>2. state' = [Push(m) EXCEPT !.errorMessage = @ \/ stop \in Fatal]
  BY DEF Receive
<1>3. Push(m) = [state EXCEPT !.messages = Append(state.messages, m), !.streamingMessage = FALSE]
  BY DEF Push
<1> HIDE DEF m
<1>4. /\ state'.messages = Append(state.messages, m)
      /\ state'.pendingToolCalls = state.pendingToolCalls
  BY <1>2, <1>3 DEF TypeOK, AgentState
<1> QED
  BY <1>1, <1>4 DEF TypeOK, Loop, Receive, m

LEMMA ShapeReceive ==
    ASSUME TypeOK, Shape, active, loop.pc \in {"request", "streaming"},
           NEW n \in 0..MaxCalls, NEW stop \in StopReasons, NEW parallel \in BOOLEAN,
           Receive(n, stop, parallel)
    PROVE  Shape'
<1>1. /\ loop'.pc = AfterAnswer(n, stop) /\ loop'.tools = NewTools(n, stop, parallel)
      /\ loop'.prompts = loop.prompts /\ loop'.pending = loop.pending /\ active'
  BY ReceiveFields
<1>2. CASE n = 0 \/ stop \in Fatal
  <2>1. loop'.tools = NoTools
    BY <1>1, <1>2 DEF NewTools
  <2>2. loop'.pc \in {"end", "turnEnd"}
    <3>1. CASE stop \in Fatal
      BY <1>1, <3>1 DEF AfterAnswer, Fatal
    <3>2. CASE stop \notin Fatal
      BY <1>1, <1>2, <3>2 DEF AfterAnswer, Fatal
    <3> QED
      BY <3>1, <3>2
  <2> QED
    BY <1>1, <2>1, <2>2 DEF Shape, BatchPCs
<1>3. CASE ~ (n = 0 \/ stop \in Fatal)
  <2>1. /\ loop'.tools = [n |-> n, k |-> 1, terminate |-> {}, parallel |-> parallel,
                          st |-> [i \in 1..n |-> IF stop = "length" THEN "done" ELSE "new"]]
        /\ loop'.pc \in {"results", "prepare"}
    BY <1>1, <1>3 DEF NewTools, AfterAnswer
  <2>2. loop'.tools.n = n /\ loop'.tools.k = 1 /\ n \in Nat /\ n > 0
    BY <2>1, <1>3, ConstantsAssumption
  <2> QED
    BY <1>1, <2>1, <2>2 DEF Shape, BatchPCs
<1> QED
  BY <1>2, <1>3

(* Every answer is a Receive at a request.                                 *)
LEMMA AnswersReceive ==
    ASSUME RequestAborted \/ Respond \/ RespondAborted
    PROVE  /\ active /\ loop.pc \in {"request", "streaming"}
           /\ \E n \in 0..MaxCalls, stop \in StopReasons, parallel \in BOOLEAN :
                Receive(n, stop, parallel)
<1>1. 0 \in 0..MaxCalls /\ FALSE \in BOOLEAN /\ "aborted" \in StopReasons
  BY ConstantsAssumption DEF StopReasons
<1>2. CASE RequestAborted
  BY <1>1, <1>2 DEF RequestAborted, At
<1>3. CASE Respond
  <2>1. PICK n \in 0..MaxCalls, stop \in {"stop", "toolUse", "length", "error"}, sequential \in BOOLEAN :
          Receive(n, stop, Parallel /\ ~ sequential)
    BY <1>3 DEF Respond
  <2>2. stop \in StopReasons /\ (Parallel /\ ~ sequential) \in BOOLEAN
    BY ConstantsAssumption DEF StopReasons
  <2> QED
    BY <1>3, <2>1, <2>2 DEF Respond, At
<1>4. CASE RespondAborted
  BY <1>1, <1>4 DEF RespondAborted, At
<1> QED
  BY <1>2, <1>3, <1>4

(* The start of a batch: what stays and what the calls' statuses become.   *)
LEMMA StartToolsStep ==
    ASSUME TypeOK, StartTools
    PROVE  LET calls == IF loop.tools.parallel THEN 1..loop.tools.n ELSE {loop.tools.k}
           IN  /\ active /\ active' = active /\ aborted' = aborted /\ turns' = turns
               /\ orphans' = orphans /\ state' = Started(calls)
               /\ loop.pc = "prepare" /\ loop'.pc = "prepare"
               /\ loop'.tools.n = loop.tools.n /\ loop'.tools.k = loop.tools.k
               /\ loop'.tools.parallel = loop.tools.parallel
               /\ loop'.tools.st = [i \in DOMAIN loop.tools.st |->
                                      IF i \in calls THEN "preparing" ELSE loop.tools.st[i]]
               /\ loop'.context = loop.context /\ loop'.prompts = loop.prompts
               /\ loop'.pending = loop.pending
<1> DEFINE calls == IF loop.tools.parallel THEN 1..loop.tools.n ELSE {loop.tools.k}
           st == [i \in DOMAIN loop.tools.st |-> IF i \in calls THEN "preparing" ELSE loop.tools.st[i]]
<1>1. loop' = [loop EXCEPT !.tools.st = st]
  BY DEF StartTools
<1>2. loop.tools \in Batch
  BY LoopFields DEF TypeOK
<1> HIDE DEF st
<1>3. /\ loop'.pc = loop.pc /\ loop'.context = loop.context /\ loop'.prompts = loop.prompts
      /\ loop'.pending = loop.pending
      /\ loop'.tools = [loop.tools EXCEPT !.st = st]
  BY <1>1 DEF TypeOK, Loop
<1>4. /\ loop'.tools.n = loop.tools.n /\ loop'.tools.k = loop.tools.k
      /\ loop'.tools.parallel = loop.tools.parallel /\ loop'.tools.st = st
  BY <1>2, <1>3 DEF Batch
<1> QED
  BY <1>3, <1>4 DEF StartTools, At, hist, st

LEMMA PrepareStep ==
    ASSUME TypeOK, NEW i \in 1..loop.tools.n, Prepare(i)
    PROVE  /\ active /\ active' = active /\ aborted' = aborted /\ turns' = turns
           /\ orphans' = orphans /\ state' = state
           /\ loop.pc = "prepare" /\ loop'.pc = "prepare" /\ loop.tools.st[i] = "preparing"
           /\ loop'.tools.n = loop.tools.n /\ loop'.tools.k = loop.tools.k
           /\ loop'.tools.parallel = loop.tools.parallel
           /\ \E outcome \in {"immediate", "prepared"} :
                loop'.tools.st = [loop.tools.st EXCEPT ![i] = outcome]
           /\ loop'.context = loop.context /\ loop'.prompts = loop.prompts
           /\ loop'.pending = loop.pending
<1>1. PICK outcome \in {"immediate", "prepared"} : loop' = [loop EXCEPT !.tools.st[i] = outcome]
  BY DEF Prepare
<1>2. loop.tools \in Batch
  BY LoopFields DEF TypeOK
<1>3. /\ loop'.pc = loop.pc /\ loop'.context = loop.context /\ loop'.prompts = loop.prompts
      /\ loop'.pending = loop.pending
      /\ loop'.tools = [loop.tools EXCEPT !.st[i] = outcome]
  BY <1>1 DEF TypeOK, Loop
<1>4. /\ loop'.tools.n = loop.tools.n /\ loop'.tools.k = loop.tools.k
      /\ loop'.tools.parallel = loop.tools.parallel
      /\ loop'.tools.st = [loop.tools.st EXCEPT ![i] = outcome]
  BY <1>2, <1>3 DEF Batch
<1> QED
  BY <1>3, <1>4 DEF Prepare, At, hist

LEMMA ShapeBatch ==
    ASSUME TypeOK, Shape,
           \/ StartTools \/ PreparedAll \/ Dispatch \/ DispatchOne \/ EmitResult \/ BatchDone
           \/ \E i \in 1..loop.tools.n : Prepare(i) \/ ToolEnds(i)
    PROVE  Shape'
<1> USE DEF BatchPCs
<1>f. loop.tools.n \in Nat /\ loop.tools.k \in Nat
  BY LoopFields, BatchFields DEF TypeOK
<1>1. CASE StartTools
  BY <1>1, StartToolsStep DEF Shape
<1>2. CASE PreparedAll
  BY <1>2 DEF PreparedAll, Shape, At, TypeOK, Loop
<1>3. CASE Dispatch
  <2>1. active /\ active' /\ loop.pc = "dispatch"
    BY <1>3 DEF Dispatch, At
  <2> QED
    BY <1>3, <1>f, <2>1, DispatchStep DEF Shape
<1>4. CASE DispatchOne
  <2>1. active /\ active' /\ loop.pc = "prepare" /\ ~ loop.tools.parallel
    BY <1>4 DEF DispatchOne, At
  <2> QED
    BY <1>4, <1>f, <2>1, DispatchOneStep DEF Shape
<1>5. CASE EmitResult
  <2>1. active /\ active' /\ loop.pc = "results"
    BY <1>5 DEF EmitResult, At
  <2> QED
    BY <1>5, <1>f, <2>1, EmitResultStep DEF Shape
<1>6. CASE BatchDone
  <2>1. active /\ active' /\ loop.pc = "results"
    BY <1>6 DEF BatchDone, At
  <2> QED
    BY <1>6, <2>1, BatchDoneStep DEF Shape
<1>7. ASSUME NEW i \in 1..loop.tools.n, Prepare(i)
      PROVE  Shape'
  BY <1>7, PrepareStep DEF Shape
<1>8. ASSUME NEW i \in 1..loop.tools.n, ToolEnds(i)
      PROVE  Shape'
  <2>1. active /\ active' /\ loop.pc = "execute"
    BY <1>8 DEF ToolEnds, At
  <2> QED
    BY <1>8, <2>1, ToolEndsStep DEF Shape
<1> QED
  BY <1>1, <1>2, <1>3, <1>4, <1>5, <1>6, <1>7, <1>8

LEMMA ShapeNext ==
    ASSUME TypeOK, Shape, [Next]_vars
    PROVE  Shape'
<1>1. CASE UNCHANGED vars
  BY <1>1 DEF Shape, vars
<1>2. CASE RequestAborted \/ Respond \/ RespondAborted
  BY <1>2, AnswersReceive, ShapeReceive
<1>3. CASE LoopStep \/ ToolStep
  BY <1>2, <1>3, ShapePlain, ShapeBatch DEF LoopStep, ToolStep
<1>4. CASE CallerStep \/ RunFails \/ OrphanEnds
  BY <1>4, ShapeCallers, ShapePlain
<1> QED
  BY <1>1, <1>2, <1>3, <1>4 DEF Next

(* The state of the Agent and of its loop is always well typed.            *)
THEOREM AgentTypeCorrect == Spec => []TypeOK
<1>1. Init => TypeOK /\ Shape
  BY TypeInit, ShapeInit
<1>2. TypeOK /\ Shape /\ [Next]_vars => TypeOK' /\ Shape'
  BY TypeNext, ShapeNext
<1> QED
  BY <1>1, <1>2, PTL DEF Spec

----------------------------------------------------------------------------
(* The loop's context mirrors the transcript.                              *)

LEMMA MoveHead ==
    ASSUME NEW S, NEW s \in Seq(S), NEW p \in Seq(S), p # <<>>
    PROVE  Append(s, Head(p)) \o Tail(p) = s \o p
OBVIOUS

LEMMA NoResults ==
    ASSUME NEW S, NEW s \in Seq(S), NEW t
    PROVE  s \o Results(t, 0) = s
<1>1. Results(t, 0) = <<>>
  BY DEF Results
<1> QED
  BY <1>1

LEMMA OneMoreResult ==
    ASSUME NEW s \in Seq(Message), NEW t \in Nat, NEW k \in Nat \ {0}
    PROVE  Append(s \o Results(t, k - 1), toolResult(t, k)) = s \o Results(t, k)
<1>1. Results(t, k - 1) \in Seq(Message) /\ Results(t, k) \in Seq(Message)
  BY MessagesTyped DEF Results
<1>2. Len(Results(t, k - 1)) = k - 1 /\ Len(Results(t, k)) = k
  BY DEF Results
<1>3. \A i \in 1..(k - 1) : Results(t, k - 1)[i] = Results(t, k)[i]
  BY DEF Results
<1>4. Results(t, k)[k] = toolResult(t, k)
  BY DEF Results
<1>5. toolResult(t, k) \in Message
  BY MessagesTyped
<1> DEFINE r == Results(t, k - 1)
           m == toolResult(t, k)
<1>6. Append(r, m) \in Seq(Message) /\ Len(Append(r, m)) = k
  BY <1>1, <1>2, <1>5
<1>7. \A i \in 1..k : Append(r, m)[i] = Results(t, k)[i]
  BY <1>1, <1>2, <1>3, <1>4, <1>5
<1>8. Append(r, m) = Results(t, k)
  BY <1>1, <1>2, <1>6, <1>7, SeqEqual
<1>9. \A v \in Seq(Message), w \in Message : Append(s \o v, w) = s \o Append(v, w)
  OBVIOUS
<1> HIDE DEF r, m
<1>10. r \in Seq(Message) /\ m \in Message
  BY <1>1, <1>5 DEF r, m
<1>11. Append(s \o r, m) = s \o Append(r, m)
  BY <1>9, <1>10, Zenon
<1>12. Append(s \o r, m) = s \o Results(t, k)
  BY <1>8, <1>11, Zenon DEF r, m
<1> QED
  BY <1>12, Zenon DEF r, m

LEMMA MirrorInit == Init => Mirror
BY DEF Init, Mirror, IdleLoop, BatchPCs, PlainPCs

LEMMA MirrorCallers ==
    ASSUME TypeOK, Shape, Mirror, CallerStep
    PROVE  Mirror'
<1> USE DEF BatchPCs, PlainPCs
<1>1. ASSUME NEW prompts, NEW skipPoll, Launch(prompts, skipPoll)
      PROVE  Mirror'
  <2>1. /\ loop'.pc = "start" /\ loop'.prompts = prompts
        /\ loop'.context = state.messages \o prompts
    BY <1>1 DEF Launch, IdleLoop
  <2>2. state'.messages = state.messages
    BY <1>1 DEF Launch, TypeOK, AgentState
  <2> QED
    BY <2>1, <2>2 DEF Mirror
<1>2. CASE Prompt \/ ContinueQueued \/ ContinueTranscript
  BY <1>1, <1>2 DEF Prompt, ContinueQueued, ContinueTranscript
<1>3. CASE steer \/ followUp \/ clearAllQueues \/ abort
  BY <1>3 DEF Mirror, Emitted, steer, followUp, clearAllQueues, abort, hist
<1>4. CASE DropFailedAnswer
  BY <1>4 DEF Shape, Mirror, DropFailedAnswer
<1> QED
  BY <1>2, <1>3, <1>4 DEF CallerStep

LEMMA MirrorOpening ==
    ASSUME TypeOK, Shape, Mirror,
           EmitPrompt \/ PromptsEmitted \/ InitialPoll \/ Inject \/ Injected \/ RequestStarted
    PROVE  Mirror'
<1> USE DEF BatchPCs, PlainPCs, At
<1>f. /\ loop.prompts \in Seq(Message) /\ loop.pending \in Seq(Message)
      /\ loop.context \in Seq(Message) /\ state.messages \in Seq(Message)
  BY LoopFields, StateFields DEF TypeOK
<1>1. CASE EmitPrompt
  <2>1. Head(loop.prompts) \in Message
    BY <1>1, <1>f DEF EmitPrompt
  <2>2. state'.messages = Append(state.messages, Head(loop.prompts))
    BY <1>1, <2>1, PushTyped DEF EmitPrompt, TypeOK
  <2>3. /\ loop'.pc = "start" /\ loop'.prompts = Tail(loop.prompts)
        /\ loop'.context = loop.context
    BY <1>1 DEF EmitPrompt, TypeOK, Loop
  <2>4. Append(state.messages, Head(loop.prompts)) \o Tail(loop.prompts)
          = state.messages \o loop.prompts
    BY <1>1, <1>f, MoveHead DEF EmitPrompt
  <2> QED
    BY <1>1, <2>2, <2>3, <2>4 DEF EmitPrompt, Mirror
<1>2. CASE PromptsEmitted
  <2>1. state.messages \o loop.prompts = state.messages
    BY <1>2, <1>f DEF PromptsEmitted
  <2>2. loop'.pc = "poll" /\ loop'.context = loop.context /\ state' = state
    BY <1>2 DEF PromptsEmitted, TypeOK, Loop
  <2> QED
    BY <1>2, <2>1, <2>2 DEF PromptsEmitted, Mirror
<1>3. CASE InitialPoll
  <2>1. loop'.pc = "inject" /\ loop'.context = loop.context /\ state' = state
    BY <1>3 DEF InitialPoll, TypeOK, Loop
  <2> QED
    BY <1>3, <2>1 DEF InitialPoll, Mirror
<1>4. CASE Inject
  <2>1. Head(loop.pending) \in Message
    BY <1>4, <1>f DEF Inject
  <2>2. state'.messages = Append(state.messages, Head(loop.pending))
    BY <1>4, <2>1, PushTyped DEF Inject, TypeOK
  <2>3. loop'.pc = "inject" /\ loop'.context = Append(loop.context, Head(loop.pending))
    BY <1>4 DEF Inject, TypeOK, Loop
  <2> QED
    BY <1>4, <2>2, <2>3 DEF Inject, Mirror
<1>5. CASE Injected
  <2>1. loop'.pc = "request" /\ loop'.context = loop.context /\ state' = state
    BY <1>5 DEF Injected, TypeOK, Loop
  <2> QED
    BY <1>5, <2>1 DEF Injected, Mirror
<1>6. CASE RequestStarted
  <2>1. /\ loop'.pc = "streaming" /\ loop'.context = loop.context
        /\ state'.messages = state.messages
    BY <1>6 DEF RequestStarted, TypeOK, Loop, AgentState
  <2> QED
    BY <1>6, <2>1 DEF RequestStarted, Mirror
<1> QED
  BY <1>1, <1>2, <1>3, <1>4, <1>5, <1>6

LEMMA MirrorReceive ==
    ASSUME TypeOK, Shape, Mirror, active, loop.pc \in {"request", "streaming"},
           NEW n \in 0..MaxCalls, NEW stop \in StopReasons, NEW parallel \in BOOLEAN,
           Receive(n, stop, parallel)
    PROVE  Mirror'
<1>1. state.messages = loop.context
  BY DEF Mirror, PlainPCs
<1>2. state'.messages = loop'.context /\ loop'.pc = AfterAnswer(n, stop)
  BY <1>1, ReceiveFields
<1>3. loop'.pc # "start"
  BY <1>2 DEF AfterAnswer
<1>4. ASSUME loop'.pc \in BatchPCs
      PROVE  Emitted' = 0
  <2>1. stop \notin Fatal /\ n # 0
    BY <1>2, <1>4 DEF AfterAnswer, BatchPCs, Fatal
  <2>2. loop'.tools = NewTools(n, stop, parallel)
    BY ReceiveFields
  <2>3. loop'.tools.k = 1
    BY <2>1, <2>2 DEF NewTools
  <2> QED
    BY <2>3 DEF Emitted
<1>5. loop'.context \in Seq(Message)
  BY TypeReceive, LoopFields DEF TypeOK
<1>6. loop'.context \o Results(turns', 0) = loop'.context
  BY <1>5, NoResults
<1> QED
  BY <1>2, <1>3, <1>4, <1>6 DEF Mirror

LEMMA MirrorBatch ==
    ASSUME TypeOK, Shape, Mirror,
           \/ StartTools \/ PreparedAll \/ Dispatch \/ DispatchOne \/ ToolsEnded
           \/ EmitResult \/ BatchDone
           \/ \E i \in 1..loop.tools.n : Prepare(i) \/ ToolEnds(i)
    PROVE  Mirror'
<1> USE DEF BatchPCs, PlainPCs
<1>f. /\ loop.tools.n \in Nat /\ loop.tools.k \in Nat \ {0} /\ turns \in Nat
      /\ loop.context \in Seq(Message)
  BY LoopFields, BatchFields DEF TypeOK, BatchOK
<1>k. ASSUME loop.pc \in BatchPCs, loop'.pc \in BatchPCs, Emitted' = Emitted, turns' = turns,
             loop'.context = loop.context, state'.messages = state.messages
      PROVE  Mirror'
  BY <1>k DEF Mirror
<1>1. CASE StartTools
  <2>1. state'.messages = state.messages
    <3>1. (IF loop.tools.parallel THEN 1..loop.tools.n ELSE {loop.tools.k}) \in SUBSET Nat
      BY <1>f
    <3> QED
      BY <1>1, <3>1, StartToolsStep, ToolEventsTyped
  <2> QED
    BY <1>1, <1>k, <2>1, StartToolsStep DEF Emitted
<1>2. CASE PreparedAll
  <2>1. /\ loop.pc = "prepare" /\ loop.tools.parallel /\ loop.tools.k = 1
        /\ loop'.pc = "dispatch" /\ loop'.tools = loop.tools /\ loop'.context = loop.context
        /\ state' = state /\ turns' = turns
    BY <1>2 DEF PreparedAll, At, Shape, TypeOK, Loop, hist
  <2> QED
    BY <1>k, <2>1 DEF Emitted
<1>3. CASE Dispatch
  <2>1. loop.pc = "dispatch" /\ loop.tools.parallel /\ turns' = turns
    BY <1>3 DEF Dispatch, At, Shape, hist
  <2>2. state'.messages = state.messages
    BY <1>3, DispatchStep, ToolEventsTyped
  <2> QED
    BY <1>3, <1>k, <2>1, <2>2, DispatchStep DEF Emitted
<1>4. CASE DispatchOne
  <2>1. loop.pc = "prepare" /\ ~ loop.tools.parallel /\ turns' = turns
    BY <1>4 DEF DispatchOne, At, Shape, hist
  <2>2. state'.messages = state.messages
    BY <1>4, DispatchOneStep, ToolEventsTyped
  <2> QED
    BY <1>4, <1>k, <2>1, <2>2, DispatchOneStep DEF Emitted
<1>5. CASE ToolsEnded
  <2>1. /\ loop.pc = "execute" /\ loop'.pc = "results" /\ loop'.tools = loop.tools
        /\ loop'.context = loop.context /\ state' = state /\ turns' = turns
    BY <1>5 DEF ToolsEnded, At, TypeOK, Loop, hist
  <2>2. loop.tools.parallel => loop.tools.k = 1
    BY <2>1 DEF Shape
  <2> QED
    BY <1>f, <1>k, <2>1, <2>2 DEF Emitted
<1>6. CASE EmitResult
  <2> DEFINE k == loop.tools.k
  <2>1. loop.pc = "results" /\ turns' = turns
    BY <1>6 DEF EmitResult, At, hist
  <2>2. toolResult(turns, k) \in Message
    BY <1>f, MessagesTyped
  <2>3. state'.messages = Append(state.messages, toolResult(turns, k))
    BY <1>6, <2>2, EmitResultStep, PushTyped DEF TypeOK
  <2>4. state.messages = loop.context \o Results(turns, k - 1)
    BY <2>1 DEF Mirror, Emitted
  <2>5. state'.messages = loop.context \o Results(turns, k)
    BY <1>f, <2>3, <2>4, OneMoreResult
  <2>6. loop'.context = loop.context /\ loop'.pc \in {"results", "prepare"}
    BY <1>6, EmitResultStep
  <2>7. Emitted' = k
    <3>1. loop'.tools.k = k + 1 /\ loop'.tools.parallel = loop.tools.parallel
      BY <1>6, EmitResultStep
    <3>2. loop'.pc = "results" \/ ~ loop'.tools.parallel
      BY <1>6, EmitResultStep
    <3> QED
      BY <1>f, <3>1, <3>2 DEF Emitted
  <2> QED
    BY <2>1, <2>5, <2>6, <2>7 DEF Mirror
<1>7. CASE BatchDone
  <2>1. loop.pc = "results" /\ state' = state
    BY <1>7 DEF BatchDone, At
  <2>2. state.messages = loop.context \o Results(turns, loop.tools.k - 1)
    BY <2>1 DEF Mirror, Emitted
  <2>3. loop'.pc = "turnEnd" /\ loop'.context = loop.context \o Results(turns, loop.tools.k - 1)
    BY <1>7, BatchDoneStep DEF Results
  <2> QED
    BY <2>1, <2>2, <2>3 DEF Mirror
<1>8. ASSUME NEW i \in 1..loop.tools.n, Prepare(i)
      PROVE  Mirror'
  BY <1>8, <1>k, PrepareStep DEF Emitted
<1>9. ASSUME NEW i \in 1..loop.tools.n, ToolEnds(i)
      PROVE  Mirror'
  <2>1. loop.pc = "execute" /\ turns' = turns
    BY <1>9 DEF ToolEnds, At, hist
  <2>2. state'.messages = state.messages
    BY <1>9, ToolEndsStep, ToolEventsTyped
  <2> QED
    BY <1>9, <1>k, <2>1, <2>2, ToolEndsStep DEF Emitted
<1> QED
  BY <1>1, <1>2, <1>3, <1>4, <1>5, <1>6, <1>7, <1>8, <1>9

LEMMA MirrorClosing ==
    ASSUME TypeOK, Shape, Mirror,
           \/ EndTurn \/ PollSteering \/ PollFollowUp
           \/ RunFails \/ HandleRunFailure \/ FinishRun \/ OrphanEnds
    PROVE  Mirror'
<1> USE DEF BatchPCs, PlainPCs, At
<1>1. CASE EndTurn
  BY <1>1 DEF EndTurn, Mirror, TypeOK, Loop
<1>2. CASE PollSteering
  BY <1>2 DEF PollSteering, Mirror, TypeOK, Loop
<1>3. CASE PollFollowUp
  BY <1>3 DEF PollFollowUp, Mirror, TypeOK, Loop
<1>4. CASE RunFails
  BY <1>4 DEF RunFails, Mirror, IdleLoop
<1>5. CASE HandleRunFailure
  BY <1>5 DEF HandleRunFailure, Mirror, TypeOK, Loop
<1>6. CASE FinishRun
  BY <1>6 DEF FinishRun, Mirror, IdleLoop
<1>7. CASE OrphanEnds
  <2>1. state'.messages = state.messages
    <3>1. PICK o : state' = [state EXCEPT !.pendingToolCalls = @ \ {o}]
      BY <1>7 DEF OrphanEnds
    <3> QED
      BY <3>1 DEF TypeOK, AgentState
  <2> QED
    BY <1>7, <2>1 DEF OrphanEnds, Mirror, Emitted
<1> QED
  BY <1>1, <1>2, <1>3, <1>4, <1>5, <1>6, <1>7

LEMMA MirrorNext ==
    ASSUME TypeOK, Shape, Mirror, [Next]_vars
    PROVE  Mirror'
<1>1. CASE UNCHANGED vars
  BY <1>1 DEF Mirror, Emitted, vars, hist
<1>2. CASE RequestAborted \/ Respond \/ RespondAborted
  BY <1>2, AnswersReceive, MirrorReceive
<1>3. CASE LoopStep \/ ToolStep
  BY <1>2, <1>3, MirrorOpening, MirrorBatch, MirrorClosing DEF LoopStep, ToolStep
<1>4. CASE CallerStep \/ RunFails \/ OrphanEnds
  BY <1>4, MirrorCallers, MirrorClosing
<1> QED
  BY <1>1, <1>2, <1>3, <1>4 DEF Next

(* Whenever the loop is about to ask the provider, or is waiting for its   *)
(* answer, the context it sends is the transcript the Agent shows.         *)
THEOREM ContextIsTranscript == Spec => []ContextMirrorsTranscript
<1>1. Init => TypeOK /\ Shape /\ Mirror
  BY TypeInit, ShapeInit, MirrorInit
<1>2. TypeOK /\ Shape /\ Mirror /\ [Next]_vars => TypeOK' /\ Shape' /\ Mirror'
  BY TypeNext, ShapeNext, MirrorNext
<1>3. Mirror => ContextMirrorsTranscript
  BY DEF Mirror, ContextMirrorsTranscript, At, PlainPCs
<1> QED
  BY <1>1, <1>2, <1>3, PTL DEF Spec

----------------------------------------------------------------------------
(* The calls shown as pending are the calls at work.                       *)

LEMMA ProgressReceive ==
    ASSUME TypeOK, NEW n \in 0..MaxCalls, NEW stop \in StopReasons, NEW parallel \in BOOLEAN,
           Receive(n, stop, parallel)
    PROVE  Progress'
<1> DEFINE m == assistant(turns + 1, n, stop)
<1>1. /\ loop'.pc = AfterAnswer(n, stop) /\ loop'.tools = NewTools(n, stop, parallel)
      /\ loop'.context = Append(loop.context, m)
  BY ReceiveFields
<1>2. CASE loop'.pc \in BatchPCs
  <2>1. stop \notin Fatal /\ n # 0 /\ loop'.pc = IF stop = "length" THEN "results" ELSE "prepare"
    BY <1>1, <1>2 DEF AfterAnswer, BatchPCs, Fatal
  <2>2. /\ loop'.tools.n = n /\ loop'.tools.k = 1
        /\ loop'.tools.st = [i \in 1..n |-> IF stop = "length" THEN "done" ELSE "new"]
    BY <1>1, <2>1 DEF NewTools
  <2>3. n \in Nat /\ n > 0
    BY <2>1, ConstantsAssumption
  <2>4. Last(loop'.context).stop = stop
    <3>1. n \in Nat /\ turns + 1 \in Nat
      BY <2>3 DEF TypeOK
    <3>2. m \in Message /\ m.stop = stop
      BY <3>1, MessagesTyped DEF assistant
    <3>3. loop.context \in Seq(Message)
      BY LoopFields DEF TypeOK
    <3> HIDE DEF m
    <3>4. Last(Append(loop.context, m)) = m
      BY <3>2, <3>3 DEF Last
    <3> QED
      BY <1>1, <3>2, <3>4
  <2> QED
    BY <2>1, <2>2, <2>3, <2>4 DEF Progress, BatchPCs
<1> QED
  BY <1>2 DEF Progress

(* The steps of a batch that change the calls' statuses.                   *)
LEMMA ProgressCalls ==
    ASSUME TypeOK, Shape, Progress,
           \/ StartTools \/ Dispatch \/ DispatchOne
           \/ \E i \in 1..loop.tools.n : Prepare(i) \/ ToolEnds(i)
    PROVE  Progress'
<1> USE DEF BatchPCs
<1>f. /\ loop.tools.n \in Nat /\ loop.tools.k \in Nat \ {0}
      /\ loop.tools.st \in Seq(CallStatus) /\ DOMAIN loop.tools.st = 1..loop.tools.n
  BY LoopFields, BatchFields DEF TypeOK, BatchOK
<1>1. CASE StartTools
  <2> DEFINE calls == IF loop.tools.parallel THEN 1..loop.tools.n ELSE {loop.tools.k}
  <2>1. /\ loop.pc = "prepare" /\ loop.tools.k <= loop.tools.n /\ loop.tools.n > 0
        /\ loop.tools.parallel => loop.tools.k = 1
    BY <1>1 DEF StartTools, At, Shape
  <2>2. \A i \in calls : loop.tools.st[i] = "new"
    BY <1>1 DEF StartTools
  <2>3. Last(loop.context).stop # "length"
    BY <1>f, <2>1, <2>2 DEF Progress
  <2>4. /\ loop'.pc = "prepare" /\ loop'.tools.n = loop.tools.n /\ loop'.tools.k = loop.tools.k
        /\ loop'.tools.parallel = loop.tools.parallel /\ loop'.context = loop.context
        /\ loop'.tools.st = [i \in DOMAIN loop.tools.st |->
                               IF i \in calls THEN "preparing" ELSE loop.tools.st[i]]
    BY <1>1, StartToolsStep
  <2>5. \A i \in 1..(loop.tools.k - 1) : loop'.tools.st[i] = "done"
    <3>1. SUFFICES ASSUME NEW i \in 1..(loop.tools.k - 1)
                   PROVE  loop'.tools.st[i] = "done"
      OBVIOUS
    <3>2. i \notin calls /\ i \in 1..loop.tools.n
      BY <1>f, <2>1
    <3>3. loop.tools.st[i] = "done"
      BY <2>1 DEF Progress
    <3> HIDE DEF calls
    <3> QED
      BY <1>f, <2>4, <3>2, <3>3
  <2>6. loop.tools.parallel =>
          \A i \in 1..loop.tools.n : loop'.tools.st[i] \in {"new", "preparing", "immediate", "prepared"}
    <3> HIDE DEF calls
    <3> QED
      BY <1>f, <2>1, <2>4 DEF Progress
  <2> HIDE DEF calls
  <2> QED
    BY <2>3, <2>4, <2>5, <2>6 DEF Progress
<1>2. CASE Dispatch
  <2>1. loop.pc = "dispatch" /\ loop.tools.k <= loop.tools.n /\ aborted' = aborted
    BY <1>2 DEF Dispatch, At, Shape
  <2>2. Last(loop.context).stop # "length"
    BY <1>f, <2>1 DEF Progress
  <2> QED
    <3> DEFINE k == loop.tools.k
               last == aborted \/ k = loop.tools.n
    <3>1. /\ loop'.tools.n = loop.tools.n /\ loop'.context = loop.context
          /\ loop'.tools.k = IF last THEN 1 ELSE k + 1
          /\ loop'.pc = IF last THEN "execute" ELSE "dispatch"
          /\ loop'.tools.st = [loop.tools.st EXCEPT
                                 ![k] = IF @ = "immediate" THEN "done" ELSE "running"]
      BY <1>2, DispatchStep
    <3>2. loop'.tools.st[k] \in {"running", "done"}
      BY <1>f, <2>1, <3>1
    <3>3. \A i \in 1..loop.tools.n : i # k => loop'.tools.st[i] = loop.tools.st[i]
      BY <1>f, <3>1
    <3>4. \A i \in 1..k : loop'.tools.st[i] \in {"running", "done"}
      BY <1>f, <2>1, <3>2, <3>3 DEF Progress
    <3>5. CASE last
      <4>1. loop'.tools.st[1] \in {"running", "done"}
        BY <1>f, <3>4
      <4>2. ~ aborted => \A i \in 1..loop.tools.n : loop'.tools.st[i] \in {"running", "done"}
        BY <3>4, <3>5
      <4>3. loop'.pc = "execute" /\ loop'.tools.k = 1
        BY <3>1, <3>5
      <4> QED
        BY <2>1, <2>2, <3>1, <4>1, <4>2, <4>3 DEF Progress
    <3>6. CASE ~ last
      <4>1. loop'.pc = "dispatch" /\ loop'.tools.k = k + 1
        BY <3>1, <3>6
      <4>2. \A i \in (k + 1)..loop.tools.n : loop'.tools.st[i] \in {"immediate", "prepared"}
        BY <1>f, <2>1, <3>3 DEF Progress
      <4> QED
        BY <1>f, <2>1, <2>2, <3>1, <3>4, <4>1, <4>2 DEF Progress
    <3> QED
      BY <3>5, <3>6
<1>3. CASE DispatchOne
  <2>1. /\ loop.pc = "prepare" /\ loop.tools.k <= loop.tools.n /\ aborted' = aborted
        /\ ~ loop.tools.parallel /\ loop.tools.st[loop.tools.k] \in {"immediate", "prepared"}
    BY <1>3 DEF DispatchOne, At, Shape
  <2>2. Last(loop.context).stop # "length"
    BY <1>f, <2>1 DEF Progress
  <2> QED
    BY <1>3, <1>f, <2>1, <2>2, DispatchOneStep DEF Progress
<1>4. ASSUME NEW i \in 1..loop.tools.n, Prepare(i)
      PROVE  Progress'
  <2>1. loop.pc = "prepare" /\ loop.tools.st[i] = "preparing"
    BY <1>4, PrepareStep
  <2>2. Last(loop.context).stop # "length"
    BY <1>f, <2>1 DEF Progress
  <2> QED
    <3>1. PICK outcome \in {"immediate", "prepared"} :
            loop'.tools.st = [loop.tools.st EXCEPT ![i] = outcome]
      BY <1>4, PrepareStep
    <3>2. /\ loop'.pc = "prepare" /\ loop'.tools.n = loop.tools.n /\ loop'.tools.k = loop.tools.k
          /\ loop'.tools.parallel = loop.tools.parallel /\ loop'.context = loop.context
      BY <1>4, PrepareStep
    <3>3. \A j \in 1..loop.tools.n : loop'.tools.st[j] = IF j = i THEN outcome ELSE loop.tools.st[j]
      BY <1>f, <3>1
    <3>4. \A j \in 1..(loop.tools.k - 1) : j \in 1..loop.tools.n /\ loop.tools.st[j] = "done"
      BY <1>f, <2>1 DEF Progress, Shape
    <3> QED
      BY <1>f, <2>1, <2>2, <3>2, <3>3, <3>4 DEF Progress
<1>5. ASSUME NEW i \in 1..loop.tools.n, ToolEnds(i)
      PROVE  Progress'
  <2>1. loop.pc = "execute" /\ loop.tools.st[i] = "running" /\ aborted' = aborted
    BY <1>5 DEF ToolEnds, At
  <2>2. Last(loop.context).stop # "length"
    BY <1>f, <2>1 DEF Progress
  <2> QED
    <3>1. /\ loop'.pc = "execute" /\ loop'.tools.n = loop.tools.n /\ loop'.tools.k = loop.tools.k
          /\ loop'.tools.parallel = loop.tools.parallel /\ loop'.context = loop.context
          /\ loop'.tools.st = [loop.tools.st EXCEPT ![i] = "done"]
      BY <1>5, ToolEndsStep
    <3>2. \A j \in 1..loop.tools.n : loop'.tools.st[j] = IF j = i THEN "done" ELSE loop.tools.st[j]
      BY <1>f, <3>1
    <3>3. loop.tools.k \in 1..loop.tools.n
      BY <1>f, <2>1 DEF Shape
    <3>4. \A j \in 1..(loop.tools.k - 1) : j \in 1..loop.tools.n
      BY <1>f, <3>3
    <3> QED
      BY <1>f, <2>1, <2>2, <3>1, <3>2, <3>3, <3>4 DEF Progress
<1> QED
  BY <1>1, <1>2, <1>3, <1>4, <1>5

(* The steps of a batch that only move on.                                 *)
LEMMA ProgressMoves ==
    ASSUME TypeOK, Shape, Progress,
           PreparedAll \/ ToolsEnded \/ EmitResult \/ BatchDone
    PROVE  Progress'
<1> USE DEF BatchPCs
<1>f. /\ loop.tools.n \in Nat /\ loop.tools.k \in Nat \ {0}
      /\ loop.tools.st \in Seq(CallStatus) /\ DOMAIN loop.tools.st = 1..loop.tools.n
  BY LoopFields, BatchFields DEF TypeOK, BatchOK
<1>1. CASE PreparedAll
  <2>1. /\ loop.pc = "prepare" /\ loop.tools.parallel /\ loop.tools.k = 1 /\ loop.tools.n > 0
        /\ loop'.pc = "dispatch" /\ loop'.tools = loop.tools /\ loop'.context = loop.context
        /\ aborted' = aborted
    BY <1>1 DEF PreparedAll, At, Shape, TypeOK, Loop
  <2>2. \A i \in 1..loop.tools.n : loop.tools.st[i] \in {"immediate", "prepared"}
    BY <1>1, <2>1 DEF PreparedAll, Settled, Progress
  <2> QED
    BY <1>f, <2>1, <2>2 DEF Progress
<1>2. CASE ToolsEnded
  <2>1. /\ loop.pc = "execute" /\ loop'.pc = "results" /\ loop'.tools = loop.tools
        /\ loop'.context = loop.context /\ aborted' = aborted
        /\ \A i \in 1..loop.tools.n : loop.tools.st[i] # "running"
    BY <1>2 DEF ToolsEnded, At, TypeOK, Loop
  <2> QED
    BY <1>f, <2>1 DEF Progress
<1>3. CASE EmitResult
  <2>1. loop.pc = "results" /\ aborted' = aborted
    BY <1>3 DEF EmitResult, At
  <2> QED
    <3> DEFINE k == loop.tools.k
    <3>1. /\ loop'.tools.n = loop.tools.n /\ loop'.tools.k = k + 1
          /\ loop'.tools.parallel = loop.tools.parallel /\ loop'.context = loop.context
          /\ loop'.tools.st = loop.tools.st
          /\ k \in 1..loop.tools.n /\ loop.tools.st[k] = "done"
      BY <1>3, EmitResultStep
    <3>2. \A i \in 1..k : loop.tools.st[i] = "done"
      BY <1>f, <2>1, <3>1 DEF Progress
    <3>3. CASE loop'.pc = "results"
      <4>1. ASSUME ~ aborted, k + 1 <= loop.tools.n
            PROVE  loop.tools.st[k + 1] = "done"
        <5>1. loop.tools.parallel \/ Last(loop.context).stop = "length"
          BY <1>3, <1>f, <3>3, <4>1, EmitResultStep
        <5> QED
          BY <1>f, <2>1, <4>1, <5>1 DEF Progress
      <4> QED
        BY <1>f, <2>1, <3>1, <3>2, <3>3, <4>1 DEF Progress
    <3>4. CASE loop'.pc = "prepare"
      <4>1. ~ loop.tools.parallel /\ Last(loop.context).stop # "length"
        BY <1>3, <3>4, EmitResultStep
      <4> QED
        BY <1>f, <3>1, <3>2, <3>4, <4>1 DEF Progress
    <3> QED
      BY <1>3, <3>3, <3>4, EmitResultStep
<1>4. CASE BatchDone
  BY <1>4, BatchDoneStep DEF Progress
<1> QED
  BY <1>1, <1>2, <1>3, <1>4

(* Outside a batch there is nothing to show.                               *)
LEMMA ProgressOutside ==
    ASSUME TypeOK, Shape, Progress,
           \/ EmitPrompt \/ PromptsEmitted \/ InitialPoll \/ Inject \/ Injected \/ RequestStarted
           \/ EndTurn \/ PollSteering \/ PollFollowUp
           \/ RunFails \/ HandleRunFailure \/ FinishRun
           \/ OrphanEnds \/ CallerStep
    PROVE  Progress'
<1> USE DEF BatchPCs, At
<1>1. CASE EmitPrompt \/ PromptsEmitted \/ InitialPoll \/ Inject \/ Injected \/ RequestStarted
  BY <1>1 DEF Progress, EmitPrompt, PromptsEmitted, InitialPoll, Inject, Injected, RequestStarted,
              TypeOK, Loop
<1>2. CASE EndTurn \/ PollSteering \/ PollFollowUp \/ HandleRunFailure
  BY <1>2 DEF Progress, EndTurn, PollSteering, PollFollowUp, HandleRunFailure, TypeOK, Loop
<1>3. CASE RunFails \/ FinishRun
  BY <1>3 DEF Progress, RunFails, FinishRun, IdleLoop
<1>4. CASE OrphanEnds
  BY <1>4 DEF Progress, OrphanEnds
<1>5. CASE CallerStep
  <2>1. ASSUME NEW prompts, NEW skipPoll, Launch(prompts, skipPoll)
        PROVE  Progress'
    BY <2>1 DEF Launch, IdleLoop, Progress
  <2>2. CASE Prompt \/ ContinueQueued \/ ContinueTranscript
    BY <2>1, <2>2 DEF Prompt, ContinueQueued, ContinueTranscript
  <2>3. CASE steer \/ followUp \/ clearAllQueues \/ DropFailedAnswer
    BY <2>3 DEF Progress, steer, followUp, clearAllQueues, DropFailedAnswer
  <2>4. CASE abort
    BY <2>4 DEF Progress, abort
  <2> QED
    BY <1>5, <2>2, <2>3, <2>4 DEF CallerStep
<1> QED
  BY <1>1, <1>2, <1>3, <1>4, <1>5

LEMMA ProgressNext ==
    ASSUME TypeOK, Shape, Progress, [Next]_vars
    PROVE  Progress'
<1>1. CASE UNCHANGED vars
  BY <1>1 DEF Progress, vars
<1>2. CASE RequestAborted \/ Respond \/ RespondAborted
  BY <1>2, AnswersReceive, ProgressReceive
<1>3. CASE LoopStep \/ ToolStep
  BY <1>2, <1>3, ProgressCalls, ProgressMoves, ProgressOutside DEF LoopStep, ToolStep
<1>4. CASE CallerStep \/ RunFails \/ OrphanEnds
  BY <1>4, ProgressOutside
<1> QED
  BY <1>1, <1>2, <1>3, <1>4 DEF Next

LEMMA OrphansNext ==
    ASSUME TypeOK, Shape, OrphansAreOld, [Next]_vars
    PROVE  OrphansAreOld'
<1>f. turns \in Nat /\ orphans \subseteq Nat \X Nat /\ loop.tools.n \in Nat
  BY LoopFields, BatchFields DEF TypeOK
<1>0. NoTools.n = 0 /\ IdleLoop.tools = NoTools
  BY DEF NoTools, IdleLoop
<1>1. ASSUME orphans' \subseteq orphans, turns' = turns, loop'.tools.n \in {0, loop.tools.n}
      PROVE  OrphansAreOld'
  BY <1>f, <1>1 DEF OrphansAreOld
<1>2. ASSUME orphans' = orphans, turns' = turns + 1
      PROVE  OrphansAreOld'
  BY <1>f, <1>2 DEF OrphansAreOld
<1>3. CASE UNCHANGED vars
  BY <1>1, <1>3 DEF vars, hist
<1>4. CASE RequestAborted \/ Respond \/ RespondAborted
  BY <1>2, <1>4, AnswersReceive, ReceiveFields
<1>5. CASE HandleRunFailure
  BY <1>2, <1>5 DEF HandleRunFailure
<1>6. CASE RunFails
  <2>1. turns' = turns /\ loop'.tools.n = 0
    BY <1>0, <1>6 DEF RunFails, IdleLoop
  <2>2. \A o \in orphans' : o \in orphans \/ \E j : o = Call(j)
    BY <1>6 DEF RunFails
  <2> QED
    BY <1>f, <2>1, <2>2 DEF OrphansAreOld, Call
<1>7. CASE OrphanEnds
  BY <1>1, <1>7 DEF OrphanEnds
<1>8. CASE EmitPrompt \/ PromptsEmitted \/ InitialPoll \/ Inject \/ Injected \/ RequestStarted
  <2>1. loop'.tools = loop.tools
    BY <1>8 DEF EmitPrompt, PromptsEmitted, InitialPoll, Inject, Injected, RequestStarted,
                TypeOK, Loop
  <2> QED
    BY <1>1, <1>8, <2>1 DEF EmitPrompt, PromptsEmitted, InitialPoll, Inject, Injected,
                            RequestStarted, hist
<1>9. CASE ToolsEnded \/ EndTurn \/ PollSteering \/ PollFollowUp \/ PreparedAll
  <2>1. loop'.tools = loop.tools
    BY <1>9 DEF ToolsEnded, EndTurn, PollSteering, PollFollowUp, PreparedAll, TypeOK, Loop
  <2> QED
    BY <1>1, <1>9, <2>1 DEF ToolsEnded, EndTurn, PollSteering, PollFollowUp, PreparedAll, hist
<1>10. CASE FinishRun
  BY <1>0, <1>1, <1>10 DEF FinishRun, hist
<1>11. CASE Dispatch \/ DispatchOne \/ EmitResult \/ BatchDone \/ StartTools
  <2>1. loop'.tools.n \in {0, loop.tools.n}
    BY <1>0, <1>11, DispatchStep, DispatchOneStep, EmitResultStep, BatchDoneStep, StartToolsStep
  <2>2. turns' = turns /\ orphans' = orphans
    BY <1>11 DEF Dispatch, DispatchOne, EmitResult, BatchDone, StartTools, hist
  <2> QED
    BY <1>1, <2>1, <2>2
<1>12. ASSUME NEW i \in 1..loop.tools.n, Prepare(i) \/ ToolEnds(i)
       PROVE  OrphansAreOld'
  <2>1. loop'.tools.n = loop.tools.n
    BY <1>12, PrepareStep, ToolEndsStep
  <2>2. turns' = turns /\ orphans' = orphans
    BY <1>12 DEF Prepare, ToolEnds, hist
  <2> QED
    BY <1>1, <2>1, <2>2
<1>13. CASE CallerStep
  <2>1. CASE Prompt \/ ContinueQueued \/ ContinueTranscript
    <3>1. ASSUME NEW prompts, NEW skipPoll, Launch(prompts, skipPoll)
          PROVE  loop'.tools.n = 0
      BY <1>0, <3>1 DEF Launch, IdleLoop
    <3> QED
      BY <1>1, <2>1, <3>1 DEF Prompt, ContinueQueued, ContinueTranscript, hist
  <2>2. CASE steer \/ followUp \/ clearAllQueues \/ abort \/ DropFailedAnswer
    BY <1>1, <2>2 DEF steer, followUp, clearAllQueues, abort, DropFailedAnswer, hist
  <2> QED
    BY <1>13, <2>1, <2>2 DEF CallerStep
<1> QED
  BY <1>3, <1>4, <1>5, <1>6, <1>7, <1>8, <1>9, <1>10, <1>11, <1>12, <1>13
  DEF Next, LoopStep, ToolStep

(* A step that neither starts nor ends a call.                             *)
LEMMA PendingKept ==
    ASSUME PendingCallsAreReal,
           loop.tools.n = loop'.tools.n, loop'.tools.st = loop.tools.st,
           active, loop.pc \notin {"failed", "end"}, ~ aborted' => ~ aborted,
           turns' = turns, state'.pendingToolCalls = state.pendingToolCalls
    PROVE  PendingCallsAreReal'
BY DEF PendingCallsAreReal, Call

LEMMA PendingEmpty ==
    ASSUME state'.pendingToolCalls = {}, loop'.tools.n = 0
    PROVE  PendingCallsAreReal'
BY DEF PendingCallsAreReal, Call

LEMMA IdleCleanNext ==
    ASSUME TypeOK, Shape, IdleClean, [Next]_vars
    PROVE  IdleClean'
<1>1. ASSUME active' PROVE IdleClean'
  BY <1>1 DEF IdleClean
<1>2. ASSUME active' = active, ~ active, state'.pendingToolCalls \subseteq state.pendingToolCalls
      PROVE  IdleClean'
  BY <1>2 DEF IdleClean
<1>3. CASE UNCHANGED vars
  BY <1>3 DEF IdleClean, vars
<1>4. CASE FinishRun
  BY <1>4 DEF FinishRun, IdleClean, TypeOK, AgentState
<1>5. CASE OrphanEnds
  <2>1. PICK o : state' = [state EXCEPT !.pendingToolCalls = @ \ {o}]
    BY <1>5 DEF OrphanEnds
  <2>2. state'.pendingToolCalls \subseteq state.pendingToolCalls
    BY <2>1 DEF TypeOK, AgentState
  <2> QED
    BY <1>1, <1>2, <1>5, <2>2 DEF OrphanEnds, TypeOK
<1>6. CASE RequestAborted \/ Respond \/ RespondAborted
  BY <1>1, <1>6, AnswersReceive, ReceiveFields
<1>7. CASE \/ EmitPrompt \/ PromptsEmitted \/ InitialPoll \/ Inject \/ Injected \/ RequestStarted
           \/ ToolsEnded \/ EndTurn \/ PollSteering \/ PollFollowUp \/ PreparedAll
           \/ RunFails \/ HandleRunFailure
  BY <1>1, <1>7 DEF EmitPrompt, PromptsEmitted, InitialPoll, Inject, Injected, RequestStarted,
       ToolsEnded, EndTurn, PollSteering, PollFollowUp, PreparedAll, RunFails, HandleRunFailure, At
<1>8. CASE \/ Dispatch \/ DispatchOne \/ EmitResult \/ BatchDone \/ StartTools
           \/ \E i \in 1..loop.tools.n : Prepare(i) \/ ToolEnds(i)
  <2>1. CASE Dispatch \/ DispatchOne \/ StartTools
    BY <1>1, <2>1 DEF Dispatch, DispatchOne, StartTools, At
  <2>2. CASE EmitResult
    BY <1>1, <2>2 DEF EmitResult, At
  <2>3. CASE BatchDone
    BY <1>1, <2>3 DEF BatchDone, At
  <2>4. ASSUME NEW i \in 1..loop.tools.n, Prepare(i) \/ ToolEnds(i)
        PROVE  IdleClean'
    <3>1. CASE Prepare(i)
      BY <1>1, <3>1 DEF Prepare, At
    <3>2. CASE ToolEnds(i)
      BY <1>1, <3>2 DEF ToolEnds, At
    <3> QED
      BY <2>4, <3>1, <3>2
  <2> QED
    BY <1>8, <2>1, <2>2, <2>3, <2>4
<1>9. CASE Prompt \/ ContinueQueued \/ ContinueTranscript
  BY <1>1, <1>9 DEF Prompt, ContinueQueued, ContinueTranscript, Launch
<1>10. CASE steer \/ followUp \/ clearAllQueues \/ abort
  BY <1>10 DEF steer, followUp, clearAllQueues, abort, IdleClean
<1>11. CASE DropFailedAnswer
  <2>1. state'.pendingToolCalls = state.pendingToolCalls
    BY <1>11 DEF DropFailedAnswer, TypeOK, AgentState
  <2> QED
    BY <1>2, <1>11, <2>1 DEF DropFailedAnswer
<1> QED
  BY <1>3, <1>4, <1>5, <1>6, <1>7, <1>8, <1>9, <1>10, <1>11
  DEF Next, LoopStep, ToolStep, CallerStep

(* The steps of a batch that start or end calls.                           *)
LEMMA PendingCalls ==
    ASSUME TypeOK, Shape, Progress, PendingCallsAreReal,
           \/ StartTools \/ Dispatch \/ DispatchOne
           \/ \E i \in 1..loop.tools.n : Prepare(i) \/ ToolEnds(i)
    PROVE  PendingCallsAreReal'
<1> DEFINE Live == {"preparing", "immediate", "prepared", "running"}
           pending == state.pendingToolCalls
<1>f. /\ loop.tools.n \in Nat /\ loop.tools.k \in Nat \ {0} /\ turns \in Nat
      /\ loop.tools.st \in Seq(CallStatus) /\ DOMAIN loop.tools.st = 1..loop.tools.n
  BY LoopFields, BatchFields DEF TypeOK, BatchOK
<1>e. \A i : Ended(i).pendingToolCalls = pending \ {<<turns, i>>}
  BY DEF Ended, Call, TypeOK, AgentState
<1>p. ASSUME active, ~ aborted, loop.pc \notin {"failed", "end"}
      PROVE  pending = {<<turns, i>> : i \in {j \in 1..loop.tools.n : loop.tools.st[j] \in Live}}
  BY <1>p DEF PendingCallsAreReal, Call
<1>q. ASSUME turns' = turns, loop'.tools.n = loop.tools.n,
             active /\ ~ aborted /\ loop.pc \notin {"failed", "end"} =>
               state'.pendingToolCalls =
                 {<<turns, i>> : i \in {j \in 1..loop.tools.n : loop'.tools.st[j] \in Live}},
             active, aborted' = aborted, loop.pc \notin {"failed", "end"}
      PROVE  PendingCallsAreReal'
  BY <1>q DEF PendingCallsAreReal, Call
<1>1. CASE StartTools
  <2> DEFINE calls == IF loop.tools.parallel THEN 1..loop.tools.n ELSE {loop.tools.k}
  <2>1. /\ active /\ loop.pc = "prepare" /\ aborted' = aborted /\ turns' = turns
        /\ loop'.tools.n = loop.tools.n
        /\ loop'.tools.st = [i \in DOMAIN loop.tools.st |->
                               IF i \in calls THEN "preparing" ELSE loop.tools.st[i]]
        /\ state' = Started(calls)
    BY <1>1, StartToolsStep
  <2>2. calls \subseteq 1..loop.tools.n
    BY <1>f, <2>1 DEF Shape, BatchPCs
  <2>3. state'.pendingToolCalls = pending \cup {<<turns, i>> : i \in calls}
    BY <2>1 DEF Started, Call, TypeOK, AgentState
  <2>4. \A i \in 1..loop.tools.n :
          loop'.tools.st[i] \in Live <=> i \in calls \/ loop.tools.st[i] \in Live
    BY <1>f, <2>1
  <2> HIDE DEF calls, Live
  <2>5. ASSUME ~ aborted
        PROVE  state'.pendingToolCalls =
                 {<<turns, i>> : i \in {j \in 1..loop.tools.n : loop'.tools.st[j] \in Live}}
    BY <1>p, <2>1, <2>2, <2>3, <2>4, <2>5
  <2> QED
    BY <1>q, <2>1, <2>5
<1>2. CASE Dispatch \/ DispatchOne
  <2> DEFINE k == loop.tools.k
  <2>1. /\ active /\ loop.pc \in {"prepare", "dispatch"} /\ k \in 1..loop.tools.n
        /\ aborted' = aborted /\ turns' = turns
        /\ loop.tools.st[k] \in {"immediate", "prepared"}
    BY <1>2, <1>f DEF Dispatch, DispatchOne, At, Shape, Progress, BatchPCs, hist
  <2>2. /\ loop'.tools.n = loop.tools.n
        /\ loop'.tools.st = [loop.tools.st EXCEPT
                               ![k] = IF @ = "immediate" THEN "done" ELSE "running"]
        /\ state' = IF loop.tools.st[k] = "immediate" THEN Ended(k) ELSE state
    BY <1>2, DispatchStep, DispatchOneStep
  <2>3. \A i \in 1..loop.tools.n :
          loop'.tools.st[i] \in Live <=>
            loop.tools.st[i] \in Live /\ ~ (i = k /\ loop.tools.st[k] = "immediate")
    BY <1>f, <2>1, <2>2
  <2>4. state'.pendingToolCalls =
          IF loop.tools.st[k] = "immediate" THEN pending \ {<<turns, k>>} ELSE pending
    BY <1>e, <2>2
  <2> HIDE DEF Live, k
  <2>5. ASSUME ~ aborted
        PROVE  state'.pendingToolCalls =
                 {<<turns, i>> : i \in {j \in 1..loop.tools.n : loop'.tools.st[j] \in Live}}
    BY <1>p, <2>1, <2>3, <2>4, <2>5
  <2> QED
    BY <1>q, <2>1, <2>2, <2>5
<1>3. ASSUME NEW i \in 1..loop.tools.n, Prepare(i)
      PROVE  PendingCallsAreReal'
  <2>1. PICK outcome \in {"immediate", "prepared"} :
          loop'.tools.st = [loop.tools.st EXCEPT ![i] = outcome]
    BY <1>3, PrepareStep
  <2>2. /\ active /\ loop.pc = "prepare" /\ aborted' = aborted /\ turns' = turns
        /\ loop'.tools.n = loop.tools.n /\ state' = state /\ loop.tools.st[i] = "preparing"
    BY <1>3, PrepareStep
  <2>3. \A j \in 1..loop.tools.n : loop'.tools.st[j] \in Live <=> loop.tools.st[j] \in Live
    BY <1>f, <2>1, <2>2
  <2> HIDE DEF Live
  <2>4. ASSUME ~ aborted
        PROVE  state'.pendingToolCalls =
                 {<<turns, j>> : j \in {l \in 1..loop.tools.n : loop'.tools.st[l] \in Live}}
    BY <1>p, <2>2, <2>3, <2>4
  <2> QED
    BY <1>q, <2>2, <2>4
<1>4. ASSUME NEW i \in 1..loop.tools.n, ToolEnds(i)
      PROVE  PendingCallsAreReal'
  <2>1. /\ active /\ loop.pc = "execute" /\ aborted' = aborted /\ turns' = turns
    BY <1>4 DEF ToolEnds, At, hist
  <2>2. /\ loop'.tools.n = loop.tools.n /\ state' = Ended(i)
        /\ loop'.tools.st = [loop.tools.st EXCEPT ![i] = "done"]
    BY <1>4, ToolEndsStep
  <2>3. \A j \in 1..loop.tools.n :
          loop'.tools.st[j] \in Live <=> loop.tools.st[j] \in Live /\ j # i
    BY <1>f, <2>2
  <2>4. state'.pendingToolCalls = pending \ {<<turns, i>>}
    BY <1>e, <2>2
  <2> HIDE DEF Live
  <2>5. ASSUME ~ aborted
        PROVE  state'.pendingToolCalls =
                 {<<turns, j>> : j \in {l \in 1..loop.tools.n : loop'.tools.st[l] \in Live}}
    BY <1>p, <2>1, <2>3, <2>4, <2>5
  <2> QED
    BY <1>q, <2>1, <2>2, <2>5
<1> QED
  BY <1>1, <1>2, <1>3, <1>4

(* The steps that neither start nor end a call.                            *)
LEMMA PendingMoves ==
    ASSUME TypeOK, Shape, Progress, PendingCallsAreReal,
           \/ EmitPrompt \/ PromptsEmitted \/ InitialPoll \/ Inject \/ Injected \/ RequestStarted
           \/ PreparedAll \/ ToolsEnded \/ EmitResult \/ BatchDone
           \/ EndTurn \/ PollSteering \/ PollFollowUp
    PROVE  PendingCallsAreReal'
<1> USE DEF At
<1>f. /\ loop.prompts \in Seq(Message) /\ loop.pending \in Seq(Message)
      /\ loop.tools.n \in Nat /\ loop.tools.k \in Nat \ {0} /\ turns \in Nat
  BY LoopFields, BatchFields DEF TypeOK, BatchOK
<1>1. CASE EmitPrompt \/ Inject
  <2>1. ASSUME NEW q \in Seq(Message), q # <<>>, state' = Push(Head(q))
        PROVE  state'.pendingToolCalls = state.pendingToolCalls
    <3>1. Head(q) \in Message
      BY <2>1
    <3> QED
      BY <2>1, <3>1, PushTyped DEF TypeOK
  <2>2. state'.pendingToolCalls = state.pendingToolCalls
    BY <1>1, <1>f, <2>1 DEF EmitPrompt, Inject
  <2>3. /\ active /\ loop.pc \in {"start", "inject"} /\ loop'.tools = loop.tools
        /\ turns' = turns /\ aborted' = aborted
    BY <1>1 DEF EmitPrompt, Inject, TypeOK, Loop, hist
  <2> QED
    BY <2>2, <2>3, PendingKept
<1>2. CASE PromptsEmitted \/ InitialPoll \/ Injected \/ PreparedAll \/ ToolsEnded
  <2>1. /\ active /\ loop.pc \notin {"failed", "end"} /\ loop'.tools = loop.tools
        /\ turns' = turns /\ aborted' = aborted /\ state' = state
    BY <1>2 DEF PromptsEmitted, InitialPoll, Injected, PreparedAll, ToolsEnded, TypeOK, Loop, hist
  <2> QED
    BY <2>1, PendingKept
<1>3. CASE EndTurn \/ PollSteering \/ PollFollowUp
  <2>1. /\ active /\ loop.pc \notin {"failed", "end"} /\ loop'.tools = loop.tools
        /\ turns' = turns /\ aborted' = aborted /\ state' = state
    BY <1>3 DEF EndTurn, PollSteering, PollFollowUp, TypeOK, Loop, hist
  <2> QED
    BY <2>1, PendingKept
<1>4. CASE RequestStarted
  <2>1. /\ active /\ loop.pc = "request" /\ loop'.tools = loop.tools
        /\ turns' = turns /\ aborted' = aborted
    BY <1>4 DEF RequestStarted, TypeOK, Loop, hist
  <2>2. state'.pendingToolCalls = state.pendingToolCalls
    BY <1>4 DEF RequestStarted, TypeOK, AgentState
  <2> QED
    BY <2>1, <2>2, PendingKept
<1>5. CASE EmitResult
  <2>1. toolResult(turns, loop.tools.k) \in Message
    BY <1>f, MessagesTyped
  <2>2. state'.pendingToolCalls = state.pendingToolCalls
    BY <1>5, <2>1, PushTyped DEF EmitResult, TypeOK
  <2>3. active /\ loop.pc = "results" /\ turns' = turns /\ aborted' = aborted
    BY <1>5 DEF EmitResult, hist
  <2>4. loop'.tools.n = loop.tools.n /\ loop'.tools.st = loop.tools.st
    BY <1>5, EmitResultStep
  <2> QED
    BY <2>2, <2>3, <2>4, PendingKept
<1>6. CASE BatchDone
  <2>1. /\ active /\ loop.pc = "results" /\ aborted' = aborted /\ state' = state
        /\ loop.tools.k \notin Finalized
    BY <1>6 DEF BatchDone
  <2>2. loop'.tools.n = 0
    BY <1>6, BatchDoneStep DEF NoTools
  <2>3. ASSUME ~ aborted
        PROVE  state.pendingToolCalls = {}
    <3>1. loop.tools.k > loop.tools.n
      BY <1>f, <2>1, <2>3 DEF Finalized, Progress, BatchPCs
    <3>2. \A i \in 1..loop.tools.n : loop.tools.st[i] = "done"
      BY <1>f, <2>1, <3>1 DEF Progress, BatchPCs
    <3> QED
      BY <2>1, <2>3, <3>2 DEF PendingCallsAreReal
  <2> QED
    BY <2>1, <2>2, <2>3 DEF PendingCallsAreReal, Call
<1> QED
  BY <1>1, <1>2, <1>3, <1>4, <1>5, <1>6

LEMMA PendingReceive ==
    ASSUME TypeOK, Shape, PendingCallsAreReal, active, loop.pc \in {"request", "streaming"},
           NEW n \in 0..MaxCalls, NEW stop \in StopReasons, NEW parallel \in BOOLEAN,
           Receive(n, stop, parallel)
    PROVE  PendingCallsAreReal'
<1>1. loop.tools.n = 0
  BY DEF Shape, BatchPCs, NoTools
<1>2. aborted' = aborted /\ state'.pendingToolCalls = state.pendingToolCalls
  BY ReceiveFields
<1>3. loop'.tools = NewTools(n, stop, parallel)
  BY ReceiveFields
<1>4. ~ aborted => state.pendingToolCalls = {}
  BY <1>1 DEF PendingCallsAreReal
<1>5. \A i \in 1..loop'.tools.n :
        loop'.tools.st[i] \notin {"preparing", "immediate", "prepared", "running"}
  <2>1. CASE n = 0 \/ stop \in Fatal
    BY <1>3, <2>1 DEF NewTools, NoTools
  <2>2. CASE ~ (n = 0 \/ stop \in Fatal)
    BY <1>3, <2>2 DEF NewTools
  <2> QED
    BY <2>1, <2>2
<1> QED
  BY <1>2, <1>4, <1>5 DEF PendingCallsAreReal

(* The ends of a run, late tools of failed runs, and callers.              *)
LEMMA PendingEdges ==
    ASSUME TypeOK, Shape, OrphansAreOld, IdleClean, PendingCallsAreReal,
           RunFails \/ HandleRunFailure \/ FinishRun \/ OrphanEnds \/ CallerStep
    PROVE  PendingCallsAreReal'
<1> USE DEF At
<1>1. CASE RunFails \/ HandleRunFailure
  <2>1. loop'.pc \in {"failed", "end"}
    BY <1>1 DEF RunFails, HandleRunFailure, IdleLoop, TypeOK, Loop
  <2> QED
    BY <2>1 DEF PendingCallsAreReal
<1>2. CASE FinishRun
  BY <1>2 DEF FinishRun, PendingCallsAreReal
<1>3. CASE OrphanEnds
  <2>1. PICK o \in orphans : state' = [state EXCEPT !.pendingToolCalls = @ \ {o}]
    BY <1>3 DEF OrphanEnds
  <2>2. state'.pendingToolCalls = state.pendingToolCalls \ {o}
    BY <2>1 DEF TypeOK, AgentState
  <2>3. /\ active' = active /\ aborted' = aborted /\ loop' = loop /\ turns' = turns
    BY <1>3 DEF OrphanEnds
  <2>4. \A i \in 1..loop.tools.n : Call(i) # o
    <3>1. loop.tools.n \in Nat /\ turns \in Nat /\ o \in Nat \X Nat
      BY LoopFields, BatchFields DEF TypeOK
    <3>2. loop.tools.n > 0 => o[1] < turns
      BY DEF OrphansAreOld
    <3> QED
      BY <3>1, <3>2 DEF Call
  <2> QED
    BY <2>2, <2>3, <2>4 DEF PendingCallsAreReal, Call
<1>4. CASE Prompt \/ ContinueQueued \/ ContinueTranscript
  <2>1. ASSUME NEW prompts, NEW skipPoll, Launch(prompts, skipPoll), ~ active
        PROVE  PendingCallsAreReal'
    <3>1. state'.pendingToolCalls = state.pendingToolCalls
      BY <2>1 DEF Launch, TypeOK, AgentState
    <3>2. loop'.tools.n = 0
      BY <2>1 DEF Launch, IdleLoop, NoTools
    <3> QED
      BY <2>1, <3>1, <3>2, PendingEmpty DEF IdleClean
  <2> QED
    BY <1>4, <2>1 DEF Prompt, ContinueQueued, ContinueTranscript
<1>5. CASE steer \/ followUp \/ clearAllQueues
  BY <1>5 DEF steer, followUp, clearAllQueues, PendingCallsAreReal, Call
<1>6. CASE abort \/ DropFailedAnswer
  BY <1>6 DEF abort, DropFailedAnswer, PendingCallsAreReal
<1> QED
  BY <1>1, <1>2, <1>3, <1>4, <1>5, <1>6 DEF CallerStep

LEMMA PendingNext ==
    ASSUME IInv, [Next]_vars
    PROVE  PendingCallsAreReal'
<1> USE DEF IInv
<1>1. CASE UNCHANGED vars
  BY <1>1 DEF PendingCallsAreReal, Call, vars, hist
<1>2. CASE RequestAborted \/ Respond \/ RespondAborted
  BY <1>2, AnswersReceive, PendingReceive
<1>3. CASE LoopStep \/ ToolStep
  BY <1>2, <1>3, PendingCalls, PendingMoves, PendingEdges DEF LoopStep, ToolStep
<1>4. CASE CallerStep \/ RunFails \/ OrphanEnds
  BY <1>4, PendingEdges
<1> QED
  BY <1>1, <1>2, <1>3, <1>4 DEF Next

LEMMA InvariantHolds == Spec => []IInv
<1>1. Init => IInv
  <2>1. Init => Progress /\ OrphansAreOld /\ IdleClean /\ PendingCallsAreReal
    BY DEF Init, Progress, OrphansAreOld, IdleClean, PendingCallsAreReal, IdleLoop, BatchPCs
  <2> QED
    BY <2>1, TypeInit, ShapeInit, MirrorInit DEF IInv
<1>2. IInv /\ [Next]_vars => IInv'
  BY TypeNext, ShapeNext, MirrorNext, ProgressNext, OrphansNext, IdleCleanNext, PendingNext DEF IInv
<1> QED
  BY <1>1, <1>2, PTL DEF Spec

(* Until it is aborted, a run shows as pending exactly the calls that have *)
(* started and not ended, although tools end in any order and tools of an  *)
(* earlier, failed run may still be ending.                                *)
THEOREM PendingCallsCorrect == Spec => []PendingCallsAreReal
BY InvariantHolds, PTL DEF IInv

----------------------------------------------------------------------------
(* Every user message is delivered once and in order.                      *)

(* The numbers of the messages of the given kinds in a sequence, and what  *)
(* it means for the kinds, the numbers and the order of a sequence to be   *)
(* right.                                                                  *)
IdsOf(s, kinds) == {s[i].id : i \in {j \in DOMAIN s : s[j].role \in kinds}}

OnlyOf(s, kinds) == \A i \in DOMAIN s : s[i].role \in kinds

Distinct(s) ==
    \A i, j \in DOMAIN s : IsUser(s[i]) /\ IsUser(s[j]) /\ s[i].id = s[j].id => i = j

Below(s, t, kind) == \A a \in IdsOf(s, {kind}), b \in IdsOf(t, {kind}) : a < b

(* Messages 1..n have been sent and d of them are gone.  The others are    *)
(* once in c, the transcript and what the loop holds, or in a queue.       *)
Kept(c, sq, fq, n, d) ==
    /\ Distinct(c) /\ Distinct(sq) /\ Distinct(fq)
    /\ IdsOf(c, UserKinds) \cap IdsOf(sq, UserKinds) = {}
    /\ IdsOf(c, UserKinds) \cap IdsOf(fq, UserKinds) = {}
    /\ IdsOf(sq, UserKinds) \cap IdsOf(fq, UserKinds) = {}
    /\ IdsOf(c, UserKinds) \cup IdsOf(sq, UserKinds) \cup IdsOf(fq, UserKinds) = (1..n) \ d
    /\ d \subseteq 1..n
    /\ OnlyOf(sq, {"steer"}) /\ OnlyOf(fq, {"followUp"})
    /\ Ordered(c \o sq, "steer") /\ Ordered(c \o fq, "followUp")

(* The parts of a concatenation.                                           *)
LEMMA CatParts ==
    ASSUME NEW s \in Seq(Message), NEW t \in Seq(Message)
    PROVE  /\ s \o t \in Seq(Message)
           /\ \A i \in DOMAIN s : i \in DOMAIN (s \o t) /\ (s \o t)[i] = s[i]
           /\ \A j \in DOMAIN t : Len(s) + j \in DOMAIN (s \o t) /\ (s \o t)[Len(s) + j] = t[j]
           /\ \A k \in DOMAIN (s \o t) :
                k \in DOMAIN s \/ \E j \in DOMAIN t : k = Len(s) + j
           /\ DOMAIN s = 1..Len(s) /\ DOMAIN t = 1..Len(t) /\ Len(s) \in Nat /\ Len(t) \in Nat
<1>1. s \o t \in Seq(Message) /\ Len(s \o t) = Len(s) + Len(t)
  OBVIOUS
<1>2. DOMAIN s = 1..Len(s) /\ DOMAIN t = 1..Len(t) /\ Len(s) \in Nat /\ Len(t) \in Nat
  OBVIOUS
<1>3. DOMAIN (s \o t) = 1..(Len(s) + Len(t))
  BY <1>1
<1>4. \A i \in DOMAIN s : i \in DOMAIN (s \o t) /\ (s \o t)[i] = s[i]
  BY <1>2, <1>3
<1>5. \A j \in DOMAIN t : Len(s) + j \in DOMAIN (s \o t) /\ (s \o t)[Len(s) + j] = t[j]
  BY <1>2, <1>3
<1>6. ASSUME NEW k \in DOMAIN (s \o t), k \notin DOMAIN s
      PROVE  \E j \in DOMAIN t : k = Len(s) + j
  <2>1. k - Len(s) \in 1..Len(t) /\ k = Len(s) + (k - Len(s))
    BY <1>2, <1>3, <1>6
  <2> QED
    BY <1>2, <2>1
<1> QED
  BY <1>1, <1>2, <1>4, <1>5, <1>6

LEMMA CatIds ==
    ASSUME NEW s \in Seq(Message), NEW t \in Seq(Message), NEW kinds
    PROVE  IdsOf(s \o t, kinds) = IdsOf(s, kinds) \cup IdsOf(t, kinds)
<1> DEFINE u == s \o t
<1>1. /\ \A i \in DOMAIN s : i \in DOMAIN u /\ u[i] = s[i]
      /\ \A j \in DOMAIN t : Len(s) + j \in DOMAIN u /\ u[Len(s) + j] = t[j]
      /\ \A k \in DOMAIN u : k \in DOMAIN s \/ \E j \in DOMAIN t : k = Len(s) + j
  BY CatParts
<1> HIDE DEF u
<1>2. ASSUME NEW k \in DOMAIN u, u[k].role \in kinds
      PROVE  u[k].id \in IdsOf(s, kinds) \cup IdsOf(t, kinds)
  BY <1>1, <1>2 DEF IdsOf
<1>3. ASSUME NEW i \in DOMAIN s, s[i].role \in kinds
      PROVE  s[i].id \in IdsOf(u, kinds)
  BY <1>1, <1>3 DEF IdsOf
<1>4. ASSUME NEW j \in DOMAIN t, t[j].role \in kinds
      PROVE  t[j].id \in IdsOf(u, kinds)
  BY <1>1, <1>4 DEF IdsOf
<1> QED
  BY <1>2, <1>3, <1>4 DEF IdsOf, u

LEMMA CatOnly ==
    ASSUME NEW s \in Seq(Message), NEW t \in Seq(Message), NEW kinds
    PROVE  OnlyOf(s \o t, kinds) <=> OnlyOf(s, kinds) /\ OnlyOf(t, kinds)
<1> DEFINE u == s \o t
<1>1. /\ \A i \in DOMAIN s : i \in DOMAIN u /\ u[i] = s[i]
      /\ \A j \in DOMAIN t : Len(s) + j \in DOMAIN u /\ u[Len(s) + j] = t[j]
      /\ \A k \in DOMAIN u : k \in DOMAIN s \/ \E j \in DOMAIN t : k = Len(s) + j
  BY CatParts
<1> HIDE DEF u
<1>2. ASSUME OnlyOf(u, kinds) PROVE OnlyOf(s, kinds) /\ OnlyOf(t, kinds)
  BY <1>1, <1>2 DEF OnlyOf
<1>3. ASSUME OnlyOf(s, kinds), OnlyOf(t, kinds) PROVE OnlyOf(u, kinds)
  BY <1>1, <1>3 DEF OnlyOf
<1> QED
  BY <1>2, <1>3 DEF u

LEMMA CatDistinct ==
    ASSUME NEW s \in Seq(Message), NEW t \in Seq(Message)
    PROVE  Distinct(s \o t) <=>
             Distinct(s) /\ Distinct(t) /\ IdsOf(s, UserKinds) \cap IdsOf(t, UserKinds) = {}
<1> DEFINE u == s \o t
<1>1. /\ \A i \in DOMAIN s : i \in DOMAIN u /\ u[i] = s[i]
      /\ \A j \in DOMAIN t : Len(s) + j \in DOMAIN u /\ u[Len(s) + j] = t[j]
      /\ \A k \in DOMAIN u : k \in DOMAIN s \/ \E j \in DOMAIN t : k = Len(s) + j
      /\ DOMAIN s = 1..Len(s) /\ DOMAIN t = 1..Len(t) /\ Len(s) \in Nat /\ Len(t) \in Nat
  BY CatParts
<1> HIDE DEF u
<1>2. ASSUME Distinct(u) PROVE Distinct(s)
  BY <1>1, <1>2 DEF Distinct
<1>3. ASSUME Distinct(u) PROVE Distinct(t)
  <2> SUFFICES ASSUME NEW i \in DOMAIN t, NEW j \in DOMAIN t, IsUser(t[i]), IsUser(t[j]),
                      t[i].id = t[j].id
               PROVE  i = j
    BY DEF Distinct
  <2>1. Len(s) + i = Len(s) + j
    BY <1>1, <1>3 DEF Distinct
  <2> QED
    BY <1>1, <2>1
<1>4. ASSUME Distinct(u),
             NEW i \in DOMAIN s, NEW j \in DOMAIN t, IsUser(s[i]), IsUser(t[j]), s[i].id = t[j].id
      PROVE  FALSE
  <2>1. i = Len(s) + j
    BY <1>1, <1>4 DEF Distinct
  <2> QED
    BY <1>1, <2>1
<1>5. ASSUME Distinct(s), Distinct(t), IdsOf(s, UserKinds) \cap IdsOf(t, UserKinds) = {},
             NEW i \in DOMAIN u, NEW j \in DOMAIN u, IsUser(u[i]), IsUser(u[j]), u[i].id = u[j].id
      PROVE  i = j
  <2>1. ASSUME NEW a \in DOMAIN s, NEW b \in DOMAIN t
        PROVE  ~ (IsUser(s[a]) /\ IsUser(t[b]) /\ s[a].id = t[b].id)
    BY <1>5 DEF IdsOf, IsUser
  <2>2. CASE i \in DOMAIN s /\ j \in DOMAIN s
    BY <1>1, <1>5, <2>2 DEF Distinct
  <2>3. CASE i \notin DOMAIN s /\ j \notin DOMAIN s
    <3>1. PICK a \in DOMAIN t : i = Len(s) + a
      BY <1>1, <2>3
    <3>2. PICK b \in DOMAIN t : j = Len(s) + b
      BY <1>1, <2>3
    <3>3. a = b
      BY <1>1, <1>5, <3>1, <3>2 DEF Distinct
    <3> QED
      BY <3>1, <3>2, <3>3
  <2>4. CASE i \in DOMAIN s /\ j \notin DOMAIN s
    BY <1>1, <1>5, <2>1, <2>4
  <2>5. CASE i \notin DOMAIN s /\ j \in DOMAIN s
    BY <1>1, <1>5, <2>1, <2>5
  <2> QED
    BY <2>2, <2>3, <2>4, <2>5
<1>6. ASSUME Distinct(u) PROVE IdsOf(s, UserKinds) \cap IdsOf(t, UserKinds) = {}
  BY <1>4, <1>6 DEF IdsOf, IsUser
<1>7. ASSUME Distinct(s), Distinct(t), IdsOf(s, UserKinds) \cap IdsOf(t, UserKinds) = {}
      PROVE  Distinct(u)
  BY <1>5, <1>7 DEF Distinct
<1> QED
  BY <1>2, <1>3, <1>6, <1>7 DEF u

LEMMA CatOrdered ==
    ASSUME NEW s \in Seq(Message), NEW t \in Seq(Message), NEW kind
    PROVE  Ordered(s \o t, kind) <=> Ordered(s, kind) /\ Ordered(t, kind) /\ Below(s, t, kind)
<1> DEFINE u == s \o t
<1>1. /\ \A i \in DOMAIN s : i \in DOMAIN u /\ u[i] = s[i]
      /\ \A j \in DOMAIN t : Len(s) + j \in DOMAIN u /\ u[Len(s) + j] = t[j]
      /\ \A k \in DOMAIN u : k \in DOMAIN s \/ \E j \in DOMAIN t : k = Len(s) + j
      /\ DOMAIN s = 1..Len(s) /\ DOMAIN t = 1..Len(t) /\ Len(s) \in Nat /\ Len(t) \in Nat
  BY CatParts
<1> HIDE DEF u
<1>2. ASSUME Ordered(u, kind) PROVE Ordered(s, kind)
  BY <1>1, <1>2 DEF Ordered
<1>3. ASSUME Ordered(u, kind) PROVE Ordered(t, kind)
  <2> SUFFICES ASSUME NEW i \in DOMAIN t, NEW j \in DOMAIN t, i < j,
                      t[i].role = kind, t[j].role = kind
               PROVE  t[i].id < t[j].id
    BY DEF Ordered
  <2>1. Len(s) + i < Len(s) + j
    BY <1>1
  <2>2. u[Len(s) + i] = t[i] /\ u[Len(s) + j] = t[j]
    BY <1>1
  <2>3. Len(s) + i \in DOMAIN u /\ Len(s) + j \in DOMAIN u
    BY <1>1
  <2> QED
    BY <1>3, <2>1, <2>2, <2>3 DEF Ordered
<1>4. ASSUME Ordered(u, kind) PROVE Below(s, t, kind)
  <2> SUFFICES ASSUME NEW i \in DOMAIN s, NEW j \in DOMAIN t, s[i].role = kind, t[j].role = kind
               PROVE  s[i].id < t[j].id
    BY DEF Below, IdsOf
  <2>1. i < Len(s) + j
    BY <1>1
  <2>2. u[i] = s[i] /\ u[Len(s) + j] = t[j] /\ i \in DOMAIN u /\ Len(s) + j \in DOMAIN u
    BY <1>1
  <2> QED
    BY <1>4, <2>1, <2>2 DEF Ordered
<1>5. ASSUME Ordered(s, kind), Ordered(t, kind), Below(s, t, kind)
      PROVE  Ordered(u, kind)
  <2> SUFFICES ASSUME NEW i \in DOMAIN u, NEW j \in DOMAIN u, i < j,
                      u[i].role = kind, u[j].role = kind
               PROVE  u[i].id < u[j].id
    BY DEF Ordered
  <2>1. CASE i \in DOMAIN s /\ j \in DOMAIN s
    BY <1>1, <1>5, <2>1 DEF Ordered
  <2>2. CASE i \in DOMAIN s /\ j \notin DOMAIN s
    <3>1. PICK b \in DOMAIN t : j = Len(s) + b
      BY <1>1, <2>2
    <3>2. u[i] = s[i] /\ u[j] = t[b]
      BY <1>1, <2>2, <3>1
    <3>3. s[i].id \in IdsOf(s, {kind}) /\ t[b].id \in IdsOf(t, {kind})
      BY <2>2, <3>2 DEF IdsOf
    <3> QED
      BY <1>5, <3>2, <3>3 DEF Below
  <2>3. CASE i \notin DOMAIN s
    <3>1. PICK a \in DOMAIN t : i = Len(s) + a
      BY <1>1, <2>3
    <3>2. j \notin DOMAIN s
      BY <1>1, <3>1
    <3>3. PICK b \in DOMAIN t : j = Len(s) + b
      BY <1>1, <3>2
    <3>4. u[i] = t[a] /\ u[j] = t[b] /\ a < b
      BY <1>1, <3>1, <3>3
    <3> QED
      BY <1>5, <3>4 DEF Ordered
  <2> QED
    BY <2>1, <2>2, <2>3
<1> QED
  BY <1>2, <1>3, <1>4, <1>5 DEF u

(* Short sequences.                                                        *)
LEMMA EmptyFacts ==
    ASSUME NEW kinds, NEW kind
    PROVE  /\ <<>> \in Seq(Message) /\ IdsOf(<<>>, kinds) = {} /\ OnlyOf(<<>>, kinds)
           /\ Distinct(<<>>) /\ Ordered(<<>>, kind)
BY DEF IdsOf, OnlyOf, Distinct, Ordered

LEMMA SingleFacts ==
    ASSUME NEW m \in Message
    PROVE  /\ <<m>> \in Seq(Message) /\ Distinct(<<m>>)
           /\ \A kind : Ordered(<<m>>, kind)
           /\ \A kinds : m.role \in kinds => IdsOf(<<m>>, kinds) = {m.id} /\ OnlyOf(<<m>>, kinds)
           /\ \A kinds : m.role \notin kinds => IdsOf(<<m>>, kinds) = {}
           /\ \A s \in Seq(Message) : Append(s, m) = s \o <<m>>
<1>1. <<m>> \in Seq(Message) /\ DOMAIN <<m>> = {1} /\ <<m>>[1] = m
  OBVIOUS
<1>2. \A s \in Seq(Message) : Append(s, m) = s \o <<m>>
  OBVIOUS
<1>3. PICK s : s = <<m>>
  OBVIOUS
<1>4. DOMAIN s = {1} /\ s[1] = m
  BY <1>1, <1>3
<1>5. Distinct(s) /\ \A kind : Ordered(s, kind)
  BY <1>4 DEF Distinct, Ordered
<1>6. \A kinds : m.role \in kinds => IdsOf(s, kinds) = {m.id} /\ OnlyOf(s, kinds)
  BY <1>4 DEF IdsOf, OnlyOf
<1>7. \A kinds : m.role \notin kinds => IdsOf(s, kinds) = {}
  BY <1>4 DEF IdsOf
<1> QED
  BY <1>1, <1>2, <1>3, <1>5, <1>6, <1>7

LEMMA IdsOfKind ==
    ASSUME NEW s \in Seq(Message), NEW kind \in UserKinds
    PROVE  IdsOf(s, {kind}) \subseteq IdsOf(s, UserKinds)
BY DEF IdsOf

LEMMA NoneOfKind ==
    ASSUME NEW s \in Seq(Message), NEW kinds, NEW kind, OnlyOf(s, kinds), kind \notin kinds
    PROVE  IdsOf(s, {kind}) = {} /\ Ordered(s, kind)
BY DEF IdsOf, OnlyOf, Ordered

LEMMA OnlyUsers ==
    ASSUME NEW s \in Seq(Message), NEW kinds \in SUBSET UserKinds, OnlyOf(s, kinds)
    PROVE  Ids(s) = IdsOf(s, UserKinds)
BY DEF Ids, IdsOf, OnlyOf

(* What drain() takes from a queue is the front of it.                     *)
LEMMA DrainSplits ==
    ASSUME NEW q \in Seq(Message), NEW mode \in Modes
    PROVE  q = Drained(q, mode) \o Left(q, mode)
<1>1. CASE mode = "all" \/ q = <<>>
  BY <1>1 DEF Drained, Left
<1>2. CASE ~ (mode = "all" \/ q = <<>>)
  <2>1. q = <<Head(q)>> \o Tail(q)
    BY <1>2
  <2> QED
    BY <1>2, <2>1 DEF Drained, Left
<1> QED
  BY <1>1, <1>2

(* Messages go from the front of a queue to the end of what is delivered.  *)
LEMMA KeptSteered ==
    ASSUME NEW c \in Seq(Message), NEW d \in Seq(Message), NEW q \in Seq(Message),
           NEW fq \in Seq(Message), NEW n, NEW gone,
           Kept(c, d \o q, fq, n, gone)
    PROVE  Kept(c \o d, q, fq, n, gone) /\ OnlyOf(d, UserKinds)
<1>1. (c \o d) \o q = c \o (d \o q) /\ c \o d \in Seq(Message)
  OBVIOUS
<1>2. /\ IdsOf(d \o q, UserKinds) = IdsOf(d, UserKinds) \cup IdsOf(q, UserKinds)
      /\ IdsOf(c \o d, UserKinds) = IdsOf(c, UserKinds) \cup IdsOf(d, UserKinds)
  BY CatIds
<1>3. /\ Distinct(d) /\ Distinct(q) /\ IdsOf(d, UserKinds) \cap IdsOf(q, UserKinds) = {}
  BY CatDistinct DEF Kept
<1>4. Distinct(c \o d)
  BY <1>2, <1>3, CatDistinct DEF Kept
<1>5. OnlyOf(d, {"steer"}) /\ OnlyOf(q, {"steer"})
  BY CatOnly DEF Kept
<1>6. Ordered((c \o d) \o q, "steer")
  BY <1>1 DEF Kept
<1>7. Ordered(c, "followUp") /\ Ordered(fq, "followUp") /\ Below(c, fq, "followUp")
  BY CatOrdered DEF Kept
<1>8. IdsOf(d, {"followUp"}) = {} /\ Ordered(d, "followUp")
  BY <1>5, NoneOfKind
<1>9. Below(c, d, "followUp")
  BY <1>8 DEF Below
<1>10. Ordered(c \o d, "followUp")
  BY <1>7, <1>8, <1>9, CatOrdered
<1>11. Below(c \o d, fq, "followUp")
  <2>1. IdsOf(c \o d, {"followUp"}) = IdsOf(c, {"followUp"}) \cup IdsOf(d, {"followUp"})
    BY CatIds
  <2> QED
    BY <1>7, <1>8, <2>1 DEF Below
<1>12. Ordered((c \o d) \o fq, "followUp")
  BY <1>1, <1>7, <1>10, <1>11, CatOrdered
<1>13. OnlyOf(d, UserKinds)
  BY <1>5 DEF OnlyOf, UserKinds
<1> QED
  BY <1>2, <1>3, <1>4, <1>5, <1>6, <1>12, <1>13 DEF Kept

LEMMA KeptFollowed ==
    ASSUME NEW c \in Seq(Message), NEW d \in Seq(Message), NEW q \in Seq(Message),
           NEW sq \in Seq(Message), NEW n, NEW gone,
           Kept(c, sq, d \o q, n, gone)
    PROVE  Kept(c \o d, sq, q, n, gone) /\ OnlyOf(d, UserKinds)
<1>1. (c \o d) \o q = c \o (d \o q) /\ c \o d \in Seq(Message)
  OBVIOUS
<1>2. /\ IdsOf(d \o q, UserKinds) = IdsOf(d, UserKinds) \cup IdsOf(q, UserKinds)
      /\ IdsOf(c \o d, UserKinds) = IdsOf(c, UserKinds) \cup IdsOf(d, UserKinds)
  BY CatIds
<1>3. /\ Distinct(d) /\ Distinct(q) /\ IdsOf(d, UserKinds) \cap IdsOf(q, UserKinds) = {}
  BY CatDistinct DEF Kept
<1>4. Distinct(c \o d)
  BY <1>2, <1>3, CatDistinct DEF Kept
<1>5. OnlyOf(d, {"followUp"}) /\ OnlyOf(q, {"followUp"})
  BY CatOnly DEF Kept
<1>6. Ordered((c \o d) \o q, "followUp")
  BY <1>1 DEF Kept
<1>7. Ordered(c, "steer") /\ Ordered(sq, "steer") /\ Below(c, sq, "steer")
  BY CatOrdered DEF Kept
<1>8. IdsOf(d, {"steer"}) = {} /\ Ordered(d, "steer")
  BY <1>5, NoneOfKind
<1>9. Below(c, d, "steer")
  BY <1>8 DEF Below
<1>10. Ordered(c \o d, "steer")
  BY <1>7, <1>8, <1>9, CatOrdered
<1>11. Below(c \o d, sq, "steer")
  <2>1. IdsOf(c \o d, {"steer"}) = IdsOf(c, {"steer"}) \cup IdsOf(d, {"steer"})
    BY CatIds
  <2> QED
    BY <1>7, <1>8, <2>1 DEF Below
<1>12. Ordered((c \o d) \o sq, "steer")
  BY <1>1, <1>7, <1>10, <1>11, CatOrdered
<1>13. OnlyOf(d, UserKinds)
  BY <1>5 DEF OnlyOf, UserKinds
<1> QED
  BY <1>2, <1>3, <1>4, <1>5, <1>6, <1>12, <1>13 DEF Kept

(* Messages without a kind that counts come between the others, and leave. *)
LEMMA OrderedBetween ==
    ASSUME NEW c \in Seq(Message), NEW x \in Seq(Message), NEW q \in Seq(Message), NEW kind,
           IdsOf(x, {kind}) = {}, Ordered(x, kind)
    PROVE  Ordered((c \o x) \o q, kind) <=> Ordered(c \o q, kind)
<1>1. c \o x \in Seq(Message) /\ IdsOf(c \o x, {kind}) = IdsOf(c, {kind}) \cup IdsOf(x, {kind})
  BY CatIds
<1>2. Below(c, x, kind) /\ (Below(c \o x, q, kind) <=> Below(c, q, kind))
  BY <1>1 DEF Below
<1> QED
  BY <1>1, <1>2, CatOrdered

LEMMA KeptOther ==
    ASSUME NEW c \in Seq(Message), NEW sq \in Seq(Message), NEW fq \in Seq(Message),
           NEW n, NEW gone, NEW m \in Message, m.role \notin UserKinds
    PROVE  Kept(Append(c, m), sq, fq, n, gone) <=> Kept(c, sq, fq, n, gone)
<1>1. Append(c, m) = c \o <<m>> /\ <<m>> \in Seq(Message) /\ Distinct(<<m>>)
  BY SingleFacts
<1>2. IdsOf(<<m>>, UserKinds) = {}
  BY SingleFacts
<1>3. /\ IdsOf(<<m>>, {"steer"}) = {} /\ IdsOf(<<m>>, {"followUp"}) = {}
      /\ Ordered(<<m>>, "steer") /\ Ordered(<<m>>, "followUp")
  <2>1. m.role \notin {"steer"} /\ m.role \notin {"followUp"}
    BY DEF UserKinds
  <2> QED
    BY <2>1, SingleFacts
<1>4. PICK x \in Seq(Message) : x = <<m>>
  BY <1>1
<1>5. IdsOf(c \o x, UserKinds) = IdsOf(c, UserKinds)
  <2>1. IdsOf(c \o x, UserKinds) = IdsOf(c, UserKinds) \cup IdsOf(x, UserKinds)
    BY CatIds
  <2> QED
    BY <1>2, <1>4, <2>1
<1>6. Distinct(c \o x) <=> Distinct(c)
  <2>1. IdsOf(c, UserKinds) \cap IdsOf(x, UserKinds) = {} /\ Distinct(x)
    BY <1>1, <1>2, <1>4
  <2> QED
    BY <2>1, CatDistinct
<1>7. /\ Ordered((c \o x) \o sq, "steer") <=> Ordered(c \o sq, "steer")
      /\ Ordered((c \o x) \o fq, "followUp") <=> Ordered(c \o fq, "followUp")
  BY <1>3, <1>4, OrderedBetween
<1> QED
  BY <1>1, <1>4, <1>5, <1>6, <1>7 DEF Kept

(* A message that is sent has a number of its own, above all others.       *)
LEMMA KeptBounds ==
    ASSUME NEW c, NEW sq, NEW fq, NEW n \in Nat, NEW gone, Kept(c, sq, fq, n, gone)
    PROVE  /\ IdsOf(c, UserKinds) \subseteq 1..n /\ IdsOf(sq, UserKinds) \subseteq 1..n
           /\ IdsOf(fq, UserKinds) \subseteq 1..n /\ gone \subseteq 1..n
           /\ n + 1 \notin 1..n /\ (1..(n + 1)) = (1..n) \cup {n + 1}
BY DEF Kept

LEMMA NewMessage ==
    ASSUME NEW kind \in UserKinds, NEW n \in Nat
    PROVE  /\ user(kind, n + 1) \in Message /\ <<user(kind, n + 1)>> \in Seq(Message)
           /\ Distinct(<<user(kind, n + 1)>>) /\ OnlyOf(<<user(kind, n + 1)>>, {kind})
           /\ IdsOf(<<user(kind, n + 1)>>, UserKinds) = {n + 1}
           /\ IdsOf(<<user(kind, n + 1)>>, {kind}) = {n + 1}
           /\ \A k : Ordered(<<user(kind, n + 1)>>, k)
           /\ \A k : k # kind => IdsOf(<<user(kind, n + 1)>>, {k}) = {}
           /\ \A s \in Seq(Message) : Append(s, user(kind, n + 1)) = s \o <<user(kind, n + 1)>>
<1>1. user(kind, n + 1) \in Message
  BY MessagesTyped
<1>2. user(kind, n + 1).role = kind /\ user(kind, n + 1).id = n + 1
  BY DEF user
<1>3. PICK m \in Message : m = user(kind, n + 1)
  BY <1>1
<1>4. m.role \in UserKinds /\ m.role \in {kind} /\ m.id = n + 1
  BY <1>2, <1>3
<1>5. \A k : k # kind => m.role \notin {k}
  BY <1>4
<1> QED
  BY <1>3, <1>4, <1>5, SingleFacts

LEMMA KeptPrompt ==
    ASSUME NEW c \in Seq(Message), NEW sq \in Seq(Message), NEW fq \in Seq(Message),
           NEW n \in Nat, NEW gone, Kept(c, sq, fq, n, gone)
    PROVE  Kept(c \o <<user("prompt", n + 1)>>, sq, fq, n + 1, gone)
<1>1. "prompt" \in UserKinds /\ "steer" # "prompt" /\ "followUp" # "prompt"
  BY DEF UserKinds
<1>2. PICK x \in Seq(Message) : x = <<user("prompt", n + 1)>>
  BY <1>1, NewMessage
<1>3. /\ Distinct(x) /\ IdsOf(x, UserKinds) = {n + 1}
      /\ IdsOf(x, {"steer"}) = {} /\ IdsOf(x, {"followUp"}) = {}
      /\ Ordered(x, "steer") /\ Ordered(x, "followUp")
  BY <1>1, <1>2, NewMessage
<1>4. IdsOf(c \o x, UserKinds) = IdsOf(c, UserKinds) \cup IdsOf(x, UserKinds)
  BY CatIds
<1>5. Distinct(c \o x)
  <2>1. IdsOf(c, UserKinds) \cap IdsOf(x, UserKinds) = {} /\ Distinct(c)
    BY <1>3, KeptBounds DEF Kept
  <2> QED
    BY <1>3, <2>1, CatDistinct
<1>6. Ordered((c \o x) \o sq, "steer") /\ Ordered((c \o x) \o fq, "followUp")
  BY <1>3, OrderedBetween DEF Kept
<1>7. /\ IdsOf(c \o x, UserKinds) \cap IdsOf(sq, UserKinds) = {}
      /\ IdsOf(c \o x, UserKinds) \cap IdsOf(fq, UserKinds) = {}
  BY <1>3, <1>4, KeptBounds DEF Kept
<1>8. IdsOf(c \o x, UserKinds) \cup IdsOf(sq, UserKinds) \cup IdsOf(fq, UserKinds)
        = (1..(n + 1)) \ gone /\ gone \subseteq 1..(n + 1)
  <2>1. IdsOf(c, UserKinds) \cup IdsOf(sq, UserKinds) \cup IdsOf(fq, UserKinds) = (1..n) \ gone
    BY DEF Kept
  <2> QED
    BY <1>3, <1>4, <2>1, KeptBounds
<1> QED
  BY <1>2, <1>5, <1>6, <1>7, <1>8 DEF Kept

LEMMA KeptSteer ==
    ASSUME NEW c \in Seq(Message), NEW sq \in Seq(Message), NEW fq \in Seq(Message),
           NEW n \in Nat, NEW gone, Kept(c, sq, fq, n, gone)
    PROVE  Kept(c, Append(sq, user("steer", n + 1)), fq, n + 1, gone)
<1>1. "steer" \in UserKinds
  BY DEF UserKinds
<1>2. PICK x \in Seq(Message) : x = <<user("steer", n + 1)>>
  BY <1>1, NewMessage
<1>3. /\ Distinct(x) /\ IdsOf(x, UserKinds) = {n + 1} /\ IdsOf(x, {"steer"}) = {n + 1}
      /\ OnlyOf(x, {"steer"}) /\ Ordered(x, "steer")
      /\ Append(sq, user("steer", n + 1)) = sq \o x
  BY <1>1, <1>2, NewMessage
<1>4. IdsOf(sq \o x, UserKinds) = IdsOf(sq, UserKinds) \cup IdsOf(x, UserKinds)
  BY CatIds
<1>5. Distinct(sq \o x)
  <2>1. IdsOf(sq, UserKinds) \cap IdsOf(x, UserKinds) = {} /\ Distinct(sq)
    BY <1>3, KeptBounds DEF Kept
  <2> QED
    BY <1>3, <2>1, CatDistinct
<1>6. Ordered(c \o (sq \o x), "steer")
  <2>1. c \o (sq \o x) = (c \o sq) \o x /\ c \o sq \in Seq(Message)
    OBVIOUS
  <2>2. IdsOf(c \o sq, UserKinds) = IdsOf(c, UserKinds) \cup IdsOf(sq, UserKinds)
    BY CatIds
  <2>3. IdsOf(c \o sq, {"steer"}) \subseteq 1..n
    BY <1>1, <2>1, <2>2, IdsOfKind, KeptBounds
  <2>4. Below(c \o sq, x, "steer")
    <3>1. \A a \in 1..n : a < n + 1
      OBVIOUS
    <3> QED
      BY <1>3, <2>3, <3>1 DEF Below
  <2> QED
    BY <1>3, <2>1, <2>4, CatOrdered DEF Kept
<1>7. /\ IdsOf(c, UserKinds) \cap IdsOf(sq \o x, UserKinds) = {}
      /\ IdsOf(sq \o x, UserKinds) \cap IdsOf(fq, UserKinds) = {}
  BY <1>3, <1>4, KeptBounds DEF Kept
<1>8. IdsOf(c, UserKinds) \cup IdsOf(sq \o x, UserKinds) \cup IdsOf(fq, UserKinds)
        = (1..(n + 1)) \ gone /\ gone \subseteq 1..(n + 1)
  <2>1. IdsOf(c, UserKinds) \cup IdsOf(sq, UserKinds) \cup IdsOf(fq, UserKinds) = (1..n) \ gone
    BY DEF Kept
  <2> QED
    BY <1>3, <1>4, <2>1, KeptBounds
<1>9. OnlyOf(sq \o x, {"steer"})
  BY <1>3, CatOnly DEF Kept
<1> QED
  BY <1>3, <1>5, <1>6, <1>7, <1>8, <1>9 DEF Kept

LEMMA KeptFollowUp ==
    ASSUME NEW c \in Seq(Message), NEW sq \in Seq(Message), NEW fq \in Seq(Message),
           NEW n \in Nat, NEW gone, Kept(c, sq, fq, n, gone)
    PROVE  Kept(c, sq, Append(fq, user("followUp", n + 1)), n + 1, gone)
<1>1. "followUp" \in UserKinds
  BY DEF UserKinds
<1>2. PICK x \in Seq(Message) : x = <<user("followUp", n + 1)>>
  BY <1>1, NewMessage
<1>3. /\ Distinct(x) /\ IdsOf(x, UserKinds) = {n + 1} /\ IdsOf(x, {"followUp"}) = {n + 1}
      /\ OnlyOf(x, {"followUp"}) /\ Ordered(x, "followUp")
      /\ Append(fq, user("followUp", n + 1)) = fq \o x
  BY <1>1, <1>2, NewMessage
<1>4. IdsOf(fq \o x, UserKinds) = IdsOf(fq, UserKinds) \cup IdsOf(x, UserKinds)
  BY CatIds
<1>5. Distinct(fq \o x)
  <2>1. IdsOf(fq, UserKinds) \cap IdsOf(x, UserKinds) = {} /\ Distinct(fq)
    BY <1>3, KeptBounds DEF Kept
  <2> QED
    BY <1>3, <2>1, CatDistinct
<1>6. Ordered(c \o (fq \o x), "followUp")
  <2>1. c \o (fq \o x) = (c \o fq) \o x /\ c \o fq \in Seq(Message)
    OBVIOUS
  <2>2. IdsOf(c \o fq, UserKinds) = IdsOf(c, UserKinds) \cup IdsOf(fq, UserKinds)
    BY CatIds
  <2>3. IdsOf(c \o fq, {"followUp"}) \subseteq 1..n
    BY <1>1, <2>1, <2>2, IdsOfKind, KeptBounds
  <2>4. Below(c \o fq, x, "followUp")
    <3>1. \A a \in 1..n : a < n + 1
      OBVIOUS
    <3> QED
      BY <1>3, <2>3, <3>1 DEF Below
  <2> QED
    BY <1>3, <2>1, <2>4, CatOrdered DEF Kept
<1>7. /\ IdsOf(c, UserKinds) \cap IdsOf(fq \o x, UserKinds) = {}
      /\ IdsOf(sq, UserKinds) \cap IdsOf(fq \o x, UserKinds) = {}
  BY <1>3, <1>4, KeptBounds DEF Kept
<1>8. IdsOf(c, UserKinds) \cup IdsOf(sq, UserKinds) \cup IdsOf(fq \o x, UserKinds)
        = (1..(n + 1)) \ gone /\ gone \subseteq 1..(n + 1)
  <2>1. IdsOf(c, UserKinds) \cup IdsOf(sq, UserKinds) \cup IdsOf(fq, UserKinds) = (1..n) \ gone
    BY DEF Kept
  <2> QED
    BY <1>3, <1>4, <2>1, KeptBounds
<1>9. OnlyOf(fq \o x, {"followUp"})
  BY <1>3, CatOnly DEF Kept
<1> QED
  BY <1>3, <1>5, <1>6, <1>7, <1>8, <1>9 DEF Kept

(* Messages leave: both queues are cleared, or a run fails and what the    *)
(* loop still held is gone.                                                *)
LEMMA KeptCleared ==
    ASSUME NEW c \in Seq(Message), NEW sq \in Seq(Message), NEW fq \in Seq(Message),
           NEW n \in Nat, NEW gone, Kept(c, sq, fq, n, gone)
    PROVE  Kept(c, <<>>, <<>>, n, gone \cup Ids(sq) \cup Ids(fq))
<1>1. PICK e \in Seq(Message) : e = <<>>
  BY EmptyFacts
<1>2. \A kinds : IdsOf(e, kinds) = {} /\ OnlyOf(e, kinds)
  BY <1>1, EmptyFacts
<1>3. Distinct(e) /\ c \o e = c
  BY <1>1, EmptyFacts
<1>4. Ids(sq) = IdsOf(sq, UserKinds) /\ Ids(fq) = IdsOf(fq, UserKinds)
  <2>1. {"steer"} \in SUBSET UserKinds /\ {"followUp"} \in SUBSET UserKinds
    BY DEF UserKinds
  <2> QED
    BY <2>1, OnlyUsers DEF Kept
<1>5. Ordered(c, "steer") /\ Ordered(c, "followUp")
  BY CatOrdered DEF Kept
<1>6. IdsOf(e, UserKinds) = {} /\ OnlyOf(e, {"steer"}) /\ OnlyOf(e, {"followUp"})
  BY <1>2
<1>7. IdsOf(c, UserKinds) = (1..n) \ (gone \cup Ids(sq) \cup Ids(fq))
  BY <1>4 DEF Kept
<1>8. gone \cup Ids(sq) \cup Ids(fq) \subseteq 1..n
  <2>1. /\ IdsOf(sq, UserKinds) \subseteq 1..n /\ IdsOf(fq, UserKinds) \subseteq 1..n
        /\ gone \subseteq 1..n
    BY KeptBounds
  <2> QED
    BY <1>4, <2>1
<1> HIDE DEF Ids
<1> QED
  BY <1>1, <1>3, <1>5, <1>6, <1>7, <1>8 DEF Kept

LEMMA KeptDropped ==
    ASSUME NEW c \in Seq(Message), NEW x \in Seq(Message), NEW sq \in Seq(Message),
           NEW fq \in Seq(Message), NEW n \in Nat, NEW gone,
           OnlyOf(x, UserKinds), Kept(c \o x, sq, fq, n, gone)
    PROVE  Kept(c, sq, fq, n, gone \cup Ids(x))
<1>1. Ids(x) = IdsOf(x, UserKinds)
  BY OnlyUsers
<1>2. IdsOf(c \o x, UserKinds) = IdsOf(c, UserKinds) \cup IdsOf(x, UserKinds)
  BY CatIds
<1>3. Distinct(c) /\ IdsOf(c, UserKinds) \cap IdsOf(x, UserKinds) = {}
  BY CatDistinct DEF Kept
<1>4. ASSUME NEW q \in Seq(Message), NEW kind, Ordered((c \o x) \o q, kind)
      PROVE  Ordered(c \o q, kind)
  <2>1. c \o x \in Seq(Message)
    OBVIOUS
  <2>2. Ordered(c \o x, kind) /\ Ordered(q, kind) /\ Below(c \o x, q, kind)
    BY <1>4, <2>1, CatOrdered
  <2>3. Ordered(c, kind)
    BY <2>2, CatOrdered
  <2>4. IdsOf(c \o x, {kind}) = IdsOf(c, {kind}) \cup IdsOf(x, {kind})
    BY CatIds
  <2>5. Below(c, q, kind)
    BY <2>2, <2>4 DEF Below
  <2> QED
    BY <2>2, <2>3, <2>5, CatOrdered
<1>5. /\ IdsOf(x, UserKinds) \cap IdsOf(sq, UserKinds) = {}
      /\ IdsOf(x, UserKinds) \cap IdsOf(fq, UserKinds) = {}
      /\ IdsOf(c, UserKinds) \cap IdsOf(sq, UserKinds) = {}
      /\ IdsOf(c, UserKinds) \cap IdsOf(fq, UserKinds) = {}
  BY <1>2 DEF Kept
<1>6. IdsOf(c, UserKinds) \cup IdsOf(sq, UserKinds) \cup IdsOf(fq, UserKinds)
        = (1..n) \ (gone \cup Ids(x))
  <2>1. (IdsOf(c, UserKinds) \cup IdsOf(x, UserKinds)) \cup IdsOf(sq, UserKinds)
           \cup IdsOf(fq, UserKinds) = (1..n) \ gone
    BY <1>2 DEF Kept
  <2> QED
    BY <1>1, <1>3, <1>5, <2>1
<1>7. gone \cup Ids(x) \subseteq 1..n
  <2>1. IdsOf(c \o x, UserKinds) \subseteq 1..n /\ gone \subseteq 1..n
    BY KeptBounds
  <2> QED
    BY <1>1, <1>2, <2>1
<1> QED
  BY <1>3, <1>4, <1>5, <1>6, <1>7 DEF Kept

(* What Kept says of a state is OnceInOrder.                               *)
Places(s, k) == {i \in DOMAIN s : IsUser(s[i]) /\ s[i].id = k}

LEMMA KeptAll ==
    ASSUME NEW c \in Seq(Message), NEW sq \in Seq(Message), NEW fq \in Seq(Message),
           NEW n, NEW gone, Kept(c, sq, fq, n, gone)
    PROVE  /\ Distinct(c \o (sq \o fq))
           /\ IdsOf(c \o (sq \o fq), UserKinds) = (1..n) \ gone
<1>1. PICK q \in Seq(Message) : q = sq \o fq
  BY CatParts
<1>2. IdsOf(q, UserKinds) = IdsOf(sq, UserKinds) \cup IdsOf(fq, UserKinds) /\ Distinct(q)
  BY <1>1, CatIds, CatDistinct DEF Kept
<1>3. IdsOf(c \o q, UserKinds) = IdsOf(c, UserKinds) \cup IdsOf(q, UserKinds)
  BY CatIds
<1>4. Distinct(c \o q)
  <2>1. IdsOf(c, UserKinds) \cap IdsOf(q, UserKinds) = {} /\ Distinct(c)
    BY <1>2 DEF Kept
  <2> QED
    BY <1>2, <2>1, CatDistinct
<1>5. IdsOf(c \o q, UserKinds) = (1..n) \ gone
  BY <1>2, <1>3 DEF Kept
<1> QED
  BY <1>1, <1>4, <1>5

LEMMA OncePlaced ==
    ASSUME NEW s, NEW n, NEW gone, NEW k \in 1..n,
           Distinct(s), IdsOf(s, UserKinds) = (1..n) \ gone
    PROVE  Cardinality(Places(s, k)) = IF k \in gone THEN 0 ELSE 1
<1>1. CASE k \in gone
  <2>1. k \notin IdsOf(s, UserKinds)
    BY <1>1
  <2>2. Places(s, k) = {}
    BY <2>1 DEF Places, IdsOf, IsUser
  <2> QED
    BY <1>1, <2>2, FS_EmptySet
<1>2. CASE k \notin gone
  <2>1. k \in IdsOf(s, UserKinds)
    BY <1>2
  <2>2. PICK i \in DOMAIN s : IsUser(s[i]) /\ s[i].id = k
    BY <2>1 DEF IdsOf, IsUser
  <2>3. Places(s, k) = {i}
    BY <2>2 DEF Places, Distinct
  <2>4. Cardinality(Places(s, k)) = 1
    BY <2>3, FS_Singleton
  <2> QED
    BY <1>2, <2>4
<1> QED
  BY <1>1, <1>2

(* What has been delivered, and what the loop holds.                       *)
Core == state.messages \o loop.prompts \o loop.pending

(* The loop holds queued messages at its injection only, and every message *)
(* not discarded is in one place, in order.                                *)
Delivery ==
    /\ Kept(Core, steeringQueue, followUpQueue, sent, dropped)
    /\ OnlyOf(loop.prompts, UserKinds) /\ OnlyOf(loop.pending, UserKinds)
    /\ loop.pc # "inject" => loop.pending = <<>>

LEMMA FlowTyped ==
    ASSUME TypeOK
    PROVE  /\ state.messages \in Seq(Message) /\ loop.prompts \in Seq(Message)
           /\ loop.pending \in Seq(Message) /\ Core \in Seq(Message)
           /\ steeringQueue \in Seq(Message) /\ followUpQueue \in Seq(Message) /\ sent \in Nat
<1>1. /\ state.messages \in Seq(Message) /\ loop.prompts \in Seq(Message)
      /\ loop.pending \in Seq(Message)
  BY StateFields, LoopFields DEF TypeOK
<1>2. Core \in Seq(Message)
  BY <1>1, CatParts DEF Core
<1> QED
  BY <1>1, <1>2, ConstantsAssumption DEF TypeOK

LEMMA NoneHeld ==
    ASSUME NEW s \in Seq(Message), NEW p \in Seq(Message), NEW q \in Seq(Message)
    PROVE  /\ q = <<>> => s \o p \o q = s \o p
           /\ p = <<>> => s \o p \o q = s \o q
           /\ p = <<>> /\ q = <<>> => s \o p \o q = s
<1>1. s \o p \in Seq(Message)
  OBVIOUS
<1>2. ASSUME q = <<>> PROVE s \o p \o q = s \o p
  BY <1>1, <1>2
<1>3. ASSUME p = <<>> PROVE s \o p = s
  BY <1>3
<1> QED
  BY <1>2, <1>3

LEMMA CoreAlone ==
    ASSUME TypeOK, Shape, Delivery, loop.pc \notin {"start", "inject"}
    PROVE  Core = state.messages /\ loop.prompts = <<>> /\ loop.pending = <<>>
<1>1. loop.prompts = <<>> /\ loop.pending = <<>>
  BY DEF Shape, Delivery
<1>2. state.messages \o loop.prompts \o loop.pending = state.messages
  BY <1>1, FlowTyped, NoneHeld
<1> QED
  BY <1>1, <1>2 DEF Core

(* A step that leaves the messages where they are.                         *)
LEMMA DeliverySame ==
    ASSUME Delivery, state'.messages = state.messages,
           loop'.prompts = loop.prompts, loop'.pending = loop.pending,
           steeringQueue' = steeringQueue, followUpQueue' = followUpQueue,
           sent' = sent, dropped' = dropped,
           loop'.pc # "inject" => loop'.pending = <<>>
    PROVE  Delivery'
<1>1. Core' = Core
  BY DEF Core
<1>2. Kept(Core', steeringQueue', followUpQueue', sent', dropped')
  BY <1>1 DEF Delivery
<1>3. OnlyOf(loop'.prompts, UserKinds) /\ OnlyOf(loop'.pending, UserKinds)
  BY DEF Delivery
<1> QED
  BY <1>2, <1>3 DEF Delivery

LEMMA DeliveryInit == Init => Delivery
<1> SUFFICES ASSUME Init PROVE Delivery
  OBVIOUS
<1>1. Core = <<>>
  BY DEF Init, Core, IdleLoop
<1>2. loop.prompts = <<>> /\ loop.pending = <<>> /\ loop.pc = "idle"
  BY DEF Init, IdleLoop
<1>3. PICK e \in Seq(Message) : e = <<>>
  BY EmptyFacts
<1>4. \A kinds, kind : IdsOf(e, kinds) = {} /\ OnlyOf(e, kinds) /\ Distinct(e) /\ Ordered(e, kind)
  BY <1>3, EmptyFacts
<1>5. e \o e = e
  BY <1>3
<1>6. Kept(e, e, e, 0, {})
  <2>1. (1..0) \ {} = {}
    OBVIOUS
  <2>2. IdsOf(e, UserKinds) = {}
    BY <1>4
  <2> QED
    BY <1>4, <1>5, <2>1, <2>2 DEF Kept
<1>7. sent = 0 /\ dropped = {} /\ steeringQueue = e /\ followUpQueue = e
  BY <1>3 DEF Init
<1> QED
  BY <1>1, <1>2, <1>3, <1>4, <1>6, <1>7 DEF Delivery

LEMMA LaunchFlow ==
    ASSUME TypeOK, NEW prompts, NEW skipPoll, Launch(prompts, skipPoll)
    PROVE  /\ loop'.pc = "start" /\ loop'.prompts = prompts /\ loop'.pending = <<>>
           /\ state'.messages = state.messages
BY DEF Launch, IdleLoop, TypeOK, AgentState

LEMMA LaunchDelivers ==
    ASSUME TypeOK, NEW prompts \in Seq(Message), NEW skipPoll, Launch(prompts, skipPoll),
           OnlyOf(prompts, UserKinds),
           Kept(state.messages \o prompts, steeringQueue', followUpQueue', sent', dropped')
    PROVE  Delivery'
<1>1. /\ loop'.pc = "start" /\ loop'.prompts = prompts /\ loop'.pending = <<>>
      /\ state'.messages = state.messages
  BY LaunchFlow
<1>2. state.messages \o prompts \o <<>> = state.messages \o prompts
  BY FlowTyped, EmptyFacts, NoneHeld
<1>3. Core' = state.messages \o prompts
  BY <1>1, <1>2 DEF Core
<1>4. OnlyOf(<<>>, UserKinds)
  BY EmptyFacts
<1>5. OnlyOf(loop.prompts, UserKinds)' /\ OnlyOf(loop.pending, UserKinds)'
  BY <1>1, <1>4 DEF OnlyOf, UserKinds
<1>6. Kept(Core', steeringQueue', followUpQueue', sent', dropped')
  BY <1>3
<1> QED
  BY <1>1, <1>5, <1>6 DEF Delivery

LEMMA DeliveryStarts ==
    ASSUME TypeOK, Shape, Delivery, Prompt \/ ContinueQueued \/ ContinueTranscript
    PROVE  Delivery'
<1>1. loop.pc = "idle"
  BY DEF Prompt, ContinueQueued, ContinueTranscript, Shape
<1>2. Kept(state.messages, steeringQueue, followUpQueue, sent, dropped)
  BY <1>1, CoreAlone DEF Delivery
<1>f. /\ state.messages \in Seq(Message) /\ steeringQueue \in Seq(Message)
      /\ followUpQueue \in Seq(Message) /\ sent \in Nat
  BY FlowTyped
<1>3. CASE Prompt
  <2> DEFINE p == <<user("prompt", sent + 1)>>
  <2>1. "prompt" \in UserKinds
    BY DEF UserKinds
  <2>2. p \in Seq(Message) /\ OnlyOf(p, {"prompt"})
    BY <1>f, <2>1, NewMessage
  <2>3. Kept(state.messages \o p, steeringQueue, followUpQueue, sent + 1, dropped)
    BY <1>2, <1>f, KeptPrompt
  <2>4. OnlyOf(p, UserKinds)
    BY <2>1, <2>2 DEF OnlyOf
  <2>5. /\ Launch(p, FALSE) /\ steeringQueue' = steeringQueue /\ followUpQueue' = followUpQueue
        /\ sent' = sent + 1 /\ dropped' = dropped
    BY <1>3 DEF Prompt, queues
  <2> HIDE DEF p
  <2> QED
    BY <2>2, <2>3, <2>4, <2>5, LaunchDelivers
<1>4. CASE ContinueQueued
  <2>1. sent' = sent /\ dropped' = dropped
    BY <1>4 DEF ContinueQueued, hist
  <2>2. CASE /\ Launch(Drained(steeringQueue, SteeringMode), TRUE)
             /\ steeringQueue' = Left(steeringQueue, SteeringMode)
             /\ followUpQueue' = followUpQueue
    <3>1. PICK d \in Seq(Message) : d = Drained(steeringQueue, SteeringMode)
      BY <1>f, DrainTyped, ConstantsAssumption
    <3>2. PICK q \in Seq(Message) : q = Left(steeringQueue, SteeringMode)
      BY <1>f, DrainTyped, ConstantsAssumption
    <3>3. steeringQueue = d \o q
      BY <1>f, <3>1, <3>2, DrainSplits, ConstantsAssumption
    <3>4. Kept(state.messages \o d, q, followUpQueue, sent, dropped) /\ OnlyOf(d, UserKinds)
      BY <1>2, <1>f, <3>3, KeptSteered
    <3> QED
      BY <2>1, <2>2, <3>1, <3>2, <3>4, LaunchDelivers
  <2>3. CASE /\ Launch(Drained(followUpQueue, FollowUpMode), FALSE)
             /\ followUpQueue' = Left(followUpQueue, FollowUpMode)
             /\ steeringQueue' = steeringQueue
    <3>1. PICK d \in Seq(Message) : d = Drained(followUpQueue, FollowUpMode)
      BY <1>f, DrainTyped, ConstantsAssumption
    <3>2. PICK q \in Seq(Message) : q = Left(followUpQueue, FollowUpMode)
      BY <1>f, DrainTyped, ConstantsAssumption
    <3>3. followUpQueue = d \o q
      BY <1>f, <3>1, <3>2, DrainSplits, ConstantsAssumption
    <3>4. Kept(state.messages \o d, steeringQueue, q, sent, dropped) /\ OnlyOf(d, UserKinds)
      BY <1>2, <1>f, <3>3, KeptFollowed
    <3> QED
      BY <2>1, <2>3, <3>1, <3>2, <3>4, LaunchDelivers
  <2> QED
    BY <1>4, <2>2, <2>3 DEF ContinueQueued
<1>5. CASE ContinueTranscript
  <2>1. PICK e \in Seq(Message) : e = <<>>
    BY EmptyFacts
  <2>2. OnlyOf(e, UserKinds) /\ state.messages \o e = state.messages
    <3>1. OnlyOf(e, UserKinds)
      BY <2>1, EmptyFacts
    <3>2. state.messages \o e = state.messages
      BY <1>f, <2>1
    <3> QED
      BY <3>1, <3>2
  <2>3. /\ Launch(e, FALSE) /\ steeringQueue' = steeringQueue /\ followUpQueue' = followUpQueue
        /\ sent' = sent /\ dropped' = dropped
    BY <1>5, <2>1 DEF ContinueTranscript, queues, hist
  <2> QED
    BY <1>2, <2>2, <2>3, LaunchDelivers
<1> QED
  BY <1>3, <1>4, <1>5

LEMMA DeliveryCallers ==
    ASSUME TypeOK, Shape, Delivery, CallerStep
    PROVE  Delivery'
<1>f. /\ state.messages \in Seq(Message) /\ steeringQueue \in Seq(Message)
      /\ followUpQueue \in Seq(Message) /\ sent \in Nat /\ Core \in Seq(Message)
  BY FlowTyped
<1>k. ASSUME state' = state, loop' = loop,
             Kept(Core, steeringQueue', followUpQueue', sent', dropped')
      PROVE  Delivery'
  <2>1. Core' = Core
    BY <1>k DEF Core
  <2>2. Kept(Core', steeringQueue', followUpQueue', sent', dropped')
    BY <1>k, <2>1
  <2>3. OnlyOf(loop'.prompts, UserKinds) /\ OnlyOf(loop'.pending, UserKinds)
    BY <1>k DEF Delivery
  <2>4. loop'.pc # "inject" => loop'.pending = <<>>
    BY <1>k DEF Delivery
  <2> QED
    BY <2>2, <2>3, <2>4 DEF Delivery
<1>1. CASE Prompt \/ ContinueQueued \/ ContinueTranscript
  BY <1>1, DeliveryStarts
<1>2. CASE steer
  <2>1. Kept(Core, Append(steeringQueue, user("steer", sent + 1)), followUpQueue, sent + 1, dropped)
    BY <1>f, KeptSteer DEF Delivery
  <2> QED
    BY <1>2, <1>k, <2>1 DEF steer
<1>3. CASE followUp
  <2>1. Kept(Core, steeringQueue, Append(followUpQueue, user("followUp", sent + 1)), sent + 1, dropped)
    BY <1>f, KeptFollowUp DEF Delivery
  <2> QED
    BY <1>3, <1>k, <2>1 DEF followUp
<1>4. CASE clearAllQueues
  <2>1. Kept(Core, <<>>, <<>>, sent, dropped \cup Ids(steeringQueue) \cup Ids(followUpQueue))
    BY <1>f, KeptCleared DEF Delivery
  <2> QED
    BY <1>4, <1>k, <2>1 DEF clearAllQueues
<1>5. CASE abort
  BY <1>5, <1>k DEF abort, queues, hist, Delivery
<1>6. CASE DropFailedAnswer
  <2>1. Core = state.messages /\ loop.prompts = <<>> /\ loop.pending = <<>>
    BY <1>6, CoreAlone DEF DropFailedAnswer, Shape
  <2> DEFINE s == Front(state.messages)
             m == Last(state.messages)
  <2>2. s \in Seq(Message) /\ m \in Message /\ state.messages = Append(s, m)
    BY <1>6, <1>f DEF DropFailedAnswer, Front, Last
  <2>3. m.role \notin UserKinds
    BY <1>6 DEF DropFailedAnswer, LastRole, UserKinds
  <2>4. state'.messages = s /\ loop' = loop
    BY <1>6 DEF DropFailedAnswer, TypeOK, AgentState
  <2> HIDE DEF s, m
  <2>5. Kept(s, steeringQueue, followUpQueue, sent, dropped)
    <3>1. Kept(Append(s, m), steeringQueue, followUpQueue, sent, dropped)
      BY <2>1, <2>2 DEF Delivery
    <3> QED
      BY <1>f, <2>2, <2>3, <3>1, KeptOther
  <2>6. Core' = s
    <3>1. s \o loop.prompts \o loop.pending = s
      BY <2>1, <2>2, FlowTyped, NoneHeld
    <3> QED
      BY <2>4, <3>1 DEF Core
  <2>7. /\ steeringQueue' = steeringQueue /\ followUpQueue' = followUpQueue
        /\ sent' = sent /\ dropped' = dropped
    BY <1>6 DEF DropFailedAnswer, queues, hist
  <2>8. Kept(Core', steeringQueue', followUpQueue', sent', dropped')
    BY <2>5, <2>6, <2>7
  <2> QED
    BY <2>4, <2>8 DEF Delivery
<1> QED
  BY <1>1, <1>2, <1>3, <1>4, <1>5, <1>6 DEF CallerStep

(* The message at hand goes from the loop to the transcript.               *)
LEMMA MoveThrough ==
    ASSUME NEW s \in Seq(Message), NEW p \in Seq(Message), p # <<>>
    PROVE  /\ Head(p) \in Message /\ Tail(p) \in Seq(Message)
           /\ Append(s, Head(p)) \o Tail(p) = s \o p
           /\ \A kinds : OnlyOf(p, kinds) => OnlyOf(Tail(p), kinds)
<1>1. Head(p) \in Message /\ Tail(p) \in Seq(Message)
  OBVIOUS
<1>2. Append(s, Head(p)) \o Tail(p) = s \o p
  BY MoveHead
<1>3. p = <<Head(p)>> \o Tail(p) /\ <<Head(p)>> \in Seq(Message)
  BY <1>1
<1>4. ASSUME NEW kinds, OnlyOf(p, kinds) PROVE OnlyOf(Tail(p), kinds)
  BY <1>1, <1>3, <1>4, CatOnly
<1> QED
  BY <1>1, <1>2, <1>4

LEMMA DeliveryOpening ==
    ASSUME TypeOK, Shape, Delivery,
           EmitPrompt \/ PromptsEmitted \/ Inject \/ Injected \/ RequestStarted
    PROVE  Delivery'
<1> USE DEF At
<1>f. /\ state.messages \in Seq(Message) /\ loop.prompts \in Seq(Message)
      /\ loop.pending \in Seq(Message)
  BY FlowTyped
<1>q. /\ steeringQueue' = steeringQueue /\ followUpQueue' = followUpQueue
      /\ sent' = sent /\ dropped' = dropped
  BY DEF EmitPrompt, PromptsEmitted, Inject, Injected, RequestStarted, queues, hist
<1>k. ASSUME Core' = Core, OnlyOf(loop'.prompts, UserKinds), OnlyOf(loop'.pending, UserKinds),
             loop'.pc # "inject" => loop'.pending = <<>>
      PROVE  Delivery'
  <2>1. Kept(Core', steeringQueue', followUpQueue', sent', dropped')
    BY <1>q, <1>k DEF Delivery
  <2> QED
    BY <1>k, <2>1 DEF Delivery
<1>1. CASE EmitPrompt
  <2>1. loop.prompts # <<>> /\ loop.pc = "start"
    BY <1>1 DEF EmitPrompt
  <2>2. state'.messages = Append(state.messages, Head(loop.prompts))
    BY <1>1, <1>f, <2>1, MoveThrough, PushTyped DEF EmitPrompt, TypeOK
  <2>3. loop'.prompts = Tail(loop.prompts) /\ loop'.pending = loop.pending /\ loop'.pc = loop.pc
    BY <1>1 DEF EmitPrompt, TypeOK, Loop
  <2>4. Append(state.messages, Head(loop.prompts)) \o Tail(loop.prompts)
          = state.messages \o loop.prompts
    BY <1>f, <2>1, MoveThrough
  <2>5. Core' = Core
    BY <2>2, <2>3, <2>4 DEF Core
  <2>6. OnlyOf(loop'.prompts, UserKinds)
    BY <1>f, <2>1, <2>3, MoveThrough DEF Delivery
  <2> QED
    BY <1>k, <2>1, <2>3, <2>5, <2>6 DEF Delivery
<1>2. CASE PromptsEmitted
  <2>1. loop' = [loop EXCEPT !.pc = "poll"] /\ state' = state /\ loop.pc = "start"
    BY <1>2 DEF PromptsEmitted
  <2>2. loop'.prompts = loop.prompts /\ loop'.pending = loop.pending /\ loop'.pc = "poll"
    BY <2>1 DEF TypeOK, Loop
  <2> QED
    BY <1>q, <2>1, <2>2, DeliverySame DEF Delivery
<1>3. CASE Inject
  <2>1. loop.pending # <<>> /\ loop.pc = "inject" /\ loop.prompts = <<>>
    BY <1>3 DEF Inject, Shape
  <2>2. state'.messages = Append(state.messages, Head(loop.pending))
    BY <1>3, <1>f, <2>1, MoveThrough, PushTyped DEF Inject, TypeOK
  <2>3. loop'.pending = Tail(loop.pending) /\ loop'.prompts = loop.prompts /\ loop'.pc = "inject"
    BY <1>3 DEF Inject, TypeOK, Loop
  <2>4. Core = state.messages \o loop.pending
    BY <1>f, <2>1, NoneHeld DEF Core
  <2>5. Core' = Append(state.messages, Head(loop.pending)) \o Tail(loop.pending)
    <3>1. PICK s \in Seq(Message) : s = Append(state.messages, Head(loop.pending))
      <4>1. Head(loop.pending) \in Message
        BY <1>f, <2>1, MoveThrough
      <4>2. Append(state.messages, Head(loop.pending)) \in Seq(Message)
        BY <1>f, <4>1
      <4> QED
        BY <4>2
    <3>2. PICK t \in Seq(Message) : t = Tail(loop.pending)
      BY <1>f, <2>1, MoveThrough
    <3>3. s \o loop.prompts \o t = s \o t
      BY <1>f, <2>1, NoneHeld
    <3> QED
      BY <2>2, <2>3, <3>1, <3>2, <3>3 DEF Core
  <2>6. Core' = Core
    BY <1>f, <2>1, <2>4, <2>5, MoveThrough
  <2>7. OnlyOf(loop'.pending, UserKinds)
    BY <1>f, <2>1, <2>3, MoveThrough DEF Delivery
  <2> QED
    BY <1>k, <2>3, <2>6, <2>7 DEF Delivery
<1>4. CASE Injected
  <2>1. loop' = [loop EXCEPT !.pc = "request"] /\ state' = state /\ loop.pending = <<>>
    BY <1>4 DEF Injected
  <2>2. loop'.prompts = loop.prompts /\ loop'.pending = loop.pending
    BY <2>1 DEF TypeOK, Loop
  <2> QED
    BY <1>q, <2>1, <2>2, DeliverySame
<1>5. CASE RequestStarted
  <2>1. /\ loop' = [loop EXCEPT !.pc = "streaming"] /\ loop.pc = "request"
        /\ state' = [state EXCEPT !.streamingMessage = TRUE]
    BY <1>5 DEF RequestStarted
  <2>2. loop'.prompts = loop.prompts /\ loop'.pending = loop.pending
    BY <2>1 DEF TypeOK, Loop
  <2>3. state'.messages = state.messages
    BY <2>1 DEF TypeOK, AgentState
  <2> QED
    BY <1>q, <2>1, <2>2, <2>3, DeliverySame DEF Delivery
<1> QED
  BY <1>1, <1>2, <1>3, <1>4, <1>5

(* A poll takes messages from a queue into the hands of the loop.          *)
LEMMA DeliveryPolls ==
    ASSUME TypeOK, Shape, Delivery, InitialPoll \/ PollSteering \/ PollFollowUp
    PROVE  Delivery'
<1> USE DEF At
<1>1. loop.pc \in {"poll", "pollSteering", "pollFollowUp"}
  BY DEF InitialPoll, PollSteering, PollFollowUp
<1>2. Core = state.messages /\ loop.prompts = <<>> /\ loop.pending = <<>>
  BY <1>1, CoreAlone
<1>f. /\ state.messages \in Seq(Message) /\ steeringQueue \in Seq(Message)
      /\ followUpQueue \in Seq(Message)
  BY FlowTyped
<1>3. Kept(state.messages, steeringQueue, followUpQueue, sent, dropped)
  BY <1>2 DEF Delivery
<1>4. state' = state /\ sent' = sent /\ dropped' = dropped
  BY DEF InitialPoll, PollSteering, PollFollowUp, hist
<1>k. ASSUME NEW d \in Seq(Message), loop'.prompts = <<>>, loop'.pending = d,
             OnlyOf(d, UserKinds), loop'.pc # "inject" => d = <<>>,
             Kept(state.messages \o d, steeringQueue', followUpQueue', sent, dropped)
      PROVE  Delivery'
  <2>1. state.messages \o <<>> \o d = state.messages \o d
    BY <1>f, EmptyFacts, NoneHeld
  <2>2. Core' = state.messages \o d
    BY <1>4, <1>k, <2>1 DEF Core
  <2>3. Kept(Core', steeringQueue', followUpQueue', sent', dropped')
    BY <1>4, <1>k, <2>2
  <2>4. OnlyOf(loop'.prompts, UserKinds)
    BY <1>k, EmptyFacts
  <2> QED
    BY <1>k, <2>3, <2>4 DEF Delivery
<1>s. ASSUME steeringQueue' = Left(steeringQueue, SteeringMode), followUpQueue' = followUpQueue,
             loop'.prompts = <<>>, loop'.pending = Drained(steeringQueue, SteeringMode),
             loop'.pc # "inject" => loop'.pending = <<>>
      PROVE  Delivery'
  <2>1. PICK d \in Seq(Message) : d = Drained(steeringQueue, SteeringMode)
    BY <1>f, DrainTyped, ConstantsAssumption
  <2>2. PICK q \in Seq(Message) : q = Left(steeringQueue, SteeringMode)
    BY <1>f, DrainTyped, ConstantsAssumption
  <2>3. steeringQueue = d \o q
    BY <1>f, <2>1, <2>2, DrainSplits, ConstantsAssumption
  <2>4. Kept(state.messages \o d, q, followUpQueue, sent, dropped) /\ OnlyOf(d, UserKinds)
    BY <1>3, <1>f, <2>3, KeptSteered
  <2> QED
    BY <1>k, <1>s, <2>1, <2>2, <2>4
<1>5. CASE InitialPoll
  <2>1. CASE loop.skipPoll
    <3>1. loop' = [loop EXCEPT !.pc = "inject", !.skipPoll = FALSE]
      BY <1>5, <2>1 DEF InitialPoll
    <3>2. loop'.pc = "inject" /\ loop'.prompts = loop.prompts /\ loop'.pending = loop.pending
      BY <3>1 DEF TypeOK, Loop
    <3>3. steeringQueue' = steeringQueue /\ followUpQueue' = followUpQueue
      BY <1>5, <2>1 DEF InitialPoll
    <3> QED
      BY <1>4, <3>2, <3>3, DeliverySame
  <2>2. CASE ~ loop.skipPoll
    <3>1. /\ loop' = [loop EXCEPT !.pc = "inject", !.pending = Drained(steeringQueue, SteeringMode)]
          /\ steeringQueue' = Left(steeringQueue, SteeringMode) /\ followUpQueue' = followUpQueue
      BY <1>5, <2>2 DEF InitialPoll
    <3>2. /\ loop'.pc = "inject" /\ loop'.prompts = <<>>
          /\ loop'.pending = Drained(steeringQueue, SteeringMode)
      BY <1>2, <3>1 DEF TypeOK, Loop
    <3> QED
      BY <1>s, <3>1, <3>2
  <2> QED
    BY <2>1, <2>2
<1>6. CASE PollSteering
  <2> DEFINE d == Drained(steeringQueue, SteeringMode)
             pc == IF loop.hasMore \/ d # <<>> THEN "inject" ELSE "pollFollowUp"
  <2>1. loop' = [loop EXCEPT !.pending = d, !.pc = pc]
    BY <1>6 DEF PollSteering
  <2>2. pc # "inject" => d = <<>>
    OBVIOUS
  <2> HIDE DEF d, pc
  <2>3. loop'.pending = d /\ loop'.prompts = <<>> /\ loop'.pc = pc
    BY <1>2, <2>1 DEF TypeOK, Loop
  <2>4. steeringQueue' = Left(steeringQueue, SteeringMode) /\ followUpQueue' = followUpQueue
    BY <1>6 DEF PollSteering
  <2> QED
    BY <1>s, <2>2, <2>3, <2>4 DEF d
<1>7. CASE PollFollowUp
  <2> DEFINE d == Drained(followUpQueue, FollowUpMode)
             pc == IF d # <<>> THEN "inject" ELSE "end"
  <2>1. loop' = [loop EXCEPT !.pending = d, !.hasMore = TRUE, !.pc = pc]
    BY <1>7 DEF PollFollowUp
  <2>2. pc # "inject" => d = <<>>
    OBVIOUS
  <2> HIDE DEF d, pc
  <2>3. loop'.pending = d /\ loop'.prompts = <<>> /\ loop'.pc = pc
    BY <1>2, <2>1 DEF TypeOK, Loop
  <2>4. PICK q \in Seq(Message) : q = Left(followUpQueue, FollowUpMode)
    BY <1>f, DrainTyped, ConstantsAssumption
  <2>5. d \in Seq(Message) /\ followUpQueue = d \o q
    BY <1>f, <2>4, DrainTyped, DrainSplits, ConstantsAssumption DEF d
  <2>6. Kept(state.messages \o d, steeringQueue, q, sent, dropped) /\ OnlyOf(d, UserKinds)
    BY <1>3, <1>f, <2>5, KeptFollowed
  <2>7. followUpQueue' = q /\ steeringQueue' = steeringQueue
    BY <1>7, <2>4 DEF PollFollowUp
  <2> QED
    BY <1>k, <2>2, <2>3, <2>5, <2>6, <2>7
<1> QED
  BY <1>5, <1>6, <1>7

(* Answers and results are not user messages: they lengthen the transcript *)
(* and disturb nothing.                                                    *)
LEMMA DeliveryPushes ==
    ASSUME TypeOK, Shape, Delivery, loop.pc \notin {"start", "inject"}, NEW m \in Message,
           m.role \notin UserKinds, state'.messages = Append(state.messages, m),
           loop'.prompts = loop.prompts, loop'.pending = loop.pending,
           steeringQueue' = steeringQueue, followUpQueue' = followUpQueue,
           sent' = sent, dropped' = dropped
    PROVE  Delivery'
<1>1. Core = state.messages /\ loop.prompts = <<>> /\ loop.pending = <<>>
  BY CoreAlone
<1>f. /\ state.messages \in Seq(Message) /\ steeringQueue \in Seq(Message)
      /\ followUpQueue \in Seq(Message) /\ loop.prompts \in Seq(Message)
      /\ loop.pending \in Seq(Message)
  BY FlowTyped
<1>2. PICK s \in Seq(Message) : s = Append(state.messages, m)
  <2>1. Append(state.messages, m) \in Seq(Message)
    BY <1>f
  <2> QED
    BY <2>1
<1>3. Core' = s
  <2>1. s \o loop.prompts \o loop.pending = s
    BY <1>1, <1>f, NoneHeld
  <2> QED
    BY <1>2, <2>1 DEF Core
<1>4. Kept(s, steeringQueue, followUpQueue, sent, dropped)
  <2>1. Kept(state.messages, steeringQueue, followUpQueue, sent, dropped)
    BY <1>1 DEF Delivery
  <2> QED
    BY <1>2, <1>f, <2>1, KeptOther
<1>5. Kept(Core', steeringQueue', followUpQueue', sent', dropped')
  BY <1>3, <1>4
<1>6. OnlyOf(loop'.prompts, UserKinds) /\ OnlyOf(loop'.pending, UserKinds)
  BY DEF Delivery
<1> QED
  BY <1>1, <1>5, <1>6 DEF Delivery

LEMMA DeliveryReceive ==
    ASSUME TypeOK, Shape, Delivery, loop.pc \in {"request", "streaming"},
           NEW n \in 0..MaxCalls, NEW stop \in StopReasons, NEW parallel \in BOOLEAN,
           Receive(n, stop, parallel)
    PROVE  Delivery'
<1> DEFINE m == assistant(turns + 1, n, stop)
<1>1. n \in Nat /\ turns + 1 \in Nat
  BY ConstantsAssumption DEF TypeOK
<1>2. m \in Message
  BY <1>1, MessagesTyped
<1>3. m.role \notin UserKinds
  BY DEF assistant, UserKinds
<1>4. /\ state'.messages = Append(state.messages, m)
      /\ loop'.prompts = loop.prompts /\ loop'.pending = loop.pending
  BY ReceiveFields
<1>5. /\ steeringQueue' = steeringQueue /\ followUpQueue' = followUpQueue
      /\ sent' = sent /\ dropped' = dropped
  BY DEF Receive, queues
<1> HIDE DEF m
<1> QED
  BY <1>2, <1>3, <1>4, <1>5, DeliveryPushes

LEMMA DeliveryBatch ==
    ASSUME TypeOK, Shape, Delivery,
           \/ StartTools \/ PreparedAll \/ Dispatch \/ DispatchOne \/ ToolsEnded
           \/ EmitResult \/ BatchDone
           \/ \E i \in 1..loop.tools.n : Prepare(i) \/ ToolEnds(i)
    PROVE  Delivery'
<1>f. /\ loop.tools.n \in Nat /\ loop.tools.k \in Nat \ {0} /\ turns \in Nat
  BY LoopFields, BatchFields DEF TypeOK, BatchOK
<1>p. loop.pc \in BatchPCs
  BY DEF StartTools, PreparedAll, Dispatch, DispatchOne, ToolsEnded, EmitResult, BatchDone,
         Prepare, ToolEnds, At, BatchPCs
<1>e. loop.pending = <<>> /\ loop.pc \notin {"start", "inject"}
  BY <1>p DEF Delivery, BatchPCs
<1>q. /\ steeringQueue' = steeringQueue /\ followUpQueue' = followUpQueue
      /\ sent' = sent /\ dropped' = dropped
  BY DEF StartTools, PreparedAll, Dispatch, DispatchOne, ToolsEnded, EmitResult, BatchDone,
         Prepare, ToolEnds, queues, hist
<1>k. ASSUME state'.messages = state.messages, loop'.prompts = loop.prompts,
             loop'.pending = loop.pending
      PROVE  Delivery'
  BY <1>e, <1>k, <1>q, DeliverySame
<1>1. CASE StartTools
  <2>1. (IF loop.tools.parallel THEN 1..loop.tools.n ELSE {loop.tools.k}) \in SUBSET Nat
    BY <1>f
  <2>2. state'.messages = state.messages
    BY <1>1, <2>1, StartToolsStep, ToolEventsTyped
  <2> QED
    BY <1>1, <1>k, <2>2, StartToolsStep
<1>2. CASE PreparedAll
  <2>1. loop' = [loop EXCEPT !.pc = "dispatch"] /\ state' = state
    BY <1>2 DEF PreparedAll
  <2>2. loop'.prompts = loop.prompts /\ loop'.pending = loop.pending
    BY <2>1 DEF TypeOK, Loop
  <2> QED
    BY <1>k, <2>1, <2>2
<1>3. CASE Dispatch
  <2>1. state'.messages = state.messages
    BY <1>3, DispatchStep, ToolEventsTyped
  <2> QED
    BY <1>3, <1>k, <2>1, DispatchStep
<1>4. CASE DispatchOne
  <2>1. state'.messages = state.messages
    BY <1>4, DispatchOneStep, ToolEventsTyped
  <2> QED
    BY <1>4, <1>k, <2>1, DispatchOneStep
<1>5. CASE ToolsEnded
  <2>1. loop' = [loop EXCEPT !.pc = "results"] /\ state' = state
    BY <1>5 DEF ToolsEnded
  <2>2. loop'.prompts = loop.prompts /\ loop'.pending = loop.pending
    BY <2>1 DEF TypeOK, Loop
  <2> QED
    BY <1>k, <2>1, <2>2
<1>6. CASE EmitResult
  <2> DEFINE m == toolResult(turns, loop.tools.k)
  <2>1. m \in Message
    BY <1>f, MessagesTyped
  <2>2. m.role \notin UserKinds
    BY DEF toolResult, UserKinds
  <2>3. state'.messages = Append(state.messages, m)
    BY <1>6, <2>1, EmitResultStep, PushTyped DEF TypeOK
  <2>4. loop'.prompts = loop.prompts /\ loop'.pending = loop.pending
    BY <1>6, EmitResultStep
  <2> HIDE DEF m
  <2> QED
    BY <1>e, <1>q, <2>1, <2>2, <2>3, <2>4, DeliveryPushes
<1>7. CASE BatchDone
  <2>1. state' = state
    BY <1>7 DEF BatchDone
  <2> QED
    BY <1>7, <1>k, <2>1, BatchDoneStep
<1>8. ASSUME NEW i \in 1..loop.tools.n, Prepare(i)
      PROVE  Delivery'
  BY <1>8, <1>k, PrepareStep
<1>9. ASSUME NEW i \in 1..loop.tools.n, ToolEnds(i)
      PROVE  Delivery'
  <2>1. state'.messages = state.messages
    BY <1>9, ToolEndsStep, ToolEventsTyped
  <2> QED
    BY <1>9, <1>k, <2>1, ToolEndsStep
<1> QED
  BY <1>1, <1>2, <1>3, <1>4, <1>5, <1>6, <1>7, <1>8, <1>9

(* A run that fails gives up what it holds.                                *)
LEMMA DeliveryFails ==
    ASSUME TypeOK, Shape, Delivery, RunFails
    PROVE  Delivery'
<1>f. /\ state.messages \in Seq(Message) /\ loop.prompts \in Seq(Message)
      /\ loop.pending \in Seq(Message) /\ steeringQueue \in Seq(Message)
      /\ followUpQueue \in Seq(Message) /\ sent \in Nat
  BY FlowTyped
<1>1. /\ loop'.pc = "failed" /\ loop'.prompts = <<>> /\ loop'.pending = <<>> /\ state' = state
      /\ steeringQueue' = steeringQueue /\ followUpQueue' = followUpQueue /\ sent' = sent
      /\ dropped' = dropped \cup Ids(loop.pending) \cup Ids(loop.prompts)
  BY DEF RunFails, IdleLoop, queues
<1>2. PICK c \in Seq(Message) : c = state.messages \o loop.prompts
  BY <1>f, CatParts
<1>3. Kept(c \o loop.pending, steeringQueue, followUpQueue, sent, dropped)
  BY <1>2 DEF Delivery, Core
<1>4. Kept(c, steeringQueue, followUpQueue, sent, dropped \cup Ids(loop.pending))
  BY <1>3, <1>f, KeptDropped DEF Delivery
<1>5. Kept(state.messages, steeringQueue, followUpQueue, sent,
           (dropped \cup Ids(loop.pending)) \cup Ids(loop.prompts))
  BY <1>2, <1>4, <1>f, KeptDropped DEF Delivery
<1>6. Core' = state.messages
  <2>1. state.messages \o <<>> \o <<>> = state.messages
    BY <1>f, EmptyFacts, NoneHeld
  <2> QED
    BY <1>1, <2>1 DEF Core
<1>7. Kept(Core', steeringQueue', followUpQueue', sent', dropped')
  BY <1>1, <1>5, <1>6
<1>8. OnlyOf(loop'.prompts, UserKinds) /\ OnlyOf(loop'.pending, UserKinds)
  BY <1>1, EmptyFacts
<1> QED
  BY <1>1, <1>7, <1>8 DEF Delivery

LEMMA DeliveryClosing ==
    ASSUME TypeOK, Shape, Delivery, EndTurn \/ HandleRunFailure \/ FinishRun \/ OrphanEnds
    PROVE  Delivery'
<1> USE DEF At
<1>q. /\ steeringQueue' = steeringQueue /\ followUpQueue' = followUpQueue
      /\ sent' = sent /\ dropped' = dropped
  BY DEF EndTurn, HandleRunFailure, FinishRun, OrphanEnds, queues, hist
<1>1. CASE EndTurn
  <2>1. /\ loop.pc = "turnEnd" /\ state' = state
        /\ \E pc \in {"end", "pollSteering"} : loop' = [loop EXCEPT !.pc = pc]
    BY <1>1 DEF EndTurn
  <2>2. loop'.prompts = loop.prompts /\ loop'.pending = loop.pending
    BY <2>1 DEF TypeOK, Loop
  <2> QED
    BY <1>q, <2>1, <2>2, DeliverySame DEF Delivery
<1>2. CASE HandleRunFailure
  <2> DEFINE stop == IF aborted THEN "aborted" ELSE "error"
  <2>1. stop \in StopReasons /\ 0 \in Nat /\ turns + 1 \in Nat
    BY DEF StopReasons, TypeOK
  <2> HIDE DEF stop
  <2> DEFINE m == assistant(turns + 1, 0, stop)
  <2>2. m \in Message
    BY <2>1, MessagesTyped
  <2>3. m.role \notin UserKinds
    BY DEF assistant, UserKinds
  <2>4. state' = [Push(m) EXCEPT !.errorMessage = TRUE]
    BY <1>2 DEF HandleRunFailure, stop
  <2>5. loop' = [loop EXCEPT !.pc = "end"] /\ loop.pc = "failed"
    BY <1>2 DEF HandleRunFailure
  <2> HIDE DEF m
  <2>6. state'.messages = Append(state.messages, m)
    <3>1. Push(m) \in AgentState /\ Push(m).messages = Append(state.messages, m)
      BY <2>2, PushTyped DEF TypeOK
    <3> QED
      BY <2>4, <3>1 DEF AgentState
  <2>7. loop'.prompts = loop.prompts /\ loop'.pending = loop.pending
    BY <2>5 DEF TypeOK, Loop
  <2> QED
    BY <1>q, <2>2, <2>3, <2>5, <2>6, <2>7, DeliveryPushes
<1>3. CASE FinishRun
  <2>1. loop.pc \notin {"start", "inject"} /\ loop' = IdleLoop
    BY <1>3 DEF FinishRun
  <2>2. loop.prompts = <<>> /\ loop.pending = <<>>
    BY <2>1, CoreAlone
  <2>3. loop'.prompts = <<>> /\ loop'.pending = <<>>
    BY <2>1 DEF IdleLoop
  <2>4. state'.messages = state.messages
    BY <1>3 DEF FinishRun, TypeOK, AgentState
  <2> QED
    BY <1>q, <2>2, <2>3, <2>4, DeliverySame
<1>4. CASE OrphanEnds
  <2>1. PICK o : state' = [state EXCEPT !.pendingToolCalls = @ \ {o}]
    BY <1>4 DEF OrphanEnds
  <2>2. state'.messages = state.messages
    BY <2>1 DEF TypeOK, AgentState
  <2>3. loop' = loop
    BY <1>4 DEF OrphanEnds
  <2> QED
    BY <1>q, <2>2, <2>3, DeliverySame DEF Delivery
<1> QED
  BY <1>1, <1>2, <1>3, <1>4

LEMMA DeliveryNext ==
    ASSUME TypeOK, Shape, Delivery, [Next]_vars
    PROVE  Delivery'
<1>1. CASE UNCHANGED vars
  BY <1>1, DeliverySame DEF vars, queues, hist, Delivery
<1>2. CASE RequestAborted \/ Respond \/ RespondAborted
  BY <1>2, AnswersReceive, DeliveryReceive
<1>3. CASE LoopStep \/ ToolStep
  BY <1>2, <1>3, DeliveryOpening, DeliveryPolls, DeliveryBatch, DeliveryClosing
  DEF LoopStep, ToolStep
<1>4. CASE CallerStep \/ RunFails \/ OrphanEnds
  BY <1>4, DeliveryCallers, DeliveryFails, DeliveryClosing
<1> QED
  BY <1>1, <1>2, <1>3, <1>4 DEF Next

LEMMA DeliveryHolds == Spec => [](TypeOK /\ Shape /\ Mirror /\ Delivery)
<1>1. Init => TypeOK /\ Shape /\ Mirror /\ Delivery
  BY TypeInit, ShapeInit, MirrorInit, DeliveryInit
<1>2. TypeOK /\ Shape /\ Mirror /\ Delivery /\ [Next]_vars
        => TypeOK' /\ Shape' /\ Mirror' /\ Delivery'
  BY TypeNext, ShapeNext, MirrorNext, DeliveryNext
<1> QED
  BY <1>1, <1>2, PTL DEF Spec

(* Whatever prompt(), steer() or followUp() was given is delivered once:   *)
(* it is in the transcript, in a queue or with the loop, and nowhere       *)
(* twice, unless it was cleared or its run failed; and it never overtakes  *)
(* an earlier message of its kind, in either queue mode.                   *)
THEOREM MessagesOnceInOrder == Spec => []OnceInOrder
<1>1. TypeOK /\ Delivery => OnceInOrder
  <2> SUFFICES ASSUME TypeOK, Delivery PROVE OnePlace /\ SentOrder
    BY DEF OnceInOrder
  <2>1. /\ Core \in Seq(Message) /\ steeringQueue \in Seq(Message)
        /\ followUpQueue \in Seq(Message) /\ sent \in Nat
    BY FlowTyped
  <2>2. \A q : Travel(q) = Core \o q
    BY DEF Travel, Core
  <2>3. OnePlace
    <3>1. PICK all : all = Travel(steeringQueue \o followUpQueue)
      OBVIOUS
    <3>2. all = Core \o (steeringQueue \o followUpQueue)
      BY <2>2, <3>1
    <3>3. Distinct(all) /\ IdsOf(all, UserKinds) = (1..sent) \ dropped
      BY <2>1, <3>2, KeptAll DEF Delivery
    <3>4. \A k \in 1..sent : Cardinality(Places(all, k)) = IF k \in dropped THEN 0 ELSE 1
      BY <3>3, OncePlaced
    <3> QED
      BY <3>1, <3>4 DEF OnePlace, Places
  <2>4. SentOrder
    BY <2>2 DEF SentOrder, Delivery, Kept
  <2> QED
    BY <2>3, <2>4
<1> QED
  BY <1>1, DeliveryHolds, PTL

----------------------------------------------------------------------------
(* Every tool call sent to the provider is answered.                       *)

(* The calls of an assistant message are answered by what follows it in s, *)
(* and every result follows its call or the result before it.              *)
Excused(m, cut) == m.stop \in Fatal \/ m.id \in cut

Replied(s, cut) ==
    /\ \A p \in DOMAIN s : s[p].role = "assistant" /\ ~ Excused(s[p], cut) =>
         \A i \in 1..s[p].calls : p + i \in DOMAIN s /\ s[p + i] = toolResult(s[p].id, i)
    /\ \A p \in DOMAIN s : s[p].role = "toolResult" =>
         p > 1 /\ s[p - 1] = IF s[p].calls = 1
                             THEN assistant(s[p].id, s[p - 1].calls, s[p - 1].stop)
                             ELSE toolResult(s[p].id, s[p].calls - 1)

(* The context while a batch of n calls is at work: it ends with the       *)
(* message that holds the calls.                                           *)
Batched(c, t, n, cut) ==
    \E s \in Seq(Message), stop \in StopReasons :
      Replied(s, cut) /\ c = Append(s, assistant(t, n, stop))

Answering ==
    /\ loop.pc \notin BatchPCs => Replied(state.messages, cutShort)
    /\ loop.pc \in BatchPCs => Batched(loop.context, turns, loop.tools.n, cutShort)

LEMMA AppendParts ==
    ASSUME NEW s \in Seq(Message), NEW m \in Message
    PROVE  /\ Append(s, m) \in Seq(Message) /\ Len(s) \in Nat /\ DOMAIN s = 1..Len(s)
           /\ DOMAIN Append(s, m) = 1..(Len(s) + 1)
           /\ \A i \in 1..Len(s) : Append(s, m)[i] = s[i]
           /\ Append(s, m)[Len(s) + 1] = m
OBVIOUS

LEMMA RepliedMore ==
    ASSUME NEW s, NEW cut, NEW more, Replied(s, cut), cut \subseteq more
    PROVE  Replied(s, more)
BY DEF Replied, Excused

LEMMA BatchedMore ==
    ASSUME NEW c, NEW t, NEW n, NEW cut, NEW more, Batched(c, t, n, cut), cut \subseteq more
    PROVE  Batched(c, t, n, more)
BY RepliedMore DEF Batched

(* A message without calls to answer may follow.                           *)
LEMMA RepliedPush ==
    ASSUME NEW s \in Seq(Message), NEW cut, NEW m \in Message, Replied(s, cut),
           m.role # "toolResult", m.role = "assistant" => m.calls = 0 \/ m.stop \in Fatal
    PROVE  Replied(Append(s, m), cut)
<1>1. PICK u \in Seq(Message) : u = Append(s, m)
  BY AppendParts
<1>2. /\ Len(s) \in Nat /\ DOMAIN s = 1..Len(s) /\ DOMAIN u = 1..(Len(s) + 1)
      /\ \A i \in 1..Len(s) : u[i] = s[i]
      /\ u[Len(s) + 1] = m
  BY <1>1, AppendParts
<1>3. ASSUME NEW p \in DOMAIN u, u[p].role = "assistant", ~ Excused(u[p], cut),
             NEW i \in 1..u[p].calls
      PROVE  p + i \in DOMAIN u /\ u[p + i] = toolResult(u[p].id, i)
  <2>1. CASE p \in DOMAIN s
    <3>1. u[p] = s[p]
      BY <1>2, <2>1
    <3>2. p + i \in DOMAIN s /\ s[p + i] = toolResult(s[p].id, i)
      BY <1>3, <2>1, <3>1 DEF Replied
    <3>3. p + i \in DOMAIN u /\ u[p + i] = s[p + i]
      BY <1>2, <3>2
    <3> QED
      BY <3>1, <3>2, <3>3
  <2>2. CASE p \notin DOMAIN s
    <3>1. p = Len(s) + 1
      BY <1>2, <2>2
    <3>2. u[p] = m
      BY <1>2, <3>1
    <3>3. m.calls = 0
      BY <1>3, <3>2 DEF Excused
    <3> QED
      BY <1>3, <3>2, <3>3
  <2> QED
    BY <2>1, <2>2
<1>4. ASSUME NEW p \in DOMAIN u, u[p].role = "toolResult"
      PROVE  p > 1 /\ u[p - 1] = IF u[p].calls = 1
                                 THEN assistant(u[p].id, u[p - 1].calls, u[p - 1].stop)
                                 ELSE toolResult(u[p].id, u[p].calls - 1)
  <2>1. p \in DOMAIN s /\ u[p] = s[p]
    BY <1>2, <1>4
  <2>2. p > 1
    BY <1>4, <2>1 DEF Replied
  <2>3. u[p - 1] = s[p - 1]
    BY <1>2, <2>1, <2>2
  <2> QED
    BY <1>4, <2>1, <2>2, <2>3 DEF Replied
<1> QED
  BY <1>1, <1>3, <1>4 DEF Replied

(* An answer without results may be taken away.                            *)
LEMMA RepliedFront ==
    ASSUME NEW s \in Seq(Message), NEW cut, NEW m \in Message, Replied(Append(s, m), cut),
           m.role = "assistant"
    PROVE  Replied(s, cut)
<1>1. PICK u \in Seq(Message) : u = Append(s, m)
  BY AppendParts
<1>2. /\ Len(s) \in Nat /\ DOMAIN s = 1..Len(s) /\ DOMAIN u = 1..(Len(s) + 1)
      /\ \A i \in 1..Len(s) : u[i] = s[i]
      /\ u[Len(s) + 1] = m
  BY <1>1, AppendParts
<1>3. ASSUME NEW p \in DOMAIN s, s[p].role = "assistant", ~ Excused(s[p], cut),
             NEW i \in 1..s[p].calls
      PROVE  p + i \in DOMAIN s /\ s[p + i] = toolResult(s[p].id, i)
  <2>1. p \in DOMAIN u /\ u[p] = s[p]
    BY <1>2
  <2>2. p + i \in DOMAIN u /\ u[p + i] = toolResult(s[p].id, i)
    BY <1>1, <1>3, <2>1 DEF Replied
  <2>3. p + i # Len(s) + 1
    BY <1>2, <2>2 DEF toolResult
  <2> QED
    BY <1>2, <2>2, <2>3
<1>4. ASSUME NEW p \in DOMAIN s, s[p].role = "toolResult"
      PROVE  p > 1 /\ s[p - 1] = IF s[p].calls = 1
                                 THEN assistant(s[p].id, s[p - 1].calls, s[p - 1].stop)
                                 ELSE toolResult(s[p].id, s[p].calls - 1)
  <2>1. p \in DOMAIN u /\ u[p] = s[p]
    BY <1>2
  <2>2. p > 1
    BY <1>1, <1>4, <2>1 DEF Replied
  <2>3. u[p - 1] = s[p - 1]
    BY <1>2, <2>2
  <2> QED
    BY <1>1, <1>4, <2>1, <2>2, <2>3 DEF Replied
<1> QED
  BY <1>3, <1>4 DEF Replied

(* A batch that has run, or was cut short, leaves its calls answered.      *)
LEMMA RepliedBatch ==
    ASSUME NEW c \in Seq(Message), NEW t \in Nat, NEW n \in Nat, NEW cut, NEW j \in 0..n,
           Batched(c, t, n, cut), j = n \/ t \in cut
    PROVE  Replied(c \o Results(t, j), cut)
<1>1. PICK s \in Seq(Message), stop \in StopReasons :
        Replied(s, cut) /\ c = Append(s, assistant(t, n, stop))
  BY DEF Batched
<1> DEFINE m == assistant(t, n, stop)
           a == Len(s)
<1>2. /\ m \in Message /\ m.role = "assistant" /\ m.calls = n /\ m.id = t
      /\ m.stop = stop
  BY MessagesTyped DEF assistant
<1>3. Results(t, j) \in Seq(Message) /\ Len(Results(t, j)) = j
  BY MessagesTyped DEF Results
<1>4. \A i \in 1..j : Results(t, j)[i] = toolResult(t, i)
  BY DEF Results
<1> HIDE DEF m
<1>5. /\ a \in Nat /\ DOMAIN s = 1..a /\ DOMAIN c = 1..(a + 1) /\ Len(c) = a + 1
      /\ \A i \in 1..a : c[i] = s[i]
      /\ c[a + 1] = m
  BY <1>1, <1>2, AppendParts DEF m
<1>6. PICK r \in Seq(Message) : r = Results(t, j)
  BY <1>3
<1>7. PICK u \in Seq(Message) : u = c \o r
  BY <1>6, CatParts
<1>8. /\ DOMAIN u = 1..(a + 1 + j)
      /\ \A i \in 1..a : u[i] = s[i]
      /\ u[a + 1] = m
      /\ \A i \in 1..j : u[a + 1 + i] = toolResult(t, i)
  <2>1. Len(u) = a + 1 + j
    <3>1. Len(c \o r) = Len(c) + Len(r)
      OBVIOUS
    <3> QED
      BY <1>3, <1>5, <1>6, <1>7, <3>1
  <2>2. \A i \in DOMAIN c : u[i] = c[i]
    BY <1>6, <1>7, CatParts
  <2>3. \A i \in 1..j : u[Len(c) + i] = r[i]
    BY <1>3, <1>6, <1>7, CatParts
  <2> QED
    BY <1>4, <1>5, <1>6, <1>7, <2>1, <2>2, <2>3
<1> HIDE DEF a
<1>9. ASSUME NEW p \in DOMAIN u, u[p].role = "assistant", ~ Excused(u[p], cut),
             NEW i \in 1..u[p].calls
      PROVE  p + i \in DOMAIN u /\ u[p + i] = toolResult(u[p].id, i)
  <2>1. CASE p \in 1..a
    <3>1. u[p] = s[p] /\ p \in DOMAIN s
      BY <1>5, <1>8, <2>1
    <3>2. p + i \in DOMAIN s /\ s[p + i] = toolResult(s[p].id, i)
      BY <1>1, <1>9, <3>1 DEF Replied
    <3>3. p + i \in DOMAIN u /\ u[p + i] = s[p + i]
      BY <1>5, <1>8, <3>2
    <3> QED
      BY <3>1, <3>2, <3>3
  <2>2. CASE p = a + 1
    <3>1. u[p] = m
      BY <1>8, <2>2
    <3>2. t \notin cut
      BY <1>2, <1>9, <3>1 DEF Excused
    <3>3. j = n /\ i \in 1..j
      BY <1>2, <1>9, <3>1, <3>2
    <3>4. p + i \in DOMAIN u /\ u[p + i] = toolResult(t, i)
      BY <1>5, <1>8, <2>2, <3>3
    <3> QED
      BY <1>2, <3>1, <3>4
  <2>3. CASE p > a + 1
    <3>1. PICK i1 \in 1..j : p = a + 1 + i1
      <4>1. p - (a + 1) \in 1..j /\ p = a + 1 + (p - (a + 1))
        BY <1>5, <1>8, <2>3
      <4> QED
        BY <4>1
    <3>2. u[p].role = "toolResult"
      <4>1. u[p] = toolResult(t, i1)
        BY <1>8, <3>1
      <4> QED
        BY <4>1 DEF toolResult
    <3> QED
      BY <1>9, <3>2
  <2> QED
    BY <1>5, <1>8, <2>1, <2>2, <2>3
<1>10. ASSUME NEW p \in DOMAIN u, u[p].role = "toolResult"
       PROVE  p > 1 /\ u[p - 1] = IF u[p].calls = 1
                                  THEN assistant(u[p].id, u[p - 1].calls, u[p - 1].stop)
                                  ELSE toolResult(u[p].id, u[p].calls - 1)
  <2>1. CASE p \in 1..a
    <3>1. u[p] = s[p] /\ p \in DOMAIN s
      BY <1>5, <1>8, <2>1
    <3>2. p > 1
      BY <1>1, <1>10, <3>1 DEF Replied
    <3>3. u[p - 1] = s[p - 1]
      BY <1>5, <1>8, <2>1, <3>2
    <3> QED
      BY <1>1, <1>10, <3>1, <3>2, <3>3 DEF Replied
  <2>2. CASE p = a + 1
    BY <1>2, <1>8, <1>10, <2>2
  <2>3. CASE p > a + 1
    <3>1. PICK i \in 1..j : p = a + 1 + i
      <4>1. p - (a + 1) \in 1..j /\ p = a + 1 + (p - (a + 1))
        BY <1>5, <1>8, <2>3
      <4> QED
        BY <4>1
    <3>2. u[p].id = t /\ u[p].calls = i /\ p > 1
      <4>1. u[p] = toolResult(t, i)
        BY <1>8, <3>1
      <4>2. p > 1
        BY <1>5, <3>1
      <4> QED
        BY <4>1, <4>2 DEF toolResult
    <3>3. CASE i = 1
      <4>1. p - 1 = a + 1
        BY <1>5, <3>1, <3>3
      <4>2. u[p - 1] = m
        BY <1>8, <4>1
      <4>3. m = assistant(t, m.calls, m.stop)
        BY <1>2 DEF m
      <4> QED
        BY <3>2, <3>3, <4>2, <4>3
    <3>4. CASE i # 1
      <4>1. i - 1 \in 1..j /\ p - 1 = a + 1 + (i - 1)
        BY <1>5, <3>1, <3>4
      <4>2. u[p - 1] = toolResult(t, i - 1)
        BY <1>8, <4>1
      <4> QED
        BY <3>2, <3>4, <4>2
    <3> QED
      BY <3>3, <3>4
  <2> QED
    BY <1>5, <1>8, <2>1, <2>2, <2>3
<1> QED
  BY <1>6, <1>7, <1>9, <1>10 DEF Replied

LEMMA AnsweringCallers ==
    ASSUME TypeOK, Shape, Answering, CallerStep
    PROVE  Answering'
<1>1. CASE Prompt \/ ContinueQueued \/ ContinueTranscript
  <2>1. PICK prompts, skipPoll : Launch(prompts, skipPoll)
    BY <1>1 DEF Prompt, ContinueQueued, ContinueTranscript
  <2>2. loop'.pc \notin BatchPCs /\ state'.messages = state.messages
    BY <2>1, LaunchFlow DEF BatchPCs
  <2>3. loop.pc \notin BatchPCs /\ cutShort' = cutShort
    BY <1>1 DEF Prompt, ContinueQueued, ContinueTranscript, Shape, BatchPCs, hist
  <2> QED
    BY <2>2, <2>3 DEF Answering
<1>2. CASE steer \/ followUp \/ clearAllQueues \/ abort
  BY <1>2 DEF steer, followUp, clearAllQueues, abort, hist, Answering
<1>3. CASE DropFailedAnswer
  <2> DEFINE s == Front(state.messages)
             m == Last(state.messages)
  <2>1. state.messages \in Seq(Message) /\ state.messages # <<>> /\ m.role = "assistant"
    BY <1>3, FlowTyped DEF DropFailedAnswer, LastRole
  <2>2. s \in Seq(Message) /\ m \in Message /\ state.messages = Append(s, m)
    BY <2>1 DEF Front, Last
  <2>3. state'.messages = s /\ loop' = loop /\ cutShort' = cutShort
    BY <1>3 DEF DropFailedAnswer, TypeOK, AgentState, hist
  <2>4. loop.pc \notin BatchPCs
    BY <1>3 DEF DropFailedAnswer, Shape, BatchPCs
  <2> HIDE DEF s, m
  <2>5. Replied(s, cutShort)
    BY <2>1, <2>2, <2>4, RepliedFront DEF Answering
  <2> QED
    BY <2>3, <2>4, <2>5 DEF Answering
<1> QED
  BY <1>1, <1>2, <1>3 DEF CallerStep

(* The messages a run is given or polls ask nothing.                       *)
LEMMA AnsweringUser ==
    ASSUME TypeOK, Answering, loop.pc \notin BatchPCs, loop'.pc \notin BatchPCs,
           NEW q \in Seq(Message), q # <<>>, OnlyOf(q, UserKinds),
           state'.messages = Append(state.messages, Head(q)), cutShort' = cutShort
    PROVE  Answering'
<1>1. PICK m \in Message : m = Head(q)
  OBVIOUS
<1>2. m.role \in UserKinds
  <2>1. 1 \in DOMAIN q /\ q[1] = m
    BY <1>1
  <2> QED
    BY <2>1 DEF OnlyOf
<1>3. m.role # "toolResult" /\ m.role # "assistant"
  BY <1>2 DEF UserKinds
<1>4. Replied(Append(state.messages, m), cutShort)
  BY <1>3, FlowTyped, RepliedPush DEF Answering
<1> QED
  BY <1>1, <1>4 DEF Answering

LEMMA AnsweringPlain ==
    ASSUME TypeOK, Shape, Delivery, Answering,
           \/ EmitPrompt \/ PromptsEmitted \/ InitialPoll \/ Inject \/ Injected \/ RequestStarted
           \/ EndTurn \/ PollSteering \/ PollFollowUp \/ FinishRun \/ OrphanEnds
    PROVE  Answering'
<1> USE DEF At
<1>f. loop.prompts \in Seq(Message) /\ loop.pending \in Seq(Message)
  BY FlowTyped
<1>c. cutShort' = cutShort
  BY DEF EmitPrompt, PromptsEmitted, InitialPoll, Inject, Injected, RequestStarted,
         EndTurn, PollSteering, PollFollowUp, FinishRun, OrphanEnds, hist
<1>k. ASSUME loop.pc \notin BatchPCs, loop'.pc \notin BatchPCs, state'.messages = state.messages
      PROVE  Answering'
  BY <1>c, <1>k DEF Answering
<1>1. CASE EmitPrompt
  <2>1. loop.prompts # <<>> /\ loop.pc = "start"
    BY <1>1 DEF EmitPrompt
  <2>2. state'.messages = Append(state.messages, Head(loop.prompts))
    BY <1>1, <1>f, <2>1, MoveThrough, PushTyped DEF EmitPrompt, TypeOK
  <2>3. loop'.pc = "start"
    BY <1>1 DEF EmitPrompt, TypeOK, Loop
  <2> QED
    BY <1>c, <1>f, <2>1, <2>2, <2>3, AnsweringUser DEF Delivery, BatchPCs
<1>2. CASE Inject
  <2>1. loop.pending # <<>> /\ loop.pc = "inject"
    BY <1>2 DEF Inject
  <2>2. state'.messages = Append(state.messages, Head(loop.pending))
    BY <1>2, <1>f, <2>1, MoveThrough, PushTyped DEF Inject, TypeOK
  <2>3. loop'.pc = "inject"
    BY <1>2 DEF Inject, TypeOK, Loop
  <2> QED
    BY <1>c, <1>f, <2>1, <2>2, <2>3, AnsweringUser DEF Delivery, BatchPCs
<1>3. CASE PromptsEmitted
  BY <1>3, <1>k DEF PromptsEmitted, TypeOK, Loop, BatchPCs
<1>4. CASE InitialPoll
  BY <1>4, <1>k DEF InitialPoll, TypeOK, Loop, BatchPCs
<1>5. CASE Injected
  BY <1>5, <1>k DEF Injected, TypeOK, Loop, BatchPCs
<1>6. CASE RequestStarted
  BY <1>6, <1>k DEF RequestStarted, TypeOK, Loop, AgentState, BatchPCs
<1>7. CASE EndTurn
  BY <1>7, <1>k DEF EndTurn, TypeOK, Loop, BatchPCs
<1>8. CASE PollSteering
  BY <1>8, <1>k DEF PollSteering, TypeOK, Loop, BatchPCs
<1>9. CASE PollFollowUp
  BY <1>9, <1>k DEF PollFollowUp, TypeOK, Loop, BatchPCs
<1>10. CASE FinishRun
  BY <1>10, <1>k DEF FinishRun, TypeOK, IdleLoop, AgentState, BatchPCs
<1>11. CASE OrphanEnds
  <2>1. PICK o : state' = [state EXCEPT !.pendingToolCalls = @ \ {o}]
    BY <1>11 DEF OrphanEnds
  <2>2. state'.messages = state.messages
    BY <2>1 DEF TypeOK, AgentState
  <2>3. loop' = loop /\ turns' = turns
    BY <1>11 DEF OrphanEnds
  <2> QED
    BY <1>c, <2>2, <2>3 DEF Answering
<1> QED
  BY <1>1, <1>2, <1>3, <1>4, <1>5, <1>6, <1>7, <1>8, <1>9, <1>10, <1>11

LEMMA AnsweringReceive ==
    ASSUME TypeOK, Shape, Mirror, Answering, active, loop.pc \in {"request", "streaming"},
           NEW n \in 0..MaxCalls, NEW stop \in StopReasons, NEW parallel \in BOOLEAN,
           Receive(n, stop, parallel)
    PROVE  Answering'
<1> DEFINE m == assistant(turns + 1, n, stop)
<1>1. n \in Nat /\ turns + 1 \in Nat
  BY ConstantsAssumption DEF TypeOK
<1>2. m \in Message
  BY <1>1, MessagesTyped
<1>3. m.role = "assistant" /\ m.calls = n /\ m.stop = stop
  BY DEF assistant
<1>4. loop.context = state.messages /\ Replied(state.messages, cutShort)
  BY DEF Mirror, PlainPCs, Answering, BatchPCs
<1>5. /\ loop'.pc = AfterAnswer(n, stop) /\ loop'.tools = NewTools(n, stop, parallel)
      /\ loop'.context = Append(loop.context, m) /\ state'.messages = Append(state.messages, m)
      /\ turns' = turns + 1
  BY ReceiveFields
<1>6. cutShort' = cutShort
  BY DEF Receive
<1>7. CASE n = 0 \/ stop \in Fatal
  <2>1. loop'.pc \notin BatchPCs
    <3>1. CASE stop \in Fatal
      BY <1>5, <3>1 DEF AfterAnswer, Fatal, BatchPCs
    <3>2. CASE stop \notin Fatal
      BY <1>5, <1>7, <3>2 DEF AfterAnswer, Fatal, BatchPCs
    <3> QED
      BY <3>1, <3>2
  <2> HIDE DEF m
  <2>2. Replied(Append(state.messages, m), cutShort)
    BY <1>2, <1>3, <1>4, <1>7, FlowTyped, RepliedPush
  <2> QED
    BY <1>5, <1>6, <2>1, <2>2 DEF Answering
<1>8. CASE ~ (n = 0 \/ stop \in Fatal)
  <2>1. loop'.pc \in BatchPCs
    BY <1>5, <1>8 DEF AfterAnswer, BatchPCs
  <2>2. loop'.tools.n = n
    BY <1>5, <1>8 DEF NewTools
  <2>3. Batched(loop'.context, turns', loop'.tools.n, cutShort')
    BY <1>4, <1>5, <1>6, <2>2, FlowTyped DEF Batched
  <2> QED
    BY <2>1, <2>3 DEF Answering
<1> QED
  BY <1>7, <1>8

LEMMA AnsweringBatch ==
    ASSUME TypeOK, Shape, Answering,
           \/ StartTools \/ PreparedAll \/ Dispatch \/ DispatchOne \/ ToolsEnded \/ EmitResult
           \/ \E i \in 1..loop.tools.n : Prepare(i) \/ ToolEnds(i)
    PROVE  Answering'
<1>f. /\ loop.tools.n \in Nat /\ loop.tools.k \in Nat \ {0} /\ turns \in Nat
  BY LoopFields, BatchFields DEF TypeOK, BatchOK
<1>p. loop.pc \in BatchPCs
  BY DEF StartTools, PreparedAll, Dispatch, DispatchOne, ToolsEnded, EmitResult,
         Prepare, ToolEnds, At, BatchPCs
<1>q. turns' = turns /\ cutShort' = cutShort
  BY DEF StartTools, PreparedAll, Dispatch, DispatchOne, ToolsEnded, EmitResult,
         Prepare, ToolEnds, hist
<1>k. ASSUME loop'.pc \in BatchPCs, loop'.context = loop.context, loop'.tools.n = loop.tools.n
      PROVE  Answering'
  BY <1>k, <1>p, <1>q DEF Answering
<1> USE DEF BatchPCs
<1>1. CASE StartTools
  BY <1>1, <1>k, StartToolsStep
<1>2. CASE PreparedAll
  BY <1>2, <1>k DEF PreparedAll, TypeOK, Loop
<1>3. CASE Dispatch
  BY <1>3, <1>k, DispatchStep
<1>4. CASE DispatchOne
  BY <1>4, <1>k, DispatchOneStep
<1>5. CASE ToolsEnded
  BY <1>5, <1>k DEF ToolsEnded, TypeOK, Loop
<1>6. CASE EmitResult
  BY <1>6, <1>k, EmitResultStep
<1>7. ASSUME NEW i \in 1..loop.tools.n, Prepare(i)
      PROVE  Answering'
  BY <1>7, <1>k, PrepareStep
<1>8. ASSUME NEW i \in 1..loop.tools.n, ToolEnds(i)
      PROVE  Answering'
  BY <1>8, <1>k, ToolEndsStep
<1> QED
  BY <1>1, <1>2, <1>3, <1>4, <1>5, <1>6, <1>7, <1>8

(* A batch ends with all its results, unless an abort left calls behind.   *)
LEMMA AnsweringBatchDone ==
    ASSUME TypeOK, Shape, Mirror, Progress, Answering, BatchDone
    PROVE  Answering'
<1> DEFINE j == loop.tools.k - 1
<1>1. /\ loop.tools.n \in Nat /\ loop.tools.k \in 1..(loop.tools.n + 1) /\ turns \in Nat
      /\ loop.context \in Seq(Message)
  BY LoopFields, BatchFields DEF TypeOK, BatchOK
<1>2. loop.pc = "results" /\ state' = state /\ loop.tools.k \notin Finalized
  BY DEF BatchDone, At
<1>3. cutShort' = IF aborted /\ loop.tools.k <= loop.tools.n THEN cutShort \cup {turns} ELSE cutShort
  BY DEF BatchDone
<1>4. j = loop.tools.n \/ turns \in cutShort'
  <2>1. CASE loop.tools.k > loop.tools.n
    BY <1>1, <2>1
  <2>2. CASE loop.tools.k <= loop.tools.n /\ aborted
    BY <1>3, <2>2
  <2>3. CASE loop.tools.k <= loop.tools.n /\ ~ aborted
    <3>1. loop.tools.st[loop.tools.k] = "done"
      BY <1>2, <2>3 DEF Progress, BatchPCs
    <3>2. loop.tools.k \in Finalized
      BY <1>1, <2>3, <3>1 DEF Finalized
    <3> QED
      BY <1>2, <3>2
  <2> QED
    BY <1>1, <2>1, <2>2, <2>3
<1>5. Batched(loop.context, turns, loop.tools.n, cutShort')
  <2>1. Batched(loop.context, turns, loop.tools.n, cutShort)
    BY <1>2 DEF Answering, BatchPCs
  <2>2. cutShort \subseteq cutShort'
    BY <1>3
  <2> QED
    BY <2>1, <2>2, BatchedMore
<1>6. state.messages = loop.context \o Results(turns, j)
  BY <1>2 DEF Mirror, Emitted, BatchPCs
<1>7. j \in 0..loop.tools.n
  BY <1>1
<1> HIDE DEF j
<1>8. Replied(loop.context \o Results(turns, j), cutShort')
  BY <1>1, <1>4, <1>5, <1>7, RepliedBatch
<1>9. loop'.pc = "turnEnd"
  BY BatchDoneStep
<1> QED
  BY <1>2, <1>6, <1>8, <1>9 DEF Answering, BatchPCs

LEMMA AnsweringFails ==
    ASSUME TypeOK, Shape, Mirror, Answering, RunFails
    PROVE  Answering'
<1>1. loop'.pc = "failed" /\ state' = state
  BY DEF RunFails, IdleLoop
<1>2. cutShort' = IF loop.tools.n > 0 THEN cutShort \cup {turns} ELSE cutShort
  BY DEF RunFails
<1>3. cutShort \subseteq cutShort'
  BY <1>2
<1>4. CASE loop.pc \notin BatchPCs
  <2>1. Replied(state.messages, cutShort')
    BY <1>3, <1>4, RepliedMore DEF Answering
  <2> QED
    BY <1>1, <2>1 DEF Answering, BatchPCs
<1>5. CASE loop.pc \in BatchPCs
  <2>1. /\ loop.tools.n \in Nat /\ loop.tools.k \in 1..(loop.tools.n + 1) /\ turns \in Nat
        /\ loop.context \in Seq(Message)
    BY LoopFields, BatchFields DEF TypeOK, BatchOK
  <2>2. turns \in cutShort'
    BY <1>2, <1>5 DEF Shape
  <2>3. Batched(loop.context, turns, loop.tools.n, cutShort')
    BY <1>3, <1>5, BatchedMore DEF Answering
  <2>4. PICK j \in 0..loop.tools.n : j = Emitted
    BY <2>1 DEF Emitted
  <2>5. state.messages = loop.context \o Results(turns, j)
    BY <1>5, <2>4 DEF Mirror
  <2>6. Replied(loop.context \o Results(turns, j), cutShort')
    BY <2>1, <2>2, <2>3, RepliedBatch
  <2> QED
    BY <1>1, <2>5, <2>6 DEF Answering, BatchPCs
<1> QED
  BY <1>4, <1>5

LEMMA AnsweringFailure ==
    ASSUME TypeOK, Shape, Answering, HandleRunFailure
    PROVE  Answering'
<1> DEFINE stop == IF aborted THEN "aborted" ELSE "error"
<1>1. stop \in StopReasons /\ stop \in Fatal /\ 0 \in Nat /\ turns + 1 \in Nat
  BY DEF StopReasons, Fatal, TypeOK
<1>2. state' = [Push(assistant(turns + 1, 0, stop)) EXCEPT !.errorMessage = TRUE]
  BY DEF HandleRunFailure
<1> HIDE DEF stop
<1>3. PICK m \in Message : m = assistant(turns + 1, 0, stop)
  BY <1>1, MessagesTyped
<1>4. m.role = "assistant" /\ m.calls = 0
  BY <1>3 DEF assistant
<1>5. state'.messages = Append(state.messages, m)
  <2>1. Push(m) \in AgentState /\ Push(m).messages = Append(state.messages, m)
    BY PushTyped DEF TypeOK
  <2> QED
    BY <1>2, <1>3, <2>1 DEF AgentState
<1>6. loop'.pc = "end" /\ loop.pc = "failed" /\ cutShort' = cutShort
  BY DEF HandleRunFailure, At, TypeOK, Loop
<1>7. Replied(Append(state.messages, m), cutShort)
  BY <1>4, <1>6, FlowTyped, RepliedPush DEF Answering, BatchPCs
<1> QED
  BY <1>5, <1>6, <1>7 DEF Answering, BatchPCs

LEMMA AnsweringNext ==
    ASSUME TypeOK, Shape, Mirror, Progress, Delivery, Answering, [Next]_vars
    PROVE  Answering'
<1>1. CASE UNCHANGED vars
  BY <1>1 DEF vars, hist, Answering
<1>2. CASE RequestAborted \/ Respond \/ RespondAborted
  BY <1>2, AnswersReceive, AnsweringReceive
<1>3. CASE LoopStep \/ ToolStep
  BY <1>2, <1>3, AnsweringPlain, AnsweringBatch, AnsweringBatchDone, AnsweringFailure
  DEF LoopStep, ToolStep
<1>4. CASE CallerStep \/ RunFails \/ OrphanEnds
  BY <1>4, AnsweringCallers, AnsweringFails, AnsweringPlain
<1> QED
  BY <1>1, <1>2, <1>3, <1>4 DEF Next

(* What the loop sends to the provider answers every tool call: the        *)
(* results follow their calls at once, in order and with none missing,     *)
(* unless an abort or a failure cut the batch short or the stream of the   *)
(* calls never completed.                                                  *)
THEOREM ToolResultsFollowCalls == Spec => []ResultsFollowCalls
<1>1. Init => Answering
  <2> SUFFICES ASSUME Init PROVE Answering
    OBVIOUS
  <2>1. loop.pc = "idle" /\ state.messages = <<>>
    BY DEF Init, IdleLoop
  <2>2. Replied(<<>>, cutShort)
    BY DEF Replied
  <2> QED
    BY <2>1, <2>2 DEF Answering, BatchPCs
<1>2. Answering /\ IInv /\ Delivery /\ [Next]_vars => Answering'
  BY AnsweringNext DEF IInv
<1>3. Answering /\ Mirror => ResultsFollowCalls
  <2> SUFFICES ASSUME Answering, Mirror, At("request")
               PROVE  ResultsFollowCalls
    BY DEF ResultsFollowCalls
  <2>1. PICK c : c = loop.context
    OBVIOUS
  <2>2. Replied(c, cutShort)
    BY <2>1 DEF At, Mirror, PlainPCs, Answering, BatchPCs
  <2>3. ASSUME NEW p \in DOMAIN c, c[p].role = "assistant", NEW i \in 1..c[p].calls
        PROVE  \/ /\ p + i \in DOMAIN c /\ c[p + i].role = "toolResult"
                  /\ c[p + i] = toolResult(c[p].id, i)
               \/ c[p].stop \in Fatal \/ c[p].id \in cutShort
    BY <2>2, <2>3 DEF Replied, Excused, toolResult
  <2>4. ASSUME NEW p \in DOMAIN c, c[p].role = "toolResult"
        PROVE  p > 1 /\ c[p - 1] = IF c[p].calls = 1
                                   THEN assistant(c[p].id, c[p - 1].calls, c[p - 1].stop)
                                   ELSE toolResult(c[p].id, c[p].calls - 1)
    BY <2>2, <2>4 DEF Replied
  <2> QED
    BY <2>1, <2>3, <2>4 DEF ResultsFollowCalls
<1> QED
  BY <1>1, <1>2, <1>3, InvariantHolds, DeliveryHolds, PTL DEF Spec, IInv

----------------------------------------------------------------------------
(* What UserIds computes.  f is the function it defines by recursion.      *)

Walk(f, s) ==
    f = [n \in 0..Len(s) |-> IF n = 0 THEN <<>>
                             ELSE IF IsUser(s[n]) THEN Append(f[n - 1], s[n].id) ELSE f[n - 1]]

LEMMA WalkStep ==
    ASSUME NEW f, NEW s, Walk(f, s), NEW n \in 0..Len(s)
    PROVE  f[n] = IF n = 0 THEN <<>>
                  ELSE IF IsUser(s[n]) THEN Append(f[n - 1], s[n].id) ELSE f[n - 1]
<1> DEFINE e(i) == IF i = 0 THEN <<>>
                   ELSE IF IsUser(s[i]) THEN Append(f[i - 1], s[i].id) ELSE f[i - 1]
<1>1. f = [i \in 0..Len(s) |-> e(i)]
  BY DEF Walk
<1> HIDE DEF e
<1>2. f[n] = e(n)
  BY <1>1
<1> QED BY <1>2 DEF e

LEMMA WalkOneMore ==
    ASSUME NEW s \in Seq(Message), NEW m \in Message, NEW g, Walk(g, s)
    PROVE  \E f : Walk(f, Append(s, m))
<1> DEFINE t == Append(s, m)
<1> DEFINE k == Len(s)
<1>1. k \in Nat /\ Len(t) = k + 1 /\ t[k + 1] = m /\ \A n \in 1..k : t[n] = s[n]
  OBVIOUS
<1>2. g[0] = <<>>
      /\ \A n \in 1..k : g[n] = IF IsUser(s[n]) THEN Append(g[n - 1], s[n].id) ELSE g[n - 1]
  BY <1>1, WalkStep
<1> DEFINE f == [n \in 0..(k + 1) |-> IF n <= k THEN g[n]
                                      ELSE IF IsUser(m) THEN Append(g[k], m.id) ELSE g[k]]
<1>3. ASSUME NEW n \in 0..(k + 1)
      PROVE  f[n] = IF n = 0 THEN <<>>
                    ELSE IF IsUser(t[n]) THEN Append(f[n - 1], t[n].id) ELSE f[n - 1]
  <2> HIDE DEF t, k
  <2>1. CASE n = 0
    BY <1>1, <1>2, <2>1
  <2>2. CASE n \in 1..k
    <3>1. n - 1 \in 0..k /\ n \in 0..k /\ n # 0
      BY <1>1, <2>2
    <3>2. f[n] = g[n] /\ f[n - 1] = g[n - 1] /\ t[n] = s[n]
      BY <1>1, <2>2, <3>1
    <3> HIDE DEF f
    <3> QED BY <1>2, <2>2, <3>1, <3>2
  <2>3. CASE n = k + 1
    <3>1. f[k + 1] = (IF IsUser(m) THEN Append(g[k], m.id) ELSE g[k]) /\ f[k] = g[k]
      BY <1>1
    <3>2. n # 0 /\ n - 1 = k
      BY <1>1, <2>3
    <3> HIDE DEF f
    <3> QED BY <1>1, <2>3, <3>1, <3>2
  <2> QED BY <1>1, <2>1, <2>2, <2>3
<1>4. f = [n \in 0..Len(t) |-> IF n = 0 THEN <<>>
                               ELSE IF IsUser(t[n]) THEN Append(f[n - 1], t[n].id) ELSE f[n - 1]]
  <2> DEFINE h == [n \in 0..Len(t) |-> IF n = 0 THEN <<>>
                               ELSE IF IsUser(t[n]) THEN Append(f[n - 1], t[n].id) ELSE f[n - 1]]
  <2>1. DOMAIN f = 0..(k + 1) /\ DOMAIN h = 0..(k + 1) /\ f = [n \in 0..(k + 1) |-> f[n]]
        /\ h = [n \in 0..(k + 1) |-> h[n]]
    BY <1>1
  <2>2. \A n \in 0..(k + 1) : h[n] = f[n]
    <3> SUFFICES ASSUME NEW n \in 0..(k + 1) PROVE h[n] = f[n]
      OBVIOUS
    <3>1. h[n] = IF n = 0 THEN <<>>
                 ELSE IF IsUser(t[n]) THEN Append(f[n - 1], t[n].id) ELSE f[n - 1]
      <4> HIDE DEF f, t
      <4> QED BY <1>1
    <3> HIDE DEF f, h, t, k
    <3> QED BY <1>3, <3>1
  <2>3. f = h
    <3> HIDE DEF f, h
    <3> QED BY <2>1, <2>2
  <2> HIDE DEF f
  <2> QED BY <2>3
<1>5. Walk(f, t)
  <2> HIDE DEF f, t
  <2> QED BY <1>4 DEF Walk
<1> QED BY <1>5

LEMMA WalkExists ==
    ASSUME NEW s \in Seq(Message)
    PROVE  \E f : Walk(f, s)
<1> DEFINE P == {k \in Nat : \A t \in Seq(Message) : Len(t) = k => \E f : Walk(f, t)}
<1>1. 0 \in P
  <2> SUFFICES ASSUME NEW t \in Seq(Message), Len(t) = 0 PROVE \E f : Walk(f, t)
    OBVIOUS
  <2>1. Walk([n \in {0} |-> <<>>], t)
    <3>1. 0..Len(t) = {0}
      OBVIOUS
    <3> QED BY <3>1 DEF Walk
  <2> QED BY <2>1
<1>2. ASSUME NEW k \in Nat, k \in P PROVE k + 1 \in P
  <2> SUFFICES ASSUME NEW t \in Seq(Message), Len(t) = k + 1 PROVE \E f : Walk(f, t)
    OBVIOUS
  <2>1. PICK u \in Seq(Message), m \in Message : t = Append(u, m) /\ Len(u) = k
    <3>1. t # <<>>
      OBVIOUS
    <3>2. PICK u \in Seq(Message) : u = SubSeq(t, 1, k)
      <4>1. SubSeq(t, 1, k) \in Seq(Message)
        OBVIOUS
      <4> QED BY <4>1
    <3>3. Len(u) = k /\ t[k + 1] \in Message /\ \A i \in 1..k : u[i] = t[i]
      BY <3>2
    <3>4. t = Append(u, t[k + 1])
      <4>1. /\ t \in Seq(Message) /\ Append(u, t[k + 1]) \in Seq(Message)
            /\ Len(Append(u, t[k + 1])) = Len(t)
        BY <3>3
      <4>2. \A i \in 1..Len(t) : t[i] = Append(u, t[k + 1])[i]
        BY <3>3
      <4> QED BY <4>1, <4>2, SeqEqual
    <3> QED BY <3>3, <3>4
  <2>2. PICK g : Walk(g, u)
    BY <1>2, <2>1
  <2> QED BY <2>1, <2>2, WalkOneMore
<1>3. Nat \subseteq P
  <2> HIDE DEF P
  <2> QED BY <1>1, <1>2, NatInd
<1> QED BY <1>3

(* Two such functions agree as far as the sequences do.                    *)
LEMMA WalkSame ==
    ASSUME NEW s \in Seq(Message), NEW t \in Seq(Message), Len(s) <= Len(t),
           \A i \in 1..Len(s) : s[i] = t[i],
           NEW f, Walk(f, s), NEW g, Walk(g, t)
    PROVE  f[Len(s)] = g[Len(s)]
<1> DEFINE P == {n \in Nat : n <= Len(s) => f[n] = g[n]}
<1>0. Len(s) \in Nat /\ Len(t) \in Nat
  OBVIOUS
<1>1. \A n \in 0..Len(s) :
        /\ f[n] = IF n = 0 THEN <<>> ELSE IF IsUser(s[n]) THEN Append(f[n - 1], s[n].id) ELSE f[n - 1]
        /\ g[n] = IF n = 0 THEN <<>> ELSE IF IsUser(t[n]) THEN Append(g[n - 1], t[n].id) ELSE g[n - 1]
  BY WalkStep
<1>2. 0 \in P
  BY <1>0, <1>1
<1>3. ASSUME NEW n \in Nat, n \in P PROVE n + 1 \in P
  <2> SUFFICES ASSUME n + 1 <= Len(s) PROVE f[n + 1] = g[n + 1]
    OBVIOUS
  <2>1. n + 1 \in 0..Len(s) /\ n + 1 # 0 /\ (n + 1) - 1 = n /\ n + 1 \in 1..Len(s) /\ f[n] = g[n]
    BY <1>0, <1>3
  <2>2. s[n + 1] = t[n + 1]
    BY <2>1
  <2> QED BY <1>1, <2>1, <2>2
<1>4. Nat \subseteq P
  <2> HIDE DEF P
  <2> QED BY <1>2, <1>3, NatInd
<1> QED BY <1>0, <1>4

LEMMA UserIdsWalks ==
    ASSUME NEW s \in Seq(Message)
    PROVE  \E f : Walk(f, s) /\ UserIds(s) = f[Len(s)]
<1>1. PICK f : Walk(f, s)
  BY WalkExists
<1> DEFINE g == CHOOSE h : Walk(h, s)
<1>2. Walk(g, s)
  BY <1>1
<1>3. UserIds(s) = g[Len(s)]
  BY Zenon DEF UserIds, Walk
<1> QED BY <1>2, <1>3

(* UserIds takes the user messages, in order.                              *)
LEMMA UserIdsEmpty == UserIds(<<>>) = <<>>
<1>1. <<>> \in Seq(Message) /\ Len(<<>>) = 0
  OBVIOUS
<1>2. PICK f : Walk(f, <<>>) /\ UserIds(<<>>) = f[0]
  BY <1>1, UserIdsWalks
<1>3. f[0] = <<>>
  BY <1>1, <1>2 DEF Walk
<1> QED BY <1>2, <1>3

LEMMA UserIdsAppend ==
    ASSUME NEW s \in Seq(Message), NEW m \in Message
    PROVE  UserIds(Append(s, m)) = IF IsUser(m) THEN Append(UserIds(s), m.id) ELSE UserIds(s)
<1>0. PICK t \in Seq(Message) : t = Append(s, m)
  <2>1. Append(s, m) \in Seq(Message)
    OBVIOUS
  <2> QED BY <2>1
<1>1. Len(s) \in Nat /\ Len(t) = Len(s) + 1 /\ t[Len(s) + 1] = m /\ \A i \in 1..Len(s) : s[i] = t[i]
  BY <1>0
<1>2. PICK f : Walk(f, s) /\ UserIds(s) = f[Len(s)]
  BY UserIdsWalks
<1>3. PICK g : Walk(g, t) /\ UserIds(t) = g[Len(t)]
  BY UserIdsWalks
<1>4. f[Len(s)] = g[Len(s)]
  BY <1>1, <1>2, <1>3, WalkSame
<1>5. Len(t) \in 0..Len(t) /\ Len(t) # 0 /\ Len(t) - 1 = Len(s)
  BY <1>1
<1>6. g[Len(t)] = IF IsUser(t[Len(t)]) THEN Append(g[Len(t) - 1], t[Len(t)].id) ELSE g[Len(t) - 1]
  BY <1>3, <1>5, WalkStep
<1> QED BY <1>0, <1>1, <1>2, <1>3, <1>4, <1>5, <1>6

----------------------------------------------------------------------------
(* The numbers of the messages in a queue or in the hands of the loop.     *)

LEMMA IdsSeq ==
    ASSUME NEW s \in Seq(Message)
    PROVE  /\ IdsInOrder(s) \in Seq(Nat) /\ Len(IdsInOrder(s)) = Len(s)
           /\ \A i \in 1..Len(s) : IdsInOrder(s)[i] = s[i].id
           /\ s = <<>> <=> IdsInOrder(s) = <<>>
<1>1. DOMAIN s = 1..Len(s) /\ Len(s) \in Nat /\ \A i \in 1..Len(s) : s[i] \in Message
  OBVIOUS
<1>2. \A i \in 1..Len(s) : s[i].id \in Nat
  BY <1>1 DEF Message
<1>3. IdsInOrder(s) = [i \in 1..Len(s) |-> s[i].id]
  BY <1>1 DEF IdsInOrder
<1>4. IdsInOrder(s) \in Seq(Nat) /\ Len(IdsInOrder(s)) = Len(s)
  BY <1>1, <1>2, <1>3
<1>5. \A i \in 1..Len(s) : IdsInOrder(s)[i] = s[i].id
  BY <1>3
<1>6. s = <<>> <=> IdsInOrder(s) = <<>>
  BY <1>1, <1>4
<1> QED BY <1>4, <1>5, <1>6

LEMMA IdsEmpty == IdsInOrder(<<>>) = <<>>
BY IdsSeq, EmptyFacts

LEMMA IdsAppend ==
    ASSUME NEW s \in Seq(Message), NEW m \in Message
    PROVE  IdsInOrder(Append(s, m)) = Append(IdsInOrder(s), m.id)
<1>1. PICK t \in Seq(Message) : t = Append(s, m)
  BY AppendParts
<1>2. Len(s) \in Nat /\ Len(t) = Len(s) + 1 /\ t[Len(s) + 1] = m /\ \A i \in 1..Len(s) : t[i] = s[i]
  BY <1>1
<1>3. m.id \in Nat
  BY DEF Message
<1>4. PICK a \in Seq(Nat) : a = IdsInOrder(s)
  BY IdsSeq
<1>5. PICK b \in Seq(Nat) : b = IdsInOrder(t)
  BY IdsSeq
<1>6. Len(a) = Len(s) /\ Len(b) = Len(s) + 1
  BY <1>2, <1>4, <1>5, IdsSeq
<1>i. (\A i \in 1..Len(s) : a[i] = s[i].id) /\ \A i \in 1..Len(t) : b[i] = t[i].id
  BY <1>4, <1>5, IdsSeq
<1>7. b[Len(s) + 1] = m.id /\ \A i \in 1..Len(s) : b[i] = a[i]
  <2>1. Len(s) + 1 \in 1..Len(t) /\ \A i \in 1..Len(s) : i \in 1..Len(t)
    BY <1>2
  <2> QED BY <1>2, <1>i, <2>1
<1>8. b = Append(a, m.id)
  <2>1. PICK c \in Seq(Nat) : c = Append(a, m.id)
    <3>1. Append(a, m.id) \in Seq(Nat)
      BY <1>3
    <3> QED BY <3>1
  <2>2. Len(c) = Len(b) /\ \A i \in 1..Len(b) : b[i] = c[i]
    BY <1>2, <1>6, <1>7, <2>1
  <2> QED BY <2>1, <2>2, SeqEqual
<1> QED BY <1>1, <1>4, <1>5, <1>8

LEMMA CatShape ==
    ASSUME NEW d \in Seq(Message), NEW r \in Seq(Message)
    PROVE  /\ Len(d) \in Nat /\ Len(r) \in Nat /\ Len(d \o r) = Len(d) + Len(r)
           /\ \A i \in 1..Len(d) : (d \o r)[i] = d[i]
           /\ \A i \in 1..Len(r) : (d \o r)[Len(d) + i] = r[i]
OBVIOUS

(* What is taken from the front of a queue, and what is left of it.        *)
LEMMA IdsParts ==
    ASSUME NEW d \in Seq(Message), NEW r \in Seq(Message), NEW q \in Seq(Message),
           Len(q) = Len(d) + Len(r), \A i \in 1..Len(d) : q[i] = d[i],
           \A i \in 1..Len(r) : q[Len(d) + i] = r[i]
    PROVE  /\ IdsInOrder(d) = SubSeq(IdsInOrder(q), 1, Len(d))
           /\ IdsInOrder(r) = SubSeq(IdsInOrder(q), Len(d) + 1, Len(IdsInOrder(q)))
           /\ Len(d) \in 0..Len(IdsInOrder(q))
<1>1. Len(d) \in Nat /\ Len(r) \in Nat
  OBVIOUS
<1>2. PICK a \in Seq(Nat) : a = IdsInOrder(d)
  BY IdsSeq
<1>3. PICK b \in Seq(Nat) : b = IdsInOrder(r)
  BY IdsSeq
<1>4. PICK c \in Seq(Nat) : c = IdsInOrder(q)
  BY IdsSeq
<1>5. Len(a) = Len(d) /\ Len(b) = Len(r) /\ Len(c) = Len(d) + Len(r)
  BY <1>1, <1>2, <1>3, <1>4, IdsSeq
<1>i. /\ \A i \in 1..Len(d) : a[i] = d[i].id
      /\ \A i \in 1..Len(r) : b[i] = r[i].id
      /\ \A i \in 1..Len(q) : c[i] = q[i].id
  BY <1>2, <1>3, <1>4, IdsSeq
<1>6. ASSUME NEW i \in 1..Len(d) PROVE a[i] = c[i]
  <2>1. i \in 1..Len(q)
    BY <1>1
  <2> QED BY <1>1, <1>i, <2>1
<1>7. ASSUME NEW i \in 1..Len(r) PROVE b[i] = c[Len(d) + i]
  <2>1. Len(d) + i \in 1..Len(q)
    BY <1>1
  <2> QED BY <1>1, <1>i, <2>1
<1>8. a = SubSeq(c, 1, Len(d))
  <2>1. PICK e \in Seq(Nat) : e = SubSeq(c, 1, Len(d))
    <3>1. SubSeq(c, 1, Len(d)) \in Seq(Nat)
      BY <1>1, <1>5
    <3> QED BY <3>1
  <2>2. Len(e) = Len(a) /\ \A i \in 1..Len(a) : a[i] = e[i]
    BY <1>1, <1>5, <1>6, <2>1
  <2> QED BY <2>1, <2>2, SeqEqual
<1>9. b = SubSeq(c, Len(d) + 1, Len(c))
  <2>1. PICK e \in Seq(Nat) : e = SubSeq(c, Len(d) + 1, Len(c))
    <3>1. SubSeq(c, Len(d) + 1, Len(c)) \in Seq(Nat)
      BY <1>1, <1>5
    <3> QED BY <3>1
  <2>2. Len(e) = Len(b) /\ \A i \in 1..Len(b) : b[i] = e[i]
    BY <1>1, <1>5, <1>7, <2>1
  <2> QED BY <2>1, <2>2, SeqEqual
<1> QED BY <1>1, <1>2, <1>3, <1>4, <1>5, <1>8, <1>9

LEMMA IdsSplit ==
    ASSUME NEW d \in Seq(Message), NEW r \in Seq(Message)
    PROVE  LET q == d \o r
           IN  /\ IdsInOrder(d) = SubSeq(IdsInOrder(q), 1, Len(d))
               /\ IdsInOrder(r) = SubSeq(IdsInOrder(q), Len(d) + 1, Len(IdsInOrder(q)))
               /\ Len(d) \in 0..Len(IdsInOrder(q))
<1>1. /\ Len(d \o r) = Len(d) + Len(r) /\ \A i \in 1..Len(d) : (d \o r)[i] = d[i]
      /\ \A i \in 1..Len(r) : (d \o r)[Len(d) + i] = r[i]
  BY CatShape, Zenon
<1>2. d \o r \in Seq(Message)
  BY CatParts
<1> QED BY <1>1, <1>2, IdsParts, Zenon

LEMMA IdsHead ==
    ASSUME NEW p \in Seq(Message), p # <<>>
    PROVE  /\ IdsInOrder(p) # <<>> /\ Head(IdsInOrder(p)) = Head(p).id
           /\ IdsInOrder(Tail(p)) = Tail(IdsInOrder(p))
<1>1. PICK t \in Seq(Message) : t = Tail(p)
  BY MoveThrough
<1>2. Len(p) \in Nat \ {0} /\ Len(t) = Len(p) - 1 /\ \A i \in 1..Len(t) : t[i] = p[i + 1]
  BY <1>1
<1>3. PICK a \in Seq(Nat) : a = IdsInOrder(p)
  BY IdsSeq
<1>4. PICK b \in Seq(Nat) : b = IdsInOrder(t)
  BY IdsSeq
<1>5. Len(a) = Len(p) /\ Len(b) = Len(p) - 1 /\ a # <<>>
  BY <1>2, <1>3, <1>4, IdsSeq
<1>6. Head(a) = Head(p).id
  BY <1>2, <1>3, <1>5, IdsSeq
<1>7. \A i \in 1..Len(b) : b[i] = a[i + 1]
  <2> SUFFICES ASSUME NEW i \in 1..Len(b) PROVE b[i] = a[i + 1]
    OBVIOUS
  <2>1. i \in 1..Len(t) /\ i + 1 \in 1..Len(p)
    BY <1>2, <1>5
  <2> QED BY <1>2, <1>3, <1>4, <2>1, IdsSeq
<1>8. b = Tail(a)
  <2>1. PICK e \in Seq(Nat) : e = Tail(a)
    <3>1. Tail(a) \in Seq(Nat)
      BY <1>5
    <3> QED BY <3>1
  <2>2. Len(e) = Len(b) /\ \A i \in 1..Len(b) : b[i] = e[i]
    BY <1>5, <1>7, <2>1
  <2> QED BY <2>1, <2>2, SeqEqual
<1> QED BY <1>1, <1>3, <1>4, <1>5, <1>6, <1>8

LEMMA IdsItems ==
    ASSUME NEW s \in Seq(Message)
    PROVE  Contract!Items(IdsInOrder(s)) = Ids(s)
<1>1. DOMAIN IdsInOrder(s) = DOMAIN s /\ \A i \in DOMAIN s : IdsInOrder(s)[i] = s[i].id
  BY DEF IdsInOrder
<1> QED BY <1>1 DEF Contract!Items, Ids

LEMMA IdsCatItems ==
    ASSUME NEW s \in Seq(Message), NEW t \in Seq(Message)
    PROVE  Ids(s \o t) = Ids(s) \cup Ids(t)
<1>1. PICK c \in Seq(Message) : c = s \o t
  BY CatParts
<1>2. /\ \A i \in DOMAIN s : i \in DOMAIN c /\ c[i] = s[i]
      /\ \A j \in DOMAIN t : Len(s) + j \in DOMAIN c /\ c[Len(s) + j] = t[j]
      /\ \A k \in DOMAIN c : k \in DOMAIN s \/ \E j \in DOMAIN t : k = Len(s) + j
  BY <1>1, CatParts
<1>3. Ids(c) = Ids(s) \cup Ids(t)
  BY <1>2 DEF Ids
<1> QED BY <1>1, <1>3

----------------------------------------------------------------------------
(* The steps of the contract, by what a step of the Agent does to its      *)
(* messages.                                                               *)

ContractStep == Contract!Next \/ UNCHANGED Contract!vars

LEMMA QuietStep ==
    ASSUME active' = active, sent' = sent, dropped' = dropped,
           steeringQueue' = steeringQueue, followUpQueue' = followUpQueue,
           loop'.prompts = loop.prompts, loop'.pending = loop.pending,
           UserIds(state'.messages) = UserIds(state.messages)
    PROVE  ContractStep
<1>1. LaneIds' = LaneIds /\ Hand' = Hand
  BY DEF LaneIds, Hand
<1>2. UserIds(state.messages)' = UserIds(state.messages)
  OBVIOUS
<1> QED BY <1>1, <1>2 DEF ContractStep, Contract!vars

LEMMA OtherMessage ==
    ASSUME TypeOK, NEW m \in Message, m.role \notin UserKinds,
           state'.messages = Append(state.messages, m)
    PROVE  UserIds(state'.messages) = UserIds(state.messages)
BY FlowTyped, UserIdsAppend DEF IsUser

(* A run takes the front d of a queue into its empty hands.                *)
LEMMA TakeStep ==
    ASSUME TypeOK, NEW d \in Seq(Message), NEW r \in Seq(Message), d # <<>>,
           loop.prompts = <<>>, loop.pending = <<>>,
           loop'.prompts \o loop'.pending = d, active' = TRUE,
           \/ steeringQueue = d \o r /\ steeringQueue' = r /\ followUpQueue' = followUpQueue
           \/ followUpQueue = d \o r /\ followUpQueue' = r /\ steeringQueue' = steeringQueue,
           sent' = sent, dropped' = dropped, state'.messages = state.messages
    PROVE  ContractStep
<1>1. Hand = <<>> /\ Hand' = IdsInOrder(d)
  <2>1. <<>> \o <<>> = <<>>
    BY EmptyFacts
  <2> QED BY <2>1, IdsEmpty DEF Hand
<1>2. UserIds(state.messages)' = UserIds(state.messages)
  OBVIOUS
<1>3. Len(d) \in Nat /\ Len(d) > 0
  OBVIOUS
<1>4. CASE steeringQueue = d \o r /\ steeringQueue' = r /\ followUpQueue' = followUpQueue
  <2>1. steeringQueue \in Seq(Message)
    BY FlowTyped
  <2>2. /\ IdsInOrder(d) = SubSeq(IdsInOrder(steeringQueue), 1, Len(d))
        /\ IdsInOrder(r) = SubSeq(IdsInOrder(steeringQueue), Len(d) + 1, Len(IdsInOrder(steeringQueue)))
        /\ Len(d) \in 0..Len(IdsInOrder(steeringQueue))
    <3>1. steeringQueue = d \o r
      BY <1>4
    <3> QED BY <3>1, IdsSplit, Zenon
  <2>3. /\ LaneIds["steer"] = IdsInOrder(steeringQueue)
        /\ LaneIds' = [LaneIds EXCEPT !["steer"] = IdsInOrder(r)]
    BY <1>4 DEF LaneIds
  <2>4. Len(d) \in 1..Len(LaneIds["steer"])
    BY <1>3, <2>2, <2>3
  <2>5. Contract!Take("steer")
    BY <1>1, <1>2, <2>2, <2>3, <2>4 DEF Contract!Take
  <2> QED BY <2>5 DEF ContractStep, Contract!Next, Contract!Lanes
<1>5. CASE followUpQueue = d \o r /\ followUpQueue' = r /\ steeringQueue' = steeringQueue
  <2>1. followUpQueue \in Seq(Message)
    BY FlowTyped
  <2>2. /\ IdsInOrder(d) = SubSeq(IdsInOrder(followUpQueue), 1, Len(d))
        /\ IdsInOrder(r) = SubSeq(IdsInOrder(followUpQueue), Len(d) + 1, Len(IdsInOrder(followUpQueue)))
        /\ Len(d) \in 0..Len(IdsInOrder(followUpQueue))
    <3>1. followUpQueue = d \o r
      BY <1>5
    <3> QED BY <3>1, IdsSplit, Zenon
  <2>3. /\ LaneIds["followUp"] = IdsInOrder(followUpQueue)
        /\ LaneIds' = [LaneIds EXCEPT !["followUp"] = IdsInOrder(r)]
    BY <1>5 DEF LaneIds
  <2>4. Len(d) \in 1..Len(LaneIds["followUp"])
    BY <1>3, <2>2, <2>3
  <2>5. Contract!Take("followUp")
    BY <1>1, <1>2, <2>2, <2>3, <2>4 DEF Contract!Take
  <2> QED BY <2>5 DEF ContractStep, Contract!Next, Contract!Lanes
<1> QED BY <1>4, <1>5

(* A poll, which may find nothing.                                         *)
LEMMA PollStep ==
    ASSUME TypeOK, active' = active, active, NEW mode \in Modes,
           loop.prompts = <<>>, loop.pending = <<>>, loop'.prompts = <<>>,
           \/ /\ loop'.pending = Drained(steeringQueue, mode)
              /\ steeringQueue' = Left(steeringQueue, mode) /\ followUpQueue' = followUpQueue
           \/ /\ loop'.pending = Drained(followUpQueue, mode)
              /\ followUpQueue' = Left(followUpQueue, mode) /\ steeringQueue' = steeringQueue,
           sent' = sent, dropped' = dropped, state'.messages = state.messages
    PROVE  ContractStep
<1>f. steeringQueue \in Seq(Message) /\ followUpQueue \in Seq(Message)
  BY FlowTyped
<1>1. ASSUME NEW q \in Seq(Message), Drained(q, mode) = <<>> PROVE Left(q, mode) = q
  BY <1>1 DEF Drained, Left
<1>s. ASSUME NEW q \in Seq(Message)
      PROVE  \E d \in Seq(Message), r \in Seq(Message) :
               /\ Drained(q, mode) = d /\ Left(q, mode) = r
               /\ q = d \o r /\ (d = <<>> => r = q)
  <2>1. Drained(q, mode) \in Seq(Message) /\ Left(q, mode) \in Seq(Message)
    BY DrainTyped
  <2>2. q = Drained(q, mode) \o Left(q, mode)
    BY DrainSplits
  <2> QED BY <1>1, <2>1, <2>2
<1>3. PICK d \in Seq(Message), r \in Seq(Message) :
        /\ loop'.pending = d
        /\ \/ steeringQueue = d \o r /\ steeringQueue' = r /\ followUpQueue' = followUpQueue
           \/ followUpQueue = d \o r /\ followUpQueue' = r /\ steeringQueue' = steeringQueue
        /\ d = <<>> => steeringQueue' = steeringQueue /\ followUpQueue' = followUpQueue
  <2>1. CASE /\ loop'.pending = Drained(steeringQueue, mode)
             /\ steeringQueue' = Left(steeringQueue, mode) /\ followUpQueue' = followUpQueue
    <3>1. PICK d \in Seq(Message), r \in Seq(Message) :
            /\ Drained(steeringQueue, mode) = d /\ Left(steeringQueue, mode) = r
            /\ steeringQueue = d \o r /\ (d = <<>> => r = steeringQueue)
      BY <1>f, <1>s
    <3> QED BY <2>1, <3>1
  <2>2. CASE /\ loop'.pending = Drained(followUpQueue, mode)
             /\ followUpQueue' = Left(followUpQueue, mode) /\ steeringQueue' = steeringQueue
    <3>1. PICK d \in Seq(Message), r \in Seq(Message) :
            /\ Drained(followUpQueue, mode) = d /\ Left(followUpQueue, mode) = r
            /\ followUpQueue = d \o r /\ (d = <<>> => r = followUpQueue)
      BY <1>f, <1>s
    <3> QED BY <2>2, <3>1
  <2> QED BY <2>1, <2>2
<1>4. <<>> \o d = d
  OBVIOUS
<1>5. CASE d = <<>>
  BY <1>3, <1>5, QuietStep
<1>6. CASE d # <<>>
  BY <1>3, <1>4, <1>6, TakeStep
<1> QED BY <1>5, <1>6

----------------------------------------------------------------------------
(* Every initial state and every step of the Agent is one of the contract. *)

LEMMA InitImplements == Init => Contract!Init
<1> SUFFICES ASSUME Init PROVE Contract!Init
  OBVIOUS
<1>1. /\ active = FALSE /\ sent = 0 /\ dropped = {} /\ steeringQueue = <<>> /\ followUpQueue = <<>>
      /\ state.messages = <<>> /\ loop.prompts = <<>> /\ loop.pending = <<>>
  BY DEF Init, IdleLoop
<1>2. LaneIds = [l \in {"steer", "followUp"} |-> <<>>]
  BY <1>1, IdsEmpty DEF LaneIds
<1>3. Hand = <<>>
  <2>1. <<>> \o <<>> = <<>>
    BY EmptyFacts
  <2> QED BY <1>1, <2>1, IdsEmpty DEF Hand
<1>4. UserIds(state.messages) = <<>>
  BY <1>1, UserIdsEmpty
<1> QED BY <1>1, <1>2, <1>3, <1>4 DEF Contract!Init, Contract!Lanes

LEMMA StartImplements ==
    ASSUME TypeOK, Shape, Delivery, Prompt \/ ContinueQueued \/ ContinueTranscript
    PROVE  ContractStep
<1>1. /\ loop.pc = "idle" /\ active = FALSE /\ loop.prompts = <<>> /\ loop.pending = <<>>
  <2>1. loop.pc = "idle" /\ ~active /\ active \in BOOLEAN
    BY DEF Prompt, ContinueQueued, ContinueTranscript, Shape, TypeOK
  <2> QED BY <2>1, CoreAlone
<1>f. steeringQueue \in Seq(Message) /\ followUpQueue \in Seq(Message) /\ sent \in Nat
  BY FlowTyped
<1>2. CASE Prompt
  <2> DEFINE p == <<user("prompt", sent + 1)>>
  <2>1. p \in Seq(Message) /\ Len(p) = 1 /\ p[1].id = sent + 1
    <3>1. user("prompt", sent + 1) \in Message
      BY <1>f, MessagesTyped DEF UserKinds
    <3> QED BY <3>1 DEF user
  <2>2. Launch(p, FALSE) /\ UNCHANGED <<steeringQueue, followUpQueue, dropped>> /\ sent' = sent + 1
    BY <1>2 DEF Prompt, queues
  <2> HIDE DEF p
  <2>3. /\ loop'.prompts = p /\ loop'.pending = <<>> /\ state'.messages = state.messages
        /\ active' = TRUE
    BY <2>1, <2>2, LaunchFlow DEF Launch
  <2>4. p \o <<>> = p
    BY <2>1
  <2>5. Hand' = <<sent + 1>>
    <3>1. Hand' = IdsInOrder(p)
      BY <2>3, <2>4 DEF Hand
    <3>2. PICK a \in Seq(Nat) : a = IdsInOrder(p)
      BY <2>1, IdsSeq
    <3>3. Len(a) = 1 /\ a[1] = sent + 1
      BY <2>1, <3>2, IdsSeq
    <3>4. a = <<sent + 1>>
      BY <3>3
    <3> QED BY <3>1, <3>2, <3>4
  <2>6. LaneIds' = LaneIds /\ UserIds(state.messages)' = UserIds(state.messages)
    BY <2>2, <2>3 DEF LaneIds
  <2>7. Contract!Start
    BY <1>1, <2>2, <2>3, <2>5, <2>6 DEF Contract!Start
  <2> QED BY <2>7 DEF ContractStep, Contract!Next
<1>3. CASE ContinueQueued
  <2>1. sent' = sent /\ dropped' = dropped
    BY <1>3 DEF ContinueQueued, hist
  <2>2. ASSUME NEW q \in Seq(Message), q # <<>>, NEW mode \in Modes
        PROVE  \E d \in Seq(Message), r \in Seq(Message) :
                 d = Drained(q, mode) /\ r = Left(q, mode) /\ q = d \o r /\ d # <<>>
    <3>1. Drained(q, mode) \in Seq(Message) /\ Left(q, mode) \in Seq(Message)
      BY DrainTyped
    <3>2. q = Drained(q, mode) \o Left(q, mode)
      BY DrainSplits
    <3>3. Drained(q, mode) # <<>>
      BY <2>2 DEF Drained
    <3> QED BY <3>1, <3>2, <3>3
  <2>3. ASSUME NEW d \in Seq(Message), NEW skipPoll, Launch(d, skipPoll)
        PROVE  /\ loop'.prompts \o loop'.pending = d /\ active' = TRUE
               /\ state'.messages = state.messages
    <3>1. d \o <<>> = d
      OBVIOUS
    <3> QED BY <2>3, <3>1, LaunchFlow DEF Launch
  <2>4. CASE /\ steeringQueue # <<>>
             /\ Launch(Drained(steeringQueue, SteeringMode), TRUE)
             /\ steeringQueue' = Left(steeringQueue, SteeringMode)
             /\ followUpQueue' = followUpQueue
    <3>1. PICK d \in Seq(Message), r \in Seq(Message) :
            /\ d = Drained(steeringQueue, SteeringMode) /\ r = Left(steeringQueue, SteeringMode)
            /\ steeringQueue = d \o r /\ d # <<>>
      BY <1>f, <2>2, <2>4, ConstantsAssumption
    <3>2. Launch(d, TRUE) /\ steeringQueue' = r
      BY <2>4, <3>1
    <3>3. /\ loop'.prompts \o loop'.pending = d /\ active' = TRUE
          /\ state'.messages = state.messages
      BY <2>3, <3>2
    <3> QED BY <1>1, <2>1, <2>4, <3>1, <3>2, <3>3, TakeStep
  <2>5. CASE /\ followUpQueue # <<>>
             /\ Launch(Drained(followUpQueue, FollowUpMode), FALSE)
             /\ followUpQueue' = Left(followUpQueue, FollowUpMode)
             /\ steeringQueue' = steeringQueue
    <3>1. PICK d \in Seq(Message), r \in Seq(Message) :
            /\ d = Drained(followUpQueue, FollowUpMode) /\ r = Left(followUpQueue, FollowUpMode)
            /\ followUpQueue = d \o r /\ d # <<>>
      BY <1>f, <2>2, <2>5, ConstantsAssumption
    <3>2. Launch(d, FALSE) /\ followUpQueue' = r
      BY <2>5, <3>1
    <3>3. /\ loop'.prompts \o loop'.pending = d /\ active' = TRUE
          /\ state'.messages = state.messages
      BY <2>3, <3>2
    <3> QED BY <1>1, <2>1, <2>5, <3>1, <3>2, <3>3, TakeStep
  <2> QED BY <1>3, <2>4, <2>5 DEF ContinueQueued
<1>4. CASE ContinueTranscript
  <2>1. /\ Launch(<<>>, FALSE) /\ UNCHANGED <<steeringQueue, followUpQueue, sent, dropped>>
    BY <1>4 DEF ContinueTranscript, queues, hist
  <2>2. /\ loop'.prompts = <<>> /\ loop'.pending = <<>> /\ state'.messages = state.messages
        /\ active' = TRUE
    BY <2>1, LaunchFlow DEF Launch
  <2>3. LaneIds' = LaneIds /\ Hand' = Hand /\ UserIds(state.messages)' = UserIds(state.messages)
    BY <1>1, <2>1, <2>2 DEF LaneIds, Hand
  <2>4. Contract!Resume
    BY <1>1, <2>1, <2>2, <2>3 DEF Contract!Resume
  <2> QED BY <2>4 DEF ContractStep, Contract!Next
<1> QED BY <1>2, <1>3, <1>4

LEMMA CallersImplement ==
    ASSUME TypeOK, Shape, Delivery, steer \/ followUp \/ clearAllQueues \/ abort \/ DropFailedAnswer
    PROVE  ContractStep
<1>f. /\ steeringQueue \in Seq(Message) /\ followUpQueue \in Seq(Message) /\ sent \in Nat
      /\ state.messages \in Seq(Message)
  BY FlowTyped
<1>1. CASE steer
  <2>1. PICK m \in Message : m = user("steer", sent + 1) /\ m.id = sent + 1
    <3>1. user("steer", sent + 1) \in Message
      BY <1>f, MessagesTyped DEF UserKinds
    <3>2. user("steer", sent + 1).id = sent + 1
      BY DEF user
    <3> QED BY <3>1, <3>2
  <2>2. /\ steeringQueue' = Append(steeringQueue, m) /\ sent' = sent + 1
        /\ UNCHANGED <<active, state, followUpQueue, loop, dropped>>
    BY <1>1, <2>1 DEF steer
  <2>3. IdsInOrder(steeringQueue') = Append(IdsInOrder(steeringQueue), sent + 1)
    BY <1>f, <2>1, <2>2, IdsAppend
  <2>4. LaneIds' = [LaneIds EXCEPT !["steer"] = Append(@, sent + 1)]
    BY <2>2, <2>3 DEF LaneIds
  <2>5. Hand' = Hand /\ UserIds(state.messages)' = UserIds(state.messages)
    BY <2>2 DEF Hand
  <2>6. Contract!Join("steer")
    BY <2>2, <2>4, <2>5 DEF Contract!Join
  <2> QED BY <2>6 DEF ContractStep, Contract!Next, Contract!Lanes
<1>2. CASE followUp
  <2>1. PICK m \in Message : m = user("followUp", sent + 1) /\ m.id = sent + 1
    <3>1. user("followUp", sent + 1) \in Message
      BY <1>f, MessagesTyped DEF UserKinds
    <3>2. user("followUp", sent + 1).id = sent + 1
      BY DEF user
    <3> QED BY <3>1, <3>2
  <2>2. /\ followUpQueue' = Append(followUpQueue, m) /\ sent' = sent + 1
        /\ UNCHANGED <<active, state, steeringQueue, loop, dropped>>
    BY <1>2, <2>1 DEF followUp
  <2>3. IdsInOrder(followUpQueue') = Append(IdsInOrder(followUpQueue), sent + 1)
    BY <1>f, <2>1, <2>2, IdsAppend
  <2>4. LaneIds' = [LaneIds EXCEPT !["followUp"] = Append(@, sent + 1)]
    BY <2>2, <2>3 DEF LaneIds
  <2>5. Hand' = Hand /\ UserIds(state.messages)' = UserIds(state.messages)
    BY <2>2 DEF Hand
  <2>6. Contract!Join("followUp")
    BY <2>2, <2>4, <2>5 DEF Contract!Join
  <2> QED BY <2>6 DEF ContractStep, Contract!Next, Contract!Lanes
<1>3. CASE clearAllQueues
  <2>1. /\ steeringQueue' = <<>> /\ followUpQueue' = <<>>
        /\ dropped' = dropped \cup Ids(steeringQueue) \cup Ids(followUpQueue)
        /\ UNCHANGED <<active, state, loop, sent>>
    BY <1>3 DEF clearAllQueues
  <2>2. LaneIds' = [l \in {"steer", "followUp"} |-> <<>>]
    BY <2>1, IdsEmpty DEF LaneIds
  <2>3. Hand' = Hand /\ UserIds(state.messages)' = UserIds(state.messages)
    BY <2>1 DEF Hand
  <2>4. /\ Contract!Items(LaneIds["steer"]) = Ids(steeringQueue)
        /\ Contract!Items(LaneIds["followUp"]) = Ids(followUpQueue)
    BY <1>f, IdsItems DEF LaneIds
  <2>5. dropped' = dropped \cup UNION {Contract!Items(LaneIds[l]) : l \in Contract!Lanes}
    BY <2>1, <2>4 DEF Contract!Lanes
  <2>6. Contract!Clear
    BY <2>1, <2>2, <2>3, <2>5 DEF Contract!Clear, Contract!Lanes
  <2> QED BY <2>6 DEF ContractStep, Contract!Next
<1>4. CASE abort
  BY <1>4, QuietStep DEF abort, queues, hist
<1>5. CASE DropFailedAnswer
  <2>1. /\ state.messages # <<>> /\ Last(state.messages).role = "assistant"
        /\ state' = [state EXCEPT !.messages = Front(@)]
        /\ UNCHANGED <<active, steeringQueue, followUpQueue, loop, sent, dropped>>
    BY <1>5 DEF DropFailedAnswer, LastRole, queues, hist
  <2>2. state'.messages = Front(state.messages)
    BY <2>1 DEF TypeOK, AgentState
  <2>3. PICK s \in Seq(Message), m \in Message :
          state.messages = Append(s, m) /\ s = Front(state.messages) /\ m.role = "assistant"
    <3>1. PICK t \in Seq(Message) : t = state.messages /\ t # <<>>
      BY <1>f, <2>1
    <3>2. Front(t) \in Seq(Message) /\ Last(t) \in Message /\ t = Append(Front(t), Last(t))
      BY <3>1 DEF Front, Last
    <3> QED BY <2>1, <3>1, <3>2
  <2>4. UserIds(state'.messages) = UserIds(state.messages)
    BY <2>2, <2>3, UserIdsAppend DEF IsUser, UserKinds
  <2> QED BY <2>1, <2>4, QuietStep
<1> QED BY <1>1, <1>2, <1>3, <1>4, <1>5

LEMMA PollsImplement ==
    ASSUME TypeOK, Shape, Delivery, InitialPoll \/ PollSteering \/ PollFollowUp
    PROVE  ContractStep
<1>1. active /\ loop.pc \in {"poll", "pollSteering", "pollFollowUp"}
  BY DEF InitialPoll, PollSteering, PollFollowUp, At
<1>2. loop.prompts = <<>> /\ loop.pending = <<>>
  BY <1>1, CoreAlone
<1>3. UNCHANGED <<active, state, sent, dropped>>
  BY DEF InitialPoll, PollSteering, PollFollowUp, hist
<1>4. CASE InitialPoll
  <2>1. CASE loop.skipPoll
    <3>1. loop' = [loop EXCEPT !.pc = "inject", !.skipPoll = FALSE]
          /\ UNCHANGED <<steeringQueue, followUpQueue>>
      BY <1>4, <2>1 DEF InitialPoll
    <3>2. loop'.prompts = loop.prompts /\ loop'.pending = loop.pending
      BY <3>1 DEF TypeOK, Loop
    <3> QED BY <1>3, <3>1, <3>2, QuietStep
  <2>2. CASE ~loop.skipPoll
    <3>1. /\ loop' = [loop EXCEPT !.pc = "inject", !.pending = Drained(steeringQueue, SteeringMode)]
          /\ steeringQueue' = Left(steeringQueue, SteeringMode) /\ followUpQueue' = followUpQueue
      BY <1>4, <2>2 DEF InitialPoll
    <3>2. loop'.prompts = <<>> /\ loop'.pending = Drained(steeringQueue, SteeringMode)
      BY <1>2, <3>1 DEF TypeOK, Loop
    <3> QED BY <1>1, <1>2, <1>3, <3>1, <3>2, PollStep, ConstantsAssumption
  <2> QED BY <2>1, <2>2
<1>5. CASE PollSteering
  <2>1. PICK d, pc : d = Drained(steeringQueue, SteeringMode) /\ loop' = [loop EXCEPT !.pending = d, !.pc = pc]
    BY <1>5 DEF PollSteering
  <2>2. loop'.prompts = <<>> /\ loop'.pending = Drained(steeringQueue, SteeringMode)
    BY <1>2, <2>1 DEF TypeOK, Loop
  <2>3. steeringQueue' = Left(steeringQueue, SteeringMode) /\ followUpQueue' = followUpQueue
    BY <1>5 DEF PollSteering
  <2> QED BY <1>1, <1>2, <1>3, <2>2, <2>3, PollStep, ConstantsAssumption
<1>6. CASE PollFollowUp
  <2>1. PICK d, pc : d = Drained(followUpQueue, FollowUpMode)
                     /\ loop' = [loop EXCEPT !.pending = d, !.hasMore = TRUE, !.pc = pc]
    BY <1>6 DEF PollFollowUp
  <2>2. loop'.prompts = <<>> /\ loop'.pending = Drained(followUpQueue, FollowUpMode)
    BY <1>2, <2>1 DEF TypeOK, Loop
  <2>3. followUpQueue' = Left(followUpQueue, FollowUpMode) /\ steeringQueue' = steeringQueue
    BY <1>6 DEF PollFollowUp
  <2> QED BY <1>1, <1>2, <1>3, <2>2, <2>3, PollStep, ConstantsAssumption
<1> QED BY <1>4, <1>5, <1>6

LEMMA HeadFacts ==
    ASSUME NEW S, NEW p \in Seq(S), p # <<>>
    PROVE  Head(p) \in S /\ 1 \in DOMAIN p /\ Head(p) = p[1]
OBVIOUS

(* A message leaves the hands of the loop for the transcript.              *)
LEMMA DeliverStep ==
    ASSUME TypeOK, active, NEW p \in Seq(Message), p # <<>>, OnlyOf(p, UserKinds),
           loop.prompts \o loop.pending = p, loop'.prompts \o loop'.pending = Tail(p),
           state'.messages = Append(state.messages, Head(p)),
           UNCHANGED <<active, steeringQueue, followUpQueue, sent, dropped>>
    PROVE  ContractStep
<1>1. PICK m \in Message : m = Head(p) /\ IsUser(m)
  <2>1. Head(p) \in Message /\ 1 \in DOMAIN p /\ Head(p) = p[1]
    BY HeadFacts
  <2> QED BY <2>1 DEF OnlyOf, IsUser
<1>2. UserIds(state'.messages) = Append(UserIds(state.messages), m.id)
  BY <1>1, FlowTyped, UserIdsAppend
<1>3. Hand = IdsInOrder(p) /\ Hand' = IdsInOrder(Tail(p))
  BY DEF Hand
<1>4. Hand # <<>> /\ Head(Hand) = m.id /\ Hand' = Tail(Hand)
  BY <1>1, <1>3, IdsHead
<1>5. LaneIds' = LaneIds
  BY DEF LaneIds
<1>6. Contract!Deliver
  BY <1>2, <1>4, <1>5 DEF Contract!Deliver
<1> QED BY <1>6 DEF ContractStep, Contract!Next

LEMMA OpeningImplements ==
    ASSUME TypeOK, Shape, Delivery,
           EmitPrompt \/ PromptsEmitted \/ Inject \/ Injected \/ RequestStarted
    PROVE  ContractStep
<1> USE DEF At
<1>f. /\ state.messages \in Seq(Message) /\ loop.prompts \in Seq(Message)
      /\ loop.pending \in Seq(Message)
  BY FlowTyped
<1>q. active /\ UNCHANGED <<active, steeringQueue, followUpQueue, sent, dropped>>
  BY DEF EmitPrompt, PromptsEmitted, Inject, Injected, RequestStarted, queues, hist
<1>1. CASE EmitPrompt
  <2>1. loop.prompts # <<>> /\ loop.pc = "start" /\ loop.pending = <<>>
    BY <1>1 DEF EmitPrompt, Delivery
  <2>2. state'.messages = Append(state.messages, Head(loop.prompts))
    BY <1>1, <1>f, <2>1, MoveThrough, PushTyped DEF EmitPrompt, TypeOK
  <2>3. loop'.prompts = Tail(loop.prompts) /\ loop'.pending = loop.pending
    BY <1>1 DEF EmitPrompt, TypeOK, Loop
  <2>4. Tail(loop.prompts) \in Seq(Message)
    BY <1>f, <2>1
  <2>5. loop.prompts \o <<>> = loop.prompts /\ Tail(loop.prompts) \o <<>> = Tail(loop.prompts)
    BY <1>f, <2>4
  <2>6. loop.prompts \o loop.pending = loop.prompts /\ loop'.prompts \o loop'.pending = Tail(loop.prompts)
    BY <2>1, <2>3, <2>5
  <2> QED BY <1>f, <1>q, <2>1, <2>2, <2>6, DeliverStep DEF Delivery
<1>2. CASE Inject
  <2>1. loop.pending # <<>> /\ loop.pc = "inject" /\ loop.prompts = <<>>
    BY <1>2 DEF Inject, Shape
  <2>2. state'.messages = Append(state.messages, Head(loop.pending))
    BY <1>2, <1>f, <2>1, MoveThrough, PushTyped DEF Inject, TypeOK
  <2>3. loop'.pending = Tail(loop.pending) /\ loop'.prompts = loop.prompts
    BY <1>2 DEF Inject, TypeOK, Loop
  <2>4. Tail(loop.pending) \in Seq(Message)
    BY <1>f, <2>1
  <2>5. <<>> \o loop.pending = loop.pending /\ <<>> \o Tail(loop.pending) = Tail(loop.pending)
    BY <1>f, <2>4
  <2>6. loop.prompts \o loop.pending = loop.pending /\ loop'.prompts \o loop'.pending = Tail(loop.pending)
    BY <2>1, <2>3, <2>5
  <2> QED BY <1>f, <1>q, <2>1, <2>2, <2>6, DeliverStep DEF Delivery
<1>3. CASE PromptsEmitted \/ Injected \/ RequestStarted
  <2>1. state'.messages = state.messages
    BY <1>3 DEF PromptsEmitted, Injected, RequestStarted, TypeOK, AgentState
  <2>2. PICK pc : loop' = [loop EXCEPT !.pc = pc]
    BY <1>3 DEF PromptsEmitted, Injected, RequestStarted
  <2>3. loop'.prompts = loop.prompts /\ loop'.pending = loop.pending
    BY <2>2 DEF TypeOK, Loop
  <2> QED BY <1>q, <2>1, <2>3, QuietStep
<1> QED BY <1>1, <1>2, <1>3

LEMMA AnswersImplement ==
    ASSUME TypeOK, RequestAborted \/ Respond \/ RespondAborted
    PROVE  ContractStep
<1>1. PICK n \in 0..MaxCalls, stop \in StopReasons, parallel \in BOOLEAN : Receive(n, stop, parallel)
  BY AnswersReceive
<1> DEFINE m == assistant(turns + 1, n, stop)
<1>2. m \in Message
  <2>1. n \in Nat /\ turns + 1 \in Nat
    BY ConstantsAssumption DEF TypeOK
  <2> QED BY <2>1, MessagesTyped
<1>3. m.role \notin UserKinds
  BY DEF assistant, UserKinds
<1>4. /\ state'.messages = Append(state.messages, m)
      /\ loop'.prompts = loop.prompts /\ loop'.pending = loop.pending
  BY <1>1, ReceiveFields
<1>5. UNCHANGED <<active, steeringQueue, followUpQueue, sent, dropped>>
  BY <1>1 DEF Receive, queues
<1> HIDE DEF m
<1>6. UserIds(state'.messages) = UserIds(state.messages)
  BY <1>2, <1>3, <1>4, OtherMessage
<1> QED BY <1>4, <1>5, <1>6, QuietStep

LEMMA BatchImplements ==
    ASSUME TypeOK, Shape, Delivery,
           \/ StartTools \/ PreparedAll \/ Dispatch \/ DispatchOne \/ ToolsEnded
           \/ EmitResult \/ BatchDone
           \/ \E i \in 1..loop.tools.n : Prepare(i) \/ ToolEnds(i)
    PROVE  ContractStep
<1>f. /\ loop.tools.n \in Nat /\ loop.tools.k \in Nat \ {0} /\ turns \in Nat
  BY LoopFields, BatchFields DEF TypeOK, BatchOK
<1>q. UNCHANGED <<active, steeringQueue, followUpQueue, sent, dropped>>
  BY DEF StartTools, PreparedAll, Dispatch, DispatchOne, ToolsEnded, EmitResult, BatchDone,
         Prepare, ToolEnds, queues, hist
<1>k. ASSUME state'.messages = state.messages, loop'.prompts = loop.prompts,
             loop'.pending = loop.pending
      PROVE  ContractStep
  BY <1>k, <1>q, QuietStep
<1>1. CASE StartTools
  <2>1. (IF loop.tools.parallel THEN 1..loop.tools.n ELSE {loop.tools.k}) \in SUBSET Nat
    BY <1>f
  <2>2. state'.messages = state.messages
    BY <1>1, <2>1, StartToolsStep, ToolEventsTyped
  <2> QED BY <1>1, <1>k, <2>2, StartToolsStep
<1>2. CASE PreparedAll \/ ToolsEnded
  <2>1. (\E pc : loop' = [loop EXCEPT !.pc = pc]) /\ state' = state
    BY <1>2 DEF PreparedAll, ToolsEnded
  <2>2. loop'.prompts = loop.prompts /\ loop'.pending = loop.pending
    BY <2>1 DEF TypeOK, Loop
  <2> QED BY <1>k, <2>1, <2>2
<1>3. CASE Dispatch
  <2>1. state'.messages = state.messages
    BY <1>3, DispatchStep, ToolEventsTyped
  <2> QED BY <1>3, <1>k, <2>1, DispatchStep
<1>4. CASE DispatchOne
  <2>1. state'.messages = state.messages
    BY <1>4, DispatchOneStep, ToolEventsTyped
  <2> QED BY <1>4, <1>k, <2>1, DispatchOneStep
<1>6. CASE EmitResult
  <2> DEFINE m == toolResult(turns, loop.tools.k)
  <2>1. m \in Message
    BY <1>f, MessagesTyped
  <2>2. m.role \notin UserKinds
    BY DEF toolResult, UserKinds
  <2>3. state'.messages = Append(state.messages, m)
    BY <1>6, <2>1, EmitResultStep, PushTyped DEF TypeOK
  <2>4. loop'.prompts = loop.prompts /\ loop'.pending = loop.pending
    BY <1>6, EmitResultStep
  <2> HIDE DEF m
  <2>5. UserIds(state'.messages) = UserIds(state.messages)
    BY <2>1, <2>2, <2>3, OtherMessage
  <2> QED BY <1>q, <2>4, <2>5, QuietStep
<1>7. CASE BatchDone
  <2>1. state' = state
    BY <1>7 DEF BatchDone
  <2> QED BY <1>7, <1>k, <2>1, BatchDoneStep
<1>8. ASSUME NEW i \in 1..loop.tools.n, Prepare(i) PROVE ContractStep
  BY <1>8, <1>k, PrepareStep
<1>9. ASSUME NEW i \in 1..loop.tools.n, ToolEnds(i) PROVE ContractStep
  <2>1. state'.messages = state.messages
    BY <1>9, ToolEndsStep, ToolEventsTyped
  <2> QED BY <1>9, <1>k, <2>1, ToolEndsStep
<1> QED BY <1>1, <1>2, <1>3, <1>4, <1>6, <1>7, <1>8, <1>9

LEMMA ClosingImplements ==
    ASSUME TypeOK, Shape, Delivery, EndTurn \/ HandleRunFailure \/ FinishRun \/ OrphanEnds \/ RunFails
    PROVE  ContractStep
<1> USE DEF At
<1>f. /\ loop.prompts \in Seq(Message) /\ loop.pending \in Seq(Message)
      /\ steeringQueue \in Seq(Message) /\ followUpQueue \in Seq(Message)
  BY FlowTyped
<1>q. UNCHANGED <<steeringQueue, followUpQueue, sent>>
  BY DEF EndTurn, HandleRunFailure, FinishRun, OrphanEnds, RunFails, queues, hist
<1>l. LaneIds' = LaneIds
  BY <1>q DEF LaneIds
<1>1. CASE EndTurn
  <2>1. state' = state /\ \E pc \in {"end", "pollSteering"} : loop' = [loop EXCEPT !.pc = pc]
    BY <1>1 DEF EndTurn
  <2>2. loop'.prompts = loop.prompts /\ loop'.pending = loop.pending
    BY <2>1 DEF TypeOK, Loop
  <2>3. active' = active /\ dropped' = dropped
    BY <1>1 DEF EndTurn, hist
  <2> QED BY <1>q, <2>1, <2>2, <2>3, QuietStep
<1>2. CASE HandleRunFailure
  <2> DEFINE stop == IF aborted THEN "aborted" ELSE "error"
  <2>1. stop \in StopReasons /\ 0 \in Nat /\ turns + 1 \in Nat
    BY DEF StopReasons, TypeOK
  <2> HIDE DEF stop
  <2> DEFINE m == assistant(turns + 1, 0, stop)
  <2>2. m \in Message
    BY <2>1, MessagesTyped
  <2>3. m.role \notin UserKinds
    BY DEF assistant, UserKinds
  <2>4. state' = [Push(m) EXCEPT !.errorMessage = TRUE]
    BY <1>2 DEF HandleRunFailure, stop
  <2>5. loop' = [loop EXCEPT !.pc = "end"] /\ active' = active /\ dropped' = dropped
    BY <1>2 DEF HandleRunFailure
  <2> HIDE DEF m
  <2>6. state'.messages = Append(state.messages, m)
    <3>1. Push(m) \in AgentState /\ Push(m).messages = Append(state.messages, m)
      BY <2>2, PushTyped DEF TypeOK
    <3> QED BY <2>4, <3>1 DEF AgentState
  <2>7. loop'.prompts = loop.prompts /\ loop'.pending = loop.pending
    BY <2>5 DEF TypeOK, Loop
  <2>8. UserIds(state'.messages) = UserIds(state.messages)
    BY <2>2, <2>3, <2>6, OtherMessage
  <2> QED BY <1>q, <2>5, <2>7, <2>8, QuietStep
<1>3. CASE FinishRun
  <2>1. loop.pc \notin {"start", "inject"} /\ loop' = IdleLoop /\ active /\ active' = FALSE
        /\ dropped' = dropped
    BY <1>3 DEF FinishRun, hist
  <2>2. loop.prompts = <<>> /\ loop.pending = <<>>
    BY <2>1, CoreAlone
  <2>3. loop'.prompts = <<>> /\ loop'.pending = <<>>
    BY <2>1 DEF IdleLoop
  <2>4. state'.messages = state.messages
    BY <1>3 DEF FinishRun, TypeOK, AgentState
  <2>5. <<>> \o <<>> = <<>>
    BY EmptyFacts
  <2>6. Hand = <<>> /\ Hand' = <<>>
    BY <2>2, <2>3, <2>5, IdsEmpty DEF Hand
  <2>7. Contract!Finish
    BY <1>q, <1>l, <2>1, <2>4, <2>6 DEF Contract!Finish
  <2> QED BY <2>7 DEF ContractStep, Contract!Next
<1>4. CASE OrphanEnds
  <2>1. PICK o : state' = [state EXCEPT !.pendingToolCalls = @ \ {o}]
    BY <1>4 DEF OrphanEnds
  <2>2. state'.messages = state.messages
    BY <2>1 DEF TypeOK, AgentState
  <2>3. loop' = loop /\ active' = active /\ dropped' = dropped
    BY <1>4 DEF OrphanEnds
  <2> QED BY <1>q, <2>2, <2>3, QuietStep
<1>5. CASE RunFails
  <2>1. /\ active /\ active' = active /\ state' = state
        /\ loop'.prompts = <<>> /\ loop'.pending = <<>>
        /\ dropped' = dropped \cup Ids(loop.pending) \cup Ids(loop.prompts)
    BY <1>5 DEF RunFails, IdleLoop
  <2>2. <<>> \o <<>> = <<>>
    BY EmptyFacts
  <2>3. Hand' = <<>>
    BY <2>1, <2>2, IdsEmpty DEF Hand
  <2>4. Contract!Items(Hand) = Ids(loop.prompts) \cup Ids(loop.pending)
    <3>1. loop.prompts \o loop.pending \in Seq(Message)
      BY <1>f, CatParts
    <3> QED BY <1>f, <3>1, IdsItems, IdsCatItems DEF Hand
  <2>5. dropped' = dropped \cup Contract!Items(Hand)
    BY <2>1, <2>4
  <2>6. Contract!Fail
    BY <1>q, <1>l, <2>1, <2>3, <2>5 DEF Contract!Fail
  <2> QED BY <2>6 DEF ContractStep, Contract!Next
<1> QED BY <1>1, <1>2, <1>3, <1>4, <1>5

LEMMA NextImplements ==
    ASSUME TypeOK, Shape, Delivery, [Next]_vars
    PROVE  ContractStep
<1>1. CASE UNCHANGED vars
  BY <1>1, QuietStep DEF vars, queues, hist
<1>2. CASE RequestAborted \/ Respond \/ RespondAborted
  BY <1>2, AnswersImplement
<1>3. CASE LoopStep \/ ToolStep
  BY <1>2, <1>3, OpeningImplements, PollsImplement, BatchImplements, ClosingImplements
  DEF LoopStep, ToolStep
<1>4. CASE CallerStep \/ RunFails \/ OrphanEnds
  BY <1>4, StartImplements, CallersImplement, ClosingImplements DEF CallerStep
<1> QED BY <1>1, <1>2, <1>3, <1>4 DEF Next

(* The Agent keeps what the session relies on: messages are taken from the *)
(* front of their queue by an active run, appended to the transcript once  *)
(* and never removed, and a run does not end while it holds one - with any *)
(* queue modes, retries that edit the transcript, aborts and failures.     *)
THEOREM AgentKeepsContract == Spec => ImplementsContract
<1>1. Init => Contract!Init
  BY InitImplements
<1>2. TypeOK /\ Shape /\ Delivery /\ [Next]_vars => [Contract!Next]_(Contract!vars)
  BY NextImplements DEF ContractStep
<1> QED
  BY <1>1, <1>2, DeliveryHolds, PTL DEF Spec, ImplementsContract, Contract!Spec
=============================================================================
