------------------------- MODULE AgentRunRefinement -------------------------
(* The Agent and its loop implement the contract the session relies on.    *)
EXTENDS AgentRun

IdsInOrder(s) == [i \in DOMAIN s |-> s[i].id]

(* The numbers of the user messages among the messages of s.               *)
UserIds(s) ==
    LET upTo[n \in 0..Len(s)] ==
            IF n = 0 THEN <<>>
            ELSE IF IsUser(s[n]) THEN Append(upTo[n - 1], s[n].id) ELSE upTo[n - 1]
    IN  upTo[Len(s)]

LaneIds == [l \in {"steer", "followUp"} |->
              IdsInOrder(IF l = "steer" THEN steeringQueue ELSE followUpQueue)]

(* A run holds its prompts, or what it has taken from a queue.             *)
Hand == IdsInOrder(loop.prompts \o loop.pending)

Contract == INSTANCE AgentContract WITH
    running <- active,
    lanes <- LaneIds,
    hand <- Hand,
    delivered <- UserIds(state.messages),
    lost <- dropped

(* Every step of the Agent - with its two queue modes, polls, skipped      *)
(* polls, retries that edit the transcript, aborts and failing listeners - *)
(* is a step of the contract: messages are taken from the front of their   *)
(* queue by an active run, appended once, never removed, and a run does    *)
(* not end while it holds one.                                             *)
ImplementsContract == Contract!Spec
=============================================================================
