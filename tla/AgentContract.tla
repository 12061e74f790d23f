---------------------------- MODULE AgentContract ----------------------------
(***************************************************************************)
(* What the session relies on when it gives messages to the Agent.         *)
(* Messages are the numbers 1, 2, 3, ... in the order in which they were   *)
(* sent.  A message waits in its lane, is taken by a run, and is appended  *)
(* to the transcript while that run is active; nothing overtakes within a  *)
(* lane and nothing leaves the transcript.  Messages disappear only when   *)
(* the lanes are cleared or when a run fails that has already taken them.  *)
(***************************************************************************)
EXTENDS Naturals, Sequences

VARIABLES running,      \* a run is active
          sent,         \* number of messages sent
          lanes,        \* lane -> messages waiting
          hand,         \* messages taken by the run
          delivered,    \* user messages of the transcript
          lost

vars == <<running, sent, lanes, hand, delivered, lost>>

Lanes == {"steer", "followUp"}

Items(s) == {s[i] : i \in DOMAIN s}

Init ==
    /\ running = FALSE /\ sent = 0
    /\ lanes = [l \in Lanes |-> <<>>]
    /\ hand = <<>> /\ delivered = <<>> /\ lost = {}

\* A message starts a run of its own ...
Start ==
    /\ ~running /\ running' = TRUE
    /\ sent' = sent + 1
    /\ hand' = <<sent + 1>>
    /\ UNCHANGED <<lanes, delivered, lost>>

\* ... or joins a lane, at any time.
Join(l) ==
    /\ sent' = sent + 1
    /\ lanes' = [lanes EXCEPT ![l] = Append(@, sent + 1)]
    /\ UNCHANGED <<running, hand, delivered, lost>>

\* A run, or a continuation that starts one, takes the first messages of a lane.
Take(l) ==
    /\ hand = <<>>
    /\ running' = TRUE
    /\ \E n \in 1..Len(lanes[l]) :
        /\ hand' = SubSeq(lanes[l], 1, n)
        /\ lanes' = [lanes EXCEPT ![l] = SubSeq(@, n + 1, Len(@))]
    /\ UNCHANGED <<sent, delivered, lost>>

Resume ==
    /\ ~running /\ running' = TRUE
    /\ UNCHANGED <<sent, lanes, hand, delivered, lost>>

Deliver ==
    /\ running /\ hand # <<>>
    /\ delivered' = Append(delivered, Head(hand))
    /\ hand' = Tail(hand)
    /\ UNCHANGED <<running, sent, lanes, lost>>

Fail ==
    /\ running
    /\ lost' = lost \cup Items(hand)
    /\ hand' = <<>>
    /\ UNCHANGED <<running, sent, lanes, delivered>>

\* A run never ends with a message in its hand.
Finish ==
    /\ running /\ hand = <<>>
    /\ running' = FALSE
    /\ UNCHANGED <<sent, lanes, hand, delivered, lost>>

Clear ==
    /\ lost' = lost \cup UNION {Items(lanes[l]) : l \in Lanes}
    /\ lanes' = [l \in Lanes |-> <<>>]
    /\ UNCHANGED <<running, sent, hand, delivered>>

Next ==
    \/ Start \/ Resume \/ Deliver \/ Fail \/ Finish \/ Clear
    \/ \E l \in Lanes : Join(l) \/ Take(l)

Spec == Init /\ [][Next]_vars
=============================================================================
