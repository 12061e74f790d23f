------------------------ MODULE RemoteAgreementProofs ------------------------
(***************************************************************************)
(* That the clients and the server of RemoteSessions agree, for any        *)
(* clients, leases, number of connections, calls and faults.               *)
(***************************************************************************)
EXTENDS RemoteSessionsProofs
-----------------------------------------------------------------------------
(* Who is attached: the connections say what the live session says, but    *)
(* for a session that is being disposed under those who share its opening. *)

Sound(l) ==
    /\ l.connections \subseteq sessionIds
    /\ l.disposing # "no" => l.connections \subseteq skewed
    /\ l.terminal => l.connections \subseteq closed

(* Who works for a session that is being disposed.                         *)
Serves(t) ==
    /\ t.at = "running" => closing \/ lives[t.live].disposing = "no"
    /\ t.at = "telling" => closing \/ lives[t.live].disposing = "no" \/ lives[t.live].connections = {}

Attachments ==
    /\ live # 0 => Sound(lives[live])
    /\ \A c \in sessionIds : c \in skewed \/ (live # 0 /\ c \in lives[live].connections)
    /\ \A t \in tasks : Serves(t)
    /\ \A i \in DOMAIN lives : \A c \in lives[i].connections : stage[c] \in {"ready", "closed"}

(* What is known already of a state.                                       *)
Settled == RuntimeInv /\ AnswerInv /\ LeaseInv /\ BoundInv

LEMMA DisposeFacts ==
    ASSUME NEW l \in Live, NEW m, m = maybeDispose(l)
    PROVE  /\ m \in Live /\ m.connections = l.connections /\ m.terminal = l.terminal
           /\ m.operationCount = l.operationCount
           /\ m.disposing = l.disposing \/ (m.disposing = "yes" /\ l.connections = {} /\ l.operationCount = 0)
BY DEF maybeDispose, Live

(* Nobody comes or goes.                                                   *)
LEMMA AttachmentsSame ==
    ASSUME Settled, Attachments, UNCHANGED <<live, lives, sessionIds>>, closing => closing',
           skewed \subseteq skewed', closed \subseteq closed',
           \A t \in tasks' : t.at \in {"running", "telling"} => t \in tasks,
           \A c \in Conns : stage[c] \in {"ready", "closed"} => stage'[c] \in {"ready", "closed"}
    PROVE  Attachments'
<1>1. \A i \in DOMAIN lives : lives[i].connections \subseteq Conns
  BY ShapeFacts DEF Settled, RuntimeInv, Live
<1>2. live # 0 => Sound(lives[live])'
  BY DEF Attachments, Sound
<1>3. \A t \in tasks' : Serves(t)'
  BY DEF Attachments, Serves
<1> QED BY <1>1, <1>2, <1>3 DEF Attachments

(* A live session changes, not its connections.                            *)
LEMMA AttachmentsReplaced ==
    ASSUME Settled, Settled', Attachments, NEW i \in DOMAIN lives, NEW l \in Live, lives' = Replaced(i, l),
           UNCHANGED <<live, sessionIds, stage, closing, skewed>>, closed \subseteq closed',
           l.connections = lives[i].connections,
           l.disposing = lives[i].disposing \/ (l.connections = {} /\ l.operationCount = 0),
           l.terminal = lives[i].terminal \/ l.connections \subseteq closed',
           \A t \in tasks' : t.at \in {"running", "telling"} =>
               t \in tasks \/ (t.at = "running" /\ t.live = i /\ lives[i].disposing = "no")
    PROVE  Attachments'
<1>1. /\ lives'[i] = l /\ DOMAIN lives' = DOMAIN lives /\ \A j \in DOMAIN lives \ {i} : lives'[j] = lives[j]
      /\ live # 0 => live \in DOMAIN lives
  BY ShapeFacts DEF Settled, RuntimeInv, Replaced
<1>2. live # 0 => Sound(lives[live])'
  <2> SUFFICES ASSUME live # 0 PROVE Sound(lives[live])'
    OBVIOUS
  <2>1. Sound(lives[live])
    BY DEF Attachments
  <2>2. CASE live # i
    <3>1. lives'[live'] = lives[live]
      BY <1>1, <2>2
    <3> QED BY <3>1, <2>1 DEF Sound
  <2>3. CASE live = i
    <3>1. lives'[live'] = l /\ lives[live] = lives[i]
      BY <1>1, <2>3
    <3> QED BY <3>1, <2>1 DEF Sound
  <2> QED BY <2>2, <2>3
<1>3. \A c \in sessionIds : c \in skewed \/ (live # 0 /\ c \in lives'[live].connections)
  BY <1>1 DEF Attachments
<1>4. ASSUME NEW t \in tasks' PROVE Serves(t)'
  <2>1. t.at \in {"running", "telling"} => t.live \in DOMAIN lives
    BY <1>1, <1>4, ShapeFacts DEF Settled, RuntimeInv, Shape
  <2>2. CASE t.live # i
    BY <1>1, <1>4, <2>1, <2>2 DEF Attachments, Serves
  <2>3. CASE t.live = i /\ t.at = "telling"
    BY <1>1, <1>4, <2>1, <2>3 DEF Attachments, Serves
  <2>4. CASE t.live = i /\ t.at = "running"
    <3>1. t \in Running(i)' /\ IsFiniteSet(Running(i)') /\ l.operationCount = Cardinality(Running(i)')
      BY <1>1, <1>4, <2>4 DEF Settled, RuntimeInv, Counted, Running
    <3>2. l.operationCount # 0
      BY <3>1, FS_EmptySet
    <3>3. closing \/ lives[i].disposing = "no"
      BY <1>4, <2>4 DEF Attachments, Serves
    <3> QED BY <1>1, <2>4, <3>2, <3>3 DEF Serves
  <2> QED BY <2>2, <2>3, <2>4 DEF Serves
<1>5. \A j \in DOMAIN lives' : \A c \in lives'[j].connections : stage[c] \in {"ready", "closed"}
  BY <1>1 DEF Attachments
<1> QED BY <1>2, <1>3, <1>4, <1>5 DEF Attachments

LEMMA AttachmentsTold ==
    ASSUME Settled, Settled', Attachments,
           \/ \E t \in tasks : FinishTelling(t) \/ FinishOperation(t)
           \/ \E i \in DOMAIN lives : RunEnds(i) \/ Terminate(i)
    PROVE  Attachments'
<1>1. Shape
  BY DEF Settled, RuntimeInv
<1>2. ASSUME NEW i \in DOMAIN lives, NEW x \in Live, x.connections = lives[i].connections,
             x.disposing = lives[i].disposing, x.terminal = lives[i].terminal \/ x.connections \subseteq closed',
             lives' = Replaced(i, maybeDispose(x)),
             UNCHANGED <<live, sessionIds, stage, closing, skewed>>, closed \subseteq closed',
             \A t \in tasks' : t.at \in {"running", "telling"} => t \in tasks
      PROVE  Attachments'
  <2>1. PICK l : l = maybeDispose(x)
    OBVIOUS
  <2>2. /\ l \in Live /\ l.connections = x.connections /\ l.terminal = x.terminal
        /\ l.disposing = x.disposing \/ (l.connections = {} /\ l.operationCount = 0)
    BY <2>1, DisposeFacts
  <2> QED BY <1>2, <2>1, <2>2, AttachmentsReplaced
<1>3. ASSUME NEW t \in tasks, FinishTelling(t) PROVE Attachments'
  <2>1. t.live \in DOMAIN lives /\ lives[t.live] \in Live
    BY <1>1, <1>3, ShapeFacts DEF FinishTelling
  <2>2. /\ lives' = Replaced(t.live, maybeDispose(lives[t.live]))
        /\ UNCHANGED <<live, sessionIds, stage, closed, closing, skewed>>
    BY <1>3 DEF FinishTelling, connVars
  <2>3. \A u \in tasks' : u.at \in {"running", "telling"} => u \in tasks
    <3>1. t \in ServerTask
      BY <1>1, ShapeFacts
    <3>2. [t EXCEPT !.at = "disposal"].at = "disposal"
      BY <3>1 DEF ServerTask
    <3> QED BY <1>3, <3>2 DEF FinishTelling
  <2> QED BY <1>2, <2>1, <2>2, <2>3
<1>4. ASSUME NEW t \in tasks, FinishOperation(t) PROVE Attachments'
  <2> DEFINE x == [lives[t.live] EXCEPT !.operationCount = @ - 1]
  <2>1. t.live \in DOMAIN lives /\ lives[t.live] \in Live
    BY <1>1, <1>4, ShapeFacts DEF FinishOperation
  <2>2. /\ lives' = Replaced(t.live, maybeDispose(x)) /\ tasks' = tasks \ {t}
        /\ UNCHANGED <<live, sessionIds, stage, closed, closing, skewed>>
    BY <1>4 DEF FinishOperation, connVars
  <2>3. lives[t.live].operationCount - 1 \in Nat
    <3>1. t \in Running(t.live) /\ IsFiniteSet(Running(t.live)) /\ lives[t.live].operationCount = Cardinality(Running(t.live))
      BY <1>4, <2>1 DEF FinishOperation, Settled, RuntimeInv, Counted, Running
    <3> QED BY <3>1, FS_EmptySet, FS_CardinalityType
  <2>4. x \in Live /\ x.connections = lives[t.live].connections /\ x.disposing = lives[t.live].disposing
        /\ x.terminal = lives[t.live].terminal
    BY <2>1, <2>3 DEF Live
  <2> HIDE DEF x
  <2> QED BY <1>2, <2>1, <2>2, <2>4
<1>5. ASSUME NEW i \in DOMAIN lives, RunEnds(i) PROVE Attachments'
  <2> DEFINE x == [lives[i] EXCEPT !.busy = FALSE]
  <2>1. lives[i] \in Live
    BY <1>1, ShapeFacts
  <2>2. /\ lives' = Replaced(i, maybeDispose(x)) /\ tasks' = tasks
        /\ UNCHANGED <<live, sessionIds, stage, closed, closing, skewed>>
    BY <1>5 DEF RunEnds, connVars
  <2>3. x \in Live /\ x.connections = lives[i].connections /\ x.disposing = lives[i].disposing
        /\ x.terminal = lives[i].terminal
    BY <2>1 DEF Live
  <2> HIDE DEF x
  <2> QED BY <1>2, <2>2, <2>3
<1>6. ASSUME NEW i \in DOMAIN lives, Terminate(i) PROVE Attachments'
  <2> DEFINE x == [lives[i] EXCEPT !.terminal = TRUE]
  <2>1. lives[i] \in Live
    BY <1>1, ShapeFacts
  <2>2. /\ lives' = Replaced(i, maybeDispose(x)) /\ tasks' = tasks /\ closed' = closed \cup lives[i].connections
        /\ UNCHANGED <<live, sessionIds, stage, closing, skewed>>
    BY <1>6 DEF Terminate
  <2>3. x \in Live /\ x.connections = lives[i].connections /\ x.disposing = lives[i].disposing
    BY <2>1 DEF Live
  <2> HIDE DEF x
  <2> QED BY <1>2, <2>2, <2>3
<1> QED BY <1>3, <1>4, <1>5, <1>6

(* One connection leaves.                                                  *)
LEMMA AttachmentsLeft ==
    ASSUME Settled, Settled', Attachments, NEW c \in Conns,
           sessionIds' = sessionIds \ {c}, skewed \ {c} \subseteq skewed',
           UNCHANGED <<live, closing, closed>>,
           \/ /\ c \in sessionIds /\ live # 0
              /\ \E l \in Live : /\ lives' = Replaced(live, l)
                                 /\ l.connections = lives[live].connections \ {c}
                                 /\ l.disposing = lives[live].disposing \/ (l.connections = {} /\ l.operationCount = 0)
                                 /\ l.terminal = lives[live].terminal
           \/ ~(c \in sessionIds /\ live # 0) /\ lives' = lives,
           \A t \in tasks' : t.at \in {"running", "telling"} =>
               t \in tasks \/ (t.at = "telling" /\ live # 0 /\ t.live = live /\ lives'[live].disposing = "no"),
           \A d \in Conns : stage[d] \in {"ready", "closed"} => stage'[d] \in {"ready", "closed"}
    PROVE  Attachments'
<1>1. /\ lives \in Seq(Live) /\ (live # 0 => live \in DOMAIN lives /\ lives[live] \in Live)
      /\ \A i \in DOMAIN lives : lives[i].connections \subseteq Conns
  BY ShapeFacts DEF Settled, RuntimeInv, Live
<1>2. CASE c \in sessionIds /\ live # 0
  <2>1. PICK l \in Live : /\ lives' = Replaced(live, l)
                          /\ l.connections = lives[live].connections \ {c}
                          /\ l.disposing = lives[live].disposing \/ (l.connections = {} /\ l.operationCount = 0)
                          /\ l.terminal = lives[live].terminal
    BY <1>2
  <2>2. /\ lives'[live] = l /\ DOMAIN lives' = DOMAIN lives
        /\ \A j \in DOMAIN lives \ {live} : lives'[j] = lives[j]
    BY <1>1, <1>2, <2>1 DEF Replaced
  <2>3. Sound(lives[live]) /\ live' = live
    BY <1>2 DEF Attachments
  <2>4. Sound(lives[live])'
    BY <2>1, <2>2, <2>3 DEF Sound
  <2>5. \A d \in sessionIds' : d \in skewed' \/ (live' # 0 /\ d \in lives'[live'].connections)
    BY <1>2, <2>1, <2>2, <2>3 DEF Attachments
  <2>6. ASSUME NEW t \in tasks' PROVE Serves(t)'
    <3>1. CASE t \notin tasks
      BY <2>3, <2>6, <3>1 DEF Serves
    <3>2. CASE t \in tasks /\ t.live # live
      <4>1. t.at \in {"running", "telling"} => t.live \in DOMAIN lives
        BY <3>2, ShapeFacts DEF Settled, RuntimeInv
      <4>2. t.at \in {"running", "telling"} => lives'[t.live] = lives[t.live]
        BY <2>2, <3>2, <4>1
      <4> QED BY <3>2, <4>2 DEF Attachments, Serves
    <3>3. CASE t \in tasks /\ t.live = live /\ t.at = "telling"
      <4>1. closing \/ lives[live].disposing = "no" \/ lives[live].connections = {}
        BY <3>3 DEF Attachments, Serves
      <4>2. closing \/ l.disposing = "no" \/ l.connections = {}
        BY <2>1, <4>1
      <4> QED BY <2>2, <2>3, <3>3, <4>2 DEF Serves
    <3>4. CASE t \in tasks /\ t.live = live /\ t.at = "running"
      <4>0. t.live \in DOMAIN lives
        BY <3>4, ShapeFacts DEF Settled, RuntimeInv
      <4>1. t \in Running(live)' /\ IsFiniteSet(Running(live)') /\ l.operationCount = Cardinality(Running(live)')
        BY <2>2, <2>6, <3>4, <4>0 DEF Settled, RuntimeInv, Counted, Running
      <4>2. l.operationCount # 0
        BY <4>1, FS_EmptySet
      <4> QED BY <2>1, <2>2, <3>4, <4>2 DEF Attachments, Serves
    <3> QED BY <3>1, <3>2, <3>3, <3>4 DEF Serves
  <2>7. \A i \in DOMAIN lives' : \A d \in lives'[i].connections : stage'[d] \in {"ready", "closed"}
    <3>1. \A i \in DOMAIN lives : \A d \in lives'[i].connections : d \in lives[i].connections
      BY <2>1, <2>2
    <3> QED BY <1>1, <2>2, <3>1 DEF Attachments
  <2> QED BY <2>4, <2>5, <2>6, <2>7 DEF Attachments
<1>3. CASE ~(c \in sessionIds /\ live # 0)
  <2>1. lives' = lives /\ live' = live
    BY <1>3
  <2>2. live # 0 => Sound(lives[live])'
    <3> SUFFICES ASSUME live # 0 PROVE Sound(lives[live])'
      OBVIOUS
    <3>1. Sound(lives[live]) /\ c \notin lives[live].connections
      BY <1>3 DEF Attachments, Sound
    <3> QED BY <2>1, <3>1 DEF Sound
  <2>3. \A d \in sessionIds' : d \in skewed' \/ (live' # 0 /\ d \in lives'[live'].connections)
    BY <2>1 DEF Attachments
  <2>4. \A t \in tasks' : Serves(t)'
    BY <2>1 DEF Attachments, Serves
  <2>5. \A i \in DOMAIN lives' : \A d \in lives'[i].connections : stage'[d] \in {"ready", "closed"}
    BY <1>1, <2>1 DEF Attachments
  <2> QED BY <2>1, <2>2, <2>3, <2>4, <2>5 DEF Attachments
<1> QED BY <1>2, <1>3

LEMMA AttachmentsDispatch ==
    ASSUME Settled, Settled', Attachments, NEW c \in Conns, Dispatch(c)
    PROVE  Attachments'
<1> DEFINE r == Head(toServer[c])
<1>1. /\ stage[c] = "ready" /\ UNCHANGED <<stage, closed, closing>> /\ r \in Request
      /\ toServer[c] # <<>>
  BY HeadType DEF Dispatch, connVars, Settled, RuntimeInv, Shape
<1>2. live \in Nat /\ (live # 0 => live \in DOMAIN lives /\ lives[live] \in Live)
  BY ShapeFacts DEF Settled, RuntimeInv
<1> HIDE DEF r
<1>3. ASSUME r.cmd \in {"create", "attach"}, Acquire(r, c) PROVE Attachments'
  <2>1. live' = live
    BY <1>3 DEF Acquire
  <2>2. ASSUME NEW at \in {"opening", "disposal"}
        PROVE  [Task(r, c, at, live) EXCEPT !.opener = MayOpen].at \notin {"running", "telling"}
    BY DEF Task
  <2>3. CASE UNCHANGED <<lives, sessionIds, skewed>>
    <3>1. \A t \in tasks' : t.at \in {"running", "telling"} => t \in tasks
      <4>1. \/ tasks' = tasks
            \/ \E at \in {"opening", "disposal"} : tasks' = tasks \cup {[Task(r, c, at, live) EXCEPT !.opener = MayOpen]}
            \/ tasks' = tasks \cup {Task(r, c, "attached", live)}
        BY <1>3 DEF Acquire, Attached
      <4>2. Task(r, c, "attached", live).at \notin {"running", "telling"}
        BY DEF Task
      <4> QED BY <4>1, <4>2, <2>2
    <3> QED BY <1>1, <2>1, <2>3, <3>1, AttachmentsSame
  <2>4. CASE ~UNCHANGED <<lives, sessionIds, skewed>>
    <3> DEFINE l == [lives[live] EXCEPT !.connections = @ \cup {c}]
    <3>1. /\ live # 0 /\ ~lives[live].terminal /\ lives[live].disposing = "no"
          /\ Attached(r, c)
      BY <1>3, <2>4 DEF Acquire, MayOpen
    <3>2. /\ lives' = Replaced(live, l) /\ sessionIds' = sessionIds \cup {c} /\ skewed' = skewed \ {c}
          /\ tasks' = tasks \cup {Task(r, c, "attached", live)}
      BY <3>1 DEF Attached
    <3>3. l.connections = lives[live].connections \cup {c} /\ ~l.terminal /\ l.disposing = "no"
      BY <1>2, <3>1 DEF Live
    <3> HIDE DEF l
    <3>4. /\ lives'[live] = l /\ DOMAIN lives' = DOMAIN lives
          /\ \A j \in DOMAIN lives \ {live} : lives'[j] = lives[j]
      BY <1>2, <3>1, <3>2 DEF Replaced
    <3>5. Sound(lives[live])'
      BY <2>1, <3>1, <3>2, <3>3, <3>4 DEF Attachments, Sound
    <3>6. \A d \in sessionIds' : d \in skewed' \/ (live # 0 /\ d \in lives'[live].connections)
      BY <3>1, <3>2, <3>3, <3>4 DEF Attachments
    <3>7. ASSUME NEW t \in tasks' PROVE Serves(t)'
      <4>1. Task(r, c, "attached", live).at \notin {"running", "telling"}
        BY DEF Task
      <4>2. t.at \in {"running", "telling"} => t \in tasks /\ t.live \in DOMAIN lives
        BY <3>2, <3>7, <4>1, ShapeFacts DEF Settled, RuntimeInv
      <4> QED BY <1>1, <3>3, <3>4, <3>7, <4>2 DEF Attachments, Serves
    <3>8. \A i \in DOMAIN lives' : \A d \in lives'[i].connections : stage[d] \in {"ready", "closed"}
      BY <1>1, <3>3, <3>4 DEF Attachments
    <3> QED BY <1>1, <2>1, <3>5, <3>6, <3>7, <3>8 DEF Attachments
  <2> QED BY <2>3, <2>4
<1>4. ASSUME Detach(r, c) PROVE Attachments'
  <2> DEFINE l == Without(lives[live], c)
             tells == l.connections # {} /\ ~l.terminal /\ l.disposing = "no"
             left == IF tells THEN l ELSE maybeDispose(l)
  <2>1. /\ sessionIds' = sessionIds \ {c} /\ skewed \ {c} \subseteq skewed' /\ live' = live
        /\ \/ c \in sessionIds /\ live # 0 /\ lives' = Replaced(live, left)
           \/ ~(c \in sessionIds /\ live # 0) /\ lives' = lives
        /\ \/ tasks' = tasks \/ tasks' = tasks \cup {Task(r, c, "disposal", live)}
           \/ tasks' = tasks \cup {Task(r, c, "telling", live)} /\ tells /\ c \in sessionIds /\ live # 0
    BY <1>4 DEF Detach
  <2>2. /\ Task(r, c, "disposal", live).at = "disposal"
        /\ Task(r, c, "telling", live).at = "telling" /\ Task(r, c, "telling", live).live = live
    BY DEF Task
  <2>3. \A t \in tasks' : t.at \in {"running", "telling"} =>
            t \in tasks \/ (t.at = "telling" /\ live # 0 /\ t.live = live /\ lives'[live].disposing = "no")
    <3>1. tells /\ c \in sessionIds /\ live # 0 => lives'[live].disposing = "no"
      BY <1>2, <2>1 DEF Replaced
    <3> HIDE DEF tells
    <3> QED BY <2>1, <2>2, <3>1
  <2>4. ASSUME live # 0
        PROVE  /\ left \in Live /\ left.connections = lives[live].connections \ {c}
               /\ left.disposing = lives[live].disposing \/ (left.connections = {} /\ left.operationCount = 0)
               /\ left.terminal = lives[live].terminal
    <3>1. l \in Live /\ l.connections = lives[live].connections \ {c} /\ l.disposing = lives[live].disposing
          /\ l.terminal = lives[live].terminal
      BY <1>2, <2>4 DEF Without, Live
    <3> HIDE DEF l
    <3>2. PICK m : m = maybeDispose(l)
      OBVIOUS
    <3>3. left = l \/ left = m
      BY <3>2
    <3> HIDE DEF left
    <3> QED BY <3>1, <3>2, <3>3, DisposeFacts
  <2> HIDE DEF left, tells, l
  <2> QED BY <1>1, <2>1, <2>3, <2>4, AttachmentsLeft
<1>5. ASSUME Operate(r, c) PROVE Attachments'
  <2>1. CASE UNCHANGED <<lives, tasks>>
    BY <1>1, <1>5, <2>1, AttachmentsSame DEF Operate
  <2>2. CASE ~UNCHANGED <<lives, tasks>>
    <3> DEFINE l == [lives[live] EXCEPT !.operationCount = @ + 1, !.busy = TRUE]
    <3>1. /\ live # 0 /\ lives[live].disposing = "no" /\ lives' = Replaced(live, l)
          /\ tasks' = tasks \cup {Task(r, c, "running", live)} /\ UNCHANGED <<live, sessionIds, skewed>>
      BY <1>5, <2>2 DEF Operate
    <3>2. /\ l \in Live /\ l.connections = lives[live].connections /\ l.disposing = lives[live].disposing
          /\ l.terminal = lives[live].terminal
      <4>1. lives[live] \in Live /\ lives[live].operationCount + 1 \in Nat
        BY <1>2, <3>1 DEF Live
      <4> QED BY <4>1 DEF Live
    <3>3. \A t \in tasks' : t \in tasks \/ (t.at = "running" /\ t.live = live)
      BY <3>1 DEF Task
    <3>4. live \in DOMAIN lives /\ closed \subseteq closed'
      BY <1>1, <1>2, <3>1
    <3>5. \A t \in tasks' : t.at \in {"running", "telling"} =>
              t \in tasks \/ (t.at = "running" /\ t.live = live /\ lives[live].disposing = "no")
      BY <3>1, <3>3
    <3> HIDE DEF l
    <3> QED BY <1>1, <3>1, <3>2, <3>4, <3>5, AttachmentsReplaced
  <2> QED BY <2>1, <2>2
<1> QED BY <1>3, <1>4, <1>5 DEF Dispatch, r

LEMMA AttachmentsDisconnect ==
    ASSUME Settled, Settled', Attachments, NEW c \in Conns, ServerDisconnect(c)
    PROVE  Attachments'
<1> DEFINE l == Without(lives[live], c)
<1>1. /\ sessionIds' = sessionIds \ {c} /\ skewed' = skewed \ {c} /\ UNCHANGED <<live, closing, closed>>
      /\ \/ c \in sessionIds /\ live # 0 /\ lives' = Replaced(live, maybeDispose(l))
         \/ ~(c \in sessionIds /\ live # 0) /\ lives' = lives
      /\ tasks' = tasks \/ tasks' = tasks \cup {Leave(c, live)}
      /\ stage' = [stage EXCEPT ![c] = "closed"]
  BY DEF ServerDisconnect, Departed
<1>2. live \in Nat /\ (live # 0 => live \in DOMAIN lives /\ lives[live] \in Live)
      /\ stage \in [Conns -> {"none", "handshaking", "ready", "closed"}]
  BY ShapeFacts DEF Settled, RuntimeInv, Shape
<1>3. \A t \in tasks' : t.at \in {"running", "telling"} => t \in tasks
  BY <1>1, <1>2, LeaveType
<1>4. \A d \in Conns : stage[d] \in {"ready", "closed"} => stage'[d] \in {"ready", "closed"}
  BY <1>1, <1>2
<1>5. ASSUME live # 0
      PROVE  \E m \in Live :
               /\ m = maybeDispose(l)
               /\ m.connections = lives[live].connections \ {c}
               /\ m.disposing = lives[live].disposing \/ (m.connections = {} /\ m.operationCount = 0)
               /\ m.terminal = lives[live].terminal
  <2>1. l \in Live /\ l.connections = lives[live].connections \ {c} /\ l.disposing = lives[live].disposing
        /\ l.terminal = lives[live].terminal
    BY <1>2, <1>5 DEF Without, Live
  <2> HIDE DEF l
  <2>2. PICK m : m = maybeDispose(l)
    OBVIOUS
  <2> QED BY <2>1, <2>2, DisposeFacts
<1> HIDE DEF l
<1>6. \/ /\ c \in sessionIds /\ live # 0
         /\ \E m \in Live : /\ lives' = Replaced(live, m)
                            /\ m.connections = lives[live].connections \ {c}
                            /\ m.disposing = lives[live].disposing \/ (m.connections = {} /\ m.operationCount = 0)
                            /\ m.terminal = lives[live].terminal
      \/ ~(c \in sessionIds /\ live # 0) /\ lives' = lives
  BY <1>1, <1>5
<1>7. skewed \ {c} \subseteq skewed'
  BY <1>1
<1> QED BY <1>1, <1>3, <1>4, <1>6, <1>7, AttachmentsLeft

LEMMA AttachmentsOpened ==
    ASSUME Settled, Settled', Attachments, Opened
    PROVE  Attachments'
<1> DEFINE n == Len(lives) + 1
           here == {t \in Opening : Open(t.conn)}
           conns == {t.conn : t \in here}
           lost == \E t \in Opening \ here : t.opener
           new == [connections |-> {}, operationCount |-> 0, terminal |-> FALSE,
                   disposing |-> "no", busy |-> FALSE]
           first == IF lost THEN maybeDispose(new) ELSE new
           l == [first EXCEPT !.connections = conns]
<1>a. live' = n /\ opening = "snapshot" /\ UNCHANGED <<stage, closed, closing>>
  BY DEF Opened, connVars
<1>b. /\ lives' = Append(lives, l) /\ sessionIds' = sessionIds \cup conns
      /\ skewed' = IF lost /\ ~closing THEN skewed \cup conns ELSE skewed \ conns
  BY DEF Opened
<1>c. tasks' = (tasks \ Opening) \cup {[t EXCEPT !.at = "attached", !.live = live'] : t \in here}
  BY DEF Opened
<1>1. /\ UNCHANGED <<stage, closed, closing>> /\ opening = "snapshot"
      /\ live' = n /\ lives' = Append(lives, l) /\ sessionIds' = sessionIds \cup conns
      /\ tasks' = (tasks \ Opening) \cup {[t EXCEPT !.at = "attached", !.live = live'] : t \in here}
      /\ skewed' = IF lost /\ ~closing THEN skewed \cup conns ELSE skewed \ conns
  <2> HIDE DEF l, lost, conns, here
  <2> QED BY <1>a, <1>b, <1>c
<1>2. lives \in Seq(Live) /\ n \in Nat \ {0} /\ live = 0
  <2>1. lives \in Seq(Live) /\ (live # 0 => live \in Undone) /\ Undone = {}
    BY <1>a DEF Settled, RuntimeInv, Shape, OneLive
  <2> QED BY <2>1
<1>d. \A t \in tasks : t \in ServerTask /\ t.conn \in Conns /\ stage[t.conn] \in {"ready", "closed"}
  BY DEF Settled, RuntimeInv, Shape, ServerTask, BoundInv
<1>e. ASSUME NEW t \in ServerTask, NEW i PROVE [t EXCEPT !.at = "attached", !.live = i].at = "attached"
  BY DEF ServerTask
<1>3. \A t \in here : /\ t \in ServerTask /\ t.conn \in Conns /\ stage[t.conn] \in {"ready", "closed"}
                      /\ [t EXCEPT !.at = "attached", !.live = live'].at = "attached"
  BY <1>d, <1>e DEF Opening
<1>4. /\ l \in Live /\ l.connections = conns /\ l.terminal = FALSE
      /\ l.disposing # "no" => lost /\ ~closing
  <2>1. new \in Live /\ new.disposing = "no" /\ ~new.terminal
    BY DEF Live
  <2> HIDE DEF new
  <2>2. first \in Live /\ first.terminal = FALSE /\ (first.disposing # "no" => lost /\ ~closing)
    BY <2>1 DEF maybeDispose, Live
  <2>3. conns \subseteq Conns
    BY <1>3
  <2> HIDE DEF first, lost, conns
  <2> QED BY <2>2, <2>3 DEF Live
<1> HIDE DEF l, lost, conns
<1>5. /\ lives'[n] = l /\ DOMAIN lives' = DOMAIN lives \cup {n} /\ \A j \in DOMAIN lives : lives'[j] = lives[j]
  <2>1. lives' = Append(lives, l)
    BY <1>1
  <2> QED BY <1>2, <1>4, <2>1
<1>6. Sound(lives[live])'
  <2>1. lives'[live'] = l /\ conns \subseteq sessionIds'
    BY <1>1, <1>5
  <2>2. l.disposing # "no" => conns \subseteq skewed'
    BY <1>1, <1>4
  <2> QED BY <1>4, <2>1, <2>2 DEF Sound
<1>7. \A c \in sessionIds' : c \in skewed' \/ c \in lives'[n].connections
  BY <1>1, <1>2, <1>4, <1>5 DEF Attachments
<1>8. ASSUME NEW t \in tasks' PROVE Serves(t)'
  <2>1. t.at \in {"running", "telling"} => t \in tasks /\ t.live \in DOMAIN lives
    BY <1>1, <1>3, <1>8, ShapeFacts DEF Settled, RuntimeInv
  <2> QED BY <1>1, <1>5, <1>8, <2>1 DEF Attachments, Serves
<1>9. ASSUME NEW i \in DOMAIN lives', NEW c \in lives'[i].connections PROVE stage[c] \in {"ready", "closed"}
  <2>1. CASE i \in DOMAIN lives
    BY <1>5, <1>9, <2>1 DEF Attachments
  <2>2. CASE i = n
    <3>1. c \in conns
      BY <1>4, <1>5, <1>9, <2>2
    <3> QED BY <1>3, <3>1 DEF conns
  <2> QED BY <1>5, <2>1, <2>2
<1> QED BY <1>1, <1>2, <1>6, <1>7, <1>8, <1>9 DEF Attachments

LEMMA AttachmentsDisposed ==
    ASSUME Settled, Settled', Attachments, NEW i \in DOMAIN lives, NEW ok, Disposed(i, ok)
    PROVE  Attachments'
<1>1. /\ lives[i].disposing = "yes" /\ lives' = [lives EXCEPT ![i].disposing = "done"]
      /\ live' = (IF live = i THEN 0 ELSE live) /\ UNCHANGED <<sessionIds, stage, closed, closing>>
      /\ skewed \subseteq skewed'
  BY DEF Disposed, connVars
<1>2. /\ lives \in Seq(Live) /\ DOMAIN lives' = DOMAIN lives
      /\ \A j \in DOMAIN lives \ {i} : lives'[j] = lives[j]
      /\ lives'[i].connections = lives[i].connections
  BY <1>1, ShapeFacts DEF Settled, RuntimeInv, Live
<1>3. live' = 0 /\ (live = 0 \/ live = i)
  BY <1>1 DEF Settled, RuntimeInv, OneLive, Undone
<1>4. \A c \in sessionIds : c \in skewed
  BY <1>1, <1>3 DEF Attachments, Sound
<1>5. ASSUME NEW t \in tasks' PROVE Serves(t)'
  <2>1. t.at \in {"running", "telling"} => t \in tasks
    <3>1. \A u \in tasks : [u EXCEPT !.at = "opening", !.live = 0, !.opener = TRUE].at = "opening"
                           /\ [u EXCEPT !.at = "opening", !.live = 0, !.opener = FALSE].at = "opening"
      BY DEF Settled, RuntimeInv, Shape, ServerTask
    <3> DEFINE waiting == {u \in tasks : u.at = "disposal" /\ u.live = i}
               acquire == {u \in waiting : u.cmd = "attach"} \cup {u \in waiting : u.cmd = "create"}
               again == {[u EXCEPT !.at = "opening", !.live = 0, !.opener = \A v \in acquire : u.id <= v.id] : u \in acquire}
    <3>2. tasks' \subseteq tasks \cup again
      BY DEF Disposed
    <3>3. \A v \in again : v.at = "opening"
      BY DEF Settled, RuntimeInv, Shape, ServerTask
    <3> QED BY <3>2, <3>3, <1>5
  <2>2. t.at \in {"running", "telling"} => t.live \in DOMAIN lives
    BY <1>5, <2>1, ShapeFacts DEF Settled, RuntimeInv
  <2> QED BY <1>1, <1>2, <1>5, <2>1, <2>2 DEF Attachments, Serves
<1>6. \A j \in DOMAIN lives' : lives'[j].connections = lives[j].connections
  BY <1>2
<1> QED BY <1>1, <1>2, <1>3, <1>4, <1>5, <1>6 DEF Attachments

LEMMA AttachmentsCloseSessions ==
    ASSUME Settled, Settled', Attachments, CloseSessions
    PROVE  Attachments'
<1>1. /\ closing /\ live' = 0 /\ live # 0 /\ UNCHANGED <<sessionIds, stage, closed, closing, tasks>>
      /\ lives' = [lives EXCEPT ![live].disposing = IF @ = "no" THEN "yes" ELSE @]
      /\ \A c \in Conns : stage[c] \in {"none", "closed"}
  BY DEF CloseSessions, connVars
<1>2. sessionIds = {}
  BY <1>1 DEF Settled, BoundInv
<1>3. DOMAIN lives' = DOMAIN lives /\ \A j \in DOMAIN lives : lives'[j].connections = lives[j].connections
  BY <1>1, ShapeFacts DEF Settled, RuntimeInv, Live
<1> QED BY <1>1, <1>2, <1>3 DEF Attachments, Serves

LEMMA AttachmentsServer ==
    ASSUME Settled, Settled', Attachments, Server
    PROVE  Attachments'
<1>1. Shape /\ stage \in [Conns -> {"none", "handshaking", "ready", "closed"}] /\ closed \subseteq Conns
  BY DEF Settled, RuntimeInv, Shape, AnswerInv, Owned
<1>2. ASSUME NEW c \in Conns, SendHello(c) PROVE Attachments'
  <2>1. UNCHANGED <<live, lives, sessionIds, closing, skewed, closed, tasks>> /\ stage' = [stage EXCEPT ![c] = "ready"]
    BY <1>2 DEF SendHello, sessions
  <2>2. \A d \in Conns : stage[d] \in {"ready", "closed"} => stage'[d] \in {"ready", "closed"}
    BY <2>1, <1>1
  <2> QED BY <2>1, <2>2, AttachmentsSame
<1>3. ASSUME NEW c \in Conns, CatchUp(c) PROVE Attachments'
  <2>1. UNCHANGED <<live, lives, sessionIds, closing, skewed, closed, tasks, stage>>
    BY <1>3 DEF CatchUp, sessions
  <2> QED BY <2>1, AttachmentsSame
<1>4. ASSUME SendSnapshot \/ Acquired \/ OpenFails PROVE Attachments'
  <2>1. UNCHANGED <<live, lives, sessionIds, closing, skewed, closed, stage>> /\ tasks' \subseteq tasks
    BY <1>4 DEF SendSnapshot, Acquired, OpenFails, sessions, connVars
  <2> QED BY <2>1, AttachmentsSame
<1>5. ASSUME NEW t \in tasks, FinishAttach(t) \/ AttachFails(t) PROVE Attachments'
  <2>1. /\ UNCHANGED <<live, lives, sessionIds, closing, closed, stage>> /\ tasks' \subseteq tasks
        /\ skewed \subseteq skewed'
    BY <1>5 DEF FinishAttach, AttachFails, connVars
  <2> QED BY <2>1, AttachmentsSame
<1>6. ASSUME Close PROVE Attachments'
  <2>1. /\ UNCHANGED <<live, lives, sessionIds, skewed, stage, tasks>> /\ closing'
        /\ closed \subseteq closed'
    BY <1>6 DEF Close, sessions
  <2> QED BY <2>1, AttachmentsSame
<1>7. ASSUME ServerGoes PROVE Attachments'
  <2>1. ASSUME NEW c \in closed, Gone(c) PROVE Attachments'
    BY <2>1, <1>1, AttachmentsDisconnect DEF Gone
  <2> QED BY <1>7, <2>1, <1>2, <1>3, <1>4, <1>5, AttachmentsOpened, AttachmentsCloseSessions,
             AttachmentsTold, AttachmentsDisposed DEF ServerGoes
<1>8. ASSUME ServerFails PROVE Attachments'
  <2>1. ASSUME NEW c \in Conns, Break(c) PROVE Attachments'
    BY <2>1, AttachmentsDisconnect DEF Break
  <2> QED BY <1>8, <2>1, <1>4, <1>5, AttachmentsTold, AttachmentsDisposed DEF ServerFails
<1> QED BY <1>6, <1>7, <1>8, AttachmentsDisconnect DEF Server, Gone

LEMMA AttachmentsNext ==
    ASSUME Settled, Settled', Attachments, [Next]_vars
    PROVE  Attachments'
<1>1. CASE UNCHANGED vars
  <2>1. UNCHANGED <<live, lives, sessionIds, closing, skewed, closed, stage, tasks>>
    BY <1>1 DEF vars, connVars, serverVars, sessions
  <2> QED BY <2>1, AttachmentsSame
<1>2. ASSUME UNCHANGED <<live, lives, sessionIds, closing, closed, stage, tasks>>, skewed \subseteq skewed'
      PROVE  Attachments'
  BY <1>2, AttachmentsSame
<1>3. ASSUME NEW k \in Clients, Disconnect(k) \/ ReceiveEvent(k) \/ ReceiveResponse(k) PROVE Attachments'
  BY <1>2, <1>3 DEF Disconnect, ReceiveEvent, ReceiveResponse, Answered, Receives, connVars, serverVars, sessions
<1>4. ASSUME Users PROVE Attachments'
  <2>1. ASSUME NEW k \in Clients, NEW c \in Conns, Connect(k, c) PROVE Attachments'
    <3>1. UNCHANGED <<live, lives, sessionIds, closing, skewed, closed, tasks>>
          /\ stage' = [stage EXCEPT ![c] = "handshaking"] /\ stage[c] = "none"
      BY <2>1 DEF Connect, Accept, serverVars, sessions
    <3>2. \A d \in Conns : stage[d] \in {"ready", "closed"} => stage'[d] \in {"ready", "closed"}
      BY <3>1 DEF Settled, RuntimeInv, Shape
    <3> QED BY <3>1, <3>2, AttachmentsSame
  <2>2. ASSUME NEW l \in Leases, createSession(l) \/ request(l) PROVE Attachments'
    BY <1>2, <2>2 DEF createSession, request, connVars, serverVars, sessions
  <2>3. ASSUME NEW l \in Leases, NEW mode, acquireSession(l, mode) PROVE Attachments'
    BY <1>2, <2>3 DEF acquireSession, connVars, sessions
  <2>4. ASSUME NEW l \in Leases, NEW how, release(l, how) PROVE Attachments'
    BY <1>2, <2>4 DEF release, connVars, serverVars, sessions
  <2> QED BY <1>3, <1>4, <2>1, <2>2, <2>3, <2>4 DEF Users
<1>5. ASSUME StartBroadcast PROVE Attachments'
  BY <1>2, <1>5 DEF StartBroadcast, connVars, sessions
<1>6. ASSUME Arrival PROVE Attachments'
  BY <1>3, <1>6, AttachmentsDispatch DEF Arrival, Receive
<1> QED BY <1>1, <1>4, <1>5, <1>6, AttachmentsServer DEF Next

LEMMA AttachmentsAreInvariant == Spec => [](Settled /\ Attachments)
<1>1. Init => Attachments
  BY DEF Init, ServerInit, Attachments
<1>2. Settled /\ Settled' /\ Attachments /\ [Next]_vars => Attachments'
  BY AttachmentsNext
<1>3. RuntimeInv /\ AnswerInv /\ LeaseInv /\ BoundInv <=> Settled
  BY DEF Settled
<1> QED BY <1>1, <1>2, <1>3, RuntimeIsInvariant, AnswersAreInvariant, LeasesAreInvariant, PTL DEF Spec

-----------------------------------------------------------------------------
(* What the client asks of its session: one request at a time creates,     *)
(* attaches or detaches it, and the leases say which.                      *)

Unstored ==
    ~stored =>
        /\ lives = <<>> /\ opening # "snapshot"
        /\ \A l \in Leases : lease[l].state \in {"free", "creating"}
        /\ \A k \in Clients : ~client[k].cleanup
        /\ \A r \in pending : r.cmd = "create"
        /\ \A c \in Conns : \A q \in ToSet(toServer[c]) : q.cmd = "create"
        /\ \A c \in Conns : \A m \in ToSet(toClient[c]) : m.type = "response" => ~m.ok

Controls(k) == {r \in pending : r.client = k /\ r.cmd # "op"}
Only(k, states) == \A l \in Held(k) : lease[l].state \in states

Idle(k) == Controls(k) = {} /\ Only(k, {"active"}) /\ (client[k].cleanup => Held(k) = {})
Creating(k, r) == r.cmd = "create" /\ Held(k) = {} /\ ~client[k].cleanup
Attaching(k, r) ==
    /\ r.cmd = "attach" /\ r.lease = None /\ ~client[k].cleanup
    /\ In(k, {"attaching"}) # {} /\ Only(k, {"active", "attaching"})
Reconciling(k, r) ==
    /\ r.cmd = "detach" /\ r.lease = None /\ client[k].cleanup
    /\ In(k, {"reconciling"}) # {} /\ Only(k, {"reconciling"})
Releasing(k, r) ==
    /\ r.cmd = "detach" /\ r.lease \in In(k, {"detaching", "disposing"}) /\ ~client[k].cleanup
    /\ \A l \in Held(k) : l # r.lease => lease[l].state = "waiting"

Phase(k) ==
    \/ Idle(k)
    \/ \E r \in Controls(k) :
           /\ Controls(k) = {r}
           /\ Creating(k, r) \/ Attaching(k, r) \/ Reconciling(k, r) \/ Releasing(k, r)

Phases == \A k \in Clients : Phase(k)

LEMMA ClientKeeps ==
    ASSUME NEW cl \in Client, NEW l, NEW mode, NEW ls
    PROVE  /\ Reserved(cl, l, mode).cleanup = cl.cleanup /\ Released(cl, ls).cleanup = cl.cleanup
           /\ Reserved(cl, l, mode).attached = cl.attached /\ Released(cl, ls).attached = cl.attached
           /\ Reserved(cl, l, mode).revision = cl.revision /\ Released(cl, ls).revision = cl.revision
           /\ Reserved(cl, l, mode).conn = cl.conn /\ Released(cl, ls).conn = cl.conn
BY DEF Reserved, Released, Client

(* Nothing of k's changes.                                                 *)
LEMMA PhaseSame ==
    ASSUME NEW k, Phase(k), client'[k].cleanup = client[k].cleanup, Controls(k)' = Controls(k),
           \A x \in Of(k) : lease'[x] = lease[x]
    PROVE  Phase(k)'
<1>1. Held(k)' = Held(k) /\ \A x \in Held(k) : lease'[x] = lease[x]
  BY DEF Held, Of
<1>2. \A S : In(k, S)' = In(k, S)
  BY DEF In, Of
<1> QED BY <1>1, <1>2 DEF Phase, Idle, Creating, Attaching, Reconciling, Releasing, Only

(* A step of k is none of the others.                                      *)
LEMMA PhaseStep ==
    ASSUME Owned, Phases, NEW k \in Clients, NEW cl, client' = [client EXCEPT ![k] = cl],
           \A x \in Leases : x \notin Of(k) => lease'[x] = lease[x],
           \A r \in pending' : r.client # k => r \in pending,
           \A r \in pending : r.client # k => r \in pending',
           Phase(k)'
    PROVE  Phases'
<1> SUFFICES ASSUME NEW j \in Clients, j # k PROVE Phase(j)'
  BY DEF Phases
<1>1. client'[j] = client[j]
  BY DEF Owned
<1>2. Controls(j)' = Controls(j)
  BY DEF Controls
<1>3. \A x \in Of(j) : lease'[x] = lease[x]
  BY DEF Of
<1> QED BY <1>1, <1>2, <1>3, PhaseSame DEF Phases

(* What Asks() asks for, unless it is asked already.                       *)
Wanted(state) == IF state = "reconciling" THEN "detach" ELSE "attach"
IsAsked(k, state, p) == \E r \in p : r.client = k /\ r.cmd = Wanted(state) /\ r.lease = None

LEMMA AsksFacts ==
    ASSUME NEW k, NEW state, NEW p, Asks(k, state, p)
    PROVE  /\ state \notin {"reconciling", "attaching"} \/ IsAsked(k, state, p) => pending' = p
           /\ state \in {"reconciling", "attaching"} /\ ~IsAsked(k, state, p) =>
                 \E q : q.client = k /\ q.cmd = Wanted(state) /\ q.lease = None /\ pending' = p \cup {q}
           /\ \A r : r.client # k => (r \in pending' <=> r \in p)
<1>1. IsAsked(k, state, p) <=>
          \E r \in p : r.client = k /\ r.cmd = (IF state = "reconciling" THEN "detach" ELSE "attach") /\ r.lease = None
  BY DEF IsAsked, Wanted
<1>2. CASE state \in {"reconciling", "attaching"} /\ ~IsAsked(k, state, p)
  <2>1. Requested(k, Wanted(state), None, p)
    BY <1>1, <1>2 DEF Asks, Wanted
  <2>2. PICK q : q = [id |-> lastRequest + 1, cmd |-> Wanted(state), lease |-> None, client |-> k]
    OBVIOUS
  <2>3. q.client = k /\ q.cmd = Wanted(state) /\ q.lease = None /\ pending' = p \cup {q}
    BY <2>1, <2>2 DEF Requested
  <2> QED BY <1>2, <2>3
<1>3. CASE ~(state \in {"reconciling", "attaching"} /\ ~IsAsked(k, state, p))
  BY <1>1, <1>3 DEF Asks
<1> QED BY <1>2, <1>3

LEMMA PhaseAcquires ==
    ASSUME Settled, Phases, NEW l \in Leases, NEW mode, acquireSession(l, mode)
    PROVE  Phases'
<1>k. PICK k : k = OwnerOf(l)
  OBVIOUS
<1>0. PICK st : st = IF Detaching(k) THEN "waiting" ELSE Step(client[k])
  OBVIOUS
<1>1. k \in Clients /\ l \in Of(k) /\ client[k] \in Client /\ Owned /\ Engaged
      /\ lease \in [Leases -> [state : LeaseStates, mode : {"shared", "exclusive"}]]
  BY <1>k, RemoteAssumption DEF Of, Settled, AnswerInv, Owned, LeaseInv
<1>2. /\ lease[l].state = "free" /\ In(k, {"creating"}) = {} /\ client' = [client EXCEPT ![k] = Reserved(@, l, mode)]
      /\ lease' = [lease EXCEPT ![l] = [state |-> st, mode |-> mode]] /\ Asks(k, st, pending)
  BY <1>0, <1>k DEF acquireSession
<1>3. Detaching(k) => st = "waiting"
  BY <1>0
<1>4. ~Detaching(k) => /\ client[k].cleanup => st = "reconciling"
                       /\ ~client[k].cleanup => st \in {"active", "attaching"}
  BY <1>0 DEF Step
<1>5. lease'[l].state = st /\ \A x \in Leases : x # l => lease'[x] = lease[x]
  BY <1>1, <1>2
<1>6. client'[k].cleanup = client[k].cleanup
  <2>1. client'[k] = Reserved(client[k], l, mode)
    BY <1>1, <1>2 DEF Owned
  <2> QED BY <2>1, <1>1, ClientKeeps
<1>7. l \notin Held(k) /\ (st # "free" /\ st # "creating" => Held(k)' = Held(k) \cup {l})
      /\ \A x \in Held(k) : x # l /\ lease'[x] = lease[x]
  BY <1>1, <1>2, <1>5 DEF Held, Of
<1>8. \A S : l \notin In(k, S) \/ "free" \in S
  BY <1>2 DEF In
<1>9. \A S : \A x \in In(k, S) : "free" \notin S => x \in In(k, S)'
  BY <1>2, <1>5 DEF In, Of
<1>11. /\ st \notin {"reconciling", "attaching"} \/ IsAsked(k, st, pending) => pending' = pending
       /\ st \in {"reconciling", "attaching"} /\ ~IsAsked(k, st, pending) =>
             \E q : q.client = k /\ q.cmd = Wanted(st) /\ q.lease = None /\ pending' = pending \cup {q}
       /\ \A r : r.client # k => (r \in pending' <=> r \in pending)
  BY <1>2, AsksFacts
<1>12. Controls(k)' = {r \in pending' : r.client = k /\ r.cmd # "op"}
  BY DEF Controls
<1>13. Phase(k)'
  <2>1. CASE Idle(k)
    <3>1. ~Detaching(k)
      BY <2>1 DEF Idle, Only, Detaching, Held, In
    <3>5. \A r \in pending : r.client = k => r.cmd = "op"
      BY <2>1 DEF Idle, Controls
    <3>2. CASE client[k].cleanup
      <4>1. st = "reconciling" /\ Held(k)' = {l}
        BY <2>1, <3>1, <3>2, <1>4, <1>7 DEF Idle
      <4>2. PICK q : q.client = k /\ q.cmd = "detach" /\ q.lease = None /\ pending' = pending \cup {q}
        BY <3>5, <4>1, <1>11 DEF IsAsked, Wanted
      <4>3. Controls(k)' = {q}
        BY <3>5, <4>2 DEF Controls
      <4>4. Reconciling(k, q)'
        <5>1. l \in In(k, {"reconciling"})'
          BY <4>1, <1>1, <1>5 DEF In, Of
        <5> QED BY <5>1, <4>1, <4>2, <3>2, <1>5, <1>6 DEF Reconciling, Only
      <4> QED BY <4>3, <4>4 DEF Phase
    <3>3. CASE ~client[k].cleanup /\ st = "active"
      <4>1. Controls(k)' = {}
        BY <2>1, <3>3, <1>11, <1>12 DEF Idle, Controls
      <4>2. Only(k, {"active"})'
        BY <2>1, <3>3, <1>5, <1>7 DEF Idle, Only
      <4> QED BY <3>3, <4>1, <4>2, <1>6 DEF Phase, Idle
    <3>4. CASE ~client[k].cleanup /\ st = "attaching"
      <4>1. PICK q : q.client = k /\ q.cmd = "attach" /\ q.lease = None /\ pending' = pending \cup {q}
        BY <3>5, <3>4, <1>11 DEF IsAsked, Wanted
      <4>2. Controls(k)' = {q}
        BY <3>5, <4>1 DEF Controls
      <4>3. Only(k, {"active", "attaching"})'
        BY <2>1, <3>4, <1>5, <1>7 DEF Idle, Only
      <4>4. Attaching(k, q)'
        <5>1. l \in In(k, {"attaching"})'
          BY <3>4, <1>1, <1>5 DEF In, Of
        <5> QED BY <5>1, <4>1, <4>3, <3>4, <1>6 DEF Attaching
      <4> QED BY <4>2, <4>4 DEF Phase
    <3> QED BY <3>1, <3>2, <3>3, <3>4, <1>4
  <2>2. ASSUME NEW r \in Controls(k), Controls(k) = {r}, Attaching(k, r) PROVE Phase(k)'
    <3>1. ~Detaching(k) /\ st \in {"active", "attaching"}
      <4>1. ~Detaching(k)
        BY <2>2 DEF Attaching, Only, Detaching, Held, In
      <4> QED BY <4>1, <2>2, <1>4 DEF Attaching
    <3>2. pending' = pending
      <4>1. IsAsked(k, "attaching", pending)
        BY <2>2 DEF Attaching, Controls, IsAsked, Wanted
      <4> QED BY <3>1, <4>1, <1>11
    <3>3. Controls(k)' = {r} /\ r \in Controls(k)'
      BY <2>2, <3>2, <1>12 DEF Controls
    <3>4. Only(k, {"active", "attaching"})' /\ In(k, {"attaching"})' # {}
      BY <2>2, <3>1, <1>5, <1>7, <1>9 DEF Attaching, Only
    <3>5. Attaching(k, r)'
      BY <2>2, <3>4, <1>6 DEF Attaching
    <3> QED BY <3>3, <3>5 DEF Phase
  <2>3. ASSUME NEW r \in Controls(k), Controls(k) = {r}, Reconciling(k, r) PROVE Phase(k)'
    <3>1. ~Detaching(k) /\ st = "reconciling"
      <4>1. ~Detaching(k)
        BY <2>3 DEF Reconciling, Only, Detaching, Held, In
      <4> QED BY <4>1, <2>3, <1>4 DEF Reconciling
    <3>2. pending' = pending
      <4>1. IsAsked(k, "reconciling", pending)
        BY <2>3 DEF Reconciling, Controls, IsAsked, Wanted
      <4> QED BY <3>1, <4>1, <1>11
    <3>3. Controls(k)' = {r} /\ r \in Controls(k)'
      BY <2>3, <3>2, <1>12 DEF Controls
    <3>4. Only(k, {"reconciling"})' /\ In(k, {"reconciling"})' # {}
      BY <2>3, <3>1, <1>5, <1>7, <1>9 DEF Reconciling, Only
    <3>5. Reconciling(k, r)'
      BY <2>3, <3>4, <1>6 DEF Reconciling
    <3> QED BY <3>3, <3>5 DEF Phase
  <2>4. ASSUME NEW r \in Controls(k), Controls(k) = {r}, Releasing(k, r) PROVE Phase(k)'
    <3>1. st = "waiting"
      BY <2>4, <1>3 DEF Releasing, Detaching
    <3>2. pending' = pending
      BY <3>1, <1>11
    <3>3. Controls(k)' = {r} /\ r \in Controls(k)'
      BY <2>4, <3>2, <1>12 DEF Controls
    <3>4. r.lease \in In(k, {"detaching", "disposing"})'
      BY <2>4, <1>9 DEF Releasing
    <3>5. \A x \in Held(k)' : x # r.lease => lease'[x].state = "waiting"
      BY <2>4, <3>1, <1>5, <1>7 DEF Releasing
    <3>6. Releasing(k, r)'
      BY <2>4, <3>4, <3>5, <1>6 DEF Releasing
    <3> QED BY <3>3, <3>6 DEF Phase
  <2>5. ASSUME NEW r \in Controls(k), Creating(k, r) PROVE FALSE
    <3>1. r \in pending /\ r.client = k /\ Engages(r)
      BY <2>5, <1>1 DEF Controls, Creating, Engages, Engaged
    <3>2. r.lease \in In(k, {"creating"})
      BY <3>1, <2>5, <1>1 DEF Engaged, In, Of, Creating
    <3> QED BY <3>2, <1>2
  <2>6. Phase(k)
    BY <1>1 DEF Phases
  <2> QED BY <2>1, <2>2, <2>3, <2>4, <2>5, <2>6 DEF Phase
<1>14. \A x \in Leases : x \notin Of(k) => lease'[x] = lease[x]
  BY <1>1, <1>5
<1>15. \A r \in pending' : r.client # k => r \in pending
  BY <1>11
<1>16. \A r \in pending : r \in pending'
  BY <1>11
<1> QED BY <1>1, <1>2, <1>13, <1>14, <1>15, <1>16, PhaseStep

(* Nothing of any client changes.                                          *)
LEMMA PhasesSame ==
    ASSUME Phases, lease' = lease, \A k \in Clients : client'[k].cleanup = client[k].cleanup,
           \A r \in pending' : r.cmd # "op" => r \in pending, \A r \in pending : r.cmd # "op" => r \in pending'
    PROVE  Phases'
<1> SUFFICES ASSUME NEW k \in Clients PROVE Phase(k)'
  BY DEF Phases
<1>1. Controls(k)' = Controls(k)
  BY DEF Controls
<1> QED BY <1>1, PhaseSame DEF Phases

LEMMA PhaseCreates ==
    ASSUME Settled, Unstored, Phases, NEW l \in Leases, createSession(l)
    PROVE  Phases'
<1>k. PICK k : k = OwnerOf(l)
  OBVIOUS
<1>1. k \in Clients /\ l \in Of(k) /\ Owned
      /\ lease \in [Leases -> [state : LeaseStates, mode : {"shared", "exclusive"}]]
  BY <1>k, RemoteAssumption DEF Of, Settled, AnswerInv, LeaseInv
<1>2. /\ ~stored /\ \A r \in pending : r.cmd # "create"
      /\ lease' = [lease EXCEPT ![l] = [state |-> "creating", mode |-> "exclusive"]]
      /\ client' = client /\ Requested(k, "create", l, pending)
  BY <1>k DEF createSession
<1>3. pending = {} /\ ~client[k].cleanup
  BY <1>1, <1>2 DEF Unstored
<1>4. PICK q : q = [id |-> lastRequest + 1, cmd |-> "create", lease |-> l, client |-> k]
  OBVIOUS
<1>5. q.client = k /\ q.cmd = "create" /\ pending' = {q}
  BY <1>2, <1>3, <1>4 DEF Requested
<1>6. \A x \in Leases : lease'[x].state \in {"free", "creating"}
  BY <1>1, <1>2 DEF Unstored
<1>7. Held(k)' = {}
  BY <1>6 DEF Held, Of
<1>8. Controls(k)' = {q}
  BY <1>5 DEF Controls
<1>9. Phase(k)'
  BY <1>2, <1>3, <1>5, <1>7, <1>8 DEF Phase, Creating
<1>10. \A x \in Leases : x \notin Of(k) => lease'[x] = lease[x]
  BY <1>1, <1>2
<1>11. client' = [client EXCEPT ![k] = client[k]]
  BY <1>1, <1>2, SameClient
<1> QED BY <1>1, <1>3, <1>5, <1>9, <1>10, <1>11, PhaseStep

LEMMA PhaseReleases ==
    ASSUME Settled, Phases, NEW l \in Leases, NEW how \in {"detaching", "disposing"}, release(l, how)
    PROVE  Phases'
<1>k. PICK k : k = OwnerOf(l)
  OBVIOUS
<1>1. k \in Clients /\ l \in Of(k) /\ Owned /\ client[k] \in Client
      /\ lease \in [Leases -> [state : LeaseStates, mode : {"shared", "exclusive"}]]
      /\ client[k].count = Cardinality(Held(k))
  BY <1>k, RemoteAssumption DEF Of, Settled, AnswerInv, LeaseInv, Owned, Tidy
<1>2. lease[l].state = "active" /\ l \in Held(k)
  BY <1>1 DEF release, Usable, Held
<1>3. \/ Idle(k) /\ ~client[k].cleanup
      \/ \E r \in Controls(k) : Controls(k) = {r} /\ Attaching(k, r)
  <2>1. \A r : ~Creating(k, r) /\ ~Reconciling(k, r) /\ ~Releasing(k, r)
    BY <1>2 DEF Creating, Reconciling, Releasing, Only, In
  <2> QED BY <2>1, <1>1, <1>2 DEF Phases, Phase, Idle
<1>4. CASE IsLast(k)
  <2>1. lease' = Set({l}, how) /\ Requested(k, "detach", l, pending) /\ client' = client
    BY <1>4, <1>k DEF release
  <2>2. Held(k) = {l}
    <3>1. IsFiniteSet(Held(k)) /\ Cardinality(Held(k)) \in Nat /\ Cardinality(Held(k)) <= 1
      BY <1>1, <1>4, HeldFacts DEF IsLast
    <3>2. Cardinality(Held(k) \ {l}) = Cardinality(Held(k)) - 1
      BY <1>2, <3>1, FS_RemoveElement
    <3>3. IsFiniteSet(Held(k) \ {l}) /\ Cardinality(Held(k) \ {l}) \in Nat
      BY <3>1, FS_Subset, FS_CardinalityType
    <3>4. Held(k) \ {l} = {}
      BY <3>1, <3>2, <3>3, FS_EmptySet
    <3> QED BY <3>4, <1>2
  <2>3. Idle(k) /\ ~client[k].cleanup
    <3>1. \A r : ~Attaching(k, r)
      BY <1>2, <2>2 DEF Attaching, In, Held
    <3> QED BY <3>1, <1>3
  <2>4. PICK q : q = [id |-> lastRequest + 1, cmd |-> "detach", lease |-> l, client |-> k]
    OBVIOUS
  <2>5. q.client = k /\ q.cmd = "detach" /\ q.lease = l /\ pending' = pending \cup {q}
    BY <2>1, <2>4 DEF Requested
  <2>6. lease'[l].state = how /\ \A x \in Leases : x # l => lease'[x] = lease[x]
    BY <1>1, <2>1 DEF Set
  <2>7. Held(k)' = {l} /\ l \in In(k, {"detaching", "disposing"})'
    BY <1>1, <2>2, <2>6 DEF Held, Of, In
  <2>8. Controls(k)' = {q}
    BY <2>3, <2>5 DEF Idle, Controls
  <2>9. Phase(k)'
    BY <2>1, <2>3, <2>5, <2>7, <2>8 DEF Phase, Releasing
  <2>10. client' = [client EXCEPT ![k] = client[k]]
    BY <1>1, <2>1, SameClient
  <2> QED BY <1>1, <2>5, <2>6, <2>9, <2>10, PhaseStep
<1>5. CASE ~IsLast(k)
  <2>1. /\ lease' = [lease EXCEPT ![l] = Free] /\ client' = [client EXCEPT ![k] = Released(client[k], {l})]
        /\ pending' = pending
    BY <1>5, <1>k DEF release
  <2>2. lease'[l].state = "free" /\ \A x \in Leases : x # l => lease'[x] = lease[x]
    BY <1>1, <2>1 DEF Free
  <2>3. Held(k)' = Held(k) \ {l}
    BY <2>2 DEF Held, Of
  <2>4. client'[k].cleanup = client[k].cleanup
    <3>1. client'[k] = Released(client[k], {l})
      BY <1>1, <2>1 DEF Owned
    <3> QED BY <3>1, <1>1, ClientKeeps
  <2>5. \A S : Only(k, S) => Only(k, S)'
    BY <1>1, <2>2, <2>3, HeldFacts DEF Only
  <2>6. Controls(k)' = Controls(k)
    BY <2>1 DEF Controls
  <2>7. ASSUME Idle(k), ~client[k].cleanup PROVE Phase(k)'
    <3>1. Only(k, {"active"})' /\ Controls(k)' = {}
      BY <2>5, <2>6, <2>7 DEF Idle
    <3>2. ~client'[k].cleanup
      BY <2>4, <2>7
    <3> QED BY <3>1, <3>2 DEF Idle, Phase
  <2>8. ASSUME NEW r \in Controls(k), Controls(k) = {r}, Attaching(k, r) PROVE Phase(k)'
    <3>1. In(k, {"attaching"})' # {}
      <4>1. PICK x : x \in In(k, {"attaching"})
        BY <2>8 DEF Attaching
      <4>2. x \in In(k, {"attaching"})'
        BY <4>1, <1>2, <2>2 DEF In, Of
      <4> QED BY <4>2
    <3>2. Attaching(k, r)'
      BY <3>1, <2>4, <2>5, <2>8 DEF Attaching
    <3> QED BY <3>2, <2>6, <2>8 DEF Phase
  <2>9. Phase(k)'
    BY <1>3, <2>7, <2>8, Zenon
  <2> QED BY <1>1, <2>1, <2>2, <2>9, PhaseStep
<1> QED BY <1>4, <1>5

LEMMA PhaseRequests ==
    ASSUME Settled, Phases, NEW l \in Leases, request(l)
    PROVE  Phases'
<1>1. PICK q : q = [id |-> lastRequest + 1, cmd |-> "op", lease |-> l, client |-> OwnerOf(l)]
  OBVIOUS
<1>2. q.cmd = "op" /\ pending' = pending \cup {q} /\ client' = client /\ lease' = lease
  BY <1>1 DEF request, Requested
<1> QED BY <1>2, PhasesSame

LEMMA PhaseLeaves ==
    ASSUME Settled, Phases, NEW k \in Clients, Disconnect(k)
    PROVE  Phases'
<1>1. /\ Owned /\ client[k].count = Cardinality(Held(k))
      /\ client' = [client EXCEPT ![k] = Unused] /\ pending' = {r \in pending : r.client # k}
      /\ lease' = [l \in Leases |-> IF l \in Of(k) \ Survivors(k) THEN Free ELSE lease[l]]
  BY DEF Settled, AnswerInv, LeaseInv, Tidy, Disconnect
<1>2. Survivors(k) = {}
  <2>1. CASE client[k].count > 0
    BY <2>1 DEF Survivors
  <2>2. CASE ~(client[k].count > 0)
    <3>1. Held(k) = {}
      BY <1>1, <2>2, HeldFacts, FS_EmptySet
    <3>2. In(k, {"active"}) \subseteq Held(k)
      BY DEF In, Held
    <3> QED BY <3>1, <3>2, <2>2 DEF Survivors
  <2> QED BY <2>1, <2>2
<1>3. \A x \in Of(k) : lease'[x].state = "free"
  BY <1>1, <1>2 DEF Of, Free
<1>4. Held(k)' = {}
  BY <1>3 DEF Held, Of
<1>5. Controls(k)' = {}
  BY <1>1 DEF Controls
<1>6. Phase(k)'
  BY <1>4, <1>5 DEF Phase, Idle, Only
<1>7. \A x \in Leases : x \notin Of(k) => lease'[x] = lease[x]
  BY <1>1
<1> QED BY <1>1, <1>6, <1>7, PhaseStep

LEMMA PhaseConnects ==
    ASSUME Settled, Phases, NEW k \in Clients, NEW c \in Conns, Connect(k, c)
    PROVE  Phases'
<1>1. /\ Owned /\ Asked /\ client[k].count = Cardinality(Held(k)) /\ client[k].count = 0
      /\ client' = [client EXCEPT ![k] = [Unused EXCEPT !.conn = c]] /\ pending' = pending /\ lease' = lease
      /\ client[k].conn = 0
  BY DEF Settled, AnswerInv, LeaseInv, Tidy, Connect
<1>2. Held(k) = {}
  BY <1>1, HeldFacts, FS_EmptySet
<1>3. Held(k)' = {}
  BY <1>1, <1>2 DEF Held
<1>4. Controls(k)' = {}
  BY <1>1 DEF Controls, Asked, Owned
<1>5. Phase(k)'
  BY <1>3, <1>4 DEF Phase, Idle, Only
<1> QED BY <1>1, <1>5, PhaseStep

LEMMA PhaseReceiveEvent ==
    ASSUME Settled, Phases, NEW k \in Clients, ReceiveEvent(k)
    PROVE  Phases'
<1>1. PICK m : /\ Receives(k, m) /\ lease' = lease /\ pending' = pending
               /\ client' = [client EXCEPT ![k] =
                      IF m.type = "session" THEN [@ EXCEPT !.attached = TRUE]
                      ELSE [applyServerSnapshot(@, m) EXCEPT !.connected = TRUE]]
  BY DEF ReceiveEvent
<1>2. Owned /\ client[k] \in Client
  BY DEF Settled, AnswerInv, Owned
<1>3. client'[k].cleanup = client[k].cleanup
  <2>1. PICK cl : cl = applyServerSnapshot(client[k], m)
    OBVIOUS
  <2>2. /\ cl.cleanup = client[k].cleanup
        /\ [cl EXCEPT !.connected = TRUE].cleanup = cl.cleanup
        /\ [client[k] EXCEPT !.attached = TRUE].cleanup = client[k].cleanup
    BY <2>1, <1>2 DEF applyServerSnapshot, Client
  <2>3. client'[k] = IF m.type = "session" THEN [client[k] EXCEPT !.attached = TRUE] ELSE [cl EXCEPT !.connected = TRUE]
    BY <1>1, <1>2, <2>1 DEF Owned
  <2> QED BY <2>2, <2>3
<1>4. \A j \in Clients : client'[j].cleanup = client[j].cleanup
  BY <1>1, <1>2, <1>3 DEF Owned
<1> QED BY <1>1, <1>4, PhasesSame

(* The request of k that is answered is its only one.                      *)
LEMMA OneControl ==
    ASSUME Phases, NEW k \in Clients, NEW r \in Controls(k)
    PROVE  /\ Controls(k) = {r} /\ \A q \in pending \ {r} : q.client = k => q.cmd = "op"
           /\ r.cmd = "create" => Creating(k, r)
           /\ r.cmd = "attach" => Attaching(k, r)
           /\ r.cmd = "detach" => IF r.lease = None THEN Reconciling(k, r) ELSE Releasing(k, r)
<1>1. Phase(k) /\ Controls(k) # {}
  BY DEF Phases
<1>2. PICK q \in Controls(k) : /\ Controls(k) = {q}
                               /\ Creating(k, q) \/ Attaching(k, q) \/ Reconciling(k, q) \/ Releasing(k, q)
  BY <1>1 DEF Phase, Idle
<1>3. q = r
  BY <1>2
<1>4. Releasing(k, r) => r.lease # None
  BY RemoteAssumption DEF Releasing, In, Of
<1>5. \A x \in pending \ {r} : x.client = k => x.cmd = "op"
  BY <1>2, <1>3 DEF Controls
<1>6. /\ r.cmd = "create" => Creating(k, r)
      /\ r.cmd = "attach" => Attaching(k, r)
      /\ r.cmd = "detach" => IF r.lease = None THEN Reconciling(k, r) ELSE Releasing(k, r)
  BY <1>2, <1>3, <1>4 DEF Creating, Attaching, Reconciling, Releasing
<1> QED BY <1>2, <1>3, <1>5, <1>6

(* What a response does to k.                                              *)
Effect(k, r, m) ==
    /\ client'[k].revision = client[k].revision
    /\ r.cmd \in {"create", "attach"} =>
           /\ Controls(k)' = {}
           /\ m.ok => client'[k].attached = m.attached /\ In(k, {"active"})' # {}
           /\ ~m.ok => client'[k].attached = client[k].attached /\ In(k, {"active"})' = In(k, {"active"})
    /\ r.cmd = "detach" /\ m.ok => client'[k].attached = FALSE /\ In(k, {"active"})' = {}

LEMMA PhaseCreated ==
    ASSUME Settled, Phases, NEW k \in Clients, NEW r \in pending, NEW m, Answered(k, r, m), ReceiveCreated(k, r, m)
    PROVE  Phases' /\ Effect(k, r, m)
<1> DEFINE l == r.lease
<1>1. /\ client[k] \in Client /\ Owned /\ Tidy(k) /\ LeaseInv
      /\ lease \in [Leases -> [state : LeaseStates, mode : {"shared", "exclusive"}]]
      /\ m.ok \in BOOLEAN /\ m.attached \in BOOLEAN
  BY ResponseFacts DEF Settled
<1>2. r.cmd = "create" /\ r.client = k /\ Engages(r)
  BY <1>1 DEF ReceiveCreated, Answered, Engages, LeaseInv, Engaged
<1>3. Creating(k, r) /\ \A q \in pending \ {r} : q.client = k => q.cmd = "op"
  BY <1>2, OneControl DEF Controls
<1>4. l \in Of(k) /\ l \in Leases
  BY <1>2, ResponseFacts DEF Settled
<1>5. Held(k) = {} /\ ~client[k].cleanup /\ client[k].count = 0
  BY <1>1, <1>3, FS_EmptySet DEF Creating, Tidy
<1>6. PICK cl : cl = [client[k] EXCEPT !.attached = IF m.ok THEN m.attached ELSE @]
  OBVIOUS
<1>7. /\ cl \in Client /\ cl.revision = client[k].revision /\ cl.cleanup = client[k].cleanup
      /\ cl.attached = IF m.ok THEN m.attached ELSE client[k].attached
  BY <1>1, <1>6 DEF Client
<1>8. pending' = pending \ {r}
  BY DEF ReceiveCreated
<1>9. Controls(k)' = {}
  BY <1>3, <1>8 DEF Controls
<1>10. CASE m.ok
  <2>1. client' = [client EXCEPT ![k] = Reserved(cl, l, "exclusive")] /\ lease' = Set({l}, "active")
    BY <1>5, <1>6, <1>10 DEF ReceiveCreated, MayReserve
  <2>2. lease'[l].state = "active" /\ \A x \in Leases : x # l => lease'[x] = lease[x]
    BY <1>1, <1>4, <2>1 DEF Set
  <2>3. Held(k)' = {l} /\ l \in In(k, {"active"})'
    BY <1>4, <1>5, <2>2 DEF Held, Of, In
  <2>4. client'[k] = Reserved(cl, l, "exclusive")
    BY <1>1, <2>1 DEF Owned
  <2>5. /\ client'[k].cleanup = client[k].cleanup /\ client'[k].revision = client[k].revision
        /\ client'[k].attached = m.attached
    BY <1>7, <1>10, <2>4, ClientKeeps
  <2>6. Phase(k)'
    BY <1>5, <1>9, <2>2, <2>3, <2>5 DEF Phase, Idle, Only
  <2>7. \A x \in Leases : x \notin Of(k) => lease'[x] = lease[x]
    BY <1>4, <2>2
  <2>8. Phases'
    BY <1>1, <1>2, <1>8, <2>1, <2>6, <2>7, PhaseStep
  <2> QED BY <1>2, <1>9, <1>10, <2>3, <2>5, <2>8 DEF Effect
<1>11. CASE ~m.ok
  <2>1. client' = [client EXCEPT ![k] = cl] /\ lease' = [lease EXCEPT ![l] = Free]
    BY <1>6, <1>11 DEF ReceiveCreated
  <2>2. lease'[l].state = "free" /\ \A x \in Leases : x # l => lease'[x] = lease[x]
    BY <1>1, <1>4, <2>1 DEF Free
  <2>3. Held(k)' = {} /\ In(k, {"active"}) = {} /\ In(k, {"active"})' = {}
    BY <1>5, <2>2 DEF Held, Of, In
  <2>4. client'[k] = cl
    BY <1>1, <2>1 DEF Owned
  <2>6. Phase(k)'
    BY <1>9, <2>3 DEF Phase, Idle, Only
  <2>7. \A x \in Leases : x \notin Of(k) => lease'[x] = lease[x]
    BY <1>4, <2>2
  <2>8. Phases'
    BY <1>1, <1>2, <1>8, <2>1, <2>6, <2>7, PhaseStep
  <2> QED BY <1>2, <1>7, <1>9, <1>11, <2>3, <2>4, <2>8 DEF Effect
<1> QED BY <1>1, <1>10, <1>11

LEMMA PhaseDone ==
    ASSUME Settled, Phases, NEW k \in Clients, NEW r \in pending, NEW m, Answered(k, r, m), ReceiveDone(k, r, m)
    PROVE  Phases' /\ Effect(k, r, m)
<1>1. client[k] \in Client /\ Owned
  BY ResponseFacts DEF Settled
<1>2. /\ r.cmd = "op" /\ pending' = pending \ {r} /\ lease' = lease
      /\ client' = [client EXCEPT ![k].attached = IF m.ok THEN m.attached ELSE @]
  BY DEF ReceiveDone
<1>3. client'[k].cleanup = client[k].cleanup /\ client'[k].revision = client[k].revision
      /\ \A j \in Clients : client'[j].cleanup = client[j].cleanup
  BY <1>1, <1>2 DEF Owned, Client
<1> QED BY <1>2, <1>3, PhasesSame DEF Effect

(* The leases that have waited together go on, or are given back.          *)
LEMMA TogetherFacts ==
    ASSUME Settled, NEW k \in Clients, NEW states, NEW next \in {"active", "attaching"},
           lease' = Set(In(k, states), next)
    PROVE  /\ \A x \in Leases : x \notin In(k, states) => lease'[x] = lease[x]
           /\ \A x \in In(k, states) : x \in Of(k) /\ x \in Leases /\ lease[x].state \in states
                                       /\ lease'[x].state = next
<1>1. lease \in [Leases -> [state : LeaseStates, mode : {"shared", "exclusive"}]]
  BY DEF Settled, LeaseInv
<1>2. \A x \in In(k, states) : x \in Of(k) /\ x \in Leases /\ lease[x].state \in states
  BY DEF In, Of
<1> QED BY <1>1, <1>2 DEF Set

LEMMA GivenBack ==
    ASSUME Settled, NEW k \in Clients, NEW states,
           lease' = [l \in Leases |-> IF l \in In(k, states) THEN Free ELSE lease[l]]
    PROVE  /\ \A x \in Leases : x \notin In(k, states) => lease'[x] = lease[x]
           /\ \A x \in In(k, states) : x \in Of(k) /\ x \in Leases /\ lease[x].state \in states
                                       /\ lease'[x].state = "free"
<1>2. \A x \in In(k, states) : x \in Of(k) /\ x \in Leases /\ lease[x].state \in states
  BY DEF In, Of
<1> QED BY <1>2 DEF Free

LEMMA PhaseAttached ==
    ASSUME Settled, Phases, NEW k \in Clients, NEW r \in pending, NEW m, Answered(k, r, m), ReceiveAttached(k, r, m)
    PROVE  Phases' /\ Effect(k, r, m)
<1>1. /\ client[k] \in Client /\ Owned /\ m.ok \in BOOLEAN /\ m.attached \in BOOLEAN
  BY ResponseFacts DEF Settled
<1>2. /\ r.cmd = "attach" /\ r.client = k /\ pending' = pending \ {r}
      /\ client' = [client EXCEPT ![k] = IF m.ok THEN [@ EXCEPT !.attached = m.attached]
                                         ELSE Released(@, In(k, {"attaching"}))]
  BY DEF ReceiveAttached, Answered
<1>3. Attaching(k, r) /\ \A q \in pending \ {r} : q.client = k => q.cmd = "op"
  BY <1>2, OneControl DEF Controls
<1>4. Controls(k)' = {}
  BY <1>2, <1>3 DEF Controls
<1>5. PICK cl : cl = IF m.ok THEN [client[k] EXCEPT !.attached = m.attached] ELSE Released(client[k], In(k, {"attaching"}))
  OBVIOUS
<1>6. /\ cl.cleanup = client[k].cleanup /\ cl.revision = client[k].revision
      /\ m.ok => cl.attached = m.attached
      /\ ~m.ok => cl.attached = client[k].attached
  <2>1. CASE m.ok
    BY <2>1, <1>1, <1>5 DEF Client
  <2>2. CASE ~m.ok
    BY <2>2, <1>1, <1>5, ClientKeeps
  <2> QED BY <2>1, <2>2
<1>7. client' = [client EXCEPT ![k] = cl] /\ client'[k] = cl
  BY <1>1, <1>2, <1>5 DEF Owned
<1>8. /\ \A x \in Leases : x \notin In(k, {"attaching"}) => lease'[x] = lease[x]
      /\ \A x \in In(k, {"attaching"}) : x \in Of(k) /\ x \in Leases /\ lease[x].state = "attaching"
                                         /\ lease'[x].state = IF m.ok THEN "active" ELSE "free"
  <2>1. CASE m.ok
    <3>1. lease' = Set(In(k, {"attaching"}), "active")
      BY <2>1 DEF ReceiveAttached
    <3> QED BY <3>1, <2>1, TogetherFacts
  <2>2. CASE ~m.ok
    <3>1. lease' = [l \in Leases |-> IF l \in In(k, {"attaching"}) THEN Free ELSE lease[l]]
      BY <2>2 DEF ReceiveAttached
    <3> QED BY <3>1, <2>2, GivenBack
  <2> QED BY <2>1, <2>2
<1>9. \A x \in Of(k) : /\ lease'[x].state \in {"free", "creating", "active"}
                       /\ lease[x].state = "active" => lease'[x].state = "active"
                       /\ lease'[x].state = "active" => lease[x].state = "active" \/ m.ok
  <2> SUFFICES ASSUME NEW x \in Of(k)
               PROVE  /\ lease'[x].state \in {"free", "creating", "active"}
                      /\ lease[x].state = "active" => lease'[x].state = "active"
                      /\ lease'[x].state = "active" => lease[x].state = "active" \/ m.ok
    OBVIOUS
  <2>1. CASE x \in In(k, {"attaching"})
    BY <2>1, <1>8
  <2>2. CASE x \notin In(k, {"attaching"})
    <3>1. lease'[x] = lease[x] /\ lease[x].state # "attaching"
      BY <2>2, <1>8 DEF In, Of
    <3>2. lease[x].state \in {"free", "creating", "active", "attaching"}
      BY <1>3 DEF Attaching, Only, Held
    <3> QED BY <3>1, <3>2
  <2> QED BY <2>1, <2>2
<1>10. Only(k, {"active"})'
  BY <1>9 DEF Only, Held, Of
<1>11. Phase(k)'
  BY <1>3, <1>4, <1>6, <1>7, <1>10 DEF Phase, Idle, Attaching
<1>12. Phases'
  <2>1. \A x \in Leases : x \notin Of(k) => lease'[x] = lease[x]
    BY <1>8
  <2> QED BY <1>1, <1>2, <1>7, <1>11, <2>1, PhaseStep
<1>13. m.ok => In(k, {"active"})' # {}
  <2>1. PICK x : x \in In(k, {"attaching"})
    BY <1>3 DEF Attaching
  <2>2. m.ok => x \in In(k, {"active"})'
    BY <2>1, <1>8 DEF In, Of
  <2> QED BY <2>2
<1>14. ~m.ok => In(k, {"active"})' = In(k, {"active"})
  BY <1>9 DEF In, Of
<1> QED BY <1>2, <1>4, <1>6, <1>7, <1>12, <1>13, <1>14 DEF Effect

LEMMA PhaseReconciled ==
    ASSUME Settled, Phases, NEW k \in Clients, NEW r \in pending, NEW m, Answered(k, r, m), ReceiveReconciled(k, r, m)
    PROVE  Phases' /\ Effect(k, r, m)
<1>1. client[k] \in Client /\ Owned /\ m.ok \in BOOLEAN
  BY ResponseFacts DEF Settled
<1>2. /\ r.cmd = "detach" /\ r.lease = None /\ r.client = k
      /\ client' = [client EXCEPT ![k] = IF m.ok THEN [@ EXCEPT !.attached = FALSE, !.cleanup = FALSE]
                                         ELSE Released(@, In(k, {"reconciling"}))]
      /\ lease' = IF m.ok THEN Set(In(k, {"reconciling"}), "attaching")
                  ELSE [l \in Leases |-> IF l \in In(k, {"reconciling"}) THEN Free ELSE lease[l]]
      /\ Asks(k, IF m.ok THEN "attaching" ELSE "active", pending \ {r})
  BY DEF ReceiveReconciled, Answered
<1>3. Reconciling(k, r) /\ \A q \in pending \ {r} : q.client = k => q.cmd = "op"
  BY <1>2, OneControl DEF Controls
<1>4. PICK cl : cl = IF m.ok THEN [client[k] EXCEPT !.attached = FALSE, !.cleanup = FALSE]
                     ELSE Released(client[k], In(k, {"reconciling"}))
  OBVIOUS
<1>5. cl.revision = client[k].revision /\ (m.ok => cl.attached = FALSE /\ cl.cleanup = FALSE)
  <2>1. CASE m.ok
    BY <2>1, <1>1, <1>4 DEF Client
  <2>2. CASE ~m.ok
    BY <2>2, <1>1, <1>4, ClientKeeps
  <2> QED BY <2>1, <2>2
<1>6. client' = [client EXCEPT ![k] = cl] /\ client'[k] = cl
  BY <1>1, <1>2, <1>4 DEF Owned
<1>7. /\ \A x \in Leases : x \notin In(k, {"reconciling"}) => lease'[x] = lease[x]
      /\ \A x \in In(k, {"reconciling"}) : x \in Of(k) /\ x \in Leases /\ lease[x].state = "reconciling"
                                           /\ lease'[x].state = IF m.ok THEN "attaching" ELSE "free"
  <2>1. CASE m.ok
    <3>1. lease' = Set(In(k, {"reconciling"}), "attaching")
      BY <1>2, <2>1
    <3> QED BY <3>1, <2>1, TogetherFacts
  <2>2. CASE ~m.ok
    <3>1. lease' = [l \in Leases |-> IF l \in In(k, {"reconciling"}) THEN Free ELSE lease[l]]
      BY <1>2, <2>2
    <3> QED BY <3>1, <2>2, GivenBack
  <2> QED BY <2>1, <2>2
<1>8. \A x \in Of(k) : lease'[x].state \in {"free", "creating", IF m.ok THEN "attaching" ELSE "free"}
  <2> SUFFICES ASSUME NEW x \in Of(k)
               PROVE  lease'[x].state \in {"free", "creating", IF m.ok THEN "attaching" ELSE "free"}
    OBVIOUS
  <2>1. CASE x \in In(k, {"reconciling"})
    BY <2>1, <1>7
  <2>2. CASE x \notin In(k, {"reconciling"})
    <3>1. lease'[x] = lease[x] /\ lease[x].state # "reconciling"
      BY <2>2, <1>7 DEF In, Of
    <3>2. lease[x].state \in {"free", "creating", "reconciling"}
      BY <1>3 DEF Reconciling, Only, Held
    <3> QED BY <3>1, <3>2
  <2> QED BY <2>1, <2>2
<1>9. In(k, {"active"})' = {}
  BY <1>8 DEF In, Of
<1>10. \A x : x.client # k => (x \in pending' <=> x \in pending)
  BY <1>2, AsksFacts
<1>11. Phase(k)'
  <2>1. CASE m.ok
    <3>1. ~IsAsked(k, "attaching", pending \ {r})
      BY <1>3 DEF IsAsked, Wanted
    <3>2. PICK q : q.client = k /\ q.cmd = "attach" /\ q.lease = None /\ pending' = (pending \ {r}) \cup {q}
      <4>1. Asks(k, "attaching", pending \ {r})
        BY <1>2, <2>1
      <4> QED BY <3>1, <4>1, AsksFacts DEF Wanted
    <3>3. Controls(k)' = {q}
      BY <1>3, <3>2 DEF Controls
    <3>4. PICK x : x \in In(k, {"reconciling"})
      BY <1>3 DEF Reconciling
    <3>5. x \in In(k, {"attaching"})'
      BY <2>1, <3>4, <1>7 DEF In, Of
    <3>6. Only(k, {"active", "attaching"})'
      BY <2>1, <1>8 DEF Only, Held, Of
    <3>7. Attaching(k, q)'
      BY <2>1, <3>2, <3>5, <3>6, <1>5, <1>6 DEF Attaching
    <3> QED BY <3>3, <3>7 DEF Phase
  <2>2. CASE ~m.ok
    <3>1. pending' = pending \ {r}
      BY <2>2, <1>2 DEF Asks
    <3>2. Controls(k)' = {}
      BY <1>3, <3>1 DEF Controls
    <3>3. Held(k)' = {}
      BY <2>2, <1>8 DEF Held, Of
    <3> QED BY <3>2, <3>3 DEF Phase, Idle, Only
  <2> QED BY <2>1, <2>2
<1>12. Phases'
  <2>1. \A x \in Leases : x \notin Of(k) => lease'[x] = lease[x]
    BY <1>7
  <2> QED BY <1>1, <1>2, <1>6, <1>10, <1>11, <2>1, PhaseStep
<1> QED BY <1>2, <1>5, <1>6, <1>9, <1>12 DEF Effect

LEMMA PhaseDetached ==
    ASSUME Settled, Phases, NEW k \in Clients, NEW r \in pending, NEW m, Answered(k, r, m), ReceiveDetached(k, r, m)
    PROVE  Phases' /\ Effect(k, r, m)
<1> DEFINE l == r.lease
           again == ~m.ok /\ lease[l].state = "detaching"
           waiting == In(k, {"waiting"})
<1>1. /\ client[k] \in Client /\ Owned /\ m.ok \in BOOLEAN
      /\ lease \in [Leases -> [state : LeaseStates, mode : {"shared", "exclusive"}]]
  BY ResponseFacts DEF Settled
<1>2. PICK cl : cl = [client[k] EXCEPT !.attached = @ /\ ~m.ok, !.cleanup = @ \/ (~m.ok /\ ~again)]
  OBVIOUS
<1>3. PICK st : st = Step(cl)
  OBVIOUS
<1>4. /\ r.cmd = "detach" /\ l # None /\ r.client = k
      /\ client' = [client EXCEPT ![k] = IF again THEN cl ELSE Released(cl, {l})]
      /\ Asks(k, IF waiting = {} THEN "active" ELSE st, pending \ {r})
  BY <1>2, <1>3 DEF ReceiveDetached, Answered
<1>5. lease' = [x \in Leases |->
                   CASE x = l -> IF again THEN [lease[l] EXCEPT !.state = "active"] ELSE Free
                     [] x \in waiting -> [lease[x] EXCEPT !.state = st]
                     [] OTHER -> lease[x]]
  BY <1>2, <1>3 DEF ReceiveDetached
<1>6. Releasing(k, r) /\ \A q \in pending \ {r} : q.client = k => q.cmd = "op"
  BY <1>4, OneControl DEF Controls
<1>7. /\ l \in Of(k) /\ l \in Leases /\ lease[l].state \in {"detaching", "disposing"} /\ l \notin waiting /\ ~client[k].cleanup
      /\ waiting \subseteq Of(k) /\ waiting \subseteq Leases
      /\ \A x \in Of(k) : x = l \/ x \in waiting \/ lease[x].state \in {"free", "creating"}
  BY <1>6 DEF Releasing, In, Of, Held
<1>8. /\ cl \in Client /\ cl.revision = client[k].revision
      /\ cl.attached = (client[k].attached /\ ~m.ok) /\ cl.cleanup = (~m.ok /\ ~again)
  BY <1>1, <1>2, <1>7 DEF Client
<1>9. /\ st \in {"reconciling", "active", "attaching"}
      /\ st = "reconciling" <=> cl.cleanup
      /\ m.ok => st = "attaching"
      /\ again => st \in {"active", "attaching"}
  BY <1>3, <1>8 DEF Step
<1>10. m.ok => ~again
  OBVIOUS
<1> HIDE DEF l, again, waiting
<1>11. /\ lease'[l].state = IF again THEN "active" ELSE "free"
       /\ \A x \in waiting : lease'[x].state = st
       /\ \A x \in Leases : x # l /\ x \notin waiting => lease'[x] = lease[x]
  <2>1. lease'[l] = IF again THEN [lease[l] EXCEPT !.state = "active"] ELSE Free
    BY <1>5, <1>7
  <2>2. \A x \in waiting : lease'[x] = [lease[x] EXCEPT !.state = st]
    BY <1>5, <1>7
  <2>3. \A x \in Leases : x # l /\ x \notin waiting => lease'[x] = lease[x]
    BY <1>5
  <2>4. lease'[l].state = IF again THEN "active" ELSE "free"
    BY <1>1, <1>7, <2>1 DEF Free
  <2>5. ASSUME NEW x \in waiting PROVE lease'[x].state = st
    <3>1. x \in Leases /\ lease'[x] = [lease[x] EXCEPT !.state = st]
      BY <1>7, <2>2
    <3>2. lease[x] \in [state : LeaseStates, mode : {"shared", "exclusive"}]
      BY <1>1, <3>1
    <3> QED BY <3>1, <3>2
  <2> QED BY <2>3, <2>4, <2>5
<1>12. PICK u : u = IF again THEN cl ELSE Released(cl, {l})
  OBVIOUS
<1>13. u.cleanup = cl.cleanup /\ u.attached = cl.attached /\ u.revision = client[k].revision
  BY <1>8, <1>12, ClientKeeps
<1>14. client' = [client EXCEPT ![k] = u] /\ client'[k] = u
  BY <1>1, <1>4, <1>12 DEF Owned
<1>15. \A x : x.client # k => (x \in pending' <=> x \in pending)
  BY <1>4, AsksFacts
<1>16. \A x \in Held(k)' : \/ x = l /\ again
                           \/ x \in waiting /\ lease'[x].state = st
  BY <1>7, <1>11 DEF Held, Of
<1>17. again => lease'[l].state = "active"
  BY <1>11
<1>18. ASSUME waiting = {} \/ st = "active" PROVE Phase(k)'
  <2>1. pending' = pending \ {r}
    BY <1>4, <1>18 DEF Asks
  <2>2. Controls(k)' = {}
    BY <1>6, <2>1 DEF Controls
  <2>3. Only(k, {"active"})'
    BY <1>16, <1>17, <1>18 DEF Only
  <2>4. client'[k].cleanup => Held(k)' = {}
    <3>1. client'[k].cleanup => ~again /\ st = "reconciling"
      BY <1>8, <1>9, <1>13, <1>14
    <3> QED BY <3>1, <1>16, <1>18
  <2> QED BY <2>2, <2>3, <2>4 DEF Phase, Idle
<1>19. ASSUME waiting # {}, st # "active" PROVE Phase(k)'
  <2>1. ~IsAsked(k, st, pending \ {r})
    BY <1>6 DEF IsAsked, Wanted
  <2>2. Asks(k, st, pending \ {r})
    BY <1>4, <1>19
  <2>3. PICK q : q.client = k /\ q.cmd = Wanted(st) /\ q.lease = None /\ pending' = (pending \ {r}) \cup {q}
    BY <1>9, <1>19, <2>1, <2>2, AsksFacts
  <2>4. q.cmd \in {"attach", "detach"}
    BY <2>3 DEF Wanted
  <2>5. Controls(k)' = {q}
    BY <1>6, <2>3, <2>4 DEF Controls
  <2>6. PICK x : x \in waiting
    BY <1>19
  <2>7. x \in Of(k) /\ lease'[x].state = st
    BY <1>7, <1>11, <2>6
  <2>8. CASE st = "attaching"
    <3>1. q.cmd = "attach" /\ x \in In(k, {"attaching"})'
      BY <2>3, <2>7, <2>8 DEF Wanted, In, Of
    <3>2. Only(k, {"active", "attaching"})'
      BY <1>16, <1>17, <2>8 DEF Only
    <3>3. ~client'[k].cleanup
      BY <1>9, <1>13, <1>14, <2>8
    <3> QED BY <2>3, <2>5, <3>1, <3>2, <3>3 DEF Phase, Attaching
  <2>9. CASE st = "reconciling"
    <3>1. q.cmd = "detach" /\ x \in In(k, {"reconciling"})'
      BY <2>3, <2>7, <2>9 DEF Wanted, In, Of
    <3>2. Only(k, {"reconciling"})' /\ client'[k].cleanup
      <4>1. ~again /\ cl.cleanup
        BY <1>9, <2>9
      <4> QED BY <4>1, <1>13, <1>14, <1>16, <2>9 DEF Only
    <3> QED BY <2>3, <2>5, <3>1, <3>2 DEF Phase, Reconciling
  <2> QED BY <1>9, <1>19, <2>8, <2>9
<1>20. Phases'
  <2>1. Phase(k)'
    BY <1>18, <1>19
  <2>2. \A x \in Leases : x \notin Of(k) => lease'[x] = lease[x]
    BY <1>7, <1>11
  <2> QED BY <1>1, <1>14, <1>15, <2>1, <2>2, PhaseStep
<1>21. client'[k].revision = client[k].revision
  BY <1>13, <1>14
<1>22. m.ok => client'[k].attached = FALSE
  BY <1>8, <1>13, <1>14
<1>23. m.ok => In(k, {"active"})' = {}
  <2> SUFFICES ASSUME m.ok, NEW x \in Of(k), lease'[x].state = "active" PROVE FALSE
    BY DEF In, Of
  <2>1. st = "attaching" /\ ~again
    BY <1>9, <1>10
  <2>2. x \in Leases
    BY DEF Of
  <2> QED BY <2>1, <2>2, <1>7, <1>11
<1> QED BY <1>4, <1>20, <1>21, <1>22, <1>23 DEF Effect

LEMMA PhaseReceiveResponse ==
    ASSUME Settled, Phases, NEW k \in Clients, NEW r \in pending, NEW m, Answered(k, r, m),
           \/ ReceiveCreated(k, r, m) \/ ReceiveDone(k, r, m) \/ ReceiveAttached(k, r, m)
           \/ ReceiveDetached(k, r, m) \/ ReceiveReconciled(k, r, m)
    PROVE  Phases' /\ Effect(k, r, m)
BY PhaseCreated, PhaseDone, PhaseAttached, PhaseDetached, PhaseReconciled

LEMMA PhaseNext ==
    ASSUME Settled, Unstored, Phases, [Next]_vars
    PROVE  Phases'
<1>1. CASE UNCHANGED clientVars
  BY <1>1, PhasesSame DEF clientVars
<1>2. ASSUME NEW k \in Clients, ReceiveResponse(k) PROVE Phases'
  <2>1. PICK r \in pending, m \in ToSet(toClient[client[k].conn]) :
        /\ Answered(k, r, m)
        /\ \/ ReceiveCreated(k, r, m) \/ ReceiveDone(k, r, m) \/ ReceiveAttached(k, r, m)
           \/ ReceiveDetached(k, r, m) \/ ReceiveReconciled(k, r, m)
    BY <1>2 DEF ReceiveResponse
  <2> QED BY <2>1, PhaseReceiveResponse
<1>3. ASSUME Users PROVE Phases'
  BY <1>3, PhaseLeaves, PhaseConnects, PhaseCreates, PhaseRequests, PhaseAcquires, PhaseReleases DEF Users
<1>4. ASSUME Arrival PROVE Phases'
  BY <1>1, <1>2, <1>4, PhaseReceiveEvent, PhaseLeaves DEF Arrival, Receive
<1> QED BY <1>1, <1>3, <1>4 DEF Next, Server, vars

-----------------------------------------------------------------------------
(* Before the session is stored it can only be created.                    *)

LEMMA UnstoredFacts ==
    ASSUME Settled, Unstored, ~stored
    PROVE  /\ lives = <<>> /\ live = 0 /\ opening # "snapshot" /\ DOMAIN lives = {}
           /\ \A t \in tasks : t.at = "opening"
           /\ \A l \in Leases : lease[l].state \in {"free", "creating"}
           /\ \A k \in Clients : ~client[k].cleanup
           /\ \A r \in pending : r.cmd = "create"
           /\ \A c \in Conns : \A q \in ToSet(toServer[c]) : q.cmd = "create"
           /\ \A c \in Conns : \A m \in ToSet(toClient[c]) : m.type = "response" => ~m.ok
<1>1. lives = <<>> /\ DOMAIN lives = {}
  BY DEF Unstored
<1>2. live = 0
  BY <1>1 DEF Settled, RuntimeInv, Shape
<1>3. \A t \in tasks : t.at = "opening"
  BY <1>1 DEF Settled, RuntimeInv, Shape
<1> QED BY <1>1, <1>2, <1>3 DEF Unstored

(* What the responses of a step are.                                       *)
AnswersOne(ts, c, m) == m.type = "response" /\ \E t \in ts : c = t.conn /\ m.id = t.id
Rejects(ts, c, m) == AnswersOne(ts, c, m) /\ ~m.ok /\ ~m.attached
Grants(ts, c, m) == AnswersOne(ts, c, m) /\ m.ok /\ ~m.attached

LEMMA RejectedAre ==
    ASSUME NEW ts, IsFiniteSet(ts), \A t \in ts : t.id \in Nat, NEW ms, ms = Responses(ts, FALSE, FALSE)
    PROVE  /\ DOMAIN ms = {t.conn : t \in ts}
           /\ \A c \in DOMAIN ms : ms[c] \in Seq(Message) /\ \A m \in ToSet(ms[c]) : Rejects(ts, c, m)
<1>1. PICK z : z = [t \in ts |-> Response(t, FALSE, FALSE)]
  OBVIOUS
<1>2. \A t \in ts : z[t] = Response(t, FALSE, FALSE)
  BY <1>1
<1>3. ASSUME NEW t \in ts
      PROVE  z[t] \in Message /\ z[t].type = "response" /\ ~z[t].ok /\ ~z[t].attached /\ z[t].id = t.id
  <2>1. PICK m : m = [type |-> "response", id |-> t.id, ok |-> FALSE, attached |-> FALSE]
    OBVIOUS
  <2>2. m \in Message /\ m.type = "response" /\ ~m.ok /\ ~m.attached /\ m.id = t.id
    BY <2>1 DEF Message
  <2> QED BY <1>2, <2>1, <2>2 DEF Response
<1>4. DOMAIN ms = {t.conn : t \in ts}
  BY DEF Responses
<1>5. ASSUME NEW c \in {t.conn : t \in ts}
      PROVE  /\ ms[c] \in Seq(Message)
             /\ \A m \in ToSet(ms[c]) : \E t \in ts : c = t.conn /\ m = z[t]
  <2>1. PICK S : S = {t \in ts : t.conn = c}
    OBVIOUS
  <2>2. PICK f : f = SetToSeq(S)
    OBVIOUS
  <2>3. IsFiniteSet(S) /\ S \subseteq ts /\ \A t \in S : t.conn = c
    BY <2>1, FS_Subset
  <2>4. f \in Seq(S)
    BY <2>2, <2>3, AllInSequence
  <2>5. \A i \in DOMAIN f : f[i] \in ts
    BY <2>3, <2>4
  <2>6. PICK g : g = [i \in DOMAIN f |-> Response(f[i], FALSE, FALSE)]
    OBVIOUS
  <2>7. ms[c] = g
    BY <2>1, <2>2, <2>6 DEF Responses
  <2>8. \A i \in DOMAIN f : g[i] = z[f[i]] /\ z[f[i]] \in Message
    BY <1>2, <1>3, <2>5, <2>6
  <2>9. DOMAIN f = 1..Len(f) /\ Len(f) \in Nat /\ \A i \in DOMAIN f : f[i] \in S
    BY <2>4
  <2>10. g \in Seq(Message)
    <3>1. DOMAIN g = 1..Len(f) /\ g = [i \in 1..Len(f) |-> g[i]] /\ \A i \in 1..Len(f) : g[i] \in Message
      BY <2>6, <2>8, <2>9
    <3> QED BY <2>9, <3>1
  <2>11. ASSUME NEW m \in ToSet(g) PROVE \E t \in S : m = z[t]
    <3>1. PICK i \in DOMAIN f : m = z[f[i]]
      BY <2>6, <2>8, <2>11 DEF ToSet
    <3> QED BY <2>9, <3>1
  <2> QED BY <2>3, <2>7, <2>10, <2>11
<1>6. ASSUME NEW c \in DOMAIN ms, NEW m \in ToSet(ms[c]) PROVE Rejects(ts, c, m)
  <2>1. PICK t \in ts : c = t.conn /\ m = z[t]
    BY <1>4, <1>5, <1>6
  <2> QED BY <1>3, <2>1 DEF Rejects, AnswersOne
<1> QED BY <1>4, <1>5, <1>6

LEMMA GrantedAre ==
    ASSUME NEW ts, IsFiniteSet(ts), \A t \in ts : t.id \in Nat, NEW ms, ms = Responses(ts, TRUE, FALSE)
    PROVE  /\ DOMAIN ms = {t.conn : t \in ts}
           /\ \A c \in DOMAIN ms : ms[c] \in Seq(Message) /\ \A m \in ToSet(ms[c]) : Grants(ts, c, m)
<1>1. PICK z : z = [t \in ts |-> Response(t, TRUE, FALSE)]
  OBVIOUS
<1>2. \A t \in ts : z[t] = Response(t, TRUE, FALSE)
  BY <1>1
<1>3. ASSUME NEW t \in ts
      PROVE  z[t] \in Message /\ z[t].type = "response" /\ z[t].ok /\ ~z[t].attached /\ z[t].id = t.id
  <2>1. PICK m : m = [type |-> "response", id |-> t.id, ok |-> TRUE, attached |-> FALSE]
    OBVIOUS
  <2>2. m \in Message /\ m.type = "response" /\ m.ok /\ ~m.attached /\ m.id = t.id
    BY <2>1 DEF Message
  <2> QED BY <1>2, <2>1, <2>2 DEF Response
<1>4. DOMAIN ms = {t.conn : t \in ts}
  BY DEF Responses
<1>5. ASSUME NEW c \in {t.conn : t \in ts}
      PROVE  /\ ms[c] \in Seq(Message)
             /\ \A m \in ToSet(ms[c]) : \E t \in ts : c = t.conn /\ m = z[t]
  <2>1. PICK S : S = {t \in ts : t.conn = c}
    OBVIOUS
  <2>2. PICK f : f = SetToSeq(S)
    OBVIOUS
  <2>3. IsFiniteSet(S) /\ S \subseteq ts /\ \A t \in S : t.conn = c
    BY <2>1, FS_Subset
  <2>4. f \in Seq(S)
    BY <2>2, <2>3, AllInSequence
  <2>5. \A i \in DOMAIN f : f[i] \in ts
    BY <2>3, <2>4
  <2>6. PICK g : g = [i \in DOMAIN f |-> Response(f[i], TRUE, FALSE)]
    OBVIOUS
  <2>7. ms[c] = g
    BY <2>1, <2>2, <2>6 DEF Responses
  <2>8. \A i \in DOMAIN f : g[i] = z[f[i]] /\ z[f[i]] \in Message
    BY <1>2, <1>3, <2>5, <2>6
  <2>9. DOMAIN f = 1..Len(f) /\ Len(f) \in Nat /\ \A i \in DOMAIN f : f[i] \in S
    BY <2>4
  <2>10. g \in Seq(Message)
    <3>1. DOMAIN g = 1..Len(f) /\ g = [i \in 1..Len(f) |-> g[i]] /\ \A i \in 1..Len(f) : g[i] \in Message
      BY <2>6, <2>8, <2>9
    <3> QED BY <2>9, <3>1
  <2>11. ASSUME NEW m \in ToSet(g) PROVE \E t \in S : m = z[t]
    <3>1. PICK i \in DOMAIN f : m = z[f[i]]
      BY <2>6, <2>8, <2>11 DEF ToSet
    <3> QED BY <2>9, <3>1
  <2> QED BY <2>3, <2>7, <2>10, <2>11
<1>6. ASSUME NEW c \in DOMAIN ms, NEW m \in ToSet(ms[c]) PROVE Grants(ts, c, m)
  <2>1. PICK t \in ts : c = t.conn /\ m = z[t]
    BY <1>4, <1>5, <1>6
  <2> QED BY <1>3, <2>1 DEF Grants, AnswersOne
<1> QED BY <1>4, <1>5, <1>6

(* The messages that a step sends.                                         *)
LEMMA SendIs ==
    ASSUME toClient \in [Conns -> Seq(Message)], NEW ms, Send(ms), NEW c \in Conns,
           c \in DOMAIN ms => ms[c] \in Seq(Message)
    PROVE  \E x \in Seq(Message) : toClient'[c] = toClient[c] \o x
                                   /\ (x # <<>> => c \in DOMAIN ms /\ Open(c) /\ x = ms[c])
<1>1. toClient'[c] = IF c \in DOMAIN ms /\ Open(c) THEN toClient[c] \o ms[c] ELSE toClient[c]
  BY DEF Send
<1>2. toClient[c] = toClient[c] \o <<>> /\ <<>> \in Seq(Message)
  OBVIOUS
<1>3. CASE c \in DOMAIN ms /\ Open(c)
  <2>1. toClient'[c] = toClient[c] \o ms[c] /\ ms[c] \in Seq(Message)
    BY <1>1, <1>3
  <2> QED BY <2>1, <1>3
<1>4. CASE ~(c \in DOMAIN ms /\ Open(c))
  BY <1>1, <1>2, <1>4
<1> QED BY <1>3, <1>4

LEMMA UnstoredStep ==
    ASSUME Settled, Unstored, ~stored' => ~stored /\ lives' = <<>> /\ opening' # "snapshot",
           ~stored' => /\ \A l \in Leases : lease'[l].state \in {"free", "creating"}
                       /\ \A k \in Clients : ~client'[k].cleanup
                       /\ \A r \in pending' : r \in pending \/ r.cmd = "create"
                       /\ \A c \in Conns : \A q \in ToSet(toServer'[c]) : q \in ToSet(toServer[c]) \/ q.cmd = "create"
                       /\ \A c \in Conns : \A m \in ToSet(toClient'[c]) :
                              m.type = "response" => m \in ToSet(toClient[c]) \/ ~m.ok
    PROVE  Unstored'
BY UnstoredFacts DEF Unstored

(* A step of the server before that sends no answer but errors.            *)
LEMMA UnstoredServes ==
    ASSUME Settled, Unstored, UNCHANGED <<stored, lives>>, UNCHANGED clientVars, opening' # "snapshot" \/ opening' = opening,
           \A c \in Conns : ToSet(toServer'[c]) \subseteq ToSet(toServer[c]),
           \/ UNCHANGED toClient
           \/ \E ms : /\ Send(ms)
                      /\ \A c \in Conns : c \in DOMAIN ms =>
                             ms[c] \in Seq(Message) /\ \A m \in ToSet(ms[c]) : m.type = "response" => ~m.ok
    PROVE  Unstored'
<1>1. toClient \in [Conns -> Seq(Message)]
  BY DEF Settled, AnswerInv, Sent
<1>2. ASSUME NEW c \in Conns, NEW m \in ToSet(toClient'[c]), m.type = "response"
      PROVE  m \in ToSet(toClient[c]) \/ ~m.ok
  <2>1. CASE UNCHANGED toClient
    BY <1>2, <2>1
  <2>2. ASSUME NEW ms, Send(ms),
               \A d \in Conns : d \in DOMAIN ms =>
                   ms[d] \in Seq(Message) /\ \A n \in ToSet(ms[d]) : n.type = "response" => ~n.ok
        PROVE  m \in ToSet(toClient[c]) \/ ~m.ok
    <3>1. PICK x \in Seq(Message) : toClient'[c] = toClient[c] \o x /\ (x # <<>> => c \in DOMAIN ms /\ x = ms[c])
      BY <1>1, <2>2, SendIs
    <3>2. m \in ToSet(toClient[c]) \/ m \in ToSet(x)
      BY <1>1, <1>2, <3>1, SeqFacts
    <3>3. ToSet(<<>>) = {}
      BY DEF ToSet
    <3> QED BY <1>2, <2>2, <3>1, <3>2, <3>3
  <2> QED BY <2>1, <2>2
<1>3. ~stored' => ~stored /\ lives' = <<>> /\ opening' # "snapshot"
  BY UnstoredFacts
<1>4. UNCHANGED <<client, lease, pending>>
  BY DEF clientVars
<1> QED BY <1>2, <1>3, <1>4, UnstoredStep, UnstoredFacts

LEMMA UnstoredServer ==
    ASSUME Settled, Unstored, Server, ~stored'
    PROVE  Unstored'
<1>1. ~stored
  BY DEF Server, ServerGoes, ServerFails, SendHello, CatchUp, Gone, Break, ServerDisconnect, Acquired, Opened, OpenFails,
         CloseSessions, SendSnapshot, FinishAttach, AttachFails, FinishTelling, FinishOperation, RunEnds, Terminate,
         Disposed, Close, sessions
<1>2. UNCHANGED clientVars /\ lives = <<>> /\ live = 0 /\ opening # "snapshot" /\ DOMAIN lives = {}
      /\ \A t \in tasks : t.at = "opening"
  BY <1>1, UnstoredFacts DEF Server
<1>3. toClient \in [Conns -> Seq(Message)] /\ handshake \in [Conns -> Making \cup {None}] /\ revision \in Nat
      /\ \A c \in Conns : stage[c] = "handshaking" => handshake[c] \in Making
  BY DEF Settled, AnswerInv, Sent
<1>4. toServer \in [Conns -> Seq(Request)] /\ tasks \subseteq ServerTask /\ IsFiniteSet(tasks)
  BY DEF Settled, RuntimeInv, Shape, AnswerInv, Working
<1>5. ASSUME NEW c \in Conns, NEW m \in Message, m.type # "response"
      PROVE  \A d \in Conns : d \in DOMAIN [x \in {c} |-> <<m>>] =>
                /\ [x \in {c} |-> <<m>>][d] \in Seq(Message)
                /\ \A n \in ToSet([x \in {c} |-> <<m>>][d]) : n.type = "response" => ~n.ok
  BY <1>5, SingleFacts
<1>6. ASSUME NEW c \in Conns, SendHello(c) PROVE Unstored'
  <2>1. UNCHANGED <<stored, lives, opening, toServer>> /\ stage[c] = "handshaking"
        /\ Send([x \in {c} |-> <<[Snapshot(handshake[c].revision, FALSE) EXCEPT !.type = "hello"]>>])
    BY <1>6 DEF SendHello, sessions
  <2>2. PICK m : m = [Snapshot(handshake[c].revision, FALSE) EXCEPT !.type = "hello"]
    OBVIOUS
  <2>3. m \in Message /\ m.type = "hello"
    BY <1>3, <2>1, <2>2 DEF Snapshot, Message, Making
  <2>4. Send([x \in {c} |-> <<m>>])
    BY <2>1, <2>2
  <2> QED BY <1>2, <1>5, <2>1, <2>3, <2>4, UnstoredServes
<1>7. ASSUME NEW c \in Conns, CatchUp(c) PROVE Unstored'
  <2>1. UNCHANGED <<stored, lives, opening, toServer>> /\ handshake[c] \in Making
    BY <1>3, <1>7 DEF CatchUp, sessions
  <2>2. PICK m : m = Snapshot(handshake[c].revision, handshake[c].attached)
    OBVIOUS
  <2>3. m \in Message /\ m.type = "server"
    BY <2>1, <2>2 DEF Snapshot, Message, Making
  <2>4. UNCHANGED toClient \/ Send([x \in {c} |-> <<m>>])
    BY <1>7, <2>2 DEF CatchUp
  <2> QED BY <1>2, <1>5, <2>1, <2>3, <2>4, UnstoredServes
<1>8. ASSUME SendSnapshot PROVE Unstored'
  <2>1. UNCHANGED <<stored, lives, opening, toServer>> /\ broadcast # None
    BY <1>8 DEF SendSnapshot, sessions
  <2>2. PICK ms : ms = [c \in broadcast.to |-> <<Snapshot(broadcast.revision, Listed(c))>>]
    OBVIOUS
  <2>3. Send(ms)
    BY <1>8, <2>2 DEF SendSnapshot
  <2>4. ASSUME NEW d \in Conns, d \in DOMAIN ms
        PROVE  ms[d] \in Seq(Message) /\ \A n \in ToSet(ms[d]) : n.type = "response" => ~n.ok
    <3>1. PICK m : m = Snapshot(broadcast.revision, Listed(d))
      OBVIOUS
    <3>2. broadcast.revision \in Nat /\ Listed(d) \in BOOLEAN
      BY <2>1 DEF Settled, AnswerInv, Sent, Listed
    <3>3. m \in Message /\ m.type = "server"
      BY <3>1, <3>2 DEF Snapshot, Message
    <3>4. ms[d] = <<m>>
      BY <2>2, <2>4, <3>1
    <3> QED BY <3>3, <3>4, SingleFacts
  <2> QED BY <1>2, <2>1, <2>3, <2>4, UnstoredServes
<1>9. ASSUME OpenFails PROVE Unstored'
  <2>1. UNCHANGED <<stored, lives, toServer>> /\ opening' = "no" /\ Send(Responses(Opening, FALSE, FALSE))
    BY <1>9 DEF OpenFails, Rejected
  <2>2. Opening \subseteq ServerTask /\ IsFiniteSet(Opening)
    BY <1>4, FS_Subset DEF Opening
  <2>3. PICK ms : ms = Responses(Opening, FALSE, FALSE)
    OBVIOUS
  <2>4. \A d \in DOMAIN ms : ms[d] \in Seq(Message) /\ \A n \in ToSet(ms[d]) : n.type = "response" => ~n.ok
    <3>1. \A t \in Opening : t.id \in Nat
      BY <2>2 DEF ServerTask
    <3> QED BY <2>2, <2>3, <3>1, RejectedAre DEF Rejects, AnswersOne
  <2> QED BY <1>2, <2>1, <2>3, <2>4, UnstoredServes
<1>10. ASSUME NEW c \in Conns, ServerDisconnect(c) PROVE Unstored'
  <2>1. UNCHANGED <<stored, opening, toClient>> /\ lives' = lives /\ toServer' = [toServer EXCEPT ![c] = <<>>]
    BY <1>2, <1>10 DEF ServerDisconnect
  <2>2. \A d \in Conns : ToSet(toServer'[d]) \subseteq ToSet(toServer[d])
    BY <1>4, <2>1 DEF ToSet
  <2> QED BY <1>2, <2>1, <2>2, UnstoredServes
<1>11. ASSUME Close PROVE Unstored'
  <2>1. UNCHANGED <<stored, opening, toClient, lives, toServer>>
    BY <1>11 DEF Close, sessions, wires
  <2> QED BY <1>2, <2>1, UnstoredServes
<1>12. ~CloseSessions /\ ~Acquired /\ ~Opened
  BY <1>2 DEF CloseSessions, Acquired, Opened
<1>13. \A t \in tasks : ~FinishAttach(t) /\ ~FinishTelling(t) /\ ~FinishOperation(t) /\ ~AttachFails(t)
  BY <1>2 DEF FinishAttach, FinishTelling, FinishOperation, AttachFails
<1>14. closed \subseteq Conns
  BY DEF Settled, AnswerInv, Owned
<1> QED BY <1>2, <1>6, <1>7, <1>8, <1>9, <1>10, <1>11, <1>12, <1>13, <1>14 DEF Server, ServerGoes, ServerFails, Gone, Break

LEMMA UnstoredDispatch ==
    ASSUME Settled, Unstored, NEW c \in Conns, Dispatch(c), UNCHANGED clientVars, ~stored'
    PROVE  Unstored'
<1>1. PICK r : r = Head(toServer[c])
  OBVIOUS
<1>2. /\ toServer' = [toServer EXCEPT ![c] = Tail(@)] /\ toServer[c] # <<>>
      /\ \/ r.cmd \in {"create", "attach"} /\ Acquire(r, c)
         \/ r.cmd = "detach" /\ Detach(r, c)
         \/ r.cmd = "op" /\ Operate(r, c)
  BY <1>1 DEF Dispatch
<1>3. toServer \in [Conns -> Seq(Request)]
  BY DEF Settled, RuntimeInv, Shape
<1>4. r \in ToSet(toServer[c]) /\ \A d \in Conns : ToSet(toServer'[d]) \subseteq ToSet(toServer[d])
  <2>1. r \in ToSet(toServer[c]) /\ ToSet(Tail(toServer[c])) \subseteq ToSet(toServer[c])
    BY <1>1, <1>2, <1>3, TailFacts
  <2> QED BY <2>1, <1>2, <1>3
<1>5. UNCHANGED stored
  BY <1>2 DEF Acquire, Detach, Operate
<1>6. live = 0 /\ r.cmd = "create"
  BY <1>4, <1>5, UnstoredFacts
<1>7. lives' = lives /\ toClient' = toClient /\ (opening' = "acquiring" \/ opening' = opening)
  BY <1>2, <1>6 DEF Acquire, MayOpen
<1> QED BY <1>4, <1>5, <1>7, UnstoredServes

(* A client's step before that receives no answer but errors.              *)
LEMMA UnstoredAsks ==
    ASSUME Settled, Unstored, UNCHANGED <<stored, lives, opening>>,
           ~stored => /\ \A l \in Leases : lease'[l] = lease[l] \/ lease'[l].state \in {"free", "creating"}
                      /\ \A k \in Clients : ~client'[k].cleanup
                      /\ \A c \in Conns : ToSet(toClient'[c]) \subseteq ToSet(toClient[c])
                      /\ \/ toServer' = toServer /\ pending' \subseteq pending
                         \/ \E k \in Clients, l \in Leases : client[k].connected /\ Requested(k, "create", l, pending)
    PROVE  Unstored'
<1>0. CASE stored
  BY <1>0 DEF Unstored
<1>1. CASE ~stored
  <2>1. \A l \in Leases : lease'[l].state \in {"free", "creating"}
    BY <1>1, UnstoredFacts
  <2>2. /\ \A r \in pending' : r \in pending \/ r.cmd = "create"
        /\ \A c \in Conns : \A q \in ToSet(toServer'[c]) : q \in ToSet(toServer[c]) \/ q.cmd = "create"
    <3>1. CASE toServer' = toServer /\ pending' \subseteq pending
      BY <3>1
    <3>2. ASSUME NEW k \in Clients, NEW l \in Leases, client[k].connected, Requested(k, "create", l, pending)
          PROVE  /\ \A r \in pending' : r \in pending \/ r.cmd = "create"
                 /\ \A c \in Conns : \A q \in ToSet(toServer'[c]) : q \in ToSet(toServer[c]) \/ q.cmd = "create"
      <4>1. PICK r : r = [id |-> lastRequest + 1, cmd |-> "create", lease |-> l, client |-> k]
        OBVIOUS
      <4>2. r.cmd = "create" /\ pending' = pending \cup {r} /\ toServer' = [toServer EXCEPT ![client[k].conn] = Append(@, r)]
        BY <3>2, <4>1 DEF Requested
      <4>3. toServer \in [Conns -> Seq(Request)]
        BY DEF Settled, RuntimeInv, Shape
      <4>4. ASSUME NEW c \in Conns, NEW q \in ToSet(toServer'[c]) PROVE q \in ToSet(toServer[c]) \/ q = r
        <5>1. PICK s : s = toServer[c]
          OBVIOUS
        <5>2. s \in Seq(Request) /\ (toServer'[c] = s \/ toServer'[c] = Append(s, r))
          BY <4>2, <4>3, <5>1
        <5>3. s \in Seq(Request \cup {r})
          BY <5>2
        <5>4. ToSet(Append(s, r)) = ToSet(s) \cup {r}
          BY <5>3, AppendFacts
        <5> QED BY <4>4, <5>1, <5>2, <5>4
      <4> QED BY <4>2, <4>4
    <3> QED BY <1>1, <3>1, <3>2
  <2>3. \A c \in Conns : \A m \in ToSet(toClient'[c]) : m.type = "response" => m \in ToSet(toClient[c]) \/ ~m.ok
    BY <1>1
  <2>4. lives' = <<>> /\ opening' # "snapshot"
    BY <1>1, UnstoredFacts
  <2> QED BY <1>1, <2>1, <2>2, <2>3, <2>4, UnstoredStep
<1> QED BY <1>0, <1>1

LEMMA TakenFrom ==
    ASSUME Settled, NEW k \in Clients, NEW m, Receives(k, m)
    PROVE  /\ UNCHANGED <<stored, lives, opening>> /\ m \in ToSet(toClient[client[k].conn]) /\ client[k].conn \in Conns
           /\ \A c \in Conns : ToSet(toClient'[c]) \subseteq ToSet(toClient[c])
<1>1. PICK c : c = client[k].conn
  OBVIOUS
<1>2. /\ c # 0 /\ toClient[c] # <<>> /\ m = Head(toClient[c]) /\ toClient' = [toClient EXCEPT ![c] = Tail(@)]
      /\ UNCHANGED <<stored, lives, opening>>
  BY <1>1 DEF Receives, serverVars, sessions
<1>3. c \in Conns /\ toClient \in [Conns -> Seq(Message)]
  BY <1>1, <1>2, ConnOf DEF Settled, AnswerInv, Sent
<1>4. m \in ToSet(toClient[c]) /\ ToSet(Tail(toClient[c])) \subseteq ToSet(toClient[c])
  BY <1>2, <1>3, TailFacts
<1> QED BY <1>1, <1>2, <1>3, <1>4

LEMMA UnstoredClient ==
    ASSUME Settled, Unstored, Phases, NEW k \in Clients,
           \/ Disconnect(k) \/ ReceiveEvent(k) \/ ReceiveResponse(k) \/ \E c \in Conns : Connect(k, c)
    PROVE  Unstored'
<1>1. Owned /\ client[k] \in Client /\ lease \in [Leases -> [state : LeaseStates, mode : {"shared", "exclusive"}]]
  BY DEF Settled, AnswerInv, Owned, LeaseInv
<1>2. ASSUME Disconnect(k) PROVE Unstored'
  <2>1. /\ UNCHANGED <<stored, lives, opening, toServer>> /\ pending' \subseteq pending
        /\ client' = [client EXCEPT ![k] = Unused] /\ toClient' = [toClient EXCEPT ![client[k].conn] = <<>>]
        /\ lease' = [l \in Leases |-> IF l \in Of(k) \ Survivors(k) THEN Free ELSE lease[l]]
    BY <1>2 DEF Disconnect, serverVars, sessions
  <2>2. \A c \in Conns : ToSet(toClient'[c]) \subseteq ToSet(toClient[c])
    BY <2>1 DEF ToSet, Settled, AnswerInv, Sent
  <2>3. \A l \in Leases : lease'[l] = lease[l] \/ lease'[l].state \in {"free", "creating"}
    BY <2>1 DEF Free
  <2>4. ~stored => \A j \in Clients : ~client'[j].cleanup
    BY <1>1, <2>1, UnstoredFacts DEF Owned, Unused
  <2> QED BY <2>1, <2>2, <2>3, <2>4, UnstoredAsks
<1>3. ASSUME NEW c \in Conns, Connect(k, c) PROVE Unstored'
  <2>1. /\ UNCHANGED <<stored, lives, opening, toServer, pending, lease, toClient>>
        /\ client' = [client EXCEPT ![k] = [Unused EXCEPT !.conn = c]]
    BY <1>3 DEF Connect, Accept, serverVars, sessions, wires
  <2>2. ~stored => \A j \in Clients : ~client'[j].cleanup
    BY <1>1, <2>1, UnstoredFacts DEF Owned, Unused
  <2> QED BY <2>1, <2>2, UnstoredAsks
<1>4. ASSUME ReceiveEvent(k) PROVE Unstored'
  <2>1. PICK m : /\ Receives(k, m) /\ UNCHANGED <<lease, pending, toServer>>
                 /\ client' = [client EXCEPT ![k] =
                        IF m.type = "session" THEN [@ EXCEPT !.attached = TRUE]
                        ELSE [applyServerSnapshot(@, m) EXCEPT !.connected = TRUE]]
    BY <1>4 DEF ReceiveEvent
  <2>2. PICK cl : cl = applyServerSnapshot(client[k], m)
    OBVIOUS
  <2>3. /\ cl.cleanup = client[k].cleanup
        /\ [cl EXCEPT !.connected = TRUE].cleanup = cl.cleanup
        /\ [client[k] EXCEPT !.attached = TRUE].cleanup = client[k].cleanup
    BY <2>2, <1>1 DEF applyServerSnapshot, Client
  <2>4. client'[k] = IF m.type = "session" THEN [client[k] EXCEPT !.attached = TRUE] ELSE [cl EXCEPT !.connected = TRUE]
    BY <1>1, <2>1, <2>2 DEF Owned
  <2>5. \A j \in Clients : client'[j].cleanup = client[j].cleanup
    BY <1>1, <2>1, <2>3, <2>4 DEF Owned
  <2>6. UNCHANGED <<stored, lives, opening>> /\ \A c \in Conns : ToSet(toClient'[c]) \subseteq ToSet(toClient[c])
    BY <2>1, TakenFrom
  <2> QED BY <2>1, <2>5, <2>6, UnstoredAsks, UnstoredFacts
<1>5. ASSUME ReceiveResponse(k) PROVE Unstored'
  <2>1. PICK r \in pending, m \in ToSet(toClient[client[k].conn]) :
        /\ Answered(k, r, m)
        /\ \/ ReceiveCreated(k, r, m) \/ ReceiveDone(k, r, m) \/ ReceiveAttached(k, r, m)
           \/ ReceiveDetached(k, r, m) \/ ReceiveReconciled(k, r, m)
    BY <1>5 DEF ReceiveResponse
  <2>2. /\ Receives(k, m) /\ UNCHANGED <<stored, lives, opening>> /\ client[k].conn \in Conns
        /\ \A c \in Conns : ToSet(toClient'[c]) \subseteq ToSet(toClient[c])
    BY <2>1, TakenFrom DEF Answered
  <2>3. CASE stored
    BY <2>2, <2>3 DEF Unstored
  <2>4. CASE ~stored
    <3>1. r.cmd = "create" /\ ~m.ok
      BY <2>1, <2>2, <2>4, UnstoredFacts DEF Answered
    <3>2. /\ lease' = [lease EXCEPT ![r.lease] = Free] /\ pending' = pending \ {r} /\ UNCHANGED toServer
          /\ client' = [client EXCEPT ![k] = [client[k] EXCEPT !.attached = IF m.ok THEN m.attached ELSE @]]
      BY <2>1, <3>1 DEF ReceiveCreated, ReceiveDone, ReceiveAttached, ReceiveDetached, ReceiveReconciled
    <3>3. \A l \in Leases : lease'[l] = lease[l] \/ lease'[l].state \in {"free", "creating"}
      BY <1>1, <3>2 DEF Free
    <3>4. \A j \in Clients : client'[j].cleanup = client[j].cleanup
      BY <1>1, <3>2 DEF Owned, Client
    <3> QED BY <2>2, <2>4, <3>2, <3>3, <3>4, UnstoredAsks, UnstoredFacts
  <2> QED BY <2>3, <2>4
<1> QED BY <1>2, <1>3, <1>4, <1>5

LEMMA UnstoredUser ==
    ASSUME Settled, Unstored, Phases, NEW l \in Leases,
           \/ createSession(l) \/ request(l)
           \/ \E mode \in {"shared", "exclusive"} : acquireSession(l, mode)
           \/ \E how \in {"detaching", "disposing"} : release(l, how)
    PROVE  Unstored'
<1>1. UNCHANGED <<stored, lives, opening>>
  BY DEF createSession, request, acquireSession, release, serverVars, sessions
<1>2. CASE stored
  BY <1>1, <1>2 DEF Unstored
<1>3. CASE ~stored
  <2>1. createSession(l)
    BY <1>3, UnstoredFacts DEF request, acquireSession, release, Usable
  <2>2. /\ UNCHANGED <<client, toClient>> /\ Requested(OwnerOf(l), "create", l, pending) /\ OwnerOf(l) \in Clients
        /\ client[OwnerOf(l)].connected /\ lease' = [lease EXCEPT ![l] = [state |-> "creating", mode |-> "exclusive"]]
    BY <2>1, RemoteAssumption DEF createSession, Connected
  <2>3. \A x \in Leases : lease'[x] = lease[x] \/ lease'[x].state \in {"free", "creating"}
    BY <2>2 DEF Settled, LeaseInv
  <2> QED BY <1>1, <1>3, <2>2, <2>3, UnstoredAsks, UnstoredFacts
<1> QED BY <1>2, <1>3

LEMMA UnstoredNext ==
    ASSUME Settled, Unstored, Phases, [Next]_vars
    PROVE  Unstored'
<1>1. CASE UNCHANGED vars
  BY <1>1 DEF vars, clientVars, serverVars, sessions, wires, Unstored
<1>2. CASE stored'
  BY <1>2 DEF Unstored
<1>3. ASSUME ~stored', Server PROVE Unstored'
  BY <1>3, UnstoredServer
<1>4. ASSUME ~stored', NEW c \in Conns, Dispatch(c), UNCHANGED clientVars PROVE Unstored'
  BY <1>4, UnstoredDispatch
<1>5. ASSUME StartBroadcast, UNCHANGED clientVars PROVE Unstored'
  BY <1>5 DEF StartBroadcast, wires, sessions, clientVars, Unstored
<1> QED BY <1>1, <1>2, <1>3, <1>4, <1>5, UnstoredClient, UnstoredUser DEF Next, Arrival, Receive, Users

LEMMA PhasesAreInvariant == Spec => [](Settled /\ Attachments /\ Unstored /\ Phases)
<1>1. Init => Unstored /\ Phases
  <2> SUFFICES ASSUME Init PROVE Unstored /\ Phases
    OBVIOUS
  <2>1. /\ client = [k \in Clients |-> Unused] /\ lease = [l \in Leases |-> Free] /\ pending = {} /\ lives = <<>>
        /\ opening = "no" /\ toServer = [c \in Conns |-> <<>>] /\ toClient = [c \in Conns |-> <<>>]
    BY DEF Init, ServerInit
  <2>2. Unstored
    BY <2>1 DEF Unstored, Unused, Free, ToSet
  <2>3. \A k \in Clients : Held(k) = {} /\ Controls(k) = {}
    BY <2>1 DEF Held, Of, Controls, Free
  <2> QED BY <2>2, <2>3 DEF Phases, Phase, Idle, Only
<1>2. Settled /\ Unstored /\ Phases /\ [Next]_vars => Unstored' /\ Phases'
  BY UnstoredNext, PhaseNext
<1> QED BY <1>1, <1>2, AttachmentsAreInvariant, PTL DEF Spec

-----------------------------------------------------------------------------
(* What a client will believe when it has received all that is under way.  *)

Numbers(m) == m.type \in {"server", "hello"}

(* The client takes the i-th of the messages s when its revision is n now. *)
Taken(n, s, i) ==
    \/ s[i].type = "session"
    \/ s[i].type = "response" /\ s[i].ok
    \/ /\ Numbers(s[i]) /\ s[i].revision >= n
       /\ \A j \in 1..(i - 1) : Numbers(s[j]) => s[i].revision >= s[j].revision

(* With a now, it is v at the end.                                         *)
Ends(n, a, s, v) ==
    \E i \in 0..Len(s) :
       /\ i = 0 => (a <=> v)
       /\ i # 0 => Taken(n, s, i) /\ (s[i].attached <=> v)
       /\ \A j \in (i + 1)..Len(s) : Taken(n, s, j) => (s[j].attached <=> v)

(* A snapshot numbered h comes too late for it.                            *)
Later(n, s, h) == n > h \/ \E i \in DOMAIN s : Numbers(s[i]) /\ s[i].revision > h

LEMMA JoinFacts ==
    ASSUME NEW s \in Seq(Message), NEW x \in Seq(Message)
    PROVE  /\ s \o x \in Seq(Message) /\ Len(s) \in Nat /\ Len(x) \in Nat /\ Len(s \o x) = Len(s) + Len(x)
           /\ \A i \in 1..Len(s) : (s \o x)[i] = s[i] /\ s[i] \in Message
           /\ \A i \in (Len(s) + 1)..Len(s \o x) : (s \o x)[i] \in ToSet(x) /\ (s \o x)[i] = x[i - Len(s)]
<1>1. /\ s \o x \in Seq(Message) /\ Len(s) \in Nat /\ Len(x) \in Nat /\ Len(s \o x) = Len(s) + Len(x)
      /\ \A i \in 1..Len(s) : (s \o x)[i] = s[i] /\ s[i] \in Message
      /\ \A i \in (Len(s) + 1)..(Len(s) + Len(x)) : (s \o x)[i] = x[i - Len(s)] /\ i - Len(s) \in 1..Len(x)
  OBVIOUS
<1>2. DOMAIN x = 1..Len(x)
  OBVIOUS
<1>3. \A i \in 1..Len(x) : x[i] \in ToSet(x)
  BY <1>2 DEF ToSet
<1> QED BY <1>1, <1>3

LEMMA EndsExtend ==
    ASSUME NEW s \in Seq(Message), NEW x \in Seq(Message), NEW n, NEW a, NEW v, Ends(n, a, s, v),
           \A j \in (Len(s) + 1)..Len(s \o x) : Taken(n, s \o x, j) => ((s \o x)[j].attached <=> v)
    PROVE  Ends(n, a, s \o x, v)
<1>1. PICK u : u = s \o x
  OBVIOUS
<1>2. /\ Len(s) \in Nat /\ Len(u) \in Nat /\ Len(s) <= Len(u) /\ \A i \in 1..Len(s) : u[i] = s[i]
  BY <1>1, JoinFacts
<1>3. ASSUME NEW i \in 1..Len(s) PROVE Taken(n, u, i) <=> Taken(n, s, i)
  <2>1. u[i] = s[i] /\ \A j \in 1..(i - 1) : u[j] = s[j]
    BY <1>2, <1>3
  <2> QED BY <2>1 DEF Taken
<1>4. PICK i \in 0..Len(s) : /\ i = 0 => (a <=> v)
                             /\ i # 0 => Taken(n, s, i) /\ (s[i].attached <=> v)
                             /\ \A j \in (i + 1)..Len(s) : Taken(n, s, j) => (s[j].attached <=> v)
  BY DEF Ends
<1>5. i \in 0..Len(u) /\ (i # 0 => Taken(n, u, i) /\ (u[i].attached <=> v))
  BY <1>2, <1>3, <1>4
<1>6. ASSUME NEW j \in (i + 1)..Len(u), Taken(n, u, j) PROVE u[j].attached <=> v
  <2>1. CASE j \in 1..Len(s)
    <3>1. Taken(n, s, j) /\ j \in (i + 1)..Len(s)
      BY <1>2, <1>3, <1>4, <1>6, <2>1
    <3> QED BY <3>1, <1>2, <1>4, <2>1
  <2>2. CASE j \notin 1..Len(s)
    <3>1. j \in (Len(s) + 1)..Len(u)
      BY <1>2, <1>4, <1>6, <2>2
    <3> QED BY <3>1, <1>1, <1>6
  <2> QED BY <2>1, <2>2
<1> QED BY <1>1, <1>4, <1>5, <1>6 DEF Ends

LEMMA EndsTold ==
    ASSUME NEW s \in Seq(Message), NEW x \in Seq(Message), NEW n, NEW a, NEW v, Ends(n, a, s, v),
           \A m \in ToSet(x) : ~Numbers(m) /\ (m.type = "session" \/ m.ok => (m.attached <=> v))
    PROVE  Ends(n, a, s \o x, v)
<1>1. ASSUME NEW j \in (Len(s) + 1)..Len(s \o x), Taken(n, s \o x, j) PROVE (s \o x)[j].attached <=> v
  <2>1. (s \o x)[j] \in ToSet(x)
    BY <1>1, JoinFacts
  <2> QED BY <2>1, <1>1 DEF Taken
<1> QED BY <1>1, EndsExtend

LEMMA EndsLast ==
    ASSUME NEW s \in Seq(Message), NEW m \in Message, NEW n, NEW a, NEW v, m.attached <=> v,
           \/ m.type = "session"
           \/ m.type = "response" /\ m.ok
           \/ Numbers(m) /\ m.revision >= n /\ \A i \in DOMAIN s : Numbers(s[i]) => m.revision >= s[i].revision
    PROVE  Ends(n, a, s \o <<m>>, v)
<1>1. PICK u : u = s \o <<m>>
  OBVIOUS
<1>2. Len(s) \in Nat /\ Len(u) = Len(s) + 1 /\ u[Len(s) + 1] = m /\ (\A i \in 1..Len(s) : u[i] = s[i]) /\ DOMAIN s = 1..Len(s)
  BY <1>1
<1>3. Taken(n, u, Len(u))
  BY <1>2 DEF Taken
<1> QED BY <1>1, <1>2, <1>3 DEF Ends

LEMMA LaterExtend ==
    ASSUME NEW s \in Seq(Message), NEW x \in Seq(Message), NEW n, NEW h, Later(n, s, h)
    PROVE  Later(n, s \o x, h)
<1>1. \A i \in DOMAIN s : i \in DOMAIN (s \o x) /\ (s \o x)[i] = s[i]
  OBVIOUS
<1> QED BY <1>1 DEF Later

(* The client has received the first of s.                                 *)
LEMMA EndsTail ==
    ASSUME NEW s \in Seq(Message), s # <<>>, NEW m, m = Head(s), NEW n \in Nat, NEW a, NEW v, Ends(n, a, s, v),
           NEW e \in Nat, NEW b,
           IF m.type = "session" \/ (m.type = "response" /\ m.ok) \/ (Numbers(m) /\ m.revision >= n)
           THEN (b <=> m.attached) /\ e = IF Numbers(m) THEN m.revision ELSE n
           ELSE (b <=> a) /\ e = n
    PROVE  Ends(e, b, Tail(s), v)
<1>1. PICK u : u = Tail(s)
  OBVIOUS
<1>2. /\ Len(s) \in Nat /\ Len(u) \in Nat /\ Len(s) = Len(u) + 1 /\ s[1] = m
      /\ \A i \in 1..Len(u) : u[i] = s[i + 1] /\ i + 1 \in 1..Len(s)
      /\ \A i \in 2..Len(s) : s[i] = u[i - 1] /\ i - 1 \in 1..Len(u)
      /\ \A i \in 1..Len(s) : s[i] \in Message
  BY <1>1
<1>3. \A i \in 1..Len(s) : Numbers(s[i]) => s[i].revision \in Nat
  BY <1>2 DEF Numbers, Message
<1>4. Taken(n, s, 1) <=> m.type = "session" \/ (m.type = "response" /\ m.ok) \/ (Numbers(m) /\ m.revision >= n)
  BY <1>2 DEF Taken
<1>5. ASSUME NEW i \in 1..Len(u) PROVE Taken(e, u, i) <=> Taken(n, s, i + 1)
  <2>1. /\ u[i] = s[i + 1] /\ (i + 1) - 1 = i
        /\ \A j \in 1..(i - 1) : u[j] = s[j + 1]
        /\ \A j \in 1..i : j = 1 \/ (j - 1 \in 1..(i - 1) /\ s[j] = u[j - 1])
    BY <1>2, <1>5
  <2>2. ASSUME Numbers(s[i + 1])
        PROVE  (s[i + 1].revision >= e /\ \A j \in 1..(i - 1) : Numbers(u[j]) => s[i + 1].revision >= u[j].revision)
               <=> (s[i + 1].revision >= n /\ \A j \in 1..i : Numbers(s[j]) => s[i + 1].revision >= s[j].revision)
    <3>1. s[i + 1].revision \in Nat /\ (Numbers(m) => m.revision \in Nat)
      BY <1>2, <1>3, <1>5, <2>2
    <3>2. s[i + 1].revision >= e <=> s[i + 1].revision >= n /\ (Numbers(m) => s[i + 1].revision >= m.revision)
      <4>1. CASE ~Numbers(m)
        <5>1. e = n
          BY <4>1
        <5> QED BY <4>1, <5>1
      <4>2. CASE Numbers(m) /\ m.revision >= n
        <5>1. e = m.revision
          BY <4>2
        <5> QED BY <3>1, <4>2, <5>1
      <4>3. CASE Numbers(m) /\ ~(m.revision >= n)
        <5>1. e = n
          BY <4>3 DEF Numbers
        <5> QED BY <3>1, <4>3, <5>1
      <4> QED BY <4>1, <4>2, <4>3
    <3>3. 1 \in 1..i /\ s[1] = m /\ \A j \in 1..(i - 1) : j + 1 \in 1..i
      BY <1>2, <1>5
    <3>4. (\A j \in 1..i : Numbers(s[j]) => s[i + 1].revision >= s[j].revision)
          <=> /\ Numbers(m) => s[i + 1].revision >= m.revision
              /\ \A j \in 1..(i - 1) : Numbers(u[j]) => s[i + 1].revision >= u[j].revision
      BY <2>1, <3>3
    <3> QED BY <3>2, <3>4
  <2> QED BY <2>1, <2>2 DEF Taken
<1>6. PICK i \in 0..Len(s) : /\ i = 0 => (a <=> v)
                             /\ i # 0 => Taken(n, s, i) /\ (s[i].attached <=> v)
                             /\ \A j \in (i + 1)..Len(s) : Taken(n, s, j) => (s[j].attached <=> v)
  BY DEF Ends
<1>7. CASE i \in {0, 1}
  <2>1. b <=> v
    <3>1. CASE Taken(n, s, 1)
      <4>1. (b <=> m.attached) /\ 1 \in 1..Len(s)
        BY <1>2, <1>4, <3>1
      <4>2. s[1].attached <=> v
        BY <1>6, <1>7, <3>1, <4>1
      <4> QED BY <4>1, <4>2, <1>2
    <3>2. CASE ~Taken(n, s, 1)
      <4>1. i = 0 /\ (b <=> a)
        BY <1>4, <1>6, <1>7, <3>2
      <4> QED BY <4>1, <1>6
    <3> QED BY <3>1, <3>2
  <2>2. ASSUME NEW j \in 1..Len(u), Taken(e, u, j) PROVE u[j].attached <=> v
    <3>1. j + 1 \in (i + 1)..Len(s) /\ Taken(n, s, j + 1) /\ u[j] = s[j + 1]
      BY <1>2, <1>5, <1>7, <2>2
    <3> QED BY <3>1, <1>6
  <2>3. 0 \in 0..Len(u) /\ 0 + 1 = 1
    BY <1>2
  <2> QED BY <1>1, <2>1, <2>2, <2>3 DEF Ends
<1>8. CASE i \notin {0, 1}
  <2>1. i - 1 \in 1..Len(u) /\ u[i - 1] = s[i] /\ (i - 1) + 1 = i
    BY <1>2, <1>6, <1>8
  <2>2. Taken(e, u, i - 1) /\ (u[i - 1].attached <=> v)
    BY <1>5, <1>6, <1>8, <2>1
  <2>3. ASSUME NEW j \in i..Len(u), Taken(e, u, j) PROVE u[j].attached <=> v
    <3>1. j \in 1..Len(u)
      BY <2>1, <2>3
    <3>2. j + 1 \in (i + 1)..Len(s) /\ Taken(n, s, j + 1) /\ u[j] = s[j + 1]
      BY <1>2, <1>5, <2>1, <2>3, <3>1
    <3> QED BY <3>2, <1>6
  <2>4. i - 1 \in 0..Len(u) /\ i - 1 # 0
    BY <2>1
  <2> QED BY <1>1, <2>1, <2>2, <2>3, <2>4 DEF Ends
<1> QED BY <1>7, <1>8

LEMMA LaterTail ==
    ASSUME NEW s \in Seq(Message), s # <<>>, NEW m, m = Head(s), NEW n \in Nat, NEW e \in Nat, NEW h \in Nat,
           e = IF Numbers(m) /\ m.revision >= n THEN m.revision ELSE n, Later(n, s, h)
    PROVE  Later(e, Tail(s), h)
<1>1. /\ s[1] = m /\ \A i \in DOMAIN s : s[i] \in Message
      /\ \A i \in DOMAIN s : i = 1 \/ (i - 1 \in DOMAIN Tail(s) /\ s[i] = Tail(s)[i - 1])
  OBVIOUS
<1>2. \A i \in DOMAIN s : Numbers(s[i]) => s[i].revision \in Nat
  BY <1>1 DEF Numbers, Message
<1>3. CASE n > h
  <2>1. e >= n
    BY <1>1, <1>2
  <2> QED BY <1>3, <2>1 DEF Later
<1>4. ASSUME NEW i \in DOMAIN s, Numbers(s[i]), s[i].revision > h PROVE Later(e, Tail(s), h)
  <2>1. CASE i = 1
    <3>1. e >= m.revision /\ m.revision > h /\ m.revision \in Nat
      BY <1>1, <1>2, <1>4, <2>1
    <3> QED BY <3>1 DEF Later
  <2>2. CASE i # 1
    BY <1>1, <1>4, <2>2 DEF Later
  <2> QED BY <2>1, <2>2
<1> QED BY <1>3, <1>4 DEF Later

-----------------------------------------------------------------------------
(* What is in work on the server, and what its responses say.              *)

(* The requests of a connection in the server.                             *)
Work(c) == {t \in tasks : t.conn = c /\ t.id # 0} \cup ToSet(toServer[c])

Kinds ==
    \A t \in tasks : /\ t.id = 0 <=> t.cmd = "leave"
                     /\ t.at \in {"opening", "attached"} => t.cmd \in {"create", "attach"}
                     /\ t.at = "telling" => t.cmd = "detach"
                     /\ t.at = "running" => t.cmd = "op"

(* A request that has its response is in work no more.                     *)
Once ==
    \A c \in Conns : \A m \in ToSet(toClient[c]) : m.type = "response" =>
        /\ m.id <= lastRequest
        /\ \A d \in Conns : \A w \in Work(d) : w.id # m.id

Begun ==
    \A c \in Conns : /\ stage[c] = "none" => Work(c) = {}
                     /\ stage[c] \in {"none", "handshaking"} => toClient[c] = <<>>
                     /\ stage[c] = "handshaking" => ~handshake[c].made
                     /\ broadcast # None /\ c \in broadcast.to => stage[c] \in {"ready", "closed"}

(* What is in work on the connection of a client is pending.               *)
Linked ==
    \A c \in Conns : \A k \in Clients : client[k].conn = c =>
        \A w \in Work(c) : \E r \in pending : r.id = w.id /\ r.cmd = w.cmd /\ r.client = k

(* The response m to cmd says what is the case.                            *)
Proper(c, cmd, m) ==
    /\ cmd \in {"create", "attach"} /\ m.ok => c \in sessionIds
    /\ cmd \in {"create", "attach"} /\ ~m.ok => c \notin sessionIds \/ c \in skewed
    /\ cmd = "detach" => ~m.attached /\ c \notin sessionIds /\ (m.ok \/ c \in skewed)

Right(k) ==
    \A c \in Conns : c = client[k].conn /\ Open(c) =>
       /\ \A r \in pending, m \in ToSet(toClient[c]) :
              r.client = k /\ m.type = "response" /\ m.id = r.id => Proper(c, r.cmd, m)
       /\ \A t \in tasks : t.conn = c => /\ t.at = "attached" => c \in sessionIds
                                         /\ t.cmd = "detach" => c \notin sessionIds
       /\ c \notin skewed =>
             /\ In(k, {"active"}) # {} => c \in sessionIds
             /\ c \in sessionIds => In(k, {"active"}) # {} \/ Controls(k) # {}

Links == queued \in Nat /\ Kinds /\ Once /\ Begun /\ Linked /\ \A k \in Clients : Right(k)

LEMMA KnownControl ==
    ASSUME Linked, Phases, NEW k \in Clients, NEW c \in Conns, c = client[k].conn,
           NEW w \in Work(c), w.cmd # "op"
    PROVE  \E r \in pending : r.id = w.id /\ r.cmd = w.cmd /\ r.client = k /\ Controls(k) = {r}
<1>1. PICK r \in pending : r.id = w.id /\ r.cmd = w.cmd /\ r.client = k
  BY DEF Linked
<1>2. r \in Controls(k)
  BY <1>1 DEF Controls
<1> QED BY <1>1, <1>2, OneControl

LEMMA WorkFacts ==
    ASSUME Settled, NEW c \in Conns, NEW w \in Work(c)
    PROVE  w.id \in Nat \ {0} /\ w.id <= lastRequest
<1>1. toServer[c] \in Seq(Request) /\ tasks \subseteq ServerTask
  BY DEF Settled, RuntimeInv, Shape
<1>2. ASSUME NEW i \in DOMAIN toServer[c] PROVE toServer[c][i].id \in Nat \ {0} /\ toServer[c][i].id <= lastRequest
  <2>1. toServer[c][i] \in Request
    BY <1>1, <1>2
  <2>2. toServer[c][i].id <= lastRequest
    BY <1>2 DEF Settled, RuntimeInv, Numbered
  <2> QED BY <2>1, <2>2 DEF Request
<1>3. \A t \in tasks : t.id \in Nat /\ t.id <= lastRequest
  BY <1>1 DEF Settled, RuntimeInv, Numbered, ServerTask
<1> QED BY <1>2, <1>3 DEF Work, ToSet

(* A step of the server: what is in work was before, and who comes or goes *)
(* has asked for it.                                                       *)
Steady(c) == (c \in sessionIds' <=> c \in sessionIds) /\ (c \in skewed => c \in skewed')
Enters(c) == c \in sessionIds' /\ \E w \in Work(c) : w.cmd \in {"create", "attach"}
Leaves(c) == c \notin sessionIds' /\ \E w \in Work(c) : w.cmd = "detach"

Publishes ==
    /\ \/ revision' = revision /\ broadcast' \in {broadcast, None}
       \/ revision' = revision + 1 /\ broadcast'.revision = revision' /\ handshake' = handshake
    /\ \A c \in Conns : handshake'[c] # None =>
           \/ handshake[c] # None /\ handshake'[c].revision = handshake[c].revision
           \/ handshake'[c].revision = revision /\ stage[c] = "handshaking"

Works ==
    /\ UNCHANGED clientVars
    /\ queued' \in Nat
    /\ Kinds'
    /\ \A c \in Conns : \A w \in Work(c)' : \E v \in Work(c) : w.id = v.id /\ w.cmd = v.cmd
    /\ \A t \in tasks' : Open(t.conn)' =>
           /\ t.at = "attached" => t \in tasks \/ t.conn \in sessionIds'
           /\ t.cmd = "detach" => t.conn \notin sessionIds' \/ \E u \in tasks : u.conn = t.conn /\ u.cmd = "detach"
    /\ \A c \in Conns : Open(c)' => Open(c) /\ (Steady(c) \/ Enters(c) \/ Leaves(c))
    /\ \A c \in Conns : /\ stage'[c] \in {stage[c], "closed"} \/ (stage[c] = "handshaking" /\ stage'[c] = "ready")
                        /\ stage'[c] = "handshaking" => handshake'[c] = handshake[c]
    /\ broadcast' # None => \A c \in broadcast'.to : stage'[c] \in {"ready", "closed"}
    /\ Publishes

(* m answers what was in work.                                             *)
Replies(c, m) ==
    /\ \A d \in Conns : \A w \in Work(d)' : w.id # m.id
    /\ \E w \in Work(c) : w.id = m.id /\ \A k \in Clients : client[k].conn = c /\ Open(c)' => Proper(c, w.cmd, m)'

Adds(c, x) ==
    /\ toClient'[c] = toClient[c] \o x
    /\ x # <<>> => stage'[c] \in {"ready", "closed"}
    /\ \A m \in ToSet(x) : /\ m.type = "response" => Replies(c, m)
                           /\ Numbers(m) => m.revision <= revision

LEMMA AddsFacts ==
    ASSUME Settled, NEW c \in Conns, NEW x \in Seq(Message), Adds(c, x)
    PROVE  \A m \in ToSet(toClient'[c]) : m \in ToSet(toClient[c]) \/ m \in ToSet(x)
<1>1. toClient[c] \in Seq(Message)
  BY DEF Settled, AnswerInv, Sent
<1>2. ToSet(toClient[c] \o x) \subseteq ToSet(toClient[c]) \cup ToSet(x)
  BY <1>1, SeqFacts
<1> QED BY <1>2 DEF Adds

LEMMA RightWorks ==
    ASSUME Settled, Phases, Links, Works, NEW k \in Clients, NEW c \in Conns, c = client[k].conn, Open(c)',
           NEW x \in Seq(Message), Adds(c, x)
    PROVE  Right(k)'
<1>0. /\ Open(c) /\ Right(k) /\ Linked /\ Once /\ Kinds /\ UNCHANGED <<client, pending, lease>>
  BY DEF Links, Works, clientVars
<1>1. Steady(c) \/ Enters(c) \/ Leaves(c)
  BY DEF Works
<1>2. ASSUME NEW w \in Work(c), w.cmd # "op",
             NEW r \in pending, r.client = k, NEW m \in ToSet(toClient[c]), m.type = "response", m.id = r.id
      PROVE  r.cmd = "op"
  <2>1. PICK q \in pending : q.id = w.id /\ Controls(k) = {q}
    BY <1>0, <1>2, KnownControl
  <2>2. CASE r.cmd # "op"
    <3>1. r = q
      BY <1>2, <2>1, <2>2 DEF Controls
    <3> QED BY <1>0, <1>2, <2>1, <3>1 DEF Once
  <2> QED BY <2>2
<1>3. ASSUME NEW r \in pending, r.client = k, NEW m \in ToSet(toClient[c]), m.type = "response", m.id = r.id
      PROVE  Proper(c, r.cmd, m)'
  <2>1. Proper(c, r.cmd, m)
    BY <1>0, <1>3 DEF Right
  <2>2. CASE Steady(c)
    BY <2>1, <2>2 DEF Steady, Proper
  <2>3. CASE Enters(c) \/ Leaves(c)
    <3>1. r.cmd = "op"
      BY <1>2, <1>3, <2>3 DEF Enters, Leaves
    <3> QED BY <3>1 DEF Proper
  <2> QED BY <1>1, <2>2, <2>3
<1>4. ASSUME NEW r \in pending, r.client = k, NEW m \in ToSet(x), m.type = "response", m.id = r.id
      PROVE  Proper(c, r.cmd, m)'
  <2>1. PICK w \in Work(c) : w.id = m.id /\ Proper(c, w.cmd, m)'
    BY <1>4 DEF Adds, Replies
  <2>2. PICK q \in pending : q.id = w.id /\ q.cmd = w.cmd
    BY <1>0, <2>1 DEF Linked
  <2>3. q = r
    BY <1>4, <2>1, <2>2 DEF Settled, AnswerInv, Asked
  <2> QED BY <2>1, <2>2, <2>3
<1>5. ASSUME NEW t \in tasks', t.conn = c
      PROVE  (t.at = "attached" => c \in sessionIds') /\ (t.cmd = "detach" => c \notin sessionIds')
  <2>1. ASSUME NEW u \in tasks, u.conn = c
        PROVE  /\ u.id # 0 => u \in Work(c)
               /\ u.cmd = "detach" => c \notin sessionIds /\ u.id # 0
               /\ u.at = "attached" => c \in sessionIds /\ u.id # 0 /\ u.cmd \in {"create", "attach"}
    BY <1>0, <2>1 DEF Work, Right, Kinds
  <2>2. ASSUME t.at = "attached", c \notin sessionIds' PROVE FALSE
    <3>1. t \in tasks
      BY <1>5, <2>2 DEF Works
    <3>2. c \in sessionIds /\ t.cmd \in {"create", "attach"} /\ t \in Work(c)
      BY <1>5, <2>1, <2>2, <3>1
    <3>3. Leaves(c)
      BY <1>1, <2>2, <3>2 DEF Steady, Enters
    <3>4. PICK w \in Work(c) : w.cmd = "detach"
      BY <3>3 DEF Leaves
    <3>5. \E r \in pending : r.cmd = "detach" /\ Controls(k) = {r}
      BY <1>0, <3>4, KnownControl
    <3>6. \E r \in pending : r.cmd = t.cmd /\ Controls(k) = {r}
      BY <1>0, <3>2, KnownControl
    <3> QED BY <3>2, <3>5, <3>6
  <2>3. ASSUME t.cmd = "detach", c \in sessionIds' PROVE FALSE
    <3>1. PICK u \in tasks : u.conn = c /\ u.cmd = "detach"
      BY <1>5, <2>3 DEF Works
    <3>2. c \notin sessionIds /\ u \in Work(c)
      BY <2>1, <3>1
    <3>3. Enters(c)
      BY <1>1, <2>3, <3>2 DEF Steady, Leaves
    <3>4. PICK w \in Work(c) : w.cmd \in {"create", "attach"}
      BY <3>3 DEF Enters
    <3>5. \E r \in pending : r.cmd = "detach" /\ Controls(k) = {r}
      BY <1>0, <3>1, <3>2, KnownControl
    <3>6. \E r \in pending : r.cmd = w.cmd /\ Controls(k) = {r}
      BY <1>0, <3>4, KnownControl
    <3> QED BY <3>4, <3>5, <3>6
  <2> QED BY <2>2, <2>3
<1>6. ASSUME c \notin skewed'
      PROVE  /\ In(k, {"active"}) # {} => c \in sessionIds'
             /\ c \in sessionIds' => In(k, {"active"}) # {} \/ Controls(k) # {}
  <2>1. CASE Steady(c)
    BY <1>0, <1>6, <2>1 DEF Steady, Right
  <2>2. CASE Enters(c)
    <3>1. PICK w \in Work(c) : w.cmd \in {"create", "attach"}
      BY <2>2 DEF Enters
    <3>2. \E r \in pending : Controls(k) = {r}
      BY <1>0, <3>1, KnownControl
    <3> QED BY <2>2, <3>2 DEF Enters
  <2>3. CASE Leaves(c)
    <3>1. PICK w \in Work(c) : w.cmd = "detach"
      BY <2>3 DEF Leaves
    <3>2. PICK r \in pending : r.cmd = "detach" /\ Controls(k) = {r}
      BY <1>0, <3>1, KnownControl
    <3>3. Reconciling(k, r) \/ Releasing(k, r)
      BY <3>2, OneControl
    <3>4. In(k, {"active"}) = {}
      BY <3>3 DEF Reconciling, Releasing, Only, Held, In
    <3> QED BY <2>3, <3>4 DEF Leaves
  <2> QED BY <1>1, <2>1, <2>2, <2>3
<1>7. In(k, {"active"})' = In(k, {"active"}) /\ Controls(k)' = Controls(k)
  BY <1>0 DEF In, Controls
<1>8. \A m \in ToSet(toClient'[c]) : m \in ToSet(toClient[c]) \/ m \in ToSet(x)
  BY AddsFacts
<1> QED BY <1>0, <1>3, <1>4, <1>5, <1>6, <1>7, <1>8 DEF Right

LEMMA LinksWorks ==
    ASSUME Settled, Phases, Links, Works, \A c \in Conns : \E x \in Seq(Message) : Adds(c, x)
    PROVE  Links'
<1>0. UNCHANGED <<client, pending, lease, lastRequest>> /\ queued' \in Nat /\ Kinds' /\ Linked /\ Once /\ Begun
      /\ \A c \in Conns : \A w \in Work(c)' : \E v \in Work(c) : w.id = v.id /\ w.cmd = v.cmd
  BY DEF Links, Works, clientVars
<1>1. Once'
  <2> SUFFICES ASSUME NEW c \in Conns, NEW m \in ToSet(toClient'[c]), m.type = "response"
               PROVE  m.id <= lastRequest /\ \A d \in Conns : \A w \in Work(d)' : w.id # m.id
    BY <1>0 DEF Once
  <2>1. PICK x \in Seq(Message) : Adds(c, x)
    OBVIOUS
  <2>2. CASE m \in ToSet(toClient[c])
    <3>1. m.id <= lastRequest /\ \A d \in Conns : \A w \in Work(d) : w.id # m.id
      BY <1>0, <2>2 DEF Once
    <3> QED BY <1>0, <3>1
  <2>3. CASE m \notin ToSet(toClient[c])
    <3>1. Replies(c, m)
      BY <2>1, <2>3, AddsFacts DEF Adds
    <3>2. m.id <= lastRequest
      BY <3>1, WorkFacts DEF Replies
    <3> QED BY <3>1, <3>2 DEF Replies
  <2> QED BY <2>2, <2>3
<1>2. Begun'
  <2> SUFFICES ASSUME NEW c \in Conns
               PROVE  /\ stage'[c] = "none" => Work(c)' = {}
                      /\ stage'[c] \in {"none", "handshaking"} => toClient'[c] = <<>>
                      /\ stage'[c] = "handshaking" => ~handshake'[c].made
                      /\ broadcast' # None /\ c \in broadcast'.to => stage'[c] \in {"ready", "closed"}
    BY DEF Begun
  <2>1. PICK x \in Seq(Message) : Adds(c, x)
    OBVIOUS
  <2>2. ASSUME stage'[c] \in {"none", "handshaking"} PROVE toClient'[c] = <<>>
    <3>1. x = <<>> /\ toClient[c] = <<>>
      BY <1>0, <2>1, <2>2 DEF Adds, Begun, Works
    <3>2. toClient'[c] = toClient[c] \o x
      BY <2>1 DEF Adds
    <3> QED BY <3>1, <3>2
  <2>3. stage'[c] = "none" => Work(c)' = {}
    <3>1. stage'[c] = "none" => Work(c) = {}
      BY <1>0 DEF Begun, Works
    <3> QED BY <1>0, <3>1
  <2>4. stage'[c] = "handshaking" => ~handshake'[c].made
    BY <1>0 DEF Begun, Works
  <2>5. broadcast' # None /\ c \in broadcast'.to => stage'[c] \in {"ready", "closed"}
    BY DEF Works
  <2> QED BY <2>2, <2>3, <2>4, <2>5
<1>3. Linked'
  <2> SUFFICES ASSUME NEW c \in Conns, NEW k \in Clients, client[k].conn = c, NEW w \in Work(c)'
               PROVE  \E r \in pending : r.id = w.id /\ r.cmd = w.cmd /\ r.client = k
    BY <1>0 DEF Linked
  <2>1. PICK v \in Work(c) : w.id = v.id /\ w.cmd = v.cmd
    BY <1>0
  <2> QED BY <1>0, <2>1 DEF Linked
<1>4. ASSUME NEW k \in Clients PROVE Right(k)'
  <2>1. CASE \E c \in Conns : c = client[k].conn /\ Open(c)'
    <3>1. PICK c \in Conns : c = client[k].conn /\ Open(c)'
      BY <2>1
    <3>2. PICK x \in Seq(Message) : Adds(c, x)
      OBVIOUS
    <3> QED BY <3>1, <3>2, RightWorks
  <2>2. CASE ~\E c \in Conns : c = client[k].conn /\ Open(c)'
    BY <1>0, <2>2 DEF Right
  <2> QED BY <2>1, <2>2
<1> QED BY <1>0, <1>1, <1>2, <1>3, <1>4 DEF Links

-----------------------------------------------------------------------------
(* What the clients believe.                                               *)

(* A snapshot for c is still to come.                                      *)
Due(c) ==
    \/ queued > 0
    \/ broadcast # None /\ c \in broadcast.to
    \/ \E t \in tasks : t.conn = c /\ (t.at \in {"attached", "telling"} \/ (t.at = "disposal" /\ t.cmd = "detach"))

Revisions ==
    /\ broadcast # None => /\ broadcast.revision = revision
                           /\ \A c \in broadcast.to : stage[c] = "ready" /\ handshake[c] # None => handshake[c].revision < revision
    /\ \A c \in Conns : handshake[c] # None => handshake[c].revision <= revision
    /\ \A c \in Conns : \A m \in ToSet(toClient[c]) : Numbers(m) => m.revision <= revision
    /\ \A k \in Clients : client[k].revision <= revision

(* At the end k believes what is the case; and so does a snapshot that is  *)
(* made for its connection, unless it comes too late.                      *)
Shows(k, c) == \E v \in BOOLEAN : (v <=> c \in sessionIds) /\ Ends(client[k].revision, client[k].attached, toClient[c], v)
Trusts(k, c) ==
    handshake[c] # None /\ handshake[c].made =>
        \/ Later(client[k].revision, toClient[c], handshake[c].revision)
        \/ handshake[c].attached <=> c \in sessionIds

Believes(k) ==
    \A c \in Conns : client[k].conn = c =>
        /\ stage[c] = "handshaking" => ~client[k].attached
        /\ Open(c) /\ c \notin skewed /\ ~Due(c) => Shows(k, c) /\ Trusts(k, c)

Beliefs == Revisions /\ \A k \in Clients : Believes(k)

(* A step of the server sends x to c; what c is told is the case.          *)
Calm(c, x) ==
    /\ ~Due(c) /\ c \notin skewed
    /\ (c \in sessionIds' <=> c \in sessionIds) /\ handshake'[c] = handshake[c]
    /\ \A m \in ToSet(x) : ~Numbers(m) /\ (m.type = "session" \/ m.ok => (m.attached <=> c \in sessionIds'))

Follows(c, x) ==
    Open(c)' /\ stage'[c] = "ready" /\ c \notin skewed' =>
        Due(c)' \/ Calm(c, x) \/ \A k \in Clients : client[k].conn = c => Shows(k, c)' /\ Trusts(k, c)'

Serving == Works /\ \A c \in Conns : \E x \in Seq(Message) : Adds(c, x) /\ Follows(c, x)

LEMMA BelievesCalm ==
    ASSUME Settled, NEW k \in Clients, NEW c \in Conns, NEW x \in Seq(Message), UNCHANGED client,
           Adds(c, x), Calm(c, x), Shows(k, c), Trusts(k, c)
    PROVE  Shows(k, c)' /\ Trusts(k, c)'
<1>1. toClient[c] \in Seq(Message) /\ toClient'[c] = toClient[c] \o x
  BY DEF Settled, AnswerInv, Sent, Adds
<1>2. PICK v \in BOOLEAN : (v <=> c \in sessionIds) /\ Ends(client[k].revision, client[k].attached, toClient[c], v)
  BY DEF Shows
<1>3. \A m \in ToSet(x) : ~Numbers(m) /\ (m.type = "session" \/ m.ok => (m.attached <=> v))
  BY <1>2 DEF Calm
<1>4. Ends(client[k].revision, client[k].attached, toClient[c] \o x, v)
  BY <1>1, <1>2, <1>3, EndsTold
<1>5. Shows(k, c)'
  BY <1>1, <1>2, <1>4 DEF Shows, Calm
<1>6. Trusts(k, c)'
  <2> SUFFICES ASSUME handshake'[c] # None, handshake'[c].made
               PROVE  \/ Later(client[k].revision, toClient'[c], handshake'[c].revision)
                      \/ handshake'[c].attached <=> c \in sessionIds'
    BY DEF Trusts
  <2>1. /\ handshake'[c] = handshake[c] /\ (c \in sessionIds' <=> c \in sessionIds)
        /\ Later(client[k].revision, toClient[c], handshake[c].revision) \/ (handshake[c].attached <=> c \in sessionIds)
    BY DEF Calm, Trusts
  <2>2. CASE Later(client[k].revision, toClient[c], handshake[c].revision)
    BY <1>1, <2>1, <2>2, LaterExtend
  <2> QED BY <2>1, <2>2
<1> QED BY <1>5, <1>6

LEMMA BelievesWorks ==
    ASSUME Settled, Settled', Links, Links', Serving, NEW k \in Clients, Believes(k)
    PROVE  Believes(k)'
<1>0. client' = client
  BY DEF Serving, Works, clientVars
<1> SUFFICES ASSUME NEW c \in Conns, client[k].conn = c
             PROVE  /\ stage'[c] = "handshaking" => ~client[k].attached
                    /\ Open(c)' /\ c \notin skewed' /\ ~Due(c)' => Shows(k, c)' /\ Trusts(k, c)'
  BY <1>0 DEF Believes
<1>1. stage'[c] = "handshaking" => stage[c] = "handshaking" /\ ~client[k].attached
  BY DEF Serving, Works, Believes
<1>2. ASSUME Open(c)', stage'[c] = "handshaking" PROVE Shows(k, c)' /\ Trusts(k, c)'
  <2>1. toClient'[c] = <<>> /\ ~handshake'[c].made /\ c \notin sessionIds'
    BY <1>2 DEF Links, Begun, Settled, BoundInv
  <2>2. Ends(client[k].revision, client[k].attached, <<>>, FALSE)
    BY <1>1, <1>2 DEF Ends
  <2>3. Shows(k, c)'
    BY <1>0, <2>1, <2>2 DEF Shows
  <2> QED BY <2>1, <2>3 DEF Trusts
<1>3. ASSUME Open(c)', stage'[c] = "ready", c \notin skewed', ~Due(c)' PROVE Shows(k, c)' /\ Trusts(k, c)'
  <2>1. PICK x \in Seq(Message) : Adds(c, x) /\ Follows(c, x)
    BY DEF Serving
  <2>2. CASE Calm(c, x)
    <3>1. Open(c)
      BY <1>3 DEF Serving, Works
    <3>2. Shows(k, c) /\ Trusts(k, c)
      BY <2>2, <3>1 DEF Believes, Calm
    <3> QED BY <1>0, <2>1, <2>2, <3>2, BelievesCalm
  <2> QED BY <1>3, <2>1, <2>2 DEF Follows
<1>4. Open(c)' => stage'[c] \in {"handshaking", "ready"}
  BY DEF Open
<1> QED BY <1>1, <1>2, <1>3, <1>4

LEMMA RevisionsWorks ==
    ASSUME Settled, Settled', Links, Serving, Revisions
    PROVE  Revisions'
<1>1. /\ revision \in Nat /\ revision' \in Nat /\ client' = client
      /\ \A c \in Conns : handshake[c] \in Making \cup {None} /\ handshake'[c] \in Making \cup {None} /\ toClient[c] \in Seq(Message)
      /\ client \in [Clients -> Client]
      /\ \A c \in Conns : toClient'[c] \in Seq(Message)
      /\ broadcast # None => broadcast.to \subseteq Conns
      /\ broadcast' # None => broadcast'.to \subseteq Conns
  BY DEF Settled, AnswerInv, Sent, Owned, Serving, Works, clientVars
<1>2. Publishes /\ Begun /\ revision <= revision'
  <2>1. Publishes /\ Begun
    BY DEF Serving, Works, Links
  <2> QED BY <1>1, <2>1 DEF Publishes
<1>3. ASSUME NEW c \in Conns, handshake'[c] # None PROVE handshake'[c].revision <= revision
  BY <1>2, <1>3, <1>1 DEF Publishes, Revisions
<1>4. ASSUME broadcast' # None
      PROVE  /\ broadcast'.revision = revision'
             /\ \A c \in broadcast'.to : stage'[c] = "ready" /\ handshake'[c] # None => handshake'[c].revision < revision'
  <2>1. CASE revision' = revision /\ broadcast' = broadcast
    <3>1. broadcast.revision = revision
      BY <1>4, <2>1 DEF Revisions
    <3>2. ASSUME NEW c \in broadcast.to, stage'[c] = "ready", handshake'[c] # None PROVE handshake'[c].revision < revision
      <4>1. c \in Conns /\ stage[c] \in {"ready", "closed"}
        BY <1>1, <1>2, <1>4, <2>1, <3>2 DEF Begun
      <4>2. handshake[c] # None /\ handshake'[c].revision = handshake[c].revision
        BY <1>2, <3>2, <4>1 DEF Publishes
      <4>3. stage[c] = "ready"
        BY <4>1, <3>2 DEF Serving, Works
      <4> QED BY <1>4, <2>1, <3>2, <4>2, <4>3 DEF Revisions
    <3> QED BY <2>1, <3>1, <3>2
  <2>2. CASE revision' = revision + 1 /\ broadcast'.revision = revision' /\ handshake' = handshake
    <3>1. ASSUME NEW c \in broadcast'.to, handshake'[c] # None PROVE handshake'[c].revision < revision'
      <4>1. handshake'[c].revision <= revision /\ handshake'[c].revision \in Nat
        BY <1>1, <1>3, <1>4, <3>1 DEF Making
      <4> QED BY <1>1, <2>2, <4>1
    <3> QED BY <2>2, <3>1
  <2> QED BY <1>2, <1>4, <2>1, <2>2 DEF Publishes
<1>5. ASSUME NEW c \in Conns, NEW m \in ToSet(toClient'[c]), Numbers(m) PROVE m.revision <= revision'
  <2>1. PICK x \in Seq(Message) : Adds(c, x)
    BY DEF Serving
  <2>2. m.revision <= revision
    BY <1>5, <2>1, AddsFacts DEF Adds, Revisions
  <2>3. m.revision \in Nat
    <3>1. toClient'[c] \in Seq(Message)
      BY <1>1
    <3>2. m \in Message
      BY <1>5, <3>1, SeqFacts
    <3> QED BY <1>5, <3>2 DEF Numbers, Message
  <2> QED BY <1>1, <1>2, <2>2, <2>3
<1>6. \A c \in Conns : handshake'[c] # None => handshake'[c].revision <= revision'
  <2>1. \A c \in Conns : handshake'[c] # None => handshake'[c].revision \in Nat
    BY <1>1 DEF Making
  <2> QED BY <1>1, <1>2, <1>3, <2>1
<1>7. \A k \in Clients : client'[k].revision <= revision'
  <2>1. \A k \in Clients : client[k].revision \in Nat /\ client[k].revision <= revision
    BY <1>1 DEF Client, Revisions
  <2> QED BY <1>1, <1>2, <2>1
<1> QED BY <1>4, <1>5, <1>6, <1>7 DEF Revisions

-----------------------------------------------------------------------------
(* The steps of the server.                                                *)

Onward == \A u \in tasks' : u.id # 0 => \E t \in tasks : u.id = t.id /\ u.cmd = t.cmd /\ u.conn = t.conn

(* A step that accepts no connection and no request.                       *)
LEMMA WorksFrame ==
    ASSUME Settled, Links, UNCHANGED clientVars, UNCHANGED <<stage, toServer>>, closed \subseteq closed',
           Publishes, \A c \in Conns : stage[c] = "handshaking" => handshake'[c] = handshake[c],
           broadcast' # None => \A c \in broadcast'.to : stage[c] \in {"ready", "closed"},
           queued' \in Nat, Onward, Kinds', \A t \in tasks' : t.at = "attached" => t \in tasks \/ t.conn \in sessionIds',
           \A c \in Conns : Open(c) => Steady(c) \/ Enters(c) \/ Leaves(c)
    PROVE  Works
<1>1. \A c \in Conns : \A w \in Work(c)' : \E v \in Work(c) : w.id = v.id /\ w.cmd = v.cmd
  BY DEF Work, Onward
<1>2. \A t \in tasks' : t.cmd = "detach" => \E u \in tasks : u.conn = t.conn /\ u.cmd = "detach"
  BY DEF Onward, Kinds
<1>3. \A c \in Conns : Open(c)' => Open(c)
  BY DEF Open
<1> QED BY <1>1, <1>2, <1>3 DEF Works

LEMMA SamePublisher ==
    ASSUME UNCHANGED <<revision, broadcast, handshake>>
    PROVE  Publishes
BY DEF Publishes

(* It tells nobody anything.                                               *)
LEMMA ServingSilent ==
    ASSUME Settled, Works, UNCHANGED toClient,
           \A c \in Conns : Open(c)' /\ stage'[c] = "ready" /\ c \notin skewed' =>
               Due(c)' \/ Calm(c, <<>>) \/ \A k \in Clients : client[k].conn = c => Shows(k, c)' /\ Trusts(k, c)'
    PROVE  Serving
<1> SUFFICES ASSUME NEW c \in Conns PROVE \E x \in Seq(Message) : Adds(c, x) /\ Follows(c, x)
  BY DEF Serving
<1>1. <<>> \in Seq(Message) /\ toClient[c] \in Seq(Message) /\ ToSet(<<>>) = {}
  BY DEF ToSet, Settled, AnswerInv, Sent
<1>2. toClient'[c] = toClient[c] \o <<>>
  BY <1>1
<1>3. Adds(c, <<>>)
  BY <1>1, <1>2 DEF Adds
<1>4. Follows(c, <<>>)
  BY DEF Follows
<1> QED BY <1>1, <1>3, <1>4

(* And nobody comes or goes.                                               *)
LEMMA ServingSame ==
    ASSUME Settled, Works, UNCHANGED <<toClient, sessionIds, handshake>>, skewed \subseteq skewed',
           \A c \in Conns : Open(c)' /\ c \notin skewed' /\ stage'[c] = "ready" /\ Due(c) => Due(c)'
    PROVE  Serving
<1>1. ASSUME NEW c \in Conns, Open(c)' /\ stage'[c] = "ready" /\ c \notin skewed' PROVE Due(c)' \/ Calm(c, <<>>)
  <2>1. ToSet(<<>>) = {}
    BY DEF ToSet
  <2> QED BY <1>1, <2>1 DEF Calm
<1> QED BY <1>1, ServingSilent

LEMMA ServingSends ==
    ASSUME Settled, Works, NEW ms, Send(ms),
           \A c \in Conns : c \in DOMAIN ms => ms[c] \in Seq(Message) /\ stage'[c] \in {"ready", "closed"},
           \A c \in Conns : c \in DOMAIN ms /\ Open(c) =>
               \A m \in ToSet(ms[c]) : /\ m.type = "response" => Replies(c, m)
                                       /\ Numbers(m) => m.revision <= revision,
           \A c \in Conns : Open(c)' /\ stage'[c] = "ready" /\ c \notin skewed' =>
               \/ Due(c)'
               \/ Calm(c, <<>>) /\ (c \in DOMAIN ms => Calm(c, ms[c]))
               \/ \A k \in Clients : client[k].conn = c => Shows(k, c)' /\ Trusts(k, c)'
    PROVE  Serving
<1> SUFFICES ASSUME NEW c \in Conns PROVE \E x \in Seq(Message) : Adds(c, x) /\ Follows(c, x)
  BY DEF Serving
<1>1. toClient \in [Conns -> Seq(Message)] /\ ToSet(<<>>) = {}
  BY DEF ToSet, Settled, AnswerInv, Sent
<1>2. PICK x \in Seq(Message) : toClient'[c] = toClient[c] \o x /\ (x # <<>> => c \in DOMAIN ms /\ Open(c) /\ x = ms[c])
  BY <1>1, SendIs
<1>3. Adds(c, x)
  <2>1. CASE x = <<>>
    BY <1>1, <1>2, <2>1 DEF Adds
  <2>2. CASE x # <<>>
    BY <1>2, <2>2 DEF Adds
  <2> QED BY <2>1, <2>2
<1>4. Follows(c, x)
  BY <1>2 DEF Follows
<1> QED BY <1>3, <1>4

(* m answers the task t.                                                   *)
LEMMA RepliesTask ==
    ASSUME Settled, UNCHANGED toServer, NEW t \in tasks, t.id # 0, \A u \in tasks' : u.id # t.id, NEW m, m.id = t.id,
           \A k \in Clients : client[k].conn = t.conn /\ Open(t.conn)' => Proper(t.conn, t.cmd, m)'
    PROVE  Replies(t.conn, m)
<1>1. t \in Work(t.conn)
  BY DEF Work
<1>2. ASSUME NEW d \in Conns, NEW w \in Work(d)' PROVE w.id # m.id
  <2>1. \A i \in DOMAIN toServer[d] : t.id # toServer[d][i].id
    BY DEF Settled, RuntimeInv, Numbered
  <2> QED BY <1>2, <2>1 DEF Work, ToSet
<1> QED BY <1>1, <1>2 DEF Replies

(* What is known of tasks and connections.                                 *)
LEMMA ServerFacts ==
    ASSUME Settled
    PROVE  /\ tasks \subseteq ServerTask /\ IsFiniteSet(tasks)
           /\ \A t \in tasks : t.conn \in Conns /\ t.id \in Nat /\ stage[t.conn] \in {"ready", "closed"}
           /\ \A t, u \in tasks : t.id = u.id /\ t.id # 0 => t = u
           /\ toClient \in [Conns -> Seq(Message)]
           /\ \A c \in Conns : closing => ~Open(c) \/ stage[c] = "none"
<1>1. tasks \subseteq ServerTask /\ \A t, u \in tasks : t.id = u.id /\ t.id # 0 => t = u
  BY DEF Settled, RuntimeInv, Shape, Numbered
<1>2. \A t \in tasks : t.conn \in Conns /\ t.id \in Nat /\ stage[t.conn] \in {"ready", "closed"}
  BY <1>1 DEF Settled, BoundInv, ServerTask
<1>3. \A c \in Conns : closing => ~Open(c) \/ stage[c] = "none"
  BY DEF Settled, AnswerInv, Owned, Open
<1> QED BY <1>1, <1>2, <1>3 DEF Settled, AnswerInv, Sent, Working

LEMMA FewerInWork ==
    ASSUME Links, tasks' \subseteq tasks
    PROVE  Onward /\ Kinds' /\ \A t \in tasks' : t.at = "attached" => t \in tasks \/ t.conn \in sessionIds'
<1>1. Kinds'
  BY DEF Links, Kinds
<1> QED BY <1>1 DEF Onward

(* Steps that nobody is told of.                                           *)
LEMMA ServingQuietly ==
    ASSUME Settled, Links, UNCHANGED clientVars, UNCHANGED <<wires, stage, handshake, sessionIds, publisher, queued>>,
           skewed \subseteq skewed', closed \subseteq closed',
           tasks' \subseteq tasks, \A t \in tasks : t \in tasks' \/ t.at = "opening"
    PROVE  Serving
<1>1. UNCHANGED <<toServer, toClient, revision, broadcast>>
  BY DEF wires, publisher
<1>2. Publishes /\ Onward /\ Kinds' /\ \A t \in tasks' : t.at = "attached" => t \in tasks \/ t.conn \in sessionIds'
  BY <1>1, SamePublisher, FewerInWork
<1>3. broadcast' # None => \A c \in broadcast'.to : stage[c] \in {"ready", "closed"}
  BY <1>1 DEF Links, Begun, Settled, AnswerInv, Sent
<1>4. queued' \in Nat /\ \A c \in Conns : Steady(c)
  BY DEF Links, Steady
<1>5. Works
  BY <1>1, <1>2, <1>3, <1>4, WorksFrame
<1>6. \A c \in Conns : Due(c) => Due(c)'
  BY <1>1 DEF Due
<1> QED BY <1>1, <1>5, <1>6, ServingSame

LEMMA ServingEvents ==
    ASSUME Settled, Links, UNCHANGED clientVars,
           Acquired \/ Close \/ CloseSessions \/ \E i \in DOMAIN lives : Terminate(i)
    PROVE  Serving
<1>1. CASE Acquired
  <2>1. UNCHANGED <<wires, stage, handshake, closed, sessionIds, publisher, queued, skewed>>
        /\ tasks' \subseteq tasks /\ \A t \in tasks : t \in tasks' \/ t.at = "opening"
    BY <1>1 DEF Acquired, connVars, Opening
  <2> QED BY <2>1, ServingQuietly
<1>2. CASE Close
  <2>1. UNCHANGED <<wires, stage, handshake, sessionIds, tasks, publisher, queued, skewed>> /\ closed \subseteq closed'
    BY <1>2 DEF Close, sessions
  <2> QED BY <2>1, ServingQuietly
<1>3. CASE CloseSessions
  <2>1. UNCHANGED <<wires, stage, handshake, closed, sessionIds, tasks, publisher, queued, skewed>>
    BY <1>3 DEF CloseSessions, connVars
  <2> QED BY <2>1, ServingQuietly
<1>4. ASSUME NEW i \in DOMAIN lives, Terminate(i) PROVE Serving
  <2>1. UNCHANGED <<wires, stage, handshake, sessionIds, tasks, publisher, queued, skewed>> /\ closed \subseteq closed'
    BY <1>4 DEF Terminate
  <2> QED BY <2>1, ServingQuietly
<1> QED BY <1>1, <1>2, <1>3, <1>4

LEMMA ServingStarts ==
    ASSUME Settled, Links, UNCHANGED clientVars, StartBroadcast
    PROVE  Serving
<1>1. /\ UNCHANGED <<toServer, toClient, stage, closed, handshake, sessionIds, tasks, skewed, closing>>
      /\ queued > 0 /\ broadcast = None /\ queued' = queued - 1
  BY DEF StartBroadcast, wires, connVars, sessions
<1>2. PICK ready : ready = {c \in Conns : stage[c] = "ready"}
  OBVIOUS
<1>3. \/ (ready = {} \/ closing) /\ UNCHANGED <<revision, broadcast>>
      \/ revision' = revision + 1 /\ broadcast' = [revision |-> revision', to |-> ready]
  BY <1>2 DEF StartBroadcast, publisher
<1>4. Publishes
  BY <1>1, <1>3 DEF Publishes
<1>5. broadcast' # None => \A c \in broadcast'.to : stage[c] \in {"ready", "closed"}
  BY <1>1, <1>2, <1>3
<1>6. queued' \in Nat /\ \A c \in Conns : Steady(c)
  BY <1>1 DEF Links, Steady
<1>7. Onward /\ Kinds' /\ \A t \in tasks' : t.at = "attached" => t \in tasks \/ t.conn \in sessionIds'
  BY <1>1, FewerInWork
<1>r. revision + 1 \in Nat /\ ready \subseteq Conns
  BY <1>2 DEF Settled, AnswerInv, Sent
<1>8. Works
  BY <1>1, <1>4, <1>5, <1>6, <1>7, WorksFrame
<1>9. ASSUME NEW c \in Conns, Open(c)', stage'[c] = "ready" PROVE Due(c)'
  <2>1. c \in ready /\ Open(c)
    BY <1>1, <1>2, <1>9 DEF Open
  <2>2. ~closing
    BY <2>1, <1>9, <1>1, ServerFacts
  <2>3. revision' = revision + 1 /\ broadcast' = [revision |-> revision', to |-> ready]
    BY <1>3, <2>1, <2>2
  <2>4. broadcast' # None
    BY <2>3, <1>r, RemoteAssumption
  <2> QED BY <2>1, <2>3, <2>4 DEF Due
<1> QED BY <1>1, <1>8, <1>9, ServingSame

(* The rest of what is to be shown of what a step sends.                   *)
Answering(ms) ==
    /\ \A c \in Conns : c \in DOMAIN ms => ms[c] \in Seq(Message) /\ stage'[c] \in {"ready", "closed"}
    /\ \A c \in Conns : c \in DOMAIN ms /\ Open(c) =>
           \A m \in ToSet(ms[c]) : /\ m.type = "response" => Replies(c, m)
                                   /\ Numbers(m) => m.revision <= revision

LEMMA AnsweringTold ==
    ASSUME Settled, Attachments, Links, UNCHANGED <<toServer, stage>>, NEW t \in tasks, t.id # 0, tasks' = tasks \ {t},
           t.live \in DOMAIN lives, NEW a \in BOOLEAN,
           \A k \in Clients, m \in Message : client[k].conn = t.conn /\ Open(t.conn)' /\ m.ok /\ m.attached = a =>
               Proper(t.conn, t.cmd, m)'
    PROVE  /\ Answering(Told(t.live, t, a))
           /\ DOMAIN Told(t.live, t, a) = lives[t.live].connections \cup {t.conn}
           /\ \A c \in Conns : c \in DOMAIN Told(t.live, t, a) =>
                  \A m \in ToSet(Told(t.live, t, a)[c]) :
                      \/ m.type = "session" /\ ~Numbers(m) /\ m.attached /\ c \in lives[t.live].connections
                      \/ m.type = "response" /\ ~Numbers(m) /\ c = t.conn /\ m.attached = a
<1>1. t.id \in Nat /\ t.conn \in Conns /\ stage[t.conn] \in {"ready", "closed"} /\ \A u \in tasks' : u.id # t.id
  BY ServerFacts
<1>2. PICK z : z = Response(t, TRUE, a)
  OBVIOUS
<1>3. z \in Message /\ z.type = "response" /\ z.id = t.id /\ z.ok /\ z.attached = a
  BY <1>1, <1>2 DEF Response, Message
<1>4. PICK ms : ms = Told(t.live, t, a)
  OBVIOUS
<1>5. /\ DOMAIN ms = lives[t.live].connections \cup {t.conn}
      /\ \A c \in DOMAIN ms : ms[c] = (IF c \in lives[t.live].connections THEN <<SessionSnapshot>> ELSE <<>>)
                                      \o (IF c = t.conn THEN <<z>> ELSE <<>>)
  BY <1>2, <1>4 DEF Told
<1>6. ASSUME NEW c \in DOMAIN ms
      PROVE  /\ ms[c] \in Seq(Message)
             /\ \A m \in ToSet(ms[c]) : \/ m = SessionSnapshot /\ c \in lives[t.live].connections
                                        \/ c = t.conn /\ m = z
  <2>1. PICK x : x = IF c \in lives[t.live].connections THEN <<SessionSnapshot>> ELSE <<>>
    OBVIOUS
  <2>2. PICK y : y = IF c = t.conn THEN <<z>> ELSE <<>>
    OBVIOUS
  <2>3. ms[c] = x \o y
    BY <1>5, <1>6, <2>1, <2>2
  <2>4. SessionSnapshot \in Message
    BY DEF SessionSnapshot, Message
  <2>5. x \in Seq(Message) /\ \A m \in ToSet(x) : m = SessionSnapshot /\ c \in lives[t.live].connections
    BY <2>1, <2>4, SingleFacts DEF ToSet
  <2>6. y \in Seq(Message) /\ \A m \in ToSet(y) : m = z /\ c = t.conn
    <3>1. CASE c = t.conn
      <4>1. y = <<z>>
        BY <3>1, <2>2
      <4> QED BY <1>3, <3>1, <4>1, SingleFacts
    <3>2. CASE c # t.conn
      BY <3>2, <2>2 DEF ToSet
    <3> QED BY <3>1, <3>2
  <2>7. x \o y \in Seq(Message) /\ ToSet(x \o y) \subseteq ToSet(x) \cup ToSet(y)
    BY <2>5, <2>6, SeqFacts
  <2>8. ASSUME NEW m \in ToSet(x \o y)
        PROVE  (m = SessionSnapshot /\ c \in lives[t.live].connections) \/ (m = z /\ c = t.conn)
    BY <2>5, <2>6, <2>7, <2>8
  <2> QED BY <2>3, <2>7, <2>8
<1>7. ~Numbers(SessionSnapshot) /\ SessionSnapshot.type = "session" /\ SessionSnapshot.attached
  BY DEF Numbers, SessionSnapshot
<1>8. Replies(t.conn, z) /\ ~Numbers(z)
  <2>1. \A k \in Clients : client[k].conn = t.conn /\ Open(t.conn)' => Proper(t.conn, t.cmd, z)'
    BY <1>3
  <2> QED BY <1>1, <1>3, <2>1, RepliesTask DEF Numbers
<1>9. \A c \in lives[t.live].connections : stage[c] \in {"ready", "closed"}
  BY DEF Attachments
<1>10. Answering(ms)
  BY <1>1, <1>5, <1>6, <1>7, <1>8, <1>9 DEF Answering
<1>11. \A c \in Conns : c \in DOMAIN ms =>
           \A m \in ToSet(ms[c]) :
               \/ m.type = "session" /\ ~Numbers(m) /\ m.attached /\ c \in lives[t.live].connections
               \/ m.type = "response" /\ ~Numbers(m) /\ c = t.conn /\ m.attached = a
  BY <1>3, <1>5, <1>6, <1>7, <1>8
<1> QED BY <1>4, <1>5, <1>10, <1>11

LEMMA AnsweringAll ==
    ASSUME Settled, UNCHANGED <<toServer, stage>>, NEW ts, ts \subseteq tasks, \A t \in ts : t.id # 0,
           \A t \in ts, u \in tasks' : u.id # t.id, NEW ms, DOMAIN ms = {t.conn : t \in ts},
           \A c \in DOMAIN ms : ms[c] \in Seq(Message) /\ \A m \in ToSet(ms[c]) : AnswersOne(ts, c, m),
           \A c \in DOMAIN ms : \A m \in ToSet(ms[c]) : \A t \in ts : \A k \in Clients :
               c = t.conn /\ m.id = t.id /\ client[k].conn = t.conn /\ Open(t.conn)' => Proper(t.conn, t.cmd, m)'
    PROVE  Answering(ms)
<1>1. \A t \in tasks : stage[t.conn] \in {"ready", "closed"}
  BY ServerFacts
<1>2. ASSUME NEW c \in DOMAIN ms, NEW m \in ToSet(ms[c]) PROVE Replies(c, m) /\ ~Numbers(m)
  <2>1. PICK t \in ts : c = t.conn /\ m.id = t.id
    BY <1>2 DEF AnswersOne
  <2>2. \A k \in Clients : client[k].conn = t.conn /\ Open(t.conn)' => Proper(t.conn, t.cmd, m)'
    BY <1>2, <2>1
  <2>3. t \in tasks /\ t.id # 0 /\ \A u \in tasks' : u.id # t.id
    OBVIOUS
  <2>4. m.type = "response"
    BY <1>2 DEF AnswersOne
  <2> QED BY <2>1, <2>2, <2>3, <2>4, RepliesTask DEF Numbers
<1> QED BY <1>1, <1>2 DEF Answering

(* Nobody comes or goes, and some tasks end.                               *)
LEMMA WorksEnds ==
    ASSUME Settled, Links, UNCHANGED clientVars, UNCHANGED <<toServer, connVars, publisher, sessionIds>>,
           skewed \subseteq skewed', tasks' \subseteq tasks, queued' \in Nat
    PROVE  Works
<1>1. UNCHANGED <<revision, broadcast, handshake, stage, closed>>
  BY DEF publisher, connVars
<1>2. Publishes /\ Onward /\ Kinds' /\ \A t \in tasks' : t.at = "attached" => t \in tasks \/ t.conn \in sessionIds'
  BY <1>1, SamePublisher, FewerInWork
<1>3. broadcast' # None => \A c \in broadcast'.to : stage[c] \in {"ready", "closed"}
  BY <1>1 DEF Links, Begun, Settled, AnswerInv, Sent
<1>4. \A c \in Conns : Steady(c)
  BY DEF Steady
<1> QED BY <1>1, <1>2, <1>3, <1>4, WorksFrame

LEMMA ServingAttach ==
    ASSUME Settled, Attachments, Links, UNCHANGED clientVars, NEW t \in tasks, FinishAttach(t)
    PROVE  Serving
<1>1. /\ t.at = "attached" /\ tasks' = tasks \ {t} /\ Send(Told(t.live, t, t.conn \in sessionIds)) /\ queued' = queued + 1
      /\ UNCHANGED <<toServer, connVars, publisher, sessionIds, skewed>>
  BY DEF FinishAttach
<1>2. UNCHANGED <<stage, closed>> /\ t.live \in DOMAIN lives
  BY <1>1, ShapeFacts DEF connVars, Settled, RuntimeInv
<1>3. queued' \in Nat /\ queued' > 0
  BY <1>1 DEF Links
<1>4. Works
  BY <1>1, <1>3, WorksEnds
<1>5. t.cmd \in {"create", "attach"} /\ t.id # 0
  BY <1>1 DEF Links, Kinds
<1>6. PICK a : a = (t.conn \in sessionIds)
  OBVIOUS
<1>7. ASSUME NEW k \in Clients, NEW m \in Message, client[k].conn = t.conn, Open(t.conn)', m.ok
      PROVE  Proper(t.conn, t.cmd, m)'
  <2>1. t.conn \in Conns /\ Open(t.conn)
    BY <1>2, <1>7, ServerFacts DEF Open
  <2>2. t.conn \in sessionIds
    BY <1>1, <1>7, <2>1 DEF Links, Right
  <2> QED BY <1>1, <1>5, <1>7, <2>2 DEF Proper
<1>8. \A c \in Conns : Due(c)'
  BY <1>3 DEF Due
<1>9. a \in BOOLEAN /\ UNCHANGED <<toServer, stage>>
  BY <1>1, <1>2, <1>6
<1>10. Answering(Told(t.live, t, a))
  BY <1>1, <1>2, <1>5, <1>7, <1>9, AnsweringTold
<1> QED BY <1>1, <1>4, <1>6, <1>8, <1>10, ServingSends DEF Answering

(* The connections of a live session that are told of it are attached.     *)
LEMMA ToldAreAttached ==
    ASSUME Settled, Attachments, NEW i \in DOMAIN lives,
           closing \/ lives[i].disposing = "no" \/ lives[i].connections = {}, NEW c \in lives[i].connections, Open(c)
    PROVE  c \in sessionIds
<1>1. c \in Conns /\ stage[c] \in {"ready", "closed"}
  BY ShapeFacts DEF Settled, RuntimeInv, Live, Attachments
<1>2. ~closing
  BY <1>1, ServerFacts
<1>3. i = live /\ live # 0
  BY <1>2, ShapeFacts DEF Settled, RuntimeInv, NoIdleRuntime
<1> QED BY <1>3 DEF Attachments, Sound

(* What is told of a live session.                                         *)
LEMMA AnsweringSession ==
    ASSUME Settled, Attachments, UNCHANGED stage, NEW i \in DOMAIN lives, NEW ms, ms = [c \in lives[i].connections |-> <<SessionSnapshot>>]
    PROVE  Answering(ms) /\ \A c \in DOMAIN ms : \A m \in ToSet(ms[c]) : m.type = "session" /\ m.attached /\ ~Numbers(m)
<1>1. SessionSnapshot \in Message /\ ~Numbers(SessionSnapshot) /\ SessionSnapshot.type = "session" /\ SessionSnapshot.attached
  BY DEF Numbers, SessionSnapshot, Message
<1>2. \A c \in lives[i].connections : stage[c] \in {"ready", "closed"}
  BY DEF Attachments
<1>3. \A c \in DOMAIN ms : c \in lives[i].connections /\ ms[c] = <<SessionSnapshot>>
  OBVIOUS
<1>4. ASSUME NEW c \in DOMAIN ms
      PROVE  /\ ms[c] \in Seq(Message)
             /\ \A m \in ToSet(ms[c]) : m.type = "session" /\ m.attached /\ ~Numbers(m)
  <2>1. PICK x : x = SessionSnapshot
    OBVIOUS
  <2>2. x \in Message /\ ms[c] = <<x>>
    BY <1>1, <1>3, <1>4, <2>1
  <2>3. <<x>> \in Seq(Message) /\ \A m \in ToSet(<<x>>) : m = x
    BY <2>2, SingleFacts
  <2> QED BY <1>1, <2>1, <2>2, <2>3
<1> QED BY <1>2, <1>3, <1>4 DEF Answering

(* It is told to those who are attached, and nothing else happens.         *)
LEMMA ServingTold ==
    ASSUME Settled, Links, Works, UNCHANGED <<sessionIds, handshake>>, skewed \subseteq skewed', NEW ms, Send(ms), Answering(ms),
           \A c \in Conns : Due(c) /\ Open(c)' /\ stage'[c] = "ready" /\ c \notin skewed' => Due(c)',
           \A c \in Conns : c \in DOMAIN ms /\ Open(c) => \A m \in ToSet(ms[c]) :
               ~Numbers(m) /\ (m.type = "session" \/ m.ok => (m.attached <=> c \in sessionIds))
    PROVE  Serving
<1>1. \A c \in Conns : Open(c)' => Open(c)
  BY DEF Works
<1>2. ASSUME NEW c \in Conns, Open(c)', stage'[c] = "ready", c \notin skewed', ~Due(c)'
      PROVE  Calm(c, <<>>) /\ (c \in DOMAIN ms => Calm(c, ms[c]))
  <2>1. ~Due(c) /\ c \notin skewed /\ (c \in sessionIds' <=> c \in sessionIds) /\ handshake'[c] = handshake[c]
    BY <1>2
  <2>2. ToSet(<<>>) = {}
    BY DEF ToSet
  <2>3. c \in DOMAIN ms => \A m \in ToSet(ms[c]) : ~Numbers(m) /\ (m.type = "session" \/ m.ok => (m.attached <=> c \in sessionIds'))
    BY <1>1, <1>2, <2>1
  <2> QED BY <2>1, <2>2, <2>3 DEF Calm
<1> QED BY <1>2, ServingSends DEF Answering

LEMMA ServingRun ==
    ASSUME Settled, Attachments, Links, UNCHANGED clientVars, NEW i \in DOMAIN lives, RunEnds(i)
    PROVE  Serving
<1>1. /\ UNCHANGED <<toServer, connVars, publisher, sessionIds, tasks, skewed, queued>> /\ lives[i].disposing = "no"
      /\ Send([c \in lives[i].connections |-> <<SessionSnapshot>>])
  BY DEF RunEnds, Subscribed
<1>2. UNCHANGED <<stage, closed, handshake, broadcast>>
  BY <1>1 DEF connVars, publisher
<1>3. Works
  BY <1>1, WorksEnds DEF Links
<1>4. PICK ms : ms = [c \in lives[i].connections |-> <<SessionSnapshot>>]
  OBVIOUS
<1>5. Answering(ms) /\ DOMAIN ms = lives[i].connections
      /\ \A c \in DOMAIN ms : \A m \in ToSet(ms[c]) : m.type = "session" /\ m.attached /\ ~Numbers(m)
  BY <1>2, <1>4, AnsweringSession
<1>6. \A c \in lives[i].connections : Open(c) => c \in sessionIds
  BY <1>1, ToldAreAttached
<1>7. \A c \in Conns : Due(c) => Due(c)'
  BY <1>1, <1>2 DEF Due
<1>8. Send(ms)
  BY <1>1, <1>4
<1> QED BY <1>1, <1>2, <1>3, <1>5, <1>6, <1>7, <1>8, ServingTold

(* Some may be answered with an error.                                     *)
Refused(ts) ==
    \A t \in ts : /\ t.id # 0 /\ t.cmd \in {"create", "attach", "op"}
                  /\ t.at \in {"opening", "running"} \/ (t.at = "attached" /\ t.conn \in skewed')
                  /\ Open(t.conn) => t.cmd = "op" \/ t.conn \notin sessionIds \/ t.conn \in skewed'

LEMMA ServingRejects ==
    ASSUME Settled, Links, UNCHANGED clientVars, UNCHANGED <<toServer, connVars, publisher, sessionIds, queued>>,
           skewed \subseteq skewed', NEW ts, ts \subseteq tasks, tasks' = tasks \ ts,
           Send(Responses(ts, FALSE, FALSE)), Refused(ts)
    PROVE  Serving
<1>1. PICK ms : ms = Responses(ts, FALSE, FALSE)
  OBVIOUS
<1>2. /\ DOMAIN ms = {t.conn : t \in ts}
      /\ \A c \in DOMAIN ms : ms[c] \in Seq(Message) /\ \A m \in ToSet(ms[c]) : Rejects(ts, c, m)
  <2>1. IsFiniteSet(ts) /\ \A t \in ts : t.id \in Nat
    BY ServerFacts, FS_Subset
  <2> QED BY <1>1, <2>1, RejectedAre
<1>3. UNCHANGED <<stage, closed, handshake, broadcast>>
  BY DEF connVars, publisher
<1>4. (\A t \in ts, u \in tasks' : u.id # t.id) /\ \A t \in ts : t.id # 0
  BY ServerFacts DEF Refused
<1>5. ASSUME NEW c \in DOMAIN ms, NEW m \in ToSet(ms[c]), NEW t \in ts, NEW k \in Clients,
             c = t.conn, m.id = t.id, client[k].conn = t.conn, Open(t.conn)'
      PROVE  Proper(t.conn, t.cmd, m)'
  <2>1. Open(t.conn) /\ ~m.ok
    BY <1>2, <1>3, <1>5 DEF Open, Rejects
  <2> QED BY <1>5, <2>1 DEF Proper, Refused
<1>6. Answering(ms)
  <2>1. \A c \in DOMAIN ms : ms[c] \in Seq(Message) /\ \A m \in ToSet(ms[c]) : AnswersOne(ts, c, m)
    BY <1>2 DEF Rejects
  <2> QED BY <1>2, <1>3, <1>4, <1>5, <2>1, AnsweringAll
<1>7. Works
  BY WorksEnds DEF Links
<1>8. ASSUME NEW c \in Conns, Due(c), c \notin skewed' PROVE Due(c)'
  <2>1. \A t \in tasks : t.conn = c /\ t.at \in {"attached", "telling", "disposal"} => t \in tasks'
    BY <1>8 DEF Refused
  <2> QED BY <1>3, <1>8, <2>1 DEF Due
<1>9. \A c \in DOMAIN ms : \A m \in ToSet(ms[c]) : ~Numbers(m) /\ (m.type = "session" \/ m.ok => (m.attached <=> c \in sessionIds))
  BY <1>2 DEF Numbers, Rejects, AnswersOne
<1>10. Send(ms)
  BY <1>1
<1> QED BY <1>3, <1>6, <1>7, <1>8, <1>9, <1>10, ServingTold

LEMMA ServingOperation ==
    ASSUME Settled, Attachments, Links, UNCHANGED clientVars, NEW t \in tasks, FinishOperation(t)
    PROVE  Serving
<1>1. /\ UNCHANGED <<toServer, connVars, publisher, sessionIds, skewed, queued>> /\ t.at = "running" /\ tasks' = tasks \ {t}
      /\ \/ Send(Told(t.live, t, t.conn \in sessionIds))
         \/ Send(Responses({t}, FALSE, FALSE))
  BY DEF FinishOperation
<1>2. UNCHANGED <<stage, closed, handshake, broadcast>> /\ t.live \in DOMAIN lives
  BY <1>1, ShapeFacts DEF connVars, publisher, Settled, RuntimeInv
<1>3. t.cmd = "op" /\ t.id # 0
  BY <1>1 DEF Links, Kinds
<1>4. CASE Send(Responses({t}, FALSE, FALSE))
  <2>1. PICK ts : ts = {t}
    OBVIOUS
  <2>2. Send(Responses(ts, FALSE, FALSE)) /\ tasks' = tasks \ ts /\ ts \subseteq tasks /\ \A u \in ts : u = t
    BY <1>1, <1>4, <2>1
  <2> QED BY <1>1, <1>3, <2>2, ServingRejects DEF Refused
<1>5. CASE Send(Told(t.live, t, t.conn \in sessionIds))
  <2>1. PICK a : a = (t.conn \in sessionIds)
    OBVIOUS
  <2>2. a \in BOOLEAN /\ UNCHANGED <<toServer, stage>> /\ \A k \in Clients, m \in Message : Proper(t.conn, t.cmd, m)'
    BY <1>1, <1>2, <1>3, <2>1 DEF Proper
  <2>3. PICK ms : ms = Told(t.live, t, a)
    OBVIOUS
  <2>4. /\ Answering(ms)
        /\ DOMAIN ms = lives[t.live].connections \cup {t.conn}
        /\ \A c \in Conns : c \in DOMAIN ms =>
               \A m \in ToSet(ms[c]) :
                   \/ m.type = "session" /\ ~Numbers(m) /\ m.attached /\ c \in lives[t.live].connections
                   \/ m.type = "response" /\ ~Numbers(m) /\ c = t.conn /\ m.attached = a
    BY <1>1, <1>2, <1>3, <2>2, <2>3, AnsweringTold
  <2>5. closing \/ lives[t.live].disposing = "no"
    BY <1>1 DEF Attachments, Serves
  <2>6. \A c \in lives[t.live].connections : Open(c) => c \in sessionIds
    BY <1>2, <2>5, ToldAreAttached
  <2>7. Works
    BY <1>1, WorksEnds DEF Links
  <2>8. \A c \in Conns : Due(c) => Due(c)'
    BY <1>1, <1>2 DEF Due
  <2>9. Send(ms)
    BY <1>5, <2>1, <2>3
  <2>10. \A c \in Conns : c \in DOMAIN ms /\ Open(c) => \A m \in ToSet(ms[c]) :
             ~Numbers(m) /\ (m.type = "session" \/ m.ok => (m.attached <=> c \in sessionIds))
    BY <2>1, <2>4, <2>6
  <2> QED BY <1>1, <1>2, <2>4, <2>7, <2>8, <2>9, <2>10, ServingTold
<1> QED BY <1>1, <1>4, <1>5

LEMMA ServingFails ==
    ASSUME Settled, Attachments, Links, UNCHANGED clientVars, OpenFails \/ \E t \in tasks : AttachFails(t)
    PROVE  Serving
<1>1. CASE OpenFails
  <2>1. /\ UNCHANGED <<toServer, connVars, publisher, sessionIds, queued, skewed>> /\ opening # "no"
        /\ tasks' = tasks \ Opening /\ Send(Responses(Opening, FALSE, FALSE))
    BY <1>1 DEF OpenFails, Rejected
  <2>2. live = 0
    BY <2>1 DEF Settled, RuntimeInv, OneLive
  <2>3. Opening \subseteq tasks /\ skewed \subseteq skewed' /\ \A c \in sessionIds : c \in skewed'
    BY <2>1, <2>2 DEF Opening, Attachments
  <2>4. Refused(Opening)
    BY <2>3 DEF Refused, Opening, Links, Kinds
  <2> QED BY <2>1, <2>3, <2>4, ServingRejects
<1>2. ASSUME NEW t \in tasks, AttachFails(t) PROVE Serving
  <2>1. PICK ts : ts = {t}
    OBVIOUS
  <2>2. /\ UNCHANGED <<toServer, connVars, publisher, sessionIds, queued>> /\ skewed' = skewed \cup {t.conn}
        /\ tasks' = tasks \ ts /\ Send(Responses(ts, FALSE, FALSE)) /\ t.at = "attached"
    BY <1>2, <2>1 DEF AttachFails
  <2>3. ts \subseteq tasks /\ skewed \subseteq skewed' /\ \A u \in ts : u = t
    BY <2>1, <2>2
  <2>4. Refused(ts)
    BY <2>2, <2>3 DEF Refused, Links, Kinds
  <2> QED BY <2>2, <2>3, <2>4, ServingRejects
<1> QED BY <1>1, <1>2

LEMMA ServingTelling ==
    ASSUME Settled, Attachments, Links, UNCHANGED clientVars, NEW t \in tasks, FinishTelling(t)
    PROVE  Serving
<1>1. PICK l : l = maybeDispose(lives[t.live])
  OBVIOUS
<1>2. /\ UNCHANGED <<toServer, connVars, publisher, sessionIds, skewed>> /\ t.at = "telling"
      /\ IF l.disposing = "yes"
         THEN /\ tasks' = (tasks \ {t}) \cup {[t EXCEPT !.at = "disposal"]}
              /\ Send([c \in l.connections |-> <<SessionSnapshot>>])
              /\ UNCHANGED queued
         ELSE /\ tasks' = tasks \ {t}
              /\ Send(Told(t.live, t, FALSE))
              /\ queued' = queued + 1
  BY <1>1 DEF FinishTelling
<1>3. /\ UNCHANGED <<stage, closed, handshake, revision, broadcast>> /\ t.live \in DOMAIN lives
      /\ lives[t.live] \in Live /\ t \in ServerTask
  BY <1>2, ShapeFacts DEF connVars, publisher, Settled, RuntimeInv
<1>4. t.cmd = "detach" /\ t.id # 0 /\ queued \in Nat
  BY <1>2 DEF Links, Kinds
<1>5. CASE l.disposing = "yes"
  <2>1. PICK u : u = [t EXCEPT !.at = "disposal"]
    OBVIOUS
  <2>2. tasks' = (tasks \ {t}) \cup {u} /\ u.at = "disposal" /\ u.cmd = "detach" /\ u.id = t.id /\ u.conn = t.conn
    BY <1>2, <1>3, <1>4, <1>5, <2>1 DEF ServerTask
  <2>3. Onward /\ Kinds' /\ \A v \in tasks' : v.at = "attached" => v \in tasks \/ v.conn \in sessionIds'
    BY <1>4, <2>2 DEF Onward, Links, Kinds
  <2>4. broadcast' # None => \A c \in broadcast'.to : stage[c] \in {"ready", "closed"}
    BY <1>3 DEF Links, Begun, Settled, AnswerInv, Sent
  <2>5. Publishes /\ \A c \in Conns : Steady(c)
    BY <1>2, <1>3, SamePublisher DEF Steady
  <2>6. Works
    BY <1>2, <1>3, <1>4, <1>5, <2>3, <2>4, <2>5, WorksFrame
  <2>7. l.connections = lives[t.live].connections
    BY <1>1, <1>3, DisposeFacts
  <2>8. closing \/ lives[t.live].disposing = "no" \/ lives[t.live].connections = {}
    BY <1>2 DEF Attachments, Serves
  <2>9. PICK ms : ms = [c \in lives[t.live].connections |-> <<SessionSnapshot>>]
    OBVIOUS
  <2>10. Answering(ms) /\ DOMAIN ms = lives[t.live].connections
         /\ \A c \in DOMAIN ms : \A m \in ToSet(ms[c]) : m.type = "session" /\ m.attached /\ ~Numbers(m)
    BY <1>3, <2>9, AnsweringSession
  <2>11. \A c \in lives[t.live].connections : Open(c) => c \in sessionIds
    BY <1>3, <2>8, ToldAreAttached
  <2>12. Send(ms)
    BY <1>2, <1>5, <2>7, <2>9
  <2>13. \A c \in Conns : Due(c) => Due(c)'
    BY <1>2, <1>3, <1>5, <2>2 DEF Due
  <2> QED BY <1>2, <1>3, <2>6, <2>10, <2>11, <2>12, <2>13, ServingTold
<1>6. CASE l.disposing # "yes"
  <2>1. PICK a : a = FALSE
    OBVIOUS
  <2>2. PICK ms : ms = Told(t.live, t, a)
    OBVIOUS
  <2>3. Send(ms) /\ tasks' = tasks \ {t} /\ queued' = queued + 1
    BY <1>2, <1>6, <2>1, <2>2
  <2>4. Works
    BY <1>2, <1>4, <2>3, WorksEnds
  <2>5. ASSUME NEW k \in Clients, NEW m \in Message, client[k].conn = t.conn, Open(t.conn)', m.ok, m.attached = a
        PROVE  Proper(t.conn, t.cmd, m)'
    <3>1. t.conn \in Conns /\ Open(t.conn)
      BY <1>3, <2>5, ServerFacts DEF Open
    <3>2. t.conn \notin sessionIds
      BY <1>4, <2>5, <3>1 DEF Links, Right
    <3> QED BY <1>2, <1>4, <2>1, <2>5, <3>2 DEF Proper
  <2>6. a \in BOOLEAN /\ UNCHANGED <<toServer, stage>>
    BY <1>2, <1>3, <2>1
  <2>7. Answering(ms)
    BY <1>3, <1>4, <2>2, <2>3, <2>5, <2>6, AnsweringTold
  <2>8. \A c \in Conns : Due(c)'
    BY <1>4, <2>3 DEF Due
  <2> QED BY <2>3, <2>4, <2>7, <2>8, ServingSends DEF Answering
<1> QED BY <1>5, <1>6

LEMMA ServingOpened ==
    ASSUME Settled, Links, UNCHANGED clientVars, Opened
    PROVE  Serving
<1>1. PICK here : here = {t \in Opening : Open(t.conn)}
  OBVIOUS
<1>2. PICK conns : conns = {t.conn : t \in here}
  OBVIOUS
<1>3. /\ UNCHANGED <<toServer, toClient, stage, closed, handshake, revision, broadcast, queued>>
      /\ sessionIds' = sessionIds \cup conns
      /\ tasks' = (tasks \ Opening) \cup {[t EXCEPT !.at = "attached", !.live = live'] : t \in here}
      /\ skewed \ conns \subseteq skewed'
  BY <1>1, <1>2 DEF Opened, wires, connVars, publisher
<1>4. \A t \in here : t \in tasks /\ t \in ServerTask /\ t.at = "opening" /\ t.id # 0 /\ t.cmd \in {"create", "attach"}
  BY <1>1, ServerFacts DEF Opening, Links, Kinds
<1>5. ASSUME NEW t \in here, NEW u, u = [t EXCEPT !.at = "attached", !.live = live']
      PROVE  u.at = "attached" /\ u.id = t.id /\ u.cmd = t.cmd /\ u.conn = t.conn
  <2>1. t \in ServerTask
    BY <1>4
  <2> QED BY <1>5, <2>1 DEF ServerTask
<1>6. \A u \in tasks' : \/ u \in tasks
                        \/ \E t \in here : u.at = "attached" /\ u.id = t.id /\ u.cmd = t.cmd /\ u.conn = t.conn
  <2> SUFFICES ASSUME NEW u \in tasks', u \notin tasks
               PROVE  \E t \in here : u.at = "attached" /\ u.id = t.id /\ u.cmd = t.cmd /\ u.conn = t.conn
    OBVIOUS
  <2>1. PICK t \in here : u = [t EXCEPT !.at = "attached", !.live = live']
    BY <1>3
  <2> QED BY <1>5, <2>1
<1>7. Onward
  BY <1>4, <1>6 DEF Onward
<1>8. Kinds'
  BY <1>4, <1>6 DEF Links, Kinds
<1>9. \A u \in tasks' : u.at = "attached" => u \in tasks \/ u.conn \in sessionIds'
  BY <1>2, <1>3, <1>6
<1>10. ASSUME NEW c \in Conns, Open(c) PROVE Steady(c) \/ Enters(c) \/ Leaves(c)
  <2>1. CASE c \in conns
    <3>1. PICK t \in here : c = t.conn
      BY <1>2, <2>1
    <3>2. t \in Work(c)
      BY <1>4, <3>1 DEF Work
    <3> QED BY <1>3, <1>4, <2>1, <3>2 DEF Enters
  <2>2. CASE c \notin conns
    BY <1>3, <2>2 DEF Steady
  <2> QED BY <2>1, <2>2
<1>11. broadcast' # None => \A c \in broadcast'.to : stage[c] \in {"ready", "closed"}
  BY <1>3 DEF Links, Begun, Settled, AnswerInv, Sent
<1>12. Publishes /\ queued' \in Nat
  BY <1>3, SamePublisher DEF Links
<1>13. Works
  BY <1>3, <1>7, <1>8, <1>9, <1>10, <1>11, <1>12, WorksFrame
<1>14. ASSUME NEW c \in Conns, Open(c)', stage'[c] = "ready", c \notin skewed' PROVE Due(c)' \/ Calm(c, <<>>)
  <2>1. CASE c \in conns
    <3>1. PICK t \in here : c = t.conn
      BY <1>2, <2>1
    <3>2. PICK u : u = [t EXCEPT !.at = "attached", !.live = live']
      OBVIOUS
    <3>3. u \in tasks' /\ u.conn = c /\ u.at = "attached"
      BY <1>3, <1>5, <3>1, <3>2
    <3> QED BY <3>3 DEF Due
  <2>2. CASE c \notin conns
    <3>1. \A t \in tasks : t \in tasks' \/ t.at = "opening"
      BY <1>3 DEF Opening
    <3>2. Due(c) => Due(c)'
      BY <1>3, <3>1 DEF Due
    <3>3. ToSet(<<>>) = {}
      BY DEF ToSet
    <3> QED BY <1>3, <1>14, <2>2, <3>2, <3>3 DEF Calm
  <2> QED BY <2>1, <2>2
<1> QED BY <1>3, <1>13, <1>14, ServingSilent

(* Those who wait for a disposal are told, or open the session again.      *)
LEMMA WorksDisposed ==
    ASSUME Settled, Links, UNCHANGED clientVars,
           UNCHANGED <<toServer, connVars, publisher, sessionIds>>, skewed \subseteq skewed', queued' \in Nat,
           NEW again, \A u \in again : /\ u.at = "opening"
                                       /\ \E t \in tasks : /\ t.id # 0 /\ t.cmd \in {"create", "attach"}
                                                           /\ u.id = t.id /\ u.cmd = t.cmd /\ u.conn = t.conn,
           \A u \in tasks' : u \in tasks \/ u \in again
    PROVE  Works
<1>1. UNCHANGED <<revision, broadcast, handshake, stage, closed>>
  BY DEF publisher, connVars
<1>2. Onward /\ Kinds'
  BY DEF Onward, Links, Kinds
<1>3. \A t \in tasks' : t.at = "attached" => t \in tasks \/ t.conn \in sessionIds'
  OBVIOUS
<1>4. broadcast' # None => \A c \in broadcast'.to : stage[c] \in {"ready", "closed"}
  BY <1>1 DEF Links, Begun, Settled, AnswerInv, Sent
<1>5. Publishes /\ \A c \in Conns : Steady(c)
  BY <1>1, SamePublisher DEF Steady
<1> QED BY <1>1, <1>2, <1>3, <1>4, <1>5, WorksFrame

LEMMA ServingDisposed ==
    ASSUME Settled, Attachments, Links, UNCHANGED clientVars, NEW i \in DOMAIN lives, Disposed(i, TRUE)
    PROVE  Serving
<1>1. PICK waiting : waiting = {t \in tasks : t.at = "disposal" /\ t.live = i}
  OBVIOUS
<1>2. PICK detach : detach = {t \in waiting : t.cmd = "detach"}
  OBVIOUS
<1>3. PICK leave : leave = {t \in waiting : t.cmd = "leave"}
  OBVIOUS
<1>4. PICK acquire : acquire = {t \in waiting : t.cmd = "attach"} \cup {t \in waiting : t.cmd = "create"}
  OBVIOUS
<1>5. PICK again : /\ tasks' = (tasks \ waiting) \cup again
                   /\ \A u \in again : \E t \in acquire : /\ u.at = "opening" /\ u.id = t.id
                                                         /\ u.cmd = t.cmd /\ u.conn = t.conn
  <2> DEFINE W == {t \in tasks : t.at = "disposal" /\ t.live = i}
             A == {t \in W : t.cmd = "attach"} \cup {t \in W : t.cmd = "create"}
             first(t) == \A u \in A : t.id <= u.id
             f == [t \in A |-> [t EXCEPT !.at = "opening", !.live = 0, !.opener = first(t)]]
  <2>1. tasks' = (tasks \ W) \cup {f[t] : t \in A}
    BY DEF Disposed
  <2>2. \A t \in A : /\ f[t].at = "opening" /\ f[t].id = t.id
                    /\ f[t].cmd = t.cmd /\ f[t].conn = t.conn
    <3> SUFFICES ASSUME NEW t \in A
                 PROVE  f[t].at = "opening" /\ f[t].id = t.id /\ f[t].cmd = t.cmd /\ f[t].conn = t.conn
      OBVIOUS
    <3>1. t \in ServerTask
      BY ServerFacts
    <3>2. PICK o : o = first(t)
      OBVIOUS
    <3>3. f[t] = [t EXCEPT !.at = "opening", !.live = 0, !.opener = o]
      BY <3>2
    <3> QED BY <3>1, <3>3 DEF ServerTask
  <2>3. W = waiting /\ A = acquire
    BY <1>1, <1>4
  <2> HIDE DEF f, A, W, first
  <2>4. PICK S : S = {f[t] : t \in A}
    OBVIOUS
  <2>5. ASSUME NEW u \in S
        PROVE  \E t \in acquire : u.at = "opening" /\ u.id = t.id /\ u.cmd = t.cmd /\ u.conn = t.conn
    <3>1. PICK t \in A : u = f[t]
      BY <2>4, <2>5
    <3> QED BY <2>2, <2>3, <3>1
  <2>6. tasks' = (tasks \ waiting) \cup S
    BY <2>1, <2>3, <2>4
  <2> QED BY <2>5, <2>6
<1>7. /\ UNCHANGED <<toServer, connVars, publisher, sessionIds, skewed>>
      /\ Send(Responses(detach, TRUE, FALSE))
      /\ queued' = queued + Cardinality(leave) + (1 + Cardinality(detach))
  BY <1>1, <1>2, <1>3 DEF Disposed
<1>8. /\ UNCHANGED <<stage, closed, handshake>> /\ waiting \subseteq tasks /\ detach \subseteq waiting
      /\ leave \subseteq waiting /\ acquire \subseteq waiting
  BY <1>1, <1>2, <1>3, <1>4, <1>7 DEF connVars
<1>9. queued' \in Nat /\ queued' > 0
  <2>1. Cardinality(leave) \in Nat /\ Cardinality(detach) \in Nat
    BY <1>8, ServerFacts, FS_Subset, FS_CardinalityType
  <2> QED BY <1>7, <2>1 DEF Links
<1>10. ASSUME NEW u \in again
       PROVE  /\ u.at = "opening"
              /\ \E t \in tasks : /\ t.id # 0 /\ t.cmd \in {"create", "attach"}
                                  /\ u.id = t.id /\ u.cmd = t.cmd /\ u.conn = t.conn
  <2>1. PICK t \in acquire : u.at = "opening" /\ u.id = t.id /\ u.cmd = t.cmd /\ u.conn = t.conn
    BY <1>5, <1>10
  <2>2. t \in tasks /\ t.cmd \in {"create", "attach"}
    BY <1>4, <1>8
  <2> QED BY <2>1, <2>2 DEF Links, Kinds
<1>11. Works
  BY <1>5, <1>7, <1>9, <1>10, WorksDisposed
<1>12. PICK ms : ms = Responses(detach, TRUE, FALSE)
  OBVIOUS
<1>13. /\ DOMAIN ms = {t.conn : t \in detach}
       /\ \A c \in DOMAIN ms : ms[c] \in Seq(Message) /\ \A m \in ToSet(ms[c]) : Grants(detach, c, m)
  <2>1. IsFiniteSet(detach) /\ \A t \in detach : t.id \in Nat
    BY <1>8, ServerFacts, FS_Subset
  <2> QED BY <1>12, <2>1, GrantedAre
<1>14. detach \subseteq tasks /\ \A t \in detach : t.cmd = "detach" /\ t.id # 0
  BY <1>2, <1>8 DEF Links, Kinds
<1>15. ASSUME NEW t \in detach, NEW u \in tasks' PROVE u.id # t.id
  <2>1. CASE u \in tasks
    <3>1. u \notin waiting \/ u.at = "opening"
      BY <1>5, <1>10, <1>15
    <3> QED BY <1>1, <1>8, <1>14, <2>1, <3>1, ServerFacts
  <2>2. CASE u \in again
    BY <1>10, <1>14, <2>2, ServerFacts
  <2> QED BY <1>5, <1>15, <2>1, <2>2
<1>16. ASSUME NEW c \in DOMAIN ms, NEW m \in ToSet(ms[c]), NEW t \in detach, NEW k \in Clients,
              c = t.conn, m.id = t.id, client[k].conn = t.conn, Open(t.conn)'
       PROVE  Proper(t.conn, t.cmd, m)'
  <2>1. Open(t.conn) /\ m.ok /\ ~m.attached /\ t.conn \in Conns
    BY <1>8, <1>13, <1>14, <1>16, ServerFacts DEF Open, Grants
  <2>2. t.conn \notin sessionIds
    BY <1>14, <1>16, <2>1 DEF Links, Right
  <2> QED BY <1>7, <1>14, <2>1, <2>2 DEF Proper
<1>17. Answering(ms)
  <2>1. \A c \in DOMAIN ms : ms[c] \in Seq(Message) /\ \A m \in ToSet(ms[c]) : AnswersOne(detach, c, m)
    BY <1>13 DEF Grants
  <2>2. UNCHANGED <<toServer, stage>>
    BY <1>7, <1>8
  <2> QED BY <1>13, <1>14, <1>15, <1>16, <2>1, <2>2, AnsweringAll
<1>18. Send(ms) /\ \A c \in Conns : Due(c)'
  BY <1>7, <1>9, <1>12 DEF Due
<1> QED BY <1>11, <1>17, <1>18, ServingSends DEF Answering

LEMMA ServingUndisposed ==
    ASSUME Settled, Attachments, Links, UNCHANGED clientVars, NEW i \in DOMAIN lives, Disposed(i, FALSE)
    PROVE  Serving
<1>1. PICK waiting : waiting = {t \in tasks : t.at = "disposal" /\ t.live = i}
  OBVIOUS
<1>2. PICK detach : detach = {t \in waiting : t.cmd = "detach"}
  OBVIOUS
<1>3. PICK leave : leave = {t \in waiting : t.cmd = "leave"}
  OBVIOUS
<1>4. PICK acquire : acquire = {t \in waiting : t.cmd = "attach"} \cup {t \in waiting : t.cmd = "create"}
  OBVIOUS
<1>5. PICK both : both = detach \cup acquire
  OBVIOUS
<1>6. /\ UNCHANGED <<toServer, connVars, publisher, sessionIds>> /\ lives[i].disposing = "yes"
      /\ tasks' = tasks \ waiting
      /\ Send(Responses(both, FALSE, FALSE))
      /\ queued' = queued + Cardinality(leave) + 0
      /\ skewed' = skewed \cup {t.conn : t \in detach}
  BY <1>1, <1>2, <1>3, <1>4, <1>5 DEF Disposed
<1>7. /\ UNCHANGED <<stage, closed, handshake, broadcast>> /\ waiting \subseteq tasks /\ detach \subseteq waiting
      /\ leave \subseteq waiting /\ acquire \subseteq waiting /\ both \subseteq waiting
  BY <1>1, <1>2, <1>3, <1>4, <1>5, <1>6 DEF connVars, publisher
<1>8. queued' \in Nat /\ queued' >= queued /\ queued \in Nat
  <2>1. Cardinality(leave) \in Nat
    BY <1>7, ServerFacts, FS_Subset, FS_CardinalityType
  <2> QED BY <1>6, <2>1 DEF Links
<1>9. Works
  BY <1>6, <1>7, <1>8, WorksEnds
<1>10. \A c \in sessionIds : c \in skewed
  <2>1. live = 0 \/ live = i
    BY <1>6, ShapeFacts DEF Settled, RuntimeInv, OneLive, Undone
  <2> QED BY <1>6, <2>1 DEF Attachments, Sound
<1>11. PICK ms : ms = Responses(both, FALSE, FALSE)
  OBVIOUS
<1>12. /\ DOMAIN ms = {t.conn : t \in both}
       /\ \A c \in DOMAIN ms : ms[c] \in Seq(Message) /\ \A m \in ToSet(ms[c]) : Rejects(both, c, m)
  <2>1. IsFiniteSet(both) /\ \A t \in both : t.id \in Nat
    BY <1>7, ServerFacts, FS_Subset
  <2> QED BY <1>11, <2>1, RejectedAre
<1>13. both \subseteq tasks /\ \A t \in both : t.cmd \in {"detach", "create", "attach"} /\ t.id # 0
  BY <1>2, <1>4, <1>5, <1>7 DEF Links, Kinds
<1>14. \A t \in both, u \in tasks' : u.id # t.id
  BY <1>6, <1>7, <1>13, ServerFacts
<1>15. ASSUME NEW c \in DOMAIN ms, NEW m \in ToSet(ms[c]), NEW t \in both, NEW k \in Clients,
              c = t.conn, m.id = t.id, client[k].conn = t.conn, Open(t.conn)'
       PROVE  Proper(t.conn, t.cmd, m)'
  <2>1. Open(t.conn) /\ ~m.ok /\ ~m.attached /\ t.conn \in Conns
    BY <1>7, <1>12, <1>13, <1>15, ServerFacts DEF Open, Rejects
  <2>2. CASE t.cmd = "detach"
    <3>1. t.conn \notin sessionIds
      BY <1>13, <1>15, <2>1, <2>2 DEF Links, Right
    <3>2. t \in detach
      BY <1>2, <1>4, <1>5, <2>2
    <3> QED BY <1>6, <2>1, <2>2, <3>1, <3>2 DEF Proper
  <2>3. CASE t.cmd # "detach"
    BY <1>6, <1>10, <1>13, <2>1, <2>3 DEF Proper
  <2> QED BY <2>2, <2>3
<1>16. Answering(ms)
  <2>1. \A c \in DOMAIN ms : ms[c] \in Seq(Message) /\ \A m \in ToSet(ms[c]) : AnswersOne(both, c, m)
    BY <1>12 DEF Rejects
  <2>2. UNCHANGED <<toServer, stage>>
    BY <1>6, <1>7
  <2> QED BY <1>12, <1>13, <1>14, <1>15, <2>1, <2>2, AnsweringAll
<1>17. ASSUME NEW c \in Conns, Due(c), c \notin skewed' PROVE Due(c)'
  <2>1. CASE queued > 0
    BY <1>8, <2>1 DEF Due
  <2>2. CASE broadcast # None /\ c \in broadcast.to
    BY <1>7, <2>2 DEF Due
  <2>3. ASSUME NEW t \in tasks, t.conn = c, t.at \in {"attached", "telling"} \/ (t.at = "disposal" /\ t.cmd = "detach")
        PROVE  Due(c)'
    <3>1. t \notin detach
      BY <1>6, <1>17, <2>3
    <3>2. t \in tasks'
      BY <1>1, <1>2, <1>6, <2>3, <3>1
    <3> QED BY <2>3, <3>2 DEF Due
  <2> QED BY <1>17, <2>1, <2>2, <2>3 DEF Due
<1>18. \A c \in DOMAIN ms : \A m \in ToSet(ms[c]) : ~Numbers(m) /\ (m.type = "session" \/ m.ok => (m.attached <=> c \in sessionIds))
  BY <1>12 DEF Numbers, Rejects, AnswersOne
<1>19. Send(ms)
  BY <1>6, <1>11
<1> QED BY <1>6, <1>7, <1>9, <1>16, <1>17, <1>18, <1>19, ServingTold

LEMMA ServingDisconnects ==
    ASSUME Settled, Links, UNCHANGED clientVars, NEW c \in Conns, ServerDisconnect(c)
    PROVE  Serving
<1>1. /\ UNCHANGED <<toClient, closed, revision, broadcast>>
      /\ stage' = [stage EXCEPT ![c] = "closed"] /\ handshake' = [handshake EXCEPT ![c] = None]
      /\ toServer' = [toServer EXCEPT ![c] = <<>>] /\ sessionIds' = sessionIds \ {c} /\ skewed' = skewed \ {c}
      /\ tasks' = tasks \/ tasks' = tasks \cup {Leave(c, live)}
      /\ queued' = queued \/ queued' = queued + 1
  BY DEF ServerDisconnect, publisher, Departed
<1>2. /\ stage \in [Conns -> {"none", "handshaking", "ready", "closed"}] /\ handshake \in [Conns -> Making \cup {None}]
      /\ toServer \in [Conns -> Seq(Request)] /\ queued \in Nat
  BY DEF Settled, RuntimeInv, Shape, AnswerInv, Sent, Links
<1>3. /\ stage'[c] = "closed" /\ handshake'[c] = None /\ toServer'[c] = <<>>
      /\ \A d \in Conns : d # c => stage'[d] = stage[d] /\ handshake'[d] = handshake[d] /\ toServer'[d] = toServer[d]
  BY <1>1, <1>2
<1>4. Leave(c, live).id = 0 /\ Leave(c, live).cmd = "leave" /\ Leave(c, live).at = "disposal"
  BY DEF Leave, Task
<1>5. Kinds'
  BY <1>1, <1>4 DEF Links, Kinds
<1>6. \A d \in Conns : \A w \in Work(d)' : w \in Work(d)
  <2>1. \A d \in Conns : ToSet(toServer'[d]) \subseteq ToSet(toServer[d])
    BY <1>3 DEF ToSet
  <2> QED BY <1>1, <1>4, <2>1 DEF Work
<1>7. \A t \in tasks' : t.at = "attached" \/ t.cmd = "detach" => t \in tasks
  BY <1>1, <1>4
<1>8. \A d \in Conns : Open(d)' => d # c /\ Open(d) /\ Steady(d)
  BY <1>1, <1>3 DEF Open, Steady
<1>9. \A d \in Conns : /\ stage'[d] \in {stage[d], "closed"}
                       /\ stage'[d] = "handshaking" => handshake'[d] = handshake[d]
  BY <1>3
<1>10. broadcast' # None => \A d \in broadcast'.to : stage'[d] \in {"ready", "closed"}
  BY <1>1, <1>9 DEF Links, Begun, Settled, AnswerInv, Sent
<1>11. Publishes
  BY <1>1, <1>3 DEF Publishes
<1>12. queued' \in Nat /\ queued' >= queued
  BY <1>1, <1>2
<1>13. Works
  BY <1>5, <1>6, <1>7, <1>8, <1>9, <1>10, <1>11, <1>12 DEF Works
<1>14. ASSUME NEW d \in Conns, Open(d)', d \notin skewed' PROVE Due(d)' \/ Calm(d, <<>>)
  <2>1. Due(d) => Due(d)'
    BY <1>1, <1>2, <1>12 DEF Due
  <2>2. ToSet(<<>>) = {}
    BY DEF ToSet
  <2> QED BY <1>1, <1>3, <1>8, <1>14, <2>1, <2>2 DEF Calm
<1> QED BY <1>1, <1>13, <1>14, ServingSilent

(* The snapshots.                                                          *)
LEMMA ServingHello ==
    ASSUME Settled, Links, Beliefs, UNCHANGED clientVars, NEW c \in Conns, SendHello(c)
    PROVE  Serving
<1>1. PICK m : m = [Snapshot(handshake[c].revision, FALSE) EXCEPT !.type = "hello"]
  OBVIOUS
<1>2. PICK ms : ms = [x \in {c} |-> <<m>>]
  OBVIOUS
<1>3. PICK h : h = IF handshake[c].revision = revision THEN None ELSE [revision |-> revision, made |-> FALSE, attached |-> FALSE]
  OBVIOUS
<1>4. /\ UNCHANGED <<toServer, closed, sessionIds, tasks, revision, broadcast, queued, skewed>>
      /\ stage[c] = "handshaking" /\ stage' = [stage EXCEPT ![c] = "ready"]
      /\ Send(ms) /\ handshake' = [handshake EXCEPT ![c] = h]
  BY <1>1, <1>2, <1>3 DEF SendHello, sessions, publisher
<1>5. /\ stage \in [Conns -> {"none", "handshaking", "ready", "closed"}] /\ handshake \in [Conns -> Making \cup {None}]
      /\ handshake[c] \in Making /\ revision \in Nat /\ toClient \in [Conns -> Seq(Message)]
      /\ client \in [Clients -> Client]
  BY <1>4 DEF Settled, RuntimeInv, Shape, AnswerInv, Sent, Owned
<1>6. /\ stage'[c] = "ready" /\ handshake'[c] = h
      /\ \A d \in Conns : d # c => stage'[d] = stage[d] /\ handshake'[d] = handshake[d]
  BY <1>4, <1>5
<1>7. h # None => h.revision = revision /\ ~h.made
  BY <1>3
<1>8. m \in Message /\ m.type = "hello" /\ Numbers(m) /\ m.revision = handshake[c].revision /\ ~m.attached
  BY <1>1, <1>5 DEF Snapshot, Message, Numbers, Making
<1>9. m.revision <= revision
  BY <1>5, <1>8, RemoteAssumption DEF Beliefs, Revisions, Making
<1>10. \A d \in Conns : Work(d)' = Work(d)
  BY <1>4 DEF Work
<1>11. Kinds' /\ Publishes /\ queued' \in Nat
  BY <1>4, <1>6, <1>7 DEF Links, Kinds, Publishes
<1>12. \A d \in Conns : (Open(d)' => Open(d)) /\ Steady(d)
  BY <1>4, <1>6 DEF Open, Steady
<1>13. \A d \in Conns : /\ stage'[d] = stage[d] \/ (stage[d] = "handshaking" /\ stage'[d] = "ready")
                        /\ stage'[d] = "handshaking" => handshake'[d] = handshake[d]
  BY <1>4, <1>6
<1>14. broadcast' # None => \A d \in broadcast'.to : stage'[d] \in {"ready", "closed"}
  BY <1>4, <1>13 DEF Links, Begun, Settled, AnswerInv, Sent
<1>15. Works
  BY <1>4, <1>10, <1>11, <1>12, <1>13, <1>14 DEF Works
<1>16. <<m>> \in Seq(Message) /\ (\A x \in ToSet(<<m>>) : x = m) /\ DOMAIN ms = {c} /\ ms[c] = <<m>>
  BY <1>2, <1>8, SingleFacts
<1>17. \A d \in Conns : d \in DOMAIN ms => ms[d] \in Seq(Message) /\ stage'[d] \in {"ready", "closed"}
  BY <1>6, <1>16
<1>18. \A d \in Conns : d \in DOMAIN ms => \A x \in ToSet(ms[d]) : x.type # "response" /\ x.revision <= revision
  BY <1>8, <1>9, <1>16
<1>19. ASSUME NEW k \in Clients, client[k].conn = c, Open(c)' PROVE Shows(k, c)' /\ Trusts(k, c)'
  <2>1. ~client[k].attached /\ c \notin sessionIds /\ toClient[c] = <<>> /\ Open(c)
    BY <1>4, <1>12, <1>19 DEF Beliefs, Believes, Settled, BoundInv, Links, Begun
  <2>2. PICK v \in BOOLEAN : ~v
    OBVIOUS
  <2>3. PICK s : s = <<>>
    OBVIOUS
  <2>s. s \in Seq(Message)
    BY <2>3
  <2>4. toClient'[c] = s \o <<m>>
    BY <1>4, <1>16, <2>1, <2>3 DEF Send
  <2>5. Ends(client[k].revision, client[k].attached, s \o <<m>>, v)
    <3>1. Ends(client[k].revision, client[k].attached, s, v)
      BY <2>1, <2>2, <2>3 DEF Ends
    <3>2. Len(s) = 0 /\ Len(s \o <<m>>) = 1 /\ (s \o <<m>>)[1] = m
      BY <1>16, <2>3
    <3>3. \A j \in (Len(s) + 1)..Len(s \o <<m>>) : (s \o <<m>>)[j].attached <=> v
      BY <1>8, <2>2, <3>2
    <3> QED BY <1>16, <2>s, <3>1, <3>3, EndsExtend
  <2>6. client'[k] = client[k]
    BY DEF clientVars
  <2>7. Shows(k, c)'
    BY <1>4, <2>1, <2>2, <2>4, <2>5, <2>6 DEF Shows
  <2>8. Trusts(k, c)'
    BY <1>6, <1>7 DEF Trusts
  <2> QED BY <2>7, <2>8
<1>20. ASSUME NEW d \in Conns, d # c, d \notin skewed' PROVE Due(d)' \/ (Calm(d, <<>>) /\ d \notin DOMAIN ms)
  <2>1. Due(d) => Due(d)'
    BY <1>4 DEF Due
  <2>2. ToSet(<<>>) = {}
    BY DEF ToSet
  <2> QED BY <1>4, <1>6, <1>16, <1>20, <2>1, <2>2 DEF Calm
<1> QED BY <1>4, <1>15, <1>17, <1>18, <1>19, <1>20, ServingSends

(* The session is listed for who is attached.                              *)
LEMMA ListedAttached ==
    ASSUME Attachments, NEW c, c \notin skewed
    PROVE  Listed(c) <=> c \in sessionIds
BY DEF Attachments, Sound, Listed

LEMMA WorksCatchUp ==
    ASSUME Settled, Links, UNCHANGED clientVars, UNCHANGED <<toServer, stage, closed, sessionIds, tasks, skewed, revision, broadcast, queued>>,
           NEW c \in Conns, stage[c] = "ready", handshake[c] # None, NEW h, handshake' = [handshake EXCEPT ![c] = h],
           h # None => h.revision = handshake[c].revision
    PROVE  Works
<1>1. handshake \in [Conns -> Making \cup {None}]
  BY DEF Settled, AnswerInv, Sent
<1>2. /\ \A d \in Conns : d # c => handshake'[d] = handshake[d]
      /\ handshake'[c] = h
  BY <1>1
<1>3. Publishes /\ \A d \in Conns : stage[d] = "handshaking" => handshake'[d] = handshake[d]
  BY <1>2 DEF Publishes
<1>4. broadcast' # None => \A d \in broadcast'.to : stage[d] \in {"ready", "closed"}
  BY DEF Links, Begun, Settled, AnswerInv, Sent
<1>5. Onward /\ Kinds' /\ \A t \in tasks' : t.at = "attached" => t \in tasks \/ t.conn \in sessionIds'
  BY FewerInWork
<1>6. queued' \in Nat /\ \A d \in Conns : Steady(d)
  BY DEF Links, Steady
<1> QED BY <1>3, <1>4, <1>5, <1>6, WorksFrame

LEMMA ServingMakes ==
    ASSUME Settled, Attachments, Links, Beliefs, UNCHANGED clientVars, NEW c \in Conns, CatchUp(c), ~handshake[c].made
    PROVE  Serving
<1>1. PICK b : b = Listed(c)
  OBVIOUS
<1>2. /\ UNCHANGED <<toServer, toClient, stage, closed, sessionIds, tasks, skewed, revision, broadcast, queued>>
      /\ handshake' = [handshake EXCEPT ![c].made = TRUE, ![c].attached = b]
      /\ stage[c] = "ready" /\ handshake[c] # None
  BY <1>1 DEF CatchUp, sessions, publisher
<1>3. handshake \in [Conns -> Making \cup {None}] /\ handshake[c] \in Making
  BY <1>2 DEF Settled, AnswerInv, Sent
<1>4. PICK h : handshake' = [handshake EXCEPT ![c] = h] /\ h.revision = handshake[c].revision /\ h.attached = b
  <2>1. PICK h : h = [handshake[c] EXCEPT !.made = TRUE, !.attached = b]
    OBVIOUS
  <2>2. h.revision = handshake[c].revision /\ h.attached = b
    BY <1>3, <2>1 DEF Making
  <2>3. handshake' = [handshake EXCEPT ![c] = h]
    BY <1>2, <1>3, <2>1
  <2> QED BY <2>2, <2>3
<1>5. Works
  BY <1>2, <1>4, WorksCatchUp
<1>6. ASSUME NEW d \in Conns, Open(d)', stage'[d] = "ready", d \notin skewed', ~Due(d)'
      PROVE  Calm(d, <<>>) \/ \A k \in Clients : client[k].conn = d => Shows(k, d)' /\ Trusts(k, d)'
  <2>1. ~Due(d) /\ d \notin skewed /\ Open(d)
    BY <1>2, <1>6 DEF Due, Open
  <2>2. CASE d # c
    <3>1. ToSet(<<>>) = {} /\ handshake'[d] = handshake[d]
      BY <1>3, <1>4, <2>2 DEF ToSet
    <3> QED BY <1>2, <2>1, <3>1 DEF Calm
  <2>3. CASE d = c
    <3> SUFFICES ASSUME NEW k \in Clients, client[k].conn = c PROVE Shows(k, c)' /\ Trusts(k, c)'
      BY <2>3
    <3>1. Shows(k, c) /\ client'[k] = client[k]
      BY <2>1, <2>3 DEF Beliefs, Believes, clientVars
    <3>2. Shows(k, c)'
      BY <1>2, <3>1 DEF Shows
    <3>3. handshake'[c] = h /\ (h.attached <=> c \in sessionIds)
      BY <1>1, <1>3, <1>4, <2>1, <2>3, ListedAttached
    <3>4. Trusts(k, c)'
      BY <1>2, <3>3 DEF Trusts
    <3> QED BY <3>2, <3>4
  <2> QED BY <2>2, <2>3
<1> QED BY <1>2, <1>5, <1>6, ServingSilent

LEMMA ServingMade ==
    ASSUME Settled, Links, Beliefs, UNCHANGED clientVars, NEW c \in Conns, CatchUp(c), handshake[c].made
    PROVE  Serving
<1>1. PICK h : h = handshake[c]
  OBVIOUS
<1>2. PICK m : m = Snapshot(h.revision, h.attached)
  OBVIOUS
<1>3. PICK ms : ms = [x \in {c} |-> <<m>>]
  OBVIOUS
<1>4. /\ UNCHANGED <<toServer, stage, closed, sessionIds, tasks, skewed, revision, broadcast, queued>>
      /\ handshake' = [handshake EXCEPT ![c] = None] /\ Send(ms) /\ stage[c] = "ready" /\ h # None /\ h.made
  BY <1>1, <1>2, <1>3 DEF CatchUp, sessions, publisher
<1>5. /\ handshake \in [Conns -> Making \cup {None}] /\ h \in Making
      /\ revision \in Nat /\ toClient \in [Conns -> Seq(Message)] /\ client \in [Clients -> Client]
  BY <1>1, <1>4 DEF Settled, AnswerInv, Sent, Owned
<1>6. handshake'[c] = None /\ \A d \in Conns : d # c => handshake'[d] = handshake[d]
  BY <1>4, <1>5
<1>7. m \in Message /\ m.type = "server" /\ Numbers(m) /\ m.revision = h.revision /\ m.attached = h.attached /\ h.revision \in Nat
  BY <1>2, <1>5 DEF Snapshot, Message, Numbers, Making
<1>8. m.revision <= revision
  BY <1>1, <1>4, <1>7 DEF Beliefs, Revisions
<1>9. Works
  BY <1>1, <1>4, WorksCatchUp
<1>10. <<m>> \in Seq(Message) /\ (\A x \in ToSet(<<m>>) : x = m) /\ DOMAIN ms = {c} /\ ms[c] = <<m>>
  BY <1>3, <1>7, SingleFacts
<1>11. \A d \in Conns : d \in DOMAIN ms => ms[d] \in Seq(Message) /\ stage'[d] \in {"ready", "closed"}
  BY <1>4, <1>10
<1>12. \A d \in Conns : d \in DOMAIN ms => \A x \in ToSet(ms[d]) : x.type # "response" /\ x.revision <= revision
  BY <1>7, <1>8, <1>10
<1>13. ASSUME NEW k \in Clients, client[k].conn = c, Open(c)', c \notin skewed', ~Due(c)' PROVE Shows(k, c)' /\ Trusts(k, c)'
  <2>1. Open(c) /\ c \notin skewed /\ ~Due(c)
    BY <1>4, <1>13 DEF Due, Open
  <2>2. Shows(k, c) /\ Trusts(k, c)
    BY <1>13, <2>1 DEF Beliefs, Believes
  <2>3. PICK s : s = toClient[c]
    OBVIOUS
  <2>4. s \in Seq(Message) /\ toClient'[c] = s \o <<m>>
    BY <1>4, <1>5, <1>10, <2>1, <2>3 DEF Send
  <2>5. PICK v \in BOOLEAN : (v <=> c \in sessionIds) /\ Ends(client[k].revision, client[k].attached, s, v)
    BY <2>2, <2>3 DEF Shows
  <2>6. Later(client[k].revision, s, h.revision) \/ (m.attached <=> v)
    BY <1>1, <1>4, <1>7, <2>2, <2>3, <2>5 DEF Trusts
  <2>7. Len(s) \in Nat /\ Len(s \o <<m>>) = Len(s) + 1 /\ (s \o <<m>>)[Len(s) + 1] = m /\ DOMAIN s = 1..Len(s)
        /\ \A i \in 1..Len(s) : (s \o <<m>>)[i] = s[i] /\ s[i] \in Message
    BY <1>7, <2>4
  <2>8. client[k].revision \in Nat /\ \A i \in 1..Len(s) : Numbers(s[i]) => s[i].revision \in Nat
    <3>1. client[k].revision \in Nat
      BY <1>5 DEF Client
    <3>2. \A x \in Message : Numbers(x) => x.revision \in Nat
      BY DEF Numbers, Message
    <3> QED BY <2>7, <3>1, <3>2
  <2>9. ASSUME NEW j \in (Len(s) + 1)..Len(s \o <<m>>), Taken(client[k].revision, s \o <<m>>, j)
        PROVE  (s \o <<m>>)[j].attached <=> v
    <3>1. j = Len(s) + 1 /\ (s \o <<m>>)[j] = m
      BY <2>7, <2>9
    <3>2. m.revision >= client[k].revision /\ \A i \in 1..Len(s) : Numbers(s[i]) => m.revision >= s[i].revision
      BY <1>7, <2>7, <2>9, <3>1 DEF Taken
    <3>3. ~Later(client[k].revision, s, h.revision)
      BY <1>7, <2>7, <2>8, <3>2 DEF Later
    <3> QED BY <2>6, <3>1, <3>3
  <2>10. Ends(client[k].revision, client[k].attached, s \o <<m>>, v)
    BY <1>10, <2>4, <2>5, <2>9, EndsExtend
  <2>11. client'[k] = client[k] /\ sessionIds' = sessionIds
    BY <1>4 DEF clientVars
  <2>12. Shows(k, c)'
    BY <2>4, <2>5, <2>10, <2>11 DEF Shows
  <2> QED BY <1>6, <2>12 DEF Trusts
<1>14. ASSUME NEW d \in Conns, d # c, d \notin skewed' PROVE Due(d)' \/ (Calm(d, <<>>) /\ d \notin DOMAIN ms)
  <2>1. Due(d) => Due(d)'
    BY <1>4 DEF Due
  <2>2. ToSet(<<>>) = {}
    BY DEF ToSet
  <2> QED BY <1>4, <1>6, <1>10, <1>14, <2>1, <2>2 DEF Calm
<1> QED BY <1>4, <1>9, <1>11, <1>12, <1>13, <1>14, ServingSends

(* Who has the latest snapshot believes it, and no other that is made.     *)
LEMMA LatestSnapshot ==
    ASSUME Settled, Revisions, NEW k \in Clients, NEW c \in Conns, client' = client,
           NEW m \in Message, toClient'[c] = toClient[c] \o <<m>>, Numbers(m), m.revision = revision, m.attached <=> c \in sessionIds',
           handshake'[c] # None => handshake'[c] \in Making /\ handshake'[c].revision < revision
    PROVE  Shows(k, c)' /\ Trusts(k, c)'
<1>1. PICK s : s = toClient[c]
  OBVIOUS
<1>2. PICK v \in BOOLEAN : v <=> c \in sessionIds'
  OBVIOUS
<1>3. s \in Seq(Message) /\ toClient'[c] = s \o <<m>> /\ revision \in Nat
  BY <1>1 DEF Settled, AnswerInv, Sent
<1>4. m.revision >= client[k].revision
  BY <1>3 DEF Revisions, Settled, AnswerInv, Owned, Client
<1>5. \A i \in DOMAIN s : Numbers(s[i]) => m.revision >= s[i].revision
  <2>1. \A i \in DOMAIN s : s[i] \in Message /\ s[i] \in ToSet(toClient[c])
    BY <1>1, <1>3 DEF ToSet
  <2>2. \A i \in DOMAIN s : Numbers(s[i]) => s[i].revision \in Nat /\ s[i].revision <= revision
    BY <2>1 DEF Revisions, Numbers, Message
  <2> QED BY <1>3, <2>2
<1>6. Ends(client[k].revision, client[k].attached, s \o <<m>>, v)
  <2>1. m.attached <=> v
    BY <1>2
  <2> QED BY <1>3, <1>4, <1>5, <2>1, EndsLast
<1>7. Shows(k, c)'
  BY <1>2, <1>3, <1>6 DEF Shows
<1>8. ASSUME handshake'[c] # None PROVE Later(client[k].revision, s \o <<m>>, handshake'[c].revision)
  <2>1. Len(s) + 1 \in DOMAIN (s \o <<m>>) /\ (s \o <<m>>)[Len(s) + 1] = m
    BY <1>3
  <2>2. m.revision > handshake'[c].revision
    BY <1>3, <1>8 DEF Making
  <2> QED BY <2>1, <2>2 DEF Later
<1> QED BY <1>3, <1>7, <1>8 DEF Trusts

LEMMA ServingSnapshot ==
    ASSUME Settled, Attachments, Links, Beliefs, UNCHANGED clientVars, SendSnapshot
    PROVE  Serving
<1>1. PICK ms : ms = [c \in broadcast.to |-> <<Snapshot(broadcast.revision, Listed(c))>>]
  OBVIOUS
<1>2. /\ UNCHANGED <<toServer, stage, closed, handshake, sessionIds, tasks, revision, queued, skewed>>
      /\ broadcast # None /\ broadcast' = None /\ Send(ms)
  BY <1>1 DEF SendSnapshot, connVars, sessions
<1>3. /\ broadcast.revision = revision /\ revision \in Nat /\ broadcast.to \subseteq Conns /\ DOMAIN ms = broadcast.to
      /\ toClient \in [Conns -> Seq(Message)] /\ handshake \in [Conns -> Making \cup {None}]
  BY <1>1, <1>2 DEF Beliefs, Revisions, Settled, AnswerInv, Sent
<1>4. \A c \in broadcast.to : stage[c] \in {"ready", "closed"}
  BY <1>2, <1>3 DEF Links, Begun
<1>5. Works
  <2>1. Publishes
    BY <1>2 DEF Publishes
  <2>2. Onward /\ Kinds' /\ \A t \in tasks' : t.at = "attached" => t \in tasks \/ t.conn \in sessionIds'
    BY <1>2, FewerInWork
  <2>3. queued' \in Nat /\ \A c \in Conns : Steady(c)
    BY <1>2 DEF Links, Steady
  <2> QED BY <1>2, <2>1, <2>2, <2>3, WorksFrame
<1>6. ASSUME NEW c \in broadcast.to
      PROVE  \E m \in Message : /\ ms[c] = <<m>> /\ m.type = "server" /\ m.revision = revision
                                /\ (c \notin skewed => (m.attached <=> c \in sessionIds))
  <2>1. PICK b : b = Listed(c)
    OBVIOUS
  <2>2. PICK m : m = Snapshot(revision, b)
    OBVIOUS
  <2>3. b \in BOOLEAN /\ (c \notin skewed => (b <=> c \in sessionIds))
    <3>1. b \in BOOLEAN
      BY <2>1 DEF Listed
    <3>2. c \notin skewed => (b <=> c \in sessionIds)
      BY <2>1, ListedAttached
    <3> QED BY <3>1, <3>2
  <2>4. m \in Message /\ m.type = "server" /\ m.revision = revision /\ m.attached = b
    BY <1>3, <2>2, <2>3 DEF Snapshot, Message
  <2>5. ms[c] = <<m>>
    BY <1>1, <1>3, <2>1, <2>2
  <2> QED BY <2>3, <2>4, <2>5
<1>7. ASSUME NEW c \in broadcast.to
      PROVE  ms[c] \in Seq(Message) /\ \A m \in ToSet(ms[c]) : m.type # "response" /\ m.revision <= revision
  <2>1. PICK x \in Message : ms[c] = <<x>> /\ x.type = "server" /\ x.revision = revision
    BY <1>6
  <2>2. <<x>> \in Seq(Message) /\ \A m \in ToSet(<<x>>) : m = x
    BY SingleFacts
  <2> QED BY <1>3, <2>1, <2>2
<1>8. ASSUME NEW c \in broadcast.to, Open(c)', stage'[c] = "ready", c \notin skewed', NEW k \in Clients
      PROVE  Shows(k, c)' /\ Trusts(k, c)'
  <2>1. PICK m \in Message : ms[c] = <<m>> /\ m.type = "server" /\ m.revision = revision /\ (m.attached <=> c \in sessionIds)
    BY <1>2, <1>6, <1>8
  <2>2. c \in Conns /\ Open(c) /\ stage[c] = "ready"
    BY <1>2, <1>3, <1>8 DEF Open
  <2>3. toClient'[c] = toClient[c] \o <<m>>
    BY <1>2, <1>3, <2>1, <2>2 DEF Send
  <2>4. handshake'[c] # None => handshake'[c] \in Making /\ handshake'[c].revision < revision
    <3>1. handshake[c] # None => handshake[c].revision < revision
      BY <1>2, <1>8, <2>2 DEF Beliefs, Revisions
    <3> QED BY <1>2, <1>3, <2>2, <3>1
  <2>5. Numbers(m) /\ (m.attached <=> c \in sessionIds') /\ client' = client /\ Revisions
    BY <1>2, <2>1 DEF Numbers, clientVars, Beliefs
  <2> QED BY <2>1, <2>2, <2>3, <2>4, <2>5, LatestSnapshot
<1>9. ASSUME NEW c \in Conns, c \notin broadcast.to, c \notin skewed' PROVE Due(c)' \/ (Calm(c, <<>>) /\ c \notin DOMAIN ms)
  <2>1. Due(c) => Due(c)'
    BY <1>2, <1>9 DEF Due
  <2>2. ToSet(<<>>) = {}
    BY DEF ToSet
  <2> QED BY <1>2, <1>3, <1>9, <2>1, <2>2 DEF Calm
<1> QED BY <1>2, <1>3, <1>4, <1>5, <1>7, <1>8, <1>9, ServingSends

-----------------------------------------------------------------------------
(* The server takes a request from the wire.                               *)

Takes(c, r) ==
    /\ c \in Conns /\ Open(c) /\ stage[c] = "ready"
    /\ toServer[c] # <<>> /\ r = Head(toServer[c])
    /\ toServer' = [toServer EXCEPT ![c] = Tail(@)]
    /\ UNCHANGED <<clientVars, connVars, publisher>>

TaskOf(c, r, u) ==
    /\ u.id = r.id /\ u.cmd = r.cmd /\ u.conn = c
    /\ u.at \in {"opening", "attached"} => u.cmd \in {"create", "attach"}
    /\ u.at = "telling" => u.cmd = "detach"
    /\ u.at = "running" => u.cmd = "op"
    /\ u.at = "attached" => c \in sessionIds'
    /\ u.cmd = "detach" => c \notin sessionIds'

LEMMA TakesFacts ==
    ASSUME Settled, Links, NEW c, NEW r, Takes(c, r)
    PROVE  /\ r \in Work(c) /\ r \in Request /\ UNCHANGED <<stage, closed, handshake, revision, broadcast>>
           /\ \A d \in Conns : ToSet(toServer'[d]) \subseteq ToSet(toServer[d]) /\ \A w \in ToSet(toServer'[d]) : w.id # r.id
           /\ \A t \in tasks : t.id # r.id
<1>1. toServer \in [Conns -> Seq(Request)] /\ c \in Conns /\ toServer[c] # <<>> /\ r = Head(toServer[c])
      /\ toServer' = [toServer EXCEPT ![c] = Tail(@)]
  BY DEF Takes, Settled, RuntimeInv, Shape
<1>2. r \in Request /\ r \in ToSet(toServer[c])
  BY <1>1, TailFacts
<1>3. 1 \in DOMAIN toServer[c] /\ r = toServer[c][1]
  BY <1>1
<1>4. ASSUME NEW d \in Conns, NEW i \in DOMAIN toServer'[d]
      PROVE  \E j \in DOMAIN toServer[d] : toServer'[d][i] = toServer[d][j] /\ (d = c => j # 1)
  <2>1. CASE d = c
    <3>1. PICK s : s = toServer[c]
      OBVIOUS
    <3>2. s \in Seq(Request) /\ s # <<>> /\ toServer'[c] = Tail(s)
      BY <1>1, <3>1
    <3>3. \A j \in DOMAIN Tail(s) : j + 1 \in DOMAIN s /\ Tail(s)[j] = s[j + 1] /\ j + 1 # 1
      BY <3>2
    <3> QED BY <1>4, <2>1, <3>1, <3>2, <3>3
  <2>2. CASE d # c
    BY <1>1, <1>4, <2>2
  <2> QED BY <2>1, <2>2
<1>5. \A d \in Conns : \A j \in DOMAIN toServer[d] : toServer[d][j].id = r.id => d = c /\ j = 1
  BY <1>1, <1>3 DEF Settled, RuntimeInv, Numbered
<1>6. ASSUME NEW d \in Conns PROVE ToSet(toServer'[d]) \subseteq ToSet(toServer[d]) /\ \A w \in ToSet(toServer'[d]) : w.id # r.id
  BY <1>4, <1>5 DEF ToSet
<1>7. \A t \in tasks : t.id # r.id
  BY <1>1, <1>3 DEF Settled, RuntimeInv, Numbered
<1> QED BY <1>2, <1>6, <1>7 DEF Takes, Work, connVars, publisher

LEMMA WorksTakes ==
    ASSUME Settled, Links, NEW c, NEW r, Takes(c, r), NEW u,
           tasks' = tasks \/ (tasks' = tasks \cup {u} /\ TaskOf(c, r, u)), queued' \in Nat,
           \A d \in Conns : d # c => Steady(d), Steady(c) \/ Enters(c) \/ Leaves(c)
    PROVE  Works
<1>1. /\ r \in Work(c) /\ r.id # 0 /\ r.cmd # "leave"
      /\ UNCHANGED <<stage, closed, handshake, revision, broadcast>>
      /\ \A d \in Conns : ToSet(toServer'[d]) \subseteq ToSet(toServer[d])
  BY TakesFacts DEF Request
<1>2. Kinds'
  <2>1. Kinds
    BY DEF Links
  <2>2. CASE tasks' = tasks
    BY <2>1, <2>2 DEF Kinds
  <2>3. CASE tasks' = tasks \cup {u} /\ TaskOf(c, r, u)
    BY <1>1, <2>1, <2>3 DEF Kinds, TaskOf
  <2> QED BY <2>2, <2>3
<1>3. ASSUME NEW d \in Conns, NEW w \in Work(d)' PROVE \E v \in Work(d) : w.id = v.id /\ w.cmd = v.cmd
  <2>1. CASE w \in Work(d)
    BY <2>1
  <2>2. CASE w \notin Work(d)
    <3>1. w \in tasks' /\ w.conn = d /\ w.id # 0 /\ w \notin tasks
      BY <1>1, <1>3, <2>2 DEF Work
    <3>2. w = u /\ TaskOf(c, r, u)
      BY <3>1
    <3> QED BY <1>1, <3>1, <3>2 DEF TaskOf
  <2> QED BY <2>1, <2>2
<1>4. ASSUME NEW t \in tasks'
      PROVE  /\ t.at = "attached" => t \in tasks \/ t.conn \in sessionIds'
             /\ t.cmd = "detach" => t.conn \notin sessionIds' \/ \E v \in tasks : v.conn = t.conn /\ v.cmd = "detach"
  <2>1. CASE t \in tasks
    BY <2>1
  <2>2. CASE t \notin tasks
    <3>1. t = u /\ TaskOf(c, r, u)
      BY <1>4, <2>2
    <3> QED BY <3>1 DEF TaskOf
  <2> QED BY <2>1, <2>2
<1>5. \A d \in Conns : Open(d)' => Open(d) /\ (Steady(d) \/ Enters(d) \/ Leaves(d))
  BY <1>1 DEF Open
<1>6. broadcast' # None => \A d \in broadcast'.to : stage'[d] \in {"ready", "closed"}
  BY <1>1 DEF Links, Begun, Settled, AnswerInv, Sent
<1>7. Publishes /\ UNCHANGED clientVars
  BY <1>1, SamePublisher DEF Takes
<1> QED BY <1>1, <1>2, <1>3, <1>4, <1>5, <1>6, <1>7 DEF Works

(* It answers at once.                                                     *)
LEMMA ServingReplies ==
    ASSUME Settled, Links, NEW c, NEW r, Takes(c, r), UNCHANGED tasks, queued' \in Nat, queued' >= queued,
           \A d \in Conns : d # c => Steady(d) /\ (d \in skewed' <=> d \in skewed),
           Steady(c) \/ Enters(c) \/ Leaves(c),
           NEW m \in Message, m.type = "response", m.id = r.id, NEW ms, DOMAIN ms = {c}, ms[c] = <<m>>, Send(ms),
           Proper(c, r.cmd, m)',
           c \notin skewed' => \/ Due(c)'
                               \/ Steady(c) /\ c \notin skewed /\ (m.ok => (m.attached <=> c \in sessionIds))
                               \/ m.ok /\ (m.attached <=> c \in sessionIds') /\ handshake[c] = None
    PROVE  Serving
<1>3. r \in Work(c) /\ r \in Request /\ c \in Conns /\ UNCHANGED <<stage, closed, handshake, revision, broadcast>> /\ UNCHANGED clientVars
      /\ Open(c) /\ stage[c] = "ready"
  BY TakesFacts DEF Takes
<1>4. ~Numbers(m)
  BY DEF Numbers
<1>5. <<m>> \in Seq(Message) /\ \A x \in ToSet(<<m>>) : x = m
  BY SingleFacts
<1>6. Replies(c, m)
  <2>1. \A d \in Conns : \A w \in Work(d)' : w.id # r.id
    BY TakesFacts DEF Work
  <2> QED BY <1>3, <1>4, <2>1 DEF Replies
<1>7. Works
  BY WorksTakes
<1>8. \A d \in Conns : d \in DOMAIN ms => ms[d] \in Seq(Message) /\ stage'[d] \in {"ready", "closed"}
  BY <1>3, <1>5
<1>9. \A d \in Conns : d \in DOMAIN ms => \A x \in ToSet(ms[d]) : ~Numbers(x) /\ Replies(d, x)
  BY <1>4, <1>5, <1>6
<1>10. ToSet(<<>>) = {} /\ \A d \in Conns : Due(d) => Due(d)'
  <2>1. queued \in Nat
    BY DEF Links
  <2> QED BY <1>3, <2>1 DEF ToSet, Due
<1>11. ASSUME NEW d \in Conns, d # c, d \notin skewed' PROVE Due(d)' \/ (Calm(d, <<>>) /\ d \notin DOMAIN ms)
  BY <1>3, <1>5, <1>10, <1>11 DEF Calm, Steady
<1>12. ASSUME c \notin skewed', ~Due(c)'
       PROVE  \/ Calm(c, <<>>) /\ Calm(c, ms[c])
              \/ \A k \in Clients : client[k].conn = c => Shows(k, c)' /\ Trusts(k, c)'
  <2>1. CASE Steady(c) /\ c \notin skewed /\ (m.ok => (m.attached <=> c \in sessionIds))
    <3>1. \A x \in ToSet(ms[c]) : ~Numbers(x) /\ (x.type = "session" \/ x.ok => (x.attached <=> c \in sessionIds'))
      BY <1>4, <1>5, <2>1 DEF Steady
    <3> QED BY <1>3, <1>10, <1>12, <2>1, <3>1 DEF Calm, Steady
  <2>2. CASE m.ok /\ (m.attached <=> c \in sessionIds') /\ handshake[c] = None
    <3> SUFFICES ASSUME NEW k \in Clients PROVE Shows(k, c)' /\ Trusts(k, c)'
      OBVIOUS
    <3>1. PICK s : s = toClient[c]
      OBVIOUS
    <3>2. PICK v \in BOOLEAN : v <=> c \in sessionIds'
      OBVIOUS
    <3>3. s \in Seq(Message) /\ toClient'[c] = s \o <<m>> /\ client' = client
      BY <1>3, <1>5, <3>1 DEF Settled, AnswerInv, Sent, Send, clientVars
    <3>4. m.ok /\ (m.attached <=> v)
      BY <1>4, <2>2, <3>2
    <3>5. Ends(client[k].revision, client[k].attached, s \o <<m>>, v)
      BY <1>4, <3>3, <3>4, EndsLast
    <3>6. Shows(k, c)'
      BY <3>2, <3>3, <3>5 DEF Shows
    <3> QED BY <1>3, <2>2, <3>6 DEF Trusts
  <2> QED BY <1>12, <2>1, <2>2
<1> QED BY <1>5, <1>7, <1>8, <1>9, <1>11, <1>12, ServingSends

(* It answers nothing yet.                                                 *)
LEMMA ServingTakes ==
    ASSUME Settled, Links, NEW c, NEW r, Takes(c, r), NEW u, tasks' = tasks \cup {u}, TaskOf(c, r, u),
           UNCHANGED <<queued, toClient>>, \A d \in Conns : d # c => Steady(d) /\ (d \in skewed' <=> d \in skewed),
           Steady(c) \/ Enters(c) \/ Leaves(c),
           (Steady(c) /\ (c \in skewed' <=> c \in skewed)) \/ u.at \in {"attached", "telling"} \/ (u.at = "disposal" /\ u.cmd = "detach")
    PROVE  Serving
<1>1. UNCHANGED <<stage, closed, handshake, revision, broadcast>> /\ u.conn = c
  BY TakesFacts DEF TaskOf
<1>2. queued' \in Nat
  BY DEF Links
<1>3. Works
  BY <1>2, WorksTakes
<1>4. ToSet(<<>>) = {} /\ \A d \in Conns : Due(d) => Due(d)'
  BY <1>1 DEF ToSet, Due
<1>5. ASSUME NEW d \in Conns, d \notin skewed' PROVE Due(d)' \/ Calm(d, <<>>)
  <2>1. CASE Steady(d) /\ (d \in skewed' <=> d \in skewed)
    BY <1>1, <1>4, <1>5, <2>1 DEF Calm, Steady
  <2>2. CASE d = c /\ (u.at \in {"attached", "telling"} \/ (u.at = "disposal" /\ u.cmd = "detach"))
    BY <1>1, <2>2 DEF Due
  <2> QED BY <2>1, <2>2
<1> QED BY <1>3, <1>5, ServingSilent

LEMMA ServingAcquire ==
    ASSUME Settled, Attachments, Links, NEW c, NEW r, Takes(c, r), r.cmd \in {"create", "attach"}, Acquire(r, c)
    PROVE  Serving
<1>1. r \in Work(c) /\ r \in Request /\ c \in Conns /\ Open(c) /\ queued \in Nat
  BY TakesFacts DEF Takes, Links
<1>2. CASE UNCHANGED <<tasks, sessionIds, skewed, queued>> /\ live # 0 /\ lives[live].terminal
           /\ Send([x \in {c} |-> <<Response(r, FALSE, FALSE)>>])
  <2>1. PICK m : m = Response(r, FALSE, FALSE)
    OBVIOUS
  <2>7. PICK ms : ms = [x \in {c} |-> <<m>>]
    OBVIOUS
  <2>2. m \in Message /\ m.type = "response" /\ m.id = r.id /\ ~m.ok /\ DOMAIN ms = {c} /\ ms[c] = <<m>> /\ Send(ms)
    <3>1. r.id \in Nat
      BY <1>1 DEF Request
    <3>2. m \in Message /\ m.type = "response" /\ m.id = r.id /\ ~m.ok
      BY <2>1, <3>1 DEF Response, Message
    <3>3. DOMAIN ms = {c} /\ ms[c] = <<m>> /\ Send(ms)
      BY <1>2, <2>1, <2>7
    <3> QED BY <3>2, <3>3
  <2>3. \A d \in Conns : Steady(d) /\ (d \in skewed' <=> d \in skewed)
    BY <1>2 DEF Steady
  <2>4. c \notin sessionIds \/ c \in skewed
    BY <1>1, <1>2 DEF Attachments, Sound, Open
  <2>5. Proper(c, r.cmd, m)'
    BY <1>2, <2>2, <2>4 DEF Proper
  <2>6. (c \notin skewed' => c \notin skewed) /\ queued' \in Nat /\ queued' >= queued /\ UNCHANGED tasks
    BY <1>1, <1>2
  <2> QED BY <1>1, <2>2, <2>3, <2>5, <2>6, ServingReplies
<1>3. ASSUME UNCHANGED <<sessionIds, skewed, toClient, queued>>, NEW at \in {"opening", "disposal"}, NEW o \in BOOLEAN,
             tasks' = tasks \cup {[Task(r, c, at, live) EXCEPT !.opener = o]}
      PROVE  Serving
  <2>1. PICK u : u = [Task(r, c, at, live) EXCEPT !.opener = o]
    OBVIOUS
  <2>2. u.id = r.id /\ u.cmd = r.cmd /\ u.conn = c /\ u.at = at
    BY <2>1 DEF Task
  <2>3. TaskOf(c, r, u)
    BY <1>3, <2>2 DEF TaskOf
  <2>4. tasks' = tasks \cup {u} /\ \A d \in Conns : Steady(d) /\ (d \in skewed' <=> d \in skewed)
    BY <1>3, <2>1 DEF Steady
  <2> QED BY <1>1, <1>3, <2>3, <2>4, ServingTakes
<1>4. CASE Attached(r, c) /\ UNCHANGED queued
  <2>1. PICK u : u = Task(r, c, "attached", live)
    OBVIOUS
  <2>2. u.id = r.id /\ u.cmd = r.cmd /\ u.conn = c /\ u.at = "attached"
    BY <2>1 DEF Task
  <2>3. tasks' = tasks \cup {u} /\ sessionIds' = sessionIds \cup {c} /\ skewed' = skewed \ {c} /\ UNCHANGED <<queued, toClient>>
    BY <1>4, <2>1 DEF Attached
  <2>4. TaskOf(c, r, u)
    BY <2>2, <2>3 DEF TaskOf
  <2>5. Enters(c) /\ \A d \in Conns : d # c => Steady(d) /\ (d \in skewed' <=> d \in skewed)
    BY <1>1, <2>3 DEF Enters, Steady
  <2> QED BY <2>2, <2>3, <2>4, <2>5, ServingTakes
<1>5. PICK opens \in BOOLEAN : opens = MayOpen
  BY DEF MayOpen
<1>6. PICK at \in {"opening", "disposal"} : at = IF opens \/ opening # "no" THEN "opening" ELSE "disposal"
  OBVIOUS
<1>7. \/ /\ UNCHANGED <<tasks, sessionIds, skewed, queued>> /\ live # 0 /\ lives[live].terminal
         /\ Send([x \in {c} |-> <<Response(r, FALSE, FALSE)>>])
      \/ UNCHANGED <<sessionIds, skewed, toClient, queued>> /\ tasks' = tasks \cup {[Task(r, c, at, live) EXCEPT !.opener = opens]}
      \/ Attached(r, c) /\ UNCHANGED queued
  BY <1>5, <1>6 DEF Acquire
<1> QED BY <1>2, <1>3, <1>4, <1>7

LEMMA ServingOperate ==
    ASSUME Settled, Links, NEW c, NEW r, Takes(c, r), r.cmd = "op", Operate(r, c)
    PROVE  Serving
<1>1. r \in Work(c) /\ r \in Request /\ c \in Conns /\ queued \in Nat
  BY TakesFacts DEF Takes, Links
<1>2. UNCHANGED <<sessionIds, queued, skewed>> /\ \A d \in Conns : Steady(d) /\ (d \in skewed' <=> d \in skewed)
  BY DEF Operate, Steady
<1>3. CASE tasks' = tasks \cup {Task(r, c, "running", live)} /\ UNCHANGED toClient
  <2>1. PICK u : u = Task(r, c, "running", live)
    OBVIOUS
  <2>2. u.id = r.id /\ u.cmd = r.cmd /\ u.conn = c /\ u.at = "running"
    BY <2>1 DEF Task
  <2>3. TaskOf(c, r, u) /\ tasks' = tasks \cup {u}
    BY <1>3, <2>1, <2>2 DEF TaskOf
  <2> QED BY <1>1, <1>2, <1>3, <2>3, ServingTakes
<1>4. CASE Send([x \in {c} |-> <<Response(r, FALSE, FALSE)>>]) /\ UNCHANGED tasks
  <2>1. PICK m : m = Response(r, FALSE, FALSE)
    OBVIOUS
  <2>7. PICK ms : ms = [x \in {c} |-> <<m>>]
    OBVIOUS
  <2>2. m \in Message /\ m.type = "response" /\ m.id = r.id /\ ~m.ok /\ DOMAIN ms = {c} /\ ms[c] = <<m>> /\ Send(ms)
    <3>1. r.id \in Nat
      BY <1>1 DEF Request
    <3>2. m \in Message /\ m.type = "response" /\ m.id = r.id /\ ~m.ok
      BY <2>1, <3>1 DEF Response, Message
    <3>3. DOMAIN ms = {c} /\ ms[c] = <<m>> /\ Send(ms)
      BY <1>4, <2>1, <2>7
    <3> QED BY <3>2, <3>3
  <2>3. Proper(c, r.cmd, m)'
    BY DEF Proper
  <2>4. (c \notin skewed' => c \notin skewed) /\ queued' \in Nat /\ queued' >= queued /\ UNCHANGED tasks
    BY <1>1, <1>2, <1>4
  <2> QED BY <1>1, <1>2, <2>2, <2>3, <2>4, ServingReplies
<1> QED BY <1>3, <1>4 DEF Operate

LEMMA ServingDetach ==
    ASSUME Settled, Links, NEW c, NEW r, Takes(c, r), r.cmd = "detach", Detach(r, c)
    PROVE  Serving
<1>1. r \in Work(c) /\ r \in Request /\ c \in Conns /\ queued \in Nat
  BY TakesFacts DEF Takes, Links
<1>2. /\ sessionIds' = sessionIds \ {c}
      /\ skewed' = IF c \in sessionIds \/ handshake[c] = None THEN skewed \ {c} ELSE skewed
  BY DEF Detach
<1>3. Leaves(c) /\ \A d \in Conns : d # c => Steady(d) /\ (d \in skewed' <=> d \in skewed)
  BY <1>1, <1>2 DEF Leaves, Steady
<1>4. ASSUME NEW at \in {"telling", "disposal"}, tasks' = tasks \cup {Task(r, c, at, live)}, UNCHANGED <<queued, toClient>>
      PROVE  Serving
  <2>1. PICK u : u = Task(r, c, at, live)
    OBVIOUS
  <2>2. u.id = r.id /\ u.cmd = r.cmd /\ u.conn = c /\ u.at = at
    BY <2>1 DEF Task
  <2>3. TaskOf(c, r, u) /\ tasks' = tasks \cup {u}
    BY <1>2, <1>4, <2>1, <2>2 DEF TaskOf
  <2> QED BY <1>3, <1>4, <2>2, <2>3, ServingTakes
<1>5. CASE UNCHANGED tasks /\ Send([x \in {c} |-> <<Response(r, TRUE, FALSE)>>])
           /\ (queued' = queued + 1 \/ (queued' = queued /\ c \notin sessionIds))
  <2>1. PICK m : m = Response(r, TRUE, FALSE)
    OBVIOUS
  <2>7. PICK ms : ms = [x \in {c} |-> <<m>>]
    OBVIOUS
  <2>2. m \in Message /\ m.type = "response" /\ m.id = r.id /\ m.ok /\ ~m.attached /\ DOMAIN ms = {c} /\ ms[c] = <<m>> /\ Send(ms)
    <3>1. r.id \in Nat
      BY <1>1 DEF Request
    <3>2. m \in Message /\ m.type = "response" /\ m.id = r.id /\ m.ok /\ ~m.attached
      BY <2>1, <3>1 DEF Response, Message
    <3>3. DOMAIN ms = {c} /\ ms[c] = <<m>> /\ Send(ms)
      BY <1>5, <2>1, <2>7
    <3> QED BY <3>2, <3>3
  <2>3. UNCHANGED tasks /\ queued' \in Nat /\ queued' >= queued
    BY <1>1, <1>5
  <2>4. Proper(c, r.cmd, m)'
    BY <1>2, <2>2 DEF Proper
  <2>5. CASE queued' = queued + 1
    <3>1. Due(c)'
      BY <1>1, <2>5 DEF Due
    <3> QED BY <1>3, <2>2, <2>3, <2>4, <3>1, ServingReplies
  <2>6. CASE c \notin sessionIds
    <3>1. c \notin skewed' => \/ Steady(c) /\ c \notin skewed /\ (m.ok => (m.attached <=> c \in sessionIds))
                              \/ m.ok /\ (m.attached <=> c \in sessionIds') /\ handshake[c] = None
      BY <1>2, <2>2, <2>6 DEF Steady
    <3> QED BY <1>3, <2>2, <2>3, <2>4, <3>1, ServingReplies
  <2> QED BY <1>5, <2>5, <2>6
<1>6. \/ /\ UNCHANGED tasks /\ Send([x \in {c} |-> <<Response(r, TRUE, FALSE)>>])
         /\ queued' = queued + 1 \/ (queued' = queued /\ c \notin sessionIds)
      \/ tasks' = tasks \cup {Task(r, c, "telling", live)} /\ UNCHANGED <<queued, toClient>>
      \/ tasks' = tasks \cup {Task(r, c, "disposal", live)} /\ UNCHANGED <<queued, toClient>>
  BY DEF Detach
<1> QED BY <1>4, <1>5, <1>6

LEMMA ServingDispatch ==
    ASSUME Settled, Attachments, Links, UNCHANGED clientVars, NEW c \in Conns, Dispatch(c)
    PROVE  Serving
<1>1. PICK r : r = Head(toServer[c])
  OBVIOUS
<1>2. Takes(c, r)
  BY <1>1 DEF Dispatch, Takes, Open
<1>3. \/ r.cmd \in {"create", "attach"} /\ Acquire(r, c)
      \/ r.cmd = "detach" /\ Detach(r, c)
      \/ r.cmd = "op" /\ Operate(r, c)
  BY <1>1 DEF Dispatch
<1> QED BY <1>2, <1>3, ServingAcquire, ServingDetach, ServingOperate

LEMMA ServingServer ==
    ASSUME Settled, Attachments, Links, Beliefs, Server
    PROVE  Serving
<1>0. UNCHANGED clientVars
  BY DEF Server
<1>1. ASSUME NEW c \in Conns, CatchUp(c) PROVE Serving
  <2>1. CASE handshake[c].made
    BY <1>0, <1>1, <2>1, ServingMade
  <2>2. CASE ~handshake[c].made
    BY <1>0, <1>1, <2>2, ServingMakes
  <2> QED BY <2>1, <2>2
<1>2. ASSUME NEW c, c \in Conns \/ c \in closed, Gone(c) \/ Break(c) PROVE Serving
  <2>1. c \in Conns
    BY <1>2 DEF Settled, AnswerInv, Owned
  <2> QED BY <1>0, <1>2, <2>1, ServingDisconnects DEF Gone, Break
<1>3. ASSUME NEW t \in tasks, FinishAttach(t) \/ FinishTelling(t) \/ FinishOperation(t) PROVE Serving
  BY <1>0, <1>3, ServingAttach, ServingTelling, ServingOperation
<1>4. CASE ServerGoes
  <2>1. ASSUME NEW i \in DOMAIN lives, RunEnds(i) PROVE Serving
    BY <1>0, <2>1, ServingRun
  <2>2. ASSUME NEW i \in DOMAIN lives, Disposed(i, TRUE) PROVE Serving
    BY <1>0, <2>2, ServingDisposed
  <2>3. ASSUME NEW c \in Conns, SendHello(c) PROVE Serving
    BY <1>0, <2>3, ServingHello
  <2>4. ASSUME Acquired \/ Opened \/ CloseSessions \/ SendSnapshot PROVE Serving
    BY <1>0, <2>4, ServingEvents, ServingOpened, ServingSnapshot
  <2> QED BY <1>1, <1>2, <1>3, <1>4, <2>1, <2>2, <2>3, <2>4 DEF ServerGoes
<1>5. CASE ServerFails
  <2>1. ASSUME NEW i \in DOMAIN lives, Terminate(i) PROVE Serving
    BY <1>0, <2>1, ServingEvents
  <2>2. ASSUME NEW i \in DOMAIN lives, Disposed(i, FALSE) PROVE Serving
    BY <1>0, <2>2, ServingUndisposed
  <2>3. ASSUME OpenFails \/ \E t \in tasks : AttachFails(t) PROVE Serving
    BY <1>0, <2>3, ServingFails
  <2> QED BY <1>2, <1>5, <2>1, <2>2, <2>3 DEF ServerFails
<1>6. CASE Close
  BY <1>0, <1>6, ServingEvents
<1> QED BY <1>2, <1>4, <1>5, <1>6 DEF Server

LEMMA AgreeServing ==
    ASSUME Settled, Settled', Phases, Links, Beliefs, Serving
    PROVE  Links' /\ Beliefs'
<1>1. Links'
  <2>1. Works /\ \A c \in Conns : \E x \in Seq(Message) : Adds(c, x)
    BY DEF Serving
  <2> QED BY <2>1, LinksWorks
<1>2. Revisions'
  BY RevisionsWorks DEF Beliefs
<1>3. ASSUME NEW k \in Clients PROVE Believes(k)'
  BY <1>1, BelievesWorks DEF Beliefs
<1> QED BY <1>1, <1>2, <1>3 DEF Beliefs

-----------------------------------------------------------------------------
(* The steps of the clients.                                               *)

(* A step of k that loses the requests not in p, and may send one.         *)
ClientDoes(k, p) ==
    /\ UNCHANGED <<stage, closed, handshake, sessionIds, tasks, revision, broadcast, queued>>
    /\ skewed \subseteq skewed'
    /\ Sends(k, p) /\ p \subseteq pending
    /\ \A r \in pending \ p : r.client = k
    /\ client'[k].conn \in {client[k].conn, 0}
    /\ client'[k].conn # 0 => \A r \in pending \ p : \A d \in Conns : \A w \in Work(d) : w.id # r.id
    /\ \A j \in Clients : j # k => client'[j] = client[j]
    /\ \A x \in Leases : x \notin Of(k) => lease'[x] = lease[x]
    /\ \A c \in Conns : /\ ToSet(toClient'[c]) \subseteq ToSet(toClient[c])
                        /\ toClient[c] = <<>> => toClient'[c] = <<>>
                        /\ c # client[k].conn => toClient'[c] = toClient[c]

LEMMA LinksClient ==
    ASSUME Settled, Links, NEW k \in Clients, NEW p, ClientDoes(k, p),
           \A c \in Conns : c = client'[k].conn /\ Open(c) /\ c \notin skewed' =>
               /\ In(k, {"active"})' # {} => c \in sessionIds
               /\ c \in sessionIds => In(k, {"active"})' # {} \/ Controls(k)' # {}
    PROVE  Links'
<1>0. Kinds /\ Once /\ Begun /\ Linked /\ (\A j \in Clients : Right(j)) /\ Owned /\ Asked /\ queued \in Nat /\ lastRequest \in Nat
  BY DEF Links, Settled, AnswerInv, RuntimeInv, Shape
<1>1. /\ UNCHANGED <<stage, closed, handshake, sessionIds, tasks, revision, broadcast, queued>> /\ skewed \subseteq skewed'
      /\ p \subseteq pending /\ \A r \in pending \ p : r.client = k
      /\ \A j \in Clients : j # k => client'[j] = client[j]
      /\ \A c \in Conns : ToSet(toClient'[c]) \subseteq ToSet(toClient[c])
  BY DEF ClientDoes
<1>s. Sends(k, p) /\ AnswerInv /\ RuntimeInv
  BY DEF ClientDoes, Settled
<1>2. lastRequest' \in Nat /\ lastRequest <= lastRequest'
  BY <1>s, SendsFacts
<1>3. \/ pending' = p /\ \A c \in Conns : toServer'[c] = toServer[c]
      \/ \E r \in Request : /\ r.client = k /\ r.id = lastRequest + 1 /\ r.id = lastRequest' /\ pending' = p \cup {r} /\ client[k].connected
                            /\ \A c \in Conns : ToSet(toServer'[c]) = IF c = client[k].conn THEN ToSet(toServer[c]) \cup {r}
                                                                     ELSE ToSet(toServer[c])
  BY <1>s, SendsFacts
<1>4. ASSUME NEW d \in Conns, NEW w \in Work(d)', w \notin Work(d)
      PROVE  w.id = lastRequest + 1 /\ w.id = lastRequest' /\ w \in pending' /\ w.client = k /\ d = client[k].conn /\ client[k].connected
  <2>1. w \in ToSet(toServer'[d]) /\ w \notin ToSet(toServer[d])
    BY <1>1, <1>4 DEF Work
  <2> QED BY <1>3, <2>1
<1>5. \A r \in pending' : r \in p \/ (r.client = k /\ r.id = lastRequest + 1)
  BY <1>3
<1>6. p \subseteq pending'
  BY <1>3
<1>7. Once'
  <2> SUFFICES ASSUME NEW c \in Conns, NEW m \in ToSet(toClient'[c]), m.type = "response"
               PROVE  m.id <= lastRequest' /\ \A d \in Conns : \A w \in Work(d)' : w.id # m.id
    BY DEF Once
  <2>1. m.id <= lastRequest /\ \A d \in Conns : \A w \in Work(d) : w.id # m.id
    BY <1>0, <1>1 DEF Once
  <2>2. m.id \in Nat
    <3>1. toClient[c] \in Seq(Message) /\ m \in ToSet(toClient[c])
      BY <1>1 DEF Settled, AnswerInv, Sent
    <3>2. m \in Message
      BY <3>1, SeqFacts
    <3> QED BY <3>2 DEF Message
  <2> QED BY <1>0, <1>2, <1>4, <2>1, <2>2
<1>8. Begun'
  <2> SUFFICES ASSUME NEW c \in Conns
               PROVE  /\ stage[c] = "none" => Work(c)' = {}
                      /\ stage[c] \in {"none", "handshaking"} => toClient'[c] = <<>>
                      /\ stage[c] = "handshaking" => ~handshake[c].made
                      /\ broadcast # None /\ c \in broadcast.to => stage[c] \in {"ready", "closed"}
    BY <1>1 DEF Begun
  <2>1. stage[c] = "none" => Work(c)' = {}
    <3>1. client[k].conn = c => stage[c] # "none"
      BY <1>0, RemoteAssumption DEF Owned, Conns
    <3> QED BY <1>0, <1>4, <3>1 DEF Begun
  <2>2. toClient[c] = <<>> => toClient'[c] = <<>>
    BY DEF ClientDoes
  <2> QED BY <1>0, <2>1, <2>2 DEF Begun
<1>9. Linked'
  <2> SUFFICES ASSUME NEW c \in Conns, NEW j \in Clients, client'[j].conn = c, NEW w \in Work(c)'
               PROVE  \E r \in pending' : r.id = w.id /\ r.cmd = w.cmd /\ r.client = j
    BY DEF Linked
  <2>0. client[j].conn = c /\ c # 0
    BY <1>1, RemoteAssumption DEF ClientDoes, Conns
  <2>1. CASE w \in Work(c)
    <3>1. PICK r \in pending : r.id = w.id /\ r.cmd = w.cmd /\ r.client = j
      BY <1>0, <2>0, <2>1 DEF Linked
    <3>2. r \in p
      BY <2>0, <2>1, <3>1 DEF ClientDoes
    <3> QED BY <1>6, <3>1, <3>2
  <2>2. CASE w \notin Work(c)
    <3>1. w \in pending' /\ w.client = k /\ c = client[k].conn
      BY <1>4, <2>2
    <3>2. j = k
      BY <1>0, <2>0, <3>1 DEF Owned
    <3> QED BY <3>1, <3>2
  <2> QED BY <2>1, <2>2
<1>10. ASSUME NEW j \in Clients PROVE Right(j)'
  <2> SUFFICES ASSUME NEW c \in Conns, c = client'[j].conn, Open(c)
               PROVE  /\ \A r \in pending', m \in ToSet(toClient'[c]) :
                            r.client = j /\ m.type = "response" /\ m.id = r.id => Proper(c, r.cmd, m)'
                      /\ \A t \in tasks : t.conn = c => /\ t.at = "attached" => c \in sessionIds
                                                        /\ t.cmd = "detach" => c \notin sessionIds
                      /\ c \notin skewed' => /\ In(j, {"active"})' # {} => c \in sessionIds
                                             /\ c \in sessionIds => In(j, {"active"})' # {} \/ Controls(j)' # {}
    BY <1>1 DEF Right, Open
  <2>0. client[j].conn = c /\ Right(j)
    BY <1>0, <1>1, RemoteAssumption DEF ClientDoes, Conns
  <2>1. ASSUME NEW r \in pending', NEW m \in ToSet(toClient'[c]), r.client = j, m.type = "response", m.id = r.id
        PROVE  Proper(c, r.cmd, m)'
    <3>1. m \in ToSet(toClient[c])
      BY <1>1, <2>1
    <3>2. m.id <= lastRequest
      BY <1>0, <2>1, <3>1 DEF Once
    <3>3. r \in pending
      BY <1>0, <1>1, <1>5, <2>1, <3>2
    <3>4. Proper(c, r.cmd, m)
      BY <2>0, <2>1, <3>1, <3>3 DEF Right
    <3> QED BY <1>1, <3>4 DEF Proper
  <2>2. \A t \in tasks : t.conn = c => /\ t.at = "attached" => c \in sessionIds
                                       /\ t.cmd = "detach" => c \notin sessionIds
    BY <2>0 DEF Right
  <2>3. CASE j = k
    BY <2>1, <2>2, <2>3
  <2>4. CASE j # k
    <3>1. In(j, {"active"})' = In(j, {"active"})
      <4>1. \A x \in Of(j) : x \in Leases /\ x \notin Of(k)
        BY <2>4 DEF Of
      <4>2. \A x \in Of(j) : lease'[x] = lease[x]
        BY <4>1 DEF ClientDoes
      <4> QED BY <4>2 DEF In, Of
    <3>2. Controls(j)' = Controls(j)
      BY <1>1, <1>5, <1>6, <2>4 DEF Controls
    <3>3. c \notin skewed' => c \notin skewed
      BY <1>1
    <3>4. c \notin skewed => /\ In(j, {"active"}) # {} => c \in sessionIds
                             /\ c \in sessionIds => In(j, {"active"}) # {} \/ Controls(j) # {}
      BY <2>0 DEF Right
    <3> QED BY <2>1, <2>2, <3>1, <3>2, <3>3, <3>4
  <2> QED BY <2>3, <2>4
<1>11. Kinds' /\ queued' \in Nat
  BY <1>0, <1>1 DEF Kinds
<1> QED BY <1>7, <1>8, <1>9, <1>10, <1>11 DEF Links

LEMMA BeliefsClient ==
    ASSUME Settled, Beliefs, NEW k \in Clients, NEW p, ClientDoes(k, p), client'[k].revision <= revision,
           \A c \in Conns : client'[k].conn = c =>
               /\ stage[c] = "handshaking" => ~client'[k].attached
               /\ Open(c) /\ c \notin skewed /\ ~Due(c) /\ Shows(k, c) /\ Trusts(k, c) => Shows(k, c)' /\ Trusts(k, c)'
    PROVE  Beliefs'
<1>1. /\ UNCHANGED <<stage, closed, handshake, sessionIds, tasks, revision, broadcast, queued>> /\ skewed \subseteq skewed'
      /\ \A j \in Clients : j # k => client'[j] = client[j]
      /\ \A c \in Conns : /\ ToSet(toClient'[c]) \subseteq ToSet(toClient[c])
                          /\ c # client[k].conn => toClient'[c] = toClient[c]
  BY DEF ClientDoes
<1>2. Revisions'
  <2>1. Revisions
    BY DEF Beliefs
  <2>2. \A j \in Clients : client'[j].revision <= revision
    BY <1>1, <2>1 DEF Revisions
  <2> QED BY <1>1, <2>1, <2>2 DEF Revisions, Numbers
<1>3. ASSUME NEW j \in Clients PROVE Believes(j)'
  <2>0. Believes(j)
    BY DEF Beliefs
  <2> SUFFICES ASSUME NEW c \in Conns, client'[j].conn = c
               PROVE  /\ stage[c] = "handshaking" => ~client'[j].attached
                      /\ Open(c) /\ c \notin skewed' /\ ~Due(c) => Shows(j, c)' /\ Trusts(j, c)'
    BY <1>1 DEF Believes, Open, Due
  <2>1. client[j].conn = c
    BY RemoteAssumption, <1>1 DEF ClientDoes, Conns
  <2>2. /\ stage[c] = "handshaking" => ~client[j].attached
        /\ Open(c) /\ c \notin skewed /\ ~Due(c) => Shows(j, c) /\ Trusts(j, c)
    BY <2>0, <2>1 DEF Believes
  <2>3. CASE j = k
    BY <1>1, <2>2, <2>3
  <2>4. CASE j # k
    <3>1. c # client[k].conn
      BY <2>1, <2>4, RemoteAssumption DEF Settled, AnswerInv, Owned, Conns
    <3>2. client'[j] = client[j] /\ toClient'[c] = toClient[c] /\ sessionIds' = sessionIds /\ handshake' = handshake
      BY <1>1, <2>4, <3>1
    <3>3. (Shows(j, c)' <=> Shows(j, c)) /\ (Trusts(j, c)' <=> Trusts(j, c))
      BY <3>2 DEF Shows, Trusts
    <3> QED BY <1>1, <2>2, <3>2, <3>3
  <2> QED BY <2>3, <2>4
<1> QED BY <1>2, <1>3 DEF Beliefs

(* Neither what k believes nor what it is told changes.                    *)
LEMMA BeliefsSame ==
    ASSUME Settled, Beliefs, NEW k \in Clients, NEW p, ClientDoes(k, p), toClient' = toClient,
           client'[k].revision = client[k].revision, client'[k].attached = client[k].attached
    PROVE  Beliefs'
<1>1. UNCHANGED <<handshake, sessionIds>>
  BY DEF ClientDoes
<1>2. client'[k].revision <= revision
  BY DEF Beliefs, Revisions
<1>3. ASSUME NEW c \in Conns, client'[k].conn = c
      PROVE  /\ stage[c] = "handshaking" => ~client'[k].attached
             /\ Open(c) /\ c \notin skewed /\ ~Due(c) /\ Shows(k, c) /\ Trusts(k, c) => Shows(k, c)' /\ Trusts(k, c)'
  <2>1. client[k].conn = c
    BY <1>3, RemoteAssumption DEF ClientDoes, Conns
  <2>2. stage[c] = "handshaking" => ~client'[k].attached
    BY <2>1 DEF Beliefs, Believes
  <2>3. (Shows(k, c)' <=> Shows(k, c)) /\ (Trusts(k, c)' <=> Trusts(k, c))
    BY <1>1 DEF Shows, Trusts
  <2> QED BY <2>2, <2>3
<1> QED BY <1>2, <1>3, BeliefsClient

(* A call of the user of k.                                                *)
LEMMA AgreeUser ==
    ASSUME Settled, Links, Beliefs, NEW k \in Clients,
           UNCHANGED <<stage, closed, handshake, sessionIds, tasks, revision, broadcast, queued, toClient>>,
           skewed \subseteq skewed', Sends(k, pending), NEW cl, client' = [client EXCEPT ![k] = cl],
           cl.conn = client[k].conn, cl.revision = client[k].revision, cl.attached = client[k].attached,
           \A x \in Leases : x \notin Of(k) => lease'[x] = lease[x],
           In(k, {"active"})' # {} => \/ In(k, {"active"}) # {}
                                      \/ client[k].conn \in sessionIds \/ client[k].conn \in skewed',
           In(k, {"active"}) # {} \/ Controls(k) # {} => In(k, {"active"})' # {} \/ Controls(k)' # {}
    PROVE  Links' /\ Beliefs'
<1>1. Owned /\ Right(k)
  BY DEF Settled, AnswerInv, Links
<1>2. client'[k] = cl /\ \A j \in Clients : j # k => client'[j] = client[j]
  BY <1>1 DEF Owned
<1>3. ClientDoes(k, pending)
  BY <1>2 DEF ClientDoes
<1>4. ASSUME NEW c \in Conns, c = client'[k].conn, Open(c), c \notin skewed'
      PROVE  /\ In(k, {"active"})' # {} => c \in sessionIds
             /\ c \in sessionIds => In(k, {"active"})' # {} \/ Controls(k)' # {}
  <2>1. c = client[k].conn /\ c \notin skewed
    BY <1>2, <1>4
  <2>2. /\ In(k, {"active"}) # {} => c \in sessionIds
        /\ c \in sessionIds => In(k, {"active"}) # {} \/ Controls(k) # {}
    BY <1>1, <1>4, <2>1 DEF Right
  <2> QED BY <1>4, <2>1, <2>2
<1>5. Links'
  BY <1>3, <1>4, LinksClient
<1>6. Beliefs'
  BY <1>2, <1>3, BeliefsSame
<1> QED BY <1>5, <1>6

(* A call that only asks.                                                  *)
LEMMA AgreeAsks ==
    ASSUME Settled, Links, Beliefs, NEW l \in Leases, createSession(l) \/ request(l)
    PROVE  Links' /\ Beliefs'
<1>k. PICK k : k = OwnerOf(l)
  OBVIOUS
<1>1. k \in Clients /\ l \in Of(k) /\ Owned
      /\ lease \in [Leases -> [state : LeaseStates, mode : {"shared", "exclusive"}]]
  BY <1>k, RemoteAssumption DEF Of, Settled, AnswerInv, LeaseInv
<1>2. /\ client' = client /\ client[k].connected /\ \E cmd \in {"create", "op"} : Requested(k, cmd, l, pending)
      /\ UNCHANGED <<stage, closed, handshake, sessionIds, tasks, revision, broadcast, queued, toClient, skewed>>
      /\ lease' = lease \/ (lease[l].state = "free" /\ lease' = [lease EXCEPT ![l] = [state |-> "creating", mode |-> "exclusive"]])
  BY <1>k DEF createSession, request, Usable, Connected, connVars, serverVars, sessions, publisher
<1>3. Sends(k, pending)
  BY <1>1, <1>2 DEF Sends
<1>4. client' = [client EXCEPT ![k] = client[k]]
  BY <1>1, <1>2, SameClient
<1>5. In(k, {"active"})' = In(k, {"active"})
  <2>1. \A x \in Leases : lease'[x].state = "active" <=> lease[x].state = "active"
    BY <1>1, <1>2
  <2> QED BY <2>1 DEF In, Of
<1>6. \A x \in Leases : x \notin Of(k) => lease'[x] = lease[x]
  BY <1>1, <1>2
<1>7. pending \subseteq pending'
  BY <1>2 DEF Requested
<1>8. Controls(k) \subseteq Controls(k)'
  BY <1>7 DEF Controls
<1> QED BY <1>1, <1>2, <1>3, <1>4, <1>5, <1>6, <1>8, AgreeUser

LEMMA AgreeAcquires ==
    ASSUME Settled, Links, Beliefs, NEW l \in Leases, NEW mode, acquireSession(l, mode)
    PROVE  Links' /\ Beliefs'
<1>k. PICK k : k = OwnerOf(l)
  OBVIOUS
<1>0. PICK st : st = IF Detaching(k) THEN "waiting" ELSE Step(client[k])
  OBVIOUS
<1>1. k \in Clients /\ l \in Of(k) /\ client[k] \in Client /\ Owned
      /\ lease \in [Leases -> [state : LeaseStates, mode : {"shared", "exclusive"}]]
  BY <1>k, RemoteAssumption DEF Of, Settled, AnswerInv, Owned, LeaseInv
<1>2. /\ lease[l].state = "free" /\ client[k].connected
      /\ client' = [client EXCEPT ![k] = Reserved(client[k], l, mode)]
      /\ lease' = [lease EXCEPT ![l] = [state |-> st, mode |-> mode]] /\ Asks(k, st, pending)
      /\ UNCHANGED <<stage, closed, handshake, sessionIds, tasks, revision, broadcast, queued, toClient>>
      /\ skewed' = IF st = "active" /\ client[k].conn \notin sessionIds THEN skewed \cup {client[k].conn} ELSE skewed
  BY <1>0, <1>k DEF acquireSession, Connected, connVars, sessions, publisher
<1>3. PICK cl : cl = Reserved(client[k], l, mode)
  OBVIOUS
<1>4. cl.conn = client[k].conn /\ cl.revision = client[k].revision /\ cl.attached = client[k].attached
  BY <1>1, <1>3, ClientKeeps
<1>5. Sends(k, pending)
  BY <1>1, <1>2, AsksSends
<1>6. lease'[l].state = st /\ \A x \in Leases : x # l => lease'[x] = lease[x]
  BY <1>1, <1>2
<1>7. In(k, {"active"})' = IF st = "active" THEN In(k, {"active"}) \cup {l} ELSE In(k, {"active"})
  BY <1>1, <1>2, <1>6 DEF In, Of
<1>8. \A r : r \in pending => r \in pending'
  BY <1>2, AsksFacts
<1>9. Controls(k) \subseteq Controls(k)'
  BY <1>8 DEF Controls
<1>10. \A x \in Leases : x \notin Of(k) => lease'[x] = lease[x]
  BY <1>1, <1>6
<1> QED BY <1>1, <1>2, <1>3, <1>4, <1>5, <1>7, <1>9, <1>10, AgreeUser

LEMMA AgreeReleases ==
    ASSUME Settled, Phases, Links, Beliefs, NEW l \in Leases, NEW how \in {"detaching", "disposing"}, release(l, how)
    PROVE  Links' /\ Beliefs'
<1>k. PICK k : k = OwnerOf(l)
  OBVIOUS
<1>1. k \in Clients /\ l \in Of(k) /\ Owned /\ client[k] \in Client
      /\ lease \in [Leases -> [state : LeaseStates, mode : {"shared", "exclusive"}]]
      /\ client[k].count = Cardinality(Held(k))
  BY <1>k, RemoteAssumption DEF Of, Settled, AnswerInv, LeaseInv, Owned, Tidy
<1>2. /\ lease[l].state = "active" /\ l \in Held(k) /\ l \in In(k, {"active"}) /\ client[k].connected
      /\ UNCHANGED <<stage, closed, handshake, sessionIds, tasks, revision, broadcast, queued, toClient, skewed>>
  BY <1>1, <1>k DEF release, Usable, Connected, Held, In, connVars, serverVars, sessions, publisher
<1>3. CASE IsLast(k)
  <2>1. lease' = Set({l}, how) /\ Requested(k, "detach", l, pending) /\ client' = client
    BY <1>3, <1>k DEF release
  <2>2. PICK q : q = [id |-> lastRequest + 1, cmd |-> "detach", lease |-> l, client |-> k]
    OBVIOUS
  <2>3. q \in pending' /\ q.client = k /\ q.cmd = "detach"
    BY <2>1, <2>2 DEF Requested
  <2>4. q \in Controls(k)'
    BY <2>3 DEF Controls
  <2>5. Sends(k, pending)
    BY <1>1, <1>2, <2>1 DEF Sends
  <2>6. client' = [client EXCEPT ![k] = client[k]]
    BY <1>1, <2>1, SameClient
  <2>7. \A x \in Leases : x \notin Of(k) => lease'[x] = lease[x]
    BY <1>1, <2>1 DEF Set
  <2> QED BY <1>1, <1>2, <2>4, <2>5, <2>6, <2>7, AgreeUser
<1>4. CASE ~IsLast(k)
  <2>1. /\ lease' = [lease EXCEPT ![l] = Free] /\ client' = [client EXCEPT ![k] = Released(client[k], {l})]
        /\ pending' = pending /\ UNCHANGED <<lastRequest, toServer>>
    BY <1>4, <1>k DEF release
  <2>2. \A x \in Leases : x # l => lease'[x] = lease[x]
    BY <1>1, <2>1
  <2>3. PICK cl : cl = Released(client[k], {l})
    OBVIOUS
  <2>4. cl.conn = client[k].conn /\ cl.revision = client[k].revision /\ cl.attached = client[k].attached
    BY <1>1, <2>3, ClientKeeps
  <2>5. Controls(k)' = Controls(k)
    BY <2>1 DEF Controls
  <2>6. In(k, {"active"})' # {} \/ Controls(k)' # {}
    <3>1. CASE Controls(k) = {}
      <4>1. Idle(k)
        BY <1>1, <3>1 DEF Phases, Phase
      <4>2. PICK x \in Held(k) : x # l
        <5>1. PICK s : s = {l}
          OBVIOUS
        <5>2. Cardinality(s) = 1
          BY <5>1, FS_Singleton
        <5>3. Held(k) # s
          <6>1. ~(Cardinality(Held(k)) <= 1)
            BY <1>1, <1>4 DEF IsLast
          <6> QED BY <5>2, <6>1
        <5> QED BY <1>2, <5>1, <5>3
      <4>3. x \in Of(k) /\ lease'[x].state = "active"
        BY <2>2, <4>1, <4>2 DEF Idle, Only, Held, Of
      <4> QED BY <4>3 DEF In, Of
    <3> QED BY <2>5, <3>1
  <2>7. Sends(k, pending)
    BY <2>1 DEF Sends
  <2>8. \A x \in Leases : x \notin Of(k) => lease'[x] = lease[x]
    BY <1>1, <2>2
  <2> QED BY <1>1, <1>2, <2>1, <2>3, <2>4, <2>6, <2>7, <2>8, AgreeUser
<1> QED BY <1>3, <1>4

LEMMA AgreeLeaves ==
    ASSUME Settled, Links, Beliefs, NEW k \in Clients, Disconnect(k)
    PROVE  Links' /\ Beliefs'
<1>1. Owned /\ toClient \in [Conns -> Seq(Message)] /\ revision \in Nat
  BY DEF Settled, AnswerInv, Sent, Owned
<1>2. PICK p : p = {r \in pending : r.client # k}
  OBVIOUS
<1>3. /\ UNCHANGED <<stage, closed, handshake, sessionIds, tasks, revision, broadcast, queued, skewed>>
      /\ pending' = p /\ UNCHANGED <<toServer, lastRequest>>
      /\ client' = [client EXCEPT ![k] = Unused] /\ toClient' = [toClient EXCEPT ![client[k].conn] = <<>>]
      /\ lease' = [l \in Leases |-> IF l \in Of(k) \ Survivors(k) THEN Free ELSE lease[l]]
  BY <1>2 DEF Disconnect, connVars, serverVars, sessions, publisher
<1>4. client'[k].conn = 0 /\ client'[k].revision = 0 /\ \A j \in Clients : j # k => client'[j] = client[j]
  BY <1>1, <1>3 DEF Owned, Unused
<1>5. \A c \in Conns : toClient'[c] = IF c = client[k].conn THEN <<>> ELSE toClient[c]
  BY <1>1, <1>3
<1>6. ToSet(<<>>) = {}
  BY DEF ToSet
<1>7. \A c \in Conns : /\ ToSet(toClient'[c]) \subseteq ToSet(toClient[c])
                       /\ toClient[c] = <<>> => toClient'[c] = <<>>
                       /\ c # client[k].conn => toClient'[c] = toClient[c]
  BY <1>5, <1>6
<1>8. /\ Sends(k, p) /\ p \subseteq pending /\ \A r \in pending \ p : r.client = k
      /\ \A x \in Leases : x \notin Of(k) => lease'[x] = lease[x]
  BY <1>2, <1>3 DEF Sends
<1>9. ClientDoes(k, p)
  BY <1>3, <1>4, <1>7, <1>8 DEF ClientDoes
<1>10. \A c \in Conns : c # client'[k].conn
  BY <1>4, RemoteAssumption DEF Conns
<1>11. client'[k].revision <= revision
  BY <1>1, <1>4
<1> QED BY <1>9, <1>10, <1>11, LinksClient, BeliefsClient

LEMMA AgreeConnects ==
    ASSUME Settled, Phases, Links, Beliefs, NEW k \in Clients, NEW d \in Conns, Connect(k, d)
    PROVE  Links' /\ Beliefs'
<1>1. /\ Owned /\ Asked /\ revision \in Nat /\ stage \in [Conns -> {"none", "handshaking", "ready", "closed"}]
      /\ client[k].count = Cardinality(Held(k)) /\ client[k].count = 0
      /\ Kinds /\ Once /\ Begun /\ Linked /\ (\A j \in Clients : Right(j)) /\ Revisions /\ (\A j \in Clients : Believes(j))
      /\ queued \in Nat
  BY DEF Settled, AnswerInv, Sent, RuntimeInv, Shape, LeaseInv, Tidy, Connect, Links, Beliefs
<1>2. /\ client[k].conn = 0 /\ client' = [client EXCEPT ![k] = [Unused EXCEPT !.conn = d]]
      /\ stage[d] = "none" /\ stage' = [stage EXCEPT ![d] = "handshaking"]
      /\ handshake' = [handshake EXCEPT ![d] = [revision |-> revision, made |-> FALSE, attached |-> FALSE]]
      /\ UNCHANGED <<toServer, toClient, closed, lease, pending, lastRequest, sessionIds, tasks, revision, broadcast, queued, skewed>>
  BY DEF Connect, Accept, wires, serverVars, sessions, publisher
<1>3. PICK h : h = [revision |-> revision, made |-> FALSE, attached |-> FALSE]
  OBVIOUS
<1>4. h.revision = revision /\ h.made = FALSE /\ h.attached = FALSE
  BY <1>3
<1>5. /\ stage'[d] = "handshaking" /\ \A c \in Conns : c # d => stage'[c] = stage[c]
      /\ handshake'[d] = h /\ \A c \in Conns : c # d => handshake'[c] = handshake[c]
  <2>1. handshake \in [Conns -> Making \cup {None}]
    BY DEF Settled, AnswerInv, Sent
  <2> QED BY <1>1, <1>2, <1>3, <2>1
<1>6. PICK cl : cl = [Unused EXCEPT !.conn = d]
  OBVIOUS
<1>7. cl.conn = d /\ cl.revision = 0 /\ cl.attached = FALSE
  BY <1>6 DEF Unused
<1>8. client'[k] = cl /\ \A j \in Clients : j # k => client'[j] = client[j]
  BY <1>1, <1>2, <1>6 DEF Owned
<1>9. \A j \in Clients : client[j].conn # d
  BY <1>1, <1>2, RemoteAssumption DEF Owned, Conns
<1>10. Work(d) = {} /\ toClient[d] = <<>> /\ (broadcast # None => d \notin broadcast.to) /\ d \notin sessionIds
  BY <1>1, <1>2 DEF Begun, Settled, BoundInv
<1>11. \A c \in Conns : Work(c)' = Work(c)
  BY <1>2 DEF Work
<1>12. Once' /\ Kinds' /\ queued' \in Nat
  <2>1. Once'
    BY <1>1, <1>2, <1>11 DEF Once
  <2> QED BY <1>1, <1>2, <2>1 DEF Kinds
<1>13. Begun'
  <2> SUFFICES ASSUME NEW c \in Conns
               PROVE  /\ stage'[c] = "none" => Work(c)' = {}
                      /\ stage'[c] \in {"none", "handshaking"} => toClient[c] = <<>>
                      /\ stage'[c] = "handshaking" => ~handshake'[c].made
                      /\ broadcast # None /\ c \in broadcast.to => stage'[c] \in {"ready", "closed"}
    BY <1>2 DEF Begun
  <2>1. CASE c = d
    BY <1>4, <1>5, <1>10, <2>1
  <2>2. CASE c # d
    BY <1>1, <1>5, <1>11, <2>2 DEF Begun
  <2> QED BY <2>1, <2>2
<1>14. Linked'
  <2> SUFFICES ASSUME NEW c \in Conns, NEW j \in Clients, client'[j].conn = c, NEW w \in Work(c)'
               PROVE  \E r \in pending : r.id = w.id /\ r.cmd = w.cmd /\ r.client = j
    BY <1>2 DEF Linked
  <2>1. w \in Work(c) /\ j # k
    BY <1>7, <1>8, <1>10, <1>11
  <2> QED BY <1>1, <1>8, <2>1 DEF Linked
<1>15. ASSUME NEW j \in Clients PROVE Right(j)'
  <2>0. Right(j)
    BY <1>1
  <2>1. CASE j = k
    <3> SUFFICES ASSUME NEW c \in Conns, c = client'[j].conn
                 PROVE  /\ \A r \in pending, m \in ToSet(toClient[c]) :
                              r.client = j /\ m.type = "response" /\ m.id = r.id => Proper(c, r.cmd, m)'
                        /\ \A t \in tasks : t.conn = c => (t.at = "attached" => c \in sessionIds) /\ (t.cmd = "detach" => c \notin sessionIds)
                        /\ In(j, {"active"})' = {} /\ c \notin sessionIds
      BY <1>2 DEF Right, Open
    <3>1. c = d
      BY <1>7, <1>8, <2>1
    <3>2. ToSet(toClient[c]) = {}
      BY <1>10, <3>1 DEF ToSet
    <3>3. \A t \in tasks : t.conn # c
      BY <1>2, <3>1 DEF Settled, BoundInv
    <3>4. In(j, {"active"})' = {}
      <4>1. Held(k) = {}
        BY <1>1, HeldFacts, FS_EmptySet
      <4>2. In(k, {"active"})' \subseteq Held(k)
        BY <1>2 DEF In, Held, Of
      <4> QED BY <2>1, <4>1, <4>2
    <3> QED BY <1>10, <3>1, <3>2, <3>3, <3>4
  <2>2. CASE j # k
    <3> SUFFICES ASSUME NEW c \in Conns, c = client'[j].conn, Open(c)'
                 PROVE  /\ \A r \in pending, m \in ToSet(toClient[c]) :
                              r.client = j /\ m.type = "response" /\ m.id = r.id => Proper(c, r.cmd, m)'
                        /\ \A t \in tasks : t.conn = c => (t.at = "attached" => c \in sessionIds) /\ (t.cmd = "detach" => c \notin sessionIds)
                        /\ c \notin skewed =>
                              /\ In(j, {"active"})' # {} => c \in sessionIds
                              /\ c \in sessionIds => In(j, {"active"})' # {} \/ Controls(j)' # {}
      BY <1>2 DEF Right
    <3>1. client[j].conn = c /\ c # d
      BY <1>8, <1>9, <2>2
    <3>2. Open(c)
      BY <1>2, <1>5, <3>1 DEF Open
    <3>3. \A r, m : Proper(c, r.cmd, m)' <=> Proper(c, r.cmd, m)
      BY <1>2 DEF Proper
    <3>4. In(j, {"active"})' = In(j, {"active"}) /\ Controls(j)' = Controls(j)
      BY <1>2 DEF In, Of, Controls
    <3> QED BY <2>0, <3>1, <3>2, <3>3, <3>4 DEF Right
  <2> QED BY <2>1, <2>2
<1>16. Revisions'
  <2>1. broadcast # None => \A c \in broadcast.to : stage'[c] = "ready" /\ handshake'[c] # None => handshake'[c].revision < revision
    <3>1. broadcast # None => broadcast.to \subseteq Conns
      BY DEF Settled, AnswerInv, Sent
    <3> QED BY <1>1, <1>5, <1>10, <3>1 DEF Revisions
  <2>2. \A c \in Conns : handshake'[c] # None => handshake'[c].revision <= revision
    BY <1>1, <1>4, <1>5 DEF Revisions
  <2>3. \A j \in Clients : client'[j].revision <= revision
    BY <1>1, <1>7, <1>8 DEF Revisions
  <2>4. /\ broadcast # None => broadcast.revision = revision
        /\ \A c \in Conns : \A m \in ToSet(toClient[c]) : Numbers(m) => m.revision <= revision
    BY <1>1 DEF Revisions
  <2> QED BY <1>2, <2>1, <2>2, <2>3, <2>4 DEF Revisions, Numbers
<1>17. ASSUME NEW j \in Clients PROVE Believes(j)'
  <2> SUFFICES ASSUME NEW c \in Conns, client'[j].conn = c
               PROVE  /\ stage'[c] = "handshaking" => ~client'[j].attached
                      /\ Open(c)' /\ c \notin skewed /\ ~Due(c) => Shows(j, c)' /\ Trusts(j, c)'
    BY <1>2 DEF Believes, Due
  <2>1. CASE j = k
    <3>1. c = d /\ client'[j].attached = FALSE /\ client'[j] = cl
      BY <1>7, <1>8, <2>1
    <3>2. Trusts(j, c)'
      BY <1>4, <1>5, <3>1 DEF Trusts
    <3>3. toClient'[c] = <<>> /\ c \notin sessionIds' /\ ~client'[j].attached
      BY <1>2, <1>10, <3>1
    <3>4. Ends(client'[j].revision, client'[j].attached, toClient'[c], FALSE)
      BY <3>3 DEF Ends
    <3>5. Shows(j, c)'
      BY <3>3, <3>4 DEF Shows
    <3> QED BY <3>1, <3>2, <3>5
  <2>2. CASE j # k
    <3>1. client'[j] = client[j] /\ c # d /\ client[j].conn = c
      BY <1>8, <1>9, <2>2
    <3>2. stage'[c] = stage[c] /\ handshake'[c] = handshake[c] /\ UNCHANGED <<toClient, sessionIds, closed>>
      BY <1>2, <1>5, <3>1
    <3>3. (Shows(j, c)' <=> Shows(j, c)) /\ (Trusts(j, c)' <=> Trusts(j, c))
      BY <3>1, <3>2 DEF Shows, Trusts
    <3> QED BY <1>1, <3>1, <3>2, <3>3 DEF Believes, Open
  <2> QED BY <2>1, <2>2
<1>18. Links'
  BY <1>12, <1>13, <1>14, <1>15 DEF Links
<1> QED BY <1>16, <1>17, <1>18 DEF Beliefs

(* The client takes m, or not.                                             *)
LEMMA BeliefsReceive ==
    ASSUME Settled, Links, Beliefs, NEW k \in Clients, NEW p, ClientDoes(k, p), NEW m, Receives(k, m),
           client'[k].revision = IF Numbers(m) /\ m.revision >= client[k].revision THEN m.revision ELSE client[k].revision,
           Open(client[k].conn) /\ client[k].conn \notin skewed =>
               IF m.type = "session" \/ (m.type = "response" /\ m.ok) \/ (Numbers(m) /\ m.revision >= client[k].revision)
               THEN client'[k].attached <=> m.attached
               ELSE client'[k].attached <=> client[k].attached
    PROVE  Beliefs'
<1>1. PICK c : c = client[k].conn
  OBVIOUS
<1>2. PICK s : s = toClient[c]
  OBVIOUS
<1>3. /\ c # 0 /\ s # <<>> /\ m = Head(s) /\ toClient' = [toClient EXCEPT ![c] = Tail(@)]
      /\ UNCHANGED <<handshake, sessionIds, revision>>
  BY <1>1, <1>2 DEF Receives, connVars, serverVars, sessions, publisher
<1>4. c \in Conns /\ client[k] \in Client /\ toClient \in [Conns -> Seq(Message)] /\ s \in Seq(Message) /\ m \in Message
  <2>1. c \in Conns /\ client[k] \in Client /\ toClient \in [Conns -> Seq(Message)]
    BY <1>1, <1>3, ConnOf DEF Settled, AnswerInv, Sent
  <2>2. s \in Seq(Message)
    BY <1>2, <2>1
  <2> QED BY <1>3, <2>1, <2>2, TailFacts
<1>5. toClient'[c] = Tail(s) /\ m \in ToSet(s)
  BY <1>2, <1>3, <1>4, TailFacts
<1>6. PICK n : n = client[k].revision
  OBVIOUS
<1>7. PICK e : e = client'[k].revision
  OBVIOUS
<1>8. n \in Nat /\ e \in Nat /\ e = IF Numbers(m) /\ m.revision >= n THEN m.revision ELSE n
  <2>1. n \in Nat
    BY <1>4, <1>6 DEF Client
  <2>2. Numbers(m) => m.revision \in Nat
    BY <1>4 DEF Numbers, Message
  <2> QED BY <1>6, <1>7, <2>1, <2>2
<1>9. client'[k].revision <= revision
  <2>1. Revisions
    BY DEF Beliefs
  <2>2. n <= revision /\ (Numbers(m) => m.revision <= revision)
    BY <1>2, <1>4, <1>5, <1>6, <2>1 DEF Revisions
  <2> QED BY <1>7, <1>8, <2>2
<1>10. stage[c] # "handshaking"
  BY <1>2, <1>3, <1>4 DEF Links, Begun
<1>11. ASSUME Open(c), c \notin skewed, Shows(k, c) PROVE Shows(k, c)'
  <2>1. PICK v \in BOOLEAN : (v <=> c \in sessionIds) /\ Ends(n, client[k].attached, s, v)
    BY <1>2, <1>6, <1>11 DEF Shows
  <2>2. PICK a : a = client[k].attached
    OBVIOUS
  <2>3. PICK b : b = client'[k].attached
    OBVIOUS
  <2>4. IF m.type = "session" \/ (m.type = "response" /\ m.ok) \/ (Numbers(m) /\ m.revision >= n)
        THEN (b <=> m.attached) /\ e = IF Numbers(m) THEN m.revision ELSE n
        ELSE (b <=> a) /\ e = n
    <3>1. IF m.type = "session" \/ (m.type = "response" /\ m.ok) \/ (Numbers(m) /\ m.revision >= n)
          THEN b <=> m.attached ELSE b <=> a
      BY <1>1, <1>6, <1>11, <2>2, <2>3
    <3>2. (m.type = "session" \/ m.type = "response") => ~Numbers(m)
      BY DEF Numbers
    <3> QED BY <1>8, <3>1, <3>2
  <2>5. Ends(e, b, Tail(s), v)
    BY <1>3, <1>4, <1>8, <2>1, <2>2, <2>4, EndsTail
  <2> QED BY <1>3, <1>5, <1>7, <2>1, <2>3, <2>5 DEF Shows
<1>12. ASSUME Trusts(k, c) PROVE Trusts(k, c)'
  <2> SUFFICES ASSUME handshake[c] # None, handshake[c].made
               PROVE  Later(e, Tail(s), handshake[c].revision) \/ (handshake[c].attached <=> c \in sessionIds)
    BY <1>3, <1>5, <1>7 DEF Trusts
  <2>1. Later(n, s, handshake[c].revision) \/ (handshake[c].attached <=> c \in sessionIds)
    BY <1>2, <1>6, <1>12 DEF Trusts
  <2>2. PICK h : h = handshake[c].revision
    OBVIOUS
  <2>3. h \in Nat
    BY <1>4, <2>2 DEF Settled, AnswerInv, Sent, Making
  <2>4. CASE Later(n, s, h)
    <3>1. Later(e, Tail(s), h)
      BY <1>3, <1>4, <1>8, <2>3, <2>4, LaterTail
    <3> QED BY <2>2, <3>1
  <2> QED BY <2>1, <2>2, <2>4
<1>13. \A d \in Conns : client'[k].conn = d => d = c
  BY <1>1, RemoteAssumption DEF ClientDoes, Conns
<1>14. ASSUME NEW d \in Conns, client'[k].conn = d
       PROVE  /\ stage[d] = "handshaking" => ~client'[k].attached
              /\ Open(d) /\ d \notin skewed /\ ~Due(d) /\ Shows(k, d) /\ Trusts(k, d) => Shows(k, d)' /\ Trusts(k, d)'
  BY <1>10, <1>11, <1>12, <1>13, <1>14
<1> QED BY <1>9, <1>14, BeliefsClient

LEMMA ReceivesDoes ==
    ASSUME Settled, NEW k \in Clients, NEW m, Receives(k, m), client'[k].conn = client[k].conn,
           NEW p \in SUBSET pending, Sends(k, p), \A r \in pending \ p : r.client = k,
           \A r \in pending \ p : \A d \in Conns : \A w \in Work(d) : w.id # r.id,
           \A j \in Clients : j # k => client'[j] = client[j],
           \A x \in Leases : x \notin Of(k) => lease'[x] = lease[x]
    PROVE  ClientDoes(k, p) /\ UNCHANGED skewed
<1>1. /\ UNCHANGED <<stage, closed, handshake, sessionIds, tasks, revision, broadcast, queued, skewed>>
      /\ toClient[client[k].conn] # <<>> /\ toClient' = [toClient EXCEPT ![client[k].conn] = Tail(@)]
  BY DEF Receives, connVars, serverVars, sessions, publisher
<1>2. \A c \in Conns : ToSet(toClient'[c]) \subseteq ToSet(toClient[c])
  BY TakenFrom
<1>3. ASSUME NEW c \in Conns PROVE /\ toClient[c] = <<>> => toClient'[c] = <<>>
                                   /\ c # client[k].conn => toClient'[c] = toClient[c]
  BY <1>1 DEF Settled, AnswerInv, Sent
<1> QED BY <1>1, <1>2, <1>3 DEF ClientDoes

LEMMA AgreeEvent ==
    ASSUME Settled, Links, Beliefs, NEW k \in Clients, ReceiveEvent(k)
    PROVE  Links' /\ Beliefs'
<1>1. PICK m : /\ m.type # "response" /\ Receives(k, m) /\ UNCHANGED <<lease, pending, lastRequest, toServer>>
               /\ client' = [client EXCEPT ![k] =
                      IF m.type = "session" THEN [@ EXCEPT !.attached = TRUE]
                      ELSE [applyServerSnapshot(@, m) EXCEPT !.connected = TRUE]]
  BY DEF ReceiveEvent
<1>2. Owned /\ client[k] \in Client /\ m \in Message /\ Right(k)
  BY <1>1, ReceivesFacts DEF Settled, AnswerInv, Links
<1>3. PICK cl : cl = applyServerSnapshot(client[k], m)
  OBVIOUS
<1>4. \A j \in Clients : j # k => client'[j] = client[j]
  BY <1>1, <1>2 DEF Owned
<1>5. client'[k] = IF m.type = "session" THEN [client[k] EXCEPT !.attached = TRUE] ELSE [cl EXCEPT !.connected = TRUE]
  BY <1>1, <1>2, <1>3 DEF Owned
<1>6. m.type = "session" \/ Numbers(m)
  BY <1>1, <1>2 DEF Numbers, Message
<1>7. /\ client'[k].conn = client[k].conn
      /\ client'[k].revision = IF Numbers(m) /\ m.revision >= client[k].revision THEN m.revision ELSE client[k].revision
      /\ IF m.type = "session" \/ (m.type = "response" /\ m.ok) \/ (Numbers(m) /\ m.revision >= client[k].revision)
         THEN client'[k].attached <=> m.attached
         ELSE client'[k].attached <=> client[k].attached
  <2>1. CASE m.type = "session"
    BY <1>2, <1>5, <2>1 DEF Client, Message, Numbers
  <2>2. CASE m.type # "session"
    <3>1. Numbers(m) /\ m.revision \in Nat /\ client[k].revision \in Nat /\ m.type # "response"
      BY <1>1, <1>2, <1>6, <2>2 DEF Numbers, Message, Client
    <3>2. client'[k].conn = cl.conn /\ client'[k].revision = cl.revision /\ client'[k].attached = cl.attached
      BY <1>2, <1>3, <1>5, <2>2 DEF applyServerSnapshot, Client
    <3>3. CASE m.revision >= client[k].revision
      <4>1. cl = [client[k] EXCEPT !.attached = m.attached, !.revision = m.revision]
        BY <1>3, <3>1, <3>3 DEF applyServerSnapshot
      <4>2. cl.conn = client[k].conn /\ cl.attached = m.attached /\ cl.revision = m.revision
        BY <1>2, <4>1 DEF Client
      <4> QED BY <3>1, <3>2, <3>3, <4>2
    <3>4. CASE ~(m.revision >= client[k].revision)
      <4>1. cl = client[k]
        BY <1>3, <3>1, <3>4 DEF applyServerSnapshot
      <4> QED BY <2>2, <3>1, <3>2, <3>4, <4>1
    <3> QED BY <3>3, <3>4
  <2> QED BY <2>1, <2>2
<1>8. Sends(k, pending)
  BY <1>1 DEF Sends
<1>9. ClientDoes(k, pending) /\ UNCHANGED skewed
  BY <1>1, <1>4, <1>7, <1>8, ReceivesDoes
<1>10. In(k, {"active"})' = In(k, {"active"}) /\ Controls(k)' = Controls(k)
  BY <1>1 DEF In, Of, Controls
<1>11. ASSUME NEW c \in Conns, c = client'[k].conn, Open(c), c \notin skewed'
       PROVE  /\ In(k, {"active"})' # {} => c \in sessionIds
              /\ c \in sessionIds => In(k, {"active"})' # {} \/ Controls(k)' # {}
  BY <1>2, <1>7, <1>9, <1>10, <1>11 DEF Right
<1>12. Links'
  BY <1>9, <1>11, LinksClient
<1>13. Beliefs'
  BY <1>1, <1>7, <1>9, BeliefsReceive
<1> QED BY <1>12, <1>13

LEMMA ResponseLeases ==
    ASSUME Settled, NEW k \in Clients, NEW r \in pending, NEW m, Answered(k, r, m),
           \/ ReceiveCreated(k, r, m) \/ ReceiveDone(k, r, m) \/ ReceiveAttached(k, r, m)
           \/ ReceiveDetached(k, r, m) \/ ReceiveReconciled(k, r, m)
    PROVE  \A x \in Leases : x \notin Of(k) => lease'[x] = lease[x]
<1>1. /\ Engages(r) => r.lease \in Of(k)
      /\ \A S : In(k, S) \subseteq Of(k)
      /\ lease \in [Leases -> [state : LeaseStates, mode : {"shared", "exclusive"}]]
  BY ResponseFacts DEF Settled, In
<1>2. r.cmd = "create" => r.lease \in Of(k)
  BY <1>1 DEF Settled, LeaseInv, Engaged, Engages
<1>3. ASSUME ReceiveCreated(k, r, m) PROVE \A x \in Leases : x \notin Of(k) => lease'[x] = lease[x]
  BY <1>1, <1>2, <1>3 DEF ReceiveCreated, Set
<1>4. ASSUME ReceiveDetached(k, r, m) PROVE \A x \in Leases : x \notin Of(k) => lease'[x] = lease[x]
  <2>1. r.lease \in Of(k)
    BY <1>1, <1>4 DEF ReceiveDetached, Engages
  <2> QED BY <1>1, <1>4, <2>1 DEF ReceiveDetached
<1>5. ASSUME ReceiveDone(k, r, m) \/ ReceiveAttached(k, r, m) \/ ReceiveReconciled(k, r, m)
      PROVE  \A x \in Leases : x \notin Of(k) => lease'[x] = lease[x]
  BY <1>1, <1>5 DEF ReceiveDone, ReceiveAttached, ReceiveReconciled, Set
<1> QED BY <1>3, <1>4, <1>5

LEMMA AgreeResponse ==
    ASSUME Settled, Phases, Links, Beliefs, NEW k \in Clients, NEW r \in pending,
           NEW m \in ToSet(toClient[client[k].conn]), Answered(k, r, m),
           \/ ReceiveCreated(k, r, m) \/ ReceiveDone(k, r, m) \/ ReceiveAttached(k, r, m)
           \/ ReceiveDetached(k, r, m) \/ ReceiveReconciled(k, r, m)
    PROVE  Links' /\ Beliefs'
<1>1. /\ Receives(k, m) /\ m.type = "response" /\ r.client = k /\ r.id = m.id /\ Effect(k, r, m) /\ AnswerInv /\ Owned
      /\ Right(k) /\ Once
  BY PhaseReceiveResponse DEF Answered, Settled, AnswerInv, Links
<1>2. PICK cl \in Client : /\ client' = [client EXCEPT ![k] = cl] /\ cl.conn = client[k].conn /\ Sends(k, pending \ {r})
  BY <1>1, ResponseChanges
<1>3. client'[k].conn = client[k].conn /\ \A j \in Clients : j # k => client'[j] = client[j]
  BY <1>1, <1>2 DEF Owned
<1>4. PICK c : c = client[k].conn
  OBVIOUS
<1>5. c \in Conns /\ client[k] \in Client /\ m \in Message /\ m \in ToSet(toClient[c])
  BY <1>1, <1>4, TakenFrom, ReceivesFacts
<1>6. \A x \in Leases : x \notin Of(k) => lease'[x] = lease[x]
  BY ResponseLeases
<1>7. \A d \in Conns : \A w \in Work(d) : w.id # r.id
  BY <1>1, <1>5 DEF Once
<1>8. ClientDoes(k, pending \ {r}) /\ skewed' = skewed
  <2>1. pending \ {r} \in SUBSET pending /\ \A q \in pending \ (pending \ {r}) : q = r
    OBVIOUS
  <2>2. /\ \A q \in pending \ (pending \ {r}) : q.client = k
        /\ \A q \in pending \ (pending \ {r}) : \A d \in Conns : \A w \in Work(d) : w.id # q.id
    BY <1>1, <1>7, <2>1
  <2> QED BY <1>1, <1>2, <1>3, <1>6, <2>1, <2>2, ReceivesDoes
<1>9. m.ok \in BOOLEAN /\ r.cmd \in {"create", "attach", "detach", "op"} /\ ~Numbers(m)
  BY <1>1, <1>5 DEF Message, Request, Numbers, AnswerInv, Asked
<1>10. ASSUME Open(c), c \notin skewed
       PROVE  /\ r.cmd \in {"create", "attach"} => IF m.ok THEN c \in sessionIds ELSE c \notin sessionIds
              /\ r.cmd = "detach" => m.ok /\ ~m.attached /\ c \notin sessionIds
              /\ In(k, {"active"}) # {} => c \in sessionIds
              /\ c \in sessionIds => In(k, {"active"}) # {} \/ Controls(k) # {}
  <2>1. Proper(c, r.cmd, m)
    BY <1>1, <1>4, <1>5, <1>10 DEF Right
  <2> QED BY <1>1, <1>4, <1>5, <1>9, <1>10, <2>1 DEF Right, Proper
<1>11. r.cmd = "op" => /\ In(k, {"active"})' = In(k, {"active"}) /\ Controls(k)' = Controls(k)
                       /\ client'[k].attached = IF m.ok THEN m.attached ELSE client[k].attached
  <2> SUFFICES ASSUME r.cmd = "op"
               PROVE  /\ In(k, {"active"})' = In(k, {"active"}) /\ Controls(k)' = Controls(k)
                      /\ client'[k].attached = IF m.ok THEN m.attached ELSE client[k].attached
    OBVIOUS
  <2>1. /\ client' = [client EXCEPT ![k].attached = IF m.ok THEN m.attached ELSE @]
        /\ pending' = pending \ {r} /\ lease' = lease
    BY DEF ReceiveCreated, ReceiveDone, ReceiveAttached, ReceiveDetached, ReceiveReconciled
  <2>2. client'[k].attached = IF m.ok THEN m.attached ELSE client[k].attached
    BY <1>1, <1>5, <2>1 DEF Owned, Client
  <2> QED BY <2>1, <2>2 DEF In, Of, Controls
<1>12. Links'
  <2> SUFFICES ASSUME Open(c), c \notin skewed
               PROVE  /\ In(k, {"active"})' # {} => c \in sessionIds
                      /\ c \in sessionIds => In(k, {"active"})' # {} \/ Controls(k)' # {}
    BY <1>3, <1>4, <1>8, LinksClient
  <2>1. CASE r.cmd \in {"create", "attach"}
    BY <1>1, <1>9, <1>10, <2>1 DEF Effect
  <2>2. CASE r.cmd = "detach"
    BY <1>1, <1>10, <2>2 DEF Effect
  <2>3. CASE r.cmd = "op"
    BY <1>10, <1>11, <2>3
  <2> QED BY <1>9, <2>1, <2>2, <2>3
<1>13. Beliefs'
  <2>1. client'[k].revision = client[k].revision
    BY <1>1 DEF Effect
  <2>2. ASSUME Open(c), c \notin skewed
        PROVE  IF m.ok THEN client'[k].attached <=> m.attached ELSE client'[k].attached <=> client[k].attached
    <3>1. CASE r.cmd \in {"create", "attach"}
      BY <1>1, <1>9, <3>1 DEF Effect
    <3>2. CASE r.cmd = "detach"
      BY <1>1, <1>10, <2>2, <3>2 DEF Effect
    <3>3. CASE r.cmd = "op"
      BY <1>9, <1>11, <3>3
    <3> QED BY <1>9, <3>1, <3>2, <3>3
  <2> QED BY <1>1, <1>4, <1>8, <1>9, <2>1, <2>2, BeliefsReceive
<1> QED BY <1>12, <1>13

-----------------------------------------------------------------------------
(* Agreement.                                                              *)

LEMMA AgreeSame ==
    ASSUME Links, Beliefs, UNCHANGED vars
    PROVE  Links' /\ Beliefs'
<1>1. UNCHANGED <<client, lease, pending, lastRequest, toServer, toClient, stage, closed, handshake, sessionIds, tasks,
                  revision, broadcast, queued, skewed>>
  BY DEF vars, clientVars, wires, connVars, serverVars, sessions, publisher
<1>2. /\ \A c \in Conns : Work(c)' = Work(c) /\ (Open(c)' <=> Open(c)) /\ (Due(c)' <=> Due(c))
      /\ \A k \in Clients : In(k, {"active"})' = In(k, {"active"}) /\ Controls(k)' = Controls(k)
  BY <1>1 DEF Work, Open, Due, In, Of, Controls
<1>3. /\ \A c, cmd, m : Proper(c, cmd, m)' <=> Proper(c, cmd, m)
      /\ \A c \in Conns, k \in Clients : (Shows(k, c)' <=> Shows(k, c)) /\ (Trusts(k, c)' <=> Trusts(k, c))
  BY <1>1 DEF Proper, Shows, Trusts
<1>4. Links'
  BY <1>1, <1>2, <1>3 DEF Links, Kinds, Once, Begun, Linked, Right
<1>5. Beliefs'
  BY <1>1, <1>2, <1>3 DEF Beliefs, Revisions, Believes, Numbers
<1> QED BY <1>4, <1>5

LEMMA AgreeNext ==
    ASSUME Settled, Settled', Attachments, Phases, Links, Beliefs, [Next]_vars
    PROVE  Links' /\ Beliefs'
<1>1. ASSUME Serving PROVE Links' /\ Beliefs'
  BY <1>1, AgreeServing
<1>2. ASSUME Server PROVE Links' /\ Beliefs'
  BY <1>1, <1>2, ServingServer
<1>3. ASSUME NEW c \in Conns, Dispatch(c), UNCHANGED clientVars PROVE Links' /\ Beliefs'
  BY <1>1, <1>3, ServingDispatch
<1>4. ASSUME StartBroadcast, UNCHANGED clientVars PROVE Links' /\ Beliefs'
  BY <1>1, <1>4, ServingStarts
<1>5. ASSUME NEW k \in Clients, ReceiveEvent(k) \/ ReceiveResponse(k) PROVE Links' /\ Beliefs'
  <2>1. CASE ReceiveEvent(k)
    BY <2>1, AgreeEvent
  <2>2. CASE ReceiveResponse(k)
    BY <2>2, AgreeResponse DEF ReceiveResponse
  <2> QED BY <1>5, <2>1, <2>2
<1>6. ASSUME NEW k \in Clients, Disconnect(k) PROVE Links' /\ Beliefs'
  BY <1>6, AgreeLeaves
<1>7. ASSUME Users PROVE Links' /\ Beliefs'
  <2>1. ASSUME NEW k \in Clients, NEW c \in Conns, Connect(k, c) PROVE Links' /\ Beliefs'
    BY <2>1, AgreeConnects
  <2>2. ASSUME NEW l \in Leases, NEW mode \in {"shared", "exclusive"}, acquireSession(l, mode) PROVE Links' /\ Beliefs'
    BY <2>2, AgreeAcquires
  <2>3. ASSUME NEW l \in Leases, NEW how \in {"detaching", "disposing"}, release(l, how) PROVE Links' /\ Beliefs'
    BY <2>3, AgreeReleases
  <2>4. ASSUME NEW l \in Leases, createSession(l) \/ request(l) PROVE Links' /\ Beliefs'
    BY <2>4, AgreeAsks
  <2> QED BY <1>6, <1>7, <2>1, <2>2, <2>3, <2>4 DEF Users
<1>8. CASE UNCHANGED vars
  BY <1>8, AgreeSame
<1> QED BY <1>2, <1>3, <1>4, <1>5, <1>6, <1>7, <1>8 DEF Next, Arrival, Receive

LEMMA AgreeInit ==
    ASSUME Init
    PROVE  Links /\ Beliefs
<1>1. /\ client = [k \in Clients |-> Unused] /\ pending = {} /\ lastRequest = 0
      /\ toServer = [c \in Conns |-> <<>>] /\ toClient = [c \in Conns |-> <<>>] /\ stage = [c \in Conns |-> "none"]
      /\ handshake = [c \in Conns |-> None] /\ tasks = {} /\ revision = 0 /\ queued = 0 /\ broadcast = None
  BY DEF Init, ServerInit
<1>2. ToSet(<<>>) = {}
  BY DEF ToSet
<1>3. \A c \in Conns : Work(c) = {} /\ ToSet(toClient[c]) = {} /\ toClient[c] = <<>> /\ stage[c] = "none" /\ handshake[c] = None
  BY <1>1, <1>2 DEF Work
<1>4. \A k \in Clients : client[k].conn = 0 /\ client[k].revision = 0
  BY <1>1 DEF Unused
<1>5. \A c \in Conns : c # 0
  BY RemoteAssumption DEF Conns
<1>6. Links
  BY <1>1, <1>3, <1>4, <1>5 DEF Links, Kinds, Once, Begun, Linked, Right
<1>7. Beliefs
  BY <1>1, <1>3, <1>4, <1>5 DEF Beliefs, Revisions, Believes
<1> QED BY <1>6, <1>7

LEMMA AgreeQuiet ==
    ASSUME Settled, Attachments, Links, Beliefs
    PROVE  Agreement
<1> SUFFICES ASSUME Quiet, NEW k \in Clients, NEW c, c = client[k].conn, c # 0, Connected(k), Open(c), c \notin skewed
             PROVE  /\ client[k].attached <=> c \in sessionIds
                    /\ c \in sessionIds <=> live # 0 /\ c \in lives[live].connections
                    /\ c \in sessionIds <=> In(k, {"active"}) # {}
  BY DEF Agreement
<1>1. c \in Conns
  BY ConnOf DEF Settled, AnswerInv
<1>2. handshake[c] = None /\ toClient[c] = <<>> /\ queued = 0 /\ broadcast = None /\ tasks = {} /\ pending = {}
  BY <1>1 DEF Quiet
<1>3. client[k].attached <=> c \in sessionIds
  <2>1. Believes(k) /\ ~Due(c)
    BY <1>2 DEF Beliefs, Due
  <2>2. Shows(k, c)
    BY <1>1, <2>1 DEF Believes
  <2>3. PICK v \in BOOLEAN : (v <=> c \in sessionIds) /\ Ends(client[k].revision, client[k].attached, toClient[c], v)
    BY <2>2 DEF Shows
  <2>4. Len(toClient[c]) = 0
    BY <1>2
  <2> QED BY <2>3, <2>4 DEF Ends
<1>4. c \in sessionIds <=> live # 0 /\ c \in lives[live].connections
  BY DEF Attachments, Sound
<1>5. c \in sessionIds <=> In(k, {"active"}) # {}
  <2>1. Right(k) /\ Controls(k) = {}
    BY <1>2 DEF Links, Controls
  <2> QED BY <1>1, <2>1 DEF Right
<1> QED BY <1>3, <1>4, <1>5

(* When all is quiet the client, the server's connection and the live      *)
(* session agree on who is attached, and that is who has an active lease,  *)
(* on every connection that no known gap has left wrong.                   *)
THEOREM ClientsAndServerAgree == Spec => []Agreement
<1>1. Init => Links /\ Beliefs
  BY AgreeInit
<1>2. Settled /\ Settled' /\ Attachments /\ Phases /\ Links /\ Beliefs /\ [Next]_vars => Links' /\ Beliefs'
  BY AgreeNext
<1>3. Settled /\ Attachments /\ Links /\ Beliefs => Agreement
  BY AgreeQuiet
<1> QED BY <1>1, <1>2, <1>3, PhasesAreInvariant, PTL DEF Spec
=============================================================================
