---------------------------- MODULE LiveSessions ----------------------------
(***************************************************************************)
(* The session server (packages/server): the LiveSessionManager, the       *)
(* connections of PiServer and the ServerSnapshotPublisher, for one        *)
(* session.  RemoteSessions adds the clients.                              *)
(*                                                                         *)
(* A runtime of the session is opened for the first connection that        *)
(* attaches and disposed when no connection and no operation is left and   *)
(* it is idle.  Snapshots for all connections are made one after the other *)
(* and numbered.  A step goes from one await of real length to the next;   *)
(* the calls of the backend take time and may fail, and the connections    *)
(* may break.  The runtime is external: it may be busy for a while after   *)
(* an operation.  "op" is prompt, steer, abort, set_model or set_thinking; *)
(* list and progress events change no state.                               *)
(***************************************************************************)
EXTENDS Naturals, Sequences, FiniteSets, SequencesExt

CONSTANTS MaxConnects,   \* bound: connections made
          MaxFaults,     \* bound: broken connections, calls that fail, runtimes that fail
          None

Conns == 1..MaxConnects

VARIABLES
    toServer, toClient,           \* connection -> the messages under way
    stage,       \* connection -> ConnectionStage
    closed,      \* the connections the server has closed or seen broken
    handshake,   \* connection -> the snapshot that is made for it, None for none
    sessionIds,  \* the connections attached to the session
    stored,      \* the session exists
    lives,       \* the LiveSession objects made so far
    live,        \* the one in liveSessions, 0 for none
    opening,     \* openingSessions: "no", "acquiring" the runtime, or its "snapshot"
    tasks,       \* the requests under way on the server, and connections that leave
    revision,    \* of the snapshots
    queued,      \* broadcasts that wait
    broadcast,   \* the one that is made
    closing,     \* the server is closing
    faults,
    skewed       \* history: connections that a known gap has left wrong

wires     == <<toServer, toClient>>
connVars  == <<stage, closed, handshake>>
sessions  == <<sessionIds, stored, lives, live, opening, tasks>>
publisher == <<revision, broadcast>>
serverVars == <<sessions, publisher, queued, closing, faults, skewed>>

ServerInit ==
    /\ toServer = [c \in Conns |-> <<>>]
    /\ toClient = [c \in Conns |-> <<>>]
    /\ stage = [c \in Conns |-> "none"]
    /\ closed = {}
    /\ handshake = [c \in Conns |-> None]
    /\ sessionIds = {}
    /\ stored \in BOOLEAN
    /\ lives = <<>>
    /\ live = 0
    /\ opening = "no"
    /\ tasks = {}
    /\ revision = 0
    /\ queued = 0
    /\ broadcast = None
    /\ closing = FALSE
    /\ faults = 0
    /\ skewed = {}

----------------------------------------------------------------------------
(* The server's messages.                                                  *)

Open(c) == stage[c] \in {"handshaking", "ready"} /\ c \notin closed

(* sendMessage() to some connections, of a sequence each.                  *)
Send(messages) ==
    toClient' = [c \in Conns |-> IF c \in DOMAIN messages /\ Open(c)
                                 THEN toClient[c] \o messages[c] ELSE toClient[c]]

Snapshot(rev, isAttached) == [type |-> "server", revision |-> rev, attached |-> isAttached]
SessionSnapshot == [type |-> "session", attached |-> TRUE]
Response(t, ok, isAttached) ==
    [type |-> "response", id |-> t.id, ok |-> ok, attached |-> isAttached]

(* handleRequest(): the response to each of some tasks of one request each.*)
Responses(ts, ok, isAttached) ==
    [c \in {t.conn : t \in ts} |->
        LET mine == SetToSeq({t \in ts : t.conn = c})
        IN  [i \in DOMAIN mine |-> Response(mine[i], ok, isAttached)]]

(* broadcastSnapshot() of a live session, and the response to t.           *)
Told(i, t, isAttached) ==
    [c \in lives[i].connections \cup {t.conn} |->
        (IF c \in lives[i].connections THEN <<SessionSnapshot>> ELSE <<>>)
        \o (IF c = t.conn THEN <<Response(t, TRUE, isAttached)>> ELSE <<>>)]

----------------------------------------------------------------------------
(* LiveSessionManager                                                      *)

Task(r, c, at, i) == [id |-> r.id, cmd |-> r.cmd, conn |-> c, at |-> at, live |-> i,
                      opener |-> FALSE]
Leave(c, i) == Task([id |-> 0, cmd |-> "leave"], c, "disposal", i)

(* maybeDispose() of a live session                                        *)
maybeDispose(l) ==
    IF /\ ~closing /\ l.disposing = "no"
       /\ l.connections = {} /\ l.operationCount = 0
       /\ l.terminal \/ ~l.busy
    THEN [l EXCEPT !.disposing = "yes"] ELSE l

Without(l, c) == [l EXCEPT !.connections = @ \ {c}]
Replaced(i, l) == [lives EXCEPT ![i] = l]

(* attach(), when acquire() has found the session live                     *)
Attached(r, c) ==
    /\ lives' = Replaced(live, [lives[live] EXCEPT !.connections = @ \cup {c}])
    /\ sessionIds' = sessionIds \cup {c}
    /\ tasks' = tasks \cup {Task(r, c, "attached", live)}
    /\ skewed' = skewed \ {c}
    /\ UNCHANGED toClient

(* Mutant: does not wait for the disposal.                                 *)
MayOpenAtOnce == opening = "no" /\ (live = 0 \/ lives[live].disposing # "no")

(* acquire() makes a runtime itself.                                       *)
MayOpen == opening = "no" /\ live = 0

(* The commands create and attach: acquire(), and attach() when nothing is *)
(* awaited.                                                                *)
Acquire(r, c) ==
    LET opens == MayOpen
        at == IF opens \/ opening # "no" THEN "opening" ELSE "disposal"
        waits == at = "opening" \/ lives[live].disposing # "no"
        locked == ~opens /\ live # 0 /\ lives[live].terminal
    IN  /\ IF locked THEN /\ Send([x \in {c} |-> <<Response(r, FALSE, FALSE)>>])
                          /\ UNCHANGED <<tasks, lives, sessionIds, skewed>>
           ELSE IF waits
           THEN /\ tasks' = tasks \cup {[Task(r, c, at, live) EXCEPT !.opener = opens]}
                /\ UNCHANGED <<lives, sessionIds, skewed, toClient>>
           ELSE Attached(r, c)
        /\ opening' = IF opens /\ ~locked THEN "acquiring" ELSE opening
        /\ UNCHANGED <<stored, live, queued>>

Opening == {t \in tasks : t.at = "opening"}

(* Mutant: only the request that opened it.                                *)
OpenerOnly(ts) == {t \in ts : t.opener}

(* Those who get the error of an opening that fails                        *)
Rejected(ts) == ts

(* create() of a LiveSession: openSession() or createSession() answers.    *)
(* When the server closes meanwhile the runtime is given back.             *)
Acquired ==
    /\ opening = "acquiring"
    /\ LET waiting == Opening
       IN  IF closing THEN /\ tasks' = tasks \ waiting
                           /\ opening' = "no"
           ELSE /\ UNCHANGED tasks
                /\ opening' = "snapshot"
    /\ stored' = TRUE
    /\ UNCHANGED <<wires, connVars, sessionIds, lives, live, publisher, queued,
                   closing, faults, skewed>>

(* It is live, and the requests that wait for it attach, the one that      *)
(* opened it first: when the connection of that one is gone it disposes    *)
(* the session, and the others attach to a session that is disposed.       *)
Opened ==
    /\ opening = "snapshot"
    /\ opening' = "no"
    /\ live' = Len(lives) + 1
    /\ LET waiting == Opening
           here == {t \in waiting : Open(t.conn)}
           lost == \E t \in waiting \ here : t.opener
           new == [connections |-> {}, operationCount |-> 0, terminal |-> FALSE,
                   disposing |-> "no", busy |-> FALSE]
           first == IF lost THEN maybeDispose(new) ELSE new
       IN  /\ lives' = Append(lives, [first EXCEPT !.connections = {t.conn : t \in here}])
           /\ sessionIds' = sessionIds \cup {t.conn : t \in here}
           /\ tasks' = (tasks \ waiting)
                       \cup {[t EXCEPT !.at = "attached", !.live = live'] : t \in here}
           /\ skewed' = IF lost /\ ~closing THEN skewed \cup {t.conn : t \in here}
                        ELSE skewed \ {t.conn : t \in here}
    /\ UNCHANGED <<wires, connVars, stored, publisher, queued, closing, faults>>

(* The backend refuses, or has no snapshot: the runtime is disposed.       *)
OpenFails ==
    /\ opening # "no"
    /\ faults < MaxFaults
    /\ faults' = faults + 1
    /\ opening' = "no"
    /\ LET waiting == Opening
       IN  /\ tasks' = tasks \ waiting
           /\ Send(Responses(Rejected(waiting), FALSE, FALSE))
    /\ UNCHANGED <<toServer, connVars, sessionIds, stored, lives, live, publisher,
                   queued, closing, skewed>>

(* The rest of create and attach: everybody attached is told, then all.    *)
FinishAttach(t) ==
    /\ t \in tasks /\ t.at = "attached"
    /\ tasks' = tasks \ {t}
    /\ Send(Told(t.live, t, t.conn \in sessionIds))
    /\ queued' = queued + 1
    /\ UNCHANGED <<toServer, connVars, sessionIds, stored, lives, live, opening,
                   publisher, closing, faults, skewed>>

(* The snapshot fails: the connection stays attached.                      *)
AttachFails(t) ==
    /\ t \in tasks /\ t.at = "attached"
    /\ faults < MaxFaults
    /\ faults' = faults + 1
    /\ tasks' = tasks \ {t}
    /\ Send(Responses({t}, FALSE, FALSE))
    /\ skewed' = skewed \cup {t.conn}
    /\ UNCHANGED <<toServer, connVars, sessionIds, stored, lives, live, opening,
                   publisher, queued, closing>>

(* The command detach                                                      *)
Detach(r, c) ==
    LET l == Without(lives[live], c)
        tells == l.connections # {} /\ ~l.terminal /\ l.disposing = "no"
        left == IF tells THEN l ELSE maybeDispose(l)
    IN  /\ sessionIds' = sessionIds \ {c}
        /\ skewed' = IF c \in sessionIds \/ handshake[c] = None THEN skewed \ {c} ELSE skewed
        /\ IF c \in sessionIds /\ live # 0
           THEN /\ lives' = Replaced(live, left)
                /\ IF tells \/ left.disposing # "no"
                   THEN /\ tasks' = tasks \cup
                                {Task(r, c, IF tells THEN "telling" ELSE "disposal", live)}
                        /\ UNCHANGED <<queued, toClient>>
                   ELSE /\ UNCHANGED tasks
                        /\ queued' = queued + 1
                        /\ Send([x \in {c} |-> <<Response(r, TRUE, FALSE)>>])
           ELSE /\ queued' = IF c \in sessionIds THEN queued + 1 ELSE queued
                /\ Send([x \in {c} |-> <<Response(r, TRUE, FALSE)>>])
                /\ UNCHANGED <<lives, tasks>>
        /\ UNCHANGED <<stored, live, opening>>

(* The end of telling the others                                           *)
FinishTelling(t) ==
    /\ t \in tasks /\ t.at = "telling"
    /\ LET l == maybeDispose(lives[t.live])
       IN  /\ lives' = Replaced(t.live, l)
           /\ IF l.disposing = "yes"
              THEN /\ tasks' = (tasks \ {t}) \cup {[t EXCEPT !.at = "disposal"]}
                   /\ Send([c \in l.connections |-> <<SessionSnapshot>>])
                   /\ UNCHANGED queued
              ELSE /\ tasks' = tasks \ {t}
                   /\ Send(Told(t.live, t, FALSE))
                   /\ queued' = queued + 1
    /\ UNCHANGED <<toServer, connVars, sessionIds, stored, live, opening, publisher,
                   closing, faults, skewed>>

(* The commands with runOperation(): requireAttached() first.              *)
Operate(r, c) ==
    /\ IF c \in sessionIds /\ live # 0 /\ ~lives[live].terminal /\ lives[live].disposing = "no"
       THEN /\ lives' = Replaced(live, [lives[live] EXCEPT !.operationCount = @ + 1,
                                                           !.busy = TRUE])
            /\ tasks' = tasks \cup {Task(r, c, "running", live)}
            /\ UNCHANGED toClient
       ELSE /\ Send([x \in {c} |-> <<Response(r, FALSE, FALSE)>>])
            /\ UNCHANGED <<lives, tasks>>
    /\ UNCHANGED <<sessionIds, stored, live, opening, queued, skewed>>

(* The runtime has done the operation or refused it.                       *)
FinishOperation(t) ==
    /\ t \in tasks /\ t.at = "running"
    /\ tasks' = tasks \ {t}
    /\ lives' = Replaced(t.live, maybeDispose([lives[t.live] EXCEPT !.operationCount = @ - 1]))
    /\ \/ Send(Told(t.live, t, t.conn \in sessionIds))
       \/ Send(Responses({t}, FALSE, FALSE))
    /\ UNCHANGED <<toServer, connVars, sessionIds, stored, live, opening, publisher,
                   queued, closing, faults, skewed>>

Subscribed(i) == ~lives[i].terminal /\ lives[i].disposing = "no"

(* handleRuntimeEvent(): the run has ended.                                *)
RunEnds(i) ==
    /\ i \in DOMAIN lives /\ Subscribed(i) /\ lives[i].busy
    /\ lives' = Replaced(i, maybeDispose([lives[i] EXCEPT !.busy = FALSE]))
    /\ Send([c \in lives[i].connections |-> <<SessionSnapshot>>])
    /\ UNCHANGED <<toServer, connVars, sessionIds, stored, live, opening, tasks,
                   publisher, queued, closing, faults, skewed>>

(* terminate(): after an error of the runtime its connections are closed;  *)
(* the last one to leave disposes it.                                      *)
Terminate(i) ==
    /\ i \in DOMAIN lives /\ Subscribed(i)
    /\ faults < MaxFaults
    /\ faults' = faults + 1
    /\ lives' = Replaced(i, maybeDispose([lives[i] EXCEPT !.terminal = TRUE]))
    /\ closed' = closed \cup lives[i].connections
    /\ UNCHANGED <<wires, stage, handshake, sessionIds, stored, live, opening,
                   tasks, publisher, queued, closing, skewed>>

(* dispose() of the runtime has returned, or thrown: those who wait go on. *)
(* A detach of which the disposal fails is answered with the error, and    *)
(* nobody is told.                                                         *)
Disposed(i, ok) ==
    /\ i \in DOMAIN lives /\ lives[i].disposing = "yes"
    /\ faults' = IF ok THEN faults ELSE faults + 1
    /\ faults' <= MaxFaults
    /\ lives' = [lives EXCEPT ![i].disposing = "done"]
    /\ live' = IF live = i THEN 0 ELSE live
    /\ LET waiting == {t \in tasks : t.at = "disposal" /\ t.live = i}
           cmd(name) == {t \in waiting : t.cmd = name}
           acquire == cmd("attach") \cup cmd("create")
           answered == IF ok THEN cmd("detach") ELSE cmd("detach") \cup acquire
           first(t) == \A u \in acquire : t.id <= u.id
           again == IF ok THEN {[t EXCEPT !.at = "opening", !.live = 0, !.opener = first(t)] :
                                   t \in acquire} ELSE {}
       IN  /\ tasks' = (tasks \ waiting) \cup again
           /\ opening' = IF again # {} THEN "acquiring" ELSE opening
           /\ Send(Responses(answered, ok, FALSE))
           /\ queued' = queued + Cardinality(cmd("leave"))
                        + IF ok THEN 1 + Cardinality(cmd("detach")) ELSE 0
           /\ skewed' = IF ok THEN skewed ELSE skewed \cup {t.conn : t \in cmd("detach")}
    /\ UNCHANGED <<toServer, connVars, sessionIds, stored, publisher, closing>>

----------------------------------------------------------------------------
(* PiServer: connections                                                   *)

(* A message arrives: dispatchMessage() and handleRequest()                *)
Dispatch(c) ==
    /\ stage[c] = "ready" /\ c \notin closed
    /\ toServer[c] # <<>>
    /\ toServer' = [toServer EXCEPT ![c] = Tail(@)]
    /\ LET r == Head(toServer[c])
       IN  \/ r.cmd \in {"create", "attach"} /\ Acquire(r, c)
           \/ r.cmd = "detach" /\ Detach(r, c)
           \/ r.cmd = "op" /\ Operate(r, c)
    /\ UNCHANGED <<connVars, publisher, closing, faults>>

Departed(c) == sessionIds \ {c}

(* disconnect(), and that of the sessions                                  *)
ServerDisconnect(c) ==
    /\ stage[c] \in {"handshaking", "ready"}
    /\ stage' = [stage EXCEPT ![c] = "closed"]
    /\ handshake' = [handshake EXCEPT ![c] = None]
    /\ toServer' = [toServer EXCEPT ![c] = <<>>]
    /\ sessionIds' = Departed(c)
    /\ skewed' = skewed \ {c}
    /\ LET had == c \in sessionIds /\ live # 0
           l == maybeDispose(Without(lives[live], c))
           waits == stage[c] = "ready" /\ had /\ l.disposing = "yes"
       IN  /\ lives' = IF had THEN Replaced(live, l) ELSE lives
           /\ tasks' = IF waits THEN tasks \cup {Leave(c, live)} ELSE tasks
           /\ queued' = IF stage[c] = "ready" /\ ~waits /\ ~closing THEN queued + 1 ELSE queued
    /\ UNCHANGED <<toClient, closed, stored, live, opening, publisher, closing>>

(* It was closed by the server, or its client has gone.                    *)
Gone(c) == ServerDisconnect(c) /\ UNCHANGED faults

(* The transport breaks, or the handshake takes too long: failProtocol().  *)
Break(c) ==
    /\ ServerDisconnect(c)
    /\ faults < MaxFaults
    /\ faults' = faults + 1

(* close(): no more connections, then the sessions, when none is opening.  *)
Close ==
    /\ ~closing
    /\ faults < MaxFaults
    /\ faults' = faults + 1
    /\ closing' = TRUE
    /\ closed' = closed \cup {c \in Conns : stage[c] # "none"}
    /\ UNCHANGED <<wires, stage, handshake, sessions, publisher, queued,
                   skewed>>

CloseSessions ==
    /\ closing
    /\ \A c \in Conns : stage[c] \in {"none", "closed"}
    /\ opening = "no" /\ live # 0
    /\ live' = 0
    /\ lives' = [lives EXCEPT ![live].disposing = IF @ = "no" THEN "yes" ELSE @]
    /\ UNCHANGED <<wires, connVars, sessionIds, stored, opening, tasks, publisher,
                   queued, closing, faults, skewed>>

----------------------------------------------------------------------------
(* ServerSnapshotPublisher                                                 *)

(* listSummaries(): the session, for a connection.  One that is disposed   *)
(* is not live.                                                            *)
Listed(c) == c \in sessionIds /\ live # 0 /\ lives[live].disposing = "no"

(* performBroadcast(), when those before are done                          *)
StartBroadcast ==
    LET ready == {c \in Conns : stage[c] = "ready"}
    IN  /\ queued > 0 /\ broadcast = None
        /\ queued' = queued - 1
        /\ IF ready = {} \/ closing THEN UNCHANGED publisher
           ELSE /\ revision' = revision + 1
                /\ broadcast' = [revision |-> revision', to |-> ready]
        /\ UNCHANGED <<wires, connVars, sessions, closing, faults, skewed>>

SendSnapshot ==
    /\ broadcast # None
    /\ Send([c \in broadcast.to |-> <<Snapshot(broadcast.revision, Listed(c))>>])
    /\ broadcast' = None
    /\ UNCHANGED <<toServer, connVars, sessions, revision, queued, closing, faults,
                   skewed>>

(* finishHandshake(): the hello has the snapshot that was begun when the   *)
(* client's hello came.  When the revision has changed another one is      *)
(* made, and sent after the models are listed too.                         *)
SendHello(c) ==
    /\ stage[c] = "handshaking" /\ c \notin closed /\ ~closing
    /\ stage' = [stage EXCEPT ![c] = "ready"]
    /\ Send([x \in {c} |-> <<[Snapshot(handshake[c].revision, FALSE) EXCEPT !.type = "hello"]>>])
    /\ handshake' = [handshake EXCEPT ![c] =
                        IF @.revision = revision THEN None
                        ELSE [revision |-> revision, made |-> FALSE, attached |-> FALSE]]
    /\ UNCHANGED <<toServer, closed, sessions, publisher, queued, closing,
                   faults, skewed>>

CatchUp(c) ==
    /\ stage[c] = "ready" /\ handshake[c] # None
    /\ IF ~handshake[c].made
       THEN /\ handshake' = [handshake EXCEPT ![c].made = TRUE, ![c].attached = Listed(c)]
            /\ UNCHANGED toClient
       ELSE /\ handshake' = [handshake EXCEPT ![c] = None]
            /\ Send([x \in {c} |-> <<Snapshot(handshake[c].revision, handshake[c].attached)>>])
    /\ UNCHANGED <<toServer, stage, closed, sessions, publisher, queued,
                   closing, faults, skewed>>

(* accept(), and the client's hello on a new connection                    *)
Accept(c) ==
    /\ ~closing
    /\ stage[c] = "none" /\ \A d \in 1..(c - 1) : stage[d] # "none"
    /\ stage' = [stage EXCEPT ![c] = "handshaking"]
    /\ handshake' = [handshake EXCEPT ![c] =
                        [revision |-> revision, made |-> FALSE, attached |-> FALSE]]
    /\ UNCHANGED <<wires, closed, serverVars>>

ServerFails ==
    \/ \E c \in Conns : Break(c)
    \/ OpenFails
    \/ \E t \in tasks : AttachFails(t)
    \/ \E i \in DOMAIN lives : Terminate(i) \/ Disposed(i, FALSE)

ServerGoes ==
    \/ \E c \in Conns : SendHello(c) \/ CatchUp(c)
    \/ \E c \in closed : Gone(c)
    \/ Acquired \/ Opened \/ CloseSessions \/ SendSnapshot
    \/ \E t \in tasks : FinishAttach(t) \/ FinishTelling(t) \/ FinishOperation(t)
    \/ \E i \in DOMAIN lives : RunEnds(i) \/ Disposed(i, TRUE)
=============================================================================
