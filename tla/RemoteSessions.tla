--------------------------- MODULE RemoteSessions ---------------------------
(***************************************************************************)
(* Remote sessions: the leases and the state of the clients                *)
(* (packages/client) with the server of LiveSessions.                      *)
(*                                                                         *)
(* A client takes leases of the session; the first one attaches its        *)
(* connection, the last one detaches it.  What a client believes comes     *)
(* from responses and from snapshots.  Both sides see the end of a         *)
(* connection at their own time.                                           *)
(***************************************************************************)
EXTENDS LiveSessions

CONSTANTS Clients, Leases,
          OwnerOf(_),    \* the client of a lease
          MaxCalls,      \* bound: calls of the clients' users
          Latency        \* messages to the clients may be under way for a while

ASSUME RemoteAssumption ==
    /\ \A l \in Leases : OwnerOf(l) \in Clients
    /\ {MaxConnects, MaxCalls, MaxFaults} \subseteq Nat
    /\ Latency \in BOOLEAN
    /\ None \notin Clients \cup Leases
    /\ None \notin [revision : Nat, to : SUBSET Conns]     \* it is no snapshot
    /\ None \notin [revision : Nat, made : BOOLEAN, attached : BOOLEAN]
    /\ IsFiniteSet(Leases)

VARIABLES
    client,      \* client -> its connection (0 for none) and what it knows and counts
    lease,       \* lease -> state and mode
    pending,     \* the requests of the clients without a response
    calls, lastRequest

clientVars == <<client, lease, pending, calls, lastRequest>>
vars == <<clientVars, wires, connVars, serverVars>>

LeaseStates == {"free", "creating", "waiting", "reconciling", "attaching", "active",
                "detaching", "disposing"}

TypeOK ==
    /\ client \in [Clients -> [conn : 0..MaxConnects, connected : BOOLEAN, attached : BOOLEAN,
                               revision : Nat, count : 0..Cardinality(Leases),
                               exclusive : Leases \cup {None}, cleanup : BOOLEAN]]
    /\ lease \in [Leases -> [state : LeaseStates, mode : {"shared", "exclusive"}]]
    /\ \A r \in pending : r.id \in 1..lastRequest /\ client[r.client].connected
    /\ stage \in [Conns -> {"none", "handshaking", "ready", "closed"}]
    /\ sessionIds \subseteq {c \in Conns : stage[c] = "ready"}
    /\ live \in 0..Len(lives)
    /\ \A i \in DOMAIN lives : /\ lives[i].connections \subseteq Conns
                               /\ lives[i].disposing \in {"no", "yes", "done"}
                               /\ lives[i].operationCount \in 0..MaxCalls
    /\ opening \in {"no", "acquiring", "snapshot"}
    /\ \A t \in tasks : t.at \in {"disposal", "opening", "attached", "telling", "running"}
    /\ (opening # "no") <=> \E t \in tasks : t.at = "opening"
    /\ calls \in 0..MaxCalls /\ faults \in 0..MaxFaults

Unused == [conn |-> 0, connected |-> FALSE, attached |-> FALSE, revision |-> 0,
           count |-> 0, exclusive |-> None, cleanup |-> FALSE]
Free == [state |-> "free", mode |-> "shared"]

Init ==
    /\ ServerInit
    /\ client = [k \in Clients |-> Unused]
    /\ lease = [l \in Leases |-> Free]
    /\ pending = {}
    /\ calls = 0
    /\ lastRequest = 0

----------------------------------------------------------------------------
(* PiClient                                                                *)

Connected(k) == client[k].connected
Of(k) == {l \in Leases : OwnerOf(l) = k}
In(k, states) == {l \in Of(k) : lease[l].state \in states}
Set(ls, state) == [l \in Leases |-> IF l \in ls THEN [lease[l] EXCEPT !.state = state]
                                    ELSE lease[l]]

(* connect()                                                               *)
Connect(k, c) ==
    /\ client[k].conn = 0
    /\ client' = [client EXCEPT ![k] = [Unused EXCEPT !.conn = c]]
    /\ Accept(c)
    /\ UNCHANGED <<lease, pending, calls, lastRequest>>

(* #invalidateAllSessionLeases() goes by the counts.                       *)
Survivors(k) == IF client[k].count > 0 THEN {} ELSE In(k, {"active"})

(* disconnect(), dispose(), or the transport has closed: every pending     *)
(* request is rejected, so that no lease is acquired any more.             *)
Disconnect(k) ==
    /\ client[k].conn # 0
    /\ client' = [client EXCEPT ![k] = Unused]
    /\ lease' = [l \in Leases |-> IF l \in Of(k) \ Survivors(k) THEN Free ELSE lease[l]]
    /\ pending' = {r \in pending : r.client # k}
    /\ toClient' = [toClient EXCEPT ![client[k].conn] = <<>>]
    /\ UNCHANGED <<calls, lastRequest, toServer, connVars, serverVars>>

Called == calls < MaxCalls /\ calls' = calls + 1

(* #request(), with p pending before                                       *)
Requested(k, cmd, l, p) ==
    LET r == [id |-> lastRequest + 1, cmd |-> cmd, lease |-> l, client |-> k]
    IN  /\ lastRequest' = lastRequest + 1
        /\ pending' = p \cup {r}
        /\ toServer' = [toServer EXCEPT ![client[k].conn] = Append(@, r)]

(* acquireSession(), after a detachment: what it does next depends on the  *)
(* client's state cl; the request is shared by all leases that wait.       *)
Step(cl) == CASE cl.cleanup -> "reconciling"
              [] ~cl.cleanup /\ cl.attached -> "active"
              [] OTHER -> "attaching"

Asks(k, state, p) ==
    LET cmd == IF state = "reconciling" THEN "detach" ELSE "attach"
        asked == \E r \in p : r.client = k /\ r.cmd = cmd /\ r.lease = None
    IN  IF state \in {"reconciling", "attaching"} /\ ~asked THEN Requested(k, cmd, None, p)
        ELSE pending' = p /\ UNCHANGED <<lastRequest, toServer>>

createSession(l) ==
    LET k == OwnerOf(l)
    IN  /\ Connected(k) /\ lease[l].state = "free"
        /\ ~stored
        /\ \A t \in tasks \cup pending \cup UNION {ToSet(toServer[c]) : c \in Conns} : t.cmd # "create"
        /\ Called
        /\ lease' = [lease EXCEPT ![l] = [state |-> "creating", mode |-> "exclusive"]]
        /\ Requested(k, "create", l, pending)
        /\ UNCHANGED <<client, toClient, connVars, serverVars>>

(* Mutant: only other exclusive leases are in the way.                     *)
MayReserveShared(k, mode) == client[k].exclusive = None

(* #reserveSessionLease() does not throw.                                  *)
MayReserve(k, mode) ==
    IF mode = "exclusive" THEN client[k].count = 0 ELSE client[k].exclusive = None

Reserved(cl, l, mode) == [cl EXCEPT !.count = @ + 1,
                                    !.exclusive = IF mode = "exclusive" THEN l ELSE @]
Released(cl, ls) == [cl EXCEPT !.count = IF @ > Cardinality(ls) THEN @ - Cardinality(ls) ELSE 0,
                               !.exclusive = IF @ \in ls THEN None ELSE @]

(* A request to detach of a lease is under way.                            *)
Detaching(k) == In(k, {"detaching", "disposing"}) # {}

acquireSession(l, mode) ==
    LET k == OwnerOf(l)
        c == client[k].conn
        state == IF Detaching(k) THEN "waiting" ELSE Step(client[k])
    IN  /\ Connected(k) /\ lease[l].state = "free"
        /\ stored /\ In(k, {"creating"}) = {}
        /\ MayReserve(k, mode)
        /\ Called
        /\ client' = [client EXCEPT ![k] = Reserved(@, l, mode)]
        /\ lease' = [lease EXCEPT ![l] = [state |-> state, mode |-> mode]]
        /\ Asks(k, state, pending)
        /\ skewed' = IF state = "active" /\ c \notin sessionIds THEN skewed \cup {c} ELSE skewed
        /\ UNCHANGED <<toClient, connVars, sessions, publisher, queued, closing, faults>>

Usable(l) == /\ Connected(OwnerOf(l)) /\ client[OwnerOf(l)].attached
             /\ lease[l].state = "active"

IsLast(k) == client[k].count <= 1

(* detach() or dispose() of a lease                                        *)
release(l, how) ==
    LET k == OwnerOf(l)
    IN  /\ Usable(l)
        /\ Called
        /\ IF IsLast(k)
           THEN /\ lease' = Set({l}, how)
                /\ Requested(k, "detach", l, pending)
                /\ UNCHANGED client
           ELSE /\ lease' = [lease EXCEPT ![l] = Free]
                /\ client' = [client EXCEPT ![k] = Released(@, {l})]
                /\ UNCHANGED <<pending, lastRequest, toServer>>
        /\ UNCHANGED <<toClient, connVars, serverVars>>

request(l) ==
    /\ Usable(l)
    /\ Called
    /\ Requested(OwnerOf(l), "op", l, pending)
    /\ UNCHANGED <<client, lease, toClient, connVars, serverVars>>

----------------------------------------------------------------------------
(* What the client receives.                                               *)

Receives(k, m) ==
    /\ client[k].conn # 0 /\ toClient[client[k].conn] # <<>>
    /\ m = Head(toClient[client[k].conn])
    /\ toClient' = [toClient EXCEPT ![client[k].conn] = Tail(@)]
    /\ UNCHANGED <<calls, connVars, serverVars>>

(* Mutant: an older snapshot is taken too.                                 *)
TakenAlways(cl, m) == [cl EXCEPT !.attached = m.attached, !.revision = m.revision]

(* applyServerSnapshot()                                                   *)
applyServerSnapshot(cl, m) ==
    IF m.revision < cl.revision THEN cl
    ELSE [cl EXCEPT !.attached = m.attached, !.revision = m.revision]

ReceiveEvent(k) ==
    \E m \in ToSet(toClient[client[k].conn]) :
        /\ m.type # "response"
        /\ Receives(k, m)
        /\ client' = [client EXCEPT ![k] =
               IF m.type = "session" THEN [@ EXCEPT !.attached = TRUE]
               ELSE [applyServerSnapshot(@, m) EXCEPT !.connected = TRUE]]
        /\ UNCHANGED <<lease, pending, lastRequest, toServer>>

(* The response m to r: r is not pending any more.                         *)
Answered(k, r, m) ==
    /\ m.type = "response"
    /\ r.client = k /\ r.id = m.id
    /\ Receives(k, m)

ReceiveCreated(k, r, m) ==
    LET reserved == m.ok /\ MayReserve(k, "exclusive")
        cl == [client[k] EXCEPT !.attached = IF m.ok THEN m.attached ELSE @]
    IN  /\ r.cmd = "create"
        /\ client' = [client EXCEPT ![k] = IF reserved THEN Reserved(cl, r.lease, "exclusive")
                                           ELSE cl]
        /\ lease' = IF reserved THEN Set({r.lease}, "active") ELSE [lease EXCEPT ![r.lease] = Free]
        /\ pending' = pending \ {r}
        /\ UNCHANGED <<lastRequest, toServer>>

ReceiveDone(k, r, m) ==
    /\ r.cmd = "op"
    /\ client' = [client EXCEPT ![k].attached = IF m.ok THEN m.attached ELSE @]
    /\ pending' = pending \ {r}
    /\ UNCHANGED <<lease, lastRequest, toServer>>

ReceiveAttached(k, r, m) ==
    LET ls == In(k, {"attaching"})
    IN  /\ r.cmd = "attach"
        /\ client' = [client EXCEPT ![k] = IF m.ok THEN [@ EXCEPT !.attached = m.attached]
                                           ELSE Released(@, ls)]
        /\ lease' = IF m.ok THEN Set(ls, "active")
                    ELSE [l \in Leases |-> IF l \in ls THEN Free ELSE lease[l]]
        /\ pending' = pending \ {r}
        /\ UNCHANGED <<lastRequest, toServer>>

(* The detach of the last lease: if it failed, detach() makes the lease    *)
(* active again, and dispose() leaves it to the next acquisition.          *)
ReceiveDetached(k, r, m) ==
    LET l == r.lease
        again == ~m.ok /\ lease[l].state = "detaching"
        cl == [client[k] EXCEPT !.attached = @ /\ ~m.ok, !.cleanup = @ \/ (~m.ok /\ ~again)]
        state == Step(cl)
        waiting == In(k, {"waiting"})
    IN  /\ r.cmd = "detach" /\ l # None
        /\ client' = [client EXCEPT ![k] = IF again THEN cl ELSE Released(cl, {l})]
        /\ lease' = [x \in Leases |->
               CASE x = l -> IF again THEN [lease[l] EXCEPT !.state = "active"] ELSE Free
                 [] x \in waiting -> [lease[x] EXCEPT !.state = state]
                 [] OTHER -> lease[x]]
        /\ Asks(k, IF waiting = {} THEN "active" ELSE state, pending \ {r})

(* #reconcileSessionCleanup(), and the attachment after it                 *)
ReceiveReconciled(k, r, m) ==
    LET ls == In(k, {"reconciling"})
    IN  /\ r.cmd = "detach" /\ r.lease = None
        /\ client' = [client EXCEPT ![k] = IF m.ok THEN [@ EXCEPT !.attached = FALSE, !.cleanup = FALSE]
                                           ELSE Released(@, ls)]
        /\ lease' = IF m.ok THEN Set(ls, "attaching")
                    ELSE [l \in Leases |-> IF l \in ls THEN Free ELSE lease[l]]
        /\ Asks(k, IF m.ok THEN "attaching" ELSE "active", pending \ {r})

ReceiveResponse(k) ==
    \E r \in pending, m \in ToSet(toClient[client[k].conn]) :
        /\ Answered(k, r, m)
        /\ \/ ReceiveCreated(k, r, m) \/ ReceiveDone(k, r, m) \/ ReceiveAttached(k, r, m)
           \/ ReceiveDetached(k, r, m) \/ ReceiveReconciled(k, r, m)

----------------------------------------------------------------------------

Users ==
    \/ \E k \in Clients : Disconnect(k) \/ \E c \in Conns : Connect(k, c)
    \/ \E l \in Leases : \/ createSession(l) \/ request(l)
                         \/ \E mode \in {"shared", "exclusive"} : acquireSession(l, mode)
                         \/ \E how \in {"detaching", "disposing"} : release(l, how)

Receive == \E k \in Clients : client[k].conn # 0 /\ (ReceiveEvent(k) \/ ReceiveResponse(k))

(* The server sees that a client has left the connection.                  *)
Left(c) == \A k \in Clients : client[k].conn # c

Server ==
    /\ \/ ServerGoes \/ ServerFails \/ Close
       \/ \E c \in Conns : Left(c) /\ Gone(c)
    /\ UNCHANGED clientVars

(* Messages, and the end of a connection by the server, arrive at once, or *)
(* after Latency; a broadcast that need not wait starts at once.           *)
Ended(k) == client[k].conn # 0 /\ ~Open(client[k].conn)

Delivered ==
    \/ Latency
    \/ /\ \A c \in Conns : toClient[c] = <<>> /\ (Open(c) => toServer[c] = <<>>)
       /\ \A k \in Clients : ~Ended(k)
Starting == queued > 0 /\ broadcast = None

Arrival ==
    \/ Receive
    \/ \E k \in Clients : Ended(k) /\ Disconnect(k)
    \/ (\E c \in Conns : Dispatch(c)) /\ UNCHANGED clientVars

Next ==
    \/ Arrival
    \/ Delivered /\ Starting /\ StartBroadcast /\ UNCHANGED clientVars
    \/ Delivered /\ ~Starting /\ (Users \/ Server)

Spec == Init /\ [][Next]_vars

----------------------------------------------------------------------------
(* Properties                                                              *)

(* A session has one runtime ("exclusively acquired"): none is opened      *)
(* before the one before it is disposed, whoever attaches meanwhile.       *)
OneRuntime ==
    Cardinality({i \in DOMAIN lives : lives[i].disposing # "done"})
    + (IF opening = "snapshot" THEN 1 ELSE 0) <= 1

(* A runtime that nobody uses is disposed at once: after the last detach,  *)
(* an operation that outlived its connection, an attach whose connection   *)
(* was gone when the runtime was open; and none is forgotten by close().   *)
NoIdleRuntime ==
    \A i \in DOMAIN lives :
        LET l == lives[i]
        IN  l.disposing = "no" =>
                /\ i = live
                /\ \/ closing \/ l.connections # {} \/ l.operationCount > 0
                   \/ l.busy /\ ~l.terminal

(* Every request that a client waits for is still on its way, worked at,   *)
(* or answered, unless the connection is at its end, which rejects it.     *)
ResponseUnderWay ==
    \A r \in pending :
        LET c == client[r.client].conn
        IN  \/ ~Open(c)
            \/ r \in ToSet(toServer[c])
            \/ \E t \in tasks : t.id = r.id
            \/ \E m \in ToSet(toClient[c]) : m.type = "response" /\ m.id = r.id

(* There is one runtime at most, and only while somebody uses it.          *)
OneRuntimeInUse == OneRuntime /\ NoIdleRuntime

Quiet ==
    /\ pending = {} /\ tasks = {} /\ opening = "no"
    /\ queued = 0 /\ broadcast = None
    /\ \A i \in DOMAIN lives : lives[i].disposing # "yes"
    /\ \A c \in Conns : handshake[c] = None /\ (Open(c) => toClient[c] = <<>>)

(* When all is quiet, a client that is connected believes to be attached   *)
(* when it is, in the server's and in the live session's eyes, and that is *)
(* when it has a lease; unless a known gap has been met.                   *)
Agreement ==
    Quiet => \A k \in Clients :
        LET c == client[k].conn
        IN  c # 0 /\ Connected(k) /\ Open(c) /\ c \notin skewed =>
                /\ client[k].attached <=> c \in sessionIds
                /\ c \in sessionIds <=> live # 0 /\ c \in lives[live].connections
                /\ c \in sessionIds <=> In(k, {"active"}) # {}

(* An exclusive lease is the only one of its client, through releases that *)
(* fail, connections that break and acquisitions under way.  And the state *)
(* is well typed: only connections that are there are attached.            *)
Exclusive ==
    /\ TypeOK
    /\ \A l, m \in Leases :
        /\ l # m /\ OwnerOf(l) = OwnerOf(m)
        /\ lease[l].mode = "exclusive" /\ lease[l].state \notin {"free", "creating"}
        => lease[m].state \in {"free", "creating"}
=============================================================================
