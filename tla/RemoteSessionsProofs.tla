------------------------ MODULE RemoteSessionsProofs ------------------------
(***************************************************************************)
(* Machine-checked facts about RemoteSessions, for any clients, leases,    *)
(* number of connections, calls and faults, and with or without Latency.   *)
(***************************************************************************)
EXTENDS RemoteSessions, WellFoundedInduction, FiniteSetTheorems, TLAPS

(* A set of natural numbers that is not empty has a least element.         *)
LEMMA LeastNat ==
    ASSUME NEW T, T \subseteq Nat, T # {}
    PROVE  \E n \in T : \A m \in T : n <= m
<1> DEFINE R == OpToRel(<, Nat)
<1>1. IsWellFoundedOn(R, Nat)
  BY NatLessThanWellFounded
<1>2. \A x, y \in Nat : y < x => <<y, x>> \in R
  BY DEF OpToRel
<1> HIDE DEF R
<1>3. \E x \in T : \A y \in T : ~ (<<y, x>> \in R)
  BY <1>1, WFMin
<1>4. PICK x \in T : \A y \in T : ~ (<<y, x>> \in R)
  BY <1>3
<1>5. ASSUME NEW y \in T PROVE x <= y
  <2>1. x \in Nat /\ y \in Nat
    OBVIOUS
  <2>2. ~(y < x)
    BY <2>1, <1>2, <1>4, Zenon
  <2> QED BY <2>1, <2>2
<1> QED BY <1>5

Request == [id : Nat \ {0}, cmd : {"create", "attach", "detach", "op"},
            lease : Leases \cup {None}, client : Clients]

Live == [connections : SUBSET Conns, operationCount : Nat, terminal : BOOLEAN,
         disposing : {"no", "yes", "done"}, busy : BOOLEAN]

ServerTask == [id : Nat, cmd : {"create", "attach", "detach", "op", "leave"}, conn : Conns,
               at : {"disposal", "opening", "attached", "telling", "running"}, live : Nat,
               opener : BOOLEAN]

(* The requests in a queue, and the tasks.                                 *)
Shape ==
    /\ toServer \in [Conns -> Seq(Request)]
    /\ stage \in [Conns -> {"none", "handshaking", "ready", "closed"}]
    /\ lives \in Seq(Live)
    /\ live \in 0..Len(lives)
    /\ opening \in {"no", "acquiring", "snapshot"}
    /\ tasks \subseteq ServerTask
    /\ \A t \in tasks : t.at # "opening" => t.live \in DOMAIN lives
    /\ lastRequest \in Nat
    /\ closing \in BOOLEAN

(* A request has a number of its own, on its way and in the server.        *)
Numbered ==
    /\ \A c \in Conns : \A i \in DOMAIN toServer[c] : toServer[c][i].id <= lastRequest
    /\ \A c, d \in Conns : \A i \in DOMAIN toServer[c], j \in DOMAIN toServer[d] :
           toServer[c][i].id = toServer[d][j].id => c = d /\ i = j
    /\ \A t \in tasks : t.id <= lastRequest
    /\ \A t \in tasks, c \in Conns : \A i \in DOMAIN toServer[c] : t.id # toServer[c][i].id
    /\ \A t, u \in tasks : t.id = u.id /\ t.id # 0 => t = u

(* One runtime at a time; while it opens one of the requests that wait is  *)
(* the one that opens it.  After close() there are no more connections.    *)
Undone == {i \in DOMAIN lives : lives[i].disposing # "done"}

OneLive ==
    /\ \A i, j \in Undone : i = j
    /\ live # 0 => live \in Undone
    /\ opening # "no" => Undone = {}
    /\ live = 0 /\ Undone # {} => closing /\ \A c \in Conns : stage[c] \in {"none", "closed"}
    /\ opening # "no" => \E t \in tasks : t.at = "opening" /\ t.opener
    /\ \A t \in tasks : t.at = "opening" => opening # "no"

(* An operation is counted while it runs.                                  *)
Running(i) == {t \in tasks : t.at = "running" /\ t.live = i}
Counted ==
    \A i \in DOMAIN lives : /\ IsFiniteSet(Running(i))
                           /\ lives[i].operationCount = Cardinality(Running(i))

(* A runtime is in use, as NoIdleRuntime has it.                           *)
InUse(l) == closing \/ l.connections # {} \/ l.operationCount > 0 \/ (l.busy /\ ~l.terminal)

RuntimeInv == Shape /\ Numbered /\ OneLive /\ Counted /\ NoIdleRuntime

-----------------------------------------------------------------------------
(* The operators of the model.                                             *)

LEMMA DisposeType ==
    ASSUME NEW l \in Live
    PROVE  /\ maybeDispose(l) \in Live
           /\ maybeDispose(l).connections = l.connections
           /\ maybeDispose(l).operationCount = l.operationCount
           /\ maybeDispose(l).disposing = "done" <=> l.disposing = "done"
           /\ maybeDispose(l).disposing = "no" => l.disposing = "no" /\ InUse(l) /\ InUse(maybeDispose(l))
<1> DEFINE idle == /\ ~closing /\ l.disposing = "no" /\ l.connections = {}
                   /\ l.operationCount = 0 /\ (l.terminal \/ ~l.busy)
           d == [l EXCEPT !.disposing = "yes"]
<1>1. d \in Live /\ d.connections = l.connections /\ d.operationCount = l.operationCount /\ d.disposing = "yes"
  BY DEF Live
<1> HIDE DEF d
<1>2. maybeDispose(l) = IF idle THEN d ELSE l
  BY DEF maybeDispose, d
<1>3. CASE idle
  BY <1>1, <1>2, <1>3
<1>4. CASE ~idle
  <2>1. maybeDispose(l) = l
    BY <1>2, <1>4
  <2>2. l.disposing = "no" => InUse(l)
    <3>1. l.operationCount = 0 \/ l.operationCount > 0
      BY DEF Live
    <3> QED BY <3>1, <1>4, Zenon DEF InUse
  <2> QED BY <2>1, <2>2
<1> QED BY <1>3, <1>4

LEMMA TaskType ==
    ASSUME NEW r \in Request, NEW c \in Conns, NEW i \in Nat,
           NEW at \in {"disposal", "opening", "attached", "telling", "running"}
    PROVE  /\ Task(r, c, at, i) \in ServerTask
           /\ Task(r, c, at, i).id = r.id /\ Task(r, c, at, i).cmd = r.cmd
           /\ Task(r, c, at, i).at = at /\ Task(r, c, at, i).live = i
           /\ Task(r, c, at, i).conn = c
BY DEF Task, ServerTask, Request

LEMMA LeaveType ==
    ASSUME NEW c \in Conns, NEW i \in Nat
    PROVE  /\ Leave(c, i) \in ServerTask
           /\ Leave(c, i).id = 0 /\ Leave(c, i).at = "disposal" /\ Leave(c, i).live = i
           /\ Leave(c, i).cmd = "leave" /\ Leave(c, i).conn = c
BY DEF Leave, Task, ServerTask

(* A live session is replaced by one that is as much disposed, or is just  *)
(* left to the disposal.                                                   *)
LEMMA ReplacedFacts ==
    ASSUME Shape, NoIdleRuntime, NEW i \in DOMAIN lives, NEW l \in Live,
           lives' = Replaced(i, l), UNCHANGED <<live, closing>>,
           l.disposing = "done" <=> lives[i].disposing = "done",
           l.disposing = "no" => lives[i].disposing = "no" /\ InUse(l)
    PROVE  /\ lives' \in Seq(Live) /\ Len(lives') = Len(lives) /\ DOMAIN lives' = DOMAIN lives
           /\ lives'[i] = l /\ \A j \in DOMAIN lives \ {i} : lives'[j] = lives[j]
           /\ Undone' = Undone
           /\ NoIdleRuntime'
<1>1. lives \in Seq(Live)
  BY DEF Shape
<1>2. /\ lives' \in Seq(Live) /\ Len(lives') = Len(lives) /\ DOMAIN lives' = DOMAIN lives
      /\ lives'[i] = l /\ \A j \in DOMAIN lives \ {i} : lives'[j] = lives[j]
  BY <1>1 DEF Replaced
<1>3. Undone' = Undone
  BY <1>2 DEF Undone
<1>4. ASSUME NEW j \in DOMAIN lives', lives'[j].disposing = "no"
      PROVE  /\ j = live
             /\ \/ closing \/ lives'[j].connections # {} \/ lives'[j].operationCount > 0
                \/ lives'[j].busy /\ ~lives'[j].terminal
  <2>1. CASE j = i
    BY <1>2, <1>4, <2>1 DEF NoIdleRuntime, InUse
  <2>2. CASE j # i
    BY <1>2, <1>4, <2>2 DEF NoIdleRuntime
  <2> QED BY <2>1, <2>2
<1>5. NoIdleRuntime'
  <2> SUFFICES ASSUME NEW j \in DOMAIN lives', lives'[j].disposing = "no"
               PROVE  /\ j = live'
                      /\ \/ closing' \/ lives'[j].connections # {} \/ lives'[j].operationCount > 0
                         \/ lives'[j].busy /\ ~lives'[j].terminal
    BY DEF NoIdleRuntime
  <2> QED BY <1>4
<1> QED BY <1>2, <1>3, <1>5

-----------------------------------------------------------------------------
(* Numbers of requests.                                                    *)

LEMMA FewerTasks ==
    ASSUME Numbered, toServer' = toServer, lastRequest' = lastRequest,
           \A t \in tasks' : \E u \in tasks : u.id = t.id,
           \A t, u \in tasks' : t.id = u.id /\ t.id # 0 => t = u
    PROVE  Numbered'
BY DEF Numbered

LEMMA TaskAdded ==
    ASSUME Shape, Numbered, NEW c \in Conns, toServer[c] # <<>>, lastRequest' = lastRequest,
           toServer' = [toServer EXCEPT ![c] = Tail(@)],
           NEW T, T.id = Head(toServer[c]).id, tasks' \subseteq tasks \cup {T}
    PROVE  Numbered' /\ toServer' \in [Conns -> Seq(Request)]
<1>1. toServer[c] \in Seq(Request) /\ Len(toServer[c]) # 0
  BY DEF Shape
<1>2. /\ \A i \in DOMAIN toServer'[c] : i + 1 \in DOMAIN toServer[c] /\ toServer'[c][i] = toServer[c][i + 1]
      /\ 1 \in DOMAIN toServer[c] /\ Head(toServer[c]) = toServer[c][1]
      /\ Tail(toServer[c]) \in Seq(Request) /\ toServer'[c] = Tail(toServer[c])
      /\ \A i \in DOMAIN toServer'[c] : i \in Nat /\ i # 0
  BY <1>1 DEF Shape
<1>3. \A d \in Conns : d # c => toServer'[d] = toServer[d]
  BY DEF Shape
<1>4. toServer' \in [Conns -> Seq(Request)]
  BY <1>2 DEF Shape
<1>5. \A d \in Conns : \A i \in DOMAIN toServer'[d] :
        /\ toServer'[d][i].id <= lastRequest'
        /\ \A t \in tasks' : t.id # toServer'[d][i].id
  <2> SUFFICES ASSUME NEW d \in Conns, NEW i \in DOMAIN toServer'[d]
               PROVE  /\ toServer'[d][i].id <= lastRequest'
                      /\ \A t \in tasks' : t.id # toServer'[d][i].id
    OBVIOUS
  <2>1. CASE d = c
    <3>1. i + 1 \in DOMAIN toServer[c] /\ toServer'[d][i] = toServer[c][i + 1] /\ i + 1 # 1
      BY <1>2, <2>1
    <3>2. toServer[c][i + 1].id <= lastRequest /\ \A t \in tasks : t.id # toServer[c][i + 1].id
      BY <3>1 DEF Numbered
    <3>3. T.id # toServer[c][i + 1].id
      BY <3>1, <1>2 DEF Numbered
    <3> QED BY <3>1, <3>2, <3>3
  <2>2. CASE d # c
    BY <1>2, <1>3, <2>2 DEF Numbered
  <2> QED BY <2>1, <2>2
<1>6. \A d, e \in Conns : \A i \in DOMAIN toServer'[d], j \in DOMAIN toServer'[e] :
        toServer'[d][i].id = toServer'[e][j].id => d = e /\ i = j
  <2> SUFFICES ASSUME NEW d \in Conns, NEW e \in Conns, NEW i \in DOMAIN toServer'[d],
                      NEW j \in DOMAIN toServer'[e], toServer'[d][i].id = toServer'[e][j].id
               PROVE  d = e /\ i = j
    OBVIOUS
  <2>0. \A x \in Conns : \A k \in DOMAIN toServer'[x] :
          \E l \in DOMAIN toServer[x] : /\ toServer'[x][k] = toServer[x][l]
                                        /\ l = IF x = c THEN k + 1 ELSE k
    BY <1>2, <1>3
  <2>1. PICK k \in DOMAIN toServer[d] : toServer'[d][i] = toServer[d][k] /\ k = IF d = c THEN i + 1 ELSE i
    BY <2>0
  <2>2. PICK l \in DOMAIN toServer[e] : toServer'[e][j] = toServer[e][l] /\ l = IF e = c THEN j + 1 ELSE j
    BY <2>0
  <2>3. d = e /\ k = l
    BY <2>1, <2>2 DEF Numbered
  <2>4. CASE d = c
    <3>1. toServer'[c] \in Seq(Request) /\ i \in DOMAIN toServer'[c] /\ j \in DOMAIN toServer'[c]
      BY <1>4, <2>3, <2>4
    <3>2. i \in Nat /\ j \in Nat
      BY <3>1
    <3>3. i + 1 = j + 1
      BY <2>1, <2>2, <2>3, <2>4
    <3> QED BY <2>3, <3>2, <3>3
  <2>5. CASE d # c
    BY <2>1, <2>2, <2>3, <2>5
  <2> QED BY <2>4, <2>5
<1>7. \A t \in tasks' : t.id <= lastRequest'
  BY <1>2 DEF Numbered
<1>8. \A t, u \in tasks' : t.id = u.id /\ t.id # 0 => t = u
  BY <1>2 DEF Numbered
<1> QED BY <1>4, <1>5, <1>6, <1>7, <1>8 DEF Numbered

LEMMA LeaveAdded ==
    ASSUME Shape, Numbered, NEW c \in Conns, lastRequest' = lastRequest,
           toServer' = [toServer EXCEPT ![c] = <<>>],
           NEW T, T.id = 0, tasks' \subseteq tasks \cup {T}
    PROVE  Numbered' /\ toServer' \in [Conns -> Seq(Request)]
<1>1. toServer' \in [Conns -> Seq(Request)] /\ toServer'[c] = <<>>
  BY DEF Shape
<1>2. \A d \in Conns : d # c => toServer'[d] = toServer[d]
  BY DEF Shape
<1>3. \A d \in Conns : \A i \in DOMAIN toServer'[d] :
        d # c /\ i \in DOMAIN toServer[d] /\ toServer'[d][i] = toServer[d][i] /\ toServer[d][i].id # 0
  <2> SUFFICES ASSUME NEW d \in Conns, NEW i \in DOMAIN toServer'[d]
               PROVE  d # c /\ i \in DOMAIN toServer[d] /\ toServer'[d][i] = toServer[d][i]
                      /\ toServer[d][i].id # 0
    OBVIOUS
  <2>1. d # c
    BY <1>1
  <2>2. toServer[d] \in Seq(Request)
    BY DEF Shape
  <2>3. i \in DOMAIN toServer[d] /\ toServer[d][i] \in Request
    BY <1>2, <2>1, <2>2
  <2> QED BY <1>2, <2>1, <2>3 DEF Request
<1>4. 0 <= lastRequest
  BY DEF Shape
<1>5. \A t \in tasks' : t.id <= lastRequest' /\ (t.id = 0 \/ t \in tasks)
  BY <1>4 DEF Numbered
<1>6. \A t, u \in tasks' : t.id = u.id /\ t.id # 0 => t = u
  BY <1>5 DEF Numbered
<1>7. \A t \in tasks', d \in Conns : \A i \in DOMAIN toServer'[d] : t.id # toServer'[d][i].id
  BY <1>3, <1>5 DEF Numbered
<1>8. \A d \in Conns : \A i \in DOMAIN toServer'[d] : toServer'[d][i].id <= lastRequest'
  BY <1>3 DEF Numbered
<1>9. \A d, e \in Conns : \A i \in DOMAIN toServer'[d], j \in DOMAIN toServer'[e] :
        toServer'[d][i].id = toServer'[e][j].id => d = e /\ i = j
  <2> SUFFICES ASSUME NEW d \in Conns, NEW e \in Conns, NEW i \in DOMAIN toServer'[d],
                      NEW j \in DOMAIN toServer'[e], toServer'[d][i].id = toServer'[e][j].id
               PROVE  d = e /\ i = j
    OBVIOUS
  <2>1. i \in DOMAIN toServer[d] /\ j \in DOMAIN toServer[e] /\ toServer[d][i].id = toServer[e][j].id
    BY <1>3
  <2> QED BY <2>1 DEF Numbered
<1> QED BY <1>5, <1>6, <1>7, <1>8, <1>9, <1>1 DEF Numbered

LEMMA RequestAdded ==
    ASSUME Shape, Numbered, NEW c, NEW r \in Request, r.id = lastRequest + 1, lastRequest' = lastRequest + 1,
           toServer' = [toServer EXCEPT ![c] = Append(@, r)], tasks' = tasks
    PROVE  Numbered' /\ toServer' \in [Conns -> Seq(Request)]
<1>0. lastRequest \in Nat /\ toServer \in [Conns -> Seq(Request)] /\ \A t \in tasks : t.id \in Nat
  BY DEF Shape, ServerTask
<1>1. toServer' \in [Conns -> Seq(Request)]
  <2>1. CASE c \in Conns
    <3>1. Append(toServer[c], r) \in Seq(Request)
      BY <1>0, <2>1
    <3> QED BY <1>0, <2>1, <3>1
  <2>2. CASE c \notin Conns
    BY <1>0, <2>2
  <2> QED BY <2>1, <2>2
<1>2. \A d \in Conns : \A i \in DOMAIN toServer'[d] :
        \/ i \in DOMAIN toServer[d] /\ toServer'[d][i] = toServer[d][i]
        \/ d = c /\ i = Len(toServer[d]) + 1 /\ toServer'[d][i] = r
  <2> SUFFICES ASSUME NEW d \in Conns, NEW i \in DOMAIN toServer'[d]
               PROVE  \/ i \in DOMAIN toServer[d] /\ toServer'[d][i] = toServer[d][i]
                      \/ d = c /\ i = Len(toServer[d]) + 1 /\ toServer'[d][i] = r
    OBVIOUS
  <2>1. CASE d = c
    <3>1. toServer'[d] = Append(toServer[d], r)
      BY <1>0, <2>1
    <3> QED BY <1>0, <2>1, <3>1
  <2>2. CASE d # c
    BY <1>0, <2>2
  <2> QED BY <2>1, <2>2
<1>3. \A d \in Conns : \A i \in DOMAIN toServer[d] : toServer[d][i].id \in Nat /\ toServer[d][i].id <= lastRequest
  <2> SUFFICES ASSUME NEW d \in Conns, NEW i \in DOMAIN toServer[d]
               PROVE  toServer[d][i].id \in Nat /\ toServer[d][i].id <= lastRequest
    OBVIOUS
  <2>1. toServer[d][i] \in Request
    <3>1. toServer[d] \in Seq(Request)
      BY <1>0
    <3> QED BY <3>1
  <2> QED BY <2>1 DEF Request, Numbered
<1>4. \A d \in Conns : \A i \in DOMAIN toServer'[d] : toServer'[d][i].id <= lastRequest'
  <2> SUFFICES ASSUME NEW d \in Conns, NEW i \in DOMAIN toServer'[d] PROVE toServer'[d][i].id <= lastRequest'
    OBVIOUS
  <2> QED BY <1>0, <1>2, <1>3
<1>5. \A d, e \in Conns : \A i \in DOMAIN toServer'[d], j \in DOMAIN toServer'[e] :
        toServer'[d][i].id = toServer'[e][j].id => d = e /\ i = j
  <2> SUFFICES ASSUME NEW d \in Conns, NEW e \in Conns, NEW i \in DOMAIN toServer'[d],
                      NEW j \in DOMAIN toServer'[e], toServer'[d][i].id = toServer'[e][j].id
               PROVE  d = e /\ i = j
    OBVIOUS
  <2>1. \/ i \in DOMAIN toServer[d] /\ toServer'[d][i] = toServer[d][i]
        \/ d = c /\ i = Len(toServer[d]) + 1 /\ toServer'[d][i] = r
    BY <1>2
  <2>2. \/ j \in DOMAIN toServer[e] /\ toServer'[e][j] = toServer[e][j]
        \/ e = c /\ j = Len(toServer[e]) + 1 /\ toServer'[e][j] = r
    BY <1>2
  <2>3. CASE i \in DOMAIN toServer[d] /\ j \in DOMAIN toServer[e] /\ toServer'[d][i] = toServer[d][i]
             /\ toServer'[e][j] = toServer[e][j]
    BY <2>3 DEF Numbered
  <2>4. CASE toServer'[d][i] = r /\ j \in DOMAIN toServer[e] /\ toServer'[e][j] = toServer[e][j]
    BY <2>4, <1>0, <1>3
  <2>5. CASE toServer'[e][j] = r /\ i \in DOMAIN toServer[d] /\ toServer'[d][i] = toServer[d][i]
    BY <2>5, <1>0, <1>3
  <2> QED BY <2>1, <2>2, <2>3, <2>4, <2>5
<1>6. \A t \in tasks' : t.id <= lastRequest'
  BY <1>0 DEF Numbered
<1>7. \A t \in tasks', d \in Conns : \A i \in DOMAIN toServer'[d] : t.id # toServer'[d][i].id
  <2> SUFFICES ASSUME NEW t \in tasks, NEW d \in Conns, NEW i \in DOMAIN toServer'[d]
               PROVE  t.id # toServer'[d][i].id
    OBVIOUS
  <2> QED BY <1>0, <1>2 DEF Numbered
<1>8. \A t, u \in tasks' : t.id = u.id /\ t.id # 0 => t = u
  BY DEF Numbered
<1> QED BY <1>1, <1>4, <1>5, <1>6, <1>7, <1>8 DEF Numbered

-----------------------------------------------------------------------------
(* The steps that dispose of no runtime and make none.                     *)

LEMMA ShapeFacts ==
    ASSUME Shape
    PROVE  /\ lives \in Seq(Live) /\ live \in Nat /\ (live # 0 => live \in DOMAIN lives)
           /\ \A i \in DOMAIN lives : i \in Nat \ {0} /\ lives[i] \in Live
           /\ \A t \in tasks : t \in ServerTask /\ t.live \in Nat /\ t.id \in Nat
           /\ \A t \in tasks : t.at # "opening" => t.live \in DOMAIN lives
BY DEF Shape, ServerTask

LEMMA SameUndone ==
    ASSUME Shape, OneLive, lives' \in Seq(Live), Len(lives') = Len(lives), DOMAIN lives' = DOMAIN lives,
           Undone' = Undone, UNCHANGED <<live, opening, closing>>,
           toServer' \in [Conns -> Seq(Request)], lastRequest' \in Nat,
           stage' \in [Conns -> {"none", "handshaking", "ready", "closed"}],
           \A c \in Conns : stage'[c] \in {stage[c], "closed"} \/ ~closing,
           tasks' \subseteq ServerTask,
           \A t \in tasks' : t.at # "opening" => t.live \in DOMAIN lives,
           \A t \in tasks' : t.at = "opening" => t \in tasks,
           \A t \in tasks : t.at = "opening" => t \in tasks'
    PROVE  Shape' /\ OneLive'
<1>1. Shape'
  BY DEF Shape
<1>2. live = 0 /\ Undone # {} => closing /\ \A c \in Conns : stage'[c] \in {"none", "closed"}
  BY DEF OneLive
<1>3. opening # "no" => \E t \in tasks' : t.at = "opening" /\ t.opener
  BY DEF OneLive
<1>4. \A t \in tasks' : t.at = "opening" => opening # "no"
  BY DEF OneLive
<1> QED BY <1>1, <1>2, <1>3, <1>4 DEF OneLive

LEMMA SameLives ==
    ASSUME Shape, OneLive, NoIdleRuntime, UNCHANGED <<lives, live, opening, closing>>,
           toServer' \in [Conns -> Seq(Request)], lastRequest' \in Nat,
           stage' \in [Conns -> {"none", "handshaking", "ready", "closed"}],
           \A c \in Conns : stage'[c] \in {stage[c], "closed"} \/ ~closing,
           tasks' \subseteq ServerTask,
           \A t \in tasks' : t.at # "opening" => t.live \in DOMAIN lives,
           \A t \in tasks' : t.at = "opening" => t \in tasks,
           \A t \in tasks : t.at = "opening" => t \in tasks'
    PROVE  Shape' /\ OneLive' /\ NoIdleRuntime'
<1>1. lives' \in Seq(Live) /\ Len(lives') = Len(lives) /\ DOMAIN lives' = DOMAIN lives
  BY DEF Shape
<1>2. Undone' = Undone
  BY DEF Undone
<1>3. NoIdleRuntime'
  BY DEF NoIdleRuntime
<1>4. UNCHANGED <<live, opening, closing>>
  OBVIOUS
<1>5. Shape' /\ OneLive'
  BY <1>1, <1>2, <1>4, SameUndone
<1> QED BY <1>3, <1>5

(* The operations that run are the same.                                   *)
LEMMA SameRunning ==
    ASSUME Counted, DOMAIN lives' = DOMAIN lives,
           \A i \in DOMAIN lives : lives'[i].operationCount = lives[i].operationCount,
           \A t \in tasks' : t.at = "running" => t \in tasks,
           \A t \in tasks : t.at = "running" => t \in tasks'
    PROVE  Counted'
<1>1. \A i \in DOMAIN lives : Running(i)' = Running(i)
  BY DEF Running
<1> QED BY <1>1 DEF Counted

LEMMA QuietStep ==
    ASSUME RuntimeInv, UNCHANGED <<toServer, stage, lives, live, opening, tasks, closing, lastRequest>>
    PROVE  RuntimeInv'
<1>1. Shape' /\ Numbered'
  BY DEF RuntimeInv, Shape, Numbered
<1>2. OneLive' /\ Counted' /\ NoIdleRuntime'
  BY DEF RuntimeInv, OneLive, Undone, Counted, Running, NoIdleRuntime
<1> QED BY <1>1, <1>2 DEF RuntimeInv

LEMMA RequestStep ==
    ASSUME RuntimeInv, UNCHANGED <<stage, lives, live, opening, tasks, closing>>,
           \/ UNCHANGED <<toServer, lastRequest>>
           \/ \E k \in Clients, cmd \in {"create", "attach", "detach", "op"}, l \in Leases \cup {None} :
                 \E p : Requested(k, cmd, l, p)
    PROVE  RuntimeInv'
<1>1. CASE UNCHANGED <<toServer, lastRequest>>
  BY <1>1, QuietStep
<1>2. ASSUME NEW k \in Clients, NEW cmd \in {"create", "attach", "detach", "op"},
             NEW l \in Leases \cup {None}, NEW p, Requested(k, cmd, l, p)
      PROVE  RuntimeInv'
  <2> DEFINE r == [id |-> lastRequest + 1, cmd |-> cmd, lease |-> l, client |-> k]
  <2>1. lastRequest \in Nat /\ Shape /\ Numbered /\ OneLive /\ Counted /\ NoIdleRuntime
    BY DEF RuntimeInv, Shape
  <2>2. r \in Request /\ r.id = lastRequest + 1
    BY <2>1 DEF Request
  <2>3. lastRequest' = lastRequest + 1 /\ toServer' = [toServer EXCEPT ![client[k].conn] = Append(@, r)]
    BY <1>2 DEF Requested
  <2>4. lastRequest' \in Nat
    BY <2>1, <2>3
  <2> HIDE DEF r
  <2>5. Numbered' /\ toServer' \in [Conns -> Seq(Request)]
    BY <2>1, <2>2, <2>3, RequestAdded
  <2>6. /\ stage' \in [Conns -> {"none", "handshaking", "ready", "closed"}] /\ tasks' \subseteq ServerTask
        /\ \A c \in Conns : stage'[c] \in {stage[c], "closed"} \/ ~closing
        /\ \A t \in tasks' : t.at # "opening" => t.live \in DOMAIN lives
        /\ \A t \in tasks' : t.at = "opening" => t \in tasks
        /\ \A t \in tasks : t.at = "opening" => t \in tasks'
    BY <2>1 DEF Shape
  <2>7. Shape' /\ OneLive' /\ NoIdleRuntime'
    BY <2>1, <2>4, <2>5, <2>6, SameLives
  <2>8. Counted'
    BY <2>1, SameRunning
  <2> QED BY <2>5, <2>7, <2>8 DEF RuntimeInv
<1> QED BY <1>1, <1>2

(* A task ends, or the request of one goes on elsewhere.                   *)
LEMMA TaskEnds ==
    ASSUME RuntimeInv, UNCHANGED <<toServer, stage, lives, live, opening, closing, lastRequest>>,
           NEW t \in tasks, t.at \notin {"opening", "running"}, tasks' = tasks \ {t}
    PROVE  RuntimeInv'
<1>1. Shape /\ Numbered /\ OneLive /\ Counted /\ NoIdleRuntime
  BY DEF RuntimeInv
<1>2. Numbered'
  BY <1>1, FewerTasks DEF Numbered
<1>3. /\ toServer' \in [Conns -> Seq(Request)] /\ lastRequest' \in Nat
      /\ stage' \in [Conns -> {"none", "handshaking", "ready", "closed"}] /\ tasks' \subseteq ServerTask
      /\ \A c \in Conns : stage'[c] \in {stage[c], "closed"} \/ ~closing
      /\ \A u \in tasks' : u.at # "opening" => u.live \in DOMAIN lives
      /\ \A u \in tasks' : u.at = "opening" => u \in tasks
      /\ \A u \in tasks : u.at = "opening" => u \in tasks'
  BY <1>1 DEF Shape
<1>4. Shape' /\ OneLive' /\ NoIdleRuntime'
  BY <1>1, <1>3, SameLives
<1>5. Counted'
  BY <1>1, SameRunning
<1> QED BY <1>2, <1>4, <1>5 DEF RuntimeInv

LEMMA TellingStep ==
    ASSUME RuntimeInv, NEW t, FinishTelling(t), UNCHANGED lastRequest
    PROVE  RuntimeInv'
<1>1. Shape /\ Numbered /\ OneLive /\ Counted /\ NoIdleRuntime
  BY DEF RuntimeInv
<1> DEFINE i == t.live
           l == maybeDispose(lives[i])
           u == [t EXCEPT !.at = "disposal"]
<1>2. t \in tasks /\ t.at = "telling" /\ i \in DOMAIN lives /\ lives[i] \in Live /\ t \in ServerTask
  BY <1>1, ShapeFacts DEF FinishTelling
<1>3. /\ lives' = Replaced(i, l) /\ (tasks' = (tasks \ {t}) \cup {u} \/ tasks' = tasks \ {t})
      /\ UNCHANGED <<toServer, stage, live, opening, closing, lastRequest>>
  BY DEF FinishTelling, connVars
<1>4. u \in ServerTask /\ u.at = "disposal" /\ u.live = i /\ u.id = t.id
  BY <1>2 DEF ServerTask
<1>5. /\ l \in Live /\ (l.disposing = "done" <=> lives[i].disposing = "done")
      /\ l.disposing = "no" => lives[i].disposing = "no" /\ InUse(l)
      /\ l.operationCount = lives[i].operationCount
  BY <1>2, DisposeType
<1> HIDE DEF i, l, u
<1>6. /\ lives' \in Seq(Live) /\ Len(lives') = Len(lives) /\ DOMAIN lives' = DOMAIN lives
      /\ lives'[i] = l /\ \A j \in DOMAIN lives \ {i} : lives'[j] = lives[j]
      /\ Undone' = Undone
      /\ NoIdleRuntime'
  BY <1>1, <1>2, <1>3, <1>5, ReplacedFacts
<1>7. /\ toServer' \in [Conns -> Seq(Request)] /\ lastRequest' \in Nat
      /\ stage' \in [Conns -> {"none", "handshaking", "ready", "closed"}] /\ tasks' \subseteq ServerTask
      /\ \A c \in Conns : stage'[c] \in {stage[c], "closed"} \/ ~closing
      /\ \A v \in tasks' : v.at # "opening" => v.live \in DOMAIN lives
      /\ \A v \in tasks' : v.at = "opening" => v \in tasks
      /\ \A v \in tasks : v.at = "opening" => v \in tasks'
  BY <1>1, <1>2, <1>3, <1>4 DEF Shape
<1>8. Shape' /\ OneLive'
  BY <1>1, <1>3, <1>6, <1>7, SameUndone
<1>9. Counted'
  BY <1>1, <1>2, <1>3, <1>4, <1>5, <1>6, SameRunning
<1>10. Numbered'
  BY <1>1, <1>2, <1>3, <1>4, FewerTasks DEF Numbered
<1> QED BY <1>6, <1>8, <1>9, <1>10 DEF RuntimeInv

(* One runtime changes, and neither is one opened nor an operation begun   *)
(* or ended.                                                               *)
LEMMA LiveReplaced ==
    ASSUME RuntimeInv, NEW i \in DOMAIN lives, NEW l \in Live, lives' = Replaced(i, l),
           l.disposing = "done" <=> lives[i].disposing = "done",
           l.disposing = "no" => lives[i].disposing = "no" /\ InUse(l),
           l.operationCount = lives[i].operationCount,
           UNCHANGED <<live, opening, closing, lastRequest>>,
           toServer' \in [Conns -> Seq(Request)],
           stage' \in [Conns -> {"none", "handshaking", "ready", "closed"}],
           \A c \in Conns : stage'[c] \in {stage[c], "closed"} \/ ~closing,
           tasks' \subseteq ServerTask,
           \A t \in tasks' : t.at # "opening" => t.live \in DOMAIN lives,
           \A t \in tasks' : t.at \in {"opening", "running"} => t \in tasks,
           \A t \in tasks : t.at \in {"opening", "running"} => t \in tasks'
    PROVE  Shape' /\ OneLive' /\ Counted' /\ NoIdleRuntime'
<1>1. Shape /\ OneLive /\ Counted /\ NoIdleRuntime /\ lastRequest' \in Nat
  BY DEF RuntimeInv, Shape
<1>2. /\ lives' \in Seq(Live) /\ Len(lives') = Len(lives) /\ DOMAIN lives' = DOMAIN lives
      /\ lives'[i] = l /\ \A j \in DOMAIN lives \ {i} : lives'[j] = lives[j]
      /\ Undone' = Undone
      /\ NoIdleRuntime'
  BY <1>1, ReplacedFacts
<1>3. Shape' /\ OneLive'
  BY <1>1, <1>2, SameUndone
<1>4. Counted'
  BY <1>1, <1>2, SameRunning
<1> QED BY <1>2, <1>3, <1>4

LEMMA EventStep ==
    ASSUME RuntimeInv, NEW i, RunEnds(i) \/ Terminate(i), UNCHANGED lastRequest
    PROVE  RuntimeInv'
<1>1. Shape /\ Numbered
  BY DEF RuntimeInv
<1>2. i \in DOMAIN lives /\ lives[i] \in Live
  BY <1>1, ShapeFacts DEF RunEnds, Terminate
<1>3. PICK x \in Live : /\ x.disposing = lives[i].disposing /\ x.operationCount = lives[i].operationCount
                        /\ lives' = Replaced(i, maybeDispose(x))
  <2>1. [lives[i] EXCEPT !.busy = FALSE] \in Live /\ [lives[i] EXCEPT !.terminal = TRUE] \in Live
    BY <1>2 DEF Live
  <2>2. CASE RunEnds(i)
    BY <2>1, <2>2 DEF RunEnds, Live
  <2>3. CASE Terminate(i)
    BY <2>1, <2>3 DEF Terminate, Live
  <2> QED BY <2>2, <2>3
<1> DEFINE l == maybeDispose(x)
<1>4. /\ l \in Live /\ (l.disposing = "done" <=> lives[i].disposing = "done")
      /\ l.disposing = "no" => lives[i].disposing = "no" /\ InUse(l)
      /\ l.operationCount = lives[i].operationCount
  BY <1>3, DisposeType
<1>5. UNCHANGED <<toServer, stage, live, opening, closing, lastRequest, tasks>>
  BY DEF RunEnds, Terminate, connVars, wires
<1> HIDE DEF l
<1>6. lives' = Replaced(i, l)
  BY <1>3 DEF l
<1>7. /\ toServer' \in [Conns -> Seq(Request)]
      /\ stage' \in [Conns -> {"none", "handshaking", "ready", "closed"}] /\ tasks' \subseteq ServerTask
      /\ \A c \in Conns : stage'[c] \in {stage[c], "closed"} \/ ~closing
      /\ \A t \in tasks' : t.at # "opening" => t.live \in DOMAIN lives
      /\ \A t \in tasks' : t.at \in {"opening", "running"} => t \in tasks
      /\ \A t \in tasks : t.at \in {"opening", "running"} => t \in tasks'
  BY <1>1, <1>5 DEF Shape
<1>8. Shape' /\ OneLive' /\ Counted' /\ NoIdleRuntime'
  BY <1>2, <1>4, <1>5, <1>6, <1>7, LiveReplaced
<1>9. Numbered'
  BY <1>1, <1>5, FewerTasks DEF Numbered
<1> QED BY <1>8, <1>9 DEF RuntimeInv

LEMMA OperationStep ==
    ASSUME RuntimeInv, NEW t, FinishOperation(t), UNCHANGED lastRequest
    PROVE  RuntimeInv'
<1>1. Shape /\ Numbered /\ OneLive /\ Counted /\ NoIdleRuntime
  BY DEF RuntimeInv
<1> DEFINE i == t.live
           x == [lives[i] EXCEPT !.operationCount = @ - 1]
           l == maybeDispose(x)
<1>2. t \in tasks /\ t.at = "running" /\ i \in DOMAIN lives /\ lives[i] \in Live /\ t \in ServerTask
  BY <1>1, ShapeFacts DEF FinishOperation
<1>3. /\ lives' = Replaced(i, l) /\ tasks' = tasks \ {t}
      /\ UNCHANGED <<toServer, stage, live, opening, closing, lastRequest>>
  BY DEF FinishOperation, connVars
<1>4. /\ IsFiniteSet(Running(i)) /\ lives[i].operationCount = Cardinality(Running(i)) /\ t \in Running(i)
      /\ Running(i)' = Running(i) \ {t} /\ \A j \in DOMAIN lives \ {i} : Running(j)' = Running(j)
  BY <1>1, <1>2, <1>3 DEF Counted, Running
<1>5. /\ Cardinality(Running(i)) \in Nat \ {0} /\ IsFiniteSet(Running(i)')
      /\ Cardinality(Running(i)') = Cardinality(Running(i)) - 1
  BY <1>4, FS_CardinalityType, FS_EmptySet, FS_RemoveElement
<1>6. x \in Live /\ x.disposing = lives[i].disposing /\ x.operationCount = Cardinality(Running(i)')
  BY <1>2, <1>4, <1>5 DEF Live
<1>7. /\ l \in Live /\ (l.disposing = "done" <=> lives[i].disposing = "done")
      /\ l.disposing = "no" => lives[i].disposing = "no" /\ InUse(l)
      /\ l.operationCount = Cardinality(Running(i)')
  BY <1>6, DisposeType
<1> HIDE DEF i, l, x
<1>8. /\ lives' \in Seq(Live) /\ Len(lives') = Len(lives) /\ DOMAIN lives' = DOMAIN lives
      /\ lives'[i] = l /\ \A j \in DOMAIN lives \ {i} : lives'[j] = lives[j]
      /\ Undone' = Undone
      /\ NoIdleRuntime'
  BY <1>1, <1>2, <1>3, <1>7, ReplacedFacts
<1>9. /\ toServer' \in [Conns -> Seq(Request)] /\ lastRequest' \in Nat
      /\ stage' \in [Conns -> {"none", "handshaking", "ready", "closed"}] /\ tasks' \subseteq ServerTask
      /\ \A c \in Conns : stage'[c] \in {stage[c], "closed"} \/ ~closing
      /\ \A v \in tasks' : v.at # "opening" => v.live \in DOMAIN lives
      /\ \A v \in tasks' : v.at = "opening" => v \in tasks
      /\ \A v \in tasks : v.at = "opening" => v \in tasks'
  BY <1>1, <1>2, <1>3 DEF Shape
<1>10. Shape' /\ OneLive'
  BY <1>1, <1>3, <1>8, <1>9, SameUndone
<1>11. Counted'
  <2> SUFFICES ASSUME NEW j \in DOMAIN lives
               PROVE  IsFiniteSet(Running(j)') /\ lives'[j].operationCount = Cardinality(Running(j)')
    BY <1>8 DEF Counted
  <2>1. CASE j = i
    BY <2>1, <1>5, <1>7, <1>8
  <2>2. CASE j # i
    BY <2>2, <1>1, <1>4, <1>8 DEF Counted
  <2> QED BY <2>1, <2>2
<1>12. Numbered'
  BY <1>1, <1>3, FewerTasks DEF Numbered
<1> QED BY <1>8, <1>10, <1>11, <1>12 DEF RuntimeInv

-----------------------------------------------------------------------------
(* Connections.                                                            *)

LEMMA DisconnectStep ==
    ASSUME RuntimeInv, NEW c \in Conns, ServerDisconnect(c), UNCHANGED lastRequest
    PROVE  RuntimeInv'
<1>1. Shape /\ Numbered /\ OneLive /\ Counted /\ NoIdleRuntime
  BY DEF RuntimeInv
<1> DEFINE had == c \in sessionIds /\ live # 0
           x == Without(lives[live], c)
           l == maybeDispose(x)
<1>2. /\ toServer' = [toServer EXCEPT ![c] = <<>>] /\ stage' = [stage EXCEPT ![c] = "closed"]
      /\ UNCHANGED <<live, opening, closing, lastRequest>>
      /\ lives' = IF had THEN Replaced(live, l) ELSE lives
      /\ tasks' = tasks \/ (had /\ tasks' = tasks \cup {Leave(c, live)})
  BY DEF ServerDisconnect
<1>3. /\ live \in Nat /\ Leave(c, live) \in ServerTask /\ Leave(c, live).id = 0
      /\ Leave(c, live).at = "disposal" /\ Leave(c, live).live = live
  BY <1>1, ShapeFacts, LeaveType
<1>4. tasks' \subseteq tasks \cup {Leave(c, live)}
  BY <1>2
<1> HIDE DEF l, x, had
<1>5. Numbered' /\ toServer' \in [Conns -> Seq(Request)]
  BY <1>1, <1>2, <1>3, <1>4, LeaveAdded
<1>6. stage' \in [Conns -> {"none", "handshaking", "ready", "closed"}]
      /\ \A d \in Conns : stage'[d] \in {stage[d], "closed"}
  BY <1>1, <1>2 DEF Shape
<1>7. /\ tasks' \subseteq ServerTask /\ lastRequest' \in Nat
      /\ \A t \in tasks' : t.at # "opening" => t.live \in DOMAIN lives
      /\ \A t \in tasks' : t.at \in {"opening", "running"} => t \in tasks
      /\ \A t \in tasks : t.at \in {"opening", "running"} => t \in tasks'
  <2>1. had => live \in DOMAIN lives
    BY <1>1, ShapeFacts DEF had
  <2> QED BY <1>1, <1>2, <1>3, <2>1 DEF Shape
<1>8. CASE had
  <2>1. live \in DOMAIN lives /\ lives[live] \in Live
    BY <1>1, <1>8, ShapeFacts DEF had
  <2>2. x \in Live /\ x.disposing = lives[live].disposing /\ x.operationCount = lives[live].operationCount
    BY <2>1 DEF x, Without, Live
  <2>3. /\ l \in Live /\ (l.disposing = "done" <=> lives[live].disposing = "done")
        /\ l.disposing = "no" => lives[live].disposing = "no" /\ InUse(l)
        /\ l.operationCount = lives[live].operationCount
    BY <2>2, DisposeType DEF l
  <2>4. lives' = Replaced(live, l)
    BY <1>2, <1>8
  <2>5. Shape' /\ OneLive' /\ Counted' /\ NoIdleRuntime'
    BY <2>1, <2>3, <2>4, <1>2, <1>5, <1>6, <1>7, LiveReplaced
  <2> QED BY <2>5, <1>5 DEF RuntimeInv
<1>9. CASE ~had
  <2>1. lives' = lives
    BY <1>2, <1>9
  <2>2. Shape' /\ OneLive' /\ NoIdleRuntime'
    BY <1>1, <1>2, <1>5, <1>6, <1>7, <2>1, SameLives
  <2>3. Counted'
    BY <1>1, <1>7, <2>1, SameRunning
  <2> QED BY <2>2, <2>3, <1>5 DEF RuntimeInv
<1> QED BY <1>8, <1>9

(* A connection is accepted, or ready; or the server begins to close.      *)
LEMMA StageStep ==
    ASSUME RuntimeInv, UNCHANGED <<toServer, lives, live, opening, tasks, lastRequest>>,
           stage' \in [Conns -> {"none", "handshaking", "ready", "closed"}],
           closing' \in BOOLEAN, ~closing, closing' => stage' = stage
    PROVE  RuntimeInv'
<1>1. Shape' /\ Numbered'
  BY DEF RuntimeInv, Shape, Numbered
<1>2. Counted'
  BY DEF RuntimeInv, Counted, Running
<1>3. Undone' = Undone
  BY DEF Undone
<1>4. NoIdleRuntime'
  BY DEF NoIdleRuntime, RuntimeInv
<1>5. OneLive'
  BY <1>3 DEF OneLive, RuntimeInv
<1> QED BY <1>1, <1>2, <1>4, <1>5 DEF RuntimeInv

LEMMA CloseSessionsStep ==
    ASSUME RuntimeInv, CloseSessions, UNCHANGED lastRequest
    PROVE  RuntimeInv'
<1>1. Shape /\ Numbered /\ OneLive /\ Counted /\ NoIdleRuntime
  BY DEF RuntimeInv
<1> DEFINE l == [lives[live] EXCEPT !.disposing = IF @ = "no" THEN "yes" ELSE @]
<1>2. live \in DOMAIN lives /\ lives[live] \in Live /\ lives \in Seq(Live) /\ live \in Undone
  BY <1>1, ShapeFacts DEF CloseSessions, OneLive
<1>3. l \in Live /\ l.disposing = "yes" /\ l.operationCount = lives[live].operationCount
  BY <1>2 DEF Live, Undone
<1>4. /\ UNCHANGED <<toServer, stage, opening, tasks, closing, lastRequest>> /\ live' = 0 /\ closing
      /\ \A c \in Conns : stage[c] \in {"none", "closed"} /\ opening = "no"
  BY DEF CloseSessions, wires, connVars
<1>5. lives' = Replaced(live, l)
  BY DEF CloseSessions, Replaced
<1> HIDE DEF l
<1>6. /\ lives' \in Seq(Live) /\ Len(lives') = Len(lives) /\ DOMAIN lives' = DOMAIN lives
      /\ lives'[live] = l /\ \A j \in DOMAIN lives \ {live} : lives'[j] = lives[j]
  BY <1>2, <1>3, <1>5 DEF Replaced
<1>7. Undone' = Undone
  BY <1>2, <1>3, <1>6 DEF Undone
<1>8. Shape' /\ Numbered'
  BY <1>1, <1>4, <1>6 DEF Shape, Numbered
<1>9. OneLive'
  BY <1>1, <1>4, <1>7 DEF OneLive
<1>10. Counted'
  BY <1>1, <1>3, <1>4, <1>6, SameRunning
<1>11. NoIdleRuntime'
  <2> SUFFICES ASSUME NEW j \in DOMAIN lives', lives'[j].disposing = "no" PROVE FALSE
    BY DEF NoIdleRuntime
  <2>1. j # live
    BY <1>3, <1>6
  <2>2. j \in Undone
    BY <1>6, <2>1 DEF Undone
  <2> QED BY <2>1, <2>2, <1>1, <1>2 DEF OneLive
<1> QED BY <1>8, <1>9, <1>10, <1>11 DEF RuntimeInv

-----------------------------------------------------------------------------
(* A runtime is opened.                                                    *)

LEMMA AcquiredStep ==
    ASSUME RuntimeInv, Acquired, UNCHANGED lastRequest
    PROVE  RuntimeInv'
<1>1. Shape /\ Numbered /\ OneLive /\ Counted /\ NoIdleRuntime
  BY DEF RuntimeInv
<1>2. /\ UNCHANGED <<toServer, stage, lives, live, closing, lastRequest>> /\ opening = "acquiring"
      /\ \/ tasks' = tasks \ Opening /\ opening' = "no"
         \/ tasks' = tasks /\ opening' = "snapshot"
  BY DEF Acquired, wires, connVars
<1>3. Shape'
  BY <1>1, <1>2 DEF Shape
<1>4. Numbered'
  BY <1>1, <1>2, FewerTasks DEF Numbered
<1>5. Undone' = Undone
  BY <1>2 DEF Undone
<1>6. OneLive'
  BY <1>1, <1>2, <1>5 DEF OneLive, Opening
<1>7. Counted'
  <2>1. /\ \A t \in tasks' : t.at = "running" => t \in tasks
        /\ \A t \in tasks : t.at = "running" => t \in tasks'
    BY <1>2 DEF Opening
  <2> QED BY <2>1, <1>1, <1>2, SameRunning
<1>8. NoIdleRuntime'
  BY <1>1, <1>2 DEF NoIdleRuntime
<1> QED BY <1>3, <1>4, <1>6, <1>7, <1>8 DEF RuntimeInv

LEMMA OpenFailsStep ==
    ASSUME RuntimeInv, OpenFails, UNCHANGED lastRequest
    PROVE  RuntimeInv'
<1>1. Shape /\ Numbered /\ OneLive /\ Counted /\ NoIdleRuntime
  BY DEF RuntimeInv
<1>2. /\ UNCHANGED <<toServer, stage, lives, live, closing, lastRequest>> /\ opening # "no"
      /\ tasks' = tasks \ Opening /\ opening' = "no"
  BY DEF OpenFails, connVars
<1>3. Shape'
  BY <1>1, <1>2 DEF Shape
<1>4. Numbered'
  BY <1>1, <1>2, FewerTasks DEF Numbered
<1>5. Undone' = Undone
  BY <1>2 DEF Undone
<1>6. OneLive'
  BY <1>1, <1>2, <1>5 DEF OneLive, Opening
<1>7. Counted'
  <2>1. /\ \A t \in tasks' : t.at = "running" => t \in tasks
        /\ \A t \in tasks : t.at = "running" => t \in tasks'
    BY <1>2 DEF Opening
  <2> QED BY <2>1, <1>1, <1>2, SameRunning
<1>8. NoIdleRuntime'
  BY <1>1, <1>2 DEF NoIdleRuntime
<1> QED BY <1>3, <1>4, <1>6, <1>7, <1>8 DEF RuntimeInv

LEMMA OpenedStep ==
    ASSUME RuntimeInv, Opened, UNCHANGED lastRequest
    PROVE  RuntimeInv'
<1>1. Shape /\ Numbered /\ OneLive /\ Counted /\ NoIdleRuntime
  BY DEF RuntimeInv
<1> DEFINE n == Len(lives) + 1
           here == {t \in Opening : Open(t.conn)}
           lost == \E t \in Opening \ here : t.opener
           new == [connections |-> {}, operationCount |-> 0, terminal |-> FALSE,
                   disposing |-> "no", busy |-> FALSE]
           first == IF lost THEN maybeDispose(new) ELSE new
           l == [first EXCEPT !.connections = {t.conn : t \in here}]
<1>2. /\ UNCHANGED <<toServer, stage, closing, lastRequest>> /\ opening = "snapshot" /\ opening' = "no"
      /\ live' = n /\ lives' = Append(lives, l)
  BY DEF Opened, wires, connVars
<1>3. tasks' = (tasks \ Opening) \cup {[t EXCEPT !.at = "attached", !.live = n] : t \in here}
  BY <1>2 DEF Opened
<1>4. lives \in Seq(Live) /\ n \in Nat \ {0} /\ Undone = {}
  BY <1>1, <1>2 DEF Shape, OneLive
<1>5. \A t \in here : /\ t \in tasks /\ t \in ServerTask /\ t.conn \in Conns
                      /\ [t EXCEPT !.at = "attached", !.live = n] \in ServerTask
                      /\ [t EXCEPT !.at = "attached", !.live = n].at = "attached"
                      /\ [t EXCEPT !.at = "attached", !.live = n].live = n
                      /\ [t EXCEPT !.at = "attached", !.live = n].id = t.id
  BY <1>1, <1>4 DEF Opening, Shape, ServerTask
<1>6. /\ l \in Live /\ l.connections = {t.conn : t \in here} /\ l.operationCount = 0 /\ l.disposing \in {"no", "yes"}
      /\ l.disposing = "no" => closing \/ ~lost
  <2>1. /\ first \in Live /\ first.operationCount = 0 /\ first.disposing \in {"no", "yes"}
        /\ first.disposing = "no" => closing \/ ~lost
    <3>1. new \in Live /\ new.operationCount = 0 /\ new.disposing = "no" /\ new.connections = {}
          /\ ~new.terminal /\ ~new.busy
      BY DEF Live
    <3> HIDE DEF new
    <3>2. maybeDispose(new) = IF ~closing THEN [new EXCEPT !.disposing = "yes"] ELSE new
      BY <3>1 DEF maybeDispose
    <3>3. [new EXCEPT !.disposing = "yes"] \in Live /\ [new EXCEPT !.disposing = "yes"].operationCount = 0
          /\ [new EXCEPT !.disposing = "yes"].disposing = "yes"
      BY <3>1 DEF Live
    <3> QED BY <3>1, <3>2, <3>3
  <2>2. {t.conn : t \in here} \subseteq Conns
    BY <1>5
  <2> HIDE DEF first, here, lost
  <2> QED BY <2>1, <2>2 DEF Live
<1>7. \A u \in tasks' : \/ u \in tasks /\ u.at # "opening"
                        \/ \E t \in here : u = [t EXCEPT !.at = "attached", !.live = n]
  BY <1>3 DEF Opening
<1> HIDE DEF l, first, new
<1>8. /\ lives' \in Seq(Live) /\ Len(lives') = n /\ DOMAIN lives' = DOMAIN lives \cup {n}
      /\ lives'[n] = l /\ \A j \in DOMAIN lives : j # n /\ lives'[j] = lives[j]
  BY <1>2, <1>4, <1>6
<1>9. Undone' = {n}
  <2>1. \A j \in DOMAIN lives' : lives'[j].disposing # "done" <=> j = n
    BY <1>4, <1>6, <1>8 DEF Undone
  <2> QED BY <2>1, <1>8 DEF Undone
<1>10. \A u \in tasks' : /\ u \in ServerTask /\ u.live \in DOMAIN lives' /\ u.at # "opening"
                         /\ \E t \in tasks : t.id = u.id
                         /\ u.at = "running" => u \in tasks
  <2> SUFFICES ASSUME NEW u \in tasks'
               PROVE  /\ u \in ServerTask /\ u.live \in DOMAIN lives' /\ u.at # "opening"
                      /\ \E t \in tasks : t.id = u.id
                      /\ u.at = "running" => u \in tasks
    OBVIOUS
  <2>1. CASE u \in tasks /\ u.at # "opening"
    BY <2>1, <1>1, <1>8 DEF Shape
  <2>2. CASE \E t \in here : u = [t EXCEPT !.at = "attached", !.live = n]
    BY <2>2, <1>5, <1>8
  <2> QED BY <2>1, <2>2, <1>7
<1>11. Shape'
  <2>1. tasks' \subseteq ServerTask
    BY <1>10
  <2>2. live' \in 0..Len(lives')
    BY <1>2, <1>4, <1>8
  <2> QED BY <1>1, <1>2, <1>8, <1>10, <2>1, <2>2 DEF Shape
<1>12. Numbered'
  <2>1. \A t, u \in tasks' : t.id = u.id /\ t.id # 0 => t = u
    <3> SUFFICES ASSUME NEW t \in tasks', NEW u \in tasks', t.id = u.id, t.id # 0 PROVE t = u
      OBVIOUS
    <3>1. CASE (t \in tasks /\ t.at # "opening") /\ (u \in tasks /\ u.at # "opening")
      BY <3>1, <1>1 DEF Numbered
    <3>2. ASSUME NEW a \in here, u = [a EXCEPT !.at = "attached", !.live = n], t \in tasks, t.at # "opening"
          PROVE  FALSE
      <4>1. a \in tasks /\ a.id = t.id /\ a.at = "opening"
        BY <3>2, <1>5 DEF Opening
      <4> QED BY <4>1, <3>2, <1>1 DEF Numbered
    <3>3. ASSUME NEW a \in here, t = [a EXCEPT !.at = "attached", !.live = n], u \in tasks, u.at # "opening"
          PROVE  FALSE
      <4>1. a \in tasks /\ a.id = u.id /\ a.id # 0 /\ a.at = "opening"
        BY <3>3, <1>5 DEF Opening
      <4> QED BY <4>1, <3>3, <1>1 DEF Numbered
    <3>4. ASSUME NEW a \in here, t = [a EXCEPT !.at = "attached", !.live = n],
                 NEW b \in here, u = [b EXCEPT !.at = "attached", !.live = n]
          PROVE  t = u
      <4>1. a \in tasks /\ b \in tasks /\ t.id = a.id /\ u.id = b.id
        BY <3>4, <1>5
      <4>2. a = b
        BY <4>1, <1>1 DEF Numbered
      <4> QED BY <4>2, <3>4
    <3> QED BY <1>7, <3>1, <3>2, <3>3, <3>4
  <2> QED BY <2>1, <1>1, <1>2, <1>10, FewerTasks
<1>13. OneLive'
  BY <1>2, <1>4, <1>9, <1>10 DEF OneLive
<1>14. Counted'
  <2> SUFFICES ASSUME NEW j \in DOMAIN lives'
               PROVE  IsFiniteSet(Running(j)') /\ lives'[j].operationCount = Cardinality(Running(j)')
    BY DEF Counted
  <2>1. CASE j \in DOMAIN lives
    <3>1. Running(j)' = Running(j)
      BY <1>3, <1>10 DEF Running, Opening
    <3> QED BY <2>1, <3>1, <1>1, <1>8 DEF Counted
  <2>2. CASE j = n
    <3>1. Running(j)' = {}
      <4>1. \A t \in tasks : t.at # "opening" => t.live # n
        BY <1>1, <1>8 DEF Shape
      <4> QED BY <4>1, <1>10, <2>2 DEF Running
    <3> QED BY <2>2, <3>1, <1>6, <1>8, FS_EmptySet
  <2> QED BY <2>1, <2>2, <1>8
<1>15. NoIdleRuntime'
  <2> SUFFICES ASSUME NEW j \in DOMAIN lives', lives'[j].disposing = "no"
               PROVE  /\ j = live'
                      /\ \/ closing' \/ lives'[j].connections # {} \/ lives'[j].operationCount > 0
                         \/ lives'[j].busy /\ ~lives'[j].terminal
    BY DEF NoIdleRuntime
  <2>1. j = n
    BY <1>9 DEF Undone
  <2>2. PICK t \in tasks : t.at = "opening" /\ t.opener
    BY <1>1, <1>2 DEF OneLive
  <2>3. closing \/ t \in here
    BY <2>1, <2>2, <1>6, <1>8 DEF Opening
  <2>4. closing \/ lives'[j].connections # {}
    <3>1. t \in here => t.conn \in l.connections
      BY <1>6
    <3>2. lives'[j] = l
      BY <2>1, <1>8
    <3> QED BY <3>1, <3>2, <2>3
  <2> QED BY <2>1, <2>4, <1>2
<1> QED BY <1>11, <1>12, <1>13, <1>14, <1>15 DEF RuntimeInv

-----------------------------------------------------------------------------
(* A runtime is disposed: the request among those that waited that came    *)
(* first opens the next one.                                               *)

LEMMA DisposedStep ==
    ASSUME RuntimeInv, NEW i, NEW ok \in BOOLEAN, Disposed(i, ok), UNCHANGED lastRequest
    PROVE  RuntimeInv'
<1>1. Shape /\ Numbered /\ OneLive /\ Counted /\ NoIdleRuntime
  BY DEF RuntimeInv
<1> DEFINE waiting == {t \in tasks : t.at = "disposal" /\ t.live = i}
           acquire == {t \in waiting : t.cmd = "attach"} \cup {t \in waiting : t.cmd = "create"}
           first(t) == \A u \in acquire : t.id <= u.id
           moved(t) == [t EXCEPT !.at = "opening", !.live = 0, !.opener = first(t)]
           again == IF ok THEN {moved(t) : t \in acquire} ELSE {}
           l == [lives[i] EXCEPT !.disposing = "done"]
<1>2. /\ i \in DOMAIN lives /\ lives[i].disposing = "yes" /\ UNCHANGED <<toServer, stage, closing, lastRequest>>
      /\ lives' = [lives EXCEPT ![i] = l] /\ live' = IF live = i THEN 0 ELSE live
      /\ tasks' = (tasks \ waiting) \cup again
      /\ opening' = IF again # {} THEN "acquiring" ELSE opening
  BY DEF Disposed, connVars
<1>3. /\ lives \in Seq(Live) /\ l \in Live /\ l.operationCount = lives[i].operationCount
      /\ l.disposing = "done"
  BY <1>1, <1>2, ShapeFacts DEF Live
<1> HIDE DEF l
<1>4. /\ lives' \in Seq(Live) /\ Len(lives') = Len(lives) /\ DOMAIN lives' = DOMAIN lives
      /\ lives'[i] = l /\ \A j \in DOMAIN lives \ {i} : lives'[j] = lives[j]
  <2>1. i \in DOMAIN lives /\ lives' = [lives EXCEPT ![i] = l]
    BY <1>2
  <2> QED BY <2>1, <1>3
<1>5. Undone = {i} /\ Undone' = {} /\ opening = "no" /\ live' = 0
  <2>1. i \in Undone
    BY <1>2 DEF Undone
  <2>2. Undone = {i} /\ opening = "no"
    BY <1>1, <2>1 DEF OneLive
  <2>3. Undone' = {}
    BY <2>2, <1>3, <1>4 DEF Undone
  <2>4. live' = 0
    BY <1>1, <1>2, <2>2 DEF OneLive
  <2> QED BY <2>2, <2>3, <2>4
<1>6. \A t \in acquire : /\ t \in tasks /\ t.id \in Nat /\ t.at = "disposal"
                         /\ moved(t) \in ServerTask /\ moved(t).at = "opening" /\ moved(t).id = t.id
                         /\ moved(t).opener = first(t)
  <2> SUFFICES ASSUME NEW t \in acquire
               PROVE  /\ t \in tasks /\ t.id \in Nat /\ t.at = "disposal"
                      /\ moved(t) \in ServerTask /\ moved(t).at = "opening" /\ moved(t).id = t.id
                      /\ moved(t).opener = first(t)
    OBVIOUS
  <2>1. t \in tasks /\ t \in ServerTask /\ t.at = "disposal"
    BY <1>1 DEF Shape
  <2>2. first(t) \in BOOLEAN
    OBVIOUS
  <2> HIDE DEF first, acquire
  <2> QED BY <2>1, <2>2 DEF ServerTask
<1>7. \A u \in tasks' : \/ u \in tasks \ waiting
                        \/ ok /\ \E t \in acquire : u = moved(t)
  BY <1>2
<1>8. again # {} => \E t \in acquire : first(t)
  <2> SUFFICES ASSUME acquire # {} PROVE \E t \in acquire : first(t)
    OBVIOUS
  <2> DEFINE T == {t.id : t \in acquire}
  <2>0. \A t \in acquire : t.id \in Nat
    BY <1>6
  <2>1. T \subseteq Nat /\ T # {}
    <3> HIDE DEF acquire
    <3> QED BY <2>0
  <2> HIDE DEF T
  <2>2. PICK n \in T : \A m \in T : n <= m
    BY <2>1, LeastNat
  <2>3. PICK t \in acquire : t.id = n
    BY DEF T
  <2>4. \A u \in acquire : u.id \in T
    BY DEF T
  <2> HIDE DEF acquire
  <2>5. first(t)
    BY <2>2, <2>3, <2>4
  <2> QED BY <2>5
<1>9. \A u \in tasks' : /\ u \in ServerTask /\ (u.at # "opening" => u \in tasks)
                        /\ \E t \in tasks : t.id = u.id
                        /\ u.at = "opening" => again # {}
  <2> SUFFICES ASSUME NEW u \in tasks'
               PROVE  /\ u \in ServerTask /\ (u.at # "opening" => u \in tasks)
                      /\ \E t \in tasks : t.id = u.id
                      /\ u.at = "opening" => again # {}
    OBVIOUS
  <2>1. CASE u \in tasks \ waiting
    <3>1. u.at # "opening" /\ u \in tasks
      BY <2>1, <1>1, <1>5 DEF OneLive
    <3> QED BY <3>1, <1>1 DEF Shape
  <2>2. ASSUME NEW t \in acquire, ok, u = moved(t)
        PROVE  /\ u \in ServerTask /\ (u.at # "opening" => u \in tasks)
               /\ \E a \in tasks : a.id = u.id
               /\ u.at = "opening" => again # {}
    <3>1. u \in again
      BY <2>2
    <3> HIDE DEF moved, again, acquire
    <3> QED BY <3>1, <2>2, <1>6
  <2> QED BY <1>7, <2>1, <2>2
<1>10. \A t, u \in tasks' : t.id = u.id /\ t.id # 0 => t = u
  <2> SUFFICES ASSUME NEW t \in tasks', NEW u \in tasks', t.id = u.id, t.id # 0 PROVE t = u
    OBVIOUS
  <2> HIDE DEF moved
  <2>1. CASE t \in tasks \ waiting /\ u \in tasks \ waiting
    BY <2>1, <1>1 DEF Numbered
  <2>2. ASSUME NEW a \in acquire, t = moved(a), u \in tasks \ waiting PROVE FALSE
    <3>1. a \in tasks /\ a \in waiting /\ a.id = u.id /\ a.id # 0
      BY <2>2, <1>6
    <3> QED BY <3>1, <2>2, <1>1 DEF Numbered
  <2>3. ASSUME NEW a \in acquire, u = moved(a), t \in tasks \ waiting PROVE FALSE
    <3>1. a \in tasks /\ a \in waiting /\ a.id = t.id /\ a.id # 0
      BY <2>3, <1>6
    <3> QED BY <3>1, <2>3, <1>1 DEF Numbered
  <2>4. ASSUME NEW a \in acquire, t = moved(a), NEW b \in acquire, u = moved(b) PROVE t = u
    <3>1. a \in tasks /\ b \in tasks /\ a.id = b.id /\ a.id # 0
      BY <2>4, <1>6
    <3>2. a = b
      BY <3>1, <1>1 DEF Numbered
    <3> QED BY <3>2, <2>4
  <2> QED BY <1>7, <2>1, <2>2, <2>3, <2>4
<1>11. /\ \A t \in tasks' : t.at = "running" => t \in tasks
       /\ \A t \in tasks : t.at = "running" => t \in tasks'
  BY <1>2, <1>9
<1>12. again # {} => \E t \in tasks' : t.at = "opening" /\ t.opener
  <2> SUFFICES ASSUME again # {} PROVE \E t \in tasks' : t.at = "opening" /\ t.opener
    OBVIOUS
  <2>1. PICK t \in acquire : first(t)
    BY <1>8
  <2>2. moved(t) \in again
    OBVIOUS
  <2>3. moved(t) \in tasks'
    BY <1>2, <2>2
  <2> HIDE DEF moved, again, acquire, first
  <2> QED BY <2>1, <2>3, <1>6
<1> HIDE DEF moved, again, acquire, first, waiting
<1>13. Shape'
  <2>1. tasks' \subseteq ServerTask /\ \A t \in tasks' : t.at # "opening" => t.live \in DOMAIN lives'
    BY <1>1, <1>4, <1>9 DEF Shape
  <2>2. opening' \in {"no", "acquiring", "snapshot"} /\ live' \in 0..Len(lives')
    BY <1>1, <1>2, <1>4, <1>5 DEF Shape
  <2> QED BY <2>1, <2>2, <1>1, <1>2, <1>4 DEF Shape
<1>14. Numbered'
  BY <1>1, <1>2, <1>9, <1>10, FewerTasks
<1>15. OneLive'
  BY <1>2, <1>5, <1>9, <1>12 DEF OneLive
<1>16. Counted'
  <2>1. \A j \in DOMAIN lives : lives'[j].operationCount = lives[j].operationCount
    BY <1>3, <1>4
  <2> QED BY <2>1, <1>1, <1>4, <1>11, SameRunning
<1>17. NoIdleRuntime'
  <2>1. \A j \in DOMAIN lives' : lives'[j].disposing = "done"
    BY <1>5 DEF Undone
  <2> QED BY <2>1 DEF NoIdleRuntime
<1> QED BY <1>13, <1>14, <1>15, <1>16, <1>17 DEF RuntimeInv

-----------------------------------------------------------------------------
(* A request arrives.                                                      *)

LEMMA HeadType ==
    ASSUME Shape, NEW c \in Conns, toServer[c] # <<>>
    PROVE  Head(toServer[c]) \in Request /\ Head(toServer[c]).id # 0 /\ Head(toServer[c]).id \in Nat
           /\ Head(toServer[c]) = toServer[c][1] /\ 1 \in DOMAIN toServer[c]
<1>1. toServer[c] \in Seq(Request)
  BY DEF Shape
<1>2. Head(toServer[c]) \in Request /\ Head(toServer[c]) = toServer[c][1] /\ 1 \in DOMAIN toServer[c]
  BY <1>1
<1> QED BY <1>2 DEF Request

LEMMA AcquireStep ==
    ASSUME RuntimeInv, NEW c \in Conns, Dispatch(c), Acquire(Head(toServer[c]), c), UNCHANGED lastRequest
    PROVE  RuntimeInv'
<1>1. Shape /\ Numbered /\ OneLive /\ Counted /\ NoIdleRuntime
  BY DEF RuntimeInv
<1> DEFINE r == Head(toServer[c])
           at == IF MayOpen \/ opening # "no" THEN "opening" ELSE "disposal"
           T == [Task(r, c, at, live) EXCEPT !.opener = MayOpen]
           A == Task(r, c, "attached", live)
           x == [lives[live] EXCEPT !.connections = @ \cup {c}]
<1>2. /\ toServer[c] # <<>> /\ stage[c] = "ready" /\ toServer' = [toServer EXCEPT ![c] = Tail(@)]
      /\ UNCHANGED <<stage, closing, lastRequest, live>>
  BY DEF Dispatch, connVars, Acquire
<1>3. r \in Request
  BY <1>1, <1>2, HeadType
<1>4. live \in Nat /\ (live # 0 => live \in DOMAIN lives /\ lives[live] \in Live)
  BY <1>1, ShapeFacts
<1>5. MayOpen \in BOOLEAN /\ (MayOpen => opening = "no" /\ live = 0) /\ (~MayOpen => opening # "no" \/ live # 0)
  BY DEF MayOpen
<1>6. at \in {"opening", "disposal"} /\ (at = "opening" <=> MayOpen \/ opening # "no")
  OBVIOUS
<1>7. /\ T \in ServerTask /\ T.id = r.id /\ T.at = at /\ T.live = live /\ T.opener = MayOpen
      /\ A \in ServerTask /\ A.id = r.id /\ A.at = "attached" /\ A.live = live
  <2>1. /\ Task(r, c, at, live) \in ServerTask /\ Task(r, c, at, live).id = r.id
        /\ Task(r, c, at, live).at = at /\ Task(r, c, at, live).live = live
    BY <1>3, <1>4, <1>6, TaskType
  <2>2. /\ T \in ServerTask /\ T.id = r.id /\ T.at = at /\ T.live = live /\ T.opener = MayOpen
    <3> HIDE DEF r, at
    <3> QED BY <2>1, <1>5 DEF ServerTask
  <2> QED BY <2>2, <1>3, <1>4, TaskType
<1>8. Undone = {} \/ live # 0
  BY <1>1, <1>2 DEF OneLive
<1>9. \/ lives' = lives /\ tasks' = tasks /\ opening' = opening
      \/ lives' = lives /\ tasks' = tasks \cup {T} /\ opening' = IF MayOpen THEN "acquiring" ELSE opening
      \/ /\ lives' = Replaced(live, x) /\ tasks' = tasks \cup {A} /\ opening' = opening
         /\ at = "disposal" /\ lives[live].disposing = "no"
  BY DEF Acquire, Attached
<1>10. ~MayOpen /\ opening = "no" => live # 0
  BY <1>5
<1> HIDE DEF r, at, T, A, x
<1>11. Numbered' /\ toServer' \in [Conns -> Seq(Request)]
  <2>1. CASE tasks' \subseteq tasks \cup {T}
    BY <2>1, <1>1, <1>2, <1>7, TaskAdded DEF r
  <2>2. CASE tasks' \subseteq tasks \cup {A}
    BY <2>2, <1>1, <1>2, <1>7, TaskAdded DEF r
  <2> QED BY <2>1, <2>2, <1>9
<1>12. lastRequest' \in Nat /\ stage' \in [Conns -> {"none", "handshaking", "ready", "closed"}]
       /\ \A d \in Conns : stage'[d] \in {stage[d], "closed"} \/ ~closing
  BY <1>1, <1>2 DEF Shape
<1>13. CASE lives' = lives /\ tasks' = tasks /\ opening' = opening
  <2>1. Shape' /\ OneLive' /\ NoIdleRuntime'
    <3>1. /\ tasks' \subseteq ServerTask /\ \A t \in tasks' : t.at # "opening" => t.live \in DOMAIN lives
      BY <1>1, <1>13 DEF Shape
    <3> QED BY <3>1, <1>1, <1>2, <1>11, <1>12, <1>13, SameLives
  <2>2. Counted'
    BY <1>1, <1>13, SameRunning
  <2> QED BY <2>1, <2>2, <1>11 DEF RuntimeInv
<1>14. CASE lives' = lives /\ tasks' = tasks \cup {T} /\ opening' = IF MayOpen THEN "acquiring" ELSE opening
  <2>1. Shape'
    BY <1>1, <1>2, <1>4, <1>5, <1>6, <1>7, <1>10, <1>11, <1>12, <1>14 DEF Shape
  <2>2. Undone' = Undone
    BY <1>14 DEF Undone
  <2>3. OneLive'
    <3>1. opening' # "no" => Undone = {}
      BY <1>1, <1>5, <1>8, <1>14 DEF OneLive
    <3>2. opening' # "no" => \E t \in tasks' : t.at = "opening" /\ t.opener
      <4>1. CASE MayOpen
        BY <4>1, <1>6, <1>7, <1>14
      <4>2. CASE ~MayOpen
        BY <4>2, <1>1, <1>14 DEF OneLive
      <4> QED BY <4>1, <4>2
    <3>3. \A t \in tasks' : t.at = "opening" => opening' # "no"
      <4>1. T.at = "opening" => opening' # "no"
        BY <1>6, <1>7, <1>14
      <4>2. opening # "no" => opening' # "no"
        BY <1>14
      <4> QED BY <4>1, <4>2, <1>1, <1>14 DEF OneLive
    <3> QED BY <3>1, <3>2, <3>3, <2>2, <1>1, <1>2 DEF OneLive
  <2>4. Counted'
    <3>1. T.at # "running"
      BY <1>6, <1>7
    <3> QED BY <3>1, <1>1, <1>14, SameRunning
  <2>5. NoIdleRuntime'
    BY <1>1, <1>2, <1>14 DEF NoIdleRuntime
  <2> QED BY <2>1, <2>3, <2>4, <2>5, <1>11 DEF RuntimeInv
<1>15. CASE /\ lives' = Replaced(live, x) /\ tasks' = tasks \cup {A} /\ opening' = opening
            /\ at = "disposal" /\ lives[live].disposing = "no"
  <2>1. live # 0
    BY <1>15, <1>6, <1>10
  <2>2. live \in DOMAIN lives /\ lives[live] \in Live
    BY <2>1, <1>4
  <2>3. /\ x \in Live /\ x.disposing = "no" /\ x.operationCount = lives[live].operationCount
        /\ x.connections # {}
    BY <2>2, <1>15 DEF x, Live
  <2>4. /\ tasks' \subseteq ServerTask
        /\ \A t \in tasks' : t.at # "opening" => t.live \in DOMAIN lives
        /\ \A t \in tasks' : t.at \in {"opening", "running"} => t \in tasks
        /\ \A t \in tasks : t.at \in {"opening", "running"} => t \in tasks'
    BY <2>2, <1>1, <1>7, <1>15 DEF Shape
  <2>5. Shape' /\ OneLive' /\ Counted' /\ NoIdleRuntime'
    BY <2>2, <2>3, <2>4, <1>2, <1>11, <1>12, <1>15, LiveReplaced DEF InUse
  <2> QED BY <2>5, <1>11 DEF RuntimeInv
<1> QED BY <1>9, <1>13, <1>14, <1>15

LEMMA DetachStep ==
    ASSUME RuntimeInv, NEW c \in Conns, Dispatch(c), Detach(Head(toServer[c]), c), UNCHANGED lastRequest
    PROVE  RuntimeInv'
<1>1. Shape /\ Numbered /\ OneLive /\ Counted /\ NoIdleRuntime
  BY DEF RuntimeInv
<1> DEFINE r == Head(toServer[c])
           l == Without(lives[live], c)
           tells == l.connections # {} /\ ~l.terminal /\ l.disposing = "no"
           left == IF tells THEN l ELSE maybeDispose(l)
           at == IF tells THEN "telling" ELSE "disposal"
           T == Task(r, c, at, live)
           had == c \in sessionIds /\ live # 0
<1>2. /\ toServer[c] # <<>> /\ toServer' = [toServer EXCEPT ![c] = Tail(@)]
      /\ UNCHANGED <<stage, closing, lastRequest, live, opening>>
  BY DEF Dispatch, connVars, Detach
<1>3. r \in Request
  BY <1>1, <1>2, HeadType
<1>4. live \in Nat /\ (live # 0 => live \in DOMAIN lives /\ lives[live] \in Live)
  BY <1>1, ShapeFacts
<1>5. /\ T \in ServerTask /\ T.id = r.id /\ T.at \in {"telling", "disposal"} /\ T.live = live
  <2>1. at \in {"telling", "disposal"}
    OBVIOUS
  <2> QED BY <2>1, <1>3, <1>4, TaskType
<1>6. /\ ~had => lives' = lives /\ tasks' = tasks
      /\ had => lives' = Replaced(live, left) /\ (tasks' = tasks \/ tasks' = tasks \cup {T})
  BY DEF Detach
<1>7. ASSUME had
      PROVE  /\ left \in Live /\ (left.disposing = "done" <=> lives[live].disposing = "done")
             /\ left.disposing = "no" => lives[live].disposing = "no" /\ InUse(left)
             /\ left.operationCount = lives[live].operationCount
  <2>1. l \in Live /\ l.disposing = lives[live].disposing /\ l.operationCount = lives[live].operationCount
    BY <1>4, <1>7 DEF Without, Live
  <2>2. tells => l.connections # {} /\ left = l
    OBVIOUS
  <2>3. ~tells => left = maybeDispose(l)
    OBVIOUS
  <2> HIDE DEF l, tells, left
  <2>4. CASE tells
    BY <2>1, <2>2, <2>4 DEF InUse
  <2>5. CASE ~tells
    BY <2>1, <2>3, <2>5, DisposeType
  <2> QED BY <2>4, <2>5
<1>8. had => live \in DOMAIN lives
  BY <1>4
<1> HIDE DEF r, at, T, l, tells, left, had
<1>9. Numbered' /\ toServer' \in [Conns -> Seq(Request)]
  <2>1. tasks' \subseteq tasks \cup {T}
    BY <1>6
  <2> QED BY <2>1, <1>1, <1>2, <1>5, TaskAdded DEF r
<1>10. /\ lastRequest' \in Nat /\ stage' \in [Conns -> {"none", "handshaking", "ready", "closed"}]
       /\ \A d \in Conns : stage'[d] \in {stage[d], "closed"} \/ ~closing
  BY <1>1, <1>2 DEF Shape
<1>11. /\ tasks' \subseteq ServerTask
       /\ \A t \in tasks' : t.at # "opening" => t.live \in DOMAIN lives
       /\ \A t \in tasks' : t.at \in {"opening", "running"} => t \in tasks
       /\ \A t \in tasks : t.at \in {"opening", "running"} => t \in tasks'
  BY <1>1, <1>5, <1>6, <1>8 DEF Shape
<1>12. CASE had
  <2>1. Shape' /\ OneLive' /\ Counted' /\ NoIdleRuntime'
    BY <1>2, <1>6, <1>7, <1>8, <1>9, <1>10, <1>11, <1>12, LiveReplaced
  <2> QED BY <2>1, <1>9 DEF RuntimeInv
<1>13. CASE ~had
  <2>1. lives' = lives
    BY <1>6, <1>13
  <2>2. Shape' /\ OneLive' /\ NoIdleRuntime'
    BY <2>1, <1>1, <1>2, <1>9, <1>10, <1>11, SameLives
  <2>3. Counted'
    BY <2>1, <1>1, <1>11, SameRunning
  <2> QED BY <2>2, <2>3, <1>9 DEF RuntimeInv
<1> QED BY <1>12, <1>13

LEMMA OperateStep ==
    ASSUME RuntimeInv, NEW c \in Conns, Dispatch(c), Operate(Head(toServer[c]), c), UNCHANGED lastRequest
    PROVE  RuntimeInv'
<1>1. Shape /\ Numbered /\ OneLive /\ Counted /\ NoIdleRuntime
  BY DEF RuntimeInv
<1> DEFINE r == Head(toServer[c])
           l == [lives[live] EXCEPT !.operationCount = @ + 1, !.busy = TRUE]
           T == Task(r, c, "running", live)
           may == c \in sessionIds /\ live # 0 /\ ~lives[live].terminal /\ lives[live].disposing = "no"
<1>2. /\ toServer[c] # <<>> /\ toServer' = [toServer EXCEPT ![c] = Tail(@)]
      /\ UNCHANGED <<stage, closing, lastRequest, live, opening>>
  BY DEF Dispatch, connVars, Operate
<1>3. r \in Request
  BY <1>1, <1>2, HeadType
<1>4. live \in Nat /\ (live # 0 => live \in DOMAIN lives /\ lives[live] \in Live)
  BY <1>1, ShapeFacts
<1>5. /\ T \in ServerTask /\ T.id = r.id /\ T.at = "running" /\ T.live = live
  BY <1>3, <1>4, TaskType
<1>6. /\ ~may => lives' = lives /\ tasks' = tasks
      /\ may => lives' = Replaced(live, l) /\ tasks' = tasks \cup {T}
  BY DEF Operate
<1>7. ASSUME may
      PROVE  /\ live \in DOMAIN lives /\ lives[live].disposing = "no"
             /\ l \in Live /\ l.disposing = "no" /\ l.operationCount > 0
             /\ l.operationCount = lives[live].operationCount + 1
  <2>1. live \in DOMAIN lives /\ lives[live].disposing = "no" /\ lives[live] \in Live
    BY <1>4, <1>7
  <2> DEFINE v == lives[live]
  <2>2. [v EXCEPT !.operationCount = @ + 1] \in Live
    BY <2>1 DEF Live
  <2>3. l = [[v EXCEPT !.operationCount = @ + 1] EXCEPT !.busy = TRUE]
    OBVIOUS
  <2>4. v.operationCount \in Nat
    BY <2>1 DEF Live
  <2> DEFINE w == [v EXCEPT !.operationCount = @ + 1]
  <2>5. w \in Live /\ w.disposing = "no" /\ w.operationCount = v.operationCount + 1
    BY <2>1, <2>2 DEF Live
  <2> HIDE DEF may, w
  <2>6. l \in Live /\ l.disposing = w.disposing /\ l.operationCount = w.operationCount
    BY <2>3, <2>5 DEF Live, w
  <2> QED BY <2>1, <2>4, <2>5, <2>6
<1>8. T \notin tasks
  BY <1>1, <1>2, <1>5, HeadType DEF Numbered
<1> HIDE DEF r, T, l, may
<1>9. Numbered' /\ toServer' \in [Conns -> Seq(Request)]
  <2>1. tasks' \subseteq tasks \cup {T}
    BY <1>6
  <2> QED BY <2>1, <1>1, <1>2, <1>5, TaskAdded DEF r
<1>10. /\ lastRequest' \in Nat /\ stage' \in [Conns -> {"none", "handshaking", "ready", "closed"}]
       /\ \A d \in Conns : stage'[d] \in {stage[d], "closed"} \/ ~closing
  BY <1>1, <1>2 DEF Shape
<1>11. /\ tasks' \subseteq ServerTask
       /\ \A t \in tasks' : t.at # "opening" => t.live \in DOMAIN lives
       /\ \A t \in tasks' : t.at = "opening" => t \in tasks
       /\ \A t \in tasks : t.at = "opening" => t \in tasks'
  BY <1>1, <1>5, <1>6, <1>7 DEF Shape
<1>12. CASE may
  <2>1. /\ lives' \in Seq(Live) /\ Len(lives') = Len(lives) /\ DOMAIN lives' = DOMAIN lives
        /\ lives'[live] = l /\ \A j \in DOMAIN lives \ {live} : lives'[j] = lives[j]
        /\ Undone' = Undone
        /\ NoIdleRuntime'
    BY <1>1, <1>2, <1>6, <1>7, <1>12, ReplacedFacts DEF InUse
  <2>2. Shape' /\ OneLive'
    BY <2>1, <1>1, <1>2, <1>9, <1>10, <1>11, SameUndone
  <2>3. Counted'
    <3>1. Running(live)' = Running(live) \cup {T} /\ T \notin Running(live)
          /\ \A j \in DOMAIN lives \ {live} : Running(j)' = Running(j)
      BY <1>2, <1>5, <1>6, <1>8, <1>12 DEF Running
    <3>2. IsFiniteSet(Running(live)) /\ lives[live].operationCount = Cardinality(Running(live))
      BY <1>1, <1>7, <1>12 DEF Counted
    <3>3. IsFiniteSet(Running(live)') /\ lives'[live].operationCount = Cardinality(Running(live)')
      <4>1. IsFiniteSet(Running(live) \cup {T}) /\ Cardinality(Running(live) \cup {T}) = Cardinality(Running(live)) + 1
        BY <3>1, <3>2, FS_AddElement
      <4> QED BY <4>1, <2>1, <3>1, <3>2, <1>2, <1>7, <1>12
    <3> SUFFICES ASSUME NEW j \in DOMAIN lives
                 PROVE  IsFiniteSet(Running(j)') /\ lives'[j].operationCount = Cardinality(Running(j)')
      BY <2>1 DEF Counted
    <3>4. CASE j = live
      BY <3>3, <3>4, <1>2
    <3>5. CASE j # live
      BY <3>1, <3>5, <2>1, <1>1 DEF Counted
    <3> QED BY <3>4, <3>5
  <2> QED BY <2>1, <2>2, <2>3, <1>9 DEF RuntimeInv
<1>13. CASE ~may
  <2>1. lives' = lives /\ tasks' = tasks
    BY <1>6, <1>13
  <2>2. Shape' /\ OneLive' /\ NoIdleRuntime'
    BY <2>1, <1>1, <1>2, <1>9, <1>10, <1>11, SameLives
  <2>3. Counted'
    BY <2>1, <1>1, SameRunning
  <2> QED BY <2>2, <2>3, <1>9 DEF RuntimeInv
<1> QED BY <1>12, <1>13

LEMMA AsksStep ==
    ASSUME RuntimeInv, UNCHANGED <<stage, lives, live, opening, tasks, closing>>,
           NEW k \in Clients, NEW state, NEW p, Asks(k, state, p)
    PROVE  RuntimeInv'
<1>1. \/ UNCHANGED <<toServer, lastRequest>>
      \/ \E cmd \in {"attach", "detach"} : Requested(k, cmd, None, p)
  BY DEF Asks
<1> QED BY <1>1, RequestStep

LEMMA DispatchStep ==
    ASSUME RuntimeInv, NEW c \in Conns, Dispatch(c), UNCHANGED lastRequest
    PROVE  RuntimeInv'
<1>1. Acquire(Head(toServer[c]), c) \/ Detach(Head(toServer[c]), c) \/ Operate(Head(toServer[c]), c)
  BY DEF Dispatch
<1> QED BY <1>1, AcquireStep, DetachStep, OperateStep

-----------------------------------------------------------------------------
(* The whole system.                                                       *)

LEMMA ServerStep ==
    ASSUME RuntimeInv, closed \subseteq Conns, Server
    PROVE  RuntimeInv'
<1>1. UNCHANGED lastRequest
  BY DEF Server, clientVars
<1>2. Shape
  BY DEF RuntimeInv
<1>3. ASSUME NEW c \in Conns, SendHello(c) PROVE RuntimeInv'
  <2>1. UNCHANGED <<toServer, lives, live, opening, tasks, closing>> /\ ~closing
        /\ stage' = [stage EXCEPT ![c] = "ready"]
    BY <1>3 DEF SendHello, sessions
  <2>2. stage' \in [Conns -> {"none", "handshaking", "ready", "closed"}] /\ closing' \in BOOLEAN
    BY <2>1, <1>2 DEF Shape
  <2> QED BY <2>1, <2>2, <1>1, StageStep
<1>4. ASSUME NEW c \in Conns, CatchUp(c) PROVE RuntimeInv'
  <2>1. UNCHANGED <<toServer, stage, lives, live, opening, tasks, closing>>
    BY <1>4 DEF CatchUp, sessions
  <2> QED BY <2>1, <1>1, QuietStep
<1>5. ASSUME SendSnapshot PROVE RuntimeInv'
  <2>1. UNCHANGED <<toServer, stage, lives, live, opening, tasks, closing>>
    BY <1>5 DEF SendSnapshot, sessions, connVars
  <2> QED BY <2>1, <1>1, QuietStep
<1>6. ASSUME NEW c \in Conns, ServerDisconnect(c) PROVE RuntimeInv'
  BY <1>1, <1>6, DisconnectStep
<1>7. ASSUME NEW t \in tasks, FinishAttach(t) \/ AttachFails(t) PROVE RuntimeInv'
  <2>1. /\ UNCHANGED <<toServer, stage, lives, live, opening, closing>> /\ tasks' = tasks \ {t}
        /\ t.at \notin {"opening", "running"}
    BY <1>7 DEF FinishAttach, AttachFails, connVars
  <2> QED BY <2>1, <1>1, TaskEnds
<1>8. ASSUME Close PROVE RuntimeInv'
  <2>1. UNCHANGED <<toServer, stage, lives, live, opening, tasks>> /\ ~closing /\ closing' = TRUE
    BY <1>8 DEF Close, wires, sessions
  <2> QED BY <2>1, <1>1, <1>2, StageStep DEF Shape
<1>9. ASSUME ServerGoes PROVE RuntimeInv'
  <2>1. ASSUME NEW c \in closed, Gone(c) PROVE RuntimeInv'
    BY <2>1, <1>6 DEF Gone
  <2> QED BY <1>9, <2>1, <1>1, <1>3, <1>4, <1>5, <1>7, AcquiredStep, OpenedStep, CloseSessionsStep,
             TellingStep, OperationStep, EventStep, DisposedStep DEF ServerGoes
<1>10. ASSUME ServerFails PROVE RuntimeInv'
  <2>1. ASSUME NEW c \in Conns, Break(c) PROVE RuntimeInv'
    BY <2>1, <1>6 DEF Break
  <2> QED BY <1>10, <2>1, <1>1, <1>7, OpenFailsStep, EventStep, DisposedStep DEF ServerFails
<1> QED BY <1>6, <1>8, <1>9, <1>10 DEF Server, Gone

LEMMA UserStep ==
    ASSUME RuntimeInv, Users
    PROVE  RuntimeInv'
<1>1. Shape
  BY DEF RuntimeInv
<1>2. ASSUME NEW k \in Clients, Disconnect(k) PROVE RuntimeInv'
  <2>1. UNCHANGED <<toServer, stage, lives, live, opening, tasks, closing, lastRequest>>
    BY <1>2 DEF Disconnect, connVars, serverVars, sessions
  <2> QED BY <2>1, QuietStep
<1>3. ASSUME NEW k \in Clients, NEW c \in Conns, Connect(k, c) PROVE RuntimeInv'
  <2>1. UNCHANGED <<toServer, lives, live, opening, tasks, closing, lastRequest>> /\ ~closing
        /\ stage' = [stage EXCEPT ![c] = "handshaking"]
    BY <1>3 DEF Connect, Accept, wires, serverVars, sessions
  <2>2. stage' \in [Conns -> {"none", "handshaking", "ready", "closed"}] /\ closing' \in BOOLEAN
    BY <2>1, <1>1 DEF Shape
  <2> QED BY <2>1, <2>2, StageStep
<1>4. ASSUME NEW l \in Leases, createSession(l) PROVE RuntimeInv'
  <2>1. Requested(OwnerOf(l), "create", l, pending) /\ UNCHANGED <<stage, lives, live, opening, tasks, closing>>
    BY <1>4 DEF createSession, connVars, serverVars, sessions
  <2> QED BY <2>1, RequestStep, RemoteAssumption
<1>5. ASSUME NEW l \in Leases, request(l) PROVE RuntimeInv'
  <2>1. Requested(OwnerOf(l), "op", l, pending) /\ UNCHANGED <<stage, lives, live, opening, tasks, closing>>
    BY <1>5 DEF request, connVars, serverVars, sessions
  <2> QED BY <2>1, RequestStep, RemoteAssumption
<1>6. ASSUME NEW l \in Leases, NEW mode \in {"shared", "exclusive"}, acquireSession(l, mode) PROVE RuntimeInv'
  <2>1. \E state : Asks(OwnerOf(l), state, pending)
    BY <1>6 DEF acquireSession
  <2>2. UNCHANGED <<stage, lives, live, opening, tasks, closing>>
    BY <1>6 DEF acquireSession, connVars, sessions
  <2> QED BY <2>1, <2>2, AsksStep, RemoteAssumption
<1>7. ASSUME NEW l \in Leases, NEW how \in {"detaching", "disposing"}, release(l, how) PROVE RuntimeInv'
  <2>1. Requested(OwnerOf(l), "detach", l, pending) \/ UNCHANGED <<toServer, lastRequest>>
    BY <1>7 DEF release
  <2>2. UNCHANGED <<stage, lives, live, opening, tasks, closing>>
    BY <1>7 DEF release, connVars, serverVars, sessions
  <2> QED BY <2>1, <2>2, RequestStep, RemoteAssumption
<1> QED BY <1>2, <1>3, <1>4, <1>5, <1>6, <1>7 DEF Users

LEMMA ReceiveStep ==
    ASSUME RuntimeInv, Receive
    PROVE  RuntimeInv'
<1>1. PICK k \in Clients : ReceiveEvent(k) \/ ReceiveResponse(k)
  BY DEF Receive
<1>2. ASSUME NEW m, Receives(k, m) PROVE UNCHANGED <<stage, lives, live, opening, tasks, closing>>
  BY <1>2 DEF Receives, connVars, serverVars, sessions
<1>3. CASE ReceiveEvent(k)
  <2>1. UNCHANGED <<toServer, lastRequest>> /\ \E m : Receives(k, m)
    BY <1>3 DEF ReceiveEvent
  <2> QED BY <2>1, <1>2, QuietStep
<1>4. CASE ReceiveResponse(k)
  <2>1. PICK r \in pending, m \in ToSet(toClient[client[k].conn]) :
        /\ Answered(k, r, m)
        /\ \/ ReceiveCreated(k, r, m) \/ ReceiveDone(k, r, m) \/ ReceiveAttached(k, r, m)
           \/ ReceiveDetached(k, r, m) \/ ReceiveReconciled(k, r, m)
    BY <1>4 DEF ReceiveResponse
  <2>2. UNCHANGED <<stage, lives, live, opening, tasks, closing>>
    BY <2>1, <1>2 DEF Answered
  <2>3. UNCHANGED <<toServer, lastRequest>> \/ \E state, p : Asks(k, state, p)
    BY <2>1 DEF ReceiveCreated, ReceiveDone, ReceiveAttached, ReceiveDetached, ReceiveReconciled
  <2> QED BY <2>2, <2>3, QuietStep, AsksStep
<1> QED BY <1>1, <1>3, <1>4

(* What the server has closed are connections.                             *)
LEMMA ClosedStep ==
    ASSUME Shape, closed \subseteq Conns, Next
    PROVE  (closed \subseteq Conns)'
<1>1. \/ closed' = closed
      \/ Close
      \/ \E i \in DOMAIN lives : Terminate(i)
  <2>1. Arrival => closed' = closed
    BY DEF Arrival, Receive, ReceiveEvent, ReceiveResponse, Answered, Receives, Disconnect, Dispatch, connVars
  <2>2. StartBroadcast => closed' = closed
    BY DEF StartBroadcast, connVars
  <2>3. Users => closed' = closed
    BY DEF Users, Disconnect, Connect, Accept, createSession, acquireSession, release, request, connVars
  <2>4. ASSUME NEW c, ServerDisconnect(c) PROVE closed' = closed
    BY <2>4 DEF ServerDisconnect
  <2>5. ServerGoes => closed' = closed \/ \E i \in DOMAIN lives : Terminate(i)
    BY <2>4 DEF ServerGoes, SendHello, CatchUp, Gone, Acquired, Opened, CloseSessions, SendSnapshot,
       FinishAttach, FinishTelling, FinishOperation, RunEnds, Disposed, connVars
  <2>6. ServerFails => closed' = closed \/ \E i \in DOMAIN lives : Terminate(i)
    BY <2>4 DEF ServerFails, Break, OpenFails, AttachFails, Disposed, connVars
  <2> QED BY <2>1, <2>2, <2>3, <2>4, <2>5, <2>6 DEF Next, Server, Gone
<1>2. CASE Close
  BY <1>2 DEF Close
<1>3. ASSUME NEW i \in DOMAIN lives, Terminate(i) PROVE closed' \subseteq Conns
  <2>1. lives[i] \in Live /\ closed' = closed \cup lives[i].connections
    BY <1>3, ShapeFacts DEF Terminate
  <2> QED BY <2>1 DEF Live
<1> QED BY <1>1, <1>2, <1>3

LEMMA RuntimeInit ==
    ASSUME Init
    PROVE  RuntimeInv /\ closed = {}
<1>1. /\ toServer = [c \in Conns |-> <<>>] /\ stage = [c \in Conns |-> "none"] /\ lives = <<>> /\ live = 0
      /\ opening = "no" /\ tasks = {} /\ closing = FALSE /\ lastRequest = 0 /\ closed = {}
  BY DEF Init, ServerInit
<1>2. DOMAIN lives = {} /\ lives \in Seq(Live) /\ Len(lives) = 0
  BY <1>1
<1>3. Shape
  <2>1. toServer \in [Conns -> Seq(Request)]
    <3>1. <<>> \in Seq(Request)
      OBVIOUS
    <3> QED BY <3>1, <1>1
  <2>2. stage \in [Conns -> {"none", "handshaking", "ready", "closed"}]
    BY <1>1
  <2>3. live \in 0..Len(lives)
    BY <1>1, <1>2
  <2>4. tasks \subseteq ServerTask /\ \A t \in tasks : t.at # "opening" => t.live \in DOMAIN lives
    BY <1>1
  <2>5. opening \in {"no", "acquiring", "snapshot"} /\ lastRequest \in Nat /\ closing \in BOOLEAN
    BY <1>1
  <2> QED BY <2>1, <2>2, <2>3, <2>4, <2>5, <1>2 DEF Shape
<1>4. Numbered
  BY <1>1 DEF Numbered
<1>5. OneLive /\ Counted /\ NoIdleRuntime
  BY <1>1, <1>2 DEF OneLive, Undone, Counted, NoIdleRuntime
<1> QED BY <1>1, <1>3, <1>4, <1>5 DEF RuntimeInv

LEMMA RuntimeNext ==
    ASSUME RuntimeInv, closed \subseteq Conns, [Next]_vars
    PROVE  RuntimeInv' /\ (closed \subseteq Conns)'
<1>1. CASE UNCHANGED vars
  <2>1. UNCHANGED <<toServer, stage, lives, live, opening, tasks, closing, lastRequest, closed>>
    BY <1>1 DEF vars, clientVars, wires, connVars, serverVars, sessions
  <2> QED BY <2>1, QuietStep
<1>2. CASE Next
  <2>0. Shape
    BY DEF RuntimeInv
  <2>1. closed' \subseteq Conns
    BY <2>0, <1>2, ClosedStep
  <2>2. ASSUME NEW k \in Clients, Disconnect(k) PROVE RuntimeInv'
    <3>1. UNCHANGED <<toServer, stage, lives, live, opening, tasks, closing, lastRequest>>
      BY <2>2 DEF Disconnect, connVars, serverVars, sessions
    <3> QED BY <3>1, QuietStep
  <2>3. ASSUME Arrival PROVE RuntimeInv'
    BY <2>2, <2>3, ReceiveStep, DispatchStep DEF Arrival, clientVars
  <2>4. ASSUME StartBroadcast, UNCHANGED clientVars PROVE RuntimeInv'
    <3>1. UNCHANGED <<toServer, stage, lives, live, opening, tasks, closing, lastRequest>>
      BY <2>4 DEF StartBroadcast, wires, connVars, sessions, clientVars
    <3> QED BY <3>1, QuietStep
  <2> QED BY <1>2, <2>1, <2>3, <2>4, UserStep, ServerStep DEF Next
<1> QED BY <1>1, <1>2

LEMMA RuntimeIsInvariant == Spec => [](RuntimeInv /\ closed \subseteq Conns)
<1>1. Init => RuntimeInv /\ closed \subseteq Conns
  BY RuntimeInit
<1>2. (RuntimeInv /\ closed \subseteq Conns) /\ [Next]_vars => (RuntimeInv /\ closed \subseteq Conns)'
  BY RuntimeNext
<1> QED BY <1>1, <1>2, PTL DEF Spec

(* A session has at most one runtime that is opened, in use or being       *)
(* disposed, whoever attaches, leaves or breaks meanwhile, and none idles. *)
THEOREM OneRuntimeOfASession == Spec => []OneRuntimeInUse
<1>1. RuntimeInv => OneRuntimeInUse
  <2> SUFFICES ASSUME RuntimeInv PROVE OneRuntime /\ NoIdleRuntime
    BY DEF OneRuntimeInUse
  <2>1. OneLive /\ NoIdleRuntime
    BY DEF RuntimeInv
  <2>2. CASE Undone = {}
    <3>1. Cardinality(Undone) = 0
      BY <2>2, FS_EmptySet
    <3> QED BY <3>1, <2>1 DEF OneRuntime, Undone
  <2>3. CASE Undone # {}
    <3>1. PICK i \in Undone : TRUE
      BY <2>3
    <3>2. Undone = {i} /\ opening = "no"
      BY <2>1, <3>1 DEF OneLive
    <3>3. Cardinality(Undone) = 1
      BY <3>2, FS_Singleton
    <3> QED BY <3>2, <3>3, <2>1 DEF OneRuntime, Undone
  <2> QED BY <2>2, <2>3
<1> QED BY <1>1, RuntimeIsInvariant, PTL

-----------------------------------------------------------------------------
(* Requests and their answers.                                             *)

Message == [type : {"server", "hello"}, revision : Nat, attached : BOOLEAN]
           \cup [type : {"session"}, attached : {TRUE}]
           \cup [type : {"response"}, id : Nat, ok : BOOLEAN, attached : BOOLEAN]

Making == [revision : Nat, made : BOOLEAN, attached : BOOLEAN]

Client == [conn : 0..MaxConnects, connected : BOOLEAN, attached : BOOLEAN, revision : Nat,
           count : Nat, exclusive : Leases \cup {None}, cleanup : BOOLEAN]

(* What the server sends: the snapshot of a hello is begun with the hello. *)
Sent ==
    /\ toClient \in [Conns -> Seq(Message)]
    /\ revision \in Nat
    /\ broadcast # None => broadcast \in [revision : Nat, to : SUBSET Conns]
    /\ handshake \in [Conns -> Making \cup {None}]
    /\ \A c \in Conns : stage[c] = "handshaking" => handshake[c] \in Making

(* The tasks of the server: those without a request wait for a disposal,   *)
(* and no operation does.                                                  *)
Working ==
    /\ IsFiniteSet(tasks)
    /\ \A t \in tasks : /\ t.cmd = "leave" => t.id = 0
                        /\ t.at \in {"disposal", "telling"} => t.cmd # "op"

(* A connection belongs to one client, from the time it is accepted; after *)
(* close() the server has closed them all.                                 *)
Owned ==
    /\ client \in [Clients -> Client]
    /\ \A k \in Clients : /\ client[k].connected => client[k].conn # 0
                          /\ client[k].conn # 0 => stage[client[k].conn] # "none"
    /\ \A j, k \in Clients : client[j].conn = client[k].conn /\ client[j].conn # 0 => j = k
    /\ closed \subseteq Conns
    /\ closing => \A c \in Conns : stage[c] = "none" \/ c \in closed

(* What is pending is asked on the connection of its client, and nowhere   *)
(* else.                                                                   *)
Asked ==
    /\ pending \subseteq Request
    /\ \A r \in pending : r.id <= lastRequest /\ client[r.client].connected
    /\ \A r, s \in pending : r.id = s.id => r = s
    /\ \A r \in pending, c \in Conns : \A q \in ToSet(toServer[c]) :
           q.id = r.id => client[r.client].conn = c
    /\ \A r \in pending, t \in tasks : t.id = r.id => client[r.client].conn = t.conn

AnswerInv == Sent /\ Working /\ Owned /\ Asked /\ ResponseUnderWay

(* A request is in the hands of the server; its answer is under way.       *)
InHand(n) == \E t \in tasks : t.id = n
HasAnswer(c, n) == \E m \in ToSet(toClient[c]) : m.type = "response" /\ m.id = n

LEMMA SeqFacts ==
    ASSUME NEW S, NEW s \in Seq(S), NEW t \in Seq(S)
    PROVE  /\ s \o t \in Seq(S) /\ ToSet(s) \subseteq ToSet(s \o t) /\ ToSet(t) \subseteq ToSet(s \o t)
           /\ ToSet(s \o t) \subseteq ToSet(s) \cup ToSet(t) /\ ToSet(s) \subseteq S
<1>1. s \o t \in Seq(S) /\ Len(s \o t) = Len(s) + Len(t) /\ Len(s) \in Nat /\ Len(t) \in Nat
      /\ DOMAIN s = 1..Len(s) /\ DOMAIN t = 1..Len(t) /\ DOMAIN (s \o t) = 1..(Len(s) + Len(t))
  OBVIOUS
<1>2. \A i \in DOMAIN s : i \in DOMAIN (s \o t) /\ (s \o t)[i] = s[i]
  OBVIOUS
<1>3. \A i \in DOMAIN t : Len(s) + i \in DOMAIN (s \o t) /\ (s \o t)[Len(s) + i] = t[i]
  OBVIOUS
<1>4. \A i \in DOMAIN (s \o t) : \/ i \in DOMAIN s
                                 \/ i - Len(s) \in DOMAIN t /\ (s \o t)[i] = t[i - Len(s)]
  BY <1>1
<1> DEFINE u == s \o t
<1>5. u \in Seq(S)
  BY <1>1
<1> HIDE DEF u
<1>6. ToSet(s) \subseteq ToSet(u)
  BY <1>2 DEF ToSet, u
<1>7. ToSet(t) \subseteq ToSet(u)
  BY <1>3 DEF ToSet, u
<1>8. ToSet(u) \subseteq ToSet(s) \cup ToSet(t)
  BY <1>4 DEF ToSet, u
<1>9. ToSet(s) \subseteq S
  BY DEF ToSet
<1> QED BY <1>5, <1>6, <1>7, <1>8, <1>9 DEF u

LEMMA TailFacts ==
    ASSUME NEW S, NEW s \in Seq(S), s # <<>>
    PROVE  /\ Tail(s) \in Seq(S) /\ Head(s) \in S /\ Head(s) \in ToSet(s)
           /\ ToSet(s) = {Head(s)} \cup ToSet(Tail(s))
<1>1. /\ Tail(s) \in Seq(S) /\ Head(s) \in S /\ Head(s) = s[1] /\ 1 \in DOMAIN s
      /\ \A i \in DOMAIN Tail(s) : i + 1 \in DOMAIN s /\ Tail(s)[i] = s[i + 1]
      /\ \A i \in DOMAIN s : i = 1 \/ (i - 1 \in DOMAIN Tail(s) /\ s[i] = Tail(s)[i - 1])
  OBVIOUS
<1> DEFINE u == Tail(s)
           x == Head(s)
<1> HIDE DEF u, x
<1>2. x \in ToSet(s)
  BY <1>1 DEF ToSet, x
<1>3. ToSet(u) \subseteq ToSet(s)
  BY <1>1 DEF ToSet, u
<1>4. ToSet(s) \subseteq {x} \cup ToSet(u)
  BY <1>1 DEF ToSet, u, x
<1> QED BY <1>1, <1>2, <1>3, <1>4 DEF u, x

LEMMA SingleFacts ==
    ASSUME NEW S, NEW x \in S
    PROVE  <<x>> \in Seq(S) /\ ToSet(<<x>>) = {x}
<1>1. <<x>> \in Seq(S) /\ DOMAIN <<x>> = {1} /\ <<x>>[1] = x
  OBVIOUS
<1> QED BY <1>1 DEF ToSet

LEMMA ResponseType ==
    ASSUME NEW t, t.id \in Nat, NEW ok \in BOOLEAN, NEW a \in BOOLEAN
    PROVE  /\ Response(t, ok, a) \in Message /\ Response(t, ok, a).type = "response"
           /\ Response(t, ok, a).id = t.id
BY DEF Response, Message

LEMMA SendFacts ==
    ASSUME toClient \in [Conns -> Seq(Message)], NEW ms, Send(ms),
           \A c \in Conns : c \in DOMAIN ms => ms[c] \in Seq(Message)
    PROVE  /\ toClient' \in [Conns -> Seq(Message)]
           /\ \A c \in Conns : /\ ToSet(toClient[c]) \subseteq ToSet(toClient'[c])
                               /\ c \in DOMAIN ms /\ Open(c) => ToSet(ms[c]) \subseteq ToSet(toClient'[c])
<1>1. toClient' = [c \in Conns |-> IF c \in DOMAIN ms /\ Open(c) THEN toClient[c] \o ms[c] ELSE toClient[c]]
  BY DEF Send
<1>2. ASSUME NEW c \in Conns
      PROVE  /\ toClient'[c] \in Seq(Message) /\ ToSet(toClient[c]) \subseteq ToSet(toClient'[c])
             /\ c \in DOMAIN ms /\ Open(c) => ToSet(ms[c]) \subseteq ToSet(toClient'[c])
  <2>1. CASE c \in DOMAIN ms /\ Open(c)
    <3>1. toClient'[c] = toClient[c] \o ms[c]
      BY <1>1, <2>1
    <3>2. toClient[c] \in Seq(Message) /\ ms[c] \in Seq(Message)
      BY <2>1
    <3> QED BY <3>1, <3>2, SeqFacts
  <2>2. CASE ~(c \in DOMAIN ms /\ Open(c))
    <3>1. toClient'[c] = toClient[c] /\ toClient[c] \in Seq(Message)
      BY <1>1, <2>2
    <3> QED BY <3>1, <2>2
  <2> QED BY <2>1, <2>2
<1> QED BY <1>1, <1>2

(* Every member of a finite set is somewhere in the sequence made of it.   *)
LEMMA AllInSequence ==
    ASSUME NEW S, IsFiniteSet(S)
    PROVE  SetToSeq(S) \in Seq(S) /\ ToSet(SetToSeq(S)) = S
<1> DEFINE n == Cardinality(S)
<1>1. n \in Nat /\ \E f \in [1..n -> S] : IsInjective(f)
  <2>1. n \in Nat /\ ExistsBijection(1..n, S)
    BY FS_CardinalityType
  <2> QED BY <2>1 DEF ExistsBijection, Bijection, Injection
<1>2. SetToSeq(S) \in [1..n -> S] /\ IsInjective(SetToSeq(S))
  BY <1>1 DEF SetToSeq
<1>3. IsFiniteSet(1..n) /\ Cardinality(1..n) = n
  BY <1>1, FS_Interval
<1> DEFINE f == SetToSeq(S)
<1> HIDE DEF f
<1>4. f \in Injection(1..n, S)
  BY <1>2 DEF Injection, f
<1>5. f \in Surjection(1..n, S)
  BY <1>3, <1>4, FS_Injection
<1>6. \A x \in S : \E i \in 1..n : f[i] = x
  BY <1>5 DEF Surjection
<1>7. f \in [1..n -> S]
  BY <1>4 DEF Injection
<1>8. f \in Seq(S)
  BY <1>1, <1>7
<1>9. ToSet(f) = S
  BY <1>6, <1>7 DEF ToSet
<1> QED BY <1>8, <1>9 DEF f

LEMMA ResponsesFacts ==
    ASSUME NEW ts, ts \subseteq ServerTask, IsFiniteSet(ts), NEW ok \in BOOLEAN, NEW a \in BOOLEAN
    PROVE  /\ \A c \in Conns : c \in DOMAIN Responses(ts, ok, a) => Responses(ts, ok, a)[c] \in Seq(Message)
           /\ \A t \in ts : /\ t.conn \in DOMAIN Responses(ts, ok, a)
                            /\ \E m \in ToSet(Responses(ts, ok, a)[t.conn]) : m.type = "response" /\ m.id = t.id
<1> DEFINE mine(c) == SetToSeq({t \in ts : t.conn = c})
           answers(c) == [i \in DOMAIN mine(c) |-> Response(mine(c)[i], ok, a)]
           D == {t.conn : t \in ts}
<1>1. Responses(ts, ok, a) = [c \in D |-> answers(c)]
  BY DEF Responses
<1>2. ASSUME NEW c
      PROVE  mine(c) \in Seq({t \in ts : t.conn = c}) /\ ToSet(mine(c)) = {t \in ts : t.conn = c}
  <2>1. IsFiniteSet({t \in ts : t.conn = c})
    BY FS_Subset
  <2> QED BY <2>1, AllInSequence
<1>3. ASSUME NEW c
      PROVE  /\ answers(c) \in Seq(Message)
             /\ \A t \in ts : t.conn = c => \E m \in ToSet(answers(c)) : m.type = "response" /\ m.id = t.id
  <2> DEFINE f == mine(c)
             g == answers(c)
             S == {t \in ts : t.conn = c}
  <2>1. f \in Seq(S) /\ ToSet(f) = S
    BY <1>2
  <2>2. g = [i \in DOMAIN f |-> Response(f[i], ok, a)]
    OBVIOUS
  <2> HIDE DEF f, g, mine, answers
  <2>3. DOMAIN f = 1..Len(f) /\ Len(f) \in Nat /\ \A i \in DOMAIN f : f[i] \in S
    BY <2>1
  <2>4. \A i \in DOMAIN f : /\ Response(f[i], ok, a) \in Message /\ Response(f[i], ok, a).type = "response"
                            /\ Response(f[i], ok, a).id = f[i].id
    <3> SUFFICES ASSUME NEW i \in DOMAIN f
                 PROVE  /\ Response(f[i], ok, a) \in Message /\ Response(f[i], ok, a).type = "response"
                        /\ Response(f[i], ok, a).id = f[i].id
      OBVIOUS
    <3>1. f[i].id \in Nat
      BY <2>3 DEF ServerTask
    <3> QED BY <3>1, ResponseType
  <2>5. g \in Seq(Message)
    BY <2>2, <2>3, <2>4
  <2>6. ASSUME NEW t \in ts, t.conn = c PROVE \E m \in ToSet(g) : m.type = "response" /\ m.id = t.id
    <3>1. PICK i \in DOMAIN f : f[i] = t
      BY <2>1, <2>6 DEF ToSet
    <3>2. g[i] \in ToSet(g) /\ g[i] = Response(f[i], ok, a)
      BY <2>2, <3>1 DEF ToSet
    <3> QED BY <2>4, <3>1, <3>2
  <2> QED BY <2>5, <2>6 DEF g
<1>4. \A c \in D : Responses(ts, ok, a)[c] = answers(c)
  BY <1>1
<1>5. DOMAIN Responses(ts, ok, a) = D /\ \A t \in ts : t.conn \in D
  BY <1>1
<1> HIDE DEF answers, D, mine
<1> QED BY <1>3, <1>4, <1>5

LEMMA ToldFacts ==
    ASSUME NEW i, NEW t, t.id \in Nat, NEW a \in BOOLEAN
    PROVE  /\ \A c \in DOMAIN Told(i, t, a) : Told(i, t, a)[c] \in Seq(Message)
           /\ t.conn \in DOMAIN Told(i, t, a)
           /\ \E m \in ToSet(Told(i, t, a)[t.conn]) : m.type = "response" /\ m.id = t.id
<1> DEFINE one(c) == IF c \in lives[i].connections THEN <<SessionSnapshot>> ELSE <<>>
           two(c) == IF c = t.conn THEN <<Response(t, TRUE, a)>> ELSE <<>>
           D == lives[i].connections \cup {t.conn}
<1>1. Told(i, t, a) = [c \in D |-> one(c) \o two(c)]
  BY DEF Told
<1>2. SessionSnapshot \in Message
  BY DEF SessionSnapshot, Message
<1>3. /\ Response(t, TRUE, a) \in Message /\ Response(t, TRUE, a).type = "response"
      /\ Response(t, TRUE, a).id = t.id
  BY ResponseType
<1>4. \A c : one(c) \in Seq(Message)
  <2>1. <<SessionSnapshot>> \in Seq(Message) /\ <<>> \in Seq(Message)
    BY <1>2
  <2> QED BY <2>1
<1>5. \A c : two(c) \in Seq(Message)
  <2> DEFINE m == Response(t, TRUE, a)
  <2>1. m \in Message
    BY <1>3
  <2> HIDE DEF m
  <2>2. <<m>> \in Seq(Message)
    BY <2>1, SingleFacts
  <2>3. <<>> \in Seq(Message)
    OBVIOUS
  <2> QED BY <2>2, <2>3 DEF m
<1>6. Response(t, TRUE, a) \in ToSet(two(t.conn))
  BY <1>3, SingleFacts
<1> HIDE DEF one, two
<1>7. \A c : one(c) \o two(c) \in Seq(Message) /\ ToSet(two(c)) \subseteq ToSet(one(c) \o two(c))
  BY <1>4, <1>5, SeqFacts
<1>8. DOMAIN Told(i, t, a) = D /\ \A c \in D : Told(i, t, a)[c] = one(c) \o two(c)
  BY <1>1
<1> QED BY <1>3, <1>6, <1>7, <1>8

(* A set made of a finite one is finite.                                   *)
LEMMA ImageIsFinite ==
    ASSUME NEW S, IsFiniteSet(S), NEW f, DOMAIN f = S
    PROVE  IsFiniteSet({f[x] : x \in S})
<1> DEFINE T == {f[x] : x \in S}
           g == [x \in S |-> f[x]]
<1>1. g \in Surjection(S, T)
  BY DEF Surjection
<1> HIDE DEF g, T
<1>2. IsFiniteSet(T)
  BY <1>1, FS_Surjection
<1> QED BY <1>2 DEF T

-----------------------------------------------------------------------------
(* What every step of the server keeps: a request that it has, or had on   *)
(* its way, is still there, in its hands, or answered.                     *)
ServerKeeps ==
    /\ toClient' \in [Conns -> Seq(Message)]
    /\ Working'
    /\ \A c \in Conns :
        /\ Open(c)' => Open(c)
        /\ ToSet(toClient[c]) \subseteq ToSet(toClient'[c])
        /\ ToSet(toServer'[c]) \subseteq ToSet(toServer[c])
        /\ \A q \in ToSet(toServer[c]) : \/ ~Open(c)' \/ q \in ToSet(toServer'[c])
                                         \/ InHand(q.id)' \/ HasAnswer(c, q.id)'
    /\ \A t \in tasks : t.id = 0 \/ ~Open(t.conn)' \/ InHand(t.id)' \/ HasAnswer(t.conn, t.id)'
    /\ \A t \in tasks' : \/ t.id = 0
                         \/ \E u \in tasks : u.id = t.id /\ u.conn = t.conn
                         \/ \E q \in ToSet(toServer[t.conn]) : q.id = t.id /\ t.conn \in Conns

LEMMA PendingFacts ==
    ASSUME Asked, Owned, NEW r \in pending
    PROVE  /\ r \in Request /\ r.id \in Nat \ {0} /\ r.client \in Clients
           /\ client[r.client].conn \in Conns /\ client[r.client].connected
<1>1. r \in Request /\ client[r.client].connected
  BY DEF Asked
<1>2. r.client \in Clients /\ r.id \in Nat \ {0}
  BY <1>1 DEF Request
<1>3. client[r.client] \in Client /\ client[r.client].conn # 0
  BY <1>1, <1>2 DEF Owned
<1>4. client[r.client].conn \in 0..MaxConnects
  BY <1>3 DEF Client
<1>5. client[r.client].conn \in Conns
  BY <1>3, <1>4, RemoteAssumption DEF Conns
<1> QED BY <1>1, <1>2, <1>5

LEMMA AnswersKept ==
    ASSUME Asked, Owned, ResponseUnderWay, ServerKeeps, UNCHANGED <<client, pending, lastRequest>>
    PROVE  Asked' /\ ResponseUnderWay'
<1>1. ASSUME NEW r \in pending, NEW c \in Conns, NEW q \in ToSet(toServer'[c]), q.id = r.id
      PROVE  client[r.client].conn = c
  <2>1. q \in ToSet(toServer[c])
    BY <1>1 DEF ServerKeeps
  <2> QED BY <1>1, <2>1 DEF Asked
<1>2. ASSUME NEW r \in pending, NEW t \in tasks', t.id = r.id
      PROVE  client[r.client].conn = t.conn
  <2>1. t.id # 0
    BY <1>2, PendingFacts
  <2>2. \/ \E u \in tasks : u.id = t.id /\ u.conn = t.conn
        \/ \E q \in ToSet(toServer[t.conn]) : q.id = t.id /\ t.conn \in Conns
    BY <2>1 DEF ServerKeeps
  <2> QED BY <1>2, <2>2 DEF Asked
<1>3. Asked'
  BY <1>1, <1>2 DEF Asked
<1>4. ASSUME NEW r \in pending, NEW c, c = client[r.client].conn
      PROVE  ~Open(c)' \/ r \in ToSet(toServer'[c]) \/ InHand(r.id)' \/ HasAnswer(c, r.id)'
  <2>1. c \in Conns /\ r.id # 0
    BY <1>4, PendingFacts
  <2>2. \/ ~Open(c) \/ r \in ToSet(toServer[c]) \/ InHand(r.id) \/ HasAnswer(c, r.id)
    BY <1>4 DEF ResponseUnderWay, InHand, HasAnswer
  <2>3. \A t \in tasks : t.id = r.id => t.conn = c
    BY <1>4 DEF Asked
  <2>4. CASE ~Open(c)
    BY <2>1, <2>4 DEF ServerKeeps
  <2>5. CASE r \in ToSet(toServer[c])
    BY <2>1, <2>5 DEF ServerKeeps
  <2>6. CASE InHand(r.id)
    BY <2>1, <2>3, <2>6 DEF ServerKeeps, InHand
  <2>7. CASE HasAnswer(c, r.id)
    <3>1. ToSet(toClient[c]) \subseteq ToSet(toClient'[c])
      BY <2>1 DEF ServerKeeps
    <3> QED BY <3>1, <2>7 DEF HasAnswer
  <2> QED BY <2>2, <2>4, <2>5, <2>6, <2>7
<1>5. ResponseUnderWay'
  BY <1>4 DEF ResponseUnderWay, InHand, HasAnswer, Open
<1> QED BY <1>3, <1>5

(* A step with the tasks alone.                                            *)
LEMMA TasksStep ==
    ASSUME AnswerInv, ServerKeeps, UNCHANGED <<client, pending, lastRequest, connVars, publisher, closing>>
    PROVE  AnswerInv'
<1>1. Sent /\ Owned /\ Asked /\ ResponseUnderWay /\ UNCHANGED <<stage, closed, handshake, revision, broadcast>>
  BY DEF AnswerInv, connVars, publisher
<1>2. Sent'
  BY <1>1 DEF Sent, ServerKeeps
<1>3. Owned'
  BY <1>1 DEF Owned
<1>4. Asked' /\ ResponseUnderWay'
  BY <1>1, AnswersKept
<1> QED BY <1>2, <1>3, <1>4 DEF AnswerInv, ServerKeeps

(* Requests and tasks stay as they are.                                    *)
LEMMA MessagesOnly ==
    ASSUME AnswerInv, RuntimeInv, UNCHANGED <<toServer, tasks>>, toClient' \in [Conns -> Seq(Message)],
           \A c \in Conns : (Open(c)' => Open(c)) /\ ToSet(toClient[c]) \subseteq ToSet(toClient'[c])
    PROVE  ServerKeeps
<1>1. Working'
  BY DEF AnswerInv, Working
<1>2. \A t \in tasks : InHand(t.id)'
  BY DEF InHand
<1> QED BY <1>1, <1>2 DEF ServerKeeps

LEMMA SameOpen ==
    ASSUME UNCHANGED <<stage, closed>>
    PROVE  \A c : Open(c)' <=> Open(c)
BY DEF Open

LEMMA ConnType ==
    ASSUME RuntimeInv, NEW t \in tasks
    PROVE  t \in ServerTask /\ t.conn \in Conns /\ t.id \in Nat /\ t.cmd \in {"create", "attach", "detach", "op", "leave"}
BY DEF RuntimeInv, Shape, ServerTask

(* A task of a request that ends is answered, when its connection is open. *)
LEMMA EndsAnswered ==
    ASSUME AnswerInv, RuntimeInv, UNCHANGED <<toServer, stage, closed>>, Working',
           toClient' \in [Conns -> Seq(Message)],
           \A c \in Conns : ToSet(toClient[c]) \subseteq ToSet(toClient'[c]),
           \A t \in tasks' : \E u \in tasks : u.id = t.id /\ u.conn = t.conn,
           \A t \in tasks : t.id = 0 \/ ~Open(t.conn) \/ InHand(t.id)' \/ HasAnswer(t.conn, t.id)'
    PROVE  ServerKeeps
BY SameOpen DEF ServerKeeps

(* What t is told, or answered, has the response to it.                    *)
LEMMA TellsOf ==
    ASSUME NEW t \in ServerTask, NEW i, NEW a \in BOOLEAN,
           Send(Told(i, t, a)) \/ Send(Responses({t}, FALSE, FALSE))
    PROVE  \E ms : /\ Send(ms) /\ \A c \in Conns : c \in DOMAIN ms => ms[c] \in Seq(Message)
                   /\ t.conn \in DOMAIN ms /\ \E m \in ToSet(ms[t.conn]) : m.type = "response" /\ m.id = t.id
<1>1. CASE Send(Told(i, t, a))
  <2> DEFINE ms == Told(i, t, a)
  <2>1. t.id \in Nat
    BY DEF ServerTask
  <2>2. /\ \A c \in DOMAIN ms : ms[c] \in Seq(Message)
        /\ t.conn \in DOMAIN ms /\ \E m \in ToSet(ms[t.conn]) : m.type = "response" /\ m.id = t.id
    BY <2>1, ToldFacts
  <2>3. Send(ms)
    BY <1>1
  <2> HIDE DEF ms
  <2> QED BY <2>2, <2>3
<1>2. CASE Send(Responses({t}, FALSE, FALSE))
  <2> DEFINE ms == Responses({t}, FALSE, FALSE)
             ts == {t}
  <2>1. ts \subseteq ServerTask /\ IsFiniteSet(ts) /\ t \in ts
    BY FS_Singleton
  <2>2. /\ \A c \in Conns : c \in DOMAIN ms => ms[c] \in Seq(Message)
        /\ \A u \in ts : /\ u.conn \in DOMAIN ms
                         /\ \E m \in ToSet(ms[u.conn]) : m.type = "response" /\ m.id = u.id
    BY <2>1, ResponsesFacts
  <2>3. Send(ms)
    BY <1>2
  <2> HIDE DEF ms
  <2> QED BY <2>1, <2>2, <2>3
<1> QED BY <1>1, <1>2

(* One task ends with its answer.                                          *)
LEMMA TaskAnswered ==
    ASSUME AnswerInv, RuntimeInv, NEW t \in tasks, tasks' = tasks \ {t},
           UNCHANGED <<client, pending, lastRequest, connVars, publisher, closing, toServer>>,
           NEW ms, Send(ms), \A c \in Conns : c \in DOMAIN ms => ms[c] \in Seq(Message),
           t.conn \in DOMAIN ms, \E m \in ToSet(ms[t.conn]) : m.type = "response" /\ m.id = t.id
    PROVE  AnswerInv'
<1>1. UNCHANGED <<client, pending, lastRequest, connVars, publisher, closing, toServer, stage, closed>>
  BY DEF connVars
<1>2. t \in ServerTask /\ t.conn \in Conns /\ t.id \in Nat
  BY ConnType
<1>3. toClient \in [Conns -> Seq(Message)] /\ Working
  BY DEF AnswerInv, Sent
<1>4. /\ toClient' \in [Conns -> Seq(Message)]
      /\ \A c \in Conns : ToSet(toClient[c]) \subseteq ToSet(toClient'[c])
      /\ Open(t.conn) => HasAnswer(t.conn, t.id)'
  <2>1. /\ toClient' \in [Conns -> Seq(Message)]
        /\ \A c \in Conns : /\ ToSet(toClient[c]) \subseteq ToSet(toClient'[c])
                            /\ c \in DOMAIN ms /\ Open(c) => ToSet(ms[c]) \subseteq ToSet(toClient'[c])
    BY <1>3, SendFacts
  <2> QED BY <2>1, <1>2 DEF HasAnswer
<1>5. Working'
  BY <1>3, FS_Subset DEF Working
<1>6. ServerKeeps
  <2>1. \A u \in tasks : u # t => InHand(u.id)'
    BY DEF InHand
  <2>2. \A u \in tasks' : \E v \in tasks : v.id = u.id /\ v.conn = u.conn
    OBVIOUS
  <2> QED BY <2>1, <2>2, <1>1, <1>4, <1>5, EndsAnswered
<1> QED BY <1>1, <1>6, TasksStep

LEMMA AnswerAttached ==
    ASSUME AnswerInv, RuntimeInv, NEW t, FinishAttach(t) \/ AttachFails(t), UNCHANGED clientVars
    PROVE  AnswerInv'
<1>1. /\ t \in tasks /\ tasks' = tasks \ {t}
      /\ UNCHANGED <<client, pending, lastRequest, connVars, publisher, closing, toServer>>
      /\ Send(Told(t.live, t, t.conn \in sessionIds)) \/ Send(Responses({t}, FALSE, FALSE))
  BY DEF FinishAttach, AttachFails, clientVars
<1>2. t \in ServerTask /\ (t.conn \in sessionIds) \in BOOLEAN
  BY <1>1, ConnType
<1>3. PICK ms : /\ Send(ms) /\ \A c \in Conns : c \in DOMAIN ms => ms[c] \in Seq(Message)
                /\ t.conn \in DOMAIN ms /\ \E m \in ToSet(ms[t.conn]) : m.type = "response" /\ m.id = t.id
  BY <1>1, <1>2, TellsOf
<1> QED BY <1>1, <1>3, TaskAnswered

LEMMA SnapshotsType ==
    ASSUME NEW S
    PROVE  \A c \in Conns : c \in DOMAIN [x \in S |-> <<SessionSnapshot>>] =>
               [x \in S |-> <<SessionSnapshot>>][c] \in Seq(Message)
<1>1. SessionSnapshot \in Message
  BY DEF SessionSnapshot, Message
<1>2. <<SessionSnapshot>> \in Seq(Message)
  BY <1>1, SingleFacts
<1> QED BY <1>2

LEMMA AnswerTelling ==
    ASSUME AnswerInv, RuntimeInv, NEW t, FinishTelling(t), UNCHANGED clientVars
    PROVE  AnswerInv'
<1> DEFINE l == maybeDispose(lives[t.live])
           u == [t EXCEPT !.at = "disposal"]
           ss == [c \in l.connections |-> <<SessionSnapshot>>]
<1>1. /\ t \in tasks /\ t.at = "telling"
      /\ UNCHANGED <<client, pending, lastRequest, connVars, publisher, closing, toServer, stage, closed>>
      /\ \/ tasks' = (tasks \ {t}) \cup {u} /\ Send(ss)
         \/ tasks' = tasks \ {t} /\ Send(Told(t.live, t, FALSE))
  BY DEF FinishTelling, clientVars, connVars, publisher
<1>2. t \in ServerTask /\ t.conn \in Conns /\ t.id \in Nat
  BY <1>1, ConnType
<1>3. toClient \in [Conns -> Seq(Message)] /\ Working
  BY DEF AnswerInv, Sent
<1>4. u.id = t.id /\ u.conn = t.conn /\ u.cmd = t.cmd /\ u.at = "disposal"
  BY <1>2 DEF ServerTask
<1> HIDE DEF l, u
<1>5. CASE tasks' = (tasks \ {t}) \cup {u} /\ Send(ss)
  <2>1. \A c \in Conns : c \in DOMAIN ss => ss[c] \in Seq(Message)
    BY SnapshotsType
  <2> HIDE DEF ss
  <2>2. /\ toClient' \in [Conns -> Seq(Message)]
        /\ \A c \in Conns : ToSet(toClient[c]) \subseteq ToSet(toClient'[c])
    BY <2>1, <1>3, <1>5, SendFacts
  <2>3. IsFiniteSet(tasks')
    BY <1>3, <1>5, FS_RemoveElement, FS_AddElement DEF Working
  <2>4. Working'
    BY <2>3, <1>1, <1>3, <1>4, <1>5 DEF Working
  <2>5. /\ \A v \in tasks' : \E w \in tasks : w.id = v.id /\ w.conn = v.conn
        /\ \A v \in tasks : InHand(v.id)'
    BY <1>1, <1>4, <1>5 DEF InHand
  <2>6. ServerKeeps
    BY <2>2, <2>4, <2>5, <1>1, EndsAnswered
  <2> QED BY <2>6, <1>1, TasksStep
<1>6. CASE tasks' = tasks \ {t} /\ Send(Told(t.live, t, FALSE))
  <2>1. PICK ms : /\ Send(ms) /\ \A c \in Conns : c \in DOMAIN ms => ms[c] \in Seq(Message)
                  /\ t.conn \in DOMAIN ms /\ \E m \in ToSet(ms[t.conn]) : m.type = "response" /\ m.id = t.id
    BY <1>2, <1>6, TellsOf
  <2> QED BY <2>1, <1>1, <1>6, TaskAnswered
<1> QED BY <1>1, <1>5, <1>6

LEMMA AnswerOperation ==
    ASSUME AnswerInv, RuntimeInv, NEW t, FinishOperation(t), UNCHANGED clientVars
    PROVE  AnswerInv'
<1>1. /\ t \in tasks /\ tasks' = tasks \ {t}
      /\ UNCHANGED <<client, pending, lastRequest, connVars, publisher, closing, toServer>>
      /\ Send(Told(t.live, t, t.conn \in sessionIds)) \/ Send(Responses({t}, FALSE, FALSE))
  BY DEF FinishOperation, clientVars
<1>2. t \in ServerTask /\ (t.conn \in sessionIds) \in BOOLEAN
  BY <1>1, ConnType
<1>3. PICK ms : /\ Send(ms) /\ \A c \in Conns : c \in DOMAIN ms => ms[c] \in Seq(Message)
                /\ t.conn \in DOMAIN ms /\ \E m \in ToSet(ms[t.conn]) : m.type = "response" /\ m.id = t.id
  BY <1>1, <1>2, TellsOf
<1> QED BY <1>1, <1>3, TaskAnswered

(* Requests that wait for a runtime.                                       *)

LEMMA AnswerOpenFails ==
    ASSUME AnswerInv, RuntimeInv, OpenFails, UNCHANGED clientVars
    PROVE  AnswerInv'
<1> DEFINE ts == Opening
           ms == Responses(ts, FALSE, FALSE)
<1>1. /\ tasks' = tasks \ ts /\ Send(ms)
      /\ UNCHANGED <<client, pending, lastRequest, connVars, publisher, closing, toServer, stage, closed>>
  BY DEF OpenFails, clientVars, connVars, Rejected, publisher
<1>2. toClient \in [Conns -> Seq(Message)] /\ Working
  BY DEF AnswerInv, Sent
<1>3. ts \subseteq tasks /\ ts \subseteq ServerTask /\ IsFiniteSet(ts)
  <2>1. ts \subseteq tasks
    BY DEF Opening
  <2> QED BY <2>1, <1>2, ConnType, FS_Subset DEF Working
<1>4. /\ \A c \in Conns : c \in DOMAIN ms => ms[c] \in Seq(Message)
      /\ \A t \in ts : /\ t.conn \in DOMAIN ms
                       /\ \E m \in ToSet(ms[t.conn]) : m.type = "response" /\ m.id = t.id
  BY <1>3, ResponsesFacts
<1> HIDE DEF ts, ms
<1>5. /\ toClient' \in [Conns -> Seq(Message)]
      /\ \A c \in Conns : /\ ToSet(toClient[c]) \subseteq ToSet(toClient'[c])
                          /\ c \in DOMAIN ms /\ Open(c) => ToSet(ms[c]) \subseteq ToSet(toClient'[c])
  BY <1>1, <1>2, <1>4, SendFacts
<1>6. Working'
  BY <1>1, <1>2, FS_Subset DEF Working
<1>7. \A t \in tasks : t.id = 0 \/ ~Open(t.conn) \/ InHand(t.id)' \/ HasAnswer(t.conn, t.id)'
  <2> SUFFICES ASSUME NEW t \in tasks, Open(t.conn) PROVE InHand(t.id)' \/ HasAnswer(t.conn, t.id)'
    OBVIOUS
  <2>1. CASE t \in ts
    <3>1. ToSet(ms[t.conn]) \subseteq ToSet(toClient'[t.conn])
      BY <2>1, <1>4, <1>5, ConnType
    <3> QED BY <3>1, <2>1, <1>4 DEF HasAnswer
  <2>2. CASE t \notin ts
    BY <2>2, <1>1 DEF InHand
  <2> QED BY <2>1, <2>2
<1>8. \A t \in tasks' : \E u \in tasks : u.id = t.id /\ u.conn = t.conn
  BY <1>1
<1>9. ServerKeeps
  BY <1>1, <1>5, <1>6, <1>7, <1>8, EndsAnswered
<1> QED BY <1>1, <1>9, TasksStep

LEMMA AnswerAcquired ==
    ASSUME AnswerInv, RuntimeInv, Acquired, UNCHANGED clientVars
    PROVE  AnswerInv'
<1>1. /\ UNCHANGED <<client, pending, lastRequest, connVars, publisher, closing, toServer, toClient, stage, closed>>
      /\ tasks' = tasks \/ (closing /\ tasks' = tasks \ Opening)
  BY DEF Acquired, clientVars, connVars, wires, publisher
<1>2. toClient \in [Conns -> Seq(Message)] /\ Working /\ Owned
  BY DEF AnswerInv, Sent
<1>3. Working'
  BY <1>1, <1>2, FS_Subset DEF Working
<1>4. \A t \in tasks : t.id = 0 \/ ~Open(t.conn) \/ InHand(t.id)' \/ HasAnswer(t.conn, t.id)'
  <2>1. CASE closing
    <3>1. \A c \in Conns : ~Open(c)
      BY <2>1, <1>2 DEF Owned, Open
    <3> QED BY <3>1, ConnType
  <2>2. CASE ~closing
    BY <2>2, <1>1 DEF InHand
  <2> QED BY <2>1, <2>2
<1>5. \A t \in tasks' : \E u \in tasks : u.id = t.id /\ u.conn = t.conn
  BY <1>1
<1>6. ServerKeeps
  BY <1>1, <1>2, <1>3, <1>4, <1>5, EndsAnswered
<1> QED BY <1>1, <1>6, TasksStep

LEMMA AnswerOpened ==
    ASSUME AnswerInv, RuntimeInv, Opened, UNCHANGED clientVars
    PROVE  AnswerInv'
<1> DEFINE n == Len(lives) + 1
           here == {t \in Opening : Open(t.conn)}
           f == [t \in here |-> [t EXCEPT !.at = "attached", !.live = n]]
           moved == {f[t] : t \in here}
<1>1. /\ UNCHANGED <<client, pending, lastRequest, connVars, publisher, closing, toServer, toClient, stage, closed>>
      /\ live' = n
  BY DEF Opened, clientVars, connVars, wires, publisher
<1>2. tasks' = (tasks \ Opening) \cup moved
  BY <1>1 DEF Opened
<1>3. toClient \in [Conns -> Seq(Message)] /\ Working
  BY DEF AnswerInv, Sent
<1>4. \A t \in here : /\ t \in tasks /\ f[t].id = t.id /\ f[t].conn = t.conn /\ f[t].cmd = t.cmd
                      /\ f[t].at = "attached" /\ f[t] \in moved
  <2> SUFFICES ASSUME NEW t \in here
               PROVE  /\ t \in tasks /\ f[t].id = t.id /\ f[t].conn = t.conn /\ f[t].cmd = t.cmd
                      /\ f[t].at = "attached" /\ f[t] \in moved
    OBVIOUS
  <2>1. t \in tasks /\ t \in ServerTask
    BY ConnType DEF Opening
  <2>2. f[t] = [t EXCEPT !.at = "attached", !.live = n] /\ f[t] \in moved
    OBVIOUS
  <2> HIDE DEF f, moved, here
  <2> QED BY <2>1, <2>2 DEF ServerTask
<1>5. IsFiniteSet(moved)
  <2>1. here \subseteq tasks /\ DOMAIN f = here
    BY DEF Opening
  <2>2. IsFiniteSet(here)
    BY <2>1, <1>3, FS_Subset DEF Working
  <2> HIDE DEF f, here
  <2> QED BY <2>1, <2>2, ImageIsFinite
<1>6. \A t \in Opening : t \in here \/ ~Open(t.conn)
  OBVIOUS
<1>7. \A v \in tasks' : v \in tasks \/ \E t \in here : v = f[t]
  BY <1>2
<1> HIDE DEF f, moved, here
<1>8. Working'
  <2>1. IsFiniteSet(tasks \ Opening)
    BY <1>3, FS_Subset DEF Working
  <2>2. IsFiniteSet(tasks')
    BY <2>1, <1>2, <1>5, FS_Union
  <2> QED BY <2>2, <1>3, <1>4, <1>7 DEF Working
<1>9. \A t \in tasks : t.id = 0 \/ ~Open(t.conn) \/ InHand(t.id)' \/ HasAnswer(t.conn, t.id)'
  <2> SUFFICES ASSUME NEW t \in tasks, Open(t.conn) PROVE InHand(t.id)'
    OBVIOUS
  <2>1. CASE t \in Opening
    BY <2>1, <1>2, <1>4, <1>6 DEF InHand
  <2>2. CASE t \notin Opening
    BY <2>2, <1>2 DEF InHand
  <2> QED BY <2>1, <2>2
<1>10. \A t \in tasks' : \E u \in tasks : u.id = t.id /\ u.conn = t.conn
  BY <1>4, <1>7
<1>11. ServerKeeps
  BY <1>1, <1>3, <1>8, <1>9, <1>10, EndsAnswered
<1> QED BY <1>1, <1>11, TasksStep

LEMMA AnswerDisposed ==
    ASSUME AnswerInv, RuntimeInv, NEW i, NEW ok \in BOOLEAN, Disposed(i, ok), UNCHANGED clientVars
    PROVE  AnswerInv'
<1> DEFINE waiting == {t \in tasks : t.at = "disposal" /\ t.live = i}
           cmd(name) == {t \in waiting : t.cmd = name}
           acquire == cmd("attach") \cup cmd("create")
           answered == IF ok THEN cmd("detach") ELSE cmd("detach") \cup acquire
           first(t) == \A u \in acquire : t.id <= u.id
           f == [t \in acquire |-> [t EXCEPT !.at = "opening", !.live = 0, !.opener = first(t)]]
           again == IF ok THEN {f[t] : t \in acquire} ELSE {}
           ms == Responses(answered, ok, FALSE)
<1>1. UNCHANGED <<client, pending, lastRequest, connVars, publisher, closing, toServer, stage, closed>>
  BY DEF Disposed, clientVars, connVars, publisher
<1>2. Send(ms)
  BY DEF Disposed
<1>3. tasks' = (tasks \ waiting) \cup again
  BY DEF Disposed
<1>4. toClient \in [Conns -> Seq(Message)] /\ Working
  BY DEF AnswerInv, Sent
<1>5. /\ waiting \subseteq tasks /\ answered \subseteq waiting /\ acquire \subseteq waiting
      /\ \A t \in waiting : t.cmd # "op" /\ (t.cmd = "leave" => t.id = 0)
  BY <1>4 DEF Working
<1>6. \A t \in waiting : t.id = 0 \/ t \in answered \/ (ok /\ t \in acquire)
  <2> SUFFICES ASSUME NEW t \in waiting PROVE t.id = 0 \/ t \in answered \/ (ok /\ t \in acquire)
    OBVIOUS
  <2>1. t \in tasks /\ t.cmd \in {"create", "attach", "detach", "leave"}
    BY <1>5, ConnType
  <2> QED BY <2>1, <1>5
<1>7. \A t \in acquire : /\ t \in tasks /\ f[t].id = t.id /\ f[t].conn = t.conn /\ f[t].cmd = t.cmd
                         /\ f[t].at = "opening" /\ (ok => f[t] \in again)
  <2> SUFFICES ASSUME NEW t \in acquire
               PROVE  /\ t \in tasks /\ f[t].id = t.id /\ f[t].conn = t.conn /\ f[t].cmd = t.cmd
                      /\ f[t].at = "opening" /\ (ok => f[t] \in again)
    OBVIOUS
  <2>1. t \in tasks /\ t \in ServerTask
    BY <1>5, ConnType
  <2>2. f[t] = [t EXCEPT !.at = "opening", !.live = 0, !.opener = first(t)] /\ (ok => f[t] \in again)
    OBVIOUS
  <2> HIDE DEF f, again, acquire, first
  <2> QED BY <2>1, <2>2 DEF ServerTask
<1>8. \A v \in tasks' : v \in tasks \/ \E t \in acquire : v = f[t]
  BY <1>3
<1>9. IsFiniteSet(again)
  <2>1. acquire \subseteq tasks /\ DOMAIN f = acquire /\ (again = {} \/ again = {f[t] : t \in acquire})
    BY <1>5
  <2>2. IsFiniteSet(acquire)
    BY <2>1, <1>4, FS_Subset DEF Working
  <2> HIDE DEF f, acquire, again
  <2> QED BY <2>1, <2>2, ImageIsFinite, FS_EmptySet
<1>10. answered \subseteq ServerTask /\ IsFiniteSet(answered)
  <2>1. answered \subseteq tasks
    BY <1>5
  <2> QED BY <2>1, <1>4, ConnType, FS_Subset DEF Working
<1>11. /\ \A c \in Conns : c \in DOMAIN ms => ms[c] \in Seq(Message)
       /\ \A t \in answered : /\ t.conn \in DOMAIN ms
                              /\ \E m \in ToSet(ms[t.conn]) : m.type = "response" /\ m.id = t.id
  <2> HIDE DEF answered
  <2> QED BY <1>10, ResponsesFacts
<1> HIDE DEF waiting, cmd, acquire, answered, f, again, ms
<1>12. /\ toClient' \in [Conns -> Seq(Message)]
       /\ \A c \in Conns : /\ ToSet(toClient[c]) \subseteq ToSet(toClient'[c])
                           /\ c \in DOMAIN ms /\ Open(c) => ToSet(ms[c]) \subseteq ToSet(toClient'[c])
  BY <1>2, <1>4, <1>11, SendFacts
<1>13. Working'
  <2>1. IsFiniteSet(tasks \ waiting)
    BY <1>4, FS_Subset DEF Working
  <2>2. IsFiniteSet(tasks')
    BY <2>1, <1>3, <1>9, FS_Union
  <2> QED BY <2>2, <1>4, <1>7, <1>8 DEF Working
<1>14. \A t \in tasks : t.id = 0 \/ ~Open(t.conn) \/ InHand(t.id)' \/ HasAnswer(t.conn, t.id)'
  <2> SUFFICES ASSUME NEW t \in tasks, Open(t.conn), t.id # 0 PROVE InHand(t.id)' \/ HasAnswer(t.conn, t.id)'
    OBVIOUS
  <2>1. CASE t \in answered
    <3>1. ToSet(ms[t.conn]) \subseteq ToSet(toClient'[t.conn])
      BY <2>1, <1>11, <1>12, ConnType
    <3> QED BY <3>1, <2>1, <1>11 DEF HasAnswer
  <2>2. CASE ok /\ t \in acquire
    BY <2>2, <1>3, <1>7 DEF InHand
  <2>3. CASE t \notin waiting
    BY <2>3, <1>3 DEF InHand
  <2> QED BY <2>1, <2>2, <2>3, <1>6
<1>15. \A t \in tasks' : \E u \in tasks : u.id = t.id /\ u.conn = t.conn
  BY <1>7, <1>8
<1>16. ServerKeeps
  BY <1>1, <1>12, <1>13, <1>14, <1>15, EndsAnswered
<1> QED BY <1>1, <1>16, TasksStep

-----------------------------------------------------------------------------
(* A request arrives: it is answered, or a task works at it.               *)

LEMMA DispatchKeeps ==
    ASSUME AnswerInv, RuntimeInv, NEW c \in Conns, Dispatch(c), UNCHANGED clientVars,
           \/ /\ tasks' = tasks
              /\ \E ok \in BOOLEAN : Send([x \in {c} |-> <<Response(Head(toServer[c]), ok, FALSE)>>])
           \/ /\ UNCHANGED toClient
              /\ \E T : /\ tasks' = tasks \cup {T}
                        /\ T.id = Head(toServer[c]).id /\ T.cmd = Head(toServer[c]).cmd /\ T.conn = c
                        /\ T.at \in {"disposal", "telling"} => T.cmd # "op"
    PROVE  AnswerInv'
<1>0. PICK r : r = Head(toServer[c])
  OBVIOUS
<1>1. /\ toServer[c] # <<>> /\ toServer' = [toServer EXCEPT ![c] = Tail(@)]
      /\ UNCHANGED <<client, pending, lastRequest, connVars, publisher, closing, stage, closed>>
  BY DEF Dispatch, connVars, clientVars, publisher
<1>2. toClient \in [Conns -> Seq(Message)] /\ Working /\ toServer \in [Conns -> Seq(Request)] /\ Shape
  BY DEF AnswerInv, Sent, RuntimeInv, Shape
<1>3. r \in Request /\ r.id \in Nat /\ r.id # 0 /\ r.cmd # "leave"
  <2>1. r \in Request
    BY <1>0, <1>1, <1>2, HeadType
  <2> QED BY <2>1 DEF Request
<1>4. /\ ToSet(toServer[c]) = {r} \cup ToSet(toServer'[c])
      /\ \A d \in Conns \ {c} : toServer'[d] = toServer[d]
  <2>1. toServer[c] \in Seq(Request) /\ toServer'[c] = Tail(toServer[c])
    BY <1>1, <1>2
  <2>2. ToSet(toServer[c]) = {Head(toServer[c])} \cup ToSet(Tail(toServer[c]))
    BY <1>1, <2>1, TailFacts
  <2> QED BY <1>0, <1>1, <1>2, <2>1, <2>2
<1>5. ASSUME tasks \subseteq tasks', \A t \in tasks' \ tasks : t.id = r.id /\ t.conn = c,
             Working', toClient' \in [Conns -> Seq(Message)],
             \A d \in Conns : ToSet(toClient[d]) \subseteq ToSet(toClient'[d]),
             ~Open(c) \/ InHand(r.id)' \/ HasAnswer(c, r.id)'
      PROVE  AnswerInv'
  <2>1. \A t \in tasks : InHand(t.id)'
    BY <1>5 DEF InHand
  <2>2. \A d \in Conns : Open(d)' <=> Open(d)
    BY <1>1, SameOpen
  <2>3. \A d \in Conns : \A q \in ToSet(toServer[d]) : \/ ~Open(d)' \/ q \in ToSet(toServer'[d])
                                                       \/ InHand(q.id)' \/ HasAnswer(d, q.id)'
    <3>1. \A d \in Conns \ {c} : \A q \in ToSet(toServer[d]) : q \in ToSet(toServer'[d])
      BY <1>4
    <3>2. \A q \in ToSet(toServer[c]) : q \in ToSet(toServer'[c]) \/ q = r
      BY <1>4
    <3>3. ~Open(c)' \/ InHand(r.id)' \/ HasAnswer(c, r.id)'
      BY <2>2, <1>5
    <3> QED BY <3>1, <3>2, <3>3
  <2>4. \A d \in Conns : ToSet(toServer'[d]) \subseteq ToSet(toServer[d])
    BY <1>4
  <2>5. \A t \in tasks' : \/ \E u \in tasks : u.id = t.id /\ u.conn = t.conn
                          \/ \E q \in ToSet(toServer[t.conn]) : q.id = t.id /\ t.conn \in Conns
    BY <1>4, <1>5
  <2>6. ServerKeeps
    BY <2>1, <2>2, <2>3, <2>4, <2>5, <1>5 DEF ServerKeeps
  <2> QED BY <2>6, <1>1, TasksStep
<1>6. ASSUME tasks' = tasks, NEW ok \in BOOLEAN, Send([x \in {c} |-> <<Response(r, ok, FALSE)>>])
      PROVE  AnswerInv'
  <2> DEFINE m == Response(r, ok, FALSE)
             ms == [x \in {c} |-> <<m>>]
  <2>1. m \in Message /\ m.type = "response" /\ m.id = r.id
    BY <1>3, ResponseType
  <2>2. Send(ms)
    BY <1>6
  <2> HIDE DEF m
  <2>3. /\ \A d \in Conns : d \in DOMAIN ms => ms[d] \in Seq(Message)
        /\ c \in DOMAIN ms /\ ToSet(ms[c]) = {m}
    BY <2>1, SingleFacts
  <2> HIDE DEF ms
  <2>4. /\ toClient' \in [Conns -> Seq(Message)]
        /\ \A d \in Conns : /\ ToSet(toClient[d]) \subseteq ToSet(toClient'[d])
                            /\ d \in DOMAIN ms /\ Open(d) => ToSet(ms[d]) \subseteq ToSet(toClient'[d])
    BY <2>2, <2>3, <1>2, SendFacts
  <2>5. ~Open(c) \/ HasAnswer(c, r.id)'
    BY <2>1, <2>3, <2>4 DEF HasAnswer
  <2>6. Working'
    BY <1>2, <1>6 DEF Working
  <2> QED BY <1>5, <1>6, <2>4, <2>5, <2>6
<1>7. ASSUME UNCHANGED toClient, NEW T, tasks' = tasks \cup {T}, T.id = r.id, T.cmd = r.cmd, T.conn = c,
             T.at \in {"disposal", "telling"} => T.cmd # "op"
      PROVE  AnswerInv'
  <2>1. IsFiniteSet(tasks')
    BY <1>2, <1>7, FS_AddElement DEF Working
  <2>2. Working'
    BY <2>1, <1>2, <1>3, <1>7 DEF Working
  <2>3. InHand(r.id)'
    BY <1>7 DEF InHand
  <2>4. tasks \subseteq tasks' /\ \A t \in tasks' \ tasks : t.id = r.id /\ t.conn = c
    BY <1>7
  <2> QED BY <1>2, <1>5, <1>7, <2>2, <2>3, <2>4
<1> QED BY <1>0, <1>6, <1>7

LEMMA AnswerDispatch ==
    ASSUME AnswerInv, RuntimeInv, NEW c \in Conns, Dispatch(c), UNCHANGED clientVars
    PROVE  AnswerInv'
<1> DEFINE r == Head(toServer[c])
<1>1. \A at, i : /\ Task(r, c, at, i).id = r.id /\ Task(r, c, at, i).cmd = r.cmd
                 /\ Task(r, c, at, i).conn = c /\ Task(r, c, at, i).at = at
                 /\ [Task(r, c, at, i) EXCEPT !.opener = MayOpen].id = r.id
                 /\ [Task(r, c, at, i) EXCEPT !.opener = MayOpen].cmd = r.cmd
                 /\ [Task(r, c, at, i) EXCEPT !.opener = MayOpen].conn = c
  BY DEF Task
<1>2. ASSUME NEW ok \in BOOLEAN, tasks' = tasks, Send([x \in {c} |-> <<Response(r, ok, FALSE)>>])
      PROVE  AnswerInv'
  BY <1>2, DispatchKeeps
<1>3. ASSUME UNCHANGED toClient, NEW T, tasks' = tasks \cup {T}, T.id = r.id, T.cmd = r.cmd, T.conn = c,
             T.at \in {"disposal", "telling"} => r.cmd # "op"
      PROVE  AnswerInv'
  BY <1>3, DispatchKeeps
<1> HIDE DEF r
<1>4. CASE r.cmd \in {"create", "attach"} /\ Acquire(r, c)
  <2>1. \/ /\ tasks' = tasks /\ Send([x \in {c} |-> <<Response(r, FALSE, FALSE)>>])
        \/ /\ UNCHANGED toClient
           /\ \E at : tasks' = tasks \cup {[Task(r, c, at, live) EXCEPT !.opener = MayOpen]}
        \/ /\ UNCHANGED toClient
           /\ tasks' = tasks \cup {Task(r, c, "attached", live)}
    BY <1>4 DEF Acquire, Attached
  <2>2. r.cmd # "op"
    BY <1>4
  <2>3. ASSUME UNCHANGED toClient, NEW at, tasks' = tasks \cup {[Task(r, c, at, live) EXCEPT !.opener = MayOpen]}
        PROVE  AnswerInv'
    <3> DEFINE T == [Task(r, c, at, live) EXCEPT !.opener = MayOpen]
    <3>1. T.id = r.id /\ T.cmd = r.cmd /\ T.conn = c
      BY <1>1
    <3> HIDE DEF T
    <3> QED BY <1>3, <2>2, <2>3, <3>1 DEF T
  <2>4. ASSUME UNCHANGED toClient, NEW at, tasks' = tasks \cup {Task(r, c, at, live)}
        PROVE  AnswerInv'
    <3> DEFINE T == Task(r, c, at, live)
    <3>1. T.id = r.id /\ T.cmd = r.cmd /\ T.conn = c
      BY <1>1
    <3> HIDE DEF T
    <3> QED BY <1>3, <2>2, <2>4, <3>1 DEF T
  <2>5. CASE tasks' = tasks /\ Send([x \in {c} |-> <<Response(r, FALSE, FALSE)>>])
    BY <1>2, <2>5
  <2> QED BY <2>1, <2>3, <2>4, <2>5
<1>5. CASE r.cmd = "detach" /\ Detach(r, c)
  <2>1. \/ /\ tasks' = tasks /\ Send([x \in {c} |-> <<Response(r, TRUE, FALSE)>>])
        \/ /\ UNCHANGED toClient
           /\ \E at : tasks' = tasks \cup {Task(r, c, at, live)}
    BY <1>5 DEF Detach
  <2>2. r.cmd # "op"
    BY <1>5
  <2>3. ASSUME UNCHANGED toClient, NEW at, tasks' = tasks \cup {Task(r, c, at, live)}
        PROVE  AnswerInv'
    <3> DEFINE T == Task(r, c, at, live)
    <3>1. T.id = r.id /\ T.cmd = r.cmd /\ T.conn = c
      BY <1>1
    <3> HIDE DEF T
    <3> QED BY <1>3, <2>2, <2>3, <3>1 DEF T
  <2>4. CASE tasks' = tasks /\ Send([x \in {c} |-> <<Response(r, TRUE, FALSE)>>])
    BY <1>2, <2>4
  <2> QED BY <2>1, <2>3, <2>4
<1>6. CASE r.cmd = "op" /\ Operate(r, c)
  <2>1. \/ /\ tasks' = tasks /\ Send([x \in {c} |-> <<Response(r, FALSE, FALSE)>>])
        \/ /\ UNCHANGED toClient
           /\ tasks' = tasks \cup {Task(r, c, "running", live)}
    BY <1>6 DEF Operate
  <2>2. ASSUME UNCHANGED toClient, tasks' = tasks \cup {Task(r, c, "running", live)}
        PROVE  AnswerInv'
    <3> DEFINE T == Task(r, c, "running", live)
    <3>1. T.id = r.id /\ T.cmd = r.cmd /\ T.conn = c /\ T.at = "running"
      BY <1>1
    <3> HIDE DEF T
    <3>2. T.at \notin {"disposal", "telling"}
      BY <3>1
    <3> QED BY <1>3, <2>2, <3>1, <3>2 DEF T
  <2>3. CASE tasks' = tasks /\ Send([x \in {c} |-> <<Response(r, FALSE, FALSE)>>])
    BY <1>2, <2>3
  <2> QED BY <2>1, <2>2, <2>3
<1> QED BY <1>4, <1>5, <1>6 DEF Dispatch, r

-----------------------------------------------------------------------------
(* Connections, runtimes and snapshots.                                    *)

LEMMA AnswerDisconnect ==
    ASSUME AnswerInv, RuntimeInv, NEW c \in Conns, ServerDisconnect(c), UNCHANGED clientVars
    PROVE  AnswerInv'
<1>1. /\ UNCHANGED <<client, pending, lastRequest, toClient, closed, revision, broadcast, closing>>
      /\ stage' = [stage EXCEPT ![c] = "closed"] /\ handshake' = [handshake EXCEPT ![c] = None]
      /\ toServer' = [toServer EXCEPT ![c] = <<>>]
      /\ tasks' = tasks \/ tasks' = tasks \cup {Leave(c, live)}
  BY DEF ServerDisconnect, clientVars, publisher
<1>2. /\ Sent /\ Working /\ Owned /\ Asked /\ ResponseUnderWay
      /\ toServer \in [Conns -> Seq(Request)] /\ live \in Nat
      /\ stage \in [Conns -> {"none", "handshaking", "ready", "closed"}]
  BY ShapeFacts DEF AnswerInv, RuntimeInv, Shape
<1>3. Leave(c, live).id = 0 /\ Leave(c, live).cmd = "leave"
  BY <1>2, LeaveType
<1>4. toServer'[c] = <<>> /\ \A d \in Conns \ {c} : toServer'[d] = toServer[d]
  BY <1>1, <1>2
<1>5. stage'[c] = "closed" /\ \A d \in Conns \ {c} : stage'[d] = stage[d]
  BY <1>1, <1>2
<1>6. ~Open(c)' /\ \A d \in Conns \ {c} : Open(d)' <=> Open(d)
  BY <1>1, <1>5 DEF Open
<1>7. IsFiniteSet(tasks')
  BY <1>1, <1>2, FS_AddElement DEF Working
<1>8. Working'
  BY <1>1, <1>2, <1>3, <1>7 DEF Working
<1>9. \A d \in Conns : ToSet(toServer'[d]) \subseteq ToSet(toServer[d])
  <2>1. ToSet(<<>>) = {}
    BY DEF ToSet
  <2> QED BY <2>1, <1>4
<1>10. \A t \in tasks : InHand(t.id)'
  BY <1>1 DEF InHand
<1>11. \A t \in tasks' : t.id = 0 \/ t \in tasks
  BY <1>1, <1>3
<1>12. ServerKeeps
  <2>1. toClient' \in [Conns -> Seq(Message)] /\ \A d \in Conns : ToSet(toClient[d]) \subseteq ToSet(toClient'[d])
    BY <1>1, <1>2 DEF Sent
  <2>2. \A d \in Conns : \A q \in ToSet(toServer[d]) : ~Open(d)' \/ q \in ToSet(toServer'[d])
    BY <1>4, <1>6
  <2>3. \A d \in Conns : Open(d)' => Open(d)
    BY <1>6
  <2> QED BY <2>1, <2>2, <2>3, <1>8, <1>9, <1>10, <1>11 DEF ServerKeeps
<1>13. Asked' /\ ResponseUnderWay'
  BY <1>1, <1>2, <1>12, AnswersKept
<1>14. Sent'
  <2>1. handshake' \in [Conns -> Making \cup {None}]
    BY <1>1, <1>2 DEF Sent
  <2>2. \A d \in Conns : stage'[d] = "handshaking" => handshake'[d] \in Making
    BY <1>1, <1>2, <1>5 DEF Sent
  <2> QED BY <2>1, <2>2, <1>1, <1>2 DEF Sent
<1>15. Owned'
  <2>1. \A d \in Conns : stage'[d] = "none" <=> stage[d] = "none" /\ d # c
    BY <1>5
  <2>2. \A k \in Clients : client'[k].conn # 0 => stage'[client'[k].conn] # "none"
    <3> SUFFICES ASSUME NEW k \in Clients, client[k].conn # 0 PROVE stage'[client[k].conn] # "none"
      BY <1>1
    <3>1. client[k].conn \in Conns /\ stage[client[k].conn] # "none"
      BY <1>2, RemoteAssumption DEF Owned, Client, Conns
    <3> QED BY <3>1, <1>5
  <2>3. closing' => \A d \in Conns : stage'[d] = "none" \/ d \in closed'
    <3>1. stage[c] # "none"
      BY DEF ServerDisconnect
    <3> QED BY <3>1, <1>1, <1>2, <1>5 DEF Owned
  <2> QED BY <2>2, <2>3, <1>1, <1>2 DEF Owned
<1> QED BY <1>8, <1>13, <1>14, <1>15 DEF AnswerInv

(* The steps that change neither requests nor tasks.                       *)
LEMMA AnswerRest ==
    ASSUME AnswerInv, RuntimeInv, UNCHANGED <<client, pending, lastRequest, toServer, tasks>>,
           toClient' \in [Conns -> Seq(Message)],
           \A c \in Conns : /\ Open(c)' => Open(c)
                            /\ ToSet(toClient[c]) \subseteq ToSet(toClient'[c])
                            /\ stage[c] # "none" => stage'[c] # "none"
                            /\ stage'[c] = "handshaking" => handshake'[c] \in Making,
           revision' \in Nat, broadcast' # None => broadcast' \in [revision : Nat, to : SUBSET Conns],
           handshake' \in [Conns -> Making \cup {None}], closed' \subseteq Conns,
           closing' => \A c \in Conns : stage'[c] = "none" \/ c \in closed'
    PROVE  AnswerInv'
<1>1. Sent /\ Working /\ Owned /\ Asked /\ ResponseUnderWay
  BY DEF AnswerInv
<1>2. ServerKeeps
  BY MessagesOnly
<1>3. Asked' /\ ResponseUnderWay'
  BY <1>1, <1>2, AnswersKept
<1>4. Sent'
  BY DEF Sent
<1>5. Owned'
  <2>1. \A k \in Clients : client'[k].conn # 0 => stage'[client'[k].conn] # "none"
    <3> SUFFICES ASSUME NEW k \in Clients, client[k].conn # 0 PROVE stage'[client[k].conn] # "none"
      OBVIOUS
    <3>1. client[k].conn \in Conns /\ stage[client[k].conn] # "none"
      BY <1>1, RemoteAssumption DEF Owned, Client, Conns
    <3> QED BY <3>1
  <2> QED BY <2>1, <1>1 DEF Owned
<1> QED BY <1>2, <1>3, <1>4, <1>5 DEF AnswerInv, ServerKeeps

(* And among them those that only send.                                    *)
LEMMA AnswerSends ==
    ASSUME AnswerInv, RuntimeInv, UNCHANGED <<client, pending, lastRequest, toServer, tasks, connVars, closing>>,
           toClient' \in [Conns -> Seq(Message)],
           \A c \in Conns : ToSet(toClient[c]) \subseteq ToSet(toClient'[c]),
           revision' \in Nat, broadcast' # None => broadcast' \in [revision : Nat, to : SUBSET Conns]
    PROVE  AnswerInv'
<1>1. UNCHANGED <<stage, closed, handshake>> /\ Sent /\ Owned
  BY DEF connVars, AnswerInv
<1>2. \A c \in Conns : Open(c)' <=> Open(c)
  BY <1>1, SameOpen
<1>3. /\ handshake' \in [Conns -> Making \cup {None}] /\ closed' \subseteq Conns
      /\ \A c \in Conns : /\ stage[c] # "none" => stage'[c] # "none"
                          /\ stage'[c] = "handshaking" => handshake'[c] \in Making
      /\ closing' => \A c \in Conns : stage'[c] = "none" \/ c \in closed'
  BY <1>1 DEF Sent, Owned
<1> QED BY <1>2, <1>3, AnswerRest

LEMMA AnswerEvent ==
    ASSUME AnswerInv, RuntimeInv, NEW i, RunEnds(i), UNCHANGED clientVars
    PROVE  AnswerInv'
<1> DEFINE ss == [c \in lives[i].connections |-> <<SessionSnapshot>>]
<1>1. /\ UNCHANGED <<client, pending, lastRequest, toServer, tasks, connVars, closing, revision, broadcast>>
      /\ Send(ss)
  BY DEF RunEnds, clientVars, publisher
<1>2. Sent
  BY DEF AnswerInv
<1>3. \A c \in Conns : c \in DOMAIN ss => ss[c] \in Seq(Message)
  BY SnapshotsType
<1> HIDE DEF ss
<1>4. /\ toClient' \in [Conns -> Seq(Message)]
      /\ \A c \in Conns : ToSet(toClient[c]) \subseteq ToSet(toClient'[c])
  BY <1>1, <1>2, <1>3, SendFacts DEF Sent
<1> QED BY <1>1, <1>2, <1>4, AnswerSends DEF Sent

(* A connection is closed by the server: Terminate() and Close.            *)
LEMMA AnswerCloses ==
    ASSUME AnswerInv, RuntimeInv, NEW i, Terminate(i) \/ Close, UNCHANGED clientVars
    PROVE  AnswerInv'
<1>1. /\ UNCHANGED <<client, pending, lastRequest, toServer, toClient, tasks, stage, handshake, revision, broadcast>>
      /\ \/ closing' = closing /\ closed' = closed \cup lives[i].connections /\ i \in DOMAIN lives
         \/ closing' = TRUE /\ closed' = closed \cup {c \in Conns : stage[c] # "none"}
  BY DEF Terminate, Close, clientVars, publisher, wires, sessions
<1>2. Sent /\ Owned /\ Shape
  BY DEF AnswerInv, RuntimeInv
<1>3. i \in DOMAIN lives => lives[i].connections \subseteq Conns
  BY <1>2, ShapeFacts DEF Live
<1>5. closed \subseteq closed' /\ closed' \subseteq Conns
  BY <1>1, <1>2, <1>3 DEF Owned
<1>6. closing' => \A c \in Conns : stage'[c] = "none" \/ c \in closed'
  BY <1>1, <1>2, <1>3 DEF Owned
<1>7. \A c \in Conns : Open(c)' => Open(c)
  BY <1>1, <1>5 DEF Open
<1> QED BY <1>1, <1>2, <1>5, <1>6, <1>7, AnswerRest DEF Sent

LEMMA AnswerHello ==
    ASSUME AnswerInv, RuntimeInv, NEW c \in Conns, SendHello(c) \/ CatchUp(c), UNCHANGED clientVars
    PROVE  AnswerInv'
<1>1. UNCHANGED <<client, pending, lastRequest, toServer, tasks, closed, closing, revision, broadcast>>
  BY DEF SendHello, CatchUp, clientVars, sessions, publisher
<1>2. /\ Sent /\ Owned /\ stage \in [Conns -> {"none", "handshaking", "ready", "closed"}]
      /\ toClient \in [Conns -> Seq(Message)] /\ revision \in Nat /\ handshake \in [Conns -> Making \cup {None}]
      /\ \A d \in Conns : stage[d] = "handshaking" => handshake[d] \in Making
  BY DEF AnswerInv, RuntimeInv, Shape, Sent
<1>3. PICK m \in Message : \/ toClient' = toClient
                           \/ Send([x \in {c} |-> <<m>>])
  <2>1. CASE SendHello(c)
    <3> DEFINE v == Snapshot(handshake[c].revision, FALSE)
    <3>1. handshake[c].revision \in Nat
      BY <1>2, <2>1 DEF SendHello, Making
    <3>2. v \in [type : {"server", "hello"}, revision : Nat, attached : BOOLEAN]
      BY <3>1 DEF Snapshot
    <3> HIDE DEF v
    <3>3. [v EXCEPT !.type = "hello"] \in [type : {"server", "hello"}, revision : Nat, attached : BOOLEAN]
      BY <3>2
    <3>4. [v EXCEPT !.type = "hello"] \in Message
      BY <3>3 DEF Message
    <3> QED BY <2>1, <3>4 DEF SendHello, v
  <2>2. CASE CatchUp(c)
    <3> DEFINE v == Snapshot(handshake[c].revision, handshake[c].attached)
    <3>1. handshake[c].revision \in Nat /\ handshake[c].attached \in BOOLEAN
      BY <1>2, <2>2 DEF CatchUp, Making
    <3>2. v \in Message
      BY <3>1 DEF Message, Snapshot
    <3> QED BY <2>2, <3>2 DEF CatchUp
  <2> QED BY <2>1, <2>2
<1>4. /\ toClient' \in [Conns -> Seq(Message)]
      /\ \A d \in Conns : ToSet(toClient[d]) \subseteq ToSet(toClient'[d])
  <2>1. CASE toClient' = toClient
    BY <2>1, <1>2
  <2>2. CASE Send([x \in {c} |-> <<m>>])
    <3> DEFINE ms == [x \in {c} |-> <<m>>]
    <3>1. \A d \in Conns : d \in DOMAIN ms => ms[d] \in Seq(Message)
      BY SingleFacts
    <3>2. Send(ms)
      BY <2>2
    <3> HIDE DEF ms
    <3> QED BY <3>1, <3>2, <1>2, SendFacts
  <2> QED BY <1>3, <2>1, <2>2
<1>5. handshake' \in [Conns -> Making \cup {None}]
  <2>1. CASE SendHello(c)
    <3>1. PICK h \in Making \cup {None} : handshake' = [handshake EXCEPT ![c] = h]
      <4>1. [revision |-> revision, made |-> FALSE, attached |-> FALSE] \in Making
        BY <1>2 DEF Making
      <4> QED BY <4>1, <2>1 DEF SendHello
    <3> QED BY <3>1, <1>2
  <2>2. CASE CatchUp(c)
    <3>1. CASE handshake' = [handshake EXCEPT ![c] = None]
      BY <3>1, <1>2
    <3>2. CASE handshake' = [handshake EXCEPT ![c].made = TRUE, ![c].attached = Listed(c)]
      <4>1. Listed(c) \in BOOLEAN
        BY DEF Listed
      <4>2. handshake[c] \in Making
        BY <1>2, <2>2 DEF CatchUp
      <4>3. PICK h : h = [[handshake[c] EXCEPT !.made = TRUE] EXCEPT !.attached = Listed(c)]
        OBVIOUS
      <4>4. h \in Making
        BY <4>1, <4>2, <4>3 DEF Making
      <4>5. handshake' = [handshake EXCEPT ![c] = h]
        BY <3>2, <4>3, <1>2
      <4> QED BY <4>4, <4>5, <1>2
    <3> QED BY <2>2, <3>1, <3>2 DEF CatchUp
  <2> QED BY <2>1, <2>2
<1>6. \A d \in Conns : /\ stage'[d] = stage[d] \/ (stage[d] = "handshaking" /\ stage'[d] = "ready")
                       /\ d # c => handshake'[d] = handshake[d]
                       /\ stage'[c] = "ready"
  BY <1>2 DEF SendHello, CatchUp
<1>7. \A d \in Conns : /\ Open(d)' => Open(d)
                       /\ stage[d] # "none" => stage'[d] # "none"
                       /\ stage'[d] = "handshaking" => handshake'[d] \in Making
  BY <1>1, <1>2, <1>6 DEF Open
<1>8. closing' => \A d \in Conns : stage'[d] = "none" \/ d \in closed'
  BY <1>1, <1>2, <1>6 DEF Owned
<1> QED BY <1>1, <1>2, <1>4, <1>5, <1>7, <1>8, AnswerRest DEF Sent, Owned

LEMMA AnswerBroadcast ==
    ASSUME AnswerInv, RuntimeInv, StartBroadcast \/ SendSnapshot, UNCHANGED clientVars
    PROVE  AnswerInv'
<1>1. UNCHANGED <<client, pending, lastRequest, toServer, tasks, connVars, closing>>
  BY DEF StartBroadcast, SendSnapshot, wires, sessions, clientVars
<1>2. Sent
  BY DEF AnswerInv
<1>3. CASE StartBroadcast
  <2>1. toClient' = toClient
    BY <1>3 DEF StartBroadcast, wires
  <2>2. \/ UNCHANGED <<revision, broadcast>>
        \/ /\ revision' = revision + 1
           /\ broadcast' = [revision |-> revision', to |-> {c \in Conns : stage[c] = "ready"}]
    BY <1>3 DEF StartBroadcast, publisher
  <2>3. revision' \in Nat /\ (broadcast' # None => broadcast' \in [revision : Nat, to : SUBSET Conns])
    BY <2>2, <1>2 DEF Sent
  <2> QED BY <2>1, <2>3, <1>1, <1>2, AnswerSends DEF Sent
<1>4. CASE SendSnapshot
  <2> DEFINE v(c) == Snapshot(broadcast.revision, Listed(c))
             ms == [c \in broadcast.to |-> <<v(c)>>]
  <2>1. broadcast.revision \in Nat /\ broadcast.to \subseteq Conns
    BY <1>2, <1>4 DEF Sent, SendSnapshot
  <2>2. \A c \in Conns : Listed(c) \in BOOLEAN
    BY DEF Listed
  <2>3. \A c \in Conns : v(c) \in Message
    BY <2>1, <2>2 DEF Snapshot, Message
  <2> HIDE DEF v
  <2>4. \A c \in Conns : <<v(c)>> \in Seq(Message)
    BY <2>3, SingleFacts
  <2>5. \A c \in Conns : c \in DOMAIN ms => ms[c] \in Seq(Message)
    BY <2>1, <2>4
  <2>6. Send(ms) /\ broadcast' = None /\ revision' = revision
    BY <1>4 DEF SendSnapshot, v
  <2> HIDE DEF ms
  <2>7. /\ toClient' \in [Conns -> Seq(Message)]
        /\ \A c \in Conns : ToSet(toClient[c]) \subseteq ToSet(toClient'[c])
    BY <2>5, <2>6, <1>2, SendFacts DEF Sent
  <2> QED BY <2>6, <2>7, <1>1, <1>2, AnswerSends DEF Sent
<1> QED BY <1>3, <1>4

LEMMA AnswerCloseSessions ==
    ASSUME AnswerInv, RuntimeInv, CloseSessions, UNCHANGED clientVars
    PROVE  AnswerInv'
<1>1. UNCHANGED <<client, pending, lastRequest, toServer, toClient, tasks, connVars, closing, revision, broadcast>>
  BY DEF CloseSessions, wires, clientVars, publisher
<1>2. Sent
  BY DEF AnswerInv
<1> QED BY <1>1, <1>2, AnswerSends DEF Sent

LEMMA AnswerServer ==
    ASSUME AnswerInv, RuntimeInv, Server
    PROVE  AnswerInv'
<1>1. UNCHANGED clientVars /\ closed \subseteq Conns
  BY DEF Server, AnswerInv, Owned
<1>2. ASSUME NEW c \in Conns, Gone(c) \/ Break(c) PROVE AnswerInv'
  BY <1>1, <1>2, AnswerDisconnect DEF Gone, Break
<1>3. ASSUME ServerGoes PROVE AnswerInv'
  BY <1>1, <1>2, <1>3, AnswerHello, AnswerAcquired, AnswerOpened, AnswerCloseSessions, AnswerBroadcast,
     AnswerAttached, AnswerTelling, AnswerOperation, AnswerEvent, AnswerDisposed DEF ServerGoes
<1>4. ASSUME ServerFails PROVE AnswerInv'
  BY <1>1, <1>2, <1>4, AnswerOpenFails, AnswerAttached, AnswerCloses, AnswerDisposed DEF ServerFails
<1> QED BY <1>1, <1>2, <1>3, <1>4, AnswerCloses DEF Server

-----------------------------------------------------------------------------
(* The clients.                                                            *)

(* The request r is on its way.                                            *)
LEMMA AppendFacts ==
    ASSUME NEW S, NEW s \in Seq(S), NEW x \in S
    PROVE  Append(s, x) \in Seq(S) /\ ToSet(Append(s, x)) = ToSet(s) \cup {x}
<1>1. /\ Append(s, x) \in Seq(S) /\ Len(s) + 1 \in DOMAIN Append(s, x) /\ Append(s, x)[Len(s) + 1] = x
      /\ \A i \in DOMAIN s : i \in DOMAIN Append(s, x) /\ Append(s, x)[i] = s[i]
      /\ \A i \in DOMAIN Append(s, x) : i = Len(s) + 1 \/ i \in DOMAIN s
  OBVIOUS
<1> DEFINE u == Append(s, x)
<1> HIDE DEF u
<1>2. ToSet(s) \subseteq ToSet(u) /\ x \in ToSet(u)
  BY <1>1 DEF ToSet, u
<1>3. ToSet(u) \subseteq ToSet(s) \cup {x}
  BY <1>1 DEF ToSet, u
<1> QED BY <1>1, <1>2, <1>3 DEF u

(* A step of client k that loses no response to what stays pending (p) and *)
(* may send a request.                                                     *)
Sends(k, p) ==
    \/ pending' = p /\ UNCHANGED <<toServer, lastRequest>>
    \/ /\ client[k].connected
       /\ \E cmd \in {"create", "attach", "detach", "op"}, l \in Leases \cup {None} : Requested(k, cmd, l, p)

LEMMA SendsFacts ==
    ASSUME AnswerInv, RuntimeInv, NEW k \in Clients, NEW p, Sends(k, p)
    PROVE  /\ lastRequest' \in Nat /\ lastRequest <= lastRequest'
           /\ \A c \in Conns : ToSet(toServer[c]) \subseteq ToSet(toServer'[c])
           /\ \/ pending' = p /\ \A c \in Conns : toServer'[c] = toServer[c]
              \/ \E r \in Request :
                    /\ r.client = k /\ r.id = lastRequest + 1 /\ r.id = lastRequest'
                    /\ pending' = p \cup {r} /\ client[k].connected
                    /\ \A c \in Conns : ToSet(toServer'[c]) = IF c = client[k].conn THEN ToSet(toServer[c]) \cup {r}
                                                             ELSE ToSet(toServer[c])
<1>1. Shape /\ Owned
  BY DEF RuntimeInv, AnswerInv
<1>2. toServer \in [Conns -> Seq(Request)] /\ lastRequest \in Nat
  BY <1>1 DEF Shape
<1>3. CASE pending' = p /\ UNCHANGED <<toServer, lastRequest>>
  BY <1>2, <1>3
<1>4. ASSUME client[k].connected, NEW cmd \in {"create", "attach", "detach", "op"}, NEW l \in Leases \cup {None},
             Requested(k, cmd, l, p)
      PROVE  /\ lastRequest' \in Nat /\ lastRequest <= lastRequest'
             /\ \A c \in Conns : ToSet(toServer[c]) \subseteq ToSet(toServer'[c])
             /\ \E r \in Request :
                    /\ r.client = k /\ r.id = lastRequest + 1 /\ r.id = lastRequest'
                    /\ pending' = p \cup {r} /\ client[k].connected
                    /\ \A c \in Conns : ToSet(toServer'[c]) = IF c = client[k].conn THEN ToSet(toServer[c]) \cup {r}
                                                             ELSE ToSet(toServer[c])
  <2> DEFINE r == [id |-> lastRequest + 1, cmd |-> cmd, lease |-> l, client |-> k]
             d == client[k].conn
  <2>1. r \in Request /\ r.client = k /\ r.id = lastRequest + 1
    BY <1>2 DEF Request
  <2>2. d \in Conns
    BY <1>1, <1>4, RemoteAssumption DEF Owned, Client, Conns
  <2>3. lastRequest' = lastRequest + 1 /\ pending' = p \cup {r} /\ toServer' = [toServer EXCEPT ![d] = Append(@, r)]
    BY <1>4 DEF Requested
  <2> HIDE DEF r, d
  <2>4. toServer[d] \in Seq(Request) /\ toServer'[d] = Append(toServer[d], r)
        /\ \A c \in Conns \ {d} : toServer'[c] = toServer[c]
    BY <1>2, <2>2, <2>3
  <2>5. ToSet(toServer'[d]) = ToSet(toServer[d]) \cup {r}
    BY <2>1, <2>4, AppendFacts
  <2>6. \A c \in Conns : ToSet(toServer'[c]) = IF c = client[k].conn THEN ToSet(toServer[c]) \cup {r}
                                               ELSE ToSet(toServer[c])
    BY <2>4, <2>5 DEF d
  <2>7. \A c \in Conns : ToSet(toServer[c]) \subseteq ToSet(toServer'[c])
    BY <2>6
  <2>8. lastRequest' \in Nat /\ lastRequest <= lastRequest' /\ r.id = lastRequest'
    BY <1>2, <2>1, <2>3
  <2> QED BY <1>4, <2>1, <2>3, <2>6, <2>7, <2>8
<1> QED BY <1>3, <1>4 DEF Sends

LEMMA ClientStep ==
    ASSUME AnswerInv, RuntimeInv, UNCHANGED <<stage, closed, handshake, tasks, revision, broadcast, closing>>,
           NEW k \in Clients, NEW cl \in Client, client' = [client EXCEPT ![k] = cl],
           cl.conn = client[k].conn, client[k].connected => cl.connected, cl.connected => cl.conn # 0,
           NEW p \in SUBSET pending, Sends(k, p), toClient' \in [Conns -> Seq(Message)],
           \A r \in p, c \in Conns : c = client[r.client].conn /\ HasAnswer(c, r.id) => HasAnswer(c, r.id)'
    PROVE  AnswerInv'
<1>1. Sent /\ Working /\ Owned /\ Asked /\ ResponseUnderWay /\ Shape /\ Numbered
  BY DEF AnswerInv, RuntimeInv
<1>2. Sent' /\ Working'
  BY <1>1 DEF Sent, Working
<1>3. /\ client \in [Clients -> Client] /\ client'[k] = cl
      /\ \A j \in Clients : j # k => client'[j] = client[j]
      /\ \A j \in Clients : client'[j].conn = client[j].conn /\ (client[j].connected => client'[j].connected)
  BY <1>1 DEF Owned
<1>4. Owned'
  <2>1. client' \in [Clients -> Client]
    BY <1>3
  <2>2. \A j \in Clients : /\ client'[j].connected => client'[j].conn # 0
                           /\ client'[j].conn # 0 => stage'[client'[j].conn] # "none"
    BY <1>1, <1>3 DEF Owned
  <2>3. \A i, j \in Clients : client'[i].conn = client'[j].conn /\ client'[i].conn # 0 => i = j
    BY <1>1, <1>3 DEF Owned
  <2> QED BY <2>1, <2>2, <2>3, <1>1 DEF Owned
<1>5. /\ lastRequest \in Nat /\ lastRequest' \in Nat /\ lastRequest <= lastRequest'
      /\ \A c \in Conns : ToSet(toServer[c]) \subseteq ToSet(toServer'[c])
  BY <1>1, SendsFacts DEF Shape
<1>6. \A c \in Conns : \A q \in ToSet(toServer[c]) : q.id <= lastRequest /\ q.id \in Nat
  <2> SUFFICES ASSUME NEW c \in Conns, NEW q \in ToSet(toServer[c]) PROVE q.id <= lastRequest /\ q.id \in Nat
    OBVIOUS
  <2>1. PICK i \in DOMAIN toServer[c] : q = toServer[c][i]
    BY DEF ToSet
  <2>2. q \in Request
    BY <1>1, <2>1 DEF Shape
  <2> QED BY <1>1, <2>1, <2>2 DEF Numbered, Request
<1>7. \A t \in tasks : t.id <= lastRequest /\ t.id \in Nat
  BY <1>1, ConnType DEF Numbered
<1>8. \A r \in pending : /\ r \in Request /\ r.id <= lastRequest /\ r.id \in Nat /\ r.client \in Clients
                         /\ client[r.client].connected /\ client[r.client].conn \in Conns
  BY <1>1, PendingFacts DEF Asked
<1>9. CASE pending' = p /\ \A c \in Conns : toServer'[c] = toServer[c]
  <2>1. \A r \in p : r \in pending /\ client'[r.client].conn = client[r.client].conn /\ client'[r.client].connected
    BY <1>3, <1>8
  <2>2. \A r \in pending' : r.id <= lastRequest' /\ client'[r.client].connected
    BY <1>5, <1>8, <1>9, <2>1
  <2>3. \A r \in pending', c \in Conns : \A q \in ToSet(toServer'[c]) : q.id = r.id => client'[r.client].conn = c
    BY <1>1, <1>9, <2>1 DEF Asked
  <2>4. \A r \in pending', t \in tasks' : t.id = r.id => client'[r.client].conn = t.conn
    BY <1>1, <1>9, <2>1 DEF Asked
  <2>5. Asked'
    BY <1>1, <1>9, <2>1, <2>2, <2>3, <2>4 DEF Asked
  <2>6. ASSUME NEW r \in p, NEW c, c = client[r.client].conn
        PROVE  ~Open(c)' \/ r \in ToSet(toServer'[c]) \/ InHand(r.id)' \/ HasAnswer(c, r.id)'
    <3>1. \/ ~Open(c) \/ r \in ToSet(toServer[c]) \/ InHand(r.id) \/ HasAnswer(c, r.id)
      BY <1>1, <2>6 DEF ResponseUnderWay, InHand, HasAnswer
    <3>2. c \in Conns
      BY <2>6, <1>8
    <3>3. HasAnswer(c, r.id) => HasAnswer(c, r.id)'
      BY <2>6, <3>2
    <3>4. (Open(c) <=> Open(c)') /\ (InHand(r.id) <=> InHand(r.id)')
      BY DEF Open, InHand
    <3> QED BY <3>1, <3>2, <3>3, <3>4, <1>9
  <2>7. ResponseUnderWay'
    BY <2>1, <2>6, <1>9 DEF ResponseUnderWay, InHand, HasAnswer, Open
  <2> QED BY <1>2, <1>4, <2>5, <2>7 DEF AnswerInv
<1>10. ASSUME NEW r \in Request, r.client = k, r.id = lastRequest + 1, r.id = lastRequest', pending' = p \cup {r},
              client[k].connected,
              \A c \in Conns : ToSet(toServer'[c]) = IF c = client[k].conn THEN ToSet(toServer[c]) \cup {r}
                                                    ELSE ToSet(toServer[c])
       PROVE  AnswerInv'
  <2>0. client[k].conn \in Conns
    BY <1>1, <1>3, <1>10, RemoteAssumption DEF Owned, Client, Conns
  <2>1. \A q \in p : q \in pending /\ client'[q.client].conn = client[q.client].conn /\ client'[q.client].connected
    BY <1>3, <1>8
  <2>2. \A q \in p : q.id # r.id
    BY <1>5, <1>8, <1>10
  <2>3. pending' \subseteq Request /\ \A q \in pending' : q.id <= lastRequest' /\ client'[q.client].connected
    BY <1>3, <1>5, <1>8, <1>10, <2>1
  <2>4. \A q, s \in pending' : q.id = s.id => q = s
    BY <1>1, <1>10, <2>2 DEF Asked
  <2>5. ASSUME NEW q \in pending', NEW c \in Conns, NEW s \in ToSet(toServer'[c]), s.id = q.id
        PROVE  client'[q.client].conn = c
    <3>1. CASE q = r
      <4>1. s \notin ToSet(toServer[c])
        <5>1. s.id = lastRequest + 1
          BY <3>1, <2>5, <1>10
        <5> QED BY <5>1, <1>5, <1>6
      <4> QED BY <4>1, <3>1, <2>5, <1>3, <1>10
    <3>2. CASE q \in p
      <4>1. s # r
        BY <3>2, <2>2, <2>5
      <4>2. s \in ToSet(toServer[c])
        <5>1. ToSet(toServer'[c]) = IF c = client[k].conn THEN ToSet(toServer[c]) \cup {r} ELSE ToSet(toServer[c])
          BY <1>10
        <5>2. ToSet(toServer'[c]) \subseteq ToSet(toServer[c]) \cup {r}
          BY <5>1
        <5> QED BY <4>1, <5>2
      <4> QED BY <4>2, <3>2, <2>1, <2>5, <1>1 DEF Asked
    <3> QED BY <3>1, <3>2, <1>10
  <2>6. ASSUME NEW q \in pending', NEW t \in tasks', t.id = q.id PROVE client'[q.client].conn = t.conn
    <3>1. q # r
      <4>1. t.id <= lastRequest /\ t.id \in Nat
        BY <1>7
      <4> QED BY <4>1, <2>6, <1>5, <1>10
    <3> QED BY <3>1, <2>1, <2>6, <1>1, <1>10 DEF Asked
  <2>7. Asked'
    BY <2>3, <2>4, <2>5, <2>6 DEF Asked
  <2>8. ASSUME NEW q \in pending', NEW c, c = client'[q.client].conn
        PROVE  ~Open(c)' \/ q \in ToSet(toServer'[c]) \/ InHand(q.id)' \/ HasAnswer(c, q.id)'
    <3>1. CASE q = r
      <4>1. c = client[k].conn
        BY <3>1, <2>8, <1>3, <1>10
      <4> QED BY <3>1, <4>1, <2>0, <1>10
    <3>2. CASE q \in p
      <4>0. q \in pending /\ c = client[q.client].conn /\ c \in Conns
        BY <3>2, <2>1, <2>8, <1>8
      <4>1. \/ ~Open(c) \/ q \in ToSet(toServer[c]) \/ InHand(q.id) \/ HasAnswer(c, q.id)
        BY <1>1, <4>0 DEF ResponseUnderWay, InHand, HasAnswer
      <4>3. HasAnswer(c, q.id) => HasAnswer(c, q.id)'
        BY <3>2, <4>0
      <4>4. (Open(c) <=> Open(c)') /\ (InHand(q.id) <=> InHand(q.id)')
        BY DEF Open, InHand
      <4> QED BY <4>0, <4>1, <4>3, <4>4, <1>5
    <3> QED BY <3>1, <3>2, <1>10
  <2>9. ResponseUnderWay'
    BY <2>8 DEF ResponseUnderWay, InHand, HasAnswer
  <2> QED BY <1>2, <1>4, <2>7, <2>9 DEF AnswerInv
<1>11. \/ pending' = p /\ \A c \in Conns : toServer'[c] = toServer[c]
       \/ \E r \in Request :
             /\ r.client = k /\ r.id = lastRequest + 1 /\ r.id = lastRequest'
             /\ pending' = p \cup {r} /\ client[k].connected
             /\ \A c \in Conns : ToSet(toServer'[c]) = IF c = client[k].conn THEN ToSet(toServer[c]) \cup {r}
                                                      ELSE ToSet(toServer[c])
  BY SendsFacts
<1> QED BY <1>9, <1>10, <1>11

LEMMA ConnOf ==
    ASSUME Owned, NEW k \in Clients, client[k].conn # 0
    PROVE  client[k].conn \in Conns /\ client[k] \in Client
BY RemoteAssumption DEF Owned, Client, Conns

LEMMA UnusedType == Unused \in Client /\ Unused.conn = 0 /\ ~Unused.connected
<1>1. 0 \in 0..MaxConnects
  BY RemoteAssumption
<1> QED BY <1>1 DEF Unused, Client

(* The requests of k are rejected, and nobody else is on its connection.   *)
LEMMA AnswerLeaves ==
    ASSUME AnswerInv, RuntimeInv, NEW k \in Clients, Disconnect(k)
    PROVE  AnswerInv'
<1> DEFINE c == client[k].conn
<1>1. /\ c # 0 /\ client' = [client EXCEPT ![k] = Unused] /\ pending' = {r \in pending : r.client # k}
      /\ toClient' = [toClient EXCEPT ![c] = <<>>]
      /\ UNCHANGED <<lastRequest, toServer, stage, closed, handshake, tasks, revision, broadcast, closing>>
  BY DEF Disconnect, connVars, serverVars, sessions, publisher
<1>2. Sent /\ Working /\ Owned /\ Asked /\ ResponseUnderWay
  BY DEF AnswerInv
<1>3. c \in Conns
  BY <1>1, <1>2, ConnOf
<1>4. /\ client'[k] = Unused /\ \A j \in Clients : j # k => client'[j] = client[j] /\ client[j].conn # c
  BY <1>1, <1>2 DEF Owned
<1> HIDE DEF c
<1>5. Owned'
  <2>1. client' \in [Clients -> Client]
    BY <1>1, <1>2, UnusedType DEF Owned
  <2>2. \A j \in Clients : /\ client'[j].connected => client'[j].conn # 0
                           /\ client'[j].conn # 0 => stage'[client'[j].conn] # "none"
    BY <1>1, <1>2, <1>4, UnusedType DEF Owned
  <2>3. \A i, j \in Clients : client'[i].conn = client'[j].conn /\ client'[i].conn # 0 => i = j
    BY <1>2, <1>4, UnusedType DEF Owned
  <2> QED BY <2>1, <2>2, <2>3, <1>1, <1>2 DEF Owned
<1>6. toClient' \in [Conns -> Seq(Message)] /\ \A d \in Conns \ {c} : toClient'[d] = toClient[d]
  <2>1. <<>> \in Seq(Message)
    OBVIOUS
  <2> QED BY <2>1, <1>1, <1>2, <1>3 DEF Sent
<1>7. Sent' /\ Working'
  BY <1>1, <1>2, <1>6 DEF Sent, Working
<1>8. \A r \in pending' : /\ r \in pending /\ r.client \in Clients /\ client'[r.client] = client[r.client]
                          /\ client[r.client].conn \in Conns \ {c}
  <2> SUFFICES ASSUME NEW r \in pending' PROVE /\ r \in pending /\ r.client \in Clients /\ client'[r.client] = client[r.client]
                          /\ client[r.client].conn \in Conns \ {c}
    OBVIOUS
  <2>1. r \in pending /\ r.client # k
    BY <1>1
  <2>2. r.client \in Clients /\ client[r.client].conn \in Conns
    BY <1>2, <2>1, PendingFacts
  <2> QED BY <2>1, <2>2, <1>4
<1>9. Asked'
  <2>1. \A r \in pending' : r.id <= lastRequest' /\ client'[r.client].connected /\ r \in Request
    BY <1>1, <1>2, <1>8 DEF Asked
  <2>2. \A r, s \in pending' : r.id = s.id => r = s
    BY <1>2, <1>8 DEF Asked
  <2>3. \A r \in pending', d \in Conns : \A q \in ToSet(toServer'[d]) : q.id = r.id => client'[r.client].conn = d
    BY <1>1, <1>2, <1>8 DEF Asked
  <2>4. \A r \in pending', t \in tasks' : t.id = r.id => client'[r.client].conn = t.conn
    BY <1>1, <1>2, <1>8 DEF Asked
  <2> QED BY <2>1, <2>2, <2>3, <2>4 DEF Asked
<1>10. ASSUME NEW r \in pending', NEW d, d = client'[r.client].conn
       PROVE  ~Open(d)' \/ r \in ToSet(toServer'[d]) \/ InHand(r.id)' \/ HasAnswer(d, r.id)'
  <2>1. r \in pending /\ d = client[r.client].conn /\ d \in Conns \ {c}
    BY <1>8, <1>10
  <2>2. ~Open(d) \/ r \in ToSet(toServer[d]) \/ InHand(r.id) \/ HasAnswer(d, r.id)
    BY <1>2, <2>1 DEF ResponseUnderWay, InHand, HasAnswer
  <2>3. /\ Open(d) <=> Open(d)'
        /\ InHand(r.id) <=> InHand(r.id)'
        /\ HasAnswer(d, r.id) <=> HasAnswer(d, r.id)'
    BY <1>1, <1>6, <2>1 DEF Open, InHand, HasAnswer
  <2> QED BY <1>1, <2>2, <2>3
<1>11. ResponseUnderWay'
  BY <1>10 DEF ResponseUnderWay, InHand, HasAnswer
<1> QED BY <1>5, <1>7, <1>9, <1>11 DEF AnswerInv

(* Nothing of k was pending, and nobody is on c.                           *)
LEMMA AnswerConnects ==
    ASSUME AnswerInv, RuntimeInv, NEW k \in Clients, NEW c \in Conns, Connect(k, c)
    PROVE  AnswerInv'
<1> DEFINE u == [Unused EXCEPT !.conn = c]
<1>1. /\ client[k].conn = 0 /\ client' = [client EXCEPT ![k] = u]
      /\ stage[c] = "none" /\ ~closing /\ stage' = [stage EXCEPT ![c] = "handshaking"]
      /\ handshake' = [handshake EXCEPT ![c] = [revision |-> revision, made |-> FALSE, attached |-> FALSE]]
      /\ UNCHANGED <<pending, lastRequest, toServer, toClient, closed, tasks, revision, broadcast, closing>>
  BY DEF Connect, Accept, wires, serverVars, sessions, publisher
<1>2. Sent /\ Working /\ Owned /\ Asked /\ ResponseUnderWay
      /\ stage \in [Conns -> {"none", "handshaking", "ready", "closed"}]
  BY DEF AnswerInv, RuntimeInv, Shape
<1>3. u \in Client /\ u.conn = c /\ u.connected = FALSE /\ c # 0
  <2>1. c \in 0..MaxConnects /\ c # 0
    BY RemoteAssumption DEF Conns
  <2>2. Unused \in Client /\ Unused.connected = FALSE
    BY UnusedType DEF Unused
  <2>3. u.connected = FALSE
    BY <2>2 DEF Client
  <2>4. u \in Client /\ u.conn = c
    BY <2>1, <2>2 DEF Client
  <2> QED BY <2>1, <2>3, <2>4
<1> HIDE DEF u
<1>4. client'[k] = u /\ \A j \in Clients : j # k => client'[j] = client[j]
  BY <1>1, <1>2 DEF Owned
<1>5. stage'[c] = "handshaking" /\ \A d \in Conns \ {c} : stage'[d] = stage[d] /\ handshake'[d] = handshake[d]
  BY <1>1, <1>2 DEF Sent
<1>6. \A j \in Clients : client[j].conn # 0 => client[j].conn \in Conns \ {c}
  BY <1>1, <1>2, ConnOf DEF Owned
<1>7. Owned'
  <2>1. client' \in [Clients -> Client]
    BY <1>1, <1>2, <1>3 DEF Owned
  <2>2. \A j \in Clients : /\ client'[j].connected => client'[j].conn # 0
                           /\ client'[j].conn # 0 => stage'[client'[j].conn] # "none"
    BY <1>1, <1>2, <1>3, <1>4, <1>5, <1>6 DEF Owned
  <2>3. \A i, j \in Clients : client'[i].conn = client'[j].conn /\ client'[i].conn # 0 => i = j
    BY <1>2, <1>3, <1>4, <1>6 DEF Owned
  <2> QED BY <2>1, <2>2, <2>3, <1>1, <1>2 DEF Owned
<1>8. Sent' /\ Working'
  <2>1. [revision |-> revision, made |-> FALSE, attached |-> FALSE] \in Making
    BY <1>2 DEF Making, Sent
  <2>2. handshake' \in [Conns -> Making \cup {None}] /\ handshake'[c] \in Making
    BY <2>1, <1>1, <1>2 DEF Sent
  <2>3. \A d \in Conns : stage'[d] = "handshaking" => handshake'[d] \in Making
    BY <2>2, <1>2, <1>5 DEF Sent
  <2> QED BY <2>2, <2>3, <1>1, <1>2 DEF Sent, Working
<1>9. \A r \in pending : /\ r.client \in Clients /\ client'[r.client] = client[r.client]
                         /\ client[r.client].conn \in Conns \ {c}
  <2> SUFFICES ASSUME NEW r \in pending PROVE /\ r.client \in Clients /\ client'[r.client] = client[r.client]
                                              /\ client[r.client].conn \in Conns \ {c}
    OBVIOUS
  <2>1. r.client \in Clients /\ client[r.client].connected /\ client[r.client].conn \in Conns
    BY <1>2, PendingFacts
  <2>2. r.client # k
    BY <2>1, <1>1, <1>2 DEF Owned
  <2> QED BY <2>1, <2>2, <1>1, <1>2, <1>4 DEF Owned
<1>10. Asked'
  <2>1. \A r \in pending' : client'[r.client].conn = client[r.client].conn /\ client'[r.client].connected = client[r.client].connected
    BY <1>1, <1>9
  <2> QED BY <1>1, <1>2, <2>1 DEF Asked
<1>11. ASSUME NEW r \in pending', NEW d, d = client'[r.client].conn
       PROVE  ~Open(d)' \/ r \in ToSet(toServer'[d]) \/ InHand(r.id)' \/ HasAnswer(d, r.id)'
  <2>1. r \in pending /\ d = client[r.client].conn /\ d \in Conns \ {c}
    BY <1>1, <1>9, <1>11
  <2>2. ~Open(d) \/ r \in ToSet(toServer[d]) \/ InHand(r.id) \/ HasAnswer(d, r.id)
    BY <1>2, <2>1 DEF ResponseUnderWay, InHand, HasAnswer
  <2>3. /\ Open(d) <=> Open(d)'
        /\ InHand(r.id) <=> InHand(r.id)'
        /\ HasAnswer(d, r.id) <=> HasAnswer(d, r.id)'
    BY <1>1, <1>5, <2>1 DEF Open, InHand, HasAnswer
  <2> QED BY <1>1, <2>2, <2>3
<1>12. ResponseUnderWay'
  BY <1>11 DEF ResponseUnderWay, InHand, HasAnswer
<1> QED BY <1>7, <1>8, <1>10, <1>12 DEF AnswerInv

(* The calls of the users: what is pending stays, and may be joined.       *)
LEMMA AsksSends ==
    ASSUME NEW k \in Clients, NEW state, NEW p, client[k].connected, Asks(k, state, p)
    PROVE  Sends(k, p)
BY DEF Asks, Sends

LEMMA ReservedType ==
    ASSUME NEW cl \in Client, NEW l \in Leases \cup {None}, NEW mode
    PROVE  /\ Reserved(cl, l, mode) \in Client /\ Reserved(cl, l, mode).conn = cl.conn
           /\ Reserved(cl, l, mode).connected = cl.connected
<1> DEFINE n == cl.count + 1
           e == IF mode = "exclusive" THEN l ELSE cl.exclusive
<1>1. n \in Nat /\ e \in Leases \cup {None}
  BY DEF Client
<1>2. Reserved(cl, l, mode) = [cl EXCEPT !.count = n, !.exclusive = e]
  BY DEF Reserved
<1> HIDE DEF n, e
<1> QED BY <1>1, <1>2 DEF Client

LEMMA ReleasedType ==
    ASSUME NEW cl \in Client, NEW ls \in SUBSET Leases
    PROVE  /\ Released(cl, ls) \in Client /\ Released(cl, ls).conn = cl.conn
           /\ Released(cl, ls).connected = cl.connected
<1> DEFINE n == IF cl.count > Cardinality(ls) THEN cl.count - Cardinality(ls) ELSE 0
           e == IF cl.exclusive \in ls THEN None ELSE cl.exclusive
<1>1. Cardinality(ls) \in Nat
  BY RemoteAssumption, FS_Subset, FS_CardinalityType
<1>2. n \in Nat /\ e \in Leases \cup {None}
  BY <1>1 DEF Client
<1>3. Released(cl, ls) = [cl EXCEPT !.count = n, !.exclusive = e]
  BY DEF Released
<1> HIDE DEF n, e
<1> QED BY <1>2, <1>3 DEF Client

(* A call of the user of lease l's client.                                 *)
LEMMA CallStep ==
    ASSUME AnswerInv, RuntimeInv, UNCHANGED <<stage, closed, handshake, tasks, revision, broadcast, closing, toClient>>,
           NEW k \in Clients, client[k].connected, NEW cl \in Client, client' = [client EXCEPT ![k] = cl],
           cl.conn = client[k].conn, cl.connected = client[k].connected, Sends(k, pending)
    PROVE  AnswerInv'
<1>1. Sent /\ Owned
  BY DEF AnswerInv
<1>2. toClient' \in [Conns -> Seq(Message)] /\ client[k].conn # 0
  BY <1>1 DEF Sent, Owned
<1>3. \A r \in pending, c \in Conns : c = client[r.client].conn /\ HasAnswer(c, r.id) => HasAnswer(c, r.id)'
  BY DEF HasAnswer
<1> QED BY <1>2, <1>3, ClientStep

LEMMA SameClient ==
    ASSUME Owned, NEW k \in Clients
    PROVE  client[k] \in Client /\ client = [client EXCEPT ![k] = client[k]]
BY DEF Owned

LEMMA AnswerUser ==
    ASSUME AnswerInv, RuntimeInv, Users
    PROVE  AnswerInv'
<1>1. Owned
  BY DEF AnswerInv
<1>2. ASSUME NEW l \in Leases, NEW cmd \in {"create", "op"}, Connected(OwnerOf(l)),
             Requested(OwnerOf(l), cmd, l, pending), UNCHANGED <<client, toClient, connVars, serverVars>>
      PROVE  AnswerInv'
  <2>1. OwnerOf(l) \in Clients
    BY RemoteAssumption
  <2>2. UNCHANGED <<stage, closed, handshake, tasks, revision, broadcast, closing>>
    BY <1>2 DEF connVars, serverVars, sessions, publisher
  <2>3. Sends(OwnerOf(l), pending)
    BY <1>2 DEF Sends, Connected
  <2>4. client[OwnerOf(l)] \in Client /\ client' = [client EXCEPT ![OwnerOf(l)] = client[OwnerOf(l)]]
    BY <1>1, <1>2, <2>1, SameClient
  <2> QED BY <1>2, <2>1, <2>2, <2>3, <2>4, CallStep DEF Connected
<1>3. ASSUME NEW l \in Leases, createSession(l) \/ request(l) PROVE AnswerInv'
  BY <1>2, <1>3 DEF createSession, request, Usable
<1>4. ASSUME NEW l \in Leases, NEW mode \in {"shared", "exclusive"}, acquireSession(l, mode) PROVE AnswerInv'
  <2> DEFINE k == OwnerOf(l)
             cl == Reserved(client[k], l, mode)
  <2>1. k \in Clients
    BY RemoteAssumption
  <2>2. /\ client[k].connected /\ \E state : Asks(k, state, pending)
        /\ client' = [client EXCEPT ![k] = cl]
    BY <1>4 DEF acquireSession, Connected
  <2>3. UNCHANGED <<stage, closed, handshake, tasks, revision, broadcast, closing, toClient>>
    BY <1>4 DEF acquireSession, connVars, sessions, publisher
  <2>4. cl \in Client /\ cl.conn = client[k].conn /\ cl.connected = client[k].connected
    BY <1>1, <2>1, ReservedType, SameClient
  <2> HIDE DEF k, cl
  <2>5. Sends(k, pending)
    BY <2>1, <2>2, AsksSends
  <2> QED BY <2>1, <2>2, <2>3, <2>4, <2>5, CallStep
<1>5. ASSUME NEW l \in Leases, NEW how \in {"detaching", "disposing"}, release(l, how) PROVE AnswerInv'
  <2> DEFINE k == OwnerOf(l)
  <2>1. k \in Clients
    BY RemoteAssumption
  <2>2. client[k].connected /\ UNCHANGED <<stage, closed, handshake, tasks, revision, broadcast, closing, toClient>>
    BY <1>5 DEF release, connVars, serverVars, sessions, publisher, Usable, Connected
  <2>3. \/ client' = client /\ Requested(k, "detach", l, pending)
        \/ /\ client' = [client EXCEPT ![k] = Released(client[k], {l})]
           /\ pending' = pending /\ UNCHANGED <<toServer, lastRequest>>
    BY <1>5 DEF release
  <2> HIDE DEF k
  <2>4. Sends(k, pending)
    BY <2>2, <2>3 DEF Sends
  <2>5. CASE client' = client
    BY <2>1, <2>2, <2>4, <2>5, <1>1, SameClient, CallStep
  <2>6. CASE client' = [client EXCEPT ![k] = Released(client[k], {l})]
    <3>1. PICK cl : cl = Released(client[k], {l})
      OBVIOUS
    <3>2. cl \in Client /\ cl.conn = client[k].conn /\ cl.connected = client[k].connected
      BY <3>1, <1>1, <2>1, ReleasedType, SameClient
    <3> QED BY <2>1, <2>2, <2>4, <2>6, <3>1, <3>2, CallStep
  <2> QED BY <2>3, <2>5, <2>6
<1> QED BY <1>3, <1>4, <1>5, AnswerLeaves, AnswerConnects DEF Users

-----------------------------------------------------------------------------
(* What a client receives.                                                 *)

LEMMA ReceivesFacts ==
    ASSUME AnswerInv, NEW k \in Clients, NEW m, Receives(k, m)
    PROVE  /\ client[k] \in Client /\ client[k].conn # 0 /\ m \in Message
           /\ toClient' \in [Conns -> Seq(Message)]
           /\ UNCHANGED <<stage, closed, handshake, tasks, revision, broadcast, closing>>
           /\ \A r \in pending, c \in Conns :
                  c = client[r.client].conn /\ ~(m.type = "response" /\ r.id = m.id) /\ HasAnswer(c, r.id)
                  => HasAnswer(c, r.id)'
<1> DEFINE c == client[k].conn
<1>1. Sent /\ Owned /\ Asked
  BY DEF AnswerInv
<1>2. /\ c # 0 /\ toClient[c] # <<>> /\ m = Head(toClient[c]) /\ toClient' = [toClient EXCEPT ![c] = Tail(@)]
      /\ UNCHANGED <<stage, closed, handshake, tasks, revision, broadcast, closing>>
  BY DEF Receives, connVars, serverVars, sessions, publisher
<1>3. c \in Conns /\ client[k] \in Client
  BY <1>1, <1>2, ConnOf
<1> HIDE DEF c
<1>4. toClient[c] \in Seq(Message) /\ toClient'[c] = Tail(toClient[c])
      /\ \A d \in Conns \ {c} : toClient'[d] = toClient[d]
  BY <1>1, <1>2, <1>3 DEF Sent
<1>5. m \in Message /\ Tail(toClient[c]) \in Seq(Message) /\ ToSet(toClient[c]) = {m} \cup ToSet(toClient'[c])
  BY <1>2, <1>4, TailFacts
<1>6. toClient' \in [Conns -> Seq(Message)]
  BY <1>1, <1>2, <1>3, <1>5 DEF Sent
<1>7. ASSUME NEW r \in pending, NEW d, d = client[r.client].conn, ~(m.type = "response" /\ r.id = m.id),
             HasAnswer(d, r.id)
      PROVE  HasAnswer(d, r.id)'
  <2>1. d \in Conns
    BY <1>1, <1>7, PendingFacts
  <2>2. PICK x \in ToSet(toClient[d]) : x.type = "response" /\ x.id = r.id
    BY <1>7 DEF HasAnswer
  <2>3. x \in ToSet(toClient'[d])
    BY <1>4, <1>5, <1>7, <2>1, <2>2
  <2> QED BY <2>2, <2>3 DEF HasAnswer
<1>8. \A r \in pending, d \in Conns :
          d = client[r.client].conn /\ ~(m.type = "response" /\ r.id = m.id) /\ HasAnswer(d, r.id)
          => HasAnswer(d, r.id)'
  BY <1>7
<1>9. client[k].conn # 0
  BY <1>2 DEF c
<1> QED BY <1>2, <1>3, <1>5, <1>6, <1>8, <1>9

LEMMA AnswerReceiveEvent ==
    ASSUME AnswerInv, RuntimeInv, NEW k \in Clients, ReceiveEvent(k)
    PROVE  AnswerInv'
<1>1. PICK m : /\ m.type # "response" /\ Receives(k, m)
               /\ client' = [client EXCEPT ![k] =
                      IF m.type = "session" THEN [@ EXCEPT !.attached = TRUE]
                      ELSE [applyServerSnapshot(@, m) EXCEPT !.connected = TRUE]]
               /\ UNCHANGED <<pending, lastRequest, toServer>>
  BY DEF ReceiveEvent
<1>2. /\ client[k] \in Client /\ client[k].conn # 0 /\ m \in Message
      /\ toClient' \in [Conns -> Seq(Message)]
      /\ UNCHANGED <<stage, closed, handshake, tasks, revision, broadcast, closing>>
      /\ \A r \in pending, c \in Conns : c = client[r.client].conn /\ HasAnswer(c, r.id) => HasAnswer(c, r.id)'
  BY <1>1, ReceivesFacts
<1>3. PICK cl : cl = IF m.type = "session" THEN [client[k] EXCEPT !.attached = TRUE]
                     ELSE [applyServerSnapshot(client[k], m) EXCEPT !.connected = TRUE]
  OBVIOUS
<1>4. client' = [client EXCEPT ![k] = cl]
  BY <1>1, <1>3
<1>5. cl \in Client /\ cl.conn = client[k].conn /\ (client[k].connected => cl.connected)
  <2>1. CASE m.type = "session"
    BY <1>2, <1>3, <2>1 DEF Client
  <2>2. CASE m.type # "session"
    <3>1. m.revision \in Nat /\ m.attached \in BOOLEAN
      BY <1>1, <1>2, <2>2 DEF Message
    <3>2. PICK s : s = applyServerSnapshot(client[k], m)
      OBVIOUS
    <3>3. s \in Client /\ s.conn = client[k].conn
      BY <3>1, <3>2, <1>2 DEF applyServerSnapshot, Client
    <3>4. cl = [s EXCEPT !.connected = TRUE]
      BY <3>2, <1>3, <2>2
    <3> QED BY <3>3, <3>4 DEF Client
  <2> QED BY <2>1, <2>2
<1>6. Sends(k, pending)
  BY <1>1 DEF Sends
<1> QED BY <1>2, <1>4, <1>5, <1>6, ClientStep

(* What the five cases of a response have in common.                       *)
LEMMA ResponseStep ==
    ASSUME AnswerInv, RuntimeInv, NEW k \in Clients, NEW r \in pending, NEW m, Answered(k, r, m),
           NEW cl \in Client, client' = [client EXCEPT ![k] = cl], cl.conn = client[k].conn,
           cl.connected = client[k].connected, Sends(k, pending \ {r})
    PROVE  AnswerInv'
<1>1. Receives(k, m) /\ r.client = k /\ r.id = m.id /\ Asked /\ Owned
  BY DEF Answered, AnswerInv
<1>2. \A q \in pending \ {r} : q \in pending /\ q.id # m.id
  BY <1>1 DEF Asked
<1>3. client[k].connected
  BY <1>1 DEF Asked
<1>4. /\ client[k].conn # 0 /\ toClient' \in [Conns -> Seq(Message)]
      /\ UNCHANGED <<stage, closed, handshake, tasks, revision, broadcast, closing>>
      /\ \A q \in pending \ {r}, c \in Conns : c = client[q.client].conn /\ HasAnswer(c, q.id) => HasAnswer(c, q.id)'
  BY <1>1, <1>2, ReceivesFacts
<1> QED BY <1>3, <1>4, ClientStep

(* What a response changes of the client.                                  *)
LEMMA ResponseChanges ==
    ASSUME AnswerInv, NEW k \in Clients, NEW r \in pending, NEW m, Answered(k, r, m),
           \/ ReceiveCreated(k, r, m) \/ ReceiveDone(k, r, m) \/ ReceiveAttached(k, r, m)
           \/ ReceiveDetached(k, r, m) \/ ReceiveReconciled(k, r, m)
    PROVE  \E cl \in Client : /\ client' = [client EXCEPT ![k] = cl] /\ cl.conn = client[k].conn
                              /\ cl.connected = client[k].connected /\ Sends(k, pending \ {r})
<1> DEFINE Goal == \E cl \in Client : /\ client' = [client EXCEPT ![k] = cl] /\ cl.conn = client[k].conn
                                      /\ cl.connected = client[k].connected /\ Sends(k, pending \ {r})
<1>1. r \in Request /\ client[k].connected /\ client[k] \in Client /\ m \in Message
  <2>1. r \in Request /\ client[k].connected /\ Receives(k, m)
    BY DEF Answered, AnswerInv, Asked
  <2> QED BY <2>1, ReceivesFacts
<1>2. m.ok \in BOOLEAN /\ m.attached \in BOOLEAN
  BY <1>1 DEF Answered, Message
<1>3. r.lease \in Leases \cup {None}
  BY <1>1 DEF Request
<1>4. pending' = pending \ {r} /\ UNCHANGED <<lastRequest, toServer>> => Sends(k, pending \ {r})
  BY DEF Sends
<1>5. \A ls \in SUBSET Leases : /\ Released(client[k], ls) \in Client
                                /\ Released(client[k], ls).conn = client[k].conn
                                /\ Released(client[k], ls).connected = client[k].connected
  BY <1>1, ReleasedType
<1>6. ASSUME ReceiveCreated(k, r, m) PROVE Goal
  <2> DEFINE cl == [client[k] EXCEPT !.attached = IF m.ok THEN m.attached ELSE @]
  <2>1. cl \in Client /\ cl.conn = client[k].conn /\ cl.connected = client[k].connected
    BY <1>1, <1>2 DEF Client
  <2>2. \/ client' = [client EXCEPT ![k] = cl]
        \/ client' = [client EXCEPT ![k] = Reserved(cl, r.lease, "exclusive")]
    BY <1>6 DEF ReceiveCreated
  <2> HIDE DEF cl
  <2>3. PICK x \in Client : client' = [client EXCEPT ![k] = x] /\ x.conn = client[k].conn
                            /\ x.connected = client[k].connected
    BY <2>1, <2>2, <1>3, ReservedType
  <2>4. Sends(k, pending \ {r})
    BY <1>4, <1>6 DEF ReceiveCreated
  <2> QED BY <2>3, <2>4
<1>7. ASSUME ReceiveDone(k, r, m) PROVE Goal
  <2>1. PICK cl : cl = [client[k] EXCEPT !.attached = IF m.ok THEN m.attached ELSE @]
    OBVIOUS
  <2>2. cl \in Client /\ cl.conn = client[k].conn /\ cl.connected = client[k].connected
    BY <2>1, <1>1, <1>2 DEF Client
  <2>3. client' = [client EXCEPT ![k] = cl] /\ Sends(k, pending \ {r})
    BY <2>1, <1>4, <1>7 DEF ReceiveDone
  <2> QED BY <2>2, <2>3
<1>8. ASSUME ReceiveAttached(k, r, m) PROVE Goal
  <2>1. PICK cl : cl = IF m.ok THEN [client[k] EXCEPT !.attached = m.attached]
                       ELSE Released(client[k], In(k, {"attaching"}))
    OBVIOUS
  <2>2. In(k, {"attaching"}) \subseteq Leases
    BY DEF In, Of
  <2>3. cl \in Client /\ cl.conn = client[k].conn /\ cl.connected = client[k].connected
    <3>1. CASE m.ok
      BY <2>1, <3>1, <1>1, <1>2 DEF Client
    <3>2. CASE ~m.ok
      BY <2>1, <2>2, <3>2, <1>5
    <3> QED BY <3>1, <3>2
  <2>4. client' = [client EXCEPT ![k] = cl] /\ Sends(k, pending \ {r})
    BY <2>1, <1>4, <1>8 DEF ReceiveAttached
  <2> QED BY <2>3, <2>4
<1>9. ASSUME ReceiveDetached(k, r, m) PROVE Goal
  <2> DEFINE again == ~m.ok /\ lease[r.lease].state = "detaching"
  <2>1. PICK cl : cl = [client[k] EXCEPT !.attached = @ /\ ~m.ok, !.cleanup = @ \/ (~m.ok /\ ~again)]
    OBVIOUS
  <2>2. r.lease \in Leases
    BY <1>3, <1>9 DEF ReceiveDetached
  <2>3. cl \in Client /\ cl.conn = client[k].conn /\ cl.connected = client[k].connected
    BY <2>1, <1>1, <1>2 DEF Client
  <2>4. \/ client' = [client EXCEPT ![k] = cl]
        \/ client' = [client EXCEPT ![k] = Released(cl, {r.lease})]
    BY <2>1, <1>9 DEF ReceiveDetached
  <2>5. PICK x \in Client : client' = [client EXCEPT ![k] = x] /\ x.conn = client[k].conn
                            /\ x.connected = client[k].connected
    BY <2>2, <2>3, <2>4, ReleasedType
  <2>6. \E state : Asks(k, state, pending \ {r})
    BY <1>9 DEF ReceiveDetached
  <2>7. Sends(k, pending \ {r})
    BY <2>6, <1>1, AsksSends
  <2> QED BY <2>5, <2>7
<1>10. ASSUME ReceiveReconciled(k, r, m) PROVE Goal
  <2>1. PICK cl : cl = IF m.ok THEN [client[k] EXCEPT !.attached = FALSE, !.cleanup = FALSE]
                       ELSE Released(client[k], In(k, {"reconciling"}))
    OBVIOUS
  <2>2. In(k, {"reconciling"}) \subseteq Leases
    BY DEF In, Of
  <2>3. cl \in Client /\ cl.conn = client[k].conn /\ cl.connected = client[k].connected
    <3>1. CASE m.ok
      BY <2>1, <3>1, <1>1, <1>2 DEF Client
    <3>2. CASE ~m.ok
      BY <2>1, <2>2, <3>2, <1>5
    <3> QED BY <3>1, <3>2
  <2>4. client' = [client EXCEPT ![k] = cl] /\ \E state : Asks(k, state, pending \ {r})
    BY <2>1, <1>10 DEF ReceiveReconciled
  <2>5. Sends(k, pending \ {r})
    BY <2>4, <1>1, AsksSends
  <2> QED BY <2>3, <2>4, <2>5
<1> QED BY <1>6, <1>7, <1>8, <1>9, <1>10

LEMMA AnswerReceiveResponse ==
    ASSUME AnswerInv, RuntimeInv, NEW k \in Clients, ReceiveResponse(k)
    PROVE  AnswerInv'
BY ResponseChanges, ResponseStep DEF ReceiveResponse

-----------------------------------------------------------------------------
LEMMA AnswerInit ==
    ASSUME Init
    PROVE  AnswerInv
<1>1. /\ toServer = [c \in Conns |-> <<>>] /\ toClient = [c \in Conns |-> <<>>] /\ stage = [c \in Conns |-> "none"]
      /\ closed = {} /\ handshake = [c \in Conns |-> None] /\ tasks = {} /\ revision = 0 /\ broadcast = None
      /\ closing = FALSE /\ client = [k \in Clients |-> Unused] /\ pending = {} /\ lastRequest = 0
  BY DEF Init, ServerInit
<1>2. Sent
  <2>1. <<>> \in Seq(Message)
    OBVIOUS
  <2> QED BY <1>1, <2>1 DEF Sent
<1>3. Working
  BY <1>1, FS_EmptySet DEF Working
<1>4. Owned
  BY <1>1, UnusedType DEF Owned
<1>5. Asked /\ ResponseUnderWay
  BY <1>1 DEF Asked, ResponseUnderWay
<1> QED BY <1>2, <1>3, <1>4, <1>5 DEF AnswerInv

LEMMA AnswerNext ==
    ASSUME AnswerInv, RuntimeInv, [Next]_vars
    PROVE  AnswerInv'
<1>1. CASE UNCHANGED vars
  <2>1. UNCHANGED <<client, pending, lastRequest, toServer, toClient, tasks, stage, closed, handshake, revision,
                    broadcast, closing>>
    BY <1>1 DEF vars, clientVars, wires, connVars, serverVars, sessions, publisher
  <2> QED BY <2>1 DEF AnswerInv, Sent, Working, Owned, Asked, ResponseUnderWay, Open
<1>2. CASE Next
  <2>1. ASSUME Arrival PROVE AnswerInv'
    BY <2>1, AnswerReceiveEvent, AnswerReceiveResponse, AnswerLeaves, AnswerDispatch DEF Arrival, Receive
  <2> QED BY <1>2, <2>1, AnswerBroadcast, AnswerUser, AnswerServer DEF Next
<1> QED BY <1>1, <1>2

LEMMA AnswersAreInvariant == Spec => []AnswerInv
<1>1. Init => AnswerInv
  BY AnswerInit
<1>2. AnswerInv /\ (RuntimeInv /\ closed \subseteq Conns) /\ [Next]_vars => AnswerInv'
  BY AnswerNext
<1> QED BY <1>1, <1>2, RuntimeIsInvariant, PTL DEF Spec

(* No request is lost: what a client waits for is under way to the server, *)
(* in its hands, or answered, through disposals, failing runtimes, broken  *)
(* connections and close(), as long as the connection is open.             *)
THEOREM EveryRequestIsAnswered == Spec => []ResponseUnderWay
<1>1. AnswerInv => ResponseUnderWay
  BY DEF AnswerInv
<1> QED BY <1>1, AnswersAreInvariant, PTL

-----------------------------------------------------------------------------
(* The leases: a client counts what it holds, and a request that asks for  *)
(* a lease, or gives it back, is the only one of that lease.               *)

Held(k) == {l \in Of(k) : lease[l].state \notin {"free", "creating"}}

Tidy(k) ==
    /\ client[k].count = Cardinality(Held(k))
    /\ client[k].exclusive # None => Held(k) = {client[k].exclusive}
    /\ \A l \in Held(k) : lease[l].mode = "exclusive" => client[k].exclusive = l

Engages(r) == r.cmd \in {"create", "detach"} /\ r.lease # None
Engaged ==
    /\ \A r \in pending : r.cmd = "create" => r.lease # None
    /\ \A r \in pending : Engages(r) =>
           /\ r.lease \in Leases /\ OwnerOf(r.lease) = r.client
           /\ lease[r.lease].state \in IF r.cmd = "create" THEN {"creating"} ELSE {"detaching", "disposing"}
    /\ \A r, s \in pending : Engages(r) /\ Engages(s) /\ r.lease = s.lease => r = s

LeaseInv ==
    /\ lease \in [Leases -> [state : LeaseStates, mode : {"shared", "exclusive"}]]
    /\ \A k \in Clients : Tidy(k) /\ (client[k].conn = 0 => client[k].count = 0 /\ client[k].exclusive = None)
    /\ Engaged

LEMMA HeldFacts ==
    ASSUME NEW k
    PROVE  /\ Held(k) \subseteq Leases /\ IsFiniteSet(Held(k)) /\ Cardinality(Held(k)) \in Nat
           /\ Cardinality(Held(k)) <= Cardinality(Leases) /\ Cardinality(Leases) \in Nat
<1>1. Held(k) \subseteq Leases
  BY DEF Held, Of
<1> QED BY <1>1, RemoteAssumption, FS_Subset, FS_CardinalityType

(* Leases of k are given back.                                             *)
LEMMA TidyReleased ==
    ASSUME NEW k, Tidy(k), NEW ls, ls \subseteq Held(k), Held(k)' = Held(k) \ ls,
           \A l \in Held(k)' : lease'[l].mode = lease[l].mode,
           NEW cl \in Client, cl.count = client[k].count, cl.exclusive = client[k].exclusive,
           client'[k] = Released(cl, ls)
    PROVE  Tidy(k)'
<1>1. /\ IsFiniteSet(Held(k)) /\ IsFiniteSet(ls) /\ Cardinality(Held(k)) \in Nat /\ Cardinality(ls) \in Nat
      /\ Cardinality(ls) <= Cardinality(Held(k))
  BY HeldFacts, FS_Subset, FS_CardinalityType
<1>2. Cardinality(Held(k) \ ls) = Cardinality(Held(k)) - Cardinality(ls)
  <2>1. Held(k) \cap ls = ls
    OBVIOUS
  <2> QED BY <2>1, <1>1, FS_Difference
<1>3. /\ client'[k].count = IF cl.count > Cardinality(ls) THEN cl.count - Cardinality(ls) ELSE 0
      /\ client'[k].exclusive = IF cl.exclusive \in ls THEN None ELSE cl.exclusive
  BY DEF Released, Client
<1>4. client'[k].count = Cardinality(Held(k)')
  BY <1>1, <1>2, <1>3 DEF Tidy
<1>5. client'[k].exclusive # None => Held(k)' = {client'[k].exclusive}
  <2> SUFFICES ASSUME client'[k].exclusive # None PROVE Held(k)' = {client'[k].exclusive}
    OBVIOUS
  <2>1. client'[k].exclusive = client[k].exclusive /\ client[k].exclusive \notin ls
    BY <1>3
  <2> QED BY <2>1 DEF Tidy
<1>6. \A l \in Held(k)' : lease'[l].mode = "exclusive" => client'[k].exclusive = l
  <2> SUFFICES ASSUME NEW l \in Held(k)', lease'[l].mode = "exclusive" PROVE client'[k].exclusive = l
    OBVIOUS
  <2>1. l \in Held(k) /\ l \notin ls /\ client[k].exclusive = l
    BY DEF Tidy
  <2> QED BY <2>1, <1>3
<1> QED BY <1>4, <1>5, <1>6 DEF Tidy

(* The leases of k stay.                                                   *)
LEMMA TidySame ==
    ASSUME NEW k, Tidy(k), Held(k)' = Held(k), \A l \in Held(k) : lease'[l].mode = lease[l].mode,
           client'[k].count = client[k].count, client'[k].exclusive = client[k].exclusive
    PROVE  Tidy(k)'
BY DEF Tidy

(* k has a lease more: the only one, or all are shared.                    *)
LEMMA TidyReserved ==
    ASSUME NEW k, Tidy(k), NEW l \in Leases, l \notin Held(k), Held(k)' = Held(k) \cup {l}, NEW mode,
           \A x \in Held(k) : lease'[x].mode = lease[x].mode, MayReserve(k, mode),
           mode = "exclusive" \/ lease'[l].mode = mode,
           NEW cl \in Client, cl.count = client[k].count, cl.exclusive = client[k].exclusive,
           client'[k] = Reserved(cl, l, mode)
    PROVE  Tidy(k)'
<1>1. IsFiniteSet(Held(k)) /\ Cardinality(Held(k)) \in Nat
  BY HeldFacts
<1>2. Cardinality(Held(k) \cup {l}) = Cardinality(Held(k)) + 1
  BY <1>1, FS_AddElement
<1>3. /\ client'[k].count = cl.count + 1
      /\ client'[k].exclusive = IF mode = "exclusive" THEN l ELSE cl.exclusive
  BY DEF Reserved, Client
<1>4. client'[k].count = Cardinality(Held(k)')
  BY <1>1, <1>2, <1>3 DEF Tidy
<1>5. CASE mode = "exclusive"
  <2>1. Cardinality(Held(k)) = 0
    BY <1>5 DEF Tidy, MayReserve
  <2>2. Held(k) = {}
    BY <2>1, <1>1, FS_EmptySet
  <2>3. Held(k)' = {l} /\ client'[k].exclusive = l
    BY <2>2, <1>3, <1>5
  <2> QED BY <1>4, <2>3 DEF Tidy
<1>6. CASE mode # "exclusive"
  <2>1. client[k].exclusive = None /\ client'[k].exclusive = None
    BY <1>3, <1>6 DEF MayReserve
  <2>2. ASSUME NEW x \in Held(k)' PROVE lease'[x].mode # "exclusive"
    <3>1. CASE x = l
      BY <3>1, <1>6
    <3>2. CASE x \in Held(k)
      <4>1. x # None
        BY <3>2, HeldFacts, RemoteAssumption
      <4> QED BY <4>1, <3>2, <2>1 DEF Tidy
    <3> QED BY <3>1, <3>2
  <2> QED BY <1>4, <2>1, <2>2 DEF Tidy
<1> QED BY <1>5, <1>6

(* A step of k that changes the leases cs, of which nothing stays pending, *)
(* and may send a request, of one of them or of none.                      *)
Engaging(cmd) == IF cmd = "create" THEN {"creating"} ELSE {"detaching", "disposing"}
Joins(k, p, cs) ==
    \/ pending' = p
    \/ \E cmd \in {"create", "attach", "detach", "op"}, l \in Leases \cup {None} :
           /\ Requested(k, cmd, l, p)
           /\ cmd = "create" => l # None
           /\ cmd \in {"create", "detach"} /\ l # None => l \in cs /\ lease'[l].state \in Engaging(cmd)

LEMMA LeaseStep ==
    ASSUME LeaseInv, Owned, NEW k \in Clients, NEW cs \in SUBSET Of(k),
           lease' \in [Leases -> [state : LeaseStates, mode : {"shared", "exclusive"}]],
           \A x \in Leases : x \notin cs => lease'[x] = lease[x],
           NEW cl, client' = [client EXCEPT ![k] = cl], Tidy(k)', cl.conn = 0 => cl.count = 0 /\ cl.exclusive = None,
           NEW p \in SUBSET pending, \A r \in p : Engages(r) => r.lease \notin cs, Joins(k, p, cs)
    PROVE  LeaseInv'
<1>1. Engaged /\ \A j \in Clients : Tidy(j)
  BY DEF LeaseInv
<1>2. ASSUME NEW j \in Clients
      PROVE  Tidy(j)' /\ (client'[j].conn = 0 => client'[j].count = 0 /\ client'[j].exclusive = None)
  <2>1. CASE j = k
    <3>1. client'[k] = cl
      BY DEF Owned
    <3> QED BY <2>1, <3>1
  <2>2. CASE j # k
    <3>1. client'[j] = client[j]
      BY <2>2 DEF Owned
    <3>2. \A x \in Of(j) : lease'[x] = lease[x]
      BY <2>2 DEF Of
    <3>3. Held(j)' = Held(j)
      BY <3>2 DEF Held, Of
    <3>4. \A x \in Held(j) : lease'[x] = lease[x]
      BY <3>2 DEF Held
    <3> QED BY <1>1, <3>1, <3>3, <3>4, TidySame DEF LeaseInv
  <2> QED BY <2>1, <2>2
<1>3. \A r \in p : r \in pending /\ (Engages(r) => r.lease \in Leases /\ lease'[r.lease] = lease[r.lease])
  BY <1>1 DEF Engaged
<1>4. CASE pending' = p
  <2>1. Engaged'
    BY <1>1, <1>3, <1>4 DEF Engaged, Engages
  <2> QED BY <1>2, <2>1 DEF LeaseInv
<1>5. ASSUME NEW cmd \in {"create", "attach", "detach", "op"}, NEW l \in Leases \cup {None},
             Requested(k, cmd, l, p), cmd = "create" => l # None,
             cmd \in {"create", "detach"} /\ l # None => l \in cs /\ lease'[l].state \in Engaging(cmd)
      PROVE  LeaseInv'
  <2>1. PICK n : pending' = p \cup {[id |-> n, cmd |-> cmd, lease |-> l, client |-> k]}
    BY <1>5 DEF Requested
  <2> DEFINE q == [id |-> n, cmd |-> cmd, lease |-> l, client |-> k]
  <2>2. q.cmd = cmd /\ q.lease = l /\ q.client = k /\ pending' = p \cup {q}
    BY <2>1
  <2> HIDE DEF q
  <2>3. \A r \in pending' : r.cmd = "create" => r.lease # None
    BY <1>1, <1>3, <1>5, <2>2 DEF Engaged
  <2>4. ASSUME NEW r \in pending', Engages(r)
        PROVE  r.lease \in Leases /\ OwnerOf(r.lease) = r.client /\ lease'[r.lease].state \in Engaging(r.cmd)
    <3>1. CASE r = q
      BY <3>1, <2>2, <2>4, <1>5 DEF Engages, Of
    <3>2. CASE r \in p
      BY <3>2, <2>4, <1>1, <1>3 DEF Engaged, Engaging
    <3> QED BY <3>1, <3>2, <2>2
  <2>5. ASSUME NEW r \in pending', NEW s \in pending', Engages(r), Engages(s), r.lease = s.lease
        PROVE  r = s
    <3>1. CASE r \in p /\ s \in p
      BY <3>1, <2>5, <1>1 DEF Engaged
    <3>2. Engages(q) => q.lease \in cs
      BY <2>2, <1>5 DEF Engages
    <3> QED BY <3>1, <3>2, <2>2, <2>5
  <2>6. Engaged'
    BY <2>3, <2>4, <2>5 DEF Engaged, Engages, Engaging
  <2> QED BY <1>2, <2>6 DEF LeaseInv
<1> QED BY <1>4, <1>5 DEF Joins

LEMMA AsksJoins ==
    ASSUME NEW k, NEW state, NEW p, NEW cs, Asks(k, state, p)
    PROVE  Joins(k, p, cs)
BY DEF Asks, Joins

(* What is not in a state of a request is not the lease of one.            *)
LEMMA NotEngaged ==
    ASSUME LeaseInv, NEW r \in pending, Engages(r), NEW x, lease[x].state \notin {"creating", "detaching", "disposing"}
    PROVE  r.lease # x
BY DEF LeaseInv, Engaged

(* The calls of the users.                                                 *)
LEMMA LeaseUser ==
    ASSUME LeaseInv, AnswerInv, NEW l \in Leases,
           \/ createSession(l) \/ request(l)
           \/ \E mode \in {"shared", "exclusive"} : acquireSession(l, mode)
           \/ \E how \in {"detaching", "disposing"} : release(l, how)
    PROVE  LeaseInv'
<1> DEFINE k == OwnerOf(l)
<1>1. k \in Clients /\ l \in Of(k)
  BY RemoteAssumption DEF Of
<1>2. Owned /\ Tidy(k) /\ lease \in [Leases -> [state : LeaseStates, mode : {"shared", "exclusive"}]]
      /\ client[k] \in Client /\ l # None
  BY <1>1, RemoteAssumption DEF AnswerInv, Owned, LeaseInv
<1>0. client[k].conn # 0
  <2>1. client[k].connected
    BY DEF createSession, request, acquireSession, release, Usable, Connected
  <2> QED BY <1>1, <1>2, <2>1 DEF Owned
<1>3. lease[l].state \notin {"creating", "detaching", "disposing"} =>
          \A r \in pending : Engages(r) => r.lease \notin {l}
  BY NotEngaged
<1>4. ASSUME createSession(l) PROVE LeaseInv'
  <2>1. /\ lease[l].state = "free" /\ client' = client /\ Requested(k, "create", l, pending)
        /\ lease' = [lease EXCEPT ![l] = [state |-> "creating", mode |-> "exclusive"]]
    BY <1>4 DEF createSession
  <2>2. /\ lease' \in [Leases -> [state : LeaseStates, mode : {"shared", "exclusive"}]]
        /\ \A x \in Leases : x \notin {l} => lease'[x] = lease[x]
        /\ lease'[l].state = "creating"
    BY <1>2, <2>1 DEF LeaseStates
  <2>3. Held(k)' = Held(k) /\ l \notin Held(k)
    BY <1>2, <2>1, <2>2 DEF Held, Of
  <2>4. \A x \in Held(k) : lease'[x].mode = lease[x].mode
    BY <2>2, <2>3, HeldFacts
  <2> HIDE DEF k
  <2>5. Tidy(k)'
    BY <2>1, <2>3, <2>4, <1>2, TidySame
  <2>6. Joins(k, pending, {l})
    BY <2>1, <2>2, <1>2 DEF Joins, Engaging
  <2>7. client' = [client EXCEPT ![k] = client[k]] /\ {l} \subseteq Of(k)
    BY <2>1, <1>1, <1>2, SameClient
  <2> QED BY <1>0, <1>1, <1>2, <1>3, <2>1, <2>2, <2>5, <2>6, <2>7, LeaseStep
<1>5. ASSUME request(l) PROVE LeaseInv'
  <2>1. client' = client /\ lease' = lease /\ Requested(k, "op", l, pending)
    BY <1>5 DEF request
  <2>0. PICK cs \in SUBSET Of(k) : cs = {}
    OBVIOUS
  <2>2. Joins(k, pending, cs)
    BY <2>1, <1>2 DEF Joins
  <2>3. Tidy(k)'
    BY <2>1, <1>2 DEF Tidy, Held
  <2> HIDE DEF k
  <2>4. client' = [client EXCEPT ![k] = client[k]]
    BY <2>1, <1>1, <1>2, SameClient
  <2>5. /\ lease' \in [Leases -> [state : LeaseStates, mode : {"shared", "exclusive"}]]
        /\ \A x \in Leases : x \notin cs => lease'[x] = lease[x]
        /\ \A r \in pending : Engages(r) => r.lease \notin cs
    BY <2>0, <2>1, <1>2
  <2> QED BY <1>0, <1>1, <1>2, <2>2, <2>3, <2>4, <2>5, LeaseStep
<1>6. ASSUME NEW mode \in {"shared", "exclusive"}, acquireSession(l, mode) PROVE LeaseInv'
  <2>1. PICK st \in {"waiting", "reconciling", "active", "attaching"} :
           /\ lease[l].state = "free" /\ MayReserve(k, mode) /\ client' = [client EXCEPT ![k] = Reserved(client[k], l, mode)]
           /\ lease' = [lease EXCEPT ![l] = [state |-> st, mode |-> mode]] /\ Asks(k, st, pending)
    BY <1>6 DEF acquireSession, Step
  <2>2. /\ lease' \in [Leases -> [state : LeaseStates, mode : {"shared", "exclusive"}]]
        /\ \A x \in Leases : x \notin {l} => lease'[x] = lease[x]
        /\ lease'[l].state = st /\ lease'[l].mode = mode
    BY <1>2, <2>1 DEF LeaseStates
  <2>3. l \notin Held(k) /\ Held(k)' = Held(k) \cup {l}
    BY <1>1, <1>2, <2>1, <2>2 DEF Held, Of
  <2>4. \A x \in Held(k) : lease'[x].mode = lease[x].mode
    BY <2>2, <2>3, HeldFacts
  <2> HIDE DEF k
  <2>5. client'[k] = Reserved(client[k], l, mode)
    BY <1>1, <1>2, <2>1 DEF Owned
  <2>6. Tidy(k)'
    BY <1>2, <2>1, <2>2, <2>3, <2>4, <2>5, TidyReserved
  <2>7. Joins(k, pending, {l}) /\ {l} \subseteq Of(k)
    BY <2>1, <1>1, AsksJoins
  <2>8. Reserved(client[k], l, mode).conn # 0
    BY <1>0, <1>2, ReservedType
  <2> QED BY <1>1, <1>2, <1>3, <2>1, <2>2, <2>6, <2>7, <2>8, LeaseStep
<1>7. ASSUME NEW how \in {"detaching", "disposing"}, release(l, how) PROVE LeaseInv'
  <2>1. lease[l].state = "active"
    BY <1>7 DEF release, Usable
  <2>2. l \in Held(k)
    BY <1>1, <2>1 DEF Held
  <2>3. CASE IsLast(k)
    <3>1. client' = client /\ lease' = Set({l}, how) /\ Requested(k, "detach", l, pending)
      BY <1>7, <2>3 DEF release
    <3>2. /\ lease' \in [Leases -> [state : LeaseStates, mode : {"shared", "exclusive"}]]
          /\ \A x \in Leases : (x \notin {l} => lease'[x] = lease[x]) /\ lease'[x].mode = lease[x].mode
          /\ lease'[l].state = how
      BY <1>2, <3>1 DEF LeaseStates, Set
    <3>3. Held(k)' = Held(k)
      BY <1>2, <2>1, <3>2 DEF Held, Of
    <3>4. \A x \in Held(k) : lease'[x].mode = lease[x].mode
      BY <3>2, HeldFacts
    <3> HIDE DEF k
    <3>5. Tidy(k)'
      BY <3>1, <3>3, <3>4, <1>2, TidySame
    <3>6. Joins(k, pending, {l})
      BY <3>1, <3>2, <1>2 DEF Joins, Engaging
    <3>7. client' = [client EXCEPT ![k] = client[k]] /\ {l} \subseteq Of(k)
      BY <3>1, <1>1, <1>2, SameClient
    <3> QED BY <1>0, <1>1, <1>2, <1>3, <2>1, <3>2, <3>5, <3>6, <3>7, LeaseStep
  <2>4. CASE ~IsLast(k)
    <3>1. /\ lease' = [lease EXCEPT ![l] = Free] /\ client' = [client EXCEPT ![k] = Released(client[k], {l})]
          /\ pending' = pending
      BY <1>7, <2>4 DEF release
    <3>2. /\ lease' \in [Leases -> [state : LeaseStates, mode : {"shared", "exclusive"}]]
          /\ \A x \in Leases : x \notin {l} => lease'[x] = lease[x]
          /\ lease'[l].state = "free"
      BY <1>2, <3>1 DEF LeaseStates, Free
    <3>3. Held(k)' = Held(k) \ {l}
      BY <1>2, <3>2 DEF Held, Of
    <3>4. \A x \in Held(k)' : lease'[x].mode = lease[x].mode
      BY <3>2, <3>3, HeldFacts
    <3> HIDE DEF k
    <3>5. client'[k] = Released(client[k], {l})
      BY <1>1, <1>2, <3>1 DEF Owned
    <3>6. Tidy(k)'
      BY <1>2, <2>2, <3>3, <3>4, <3>5, TidyReleased
    <3>7. Joins(k, pending, {l}) /\ {l} \subseteq Of(k)
      BY <3>1, <1>1 DEF Joins
    <3>8. Released(client[k], {l}).conn # 0
      BY <1>0, <1>2, ReleasedType
    <3> QED BY <1>1, <1>2, <1>3, <2>1, <3>1, <3>2, <3>6, <3>7, <3>8, LeaseStep
  <2> QED BY <2>3, <2>4
<1> QED BY <1>4, <1>5, <1>6, <1>7

LEMMA LeaseLeaves ==
    ASSUME LeaseInv, AnswerInv, NEW k \in Clients, Disconnect(k)
    PROVE  LeaseInv'
<1>1. /\ client' = [client EXCEPT ![k] = Unused] /\ pending' = {r \in pending : r.client # k}
      /\ lease' = [l \in Leases |-> IF l \in Of(k) \ Survivors(k) THEN Free ELSE lease[l]]
  BY DEF Disconnect
<1>2. Owned /\ Engaged /\ Tidy(k) /\ lease \in [Leases -> [state : LeaseStates, mode : {"shared", "exclusive"}]]
  BY DEF AnswerInv, LeaseInv
<1>3. Survivors(k) = {}
  <2>1. CASE client[k].count > 0
    BY <2>1 DEF Survivors
  <2>2. CASE ~(client[k].count > 0)
    <3>1. Cardinality(Held(k)) \in Nat /\ IsFiniteSet(Held(k)) /\ client[k].count = Cardinality(Held(k))
      BY <1>2, HeldFacts DEF Tidy
    <3>2. Cardinality(Held(k)) = 0
      BY <2>2, <3>1
    <3>3. Held(k) = {}
      BY <3>1, <3>2, FS_EmptySet
    <3> QED BY <3>3 DEF Survivors, In, Held
  <2> QED BY <2>1, <2>2
<1>4. /\ lease' \in [Leases -> [state : LeaseStates, mode : {"shared", "exclusive"}]]
      /\ \A x \in Leases : x \notin Of(k) => lease'[x] = lease[x]
      /\ \A x \in Of(k) : lease'[x].state = "free"
  BY <1>1, <1>2, <1>3 DEF Free, LeaseStates, Of
<1>5. Held(k)' = {} /\ client'[k] = Unused
  BY <1>1, <1>2, <1>4 DEF Held, Of, Owned
<1>6. Tidy(k)'
  <2>1. Cardinality(Held(k)') = 0
    BY <1>5, FS_EmptySet
  <2> QED BY <1>5, <2>1 DEF Tidy, Unused
<1>7. \A r \in pending' : Engages(r) => r.lease \notin Of(k)
  BY <1>1, <1>2 DEF Engaged, Of
<1>8. Joins(k, pending', Of(k)) /\ pending' \subseteq pending /\ (Unused.conn = 0 => Unused.count = 0 /\ Unused.exclusive = None)
  BY <1>1 DEF Joins, Unused
<1>9. PICK p \in SUBSET pending : p = pending'
  BY <1>8
<1> QED BY <1>1, <1>2, <1>4, <1>6, <1>7, <1>8, <1>9, LeaseStep

(* The leases are as they were, and so is what k counts.                   *)
LEMMA LeaseQuiet ==
    ASSUME LeaseInv, Owned, NEW k \in Clients, NEW cl, client' = [client EXCEPT ![k] = cl],
           cl.count = client[k].count, cl.exclusive = client[k].exclusive,
           cl.conn = 0 => cl.count = 0 /\ cl.exclusive = None,
           lease' = lease, pending' \subseteq pending
    PROVE  LeaseInv'
<1>1. Tidy(k) /\ lease \in [Leases -> [state : LeaseStates, mode : {"shared", "exclusive"}]]
  BY DEF LeaseInv
<1>2. client'[k] = cl /\ Held(k)' = Held(k)
  BY DEF Held, Of, Owned
<1>3. Tidy(k)'
  BY <1>1, <1>2, TidySame
<1>4. PICK p \in SUBSET pending, cs \in SUBSET Of(k) : p = pending' /\ cs = {}
  OBVIOUS
<1>5. Joins(k, p, cs)
  BY <1>4 DEF Joins
<1>6. /\ lease' \in [Leases -> [state : LeaseStates, mode : {"shared", "exclusive"}]]
      /\ \A x \in Leases : x \notin cs => lease'[x] = lease[x]
      /\ \A r \in p : Engages(r) => r.lease \notin cs
  BY <1>1, <1>4
<1> QED BY <1>3, <1>5, <1>6, LeaseStep

LEMMA LeaseConnects ==
    ASSUME LeaseInv, AnswerInv, NEW k \in Clients, NEW c \in Conns, Connect(k, c)
    PROVE  LeaseInv'
<1>1. PICK u : u = [Unused EXCEPT !.conn = c]
  OBVIOUS
<1>2. client' = [client EXCEPT ![k] = u] /\ lease' = lease /\ pending' = pending /\ client[k].conn = 0
  BY <1>1 DEF Connect
<1>3. u.count = 0 /\ u.exclusive = None
  BY <1>1 DEF Unused
<1>4. client[k].count = 0 /\ client[k].exclusive = None /\ Owned
  BY <1>2 DEF LeaseInv, AnswerInv
<1> QED BY <1>2, <1>3, <1>4, LeaseQuiet

LEMMA LeaseReceiveEvent ==
    ASSUME LeaseInv, AnswerInv, NEW k \in Clients, ReceiveEvent(k)
    PROVE  LeaseInv'
<1>1. PICK m : /\ m.type # "response" /\ Receives(k, m)
               /\ client' = [client EXCEPT ![k] =
                      IF m.type = "session" THEN [@ EXCEPT !.attached = TRUE]
                      ELSE [applyServerSnapshot(@, m) EXCEPT !.connected = TRUE]]
               /\ UNCHANGED <<lease, pending>>
  BY DEF ReceiveEvent
<1>2. client[k] \in Client /\ client[k].conn # 0 /\ Owned
  BY <1>1, ReceivesFacts DEF AnswerInv
<1>3. PICK cl : cl = IF m.type = "session" THEN [client[k] EXCEPT !.attached = TRUE]
                     ELSE [applyServerSnapshot(client[k], m) EXCEPT !.connected = TRUE]
  OBVIOUS
<1>4. client' = [client EXCEPT ![k] = cl]
  BY <1>1, <1>3
<1>5. cl.conn = client[k].conn /\ cl.count = client[k].count /\ cl.exclusive = client[k].exclusive
  <2>1. CASE m.type = "session"
    BY <1>2, <1>3, <2>1 DEF Client
  <2>2. CASE m.type # "session"
    <3>1. PICK s : s = applyServerSnapshot(client[k], m)
      OBVIOUS
    <3>2. /\ s.conn = client[k].conn /\ s.count = client[k].count /\ s.exclusive = client[k].exclusive
          /\ DOMAIN s = {"conn", "connected", "attached", "revision", "count", "exclusive", "cleanup"}
      BY <3>1, <1>2 DEF applyServerSnapshot, Client
    <3>3. cl = [s EXCEPT !.connected = TRUE]
      BY <3>1, <1>3, <2>2
    <3> QED BY <3>2, <3>3
  <2> QED BY <2>1, <2>2
<1> QED BY <1>1, <1>2, <1>4, <1>5, LeaseQuiet

(* The lease of a request, when its response has come.                     *)
LEMMA ResponseFacts ==
    ASSUME LeaseInv, AnswerInv, NEW k \in Clients, NEW r \in pending, NEW m, Answered(k, r, m)
    PROVE  /\ client[k] \in Client /\ client[k].conn # 0 /\ Owned /\ Tidy(k)
           /\ lease \in [Leases -> [state : LeaseStates, mode : {"shared", "exclusive"}]]
           /\ m.ok \in BOOLEAN /\ m.attached \in BOOLEAN
           /\ Engages(r) => /\ r.lease \in Of(k) /\ r.lease \in Leases /\ lease[r.lease].state \in Engaging(r.cmd)
                            /\ \A q \in pending \ {r} : Engages(q) => q.lease # r.lease
<1>1. Receives(k, m) /\ r.client = k /\ m.type = "response"
  BY DEF Answered
<1>2. client[k] \in Client /\ client[k].conn # 0 /\ m \in Message
  BY <1>1, ReceivesFacts
<1>3. m.ok \in BOOLEAN /\ m.attached \in BOOLEAN
  BY <1>1, <1>2 DEF Message
<1>4. Engages(r) => /\ r.lease \in Of(k) /\ r.lease \in Leases /\ lease[r.lease].state \in Engaging(r.cmd)
                    /\ \A q \in pending \ {r} : Engages(q) => q.lease # r.lease
  BY <1>1 DEF LeaseInv, Engaged, Engaging, Of
<1> QED BY <1>2, <1>3, <1>4 DEF LeaseInv, AnswerInv

LEMMA LeaseCreated ==
    ASSUME LeaseInv, AnswerInv, NEW k \in Clients, NEW r \in pending, NEW m, Answered(k, r, m), ReceiveCreated(k, r, m)
    PROVE  LeaseInv'
<1> DEFINE l == r.lease
<1>1. /\ client[k] \in Client /\ client[k].conn # 0 /\ Owned /\ Tidy(k)
      /\ lease \in [Leases -> [state : LeaseStates, mode : {"shared", "exclusive"}]]
      /\ m.ok \in BOOLEAN /\ m.attached \in BOOLEAN
  BY ResponseFacts
<1>2. Engages(r) /\ r.cmd = "create"
  BY DEF ReceiveCreated, Engages, LeaseInv, Engaged
<1>3. l \in Of(k) /\ l \in Leases /\ lease[l].state = "creating" /\ \A q \in pending \ {r} : Engages(q) => q.lease # l
  BY <1>2, ResponseFacts DEF Engaging
<1>4. PICK cl : cl = [client[k] EXCEPT !.attached = IF m.ok THEN m.attached ELSE @]
  OBVIOUS
<1>5. cl \in Client /\ cl.conn = client[k].conn /\ cl.count = client[k].count /\ cl.exclusive = client[k].exclusive
  BY <1>1, <1>4 DEF Client
<1>6. Joins(k, pending \ {r}, {l})
  BY DEF Joins, ReceiveCreated
<1>7. l \notin Held(k)
  BY <1>3 DEF Held
<1>10. /\ {l} \in SUBSET Of(k) /\ pending \ {r} \in SUBSET pending
       /\ \A q \in pending \ {r} : Engages(q) => q.lease \notin {l}
  BY <1>3
<1>8. CASE m.ok /\ MayReserve(k, "exclusive")
  <2>1. client' = [client EXCEPT ![k] = Reserved(cl, l, "exclusive")] /\ lease' = Set({l}, "active")
    BY <1>4, <1>8 DEF ReceiveCreated
  <2>2. /\ lease' \in [Leases -> [state : LeaseStates, mode : {"shared", "exclusive"}]]
        /\ \A x \in Leases : x \notin {l} => lease'[x] = lease[x]
        /\ lease'[l].state = "active"
    BY <1>1, <1>3, <2>1 DEF Set, LeaseStates
  <2>3. Held(k)' = Held(k) \cup {l}
    BY <1>3, <2>2 DEF Held, Of
  <2>4. \A x \in Held(k) : lease'[x].mode = lease[x].mode
    BY <1>7, <2>2, HeldFacts
  <2>5. client'[k] = Reserved(cl, l, "exclusive") /\ Reserved(cl, l, "exclusive").conn # 0
    BY <1>1, <1>3, <1>5, <2>1, ReservedType DEF Owned
  <2> HIDE DEF l
  <2>6. Tidy(k)'
    BY <1>1, <1>3, <1>5, <1>7, <1>8, <2>3, <2>4, <2>5, TidyReserved
  <2> QED BY <1>1, <1>6, <1>10, <2>1, <2>2, <2>5, <2>6, LeaseStep
<1>9. CASE ~(m.ok /\ MayReserve(k, "exclusive"))
  <2>1. client' = [client EXCEPT ![k] = cl] /\ lease' = [lease EXCEPT ![l] = Free]
    BY <1>4, <1>9 DEF ReceiveCreated
  <2>2. /\ lease' \in [Leases -> [state : LeaseStates, mode : {"shared", "exclusive"}]]
        /\ \A x \in Leases : x \notin {l} => lease'[x] = lease[x]
        /\ lease'[l].state = "free"
    BY <1>1, <1>3, <2>1 DEF Free, LeaseStates
  <2>3. Held(k)' = Held(k)
    BY <1>3, <1>7, <2>2 DEF Held, Of
  <2>4. \A x \in Held(k) : lease'[x].mode = lease[x].mode
    BY <1>7, <2>2, HeldFacts
  <2>5. client'[k] = cl /\ cl.conn # 0
    BY <1>1, <1>5, <2>1 DEF Owned
  <2> HIDE DEF l
  <2>6. Tidy(k)'
    BY <1>1, <1>5, <2>3, <2>4, <2>5, TidySame
  <2> QED BY <1>1, <1>6, <1>10, <2>1, <2>2, <2>5, <2>6, LeaseStep
<1> QED BY <1>8, <1>9

(* The leases ls of k have waited in the same state: all go on, or all are *)
(* given back.                                                             *)
LEMMA LeaseTogether ==
    ASSUME LeaseInv, AnswerInv, NEW k \in Clients, NEW r \in pending, NEW m, Answered(k, r, m),
           NEW state \in {"attaching", "reconciling"}, NEW next \in {"active", "attaching"}, NEW good \in Client,
           good.conn = client[k].conn, good.count = client[k].count, good.exclusive = client[k].exclusive,
           client' = [client EXCEPT ![k] = IF m.ok THEN good ELSE Released(client[k], In(k, {state}))],
           lease' = IF m.ok THEN Set(In(k, {state}), next)
                    ELSE [l \in Leases |-> IF l \in In(k, {state}) THEN Free ELSE lease[l]],
           Joins(k, pending \ {r}, In(k, {state}))
    PROVE  LeaseInv'
<1> DEFINE ls == In(k, {state})
<1>1. /\ client[k] \in Client /\ client[k].conn # 0 /\ Owned /\ Tidy(k)
      /\ lease \in [Leases -> [state : LeaseStates, mode : {"shared", "exclusive"}]]
      /\ m.ok \in BOOLEAN
  BY ResponseFacts
<1>2. ls \subseteq Held(k) /\ ls \subseteq Of(k) /\ ls \subseteq Leases /\ \A x \in ls : lease[x].state = state
  BY DEF In, Held, Of
<1>3. \A q \in pending \ {r} : Engages(q) => q.lease \notin ls
  BY <1>2, NotEngaged
<1>4. CASE m.ok
  <2>1. client' = [client EXCEPT ![k] = good] /\ lease' = Set(ls, next)
    BY <1>4
  <2> HIDE DEF ls
  <2>2. \A x \in Leases : lease'[x] = IF x \in ls THEN [lease[x] EXCEPT !.state = next] ELSE lease[x]
    BY <2>1 DEF Set
  <2>3. /\ lease' \in [Leases -> [state : LeaseStates, mode : {"shared", "exclusive"}]]
        /\ \A x \in Leases : (x \notin ls => lease'[x] = lease[x]) /\ lease'[x].mode = lease[x].mode
        /\ \A x \in ls : lease'[x].state = next
    <3>1. next \in LeaseStates
      BY DEF LeaseStates
    <3>2. \A x \in Leases : /\ lease'[x] \in [state : LeaseStates, mode : {"shared", "exclusive"}]
                            /\ lease'[x].mode = lease[x].mode
                            /\ x \notin ls => lease'[x] = lease[x]
                            /\ x \in ls => lease'[x].state = next
      BY <1>1, <2>2, <3>1
    <3>3. lease' \in [Leases -> [state : LeaseStates, mode : {"shared", "exclusive"}]]
      BY <2>1, <3>2 DEF Set
    <3> QED BY <1>2, <3>2, <3>3
  <2>4. Held(k)' = Held(k)
    BY <1>2, <2>3 DEF Held, Of
  <2>5. \A x \in Held(k) : lease'[x].mode = lease[x].mode
    BY <2>3, HeldFacts
  <2>6. client'[k] = good /\ good.conn # 0
    BY <1>1, <2>1 DEF Owned
  <2>7. Tidy(k)'
    BY <1>1, <2>4, <2>5, <2>6, TidySame
  <2> QED BY <1>1, <1>2, <1>3, <2>1, <2>3, <2>6, <2>7, LeaseStep DEF ls
<1>5. CASE ~m.ok
  <2>1. /\ client' = [client EXCEPT ![k] = Released(client[k], ls)]
        /\ lease' = [l \in Leases |-> IF l \in ls THEN Free ELSE lease[l]]
    BY <1>5
  <2> HIDE DEF ls
  <2>3. /\ lease' \in [Leases -> [state : LeaseStates, mode : {"shared", "exclusive"}]]
        /\ \A x \in Leases : x \notin ls => lease'[x] = lease[x]
        /\ \A x \in ls : lease'[x].state = "free"
    <3>1. Free \in [state : LeaseStates, mode : {"shared", "exclusive"}] /\ Free.state = "free"
      BY DEF LeaseStates, Free
    <3> QED BY <1>1, <1>2, <2>1, <3>1
  <2>4. Held(k)' = Held(k) \ ls
    BY <1>2, <2>3 DEF Held, Of
  <2>5. \A x \in Held(k)' : lease'[x].mode = lease[x].mode
    BY <2>3, <2>4, HeldFacts
  <2>6. client'[k] = Released(client[k], ls) /\ Released(client[k], ls).conn # 0
    BY <1>1, <1>2, <2>1, ReleasedType DEF Owned
  <2>7. Tidy(k)'
    BY <1>1, <1>2, <2>4, <2>5, <2>6, TidyReleased
  <2> QED BY <1>1, <1>2, <1>3, <2>1, <2>3, <2>6, <2>7, LeaseStep DEF ls
<1> QED BY <1>1, <1>4, <1>5

LEMMA LeaseAttached ==
    ASSUME LeaseInv, AnswerInv, NEW k \in Clients, NEW r \in pending, NEW m, Answered(k, r, m),
           ReceiveAttached(k, r, m) \/ ReceiveReconciled(k, r, m)
    PROVE  LeaseInv'
<1>1. client[k] \in Client /\ m.attached \in BOOLEAN
  BY ResponseFacts
<1>2. CASE ReceiveAttached(k, r, m)
  <2>1. PICK good : good = [client[k] EXCEPT !.attached = m.attached]
    OBVIOUS
  <2>2. /\ good \in Client /\ good.conn = client[k].conn /\ good.count = client[k].count
        /\ good.exclusive = client[k].exclusive
    BY <1>1, <2>1 DEF Client
  <2>3. /\ client' = [client EXCEPT ![k] = IF m.ok THEN good ELSE Released(client[k], In(k, {"attaching"}))]
        /\ lease' = IF m.ok THEN Set(In(k, {"attaching"}), "active")
                    ELSE [l \in Leases |-> IF l \in In(k, {"attaching"}) THEN Free ELSE lease[l]]
        /\ Joins(k, pending \ {r}, In(k, {"attaching"}))
    BY <1>2, <2>1 DEF ReceiveAttached, Joins
  <2> QED BY <2>2, <2>3, LeaseTogether
<1>3. CASE ReceiveReconciled(k, r, m)
  <2>1. PICK good : good = [client[k] EXCEPT !.attached = FALSE, !.cleanup = FALSE]
    OBVIOUS
  <2>2. /\ good \in Client /\ good.conn = client[k].conn /\ good.count = client[k].count
        /\ good.exclusive = client[k].exclusive
    BY <1>1, <2>1 DEF Client
  <2>3. /\ client' = [client EXCEPT ![k] = IF m.ok THEN good ELSE Released(client[k], In(k, {"reconciling"}))]
        /\ lease' = IF m.ok THEN Set(In(k, {"reconciling"}), "attaching")
                    ELSE [l \in Leases |-> IF l \in In(k, {"reconciling"}) THEN Free ELSE lease[l]]
        /\ \E state : Asks(k, state, pending \ {r})
    BY <1>3, <2>1 DEF ReceiveReconciled
  <2>4. Joins(k, pending \ {r}, In(k, {"reconciling"}))
    BY <2>3, AsksJoins
  <2> QED BY <2>2, <2>3, <2>4, LeaseTogether
<1> QED BY <1>2, <1>3

LEMMA LeaseDetached ==
    ASSUME LeaseInv, AnswerInv, NEW k \in Clients, NEW r \in pending, NEW m, Answered(k, r, m), ReceiveDetached(k, r, m)
    PROVE  LeaseInv'
<1> DEFINE l == r.lease
           again == ~m.ok /\ lease[l].state = "detaching"
           waiting == In(k, {"waiting"})
           cs == {l} \cup waiting
<1>1. /\ client[k] \in Client /\ client[k].conn # 0 /\ Owned /\ Tidy(k)
      /\ lease \in [Leases -> [state : LeaseStates, mode : {"shared", "exclusive"}]]
      /\ m.ok \in BOOLEAN
  BY ResponseFacts
<1>2. Engages(r) /\ r.cmd = "detach"
  BY DEF ReceiveDetached, Engages
<1>3. /\ l \in Of(k) /\ l \in Leases /\ lease[l].state \in {"detaching", "disposing"}
      /\ \A q \in pending \ {r} : Engages(q) => q.lease # l
  BY <1>2, ResponseFacts DEF Engaging
<1>4. PICK cl : cl = [client[k] EXCEPT !.attached = @ /\ ~m.ok, !.cleanup = @ \/ (~m.ok /\ ~again)]
  OBVIOUS
<1>5. cl \in Client /\ cl.conn = client[k].conn /\ cl.count = client[k].count /\ cl.exclusive = client[k].exclusive
  BY <1>1, <1>4 DEF Client
<1>6. PICK st \in {"reconciling", "active", "attaching"} :
         /\ client' = [client EXCEPT ![k] = IF again THEN cl ELSE Released(cl, {l})]
         /\ lease' = [x \in Leases |->
               CASE x = l -> IF again THEN [lease[l] EXCEPT !.state = "active"] ELSE Free
                 [] x \in waiting -> [lease[x] EXCEPT !.state = st]
                 [] OTHER -> lease[x]]
  <2>1. Step(cl) \in {"reconciling", "active", "attaching"}
    BY DEF Step
  <2> QED BY <1>4, <2>1 DEF ReceiveDetached
<1>7. Joins(k, pending \ {r}, cs)
  <2>1. \E state : Asks(k, state, pending \ {r})
    BY DEF ReceiveDetached
  <2> QED BY <2>1, AsksJoins
<1>8. waiting \subseteq Of(k) /\ waiting \subseteq Leases /\ waiting \subseteq Held(k) /\ l \notin waiting
      /\ \A x \in waiting : lease[x].state = "waiting"
  BY <1>3 DEF In, Of, Held
<1>9. /\ cs \in SUBSET Of(k) /\ pending \ {r} \in SUBSET pending
      /\ \A q \in pending \ {r} : Engages(q) => q.lease \notin cs
  BY <1>3, <1>8, NotEngaged
<1>10. l \in Held(k)
  BY <1>3 DEF Held
<1>11. Free \in [state : LeaseStates, mode : {"shared", "exclusive"}] /\ Free.state = "free"
  BY DEF LeaseStates, Free
<1>12. {"active", "reconciling", "attaching"} \subseteq LeaseStates
  BY DEF LeaseStates
<1> HIDE DEF l, again, waiting
<1>13. /\ lease'[l] = IF again THEN [lease[l] EXCEPT !.state = "active"] ELSE Free
       /\ \A x \in waiting : lease'[x] = [lease[x] EXCEPT !.state = st]
       /\ \A x \in Leases : x \notin cs => lease'[x] = lease[x]
  BY <1>3, <1>6, <1>8
<1>14. /\ lease'[l] \in [state : LeaseStates, mode : {"shared", "exclusive"}]
       /\ lease'[l].state = IF again THEN "active" ELSE "free"
       /\ again => lease'[l].mode = lease[l].mode
  BY <1>1, <1>3, <1>11, <1>12, <1>13
<1>15. \A x \in waiting : /\ lease'[x] \in [state : LeaseStates, mode : {"shared", "exclusive"}]
                          /\ lease'[x].state = st /\ lease'[x].mode = lease[x].mode
  <2> SUFFICES ASSUME NEW x \in waiting
               PROVE  /\ lease'[x] \in [state : LeaseStates, mode : {"shared", "exclusive"}]
                      /\ lease'[x].state = st /\ lease'[x].mode = lease[x].mode
    OBVIOUS
  <2>1. lease[x] \in [state : LeaseStates, mode : {"shared", "exclusive"}] /\ st \in LeaseStates
    BY <1>1, <1>8, <1>12
  <2>2. lease'[x] = [lease[x] EXCEPT !.state = st]
    BY <1>13
  <2> QED BY <2>1, <2>2
<1>16. lease' \in [Leases -> [state : LeaseStates, mode : {"shared", "exclusive"}]]
  <2>1. \A x \in Leases : lease'[x] \in [state : LeaseStates, mode : {"shared", "exclusive"}]
    BY <1>1, <1>13, <1>14, <1>15
  <2> QED BY <1>6, <2>1
<1>17. \A x \in Held(k) : x # l => lease'[x].mode = lease[x].mode
                                  /\ lease'[x].state \notin {"free", "creating"}
  <2> SUFFICES ASSUME NEW x \in Held(k), x # l
               PROVE  lease'[x].mode = lease[x].mode /\ lease'[x].state \notin {"free", "creating"}
    OBVIOUS
  <2>1. CASE x \in waiting
    BY <2>1, <1>15
  <2>2. CASE x \notin waiting
    <3>1. x \in Leases /\ lease[x].state \notin {"free", "creating"}
      BY DEF Held, Of
    <3> QED BY <2>2, <3>1, <1>13
  <2> QED BY <2>1, <2>2
<1>18. \A x \in Of(k) \ Held(k) : lease'[x].state \in {"free", "creating"}
  <2> SUFFICES ASSUME NEW x \in Of(k) \ Held(k) PROVE lease'[x].state \in {"free", "creating"}
    OBVIOUS
  <2>1. x \in Leases /\ lease[x].state \in {"free", "creating"}
    BY DEF Held, Of
  <2>2. x \notin cs
    BY <1>8, <1>10
  <2> QED BY <2>1, <2>2, <1>13
<1>19. Held(k)' = {x \in Of(k) : lease'[x].state \notin {"free", "creating"}} /\ Held(k) \subseteq Of(k)
  BY DEF Held, Of
<1>20. CASE again
  <2>1. Held(k)' = Held(k)
    BY <1>10, <1>14, <1>17, <1>18, <1>19, <1>20
  <2>2. \A x \in Held(k) : lease'[x].mode = lease[x].mode
    BY <1>14, <1>17, <1>20
  <2>3. client' = [client EXCEPT ![k] = cl] /\ client'[k] = cl /\ cl.conn # 0
    BY <1>1, <1>5, <1>6, <1>20 DEF Owned
  <2>4. Tidy(k)'
    BY <1>1, <1>5, <2>1, <2>2, <2>3, TidySame
  <2> HIDE DEF cs
  <2> QED BY <1>1, <1>7, <1>9, <1>13, <1>16, <2>3, <2>4, LeaseStep
<1>21. CASE ~again
  <2>1. Held(k)' = Held(k) \ {l}
    BY <1>10, <1>14, <1>17, <1>18, <1>19, <1>21
  <2>2. \A x \in Held(k)' : lease'[x].mode = lease[x].mode
    BY <1>17, <2>1
  <2>3. PICK u : u = Released(cl, {l})
    OBVIOUS
  <2>4. client' = [client EXCEPT ![k] = u] /\ client'[k] = u /\ u.conn # 0
    BY <1>1, <1>3, <1>5, <1>6, <1>21, <2>3, ReleasedType DEF Owned
  <2>5. Tidy(k)'
    BY <1>1, <1>5, <1>10, <2>1, <2>2, <2>3, <2>4, TidyReleased
  <2> HIDE DEF cs
  <2> QED BY <1>1, <1>7, <1>9, <1>13, <1>16, <2>4, <2>5, LeaseStep
<1> QED BY <1>20, <1>21

LEMMA LeaseNext ==
    ASSUME LeaseInv, AnswerInv, [Next]_vars
    PROVE  LeaseInv'
<1>1. CASE UNCHANGED clientVars
  BY <1>1 DEF LeaseInv, Tidy, Held, Engaged, clientVars
<1>2. ASSUME NEW k \in Clients, ReceiveResponse(k) PROVE LeaseInv'
  <2>1. PICK r \in pending, m \in ToSet(toClient[client[k].conn]) :
        /\ Answered(k, r, m)
        /\ \/ ReceiveCreated(k, r, m) \/ ReceiveDone(k, r, m) \/ ReceiveAttached(k, r, m)
           \/ ReceiveDetached(k, r, m) \/ ReceiveReconciled(k, r, m)
    BY <1>2 DEF ReceiveResponse
  <2>2. CASE ReceiveDone(k, r, m)
    <3>1. PICK cl : cl = [client[k] EXCEPT !.attached = IF m.ok THEN m.attached ELSE @]
      OBVIOUS
    <3>2. client[k] \in Client /\ client[k].conn # 0 /\ Owned
      BY <2>1, ResponseFacts
    <3>3. cl.conn # 0 /\ cl.count = client[k].count /\ cl.exclusive = client[k].exclusive
      BY <3>1, <3>2 DEF Client
    <3>4. client' = [client EXCEPT ![k] = cl] /\ lease' = lease /\ pending' \subseteq pending
      BY <2>2, <3>1 DEF ReceiveDone
    <3> QED BY <3>2, <3>3, <3>4, LeaseQuiet
  <2> QED BY <2>1, <2>2, LeaseCreated, LeaseAttached, LeaseDetached
<1>3. ASSUME Users PROVE LeaseInv'
  BY <1>3, LeaseUser, LeaseLeaves, LeaseConnects DEF Users
<1>4. ASSUME Arrival PROVE LeaseInv'
  BY <1>1, <1>2, <1>4, LeaseReceiveEvent, LeaseLeaves DEF Arrival, Receive
<1> QED BY <1>1, <1>3, <1>4 DEF Next, Server, vars

LEMMA LeaseInit ==
    ASSUME Init
    PROVE  LeaseInv
<1>1. client = [k \in Clients |-> Unused] /\ lease = [l \in Leases |-> Free] /\ pending = {}
  BY DEF Init
<1>2. lease \in [Leases -> [state : LeaseStates, mode : {"shared", "exclusive"}]]
  BY <1>1 DEF Free, LeaseStates
<1>3. ASSUME NEW k \in Clients PROVE Tidy(k) /\ client[k].count = 0 /\ client[k].exclusive = None
  <2>1. Held(k) = {} /\ client[k].count = 0 /\ client[k].exclusive = None
    BY <1>1 DEF Held, Of, Free, Unused
  <2>2. Cardinality(Held(k)) = 0
    BY <2>1, FS_EmptySet
  <2> QED BY <2>1, <2>2 DEF Tidy
<1>4. Engaged
  BY <1>1 DEF Engaged
<1> QED BY <1>2, <1>3, <1>4 DEF LeaseInv

-----------------------------------------------------------------------------
(* What is counted: operations under way are calls that were made.         *)

OpIds == {n \in 1..lastRequest : \/ \E t \in tasks : t.at = "running" /\ t.id = n
                                 \/ \E c \in Conns : \E q \in ToSet(toServer[c]) : q.cmd = "op" /\ q.id = n}

BoundInv ==
    /\ calls \in 0..MaxCalls /\ faults \in 0..MaxFaults
    /\ \A c \in sessionIds : c \in Conns /\ stage[c] = "ready"
    /\ \A t \in tasks : stage[t.conn] \in {"ready", "closed"} /\ (t.at = "running" => t.id # 0)
    /\ Cardinality(OpIds) <= calls

LEMMA OpFacts ==
    ASSUME BoundInv, RuntimeInv
    PROVE  /\ IsFiniteSet(OpIds) /\ Cardinality(OpIds) \in Nat /\ OpIds \subseteq 1..lastRequest /\ lastRequest \in Nat
           /\ \A t \in tasks : t.at = "running" => t.id \in OpIds
           /\ \A c \in Conns : \A q \in ToSet(toServer[c]) : q.cmd = "op" => q.id \in OpIds
<1>1. Shape /\ Numbered
  BY DEF RuntimeInv
<1>2. lastRequest \in Nat /\ OpIds \subseteq 1..lastRequest
  BY <1>1 DEF Shape, OpIds
<1>3. IsFiniteSet(OpIds) /\ Cardinality(OpIds) \in Nat
  <2>1. IsFiniteSet(1..lastRequest)
    BY <1>2, FS_Interval
  <2>2. IsFiniteSet(OpIds)
    BY <1>2, <2>1, FS_Subset
  <2> QED BY <2>2, FS_CardinalityType
<1>4. ASSUME NEW t \in tasks, t.at = "running" PROVE t.id \in OpIds
  <2>1. t.id \in Nat /\ t.id # 0 /\ t.id <= lastRequest
    BY <1>1, <1>4, ConnType DEF BoundInv, Numbered
  <2>2. t.id \in 1..lastRequest
    BY <1>2, <2>1
  <2> QED BY <1>4, <2>2 DEF OpIds
<1>5. ASSUME NEW c \in Conns, NEW q \in ToSet(toServer[c]), q.cmd = "op" PROVE q.id \in OpIds
  <2>1. PICK i \in DOMAIN toServer[c] : q = toServer[c][i]
    BY DEF ToSet
  <2>2. q \in Request /\ q.id <= lastRequest
    BY <1>1, <2>1 DEF Shape, Numbered
  <2>3. q.id \in 1..lastRequest
    BY <1>2, <2>2 DEF Request
  <2> QED BY <1>5, <2>3 DEF OpIds
<1> QED BY <1>2, <1>3, <1>4, <1>5

LEMMA BoundStep ==
    ASSUME BoundInv, RuntimeInv, calls' \in 0..MaxCalls, calls <= calls', faults' \in 0..MaxFaults,
           \A c \in sessionIds' : c \in Conns /\ stage'[c] = "ready",
           \A t \in tasks' : stage'[t.conn] \in {"ready", "closed"} /\ (t.at = "running" => t.id \in OpIds),
           \A c \in Conns : \A q \in ToSet(toServer'[c]) :
               q.cmd = "op" => q.id \in OpIds \/ (calls' = calls + 1 /\ q.id = lastRequest + 1)
    PROVE  BoundInv'
<1>1. IsFiniteSet(OpIds) /\ Cardinality(OpIds) \in Nat /\ Cardinality(OpIds) <= calls /\ OpIds \subseteq 1..lastRequest
      /\ lastRequest \in Nat /\ calls \in Nat
  BY OpFacts, RemoteAssumption DEF BoundInv
<1>2. \A t \in tasks' : t.at = "running" => t.id # 0
  BY <1>1
<1>3. Cardinality(OpIds') <= calls'
  <2>1. CASE calls' = calls + 1
    <3> DEFINE X == OpIds \cup {lastRequest + 1}
    <3>1. IsFiniteSet(X) /\ Cardinality(X) = Cardinality(OpIds) + 1
      <4>1. lastRequest + 1 \notin OpIds
        BY <1>1
      <4> QED BY <1>1, <4>1, FS_AddElement
    <3>2. OpIds' \subseteq X
      BY DEF OpIds
    <3> HIDE DEF X
    <3>3. Cardinality(OpIds') <= Cardinality(X) /\ IsFiniteSet(OpIds')
      BY <3>1, <3>2, FS_Subset
    <3>4. Cardinality(OpIds') \in Nat
      BY <3>3, FS_CardinalityType
    <3> QED BY <1>1, <2>1, <3>1, <3>3, <3>4
  <2>2. CASE calls' # calls + 1
    <3>1. OpIds' \subseteq OpIds
      BY <2>2 DEF OpIds
    <3>2. Cardinality(OpIds') <= Cardinality(OpIds) /\ IsFiniteSet(OpIds')
      BY <1>1, <3>1, FS_Subset
    <3>3. Cardinality(OpIds') \in Nat
      BY <3>2, FS_CardinalityType
    <3>4. calls' \in Nat
      BY RemoteAssumption
    <3> QED BY <1>1, <3>2, <3>3, <3>4
  <2> QED BY <2>1, <2>2
<1> QED BY <1>2, <1>3 DEF BoundInv

(* The server works at what it has: no new task, nothing new on the wires. *)
LEMMA BoundWorks ==
    ASSUME BoundInv, RuntimeInv, UNCHANGED <<calls, toServer, stage>>, faults' \in 0..MaxFaults,
           \A c \in sessionIds' : c \in sessionIds \/ \E t \in tasks : t.conn = c /\ Open(c),
           \A t \in tasks' : \E u \in tasks : t.conn = u.conn /\ t.id = u.id /\ (t.at = "running" => u.at = "running")
    PROVE  BoundInv'
<1>1. calls' \in 0..MaxCalls /\ calls <= calls'
  BY RemoteAssumption DEF BoundInv
<1>2. \A t \in tasks' : stage'[t.conn] \in {"ready", "closed"} /\ (t.at = "running" => t.id \in OpIds)
  BY OpFacts DEF BoundInv
<1>3. \A c \in sessionIds' : c \in Conns /\ stage'[c] = "ready"
  <2> SUFFICES ASSUME NEW c \in sessionIds' PROVE c \in Conns /\ stage[c] = "ready"
    OBVIOUS
  <2>1. CASE c \in sessionIds
    BY <2>1 DEF BoundInv
  <2>2. ASSUME NEW t \in tasks, t.conn = c, Open(c) PROVE c \in Conns /\ stage[c] = "ready"
    BY <2>2, ConnType DEF BoundInv, Open
  <2> QED BY <2>1, <2>2
<1>4. \A c \in Conns : \A q \in ToSet(toServer'[c]) : q.cmd = "op" => q.id \in OpIds
  BY OpFacts
<1> QED BY <1>1, <1>2, <1>3, <1>4, BoundStep

LEMMA BoundTasks ==
    ASSUME BoundInv, RuntimeInv, calls' = calls,
           \/ Acquired \/ Opened \/ OpenFails \/ Close \/ CloseSessions \/ StartBroadcast \/ SendSnapshot
           \/ \E t \in tasks : FinishAttach(t) \/ FinishTelling(t) \/ FinishOperation(t) \/ AttachFails(t)
           \/ \E i \in DOMAIN lives : RunEnds(i) \/ Terminate(i) \/ Disposed(i, TRUE) \/ Disposed(i, FALSE)
           \/ \E c \in Conns : CatchUp(c)
    PROVE  BoundInv'
<1>1. toServer' = toServer /\ stage' = stage
  BY DEF Acquired, Opened, OpenFails, Close, CloseSessions, StartBroadcast, SendSnapshot, FinishAttach, FinishTelling,
     FinishOperation, AttachFails, RunEnds, Terminate, Disposed, CatchUp, wires, connVars
<1>2. faults' \in 0..MaxFaults
  <2>1. faults \in Nat /\ MaxFaults \in Nat /\ faults <= MaxFaults
    BY RemoteAssumption DEF BoundInv
  <2>2. faults' = faults \/ (faults' = faults + 1 /\ (faults < MaxFaults \/ faults' <= MaxFaults))
    BY DEF Acquired, Opened, OpenFails, Close, CloseSessions, StartBroadcast, SendSnapshot, FinishAttach, FinishTelling,
       FinishOperation, AttachFails, RunEnds, Terminate, Disposed, CatchUp
  <2> QED BY <2>1, <2>2
<1>3. sessionIds' = sessionIds \/ Opened
  BY DEF Acquired, OpenFails, Close, CloseSessions, StartBroadcast, SendSnapshot, FinishAttach, FinishTelling,
     FinishOperation, AttachFails, RunEnds, Terminate, Disposed, CatchUp, sessions
<1>4. ASSUME Opened PROVE \A c \in sessionIds' : c \in sessionIds \/ \E t \in tasks : t.conn = c /\ Open(c)
  BY <1>4 DEF Opened, Opening
<1>5. \/ tasks' \subseteq tasks \/ Opened
      \/ \E t \in tasks : FinishTelling(t)
      \/ \E i, ok : Disposed(i, ok)
  BY DEF Acquired, OpenFails, Close, CloseSessions, StartBroadcast, SendSnapshot, FinishAttach,
     FinishOperation, AttachFails, RunEnds, Terminate, CatchUp, sessions
<1>6. \A t \in tasks : t \in ServerTask
  BY ConnType
<1>7. ASSUME Opened, NEW t \in tasks' PROVE \E u \in tasks : t.conn = u.conn /\ t.id = u.id /\ (t.at = "running" => u.at = "running")
  <2>1. CASE t \in tasks
    BY <2>1
  <2>2. CASE t \notin tasks
    <3>1. PICK u \in tasks : t = [u EXCEPT !.at = "attached", !.live = live']
      BY <1>7, <2>2 DEF Opened, Opening
    <3>2. t.conn = u.conn /\ t.id = u.id /\ t.at = "attached"
      BY <3>1, <1>6 DEF ServerTask
    <3> QED BY <3>2
  <2> QED BY <2>1, <2>2
<1>8. ASSUME NEW x \in tasks, FinishTelling(x), NEW t \in tasks'
      PROVE  \E u \in tasks : t.conn = u.conn /\ t.id = u.id /\ (t.at = "running" => u.at = "running")
  <2>1. CASE t \in tasks
    BY <2>1
  <2>2. CASE t \notin tasks
    <3>1. t = [x EXCEPT !.at = "disposal"]
      BY <1>8, <2>2 DEF FinishTelling
    <3>2. t.conn = x.conn /\ t.id = x.id /\ t.at = "disposal"
      BY <3>1, <1>6 DEF ServerTask
    <3> QED BY <3>2
  <2> QED BY <2>1, <2>2
<1>9. ASSUME NEW i, NEW ok, Disposed(i, ok), NEW t \in tasks'
      PROVE  \E u \in tasks : t.conn = u.conn /\ t.id = u.id /\ (t.at = "running" => u.at = "running")
  <2>1. CASE t \in tasks
    BY <2>1
  <2>2. CASE t \notin tasks
    <3>1. PICK u \in tasks : \E b : t = [u EXCEPT !.at = "opening", !.live = 0, !.opener = b]
      BY <1>9, <2>2 DEF Disposed
    <3>2. t.conn = u.conn /\ t.id = u.id /\ t.at = "opening"
      BY <3>1, <1>6 DEF ServerTask
    <3> QED BY <3>2
  <2> QED BY <2>1, <2>2
<1>10. \A t \in tasks' : \E u \in tasks : t.conn = u.conn /\ t.id = u.id /\ (t.at = "running" => u.at = "running")
  BY <1>5, <1>7, <1>8, <1>9
<1> QED BY <1>1, <1>2, <1>3, <1>4, <1>10, BoundWorks

(* A request that arrives: an operation was one on its way.                *)
LEMMA BoundDispatch ==
    ASSUME BoundInv, RuntimeInv, NEW c \in Conns, Dispatch(c), calls' = calls
    PROVE  BoundInv'
<1> DEFINE r == Head(toServer[c])
<1>1. /\ stage[c] = "ready" /\ toServer[c] # <<>> /\ toServer' = [toServer EXCEPT ![c] = Tail(@)]
      /\ stage' = stage /\ faults' = faults
  BY DEF Dispatch, connVars
<1>2. /\ toServer[c] \in Seq(Request) /\ toServer'[c] = Tail(toServer[c])
      /\ \A d \in Conns \ {c} : toServer'[d] = toServer[d]
  BY <1>1 DEF RuntimeInv, Shape
<1>3. r \in ToSet(toServer[c]) /\ \A d \in Conns : ToSet(toServer'[d]) \subseteq ToSet(toServer[d])
  BY <1>1, <1>2, TailFacts
<1>4. \A t \in tasks' : t \in tasks \/ (t.conn = c /\ t.id = r.id /\ (t.at = "running" => r.cmd = "op"))
  <2>1. CASE r.cmd \in {"create", "attach"} /\ Acquire(r, c)
    <3>1. \A at, i, b : LET t == [Task(r, c, at, i) EXCEPT !.opener = b] IN t.conn = c /\ t.id = r.id /\ t.at = at
      BY DEF Task
    <3>2. \A at, i : LET t == Task(r, c, at, i) IN t.conn = c /\ t.id = r.id /\ t.at = at
      BY DEF Task
    <3>3. \/ tasks' = tasks
          \/ \E at \in {"opening", "disposal"} : \E i, b : tasks' = tasks \cup {[Task(r, c, at, i) EXCEPT !.opener = b]}
          \/ \E i : tasks' = tasks \cup {Task(r, c, "attached", i)}
      BY <2>1 DEF Acquire, Attached
    <3>4. ASSUME NEW at \in {"opening", "disposal"}, NEW i, NEW b, NEW t,
                 t = [Task(r, c, at, i) EXCEPT !.opener = b]
          PROVE  t.conn = c /\ t.id = r.id /\ t.at # "running"
      BY <3>1, <3>4
    <3>5. ASSUME NEW i, NEW t, t = Task(r, c, "attached", i)
          PROVE  t.conn = c /\ t.id = r.id /\ t.at # "running"
      BY <3>2, <3>5
    <3> HIDE DEF r
    <3>6. CASE tasks' = tasks
      BY <3>6
    <3>7. CASE \E at \in {"opening", "disposal"} : \E i, b : tasks' = tasks \cup {[Task(r, c, at, i) EXCEPT !.opener = b]}
      <4>1. PICK at \in {"opening", "disposal"} : \E i, b : tasks' = tasks \cup {[Task(r, c, at, i) EXCEPT !.opener = b]}
        BY <3>7
      <4>2. PICK i, b : tasks' = tasks \cup {[Task(r, c, at, i) EXCEPT !.opener = b]}
        BY <4>1
      <4>3. \A t \in tasks' : t \in tasks \/ t = [Task(r, c, at, i) EXCEPT !.opener = b]
        BY <4>2
      <4> QED BY <4>3, <3>4
    <3>8. CASE \E i : tasks' = tasks \cup {Task(r, c, "attached", i)}
      <4>1. PICK i : tasks' = tasks \cup {Task(r, c, "attached", i)}
        BY <3>8
      <4>2. \A t \in tasks' : t \in tasks \/ t = Task(r, c, "attached", i)
        BY <4>1
      <4> QED BY <4>2, <3>5
    <3> QED BY <3>3, <3>6, <3>7, <3>8
  <2>2. CASE r.cmd = "detach" /\ Detach(r, c)
    <3>1. \A at, i : LET t == Task(r, c, at, i) IN t.conn = c /\ t.id = r.id /\ t.at = at
      BY DEF Task
    <3>2. \/ tasks' = tasks
          \/ \E at \in {"telling", "disposal"} : \E i : tasks' = tasks \cup {Task(r, c, at, i)}
      BY <2>2 DEF Detach
    <3> QED BY <3>1, <3>2
  <2>3. CASE r.cmd = "op" /\ Operate(r, c)
    <3>1. \A at, i : LET t == Task(r, c, at, i) IN t.conn = c /\ t.id = r.id
      BY DEF Task
    <3>2. tasks' = tasks \/ \E i : tasks' = tasks \cup {Task(r, c, "running", i)}
      BY <2>3 DEF Operate
    <3> QED BY <2>3, <3>1, <3>2
  <2> QED BY <2>1, <2>2, <2>3 DEF Dispatch
<1>5. sessionIds' \subseteq sessionIds \cup {c}
  BY DEF Dispatch, Acquire, Attached, Detach, Operate
<1> HIDE DEF r
<1>6. \A t \in tasks' : stage'[t.conn] \in {"ready", "closed"} /\ (t.at = "running" => t.id \in OpIds)
  BY <1>1, <1>3, <1>4, OpFacts DEF BoundInv
<1>7. \A d \in sessionIds' : d \in Conns /\ stage'[d] = "ready"
  BY <1>1, <1>5 DEF BoundInv
<1>8. \A d \in Conns : \A q \in ToSet(toServer'[d]) : q.cmd = "op" => q.id \in OpIds
  BY <1>3, OpFacts
<1>9. calls' \in 0..MaxCalls /\ calls <= calls' /\ faults' \in 0..MaxFaults
  BY <1>1, RemoteAssumption DEF BoundInv
<1> QED BY <1>6, <1>7, <1>8, <1>9, BoundStep

(* A connection makes a step.                                              *)
LEMMA BoundConnection ==
    ASSUME BoundInv, RuntimeInv, NEW c \in Conns, calls' = calls,
           SendHello(c) \/ Gone(c) \/ Break(c) \/ (Accept(c) /\ UNCHANGED calls)
    PROVE  BoundInv'
<1>1. stage \in [Conns -> {"none", "handshaking", "ready", "closed"}] /\ toServer \in [Conns -> Seq(Request)]
      /\ live \in Nat
  BY ShapeFacts DEF RuntimeInv, Shape
<1>2. \A d \in Conns \ {c} : stage'[d] = stage[d]
  BY <1>1 DEF SendHello, Gone, Break, Accept, ServerDisconnect
<1>3. faults' \in 0..MaxFaults
  <2>1. faults \in Nat /\ MaxFaults \in Nat /\ faults <= MaxFaults
    BY RemoteAssumption DEF BoundInv
  <2>2. faults' = faults \/ (faults' = faults + 1 /\ faults < MaxFaults)
    BY DEF SendHello, Gone, Break, Accept, serverVars
  <2> QED BY <2>1, <2>2
<1>4. \A d \in Conns : ToSet(toServer'[d]) \subseteq ToSet(toServer[d])
  <2>1. toServer' = toServer \/ toServer' = [toServer EXCEPT ![c] = <<>>]
    BY DEF SendHello, Gone, Break, Accept, ServerDisconnect, wires
  <2>2. ToSet(<<>>) = {}
    BY DEF ToSet
  <2>3. \A d \in Conns : toServer'[d] = toServer[d] \/ toServer'[d] = <<>>
    BY <1>1, <2>1
  <2> QED BY <2>2, <2>3
<1>5. CASE SendHello(c) \/ Accept(c)
  <2>1. /\ tasks' = tasks /\ sessionIds' = sessionIds /\ stage[c] \in {"handshaking", "none"}
    BY <1>5 DEF SendHello, Accept, serverVars, sessions
  <2>2. \A d \in Conns : stage[d] \in {"ready", "closed"} => stage'[d] = stage[d]
    BY <1>2, <2>1
  <2>3. \A t \in tasks' : stage'[t.conn] \in {"ready", "closed"} /\ (t.at = "running" => t.id \in OpIds)
    BY <2>1, <2>2, ConnType, OpFacts DEF BoundInv
  <2>4. \A d \in sessionIds' : d \in Conns /\ stage'[d] = "ready"
    BY <2>1, <2>2 DEF BoundInv
  <2>5. calls' \in 0..MaxCalls /\ calls <= calls'
    BY RemoteAssumption DEF BoundInv
  <2>6. \A d \in Conns : \A q \in ToSet(toServer'[d]) : q.cmd = "op" => q.id \in OpIds
    BY <1>4, OpFacts
  <2> QED BY <1>3, <2>3, <2>4, <2>5, <2>6, BoundStep
<1>6. CASE ServerDisconnect(c)
  <2>1. /\ stage'[c] = "closed" /\ sessionIds' = sessionIds \ {c}
        /\ tasks' = tasks \/ tasks' = tasks \cup {Leave(c, live)}
    BY <1>1, <1>6 DEF ServerDisconnect, Departed
  <2>2. Leave(c, live).conn = c /\ Leave(c, live).at = "disposal"
    BY DEF Leave, Task
  <2>3. \A t \in tasks' : stage'[t.conn] \in {"ready", "closed"} /\ (t.at = "running" => t.id \in OpIds)
    <3> SUFFICES ASSUME NEW t \in tasks'
                 PROVE  stage'[t.conn] \in {"ready", "closed"} /\ (t.at = "running" => t.id \in OpIds)
      OBVIOUS
    <3>1. CASE t \in tasks
      <4>1. t.conn \in Conns /\ stage[t.conn] \in {"ready", "closed"} /\ (t.at = "running" => t.id \in OpIds)
        BY <3>1, ConnType, OpFacts DEF BoundInv
      <4> QED BY <4>1, <2>1, <1>2
    <3> QED BY <3>1, <2>1, <2>2
  <2>4. \A d \in sessionIds' : d \in Conns /\ stage'[d] = "ready"
    BY <1>2, <2>1 DEF BoundInv
  <2>5. calls' \in 0..MaxCalls /\ calls <= calls'
    BY RemoteAssumption DEF BoundInv
  <2>6. \A d \in Conns : \A q \in ToSet(toServer'[d]) : q.cmd = "op" => q.id \in OpIds
    BY <1>4, OpFacts
  <2> QED BY <1>3, <2>3, <2>4, <2>5, <2>6, BoundStep
<1> QED BY <1>5, <1>6 DEF Gone, Break

(* The clients: only a call makes an operation.                            *)
LEMMA BoundClient ==
    ASSUME BoundInv, RuntimeInv, AnswerInv, UNCHANGED <<stage, sessionIds, tasks, faults>>,
           NEW k \in Clients, NEW p,
           \/ calls' = calls \/ Called,
           \/ toServer' = toServer
           \/ /\ client[k].connected
              /\ \E cmd \in {"create", "attach", "detach", "op"}, l \in Leases \cup {None} :
                     Requested(k, cmd, l, p) /\ (cmd = "op" => Called)
    PROVE  BoundInv'
<1>1. calls \in Nat /\ MaxCalls \in Nat /\ calls \in 0..MaxCalls
  BY RemoteAssumption DEF BoundInv
<1>2. calls' \in 0..MaxCalls /\ calls <= calls'
  BY <1>1 DEF Called
<1>3. faults' \in 0..MaxFaults /\ \A c \in sessionIds' : c \in Conns /\ stage'[c] = "ready"
  BY DEF BoundInv
<1>4. \A t \in tasks' : stage'[t.conn] \in {"ready", "closed"} /\ (t.at = "running" => t.id \in OpIds)
  BY OpFacts DEF BoundInv
<1>5. ASSUME NEW c \in Conns, NEW q \in ToSet(toServer'[c]), q.cmd = "op"
      PROVE  q.id \in OpIds \/ (calls' = calls + 1 /\ q.id = lastRequest + 1)
  <2>1. CASE toServer' = toServer
    BY <1>5, <2>1, OpFacts
  <2>2. ASSUME client[k].connected, NEW cmd \in {"create", "attach", "detach", "op"}, NEW l \in Leases \cup {None},
               Requested(k, cmd, l, p), cmd = "op" => Called
        PROVE  q.id \in OpIds \/ (calls' = calls + 1 /\ q.id = lastRequest + 1)
    <3> DEFINE r == [id |-> lastRequest + 1, cmd |-> cmd, lease |-> l, client |-> k]
               d == client[k].conn
    <3>0. toServer \in [Conns -> Seq(Request)] /\ lastRequest \in Nat /\ Owned
      BY DEF RuntimeInv, Shape, AnswerInv
    <3>1. r \in Request /\ r.cmd = cmd /\ r.id = lastRequest + 1
      BY <3>0 DEF Request
    <3>2. d \in Conns /\ toServer' = [toServer EXCEPT ![d] = Append(@, r)]
      BY <3>0, <2>2, ConnOf DEF Requested, Owned
    <3> HIDE DEF r, d
    <3>3. toServer[d] \in Seq(Request) /\ toServer'[d] = Append(toServer[d], r)
          /\ \A x \in Conns \ {d} : toServer'[x] = toServer[x]
      BY <3>0, <3>2
    <3>4. ToSet(toServer'[d]) = ToSet(toServer[d]) \cup {r}
      BY <3>1, <3>3, AppendFacts
    <3>5. q \in ToSet(toServer[c]) \/ q = r
      BY <1>5, <3>3, <3>4
    <3>6. CASE q \in ToSet(toServer[c])
      BY <1>5, <3>6, OpFacts
    <3>7. CASE q = r
      BY <1>5, <2>2, <3>1, <3>7 DEF Called
    <3> QED BY <3>5, <3>6, <3>7
  <2> QED BY <2>1, <2>2
<1> QED BY <1>2, <1>3, <1>4, <1>5, BoundStep

LEMMA BoundNext ==
    ASSUME BoundInv, RuntimeInv, AnswerInv, [Next]_vars
    PROVE  BoundInv'
<1>1. ASSUME NEW k \in Clients, NEW m, Receives(k, m)
      PROVE  UNCHANGED <<stage, sessionIds, tasks, faults, calls>>
  BY <1>1 DEF Receives, connVars, serverVars, sessions
<1>2. ASSUME NEW k \in Clients, NEW state, NEW p, client[k].connected, Asks(k, state, p)
      PROVE  \/ toServer' = toServer
             \/ /\ client[k].connected
                /\ \E cmd \in {"create", "attach", "detach", "op"}, l \in Leases \cup {None} :
                       Requested(k, cmd, l, p) /\ (cmd = "op" => Called)
  BY <1>2 DEF Asks
<1>3. CASE UNCHANGED vars
  <2>1. UNCHANGED <<calls, faults, sessionIds, stage, tasks, toServer, lastRequest>>
    BY <1>3 DEF vars, clientVars, wires, connVars, serverVars, sessions
  <2> QED BY <2>1 DEF BoundInv, OpIds
<1>4. ASSUME NEW k \in Clients, Disconnect(k) PROVE BoundInv'
  <2>1. UNCHANGED <<stage, sessionIds, tasks, faults, calls, toServer>>
    BY <1>4 DEF Disconnect, connVars, serverVars, sessions
  <2> QED BY <2>1, BoundClient
<1>5. ASSUME NEW k \in Clients, NEW c \in Conns, Connect(k, c) PROVE BoundInv'
  BY <1>5, BoundConnection DEF Connect
<1>6. ASSUME NEW k \in Clients, ReceiveEvent(k) PROVE BoundInv'
  <2>1. UNCHANGED <<stage, sessionIds, tasks, faults, calls, toServer>>
    BY <1>1, <1>6 DEF ReceiveEvent
  <2> QED BY <2>1, BoundClient
<1>7. ASSUME NEW k \in Clients, ReceiveResponse(k) PROVE BoundInv'
  <2>1. PICK r \in pending, m \in ToSet(toClient[client[k].conn]) :
        /\ Answered(k, r, m)
        /\ \/ ReceiveCreated(k, r, m) \/ ReceiveDone(k, r, m) \/ ReceiveAttached(k, r, m)
           \/ ReceiveDetached(k, r, m) \/ ReceiveReconciled(k, r, m)
    BY <1>7 DEF ReceiveResponse
  <2>2. UNCHANGED <<stage, sessionIds, tasks, faults, calls>>
    BY <1>1, <2>1 DEF Answered
  <2>3. client[k].connected
    BY <2>1 DEF Answered, AnswerInv, Asked
  <2>4. toServer' = toServer \/ \E state : Asks(k, state, pending \ {r})
    BY <2>1 DEF ReceiveCreated, ReceiveDone, ReceiveAttached, ReceiveDetached, ReceiveReconciled
  <2> QED BY <1>2, <2>2, <2>3, <2>4, BoundClient
<1>8. ASSUME NEW l \in Leases,
             \/ createSession(l) \/ request(l)
             \/ \E mode \in {"shared", "exclusive"} : acquireSession(l, mode)
             \/ \E how \in {"detaching", "disposing"} : release(l, how)
      PROVE  BoundInv'
  <2> DEFINE k == OwnerOf(l)
  <2>1. k \in Clients
    BY RemoteAssumption
  <2>2. Called /\ client[k].connected
    BY <1>8 DEF createSession, request, acquireSession, release, Usable, Connected
  <2>3. UNCHANGED <<stage, sessionIds, tasks, faults>>
    BY <1>8 DEF createSession, request, acquireSession, release, connVars, serverVars, sessions
  <2>4. \/ toServer' = toServer \/ (\E state : Asks(k, state, pending))
        \/ \E cmd \in {"create", "detach", "op"} : Requested(k, cmd, l, pending)
    BY <1>8 DEF createSession, request, acquireSession, release
  <2> HIDE DEF k
  <2> QED BY <1>2, <2>1, <2>2, <2>3, <2>4, BoundClient
<1>9. ASSUME Server PROVE BoundInv'
  <2>1. calls' = calls /\ closed \subseteq Conns
    BY <1>9 DEF Server, clientVars, AnswerInv, Owned
  <2>2. ASSUME NEW c \in Conns, SendHello(c) \/ Gone(c) \/ Break(c) PROVE BoundInv'
    BY <2>1, <2>2, BoundConnection
  <2>3. ASSUME ServerGoes PROVE BoundInv'
    BY <2>1, <2>2, <2>3, BoundTasks DEF ServerGoes
  <2>4. ASSUME ServerFails PROVE BoundInv'
    BY <2>1, <2>2, <2>4, BoundTasks DEF ServerFails
  <2> QED BY <1>9, <2>1, <2>2, <2>3, <2>4, BoundTasks DEF Server
<1>10. ASSUME Users PROVE BoundInv'
  BY <1>4, <1>5, <1>8, <1>10 DEF Users
<1>11. ASSUME Arrival PROVE BoundInv'
  BY <1>4, <1>6, <1>7, <1>11, BoundDispatch DEF Arrival, Receive, clientVars
<1>12. ASSUME StartBroadcast, UNCHANGED clientVars PROVE BoundInv'
  BY <1>12, BoundTasks DEF clientVars
<1> QED BY <1>3, <1>9, <1>10, <1>11, <1>12 DEF Next

LEMMA BoundInit ==
    ASSUME Init
    PROVE  BoundInv
<1>1. /\ calls = 0 /\ faults = 0 /\ sessionIds = {} /\ tasks = {} /\ lastRequest = 0
  BY DEF Init, ServerInit
<1>2. OpIds = {}
  BY <1>1 DEF OpIds
<1>3. Cardinality(OpIds) = 0
  BY <1>2, FS_EmptySet
<1> QED BY <1>1, <1>3, RemoteAssumption DEF BoundInv

(* The operations of a runtime are different requests.                     *)
LEMMA OperationsBounded ==
    ASSUME BoundInv, RuntimeInv, NEW i \in DOMAIN lives
    PROVE  lives[i].operationCount \in 0..MaxCalls
<1>1. /\ IsFiniteSet(Running(i)) /\ lives[i].operationCount = Cardinality(Running(i)) /\ Numbered
  BY DEF RuntimeInv, Counted
<1>2. /\ IsFiniteSet(OpIds) /\ Cardinality(OpIds) \in Nat /\ OpIds \subseteq 1..lastRequest /\ lastRequest \in Nat
      /\ \A t \in Running(i) : t \in tasks /\ t.id \in OpIds
  BY OpFacts DEF Running
<1> DEFINE f == [t \in Running(i) |-> t.id]
<1>3. f \in [Running(i) -> OpIds]
  BY <1>2
<1>4. \A t, u \in Running(i) : f[t] = f[u] => t = u
  BY <1>1, <1>2 DEF Numbered
<1>5. f \in Injection(Running(i), OpIds)
  BY <1>3, <1>4 DEF Injection, IsInjective
<1> HIDE DEF f
<1>6. Cardinality(Running(i)) <= Cardinality(OpIds)
  BY <1>1, <1>2, <1>5, FS_Injection
<1>7. Cardinality(Running(i)) \in Nat
  BY <1>1, FS_CardinalityType
<1> QED BY <1>1, <1>2, <1>6, <1>7, RemoteAssumption DEF BoundInv

LEMMA LeasesAreInvariant == Spec => [](LeaseInv /\ BoundInv)
<1>1. Init => LeaseInv /\ BoundInv
  BY LeaseInit, BoundInit
<1>2. (LeaseInv /\ BoundInv) /\ (RuntimeInv /\ closed \subseteq Conns) /\ AnswerInv /\ [Next]_vars => (LeaseInv /\ BoundInv)'
  BY LeaseNext, BoundNext
<1> QED BY <1>1, <1>2, RuntimeIsInvariant, AnswersAreInvariant, PTL DEF Spec

(* The state is well typed, only connections that are there are attached,  *)
(* and an exclusive lease is the only one of its client, whatever fails,   *)
(* breaks or is under way.                                                 *)
THEOREM ExclusiveLeases == Spec => []Exclusive
<1>1. LeaseInv /\ BoundInv /\ (RuntimeInv /\ closed \subseteq Conns) /\ AnswerInv => Exclusive
  <2> SUFFICES ASSUME LeaseInv, BoundInv, RuntimeInv, AnswerInv PROVE Exclusive
    OBVIOUS
  <2>1. client \in [Clients -> [conn : 0..MaxConnects, connected : BOOLEAN, attached : BOOLEAN,
                                revision : Nat, count : 0..Cardinality(Leases),
                                exclusive : Leases \cup {None}, cleanup : BOOLEAN]]
    <3>1. ASSUME NEW k \in Clients PROVE client[k].count \in 0..Cardinality(Leases)
      BY HeldFacts DEF LeaseInv, Tidy
    <3>2. client \in [Clients -> Client]
      BY DEF AnswerInv, Owned
    <3> QED BY <3>1, <3>2 DEF Client
  <2>2. lease \in [Leases -> [state : LeaseStates, mode : {"shared", "exclusive"}]]
    BY DEF LeaseInv
  <2>3. \A r \in pending : r.id \in 1..lastRequest /\ client[r.client].connected
    <3> SUFFICES ASSUME NEW r \in pending PROVE r.id \in 1..lastRequest /\ client[r.client].connected
      OBVIOUS
    <3>1. r.id \in Nat \ {0} /\ r.id <= lastRequest /\ client[r.client].connected /\ lastRequest \in Nat
      BY DEF AnswerInv, Asked, Request, RuntimeInv, Shape
    <3> QED BY <3>1
  <2>4. /\ stage \in [Conns -> {"none", "handshaking", "ready", "closed"}]
        /\ live \in 0..Len(lives)
        /\ opening \in {"no", "acquiring", "snapshot"}
        /\ \A t \in tasks : t.at \in {"disposal", "opening", "attached", "telling", "running"}
    BY DEF RuntimeInv, Shape, ServerTask
  <2>5. sessionIds \subseteq {c \in Conns : stage[c] = "ready"} /\ calls \in 0..MaxCalls /\ faults \in 0..MaxFaults
    BY DEF BoundInv
  <2>6. \A i \in DOMAIN lives : /\ lives[i].connections \subseteq Conns
                                /\ lives[i].disposing \in {"no", "yes", "done"}
                                /\ lives[i].operationCount \in 0..MaxCalls
    <3> SUFFICES ASSUME NEW i \in DOMAIN lives
                 PROVE  /\ lives[i].connections \subseteq Conns
                        /\ lives[i].disposing \in {"no", "yes", "done"}
                        /\ lives[i].operationCount \in 0..MaxCalls
      OBVIOUS
    <3>1. lives[i] \in Live
      BY ShapeFacts DEF RuntimeInv
    <3> QED BY <3>1, OperationsBounded DEF Live
  <2>7. (opening # "no") <=> \E t \in tasks : t.at = "opening"
    BY DEF RuntimeInv, OneLive
  <2>8. TypeOK
    BY <2>1, <2>2, <2>3, <2>4, <2>5, <2>6, <2>7 DEF TypeOK
  <2>9. ASSUME NEW l \in Leases, NEW m \in Leases, l # m, OwnerOf(l) = OwnerOf(m), lease[l].mode = "exclusive",
               lease[l].state \notin {"free", "creating"}
        PROVE  lease[m].state \in {"free", "creating"}
    <3> DEFINE k == OwnerOf(l)
    <3>1. k \in Clients /\ l \in Held(k) /\ (m \notin Held(k) => lease[m].state \in {"free", "creating"})
      BY <2>9, RemoteAssumption DEF Held, Of
    <3> HIDE DEF k
    <3>2. client[k].exclusive = l /\ l # None
      BY <2>9, <3>1, RemoteAssumption DEF LeaseInv, Tidy
    <3>3. Held(k) = {l}
      BY <3>1, <3>2 DEF LeaseInv, Tidy
    <3> QED BY <2>9, <3>1, <3>3
  <2> QED BY <2>8, <2>9 DEF Exclusive
<1> QED BY <1>1, LeasesAreInvariant, RuntimeIsInvariant, AnswersAreInvariant, PTL
=============================================================================
