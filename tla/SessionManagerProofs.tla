----------------------- MODULE SessionManagerProofs -----------------------
(***************************************************************************)
(* Theorems about SessionManager, for any bounds and types of entries.     *)
(***************************************************************************)
EXTENDS SessionManager, WellFoundedInduction, FiniteSetTheorems, TLAPS

(* Natural numbers: facts without an operator parameter, so that every     *)
(* installed prover can use them.                                          *)

(* A set of natural numbers that is not empty has a least element.         *)
LEMMA LeastNat ==
    ASSUME NEW T, T \subseteq Nat, T # {}
    PROVE  \E n \in T : \A m \in T : n <= m
<1> DEFINE R == OpToRel(<, Nat)
<1>1. IsWellFoundedOn(R, Nat)
  BY NatLessThanWellFounded
<1>2. \A x, y \in Nat : y < x => <<y, x>> \in R
  BY DEF OpToRel
<1> HIDE DEF R
<1>3. \E x \in T : \A y \in T : ~ (<<y, x>> \in R)
  BY <1>1, WFMin
<1>4. PICK x \in T : \A y \in T : ~ (<<y, x>> \in R)
  BY <1>3
<1>5. ASSUME NEW y \in T PROVE x <= y
  <2>1. x \in Nat /\ y \in Nat
    OBVIOUS
  <2>2. ~(y < x)
    BY <2>1, <1>2, <1>4, Zenon
  <2> QED BY <2>1, <2>2
<1> QED BY <1>5

(* Induction: a set that has 0, and n + 1 with each n, has them all.       *)
LEMMA NatInd ==
    ASSUME NEW S, 0 \in S, \A n \in Nat : n \in S => n + 1 \in S
    PROVE  Nat \subseteq S
<1> DEFINE T == Nat \ S
<1> SUFFICES ASSUME T # {} PROVE FALSE
  OBVIOUS
<1>1. PICK x \in T : \A m \in T : x <= m
  BY LeastNat
<1>2. x # 0 /\ x - 1 \in Nat /\ x - 1 \notin T
  BY <1>1
<1> QED BY <1>2

Lines == Seq(Entry \cup {Header})

(* Every entry is younger than its parent, and none is younger than n.     *)
Grown(es, n) ==
    /\ es \in Seq(Entry)
    /\ \A i \in 1..Len(es) : es[i].parentId < es[i].id /\ es[i].id <= n

(* The lines of a file are a header, or what is left of one, and entries.  *)
FileGrown(ls, n) ==
    /\ ls \in Lines
    /\ \A i \in 2..Len(ls) : ls[i] \in Entry /\ ls[i].parentId < ls[i].id /\ ls[i].id <= n

(* Every entry comes after its parent.                                     *)
Connected(es) ==
    \A i \in 1..Len(es) : es[i].parentId \in {0} \cup {es[j].id : j \in 1..(i - 1)}

FileConnected(ls) ==
    \A i \in 2..Len(ls) : ls[i].parentId \in {0} \cup {ls[j].id : j \in 2..(i - 1)}

Prepared ==
    preparation # None =>
        /\ preparation.firstKept \in 1..MaxEntries
        /\ preparation.summary \cup preparation.previous \subseteq 1..MaxEntries

(* Without a fault the file ends with a newline and begins with its header. *)
FaultFree ==
    faults = 0 =>
        /\ tail = "whole"
        /\ Parsed # <<>> => Parsed[1] = Header
        /\ alive /\ flushed => file = <<Header>> \o fileEntries
        /\ Connected(fileEntries) /\ FileConnected(Parsed)

(* A cut line, or one without newline, has cost nothing yet, but will: the *)
(* line that is added to it.                                               *)
Losses ==
    Cardinality(stored \ Written(Base)) + (IF tail = "whole" THEN 0 ELSE 1) <= faults

SInv ==
    /\ TypeOK
    /\ file = None \/ file \in Lines
    /\ Grown(fileEntries, lastId) /\ FileGrown(Parsed, lastId)
    /\ Prepared /\ FaultFree /\ Losses

----------------------------------------------------------------------------
(* A walk to the root.  f is the function branchWithout() defines by       *)
(* recursion; it exists, as a parent is older than its entry.              *)

EntryOf(es, id) == CHOOSE e \in ToSet(es) : e.id = id

Walk(f, es, types) ==
    f = [id \in 0..MaxEntries |->
            IF id \notin Ids(es) THEN <<>>
            ELSE LET e == CHOOSE e \in ToSet(es) : e.id = id
                 IN  IF e.type \in types THEN f[e.parentId] ELSE Append(f[e.parentId], e)]

Below(f, es, types, id) ==
    IF id \notin Ids(es) THEN <<>>
    ELSE IF EntryOf(es, id).type \in types THEN f[EntryOf(es, id).parentId]
         ELSE Append(f[EntryOf(es, id).parentId], EntryOf(es, id))

LEMMA EntryIds ==
    \A e \in Entry : /\ e.id \in 1..MaxEntries /\ e.id \in Nat
                    /\ e.parentId \in 0..MaxEntries /\ e.parentId \in Nat
<1>1. \A e \in Entry : e.id \in 1..MaxEntries /\ e.parentId \in 0..MaxEntries
  BY DEF Entry
<1> QED BY <1>1

LEMMA EntryFacts ==
    ASSUME NEW n, NEW es, Grown(es, n), NEW id \in Ids(es)
    PROVE  /\ EntryOf(es, id) \in Entry /\ EntryOf(es, id) \in ToSet(es) /\ EntryOf(es, id).id = id
           /\ id \in 1..MaxEntries /\ EntryOf(es, id).parentId \in 0..MaxEntries
           /\ EntryOf(es, id).parentId < id
<1>1. DOMAIN es = 1..Len(es) /\ \A i \in 1..Len(es) : es[i] \in Entry
  BY DEF Grown
<1>2. PICK i \in 1..Len(es) : es[i].id = id
  BY <1>1 DEF Ids
<1>3. es[i] \in ToSet(es)
  BY <1>1 DEF ToSet
<1>4. EntryOf(es, id) \in ToSet(es) /\ EntryOf(es, id).id = id
  BY <1>2, <1>3 DEF EntryOf
<1>5. PICK j \in 1..Len(es) : EntryOf(es, id) = es[j]
  BY <1>1, <1>4 DEF ToSet
<1>6. EntryOf(es, id) \in Entry /\ EntryOf(es, id).parentId < EntryOf(es, id).id
  BY <1>1, <1>5 DEF Grown
<1> QED BY <1>4, <1>6 DEF Entry

LEMMA WalkBelow ==
    ASSUME NEW f, NEW es, NEW types, NEW id \in 0..MaxEntries, Walk(f, es, types)
    PROVE  f[id] = Below(f, es, types, id)
<1> DEFINE v(x) == IF x \notin Ids(es) THEN <<>>
                   ELSE LET e == CHOOSE e \in ToSet(es) : e.id = x
                        IN  IF e.type \in types THEN f[e.parentId] ELSE Append(f[e.parentId], e)
<1>1. f = [x \in 0..MaxEntries |-> v(x)]
  BY DEF Walk
<1>2. v(id) = Below(f, es, types, id)
  BY DEF Below, EntryOf
<1> HIDE DEF v
<1> QED BY <1>1, <1>2

LEMMA WalkExists ==
    ASSUME NEW n, NEW es, Grown(es, n), NEW types
    PROVE  \E f : Walk(f, es, types)
<1> DEFINE Upto(f, k) == /\ f = [id \in 0..MaxEntries |-> f[id]]
                         /\ \A id \in 0..MaxEntries : id < k => f[id] = Below(f, es, types, id)
           P == {k \in Nat : \E f : Upto(f, k)}
<1>1. 0 \in P
  <2>1. Upto([id \in 0..MaxEntries |-> <<>>], 0)
    OBVIOUS
  <2> QED BY <2>1
<1>2. ASSUME NEW k \in Nat, k \in P PROVE k + 1 \in P
  <2>1. PICK f : Upto(f, k)
    BY <1>2
  <2> DEFINE b == Below(f, es, types, k)
             g == [id \in 0..MaxEntries |-> IF id = k THEN b ELSE f[id]]
  <2>2. g = [id \in 0..MaxEntries |-> g[id]]
    OBVIOUS
  <2>3. \A id \in 0..MaxEntries : g[id] = IF id = k THEN b ELSE f[id]
    OBVIOUS
  <2> HIDE DEF b, g
  <2>4. ASSUME NEW id \in 0..MaxEntries, id <= k
        PROVE  Below(g, es, types, id) = Below(f, es, types, id)
    <3>1. CASE id \notin Ids(es)
      BY <3>1 DEF Below
    <3>2. CASE id \in Ids(es)
      <4> DEFINE p == EntryOf(es, id).parentId
      <4>1. p \in 0..MaxEntries /\ p < id /\ p # k
        BY <2>4, <3>2, EntryFacts, SessionAssumption
      <4>2. g[p] = f[p]
        BY <2>3, <4>1
      <4> QED BY <4>2 DEF Below
    <3> QED BY <3>1, <3>2
  <2>5. ASSUME NEW id \in 0..MaxEntries, id < k + 1
        PROVE  g[id] = Below(g, es, types, id)
    <3>1. id <= k
      BY <2>5, SessionAssumption
    <3>2. CASE id = k
      BY <2>3, <2>4, <3>1, <3>2 DEF b
    <3>3. CASE id # k
      <4>1. id < k
        BY <3>1, <3>3, SessionAssumption
      <4>2. f[id] = Below(f, es, types, id)
        BY <2>1, <4>1
      <4> QED BY <2>3, <2>4, <3>1, <3>3, <4>2
    <3> QED BY <3>2, <3>3
  <2>6. Upto(g, k + 1)
    BY <2>2, <2>5
  <2>7. \E h : Upto(h, k + 1)
    BY <2>6
  <2> HIDE DEF Upto
  <2> QED BY <2>7
<1>3. MaxEntries + 1 \in P
  <2> HIDE DEF P
  <2>1. Nat \subseteq P
    BY <1>1, <1>2, NatInd
  <2> QED BY <2>1, SessionAssumption
<1>4. PICK f : Upto(f, MaxEntries + 1)
  BY <1>3
<1>5. /\ f = [id \in 0..MaxEntries |-> f[id]]
      /\ \A id \in 0..MaxEntries : f[id] = Below(f, es, types, id)
  BY <1>4, SessionAssumption
<1> DEFINE g == [id \in 0..MaxEntries |->
                   IF id \notin Ids(es) THEN <<>>
                   ELSE LET e == CHOOSE e \in ToSet(es) : e.id = id
                        IN  IF e.type \in types THEN f[e.parentId] ELSE Append(f[e.parentId], e)]
<1>6. /\ g = [id \in 0..MaxEntries |-> g[id]]
      /\ \A id \in 0..MaxEntries : g[id] = Below(f, es, types, id)
  BY DEF Below, EntryOf
<1>7. f = g
  <2> HIDE DEF g
  <2> QED BY <1>5, <1>6
<1> QED BY <1>7 DEF Walk

(* What a walk is: entries of es, each younger than the one before it, and *)
(* the last of them the entry it began at, unless its type is left out.    *)
Branch(s, es, types, from) ==
    /\ s \in Seq(Entry)
    /\ \A i \in 1..Len(s) : s[i] \in ToSet(es) /\ s[i].id <= from
    /\ \A i, j \in 1..Len(s) : i < j => s[i].id < s[j].id
    /\ from \in Ids(es) /\ types = {} => s # <<>> /\ s[Len(s)] = EntryOf(es, from)

LEMMA BranchGrows ==
    ASSUME NEW s \in Seq(Entry), NEW e \in Entry, NEW p \in Nat, p < e.id, NEW S, e \in S,
           \A i \in 1..Len(s) : s[i] \in S /\ s[i].id <= p,
           \A i, j \in 1..Len(s) : i < j => s[i].id < s[j].id,
           NEW t, t = Append(s, e)
    PROVE  /\ t \in Seq(Entry) /\ t # <<>> /\ t[Len(t)] = e
           /\ \A i \in 1..Len(t) : t[i] \in S /\ t[i].id <= e.id
           /\ \A i, j \in 1..Len(t) : i < j => t[i].id < t[j].id
<1>0. /\ t \in Seq(Entry) /\ Len(t) = Len(s) + 1 /\ Len(s) \in Nat /\ t[Len(t)] = e
      /\ \A i \in 1..Len(s) : t[i] = s[i] /\ s[i] \in Entry
  OBVIOUS
<1>1. /\ t \in Seq(Entry) /\ Len(t) = Len(s) + 1 /\ Len(s) \in Nat /\ t[Len(t)] = e
      /\ \A i \in 1..Len(s) : t[i] = s[i] /\ s[i].id \in Nat
  <2>1. \A x \in Entry : x.id \in Nat
    BY DEF Entry
  <2> QED BY <1>0, <2>1
<1>2. e.id \in Nat
  BY DEF Entry
<1>3. \A i \in 1..Len(t) : i = Len(t) \/ i \in 1..Len(s)
  BY <1>1
<1>4. \A i \in 1..Len(t) : t[i] \in S /\ t[i].id <= e.id
  BY <1>1, <1>2, <1>3
<1>5. \A i, j \in 1..Len(t) : i < j => t[i].id < t[j].id
  <2> SUFFICES ASSUME NEW i \in 1..Len(t), NEW j \in 1..Len(t), i < j PROVE t[i].id < t[j].id
    OBVIOUS
  <2>1. i \in 1..Len(s)
    BY <1>1
  <2>2. CASE j = Len(t)
    BY <1>1, <1>2, <2>1, <2>2
  <2>3. CASE j \in 1..Len(s)
    BY <1>1, <2>1, <2>3
  <2> QED BY <1>3, <2>2, <2>3
<1>6. t # <<>>
  BY <1>1
<1> QED BY <1>1, <1>4, <1>5, <1>6

LEMMA BranchFacts ==
    ASSUME NEW n, NEW es, Grown(es, n), NEW types, NEW from \in 0..MaxEntries
    PROVE  Branch(branchWithout(es, from, types), es, types, from)
<1> DEFINE f == CHOOSE g : Walk(g, es, types)
<1>1. Walk(f, es, types)
  BY WalkExists
<1>2. branchWithout(es, from, types) = f[from]
  BY Zenon DEF branchWithout, Walk
<1> HIDE DEF f
<1> DEFINE P == {k \in Nat : \A id \in 0..MaxEntries : id < k => Branch(f[id], es, types, id)}
<1>3. 0 \in P
  OBVIOUS
<1>4. ASSUME NEW k \in Nat, k \in P PROVE k + 1 \in P
  <2> SUFFICES ASSUME NEW id \in 0..MaxEntries, id < k + 1 PROVE Branch(f[id], es, types, id)
    OBVIOUS
  <2>1. f[id] = Below(f, es, types, id)
    BY <1>1, WalkBelow
  <2>2. CASE id \notin Ids(es)
    <3>1. f[id] = <<>>
      BY <2>1, <2>2 DEF Below
    <3> QED BY <2>2, <3>1 DEF Branch
  <2>3. CASE id \in Ids(es)
    <3> DEFINE e == EntryOf(es, id)
               p == e.parentId
    <3>1. /\ e \in Entry /\ e \in ToSet(es) /\ e.id = id /\ p \in 0..MaxEntries /\ p < id
          /\ id \in Nat /\ p \in Nat
      BY <2>3, EntryFacts, SessionAssumption
    <3>2. p < k
      BY <3>1, SessionAssumption
    <3>3. Branch(f[p], es, types, p)
      BY <1>4, <3>1, <3>2
    <3> HIDE DEF e
    <3>4. CASE e.type \in types
      <4>1. f[id] = f[p]
        BY <2>1, <2>3, <3>4 DEF Below, e
      <4>2. \A i \in 1..Len(f[p]) : f[p][i].id \in Nat
        <5>1. f[p] \in Seq(Entry)
          BY <3>3 DEF Branch
        <5>2. \A i \in 1..Len(f[p]) : f[p][i] \in Entry
          BY <5>1
        <5> QED BY <5>2 DEF Entry
      <4>3. \A i \in 1..Len(f[p]) : f[p][i].id <= id
        BY <3>1, <3>3, <4>2 DEF Branch
      <4>4. types # {}
        BY <3>4
      <4> QED BY <3>3, <4>1, <4>3, <4>4 DEF Branch
    <3>5. CASE e.type \notin types
      <4>1. f[id] = Append(f[p], e)
        BY <2>1, <2>3, <3>5 DEF Below, e
      <4>2. PICK s \in Seq(Entry) : s = f[p]
        BY <3>3 DEF Branch
      <4>3. /\ \A i \in 1..Len(s) : s[i] \in ToSet(es) /\ s[i].id <= p
            /\ \A i, j \in 1..Len(s) : i < j => s[i].id < s[j].id
        BY <3>3, <4>2 DEF Branch
      <4>4. PICK t : t = Append(s, e)
        OBVIOUS
      <4>5. /\ t \in Seq(Entry) /\ t # <<>> /\ t[Len(t)] = e
            /\ \A i \in 1..Len(t) : t[i] \in ToSet(es) /\ t[i].id <= e.id
            /\ \A i, j \in 1..Len(t) : i < j => t[i].id < t[j].id
        BY <3>1, <4>3, <4>4, BranchGrows
      <4>6. f[id] = t
        BY <4>1, <4>2, <4>4
      <4> QED BY <3>1, <4>5, <4>6 DEF Branch, e
    <3> QED BY <3>4, <3>5
  <2> QED BY <2>2, <2>3
<1>5. Nat \subseteq P
  <2> HIDE DEF P
  <2> QED BY <1>3, <1>4, NatInd
<1>6. from + 1 \in Nat /\ from < from + 1
  BY SessionAssumption
<1>7. Branch(f[from], es, types, from)
  BY <1>5, <1>6
<1> QED BY <1>2, <1>7
----------------------------------------------------------------------------
(* Sets of places, and sequences.                                          *)

LEMMA MinIn ==
    ASSUME NEW T, T \subseteq Nat, T # {}
    PROVE  Min(T) \in T /\ \A x \in T : Min(T) <= x
<1>1. \E n \in T : \A m \in T : n <= m
  BY LeastNat
<1> QED BY <1>1 DEF Min

LEMMA MaxIn ==
    ASSUME NEW T, T \subseteq Nat, T # {}, NEW b \in Nat, \A x \in T : x <= b
    PROVE  Max(T) \in T /\ \A x \in T : x <= Max(T)
<1> DEFINE U == {b - x : x \in T}
<1>1. U \subseteq Nat /\ U # {}
  <2>1. \A x \in T : b - x \in Nat
    OBVIOUS
  <2> QED BY <2>1
<1>2. PICK u \in U : \A m \in U : u <= m
  <2> HIDE DEF U
  <2> QED BY <1>1, LeastNat
<1>3. PICK x \in T : u = b - x
  OBVIOUS
<1>4. \A y \in T : x >= y
  <2> SUFFICES ASSUME NEW y \in T PROVE x >= y
    OBVIOUS
  <2>1. u <= b - y
    BY <1>2
  <2> QED BY <1>3, <2>1
<1>5. Max(T) \in T /\ \A y \in T : Max(T) >= y
  BY <1>4 DEF Max
<1> QED BY <1>5

LEMMA CatParts ==
    ASSUME NEW S, NEW p \in Seq(S), NEW q \in Seq(S)
    PROVE  /\ p \o q \in Seq(S) /\ Len(p \o q) = Len(p) + Len(q) /\ Len(p) \in Nat /\ Len(q) \in Nat
           /\ \A i \in 1..Len(p) : (p \o q)[i] = p[i]
           /\ \A i \in 1..Len(q) : (p \o q)[Len(p) + i] = q[i]
           /\ \A i \in 1..Len(p \o q) : i \in 1..Len(p) \/ i - Len(p) \in 1..Len(q)
OBVIOUS

LEMMA SeqEqual ==
    ASSUME NEW S, NEW s \in Seq(S), NEW t \in Seq(S), Len(s) = Len(t),
           \A i \in 1..Len(s) : s[i] = t[i]
    PROVE  s = t
OBVIOUS

(* A finite set of references as a sequence.                               *)
LEMMA ListedSet ==
    ASSUME NEW S, IsFiniteSet(S)
    PROVE  /\ SetToSeq(S) \in Seq(S) /\ DOMAIN SetToSeq(S) = 1..Len(SetToSeq(S))
           /\ \A i \in 1..Len(SetToSeq(S)) : SetToSeq(S)[i] \in S
<1>1. Cardinality(S) \in Nat /\ ExistsBijection(1..Cardinality(S), S)
  BY FS_CardinalityType
<1>2. PICK f : f \in Bijection(1..Cardinality(S), S)
  BY <1>1 DEF ExistsBijection
<1>3. f \in [1..Cardinality(S) -> S] /\ IsInjective(f)
  BY <1>2 DEF Bijection, Injection
<1> DEFINE g == SetToSeq(S)
<1>4. g \in [1..Cardinality(S) -> S]
  BY <1>2, <1>3 DEF SetToSeq
<1> HIDE DEF g
<1>5. g \in Seq(S) /\ DOMAIN g = 1..Len(g) /\ \A i \in 1..Len(g) : g[i] \in S
  BY <1>1, <1>4
<1> QED BY <1>5 DEF g
(* The path of a fork: without labels, and linked anew.                    *)
LEMMA RechainedFacts ==
    ASSUME NEW n \in Nat, NEW es, Grown(es, n), NEW from \in 0..MaxEntries, NEW types,
           NEW p, p = Rechained(branchWithout(es, from, types))
    PROVE  /\ Grown(p, n) /\ Len(p) \in Nat
           /\ \A i \in 1..Len(p) : p[i].parentId = IF i = 1 THEN 0 ELSE p[i - 1].id
<1>1. PICK s : s = branchWithout(es, from, types)
  OBVIOUS
<1>2. /\ s \in Seq(Entry)
      /\ \A i \in 1..Len(s) : s[i] \in ToSet(es)
      /\ \A i, j \in 1..Len(s) : i < j => s[i].id < s[j].id
  BY <1>1, BranchFacts DEF Branch
<1>3. DOMAIN s = 1..Len(s) /\ Len(s) \in Nat /\ \A i \in 1..Len(s) : s[i] \in Entry
  BY <1>2
<1>4. \A i \in 1..Len(s) : s[i].id <= n
  <2> SUFFICES ASSUME NEW i \in 1..Len(s) PROVE s[i].id <= n
    OBVIOUS
  <2>1. PICK j \in DOMAIN es : s[i] = es[j]
    BY <1>2 DEF ToSet
  <2>2. j \in 1..Len(es)
    BY DEF Grown
  <2> QED BY <2>1, <2>2 DEF Grown
<1> DEFINE e(i) == [s[i] EXCEPT !.parentId = IF i = 1 THEN 0 ELSE s[i - 1].id]
<1>5. p = [i \in 1..Len(s) |-> e(i)]
  BY <1>1, <1>3 DEF Rechained
<1>6. ASSUME NEW i \in 1..Len(s)
      PROVE  /\ e(i) \in Entry /\ e(i).id = s[i].id /\ e(i).id <= n
             /\ e(i).parentId = (IF i = 1 THEN 0 ELSE s[i - 1].id)
             /\ e(i).parentId < e(i).id
  <2>1. PICK q : q = IF i = 1 THEN 0 ELSE s[i - 1].id
    OBVIOUS
  <2>2. q \in 0..MaxEntries /\ q < s[i].id
    <3>1. CASE i = 1
      BY <1>3, <2>1, <3>1, SessionAssumption DEF Entry
    <3>2. CASE i # 1
      <4>1. i - 1 \in 1..Len(s) /\ i - 1 < i
        BY <1>3, <3>2
      <4>2. s[i - 1].id < s[i].id /\ s[i - 1] \in Entry
        BY <1>2, <1>3, <4>1
      <4> QED BY <2>1, <3>2, <4>2, SessionAssumption DEF Entry
    <3> QED BY <3>1, <3>2
  <2>3. e(i) = [s[i] EXCEPT !.parentId = q]
    BY <2>1
  <2>4. s[i] \in Entry
    BY <1>3
  <2> HIDE DEF e
  <2> QED BY <1>4, <2>1, <2>2, <2>3, <2>4 DEF Entry
<1> HIDE DEF e
<1>7. p \in Seq(Entry) /\ Len(p) = Len(s) /\ \A i \in 1..Len(p) : p[i] = e(i)
  BY <1>3, <1>5, <1>6
<1>8. Grown(p, n)
  BY <1>6, <1>7 DEF Grown
<1>9. \A i \in 1..Len(p) : p[i].parentId = IF i = 1 THEN 0 ELSE p[i - 1].id
  <2> SUFFICES ASSUME NEW i \in 1..Len(p), i # 1 PROVE p[i].parentId = p[i - 1].id
    BY <1>6, <1>7
  <2>1. i - 1 \in 1..Len(s) /\ i \in 1..Len(s)
    BY <1>3, <1>7
  <2> QED BY <1>6, <1>7, <2>1
<1> QED BY <1>3, <1>7, <1>8, <1>9

(* What a fork makes of the entries of the file.                           *)
LEMMA BranchedFacts ==
    ASSUME NEW es, lastId \in 0..MaxEntries, Grown(es, lastId), NEW target \in 0..MaxEntries,
           NEW b, b = Branched(es, target), Ids(b) \subseteq 1..MaxEntries,
           NEW n \in Nat, \A x \in Ids(b) : x <= n
    PROVE  Grown(b, n) /\ Connected(b)
<1>0. lastId \in Nat /\ MaxEntries \in Nat
  BY SessionAssumption
<1>1. PICK p : p = Rechained(branchWithout(es, target, LeftOut))
  OBVIOUS
<1>2. /\ Grown(p, lastId) /\ Len(p) \in Nat
      /\ \A i \in 1..Len(p) : p[i].parentId = IF i = 1 THEN 0 ELSE p[i - 1].id
  BY <1>0, <1>1, RechainedFacts
<1> DEFINE S == {e.ref : e \in {f \in ToSet(es) : f.type = "label"}} \cap Ids(p)
<1>3. IsFiniteSet(S) /\ S \subseteq 0..MaxEntries
  <2>1. \A i \in 1..Len(p) : p[i] \in Entry
    BY <1>2 DEF Grown
  <2>2. Ids(p) \subseteq 1..MaxEntries
    <3>1. DOMAIN p = 1..Len(p)
      BY <1>2 DEF Grown
    <3>2. \A i \in 1..Len(p) : p[i].id \in 1..MaxEntries
      BY <2>1 DEF Entry
    <3> QED BY <3>1, <3>2 DEF Ids
  <2>3. IsFiniteSet(1..MaxEntries)
    BY <1>0, FS_Interval
  <2> HIDE DEF Ids
  <2>4. S \in SUBSET (1..MaxEntries)
    BY <2>2
  <2> HIDE DEF S
  <2>5. IsFiniteSet(S)
    BY <2>3, <2>4, FS_Subset
  <2> QED BY <1>0, <2>4, <2>5
<1>4. S # {} => "label" \in Types
  <2> SUFFICES ASSUME S # {} PROVE "label" \in Types
    OBVIOUS
  <2>1. PICK f \in ToSet(es) : f.type = "label"
    OBVIOUS
  <2>2. f \in Entry
    BY <2>1 DEF Grown, ToSet
  <2> QED BY <2>1, <2>2 DEF Entry
<1>5. PICK marks : /\ marks = SetToSeq(S) /\ DOMAIN marks = 1..Len(marks) /\ Len(marks) \in Nat
                   /\ \A i \in 1..Len(marks) : marks[i] \in S
  <2> HIDE DEF S
  <2>1. SetToSeq(S) \in Seq(S) /\ DOMAIN SetToSeq(S) = 1..Len(SetToSeq(S))
        /\ \A i \in 1..Len(SetToSeq(S)) : SetToSeq(S)[i] \in S
    BY <1>3, ListedSet
  <2> DEFINE m == SetToSeq(S)
  <2>2. m \in Seq(S) /\ DOMAIN m = 1..Len(m) /\ \A i \in 1..Len(m) : m[i] \in S
    BY <2>1
  <2> HIDE DEF m
  <2>3. Len(m) \in Nat
    BY <2>2
  <2> QED BY <2>2, <2>3 DEF m
<1> DEFINE l(i) == [id |-> lastId + i, type |-> "label", ref |-> marks[i], summary |-> {},
                    parentId |-> IF i > 1 THEN lastId + i - 1
                                 ELSE IF p = <<>> THEN 0 ELSE Last(p).id]
           L == [i \in 1..Len(marks) |-> l(i)]
           Q == Entry \cup {l(i) : i \in 1..Len(marks)}
<1>6. b = p \o L
  BY <1>1, <1>5 DEF Branched
<1>7. /\ p \in Seq(Q) /\ L \in Seq(Q) /\ Len(L) = Len(marks) /\ \A i \in 1..Len(L) : L[i] = l(i)
      /\ \A i \in 1..Len(p) : p[i] \in Entry
  <2>1. p \in Seq(Entry) /\ Entry \subseteq Q
    BY <1>2 DEF Grown
  <2>2. \A i \in 1..Len(marks) : l(i) \in Q
    OBVIOUS
  <2> HIDE DEF l, Q
  <2>3. p \in Seq(Q) /\ \A i \in 1..Len(p) : p[i] \in Entry
    BY <2>1
  <2> QED BY <1>5, <2>2, <2>3
<1> HIDE DEF L, Q
<1>8. /\ b \in Seq(Q) /\ Len(b) = Len(p) + Len(L)
      /\ \A i \in 1..Len(p) : b[i] = p[i]
      /\ \A i \in 1..Len(L) : b[Len(p) + i] = l(i)
      /\ \A i \in 1..Len(b) : i \in 1..Len(p) \/ i - Len(p) \in 1..Len(L)
  <2> HIDE DEF l
  <2>1. PICK T : T = Q
    OBVIOUS
  <2>2. PICK q \in Seq(T) : q = L
    BY <1>7, <2>1
  <2>3. PICK r \in Seq(T) : r = p
    BY <1>7, <2>1
  <2>4. /\ r \o q \in Seq(T) /\ Len(r \o q) = Len(r) + Len(q)
        /\ \A i \in 1..Len(r) : (r \o q)[i] = r[i]
        /\ \A i \in 1..Len(q) : (r \o q)[Len(r) + i] = q[i]
        /\ \A i \in 1..Len(r \o q) : i \in 1..Len(r) \/ i - Len(r) \in 1..Len(q)
    OBVIOUS
  <2>5. /\ b \in Seq(Q) /\ Len(b) = Len(p) + Len(L)
        /\ \A i \in 1..Len(p) : b[i] = p[i]
        /\ \A i \in 1..Len(L) : b[Len(p) + i] = L[i]
        /\ \A i \in 1..Len(b) : i \in 1..Len(p) \/ i - Len(p) \in 1..Len(L)
    BY <1>6, <2>1, <2>2, <2>3, <2>4, Zenon
  <2>6. \A i \in 1..Len(L) : b[Len(p) + i] = l(i)
    BY <1>7, <2>5
  <2> QED BY <2>5, <2>6
<1>9. DOMAIN b = 1..Len(b)
  BY <1>8
<1>10. \A i \in 1..Len(b) : b[i].id \in 1..MaxEntries /\ b[i].id <= n
  <2>1. \A i \in 1..Len(b) : b[i].id \in Ids(b)
    BY <1>9 DEF Ids
  <2> QED BY <2>1
<1>11. \A i \in 1..Len(p) : p[i].id \in 0..lastId
  <2>1. \A i \in 1..Len(p) : p[i] \in Entry /\ p[i].id <= lastId
    BY <1>2, <1>7 DEF Grown
  <2> QED BY <1>0, <2>1, EntryIds
<1>12. ASSUME NEW i \in 1..Len(L)
       PROVE  /\ l(i) \in Entry /\ l(i).parentId < l(i).id /\ l(i).id <= n
              /\ l(i).parentId = IF i > 1 THEN l(i - 1).id ELSE IF p = <<>> THEN 0 ELSE p[Len(p)].id
  <2>1. Len(p) + i \in 1..Len(b) /\ Len(p) + i \in Nat
    BY <1>2, <1>5, <1>7, <1>8
  <2>2. l(i).id \in 1..MaxEntries /\ l(i).id <= n
    BY <1>8, <1>10, <2>1
  <2>3. marks[i] \in 0..MaxEntries /\ "label" \in Types
    <3> HIDE DEF S
    <3> QED BY <1>3, <1>4, <1>5, <1>7
  <2>4. PICK q : q = IF i > 1 THEN lastId + i - 1 ELSE IF p = <<>> THEN 0 ELSE Last(p).id
    OBVIOUS
  <2>5. q \in 0..(lastId + i - 1)
    <3>1. CASE i > 1
      BY <1>0, <2>4, <3>1
    <3>2. CASE ~(i > 1) /\ p = <<>>
      BY <1>0, <2>4, <3>2
    <3>3. CASE ~(i > 1) /\ p # <<>>
      <4>1. Len(p) \in 1..Len(p)
        BY <1>7, <3>3
      <4>2. q = p[Len(p)].id
        BY <2>4, <3>3 DEF Last
      <4> QED BY <1>0, <1>11, <4>1, <4>2
    <3> QED BY <3>1, <3>2, <3>3
  <2>6. /\ l(i) = [id |-> lastId + i, type |-> "label", ref |-> marks[i], summary |-> {},
                   parentId |-> q]
        /\ l(i).id = lastId + i /\ l(i).parentId = q
    BY <2>4
  <2>7. q \in 0..MaxEntries /\ q < lastId + i
    BY <1>0, <2>2, <2>5, <2>6
  <2>8. l(i) \in Entry
    BY <2>2, <2>3, <2>6, <2>7 DEF Entry
  <2>9. q = IF i > 1 THEN l(i - 1).id ELSE IF p = <<>> THEN 0 ELSE p[Len(p)].id
    BY <1>0, <2>4 DEF Last
  <2> HIDE DEF l
  <2> QED BY <2>2, <2>6, <2>7, <2>8, <2>9
<1> HIDE DEF l
<1>13. ASSUME NEW i \in 1..Len(b)
       PROVE  b[i] \in Entry /\ b[i].parentId < b[i].id /\ b[i].id <= n
  <2>1. CASE i \in 1..Len(p)
    BY <1>2, <1>7, <1>8, <1>10, <2>1 DEF Grown
  <2>2. CASE i - Len(p) \in 1..Len(L)
    <3>1. b[i] = l(i - Len(p))
      <4>1. Len(p) + (i - Len(p)) = i
        BY <1>2
      <4> QED BY <1>8, <2>2, <4>1
    <3> QED BY <1>12, <2>2, <3>1
  <2> QED BY <1>8, <2>1, <2>2
<1>14. Grown(b, n)
  <2>1. b \in Seq(Entry)
    BY <1>8, <1>13
  <2> QED BY <1>13, <2>1 DEF Grown
<1>15. ASSUME NEW i \in 1..Len(b)
       PROVE  b[i].parentId \in {0} \cup {b[j].id : j \in 1..(i - 1)}
  <2>1. CASE i \in 1..Len(p)
    <3>1. CASE i = 1
      BY <1>2, <1>8, <2>1, <3>1
    <3>2. CASE i # 1
      <4>1. i - 1 \in 1..Len(p) /\ i - 1 \in 1..(i - 1)
        BY <1>2, <2>1, <3>2
      <4>2. b[i].parentId = b[i - 1].id
        BY <1>2, <1>8, <2>1, <3>2, <4>1
      <4> QED BY <4>1, <4>2
    <3> QED BY <3>1, <3>2
  <2>2. CASE i - Len(p) \in 1..Len(L)
    <3> DEFINE k == i - Len(p)
    <3>1. k \in 1..Len(L) /\ Len(p) + k = i /\ Len(L) \in Nat
      BY <1>2, <1>5, <1>7, <2>2
    <3>2. b[i] = l(k)
      BY <1>8, <3>1
    <3>3. CASE k > 1
      <4>1. k - 1 \in 1..Len(L) /\ Len(p) + (k - 1) = i - 1 /\ i - 1 \in 1..(i - 1)
        BY <1>2, <3>1, <3>3
      <4>2. b[i - 1] = l(k - 1)
        BY <1>8, <4>1
      <4>3. b[i].parentId = b[i - 1].id
        BY <1>12, <3>1, <3>2, <3>3, <4>2
      <4> QED BY <4>1, <4>3
    <3>4. CASE ~(k > 1) /\ p = <<>>
      BY <1>12, <3>1, <3>2, <3>4
    <3>5. CASE ~(k > 1) /\ p # <<>>
      <4>1. Len(p) \in 1..Len(p) /\ Len(p) \in 1..(i - 1)
        BY <1>2, <1>7, <3>1, <3>5
      <4>2. b[Len(p)] = p[Len(p)]
        BY <1>8, <4>1
      <4>3. b[i].parentId = b[Len(p)].id
        BY <1>12, <3>1, <3>2, <3>5, <4>2
      <4> QED BY <4>1, <4>3
    <3> QED BY <3>3, <3>4, <3>5
  <2> QED BY <1>8, <2>1, <2>2
<1> QED BY <1>14, <1>15 DEF Connected
----------------------------------------------------------------------------
(* What a compaction prepares.                                             *)

LEMMA CompactionPlace ==
    ASSUME NEW path \in Seq(Entry)
    PROVE  LatestCompaction(path) \in 0..Len(path)
<1> DEFINE T == {0} \cup {i \in DOMAIN path : IsCompaction(path[i])}
<1>1. Len(path) \in Nat /\ T \subseteq 0..Len(path) /\ T # {}
  OBVIOUS
<1> HIDE DEF T
<1>2. T \subseteq Nat /\ \A x \in T : x <= Len(path)
  BY <1>1
<1>3. Max(T) \in T
  BY <1>1, <1>2, MaxIn
<1> QED BY <1>1, <1>3 DEF LatestCompaction, T

LEMMA CutPlace ==
    ASSUME NEW path \in Seq(Entry), NEW start \in 1..Len(path), NEW full
    PROVE  findCutPoint(path, start, full) \in start..Len(path)
<1> DEFINE cuts == {i \in start..Len(path) : isCutPoint(path[i])}
           late == {i \in cuts : i >= full}
           cut  == CASE cuts = {} -> start [] late # {} -> Min(late) [] OTHER -> Min(cuts)
           back == {i \in start..cut : \A j \in i..(cut - 1) : ~Visible(path[j])}
<1>1. Len(path) \in Nat /\ start \in Nat
  OBVIOUS
<1>2. cuts \subseteq start..Len(path) /\ cuts \subseteq Nat /\ late \subseteq cuts
  BY <1>1
<1>3. ASSUME cuts # {} PROVE cut \in cuts
  <2> HIDE DEF cuts, late
  <2>1. Min(cuts) \in cuts
    BY <1>2, <1>3, MinIn
  <2>2. late # {} => Min(late) \in late
    BY <1>2, MinIn
  <2> QED BY <1>2, <1>3, <2>1, <2>2
<1>4. ASSUME cuts # {} PROVE Min(back) \in start..Len(path)
  <2> HIDE DEF cuts, cut
  <2>1. cut \in start..Len(path)
    BY <1>2, <1>3, <1>4
  <2>2. cut \in back /\ back \subseteq start..Len(path) /\ back \subseteq Nat
    BY <1>1, <2>1
  <2> HIDE DEF back
  <2>3. Min(back) \in back
    BY <2>2, MinIn
  <2> QED BY <2>2, <2>3
<1>5. findCutPoint(path, start, full) = IF cuts = {} THEN start ELSE Min(back)
  BY Zenon DEF findCutPoint
<1> HIDE DEF cuts, back
<1> QED BY <1>1, <1>4, <1>5

LEMMA MessagesTyped ==
    ASSUME NEW path \in Seq(Entry), NEW from \in Nat \ {0}, NEW to \in Int, to <= Len(path)
    PROVE  Messages(path, from, to) \subseteq 1..MaxEntries
<1>1. \A i \in from..to : path[i] \in Entry
  OBVIOUS
<1>2. \A i \in from..to : path[i].id \in 1..MaxEntries
  BY <1>1 DEF Entry
<1> QED BY <1>2 DEF Messages

LEMMA PreparationTyped ==
    ASSUME NEW path \in Seq(Entry), boundaryStart(path) \in DOMAIN path, NEW full,
           NEW p, p = prepareCompaction(path, full)
    PROVE  /\ p.firstKept \in 1..MaxEntries
           /\ p.summary \cup p.previous \subseteq 1..MaxEntries
<1> DEFINE c == LatestCompaction(path)
           start == boundaryStart(path)
           first == findCutPoint(path, start, full)
           turns == {i \in start..first : startsTurn(path[i])}
           split == ~startsTurn(path[first]) /\ turns # {}
           end == IF split THEN Max(turns) ELSE first
           history == Messages(path, start, end - 1)
           prefix == IF split THEN turnPrefixMessages(path, end, first - 1) ELSE {}
           previous == IF c = 0 THEN {} ELSE path[c].summary
<1>1. p = [firstKept |-> path[first].id, history |-> history, prefix |-> prefix,
           previous |-> previous, leafId |-> Last(path).id,
           summary |-> prefix \cup history
                       \cup (IF prefix # {} /\ history = {} THEN {} ELSE previous)]
  BY Zenon DEF prepareCompaction
<1>2. start \in 1..Len(path) /\ Len(path) \in Nat
  OBVIOUS
<1>3. first \in start..Len(path)
  <2> HIDE DEF start
  <2> QED BY <1>2, CutPlace
<1>4. c \in 0..Len(path)
  BY CompactionPlace
<1> HIDE DEF start, first, c
<1>5. end \in start..first
  <2>1. ASSUME turns # {} PROVE Max(turns) \in start..first
    <3>1. turns \subseteq Nat /\ first \in Nat /\ \A x \in turns : x <= first
      BY <1>2, <1>3
    <3> HIDE DEF turns
    <3>2. Max(turns) \in turns
      BY <2>1, <3>1, MaxIn
    <3> QED BY <3>2 DEF turns
  <2> QED BY <1>2, <1>3, <2>1
<1> HIDE DEF end, split
<1>6. history \subseteq 1..MaxEntries
  <2>1. start \in Nat \ {0} /\ end - 1 \in Int /\ end - 1 <= Len(path)
    BY <1>2, <1>3, <1>5
  <2> QED BY <2>1, MessagesTyped
<1>7. prefix \subseteq 1..MaxEntries
  <2>1. end \in Nat \ {0} /\ first - 1 \in Int /\ first - 1 <= Len(path)
    BY <1>2, <1>3, <1>5
  <2> QED BY <2>1, MessagesTyped DEF turnPrefixMessages
<1>8. previous \subseteq 1..MaxEntries
  <2>1. c # 0 => path[c] \in Entry
    BY <1>2, <1>4
  <2> QED BY <2>1 DEF Entry
<1>9. path[first].id \in 1..MaxEntries
  <2>1. path[first] \in Entry
    BY <1>2, <1>3
  <2> QED BY <2>1 DEF Entry
<1> HIDE DEF history, prefix, previous
<1>10. /\ p.firstKept = path[first].id /\ p.previous = previous
       /\ p.summary = prefix \cup history
                      \cup (IF prefix # {} /\ history = {} THEN {} ELSE previous)
  BY <1>1
<1> QED BY <1>6, <1>7, <1>8, <1>9, <1>10
----------------------------------------------------------------------------
(* The file, and what a write adds to it.                                  *)

LEMMA Typed ==
    ASSUME SInv
    PROVE  /\ lastId \in 0..MaxEntries /\ lastId \in Nat /\ MaxEntries \in Nat
           /\ leafId \in 0..lastId /\ leafId \in {0} \cup Ids(fileEntries)
           /\ fileEntries \in Seq(Entry) /\ Len(fileEntries) \in Nat
           /\ Parsed \in Lines /\ Len(Parsed) \in Nat
           /\ faults \in 0..MaxFaults /\ faults \in Nat /\ MaxFaults \in Nat
           /\ stored \subseteq 1..MaxEntries /\ IsFiniteSet(stored)
<1>1. /\ lastId \in 0..MaxEntries /\ faults \in 0..MaxFaults /\ stored \subseteq 1..MaxEntries
      /\ fileEntries \in Seq(Entry) /\ Parsed \in Lines
  BY DEF SInv, TypeOK, Grown, FileGrown
<1>2. MaxEntries \in Nat /\ MaxFaults \in Nat
  BY SessionAssumption
<1>3. leafId \in {0} \cup Ids(fileEntries)
  BY DEF SInv, TypeOK, Ids, ToSet
<1>4. leafId \in 0..lastId
  <2>1. CASE leafId = 0
    BY <1>1, <1>2, <2>1
  <2>2. CASE leafId \in Ids(fileEntries)
    <3>1. PICK i \in 1..Len(fileEntries) : leafId = fileEntries[i].id
      BY <1>1, <2>2 DEF Ids
    <3>2. fileEntries[i] \in Entry /\ fileEntries[i].id <= lastId
      BY <1>1, <3>1 DEF SInv, Grown
    <3> QED BY <1>1, <1>2, <3>1, <3>2 DEF Entry
  <2> QED BY <1>3, <2>1, <2>2
<1>5. IsFiniteSet(stored)
  <2>1. IsFiniteSet(1..MaxEntries)
    BY <1>2, FS_Interval
  <2> QED BY <1>1, <2>1, FS_Subset
<1>6. Len(Parsed) \in Nat /\ Len(fileEntries) \in Nat
  BY <1>1 DEF Lines
<1> QED BY <1>1, <1>2, <1>3, <1>4, <1>5, <1>6

LEMMA FrontFacts ==
    ASSUME NEW S, NEW s \in Seq(S)
    PROVE  /\ Front(s) \in Seq(S) /\ Len(Front(s)) \in Nat /\ Len(Front(s)) <= Len(s)
           /\ s # <<>> => Len(Front(s)) = Len(s) - 1
           /\ \A i \in 1..Len(Front(s)) : Front(s)[i] = s[i]
<1>1. CASE s = <<>>
  <2>1. Front(s) = <<>>
    <3>1. SubSeq(<<>>, 1, 0 - 1) = <<>> /\ Len(<<>>) = 0
      OBVIOUS
    <3> QED BY <1>1, <3>1 DEF Front
  <2>2. PICK e : e = <<>> /\ e \in Seq(S) /\ Len(e) = 0
    <3>1. <<>> \in Seq(S) /\ Len(<<>>) = 0
      OBVIOUS
    <3> QED BY <3>1
  <2>3. /\ e \in Seq(S) /\ Len(e) \in Nat /\ Len(e) <= Len(e)
        /\ \A i \in 1..Len(e) : e[i] = e[i]
    BY <2>2
  <2> QED BY <1>1, <2>1, <2>2, <2>3, Zenon
<1>2. CASE s # <<>>
  <2>1. PICK n : n = Len(s) - 1 /\ n \in Nat /\ Len(s) = n + 1
    BY <1>2
  <2>2. /\ SubSeq(s, 1, n) \in Seq(S) /\ Len(SubSeq(s, 1, n)) = n
        /\ \A i \in 1..n : SubSeq(s, 1, n)[i] = s[i]
    BY <2>1
  <2>3. Front(s) = SubSeq(s, 1, n)
    BY <2>1 DEF Front
  <2>4. Front(s) \in Seq(S) /\ Len(Front(s)) = n /\ \A i \in 1..n : Front(s)[i] = s[i]
    BY <2>2, <2>3, Zenon
  <2> QED BY <1>2, <2>1, <2>4
<1> QED BY <1>1, <1>2

LEMMA BaseFacts ==
    ASSUME SInv
    PROVE  /\ Base \in Lines /\ Len(Base) \in Nat /\ Len(Base) <= Len(Parsed)
           /\ \A i \in 1..Len(Base) : Base[i] = Parsed[i]
           /\ tail = "whole" => Base = Parsed
<1>1. Parsed \in Lines /\ Len(Parsed) \in Nat
  BY Typed
<1> HIDE DEF Parsed
<1>2. /\ Front(Parsed) \in Lines /\ Len(Front(Parsed)) \in Nat /\ Len(Front(Parsed)) <= Len(Parsed)
      /\ \A i \in 1..Len(Front(Parsed)) : Front(Parsed)[i] = Parsed[i]
  BY <1>1, FrontFacts DEF Lines
<1> QED BY <1>1, <1>2 DEF Base

(* q is what is left of some of the lines behind what is left of the file: *)
(* the first of them is lost when the file does not end with a newline.    *)
Lost == IF tail = "whole" THEN 0 ELSE 1

Piece(q, lines) ==
    /\ q \in Lines
    /\ \A i \in 1..Len(q) : i + Lost \in 1..Len(lines) /\ q[i] = lines[i + Lost]

Done(q, lines) ==
    /\ Len(q) = Len(lines) - Lost
    /\ tail' = "whole" /\ stored' = stored \cup Written(lines)
    /\ faults' = faults /\ alive' = alive /\ flushed' = TRUE

Broken(q) ==
    /\ tail' \in {"whole", "cut", "open"} /\ (tail' = "open" => q # <<>>)
    /\ stored' = stored /\ alive' \in BOOLEAN /\ flushed' = (flushed /\ alive')
    /\ faults' = (IF alive' \/ tail' # "whole" THEN faults + 1 ELSE faults)
    /\ faults' <= MaxFaults

Appended(lines) ==
    \E q : /\ Piece(q, lines) /\ file' = Base \o q
           /\ Done(q, lines) \/ Broken(q)

LEMMA PieceOf ==
    ASSUME NEW lines \in Lines, NEW m \in 0..Len(lines)
    PROVE  /\ tail = "whole" => /\ Piece(SubSeq(lines, 1, m), lines)
                                /\ Len(SubSeq(lines, 1, m)) = m
           /\ tail # "whole" /\ m # 0 => /\ Piece(Tail(SubSeq(lines, 1, m)), lines)
                                         /\ Len(Tail(SubSeq(lines, 1, m))) = m - 1
           /\ tail # "whole" => Piece(<<>>, lines)
<1> DEFINE s == SubSeq(lines, 1, m)
<1>1. /\ lines \in Seq(Entry \cup {Header}) /\ s \in Seq(Entry \cup {Header})
      /\ Len(s) = m /\ m \in Nat
      /\ \A i \in 1..m : s[i] = lines[i] /\ i \in 1..Len(lines)
  BY DEF Lines
<1> HIDE DEF s
<1>2. CASE tail = "whole"
  BY <1>1, <1>2 DEF Piece, Lost, Lines, s
<1>3. CASE tail # "whole" /\ m # 0
  <2>1. /\ Tail(s) \in Seq(Entry \cup {Header}) /\ Len(Tail(s)) = m - 1
        /\ \A i \in 1..(m - 1) : Tail(s)[i] = s[i + 1] /\ i + 1 \in 1..m
    BY <1>1, <1>3
  <2> DEFINE t == Tail(s)
  <2> HIDE DEF t
  <2>2. /\ t \in Lines /\ Len(t) = m - 1
        /\ \A i \in 1..(m - 1) : t[i] = lines[i + 1] /\ i + 1 \in 1..Len(lines)
    BY <1>1, <2>1 DEF t, Lines
  <2>3. Piece(t, lines)
    BY <1>3, <2>2 DEF Piece, Lost
  <2>4. Piece(<<>>, lines)
    BY DEF Piece, Lines
  <2> QED BY <1>3, <2>2, <2>3, <2>4 DEF t, s
<1>4. CASE m = 0
  <2>1. Piece(<<>>, lines)
    BY DEF Piece, Lines
  <2>2. s = <<>>
    BY <1>1, <1>4
  <2> QED BY <1>4, <2>1, <2>2 DEF s
<1> QED BY <1>2, <1>3, <1>4

(* The lines that _persist() writes are appended, all or some.             *)
LEMMA WriteCases ==
    ASSUME SInv, NEW es \in Seq(Entry), es # <<>>, Persisted(es)
    PROVE  \/ /\ ~flushed
              /\ UNCHANGED <<file, tail, stored, flushed, alive, faults>>
           \/ flushed /\ Appended(<<Last(es)>>)
           \/ ~flushed /\ file = None /\ Appended(<<Header>> \o es)
<1>0. PICK lines : lines = toWrite(es)
  OBVIOUS
<1>1. \/ flushed /\ lines = <<Last(es)>>
      \/ ~flushed /\ file = None /\ lines = <<Header>> \o es
      \/ ~flushed /\ lines = <<>>
  <2>1. flushed \in BOOLEAN
    BY DEF SInv, TypeOK
  <2>2. CASE flushed
    BY <1>0, <2>2 DEF toWrite
  <2>3. CASE ~flushed /\ hasAssistant(es) /\ file = None
    BY <1>0, <2>3 DEF toWrite
  <2>4. CASE ~flushed /\ ~(hasAssistant(es) /\ file = None)
    BY <1>0, <2>4 DEF toWrite
  <2> QED BY <2>1, <2>2, <2>3, <2>4
<1>2. lines \in Lines
  <2>1. Last(es) \in Entry
    BY DEF Last
  <2>2. <<Header>> \o es \in Seq(Entry \cup {Header})
    <3>1. <<Header>> \in Seq(Entry \cup {Header}) /\ es \in Seq(Entry \cup {Header})
      OBVIOUS
    <3> QED BY <3>1
  <2>3. <<Last(es)>> \in Seq(Entry \cup {Header}) /\ <<>> \in Seq(Entry \cup {Header})
    BY <2>1
  <2> QED BY <1>1, <2>2, <2>3 DEF Lines
<1>3. CASE lines = <<>>
  <2>1. Saved(es)
    <3>1. \A k \in 0..MaxEntries : ~(k < Len(lines))
      BY <1>3, SessionAssumption
    <3> QED BY <1>0, <3>1 DEF Persisted, NotSaved, Partly
  <2>2. ~flushed /\ flushed' = flushed /\ UNCHANGED disk /\ stored' = stored \cup Written(<<>>)
        /\ UNCHANGED <<alive, faults>>
    <3>1. <<>> # <<>> <=> FALSE
      OBVIOUS
    <3>2. toWrite(es) = <<>> /\ ~flushed /\ flushed \in BOOLEAN
      BY <1>0, <1>1, <1>3 DEF SInv, TypeOK
    <3>3. /\ flushed' = (flushed \/ FALSE) /\ UNCHANGED disk /\ stored' = stored \cup Written(<<>>)
          /\ UNCHANGED <<alive, faults>>
      BY <2>1, <3>2 DEF Saved
    <3> QED BY <3>2, <3>3
  <2>3. Written(<<>>) = {}
    BY DEF Written, ToSet
  <2> QED BY <2>2, <2>3 DEF disk
<1>4. CASE lines # <<>>
  <2>0. Len(lines) \in Nat /\ Len(lines) >= 1
    BY <1>2, <1>4 DEF Lines
  <2>1. Base \in Lines /\ (tail = "whole" => Base = Parsed)
    BY BaseFacts
  <2>2. ASSUME Saved(es) PROVE Appended(lines)
    <3>1. /\ flushed' = TRUE /\ file' = Added(lines) /\ tail' = "whole"
          /\ stored' = stored \cup Written(lines) /\ UNCHANGED <<alive, faults>>
      BY <1>0, <1>4, <2>2 DEF Saved
    <3>2. SubSeq(lines, 1, Len(lines)) = lines
      BY <1>2 DEF Lines
    <3> DEFINE q == IF tail = "whole" THEN lines ELSE Tail(lines)
    <3>3. Piece(q, lines) /\ Len(q) = Len(lines) - Lost
      <4>1. Len(lines) \in 0..Len(lines) /\ Len(lines) # 0
        BY <2>0
      <4>2. CASE tail = "whole"
        <5>1. Piece(lines, lines)
          BY <1>2, <3>2, <4>1, <4>2, PieceOf
        <5> QED BY <2>0, <4>2, <5>1 DEF Lost
      <4>3. CASE tail # "whole"
        <5>1. Piece(Tail(lines), lines) /\ Len(Tail(lines)) = Len(lines) - 1
          BY <1>2, <3>2, <4>1, <4>3, PieceOf
        <5> QED BY <4>3, <5>1 DEF Lost
      <4> QED BY <4>2, <4>3
    <3>4. file' = Base \o q
      BY <2>1, <3>1 DEF Added
    <3> HIDE DEF q
    <3>5. Appended(lines)
      BY <3>1, <3>3, <3>4 DEF Appended, Done
    <3> QED BY <3>5
  <2>3. ASSUME NEW k \in 0..MaxEntries, NEW end \in {"whole", "cut", "open"}, NotSaved(es, k, end)
        PROVE  Appended(lines)
    <3> DEFINE m == IF end = "open" THEN k + 1 ELSE k
    <3>1. /\ k < Len(lines) /\ (tail = "whole" \/ k > 0 \/ end = "cut")
          /\ file' = IF k = 0 /\ tail # "whole" THEN Base ELSE Added(SubSeq(lines, 1, m))
          /\ tail' = end
          /\ alive' \in BOOLEAN /\ flushed' = (flushed /\ alive') /\ stored' = stored
          /\ faults' = (IF alive' \/ end # "whole" THEN faults + 1 ELSE faults)
          /\ faults' <= MaxFaults
      BY <1>0, <2>3 DEF NotSaved, Partly
    <3>2. m \in 0..Len(lines) /\ k \in Nat
      BY <2>0, <3>1, SessionAssumption
    <3> DEFINE q == IF tail = "whole" THEN SubSeq(lines, 1, m)
                    ELSE IF k = 0 THEN <<>> ELSE Tail(SubSeq(lines, 1, m))
    <3>3. k # 0 => m # 0
      BY <3>2
    <3>4. Piece(q, lines)
      <4> HIDE DEF m
      <4> QED BY <1>2, <3>2, <3>3, PieceOf
    <3>5. end = "open" => q # <<>>
      <4> SUFFICES ASSUME end = "open" PROVE q # <<>>
        OBVIOUS
      <4>1. m = k + 1 /\ m # 0 /\ (tail # "whole" => m >= 2)
        BY <3>1, <3>2
      <4>2. CASE tail = "whole"
        <5>1. Len(q) = m
          <6> HIDE DEF m
          <6> QED BY <1>2, <3>2, <4>2, PieceOf
        <5>2. Len(<<>>) = 0
          OBVIOUS
        <5> HIDE DEF q, m
        <5> QED BY <4>1, <5>1, <5>2
      <4>3. CASE tail # "whole"
        <5>1. k # 0
          BY <3>1, <3>2, <4>3
        <5>2. Len(q) = m - 1
          <6> HIDE DEF m
          <6> QED BY <1>2, <3>2, <4>1, <4>3, <5>1, PieceOf
        <5>3. Len(<<>>) = 0 /\ m - 1 # 0
          BY <3>2, <4>1, <4>3
        <5> HIDE DEF q, m
        <5> QED BY <5>2, <5>3
      <4> QED BY <4>2, <4>3
    <3>6. file' = Base \o q
      <4>1. CASE tail = "whole"
        BY <2>1, <3>1, <4>1 DEF Added
      <4>2. CASE tail # "whole" /\ k = 0
        <5>1. Base \o <<>> = Base
          <6> HIDE DEF Base
          <6> QED BY <2>1 DEF Lines
        <5>2. file' = Base /\ q = <<>>
          BY <3>1, <4>2
        <5> HIDE DEF Base, q
        <5> QED BY <5>1, <5>2
      <4>3. CASE tail # "whole" /\ k # 0
        BY <3>1, <4>3 DEF Added
      <4> QED BY <4>1, <4>2, <4>3
    <3> HIDE DEF q
    <3>7. Broken(q)
      BY <3>1, <3>5 DEF Broken
    <3> QED BY <3>4, <3>6, <3>7 DEF Appended
  <2>4. Appended(lines)
    BY <2>2, <2>3 DEF Persisted
  <2> QED BY <1>1, <1>4, <2>4
<1> QED BY <1>3, <1>4

(* The file after a write, in place of what it was.                        *)
LEMMA FileAfter ==
    ASSUME SInv, NEW q \in Lines, file' = Base \o q
    PROVE  /\ file' \in Lines /\ Parsed' = file' /\ file' # None
           /\ Len(file') = Len(Base) + Len(q) /\ Len(q) \in Nat
           /\ \A i \in 1..Len(Base) : file'[i] = Parsed[i]
           /\ \A i \in 1..Len(q) : file'[Len(Base) + i] = q[i]
           /\ \A i \in 1..Len(file') : i \in 1..Len(Base) \/ i - Len(Base) \in 1..Len(q)
<1>1. PICK b \in Seq(Entry \cup {Header}) : b = Base
  BY BaseFacts DEF Lines
<1>2. q \in Seq(Entry \cup {Header})
  BY DEF Lines
<1>3. /\ b \o q \in Seq(Entry \cup {Header}) /\ Len(b \o q) = Len(b) + Len(q) /\ Len(q) \in Nat
      /\ \A i \in 1..Len(b) : (b \o q)[i] = b[i]
      /\ \A i \in 1..Len(q) : (b \o q)[Len(b) + i] = q[i]
      /\ \A i \in 1..Len(b \o q) : i \in 1..Len(b) \/ i - Len(b) \in 1..Len(q)
  BY <1>2
<1>4. file' = b \o q
  BY <1>1
<1>5. \A i \in 1..Len(b) : b[i] = Parsed[i]
  BY <1>1, BaseFacts
<1>6. file' \in Lines /\ file' # None
  BY <1>3, <1>4, LinesAssumption, Zenon DEF Lines
<1>7. Parsed' = file'
  BY <1>6 DEF Parsed
<1>8. /\ Len(file') = Len(b) + Len(q) /\ Len(q) \in Nat
      /\ \A i \in 1..Len(b) : file'[i] = b[i]
      /\ \A i \in 1..Len(q) : file'[Len(b) + i] = q[i]
      /\ \A i \in 1..Len(file') : i \in 1..Len(b) \/ i - Len(b) \in 1..Len(q)
  BY <1>3, <1>4, Zenon
<1> HIDE DEF Parsed, Base
<1>9. /\ Len(file') = Len(Base) + Len(q) /\ Len(q) \in Nat
      /\ \A i \in 1..Len(q) : file'[Len(Base) + i] = q[i]
      /\ \A i \in 1..Len(file') : i \in 1..Len(Base) \/ i - Len(Base) \in 1..Len(q)
  BY <1>1, <1>8
<1>10. \A i \in 1..Len(Base) : file'[i] = Parsed[i]
  BY <1>1, <1>5, <1>8
<1> QED BY <1>6, <1>7, <1>9, <1>10

(* Which lines have been written.                                          *)
LEMMA WrittenIds ==
    ASSUME NEW ls \in Lines, NEW x
    PROVE  x \in Written(ls) <=> \E i \in 1..Len(ls) : ls[i] # Header /\ ls[i].id = x
<1>1. DOMAIN ls = 1..Len(ls)
  BY DEF Lines
<1> QED BY <1>1 DEF Written, ToSet

LEMMA WrittenTyped ==
    ASSUME NEW ls \in Lines
    PROVE  Written(ls) \subseteq 1..MaxEntries
<1> SUFFICES ASSUME NEW x \in Written(ls) PROVE x \in 1..MaxEntries
  OBVIOUS
<1>1. PICK i \in 1..Len(ls) : ls[i] # Header /\ ls[i].id = x
  BY WrittenIds
<1>2. ls[i] \in Entry
  BY <1>1 DEF Lines
<1> QED BY <1>1, <1>2 DEF Entry

LEMMA WrittenPrefix ==
    ASSUME NEW s \in Lines, NEW t \in Lines, Len(s) <= Len(t), \A i \in 1..Len(s) : s[i] = t[i]
    PROVE  Written(s) \subseteq Written(t)
<1> SUFFICES ASSUME NEW x \in Written(s) PROVE x \in Written(t)
  OBVIOUS
<1>1. PICK i \in 1..Len(s) : s[i] # Header /\ s[i].id = x
  BY WrittenIds
<1>2. i \in 1..Len(t) /\ t[i] = s[i]
  BY DEF Lines
<1> QED BY <1>1, <1>2, WrittenIds

(* A fault costs one entry: the loss after a write.                        *)
LEMMA LossesAppended ==
    ASSUME SInv, NEW lines \in Lines, lines # <<>>, Appended(lines)
    PROVE  Losses'
<1>1. PICK q : Piece(q, lines) /\ file' = Base \o q /\ (Done(q, lines) \/ Broken(q))
  BY DEF Appended
<1>2. q \in Lines
  BY <1>1 DEF Piece
<1>3. /\ file' \in Lines /\ Parsed' = file' /\ Len(file') = Len(Base) + Len(q) /\ Len(q) \in Nat
      /\ \A i \in 1..Len(Base) : file'[i] = Parsed[i]
      /\ \A i \in 1..Len(q) : file'[Len(Base) + i] = q[i]
  BY <1>1, <1>2, FileAfter
<1>4. /\ Base \in Lines /\ Len(Base) \in Nat /\ \A i \in 1..Len(Base) : Base[i] = Parsed[i]
  BY BaseFacts
<1>5. /\ faults \in Nat /\ stored \subseteq 1..MaxEntries /\ IsFiniteSet(stored)
      /\ MaxEntries \in Nat
  BY Typed
<1> DEFINE loss == stored \ Written(Base)
<1>6. IsFiniteSet(loss) /\ Cardinality(loss) \in Nat
  <2>1. loss \in SUBSET stored
    OBVIOUS
  <2> HIDE DEF loss
  <2>2. IsFiniteSet(loss)
    BY <1>5, <2>1, FS_Subset
  <2> QED BY <2>2, FS_CardinalityType
<1>7. Cardinality(loss) + Lost <= faults
  BY DEF SInv, Losses, Lost
<1>8. CASE Done(q, lines)
  <2>1. /\ Len(q) = Len(lines) - Lost /\ tail' = "whole" /\ stored' = stored \cup Written(lines)
        /\ faults' = faults
    BY <1>8 DEF Done
  <2>2. Base' = file'
    BY <1>3, <2>1 DEF Base
  <2>3. Written(Base) \subseteq Written(file')
    <3>1. Len(Base) <= Len(file')
      BY <1>3, <1>4
    <3> QED BY <1>3, <1>4, <3>1, WrittenPrefix
  <2>4. \A i \in 1..Len(lines) : i > Lost /\ lines[i] # Header => lines[i].id \in Written(file')
    <3> SUFFICES ASSUME NEW i \in 1..Len(lines), i > Lost, lines[i] # Header
                 PROVE  lines[i].id \in Written(file')
      OBVIOUS
    <3>1. Lost \in {0, 1}
      BY DEF Lost
    <3>2. /\ i - Lost \in 1..Len(q) /\ (i - Lost) + Lost = i
          /\ Len(Base) + (i - Lost) \in 1..Len(file')
      BY <1>3, <1>4, <2>1, <3>1
    <3>3. q[i - Lost] = lines[i]
      BY <1>1, <3>2 DEF Piece
    <3>4. file'[Len(Base) + (i - Lost)] = lines[i]
      BY <1>3, <3>2, <3>3
    <3> QED BY <1>3, <3>2, <3>4, WrittenIds
  <2> DEFINE more == IF Lost = 0 THEN loss ELSE loss \cup {lines[1].id}
  <2>5. stored' \ Written(file') \subseteq more
    <3> SUFFICES ASSUME NEW x \in stored', x \notin Written(file') PROVE x \in more
      OBVIOUS
    <3>1. CASE x \in stored
      BY <2>3, <3>1
    <3>2. CASE x \in Written(lines)
      <4>1. PICK i \in 1..Len(lines) : lines[i] # Header /\ lines[i].id = x
        BY <3>2, WrittenIds
      <4>2. ~(i > Lost)
        BY <2>4, <4>1
      <4>3. i = 1 /\ Lost # 0
        BY <4>2 DEF Lost
      <4> QED BY <4>1, <4>3
    <3> QED BY <2>1, <3>1, <3>2
  <2>6. /\ IsFiniteSet(more) /\ Cardinality(more) \in Nat
        /\ Cardinality(more) <= Cardinality(loss) + Lost
    <3> HIDE DEF loss
    <3>1. CASE Lost = 0
      BY <1>6, <3>1
    <3>2. CASE Lost # 0
      <4>1. PICK id : id = lines[1].id
        OBVIOUS
      <4>2. /\ IsFiniteSet(loss \cup {id})
            /\ Cardinality(loss \cup {id})
                   = IF id \in loss THEN Cardinality(loss) ELSE Cardinality(loss) + 1
        BY <1>6, FS_AddElement
      <4>3. Lost = 1
        BY <3>2 DEF Lost
      <4> QED BY <1>6, <4>1, <4>2, <4>3
    <3> QED BY <3>1, <3>2
  <2> HIDE DEF more
  <2>7. Cardinality(stored' \ Written(file')) <= Cardinality(more)
        /\ Cardinality(stored' \ Written(file')) \in Nat
    <3> DEFINE T == stored' \ Written(file')
    <3>1. T \in SUBSET more
      BY <2>5
    <3> HIDE DEF T
    <3>2. IsFiniteSet(T) /\ Cardinality(T) <= Cardinality(more)
      BY <2>6, <3>1, FS_Subset
    <3>3. Cardinality(T) \in Nat
      BY <3>2, FS_CardinalityType
    <3> QED BY <3>2, <3>3 DEF T
  <2>8. Lost \in Nat
    BY DEF Lost
  <2>9. Cardinality(stored' \ Written(file')) <= faults
    <3> HIDE DEF loss
    <3> QED BY <1>5, <1>6, <1>7, <2>6, <2>7, <2>8
  <2> QED BY <1>5, <2>1, <2>2, <2>7, <2>9 DEF Losses
<1>9. CASE Broken(q)
  <2>1. /\ tail' \in {"whole", "cut", "open"} /\ (tail' = "open" => q # <<>>)
        /\ stored' = stored
        /\ faults' = (IF alive' \/ tail' # "whole" THEN faults + 1 ELSE faults)
    BY <1>9 DEF Broken
  <2>2. Base' \in Lines /\ Len(Base) <= Len(Base') /\ \A i \in 1..Len(Base) : Base'[i] = Base[i]
    <3>1. CASE tail' # "open"
      <4>1. Base' = file'
        BY <1>3, <3>1 DEF Base
      <4> QED BY <1>3, <1>4, <4>1
    <3>2. CASE tail' = "open"
      <4>1. PICK f \in Seq(Entry \cup {Header}) : f = file'
        BY <1>3 DEF Lines
      <4>2. Base' = Front(f)
        BY <1>3, <3>2, <4>1 DEF Base
      <4>3. Len(q) >= 1 /\ Len(f) >= 1 /\ Len(f) = Len(Base) + Len(q)
        <5>1. Len(q) # 0
          BY <1>2, <2>1, <3>2 DEF Lines
        <5> QED BY <1>3, <1>4, <4>1, <5>1
      <4>4. f # <<>>
        BY <4>3
      <4>5. /\ Front(f) \in Lines /\ Len(Front(f)) = Len(f) - 1
            /\ \A i \in 1..Len(Front(f)) : Front(f)[i] = f[i]
        BY <4>4, FrontFacts DEF Lines
      <4>6. Len(Base) <= Len(Front(f))
        BY <1>3, <1>4, <4>3, <4>5
      <4>7. \A i \in 1..Len(Base) : Front(f)[i] = Base[i]
        BY <1>3, <1>4, <4>1, <4>3, <4>5
      <4> QED BY <4>2, <4>5, <4>6, <4>7
    <3> QED BY <3>1, <3>2
  <2>3. Written(Base) \subseteq Written(Base')
    BY <1>4, <2>2, WrittenPrefix
  <2>4. Cardinality(stored' \ Written(Base')) <= Cardinality(loss)
        /\ Cardinality(stored' \ Written(Base')) \in Nat
    <3> DEFINE T == stored' \ Written(Base')
    <3>1. T \in SUBSET loss
      BY <2>1, <2>3
    <3> HIDE DEF T, loss
    <3>2. IsFiniteSet(T) /\ Cardinality(T) <= Cardinality(loss)
      BY <1>6, <3>1, FS_Subset
    <3>3. Cardinality(T) \in Nat
      BY <3>2, FS_CardinalityType
    <3> QED BY <3>2, <3>3 DEF T
  <2>5. Lost \in Nat
    BY DEF Lost
  <2> HIDE DEF loss
  <2>6. Cardinality(stored' \ Written(Base')) <= faults
    BY <1>5, <1>6, <1>7, <2>4, <2>5
  <2>7. Cardinality(stored' \ Written(Base')) + (IF tail' = "whole" THEN 0 ELSE 1) <= faults'
    <3>1. PICK c \in Nat : c = Cardinality(stored' \ Written(Base'))
      BY <2>4
    <3>2. CASE tail' = "whole"
      BY <1>5, <2>1, <2>6, <3>1, <3>2
    <3>3. CASE tail' # "whole"
      BY <1>5, <2>1, <2>6, <3>1, <3>3
    <3> QED BY <3>2, <3>3
  <2> QED BY <2>7 DEF Losses
<1> QED BY <1>1, <1>8, <1>9
----------------------------------------------------------------------------
(* The invariant in two parts: the entries and the file, and the rest.     *)

Store ==
    /\ file = None \/ file \in Lines
    /\ Grown(fileEntries, lastId) /\ FileGrown(Parsed, lastId)
    /\ leafId = 0 \/ \E e \in ToSet(fileEntries) : e.id = leafId
    /\ flushed \in BOOLEAN /\ alive \in BOOLEAN /\ tail \in {"whole", "cut", "open"}
    /\ lastId \in 0..MaxEntries /\ faults \in 0..MaxFaults /\ stored \subseteq 1..MaxEntries
    /\ FaultFree /\ Losses

Others == moves \in 0..MaxMoves /\ forgotten \subseteq 1..MaxEntries /\ Prepared

LEMMA InTwoParts == SInv => Store /\ Others
BY DEF SInv, TypeOK, Store, Others

LEMMA FromTwoParts ==
    ASSUME Store', Others'
    PROVE  SInv'
<1>1. \A i \in DOMAIN fileEntries' : fileEntries'[i] \in Entry
  BY DEF Store, Grown
<1>2. file' # None => ToSet(file') \subseteq Entry \cup {Header}
  <2> SUFFICES ASSUME file' # None PROVE ToSet(file') \subseteq Entry \cup {Header}
    OBVIOUS
  <2>1. file' \in Seq(Entry \cup {Header})
    BY DEF Store, Lines
  <2> QED BY <2>1 DEF ToSet
<1>3. TypeOK'
  BY <1>1, <1>2 DEF Store, Others, TypeOK
<1> QED BY <1>3 DEF Store, Others, SInv

(* A header and the entries behind it.                                     *)
LEMMA HeaderFirst ==
    ASSUME NEW es \in Seq(Entry), NEW w, w = <<Header>> \o es
    PROVE  /\ w \in Lines /\ Len(w) = Len(es) + 1 /\ Len(es) \in Nat /\ w[1] = Header
           /\ \A i \in 1..Len(es) : w[1 + i] = es[i]
           /\ \A i \in 1..Len(w) : w[i] = IF i = 1 THEN Header ELSE es[i - 1]
<1>1. /\ <<Header>> \in Seq(Entry \cup {Header}) /\ es \in Seq(Entry \cup {Header})
      /\ Len(<<Header>>) = 1 /\ <<Header>>[1] = Header
  OBVIOUS
<1>2. PICK h \in Seq(Entry \cup {Header}) : h = <<Header>>
  BY <1>1, Zenon
<1>3. Len(h) = 1 /\ h[1] = Header /\ w = h \o es
  BY <1>1, <1>2, Zenon
<1>4. /\ h \o es \in Seq(Entry \cup {Header}) /\ Len(h \o es) = Len(h) + Len(es) /\ Len(es) \in Nat
      /\ \A i \in 1..Len(h) : (h \o es)[i] = h[i]
      /\ \A i \in 1..Len(es) : (h \o es)[Len(h) + i] = es[i]
  BY <1>1, CatParts
<1>5. /\ w \in Seq(Entry \cup {Header}) /\ Len(w) = 1 + Len(es) /\ w[1] = Header
      /\ \A i \in 1..Len(es) : w[1 + i] = es[i]
  <2>1. 1 \in 1..Len(h)
    BY <1>3
  <2> QED BY <1>3, <1>4, <2>1
<1>6. \A i \in 1..Len(w) : w[i] = IF i = 1 THEN Header ELSE es[i - 1]
  <2> SUFFICES ASSUME NEW i \in 1..Len(w), i # 1 PROVE w[i] = es[i - 1]
    BY <1>5
  <2>1. i - 1 \in 1..Len(es) /\ 1 + (i - 1) = i
    BY <1>4, <1>5
  <2>2. w[1 + (i - 1)] = es[i - 1]
    BY <1>5, <2>1
  <2> QED BY ONLY <2>1, <2>2, i # 1
<1> QED BY <1>4, <1>5, <1>6 DEF Lines

(* A file that begins like a header and these entries.                     *)
LEMMA PrefixFile ==
    ASSUME NEW es \in Seq(Entry), NEW f \in Lines, Len(f) <= Len(es) + 1,
           \A i \in 1..Len(f) : f[i] = IF i = 1 THEN Header ELSE es[i - 1]
    PROVE  /\ f # <<>> => f[1] = Header
           /\ Len(f) = Len(es) + 1 => f = <<Header>> \o es
           /\ Connected(es) => FileConnected(f)
<1>0. f \in Seq(Entry \cup {Header}) /\ Len(f) \in Nat /\ Len(es) \in Nat
  BY DEF Lines
<1>1. f # <<>> => f[1] = Header
  BY <1>0
<1>2. ASSUME Len(f) = Len(es) + 1 PROVE f = <<Header>> \o es
  <2>1. PICK w : w = <<Header>> \o es
    OBVIOUS
  <2>2. /\ w \in Seq(Entry \cup {Header}) /\ Len(w) = Len(es) + 1
        /\ \A i \in 1..Len(w) : w[i] = IF i = 1 THEN Header ELSE es[i - 1]
    BY <2>1, HeaderFirst DEF Lines
  <2>3. \A i \in 1..Len(f) : f[i] = w[i]
    BY <1>2, <2>2
  <2> QED BY <1>0, <1>2, <2>1, <2>2, <2>3, SeqEqual
<1>3. ASSUME Connected(es) PROVE FileConnected(f)
  <2> SUFFICES ASSUME NEW i \in 2..Len(f)
               PROVE  f[i].parentId \in {0} \cup {f[j].id : j \in 2..(i - 1)}
    BY DEF FileConnected
  <2>1. i - 1 \in 1..Len(es) /\ f[i] = es[i - 1]
    BY <1>0
  <2>2. CASE f[i].parentId = 0
    BY <2>2
  <2>3. CASE f[i].parentId # 0
    <3>1. PICK j \in 1..((i - 1) - 1) : f[i].parentId = es[j].id
      BY <1>3, <2>1, <2>3 DEF Connected
    <3>2. j + 1 \in 2..(i - 1) /\ j + 1 \in 1..Len(f) /\ f[j + 1] = es[j]
      <4>1. j \in Nat /\ j >= 1 /\ i \in Nat /\ i <= Len(f) /\ j <= i - 2
        BY <1>0
      <4>2. j + 1 \in 2..(i - 1) /\ j + 1 \in 1..Len(f) /\ j + 1 # 1 /\ (j + 1) - 1 = j
        BY <1>0, <4>1
      <4> QED BY <4>2
    <3> QED BY <3>1, <3>2
  <2> QED BY <2>2, <2>3
<1> QED BY <1>1, <1>2, <1>3
(* A new entry behind the entries of the session.                          *)
LEMMA NewEntry ==
    ASSUME SInv, NEW e \in Entry, e.id = lastId + 1, e.parentId \in 0..lastId,
           faults = 0 => e.parentId \in {0} \cup Ids(fileEntries),
           NEW es, es = Append(fileEntries, e)
    PROVE  /\ es \in Seq(Entry) /\ es # <<>> /\ Last(es) = e /\ Len(es) = Len(fileEntries) + 1
           /\ \A i \in 1..Len(fileEntries) : es[i] = fileEntries[i]
           /\ Grown(es, lastId + 1)
           /\ faults = 0 => Connected(es)
<1>1. /\ fileEntries \in Seq(Entry) /\ Len(fileEntries) \in Nat /\ lastId \in Nat
      /\ Grown(fileEntries, lastId)
  BY Typed DEF SInv
<1>2. /\ es \in Seq(Entry) /\ Len(es) = Len(fileEntries) + 1 /\ es[Len(es)] = e /\ es # <<>>
      /\ \A i \in 1..Len(fileEntries) : es[i] = fileEntries[i]
  BY <1>1
<1>3. Last(es) = e
  BY <1>2 DEF Last
<1>4. \A i \in 1..Len(es) : i \in 1..Len(fileEntries) \/ i = Len(es)
  BY <1>1, <1>2
<1>5. Grown(es, lastId + 1)
  <2> SUFFICES ASSUME NEW i \in 1..Len(es)
               PROVE  es[i].parentId < es[i].id /\ es[i].id <= lastId + 1
    BY <1>2 DEF Grown
  <2>1. CASE i \in 1..Len(fileEntries)
    <3>1. /\ fileEntries[i] \in Entry /\ fileEntries[i].parentId < fileEntries[i].id
          /\ fileEntries[i].id <= lastId
      BY <1>1, <2>1 DEF Grown
    <3>2. fileEntries[i].id \in Nat
      BY <3>1 DEF Entry
    <3> QED BY <1>1, <1>2, <2>1, <3>1, <3>2
  <2>2. CASE i = Len(es)
    BY <1>1, <1>2, <2>2
  <2> QED BY <1>4, <2>1, <2>2
<1>6. ASSUME faults = 0 PROVE Connected(es)
  <2>1. Connected(fileEntries)
    BY <1>6 DEF SInv, FaultFree
  <2> SUFFICES ASSUME NEW i \in 1..Len(es)
               PROVE  es[i].parentId \in {0} \cup {es[j].id : j \in 1..(i - 1)}
    BY DEF Connected
  <2>2. CASE i \in 1..Len(fileEntries)
    <3>1. fileEntries[i].parentId \in {0} \cup {fileEntries[j].id : j \in 1..(i - 1)}
      BY <2>1, <2>2 DEF Connected
    <3>2. \A j \in 1..(i - 1) : j \in 1..Len(fileEntries)
      BY <1>1, <2>2
    <3>3. \A j \in 1..(i - 1) : es[j].id = fileEntries[j].id
      BY <1>2, <3>2
    <3>4. {es[j].id : j \in 1..(i - 1)} = {fileEntries[j].id : j \in 1..(i - 1)}
      BY <3>3
    <3> QED BY <1>2, <2>2, <3>1, <3>4
  <2>3. CASE i = Len(es)
    <3>1. e.parentId = 0 \/ \E j \in 1..Len(fileEntries) : e.parentId = fileEntries[j].id
      BY <1>1, <1>6 DEF Ids
    <3>2. \A j \in 1..Len(fileEntries) : j \in 1..(i - 1)
      BY <1>1, <1>2, <2>3
    <3> QED BY <1>2, <2>3, <3>1, <3>2
  <2> QED BY <1>4, <2>2, <2>3
<1> QED BY <1>2, <1>3, <1>5, <1>6

(* What has been appended to the file: of the new entry, or of all.        *)
LEMMA AppendedFile ==
    ASSUME SInv, alive, NEW e \in Entry, NEW es \in Seq(Entry), Len(es) = Len(fileEntries) + 1,
           \A i \in 1..Len(fileEntries) : es[i] = fileEntries[i], es[Len(es)] = e,
           Grown(es, lastId + 1), e.id = lastId + 1,
           NEW lines \in Lines, Appended(lines),
           flushed => Len(lines) = 1 /\ lines[1] = e,
           ~flushed => /\ file = None /\ Len(lines) = Len(es) + 1 /\ lines[1] = Header
                       /\ \A i \in 1..Len(es) : lines[1 + i] = es[i]
    PROVE  /\ file' \in Lines /\ file' # None /\ FileGrown(Parsed', lastId + 1)
           /\ flushed' \in BOOLEAN /\ alive' \in BOOLEAN /\ tail' \in {"whole", "cut", "open"}
           /\ faults' \in 0..MaxFaults /\ stored' \subseteq 1..MaxEntries
           /\ faults' = 0 => /\ faults = 0 /\ tail' = "whole" /\ Parsed' = file'
                             /\ Len(file') <= Len(es) + 1
                             /\ \A i \in 1..Len(file') :
                                    file'[i] = IF i = 1 THEN Header ELSE es[i - 1]
                             /\ alive' => Len(file') = Len(es) + 1
<1>1. PICK q : Piece(q, lines) /\ file' = Base \o q /\ (Done(q, lines) \/ Broken(q))
  BY DEF Appended
<1>2. q \in Lines
  BY <1>1 DEF Piece
<1>3. /\ file' \in Lines /\ Parsed' = file' /\ file' # None
      /\ Len(file') = Len(Base) + Len(q) /\ Len(q) \in Nat
      /\ \A i \in 1..Len(Base) : file'[i] = Parsed[i]
      /\ \A i \in 1..Len(q) : file'[Len(Base) + i] = q[i]
      /\ \A i \in 1..Len(file') : i \in 1..Len(Base) \/ i - Len(Base) \in 1..Len(q)
  BY <1>1, <1>2, FileAfter
<1>4. /\ Base \in Lines /\ Len(Base) \in Nat /\ Len(Base) <= Len(Parsed)
      /\ tail = "whole" => Base = Parsed
  BY BaseFacts
<1>5. /\ lastId \in Nat /\ MaxEntries \in Nat /\ faults \in Nat /\ faults \in 0..MaxFaults
      /\ MaxFaults \in Nat /\ stored \subseteq 1..MaxEntries /\ Len(fileEntries) \in Nat
      /\ fileEntries \in Seq(Entry) /\ Parsed \in Lines /\ Len(Parsed) \in Nat
  BY Typed
<1>6. Lost \in {0, 1} /\ (tail = "whole" => Lost = 0)
  BY DEF Lost
<1>7. Len(es) \in Nat /\ es \in Seq(Entry)
  OBVIOUS
<1>8. ~flushed => Parsed = <<>> /\ Len(Base) = 0
  <2> SUFFICES ASSUME file = None PROVE Parsed = <<>> /\ Len(Base) = 0
    OBVIOUS
  <2>1. Parsed = <<>>
    BY DEF Parsed
  <2>2. Len(<<>>) = 0
    OBVIOUS
  <2>3. Len(Parsed) = 0
    BY <2>1, <2>2, Zenon
  <2> HIDE DEF Base, Parsed
  <2> QED BY <1>4, <2>1, <2>3
<1>9. FileGrown(Parsed', lastId + 1)
  <2> SUFFICES ASSUME NEW i \in 2..Len(file')
               PROVE  /\ file'[i] \in Entry /\ file'[i].parentId < file'[i].id
                      /\ file'[i].id <= lastId + 1
    BY <1>3 DEF FileGrown
  <2>1. CASE i \in 1..Len(Base)
    <3>1. i \in 2..Len(Parsed) /\ file'[i] = Parsed[i]
      <4>1. i \in 2..Len(Parsed)
        BY <1>4, <1>5, <2>1
      <4>2. file'[i] = Parsed[i]
        BY <1>3, <2>1
      <4> QED BY <4>1, <4>2
    <3>2. Parsed[i] \in Entry /\ Parsed[i].parentId < Parsed[i].id /\ Parsed[i].id <= lastId
      BY <3>1 DEF SInv, FileGrown
    <3>3. Parsed[i].id \in Nat
      BY <3>2, EntryIds
    <3> QED BY <1>5, <3>1, <3>2, <3>3
  <2>2. CASE i - Len(Base) \in 1..Len(q)
    <3>1. \E j \in 1..Len(es) : file'[i] = es[j]
      <4>1. file'[i] = q[i - Len(Base)]
        <5>1. Len(Base) + (i - Len(Base)) = i
          BY <1>4, <2>2
        <5> QED BY <1>3, <2>2, <5>1
      <4>2. PICK k \in 1..Len(lines) : k = (i - Len(Base)) + Lost /\ q[i - Len(Base)] = lines[k]
        BY <1>1, <2>2 DEF Piece
      <4>3. CASE flushed
        <5>1. k = 1
          <6>1. Len(lines) = 1
            BY <4>3
          <6> QED BY ONLY <4>2, <6>1, k \in 1..Len(lines)
        <5>2. Len(es) \in 1..Len(es)
          BY <1>5, <1>7
        <5> QED BY <1>8, <4>1, <4>2, <4>3, <5>1, <5>2
      <4>4. CASE ~flushed
        <5>1. k - 1 \in 1..Len(es) /\ 1 + (k - 1) = k
          BY <1>6, <1>7, <1>8, <2>2, <4>2, <4>4
        <5> QED BY <1>8, <4>1, <4>2, <4>4, <5>1
      <4>5. flushed \in BOOLEAN
        BY DEF SInv, TypeOK
      <4> QED BY <4>3, <4>4, <4>5
    <3> QED BY <1>7, <3>1 DEF Grown
  <2> QED BY <1>3, <2>1, <2>2
<1>10. /\ flushed' \in BOOLEAN /\ alive' \in BOOLEAN /\ tail' \in {"whole", "cut", "open"}
       /\ faults' \in 0..MaxFaults /\ stored' \subseteq 1..MaxEntries
       /\ faults' = 0 => faults = 0
  <2>1. flushed \in BOOLEAN /\ alive \in BOOLEAN
    BY DEF SInv, TypeOK
  <2>2. CASE Done(q, lines)
    BY <1>5, <2>1, <2>2, WrittenTyped DEF Done
  <2>3. CASE Broken(q)
    BY <1>5, <2>1, <2>3 DEF Broken
  <2> QED BY <1>1, <2>2, <2>3
<1>11. ASSUME faults' = 0
       PROVE  /\ tail' = "whole" /\ Len(file') <= Len(es) + 1
              /\ \A i \in 1..Len(file') : file'[i] = IF i = 1 THEN Header ELSE es[i - 1]
              /\ alive' => Len(file') = Len(es) + 1
  <2>1. faults = 0 /\ tail = "whole" /\ Base = Parsed /\ Lost = 0
    BY <1>4, <1>6, <1>10, <1>11 DEF SInv, FaultFree
  <2>2. tail' = "whole" /\ (alive' => Len(q) = Len(lines))
    <3>1. CASE Done(q, lines)
      <4>1. Len(lines) - 0 = Len(lines)
        BY DEF Lines
      <4> QED BY <2>1, <3>1, <4>1 DEF Done
    <3>2. CASE Broken(q)
      BY <1>5, <1>11, <3>2 DEF Broken
    <3> QED BY <1>1, <3>1, <3>2
  <2>3. Len(q) <= Len(lines) /\ \A i \in 1..Len(q) : i \in 1..Len(lines) /\ q[i] = lines[i]
    <3>1. \A i \in 1..Len(q) : i + 0 = i
      BY <1>3
    <3>2. \A i \in 1..Len(q) : i \in 1..Len(lines) /\ q[i] = lines[i]
      BY <1>1, <2>1, <3>1 DEF Piece
    <3>3. Len(lines) \in Nat
      BY DEF Lines
    <3>4. Len(q) = 0 \/ Len(q) \in 1..Len(q)
      BY <1>3
    <3>5. Len(q) <= Len(lines)
      BY ONLY <1>3, <3>2, <3>3, <3>4
    <3> QED BY <3>2, <3>5
  <2>4. CASE flushed
    <3>1. file = <<Header>> \o fileEntries
      BY <2>1, <2>4 DEF SInv, FaultFree
    <3>5. file \in Lines /\ Parsed = file
      BY <1>5, <3>1, HeaderFirst, LinesAssumption DEF Parsed, Lines
    <3>6. /\ Len(Parsed) = 1 + Len(fileEntries) /\ Parsed[1] = Header
          /\ \A i \in 1..Len(fileEntries) : Parsed[1 + i] = fileEntries[i]
      <4> HIDE DEF Parsed
      <4> QED BY <1>5, <3>1, <3>5, HeaderFirst
    <3>7. \A i \in 1..Len(Base) : file'[i] = IF i = 1 THEN Header ELSE es[i - 1]
      <4> SUFFICES ASSUME NEW i \in 1..Len(Base), i # 1 PROVE file'[i] = es[i - 1]
        BY <1>3, <2>1, <3>6
      <4>1. i - 1 \in 1..Len(fileEntries) /\ 1 + (i - 1) = i
        BY <1>5, <2>1, <3>6
      <4> QED BY <1>3, <3>6, <4>1
    <3>8. \A i \in 1..Len(file') :
             i - Len(Base) \in 1..Len(q) => i = Len(es) + 1 /\ file'[i] = es[i - 1]
      <4> SUFFICES ASSUME NEW i \in 1..Len(file'), i - Len(Base) \in 1..Len(q)
                   PROVE  i = Len(es) + 1 /\ file'[i] = es[i - 1]
        OBVIOUS
      <4>1. i - Len(Base) = 1
        <5>1. Len(lines) = 1
          BY <2>4
        <5>2. i - Len(Base) \in 1..Len(lines)
          BY <2>3
        <5> QED BY ONLY <5>1, <5>2
      <4>2. Len(Base) + 1 = i /\ i = Len(es) + 1 /\ i - 1 = Len(es)
        BY <1>5, <1>7, <2>1, <3>6, <4>1
      <4>3. file'[i] = q[1] /\ q[1] = lines[1] /\ lines[1] = e
        BY <1>3, <1>8, <2>3, <2>4, <4>1, <4>2
      <4> QED BY <4>2, <4>3
    <3>9. \A i \in 1..Len(file') : file'[i] = IF i = 1 THEN Header ELSE es[i - 1]
      <4> SUFFICES ASSUME NEW i \in 1..Len(file')
                   PROVE  file'[i] = IF i = 1 THEN Header ELSE es[i - 1]
        OBVIOUS
      <4>1. CASE i \in 1..Len(Base)
        BY <3>7, <4>1
      <4>2. CASE i - Len(Base) \in 1..Len(q)
        <5>1. i = Len(es) + 1 /\ file'[i] = es[i - 1]
          BY <3>8, <4>2
        <5>2. Len(es) # 0
          BY <1>5
        <5>3. i # 1
          BY ONLY <1>7, <5>1, <5>2
        <5> QED BY <5>1, <5>3
      <4> QED BY <1>3, <4>1, <4>2
    <3>10. Len(file') <= Len(es) + 1 /\ (alive' => Len(file') = Len(es) + 1)
      <4>1. Len(lines) = 1 /\ Len(q) <= 1 /\ (alive' => Len(q) = 1)
        BY <2>2, <2>3, <2>4
      <4>2. Len(Base) = Len(es) /\ Len(file') = Len(es) + Len(q) /\ Len(q) \in Nat
        BY <1>3, <1>5, <1>7, <2>1, <3>6
      <4>3. Len(file') <= Len(es) + 1
        BY ONLY <1>7, <4>1, <4>2
      <4>4. ASSUME alive' PROVE Len(file') = Len(es) + 1
        <5>1. Len(q) = 1
          BY <4>1, <4>4
        <5> QED BY <4>2, <5>1
      <4> QED BY <4>3, <4>4
    <3> QED BY <2>2, <3>9, <3>10
  <2>5. CASE ~flushed
    <3>1. Len(Base) = 0 /\ Len(file') = Len(q)
      BY <1>3, <1>8, <2>5
    <3>2. \A i \in 1..Len(file') : file'[i] = lines[i] /\ i \in 1..Len(lines)
      <4> SUFFICES ASSUME NEW i \in 1..Len(file') PROVE file'[i] = lines[i] /\ i \in 1..Len(lines)
        OBVIOUS
      <4>1. i \in 1..Len(q) /\ 0 + i = i
        BY <3>1
      <4> QED BY <1>3, <2>3, <3>1, <4>1
    <3>3. \A i \in 1..Len(file') : file'[i] = IF i = 1 THEN Header ELSE es[i - 1]
      <4> SUFFICES ASSUME NEW i \in 1..Len(file'), i # 1 PROVE file'[i] = es[i - 1]
        BY <1>8, <2>5, <3>2
      <4>1. i - 1 \in 1..Len(es) /\ 1 + (i - 1) = i
        BY <1>7, <1>8, <2>5, <3>2
      <4> QED BY <1>8, <2>5, <3>2, <4>1
    <3> QED BY <1>7, <1>8, <2>2, <2>3, <2>5, <3>1, <3>3
  <2>6. flushed \in BOOLEAN
    BY DEF SInv, TypeOK
  <2> QED BY <2>4, <2>5, <2>6
<1> QED BY <1>3, <1>9, <1>10, <1>11
(* A new entry, appended to the file or not, with the process killed while *)
(* that is done or not.                                                    *)
LEMMA EnteredStep ==
    ASSUME SInv, alive, NEW type \in Types \cup {"compaction", "branch_summary"},
           NEW parent \in 0..lastId, faults = 0 => parent \in {0} \cup Ids(fileEntries),
           NEW ref \in 0..MaxEntries, NEW summary \in SUBSET (1..MaxEntries),
           Entered(type, parent, ref, summary)
    PROVE  Store'
<1> DEFINE e == [id |-> lastId + 1, parentId |-> parent, type |-> type, ref |-> ref,
                 summary |-> summary]
           es == Append(fileEntries, e)
<1>1. /\ lastId < MaxEntries /\ lastId' = lastId + 1 /\ Persisted(es)
      /\ fileEntries' = IF alive' THEN es ELSE <<>>
      /\ leafId' = IF alive' THEN e.id ELSE 0
  BY DEF Entered
<1>2. /\ lastId \in 0..MaxEntries /\ lastId \in Nat /\ MaxEntries \in Nat
      /\ fileEntries \in Seq(Entry) /\ Len(fileEntries) \in Nat /\ Parsed \in Lines
      /\ faults \in 0..MaxFaults /\ stored \subseteq 1..MaxEntries
  BY Typed
<1>3. lastId + 1 \in 1..MaxEntries /\ lastId' \in 0..MaxEntries /\ parent \in 0..MaxEntries
  BY <1>1, <1>2
<1>4. e \in Entry /\ e.id = lastId + 1 /\ e.parentId = parent
  BY <1>3 DEF Entry
<1> HIDE DEF e
<1>5. PICK new : new = es
  OBVIOUS
<1>6. /\ new \in Seq(Entry) /\ new # <<>> /\ Last(new) = e /\ Len(new) = Len(fileEntries) + 1
      /\ \A i \in 1..Len(fileEntries) : new[i] = fileEntries[i]
      /\ Grown(new, lastId + 1)
      /\ faults = 0 => Connected(new)
  BY <1>4, <1>5, NewEntry
<1> HIDE DEF es
<1>7. new[Len(new)] = e /\ Len(new) \in Nat
  BY <1>6 DEF Last
<1>8. \A i \in 1..Len(<<>>) : FALSE
  OBVIOUS
<1> DEFINE FileOK ==
             /\ alive' \in BOOLEAN /\ flushed' \in BOOLEAN /\ tail' \in {"whole", "cut", "open"}
             /\ faults' \in 0..MaxFaults /\ stored' \subseteq 1..MaxEntries
             /\ (file' = None \/ file' \in Lines) /\ FileGrown(Parsed', lastId + 1)
             /\ Losses'
             /\ faults' = 0 => /\ faults = 0 /\ tail' = "whole" /\ FileConnected(Parsed')
                               /\ Parsed' # <<>> => Parsed'[1] = Header
                               /\ alive' /\ flushed' => file' = <<Header>> \o new
<1>9. FileOK
  <2>1. CASE ~flushed /\ UNCHANGED <<file, tail, stored, flushed, alive, faults>>
    <3>1. Parsed' = Parsed /\ Base' = Base
      BY <2>1 DEF Parsed, Base
    <3>2. FileGrown(Parsed, lastId + 1)
      <4> SUFFICES ASSUME NEW i \in 2..Len(Parsed)
                   PROVE  /\ Parsed[i] \in Entry /\ Parsed[i].parentId < Parsed[i].id
                          /\ Parsed[i].id <= lastId + 1
        BY <1>2 DEF FileGrown
      <4>1. Parsed[i] \in Entry /\ Parsed[i].parentId < Parsed[i].id /\ Parsed[i].id <= lastId
        BY DEF SInv, FileGrown
      <4>2. Parsed[i].id \in Nat
        BY <4>1, EntryIds
      <4> QED BY <1>2, <4>1, <4>2
    <3>3. Losses'
      BY <2>1, <3>1 DEF SInv, Losses
    <3>4. /\ alive \in BOOLEAN /\ flushed \in BOOLEAN /\ tail \in {"whole", "cut", "open"}
          /\ (file = None \/ file \in Lines)
      BY DEF SInv, TypeOK
    <3>5. faults = 0 => /\ tail = "whole" /\ FileConnected(Parsed)
                        /\ Parsed # <<>> => Parsed[1] = Header
      BY DEF SInv, FaultFree
    <3> HIDE DEF Parsed
    <3>6. FileGrown(Parsed', lastId + 1)
      BY <3>1, <3>2
    <3>7. faults' = 0 => /\ faults = 0 /\ tail' = "whole" /\ FileConnected(Parsed')
                         /\ Parsed' # <<>> => Parsed'[1] = Header
      BY <2>1, <3>1, <3>5
    <3> QED BY <1>2, <2>1, <3>3, <3>4, <3>6, <3>7
  <2>2. ASSUME NEW lines \in Lines, lines # <<>>, Appended(lines),
               flushed => Len(lines) = 1 /\ lines[1] = e,
               ~flushed => /\ file = None /\ Len(lines) = Len(new) + 1 /\ lines[1] = Header
                           /\ \A i \in 1..Len(new) : lines[1 + i] = new[i]
        PROVE  FileOK
    <3>1. /\ file' \in Lines /\ FileGrown(Parsed', lastId + 1)
          /\ flushed' \in BOOLEAN /\ alive' \in BOOLEAN /\ tail' \in {"whole", "cut", "open"}
          /\ faults' \in 0..MaxFaults /\ stored' \subseteq 1..MaxEntries
          /\ faults' = 0 => /\ faults = 0 /\ tail' = "whole" /\ Parsed' = file'
                            /\ Len(file') <= Len(new) + 1
                            /\ \A i \in 1..Len(file') :
                                    file'[i] = IF i = 1 THEN Header ELSE new[i - 1]
                            /\ alive' => Len(file') = Len(new) + 1
      BY <1>4, <1>6, <1>7, <2>2, AppendedFile
    <3>2. Losses'
      BY <2>2, LossesAppended
    <3>3. ASSUME faults' = 0
          PROVE  /\ FileConnected(Parsed') /\ (Parsed' # <<>> => Parsed'[1] = Header)
                 /\ alive' /\ flushed' => file' = <<Header>> \o new
      <4>1. Connected(new) /\ Parsed' = file'
        BY <1>6, <3>1, <3>3
      <4>2. /\ Len(file') <= Len(new) + 1
            /\ \A i \in 1..Len(file') : file'[i] = IF i = 1 THEN Header ELSE new[i - 1]
        BY <3>1, <3>3
      <4>3. PICK f \in Lines : f = file'
        BY <3>1
      <4>4. /\ f # <<>> => f[1] = Header
            /\ Len(f) = Len(new) + 1 => f = <<Header>> \o new
            /\ FileConnected(f)
        BY <1>6, <4>1, <4>2, <4>3, PrefixFile
      <4> HIDE DEF Parsed
      <4> QED BY <3>1, <3>3, <4>1, <4>3, <4>4
    <3> QED BY <3>1, <3>2, <3>3
  <2>3. CASE flushed /\ Appended(<<e>>)
    <3>1. PICK lines : lines = <<e>>
      OBVIOUS
    <3>2. lines \in Lines /\ Len(lines) = 1 /\ lines[1] = e /\ lines # <<>>
      BY <1>4, <3>1 DEF Lines
    <3>3. Appended(lines)
      BY <2>3, <3>1
    <3> QED BY <2>2, <2>3, <3>2, <3>3
  <2>4. CASE ~flushed /\ file = None /\ Appended(<<Header>> \o new)
    <3>1. PICK lines : lines = <<Header>> \o new
      OBVIOUS
    <3>2. /\ lines \in Lines /\ Len(lines) = Len(new) + 1 /\ lines[1] = Header
          /\ \A i \in 1..Len(new) : lines[1 + i] = new[i]
      <4>1. new \in Seq(Entry)
        BY <1>6
      <4>2. lines \in Lines
        BY <3>1, <4>1, HeaderFirst
      <4>3. /\ Len(lines) = Len(new) + 1 /\ lines[1] = Header
            /\ \A i \in 1..Len(new) : lines[1 + i] = new[i]
        BY <3>1, <4>1, HeaderFirst
      <4> QED BY <4>2, <4>3
    <3>3. lines # <<>>
      <4>1. Len(lines) # 0 /\ Len(<<>>) = 0
        BY <1>7, <3>2
      <4> QED BY <4>1
    <3>4. Appended(lines)
      BY <2>4, <3>1
    <3> QED BY <2>2, <2>4, <3>2, <3>3, <3>4
  <2>5. \/ ~flushed /\ UNCHANGED <<file, tail, stored, flushed, alive, faults>>
        \/ flushed /\ Appended(<<e>>)
        \/ ~flushed /\ file = None /\ Appended(<<Header>> \o new)
    BY <1>1, <1>5, <1>6, WriteCases
  <2> QED BY <2>1, <2>3, <2>4, <2>5
<1>10. /\ Grown(fileEntries', lastId + 1)
       /\ leafId' = 0 \/ \E x \in ToSet(fileEntries') : x.id = leafId'
       /\ faults' = 0 => Connected(fileEntries')
  <2>1. CASE alive'
    <3>1. fileEntries' = new /\ leafId' = e.id
      BY <1>1, <1>5, <2>1
    <3>2. e \in ToSet(new)
      <4>1. Len(new) \in 1..Len(new) /\ DOMAIN new = 1..Len(new)
        BY <1>6, <1>7
      <4> QED BY <1>7, <4>1 DEF ToSet
    <3>3. \E x \in ToSet(fileEntries') : x.id = leafId'
      BY <3>1, <3>2
    <3>4. faults' = 0 => Connected(fileEntries')
      BY <1>6, <1>9, <3>1
    <3>5. Grown(fileEntries', lastId + 1)
      BY <1>6, <3>1
    <3> QED BY <3>3, <3>4, <3>5
  <2>2. CASE ~alive'
    <3>1. fileEntries' = <<>> /\ leafId' = 0
      BY <1>1, <2>2
    <3>2. PICK none : none = <<>> /\ none \in Seq(Entry) /\ Len(none) = 0
      <4>1. <<>> \in Seq(Entry) /\ Len(<<>>) = 0
        OBVIOUS
      <4> QED BY <4>1
    <3>3. Grown(none, lastId + 1) /\ Connected(none)
      BY <3>2 DEF Grown, Connected
    <3>4. fileEntries' = none
      BY <3>1, <3>2
    <3> QED BY <3>1, <3>3, <3>4
  <2> QED BY <1>9, <2>1, <2>2
<1>11. FaultFree'
  <2> SUFFICES ASSUME faults' = 0
               PROVE  /\ tail' = "whole" /\ (Parsed' # <<>> => Parsed'[1] = Header)
                      /\ alive' /\ flushed' => file' = <<Header>> \o fileEntries'
                      /\ Connected(fileEntries') /\ FileConnected(Parsed')
    BY DEF FaultFree, Connected, FileConnected
  <2>1. alive' => fileEntries' = new
    BY <1>1, <1>5
  <2> HIDE DEF Parsed
  <2> QED BY <1>9, <1>10, <2>1
<1> HIDE DEF Parsed
<1>12. /\ Grown(fileEntries, lastId)' /\ FileGrown(Parsed, lastId)'
  BY <1>1, <1>9, <1>10 DEF Grown, FileGrown
<1> QED BY <1>3, <1>9, <1>10, <1>11, <1>12 DEF Store
----------------------------------------------------------------------------
(* The steps.                                                              *)

(* Where entries are found, and their ids.                                 *)
LEMMA IdsOf ==
    ASSUME NEW n \in Nat, NEW es, Grown(es, n)
    PROVE  /\ Ids(es) \subseteq 1..MaxEntries /\ \A x \in Ids(es) : x \in 1..n
           /\ ToSet(es) \subseteq Entry
           /\ leafOf(es) = 0 \/ \E e \in ToSet(es) : e.id = leafOf(es)
           /\ leafOf(es) \in {0} \cup Ids(es)
<1>1. es \in Seq(Entry) /\ DOMAIN es = 1..Len(es) /\ Len(es) \in Nat
  BY DEF Grown
<1>2. \A i \in 1..Len(es) : es[i] \in Entry /\ es[i].id <= n
  BY <1>1 DEF Grown
<1>3. \A i \in 1..Len(es) : es[i].id \in 1..MaxEntries /\ es[i].id \in 1..n
  <2> SUFFICES ASSUME NEW i \in 1..Len(es)
               PROVE  es[i].id \in 1..MaxEntries /\ es[i].id \in 1..n
    OBVIOUS
  <2>1. es[i].id \in 1..MaxEntries
    BY <1>2 DEF Entry
  <2> QED BY <1>2, <2>1
<1>4. ToSet(es) \subseteq Entry
  BY <1>1, <1>2 DEF ToSet
<1>5. CASE es = <<>>
  BY <1>1, <1>3, <1>4, <1>5 DEF leafOf, Ids
<1>6. CASE es # <<>>
  <2>1. Len(es) \in 1..Len(es)
    BY <1>1, <1>6
  <2>2. leafOf(es) = es[Len(es)].id
    BY <1>6 DEF leafOf, Last
  <2>3. es[Len(es)] \in ToSet(es)
    BY <1>1, <2>1 DEF ToSet
  <2>4. leafOf(es) \in Ids(es)
    BY <1>1, <2>1, <2>2 DEF Ids
  <2>5. Ids(es) \subseteq 1..MaxEntries /\ \A x \in Ids(es) : x \in 1..n
    BY <1>1, <1>3 DEF Ids
  <2> QED BY <1>4, <2>2, <2>3, <2>4, <2>5
<1> QED BY <1>5, <1>6

LEMMA NoEntries ==
    /\ <<>> \in Seq(Entry) /\ <<>> \in Lines /\ Len(<<>>) = 0
    /\ \A n : Grown(<<>>, n) /\ FileGrown(<<>>, n)
    /\ Connected(<<>>) /\ FileConnected(<<>>) /\ Written(<<>>) = {}
<1>1. PICK none : /\ none = <<>> /\ none \in Seq(Entry) /\ none \in Lines
                  /\ Len(none) = 0 /\ DOMAIN none = {}
  <2>1. <<>> \in Seq(Entry) /\ <<>> \in Lines /\ Len(<<>>) = 0 /\ DOMAIN <<>> = {}
    BY DEF Lines
  <2> QED BY <2>1
<1>2. \A n : Grown(none, n) /\ FileGrown(none, n)
  BY <1>1 DEF Grown, FileGrown
<1>3. Connected(none) /\ FileConnected(none)
  BY <1>1 DEF Connected, FileConnected
<1>4. Written(none) = {}
  BY <1>1 DEF Written, ToSet
<1> QED BY <1>1, <1>2, <1>3, <1>4

(* The path the model is shown.                                            *)
LEMMA PathTyped ==
    ASSUME NEW n \in Nat, NEW es, Grown(es, n), NEW from \in 0..MaxEntries,
           NEW path, path = getBranch(es, from)
    PROVE  /\ path \in Seq(Entry) /\ Len(path) \in Nat /\ ToSet(path) \subseteq Entry
           /\ \A k \in 0..Len(path) : Ids(SubSeq(path, 1, k)) \subseteq 1..MaxEntries
           /\ Ids(path) \subseteq 1..MaxEntries
           /\ from \in Ids(es) => Last(path) = EntryOf(es, from)
<1>1. PICK s : s = branchWithout(es, from, {})
  OBVIOUS
<1>2. Branch(s, es, {}, from)
  BY <1>1, BranchFacts
<1>3. s \in Seq(Entry) /\ (from \in Ids(es) => s[Len(s)] = EntryOf(es, from))
  BY <1>2 DEF Branch
<1>4. path = s
  BY <1>1 DEF getBranch
<1>5. DOMAIN path = 1..Len(path) /\ Len(path) \in Nat /\ \A i \in 1..Len(path) : path[i] \in Entry
  BY <1>3, <1>4
<1>6. ToSet(path) \subseteq Entry
  BY <1>5 DEF ToSet
<1>7. \A i \in 1..Len(path) : path[i].id \in 1..MaxEntries
  <2> SUFFICES ASSUME NEW i \in 1..Len(path) PROVE path[i].id \in 1..MaxEntries
    OBVIOUS
  <2>1. path[i] \in Entry
    BY <1>5
  <2> QED BY <2>1 DEF Entry
<1>8. \A k \in 0..Len(path) : Ids(SubSeq(path, 1, k)) \subseteq 1..MaxEntries
  <2> SUFFICES ASSUME NEW k \in 0..Len(path) PROVE Ids(SubSeq(path, 1, k)) \subseteq 1..MaxEntries
    OBVIOUS
  <2>1. PICK t : t = SubSeq(path, 1, k)
    OBVIOUS
  <2>2. DOMAIN t = 1..k /\ \A i \in 1..k : t[i] = path[i] /\ i \in 1..Len(path)
    BY <1>3, <1>4, <2>1
  <2>3. Ids(t) \subseteq 1..MaxEntries
    BY <1>7, <2>2 DEF Ids
  <2> QED BY <2>1, <2>3
<1>9. Ids(path) \subseteq 1..MaxEntries
  BY <1>5, <1>7 DEF Ids
<1> QED BY <1>3, <1>4, <1>5, <1>6, <1>8, <1>9 DEF Last

(* The entries of a file.                                                  *)
LEMMA TailOfFile ==
    ASSUME NEW n, NEW ls, FileGrown(ls, n), ls # <<>>, NEW es, es = Tail(ls)
    PROVE  /\ Grown(es, n)
           /\ FileConnected(ls) => Connected(es)
           /\ ls[1] = Header => ls = <<Header>> \o es
<1>1. ls \in Seq(Entry \cup {Header}) /\ Len(ls) \in Nat /\ Len(ls) >= 1
  BY DEF FileGrown, Lines
<1>2. /\ es \in Seq(Entry \cup {Header}) /\ Len(es) = Len(ls) - 1 /\ Len(es) \in Nat
      /\ \A i \in 1..Len(es) : es[i] = ls[i + 1] /\ i + 1 \in 2..Len(ls)
  <2>1. PICK s \in Seq(Entry \cup {Header}) : s = ls /\ s # <<>> /\ Len(s) \in Nat
    BY <1>1
  <2>2. /\ Tail(s) \in Seq(Entry \cup {Header}) /\ Len(Tail(s)) = Len(s) - 1 /\ Len(s) - 1 \in Nat
        /\ \A i \in 1..(Len(s) - 1) : Tail(s)[i] = s[i + 1] /\ i + 1 \in 2..Len(s)
    BY <2>1
  <2> QED BY <2>1, <2>2, Zenon
<1>3. \A i \in 2..Len(ls) : ls[i] \in Entry /\ ls[i].parentId < ls[i].id /\ ls[i].id <= n
  BY DEF FileGrown
<1>4. \A i \in 1..Len(es) : es[i] \in Entry /\ es[i].parentId < es[i].id /\ es[i].id <= n
  BY <1>2, <1>3
<1>5. es \in Seq(Entry)
  <2> DEFINE t == [i \in 1..Len(es) |-> es[i]]
  <2>1. t \in Seq(Entry) /\ Len(t) = Len(es) /\ \A i \in 1..Len(t) : t[i] = es[i]
    BY <1>2, <1>4
  <2>2. t \in Seq(Entry \cup {Header})
    BY <2>1
  <2> HIDE DEF t
  <2>3. t = es
    BY <1>2, <2>1, <2>2, SeqEqual
  <2> QED BY <2>1, <2>3
<1>6. ASSUME FileConnected(ls) PROVE Connected(es)
  <2> SUFFICES ASSUME NEW i \in 1..Len(es)
               PROVE  es[i].parentId \in {0} \cup {es[j].id : j \in 1..(i - 1)}
    BY DEF Connected
  <2>1. i + 1 \in 2..Len(ls) /\ es[i] = ls[i + 1]
    BY <1>2
  <2>2. ls[i + 1].parentId \in {0} \cup {ls[j].id : j \in 2..((i + 1) - 1)}
    BY <1>6, <2>1 DEF FileConnected
  <2>3. CASE ls[i + 1].parentId = 0
    BY <2>1, <2>3
  <2>4. CASE ls[i + 1].parentId # 0
    <3>1. PICK j \in 2..((i + 1) - 1) : ls[i + 1].parentId = ls[j].id
      BY <2>2, <2>4
    <3>2. j - 1 \in 1..(i - 1) /\ j - 1 \in 1..Len(es) /\ (j - 1) + 1 = j
      BY <1>2
    <3>3. es[j - 1] = ls[j]
      BY <1>2, <3>2
    <3> QED BY <2>1, <3>1, <3>2, <3>3
  <2> QED BY <2>3, <2>4
<1>7. ASSUME ls[1] = Header PROVE ls = <<Header>> \o es
  <2>1. \A i \in 1..Len(ls) : ls[i] = IF i = 1 THEN Header ELSE es[i - 1]
    <3> SUFFICES ASSUME NEW i \in 1..Len(ls), i # 1 PROVE ls[i] = es[i - 1]
      BY <1>7
    <3>1. i - 1 \in 1..Len(es) /\ (i - 1) + 1 = i
      BY <1>1, <1>2
    <3> QED BY <1>2, <3>1
  <2>2. Len(ls) = Len(es) + 1 /\ ls \in Lines
    BY <1>1, <1>2 DEF Lines
  <2> QED BY <1>5, <2>1, <2>2, PrefixFile
<1> QED BY <1>4, <1>5, <1>6, <1>7 DEF Grown
LEMMA StoreUnchanged ==
    ASSUME SInv,
           UNCHANGED <<fileEntries, leafId, flushed, alive, file, tail, lastId, faults, stored>>
    PROVE  Store'
<1>1. Store
  BY InTwoParts
<1>2. Parsed' = Parsed /\ Base' = Base
  BY DEF Parsed, Base
<1>3. Losses' /\ FaultFree'
  <2>1. Losses'
    BY <1>1, <1>2 DEF Store, Losses
  <2>2. faults = 0 => /\ tail = "whole" /\ (Parsed # <<>> => Parsed[1] = Header)
                      /\ alive /\ flushed => file = <<Header>> \o fileEntries
                      /\ Connected(fileEntries) /\ FileConnected(Parsed)
    BY <1>1 DEF Store, FaultFree
  <2> HIDE DEF Parsed
  <2>3. FaultFree'
    BY <1>2, <2>2 DEF FaultFree, Connected, FileConnected
  <2> QED BY <2>1, <2>3
<1>4. Grown(fileEntries, lastId)' /\ FileGrown(Parsed, lastId)'
  <2>1. Grown(fileEntries, lastId) /\ FileGrown(Parsed, lastId)
    BY <1>1 DEF Store
  <2> HIDE DEF Parsed
  <2> QED BY <1>2, <2>1 DEF Grown, FileGrown
<1> QED BY <1>1, <1>3, <1>4 DEF Store

LEMMA AppendStep ==
    ASSUME SInv, NEW type \in Types, NEW target \in 0..MaxEntries, AppendEntry(type, target)
    PROVE  SInv'
<1>1. /\ alive /\ Entered(type, leafId, target, {})
      /\ UNCHANGED <<preparation, moves, forgotten>>
  BY DEF AppendEntry
<1>2. leafId \in 0..lastId /\ leafId \in {0} \cup Ids(fileEntries)
  BY Typed
<1>3. {} \in SUBSET (1..MaxEntries) /\ type \in Types \cup {"compaction", "branch_summary"}
  OBVIOUS
<1>4. Store'
  BY <1>1, <1>2, <1>3, EnteredStep
<1>5. Others'
  BY <1>1, InTwoParts DEF Others, Prepared
<1> QED BY <1>4, <1>5, FromTwoParts

LEMMA KillStep == SInv /\ Kill => SInv'
<1> SUFFICES ASSUME SInv, Kill PROVE SInv'
  OBVIOUS
<1>1. /\ alive' = FALSE /\ fileEntries' = <<>> /\ leafId' = 0 /\ flushed' = FALSE
      /\ preparation' = None
      /\ UNCHANGED <<file, tail, lastId, moves, faults, stored, forgotten>>
  BY DEF Kill, disk
<1>2. Store /\ Others
  BY InTwoParts
<1>3. Parsed' = Parsed /\ Base' = Base
  BY <1>1 DEF Parsed, Base
<1>4. Losses'
  BY <1>1, <1>2, <1>3 DEF Store, Losses
<1> HIDE DEF Parsed
<1>5. Grown(fileEntries, lastId)' /\ Connected(fileEntries)'
  BY <1>1, NoEntries DEF Grown, Connected
<1>6. FileGrown(Parsed, lastId)'
  BY <1>1, <1>2, <1>3 DEF Store, FileGrown
<1>7. FaultFree'
  <2>1. faults = 0 => /\ tail = "whole" /\ (Parsed # <<>> => Parsed[1] = Header)
                      /\ FileConnected(Parsed)
    BY <1>2 DEF Store, FaultFree
  <2> QED BY <1>1, <1>3, <1>5, <2>1 DEF FaultFree, FileConnected, Connected
<1>8. Store'
  BY <1>1, <1>2, <1>4, <1>5, <1>6, <1>7 DEF Store
<1>9. Others'
  BY <1>1, <1>2 DEF Others, Prepared
<1> QED BY <1>8, <1>9, FromTwoParts

LEMMA PrepareStep ==
    ASSUME SInv, NEW full \in 1..MaxEntries, PrepareCompaction(full)
    PROVE  SInv'
<1>1. PICK path : path = getBranch(fileEntries, leafId)
  OBVIOUS
<1>2. PICK p : p = prepareCompaction(path, full)
  OBVIOUS
<1>3. /\ boundaryStart(path) \in DOMAIN path /\ preparation' = p
      /\ UNCHANGED <<fileEntries, leafId, flushed, alive, file, tail, lastId, moves, faults, stored,
                     forgotten>>
  BY <1>1, <1>2 DEF PrepareCompaction, memory, disk
<1>4. lastId \in Nat /\ leafId \in 0..MaxEntries /\ Grown(fileEntries, lastId)
  BY Typed DEF SInv
<1>5. path \in Seq(Entry)
  BY <1>1, <1>4, PathTyped
<1>6. p.firstKept \in 1..MaxEntries /\ p.summary \cup p.previous \subseteq 1..MaxEntries
  BY <1>2, <1>3, <1>5, PreparationTyped
<1>7. Store'
  BY <1>3, StoreUnchanged
<1>8. Others'
  BY <1>3, <1>6, InTwoParts DEF Others, Prepared
<1> QED BY <1>7, <1>8, FromTwoParts

LEMMA FinishStep == SInv /\ FinishCompaction => SInv'
<1> SUFFICES ASSUME SInv, FinishCompaction PROVE SInv'
  OBVIOUS
<1>1. PICK path : path = getBranch(fileEntries, leafId)
  OBVIOUS
<1>2. /\ alive /\ preparation # None
      /\ Entered("compaction", leafId, preparation.firstKept, preparation.summary)
      /\ preparation' = None /\ moves' = moves
      /\ forgotten' = forgotten \cup (preparation.previous \ preparation.summary)
                      \cup (IF PlaceOf(path, preparation.leafId) = 0 THEN Ids(path) ELSE {})
  BY <1>1 DEF FinishCompaction
<1>3. /\ lastId \in Nat /\ leafId \in 0..MaxEntries /\ Grown(fileEntries, lastId)
      /\ leafId \in 0..lastId /\ leafId \in {0} \cup Ids(fileEntries)
  BY Typed DEF SInv
<1>4. Ids(path) \subseteq 1..MaxEntries
  BY <1>1, <1>3, PathTyped
<1>5. /\ preparation.firstKept \in 0..MaxEntries /\ preparation.summary \in SUBSET (1..MaxEntries)
      /\ preparation.previous \subseteq 1..MaxEntries
      /\ moves \in 0..MaxMoves /\ forgotten \subseteq 1..MaxEntries
  BY <1>2, InTwoParts DEF Others, Prepared
<1>6. "compaction" \in Types \cup {"compaction", "branch_summary"}
  OBVIOUS
<1>7. Store'
  BY <1>2, <1>3, <1>5, <1>6, EnteredStep
<1>8. forgotten' \subseteq 1..MaxEntries
  <2>1. (IF PlaceOf(path, preparation.leafId) = 0 THEN Ids(path) ELSE {}) \subseteq 1..MaxEntries
    BY <1>4
  <2> QED BY <1>2, <1>5, <2>1
<1>9. Others'
  BY <1>2, <1>5, <1>8 DEF Others, Prepared
<1> QED BY <1>7, <1>9, FromTwoParts

LEMMA CancelStep == SInv /\ CancelCompaction => SInv'
<1> SUFFICES ASSUME SInv, CancelCompaction PROVE SInv'
  OBVIOUS
<1>1. /\ preparation' = None
      /\ UNCHANGED <<fileEntries, leafId, flushed, alive, file, tail, lastId, moves, faults, stored,
                     forgotten>>
  BY DEF CancelCompaction, memory, disk
<1>2. Store'
  BY <1>1, StoreUnchanged
<1>3. Others'
  BY <1>1, InTwoParts DEF Others, Prepared
<1> QED BY <1>2, <1>3, FromTwoParts
LEMMA NavigateStep ==
    ASSUME SInv, NEW target \in 1..MaxEntries, NEW summarize \in BOOLEAN,
           NavigateTree(target, summarize)
    PROVE  SInv'
<1>1. PICK path : path = getBranch(fileEntries, target)
  OBVIOUS
<1>2. PICK here : here = getBranch(fileEntries, leafId)
  OBVIOUS
<1>3. PICK newLeaf : newLeaf = IF Last(path).type = "user" THEN Last(path).parentId ELSE target
  OBVIOUS
<1>4. PICK left : left = {e \in ToSet(here) : e \notin ToSet(path)}
  OBVIOUS
<1>5. PICK told : told = {e.id : e \in {f \in left : Visible(f) /\ f.type # "toolResult"}}
  OBVIOUS
<1>6. /\ alive /\ faults = 0 /\ moves < MaxMoves /\ moves' = moves + 1
      /\ target \in Ids(fileEntries)
      /\ \/ Entered("branch_summary", newLeaf, 0, told)
         \/ leafId' = newLeaf
            /\ UNCHANGED <<fileEntries, flushed, alive, file, tail, lastId, faults, stored>>
      /\ preparation' = preparation /\ forgotten' = forgotten
  BY <1>1, <1>2, <1>3, <1>4, <1>5 DEF NavigateTree, disk
<1>7. /\ lastId \in Nat /\ leafId \in 0..MaxEntries /\ Grown(fileEntries, lastId)
      /\ fileEntries \in Seq(Entry) /\ Len(fileEntries) \in Nat /\ MaxEntries \in Nat
  BY Typed DEF SInv
<1>8. Last(path) = EntryOf(fileEntries, target)
  BY <1>1, <1>6, <1>7, PathTyped
<1>9. newLeaf \in {0} \cup Ids(fileEntries)
  <2>1. EntryOf(fileEntries, target) \in ToSet(fileEntries)
    BY <1>6, <1>7, EntryFacts
  <2>2. DOMAIN fileEntries = 1..Len(fileEntries)
    BY <1>7
  <2>3. PICK i \in 1..Len(fileEntries) : EntryOf(fileEntries, target) = fileEntries[i]
    BY <2>1, <2>2 DEF ToSet
  <2>4. fileEntries[i].parentId \in {0} \cup {fileEntries[j].id : j \in 1..(i - 1)}
    BY <1>6 DEF SInv, FaultFree, Connected
  <2>5. fileEntries[i].parentId \in {0} \cup Ids(fileEntries)
    <3>1. \A j \in 1..(i - 1) : j \in 1..Len(fileEntries)
      BY <1>7
    <3> QED BY <2>2, <2>4, <3>1 DEF Ids
  <2> QED BY <1>3, <1>6, <1>8, <2>3, <2>5
<1>10. newLeaf \in 0..lastId
  <2>1. \A x \in Ids(fileEntries) : x \in 1..lastId
    BY <1>7, IdsOf
  <2> QED BY <1>7, <1>9, <2>1
<1>11. told \in SUBSET (1..MaxEntries)
  <2>1. ToSet(here) \subseteq Entry
    BY <1>2, <1>7, PathTyped
  <2>2. \A e \in left : e \in Entry
    BY <1>4, <2>1
  <2>3. \A e \in Entry : e.id \in 1..MaxEntries
    BY DEF Entry
  <2> QED BY <1>5, <2>2, <2>3
<1>12. Store'
  <2>1. CASE Entered("branch_summary", newLeaf, 0, told)
    <3>1. "branch_summary" \in Types \cup {"compaction", "branch_summary"} /\ 0 \in 0..MaxEntries
      BY <1>7
    <3> QED BY <1>6, <1>9, <1>10, <1>11, <2>1, <3>1, EnteredStep
  <2>2. CASE leafId' = newLeaf
             /\ UNCHANGED <<fileEntries, flushed, alive, file, tail, lastId, faults, stored>>
    <3>1. Store
      BY InTwoParts
    <3>2. Parsed' = Parsed /\ Base' = Base
      BY <2>2 DEF Parsed, Base
    <3>3. Losses'
      BY <2>2, <3>1, <3>2 DEF Store, Losses
    <3>4. newLeaf = 0 \/ \E e \in ToSet(fileEntries) : e.id = newLeaf
      BY <1>9 DEF Ids, ToSet
    <3> HIDE DEF Parsed
    <3>5. FaultFree'
      BY <2>2, <3>1, <3>2 DEF Store, FaultFree, Connected, FileConnected
    <3>6. Grown(fileEntries, lastId)' /\ FileGrown(Parsed, lastId)'
      BY <2>2, <3>1, <3>2 DEF Store, Grown, FileGrown
    <3> QED BY <2>2, <3>1, <3>3, <3>4, <3>5, <3>6 DEF Store
  <2> QED BY <1>6, <2>1, <2>2
<1>13. Others'
  <2>1. moves \in 0..MaxMoves /\ MaxMoves \in Nat
    BY InTwoParts, SessionAssumption DEF Others
  <2>2. moves' \in 0..MaxMoves
    BY <1>6, <2>1
  <2> QED BY <1>6, <2>2, InTwoParts DEF Others, Prepared
<1> QED BY <1>12, <1>13, FromTwoParts

(* The session is opened again: without a file, with one that is refused,  *)
(* with an empty one, and with one that has a header.                      *)
LEMMA OpenStep == SInv /\ Open => SInv'
<1> SUFFICES ASSUME SInv, Open PROVE SInv'
  OBVIOUS
<1>1. PICK ls : ls = Parsed
  OBVIOUS
<1>2. PICK refused \in BOOLEAN : refused = (file # None /\ ls = <<>> /\ tail # "whole")
  OBVIOUS
<1>3. PICK lines : lines = IF file # None /\ ls = <<>> THEN <<Header>> ELSE ls
  OBVIOUS
<1>4. PICK es : es = IF refused \/ file = None THEN <<>> ELSE Tail(lines)
  OBVIOUS
<1>5. /\ ~alive /\ moves < MaxMoves /\ moves' = moves + 1
      /\ alive' = TRUE /\ preparation' = None
      /\ fileEntries' = es /\ leafId' = leafOf(es)
      /\ flushed' = (file # None /\ ~refused)
      /\ file' = (IF refused \/ file = None THEN None ELSE lines)
      /\ tail' = (IF refused THEN "whole" ELSE tail)
      /\ UNCHANGED <<lastId, faults, stored, forgotten>>
  BY <1>1, <1>2, <1>3, <1>4 DEF Open
<1>6. Store /\ Others
  BY InTwoParts
<1>7. lastId \in Nat /\ FileGrown(ls, lastId) /\ ls \in Lines
  BY <1>1, <1>6, Typed DEF Store
<1>8. faults = 0 => /\ tail = "whole" /\ (ls # <<>> => ls[1] = Header) /\ FileConnected(ls)
  BY <1>1, <1>6 DEF Store, FaultFree
<1> DEFINE StoreOpened ==
             /\ file' = None \/ file' \in Lines
             /\ Grown(es, lastId) /\ FileGrown(Parsed', lastId)
             /\ faults = 0 => /\ tail' = "whole" /\ (Parsed' # <<>> => Parsed'[1] = Header)
                              /\ flushed' => file' = <<Header>> \o es
                              /\ Connected(es) /\ FileConnected(Parsed')
             /\ Losses'
<1>9. StoreOpened
  <2>1. CASE file = None
    <3>1. file' = None /\ es = <<>> /\ flushed' = FALSE /\ tail' = tail /\ ls = <<>>
      BY <1>1, <1>2, <1>4, <1>5, <2>1 DEF Parsed
    <3>2. Parsed' = <<>> /\ Parsed = <<>> /\ Base' = Base
      BY <2>1, <3>1 DEF Parsed, Base
    <3>3. Losses'
      BY <1>5, <1>6, <3>1, <3>2 DEF Store, Losses
    <3> HIDE DEF Parsed
    <3>4. Grown(es, lastId) /\ FileGrown(Parsed', lastId) /\ Connected(es) /\ FileConnected(Parsed')
      BY <3>1, <3>2, NoEntries
    <3> QED BY <1>8, <3>1, <3>2, <3>3, <3>4
  <2>2. CASE refused
    <3>1. /\ file' = None /\ es = <<>> /\ flushed' = FALSE /\ tail' = "whole"
          /\ file # None /\ ls = <<>> /\ tail # "whole"
      BY <1>2, <1>4, <1>5, <2>2
    <3>2. Parsed' = <<>> /\ Base' = <<>>
      BY <3>1 DEF Parsed, Base
    <3>3. Written(Base) = {}
      <4>1. Base \in Lines /\ Len(Base) \in Nat /\ Len(Base) <= Len(Parsed)
        BY BaseFacts
      <4>2. Len(Parsed) = 0
        <5> HIDE DEF Parsed
        <5> QED BY <1>1, <3>1, NoEntries
      <4>3. Base = <<>>
        <5> HIDE DEF Base, Parsed
        <5>1. Len(Base) = 0
          BY <4>1, <4>2
        <5> QED BY <4>1, <5>1 DEF Lines
      <4> QED BY <4>3, NoEntries
    <3>4. Losses'
      <4>1. Cardinality(stored \ {}) + 1 <= faults
        BY <1>6, <3>1, <3>3 DEF Store, Losses
      <4>2. faults \in Nat /\ Cardinality(stored) \in Nat
        BY Typed, FS_CardinalityType
      <4>3. stored \ {} = stored
        OBVIOUS
      <4>4. Cardinality(stored \ {}) + 0 <= faults
        BY <4>1, <4>2, <4>3
      <4>5. stored' = stored /\ faults' = faults /\ Written(Base') = {}
        BY <1>5, <3>2, NoEntries
      <4> QED BY <3>1, <4>4, <4>5 DEF Losses
    <3> HIDE DEF Parsed
    <3>5. Grown(es, lastId) /\ FileGrown(Parsed', lastId) /\ Connected(es) /\ FileConnected(Parsed')
      BY <3>1, <3>2, NoEntries
    <3> QED BY <3>1, <3>2, <3>4, <3>5
  <2>3. CASE file # None /\ ~refused /\ ls = <<>>
    <3>1. /\ lines = <<Header>> /\ es = Tail(<<Header>>) /\ file' = <<Header>>
          /\ flushed' = TRUE /\ tail' = tail /\ tail = "whole"
      BY <1>2, <1>3, <1>4, <1>5, <2>3
    <3>2. PICK h : h = <<Header>> /\ h \in Seq(Entry \cup {Header}) /\ Len(h) = 1 /\ h[1] = Header
      <4>1. <<Header>> \in Seq(Entry \cup {Header}) /\ Len(<<Header>>) = 1 /\ <<Header>>[1] = Header
        OBVIOUS
      <4> QED BY <4>1
    <3>3. es = <<>>
      BY <3>1
    <3>4. file' = h /\ h \in Lines /\ h # None /\ FileGrown(h, lastId) /\ FileConnected(h)
      BY <3>1, <3>2, LinesAssumption DEF Lines, FileGrown, FileConnected
    <3>5. Parsed' = h /\ Base' = h
      BY <3>1, <3>4 DEF Parsed, Base
    <3>6. Written(h) = {}
      <4> SUFFICES ASSUME NEW x \in Written(h) PROVE FALSE
        OBVIOUS
      <4>1. PICK i \in 1..Len(h) : h[i] # Header
        BY <3>4, WrittenIds
      <4> QED BY <3>2, <4>1
    <3>7. Written(Base) = {}
      <4>1. Base = Parsed
        BY <3>1, BaseFacts
      <4> QED BY <1>1, <2>3, <4>1, NoEntries
    <3>8. Losses'
      <4>1. Losses
        BY <1>6 DEF Store
      <4> QED BY <1>5, <3>1, <3>5, <3>6, <3>7, <4>1 DEF Losses
    <3>9. h = <<Header>> \o <<>>
      BY <3>2
    <3> HIDE DEF Parsed
    <3>10. Grown(es, lastId) /\ Connected(es)
      BY <3>3, NoEntries
    <3>11. FileGrown(Parsed', lastId) /\ FileConnected(Parsed') /\ Parsed'[1] = Header
      BY <3>2, <3>4, <3>5
    <3>12. file' \in Lines /\ file' = <<Header>> \o es /\ tail' = "whole"
      BY <3>1, <3>3, <3>4, <3>9
    <3> QED BY <3>8, <3>10, <3>11, <3>12
  <2>4. CASE file # None /\ ~refused /\ ls # <<>>
    <3>1. /\ lines = ls /\ es = Tail(ls) /\ file' = ls /\ flushed' = TRUE /\ tail' = tail
      BY <1>3, <1>4, <1>5, <2>4
    <3>2. ls = file
      BY <1>1, <2>4 DEF Parsed
    <3>3. file' = file /\ Parsed' = ls /\ Base' = Base
      BY <1>1, <2>4, <3>1, <3>2 DEF Parsed, Base
    <3>4. Losses'
      <4>1. Losses
        BY <1>6 DEF Store
      <4> QED BY <1>5, <3>1, <3>3, <4>1 DEF Losses
    <3>5. /\ Grown(es, lastId) /\ (FileConnected(ls) => Connected(es))
          /\ ls[1] = Header => ls = <<Header>> \o es
      BY <1>7, <2>4, <3>1, TailOfFile
    <3> HIDE DEF Parsed
    <3>6. FileGrown(Parsed', lastId)
      BY <1>7, <3>3
    <3>7. faults = 0 => /\ tail' = "whole" /\ (Parsed' # <<>> => Parsed'[1] = Header)
                        /\ flushed' => file' = <<Header>> \o es
                        /\ Connected(es) /\ FileConnected(Parsed')
      BY <1>8, <2>4, <3>1, <3>3, <3>5
    <3> QED BY <1>7, <3>1, <3>4, <3>5, <3>6, <3>7
  <2> QED BY <2>1, <2>2, <2>3, <2>4
<1> HIDE DEF Parsed
<1>10. FaultFree' /\ Losses' /\ Grown(fileEntries, lastId)' /\ FileGrown(Parsed, lastId)'
  <2>1. FaultFree'
    BY <1>5, <1>9 DEF FaultFree, Connected, FileConnected
  <2>2. Grown(fileEntries, lastId)' /\ FileGrown(Parsed, lastId)'
    BY <1>5, <1>9 DEF Grown, FileGrown
  <2> QED BY <1>9, <2>1, <2>2
<1>11. leafId' = 0 \/ \E e \in ToSet(fileEntries') : e.id = leafId'
  BY <1>5, <1>7, <1>9, IdsOf
<1>12. Store'
  BY <1>5, <1>6, <1>9, <1>10, <1>11 DEF Store
<1>13. Others'
  <2>1. moves \in 0..MaxMoves /\ MaxMoves \in Nat
    BY <1>6, SessionAssumption DEF Others
  <2>2. moves' \in 0..MaxMoves
    BY <1>5, <2>1
  <2> QED BY <1>5, <1>6, <2>2 DEF Others, Prepared
<1> QED BY <1>12, <1>13, FromTwoParts
(* A fork is a new file with one path of the old one.                      *)
LEMMA ForkStep ==
    ASSUME SInv, NEW target \in 1..MaxEntries, Fork(target)
    PROVE  SInv'
<1>1. PICK old : old = Tail(file)
  OBVIOUS
<1>2. PICK es : es = Branched(old, target)
  OBVIOUS
<1>3. PICK path : path = getBranch(es, leafOf(es))
  OBVIOUS
<1>4. PICK gaps \in SUBSET (DOMAIN path) :
        gaps = {i \in DOMAIN path : IsCompaction(path[i]) /\ PlaceOf(path, path[i].ref) = 0}
  OBVIOUS
<1>5. PICK has \in BOOLEAN : has = hasAssistant(es)
  BY DEF hasAssistant
<1>6. /\ alive /\ faults = 0 /\ moves < MaxMoves /\ moves' = moves + 1
      /\ file \notin {None, <<>>} /\ target \in Ids(old) /\ preparation' = None
      /\ es # <<>> /\ Ids(es) \subseteq 1..MaxEntries
      /\ fileEntries' = es /\ leafId' = leafOf(es)
      /\ lastId' = Max(Ids(es) \cup {lastId})
      /\ flushed' = has
      /\ file' = (IF has THEN <<Header>> \o es ELSE None)
      /\ tail' = "whole"
      /\ stored' = (IF has THEN Ids(es) ELSE {})
      /\ forgotten' = forgotten \cup UNION {Ids(SubSeq(path, 1, i)) : i \in gaps}
      /\ alive' = alive /\ faults' = faults
  BY <1>1, <1>2, <1>3, <1>4, <1>5 DEF Fork
<1>7. lastId \in 0..MaxEntries /\ lastId \in Nat /\ MaxEntries \in Nat /\ alive \in BOOLEAN
  BY Typed DEF SInv, TypeOK
<1>8. Store /\ Others
  BY InTwoParts
<1>9. Grown(old, lastId)
  <2>1. Parsed = file /\ FileGrown(Parsed, lastId)
    BY <1>6, <1>8 DEF Parsed, Store
  <2>2. FileGrown(file, lastId) /\ file # <<>>
    BY <1>6, <2>1
  <2> QED BY <1>1, <2>2, TailOfFile
<1>10. /\ lastId' \in 0..MaxEntries /\ lastId' \in Nat /\ \A x \in Ids(es) : x <= lastId'
  <2> DEFINE T == Ids(es) \cup {lastId}
  <2>1. T \subseteq Nat /\ T # {} /\ \A x \in T : x <= MaxEntries
    BY <1>6, <1>7
  <2> HIDE DEF T
  <2>2. Max(T) \in T /\ \A x \in T : x <= Max(T)
    BY <1>7, <2>1, MaxIn
  <2>3. lastId' = Max(T)
    BY <1>6 DEF T
  <2>4. lastId' \in Nat /\ lastId' <= MaxEntries /\ \A x \in T : x <= lastId'
    BY <2>1, <2>2, <2>3
  <2> QED BY <1>7, <2>4 DEF T
<1>11. Grown(es, lastId') /\ Connected(es)
  <2>1. target \in 0..MaxEntries
    OBVIOUS
  <2> QED BY <1>2, <1>6, <1>7, <1>9, <1>10, <2>1, BranchedFacts
<1>12. es \in Seq(Entry) /\ Len(es) \in Nat /\ DOMAIN es = 1..Len(es)
  BY <1>11 DEF Grown
<1>13. /\ file' = None \/ file' \in Lines
       /\ FileGrown(Parsed', lastId') /\ Ids(es) \subseteq 1..MaxEntries
       /\ (Parsed' # <<>> => Parsed'[1] = Header) /\ FileConnected(Parsed')
       /\ Losses'
  <2>1. CASE has
    <3>1. PICK w : w = <<Header>> \o es
      OBVIOUS
    <3>2. /\ w \in Lines /\ Len(w) = Len(es) + 1 /\ w[1] = Header
          /\ \A i \in 1..Len(es) : w[1 + i] = es[i]
          /\ \A i \in 1..Len(w) : w[i] = IF i = 1 THEN Header ELSE es[i - 1]
      <4>1. es \in Seq(Entry)
        BY <1>12
      <4>2. w \in Lines
        BY <3>1, <4>1, HeaderFirst
      <4>3. \A i \in 1..Len(w) : w[i] = IF i = 1 THEN Header ELSE es[i - 1]
        BY <3>1, <4>1, HeaderFirst
      <4>4. /\ Len(w) = Len(es) + 1 /\ w[1] = Header
            /\ \A i \in 1..Len(es) : w[1 + i] = es[i]
        BY <3>1, <4>1, HeaderFirst
      <4> QED BY <4>2, <4>3, <4>4
    <3>3. file' = w /\ w # None
      BY <1>6, <2>1, <3>1, <3>2, LinesAssumption DEF Lines
    <3>4. Parsed' = w /\ Base' = w
      BY <1>6, <3>3 DEF Parsed, Base
    <3>5. FileConnected(w)
      BY <1>11, <1>12, <3>2, PrefixFile
    <3>6. FileGrown(w, lastId')
      <4> SUFFICES ASSUME NEW i \in 2..Len(w)
                   PROVE  w[i] \in Entry /\ w[i].parentId < w[i].id /\ w[i].id <= lastId'
        BY <3>2 DEF FileGrown
      <4>1. i - 1 \in 1..Len(es) /\ i \in 1..Len(w) /\ i # 1
        BY <1>12, <3>2
      <4>2. w[i] = es[i - 1]
        BY <3>2, <4>1
      <4>3. /\ es[i - 1] \in Entry /\ es[i - 1].parentId < es[i - 1].id
            /\ es[i - 1].id <= lastId'
        BY <1>11, <1>12, <4>1 DEF Grown
      <4> QED BY <4>2, <4>3
    <3>7. Ids(es) \subseteq Written(w)
      <4> SUFFICES ASSUME NEW x \in Ids(es) PROVE x \in Written(w)
        OBVIOUS
      <4>1. PICK i \in 1..Len(es) : es[i].id = x
        BY <1>12 DEF Ids
      <4>2. w[1 + i] = es[i] /\ 1 + i \in 1..Len(w) /\ es[i] \in Entry
        BY <1>12, <3>2
      <4>3. w[1 + i] # Header
        BY <4>2, LinesAssumption
      <4> QED BY <3>2, <4>1, <4>2, <4>3, WrittenIds
    <3>8. Losses'
      <4>1. stored' \ Written(Base') = {}
        BY <1>6, <2>1, <3>4, <3>7
      <4>2. Cardinality({}) = 0
        BY FS_EmptySet
      <4>3. Cardinality(stored' \ Written(Base')) = 0
        BY <4>1, <4>2, Zenon
      <4>4. faults' = 0 /\ tail' = "whole"
        BY <1>6
      <4>5. Cardinality(stored' \ Written(Base')) + (IF tail' = "whole" THEN 0 ELSE 1) <= faults'
        BY ONLY <4>3, <4>4
      <4> QED BY <4>5 DEF Losses
    <3> HIDE DEF Parsed
    <3> QED BY <1>6, <3>2, <3>3, <3>4, <3>5, <3>6, <3>8
  <2>2. CASE ~has
    <3>1. file' = None /\ stored' = {}
      BY <1>6, <2>2
    <3>2. Parsed' = <<>>
      BY <3>1 DEF Parsed
    <3>3. Losses'
      <4>1. stored' \ Written(Base') = {}
        BY <3>1
      <4>2. Cardinality({}) = 0
        BY FS_EmptySet
      <4>3. Cardinality(stored' \ Written(Base')) = 0
        BY <4>1, <4>2, Zenon
      <4>4. faults' = 0 /\ tail' = "whole"
        BY <1>6
      <4>5. Cardinality(stored' \ Written(Base')) + (IF tail' = "whole" THEN 0 ELSE 1) <= faults'
        BY ONLY <4>3, <4>4
      <4> QED BY <4>5 DEF Losses
    <3> HIDE DEF Parsed
    <3> QED BY <1>6, <3>1, <3>2, <3>3, NoEntries
  <2> QED BY <2>1, <2>2
<1> HIDE DEF Parsed
<1>14. FaultFree'
  <2>1. flushed' => file' = <<Header>> \o fileEntries'
    BY <1>6
  <2> QED BY <1>6, <1>11, <1>13, <2>1 DEF FaultFree, Connected, FileConnected
<1>15. Grown(fileEntries, lastId)' /\ FileGrown(Parsed, lastId)'
  BY <1>6, <1>11, <1>13 DEF Grown, FileGrown
<1>16. leafId' = 0 \/ \E e \in ToSet(fileEntries') : e.id = leafId'
  BY <1>6, <1>10, <1>11, IdsOf
<1>17. stored' \subseteq 1..MaxEntries /\ faults' \in 0..MaxFaults
  BY <1>6, <1>8 DEF Store
<1>18. Store'
  BY <1>6, <1>7, <1>10, <1>13, <1>14, <1>15, <1>16, <1>17 DEF Store
<1>19. forgotten' \subseteq 1..MaxEntries
  <2>1. leafOf(es) \in 0..MaxEntries
    <3>1. leafOf(es) \in {0} \cup Ids(es)
      BY <1>10, <1>11, IdsOf
    <3> QED BY <1>6, <1>7, <3>1
  <2>2. /\ path \in Seq(Entry)
        /\ \A k \in 0..Len(path) : Ids(SubSeq(path, 1, k)) \subseteq 1..MaxEntries
    BY <1>3, <1>10, <1>11, <2>1, PathTyped
  <2>3. gaps \subseteq 0..Len(path)
    BY <1>4, <2>2
  <2>4. \A i \in gaps : Ids(SubSeq(path, 1, i)) \subseteq 1..MaxEntries
    BY <2>2, <2>3
  <2>5. forgotten \subseteq 1..MaxEntries
    BY <1>8 DEF Others
  <2> QED BY <1>6, <2>4, <2>5
<1>20. Others'
  <2>1. moves \in 0..MaxMoves /\ MaxMoves \in Nat
    BY <1>8, SessionAssumption DEF Others
  <2>2. moves' \in 0..MaxMoves
    BY <1>6, <2>1
  <2> QED BY <1>6, <1>19, <2>2 DEF Others, Prepared
<1> QED BY <1>18, <1>20, FromTwoParts

----------------------------------------------------------------------------
LEMMA InvariantInit == Init => SInv
<1> SUFFICES ASSUME Init PROVE SInv
  OBVIOUS
<1>1. /\ fileEntries = <<>> /\ leafId = 0 /\ flushed = FALSE /\ file = None /\ tail = "whole"
      /\ alive = TRUE /\ preparation = None /\ lastId = 0 /\ moves = 0 /\ faults = 0
      /\ stored = {} /\ forgotten = {}
  BY DEF Init
<1>2. Parsed = <<>>
  BY <1>1 DEF Parsed
<1>3. MaxEntries \in Nat /\ MaxMoves \in Nat /\ MaxFaults \in Nat
  BY SessionAssumption
<1>4. Losses
  <2>1. stored \ Written(Base) = {} /\ Cardinality({}) = 0
    BY <1>1, FS_EmptySet
  <2> QED BY <1>1, <2>1 DEF Losses
<1> HIDE DEF Parsed
<1>5. Grown(fileEntries, lastId) /\ FileGrown(Parsed, lastId)
  BY <1>1, <1>2, NoEntries
<1>6. Prepared /\ FaultFree
  BY <1>1, <1>2, NoEntries DEF Prepared, FaultFree
<1>7. TypeOK
  <2>1. \A i \in DOMAIN fileEntries : fileEntries[i] \in Entry
    BY <1>5 DEF Grown
  <2>2. lastId \in 0..MaxEntries /\ moves \in 0..MaxMoves /\ faults \in 0..MaxFaults
    BY <1>1, <1>3
  <2>3. stored \cup forgotten \subseteq 1..MaxEntries
    BY <1>1
  <2> QED BY <1>1, <2>1, <2>2, <2>3, Zenon DEF TypeOK
<1> QED BY <1>1, <1>4, <1>5, <1>6, <1>7 DEF SInv

LEMMA InvariantNext == SInv /\ [Next]_vars => SInv'
<1> SUFFICES ASSUME SInv, [Next]_vars PROVE SInv'
  OBVIOUS
<1>1. ASSUME NEW type \in Types, NEW target \in 0..MaxEntries, AppendEntry(type, target) PROVE SInv'
  BY <1>1, AppendStep
<1>2. CASE Kill
  BY <1>2, KillStep
<1>3. CASE Open
  BY <1>3, OpenStep
<1>4. ASSUME NEW full \in 1..MaxEntries, PrepareCompaction(full) PROVE SInv'
  BY <1>4, PrepareStep
<1>5. CASE FinishCompaction
  BY <1>5, FinishStep
<1>6. CASE CancelCompaction
  BY <1>6, CancelStep
<1>7. ASSUME NEW target \in 1..MaxEntries, Fork(target) PROVE SInv'
  BY <1>7, ForkStep
<1>8. ASSUME NEW target \in 1..MaxEntries, NEW s \in BOOLEAN, NavigateTree(target, s) PROVE SInv'
  BY <1>8, NavigateStep
<1>9. CASE UNCHANGED vars
  <2>1. UNCHANGED <<fileEntries, leafId, flushed, alive, file, tail, lastId, faults, stored>>
        /\ UNCHANGED <<preparation, moves, forgotten>>
    BY <1>9 DEF vars, memory, disk
  <2>2. Store'
    BY <2>1, StoreUnchanged
  <2>3. Others'
    BY <2>1, InTwoParts DEF Others, Prepared
  <2> QED BY <2>2, <2>3, FromTwoParts
<1> QED BY <1>1, <1>2, <1>3, <1>4, <1>5, <1>6, <1>7, <1>8, <1>9 DEF Next

LEMMA Invariant == Spec => []SInv
<1>1. SInv /\ UNCHANGED vars => SInv'
  BY InvariantNext
<1> QED BY InvariantInit, InvariantNext, PTL DEF Spec

(* The session is intact: well typed, with the file like the memory and a  *)
(* parent before every entry, as long as no write has failed: whatever was *)
(* appended, moved, forked, killed and opened again.                       *)
THEOREM SessionIntact == Spec => []Intact
<1>1. SInv => Intact
  <2> SUFFICES ASSUME SInv PROVE Intact
    OBVIOUS
  <2>1. TypeOK /\ StoredIsMemory
    BY DEF SInv, FaultFree, StoredIsMemory
  <2>2. TreeUnbroken
    <3> SUFFICES ASSUME faults = 0, NEW i \in DOMAIN fileEntries
                 PROVE  fileEntries[i].parentId \in {0} \cup Ids(SubSeq(fileEntries, 1, i - 1))
      BY DEF TreeUnbroken
    <3>1. fileEntries \in Seq(Entry) /\ i \in 1..Len(fileEntries) /\ Len(fileEntries) \in Nat
      BY Typed
    <3>2. fileEntries[i].parentId \in {0} \cup {fileEntries[j].id : j \in 1..(i - 1)}
      BY <3>1 DEF SInv, FaultFree, Connected
    <3>3. PICK s : s = SubSeq(fileEntries, 1, i - 1)
      OBVIOUS
    <3>4. DOMAIN s = 1..(i - 1) /\ \A j \in 1..(i - 1) : s[j] = fileEntries[j]
      BY <3>1, <3>3
    <3>5. {fileEntries[j].id : j \in 1..(i - 1)} = Ids(s)
      BY <3>4 DEF Ids
    <3> QED BY <3>2, <3>3, <3>5
  <2> QED BY <2>1, <2>2 DEF Intact
<1> QED BY <1>1, Invariant, PTL

(* A torn line or a failed write costs at most one entry of those whose    *)
(* writing succeeded, through any number of restarts and later writes.     *)
THEOREM FaultsCostOneEntry == Spec => []OneEntryPerFault
<1>1. SInv => OneEntryPerFault
  <2> SUFFICES ASSUME SInv PROVE OneEntryPerFault
    OBVIOUS
  <2>1. Parsed \in Lines /\ faults \in Nat /\ IsFiniteSet(stored)
    BY Typed
  <2>2. /\ Base \in Lines /\ Len(Base) <= Len(Parsed)
        /\ \A i \in 1..Len(Base) : Base[i] = Parsed[i]
    BY BaseFacts
  <2>3. Written(Base) \subseteq Written(Parsed)
    <3> HIDE DEF Base, Parsed
    <3> QED BY <2>1, <2>2, WrittenPrefix
  <2>4. PICK T : T = stored \ Written(Parsed)
    OBVIOUS
  <2>5. PICK U : U = stored \ Written(Base)
    OBVIOUS
  <2>6. T \in SUBSET U /\ U \in SUBSET stored
    BY <2>3, <2>4, <2>5
  <2>7. IsFiniteSet(U)
    BY <2>1, <2>6, FS_Subset
  <2>8. Cardinality(T) <= Cardinality(U) /\ Cardinality(T) \in Nat /\ Cardinality(U) \in Nat
    BY <2>6, <2>7, FS_Subset, FS_CardinalityType
  <2>9. Cardinality(U) + (IF tail = "whole" THEN 0 ELSE 1) <= faults
    BY <2>5 DEF SInv, Losses
  <2>10. Cardinality(U) <= faults
    <3>1. CASE tail = "whole"
      BY <2>1, <2>8, <2>9, <3>1
    <3>2. CASE tail # "whole"
      BY <2>1, <2>8, <2>9, <3>2
    <3> QED BY <3>1, <3>2
  <2>11. Cardinality(T) <= faults
    BY <2>1, <2>8, <2>10
  <2> QED BY <2>4, <2>11 DEF OneEntryPerFault
<1> QED BY <1>1, Invariant, PTL
=============================================================================
