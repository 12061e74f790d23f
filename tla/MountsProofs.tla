---------------------------- MODULE MountsProofs ----------------------------
(***************************************************************************)
(* Machine-checked facts about Mounts and the line algorithms it uses, for *)
(* any texts, reads, number of calls in a batch, thresholds and edits.     *)
(***************************************************************************)
EXTENDS Mounts, WellFoundedInduction, SequenceTheorems, TLAPS

(* Natural numbers: facts without an operator parameter, so that every     *)
(* installed prover can use them.                                          *)

(* A set of natural numbers that is not empty has a least element.         *)
LEMMA LeastNat ==
    ASSUME NEW T, T \subseteq Nat, T # {}
    PROVE  \E n \in T : \A m \in T : n <= m
<1> DEFINE R == OpToRel(<, Nat)
<1>1. IsWellFoundedOn(R, Nat)
  BY NatLessThanWellFounded
<1>2. \A x, y \in Nat : y < x => <<y, x>> \in R
  BY DEF OpToRel
<1> HIDE DEF R
<1>3. \E x \in T : \A y \in T : ~ (<<y, x>> \in R)
  BY <1>1, WFMin
<1>4. PICK x \in T : \A y \in T : ~ (<<y, x>> \in R)
  BY <1>3
<1>5. ASSUME NEW y \in T PROVE x <= y
  <2>1. x \in Nat /\ y \in Nat
    OBVIOUS
  <2>2. ~(y < x)
    BY <2>1, <1>2, <1>4, Zenon
  <2> QED BY <2>1, <2>2
<1> QED BY <1>5

(* Induction: a set that has 0, and n + 1 with each n, has them all.       *)
LEMMA NatInd ==
    ASSUME NEW S, 0 \in S, \A n \in Nat : n \in S => n + 1 \in S
    PROVE  Nat \subseteq S
<1> DEFINE T == Nat \ S
<1> SUFFICES ASSUME T # {} PROVE FALSE
  OBVIOUS
<1>1. PICK x \in T : \A m \in T : x <= m
  BY LeastNat
<1>2. x # 0 /\ x - 1 \in Nat /\ x - 1 \notin T
  BY <1>1
<1> QED BY <1>2

----------------------------------------------------------------------------
(* Loops and lists.                                                        *)

(* What a loop over a list computes: from base, n steps of g.              *)
StepsOf(X, n) == [X \X (1..n) -> X]

Runs(X, n, base, g) ==
    {f \in [0..n -> X] : f[0] = base /\ \A i \in 1..n : f[i] = g[<<f[i - 1], i>>]}

LEMMA LoopExists ==
    ASSUME NEW X, NEW n \in Nat, NEW base \in X, NEW g \in StepsOf(X, n)
    PROVE  Runs(X, n, base, g) # {}
<1> SUFFICES \E f \in [0..n -> X] : f[0] = base /\ \A i \in 1..n : f[i] = g[<<f[i - 1], i>>]
  BY DEF Runs
<1> USE DEF StepsOf
<1> DEFINE P == {k \in Nat : k <= n =>
                    \E f \in [0..k -> X] : f[0] = base /\ \A i \in 1..k : f[i] = g[<<f[i - 1], i>>]}
<1>1. 0 \in P
  <2> DEFINE f == [j \in 0..0 |-> base]
  <2>1. f \in [0..0 -> X] /\ f[0] = base
    OBVIOUS
  <2>2. \A i \in 1..0 : f[i] = g[<<f[i - 1], i>>]
    OBVIOUS
  <2> HIDE DEF f
  <2> QED BY <2>1, <2>2
<1>2. ASSUME NEW k \in Nat, k \in P PROVE k + 1 \in P
  <2> SUFFICES ASSUME k + 1 <= n
               PROVE  \E f \in [0..(k + 1) -> X] :
                        f[0] = base /\ \A i \in 1..(k + 1) : f[i] = g[<<f[i - 1], i>>]
    OBVIOUS
  <2>1. PICK e \in [0..k -> X] : e[0] = base /\ \A i \in 1..k : e[i] = g[<<e[i - 1], i>>]
    BY <1>2
  <2>2. k + 1 \in 1..n /\ e[k] \in X
    BY <2>1
  <2>3. g[<<e[k], k + 1>>] \in X
    BY <2>2
  <2> DEFINE f == [j \in 0..(k + 1) |-> IF j = k + 1 THEN g[<<e[k], k + 1>>] ELSE e[j]]
  <2>4. f \in [0..(k + 1) -> X]
    BY <2>1, <2>3
  <2>5. f[0] = base
    BY <2>1
  <2>6. ASSUME NEW i \in 1..(k + 1) PROVE f[i] = g[<<f[i - 1], i>>]
    <3>1. CASE i = k + 1
      <4>1. f[i] = g[<<e[k], i>>] /\ i - 1 \in 0..(k + 1) /\ i - 1 # k + 1 /\ i - 1 = k
        BY <3>1
      <4>2. f[i - 1] = e[k]
        BY <4>1
      <4> QED BY <4>1, <4>2
    <3>2. CASE i # k + 1
      <4>1. i \in 1..k /\ i - 1 \in 0..(k + 1) /\ i - 1 # k + 1 /\ i \in 0..(k + 1)
        BY <3>2
      <4>2. f[i] = e[i] /\ f[i - 1] = e[i - 1]
        BY <4>1, <3>2
      <4> QED BY <4>1, <4>2, <2>1
    <3> QED BY <3>1, <3>2
  <2> HIDE DEF f
  <2> QED BY <2>4, <2>5, <2>6
<1>3. Nat \subseteq P
  <2> HIDE DEF P
  <2> QED BY <1>1, <1>2, NatInd
<1> QED BY <1>3

LEMMA AppendFacts ==
    ASSUME NEW S, NEW s \in Seq(S), NEW e \in S
    PROVE  /\ Append(s, e) \in Seq(S) /\ Len(Append(s, e)) = Len(s) + 1
           /\ DOMAIN Append(s, e) = 1..(Len(s) + 1) /\ DOMAIN s = 1..Len(s) /\ Len(s) \in Nat
           /\ Append(s, e)[Len(s) + 1] = e
           /\ \A i \in 1..Len(s) : Append(s, e)[i] = s[i]
OBVIOUS

LEMMA PartFacts ==
    ASSUME NEW S, NEW s \in Seq(S), NEW m \in Nat, NEW n \in Nat,
           1 <= m, m <= n + 1, n <= Len(s)
    PROVE  /\ SubSeq(s, m, n) \in Seq(S) /\ Len(SubSeq(s, m, n)) = n - m + 1
           /\ \A i \in 1..(n - m + 1) : SubSeq(s, m, n)[i] = s[m + i - 1]
<1>1. SubSeq(s, m, n) \in Seq(S)
  OBVIOUS
<1>2. Len(SubSeq(s, m, n)) = n - m + 1
  OBVIOUS
<1>3. \A i \in 1..(n - m + 1) : SubSeq(s, m, n)[i] = s[m + i - 1]
  OBVIOUS
<1> QED BY <1>1, <1>2, <1>3, Zenon

(* The last element is replaced.                                           *)
LEMMA ReplaceLast ==
    ASSUME NEW S, NEW s \in Seq(S), s # <<>>, NEW e \in S
    PROVE  LET t == Front(s) \o <<e>>
           IN  /\ t \in Seq(S) /\ Len(t) = Len(s) /\ Len(s) \in Nat \ {0}
               /\ DOMAIN t = 1..Len(s) /\ DOMAIN s = 1..Len(s)
               /\ t[Len(s)] = e
               /\ \A i \in 1..(Len(s) - 1) : t[i] = s[i]
               /\ Last(s) = s[Len(s)] /\ Last(s) \in S
<1>1. Len(s) \in Nat \ {0}
  OBVIOUS
<1>2. Front(s) \in Seq(S) /\ Len(Front(s)) = Len(s) - 1 /\ \A i \in 1..(Len(s) - 1) : Front(s)[i] = s[i]
  <2>1. PICK n \in Nat : n = Len(s) - 1 /\ 1 <= n + 1 /\ n <= Len(s)
    <3>1. Len(s) - 1 \in Nat /\ 1 <= (Len(s) - 1) + 1 /\ Len(s) - 1 <= Len(s)
      BY <1>1
    <3> QED BY <3>1
  <2>2. /\ SubSeq(s, 1, n) \in Seq(S) /\ Len(SubSeq(s, 1, n)) = n - 1 + 1
        /\ \A i \in 1..(n - 1 + 1) : SubSeq(s, 1, n)[i] = s[1 + i - 1]
    BY <2>1, PartFacts
  <2>3. Front(s) = SubSeq(s, 1, n)
    BY <2>1 DEF Front
  <2> QED BY <2>1, <2>2, <2>3
<1> HIDE DEF Front
<1>3. <<e>> \in Seq(S) /\ Len(<<e>>) = 1 /\ <<e>>[1] = e
  OBVIOUS
<1>4. PICK u \in Seq(S) : u = Front(s)
  BY <1>2
<1>5. PICK v \in Seq(S) : v = <<e>>
  BY <1>3
<1>6. u \o v \in Seq(S) /\ Len(u \o v) = Len(u) + Len(v)
      /\ \A i \in 1..Len(u) + Len(v) : (u \o v)[i] = IF i <= Len(u) THEN u[i] ELSE v[i - Len(u)]
  OBVIOUS
<1>7. Len(u) = Len(s) - 1 /\ Len(v) = 1 /\ v[1] = e /\ \A i \in 1..(Len(s) - 1) : u[i] = s[i]
  BY <1>2, <1>3, <1>4, <1>5
<1>8. (u \o v)[Len(s)] = e /\ \A i \in 1..(Len(s) - 1) : (u \o v)[i] = s[i]
  BY <1>1, <1>6, <1>7
<1>9. DOMAIN (u \o v) = 1..Len(s) /\ DOMAIN s = 1..Len(s) /\ Len(u \o v) = Len(s)
  BY <1>1, <1>6, <1>7
<1>10. Last(s) = s[Len(s)] /\ s[Len(s)] \in S
  BY <1>1 DEF Last
<1> QED BY <1>1, <1>4, <1>5, <1>6, <1>8, <1>9, <1>10

(* An element is put in.                                                   *)
LEMMA InsertFacts ==
    ASSUME NEW S, NEW s \in Seq(S), NEW e \in S, NEW p \in 1..(Len(s) + 1)
    PROVE  LET t == InsertAt(s, p, e)
           IN  /\ t \in Seq(S) /\ Len(t) = Len(s) + 1 /\ Len(s) \in Nat
               /\ DOMAIN t = 1..(Len(s) + 1) /\ DOMAIN s = 1..Len(s)
               /\ t[p] = e
               /\ \A i \in 1..(p - 1) : t[i] = s[i]
               /\ \A i \in (p + 1)..(Len(s) + 1) : t[i] = s[i - 1]
<1>1. Len(s) \in Nat /\ p \in Nat /\ p - 1 \in 0..Len(s)
  OBVIOUS
<1>2. PICK a \in Seq(S) : /\ a = SubSeq(s, 1, p - 1) /\ Len(a) = p - 1
                         /\ \A i \in 1..(p - 1) : a[i] = s[i]
  <2>1. PICK n \in Nat : n = p - 1 /\ 1 <= n + 1 /\ n <= Len(s)
    BY <1>1
  <2>2. /\ SubSeq(s, 1, n) \in Seq(S) /\ Len(SubSeq(s, 1, n)) = n - 1 + 1
        /\ \A i \in 1..(n - 1 + 1) : SubSeq(s, 1, n)[i] = s[1 + i - 1]
    BY <2>1, PartFacts
  <2>3. Len(SubSeq(s, 1, n)) = p - 1 /\ \A i \in 1..(p - 1) : SubSeq(s, 1, n)[i] = s[i]
    BY <2>1, <2>2
  <2> QED BY <2>1, <2>2, <2>3
<1>3. PICK b \in Seq(S) : b = <<e>> /\ Len(b) = 1 /\ b[1] = e
  <2>1. <<e>> \in Seq(S) /\ Len(<<e>>) = 1 /\ <<e>>[1] = e
    OBVIOUS
  <2> QED BY <2>1
<1>4. PICK c \in Seq(S) : /\ c = SubSeq(s, p, Len(s)) /\ Len(c) = Len(s) - p + 1
                         /\ \A i \in 1..(Len(s) - p + 1) : c[i] = s[p + i - 1]
  <2>1. p \in Nat /\ 1 <= p /\ p <= Len(s) + 1 /\ Len(s) <= Len(s)
    BY <1>1
  <2>2. /\ SubSeq(s, p, Len(s)) \in Seq(S) /\ Len(SubSeq(s, p, Len(s))) = Len(s) - p + 1
        /\ \A i \in 1..(Len(s) - p + 1) : SubSeq(s, p, Len(s))[i] = s[p + i - 1]
    BY <1>1, <2>1, PartFacts
  <2> QED BY <2>2
<1>5. /\ a \o b \in Seq(S) /\ Len(a \o b) = p
      /\ \A i \in 1..p : (a \o b)[i] = IF i <= p - 1 THEN a[i] ELSE b[i - (p - 1)]
  BY <1>1, <1>2, <1>3
<1>6. PICK d \in Seq(S) : d = a \o b
  BY <1>5
<1>7. Len(d) = p /\ d[p] = e /\ \A i \in 1..(p - 1) : d[i] = s[i]
  BY <1>1, <1>2, <1>3, <1>5, <1>6
<1>8. /\ d \o c \in Seq(S) /\ Len(d \o c) = Len(s) + 1
      /\ \A i \in 1..(Len(s) + 1) : (d \o c)[i] = IF i <= p THEN d[i] ELSE c[i - p]
  BY <1>1, <1>4, <1>7
<1>9. \A i \in (p + 1)..(Len(s) + 1) : (d \o c)[i] = s[i - 1]
  <2> SUFFICES ASSUME NEW i \in (p + 1)..(Len(s) + 1) PROVE (d \o c)[i] = s[i - 1]
    OBVIOUS
  <2>1. i \in 1..(Len(s) + 1) /\ ~(i <= p) /\ i - p \in 1..(Len(s) - p + 1) /\ p + (i - p) - 1 = i - 1
    BY <1>1
  <2> QED BY <2>1, <1>4, <1>8
<1>10. (d \o c)[p] = e /\ \A i \in 1..(p - 1) : (d \o c)[i] = s[i]
  BY <1>1, <1>7, <1>8
<1>11. DOMAIN (d \o c) = 1..(Len(s) + 1) /\ DOMAIN s = 1..Len(s)
  BY <1>1, <1>8
<1>12. InsertAt(s, p, e) = d \o c
  BY <1>2, <1>3, <1>4, <1>6 DEF InsertAt
<1> QED BY <1>1, <1>8, <1>9, <1>10, <1>11, <1>12

----------------------------------------------------------------------------
(* Lists of ranges.                                                        *)

LineRange == {r \in [start : LineNos, end : LineNos] : r.start <= r.end}

Covered(ranges, n, l) == \E i \in 1..n : ranges[i].start <= l /\ l <= ranges[i].end

Ascending(ranges) ==
    \A i, j \in DOMAIN ranges : i <= j => ranges[i].start <= ranges[j].start

LEMMA RangeFacts ==
    ASSUME NEW r \in LineRange
    PROVE  /\ r.start \in Nat /\ r.end \in Nat /\ 1 <= r.start /\ r.start <= r.end
           /\ r.end <= MaxLines /\ MaxLines \in Nat
BY MountsAssumption DEF LineRange, LineNos

LEMMA RangeOf ==
    ASSUME NEW a \in Int, NEW b \in Int, 1 <= a, a <= b, b <= MaxLines
    PROVE  [start |-> a, end |-> b] \in LineRange
BY MountsAssumption DEF LineRange, LineNos

LEMMA LinesFacts ==
    ASSUME NEW s \in Seq(LineRange)
    PROVE  /\ \A l : l \in Lines(s) <=> l \in Int /\ Covered(s, Len(s), l)
           /\ Lines(s) \subseteq LineNos
<1>1. DOMAIN s = 1..Len(s) /\ \A i \in 1..Len(s) : s[i] \in LineRange
  OBVIOUS
<1>2. \A l : l \in Lines(s) <=> \E i \in 1..Len(s) : l \in s[i].start..s[i].end
  BY <1>1 DEF Lines, Range
<1>3. \A i \in 1..Len(s) : /\ s[i].start \in Nat /\ s[i].end \in Nat /\ 1 <= s[i].start
                           /\ s[i].end <= MaxLines
  BY <1>1, RangeFacts
<1>4. \A l : l \in Lines(s) <=> l \in Int /\ Covered(s, Len(s), l)
  BY <1>2, <1>3 DEF Covered
<1>5. Lines(s) \subseteq LineNos
  BY <1>2, <1>3, MountsAssumption DEF LineNos
<1> QED BY <1>4, <1>5

(* Normal lists, by any two of their ranges.                               *)
LEMMA NormalFacts ==
    ASSUME NEW s \in Seq(LineRange), Normal(s)
    PROVE  \A j \in 1..Len(s) : \A i \in 1..(j - 1) : s[i].end + 1 < s[j].start
<1>1. DOMAIN s = 1..Len(s) /\ Len(s) \in Nat
  OBVIOUS
<1>2. \A i \in 1..Len(s) : s[i].start \in Nat /\ s[i].end \in Nat /\ s[i].start <= s[i].end
  <2> SUFFICES ASSUME NEW i \in 1..Len(s)
               PROVE  s[i].start \in Nat /\ s[i].end \in Nat /\ s[i].start <= s[i].end
    OBVIOUS
  <2>1. s[i] \in LineRange
    BY <1>1
  <2> QED BY <2>1, RangeFacts
<1>3. \A i \in 1..(Len(s) - 1) : s[i].end + 1 < s[i + 1].start
  BY DEF Normal
<1> DEFINE P == {j \in Nat : j \in 1..Len(s) => \A i \in 1..(j - 1) : s[i].end + 1 < s[j].start}
<1>4. 0 \in P
  OBVIOUS
<1>5. ASSUME NEW j \in Nat, j \in P PROVE j + 1 \in P
  <2> SUFFICES ASSUME j + 1 \in 1..Len(s), NEW i \in 1..((j + 1) - 1)
               PROVE  s[i].end + 1 < s[j + 1].start
    OBVIOUS
  <2>1. j \in 1..Len(s) /\ j \in 1..(Len(s) - 1) /\ i \in 1..j /\ i \in 1..Len(s)
    BY <1>1
  <2>2. s[j].end + 1 < s[j + 1].start
    BY <1>3, <2>1
  <2>3. CASE i = j
    BY <2>2, <2>3
  <2>4. CASE i # j
    <3>1. i \in 1..(j - 1)
      BY <2>1, <2>4
    <3>2. s[i].end + 1 < s[j].start
      BY <1>5, <2>1, <3>1
    <3> QED BY <1>2, <2>1, <2>2, <3>2
  <2> QED BY <2>3, <2>4
<1>6. Nat \subseteq P
  <2> HIDE DEF P
  <2> QED BY <1>4, <1>5, NatInd
<1> QED BY <1>1, <1>6

LEMMA NormalOf ==
    ASSUME NEW s \in Seq(LineRange), \A i \in 1..(Len(s) - 1) : s[i].end + 1 < s[i + 1].start
    PROVE  Normal(s)
<1>1. DOMAIN s = 1..Len(s) /\ \A i \in 1..Len(s) : s[i] \in LineRange
  OBVIOUS
<1>2. \A i \in 1..Len(s) : 1 <= s[i].start /\ s[i].start <= s[i].end
  BY <1>1, RangeFacts
<1> QED BY <1>1, <1>2 DEF Normal

----------------------------------------------------------------------------
(* sorted() is ascending and has the same ranges.                          *)

LEMMA InsertedFacts ==
    ASSUME NEW s \in Seq(LineRange), NEW r \in LineRange, Ascending(s)
    PROVE  LET t == Inserted(s, r)
           IN  /\ t \in Seq(LineRange) /\ Len(t) = Len(s) + 1
               /\ Ascending(t)
               /\ \A l \in Int : Covered(t, Len(t), l) <=>
                     Covered(s, Len(s), l) \/ (r.start <= l /\ l <= r.end)
<1>1. DOMAIN s = 1..Len(s) /\ Len(s) \in Nat /\ \A i \in 1..Len(s) : s[i] \in LineRange
  OBVIOUS
<1> DEFINE later == {i \in DOMAIN s : Before(r, s[i])} \cup {Len(s) + 1}
           p == Min(later)
<1>2. later \subseteq 1..(Len(s) + 1) /\ later \subseteq Nat /\ later # {}
  BY <1>1
<1>3. p \in later /\ \A i \in later : p <= i
  <2>1. \E n \in later : \A m \in later : n <= m
    BY <1>2, LeastNat
  <2> QED BY <2>1 DEF Min
<1>4. p \in 1..(Len(s) + 1)
  BY <1>2, <1>3
<1>5. \A i \in 1..(p - 1) : i \in 1..Len(s) /\ ~Before(r, s[i])
  <2> SUFFICES ASSUME NEW i \in 1..(p - 1) PROVE i \in 1..Len(s) /\ ~Before(r, s[i])
    OBVIOUS
  <2>1. i \in 1..Len(s) /\ ~(p <= i)
    <3> HIDE DEF p, later
    <3> QED BY <1>1, <1>4
  <2>2. i \notin later
    <3> HIDE DEF p, later
    <3> QED BY <1>3, <2>1
  <2> QED BY <1>1, <2>1, <2>2
<1>6. p \in 1..Len(s) => Before(r, s[p])
  BY <1>1, <1>3
<1> HIDE DEF p, later
<1> DEFINE t == InsertAt(s, p, r)
<1>7. /\ t \in Seq(LineRange) /\ Len(t) = Len(s) + 1 /\ DOMAIN t = 1..(Len(s) + 1)
      /\ t[p] = r
      /\ \A i \in 1..(p - 1) : t[i] = s[i]
      /\ \A i \in (p + 1)..(Len(s) + 1) : t[i] = s[i - 1]
  BY <1>4, InsertFacts
<1> HIDE DEF t
<1>8. \A i \in 1..Len(s) : s[i].start \in Nat /\ r.start \in Nat
  BY <1>1, RangeFacts
<1>9. \A i \in 1..(p - 1) : s[i].start <= r.start
  <2> SUFFICES ASSUME NEW i \in 1..(p - 1) PROVE s[i].start <= r.start
    OBVIOUS
  <2>1. i \in 1..Len(s) /\ ~(r.start < s[i].start)
    BY <1>5 DEF Before
  <2> QED BY <2>1, <1>8
<1>10. \A i \in p..Len(s) : r.start <= s[i].start
  <2> SUFFICES ASSUME NEW i \in p..Len(s) PROVE r.start <= s[i].start
    OBVIOUS
  <2>1. i \in 1..Len(s) /\ p \in 1..Len(s) /\ p <= i
    BY <1>1, <1>4
  <2>2. r.start <= s[p].start
    BY <1>6, <1>8, <2>1 DEF Before
  <2>3. s[p].start <= s[i].start
    BY <1>1, <2>1 DEF Ascending
  <2> QED BY <1>8, <2>1, <2>2, <2>3
<1>11. Ascending(t)
  <2> SUFFICES ASSUME NEW i \in 1..(Len(s) + 1), NEW j \in 1..(Len(s) + 1), i <= j
               PROVE  t[i].start <= t[j].start
    BY <1>7 DEF Ascending
  <2>1. CASE j < p
    <3>1. i \in 1..(p - 1) /\ j \in 1..(p - 1) /\ i \in 1..Len(s) /\ j \in 1..Len(s)
      BY <1>1, <1>4, <2>1
    <3> QED BY <3>1, <1>1, <1>7 DEF Ascending
  <2>2. CASE j = p
    <3>1. i = p \/ i \in 1..(p - 1)
      BY <1>4, <2>2
    <3> QED BY <3>1, <2>2, <1>7, <1>8, <1>9, RangeFacts
  <2>3. CASE p < j
    <3>1. j \in (p + 1)..(Len(s) + 1) /\ j - 1 \in p..Len(s) /\ j - 1 \in 1..Len(s) /\ t[j] = s[j - 1]
      BY <1>1, <1>4, <1>7, <2>3
    <3>2. CASE i < p
      <4>1. i \in 1..(p - 1) /\ i \in 1..Len(s) /\ i <= j - 1 /\ t[i] = s[i]
        BY <1>1, <1>4, <1>7, <3>1, <3>2
      <4> QED BY <1>1, <3>1, <4>1 DEF Ascending
    <3>3. CASE i = p
      BY <1>7, <1>10, <3>1, <3>3
    <3>4. CASE p < i
      <4>1. i \in (p + 1)..(Len(s) + 1) /\ i - 1 \in 1..Len(s) /\ i - 1 <= j - 1 /\ t[i] = s[i - 1]
        BY <1>1, <1>4, <1>7, <3>1, <3>4
      <4> QED BY <1>1, <3>1, <4>1 DEF Ascending
    <3> QED BY <1>4, <3>2, <3>3, <3>4
  <2> QED BY <1>4, <2>1, <2>2, <2>3
<1>12. ASSUME NEW l \in Int
       PROVE  Covered(t, Len(s) + 1, l) <=> Covered(s, Len(s), l) \/ (r.start <= l /\ l <= r.end)
  <2>1. ASSUME Covered(t, Len(s) + 1, l)
        PROVE  Covered(s, Len(s), l) \/ (r.start <= l /\ l <= r.end)
    <3>1. PICK i \in 1..(Len(s) + 1) : t[i].start <= l /\ l <= t[i].end
      BY <2>1 DEF Covered
    <3>2. \/ t[i] = r
          \/ i \in 1..Len(s) /\ t[i] = s[i]
          \/ i - 1 \in 1..Len(s) /\ t[i] = s[i - 1]
      <4>1. i \in 1..(p - 1) \/ i = p \/ i \in (p + 1)..(Len(s) + 1)
        BY <1>4
      <4>2. i \in 1..(p - 1) => i \in 1..Len(s)
        BY <1>1, <1>4
      <4>3. i \in (p + 1)..(Len(s) + 1) => i - 1 \in 1..Len(s)
        BY <1>1, <1>4
      <4> QED BY <1>7, <4>1, <4>2, <4>3
    <3> QED BY <3>1, <3>2 DEF Covered
  <2>2. ASSUME r.start <= l /\ l <= r.end PROVE Covered(t, Len(s) + 1, l)
    BY <1>4, <1>7, <2>2 DEF Covered
  <2>3. ASSUME Covered(s, Len(s), l) PROVE Covered(t, Len(s) + 1, l)
    <3>1. PICK i \in 1..Len(s) : s[i].start <= l /\ l <= s[i].end
      BY <2>3 DEF Covered
    <3>2. \E j \in 1..(Len(s) + 1) : t[j] = s[i]
      <4>1. CASE i < p
        <5>1. i \in 1..(p - 1) /\ i \in 1..(Len(s) + 1)
          BY <1>1, <1>4, <4>1
        <5> QED BY <5>1, <1>7
      <4>2. CASE p <= i
        <5>1. i + 1 \in (p + 1)..(Len(s) + 1) /\ i + 1 \in 1..(Len(s) + 1) /\ (i + 1) - 1 = i
          BY <1>1, <1>4, <4>2
        <5> QED BY <5>1, <1>7
      <4> QED BY <1>4, <4>1, <4>2
    <3> QED BY <3>1, <3>2 DEF Covered
  <2> QED BY <2>1, <2>2, <2>3
<1>13. Inserted(s, r) = t
  BY DEF Inserted, t, p, later
<1> QED BY <1>7, <1>11, <1>12, <1>13

(* The loop of sorted(): f is the function that it defines.                *)
LEMMA SortedFacts ==
    ASSUME NEW s \in Seq(LineRange)
    PROVE  /\ sorted(s) \in Seq(LineRange) /\ Ascending(sorted(s))
           /\ \A l \in Int : Covered(sorted(s), Len(sorted(s)), l) <=> Covered(s, Len(s), l)
<1> DEFINE X == Seq(LineRange)
           n == Len(s)
           Loop(f) == f = [i \in 0..n |-> IF i = 0 THEN <<>> ELSE Inserted(f[i - 1], s[i])]
           asc(t) == t \in X /\ Ascending(t)
<1>1. n \in Nat /\ DOMAIN s = 1..n /\ \A i \in 1..n : s[i] \in LineRange
  OBVIOUS
<1>2. <<>> \in X /\ Ascending(<<>>) /\ Len(<<>>) = 0
  BY DEF Ascending
<1>3. \E f : Loop(f)
  <2> DEFINE A == {t \in X : Ascending(t)}
             g == [x \in A \X (1..n) |-> Inserted(x[1], s[x[2]])]
  <2>1. g \in StepsOf(A, n)
    <3> SUFFICES ASSUME NEW t \in A, NEW i \in 1..n PROVE Inserted(t, s[i]) \in A
      BY DEF StepsOf
    <3> QED BY <1>1, InsertedFacts
  <2>2. <<>> \in A
    BY <1>2
  <2> HIDE DEF A
  <2>3. PICK f \in [0..n -> A] : f[0] = <<>> /\ \A i \in 1..n : f[i] = g[<<f[i - 1], i>>]
    <3>1. n \in Nat
      BY <1>1
    <3> HIDE DEF g, n
    <3>2. Runs(A, n, <<>>, g) # {}
      BY <3>1, <2>1, <2>2, LoopExists
    <3> QED BY <3>2 DEF Runs
  <2>4. \A i \in 1..n : f[i] = Inserted(f[i - 1], s[i])
    <3> SUFFICES ASSUME NEW i \in 1..n PROVE f[i] = Inserted(f[i - 1], s[i])
      OBVIOUS
    <3>1. i - 1 \in 0..n
      BY <1>1
    <3>2. f[i - 1] \in A
      BY <2>3, <3>1
    <3> QED BY <2>3, <3>2
  <2>5. Loop(f)
    <3> HIDE DEF n, g
    <3> QED BY <1>1, <2>3, <2>4
  <2> QED BY <2>5
<1>4. PICK f : Loop(f) /\ sorted(s) = f[n]
  <2> DEFINE f == CHOOSE h : Loop(h)
  <2>1. Loop(f)
    BY <1>3
  <2>2. sorted(s) = f[n]
    BY Zenon DEF sorted
  <2> QED BY <2>1, <2>2
<1>5. f[0] = <<>> /\ \A i \in 1..n : f[i] = Inserted(f[i - 1], s[i])
  <2> HIDE DEF n
  <2> QED BY <1>1, <1>4
<1> HIDE DEF Loop
<1> DEFINE P == {k \in Nat : k <= n =>
                    /\ f[k] \in X /\ Ascending(f[k])
                    /\ \A l \in Int : Covered(f[k], Len(f[k]), l) <=> Covered(s, k, l)}
<1>6. 0 \in P
  <2>1. \A l \in Int : Covered(<<>>, 0, l) <=> Covered(s, 0, l)
    BY DEF Covered
  <2> HIDE DEF X
  <2> QED BY <1>2, <1>5, <2>1
<1>7. ASSUME NEW k \in Nat, k \in P PROVE k + 1 \in P
  <2> SUFFICES ASSUME k + 1 <= n
               PROVE  /\ f[k + 1] \in X /\ Ascending(f[k + 1])
                      /\ \A l \in Int : Covered(f[k + 1], Len(f[k + 1]), l) <=> Covered(s, k + 1, l)
    OBVIOUS
  <2>1. k + 1 \in 1..n /\ f[k + 1] = Inserted(f[k], s[k + 1]) /\ s[k + 1] \in LineRange
    BY <1>1, <1>5
  <2>2. /\ f[k] \in X /\ Ascending(f[k])
        /\ \A l \in Int : Covered(f[k], Len(f[k]), l) <=> Covered(s, k, l)
    BY <1>1, <1>7
  <2>3. /\ f[k + 1] \in X /\ Ascending(f[k + 1])
        /\ \A l \in Int : Covered(f[k + 1], Len(f[k + 1]), l) <=>
              Covered(f[k], Len(f[k]), l) \/ (s[k + 1].start <= l /\ l <= s[k + 1].end)
    <3>1. PICK t \in X : t = f[k] /\ Ascending(t)
      BY <2>2
    <3>2. PICK r \in LineRange : r = s[k + 1]
      BY <2>1
    <3>3. /\ Inserted(t, r) \in X /\ Ascending(Inserted(t, r))
          /\ \A l \in Int : Covered(Inserted(t, r), Len(Inserted(t, r)), l) <=>
                Covered(t, Len(t), l) \/ (r.start <= l /\ l <= r.end)
      BY <3>1, InsertedFacts
    <3> HIDE DEF X
    <3> QED BY <2>1, <3>1, <3>2, <3>3, Zenon
  <2>4. \A l \in Int : Covered(s, k + 1, l) <=>
           Covered(s, k, l) \/ (s[k + 1].start <= l /\ l <= s[k + 1].end)
    BY DEF Covered
  <2> QED BY <2>2, <2>3, <2>4
<1>8. Nat \subseteq P
  <2> HIDE DEF P
  <2> QED BY <1>6, <1>7, NatInd
<1> QED BY <1>1, <1>4, <1>8

----------------------------------------------------------------------------
(* merged() of an ascending list is normal and has the same lines.         *)

LEMMA CoalesceFacts ==
    ASSUME NEW s \in Seq(LineRange), NEW r \in LineRange,
           NEW t, t = Coalesce(s, r)
    PROVE  /\ t \in Seq(LineRange) /\ Len(t) \in Nat /\ t # <<>>
           /\ Normal(s) /\ (s # <<>> => Last(s).start <= r.start) =>
                 /\ Normal(t) /\ Last(t).start <= r.start
                 /\ \A l \in Int : Covered(t, Len(t), l) <=>
                       Covered(s, Len(s), l) \/ (r.start <= l /\ l <= r.end)
<1>1. DOMAIN s = 1..Len(s) /\ Len(s) \in Nat /\ \A i \in 1..Len(s) : s[i] \in LineRange
  OBVIOUS
<1>2. \A i \in 1..Len(s) : /\ s[i].start \in Nat /\ s[i].end \in Nat /\ s[i].start <= s[i].end
                           /\ 1 <= s[i].start /\ s[i].end <= MaxLines
  BY <1>1, RangeFacts
<1>3. /\ r.start \in Nat /\ r.end \in Nat /\ r.start <= r.end
      /\ 1 <= r.start /\ r.end <= MaxLines /\ MaxLines \in Nat
  BY RangeFacts
<1>4. CASE s # <<>> /\ r.start <= Last(s).end + 1
  <2> DEFINE n == Len(s)
             e == [start |-> Last(s).start, end |-> Greatest(Last(s).end, r.end)]
  <2>1. t = Front(s) \o <<e>>
    BY <1>4 DEF Coalesce
  <2>2. Last(s) = s[n] /\ n \in 1..n /\ n \in Nat /\ n # 0
    BY <1>1, <1>4 DEF Last
  <2>3. e \in LineRange
    <3>1. Greatest(Last(s).end, r.end) \in Int /\ Last(s).start <= Greatest(Last(s).end, r.end)
          /\ Greatest(Last(s).end, r.end) <= MaxLines
      BY <1>2, <1>3, <2>2 DEF Greatest
    <3> QED BY <1>2, <2>2, <3>1, RangeOf
  <2> HIDE DEF e
  <2>4. /\ t \in Seq(LineRange) /\ Len(t) = n
        /\ DOMAIN t = 1..n /\ t[n] = e
        /\ \A i \in 1..(n - 1) : t[i] = s[i]
    BY <1>4, <2>1, <2>3, ReplaceLast
  <2>5. e.start = s[n].start /\ e.end = Greatest(s[n].end, r.end)
    BY <2>2 DEF e
  <2>6. t # <<>> /\ Last(t) = e
    BY <2>2, <2>4 DEF Last
  <2> SUFFICES ASSUME Normal(s), Last(s).start <= r.start
               PROVE  /\ Normal(t) /\ Last(t).start <= r.start
                      /\ \A l \in Int : Covered(t, n, l) <=>
                            Covered(s, n, l) \/ (r.start <= l /\ l <= r.end)
    BY <1>4, <2>2, <2>4, <2>6
  <2> HIDE DEF n
  <2>7. Normal(t)
    <3> SUFFICES ASSUME NEW i \in 1..(n - 1) PROVE t[i].end + 1 < t[i + 1].start
      BY <2>4, NormalOf
    <3>1. s[i].end + 1 < s[i + 1].start
      BY DEF Normal, n
    <3>2. t[i] = s[i] /\ t[i + 1].start = s[i + 1].start
      <4>1. i + 1 = n \/ i + 1 \in 1..(n - 1)
        BY <2>2
      <4> QED BY <2>4, <2>5, <4>1
    <3> QED BY <3>1, <3>2
  <2>8. ASSUME NEW l \in Int
        PROVE  Covered(t, n, l) <=> Covered(s, n, l) \/ (r.start <= l /\ l <= r.end)
    <3>1. Covered(t, n, l) <=> Covered(s, n - 1, l) \/ (e.start <= l /\ l <= e.end)
      <4>1. \A i \in 1..n : i = n \/ i \in 1..(n - 1)
        BY <2>2
      <4>2. \A i \in 1..(n - 1) : i \in 1..n
        BY <2>2
      <4> QED BY <2>2, <2>4, <4>1, <4>2 DEF Covered
    <3>2. Covered(s, n, l) <=> Covered(s, n - 1, l) \/ (s[n].start <= l /\ l <= s[n].end)
      <4>1. \A i \in 1..n : i = n \/ i \in 1..(n - 1)
        BY <2>2
      <4>2. \A i \in 1..(n - 1) : i \in 1..n
        BY <2>2
      <4> QED BY <2>2, <4>1, <4>2 DEF Covered
    <3>3. e.start <= l /\ l <= e.end <=>
            (s[n].start <= l /\ l <= s[n].end) \/ (r.start <= l /\ l <= r.end)
      <4>1. s[n].start \in Nat /\ s[n].end \in Nat /\ r.start <= s[n].end + 1 /\ s[n].start <= r.start
            /\ s[n].start <= s[n].end
        BY <1>2, <1>4, <2>2 DEF n
      <4> QED BY <1>3, <2>5, <4>1 DEF Greatest
    <3> QED BY <3>1, <3>2, <3>3
  <2> QED BY <2>5, <2>6, <2>7, <2>8, <2>2
<1>5. CASE ~(s # <<>> /\ r.start <= Last(s).end + 1)
  <2>1. t = Append(s, r)
    BY <1>5, Zenon DEF Coalesce
  <2> DEFINE n == Len(s)
  <2>2. /\ t \in Seq(LineRange) /\ Len(t) = n + 1 /\ DOMAIN t = 1..(n + 1)
        /\ t[n + 1] = r /\ \A i \in 1..n : t[i] = s[i]
    BY <2>1, AppendFacts
  <2>3. n \in Nat /\ t # <<>> /\ Last(t) = r
    BY <1>1, <2>2 DEF Last
  <2> SUFFICES ASSUME Normal(s), s # <<>> => Last(s).start <= r.start
               PROVE  /\ Normal(t) /\ Last(t).start <= r.start
                      /\ \A l \in Int : Covered(t, n + 1, l) <=>
                            Covered(s, n, l) \/ (r.start <= l /\ l <= r.end)
    BY <2>2, <2>3
  <2>4. Normal(t)
    <3> SUFFICES ASSUME NEW i \in 1..n PROVE t[i].end + 1 < t[i + 1].start
      BY <2>2, <2>3, NormalOf
    <3>1. CASE i = n
      <4>1. s # <<>> /\ Last(s) = s[n] /\ ~(r.start <= s[n].end + 1)
        BY <1>1, <1>5, <3>1 DEF Last
      <4>2. s[n].end \in Nat
        BY <1>2, <3>1
      <4> QED BY <1>3, <2>2, <3>1, <4>1, <4>2
    <3>2. CASE i # n
      <4>1. i \in 1..(n - 1) /\ i + 1 \in 1..n
        BY <2>3, <3>2
      <4> QED BY <2>2, <4>1 DEF Normal
    <3> QED BY <3>1, <3>2
  <2>5. \A l \in Int : Covered(t, n + 1, l) <=>
                     Covered(s, n, l) \/ (r.start <= l /\ l <= r.end)
    <3>1. \A i \in 1..(n + 1) : i = n + 1 \/ i \in 1..n
      BY <2>3
    <3>2. n + 1 \in 1..(n + 1) /\ \A i \in 1..n : i \in 1..(n + 1)
      BY <2>3
    <3> HIDE DEF n
    <3> QED BY <2>2, <3>1, <3>2 DEF Covered
  <2> QED BY <1>3, <2>3, <2>4, <2>5
<1> QED BY <1>4, <1>5

LEMMA MergedFacts ==
    ASSUME NEW s \in Seq(LineRange), Ascending(s)
    PROVE  /\ merged(s) \in Seq(LineRange) /\ Normal(merged(s))
           /\ \A l \in Int : Covered(merged(s), Len(merged(s)), l) <=> Covered(s, Len(s), l)
<1>1. Len(s) \in Nat /\ DOMAIN s = 1..Len(s) /\ \A i \in 1..Len(s) : s[i] \in LineRange
  OBVIOUS
<1> DEFINE n == Len(s)
           Loop(f) == f = [i \in 0..n |-> IF i = 0 THEN <<>> ELSE Coalesce(f[i - 1], s[i])]
<1>2. \E f : Loop(f)
  <2> DEFINE A == Seq(LineRange)
             g == [x \in A \X (1..n) |-> Coalesce(x[1], s[x[2]])]
  <2>1. g \in StepsOf(A, n)
    <3> SUFFICES ASSUME NEW t \in A, NEW i \in 1..n PROVE Coalesce(t, s[i]) \in A
      BY DEF StepsOf
    <3>1. s[i] \in LineRange
      BY <1>1
    <3> QED BY <3>1, CoalesceFacts
  <2>2. <<>> \in A
    OBVIOUS
  <2> HIDE DEF A
  <2>3. PICK f \in [0..n -> A] : f[0] = <<>> /\ \A i \in 1..n : f[i] = g[<<f[i - 1], i>>]
    <3>1. n \in Nat
      BY <1>1
    <3> HIDE DEF g, n
    <3>2. Runs(A, n, <<>>, g) # {}
      BY <3>1, <2>1, <2>2, LoopExists
    <3> QED BY <3>2 DEF Runs
  <2>4. \A i \in 1..n : f[i] = Coalesce(f[i - 1], s[i])
    <3> SUFFICES ASSUME NEW i \in 1..n PROVE f[i] = Coalesce(f[i - 1], s[i])
      OBVIOUS
    <3>1. i - 1 \in 0..n
      BY <1>1
    <3>2. f[i - 1] \in A
      BY <2>3, <3>1
    <3> QED BY <2>3, <3>2
  <2>5. Loop(f)
    <3> HIDE DEF n, g
    <3> QED BY <1>1, <2>3, <2>4
  <2> QED BY <2>5
<1>3. PICK f : Loop(f) /\ merged(s) = f[n]
  <2> DEFINE f == CHOOSE h : Loop(h)
  <2>1. Loop(f)
    BY <1>2
  <2>2. merged(s) = f[n]
    BY Zenon DEF merged
  <2> QED BY <2>1, <2>2
<1>4. f[0] = <<>> /\ \A i \in 1..n : f[i] = Coalesce(f[i - 1], s[i])
  <2>1. n \in Nat
    BY <1>1
  <2> HIDE DEF n
  <2> QED BY <2>1, <1>3
<1> HIDE DEF Loop
<1> DEFINE P == {k \in Nat : k <= n =>
                    /\ f[k] \in Seq(LineRange) /\ Normal(f[k])
                    /\ f[k] # <<>> => k # 0 /\ Last(f[k]).start <= s[k].start
                    /\ \A l \in Int : Covered(f[k], Len(f[k]), l) <=> Covered(s, k, l)}
<1>5. 0 \in P
  <2>1. <<>> \in Seq(LineRange) /\ Len(<<>>) = 0 /\ Normal(<<>>)
    BY DEF Normal
  <2>2. \A l \in Int : Covered(<<>>, 0, l) <=> Covered(s, 0, l)
    BY DEF Covered
  <2> QED BY <1>4, <2>1, <2>2
<1>6. ASSUME NEW k \in Nat, k \in P PROVE k + 1 \in P
  <2> SUFFICES ASSUME k + 1 <= n
               PROVE  /\ f[k + 1] \in Seq(LineRange) /\ Normal(f[k + 1])
                      /\ Last(f[k + 1]).start <= s[k + 1].start
                      /\ \A l \in Int : Covered(f[k + 1], Len(f[k + 1]), l) <=> Covered(s, k + 1, l)
    OBVIOUS
  <2>1. k + 1 \in 1..n /\ f[k + 1] = Coalesce(f[k], s[k + 1]) /\ s[k + 1] \in LineRange
    BY <1>1, <1>4
  <2>2. PICK t \in Seq(LineRange) :
          /\ t = f[k] /\ Normal(t) /\ (t # <<>> => k # 0 /\ Last(t).start <= s[k].start)
          /\ \A l \in Int : Covered(t, Len(t), l) <=> Covered(s, k, l)
    BY <1>1, <1>6
  <2>3. PICK r \in LineRange : r = s[k + 1]
    BY <2>1
  <2>4. t # <<>> => Last(t).start <= r.start
    <3> SUFFICES ASSUME t # <<>> PROVE Last(t).start <= r.start
      OBVIOUS
    <3>1. k \in 1..n /\ k <= k + 1 /\ Last(t).start <= s[k].start
      BY <1>1, <2>1, <2>2
    <3>2. s[k].start <= r.start
      BY <1>1, <2>1, <2>3, <3>1 DEF Ascending
    <3>3. s[k].start \in Nat /\ r.start \in Nat /\ Last(t).start \in Nat
      <4>1. s[k] \in LineRange /\ Last(t) \in LineRange
        BY <1>1, <3>1 DEF Last
      <4> QED BY <4>1, RangeFacts
    <3> QED BY <3>1, <3>2, <3>3
  <2>5. PICK u : u = Coalesce(t, r)
    OBVIOUS
  <2>6. /\ u \in Seq(LineRange) /\ Normal(u) /\ Last(u).start <= r.start
        /\ \A l \in Int : Covered(u, Len(u), l) <=>
              Covered(t, Len(t), l) \/ (r.start <= l /\ l <= r.end)
    BY <2>2, <2>4, <2>5, CoalesceFacts
  <2>7. \A l \in Int : Covered(s, k + 1, l) <=>
           Covered(s, k, l) \/ (s[k + 1].start <= l /\ l <= s[k + 1].end)
    BY DEF Covered
  <2>8. f[k + 1] = u
    BY <2>1, <2>2, <2>3, <2>5
  <2> QED BY <2>2, <2>3, <2>6, <2>7, <2>8
<1>7. Nat \subseteq P
  <2> HIDE DEF P
  <2> QED BY <1>5, <1>6, NatInd
<1> QED BY <1>1, <1>3, <1>7

(* Merging is the union.                                                   *)
LEMMA MergeFacts ==
    ASSUME NEW s \in Seq(LineRange), NEW t, t = mergeSegments(s) \/ t = normalize(s)
    PROVE  t \in Seq(LineRange) /\ Normal(t) /\ Lines(t) = Lines(s)
<1>1. t = merged(sorted(s))
  BY DEF mergeSegments, normalize
<1>2. PICK u \in Seq(LineRange) :
        /\ u = sorted(s) /\ Ascending(u)
        /\ \A l \in Int : Covered(u, Len(u), l) <=> Covered(s, Len(s), l)
  BY SortedFacts
<1>3. /\ t \in Seq(LineRange) /\ Normal(t)
      /\ \A l \in Int : Covered(t, Len(t), l) <=> Covered(u, Len(u), l)
  BY <1>1, <1>2, MergedFacts
<1> QED BY <1>2, <1>3, LinesFacts

----------------------------------------------------------------------------
(* clampAll() is the intersection with the lines of the file.              *)

LEMMA ClampedRange ==
    ASSUME NEW r \in LineRange, NEW m \in Nat, Kept(r, m)
    PROVE  /\ clamp(r, m) \in LineRange
           /\ clamp(r, m).start = r.start /\ clamp(r, m).end <= r.end
           /\ \A l \in Int : clamp(r, m).start <= l /\ l <= clamp(r, m).end <=>
                              r.start <= l /\ l <= r.end /\ l <= m
<1>1. /\ r.start \in Nat /\ r.end \in Nat /\ 1 <= r.start /\ r.start <= r.end
      /\ r.end <= MaxLines /\ MaxLines \in Nat /\ r.start <= m
  BY RangeFacts DEF Kept
<1>2. Least(r.end, m) \in Int /\ r.start <= Least(r.end, m) /\ Least(r.end, m) <= r.end
      /\ Least(r.end, m) <= MaxLines
      /\ \A l \in Int : l <= Least(r.end, m) <=> l <= r.end /\ l <= m
  BY <1>1 DEF Least
<1>3. [start |-> r.start, end |-> Least(r.end, m)] \in LineRange
  BY <1>1, <1>2, RangeOf
<1> QED BY <1>2, <1>3 DEF clamp

LEMMA ClampFacts ==
    ASSUME NEW s \in Seq(LineRange), Normal(s), NEW m \in Nat
    PROVE  LET t == clampAll(s, m)
           IN  t \in Seq(LineRange) /\ Normal(t) /\ Lines(t) = Lines(s) \cap 1..m
<1>1. Len(s) \in Nat /\ DOMAIN s = 1..Len(s) /\ \A i \in 1..Len(s) : s[i] \in LineRange
  OBVIOUS
<1> DEFINE n == Len(s)
           Loop(f) == f = [i \in 0..n |-> IF i = 0 THEN <<>> ELSE Clamped(f[i - 1], s[i], m)]
<1>2. \E f : Loop(f)
  <2> DEFINE A == Seq(LineRange)
             g == [x \in A \X (1..n) |-> Clamped(x[1], s[x[2]], m)]
  <2>1. g \in StepsOf(A, n)
    <3> SUFFICES ASSUME NEW t \in A, NEW i \in 1..n PROVE Clamped(t, s[i], m) \in A
      BY DEF StepsOf
    <3>1. s[i] \in LineRange
      BY <1>1
    <3>2. Kept(s[i], m) => Append(t, clamp(s[i], m)) \in Seq(LineRange)
      BY <3>1, ClampedRange, AppendFacts
    <3> QED BY <3>2 DEF Clamped
  <2>2. <<>> \in A
    OBVIOUS
  <2> HIDE DEF A
  <2>3. PICK f \in [0..n -> A] : f[0] = <<>> /\ \A i \in 1..n : f[i] = g[<<f[i - 1], i>>]
    <3>1. n \in Nat
      BY <1>1
    <3> HIDE DEF g, n
    <3>2. Runs(A, n, <<>>, g) # {}
      BY <3>1, <2>1, <2>2, LoopExists
    <3> QED BY <3>2 DEF Runs
  <2>4. \A i \in 1..n : f[i] = Clamped(f[i - 1], s[i], m)
    <3> SUFFICES ASSUME NEW i \in 1..n PROVE f[i] = Clamped(f[i - 1], s[i], m)
      OBVIOUS
    <3>1. i - 1 \in 0..n
      BY <1>1
    <3>2. f[i - 1] \in A
      BY <2>3, <3>1
    <3> QED BY <2>3, <3>2
  <2>5. Loop(f)
    <3> HIDE DEF n, g
    <3> QED BY <1>1, <2>3, <2>4
  <2> QED BY <2>5
<1>3. PICK f : Loop(f) /\ clampAll(s, m) = f[n]
  <2> DEFINE f == CHOOSE h : Loop(h)
  <2>1. Loop(f)
    BY <1>2
  <2>2. clampAll(s, m) = f[n]
    BY Zenon DEF clampAll
  <2> QED BY <2>1, <2>2
<1>4. f[0] = <<>> /\ \A i \in 1..n : f[i] = Clamped(f[i - 1], s[i], m)
  <2>1. n \in Nat
    BY <1>1
  <2> HIDE DEF n
  <2> QED BY <2>1, <1>3
<1> HIDE DEF Loop
<1> DEFINE P == {k \in Nat : k <= n =>
                    /\ f[k] \in Seq(LineRange) /\ Normal(f[k])
                    /\ k = 0 => f[k] = <<>>
                    /\ \A i \in 1..Len(f[k]) : f[k][i].end <= s[k].end
                    /\ \A l \in Int : Covered(f[k], Len(f[k]), l) <=> Covered(s, k, l) /\ l <= m}
<1>5. 0 \in P
  <2>1. <<>> \in Seq(LineRange) /\ Len(<<>>) = 0 /\ Normal(<<>>)
    BY DEF Normal
  <2>2. \A l \in Int : ~Covered(<<>>, 0, l) /\ ~Covered(s, 0, l)
    BY DEF Covered
  <2>3. f[0] \in Seq(LineRange) /\ Normal(f[0]) /\ Len(f[0]) = 0
    BY <1>4, <2>1
  <2>4. /\ \A i \in 1..Len(f[0]) : f[0][i].end <= s[0].end
        /\ \A l \in Int : Covered(f[0], Len(f[0]), l) <=> Covered(s, 0, l) /\ l <= m
    BY <2>2, <2>3 DEF Covered
  <2> QED BY <1>4, <2>3, <2>4
<1>6. ASSUME NEW k \in Nat, k \in P PROVE k + 1 \in P
  <2> SUFFICES ASSUME k + 1 <= n
               PROVE  /\ f[k + 1] \in Seq(LineRange) /\ Normal(f[k + 1])
                      /\ \A i \in 1..Len(f[k + 1]) : f[k + 1][i].end <= s[k + 1].end
                      /\ \A l \in Int : Covered(f[k + 1], Len(f[k + 1]), l) <=>
                                         Covered(s, k + 1, l) /\ l <= m
    OBVIOUS
  <2>1. /\ k + 1 \in 1..n /\ s[k + 1] \in LineRange /\ (k + 1) - 1 = k
        /\ f[k + 1] = Clamped(f[k], s[k + 1], m)
    BY <1>1, <1>4
  <2>2. PICK t \in Seq(LineRange) :
          /\ t = f[k] /\ Normal(t) /\ (k = 0 => t = <<>>)
          /\ \A i \in 1..Len(t) : t[i].end <= s[k].end
          /\ \A l \in Int : Covered(t, Len(t), l) <=> Covered(s, k, l) /\ l <= m
    BY <1>1, <1>6
  <2>3. PICK r \in LineRange : r = s[k + 1]
    BY <2>1
  <2>4. \A l \in Int : Covered(s, k + 1, l) <=>
           Covered(s, k, l) \/ (r.start <= l /\ l <= r.end)
    BY <2>3 DEF Covered
  <2>5. Len(t) \in Nat /\ DOMAIN t = 1..Len(t) /\ \A i \in 1..Len(t) : t[i] \in LineRange
    OBVIOUS
  <2>6. \A i \in 1..Len(t) : t[i].end + 1 < r.start /\ t[i].end <= r.end
    <3> SUFFICES ASSUME NEW i \in 1..Len(t) PROVE t[i].end + 1 < r.start /\ t[i].end <= r.end
      OBVIOUS
    <3>1. k # 0 /\ k \in 1..n /\ k \in 1..((k + 1) - 1) /\ t[i].end <= s[k].end
      BY <1>1, <2>1, <2>2, <2>5
    <3>2. s[k].end + 1 < r.start
      BY <2>1, <2>3, <3>1, NormalFacts
    <3>3. s[k].end \in Nat /\ t[i].end \in Nat /\ r.start \in Nat /\ r.end \in Nat /\ r.start <= r.end
      BY <1>1, <2>5, <3>1, RangeFacts
    <3> QED BY <3>1, <3>2, <3>3
  <2>7. CASE Kept(r, m)
    <3>1. PICK c \in LineRange :
            /\ c = clamp(r, m) /\ c.start = r.start /\ c.end <= r.end
            /\ \A l \in Int : c.start <= l /\ l <= c.end <=> r.start <= l /\ l <= r.end /\ l <= m
      BY <2>7, ClampedRange
    <3>2. PICK u \in Seq(LineRange) :
            /\ u = Append(t, c) /\ Len(u) = Len(t) + 1
            /\ u[Len(t) + 1] = c /\ \A i \in 1..Len(t) : u[i] = t[i]
      <4>1. /\ Append(t, c) \in Seq(LineRange) /\ Len(Append(t, c)) = Len(t) + 1
            /\ Append(t, c)[Len(t) + 1] = c /\ \A i \in 1..Len(t) : Append(t, c)[i] = t[i]
        BY AppendFacts
      <4> QED BY <4>1
    <3>3. f[k + 1] = u
      BY <2>1, <2>2, <2>3, <2>7, <3>1, <3>2 DEF Clamped
    <3>4. Normal(u)
      <4>0. Len(t) \in Nat /\ Len(u) - 1 = Len(t)
        BY <2>5, <3>2
      <4> SUFFICES ASSUME NEW i \in 1..Len(t) PROVE u[i].end + 1 < u[i + 1].start
        BY <4>0, NormalOf
      <4>1. CASE i = Len(t)
        BY <2>6, <3>1, <3>2, <4>1
      <4>2. CASE i # Len(t)
        <5>1. i \in 1..(Len(t) - 1) /\ i + 1 \in 1..Len(t)
          BY <4>0, <4>2
        <5> QED BY <2>2, <3>2, <5>1 DEF Normal
      <4> QED BY <4>1, <4>2
    <3>5. \A i \in 1..Len(u) : u[i].end <= r.end
      BY <2>5, <2>6, <3>1, <3>2
    <3>6. \A l \in Int : Covered(u, Len(u), l) <=>
                         Covered(t, Len(t), l) \/ (c.start <= l /\ l <= c.end)
      BY <2>5, <3>2 DEF Covered
    <3>7. \A l \in Int : Covered(u, Len(u), l) <=> Covered(s, k + 1, l) /\ l <= m
      BY <2>2, <2>4, <3>1, <3>6
    <3> QED BY <2>3, <3>2, <3>3, <3>4, <3>5, <3>7
  <2>8. CASE ~Kept(r, m)
    <3>1. f[k + 1] = t
      BY <2>1, <2>2, <2>3, <2>8 DEF Clamped
    <3>2. \A l \in Int : r.start <= l /\ l <= r.end => ~(l <= m)
      <4>1. r.start \in Nat /\ r.end \in Nat /\ 1 <= r.start /\ ~(m >= 1 /\ r.start <= m)
        BY <2>8, RangeFacts DEF Kept
      <4> QED BY <4>1
    <3> QED BY <2>2, <2>3, <2>4, <2>6, <3>1, <3>2
  <2> QED BY <2>7, <2>8
<1>7. Nat \subseteq P
  <2> HIDE DEF P
  <2> QED BY <1>5, <1>6, NatInd
<1>8. PICK t \in Seq(LineRange) :
        /\ t = clampAll(s, m) /\ Normal(t)
        /\ \A l \in Int : Covered(t, Len(t), l) <=> Covered(s, Len(s), l) /\ l <= m
  BY <1>1, <1>3, <1>7
<1>9. \A l \in Lines(s) : l \in Nat /\ 1 <= l
  BY LinesFacts DEF LineNos
<1> QED BY <1>8, <1>9, LinesFacts

----------------------------------------------------------------------------
(* subtract() is the difference, and begins with its first gap.            *)

Span == [start : Int, end : Int]

Loopstate == [cursor : Int, missing : Seq(Span)]

FirstGap(m, s, w) ==
    /\ w.start <= m.start /\ m.start <= m.end /\ m.end <= w.end
    /\ \A l \in Int : m.start <= l /\ l <= m.end => ~Covered(s, Len(s), l)
    /\ \A l \in Int : w.start <= l /\ l < m.start => Covered(s, Len(s), l)
    /\ m.end = w.end \/ Covered(s, Len(s), m.end + 1)

Passed(a, k, s, w) ==
    /\ w.start <= a.cursor
    /\ a.missing = <<>> =>
         /\ \A l \in Int : w.start <= l /\ l <= w.end /\ l < a.cursor => Covered(s, Len(s), l)
         /\ \A i \in 1..k : s[i].end < a.cursor \/ s[i].start > w.end \/ a.cursor > w.end
    /\ a.missing # <<>> => FirstGap(a.missing[1], s, w)

LEMMA SkipType ==
    ASSUME NEW a \in Loopstate, NEW r \in LineRange, NEW w \in Span
    PROVE  Skip(a, r, w) \in Loopstate
<1>1. /\ a.cursor \in Int /\ a.missing \in Seq(Span) /\ w.start \in Int /\ w.end \in Int
      /\ r.start \in Nat /\ r.end \in Nat
  BY RangeFacts DEF Loopstate, Span
<1>2. Beyond(a.cursor, r) \in Int /\ Least(r.start - 1, w.end) \in Int
  BY <1>1 DEF Beyond, Greatest, Least
<1>3. [start |-> a.cursor, end |-> Least(r.start - 1, w.end)] \in Span
  BY <1>1, <1>2 DEF Span
<1>4. Append(a.missing, [start |-> a.cursor, end |-> Least(r.start - 1, w.end)]) \in Seq(Span)
  BY <1>1, <1>3, AppendFacts
<1> QED BY <1>1, <1>2, <1>4 DEF Skip, Loopstate

LEMMA SkipFacts ==
    ASSUME NEW s \in Seq(LineRange), Normal(s), NEW w \in Span, NEW k \in Nat, k + 1 <= Len(s),
           NEW a \in Loopstate, Passed(a, k, s, w), NEW b, b = Skip(a, s[k + 1], w)
    PROVE  Passed(b, k + 1, s, w)
<1>1. Len(s) \in Nat /\ k + 1 \in 1..Len(s) /\ \A i \in 1..Len(s) : s[i] \in LineRange
  OBVIOUS
<1>2. \A i \in 1..Len(s) : s[i].start \in Nat /\ s[i].end \in Nat /\ s[i].start <= s[i].end
  BY <1>1, RangeFacts
<1> DEFINE r == s[k + 1]
<1>3. r.start \in Nat /\ r.end \in Nat /\ r.start <= r.end /\ r \in LineRange
  BY <1>1, <1>2
<1>4. /\ a.cursor \in Int /\ a.missing \in Seq(Span) /\ w.start \in Int /\ w.end \in Int
  BY DEF Loopstate, Span
<1>5. \A i \in 1..(k + 1) : i = k + 1 \/ i \in 1..k
  OBVIOUS
<1>6. CASE r.end < w.start \/ r.start > w.end \/ a.cursor > w.end
  <2>1. b = a
    BY <1>6, Zenon DEF Skip
  <2>2. r.end < a.cursor \/ r.start > w.end \/ a.cursor > w.end
    BY <1>3, <1>4, <1>6 DEF Passed
  <2> QED BY <1>5, <2>1, <2>2 DEF Passed
<1>7. CASE ~(r.end < w.start \/ r.start > w.end \/ a.cursor > w.end)
  <2> DEFINE gap == [start |-> a.cursor, end |-> Least(r.start - 1, w.end)]
  <2>1. /\ b.cursor = Beyond(a.cursor, r)
        /\ b.missing = IF r.start > a.cursor THEN Append(a.missing, gap) ELSE a.missing
    BY <1>7 DEF Skip
  <2>2. w.start <= r.end /\ r.start <= w.end /\ a.cursor <= w.end
    BY <1>3, <1>4, <1>7
  <2>3. b.cursor \in Int /\ a.cursor <= b.cursor /\ r.end < b.cursor
        /\ \A l \in Int : l < b.cursor => l < a.cursor \/ l <= r.end
    BY <1>3, <1>4, <2>1 DEF Beyond, Greatest
  <2>4. w.start <= b.cursor
    BY <1>4, <2>3 DEF Passed
  <2>5. \A l \in Int : r.start <= l /\ l <= r.end => Covered(s, Len(s), l)
    BY <1>1 DEF Covered
  <2>6. CASE a.missing = <<>> /\ r.start > a.cursor
    <3>1. gap \in Span /\ gap.start = a.cursor /\ gap.end = r.start - 1
      BY <1>3, <1>4, <2>2 DEF Least, Span
    <3> HIDE DEF gap
    <3>2. b.missing # <<>> /\ b.missing[1] = gap
      BY <2>1, <2>6, <3>1
    <3>3. \A l \in Int : gap.start <= l /\ l <= gap.end => ~Covered(s, Len(s), l)
      <4> SUFFICES ASSUME NEW l \in Int, gap.start <= l, l <= gap.end,
                          NEW i \in 1..Len(s), s[i].start <= l, l <= s[i].end
                   PROVE  FALSE
        BY DEF Covered
      <4>1. l < r.start /\ a.cursor <= l /\ l <= w.end
        BY <1>3, <1>4, <2>2, <3>1
      <4>2. CASE i \in 1..k
        <5>1. s[i].end < a.cursor \/ s[i].start > w.end \/ a.cursor > w.end
          BY <2>6, <4>2 DEF Passed
        <5>2. s[i].end \in Nat /\ s[i].start \in Nat
          BY <1>2
        <5> HIDE DEF r
        <5> QED BY <1>4, <2>2, <4>1, <5>1, <5>2
      <4>3. CASE i = k + 1
        BY <1>3, <4>1, <4>3
      <4>4. CASE i > k + 1
        <5>1. k + 1 \in 1..(i - 1)
          BY <4>4
        <5>2. r.end + 1 < s[i].start
          BY <5>1, NormalFacts
        <5> QED BY <1>2, <1>3, <4>1, <5>2
      <4> QED BY <1>1, <4>2, <4>3, <4>4
    <3>4. \A l \in Int : w.start <= l /\ l < gap.start => Covered(s, Len(s), l)
      BY <1>4, <2>2, <2>6, <3>1 DEF Passed
    <3>5. Covered(s, Len(s), gap.end + 1)
      BY <1>3, <2>5, <3>1
    <3>6. w.start <= gap.start /\ gap.start <= gap.end /\ gap.end <= w.end
      BY <1>3, <1>4, <2>2, <2>6, <3>1 DEF Passed
    <3>7. FirstGap(gap, s, w)
      BY <3>3, <3>4, <3>5, <3>6 DEF FirstGap
    <3> QED BY <2>4, <3>2, <3>7 DEF Passed
  <2>7. CASE a.missing = <<>> /\ ~(r.start > a.cursor)
    <3>1. b.missing = <<>>
      BY <2>1, <2>7
    <3>2. \A l \in Int : w.start <= l /\ l <= w.end /\ l < b.cursor => Covered(s, Len(s), l)
      <4> SUFFICES ASSUME NEW l \in Int, w.start <= l, l <= w.end, l < b.cursor
                   PROVE  Covered(s, Len(s), l)
        OBVIOUS
      <4>1. CASE l < a.cursor
        BY <2>7, <4>1 DEF Passed
      <4>2. CASE ~(l < a.cursor)
        <5>1. r.start <= l /\ l <= r.end
          BY <1>3, <1>4, <2>3, <2>7, <4>2
        <5> QED BY <2>5, <5>1
      <4> QED BY <4>1, <4>2
    <3>3. \A i \in 1..(k + 1) : s[i].end < b.cursor \/ s[i].start > w.end \/ b.cursor > w.end
      <4> SUFFICES ASSUME NEW i \in 1..(k + 1)
                   PROVE  s[i].end < b.cursor \/ s[i].start > w.end \/ b.cursor > w.end
        OBVIOUS
      <4>1. CASE i = k + 1
        BY <2>3, <4>1
      <4>2. CASE i \in 1..k
        <5>1. s[i].end < a.cursor \/ s[i].start > w.end \/ a.cursor > w.end
          BY <2>7, <4>2 DEF Passed
        <5>2. s[i].end \in Nat /\ s[i].start \in Nat
          BY <1>1, <1>2, <4>2
        <5> QED BY <1>4, <2>3, <5>1, <5>2
      <4> QED BY <1>5, <4>1, <4>2
    <3> QED BY <2>4, <3>1, <3>2, <3>3 DEF Passed
  <2>8. CASE a.missing # <<>>
    <3>1. gap \in Span
      BY <1>3, <1>4, <2>2 DEF Least, Span
    <3> HIDE DEF gap
    <3>2. b.missing # <<>> /\ b.missing[1] = a.missing[1]
      BY <1>4, <2>1, <2>8, <3>1
    <3> QED BY <2>4, <2>8, <3>2 DEF Passed
  <2> QED BY <2>6, <2>7, <2>8
<1> QED BY <1>6, <1>7

LEMMA SkippedFacts ==
    ASSUME NEW s \in Seq(LineRange), Normal(s), NEW w \in Span
    PROVE  skipped(s, w) \in Loopstate /\ Passed(skipped(s, w), Len(s), s, w)
<1>1. Len(s) \in Nat /\ DOMAIN s = 1..Len(s) /\ \A i \in 1..Len(s) : s[i] \in LineRange
  OBVIOUS
<1>5. [cursor |-> w.start, missing |-> <<>>] \in Loopstate
  BY DEF Loopstate, Span
<1> DEFINE n == Len(s)
           Loop(f) == f = [i \in 0..n |-> IF i = 0 THEN [cursor |-> w.start, missing |-> <<>>] ELSE Skip(f[i - 1], s[i], w)]
<1>2. \E f : Loop(f)
  <2> DEFINE A == Loopstate
             g == [x \in A \X (1..n) |-> Skip(x[1], s[x[2]], w)]
  <2>1. g \in StepsOf(A, n)
    <3> SUFFICES ASSUME NEW t \in A, NEW i \in 1..n PROVE Skip(t, s[i], w) \in A
      BY DEF StepsOf
    <3>1. s[i] \in LineRange
      BY <1>1
    <3> QED BY <3>1, SkipType
  <2>2. [cursor |-> w.start, missing |-> <<>>] \in A
    BY <1>5
  <2> HIDE DEF A
  <2>3. PICK f \in [0..n -> A] : f[0] = [cursor |-> w.start, missing |-> <<>>] /\ \A i \in 1..n : f[i] = g[<<f[i - 1], i>>]
    <3>1. n \in Nat
      BY <1>1
    <3> HIDE DEF g, n
    <3>2. Runs(A, n, [cursor |-> w.start, missing |-> <<>>], g) # {}
      BY <3>1, <2>1, <2>2, LoopExists
    <3> QED BY <3>2 DEF Runs
  <2>4. \A i \in 1..n : f[i] = Skip(f[i - 1], s[i], w)
    <3> SUFFICES ASSUME NEW i \in 1..n PROVE f[i] = Skip(f[i - 1], s[i], w)
      OBVIOUS
    <3>1. i - 1 \in 0..n
      BY <1>1
    <3>2. f[i - 1] \in A
      BY <2>3, <3>1
    <3> QED BY <2>3, <3>2
  <2>5. Loop(f)
    <3> HIDE DEF n, g
    <3> QED BY <1>1, <2>3, <2>4
  <2> QED BY <2>5
<1>3. PICK f : Loop(f) /\ skipped(s, w) = f[n]
  <2> DEFINE f == CHOOSE h : Loop(h)
  <2>1. Loop(f)
    BY <1>2
  <2>2. skipped(s, w) = f[n]
    BY Zenon DEF skipped
  <2> QED BY <2>1, <2>2
<1>4. f[0] = [cursor |-> w.start, missing |-> <<>>] /\ \A i \in 1..n : f[i] = Skip(f[i - 1], s[i], w)
  <2>1. n \in Nat
    BY <1>1
  <2> HIDE DEF n
  <2> QED BY <2>1, <1>3
<1> HIDE DEF Loop
<1> DEFINE P == {k \in Nat : k <= n => f[k] \in Loopstate /\ Passed(f[k], k, s, w)}
<1>6. 0 \in P
  <2>1. w.start \in Int
    BY DEF Span
  <2>2. Passed([cursor |-> w.start, missing |-> <<>>], 0, s, w)
    BY <2>1 DEF Passed
  <2> QED BY <1>4, <1>5, <2>2
<1>7. ASSUME NEW k \in Nat, k \in P PROVE k + 1 \in P
  <2> SUFFICES ASSUME k + 1 <= n
               PROVE  f[k + 1] \in Loopstate /\ Passed(f[k + 1], k + 1, s, w)
    OBVIOUS
  <2>1. k + 1 \in 1..n /\ f[k + 1] = Skip(f[k], s[k + 1], w) /\ s[k + 1] \in LineRange
    BY <1>1, <1>4
  <2>2. f[k] \in Loopstate /\ Passed(f[k], k, s, w)
    BY <1>1, <1>7
  <2>3. f[k + 1] \in Loopstate
    BY <2>1, <2>2, SkipType
  <2>4. Passed(f[k + 1], k + 1, s, w)
    BY <2>1, <2>2, SkipFacts
  <2> QED BY <2>3, <2>4
<1>8. Nat \subseteq P
  <2> HIDE DEF P
  <2> QED BY <1>6, <1>7, NatInd
<1> QED BY <1>1, <1>3, <1>8

LEMMA SubtractFacts ==
    ASSUME NEW have \in Seq(LineRange), NEW w \in Span
    PROVE  LET m == subtract(have, w)
               lacking == (w.start..w.end) \ Lines(have)
           IN  /\ m = <<>> => lacking = {}
               /\ m # <<>> => /\ m[1].start \in Int /\ m[1].end \in Int
                              /\ w.start <= m[1].start /\ m[1].start <= m[1].end /\ m[1].end <= w.end
                              /\ m[1].start..m[1].end \subseteq lacking
                              /\ m[1].end + 1 \notin lacking
                              /\ \A l \in lacking : m[1].start <= l
<1> DEFINE lacking == (w.start..w.end) \ Lines(have)
<1>1. PICK s \in Seq(LineRange) : s = normalize(have) /\ Normal(s) /\ Lines(s) = Lines(have)
  BY MergeFacts
<1>2. PICK a \in Loopstate : a = skipped(s, w) /\ Passed(a, Len(s), s, w)
  BY <1>1, SkippedFacts
<1>3. /\ a.cursor \in Int /\ a.missing \in Seq(Span) /\ w.start \in Int /\ w.end \in Int
  BY DEF Loopstate, Span
<1>4. \A l \in Int : l \in lacking <=> w.start <= l /\ l <= w.end /\ ~Covered(s, Len(s), l)
  BY <1>1, <1>3, LinesFacts
<1>5. lacking \subseteq Int
  BY <1>3
<1> DEFINE rest == [start |-> a.cursor, end |-> w.end]
<1>6. subtract(have, w) = IF a.cursor <= w.end THEN Append(a.missing, rest) ELSE a.missing
  BY <1>1, <1>2 DEF subtract
<1>7. rest \in Span /\ rest.start = a.cursor /\ rest.end = w.end
  BY <1>3 DEF Span
<1> HIDE DEF rest
<1>8. \A i \in 1..Len(s) : s[i].start \in Nat /\ s[i].end \in Nat
  <2>1. \A i \in 1..Len(s) : s[i] \in LineRange
    OBVIOUS
  <2> QED BY <2>1, RangeFacts
<1> HIDE DEF lacking
<1>9. ASSUME NEW g \in Span, FirstGap(g, s, w)
      PROVE  /\ g.start \in Int /\ g.end \in Int
             /\ w.start <= g.start /\ g.start <= g.end /\ g.end <= w.end
             /\ g.start..g.end \subseteq lacking
             /\ g.end + 1 \notin lacking
             /\ \A l \in lacking : g.start <= l
  <2>1. g.start \in Int /\ g.end \in Int
    BY DEF Span
  <2>2. /\ w.start <= g.start /\ g.start <= g.end /\ g.end <= w.end
        /\ \A l \in Int : g.start <= l /\ l <= g.end => ~Covered(s, Len(s), l)
        /\ \A l \in Int : w.start <= l /\ l < g.start => Covered(s, Len(s), l)
        /\ g.end = w.end \/ Covered(s, Len(s), g.end + 1)
    BY <1>9 DEF FirstGap
  <2>3. \A l \in g.start..g.end : l \in Int /\ w.start <= l /\ l <= w.end /\ ~Covered(s, Len(s), l)
    BY <1>3, <2>1, <2>2
  <2>4. g.end + 1 \in Int /\ (g.end = w.end => ~(g.end + 1 <= w.end))
    BY <1>3, <2>1
  <2>5. \A l \in lacking : g.start <= l
    <3> SUFFICES ASSUME NEW l \in lacking, ~(g.start <= l) PROVE FALSE
      OBVIOUS
    <3>1. l \in Int /\ l < g.start /\ w.start <= l /\ ~Covered(s, Len(s), l)
      BY <1>4, <1>5, <2>1
    <3> QED BY <2>2, <3>1
  <2> QED BY <1>4, <2>1, <2>2, <2>3, <2>4, <2>5
<1>10. CASE a.missing # <<>>
  <2>1. PICK g \in Span : g = a.missing[1] /\ FirstGap(g, s, w)
    <3>1. a.missing[1] \in Span
      BY <1>3, <1>10
    <3> QED BY <1>2, <1>10, <3>1 DEF Passed
  <2>2. subtract(have, w) # <<>> /\ subtract(have, w)[1] = g
    BY <1>3, <1>6, <1>7, <1>10, <2>1
  <2> QED BY <1>9, <2>1, <2>2 DEF lacking
<1>11. CASE a.missing = <<>> /\ a.cursor <= w.end
  <2>1. subtract(have, w) # <<>> /\ subtract(have, w)[1] = rest
    BY <1>6, <1>7, <1>11
  <2>2. FirstGap(rest, s, w)
    <3>1. w.start <= rest.start /\ rest.start <= rest.end /\ rest.end <= w.end
      BY <1>2, <1>3, <1>7, <1>11 DEF Passed
    <3>2. \A l \in Int : w.start <= l /\ l < rest.start => Covered(s, Len(s), l)
      <4> SUFFICES ASSUME NEW l \in Int, w.start <= l, l < rest.start PROVE Covered(s, Len(s), l)
        OBVIOUS
      <4>1. l <= w.end /\ l < a.cursor
        BY <1>3, <1>7, <1>11
      <4> QED BY <1>2, <1>11, <4>1 DEF Passed
    <3>3. \A l \in Int : rest.start <= l /\ l <= rest.end => ~Covered(s, Len(s), l)
      <4> SUFFICES ASSUME NEW l \in Int, rest.start <= l, l <= rest.end,
                          NEW i \in 1..Len(s), s[i].start <= l, l <= s[i].end
                   PROVE  FALSE
        BY DEF Covered
      <4>1. s[i].end < a.cursor \/ s[i].start > w.end \/ a.cursor > w.end
        BY <1>2, <1>11 DEF Passed
      <4> QED BY <1>3, <1>7, <1>8, <1>11, <4>1
    <3> QED BY <1>7, <3>1, <3>2, <3>3 DEF FirstGap
  <2> QED BY <1>7, <1>9, <2>1, <2>2 DEF lacking
<1>12. CASE a.missing = <<>> /\ ~(a.cursor <= w.end)
  <2>1. subtract(have, w) = <<>>
    BY <1>6, <1>12
  <2>2. lacking = {}
    <3> SUFFICES ASSUME NEW l \in lacking PROVE FALSE
      OBVIOUS
    <3>1. l \in Int /\ w.start <= l /\ l <= w.end /\ ~Covered(s, Len(s), l)
      BY <1>4, <1>5
    <3>2. l < a.cursor
      BY <1>3, <1>12, <3>1
    <3> QED BY <1>2, <1>12, <3>1, <3>2 DEF Passed
  <2> QED BY <2>1, <2>2 DEF lacking
<1> QED BY <1>10, <1>11, <1>12

----------------------------------------------------------------------------
(* How much a text changed is a natural number.                            *)

(* The table of longest common subsequences exists: it is filled row by    *)
(* row.                                                                    *)
LcsTable(f, a, b, n, m) ==
    f = [at \in (0..n) \X (0..m) |->
            IF at[1] = 0 \/ at[2] = 0 THEN 0
            ELSE IF a[at[1]] = b[at[2]] THEN f[<<at[1] - 1, at[2] - 1>>] + 1
                 ELSE Greatest(f[<<at[1] - 1, at[2]>>], f[<<at[1], at[2] - 1>>])]

LcsRow(prev, row, a, b, i, m) ==
    /\ row \in [0..m -> Nat] /\ row[0] = 0
    /\ \A j \in 1..m : row[j] = IF a[i] = b[j] THEN prev[j - 1] + 1
                                ELSE Greatest(prev[j], row[j - 1])

LEMMA GreatestNat ==
    ASSUME NEW x \in Nat, NEW y \in Nat
    PROVE  /\ Greatest(x, y) \in Nat
           /\ \A z \in Nat : Greatest(x, y) <= z <=> x <= z /\ y <= z
BY DEF Greatest

LEMMA LcsRowExists ==
    ASSUME NEW a, NEW b, NEW i, NEW m \in Nat, NEW prev \in [0..m -> Nat]
    PROVE  \E row : LcsRow(prev, row, a, b, i, m)
<1> DEFINE g == [x \in Nat \X (1..m) |->
                    IF a[i] = b[x[2]] THEN prev[x[2] - 1] + 1 ELSE Greatest(prev[x[2]], x[1])]
<1>1. g \in StepsOf(Nat, m)
  <2> SUFFICES ASSUME NEW t \in Nat, NEW j \in 1..m
               PROVE  (IF a[i] = b[j] THEN prev[j - 1] + 1 ELSE Greatest(prev[j], t)) \in Nat
    BY DEF StepsOf
  <2>1. j - 1 \in 0..m /\ j \in 0..m
    OBVIOUS
  <2>2. prev[j - 1] \in Nat /\ prev[j] \in Nat
    BY <2>1
  <2>3. prev[j - 1] + 1 \in Nat /\ Greatest(prev[j], t) \in Nat
    BY <2>2 DEF Greatest
  <2> QED BY <2>3
<1>2. PICK f \in [0..m -> Nat] : f[0] = 0 /\ \A j \in 1..m : f[j] = g[<<f[j - 1], j>>]
  <2> HIDE DEF g
  <2>1. Runs(Nat, m, 0, g) # {}
    BY <1>1, LoopExists
  <2> QED BY <2>1 DEF Runs
<1>3. \A j \in 1..m : f[j] = IF a[i] = b[j] THEN prev[j - 1] + 1 ELSE Greatest(prev[j], f[j - 1])
  <2> SUFFICES ASSUME NEW j \in 1..m
               PROVE  f[j] = IF a[i] = b[j] THEN prev[j - 1] + 1 ELSE Greatest(prev[j], f[j - 1])
    OBVIOUS
  <2>1. j - 1 \in 0..m
    OBVIOUS
  <2>2. f[j - 1] \in Nat
    BY <1>2, <2>1
  <2>3. g[<<f[j - 1], j>>] = IF a[i] = b[j] THEN prev[j - 1] + 1 ELSE Greatest(prev[j], f[j - 1])
    BY <2>2
  <2> HIDE DEF g
  <2> QED BY <1>2, <2>3
<1> HIDE DEF g
<1> QED BY <1>2, <1>3 DEF LcsRow

LEMMA LcsTableExists ==
    ASSUME NEW a, NEW b, NEW n \in Nat, NEW m \in Nat
    PROVE  \E f : LcsTable(f, a, b, n, m)
<1> DEFINE X == [0..m -> Nat]
           base == [j \in 0..m |-> 0]
           g == [x \in X \X (1..n) |-> CHOOSE row : LcsRow(x[1], row, a, b, x[2], m)]
<1>1. \A p \in X, i \in 1..n : g[<<p, i>>] \in X /\ LcsRow(p, g[<<p, i>>], a, b, i, m)
  <2> SUFFICES ASSUME NEW p \in X, NEW i \in 1..n
               PROVE  g[<<p, i>>] \in X /\ LcsRow(p, g[<<p, i>>], a, b, i, m)
    OBVIOUS
  <2>1. \E row : LcsRow(p, row, a, b, i, m)
    BY LcsRowExists
  <2>2. g[<<p, i>>] = CHOOSE row : LcsRow(p, row, a, b, i, m)
    OBVIOUS
  <2> HIDE DEF g, X
  <2>3. LcsRow(p, g[<<p, i>>], a, b, i, m)
    BY <2>1, <2>2, Zenon
  <2>4. g[<<p, i>>] \in X
    BY <2>3 DEF LcsRow, X
  <2> QED BY <2>3, <2>4
<1>2. g \in StepsOf(X, n)
  <2>1. g = [x \in X \X (1..n) |-> g[x]]
    OBVIOUS
  <2>2. \A x \in X \X (1..n) : g[x] \in X
    <3> SUFFICES ASSUME NEW p \in X, NEW i \in 1..n PROVE g[<<p, i>>] \in X
      <4> HIDE DEF g, X
      <4> QED OBVIOUS
    <3> HIDE DEF g, X
    <3> QED BY <1>1
  <2> HIDE DEF g, X
  <2> QED BY <2>1, <2>2 DEF StepsOf
<1>3. base \in X
  OBVIOUS
<1> HIDE DEF g
<1>4. PICK t \in [0..n -> X] : t[0] = base /\ \A i \in 1..n : t[i] = g[<<t[i - 1], i>>]
  <2> HIDE DEF X, base
  <2>1. Runs(X, n, base, g) # {}
    BY <1>2, <1>3, LoopExists
  <2> QED BY <2>1 DEF Runs
<1>5. \A i \in 1..n : LcsRow(t[i - 1], t[i], a, b, i, m)
  <2> SUFFICES ASSUME NEW i \in 1..n PROVE LcsRow(t[i - 1], t[i], a, b, i, m)
    OBVIOUS
  <2>1. i - 1 \in 0..n
    OBVIOUS
  <2> HIDE DEF X
  <2>2. t[i - 1] \in X
    BY <1>4, <2>1
  <2> QED BY <1>1, <1>4, <2>2
<1> DEFINE f == [at \in (0..n) \X (0..m) |-> t[at[1]][at[2]]]
<1>6. \A i \in 0..n, j \in 0..m : f[<<i, j>>] = t[i][j]
  OBVIOUS
<1>7. ASSUME NEW i \in 0..n, NEW j \in 0..m
      PROVE  t[i][j] = IF i = 0 \/ j = 0 THEN 0
                       ELSE IF a[i] = b[j] THEN f[<<i - 1, j - 1>>] + 1
                            ELSE Greatest(f[<<i - 1, j>>], f[<<i, j - 1>>])
  <2>1. CASE i = 0
    BY <1>4, <2>1
  <2>2. CASE i # 0 /\ j = 0
    <3>1. i \in 1..n
      BY <2>2
    <3> QED BY <1>5, <2>2, <3>1 DEF LcsRow
  <2>3. CASE i # 0 /\ j # 0
    <3>1. i \in 1..n /\ j \in 1..m /\ i - 1 \in 0..n /\ j - 1 \in 0..m
      BY <2>3
    <3>2. f[<<i - 1, j - 1>>] = t[i - 1][j - 1] /\ f[<<i - 1, j>>] = t[i - 1][j] /\ f[<<i, j - 1>>] = t[i][j - 1]
      BY <1>6, <3>1
    <3> HIDE DEF f
    <3>3. t[i][j] = IF a[i] = b[j] THEN t[i - 1][j - 1] + 1 ELSE Greatest(t[i - 1][j], t[i][j - 1])
      BY <1>5, <3>1 DEF LcsRow
    <3> QED BY <2>3, <3>2, <3>3, Zenon
  <2> QED BY <2>1, <2>2, <2>3
<1> DEFINE body(x) == IF x[1] = 0 \/ x[2] = 0 THEN 0
                      ELSE IF a[x[1]] = b[x[2]] THEN f[<<x[1] - 1, x[2] - 1>>] + 1
                           ELSE Greatest(f[<<x[1] - 1, x[2]>>], f[<<x[1], x[2] - 1>>])
<1>8. \A x \in (0..n) \X (0..m) : t[x[1]][x[2]] = body(x)
  <2> SUFFICES ASSUME NEW i \in 0..n, NEW j \in 0..m PROVE t[i][j] = body(<<i, j>>)
    <3> HIDE DEF body
    <3> QED OBVIOUS
  <2>1. body(<<i, j>>) = IF i = 0 \/ j = 0 THEN 0
                       ELSE IF a[i] = b[j] THEN f[<<i - 1, j - 1>>] + 1
                            ELSE Greatest(f[<<i - 1, j>>], f[<<i, j - 1>>])
    <3> HIDE DEF f
    <3> QED OBVIOUS
  <2> HIDE DEF f, body
  <2> QED BY <1>7, <2>1
<1>9. f = [at \in (0..n) \X (0..m) |-> body(at)]
  <2> HIDE DEF body
  <2> QED BY <1>8
<1> HIDE DEF f
<1>10. LcsTable(f, a, b, n, m)
  BY <1>9 DEF LcsTable
<1> QED BY <1>10

LEMMA CountChangedNat ==
    ASSUME NEW a, NEW b, Len(a) \in Nat, Len(b) \in Nat
    PROVE  countChangedLines(a, b) \in Nat
<1> DEFINE n == Len(a)
           m == Len(b)
<1>1. PICK f : LcsTable(f, a, b, n, m) /\ countChangedLines(a, b) = n + m - 2 * f[<<n, m>>]
  <2> DEFINE f == CHOOSE h : LcsTable(h, a, b, n, m)
  <2>1. LcsTable(f, a, b, n, m)
    BY LcsTableExists
  <2>2. countChangedLines(a, b) = n + m - 2 * f[<<n, m>>]
    BY Zenon DEF countChangedLines, LcsTable
  <2> HIDE DEF f
  <2> QED BY <2>1, <2>2
<1>2. \A i \in 0..n, j \in 0..m :
         f[<<i, j>>] = IF i = 0 \/ j = 0 THEN 0
                       ELSE IF a[i] = b[j] THEN f[<<i - 1, j - 1>>] + 1
                            ELSE Greatest(f[<<i - 1, j>>], f[<<i, j - 1>>])
  <2> HIDE DEF n, m
  <2> QED BY <1>1 DEF LcsTable
<1>3. n \in Nat /\ m \in Nat
  OBVIOUS
<1> HIDE DEF n, m
<1> DEFINE fits(i, j) == f[<<i, j>>] \in Nat /\ f[<<i, j>>] <= i /\ f[<<i, j>>] <= j
           P == {i \in Nat : i <= n => \A j \in 0..m : fits(i, j)}
<1>4. 0 \in P
  <2>1. \A j \in 0..m : f[<<0, j>>] = 0
    <3>1. 0 \in 0..n
      BY <1>3
    <3> QED BY <1>2, <3>1
  <2> QED BY <1>3, <2>1
<1>5. ASSUME NEW i \in Nat, i \in P PROVE i + 1 \in P
  <2> SUFFICES ASSUME i + 1 <= n PROVE \A j \in 0..m : fits(i + 1, j)
    OBVIOUS
  <2>1. \A j \in 0..m : fits(i, j)
    BY <1>3, <1>5
  <2> DEFINE Q == {j \in Nat : j <= m => fits(i + 1, j)}
  <2>2. 0 \in Q
    <3>1. f[<<i + 1, 0>>] = 0
      <4>1. i + 1 \in 0..n /\ 0 \in 0..m
        BY <1>3
      <4> QED BY <1>2, <4>1
    <3> QED BY <3>1
  <2>3. ASSUME NEW j \in Nat, j \in Q PROVE j + 1 \in Q
    <3> SUFFICES ASSUME j + 1 <= m PROVE fits(i + 1, j + 1)
      OBVIOUS
    <3>1. i + 1 \in 0..n /\ j + 1 \in 0..m /\ j \in 0..m /\ i + 1 # 0 /\ j + 1 # 0
          /\ (i + 1) - 1 = i /\ (j + 1) - 1 = j
      BY <1>3
    <3>2. f[<<i + 1, j + 1>>] = IF a[i + 1] = b[j + 1] THEN f[<<i, j>>] + 1
                                ELSE Greatest(f[<<i, j + 1>>], f[<<i + 1, j>>])
      BY <1>2, <3>1
    <3>3. fits(i, j) /\ fits(i, j + 1) /\ fits(i + 1, j)
      BY <1>3, <2>1, <2>3, <3>1
    <3> QED BY <3>2, <3>3 DEF Greatest
  <2>4. Nat \subseteq Q
    <3> HIDE DEF Q
    <3> QED BY <2>2, <2>3, NatInd
  <2> HIDE DEF fits
  <2> QED BY <2>4
<1>6. Nat \subseteq P
  <2> HIDE DEF P
  <2> QED BY <1>4, <1>5, NatInd
<1>7. fits(n, m)
  <2> HIDE DEF fits
  <2> QED BY <1>3, <1>6
<1> QED BY <1>1, <1>3, <1>7

LEMMA RemoveAtFacts ==
    ASSUME NEW S, NEW s \in Seq(S), NEW p \in 1..Len(s)
    PROVE  RemoveAt(s, p) \in Seq(S) /\ Len(RemoveAt(s, p)) = Len(s) - 1
<1> DEFINE u == SubSeq(s, 1, p - 1)
           v == SubSeq(s, p + 1, Len(s))
<1>1. Len(s) \in Nat /\ p \in Nat /\ 1 <= p /\ p <= Len(s) /\ \A i \in 1..Len(s) : s[i] \in S
  OBVIOUS
<1>2. /\ 1 \in Int /\ p - 1 \in Int /\ p + 1 \in Int /\ Len(s) \in Int
      /\ \A i \in 1..(p - 1) : s[i] \in S
      /\ \A i \in (p + 1)..Len(s) : s[i] \in S
  BY <1>1
<1>3. u \in Seq(S) /\ Len(u) = IF 1 <= p - 1 THEN p - 1 - 1 + 1 ELSE 0
  <2> DEFINE k == p - 1
  <2>1. k \in Int /\ \A i \in 1..k : s[i] \in S
    BY <1>2
  <2> HIDE DEF k
  <2>2. /\ SubSeq(s, 1, k) \in Seq(S)
        /\ Len(SubSeq(s, 1, k)) = IF 1 <= k THEN k - 1 + 1 ELSE 0
    BY <2>1, SubSeqProperties
  <2> QED BY <2>2 DEF k
<1>4. v \in Seq(S) /\ Len(v) = IF p + 1 <= Len(s) THEN Len(s) - (p + 1) + 1 ELSE 0
  <2> DEFINE q == p + 1
             n == Len(s)
  <2>1. q \in Int /\ n \in Int /\ \A i \in q..n : s[i] \in S
    BY <1>2
  <2> HIDE DEF q, n
  <2>2. /\ SubSeq(s, q, n) \in Seq(S)
        /\ Len(SubSeq(s, q, n)) = IF q <= n THEN n - q + 1 ELSE 0
    BY <2>1, SubSeqProperties
  <2> QED BY <2>2 DEF q, n
<1>5. RemoveAt(s, p) = u \o v
  BY Zenon DEF RemoveAt
<1> HIDE DEF u, v
<1>6. u \o v \in Seq(S) /\ Len(u \o v) = Len(u) + Len(v)
  <2>1. u \in Seq(S) /\ v \in Seq(S)
    BY <1>3, <1>4
  <2> QED BY <2>1
<1>7. Len(u) = p - 1 /\ Len(v) = Len(s) - p
  BY <1>1, <1>3, <1>4
<1> QED BY <1>1, <1>5, <1>6, <1>7

LEMMA RemoveFirstFacts ==
    ASSUME NEW S, NEW s \in Seq(S), NEW e
    PROVE  /\ RemoveFirst(s, e) \in Seq(S)
           /\ Len(RemoveFirst(s, e)) = Len(s) \/ Len(RemoveFirst(s, e)) = Len(s) - 1
<1>1. Len(s) \in Nat
  OBVIOUS
<1>2. CASE \E i \in 1..Len(s) : s[i] = e
  <2> DEFINE T == {i \in 1..Len(s) : s[i] = e}
  <2>1. T # {} /\ T \subseteq Nat
    BY <1>1, <1>2
  <2>2. \E x \in T : \A y \in T : x <= y
    BY <2>1, LeastNat
  <2>3. Min(T) \in T
    <3> HIDE DEF T
    <3> QED BY <2>2, Zenon DEF Min
  <2>4. SelectInSeq(s, LAMBDA v : v = e) = Min(T)
    BY <2>1, Zenon DEF SelectInSeq
  <2>5. PICK p \in 1..Len(s) : p = SelectInSeq(s, LAMBDA v : v = e)
    BY <2>3, <2>4
  <2>6. RemoveFirst(s, e) = RemoveAt(s, p)
    BY <1>2, <2>5, Zenon DEF RemoveFirst
  <2>7. RemoveAt(s, p) \in Seq(S) /\ Len(RemoveAt(s, p)) = Len(s) - 1
    BY RemoveAtFacts
  <2> QED BY <2>6, <2>7
<1>3. CASE ~\E i \in 1..Len(s) : s[i] = e
  BY <1>3, Zenon DEF RemoveFirst
<1> QED BY <1>2, <1>3

LEMMA CountDeltaNat ==
    ASSUME NEW T, NEW a \in Seq(T), NEW b, Len(b) \in Nat
    PROVE  countDelta(a, b) \in Nat
<1>1. Len(a) \in Nat /\ Len(b) \in Nat
  OBVIOUS
<1> DEFINE n == Len(b)
           Loop(f) == f = [i \in 0..n |-> IF i = 0 THEN a ELSE RemoveFirst(f[i - 1], b[i])]
<1>2. \E f : Loop(f)
  <2> DEFINE A == Seq(T)
             g == [x \in A \X (1..n) |-> RemoveFirst(x[1], b[x[2]])]
  <2>1. g \in StepsOf(A, n)
    <3> SUFFICES ASSUME NEW t \in A, NEW i \in 1..n PROVE RemoveFirst(t, b[i]) \in A
      BY DEF StepsOf
    <3> QED BY RemoveFirstFacts
  <2>2. a \in A
    OBVIOUS
  <2> HIDE DEF A
  <2>3. PICK f \in [0..n -> A] : f[0] = a /\ \A i \in 1..n : f[i] = g[<<f[i - 1], i>>]
    <3>1. n \in Nat
      BY <1>1
    <3> HIDE DEF g, n
    <3>2. Runs(A, n, a, g) # {}
      BY <3>1, <2>1, <2>2, LoopExists
    <3> QED BY <3>2 DEF Runs
  <2>4. \A i \in 1..n : f[i] = RemoveFirst(f[i - 1], b[i])
    <3> SUFFICES ASSUME NEW i \in 1..n PROVE f[i] = RemoveFirst(f[i - 1], b[i])
      OBVIOUS
    <3>1. i - 1 \in 0..n
      BY <1>1
    <3>2. f[i - 1] \in A
      BY <2>3, <3>1
    <3> QED BY <2>3, <3>2
  <2>5. Loop(f)
    <3> HIDE DEF n, g
    <3> QED BY <1>1, <2>3, <2>4
  <2> QED BY <2>5
<1>3. PICK f : Loop(f) /\ countDelta(a, b) = Len(a) + Len(b) - 2 * (Len(a) - Len(f[n]))
  <2> DEFINE f == CHOOSE h : Loop(h)
  <2>1. Loop(f)
    BY <1>2
  <2>2. countDelta(a, b) = Len(a) + Len(b) - 2 * (Len(a) - Len(f[n]))
    BY Zenon DEF countDelta
  <2> QED BY <2>1, <2>2
<1>4. f[0] = a /\ \A i \in 1..n : f[i] = RemoveFirst(f[i - 1], b[i])
  <2>1. n \in Nat
    BY <1>1
  <2> HIDE DEF n
  <2> QED BY <2>1, <1>3
<1> HIDE DEF Loop
<1> DEFINE P == {k \in Nat : k <= n => /\ f[k] \in Seq(T)
                                      /\ Len(a) - k <= Len(f[k]) /\ Len(f[k]) <= Len(a)}
<1>5. 0 \in P
  BY <1>1, <1>4
<1>6. ASSUME NEW k \in Nat, k \in P PROVE k + 1 \in P
  <2> SUFFICES ASSUME k + 1 <= n
               PROVE  /\ f[k + 1] \in Seq(T)
                      /\ Len(a) - (k + 1) <= Len(f[k + 1]) /\ Len(f[k + 1]) <= Len(a)
    OBVIOUS
  <2>1. k + 1 \in 1..n /\ f[k + 1] = RemoveFirst(f[k], b[k + 1])
    BY <1>1, <1>4
  <2>2. PICK t \in Seq(T) : t = f[k] /\ Len(a) - k <= Len(t) /\ Len(t) <= Len(a)
    BY <1>1, <1>6
  <2>3. PICK u \in Seq(T) : u = f[k + 1] /\ (Len(u) = Len(t) \/ Len(u) = Len(t) - 1)
    BY <2>1, <2>2, RemoveFirstFacts
  <2>4. Len(t) \in Nat /\ Len(u) \in Nat
    OBVIOUS
  <2> QED BY <1>1, <2>2, <2>3, <2>4
<1>7. Nat \subseteq P
  <2> HIDE DEF P
  <2> QED BY <1>5, <1>6, NatInd
<1>8. PICK t \in Seq(T) : t = f[n] /\ Len(a) - n <= Len(t) /\ Len(t) <= Len(a)
  BY <1>1, <1>7
<1>9. Len(t) \in Nat
  OBVIOUS
<1> QED BY <1>1, <1>3, <1>8, <1>9

(* So are the lines of a mount that changed.                               *)
LEMMA SliceNat ==
    ASSUME NEW T, NEW c \in Seq(T), NEW r \in [start : Nat, end : Nat], 1 <= r.start
    PROVE  Len(sliceText(c, r)) \in Nat
<1>1. /\ Len(c) \in Nat /\ r.start \in Nat /\ r.end \in Nat
      /\ \A i \in 1..Len(c) : c[i] \in T
  OBVIOUS
<1> DEFINE m == r.start
           k == Least(r.end, Len(c))
<1>2. m \in Int /\ k \in Int /\ k <= Len(c) /\ 1 <= m
  BY <1>1 DEF Least
<1> HIDE DEF m, k
<1>3. \A i \in m..k : c[i] \in T
  BY <1>1, <1>2
<1>4. Len(SubSeq(c, m, k)) = IF m <= k THEN k - m + 1 ELSE 0
  BY <1>2, <1>3, SubSeqProperties
<1>5. Len(SubSeq(c, m, k)) \in Nat
  BY <1>2, <1>4
<1> QED BY <1>5 DEF sliceText, m, k

LEMMA ChangedLinesNat ==
    ASSUME NEW T, NEW a \in Seq(T), NEW b \in Seq(T), NEW r \in LineRange
    PROVE  changedLines(r, a, b) \in Nat
<1>1. /\ r.start \in Nat /\ r.end \in Nat /\ 1 <= r.start /\ r.start <= r.end
      /\ Len(b) \in Nat /\ r \in [start : Nat, end : Nat]
  BY RangeFacts, MountsAssumption DEF LineRange, LineNos
<1>2. CASE Kept(r, Len(b))
  <2>1. clamp(r, Len(b)) \in [start : Nat, end : Nat] /\ clamp(r, Len(b)).start = r.start
    BY <1>1 DEF clamp, Least
  <2>2. Len(sliceText(a, r)) \in Nat /\ Len(sliceText(b, clamp(r, Len(b)))) \in Nat
    BY <1>1, <2>1, SliceNat
  <2>3. countChangedLines(sliceText(a, r), sliceText(b, clamp(r, Len(b)))) \in Nat
    BY <2>2, CountChangedNat
  <2> QED BY <1>2, <2>3, Zenon DEF changedLines
<1>3. CASE ~Kept(r, Len(b))
  BY <1>1, <1>3 DEF changedLines
<1> QED BY <1>2, <1>3

LEMMA ChangedLinesOfNat ==
    ASSUME NEW T, NEW a \in Seq(T), NEW b \in Seq(T), NEW s \in Seq(LineRange)
    PROVE  changedLinesOf(s, a, b) \in Nat
<1>1. Len(s) \in Nat /\ \A i \in 1..Len(s) : s[i] \in LineRange
  OBVIOUS
<1> DEFINE n == Len(s)
           Loop(f) == f = [i \in 0..n |-> IF i = 0 THEN 0 ELSE f[i - 1] + changedLines(s[i], a, b)]
<1>2. \E f : Loop(f)
  <2> DEFINE A == Nat
             g == [x \in A \X (1..n) |-> x[1] + changedLines(s[x[2]], a, b)]
  <2>1. g \in StepsOf(A, n)
    <3> SUFFICES ASSUME NEW t \in A, NEW i \in 1..n PROVE t + changedLines(s[i], a, b) \in A
      BY DEF StepsOf
    <3>1. changedLines(s[i], a, b) \in Nat
      BY <1>1, ChangedLinesNat
    <3> QED BY <3>1
  <2>2. 0 \in A
    OBVIOUS
  <2> HIDE DEF A
  <2>3. PICK f \in [0..n -> A] : f[0] = 0 /\ \A i \in 1..n : f[i] = g[<<f[i - 1], i>>]
    <3>1. n \in Nat
      BY <1>1
    <3> HIDE DEF g, n
    <3>2. Runs(A, n, 0, g) # {}
      BY <3>1, <2>1, <2>2, LoopExists
    <3> QED BY <3>2 DEF Runs
  <2>4. \A i \in 1..n : f[i] = f[i - 1] + changedLines(s[i], a, b)
    <3> SUFFICES ASSUME NEW i \in 1..n PROVE f[i] = f[i - 1] + changedLines(s[i], a, b)
      OBVIOUS
    <3>1. i - 1 \in 0..n
      BY <1>1
    <3>2. f[i - 1] \in A
      BY <2>3, <3>1
    <3> QED BY <2>3, <3>2
  <2>5. Loop(f)
    <3> HIDE DEF n, g
    <3> QED BY <1>1, <2>3, <2>4
  <2> QED BY <2>5
<1>3. PICK f : Loop(f) /\ changedLinesOf(s, a, b) = f[n]
  <2> DEFINE f == CHOOSE h : Loop(h)
  <2>1. Loop(f)
    BY <1>2
  <2>2. changedLinesOf(s, a, b) = f[n]
    BY Zenon DEF changedLinesOf
  <2> QED BY <2>1, <2>2
<1>4. f[0] = 0 /\ \A i \in 1..n : f[i] = f[i - 1] + changedLines(s[i], a, b)
  <2>1. n \in Nat
    BY <1>1
  <2> HIDE DEF n
  <2> QED BY <2>1, <1>3
<1> HIDE DEF Loop
<1>5. \A i \in 1..n : changedLines(s[i], a, b) \in Nat
  BY <1>1, ChangedLinesNat
<1> DEFINE P == {k \in Nat : k <= n => f[k] \in Nat}
<1>6. 0 \in P
  BY <1>4
<1>7. ASSUME NEW k \in Nat, k \in P PROVE k + 1 \in P
  <2> SUFFICES ASSUME k + 1 <= n PROVE f[k + 1] \in Nat
    OBVIOUS
  <2>1. k + 1 \in 1..n /\ f[k] \in Nat
    BY <1>1, <1>7
  <2>2. f[k + 1] = f[k] + changedLines(s[k + 1], a, b)
    BY <1>4, <2>1
  <2> QED BY <1>5, <2>1, <2>2
<1>8. Nat \subseteq P
  <2> HIDE DEF P
  <2> QED BY <1>6, <1>7, NatInd
<1> QED BY <1>1, <1>3, <1>8

----------------------------------------------------------------------------
(* The values of the handlers.                                             *)

LEMMA ContentFacts ==
    ASSUME NEW c \in Contents
    PROVE  /\ c \in Seq(Texts) /\ DOMAIN c = 1..Len(c)
           /\ Len(c) \in Nat /\ 1 <= Len(c) /\ Len(c) <= MaxLines /\ MaxLines \in Nat
           /\ \A l \in DOMAIN c : l \in LineNos /\ c[l] \in Texts
           /\ c # None /\ c # NoFile
<1>1. c \in Seq(Range(c)) /\ c # <<>> /\ Len(c) <= MaxLines /\ MaxLines \in Nat
  BY MountsAssumption
<1>2. c \in [1..Len(c) -> Range(c)] /\ Len(c) \in Nat /\ DOMAIN c = 1..Len(c) /\ Len(c) # 0
  BY <1>1
<1>3. \A x \in Range(c) : x \in Texts
  BY DEF Texts
<1>4. \A l \in 1..Len(c) : c[l] \in Texts
  <2> SUFFICES ASSUME NEW l \in 1..Len(c) PROVE c[l] \in Texts
    OBVIOUS
  <2>1. c[l] \in Range(c)
    BY <1>2
  <2> QED BY <1>3, <2>1
<1>5. c \in Seq(Texts)
  <2>1. c = [l \in 1..Len(c) |-> c[l]]
    BY <1>2
  <2>2. c \in [1..Len(c) -> Texts]
    BY <1>4, <2>1
  <2> QED BY <1>2, <2>2, SeqDef
<1>6. c # None /\ c # NoFile
  BY NoneAssumption
<1> QED BY <1>1, <1>2, <1>4, <1>5, <1>6 DEF LineNos

LEMMA InputFacts ==
    ASSUME NEW i, i \in [offset : Int, limit : Int], NEW n \in Nat
    PROVE  /\ rangeFromInput(i, n) \in Span
           /\ 1 <= rangeFromInput(i, n).start /\ rangeFromInput(i, n).end <= n
BY DEF rangeFromInput, Span, Greatest, Least, NoNum

LEMMA GotFacts ==
    ASSUME NEW call \in Call, call.text \in Contents, NEW n \in Nat, n <= MaxLines
    PROVE  LET got == Got(call, n)
           IN  /\ got.start = Start(call.input) /\ 1 <= got.start
               /\ got \in [start : Nat, end : Int] /\ got.end <= MaxLines
               /\ got.start <= got.end => got \in LineRange
<1>1. call.input \in [offset : Int, limit : Int] /\ Len(call.text) \in Nat /\ Len(call.text) <= MaxLines
      /\ MaxLines \in Nat /\ MaxOutput \in Nat
  BY ContentFacts, MountsAssumption DEF Call
<1>2. call.input.offset \in Int /\ call.input.limit \in Int
  BY <1>1
<1>3. Start(call.input) \in Int /\ 1 <= Start(call.input)
  BY <1>2 DEF Start, Greatest
<1>4. Selected(call) \in Int /\ Selected(call) <= MaxLines
  <2>1. rangeFromInput(call.input, Len(call.text)) \in Span
        /\ rangeFromInput(call.input, Len(call.text)).end <= Len(call.text)
    BY <1>1, InputFacts
  <2>2. Selected(call) = rangeFromInput(call.input, Len(call.text)).end
    BY DEF Selected
  <2>3. \A r \in Span : r.end \in Int
    BY DEF Span
  <2> QED BY <1>1, <2>1, <2>2, <2>3
<1>5. Output(call).end \in Int /\ Output(call).end <= MaxLines
  BY <1>1, <1>3, <1>4 DEF Output, Least
<1> DEFINE end == IF Truncated(call) THEN Output(call).end
                  ELSE IF call.input.limit # NoNum
                       THEN Start(call.input) + Least(Greatest(0, call.input.limit), n - Start(call.input) + 1) - 1
                       ELSE n
<1>6. end \in Int /\ end <= MaxLines
  <2>1. LET e == Start(call.input) + Least(Greatest(0, call.input.limit), n - Start(call.input) + 1) - 1
        IN  e \in Int /\ e <= n
    BY <1>2, <1>3 DEF Least, Greatest
  <2> QED BY <1>1, <1>5, <2>1
<1>7. Got(call, n) = [start |-> Start(call.input), end |-> end]
  BY Zenon DEF Got
<1> HIDE DEF end
<1>8. Start(call.input) <= end => [start |-> Start(call.input), end |-> end] \in LineRange
  BY <1>3, <1>6, RangeOf
<1> QED BY <1>3, <1>6, <1>7, <1>8

LEMMA ShowFacts ==
    ASSUME NEW on \in [LineNos -> Texts \cup {None}], NEW text \in Contents, NEW r
    PROVE  Show(on, text, r) \in [LineNos -> Texts \cup {None}]
BY ContentFacts DEF Show

LEMMA UnitFacts ==
    ASSUME NEW s \in Seq(LineRange), NEW r \in LineRange, Len(s) = 1, s[1] = r
    PROVE  Normal(s) /\ Lines(s) = r.start..r.end
<1>1. Normal(s)
  BY NormalOf
<1>2. \A l : l \in Lines(s) <=> l \in Int /\ r.start <= l /\ l <= r.end
  BY LinesFacts DEF Covered
<1>3. r.start \in Int /\ r.end \in Int
  BY RangeFacts
<1>4. \A l : l \in r.start..r.end <=> l \in Int /\ r.start <= l /\ l <= r.end
  BY <1>3
<1>5. Lines(s) = r.start..r.end
  BY <1>2, <1>4, Zenon
<1> QED BY <1>1, <1>5

LEMMA NoRangeFacts ==
    ASSUME NEW s \in Seq(LineRange), Len(s) = 0
    PROVE  Normal(s) /\ Lines(s) = {}
<1>1. 1..Len(s) = {} /\ 1..(Len(s) - 1) = {}
  OBVIOUS
<1>2. Normal(s)
  BY <1>1, NormalOf
<1>3. \A l : ~Covered(s, Len(s), l)
  BY <1>1 DEF Covered
<1>4. \A l : l \notin Lines(s)
  BY <1>3, LinesFacts, Zenon
<1> QED BY <1>2, <1>4, Zenon

LEMMA WithinFacts ==
    ASSUME NEW r \in LineRange, NEW n \in Nat
    PROVE  /\ Within(r, n) \in Seq(LineRange) /\ Normal(Within(r, n))
           /\ Lines(Within(r, n)) = IF r.end <= n THEN r.start..r.end ELSE {}
<1>1. CASE r.end <= n
  <2>1. <<r>> \in Seq(LineRange) /\ Len(<<r>>) = 1 /\ <<r>>[1] = r
    OBVIOUS
  <2>2. Normal(<<r>>) /\ Lines(<<r>>) = r.start..r.end
    BY <2>1, UnitFacts
  <2>3. Within(r, n) = <<r>>
    BY <1>1 DEF Within
  <2> QED BY <1>1, <2>1, <2>2, <2>3
<1>2. CASE ~(r.end <= n)
  <2>1. <<>> \in Seq(LineRange) /\ Len(<<>>) = 0
    OBVIOUS
  <2>2. Normal(<<>>) /\ Lines(<<>>) = {}
    BY <2>1, NoRangeFacts
  <2>3. Within(r, n) = <<>>
    BY <1>2 DEF Within
  <2> QED BY <1>2, <2>1, <2>2, <2>3
<1> QED BY <1>1, <1>2

LEMMA JoinFacts ==
    ASSUME NEW s \in Seq(LineRange), NEW t \in Seq(LineRange)
    PROVE  s \o t \in Seq(LineRange) /\ Lines(s \o t) = Lines(s) \cup Lines(t)
<1>1. PICK u \in Seq(LineRange) : /\ u = s \o t /\ Len(u) = Len(s) + Len(t)
                                 /\ \A i \in 1..Len(s) : u[i] = s[i]
                                 /\ \A j \in 1..Len(t) : u[Len(s) + j] = t[j]
  <2>1. s \o t \in Seq(LineRange) /\ Len(s \o t) = Len(s) + Len(t)
        /\ \A i \in 1..(Len(s) + Len(t)) : (s \o t)[i] = IF i <= Len(s) THEN s[i] ELSE t[i - Len(s)]
    OBVIOUS
  <2>2. Len(s) \in Nat /\ Len(t) \in Nat
    OBVIOUS
  <2>3. \A i \in 1..Len(s) : (s \o t)[i] = s[i]
    BY <2>1, <2>2
  <2>4. \A i \in 1..Len(t) : (s \o t)[Len(s) + i] = t[i]
    BY <2>1, <2>2
  <2> QED BY <2>1, <2>3, <2>4
<1>2. Len(s) \in Nat /\ Len(t) \in Nat
  OBVIOUS
<1>3. \A l \in Int : Covered(u, Len(u), l) <=> Covered(s, Len(s), l) \/ Covered(t, Len(t), l)
  <2> SUFFICES ASSUME NEW l \in Int
               PROVE  Covered(u, Len(u), l) <=> Covered(s, Len(s), l) \/ Covered(t, Len(t), l)
    OBVIOUS
  <2>1. Covered(s, Len(s), l) => Covered(u, Len(u), l)
    <3> SUFFICES ASSUME NEW i \in 1..Len(s), s[i].start <= l, l <= s[i].end PROVE Covered(u, Len(u), l)
      BY DEF Covered
    <3>1. i \in 1..Len(u) /\ u[i] = s[i]
      BY <1>1, <1>2
    <3> QED BY <3>1 DEF Covered
  <2>2. Covered(t, Len(t), l) => Covered(u, Len(u), l)
    <3> SUFFICES ASSUME NEW i \in 1..Len(t), t[i].start <= l, l <= t[i].end PROVE Covered(u, Len(u), l)
      BY DEF Covered
    <3>1. Len(s) + i \in 1..Len(u) /\ u[Len(s) + i] = t[i]
      BY <1>1, <1>2
    <3> QED BY <3>1 DEF Covered
  <2>3. Covered(u, Len(u), l) => Covered(s, Len(s), l) \/ Covered(t, Len(t), l)
    <3> SUFFICES ASSUME NEW i \in 1..Len(u), u[i].start <= l, l <= u[i].end
                 PROVE  Covered(s, Len(s), l) \/ Covered(t, Len(t), l)
      BY DEF Covered
    <3>1. CASE i <= Len(s)
      BY <1>1, <1>2, <3>1 DEF Covered
    <3>2. CASE ~(i <= Len(s))
      <4>1. i - Len(s) \in 1..Len(t) /\ Len(s) + (i - Len(s)) = i
        BY <1>1, <1>2, <3>2
      <4>2. u[i] = t[i - Len(s)]
        BY <1>1, <4>1
      <4> QED BY <4>1, <4>2 DEF Covered
    <3> QED BY <3>1, <3>2
  <2> QED BY <2>1, <2>2, <2>3
<1> QED BY <1>1, <1>3, LinesFacts

----------------------------------------------------------------------------
(* The inductive invariant of the mount: plugins are lists of ranges in    *)
(* normal form wherever one is kept, a call that mounts knows the hash it  *)
(* was prepared with, and one that waits for its second look at the file   *)
(* holds the plugin it read, the output of the tool and a range of lines.  *)

Mounting == {"increment", "updated", "new"}

GoodPlugin == {p \in Plugin : Normal(p.segments)}

GoodCall(call) ==
    /\ call \in Call
    /\ call.kind \in Mounting => call.hash \in Contents
    /\ call.pc = "idle" => call.kind = "native"
    /\ call.pc = "ran" => call.text # None
    /\ call.pc = "reread" =>
          /\ call.kind \in Mounting /\ call.text \in Contents
          /\ call.existing \in GoodPlugin /\ call.got \in LineRange

WorldOK == disk \in Contents \cup {NoFile} /\ past \subseteq Contents /\ edits \in 0..MaxEdits

KeptOK ==
    /\ cached \in Contents \cup {None} /\ anchorHash \in Contents \cup {None}
    /\ retired \in BOOLEAN /\ scanPending \in BOOLEAN
    /\ phase \in {"idle", "scan", "delta", "tools", "run"}

PluginsOK == {store, persisted} \subseteq GoodPlugin \cup {None}

CallsOK == calls \in [Calls -> Call] /\ \A c \in Calls : GoodCall(calls[c])

GhostsOK ==
    /\ shown \in [LineNos -> Texts \cup {None}]
    /\ mounted \subseteq LineNos
    /\ rebased \in BOOLEAN /\ clobbered \in BOOLEAN
    /\ request \in [told : BOOLEAN, outdated : BOOLEAN, rebased : BOOLEAN]

Exact == store # None /\ ~clobbered => Lines(store.segments) = mounted

Sound == WorldOK /\ KeptOK /\ PluginsOK /\ CallsOK /\ GhostsOK /\ Exact

LEMMA SegmentsFacts ==
    ASSUME NEW R, NEW s \in Seq(R), R \subseteq [start : LineNos, end : LineNos], Normal(s)
    PROVE  s \in Seq(LineRange)
<1>1. Len(s) \in Nat /\ s = [i \in 1..Len(s) |-> s[i]] /\ DOMAIN s = 1..Len(s)
      /\ \A i \in 1..Len(s) : s[i] \in R
  OBVIOUS
<1>2. \A i \in 1..Len(s) : s[i] \in LineRange
  <2> SUFFICES ASSUME NEW i \in 1..Len(s) PROVE s[i] \in LineRange
    OBVIOUS
  <2>1. s[i].start <= s[i].end
    BY <1>1 DEF Normal
  <2> QED BY <1>1, <2>1 DEF LineRange
<1>3. s \in [1..Len(s) -> LineRange]
  BY <1>1, <1>2
<1> QED BY <1>1, <1>3, SeqDef

LEMMA GoodPluginFacts ==
    ASSUME NEW p \in GoodPlugin
    PROVE  /\ p # None /\ p \in Plugin /\ p.segments \in Seq(LineRange) /\ Normal(p.segments)
           /\ p.hash \in Contents /\ p.lineHashes \in Contents /\ p.pendingMemoryLines \in Nat
<1>1. /\ p \in Plugin /\ Normal(p.segments)
      /\ p.segments \in Seq([start : LineNos, end : LineNos])
      /\ p.hash \in Contents /\ p.lineHashes \in Contents /\ p.pendingMemoryLines \in Nat
  BY DEF GoodPlugin, Plugin
<1>2. p # None
  BY <1>1, NoneAssumption
<1> QED BY <1>1, <1>2, SegmentsFacts

LEMMA PluginOf ==
    ASSUME NEW h \in Contents, NEW s \in Seq(LineRange), Normal(s), NEW k \in Nat, NEW t \in Contents
    PROVE  LET p == [hash |-> h, segments |-> s, pendingMemoryLines |-> k, lineHashes |-> t]
           IN  p \in GoodPlugin /\ p.segments = s
<1>1. LineRange \subseteq [start : LineNos, end : LineNos]
  BY DEF LineRange
<1>2. s \in Seq([start : LineNos, end : LineNos])
  BY <1>1, SeqMonotonic
<1> QED BY <1>2 DEF GoodPlugin, Plugin

LEMMA IdleFacts == GoodCall(Idle) /\ Idle.pc = "idle" /\ Idle.kind = "native"
<1>1. Idle \in Call
  BY DEF Idle, Call, Kinds, NoNum
<1> QED BY <1>1 DEF GoodCall, Idle, Mounting

LEMMA CallChange ==
    ASSUME CallsOK, NEW c \in Calls, NEW call, GoodCall(call),
           NEW f, f = [calls EXCEPT ![c] = call]
    PROVE  /\ f \in [Calls -> Call]
           /\ \A d \in Calls : GoodCall(f[d])
           /\ f[c] = call /\ \A d \in Calls \ {c} : f[d] = calls[d]
<1>1. call \in Call
  BY DEF GoodCall
<1> QED BY <1>1 DEF CallsOK

LEMMA CallsKept ==
    ASSUME CallsOK, UNCHANGED calls
    PROVE  CallsOK'
BY DEF CallsOK

LEMMA SoundInit == Init => Sound
<1> SUFFICES ASSUME Init PROVE Sound
  OBVIOUS
<1> USE DEF Init
<1>1. WorldOK
  BY MountsAssumption DEF WorldOK
<1>2. KeptOK
  BY DEF KeptOK
<1>3. PluginsOK
  BY DEF PluginsOK
<1>4. CallsOK
  <2>1. Idle \in Call
    BY IdleFacts DEF GoodCall
  <2>2. \A c \in Calls : calls[c] = Idle
    OBVIOUS
  <2> QED BY <2>1, <2>2, IdleFacts DEF CallsOK
<1>5. GhostsOK
  BY DEF GhostsOK, Nothing, NoRequest
<1>6. Exact
  BY DEF Exact
<1> QED BY <1>1, <1>2, <1>3, <1>4, <1>5, <1>6 DEF Sound

LEMMA GetKept ==
    ASSUME WorldOK, Get
    PROVE  cached' \in Contents \cup {None}
BY DEF WorldOK, Get

LEMMA SoundWorld ==
    ASSUME Sound, Delete \/ \E c \in Contents : Edit(c)
    PROVE  Sound'
<1>1. UNCHANGED <<harness, calls, phase, ghosts>>
  BY DEF Delete, Edit
<1>2. WorldOK'
  <2>1. edits \in 0..MaxEdits /\ MaxEdits \in Nat /\ edits' = edits + 1 /\ edits < MaxEdits
    BY MountsAssumption DEF Sound, WorldOK, Delete, Edit
  <2>2. edits' \in 0..MaxEdits
    BY <2>1
  <2>3. disk' \in Contents \cup {NoFile} /\ past' \subseteq Contents
    BY DEF Sound, WorldOK, Delete, Edit
  <2> QED BY <2>2, <2>3 DEF WorldOK
<1>3. KeptOK'
  BY <1>1 DEF Sound, KeptOK, harness
<1>4. PluginsOK'
  BY <1>1 DEF Sound, PluginsOK, harness
<1>5. CallsOK'
  BY <1>1, CallsKept DEF Sound
<1>6. GhostsOK'
  BY <1>1 DEF Sound, GhostsOK, ghosts
<1>7. Exact'
  BY <1>1 DEF Sound, Exact, ghosts, harness
<1> QED BY <1>2, <1>3, <1>4, <1>5, <1>6, <1>7 DEF Sound

(* A turn, a prompt, the scan that finds nothing and the delta leave the   *)
(* mount alone.                                                            *)
LEMMA SoundTurn ==
    ASSUME Sound, Prompt \/ NoScan \/ buildMountDelta \/ NextTurn \/ onAgentSettled
    PROVE  Sound'
<1>1. UNCHANGED <<world, store, anchorHash, retired, persisted, calls, shown, mounted, rebased, clobbered>>
  BY DEF Prompt, NoScan, buildMountDelta, NextTurn, onAgentSettled, harness, ghosts, world
<1>2. WorldOK'
  BY <1>1 DEF Sound, WorldOK, world
<1>3. cached' \in Contents \cup {None}
  BY GetKept DEF Sound, KeptOK, Prompt, NoScan, buildMountDelta, NextTurn, onAgentSettled, harness
<1>4. scanPending' \in BOOLEAN /\ phase' \in {"idle", "scan", "delta", "tools", "run"}
  BY DEF Sound, KeptOK, Prompt, NoScan, buildMountDelta, NextTurn, onAgentSettled, harness
<1>5. KeptOK'
  BY <1>1, <1>3, <1>4 DEF Sound, KeptOK
<1>6. PluginsOK'
  BY <1>1 DEF Sound, PluginsOK
<1>7. CallsOK'
  BY <1>1, CallsKept DEF Sound
<1>8. request' \in [told : BOOLEAN, outdated : BOOLEAN, rebased : BOOLEAN]
  <2>1. HasDelta \in BOOLEAN /\ Outdated \in BOOLEAN /\ rebased \in BOOLEAN
    BY DEF HasDelta, Outdated, Sound, GhostsOK
  <2>2. NoRequest \in [told : BOOLEAN, outdated : BOOLEAN, rebased : BOOLEAN]
    BY DEF NoRequest
  <2>3. [told |-> HasDelta, outdated |-> Outdated, rebased |-> rebased]
        \in [told : BOOLEAN, outdated : BOOLEAN, rebased : BOOLEAN]
    <3> HIDE DEF HasDelta, Outdated
    <3> QED BY <2>1
  <2> QED BY <2>2, <2>3
          DEF Sound, GhostsOK, Prompt, NoScan, buildMountDelta, NextTurn, onAgentSettled, ghosts
<1>9. GhostsOK'
  BY <1>1, <1>8 DEF Sound, GhostsOK
<1>10. Exact'
  BY <1>1 DEF Sound, Exact
<1> QED BY <1>2, <1>5, <1>6, <1>7, <1>9, <1>10 DEF Sound

(* Both measures of a change are natural numbers.                          *)
LEMMA ChangeNat ==
    ASSUME NEW p \in GoodPlugin, NEW old \in Contents, NEW new \in Contents
    PROVE  /\ p.pendingMemoryLines + changedLinesOf(p.segments, old, new) \in Nat
           /\ p.pendingMemoryLines + countDelta(p.lineHashes, new) \in Nat
<1>1. /\ p.pendingMemoryLines \in Nat /\ p.segments \in Seq(LineRange) /\ p.lineHashes \in Seq(Texts)
      /\ old \in Seq(Texts) /\ new \in Seq(Texts) /\ Len(new) \in Nat
  BY GoodPluginFacts, ContentFacts
<1>2. changedLinesOf(p.segments, old, new) \in Nat
  BY <1>1, ChangedLinesOfNat
<1>3. countDelta(p.lineHashes, new) \in Nat
  BY <1>1, CountDeltaNat
<1> QED BY <1>1, <1>2, <1>3

LEMMA ReplacedFacts ==
    ASSUME KeptOK, NEW old \in Replaced, old # None
    PROVE  old \in Contents
BY DEF Replaced, KeptOK

LEMMA ClampLines ==
    ASSUME NEW p \in GoodPlugin, NEW c \in Contents
    PROVE  /\ clampAll(p.segments, Len(c)) \in Seq(LineRange)
           /\ Normal(clampAll(p.segments, Len(c)))
           /\ Lines(clampAll(p.segments, Len(c))) = Lines(p.segments) \cap 1..Len(c)
<1>1. p.segments \in Seq(LineRange) /\ Normal(p.segments) /\ Len(c) \in Nat
  BY GoodPluginFacts, ContentFacts
<1> QED BY <1>1, ClampFacts

(* The scan retires the mount or re-mounts it.                             *)
LEMMA ScanCases ==
    ASSUME Sound, scanDiskChanges
    PROVE  /\ UNCHANGED <<world, calls, shown, rebased, clobbered, request>>
           /\ scanPending' = FALSE /\ phase' = "delta" /\ Get
           /\ store \in GoodPlugin /\ UNCHANGED anchorHash
           /\ \/ Retire /\ UNCHANGED mounted
              \/ /\ disk \in Contents /\ store' \in GoodPlugin /\ persisted' = store'
                 /\ UNCHANGED retired /\ store'.hash = disk
                 /\ store'.segments = clampAll(store.segments, Len(disk))
                 /\ mounted' = mounted \cap 1..Len(disk)
<1>1. /\ UNCHANGED <<world, calls, shown, rebased, clobbered, request>>
      /\ store # None /\ scanPending' = FALSE /\ phase' = "delta" /\ Get
  BY DEF scanDiskChanges
<1>2. store \in GoodPlugin
  BY <1>1 DEF Sound, PluginsOK
<1>3. ASSUME NEW n \in Nat, disk \in Contents, Remount(disk, n)
      PROVE  /\ store' \in GoodPlugin /\ persisted' = store' /\ UNCHANGED retired
             /\ store'.segments = clampAll(store.segments, Len(disk)) /\ store'.hash = disk
  BY <1>2, <1>3, ClampLines, PluginOf DEF Remount
<1>4. CASE disk = NoFile
  <2>1. Retire /\ UNCHANGED <<anchorHash, mounted>>
    BY <1>4 DEF scanDiskChanges
  <2> QED BY <1>1, <1>2, <2>1
<1>5. CASE disk # NoFile
  <2>1. disk \in Contents
    BY <1>5 DEF Sound, WorldOK
  <2>2. PICK old \in Replaced :
          LET n == store.pendingMemoryLines
                   + (IF old # None THEN changedLinesOf(store.segments, old, disk)
                      ELSE countDelta(store.lineHashes, disk))
          IN  \/ Retire /\ UNCHANGED <<anchorHash, mounted>>
              \/ /\ Remount(disk, n) /\ AnchorAfterScan(disk)
                 /\ mounted' = mounted \cap 1..Len(disk)
    BY <1>5, Zenon DEF scanDiskChanges
  <2>3. \E n \in Nat : \/ Retire /\ UNCHANGED <<anchorHash, mounted>>
                       \/ /\ Remount(disk, n) /\ AnchorAfterScan(disk)
                          /\ mounted' = mounted \cap 1..Len(disk)
    <3>1. CASE old # None
      <4>1. old \in Contents
        BY <3>1, ReplacedFacts DEF Sound
      <4> QED BY <1>2, <2>1, <2>2, <3>1, <4>1, ChangeNat
    <3>2. CASE old = None
      BY <1>2, <2>1, <2>2, <3>2, ChangeNat
    <3> QED BY <3>1, <3>2
  <2> QED BY <1>1, <1>2, <1>3, <2>1, <2>3 DEF AnchorAfterScan
<1> QED BY <1>4, <1>5

LEMMA SoundScan ==
    ASSUME Sound, scanDiskChanges
    PROVE  Sound'
<1>1. /\ UNCHANGED <<world, calls, shown, rebased, clobbered, request>>
      /\ scanPending' = FALSE /\ phase' = "delta" /\ Get
      /\ store \in GoodPlugin /\ UNCHANGED anchorHash
  BY ScanCases
<1>2. WorldOK'
  BY <1>1 DEF Sound, WorldOK, world
<1>3. CallsOK'
  BY <1>1, CallsKept DEF Sound
<1>4. cached' \in Contents \cup {None}
  BY <1>1, GetKept DEF Sound
<1>5. CASE Retire /\ UNCHANGED mounted
  <2>1. KeptOK' /\ PluginsOK'
    BY <1>1, <1>4, <1>5 DEF Sound, KeptOK, PluginsOK, Retire
  <2>2. GhostsOK' /\ Exact'
    BY <1>1, <1>5 DEF Sound, GhostsOK, Exact, Retire
  <2> QED BY <1>2, <1>3, <2>1, <2>2 DEF Sound
<1>6. CASE /\ disk \in Contents /\ store' \in GoodPlugin /\ persisted' = store' /\ UNCHANGED retired
           /\ store'.segments = clampAll(store.segments, Len(disk))
           /\ mounted' = mounted \cap 1..Len(disk)
  <2>1. KeptOK' /\ PluginsOK'
    BY <1>1, <1>4, <1>6 DEF Sound, KeptOK, PluginsOK
  <2>2. GhostsOK'
    BY <1>1, <1>6 DEF Sound, GhostsOK
  <2>3. Exact'
    <3>1. store # None
      BY <1>1, GoodPluginFacts
    <3>2. Lines(store'.segments) = Lines(store.segments) \cap 1..Len(disk)
      BY <1>1, <1>6, ClampLines
    <3> QED BY <1>1, <1>6, <3>1, <3>2 DEF Sound, Exact
  <2> QED BY <1>2, <1>3, <2>1, <2>2, <2>3 DEF Sound
<1> QED BY <1>5, <1>6, ScanCases, Zenon

----------------------------------------------------------------------------
(* onToolCall().                                                           *)

LEMMA RegisteredFacts ==
    ASSUME CallsOK, NEW c \in Calls, NEW kind \in Kinds, NEW hash \in Contents \cup {None},
           NEW old \in Contents \cup {None}, NEW input \in [offset : Int, limit : Int],
           kind \in Mounting => hash \in Contents, Registered(c, kind, hash, old, input)
    PROVE  /\ CallsOK'
           /\ calls'[c].pc = "called" /\ calls'[c].kind = kind /\ calls'[c].hash = hash
           /\ calls'[c].input = input
           /\ \A d \in Calls \ {c} : calls'[d] = calls[d]
<1> DEFINE call == [Idle EXCEPT !.pc = "called", !.kind = kind, !.hash = hash,
                                !.oldLines = old, !.input = input]
<1>1. calls' = [calls EXCEPT ![c] = call]
  BY Zenon DEF Registered
<1>2. Idle \in Call
  BY IdleFacts DEF GoodCall
<1>3. call \in Call /\ call.pc = "called" /\ call.kind = kind /\ call.hash = hash /\ call.input = input
  <2>1. ASSUME NEW x \in Call
        PROVE  LET y == [x EXCEPT !.pc = "called", !.kind = kind, !.hash = hash,
                                  !.oldLines = old, !.input = input]
               IN  y \in Call /\ y.pc = "called" /\ y.kind = kind /\ y.hash = hash /\ y.input = input
    BY DEF Call
  <2> QED BY <1>2, <2>1
<1>4. GoodCall(call)
  <2> HIDE DEF call
  <2> QED BY <1>3 DEF GoodCall
<1> HIDE DEF call
<1> QED BY <1>1, <1>3, <1>4, CallChange DEF CallsOK

(* The first missing part, as the input of the narrowed read.              *)
LEMMA FirstMissing ==
    ASSUME NEW p \in GoodPlugin, NEW w \in Span, subtract(p.segments, w) # <<>>
    PROVE  LET m == subtract(p.segments, w)
               i == [offset |-> m[1].start, limit |-> m[1].end - m[1].start + 1]
               lacking == (w.start..w.end) \ Lines(p.segments)
           IN  /\ i \in [offset : Int, limit : Int] /\ w.start <= i.offset /\ 1 <= i.limit
               /\ i.offset..((i.offset + i.limit) - 1) \subseteq lacking
               /\ i.offset..((i.offset + i.limit) - 1) # {}
               /\ i.offset + i.limit \notin lacking
               /\ \A l \in lacking : i.offset <= l
<1> DEFINE m == subtract(p.segments, w)
           lacking == (w.start..w.end) \ Lines(p.segments)
<1>1. p.segments \in Seq(LineRange)
  BY GoodPluginFacts
<1>2. /\ m[1].start \in Int /\ m[1].end \in Int
      /\ w.start <= m[1].start /\ m[1].start <= m[1].end
      /\ m[1].start..m[1].end \subseteq lacking
      /\ m[1].end + 1 \notin lacking
      /\ \A l \in lacking : m[1].start <= l
  BY <1>1, SubtractFacts
<1> HIDE DEF m, lacking
<1>3. w.start \in Int
  BY DEF Span
<1>4. /\ m[1].start + (m[1].end - m[1].start + 1) - 1 = m[1].end
      /\ m[1].start + (m[1].end - m[1].start + 1) = m[1].end + 1
      /\ m[1].end - m[1].start + 1 \in Int /\ 1 <= m[1].end - m[1].start + 1
      /\ m[1].start \in m[1].start..m[1].end
  BY <1>2
<1> DEFINE i == [offset |-> m[1].start, limit |-> m[1].end - m[1].start + 1]
<1>5. i.offset = m[1].start /\ (i.offset + i.limit) - 1 = m[1].end /\ i.offset + i.limit = m[1].end + 1
      /\ i \in [offset : Int, limit : Int] /\ 1 <= i.limit
  BY <1>2, <1>4
<1> HIDE DEF i
<1>6. /\ i \in [offset : Int, limit : Int] /\ w.start <= i.offset /\ 1 <= i.limit
      /\ i.offset..((i.offset + i.limit) - 1) \subseteq lacking
      /\ i.offset..((i.offset + i.limit) - 1) # {}
      /\ i.offset + i.limit \notin lacking
      /\ \A l \in lacking : i.offset <= l
  <2>1. i.offset..((i.offset + i.limit) - 1) = m[1].start..m[1].end
    BY <1>5
  <2> QED BY <1>2, <1>4, <1>5, <2>1
<1> QED BY <1>6 DEF i, m, lacking

(* What a call is registered as.                                           *)
LEMMA CallCases ==
    ASSUME Sound, NEW c \in Calls, NEW input \in Inputs, onToolCall(c, input)
    PROVE  LET want    == rangeFromInput(input, Len(disk))
               missing == subtract(store.segments, want)
           IN  /\ CallsOK' /\ calls'[c].pc = "called"
               /\ \A d \in Calls \ {c} : calls'[d] = calls[d]
               /\ calls'[c].hash = None \/ (disk \in Contents /\ calls'[c].hash = disk)
               /\ calls'[c].kind = "new" => store = None
               /\ calls'[c].kind \in {"noop", "increment", "updated"} => store # None
               /\ calls'[c].kind \in {"noop", "increment"} =>
                     store \in GoodPlugin /\ want \in Span
               /\ calls'[c].kind = "noop" => missing = <<>>
               /\ calls'[c].kind = "increment" =>
                     /\ missing # <<>>
                     /\ calls'[c].input = [offset |-> missing[1].start,
                                           limit  |-> missing[1].end - missing[1].start + 1]
<1> DEFINE want == rangeFromInput(input, Len(disk))
           missing == subtract(store.segments, want)
           first == [offset |-> missing[1].start, limit |-> missing[1].end - missing[1].start + 1]
<1>1. input \in [offset : Int, limit : Int] /\ CallsOK
  BY MountsAssumption DEF Sound
<1>2. None \in Contents \cup {None}
  OBVIOUS
<1> HIDE DEF want, missing, first
<1>3. ASSUME Unregistered(c, input)
      PROVE  /\ CallsOK' /\ calls'[c].pc = "called" /\ calls'[c].kind = "native"
             /\ calls'[c].hash = None /\ \A d \in Calls \ {c} : calls'[d] = calls[d]
  BY <1>1, <1>2, <1>3, RegisteredFacts DEF Unregistered, Kinds, Mounting
<1>4. CASE disk = NoFile
  <2>1. Unregistered(c, input)
    BY <1>4 DEF onToolCall
  <2> QED BY <1>3, <2>1
<1>5. CASE disk # NoFile /\ store # None /\ store.hash = disk
  <2>1. disk \in Contents /\ store \in GoodPlugin /\ ReadMounted(c, input)
    BY <1>5 DEF Sound, WorldOK, PluginsOK, onToolCall
  <2>2. \/ Unregistered(c, input)
        \/ missing = <<>> /\ Registered(c, "noop", None, None, input)
        \/ missing # <<>> /\ Registered(c, "increment", disk, None, first)
    BY <2>1, Zenon DEF ReadMounted, want, missing, first
  <2>3. want \in Span
    BY <1>1, <2>1, ContentFacts, InputFacts DEF want
  <2>4. CASE Unregistered(c, input)
    BY <1>3, <2>4
  <2>5. CASE missing = <<>> /\ Registered(c, "noop", None, None, input)
    <3>1. /\ CallsOK' /\ calls'[c].pc = "called" /\ calls'[c].kind = "noop"
          /\ calls'[c].hash = None /\ \A d \in Calls \ {c} : calls'[d] = calls[d]
      BY <1>1, <1>2, <2>5, RegisteredFacts DEF Kinds, Mounting
    <3> QED BY <1>5, <2>1, <2>3, <2>5, <3>1 DEF want, missing
  <2>6. CASE missing # <<>> /\ Registered(c, "increment", disk, None, first)
    <3>1. first \in [offset : Int, limit : Int]
      BY <2>1, <2>3, <2>6, FirstMissing DEF first, missing
    <3>2. /\ CallsOK' /\ calls'[c].pc = "called" /\ calls'[c].kind = "increment"
          /\ calls'[c].hash = disk /\ calls'[c].input = first
          /\ \A d \in Calls \ {c} : calls'[d] = calls[d]
      BY <1>1, <1>2, <2>1, <2>6, <3>1, RegisteredFacts DEF Kinds, Mounting
    <3> QED BY <1>5, <2>1, <2>3, <2>6, <3>2 DEF want, missing, first
  <2> QED BY <2>2, <2>4, <2>5, <2>6
<1>6. CASE disk # NoFile /\ store # None /\ store.hash # disk
  <2>1. PICK old \in Replaced : Registered(c, "updated", disk, old, input)
    BY <1>6 DEF onToolCall
  <2>2. disk \in Contents /\ old \in Contents \cup {None}
    BY <1>6, ReplacedFacts DEF Sound, WorldOK
  <2>3. /\ CallsOK' /\ calls'[c].pc = "called" /\ calls'[c].kind = "updated"
        /\ calls'[c].hash = disk /\ \A d \in Calls \ {c} : calls'[d] = calls[d]
    BY <1>1, <2>1, <2>2, RegisteredFacts DEF Kinds, Mounting
  <2> QED BY <1>6, <2>2, <2>3
<1>7. CASE disk # NoFile /\ store = None
  <2>1. Registered(c, "new", disk, None, input) /\ disk \in Contents
    BY <1>7 DEF onToolCall, Sound, WorldOK
  <2>2. /\ CallsOK' /\ calls'[c].pc = "called" /\ calls'[c].kind = "new"
        /\ calls'[c].hash = disk /\ \A d \in Calls \ {c} : calls'[d] = calls[d]
    BY <1>1, <1>2, <2>1, RegisteredFacts DEF Kinds, Mounting
  <2> QED BY <1>7, <2>1, <2>2
<1> QED BY <1>4, <1>5, <1>6, <1>7

LEMMA SoundCall ==
    ASSUME Sound, NEW c \in Calls, NEW input \in Inputs, onToolCall(c, input)
    PROVE  Sound'
<1>1. /\ UNCHANGED <<world, store, anchorHash, retired, persisted, scanPending, ghosts>>
      /\ phase' = "tools" /\ Get
  BY DEF onToolCall
<1>2. cached' \in Contents \cup {None}
  BY <1>1, GetKept DEF Sound
<1>3. WorldOK' /\ KeptOK' /\ PluginsOK'
  BY <1>1, <1>2 DEF Sound, WorldOK, KeptOK, PluginsOK, world
<1>4. GhostsOK' /\ Exact'
  BY <1>1 DEF Sound, GhostsOK, Exact, ghosts
<1>5. CallsOK'
  BY CallCases
<1> QED BY <1>3, <1>4, <1>5 DEF Sound

----------------------------------------------------------------------------
(* The read tool and onToolResult().                                       *)

LEMMA ToIdle ==
    ASSUME CallsOK, NEW c \in Calls, calls' = [calls EXCEPT ![c] = Idle]
    PROVE  CallsOK' /\ calls'[c] = Idle /\ \A d \in Calls \ {c} : calls'[d] = calls[d]
BY IdleFacts, CallChange DEF CallsOK

LEMMA SoundBlocked ==
    ASSUME Sound, NEW c \in Calls, Blocked(c)
    PROVE  Sound'
<1>1. calls' = [calls EXCEPT ![c] = Idle] /\ UNCHANGED <<world, harness, phase, ghosts>>
  BY DEF Blocked
<1>2. CallsOK'
  BY <1>1, ToIdle DEF Sound
<1>3. WorldOK' /\ KeptOK' /\ PluginsOK'
  BY <1>1 DEF Sound, WorldOK, KeptOK, PluginsOK, world, harness
<1>4. GhostsOK' /\ Exact'
  BY <1>1 DEF Sound, GhostsOK, Exact, ghosts, harness
<1> QED BY <1>2, <1>3, <1>4 DEF Sound

LEMMA RunFacts ==
    ASSUME CallsOK, WorldOK, NEW c \in Calls, RunRead(c)
    PROVE  /\ CallsOK'
           /\ calls'[c] = [calls[c] EXCEPT !.pc = "ran", !.text = disk]
           /\ \A d \in Calls \ {c} : calls'[d] = calls[d]
<1>1. calls' = [calls EXCEPT ![c] = [calls[c] EXCEPT !.pc = "ran", !.text = disk]]
  <2>1. calls' = [calls EXCEPT ![c].pc = "ran", ![c].text = disk]
    BY DEF RunRead
  <2>2. c \in DOMAIN calls
    BY DEF CallsOK
  <2> QED BY <2>1, <2>2
<1>2. ASSUME NEW x \in Call, GoodCall(x), x.pc = "called"
      PROVE  GoodCall([x EXCEPT !.pc = "ran", !.text = disk])
  <2>1. disk \in Contents \cup {NoFile} /\ disk # None
    BY NoneAssumption DEF WorldOK
  <2>2. LET y == [x EXCEPT !.pc = "ran", !.text = disk]
        IN  y \in Call /\ y.pc = "ran" /\ y.text = disk /\ y.kind = x.kind /\ y.hash = x.hash
    BY <2>1 DEF Call
  <2> DEFINE y == [x EXCEPT !.pc = "ran", !.text = disk]
  <2> HIDE DEF y
  <2>3. y \in Call /\ y.pc = "ran" /\ y.text = disk /\ y.kind = x.kind /\ y.hash = x.hash
    BY <2>2 DEF y
  <2>4. GoodCall(y)
    BY <1>2, <2>1, <2>3 DEF GoodCall
  <2> QED BY <2>4 DEF y
<1>3. calls[c] \in Call /\ GoodCall(calls[c]) /\ calls[c].pc = "called"
  BY DEF CallsOK, RunRead
<1>4. GoodCall([calls[c] EXCEPT !.pc = "ran", !.text = disk])
  BY <1>2, <1>3
<1> QED BY <1>1, <1>4, CallChange DEF CallsOK

LEMMA SoundRun ==
    ASSUME Sound, NEW c \in Calls, RunRead(c)
    PROVE  Sound'
<1>1. UNCHANGED <<world, harness, ghosts>> /\ phase' = "run"
  BY DEF RunRead
<1>2. CallsOK'
  BY RunFacts DEF Sound
<1>3. WorldOK' /\ KeptOK' /\ PluginsOK'
  BY <1>1 DEF Sound, WorldOK, KeptOK, PluginsOK, world, harness
<1>4. GhostsOK' /\ Exact'
  BY <1>1 DEF Sound, GhostsOK, Exact, ghosts, harness
<1> QED BY <1>2, <1>3, <1>4 DEF Sound

(* The text a call that did not fail has put out.                          *)
LEMMA OutputText ==
    ASSUME NEW call, GoodCall(call), call.pc \in {"ran", "reread"}, ~Failed(call)
    PROVE  call.text \in Contents
<1>1. call.text \in Contents \cup {NoFile, None} /\ call.text # None
  BY NoneAssumption DEF GoodCall, Call
<1>2. call.text # NoFile
  BY DEF Failed
<1> QED BY <1>1, <1>2

LEMMA NativeShown ==
    ASSUME Sound, NEW c \in Calls, calls[c].pc \in {"ran", "reread"}, Native(c)
    PROVE  shown' \in [LineNos -> Texts \cup {None}]
<1>1. CASE Failed(calls[c])
  BY <1>1 DEF Native, Sound, GhostsOK
<1>2. CASE ~Failed(calls[c])
  <2>1. calls[c].text \in Contents
    BY <1>2, OutputText DEF Sound, CallsOK
  <2>2. PICK now \in [LineNos -> Texts \cup {None}] :
          shown' = [l \in LineNos |-> IF shown[l] = None THEN None ELSE now[l]]
    BY <1>2, <2>1, ShowFacts DEF Native, Sound, GhostsOK
  <2> QED BY <2>2
<1> QED BY <1>1, <1>2

LEMMA SoundNative ==
    ASSUME Sound, NEW c \in Calls, calls[c].pc \in {"ran", "reread"}, Native(c),
           UNCHANGED <<world, scanPending, phase, request>>, Get \/ UNCHANGED cached
    PROVE  Sound'
<1>1. calls' = [calls EXCEPT ![c] = Idle]
      /\ UNCHANGED <<store, anchorHash, retired, persisted, mounted, rebased, clobbered>>
  BY DEF Native
<1>2. CallsOK'
  BY <1>1, ToIdle DEF Sound
<1>3. cached' \in Contents \cup {None}
  BY GetKept DEF Sound, KeptOK
<1>4. WorldOK' /\ KeptOK' /\ PluginsOK'
  BY <1>1, <1>3 DEF Sound, WorldOK, KeptOK, PluginsOK, world
<1>5. GhostsOK' /\ Exact'
  BY <1>1, NativeShown DEF Sound, GhostsOK, Exact
<1> QED BY <1>2, <1>4, <1>5 DEF Sound

LEMMA SoundMountNew ==
    ASSUME Sound, NEW c \in Calls, disk \in Contents, NEW got \in LineRange,
           calls[c].hash \in Contents, calls[c].text \in Contents, MountNew(c, got),
           UNCHANGED <<world, scanPending, phase, request>>, Get
    PROVE  Sound'
<1>1. /\ store' = [hash |-> calls[c].hash, segments |-> Within(got, Len(disk)),
                   pendingMemoryLines |-> 0, lineHashes |-> disk]
      /\ persisted' = store' /\ anchorHash' = calls[c].hash /\ retired' = FALSE
      /\ calls' = [calls EXCEPT ![c] = Idle]
      /\ shown' = Show(Nothing, calls[c].text, Output(calls[c]))
      /\ mounted' = Lines(store'.segments) /\ rebased' = FALSE /\ clobbered' = FALSE
  BY DEF MountNew, ClearNotice
<1>2. CallsOK'
  BY <1>1, ToIdle DEF Sound
<1>3. cached' \in Contents \cup {None}
  BY GetKept DEF Sound
<1>4. WorldOK' /\ KeptOK'
  BY <1>1, <1>3 DEF Sound, WorldOK, KeptOK, world
<1>5. Within(got, Len(disk)) \in Seq(LineRange) /\ Normal(Within(got, Len(disk)))
  BY ContentFacts, WithinFacts
<1>6. store' \in GoodPlugin /\ store'.segments = Within(got, Len(disk))
  BY <1>1, <1>5, PluginOf
<1>7. PluginsOK'
  BY <1>1, <1>6 DEF PluginsOK
<1>8. mounted' \subseteq LineNos
  BY <1>1, <1>5, <1>6, LinesFacts
<1>9. shown' \in [LineNos -> Texts \cup {None}]
  BY <1>1, ShowFacts DEF Nothing
<1>10. GhostsOK'
  BY <1>1, <1>8, <1>9 DEF Sound, GhostsOK
<1>11. Exact'
  BY <1>1 DEF Exact
<1> QED BY <1>2, <1>4, <1>7, <1>10, <1>11 DEF Sound

LEMMA AwaitFacts ==
    ASSUME CallsOK, NEW c \in Calls, NEW got \in LineRange, store \in GoodPlugin,
           calls[c].kind \in Mounting, calls[c].text \in Contents,
           calls' = [calls EXCEPT ![c].pc = "reread", ![c].got = got, ![c].existing = store]
    PROVE  /\ CallsOK'
           /\ calls'[c] = [calls[c] EXCEPT !.pc = "reread", !.got = got, !.existing = store]
           /\ \A d \in Calls \ {c} : calls'[d] = calls[d]
<1>1. calls' = [calls EXCEPT ![c] = [calls[c] EXCEPT !.pc = "reread", !.got = got, !.existing = store]]
  BY DEF CallsOK
<1>2. ASSUME NEW x \in Call, GoodCall(x), x.kind \in Mounting, x.text \in Contents
      PROVE  GoodCall([x EXCEPT !.pc = "reread", !.got = got, !.existing = store])
  <2>1. got \in [start : Nat, end : Int] /\ store \in Plugin
    BY RangeFacts DEF LineRange, LineNos, GoodPlugin
  <2> DEFINE y == [x EXCEPT !.pc = "reread", !.got = got, !.existing = store]
  <2>2. /\ y \in Call /\ y.pc = "reread" /\ y.text = x.text /\ y.kind = x.kind /\ y.hash = x.hash
        /\ y.got = got /\ y.existing = store
    BY <2>1 DEF Call
  <2> HIDE DEF y
  <2>3. GoodCall(y)
    BY <1>2, <2>2 DEF GoodCall
  <2> QED BY <2>3 DEF y
<1>3. GoodCall([calls[c] EXCEPT !.pc = "reread", !.got = got, !.existing = store])
  BY <1>2 DEF CallsOK
<1> QED BY <1>1, <1>3, CallChange DEF CallsOK

(* What becomes of a result: it goes through, it is answered with a        *)
(* reference, it mounts the file, or it waits for the second look.         *)
Answered(c) ==
    /\ calls' = [calls EXCEPT ![c] = Idle]
    /\ UNCHANGED <<store, anchorHash, retired, persisted, shown, mounted, rebased, clobbered>>

Awaits(c, got) ==
    /\ calls' = [calls EXCEPT ![c].pc = "reread", ![c].got = got, ![c].existing = store]
    /\ UNCHANGED <<store, anchorHash, retired, persisted, shown, mounted, rebased, clobbered>>

LEMMA ResultCases ==
    ASSUME Sound, NEW c \in Calls, onToolResult(c)
    PROVE  /\ calls[c].pc = "ran" /\ (Get \/ UNCHANGED cached)
           /\ UNCHANGED <<world, scanPending, phase, request>>
           /\ \/ Native(c)
              \/ Answered(c)
              \/ \E got \in LineRange :
                    /\ got = Got(calls[c], Len(disk)) /\ disk \in Contents /\ Get
                    /\ ~Failed(calls[c]) /\ calls[c].text \in Contents
                    /\ calls[c].kind \in Mounting /\ calls[c].hash \in Contents
                    /\ \/ store = None /\ calls[c].kind = "new" /\ MountNew(c, got)
                       \/ store \in GoodPlugin /\ Awaits(c, got)
<1> DEFINE call == calls[c]
           got == Got(call, Len(disk))
<1>1. /\ call.pc = "ran" /\ UNCHANGED <<world, scanPending, phase, request>>
      /\ call \in Call /\ GoodCall(call)
  BY DEF onToolResult, Sound, CallsOK
<1>2. CASE call.kind = "native" \/ Failed(call)
  BY <1>1, <1>2 DEF onToolResult, Native
<1>3. CASE call.kind = "noop" /\ ~Failed(call)
  <2>1. UNCHANGED cached /\ (Native(c) \/ Answered(c))
    <3>1. /\ IF store = None THEN Native(c)
             ELSE /\ calls' = [calls EXCEPT ![c] = Idle]
                  /\ UNCHANGED <<store, anchorHash, retired, persisted, shown,
                                 mounted, rebased, clobbered>>
          /\ UNCHANGED cached
      BY <1>3 DEF onToolResult
    <3> QED BY <3>1, Zenon DEF Answered
  <2> QED BY <1>1, <2>1
<1>4. CASE call.kind \in Mounting /\ ~Failed(call) /\ ~(call.kind = "new" \/ store # None)
  <2>1. Native(c) /\ UNCHANGED cached
    BY <1>4 DEF onToolResult, Mounting
  <2> QED BY <1>1, <2>1
<1>5. CASE call.kind \in Mounting /\ ~Failed(call) /\ (call.kind = "new" \/ store # None)
  <2>1. \/ /\ Get
           /\ IF disk # NoFile => got.end < got.start THEN Native(c)
              ELSE IF store = None THEN MountNew(c, got)
              ELSE Awaits(c, got)
        \/ Native(c) /\ UNCHANGED cached
    BY <1>5, Zenon DEF onToolResult, Mounting, Awaits
  <2>2. CASE Native(c)
    BY <1>1, <2>1, <2>2
  <2>3. CASE Get /\ disk # NoFile /\ ~(got.end < got.start)
             /\ (IF store = None THEN MountNew(c, got) ELSE Awaits(c, got))
    <3>1. /\ disk \in Contents /\ call.text \in Contents /\ call.hash \in Contents
          /\ Len(disk) \in Nat /\ Len(disk) <= MaxLines
      BY <1>1, <1>5, <2>3, OutputText, ContentFacts DEF Sound, WorldOK, GoodCall
    <3>2. got.start \in Int /\ got.end \in Int /\ (got.start <= got.end => got \in LineRange)
      <4> HIDE DEF call
      <4> QED BY <1>1, <3>1, GotFacts
    <3>3. got \in LineRange
      BY <2>3, <3>2
    <3>4. \/ store = None /\ call.kind = "new" /\ MountNew(c, got)
          \/ store \in GoodPlugin /\ Awaits(c, got)
      BY <1>5, <2>3 DEF Sound, PluginsOK
    <3> HIDE DEF got
    <3>5. \E g \in LineRange :
                    /\ g = got /\ disk \in Contents /\ Get
                    /\ ~Failed(calls[c]) /\ calls[c].text \in Contents
                    /\ calls[c].kind \in Mounting /\ calls[c].hash \in Contents
                    /\ \/ store = None /\ calls[c].kind = "new" /\ MountNew(c, g)
                       \/ store \in GoodPlugin /\ Awaits(c, g)
      BY <1>5, <2>3, <3>1, <3>3, <3>4
    <3> QED BY <1>1, <2>3, <3>5, Zenon DEF got
  <2> QED BY <2>1, <2>2, <2>3, Zenon
<1>6. call.kind \in Kinds
  BY <1>1 DEF Call
<1> QED BY <1>2, <1>3, <1>4, <1>5, <1>6 DEF Kinds, Mounting

LEMMA SoundResult ==
    ASSUME Sound, NEW c \in Calls, onToolResult(c)
    PROVE  Sound'
<1>1. /\ calls[c].pc = "ran" /\ (Get \/ UNCHANGED cached)
      /\ UNCHANGED <<world, scanPending, phase, request>>
  BY ResultCases, Zenon
<1>2. cached' \in Contents \cup {None}
  BY <1>1, GetKept DEF Sound, KeptOK
<1>3. CASE Native(c)
  BY <1>1, <1>3, SoundNative
<1>4. ASSUME CallsOK', UNCHANGED <<store, anchorHash, retired, persisted, shown, mounted, rebased, clobbered>>
      PROVE  Sound'
  <2>1. WorldOK' /\ KeptOK' /\ PluginsOK'
    BY <1>1, <1>2, <1>4 DEF Sound, WorldOK, KeptOK, PluginsOK, world
  <2>2. GhostsOK' /\ Exact'
    BY <1>1, <1>4 DEF Sound, GhostsOK, Exact
  <2> QED BY <1>4, <2>1, <2>2 DEF Sound
<1>5. CASE Answered(c)
  BY <1>4, <1>5, ToIdle DEF Answered, Sound
<1>6. ASSUME NEW got \in LineRange, disk \in Contents, Get, calls[c].text \in Contents,
             calls[c].kind \in Mounting, calls[c].hash \in Contents,
             MountNew(c, got) \/ (store \in GoodPlugin /\ Awaits(c, got))
      PROVE  Sound'
  <2>1. CASE MountNew(c, got)
    BY <1>1, <1>6, <2>1, SoundMountNew
  <2>2. CASE store \in GoodPlugin /\ Awaits(c, got)
    BY <1>4, <1>6, <2>2, AwaitFacts DEF Awaits, Sound
  <2> QED BY <1>6, <2>1, <2>2
<1> QED BY <1>3, <1>5, <1>6, ResultCases, Zenon

----------------------------------------------------------------------------
(* The second half of onToolResult().                                      *)

LEMMA RereadFacts ==
    ASSUME Sound, NEW c \in Calls, Reread(c)
    PROVE  /\ calls[c].pc = "reread" /\ calls[c].kind \in Mounting
           /\ calls[c].hash \in Contents /\ calls[c].text \in Contents
           /\ calls[c].existing \in GoodPlugin /\ calls[c].got \in LineRange
           /\ cached' \in Contents \cup {None} /\ Get
BY GetKept DEF Sound, CallsOK, GoodCall, Reread

LEMMA SoundChanged ==
    ASSUME Sound, NEW c \in Calls, Changed(c)
    PROVE  Sound'
BY RereadFacts, SoundNative DEF Changed

LEMMA IncrementSegments ==
    ASSUME NEW p \in GoodPlugin, NEW got \in LineRange
    PROVE  LET q == [p EXCEPT !.segments = mergeSegments(Append(@, got))]
           IN  /\ q \in GoodPlugin /\ q.hash = p.hash
               /\ q.segments = mergeSegments(Append(p.segments, got))
               /\ Lines(q.segments) = Lines(p.segments) \cup (got.start..got.end)
<1>1. p.segments \in Seq(LineRange) /\ p \in Plugin
  BY GoodPluginFacts
<1>2. Append(p.segments, got) \in Seq(LineRange)
      /\ Lines(Append(p.segments, got)) = Lines(p.segments) \cup (got.start..got.end)
  <2>1. <<got>> \in Seq(LineRange) /\ Len(<<got>>) = 1 /\ <<got>>[1] = got
    OBVIOUS
  <2>2. Lines(<<got>>) = got.start..got.end
    BY <2>1, UnitFacts
  <2>3. p.segments \o <<got>> \in Seq(LineRange)
        /\ Lines(p.segments \o <<got>>) = Lines(p.segments) \cup Lines(<<got>>)
    BY <1>1, <2>1, JoinFacts
  <2>4. Append(p.segments, got) = p.segments \o <<got>>
    BY <1>1
  <2> QED BY <2>2, <2>3, <2>4
<1>3. PICK s \in Seq(LineRange) : /\ s = mergeSegments(Append(p.segments, got)) /\ Normal(s)
                                 /\ Lines(s) = Lines(p.segments) \cup (got.start..got.end)
  BY <1>2, MergeFacts
<1>4. s \in Seq([start : LineNos, end : LineNos])
  <2>1. LineRange \subseteq [start : LineNos, end : LineNos]
    BY DEF LineRange
  <2> QED BY <2>1, SeqMonotonic
<1> DEFINE q == [p EXCEPT !.segments = s]
<1>5. q \in Plugin /\ q.segments = s /\ q.hash = p.hash
  BY <1>1, <1>4 DEF Plugin
<1>6. q = [p EXCEPT !.segments = mergeSegments(Append(@, got))]
  BY <1>3
<1> HIDE DEF q
<1>7. q \in GoodPlugin
  BY <1>3, <1>5 DEF GoodPlugin
<1> QED BY <1>3, <1>5, <1>6, <1>7

LEMMA SoundIncrement ==
    ASSUME Sound, NEW c \in Calls, Increment(c)
    PROVE  Sound'
<1> DEFINE old == calls[c].existing
           got == calls[c].got
<1>1. /\ Reread(c)
      /\ store' = [old EXCEPT !.segments = mergeSegments(Append(@, got))]
      /\ anchorHash' = calls[c].hash
      /\ shown' = Show(shown, disk, got)
      /\ mounted' = mounted \cup (got.start..got.end)
      /\ rebased' = (rebased \/ anchorHash # calls[c].hash)
      /\ clobbered' = (clobbered \/ store # old)
      /\ calls' = [calls EXCEPT ![c] = Idle]
      /\ UNCHANGED <<world, retired, persisted, scanPending, phase, request>>
      /\ disk = calls[c].hash
  BY DEF Increment
<1>2. /\ calls[c].hash \in Contents /\ old \in GoodPlugin /\ got \in LineRange
      /\ cached' \in Contents \cup {None} /\ disk \in Contents
  BY <1>1, RereadFacts
<1>3. CallsOK'
  BY <1>1, ToIdle DEF Sound
<1>4. WorldOK' /\ KeptOK'
  BY <1>1, <1>2 DEF Sound, WorldOK, KeptOK, world
<1> HIDE DEF old, got
<1>5. store' \in GoodPlugin /\ Lines(store'.segments) = Lines(old.segments) \cup (got.start..got.end)
  BY <1>1, <1>2, IncrementSegments
<1>6. PluginsOK'
  BY <1>1, <1>5 DEF Sound, PluginsOK
<1>7. mounted' \subseteq LineNos
  <2>1. got.start..got.end \subseteq LineNos
    BY <1>2, RangeFacts DEF LineNos
  <2> QED BY <1>1, <2>1 DEF Sound, GhostsOK
<1>8. shown' \in [LineNos -> Texts \cup {None}]
  BY <1>1, <1>2, ShowFacts DEF Sound, GhostsOK
<1>9. rebased' \in BOOLEAN /\ clobbered' \in BOOLEAN
  BY <1>1
<1>10. GhostsOK'
  BY <1>1, <1>7, <1>8, <1>9 DEF Sound, GhostsOK
<1>11. Exact'
  <2> SUFFICES ASSUME ~clobbered' PROVE Lines(store'.segments) = mounted'
    BY DEF Exact
  <2>1. ~clobbered /\ store = old
    BY <1>1 DEF Sound, GhostsOK
  <2>2. store # None
    BY <1>2, <2>1, GoodPluginFacts
  <2> QED BY <1>1, <1>5, <2>1, <2>2 DEF Sound, Exact
<1> QED BY <1>3, <1>4, <1>6, <1>10, <1>11 DEF Sound

(* The update retires the mount or merges the part that was read into it.  *)
LEMMA UpdateCases ==
    ASSUME Sound, NEW c \in Calls, Update(c)
    PROVE  /\ Reread(c) /\ disk = calls[c].hash /\ calls[c].kind = "updated"
           /\ calls' = [calls EXCEPT ![c] = Idle]
           /\ UNCHANGED <<world, anchorHash, scanPending, phase, rebased, request>>
           /\ \/ Retire /\ UNCHANGED <<shown, mounted, clobbered>>
              \/ /\ store' \in GoodPlugin /\ persisted' = store' /\ UNCHANGED retired
                 /\ store'.hash = calls[c].hash
                 /\ Lines(store'.segments) = (Lines(calls[c].existing.segments) \cap 1..Len(disk))
                                             \cup Lines(Within(calls[c].got, Len(disk)))
                 /\ shown' = Show(shown, disk, calls[c].got)
                 /\ mounted' = (mounted \cap 1..Len(disk)) \cup Lines(Within(calls[c].got, Len(disk)))
                 /\ clobbered' = (clobbered \/ store # calls[c].existing)
<1> DEFINE call == calls[c]
           old == calls[c].existing
           within == Within(call.got, Len(disk))
           accumulated == IF call.oldLines = None THEN 0
                          ELSE old.pendingMemoryLines
                               + changedLinesOf(old.segments, call.oldLines, disk)
<1>1. /\ Reread(c) /\ calls[c].kind = "updated"
      /\ calls' = [calls EXCEPT ![c] = Idle]
      /\ UNCHANGED <<world, anchorHash, scanPending, phase, rebased, request>>
      /\ disk = call.hash
  BY DEF Update
<1>2. \/ Retire /\ UNCHANGED <<shown, mounted, clobbered>>
      \/ /\ store' = [hash |-> call.hash,
                        segments |-> mergeSegments(clampAll(old.segments, Len(disk)) \o within),
                        pendingMemoryLines |-> accumulated, lineHashes |-> disk]
         /\ persisted' = store'
         /\ shown' = Show(shown, disk, call.got)
         /\ mounted' = (mounted \cap 1..Len(disk)) \cup Lines(within)
         /\ clobbered' = (clobbered \/ store # old)
         /\ UNCHANGED retired
  BY Zenon DEF Update
<1>3. call.hash \in Contents /\ old \in GoodPlugin /\ call.got \in LineRange /\ disk \in Contents
  BY <1>1, RereadFacts
<1>4. accumulated \in Nat
  <2>1. call.oldLines \in Contents \cup {None}
    BY DEF Sound, CallsOK, Call
  <2>2. CASE call.oldLines = None
    BY <2>2
  <2>3. CASE call.oldLines # None
    BY <1>3, <2>1, <2>3, ChangeNat
  <2> QED BY <2>2, <2>3
<1>5. within \in Seq(LineRange)
  BY <1>3, ContentFacts, WithinFacts
<1> HIDE DEF within, accumulated
<1>6. PICK s \in Seq(LineRange) : /\ s = mergeSegments(clampAll(old.segments, Len(disk)) \o within)
                                 /\ Normal(s)
                                 /\ Lines(s) = (Lines(old.segments) \cap 1..Len(disk)) \cup Lines(within)
  <2>1. PICK u \in Seq(LineRange) : /\ u = clampAll(old.segments, Len(disk))
                                    /\ Lines(u) = Lines(old.segments) \cap 1..Len(disk)
    <3> HIDE DEF old
    <3> QED BY <1>3, ClampLines
  <2>2. PICK j \in Seq(LineRange) : j = u \o within /\ Lines(j) = Lines(u) \cup Lines(within)
    BY <1>5, JoinFacts
  <2>3. /\ mergeSegments(j) \in Seq(LineRange) /\ Normal(mergeSegments(j))
        /\ Lines(mergeSegments(j)) = Lines(j)
    BY MergeFacts
  <2> QED BY <2>1, <2>2, <2>3
<1>7. [hash |-> call.hash, segments |-> s, pendingMemoryLines |-> accumulated, lineHashes |-> disk] \in GoodPlugin
  BY <1>3, <1>4, <1>6, PluginOf
<1>8. CASE Retire /\ UNCHANGED <<shown, mounted, clobbered>>
  BY <1>1, <1>8
<1>9. CASE /\ store' = [hash |-> call.hash, segments |-> s,
                        pendingMemoryLines |-> accumulated, lineHashes |-> disk]
           /\ persisted' = store'
           /\ shown' = Show(shown, disk, call.got)
           /\ mounted' = (mounted \cap 1..Len(disk)) \cup Lines(within)
           /\ clobbered' = (clobbered \/ store # old)
           /\ UNCHANGED retired
  <2>1. store' \in GoodPlugin /\ store'.segments = s /\ store'.hash = calls[c].hash
    BY <1>7, <1>9
  <2> QED BY <1>1, <1>6, <1>9, <2>1 DEF within
<1> QED BY <1>2, <1>6, <1>8, <1>9

LEMMA SoundUpdate ==
    ASSUME Sound, NEW c \in Calls, Update(c)
    PROVE  Sound'
<1> DEFINE old == calls[c].existing
           within == Within(calls[c].got, Len(disk))
<1>1. /\ Reread(c) /\ disk = calls[c].hash
      /\ calls' = [calls EXCEPT ![c] = Idle]
      /\ UNCHANGED <<world, anchorHash, scanPending, phase, rebased, request>>
  BY UpdateCases
<1>2. /\ old \in GoodPlugin /\ calls[c].got \in LineRange
      /\ cached' \in Contents \cup {None} /\ disk \in Contents
  BY <1>1, RereadFacts
<1>3. CallsOK' /\ WorldOK'
  BY <1>1, ToIdle DEF Sound, WorldOK, world
<1>4. CASE Retire /\ UNCHANGED <<shown, mounted, clobbered>>
  <2>1. KeptOK' /\ PluginsOK'
    BY <1>1, <1>2, <1>4 DEF Sound, KeptOK, PluginsOK, Retire
  <2>2. GhostsOK' /\ Exact'
    BY <1>1, <1>4 DEF Sound, GhostsOK, Exact, Retire
  <2> QED BY <1>3, <2>1, <2>2 DEF Sound
<1>5. CASE /\ store' \in GoodPlugin /\ persisted' = store' /\ UNCHANGED retired
           /\ Lines(store'.segments) = (Lines(old.segments) \cap 1..Len(disk)) \cup Lines(within)
           /\ shown' = Show(shown, disk, calls[c].got)
           /\ mounted' = (mounted \cap 1..Len(disk)) \cup Lines(within)
           /\ clobbered' = (clobbered \/ store # old)
  <2>1. KeptOK' /\ PluginsOK'
    BY <1>1, <1>2, <1>5 DEF Sound, KeptOK, PluginsOK
  <2>2. mounted' \subseteq LineNos
    <3>1. within \in Seq(LineRange)
      BY <1>2, ContentFacts, WithinFacts
    <3> QED BY <1>5, <3>1, LinesFacts DEF Sound, GhostsOK
  <2>3. shown' \in [LineNos -> Texts \cup {None}]
    BY <1>2, <1>5, ShowFacts DEF Sound, GhostsOK
  <2>4. clobbered' \in BOOLEAN
    BY <1>5
  <2>5. GhostsOK'
    BY <1>1, <2>2, <2>3, <2>4 DEF Sound, GhostsOK
  <2>6. Exact'
    <3> SUFFICES ASSUME ~clobbered' PROVE Lines(store'.segments) = mounted'
      BY DEF Exact
    <3>1. ~clobbered /\ store = old
      BY <1>5 DEF Sound, GhostsOK
    <3>2. store # None
      BY <1>2, <3>1, GoodPluginFacts
    <3> QED BY <1>5, <3>1, <3>2 DEF Sound, Exact
  <2> QED BY <1>3, <2>1, <2>5, <2>6 DEF Sound
<1> QED BY <1>4, <1>5, UpdateCases, Zenon

LEMMA SoundResume ==
    ASSUME Sound, Resume
    PROVE  Sound'
<1>1. /\ persisted # None /\ store' = persisted /\ anchorHash' = persisted.hash /\ retired' = FALSE
      /\ cached' = None /\ scanPending' = TRUE /\ phase' = "idle"
      /\ calls' = [c \in Calls |-> Idle] /\ mounted' = Lines(persisted.segments)
      /\ rebased' = (rebased \/ anchorHash # persisted.hash) /\ clobbered' = FALSE
      /\ request' = NoRequest
      /\ UNCHANGED <<world, persisted, shown>>
  BY DEF Resume
<1>2. persisted \in GoodPlugin
  BY <1>1 DEF Sound, PluginsOK
<1>3. persisted.hash \in Contents /\ persisted.segments \in Seq(LineRange)
  BY <1>2, GoodPluginFacts
<1>4. WorldOK' /\ KeptOK' /\ PluginsOK'
  BY <1>1, <1>2, <1>3 DEF Sound, WorldOK, KeptOK, PluginsOK, world
<1>5. CallsOK'
  <2>1. Idle \in Call
    BY IdleFacts DEF GoodCall
  <2> QED BY <1>1, <2>1, IdleFacts DEF CallsOK
<1>6. mounted' \subseteq LineNos
  BY <1>1, <1>3, LinesFacts
<1>7. GhostsOK' /\ Exact'
  BY <1>1, <1>6 DEF Sound, GhostsOK, Exact, NoRequest
<1> QED BY <1>4, <1>5, <1>7 DEF Sound

LEMMA SoundNext ==
    ASSUME Sound, [Next]_vars
    PROVE  Sound'
<1>1. CASE UNCHANGED vars
  <2>1. WorldOK' /\ KeptOK' /\ PluginsOK'
    BY <1>1 DEF Sound, WorldOK, KeptOK, PluginsOK, vars, harness
  <2>2. CallsOK'
    BY <1>1, CallsKept DEF Sound, vars
  <2>3. GhostsOK' /\ Exact'
    BY <1>1 DEF Sound, GhostsOK, Exact, vars, harness, ghosts
  <2> QED BY <2>1, <2>2, <2>3 DEF Sound
<1>2. ASSUME NEW c \in Calls,
             \/ Blocked(c) \/ RunRead(c) \/ onToolResult(c)
             \/ Changed(c) \/ Increment(c) \/ Update(c)
      PROVE  Sound'
  BY <1>2, SoundBlocked, SoundRun, SoundResult, SoundChanged, SoundIncrement, SoundUpdate, Zenon
<1> QED BY <1>1, <1>2, SoundWorld, SoundTurn, SoundScan, SoundCall, SoundResume, Zenon DEF Next

(* The mounted ranges are in normal form and stand for exactly the lines   *)
(* that were mounted and not cut off since (harness.ts, ranges.ts,         *)
(* source.ts), for texts, reads and calls of any number and length.        *)
THEOREM MountsSegmentsExact == Spec => []SegmentsExact
<1>1. Sound => SegmentsExact
  <2> SUFFICES ASSUME Sound PROVE SegmentsExact
    OBVIOUS
  <2>1. TypeOK
    BY DEF Sound, WorldOK, KeptOK, PluginsOK, CallsOK, GhostsOK, TypeOK, GoodPlugin
  <2>2. store # None => Normal(store.segments)
    BY DEF Sound, PluginsOK, GoodPlugin
  <2> QED BY <2>1, <2>2 DEF Sound, Exact, SegmentsExact
<1> QED BY <1>1, SoundInit, SoundNext, PTL DEF Spec

----------------------------------------------------------------------------
(* A mount is kept or announced as retired.                                *)

KeptInv ==
    /\ store # None /\ ~clobbered => ~retired
    /\ shown # Nothing => store # None \/ retired

(* A result that goes through shows nothing of a mount there is not.       *)
LEMMA NativeNothing ==
    ASSUME NEW c \in Calls, Native(c), shown = Nothing
    PROVE  shown' = Nothing
<1>1. \A l \in LineNos : shown[l] = None
  BY DEF Nothing
<1> QED BY <1>1 DEF Native, Nothing

LEMMA KeptNative ==
    ASSUME KeptInv, NEW c \in Calls, Native(c)
    PROVE  KeptInv'
<1>1. UNCHANGED <<store, retired, clobbered>>
  BY DEF Native
<1>2. shown' # Nothing => shown # Nothing
  BY NativeNothing
<1>3. Nothing' = Nothing
  BY DEF Nothing
<1> QED BY <1>1, <1>2, <1>3 DEF KeptInv

LEMMA KeptNext ==
    ASSUME Sound, KeptInv, [Next]_vars
    PROVE  KeptInv'
<1>1. Nothing' = Nothing
  BY DEF Nothing
<1>2. ASSUME UNCHANGED <<store, retired, clobbered, shown>> PROVE KeptInv'
  BY <1>1, <1>2 DEF KeptInv
<1>3. CASE \/ UNCHANGED vars \/ Delete \/ \E c \in Contents : Edit(c)
           \/ Prompt \/ NoScan \/ buildMountDelta \/ NextTurn \/ onAgentSettled
           \/ \E c \in Calls, input \in Inputs : onToolCall(c, input)
           \/ \E c \in Calls : Blocked(c) \/ RunRead(c)
  <2>1. UNCHANGED <<store, retired, clobbered, shown>>
    BY <1>3 DEF vars, Delete, Edit, Prompt, NoScan, buildMountDelta, NextTurn, onAgentSettled,
                onToolCall, Blocked, RunRead, harness, ghosts
  <2> QED BY <1>2, <2>1
<1>4. CASE scanDiskChanges
  <2>1. store # None /\ UNCHANGED <<shown, clobbered>> /\ retired \in BOOLEAN
    BY <1>4 DEF scanDiskChanges, Sound, KeptOK
  <2>2. CASE Retire
    BY <2>1, <2>2 DEF Retire, KeptInv
  <2>3. CASE UNCHANGED retired /\ store' # None
    BY <1>1, <2>1, <2>3 DEF KeptInv
  <2>4. Retire \/ (UNCHANGED retired /\ store' # None)
    BY <1>4, ScanCases, GoodPluginFacts
  <2> QED BY <2>2, <2>3, <2>4
<1>5. ASSUME NEW c \in Calls, onToolResult(c) PROVE KeptInv'
  <2>1. CASE Native(c)
    BY <2>1, KeptNative
  <2>2. CASE Answered(c) \/ \E got \in LineRange : Awaits(c, got)
    BY <1>2, <2>2 DEF Answered, Awaits
  <2>3. ASSUME NEW got \in LineRange, disk \in Contents, calls[c].hash \in Contents, MountNew(c, got)
        PROVE  KeptInv'
    <3>1. Sound' /\ store' = persisted' /\ ~retired'
      BY <1>5, <2>3, SoundResult DEF MountNew, ClearNotice
    <3>2. store' \in GoodPlugin
      <4>1. Within(got, Len(disk)) \in Seq(LineRange) /\ Normal(Within(got, Len(disk)))
        BY <2>3, ContentFacts, WithinFacts
      <4> QED BY <2>3, <4>1, PluginOf DEF MountNew
    <3> QED BY <3>1, <3>2, GoodPluginFacts DEF KeptInv
  <2> QED BY <1>5, <2>1, <2>2, <2>3, ResultCases, Zenon
<1>6. ASSUME NEW c \in Calls, Changed(c) PROVE KeptInv'
  BY <1>6, KeptNative DEF Changed
<1>7. ASSUME NEW c \in Calls, Reread(c), store' \in GoodPlugin, UNCHANGED retired,
             clobbered' = (clobbered \/ store # calls[c].existing)
      PROVE  KeptInv'
  <2>1. store' # None /\ calls[c].existing # None
    BY <1>7, RereadFacts, GoodPluginFacts
  <2>2. ~clobbered' => ~clobbered /\ store # None
    BY <1>7, <2>1 DEF Sound, GhostsOK
  <2> QED BY <1>7, <2>1, <2>2 DEF KeptInv
<1>8. ASSUME NEW c \in Calls, Increment(c) PROVE KeptInv'
  <2>1. store' \in GoodPlugin
    <3>1. calls[c].existing \in GoodPlugin /\ calls[c].got \in LineRange
      BY <1>8, RereadFacts DEF Increment
    <3> QED BY <1>8, <3>1, IncrementSegments DEF Increment
  <2>2. /\ Reread(c) /\ UNCHANGED retired
        /\ clobbered' = (clobbered \/ store # calls[c].existing)
    BY <1>8 DEF Increment
  <2> QED BY <1>7, <2>1, <2>2
<1>9. ASSUME NEW c \in Calls, Update(c) PROVE KeptInv'
  <2>1. CASE Retire
    BY <2>1 DEF Retire, KeptInv
  <2>2. CASE ~Retire
    BY <1>7, <1>9, <2>2, UpdateCases
  <2> QED BY <2>1, <2>2
<1>10. CASE Resume
  <2>1. store' # None /\ ~retired'
    BY <1>10 DEF Resume
  <2> QED BY <2>1 DEF KeptInv
<1>11. Next => KeptInv'
  BY <1>3, <1>4, <1>5, <1>6, <1>8, <1>9, <1>10, Zenon DEF Next
<1> QED BY <1>3, <1>11

(* Text of a mount in the conversation has its plugin in the store or a    *)
(* notice that it is void, never both (harness.ts: onToolResult,           *)
(* scanDiskChanges, the reset on retiring): the only way around it is the  *)
(* late write of a handler.                                                *)
THEOREM MountsKeptOrRetired == Spec => []MountedOrRetired
<1>1. Init => KeptInv
  BY DEF Init, KeptInv
<1>2. Sound /\ KeptInv => MountedOrRetired
  <2> SUFFICES ASSUME Sound, KeptInv, shown # Nothing, ~clobbered PROVE (store # None) # retired
    BY DEF MountedOrRetired
  <2>1. retired \in BOOLEAN
    BY DEF Sound, KeptOK
  <2>2. CASE store # None
    BY <2>1, <2>2 DEF KeptInv
  <2>3. CASE store = None
    BY <2>1, <2>3 DEF KeptInv
  <2> QED BY <2>2, <2>3
<1> QED BY <1>1, <1>2, SoundInit, SoundNext, KeptNext, PTL DEF Spec

(* A read is narrowed to the first lines it lacks, or answered with a      *)
(* reference when it lacks none (onToolCall), whatever is mounted and      *)
(* asked for.                                                              *)
THEOREM MountsOnlyMissingRead == Spec => OnlyMissingRead
<1> DEFINE good(c, input) ==
             LET want    == rangeFromInput(input, Len(disk))
                 lacking == (want.start..want.end) \ Lines(store.segments)
                 call    == calls'[c]
                 next    == call.input.offset + call.input.limit
                 asked   == call.input.offset..(next - 1)
             IN  /\ call.kind = "noop" => lacking = {}
                 /\ call.kind = "increment" =>
                      /\ asked # {} /\ asked \subseteq lacking
                      /\ next \notin lacking
                      /\ \A l \in lacking : call.input.offset <= l
           narrowed ==
             \A c \in Calls :
               calls[c].pc = "idle" /\ calls'[c].kind \in {"noop", "increment"} =>
                 \A input \in Inputs : onToolCall(c, input) => good(c, input)
<1>1. Sound => narrowed
  <2> SUFFICES ASSUME Sound, NEW c \in Calls, calls'[c].kind \in {"noop", "increment"},
                      NEW input \in Inputs, onToolCall(c, input)
               PROVE  good(c, input)
    BY Zenon
  <2> DEFINE want    == rangeFromInput(input, Len(disk))
             missing == subtract(store.segments, want)
             lacking == (want.start..want.end) \ Lines(store.segments)
  <2>1. /\ store \in GoodPlugin /\ want \in Span
        /\ calls'[c].kind = "noop" => missing = <<>>
        /\ calls'[c].kind = "increment" =>
              /\ missing # <<>>
              /\ calls'[c].input = [offset |-> missing[1].start,
                                    limit  |-> missing[1].end - missing[1].start + 1]
    BY CallCases
  <2>2. store.segments \in Seq(LineRange)
    BY <2>1, GoodPluginFacts
  <2>3. CASE calls'[c].kind = "noop"
    <3>1. lacking = {}
      <4> HIDE DEF want
      <4> QED BY <2>1, <2>2, <2>3, SubtractFacts
    <3> QED BY <2>3, <3>1
  <2>4. CASE calls'[c].kind = "increment"
    <3> DEFINE i == calls'[c].input
               asked == i.offset..((i.offset + i.limit) - 1)
    <3>1. /\ asked # {} /\ asked \subseteq lacking
          /\ i.offset + i.limit \notin lacking
          /\ \A l \in lacking : i.offset <= l
      <4> HIDE DEF want
      <4> QED BY <2>1, <2>4, FirstMissing
    <3>2. calls'[c].kind # "noop"
      BY <2>4
    <3> QED BY <3>1, <3>2, Zenon
  <2> QED BY <2>3, <2>4
<1>2. Spec => []Sound
  BY SoundInit, SoundNext, PTL DEF Spec
<1>3. Sound /\ [Next]_vars => [narrowed]_vars
  BY <1>1
<1>4. Spec => [][narrowed]_vars
  <2> HIDE DEF narrowed
  <2> QED BY <1>2, <1>3, PTL DEF Spec
<1> QED BY <1>4 DEF OnlyMissingRead

----------------------------------------------------------------------------
(* What the model is told, as long as the file gets no text back that it   *)
(* had before.                                                             *)

(* The hashes the harness holds are of texts the file had.                 *)
Known ==
    /\ disk \in past \cup {NoFile} /\ anchorHash \in past \cup {None}
    /\ persisted # None => persisted.hash \in past
    /\ \A c \in Calls : calls[c].hash \in past \cup {None}

(* Handlers run in the phase of the tools; before it, calls are prepared.  *)
Quietly ==
    /\ phase \notin {"tools", "run"} => Quiet
    /\ phase # "run" => \A c \in Calls : calls[c].pc \in {"idle", "called"}

(* A batch that mounts the file has no call that builds on a mount, and    *)
(* nothing takes the mount away while one waits.                           *)
NewBatch ==
    /\ \A c, d \in Calls : calls[c].kind = "new" => calls[d].kind \in {"new", "native"}
    /\ phase = "tools" => \A c \in Calls :
          /\ calls[c].kind = "new" => store = None
          /\ calls[c].kind \in {"noop", "increment", "updated"} => store # None
    /\ \A c \in Calls : calls[c].kind = "new" /\ calls[c].pc = "reread" => store # None

(* The output of a tool is the text of the file, if that is one that a     *)
(* hash of the harness stands for.                                         *)
Current ==
    \A d \in Calls : calls[d].pc \in {"ran", "reread"} =>
        /\ disk = anchorHash => calls[d].text = disk
        /\ \A c \in Calls : disk = calls[c].hash => calls[d].text = disk

Fits ==
    \A c \in Calls : calls[c].pc = "reread" /\ disk = calls[c].hash => calls[c].got.end <= Len(disk)

(* The lines of the mount, wherever the harness has them.                  *)
MountLine(l) ==
    \/ shown[l] # None
    \/ store # None /\ l \in Lines(store.segments)
    \/ persisted # None /\ l \in Lines(persisted.segments)
    \/ \E c \in Calls : calls[c].pc = "reread" /\ l \in Lines(calls[c].existing.segments)

AnchorShown ==
    disk = anchorHash /\ ~rebased =>
        \A l \in LineNos : MountLine(l) => l \in DOMAIN disk /\ shown[l] = disk[l]

Handles(c) == onToolResult(c) \/ Changed(c) \/ Increment(c) \/ Update(c)

(* A call that waits for its second look is the call it was.               *)
Waits(c) ==
    /\ disk \in Contents /\ ~Failed(calls[c]) /\ calls[c].text \in Contents /\ store \in GoodPlugin
    /\ calls'[c].pc = "reread" /\ calls'[c].kind = calls[c].kind /\ calls'[c].hash = calls[c].hash
    /\ calls'[c].text = calls[c].text /\ calls'[c].existing = store
    /\ calls'[c].got = Got(calls[c], Len(disk))
    /\ UNCHANGED <<store, anchorHash, retired, persisted, shown, mounted, rebased, clobbered>>

LEMMA WaitsFacts ==
    ASSUME Sound, NEW c \in Calls, NEW got \in LineRange, got = Got(calls[c], Len(disk)),
           disk \in Contents, ~Failed(calls[c]), calls[c].text \in Contents,
           calls[c].kind \in Mounting, store \in GoodPlugin, Awaits(c, got)
    PROVE  Waits(c) /\ \A d \in Calls \ {c} : calls'[d] = calls[d]
<1>1. /\ calls'[c] = [calls[c] EXCEPT !.pc = "reread", !.got = got, !.existing = store]
      /\ \A d \in Calls \ {c} : calls'[d] = calls[d]
      /\ UNCHANGED <<store, anchorHash, retired, persisted, shown, mounted, rebased, clobbered>>
  BY AwaitFacts DEF Awaits, Sound
<1>2. ASSUME NEW x \in Call
      PROVE  LET y == [x EXCEPT !.pc = "reread", !.got = got, !.existing = store]
             IN  /\ y.pc = "reread" /\ y.kind = x.kind /\ y.hash = x.hash /\ y.text = x.text
                 /\ y.got = got /\ y.existing = store
  BY DEF Call
<1>3. calls[c] \in Call
  BY DEF Sound, CallsOK
<1>4. /\ calls'[c].pc = "reread" /\ calls'[c].kind = calls[c].kind /\ calls'[c].hash = calls[c].hash
      /\ calls'[c].text = calls[c].text /\ calls'[c].existing = store /\ calls'[c].got = got
  BY <1>1, <1>2, <1>3
<1> QED BY <1>1, <1>4 DEF Waits

LEMMA HandlesFacts ==
    ASSUME Sound, NEW c \in Calls, Handles(c)
    PROVE  /\ calls[c].pc \in {"ran", "reread"} /\ UNCHANGED <<disk, past, phase, request>>
           /\ \A d \in Calls \ {c} : calls'[d] = calls[d]
           /\ calls'[c] = Idle \/ Waits(c)
<1> USE DEF world
<1>1. CASE onToolResult(c)
  <2>1. calls[c].pc = "ran" /\ UNCHANGED <<disk, past, phase, request>>
    BY <1>1, ResultCases, Zenon
  <2>2. CASE calls' = [calls EXCEPT ![c] = Idle]
    BY <2>1, <2>2, ToIdle DEF Sound
  <2>3. CASE calls' # [calls EXCEPT ![c] = Idle]
    <3>1. ~Native(c) /\ ~Answered(c) /\ \A got \in LineRange : ~MountNew(c, got)
      BY <2>3, Zenon DEF Native, Answered, MountNew
    <3>2. PICK got \in LineRange :
              /\ got = Got(calls[c], Len(disk)) /\ disk \in Contents
              /\ ~Failed(calls[c]) /\ calls[c].text \in Contents
              /\ calls[c].kind \in Mounting
              /\ store \in GoodPlugin /\ Awaits(c, got)
      BY <1>1, <3>1, ResultCases, Zenon
    <3>3. Waits(c) /\ \A d \in Calls \ {c} : calls'[d] = calls[d]
      BY <3>2, WaitsFacts
    <3> QED BY <2>1, <3>3
  <2> QED BY <2>2, <2>3
<1>2. CASE Changed(c) \/ Increment(c) \/ Update(c)
  <2>1. /\ calls[c].pc = "reread" /\ UNCHANGED <<disk, past, phase, request>>
        /\ calls' = [calls EXCEPT ![c] = Idle]
    BY <1>2 DEF Changed, Increment, Update, Reread, Native
  <2> QED BY <2>1, ToIdle DEF Sound
<1> QED BY <1>1, <1>2 DEF Handles

LEMMA BlockedFacts ==
    ASSUME Sound, NEW c \in Calls, Blocked(c)
    PROVE  /\ UNCHANGED <<disk, past, phase, request, store, anchorHash, persisted, shown, rebased>>
           /\ calls'[c] = Idle /\ \A d \in Calls \ {c} : calls'[d] = calls[d]
BY ToIdle DEF Blocked, Sound, world, harness, ghosts

LEMMA RanFacts ==
    ASSUME Sound, NEW c \in Calls, RunRead(c)
    PROVE  /\ UNCHANGED <<disk, past, request, store, anchorHash, persisted, shown, rebased>>
           /\ phase' = "run"
           /\ calls'[c].pc = "ran" /\ calls'[c].text = disk
           /\ calls'[c].kind = calls[c].kind /\ calls'[c].hash = calls[c].hash
           /\ \A d \in Calls \ {c} : calls'[d] = calls[d]
<1>1. /\ calls'[c] = [calls[c] EXCEPT !.pc = "ran", !.text = disk]
      /\ \A d \in Calls \ {c} : calls'[d] = calls[d]
  BY RunFacts DEF Sound
<1>2. ASSUME NEW x \in Call
      PROVE  LET y == [x EXCEPT !.pc = "ran", !.text = disk]
             IN  y.pc = "ran" /\ y.text = disk /\ y.kind = x.kind /\ y.hash = x.hash
  BY DEF Call
<1>3. calls[c] \in Call
  BY DEF Sound, CallsOK
<1>4. UNCHANGED <<disk, past, request, store, anchorHash, persisted, shown, rebased>> /\ phase' = "run"
  BY DEF RunRead, world, harness, ghosts
<1> QED BY <1>1, <1>2, <1>3, <1>4

LEMMA IdleFields ==
    Idle.pc = "idle" /\ Idle.kind = "native" /\ Idle.hash = None
BY DEF Idle

LEMMA ResumeFacts ==
    ASSUME Sound, Resume
    PROVE  /\ UNCHANGED <<disk, past, persisted, shown>> /\ phase' = "idle"
           /\ persisted \in GoodPlugin /\ store' = persisted /\ anchorHash' = persisted.hash
           /\ rebased' = (rebased \/ anchorHash # persisted.hash)
           /\ \A c \in Calls : calls'[c] = Idle
BY DEF Resume, Sound, PluginsOK, world

(* The steps that leave the calls and the mount alone.                     *)
Turns == Prompt \/ NoScan \/ buildMountDelta \/ NextTurn \/ onAgentSettled

LEMMA TurnsFacts ==
    ASSUME Turns
    PROVE  UNCHANGED <<disk, past, calls, store, anchorHash, persisted, shown, rebased, retired, clobbered>>
BY DEF Turns, Prompt, NoScan, buildMountDelta, NextTurn, onAgentSettled, harness, ghosts, world

WorldSteps == Delete \/ \E c \in Contents : Edit(c)

LEMMA WorldFacts ==
    ASSUME WorldSteps
    PROVE  UNCHANGED <<harness, calls, phase, ghosts>>
BY DEF WorldSteps, Delete, Edit

LEMMA Steps ==
    ASSUME Next
    PROVE  \/ WorldSteps \/ Turns \/ scanDiskChanges \/ Resume
           \/ \E c \in Calls, input \in Inputs : onToolCall(c, input)
           \/ \E c \in Calls : Blocked(c) \/ RunRead(c) \/ Handles(c)
BY Zenon DEF Next, WorldSteps, Turns, Handles

LEMMA QuietNext ==
    ASSUME Sound, Quietly, [Next]_vars
    PROVE  Quietly'
<1>1. CASE UNCHANGED <<calls, phase>>
  BY <1>1 DEF Quietly, Quiet
<1>2. CASE Turns
  <2>1. UNCHANGED calls
    BY <1>2, TurnsFacts
  <2>2. Quiet
    BY <1>2 DEF Turns, Prompt, NoScan, buildMountDelta, NextTurn, onAgentSettled, Quietly
  <2> QED BY <2>1, <2>2 DEF Quietly, Quiet
<1>3. CASE scanDiskChanges
  <2>1. UNCHANGED calls /\ Quiet
    BY <1>3 DEF scanDiskChanges, Quietly
  <2> QED BY <2>1 DEF Quietly, Quiet
<1>4. CASE Resume
  <2>1. \A c \in Calls : calls'[c].pc = "idle"
    BY <1>4, ResumeFacts, IdleFields
  <2> QED BY <2>1 DEF Quietly, Quiet
<1>5. ASSUME NEW c \in Calls, NEW input \in Inputs, onToolCall(c, input) PROVE Quietly'
  <2>1. phase' = "tools" /\ \A d \in Calls : calls[d].pc \in {"idle", "called"}
    BY <1>5 DEF onToolCall, Preparing, Quietly, Quiet
  <2>2. \A d \in Calls : calls'[d].pc \in {"idle", "called"}
    BY <1>5, <2>1, CallCases
  <2> QED BY <2>1, <2>2 DEF Quietly
<1>6. ASSUME NEW c \in Calls, Blocked(c) PROVE Quietly'
  BY <1>6, BlockedFacts, IdleFields DEF Quietly, Quiet
<1>7. ASSUME NEW c \in Calls, RunRead(c) PROVE Quietly'
  BY <1>7, RanFacts DEF Quietly
<1>8. ASSUME NEW c \in Calls, Handles(c) PROVE Quietly'
  <2>1. phase = "run" /\ phase' = "run"
    BY <1>8, HandlesFacts DEF Quietly
  <2> QED BY <2>1 DEF Quietly
<1>9. UNCHANGED vars \/ WorldSteps => UNCHANGED <<calls, phase>>
  BY WorldFacts DEF vars
<1> QED BY <1>1, <1>2, <1>3, <1>4, <1>5, <1>6, <1>7, <1>8, <1>9, Steps, Zenon

LEMMA BatchNext ==
    ASSUME Sound, Quietly, NewBatch, [Next]_vars
    PROVE  NewBatch'
<1>1. CASE UNCHANGED <<calls, phase, store>>
  BY <1>1 DEF NewBatch
<1>2. ASSUME \A c \in Calls : calls'[c].kind = "native" PROVE NewBatch'
  BY <1>2 DEF NewBatch
<1>3. Quiet => \A c \in Calls : calls[c].kind = "native"
  BY DEF Quiet, Sound, CallsOK, GoodCall
<1>4. CASE Turns
  <2>1. UNCHANGED calls /\ Quiet
    BY <1>4, TurnsFacts
       DEF Turns, Prompt, NoScan, buildMountDelta, NextTurn, onAgentSettled, Quietly
  <2> QED BY <1>2, <1>3, <2>1
<1>5. CASE scanDiskChanges
  <2>1. UNCHANGED calls /\ Quiet
    BY <1>5 DEF scanDiskChanges, Quietly
  <2> QED BY <1>2, <1>3, <2>1
<1>6. CASE Resume
  BY <1>2, <1>6, ResumeFacts, IdleFields
<1>7. ASSUME NEW c \in Calls, NEW input \in Inputs, onToolCall(c, input) PROVE NewBatch'
  <2>1. UNCHANGED store /\ (phase = "tools" \/ Quiet)
    BY <1>7 DEF onToolCall, Preparing
  <2>2. \A d \in Calls : /\ calls[d].kind \in Kinds
                         /\ calls[d].kind = "new" => store = None
                         /\ calls[d].kind \in {"noop", "increment", "updated"} => store # None
    BY <1>3, <2>1 DEF NewBatch, Sound, CallsOK, Call
  <2>3. /\ calls'[c].kind = "new" => store = None
        /\ calls'[c].kind \in {"noop", "increment", "updated"} => store # None
        /\ calls'[c].kind \in Kinds /\ calls'[c].pc = "called"
        /\ \A d \in Calls \ {c} : calls'[d] = calls[d]
    BY <1>7, CallCases DEF CallsOK, Call
  <2>4. \A d \in Calls : /\ calls'[d].kind \in Kinds
                         /\ calls'[d].kind = "new" => store' = None
                         /\ calls'[d].kind \in {"noop", "increment", "updated"} => store' # None
    BY <2>1, <2>2, <2>3
  <2>5. \A d, e \in Calls : calls'[d].kind = "new" => calls'[e].kind \in {"new", "native"}
    BY <2>4 DEF Kinds
  <2>6. \A d \in Calls : calls'[d].pc # "reread"
    BY <1>7, <2>3 DEF onToolCall, Preparing, Quietly, Quiet
  <2> QED BY <2>4, <2>5, <2>6 DEF NewBatch
<1>8. ASSUME NEW c \in Calls, Blocked(c) PROVE NewBatch'
  <2>1. /\ UNCHANGED <<phase, store>> /\ calls'[c].kind = "native"
        /\ \A d \in Calls \ {c} : calls'[d] = calls[d]
    BY <1>8, BlockedFacts, IdleFields
  <2> QED BY <2>1 DEF NewBatch
<1>9. ASSUME NEW c \in Calls, RunRead(c) PROVE NewBatch'
  <2>1. /\ UNCHANGED store /\ phase' = "run" /\ calls'[c].kind = calls[c].kind /\ calls'[c].pc = "ran"
        /\ \A d \in Calls \ {c} : calls'[d] = calls[d]
    BY <1>9, RanFacts
  <2> QED BY <2>1 DEF NewBatch
<1>10. ASSUME NEW c \in Calls, Handles(c) PROVE NewBatch'
  <2>1. /\ phase' = "run" /\ \A d \in Calls \ {c} : calls'[d] = calls[d]
        /\ calls'[c] = Idle \/ Waits(c)
    BY <1>10, HandlesFacts DEF Quietly
  <2>2. calls'[c].kind = "native" \/ (Waits(c) /\ calls'[c].kind = calls[c].kind)
    BY <2>1, IdleFields DEF Waits
  <2>3. \A d, e \in Calls : calls'[d].kind = "new" => calls'[e].kind \in {"new", "native"}
    BY <2>1, <2>2 DEF NewBatch
  <2>4. ASSUME NEW d \in Calls, calls'[d].kind = "new", calls'[d].pc = "reread" PROVE store' # None
    <3>1. CASE Waits(c)
      BY <3>1, GoodPluginFacts DEF Waits
    <3>2. CASE ~Waits(c)
      <4>1. d # c /\ calls[d].kind = "new" /\ calls[d].pc = "reread"
        BY <2>1, <2>2, <2>4, <3>2
      <4>2. store # None /\ calls[c].kind \in {"new", "native"}
        BY <4>1 DEF NewBatch
      <4>3. CASE onToolResult(c)
        <5>1. UNCHANGED store \/ \E got \in LineRange : store = None /\ MountNew(c, got)
          BY <4>3, ResultCases, Zenon DEF Native, Answered, Awaits
        <5> QED BY <4>2, <5>1
      <4>4. CASE Changed(c)
        BY <4>2, <4>4 DEF Changed, Native
      <4>5. CASE Increment(c)
        <5>1. store' \in GoodPlugin
          <6>1. calls[c].existing \in GoodPlugin /\ calls[c].got \in LineRange
            BY <4>5, RereadFacts DEF Increment
          <6> QED BY <4>5, <6>1, IncrementSegments DEF Increment
        <5> QED BY <5>1, GoodPluginFacts
      <4>6. CASE Update(c)
        BY <4>2, <4>6 DEF Update
      <4> QED BY <1>10, <4>3, <4>4, <4>5, <4>6 DEF Handles
    <3> QED BY <3>1, <3>2
  <2> QED BY <2>1, <2>3, <2>4 DEF NewBatch
<1>11. UNCHANGED vars \/ WorldSteps => UNCHANGED <<calls, phase, store>>
  BY WorldFacts DEF vars, harness
<1> QED BY <1>1, <1>4, <1>5, <1>6, <1>7, <1>8, <1>9, <1>10, <1>11, Steps, Zenon

LEMMA KnownNext ==
    ASSUME Sound, Known, [Next]_vars
    PROVE  Known'
<1>1. CASE UNCHANGED <<disk, past, anchorHash, persisted, calls>>
  BY <1>1 DEF Known
<1>2. CASE WorldSteps
  <2>1. UNCHANGED <<anchorHash, persisted, calls>>
    BY <1>2, WorldFacts DEF harness
  <2>2. past \subseteq past' /\ disk' \in past' \cup {NoFile}
    BY <1>2 DEF WorldSteps, Delete, Edit
  <2> QED BY <2>1, <2>2 DEF Known
<1>3. CASE scanDiskChanges
  <2>1. UNCHANGED <<disk, past, anchorHash, calls>>
    BY <1>3, ScanCases DEF world
  <2>2. UNCHANGED persisted \/ (disk \in Contents /\ persisted'.hash = disk)
    BY <1>3, ScanCases DEF Retire
  <2>3. disk \in Contents => disk \in past
    BY NoneAssumption DEF Known
  <2> QED BY <2>1, <2>2, <2>3 DEF Known
<1>4. CASE Resume
  <2>1. /\ UNCHANGED <<disk, past, persisted>> /\ persisted # None /\ anchorHash' = persisted.hash
        /\ \A c \in Calls : calls'[c].hash = None
    BY <1>4, ResumeFacts, IdleFields, GoodPluginFacts
  <2> QED BY <2>1 DEF Known
<1>5. ASSUME NEW c \in Calls, NEW input \in Inputs, onToolCall(c, input) PROVE Known'
  <2>1. UNCHANGED <<disk, past, anchorHash, persisted>>
    BY <1>5 DEF onToolCall, world
  <2>2. /\ \A d \in Calls \ {c} : calls'[d] = calls[d]
        /\ calls'[c].hash = None \/ (disk \in Contents /\ calls'[c].hash = disk)
    BY <1>5, CallCases
  <2>3. disk \in Contents => disk \in past
    BY NoneAssumption DEF Known
  <2> QED BY <2>1, <2>2, <2>3 DEF Known
<1>6. ASSUME NEW c \in Calls, Blocked(c) PROVE Known'
  BY <1>6, BlockedFacts, IdleFields DEF Known
<1>7. ASSUME NEW c \in Calls, RunRead(c) PROVE Known'
  <2>1. /\ UNCHANGED <<disk, past, anchorHash, persisted>> /\ calls'[c].hash = calls[c].hash
        /\ \A d \in Calls \ {c} : calls'[d] = calls[d]
    BY <1>7, RanFacts
  <2> QED BY <2>1 DEF Known
<1>8. ASSUME NEW c \in Calls, Handles(c) PROVE Known'
  <2>1. /\ UNCHANGED <<disk, past>> /\ \A d \in Calls \ {c} : calls'[d] = calls[d]
        /\ calls'[c].hash = None \/ calls'[c].hash = calls[c].hash
    BY <1>8, HandlesFacts, IdleFields DEF Waits
  <2>2. ASSUME UNCHANGED <<anchorHash, persisted>>
                \/ (calls[c].hash \in Contents /\ anchorHash' = calls[c].hash
                     /\ (UNCHANGED persisted \/ persisted'.hash = calls[c].hash))
                \/ (calls[c].hash \in Contents /\ UNCHANGED anchorHash
                     /\ (UNCHANGED persisted \/ persisted'.hash = calls[c].hash))
        PROVE  Known'
    <3>1. calls[c].hash \in Contents => calls[c].hash \in past
      BY NoneAssumption DEF Known
    <3> QED BY <2>1, <2>2, <3>1 DEF Known
  <2>3. CASE onToolResult(c)
    <3>1. \/ UNCHANGED <<anchorHash, persisted>>
          \/ \E got \in LineRange : calls[c].hash \in Contents /\ MountNew(c, got)
      BY <2>3, ResultCases, Zenon DEF Native, Answered, Awaits
    <3>2. CASE \E got \in LineRange : calls[c].hash \in Contents /\ MountNew(c, got)
      <4>1. calls[c].hash \in Contents /\ anchorHash' = calls[c].hash
            /\ persisted'.hash = calls[c].hash
        BY <3>2 DEF MountNew
      <4> QED BY <2>2, <4>1
    <3> QED BY <2>2, <3>1, <3>2
  <2>4. CASE Changed(c)
    BY <2>2, <2>4 DEF Changed, Native
  <2>5. CASE Increment(c)
    <3>1. calls[c].hash \in Contents /\ anchorHash' = calls[c].hash /\ UNCHANGED persisted
      BY <2>5, RereadFacts DEF Increment
    <3> QED BY <2>2, <3>1
  <2>6. CASE Update(c)
    <3>1. calls[c].hash \in Contents /\ UNCHANGED anchorHash
          /\ (UNCHANGED persisted \/ persisted'.hash = calls[c].hash)
      BY <2>6, UpdateCases, RereadFacts DEF Retire
    <3> QED BY <2>2, <3>1
  <2> QED BY <1>8, <2>3, <2>4, <2>5, <2>6 DEF Handles
<1>9. UNCHANGED vars \/ Turns => UNCHANGED <<disk, past, anchorHash, persisted, calls>>
  BY TurnsFacts DEF vars, harness
<1> QED BY <1>1, <1>2, <1>3, <1>4, <1>5, <1>6, <1>7, <1>8, <1>9, Steps, Zenon

(* A new text is none that a hash of the harness stands for.               *)
LEMMA FreshWorld ==
    ASSUME ~Reverts, Sound, Known, WorldSteps
    PROVE  disk' # anchorHash /\ \A c \in Calls : disk' # calls[c].hash
<1>1. past \subseteq Contents
  BY DEF Sound, WorldOK
<1>2. disk' \in Contents \cup {NoFile} /\ disk' \notin past
  BY <1>1, NoneAssumption DEF WorldSteps, Delete, Edit
<1>3. disk' # None
  BY <1>2, NoneAssumption
<1> QED BY <1>2, <1>3 DEF Known

LEMMA DiskIsNoNone ==
    ASSUME Sound
    PROVE  disk # None
BY NoneAssumption DEF Sound, WorldOK

LEMMA CurrentNext ==
    ASSUME ~Reverts, Sound, Known, Quietly, Current, [Next]_vars
    PROVE  Current'
<1>1. CASE UNCHANGED <<disk, anchorHash, calls>>
  BY <1>1 DEF Current
<1>2. CASE WorldSteps
  <2>1. UNCHANGED <<anchorHash, calls>>
    BY <1>2, WorldFacts DEF harness
  <2> QED BY <1>2, <2>1, FreshWorld DEF Current
<1>3. CASE Resume
  <2>1. \A c \in Calls : calls'[c].pc = "idle"
    BY <1>3, ResumeFacts, IdleFields
  <2> QED BY <2>1 DEF Current
<1>4. ASSUME NEW c \in Calls, NEW input \in Inputs, onToolCall(c, input) PROVE Current'
  <2>1. \A d \in Calls : calls[d].pc \in {"idle", "called"}
    BY <1>4 DEF onToolCall, Preparing, Quietly, Quiet
  <2>2. \A d \in Calls : calls'[d].pc \in {"idle", "called"}
    BY <1>4, <2>1, CallCases
  <2> QED BY <2>2 DEF Current
<1>5. ASSUME NEW c \in Calls, UNCHANGED disk, calls'[c] = Idle \/ Waits(c),
             calls[c].pc \in {"ran", "reread"} \/ calls'[c] = Idle,
             \A d \in Calls \ {c} : calls'[d] = calls[d],
             anchorHash' = anchorHash \/ anchorHash' = calls[c].hash
      PROVE  Current'
  <2>1. \/ calls'[c].pc = "idle" /\ calls'[c].hash = None
        \/ /\ calls[c].pc \in {"ran", "reread"} /\ calls'[c].hash = calls[c].hash
           /\ calls'[c].text = calls[c].text
    BY <1>5, IdleFields DEF Waits
  <2> SUFFICES ASSUME NEW d \in Calls, calls'[d].pc \in {"ran", "reread"}
               PROVE  /\ disk = anchorHash' => calls'[d].text = disk
                      /\ \A e \in Calls : disk = calls'[e].hash => calls'[d].text = disk
    BY <1>5 DEF Current
  <2>2. calls[d].pc \in {"ran", "reread"} /\ calls'[d].text = calls[d].text
    BY <1>5, <2>1
  <2>3. /\ disk = anchorHash => calls[d].text = disk
        /\ \A e \in Calls : disk = calls[e].hash => calls[d].text = disk
    BY <2>2 DEF Current
  <2>4. \A e \in Calls : disk = calls'[e].hash => disk = calls[e].hash
    BY <1>5, <2>1, DiskIsNoNone
  <2> QED BY <1>5, <2>2, <2>3, <2>4
<1>6. ASSUME NEW c \in Calls, Blocked(c) PROVE Current'
  BY <1>5, <1>6, BlockedFacts
<1>7. ASSUME NEW c \in Calls, RunRead(c) PROVE Current'
  <2>1. /\ UNCHANGED <<disk, anchorHash>> /\ calls'[c].text = disk /\ calls'[c].hash = calls[c].hash
        /\ \A d \in Calls \ {c} : calls'[d] = calls[d]
    BY <1>7, RanFacts
  <2>2. \A e \in Calls : calls'[e].hash = calls[e].hash
    BY <2>1
  <2> QED BY <2>1, <2>2 DEF Current
<1>8. ASSUME NEW c \in Calls, Handles(c) PROVE Current'
  <2>1. anchorHash' = anchorHash \/ anchorHash' = calls[c].hash
    <3>1. CASE onToolResult(c)
      <4>1. UNCHANGED anchorHash \/ \E got \in LineRange : MountNew(c, got)
        BY <3>1, ResultCases, Zenon DEF Native, Answered, Awaits
      <4> QED BY <4>1 DEF MountNew
    <3>2. CASE Changed(c) \/ Increment(c) \/ Update(c)
      BY <3>2 DEF Changed, Native, Increment, Update
    <3> QED BY <1>8, <3>1, <3>2 DEF Handles
  <2> QED BY <1>5, <1>8, <2>1, HandlesFacts
<1>9. UNCHANGED vars \/ Turns \/ scanDiskChanges => UNCHANGED <<disk, anchorHash, calls>>
  BY TurnsFacts, ScanCases DEF vars, harness, world
<1> QED BY <1>1, <1>2, <1>3, <1>4, <1>6, <1>7, <1>8, <1>9, Steps, Zenon

(* What the harness takes an output of the file's own text for.            *)
LEMMA GotOfText ==
    ASSUME NEW call \in Call, call.text \in Contents
    PROVE  LET got == Got(call, Len(call.text))
           IN  /\ got.start = Output(call).start /\ got.end <= Output(call).end
               /\ got.end <= Len(call.text)
<1> DEFINE n == Len(call.text)
           from == Start(call.input)
           limit == call.input.limit
<1>1. call.input \in [offset : Int, limit : Int] /\ n \in Nat /\ MaxOutput \in Nat
  BY ContentFacts, MountsAssumption DEF Call
<1>2. call.input.offset \in Int /\ limit \in Int
  BY <1>1
<1>3. from \in Int /\ 1 <= from /\ from = IF call.input.offset = NoNum THEN 1 ELSE Greatest(1, call.input.offset)
  BY <1>2 DEF Start, Greatest, NoNum
<1>4. Selected(call) = Least(IF limit = NoNum THEN n ELSE from + Greatest(0, limit) - 1, n)
  BY <1>3, Zenon DEF Selected, rangeFromInput
<1>5. Output(call) = [start |-> from, end |-> Least(Selected(call), from + MaxOutput - 1)]
  BY DEF Output
<1> DEFINE s == Selected(call)
           o == Output(call).end
           end == IF Truncated(call) THEN o
                  ELSE IF limit # NoNum
                       THEN from + Least(Greatest(0, limit), n - from + 1) - 1
                       ELSE n
<1>6. Got(call, n) = [start |-> from, end |-> end]
  BY Zenon DEF Got
<1>7. Truncated(call) <=> o < s
  BY DEF Truncated
<1>8. o = Least(s, from + MaxOutput - 1)
  BY <1>5
<1> HIDE DEF n, from, limit, s, o
<1>9. s \in Int /\ s <= n /\ (limit = NoNum => s = n)
      /\ (limit # NoNum => s = from + Least(Greatest(0, limit), n - from + 1) - 1)
  <2>1. s = Least(IF limit = NoNum THEN n ELSE from + Greatest(0, limit) - 1, n)
    BY <1>4 DEF s
  <2> QED BY <1>1, <1>2, <1>3, <2>1 DEF Least, Greatest, limit
<1>10. o \in Int /\ o <= s
  BY <1>1, <1>3, <1>8, <1>9 DEF Least
<1>11. end <= o /\ end <= n
  BY <1>1, <1>7, <1>9, <1>10 DEF s, o
<1> HIDE DEF end
<1>12. Output(call).start = from
  BY <1>5
<1> QED BY <1>6, <1>11, <1>12 DEF n, o

LEMMA FitsNext ==
    ASSUME ~Reverts, Sound, Known, Current, Fits, [Next]_vars
    PROVE  Fits'
<1>1. CASE UNCHANGED <<disk, calls>>
  BY <1>1 DEF Fits
<1>2. CASE WorldSteps
  <2>1. UNCHANGED calls
    BY <1>2, WorldFacts
  <2> QED BY <1>2, <2>1, FreshWorld DEF Fits
<1>3. CASE Resume
  <2>1. \A c \in Calls : calls'[c].pc = "idle"
    BY <1>3, ResumeFacts, IdleFields
  <2> QED BY <2>1 DEF Fits
<1>4. ASSUME NEW c \in Calls, UNCHANGED disk, calls'[c].pc # "reread",
             \A d \in Calls \ {c} : calls'[d] = calls[d]
      PROVE  Fits'
  BY <1>4 DEF Fits
<1>5. ASSUME NEW c \in Calls, NEW input \in Inputs, onToolCall(c, input) PROVE Fits'
  <2>1. UNCHANGED disk
    BY <1>5 DEF onToolCall, world
  <2> QED BY <1>4, <1>5, <2>1, CallCases
<1>6. ASSUME NEW c \in Calls, Blocked(c) \/ RunRead(c) PROVE Fits'
  BY <1>4, <1>6, BlockedFacts, RanFacts, IdleFields
<1>7. ASSUME NEW c \in Calls, Handles(c) PROVE Fits'
  <2>1. /\ calls[c].pc \in {"ran", "reread"} /\ UNCHANGED disk
        /\ \A d \in Calls \ {c} : calls'[d] = calls[d]
        /\ calls'[c] = Idle \/ Waits(c)
    BY <1>7, HandlesFacts
  <2>2. CASE calls'[c] = Idle
    BY <1>4, <2>1, <2>2, IdleFields
  <2>3. CASE Waits(c)
    <3>1. disk = calls'[c].hash => calls'[c].got.end <= Len(disk)
      <4> SUFFICES ASSUME disk = calls[c].hash PROVE Got(calls[c], Len(disk)).end <= Len(disk)
        BY <2>3 DEF Waits
      <4>1. calls[c].text = disk
        BY <2>1 DEF Current
      <4>2. calls[c] \in Call /\ calls[c].text \in Contents
        BY <2>3 DEF Sound, CallsOK, Waits
      <4> QED BY <4>1, <4>2, GotOfText
    <3> QED BY <2>1, <3>1 DEF Fits
  <2> QED BY <2>1, <2>2, <2>3
<1>8. UNCHANGED vars \/ Turns \/ scanDiskChanges => UNCHANGED <<disk, calls>>
  BY TurnsFacts, ScanCases DEF vars, world
<1> QED BY <1>1, <1>2, <1>3, <1>5, <1>6, <1>7, <1>8, Steps, Zenon

(* A line of the mount after the step was one before.                      *)
LEMMA AnchorKept ==
    ASSUME AnchorShown, UNCHANGED <<disk, anchorHash, shown>>, rebased => rebased',
           \A l \in LineNos : MountLine(l)' => MountLine(l)
    PROVE  AnchorShown'
BY DEF AnchorShown

(* Calls that begin to wait hold the plugin of the store, if any.          *)
LEMMA AnchorCalls ==
    ASSUME AnchorShown, UNCHANGED <<disk, anchorHash, shown, rebased>>,
           store' # None => store' = store, UNCHANGED persisted,
           \A d \in Calls : calls'[d].pc = "reread" =>
              \/ calls'[d] = calls[d]
              \/ store # None /\ calls'[d].existing = store
    PROVE  AnchorShown'
<1>1. ASSUME NEW l \in LineNos, MountLine(l)' PROVE MountLine(l)
  <2>1. CASE shown'[l] # None
    BY <2>1 DEF MountLine
  <2>2. CASE store' # None /\ l \in Lines(store'.segments)
    BY <2>2 DEF MountLine
  <2>3. CASE persisted' # None /\ l \in Lines(persisted'.segments)
    BY <2>3 DEF MountLine
  <2>4. ASSUME NEW d \in Calls, calls'[d].pc = "reread", l \in Lines(calls'[d].existing.segments)
        PROVE  MountLine(l)
    <3>1. CASE calls'[d] = calls[d]
      BY <2>4, <3>1 DEF MountLine
    <3>2. CASE store # None /\ calls'[d].existing = store
      BY <2>4, <3>2 DEF MountLine
    <3> QED BY <2>4, <3>1, <3>2
  <2> QED BY <1>1, <2>1, <2>2, <2>3, <2>4 DEF MountLine
<1> QED BY <1>1, AnchorKept

LEMMA AnchorScan ==
    ASSUME Sound, Quietly, AnchorShown, scanDiskChanges
    PROVE  AnchorShown'
<1>1. /\ UNCHANGED <<disk, anchorHash, shown, rebased, calls>> /\ store \in GoodPlugin /\ store # None
  BY ScanCases, GoodPluginFacts DEF world
<1>2. CASE Retire
  <2>1. store' = None /\ UNCHANGED persisted
    BY <1>2 DEF Retire
  <2> QED BY <1>1, <2>1, AnchorCalls
<1>3. CASE disk \in Contents /\ persisted' = store' /\ store'.segments = clampAll(store.segments, Len(disk))
  <2>1. Lines(store'.segments) \subseteq Lines(store.segments)
    BY <1>1, <1>3, ClampLines
  <2>2. ASSUME NEW l \in LineNos, MountLine(l)' PROVE MountLine(l)
    BY <1>1, <1>3, <2>1, <2>2 DEF MountLine
  <2> QED BY <1>1, <2>2, AnchorKept
<1> QED BY <1>2, <1>3, ScanCases

(* What goes through is the text of the anchor.                            *)
LEMMA AnchorNative ==
    ASSUME Sound, Current, AnchorShown, NEW c \in Calls, calls[c].pc \in {"ran", "reread"},
           Native(c), UNCHANGED disk
    PROVE  AnchorShown'
<1>1. /\ UNCHANGED <<store, anchorHash, persisted, rebased>>
      /\ calls'[c].pc = "idle" /\ \A d \in Calls \ {c} : calls'[d] = calls[d]
  BY ToIdle, IdleFields DEF Native, Sound
<1>2. CASE Failed(calls[c])
  <2>1. UNCHANGED shown
    BY <1>2 DEF Native
  <2> QED BY <1>1, <2>1, AnchorCalls
<1>3. CASE ~Failed(calls[c])
  <2> SUFFICES ASSUME disk = anchorHash, ~rebased, NEW l \in LineNos, MountLine(l)'
               PROVE  l \in DOMAIN disk /\ shown'[l] = disk[l]
    BY <1>1 DEF AnchorShown
  <2>1. calls[c].text = disk /\ disk \in Contents
    BY DiskIsNoNone DEF Current, Sound, KeptOK
  <2>2. shown'[l] = IF shown[l] = None THEN None ELSE Show(shown, disk, Output(calls[c]))[l]
    BY <1>3, <2>1 DEF Native
  <2>3. MountLine(l)
    BY <1>1, <2>2, IdleFields DEF MountLine
  <2>4. l \in DOMAIN disk /\ shown[l] = disk[l]
    BY <2>3 DEF AnchorShown
  <2>5. disk[l] # None
    BY <2>1, <2>4, ContentFacts, NoneAssumption
  <2>6. Show(shown, disk, Output(calls[c]))[l] = disk[l]
    BY <2>4 DEF Show
  <2> QED BY <2>2, <2>4, <2>5, <2>6
<1> QED BY <1>2, <1>3

LEMMA OutputEnd ==
    ASSUME NEW call \in Call, call.text \in Contents
    PROVE  Output(call).end \in Int
<1>1. call.input \in [offset : Int, limit : Int] /\ Len(call.text) \in Nat /\ MaxOutput \in Nat
  BY ContentFacts, MountsAssumption DEF Call
<1>2. Start(call.input) \in Int
  BY <1>1 DEF Start, Greatest
<1>3. Selected(call) \in Int
  <2>1. rangeFromInput(call.input, Len(call.text)) \in Span
    BY <1>1, InputFacts
  <2> QED BY <2>1 DEF Span, Selected
<1> QED BY <1>1, <1>2, <1>3 DEF Output, Least

(* The anchor shows every line that is mounted with it.                    *)
LEMMA AnchorMountNew ==
    ASSUME Sound, NewBatch, Current, NEW c \in Calls, NEW got \in LineRange,
           calls[c].pc = "ran", calls[c].kind = "new", store = None,
           disk \in Contents, calls[c].text \in Contents, got = Got(calls[c], Len(disk)),
           MountNew(c, got), UNCHANGED disk
    PROVE  AnchorShown'
<1>1. /\ store'.segments = Within(got, Len(disk)) /\ persisted' = store'
      /\ anchorHash' = calls[c].hash
      /\ shown' = Show(Nothing, calls[c].text, Output(calls[c]))
      /\ calls'[c].pc = "idle" /\ \A d \in Calls \ {c} : calls'[d] = calls[d]
  BY ToIdle, IdleFields DEF MountNew, Sound
<1>2. \A d \in Calls : calls'[d].pc # "reread"
  <2> SUFFICES ASSUME NEW d \in Calls, d # c, calls[d].pc = "reread" PROVE FALSE
    BY <1>1
  <2>1. calls[d].kind \in {"new", "native"} /\ calls[d].kind \in Mounting
    BY DEF NewBatch, Sound, CallsOK, GoodCall
  <2> QED BY <2>1 DEF NewBatch, Mounting
<1> SUFFICES ASSUME disk = calls[c].hash, NEW l \in LineNos, MountLine(l)'
             PROVE  l \in DOMAIN disk /\ shown'[l] = disk[l]
  BY <1>1 DEF AnchorShown
<1>3. calls[c].text = disk /\ DOMAIN disk = 1..Len(disk) /\ Len(disk) \in Nat
  BY ContentFacts DEF Current
<1>4. shown'[l] = IF l \in Output(calls[c]).start..Output(calls[c]).end \cap DOMAIN disk
                  THEN disk[l] ELSE None
  BY <1>1, <1>3 DEF Show, Nothing
<1>5. CASE shown'[l] # None
  BY <1>4, <1>5
<1>6. CASE l \in Lines(store'.segments)
  <2>1. Lines(Within(got, Len(disk))) = IF got.end <= Len(disk) THEN got.start..got.end ELSE {}
    BY <1>3, WithinFacts
  <2>2. l \in got.start..got.end /\ got.end <= Len(disk) /\ got.start \in Int /\ got.end \in Int
        /\ 1 <= got.start
    BY <1>1, <1>6, <2>1, RangeFacts
  <2>3. got.start = Output(calls[c]).start /\ got.end <= Output(calls[c]).end
    BY <1>3, GotOfText DEF Sound, CallsOK
  <2>4. l \in Int /\ got.start <= l /\ l <= got.end
    BY <2>2
  <2>5. l \in DOMAIN disk
    BY <1>3, <2>2, <2>4
  <2>6. Output(calls[c]).end \in Int
    BY <1>3, OutputEnd DEF Sound, CallsOK
  <2>7. l \in Output(calls[c]).start..Output(calls[c]).end
    BY <2>2, <2>3, <2>4, <2>6
  <2> QED BY <1>4, <2>5, <2>7
<1> QED BY <1>1, <1>2, <1>5, <1>6 DEF MountLine

(* Lines read after the second look are those of the file.                 *)
LEMMA AnchorRead ==
    ASSUME Sound, Fits, AnchorShown, NEW c \in Calls, Reread(c), disk = calls[c].hash,
           UNCHANGED <<disk, anchorHash, rebased>>, disk = anchorHash, ~rebased,
           shown' = Show(shown, disk, calls[c].got), calls' = [calls EXCEPT ![c] = Idle],
           persisted' = persisted \/ persisted' = store',
           Lines(store'.segments) \subseteq
               Lines(calls[c].existing.segments) \cup (calls[c].got.start..calls[c].got.end)
    PROVE  AnchorShown'
<1>1. /\ calls'[c].pc = "idle" /\ \A d \in Calls \ {c} : calls'[d] = calls[d]
      /\ calls[c].pc = "reread" /\ calls[c].got \in LineRange
      /\ disk \in Contents /\ DOMAIN disk = 1..Len(disk) /\ Len(disk) \in Nat
      /\ calls[c].got.end <= Len(disk)
  BY ToIdle, IdleFields, RereadFacts, ContentFacts DEF Sound, Fits
<1> SUFFICES ASSUME NEW l \in LineNos, MountLine(l)'
             PROVE  l \in DOMAIN disk /\ shown'[l] = disk[l]
  BY DEF AnchorShown
<1> DEFINE read == l \in calls[c].got.start..calls[c].got.end
<1>2. shown'[l] = IF read /\ l \in DOMAIN disk THEN disk[l] ELSE shown[l]
  BY DEF Show
<1>3. read => l \in DOMAIN disk
  <2> SUFFICES ASSUME read PROVE l \in 1..Len(disk)
    BY <1>1
  <2>1. calls[c].got.start \in Int /\ calls[c].got.end \in Int /\ 1 <= calls[c].got.start
    BY <1>1, RangeFacts
  <2> QED BY <1>1, <2>1
<1>4. ASSUME MountLine(l) PROVE l \in DOMAIN disk /\ shown'[l] = disk[l]
  BY <1>2, <1>4 DEF AnchorShown
<1>5. ASSUME read PROVE l \in DOMAIN disk /\ shown'[l] = disk[l]
  BY <1>2, <1>3, <1>5
<1>6. MountLine(l) \/ read
  <2>1. CASE l \in Lines(store'.segments)
    BY <1>1, <2>1 DEF MountLine
  <2>2. CASE l \notin Lines(store'.segments)
    <3> HIDE DEF read
    <3> QED BY <1>1, <1>2, <2>2 DEF MountLine
  <2> QED BY <2>1, <2>2
<1> QED BY <1>4, <1>5, <1>6

LEMMA AnchorHandles ==
    ASSUME Sound, NewBatch, Current, Fits, AnchorShown, NEW c \in Calls, Handles(c)
    PROVE  AnchorShown'
<1>1. /\ calls[c].pc \in {"ran", "reread"} /\ UNCHANGED disk
      /\ \A d \in Calls \ {c} : calls'[d] = calls[d]
      /\ calls'[c] = Idle \/ Waits(c)
  BY HandlesFacts
<1>2. CASE Waits(c)
  <2>1. /\ UNCHANGED <<anchorHash, shown, rebased, store, persisted>>
        /\ store # None /\ calls'[c].existing = store
    BY <1>2, GoodPluginFacts DEF Waits
  <2> QED BY <1>1, <2>1, AnchorCalls
<1>3. CASE Native(c)
  BY <1>1, <1>3, AnchorNative
<1>4. CASE Answered(c)
  <2>1. UNCHANGED <<anchorHash, shown, rebased, store, persisted>> /\ calls'[c].pc = "idle"
    BY <1>4, ToIdle, IdleFields DEF Answered, Sound
  <2> QED BY <1>1, <2>1, AnchorCalls
<1>5. CASE onToolResult(c) /\ ~Native(c) /\ ~Answered(c) /\ ~Waits(c)
  <2>1. PICK got \in LineRange :
            /\ calls[c].pc = "ran"
            /\ got = Got(calls[c], Len(disk)) /\ disk \in Contents
            /\ ~Failed(calls[c]) /\ calls[c].text \in Contents /\ calls[c].kind \in Mounting
            /\ \/ store = None /\ calls[c].kind = "new" /\ MountNew(c, got)
               \/ store \in GoodPlugin /\ Awaits(c, got)
    BY <1>5, ResultCases, Zenon
  <2>2. ~(store \in GoodPlugin /\ Awaits(c, got))
    BY <1>5, <2>1, WaitsFacts
  <2> QED BY <1>1, <2>1, <2>2, AnchorMountNew
<1>6. CASE Increment(c)
  <2> DEFINE old == calls[c].existing
             got == calls[c].got
  <2>1. /\ Reread(c) /\ disk = calls[c].hash
        /\ store' = [old EXCEPT !.segments = mergeSegments(Append(@, got))]
        /\ anchorHash' = calls[c].hash
        /\ shown' = Show(shown, disk, got)
        /\ rebased' = (rebased \/ anchorHash # calls[c].hash)
        /\ calls' = [calls EXCEPT ![c] = Idle]
        /\ UNCHANGED persisted
    BY <1>6 DEF Increment
  <2>2. Lines(store'.segments) = Lines(old.segments) \cup (got.start..got.end)
    <3>1. old \in GoodPlugin /\ got \in LineRange
      BY <2>1, RereadFacts
    <3> HIDE DEF old, got
    <3> QED BY <2>1, <3>1, IncrementSegments
  <2>3. CASE rebased'
    BY <2>3 DEF AnchorShown
  <2>4. CASE ~rebased'
    <3>1. ~rebased /\ ~rebased' /\ disk = anchorHash /\ UNCHANGED <<anchorHash, rebased>>
      BY <2>1, <2>4 DEF Sound, GhostsOK
    <3> QED BY <1>1, <2>1, <2>2, <3>1, AnchorRead
  <2> QED BY <2>3, <2>4
<1>7. CASE Update(c)
  <2>1. /\ Reread(c) /\ disk = calls[c].hash
        /\ calls' = [calls EXCEPT ![c] = Idle]
        /\ UNCHANGED <<anchorHash, rebased>>
    BY <1>7, UpdateCases
  <2>2. CASE Retire /\ UNCHANGED <<shown, mounted, clobbered>>
    <3>1. UNCHANGED <<persisted, shown>> /\ store' = None /\ calls'[c].pc = "idle"
      BY <2>1, <2>2, ToIdle, IdleFields DEF Retire, Sound
    <3> QED BY <1>1, <2>1, <3>1, AnchorCalls
  <2>3. CASE /\ persisted' = store'
             /\ Lines(store'.segments) = (Lines(calls[c].existing.segments) \cap 1..Len(disk))
                                         \cup Lines(Within(calls[c].got, Len(disk)))
             /\ shown' = Show(shown, disk, calls[c].got)
    <3>1. Lines(Within(calls[c].got, Len(disk))) \subseteq calls[c].got.start..calls[c].got.end
      <4>1. calls[c].got \in LineRange /\ Len(disk) \in Nat
        BY <2>1, RereadFacts, ContentFacts
      <4> QED BY <4>1, WithinFacts
    <3>2. Lines(store'.segments) \subseteq
              Lines(calls[c].existing.segments) \cup (calls[c].got.start..calls[c].got.end)
      BY <2>3, <3>1
    <3>3. CASE disk = anchorHash /\ ~rebased
      BY <1>1, <2>1, <2>3, <3>2, <3>3, AnchorRead
    <3>4. CASE ~(disk = anchorHash /\ ~rebased)
      BY <1>1, <2>1, <3>4 DEF AnchorShown
    <3> QED BY <3>3, <3>4
  <2> QED BY <1>7, <2>2, <2>3, UpdateCases, Zenon
<1> QED BY <1>2, <1>3, <1>4, <1>5, <1>6, <1>7 DEF Handles, Changed

LEMMA AnchorNext ==
    ASSUME ~Reverts, Sound, Known, Quietly, NewBatch, Current, Fits, AnchorShown, [Next]_vars
    PROVE  AnchorShown'
<1>1. CASE UNCHANGED vars \/ Turns
  <2>1. UNCHANGED <<disk, anchorHash, shown, rebased, store, persisted, calls>>
    BY <1>1, TurnsFacts DEF vars, harness, ghosts
  <2> QED BY <2>1, AnchorCalls
<1>2. CASE WorldSteps
  <2>1. UNCHANGED anchorHash
    BY <1>2, WorldFacts DEF harness
  <2> QED BY <1>2, <2>1, FreshWorld DEF AnchorShown
<1>3. CASE scanDiskChanges
  BY <1>3, AnchorScan
<1>4. CASE Resume
  <2>1. /\ UNCHANGED <<disk, persisted, shown>> /\ anchorHash' = persisted.hash
        /\ rebased' = (rebased \/ anchorHash # persisted.hash) /\ store' = persisted
        /\ persisted # None /\ \A c \in Calls : calls'[c].pc = "idle"
    BY <1>4, ResumeFacts, IdleFields DEF Resume
  <2>2. CASE rebased'
    BY <2>2 DEF AnchorShown
  <2>3. CASE ~rebased'
    <3>1. UNCHANGED anchorHash /\ ~rebased
      BY <2>1, <2>3 DEF Sound, GhostsOK
    <3>2. ASSUME NEW l \in LineNos, MountLine(l)' PROVE MountLine(l)
      BY <2>1, <3>2 DEF MountLine
    <3> QED BY <2>1, <3>1, <3>2, AnchorKept
  <2> QED BY <2>2, <2>3
<1>5. ASSUME NEW c \in Calls, NEW input \in Inputs, onToolCall(c, input) PROVE AnchorShown'
  <2>1. UNCHANGED <<disk, anchorHash, shown, rebased, store, persisted>>
    BY <1>5 DEF onToolCall, world, ghosts
  <2>2. calls'[c].pc = "called" /\ \A d \in Calls \ {c} : calls'[d] = calls[d]
    BY <1>5, CallCases
  <2> QED BY <2>1, <2>2, AnchorCalls
<1>6. ASSUME NEW c \in Calls, Blocked(c) \/ RunRead(c) PROVE AnchorShown'
  <2>1. /\ UNCHANGED <<disk, anchorHash, shown, rebased, store, persisted>>
        /\ calls'[c].pc # "reread" /\ \A d \in Calls \ {c} : calls'[d] = calls[d]
    BY <1>6, BlockedFacts, RanFacts, IdleFields
  <2> QED BY <2>1, AnchorCalls
<1>7. ASSUME NEW c \in Calls, Handles(c) PROVE AnchorShown'
  BY <1>7, AnchorHandles
<1> QED BY <1>1, <1>2, <1>3, <1>4, <1>5, <1>6, <1>7, Steps, Zenon

(* The request of the delta: what it does not tell of is not outdated.     *)
LEMMA ToldNext ==
    ASSUME Sound, KeptInv, AnchorShown, ToldWhenOutdated, [Next]_vars
    PROVE  ToldWhenOutdated'
<1>1. CASE UNCHANGED request
  BY <1>1 DEF ToldWhenOutdated
<1>2. CASE request' = NoRequest
  BY <1>2 DEF ToldWhenOutdated, NoRequest
<1>3. CASE buildMountDelta
  <2>1. request'.told = HasDelta /\ request'.outdated = Outdated /\ request'.rebased = rebased
    BY <1>3, Zenon DEF buildMountDelta
  <2> SUFFICES ASSUME ~HasDelta, ~rebased, Outdated PROVE FALSE
    BY <2>1 DEF ToldWhenOutdated
  <2>2. ~retired /\ (store # None => disk = anchorHash)
    BY DEF HasDelta
  <2>3. PICK l \in LineNos :
          /\ shown[l] # None \/ (store # None /\ l \in Lines(store.segments))
          /\ disk = NoFile \/ l \notin DOMAIN disk \/ shown[l] # disk[l]
    BY DEF Outdated
  <2>4. store # None
    <3> SUFFICES ASSUME store = None PROVE FALSE
      OBVIOUS
    <3>1. shown = Nothing
      BY <2>2 DEF KeptInv
    <3> QED BY <2>3, <3>1 DEF Nothing
  <2>5. disk = anchorHash /\ disk # NoFile
    BY <2>2, <2>4, DiskIsNoNone, NoneAssumption DEF Sound, KeptOK
  <2>6. MountLine(l)
    BY <2>3 DEF MountLine
  <2> QED BY <2>3, <2>5, <2>6 DEF AnchorShown
<1>4. CASE Turns /\ ~buildMountDelta
  BY <1>1, <1>2, <1>4 DEF Turns, Prompt, NoScan, NextTurn, onAgentSettled, ghosts
<1>5. UNCHANGED vars \/ WorldSteps \/ scanDiskChanges => UNCHANGED request
  BY WorldFacts, ScanCases DEF vars, ghosts
<1>6. Resume => request' = NoRequest
  BY DEF Resume
<1>7. ASSUME NEW c \in Calls, NEW input \in Inputs, onToolCall(c, input) PROVE UNCHANGED request
  BY <1>7 DEF onToolCall, ghosts
<1>8. ASSUME NEW c \in Calls, Blocked(c) \/ RunRead(c) \/ Handles(c) PROVE UNCHANGED request
  BY <1>8, BlockedFacts, RanFacts, HandlesFacts
<1> QED BY <1>1, <1>2, <1>3, <1>4, <1>5, <1>6, <1>7, <1>8, Steps, Zenon

(* No request shows outdated text of a mounted file without the delta      *)
(* (buildMountDelta, retiredMounts, anchorHashes), for files that get no   *)
(* text back they had before: the hash of the anchor then stands for the   *)
(* text the tool has put out.                                              *)
THEOREM MountsToldWhenOutdated ==
    ASSUME ~Reverts
    PROVE  Spec => []ToldWhenOutdated
<1> DEFINE Inv == /\ Sound /\ KeptInv /\ Known /\ Quietly /\ NewBatch /\ Current /\ Fits
                  /\ AnchorShown /\ ToldWhenOutdated
<1>1. Init => Inv
  <2> SUFFICES ASSUME Init PROVE Inv
    OBVIOUS
  <2>1. Sound
    BY SoundInit
  <2>2. \A c \in Calls : calls[c].pc = "idle" /\ calls[c].kind = "native" /\ calls[c].hash = None
    BY IdleFields DEF Init
  <2>3. KeptInv /\ Known /\ NewBatch
    BY <2>2 DEF Init, KeptInv, Known, NewBatch
  <2>4. Quietly /\ Quiet /\ Current /\ Fits
    BY <2>2 DEF Quietly, Quiet, Current, Fits
  <2>5. AnchorShown
    BY <2>1, DiskIsNoNone DEF Init, AnchorShown
  <2>6. ToldWhenOutdated
    BY DEF Init, NoRequest, ToldWhenOutdated
  <2> QED BY <2>1, <2>3, <2>4, <2>5, <2>6
<1>2. Inv /\ [Next]_vars => Inv'
  <2> SUFFICES ASSUME Inv, [Next]_vars PROVE Inv'
    OBVIOUS
  <2>1. Sound' /\ KeptInv' /\ Known' /\ ToldWhenOutdated'
    BY SoundNext, KeptNext, KnownNext, ToldNext
  <2>2. Quietly' /\ NewBatch'
    BY QuietNext, BatchNext
  <2>3. Current' /\ Fits' /\ AnchorShown'
    BY CurrentNext, FitsNext, AnchorNext
  <2> QED BY <2>1, <2>2, <2>3
<1>3. Inv => ToldWhenOutdated
  OBVIOUS
<1> QED
  <2> HIDE DEF Inv
  <2> QED BY <1>1, <1>2, <1>3, PTL DEF Spec
=============================================================================
