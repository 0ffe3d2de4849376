------------------------- MODULE SessionQueueProofs -------------------------
(***************************************************************************)
(* Theorems about module SessionQueue: the login queues, the population    *)
(* counters and the hard limit, for any number of sessions and accounts,   *)
(* any limits and percentages, with either kind of queue.  The steps are   *)
(* modules SessionQueueSteps and SessionQueueAdmission.                    *)
(***************************************************************************)
EXTENDS SessionQueueAdmission, FiniteSetTheorems, WellFoundedInduction, TLAPS

(***************************************************************************)
(* Sequences as queues.                                                    *)
(***************************************************************************)
\* The positions of a sequence are 1 to its length.
LEMMA Positions ==
    ASSUME NEW S, NEW q \in Seq(S)
    PROVE  Len(q) \in Nat /\ DOMAIN q = 1 .. Len(q) /\ q \in [1 .. Len(q) -> S]
  OBVIOUS

\* A sequence over S has its values in S.
LEMMA Value == ASSUME NEW S, NEW q \in Seq(S), NEW i \in 1 .. Len(q) PROVE q[i] \in S
  OBVIOUS

\* The empty sequence, and no other, has length 0.
LEMMA Empty ==
    ASSUME NEW S
    PROVE  /\ << >> \in Seq(S) /\ Len(<< >>) = 0
           /\ \A q \in Seq(S) : q # << >> => Len(q) \in Nat \ {0}
  OBVIOUS

\* A function on 1..n is a sequence.
LEMMA Listed == ASSUME NEW S, NEW n \in Nat, NEW f \in [1 .. n -> S] PROVE f \in Seq(S) /\ Len(f) = n
  OBVIOUS

\* Sequences with the same values are equal.
LEMMA SameValues ==
    ASSUME NEW S, NEW q \in Seq(S), NEW r \in Seq(S), Len(q) = Len(r),
           \A i \in 1 .. Len(q) : q[i] = r[i]
    PROVE  q = r
  OBVIOUS

\* Two sequences one after the other.
LEMMA Joint ==
    ASSUME NEW S, NEW a \in Seq(S), NEW b \in Seq(S)
    PROVE  /\ a \o b \in Seq(S) /\ Len(a \o b) = Len(a) + Len(b)
           /\ \A i \in 1 .. Len(a) + Len(b) : (a \o b)[i] = IF i <= Len(a) THEN a[i] ELSE b[i - Len(a)]
  OBVIOUS

\* The part of a sequence from m to n, which may be empty.
LEMMA Part ==
    ASSUME NEW S, NEW q \in Seq(S), NEW m \in 1 .. Len(q) + 1, NEW n \in 0 .. Len(q), m <= n + 1
    PROVE  /\ SubSeq(q, m, n) \in Seq(S) /\ Len(SubSeq(q, m, n)) = n - m + 1
           /\ \A i \in 1 .. n - m + 1 : SubSeq(q, m, n)[i] = q[m + i - 1]
  OBVIOUS

\* Head and tail of a sequence.
LEMMA Beheaded ==
    ASSUME NEW S, NEW q \in Seq(S), q # << >>
    PROVE  /\ Head(q) \in S /\ Tail(q) \in Seq(S) /\ Len(Tail(q)) = Len(q) - 1
           /\ \A i \in 1 .. Len(Tail(q)) : Tail(q)[i] = q[i + 1]
  OBVIOUS

\* A sequence with one more value.
LEMMA Appended ==
    ASSUME NEW S, NEW q \in Seq(S), NEW e \in S
    PROVE  /\ Append(q, e) \in Seq(S) /\ Append(q, e) # << >> /\ Len(Append(q, e)) = Len(q) + 1
           /\ \A i \in 1 .. Len(q) : Append(q, e)[i] = q[i]
           /\ Append(q, e)[Len(q) + 1] = e
           /\ Append(q, e) = q \o <<e>>
  OBVIOUS

(***************************************************************************)

\* The empty sequence is a sequence over any set.
LEMMA NoElements == ASSUME NEW S, NEW s, s = << >> PROVE s \in Seq(S)
  BY Empty

\* Positions and values of an appended sequence.
LEMMA Grow ==
    ASSUME NEW S, NEW q \in Seq(S), NEW x \in S
    PROVE  /\ DOMAIN Append(q, x) = DOMAIN q \cup {Len(q) + 1}
           /\ Append(q, x)[Len(q) + 1] = x
           /\ \A k \in DOMAIN q : Append(q, x)[k] = q[k] /\ k \in Nat \ {0} /\ k < Len(q) + 1
           /\ Len(q) + 1 \in Nat \ {0}
<1>1. DOMAIN q = 1 .. Len(q) /\ Len(q) \in Nat
  BY Positions
<1>2. DOMAIN Append(q, x) = 1 .. Len(q) + 1
  BY Appended, Positions
<1> QED
  BY <1>1, <1>2, Appended

\* Positions and values of what remains when the head is taken.
LEMMA Shrink ==
    ASSUME NEW S, NEW q \in Seq(S), q # << >>
    PROVE  /\ Head(q) = q[1] /\ 1 \in DOMAIN q
           /\ \A k \in DOMAIN Tail(q) : k \in Nat \ {0} /\ k + 1 \in DOMAIN q /\ Tail(q)[k] = q[k + 1]
           /\ \A k \in DOMAIN q : k = 1 \/ (k \in Nat /\ 1 < k /\ k - 1 \in DOMAIN Tail(q) /\ Tail(q)[k - 1] = q[k])
<1>1. DOMAIN q = 1 .. Len(q) /\ Len(q) \in Nat \ {0}
  BY Positions, Empty
<1>2. Tail(q) \in Seq(S) /\ Len(Tail(q)) = Len(q) - 1 /\ \A i \in 1 .. Len(Tail(q)) : Tail(q)[i] = q[i + 1]
  BY Beheaded
<1>3. DOMAIN Tail(q) = 1 .. Len(q) - 1
  BY <1>2, Positions
<1>4. Head(q) = q[1]
  OBVIOUS
<1> QED
  BY <1>1, <1>2, <1>3, <1>4

(***************************************************************************)
(* Positions: the first that passes a test, one taken out, one put in.     *)
(***************************************************************************)
\* A set of naturals that is not empty has a least element, and it is Min.
LEMMA Least ==
    ASSUME NEW T, T \subseteq Nat, T # {}
    PROVE  Min(T) \in T /\ \A y \in T : Min(T) <= y
<1>1. PICK x \in T : \A y \in T : ~(<<y, x>> \in OpToRel(<, Nat))
  BY NatLessThanWellFounded, WFMin, Zenon
<1>2. OpToRel(<, Nat) = {ss \in Nat \X Nat : ss[1] < ss[2]}
  BY Zenon DEF OpToRel
<1>3. \A y \in T : ~(<<y, x>> \in {ss \in Nat \X Nat : ss[1] < ss[2]})
  BY <1>1, <1>2, Zenon
<1>4. \A y \in T : x <= y
  <2>1. x \in Nat
    OBVIOUS
  <2>2. ASSUME NEW y \in Nat, y < x PROVE <<y, x>> \in {ss \in Nat \X Nat : ss[1] < ss[2]}
    BY <2>1, <2>2
  <2>3. ASSUME NEW y \in T PROVE ~(y < x)
    <3>1. y \in Nat
      OBVIOUS
    <3> QED
      BY <1>3, <2>2, <3>1, Zenon
  <2> QED
    BY <2>1, <2>3
<1> QED
  BY <1>4, Zenon DEF Min

\* A loop that looks for the positions T stops at the first of them or at the end.
LEMMA Located ==
    ASSUME NEW S, NEW q \in Seq(S), NEW T, T \subseteq 1 .. Len(q)
    PROVE  /\ Find(q, T) \in 1 .. Len(q) + 1
           /\ \A i \in T : Find(q, T) <= i
           /\ Find(q, T) \in T \/ (Find(q, T) = Len(q) + 1 /\ T = {})
<1>1. PICK n \in Nat : n = Len(q)
  BY Positions
<1>2. \A i \in T : i \in Nat /\ 1 <= i /\ i <= n
  BY <1>1
<1>3. PICK U : U = T \cup {n + 1}
  BY Zenon
<1>4. U \subseteq Nat /\ U # {}
  BY <1>2, <1>3
<1>5. PICK m : m = Min(U)
  OBVIOUS
<1>6. m \in U /\ \A y \in U : m <= y
  BY <1>4, <1>5, Least, Zenon
<1>7. Find(q, T) = m
  BY <1>1, <1>3, <1>5 DEF Find
<1>8. m \in 1 .. n + 1 /\ \A i \in T : m <= i
  BY <1>2, <1>3, <1>6
<1>9. m \in T \/ (m = n + 1 /\ T = {})
  BY <1>2, <1>3, <1>6
<1> QED
  BY <1>1, <1>7, <1>8, <1>9

\* Nothing is taken out at the end.
LEMMA TakenOutNone == ASSUME NEW S, NEW q \in Seq(S) PROVE Erased(q, Len(q) + 1) = q
<1>1. Len(q) \in Nat
  BY Positions
<1>2. PICK a : a = SubSeq(q, 1, (Len(q) + 1) - 1)
  OBVIOUS
<1>3. PICK b : b = SubSeq(q, (Len(q) + 1) + 1, Len(q))
  BY Zenon
<1>4. a \in Seq(S) /\ Len(a) = Len(q) /\ \A i \in 1 .. Len(q) : a[i] = q[i]
  BY <1>1, <1>2
<1>5. a = q
  BY <1>4, SameValues
<1>6. b = << >>
  BY <1>1, <1>3
<1>7. a \o b = q
  BY <1>5, <1>6
<1> QED
  BY <1>2, <1>3, <1>7, Zenon DEF Erased

\* What is left of q when position k is taken out.
LEMMA TakenOut ==
    ASSUME NEW S, NEW q \in Seq(S), NEW k \in 1 .. Len(q)
    PROVE  /\ Erased(q, k) \in Seq(S)
           /\ Len(Erased(q, k)) = Len(q) - 1
           /\ \A i \in 1 .. Len(q) - 1 : Erased(q, k)[i] = IF i < k THEN q[i] ELSE q[i + 1]
<1> DEFINE a == SubSeq(q, 1, k - 1)
           b == SubSeq(q, k + 1, Len(q))
<1>1. Len(q) \in Nat /\ k \in Int /\ \A i \in 1 .. Len(q) : q[i] \in S
  BY Positions, Value
<1>2. /\ a \in Seq(S) /\ Len(a) = k - 1
      /\ \A i \in 1 .. k - 1 : a[i] = q[i]
  BY <1>1
<1>3. /\ b \in Seq(S) /\ Len(b) = Len(q) - k
      /\ \A i \in 1 .. Len(q) - k : b[i] = q[k + i]
  BY <1>1
<1>4. /\ a \o b \in Seq(S) /\ Len(a \o b) = Len(a) + Len(b)
      /\ \A i \in 1 .. Len(a) + Len(b) : (a \o b)[i] = IF i <= Len(a) THEN a[i] ELSE b[i - Len(a)]
  BY <1>2, <1>3, Joint, Zenon
<1>5. Erased(q, k) = a \o b
  BY DEF Erased
<1> HIDE DEF a, b
<1>6. ASSUME NEW i \in 1 .. Len(q) - 1
      PROVE  (a \o b)[i] = IF i < k THEN q[i] ELSE q[i + 1]
  <2>1. CASE i < k
    BY <1>1, <1>2, <1>3, <1>4, <2>1
  <2>2. CASE ~(i < k)
    <3>1. (a \o b)[i] = b[i - (k - 1)] /\ i - (k - 1) \in 1 .. Len(q) - k
      BY <1>1, <1>2, <1>3, <1>4, <2>2
    <3> QED
      BY <1>1, <1>3, <2>2, <3>1
  <2> QED
    BY <2>1, <2>2, Zenon
<1>7. a \o b \in Seq(S) /\ Len(a \o b) = Len(q) - 1
  BY <1>1, <1>2, <1>3, <1>4
<1> QED
  BY <1>5, <1>6, <1>7

\* o is q with e put in at position k.
WithIn(q, k, e, o) ==
    /\ Len(o) = Len(q) + 1
    /\ \A i \in 1 .. Len(q) + 1 : o[i] = IF i < k THEN q[i] ELSE IF i = k THEN e ELSE q[i - 1]

\* What q becomes when e is put in at position k.
LEMMA PutIn ==
    ASSUME NEW S, NEW q \in Seq(S), NEW k \in 1 .. Len(q) + 1, NEW e \in S,
           NEW o, o = SubSeq(q, 1, k - 1) \o <<e>> \o SubSeq(q, k, Len(q))
    PROVE  o \in Seq(S) /\ WithIn(q, k, e, o)
<1> USE DEF WithIn
<1> DEFINE a == SubSeq(q, 1, k - 1)
           b == SubSeq(q, k, Len(q))
<1>1. Len(q) \in Nat /\ k \in Int /\ \A i \in 1 .. Len(q) : q[i] \in S
  BY Positions, Value
<1>2. /\ a \in Seq(S) /\ Len(a) = k - 1
      /\ \A i \in 1 .. k - 1 : a[i] = q[i]
  BY <1>1
<1>3. /\ b \in Seq(S) /\ Len(b) = Len(q) - k + 1
      /\ \A i \in 1 .. Len(q) - k + 1 : b[i] = q[k + i - 1]
  BY <1>1
<1>4. Append(a, e) \in Seq(S) /\ Len(Append(a, e)) = k /\ Append(a, e)[k] = e
      /\ \A i \in 1 .. k - 1 : Append(a, e)[i] = a[i]
  BY <1>1, <1>2, Appended
<1>5. a \o <<e>> = Append(a, e)
  BY <1>2, Appended
<1> DEFINE c == Append(a, e)
<1>6. /\ c \o b \in Seq(S) /\ Len(c \o b) = Len(c) + Len(b)
      /\ \A i \in 1 .. Len(c) + Len(b) : (c \o b)[i] = IF i <= Len(c) THEN c[i] ELSE b[i - Len(c)]
  BY <1>3, <1>4, Joint, Zenon
<1>7. o = c \o b
  BY <1>5, Zenon
<1>8. Len(c) = k /\ c[k] = e /\ \A i \in 1 .. k - 1 : c[i] = q[i]
  BY <1>2, <1>4
<1> HIDE DEF a, b, c
<1>9. ASSUME NEW i \in 1 .. Len(q) + 1
      PROVE  (c \o b)[i] = IF i < k THEN q[i] ELSE IF i = k THEN e ELSE q[i - 1]
  <2>1. CASE i <= k
    BY <1>1, <1>3, <1>6, <1>8, <2>1
  <2>2. CASE ~(i <= k)
    <3>1. PICK j \in Int : j = i - k
      BY <1>1
    <3>2. (c \o b)[i] = b[j] /\ j \in 1 .. Len(q) - k + 1
      BY <1>1, <1>3, <1>6, <1>8, <2>2, <3>1
    <3>3. k + j - 1 = i - 1
      BY <1>1, <3>1
    <3>4. b[j] = q[i - 1]
      BY <1>3, <3>2, <3>3
    <3> QED
      BY <1>1, <2>2, <3>2, <3>4
  <2> QED
    BY <2>1, <2>2, ZenonT(30)
<1>10. c \o b \in Seq(S) /\ Len(c \o b) = Len(q) + 1
  BY <1>1, <1>3, <1>6, <1>8
<1> QED
  BY <1>7, <1>9, <1>10, Zenon

\* A sequence that has each value once has as many values as positions.
LEMMA CountValues ==
    ASSUME NEW n \in Nat, NEW f, \A i, j \in 1 .. n : f[i] = f[j] => i = j,
           NEW V, V = {f[i] : i \in 1 .. n}
    PROVE  IsFiniteSet(V) /\ Cardinality(V) = n
<1> DEFINE g == [i \in 1 .. n |-> f[i]]
<1>1. g \in Bijection(1 .. n, V)
  BY DEF Bijection, Injection, Surjection, IsInjective
<1>2. ExistsBijection(1 .. n, V)
  BY <1>1 DEF ExistsBijection
<1> QED
  BY <1>2, FS_CountingElements, FS_NatBijection

\* The sizes of sets without a common element add up.
LEMMA CountBoth ==
    ASSUME NEW S, NEW T, IsFiniteSet(S), IsFiniteSet(T), S \cap T = {}
    PROVE  /\ IsFiniteSet(S \cup T)
           /\ Cardinality(S \cup T) = Cardinality(S) + Cardinality(T)
           /\ Cardinality(S) \in Nat /\ Cardinality(T) \in Nat
<1>1. Cardinality(S) \in Nat /\ Cardinality(T) \in Nat
  BY FS_CardinalityType
<1>2. Cardinality(S \cap T) = 0
  BY FS_EmptySet
<1>3. /\ IsFiniteSet(S \cup T)
      /\ Cardinality(S \cup T) = Cardinality(S) + Cardinality(T) - Cardinality(S \cap T)
  BY FS_Union
<1> QED
  BY <1>1, <1>2, <1>3

\* What is left of a set when part of it is taken.
LEMMA CountRest ==
    ASSUME NEW S, NEW T, IsFiniteSet(S), T \subseteq S
    PROVE  /\ IsFiniteSet(S \ T) /\ IsFiniteSet(T)
           /\ Cardinality(S \ T) = Cardinality(S) - Cardinality(T)
           /\ Cardinality(S) \in Nat /\ Cardinality(T) \in Nat /\ Cardinality(T) <= Cardinality(S)
<1>1. IsFiniteSet(T) /\ Cardinality(T) <= Cardinality(S)
  BY FS_Subset
<1>2. S \cap T = T
  OBVIOUS
<1>3. IsFiniteSet(S \ T) /\ Cardinality(S \ T) = Cardinality(S) - Cardinality(S \cap T)
  BY FS_Difference
<1> QED
  BY <1>1, <1>2, <1>3, FS_CardinalityType, Zenon

(***************************************************************************)
(* The queues after a session is taken out of them or put in.              *)
(***************************************************************************)
\* Position i of a queue without its position k is position Past(k, i) of it.
Past(k, i) == IF i < k THEN i ELSE i + 1

\* m_QueuedSessions without session s.
LEMMA RemovedFirst ==
    ASSUME NEW q \in Seq(Sessions), Distinct(q), NEW s
    PROVE  /\ Unqueued(q, s) \in Seq(Sessions) /\ Distinct(Unqueued(q, s))
           /\ Range(Unqueued(q, s)) = Range(q) \ {s}
           /\ q = << >> => Unqueued(q, s) = << >>
<1>1. DOMAIN q = 1 .. Len(q) /\ Len(q) \in Nat
  BY Positions
<1>2. CASE ~ \E i \in 1 .. Len(q) : q[i] = s
  <2>1. Find(q, {i \in DOMAIN q : q[i] = s}) = Len(q) + 1
    BY <1>1, <1>2, Located
  <2>2. Unqueued(q, s) = q
    BY <2>1, TakenOutNone DEF Unqueued
  <2> QED
    BY <1>1, <1>2, <2>2 DEF Range
<1>3. ASSUME NEW j \in 1 .. Len(q), q[j] = s
      PROVE  /\ Unqueued(q, s) \in Seq(Sessions) /\ Distinct(Unqueued(q, s))
             /\ Range(Unqueued(q, s)) = Range(q) \ {s}
  <2> DEFINE T == {i \in DOMAIN q : q[i] = s}
  <2>1. Unqueued(q, s) = Erased(q, Find(q, T))
    BY DEF Unqueued
  <2>2. Find(q, T) \in T
    BY <1>1, <1>3, Located, T \subseteq 1 .. Len(q), T # {}, Zenon
  <2>3. Find(q, T) = j
    BY <1>1, <1>3, <2>2 DEF Distinct
  <2>4. PICK o : o = Erased(q, j)
    OBVIOUS
  <2>5. /\ o \in Seq(Sessions) /\ Len(o) = Len(q) - 1
        /\ \A i \in 1 .. Len(q) - 1 : o[i] = q[Past(j, i)]
    BY <2>4, TakenOut, <1>1 DEF Past
  <2>6. DOMAIN o = 1 .. Len(q) - 1
    BY <2>5, Positions
  <2>7. \A i, k \in 1 .. Len(q) - 1 : Past(j, i) = Past(j, k) => i = k
    BY <1>1 DEF Past
  <2>8. \A i \in 1 .. Len(q) - 1 : Past(j, i) \in DOMAIN q /\ Past(j, i) # j
    BY <1>1 DEF Past
  <2>9. Distinct(o)
    BY <2>5, <2>6, <2>7, <2>8, ZenonT(30) DEF Distinct
  <2>10. ASSUME NEW i \in DOMAIN q, i # j PROVE \E k \in DOMAIN o : o[k] = q[i]
    <3>1. \E k \in 1 .. Len(q) - 1 : Past(j, k) = i
      <4>1. CASE i < j
        <5>1. i \in 1 .. Len(q) - 1 /\ Past(j, i) = i
          BY <1>1, <4>1 DEF Past
        <5> QED
          BY <5>1
      <4>2. CASE j < i
        <5>1. i - 1 \in 1 .. Len(q) - 1 /\ Past(j, i - 1) = i
          BY <1>1, <4>2 DEF Past
        <5> QED
          BY <5>1
      <4> QED
        BY <1>1, <2>10, <4>1, <4>2
    <3> QED
      BY <2>5, <2>6, <3>1
  <2>11. \A i \in DOMAIN q : q[i] = s => i = j
    BY <1>1, <1>3 DEF Distinct
  <2>12. Range(o) = Range(q) \ {s}
    <3>1. ASSUME NEW i \in DOMAIN o PROVE o[i] \in {q[k] : k \in DOMAIN q} \ {s}
      <4>1. o[i] = q[Past(j, i)] /\ Past(j, i) \in DOMAIN q /\ Past(j, i) # j
        BY <2>5, <2>6, <2>8
      <4> QED
        BY <2>11, <4>1
    <3>2. ASSUME NEW i \in DOMAIN q, q[i] # s PROVE q[i] \in {o[k] : k \in DOMAIN o}
      BY <1>3, <2>10, <3>2
    <3> QED
      BY <3>1, <3>2 DEF Range
  <2>13. Unqueued(q, s) = o
    BY <2>1, <2>3, <2>4
  <2> QED
    BY <2>5, <2>9, <2>12, <2>13
<1>4. CASE \E i \in 1 .. Len(q) : q[i] = s
  <2>1. q # << >>
    BY <1>1, <1>4, Empty
  <2> QED
    BY <1>3, <1>4, <2>1
<1> QED
  BY <1>2, <1>4

\* The queue of a region without session s.
LEMMA RemovedMatch ==
    ASSUME NEW q \in Seq(Entries), OneEach(q), Sorted(q), NEW s, NEW o,
           o = Without(q, s)
    PROVE  /\ o \in Seq(Entries) /\ OneEach(o) /\ Sorted(o)
           /\ Of(o) = Of(q) \ {s}
           /\ q = << >> => o = << >>
<1>1. DOMAIN q = 1 .. Len(q) /\ Len(q) \in Nat
  BY Positions
<1>2. CASE ~ \E i \in 1 .. Len(q) : q[i].s = s
  <2>1. Find(q, {i \in DOMAIN q : q[i].s = s}) = Len(q) + 1
    BY <1>1, <1>2, Located
  <2>2. o = q
    BY <2>1, TakenOutNone DEF Without
  <2> QED
    BY <1>1, <1>2, <2>2 DEF Of
<1>3. ASSUME NEW j \in 1 .. Len(q), q[j].s = s
      PROVE  /\ o \in Seq(Entries) /\ OneEach(o) /\ Sorted(o)
             /\ Of(o) = Of(q) \ {s}
  <2> DEFINE T == {i \in DOMAIN q : q[i].s = s}
  <2>1. o = Erased(q, Find(q, T))
    BY DEF Without
  <2>2. Find(q, T) \in T
    BY <1>1, <1>3, Located, T \subseteq 1 .. Len(q), T # {}, Zenon
  <2>3. Find(q, T) = j
    BY <1>1, <1>3, <2>2 DEF OneEach
  <2>4. o = Erased(q, j)
    BY <2>1, <2>3
  <2>5. /\ o \in Seq(Entries) /\ Len(o) = Len(q) - 1
        /\ \A i \in 1 .. Len(q) - 1 : o[i] = q[Past(j, i)]
    BY <2>4, TakenOut, <1>1 DEF Past
  <2>6. DOMAIN o = 1 .. Len(q) - 1
    BY <2>5, Positions
  <2>7. \A i, k \in 1 .. Len(q) - 1 : /\ Past(j, i) = Past(j, k) => i = k
                                      /\ i < k => Past(j, i) < Past(j, k)
    BY <1>1 DEF Past
  <2>8. \A i \in 1 .. Len(q) - 1 : Past(j, i) \in DOMAIN q /\ Past(j, i) # j
    BY <1>1 DEF Past
  <2>9. OneEach(o)
    <3>1. ASSUME NEW i \in 1 .. Len(q) - 1, NEW k \in 1 .. Len(q) - 1, o[i].s = o[k].s PROVE i = k
      <4>1. q[Past(j, i)].s = q[Past(j, k)].s
        BY <2>5, <3>1
      <4>2. Past(j, i) = Past(j, k)
        BY <2>8, <4>1 DEF OneEach
      <4> QED
        BY <2>7, <4>2
    <3> QED
      BY <2>6, <3>1 DEF OneEach
  <2>10. Sorted(o)
    <3>1. ASSUME NEW i \in 1 .. Len(q) - 1, NEW k \in 1 .. Len(q) - 1, i < k PROVE o[i].prio >= o[k].prio
      <4>1. q[Past(j, i)].prio >= q[Past(j, k)].prio
        BY <2>7, <2>8, <3>1 DEF Sorted
      <4> QED
        BY <2>5, <4>1
    <3> QED
      BY <2>6, <3>1 DEF Sorted
  <2>11. ASSUME NEW i \in DOMAIN q, i # j PROVE \E k \in DOMAIN o : o[k] = q[i]
    <3>1. \E k \in 1 .. Len(q) - 1 : Past(j, k) = i
      <4>1. CASE i < j
        <5>1. i \in 1 .. Len(q) - 1 /\ Past(j, i) = i
          BY <1>1, <4>1 DEF Past
        <5> QED
          BY <5>1
      <4>2. CASE j < i
        <5>1. i - 1 \in 1 .. Len(q) - 1 /\ Past(j, i - 1) = i
          BY <1>1, <4>2 DEF Past
        <5> QED
          BY <5>1
      <4> QED
        BY <1>1, <2>11, <4>1, <4>2
    <3> QED
      BY <2>5, <2>6, <3>1
  <2>12. \A i \in DOMAIN q : q[i].s = s => i = j
    BY <1>1, <1>3 DEF OneEach
  <2>13. Of(o) = Of(q) \ {s}
    <3>1. ASSUME NEW i \in DOMAIN o PROVE o[i].s \in {q[k].s : k \in DOMAIN q} \ {s}
      <4>1. o[i] = q[Past(j, i)] /\ Past(j, i) \in DOMAIN q /\ Past(j, i) # j
        BY <2>5, <2>6, <2>8
      <4> QED
        BY <2>12, <4>1
    <3>2. ASSUME NEW i \in DOMAIN q, q[i].s # s PROVE q[i].s \in {o[k].s : k \in DOMAIN o}
      <4>1. PICK k \in DOMAIN o : o[k] = q[i]
        BY <1>3, <2>11, <3>2
      <4> QED
        BY <4>1
    <3>3. {o[i].s : i \in DOMAIN o} \subseteq {q[i].s : i \in DOMAIN q} \ {s}
      BY <3>1
    <3>4. {q[i].s : i \in DOMAIN q} \ {s} \subseteq {o[i].s : i \in DOMAIN o}
      BY <3>2
    <3> QED
      BY <3>3, <3>4, Zenon DEF Of
  <2> QED
    BY <2>5, <2>9, <2>10, <2>13
<1>4. CASE \E i \in 1 .. Len(q) : q[i].s = s
  <2>1. q # << >>
    BY <1>1, <1>4, Empty
  <2> QED
    BY <1>3, <1>4, <2>1
<1> QED
  BY <1>2, <1>4

\* A region's queue has as many sessions as entries.
LEMMA CountEntries ==
    ASSUME NEW q \in Seq(Entries), OneEach(q)
    PROVE  IsFiniteSet(Of(q)) /\ Cardinality(Of(q)) = Len(q) /\ Of(q) \subseteq Sessions
<1>1. DOMAIN q = 1 .. Len(q) /\ Len(q) \in Nat
  BY Positions
<1>2. PICK f : f = [i \in 1 .. Len(q) |-> q[i].s]
  BY Zenon
<1>3. \A i, j \in 1 .. Len(q) : f[i] = f[j] => i = j
  BY <1>1, <1>2 DEF OneEach
<1>4. Of(q) = {f[i] : i \in 1 .. Len(q)}
  BY <1>1, <1>2 DEF Of
<1>5. \A i \in 1 .. Len(q) : q[i] \in Entries
  BY Value
<1>6. Of(q) \subseteq Sessions
  BY <1>1, <1>5 DEF Of, Entries
<1>7. IsFiniteSet(Of(q)) /\ Cardinality(Of(q)) = Len(q)
  BY <1>1, <1>3, <1>4, CountValues
<1> QED
  BY <1>6, <1>7

\* The sessions that wait are as many as the queues are long: what
\* GetQueuedSessionCount returns.
LEMMA CountHeld ==
    ASSUME NEW mode \in BOOLEAN, NEW q, NEW p, QueuesOK(mode, q, p)
    PROVE  /\ Held(q, p) \subseteq Sessions /\ IsFiniteSet(Held(q, p))
           /\ Cardinality(Held(q, p)) = IF mode THEN Len(p[0]) + Len(p[1]) ELSE Len(q)
<1>1. /\ q \in Seq(Sessions) /\ Distinct(q) /\ p[0] \in Seq(Entries) /\ p[1] \in Seq(Entries)
      /\ OneEach(p[0]) /\ OneEach(p[1]) /\ Of(p[0]) \cap Of(p[1]) = {}
      /\ IF mode THEN q = << >> ELSE p[0] = << >> /\ p[1] = << >>
  BY DEF QueuesOK, Regions
<1>2. /\ DOMAIN q = 1 .. Len(q) /\ DOMAIN p[0] = 1 .. Len(p[0]) /\ DOMAIN p[1] = 1 .. Len(p[1])
      /\ Len(q) \in Nat /\ Len(p[0]) \in Nat /\ Len(p[1]) \in Nat
  BY <1>1, Positions
<1> DEFINE V == {q[i] : i \in 1 .. Len(q)}
<1>3. IsFiniteSet(V) /\ Cardinality(V) = Len(q)
  <2>1. \A i, j \in 1 .. Len(q) : q[i] = q[j] => i = j
    BY <1>1, <1>2 DEF Distinct
  <2> HIDE DEF V
  <2>2. V = {q[i] : i \in 1 .. Len(q)}
    BY DEF V
  <2> QED
    BY <1>2, <2>1, <2>2, CountValues
<1>4. ASSUME NEW r \in Regions
      PROVE  IsFiniteSet(Of(p[r])) /\ Cardinality(Of(p[r])) = Len(p[r]) /\ Of(p[r]) \subseteq Sessions
  <2>1. p[r] \in Seq(Entries) /\ OneEach(p[r])
    BY <1>1 DEF Regions
  <2> QED
    BY <2>1, CountEntries, Zenon
<1>5. V \subseteq Sessions
  BY <1>1, Value
<1>6. Held(q, p) = V \cup Of(p[0]) \cup Of(p[1])
  BY <1>2 DEF Held, Range
<1>7. 0 \in Regions /\ 1 \in Regions
  BY DEF Regions
<1>8. CASE mode
  <2>1. V = {}
    BY <1>1, <1>2, <1>8, Empty
  <2>2. Held(q, p) = Of(p[0]) \cup Of(p[1])
    BY <1>6, <2>1, Zenon
  <2>4. /\ IsFiniteSet(Of(p[0]) \cup Of(p[1]))
        /\ Cardinality(Of(p[0]) \cup Of(p[1])) = Len(p[0]) + Len(p[1])
    <3>1. /\ IsFiniteSet(Of(p[0])) /\ Cardinality(Of(p[0])) = Len(p[0])
          /\ IsFiniteSet(Of(p[1])) /\ Cardinality(Of(p[1])) = Len(p[1])
      BY <1>4, <1>7
    <3>2. Of(p[0]) \cap Of(p[1]) = {}
      BY <1>1
    <3> QED
      BY <3>1, <3>2, CountBoth, Zenon
  <2> QED
    BY <1>2, <1>4, <1>7, <1>8, <2>2, <2>4
<1>9. CASE ~mode
  <2>1. Of(p[0]) = {} /\ Of(p[1]) = {}
    BY <1>1, <1>2, <1>9, Empty DEF Of
  <2>2. Held(q, p) = V
    BY <1>6, <2>1
  <2> QED
    BY <1>3, <1>5, <1>9, <2>2
<1> QED
  BY <1>8, <1>9, Zenon

\* RemoveQueuedSession(s), before it accepts a session: s is in the queues of
\* region r at most.
LEMMA RemovedQueues ==
    ASSUME NEW mode \in BOOLEAN, NEW q, NEW p, QueuesOK(mode, q, p),
           NEW r \in Regions, NEW s, \A t \in Regions : s \in Of(p[t]) => t = r
    PROVE  /\ QueuesOK(mode, Unqueued(q, s), Cut(p, r, s))
           /\ Held(Unqueued(q, s), Cut(p, r, s)) = Held(q, p) \ {s}
           /\ \A t \in Regions : Of(Cut(p, r, s)[t]) \subseteq Of(p[t])
<1>a. PICK q1 : q1 = Unqueued(q, s)
  OBVIOUS
<1>b. PICK p1 : p1 = Cut(p, r, s)
  OBVIOUS
<1>1. /\ q \in Seq(Sessions) /\ Distinct(q) /\ p \in [Regions -> Seq(Entries)]
      /\ \A t \in Regions : p[t] \in Seq(Entries) /\ OneEach(p[t]) /\ Sorted(p[t])
      /\ Of(p[0]) \cap Of(p[1]) = {}
      /\ IF mode THEN q = << >> ELSE \A t \in Regions : p[t] = << >>
  BY DEF QueuesOK
<1>2. PICK o : o = Without(p[r], s)
  OBVIOUS
<1>3. /\ o \in Seq(Entries) /\ OneEach(o) /\ Sorted(o)
      /\ Of(o) = Of(p[r]) \ {s}
      /\ p[r] = << >> => o = << >>
  <2>1. p[r] \in Seq(Entries) /\ OneEach(p[r]) /\ Sorted(p[r])
    BY <1>1
  <2> QED
    BY <1>2, <2>1, RemovedMatch
<1>4. p1 = [p EXCEPT ![r] = o]
  BY <1>2, <1>b DEF Cut
<1>5. p1[r] = o /\ \A t \in Regions : t # r => p1[t] = p[t]
  BY <1>1, <1>4
<1>6. /\ q1 \in Seq(Sessions) /\ Distinct(q1)
      /\ Range(q1) = Range(q) \ {s}
      /\ q = << >> => q1 = << >>
  <2>1. q \in Seq(Sessions) /\ Distinct(q)
    BY <1>1
  <2>2. /\ Unqueued(q, s) \in Seq(Sessions) /\ Distinct(Unqueued(q, s))
        /\ Range(Unqueued(q, s)) = Range(q) \ {s}
        /\ q = << >> => Unqueued(q, s) = << >>
    BY <2>1, RemovedFirst, Zenon
  <2> QED
    BY <1>a, <2>2, Zenon
<1>7. p1 \in [Regions -> Seq(Entries)]
  BY <1>1, <1>3, <1>4
<1>8. \A t \in Regions : OneEach(p1[t]) /\ Sorted(p1[t])
  BY <1>1, <1>3, <1>5, Zenon
<1>9. Of(p1[r]) = Of(p[r]) \ {s}
  BY <1>3, <1>5, Zenon DEF Of
<1>10. ASSUME NEW t \in Regions PROVE Of(p1[t]) = Of(p[t]) \ {s}
  <2>1. CASE t = r
    BY <1>9, <2>1
  <2>2. CASE t # r
    <3>1. Of(p1[t]) = Of(p[t])
      BY <1>5, <2>2 DEF Of
    <3> QED
      BY <2>2, <3>1
  <2> QED
    BY <2>1, <2>2
<1>11. Held(q1, p1) = Held(q, p) \ {s}
  BY <1>6, <1>10 DEF Held, Regions
<1>12. Of(p1[0]) \cap Of(p1[1]) = {}
  BY <1>1, <1>10 DEF Regions
<1>13. IF mode THEN q1 = << >> ELSE \A t \in Regions : p1[t] = << >>
  BY <1>1, <1>3, <1>5, <1>6
<1>14. QueuesOK(mode, q1, p1)
  BY <1>6, <1>7, <1>8, <1>12, <1>13 DEF QueuesOK
<1>15. \A t \in Regions : Of(p1[t]) \subseteq Of(p[t])
  BY <1>10
<1> QED
  BY <1>a, <1>b, <1>11, <1>14, <1>15, Zenon

\* The first of m_QueuedSessions is accepted.
LEMMA FirstAccepted ==
    ASSUME NEW q, NEW p, QueuesOK(FALSE, q, p), q # << >>
    PROVE  /\ QueuesOK(FALSE, Tail(q), p)
           /\ Held(Tail(q), p) = Held(q, p) \ {Head(q)} /\ Head(q) \in Held(q, p)
<1>1. q \in Seq(Sessions) /\ Distinct(q) /\ Of(p[0]) = {} /\ Of(p[1]) = {}
  BY Empty, Positions DEF QueuesOK, Of, Regions
<1>2. PICK o : o = Tail(q)
  BY Zenon
<1>3. /\ Head(q) = q[1] /\ 1 \in DOMAIN q
      /\ \A k \in DOMAIN o : k \in Nat \ {0} /\ k + 1 \in DOMAIN q /\ o[k] = q[k + 1]
      /\ \A k \in DOMAIN q : k = 1 \/ (k \in Nat /\ 1 < k /\ k - 1 \in DOMAIN o /\ o[k - 1] = q[k])
  BY <1>1, <1>2, Shrink
<1>4. o \in Seq(Sessions)
  BY <1>1, <1>2, Beheaded
<1>5. Distinct(o)
  <2>1. ASSUME NEW i \in DOMAIN o, NEW j \in DOMAIN o, o[i] = o[j] PROVE i = j
    <3>1. i + 1 = j + 1
      BY <1>1, <1>3, <2>1 DEF Distinct
    <3> QED
      BY <1>3, <3>1
  <2> QED
    BY <2>1 DEF Distinct
<1>6. Range(o) = Range(q) \ {Head(q)}
  <2>1. ASSUME NEW i \in DOMAIN o PROVE o[i] \in {q[k] : k \in DOMAIN q} \ {Head(q)}
    <3>1. i + 1 # 1
      BY <1>3
    <3> QED
      BY <1>1, <1>3, <3>1 DEF Distinct
  <2>2. ASSUME NEW i \in DOMAIN q, q[i] # Head(q) PROVE q[i] \in {o[k] : k \in DOMAIN o}
    BY <1>3, <2>2
  <2> QED
    BY <2>1, <2>2 DEF Range
<1>7. Held(o, p) = Range(o) /\ Held(q, p) = Range(q)
  BY <1>1 DEF Held
<1>8. QueuesOK(FALSE, o, p)
  BY <1>4, <1>5 DEF QueuesOK
<1>9. Head(q) \in Held(q, p)
  BY <1>3, <1>7 DEF Range
<1> QED
  BY <1>2, <1>6, <1>7, <1>8, <1>9, Zenon

\* AddQueuedSession(s) without priorities.
LEMMA QueuedLast ==
    ASSUME NEW mode \in BOOLEAN, ~mode, NEW q, NEW p, QueuesOK(mode, q, p), NEW s \in Sessions, s \notin Held(q, p)
    PROVE  QueuesOK(mode, Append(q, s), p) /\ Held(Append(q, s), p) = Held(q, p) \cup {s}
<1>1. q \in Seq(Sessions) /\ Distinct(q) /\ Of(p[0]) = {} /\ Of(p[1]) = {}
  BY Empty, Positions DEF QueuesOK, Of, Regions
<1>2. PICK o : o = Append(q, s)
  BY Zenon
<1>3. PICK n : n = Len(q) + 1
  OBVIOUS
<1>4. /\ DOMAIN o = DOMAIN q \cup {n} /\ o[n] = s
      /\ \A k \in DOMAIN q : o[k] = q[k]
  BY <1>1, <1>2, <1>3, Grow
<1>5. o \in Seq(Sessions)
  BY <1>1, <1>2, Appended
<1>6. s \notin Range(q)
  BY DEF Held
<1>7. Distinct(o)
  BY <1>1, <1>4, <1>6 DEF Distinct, Range
<1>8. Range(o) = Range(q) \cup {s}
  BY <1>4 DEF Range
<1>9. Held(o, p) = Held(q, p) \cup {s}
  BY <1>8 DEF Held
<1>10. QueuesOK(mode, o, p)
  BY <1>5, <1>7 DEF QueuesOK
<1> QED
  BY <1>2, <1>9, <1>10

\* The smaller of two numbers.
LEMMA MinTwo ==
    ASSUME NEW a \in Nat, NEW b \in Nat
    PROVE  Min({a, b}) = IF a <= b THEN a ELSE b
<1> DEFINE T == {a, b}
<1>1. T \subseteq Nat /\ T # {}
  OBVIOUS
<1>2. Min(T) \in T /\ \A y \in T : Min(T) <= y
  BY <1>1, Least
<1>3. Min(T) \in {a, b} /\ Min(T) <= a /\ Min(T) <= b
  BY <1>2
<1> QED
  BY <1>3

\* AddQueuedSession inserts an entry: the queue stays sorted.
LEMMA InsertedSorted ==
    ASSUME NEW q \in Seq(Entries), OneEach(q), Sorted(q), NEW e \in Entries, e.s \notin Of(q),
           NEW o, o = Inserted(q, e)
    PROVE  o \in Seq(Entries) /\ OneEach(o) /\ Sorted(o) /\ Of(o) = Of(q) \cup {e.s}
<1> DEFINE I == {i \in DOMAIN q : q[i].prio < e.prio}
<1>1. /\ DOMAIN q = 1 .. Len(q) /\ Len(q) \in Nat
      /\ \A i \in 1 .. Len(q) : q[i] \in Entries
  BY Positions, Value
<1>2. PICK k : k = Find(q, I)
  BY Zenon
<1>3. /\ k \in 1 .. Len(q) + 1
      /\ \A i \in 1 .. Len(q) : i < k => ~(q[i].prio < e.prio)
      /\ k # Len(q) + 1 => q[k].prio < e.prio
  <2>1. /\ k \in 1 .. Len(q) + 1 /\ \A i \in I : k <= i
        /\ k \in I \/ k = Len(q) + 1
    BY <1>1, <1>2, Located, I \subseteq 1 .. Len(q)
  <2> QED
    BY <1>1, <2>1
<1>4. o = SubSeq(q, 1, k - 1) \o <<e>> \o SubSeq(q, k, Len(q))
  BY <1>2 DEF Inserted
<1>5. /\ o \in Seq(Entries) /\ Len(o) = Len(q) + 1
      /\ \A i \in 1 .. Len(q) + 1 : o[i] = IF i < k THEN q[i] ELSE IF i = k THEN e ELSE q[i - 1]
  <2>1. k \in 1 .. Len(q) + 1 /\ q \in Seq(Entries) /\ e \in Entries
    BY <1>1, <1>3
  <2>2. o \in Seq(Entries) /\ WithIn(q, k, e, o)
    BY <1>4, <2>1, PutIn, Zenon
  <2> QED
    BY <2>2 DEF WithIn
<1>6. DOMAIN o = 1 .. Len(q) + 1
  BY <1>5, Positions
<1> HIDE DEF I
<1>7. \A i \in 1 .. Len(q) : q[i].s # e.s
  BY <1>1 DEF Of
<1>8. \A i \in 1 .. Len(q) : q[i].prio \in Nat /\ e.prio \in Nat
  BY <1>1 DEF Entries
<1>9. OneEach(o)
  <2>1. ASSUME NEW i \in 1 .. Len(q) + 1, NEW j \in 1 .. Len(q) + 1, o[i].s = o[j].s PROVE i = j
    <3>1. i = k <=> j = k
      BY <1>1, <1>3, <1>5, <1>7, <2>1
    <3>2. CASE i # k /\ j # k
      <4> DEFINE b(x) == IF x < k THEN x ELSE x - 1
      <4>1. b(i) \in 1 .. Len(q) /\ b(j) \in 1 .. Len(q)
        BY <1>1, <1>3, <3>2
      <4>2. o[i] = q[b(i)] /\ o[j] = q[b(j)]
        BY <1>5, <3>2
      <4>3. b(i) = b(j)
        BY <1>1, <2>1, <4>1, <4>2 DEF OneEach
      <4> QED
        BY <1>1, <1>3, <3>2, <4>3
    <3> QED
      BY <3>1, <3>2
  <2> QED
    BY <1>6, <2>1 DEF OneEach
<1>10. Sorted(o)
  <2>1. ASSUME NEW i \in 1 .. Len(q) + 1, NEW j \in 1 .. Len(q) + 1, i < j PROVE o[i].prio >= o[j].prio
    <3>0. \A x, y \in 1 .. Len(q) : x < y => q[x].prio >= q[y].prio
      BY <1>1 DEF Sorted
    <3>1. CASE j < k
      BY <1>1, <1>3, <1>5, <2>1, <3>0, <3>1
    <3>2. CASE j = k
      <4>1. o[i] = q[i] /\ o[j] = e /\ i \in 1 .. Len(q)
        BY <1>1, <1>3, <1>5, <2>1, <3>2
      <4> QED
        BY <1>3, <1>8, <2>1, <3>2, <4>1
    <3>3. CASE k < j
      <4>1. o[j] = q[j - 1] /\ j - 1 \in 1 .. Len(q)
        BY <1>1, <1>3, <1>5, <3>3
      <4>2. CASE i < k
        <5>1. o[i] = q[i] /\ i \in 1 .. Len(q) /\ i <= j - 1
          BY <1>1, <1>3, <1>5, <2>1, <3>3, <4>2
        <5>2. CASE i = j - 1
          BY <1>8, <4>1, <5>1, <5>2
        <5> QED
          BY <3>0, <4>1, <5>1, <5>2
      <4>3. CASE i = k
        <5>1. o[i] = e /\ k \in 1 .. Len(q) /\ k # Len(q) + 1 /\ k <= j - 1
          BY <1>1, <1>3, <1>5, <2>1, <3>3, <4>3
        <5>2. q[k].prio < e.prio
          BY <1>3, <5>1
        <5>3. q[k].prio >= q[j - 1].prio
          <6>1. CASE k = j - 1
            BY <1>8, <4>1, <6>1
          <6> QED
            BY <3>0, <4>1, <5>1, <6>1
        <5> QED
          BY <1>8, <4>1, <5>1, <5>2, <5>3
      <4>4. CASE k < i
        <5>1. o[i] = q[i - 1] /\ i - 1 \in 1 .. Len(q) /\ i - 1 < j - 1
          BY <1>1, <1>3, <1>5, <2>1, <4>4
        <5> QED
          BY <3>0, <4>1, <5>1
      <4> QED
        BY <1>3, <4>2, <4>3, <4>4
    <3> QED
      BY <1>3, <3>1, <3>2, <3>3
  <2> QED
    BY <1>6, <2>1 DEF Sorted
<1>11. Of(o) = Of(q) \cup {e.s}
  <2>1. ASSUME NEW i \in 1 .. Len(q) + 1 PROVE o[i].s \in Of(q) \cup {e.s}
    <3>1. o[i] = e \/ \E j \in 1 .. Len(q) : o[i] = q[j]
      <4>1. CASE i < k
        <5>1. i \in 1 .. Len(q) /\ o[i] = q[i]
          BY <1>1, <1>3, <1>5, <4>1
        <5> QED
          BY <5>1
      <4>2. CASE k < i
        <5>1. i - 1 \in 1 .. Len(q) /\ o[i] = q[i - 1]
          BY <1>1, <1>3, <1>5, <4>2
        <5> QED
          BY <5>1
      <4> QED
        BY <1>1, <1>3, <1>5, <4>1, <4>2
    <3> QED
      BY <1>1, <3>1 DEF Of
  <2>2. ASSUME NEW i \in 1 .. Len(q) PROVE \E j \in 1 .. Len(q) + 1 : o[j] = q[i]
    <3>1. CASE i < k
      BY <1>1, <1>5, <3>1
    <3>2. CASE ~(i < k)
      <4>1. i + 1 \in 1 .. Len(q) + 1 /\ o[i + 1] = q[i]
        BY <1>1, <1>3, <1>5, <3>2
      <4> QED
        BY <4>1
    <3> QED
      BY <3>1, <3>2
  <2>3. k \in DOMAIN o /\ o[k] = e
    BY <1>1, <1>3, <1>5, <1>6
  <2>4. Of(o) \subseteq Of(q) \cup {e.s}
    BY <1>6, <2>1 DEF Of
  <2>5. e.s \in Of(o)
    BY <2>3 DEF Of
  <2>6. ASSUME NEW i \in DOMAIN q PROVE q[i].s \in Of(o)
    <3>1. PICK j \in DOMAIN o : o[j] = q[i]
      BY <1>1, <1>6, <2>2
    <3> QED
      BY <3>1 DEF Of
  <2>7. Of(q) \subseteq Of(o)
    BY <2>6 DEF Of
  <2> QED
    BY <2>4, <2>5, <2>7
<1> QED
  BY <1>5, <1>9, <1>10, <1>11

\* AddQueuedSession(s) with priorities.
LEMMA QueuedByPriority ==
    ASSUME NEW mode \in BOOLEAN, mode = TRUE, NEW q, NEW p, QueuesOK(mode, q, p), NEW r \in Regions, NEW e \in Entries,
           e.s \notin Held(q, p), NEW p1, p1 = Put(p, r, e)
    PROVE  Fits(mode, q, p, p1, r, e)
<1>1. /\ q \in Seq(Sessions) /\ Distinct(q) /\ p \in [Regions -> Seq(Entries)]
      /\ \A t \in Regions : p[t] \in Seq(Entries) /\ OneEach(p[t]) /\ Sorted(p[t])
      /\ Of(p[0]) \cap Of(p[1]) = {}
      /\ q = << >>
  BY DEF QueuesOK
<1>2. PICK o : o = Inserted(p[r], e)
  OBVIOUS
<1>3. e.s \notin Of(p[0]) /\ e.s \notin Of(p[1])
  BY DEF Held
<1>4. o \in Seq(Entries) /\ OneEach(o) /\ Sorted(o) /\ Of(o) = Of(p[r]) \cup {e.s}
  <2>1. p[r] \in Seq(Entries) /\ OneEach(p[r]) /\ Sorted(p[r])
    BY <1>1
  <2>2. e.s \notin Of(p[r])
    BY <1>3 DEF Regions
  <2> QED
    BY <1>2, <2>1, <2>2, InsertedSorted
<1>5. p1 = [p EXCEPT ![r] = o]
  BY <1>2 DEF Put
<1>6. p1[r] = o /\ \A t \in Regions : t # r => p1[t] = p[t]
  BY <1>1, <1>5
<1>7. p1 \in [Regions -> Seq(Entries)]
  BY <1>1, <1>4, <1>5
<1>8. \A t \in Regions : OneEach(p1[t]) /\ Sorted(p1[t])
  BY <1>1, <1>4, <1>6
<1>9. Of(p1[r]) = Of(p[r]) \cup {e.s} /\ \A t \in Regions : t # r => Of(p1[t]) = Of(p[t])
  BY <1>4, <1>6
<1>10. Of(p1[0]) \cap Of(p1[1]) = {} /\ Held(q, p1) = Held(q, p) \cup {e.s}
  <2>1. CASE r = 0
    BY <1>1, <1>3, <1>9, <2>1 DEF Held, Regions
  <2>2. CASE r = 1
    BY <1>1, <1>3, <1>9, <2>2 DEF Held, Regions
  <2> QED
    BY <2>1, <2>2 DEF Regions
<1>11. QueuesOK(mode, q, p1)
  BY <1>1, <1>7, <1>8, <1>10 DEF QueuesOK
<1> QED
  BY <1>6, <1>9, <1>10, <1>11 DEF Fits

\* A priority that grows to MaxPriority at most.
LEMMA Capped ==
    ASSUME NEW a \in 0 .. MaxPriority, NEW b \in 0 .. MaxPriority
    PROVE  /\ Min({a + 1, MaxPriority}) \in 0 .. MaxPriority
           /\ a >= b => Min({a + 1, MaxPriority}) >= Min({b + 1, MaxPriority})
<1>1. MaxPriority \in Nat
  BY SessionQueueAssumption
<1>2. /\ Min({a + 1, MaxPriority}) = IF a + 1 <= MaxPriority THEN a + 1 ELSE MaxPriority
      /\ Min({b + 1, MaxPriority}) = IF b + 1 <= MaxPriority THEN b + 1 ELSE MaxPriority
  BY <1>1, MinTwo
<1> QED
  BY <1>1, <1>2

\* Those that stay in a region's queue get older: it stays sorted.
LEMMA Aged ==
    ASSUME NEW c \in Seq(Entries), OneEach(c), Sorted(c)
    PROVE  /\ Older(c) \in Seq(Entries) /\ OneEach(Older(c)) /\ Sorted(Older(c))
           /\ Of(Older(c)) = Of(c) /\ (c = << >> => Older(c) = << >>)
<1>1. /\ DOMAIN c = 1 .. Len(c) /\ Len(c) \in Nat
      /\ \A i \in 1 .. Len(c) : c[i] \in Entries
  BY Positions, Value
<1>2. PICK o : o = Older(c)
  OBVIOUS
<1>3. o = [i \in 1 .. Len(c) |-> [c[i] EXCEPT !.prio = Min({c[i].prio + 1, MaxPriority})]]
  BY <1>1, <1>2 DEF Older
<1>4. ASSUME NEW i \in 1 .. Len(c)
      PROVE  o[i] \in Entries /\ o[i].s = c[i].s /\ o[i].prio = Min({c[i].prio + 1, MaxPriority})
             /\ c[i].prio \in 0 .. MaxPriority
  <2>1. c[i] \in [prio : 0 .. MaxPriority, s : Sessions]
    BY <1>1 DEF Entries
  <2>2. c[i].prio \in 0 .. MaxPriority
    BY <2>1
  <2>3. PICK m \in 0 .. MaxPriority : m = Min({c[i].prio + 1, MaxPriority})
    BY <2>2, Capped
  <2>4. o[i] = [c[i] EXCEPT !.prio = m]
    BY <1>3, <2>3
  <2>5. o[i] \in [prio : 0 .. MaxPriority, s : Sessions] /\ o[i].s = c[i].s /\ o[i].prio = m
    BY <2>1, <2>4
  <2> QED
    BY <2>2, <2>3, <2>5 DEF Entries
<1>5. o \in Seq(Entries) /\ DOMAIN o = 1 .. Len(c)
  <2>1. o \in [1 .. Len(c) -> Entries]
    BY <1>3, <1>4, Zenon
  <2> QED
    BY <1>1, <2>1, Listed
<1>6. Sorted(o)
  <2>1. ASSUME NEW i \in 1 .. Len(c), NEW j \in 1 .. Len(c), i < j PROVE o[i].prio >= o[j].prio
    <3>1. c[i].prio >= c[j].prio
      BY <1>1, <2>1 DEF Sorted
    <3>2. Min({c[i].prio + 1, MaxPriority}) >= Min({c[j].prio + 1, MaxPriority})
      BY <1>4, <3>1, Capped, Zenon
    <3> QED
      BY <1>4, <3>2
  <2> QED
    BY <1>5, <2>1 DEF Sorted
<1>7. OneEach(o)
  BY <1>1, <1>4, <1>5, Zenon DEF OneEach
<1>8. Of(o) = Of(c)
  BY <1>1, <1>4, <1>5, Zenon DEF Of
<1>9. c = << >> => o = << >>
  <2>1. ASSUME c = << >> PROVE o = << >>
    <3>1. Len(c) = 0
      BY <2>1, Empty
    <3>2. Len(o) = 0
      BY <1>5, <3>1, Positions
    <3> QED
      BY <1>5, <3>2, Empty
  <2> QED
    BY <2>1
<1> QED
  BY <1>2, <1>5, <1>6, <1>7, <1>8, <1>9

\* The first n of a region's queue are n sessions.
LEMMA CountFirst ==
    ASSUME NEW q \in Seq(Entries), OneEach(q), NEW n \in Nat, n <= Len(q)
    PROVE  IsFiniteSet(First(q, n)) /\ Cardinality(First(q, n)) = n
<1>1. DOMAIN q = 1 .. Len(q) /\ Len(q) \in Nat
  BY Positions
<1>2. \A i \in 1 .. n : i \in DOMAIN q
  BY <1>1
<1>3. PICK f : f = [i \in 1 .. n |-> q[i].s]
  BY ZenonT(30)
<1>4. \A i, j \in 1 .. n : f[i] = f[j] => i = j
  BY <1>2, <1>3 DEF OneEach
<1>5. First(q, n) = {f[i] : i \in 1 .. n}
  BY <1>3 DEF First
<1> QED
  BY <1>4, <1>5, CountValues

\* The length of what follows the first n of l elements.
LEMMA RestLength ==
    ASSUME NEW l \in Nat, NEW n \in Nat, n <= l
    PROVE  /\ l - n \in Nat /\ l - (n + 1) + 1 = l - n
           /\ (IF n + 1 <= l THEN l - (n + 1) + 1 ELSE 0) = l - n
  OBVIOUS

\* The first n of a region's queue are taken out.
LEMMA FirstOut ==
    ASSUME NEW q \in Seq(Entries), OneEach(q), Sorted(q), NEW n \in Nat, n <= Len(q), NEW c,
           c = Later(q, n)
    PROVE  /\ c \in Seq(Entries) /\ OneEach(c) /\ Sorted(c)
           /\ Of(c) = Of(q) \ First(q, n) /\ First(q, n) \subseteq Of(q)
           /\ IsFiniteSet(First(q, n)) /\ Cardinality(First(q, n)) = n
           /\ q = << >> => c = << >>
<1>1. /\ DOMAIN q = 1 .. Len(q) /\ Len(q) \in Nat
      /\ \A i \in 1 .. Len(q) : q[i] \in Entries
  BY Positions, Value
<1>2. PICK m \in Nat : m = Len(q) - n
  <2>1. Len(q) - n \in Nat
    BY <1>1
  <2> QED
    BY <2>1, Zenon
<1>3. c \in Seq(Entries) /\ Len(c) = m /\ \A i \in 1 .. m : c[i] = q[n + i]
  <2>1. \A i \in n + 1 .. Len(q) : q[i] \in Entries
    BY <1>1
  <2>2. /\ c \in Seq(Entries) /\ Len(c) = IF n + 1 <= Len(q) THEN Len(q) - (n + 1) + 1 ELSE 0
        /\ \A i \in 1 .. Len(q) - (n + 1) + 1 : c[i] = q[n + 1 + i - 1]
    BY <1>1, <2>1, Part DEF Later
  <2>3. Len(q) - (n + 1) + 1 = m
    BY <1>1, <1>2, RestLength
  <2>4. Len(c) = m
    BY <1>1, <1>2, <2>2, RestLength
  <2>5. \A i \in 1 .. m : n + 1 + i - 1 = n + i
    BY <1>1
  <2> QED
    BY <2>2, <2>3, <2>4, <2>5, ZenonT(30)
<1>4. DOMAIN c = 1 .. m
  BY <1>3, Positions
<1>5. \A i \in 1 .. m : n + i \in DOMAIN q /\ n + i > n /\ c[i] = q[n + i]
  <2>1. \A i \in 1 .. m : n + i \in 1 .. Len(q) /\ n + i > n
    BY <1>1, <1>2
  <2> QED
    BY <1>1, <1>3, <2>1
<1>6. OneEach(c)
  <2>1. ASSUME NEW i \in 1 .. m, NEW j \in 1 .. m, c[i].s = c[j].s PROVE i = j
    <3>1. q[n + i].s = q[n + j].s /\ n + i \in DOMAIN q /\ n + j \in DOMAIN q
      BY <1>5, <2>1
    <3>2. n + i = n + j
      BY <3>1 DEF OneEach
    <3> QED
      BY <1>1, <3>2
  <2> QED
    BY <1>4, <2>1 DEF OneEach
<1>7. Sorted(c)
  <2>1. ASSUME NEW i \in 1 .. m, NEW j \in 1 .. m, i < j PROVE c[i].prio >= c[j].prio
    <3>1. n + i < n + j
      BY <1>1, <2>1
    <3> QED
      BY <1>5, <3>1, Zenon DEF Sorted
  <2> QED
    BY <1>4, <2>1 DEF Sorted
<1>8. PICK in : in = First(q, n)
  OBVIOUS
<1>9. \A i \in 1 .. n : i \in DOMAIN q
  BY <1>1
<1>10. in \subseteq Of(q)
  BY <1>8, <1>9 DEF Of, First
<1>11. Of(c) = Of(q) \ in
  <2>1. ASSUME NEW i \in 1 .. m PROVE c[i].s \in Of(q) \ in
    <3>1. c[i].s = q[n + i].s /\ n + i \in DOMAIN q
      BY <1>5
    <3>2. ASSUME NEW j \in 1 .. n, q[j].s = q[n + i].s PROVE FALSE
      <4>1. j = n + i
        BY <1>9, <3>1, <3>2 DEF OneEach
      <4> QED
        BY <1>1, <4>1
    <3> QED
      BY <1>8, <3>1, <3>2 DEF Of, First
  <2>2. ASSUME NEW i \in DOMAIN q, q[i].s \notin in PROVE q[i].s \in Of(c)
    <3>1. i \notin 1 .. n
      BY <1>8, <2>2 DEF First
    <3>2. i - n \in 1 .. m /\ n + (i - n) = i
      BY <1>1, <1>2, <3>1
    <3>3. i - n \in DOMAIN c /\ c[i - n] = q[i]
      BY <1>4, <1>5, <3>2
    <3> QED
      BY <3>3 DEF Of
  <2>3. Of(c) \subseteq Of(q) \ in
    BY <1>4, <2>1 DEF Of
  <2>4. Of(q) \ in \subseteq Of(c)
    <3>1. ASSUME NEW x \in Of(q), x \notin in PROVE x \in Of(c)
      <4>1. PICK i \in DOMAIN q : x = q[i].s
        BY DEF Of
      <4> QED
        BY <2>2, <3>1, <4>1
    <3> QED
      BY <3>1
  <2> QED
    BY <2>3, <2>4
<1>12. IsFiniteSet(in) /\ Cardinality(in) = n
  BY <1>8, CountFirst
<1>13. q = << >> => c = << >>
  <2>1. ASSUME q = << >> PROVE c = << >>
    <3>1. Len(q) = 0
      BY <2>1, Empty
    <3>2. m = 0
      BY <1>1, <1>2, <3>1
    <3> QED
      BY <1>3, <3>2, Empty
  <2> QED
    BY <2>1
<1> QED
  BY <1>3, <1>6, <1>7, <1>8, <1>10, <1>11, <1>12, <1>13

\* The first session is taken from addSessQueue.
LEMMA Dequeued ==
    ASSUME NEW q \in Seq(Sessions), Distinct(q), q # << >>
    PROVE  /\ Head(q) \in Range(q) /\ Head(q) \in Sessions
           /\ Tail(q) \in Seq(Sessions) /\ Distinct(Tail(q)) /\ Range(Tail(q)) = Range(q) \ {Head(q)}
<1>1. PICK o : o = Tail(q)
  BY Zenon
<1>2. /\ Head(q) = q[1] /\ 1 \in DOMAIN q
      /\ \A k \in DOMAIN o : k \in Nat \ {0} /\ k + 1 \in DOMAIN q /\ o[k] = q[k + 1]
      /\ \A k \in DOMAIN q : k = 1 \/ (k \in Nat /\ 1 < k /\ k - 1 \in DOMAIN o /\ o[k - 1] = q[k])
  BY <1>1, Shrink
<1>3. o \in Seq(Sessions)
  BY <1>1, Beheaded
<1>4. Head(q) \in Range(q) /\ Head(q) \in Sessions
  BY <1>2, Value DEF Range
<1>5. Distinct(o)
  <2>1. ASSUME NEW i \in DOMAIN o, NEW j \in DOMAIN o, o[i] = o[j] PROVE i = j
    <3>1. i + 1 = j + 1
      BY <1>2, <2>1 DEF Distinct
    <3>2. i \in Nat /\ j \in Nat
      BY <1>2
    <3> QED
      BY <3>1, <3>2
  <2> QED
    BY <2>1 DEF Distinct
<1>6. ASSUME NEW x PROVE x \in Range(o) <=> x \in Range(q) \ {Head(q)}
  <2>1. ASSUME x \in Range(o) PROVE x \in Range(q) \ {Head(q)}
    <3>1. PICK k \in DOMAIN o : x = o[k]
      BY <2>1 DEF Range
    <3>2. k + 1 \in DOMAIN q /\ x = q[k + 1] /\ k + 1 # 1
      BY <1>2, <3>1
    <3>3. x # q[1]
      BY <1>2, <3>2 DEF Distinct
    <3> QED
      BY <1>2, <3>2, <3>3 DEF Range
  <2>2. ASSUME x \in Range(q), x # Head(q) PROVE x \in Range(o)
    <3>1. PICK k \in DOMAIN q : x = q[k]
      BY <2>2 DEF Range
    <3>2. k - 1 \in DOMAIN o /\ o[k - 1] = x
      BY <1>2, <2>2, <3>1
    <3> QED
      BY <3>2 DEF Range
  <2> QED
    BY <2>1, <2>2
<1>7. Range(o) = Range(q) \ {Head(q)}
  BY <1>6
<1> QED
  BY <1>1, <1>3, <1>4, <1>5, <1>7, Zenon

\* A session is put into addSessQueue.
LEMMA Enqueued ==
    ASSUME NEW q \in Seq(Sessions), Distinct(q), NEW s \in Sessions, s \notin Range(q)
    PROVE  Append(q, s) \in Seq(Sessions) /\ Distinct(Append(q, s)) /\ Range(Append(q, s)) = Range(q) \cup {s}
<1>1. PICK o : o = Append(q, s)
  BY Zenon
<1>2. PICK l : l = Len(q) + 1
  OBVIOUS
<1>3. /\ DOMAIN o = DOMAIN q \cup {l} /\ o[l] = s
      /\ \A k \in DOMAIN q : o[k] = q[k]
  BY <1>1, <1>2, Grow
<1>4. o \in Seq(Sessions)
  BY <1>1, Appended
<1>5. \A k \in DOMAIN q : q[k] # s
  BY DEF Range
<1>6. Distinct(o)
  <2>1. ASSUME NEW i \in DOMAIN o, NEW j \in DOMAIN o, o[i] = o[j] PROVE i = j
    BY <1>3, <1>5, <2>1 DEF Distinct
  <2> QED
    BY <2>1 DEF Distinct
<1>7. Range(o) = Range(q) \cup {s}
  BY <1>3 DEF Range
<1> QED
  BY <1>1, <1>4, <1>6, <1>7, Zenon

(***************************************************************************)
(* The facts that the steps rest on.                                       *)
(***************************************************************************)
\* The facts about finite sets hold.
LEMMA SetFacts ==
    /\ IntervalFact /\ SubsetFact /\ SizeFact /\ AddFact /\ RemoveFact /\ EmptyFact /\ UnionFact
    /\ IntersectionFact /\ BothFact /\ RestFact /\ MinFact
<1>1. IntervalFact
  BY FS_Interval DEF IntervalFact
<1>2. SubsetFact
  BY FS_Subset DEF SubsetFact
<1>3. SizeFact
  BY FS_CardinalityType DEF SizeFact
<1>4. AddFact
  BY FS_AddElement DEF AddFact
<1>5. RemoveFact
  BY FS_RemoveElement DEF RemoveFact
<1>6. EmptyFact
  BY FS_EmptySet DEF EmptyFact
<1>7. UnionFact
  BY FS_Union DEF UnionFact
<1>8. IntersectionFact
  BY FS_Intersection DEF IntersectionFact
<1>9. BothFact
  BY CountBoth DEF BothFact
<1>10. RestFact
  BY CountRest DEF RestFact
<1>11. MinFact
  BY MinTwo DEF MinFact
<1> QED
  BY <1>1, <1>2, <1>3, <1>4, <1>5, <1>6, <1>7, <1>8, <1>9, <1>10, <1>11

\* The facts about the queues hold.
LEMMA QueueFacts ==
    /\ TailFact /\ AppendFact /\ HeldFact /\ CutFact /\ AcceptFact /\ LastFact /\ PutFact /\ AgedFact /\ LaterFact
<1>1. TailFact
  BY Dequeued DEF TailFact
<1>2. AppendFact
  BY Enqueued DEF AppendFact
<1>3. HeldFact
  BY CountHeld, Zenon DEF HeldFact
<1>4. CutFact
  BY RemovedQueues DEF CutFact
<1>5. AcceptFact
  BY FirstAccepted, Zenon DEF AcceptFact
<1>6. LastFact
  BY QueuedLast DEF LastFact
<1>7. PutFact
  BY QueuedByPriority, Zenon DEF PutFact
<1>8. AgedFact
  BY Aged DEF AgedFact
<1>9. LaterFact
  BY FirstOut DEF LaterFact
<1> QED
  BY <1>1, <1>2, <1>3, <1>4, <1>5, <1>6, <1>7, <1>8, <1>9

\* So every fact that the steps assume holds.
LEMMA AllFacts == Facts
  BY SetFacts, QueueFacts DEF Facts

(***************************************************************************)
(* The theorems.                                                           *)
(***************************************************************************)
\* World starts without sessions.
LEMMA InitInv == Init => IndInv
<1> SUFFICES ASSUME Init PROVE IndInv
  OBVIOUS
<1>1. /\ created = 0 /\ alive = {} /\ addSessQueue = << >> /\ m_disconnectedSessions = {}
      /\ m_QueuedSessions = << >> /\ todo = {} /\ phase = "accept" /\ priorityQueue \in PriorityModes
      /\ \A a \in Accounts : m_sessions[a] = Null
      /\ \A r \in Regions : m_priorityQueue[r] = << >> /\ logged[r] = 0
      /\ \A ip \in Addresses : m_Ipconnections[ip] = 0
  BY DEF Init
<1>2. MaxSessions \in Nat /\ PlayerLimit \in Nat /\ PlayerHardLimit \in Nat /\ LoginPerTick \in Nat
  BY SessionQueueAssumption
<1>3. InTable = {} /\ New = {}
  BY <1>1 DEF InTable, New, Range
<1>4. \A r \in Regions : Of(m_priorityQueue[r]) = {}
  BY <1>1 DEF Of
<1>5. W = {}
  <2>1. Range(m_QueuedSessions) = {}
    BY <1>1 DEF Range
  <2> QED
    BY <1>4, <2>1 DEF W, Held, Regions
<1>6. TypeOK
  <2>1. Blank \in SessionRec
    BY SessionQueueAssumption DEF Blank, NewSession, SessionRec
  <2>2. sess \in [Sessions -> SessionRec] /\ logged \in [Regions -> Nat] /\ m_Ipconnections \in [Addresses -> Nat]
    BY <2>1 DEF Init
  <2>3. m_sessions \in [Accounts -> 0 .. MaxSessions] /\ created \in 0 .. MaxSessions
    BY <1>2 DEF Init, Null
  <2>4. /\ addSessQueue \in Seq(Sessions) /\ m_QueuedSessions \in Seq(Sessions)
        /\ m_priorityQueue \in [Regions -> Seq(Entries)]
    BY NoElements DEF Init
  <2> QED
    BY <1>1, <1>2, <2>2, <2>3, <2>4 DEF TypeOK, Init
<1>7. QueuesOK(priorityQueue, m_QueuedSessions, m_priorityQueue)
  <2>1. Distinct(m_QueuedSessions)
    BY <1>1 DEF Distinct
  <2>2. \A r \in Regions : OneEach(m_priorityQueue[r]) /\ Sorted(m_priorityQueue[r])
    BY <1>1 DEF OneEach, Sorted
  <2> QED
    BY <1>1, <1>4, <1>6, <2>1, <2>2 DEF QueuesOK, TypeOK, Regions
<1>8. PlacesInv
  <2>1. Distinct(addSessQueue)
    BY <1>1 DEF Distinct
  <2> QED
    BY <1>1, <1>3, <2>1 DEF PlacesInv
<1>9. WaitingInv
  BY <1>3, <1>4, <1>5 DEF WaitingInv
<1>10. CountersMatch /\ AddressesCounted /\ HardLimitSlack
  <2>1. \A r \in Regions : Passed(r) = {}
    BY <1>1 DEF Passed
  <2>2. \A ip \in Addresses : At(ip) = {}
    BY <1>3 DEF At
  <2>3. Placed = {}
    BY <1>3 DEF Placed
  <2>4. Cardinality({}) = 0
    BY FS_EmptySet
  <2>5. CountersMatch
    <3>1. \A r \in Regions : Cardinality(Passed(r)) = 0
      BY <2>1, <2>4, Zenon
    <3> QED
      BY <1>1, <3>1 DEF CountersMatch, Passed
  <2>6. AddressesCounted
    <3>1. \A ip \in Addresses : Cardinality(At(ip)) = 0
      BY <2>2, <2>4, Zenon
    <3> QED
      BY <1>1, <3>1 DEF AddressesCounted, At
  <2>7. HardLimitSlack
    <3>1. Cardinality(Placed) = 0
      BY <2>3, <2>4, Zenon
    <3> QED
      BY <1>2, <3>1 DEF HardLimitSlack, Placed
  <2> QED
    BY <2>5, <2>6, <2>7
<1> QED
  BY <1>6, <1>7, <1>8, <1>9, <1>10 DEF IndInv, QueueInv

\* World's tables, queues and counters agree at all times (the inductive
\* invariant).
THEOREM Inductive == Spec => []IndInv
<1>1. IndInv /\ [Next]_vars => IndInv'
  BY NextInv, AllFacts
<1> QED
  BY <1>1, InitInv, PTL DEF Spec

\* World's session tables, queues and counters keep their types; m_Ipconnections
\* and the population counters, unsigned in the code, never go below zero.
THEOREM TypeCorrect == Spec => []TypeOK
<1>1. IndInv => TypeOK
  BY DEF IndInv
<1> QED
  BY <1>1, Inductive, PTL

\* OnPassedQueue and the destructor of WorldSession balance: the two counters
\* that decide who waits are the numbers of existing sessions that passed.
THEOREM PopulationsCounted == Spec => []CountersMatch
<1>1. IndInv => CountersMatch
  BY DEF IndInv
<1> QED
  BY <1>1, Inductive, PTL

\* Who waits, according to the property, is who is in the queues.
LEMMA WaitingIsHeld == ASSUME IndInv PROVE Waiting = W
<1>1. /\ QueuesOK(priorityQueue, m_QueuedSessions, m_priorityQueue) /\ W \subseteq Sessions
      /\ priorityQueue \in BOOLEAN
  BY AllFacts, Typed, Tables, Counts
<1>2. \A r \in Regions : \A s : s \in Of(m_priorityQueue[r]) <=> \E e \in Range(m_priorityQueue[r]) : e.s = s
  BY DEF Of, Range
<1>3. CASE priorityQueue
  <2>1. Range(m_QueuedSessions) = {}
    BY <1>1, <1>3 DEF QueuesOK, Range
  <2> QED
    BY <1>1, <1>2, <1>3, <2>1 DEF Waiting, W, Held, Regions
<1>4. CASE ~priorityQueue
  <2>1. \A r \in Regions : Of(m_priorityQueue[r]) = {}
    BY <1>1, <1>4 DEF QueuesOK, Of
  <2> QED
    BY <1>1, <1>4, <2>1 DEF Waiting, W, Held, Regions
<1> QED
  BY <1>1, <1>3, <1>4

\* No queue holds a session that was deleted or replaced, or one twice; a
\* session of m_sessions waits or has passed, as m_inQueue says.
THEOREM QueuesHoldTheWaiting == Spec => []QueueHoldsTheWaiting
<1>1. ASSUME IndInv PROVE QueueHoldsTheWaiting
  <2>1. Waiting = W /\ W \subseteq InTable /\ QueuedSessionCount = Cardinality(W)
    BY <1>1, AllFacts, WaitingIsHeld, Counts
  <2>2. \A s \in InTable : /\ sess[s].inQueue <=> s \in W
                           /\ sess[s].passed = "no" <=> s \in W
    BY <1>1 DEF IndInv, QueueInv, WaitingInv
  <2>3. \A r \in Regions : \A e \in Range(m_priorityQueue[r]) : RegionOf(e.s) = r
    BY <1>1 DEF IndInv, QueueInv, WaitingInv, Of, Range
  <2> QED
    BY <2>1, <2>2, <2>3, Zenon DEF QueueHoldsTheWaiting
<1> QED
  BY <1>1, Inductive, PTL

\* The priority queues are sorted whatever came, left and aged meanwhile.
THEOREM QueuesSorted == Spec => []QueueSorted
<1>1. IndInv => QueueSorted
  BY DEF IndInv, QueueInv, QueuesOK, Sorted, QueueSorted
<1> QED
  BY <1>1, Inductive, PTL

\* Sessions that got a place, and not by skipping the queue, exceed
\* PlayerHardLimit by less than LoginPerTick.
THEOREM LimitKept == Spec => []HardLimitSlack
<1>1. IndInv => HardLimitSlack
  BY DEF IndInv
<1> QED
  BY <1>1, Inductive, PTL

\* m_Ipconnections never counts fewer sessions of an address than there are.
THEOREM ConnectionsCounted == Spec => []AddressesCounted
<1>1. IndInv => AddressesCounted
  BY DEF IndInv
<1> QED
  BY <1>1, Inductive, PTL

=============================================================================
