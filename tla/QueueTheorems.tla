--------------------------- MODULE QueueTheorems ---------------------------
(***************************************************************************)
(* Facts about the queues of queue.c seen as sequences: what qput (Append),*)
(* qget (Head and Tail) and qremove (RemoveFirst) leave in a queue.        *)
(***************************************************************************)
EXTENDS Integers, Sequences, SequencesExt, Functions,
        SequenceTheorems, WellFoundedInduction, TLAPS

(* An element is in the queue after qput if it was or if it is the new one, *)
(* and a queue without duplicates stays one if the element is new.          *)
LEMMA QputLemma ==
  ASSUME NEW S, NEW q \in Seq(S), NEW e \in S
  PROVE  /\ Append(q, e) \in Seq(S)
         /\ \A x : Contains(Append(q, e), x) <=> Contains(q, x) \/ x = e
         /\ IsInjective(q) /\ ~Contains(q, e) => IsInjective(Append(q, e))
         /\ Append(q, e) # <<>>
<1>1. /\ Append(q, e) \in Seq(S)
      /\ Append(q, e) # <<>>
      /\ Len(Append(q, e)) = Len(q) + 1
      /\ \A i \in 1..Len(q) : Append(q, e)[i] = q[i]
      /\ Append(q, e)[Len(q) + 1] = e
  BY AppendProperties
<1>2. Len(q) \in Nat /\ DOMAIN q = 1..Len(q) /\ DOMAIN Append(q, e) = 1..(Len(q) + 1)
  BY <1>1, LenProperties
<1>3. ASSUME NEW x
      PROVE  Contains(Append(q, e), x) <=> Contains(q, x) \/ x = e
  <2>1. ASSUME Contains(q, x) \/ x = e
        PROVE  Contains(Append(q, e), x)
    <3>1. CASE Contains(q, x)
      BY <1>1, <1>2, <3>1 DEF Contains
    <3>2. CASE x = e
      BY <1>1, <1>2, <3>2 DEF Contains
    <3> QED BY <2>1, <3>1, <3>2
  <2>2. ASSUME Contains(Append(q, e), x), x # e
        PROVE  Contains(q, x)
    <3>1. PICK i \in 1..(Len(q) + 1) : Append(q, e)[i] = x
      BY <1>1, <2>2 DEF Contains
    <3>2. i \in 1..Len(q)
      BY <1>1, <1>2, <2>2, <3>1
    <3> QED BY <1>1, <3>1, <3>2 DEF Contains
  <2> QED BY <2>1, <2>2
<1>4. ASSUME IsInjective(q), ~Contains(q, e)
      PROVE  IsInjective(Append(q, e))
  BY <1>1, <1>2, <1>4 DEF IsInjective, Contains
<1> QED BY <1>1, <1>3, <1>4

(* qget takes the first element, and nothing else, out of the queue. *)
LEMMA QgetLemma ==
  ASSUME NEW S, NEW q \in Seq(S), q # <<>>
  PROVE  /\ Head(q) \in S /\ Contains(q, Head(q))
         /\ Tail(q) \in Seq(S)
         /\ \A x : Contains(Tail(q), x) => Contains(q, x)
         /\ \A x : Contains(q, x) => Contains(Tail(q), x) \/ x = Head(q)
         /\ IsInjective(q) => IsInjective(Tail(q)) /\ ~Contains(Tail(q), Head(q))
<1>1. /\ Head(q) \in S /\ Tail(q) \in Seq(S)
      /\ Len(Tail(q)) = Len(q) - 1
      /\ \A i \in 1..Len(Tail(q)) : Tail(q)[i] = q[i + 1]
  BY HeadTailProperties
<1>2. Len(q) \in Nat \ {0} /\ DOMAIN q = 1..Len(q) /\ DOMAIN Tail(q) = 1..(Len(q) - 1)
  BY <1>1, LenProperties, EmptySeq
<1>3. Head(q) = q[1]
  OBVIOUS
<1>4. ASSUME NEW x, Contains(Tail(q), x)
      PROVE  Contains(q, x)
  <2>1. PICK i \in 1..(Len(q) - 1) : Tail(q)[i] = x
    BY <1>1, <1>4 DEF Contains
  <2> QED BY <1>1, <1>2, <2>1 DEF Contains
<1>5. ASSUME NEW x, Contains(q, x), x # Head(q)
      PROVE  Contains(Tail(q), x)
  <2>1. PICK i \in 1..Len(q) : q[i] = x
    BY <1>5 DEF Contains
  <2>2. i - 1 \in 1..Len(Tail(q)) /\ Tail(q)[i - 1] = x
    BY <1>1, <1>2, <1>3, <1>5, <2>1
  <2> QED BY <2>2 DEF Contains
<1>6. ASSUME IsInjective(q)
      PROVE  IsInjective(Tail(q)) /\ ~Contains(Tail(q), Head(q))
  BY <1>1, <1>2, <1>3, <1>6 DEF IsInjective, Contains
<1>7. Contains(q, Head(q))
  BY <1>2, <1>3 DEF Contains
<1> QED BY <1>1, <1>4, <1>5, <1>6, <1>7

(* A queue stands in front of what is put behind it, also once its first   *)
(* element has left.                                                       *)
LEMMA QprefixLemma ==
  ASSUME NEW S, NEW q \in Seq(S), NEW e \in S
  PROVE  /\ IsPrefix(q, Append(q, e))
         /\ q # <<>> => /\ Head(Append(q, e)) = Head(q)
                        /\ Tail(Append(q, e)) = Append(Tail(q), e)
<1>1. Len(q) \in Nat /\ Len(Append(q, e)) = Len(q) + 1
  OBVIOUS
<1>2. SubSeq(q, 1, Len(q)) = SubSeq(Append(q, e), 1, Len(q))
  OBVIOUS
<1>3. IsPrefix(q, Append(q, e))
  BY <1>1, <1>2 DEF IsPrefix
<1>4. ASSUME q # <<>>
      PROVE  Head(Append(q, e)) = Head(q) /\ Tail(Append(q, e)) = Append(Tail(q), e)
  BY <1>4
<1> QED BY <1>3, <1>4

(* A set of naturals that is not empty has a least element. *)
LEMMA LeastNatural ==
  ASSUME NEW I, I \subseteq Nat, I # {}
  PROVE  \E x \in I : \A y \in I : x =< y
<1> DEFINE R == OpToRel(<, Nat)
<1>1. \E x \in I : \A y \in I : ~(<<y, x>> \in R)
  BY WFMin, NatLessThanWellFounded
<1>2. \A x, y \in I : y < x => <<y, x>> \in R
  BY DEF OpToRel
<1>3. \A x, y \in I : ~(y < x) => x =< y
  OBVIOUS
<1> HIDE DEF R
<1> QED BY <1>1, <1>2, <1>3

(* The queue without its k-th element. *)
LEMMA RemoveAtLemma ==
  ASSUME NEW S, NEW q \in Seq(S), NEW k \in 1..Len(q)
  PROVE  /\ RemoveAt(q, k) \in Seq(S)
         /\ Len(RemoveAt(q, k)) = Len(q) - 1
         /\ \A i \in 1..(Len(q) - 1) : RemoveAt(q, k)[i] = IF i < k THEN q[i] ELSE q[i + 1]
<1>1. Len(q) \in Nat /\ \A i \in 1..Len(q) : q[i] \in S
  BY LenProperties, ElementOfSeq
<1>2. /\ SubSeq(q, 1, k - 1) \in Seq(S) /\ Len(SubSeq(q, 1, k - 1)) = k - 1
      /\ \A i \in 1..(k - 1) : SubSeq(q, 1, k - 1)[i] = q[i]
  <2>1. 1 \in Int /\ k - 1 \in Int /\ \A i \in 1..(k - 1) : q[i] \in S
    BY <1>1
  <2>2. /\ SubSeq(q, 1, k - 1) \in Seq(S)
        /\ Len(SubSeq(q, 1, k - 1)) = IF 1 =< k - 1 THEN (k - 1) - 1 + 1 ELSE 0
        /\ \A i \in 1..((k - 1) - 1 + 1) : SubSeq(q, 1, k - 1)[i] = q[1 + i - 1]
    BY <2>1, SubSeqProperties
  <2> QED BY <1>1, <2>2
<1>3. /\ SubSeq(q, k + 1, Len(q)) \in Seq(S) /\ Len(SubSeq(q, k + 1, Len(q))) = Len(q) - k
      /\ \A i \in 1..(Len(q) - k) : SubSeq(q, k + 1, Len(q))[i] = q[k + i]
  <2>1. k + 1 \in Int /\ Len(q) \in Int /\ \A i \in (k + 1)..Len(q) : q[i] \in S
    BY <1>1
  <2>2. /\ SubSeq(q, k + 1, Len(q)) \in Seq(S)
        /\ Len(SubSeq(q, k + 1, Len(q))) =
             IF k + 1 =< Len(q) THEN Len(q) - (k + 1) + 1 ELSE 0
        /\ \A i \in 1..(Len(q) - (k + 1) + 1) :
             SubSeq(q, k + 1, Len(q))[i] = q[(k + 1) + i - 1]
    BY <2>1, SubSeqProperties
  <2> QED BY <1>1, <2>2
<1> DEFINE s1 == SubSeq(q, 1, k - 1)
           s2 == SubSeq(q, k + 1, Len(q))
<1>4. RemoveAt(q, k) = s1 \o s2
  BY DEF RemoveAt
<1> HIDE DEF s1, s2
<1>5. /\ s1 \in Seq(S) /\ Len(s1) = k - 1 /\ \A i \in 1..(k - 1) : s1[i] = q[i]
      /\ s2 \in Seq(S) /\ Len(s2) = Len(q) - k /\ \A i \in 1..(Len(q) - k) : s2[i] = q[k + i]
  BY <1>2, <1>3 DEF s1, s2
<1>6. /\ s1 \o s2 \in Seq(S)
      /\ Len(s1 \o s2) = Len(s1) + Len(s2)
      /\ \A i \in 1..(Len(s1) + Len(s2)) :
           (s1 \o s2)[i] = IF i <= Len(s1) THEN s1[i] ELSE s2[i - Len(s1)]
  BY <1>5, ConcatProperties
<1>7. ASSUME NEW i \in 1..(Len(q) - 1)
      PROVE  (s1 \o s2)[i] = IF i < k THEN q[i] ELSE q[i + 1]
  <2>1. CASE i < k
    BY <1>1, <1>5, <1>6, <2>1
  <2>2. CASE ~(i < k)
    <3>1. i - (k - 1) \in 1..(Len(q) - k) /\ i \in 1..(Len(s1) + Len(s2)) /\ ~(i =< Len(s1))
      BY <1>1, <1>5, <2>2
    <3>2. (s1 \o s2)[i] = s2[i - (k - 1)]
      BY <1>5, <1>6, <3>1
    <3>3. s2[i - (k - 1)] = q[k + (i - (k - 1))]
      BY <1>5, <3>1
    <3>4. k + (i - (k - 1)) = i + 1
      BY <1>1
    <3> QED BY <2>2, <3>2, <3>3, <3>4
  <2> QED BY <2>1, <2>2
<1> QED BY <1>1, <1>4, <1>5, <1>6, <1>7

(* Without its k-th element a queue keeps all the others, and without      *)
(* duplicates it does not have that one any more.                          *)
LEMMA RemoveAtContains ==
  ASSUME NEW S, NEW q \in Seq(S), NEW k \in 1..Len(q)
  PROVE  /\ RemoveAt(q, k) \in Seq(S)
         /\ \A x : Contains(RemoveAt(q, k), x) => Contains(q, x)
         /\ \A x : x # q[k] /\ Contains(q, x) => Contains(RemoveAt(q, k), x)
         /\ IsInjective(q) => IsInjective(RemoveAt(q, k)) /\ ~Contains(RemoveAt(q, k), q[k])
<1>1. Len(q) \in Nat /\ DOMAIN q = 1..Len(q)
  BY LenProperties
<1> DEFINE r == RemoveAt(q, k)
           e == q[k]
<1>2. /\ r \in Seq(S) /\ Len(r) = Len(q) - 1
      /\ \A i \in 1..(Len(q) - 1) : r[i] = IF i < k THEN q[i] ELSE q[i + 1]
  BY RemoveAtLemma
<1>3. DOMAIN r = 1..(Len(q) - 1)
  BY <1>2, LenProperties
<1> HIDE DEF r
<1>4. ASSUME NEW x, Contains(r, x)
      PROVE  Contains(q, x)
  <2>1. PICK i \in 1..(Len(q) - 1) : r[i] = x
    BY <1>2, <1>4 DEF Contains
  <2>2. i \in 1..Len(q) /\ i + 1 \in 1..Len(q)
    BY <1>1
  <2>3. r[i] = q[i] \/ r[i] = q[i + 1]
    BY <1>2
  <2> QED BY <2>1, <2>2, <2>3 DEF Contains
<1>5. ASSUME NEW x, x # e, Contains(q, x)
      PROVE  Contains(r, x)
  <2>1. PICK i \in 1..Len(q) : q[i] = x
    BY <1>5 DEF Contains
  <2>2. CASE i < k
    <3>1. i \in 1..(Len(q) - 1) /\ r[i] = x
      BY <1>1, <1>2, <2>1, <2>2
    <3> QED BY <1>2, <3>1 DEF Contains
  <2>3. CASE i > k
    <3>1. i - 1 \in 1..(Len(q) - 1) /\ ~(i - 1 < k) /\ (i - 1) + 1 = i
      BY <1>1, <2>3
    <3>2. r[i - 1] = x
      BY <1>2, <2>1, <3>1
    <3> QED BY <1>2, <3>1, <3>2 DEF Contains
  <2> QED BY <1>1, <1>5, <2>1, <2>2, <2>3
<1>6. ASSUME IsInjective(q)
      PROVE  IsInjective(r) /\ ~Contains(r, e)
  <2>1. \A i, j \in 1..Len(q) : q[i] = q[j] => i = j
    BY <1>1, <1>6 DEF IsInjective
  <2> DEFINE at(i) == IF i < k THEN i ELSE i + 1
  <2>2. \A i \in 1..(Len(q) - 1) : at(i) \in 1..Len(q) /\ at(i) # k /\ r[i] = q[at(i)]
    BY <1>1, <1>2
  <2>3. \A i, j \in 1..(Len(q) - 1) : at(i) = at(j) => i = j
    BY <1>1
  <2> HIDE DEF at
  <2>4. \A i, j \in 1..(Len(q) - 1) : r[i] = r[j] => i = j
    BY <2>1, <2>2, <2>3
  <2>5. \A i \in 1..(Len(q) - 1) : r[i] # e
    BY <1>1, <2>1, <2>2
  <2> QED BY <1>2, <1>3, <2>4, <2>5 DEF IsInjective, Contains
<1> QED BY <1>2, <1>4, <1>5, <1>6 DEF r, e

(* qremove takes the first match, if there is one, out of the queue: the   *)
(* only one in a queue without duplicates.                                 *)
LEMMA QremoveLemma ==
  ASSUME NEW S, NEW q \in Seq(S), NEW e
  PROVE  /\ RemoveFirst(q, e) \in Seq(S)
         /\ \A x : Contains(RemoveFirst(q, e), x) => Contains(q, x)
         /\ \A x : x # e /\ Contains(q, x) => Contains(RemoveFirst(q, e), x)
         /\ IsInjective(q) => IsInjective(RemoveFirst(q, e)) /\ ~Contains(RemoveFirst(q, e), e)
<1>1. Len(q) \in Nat /\ DOMAIN q = 1..Len(q)
  BY LenProperties
<1>2. CASE ~Contains(q, e)
  BY <1>2 DEF RemoveFirst, Contains
<1>3. CASE Contains(q, e)
  <2>1. PICK k \in 1..Len(q) : q[k] = e /\ RemoveFirst(q, e) = RemoveAt(q, k)
    <3> DEFINE I == {i \in 1..Len(q) : q[i] = e}
               first == CHOOSE x \in I : \A y \in I : x =< y
    <3>1. I # {} /\ I \subseteq Nat
      BY <1>1, <1>3 DEF Contains
    <3>2. first \in I
      BY <3>1, LeastNatural
    <3>3. SelectInSeq(q, LAMBDA v : v = e) = first
      BY <3>1 DEF SelectInSeq, Min
    <3>4. RemoveFirst(q, e) = RemoveAt(q, first)
      BY <1>3, <3>3 DEF RemoveFirst, Contains
    <3> QED BY <3>2, <3>4
  <2> QED BY <2>1, RemoveAtContains
<1> QED BY <1>2, <1>3
=============================================================================
