---------------------------- MODULE QueueProofs ----------------------------
(***************************************************************************)
(* Proofs about the linked queues of Queue, for any number of queues and   *)
(* nodes: no operation follows a pointer to a freed node, no node is       *)
(* leaked or shared, and Queue implements FifoQueue.  The invariant says   *)
(* that there is a sequence of nodes for every queue which is what its     *)
(* pointers link; each operation is shown to update these sequences.       *)
(***************************************************************************)
EXTENDS Queue, QueueTheorems, FiniteSetTheorems

(* The sequence s of nodes is what a loop walks that starts at fr and goes *)
(* along nx: the last node leads nowhere, and is the one at bk.            *)
Links(fr, bk, nx, s) ==
  /\ s \in Seq(Node) /\ IsInjective(s)
  /\ fr = IF s = <<>> THEN NULL ELSE s[1]
  /\ \A i \in 1..Len(s) : nx[s[i]] = IF i = Len(s) THEN NULL ELSE s[i + 1]
  /\ s # <<>> => bk = s[Len(s)]

(* The queues hold the nodes in s: no node twice, and all that is in use.  *)
Shape(fr, bk, nx, op, al, s) ==
  /\ s \in [Queues -> Seq(Node)]
  /\ \A q \in Queues : Links(fr[q], bk[q], nx, s[q])
  /\ \A q \in Queues \ op : s[q] = <<>>
  /\ \A q, r \in Queues : q # r => \A n \in Node : ~(Contains(s[q], n) /\ Contains(s[r], n))
  /\ \A n \in Node : n \in al <=> \E q \in Queues : Contains(s[q], n)

(* The invariant: besides the types, that the queues have such a shape.    *)
QueueInv ==
  /\ TypeOK /\ fault # "freed"
  /\ \E s : Shape(front, back, next, open, allocated, s)

(* A chain without duplicates is no longer than there are nodes. *)
LEMMA ChainLength ==
  ASSUME NEW s \in Seq(Node), IsInjective(s)
  PROVE  /\ Len(s) <= Cardinality(Node) /\ Cardinality(Node) \in Nat
         /\ Cardinality(1..Len(s)) = Len(s)
<1>1. Len(s) \in Nat /\ s \in [1..Len(s) -> Node]
  BY LenProperties
<1>2. s \in Injection(1..Len(s), Node)
  BY <1>1 DEF IsInjective, Injection, IsInjective
<1>3. IsFiniteSet(Node) /\ Cardinality(1..Len(s)) = Len(s)
  <2>1. Cardinality(1..Len(s)) = IF 1 > Len(s) THEN 0 ELSE Len(s) - 1 + 1
    BY <1>1, FS_Interval
  <2> QED BY <1>1, <2>1, QueueAssumption
<1> QED BY <1>2, <1>3, FS_Injection, FS_CardinalityType

(* Chain reads off what is linked, and nothing else. *)
LEMMA ChainIs ==
  ASSUME NEW q, NEW s, Links(front[q], back[q], next, s)
  PROVE  Chain(q) = s
<1> DEFINE N == Cardinality(Node)
           Step(f, k) == IF k = 1 THEN front[q] ELSE IF f[k-1] = NULL THEN NULL ELSE next[f[k-1]]
           Walk(f) == f = [k \in 1..N |-> Step(f, k)]
           node == CHOOSE f : f = [k \in 1..N |-> IF k = 1 THEN front[q] ELSE IF f[k-1] = NULL THEN NULL ELSE next[f[k-1]]]
           w == [k \in 1..N |-> IF k <= Len(s) THEN s[k] ELSE NULL]
<1>1. Chain(q) = SubSeq(node, 1, Cardinality({k \in DOMAIN node : node[k] # NULL}))
  BY DEF Chain
<1>2. /\ N \in Nat /\ Len(s) \in Nat /\ Len(s) <= N
      /\ s \in Seq(Node) /\ \A i \in 1..Len(s) : s[i] \in Node /\ s[i] # NULL
      /\ front[q] = IF Len(s) = 0 THEN NULL ELSE s[1]
      /\ \A i \in 1..Len(s) : next[s[i]] = IF i = Len(s) THEN NULL ELSE s[i + 1]
  <2>1. Len(s) \in Nat /\ (s = <<>> <=> Len(s) = 0) /\ \A i \in 1..Len(s) : s[i] \in Node
    BY LenProperties, ElementOfSeq, EmptySeq DEF Links
  <2> QED BY <2>1, ChainLength, QueueAssumption DEF Links
<1> HIDE DEF N
<1>3. Walk(w)
  <2>1. \A k \in 1..N : w[k] = Step(w, k)
    <3> TAKE k \in 1..N
    <3>1. CASE k = 1
      BY <1>2, <3>1
    <3>2. CASE k # 1
      <4>1. k - 1 \in 1..N /\ w[k-1] = IF k - 1 <= Len(s) THEN s[k-1] ELSE NULL
        BY <1>2, <3>2
      <4> QED BY <1>2, <3>2, <4>1
    <3> QED BY <3>1, <3>2
  <2> HIDE DEF Step
  <2>2. [k \in 1..N |-> Step(w, k)] = [k \in 1..N |-> w[k]]
    BY <2>1
  <2>3. w = [k \in 1..N |-> w[k]]
    OBVIOUS
  <2> QED BY <2>2, <2>3
<1>4. Walk(node)
  BY <1>3
<1> HIDE DEF node
<1>5. \A k \in 1..N : node[k] = w[k]
  <2> SUFFICES ASSUME NEW b \in 1..N, node[b] # w[b]
               PROVE  FALSE
    OBVIOUS
  <2> DEFINE I == {k \in 1..N : node[k] # w[k]}
  <2>1. PICK k \in I : \A j \in I : k =< j
    <3>1. I \subseteq Nat
      BY <1>2
    <3>2. b \in I
      OBVIOUS
    <3> HIDE DEF I
    <3> QED BY <3>1, <3>2, LeastNatural
  <2>2. node[k] = Step(node, k) /\ w[k] = Step(w, k) /\ k \in 1..N
    BY <1>3, <1>4
  <2>3. k # 1 => k - 1 \in 1..N /\ node[k-1] = w[k-1]
    BY <1>2, <2>1
  <2> QED BY <2>1, <2>2, <2>3
<1>6. node = w
  BY <1>4, <1>5
<1>7. {k \in DOMAIN w : w[k] # NULL} = 1..Len(s)
  BY <1>2
<1>8. Cardinality(1..Len(s)) = Len(s)
  BY ChainLength DEF Links
<1>9. SubSeq(w, 1, Len(s)) = s
  BY <1>2
<1> QED BY <1>1, <1>6, <1>7, <1>8, <1>9

(* The facts of Links by position. *)
LEMMA LinksByIndex ==
  ASSUME NEW fr, NEW bk, NEW nx, NEW s
  PROVE  Links(fr, bk, nx, s) <=>
           /\ s \in Seq(Node)
           /\ \A i, j \in 1..Len(s) : s[i] = s[j] => i = j
           /\ fr = IF Len(s) = 0 THEN NULL ELSE s[1]
           /\ \A i \in 1..Len(s) : nx[s[i]] = IF i = Len(s) THEN NULL ELSE s[i + 1]
           /\ Len(s) # 0 => bk = s[Len(s)]
<1>1. CASE s \in Seq(Node)
  <2>1. Len(s) \in Nat /\ DOMAIN s = 1..Len(s) /\ (s = <<>> <=> Len(s) = 0)
    BY <1>1, LenProperties, EmptySeq
  <2> QED BY <1>1, <2>1 DEF Links, IsInjective
<1>2. CASE s \notin Seq(Node)
  BY <1>2 DEF Links
<1> QED BY <1>1, <1>2

(* Nodes that no step touches stay linked. *)
LEMMA LinksKept ==
  ASSUME NEW fr, NEW bk, NEW nx, NEW bk2, NEW nx2, NEW s, Links(fr, bk, nx, s),
         s # <<>> => bk2 = bk,
         \A n \in Node : Contains(s, n) => nx2[n] = nx[n]
  PROVE  Links(fr, bk2, nx2, s)
<1>1. /\ s \in Seq(Node) /\ \A i, j \in 1..Len(s) : s[i] = s[j] => i = j
      /\ fr = IF Len(s) = 0 THEN NULL ELSE s[1]
      /\ \A i \in 1..Len(s) : nx[s[i]] = IF i = Len(s) THEN NULL ELSE s[i + 1]
      /\ Len(s) # 0 => bk = s[Len(s)]
  BY LinksByIndex
<1>2. \A i \in 1..Len(s) : s[i] \in Node /\ Contains(s, s[i])
  BY <1>1, ElementOfSeq DEF Contains
<1>3. s = <<>> <=> Len(s) = 0
  BY <1>1, EmptySeq
<1>4. /\ \A i \in 1..Len(s) : nx2[s[i]] = IF i = Len(s) THEN NULL ELSE s[i + 1]
      /\ Len(s) # 0 => bk2 = s[Len(s)]
  BY <1>1, <1>2, <1>3
<1> QED BY <1>1, <1>4, LinksByIndex

(* qput links a new node behind the last one. *)
LEMMA LinksPut ==
  ASSUME NEW fr, NEW bk, NEW nx, NEW s, Links(fr, bk, nx, s),
         NEW e \in Node, ~Contains(s, e), NEW nx2,
         nx2[e] = NULL, s # <<>> => nx2[bk] = e,
         \A n \in Node : Contains(s, n) /\ n # bk => nx2[n] = nx[n]
  PROVE  Links(IF s = <<>> THEN e ELSE fr, e, nx2, Append(s, e))
<1>1. /\ s \in Seq(Node) /\ \A i, j \in 1..Len(s) : s[i] = s[j] => i = j
      /\ fr = IF Len(s) = 0 THEN NULL ELSE s[1]
      /\ \A i \in 1..Len(s) : nx[s[i]] = IF i = Len(s) THEN NULL ELSE s[i + 1]
      /\ Len(s) # 0 => bk = s[Len(s)]
  BY LinksByIndex
<1>2. /\ Len(s) \in Nat /\ (s = <<>> <=> Len(s) = 0)
      /\ \A i \in 1..Len(s) : s[i] \in Node /\ Contains(s, s[i]) /\ s[i] # e
  BY <1>1, ElementOfSeq, LenProperties, EmptySeq DEF Contains
<1> DEFINE t == Append(s, e)
<1>3. /\ t \in Seq(Node) /\ Len(t) = Len(s) + 1
      /\ \A i \in 1..Len(s) : t[i] = s[i]
      /\ t[Len(s) + 1] = e
  BY <1>1, AppendProperties
<1> HIDE DEF t
<1>4. \A i, j \in 1..Len(t) : t[i] = t[j] => i = j
  BY <1>1, <1>2, <1>3
<1>5. \A i \in 1..Len(t) : nx2[t[i]] = IF i = Len(t) THEN NULL ELSE t[i + 1]
  <2> TAKE i \in 1..Len(t)
  <2>1. CASE i = Len(s) + 1
    BY <1>3, <2>1
  <2>2. CASE i = Len(s)
    BY <1>1, <1>2, <1>3, <2>2
  <2>3. CASE i < Len(s)
    <3>1. s[i] # bk /\ i \in 1..Len(s) /\ i + 1 \in 1..Len(s)
      BY <1>1, <1>2, <2>3
    <3> QED BY <1>1, <1>2, <1>3, <2>3, <3>1
  <2> QED BY <1>2, <1>3, <2>1, <2>2, <2>3
<1>6. (IF s = <<>> THEN e ELSE fr) = IF Len(t) = 0 THEN NULL ELSE t[1]
  BY <1>1, <1>2, <1>3
<1>7. Len(t) # 0 => e = t[Len(t)]
  BY <1>3
<1>8. Links(IF s = <<>> THEN e ELSE fr, e, nx2, t)
  BY <1>3, <1>4, <1>5, <1>6, <1>7, LinksByIndex
<1> QED BY <1>8 DEF t

(* From fr, bk and nx to fr2, bk2 and nx2 the k-th node of s is unlinked;  *)
(* bk2 may be anything if no node remains.                                 *)
Unlinked(fr, bk, nx, s, k, fr2, bk2, nx2) ==
  /\ fr2 = IF k # 1 THEN fr ELSE nx[s[1]]
  /\ Len(s) # 1 => bk2 = IF k = Len(s) THEN s[k - 1] ELSE bk
  /\ k # 1 => nx2[s[k - 1]] = IF k = Len(s) THEN NULL ELSE s[k + 1]
  /\ \A i \in 1..Len(s) : i # k /\ i # k - 1 => nx2[s[i]] = nx[s[i]]

(* What is linked then are the other nodes. *)
LEMMA LinksRemove ==
  ASSUME NEW fr, NEW bk, NEW nx, NEW s, Links(fr, bk, nx, s), NEW k \in 1..Len(s),
         NEW fr2, NEW bk2, NEW nx2, Unlinked(fr, bk, nx, s, k, fr2, bk2, nx2)
  PROVE  Links(fr2, bk2, nx2, RemoveAt(s, k))
<1>0. /\ fr2 = IF k # 1 THEN fr ELSE nx[s[1]]
      /\ Len(s) # 1 => bk2 = IF k = Len(s) THEN s[k - 1] ELSE bk
      /\ k # 1 => nx2[s[k - 1]] = IF k = Len(s) THEN NULL ELSE s[k + 1]
      /\ \A i \in 1..Len(s) : i # k /\ i # k - 1 => nx2[s[i]] = nx[s[i]]
  BY DEF Unlinked
<1>1. /\ s \in Seq(Node) /\ \A i, j \in 1..Len(s) : s[i] = s[j] => i = j
      /\ fr = IF Len(s) = 0 THEN NULL ELSE s[1]
      /\ \A i \in 1..Len(s) : nx[s[i]] = IF i = Len(s) THEN NULL ELSE s[i + 1]
      /\ Len(s) # 0 => bk = s[Len(s)]
  BY LinksByIndex
<1>2. Len(s) \in Nat
  BY <1>1, LenProperties
<1> DEFINE t == RemoveAt(s, k)
<1>3. /\ t \in Seq(Node) /\ Len(t) = Len(s) - 1
      /\ \A i \in 1..(Len(s) - 1) : t[i] = IF i < k THEN s[i] ELSE s[i + 1]
  BY <1>1, RemoveAtLemma
<1> HIDE DEF t
<1>4. \A i, j \in 1..Len(t) : t[i] = t[j] => i = j
  BY <1>1, <1>2, <1>3
<1>5. \A i \in 1..Len(t) : nx2[t[i]] = IF i = Len(t) THEN NULL ELSE t[i + 1]
  <2> TAKE i \in 1..Len(t)
  <2>1. CASE i < k - 1
    <3>1. t[i] = s[i] /\ t[i + 1] = s[i + 1] /\ i # Len(t)
      BY <1>2, <1>3, <2>1
    <3>2. i \in 1..Len(s) /\ i # Len(s) /\ nx2[s[i]] = nx[s[i]]
      BY <1>0, <1>2, <1>3, <2>1
    <3> QED BY <1>1, <3>1, <3>2
  <2>2. CASE i = k - 1
    BY <1>0, <1>1, <1>2, <1>3, <2>2
  <2>3. CASE i > k - 1
    <3>1. t[i] = s[i + 1] /\ (i # Len(t) => t[i + 1] = s[(i + 1) + 1])
      BY <1>2, <1>3, <2>3
    <3>2. i + 1 \in 1..Len(s) /\ nx2[s[i + 1]] = nx[s[i + 1]] /\ (i + 1 = Len(s) <=> i = Len(t))
      BY <1>0, <1>2, <1>3, <2>3
    <3> QED BY <1>1, <3>1, <3>2
  <2> QED BY <1>2, <1>3, <2>1, <2>2, <2>3
<1>6. fr2 = IF Len(t) = 0 THEN NULL ELSE t[1]
  BY <1>0, <1>1, <1>2, <1>3
<1>7. Len(t) # 0 => bk2 = t[Len(t)]
  BY <1>0, <1>1, <1>2, <1>3
<1>8. Links(fr2, bk2, nx2, t)
  BY <1>3, <1>4, <1>5, <1>6, <1>7, LinksByIndex
<1> QED BY <1>8 DEF t

(* A step to fr2 ... al2 links the nodes u in the queue q, keeps only those*)
(* nodes of that queue, and disturbs no other queue.                       *)
OnlyQueue(fr, bk, nx, op, al, s, fr2, bk2, nx2, op2, al2, q, u) ==
  /\ Links(fr2[q], bk2[q], nx2, u)
  /\ \A r \in Queues \ {q} : fr2[r] = fr[r] /\ bk2[r] = bk[r] /\ (r \in op => r \in op2)
  /\ q \notin op2 => u = <<>>
  /\ \A r \in Queues \ {q} : \A n \in Node : Contains(s[r], n) => nx2[n] = nx[n] /\ ~Contains(u, n)
  /\ \A n \in Node : n \in al2 <=> (n \in al /\ ~Contains(s[q], n)) \/ Contains(u, n)

(* Such a step keeps the shape. *)
LEMMA ShapeUpdate ==
  ASSUME NEW fr, NEW bk, NEW nx, NEW op, NEW al, NEW s, Shape(fr, bk, nx, op, al, s),
         NEW fr2, NEW bk2, NEW nx2, NEW op2, NEW al2, NEW q \in Queues, NEW u,
         OnlyQueue(fr, bk, nx, op, al, s, fr2, bk2, nx2, op2, al2, q, u)
  PROVE  Shape(fr2, bk2, nx2, op2, al2, [s EXCEPT ![q] = u])
<1>0. /\ Links(fr2[q], bk2[q], nx2, u) /\ u \in Seq(Node)
      /\ \A r \in Queues \ {q} : fr2[r] = fr[r] /\ bk2[r] = bk[r] /\ (r \in op => r \in op2)
      /\ q \notin op2 => u = <<>>
      /\ \A r \in Queues \ {q} : \A n \in Node : Contains(s[r], n) => nx2[n] = nx[n] /\ ~Contains(u, n)
      /\ \A n \in Node : n \in al2 <=> (n \in al /\ ~Contains(s[q], n)) \/ Contains(u, n)
  BY DEF OnlyQueue, Links
<1> DEFINE t == [s EXCEPT ![q] = u]
<1>1. /\ s \in [Queues -> Seq(Node)]
      /\ \A r \in Queues : Links(fr[r], bk[r], nx, s[r])
      /\ \A r \in Queues \ op : s[r] = <<>>
      /\ \A r, o \in Queues : r # o => \A n \in Node : ~(Contains(s[r], n) /\ Contains(s[o], n))
      /\ \A n \in Node : n \in al <=> \E r \in Queues : Contains(s[r], n)
  BY DEF Shape
<1>2. t \in [Queues -> Seq(Node)] /\ t[q] = u /\ \A r \in Queues \ {q} : t[r] = s[r]
  BY <1>0, <1>1
<1> HIDE DEF t
<1>3. \A r \in Queues : Links(fr2[r], bk2[r], nx2, t[r])
  <2> TAKE r \in Queues
  <2>1. CASE r = q
    BY <1>0, <1>2, <2>1
  <2>2. CASE r # q
    <3>1. Links(fr[r], bk2[r], nx2, s[r])
      BY <1>0, <1>1, <2>2, LinksKept
    <3> QED BY <1>0, <1>2, <2>2, <3>1
  <2> QED BY <2>1, <2>2
<1>4. \A r \in Queues \ op2 : t[r] = <<>>
  BY <1>0, <1>1, <1>2
<1>5. \A r, o \in Queues : r # o => \A n \in Node : ~(Contains(t[r], n) /\ Contains(t[o], n))
  BY <1>0, <1>1, <1>2
<1>6. \A n \in Node : n \in al2 <=> \E r \in Queues : Contains(t[r], n)
  BY <1>0, <1>1, <1>2
<1>7. Shape(fr2, bk2, nx2, op2, al2, t)
  BY <1>2, <1>3, <1>4, <1>5, <1>6 DEF Shape
<1> QED BY <1>7 DEF t

(* What the shape says of one queue. *)
LEMMA ShapeOf ==
  ASSUME NEW s, Shape(front, back, next, open, allocated, s), NEW q \in Queues
  PROVE  /\ Chain(q) = s[q] /\ s[q] \in Seq(Node) /\ IsInjective(s[q])
         /\ Links(front[q], back[q], next, s[q])
         /\ Empty(q) <=> s[q] = <<>>
         /\ \A n \in Node : Contains(s[q], n) => n \in allocated
         /\ s[q] # <<>> => /\ front[q] = s[q][1] /\ back[q] = s[q][Len(s[q])]
                           /\ front[q] \in Node /\ back[q] \in Node
                           /\ Contains(s[q], front[q]) /\ Contains(s[q], back[q])
<1>1. Links(front[q], back[q], next, s[q])
  BY DEF Shape
<1>2. Chain(q) = s[q]
  BY <1>1, ChainIs
<1>3. /\ s[q] \in Seq(Node) /\ IsInjective(s[q])
      /\ front[q] = IF s[q] = <<>> THEN NULL ELSE s[q][1]
      /\ s[q] # <<>> => back[q] = s[q][Len(s[q])]
  BY <1>1 DEF Links
<1>4. \A n \in Node : Contains(s[q], n) => n \in allocated
  BY DEF Shape
<1>5. ASSUME s[q] # <<>>
      PROVE  /\ front[q] \in Node /\ back[q] \in Node
             /\ Contains(s[q], front[q]) /\ Contains(s[q], back[q])
  <2>1. Len(s[q]) \in Nat /\ Len(s[q]) # 0
    BY <1>3, <1>5, LenProperties, EmptySeq
  <2>2. 1 \in 1..Len(s[q]) /\ Len(s[q]) \in 1..Len(s[q])
    BY <2>1
  <2>3. s[q][1] \in Node /\ s[q][Len(s[q])] \in Node
    BY <1>3, <2>2, ElementOfSeq
  <2>4. Contains(s[q], s[q][1]) /\ Contains(s[q], s[q][Len(s[q])])
    BY <2>2 DEF Contains
  <2> QED BY <1>3, <1>5, <2>3, <2>4
<1>6. Empty(q) <=> s[q] = <<>>
  BY <1>3, <1>5, QueueAssumption DEF Empty
<1> QED BY <1>1, <1>2, <1>3, <1>4, <1>5, <1>6

(* No sequence contains anything if it is empty. *)
LEMMA NoneInEmpty == \A x : ~Contains(<<>>, x)
  BY DEF Contains

(* Nothing is linked where the front is null, wherever back points. *)
LEMMA LinksNone ==
  ASSUME NEW bk, NEW nx
  PROVE  Links(NULL, bk, nx, <<>>)
  BY DEF Links, IsInjective

(* qopen: a new queue is empty. *)
LEMMA OpenShape ==
  ASSUME TypeOK, NEW s, Shape(front, back, next, open, allocated, s),
         NEW q \in Queues, qopen(q)
  PROVE  Shape(front, back, next, open, allocated, s)'
<1>1. s[q] = <<>> /\ s \in [Queues -> Seq(Node)]
  BY DEF Shape, qopen
<1>2. [s EXCEPT ![q] = <<>>] = s
  BY <1>1
<1>3. Links(front'[q], back'[q], next', <<>>)
  BY LinksNone DEF qopen, TypeOK
<1>5. \A r \in Queues \ {q} : front'[r] = front[r] /\ back'[r] = back[r] /\ (r \in open => r \in open')
  BY DEF qopen, TypeOK
<1>6. /\ q \in open' /\ next' = next /\ allocated' = allocated
  BY DEF qopen
<1>7. OnlyQueue(front, back, next, open, allocated, s, front', back', next', open', allocated', q, <<>>)
  BY <1>1, <1>3, <1>5, <1>6, NoneInEmpty DEF OnlyQueue
<1>8. Shape(front', back', next', open', allocated', [s EXCEPT ![q] = <<>>])
  BY <1>7, ShapeUpdate
<1> QED BY <1>2, <1>8

(* qclose: the queue is empty, its nodes are free. *)
LEMMA CloseShape ==
  ASSUME TypeOK, NEW s, Shape(front, back, next, open, allocated, s),
         NEW q \in open, qclose(q)
  PROVE  Shape(front', back', next', open', allocated', [s EXCEPT ![q] = <<>>])
<1> q \in Queues
  BY DEF TypeOK
<1>1. Chain(q) = s[q] /\ s[q] \in Seq(Node)
  BY ShapeOf
<1>2. \A n : n \in ToSet(Chain(q)) <=> Contains(s[q], n)
  BY <1>1 DEF ToSet, Contains
<1> DEFINE nodes == ToSet(Chain(q))
<1>3. /\ open' = open \ {q} /\ allocated' = allocated \ nodes
      /\ front' = [front EXCEPT ![q] = NULL] /\ back' = [back EXCEPT ![q] = NULL]
      /\ next' = [n \in Node |-> IF n \in nodes THEN NULL ELSE next[n]]
  BY DEF qclose, free
<1> HIDE DEF nodes
<1>4. Links(front'[q], back'[q], next', <<>>)
  BY <1>3, LinksNone DEF TypeOK
<1>6. \A r \in Queues \ {q} : front'[r] = front[r] /\ back'[r] = back[r] /\ (r \in open => r \in open')
  BY <1>3 DEF TypeOK
<1>7. \A r \in Queues \ {q} : \A n \in Node : Contains(s[r], n) => ~Contains(s[q], n)
  BY DEF Shape
<1>8. \A r \in Queues \ {q} : \A n \in Node : Contains(s[r], n) => next'[n] = next[n] /\ ~Contains(<<>>, n)
  BY <1>2, <1>3, <1>7, NoneInEmpty DEF nodes
<1>9. \A n \in Node : n \in allocated' <=> (n \in allocated /\ ~Contains(s[q], n)) \/ Contains(<<>>, n)
  BY <1>2, <1>3, NoneInEmpty DEF nodes
<1>10. OnlyQueue(front, back, next, open, allocated, s, front', back', next', open', allocated', q, <<>>)
  BY <1>4, <1>6, <1>8, <1>9 DEF OnlyQueue
<1> QED BY <1>10, ShapeUpdate

(* The step of qput that puts e into the queue q, in the node n. *)
PutInto(q, e, s, n) ==
  /\ Shape(front', back', next', open', allocated', [s EXCEPT ![q] = Append(s[q], n)])
  /\ data' = [data EXCEPT ![n] = e] /\ result' = "0"
  /\ UNCHANGED <<open, fault>>

(* qput: either malloc fails and the write is through a null pointer, or a *)
(* free node is the last one of the queue.                                 *)
LEMMA PutShape ==
  ASSUME TypeOK, fault = "none", NEW s, Shape(front, back, next, open, allocated, s),
         NEW q \in open, NEW e, qput(q, e)
  PROVE  \/ fault' = "null" /\ UNCHANGED <<open, front, back, data, next, allocated, result>>
         \/ \E n \in Node \ allocated : PutInto(q, e, s, n)
<1> q \in Queues
  BY DEF TypeOK
<1>1. CASE Node \subseteq allocated /\ Access(NULL) /\ UNCHANGED <<open, front, back, data, next, allocated, result>>
  BY <1>1 DEF Access
<1>2. ASSUME NEW n \in Node \ allocated,
             allocated' = allocated \cup {n}, data' = [data EXCEPT ![n] = e],
             back' = [back EXCEPT ![q] = n],
             IF Empty(q)
             THEN /\ front' = [front EXCEPT ![q] = n]
                  /\ next' = [next EXCEPT ![n] = NULL]
                  /\ UNCHANGED fault
             ELSE /\ next' = [next EXCEPT ![back[q]] = n, ![n] = NULL]
                  /\ Access(back[q])
                  /\ UNCHANGED front,
             Return("0"), UNCHANGED open
      PROVE  /\ Shape(front', back', next', open', allocated', [s EXCEPT ![q] = Append(s[q], n)])
             /\ UNCHANGED fault
  <2>1. /\ s[q] \in Seq(Node) /\ IsInjective(s[q])
        /\ Links(front[q], back[q], next, s[q])
        /\ Empty(q) <=> s[q] = <<>>
        /\ \A m \in Node : Contains(s[q], m) => m \in allocated
        /\ s[q] # <<>> => back[q] \in Node /\ Contains(s[q], back[q])
    BY ShapeOf
  <2>2. ~Contains(s[q], n)
    BY <2>1
  <2>3. next \in [Node -> Pointer] /\ front \in [Queues -> Pointer] /\ back \in [Queues -> Pointer]
    BY DEF TypeOK
  <2>4. /\ next'[n] = NULL
        /\ s[q] # <<>> => next'[back[q]] = n
        /\ \A m \in Node : m # n /\ (s[q] # <<>> => m # back[q]) => next'[m] = next[m]
        /\ \A m \in Node : Contains(s[q], m) /\ m # back[q] => next'[m] = next[m]
    <3>1. CASE s[q] = <<>>
      <4>1. next' = [next EXCEPT ![n] = NULL]
        BY <1>2, <2>1, <3>1
      <4> QED BY <2>2, <2>3, <3>1, <4>1
    <3>2. CASE s[q] # <<>>
      <4>1. next' = [next EXCEPT ![back[q]] = n, ![n] = NULL]
        BY <1>2, <2>1, <3>2
      <4>2. back[q] # n /\ back[q] \in Node
        BY <2>1, <2>2, <3>2
      <4> QED BY <2>2, <2>3, <3>2, <4>1, <4>2
    <3> QED BY <3>1, <3>2
  <2>5. front'[q] = (IF s[q] = <<>> THEN n ELSE front[q]) /\ back'[q] = n
    BY <1>2, <2>1, <2>3
  <2>6. Links(front'[q], back'[q], next', Append(s[q], n))
    BY <2>1, <2>2, <2>4, <2>5, LinksPut
  <2>7. \A r \in Queues \ {q} : front'[r] = front[r] /\ back'[r] = back[r] /\ (r \in open => r \in open')
    BY <1>2, <2>3
  <2>8. \A m : Contains(Append(s[q], n), m) <=> Contains(s[q], m) \/ m = n
    BY <2>1, QputLemma
  <2>9. ASSUME NEW r \in Queues \ {q}, NEW m \in Node, Contains(s[r], m)
        PROVE  next'[m] = next[m] /\ ~Contains(Append(s[q], n), m)
    <3>1. m \in allocated /\ ~Contains(s[q], m)
      BY <2>9 DEF Shape
    <3> QED BY <1>2, <2>1, <2>4, <2>8, <3>1
  <2>10. \A m \in Node : m \in allocated' <=> (m \in allocated /\ ~Contains(s[q], m)) \/ Contains(Append(s[q], n), m)
    BY <1>2, <2>1, <2>8
  <2>11. q \in open'
    BY <1>2
  <2>12. OnlyQueue(front, back, next, open, allocated, s, front', back', next', open', allocated', q, Append(s[q], n))
    BY <2>6, <2>7, <2>9, <2>10, <2>11 DEF OnlyQueue
  <2>13. UNCHANGED fault
    BY <1>2, <2>1, QueueAssumption DEF Access
  <2> QED BY <2>12, <2>13, ShapeUpdate
<1> QED BY <1>1, <1>2 DEF qput, Return, PutInto

(* qget: nothing, or the first node leaves the queue. *)
LEMMA GetShape ==
  ASSUME TypeOK, NEW s, Shape(front, back, next, open, allocated, s),
         NEW q \in open, qget(q), s[q] # <<>>
  PROVE  /\ Shape(front', back', next', open', allocated', [s EXCEPT ![q] = RemoveAt(s[q], 1)])
         /\ data' = [n \in Node |-> IF n = s[q][1] THEN NULL ELSE data[n]]
         /\ result' = data[s[q][1]]
         /\ UNCHANGED <<open, fault>>
<1> q \in Queues
  BY DEF TypeOK
<1> DEFINE u == RemoveAt(s[q], 1)
<1>1. /\ s[q] \in Seq(Node) /\ IsInjective(s[q]) /\ ~Empty(q)
      /\ Links(front[q], back[q], next, s[q])
      /\ \A n \in Node : Contains(s[q], n) => n \in allocated
      /\ front[q] = s[q][1] /\ front[q] \in Node /\ Contains(s[q], front[q])
  BY ShapeOf
<1>2. /\ result' = data[front[q]]
      /\ front' = [front EXCEPT ![q] = next[front[q]]]
      /\ allocated' = allocated \ {front[q]}
      /\ data' = [n \in Node |-> IF n \in {front[q]} THEN NULL ELSE data[n]]
      /\ next' = [next EXCEPT ![front[q]] = NULL]
      /\ UNCHANGED <<open, back, fault>>
  BY <1>1 DEF qget, free, Return
<1>3. Len(s[q]) \in Nat /\ 1 \in 1..Len(s[q]) /\ \A i \in 1..Len(s[q]) : s[q][i] \in Node
  BY <1>1, LenProperties, EmptySeq, ElementOfSeq
<1>4. \A i \in 1..Len(s[q]) : i # 1 => s[q][i] # s[q][1]
  BY <1>1, <1>3, LenProperties DEF IsInjective
<1>5. /\ \A i \in 1..Len(s[q]) : i # 1 => next'[s[q][i]] = next[s[q][i]]
      /\ \A n \in Node : n # s[q][1] => next'[n] = next[n]
      /\ front'[q] = next[s[q][1]]
  BY <1>1, <1>2, <1>3, <1>4 DEF TypeOK
<1>6. Links(front'[q], back'[q], next', u)
  <2>1. Len(s[q]) # 1 => back'[q] = IF 1 = Len(s[q]) THEN s[q][1 - 1] ELSE back[q]
    BY <1>2
  <2>2. Unlinked(front[q], back[q], next, s[q], 1, front'[q], back'[q], next')
    BY <1>3, <1>5, <2>1 DEF Unlinked
  <2> QED BY <1>1, <1>3, <2>2, LinksRemove
<1>7. /\ \A n : Contains(u, n) => Contains(s[q], n)
      /\ \A n : n # s[q][1] /\ Contains(s[q], n) => Contains(u, n)
      /\ ~Contains(u, s[q][1])
  BY <1>1, <1>3, RemoveAtContains
<1> HIDE DEF u
<1>8. \A r \in Queues \ {q} : front'[r] = front[r] /\ back'[r] = back[r] /\ (r \in open => r \in open')
  BY <1>2 DEF TypeOK
<1>9. ASSUME NEW r \in Queues \ {q}, NEW n \in Node, Contains(s[r], n)
      PROVE  next'[n] = next[n] /\ ~Contains(u, n)
  <2>1. ~Contains(s[q], n)
    BY <1>9 DEF Shape
  <2> QED BY <1>1, <1>5, <1>7, <2>1
<1>10. \A n \in Node : n \in allocated' <=> (n \in allocated /\ ~Contains(s[q], n)) \/ Contains(u, n)
  BY <1>1, <1>2, <1>7
<1>11. OnlyQueue(front, back, next, open, allocated, s, front', back', next', open', allocated', q, u)
  BY <1>2, <1>6, <1>8, <1>9, <1>10 DEF OnlyQueue
<1>12. Shape(front', back', next', open', allocated', [s EXCEPT ![q] = u])
  BY <1>11, ShapeUpdate
<1> QED BY <1>1, <1>2, <1>12 DEF u

(* The search of the queue finds its first element that matches. *)
LEMMA FirstMatchIs ==
  ASSUME NEW q, NEW key, NEW c \in Seq(Node), Chain(q) = c
  PROVE  \/ FirstMatch(q, key) = 0 /\ \A i \in 1..Len(c) : data[c[i]] # key
         \/ /\ FirstMatch(q, key) \in 1..Len(c) /\ data[c[FirstMatch(q, key)]] = key
            /\ \A i \in 1..Len(c) : data[c[i]] = key => FirstMatch(q, key) =< i
<1> DEFINE I == {i \in 1..Len(c) : data[c[i]] = key}
           first == CHOOSE x \in I : \A y \in I : x =< y
<1>1. FirstMatch(q, key) = IF I # {} THEN first ELSE 0
  BY DEF FirstMatch, SelectInSeq, search_pcb, Min
<1>2. I \subseteq Nat
  BY LenProperties
<1>3. ASSUME I # {}
      PROVE  first \in I /\ \A y \in I : first =< y
  <2> HIDE DEF I
  <2>1. \E x \in I : \A y \in I : x =< y
    BY <1>2, <1>3, LeastNatural
  <2> QED BY <2>1
<1> HIDE DEF first
<1>4. CASE I = {}
  BY <1>1, <1>4
<1>5. CASE I # {}
  BY <1>1, <1>3, <1>5
<1> QED BY <1>4, <1>5

(* qremove: nothing, or the first node that matches leaves the queue. *)
LEMMA RemoveShape ==
  ASSUME TypeOK, NEW s, Shape(front, back, next, open, allocated, s),
         NEW q \in open, NEW key, qremove(q, key), NEW k, k = FirstMatch(q, key), k # 0
  PROVE  /\ k \in 1..Len(s[q])
         /\ Shape(front', back', next', open', allocated', [s EXCEPT ![q] = RemoveAt(s[q], k)])
         /\ data' = [n \in Node |-> IF n = s[q][k] THEN NULL ELSE data[n]]
         /\ result' = data[s[q][k]]
         /\ UNCHANGED <<open, fault>>
<1> q \in Queues
  BY DEF TypeOK
<1> DEFINE c == s[q]
           u == RemoveAt(c, k)
<1>1. /\ Chain(q) = c /\ c \in Seq(Node) /\ IsInjective(c)
      /\ Links(front[q], back[q], next, c)
      /\ \A n \in Node : Contains(c, n) => n \in allocated
  BY ShapeOf
<1>2. k \in 1..Len(c)
  BY <1>1, FirstMatchIs
<1>3. /\ result' = data[c[k]]
      /\ Unlink(q, k)
      /\ allocated' = allocated \ {c[k]}
      /\ data' = [n \in Node |-> IF n \in {c[k]} THEN NULL ELSE data[n]]
      /\ UNCHANGED <<open, fault>>
  BY <1>1 DEF qremove, free, Return
<1>4. /\ Len(c) \in Nat /\ c # <<>> /\ DOMAIN c = 1..Len(c)
      /\ \A i \in 1..Len(c) : c[i] \in Node /\ Contains(c, c[i])
      /\ \A i, j \in 1..Len(c) : c[i] = c[j] => i = j
      /\ front[q] = c[1] /\ back[q] = c[Len(c)]
      /\ \A i \in 1..Len(c) : next[c[i]] = IF i = Len(c) THEN NULL ELSE c[i + 1]
  <2>1. /\ Len(c) \in Nat /\ c # <<>> /\ DOMAIN c = 1..Len(c)
        /\ \A i \in 1..Len(c) : c[i] \in Node
    BY <1>1, <1>2, LenProperties, ElementOfSeq, EmptySeq
  <2> QED BY <1>1, <2>1 DEF Links, IsInjective, Contains
<1>40. Len(c) \in Nat
  BY <1>4
<1>41. c[k] \in Node /\ Contains(c, c[k]) /\ Len(c) \in 1..Len(c) /\ 1 \in 1..Len(c)
  BY <1>2, <1>4
<1>42. /\ c[k] = back[q] <=> k = Len(c)
       /\ k # Len(c) => next[c[k]] = c[k + 1]
       /\ front[q] = back[q] <=> Len(c) = 1
  <2> HIDE DEF c
  <2>1. c[k] = c[Len(c)] <=> k = Len(c)
    BY <1>2, <1>4, <1>41
  <2>2. c[1] = c[Len(c)] <=> Len(c) = 1
    BY <1>4, <1>41
  <2>3. k # Len(c) => next[c[k]] = c[k + 1]
    BY <1>2, <1>4
  <2> QED BY <1>4, <2>1, <2>2, <2>3
<1>5. next \in [Node -> Pointer] /\ front \in [Queues -> Pointer] /\ back \in [Queues -> Pointer]
  BY DEF TypeOK
<1>6. /\ \A r \in Queues \ {q} : front'[r] = front[r] /\ back'[r] = back[r]
      /\ Unlinked(front[q], back[q], next, c, k, front'[q], back'[q], next')
      /\ \A n \in Node : n # c[k] /\ (k # 1 => n # c[k - 1]) => next'[n] = next[n]
  <2> HIDE DEF c, u
  <2>1. CASE k = 1
    <3>1. /\ front' = [front EXCEPT ![q] = IF @ = back[q] THEN NULL ELSE next[c[k]]]
          /\ back' = IF front[q] = back[q] THEN [back EXCEPT ![q] = NULL] ELSE back
          /\ next' = [next EXCEPT ![c[k]] = NULL]
      BY <1>1, <1>3, <2>1 DEF Unlink
    <3>2. front[q] = back[q] <=> Len(c) = 1
      BY <1>42
    <3>3. front'[q] = next[c[1]]
      <4>1. Len(c) = 1 => next[c[1]] = NULL
        BY <1>4, <1>41
      <4>2. front'[q] = IF Len(c) = 1 THEN NULL ELSE next[c[k]]
        BY <1>5, <3>1, <3>2
      <4> QED BY <2>1, <4>1, <4>2
    <3>4. Len(c) # 1 => back'[q] = IF k = Len(c) THEN c[k - 1] ELSE back[q]
      BY <1>5, <2>1, <3>1, <3>2
    <3>5. \A n \in Node : n # c[k] => next'[n] = next[n]
      BY <1>5, <3>1
    <3>6. \A i \in 1..Len(c) : i # k => next'[c[i]] = next[c[i]]
      BY <1>2, <1>4, <3>5
    <3>7. Unlinked(front[q], back[q], next, c, k, front'[q], back'[q], next')
      BY <2>1, <3>3, <3>4, <3>6 DEF Unlinked
    <3>8. \A r \in Queues \ {q} : front'[r] = front[r] /\ back'[r] = back[r]
      BY <1>5, <3>1
    <3> QED BY <3>5, <3>7, <3>8
  <2>2. CASE k # 1
    <3>1. /\ next' = [next EXCEPT ![c[k - 1]] = IF c[k] = back[q] THEN NULL ELSE next[c[k]],
                                  ![c[k]] = NULL]
          /\ back' = IF c[k] = back[q] THEN [back EXCEPT ![q] = c[k - 1]] ELSE back
          /\ front' = front
      BY <1>1, <1>3, <2>2 DEF Unlink
    <3>2. /\ k - 1 \in 1..Len(c) /\ Len(c) # 1 /\ c[k - 1] # c[k]
          /\ c[k - 1] \in Node /\ c[k] \in Node
      <4>1. k - 1 \in 1..Len(c) /\ Len(c) # 1 /\ k - 1 # k
        <5>1. \A m \in Nat : \A j \in 1..m : j # 1 => j - 1 \in 1..m /\ m # 1 /\ j - 1 # j
          OBVIOUS
        <5> QED BY <1>2, <1>40, <2>2, <5>1
      <4> QED BY <1>2, <1>4, <1>41, <4>1
    <3>3. (c[k] = back[q] <=> k = Len(c)) /\ (k # Len(c) => next[c[k]] = c[k + 1])
      BY <1>42
    <3>4. next'[c[k - 1]] = IF k = Len(c) THEN NULL ELSE c[k + 1]
      BY <1>5, <3>1, <3>2, <3>3
    <3>5. \A n \in Node : n # c[k] /\ n # c[k - 1] => next'[n] = next[n]
      BY <1>5, <3>1
    <3>6. \A i \in 1..Len(c) : i # k /\ i # k - 1 => next'[c[i]] = next[c[i]]
      BY <1>2, <1>4, <3>2, <3>5
    <3>7. back'[q] = IF k = Len(c) THEN c[k - 1] ELSE back[q]
      BY <1>5, <3>1, <3>3
    <3>8. Unlinked(front[q], back[q], next, c, k, front'[q], back'[q], next')
      BY <2>2, <3>1, <3>4, <3>6, <3>7 DEF Unlinked
    <3>9. \A r \in Queues \ {q} : front'[r] = front[r] /\ back'[r] = back[r]
      BY <1>5, <3>1
    <3> QED BY <2>2, <3>5, <3>8, <3>9
  <2> QED BY <2>1, <2>2
<1>7. Links(front'[q], back'[q], next', u)
  BY <1>1, <1>2, <1>6, LinksRemove
<1>8. /\ \A n : Contains(u, n) => Contains(c, n)
      /\ \A n : n # c[k] /\ Contains(c, n) => Contains(u, n)
      /\ ~Contains(u, c[k])
  BY <1>1, <1>2, RemoveAtContains
<1> HIDE DEF u
<1>9. k # 1 => k - 1 \in 1..Len(c)
  BY <1>2, <1>4
<1>10. ASSUME NEW r \in Queues \ {q}, NEW n \in Node, Contains(s[r], n)
       PROVE  next'[n] = next[n] /\ ~Contains(u, n)
  <2>1. ~Contains(c, n)
    BY <1>10 DEF Shape
  <2>2. n # c[k] /\ (k # 1 => n # c[k - 1])
    BY <1>2, <1>4, <1>9, <2>1
  <2> QED BY <1>6, <1>8, <2>1, <2>2
<1>11. \A n \in Node : n \in allocated' <=> (n \in allocated /\ ~Contains(c, n)) \/ Contains(u, n)
  BY <1>1, <1>3, <1>8, <1>41
<1>12. OnlyQueue(front, back, next, open, allocated, s, front', back', next', open', allocated', q, u)
  BY <1>3, <1>6, <1>7, <1>10, <1>11 DEF OnlyQueue
<1>13. Shape(front', back', next', open', allocated', [s EXCEPT ![q] = u])
  BY <1>12, ShapeUpdate
<1> QED BY <1>2, <1>3, <1>13 DEF u

(* The sequence copy is linked behind the nodes of s. *)
Joined(fr, bk, nx, s, copy, fr2, bk2, nx2) ==
  /\ copy \in Seq(Node) /\ Len(copy) # 0
  /\ \A i, j \in 1..Len(copy) : copy[i] = copy[j] => i = j
  /\ \A i \in 1..Len(copy) : ~Contains(s, copy[i])
  /\ fr2 = IF s = <<>> THEN copy[1] ELSE fr
  /\ bk2 = copy[Len(copy)]
  /\ \A i \in 1..Len(copy) : nx2[copy[i]] = IF i = Len(copy) THEN NULL ELSE copy[i + 1]
  /\ s # <<>> => nx2[bk] = copy[1]
  /\ \A n \in Node : Contains(s, n) /\ n # bk => nx2[n] = nx[n]

(* qconcat: all of the second queue follows the first. *)
LEMMA LinksConcat ==
  ASSUME NEW fr, NEW bk, NEW nx, NEW s, Links(fr, bk, nx, s), NEW copy,
         NEW fr2, NEW bk2, NEW nx2, Joined(fr, bk, nx, s, copy, fr2, bk2, nx2)
  PROVE  Links(fr2, bk2, nx2, s \o copy)
<1>1. /\ s \in Seq(Node) /\ \A i, j \in 1..Len(s) : s[i] = s[j] => i = j
      /\ fr = IF Len(s) = 0 THEN NULL ELSE s[1]
      /\ \A i \in 1..Len(s) : nx[s[i]] = IF i = Len(s) THEN NULL ELSE s[i + 1]
      /\ Len(s) # 0 => bk = s[Len(s)]
  BY LinksByIndex
<1>2. /\ copy \in Seq(Node) /\ Len(copy) # 0
      /\ \A i, j \in 1..Len(copy) : copy[i] = copy[j] => i = j
      /\ \A i \in 1..Len(copy) : ~Contains(s, copy[i])
      /\ fr2 = IF s = <<>> THEN copy[1] ELSE fr
      /\ bk2 = copy[Len(copy)]
      /\ \A i \in 1..Len(copy) : nx2[copy[i]] = IF i = Len(copy) THEN NULL ELSE copy[i + 1]
      /\ s # <<>> => nx2[bk] = copy[1]
      /\ \A n \in Node : Contains(s, n) /\ n # bk => nx2[n] = nx[n]
  BY DEF Joined
<1>3. /\ Len(s) \in Nat /\ (s = <<>> <=> Len(s) = 0) /\ Len(copy) \in Nat
      /\ \A i \in 1..Len(s) : s[i] \in Node /\ Contains(s, s[i])
  BY <1>1, <1>2, ElementOfSeq, LenProperties, EmptySeq DEF Contains
<1> DEFINE t == s \o copy
<1>4. /\ t \in Seq(Node) /\ Len(t) = Len(s) + Len(copy)
      /\ \A i \in 1..(Len(s) + Len(copy)) : t[i] = IF i <= Len(s) THEN s[i] ELSE copy[i - Len(s)]
  BY <1>1, <1>2, ConcatProperties
<1> HIDE DEF t
<1>5. \A i \in 1..Len(t) : ~(i <= Len(s)) => i - Len(s) \in 1..Len(copy)
  BY <1>3, <1>4
<1>6. \A i, j \in 1..Len(t) : t[i] = t[j] => i = j
  <2> TAKE i, j \in 1..Len(t)
  <2>1. CASE i <= Len(s) /\ j <= Len(s)
    BY <1>1, <1>3, <1>4, <2>1
  <2>2. CASE ~(i <= Len(s)) /\ ~(j <= Len(s))
    <3>1. /\ i - Len(s) \in 1..Len(copy) /\ j - Len(s) \in 1..Len(copy)
          /\ t[i] = copy[i - Len(s)] /\ t[j] = copy[j - Len(s)]
      BY <1>3, <1>4, <1>5, <2>2
    <3>2. t[i] = t[j] => i - Len(s) = j - Len(s)
      BY <1>2, <3>1
    <3> QED BY <1>3, <1>4, <3>2
  <2>3. CASE i <= Len(s) /\ ~(j <= Len(s))
    <3>1. /\ i \in 1..Len(s) /\ j - Len(s) \in 1..Len(copy)
          /\ t[i] = s[i] /\ t[j] = copy[j - Len(s)]
      BY <1>3, <1>4, <1>5, <2>3
    <3> QED BY <1>2, <1>3, <3>1
  <2>4. CASE ~(i <= Len(s)) /\ j <= Len(s)
    <3>1. /\ j \in 1..Len(s) /\ i - Len(s) \in 1..Len(copy)
          /\ t[j] = s[j] /\ t[i] = copy[i - Len(s)]
      BY <1>3, <1>4, <1>5, <2>4
    <3> QED BY <1>2, <1>3, <3>1
  <2> QED BY <2>1, <2>2, <2>3, <2>4
<1>7. \A i \in 1..Len(t) : nx2[t[i]] = IF i = Len(t) THEN NULL ELSE t[i + 1]
  <2> TAKE i \in 1..Len(t)
  <2>1. CASE i < Len(s)
    <3>1. /\ i \in 1..Len(s) /\ i + 1 \in 1..Len(s) /\ Len(s) \in 1..Len(s) /\ i # Len(s)
          /\ i # Len(t) /\ t[i] = s[i] /\ t[i + 1] = s[i + 1]
      BY <1>3, <1>4, <2>1
    <3>2. s[i] # bk
      <4>1. s[i] # s[Len(s)]
        BY <1>1, <3>1
      <4> QED BY <1>1, <1>3, <3>1, <4>1
    <3>3. nx2[s[i]] = nx[s[i]]
      BY <1>2, <1>3, <3>1, <3>2
    <3>4. nx[s[i]] = s[i + 1]
      BY <1>1, <3>1
    <3> QED BY <3>1, <3>3, <3>4
  <2>2. CASE i = Len(s)
    <3>1. /\ Len(s) # 0 /\ i # Len(t) /\ t[i] = s[Len(s)]
          /\ i + 1 \in 1..(Len(s) + Len(copy)) /\ ~(i + 1 <= Len(s)) /\ (i + 1) - Len(s) = 1
      BY <1>2, <1>3, <1>4, <2>2
    <3>2. t[i + 1] = copy[1]
      BY <1>4, <3>1
    <3> QED BY <1>1, <1>2, <1>3, <3>1, <3>2
  <2>3. CASE i > Len(s)
    <3>1. /\ i - Len(s) \in 1..Len(copy) /\ t[i] = copy[i - Len(s)]
          /\ i = Len(t) <=> i - Len(s) = Len(copy)
      BY <1>3, <1>4, <1>5, <2>3
    <3>2. i # Len(t) => t[i + 1] = copy[(i - Len(s)) + 1]
      <4>1. i # Len(t) => i + 1 \in 1..(Len(s) + Len(copy)) /\ ~(i + 1 <= Len(s)) /\ (i + 1) - Len(s) = (i - Len(s)) + 1
        BY <1>3, <1>4, <2>3
      <4>2. i # Len(t) => t[i + 1] = copy[(i + 1) - Len(s)]
        BY <1>4, <4>1
      <4> QED BY <4>1, <4>2
    <3> QED BY <1>2, <3>1, <3>2
  <2> QED BY <1>3, <1>4, <2>1, <2>2, <2>3
<1>8. fr2 = IF Len(t) = 0 THEN NULL ELSE t[1]
  <2>1. Len(t) # 0 /\ 1 \in 1..(Len(s) + Len(copy))
    BY <1>2, <1>3, <1>4
  <2>2. CASE Len(s) = 0
    BY <1>2, <1>3, <1>4, <2>1, <2>2
  <2>3. CASE Len(s) # 0
    BY <1>1, <1>2, <1>3, <1>4, <2>1, <2>3
  <2> QED BY <2>2, <2>3
<1>9. bk2 = t[Len(t)]
  <2>1. Len(t) \in 1..(Len(s) + Len(copy)) /\ ~(Len(t) <= Len(s)) /\ Len(t) - Len(s) = Len(copy)
    BY <1>2, <1>3, <1>4
  <2> QED BY <1>2, <1>4, <2>1
<1>10. Links(fr2, bk2, nx2, t)
  BY <1>4, <1>6, <1>7, <1>8, <1>9, LinksByIndex
<1> QED BY <1>10 DEF t

(* What a concatenation contains. *)
LEMMA ContainsConcat ==
  ASSUME NEW s \in Seq(Node), NEW c \in Seq(Node), NEW x
  PROVE  Contains(s \o c, x) <=> Contains(s, x) \/ Contains(c, x)
<1>1. /\ Len(s) \in Nat /\ Len(c) \in Nat /\ DOMAIN s = 1..Len(s) /\ DOMAIN c = 1..Len(c)
      /\ Len(s \o c) = Len(s) + Len(c)
      /\ DOMAIN (s \o c) = 1..(Len(s) + Len(c))
      /\ \A i \in 1..(Len(s) + Len(c)) : (s \o c)[i] = IF i <= Len(s) THEN s[i] ELSE c[i - Len(s)]
  BY ConcatProperties, LenProperties
<1> DEFINE t == s \o c
<1> HIDE DEF t
<1>2. ASSUME NEW i \in 1..Len(s), s[i] = x
      PROVE  Contains(s \o c, x)
  <2>1. i \in 1..(Len(s) + Len(c)) /\ i <= Len(s)
    BY <1>1
  <2>2. (s \o c)[i] = x
    BY <1>1, <1>2, <2>1
  <2> QED BY <1>1, <2>1, <2>2 DEF Contains
<1>3. ASSUME NEW i \in 1..Len(c), c[i] = x
      PROVE  Contains(s \o c, x)
  <2>1. /\ Len(s) + i \in 1..(Len(s) + Len(c)) /\ ~(Len(s) + i <= Len(s))
        /\ (Len(s) + i) - Len(s) = i
    BY <1>1
  <2>2. (s \o c)[Len(s) + i] = x
    BY <1>1, <1>3, <2>1
  <2> QED BY <1>1, <2>1, <2>2 DEF Contains
<1>4. ASSUME NEW i \in 1..(Len(s) + Len(c)), (s \o c)[i] = x
      PROVE  Contains(s, x) \/ Contains(c, x)
  <2>1. CASE i <= Len(s)
    <3>1. i \in 1..Len(s) /\ s[i] = x
      BY <1>1, <1>4, <2>1
    <3> QED BY <1>1, <3>1 DEF Contains
  <2>2. CASE ~(i <= Len(s))
    <3>1. i - Len(s) \in 1..Len(c) /\ c[i - Len(s)] = x
      BY <1>1, <1>4, <2>2
    <3> QED BY <1>1, <3>1 DEF Contains
  <2> QED BY <2>1, <2>2
<1> QED BY <1>1, <1>2, <1>3, <1>4 DEF Contains

(* Without duplicates every element has one position. *)
LEMMA PositionIs ==
  ASSUME NEW c \in Seq(Node), \A i, j \in 1..Len(c) : c[i] = c[j] => i = j, NEW i \in 1..Len(c)
  PROVE  SelectInSeq(c, LAMBDA m : m = c[i]) = i
<1>1. {j \in 1..Len(c) : c[j] = c[i]} = {i}
  OBVIOUS
<1>2. i \in Nat
  BY LenProperties
<1> QED BY <1>1, <1>2 DEF SelectInSeq, Min

(* qconcat where the second queue is not empty and malloc does not fail:   *)
(* its elements follow those of the first, in nodes that were free.        *)
LEMMA CopyShape ==
  ASSUME TypeOK, fault = "none", NEW s, Shape(front, back, next, open, allocated, s),
         NEW q1 \in open, NEW q2 \in open \ {q1}, s[q2] # <<>>,
         NEW copy \in [1..Len(s[q2]) -> Node \ allocated], IsInjective(copy),
         open' = open \ {q2},
         front' = [front EXCEPT ![q1] = IF s[q1] = <<>> THEN copy[1] ELSE @, ![q2] = NULL],
         back' = [back EXCEPT ![q1] = Last(copy), ![q2] = NULL],
         allocated' = (allocated \cup ToSet(copy)) \ ToSet(s[q2]),
         next' = [n \in Node |->
                     IF Contains(copy, n) /\ n # Last(copy)
                       THEN copy[SelectInSeq(copy, LAMBDA m : m = n) + 1]
                     ELSE IF Contains(copy, n) \/ Contains(s[q2], n) THEN NULL
                     ELSE IF s[q1] # <<>> /\ n = back[q1] THEN copy[1]
                     ELSE next[n]],
         data' = [n \in Node |->
                     IF Contains(copy, n) THEN Moved(s[q2], copy)[SelectInSeq(copy, LAMBDA m : m = n)]
                     ELSE IF Contains(s[q2], n) THEN NULL ELSE data[n]]
  PROVE  /\ Shape(front', back', next', open', allocated',
                  [s EXCEPT ![q1] = s[q1] \o copy, ![q2] = <<>>])
         /\ copy \in Seq(Node) /\ Len(copy) = Len(s[q2]) /\ copy[1] \in Node /\ Last(copy) \in Node
         /\ next' \in [Node -> Pointer] /\ data' \in [Node -> Elements \cup {NULL}]
         /\ allocated' \subseteq Node
         /\ \A i \in 1..Len(copy) : data'[copy[i]] = data[s[q2][i]]
         /\ \A n \in allocated : ~Contains(s[q2], n) => data'[n] = data[n]
<1> q1 \in Queues /\ q2 \in Queues /\ q1 # q2
  BY DEF TypeOK
<1> DEFINE c1 == s[q1]
           c2 == s[q2]
<1>1. /\ c1 \in Seq(Node) /\ Links(front[q1], back[q1], next, c1)
      /\ \A n \in Node : Contains(c1, n) => n \in allocated
      /\ c1 # <<>> => back[q1] \in Node /\ Contains(c1, back[q1])
  BY ShapeOf
<1>2. c2 \in Seq(Node) /\ \A n \in Node : Contains(c2, n) => n \in allocated
  BY ShapeOf
<1>3. s \in [Queues -> Seq(Node)]
  BY DEF Shape
<1>4. /\ copy \in Seq(Node) /\ Len(copy) = Len(c2) /\ Len(copy) \in Nat /\ Len(copy) # 0
      /\ DOMAIN copy = 1..Len(copy)
      /\ \A i \in 1..Len(copy) : copy[i] \in Node \ allocated /\ Contains(copy, copy[i])
      /\ \A i, j \in 1..Len(copy) : copy[i] = copy[j] => i = j
      /\ 1 \in 1..Len(copy) /\ Len(copy) \in 1..Len(copy)
  <2>1. Len(c2) \in Nat /\ Len(c2) # 0
    BY <1>2, LenProperties, EmptySeq
  <2>2. copy \in Seq(Node) /\ Len(copy) = Len(c2) /\ DOMAIN copy = 1..Len(copy)
    BY <2>1
  <2>3. \A i, j \in 1..Len(copy) : copy[i] = copy[j] => i = j
    BY <2>2 DEF IsInjective
  <2> QED BY <2>1, <2>2, <2>3 DEF Contains
<1>5. \A n \in Node : /\ Contains(copy, n) => n \notin allocated
                      /\ ~(Contains(c1, n) /\ Contains(c2, n))
  <2>1. \A n : Contains(copy, n) => n \notin allocated
    BY <1>4 DEF Contains
  <2>2. \A n \in Node : ~(Contains(c1, n) /\ Contains(c2, n))
    BY DEF Shape
  <2> QED BY <2>1, <2>2
<1>6. front'[q1] = (IF c1 = <<>> THEN copy[1] ELSE front[q1]) /\ back'[q1] = copy[Len(copy)]
  BY DEF TypeOK, Last
<1>7. /\ front'[q2] = NULL
      /\ \A r \in Queues \ {q1, q2} : front'[r] = front[r] /\ back'[r] = back[r]
  BY DEF TypeOK
<1>8. \A n \in Node : n \in allocated' <=> (n \in allocated \/ Contains(copy, n)) /\ ~Contains(c2, n)
  <2>1. \A n : n \in ToSet(copy) <=> Contains(copy, n)
    BY <1>4 DEF ToSet, Contains
  <2>2. \A n : n \in ToSet(c2) <=> Contains(c2, n)
    BY <1>2, LenProperties DEF ToSet, Contains
  <2> QED BY <2>1, <2>2
<1>9. \A i \in 1..Len(copy) : next'[copy[i]] = IF i = Len(copy) THEN NULL ELSE copy[i + 1]
  <2> TAKE i \in 1..Len(copy)
  <2>1. copy[i] \in Node /\ Contains(copy, copy[i])
    BY <1>4
  <2>2. copy[i] = Last(copy) <=> i = Len(copy)
    BY <1>4 DEF Last
  <2>3. SelectInSeq(copy, LAMBDA m : m = copy[i]) = i
    BY <1>4, PositionIs
  <2>4. next'[copy[i]] = IF copy[i] # Last(copy) THEN copy[SelectInSeq(copy, LAMBDA m : m = copy[i]) + 1] ELSE NULL
    BY <2>1
  <2> QED BY <2>2, <2>3, <2>4
<1>10. c1 # <<>> => next'[back[q1]] = copy[1]
  BY <1>1, <1>5
<1>11. \A n \in Node : /\ ~Contains(copy, n) /\ ~Contains(c2, n)
                       /\ c1 # <<>> => n # back[q1]
                       => next'[n] = next[n]
  OBVIOUS
<1> DEFINE fr == [front EXCEPT ![q1] = front'[q1]]
           bk == [back EXCEPT ![q1] = back'[q1]]
           nx == [n \in Node |-> IF Contains(c2, n) THEN next[n] ELSE next'[n]]
           al == allocated \cup ToSet(copy)
           u == c1 \o copy
           t == [s EXCEPT ![q1] = u]
<1> HIDE DEF c1, c2
<1>12. Shape(fr, bk, nx, open, al, t)
  <2>1. fr[q1] = front'[q1] /\ bk[q1] = back'[q1]
    BY DEF TypeOK
  <2>2. /\ \A i \in 1..Len(copy) : nx[copy[i]] = IF i = Len(copy) THEN NULL ELSE copy[i + 1]
        /\ \A i \in 1..Len(copy) : ~Contains(c1, copy[i])
    BY <1>1, <1>2, <1>4, <1>9
  <2>3. c1 # <<>> => nx[back[q1]] = copy[1]
    BY <1>1, <1>5, <1>10
  <2>4. \A n \in Node : Contains(c1, n) /\ n # back[q1] => nx[n] = next[n]
    BY <1>1, <1>5, <1>11
  <2>5. Joined(front[q1], back[q1], next, c1, copy, fr[q1], bk[q1], nx)
    BY <1>4, <1>6, <2>1, <2>2, <2>3, <2>4 DEF Joined
  <2>6. Links(fr[q1], bk[q1], nx, u)
    BY <1>1, <2>5, LinksConcat
  <2>7. \A n : Contains(u, n) <=> Contains(c1, n) \/ Contains(copy, n)
    BY <1>1, <1>4, ContainsConcat
  <2>8. \A r \in Queues \ {q1} : fr[r] = front[r] /\ bk[r] = back[r]
    BY DEF TypeOK
  <2>9. ASSUME NEW r \in Queues \ {q1}, NEW n \in Node, Contains(s[r], n)
        PROVE  nx[n] = next[n] /\ ~Contains(u, n)
    <3>1. n \in allocated /\ ~Contains(c1, n)
      BY <2>9 DEF Shape, c1
    <3>2. ~Contains(copy, n)
      BY <1>5, <3>1
    <3>3. nx[n] = next[n]
      BY <1>1, <1>11, <3>1, <3>2
    <3> QED BY <2>7, <3>1, <3>2, <3>3
  <2>10. \A n \in Node : n \in al <=> (n \in allocated /\ ~Contains(s[q1], n)) \/ Contains(u, n)
    <3>1. \A n : n \in ToSet(copy) <=> Contains(copy, n)
      BY <1>4 DEF ToSet, Contains
    <3> HIDE DEF u
    <3> QED BY <1>1, <2>7, <3>1 DEF c1
  <2> HIDE DEF fr, bk, nx, al, u
  <2>11. OnlyQueue(front, back, next, open, allocated, s, fr, bk, nx, open, al, q1, u)
    BY <2>6, <2>8, <2>9, <2>10 DEF OnlyQueue
  <2> QED BY <2>11, ShapeUpdate
<1>13. t[q2] = c2
  BY <1>3 DEF c2
<1>14. Links(front'[q2], back'[q2], next', <<>>)
  BY <1>7, LinksNone
<1>15. \A r \in Queues \ {q2} : front'[r] = fr[r] /\ back'[r] = bk[r] /\ (r \in open => r \in open')
  BY <1>7 DEF TypeOK
<1>16. ASSUME NEW r \in Queues \ {q2}, NEW n \in Node, Contains(t[r], n)
       PROVE  next'[n] = nx[n] /\ ~Contains(<<>>, n)
  <2> HIDE DEF fr, bk, al, t
  <2>1. ~Contains(c2, n)
    BY <1>12, <1>13, <1>16 DEF Shape
  <2> QED BY <2>1, NoneInEmpty
<1>17. \A n \in Node : n \in allocated' <=> (n \in al /\ ~Contains(t[q2], n)) \/ Contains(<<>>, n)
  <2>1. \A n : n \in ToSet(copy) <=> Contains(copy, n)
    BY <1>4 DEF ToSet, Contains
  <2> HIDE DEF t
  <2> QED BY <1>8, <1>13, <2>1, NoneInEmpty
<1> HIDE DEF fr, bk, nx, al, t
<1>18. OnlyQueue(fr, bk, nx, open, al, t, front', back', next', open', allocated', q2, <<>>)
  BY <1>14, <1>15, <1>16, <1>17 DEF OnlyQueue
<1>19. Shape(front', back', next', open', allocated', [t EXCEPT ![q2] = <<>>])
  BY <1>12, <1>18, ShapeUpdate
<1>20. [t EXCEPT ![q2] = <<>>] = [s EXCEPT ![q1] = s[q1] \o copy, ![q2] = <<>>]
  BY <1>3 DEF t, u, c1
<1>21. next' \in [Node -> Pointer]
  <2>1. \A n \in Node : Contains(copy, n) => next'[n] \in Pointer
    <3> SUFFICES ASSUME NEW i \in 1..Len(copy)
                 PROVE  next'[copy[i]] \in Pointer
      BY DEF Contains
    <3>1. i # Len(copy) => i + 1 \in 1..Len(copy)
      BY <1>4
    <3> QED BY <1>4, <1>9, <3>1 DEF Pointer
  <2>2. \A n \in Node : ~Contains(copy, n) => next'[n] \in {NULL, copy[1], next[n]}
    OBVIOUS
  <2>3. \A n \in Node : {NULL, copy[1], next[n]} \subseteq Pointer
    BY <1>4 DEF TypeOK, Pointer
  <2>4. \A n \in Node : next'[n] \in Pointer
    BY <2>1, <2>2, <2>3
  <2> DEFINE val(n) == IF Contains(copy, n) /\ n # Last(copy)
                       THEN copy[SelectInSeq(copy, LAMBDA m : m = n) + 1]
                     ELSE IF Contains(copy, n) \/ Contains(s[q2], n) THEN NULL
                     ELSE IF s[q1] # <<>> /\ n = back[q1] THEN copy[1]
                     ELSE next[n]
  <2>5. next' = [n \in Node |-> val(n)]
    OBVIOUS
  <2> HIDE DEF val
  <2> QED BY <2>4, <2>5
<1>22. \A i \in 1..Len(copy) : data'[copy[i]] = data[s[q2][i]]
  <2> TAKE i \in 1..Len(copy)
  <2>1. SelectInSeq(copy, LAMBDA m : m = copy[i]) = i
    BY <1>4, PositionIs
  <2>2. data'[copy[i]] = Moved(s[q2], copy)[SelectInSeq(copy, LAMBDA m : m = copy[i])]
    BY <1>4
  <2> QED BY <1>4, <2>1, <2>2 DEF Moved
<1>23. \A n \in allocated : ~Contains(s[q2], n) => data'[n] = data[n]
  BY <1>5 DEF TypeOK
<1>24. data' \in [Node -> Elements \cup {NULL}]
  <2>1. \A i \in 1..Len(copy) : s[q2][i] \in Node
    BY <1>2, <1>4, ElementOfSeq DEF c2
  <2>2. \A n \in Node : Contains(copy, n) => data'[n] \in Elements \cup {NULL}
    <3> SUFFICES ASSUME NEW i \in 1..Len(copy)
                 PROVE  data'[copy[i]] \in Elements \cup {NULL}
      BY DEF Contains
    <3> QED BY <1>22, <2>1 DEF TypeOK
  <2>3. \A n \in Node : ~Contains(copy, n) => data'[n] \in {NULL, data[n]}
    OBVIOUS
  <2>4. \A n \in Node : data'[n] \in Elements \cup {NULL}
    BY <2>2, <2>3 DEF TypeOK
  <2> DEFINE val(n) == IF Contains(copy, n) THEN Moved(s[q2], copy)[SelectInSeq(copy, LAMBDA m : m = n)]
                     ELSE IF Contains(s[q2], n) THEN NULL ELSE data[n]
  <2>5. data' = [n \in Node |-> val(n)]
    OBVIOUS
  <2> HIDE DEF val
  <2> QED BY <2>4, <2>5
<1>25. Len(copy) = Len(s[q2])
  BY <1>4 DEF c2
<1>26. allocated' \subseteq Node
  BY <1>4 DEF TypeOK, ToSet
<1> QED BY <1>4, <1>19, <1>20, <1>21, <1>22, <1>23, <1>24, <1>25, <1>26 DEF Last

(* The step of qconcat that copies the elements at src into the nodes copy.*)
Copying(q1, q2, src, copy) ==
  /\ ~Empty(q2) /\ IsInjective(copy)
  /\ open' = open \ {q2}
  /\ front' = [front EXCEPT ![q1] = IF Empty(q1) THEN copy[1] ELSE @, ![q2] = NULL]
  /\ back' = [back EXCEPT ![q1] = Last(copy), ![q2] = NULL]
  /\ allocated' = (allocated \cup ToSet(copy)) \ ToSet(src)
  /\ data' = [n \in Node |->
                IF Contains(copy, n) THEN Moved(src, copy)[SelectInSeq(copy, LAMBDA m : m = n)]
                ELSE IF Contains(src, n) THEN NULL ELSE data[n]]
  /\ next' = [n \in Node |->
                IF Contains(copy, n) /\ n # Last(copy)
                  THEN copy[SelectInSeq(copy, LAMBDA m : m = n) + 1]
                ELSE IF Contains(copy, n) \/ Contains(src, n) THEN NULL
                ELSE IF ~Empty(q1) /\ n = back[q1] THEN copy[1]
                ELSE next[n]]
  /\ IF Empty(q1) THEN UNCHANGED fault ELSE Access(back[q1])
  /\ UNCHANGED result

(* The step of qconcat that puts the elements of q2 into q1, in the nodes  *)
(* copy.                                                                   *)
ConcatInto(q1, q2, s, copy) ==
  /\ s[q2] # <<>> /\ Len(copy) = Len(s[q2])
  /\ Shape(front', back', next', open', allocated',
           [s EXCEPT ![q1] = s[q1] \o copy, ![q2] = <<>>])
  /\ front' \in [Queues -> Pointer] /\ back' \in [Queues -> Pointer]
  /\ next' \in [Node -> Pointer] /\ data' \in [Node -> Elements \cup {NULL}]
  /\ allocated' \subseteq Node
  /\ \A i \in 1..Len(copy) : data'[copy[i]] = data[s[q2][i]]
  /\ \A n \in allocated : ~Contains(s[q2], n) => data'[n] = data[n]
  /\ open' = open \ {q2} /\ UNCHANGED <<result, fault>>

(* The step of qconcat that returns early. *)
Leaking(q2) ==
  /\ open' = open \ {q2} /\ leaked' = leaked \cup {q2}
  /\ UNCHANGED <<front, back, data, next, allocated, result, fault>>

(* qconcat: nothing to do, malloc fails, or the elements are copied. *)
LEMMA ConcatShape ==
  ASSUME TypeOK, fault = "none", NEW s, Shape(front, back, next, open, allocated, s),
         NEW q1 \in open, NEW q2 \in open \ {q1}, qconcat(q1, q2)
  PROVE  \/ s[q2] = <<>> /\ Leaking(q2)
         \/ fault' = "null" /\ UNCHANGED <<open, front, back, data, next, allocated, result>>
         \/ \E copy \in Seq(Node) : ConcatInto(q1, q2, s, copy)
<1> q1 \in Queues /\ q2 \in Queues /\ q1 # q2
  BY DEF TypeOK
<1>1. /\ Chain(q2) = s[q2] /\ (Empty(q2) <=> s[q2] = <<>>) /\ (Empty(q1) <=> s[q1] = <<>>)
      /\ s[q1] # <<>> => back[q1] \in allocated
  <2>1. s[q1] # <<>> => back[q1] \in allocated
    BY ShapeOf
  <2> QED BY <2>1, ShapeOf
<1>2. CASE Empty(q2) /\ Leaking(q2)
  BY <1>1, <1>2
<1>3. CASE Access(NULL) /\ UNCHANGED <<open, front, back, data, next, allocated, result>>
  BY <1>3 DEF Access
<1>4. ASSUME NEW copy \in [1..Len(s[q2]) -> Node \ allocated],
             Copying(q1, q2, s[q2], copy)
      PROVE  copy \in Seq(Node) /\ ConcatInto(q1, q2, s, copy)
  <2>1. s[q2] # <<>>
    BY <1>1, <1>4 DEF Copying
  <2>2. front' = [front EXCEPT ![q1] = IF s[q1] = <<>> THEN copy[1] ELSE @, ![q2] = NULL]
    BY <1>1, <1>4 DEF Copying
  <2>3. next' = [n \in Node |->
                     IF Contains(copy, n) /\ n # Last(copy)
                       THEN copy[SelectInSeq(copy, LAMBDA m : m = n) + 1]
                     ELSE IF Contains(copy, n) \/ Contains(s[q2], n) THEN NULL
                     ELSE IF s[q1] # <<>> /\ n = back[q1] THEN copy[1]
                     ELSE next[n]]
    BY <1>1, <1>4 DEF Copying
  <2>4. /\ Shape(front', back', next', open', allocated',
                 [s EXCEPT ![q1] = s[q1] \o copy, ![q2] = <<>>])
        /\ copy \in Seq(Node) /\ Len(copy) = Len(s[q2]) /\ copy[1] \in Node /\ Last(copy) \in Node
        /\ next' \in [Node -> Pointer] /\ data' \in [Node -> Elements \cup {NULL}]
        /\ allocated' \subseteq Node
        /\ \A i \in 1..Len(copy) : data'[copy[i]] = data[s[q2][i]]
        /\ \A n \in allocated : ~Contains(s[q2], n) => data'[n] = data[n]
    BY <1>4, <2>1, <2>2, <2>3, CopyShape DEF Copying
  <2>5. front' \in [Queues -> Pointer] /\ back' \in [Queues -> Pointer]
    BY <1>4, <2>2, <2>4 DEF Copying, TypeOK, Pointer
  <2>6. UNCHANGED fault
    BY <1>1, <1>4, QueueAssumption DEF Copying, Access, TypeOK
  <2>7. open' = open \ {q2} /\ UNCHANGED result
    BY <1>4 DEF Copying
  <2> QED BY <2>1, <2>4, <2>5, <2>6, <2>7 DEF ConcatInto
<1>5. \/ Empty(q2) /\ Leaking(q2)
      \/ Access(NULL) /\ UNCHANGED <<open, front, back, data, next, allocated, result>>
      \/ \E copy \in [1..Len(Chain(q2)) -> Node \ allocated] : Copying(q1, q2, Chain(q2), copy)
  BY DEF qconcat, Copying, Leaking
<1>6. ASSUME NEW copy \in [1..Len(Chain(q2)) -> Node \ allocated], Copying(q1, q2, Chain(q2), copy)
      PROVE  copy \in [1..Len(s[q2]) -> Node \ allocated] /\ Copying(q1, q2, s[q2], copy)
  BY <1>1, <1>6
<1>7. CASE \E copy \in [1..Len(Chain(q2)) -> Node \ allocated] : Copying(q1, q2, Chain(q2), copy)
  BY <1>4, <1>6, <1>7
<1> QED BY <1>2, <1>3, <1>5, <1>7

(* qremove keeps the types. *)
LEMMA RemoveTypes ==
  ASSUME TypeOK, NEW s, Shape(front, back, next, open, allocated, s),
         NEW q \in open, NEW key, qremove(q, key)
  PROVE  TypeOK'
<1> q \in Queues
  BY DEF TypeOK
<1>1. Chain(q) = s[q] /\ s[q] \in Seq(Node)
  BY ShapeOf
<1>2. CASE FirstMatch(q, key) = 0 /\ Return(NULL) /\ UNCHANGED <<open, leaked, front, back, data, next, allocated, fault>>
  BY <1>2 DEF TypeOK, Return
<1>3. CASE FirstMatch(q, key) # 0
  <2> DEFINE k == FirstMatch(q, key)
             c == s[q]
  <2>1. k \in 1..Len(c)
    BY <1>1, <1>3, FirstMatchIs
  <2>2. /\ result' = data[c[k]]
        /\ Unlink(q, k)
        /\ allocated' = allocated \ {c[k]}
        /\ data' = [n \in Node |-> IF n \in {c[k]} THEN NULL ELSE data[n]]
        /\ UNCHANGED <<open, leaked, fault>>
    BY <1>1, <1>3 DEF qremove, free, Return
  <2>3. Len(c) \in Nat /\ \A i \in 1..Len(c) : c[i] \in Node
    BY <1>1, LenProperties, ElementOfSeq
  <2>4. c[k] \in Node /\ (k # 1 => c[k - 1] \in Node)
    <3> HIDE DEF k
    <3>1. k # 1 => k - 1 \in 1..Len(c)
      BY <2>1, <2>3
    <3> QED BY <2>1, <2>3, <3>1
  <2> HIDE DEF k
  <2>5. /\ front' \in [Queues -> Pointer] /\ back' \in [Queues -> Pointer]
        /\ next' \in [Node -> Pointer]
    <3> HIDE DEF c
    <3>1. CASE k = 1
      <4>1. /\ front' = [front EXCEPT ![q] = IF @ = back[q] THEN NULL ELSE next[c[k]]]
            /\ back' = IF front[q] = back[q] THEN [back EXCEPT ![q] = NULL] ELSE back
            /\ next' = [next EXCEPT ![c[k]] = NULL]
        BY <1>1, <2>2, <3>1 DEF Unlink, c
      <4> QED BY <2>4, <4>1 DEF TypeOK, Pointer
    <3>2. CASE k # 1
      <4>1. /\ next' = [next EXCEPT ![c[k - 1]] = IF c[k] = back[q] THEN NULL ELSE next[c[k]],
                                    ![c[k]] = NULL]
            /\ back' = IF c[k] = back[q] THEN [back EXCEPT ![q] = c[k - 1]] ELSE back
            /\ front' = front
        BY <1>1, <2>2, <3>2 DEF Unlink, c
      <4> QED BY <2>4, <3>2, <4>1 DEF TypeOK, Pointer
    <3> QED BY <3>1, <3>2
  <2>6. data' \in [Node -> Elements \cup {NULL}] /\ result' \in Elements \cup {NULL, "0", "true", "false"}
    BY <2>2, <2>4 DEF TypeOK
  <2> QED BY <2>2, <2>5, <2>6 DEF TypeOK
<1> QED BY <1>2, <1>3 DEF qremove

(* No queue that leaks is one a caller may use. *)
LEMMA LeakedStep ==
  ASSUME TypeOK, Next
  PROVE  leaked' \subseteq Queues \ open'
<1> USE DEF TypeOK
<1>1. ASSUME NEW q \in Queues, qopen(q)
      PROVE  leaked' \subseteq Queues \ open'
  BY <1>1 DEF qopen
<1>2. ASSUME NEW q \in open, qclose(q)
      PROVE  leaked' \subseteq Queues \ open'
  BY <1>2 DEF qclose
<1>3. ASSUME NEW q \in open, NEW e, qget(q) \/ qisempty(q) \/ qput(q, e) \/ qsearch(q, e) \/ qremove(q, e)
      PROVE  leaked' \subseteq Queues \ open'
  BY <1>3 DEF qget, qisempty, qput, qsearch, qremove
<1>4. ASSUME NEW q1 \in open, NEW q2 \in open \ {q1}, qconcat(q1, q2)
      PROVE  leaked' \subseteq Queues \ open'
  <2>1. \/ open' = open \ {q2} /\ leaked' = leaked \cup {q2}
        \/ UNCHANGED <<open, leaked>>
        \/ open' = open \ {q2} /\ UNCHANGED leaked
    BY <1>4, Zenon DEF qconcat
  <2> QED BY <2>1
<1> QED BY <1>1, <1>2, <1>3, <1>4 DEF Next

(* One step of an operation keeps the invariant. *)
LEMMA QueueStep == QueueInv /\ [Next]_vars => QueueInv'
<1> SUFFICES ASSUME QueueInv, [Next]_vars
             PROVE  QueueInv'
  OBVIOUS
<1>1. TypeOK
  BY DEF QueueInv
<1>2. PICK s : Shape(front, back, next, open, allocated, s)
  BY DEF QueueInv
<1>3. s \in [Queues -> Seq(Node)] /\ open \subseteq Queues
  BY <1>1, <1>2 DEF Shape, TypeOK
<1>4. CASE UNCHANGED vars
  BY <1>1, <1>2, <1>4 DEF QueueInv, TypeOK, vars
<1>0. leaked' \subseteq Queues \ open'
  BY <1>1, LeakedStep DEF TypeOK, vars
<1>5. CASE UNCHANGED <<open, front, back, data, next, allocated>> /\ fault' \in {"none", "null"}
           /\ result' \in Elements \cup {NULL, "0", "true", "false"}
  <2>1. TypeOK'
    BY <1>0, <1>1, <1>5 DEF TypeOK
  <2>2. Shape(front', back', next', open', allocated', s)
    BY <1>2, <1>5
  <2> QED BY <1>5, <2>1, <2>2 DEF QueueInv
<1>6. ASSUME fault = "none", NEW q \in Queues, qopen(q)
      PROVE  QueueInv'
  <2>1. Shape(front', back', next', open', allocated', s)
    BY <1>1, <1>2, <1>6, OpenShape
  <2>2. TypeOK'
    BY <1>0, <1>1, <1>6 DEF TypeOK, qopen, Pointer
  <2>3. fault' # "freed"
    BY <1>6 DEF qopen
  <2> QED BY <2>1, <2>2, <2>3 DEF QueueInv
<1>7. ASSUME fault = "none", NEW q \in open, qclose(q)
      PROVE  QueueInv'
  <2>1. Shape(front', back', next', open', allocated', [s EXCEPT ![q] = <<>>])
    BY <1>1, <1>2, <1>7, CloseShape
  <2>2. TypeOK'
    BY <1>0, <1>1, <1>7 DEF TypeOK, qclose, free, Pointer
  <2>3. fault' # "freed"
    BY <1>7 DEF qclose
  <2> QED BY <2>1, <2>2, <2>3 DEF QueueInv
<1>8. ASSUME fault = "none", NEW q \in open, qget(q)
      PROVE  QueueInv'
  <2>1. Empty(q) <=> s[q] = <<>>
    BY <1>2, <1>3, ShapeOf
  <2>2. CASE s[q] = <<>>
    BY <1>5, <1>8, <2>1, <2>2 DEF qget, Return
  <2>3. CASE s[q] # <<>>
    <3>1. Shape(front', back', next', open', allocated', [s EXCEPT ![q] = RemoveAt(s[q], 1)])
      BY <1>1, <1>2, <1>8, <2>3, GetShape
    <3>2. front[q] \in Node
      BY <1>2, <1>3, <2>3, ShapeOf
    <3>3. TypeOK'
      <4>1. /\ result' = data[front[q]] /\ front' = [front EXCEPT ![q] = next[front[q]]]
            /\ allocated' = allocated \ {front[q]}
            /\ data' = [n \in Node |-> IF n \in {front[q]} THEN NULL ELSE data[n]]
            /\ next' = [next EXCEPT ![front[q]] = NULL]
            /\ UNCHANGED <<open, back, fault>>
        BY <1>8, <2>1, <2>3 DEF qget, free, Return
      <4>2. data' \in [Node -> Elements \cup {NULL}] /\ result' \in Elements \cup {NULL, "0", "true", "false"}
        BY <1>1, <3>2, <4>1 DEF TypeOK
      <4>3. front' \in [Queues -> Pointer] /\ next' \in [Node -> Pointer]
        BY <1>1, <3>2, <4>1 DEF TypeOK, Pointer
      <4> QED BY <1>0, <1>1, <4>1, <4>2, <4>3 DEF TypeOK
    <3>4. fault' # "freed"
      BY <1>8 DEF qget
    <3> QED BY <3>1, <3>3, <3>4 DEF QueueInv
  <2> QED BY <2>2, <2>3
<1>9. ASSUME fault = "none", NEW q \in open, qisempty(q)
      PROVE  QueueInv'
  BY <1>5, <1>9 DEF qisempty, Return
<1>10. ASSUME fault = "none", NEW q \in open, NEW e \in Elements, qput(q, e)
       PROVE  QueueInv'
  <2>1. CASE fault' = "null" /\ UNCHANGED <<open, front, back, data, next, allocated, result>>
    BY <1>1, <1>5, <2>1 DEF TypeOK
  <2>2. ASSUME NEW n \in Node \ allocated, PutInto(q, e, s, n)
        PROVE  QueueInv'
    <3>1. TypeOK'
      <4>1. data' \in [Node -> Elements \cup {NULL}] /\ result' = "0" /\ UNCHANGED <<open, fault>>
        BY <1>1, <2>2 DEF TypeOK, PutInto
      <4>2. /\ front' \in [Queues -> Pointer] /\ back' \in [Queues -> Pointer]
            /\ next' \in [Node -> Pointer] /\ allocated' \subseteq Node
        BY <1>1, <1>10 DEF TypeOK, qput, Pointer
      <4> QED BY <1>0, <1>1, <4>1, <4>2 DEF TypeOK
    <3>2. fault' # "freed"
      BY <1>10, <2>2 DEF PutInto
    <3> QED BY <2>2, <3>1, <3>2 DEF QueueInv, PutInto
  <2>3. \/ fault' = "null" /\ UNCHANGED <<open, front, back, data, next, allocated, result>>
        \/ \E n \in Node \ allocated : PutInto(q, e, s, n)
    BY <1>1, <1>2, <1>10, PutShape
  <2> QED BY <2>1, <2>2, <2>3
<1>11. ASSUME fault = "none", NEW q \in open, NEW e \in Elements, qsearch(q, e)
       PROVE  QueueInv'
  <2>1. Chain(q) = s[q] /\ s[q] \in Seq(Node)
    BY <1>2, <1>3, ShapeOf
  <2>2. FirstMatch(q, e) = 0 \/ data[s[q][FirstMatch(q, e)]] = e
    BY <2>1, FirstMatchIs
  <2>3. result' \in Elements \cup {NULL, "0", "true", "false"}
    BY <1>11, <2>1, <2>2 DEF qsearch, Return
  <2> QED BY <1>5, <1>11, <2>3 DEF qsearch
<1>12. ASSUME fault = "none", NEW q \in open, NEW e \in Elements, qremove(q, e)
       PROVE  QueueInv'
  <2>1. TypeOK'
    BY <1>1, <1>2, <1>12, RemoveTypes
  <2>2. CASE FirstMatch(q, e) = 0
    BY <1>5, <1>12, <2>2 DEF qremove, Return
  <2>3. CASE FirstMatch(q, e) # 0
    <3>1. /\ Shape(front', back', next', open', allocated', [s EXCEPT ![q] = RemoveAt(s[q], FirstMatch(q, e))])
          /\ UNCHANGED fault
      BY <1>1, <1>2, <1>12, <2>3, RemoveShape
    <3> QED BY <1>12, <2>1, <3>1 DEF QueueInv
  <2> QED BY <2>2, <2>3
<1>13. ASSUME fault = "none", NEW q1 \in open, NEW q2 \in open \ {q1}, qconcat(q1, q2)
       PROVE  QueueInv'
  <2>1. CASE s[q2] = <<>> /\ Leaking(q2)
    <3>1. Shape(front', back', next', open', allocated', s)
      BY <1>2, <2>1 DEF Shape, Leaking
    <3>2. TypeOK' /\ fault' # "freed"
      BY <1>0, <1>1, <1>13, <2>1 DEF TypeOK, Leaking
    <3> QED BY <3>1, <3>2 DEF QueueInv
  <2>2. CASE fault' = "null" /\ UNCHANGED <<open, front, back, data, next, allocated, result>>
    BY <1>1, <1>5, <2>2 DEF TypeOK
  <2>3. ASSUME NEW copy \in Seq(Node), ConcatInto(q1, q2, s, copy)
        PROVE  QueueInv'
    <3>1. TypeOK'
      BY <1>0, <1>1, <2>3 DEF TypeOK, ConcatInto
    <3> QED BY <1>13, <2>3, <3>1 DEF QueueInv, ConcatInto
  <2>4. \/ s[q2] = <<>> /\ Leaking(q2)
        \/ fault' = "null" /\ UNCHANGED <<open, front, back, data, next, allocated, result>>
        \/ \E copy \in Seq(Node) : ConcatInto(q1, q2, s, copy)
    BY <1>1, <1>2, <1>13, ConcatShape
  <2> QED BY <2>1, <2>2, <2>3, <2>4
<1> QED BY <1>4, <1>6, <1>7, <1>8, <1>9, <1>10, <1>11, <1>12, <1>13 DEF Next

(* The invariant holds of every state of queue.c. *)
LEMMA QueueAlways == Spec => []QueueInv
<1>1. Init => QueueInv
  <2> SUFFICES ASSUME Init
               PROVE  QueueInv
    OBVIOUS
  <2> DEFINE s == [q \in Queues |-> <<>>]
  <2>1. s \in [Queues -> Seq(Node)]
    OBVIOUS
  <2>2. \A q \in Queues : Links(front[q], back[q], next, s[q])
    BY LinksNone DEF Init
  <2>3. \A n \in Node : n \in allocated <=> \E q \in Queues : Contains(s[q], n)
    BY NoneInEmpty DEF Init
  <2>4. \A q, r \in Queues : q # r => \A n \in Node : ~(Contains(s[q], n) /\ Contains(s[r], n))
    BY NoneInEmpty
  <2>5. \A q \in Queues \ open : s[q] = <<>>
    OBVIOUS
  <2> HIDE DEF s
  <2>6. Shape(front, back, next, open, allocated, s)
    BY <2>1, <2>2, <2>3, <2>4, <2>5 DEF Shape
  <2>7. TypeOK /\ fault # "freed"
    BY DEF Init, TypeOK, Pointer
  <2> QED BY <2>6, <2>7 DEF QueueInv
<1> QED BY <1>1, QueueStep, PTL DEF Spec

(* Types: the queues and nodes keep theirs (Queue!TypeOK). *)
THEOREM QueueTypes == Spec => []TypeOK
<1>1. QueueInv => TypeOK
  BY DEF QueueInv
<1> QED BY <1>1, QueueAlways, PTL

(* No operation of queue.c follows a pointer to a freed node, and all the  *)
(* nodes that a queue links are in use.                                    *)
THEOREM FreedCorrect == Spec => []NoFreedAccess
<1>1. QueueInv => NoFreedAccess
  <2> SUFFICES ASSUME QueueInv
               PROVE  NoFreedAccess
    OBVIOUS
  <2>1. PICK s : Shape(front, back, next, open, allocated, s)
    BY DEF QueueInv
  <2>2. fault # "freed" /\ open \subseteq Queues /\ allocated \subseteq Node
    BY DEF QueueInv, TypeOK
  <2>3. ASSUME NEW q \in open
        PROVE  ToSet(Chain(q)) \subseteq allocated
    <3>1. /\ Chain(q) = s[q] /\ s[q] \in Seq(Node)
          /\ \A n \in Node : Contains(s[q], n) => n \in allocated
      BY <2>1, <2>2, ShapeOf
    <3>2. \A i \in 1..Len(s[q]) : s[q][i] \in Node
      BY <3>1, ElementOfSeq
    <3> QED BY <3>1, <3>2, LenProperties DEF ToSet, Contains
  <2> QED BY <2>2, <2>3 DEF NoFreedAccess
<1> QED BY <1>1, QueueAlways, PTL

(* The nodes in use are exactly those of the open queues, each in one      *)
(* place of one of them, and back points to the last node of its queue.    *)
(* A queue_t that qconcat leaks has no node.                               *)
THEOREM NodesCorrect == Spec => []NodesAccountedFor
<1>1. QueueInv => NodesAccountedFor
  <2> SUFFICES ASSUME QueueInv
               PROVE  NodesAccountedFor
    OBVIOUS
  <2>1. PICK s : Shape(front, back, next, open, allocated, s)
    BY DEF QueueInv
  <2>2. open \subseteq Queues /\ allocated \subseteq Node
    BY DEF QueueInv, TypeOK
  <2>3. \A q \in Queues : /\ Chain(q) = s[q] /\ s[q] \in Seq(Node) /\ IsInjective(s[q])
                          /\ Empty(q) <=> s[q] = <<>>
                          /\ s[q] # <<>> => back[q] = s[q][Len(s[q])]
    BY <2>1, ShapeOf
  <2>4. ASSUME NEW q \in Queues, NEW n
        PROVE  n \in ToSet(Chain(q)) <=> n \in Node /\ Contains(s[q], n)
    <3>1. \A i \in 1..Len(s[q]) : s[q][i] \in Node
      BY <2>3, ElementOfSeq
    <3>2. Chain(q) = s[q] /\ DOMAIN s[q] = 1..Len(s[q])
      BY <2>3, LenProperties
    <3> QED BY <3>1, <3>2 DEF ToSet, Contains
  <2>5. \A n \in Node : n \in allocated <=> \E q \in open : Contains(s[q], n)
    BY <2>1, <2>2, NoneInEmpty DEF Shape
  <2>6. allocated = UNION {ToSet(Chain(q)) : q \in open}
    BY <2>2, <2>4, <2>5
  <2>7. \A q \in open : IsInjective(Chain(q)) /\ (~Empty(q) => back[q] = Last(Chain(q)))
    BY <2>2, <2>3 DEF Last
  <2>8. \A q, r \in open : q # r => ToSet(Chain(q)) \cap ToSet(Chain(r)) = {}
    <3>1. \A q, r \in Queues : q # r => \A n \in Node : ~(Contains(s[q], n) /\ Contains(s[r], n))
      BY <2>1 DEF Shape
    <3> QED BY <2>2, <2>4, <3>1
  <2>9. \A q \in leaked : Empty(q)
    <3>1. leaked \subseteq Queues \ open
      BY DEF QueueInv, TypeOK
    <3> QED BY <2>1, <2>3, <3>1 DEF Shape
  <2> QED BY <2>6, <2>7, <2>8, <2>9 DEF NodesAccountedFor
<1> QED BY <1>1, QueueAlways, PTL
----------------------------------------------------------------------------
(* The refinement of FifoQueue.  What the elements of the nodes u are: *)
Values(d, u) == [i \in DOMAIN u |-> d[u[i]]]

(* The elements of the queues, as the refinement maps them, and of the     *)
(* nodes in s.                                                             *)
QItems == [q \in Queues |-> [i \in DOMAIN Chain(q) |-> data[Chain(q)[i]]]]
Held(d, s) == [q \in Queues |-> Values(d, s[q])]

(* The chains of a state are the nodes of its shape, of the next one too.  *)
LEMMA ItemsAre == \A s : Shape(front, back, next, open, allocated, s) => QItems = Held(data, s)
<1> SUFFICES ASSUME NEW s, Shape(front, back, next, open, allocated, s)
             PROVE  QItems = Held(data, s)
  OBVIOUS
<1>1. \A q \in Queues : Chain(q) = s[q]
  BY ShapeOf
<1> QED BY <1>1 DEF QItems, Held, Values

(* The same of the next state. *)
LEMMA NextItemsAre == \A s : Shape(front', back', next', open', allocated', s) => QItems' = Held(data', s)
<1>1. (\A s : Shape(front, back, next, open, allocated, s) => QItems = Held(data, s))'
  BY ItemsAre, PTL
<1> QED BY <1>1

(* What a step leaves alone: the elements of the nodes u, of all but the   *)
(* k-th of them, of the nodes of the queues other than q.                  *)
Keeps(d, d2, u) == \A m \in Node : Contains(u, m) => d2[m] = d[m]
KeepsBut(d, d2, u, k) == \A m \in Node : Contains(u, m) /\ m # u[k] => d2[m] = d[m]
KeepsOthers(d, d2, s, q) == \A r \in Queues \ {q} : Keeps(d, d2, s[r])

Value == Elements \cup {NULL}

(* The step copies the elements of the nodes c, and leaves those of u alone. *)
Copied(d, d2, u, c, copy) ==
  /\ d \in [Node -> Value] /\ d2 \in [Node -> Value]
  /\ u \in Seq(Node) /\ c \in Seq(Node) /\ copy \in Seq(Node)
  /\ Keeps(d, d2, u)
  /\ Len(copy) = Len(c) /\ \A i \in 1..Len(copy) : d2[copy[i]] = d[c[i]]

(* The elements as a sequence: as many as the nodes. *)
LEMMA ValuesSeq ==
  ASSUME NEW d \in [Node -> Value], NEW u \in Seq(Node)
  PROVE  /\ Values(d, u) \in Seq(Value) /\ Len(Values(d, u)) = Len(u)
         /\ \A i \in 1..Len(u) : Values(d, u)[i] = d[u[i]]
         /\ Values(d, u) = <<>> <=> u = <<>>
<1>1. Len(u) \in Nat /\ DOMAIN u = 1..Len(u) /\ \A i \in 1..Len(u) : u[i] \in Node
  BY LenProperties, ElementOfSeq
<1>2. Values(d, u) = [i \in 1..Len(u) |-> d[u[i]]]
  BY <1>1 DEF Values
<1>3. \A i \in 1..Len(u) : d[u[i]] \in Value
  BY <1>1
<1>4. Values(d, u) \in Seq(Value) /\ Len(Values(d, u)) = Len(u)
  BY <1>1, <1>2, <1>3
<1>5. Values(d, u) = <<>> <=> u = <<>>
  BY <1>4, EmptySeq
<1> QED BY <1>2, <1>4, <1>5

(* A step that gives the queue q the nodes u, and no node of another queue *)
(* a new element.                                                          *)
OnlyItems(s, d, t, d2, q, u) ==
  /\ s \in [Queues -> Seq(Node)] /\ q \in Queues
  /\ t = [s EXCEPT ![q] = u] /\ KeepsOthers(d, d2, s, q)

(* Such a step changes the elements of q alone. *)
LEMMA HeldUpdate ==
  ASSUME NEW s, NEW d, NEW t, NEW d2, NEW q, NEW u, OnlyItems(s, d, t, d2, q, u)
  PROVE  Held(d2, t) = [Held(d, s) EXCEPT ![q] = Values(d2, u)]
<1> s \in [Queues -> Seq(Node)] /\ q \in Queues /\ KeepsOthers(d, d2, s, q)
  BY DEF OnlyItems
<1>1. t[q] = u /\ \A r \in Queues \ {q} : t[r] = s[r]
  BY DEF OnlyItems
<1>2. ASSUME NEW r \in Queues \ {q}
      PROVE  Values(d2, s[r]) = Values(d, s[r])
  <2>1. DOMAIN s[r] = 1..Len(s[r]) /\ \A i \in 1..Len(s[r]) : s[r][i] \in Node
    BY LenProperties, ElementOfSeq
  <2>2. \A i \in DOMAIN s[r] : d2[s[r][i]] = d[s[r][i]]
    BY <2>1 DEF Contains, KeepsOthers, Keeps
  <2> QED BY <2>2 DEF Values
<1> QED BY <1>1, <1>2 DEF Held

(* The elements of the nodes after a qput, a qremove and a qconcat. *)
LEMMA ValuesAppend ==
  ASSUME NEW d \in [Node -> Value], NEW d2 \in [Node -> Value], NEW u \in Seq(Node), NEW n \in Node,
         Keeps(d, d2, u)
  PROVE  Values(d2, Append(u, n)) = Append(Values(d, u), d2[n])
<1> DEFINE t == Append(u, n)
<1>1. /\ t \in Seq(Node) /\ Len(t) = Len(u) + 1 /\ Len(u) \in Nat
      /\ \A i \in 1..Len(u) : t[i] = u[i] /\ u[i] \in Node /\ Contains(u, u[i])
      /\ t[Len(u) + 1] = n
  BY AppendProperties, LenProperties, ElementOfSeq DEF Contains
<1> HIDE DEF t
<1>2. /\ Values(d, u) \in Seq(Value) /\ Len(Values(d, u)) = Len(u)
      /\ \A i \in 1..Len(u) : Values(d, u)[i] = d[u[i]]
  BY ValuesSeq
<1>3. /\ Values(d2, t) \in Seq(Value) /\ Len(Values(d2, t)) = Len(u) + 1
      /\ \A i \in 1..(Len(u) + 1) : Values(d2, t)[i] = d2[t[i]]
  <2>1. /\ Values(d2, t) \in Seq(Value) /\ Len(Values(d2, t)) = Len(t)
        /\ \A i \in 1..Len(t) : Values(d2, t)[i] = d2[t[i]]
    BY <1>1, ValuesSeq
  <2> QED BY <1>1, <2>1
<1> DEFINE v == Append(Values(d, u), d2[n])
<1>4. /\ v \in Seq(Value) /\ Len(v) = Len(u) + 1
      /\ \A i \in 1..Len(u) : v[i] = Values(d, u)[i]
      /\ v[Len(u) + 1] = d2[n]
  BY <1>2, AppendProperties
<1> HIDE DEF v
<1>5. \A i \in 1..(Len(u) + 1) : Values(d2, t)[i] = v[i]
  <2> TAKE i \in 1..(Len(u) + 1)
  <2>1. CASE i = Len(u) + 1
    BY <1>1, <1>3, <1>4, <2>1
  <2>2. CASE i \in 1..Len(u)
    <3>1. d2[u[i]] = d[u[i]]
      BY <1>1, <2>2 DEF Keeps
    <3> QED BY <1>1, <1>2, <1>3, <1>4, <2>2, <3>1
  <2> QED BY <1>1, <2>1, <2>2
<1>6. Values(d2, t) = v
  BY <1>3, <1>4, <1>5, SeqEqual
<1> QED BY <1>6 DEF t, v

(* Without the k-th node the elements are those without the k-th. *)
LEMMA ValuesRemove ==
  ASSUME NEW d \in [Node -> Value], NEW d2 \in [Node -> Value], NEW u \in Seq(Node),
         IsInjective(u), NEW k \in 1..Len(u),
         KeepsBut(d, d2, u, k)
  PROVE  Values(d2, RemoveAt(u, k)) = RemoveAt(Values(d, u), k)
<1> DEFINE t == RemoveAt(u, k)
           v == RemoveAt(Values(d, u), k)
<1>1. /\ Len(u) \in Nat /\ \A i \in 1..Len(u) : u[i] \in Node /\ Contains(u, u[i])
      /\ \A i, j \in 1..Len(u) : u[i] = u[j] => i = j
  BY LenProperties, ElementOfSeq DEF Contains, IsInjective
<1>2. /\ t \in Seq(Node) /\ Len(t) = Len(u) - 1
      /\ \A i \in 1..(Len(u) - 1) : t[i] = IF i < k THEN u[i] ELSE u[i + 1]
  BY RemoveAtLemma
<1>3. /\ Values(d, u) \in Seq(Value) /\ Len(Values(d, u)) = Len(u)
      /\ \A i \in 1..Len(u) : Values(d, u)[i] = d[u[i]]
  BY ValuesSeq
<1>4. /\ v \in Seq(Value) /\ Len(v) = Len(u) - 1
      /\ \A i \in 1..(Len(u) - 1) : v[i] = IF i < k THEN Values(d, u)[i] ELSE Values(d, u)[i + 1]
  <2> DEFINE x == Values(d, u)
  <2>1. x \in Seq(Value) /\ Len(x) = Len(u) /\ k \in 1..Len(x)
    BY <1>3
  <2> HIDE DEF x
  <2>2. /\ RemoveAt(x, k) \in Seq(Value) /\ Len(RemoveAt(x, k)) = Len(x) - 1
        /\ \A i \in 1..(Len(x) - 1) : RemoveAt(x, k)[i] = IF i < k THEN x[i] ELSE x[i + 1]
    BY <2>1, RemoveAtLemma
  <2> QED BY <2>1, <2>2 DEF x
<1> HIDE DEF t, v
<1>5. /\ Values(d2, t) \in Seq(Value) /\ Len(Values(d2, t)) = Len(u) - 1
      /\ \A i \in 1..(Len(u) - 1) : Values(d2, t)[i] = d2[t[i]]
  <2>1. /\ Values(d2, t) \in Seq(Value) /\ Len(Values(d2, t)) = Len(t)
        /\ \A i \in 1..Len(t) : Values(d2, t)[i] = d2[t[i]]
    BY <1>2, ValuesSeq
  <2> QED BY <1>2, <2>1
<1>6. \A i \in 1..(Len(u) - 1) : Values(d2, t)[i] = v[i]
  <2> TAKE i \in 1..(Len(u) - 1)
  <2>1. PICK j \in 1..Len(u) : j # k /\ t[i] = u[j] /\ v[i] = Values(d, u)[j]
    <3>1. CASE i < k
      BY <1>1, <1>2, <1>4, <3>1
    <3>2. CASE ~(i < k)
      <4>1. i + 1 \in 1..Len(u) /\ i + 1 # k
        BY <1>1, <3>2
      <4> QED BY <1>2, <1>4, <3>2, <4>1
    <3> QED BY <3>1, <3>2
  <2>2. d2[u[j]] = d[u[j]]
    BY <1>1, <2>1 DEF KeepsBut
  <2> QED BY <1>3, <1>5, <2>1, <2>2
<1>7. Values(d2, t) = v
  BY <1>4, <1>5, <1>6, SeqEqual
<1> QED BY <1>7 DEF t, v

(* The elements copied behind those of u. *)
LEMMA ValuesConcat ==
  ASSUME NEW d, NEW d2, NEW u, NEW c, NEW copy, Copied(d, d2, u, c, copy)
  PROVE  Values(d2, u \o copy) = Values(d, u) \o Values(d, c)
<1> /\ d \in [Node -> Value] /\ d2 \in [Node -> Value]
    /\ u \in Seq(Node) /\ c \in Seq(Node) /\ copy \in Seq(Node)
  BY DEF Copied
<1> DEFINE t == u \o copy
           v == Values(d, u) \o Values(d, c)
<1>1. /\ Len(u) \in Nat /\ Len(c) \in Nat
      /\ \A i \in 1..Len(u) : u[i] \in Node /\ Contains(u, u[i])
  BY LenProperties, ElementOfSeq DEF Contains
<1>2. /\ t \in Seq(Node) /\ Len(t) = Len(u) + Len(c)
      /\ \A i \in 1..(Len(u) + Len(c)) : t[i] = IF i <= Len(u) THEN u[i] ELSE copy[i - Len(u)]
  <2>1. /\ t \in Seq(Node) /\ Len(t) = Len(u) + Len(copy)
        /\ \A i \in 1..(Len(u) + Len(copy)) : t[i] = IF i <= Len(u) THEN u[i] ELSE copy[i - Len(u)]
    BY ConcatProperties
  <2>2. Len(copy) = Len(c)
    BY DEF Copied
  <2> QED BY <2>1, <2>2
<1>3. /\ Values(d, u) \in Seq(Value) /\ Len(Values(d, u)) = Len(u)
      /\ \A i \in 1..Len(u) : Values(d, u)[i] = d[u[i]]
  BY ValuesSeq
<1>4. /\ Values(d, c) \in Seq(Value) /\ Len(Values(d, c)) = Len(c)
      /\ \A i \in 1..Len(c) : Values(d, c)[i] = d[c[i]]
  BY ValuesSeq
<1>5. /\ v \in Seq(Value) /\ Len(v) = Len(u) + Len(c)
      /\ \A i \in 1..(Len(u) + Len(c)) : v[i] = IF i <= Len(u) THEN Values(d, u)[i] ELSE Values(d, c)[i - Len(u)]
  <2> DEFINE x == Values(d, u)
             y == Values(d, c)
  <2>1. /\ x \in Seq(Value) /\ Len(x) = Len(u) /\ y \in Seq(Value) /\ Len(y) = Len(c)
    BY <1>3, <1>4
  <2> HIDE DEF x, y
  <2>2. /\ x \o y \in Seq(Value) /\ Len(x \o y) = Len(x) + Len(y)
        /\ \A i \in 1..(Len(x) + Len(y)) : (x \o y)[i] = IF i <= Len(x) THEN x[i] ELSE y[i - Len(x)]
    BY <2>1, ConcatProperties
  <2>3. /\ x \o y \in Seq(Value) /\ Len(x \o y) = Len(u) + Len(c)
        /\ \A i \in 1..(Len(u) + Len(c)) : (x \o y)[i] = IF i <= Len(u) THEN x[i] ELSE y[i - Len(u)]
    BY <2>1, <2>2
  <2> QED BY <2>3 DEF x, y
<1> HIDE DEF t, v
<1>6. /\ Values(d2, t) \in Seq(Value) /\ Len(Values(d2, t)) = Len(u) + Len(c)
      /\ \A i \in 1..(Len(u) + Len(c)) : Values(d2, t)[i] = d2[t[i]]
  <2>1. /\ Values(d2, t) \in Seq(Value) /\ Len(Values(d2, t)) = Len(t)
        /\ \A i \in 1..Len(t) : Values(d2, t)[i] = d2[t[i]]
    BY <1>2, ValuesSeq
  <2> QED BY <1>2, <2>1
<1>7. \A i \in 1..(Len(u) + Len(c)) : Values(d2, t)[i] = v[i]
  <2> TAKE i \in 1..(Len(u) + Len(c))
  <2>1. CASE i <= Len(u)
    <3>1. i \in 1..Len(u)
      BY <1>1, <2>1
    <3>2. d2[u[i]] = d[u[i]]
      BY <1>1, <3>1 DEF Keeps, Copied
    <3> QED BY <1>2, <1>3, <1>5, <1>6, <2>1, <3>1, <3>2
  <2>2. CASE ~(i <= Len(u))
    <3>1. i - Len(u) \in 1..Len(c)
      BY <1>1, <2>2
    <3>2. d2[copy[i - Len(u)]] = d[c[i - Len(u)]]
      BY <3>1 DEF Copied
    <3> QED BY <1>2, <1>4, <1>5, <1>6, <2>2, <3>1, <3>2
  <2> QED BY <2>1, <2>2
<1>8. Values(d2, t) = v
  BY <1>5, <1>6, <1>7, SeqEqual
<1> QED BY <1>8 DEF t, v

(* What qget, qremove and qput do to the elements: those of one queue lose *)
(* the k-th or get one more.                                               *)
LEMMA RemoveItems ==
  ASSUME TypeOK, NEW s, Shape(front, back, next, open, allocated, s),
         NEW q \in open, NEW k \in 1..Len(s[q]),
         Shape(front', back', next', open', allocated', [s EXCEPT ![q] = RemoveAt(s[q], k)]),
         data' = [n \in Node |-> IF n = s[q][k] THEN NULL ELSE data[n]]
  PROVE  QItems' = [QItems EXCEPT ![q] = RemoveAt(QItems[q], k)]
<1> q \in Queues
  BY DEF TypeOK
<1>1. s \in [Queues -> Seq(Node)] /\ s[q] \in Seq(Node) /\ IsInjective(s[q])
  BY ShapeOf DEF Shape
<1>2. QItems = Held(data, s) /\ QItems' = Held(data', [s EXCEPT ![q] = RemoveAt(s[q], k)])
  BY ItemsAre, NextItemsAre
<1>3. s[q][k] \in Node /\ Contains(s[q], s[q][k])
  BY <1>1, ElementOfSeq DEF Contains
<1>4. data \in [Node -> Value] /\ data' \in [Node -> Value]
  BY DEF TypeOK, Value
<1>5. KeepsOthers(data, data', s, q)
  BY <1>3 DEF Shape, KeepsOthers, Keeps
<1>6. Values(data', RemoveAt(s[q], k)) = RemoveAt(Values(data, s[q]), k)
  <2>1. KeepsBut(data, data', s[q], k)
    BY DEF KeepsBut
  <2> QED BY <1>1, <1>4, <2>1, ValuesRemove
<1>7. QItems' = [Held(data, s) EXCEPT ![q] = Values(data', RemoveAt(s[q], k))]
  <2> DEFINE u == RemoveAt(s[q], k)
             t == [s EXCEPT ![q] = u]
  <2>1. t = [s EXCEPT ![q] = u] /\ QItems' = Held(data', t)
    BY <1>2
  <2> HIDE DEF t, u
  <2>2. OnlyItems(s, data, t, data', q, u)
    BY <1>1, <1>5, <2>1 DEF OnlyItems
  <2>3. Held(data', t) = [Held(data, s) EXCEPT ![q] = Values(data', u)]
    BY <2>2, HeldUpdate
  <2> QED BY <2>1, <2>3 DEF u
<1> QED BY <1>2, <1>6, <1>7 DEF Held

(* What qput does to the elements: those of one queue get one more. *)
LEMMA PutItems ==
  ASSUME TypeOK, NEW s, Shape(front, back, next, open, allocated, s),
         NEW q \in open, NEW e \in Elements, NEW n \in Node \ allocated, PutInto(q, e, s, n)
  PROVE  QItems' = [QItems EXCEPT ![q] = Append(QItems[q], e)]
<1> q \in Queues
  BY DEF TypeOK
<1>1. s \in [Queues -> Seq(Node)] /\ s[q] \in Seq(Node)
  BY ShapeOf DEF Shape
<1>2. QItems = Held(data, s) /\ QItems' = Held(data', [s EXCEPT ![q] = Append(s[q], n)])
  BY ItemsAre, NextItemsAre DEF PutInto
<1>3. data \in [Node -> Value] /\ data' \in [Node -> Value] /\ data'[n] = e
  BY DEF TypeOK, PutInto, Value
<1>4. KeepsOthers(data, data', s, q) /\ Keeps(data, data', s[q])
  <2>1. \A r \in Queues : \A m \in Node : Contains(s[r], m) => m # n
    BY DEF Shape
  <2> QED BY <2>1 DEF TypeOK, PutInto, KeepsOthers, Keeps
<1>5. Values(data', Append(s[q], n)) = Append(Values(data, s[q]), e)
  BY <1>1, <1>3, <1>4, ValuesAppend
<1>6. QItems' = [Held(data, s) EXCEPT ![q] = Values(data', Append(s[q], n))]
  <2> DEFINE u == Append(s[q], n)
             t == [s EXCEPT ![q] = u]
  <2>1. t = [s EXCEPT ![q] = u] /\ QItems' = Held(data', t)
    BY <1>2
  <2> HIDE DEF t, u
  <2>2. OnlyItems(s, data, t, data', q, u)
    BY <1>1, <1>4, <2>1 DEF OnlyItems
  <2>3. Held(data', t) = [Held(data, s) EXCEPT ![q] = Values(data', u)]
    BY <2>2, HeldUpdate
  <2> QED BY <2>1, <2>3 DEF u
<1> QED BY <1>2, <1>5, <1>6 DEF Held

(* The elements of one queue. *)
LEMMA ItemsOf ==
  ASSUME TypeOK, NEW s, Shape(front, back, next, open, allocated, s), NEW q \in Queues
  PROVE  /\ QItems[q] = Values(data, s[q]) /\ QItems[q] \in Seq(Value)
         /\ s[q] \in Seq(Node) /\ Len(QItems[q]) = Len(s[q])
         /\ \A i \in 1..Len(s[q]) : QItems[q][i] = data[s[q][i]]
         /\ QItems[q] = <<>> <=> s[q] = <<>>
         /\ QItems = [r \in Queues |-> QItems[r]]
<1>1. QItems[q] = Values(data, s[q])
  BY ItemsAre DEF Held
<1>2. s[q] \in Seq(Node)
  BY ShapeOf
<1>3. data \in [Node -> Value]
  BY DEF TypeOK, Value
<1>4. QItems = [r \in Queues |-> QItems[r]]
  BY DEF QItems
<1> QED BY <1>1, <1>2, <1>3, <1>4, ValuesSeq

(* Each operation of queue.c is that of the abstract queue. *)
LEMMA FifoGet ==
  ASSUME TypeOK, NEW s, Shape(front, back, next, open, allocated, s), NEW q \in open, qget(q)
  PROVE  Fifo!Get(q)
<1> q \in Queues
  BY DEF TypeOK
<1>1. Empty(q) <=> s[q] = <<>>
  BY ShapeOf
<1>2. CASE s[q] = <<>>
  <2>1. /\ result' = NULL /\ UNCHANGED <<open, front, back, data, next, allocated, fault>>
    BY <1>1, <1>2 DEF qget, Return
  <2>2. QItems[q] = <<>>
    BY <1>2, ItemsOf
  <2>3. QItems' = QItems
    <3>1. Shape(front', back', next', open', allocated', s)
      BY <2>1
    <3> QED BY <2>1, <3>1, ItemsAre, NextItemsAre
  <2> QED BY <2>1, <2>2, <2>3 DEF Fifo!Get, Fifo!Answer, QItems
<1>3. CASE s[q] # <<>>
  <2>1. /\ Shape(front', back', next', open', allocated', [s EXCEPT ![q] = RemoveAt(s[q], 1)])
        /\ data' = [n \in Node |-> IF n = s[q][1] THEN NULL ELSE data[n]]
        /\ result' = data[s[q][1]]
        /\ UNCHANGED open
    BY <1>3, GetShape
  <2>2. 1 \in 1..Len(s[q])
    BY <1>3, ItemsOf, LenProperties, EmptySeq
  <2>3. QItems' = [QItems EXCEPT ![q] = RemoveAt(QItems[q], 1)]
    BY <2>1, <2>2, RemoveItems
  <2> DEFINE x == QItems[q]
  <2>4. /\ x \in Seq(Value) /\ x # <<>> /\ x[1] = data[s[q][1]]
    BY <1>3, <2>2, ItemsOf
  <2>5. RemoveAt(x, 1) = Tail(x) /\ Head(x) = x[1]
    <3> HIDE DEF x
    <3>1. SubSeq(x, 1, 1 - 1) = <<>>
      BY <2>4
    <3>2. SubSeq(x, 1 + 1, Len(x)) = Tail(x)
      BY <2>4, TailIsSubSeq
    <3>3. Tail(x) \in Seq(Value)
      BY <2>4, HeadTailProperties
    <3>4. <<>> \o Tail(x) = Tail(x)
      BY <3>3, ConcatEmptySeq
    <3> QED BY <2>4, <3>1, <3>2, <3>4 DEF RemoveAt
  <2>6. QItems' = [QItems EXCEPT ![q] = Tail(QItems[q])] /\ result' = Head(QItems[q]) /\ QItems[q] # <<>>
    BY <2>1, <2>3, <2>4, <2>5
  <2> QED BY <2>1, <2>6 DEF Fifo!Get, Fifo!Answer, QItems
<1> QED BY <1>2, <1>3

(* qclose empties the abstract queue. *)
LEMMA FifoClose ==
  ASSUME TypeOK, NEW s, Shape(front, back, next, open, allocated, s), NEW q \in open, qclose(q)
  PROVE  Fifo!Close(q)
<1> q \in Queues
  BY DEF TypeOK
<1> DEFINE t == [s EXCEPT ![q] = <<>>]
<1>1. Shape(front', back', next', open', allocated', t)
  BY CloseShape
<1>2. data' = [n \in Node |-> IF n \in ToSet(s[q]) THEN NULL ELSE data[n]]
  BY ShapeOf DEF qclose, free
<1>3. KeepsOthers(data, data', s, q)
  <2>1. \A n : n \in ToSet(s[q]) <=> Contains(s[q], n)
    BY ShapeOf, LenProperties DEF ToSet, Contains
  <2> QED BY <1>2, <2>1 DEF Shape, KeepsOthers, Keeps
<1>4. OnlyItems(s, data, t, data', q, <<>>)
  BY <1>3 DEF OnlyItems, Shape
<1> HIDE DEF t
<1>5. QItems' = [QItems EXCEPT ![q] = Values(data', <<>>)]
  BY <1>1, <1>4, HeldUpdate, ItemsAre, NextItemsAre
<1>6. Values(data', <<>>) = <<>>
  BY DEF Values
<1>7. open' = open \ {q} /\ UNCHANGED result
  BY DEF qclose
<1> QED BY <1>5, <1>6, <1>7 DEF Fifo!Close, QItems

(* qput puts the element last. *)
LEMMA FifoPut ==
  ASSUME TypeOK, NEW s, Shape(front, back, next, open, allocated, s),
         NEW q \in open, NEW e \in Elements, NEW n \in Node \ allocated, PutInto(q, e, s, n)
  PROVE  Fifo!Put(q, e)
<1>1. QItems' = [QItems EXCEPT ![q] = Append(QItems[q], e)]
  BY PutItems
<1>2. result' = "0" /\ UNCHANGED open
  BY DEF PutInto
<1> QED BY <1>1, <1>2 DEF Fifo!Put, Fifo!Answer, QItems

(* The search finds what the abstract queue contains. *)
LEMMA FifoContains ==
  ASSUME TypeOK, NEW s, Shape(front, back, next, open, allocated, s), NEW q \in Queues, NEW e
  PROVE  /\ FirstMatch(q, e) = 0 <=> ~Contains(QItems[q], e)
         /\ FirstMatch(q, e) # 0 => /\ FirstMatch(q, e) \in 1..Len(s[q])
                                    /\ data[s[q][FirstMatch(q, e)]] = e
         /\ RemoveFirst(QItems[q], e) = IF FirstMatch(q, e) = 0 THEN QItems[q]
                                        ELSE RemoveAt(QItems[q], FirstMatch(q, e))
<1>1. /\ Chain(q) = s[q] /\ s[q] \in Seq(Node)
      /\ Len(QItems[q]) = Len(s[q]) /\ \A i \in 1..Len(s[q]) : QItems[q][i] = data[s[q][i]]
  BY ShapeOf, ItemsOf
<1>2. \/ FirstMatch(q, e) = 0 /\ \A i \in 1..Len(s[q]) : data[s[q][i]] # e
      \/ FirstMatch(q, e) \in 1..Len(s[q]) /\ data[s[q][FirstMatch(q, e)]] = e
  BY <1>1, FirstMatchIs
<1>3. Len(s[q]) \in Nat
  BY <1>1, LenProperties
<1>4. FirstMatch(q, e) = 0 <=> ~Contains(QItems[q], e)
  BY <1>1, <1>2, <1>3 DEF Contains
<1>5. SelectInSeq(QItems[q], LAMBDA v : v = e) = FirstMatch(q, e)
  <2>1. {i \in 1..Len(QItems[q]) : QItems[q][i] = e} = {i \in 1..Len(Chain(q)) : data[Chain(q)[i]] = e}
    BY <1>1
  <2> QED BY <2>1 DEF SelectInSeq, FirstMatch, search_pcb
<1>6. Contains(QItems[q], e) <=> \E i \in 1..Len(QItems[q]) : QItems[q][i] = e
  BY DEF Contains
<1>7. RemoveFirst(QItems[q], e) = IF Contains(QItems[q], e) THEN RemoveAt(QItems[q], FirstMatch(q, e)) ELSE QItems[q]
  BY <1>5, <1>6 DEF RemoveFirst
<1> QED BY <1>2, <1>3, <1>4, <1>7

(* qsearch answers whether the abstract queue contains the element. *)
LEMMA FifoSearch ==
  ASSUME TypeOK, NEW s, Shape(front, back, next, open, allocated, s),
         NEW q \in open, NEW e \in Elements, qsearch(q, e)
  PROVE  Fifo!Search(q, e)
<1> q \in Queues
  BY DEF TypeOK
<1>1. Chain(q) = s[q]
  BY ShapeOf
<1>2. UNCHANGED <<open, front, back, data, next, allocated>>
  BY DEF qsearch
<1>3. QItems' = QItems
  <2>1. Shape(front', back', next', open', allocated', s)
    BY <1>2
  <2> QED BY <1>2, <2>1, ItemsAre, NextItemsAre
<1>4. result' = IF Contains(QItems[q], e) THEN e ELSE NULL
  <2>1. result' = IF FirstMatch(q, e) = 0 THEN NULL ELSE data[s[q][FirstMatch(q, e)]]
    BY <1>1 DEF qsearch, Return
  <2> QED BY <2>1, FifoContains
<1>5. Contains(QItems[q], e) <=> Fifo!Contains(QItems[q], e)
  BY DEF Contains, Fifo!Contains
<1>6. result' = IF Fifo!Contains(QItems[q], e) THEN e ELSE NULL
  BY <1>4, <1>5
<1> QED BY <1>2, <1>3, <1>6 DEF Fifo!Search, Fifo!Answer, QItems

(* qremove takes the first match out of the abstract queue. *)
LEMMA FifoRemove ==
  ASSUME TypeOK, NEW s, Shape(front, back, next, open, allocated, s),
         NEW q \in open, NEW e \in Elements, qremove(q, e)
  PROVE  Fifo!Take(q, e)
<1> q \in Queues
  BY DEF TypeOK
<1> DEFINE k == FirstMatch(q, e)
<1>1. /\ k = 0 <=> ~Contains(QItems[q], e)
      /\ k # 0 => k \in 1..Len(s[q]) /\ data[s[q][k]] = e
      /\ RemoveFirst(QItems[q], e) = IF k = 0 THEN QItems[q] ELSE RemoveAt(QItems[q], k)
  BY FifoContains
<1>2. /\ QItems' = [QItems EXCEPT ![q] = RemoveFirst(QItems[q], e)]
      /\ result' = IF Contains(QItems[q], e) THEN e ELSE NULL
      /\ UNCHANGED open
  <2>1. CASE k = 0
    <3>1. /\ result' = NULL /\ UNCHANGED <<open, front, back, data, next, allocated>>
      BY <2>1 DEF qremove, Return
    <3>2. Shape(front', back', next', open', allocated', s)
      BY <3>1
    <3>3. QItems' = QItems
      BY <3>1, <3>2, ItemsAre, NextItemsAre
    <3>4. QItems = [r \in Queues |-> QItems[r]]
      BY ItemsOf
    <3>5. [QItems EXCEPT ![q] = QItems[q]] = QItems
      BY <3>4
    <3> QED BY <1>1, <2>1, <3>1, <3>3, <3>5
  <2>2. CASE k # 0
    <3>1. /\ Shape(front', back', next', open', allocated', [s EXCEPT ![q] = RemoveAt(s[q], k)])
          /\ data' = [n \in Node |-> IF n = s[q][k] THEN NULL ELSE data[n]]
          /\ result' = data[s[q][k]] /\ UNCHANGED open
      BY <2>2, RemoveShape
    <3> HIDE DEF k
    <3>2. QItems' = [QItems EXCEPT ![q] = RemoveAt(QItems[q], k)]
      BY <1>1, <2>2, <3>1, RemoveItems
    <3> QED BY <1>1, <2>2, <3>1, <3>2
  <2> QED BY <2>1, <2>2
<1>3. Contains(QItems[q], e) <=> Fifo!Contains(QItems[q], e)
  BY DEF Contains, Fifo!Contains
<1>4. RemoveFirst(QItems[q], e) = Fifo!RemoveFirst(QItems[q], e)
  BY DEF RemoveFirst, Fifo!RemoveFirst, RemoveAt, Fifo!RemoveAt, SelectInSeq, Fifo!SelectInSeq, Min, Fifo!Min
<1>5. /\ QItems' = [QItems EXCEPT ![q] = Fifo!RemoveFirst(QItems[q], e)]
      /\ result' = IF Fifo!Contains(QItems[q], e) THEN e ELSE NULL
  BY <1>2, <1>3, <1>4
<1> QED BY <1>2, <1>5 DEF Fifo!Take, Fifo!Answer, QItems

(* qconcat appends the second abstract queue to the first. *)
LEMMA FifoConcat ==
  ASSUME TypeOK, NEW s, Shape(front, back, next, open, allocated, s),
         NEW q1 \in open, NEW q2 \in open \ {q1}, NEW copy \in Seq(Node),
         ConcatInto(q1, q2, s, copy)
  PROVE  Fifo!Concat(q1, q2)
<1> q1 \in Queues /\ q2 \in Queues /\ q1 # q2
  BY DEF TypeOK
<1>0. /\ s[q2] # <<>> /\ Len(copy) = Len(s[q2])
      /\ Shape(front', back', next', open', allocated',
               [s EXCEPT ![q1] = s[q1] \o copy, ![q2] = <<>>])
      /\ data' \in [Node -> Elements \cup {NULL}]
      /\ \A i \in 1..Len(copy) : data'[copy[i]] = data[s[q2][i]]
      /\ \A n \in allocated : ~Contains(s[q2], n) => data'[n] = data[n]
      /\ open' = open \ {q2} /\ UNCHANGED result
  BY DEF ConcatInto
<1>1. /\ s \in [Queues -> Seq(Node)] /\ s[q1] \in Seq(Node) /\ s[q2] \in Seq(Node)
      /\ data \in [Node -> Value] /\ data' \in [Node -> Value]
  BY <1>0 DEF Shape, TypeOK, Value
<1>2. \A r \in Queues \ {q2} : \A n \in Node : Contains(s[r], n) => data'[n] = data[n]
  <2>1. \A r \in Queues \ {q2} : \A n \in Node : Contains(s[r], n) => n \in allocated /\ ~Contains(s[q2], n)
    BY DEF Shape
  <2> QED BY <1>0, <2>1
<1> DEFINE t2 == [s EXCEPT ![q2] = <<>>]
           u == s[q1] \o copy
           t == [t2 EXCEPT ![q1] = u]
<1>3. t = [s EXCEPT ![q1] = s[q1] \o copy, ![q2] = <<>>]
  BY <1>1
<1>4. QItems = Held(data, s) /\ QItems' = Held(data', t)
  BY <1>0, <1>3, ItemsAre, NextItemsAre
<1>5. Held(data', t2) = [Held(data, s) EXCEPT ![q2] = Values(data', <<>>)]
  <2>1. KeepsOthers(data, data', s, q2)
    BY <1>2 DEF KeepsOthers, Keeps
  <2>2. OnlyItems(s, data, t2, data', q2, <<>>)
    BY <1>1, <2>1 DEF OnlyItems
  <2> HIDE DEF t2
  <2> QED BY <2>2, HeldUpdate
<1>6. Held(data', t) = [Held(data', t2) EXCEPT ![q1] = Values(data', u)]
  <2>1. KeepsOthers(data', data', t2, q1)
    BY DEF KeepsOthers, Keeps
  <2>2. t2 \in [Queues -> Seq(Node)]
    BY <1>1
  <2>3. t = [t2 EXCEPT ![q1] = u]
    OBVIOUS
  <2> HIDE DEF t, t2, u
  <2>4. OnlyItems(t2, data', t, data', q1, u)
    BY <2>1, <2>2, <2>3 DEF OnlyItems
  <2> QED BY <2>4, HeldUpdate
<1>7. Values(data', <<>>) = <<>>
  BY DEF Values
<1>8. Values(data', u) = Values(data, s[q1]) \o Values(data, s[q2])
  <2> DEFINE c1 == s[q1]
             c2 == s[q2]
  <2>1. Copied(data, data', c1, c2, copy)
    BY <1>0, <1>1, <1>2 DEF Copied, Keeps
  <2> HIDE DEF c1, c2
  <2>2. Values(data', c1 \o copy) = Values(data, c1) \o Values(data, c2)
    BY <2>1, ValuesConcat
  <2> QED BY <2>2 DEF c1, c2
<1> HIDE DEF t, t2, u
<1>9. Values(data, s[q1]) = QItems[q1] /\ Values(data, s[q2]) = QItems[q2] /\ QItems[q2] # <<>>
  BY <1>0, ItemsOf
<1>10. QItems' = [[QItems EXCEPT ![q2] = <<>>] EXCEPT ![q1] = QItems[q1] \o QItems[q2]]
  BY <1>4, <1>5, <1>6, <1>7, <1>8, <1>9
<1>11. QItems = [r \in Queues |-> QItems[r]]
  BY ItemsOf
<1> DEFINE I == QItems
           J == QItems'
<1>12. /\ J = [[I EXCEPT ![q2] = <<>>] EXCEPT ![q1] = I[q1] \o I[q2]]
       /\ I = [r \in Queues |-> I[r]]
  BY <1>10, <1>11
<1> HIDE DEF I, J
<1>13. J = [I EXCEPT ![q1] = I[q1] \o I[q2], ![q2] = <<>>]
  BY <1>12
<1>14. /\ QItems' = [QItems EXCEPT ![q1] = QItems[q1] \o QItems[q2], ![q2] = <<>>]
       /\ open' = open \ {q2}
  BY <1>0, <1>9, <1>13 DEF I, J
<1>15. UNCHANGED result
  BY <1>0
<1> QED BY <1>14, <1>15 DEF Fifo!Concat, QItems

(* Appending an abstract queue without elements changes no elements. *)
LEMMA FifoConcatEmpty ==
  ASSUME TypeOK, NEW s, Shape(front, back, next, open, allocated, s),
         NEW q1 \in open, NEW q2 \in open \ {q1}, s[q2] = <<>>, Leaking(q2)
  PROVE  Fifo!Concat(q1, q2)
<1> q1 \in Queues /\ q2 \in Queues /\ q1 # q2
  BY DEF TypeOK
<1>1. UNCHANGED <<front, back, data, next, allocated, result>> /\ open' = open \ {q2}
  BY DEF Leaking
<1>2. Shape(front', back', next', open', allocated', s)
  BY <1>1 DEF Shape
<1>3. QItems' = QItems
  BY <1>1, <1>2, ItemsAre, NextItemsAre
<1>4. /\ QItems = [r \in Queues |-> QItems[r]] /\ QItems[q2] = <<>>
      /\ QItems[q1] \in Seq(Value)
  BY ItemsOf
<1>5. QItems[q1] \o QItems[q2] = QItems[q1]
  BY <1>4, ConcatEmptySeq
<1> DEFINE I == QItems
           J == QItems'
<1>6. /\ J = I /\ I = [r \in Queues |-> I[r]]
      /\ I[q1] \o I[q2] = I[q1] /\ I[q2] = <<>>
  BY <1>3, <1>4, <1>5
<1> HIDE DEF I, J
<1>7. J = [I EXCEPT ![q1] = I[q1] \o I[q2], ![q2] = <<>>]
  BY <1>6
<1>8. QItems' = [QItems EXCEPT ![q1] = QItems[q1] \o QItems[q2], ![q2] = <<>>]
  BY <1>7 DEF I, J
<1> QED BY <1>1, <1>8 DEF Fifo!Concat, QItems

(* A step of queue.c is a step of the abstract queue, or changes nothing   *)
(* that can be seen of it.                                                 *)
LEMMA FifoStep ==
  ASSUME QueueInv, [Next]_vars
  PROVE  Fifo!FifoNext \/ UNCHANGED <<open, QItems, result>>
<1>1. TypeOK /\ open \subseteq Queues
  BY DEF QueueInv, TypeOK
<1>2. PICK s : Shape(front, back, next, open, allocated, s)
  BY DEF QueueInv
<1>3. CASE UNCHANGED <<front, back, data, next, allocated, open, result>>
  <2>1. Shape(front', back', next', open', allocated', s)
    BY <1>2, <1>3
  <2>2. QItems' = QItems
    BY <1>2, <1>3, <2>1, ItemsAre, NextItemsAre
  <2> QED BY <1>3, <2>2
<1>4. CASE UNCHANGED vars
  BY <1>3, <1>4 DEF vars
<1>5. ASSUME NEW q \in Queues, qopen(q)
      PROVE  Fifo!FifoNext
  <2>1. Shape(front', back', next', open', allocated', s)
    BY <1>1, <1>2, <1>5, OpenShape
  <2>2. UNCHANGED <<data, result>> /\ q \notin open /\ open' = open \cup {q}
    BY <1>5 DEF qopen
  <2>3. QItems' = QItems
    BY <1>2, <2>1, <2>2, ItemsAre, NextItemsAre
  <2>4. Fifo!Open(q)
    BY <2>2, <2>3 DEF Fifo!Open, QItems
  <2> QED BY <2>4 DEF Fifo!FifoNext
<1>6. ASSUME NEW q \in open, qclose(q)
      PROVE  Fifo!FifoNext
  <2>1. Fifo!Close(q)
    BY <1>1, <1>2, <1>6, FifoClose
  <2> QED BY <2>1 DEF Fifo!FifoNext
<1>7. ASSUME NEW q \in open, qget(q)
      PROVE  Fifo!FifoNext
  <2>1. Fifo!Get(q)
    BY <1>1, <1>2, <1>7, FifoGet
  <2> QED BY <2>1 DEF Fifo!FifoNext
<1>8. ASSUME NEW q \in open, qisempty(q)
      PROVE  Fifo!FifoNext
  <2>1. UNCHANGED <<open, front, back, data, next, allocated>>
    BY <1>8 DEF qisempty
  <2>2. Shape(front', back', next', open', allocated', s)
    BY <1>2, <2>1
  <2>3. QItems' = QItems
    BY <1>2, <2>1, <2>2, ItemsAre, NextItemsAre
  <2>4. (QItems[q] = <<>> <=> s[q] = <<>>) /\ (Empty(q) <=> s[q] = <<>>)
    BY <1>1, <1>2, ItemsOf, ShapeOf
  <2>5. result' = IF QItems[q] = <<>> THEN "true" ELSE "false"
    BY <1>8, <2>4 DEF qisempty, Return
  <2>6. Fifo!IsEmpty(q)
    BY <2>1, <2>3, <2>5 DEF Fifo!IsEmpty, Fifo!Answer, QItems
  <2> QED BY <2>6 DEF Fifo!FifoNext
<1>9. ASSUME fault = "none", NEW q \in open, NEW e \in Elements, qput(q, e)
      PROVE  Fifo!FifoNext \/ UNCHANGED <<open, QItems, result>>
  <2>1. CASE fault' = "null" /\ UNCHANGED <<open, front, back, data, next, allocated, result>>
    BY <1>3, <2>1
  <2>2. ASSUME NEW n \in Node \ allocated, PutInto(q, e, s, n)
        PROVE  Fifo!FifoNext
    <3>1. Fifo!Put(q, e)
      BY <1>1, <1>2, <2>2, FifoPut
    <3> QED BY <3>1 DEF Fifo!FifoNext
  <2>3. \/ fault' = "null" /\ UNCHANGED <<open, front, back, data, next, allocated, result>>
        \/ \E n \in Node \ allocated : PutInto(q, e, s, n)
    BY <1>1, <1>2, <1>9, PutShape
  <2> QED BY <2>1, <2>2, <2>3
<1>10. ASSUME NEW q \in open, NEW e \in Elements, qsearch(q, e)
       PROVE  Fifo!FifoNext
  <2>1. Fifo!Search(q, e)
    BY <1>1, <1>2, <1>10, FifoSearch
  <2> QED BY <2>1 DEF Fifo!FifoNext
<1>11. ASSUME NEW q \in open, NEW e \in Elements, qremove(q, e)
       PROVE  Fifo!FifoNext
  <2>1. Fifo!Take(q, e)
    BY <1>1, <1>2, <1>11, FifoRemove
  <2> QED BY <2>1 DEF Fifo!FifoNext
<1>12. ASSUME fault = "none", NEW q1 \in open, NEW q2 \in open \ {q1}, qconcat(q1, q2)
       PROVE  Fifo!FifoNext \/ UNCHANGED <<open, QItems, result>>
  <2>1. CASE s[q2] = <<>> /\ Leaking(q2)
    <3>1. Fifo!Concat(q1, q2)
      BY <1>1, <1>2, <2>1, FifoConcatEmpty
    <3> QED BY <3>1 DEF Fifo!FifoNext
  <2>2. CASE fault' = "null" /\ UNCHANGED <<open, front, back, data, next, allocated, result>>
    BY <1>3, <2>2
  <2>3. ASSUME NEW copy \in Seq(Node), ConcatInto(q1, q2, s, copy)
        PROVE  Fifo!FifoNext
    <3>1. Fifo!Concat(q1, q2)
      BY <1>1, <1>2, <2>3, FifoConcat
    <3> QED BY <3>1 DEF Fifo!FifoNext
  <2>4. \/ s[q2] = <<>> /\ Leaking(q2)
        \/ fault' = "null" /\ UNCHANGED <<open, front, back, data, next, allocated, result>>
        \/ \E copy \in Seq(Node) : ConcatInto(q1, q2, s, copy)
    BY <1>1, <1>2, <1>12, ConcatShape
  <2> QED BY <2>1, <2>2, <2>3, <2>4
<1> QED BY <1>4, <1>5, <1>6, <1>7, <1>8, <1>9, <1>10, <1>11, <1>12 DEF Next

(* The linked queues of queue.c are first-in first-out queues with removal:*)
(* they implement the abstract queue, step for step.                       *)
THEOREM FifoCorrect == Spec => ImplementsFifo
<1>1. Init => Fifo!FifoInit
  <2> SUFFICES ASSUME Init
               PROVE  Fifo!FifoInit
    OBVIOUS
  <2>1. \A q \in Queues : Links(front[q], back[q], next, <<>>)
    BY LinksNone DEF Init
  <2>2. \A q \in Queues : Chain(q) = <<>>
    BY <2>1, ChainIs
  <2>3. QItems = [q \in Queues |-> <<>>]
    BY <2>2 DEF QItems
  <2> QED BY <2>3 DEF Init, Fifo!FifoInit, QItems
<1>2. QueueInv /\ [Next]_vars =>
        [Fifo!FifoNext]_<<open, [q \in Queues |-> [i \in DOMAIN Chain(q) |-> data[Chain(q)[i]]]], result>>
  BY FifoStep DEF QItems
<1> QED BY <1>1, <1>2, QueueAlways, PTL DEF Spec, ImplementsFifo, Fifo!FifoSpec
=============================================================================
