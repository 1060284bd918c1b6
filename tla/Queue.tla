------------------------------- MODULE Queue -------------------------------
(***************************************************************************)
(* The linked queues of queue.c, down to the nodes: a queue holds pointers *)
(* to its first and last node, a node an element and the next node.  malloc*)
(* hands out any node that is free, in particular one just freed, and      *)
(* fails when none is left; freeing a node leaves dangling whatever still  *)
(* points to it.  `fault' records the first access through a bad pointer.  *)
(* The calls are those of a caller that keeps to queue.h: it uses a queue  *)
(* from qopen to qclose, or until it is the second queue of a qconcat.     *)
(***************************************************************************)
EXTENDS Naturals, Sequences, FiniteSets, SequencesExt, Functions

CONSTANTS Queues, Elements, Node, NULL

ASSUME QueueAssumption == NULL \notin Node /\ NULL \notin Elements /\ IsFiniteSet(Node)

VARIABLES
  open,          \* the queues a caller may use
  leaked,        \* queue_t's that stay allocated though no caller may use them
  front, back,   \* fields of a queue_t
  data, next,    \* fields of a node_t
  allocated,     \* the nodes malloc has handed out
  result,        \* what the last operation returned
  fault          \* "none", "null" or "freed": the kind of the first bad access

vars == <<open, leaked, front, back, data, next, allocated, result, fault>>

Pointer == Node \cup {NULL}
Empty(q) == front[q] = NULL

(* The nodes a loop from front visits. *)
Chain(q) ==
  LET node[k \in 1..Cardinality(Node)] ==
        IF k = 1 THEN front[q] ELSE IF node[k-1] = NULL THEN NULL ELSE next[node[k-1]]
  IN SubSeq(node, 1, Cardinality({k \in DOMAIN node : node[k] # NULL}))

(* The position in Chain(q) of the first element the search function of    *)
(* the caller matches, or 0; search_pcb compares for equality.             *)
search_pcb(element, key) == element = key
FirstMatch(q, key) == SelectInSeq(Chain(q), LAMBDA n : search_pcb(data[n], key))

Access(ptr) ==
  fault' = IF ptr = NULL THEN "null" ELSE IF ptr \notin allocated THEN "freed" ELSE fault

free(nodes) ==
  /\ allocated' = allocated \ nodes
  /\ data' = [n \in Node |-> IF n \in nodes THEN NULL ELSE data[n]]

Return(x) == result' = x
----------------------------------------------------------------------------
Init ==
  /\ open = {} /\ leaked = {}
  /\ front = [q \in Queues |-> NULL] /\ back = [q \in Queues |-> NULL]
  /\ data = [n \in Node |-> NULL] /\ next = [n \in Node |-> NULL]
  /\ allocated = {}
  /\ result = NULL /\ fault = "none"

qopen(q) ==
  /\ q \notin open \cup leaked
  /\ open' = open \cup {q}
  /\ front' = [front EXCEPT ![q] = NULL] /\ back' = [back EXCEPT ![q] = NULL]
  /\ UNCHANGED <<leaked, data, next, allocated, result, fault>>

(* Wrong: the loop ends one node early. *)
qcloseButLast(q) ==
  LET nodes == ToSet(Chain(q)) \ {back[q]} IN
  /\ open' = open \ {q}
  /\ free(nodes)
  /\ front' = [front EXCEPT ![q] = NULL] /\ back' = [back EXCEPT ![q] = NULL]
  /\ next' = [n \in Node |-> IF n \in nodes THEN NULL ELSE next[n]]
  /\ UNCHANGED <<leaked, result, fault>>
qclose(q) ==
  LET nodes == ToSet(Chain(q)) IN
  /\ open' = open \ {q}
  /\ free(nodes)
  /\ front' = [front EXCEPT ![q] = NULL] /\ back' = [back EXCEPT ![q] = NULL]
  /\ next' = [n \in Node |-> IF n \in nodes THEN NULL ELSE next[n]]
  /\ UNCHANGED <<leaked, result, fault>>

(* qput writes through the pointer malloc returned without looking at it.  *)
qput(q, e) ==
  \/ /\ Node \subseteq allocated
     /\ Access(NULL)
     /\ UNCHANGED <<open, leaked, front, back, data, next, allocated, result>>
  \/ \E element \in Node \ allocated :
       /\ allocated' = allocated \cup {element}
       /\ data' = [data EXCEPT ![element] = e]
       /\ back' = [back EXCEPT ![q] = element]
       /\ IF Empty(q)
          THEN /\ front' = [front EXCEPT ![q] = element]
               /\ next' = [next EXCEPT ![element] = NULL]
               /\ UNCHANGED fault
          ELSE /\ next' = [next EXCEPT ![back[q]] = element, ![element] = NULL]
               /\ Access(back[q])
               /\ UNCHANGED front
       /\ Return("0")
       /\ UNCHANGED <<open, leaked>>

(* Wrong: the node is returned, not the element in it. *)
qgetNode(q) ==
  \/ /\ Empty(q) /\ Return(NULL)
     /\ UNCHANGED <<open, leaked, front, back, data, next, allocated, fault>>
  \/ /\ ~Empty(q) /\ Return(front[q])
     /\ front' = [front EXCEPT ![q] = next[front[q]]]
     /\ free({front[q]})
     /\ next' = [next EXCEPT ![front[q]] = NULL]
     /\ UNCHANGED <<open, leaked, back, fault>>
(* qget leaves back alone, dangling when it takes the last node. *)
qget(q) ==
  \/ /\ Empty(q) /\ Return(NULL)
     /\ UNCHANGED <<open, leaked, front, back, data, next, allocated, fault>>
  \/ /\ ~Empty(q) /\ Return(data[front[q]])
     /\ front' = [front EXCEPT ![q] = next[front[q]]]
     /\ free({front[q]})
     /\ next' = [next EXCEPT ![front[q]] = NULL]
     /\ UNCHANGED <<open, leaked, back, fault>>

qsearch(q, key) ==
  /\ Return(IF FirstMatch(q, key) = 0 THEN NULL ELSE data[Chain(q)[FirstMatch(q, key)]])
  /\ UNCHANGED <<open, leaked, front, back, data, next, allocated, fault>>

(* Wrong: back keeps pointing to the last node when that is removed.       *)
UnlinkKeepingBack(q, i) ==
  LET cnode == Chain(q)[i] IN
  IF i = 1
  THEN /\ front' = [front EXCEPT ![q] = IF @ = back[q] THEN NULL ELSE next[cnode]]
       /\ back' = IF front[q] = back[q] THEN [back EXCEPT ![q] = NULL] ELSE back
       /\ next' = [next EXCEPT ![cnode] = NULL]
  ELSE LET pnode == Chain(q)[i - 1] IN
       /\ next' = [next EXCEPT ![pnode] = next[cnode], ![cnode] = NULL]
       /\ UNCHANGED <<front, back>>
(* Unlink the i-th node of the queue: the only one, the first, the last or *)
(* one in the middle.                                                      *)
Unlink(q, i) ==
  LET cnode == Chain(q)[i] IN
  IF i = 1
  THEN /\ front' = [front EXCEPT ![q] = IF @ = back[q] THEN NULL ELSE next[cnode]]
       /\ back' = IF front[q] = back[q] THEN [back EXCEPT ![q] = NULL] ELSE back
       /\ next' = [next EXCEPT ![cnode] = NULL]
  ELSE LET pnode == Chain(q)[i - 1] IN
       /\ next' = [next EXCEPT ![pnode] = IF cnode = back[q] THEN NULL ELSE next[cnode],
                               ![cnode] = NULL]
       /\ back' = IF cnode = back[q] THEN [back EXCEPT ![q] = pnode] ELSE back
       /\ UNCHANGED front

qremove(q, key) ==
  \/ /\ FirstMatch(q, key) = 0 /\ Return(NULL)
     /\ UNCHANGED <<open, leaked, front, back, data, next, allocated, fault>>
  \/ LET i == FirstMatch(q, key) IN
     /\ i # 0 /\ Return(data[Chain(q)[i]])
     /\ Unlink(q, i)
     /\ free({Chain(q)[i]})
     /\ UNCHANGED <<open, leaked, fault>>

qisempty(q) ==
  /\ Return(IF Empty(q) THEN "true" ELSE "false")
  /\ UNCHANGED <<open, leaked, front, back, data, next, allocated, fault>>

(* Wrong: the nodes are appended in reverse.                               *)
MovedReversed(src, copy) == [i \in DOMAIN copy |-> data[src[Len(src) + 1 - i]]]
Moved(src, copy) == [i \in DOMAIN copy |-> data[src[i]]]

(* qconcat: one qput into q1 for each node of q2, whose nodes are freed by *)
(* qclose only after that.  An empty q2 is not closed: its caller may not  *)
(* use it any more (queue.h:60), but it stays allocated.  The puts that    *)
(* precede one that fails are not shown: a fault ends the run.             *)
qconcat(q1, q2) ==
  LET src == Chain(q2) IN
  \/ /\ Empty(q2)
     /\ open' = open \ {q2} /\ leaked' = leaked \cup {q2}
     /\ UNCHANGED <<front, back, data, next, allocated, result, fault>>
  \/ /\ ~Empty(q2) /\ Cardinality(Node \ allocated) < Len(src)
     /\ Access(NULL)
     /\ UNCHANGED <<open, leaked, front, back, data, next, allocated, result>>
  \/ \E copy \in [1..Len(src) -> Node \ allocated] :
       /\ ~Empty(q2) /\ IsInjective(copy)
       /\ open' = open \ {q2}
       /\ front' = [front EXCEPT ![q1] = IF Empty(q1) THEN copy[1] ELSE @, ![q2] = NULL]
       /\ back' = [back EXCEPT ![q1] = Last(copy), ![q2] = NULL]
       /\ allocated' = (allocated \cup ToSet(copy)) \ ToSet(src)
       /\ data' = [n \in Node |->
                     IF Contains(copy, n) THEN Moved(src, copy)[SelectInSeq(copy, LAMBDA m : m = n)]
                     ELSE IF Contains(src, n) THEN NULL ELSE data[n]]
       /\ next' = [n \in Node |->
                     IF Contains(copy, n) /\ n # Last(copy)
                       THEN copy[SelectInSeq(copy, LAMBDA m : m = n) + 1]
                     ELSE IF Contains(copy, n) \/ Contains(src, n) THEN NULL
                     ELSE IF ~Empty(q1) /\ n = back[q1] THEN copy[1]
                     ELSE next[n]]
       /\ IF Empty(q1) THEN UNCHANGED fault ELSE Access(back[q1])
       /\ UNCHANGED <<leaked, result>>

Next ==
  /\ fault = "none"
  /\ \/ \E q \in Queues : qopen(q)
     \/ \E q \in open : qclose(q) \/ qget(q) \/ qisempty(q)
     \/ \E q \in open, e \in Elements : qput(q, e) \/ qsearch(q, e) \/ qremove(q, e)
     \/ \E q1 \in open : \E q2 \in open \ {q1} : qconcat(q1, q2)

Spec == Init /\ [][Next]_vars
----------------------------------------------------------------------------
(* The queues and nodes keep their types; the answers are elements. *)
TypeOK ==
  /\ open \subseteq Queues /\ leaked \subseteq Queues \ open
  /\ front \in [Queues -> Pointer] /\ back \in [Queues -> Pointer]
  /\ data \in [Node -> Elements \cup {NULL}] /\ next \in [Node -> Pointer]
  /\ allocated \subseteq Node
  /\ result \in Elements \cup {NULL, "0", "true", "false"}
  /\ fault \in {"none", "null", "freed"}

(* No operation of queue.c follows a pointer to a freed node: not by       *)
(* walking a queue, and not through the dangling back that qget leaves.    *)
NoFreedAccess ==
  /\ fault # "freed"
  /\ \A q \in open : ToSet(Chain(q)) \subseteq allocated

(* The nodes in use are exactly those of the open queues, each in one      *)
(* place of one of them: no node is leaked, none is shared; and the last   *)
(* node of a queue is the one back points to.  What does leak is a queue_t *)
(* without a node, when qconcat returns early for an empty second queue.   *)
NodesAccountedFor ==
  /\ allocated = UNION {ToSet(Chain(q)) : q \in open}
  /\ \A q \in open : IsInjective(Chain(q)) /\ (~Empty(q) => back[q] = Last(Chain(q)))
  /\ \A q, r \in open : q # r => ToSet(Chain(q)) \cap ToSet(Chain(r)) = {}
  /\ \A q \in leaked : Empty(q)

(* To a caller the linked queues are the first-in first-out queues with    *)
(* search, removal and concatenation of queue.h.                           *)
Fifo == INSTANCE FifoQueue WITH
  Nothing <- NULL, answer <- result,
  items <- [q \in Queues |-> [i \in DOMAIN Chain(q) |-> data[Chain(q)[i]]]]

ImplementsFifo == Fifo!FifoSpec
=============================================================================
