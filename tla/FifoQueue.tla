----------------------------- MODULE FifoQueue -----------------------------
(***************************************************************************)
(* What the queues of queue.h promise their callers: first in, first out,  *)
(* with search and removal of the first element that matches.  One line of *)
(* queue.h is not followed: qisempty is said to return 0 if the queue is   *)
(* empty (queue.h:64), and its callers rely on it returning true then, as  *)
(* the comment in queue.c says (queue.c:276).                              *)
(***************************************************************************)
EXTENDS Naturals, Sequences, SequencesExt

CONSTANTS Queues, Elements, Nothing

VARIABLES open,     \* the queues a caller may use
          items,    \* their elements, oldest first
          answer    \* what the last operation returned

Answer(x) == answer' = x

FifoInit == open = {} /\ items = [q \in Queues |-> <<>>] /\ answer = Nothing

Open(q) ==
  /\ q \notin open
  /\ open' = open \cup {q} /\ UNCHANGED <<items, answer>>

Close(q) ==
  /\ open' = open \ {q} /\ items' = [items EXCEPT ![q] = <<>>] /\ UNCHANGED answer

Put(q, e) == items' = [items EXCEPT ![q] = Append(@, e)] /\ Answer("0") /\ UNCHANGED open

Get(q) ==
  IF items[q] = <<>> THEN Answer(Nothing) /\ UNCHANGED <<open, items>>
  ELSE /\ items' = [items EXCEPT ![q] = Tail(@)]
       /\ Answer(Head(items[q])) /\ UNCHANGED open

Search(q, e) ==
  /\ Answer(IF Contains(items[q], e) THEN e ELSE Nothing)
  /\ UNCHANGED <<open, items>>

Take(q, e) ==
  /\ items' = [items EXCEPT ![q] = RemoveFirst(@, e)]
  /\ Answer(IF Contains(items[q], e) THEN e ELSE Nothing)
  /\ UNCHANGED open

IsEmpty(q) == Answer(IF items[q] = <<>> THEN "true" ELSE "false") /\ UNCHANGED <<open, items>>

(* Afterwards r is `deallocated, closed, and unusable'.                    *)
Concat(q, r) ==
  /\ items' = [items EXCEPT ![q] = @ \o items[r], ![r] = <<>>]
  /\ open' = open \ {r} /\ UNCHANGED answer

FifoNext ==
  \/ \E q \in Queues : Open(q)
  \/ \E q \in open : Close(q) \/ Get(q) \/ IsEmpty(q)
  \/ \E q \in open, e \in Elements : Put(q, e) \/ Search(q, e) \/ Take(q, e)
  \/ \E q \in open : \E r \in open \ {q} : Concat(q, r)

FifoSpec == FifoInit /\ [][FifoNext]_<<open, items, answer>>
=============================================================================
