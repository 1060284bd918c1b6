---------------------------- MODULE ProcessTree ----------------------------
(***************************************************************************)
(* What fork, exit and wait promise a program, without queues, scheduler   *)
(* or kernel stacks: a tree of processes in which fork answers the child   *)
(* to the parent and 0 to the child, a child that exits before its parent  *)
(* stays a zombie until the parent collects it, each zombie is collected   *)
(* once, with the code it exited with, the oldest first, and a parent that *)
(* finds children but no zombie waits for one.                             *)
(***************************************************************************)
EXTENDS Integers, Sequences, SequencesExt

CONSTANTS Process, Root, Codes, Error, NoCode

VARIABLES state,    \* "unborn", "live", "waiting", "zombie" or "gone"
          parentOf,
          zombies,  \* the uncollected children of a process, oldest first
          code,     \* the code a zombie exited with
          answer    \* <<result of the last call, last exit code collected>>

tree == <<state, parentOf, zombies, code, answer>>

Alive(p)    == state[p] \in {"live", "waiting"}
Child(p, c) == parentOf[c] = p /\ Alive(c)

TreeInit ==
  /\ \E init \in Process \ {Root} :
       /\ state = [p \in Process |-> IF p \in {Root, init} THEN "live" ELSE "unborn"]
       /\ parentOf = [p \in Process |-> IF p = init THEN Root ELSE Error]
  /\ zombies = [p \in Process |-> <<>>]
  /\ code = [p \in Process |-> NoCode]
  /\ answer = [p \in Process |-> <<0, NoCode>>]

Fork(p, c) ==
  /\ state[p] = "live" /\ state[c] = "unborn"
  /\ state' = [state EXCEPT ![c] = "live"]
  /\ parentOf' = [parentOf EXCEPT ![c] = p]
  /\ answer' = [answer EXCEPT ![p][1] = c, ![c] = <<0, answer[p][2]>>]
  /\ UNCHANGED <<zombies, code>>

(* The zombies a process leaves behind are gone with it; its live children *)
(* go on without a parent, and are gone as soon as they exit.              *)
Exit(p, x) ==
  /\ state[p] = "live" /\ p # Root
  /\ LET kept == Alive(parentOf[p]) IN
     /\ state' = [q \in Process |->
                    IF q = p THEN IF kept THEN "zombie" ELSE "gone"
                    ELSE IF Contains(zombies[p], q) THEN "gone" ELSE state[q]]
     /\ zombies' = [q \in Process |->
                      IF q = p THEN <<>>
                      ELSE IF kept /\ q = parentOf[p] THEN Append(zombies[q], p)
                      ELSE zombies[q]]
     /\ code' = [code EXCEPT ![p] = IF kept THEN x ELSE NoCode]
  /\ UNCHANGED <<parentOf, answer>>

Collect(p) ==
  /\ Alive(p) /\ zombies[p] # <<>>
  /\ LET c == Head(zombies[p]) IN
     /\ answer' = [answer EXCEPT ![p] = <<c, code[c]>>]
     /\ state' = [state EXCEPT ![p] = "live", ![c] = "gone"]
  /\ zombies' = [zombies EXCEPT ![p] = Tail(@)]
  /\ UNCHANGED <<parentOf, code>>

Block(p) ==
  /\ state[p] = "live" /\ zombies[p] = <<>>
  /\ \E c \in Process : Child(p, c)
  /\ state' = [state EXCEPT ![p] = "waiting"]
  /\ UNCHANGED <<parentOf, zombies, code, answer>>

(* Wait fails only in a process with no child left. *)
NoChild(p) ==
  /\ state[p] = "live" /\ zombies[p] = <<>>
  /\ \A c \in Process : ~Child(p, c)
  /\ answer' = [answer EXCEPT ![p][1] = Error]
  /\ UNCHANGED <<state, parentOf, zombies, code>>

(* The calls that have nothing to do with the tree: getpid and delay. *)
Other(p) ==
  /\ state[p] = "live"
  /\ \E val \in {p, 0, Error} : answer' = [answer EXCEPT ![p][1] = val]
  /\ UNCHANGED <<state, parentOf, zombies, code>>

TreeNext ==
  \E p \in Process :
    \/ \E c \in Process : Fork(p, c)
    \/ \E x \in Codes : Exit(p, x)
    \/ Collect(p) \/ Block(p) \/ NoChild(p) \/ Other(p)

(* A process that waits for a child that has exited gets its answer. *)
TreeFairness ==
  \A p \in Process : WF_tree(state[p] = "waiting" /\ Collect(p))

TreeSpec == TreeInit /\ [][TreeNext]_tree /\ TreeFairness
=============================================================================
