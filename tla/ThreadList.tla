----------------------------- MODULE ThreadList -----------------------------
(***************************************************************************)
(* What main expects of the list of its threads: a sequence to which it    *)
(* appends, from which it takes the first, and along which it can walk,    *)
(* removing what it visits.  AesdSocket, with the linked list of           *)
(* ThreadQueue, implements this.                                           *)
(***************************************************************************)
EXTENDS Integers, Sequences

CONSTANTS
  Item,  \* what is put in the list
  NULL   \* no item

VARIABLES
  queue, \* the items, first to last
  node   \* the item the walk visits next, or NULL

vars == <<queue, node>>

Init == queue = <<>> /\ node = NULL

In(d) == \E i \in 1..Len(queue) : queue[i] = d

\* Appends an item that is not there yet, and starts a walk from the head.
Enqueue(d) ==
  /\ node = NULL
  /\ ~In(d)
  /\ queue' = Append(queue, d)
  /\ node' = Head(queue')

\* The walk goes on to the next item; the one it was at may be removed.
Visit(i) ==
  /\ queue[i] = node
  /\ node' = IF i = Len(queue) THEN NULL ELSE queue[i + 1]
  /\ queue' \in {queue, SubSeq(queue, 1, i - 1) \o SubSeq(queue, i + 1, Len(queue))}

Dequeue ==
  /\ node = NULL
  /\ queue # <<>>
  /\ queue' = Tail(queue)
  /\ UNCHANGED node

Next ==
  \/ \E d \in Item : Enqueue(d)
  \/ \E i \in 1..Len(queue) : Visit(i)
  \/ Dequeue

Spec == Init /\ [][Next]_vars
=============================================================================
