---------------------------- MODULE ThreadQueue -----------------------------
(***************************************************************************)
(* The list of server/thread_queue.c: nodes of type node_t from malloc,    *)
(* linked by next, reached from the static variable head.  The list is a   *)
(* record [head, next, data, live], where live are the nodes that are      *)
(* allocated; the fields of a free node do not matter and are dropped.     *)
(* Only main uses the list, so that every function is one step.            *)
(***************************************************************************)
EXTENDS Integers, FiniteSets

CONSTANTS
  Node,  \* the blocks malloc has for nodes
  NULL   \* the null pointer

EmptyList ==
  [head |-> NULL, next |-> [n \in Node |-> NULL], data |-> [n \in Node |-> NULL],
   live |-> {}]

\* Where current is after each round of a loop that starts at head and goes
\* on to current->next.
Walk(list) ==
  LET current[i \in 0..Cardinality(Node)] ==
        IF i = 0 THEN list.head
        ELSE IF current[i - 1] = NULL THEN NULL ELSE list.next[current[i - 1]]
  IN  current

\* The nodes such a loop comes by, and the rounds it makes.
Rounds(list) == {i \in 0..Cardinality(Node) : Walk(list)[i] # NULL}
Reached(list) == {Walk(list)[i] : i \in Rounds(list)}

free_node(list, n) ==
  [list EXCEPT !.live = @ \ {n}, !.next[n] = NULL, !.data[n] = NULL]

\* Mutant of queue_enqueue: puts the new node in front.
Mut_queue_enqueue(list, new_node, data) ==
  [list EXCEPT !.live = @ \cup {new_node}, !.data[new_node] = data,
               !.next[new_node] = list.head, !.head = new_node]

\* new_node is the block malloc returned.
queue_enqueue(list, new_node, data) ==
  LET new  == [list EXCEPT !.live = @ \cup {new_node}, !.data[new_node] = data,
                           !.next[new_node] = NULL]
      last == CHOOSE n \in Reached(list) : list.next[n] = NULL
  IN  IF list.head = NULL THEN [new EXCEPT !.head = new_node]
                          ELSE [new EXCEPT !.next[last] = new_node]

\* The list is not empty; the data returned is that of its head.
queue_dequeue(list) ==
  free_node([list EXCEPT !.head = list.next[list.head]], list.head)

\* Mutant of queue_remove: does not close the gap before it frees the node.
Mut_queue_remove(list, data) ==
  LET hits == {i \in Rounds(list) : list.data[Walk(list)[i]] = data}
      at   == CHOOSE i \in hits : \A j \in hits : i <= j
      n    == Walk(list)[at]
  IN  IF hits = {} THEN list
      ELSE IF at = 0 THEN free_node([list EXCEPT !.head = list.next[n]], n)
      ELSE free_node(list, n)

queue_remove(list, data) ==
  LET hits == {i \in Rounds(list) : list.data[Walk(list)[i]] = data}
      at   == CHOOSE i \in hits : \A j \in hits : i <= j
      n    == Walk(list)[at]
      prev == Walk(list)[at - 1]
  IN  IF hits = {} THEN list
      ELSE IF at = 0 THEN free_node([list EXCEPT !.head = list.next[n]], n)
      ELSE free_node([list EXCEPT !.next[prev] = list.next[n]], n)

queue_get_head(list) == list.head

-----------------------------------------------------------------------------
\* The list is well formed: loops along it end, and the nodes they come by
\* are exactly those that are allocated, so that none is lost and none is
\* used after it was freed.
WellFormed(list) ==
  /\ Walk(list)[Cardinality(Node)] = NULL
  /\ Reached(list) = list.live

\* The data in the list, first to last.
Items(list) ==
  [i \in 1..Cardinality(Rounds(list)) |-> list.data[Walk(list)[i - 1]]]
=============================================================================
