---------------------------- MODULE IntrusiveQueue ---------------------------
(***************************************************************************)
(* The intrusive singly linked queue of libpi/libc/Q.h.  A queue is the    *)
(* record Q_t; the links are the next field of the elements themselves, a  *)
(* function from elements to elements that every queue shares, so one      *)
(* operation on a queue can damage another if an element is on both.       *)
(*                                                                         *)
(* An operation is given by two operators: the queue it leaves and the     *)
(* links it leaves.                                                        *)
(***************************************************************************)
EXTENDS Naturals, Sequences

CONSTANTS
    Elem,       \* the addresses an element can have
    NULL        \* the null pointer

ASSUME NullAssumption == NULL \notin Elem

Link == Elem \cup {NULL}

QueueType == [head : Link, tail : Link, cnt : Nat]

EmptyQueue == [head |-> NULL, tail |-> NULL, cnt |-> 0]

IsEmpty(q) == q.head = NULL

\* Q_pop: the element is q.head, its own next is left as it was
Popped(q, next) ==
    [head |-> next[q.head],
     tail |-> IF next[q.head] = NULL THEN NULL ELSE q.tail,
     cnt  |-> q.cnt - 1]

Appended_AtHead(q, e) == [head |-> e, tail |-> e, cnt |-> q.cnt + 1]

\* Q_append
Appended(q, e) ==
    [head |-> IF q.tail = NULL THEN e ELSE q.head, tail |-> e, cnt |-> q.cnt + 1]

AppendLinks_KeepNext(q, next, e) ==
    IF q.tail = NULL THEN next ELSE [next EXCEPT ![q.tail] = e]

AppendLinks(q, next, e) ==
    IF q.tail = NULL THEN [next EXCEPT ![e] = NULL]
    ELSE [next EXCEPT ![e] = NULL, ![q.tail] = e]

\* Q_push
Pushed(q, e) ==
    [head |-> e, tail |-> IF q.tail = NULL THEN e ELSE q.tail, cnt |-> q.cnt + 1]

PushLinks(q, next, e) == [next EXCEPT ![e] = q.head]

(***************************************************************************)
(* The queue q, with these links, holds exactly the sequence s.            *)
(***************************************************************************)
Holds(q, next, s) ==
    /\ q.cnt = Len(s)
    /\ q.head = IF s = <<>> THEN NULL ELSE s[1]
    /\ q.tail = IF s = <<>> THEN NULL ELSE s[Len(s)]
    /\ \A i \in 1 .. Len(s) : next[s[i]] = IF i = Len(s) THEN NULL ELSE s[i + 1]
    /\ \A i, j \in 1 .. Len(s) : s[i] = s[j] => i = j
==============================================================================
