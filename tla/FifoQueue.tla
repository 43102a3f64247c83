------------------------------ MODULE FifoQueue ------------------------------
(***************************************************************************)
(* What libpi/libc/circular.h promises its clients: a bounded first-in     *)
(* first-out channel between one producer and one consumer.  Nothing of    *)
(* the representation (slots, indices, the order of the memory accesses)   *)
(* is visible here.                                                        *)
(***************************************************************************)
EXTENDS Naturals, Sequences

CONSTANTS
    Value,      \* what a slot can hold (cqe_t)
    Capacity    \* the most elements the channel holds at once

VARIABLES
    queue,      \* the elements pushed and not yet popped, oldest first
    popped      \* every element the consumer was given, oldest first

fifoVars == <<queue, popped>>

FifoInit == queue = <<>> /\ popped = <<>>

Enqueue(x) ==
    /\ Len(queue) < Capacity
    /\ queue' = Append(queue, x)
    /\ UNCHANGED popped

Dequeue ==
    /\ queue # <<>>
    /\ popped' = Append(popped, Head(queue))
    /\ queue' = Tail(queue)

FifoNext == Dequeue \/ \E x \in Value : Enqueue(x)

FifoSpec == FifoInit /\ [][FifoNext]_fifoVars
==============================================================================
