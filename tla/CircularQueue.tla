---------------------------- MODULE CircularQueue ----------------------------
(***************************************************************************)
(* The circular queue of libpi/libc/circular.h: a ring of N slots with one *)
(* mutator of head (the producer, in practice an interrupt handler) and    *)
(* one mutator of tail (the consumer, in practice the code that handler    *)
(* interrupts), and no lock.                                               *)
(*                                                                         *)
(* Every access to a field the other side also touches is a step of its    *)
(* own, in program order (the gcc_mb() barriers of the source fix that     *)
(* order, and the ARM1176 runs one core), so the two sides interleave      *)
(* between any two accesses.  A handler that runs to completion is one of  *)
(* these interleavings.                                                    *)
(*                                                                         *)
(* pushed and popped are history variables: what has entered and what has  *)
(* left the queue since cq_init.                                           *)
(***************************************************************************)
EXTENDS Integers, Sequences

CONSTANTS
    N,          \* CQ_N, the number of slots
    WordSize,   \* 2^32: head - tail is computed in unsigned arithmetic
    Value,      \* what a slot can hold (cqe_t)
    Zero,       \* the 0 that cq_init's memset leaves in every slot
    PushSizes,  \* the sizes n that callers give cq_push_n
    PopSizes,   \* the sizes n that callers give the blocking cq_pop_n
    TrySizes,   \* the sizes n that callers give cq_pop_n_noblk
    MaxPush     \* bound: the producer stops once it has pushed this much

(***************************************************************************)
(* The index arithmetic needs N to divide the range of the unsigned        *)
(* subtraction: circular.h gets it from CQ_N = 8192 = 2^13.                *)
(***************************************************************************)
ASSUME SizeAssumption ==
    /\ N \in Nat \ {0, 1}
    /\ \E k \in 1 .. WordSize : WordSize = k * N
    /\ WordSize \in Nat
ASSUME ClientAssumption ==
    /\ Zero \in Value
    /\ PushSizes \subseteq Nat \ {0}    \* cq_push_n: assert(n)
    /\ PopSizes \subseteq Nat \ {0}
    /\ TrySizes \subseteq Nat \ {0}
    /\ MaxPush \in Nat

VARIABLES
    c_buf, head, tail,      \* the fields of cq_t
    int_enabled,            \* the I bit of the cpsr, inverted
    pushing,                \* producer: elements cq_push_n has still to push
    ppc,                    \* producer: the next access of cq_push
    want,                   \* consumer: elements cq_pop_n has still to pop
    elem,                   \* consumer: *e, once read
    blocking,               \* consumer: in cq_pop_n called directly
    cpc,                    \* consumer: the next access of cq_pop_nonblock
    pushed, popped

producerVars == <<c_buf, head, pushing, ppc, pushed>>
consumerVars == <<tail, want, elem, blocking, cpc, popped>>
vars == <<c_buf, head, tail, int_enabled, pushing, ppc, want, elem, blocking,
          cpc, pushed, popped>>

Slots == 0 .. N - 1

------------------------------------------------------------------------------
(* The inline helpers. *)

Succ_PastEnd(i) == (i + 1) % (N + 1)

Succ(i) == (i + 1) % N

Empty_AsFull == Succ(head) = tail

Empty == head = tail

Full == Succ(head) = tail

\* (q->head - q->tail) % CQ_N, the subtraction on 32-bit unsigned operands
Distance(h, t) == ((h - t) % WordSize) % N

Nelem == Distance(head, tail)

Nspace_AllSlots == N - Nelem

Nspace == (N - 1) - Nelem

\* the guards of cq_push_n and cq_pop_n_noblk
HasRoom_OneShort(n) == Nspace + 1 >= n
HasRoom(n) == Nspace >= n

HasElems_Unchecked(n) == TRUE
HasElems(n) == Nelem >= n

------------------------------------------------------------------------------
Init ==
    /\ c_buf = [i \in Slots |-> Zero]
    /\ head = 0 /\ tail = 0
    /\ int_enabled = FALSE
    /\ pushing = <<>> /\ ppc = "idle"
    /\ want = 0 /\ elem = Zero /\ blocking = FALSE /\ cpc = "idle"
    /\ pushed = <<>> /\ popped = <<>>

------------------------------------------------------------------------------
(* The producer: cq_push_n, and cq_push as cq_push_n of one element. *)

\* cq_push_n: refused as a whole (return 0) unless there is room for all of it
PushBegin(data) ==
    /\ ppc = "idle" /\ int_enabled
    /\ Len(pushed) + Len(data) <= MaxPush
    /\ HasRoom(Len(data))
    /\ pushing' = data
    /\ ppc' = "test"
    /\ UNCHANGED <<c_buf, head, pushed, int_enabled, consumerVars>>

\* cq_push: if(cq_full(c)) return 0, on which cq_push_n panics
PushTest ==
    /\ ppc = "test"
    /\ ppc' = IF Full THEN "panic" ELSE "write"
    /\ UNCHANGED <<c_buf, head, pushing, pushed, int_enabled, consumerVars>>

PushWrite_PreIncrement ==
    /\ ppc = "write"
    /\ c_buf' = [c_buf EXCEPT ![Succ(head)] = Head(pushing)]
    /\ ppc' = "advance"
    /\ UNCHANGED <<head, pushing, pushed, int_enabled, consumerVars>>

\* c->c_buf[head] = x;  // 1
PushWrite ==
    /\ ppc = "write"
    /\ c_buf' = [c_buf EXCEPT ![head] = Head(pushing)]
    /\ ppc' = "advance"
    /\ UNCHANGED <<head, pushing, pushed, int_enabled, consumerVars>>

\* c->head = (head + 1) % (CQ_N); // 2
PushAdvance ==
    /\ ppc = "advance"
    /\ head' = Succ(head)
    /\ pushed' = Append(pushed, Head(pushing))
    /\ pushing' = Tail(pushing)
    /\ ppc' = IF Len(pushing) = 1 THEN "idle" ELSE "test"
    /\ UNCHANGED <<c_buf, int_enabled, consumerVars>>

ProducerStep == PushTest \/ PushWrite \/ PushAdvance

Producer ==
    \/ \E n \in PushSizes : \E data \in [1 .. n -> Value] : PushBegin(data)
    \/ ProducerStep

------------------------------------------------------------------------------
(* The consumer. *)

\* cq_pop_n, and cq_pop as cq_pop_n of one element
PopBegin(n) ==
    /\ cpc = "idle"
    /\ want' = n /\ blocking' = TRUE /\ cpc' = "test"
    /\ UNCHANGED <<tail, elem, popped, int_enabled, producerVars>>

\* cq_pop_n_noblk: returns 0 unless n elements are there already
TryBegin(n) ==
    /\ cpc = "idle"
    /\ HasElems(n)
    /\ want' = n /\ blocking' = FALSE /\ cpc' = "test"
    /\ UNCHANGED <<tail, elem, popped, int_enabled, producerVars>>

PopTest_KeepsOne ==
    /\ cpc = "test"
    /\ cpc' = IF Nelem > 1 THEN "read" ELSE IF int_enabled THEN "test" ELSE "panic"
    /\ UNCHANGED <<tail, want, elem, blocking, popped, int_enabled, producerVars>>

\* cq_pop spins on cq_pop_nonblock, which returns 0 on an empty queue; with
\* interrupts off nothing can fill it and cq_pop panics
PopTest ==
    /\ cpc = "test"
    /\ cpc' = IF ~Empty THEN "read" ELSE IF int_enabled THEN "test" ELSE "panic"
    /\ UNCHANGED <<tail, want, elem, blocking, popped, int_enabled, producerVars>>

PopRead_Next ==
    /\ cpc = "read"
    /\ elem' = c_buf[Succ(tail)]
    /\ cpc' = "advance"
    /\ UNCHANGED <<tail, want, blocking, popped, int_enabled, producerVars>>

\* *e = c->c_buf[tail];     // 1
PopRead ==
    /\ cpc = "read"
    /\ elem' = c_buf[tail]
    /\ cpc' = "advance"
    /\ UNCHANGED <<tail, want, blocking, popped, int_enabled, producerVars>>

\* c->tail = (tail+1)% (CQ_N);  // 2
PopAdvance ==
    /\ cpc = "advance"
    /\ tail' = Succ(tail)
    /\ popped' = Append(popped, elem)
    /\ want' = want - 1
    /\ cpc' = IF want = 1 THEN "idle" ELSE "test"
    /\ UNCHANGED <<elem, blocking, int_enabled, producerVars>>

\* cpsr_int_enable / cpsr_int_disable, which only the interrupted code can call
IntSwitch ==
    /\ cpc = "idle" /\ ppc = "idle"
    /\ int_enabled' = ~int_enabled
    /\ UNCHANGED <<producerVars, consumerVars>>

ConsumerStep == PopTest \/ PopRead \/ PopAdvance

Consumer ==
    \/ \E n \in PopSizes : PopBegin(n)
    \/ \E n \in TrySizes : TryBegin(n)
    \/ ConsumerStep

Next == Producer \/ Consumer \/ IntSwitch

Spec == Init /\ [][Next]_vars

(***************************************************************************)
(* A started handler runs to its end, and the main code keeps running.     *)
(***************************************************************************)
FairSpec == Spec /\ WF_vars(ProducerStep) /\ WF_vars(Consumer)

------------------------------------------------------------------------------
(* Properties. *)

TypeOK ==
    /\ c_buf \in [Slots -> Value]
    /\ head \in Slots /\ tail \in Slots
    /\ int_enabled \in BOOLEAN /\ blocking \in BOOLEAN
    /\ pushing \in Seq(Value)
    /\ ppc \in {"idle", "test", "write", "advance", "panic"}
    /\ want \in Nat /\ elem \in Value
    /\ cpc \in {"idle", "test", "read", "advance", "panic"}
    /\ pushed \in Seq(Value) /\ popped \in Seq(Value)

\* The slots between tail and head, oldest first: the queue as the code holds it
SlotAt(t, i) == (t + i - 1) % N

Occupied == [i \in 1 .. Nelem |-> c_buf[SlotAt(tail, i)]]

(* Every element is delivered once, in order and unchanged, and what is not
   delivered yet is in the ring, whatever the interleaving of the accesses:
   the "lock free" claim of circular.h. *)
FifoOrder == pushed = popped \o Occupied

(* The producer's panic("impossible: buffer should have space") cannot be
   reached: the room cq_push_n saw before its loop is still there at every
   later cq_push, although the consumer moves tail meanwhile. *)
PushNeverPanics == ppc # "panic"

(* A cq_pop_n_noblk that found n elements never waits for the interrupt and
   never hits cq_pop's "will deadlock" panic, even with interrupts off. *)
TryNeverWaits == ~blocking /\ cpc = "test" => ~Empty

(* The slot the producer is writing and the slot the consumer is reading are
   never the same: c_buf has no data race although nothing locks it. *)
SlotExclusion ==
    ppc \in {"write", "advance"} /\ cpc \in {"read", "advance"} => head # tail

(* What one side read of the other's index may be stale but only on the safe
   side: room the producer was promised and elements the consumer was promised
   do not disappear. *)
StaleIsSafe ==
    /\ ppc \in {"test", "write", "advance"} => Nspace >= Len(pushing)
    /\ cpc \in {"read", "advance"} => Nelem >= 1
    /\ cpc = "test" /\ ~blocking => Nelem >= want

(* The queue implements the bounded FIFO channel. *)
Abstract == INSTANCE FifoQueue WITH
    queue <- Occupied, popped <- popped, Capacity <- N - 1

ImplementsFifo == Abstract!FifoSpec

(* Nothing stays in the queue: whatever the handler has pushed, the main code
   eventually gets, provided it asks for it with the blocking cq_pop. *)
EverythingDelivered ==
    \A k \in 1 .. MaxPush : (Len(pushed) >= k) ~> (Len(popped) >= k)
==============================================================================
