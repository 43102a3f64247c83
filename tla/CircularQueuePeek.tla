-------------------------- MODULE CircularQueuePeek --------------------------
(***************************************************************************)
(* cq_peek_n, the operation of circular.h that steps outside its own       *)
(* discipline: it pops n elements and then puts tail back, so tail moves   *)
(* backwards under a producer that has already been told of the room.      *)
(*                                                                         *)
(* Here the producer is an interrupt handler that runs to completion: the  *)
(* consumer's steps need it idle.                                          *)
(***************************************************************************)
EXTENDS CircularQueue

CONSTANT PeekSizes      \* the sizes n that callers give cq_peek_n

ASSUME PeekAssumption == PeekSizes \subseteq Nat \ {0}

VARIABLES
    saved,      \* the local tail of cq_peek_n
    sz,         \* the local sz of cq_peek_n
    peeked      \* the caller's array v

peekVars == <<saved, sz, peeked>>
allVars == <<vars, peekVars>>

PeekInit == Init /\ saved = 0 /\ sz = 0 /\ peeked = <<>>

\* if(n > sz) return 0;  tail = c->tail;  and the same test in cq_pop_n_noblk
PeekBegin(n) ==
    /\ ppc = "idle" /\ cpc = "idle"
    /\ HasElems(n)
    /\ sz' = Nelem /\ saved' = tail /\ peeked' = <<>>
    /\ want' = n /\ cpc' = "peek"
    /\ UNCHANGED <<tail, elem, blocking, popped, int_enabled, producerVars>>

PeekPop_Stuck ==
    /\ ppc = "idle" /\ cpc = "peek" /\ want > 0
    /\ peeked' = Append(peeked, c_buf[tail])
    /\ want' = want - 1
    /\ UNCHANGED <<tail, elem, blocking, cpc, popped, int_enabled, producerVars, saved, sz>>

\* one cq_pop of cq_pop_n, its read and its advance together
PeekPop ==
    /\ ppc = "idle" /\ cpc = "peek" /\ want > 0
    /\ peeked' = Append(peeked, c_buf[tail])
    /\ tail' = Succ(tail)
    /\ want' = want - 1
    /\ UNCHANGED <<elem, blocking, cpc, popped, int_enabled, producerVars, saved, sz>>

\* c->tail = tail
PeekRestore ==
    /\ ppc = "idle" /\ cpc = "peek" /\ want = 0
    /\ tail' = saved
    /\ cpc' = "peek_assert"
    /\ UNCHANGED <<want, elem, blocking, popped, int_enabled, producerVars, peekVars>>

PeekAssert_AtLeast ==
    /\ ppc = "idle" /\ cpc = "peek_assert"
    /\ cpc' = IF sz >= Nelem THEN "idle" ELSE "peek_failed"
    /\ UNCHANGED <<tail, want, elem, blocking, popped, int_enabled, producerVars, peekVars>>

\* assert(sz == cq_nelem(c))
PeekAssert ==
    /\ ppc = "idle" /\ cpc = "peek_assert"
    /\ cpc' = IF sz = Nelem THEN "idle" ELSE "peek_failed"
    /\ UNCHANGED <<tail, want, elem, blocking, popped, int_enabled, producerVars, peekVars>>

Peek == (\E n \in PeekSizes : PeekBegin(n)) \/ PeekPop \/ PeekRestore \/ PeekAssert

\* a failed assert reboots the machine: nothing runs after it
PeekNext ==
    \/ Peek
    \/ cpc # "peek_failed" /\ Producer /\ UNCHANGED peekVars
    \/ ppc = "idle" /\ (Consumer \/ IntSwitch) /\ UNCHANGED peekVars

PeekSpec == PeekInit /\ [][PeekNext]_allVars

------------------------------------------------------------------------------
(* circular.h, "non-destructively peek ahead": the closing assert of cq_peek_n
   holds, peeking is non-destructive even
   while the handler pushes. *)
PeekAssertHolds == cpc # "peek_failed"

\* the elements the handler has pushed since the current cq_peek_n began
Intruders == Len(pushed) - (Len(popped) + sz)

(* Fail-stop: pushes that land inside a cq_peek_n (and may overwrite elements
   the restored tail brings back) are caught by the closing assert, so a caller
   that gets its answer has a sound queue.  Only fewer than N of them: N pushes
   bring head round to where it was, and the assert sees nothing. *)
PeekFailsStop ==
    [][cpc = "peek_assert" /\ cpc' = "idle" /\ Intruders < N => FifoOrder]_allVars

(* What cq_peek_n hands its caller is the front of the queue as it was when the
   call began, whatever the handler pushed meanwhile. *)
PeekSeesFront ==
    cpc \in {"peek", "peek_assert"} /\ Intruders < N =>
        peeked = SubSeq(pushed, Len(popped) + 1, Len(popped) + Len(peeked))
==============================================================================
