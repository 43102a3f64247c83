------------------------------ MODULE RpiThread ------------------------------
(***************************************************************************)
(* The cooperative threads package of labs/6-threads/code-threads:         *)
(* rpi-thread.c over the intrusive queue of libpi/libc/Q.h, and the        *)
(* context switch of rpi-thread-asm.S.                                     *)
(*                                                                         *)
(* Nothing is pre-empted, so each entry point is one step, from the call   *)
(* to the context switch it ends with.  A context (the registers a switch  *)
(* pushes on a stack, to which saved_sp points) is named by the tid of the *)
(* thread whose code it resumes, 0 for the code that called                *)
(* rpi_thread_start; cpu is the context the processor is in.  Once resumed *)
(* a saved context is Stale: the thread has gone on, and resuming it again *)
(* would run it from the past.                                             *)
(*                                                                         *)
(* runs and frees are history variables: the blocks on the two queues in   *)
(* order, as a list with no links would hold them.                         *)
(***************************************************************************)
EXTENDS Integers, Sequences, IntrusiveQueue

CONSTANT
    MaxTid      \* bound: no thread is forked past this tid

ASSUME TidAssumption == MaxTid \in Nat

VARIABLES
    next, block_tid, saved_sp,      \* the fields of rpi_thread_t
    runq, freeq,
    cur_thread, scheduler_thread,
    tid,
    alloced,        \* the blocks kmalloc has handed out
    cpu,
    runs, frees

Stale == -1

vars == <<next, block_tid, saved_sp, runq, freeq, cur_thread, scheduler_thread,
          tid, alloced, cpu, runs, frees>>

Init ==
    /\ next = [b \in Elem |-> NULL]
    /\ block_tid = [b \in Elem |-> 0]
    /\ saved_sp = [b \in Elem |-> 0]
    /\ runq = EmptyQueue /\ freeq = EmptyQueue
    /\ cur_thread = NULL /\ scheduler_thread = NULL
    /\ tid = 1
    /\ alloced = {}
    /\ cpu = 0
    /\ runs = <<>> /\ frees = <<>>

------------------------------------------------------------------------------
NewTid_PreIncrement == tid + 1

\* t->tid = tid++
NewTid == tid

NeedsScheduler_Always == TRUE

\* if(!scheduler_thread)
NeedsScheduler == scheduler_thread = NULL

(* th_alloc: the first free block, or a new one from kmalloc. *)
Alloc(t) ==
    IF IsEmpty(freeq)
    THEN /\ t \in Elem \ alloced
         /\ alloced' = alloced \cup {t}
         /\ UNCHANGED <<freeq, frees>>
    ELSE /\ t = freeq.head
         /\ freeq' = Popped(freeq, next)
         /\ frees' = Tail(frees)
         /\ UNCHANGED alloced

Switch_NoSave(old, new) ==
    /\ cpu' = saved_sp[new]
    /\ saved_sp' = [saved_sp EXCEPT ![new] = Stale]

(* rpi_cswitch(&old->saved_sp, new->saved_sp): save here, resume there. *)
Switch(old, new) ==
    /\ cpu' = saved_sp[new]
    /\ saved_sp' = [saved_sp EXCEPT ![new] = Stale, ![old] = cpu]

(* rpi_fork: from a thread or from the code that has not called
   rpi_thread_start yet. *)
Fork ==
    /\ tid <= MaxTid
    /\ \E t \in Elem :
        /\ Alloc(t)
        /\ block_tid' = [block_tid EXCEPT ![t] = NewTid]
        /\ saved_sp' = [saved_sp EXCEPT ![t] = NewTid]
        /\ next' = AppendLinks(runq, next, t)
        /\ runq' = Appended(runq, t)
        /\ runs' = Append(runs, t)
    /\ tid' = tid + 1
    /\ UNCHANGED <<cur_thread, scheduler_thread, cpu>>

(* rpi_thread_start with threads to run: the block that keeps the caller's
   context is taken at the first call only. *)
Start ==
    /\ cpu = 0 /\ ~IsEmpty(runq)
    /\ \E s \in Elem :
        /\ IF NeedsScheduler
           THEN /\ Alloc(s)
                /\ block_tid' = [block_tid EXCEPT ![s] = NewTid]
                /\ tid' = tid + 1
           ELSE /\ s = scheduler_thread
                /\ UNCHANGED <<freeq, frees, alloced, block_tid, tid>>
        /\ scheduler_thread' = s
        /\ Switch(s, runq.head)
    /\ cur_thread' = runq.head
    /\ runq' = Popped(runq, next)
    /\ runs' = Tail(runs)
    /\ UNCHANGED next

(* rpi_yield, when there is somebody to yield to. *)
Yield ==
    /\ cpu # 0 /\ ~IsEmpty(runq)
    /\ LET q == Appended(runq, cur_thread)
           nx == AppendLinks(runq, next, cur_thread)
       IN  /\ next' = nx
           /\ cur_thread' = q.head
           /\ runq' = Popped(q, nx)
           /\ Switch(cur_thread, q.head)
    /\ runs' = Append(Tail(runs), cur_thread)
    /\ UNCHANGED <<block_tid, freeq, scheduler_thread, tid, alloced, frees>>

(* rpi_exit, called by the thread or by rpi_init_trampoline when its code
   returns: the block goes on the free queue before the switch saves the dead
   context into it. *)
Exit ==
    /\ cpu # 0
    /\ next' = PushLinks(freeq, next, cur_thread)
    /\ freeq' = Pushed(freeq, cur_thread)
    /\ frees' = <<cur_thread>> \o frees
    /\ IF IsEmpty(runq)
       THEN /\ cur_thread' = NULL
            /\ Switch(cur_thread, scheduler_thread)
            /\ UNCHANGED <<runq, runs>>
       ELSE /\ cur_thread' = runq.head
            /\ runq' = Popped(runq, next)
            /\ runs' = Tail(runs)
            /\ Switch(cur_thread, runq.head)
    /\ UNCHANGED <<block_tid, scheduler_thread, tid, alloced>>

Next == Fork \/ Start \/ Yield \/ Exit

Spec == Init /\ [][Next]_vars

(***************************************************************************)
(* The main program starts the threads it has forked, and every thread     *)
(* eventually gives the processor up: the package is cooperative and can   *)
(* promise nothing otherwise.                                              *)
(***************************************************************************)
FairSpec == Spec /\ WF_vars(Start) /\ WF_vars(Yield \/ Exit)

------------------------------------------------------------------------------
(* Properties. *)

Blocks(s) == {s[i] : i \in 1 .. Len(s)}

Context == {Stale} \cup 0 .. tid - 1

TypeOK ==
    /\ tid \in Nat \ {0}
    /\ next \in [Elem -> Link]
    /\ block_tid \in [Elem -> 0 .. tid - 1]
    /\ saved_sp \in [Elem -> Context] /\ cpu \in Context
    /\ runq \in QueueType /\ freeq \in QueueType
    /\ cur_thread \in Link /\ scheduler_thread \in Link
    /\ alloced \subseteq Elem
    /\ runs \in Seq(Elem) /\ frees \in Seq(Elem)

(* The two queues share the next fields of the blocks and never damage each
   other: each is an acyclic list whose count and tail are right. *)
QueuesSound == Holds(runq, next, runs) /\ Holds(freeq, next, frees)

(* Every block kmalloc handed out is in exactly one place: running, ready, free
   or keeping the caller of rpi_thread_start.  No block is lost, and none that
   is still needed can be given to a new thread. *)
Current == IF cur_thread = NULL THEN {} ELSE {cur_thread}
Scheduler == IF scheduler_thread = NULL THEN {} ELSE {scheduler_thread}

OneHome ==
    /\ alloced = Blocks(runs) \cup Blocks(frees) \cup Current \cup Scheduler
    /\ Blocks(runs) \cap Blocks(frees) = {}
    /\ (Blocks(runs) \cup Blocks(frees)) \cap (Current \cup Scheduler) = {}
    /\ Current \cap Scheduler = {}

(* rpi_cur_thread tells the truth, and every ready thread will resume where it
   stopped, although rpi_exit saves a dead context into a block that is already
   free and rpi_fork builds new stacks in such blocks. *)
ContextMatches ==
    /\ cpu = IF cur_thread = NULL THEN 0 ELSE block_tid[cur_thread]
    /\ \A b \in Blocks(runs) : saved_sp[b] = block_tid[b]
    /\ cpu # 0 => scheduler_thread # NULL /\ saved_sp[scheduler_thread] = 0

(* The package is a round-robin scheduler. *)
Abstract == INSTANCE RoundRobin WITH
    Tid <- 1 .. MaxTid,
    running <- cpu,
    ready <- [i \in 1 .. Len(runs) |-> block_tid[runs[i]]],
    spawned <- {t \in 1 .. tid - 1 : \A b \in Scheduler : t # block_tid[b]}

ImplementsRoundRobin == Abstract!RRSpec

(* No thread starves: one that is ready gets the processor. *)
EveryThreadRuns ==
    \A t \in 1 .. MaxTid :
        (\E b \in Blocks(runs) : block_tid[b] = t) ~> (cpu = t)
==============================================================================
