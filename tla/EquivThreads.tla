----------------------------- MODULE EquivThreads -----------------------------
(***************************************************************************)
(* The pre-emptive threads of labs/14-ss-equiv-deux: user threads that the *)
(* mismatch breakpoint of the debug hardware stops after every             *)
(* instruction, when the handler hashes their registers and switches to    *)
(* the next thread (equiv-threads.c over mini-step.c).                     *)
(*                                                                         *)
(* User code is given by constants: which address a register file points   *)
(* at, what the instruction there does, the registers it leaves.  Threads  *)
(* share no memory, as in the tests.  A hash is the sequence of register   *)
(* files it was computed from (so different sequences never collide), and  *)
(* 0 is the empty sequence; inst_cnt is then its length.  The run queue    *)
(* is a sequence: what the links of queue-ext-T.h do is in IntrusiveQueue. *)
(***************************************************************************)
EXTENDS Naturals, Sequences

CONSTANTS
    Thread,     \* the eq_th_t blocks kmalloc_aligned can return
    NULL,
    Regs,       \* register files
    Addr,       \* code addresses
    Pc,         \* the address a register file points at
    Kind,       \* the instruction there: a system call, or a plain one
    Execute,    \* the registers it leaves
    Entry,      \* what equiv_regs_init makes of fn, arg and the stack
    Expected    \* the hashes the client may give when it forks a thread

\* "illegal" is a system call that panics: its number is unknown, or the stack
\* pointer is out of the stack of the thread
ASSUME ProgramAssumption ==
    /\ NULL \notin Thread
    /\ Pc \in [Regs -> Addr]
    /\ Kind \in [Regs -> {"plain", "putc", "exit", "illegal"}]
    /\ Execute \in [Regs -> Regs]
    /\ Entry \in [Thread -> Regs]
    /\ Expected \in [Thread -> SUBSET Seq(Regs)]

VARIABLES
    mode,           \* who has the processor, or what stopped it
    equiv_runq,
    cur_thread,
    forked,         \* the threads that exist
    regs,           \* th->regs: registers saved when a thread lost the processor
    reg_hash,
    expected_hash,
    cpu,            \* the registers of the user mode processor
    single_step_on_p,
    bvr0            \* the address the breakpoint does not stop at

\* What happened so far, seen from the threads
VARIABLES
    trace,          \* every view a thread has had since it was started
    first_trace     \* the trace of its first complete run

hwVars == <<cpu, single_step_on_p, bvr0>>
history == <<trace, first_trace>>
vars == <<mode, equiv_runq, cur_thread, forked, regs, reg_hash, expected_hash,
          hwVars, history>>

\* client: the main program.  user: cur_thread runs.  The others are panics, in
\* a system call, in the comparison of the hashes and on an empty run queue.
Modes == {"client", "user", "illegal", "mismatch", "empty"}

Fresh(t) == [regs |-> Entry[t], hash |-> <<>>]

\* One instruction of a thread that runs alone: the breakpoint stops it, and the
\* hash takes in its registers, when the instruction left the address it was at.
\* A system call returns to its own handler and is not hashed.
After(v) ==
    LET r == Execute[v.regs]
    IN  [regs |-> r,
         hash |-> IF Kind[v.regs] = "plain" /\ Pc[r] # Pc[v.regs]
                  THEN Append(v.hash, r) ELSE v.hash]

Init ==
    /\ mode = "client"
    /\ equiv_runq = <<>> /\ cur_thread = NULL /\ forked = {}
    /\ regs = Entry
    /\ reg_hash = [t \in Thread |-> <<>>]
    /\ expected_hash = [t \in Thread |-> <<>>]
    /\ cpu \in {Entry[t] : t \in Thread}
    /\ single_step_on_p = FALSE
    /\ bvr0 = Pc[cpu]
    /\ trace = [t \in Thread |-> <<>>]
    /\ first_trace = [t \in Thread |-> <<>>]

------------------------------------------------------------------------------
(* The queue and the switch. *)

Pushed(q, t) == <<t>> \o q

Appended_AtHead(q, t) == <<t>> \o q

Appended(q, t) == Append(q, t)

MismatchOn == single_step_on_p' = TRUE

MismatchOff == single_step_on_p' = FALSE

\* The breakpoint stops at every address but this one
MismatchPcSet(addr) == bvr0' = addr

\* switchto_user_asm
SwitchTo(r) == mode' = "user" /\ cpu' = r

MismatchRun_NoCurrent(t, saved) ==
    /\ MismatchPcSet(Pc[saved[t]])
    /\ SwitchTo(saved[t])
    /\ UNCHANGED cur_thread

\* mismatch_run: the thread runs with the breakpoint on its own address
MismatchRun(t, saved) ==
    /\ cur_thread' = t
    /\ MismatchPcSet(Pc[saved[t]])
    /\ SwitchTo(saved[t])

EquivSchedule_AlwaysAppend(saved) ==
    LET th == IF equiv_runq = <<>> THEN cur_thread ELSE Head(equiv_runq)
    IN  /\ equiv_runq' = Tail(Append(equiv_runq, cur_thread)) \o
                         IF equiv_runq = <<>> THEN <<cur_thread>> ELSE <<>>
        /\ MismatchRun(th, saved)

\* equiv_schedule, after the handler has saved the registers
EquivSchedule(saved) ==
    LET th == IF equiv_runq = <<>> THEN cur_thread ELSE Head(equiv_runq)
    IN  /\ equiv_runq' = IF equiv_runq = <<>> THEN <<>>
                         ELSE Appended(Tail(equiv_runq), cur_thread)
        /\ MismatchRun(th, saved)

------------------------------------------------------------------------------
(* The main program. *)

StartThread_KeepHash(t) ==
    /\ regs' = [regs EXCEPT ![t] = Entry[t]]
    /\ equiv_runq' = Pushed(equiv_runq, t)
    /\ trace' = [trace EXCEPT ![t] = <<Fresh(t)>>]
    /\ UNCHANGED reg_hash

StartThread(t) ==
    /\ regs' = [regs EXCEPT ![t] = Entry[t]]
    /\ reg_hash' = [reg_hash EXCEPT ![t] = <<>>]
    /\ equiv_runq' = Pushed(equiv_runq, t)
    /\ trace' = [trace EXCEPT ![t] = <<Fresh(t)>>]

\* equiv_fork and equiv_fork_nostack
EquivFork(t, hash) ==
    /\ mode = "client" /\ t \notin forked
    /\ expected_hash' = [expected_hash EXCEPT ![t] = hash]
    /\ forked' = forked \cup {t}
    /\ StartThread(t)
    /\ UNCHANGED <<mode, cur_thread, hwVars, first_trace>>

\* equiv_refresh.  It does not look whether the thread is still on the run
\* queue; the callers refresh threads that have exited.
EquivRefresh(t) ==
    /\ mode = "client" /\ t \in forked
    /\ \A i \in 1 .. Len(equiv_runq) : equiv_runq[i] # t
    /\ StartThread(t)
    /\ UNCHANGED <<mode, cur_thread, forked, expected_hash, hwVars, first_trace>>

\* equiv_run, to the switch to user mode
EquivRun ==
    /\ mode = "client" /\ equiv_runq # <<>>
    /\ equiv_runq' = Tail(equiv_runq)
    /\ MismatchOn
    /\ MismatchRun(Head(equiv_runq), regs)
    /\ UNCHANGED <<forked, regs, reg_hash, expected_hash, history>>

EquivRunEmpty ==
    /\ mode = "client" /\ equiv_runq = <<>>
    /\ mode' = "empty"
    /\ cur_thread' = NULL
    /\ UNCHANGED <<equiv_runq, forked, regs, reg_hash, expected_hash, hwVars, history>>

------------------------------------------------------------------------------
(* The running thread. *)

Stopped == single_step_on_p /\ Pc[cpu] # bvr0

LastView(t) == trace[t][Len(trace[t])]

Record(t) == trace' = [trace EXCEPT ![t] = Append(trace[t], After(LastView(t)))]

Instruction ==
    /\ mode = "user" /\ ~Stopped
    /\ Kind[cpu] = "plain"
    /\ cpu' = Execute[cpu]
    /\ Record(cur_thread)
    /\ UNCHANGED <<mode, equiv_runq, cur_thread, forked, regs, reg_hash, expected_hash,
                   single_step_on_p, bvr0, first_trace>>

MismatchFault_NoSave ==
    /\ mode = "user" /\ Stopped
    /\ reg_hash' = [reg_hash EXCEPT ![cur_thread] = Append(reg_hash[cur_thread], cpu)]
    /\ EquivSchedule(regs)
    /\ UNCHANGED <<forked, regs, expected_hash, single_step_on_p, history>>

MismatchFault_HashOld ==
    /\ mode = "user" /\ Stopped
    /\ regs' = [regs EXCEPT ![cur_thread] = cpu]
    /\ reg_hash' = [reg_hash EXCEPT ![cur_thread] =
                      Append(reg_hash[cur_thread], regs[cur_thread])]
    /\ EquivSchedule(regs')
    /\ UNCHANGED <<forked, expected_hash, single_step_on_p, history>>

\* The prefetch abort: mismatch_fault calls equiv_hash_handler
MismatchFault ==
    /\ mode = "user" /\ Stopped
    /\ regs' = [regs EXCEPT ![cur_thread] = cpu]
    /\ reg_hash' = [reg_hash EXCEPT ![cur_thread] = Append(reg_hash[cur_thread], cpu)]
    /\ EquivSchedule(regs')
    /\ UNCHANGED <<forked, expected_hash, single_step_on_p, history>>

\* What equiv_syscall_handler does first: the registers it saves are those after
\* the system call instruction
Syscall(kind) ==
    /\ mode = "user" /\ ~Stopped
    /\ Kind[cpu] = kind
    /\ regs' = [regs EXCEPT ![cur_thread] = Execute[cpu]]

SyscallPutc ==
    /\ Syscall("putc")
    /\ EquivSchedule(regs')
    /\ Record(cur_thread)
    /\ UNCHANGED <<forked, reg_hash, expected_hash, single_step_on_p, first_trace>>

SyscallIllegal ==
    /\ Syscall("illegal")
    /\ mode' = "illegal"
    /\ UNCHANGED <<equiv_runq, cur_thread, forked, reg_hash, expected_hash, hwVars, history>>

HashAccepted(t) == expected_hash[t] \in {<<>>, reg_hash[t]}

ExitMismatch ==
    /\ Syscall("exit")
    /\ ~HashAccepted(cur_thread)
    /\ mode' = "mismatch"
    /\ UNCHANGED <<equiv_runq, cur_thread, forked, reg_hash, expected_hash, hwVars, history>>

NextAfterExit_NoReturn ==
    /\ UNCHANGED single_step_on_p
    /\ \/ /\ equiv_runq = <<>>
          /\ MismatchRun(cur_thread, regs')
          /\ UNCHANGED equiv_runq
       \/ /\ equiv_runq # <<>>
          /\ equiv_runq' = Tail(equiv_runq)
          /\ MismatchRun(Head(equiv_runq), regs')

\* The last thread returns to equiv_run, which turns the breakpoint off
NextAfterExit ==
    \/ /\ equiv_runq = <<>>
       /\ mode' = "client" /\ MismatchOff
       /\ UNCHANGED <<equiv_runq, cur_thread, cpu, bvr0>>
    \/ /\ equiv_runq # <<>>
       /\ equiv_runq' = Tail(equiv_runq)
       /\ MismatchRun(Head(equiv_runq), regs')
       /\ UNCHANGED single_step_on_p

SyscallExit ==
    /\ Syscall("exit")
    /\ HashAccepted(cur_thread)
    /\ expected_hash' = [expected_hash EXCEPT ![cur_thread] = reg_hash[cur_thread]]
    /\ NextAfterExit
    /\ first_trace' = IF first_trace[cur_thread] = <<>>
                      THEN [first_trace EXCEPT ![cur_thread] = trace[cur_thread]]
                      ELSE first_trace
    /\ UNCHANGED <<forked, reg_hash, trace>>

User ==
    \/ Instruction \/ MismatchFault
    \/ SyscallPutc \/ SyscallIllegal \/ ExitMismatch \/ SyscallExit

Next ==
    \/ \E t \in Thread : (\E hash \in Expected[t] : EquivFork(t, hash)) \/ EquivRefresh(t)
    \/ EquivRun \/ EquivRunEmpty
    \/ User

Spec == Init /\ [][Next]_vars

(***************************************************************************)
(* The processor keeps executing; the main program may stop calling.       *)
(***************************************************************************)
FairSpec == Spec /\ WF_vars(User)

------------------------------------------------------------------------------
(* Properties. *)

Range_runq == {equiv_runq[i] : i \in 1 .. Len(equiv_runq)}

OnCpu(t) == mode \in {"user", "illegal", "mismatch"} /\ cur_thread = t

\* The threads that have been started and have not exited
Live == Range_runq \cup {t \in Thread : OnCpu(t)}

\* The registers and the hash of a thread, wherever they are: a thread that has
\* the processor and is stopped has one more register file to be hashed
View(t) ==
    IF OnCpu(t)
    THEN [regs |-> cpu,
          hash |-> IF Pc[cpu] # bvr0 THEN Append(reg_hash[t], cpu) ELSE reg_hash[t]]
    ELSE [regs |-> regs[t], hash |-> reg_hash[t]]

Views == [regs : Regs, hash : Seq(Regs)]

(* The types, and what the handlers assert: a thread has the processor only when
   cur_thread names it (assert(cur_thread), assert(th)). *)
TypeOK ==
    /\ mode \in Modes
    /\ equiv_runq \in Seq(Thread)
    /\ cur_thread \in Thread \cup {NULL}
    /\ mode \in {"user", "illegal", "mismatch"} => cur_thread \in Thread
    /\ forked \subseteq Thread
    /\ regs \in [Thread -> Regs]
    /\ reg_hash \in [Thread -> Seq(Regs)]
    /\ expected_hash \in [Thread -> Seq(Regs)]
    /\ cpu \in Regs /\ bvr0 \in Addr /\ single_step_on_p \in BOOLEAN
    /\ trace \in [Thread -> Seq(Views)]
    /\ first_trace \in [Thread -> Seq(Views)]

(* A thread is on the run queue at most once and never while it has the
   processor, and the breakpoint is on exactly while threads run (what the asserts
   of mismatch_on and mismatch_pc_set check). *)
HandOver ==
    /\ \A i, j \in 1 .. Len(equiv_runq) : equiv_runq[i] = equiv_runq[j] => i = j
    /\ \A t \in Thread : OnCpu(t) => t \notin Range_runq
    /\ single_step_on_p <=> mode \in {"user", "illegal", "mismatch"}

(* Switching after every instruction, in whatever order the threads were queued,
   leaves each thread with the registers and the hash it would have if it ran
   alone: trace is computed from the thread's own instructions only. *)
RunsAlone ==
    \A t \in Live : trace[t] # <<>> /\ View(t) = LastView(t)

(* The panic of EQUIV_EXIT blames a thread only for a hash the client gave: once a
   thread that shares no memory has completed a run, it gives the same hash in
   every run, whichever threads run with it. *)
NoFalseMismatch == mode = "mismatch" => first_trace[cur_thread] = <<>>

(* Threads that run together advance together: none is more than an instruction
   ahead of another, system calls and exits of other threads included. *)
Lockstep ==
    mode = "user" =>
        \A t, u \in Live : Len(trace[t]) <= Len(trace[u]) + 1

(* The run of the threads on one processor is a run of threads that each have a
   processor of their own. *)
Alone == INSTANCE AloneThreads WITH
    view <- [t \in Thread |-> View(t)], live <- Live, born <- forked,
    known <- expected_hash

ImplementsAlone == Alone!AloneSpec

(* equiv_run returns when every thread exits, unless a panic stops it: the threads
   of a run cannot keep each other from their exits. *)
RunReturns == mode = "user" ~> mode # "user"
==============================================================================
