-------------------------- MODULE EquivThreadsProofs --------------------------
(***************************************************************************)
(* Proofs about EquivThreads for every set of threads and every user       *)
(* program: all the constants are arbitrary.                               *)
(***************************************************************************)
EXTENDS EquivThreads, Integers, TLAPS

Elems(q) == {q[i] : i \in 1 .. Len(q)}

Distinct(q) == \A i, j \in 1 .. Len(q) : q[i] = q[j] => i = j

------------------------------------------------------------------------------
(* The run queue. *)

(* eq_pop takes the first thread off and leaves the others on. *)
LEMMA PopThread ==
  ASSUME NEW q \in Seq(Thread), q # <<>>, Distinct(q)
  PROVE  /\ Head(q) \in Thread /\ Head(q) \in Elems(q)
         /\ Tail(q) \in Seq(Thread) /\ Distinct(Tail(q))
         /\ Elems(Tail(q)) = Elems(q) \ {Head(q)}
<1>1. /\ Len(q) \in Nat \ {0} /\ Head(q) = q[1] /\ q[1] \in Thread
      /\ Tail(q) \in Seq(Thread) /\ Len(Tail(q)) = Len(q) - 1
      /\ \A i \in 1 .. Len(q) - 1 : Tail(q)[i] = q[i + 1]
  OBVIOUS
<1>2. Distinct(Tail(q))
  BY <1>1 DEF Distinct
<1>3. Elems(Tail(q)) \subseteq Elems(q) \ {Head(q)}
  BY <1>1 DEF Distinct, Elems
<1>4. ASSUME NEW t \in Elems(q) \ {Head(q)}
      PROVE  t \in Elems(Tail(q))
  <2>1. PICK i \in 1 .. Len(q) : t = q[i]
    BY DEF Elems
  <2>2. i - 1 \in 1 .. Len(Tail(q)) /\ Tail(q)[i - 1] = t
    BY <1>1, <2>1
  <2>. QED  BY <2>2 DEF Elems
<1>. QED  BY <1>1, <1>2, <1>3, <1>4 DEF Elems

(* eq_append and eq_push put a thread on that was not there. *)
LEMMA PutThread ==
  ASSUME NEW q \in Seq(Thread), Distinct(q), NEW t \in Thread, t \notin Elems(q)
  PROVE  /\ Appended(q, t) \in Seq(Thread) /\ Distinct(Appended(q, t))
         /\ Elems(Appended(q, t)) = Elems(q) \cup {t}
         /\ Pushed(q, t) \in Seq(Thread) /\ Distinct(Pushed(q, t))
         /\ Elems(Pushed(q, t)) = Elems(q) \cup {t}
<1>. DEFINE a == Appended(q, t)
            p == Pushed(q, t)
<1>1. /\ a \in Seq(Thread) /\ Len(a) = Len(q) + 1 /\ a[Len(q) + 1] = t
      /\ \A i \in 1 .. Len(q) : a[i] = q[i]
  BY DEF Appended
<1>2. /\ p \in Seq(Thread) /\ Len(p) = Len(q) + 1 /\ p[1] = t
      /\ \A i \in 1 .. Len(q) + 1 : p[i] = IF i = 1 THEN t ELSE q[i - 1]
      /\ Len(q) \in Nat
  <2>1. <<t>> \in Seq(Thread) /\ Len(<<t>>) = 1 /\ <<t>>[1] = t
    OBVIOUS
  <2>. DEFINE s == <<t>>
  <2>2. p = s \o q
    BY DEF Pushed
  <2>. HIDE DEF s, p
  <2>3. p \in Seq(Thread) /\ Len(p) = Len(s) + Len(q)
    BY <2>1, <2>2 DEF s
  <2>4. \A i \in 1 .. Len(p) : p[i] = IF i <= Len(s) THEN s[i] ELSE q[i - Len(s)]
    BY <2>1, <2>2, <2>3 DEF s
  <2>. QED  BY <2>1, <2>3, <2>4 DEF s
<1>. HIDE DEF a, p
<1>3. Distinct(a)
  BY <1>1 DEF Distinct, Elems
<1>4. Distinct(p)
  <2>. SUFFICES ASSUME NEW i \in 1 .. Len(q) + 1, NEW j \in 1 .. Len(q) + 1, p[i] = p[j]
                PROVE  i = j
    BY <1>2 DEF Distinct
  <2>1. \A k \in 1 .. Len(q) + 1 : k # 1 => k - 1 \in 1 .. Len(q)
    BY <1>2
  <2>2. p[i] = (IF i = 1 THEN t ELSE q[i - 1]) /\ p[j] = (IF j = 1 THEN t ELSE q[j - 1])
    BY <1>2
  <2>3. \A k \in 1 .. Len(q) : q[k] # t
    BY DEF Elems
  <2>4. i # 1 /\ j # 1 => i - 1 = j - 1
    BY <2>1, <2>2 DEF Distinct
  <2>5. i = 1 <=> j = 1
    BY <2>1, <2>2, <2>3
  <2>. QED  BY <2>4, <2>5
<1>5. Elems(a) = Elems(q) \cup {t}
  <2>1. Elems(a) \subseteq Elems(q) \cup {t}
    BY <1>1 DEF Elems
  <2>2. Elems(q) \subseteq Elems(a)
    BY <1>1 DEF Elems
  <2>3. t \in Elems(a)
    BY <1>1 DEF Elems
  <2>. QED  BY <2>1, <2>2, <2>3
<1>6. Elems(p) = Elems(q) \cup {t}
  <2>1. Elems(p) \subseteq Elems(q) \cup {t}
    BY <1>2 DEF Elems
  <2>2. ASSUME NEW i \in 1 .. Len(q)
        PROVE  q[i] \in Elems(p)
    <3>1. i + 1 \in 1 .. Len(q) + 1 /\ i + 1 # 1 /\ (i + 1) - 1 = i
      BY <1>2
    <3>2. i + 1 \in 1 .. Len(p) /\ p[i + 1] = q[i]
      BY <1>2, <3>1
    <3>. QED  BY <3>2 DEF Elems
  <2>3. t \in Elems(p)
    BY <1>2 DEF Elems
  <2>. QED  BY <2>1, <2>2, <2>3 DEF Elems
<1>. QED  BY <1>1, <1>2, <1>3, <1>4, <1>5, <1>6 DEF a, p

------------------------------------------------------------------------------
(* The traces of a thread. *)

\* The views of a thread that runs alone, from its start
Chained(s, t) ==
    /\ s # <<>> /\ s[1] = Fresh(t)
    /\ \A i \in 1 .. Len(s) - 1 :
          Kind[s[i].regs] \in {"plain", "putc"} /\ s[i + 1] = After(s[i])

Complete(s, t) == Chained(s, t) /\ Kind[s[Len(s)].regs] = "exit"

PrefixOf(s, f) == Len(s) <= Len(f) /\ \A i \in 1 .. Len(s) : s[i] = f[i]

(* An instruction leaves registers and a hash. *)
LEMMA AfterType ==
  ASSUME NEW v \in Views
  PROVE  After(v) \in Views
BY ProgramAssumption DEF After, Views

LEMMA FreshType ==
  ASSUME NEW t \in Thread
  PROVE  Fresh(t) \in Views
BY ProgramAssumption DEF Fresh, Views

(* A thread that starts has the trace of its start, which is the beginning of any
   other run of it. *)
LEMMA ChainStart ==
  ASSUME NEW t \in Thread
  PROVE  /\ Chained(<<Fresh(t)>>, t)
         /\ \A f \in Seq(Views) : Chained(f, t) => PrefixOf(<<Fresh(t)>>, f)
<1>1. /\ <<Fresh(t)>> # <<>> /\ Len(<<Fresh(t)>>) = 1 /\ <<Fresh(t)>>[1] = Fresh(t)
      /\ <<Fresh(t)>> \in Seq(Views)
  BY FreshType
<1>2. Chained(<<Fresh(t)>>, t)
  BY <1>1 DEF Chained
<1>3. ASSUME NEW f \in Seq(Views), Chained(f, t)
      PROVE  PrefixOf(<<Fresh(t)>>, f)
  <2>1. Len(f) \in Nat \ {0} /\ f[1] = Fresh(t)
    BY <1>3 DEF Chained
  <2>. QED  BY <1>1, <2>1 DEF PrefixOf
<1>. QED  BY <1>2, <1>3

(* An instruction that is not the exit extends the trace, and keeps it a prefix of
   a complete run: this is where a thread is deterministic. *)
LEMMA ChainStep ==
  ASSUME NEW t \in Thread, NEW s \in Seq(Views), Chained(s, t),
         Kind[s[Len(s)].regs] \in {"plain", "putc"}
  PROVE  LET x == Append(s, After(s[Len(s)]))
         IN  /\ Chained(x, t) /\ x[Len(x)] = After(s[Len(s)])
             /\ \A f \in Seq(Views) : Complete(f, t) /\ PrefixOf(s, f) => PrefixOf(x, f)
<1>. DEFINE n == Len(s)
            v == After(s[n])
            x == Append(s, v)
<1>1. n \in Nat \ {0} /\ s[n] \in Views /\ v \in Views
  BY AfterType DEF Chained
<1>2. /\ x \in Seq(Views) /\ Len(x) = n + 1 /\ x[n + 1] = v
      /\ \A i \in 1 .. n : x[i] = s[i]
  <2>. HIDE DEF v
  <2>. QED  BY <1>1
<1>. HIDE DEF x
<1>3. Chained(x, t)
  <2>1. x # <<>> /\ x[1] = Fresh(t)
    BY <1>1, <1>2 DEF Chained
  <2>2. ASSUME NEW i \in 1 .. Len(x) - 1
        PROVE  Kind[x[i].regs] \in {"plain", "putc"} /\ x[i + 1] = After(x[i])
    <3>1. CASE i = n
      BY <1>1, <1>2, <3>1
    <3>2. CASE i # n
      <4>1. i \in 1 .. n - 1 /\ i \in 1 .. n /\ i + 1 \in 1 .. n
        BY <1>1, <1>2, <3>2
      <4>. QED  BY <1>2, <4>1 DEF Chained
    <3>. QED  BY <3>1, <3>2
  <2>. QED  BY <2>1, <2>2 DEF Chained
<1>4. ASSUME NEW f \in Seq(Views), Complete(f, t), PrefixOf(s, f)
      PROVE  PrefixOf(x, f)
  <2>1. Len(f) \in Nat /\ n <= Len(f) /\ f[n] = s[n]
    BY <1>1, <1>4 DEF PrefixOf
  <2>2. n # Len(f)
    BY <2>1, <1>4 DEF Complete
  <2>3. n \in 1 .. Len(f) - 1
    BY <1>1, <2>1, <2>2
  <2>4. f[n + 1] = v
    BY <1>4, <2>1, <2>3 DEF Complete, Chained
  <2>5. ASSUME NEW i \in 1 .. Len(x)
        PROVE  x[i] = f[i]
    <3>1. CASE i = n + 1
      BY <1>2, <2>4, <3>1
    <3>2. CASE i # n + 1
      <4>1. i \in 1 .. n
        BY <1>1, <1>2, <3>2
      <4>. QED  BY <1>2, <1>4, <4>1 DEF PrefixOf
    <3>. QED  BY <3>1, <3>2
  <2>. QED  BY <1>1, <1>2, <2>1, <2>3, <2>5 DEF PrefixOf
<1>. QED  BY <1>2, <1>3, <1>4 DEF x

(* A run that has come to the exit is the whole of the complete run it is a prefix
   of. *)
LEMMA ChainEnd ==
  ASSUME NEW t \in Thread, NEW s \in Seq(Views), Complete(s, t),
         NEW f \in Seq(Views), Complete(f, t), PrefixOf(s, f)
  PROVE  s[Len(s)] = f[Len(f)]
<1>1. /\ Len(s) \in Nat \ {0} /\ Len(f) \in Nat /\ Len(s) <= Len(f)
      /\ s[Len(s)] = f[Len(s)]
  BY DEF PrefixOf, Complete, Chained
<1>2. CASE Len(s) # Len(f)
  <2>1. Len(s) \in 1 .. Len(f) - 1
    BY <1>1, <1>2
  <2>2. Kind[f[Len(s)].regs] \in {"plain", "putc"}
    BY <2>1 DEF Complete, Chained
  <2>. QED  BY <1>1, <2>2 DEF Complete
<1>. QED  BY <1>1, <1>2

------------------------------------------------------------------------------
(* The inductive invariant. *)

Control == TypeOK /\ HandOver /\ Live \subseteq forked

History ==
    /\ \A t \in Live : Chained(trace[t], t) /\ View(t) = LastView(t)
    /\ \A t \in Thread : first_trace[t] # <<>> =>
          /\ t \in forked /\ Complete(first_trace[t], t)
          /\ expected_hash[t] = first_trace[t][Len(first_trace[t])].hash
          /\ t \in Live => PrefixOf(trace[t], first_trace[t])
    /\ NoFalseMismatch

IInv == Control /\ History

TraceTypes ==
    /\ trace \in [Thread -> Seq(Views)]
    /\ first_trace \in [Thread -> Seq(Views)]

(* What a step does to the threads. *)
Quiet == Live' = Live /\ \A u \in Thread : View(u)' = View(u)

Changed(t, v) == View(t)' = v /\ \A u \in Thread \ {t} : View(u)' = View(u)

(* Live, in the words of the queue lemmas. *)
LEMMA LiveThreads ==
  ASSUME Control
  PROVE  /\ Live = Elems(equiv_runq) \cup {t \in Thread : OnCpu(t)}
         /\ Distinct(equiv_runq) /\ Live \subseteq Thread
         /\ \A t \in Thread : OnCpu(t) => t \in Live /\ t \notin Elems(equiv_runq)
<1>1. Elems(equiv_runq) = Range_runq /\ Elems(equiv_runq) \subseteq Thread
  BY DEF Elems, Range_runq, Control, TypeOK
<1>. QED  BY <1>1 DEF Control, HandOver, Distinct, Live

(* A thread that is not stopped has the registers of the processor and its own
   hash; a stopped one will be hashed. *)
LEMMA RunningView ==
  ASSUME Control, mode = "user"
  PROVE  /\ cur_thread \in Thread /\ OnCpu(cur_thread) /\ cur_thread \in Live
         /\ cur_thread \notin Elems(equiv_runq)
         /\ \A u \in Thread \ {cur_thread} :
               ~OnCpu(u) /\ View(u) = [regs |-> regs[u], hash |-> reg_hash[u]]
         /\ ~Stopped => View(cur_thread) = [regs |-> cpu, hash |-> reg_hash[cur_thread]]
         /\ Stopped => View(cur_thread) =
                          [regs |-> cpu, hash |-> Append(reg_hash[cur_thread], cpu)]
<1>1. cur_thread \in Thread /\ single_step_on_p
  BY DEF Control, TypeOK, HandOver
<1>2. OnCpu(cur_thread) /\ \A u \in Thread \ {cur_thread} : ~OnCpu(u)
  BY DEF OnCpu
<1>3. cur_thread \in Live /\ cur_thread \notin Elems(equiv_runq)
  BY <1>1, <1>2, LiveThreads
<1>. QED  BY <1>1, <1>2, <1>3 DEF View, Stopped

(* mismatch_run of the next thread: whoever has the processor, the views are what
   the handler saved. *)
LEMMA MismatchRunViews ==
  ASSUME NEW saved \in [Thread -> Regs], regs' = saved,
         NEW t \in Thread, MismatchRun(t, saved)
  PROVE  /\ mode' = "user" /\ cur_thread' = t /\ cpu' \in Regs /\ bvr0' \in Addr
         /\ {u \in Thread : OnCpu(u)'} = {t}
         /\ \A u \in Thread : View(u)' = [regs |-> saved[u], hash |-> reg_hash'[u]]
<1>1. /\ mode' = "user" /\ cur_thread' = t /\ cpu' = saved[t] /\ bvr0' = Pc[cpu']
      /\ cpu' \in Regs /\ bvr0' \in Addr
  BY ProgramAssumption DEF MismatchRun, MismatchPcSet, SwitchTo
<1>2. {u \in Thread : OnCpu(u)'} = {t}
  BY <1>1 DEF OnCpu
<1>. QED  BY <1>1, <1>2 DEF OnCpu, View

(* equiv_schedule hands the processor over and loses no thread. *)
LEMMA ScheduleHandsOver ==
  ASSUME Control, mode = "user", NEW saved \in [Thread -> Regs], regs' = saved,
         EquivSchedule(saved)
  PROVE  /\ mode' = "user" /\ cur_thread' \in Thread /\ cpu' \in Regs /\ bvr0' \in Addr
         /\ equiv_runq' \in Seq(Thread) /\ Distinct(equiv_runq')
         /\ cur_thread' \notin Elems(equiv_runq') /\ Live' = Live
         /\ \A u \in Thread : View(u)' = [regs |-> saved[u], hash |-> reg_hash'[u]]
<1>1. /\ cur_thread \in Thread /\ cur_thread \notin Elems(equiv_runq)
      /\ equiv_runq \in Seq(Thread) /\ Distinct(equiv_runq)
      /\ Live = Elems(equiv_runq) \cup {cur_thread}
  BY RunningView, LiveThreads DEF Control, TypeOK
<1>2. Live' = Elems(equiv_runq') \cup {u \in Thread : OnCpu(u)'}
  BY DEF Live, Range_runq, Elems
<1>3. CASE equiv_runq = <<>>
  <2>1. equiv_runq' = equiv_runq /\ MismatchRun(cur_thread, saved)
    BY <1>3 DEF EquivSchedule
  <2>. QED  BY <1>1, <1>2, <2>1, MismatchRunViews
<1>4. CASE equiv_runq # <<>>
  <2>. DEFINE th == Head(equiv_runq)
              rest == Tail(equiv_runq)
  <2>1. equiv_runq' = Appended(rest, cur_thread) /\ MismatchRun(th, saved)
    BY <1>4 DEF EquivSchedule
  <2>2. /\ th \in Thread /\ th \in Elems(equiv_runq)
        /\ rest \in Seq(Thread) /\ Distinct(rest) /\ Elems(rest) = Elems(equiv_runq) \ {th}
    BY <1>1, <1>4, PopThread
  <2>3. /\ equiv_runq' \in Seq(Thread) /\ Distinct(equiv_runq')
        /\ Elems(equiv_runq') = (Elems(equiv_runq) \ {th}) \cup {cur_thread}
    BY <1>1, <2>1, <2>2, PutThread
  <2>. QED  BY <1>1, <1>2, <2>1, <2>2, <2>3, MismatchRunViews
<1>. QED  BY <1>3, <1>4

------------------------------------------------------------------------------
(* One lemma per action: what it does to the threads, and that it keeps Control. *)

LEMMA InstructionStep ==
  ASSUME Control, TraceTypes', Instruction, NEW t, t = cur_thread
  PROVE  Control' /\ Live' = Live /\ Changed(t, After(View(t)))
<1>1. /\ mode = "user" /\ ~Stopped /\ cpu \in Regs /\ Kind[cpu] = "plain"
      /\ cpu' = Execute[cpu] /\ cpu' \in Regs
      /\ mode' = "user" /\ cur_thread' = t /\ bvr0' = bvr0 /\ equiv_runq' = equiv_runq
  BY ProgramAssumption DEF Instruction, Control, TypeOK
<1>2. Control'
  <2>1. TypeOK'
    BY <1>1 DEF Instruction, Control, TypeOK, TraceTypes
  <2>2. HandOver' /\ Live' = Live
    BY <1>1 DEF Instruction, Control, HandOver, Live, Range_runq, OnCpu
  <2>. QED  BY <2>1, <2>2 DEF Control, Instruction
<1>3. Live' = Live
  BY <1>1 DEF Live, Range_runq, OnCpu
<1>4. View(t) = [regs |-> cpu, hash |-> reg_hash[t]] /\ bvr0 = Pc[cpu]
  BY <1>1, RunningView DEF Stopped, Control, HandOver
<1>5. View(t)' = After(View(t))
  BY <1>1, <1>4 DEF View, OnCpu, After, Instruction
<1>6. \A u \in Thread \ {t} : View(u)' = View(u)
  BY <1>1 DEF View, OnCpu, Instruction
<1>. QED  BY <1>2, <1>3, <1>5, <1>6 DEF Changed

(* The fault that ends a turn only moves registers from the processor to the
   thread: no thread sees it. *)
LEMMA FaultStep ==
  ASSUME Control, TraceTypes', MismatchFault
  PROVE  Control' /\ Quiet
<1>. DEFINE t == cur_thread
            saved == [regs EXCEPT ![t] = cpu]
<1>1. /\ mode = "user" /\ Stopped /\ regs' = saved /\ EquivSchedule(saved)
      /\ reg_hash' = [reg_hash EXCEPT ![t] = Append(reg_hash[t], cpu)]
  BY DEF MismatchFault
<1>2. t \in Thread /\ saved \in [Thread -> Regs]
  BY <1>1, RunningView DEF Control, TypeOK
<1>. HIDE DEF saved
<1>3. /\ mode' = "user" /\ cur_thread' \in Thread /\ cpu' \in Regs /\ bvr0' \in Addr
      /\ equiv_runq' \in Seq(Thread) /\ Distinct(equiv_runq')
      /\ cur_thread' \notin Elems(equiv_runq') /\ Live' = Live
      /\ \A u \in Thread : View(u)' = [regs |-> saved[u], hash |-> reg_hash'[u]]
  BY <1>1, <1>2, ScheduleHandsOver
<1>4. TypeOK'
  <2>1. reg_hash' \in [Thread -> Seq(Regs)]
    BY <1>1, <1>2 DEF Control, TypeOK
  <2>. QED  BY <1>1, <1>2, <1>3, <2>1 DEF MismatchFault, Control, TypeOK, TraceTypes, Modes
<1>5. HandOver'
  BY <1>1, <1>3 DEF MismatchFault, Control, HandOver, Distinct, Elems, Range_runq, OnCpu
<1>6. \A u \in Thread : View(u)' = View(u)
  BY <1>1, <1>2, <1>3, RunningView DEF saved, Control, TypeOK
<1>. QED  BY <1>3, <1>4, <1>5, <1>6 DEF Quiet, Control, MismatchFault

LEMMA PutcStep ==
  ASSUME Control, TraceTypes', SyscallPutc, NEW t, t = cur_thread
  PROVE  Control' /\ Live' = Live /\ Changed(t, After(View(t)))
<1>. DEFINE saved == [regs EXCEPT ![t] = Execute[cpu]]
<1>1. /\ mode = "user" /\ ~Stopped /\ Kind[cpu] = "putc" /\ cpu \in Regs
      /\ regs' = saved /\ EquivSchedule(saved) /\ reg_hash' = reg_hash
  BY DEF SyscallPutc, Syscall, Control, TypeOK
<1>2. t \in Thread /\ saved \in [Thread -> Regs]
  BY <1>1, RunningView, ProgramAssumption DEF Control, TypeOK
<1>. HIDE DEF saved
<1>3. /\ mode' = "user" /\ cur_thread' \in Thread /\ cpu' \in Regs /\ bvr0' \in Addr
      /\ equiv_runq' \in Seq(Thread) /\ Distinct(equiv_runq')
      /\ cur_thread' \notin Elems(equiv_runq') /\ Live' = Live
      /\ \A u \in Thread : View(u)' = [regs |-> saved[u], hash |-> reg_hash'[u]]
  BY <1>1, <1>2, ScheduleHandsOver
<1>4. TypeOK'
  BY <1>1, <1>2, <1>3 DEF SyscallPutc, Control, TypeOK, TraceTypes, Modes
<1>5. HandOver'
  BY <1>1, <1>3 DEF SyscallPutc, Control, HandOver, Distinct, Elems, Range_runq, OnCpu
<1>6. View(t)' = After(View(t))
  <2>1. View(t) = [regs |-> cpu, hash |-> reg_hash[t]]
    BY <1>1, RunningView
  <2>2. After(View(t)) = [regs |-> Execute[cpu], hash |-> reg_hash[t]]
    BY <1>1, <2>1 DEF After
  <2>3. saved[t] = Execute[cpu]
    BY <1>2 DEF saved, Control, TypeOK
  <2>. QED  BY <1>1, <1>2, <1>3, <2>2, <2>3
<1>7. \A u \in Thread \ {t} : View(u)' = View(u)
  BY <1>1, <1>2, <1>3, RunningView DEF saved, Control, TypeOK
<1>. QED  BY <1>3, <1>4, <1>5, <1>6, <1>7 DEF Changed, Control, SyscallPutc

(* A panic stops the threads where they are. *)
LEMMA PanicStep ==
  ASSUME Control, TraceTypes', SyscallIllegal \/ ExitMismatch
  PROVE  Control' /\ Quiet
<1>1. /\ mode = "user" /\ ~Stopped /\ mode' \in {"illegal", "mismatch"} /\ cpu \in Regs
      /\ regs' = [regs EXCEPT ![cur_thread] = Execute[cpu]]
      /\ UNCHANGED <<equiv_runq, cur_thread, forked, reg_hash, expected_hash, hwVars,
                     history>>
  BY DEF SyscallIllegal, ExitMismatch, Syscall, Control, TypeOK
<1>2. cur_thread \in Thread /\ regs' \in [Thread -> Regs]
  BY <1>1, RunningView, ProgramAssumption DEF Control, TypeOK
<1>3. \A u \in Thread : OnCpu(u)' <=> OnCpu(u)
  BY <1>1 DEF OnCpu
<1>4. Live' = Live
  BY <1>1, <1>3 DEF Live, Range_runq
<1>5. TypeOK'
  BY <1>1, <1>2 DEF Control, TypeOK, Modes, hwVars, history
<1>6. HandOver'
  BY <1>1, <1>3 DEF Control, HandOver, Range_runq, hwVars
<1>7. \A u \in Thread : View(u)' = View(u)
  <2>1. \A u \in Thread : OnCpu(u) <=> u = cur_thread
    BY <1>1 DEF OnCpu
  <2>. QED  BY <1>1, <1>2, <1>3, <2>1 DEF View, hwVars, Control, TypeOK
<1>. QED  BY <1>1, <1>4, <1>5, <1>6, <1>7 DEF Quiet, Control

(* An exit takes one thread away, and the processor to the next. *)
LEMMA ExitStep ==
  ASSUME Control, TraceTypes', SyscallExit, NEW t, t = cur_thread
  PROVE  /\ Control' /\ Live' = Live \ {t}
         /\ Changed(t, After(View(t)))
<1>. DEFINE saved == [regs EXCEPT ![t] = Execute[cpu]]
<1>1. /\ mode = "user" /\ ~Stopped /\ Kind[cpu] = "exit" /\ cpu \in Regs
      /\ regs' = saved /\ reg_hash' = reg_hash /\ forked' = forked
      /\ expected_hash' = [expected_hash EXCEPT ![t] = reg_hash[t]]
  BY DEF SyscallExit, Syscall, Control, TypeOK
<1>2. t \in Thread /\ saved \in [Thread -> Regs]
  BY <1>1, RunningView, ProgramAssumption DEF Control, TypeOK
<1>3. /\ Live = Elems(equiv_runq) \cup {t} /\ t \notin Elems(equiv_runq)
      /\ equiv_runq \in Seq(Thread) /\ Distinct(equiv_runq)
  BY <1>1, RunningView, LiveThreads DEF Control, TypeOK
<1>4. Live' = Elems(equiv_runq') \cup {u \in Thread : OnCpu(u)'}
  BY DEF Live, Range_runq, Elems
<1>. HIDE DEF saved
<1>5. /\ TypeOK' /\ HandOver' /\ Live' = Live \ {t}
      /\ \A u \in Thread : View(u)' = [regs |-> saved[u], hash |-> reg_hash'[u]]
  <2>1. CASE equiv_runq = <<>>
    <3>1. /\ mode' = "client" /\ single_step_on_p' = FALSE
          /\ UNCHANGED <<equiv_runq, cur_thread, cpu, bvr0>>
      BY <2>1 DEF SyscallExit, NextAfterExit, MismatchOff
    <3>2. Live' = Live \ {t} /\ \A u \in Thread : ~OnCpu(u)'
      BY <1>3, <1>4, <2>1, <3>1 DEF OnCpu, Elems
    <3>3. TypeOK'
      BY <1>1, <1>2, <3>1 DEF Control, TypeOK, TraceTypes, Modes
    <3>4. HandOver'
      BY <3>1, <3>2 DEF Control, HandOver, Range_runq
    <3>. QED  BY <1>1, <3>2, <3>3, <3>4 DEF View
  <2>2. CASE equiv_runq # <<>>
    <3>. DEFINE th == Head(equiv_runq)
    <3>1. /\ equiv_runq' = Tail(equiv_runq) /\ MismatchRun(th, saved)
          /\ single_step_on_p' = single_step_on_p
      BY <1>1, <2>2 DEF SyscallExit, NextAfterExit
    <3>2. /\ th \in Thread /\ th \in Elems(equiv_runq)
          /\ equiv_runq' \in Seq(Thread) /\ Distinct(equiv_runq')
          /\ Elems(equiv_runq') = Elems(equiv_runq) \ {th}
      BY <1>3, <2>2, <3>1, PopThread
    <3>3. /\ mode' = "user" /\ cur_thread' = th /\ cpu' \in Regs /\ bvr0' \in Addr
          /\ {u \in Thread : OnCpu(u)'} = {th}
          /\ \A u \in Thread : View(u)' = [regs |-> saved[u], hash |-> reg_hash'[u]]
      BY <1>1, <1>2, <3>1, <3>2, MismatchRunViews
    <3>4. Live' = Live \ {t}
      BY <1>3, <1>4, <3>2, <3>3
    <3>5. TypeOK'
      BY <1>1, <1>2, <3>1, <3>2, <3>3 DEF Control, TypeOK, TraceTypes, Modes
    <3>6. HandOver'
      BY <1>1, <3>1, <3>2, <3>3 DEF Control, HandOver, Distinct, Elems, Range_runq, OnCpu
    <3>. QED  BY <3>3, <3>4, <3>5, <3>6
  <2>. QED  BY <2>1, <2>2
<1>6. View(t)' = After(View(t))
  <2>1. View(t) = [regs |-> cpu, hash |-> reg_hash[t]]
    BY <1>1, RunningView
  <2>2. After(View(t)) = [regs |-> Execute[cpu], hash |-> reg_hash[t]]
    BY <1>1, <2>1 DEF After
  <2>3. saved[t] = Execute[cpu]
    BY <1>2 DEF saved, Control, TypeOK
  <2>. QED  BY <1>1, <1>2, <1>5, <2>2, <2>3
<1>7. \A u \in Thread \ {t} : View(u)' = View(u)
  BY <1>1, <1>2, <1>5, RunningView DEF saved, Control, TypeOK
<1>. QED  BY <1>1, <1>5, <1>6, <1>7 DEF Changed, Control

(* equiv_fork and equiv_refresh add one thread, as if it had never run. *)
LEMMA StartStep ==
  ASSUME Control, TraceTypes', NEW t \in Thread, t \notin Live,
         mode = "client", StartThread(t), UNCHANGED <<mode, cur_thread, hwVars>>,
         forked' = forked \cup {t}, expected_hash' \in [Thread -> Seq(Regs)]
  PROVE  Control' /\ Live' = Live \cup {t} /\ Changed(t, Fresh(t))
<1>0. \A u \in Thread : ~OnCpu(u) /\ ~OnCpu(u)'
  BY DEF OnCpu
<1>1. /\ equiv_runq \in Seq(Thread) /\ Distinct(equiv_runq)
      /\ Live = Elems(equiv_runq) /\ \A u \in Thread : ~OnCpu(u) /\ ~OnCpu(u)'
  BY <1>0, LiveThreads DEF Control, TypeOK
<1>2. /\ equiv_runq' \in Seq(Thread) /\ Distinct(equiv_runq')
      /\ Elems(equiv_runq') = Elems(equiv_runq) \cup {t}
  BY <1>1, PutThread DEF StartThread
<1>3. Live' = Live \cup {t}
  BY <1>1, <1>2 DEF Live, Range_runq, Elems
<1>4. /\ regs' \in [Thread -> Regs] /\ reg_hash' \in [Thread -> Seq(Regs)]
  <2>1. <<>> \in Seq(Regs) /\ Entry[t] \in Regs
    BY ProgramAssumption
  <2>2. regs' \in [Thread -> Regs]
    BY <2>1 DEF StartThread, Control, TypeOK
  <2>3. reg_hash' \in [Thread -> Seq(Regs)]
    BY <2>1 DEF StartThread, Control, TypeOK
  <2>. QED  BY <2>2, <2>3
<1>5. TypeOK'
  BY <1>2, <1>4 DEF Control, TypeOK, TraceTypes, hwVars
<1>6. HandOver'
  BY <1>1, <1>2 DEF Control, HandOver, Distinct, hwVars
<1>7. Changed(t, Fresh(t))
  BY <1>1, <1>4 DEF Changed, View, Fresh, StartThread, Control, TypeOK
<1>. QED  BY <1>3, <1>5, <1>6, <1>7 DEF Control

(* equiv_run takes a thread off the queue and gives it the processor. *)
LEMMA RunStep ==
  ASSUME Control, TraceTypes', EquivRun
  PROVE  Control' /\ Quiet
<1>. DEFINE th == Head(equiv_runq)
<1>1. /\ equiv_runq \in Seq(Thread) /\ Distinct(equiv_runq) /\ equiv_runq # <<>>
      /\ Live = Elems(equiv_runq) /\ regs \in [Thread -> Regs]
      /\ \A u \in Thread : View(u) = [regs |-> regs[u], hash |-> reg_hash[u]]
  BY LiveThreads DEF EquivRun, Control, TypeOK, OnCpu, View
<1>2. /\ equiv_runq' = Tail(equiv_runq) /\ MismatchRun(th, regs)
      /\ single_step_on_p' = TRUE
      /\ UNCHANGED <<forked, regs, reg_hash, expected_hash, history>>
  BY DEF EquivRun, MismatchOn
<1>3. /\ th \in Thread /\ th \in Elems(equiv_runq)
      /\ equiv_runq' \in Seq(Thread) /\ Distinct(equiv_runq')
      /\ Elems(equiv_runq') = Elems(equiv_runq) \ {th}
  BY <1>1, <1>2, PopThread
<1>4. /\ mode' = "user" /\ cur_thread' = th /\ cpu' \in Regs /\ bvr0' \in Addr
      /\ {u \in Thread : OnCpu(u)'} = {th}
      /\ \A u \in Thread : View(u)' = [regs |-> regs[u], hash |-> reg_hash'[u]]
  BY <1>1, <1>2, <1>3, MismatchRunViews
<1>5. Live' = Live
  BY <1>1, <1>3, <1>4 DEF Live, Range_runq, Elems
<1>6. TypeOK'
  BY <1>2, <1>3, <1>4 DEF Control, TypeOK, TraceTypes, Modes
<1>7. HandOver'
  BY <1>2, <1>3, <1>4 DEF HandOver, Distinct, Elems, Range_runq, OnCpu
<1>. QED  BY <1>1, <1>2, <1>4, <1>5, <1>6, <1>7 DEF Quiet, Control

LEMMA EmptyStep ==
  ASSUME Control, TraceTypes', EquivRunEmpty
  PROVE  Control' /\ Quiet
<1>1. /\ \A u \in Thread : ~OnCpu(u) /\ ~OnCpu(u)'
      /\ mode = "client" /\ mode' = "empty" /\ cur_thread' = NULL
      /\ UNCHANGED <<equiv_runq, forked, regs, reg_hash, expected_hash, hwVars, history>>
  BY DEF EquivRunEmpty, OnCpu
<1>2. Live' = Live
  BY <1>1 DEF Live, Range_runq
<1>3. TypeOK'
  BY <1>1 DEF Control, TypeOK, Modes, hwVars, history
<1>4. HandOver'
  BY <1>1 DEF Control, HandOver, Range_runq, hwVars
<1>. QED  BY <1>1, <1>2, <1>3, <1>4 DEF Quiet, Control, View

------------------------------------------------------------------------------
(* What the steps do to the traces. *)

(* A trace grows by views only. *)
LEMMA RecordType ==
  ASSUME IInv, mode = "user", Record(cur_thread)
  PROVE  trace' \in [Thread -> Seq(Views)]
<1>1. /\ cur_thread \in Live /\ cur_thread \in Thread
      /\ trace \in [Thread -> Seq(Views)] /\ trace[cur_thread] # <<>>
  BY RunningView DEF IInv, Control, TypeOK, History, Chained
<1>2. LastView(cur_thread) \in Views
  BY <1>1 DEF LastView
<1>. QED  BY <1>1, <1>2, AfterType DEF Record

LEMMA TraceTyping ==
  ASSUME IInv, Next
  PROVE  TraceTypes'
<1>. USE DEF TraceTypes, IInv, Control, TypeOK
<1>1. ASSUME NEW t \in Thread, NEW hash, EquivFork(t, hash) \/ EquivRefresh(t)
      PROVE  TraceTypes'
  <2>1. <<Fresh(t)>> \in Seq(Views)
    BY FreshType
  <2>. QED  BY <1>1, <2>1 DEF EquivFork, EquivRefresh, StartThread
<1>2. CASE EquivRun \/ EquivRunEmpty \/ MismatchFault \/ SyscallIllegal \/ ExitMismatch
  BY <1>2 DEF EquivRun, EquivRunEmpty, MismatchFault, SyscallIllegal, ExitMismatch, history
<1>3. CASE Instruction \/ SyscallPutc
  BY <1>3, RecordType DEF Instruction, SyscallPutc, Syscall
<1>4. CASE SyscallExit
  BY <1>4 DEF SyscallExit
<1>. QED  BY <1>1, <1>2, <1>3, <1>4 DEF Next, User

(* A step that no thread sees keeps the history. *)
LEMMA QuietHistory ==
  ASSUME IInv, Quiet, UNCHANGED <<forked, expected_hash, history>>, NoFalseMismatch'
  PROVE  History'
<1>1. \A t \in Live : t \in Thread
  BY LiveThreads DEF IInv
<1>. QED  BY <1>1 DEF IInv, History, Quiet, history, LastView

(* An instruction of a thread extends its trace by what it did. *)
LEMMA AdvanceHistory ==
  ASSUME IInv, NEW t \in Thread, t \in Live, Live' = Live, Changed(t, After(View(t))),
         Kind[View(t).regs] \in {"plain", "putc"}, Record(t),
         UNCHANGED <<forked, expected_hash, first_trace>>, NoFalseMismatch'
  PROVE  History'
<1>. DEFINE s == trace[t]
            x == Append(s, After(s[Len(s)]))
<1>1. /\ trace \in [Thread -> Seq(Views)] /\ first_trace \in [Thread -> Seq(Views)]
      /\ Live \subseteq Thread
  BY LiveThreads DEF IInv, Control, TypeOK
<1>2. s \in Seq(Views) /\ Chained(s, t) /\ View(t) = s[Len(s)]
  BY <1>1 DEF IInv, History, LastView
<1>3. trace' = [trace EXCEPT ![t] = x]
  BY DEF Record, LastView
<1>4. /\ Chained(x, t) /\ x[Len(x)] = After(s[Len(s)])
      /\ \A f \in Seq(Views) : Complete(f, t) /\ PrefixOf(s, f) => PrefixOf(x, f)
  BY <1>2, ChainStep
<1>. HIDE DEF x
<1>5. trace'[t] = x /\ \A u \in Thread \ {t} : trace'[u] = trace[u]
  BY <1>1, <1>3
<1>6. ASSUME NEW u \in Live'
      PROVE  Chained(trace'[u], u) /\ View(u)' = trace'[u][Len(trace'[u])]
  <2>1. CASE u = t
    BY <1>2, <1>4, <1>5, <2>1 DEF Changed
  <2>2. CASE u # t
    <3>1. u \in Live /\ u \in Thread /\ trace'[u] = trace[u] /\ View(u)' = View(u)
      BY <1>1, <1>5, <2>2 DEF Changed
    <3>. QED  BY <3>1 DEF IInv, History, LastView
  <2>. QED  BY <2>1, <2>2
<1>7. ASSUME NEW u \in Thread, first_trace[u] # <<>>, u \in Live
      PROVE  PrefixOf(trace'[u], first_trace[u])
  BY <1>1, <1>4, <1>5, <1>7 DEF IInv, History
<1>8. ASSUME NEW u \in Thread, first_trace'[u] # <<>>
      PROVE  /\ u \in forked' /\ Complete(first_trace'[u], u)
             /\ expected_hash'[u] = first_trace'[u][Len(first_trace'[u])].hash
             /\ u \in Live' => PrefixOf(trace'[u], first_trace'[u])
  BY <1>7, <1>8 DEF IInv, History
<1>. QED  BY <1>6, <1>8 DEF History, LastView

(* A thread that starts has its start for a trace. *)
LEMMA StartHistory ==
  ASSUME IInv, NEW t \in Thread, Live' = Live \cup {t}, Changed(t, Fresh(t)),
         trace' = [trace EXCEPT ![t] = <<Fresh(t)>>], first_trace' = first_trace,
         forked' = forked \cup {t}, NoFalseMismatch',
         \A u \in Thread : first_trace[u] # <<>> => expected_hash'[u] = expected_hash[u]
  PROVE  History'
<1>. DEFINE x == <<Fresh(t)>>
<1>1. /\ trace \in [Thread -> Seq(Views)] /\ first_trace \in [Thread -> Seq(Views)]
      /\ Live \subseteq Thread
  BY LiveThreads DEF IInv, Control, TypeOK
<1>2. /\ Chained(x, t) /\ x[Len(x)] = Fresh(t)
      /\ \A f \in Seq(Views) : Chained(f, t) => PrefixOf(x, f)
  BY ChainStart
<1>. HIDE DEF x
<1>3. trace'[t] = x /\ \A u \in Thread \ {t} : trace'[u] = trace[u]
  BY <1>1 DEF x
<1>4. ASSUME NEW u \in Live'
      PROVE  Chained(trace'[u], u) /\ View(u)' = trace'[u][Len(trace'[u])]
  <2>1. CASE u = t
    BY <1>2, <1>3, <2>1 DEF Changed
  <2>2. CASE u # t
    <3>1. u \in Live /\ u \in Thread /\ trace'[u] = trace[u] /\ View(u)' = View(u)
      BY <1>1, <1>3, <2>2 DEF Changed
    <3>. QED  BY <3>1 DEF IInv, History, LastView
  <2>. QED  BY <2>1, <2>2
<1>5. ASSUME NEW u \in Thread, first_trace[u] # <<>>, u \in Live'
      PROVE  PrefixOf(trace'[u], first_trace[u])
  BY <1>1, <1>2, <1>3, <1>5 DEF IInv, History, Complete
<1>6. ASSUME NEW u \in Thread, first_trace'[u] # <<>>
      PROVE  /\ u \in forked' /\ Complete(first_trace'[u], u)
             /\ expected_hash'[u] = first_trace'[u][Len(first_trace'[u])].hash
             /\ u \in Live' => PrefixOf(trace'[u], first_trace'[u])
  BY <1>5, <1>6 DEF IInv, History
<1>. QED  BY <1>4, <1>6 DEF History, LastView

(* A run that ends confirms the hash that is known, or makes it known. *)
LEMMA ExitHistory ==
  ASSUME IInv, NEW t \in Thread, t \in Live, Live' = Live \ {t},
         Changed(t, After(View(t))), Kind[View(t).regs] = "exit",
         expected_hash' = [expected_hash EXCEPT ![t] = View(t).hash],
         first_trace' = IF first_trace[t] = <<>>
                        THEN [first_trace EXCEPT ![t] = trace[t]] ELSE first_trace,
         UNCHANGED <<forked, trace>>, NoFalseMismatch'
  PROVE  History'
<1>1. /\ trace \in [Thread -> Seq(Views)] /\ first_trace \in [Thread -> Seq(Views)]
      /\ expected_hash \in [Thread -> Seq(Regs)] /\ Live \subseteq forked
      /\ Live \subseteq Thread
  BY LiveThreads DEF IInv, Control, TypeOK
<1>2. /\ trace[t] \in Seq(Views) /\ Complete(trace[t], t)
      /\ View(t) = trace[t][Len(trace[t])]
  BY <1>1 DEF IInv, History, LastView, Complete
<1>3. ASSUME NEW u \in Live'
      PROVE  Chained(trace[u], u)' /\ View(u)' = LastView(u)'
  BY <1>1 DEF Changed, IInv, History, LastView, Chained, Fresh, After
<1>4. ASSUME NEW u \in Thread \ {t}
      PROVE  first_trace'[u] = first_trace[u] /\ expected_hash'[u] = expected_hash[u]
  BY <1>1
<1>5. /\ first_trace'[t] \in Seq(Views) /\ Complete(first_trace'[t], t)
      /\ expected_hash'[t] = first_trace'[t][Len(first_trace'[t])].hash
  <2>1. expected_hash'[t] = View(t).hash
    BY <1>1
  <2>2. CASE first_trace[t] = <<>>
    BY <1>1, <1>2, <2>1, <2>2
  <2>3. CASE first_trace[t] # <<>>
    <3>1. /\ first_trace[t] \in Seq(Views) /\ Complete(first_trace[t], t)
          /\ PrefixOf(trace[t], first_trace[t])
      BY <1>1, <2>3 DEF IInv, History
    <3>2. View(t) = first_trace[t][Len(first_trace[t])]
      BY <1>2, <3>1, ChainEnd
    <3>. QED  BY <2>1, <2>3, <3>1, <3>2
  <2>. QED  BY <2>2, <2>3
<1>6. ASSUME NEW u \in Thread, first_trace'[u] # <<>>
      PROVE  /\ u \in forked' /\ Complete(first_trace'[u], u)
             /\ expected_hash'[u] = first_trace'[u][Len(first_trace'[u])].hash
             /\ u \in Live' => PrefixOf(trace'[u], first_trace'[u])
  <2>1. CASE u = t
    BY <1>1, <1>5, <2>1
  <2>2. CASE u # t
    BY <1>4, <1>6, <2>2 DEF IInv, History
  <2>. QED  BY <2>1, <2>2
<1>. QED  BY <1>3, <1>6 DEF History

(* The comparison at EQUIV_EXIT fails only for a thread that has completed no run. *)
LEMMA MismatchIsNew ==
  ASSUME IInv, ExitMismatch
  PROVE  first_trace[cur_thread] = <<>>
<1>. DEFINE t == cur_thread
<1>1. /\ mode = "user" /\ ~Stopped /\ Kind[cpu] = "exit"
      /\ expected_hash[t] # reg_hash[t] /\ t \in Thread /\ t \in Live
      /\ View(t) = [regs |-> cpu, hash |-> reg_hash[t]]
  BY RunningView DEF ExitMismatch, Syscall, HashAccepted, IInv
<1>2. /\ trace[t] \in Seq(Views) /\ first_trace[t] \in Seq(Views)
      /\ Complete(trace[t], t) /\ View(t) = trace[t][Len(trace[t])]
  BY <1>1 DEF IInv, Control, TypeOK, History, LastView, Complete
<1>3. CASE first_trace[t] # <<>>
  <2>1. /\ Complete(first_trace[t], t) /\ PrefixOf(trace[t], first_trace[t])
        /\ expected_hash[t] = first_trace[t][Len(first_trace[t])].hash
    BY <1>1, <1>3 DEF IInv, History
  <2>2. View(t) = first_trace[t][Len(first_trace[t])]
    BY <1>1, <1>2, <2>1, ChainEnd
  <2>. QED  BY <1>1, <2>1, <2>2
<1>. QED  BY <1>3

------------------------------------------------------------------------------
(* The theorems. *)

AloneStep == Alone!AloneNext \/ UNCHANGED Alone!aloneVars

(* What the abstract threads do when the threads of the processor do it. *)
LEMMA QuietAlone ==
  ASSUME Quiet, UNCHANGED <<forked, expected_hash>>
  PROVE  AloneStep
BY DEF AloneStep, Alone!aloneVars, Quiet

LEMMA ViewChange ==
  ASSUME NEW t \in Thread, NEW v, Changed(t, v)
  PROVE  [u \in Thread |-> View(u)]' = [[u \in Thread |-> View(u)] EXCEPT ![t] = v]
BY DEF Changed

LEMMA InitInv ==
  ASSUME Init
  PROVE  IInv /\ Alone!AloneInit
<1>1. Range_runq = {} /\ \A t \in Thread : ~OnCpu(t)
  BY DEF Init, Range_runq, OnCpu
<1>2. Live = {}
  BY <1>1 DEF Live
<1>3. TypeOK
  <2>1. /\ <<>> \in Seq(Regs) /\ <<>> \in Seq(Views) /\ <<>> \in Seq(Thread)
    OBVIOUS
  <2>2. /\ reg_hash \in [Thread -> Seq(Regs)] /\ expected_hash \in [Thread -> Seq(Regs)]
        /\ trace \in [Thread -> Seq(Views)] /\ first_trace \in [Thread -> Seq(Views)]
    BY <2>1 DEF Init
  <2>3. cpu \in Regs /\ bvr0 \in Addr /\ regs \in [Thread -> Regs]
    BY ProgramAssumption DEF Init
  <2>. QED  BY <2>1, <2>2, <2>3 DEF Init, TypeOK, Modes
<1>4. HandOver
  BY <1>1 DEF Init, HandOver
<1>5. History
  BY <1>2 DEF Init, History, NoFalseMismatch
<1>6. Alone!AloneInit
  BY <1>1, <1>2, ProgramAssumption DEF Init, Alone!AloneInit, Alone!Fresh, View
<1>. QED  BY <1>2, <1>3, <1>4, <1>5, <1>6 DEF IInv, Control

(* Every action keeps the invariant, and is a step of one thread alone or of none. *)
LEMMA StartInv ==
  ASSUME IInv, NEW t \in Thread,
         (\E hash \in Expected[t] : EquivFork(t, hash)) \/ EquivRefresh(t)
  PROVE  IInv' /\ AloneStep
<1>1. TraceTypes'
  <2>1. Next
    BY DEF Next
  <2>. QED  BY <2>1, TraceTyping
<1>2. /\ mode = "client" /\ StartThread(t) /\ UNCHANGED <<mode, cur_thread, hwVars, first_trace>>
      /\ forked' = forked \cup {t} /\ t \notin Live
  <2>1. Live = Range_runq /\ Live \subseteq forked
    BY DEF EquivFork, EquivRefresh, IInv, Control, Live, OnCpu
  <2>. QED  BY <2>1 DEF EquivFork, EquivRefresh, Range_runq
<1>3. /\ expected_hash' \in [Thread -> Seq(Regs)]
      /\ \A u \in Thread : first_trace[u] # <<>> => expected_hash'[u] = expected_hash[u]
  <2>0. expected_hash \in [Thread -> Seq(Regs)]
    BY DEF IInv, Control, TypeOK
  <2>1. CASE EquivRefresh(t)
    BY <2>0, <2>1 DEF EquivRefresh
  <2>2. CASE \E hash \in Expected[t] : EquivFork(t, hash)
    <3>1. PICK hash \in Expected[t] : EquivFork(t, hash)
      BY <2>2
    <3>2. hash \in Seq(Regs)
      BY ProgramAssumption
    <3>3. t \notin forked /\ expected_hash' = [expected_hash EXCEPT ![t] = hash]
      BY <3>1 DEF EquivFork
    <3>4. first_trace[t] = <<>>
      BY <3>3 DEF IInv, History
    <3>. QED  BY <2>0, <3>2, <3>3, <3>4
  <2>. QED  BY <2>1, <2>2
<1>4. Control' /\ Live' = Live \cup {t} /\ Changed(t, Fresh(t))
  BY <1>1, <1>2, <1>3, StartStep DEF IInv
<1>5. History'
  <2>1. NoFalseMismatch'
    BY <1>2 DEF NoFalseMismatch
  <2>. QED  BY <1>2, <1>3, <1>4, <2>1, StartHistory DEF StartThread
<1>6. AloneStep
  <2>1. Alone!Begin(t)
    BY <1>4, ViewChange DEF Alone!Begin, Alone!Fresh, Fresh
  <2>2. CASE \E hash \in Expected[t] : EquivFork(t, hash)
    <3>1. PICK hash \in Expected[t] : EquivFork(t, hash)
      BY <2>2
    <3>2. Alone!Make(t, hash)
      BY <1>2, <2>1, <3>1 DEF Alone!Make, EquivFork
    <3>. QED  BY <3>2 DEF AloneStep, Alone!AloneNext
  <2>3. CASE EquivRefresh(t)
    <3>1. Alone!Again(t)
      BY <1>2, <2>1, <2>3 DEF Alone!Again, EquivRefresh
    <3>. QED  BY <3>1 DEF AloneStep, Alone!AloneNext
  <2>. QED  BY <2>2, <2>3
<1>. QED  BY <1>4, <1>5 , <1>6 DEF IInv

LEMMA QuietInv ==
  ASSUME IInv, EquivRun \/ EquivRunEmpty \/ MismatchFault \/ SyscallIllegal \/ ExitMismatch
  PROVE  IInv' /\ AloneStep
<1>1. TraceTypes'
  <2>1. Next
    BY DEF Next, User
  <2>. QED  BY <2>1, TraceTyping
<1>2. Control' /\ Quiet
  BY <1>1, RunStep, EmptyStep, FaultStep, PanicStep DEF IInv
<1>3. UNCHANGED <<forked, expected_hash, history>>
  BY DEF EquivRun, EquivRunEmpty, MismatchFault, SyscallIllegal, ExitMismatch
<1>4. NoFalseMismatch'
  <2>1. CASE ExitMismatch
    BY <2>1, <1>3, MismatchIsNew DEF ExitMismatch, NoFalseMismatch, history
  <2>2. CASE ~ExitMismatch
    <3>1. mode' # "mismatch"
      <4>1. CASE EquivRun \/ MismatchFault
        BY <4>1 DEF EquivRun, MismatchFault, EquivSchedule, MismatchRun, SwitchTo
      <4>2. CASE EquivRunEmpty \/ SyscallIllegal
        BY <4>2 DEF EquivRunEmpty, SyscallIllegal
      <4>. QED  BY <2>2, <4>1, <4>2
    <3>. QED  BY <3>1 DEF NoFalseMismatch
  <2>. QED  BY <2>1, <2>2
<1>. QED  BY <1>2, <1>3, <1>4, QuietHistory, QuietAlone DEF IInv

LEMMA AdvanceInv ==
  ASSUME IInv, Instruction \/ SyscallPutc
  PROVE  IInv' /\ AloneStep
<1>. DEFINE t == cur_thread
<1>1. TraceTypes'
  <2>1. Next
    BY DEF Next, User
  <2>. QED  BY <2>1, TraceTyping
<1>2. PICK u \in Thread : u = t /\ u \in Live /\ View(u).regs = cpu
  BY RunningView DEF IInv, Instruction, SyscallPutc, Syscall
<1>3. Control' /\ Live' = Live /\ Changed(u, After(View(u)))
  BY <1>1, <1>2, InstructionStep, PutcStep DEF IInv
<1>4. /\ Kind[View(u).regs] \in {"plain", "putc"} /\ Record(u)
      /\ UNCHANGED <<forked, expected_hash, first_trace>>
  BY <1>2 DEF Instruction, SyscallPutc, Syscall
<1>5. NoFalseMismatch'
  <2>1. mode' = "user"
    BY DEF Instruction, SyscallPutc, EquivSchedule, MismatchRun, SwitchTo
  <2>. QED  BY <2>1 DEF NoFalseMismatch
<1>6. History'
  BY <1>2, <1>3, <1>4, <1>5, AdvanceHistory
<1>7. Alone!Step(u)
  BY <1>2, <1>3, <1>4, ViewChange DEF Alone!Step
<1>. QED  BY <1>3, <1>6, <1>7 DEF IInv, AloneStep, Alone!AloneNext

LEMMA ExitInv ==
  ASSUME IInv, SyscallExit
  PROVE  IInv' /\ AloneStep
<1>. DEFINE t == cur_thread
<1>1. TraceTypes'
  <2>1. Next
    BY DEF Next, User
  <2>. QED  BY <2>1, TraceTyping
<1>2. PICK u \in Thread : u = t /\ u \in Live /\ View(u) = [regs |-> cpu, hash |-> reg_hash[u]]
  BY RunningView DEF IInv, SyscallExit, Syscall
<1>3. Control' /\ Live' = Live \ {u} /\ Changed(u, After(View(u)))
  BY <1>1, <1>2, ExitStep DEF IInv
<1>4. /\ Kind[View(u).regs] = "exit" /\ expected_hash[u] \in {<<>>, View(u).hash}
      /\ expected_hash' = [expected_hash EXCEPT ![u] = View(u).hash]
      /\ first_trace' = IF first_trace[u] = <<>>
                        THEN [first_trace EXCEPT ![u] = trace[u]] ELSE first_trace
      /\ UNCHANGED <<forked, trace>>
  BY <1>2 DEF SyscallExit, Syscall, HashAccepted
<1>5. NoFalseMismatch'
  <2>1. mode' # "mismatch"
    BY DEF SyscallExit, NextAfterExit, MismatchRun, SwitchTo
  <2>. QED  BY <2>1 DEF NoFalseMismatch
<1>6. History'
  BY <1>2, <1>3, <1>4, <1>5, ExitHistory
<1>7. Alone!Finish(u)
  BY <1>2, <1>3, <1>4, ViewChange DEF Alone!Finish
<1>. QED  BY <1>3, <1>6, <1>7 DEF IInv, AloneStep, Alone!AloneNext

LEMMA StepInv ==
  ASSUME IInv, [Next]_vars
  PROVE  IInv' /\ AloneStep
<1>1. CASE UNCHANGED vars
  <2>. USE <1>1 DEF vars, hwVars, history
  <2>1. Quiet
    BY DEF Quiet, Live, Range_runq, View, OnCpu
  <2>2. Control'
    BY <2>1 DEF IInv, Control, TypeOK, HandOver, Range_runq, OnCpu, Quiet
  <2>3. NoFalseMismatch'
    BY DEF IInv, History, NoFalseMismatch
  <2>. QED  BY <2>1, <2>2, <2>3, QuietHistory, QuietAlone DEF IInv
<1>. QED  BY <1>1, StartInv, QuietInv, AdvanceInv, ExitInv DEF Next, User

LEMMA Invariance == Spec => []IInv
<1>1. Init => IInv
  BY InitInv
<1>2. IInv /\ [Next]_vars => IInv'
  BY StepInv
<1>. QED  BY <1>1, <1>2, PTL DEF Spec

(* Every variable has its type, and a handler is never entered without a
   cur_thread. *)
THEOREM TypeCorrect == Spec => []TypeOK
<1>1. IInv => TypeOK
  BY DEF IInv, Control
<1>. QED  BY <1>1, Invariance, PTL

(* A thread is in one place, and single stepping is on exactly while threads run. *)
THEOREM OnePlace == Spec => []HandOver
<1>1. IInv => HandOver
  BY DEF IInv, Control
<1>. QED  BY <1>1, Invariance, PTL

(* The state switching is invisible: whatever the schedule, every thread has the
   registers and the hash of a thread that runs alone. *)
THEOREM Isolation == Spec => []RunsAlone
<1>1. IInv => RunsAlone
  BY DEF IInv, History, RunsAlone, Chained
<1>. QED  BY <1>1, Invariance, PTL

(* A thread that has completed a run never panics with a mismatch again. *)
THEOREM HashesRepeat == Spec => []NoFalseMismatch
<1>1. IInv => NoFalseMismatch
  BY DEF IInv, History
<1>. QED  BY <1>1, Invariance, PTL

(* The pre-emptive threads implement threads with a processor each. *)
THEOREM Refinement == Spec => ImplementsAlone
<1>1. Init => Alone!AloneInit
  BY InitInv
<1>2. IInv /\ [Next]_vars => [Alone!AloneNext]_(Alone!aloneVars)
  BY StepInv DEF AloneStep
<1>. QED  BY <1>1, <1>2, Invariance, PTL DEF Spec, ImplementsAlone, Alone!AloneSpec

------------------------------------------------------------------------------
(* Threads that run together advance together, for every user program without a
   plain instruction that leaves the program counter where it was.  The breakpoint
   does not stop at such an instruction (mismatch_pc_set), and Lockstep does not
   hold of it. *)

NoSelfBranch == \A r \in Regs : Kind[r] = "plain" => Pc[Execute[r]] # Pc[r]

\* how far each thread has come since it was started
Age == [t \in Thread |-> Len(trace[t])]

Sorted(q, age) == \A i, j \in 1 .. Len(q) : i <= j => age[q[i]] <= age[q[j]]

Between(q, age, k) == \A t \in Elems(q) : age[t] \in {k, k + 1}

(* The run queue holds first the threads that have still to run in this round,
   then those that have: before its instruction the running thread is of the
   first kind, after it of the second. *)
Turns ==
    /\ mode = "client" => \A t \in Elems(equiv_runq) : Age[t] = 1
    /\ mode = "user" =>
          /\ Sorted(equiv_runq, Age)
          /\ Between(equiv_runq, Age,
                     IF Stopped THEN Age[cur_thread] - 1 ELSE Age[cur_thread])

------------------------------------------------------------------------------
(* When the first thread of the queue gets the processor, the others are as far
   as it is or one instruction further, ... *)
LEMMA HeadTurn ==
  ASSUME NEW q \in Seq(Thread), q # <<>>, Distinct(q),
         NEW age \in [Thread -> Nat], NEW k \in Int, Sorted(q, age), Between(q, age, k)
  PROVE  /\ Sorted(Tail(q), age) /\ Between(Tail(q), age, age[Head(q)])
         /\ age[Head(q)] \in {k, k + 1}
<1>1. /\ Len(q) \in Nat \ {0} /\ Head(q) = q[1] /\ q[1] \in Thread
      /\ Len(Tail(q)) = Len(q) - 1
      /\ \A i \in 1 .. Len(q) - 1 : Tail(q)[i] = q[i + 1]
      /\ \A i \in 1 .. Len(q) : q[i] \in Thread
  OBVIOUS
<1>2. Head(q) \in Elems(q) /\ Elems(Tail(q)) \subseteq Elems(q)
  BY PopThread
<1>3. Sorted(Tail(q), age)
  <2>. SUFFICES ASSUME NEW i \in 1 .. Len(q) - 1, NEW j \in 1 .. Len(q) - 1, i <= j
                PROVE  age[Tail(q)[i]] <= age[Tail(q)[j]]
    BY <1>1 DEF Sorted
  <2>1. i + 1 \in 1 .. Len(q) /\ j + 1 \in 1 .. Len(q) /\ i + 1 <= j + 1
    BY <1>1
  <2>2. age[q[i + 1]] <= age[q[j + 1]]
    BY <2>1 DEF Sorted
  <2>. QED  BY <1>1, <2>2
<1>4. age[Head(q)] \in {k, k + 1}
  BY <1>2 DEF Between
<1>5. ASSUME NEW t \in Elems(Tail(q))
      PROVE  age[t] \in {age[Head(q)], age[Head(q)] + 1}
  <2>1. PICK i \in 1 .. Len(q) : t = q[i]
    BY <1>2 DEF Elems
  <2>2. 1 \in 1 .. Len(q) /\ 1 <= i
    BY <1>1
  <2>3. age[Head(q)] <= age[t]
    BY <1>1, <2>1, <2>2 DEF Sorted
  <2>4. age[t] \in {k, k + 1}
    BY <1>2 DEF Between
  <2>5. age[t] \in Nat /\ age[Head(q)] \in Nat
    BY <1>1, <2>1
  <2>. QED  BY <1>4, <2>3, <2>4, <2>5
<1>. QED  BY <1>3, <1>4, <1>5 DEF Between

(* ... and a thread that has run its instruction belongs at the end. *)
LEMMA LastTurn ==
  ASSUME NEW q \in Seq(Thread), Distinct(q), NEW c \in Thread, c \notin Elems(q),
         NEW age \in [Thread -> Nat], NEW k \in Int, Sorted(q, age), Between(q, age, k),
         age[c] = k + 1
  PROVE  /\ Sorted(Append(q, c), age) /\ Between(Append(q, c), age, k)
         /\ Append(q, c) \in Seq(Thread) /\ Distinct(Append(q, c))
<1>. DEFINE a == Append(q, c)
<1>1. /\ Len(q) \in Nat /\ Len(a) = Len(q) + 1 /\ a[Len(q) + 1] = c
      /\ \A i \in 1 .. Len(q) : a[i] = q[i] /\ q[i] \in Thread /\ q[i] \in Elems(q)
  BY DEF Elems
<1>2. a \in Seq(Thread) /\ Distinct(a) /\ Elems(a) = Elems(q) \cup {c}
  BY PutThread DEF Appended
<1>. HIDE DEF a
<1>3. Between(a, age, k)
  BY <1>2 DEF Between
<1>4. Sorted(a, age)
  <2>. SUFFICES ASSUME NEW i \in 1 .. Len(q) + 1, NEW j \in 1 .. Len(q) + 1, i <= j
                PROVE  age[a[i]] <= age[a[j]]
    BY <1>1 DEF Sorted
  <2>1. CASE j # Len(q) + 1
    <3>1. i \in 1 .. Len(q) /\ j \in 1 .. Len(q)
      BY <1>1, <2>1
    <3>2. age[q[i]] <= age[q[j]]
      BY <3>1 DEF Sorted
    <3>. QED  BY <1>1, <3>1, <3>2
  <2>2. CASE j = Len(q) + 1
    <3>1. a[i] \in Elems(a)
      BY <1>1 DEF Elems
    <3>2. age[a[i]] \in {k, k + 1}
      BY <1>3, <3>1 DEF Between
    <3>3. age[a[j]] = k + 1
      BY <1>1, <2>2
    <3>. QED  BY <3>2, <3>3
  <2>. QED  BY <2>1, <2>2
<1>. QED  BY <1>2, <1>3, <1>4 DEF a

(* equiv_schedule keeps the turns: what the running thread did in its own is what
   makes it the last. *)
LEMMA ScheduleTurns ==
  ASSUME Control, mode = "user", NEW saved \in [Thread -> Regs], EquivSchedule(saved),
         NEW age \in [Thread -> Nat], Age' = age,
         Sorted(equiv_runq, age), Between(equiv_runq, age, age[cur_thread] - 1)
  PROVE  Turns'
<1>1. /\ cur_thread \in Thread /\ cur_thread \notin Elems(equiv_runq)
      /\ equiv_runq \in Seq(Thread) /\ Distinct(equiv_runq)
  BY RunningView, LiveThreads DEF Control, TypeOK
<1>2. age[cur_thread] - 1 \in Int /\ age[cur_thread] = (age[cur_thread] - 1) + 1
  BY <1>1
<1>3. CASE equiv_runq = <<>>
  <2>1. equiv_runq' = <<>> /\ MismatchRun(cur_thread, saved)
    BY <1>3 DEF EquivSchedule
  <2>2. mode' = "user" /\ Elems(equiv_runq') = {} /\ Len(equiv_runq') = 0
    BY <2>1 DEF MismatchRun, SwitchTo, Elems
  <2>. QED  BY <2>2 DEF Turns, Sorted, Between
<1>4. CASE equiv_runq # <<>>
  <2>. DEFINE q == Append(equiv_runq, cur_thread)
              th == Head(equiv_runq)
  <2>1. /\ equiv_runq' = Append(Tail(equiv_runq), cur_thread) /\ cur_thread' = th
        /\ mode' = "user" /\ Pc[cpu'] = bvr0'
    BY <1>4 DEF EquivSchedule, Appended, MismatchRun, MismatchPcSet, SwitchTo
  <2>2. /\ Sorted(q, age) /\ Between(q, age, age[cur_thread] - 1)
        /\ q \in Seq(Thread) /\ Distinct(q)
    BY <1>1, <1>2, LastTurn
  <2>3. q # <<>> /\ Tail(q) = Append(Tail(equiv_runq), cur_thread) /\ Head(q) = th
    BY <1>1, <1>4
  <2>. HIDE DEF q
  <2>4. Sorted(Tail(q), age) /\ Between(Tail(q), age, age[Head(q)])
    BY <1>2, <2>2, <2>3, HeadTurn
  <2>5. ~Stopped'
    BY <2>1 DEF Stopped
  <2>. QED  BY <2>1, <2>3, <2>4, <2>5 DEF Turns
<1>. QED  BY <1>3, <1>4

------------------------------------------------------------------------------
(* One lemma per action. *)

LEMMA AgeTypes ==
  ASSUME IInv
  PROVE  Age \in [Thread -> Nat]
<1>1. trace \in [Thread -> Seq(Views)]
  BY DEF IInv, Control, TypeOK
<1>2. \A t \in Thread : Len(trace[t]) \in Nat
  BY <1>1
<1>. QED  BY <1>2 DEF Age

(* An instruction makes the running thread one older, and no other. *)
LEMMA RecordAge ==
  ASSUME IInv, mode = "user", Record(cur_thread)
  PROVE  /\ Age' \in [Thread -> Nat] /\ Age'[cur_thread] = Age[cur_thread] + 1
         /\ \A t \in Thread \ {cur_thread} : Age'[t] = Age[t]
<1>1. cur_thread \in Thread /\ trace \in [Thread -> Seq(Views)]
  BY DEF IInv, Control, TypeOK
<1>2. trace' \in [Thread -> Seq(Views)]
  BY RecordType
<1>3. LastView(cur_thread) \in Views
  <2>1. trace[cur_thread] # <<>>
    BY RunningView DEF IInv, History, Chained
  <2>. QED  BY <1>1, <2>1 DEF LastView
<1>4. trace' = [trace EXCEPT ![cur_thread] = Append(trace[cur_thread], After(LastView(cur_thread)))]
  BY DEF Record
<1>5. After(LastView(cur_thread)) \in Views
  BY <1>3, AfterType
<1>6. /\ Len(trace'[cur_thread]) = Len(trace[cur_thread]) + 1
      /\ \A t \in Thread \ {cur_thread} : trace'[t] = trace[t]
  BY <1>1, <1>4, <1>5
<1>7. Age' = [t \in Thread |-> Len(trace'[t])]
  BY DEF Age
<1>8. \A t \in Thread : Len(trace'[t]) \in Nat
  BY <1>2
<1>. QED  BY <1>1, <1>6, <1>7, <1>8 DEF Age

LEMMA OthersKeepTurns ==
  ASSUME IInv, mode = "user", Record(cur_thread), Turns, ~Stopped
  PROVE  /\ Sorted(equiv_runq, Age') /\ Age' \in [Thread -> Nat]
         /\ Between(equiv_runq, Age', Age'[cur_thread] - 1)
<1>1. /\ Age' \in [Thread -> Nat] /\ Age'[cur_thread] = Age[cur_thread] + 1
      /\ \A t \in Thread \ {cur_thread} : Age'[t] = Age[t]
  BY RecordAge
<1>2. /\ cur_thread \in Thread /\ cur_thread \notin Elems(equiv_runq)
      /\ equiv_runq \in Seq(Thread)
  BY RunningView DEF IInv, Control, TypeOK
<1>3. \A i \in 1 .. Len(equiv_runq) : Age'[equiv_runq[i]] = Age[equiv_runq[i]]
  BY <1>1, <1>2 DEF Elems
<1>4. \A t \in Elems(equiv_runq) : Age'[t] = Age[t]
  BY <1>1, <1>2 DEF Elems
<1>5. Sorted(equiv_runq, Age) /\ Between(equiv_runq, Age, Age[cur_thread])
  BY DEF Turns
<1>6. Age[cur_thread] \in Nat
  BY <1>2, AgeTypes
<1>7. Age'[cur_thread] - 1 = Age[cur_thread]
  BY <1>1, <1>6
<1>8. Sorted(equiv_runq, Age')
  BY <1>3, <1>5 DEF Sorted
<1>. QED  BY <1>1, <1>4, <1>5, <1>7, <1>8 DEF Between

LEMMA InstructionTurns ==
  ASSUME NoSelfBranch, IInv, Turns, Instruction
  PROVE  Turns'
<1>1. /\ mode = "user" /\ ~Stopped /\ Kind[cpu] = "plain" /\ cpu' = Execute[cpu]
      /\ Record(cur_thread) /\ mode' = mode /\ equiv_runq' = equiv_runq
      /\ cur_thread' = cur_thread /\ bvr0' = bvr0 /\ single_step_on_p' = single_step_on_p
  BY DEF Instruction
<1>2. cpu \in Regs /\ single_step_on_p
  BY <1>1 DEF IInv, Control, TypeOK, HandOver
<1>3. Stopped'
  BY <1>1, <1>2 DEF Stopped, NoSelfBranch
<1>4. /\ Sorted(equiv_runq, Age')
      /\ Between(equiv_runq, Age', Age'[cur_thread] - 1)
  BY <1>1, OthersKeepTurns
<1>. QED  BY <1>1, <1>3, <1>4 DEF Turns

LEMMA FaultTurns ==
  ASSUME IInv, Turns, MismatchFault
  PROVE  Turns'
<1>1. /\ mode = "user" /\ Stopped /\ trace' = trace
      /\ regs' = [regs EXCEPT ![cur_thread] = cpu] /\ EquivSchedule(regs')
  BY DEF MismatchFault, history
<1>2. regs' \in [Thread -> Regs]
  BY <1>1 DEF IInv, Control, TypeOK
<1>3. Age' = Age
  BY <1>1 DEF Age
<1>4. Sorted(equiv_runq, Age) /\ Between(equiv_runq, Age, Age[cur_thread] - 1)
  BY <1>1 DEF Turns
<1>. QED  BY <1>1, <1>2, <1>3, <1>4, AgeTypes, ScheduleTurns DEF IInv

LEMMA PutcTurns ==
  ASSUME IInv, Turns, SyscallPutc
  PROVE  Turns'
<1>1. /\ mode = "user" /\ ~Stopped /\ Record(cur_thread)
      /\ regs' = [regs EXCEPT ![cur_thread] = Execute[cpu]] /\ EquivSchedule(regs')
  BY DEF SyscallPutc, Syscall
<1>2. regs' \in [Thread -> Regs]
  BY <1>1, ProgramAssumption DEF IInv, Control, TypeOK
<1>3. /\ Sorted(equiv_runq, Age') /\ Age' \in [Thread -> Nat]
      /\ Between(equiv_runq, Age', Age'[cur_thread] - 1)
  BY <1>1, OthersKeepTurns
<1>. QED  BY <1>1, <1>2, <1>3, ScheduleTurns DEF IInv

LEMMA ExitTurns ==
  ASSUME IInv, Turns, SyscallExit
  PROVE  Turns'
<1>1. mode = "user" /\ ~Stopped /\ trace' = trace /\ NextAfterExit
  BY DEF SyscallExit, Syscall
<1>2. Age' = Age
  BY <1>1 DEF Age
<1>3. /\ cur_thread \in Thread /\ equiv_runq \in Seq(Thread) /\ Distinct(equiv_runq)
  BY <1>1, RunningView, LiveThreads DEF IInv, Control, TypeOK
<1>4. CASE equiv_runq = <<>>
  <2>1. mode' = "client" /\ equiv_runq' = <<>>
    BY <1>4 , <1>1 DEF NextAfterExit
  <2>2. Elems(equiv_runq') = {}
    BY <2>1 DEF Elems
  <2>. QED  BY <2>1, <2>2 DEF Turns
<1>5. CASE equiv_runq # <<>>
  <2>1. /\ equiv_runq' = Tail(equiv_runq) /\ cur_thread' = Head(equiv_runq)
        /\ mode' = "user" /\ Pc[cpu'] = bvr0'
    BY <1>1, <1>5 DEF NextAfterExit, MismatchRun, MismatchPcSet, SwitchTo
  <2>2. Sorted(equiv_runq, Age) /\ Between(equiv_runq, Age, Age[cur_thread])
    BY <1>1 DEF Turns
  <2>3. Age \in [Thread -> Nat] /\ Age[cur_thread] \in Int
    BY <1>3, AgeTypes
  <2>4. /\ Sorted(Tail(equiv_runq), Age)
        /\ Between(Tail(equiv_runq), Age, Age[Head(equiv_runq)])
    BY <1>3, <1>5, <2>2, <2>3, HeadTurn
  <2>5. ~Stopped'
    BY <2>1 DEF Stopped
  <2>. QED  BY <1>2, <2>1, <2>4, <2>5 DEF Turns
<1>. QED  BY <1>4, <1>5

LEMMA StartTurns ==
  ASSUME IInv, Turns, NEW t \in Thread, NEW hash,
         EquivFork(t, hash) \/ EquivRefresh(t)
  PROVE  Turns'
<1>1. /\ mode = "client" /\ mode' = "client" /\ t \notin Elems(equiv_runq)
      /\ equiv_runq' = Pushed(equiv_runq, t)
      /\ trace' = [trace EXCEPT ![t] = <<Fresh(t)>>]
  <2>1. CASE EquivFork(t, hash)
    <3>1. Elems(equiv_runq) \subseteq forked
      BY LiveThreads DEF IInv, Control
    <3>. QED  BY <2>1, <3>1 DEF EquivFork, StartThread
  <2>2. CASE EquivRefresh(t)
    BY <2>2 DEF EquivRefresh, StartThread, Elems
  <2>. QED  BY <2>1, <2>2
<1>2. equiv_runq \in Seq(Thread) /\ Distinct(equiv_runq) /\ trace \in [Thread -> Seq(Views)]
      /\ Elems(equiv_runq) \subseteq Thread
  BY LiveThreads DEF IInv, Control, TypeOK, Elems
<1>3. Elems(equiv_runq') = Elems(equiv_runq) \cup {t}
  BY <1>1, <1>2, PutThread
<1>4. Age' = [u \in Thread |-> Len(trace'[u])]
  BY DEF Age
<1>5. Age'[t] = 1 /\ \A u \in Thread \ {t} : Age'[u] = Age[u]
  BY <1>1, <1>2, <1>4 DEF Age
<1>6. \A u \in Elems(equiv_runq) : Age[u] = 1
  BY <1>1 DEF Turns
<1>. QED  BY <1>1, <1>2, <1>3, <1>5, <1>6 DEF Turns

LEMMA RunTurns ==
  ASSUME IInv, Turns, EquivRun
  PROVE  Turns'
<1>1. /\ mode = "client" /\ equiv_runq # <<>> /\ trace' = trace
      /\ equiv_runq' = Tail(equiv_runq) /\ cur_thread' = Head(equiv_runq)
      /\ mode' = "user" /\ Pc[cpu'] = bvr0'
  BY DEF EquivRun, MismatchRun, MismatchPcSet, SwitchTo, history
<1>2. equiv_runq \in Seq(Thread) /\ Distinct(equiv_runq)
  BY LiveThreads DEF IInv, Control, TypeOK
<1>3. Age' = Age
  BY <1>1 DEF Age
<1>4. \A u \in Elems(equiv_runq) : Age[u] = 1
  BY <1>1 DEF Turns
<1>5. Sorted(equiv_runq, Age) /\ Between(equiv_runq, Age, 1)
  <2>1. \A i \in 1 .. Len(equiv_runq) : Age[equiv_runq[i]] = 1
    BY <1>4 DEF Elems
  <2>. QED  BY <1>4, <2>1 DEF Sorted, Between
<1>6. /\ Sorted(Tail(equiv_runq), Age)
      /\ Between(Tail(equiv_runq), Age, Age[Head(equiv_runq)])
  BY <1>1, <1>2, <1>5, AgeTypes, HeadTurn
<1>7. ~Stopped'
  BY <1>1 DEF Stopped
<1>. QED  BY <1>1, <1>3, <1>6, <1>7 DEF Turns

LEMMA NextTurns ==
  ASSUME NoSelfBranch, IInv, Turns, [Next]_vars
  PROVE  Turns'
<1>1. CASE EquivRunEmpty \/ SyscallIllegal \/ ExitMismatch
  <2>1. mode' \in {"empty", "illegal", "mismatch"}
    BY <1>1 DEF EquivRunEmpty, SyscallIllegal, ExitMismatch
  <2>. QED  BY <2>1 DEF Turns
<1>2. CASE UNCHANGED vars
  BY <1>2 DEF vars, hwVars, history, Turns, Age, Stopped
<1>3. ASSUME NEW t \in Thread, (\E hash \in Expected[t] : EquivFork(t, hash)) \/ EquivRefresh(t)
      PROVE  Turns'
  BY <1>3, StartTurns
<1>. QED
  BY <1>1, <1>2, <1>3, InstructionTurns, FaultTurns, PutcTurns, ExitTurns, RunTurns
     DEF Next, User

LEMMA TurnsGiveLockstep ==
  ASSUME IInv, Turns
  PROVE  Lockstep
<1>. SUFFICES ASSUME mode = "user", NEW t \in Live, NEW u \in Live
              PROVE  Len(trace[t]) <= Len(trace[u]) + 1
  BY DEF Lockstep
<1>1. /\ cur_thread \in Thread /\ Live = Elems(equiv_runq) \cup {cur_thread}
      /\ Live \subseteq Thread
  BY RunningView, LiveThreads DEF IInv
<1>. DEFINE k == IF Stopped THEN Age[cur_thread] - 1 ELSE Age[cur_thread]
<1>2. Age \in [Thread -> Nat] /\ Age[cur_thread] \in Nat /\ k \in Int
  BY <1>1, AgeTypes
<1>3. Age[cur_thread] \in {k, k + 1}
  BY <1>2
<1>4. \A x \in Elems(equiv_runq) : Age[x] \in {k, k + 1}
  BY DEF Turns, Between
<1>. HIDE DEF k
<1>5. Age[t] \in {k, k + 1} /\ Age[u] \in {k, k + 1}
  BY <1>1, <1>3, <1>4
<1>6. Age[t] <= Age[u] + 1
  BY <1>2, <1>5
<1>. QED  BY <1>1, <1>6 DEF Age

(* The single-step handler takes the threads in turn: after every instruction, and
   whatever system calls and exits come between, no thread of equiv_run is more than
   one instruction ahead of another, unless a program branches to itself. *)
THEOREM LockstepHolds == NoSelfBranch /\ Spec => []Lockstep
<1>1. Init => Turns
  <2>1. Init => mode = "client" /\ Elems(equiv_runq) = {}
    BY DEF Init, Elems
  <2>. QED  BY <2>1 DEF Turns
<1>2. NoSelfBranch /\ IInv /\ Turns /\ [Next]_vars => Turns'
  BY NextTurns
<1>3. IInv /\ Turns => Lockstep
  BY TurnsGiveLockstep
<1>4. CASE NoSelfBranch
  BY <1>1, <1>2, <1>3, <1>4, Invariance, PTL DEF Spec
<1>. QED  BY <1>4
==============================================================================
