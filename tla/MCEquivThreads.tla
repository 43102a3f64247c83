---------------------------- MODULE MCEquivThreads ----------------------------
(***************************************************************************)
(* Five small user programs for EquivThreads.  A register file is a        *)
(* program counter and one other register.                                 *)
(***************************************************************************)
EXTENDS EquivThreads

CONSTANTS loop, late, putc, quick, wild    \* the threads

MCThread == {loop, late, putc, quick, wild}

MCAddr == 0 .. 8

MCRegs == [pc : MCAddr, r : 0 .. 2]

R(pc, r) == [pc |-> pc, r |-> r]

\* 0, 1: count r up to 2 and exit at 2;  3, 4, 5: an instruction, a putc, an
\* exit;  6: an exit;  7, 8: an instruction, an illegal system call
MCEntry ==
    [t \in MCThread |->
        CASE t = loop  -> R(0, 0) [] t = late  -> R(0, 1) [] t = putc -> R(3, 0)
          [] t = quick -> R(6, 0) [] t = wild  -> R(7, 0)]

\* putc is given its hash or none, loop and quick none or a wrong one
MCExpected ==
    [t \in MCThread |->
        CASE t = putc  -> {<<>>, <<R(4, 0)>>}
          [] t = loop  -> {<<>>, <<R(4, 0)>>}
          [] t = quick -> {<<>>, <<R(6, 0)>>}
          [] OTHER     -> {<<>>}]

MCPc == [s \in MCRegs |-> s.pc]

MCKind ==
    [s \in MCRegs |->
        CASE s.pc \in {2, 5, 6} -> "exit" [] s.pc = 4 -> "putc"
          [] s.pc = 8 -> "illegal" [] OTHER -> "plain"]

MCExecute ==
    [s \in MCRegs |->
        CASE s.pc = 0 -> R(1, IF s.r < 2 THEN s.r + 1 ELSE 2)
          [] s.pc = 1 -> R(IF s.r < 2 THEN 0 ELSE 2, s.r)
          [] s.pc \in {3, 4, 7} -> R(s.pc + 1, s.r)
          [] OTHER -> s]
==============================================================================
