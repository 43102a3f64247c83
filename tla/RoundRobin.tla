----------------------------- MODULE RoundRobin ------------------------------
(***************************************************************************)
(* What the cooperative threads package of labs/6-threads promises: the    *)
(* threads take turns in the order in which they became ready, a turn ends *)
(* only when the thread yields or exits, and rpi_thread_start returns when *)
(* there is no thread left.  Threads are named by their tid; 0 is the code *)
(* that called rpi_thread_start.                                           *)
(***************************************************************************)
EXTENDS Naturals, Sequences

CONSTANT Tid

VARIABLES
    running,    \* whose code is running
    ready,      \* the threads waiting for their turn, in order
    spawned     \* every tid ever given to a thread

rrVars == <<running, ready, spawned>>

RRInit == running = 0 /\ ready = <<>> /\ spawned = {}

RRFork(t) ==
    /\ t \notin spawned
    /\ spawned' = spawned \cup {t}
    /\ ready' = Append(ready, t)
    /\ UNCHANGED running

RRStart ==
    /\ running = 0 /\ ready # <<>>
    /\ running' = Head(ready)
    /\ ready' = Tail(ready)
    /\ UNCHANGED spawned

RRYield ==
    /\ running # 0 /\ ready # <<>>
    /\ running' = Head(ready)
    /\ ready' = Append(Tail(ready), running)
    /\ UNCHANGED spawned

RRExit ==
    /\ running # 0
    /\ running' = IF ready = <<>> THEN 0 ELSE Head(ready)
    /\ ready' = IF ready = <<>> THEN <<>> ELSE Tail(ready)
    /\ UNCHANGED spawned

RRNext == (\E t \in Tid : RRFork(t)) \/ RRStart \/ RRYield \/ RRExit

RRSpec == RRInit /\ [][RRNext]_rrVars
==============================================================================
