----------------------------- MODULE AloneThreads -----------------------------
(***************************************************************************)
(* What the equivalence threads promise: every thread behaves as it would  *)
(* alone on the processor.  There is no processor to share, no queue and   *)
(* no debug hardware here: a thread has registers of its own, and a hash   *)
(* that takes in the registers whenever the program counter has moved.  A  *)
(* complete run must give the hash that is known of the thread.            *)
(***************************************************************************)
EXTENDS Naturals, Sequences

CONSTANTS
    Thread,
    Kind,       \* what the instruction does that the registers point at
    Entry,      \* the registers a thread starts with
    Expected,   \* the hashes a thread may be given when it is made
    After(_)    \* one instruction: the registers and the hash it leaves

VARIABLES
    view,       \* of each thread, [regs, hash]
    born,       \* the threads that exist
    live,       \* the threads that have started and not exited
    known       \* the hash expected of each thread, <<>> if none is

aloneVars == <<view, born, live, known>>

Fresh(t) == [regs |-> Entry[t], hash |-> <<>>]

AloneInit ==
    /\ view = [t \in Thread |-> Fresh(t)]
    /\ born = {} /\ live = {}
    /\ known = [t \in Thread |-> <<>>]

Begin(t) ==
    /\ view' = [view EXCEPT ![t] = Fresh(t)]
    /\ live' = live \cup {t}

Make(t, hash) ==
    /\ t \notin born
    /\ born' = born \cup {t}
    /\ known' = [known EXCEPT ![t] = hash]
    /\ Begin(t)

Again(t) ==
    /\ t \in born \ live
    /\ Begin(t)
    /\ UNCHANGED <<born, known>>

Step(t) ==
    /\ t \in live
    /\ Kind[view[t].regs] \in {"plain", "putc"}
    /\ view' = [view EXCEPT ![t] = After(view[t])]
    /\ UNCHANGED <<born, live, known>>

Finish(t) ==
    /\ t \in live
    /\ Kind[view[t].regs] = "exit"
    /\ known[t] \in {<<>>, view[t].hash}
    /\ known' = [known EXCEPT ![t] = view[t].hash]
    /\ live' = live \ {t}
    /\ view' = [view EXCEPT ![t] = After(view[t])]
    /\ UNCHANGED born

AloneNext ==
    \E t \in Thread :
        (\E hash \in Expected[t] : Make(t, hash)) \/ Again(t) \/ Step(t) \/ Finish(t)

AloneSpec == AloneInit /\ [][AloneNext]_aloneVars
==============================================================================
