------------------------------ MODULE NrfDriver ------------------------------
(***************************************************************************)
(* The NRF24L01+ driver of labs/17-nrf-networking/code: nrf_tx_send_ack,   *)
(* nrf_tx_send_noack, nrf_get_pkts (nrf-driver.c) and the reads of         *)
(* nrf-public.c, on several nodes within reach of each other, with the     *)
(* chips and the air between them.                                         *)
(*                                                                         *)
(* The driver has no interrupts: it polls the chip over SPI, and the chip  *)
(* goes on receiving, acknowledging and retransmitting between any two of  *)
(* its accesses.  One step is what the driver does up to its next look at  *)
(* something the chip changes.  Transmit is the chip's: one transmission   *)
(* of the frame at the head of the transmit fifo and what comes back.  The *)
(* air may lose the frame at any receiver, or the acknowledgement, and     *)
(* then the chip sends the frame again by itself.                          *)
(*                                                                         *)
(* Addresses are nodes: a node's rxaddr is itself, and is the address of   *)
(* its pipe 1.  Pipe 0 is where a sender expects its acknowledgement: the  *)
(* driver points it at the addressee and never points it back.             *)
(***************************************************************************)
EXTENDS Integers, Sequences

CONSTANTS
    Node,
    Addressee,  \* the nodes a client sends to
    FifoSlots,  \* frames the receive fifo of the chip holds (3)
    Attempts,   \* nrf_default_retran_attempts
    QueueRoom,  \* packets recvq holds
    MaxSend     \* bound on the packets sent

ASSUME NrfAssumption ==
    /\ Addressee \subseteq Node
    /\ FifoSlots \in Nat \ {0} /\ Attempts \in Nat
    /\ QueueRoom \in Nat \ {0} /\ MaxSend \in Nat

VARIABLES
    ackp,       \* acked_p of nrf_init, the same on every node
    (* the chip *)
    mode,       \* PRIM_RX of NRF_CONFIG: "rx" or "tx"
    p0,         \* NRF_RX_ADDR_P0
    txfifo, rxfifo,
    tries,      \* transmissions of the present frame
    maxrt, txds,\* the MAX_RT and TX_DS bits of NRF_STATUS
    (* the driver *)
    pc,         \* where the call under way is, or how it panicked
    msg,        \* the packet being sent
    recvq,      \* the packets in the circular queue
    (* history *)
    sent,       \* the packets whose send has begun, on any node
    returned,   \* the packets whose send has returned nbytes
    taken,      \* the packets a chip has put in its receive fifo
    got         \* the packets a client has read

chipVars == <<mode, p0, txfifo, rxfifo, tries, maxrt, txds>>
histVars == <<sent, returned, taken, got>>
vars == <<ackp, chipVars, pc, msg, recvq, histVars>>

Packet == [src : Node, dst : Node, seq : Nat]

NoPacket == [src |-> "none"]

\* nrf_init, on every node
Init ==
    /\ ackp \in BOOLEAN
    /\ mode = [n \in Node |-> "rx"]
    /\ p0 = [n \in Node |-> n]
    /\ txfifo = [n \in Node |-> <<>>] /\ rxfifo = [n \in Node |-> <<>>]
    /\ tries = [n \in Node |-> 0]
    /\ maxrt = [n \in Node |-> FALSE] /\ txds = [n \in Node |-> FALSE]
    /\ pc = [n \in Node |-> "idle"]
    /\ msg = [n \in Node |-> NoPacket]
    /\ recvq = [n \in Node |-> <<>>]
    /\ sent = <<>> /\ returned = {}
    /\ taken = [n \in Node |-> <<>>] /\ got = [n \in Node |-> <<>>]

------------------------------------------------------------------------------
(* Receiving: nrf_get_pkts and the calls that begin with it. *)

GetPkt_Newest(n) ==
    /\ pc[n] \in {"send", "read"} /\ rxfifo[n] # <<>>
    /\ rxfifo' = [rxfifo EXCEPT ![n] = Tail(@)]
    /\ IF Len(recvq[n]) < QueueRoom
       THEN recvq' = [recvq EXCEPT ![n] = <<Head(rxfifo[n])>> \o @] /\ UNCHANGED pc
       ELSE pc' = [pc EXCEPT ![n] = "full"] /\ UNCHANGED recvq
    /\ UNCHANGED <<ackp, mode, p0, txfifo, tries, maxrt, txds, msg, histVars>>

GetPkt_DropWhenFull(n) ==
    /\ pc[n] \in {"send", "read"} /\ rxfifo[n] # <<>>
    /\ rxfifo' = [rxfifo EXCEPT ![n] = Tail(@)]
    /\ recvq' = IF Len(recvq[n]) < QueueRoom
                THEN [recvq EXCEPT ![n] = Append(@, Head(rxfifo[n]))] ELSE recvq
    /\ UNCHANGED <<ackp, mode, p0, txfifo, tries, maxrt, txds, pc, msg, histVars>>

\* one turn of the loop of nrf_get_pkts: a packet goes from the chip to recvq,
\* or the node panics because there is no room for it
GetPkt(n) ==
    /\ pc[n] \in {"send", "read"} /\ rxfifo[n] # <<>>
    /\ rxfifo' = [rxfifo EXCEPT ![n] = Tail(@)]
    /\ IF Len(recvq[n]) < QueueRoom
       THEN recvq' = [recvq EXCEPT ![n] = Append(@, Head(rxfifo[n]))] /\ UNCHANGED pc
       ELSE pc' = [pc EXCEPT ![n] = "full"] /\ UNCHANGED recvq
    /\ UNCHANGED <<ackp, mode, p0, txfifo, tries, maxrt, txds, msg, histVars>>

\* nrf_read_exact_noblk of one packet: nrf_nbytes_avail drains the chip first
ReadBegin(n) ==
    /\ pc[n] = "idle"
    /\ pc' = [pc EXCEPT ![n] = "read"]
    /\ UNCHANGED <<ackp, chipVars, msg, recvq, histVars>>

\* the chip has nothing more: take a packet, or return 0.  The callers that wait
\* (nrf_read_exact_timeout, nrf_read_exact) call again until they give up.
ReadEnd(n) ==
    /\ pc[n] = "read" /\ rxfifo[n] = <<>>
    /\ IF recvq[n] # <<>>
       THEN /\ got' = [got EXCEPT ![n] = Append(@, Head(recvq[n]))]
            /\ recvq' = [recvq EXCEPT ![n] = Tail(@)]
       ELSE UNCHANGED <<got, recvq>>
    /\ pc' = [pc EXCEPT ![n] = "idle"]
    /\ UNCHANGED <<ackp, chipVars, msg, sent, returned, taken>>

------------------------------------------------------------------------------
(* Sending: nrf_tx_send_ack and nrf_tx_send_noack. *)

\* what the asserts at the start of a send check, and a call leaves behind
AtRest(n) == mode[n] = "rx" /\ txfifo[n] = <<>>

SendBegin(n, d) ==
    /\ pc[n] = "idle" /\ d # n /\ Len(sent) < MaxSend
    /\ msg' = [msg EXCEPT ![n] = [src |-> n, dst |-> d, seq |-> Len(sent) + 1]]
    /\ sent' = Append(sent, msg'[n])
    /\ pc' = [pc EXCEPT ![n] = IF AtRest(n) THEN "send" ELSE "assert"]
    /\ UNCHANGED <<ackp, chipVars, recvq, returned, taken, got>>

\* nrf_get_pkts returned 0: set TX_ADDR, with acks P0 as well, load the payload
SendLoad(n) ==
    /\ pc[n] = "send" /\ rxfifo[n] = <<>>
    /\ p0' = IF ackp THEN [p0 EXCEPT ![n] = msg[n].dst] ELSE p0
    /\ txfifo' = [txfifo EXCEPT ![n] = Append(@, msg[n])]
    /\ pc' = [pc EXCEPT ![n] = "load"]
    /\ UNCHANGED <<ackp, mode, rxfifo, tries, maxrt, txds, msg, recvq, histVars>>

\* nrf_tx_mode and nrf_rx_mode
TxMode(n) == mode' = [mode EXCEPT ![n] = "tx"]
RxMode(n) == mode' = [mode EXCEPT ![n] = "rx"]

SendTx_StayRx(n) ==
    /\ pc[n] = "load"
    /\ tries' = [tries EXCEPT ![n] = 0]
    /\ pc' = [pc EXCEPT ![n] = "wait"]
    /\ UNCHANGED <<ackp, mode, p0, txfifo, rxfifo, maxrt, txds, msg, recvq, histVars>>

\* the chip begins to transmit
SendTx(n) ==
    /\ pc[n] = "load"
    /\ TxMode(n)
    /\ tries' = [tries EXCEPT ![n] = 0]
    /\ pc' = [pc EXCEPT ![n] = "wait"]
    /\ UNCHANGED <<ackp, p0, txfifo, rxfifo, maxrt, txds, msg, recvq, histVars>>

SendReturn_Unwaited(n) ==
    /\ pc[n] = "wait"
    /\ RxMode(n)
    /\ txds' = [txds EXCEPT ![n] = FALSE]
    /\ returned' = returned \cup {msg[n]}
    /\ pc' = [pc EXCEPT ![n] = "idle"]
    /\ UNCHANGED <<ackp, p0, txfifo, rxfifo, tries, maxrt, msg, recvq, sent, taken, got>>

SendReturn_StayTx(n) ==
    /\ pc[n] = "wait" /\ txfifo[n] = <<>>
    /\ txds' = [txds EXCEPT ![n] = FALSE]
    /\ returned' = returned \cup {msg[n]}
    /\ pc' = [pc EXCEPT ![n] = "idle"]
    /\ UNCHANGED <<ackp, mode, p0, txfifo, rxfifo, tries, maxrt, msg, recvq, sent, taken, got>>

\* the loop on nrf_tx_fifo_empty has ended: panic if MAX_RT is set, else clear
\* TX_DS and listen again
SendReturn(n) ==
    /\ pc[n] = "wait" /\ txfifo[n] = <<>>
    /\ IF ackp /\ maxrt[n]
       THEN pc' = [pc EXCEPT ![n] = "failed"] /\ UNCHANGED <<mode, txds, returned>>
       ELSE /\ RxMode(n)
            /\ txds' = [txds EXCEPT ![n] = FALSE]
            /\ returned' = returned \cup {msg[n]}
            /\ pc' = [pc EXCEPT ![n] = "idle"]
    /\ UNCHANGED <<ackp, p0, txfifo, rxfifo, tries, maxrt, msg, recvq, sent, taken, got>>

------------------------------------------------------------------------------
(* The chip and the air. *)

\* the chips that match the frame's address on a pipe that is enabled
Hearers(n, f) ==
    {m \in Node \ {n} :
        /\ mode[m] = "rx" /\ Len(rxfifo[m]) < FifoSlots
        /\ (m = f.dst \/ (ackp /\ p0[m] = f.dst))}

\* a chip may recognise the frame it took last and not take it again
Repeats(m, f) == taken[m] # <<>> /\ taken[m][Len(taken[m])] = f

\* the chip sends the frame; those in heard hear it, those in take put it in the fifo
Frame(n, f, heard, take) ==
    /\ heard \subseteq Hearers(n, f)
    /\ take \subseteq heard /\ \A m \in heard \ take : Repeats(m, f)
    /\ rxfifo' = [m \in Node |-> IF m \in take THEN Append(rxfifo[m], f) ELSE rxfifo[m]]
    /\ taken' = [m \in Node |-> IF m \in take THEN Append(taken[m], f) ELSE taken[m]]
    /\ UNCHANGED <<ackp, mode, p0, pc, msg, recvq, sent, returned, got>>

Transmitting(n) == mode[n] = "tx" /\ txfifo[n] # <<>> /\ ~maxrt[n]

\* the frame leaves the fifo: acknowledged, or sent without asking for an ack
Transmit(n) ==
    /\ Transmitting(n)
    /\ \E heard, take \in SUBSET Node :
        /\ Frame(n, Head(txfifo[n]), heard, take)
        /\ ackp => heard # {}
    /\ txfifo' = [txfifo EXCEPT ![n] = Tail(@)]
    /\ txds' = [txds EXCEPT ![n] = TRUE]
    /\ UNCHANGED <<tries, maxrt>>

\* no acknowledgement came back: the frame stays, and is sent again Attempts times
NoAck(n) ==
    /\ Transmitting(n) /\ ackp
    /\ \E heard, take \in SUBSET Node : Frame(n, Head(txfifo[n]), heard, take)
    /\ tries' = [tries EXCEPT ![n] = @ + 1]
    /\ maxrt' = [maxrt EXCEPT ![n] = tries[n] = Attempts]
    /\ UNCHANGED <<txfifo, txds>>

Chip(n) == Transmit(n) \/ NoAck(n)

Send(n) == (\E d \in Addressee : SendBegin(n, d)) \/ SendLoad(n) \/ SendTx(n) \/ SendReturn(n)

Driver(n) == GetPkt(n) \/ ReadEnd(n) \/ SendLoad(n) \/ SendTx(n) \/ SendReturn(n)

Next == \E n \in Node : GetPkt(n) \/ ReadBegin(n) \/ ReadEnd(n) \/ Send(n) \/ Chip(n)

Spec == Init /\ [][Next]_vars

\* a call under way goes on, the chip does too, and a client with nothing else to
\* do reads
FairSpec ==
    /\ Spec
    /\ \A n \in Node : WF_vars(Driver(n)) /\ WF_vars(Chip(n)) /\ WF_vars(ReadBegin(n))

------------------------------------------------------------------------------
(* Properties. *)

(* recvq holds "message data in order of arrival" (nrf.h): between the chip and
   the client nothing is lost, repeated or reordered, whatever arrives while the
   driver is in the middle of a send or a read.  Except for the packet at which a
   node panics: it has left the chip, and was acknowledged, and is nowhere. *)
NothingLost ==
    \A n \in Node : pc[n] # "full" => taken[n] = got[n] \o recvq[n] \o rxfifo[n]

(* Retransmission can repeat a packet but never reorder: of one sender's packets
   a client reads no older one after a newer one. *)
InOrder ==
    \A n \in Node : \A i, j \in 1 .. Len(got[n]) :
        i < j /\ got[n][i].src = got[n][j].src => got[n][i].seq <= got[n][j].seq

(* nrf_tx_send_ack returns only if the packet was taken by the addressee or by a
   node that has itself sent to the addressee: its pipe 0 still answers to that
   address, and acknowledges in the addressee's place. *)
AckMeansTaken ==
    ackp => \A p \in returned : \E m \in Node :
        /\ \E i \in 1 .. Len(taken[m]) : taken[m][i] = p
        /\ m = p.dst \/ \E i \in 1 .. Len(sent) : sent[i].src = m /\ sent[i].dst = p.dst

(* Between calls every node listens, with nothing left to transmit and no stale
   TX_DS, and no assert of the driver fails. *)
IdleListens ==
    \A n \in Node : /\ pc[n] \in {"idle", "read", "send"} => AtRest(n) /\ ~txds[n]
                    /\ pc[n] # "assert"

(* A send ends, or the chip has given up: the only way to be stuck is MAX_RT. *)
SendEnds == \A n \in Node : pc[n] = "wait" ~> pc[n] # "wait" \/ maxrt[n]

------------------------------------------------------------------------------
(* What the documents say and the code does not do. *)

(* README.md Part 4: on the max retransmission interrupt "just panic". *)
GivenUpPanics == \A n \in Node : maxrt[n] ~> pc[n] = "failed"
==============================================================================
