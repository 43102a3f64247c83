--------------------------- MODULE NrfDriverProofs ---------------------------
(***************************************************************************)
(* Proofs about NrfDriver, for any number of nodes, any sizes of the       *)
(* chip's and the driver's queues, any number of retransmissions and       *)
(* packets, with and without acknowledgements.                             *)
(***************************************************************************)
EXTENDS NrfDriver, SequenceTheorems, TLAPS

PcType == {"idle", "read", "send", "load", "wait", "full", "failed", "assert"}

TypeOK ==
    /\ mode \in [Node -> {"rx", "tx"}]
    /\ p0 \in [Node -> Node]
    /\ txfifo \in [Node -> Seq(Packet)] /\ rxfifo \in [Node -> Seq(Packet)]
    /\ txds \in [Node -> BOOLEAN]
    /\ pc \in [Node -> PcType]
    /\ msg \in [Node -> Packet \cup {NoPacket}]
    /\ recvq \in [Node -> Seq(Packet)]
    /\ sent \in Seq(Packet) /\ returned \in SUBSET Packet
    /\ taken \in [Node -> Seq(Packet)] /\ got \in [Node -> Seq(Packet)]

\* what the chip of n is set to at each point of the driver
CallInv(n) ==
    /\ pc[n] # "assert"
    /\ pc[n] \in {"idle", "read", "send", "full"} => AtRest(n)
    /\ pc[n] \in {"idle", "read", "send", "load"} => ~txds[n]
    /\ pc[n] = "load" => mode[n] = "rx" /\ txfifo[n] = <<msg[n]>>
    /\ pc[n] = "wait" => txfifo[n] = <<>> \/ txfifo[n] = <<msg[n]>>
    /\ pc[n] = "failed" => txfifo[n] = <<>>

\* the packet under way is the last that n has sent
MsgInv(n) ==
    pc[n] \in {"send", "load", "wait"} =>
        /\ msg[n] \in Packet /\ msg[n].src = n
        /\ \E i \in 1 .. Len(sent) : sent[i] = msg[n]
        /\ \A i \in 1 .. Len(sent) : sent[i].src = n => sent[i].seq <= msg[n].seq

SentInv == \A i \in 1 .. Len(sent) : sent[i].seq = i

\* pipe 0 answers to the node's own address or to one it has sent to
PipeInv(n) ==
    p0[n] = n \/ \E i \in 1 .. Len(sent) : sent[i].src = n /\ sent[i].dst = p0[n]

\* a chip takes packets that were sent, the older of a sender first
TakenInv(n) ==
    /\ \A i \in 1 .. Len(taken[n]) : \E k \in 1 .. Len(sent) : sent[k] = taken[n][i]
    /\ \A i, j \in 1 .. Len(taken[n]) :
        i < j /\ taken[n][i].src = taken[n][j].src => taken[n][i].seq <= taken[n][j].seq

Kept(n) == pc[n] # "full" => taken[n] = got[n] \o recvq[n] \o rxfifo[n]

\* what the client of n has read is the beginning of what the chip took
GotInv(n) ==
    /\ Len(got[n]) <= Len(taken[n])
    /\ \A i \in 1 .. Len(got[n]) : got[n][i] = taken[n][i]

Delivered(p, tk, st) ==
    \E m \in Node :
        /\ \E i \in 1 .. Len(tk[m]) : tk[m][i] = p
        /\ m = p.dst \/ \E i \in 1 .. Len(st) : st[i].src = m /\ st[i].dst = p.dst

AckInv ==
    ackp =>
        /\ \A n \in Node : pc[n] = "wait" /\ txfifo[n] = <<>> => Delivered(msg[n], taken, sent)
        /\ \A p \in returned : Delivered(p, taken, sent)

NodeInv(n) == CallInv(n) /\ MsgInv(n) /\ PipeInv(n) /\ TakenInv(n) /\ Kept(n) /\ GotInv(n)

Inv == TypeOK /\ SentInv /\ (\A n \in Node : NodeInv(n)) /\ AckInv

------------------------------------------------------------------------------
(* Sequences: a head that moves to the end of the queue before it. *)

LEMMA ConcatAppend ==
  ASSUME NEW S, NEW p \in Seq(S), NEW o \in Seq(S), NEW x \in S
  PROVE  /\ p \o Append(o, x) = Append(p \o o, x)
         /\ p \o o \in Seq(S) /\ Append(o, x) \in Seq(S)
OBVIOUS

LEMMA ConcatShift ==
  ASSUME NEW S, NEW p \in Seq(S), NEW o \in Seq(S), o # <<>>
  PROVE  Append(p, Head(o)) \o Tail(o) = p \o o
OBVIOUS

LEMMA HeadTail ==
  ASSUME NEW S, NEW o \in Seq(S), o # <<>>
  PROVE  Head(o) \in S /\ Tail(o) \in Seq(S)
OBVIOUS

LEMMA MoveToClient ==
  ASSUME NEW S, NEW g \in Seq(S), NEW r \in Seq(S), NEW x \in Seq(S), r # <<>>
  PROVE  Append(g, Head(r)) \o Tail(r) \o x = g \o r \o x
BY ConcatShift

LEMMA Arrives ==
  ASSUME NEW S, NEW g \in Seq(S), NEW r \in Seq(S), NEW x \in Seq(S), NEW f \in S
  PROVE  g \o r \o Append(x, f) = Append(g \o r \o x, f)
OBVIOUS

LEMMA Prefix ==
  ASSUME NEW S, NEW g \in Seq(S), NEW r \in Seq(S), NEW x \in Seq(S)
  PROVE  /\ Len(g) <= Len(g \o r \o x)
         /\ \A i \in 1 .. Len(g) : (g \o r \o x)[i] = g[i]
OBVIOUS

LEMMA PacketQueues ==
  \A g, r, x \in Seq(Packet) :
    /\ x # <<>> => g \o Append(r, Head(x)) \o Tail(x) = g \o r \o x
    /\ r # <<>> => Append(g, Head(r)) \o Tail(r) \o x = g \o r \o x
    /\ Len(g) <= Len(g \o r \o x)
    /\ \A i \in 1 .. Len(g) : (g \o r \o x)[i] = g[i]
    /\ \A f \in Packet : g \o r \o Append(x, f) = Append(g \o r \o x, f)
<1>. SUFFICES ASSUME NEW g \in Seq(Packet), NEW r \in Seq(Packet), NEW x \in Seq(Packet)
              PROVE  /\ x # <<>> => g \o Append(r, Head(x)) \o Tail(x) = g \o r \o x
                     /\ r # <<>> => Append(g, Head(r)) \o Tail(r) \o x = g \o r \o x
                     /\ Len(g) <= Len(g \o r \o x)
                     /\ \A i \in 1 .. Len(g) : (g \o r \o x)[i] = g[i]
                     /\ \A f \in Packet : g \o r \o Append(x, f) = Append(g \o r \o x, f)
  OBVIOUS
<1>1. x # <<>> => g \o Append(r, Head(x)) \o Tail(x) = g \o r \o x
  <2>. SUFFICES ASSUME x # <<>> PROVE g \o Append(r, Head(x)) \o Tail(x) = g \o r \o x
    OBVIOUS
  <2>1. g \o Append(r, Head(x)) = Append(g \o r, Head(x)) /\ g \o r \in Seq(Packet)
    BY ConcatAppend, HeadTail
  <2>. QED  BY <2>1, ConcatShift
<1>2. r # <<>> => Append(g, Head(r)) \o Tail(r) \o x = g \o r \o x
  BY MoveToClient
<1>3. \A f \in Packet : g \o r \o Append(x, f) = Append(g \o r \o x, f)
  BY Arrives
<1>4. /\ Len(g) <= Len(g \o r \o x)
      /\ \A i \in 1 .. Len(g) : (g \o r \o x)[i] = g[i]
  BY Prefix
<1>. QED  BY <1>1, <1>2, <1>3, <1>4

LEMMA InitInv == Init => Inv
<1>. SUFFICES ASSUME Init PROVE Inv
  OBVIOUS
<1>1. TypeOK
  BY DEF Init, TypeOK, PcType
<1>2. SentInv /\ AckInv
  BY DEF Init, SentInv, AckInv
<1>3. ASSUME NEW n \in Node PROVE NodeInv(n)
  BY DEF Init, NodeInv, CallInv, MsgInv, PipeInv, TakenInv, Kept, GotInv, AtRest
<1>. QED  BY <1>1, <1>2, <1>3 DEF Inv

------------------------------------------------------------------------------
(* What a step leaves alone. *)

LEMMA Elsewhere ==
  ASSUME NEW m \in Node, NodeInv(m), sent' = sent,
         pc'[m] = pc[m], mode'[m] = mode[m], txfifo'[m] = txfifo[m], txds'[m] = txds[m],
         msg'[m] = msg[m], p0'[m] = p0[m], taken'[m] = taken[m], got'[m] = got[m],
         recvq'[m] = recvq[m], rxfifo'[m] = rxfifo[m]
  PROVE  NodeInv(m)'
<1>1. CallInv(m)'
  BY DEF NodeInv, CallInv, AtRest
<1>2. MsgInv(m)'
  BY DEF NodeInv, MsgInv
<1>3. PipeInv(m)' /\ TakenInv(m)' /\ Kept(m)' /\ GotInv(m)'
  BY DEF NodeInv, PipeInv, TakenInv, Kept, GotInv
<1>. QED  BY <1>1, <1>2, <1>3 DEF NodeInv

LEMMA SameDeliveries ==
  ASSUME AckInv, ackp' = ackp, taken' = taken, sent' = sent, returned' = returned,
         \A n \in Node : pc'[n] = "wait" /\ txfifo'[n] = <<>> =>
            pc[n] = "wait" /\ txfifo[n] = <<>> /\ msg'[n] = msg[n]
  PROVE  AckInv'
BY DEF AckInv

(* A step of node n outside the air, and not a new send. *)
LEMMA LocalStep ==
  ASSUME Inv, NEW n \in Node, TypeOK', ackp' = ackp, taken' = taken, sent' = sent,
         returned' = returned,
         \A m \in Node \ {n} :
            /\ pc'[m] = pc[m] /\ mode'[m] = mode[m] /\ txfifo'[m] = txfifo[m]
            /\ txds'[m] = txds[m] /\ msg'[m] = msg[m] /\ p0'[m] = p0[m]
            /\ got'[m] = got[m] /\ recvq'[m] = recvq[m] /\ rxfifo'[m] = rxfifo[m],
         NodeInv(n)',
         pc'[n] = "wait" /\ txfifo'[n] = <<>> =>
            pc[n] = "wait" /\ txfifo[n] = <<>> /\ msg'[n] = msg[n]
  PROVE  Inv'
<1>1. SentInv'
  BY DEF Inv, SentInv
<1>2. ASSUME NEW m \in Node PROVE NodeInv(m)'
  <2>1. CASE m # n
    BY <2>1, Elsewhere DEF Inv
  <2>. QED  BY <2>1
<1>3. AckInv'
  <2>1. AckInv
    BY DEF Inv
  <2>2. \A m \in Node : pc'[m] = "wait" /\ txfifo'[m] = <<>> =>
            pc[m] = "wait" /\ txfifo[m] = <<>> /\ msg'[m] = msg[m]
    OBVIOUS
  <2>. QED  BY <2>1, <2>2, SameDeliveries
<1>. QED  BY <1>1, <1>2, <1>3 DEF Inv

------------------------------------------------------------------------------
(* Receiving. *)

LEMMA GetPktInv == ASSUME Inv, NEW n \in Node, GetPkt(n) PROVE Inv'
<1>. USE DEF TypeOK
<1>0. TypeOK /\ NodeInv(n)
  BY DEF Inv
<1>1. /\ pc[n] \in {"send", "read"} /\ rxfifo[n] # <<>>
      /\ rxfifo' = [rxfifo EXCEPT ![n] = Tail(@)]
      /\ \/ recvq' = [recvq EXCEPT ![n] = Append(@, Head(rxfifo[n]))] /\ UNCHANGED pc
         \/ pc' = [pc EXCEPT ![n] = "full"] /\ UNCHANGED recvq
      /\ UNCHANGED <<ackp, mode, p0, txfifo, tries, maxrt, txds, msg, sent, returned, taken, got>>
  BY DEF GetPkt, histVars
<1>2. Head(rxfifo[n]) \in Packet /\ Tail(rxfifo[n]) \in Seq(Packet)
  BY <1>0, <1>1, HeadTail
<1>3. Append(recvq[n], Head(rxfifo[n])) \in Seq(Packet)
  BY <1>0, <1>2, ConcatAppend
<1>4. TypeOK'
  BY <1>0, <1>1, <1>2, <1>3 DEF PcType
<1>5. rxfifo'[n] = Tail(rxfifo[n])
  BY <1>0, <1>1
<1>6. \/ pc'[n] = pc[n] /\ recvq'[n] = Append(recvq[n], Head(rxfifo[n]))
      \/ pc'[n] = "full" /\ recvq'[n] = recvq[n]
  BY <1>0, <1>1
<1>7. NodeInv(n)'
  <2>1. CallInv(n)'
    BY <1>0, <1>1, <1>6 DEF NodeInv, CallInv, AtRest
  <2>2. MsgInv(n)'
    BY <1>0, <1>1, <1>6 DEF NodeInv, MsgInv
  <2>3. PipeInv(n)' /\ TakenInv(n)' /\ GotInv(n)'
    BY <1>0, <1>1 DEF NodeInv, PipeInv, TakenInv, GotInv
  <2>4. Kept(n)'
    <3>1. taken[n] = got[n] \o recvq[n] \o rxfifo[n]
      BY <1>0, <1>1 DEF NodeInv, Kept
    <3>2. got[n] \in Seq(Packet) /\ recvq[n] \in Seq(Packet) /\ rxfifo[n] \in Seq(Packet)
      BY <1>0
    <3>3. got[n] \o Append(recvq[n], Head(rxfifo[n])) \o Tail(rxfifo[n])
            = got[n] \o recvq[n] \o rxfifo[n]
      BY <1>1, <3>2, PacketQueues
    <3>. QED  BY <1>1, <1>5, <1>6, <3>1, <3>3 DEF Kept
  <2>. QED  BY <2>1, <2>2, <2>3, <2>4 DEF NodeInv
<1>8. \A m \in Node \ {n} : pc'[m] = pc[m] /\ recvq'[m] = recvq[m] /\ rxfifo'[m] = rxfifo[m]
  BY <1>0, <1>1
<1>9. pc'[n] # "wait"
  BY <1>1, <1>6
<1>. HIDE DEF TypeOK
<1>. QED  BY <1>1, <1>4, <1>7, <1>8, <1>9, LocalStep

LEMMA ReadBeginInv == ASSUME Inv, NEW n \in Node, ReadBegin(n) PROVE Inv'
<1>. USE DEF TypeOK
<1>0. TypeOK /\ NodeInv(n)
  BY DEF Inv
<1>1. /\ pc[n] = "idle" /\ pc' = [pc EXCEPT ![n] = "read"]
      /\ UNCHANGED <<ackp, mode, p0, txfifo, rxfifo, txds, msg, recvq, sent, returned, taken, got>>
  BY DEF ReadBegin, histVars, chipVars
<1>2. TypeOK'
  BY <1>0, <1>1 DEF PcType
<1>3. pc'[n] = "read" /\ \A m \in Node \ {n} : pc'[m] = pc[m]
  BY <1>0, <1>1
<1>4. NodeInv(n)'
  BY <1>0, <1>1, <1>3 DEF NodeInv, CallInv, MsgInv, PipeInv, TakenInv, Kept, GotInv, AtRest
<1>. HIDE DEF TypeOK
<1>. QED  BY <1>1, <1>2, <1>3, <1>4, LocalStep

LEMMA ReadEndInv == ASSUME Inv, NEW n \in Node, ReadEnd(n) PROVE Inv'
<1>. USE DEF TypeOK
<1>0. TypeOK /\ NodeInv(n)
  BY DEF Inv
<1>1. /\ pc[n] = "read" /\ pc' = [pc EXCEPT ![n] = "idle"]
      /\ \/ /\ recvq[n] # <<>>
            /\ got' = [got EXCEPT ![n] = Append(@, Head(recvq[n]))]
            /\ recvq' = [recvq EXCEPT ![n] = Tail(@)]
         \/ UNCHANGED <<got, recvq>>
      /\ UNCHANGED <<ackp, mode, p0, txfifo, rxfifo, txds, msg, sent, returned, taken>>
  BY DEF ReadEnd, chipVars
<1>2. recvq[n] # <<>> =>
        /\ Head(recvq[n]) \in Packet /\ Tail(recvq[n]) \in Seq(Packet)
        /\ Append(got[n], Head(recvq[n])) \in Seq(Packet)
  BY <1>0, HeadTail, ConcatAppend
<1>3. TypeOK'
  <2>1. got' \in [Node -> Seq(Packet)] /\ recvq' \in [Node -> Seq(Packet)]
    <3>1. CASE UNCHANGED <<got, recvq>>
      BY <1>0, <3>1
    <3>2. CASE /\ recvq[n] # <<>>
               /\ got' = [got EXCEPT ![n] = Append(@, Head(recvq[n]))]
               /\ recvq' = [recvq EXCEPT ![n] = Tail(@)]
      BY <1>0, <1>2, <3>2
    <3>. QED  BY <1>1, <3>1, <3>2
  <2>. QED  BY <1>0, <1>1, <2>1 DEF PcType
<1>4. /\ pc'[n] = "idle"
      /\ \/ /\ recvq[n] # <<>> /\ got'[n] = Append(got[n], Head(recvq[n]))
            /\ recvq'[n] = Tail(recvq[n])
         \/ got'[n] = got[n] /\ recvq'[n] = recvq[n]
  BY <1>0, <1>1
<1>5. NodeInv(n)'
  <2>1. CallInv(n)' /\ MsgInv(n)'
    BY <1>0, <1>1, <1>4 DEF NodeInv, CallInv, MsgInv, AtRest
  <2>2. PipeInv(n)' /\ TakenInv(n)'
    BY <1>0, <1>1 DEF NodeInv, PipeInv, TakenInv
  <2>3. taken[n] = got'[n] \o recvq'[n] \o rxfifo[n]
    <3>1. taken[n] = got[n] \o recvq[n] \o rxfifo[n]
      BY <1>0, <1>1 DEF NodeInv, Kept
    <3>2. got[n] \in Seq(Packet) /\ recvq[n] \in Seq(Packet) /\ rxfifo[n] \in Seq(Packet)
      BY <1>0
    <3>3. recvq[n] # <<>> =>
            Append(got[n], Head(recvq[n])) \o Tail(recvq[n]) \o rxfifo[n]
              = got[n] \o recvq[n] \o rxfifo[n]
      BY <3>2, PacketQueues
    <3>. QED  BY <1>4, <3>1, <3>3
  <2>4. Kept(n)'
    BY <1>1, <2>3 DEF Kept
  <2>5. GotInv(n)'
    <3>1. got'[n] \in Seq(Packet) /\ recvq'[n] \in Seq(Packet) /\ rxfifo[n] \in Seq(Packet)
      BY <1>0, <1>3
    <3>2. /\ Len(got'[n]) <= Len(got'[n] \o recvq'[n] \o rxfifo[n])
          /\ \A i \in 1 .. Len(got'[n]) : (got'[n] \o recvq'[n] \o rxfifo[n])[i] = got'[n][i]
      BY <3>1, PacketQueues
    <3>. QED  BY <1>1, <2>3, <3>2 DEF GotInv
  <2>. QED  BY <2>1, <2>2, <2>4, <2>5 DEF NodeInv
<1>6. \A m \in Node \ {n} : pc'[m] = pc[m] /\ got'[m] = got[m] /\ recvq'[m] = recvq[m]
  BY <1>0, <1>1
<1>. HIDE DEF TypeOK
<1>. QED  BY <1>1, <1>3, <1>4, <1>5, <1>6, LocalStep

------------------------------------------------------------------------------
(* Sending. *)

LEMMA DeliveredStays ==
  ASSUME NEW p, NEW tk, NEW st, NEW tk2, NEW st2, Delivered(p, tk, st),
         \A m \in Node : /\ Len(tk[m]) \in Nat /\ Len(tk2[m]) \in Nat
                         /\ Len(tk[m]) <= Len(tk2[m])
                         /\ \A i \in 1 .. Len(tk[m]) : tk2[m][i] = tk[m][i],
         Len(st) \in Nat, Len(st2) \in Nat, Len(st) <= Len(st2),
         \A i \in 1 .. Len(st) : st2[i] = st[i]
  PROVE  Delivered(p, tk2, st2)
<1>1. PICK m \in Node : /\ \E i \in 1 .. Len(tk[m]) : tk[m][i] = p
                        /\ m = p.dst \/ \E i \in 1 .. Len(st) : st[i].src = m /\ st[i].dst = p.dst
  BY DEF Delivered
<1>2. \E i \in 1 .. Len(tk2[m]) : tk2[m][i] = p
  <2>1. PICK i \in 1 .. Len(tk[m]) : tk[m][i] = p
    BY <1>1
  <2>2. i \in 1 .. Len(tk2[m])
    OBVIOUS
  <2>. QED  BY <2>1, <2>2
<1>3. m = p.dst \/ \E i \in 1 .. Len(st2) : st2[i].src = m /\ st2[i].dst = p.dst
  <2>1. ASSUME NEW i \in 1 .. Len(st), st[i].src = m /\ st[i].dst = p.dst
        PROVE  i \in 1 .. Len(st2) /\ st2[i].src = m /\ st2[i].dst = p.dst
    BY <2>1
  <2>. QED  BY <1>1, <2>1
<1>. QED  BY <1>2, <1>3 DEF Delivered

(* The asserts at the start of a send hold, because every send and every read
   leaves the chip listening with an empty transmit fifo. *)
LEMMA SendBeginInv ==
  ASSUME Inv, NEW n \in Node, NEW d \in Addressee, SendBegin(n, d)
  PROVE  Inv'
<1>. DEFINE p == [src |-> n, dst |-> d, seq |-> Len(sent) + 1]
<1>0. TypeOK /\ SentInv /\ AckInv /\ \A m \in Node : NodeInv(m)
  BY DEF Inv
<1>. USE DEF TypeOK
<1>1. sent \in Seq(Packet) /\ Len(sent) \in Nat
  BY <1>0
<1>2. p \in Packet /\ p.src = n /\ p.seq = Len(sent) + 1
  BY <1>1, NrfAssumption DEF Packet
<1>3. /\ pc[n] = "idle"
      /\ msg' = [msg EXCEPT ![n] = p] /\ sent' = Append(sent, msg'[n])
      /\ pc' = [pc EXCEPT ![n] = IF AtRest(n) THEN "send" ELSE "assert"]
      /\ UNCHANGED <<ackp, mode, p0, txfifo, rxfifo, txds, recvq, returned, taken, got>>
  BY DEF SendBegin, chipVars
<1>4. AtRest(n) /\ ~txds[n]
  BY <1>0, <1>3 DEF NodeInv, CallInv
<1>. HIDE DEF p
<1>5. msg'[n] = p /\ sent' = Append(sent, p) /\ pc'[n] = "send"
  BY <1>0, <1>3, <1>4
<1>6. /\ Len(sent') = Len(sent) + 1
      /\ \A i \in 1 .. Len(sent) : sent'[i] = sent[i]
      /\ sent'[Len(sent) + 1] = p
  BY <1>1, <1>2, <1>5
<1>7. \A m \in Node \ {n} : pc'[m] = pc[m] /\ msg'[m] = msg[m]
  BY <1>0, <1>3
<1>8. TypeOK'
  <2>1. sent' \in Seq(Packet)
    BY <1>1, <1>2, <1>5
  <2>. QED  BY <1>0, <1>2, <1>3, <1>4, <2>1 DEF PcType
<1>9. SentInv'
  <2>. SUFFICES ASSUME NEW i \in 1 .. Len(sent') PROVE sent'[i].seq = i
    BY DEF SentInv
  <2>1. CASE i \in 1 .. Len(sent)
    BY <1>0, <1>6, <2>1 DEF SentInv
  <2>2. CASE i = Len(sent) + 1
    BY <1>2, <1>6, <2>2
  <2>. QED  BY <1>1, <1>6, <2>1, <2>2
<1>10. ASSUME NEW m \in Node PROVE NodeInv(m)'
  <2>1. CallInv(m)'
    BY <1>0, <1>3, <1>4, <1>5, <1>7 DEF NodeInv, CallInv, AtRest
  <2>2. MsgInv(m)'
    <3>1. CASE m = n
      <4>1. Len(sent) + 1 \in 1 .. Len(sent')
        BY <1>1, <1>6
      <4>2. \A i \in 1 .. Len(sent') : sent'[i].seq <= p.seq
        <5>. SUFFICES ASSUME NEW i \in 1 .. Len(sent') PROVE sent'[i].seq <= p.seq
          OBVIOUS
        <5>1. sent'[i].seq = i
          BY <1>9 DEF SentInv
        <5>. QED  BY <1>1, <1>2, <1>6, <5>1
      <4>. QED  BY <3>1, <1>2, <1>5, <1>6, <4>1, <4>2 DEF MsgInv
    <3>2. CASE m # n
      <4>. SUFFICES ASSUME pc[m] \in {"send", "load", "wait"}
                    PROVE  /\ msg[m] \in Packet /\ msg[m].src = m
                           /\ \E i \in 1 .. Len(sent') : sent'[i] = msg[m]
                           /\ \A i \in 1 .. Len(sent') :
                                sent'[i].src = m => sent'[i].seq <= msg[m].seq
        BY <3>2, <1>7 DEF MsgInv
      <4>1. /\ msg[m] \in Packet /\ msg[m].src = m
            /\ \E i \in 1 .. Len(sent) : sent[i] = msg[m]
            /\ \A i \in 1 .. Len(sent) : sent[i].src = m => sent[i].seq <= msg[m].seq
        BY <1>0 DEF NodeInv, MsgInv
      <4>. QED  BY <1>1, <1>2, <1>6, <3>2, <4>1
    <3>. QED  BY <3>1, <3>2
  <2>3. PipeInv(m)'
    BY <1>0, <1>1, <1>3, <1>6 DEF NodeInv, PipeInv
  <2>4. TakenInv(m)'
    <3>1. /\ \A i \in 1 .. Len(taken[m]) : \E k \in 1 .. Len(sent) : sent[k] = taken[m][i]
          /\ \A i, j \in 1 .. Len(taken[m]) :
                i < j /\ taken[m][i].src = taken[m][j].src => taken[m][i].seq <= taken[m][j].seq
      BY <1>0 DEF NodeInv, TakenInv
    <3>2. \A i \in 1 .. Len(taken[m]) : \E k \in 1 .. Len(sent') : sent'[k] = taken[m][i]
      <4>. SUFFICES ASSUME NEW i \in 1 .. Len(taken[m])
                    PROVE  \E k \in 1 .. Len(sent') : sent'[k] = taken[m][i]
        OBVIOUS
      <4>1. PICK k \in 1 .. Len(sent) : sent[k] = taken[m][i]
        BY <3>1
      <4>2. k \in 1 .. Len(sent') /\ sent'[k] = sent[k]
        BY <1>1, <1>6
      <4>. QED  BY <4>1, <4>2
    <3>3. taken' = taken
      BY <1>3
    <3>. QED  BY <3>1, <3>2, <3>3 DEF TakenInv
  <2>5. Kept(m)' /\ GotInv(m)'
    BY <1>0, <1>3, <1>5, <1>7 DEF NodeInv, Kept, GotInv
  <2>. QED  BY <2>1, <2>2, <2>3, <2>4, <2>5 DEF NodeInv
<1>11. AckInv'
  <2>1. ASSUME NEW m \in Node PROVE Len(taken[m]) \in Nat
    <3>1. taken[m] \in Seq(Packet)
      BY <1>0
    <3>. QED  BY <3>1
  <2>2. \A q : Delivered(q, taken, sent) => Delivered(q, taken, sent')
    BY <1>1, <1>6, <2>1, DeliveredStays
  <2>3. \A m \in Node : pc'[m] = "wait" => pc[m] = "wait" /\ msg'[m] = msg[m]
    BY <1>5, <1>7
  <2>. QED  BY <1>0, <1>3, <2>2, <2>3 DEF AckInv
<1>. HIDE DEF TypeOK
<1>. QED  BY <1>8, <1>9, <1>10, <1>11 DEF Inv

LEMMA SendLoadInv == ASSUME Inv, NEW n \in Node, SendLoad(n) PROVE Inv'
<1>. USE DEF TypeOK
<1>0. TypeOK /\ NodeInv(n)
  BY DEF Inv
<1>1. /\ pc[n] = "send" /\ pc' = [pc EXCEPT ![n] = "load"]
      /\ p0' = [p0 EXCEPT ![n] = msg[n].dst] \/ p0' = p0
      /\ txfifo' = [txfifo EXCEPT ![n] = Append(@, msg[n])]
      /\ UNCHANGED <<ackp, mode, rxfifo, txds, msg, recvq, sent, returned, taken, got>>
  BY DEF SendLoad, histVars
<1>2. /\ msg[n] \in Packet /\ msg[n].src = n /\ msg[n].dst \in Node
      /\ \E i \in 1 .. Len(sent) : sent[i] = msg[n]
  BY <1>0, <1>1 DEF NodeInv, MsgInv, Packet
<1>3. mode[n] = "rx" /\ txfifo[n] = <<>> /\ ~txds[n]
  BY <1>0, <1>1 DEF NodeInv, CallInv, AtRest
<1>4. /\ pc'[n] = "load" /\ txfifo'[n] = <<msg[n]>>
      /\ p0'[n] = msg[n].dst \/ p0'[n] = p0[n]
  BY <1>0, <1>1, <1>2, <1>3
<1>5. TypeOK'
  <2>1. p0' \in [Node -> Node]
    BY <1>0, <1>1, <1>2
  <2>2. txfifo' \in [Node -> Seq(Packet)]
    BY <1>0, <1>1, <1>2
  <2>. QED  BY <1>0, <1>1, <2>1, <2>2 DEF PcType
<1>6. NodeInv(n)'
  <2>1. CallInv(n)'
    BY <1>1, <1>3, <1>4 DEF CallInv
  <2>2. MsgInv(n)' /\ TakenInv(n)' /\ Kept(n)' /\ GotInv(n)'
    BY <1>0, <1>1, <1>4 DEF NodeInv, MsgInv, TakenInv, Kept, GotInv
  <2>3. PipeInv(n)'
    BY <1>0, <1>1, <1>2, <1>4 DEF NodeInv, PipeInv
  <2>. QED  BY <2>1, <2>2, <2>3 DEF NodeInv
<1>7. \A m \in Node \ {n} : pc'[m] = pc[m] /\ p0'[m] = p0[m] /\ txfifo'[m] = txfifo[m]
  BY <1>0, <1>1
<1>. HIDE DEF TypeOK
<1>. QED  BY <1>1, <1>4, <1>5, <1>6, <1>7, LocalStep

LEMMA SendTxInv == ASSUME Inv, NEW n \in Node, SendTx(n) PROVE Inv'
<1>. USE DEF TypeOK
<1>0. TypeOK /\ NodeInv(n)
  BY DEF Inv
<1>1. /\ pc[n] = "load" /\ pc' = [pc EXCEPT ![n] = "wait"]
      /\ mode' = [mode EXCEPT ![n] = "tx"]
      /\ UNCHANGED <<ackp, p0, txfifo, rxfifo, txds, msg, recvq, sent, returned, taken, got>>
  BY DEF SendTx, TxMode, histVars
<1>2. txfifo[n] = <<msg[n]>> /\ txfifo[n] # <<>>
  <2>1. txfifo[n] = <<msg[n]>>
    BY <1>0, <1>1 DEF NodeInv, CallInv
  <2>2. <<msg[n]>> # <<>>
    OBVIOUS
  <2>. QED  BY <2>1, <2>2
<1>3. pc'[n] = "wait" /\ \A m \in Node \ {n} : pc'[m] = pc[m] /\ mode'[m] = mode[m]
  BY <1>0, <1>1
<1>4. TypeOK'
  BY <1>0, <1>1 DEF PcType
<1>5. NodeInv(n)'
  <2>1. CallInv(n)' /\ MsgInv(n)'
    BY <1>0, <1>1, <1>2, <1>3 DEF NodeInv, CallInv, MsgInv
  <2>2. PipeInv(n)' /\ TakenInv(n)' /\ Kept(n)' /\ GotInv(n)'
    BY <1>0, <1>1, <1>3 DEF NodeInv, PipeInv, TakenInv, Kept, GotInv
  <2>. QED  BY <2>1, <2>2 DEF NodeInv
<1>. HIDE DEF TypeOK
<1>. QED  BY <1>1, <1>2, <1>3, <1>4, <1>5, LocalStep

(* A send returns after the fifo has drained: with acknowledgements that is a
   delivery. *)
LEMMA SendReturnInv == ASSUME Inv, NEW n \in Node, SendReturn(n) PROVE Inv'
<1>. USE DEF TypeOK
<1>0. TypeOK /\ SentInv /\ AckInv /\ \A m \in Node : NodeInv(m)
  BY DEF Inv
<1>1. /\ pc[n] = "wait" /\ txfifo[n] = <<>>
      /\ \/ /\ pc' = [pc EXCEPT ![n] = "failed"] /\ UNCHANGED <<mode, txds, returned>>
         \/ /\ mode' = [mode EXCEPT ![n] = "rx"] /\ txds' = [txds EXCEPT ![n] = FALSE]
            /\ returned' = returned \cup {msg[n]} /\ pc' = [pc EXCEPT ![n] = "idle"]
      /\ UNCHANGED <<ackp, p0, txfifo, rxfifo, msg, recvq, sent, taken, got>>
  BY DEF SendReturn, RxMode
<1>2. msg[n] \in Packet
  BY <1>0, <1>1 DEF NodeInv, MsgInv
<1>3. TypeOK'
  <2>1. CASE pc' = [pc EXCEPT ![n] = "failed"] /\ UNCHANGED <<mode, txds, returned>>
    BY <1>0, <1>1, <2>1 DEF PcType
  <2>2. CASE /\ mode' = [mode EXCEPT ![n] = "rx"] /\ txds' = [txds EXCEPT ![n] = FALSE]
             /\ returned' = returned \cup {msg[n]} /\ pc' = [pc EXCEPT ![n] = "idle"]
    BY <1>0, <1>1, <1>2, <2>2 DEF PcType
  <2>. QED  BY <1>1, <2>1, <2>2
<1>4. /\ pc'[n] = "failed" \/ (pc'[n] = "idle" /\ mode'[n] = "rx" /\ ~txds'[n])
      /\ \A m \in Node \ {n} : pc'[m] = pc[m] /\ mode'[m] = mode[m] /\ txds'[m] = txds[m]
  BY <1>0, <1>1
<1>5. ASSUME NEW m \in Node PROVE NodeInv(m)'
  <2>1. CASE m = n
    <3>1. CallInv(n)' /\ MsgInv(n)'
      BY <1>1, <1>4 DEF CallInv, MsgInv, AtRest
    <3>2. NodeInv(n)
      BY <1>0
    <3>3. PipeInv(n)' /\ TakenInv(n)'
      BY <1>1, <3>2 DEF NodeInv, PipeInv, TakenInv
    <3>4. Kept(n)' /\ GotInv(n)'
      BY <1>1, <3>2 DEF NodeInv, Kept, GotInv
    <3>. QED  BY <2>1, <3>1, <3>3, <3>4 DEF NodeInv
  <2>2. CASE m # n
    BY <1>0, <1>1, <1>4, <2>2, Elsewhere
  <2>. QED  BY <2>1, <2>2
<1>6. SentInv'
  BY <1>0, <1>1 DEF SentInv
<1>7. AckInv'
  <2>1. returned' \subseteq returned \cup {msg[n]}
    BY <1>1
  <2>2. \A m \in Node : pc'[m] = "wait" => pc[m] = "wait"
    BY <1>4
  <2>. QED  BY <1>0, <1>1, <2>1, <2>2 DEF AckInv
<1>. HIDE DEF TypeOK
<1>. QED  BY <1>3, <1>5, <1>6, <1>7 DEF Inv

------------------------------------------------------------------------------
(* The chip and the air. *)

(* A chip transmits only for a driver that waits for it. *)
LEMMA OnAir ==
  ASSUME TypeOK, NEW n \in Node, NodeInv(n), Transmitting(n)
  PROVE  /\ pc[n] = "wait" /\ txfifo[n] = <<msg[n]>> /\ Head(txfifo[n]) = msg[n]
         /\ msg[n] \in Packet /\ msg[n].src = n
<1>1. pc[n] \in PcType /\ mode[n] = "tx" /\ txfifo[n] # <<>>
  BY DEF TypeOK, Transmitting
<1>2. pc[n] = "wait" /\ txfifo[n] = <<msg[n]>>
  BY <1>1 DEF NodeInv, CallInv, AtRest, PcType
<1>3. Head(<<msg[n]>>) = msg[n]
  OBVIOUS
<1>. QED  BY <1>2, <1>3 DEF NodeInv, MsgInv

(* One transmission: chips that hear it may take the frame, and it stays in the
   fifo or, acknowledged or not asked to be, leaves it. *)
LEMMA AirStep ==
  ASSUME Inv, NEW n \in Node, Transmitting(n),
         NEW heard \in SUBSET Node, NEW take \in SUBSET Node,
         Frame(n, Head(txfifo[n]), heard, take),
         txfifo' \in [Node -> Seq(Packet)], txds' \in [Node -> BOOLEAN],
         \A m \in Node \ {n} : txfifo'[m] = txfifo[m] /\ txds'[m] = txds[m],
         txfifo'[n] = txfifo[n] \/ (txfifo'[n] = <<>> /\ (ackp => heard # {}))
  PROVE  Inv'
<1>. DEFINE f == msg[n]
<1>0. TypeOK /\ SentInv /\ AckInv /\ \A m \in Node : NodeInv(m)
  BY DEF Inv
<1>1. /\ pc[n] = "wait" /\ txfifo[n] = <<f>> /\ Head(txfifo[n]) = f
      /\ f \in Packet /\ f.src = n
  BY <1>0, OnAir
<1>2. /\ heard \subseteq Hearers(n, f)
      /\ take \subseteq heard /\ \A m \in heard \ take : Repeats(m, f)
      /\ rxfifo' = [m \in Node |-> IF m \in take THEN Append(rxfifo[m], f) ELSE rxfifo[m]]
      /\ taken' = [m \in Node |-> IF m \in take THEN Append(taken[m], f) ELSE taken[m]]
      /\ UNCHANGED <<ackp, mode, p0, pc, msg, recvq, sent, returned, got>>
  BY <1>1 DEF Frame
<1>. HIDE DEF f
<1>3. ASSUME NEW m \in Node
      PROVE  /\ taken[m] \in Seq(Packet) /\ rxfifo[m] \in Seq(Packet)
             /\ recvq[m] \in Seq(Packet) /\ got[m] \in Seq(Packet)
             /\ Append(taken[m], f) \in Seq(Packet) /\ Append(rxfifo[m], f) \in Seq(Packet)
  <2>1. /\ taken[m] \in Seq(Packet) /\ rxfifo[m] \in Seq(Packet)
        /\ recvq[m] \in Seq(Packet) /\ got[m] \in Seq(Packet)
    BY <1>0 DEF TypeOK
  <2>. QED  BY <2>1, <1>1, ConcatAppend
<1>4. ASSUME NEW m \in Node
      PROVE  \/ /\ m \in take
                /\ taken'[m] = Append(taken[m], f) /\ rxfifo'[m] = Append(rxfifo[m], f)
             \/ m \notin take /\ taken'[m] = taken[m] /\ rxfifo'[m] = rxfifo[m]
  BY <1>2
<1>5. ASSUME NEW m \in Node
      PROVE  /\ Len(taken[m]) \in Nat /\ Len(taken'[m]) \in Nat
             /\ Len(taken[m]) <= Len(taken'[m])
             /\ \A i \in 1 .. Len(taken[m]) : taken'[m][i] = taken[m][i]
             /\ m \in take => /\ Len(taken'[m]) = Len(taken[m]) + 1
                              /\ taken'[m][Len(taken[m]) + 1] = f
  <2>1. /\ Len(Append(taken[m], f)) = Len(taken[m]) + 1
        /\ \A i \in 1 .. Len(taken[m]) : Append(taken[m], f)[i] = taken[m][i]
        /\ Append(taken[m], f)[Len(taken[m]) + 1] = f
        /\ Len(taken[m]) \in Nat
    <3>1. taken[m] \in Seq(Packet)
      BY <1>3
    <3>. QED  BY <1>1, <3>1
  <2>2. CASE taken'[m] = Append(taken[m], f)
    BY <2>1, <2>2
  <2>3. CASE m \notin take /\ taken'[m] = taken[m]
    BY <2>1, <2>3
  <2>. QED  BY <1>4, <2>2, <2>3
<1>6. TypeOK'
  <2>1. rxfifo' \in [Node -> Seq(Packet)] /\ taken' \in [Node -> Seq(Packet)]
    BY <1>2, <1>3
  <2>. QED  BY <1>0, <1>2, <2>1 DEF TypeOK
<1>7. SentInv'
  BY <1>0, <1>2 DEF SentInv
<1>8. ASSUME NEW m \in Node PROVE NodeInv(m)'
  <2>0. NodeInv(m)
    BY <1>0
  <2>1. CallInv(m)'
    BY <1>1, <1>2, <2>0 DEF NodeInv, CallInv, AtRest, f
  <2>2. MsgInv(m)' /\ PipeInv(m)'
    BY <1>2, <2>0 DEF NodeInv, MsgInv, PipeInv
  <2>3. TakenInv(m)'
    <3>1. \A i \in 1 .. Len(taken'[m]) : i \in 1 .. Len(taken[m]) \/ taken'[m][i] = f
      BY <1>4, <1>5
    <3>2. \E k \in 1 .. Len(sent) : sent[k] = f
      BY <1>0, <1>1 DEF NodeInv, MsgInv, f
    <3>3. \A i \in 1 .. Len(taken'[m]) : \E k \in 1 .. Len(sent) : sent[k] = taken'[m][i]
      BY <2>0, <3>1, <3>2, <1>5 DEF NodeInv, TakenInv
    <3>4. \A i \in 1 .. Len(taken[m]) : taken[m][i].src = n => taken[m][i].seq <= f.seq
      <4>1. \A i \in 1 .. Len(sent) : sent[i].src = n => sent[i].seq <= f.seq
        BY <1>0, <1>1 DEF NodeInv, MsgInv, f
      <4>. QED  BY <2>0, <4>1 DEF NodeInv, TakenInv
    <3>5. ASSUME NEW i \in 1 .. Len(taken'[m]), NEW j \in 1 .. Len(taken'[m]), i < j,
                 taken'[m][i].src = taken'[m][j].src
          PROVE  taken'[m][i].seq <= taken'[m][j].seq
      <4>1. i \in 1 .. Len(taken[m]) /\ taken'[m][i] = taken[m][i]
        BY <1>4, <1>5, <3>5
      <4>2. CASE j \in 1 .. Len(taken[m])
        <5>1. taken'[m][j] = taken[m][j]
          BY <1>5, <4>2
        <5>. QED  BY <2>0, <3>5, <4>1, <4>2, <5>1 DEF NodeInv, TakenInv
      <4>3. CASE taken'[m][j] = f
        BY <1>1, <3>4, <3>5, <4>1, <4>3
      <4>. QED  BY <3>1, <4>2, <4>3
    <3>6. sent' = sent
      BY <1>2
    <3>. QED  BY <3>3, <3>5, <3>6 DEF TakenInv
  <2>4. Kept(m)'
    <3>. SUFFICES ASSUME pc[m] # "full" PROVE taken'[m] = got[m] \o recvq[m] \o rxfifo'[m]
      BY <1>2 DEF Kept
    <3>1. taken[m] = got[m] \o recvq[m] \o rxfifo[m]
      BY <2>0 DEF NodeInv, Kept
    <3>2. got[m] \o recvq[m] \o Append(rxfifo[m], f) = Append(got[m] \o recvq[m] \o rxfifo[m], f)
      <4>1. got[m] \in Seq(Packet) /\ recvq[m] \in Seq(Packet) /\ rxfifo[m] \in Seq(Packet)
        BY <1>3
      <4>. QED  BY <1>1, <4>1, PacketQueues
    <3>. QED  BY <1>4, <3>1, <3>2
  <2>5. GotInv(m)'
    <3>1. Len(got[m]) \in Nat
      BY <1>3
    <3>. QED  BY <1>2, <1>5, <2>0, <3>1 DEF NodeInv, GotInv
  <2>. QED  BY <2>1, <2>2, <2>3, <2>4, <2>5 DEF NodeInv
<1>9. AckInv'
  <2>1. ASSUME NEW p, Delivered(p, taken, sent) PROVE Delivered(p, taken', sent)
    <3>1. Len(sent) \in Nat
      BY <1>0 DEF TypeOK
    <3>. QED  BY <1>5, <2>1, <3>1, DeliveredStays
  <2>2. ASSUME ackp, txfifo'[n] = <<>> PROVE Delivered(f, taken', sent)
    <3>1. PICK h \in heard : TRUE
      <4>1. <<f>> # <<>>
        OBVIOUS
      <4>. QED  BY <1>1, <2>2, <4>1
    <3>2. h \in Node /\ (h = f.dst \/ p0[h] = f.dst)
      BY <1>2, <3>1 DEF Hearers
    <3>3. h = f.dst \/ \E i \in 1 .. Len(sent) : sent[i].src = h /\ sent[i].dst = f.dst
      BY <1>0, <3>2 DEF NodeInv, PipeInv
    <3>4. \E i \in 1 .. Len(taken'[h]) : taken'[h][i] = f
      <4>1. CASE h \in take
        <5>1. /\ Len(taken'[h]) = Len(taken[h]) + 1 /\ Len(taken[h]) \in Nat
              /\ taken'[h][Len(taken[h]) + 1] = f
          BY <1>5, <3>2, <4>1
        <5>2. Len(taken[h]) + 1 \in 1 .. Len(taken'[h])
          BY <5>1
        <5>. QED  BY <5>1, <5>2
      <4>2. CASE h \notin take
        <5>1. taken[h] # <<>> /\ taken[h][Len(taken[h])] = f
          BY <1>2, <3>1, <4>2 DEF Repeats
        <5>2. Len(taken[h]) \in 1 .. Len(taken[h])
          BY <1>3, <3>2, <5>1
        <5>. QED  BY <1>5, <3>2, <5>1, <5>2
      <4>. QED  BY <4>1, <4>2
    <3>. QED  BY <3>2, <3>3, <3>4 DEF Delivered
  <2>3. ASSUME ackp, NEW m \in Node, pc[m] = "wait", txfifo'[m] = <<>>
        PROVE  Delivered(msg[m], taken', sent)
    <3>1. CASE m = n
      BY <2>2, <2>3, <3>1 DEF f
    <3>2. CASE m # n
      BY <1>0, <2>1, <2>3, <3>2 DEF AckInv
    <3>. QED  BY <3>1, <3>2
  <2>4. ASSUME ackp, NEW p \in returned PROVE Delivered(p, taken', sent)
    BY <1>0, <2>1, <2>4 DEF AckInv
  <2>. QED  BY <1>2, <2>3, <2>4 DEF AckInv
<1>. QED  BY <1>6, <1>7, <1>8, <1>9 DEF Inv

LEMMA TransmitInv == ASSUME Inv, NEW n \in Node, Transmit(n) PROVE Inv'
<1>0. TypeOK /\ NodeInv(n) /\ Transmitting(n)
  BY DEF Inv, Transmit
<1>1. PICK heard \in SUBSET Node, take \in SUBSET Node :
        Frame(n, Head(txfifo[n]), heard, take) /\ (ackp => heard # {})
  BY DEF Transmit
<1>2. /\ txfifo' = [txfifo EXCEPT ![n] = Tail(@)]
      /\ txds' = [txds EXCEPT ![n] = TRUE]
  BY DEF Transmit
<1>3. Tail(txfifo[n]) = <<>>
  <2>1. txfifo[n] = <<msg[n]>>
    BY <1>0, OnAir
  <2>2. Tail(<<msg[n]>>) = <<>>
    OBVIOUS
  <2>. QED  BY <2>1, <2>2
<1>4. txfifo \in [Node -> Seq(Packet)] /\ txds \in [Node -> BOOLEAN]
  BY <1>0 DEF TypeOK
<1>5. txfifo' \in [Node -> Seq(Packet)] /\ txds' \in [Node -> BOOLEAN] /\ txfifo'[n] = <<>>
  <2>1. <<>> \in Seq(Packet)
    OBVIOUS
  <2>2. Tail(txfifo[n]) \in Seq(Packet)
    BY <1>3, <2>1
  <2>. QED  BY <1>2, <1>3, <1>4, <2>2
<1>6. \A m \in Node \ {n} : txfifo'[m] = txfifo[m] /\ txds'[m] = txds[m]
  BY <1>2, <1>4
<1>. QED  BY <1>0, <1>1, <1>5, <1>6, AirStep

LEMMA NoAckInv == ASSUME Inv, NEW n \in Node, NoAck(n) PROVE Inv'
<1>0. TypeOK /\ Transmitting(n)
  BY DEF Inv, NoAck
<1>1. PICK heard \in SUBSET Node, take \in SUBSET Node : Frame(n, Head(txfifo[n]), heard, take)
  BY DEF NoAck
<1>2. UNCHANGED <<txfifo, txds>>
  BY DEF NoAck
<1>3. txfifo' \in [Node -> Seq(Packet)] /\ txds' \in [Node -> BOOLEAN]
  BY <1>0, <1>2 DEF TypeOK
<1>. QED  BY <1>0, <1>1, <1>2, <1>3, AirStep

------------------------------------------------------------------------------
LEMMA StepInv == Inv /\ [Next]_vars => Inv'
<1>. SUFFICES ASSUME Inv, [Next]_vars PROVE Inv'
  OBVIOUS
<1>1. ASSUME NEW n \in Node, GetPkt(n) PROVE Inv'
  BY <1>1, GetPktInv
<1>2. ASSUME NEW n \in Node, ReadBegin(n) \/ ReadEnd(n) PROVE Inv'
  BY <1>2, ReadBeginInv, ReadEndInv
<1>3. ASSUME NEW n \in Node, Send(n) PROVE Inv'
  BY <1>3, SendBeginInv, SendLoadInv, SendTxInv, SendReturnInv DEF Send
<1>4. ASSUME NEW n \in Node, Chip(n) PROVE Inv'
  BY <1>4, TransmitInv, NoAckInv DEF Chip
<1>5. CASE UNCHANGED vars
  <2>1. UNCHANGED <<ackp, mode, p0, txfifo, rxfifo, txds, pc, msg, recvq, sent, returned, taken, got>>
    BY <1>5 DEF vars, chipVars, histVars
  <2>2. TypeOK' /\ SentInv' /\ AckInv'
    BY <2>1 DEF Inv, TypeOK, SentInv, AckInv
  <2>3. ASSUME NEW n \in Node PROVE NodeInv(n)'
    BY <2>1, Elsewhere DEF Inv
  <2>. QED  BY <2>2, <2>3 DEF Inv
<1>. QED  BY <1>1, <1>2, <1>3, <1>4, <1>5 DEF Next

LEMMA Invariance == Spec => []Inv
BY InitInv, StepInv, PTL DEF Spec

(* Between the chip and the client no packet is lost, repeated or reordered:
   whatever arrives in the middle of a send or a read, the loop of nrf_get_pkts
   and the circular queue keep it. *)
THEOREM KeepsEverything == Spec => []NothingLost
<1>1. Inv => NothingLost
  BY DEF Inv, NodeInv, Kept, NothingLost
<1>. QED  BY <1>1, Invariance, PTL

(* Retransmissions repeat packets, and never bring an older one of a sender
   after a newer one. *)
THEOREM OrderKept == Spec => []InOrder
<1>1. Inv => InOrder
  <2>. SUFFICES ASSUME Inv, NEW n \in Node,
                       NEW i \in 1 .. Len(got[n]), NEW j \in 1 .. Len(got[n]),
                       i < j, got[n][i].src = got[n][j].src
                PROVE  got[n][i].seq <= got[n][j].seq
    BY DEF InOrder
  <2>1. Len(got[n]) \in Nat /\ Len(taken[n]) \in Nat
    <3>1. got[n] \in Seq(Packet) /\ taken[n] \in Seq(Packet)
      BY DEF Inv, TypeOK
    <3>. QED  BY <3>1
  <2>2. /\ Len(got[n]) <= Len(taken[n])
        /\ got[n][i] = taken[n][i] /\ got[n][j] = taken[n][j]
    BY DEF Inv, NodeInv, GotInv
  <2>3. i \in 1 .. Len(taken[n]) /\ j \in 1 .. Len(taken[n]) /\ TakenInv(n)
    BY <2>1, <2>2 DEF Inv, NodeInv
  <2>. QED  BY <2>2, <2>3 DEF TakenInv
<1>. QED  BY <1>1, Invariance, PTL

(* A send that returned from waiting for an acknowledgement was heard by the
   addressee, or by a node whose pipe 0 the driver left at the addressee. *)
THEOREM AcksAreDeliveries == Spec => []AckMeansTaken
<1>1. Inv => AckMeansTaken
  BY DEF Inv, AckInv, Delivered, AckMeansTaken
<1>. QED  BY <1>1, Invariance, PTL

(* Every call leaves the chip listening, its transmit fifo empty and TX_DS
   clear, and the asserts at the start of a send never fail. *)
THEOREM RestsListening == Spec => []IdleListens
<1>1. Inv => IdleListens
  BY DEF Inv, NodeInv, CallInv, IdleListens
<1>. QED  BY <1>1, Invariance, PTL
==============================================================================
