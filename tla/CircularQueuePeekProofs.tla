---------------------- MODULE CircularQueuePeekProofs ------------------------
(***************************************************************************)
(* Proofs about cq_peek_n, for every ring size and every set of client     *)
(* sizes: what it hands its caller is right, and what the handler pushes   *)
(* meanwhile is caught by its closing assert, unless a whole ring of       *)
(* elements was pushed.                                                    *)
(***************************************************************************)
EXTENDS CircularQueuePeek, CircularQueueProofs

------------------------------------------------------------------------------
(* What a ring holds, from a slot on. *)

\* from slot t on, buf with this head holds what s has after its first c elements
RingFrom(buf, h, t, s, c) ==
    /\ c <= Len(s) /\ Distance(h, t) = Len(s) - c
    /\ \A i \in 1 .. Len(s) - c : buf[SlotAt(t, i)] = s[c + i]

(* The slot cq_push writes is none of the occupied ones, ... *)
LEMMA WriteKeeps ==
  ASSUME NEW buf \in [Slots -> Value], NEW h \in Slots, NEW t \in Slots,
         NEW s \in Seq(Value), NEW c \in Nat, NEW v \in Value, RingFrom(buf, h, t, s, c)
  PROVE  RingFrom([buf EXCEPT ![h] = v], h, t, s, c)
<1>. N \in Nat \ {0, 1}
  BY SizeAssumption
<1>1. Len(s) \in Nat /\ c <= Len(s) /\ Distance(h, t) = Len(s) - c
  BY DEF RingFrom
<1>2. Distance(h, t) \in 0 .. N - 1
  BY DistanceValue DEF Slots
<1>3. ASSUME NEW i \in 1 .. Len(s) - c
      PROVE  [buf EXCEPT ![h] = v][SlotAt(t, i)] = s[c + i]
  <2>1. i \in 1 .. N /\ i # Distance(h, t) + 1
    BY <1>1, <1>2
  <2>2. SlotAt(t, i) \in Slots /\ SlotAt(t, i) # h
    BY <2>1, SlotAtValue, SlotAtHead
  <2>3. buf[SlotAt(t, i)] = s[c + i]
    BY DEF RingFrom
  <2>. QED  BY <2>2, <2>3
<1>. QED  BY <1>1, <1>3 DEF RingFrom

(* ... and becomes the last of them when head advances. *)
LEMMA AdvanceGrows ==
  ASSUME NEW buf \in [Slots -> Value], NEW h \in Slots, NEW t \in Slots,
         NEW s \in Seq(Value), NEW c \in Nat, NEW v \in Value, RingFrom(buf, h, t, s, c),
         buf[h] = v, Len(s) - c < N - 1
  PROVE  RingFrom(buf, Succ(h), t, Append(s, v), c)
<1>. N \in Nat \ {0, 1}
  BY SizeAssumption
<1>. DEFINE x == Append(s, v)
<1>1. /\ Len(s) \in Nat /\ Len(x) = Len(s) + 1 /\ x[Len(s) + 1] = v
      /\ \A i \in 1 .. Len(s) : x[i] = s[i]
  OBVIOUS
<1>. HIDE DEF x
<1>2. /\ c <= Len(s) /\ Distance(h, t) = Len(s) - c
      /\ \A i \in 1 .. Len(s) - c : buf[SlotAt(t, i)] = s[c + i]
  BY DEF RingFrom
<1>3. Distance(Succ(h), t) = Len(x) - c
  <2>1. Distance(Succ(h), t) = Distance(h, t) + 1
    BY <1>2, DistanceAdvance
  <2>. QED  BY <1>1, <1>2, <2>1
<1>4. ASSUME NEW i \in 1 .. Len(x) - c
      PROVE  buf[SlotAt(t, i)] = x[c + i]
  <2>1. CASE i = Len(s) - c + 1
    <3>1. i \in 1 .. N /\ i = Distance(h, t) + 1 /\ c + i = Len(s) + 1
      BY <1>1, <1>2, <2>1
    <3>2. SlotAt(t, i) = h
      BY <3>1, SlotAtHead
    <3>. QED  BY <1>1, <3>1, <3>2
  <2>2. CASE i # Len(s) - c + 1
    <3>1. i \in 1 .. Len(s) - c
      BY <1>1, <1>2, <2>2
    <3>2. c + i \in 1 .. Len(s)
      BY <1>1, <3>1
    <3>. QED  BY <1>1, <1>2, <3>1, <3>2
  <2>. QED  BY <2>1, <2>2
<1>5. c <= Len(x)
  BY <1>1, <1>2
<1>6. RingFrom(buf, Succ(h), t, x, c)
  BY <1>3, <1>4, <1>5 DEF RingFrom
<1>. QED  BY <1>6 DEF x

(* The slot at tail holds the oldest element, and the others follow. *)
LEMMA TailDrops ==
  ASSUME NEW buf \in [Slots -> Value], NEW h \in Slots, NEW t \in Slots,
         NEW s \in Seq(Value), NEW c \in Nat, RingFrom(buf, h, t, s, c), c < Len(s)
  PROVE  RingFrom(buf, h, Succ(t), s, c + 1) /\ buf[t] = s[c + 1]
<1>. N \in Nat \ {0, 1}
  BY SizeAssumption
<1>1. /\ Len(s) \in Nat /\ Distance(h, t) = Len(s) - c
      /\ \A i \in 1 .. Len(s) - c : buf[SlotAt(t, i)] = s[c + i]
  BY DEF RingFrom
<1>2. Distance(h, t) \in 0 .. N - 1
  BY DistanceValue DEF Slots
<1>3. 1 \in 1 .. Len(s) - c /\ 1 \in 1 .. N - 1
  BY <1>1
<1>4. buf[t] = s[c + 1]
  <2>1. SlotAt(t, 1) = t
    BY <1>3, SlotAtTail
  <2>. QED  BY <1>1, <1>3, <2>1
<1>5. Distance(h, Succ(t)) = Len(s) - (c + 1)
  <2>1. Distance(h, Succ(t)) = Distance(h, t) - 1
    BY <1>1, DistanceAdvance
  <2>. QED  BY <1>1, <2>1
<1>6. ASSUME NEW i \in 1 .. Len(s) - (c + 1)
      PROVE  buf[SlotAt(Succ(t), i)] = s[(c + 1) + i]
  <2>1. i \in 1 .. N - 1 /\ i + 1 \in 1 .. Len(s) - c /\ c + (i + 1) = (c + 1) + i
    BY <1>1, <1>2
  <2>2. SlotAt(Succ(t), i) = SlotAt(t, i + 1)
    BY <2>1, SlotAtTail
  <2>. QED  BY <1>1, <2>1, <2>2
<1>7. c + 1 <= Len(s)
  BY <1>1
<1>. QED  BY <1>4, <1>5, <1>6, <1>7 DEF RingFrom

(* Head comes round to tail when it advances from the last free slot. *)
LEMMA HeadComesRound ==
  ASSUME NEW h \in Slots, NEW t \in Slots
  PROVE  Distance(Succ(h), t) = IF Distance(h, t) = N - 1 THEN 0 ELSE Distance(h, t) + 1
<1>. N \in Nat \ {0, 1}
  BY SizeAssumption
<1>1. Distance(h, t) \in 0 .. N - 1 /\ Succ(h) \in Slots
  BY DistanceValue, SuccValue DEF Slots
<1>2. CASE Distance(h, t) = N - 1
  <2>1. Succ(h) = t
    BY <1>2, DistanceEnds
  <2>2. Distance(Succ(h), t) = 0
    BY <1>1, <2>1, DistanceEnds
  <2>. QED  BY <1>2, <2>2
<1>3. CASE Distance(h, t) # N - 1
  <2>1. Distance(h, t) < N - 1
    BY <1>1, <1>3
  <2>. QED  BY <1>3, <2>1, DistanceAdvance
<1>. QED  BY <1>2, <1>3

------------------------------------------------------------------------------
(* The inductive invariant. *)

Peeking == cpc \in {"peek", "peek_assert"}

PeekTypes ==
    /\ c_buf \in [Slots -> Value]
    /\ head \in Slots /\ tail \in Slots /\ saved \in Slots
    /\ pushing \in Seq(Value) /\ elem \in Value
    /\ want \in Nat /\ sz \in Nat
    /\ pushed \in Seq(Value) /\ popped \in Seq(Value) /\ peeked \in Seq(Value)

\* what the two sides have in their hands between two accesses
InHand ==
    /\ ppc \in {"test", "write", "advance"} => pushing # <<>>
    /\ ppc \in {"write", "advance"} => Distance(head, tail) < N - 1
    /\ ppc = "advance" => c_buf[head] = Head(pushing)
    /\ cpc \in {"test", "read", "advance"} => want >= 1
    /\ cpc \in {"read", "advance"} => Distance(head, tail) >= 1

\* everything popped was right, and the ring holds the rest
Front ==
    /\ Len(popped) <= Len(pushed)
    /\ \A i \in 1 .. Len(popped) : popped[i] = pushed[i]

\* between two cq_peek_n
Sound ==
    /\ RingFrom(c_buf, head, tail, pushed, Len(popped))
    /\ cpc = "advance" => elem = pushed[Len(popped) + 1]

\* inside cq_peek_n.  The ring from saved on is whole until a whole ring of
\* elements has been pushed, and then head has come round once.
SoundPeek ==
    /\ sz <= N - 1 /\ Len(popped) + sz <= Len(pushed) /\ Len(peeked) <= sz
    /\ \A i \in 1 .. Len(peeked) : peeked[i] = pushed[Len(popped) + i]
    /\ IF Len(pushed) - Len(popped) < N
       THEN RingFrom(c_buf, head, saved, pushed, Len(popped))
       ELSE Distance(head, saved) = Len(pushed) - Len(popped) - N
    /\ cpc = "peek" => /\ RingFrom(c_buf, head, tail, pushed, Len(popped) + Len(peeked))
                       /\ Len(peeked) + want <= sz
    /\ cpc = "peek_assert" => tail = saved

\* a whole ring of elements was pushed inside some cq_peek_n, and is lost
Lost ==
    IF Peeking THEN Len(pushed) - Len(popped) - sz >= N
    ELSE Len(pushed) - Len(popped) >= Distance(head, tail) + N

PInv ==
    /\ PeekTypes /\ InHand
    /\ \/ Front /\ (IF Peeking THEN SoundPeek ELSE Sound)
       \/ Lost
       \/ cpc = "peek_failed"

\* what a step must leave alone to be of no interest to the contents
contents == <<c_buf, head, tail, pushed, popped, saved, sz, peeked>>

LEMMA DistanceType ==
  ASSUME PeekTypes
  PROVE  /\ Distance(head, tail) \in 0 .. N - 1 /\ Distance(head, saved) \in 0 .. N - 1
         /\ N \in Nat \ {0, 1}
BY SizeAssumption, DistanceValue DEF PeekTypes, Slots

LEMMA PeekInitInv == PeekInit => PInv
<1>. SUFFICES ASSUME PeekInit PROVE PInv
  OBVIOUS
<1>. N \in Nat \ {0, 1} /\ Zero \in Value
  BY SizeAssumption, ClientAssumption
<1>1. /\ head = 0 /\ tail = 0 /\ saved = 0 /\ pushed = <<>> /\ popped = <<>>
      /\ peeked = <<>> /\ ppc = "idle" /\ cpc = "idle" /\ pushing = <<>>
      /\ want = 0 /\ sz = 0 /\ elem = Zero /\ c_buf = [i \in Slots |-> Zero]
  BY DEF PeekInit, Init
<1>2. <<>> \in Seq(Value) /\ 0 \in Slots /\ Len(<<>>) = 0
  BY DEF Slots
<1>3. PeekTypes
  BY <1>1, <1>2 DEF PeekTypes
<1>4. Distance(head, tail) = 0
  BY <1>1, <1>2, DistanceEnds
<1>5. RingFrom(c_buf, head, tail, pushed, Len(popped))
  BY <1>1, <1>2, <1>4 DEF RingFrom
<1>6. Front /\ Sound
  BY <1>1, <1>2, <1>5 DEF Front, Sound
<1>. QED  BY <1>1, <1>3, <1>6 DEF PInv, InHand, Peeking

(* Steps that only move a program counter. *)
LEMMA QuietPInv ==
  ASSUME PInv, UNCHANGED contents, pushing' \in Seq(Value), elem' \in Value, want' \in Nat,
         InHand', cpc # "peek_failed",
         \/ cpc' = cpc /\ want' = want /\ elem' = elem
         \/ ~Peeking /\ ~Peeking' /\ (cpc' = "advance" => elem' = c_buf[tail] /\ Distance(head, tail) >= 1)
  PROVE  PInv'
<1>1. /\ c_buf' = c_buf /\ head' = head /\ tail' = tail /\ pushed' = pushed
      /\ popped' = popped /\ saved' = saved /\ sz' = sz /\ peeked' = peeked
  BY DEF contents
<1>2. PeekTypes /\ PeekTypes'
  BY <1>1 DEF PInv, PeekTypes
<1>3. CASE Lost
  <2>1. Peeking' <=> Peeking
    BY DEF Peeking
  <2>2. Lost'
    BY <1>1, <1>3, <2>1 DEF Lost
  <2>. QED  BY <1>2, <2>2 DEF PInv
<1>4. CASE Front /\ Peeking /\ SoundPeek
  <2>1. cpc' = cpc /\ want' = want /\ Peeking'
    BY <1>4 DEF Peeking
  <2>2. Front' /\ SoundPeek'
    BY <1>1, <1>4, <2>1 DEF Front, SoundPeek
  <2>. QED  BY <1>2, <2>1, <2>2 DEF PInv
<1>5. CASE Front /\ ~Peeking /\ Sound
  <2>1. ~Peeking'
    BY <1>5 DEF Peeking
  <2>2. Front' /\ RingFrom(c_buf', head', tail', pushed', Len(popped'))
    BY <1>1, <1>5 DEF Front, Sound
  <2>3. cpc' = "advance" => elem' = pushed'[Len(popped') + 1]
    <3>1. CASE cpc' = cpc /\ elem' = elem
      BY <1>1, <1>5, <3>1 DEF Sound
    <3>2. CASE cpc' = "advance" /\ elem' = c_buf[tail] /\ Distance(head, tail) >= 1
      <4>1. /\ c_buf \in [Slots -> Value] /\ head \in Slots /\ tail \in Slots
            /\ pushed \in Seq(Value) /\ Len(popped) \in Nat /\ Len(pushed) \in Nat
            /\ RingFrom(c_buf, head, tail, pushed, Len(popped))
        BY <1>2, <1>5 DEF PeekTypes, Sound
      <4>2. Len(popped) < Len(pushed)
        BY <3>2, <4>1 DEF RingFrom
      <4>3. c_buf[tail] = pushed[Len(popped) + 1]
        BY <4>1, <4>2, TailDrops
      <4>. QED  BY <1>1, <3>2, <4>3
    <3>. QED  BY <3>1, <3>2
  <2>. QED  BY <1>2, <2>1, <2>2, <2>3 DEF PInv, Sound
<1>. QED  BY <1>3, <1>4, <1>5 DEF PInv

(* What cq_push and cq_pop do between two stores to head or tail. *)
LEMMA QuietSteps ==
  ASSUME PInv, cpc # "peek_failed", UNCHANGED peekVars,
         \/ \E n \in PushSizes : \E data \in [1 .. n -> Value] : PushBegin(data)
         \/ PushTest \/ PopTest \/ PopRead \/ IntSwitch
         \/ \E n \in PopSizes : PopBegin(n)
         \/ \E n \in TrySizes : TryBegin(n)
  PROVE  PInv'
<1>. USE DEF peekVars, producerVars, consumerVars, contents
<1>0. PeekTypes /\ InHand /\ Distance(head, tail) \in 0 .. N - 1 /\ N \in Nat \ {0, 1}
  BY DistanceType DEF PInv
<1>1. ASSUME NEW n \in PushSizes, NEW data \in [1 .. n -> Value], PushBegin(data)
      PROVE  PInv'
  <2>1. data \in Seq(Value) /\ data # <<>>
    BY ClientAssumption
  <2>2. UNCHANGED contents /\ cpc' = cpc /\ want' = want /\ elem' = elem
        /\ pushing' = data /\ ppc' = "test"
    BY <1>1 DEF PushBegin
  <2>3. InHand'
    BY <1>0, <2>1, <2>2 DEF InHand
  <2>. QED  BY <1>0, <2>1, <2>2, <2>3, QuietPInv DEF PeekTypes
<1>2. CASE PushTest
  <2>1. UNCHANGED contents /\ cpc' = cpc /\ want' = want /\ elem' = elem
        /\ pushing' = pushing /\ ppc = "test"
        /\ ppc' = (IF Full THEN "panic" ELSE "write")
    BY <1>2 DEF PushTest
  <2>2. ~Full => Distance(head, tail) < N - 1
    <3>1. Full <=> Distance(head, tail) = N - 1
      BY <1>0, DistanceEnds DEF Full, PeekTypes
    <3>. QED  BY <1>0, <3>1
  <2>3. InHand'
    BY <1>0, <2>1, <2>2 DEF InHand
  <2>. QED  BY <1>0, <2>1, <2>3, QuietPInv DEF PeekTypes
<1>3. CASE PopTest
  <2>1. UNCHANGED contents /\ want' = want /\ elem' = elem /\ cpc = "test"
        /\ pushing' = pushing /\ ppc' = ppc
        /\ cpc' = (IF ~Empty THEN "read" ELSE IF int_enabled THEN "test" ELSE "panic")
    BY <1>3 DEF PopTest
  <2>2. ~Empty => Distance(head, tail) >= 1
    <3>1. Empty <=> Distance(head, tail) = 0
      BY <1>0, DistanceEnds DEF Empty, PeekTypes
    <3>. QED  BY <1>0, <3>1
  <2>3. InHand'
    BY <1>0, <2>1, <2>2 DEF InHand
  <2>4. ~Peeking /\ ~Peeking' /\ cpc' # "advance"
    BY <2>1 DEF Peeking
  <2>. QED  BY <1>0, <2>1, <2>3, <2>4, QuietPInv DEF PeekTypes
<1>4. CASE PopRead
  <2>1. UNCHANGED contents /\ want' = want /\ elem' = c_buf[tail] /\ cpc = "read"
        /\ pushing' = pushing /\ ppc' = ppc /\ cpc' = "advance"
    BY <1>4 DEF PopRead
  <2>2. InHand'
    BY <1>0, <2>1 DEF InHand
  <2>3. ~Peeking /\ ~Peeking' /\ Distance(head, tail) >= 1
    BY <1>0, <2>1 DEF Peeking, InHand
  <2>4. elem' \in Value
    BY <1>0, <2>1 DEF PeekTypes
  <2>. QED  BY <1>0, <2>1, <2>2, <2>3, <2>4, QuietPInv DEF PeekTypes
<1>5. CASE IntSwitch
  <2>1. UNCHANGED contents /\ want' = want /\ elem' = elem /\ cpc' = cpc
        /\ pushing' = pushing /\ ppc' = ppc
    BY <1>5 DEF IntSwitch
  <2>2. InHand'
    BY <1>0, <2>1 DEF InHand
  <2>. QED  BY <1>0, <2>1, <2>2, QuietPInv DEF PeekTypes
<1>6. ASSUME NEW n \in Nat \ {0}, PopBegin(n) \/ TryBegin(n)
      PROVE  PInv'
  <2>1. UNCHANGED contents /\ want' = n /\ elem' = elem /\ cpc = "idle" /\ cpc' = "test"
        /\ pushing' = pushing /\ ppc' = ppc
    BY <1>6 DEF PopBegin, TryBegin
  <2>2. n >= 1
    OBVIOUS
  <2>3. InHand'
    BY <1>0, <2>1, <2>2 DEF InHand
  <2>4. ~Peeking /\ ~Peeking' /\ cpc' # "advance"
    BY <2>1 DEF Peeking
  <2>. QED  BY <1>0, <2>1, <2>3, <2>4, QuietPInv DEF PeekTypes
<1>. QED  BY <1>1, <1>2, <1>3, <1>4, <1>5, <1>6, ClientAssumption

(* The store of an element touches no occupied slot, of either ring. *)
LEMMA WritePInv ==
  ASSUME PInv, cpc # "peek_failed", UNCHANGED peekVars, PushWrite
  PROVE  PInv'
<1>0. PeekTypes /\ InHand /\ Distance(head, tail) \in 0 .. N - 1 /\ N \in Nat \ {0, 1}
  BY DistanceType DEF PInv
<1>. DEFINE v == Head(pushing)
            C == Len(popped)
<1>1. v \in Value /\ C \in Nat /\ Len(pushed) \in Nat /\ Len(peeked) \in Nat
  BY <1>0 DEF PushWrite, InHand, PeekTypes
<1>2. /\ c_buf' = [c_buf EXCEPT ![head] = v] /\ ppc = "write" /\ ppc' = "advance"
      /\ head' = head /\ tail' = tail /\ pushing' = pushing /\ pushed' = pushed
      /\ popped' = popped /\ want' = want /\ elem' = elem /\ cpc' = cpc
      /\ saved' = saved /\ sz' = sz /\ peeked' = peeked
  BY DEF PushWrite, peekVars, consumerVars
<1>3. PeekTypes'
  BY <1>0, <1>1, <1>2 DEF PeekTypes
<1>4. InHand'
  <2>1. c_buf'[head'] = Head(pushing')
    BY <1>0, <1>2 DEF PeekTypes
  <2>. HIDE DEF v
  <2>. QED  BY <1>0, <1>2, <2>1 DEF InHand
<1>5. CASE Lost
  <2>1. Lost'
    BY <1>2, <1>5 DEF Lost, Peeking
  <2>. QED  BY <1>3, <1>4, <2>1 DEF PInv
<1>6. ASSUME NEW t \in Slots, NEW c \in Nat, RingFrom(c_buf, head, t, pushed, c)
      PROVE  RingFrom(c_buf', head', t, pushed', c)
  <2>1. /\ c_buf \in [Slots -> Value] /\ head \in Slots /\ t \in Slots /\ pushed \in Seq(Value)
        /\ c \in Nat /\ v \in Value /\ RingFrom(c_buf, head, t, pushed, c)
    BY <1>0, <1>1, <1>6 DEF PeekTypes
  <2>. HIDE DEF v
  <2>2. RingFrom([c_buf EXCEPT ![head] = v], head, t, pushed, c)
    BY ONLY <2>1, WriteKeeps
  <2>. QED  BY <1>2, <2>2
<1>. HIDE DEF v
<1>7. CASE Front /\ Peeking /\ SoundPeek
  <2>1. saved \in Slots /\ tail \in Slots /\ C + Len(peeked) \in Nat
    BY <1>0, <1>1 DEF PeekTypes
  <2>2. Len(pushed) - C < N => RingFrom(c_buf', head', saved', pushed', C)
    BY <1>1, <1>2, <1>6, <1>7, <2>1 DEF SoundPeek
  <2>3. cpc = "peek" => RingFrom(c_buf', head', tail', pushed', C + Len(peeked))
    BY <1>2, <1>6, <1>7, <2>1 DEF SoundPeek
  <2>4. SoundPeek'
    BY <1>2, <1>7, <2>2, <2>3 DEF SoundPeek
  <2>5. Front' /\ Peeking'
    BY <1>2, <1>7 DEF Front, Peeking
  <2>. QED  BY <1>3, <1>4, <2>4, <2>5 DEF PInv
<1>8. CASE Front /\ ~Peeking /\ Sound
  <2>1. RingFrom(c_buf', head', tail', pushed', C)
    BY <1>0, <1>1, <1>2, <1>6, <1>8 DEF Sound, PeekTypes
  <2>2. Front' /\ ~Peeking' /\ Sound'
    BY <1>2, <1>8, <2>1 DEF Front, Peeking, Sound
  <2>. QED  BY <1>3, <1>4, <2>2 DEF PInv
<1>. QED  BY <1>5, <1>7, <1>8 DEF PInv

(* Publishing an element lengthens the ring the consumer pops from, and the one
   it has saved unless head comes round to its start. *)
LEMMA PublishPInv ==
  ASSUME PInv, cpc # "peek_failed", UNCHANGED peekVars, PushAdvance
  PROVE  PInv'
<1>0. PeekTypes /\ InHand /\ Distance(head, tail) \in 0 .. N - 1 /\ N \in Nat \ {0, 1}
      /\ Distance(head, saved) \in 0 .. N - 1
  BY DistanceType DEF PInv
<1>. DEFINE v == Head(pushing)
            P == Len(pushed)
            C == Len(popped)
            L == Len(peeked)
<1>1. /\ v \in Value /\ Tail(pushing) \in Seq(Value) /\ Len(Tail(pushing)) = Len(pushing) - 1
      /\ Len(pushing) \in Nat
  BY <1>0 DEF PushAdvance, InHand, PeekTypes
<1>2. /\ c_buf' = c_buf /\ ppc = "advance" /\ ppc' = (IF Len(pushing) = 1 THEN "idle" ELSE "test")
      /\ head' = Succ(head) /\ tail' = tail /\ pushing' = Tail(pushing)
      /\ pushed' = Append(pushed, v)
      /\ popped' = popped /\ want' = want /\ elem' = elem /\ cpc' = cpc
      /\ saved' = saved /\ sz' = sz /\ peeked' = peeked
  BY DEF PushAdvance, peekVars, consumerVars
<1>3. P \in Nat /\ C \in Nat /\ L \in Nat /\ sz \in Nat /\ want \in Nat
  BY <1>0 DEF PeekTypes
<1>4. /\ pushed' \in Seq(Value) /\ Len(pushed') = P + 1
      /\ \A i \in 1 .. P : pushed'[i] = pushed[i]
  <2>1. pushed \in Seq(Value) /\ v \in Value
    BY <1>0, <1>1 DEF PeekTypes
  <2>. HIDE DEF v
  <2>. QED  BY <1>2, <2>1
<1>5. /\ head' \in Slots /\ Distance(head, tail) < N - 1 /\ c_buf[head] = v
      /\ Distance(head', tail') = Distance(head, tail) + 1
  <2>1. head \in Slots /\ tail \in Slots /\ Distance(head, tail) < N - 1 /\ c_buf[head] = v
    BY <1>0, <1>2 DEF PeekTypes, InHand
  <2>. QED  BY <1>2, <2>1, SuccValue, DistanceAdvance
<1>6. PeekTypes'
  BY <1>0, <1>1, <1>2, <1>4, <1>5 DEF PeekTypes
<1>7. InHand'
  <2>1. ppc' \in {"idle", "test"} /\ (ppc' = "test" => Len(pushing) # 1)
    BY <1>2
  <2>2. pushing # <<>> /\ pushing \in Seq(Value)
    BY <1>0, <1>2 DEF InHand, PeekTypes
  <2>3. Len(pushing) # 1 => pushing' # <<>>
    BY <1>1, <1>2, <2>2
  <2>4. Distance(head', tail') >= Distance(head, tail)
    BY <1>0, <1>5
  <2>5. cpc' \in {"read", "advance"} => Distance(head', tail') >= 1
    BY <1>0, <1>2, <1>5 DEF InHand
  <2>6. cpc' \in {"test", "read", "advance"} => want' >= 1
    BY <1>0, <1>2 DEF InHand
  <2>. QED  BY <2>1, <2>3, <2>5, <2>6 DEF InHand
<1>8. CASE Lost
  <2>1. Peeking' <=> Peeking
    BY <1>2 DEF Peeking
  <2>2. Peeking => P + 1 - C - sz >= N
    BY <1>0, <1>3, <1>8 DEF Lost
  <2>3. ~Peeking => P + 1 - C >= Distance(head', tail') + N
    BY <1>0, <1>3, <1>5, <1>8 DEF Lost
  <2>4. /\ Peeking' => Len(pushed') - Len(popped') - sz' >= N
        /\ ~Peeking' => Len(pushed') - Len(popped') >= Distance(head', tail') + N
    <3>1. Len(pushed') = P + 1 /\ Len(popped') = C /\ sz' = sz
      BY <1>2, <1>4
    <3>. QED  BY <1>0, <1>3, <2>1, <2>2, <2>3, <3>1
  <2>5. Lost'
    BY <2>4 DEF Lost
  <2>. QED  BY <1>6, <1>7, <2>5 DEF PInv
<1>9. ASSUME NEW t \in Slots, NEW c \in Nat, RingFrom(c_buf, head, t, pushed, c), P - c < N - 1
      PROVE  RingFrom(c_buf', head', t, pushed', c)
  <2>1. /\ c_buf \in [Slots -> Value] /\ head \in Slots /\ t \in Slots /\ pushed \in Seq(Value)
        /\ c \in Nat /\ v \in Value /\ RingFrom(c_buf, head, t, pushed, c)
        /\ c_buf[head] = v /\ Len(pushed) - c < N - 1
    BY <1>0, <1>1, <1>5, <1>9 DEF PeekTypes
  <2>. HIDE DEF v
  <2>2. RingFrom(c_buf, Succ(head), t, Append(pushed, v), c)
    BY ONLY <2>1, AdvanceGrows
  <2>. QED  BY <1>2, <2>2
<1>. HIDE DEF v
<1>10. CASE Front /\ ~Peeking /\ Sound
  <2>1. C <= P /\ \A i \in 1 .. C : popped[i] = pushed[i]
    BY <1>10 DEF Front
  <2>2. Front'
    BY <1>2, <1>3, <1>4, <2>1 DEF Front
  <2>3. RingFrom(c_buf, head, tail, pushed, C)
    BY <1>10 DEF Sound
  <2>4. P - C < N - 1 /\ tail \in Slots
    BY <1>0, <1>5, <2>3 DEF RingFrom, PeekTypes
  <2>5. RingFrom(c_buf', head', tail, pushed', C)
    BY <1>3, <1>9, <2>3, <2>4
  <2>6. cpc' = "advance" => elem' = pushed'[C + 1]
    <3>1. SUFFICES ASSUME cpc = "advance" PROVE elem = pushed'[C + 1]
      BY <1>2
    <3>2. Distance(head, tail) >= 1 /\ Distance(head, tail) = P - C
      BY <1>0, <3>1, <2>3 DEF InHand, RingFrom
    <3>3. C + 1 \in 1 .. P
      BY <1>3, <3>2
    <3>. QED  BY <1>4, <1>10, <3>1, <3>3 DEF Sound
  <2>7. ~Peeking' /\ Sound'
    BY <1>2, <1>10, <2>5, <2>6 DEF Peeking, Sound
  <2>. QED  BY <1>6, <1>7, <2>2, <2>7 DEF PInv
<1>11. CASE Front /\ Peeking /\ SoundPeek
  <2>1. C <= P /\ \A i \in 1 .. C : popped[i] = pushed[i]
    BY <1>11 DEF Front
  <2>2. Front'
    BY <1>2, <1>3, <1>4, <2>1 DEF Front
  <2>3. Peeking'
    BY <1>2, <1>11 DEF Peeking
  <2>4. /\ sz <= N - 1 /\ C + sz <= P /\ L <= sz
        /\ \A i \in 1 .. L : peeked[i] = pushed[C + i]
        /\ P - C < N => RingFrom(c_buf, head, saved, pushed, C)
        /\ P - C >= N => Distance(head, saved) = P - C - N
        /\ cpc = "peek" => RingFrom(c_buf, head, tail, pushed, C + L) /\ L + want <= sz
        /\ cpc = "peek_assert" => tail = saved
    BY <1>0, <1>3, <1>11 DEF SoundPeek
  <2>5. \A i \in 1 .. L : peeked'[i] = pushed'[C + i]
    <3>1. \A i \in 1 .. L : C + i \in 1 .. P
      BY <1>3, <2>4
    <3>. QED  BY <1>2, <1>4, <2>4, <3>1
  <2>6. cpc' = "peek" => RingFrom(c_buf', head', tail', pushed', C + L)
    <3>1. SUFFICES ASSUME cpc = "peek" PROVE RingFrom(c_buf', head', tail, pushed', C + L)
      BY <1>2
    <3>2. C + L \in Nat /\ tail \in Slots /\ RingFrom(c_buf, head, tail, pushed, C + L)
      BY <1>0, <1>3, <2>4, <3>1 DEF PeekTypes
    <3>3. P - (C + L) < N - 1
      BY <1>0, <1>3, <1>5, <3>2 DEF RingFrom
    <3>. QED  BY <1>9, <3>2, <3>3
  <2>7. saved \in Slots /\ head \in Slots
    BY <1>0 DEF PeekTypes
  <2>8. Distance(head', saved) = IF Distance(head, saved) = N - 1 THEN 0 ELSE Distance(head, saved) + 1
    BY <1>2, <2>7, HeadComesRound
  <2>9. CASE P + 1 - C < N
    <3>1. RingFrom(c_buf', head', saved, pushed', C)
      <4>1. P - C < N - 1 /\ P - C < N
        BY <1>0, <1>3, <2>9
      <4>. QED  BY <1>3, <1>9, <2>4, <2>7, <4>1
    <3>2. SoundPeek'
      <4>1. Len(pushed') - Len(popped') < N /\ Len(pushed') = P + 1 /\ C + sz <= P + 1
        BY <1>0, <1>2, <1>3, <1>4, <2>4, <2>9
      <4>. QED  BY <1>2, <2>4, <2>5, <2>6, <3>1, <4>1 DEF SoundPeek
    <3>. QED  BY <1>6, <1>7, <2>2, <2>3, <3>2 DEF PInv
  <2>10. CASE P + 1 - C >= N /\ P + 1 - C # N + N
    <3>1. Distance(head', saved) = P + 1 - C - N
      <4>1. CASE P - C < N
        <5>1. P - C = N - 1
          BY <1>0, <1>3, <2>10, <4>1
        <5>2. Distance(head, saved) = N - 1
          BY <1>3, <2>4, <4>1, <5>1 DEF RingFrom
        <5>. QED  BY <1>0, <1>3, <2>8, <5>1, <5>2
      <4>2. CASE P - C >= N
        <5>1. Distance(head, saved) = P - C - N
          BY <2>4, <4>2
        <5>2. Distance(head, saved) # N - 1
          BY <1>0, <1>3, <2>10, <5>1
        <5>. QED  BY <1>0, <1>3, <2>8, <5>1, <5>2
      <4>. QED  BY <1>0, <1>3, <4>1, <4>2
    <3>2. SoundPeek'
      <4>1. /\ Len(pushed') = P + 1 /\ Len(popped') = C /\ C + sz <= P + 1
            /\ ~(Len(pushed') - Len(popped') < N)
        BY <1>0, <1>2, <1>3, <1>4, <2>4, <2>10
      <4>2. Distance(head', saved') = Len(pushed') - Len(popped') - N
        BY <1>0, <1>2, <1>3, <3>1, <4>1
      <4>3. /\ sz' <= N - 1 /\ Len(popped') + sz' <= Len(pushed') /\ Len(peeked') <= sz'
            /\ \A i \in 1 .. Len(peeked') : peeked'[i] = pushed'[Len(popped') + i]
        BY <1>2, <2>4, <2>5, <4>1
      <4>4. /\ cpc' = "peek" => /\ RingFrom(c_buf', head', tail', pushed', Len(popped') + Len(peeked'))
                                /\ Len(peeked') + want' <= sz'
            /\ cpc' = "peek_assert" => tail' = saved'
        BY <1>2, <2>4, <2>6
      <4>. QED  BY <4>1, <4>2, <4>3, <4>4 DEF SoundPeek
    <3>. QED  BY <1>6, <1>7, <2>2, <2>3, <3>2 DEF PInv
  <2>11. CASE P + 1 - C = N + N
    <3>1. P + 1 - C - sz >= N
      BY <1>0, <1>3, <2>4, <2>11
    <3>2. Len(pushed') - Len(popped') - sz' >= N
      BY <1>0, <1>2, <1>3, <1>4, <3>1
    <3>3. Lost'
      BY <2>3, <3>2 DEF Lost
    <3>. QED  BY <1>6, <1>7, <3>3 DEF PInv
  <2>. QED  BY <1>0, <1>3, <2>9, <2>10, <2>11
<1>. QED  BY <1>8, <1>10, <1>11 DEF PInv

(* cq_pop takes the oldest element. *)
LEMMA TakePInv ==
  ASSUME PInv, UNCHANGED peekVars, ppc = "idle", PopAdvance
  PROVE  PInv'
<1>0. PeekTypes /\ InHand /\ Distance(head, tail) \in 0 .. N - 1 /\ N \in Nat \ {0, 1}
  BY DistanceType DEF PInv
<1>. DEFINE P == Len(pushed)
            C == Len(popped)
<1>1. P \in Nat /\ C \in Nat /\ want \in Nat /\ want >= 1
  BY <1>0 DEF PopAdvance, InHand, PeekTypes
<1>2. /\ c_buf' = c_buf /\ ppc' = "idle" /\ cpc = "advance"
      /\ cpc' = (IF want = 1 THEN "idle" ELSE "test") /\ want' = want - 1
      /\ head' = head /\ tail' = Succ(tail) /\ pushing' = pushing /\ pushed' = pushed
      /\ popped' = Append(popped, elem) /\ elem' = elem
      /\ saved' = saved /\ sz' = sz /\ peeked' = peeked
  BY DEF PopAdvance, peekVars, producerVars
<1>3. /\ popped' \in Seq(Value) /\ Len(popped') = C + 1 /\ popped'[C + 1] = elem
      /\ \A i \in 1 .. C : popped'[i] = popped[i]
  <2>1. popped \in Seq(Value) /\ elem \in Value
    BY <1>0 DEF PeekTypes
  <2>. QED  BY <1>2, <2>1
<1>4. /\ tail' \in Slots /\ Distance(head, tail) >= 1
      /\ Distance(head', tail') = Distance(head, tail) - 1
  <2>1. head \in Slots /\ tail \in Slots /\ Distance(head, tail) >= 1
    BY <1>0, <1>2 DEF PeekTypes, InHand
  <2>2. Distance(head, tail) > 0
    BY <1>0, <2>1
  <2>. QED  BY <1>2, <2>1, <2>2, SuccValue, DistanceAdvance
<1>5. want' \in Nat /\ (cpc' = "test" => want' >= 1) /\ cpc' \in {"idle", "test"}
  BY <1>1, <1>2
<1>6. PeekTypes'
  BY <1>0, <1>2, <1>3, <1>4, <1>5 DEF PeekTypes
<1>7. InHand'
  BY <1>2, <1>5 DEF InHand
<1>8. ~Peeking /\ ~Peeking'
  BY <1>2, <1>5 DEF Peeking
<1>9. CASE Lost
  <2>1. P - C >= Distance(head, tail) + N
    BY <1>8, <1>9 DEF Lost
  <2>2. Len(pushed') - Len(popped') >= Distance(head', tail') + N
    BY <1>0, <1>1, <1>2, <1>3, <1>4, <2>1
  <2>3. Lost'
    BY <1>8, <2>2 DEF Lost
  <2>. QED  BY <1>6, <1>7, <2>3 DEF PInv
<1>10. CASE Front /\ Sound
  <2>1. /\ RingFrom(c_buf, head, tail, pushed, C) /\ elem = pushed[C + 1]
        /\ \A i \in 1 .. C : popped[i] = pushed[i]
    BY <1>2, <1>10 DEF Front, Sound
  <2>2. C < P
    BY <1>0, <1>1, <1>4, <2>1 DEF RingFrom
  <2>3. RingFrom(c_buf, head, Succ(tail), pushed, C + 1)
    BY <1>0, <1>1, <2>1, <2>2, TailDrops DEF PeekTypes
  <2>4. \A i \in 1 .. C + 1 : popped'[i] = pushed[i]
    BY <1>1, <1>3, <2>1
  <2>5. Front'
    BY <1>1, <1>2, <1>3, <2>2, <2>4 DEF Front
  <2>6. Sound'
    BY <1>2, <1>3, <1>5, <2>3 DEF Sound
  <2>. QED  BY <1>6, <1>7, <1>8, <2>5, <2>6 DEF PInv
<1>. QED  BY <1>2, <1>8, <1>9, <1>10 DEF PInv

(* cq_peek_n saves tail and goes over the elements as cq_pop_n would. *)
LEMMA BeginPInv ==
  ASSUME PInv, NEW n \in PeekSizes, PeekBegin(n)
  PROVE  PInv'
<1>0. PeekTypes /\ InHand /\ Distance(head, tail) \in 0 .. N - 1 /\ N \in Nat \ {0, 1}
      /\ n \in Nat
  BY DistanceType, PeekAssumption DEF PInv
<1>. DEFINE P == Len(pushed)
            C == Len(popped)
<1>1. P \in Nat /\ C \in Nat
  BY <1>0 DEF PeekTypes
<1>2. /\ c_buf' = c_buf /\ ppc = "idle" /\ ppc' = ppc /\ cpc = "idle" /\ cpc' = "peek"
      /\ head' = head /\ tail' = tail /\ pushing' = pushing /\ pushed' = pushed
      /\ popped' = popped /\ elem' = elem /\ want' = n
      /\ saved' = tail /\ sz' = Distance(head, tail) /\ peeked' = <<>>
      /\ Distance(head, tail) >= n
  BY DEF PeekBegin, producerVars, Nelem, HasElems
<1>3. peeked' \in Seq(Value) /\ Len(peeked') = 0
  BY <1>2
<1>4. PeekTypes'
  BY <1>0, <1>2, <1>3 DEF PeekTypes
<1>5. InHand'
  BY <1>2 DEF InHand
<1>6. ~Peeking /\ Peeking'
  BY <1>2 DEF Peeking
<1>7. CASE Lost
  <2>1. P - C >= Distance(head, tail) + N
    BY <1>6, <1>7 DEF Lost
  <2>2. Len(pushed') - Len(popped') - sz' >= N
    BY <1>0, <1>1, <1>2, <2>1
  <2>3. Lost'
    BY <1>6, <2>2 DEF Lost
  <2>. QED  BY <1>4, <1>5, <2>3 DEF PInv
<1>8. CASE Front /\ Sound
  <2>1. RingFrom(c_buf, head, tail, pushed, C) /\ Distance(head, tail) = P - C
    BY <1>8 DEF Sound, RingFrom
  <2>2. RingFrom(c_buf', head', tail', pushed', Len(popped') + Len(peeked'))
    BY <1>1, <1>2, <1>3, <2>1
  <2>3. RingFrom(c_buf', head', saved', pushed', Len(popped'))
    BY <1>2, <2>1
  <2>4. /\ sz' <= N - 1 /\ Len(popped') + sz' <= Len(pushed') /\ Len(peeked') <= sz'
        /\ Len(peeked') + want' <= sz' /\ Len(pushed') - Len(popped') < N
    BY <1>0, <1>1, <1>2, <1>3, <2>1
  <2>5. \A i \in 1 .. Len(peeked') : peeked'[i] = pushed'[Len(popped') + i]
    BY <1>3
  <2>6. cpc' = "peek"
    BY <1>2
  <2>7. SoundPeek'
    BY <2>2, <2>3, <2>4, <2>5, <2>6 DEF SoundPeek
  <2>8. Front'
    BY <1>2, <1>8 DEF Front
  <2>. QED  BY <1>4, <1>5, <1>6, <2>7, <2>8 DEF PInv
<1>. QED  BY <1>2, <1>6, <1>7, <1>8 DEF PInv

(* One element read: what the caller gets so far is the front of the queue. *)
LEMMA LookPInv ==
  ASSUME PInv, PeekPop
  PROVE  PInv'
<1>0. PeekTypes /\ InHand /\ N \in Nat \ {0, 1}
  BY DistanceType DEF PInv
<1>. DEFINE P == Len(pushed)
            C == Len(popped)
            L == Len(peeked)
            v == c_buf[tail]
<1>1. P \in Nat /\ C \in Nat /\ L \in Nat /\ want \in Nat /\ sz \in Nat /\ v \in Value
  BY <1>0 DEF PeekTypes
<1>2. /\ c_buf' = c_buf /\ ppc = "idle" /\ ppc' = ppc /\ cpc = "peek" /\ cpc' = cpc
      /\ head' = head /\ tail' = Succ(tail) /\ pushing' = pushing /\ pushed' = pushed
      /\ popped' = popped /\ elem' = elem /\ want' = want - 1 /\ want > 0
      /\ saved' = saved /\ sz' = sz /\ peeked' = Append(peeked, v)
  BY DEF PeekPop, producerVars
<1>3. /\ peeked' \in Seq(Value) /\ Len(peeked') = L + 1 /\ peeked'[L + 1] = v
      /\ \A i \in 1 .. L : peeked'[i] = peeked[i]
  <2>1. peeked \in Seq(Value) /\ v \in Value
    BY <1>0, <1>1 DEF PeekTypes
  <2>. HIDE DEF v
  <2>. QED  BY <1>2, <2>1
<1>4. want' \in Nat /\ tail' \in Slots
  BY <1>0, <1>1, <1>2, SuccValue DEF PeekTypes
<1>5. PeekTypes'
  BY <1>0, <1>2, <1>3, <1>4 DEF PeekTypes
<1>6. InHand'
  BY <1>2 DEF InHand
<1>7. Peeking /\ Peeking'
  BY <1>2 DEF Peeking
<1>8. CASE Lost
  <2>1. Lost'
    BY <1>2, <1>7, <1>8 DEF Lost
  <2>. QED  BY <1>5, <1>6, <2>1 DEF PInv
<1>9. CASE Front /\ SoundPeek
  <2>1. /\ sz <= N - 1 /\ C + sz <= P /\ L <= sz /\ L + want <= sz
        /\ \A i \in 1 .. L : peeked[i] = pushed[C + i]
        /\ RingFrom(c_buf, head, tail, pushed, C + L)
    BY <1>2, <1>9 DEF SoundPeek
  <2>2. C + L < P /\ C + L \in Nat /\ (C + L) + 1 = C + (L + 1) /\ L + 1 <= sz
        /\ (L + 1) + (want - 1) <= sz
    BY <1>1, <1>2, <2>1
  <2>3. RingFrom(c_buf, head, Succ(tail), pushed, (C + L) + 1) /\ v = pushed[(C + L) + 1]
    <3>1. /\ c_buf \in [Slots -> Value] /\ head \in Slots /\ tail \in Slots
          /\ pushed \in Seq(Value)
      BY <1>0 DEF PeekTypes
    <3>2. C + L \in Nat /\ C + L < Len(pushed) /\ RingFrom(c_buf, head, tail, pushed, C + L)
      BY <2>1, <2>2
    <3>. DEFINE k == C + L
    <3>. HIDE DEF k
    <3>3. k \in Nat /\ k < Len(pushed) /\ RingFrom(c_buf, head, tail, pushed, k)
      BY <3>2 DEF k
    <3>4. RingFrom(c_buf, head, Succ(tail), pushed, k + 1) /\ c_buf[tail] = pushed[k + 1]
      BY ONLY <3>1, <3>3, TailDrops
    <3>. QED  BY <3>4 DEF k
  <2>. HIDE DEF v
  <2>4. ASSUME NEW i \in 1 .. L + 1  PROVE peeked'[i] = pushed[C + i]
    <3>1. CASE i = L + 1
      BY <1>3, <2>2, <2>3, <3>1
    <3>2. CASE i # L + 1
      <4>1. i \in 1 .. L
        BY <1>1, <3>2
      <4>. QED  BY <1>3, <2>1, <4>1
    <3>. QED  BY <3>1, <3>2
  <2>5. RingFrom(c_buf', head', tail', pushed', Len(popped') + Len(peeked'))
    BY <1>2, <1>3, <2>2, <2>3
  <2>6. SoundPeek'
    <3>1. /\ sz' <= N - 1 /\ Len(popped') + sz' <= Len(pushed') /\ Len(peeked') <= sz'
          /\ Len(peeked') + want' <= sz'
      BY <1>2, <1>3, <2>1, <2>2
    <3>2. \A i \in 1 .. Len(peeked') : peeked'[i] = pushed'[Len(popped') + i]
      BY <1>2, <1>3, <2>4
    <3>3. IF Len(pushed') - Len(popped') < N
          THEN RingFrom(c_buf', head', saved', pushed', Len(popped'))
          ELSE Distance(head', saved') = Len(pushed') - Len(popped') - N
      BY <1>2, <1>9 DEF SoundPeek
    <3>4. cpc' = "peek"
      BY <1>2
    <3>. QED  BY <2>5, <3>1, <3>2, <3>3, <3>4 DEF SoundPeek
  <2>7. Front'
    BY <1>2, <1>9 DEF Front
  <2>. QED  BY <1>5, <1>6, <1>7, <2>6, <2>7 DEF PInv
<1>. QED  BY <1>2, <1>7, <1>8, <1>9 DEF PInv

(* tail is put back: the saved ring is the queue again. *)
LEMMA RestorePInv ==
  ASSUME PInv, PeekRestore
  PROVE  PInv'
<1>0. PeekTypes /\ InHand
  BY DEF PInv
<1>1. /\ c_buf' = c_buf /\ ppc = "idle" /\ ppc' = ppc /\ cpc = "peek" /\ cpc' = "peek_assert"
      /\ head' = head /\ tail' = saved /\ pushing' = pushing /\ pushed' = pushed
      /\ popped' = popped /\ elem' = elem /\ want' = want
      /\ saved' = saved /\ sz' = sz /\ peeked' = peeked
  BY DEF PeekRestore, producerVars, peekVars
<1>2. PeekTypes'
  BY <1>0, <1>1 DEF PeekTypes
<1>3. InHand'
  BY <1>1 DEF InHand
<1>4. Peeking /\ Peeking'
  BY <1>1 DEF Peeking
<1>5. CASE Lost
  <2>1. Lost'
    BY <1>1, <1>4, <1>5 DEF Lost
  <2>. QED  BY <1>2, <1>3, <2>1 DEF PInv
<1>6. CASE Front /\ SoundPeek
  <2>1. Front' /\ SoundPeek'
    BY <1>1, <1>6 DEF Front, SoundPeek
  <2>. QED  BY <1>2, <1>3, <1>4, <2>1 DEF PInv
<1>. QED  BY <1>1, <1>4, <1>5, <1>6 DEF PInv

(* What the closing assert lets through: nothing was pushed since the call
   began, or exactly a whole ring of elements (or several) was. *)
LEMMA AssertSees ==
  ASSUME PInv, PeekAssert, cpc' = "idle"
  PROVE  \/ Front /\ RingFrom(c_buf, head, tail, pushed, Len(popped))
            /\ Len(pushed) - Len(popped) = sz
         \/ Len(pushed) - Len(popped) - sz >= N
<1>0. PeekTypes /\ N \in Nat \ {0, 1} /\ Distance(head, tail) \in 0 .. N - 1
  BY DistanceType DEF PInv
<1>1. cpc = "peek_assert" /\ sz = Distance(head, tail) /\ Peeking
  BY DEF PeekAssert, Nelem, Peeking
<1>2. Len(pushed) \in Nat /\ Len(popped) \in Nat /\ sz \in Nat
  BY <1>0 DEF PeekTypes
<1>3. CASE Lost
  BY <1>1, <1>3 DEF Lost
<1>4. CASE Front /\ SoundPeek
  <2>1. tail = saved
    BY <1>1, <1>4 DEF SoundPeek
  <2>2. CASE Len(pushed) - Len(popped) < N
    <3>1. RingFrom(c_buf, head, tail, pushed, Len(popped))
      BY <1>4, <2>1, <2>2 DEF SoundPeek
    <3>2. Len(pushed) - Len(popped) = sz
      BY <1>1, <3>1 DEF RingFrom
    <3>. QED  BY <1>4, <3>1, <3>2
  <2>3. CASE ~(Len(pushed) - Len(popped) < N)
    <3>1. Distance(head, saved) = Len(pushed) - Len(popped) - N
      BY <1>4, <2>3 DEF SoundPeek
    <3>2. sz = Len(pushed) - Len(popped) - N
      BY <1>1, <2>1, <3>1
    <3>. QED  BY <1>0, <1>2, <3>2
  <2>. QED  BY <2>2, <2>3
<1>. QED  BY <1>1, <1>3, <1>4 DEF PInv

LEMMA AssertPInv ==
  ASSUME PInv, PeekAssert
  PROVE  PInv'
<1>0. PeekTypes /\ InHand /\ N \in Nat \ {0, 1} /\ Distance(head, tail) \in 0 .. N - 1
  BY DistanceType DEF PInv
<1>1. /\ c_buf' = c_buf /\ ppc = "idle" /\ ppc' = ppc /\ cpc = "peek_assert"
      /\ cpc' = (IF sz = Nelem THEN "idle" ELSE "peek_failed")
      /\ head' = head /\ tail' = tail /\ pushing' = pushing /\ pushed' = pushed
      /\ popped' = popped /\ elem' = elem /\ want' = want
      /\ saved' = saved /\ sz' = sz /\ peeked' = peeked
  BY DEF PeekAssert, producerVars, peekVars
<1>2. PeekTypes'
  BY <1>0, <1>1 DEF PeekTypes
<1>3. InHand'
  BY <1>1 DEF InHand
<1>4. CASE cpc' = "peek_failed"
  BY <1>2, <1>3, <1>4 DEF PInv
<1>5. CASE cpc' = "idle"
  <2>1. ~Peeking' /\ sz = Distance(head, tail)
    BY <1>1, <1>5 DEF Peeking, Nelem
  <2>2. CASE Front /\ RingFrom(c_buf, head, tail, pushed, Len(popped))
    <3>1. Front' /\ Sound'
      BY <1>1, <1>5, <2>2 DEF Front, Sound
    <3>. QED  BY <1>2, <1>3, <2>1, <3>1 DEF PInv
  <2>3. CASE Len(pushed) - Len(popped) - sz >= N
    <3>1. Len(pushed) \in Nat /\ Len(popped) \in Nat
      BY <1>0 DEF PeekTypes
    <3>2. Len(pushed') - Len(popped') >= Distance(head', tail') + N
      BY <1>0, <1>1, <2>1, <2>3, <3>1
    <3>3. Lost'
      BY <2>1, <3>2 DEF Lost
    <3>. QED  BY <1>2, <1>3, <3>3 DEF PInv
  <2>. QED  BY <1>5, <2>2, <2>3, AssertSees
<1>. QED  BY <1>1, <1>4, <1>5

LEMMA PeekNextInv == PInv /\ [PeekNext]_allVars => PInv'
<1>. SUFFICES ASSUME PInv, [PeekNext]_allVars PROVE PInv'
  OBVIOUS
<1>1. CASE Peek
  BY <1>1, BeginPInv, LookPInv, RestorePInv, AssertPInv DEF Peek
<1>2. CASE cpc # "peek_failed" /\ Producer /\ UNCHANGED peekVars
  BY <1>2, QuietSteps, WritePInv, PublishPInv DEF Producer, ProducerStep
<1>3. CASE ppc = "idle" /\ (Consumer \/ IntSwitch) /\ UNCHANGED peekVars
  <2>1. cpc # "peek_failed"
    BY <1>3 DEF Consumer, ConsumerStep, PopBegin, TryBegin, PopTest, PopRead, PopAdvance,
                IntSwitch
  <2>. QED  BY <1>3, <2>1, QuietSteps, TakePInv DEF Consumer, ConsumerStep
<1>4. CASE UNCHANGED allVars
  BY <1>4 DEF allVars, vars, peekVars, PInv, PeekTypes, InHand, Front, Sound, SoundPeek, Lost,
              Peeking, RingFrom
<1>. QED  BY <1>1, <1>2, <1>3, <1>4 DEF PeekNext

------------------------------------------------------------------------------
(* What a caller of cq_peek_n gets is the front of the queue as it was when the
   call began, whatever the handler pushes meanwhile, short of a whole ring of
   elements. *)
THEOREM PeekReadsFront == PeekSpec => []PeekSeesFront
<1>1. PInv => PeekSeesFront
  <2>. SUFFICES ASSUME PInv, Peeking, Intruders < N
                PROVE  peeked = SubSeq(pushed, Len(popped) + 1, Len(popped) + Len(peeked))
    BY DEF PeekSeesFront, Peeking
  <2>1. /\ N \in Nat \ {0, 1} /\ pushed \in Seq(Value) /\ popped \in Seq(Value)
        /\ peeked \in Seq(Value) /\ sz \in Nat
    BY DistanceType DEF PInv, PeekTypes
  <2>2. ~Lost
    <3>1. Len(pushed) \in Nat /\ Len(popped) \in Nat
      BY <2>1
    <3>2. ~(Len(pushed) - Len(popped) - sz >= N)
      BY <2>1, <3>1 DEF Intruders
    <3>. QED  BY <3>2 DEF Lost
  <2>3. /\ Len(popped) + sz <= Len(pushed) /\ Len(peeked) <= sz
        /\ \A i \in 1 .. Len(peeked) : peeked[i] = pushed[Len(popped) + i]
    BY <2>2 DEF PInv, SoundPeek, Peeking
  <2>. DEFINE C == Len(popped)
              x == SubSeq(pushed, C + 1, C + Len(peeked))
  <2>4. C \in Nat /\ Len(peeked) \in Nat /\ Len(pushed) \in Nat
    BY <2>1
  <2>5. C + Len(peeked) <= Len(pushed)
    BY <2>1, <2>3, <2>4
  <2>6. x \in Seq(Value) /\ Len(x) = Len(peeked)
        /\ \A i \in 1 .. Len(peeked) : x[i] = pushed[C + i]
    <3>. DEFINE k == Len(peeked)
    <3>. HIDE DEF C, k
    <3>1. SubSeq(pushed, C + 1, C + k) \in Seq(Value)
          /\ Len(SubSeq(pushed, C + 1, C + k)) = k
          /\ \A i \in 1 .. k : SubSeq(pushed, C + 1, C + k)[i] = pushed[C + i]
      <4>1. C \in Nat /\ k \in Nat /\ C + k <= Len(pushed)
        BY <2>4, <2>5 DEF k
      <4>. QED  BY <2>1, <4>1
    <3>. QED  BY <3>1 DEF k
  <2>. HIDE DEF x
  <2>7. peeked = x
    BY <2>1, <2>3, <2>6, SeqEqual
  <2>. QED  BY <2>7 DEF x
<1>. QED  BY <1>1, PeekInitInv, PeekNextInv, PTL DEF PeekSpec

(* A ring that holds the rest of what was pushed is the FIFO order. *)
LEMMA FrontIsFifo ==
  ASSUME PeekTypes, Front, RingFrom(c_buf, head, tail, pushed, Len(popped))
  PROVE  FifoOrder
<1>1. /\ Distance(head, tail) \in 0 .. N - 1 /\ N \in Nat \ {0, 1} /\ c_buf \in [Slots -> Value]
      /\ tail \in Slots /\ pushed \in Seq(Value) /\ popped \in Seq(Value)
  BY DistanceType DEF PeekTypes
<1>. DEFINE d == Distance(head, tail)
            C == Len(popped)
            P == Len(pushed)
<1>2. /\ C \in Nat /\ P \in Nat /\ C <= P /\ d = P - C
      /\ \A i \in 1 .. P - C : c_buf[SlotAt(tail, i)] = pushed[C + i]
      /\ \A i \in 1 .. C : popped[i] = pushed[i]
  BY <1>1 DEF RingFrom, Front
<1>3. Occupied \in Seq(Value) /\ Len(Occupied) = P - C
      /\ \A i \in 1 .. P - C : Occupied[i] = pushed[C + i]
  <2>1. \A i \in 1 .. d : SlotAt(tail, i) \in Slots
    BY <1>1, SlotAtValue
  <2>2. Occupied = [i \in 1 .. d |-> c_buf[SlotAt(tail, i)]]
    BY DEF Occupied, Nelem
  <2>. HIDE DEF d
  <2>3. d \in Nat
    BY <1>2
  <2>4. Occupied \in Seq(Value) /\ Len(Occupied) = d
        /\ \A i \in 1 .. d : Occupied[i] = c_buf[SlotAt(tail, i)]
    BY <1>1, <2>1, <2>2, <2>3
  <2>. QED  BY <1>2, <2>4
<1>. HIDE DEF d, C, P
<1>4. /\ popped \o Occupied \in Seq(Value) /\ Len(popped \o Occupied) = P
      /\ \A i \in 1 .. P : (popped \o Occupied)[i] = pushed[i]
  <2>. DEFINE o == Occupied
              x == popped \o o
  <2>1. o \in Seq(Value) /\ Len(o) = P - C /\ \A i \in 1 .. P - C : o[i] = pushed[C + i]
    BY <1>3
  <2>. HIDE DEF o
  <2>2. /\ x \in Seq(Value) /\ Len(x) = Len(popped) + Len(o)
        /\ \A i \in 1 .. Len(popped) + Len(o) :
               x[i] = IF i <= Len(popped) THEN popped[i] ELSE o[i - Len(popped)]
    BY <1>1, <2>1, ConcatProperties
  <2>. HIDE DEF x
  <2>3. Len(x) = P
    BY <1>2, <2>1, <2>2 DEF C
  <2>4. ASSUME NEW i \in 1 .. P PROVE x[i] = pushed[i]
    <3>0. x[i] = IF i <= C THEN popped[i] ELSE o[i - C]
      BY <1>2, <2>1, <2>2 DEF C
    <3>1. CASE i <= C
      BY <1>2, <3>0, <3>1
    <3>2. CASE ~(i <= C)
      <4>1. i - C \in 1 .. P - C /\ C + (i - C) = i
        BY <1>2, <3>2
      <4>2. o[i - C] = pushed[i]
        BY <2>1, <4>1
      <4>. QED  BY <3>0, <3>2, <4>2
    <3>. QED  BY <3>1, <3>2
  <2>5. x \in Seq(Value) /\ Len(x) = P /\ \A i \in 1 .. P : x[i] = pushed[i]
    BY <2>2, <2>3, <2>4
  <2>. QED  BY <2>5 DEF x, o
<1>5. pushed = popped \o Occupied
  BY <1>1, <1>4, SeqEqual DEF P
<1>. QED  BY <1>5 DEF FifoOrder

(* The assert at the end of cq_peek_n stops every call during which fewer than
   N elements were pushed: the queue of a call that returns is as it was. *)
THEOREM PeekIsFailStop == PeekSpec => PeekFailsStop
<1>1. PInv /\ [PeekNext]_allVars =>
        [cpc = "peek_assert" /\ cpc' = "idle" /\ Intruders < N => FifoOrder]_allVars
  <2>. SUFFICES ASSUME PInv, PeekNext, cpc = "peek_assert", cpc' = "idle", Intruders < N
                PROVE  FifoOrder
    OBVIOUS
  <2>1. PeekAssert
    BY DEF PeekNext, Peek, PeekBegin, PeekPop, PeekRestore, Producer, ProducerStep, PushBegin,
           PushTest, PushWrite, PushAdvance, Consumer, ConsumerStep, PopBegin, TryBegin, PopTest,
           PopRead, PopAdvance, IntSwitch, consumerVars
  <2>2. PeekTypes /\ Len(pushed) \in Nat /\ Len(popped) \in Nat /\ sz \in Nat /\ N \in Nat
    BY DistanceType DEF PInv, PeekTypes
  <2>3. ~(Len(pushed) - Len(popped) - sz >= N)
    BY <2>2 DEF Intruders
  <2>. QED  BY <2>1, <2>2, <2>3, AssertSees, FrontIsFifo
<1>. QED  BY <1>1, PeekInitInv, PeekNextInv, PTL DEF PeekSpec, PeekFailsStop
==============================================================================
