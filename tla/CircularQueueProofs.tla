------------------------- MODULE CircularQueueProofs -------------------------
(***************************************************************************)
(* Proofs about CircularQueue for every ring size, every set of client     *)
(* sizes and every bound on the pushes.                                    *)
(***************************************************************************)
EXTENDS CircularQueue, SequenceTheorems, TLAPS

------------------------------------------------------------------------------
(* Index arithmetic. *)

(* The remainder is the unique one: the fact behind every index computation of
   circular.h. *)
LEMMA ModUnique ==
  ASSUME NEW n \in Nat \ {0}, NEW q \in Int, NEW r \in 0 .. n - 1
  PROVE  (q * n + r) % n = r
OBVIOUS

(* (i+1) % CQ_N steps to the next slot and wraps at the end. *)
LEMMA SuccValue ==
  ASSUME NEW i \in Slots
  PROVE  /\ Succ(i) \in Slots
         /\ Succ(i) = IF i = N - 1 THEN 0 ELSE i + 1
BY SizeAssumption DEF Slots, Succ

(* cq_nelem's unsigned subtraction and remainder give the distance from tail
   round to head, because N divides the word size. *)
LEMMA DistanceValue ==
  ASSUME NEW h \in Slots, NEW t \in Slots
  PROVE  /\ Distance(h, t) \in Slots
         /\ Distance(h, t) = IF h >= t THEN h - t ELSE h - t + N
<1>. PICK k \in 1 .. WordSize : WordSize = k * N
  BY SizeAssumption
<1>. N \in Nat \ {0, 1} /\ WordSize \in Nat /\ k \in Nat \ {0}
  BY SizeAssumption
<1>0. WordSize >= N
  OBVIOUS
<1>1. CASE h >= t
  <2>1. h - t \in 0 .. N - 1
    BY <1>1 DEF Slots
  <2>2. (h - t) % WordSize = h - t
    BY <2>1, <1>0
  <2>3. (h - t) % N = h - t
    BY <2>1
  <2>. QED  BY <1>1, <2>1, <2>2, <2>3 DEF Distance, Slots
<1>2. CASE h < t
  <2>. DEFINE d == h - t + N
  <2>1. d \in 1 .. N - 1
    BY <1>2 DEF Slots
  <2>2. (h - t) % WordSize = (k - 1) * N + d
    <3>1. (k - 1) * N + d \in 0 .. WordSize - 1
      BY <2>1
    <3>2. h - t = (-1) * WordSize + ((k - 1) * N + d)
      BY DEF Slots
    <3>3. WordSize \in Nat \ {0}
      BY <1>0
    <3>. QED  BY <3>1, <3>2, <3>3, ModUnique
  <2>3. ((k - 1) * N + d) % N = d
    <3>1. k - 1 \in Int /\ N \in Nat \ {0} /\ d \in 0 .. N - 1
      BY <2>1
    <3>. HIDE DEF d
    <3>. QED  BY <3>1, ModUnique
  <2>. QED  BY <1>2, <2>1, <2>2, <2>3 DEF Distance, Slots
<1>. QED  BY <1>1, <1>2 DEF Slots

(* cq_empty and cq_full are the two ends of cq_nelem. *)
LEMMA DistanceEnds ==
  ASSUME NEW h \in Slots, NEW t \in Slots
  PROVE  /\ (h = t) <=> (Distance(h, t) = 0)
         /\ (Succ(h) = t) <=> (Distance(h, t) = N - 1)
<1>. N \in Nat \ {0, 1}
  BY SizeAssumption
<1>. DEFINE d == Distance(h, t)   s == Succ(h)
<1>1. d = IF h >= t THEN h - t ELSE h - t + N
  BY DistanceValue
<1>2. s = IF h = N - 1 THEN 0 ELSE h + 1
  BY SuccValue
<1>. HIDE DEF d, s
<1>3. (h = t <=> d = 0) /\ (s = t <=> d = N - 1)
  BY <1>1, <1>2 DEF Slots
<1>. QED  BY <1>3 DEF d, s

(* Advancing head adds one element and advancing tail takes one away. *)
LEMMA DistanceAdvance ==
  ASSUME NEW h \in Slots, NEW t \in Slots
  PROVE  /\ Distance(h, t) < N - 1 => Distance(Succ(h), t) = Distance(h, t) + 1
         /\ Distance(h, t) > 0 => Distance(h, Succ(t)) = Distance(h, t) - 1
<1>. N \in Nat \ {0, 1}
  BY SizeAssumption
<1>. DEFINE d == Distance(h, t)   s == Succ(h)   u == Succ(t)
            ds == Distance(s, t)  du == Distance(h, u)
<1>1. s \in Slots /\ u \in Slots
  BY SuccValue
<1>2. /\ d = IF h >= t THEN h - t ELSE h - t + N
      /\ ds = IF s >= t THEN s - t ELSE s - t + N
      /\ du = IF h >= u THEN h - u ELSE h - u + N
  BY <1>1, DistanceValue
<1>3. /\ s = IF h = N - 1 THEN 0 ELSE h + 1
      /\ u = IF t = N - 1 THEN 0 ELSE t + 1
  BY SuccValue
<1>. HIDE DEF d, ds, du, s, u
<1>4. (d < N - 1 => ds = d + 1) /\ (d > 0 => du = d - 1)
  BY <1>1, <1>2, <1>3 DEF Slots
<1>. QED  BY <1>4 DEF d, ds, du, s, u

(* The i-th occupied slot counts from tail; the one after the last is head. *)
LEMMA SlotAtValue ==
  ASSUME NEW t \in Slots, NEW i \in 1 .. N
  PROVE  /\ SlotAt(t, i) \in Slots
         /\ SlotAt(t, i) = IF t + i <= N THEN t + i - 1 ELSE t + i - 1 - N
<1>. N \in Nat \ {0, 1}
  BY SizeAssumption
<1>1. CASE t + i <= N
  BY <1>1 DEF SlotAt, Slots
<1>2. CASE t + i > N
  <2>. DEFINE r == t + i - 1 - N
  <2>1. r \in 0 .. N - 1 /\ t + i - 1 = 1 * N + r
    BY <1>2 DEF Slots
  <2>. HIDE DEF r
  <2>2. (t + i - 1) % N = r
    BY <2>1, ModUnique
  <2>. QED  BY <1>2, <2>1, <2>2 DEF SlotAt, Slots, r
<1>. QED  BY <1>1, <1>2 DEF Slots

LEMMA SlotAtHead ==
  ASSUME NEW h \in Slots, NEW t \in Slots, NEW i \in 1 .. N
  PROVE  (SlotAt(t, i) = h) <=> (i = Distance(h, t) + 1)
<1>. N \in Nat \ {0, 1}
  BY SizeAssumption
<1>. DEFINE d == Distance(h, t)   a == SlotAt(t, i)
<1>1. d = IF h >= t THEN h - t ELSE h - t + N
  BY DistanceValue
<1>2. a = IF t + i <= N THEN t + i - 1 ELSE t + i - 1 - N
  BY SlotAtValue
<1>. HIDE DEF d, a
<1>3. a = h <=> i = d + 1
  BY <1>1, <1>2 DEF Slots
<1>. QED  BY <1>3 DEF d, a

LEMMA SlotAtTail ==
  ASSUME NEW t \in Slots, NEW i \in 1 .. N - 1
  PROVE  /\ SlotAt(t, 1) = t
         /\ SlotAt(Succ(t), i) = SlotAt(t, i + 1)
<1>. N \in Nat \ {0, 1}
  BY SizeAssumption
<1>. DEFINE u == Succ(t)   a == SlotAt(u, i)   b == SlotAt(t, i + 1)   c == SlotAt(t, 1)
<1>1. u \in Slots /\ u = IF t = N - 1 THEN 0 ELSE t + 1
  BY SuccValue
<1>2. /\ a = IF u + i <= N THEN u + i - 1 ELSE u + i - 1 - N
      /\ b = IF t + i + 1 <= N THEN t + i ELSE t + i - N
      /\ c = IF t + 1 <= N THEN t ELSE t - N
  <2>1. i \in 1 .. N /\ i + 1 \in 1 .. N /\ 1 \in 1 .. N
    OBVIOUS
  <2>. HIDE DEF u
  <2>2. a = IF u + i <= N THEN u + i - 1 ELSE u + i - 1 - N
    BY <1>1, <2>1, SlotAtValue
  <2>3. b = IF t + (i + 1) <= N THEN t + (i + 1) - 1 ELSE t + (i + 1) - 1 - N
    BY <2>1, SlotAtValue
  <2>4. c = IF t + 1 <= N THEN t + 1 - 1 ELSE t + 1 - 1 - N
    BY <2>1, SlotAtValue
  <2>. HIDE DEF a, b, c
  <2>. QED  BY <2>2, <2>3, <2>4 DEF Slots
<1>. HIDE DEF u, a, b, c
<1>3. c = t /\ a = b
  BY <1>1, <1>2 DEF Slots
<1>. QED  BY <1>3 DEF u, a, b, c

------------------------------------------------------------------------------
(* Types, and what each side may rely on while the other one moves. *)

PushActive == ppc \in {"test", "write", "advance"}
PopActive == cpc \in {"test", "read", "advance"}

\* cq_push_n: the room it saw is still there for all it has yet to push
ProducerPromise ==
    /\ PushNeverPanics
    /\ PushActive => Len(pushing) >= 1 /\ Nspace >= Len(pushing)

\* cq_pop_nonblock: the element it saw is still there; cq_pop_n_noblk: all of them
ConsumerPromise ==
    /\ PopActive => want >= 1
    /\ cpc \in {"read", "advance"} => Nelem >= 1
    /\ PopActive /\ ~blocking => Nelem >= want

Control == TypeOK /\ ProducerPromise /\ ConsumerPromise

LEMMA InitControl == Init => Control
<1>. SUFFICES ASSUME Init PROVE Control
  OBVIOUS
<1>1. TypeOK
  BY SizeAssumption, ClientAssumption DEF Init, TypeOK, Slots
<1>. QED  BY <1>1 DEF Init, Control, ProducerPromise, ConsumerPromise, PushNeverPanics,
                      PushActive, PopActive

(* A step of the producer's own variables leaves tail, and one of the
   consumer's leaves head: the other side's promise can only grow. *)
LEMMA NextControl == Control /\ [Next]_vars => Control'
<1>. SUFFICES ASSUME Control, [Next]_vars PROVE Control'
  OBVIOUS
<1>. USE DEF Control
<1>0. N \in Nat \ {0, 1} /\ Zero \in Value
  BY SizeAssumption, ClientAssumption
<1>1. head \in Slots /\ tail \in Slots /\ Nelem \in Slots /\ Nspace = N - 1 - Nelem
  BY DistanceValue DEF TypeOK, Nelem, Nspace
<1>2. ASSUME NEW n \in PushSizes, NEW data \in [1 .. n -> Value], PushBegin(data)
      PROVE  Control'
  <2>1. n \in Nat \ {0} /\ data \in Seq(Value) /\ Len(data) = n
    BY ClientAssumption
  <2>2. TypeOK'
    BY <1>2, <2>1 DEF PushBegin, TypeOK, consumerVars
  <2>3. Nelem' = Nelem /\ Nspace' = Nspace
    BY <1>2 DEF PushBegin, Nelem, Nspace, consumerVars
  <2>4. ProducerPromise'
    BY <1>2, <2>1, <2>3 DEF PushBegin, HasRoom, ProducerPromise, PushNeverPanics, PushActive
  <2>5. ConsumerPromise'
    BY <1>2, <2>3 DEF PushBegin, ConsumerPromise, PopActive, consumerVars
  <2>. QED  BY <2>2, <2>4, <2>5
<1>3. CASE PushTest
  <2>1. ~Full
    <3>1. Nspace >= 1
      BY <1>1, <1>3 DEF PushTest, ProducerPromise, PushActive, TypeOK
    <3>2. Nelem # N - 1
      BY <1>0, <1>1, <3>1 DEF Slots
    <3>. QED  BY <1>1, <3>2, DistanceEnds DEF Full, Nelem
  <2>2. TypeOK'
    BY <1>3 DEF PushTest, TypeOK, consumerVars
  <2>3. Nelem' = Nelem /\ Nspace' = Nspace
    BY <1>3 DEF PushTest, Nelem, Nspace, consumerVars
  <2>4. ProducerPromise'
    BY <1>3, <2>1, <2>3 DEF PushTest, ProducerPromise, PushNeverPanics, PushActive
  <2>5. ConsumerPromise'
    BY <1>3, <2>3 DEF PushTest, ConsumerPromise, PopActive, consumerVars
  <2>. QED  BY <2>2, <2>4, <2>5
<1>4. CASE PushWrite
  <2>1. Head(pushing) \in Value
    BY <1>4 DEF PushWrite, ProducerPromise, PushActive, TypeOK
  <2>2. TypeOK'
    BY <1>4, <2>1 DEF PushWrite, TypeOK, consumerVars
  <2>3. Nelem' = Nelem /\ Nspace' = Nspace
    BY <1>4 DEF PushWrite, Nelem, Nspace, consumerVars
  <2>4. ProducerPromise'
    BY <1>4, <2>3 DEF PushWrite, ProducerPromise, PushNeverPanics, PushActive
  <2>5. ConsumerPromise'
    BY <1>4, <2>3 DEF PushWrite, ConsumerPromise, PopActive, consumerVars
  <2>. QED  BY <2>2, <2>4, <2>5
<1>5. CASE PushAdvance
  <2>1. /\ Head(pushing) \in Value /\ Tail(pushing) \in Seq(Value)
        /\ Len(Tail(pushing)) = Len(pushing) - 1
    BY <1>5 DEF PushAdvance, ProducerPromise, PushActive, TypeOK
  <2>2. TypeOK'
    BY <1>1, <1>5, <2>1, SuccValue DEF PushAdvance, TypeOK, consumerVars
  <2>3. Nelem' = Nelem + 1 /\ Nspace' = Nspace - 1
    <3>1. Nelem < N - 1
      BY <1>0, <1>1, <1>5 DEF PushAdvance, ProducerPromise, PushActive, TypeOK, Slots
    <3>2. Nelem' = Nelem + 1
      BY <1>1, <1>5, <3>1, DistanceAdvance DEF PushAdvance, Nelem, consumerVars
    <3>. QED  BY <1>0, <1>1, <3>2 DEF Nspace, Slots
  <2>4. ProducerPromise'
    BY <1>0, <1>1, <1>5, <2>1, <2>3
       DEF PushAdvance, ProducerPromise, PushNeverPanics, PushActive, TypeOK, Slots
  <2>5. ConsumerPromise'
    BY <1>0, <1>1, <1>5, <2>3
       DEF PushAdvance, ConsumerPromise, PopActive, consumerVars, TypeOK, Slots
  <2>. QED  BY <2>2, <2>4, <2>5
<1>6. ASSUME NEW n \in PopSizes, PopBegin(n)
      PROVE  Control'
  <2>1. n \in Nat \ {0}
    BY ClientAssumption
  <2>2. TypeOK'
    BY <1>6, <2>1 DEF PopBegin, TypeOK, producerVars
  <2>3. Nelem' = Nelem /\ Nspace' = Nspace
    BY <1>6 DEF PopBegin, Nelem, Nspace, producerVars
  <2>4. ProducerPromise'
    BY <1>6, <2>3 DEF PopBegin, ProducerPromise, PushNeverPanics, PushActive, producerVars
  <2>5. ConsumerPromise'
    BY <1>6, <2>1, <2>3 DEF PopBegin, ConsumerPromise, PopActive
  <2>. QED  BY <2>2, <2>4, <2>5
<1>7. ASSUME NEW n \in TrySizes, TryBegin(n)
      PROVE  Control'
  <2>1. n \in Nat \ {0}
    BY ClientAssumption
  <2>2. TypeOK'
    BY <1>7, <2>1 DEF TryBegin, TypeOK, producerVars
  <2>3. Nelem' = Nelem /\ Nspace' = Nspace
    BY <1>7 DEF TryBegin, Nelem, Nspace, producerVars
  <2>4. ProducerPromise'
    BY <1>7, <2>3 DEF TryBegin, ProducerPromise, PushNeverPanics, PushActive, producerVars
  <2>5. ConsumerPromise'
    BY <1>7, <2>1, <2>3 DEF TryBegin, HasElems, ConsumerPromise, PopActive
  <2>. QED  BY <2>2, <2>4, <2>5
<1>8. CASE PopTest
  <2>1. Nelem' = Nelem /\ Nspace' = Nspace
    BY <1>8 DEF PopTest, Nelem, Nspace, producerVars
  <2>2. ~Empty => Nelem >= 1
    BY <1>0, <1>1, DistanceEnds DEF Empty, Nelem, Slots
  <2>3. TypeOK'
    BY <1>8 DEF PopTest, TypeOK, producerVars
  <2>4. ProducerPromise'
    BY <1>8, <2>1 DEF PopTest, ProducerPromise, PushNeverPanics, PushActive, producerVars
  <2>5. ConsumerPromise'
    BY <1>8, <2>1, <2>2 DEF PopTest, ConsumerPromise, PopActive
  <2>. QED  BY <2>3, <2>4, <2>5
<1>9. CASE PopRead
  <2>1. Nelem' = Nelem /\ Nspace' = Nspace
    BY <1>9 DEF PopRead, Nelem, Nspace, producerVars
  <2>2. TypeOK'
    BY <1>9 DEF PopRead, TypeOK, producerVars
  <2>3. ProducerPromise'
    BY <1>9, <2>1 DEF PopRead, ProducerPromise, PushNeverPanics, PushActive, producerVars
  <2>4. ConsumerPromise'
    BY <1>9, <2>1 DEF PopRead, ConsumerPromise, PopActive
  <2>. QED  BY <2>2, <2>3, <2>4
<1>10. CASE PopAdvance
  <2>1. want \in Nat /\ want >= 1 /\ Nelem >= 1
    BY <1>10 DEF PopAdvance, ConsumerPromise, PopActive, TypeOK
  <2>2. Nelem' = Nelem - 1
    BY <1>1, <1>10, <2>1, DistanceAdvance DEF PopAdvance, Nelem, producerVars, Slots
  <2>3. Nspace' = Nspace + 1
    BY <1>0, <1>1, <2>2 DEF Nspace, Slots
  <2>4. TypeOK'
    BY <1>1, <1>10, <2>1, SuccValue DEF PopAdvance, TypeOK, producerVars
  <2>5. ProducerPromise'
    BY <1>0, <1>1, <1>10, <2>3
       DEF PopAdvance, ProducerPromise, PushNeverPanics, PushActive, producerVars, TypeOK, Slots
  <2>6. ConsumerPromise'
    BY <1>0, <1>1, <1>10, <2>1, <2>2 DEF PopAdvance, ConsumerPromise, PopActive, Slots
  <2>. QED  BY <2>4, <2>5, <2>6
<1>11. CASE IntSwitch \/ UNCHANGED vars
  <2>1. Nelem' = Nelem /\ Nspace' = Nspace
    BY <1>11 DEF IntSwitch, vars, Nelem, Nspace, producerVars, consumerVars
  <2>2. TypeOK'
    BY <1>11 DEF IntSwitch, TypeOK, vars, producerVars, consumerVars
  <2>3. ProducerPromise' /\ ConsumerPromise'
    BY <1>11, <2>1 DEF IntSwitch, ProducerPromise, PushNeverPanics, PushActive,
                       ConsumerPromise, PopActive, vars, producerVars, consumerVars
  <2>. QED  BY <2>2, <2>3
<1>. QED
  BY <1>2, <1>3, <1>4, <1>5, <1>6, <1>7, <1>8, <1>9, <1>10, <1>11
     DEF Next, Producer, ProducerStep, Consumer, ConsumerStep

(* Every reachable state is well typed, for every ring. *)
THEOREM TypeCorrect == Spec => []TypeOK
<1>1. Control => TypeOK
  BY DEF Control
<1>. QED  BY <1>1, InitControl, NextControl, PTL DEF Spec

(* The "impossible" panic of cq_push_n is impossible. *)
THEOREM NoPushPanic == Spec => []PushNeverPanics
<1>1. Control => PushNeverPanics
  BY DEF Control, ProducerPromise
<1>. QED  BY <1>1, InitControl, NextControl, PTL DEF Spec

(* Stale counts err on the safe side only. *)
THEOREM StaleCountsSafe == Spec => []StaleIsSafe
<1>1. Control => StaleIsSafe
  BY DEF Control, ProducerPromise, ConsumerPromise, StaleIsSafe, PushActive, PopActive
<1>. QED  BY <1>1, InitControl, NextControl, PTL DEF Spec

(* cq_pop_n_noblk never blocks. *)
THEOREM TryNeverBlocks == Spec => []TryNeverWaits
<1>1. Control => TryNeverWaits
  <2>. SUFFICES ASSUME Control, ~blocking, cpc = "test"  PROVE ~Empty
    BY DEF TryNeverWaits
  <2>1. want \in Nat /\ want >= 1 /\ Nelem >= want /\ head \in Slots /\ tail \in Slots
    BY DEF Control, ConsumerPromise, PopActive, TypeOK
  <2>2. Nelem # 0
    BY <2>1
  <2>. QED  BY <2>1, <2>2, DistanceEnds DEF Empty, Nelem
<1>. QED  BY <1>1, InitControl, NextControl, PTL DEF Spec

(* The two sides never touch the same slot at once. *)
THEOREM NoSlotRace == Spec => []SlotExclusion
<1>1. Control => SlotExclusion
  <2>. SUFFICES ASSUME Control, cpc \in {"read", "advance"}  PROVE head # tail
    BY DEF SlotExclusion
  <2>1. Nelem >= 1 /\ head \in Slots /\ tail \in Slots
    BY DEF Control, ConsumerPromise, TypeOK
  <2>. QED  BY <2>1, DistanceEnds DEF Nelem
<1>. QED  BY <1>1, InitControl, NextControl, PTL DEF Spec

------------------------------------------------------------------------------
(* The contents of the ring. *)

LEMMA ConcatAppend ==
  ASSUME NEW S, NEW p \in Seq(S), NEW o \in Seq(S), NEW x \in S
  PROVE  p \o Append(o, x) = Append(p \o o, x)
OBVIOUS

LEMMA ConcatShift ==
  ASSUME NEW S, NEW p \in Seq(S), NEW o \in Seq(S), o # <<>>
  PROVE  Append(p, Head(o)) \o Tail(o) = p \o o
OBVIOUS

(* FifoOrder holds at every step because of what each side has in its hands
   between its two accesses. *)
Ring ==
    /\ FifoOrder
    /\ ppc = "advance" => c_buf[head] = Head(pushing)
    /\ cpc = "advance" => elem = c_buf[tail]

LEMMA OccupiedType ==
  ASSUME TypeOK
  PROVE  /\ Occupied \in Seq(Value) /\ Len(Occupied) = Nelem
         /\ \A i \in 1 .. Nelem : Occupied[i] = c_buf[SlotAt(tail, i)]
         /\ Nelem \in Slots
<1>. N \in Nat \ {0, 1}
  BY SizeAssumption
<1>1. Nelem \in Slots /\ tail \in Slots /\ c_buf \in [Slots -> Value]
  BY DistanceValue DEF TypeOK, Nelem
<1>2. \A i \in 1 .. Nelem : SlotAt(tail, i) \in Slots
  BY <1>1, SlotAtValue DEF Slots
<1>. QED  BY <1>1, <1>2 DEF Occupied, Slots

(* A store to the slot at head, which is free, leaves the contents alone. *)
LEMMA OccupiedWrite == Control /\ PushWrite => Occupied' = Occupied
<1>. SUFFICES ASSUME Control, PushWrite PROVE Occupied' = Occupied
  OBVIOUS
<1>. N \in Nat \ {0, 1}
  BY SizeAssumption
<1>1. head \in Slots /\ tail \in Slots /\ Nelem \in Slots /\ c_buf \in [Slots -> Value]
  BY DistanceValue DEF Control, TypeOK, Nelem
<1>2. /\ Nelem' = Nelem /\ tail' = tail
      /\ c_buf' = [c_buf EXCEPT ![head] = Head(pushing)]
  BY DEF PushWrite, Nelem, consumerVars
<1>3. \A i \in 1 .. Nelem : SlotAt(tail, i) \in Slots /\ SlotAt(tail, i) # head
  <2>. SUFFICES ASSUME NEW i \in 1 .. Nelem
                PROVE  SlotAt(tail, i) \in Slots /\ SlotAt(tail, i) # head
    OBVIOUS
  <2>1. i \in 1 .. N /\ i # Nelem + 1
    BY <1>1 DEF Slots
  <2>. QED  BY <1>1, <2>1, SlotAtValue, SlotAtHead DEF Nelem
<1>4. \A i \in 1 .. Nelem : c_buf'[SlotAt(tail, i)] = c_buf[SlotAt(tail, i)]
  BY <1>1, <1>2, <1>3
<1>. QED  BY <1>2, <1>4 DEF Occupied

(* The store to head publishes the element at the back ... *)
LEMMA OccupiedPush ==
  Control /\ PushAdvance => Occupied' = Append(Occupied, c_buf[head])
<1>. SUFFICES ASSUME Control, PushAdvance
              PROVE  Occupied' = Append(Occupied, c_buf[head])
  OBVIOUS
<1>. N \in Nat \ {0, 1}
  BY SizeAssumption
<1>1. /\ head \in Slots /\ tail \in Slots /\ Nelem \in Slots
      /\ c_buf \in [Slots -> Value] /\ TypeOK
  BY DistanceValue DEF Control, TypeOK, Nelem
<1>2. Nelem < N - 1
  BY <1>1 DEF PushAdvance, Control, ProducerPromise, PushActive, TypeOK, Slots, Nspace
<1>3. Nelem' = Nelem + 1 /\ tail' = tail /\ c_buf' = c_buf
  BY <1>1, <1>2, DistanceAdvance DEF PushAdvance, Nelem, consumerVars
<1>4. SlotAt(tail, Nelem + 1) = head
  BY <1>1, <1>2, SlotAtHead DEF Nelem, Slots
<1>5. Occupied' = [i \in 1 .. Nelem + 1 |-> c_buf[SlotAt(tail, i)]]
  BY <1>3 DEF Occupied
<1>6. Occupied \in Seq(Value) /\ Len(Occupied) = Nelem
      /\ \A i \in 1 .. Nelem : Occupied[i] = c_buf[SlotAt(tail, i)]
  BY <1>1, OccupiedType
<1>. QED  BY <1>1, <1>4, <1>5, <1>6 DEF Slots

(* ... and the store to tail takes the front one away. *)
LEMMA OccupiedPop ==
  Control /\ PopAdvance =>
      Occupied # <<>> /\ Head(Occupied) = c_buf[tail] /\ Occupied' = Tail(Occupied)
<1>. SUFFICES ASSUME Control, PopAdvance
              PROVE  /\ Occupied # <<>> /\ Head(Occupied) = c_buf[tail]
                     /\ Occupied' = Tail(Occupied)
  OBVIOUS
<1>. N \in Nat \ {0, 1}
  BY SizeAssumption
<1>1. /\ head \in Slots /\ tail \in Slots /\ Nelem \in Slots /\ Nelem >= 1
      /\ c_buf \in [Slots -> Value] /\ TypeOK
  BY DistanceValue DEF PopAdvance, Control, ConsumerPromise, TypeOK, Nelem
<1>2. Nelem' = Nelem - 1 /\ tail' = Succ(tail) /\ c_buf' = c_buf
  BY <1>1, DistanceAdvance DEF PopAdvance, Nelem, producerVars, Slots
<1>3. /\ SlotAt(tail, 1) = tail
      /\ \A i \in 1 .. Nelem - 1 : SlotAt(Succ(tail), i) = SlotAt(tail, i + 1)
  BY <1>1, SlotAtTail DEF Slots
<1>4. Occupied' = [i \in 1 .. Nelem - 1 |-> c_buf[SlotAt(tail, i + 1)]]
  BY <1>2, <1>3 DEF Occupied
<1>5. Occupied \in Seq(Value) /\ Len(Occupied) = Nelem
      /\ \A i \in 1 .. Nelem : Occupied[i] = c_buf[SlotAt(tail, i)]
  BY <1>1, OccupiedType
<1>6. Occupied # <<>> /\ Head(Occupied) = c_buf[tail]
  BY <1>1, <1>3, <1>5 DEF Slots
<1>7. /\ Tail(Occupied) \in Seq(Value) /\ Len(Tail(Occupied)) = Nelem - 1
      /\ \A i \in 1 .. Nelem - 1 : Tail(Occupied)[i] = c_buf[SlotAt(tail, i + 1)]
  BY <1>1, <1>5, <1>6, HeadTailProperties DEF Slots
<1>8. Tail(Occupied) = [i \in 1 .. Nelem - 1 |-> Tail(Occupied)[i]]
  <2>. DEFINE o == Tail(Occupied)
  <2>1. o \in Seq(Value) /\ Len(o) = Nelem - 1
    BY <1>7
  <2>. HIDE DEF o
  <2>2. o = [i \in 1 .. Len(o) |-> o[i]]
    BY <2>1
  <2>. QED  BY <2>1, <2>2 DEF o
<1>. QED  BY <1>4, <1>6, <1>7, <1>8

LEMMA InitRing == Init => Ring
<1>. SUFFICES ASSUME Init PROVE Ring
  OBVIOUS
<1>1. TypeOK /\ N \in Nat \ {0, 1}
  BY InitControl, SizeAssumption DEF Control
<1>2. Nelem = 0
  BY <1>1, DistanceEnds DEF Init, Nelem, TypeOK
<1>3. Occupied \in Seq(Value) /\ Len(Occupied) = 0
  BY <1>1, <1>2, OccupiedType
<1>. QED  BY <1>3 DEF Init, Ring, FifoOrder

LEMMA NextRing == Control /\ Ring /\ [Next]_vars => Ring'
<1>. SUFFICES ASSUME Control, Ring, [Next]_vars PROVE Ring'
  OBVIOUS
<1>. USE DEF Ring, FifoOrder
<1>0. /\ TypeOK /\ head \in Slots /\ tail \in Slots /\ Nelem \in Slots
      /\ c_buf \in [Slots -> Value] /\ popped \in Seq(Value)
      /\ Occupied \in Seq(Value)
  BY DistanceValue, OccupiedType DEF Control, TypeOK, Nelem
<1>1. CASE PushWrite
  <2>1. Occupied' = Occupied
    BY <1>1, OccupiedWrite
  <2>2. c_buf'[head'] = Head(pushing')
    BY <1>0, <1>1 DEF PushWrite
  <2>3. cpc = "advance" => head # tail
    BY <1>0, DistanceEnds DEF Control, ConsumerPromise, Nelem, Slots
  <2>4. cpc' = "advance" => elem' = c_buf'[tail']
    BY <1>0, <1>1, <2>3 DEF PushWrite, consumerVars
  <2>. QED  BY <1>1, <2>1, <2>2, <2>4 DEF PushWrite, consumerVars
<1>2. CASE PushAdvance
  <2>1. Occupied' = Append(Occupied, Head(pushing))
    BY <1>2, OccupiedPush DEF PushAdvance
  <2>2. Head(pushing) \in Value
    BY <1>2 DEF PushAdvance, Control, ProducerPromise, PushActive, TypeOK
  <2>3. popped \o Append(Occupied, Head(pushing)) = Append(popped \o Occupied, Head(pushing))
    BY <1>0, <2>2, ConcatAppend
  <2>4. pushed' = popped' \o Occupied'
    BY <1>2, <2>1, <2>3 DEF PushAdvance, consumerVars
  <2>. QED  BY <1>2, <2>4 DEF PushAdvance, consumerVars
<1>3. CASE PopAdvance
  <2>1. /\ Occupied # <<>> /\ elem = Head(Occupied) /\ Occupied' = Tail(Occupied)
    BY <1>3, OccupiedPop DEF PopAdvance
  <2>2. pushed' = popped' \o Occupied'
    BY <1>0, <1>3, <2>1, ConcatShift DEF PopAdvance, producerVars
  <2>. QED  BY <1>3, <2>2 DEF PopAdvance, producerVars
<1>4. CASE PopRead
  BY <1>4 DEF PopRead, producerVars, Occupied, Nelem
<1>5. ASSUME UNCHANGED <<c_buf, head, tail, pushed, popped, elem>>,
             ppc' # "advance" \/ UNCHANGED <<ppc, pushing>>,
             cpc' # "advance" \/ UNCHANGED cpc
      PROVE  Ring'
  BY <1>5 DEF Occupied, Nelem
<1>. QED
  BY <1>1, <1>2, <1>3, <1>4, <1>5
     DEF Next, Producer, ProducerStep, Consumer, ConsumerStep, PushBegin, PushTest, PopBegin,
         TryBegin, PopTest, IntSwitch, vars, producerVars, consumerVars

(* Every element pushed is popped once, in order and unchanged, or is still in
   the ring, whatever the interleaving: for every ring size. *)
THEOREM FifoCorrect == Spec => []FifoOrder
<1>1. Init => Control /\ Ring
  BY InitControl, InitRing
<1>2. Control /\ Ring /\ [Next]_vars => Control' /\ Ring'
  BY NextControl, NextRing
<1>3. Control /\ Ring => FifoOrder
  BY DEF Ring
<1>. QED  BY <1>1, <1>2, <1>3, PTL DEF Spec

(* circular.h implements the abstract bounded FIFO: the store to head is the
   enqueue, the store to tail is the dequeue, everything else is a stutter. *)
THEOREM Refinement == Spec => ImplementsFifo
<1>. N \in Nat \ {0, 1}
  BY SizeAssumption
<1>1. Init => Abstract!FifoInit
  BY InitControl, InitRing, OccupiedType, EmptySeq
     DEF Init, Abstract!FifoInit, Control, Ring, FifoOrder
<1>2. Control /\ Ring /\ [Next]_vars => [Abstract!FifoNext]_(Abstract!fifoVars)
  <2>. SUFFICES ASSUME Control, Ring, [Next]_vars
                PROVE  [Abstract!FifoNext]_(Abstract!fifoVars)
    OBVIOUS
  <2>1. CASE PushAdvance
    <3>1. Occupied' = Append(Occupied, Head(pushing)) /\ popped' = popped
      BY <2>1, OccupiedPush DEF PushAdvance, Ring, consumerVars
    <3>2. Head(pushing) \in Value
      BY <2>1 DEF PushAdvance, Control, ProducerPromise, PushActive, TypeOK
    <3>3. Len(Occupied) < N - 1
      BY <2>1, OccupiedType
         DEF PushAdvance, Control, ProducerPromise, PushActive, TypeOK, Nspace, Slots
    <3>. QED  BY <3>1, <3>2, <3>3 DEF Abstract!FifoNext, Abstract!Enqueue
  <2>2. CASE PopAdvance
    <3>1. /\ Occupied # <<>> /\ Occupied' = Tail(Occupied)
          /\ popped' = Append(popped, Head(Occupied))
      BY <2>2, OccupiedPop DEF PopAdvance, Ring
    <3>. QED  BY <3>1 DEF Abstract!FifoNext, Abstract!Dequeue
  <2>3. CASE PushWrite
    BY <2>3, OccupiedWrite DEF PushWrite, consumerVars, Abstract!fifoVars
  <2>4. ASSUME UNCHANGED <<c_buf, head, tail, popped>>
        PROVE  UNCHANGED Abstract!fifoVars
    BY <2>4 DEF Occupied, Nelem, Abstract!fifoVars
  <2>. QED
    BY <2>1, <2>2, <2>3, <2>4
       DEF Next, Producer, ProducerStep, Consumer, ConsumerStep, PushBegin, PushTest, PopBegin,
           TryBegin, PopTest, PopRead, IntSwitch, vars, producerVars, consumerVars
<1>3. Init => Control /\ Ring
  BY InitControl, InitRing
<1>4. Control /\ Ring /\ [Next]_vars => Control' /\ Ring'
  BY NextControl, NextRing
<1>. QED  BY <1>1, <1>2, <1>3, <1>4, PTL DEF Spec, ImplementsFifo, Abstract!FifoSpec
==============================================================================
