--------------------------- MODULE RpiThreadProofs ---------------------------
(***************************************************************************)
(* Proofs about IntrusiveQueue and RpiThread, for any set of blocks and    *)
(* any bound on the tids.                                                  *)
(***************************************************************************)
EXTENDS RpiThread, SequenceTheorems, TLAPS

------------------------------------------------------------------------------
(* The intrusive queue: what each operation of Q.h does to the queue it is  *)
(* given and to another queue that shares the links.                        *)

LEMMA EmptyLen ==
  \A r \in Seq(Elem) : r = <<>> <=> Len(r) = 0
OBVIOUS

LEMMA HeldQueue ==
  ASSUME NEW q, NEW nx, NEW s \in Seq(Elem), Holds(q, nx, s)
  PROVE  /\ IsEmpty(q) <=> s = <<>>
         /\ s # <<>> => q.head = Head(s) /\ Head(s) \in Elem /\ Head(s) \in Blocks(s)
         /\ q.tail = NULL <=> s = <<>>
<1>1. CASE s = <<>>
  BY <1>1 DEF Holds, IsEmpty
<1>2. CASE s # <<>>
  <2>1. Len(s) \in Nat \ {0} /\ s[1] = Head(s) /\ s[1] \in Elem /\ s[Len(s)] \in Elem
    BY <1>2
  <2>2. s[1] \in Blocks(s)
    BY <2>1 DEF Blocks
  <2>. QED  BY <1>2, <2>1, <2>2, NullAssumption DEF Holds, IsEmpty
<1>. QED  BY <1>1, <1>2

LEMMA BlocksAppend ==
  ASSUME NEW s \in Seq(Elem), NEW e \in Elem
  PROVE  Blocks(Append(s, e)) = Blocks(s) \cup {e} /\ Append(s, e) \in Seq(Elem)
<1>1. /\ Len(Append(s, e)) = Len(s) + 1 /\ Len(s) \in Nat
      /\ \A i \in 1 .. Len(s) : Append(s, e)[i] = s[i]
      /\ Append(s, e)[Len(s) + 1] = e
  OBVIOUS
<1>2. \A x : x \in Blocks(Append(s, e)) <=> x \in Blocks(s) \/ x = e
  BY <1>1 DEF Blocks
<1>. QED  BY <1>2

LEMMA BlocksPush ==
  ASSUME NEW s \in Seq(Elem), NEW e \in Elem
  PROVE  /\ Blocks(<<e>> \o s) = Blocks(s) \cup {e} /\ <<e>> \o s \in Seq(Elem)
         /\ Len(<<e>> \o s) = Len(s) + 1 /\ (<<e>> \o s)[1] = e
         /\ \A i \in 1 .. Len(s) : (<<e>> \o s)[i + 1] = s[i]
         /\ \A i \in 2 .. Len(s) + 1 : (<<e>> \o s)[i] = s[i - 1]
<1>1. /\ Len(<<e>> \o s) = Len(s) + 1 /\ Len(s) \in Nat
      /\ (<<e>> \o s)[1] = e
      /\ \A i \in 1 .. Len(s) : (<<e>> \o s)[i + 1] = s[i]
      /\ \A i \in 2 .. Len(s) + 1 : (<<e>> \o s)[i] = s[i - 1]
      /\ <<e>> \o s \in Seq(Elem)
  OBVIOUS
<1>2. ASSUME NEW x \in Blocks(<<e>> \o s) PROVE x \in Blocks(s) \/ x = e
  <2>1. PICK i \in 1 .. Len(s) + 1 : x = (<<e>> \o s)[i]
    BY <1>1 DEF Blocks
  <2>2. CASE i = 1
    BY <1>1, <2>1, <2>2
  <2>3. CASE i # 1
    <3>1. i - 1 \in 1 .. Len(s) /\ x = s[i - 1]
      BY <1>1, <2>1, <2>3
    <3>. QED  BY <3>1 DEF Blocks
  <2>. QED  BY <2>2, <2>3
<1>3. ASSUME NEW x \in Blocks(s) PROVE x \in Blocks(<<e>> \o s)
  <2>1. PICK i \in 1 .. Len(s) : x = s[i]
    BY DEF Blocks
  <2>2. i + 1 \in 1 .. Len(<<e>> \o s) /\ (<<e>> \o s)[i + 1] = x
    BY <1>1, <2>1
  <2>. QED  BY <2>2 DEF Blocks
<1>4. e \in Blocks(<<e>> \o s)
  BY <1>1 DEF Blocks
<1>. QED  BY <1>1, <1>2, <1>3, <1>4

LEMMA BlocksTail ==
  ASSUME NEW s \in Seq(Elem), s # <<>>,
         \A i, j \in 1 .. Len(s) : s[i] = s[j] => i = j
  PROVE  /\ Blocks(Tail(s)) = Blocks(s) \ {Head(s)} /\ Tail(s) \in Seq(Elem)
         /\ Head(s) \in Blocks(s)
<1>1. /\ Len(s) \in Nat \ {0} /\ Len(Tail(s)) = Len(s) - 1 /\ Head(s) = s[1]
      /\ \A i \in 1 .. Len(s) - 1 : Tail(s)[i] = s[i + 1]
      /\ Tail(s) \in Seq(Elem)
  OBVIOUS
<1>2. ASSUME NEW x \in Blocks(Tail(s)) PROVE x \in Blocks(s) /\ x # Head(s)
  <2>1. PICK i \in 1 .. Len(s) - 1 : x = s[i + 1]
    BY <1>1 DEF Blocks
  <2>2. i + 1 \in 1 .. Len(s) /\ 1 \in 1 .. Len(s) /\ i + 1 # 1
    BY <1>1
  <2>. QED  BY <1>1, <2>1, <2>2 DEF Blocks
<1>3. ASSUME NEW x \in Blocks(s), x # Head(s) PROVE x \in Blocks(Tail(s))
  <2>1. PICK i \in 1 .. Len(s) : x = s[i]
    BY DEF Blocks
  <2>2. i - 1 \in 1 .. Len(s) - 1 /\ Tail(s)[i - 1] = x
    BY <1>1, <1>3, <2>1
  <2>. QED  BY <1>1, <2>2 DEF Blocks
<1>4. Head(s) \in Blocks(s)
  BY <1>1 DEF Blocks
<1>. QED  BY <1>1, <1>2, <1>3, <1>4

LEMMA HeadOfAppend ==
  ASSUME NEW s \in Seq(Elem), s # <<>>, NEW e \in Elem
  PROVE  /\ Append(s, e) # <<>> /\ Head(Append(s, e)) = Head(s)
         /\ Tail(Append(s, e)) = Append(Tail(s), e)
OBVIOUS

(* Q_pop takes the first element, and touches no link. *)
LEMMA PoppedHolds ==
  ASSUME NEW q, NEW nx, NEW s \in Seq(Elem), s # <<>>, Holds(q, nx, s)
  PROVE  Holds(Popped(q, nx), nx, Tail(s))
<1>. DEFINE t == Tail(s)
<1>. DEFINE n == Len(s)
<1>1. /\ n \in Nat \ {0} /\ Len(t) = n - 1
      /\ \A i \in 1 .. n - 1 : t[i] = s[i + 1]
      /\ \A i \in 1 .. n : s[i] \in Elem
  OBVIOUS
<1>2. t = <<>> <=> n = 1
  <2>1. t \in Seq(Elem)
    OBVIOUS
  <2>2. t = <<>> <=> Len(t) = 0
    BY <2>1, EmptyLen
  <2>. QED  BY <1>1, <2>2
<1>3. /\ q.cnt = n /\ q.head = s[1] /\ q.tail = s[n]
      /\ \A i \in 1 .. n : nx[s[i]] = IF i = n THEN NULL ELSE s[i + 1]
      /\ \A i, j \in 1 .. n : s[i] = s[j] => i = j
  BY DEF Holds
<1>. HIDE DEF t, n
<1>4. nx[q.head] = IF n = 1 THEN NULL ELSE s[2]
  <2>1. 1 \in 1 .. n
    BY <1>1
  <2>. QED  BY <1>3, <2>1
<1>5. Popped(q, nx) = [head |-> nx[q.head],
                       tail |-> IF nx[q.head] = NULL THEN NULL ELSE q.tail,
                       cnt |-> q.cnt - 1]
  BY DEF Popped
<1>6. CASE n = 1
  <2>1. Popped(q, nx) = [head |-> NULL, tail |-> NULL, cnt |-> 0]
    BY <1>3, <1>4, <1>5, <1>6
  <2>2. t = <<>> /\ Len(t) = 0
    BY <1>1, <1>2, <1>6
  <2>3. Holds(Popped(q, nx), nx, t)
    BY <2>1, <2>2 DEF Holds
  <2>. QED  BY <2>3 DEF t
<1>7. CASE n # 1
  <2>1. 2 \in 1 .. n /\ s[2] \in Elem
    BY <1>1, <1>7
  <2>2. /\ Popped(q, nx).head = s[2] /\ Popped(q, nx).tail = s[n]
        /\ Popped(q, nx).cnt = n - 1
    BY <1>3, <1>4, <1>5, <1>7, <2>1, NullAssumption
  <2>3. t # <<>> /\ t[1] = s[2] /\ t[n - 1] = s[n]
    BY <1>1, <1>2, <1>7
  <2>4. \A i \in 1 .. n - 1 : nx[t[i]] = IF i = n - 1 THEN NULL ELSE t[i + 1]
    <3>1. TAKE i \in 1 .. n - 1
    <3>2. i + 1 \in 1 .. n /\ t[i] = s[i + 1]
      BY <1>1
    <3>3. nx[t[i]] = IF i + 1 = n THEN NULL ELSE s[i + 2]
      BY <1>1, <1>3, <3>2
    <3>4. i # n - 1 => i + 1 \in 1 .. n - 1 /\ t[i + 1] = s[i + 2]
      BY <1>1
    <3>. QED  BY <1>1, <3>3, <3>4
  <2>5. \A i, j \in 1 .. n - 1 : t[i] = t[j] => i = j
    <3>1. TAKE i, j \in 1 .. n - 1
    <3>2. i + 1 \in 1 .. n /\ j + 1 \in 1 .. n /\ t[i] = s[i + 1] /\ t[j] = s[j + 1]
      BY <1>1
    <3>3. s[i + 1] = s[j + 1] => i + 1 = j + 1
      BY <1>3, <3>2
    <3>. QED  BY <1>1, <3>2, <3>3
  <2>6. Holds(Popped(q, nx), nx, t)
    BY <1>1, <2>2, <2>3, <2>4, <2>5 DEF Holds
  <2>. QED  BY <2>6 DEF t
<1>. QED  BY <1>6, <1>7

(* A queue is untouched by changes to links of elements it does not hold. *)
LEMMA HoldsOther ==
  ASSUME NEW q, NEW nx, NEW nx2, NEW s \in Seq(Elem), Holds(q, nx, s),
         \A b \in Blocks(s) : nx2[b] = nx[b]
  PROVE  Holds(q, nx2, s)
<1>1. \A i \in 1 .. Len(s) : nx2[s[i]] = nx[s[i]]
  BY DEF Blocks
<1>. QED  BY <1>1 DEF Holds

(* Q_append adds an element that is not on the queue at the end. *)
LEMMA AppendedHolds ==
  ASSUME NEW q, NEW nx \in [Elem -> Link], NEW s \in Seq(Elem), NEW e \in Elem,
         Holds(q, nx, s), e \notin Blocks(s)
  PROVE  /\ Holds(Appended(q, e), AppendLinks(q, nx, e), Append(s, e))
         /\ AppendLinks(q, nx, e) \in [Elem -> Link]
         /\ q.tail # NULL => q.tail \in Blocks(s)
<1>. DEFINE t == Append(s, e)
<1>. DEFINE n == Len(s)
<1>. DEFINE nx2 == AppendLinks(q, nx, e)
<1>1. /\ n \in Nat /\ Len(t) = n + 1 /\ t # <<>>
      /\ \A i \in 1 .. n : t[i] = s[i]
      /\ t[n + 1] = e
      /\ \A i \in 1 .. n : s[i] \in Elem
  OBVIOUS
<1>2. /\ q.cnt = n /\ q.head = IF n = 0 THEN NULL ELSE s[1]
      /\ q.tail = IF n = 0 THEN NULL ELSE s[n]
      /\ \A i \in 1 .. n : nx[s[i]] = IF i = n THEN NULL ELSE s[i + 1]
      /\ \A i, j \in 1 .. n : s[i] = s[j] => i = j
  BY EmptyLen DEF Holds
<1>3. \A i \in 1 .. n : s[i] # e
  BY DEF Blocks
<1>4. Appended(q, e) = [head |-> IF q.tail = NULL THEN e ELSE q.head,
                        tail |-> e, cnt |-> q.cnt + 1]
  BY DEF Appended
<1>5. nx2 = IF q.tail = NULL THEN [nx EXCEPT ![e] = NULL]
            ELSE [nx EXCEPT ![e] = NULL, ![q.tail] = e]
  BY DEF AppendLinks
<1>6. \A i \in 1 .. n : s[i] \in Blocks(s)
  BY DEF Blocks
<1>. HIDE DEF t, n, nx2
<1>7. q.tail = NULL <=> n = 0
  <2>1. n # 0 => n \in 1 .. n
    BY <1>1
  <2>. QED  BY <1>1, <1>2, <2>1, NullAssumption
<1>8. /\ nx2 \in [Elem -> Link] /\ nx2[e] = NULL
      /\ n # 0 => nx2[s[n]] = e
      /\ \A b \in Elem : b # e /\ (n # 0 => b # s[n]) => nx2[b] = nx[b]
  <2>1. CASE n = 0
    BY <1>5, <1>7, <2>1 DEF Link
  <2>2. CASE n # 0
    <3>1. q.tail = s[n] /\ s[n] \in Elem /\ s[n] # e
      BY <1>1, <1>2, <1>3, <2>2
    <3>2. nx2 = [nx EXCEPT ![e] = NULL, ![s[n]] = e]
      BY <1>5, <1>7, <2>2, <3>1
    <3>. QED  BY <3>1, <3>2, <2>2 DEF Link
  <2>. QED  BY <2>1, <2>2
<1>9. \A i \in 1 .. n + 1 : nx2[t[i]] = IF i = n + 1 THEN NULL ELSE t[i + 1]
  <2>1. TAKE i \in 1 .. n + 1
  <2>2. CASE i = n + 1
    BY <1>1, <1>8, <2>2
  <2>3. CASE i = n /\ n # 0
    <3>1. t[i] = s[n] /\ t[i + 1] = e
      BY <1>1, <2>3
    <3>. QED  BY <1>1, <1>8, <2>3, <3>1
  <2>4. CASE i # n + 1 /\ i # n
    <3>1. i \in 1 .. n /\ n \in 1 .. n /\ i + 1 \in 1 .. n /\ n # 0
      BY <1>1, <2>4
    <3>2. t[i] = s[i] /\ t[i + 1] = s[i + 1] /\ s[i] \in Elem
      BY <1>1, <3>1
    <3>3. s[i] # e /\ s[i] # s[n]
      BY <1>2, <1>3, <2>4, <3>1
    <3>4. nx2[s[i]] = nx[s[i]]
      BY <1>8, <3>2, <3>3
    <3>5. nx[s[i]] = s[i + 1]
      BY <1>2, <2>4, <3>1
    <3>. QED  BY <2>4, <3>2, <3>4, <3>5
  <2>. QED  BY <1>1, <2>2, <2>3, <2>4
<1>10. \A i, j \in 1 .. n + 1 : t[i] = t[j] => i = j
  <2>1. TAKE i, j \in 1 .. n + 1
  <2>2. \A k \in 1 .. n + 1 : k # n + 1 => k \in 1 .. n
    BY <1>1
  <2>. QED  BY <1>1, <1>2, <1>3, <2>2
<1>11. Appended(q, e) = [head |-> t[1], tail |-> t[n + 1], cnt |-> n + 1]
  <2>1. CASE n = 0
    BY <1>1, <1>2, <1>4, <1>7, <2>1
  <2>2. CASE n # 0
    <3>1. t[1] = s[1]
      BY <1>1, <2>2
    <3>. QED  BY <1>1, <1>2, <1>4, <1>7, <2>2, <3>1
  <2>. QED  BY <2>1, <2>2
<1>12. Holds(Appended(q, e), nx2, t)
  BY <1>1, <1>9, <1>10, <1>11 DEF Holds
<1>13. q.tail # NULL => q.tail \in Blocks(s)
  <2>1. n # 0 => s[n] \in Blocks(s)
    BY <1>1, <1>6
  <2>. QED  BY <1>2, <1>7, <2>1
<1>. QED  BY <1>8, <1>12, <1>13 DEF t, nx2

LEMMA AppendLinksElsewhere ==
  ASSUME NEW q, NEW nx \in [Elem -> Link], NEW e, NEW b \in Elem, b # e, b # q.tail
  PROVE  AppendLinks(q, nx, e)[b] = nx[b]
BY DEF AppendLinks

(* Q_push adds an element that is not on the queue at the front. *)
LEMMA PushedHolds ==
  ASSUME NEW q, NEW nx \in [Elem -> Link], NEW s \in Seq(Elem), NEW e \in Elem,
         Holds(q, nx, s), e \notin Blocks(s)
  PROVE  /\ Holds(Pushed(q, e), PushLinks(q, nx, e), <<e>> \o s)
         /\ PushLinks(q, nx, e) \in [Elem -> Link]
<1>. DEFINE t == <<e>> \o s
<1>. DEFINE n == Len(s)
<1>. DEFINE nx2 == PushLinks(q, nx, e)
<1>1. /\ n \in Nat /\ Len(t) = n + 1 /\ t[1] = e
      /\ \A i \in 2 .. n + 1 : t[i] = s[i - 1]
      /\ \A i \in 1 .. n : s[i] \in Elem
  BY BlocksPush
<1>2. t # <<>>
  <2>1. t \in Seq(Elem)
    BY BlocksPush
  <2>. QED  BY <1>1, <2>1, EmptyLen
<1>3. /\ q.cnt = n /\ q.head = IF n = 0 THEN NULL ELSE s[1]
      /\ q.tail = IF n = 0 THEN NULL ELSE s[n]
      /\ \A i \in 1 .. n : nx[s[i]] = IF i = n THEN NULL ELSE s[i + 1]
      /\ \A i, j \in 1 .. n : s[i] = s[j] => i = j
  BY EmptyLen DEF Holds
<1>4. \A i \in 1 .. n : s[i] # e
  BY DEF Blocks
<1>5. nx2 = [nx EXCEPT ![e] = q.head]
  BY DEF PushLinks
<1>. HIDE DEF t, n, nx2
<1>6. q.tail = NULL <=> n = 0
  <2>1. n # 0 => n \in 1 .. n
    BY <1>1
  <2>. QED  BY <1>1, <1>3, <2>1, NullAssumption
<1>7. q.head \in Link
  <2>1. n # 0 => 1 \in 1 .. n
    BY <1>1
  <2>. QED  BY <1>1, <1>3, <2>1 DEF Link
<1>8. nx2 \in [Elem -> Link] /\ nx2[e] = q.head /\ \A b \in Elem : b # e => nx2[b] = nx[b]
  BY <1>5, <1>7
<1>9. \A i \in 1 .. n + 1 : nx2[t[i]] = IF i = n + 1 THEN NULL ELSE t[i + 1]
  <2>1. TAKE i \in 1 .. n + 1
  <2>2. CASE i = 1
    <3>1. n # 0 => 2 \in 2 .. n + 1 /\ t[2] = s[2 - 1]
      BY <1>1
    <3>. QED  BY <1>1, <1>3, <1>8, <2>2, <3>1
  <2>3. CASE i # 1
    <3>1. /\ i \in 2 .. n + 1 /\ i - 1 \in 1 .. n /\ t[i] = s[i - 1] /\ s[i - 1] \in Elem
      BY <1>1, <2>3
    <3>2. nx2[s[i - 1]] = nx[s[i - 1]]
      BY <1>4, <1>8, <3>1
    <3>3. nx[s[i - 1]] = IF i - 1 = n THEN NULL ELSE s[i]
      BY <1>3, <3>1
    <3>4. i # n + 1 => i + 1 \in 2 .. n + 1 /\ t[i + 1] = s[i]
      BY <1>1, <3>1
    <3>. QED  BY <1>1, <3>1, <3>2, <3>3, <3>4
  <2>. QED  BY <2>2, <2>3
<1>10. \A i, j \in 1 .. n + 1 : t[i] = t[j] => i = j
  <2>1. TAKE i, j \in 1 .. n + 1
  <2>2. \A k \in 1 .. n + 1 : k # 1 => k \in 2 .. n + 1 /\ k - 1 \in 1 .. n
    BY <1>1
  <2>3. CASE i = 1 \/ j = 1
    BY <1>1, <1>4, <2>2, <2>3
  <2>4. CASE i # 1 /\ j # 1
    <3>1. i - 1 \in 1 .. n /\ j - 1 \in 1 .. n /\ t[i] = s[i - 1] /\ t[j] = s[j - 1]
      BY <1>1, <2>2, <2>4
    <3>2. s[i - 1] = s[j - 1] => i - 1 = j - 1
      BY <1>3, <3>1
    <3>. QED  BY <1>1, <3>1, <3>2
  <2>. QED  BY <2>3, <2>4
<1>11. t[n + 1] = IF n = 0 THEN e ELSE s[n]
  <2>1. n # 0 => n + 1 \in 2 .. n + 1 /\ t[n + 1] = s[n + 1 - 1] /\ n + 1 - 1 = n
    BY <1>1
  <2>. QED  BY <1>1, <2>1
<1>12. Pushed(q, e) = [head |-> t[1], tail |-> t[n + 1], cnt |-> n + 1]
  <2>1. Pushed(q, e) = [head |-> e, tail |-> IF q.tail = NULL THEN e ELSE q.tail,
                        cnt |-> q.cnt + 1]
    BY DEF Pushed
  <2>. QED  BY <1>1, <1>3, <1>6, <1>11, <2>1
<1>13. Holds(Pushed(q, e), nx2, t)
  BY <1>1, <1>2, <1>9, <1>10, <1>12 DEF Holds
<1>. QED  BY <1>8, <1>13 DEF t, nx2

LEMMA HoldsType ==
  ASSUME NEW q, NEW nx, NEW s \in Seq(Elem), Holds(q, nx, s)
  PROVE  q.head \in Link /\ q.tail \in Link /\ q.cnt \in Nat
<1>1. Len(s) \in Nat /\ (s # <<>> => s[1] \in Elem /\ s[Len(s)] \in Elem)
  BY EmptyLen
<1>. QED  BY <1>1 DEF Holds, Link

LEMMA BlocksInElem ==
  ASSUME NEW s \in Seq(Elem)
  PROVE  Blocks(s) \subseteq Elem
BY DEF Blocks

LEMMA HoldsTail ==
  ASSUME NEW q, NEW nx, NEW s \in Seq(Elem), s # <<>>, Holds(q, nx, s)
  PROVE  /\ Blocks(Tail(s)) = Blocks(s) \ {q.head} /\ Tail(s) \in Seq(Elem)
         /\ q.head \in Blocks(s) /\ q.head \in Elem
         /\ Holds(Popped(q, nx), nx, Tail(s)) /\ Popped(q, nx) \in QueueType
<1>1. \A i, j \in 1 .. Len(s) : s[i] = s[j] => i = j
  BY DEF Holds
<1>2. q.head = Head(s) /\ Head(s) \in Elem
  BY HeldQueue
<1>3. /\ Blocks(Tail(s)) = Blocks(s) \ {Head(s)} /\ Tail(s) \in Seq(Elem)
      /\ Head(s) \in Blocks(s)
  BY <1>1, BlocksTail
<1>4. Holds(Popped(q, nx), nx, Tail(s))
  BY PoppedHolds
<1>5. /\ Popped(q, nx).head \in Link /\ Popped(q, nx).tail \in Link
      /\ Popped(q, nx).cnt \in Nat
  BY <1>3, <1>4, HoldsType
<1>6. Popped(q, nx) \in QueueType
  BY <1>5 DEF Popped, QueueType
<1>. QED  BY <1>2, <1>3, <1>4, <1>6

LEMMA AppendedType ==
  ASSUME NEW q \in QueueType, NEW e \in Elem
  PROVE  Appended(q, e) \in QueueType /\ Pushed(q, e) \in QueueType
BY DEF QueueType, Appended, Pushed, Link

------------------------------------------------------------------------------
(* The inductive invariant.  The named properties are inductive once every  *)
(* thread that is ready or running is known to have a tid: only then does   *)
(* cpu = 0 tell that no thread is running.                                  *)

Named == \A b \in Blocks(runs) \cup Current : block_tid[b] # 0

Inv == TypeOK /\ QueuesSound /\ OneHome /\ ContextMatches /\ Named

(* What th_alloc returns is in use nowhere. *)
LEMMA AllocFacts ==
  ASSUME Inv, NEW t \in Elem, Alloc(t)
  PROVE  /\ t \notin Blocks(runs) /\ t \notin Blocks(frees')
         /\ t \notin Current /\ t \notin Scheduler
         /\ frees' \in Seq(Elem) /\ freeq' \in QueueType
         /\ alloced' = Blocks(runs) \cup {t} \cup Blocks(frees') \cup Current \cup Scheduler
         /\ alloced' \subseteq Elem
         /\ Blocks(frees') \cap (Blocks(runs) \cup Current \cup Scheduler) = {}
         /\ Holds(freeq', next, frees')
<1>1. /\ frees \in Seq(Elem) /\ freeq \in QueueType /\ alloced \subseteq Elem
      /\ Holds(freeq, next, frees)
  BY DEF Inv, TypeOK, QueuesSound
<1>2. OneHome
  BY DEF Inv
<1>3. CASE IsEmpty(freeq)
  <2>1. t \notin alloced /\ alloced' = alloced \cup {t} /\ freeq' = freeq /\ frees' = frees
    BY <1>3 DEF Alloc
  <2>. QED  BY <1>1, <1>2, <2>1 DEF OneHome
<1>4. CASE ~IsEmpty(freeq)
  <2>1. t = freeq.head /\ freeq' = Popped(freeq, next) /\ frees' = Tail(frees) /\ alloced' = alloced
    BY <1>4 DEF Alloc
  <2>2. frees # <<>>
    BY <1>1, <1>4, HeldQueue
  <2>3. /\ Blocks(frees') = Blocks(frees) \ {t} /\ frees' \in Seq(Elem)
        /\ t \in Blocks(frees)
        /\ Holds(freeq', next, frees') /\ freeq' \in QueueType
    BY <1>1, <2>1, <2>2, HoldsTail
  <2>. QED  BY <1>1, <1>2, <2>1, <2>3 DEF OneHome
<1>. QED  BY <1>3, <1>4

LEMMA InitInv == Init => Inv
<1>. SUFFICES ASSUME Init PROVE Inv
  OBVIOUS
<1>1. /\ runs = <<>> /\ frees = <<>> /\ runs \in Seq(Elem) /\ frees \in Seq(Elem)
      /\ Len(runs) = 0 /\ Len(frees) = 0 /\ tid = 1 /\ cpu = 0
      /\ cur_thread = NULL /\ scheduler_thread = NULL /\ alloced = {}
      /\ runq = EmptyQueue /\ freeq = EmptyQueue
  BY DEF Init
<1>2. Blocks(runs) = {} /\ Blocks(frees) = {} /\ Current = {} /\ Scheduler = {}
  BY <1>1 DEF Blocks, Current, Scheduler
<1>3. TypeOK
  <2>1. EmptyQueue \in QueueType
    BY DEF EmptyQueue, QueueType, Link
  <2>2. next \in [Elem -> Link] /\ cur_thread \in Link /\ scheduler_thread \in Link
    BY DEF Init, Link
  <2>3. block_tid \in [Elem -> 0 .. tid - 1] /\ saved_sp \in [Elem -> Context] /\ cpu \in Context
    BY <1>1 DEF Init, Context
  <2>. QED  BY <1>1, <2>1, <2>2, <2>3 DEF TypeOK
<1>4. QueuesSound
  BY <1>1 DEF QueuesSound, Holds, EmptyQueue
<1>5. OneHome /\ ContextMatches /\ Named
  BY <1>1, <1>2 DEF OneHome, ContextMatches, Named
<1>. QED  BY <1>3, <1>4, <1>5 DEF Inv

LEMMA ForkInv == Inv /\ Fork => Inv'
<1>. SUFFICES ASSUME Inv, Fork PROVE Inv'
  OBVIOUS
<1>1. PICK t \in Elem :
        /\ Alloc(t)
        /\ block_tid' = [block_tid EXCEPT ![t] = tid]
        /\ saved_sp' = [saved_sp EXCEPT ![t] = tid]
        /\ next' = AppendLinks(runq, next, t)
        /\ runq' = Appended(runq, t)
        /\ runs' = Append(runs, t)
  BY DEF Fork, NewTid
<1>2. /\ tid' = tid + 1 /\ cur_thread' = cur_thread
      /\ scheduler_thread' = scheduler_thread /\ cpu' = cpu
  BY DEF Fork
<1>3. /\ tid \in Nat \ {0} /\ next \in [Elem -> Link]
      /\ block_tid \in [Elem -> 0 .. tid - 1] /\ saved_sp \in [Elem -> Context]
      /\ cpu \in Context /\ runq \in QueueType /\ cur_thread \in Link
      /\ scheduler_thread \in Link /\ runs \in Seq(Elem)
  BY DEF Inv, TypeOK
<1>4. /\ t \notin Blocks(runs) /\ t \notin Blocks(frees')
      /\ t \notin Current /\ t \notin Scheduler
      /\ frees' \in Seq(Elem) /\ freeq' \in QueueType
      /\ alloced' = Blocks(runs) \cup {t} \cup Blocks(frees') \cup Current \cup Scheduler
      /\ alloced' \subseteq Elem
      /\ Blocks(frees') \cap (Blocks(runs) \cup Current \cup Scheduler) = {}
      /\ Holds(freeq', next, frees')
  BY <1>1, AllocFacts
<1>5. Blocks(runs') = Blocks(runs) \cup {t} /\ runs' \in Seq(Elem)
  BY <1>1, <1>3, BlocksAppend
<1>6. Current' = Current /\ Scheduler' = Scheduler
  BY <1>2 DEF Current, Scheduler
<1>7. /\ Holds(runq', next', runs') /\ next' \in [Elem -> Link]
      /\ \A b \in Elem : b \notin Blocks(runs) /\ b # t => next'[b] = next[b]
  <2>1. Holds(runq, next, runs)
    BY DEF Inv, QueuesSound
  <2>2. /\ Holds(Appended(runq, t), AppendLinks(runq, next, t), Append(runs, t))
        /\ AppendLinks(runq, next, t) \in [Elem -> Link]
        /\ runq.tail # NULL => runq.tail \in Blocks(runs)
    <3>1. /\ next \in [Elem -> Link] /\ runs \in Seq(Elem) /\ t \in Elem
          /\ Holds(runq, next, runs) /\ t \notin Blocks(runs)
      BY <1>3, <1>4, <2>1
    <3>. QED  BY ONLY <3>1, AppendedHolds
  <2>3. ASSUME NEW b \in Elem, b \notin Blocks(runs), b # t
        PROVE  AppendLinks(runq, next, t)[b] = next[b]
    <3>1. b # runq.tail
      BY <2>2, <2>3, NullAssumption
    <3>. QED  BY <1>3, <2>3, <3>1, AppendLinksElsewhere
  <2>. QED  BY <1>1, <2>2, <2>3
<1>8. Holds(freeq', next', frees')
  <2>1. \A b \in Blocks(frees') : b \in Elem /\ b \notin Blocks(runs) /\ b # t
    BY <1>4, BlocksInElem
  <2>2. \A b \in Blocks(frees') : next'[b] = next[b]
    BY <1>7, <2>1
  <2>. QED  BY <1>4, <2>2, HoldsOther
<1>9. TypeOK'
  <2>1. tid' \in Nat \ {0} /\ tid \in 0 .. tid' - 1 /\ 0 .. tid - 1 \subseteq 0 .. tid' - 1
    BY <1>2, <1>3
  <2>2. block_tid' \in [Elem -> 0 .. tid' - 1]
    BY <1>1, <1>3, <2>1
  <2>3. Context \subseteq Context' /\ tid \in Context'
    BY <2>1 DEF Context
  <2>4. saved_sp' \in [Elem -> Context'] /\ cpu' \in Context'
    BY <1>1, <1>2, <1>3, <2>3
  <2>5. runq' \in QueueType
    BY <1>1, <1>3, AppendedType
  <2>. QED  BY <1>2, <1>3, <1>4, <1>5, <1>7, <2>1, <2>2, <2>4, <2>5 DEF TypeOK
<1>10. QueuesSound'
  BY <1>7, <1>8 DEF QueuesSound
<1>11. OneHome'
  <2>1. OneHome
    BY DEF Inv
  <2>. QED  BY <1>4, <1>5, <1>6, <2>1 DEF OneHome
<1>12. ContextMatches'
  <2>1. /\ cpu = IF cur_thread = NULL THEN 0 ELSE block_tid[cur_thread]
        /\ \A b \in Blocks(runs) : saved_sp[b] = block_tid[b]
        /\ cpu # 0 => scheduler_thread # NULL /\ saved_sp[scheduler_thread] = 0
    BY DEF Inv, ContextMatches
  <2>2. \A b \in Elem : b # t => block_tid'[b] = block_tid[b] /\ saved_sp'[b] = saved_sp[b]
    BY <1>1, <1>3
  <2>3. cur_thread # NULL => cur_thread # t /\ cur_thread \in Elem
    BY <1>3, <1>4 DEF Current, Link
  <2>4. scheduler_thread # NULL => scheduler_thread # t /\ scheduler_thread \in Elem
    BY <1>3, <1>4 DEF Scheduler, Link
  <2>5. saved_sp'[t] = tid /\ block_tid'[t] = tid
    BY <1>1, <1>3
  <2>6. \A b \in Blocks(runs') : saved_sp'[b] = block_tid'[b]
    <3>1. \A b \in Blocks(runs) : b \in Elem /\ b # t
      BY <1>3, <1>4, BlocksInElem
    <3>. QED  BY <1>5, <2>1, <2>2, <2>5, <3>1
  <2>7. cpu' = IF cur_thread' = NULL THEN 0 ELSE block_tid'[cur_thread']
    BY <1>2, <2>1, <2>2, <2>3
  <2>8. cpu' # 0 => scheduler_thread' # NULL /\ saved_sp'[scheduler_thread'] = 0
    BY <1>2, <2>1, <2>2, <2>4
  <2>. QED  BY <2>6, <2>7, <2>8 DEF ContextMatches
<1>13. Named'
  <2>1. \A b \in Blocks(runs) \cup Current : b \in Elem /\ b # t /\ block_tid[b] # 0
    BY <1>3, <1>4, BlocksInElem DEF Inv, Named, Current, Link
  <2>2. block_tid'[t] # 0 /\ \A b \in Elem : b # t => block_tid'[b] = block_tid[b]
    BY <1>1, <1>3
  <2>. QED  BY <1>5, <1>6, <2>1, <2>2 DEF Named
<1>. QED  BY <1>9, <1>10, <1>11, <1>12, <1>13 DEF Inv

LEMMA StartInv == Inv /\ Start => Inv'
<1>. SUFFICES ASSUME Inv, Start PROVE Inv'
  OBVIOUS
<1>1. PICK s \in Elem \cup {scheduler_thread} :
        /\ \/ /\ scheduler_thread = NULL /\ s \in Elem
              /\ Alloc(s)
              /\ block_tid' = [block_tid EXCEPT ![s] = tid]
              /\ tid' = tid + 1
           \/ /\ scheduler_thread # NULL /\ s = scheduler_thread
              /\ UNCHANGED <<freeq, frees, alloced, block_tid, tid>>
        /\ scheduler_thread' = s
        /\ Switch(s, runq.head)
  BY DEF Start, NeedsScheduler, NewTid
<1>2. /\ cpu = 0 /\ ~IsEmpty(runq)
      /\ cur_thread' = runq.head /\ runq' = Popped(runq, next)
      /\ runs' = Tail(runs) /\ next' = next
  BY DEF Start
<1>3. /\ tid \in Nat \ {0} /\ next \in [Elem -> Link]
      /\ block_tid \in [Elem -> 0 .. tid - 1] /\ saved_sp \in [Elem -> Context]
      /\ cpu \in Context /\ cur_thread \in Link
      /\ scheduler_thread \in Link /\ runs \in Seq(Elem)
      /\ freeq \in QueueType /\ frees \in Seq(Elem) /\ alloced \subseteq Elem
  BY DEF Inv, TypeOK
<1>4. Holds(runq, next, runs) /\ Holds(freeq, next, frees)
  BY DEF Inv, QueuesSound
<1>5. /\ runs # <<>> /\ runs' \in Seq(Elem)
      /\ Blocks(runs') = Blocks(runs) \ {cur_thread'}
      /\ cur_thread' \in Blocks(runs) /\ cur_thread' \in Elem
      /\ Holds(runq', next', runs') /\ runq' \in QueueType
  <2>1. runs # <<>>
    BY <1>2, <1>3, <1>4, HeldQueue
  <2>. QED  BY <1>2, <1>3, <1>4, <2>1, HoldsTail
<1>6. /\ cpu = IF cur_thread = NULL THEN 0 ELSE block_tid[cur_thread]
      /\ \A b \in Blocks(runs) : saved_sp[b] = block_tid[b]
  BY DEF Inv, ContextMatches
<1>7. cur_thread = NULL /\ Current = {}
  <2>1. cur_thread # NULL => block_tid[cur_thread] # 0
    BY DEF Inv, Named, Current
  <2>2. cur_thread = NULL
    BY <1>2, <1>6, <2>1
  <2>. QED  BY <2>2 DEF Current
<1>8. OneHome
  BY DEF Inv
<1>9. /\ s \in Elem /\ s # NULL /\ s \notin Blocks(runs) /\ s \notin Blocks(frees')
      /\ frees' \in Seq(Elem) /\ freeq' \in QueueType
      /\ alloced' = Blocks(runs) \cup Blocks(frees') \cup {s}
      /\ alloced' \subseteq Elem
      /\ Blocks(frees') \cap Blocks(runs) = {}
      /\ Holds(freeq', next, frees')
  <2>1. CASE scheduler_thread = NULL
    <3>1. s \in Elem /\ Alloc(s) /\ Scheduler = {}
      BY <1>1, <2>1 DEF Scheduler
    <3>2. s \notin Blocks(runs) /\ s \notin Blocks(frees')
          /\ frees' \in Seq(Elem) /\ freeq' \in QueueType
          /\ alloced' = Blocks(runs) \cup {s} \cup Blocks(frees') \cup Current \cup Scheduler
          /\ alloced' \subseteq Elem
          /\ Blocks(frees') \cap (Blocks(runs) \cup Current \cup Scheduler) = {}
          /\ Holds(freeq', next, frees')
      BY <3>1, AllocFacts
    <3>. QED  BY <1>7, <3>1, <3>2, NullAssumption
  <2>2. CASE scheduler_thread # NULL
    <3>1. s = scheduler_thread /\ freeq' = freeq /\ frees' = frees /\ alloced' = alloced
      BY <1>1, <2>2
    <3>2. s \in Elem /\ Scheduler = {s}
      BY <1>3, <2>2, <3>1 DEF Link, Scheduler
    <3>. QED  BY <1>3, <1>4, <1>7, <1>8, <2>2, <3>1, <3>2 DEF OneHome
  <2>. QED  BY <2>1, <2>2
<1>10. /\ scheduler_thread' = s /\ Scheduler' = {s} /\ Current' = {cur_thread'}
       /\ s # cur_thread' /\ cur_thread' # NULL
  BY <1>1, <1>5, <1>9, NullAssumption DEF Scheduler, Current
<1>11. /\ cpu' = saved_sp[cur_thread']
       /\ saved_sp' = [saved_sp EXCEPT ![cur_thread'] = Stale, ![s] = 0]
  BY <1>1, <1>2 DEF Switch
<1>12. /\ tid' \in Nat \ {0} /\ 0 .. tid - 1 \subseteq 0 .. tid' - 1
       /\ block_tid' \in [Elem -> 0 .. tid' - 1]
       /\ \A b \in Elem : b # s => block_tid'[b] = block_tid[b]
  <2>1. CASE scheduler_thread = NULL
    <3>1. tid' = tid + 1 /\ block_tid' = [block_tid EXCEPT ![s] = tid]
      BY <1>1, <2>1
    <3>2. /\ tid' \in Nat \ {0} /\ 0 .. tid - 1 \subseteq 0 .. tid' - 1
          /\ tid \in 0 .. tid' - 1
      BY <1>3, <3>1
    <3>. QED  BY <1>3, <1>9, <3>1, <3>2
  <2>2. CASE scheduler_thread # NULL
    <3>1. tid' = tid /\ block_tid' = block_tid
      BY <1>1, <2>2
    <3>. QED  BY <1>3, <3>1
  <2>. QED  BY <2>1, <2>2
<1>13. TypeOK'
  <2>1. Context \subseteq Context' /\ Stale \in Context' /\ 0 \in Context'
    <3>1. tid' \in Nat \ {0}
      BY <1>12
    <3>2. 0 \in 0 .. tid' - 1
      <4>1. \A n \in Nat \ {0} : 0 \in 0 .. n - 1
        OBVIOUS
      <4>. QED  BY ONLY <3>1, <4>1
    <3>. QED  BY <1>12, <3>2 DEF Context
  <2>2. saved_sp' \in [Elem -> Context'] /\ cpu' \in Context'
    BY <1>3, <1>5, <1>9, <1>11, <2>1
  <2>. QED  BY <1>2, <1>3, <1>5, <1>9, <1>10, <1>12, <2>2 DEF TypeOK, Link
<1>14. QueuesSound'
  BY <1>2, <1>5, <1>9 DEF QueuesSound
<1>15. OneHome'
  BY <1>5, <1>9, <1>10 DEF OneHome
<1>16. ContextMatches'
  <2>1. cpu' = block_tid'[cur_thread']
    BY <1>5, <1>6, <1>10, <1>11, <1>12
  <2>2. saved_sp'[s] = 0
    BY <1>3, <1>9, <1>11
  <2>3. \A b \in Blocks(runs') : saved_sp'[b] = block_tid'[b]
    <3>1. TAKE b \in Blocks(runs')
    <3>2. b \in Elem /\ b \in Blocks(runs) /\ b # cur_thread' /\ b # s
      BY <1>3, <1>5, <1>9, BlocksInElem
    <3>. QED  BY <1>3, <1>6, <1>11, <1>12, <3>2
  <2>. QED  BY <1>9, <1>10, <2>1, <2>2, <2>3 DEF ContextMatches
<1>17. Named'
  <2>1. \A b \in Blocks(runs) : block_tid[b] # 0 /\ b \in Elem /\ b # s
    BY <1>3, <1>9, BlocksInElem DEF Inv, Named
  <2>. QED  BY <1>5, <1>10, <1>12, <2>1 DEF Named
<1>. QED  BY <1>13, <1>14, <1>15, <1>16, <1>17 DEF Inv

(* A running thread has a block, and the scheduler another. *)
LEMMA RunningFacts ==
  ASSUME Inv, cpu # 0
  PROVE  /\ cur_thread \in Elem /\ scheduler_thread \in Elem
         /\ cur_thread # scheduler_thread
         /\ Current = {cur_thread} /\ Scheduler = {scheduler_thread}
         /\ cur_thread \notin Blocks(runs) /\ cur_thread \notin Blocks(frees)
         /\ scheduler_thread \notin Blocks(runs) /\ scheduler_thread \notin Blocks(frees)
         /\ cpu = block_tid[cur_thread] /\ saved_sp[scheduler_thread] = 0
         /\ block_tid[cur_thread] # 0
<1>1. /\ cpu = IF cur_thread = NULL THEN 0 ELSE block_tid[cur_thread]
      /\ cpu # 0 => scheduler_thread # NULL /\ saved_sp[scheduler_thread] = 0
  BY DEF Inv, ContextMatches
<1>2. cur_thread \in Link /\ scheduler_thread \in Link
  BY DEF Inv, TypeOK
<1>3. cur_thread \in Elem /\ scheduler_thread \in Elem
      /\ cur_thread # NULL /\ scheduler_thread # NULL
  BY <1>1, <1>2 DEF Link
<1>4. Current = {cur_thread} /\ Scheduler = {scheduler_thread}
  BY <1>3 DEF Current, Scheduler
<1>5. OneHome
  BY DEF Inv
<1>6. block_tid[cur_thread] # 0
  BY <1>4 DEF Inv, Named
<1>. QED  BY <1>1, <1>3, <1>4, <1>5, <1>6 DEF OneHome

LEMMA YieldInv == Inv /\ Yield => Inv'
<1>. SUFFICES ASSUME Inv, Yield PROVE Inv'
  OBVIOUS
<1>. DEFINE q == Appended(runq, cur_thread)
<1>. DEFINE nx == AppendLinks(runq, next, cur_thread)
<1>. DEFINE r == Append(runs, cur_thread)
<1>1. /\ cpu # 0 /\ ~IsEmpty(runq)
      /\ next' = nx /\ cur_thread' = q.head /\ runq' = Popped(q, nx)
      /\ Switch(cur_thread, q.head)
      /\ runs' = Append(Tail(runs), cur_thread)
      /\ UNCHANGED <<block_tid, freeq, scheduler_thread, tid, alloced, frees>>
  BY DEF Yield
<1>2. /\ tid \in Nat \ {0} /\ next \in [Elem -> Link]
      /\ block_tid \in [Elem -> 0 .. tid - 1] /\ saved_sp \in [Elem -> Context]
      /\ cpu \in Context /\ cur_thread \in Link
      /\ scheduler_thread \in Link /\ runs \in Seq(Elem) /\ runq \in QueueType
      /\ freeq \in QueueType /\ frees \in Seq(Elem) /\ alloced \subseteq Elem
  BY DEF Inv, TypeOK
<1>3. Holds(runq, next, runs) /\ Holds(freeq, next, frees)
  BY DEF Inv, QueuesSound
<1>4. /\ cur_thread \in Elem /\ scheduler_thread \in Elem
      /\ cur_thread # scheduler_thread
      /\ Current = {cur_thread} /\ Scheduler = {scheduler_thread}
      /\ cur_thread \notin Blocks(runs) /\ cur_thread \notin Blocks(frees)
      /\ scheduler_thread \notin Blocks(runs) /\ scheduler_thread \notin Blocks(frees)
      /\ cpu = block_tid[cur_thread] /\ saved_sp[scheduler_thread] = 0
      /\ block_tid[cur_thread] # 0
  BY <1>1, RunningFacts
<1>5. runs # <<>>
  BY <1>1, <1>2, <1>3, HeldQueue
<1>6. /\ Holds(q, nx, r) /\ nx \in [Elem -> Link]
      /\ \A b \in Elem : b \notin Blocks(runs) /\ b # cur_thread => nx[b] = next[b]
  <2>1. /\ next \in [Elem -> Link] /\ runs \in Seq(Elem) /\ cur_thread \in Elem
        /\ Holds(runq, next, runs) /\ cur_thread \notin Blocks(runs)
    BY <1>2, <1>3, <1>4
  <2>2. /\ Holds(Appended(runq, cur_thread), AppendLinks(runq, next, cur_thread),
                 Append(runs, cur_thread))
        /\ AppendLinks(runq, next, cur_thread) \in [Elem -> Link]
        /\ runq.tail # NULL => runq.tail \in Blocks(runs)
    BY ONLY <2>1, AppendedHolds
  <2>3. ASSUME NEW b \in Elem, b \notin Blocks(runs), b # cur_thread
        PROVE  AppendLinks(runq, next, cur_thread)[b] = next[b]
    <3>1. b # runq.tail
      BY <2>2, <2>3, NullAssumption
    <3>. QED  BY <1>2, <2>3, <3>1, AppendLinksElsewhere
  <2>. QED  BY <2>2, <2>3
<1>7. /\ r \in Seq(Elem) /\ r # <<>> /\ Blocks(r) = Blocks(runs) \cup {cur_thread}
      /\ Tail(r) = Append(Tail(runs), cur_thread) /\ Head(r) = Head(runs)
  <2>1. r \in Seq(Elem) /\ Blocks(r) = Blocks(runs) \cup {cur_thread}
    BY <1>2, <1>4, BlocksAppend
  <2>2. r # <<>> /\ Tail(r) = Append(Tail(runs), cur_thread) /\ Head(r) = Head(runs)
    BY <1>2, <1>4, <1>5, HeadOfAppend
  <2>. QED  BY <2>1, <2>2
<1>8. /\ Blocks(runs') = (Blocks(runs) \cup {cur_thread}) \ {cur_thread'}
      /\ runs' \in Seq(Elem) /\ cur_thread' \in Elem
      /\ Holds(runq', next', runs') /\ runq' \in QueueType
  <2>1. /\ Blocks(Tail(r)) = Blocks(r) \ {q.head} /\ Tail(r) \in Seq(Elem)
        /\ q.head \in Elem
        /\ Holds(Popped(q, nx), nx, Tail(r)) /\ Popped(q, nx) \in QueueType
    <3>1. r \in Seq(Elem) /\ r # <<>> /\ Holds(q, nx, r)
      BY <1>6, <1>7
    <3>. HIDE DEF r, q, nx
    <3>. QED  BY ONLY <3>1, HoldsTail
  <2>. QED  BY <1>1, <1>7, <2>1
<1>9. cur_thread' \in Blocks(runs) /\ cur_thread' # cur_thread
      /\ cur_thread' # scheduler_thread
  <2>1. runq.head \in Blocks(runs) /\ runq.tail # NULL
    BY <1>2, <1>3, <1>5, HeldQueue
  <2>2. q.head = runq.head
    BY <2>1 DEF Appended
  <2>. QED  BY <1>1, <1>4, <2>1, <2>2
<1>. HIDE DEF q, nx, r
<1>10. Holds(freeq', next', frees')
  <2>1. Blocks(frees) \cap Blocks(runs) = {}
    BY DEF Inv, OneHome
  <2>2. \A b \in Blocks(frees) : b \in Elem /\ b \notin Blocks(runs) /\ b # cur_thread
    BY <1>2, <1>4, <2>1, BlocksInElem
  <2>3. \A b \in Blocks(frees) : next'[b] = next[b]
    BY <1>1, <1>6, <2>2
  <2>4. Holds(freeq, next', frees)
    BY <1>2, <1>3, <2>3, HoldsOther
  <2>. QED  BY <1>1, <2>4
<1>11. Current' = {cur_thread'} /\ Scheduler' = {scheduler_thread} /\ cur_thread' # NULL
  BY <1>1, <1>4, <1>8, NullAssumption DEF Current, Scheduler
<1>12. /\ cpu' = saved_sp[cur_thread']
       /\ saved_sp' = [saved_sp EXCEPT ![cur_thread'] = Stale, ![cur_thread] = cpu]
  BY <1>1 DEF Switch
<1>13. TypeOK'
  <2>1. Context' = Context /\ Stale \in Context
    BY <1>1 DEF Context
  <2>2. saved_sp' \in [Elem -> Context'] /\ cpu' \in Context'
    BY <1>2, <1>4, <1>8, <1>12, <2>1
  <2>. QED  BY <1>1, <1>2, <1>6, <1>8, <2>2 DEF TypeOK, Link
<1>14. QueuesSound'
  BY <1>8, <1>10 DEF QueuesSound
<1>15. OneHome'
  <2>1. OneHome
    BY DEF Inv
  <2>2. alloced' = alloced /\ frees' = frees
    BY <1>1
  <2>. QED  BY <1>4, <1>8, <1>9, <1>11, <2>1, <2>2 DEF OneHome
<1>16. ContextMatches'
  <2>1. \A b \in Blocks(runs) : saved_sp[b] = block_tid[b]
    BY DEF Inv, ContextMatches
  <2>2. cpu' = block_tid'[cur_thread']
    BY <1>1, <1>9, <1>12, <2>1
  <2>3. saved_sp'[scheduler_thread] = 0
    BY <1>2, <1>4, <1>9, <1>12
  <2>4. \A b \in Blocks(runs') : saved_sp'[b] = block_tid'[b]
    <3>1. TAKE b \in Blocks(runs')
    <3>2. b \in Elem /\ b # cur_thread' /\ (b \in Blocks(runs) \/ b = cur_thread)
      BY <1>8, BlocksInElem
    <3>. QED  BY <1>1, <1>2, <1>4, <1>12, <2>1, <3>2
  <2>5. scheduler_thread' = scheduler_thread /\ scheduler_thread # NULL
    BY <1>1, <1>4, NullAssumption
  <2>. QED  BY <1>11, <2>2, <2>3, <2>4, <2>5 DEF ContextMatches
<1>17. Named'
  <2>1. \A b \in Blocks(runs) \cup {cur_thread} : block_tid[b] # 0
    BY <1>4 DEF Inv, Named
  <2>. QED  BY <1>1, <1>8, <1>9, <1>11, <2>1 DEF Named
<1>. QED  BY <1>13, <1>14, <1>15, <1>16, <1>17 DEF Inv

LEMMA ExitInv == Inv /\ Exit => Inv'
<1>. SUFFICES ASSUME Inv, Exit PROVE Inv'
  OBVIOUS
<1>1. /\ cpu # 0
      /\ next' = PushLinks(freeq, next, cur_thread)
      /\ freeq' = Pushed(freeq, cur_thread)
      /\ frees' = <<cur_thread>> \o frees
      /\ UNCHANGED <<block_tid, scheduler_thread, tid, alloced>>
  BY DEF Exit
<1>2. /\ tid \in Nat \ {0} /\ next \in [Elem -> Link]
      /\ block_tid \in [Elem -> 0 .. tid - 1] /\ saved_sp \in [Elem -> Context]
      /\ cpu \in Context /\ cur_thread \in Link
      /\ scheduler_thread \in Link /\ runs \in Seq(Elem) /\ runq \in QueueType
      /\ freeq \in QueueType /\ frees \in Seq(Elem) /\ alloced \subseteq Elem
  BY DEF Inv, TypeOK
<1>3. Holds(runq, next, runs) /\ Holds(freeq, next, frees)
  BY DEF Inv, QueuesSound
<1>4. /\ cur_thread \in Elem /\ scheduler_thread \in Elem
      /\ cur_thread # scheduler_thread
      /\ Current = {cur_thread} /\ Scheduler = {scheduler_thread}
      /\ cur_thread \notin Blocks(runs) /\ cur_thread \notin Blocks(frees)
      /\ scheduler_thread \notin Blocks(runs) /\ scheduler_thread \notin Blocks(frees)
      /\ cpu = block_tid[cur_thread] /\ saved_sp[scheduler_thread] = 0
      /\ block_tid[cur_thread] # 0
  BY <1>1, RunningFacts
<1>5. /\ Holds(freeq', next', frees') /\ next' \in [Elem -> Link]
      /\ \A b \in Elem : b # cur_thread => next'[b] = next[b]
  <2>1. /\ next \in [Elem -> Link] /\ frees \in Seq(Elem) /\ cur_thread \in Elem
        /\ Holds(freeq, next, frees) /\ cur_thread \notin Blocks(frees)
    BY <1>2, <1>3, <1>4
  <2>2. /\ Holds(Pushed(freeq, cur_thread), PushLinks(freeq, next, cur_thread),
                 <<cur_thread>> \o frees)
        /\ PushLinks(freeq, next, cur_thread) \in [Elem -> Link]
    BY ONLY <2>1, PushedHolds
  <2>3. \A b \in Elem : b # cur_thread => PushLinks(freeq, next, cur_thread)[b] = next[b]
    BY <1>2 DEF PushLinks
  <2>. QED  BY <1>1, <2>2, <2>3
<1>6. /\ Blocks(frees') = Blocks(frees) \cup {cur_thread} /\ frees' \in Seq(Elem)
      /\ freeq' \in QueueType
  BY <1>1, <1>2, <1>4, BlocksPush, AppendedType
<1>7. \A b \in Blocks(runs) : b \in Elem /\ b # cur_thread /\ b # scheduler_thread
  BY <1>2, <1>4, BlocksInElem
<1>8. Holds(runq, next', runs)
  <2>1. \A b \in Blocks(runs) : next'[b] = next[b]
    BY <1>5, <1>7
  <2>. QED  BY <1>2, <1>3, <2>1, HoldsOther
<1>9. /\ OneHome /\ \A b \in Blocks(runs) : saved_sp[b] = block_tid[b] /\ block_tid[b] # 0
  BY DEF Inv, ContextMatches, Named
<1>10. Context' = Context /\ Stale \in Context /\ Scheduler' = Scheduler
  BY <1>1 DEF Context, Scheduler
<1>11. scheduler_thread # NULL
  BY <1>4, NullAssumption
<1>12. CASE IsEmpty(runq)
  <2>1. /\ cur_thread' = NULL /\ runq' = runq /\ runs' = runs
        /\ cpu' = 0
        /\ saved_sp' = [saved_sp EXCEPT ![scheduler_thread] = Stale, ![cur_thread] = cpu]
    BY <1>4, <1>12 DEF Exit, Switch
  <2>2. Blocks(runs') = {} /\ Current' = {}
    <3>1. runs = <<>> /\ Len(runs) = 0
      BY <1>2, <1>3, <1>12, HeldQueue
    <3>. QED  BY <2>1, <3>1 DEF Blocks, Current
  <2>3. TypeOK'
    <3>1. saved_sp' \in [Elem -> Context'] /\ cpu' \in Context'
      <4>1. 0 \in Context
        BY <1>2, <1>4 DEF Context
      <4>. QED  BY <1>2, <1>4, <1>10, <2>1, <4>1
    <3>. QED  BY <1>1, <1>2, <1>5, <1>6, <2>1, <3>1 DEF TypeOK, Link
  <2>4. QueuesSound'
    BY <1>5, <1>8, <2>1 DEF QueuesSound
  <2>5. OneHome'
    BY <1>1, <1>4, <1>6, <1>9, <1>10, <2>1, <2>2 DEF OneHome
  <2>6. ContextMatches' /\ Named'
    BY <2>1, <2>2 DEF ContextMatches, Named
  <2>. QED  BY <2>3, <2>4, <2>5, <2>6 DEF Inv
<1>13. CASE ~IsEmpty(runq)
  <2>1. /\ cur_thread' = runq.head /\ runq' = Popped(runq, next) /\ runs' = Tail(runs)
        /\ cpu' = saved_sp[runq.head]
        /\ saved_sp' = [saved_sp EXCEPT ![runq.head] = Stale, ![cur_thread] = cpu]
    BY <1>13 DEF Exit, Switch
  <2>2. runs # <<>>
    BY <1>2, <1>3, <1>13, HeldQueue
  <2>3. /\ Blocks(Tail(runs)) = Blocks(runs) \ {runq.head} /\ Tail(runs) \in Seq(Elem)
        /\ runq.head \in Blocks(runs) /\ runq.head \in Elem
        /\ Holds(Popped(runq, next'), next', Tail(runs))
        /\ Popped(runq, next') \in QueueType
    BY <1>2, <1>8, <2>2, HoldsTail
  <2>4. Popped(runq, next') = Popped(runq, next)
    BY <1>5, <1>7, <2>3 DEF Popped
  <2>5. Current' = {cur_thread'} /\ cur_thread' # NULL
    BY <2>1, <2>3, NullAssumption DEF Current
  <2>6. TypeOK'
    <3>1. saved_sp' \in [Elem -> Context'] /\ cpu' \in Context'
      BY <1>2, <1>4, <1>10, <2>1, <2>3
    <3>. QED  BY <1>1, <1>2, <1>5, <1>6, <2>1, <2>3, <2>4, <3>1 DEF TypeOK, Link
  <2>7. QueuesSound'
    BY <1>5, <2>1, <2>3, <2>4 DEF QueuesSound
  <2>8. OneHome'
    BY <1>1, <1>4, <1>6, <1>7, <1>9, <1>10, <2>1, <2>3, <2>5 DEF OneHome
  <2>9. ContextMatches'
    <3>1. cpu' = block_tid'[cur_thread']
      BY <1>1, <1>9, <2>1, <2>3
    <3>2. saved_sp'[scheduler_thread] = 0
      BY <1>2, <1>4, <1>7, <2>1, <2>3
    <3>3. \A b \in Blocks(runs') : saved_sp'[b] = block_tid'[b]
      <4>1. TAKE b \in Blocks(runs')
      <4>2. b \in Blocks(runs) /\ b \in Elem /\ b # runq.head /\ b # cur_thread
        BY <1>7, <2>1, <2>3
      <4>. QED  BY <1>1, <1>2, <1>9, <2>1, <4>2
    <3>. QED  BY <1>1, <1>11, <2>5, <3>1, <3>2, <3>3 DEF ContextMatches
  <2>10. Named'
    BY <1>1, <1>9, <2>1, <2>3, <2>5 DEF Named
  <2>. QED  BY <2>6, <2>7, <2>8, <2>9, <2>10 DEF Inv
<1>. QED  BY <1>12, <1>13

LEMMA StutterInv == Inv /\ UNCHANGED vars => Inv'
<1>. SUFFICES ASSUME Inv, UNCHANGED vars PROVE Inv'
  OBVIOUS
<1>1. TypeOK'
  BY DEF vars, Inv, TypeOK, Context
<1>2. QueuesSound'
  BY DEF vars, Inv, QueuesSound
<1>3. Current' = Current /\ Scheduler' = Scheduler
  BY DEF vars, Current, Scheduler
<1>4. OneHome'
  BY <1>3 DEF vars, Inv, OneHome
<1>5. ContextMatches' /\ Named'
  BY <1>3 DEF vars, Inv, ContextMatches, Named
<1>. QED  BY <1>1, <1>2, <1>4, <1>5 DEF Inv

THEOREM Invariance == Spec => []Inv
<1>1. Inv /\ [Next]_vars => Inv'
  BY ForkInv, StartInv, YieldInv, ExitInv, StutterInv DEF Next
<1>. QED  BY InitInv, <1>1, PTL DEF Spec

------------------------------------------------------------------------------
(* Every field of every block, both queues and the two globals of           *)
(* rpi-thread.c keep their types in every order of calls.                   *)
THEOREM ThreadsTypeCorrect == Spec => []TypeOK
<1>1. Inv => TypeOK
  BY DEF Inv
<1>. QED  BY Invariance, <1>1, PTL

(* Q_append, Q_push and Q_pop of Q.h on the run queue and on the free queue, *)
(* which share the links of the blocks, never damage either.                *)
THEOREM QueuesStayWhole == Spec => []QueuesSound
<1>1. Inv => QueuesSound
  BY DEF Inv
<1>. QED  BY Invariance, <1>1, PTL

(* No block that th_alloc hands out is lost, or in two places at once.      *)
THEOREM BlocksHaveOneHome == Spec => []OneHome
<1>1. Inv => OneHome
  BY DEF Inv
<1>. QED  BY Invariance, <1>1, PTL

(* rpi_cur_thread names the running thread, and every switch resumes the    *)
(* latest context of the thread it switches to.                             *)
THEOREM ContextsAreLatest == Spec => []ContextMatches
<1>1. Inv => ContextMatches
  BY DEF Inv
<1>. QED  BY Invariance, <1>1, PTL

------------------------------------------------------------------------------
(* The refinement: fork, start, yield and exit of rpi-thread.c are the      *)
(* steps of a round-robin scheduler.                                        *)

Ready == [i \in 1 .. Len(runs) |-> block_tid[runs[i]]]
Spawned == {t \in 1 .. tid - 1 : \A b \in Scheduler : t # block_tid[b]}

(* The tids of a list of blocks, from the list of blocks. *)
TidsOf(s, f) == [i \in 1 .. Len(s) |-> f[s[i]]]

LEMMA TidsAppend ==
  ASSUME NEW s \in Seq(Elem), NEW e \in Elem, NEW f, NEW g,
         \A b \in Blocks(s) : g[b] = f[b]
  PROVE  TidsOf(Append(s, e), g) = Append(TidsOf(s, f), g[e])
<1>1. /\ Len(s) \in Nat /\ Len(Append(s, e)) = Len(s) + 1
      /\ \A i \in 1 .. Len(s) : Append(s, e)[i] = s[i]
      /\ Append(s, e)[Len(s) + 1] = e
  OBVIOUS
<1>2. \A i \in 1 .. Len(s) : g[s[i]] = f[s[i]]
  BY DEF Blocks
<1>. DEFINE S == {f[s[i]] : i \in 1 .. Len(s)}
<1>3. TidsOf(s, f) \in Seq(S) /\ Len(TidsOf(s, f)) = Len(s)
  BY <1>1 DEF TidsOf
<1>. DEFINE a == TidsOf(Append(s, e), g)
<1>. DEFINE c == Append(TidsOf(s, f), g[e])
<1>4. a = [i \in 1 .. Len(s) + 1 |-> g[Append(s, e)[i]]]
  BY <1>1 DEF TidsOf
<1>5. c = [i \in 1 .. Len(s) + 1 |-> IF i = Len(s) + 1 THEN g[e] ELSE f[s[i]]]
  BY <1>1, <1>3 DEF TidsOf
<1>6. \A i \in 1 .. Len(s) + 1 :
         g[Append(s, e)[i]] = IF i = Len(s) + 1 THEN g[e] ELSE f[s[i]]
  BY <1>1, <1>2
<1>. HIDE DEF a, c
<1>7. a = c
  BY <1>4, <1>5, <1>6
<1>. QED  BY <1>7 DEF a, c

LEMMA TidsTail ==
  ASSUME NEW s \in Seq(Elem), s # <<>>, NEW f
  PROVE  /\ TidsOf(s, f) # <<>> /\ Head(TidsOf(s, f)) = f[Head(s)]
         /\ TidsOf(Tail(s), f) = Tail(TidsOf(s, f))
<1>1. /\ Len(s) \in Nat \ {0} /\ Len(Tail(s)) = Len(s) - 1 /\ Head(s) = s[1]
      /\ \A i \in 1 .. Len(s) - 1 : Tail(s)[i] = s[i + 1]
  OBVIOUS
<1>. DEFINE S == {f[s[i]] : i \in 1 .. Len(s)}
<1>. DEFINE a == TidsOf(s, f)
<1>2. /\ a \in Seq(S) /\ Len(a) = Len(s)
      /\ \A i \in 1 .. Len(s) : a[i] = f[s[i]]
  BY <1>1 DEF TidsOf
<1>. DEFINE b == TidsOf(Tail(s), f)
<1>3. /\ b \in Seq(S) /\ Len(b) = Len(s) - 1
      /\ \A i \in 1 .. Len(s) - 1 : b[i] = f[s[i + 1]]
  <2>1. b = [i \in 1 .. Len(s) - 1 |-> f[s[i + 1]]]
    BY <1>1 DEF TidsOf
  <2>2. \A i \in 1 .. Len(s) - 1 : f[s[i + 1]] \in S
    BY <1>1
  <2>. HIDE DEF b, S
  <2>. QED  BY <1>1, <2>1, <2>2
<1>. HIDE DEF a, b, S
<1>4. a # <<>> /\ Head(a) = a[1]
  BY <1>1, <1>2
<1>5. /\ Tail(a) \in Seq(S) /\ Len(Tail(a)) = Len(s) - 1
      /\ \A i \in 1 .. Len(s) - 1 : Tail(a)[i] = a[i + 1]
  BY <1>2, <1>4
<1>6. ASSUME NEW i \in 1 .. Len(s) - 1 PROVE b[i] = Tail(a)[i]
  <2>1. i + 1 \in 1 .. Len(s)
    BY <1>1
  <2>2. b[i] = f[s[i + 1]] /\ a[i + 1] = f[s[i + 1]]
    BY <1>2, <1>3, <2>1
  <2>3. Tail(a)[i] = a[i + 1]
    BY <1>5
  <2>. QED  BY <2>2, <2>3
<1>7. b = Tail(a)
  BY <1>3, <1>5, <1>6, SeqEqual
<1>8. Head(a) = f[Head(s)]
  BY <1>1, <1>2, <1>4
<1>. QED  BY <1>4, <1>7, <1>8 DEF a, b

LEMMA TidsEmpty == \A s, f : s = <<>> => TidsOf(s, f) = <<>>
BY DEF TidsOf

LEMMA ReadyIsTids == Ready = TidsOf(runs, block_tid)
BY DEF Ready, TidsOf

LEMMA ForkRefines == Inv /\ Fork => \E t \in 1 .. MaxTid : Abstract!RRFork(t)
<1>. SUFFICES ASSUME Inv, Fork PROVE \E t \in 1 .. MaxTid : Abstract!RRFork(t)
  OBVIOUS
<1>1. PICK t \in Elem :
        /\ Alloc(t)
        /\ block_tid' = [block_tid EXCEPT ![t] = tid]
        /\ runs' = Append(runs, t)
  BY DEF Fork, NewTid
<1>2. /\ tid \in Nat \ {0} /\ block_tid \in [Elem -> 0 .. tid - 1]
      /\ runs \in Seq(Elem) /\ scheduler_thread \in Link
  BY DEF Inv, TypeOK
<1>3. /\ tid <= MaxTid /\ tid' = tid + 1 /\ cpu' = cpu
      /\ scheduler_thread' = scheduler_thread
  BY DEF Fork
<1>4. t \notin Blocks(runs) /\ t \notin Scheduler
  BY <1>1, AllocFacts
<1>5. block_tid'[t] = tid /\ \A b \in Elem : b # t => block_tid'[b] = block_tid[b]
  BY <1>1, <1>2
<1>6. TidsOf(runs', block_tid') = Append(TidsOf(runs, block_tid), tid)
  <2>1. \A b \in Blocks(runs) : block_tid'[b] = block_tid[b]
    BY <1>2, <1>4, <1>5, BlocksInElem
  <2>2. TidsOf(Append(runs, t), block_tid') = Append(TidsOf(runs, block_tid), block_tid'[t])
    <3>1. /\ runs \in Seq(Elem) /\ t \in Elem
          /\ \A b \in Blocks(runs) : block_tid'[b] = block_tid[b]
      BY <1>2, <2>1
    <3>. QED  BY ONLY <3>1, TidsAppend
  <2>. QED  BY <1>1, <1>5, <2>2
<1>7. Ready' = Append(Ready, tid)
  <2>1. Ready' = TidsOf(runs', block_tid')
    BY DEF Ready, TidsOf
  <2>. QED  BY <1>6, <2>1, ReadyIsTids
<1>8. \A b \in Scheduler : b \in Elem /\ b # t
  BY <1>2, <1>4 DEF Scheduler, Link
<1>9. Scheduler' = Scheduler
  BY <1>3 DEF Scheduler
<1>10. \A b \in Scheduler : block_tid'[b] = block_tid[b] /\ block_tid[b] \in 0 .. tid - 1
  BY <1>2, <1>5, <1>8
<1>11. 1 .. tid' - 1 = (1 .. tid - 1) \cup {tid} /\ tid \notin 0 .. tid - 1
       /\ tid \in 1 .. MaxTid /\ tid \notin 1 .. tid - 1
  BY <1>2, <1>3, TidAssumption
<1>12. Spawned' = Spawned \cup {tid} /\ tid \notin Spawned
  BY <1>9, <1>10, <1>11 DEF Spawned
<1>13. PICK k \in 1 .. MaxTid : k = tid
  BY <1>11
<1>14. Abstract!RRFork(k)
  BY <1>3, <1>7, <1>12, <1>13 DEF Abstract!RRFork, Ready, Spawned
<1>. QED  BY <1>14

LEMMA StartRefines == Inv /\ Start => Abstract!RRStart
<1>. SUFFICES ASSUME Inv, Start PROVE Abstract!RRStart
  OBVIOUS
<1>1. PICK s \in Elem \cup {scheduler_thread} :
        /\ \/ /\ scheduler_thread = NULL /\ s \in Elem
              /\ Alloc(s)
              /\ block_tid' = [block_tid EXCEPT ![s] = tid]
              /\ tid' = tid + 1
           \/ /\ scheduler_thread # NULL /\ s = scheduler_thread
              /\ UNCHANGED <<block_tid, tid>>
        /\ scheduler_thread' = s
        /\ Switch(s, runq.head)
  BY DEF Start, NeedsScheduler, NewTid
<1>2. /\ cpu = 0 /\ ~IsEmpty(runq) /\ runs' = Tail(runs)
  BY DEF Start
<1>3. /\ tid \in Nat \ {0} /\ block_tid \in [Elem -> 0 .. tid - 1]
      /\ runs \in Seq(Elem) /\ scheduler_thread \in Link
  BY DEF Inv, TypeOK
<1>4. Holds(runq, next, runs) /\ \A b \in Blocks(runs) : saved_sp[b] = block_tid[b]
  BY DEF Inv, QueuesSound, ContextMatches
<1>5. /\ runs # <<>> /\ runq.head = Head(runs) /\ Head(runs) \in Blocks(runs)
      /\ Tail(runs) \in Seq(Elem)
  <2>1. runs # <<>>
    BY <1>2, <1>3, <1>4, HeldQueue
  <2>. QED  BY <1>3, <1>4, <2>1, HeldQueue, HoldsTail
<1>6. cpu' = block_tid[Head(runs)]
  BY <1>1, <1>4, <1>5 DEF Switch
<1>7. \A b \in Blocks(runs) : block_tid'[b] = block_tid[b]
  <2>1. CASE scheduler_thread = NULL
    <3>1. s \in Elem /\ Alloc(s) /\ block_tid' = [block_tid EXCEPT ![s] = tid]
      BY <1>1, <2>1
    <3>2. s \notin Blocks(runs)
      BY <3>1, AllocFacts
    <3>. QED  BY <1>3, <3>1, <3>2, BlocksInElem
  <2>2. CASE scheduler_thread # NULL
    BY <1>1, <2>2
  <2>. QED  BY <2>1, <2>2
<1>8. TidsOf(runs', block_tid') = TidsOf(runs', block_tid)
  <2>1. \A i \in 1 .. Len(Tail(runs)) : Tail(runs)[i] \in Blocks(runs)
    <3>1. /\ Len(Tail(runs)) = Len(runs) - 1
          /\ \A i \in 1 .. Len(runs) - 1 : Tail(runs)[i] = runs[i + 1] /\ i + 1 \in 1 .. Len(runs)
      BY <1>3, <1>5
    <3>. QED  BY <3>1 DEF Blocks
  <2>. QED  BY <1>2, <1>7, <2>1 DEF TidsOf
<1>9. Ready # <<>> /\ Head(Ready) = block_tid[Head(runs)] /\ Ready' = Tail(Ready)
  <2>1. /\ TidsOf(runs, block_tid) # <<>>
        /\ Head(TidsOf(runs, block_tid)) = block_tid[Head(runs)]
        /\ TidsOf(Tail(runs), block_tid) = Tail(TidsOf(runs, block_tid))
    BY <1>3, <1>5, TidsTail
  <2>2. Ready' = TidsOf(runs', block_tid')
    BY DEF Ready, TidsOf
  <2>. QED  BY <1>2, <1>8, <2>1, <2>2, ReadyIsTids
<1>10. Spawned' = Spawned
  <2>1. CASE scheduler_thread = NULL
    <3>1. /\ s \in Elem /\ s # NULL /\ block_tid'[s] = tid /\ tid' = tid + 1
          /\ scheduler_thread' = s
      BY <1>1, <1>3, <2>1, NullAssumption
    <3>2. Scheduler = {} /\ Scheduler' = {s}
      BY <2>1, <3>1 DEF Scheduler
    <3>3. 1 .. tid' - 1 = (1 .. tid - 1) \cup {tid} /\ tid \notin 1 .. tid - 1
      BY <1>3, <3>1
    <3>. QED  BY <3>1, <3>2, <3>3 DEF Spawned
  <2>2. CASE scheduler_thread # NULL
    <3>1. scheduler_thread' = scheduler_thread /\ tid' = tid /\ block_tid' = block_tid
      BY <1>1, <2>2
    <3>. QED  BY <3>1 DEF Spawned, Scheduler
  <2>. QED  BY <2>1, <2>2
<1>. QED  BY <1>2, <1>6, <1>9, <1>10 DEF Abstract!RRStart, Ready, Spawned

LEMMA YieldRefines == Inv /\ Yield => Abstract!RRYield
<1>. SUFFICES ASSUME Inv, Yield PROVE Abstract!RRYield
  OBVIOUS
<1>1. /\ cpu # 0 /\ ~IsEmpty(runq)
      /\ runs' = Append(Tail(runs), cur_thread)
      /\ cpu' = saved_sp[Appended(runq, cur_thread).head]
      /\ block_tid' = block_tid /\ tid' = tid /\ scheduler_thread' = scheduler_thread
  BY DEF Yield, Switch
<1>2. runs \in Seq(Elem)
  BY DEF Inv, TypeOK
<1>3. Holds(runq, next, runs) /\ \A b \in Blocks(runs) : saved_sp[b] = block_tid[b]
  BY DEF Inv, QueuesSound, ContextMatches
<1>4. runs # <<>>
  BY <1>1, <1>2, <1>3, HeldQueue
<1>5. /\ runq.head = Head(runs) /\ Head(runs) \in Blocks(runs) /\ runq.tail # NULL
      /\ Tail(runs) \in Seq(Elem)
  BY <1>2, <1>3, <1>4, HeldQueue, HoldsTail
<1>6. cpu' = block_tid[Head(runs)]
  BY <1>1, <1>3, <1>5 DEF Appended
<1>7. cur_thread \in Elem /\ cpu = block_tid[cur_thread]
  BY <1>1, RunningFacts
<1>8. /\ TidsOf(runs, block_tid) # <<>>
      /\ Head(TidsOf(runs, block_tid)) = block_tid[Head(runs)]
      /\ TidsOf(Tail(runs), block_tid) = Tail(TidsOf(runs, block_tid))
  BY <1>2, <1>4, TidsTail
<1>9. TidsOf(Append(Tail(runs), cur_thread), block_tid)
        = Append(TidsOf(Tail(runs), block_tid), block_tid[cur_thread])
  <2>1. Tail(runs) \in Seq(Elem) /\ cur_thread \in Elem
    BY <1>5, <1>7
  <2>. QED  BY ONLY <2>1, TidsAppend
<1>10. /\ Ready # <<>> /\ Head(Ready) = block_tid[Head(runs)]
       /\ Ready' = Append(Tail(Ready), cpu)
  <2>1. Ready' = TidsOf(runs', block_tid')
    BY DEF Ready, TidsOf
  <2>. QED  BY <1>1, <1>7, <1>8, <1>9, <2>1, ReadyIsTids
<1>11. Spawned' = Spawned
  BY <1>1 DEF Spawned, Scheduler
<1>. QED  BY <1>1, <1>6, <1>10, <1>11 DEF Abstract!RRYield, Ready, Spawned

LEMMA ExitRefines == Inv /\ Exit => Abstract!RRExit
<1>. SUFFICES ASSUME Inv, Exit PROVE Abstract!RRExit
  OBVIOUS
<1>1. /\ cpu # 0
      /\ block_tid' = block_tid /\ tid' = tid /\ scheduler_thread' = scheduler_thread
  BY DEF Exit
<1>2. runs \in Seq(Elem)
  BY DEF Inv, TypeOK
<1>3. Holds(runq, next, runs) /\ \A b \in Blocks(runs) : saved_sp[b] = block_tid[b]
  BY DEF Inv, QueuesSound, ContextMatches
<1>4. Spawned' = Spawned
  BY <1>1 DEF Spawned, Scheduler
<1>5. Ready' = TidsOf(runs', block_tid)
  BY <1>1 DEF Ready, TidsOf
<1>6. CASE IsEmpty(runq)
  <2>1. runs' = runs /\ cpu' = saved_sp[scheduler_thread]
    BY <1>6 DEF Exit, Switch
  <2>2. saved_sp[scheduler_thread] = 0
    BY <1>1, RunningFacts
  <2>3. runs = <<>>
    BY <1>2, <1>3, <1>6, HeldQueue
  <2>4. Ready = <<>> /\ Ready' = <<>>
    BY <1>5, <2>1, <2>3, ReadyIsTids, TidsEmpty
  <2>. QED  BY <1>1, <1>4, <2>1, <2>2, <2>4 DEF Abstract!RRExit, Ready, Spawned
<1>7. CASE ~IsEmpty(runq)
  <2>1. runs' = Tail(runs) /\ cpu' = saved_sp[runq.head]
    BY <1>7 DEF Exit, Switch
  <2>2. runs # <<>>
    BY <1>2, <1>3, <1>7, HeldQueue
  <2>3. runq.head = Head(runs) /\ Head(runs) \in Blocks(runs)
    BY <1>2, <1>3, <2>2, HeldQueue
  <2>4. /\ TidsOf(runs, block_tid) # <<>>
        /\ Head(TidsOf(runs, block_tid)) = block_tid[Head(runs)]
        /\ TidsOf(Tail(runs), block_tid) = Tail(TidsOf(runs, block_tid))
    BY <1>2, <2>2, TidsTail
  <2>5. Ready # <<>> /\ Head(Ready) = cpu' /\ Ready' = Tail(Ready)
    BY <1>3, <1>5, <2>1, <2>3, <2>4, ReadyIsTids
  <2>. QED  BY <1>1, <1>4, <2>5 DEF Abstract!RRExit, Ready, Spawned
<1>. QED  BY <1>6, <1>7

(* rpi-thread.c schedules round robin: whatever is forked, and whenever the *)
(* threads yield and exit, they take turns in the order they became ready.  *)
THEOREM ThreadsTakeTurns == Spec => ImplementsRoundRobin
<1>1. Init => Abstract!RRInit
  <2>. SUFFICES ASSUME Init PROVE Abstract!RRInit
    OBVIOUS
  <2>1. cpu = 0 /\ runs = <<>> /\ tid = 1 /\ Len(runs) = 0
    BY DEF Init
  <2>2. Ready = <<>> /\ Spawned = {}
    BY <2>1, ReadyIsTids, TidsEmpty DEF Spawned
  <2>. QED  BY <2>1, <2>2 DEF Abstract!RRInit, Ready, Spawned
<1>2. Inv /\ [Next]_vars => [Abstract!RRNext]_Abstract!rrVars
  <2>. SUFFICES ASSUME Inv, [Next]_vars PROVE [Abstract!RRNext]_Abstract!rrVars
    OBVIOUS
  <2>1. CASE Fork
    BY <2>1, ForkRefines DEF Abstract!RRNext
  <2>2. CASE Start
    BY <2>2, StartRefines DEF Abstract!RRNext
  <2>3. CASE Yield
    BY <2>3, YieldRefines DEF Abstract!RRNext
  <2>4. CASE Exit
    BY <2>4, ExitRefines DEF Abstract!RRNext
  <2>5. CASE UNCHANGED vars
    BY <2>5 DEF vars, Abstract!rrVars, Scheduler
  <2>. QED  BY <2>1, <2>2, <2>3, <2>4, <2>5 DEF Next
<1>3. ImplementsRoundRobin <=> Abstract!RRInit /\ [][Abstract!RRNext]_Abstract!rrVars
  BY DEF ImplementsRoundRobin, Abstract!RRSpec
<1>. QED  BY <1>1, <1>2, <1>3, Invariance, PTL DEF Spec
==============================================================================
