-------------------------- MODULE BootLoaderProofs ---------------------------
(***************************************************************************)
(* Proofs about BootLoader, for every size of a word and of the program,   *)
(* any number of damaged bytes and of resets, and any leftovers.  Of lost  *)
(* bytes, fewer than a word has: a line that loses a whole BOOT_ERROR      *)
(* makes my-install report a boot that failed.                             *)
(***************************************************************************)
EXTENDS BootLoader, SequenceTheorems, TLAPS

Names == Opcodes \cup Fields \cup {"code", "char", "garbage", "bad", "none"}

Byte == Names \X Int

\* every byte my-install sends, in order
Total == 5 * WordBytes + NBytes

Image == [p \in 1 .. Total |->
            IF p <= WordBytes THEN <<"PUT_PROG_INFO", p>>
            ELSE IF p <= 2 * WordBytes THEN <<"ARMBASE", p - WordBytes>>
            ELSE IF p <= 3 * WordBytes THEN <<"nbytes", p - 2 * WordBytes>>
            ELSE IF p <= 4 * WordBytes THEN <<"crc", p - 3 * WordBytes>>
            ELSE IF p <= 5 * WordBytes THEN <<"PUT_CODE", p - 4 * WordBytes>>
            ELSE <<"code", p - 5 * WordBytes>>]

\* the pi has not read a header yet
Fresh == crc = "none"

\* how much my-install has sent, at most, and the pi has read or lost, at least
Sent == IF upc = "sync" THEN 0
        ELSE IF upc = "drain" \/ (upc = "failed" /\ Fresh) THEN 4 * WordBytes
        ELSE Total
Used == IF Fresh THEN 0 ELSE 4 * WordBytes

TypeOK ==
    /\ upc \in {"sync", "drain", "result", "done", "failed"}
    /\ ppc \in {"ask", "wait", "code", "load", "running"}
    /\ toPi \in Seq(Byte) /\ toUnix \in Seq(Byte) /\ mem \in Seq(Byte)
    /\ addr \in {"none", "ARMBASE", "other"} /\ crc \in Names
    /\ n \in Nat /\ collided \in BOOLEAN
    /\ faults \in Nat /\ losses \in 0 .. MaxLosses /\ resets \in Nat

\* a byte on its way to the pi is damaged or one that was sent, and not before
\* its turn
LineInv ==
    /\ Len(toPi) + Used <= Sent
    /\ \A i \in 1 .. Len(toPi) :
        toPi[i] = BadByte \/ \E p \in i + Used .. Sent : toPi[i] = Image[p]

\* what is stored came behind the header and a word taken for PUT_CODE
StoreInv ==
    mem # <<>> \/ ppc \in {"load", "running"} =>
        ~Fresh /\ Len(mem) + Len(toPi) + 5 * WordBytes <= Sent

\* the first bytes of the words that let my-install go on: to "done", to "result"
Danger == {<<"PRINT_STRING", 1>>, <<"BOOT_SUCCESS", 1>>}

Early == Danger \cup {<<"GET_CODE", 1>>}

Free(s, D) == \A i \in 1 .. Len(s) : s[i] \notin D

Stopper(b) == b = BadByte \/ b[1] = "BOOT_ERROR"

\* before the first byte of D, m bytes in a row that no accepted word contains
Barred(s, m, D) ==
    \E a \in 0 .. Len(s) - m :
        /\ \A i \in 1 .. a : s[i] \notin D
        /\ \A i \in a + 1 .. a + m : Stopper(s[i])

\* of a BOOT_ERROR this many bytes are still there
Left == WordBytes - losses

\* nothing that only a pi with a header sends or holds
FreshInv ==
    Fresh => /\ ppc \in {"ask", "wait"} /\ ~collided /\ addr = "none"
             /\ upc \notin {"result", "done"}
             /\ Free(toUnix, Early)

CodeInv == ppc = "code" => mem = <<>>

GuardInv ==
    ~Verified => \/ upc = "failed"
                 \/ upc # "done" /\ (Free(toUnix, Danger) \/ Barred(toUnix, Left, Danger))

CollisionInv ==
    collided /\ HeaderRead =>
        /\ mem = <<>> /\ toPi = <<>>
        /\ upc = "failed" \/ (upc = "drain" /\ Barred(toUnix, Left, Early))

Inv == TypeOK /\ LineInv /\ StoreInv /\ FreshInv /\ CodeInv /\ GuardInv /\ CollisionInv

------------------------------------------------------------------------------
(* Lines: what is left of one when bytes are read or lost. *)

LEMMA Sizes ==
  /\ WordBytes \in Nat \ {0} /\ NBytes \in Nat \ {0} /\ MaxBytes \in Nat /\ PrintLen \in Nat \ {0}
  /\ MaxLosses \in Nat /\ Total \in Nat
BY BootAssumption DEF Total

LEMMA DropIs ==
  ASSUME NEW s \in Seq(Byte), NEW k \in 0 .. Len(s)
  PROVE  /\ Drop(s, k) \in Seq(Byte) /\ Len(Drop(s, k)) = Len(s) - k
         /\ \A i \in 1 .. Len(s) - k : Drop(s, k)[i] = s[i + k]
<1>1. k + 1 \in Int /\ Len(s) \in Nat /\ 1 <= k + 1
  OBVIOUS
<1>. QED  BY <1>1 DEF Drop

LEMMA JoinIs ==
  ASSUME NEW s \in Seq(Byte), NEW t \in Seq(Byte)
  PROVE  /\ s \o t \in Seq(Byte) /\ Len(s \o t) = Len(s) + Len(t)
         /\ \A i \in 1 .. Len(s) : (s \o t)[i] = s[i]
         /\ \A i \in 1 .. Len(t) : (s \o t)[Len(s) + i] = t[i]
         /\ \A i \in 1 .. Len(s) + Len(t) :
              (s \o t)[i] = IF i <= Len(s) THEN s[i] ELSE t[i - Len(s)]
<1>1. \A i \in 1 .. Len(t) : (s \o t)[Len(s) + i] = t[i]
  OBVIOUS
<1>. QED  BY <1>1, ConcatProperties

LEMMA WithoutIs ==
  ASSUME NEW s \in Seq(Byte), NEW k \in 1 .. Len(s)
  PROVE  /\ Without(s, k) \in Seq(Byte) /\ Len(Without(s, k)) = Len(s) - 1
         /\ \A i \in 1 .. k - 1 : Without(s, k)[i] = s[i]
         /\ \A i \in k .. Len(s) - 1 : Without(s, k)[i] = s[i + 1]
<1>. DEFINE a == SubSeq(s, 1, k - 1) b == Drop(s, k)
<1>1. a \in Seq(Byte) /\ Len(a) = k - 1 /\ \A i \in 1 .. k - 1 : a[i] = s[i]
  OBVIOUS
<1>2. /\ b \in Seq(Byte) /\ Len(b) = Len(s) - k
      /\ \A i \in 1 .. Len(s) - k : b[i] = s[i + k]
  BY DropIs
<1>3. Without(s, k) = a \o b
  BY DEF Without
<1>. HIDE DEF a, b
<1>4. /\ a \o b \in Seq(Byte) /\ Len(a \o b) = Len(a) + Len(b)
      /\ \A i \in 1 .. Len(a) : (a \o b)[i] = a[i]
      /\ \A i \in 1 .. Len(b) : (a \o b)[Len(a) + i] = b[i]
  BY <1>1, <1>2, JoinIs
<1>5. ASSUME NEW i \in k .. Len(s) - 1 PROVE (a \o b)[i] = s[i + 1]
  <2>1. i - (k - 1) \in 1 .. Len(s) - k /\ (k - 1) + (i - (k - 1)) = i
    OBVIOUS
  <2>2. (a \o b)[i] = b[i - (k - 1)]
    BY <1>1, <1>2, <1>4, <2>1
  <2>. QED  BY <1>2, <2>1, <2>2
<1>. QED  BY <1>1, <1>2, <1>3, <1>4, <1>5

LEMMA DamagedIs ==
  ASSUME NEW s \in Seq(Byte), NEW k \in 1 .. Len(s)
  PROVE  LET t == [s EXCEPT ![k] = BadByte] IN
         /\ t \in Seq(Byte) /\ Len(t) = Len(s)
         /\ \A i \in 1 .. Len(s) : t[i] = IF i = k THEN BadByte ELSE s[i]
<1>1. BadByte \in Byte
  BY DEF BadByte, Byte, Names
<1>. QED  BY <1>1, ExceptSeq

LEMMA BytesAre ==
  ASSUME NEW w \in Names, NEW len \in Nat
  PROVE  /\ Bytes(w, len) \in Seq(Byte) /\ Len(Bytes(w, len)) = len
         /\ \A i \in 1 .. len : Bytes(w, len)[i] = <<w, i>>
<1>. DEFINE f == [k \in 1 .. len |-> <<w, k>>]
<1>1. \A k \in 1 .. len : <<w, k>> \in Byte
  BY DEF Byte
<1>2. f \in [1 .. len -> Byte]
  BY <1>1
<1>3. DOMAIN f = 1 .. len /\ \A i \in 1 .. len : f[i] = <<w, i>>
  OBVIOUS
<1>. HIDE DEF f
<1>4. f \in Seq(Byte)
  BY <1>2, SeqDef
<1>5. Len(f) = len
  BY <1>3, <1>4, LenProperties
<1>6. Bytes(w, len) = f
  BY DEF Bytes, f
<1>. QED  BY <1>3, <1>4, <1>5, <1>6

LEMMA WordIs ==
  ASSUME NEW w \in Names
  PROVE  /\ Word(w) \in Seq(Byte) /\ Len(Word(w)) = WordBytes
         /\ \A i \in 1 .. WordBytes : Word(w)[i] = <<w, i>>
<1>1. Word(w) = Bytes(w, WordBytes)
  BY DEF Word, Bytes
<1>. QED  BY <1>1, Sizes, BytesAre

(* A word that was read is there byte by byte. *)
LEMMA WordRead ==
  ASSUME NEW s \in Seq(Byte), NEW i \in 1 .. 4, i * WordBytes <= Len(s)
  PROVE  /\ WordAt(s, i) \in Opcodes \cup Fields \cup {"bad"}
         /\ WordAt(s, i) # "bad" =>
              \A k \in 1 .. WordBytes : s[(i - 1) * WordBytes + k] = <<WordAt(s, i), k>>
<1>. WordBytes \in Nat \ {0}
  BY Sizes
<1>. DEFINE from == (i - 1) * WordBytes
            w == SubSeq(s, from + 1, i * WordBytes)
<1>1. from \in Nat /\ i * WordBytes = from + WordBytes
  <2>1. i = 1 \/ i = 2 \/ i = 3 \/ i = 4
    OBVIOUS
  <2>. QED  BY <2>1
<1>2. w \in Seq(Byte) /\ Len(w) = WordBytes /\ \A k \in 1 .. WordBytes : w[k] = s[from + k]
  BY <1>1
<1>3. WordAt(s, i) = IF \E x \in Opcodes \cup Fields : w = Word(x) THEN w[1][1] ELSE "bad"
  BY DEF WordAt
<1>4. ASSUME NEW x \in Opcodes \cup Fields, w = Word(x)
      PROVE  w[1][1] = x /\ \A k \in 1 .. WordBytes : w[k] = <<x, k>>
  <2>1. x \in Names
    BY DEF Names
  <2>2. \A k \in 1 .. WordBytes : Word(x)[k] = <<x, k>>
    BY <2>1, WordIs
  <2>3. 1 \in 1 .. WordBytes /\ <<x, 1>>[1] = x
    OBVIOUS
  <2>. QED  BY <1>4, <2>2, <2>3
<1>. HIDE DEF w, from
<1>5. CASE \E x \in Opcodes \cup Fields : w = Word(x)
  <2>. PICK x \in Opcodes \cup Fields : w = Word(x)
    BY <1>5
  <2>1. WordAt(s, i) = x
    BY <1>3, <1>4, <1>5
  <2>. QED  BY <1>2, <1>4, <2>1 DEF from
<1>6. CASE ~ \E x \in Opcodes \cup Fields : w = Word(x)
  BY <1>3, <1>6
<1>. QED  BY <1>5, <1>6

(* Everything my-install sends. *)
LEMMA ImageAt ==
  ASSUME NEW p \in 1 .. Total
  PROVE  /\ p <= WordBytes => Image[p] = <<"PUT_PROG_INFO", p>>
         /\ p > WordBytes /\ p <= 2 * WordBytes => Image[p] = <<"ARMBASE", p - WordBytes>>
         /\ p > 2 * WordBytes /\ p <= 3 * WordBytes => Image[p] = <<"nbytes", p - 2 * WordBytes>>
         /\ p > 3 * WordBytes /\ p <= 4 * WordBytes => Image[p] = <<"crc", p - 3 * WordBytes>>
         /\ p > 4 * WordBytes /\ p <= 5 * WordBytes => Image[p] = <<"PUT_CODE", p - 4 * WordBytes>>
         /\ p > 5 * WordBytes => Image[p] = <<"code", p - 5 * WordBytes>>
BY Sizes DEF Image

LEMMA ImageIs ==
  /\ ProgInfo \in Seq(Byte) /\ Len(ProgInfo) = 4 * WordBytes
  /\ \A i \in 1 .. 4 * WordBytes : ProgInfo[i] = Image[i]
  /\ Word("PUT_CODE") \o Prog \in Seq(Byte) /\ Len(Word("PUT_CODE") \o Prog) = WordBytes + NBytes
  /\ \A i \in 1 .. WordBytes + NBytes : (Word("PUT_CODE") \o Prog)[i] = Image[4 * WordBytes + i]
<1>. WordBytes \in Nat \ {0} /\ NBytes \in Nat \ {0}
  BY Sizes
<1>. DEFINE a == Word("PUT_PROG_INFO") b == Word("ARMBASE") c == Word("nbytes") d == Word("crc")
            e == Word("PUT_CODE") f == Prog
<1>1. /\ a \in Seq(Byte) /\ Len(a) = WordBytes /\ \A i \in 1 .. WordBytes : a[i] = <<"PUT_PROG_INFO", i>>
      /\ b \in Seq(Byte) /\ Len(b) = WordBytes /\ \A i \in 1 .. WordBytes : b[i] = <<"ARMBASE", i>>
      /\ c \in Seq(Byte) /\ Len(c) = WordBytes /\ \A i \in 1 .. WordBytes : c[i] = <<"nbytes", i>>
      /\ d \in Seq(Byte) /\ Len(d) = WordBytes /\ \A i \in 1 .. WordBytes : d[i] = <<"crc", i>>
      /\ e \in Seq(Byte) /\ Len(e) = WordBytes /\ \A i \in 1 .. WordBytes : e[i] = <<"PUT_CODE", i>>
      /\ f \in Seq(Byte) /\ Len(f) = NBytes /\ \A i \in 1 .. NBytes : f[i] = <<"code", i>>
  <2>1. \A x \in {"PUT_PROG_INFO", "ARMBASE", "nbytes", "crc", "PUT_CODE"} : x \in Names
    BY DEF Names, Opcodes, Fields
  <2>2. \A x \in {"PUT_PROG_INFO", "ARMBASE", "nbytes", "crc", "PUT_CODE"} :
          /\ Word(x) \in Seq(Byte) /\ Len(Word(x)) = WordBytes
          /\ \A i \in 1 .. WordBytes : Word(x)[i] = <<x, i>>
    BY <2>1, WordIs
  <2>3. f \in Seq(Byte) /\ Len(f) = NBytes /\ \A i \in 1 .. NBytes : f[i] = <<"code", i>>
    BY Sizes, BytesAre DEF Prog, Names
  <2>. QED  BY <2>2, <2>3
<1>. DEFINE ab == a \o b abc == ab \o c abcd == abc \o d ef == e \o f
<1>0. ProgInfo = abcd /\ Word("PUT_CODE") \o Prog = ef
  BY DEF ProgInfo
<1>. HIDE DEF a, b, c, d, e, f
<1>2. ab = a \o b /\ abc = ab \o c /\ abcd = abc \o d /\ ef = e \o f
  OBVIOUS
<1>. HIDE DEF ab, abc, abcd, ef
<1>3. /\ ab \in Seq(Byte) /\ Len(ab) = 2 * WordBytes
      /\ \A i \in 1 .. 2 * WordBytes :
           ab[i] = IF i <= WordBytes THEN a[i] ELSE b[i - WordBytes]
  <2>1. /\ a \in Seq(Byte) /\ b \in Seq(Byte) /\ Len(a) = WordBytes /\ Len(b) = WordBytes
    BY <1>1
  <2>2. Len(a) + Len(b) = 2 * WordBytes
    BY <2>1
  <2>3. /\ ab \in Seq(Byte) /\ Len(ab) = Len(a) + Len(b)
        /\ \A i \in 1 .. Len(a) + Len(b) :
             ab[i] = IF i <= Len(a) THEN a[i] ELSE b[i - Len(a)]
    BY <1>2, <2>1, JoinIs
  <2>. QED  BY <2>1, <2>2, <2>3
<1>4. /\ abc \in Seq(Byte) /\ Len(abc) = 3 * WordBytes
      /\ \A i \in 1 .. 3 * WordBytes :
           abc[i] = IF i <= 2 * WordBytes THEN ab[i] ELSE c[i - 2 * WordBytes]
  <2>1. /\ ab \in Seq(Byte) /\ c \in Seq(Byte) /\ Len(ab) = 2 * WordBytes /\ Len(c) = WordBytes
    BY <1>1, <1>3
  <2>2. Len(ab) + Len(c) = 3 * WordBytes
    BY <2>1
  <2>3. /\ abc \in Seq(Byte) /\ Len(abc) = Len(ab) + Len(c)
        /\ \A i \in 1 .. Len(ab) + Len(c) :
             abc[i] = IF i <= Len(ab) THEN ab[i] ELSE c[i - Len(ab)]
    BY <1>2, <2>1, JoinIs
  <2>. QED  BY <2>1, <2>2, <2>3
<1>5. /\ abcd \in Seq(Byte) /\ Len(abcd) = 4 * WordBytes
      /\ \A i \in 1 .. 4 * WordBytes :
           abcd[i] = IF i <= 3 * WordBytes THEN abc[i] ELSE d[i - 3 * WordBytes]
  <2>1. /\ abc \in Seq(Byte) /\ d \in Seq(Byte) /\ Len(abc) = 3 * WordBytes /\ Len(d) = WordBytes
    BY <1>1, <1>4
  <2>2. Len(abc) + Len(d) = 4 * WordBytes
    BY <2>1
  <2>3. /\ abcd \in Seq(Byte) /\ Len(abcd) = Len(abc) + Len(d)
        /\ \A i \in 1 .. Len(abc) + Len(d) :
             abcd[i] = IF i <= Len(abc) THEN abc[i] ELSE d[i - Len(abc)]
    BY <1>2, <2>1, JoinIs
  <2>. QED  BY <2>1, <2>2, <2>3
<1>6. \A i \in 1 .. 4 * WordBytes : abcd[i] = Image[i]
  <2>. SUFFICES ASSUME NEW i \in 1 .. 4 * WordBytes PROVE abcd[i] = Image[i]
    OBVIOUS
  <2>1. i \in 1 .. Total
    BY DEF Total
  <2>2. CASE i <= WordBytes
    <3>1. i \in 1 .. WordBytes
      BY <2>2
    <3>2. abcd[i] = a[i]
      BY <1>3, <1>4, <1>5, <2>2
    <3>. QED  BY <1>1, <2>1, <2>2, <3>1, <3>2, ImageAt
  <2>3. CASE i > WordBytes /\ i <= 2 * WordBytes
    <3>1. i - WordBytes \in 1 .. WordBytes
      BY <2>3
    <3>2. abcd[i] = b[i - WordBytes]
      BY <1>3, <1>4, <1>5, <2>3
    <3>. QED  BY <1>1, <2>1, <2>3, <3>1, <3>2, ImageAt
  <2>4. CASE i > 2 * WordBytes /\ i <= 3 * WordBytes
    <3>1. i - 2 * WordBytes \in 1 .. WordBytes
      BY <2>4
    <3>2. abcd[i] = c[i - 2 * WordBytes]
      BY <1>3, <1>4, <1>5, <2>4
    <3>. QED  BY <1>1, <2>1, <2>4, <3>1, <3>2, ImageAt
  <2>5. CASE i > 3 * WordBytes
    <3>1. i - 3 * WordBytes \in 1 .. WordBytes
      BY <2>5
    <3>2. abcd[i] = d[i - 3 * WordBytes]
      BY <1>3, <1>4, <1>5, <2>5
    <3>3. Image[i] = <<"crc", i - 3 * WordBytes>>
      BY <2>1, <2>5, ImageAt
    <3>. QED  BY <1>1, <3>1, <3>2, <3>3
  <2>. QED  BY <2>2, <2>3, <2>4, <2>5
<1>7. /\ ef \in Seq(Byte) /\ Len(ef) = WordBytes + NBytes
      /\ \A i \in 1 .. WordBytes + NBytes :
           ef[i] = IF i <= WordBytes THEN e[i] ELSE f[i - WordBytes]
  <2>1. e \in Seq(Byte) /\ f \in Seq(Byte) /\ Len(e) = WordBytes /\ Len(f) = NBytes
    BY <1>1
  <2>2. /\ ef \in Seq(Byte) /\ Len(ef) = Len(e) + Len(f)
        /\ \A i \in 1 .. Len(e) + Len(f) :
             ef[i] = IF i <= Len(e) THEN e[i] ELSE f[i - Len(e)]
    BY <1>2, <2>1, JoinIs
  <2>. QED  BY <2>1, <2>2
<1>8. \A i \in 1 .. WordBytes + NBytes : ef[i] = Image[4 * WordBytes + i]
  <2>. SUFFICES ASSUME NEW i \in 1 .. WordBytes + NBytes
                PROVE  ef[i] = Image[4 * WordBytes + i]
    OBVIOUS
  <2>1. 4 * WordBytes + i \in 1 .. Total
    BY DEF Total
  <2>2. CASE i <= WordBytes
    <3>1. i \in 1 .. WordBytes /\ 4 * WordBytes + i - 4 * WordBytes = i
      BY <2>2
    <3>2. Image[4 * WordBytes + i] = <<"PUT_CODE", i>>
      BY <2>1, <3>1, ImageAt
    <3>. QED  BY <1>1, <1>7, <2>2, <3>1, <3>2
  <2>3. CASE i > WordBytes
    <3>1. i - WordBytes \in 1 .. NBytes /\ 4 * WordBytes + i - 5 * WordBytes = i - WordBytes
          /\ 4 * WordBytes + i > 5 * WordBytes
      BY <2>3
    <3>2. Image[4 * WordBytes + i] = <<"code", i - WordBytes>>
      BY <2>1, <3>1, ImageAt
    <3>. QED  BY <1>1, <1>7, <2>3, <3>1, <3>2
  <2>. QED  BY <2>2, <2>3
<1>. QED  BY <1>0, <1>5, <1>6, <1>7, <1>8

------------------------------------------------------------------------------
(* What lines are free of, and barred by. *)

LEMMA FreeLines ==
  ASSUME NEW D, BadByte \notin D, NEW s \in Seq(Byte), Free(s, D)
  PROVE  /\ \A k \in 0 .. Len(s) : Free(Drop(s, k), D)
         /\ \A t \in Seq(Byte) : Free(t, D) => Free(s \o t, D)
         /\ \A k \in 1 .. Len(s) : Free(Without(s, k), D)
         /\ \A k \in 1 .. Len(s) : Free([s EXCEPT ![k] = BadByte], D)
<1>1. ASSUME NEW k \in 0 .. Len(s) PROVE Free(Drop(s, k), D)
  <2>. SUFFICES ASSUME NEW i \in 1 .. Len(s) - k PROVE Drop(s, k)[i] \notin D
    BY DropIs DEF Free
  <2>1. i + k \in 1 .. Len(s)
    OBVIOUS
  <2>2. Drop(s, k)[i] = s[i + k]
    BY DropIs
  <2>. QED  BY <2>1, <2>2 DEF Free
<1>2. ASSUME NEW t \in Seq(Byte), Free(t, D) PROVE Free(s \o t, D)
  <2>. SUFFICES ASSUME NEW i \in 1 .. Len(s) + Len(t) PROVE (s \o t)[i] \notin D
    BY JoinIs DEF Free
  <2>1. CASE i <= Len(s)
    BY <2>1, JoinIs DEF Free
  <2>2. CASE i > Len(s)
    BY <1>2, <2>2, JoinIs DEF Free
  <2>. QED  BY <2>1, <2>2
<1>3. ASSUME NEW k \in 1 .. Len(s) PROVE Free(Without(s, k), D)
  <2>. SUFFICES ASSUME NEW i \in 1 .. Len(s) - 1 PROVE Without(s, k)[i] \notin D
    BY WithoutIs DEF Free
  <2>1. i \in 1 .. k - 1 \/ i \in k .. Len(s) - 1
    OBVIOUS
  <2>2. i \in 1 .. Len(s) /\ i + 1 \in 1 .. Len(s)
    OBVIOUS
  <2>3. Without(s, k)[i] = s[i] \/ Without(s, k)[i] = s[i + 1]
    BY <2>1, WithoutIs
  <2>. QED  BY <2>2, <2>3 DEF Free
<1>4. ASSUME NEW k \in 1 .. Len(s) PROVE Free([s EXCEPT ![k] = BadByte], D)
  BY DamagedIs DEF Free
<1>. QED  BY <1>1, <1>2, <1>3, <1>4

LEMMA BarDrop ==
  ASSUME NEW D, NEW s \in Seq(Byte), NEW m \in Nat \ {0}, Barred(s, m, D),
         NEW k \in 0 .. Len(s), \A i \in 1 .. k : ~Stopper(s[i])
  PROVE  Barred(Drop(s, k), m, D)
<1>1. PICK a \in 0 .. Len(s) - m : /\ \A i \in 1 .. a : s[i] \notin D
                                   /\ \A i \in a + 1 .. a + m : Stopper(s[i])
  BY DEF Barred
<1>2. k <= a
  <2>1. a + 1 \in a + 1 .. a + m
    OBVIOUS
  <2>2. a + 1 \notin 1 .. k
    BY <1>1, <2>1
  <2>. QED  BY <2>2
<1>3. /\ Len(Drop(s, k)) = Len(s) - k
      /\ \A i \in 1 .. Len(s) - k : Drop(s, k)[i] = s[i + k]
  BY DropIs
<1>4. a - k \in 0 .. Len(Drop(s, k)) - m
  BY <1>2, <1>3
<1>5. ASSUME NEW i \in 1 .. a - k PROVE Drop(s, k)[i] \notin D
  <2>1. i \in 1 .. Len(s) - k /\ i + k \in 1 .. a
    BY <1>2
  <2>. QED  BY <1>1, <1>3, <2>1
<1>6. ASSUME NEW i \in (a - k) + 1 .. (a - k) + m PROVE Stopper(Drop(s, k)[i])
  <2>1. i \in 1 .. Len(s) - k /\ i + k \in a + 1 .. a + m
    BY <1>2
  <2>. QED  BY <1>1, <1>3, <2>1
<1>. QED  BY <1>4, <1>5, <1>6 DEF Barred

LEMMA BarJoin ==
  ASSUME NEW D, NEW s \in Seq(Byte), NEW t \in Seq(Byte), NEW m \in Nat, Barred(s, m, D)
  PROVE  Barred(s \o t, m, D)
<1>1. PICK a \in 0 .. Len(s) - m : /\ \A i \in 1 .. a : s[i] \notin D
                                   /\ \A i \in a + 1 .. a + m : Stopper(s[i])
  BY DEF Barred
<1>2. Len(s \o t) = Len(s) + Len(t) /\ \A i \in 1 .. Len(s) : (s \o t)[i] = s[i]
  BY JoinIs
<1>3. a \in 0 .. Len(s \o t) - m
  BY <1>2
<1>4. \A i \in 1 .. a : (s \o t)[i] \notin D
  BY <1>1, <1>2
<1>5. \A i \in a + 1 .. a + m : (s \o t)[i] = s[i]
  BY <1>2
<1>. QED  BY <1>1, <1>3, <1>4, <1>5 DEF Barred

(* A lost byte shortens the bar by one at most. *)
LEMMA BarWithout ==
  ASSUME NEW D, NEW s \in Seq(Byte), NEW m \in Nat \ {0}, Barred(s, m, D), NEW k \in 1 .. Len(s)
  PROVE  Barred(Without(s, k), m - 1, D)
<1>1. PICK a \in 0 .. Len(s) - m : /\ \A i \in 1 .. a : s[i] \notin D
                                   /\ \A i \in a + 1 .. a + m : Stopper(s[i])
  BY DEF Barred
<1>2. /\ Len(Without(s, k)) = Len(s) - 1
      /\ \A i \in 1 .. k - 1 : Without(s, k)[i] = s[i]
      /\ \A i \in k .. Len(s) - 1 : Without(s, k)[i] = s[i + 1]
  BY WithoutIs
<1>3. CASE k <= a
  <2>1. a - 1 \in 0 .. Len(Without(s, k)) - (m - 1)
    BY <1>2, <1>3
  <2>2. ASSUME NEW i \in 1 .. a - 1 PROVE Without(s, k)[i] \notin D
    <3>1. i \in 1 .. a /\ i + 1 \in 1 .. a
      OBVIOUS
    <3>2. i \in 1 .. k - 1 \/ i \in k .. Len(s) - 1
      OBVIOUS
    <3>. QED  BY <1>1, <1>2, <3>1, <3>2
  <2>3. ASSUME NEW i \in (a - 1) + 1 .. (a - 1) + (m - 1) PROVE Stopper(Without(s, k)[i])
    <3>1. i \in k .. Len(s) - 1 /\ i + 1 \in a + 1 .. a + m
      BY <1>3
    <3>. QED  BY <1>1, <1>2, <3>1
  <2>. QED  BY <2>1, <2>2, <2>3 DEF Barred
<1>4. CASE k > a
  <2>1. a \in 0 .. Len(Without(s, k)) - (m - 1)
    BY <1>2, <1>4
  <2>2. ASSUME NEW i \in 1 .. a PROVE Without(s, k)[i] \notin D
    <3>1. i \in 1 .. k - 1
      BY <1>4
    <3>. QED  BY <1>1, <1>2, <3>1
  <2>3. ASSUME NEW i \in a + 1 .. a + (m - 1) PROVE Stopper(Without(s, k)[i])
    <3>1. i \in a + 1 .. a + m /\ i + 1 \in a + 1 .. a + m
      OBVIOUS
    <3>2. i \in 1 .. k - 1 \/ i \in k .. Len(s) - 1
      OBVIOUS
    <3>. QED  BY <1>1, <1>2, <3>1, <3>2
  <2>. QED  BY <2>1, <2>2, <2>3 DEF Barred
<1>. QED  BY <1>3, <1>4

LEMMA BarDamaged ==
  ASSUME NEW D, NEW s \in Seq(Byte), NEW m \in Nat, Barred(s, m, D), NEW k \in 1 .. Len(s),
         BadByte \notin D
  PROVE  Barred([s EXCEPT ![k] = BadByte], m, D)
<1>. DEFINE t == [s EXCEPT ![k] = BadByte]
<1>1. PICK a \in 0 .. Len(s) - m : /\ \A i \in 1 .. a : s[i] \notin D
                                   /\ \A i \in a + 1 .. a + m : Stopper(s[i])
  BY DEF Barred
<1>2. Len(t) = Len(s) /\ \A i \in 1 .. Len(s) : t[i] = IF i = k THEN BadByte ELSE s[i]
  BY DamagedIs
<1>. HIDE DEF t
<1>3. Stopper(BadByte)
  BY DEF Stopper
<1>4. \A i \in 1 .. a : t[i] \notin D
  BY <1>1, <1>2, <1>3
<1>5. ASSUME NEW i \in a + 1 .. a + m PROVE Stopper(t[i])
  <2>1. i \in 1 .. Len(s)
    OBVIOUS
  <2>. QED  BY <1>1, <1>2, <1>3, <2>1
<1>6. Barred(t, m, D)
  BY <1>2, <1>4, <1>5 DEF Barred
<1>. QED  BY <1>6 DEF t

LEMMA BarNew ==
  ASSUME NEW D, NEW s \in Seq(Byte), Free(s, D), NEW m \in 0 .. WordBytes
  PROVE  Barred(s \o Word("BOOT_ERROR"), m, D)
<1>. WordBytes \in Nat \ {0}
  BY Sizes
<1>. DEFINE w == Word("BOOT_ERROR")
<1>1. w \in Seq(Byte) /\ Len(w) = WordBytes /\ \A i \in 1 .. WordBytes : w[i] = <<"BOOT_ERROR", i>>
  BY WordIs DEF Names, Opcodes
<1>. HIDE DEF w
<1>2. /\ Len(s \o w) = Len(s) + Len(w)
      /\ \A i \in 1 .. Len(s) : (s \o w)[i] = s[i]
      /\ \A i \in 1 .. Len(w) : (s \o w)[Len(s) + i] = w[i]
  BY <1>1, JoinIs
<1>3. Len(s) \in 0 .. Len(s \o w) - m
  BY <1>1, <1>2
<1>4. \A i \in 1 .. Len(s) : (s \o w)[i] \notin D
  BY <1>2 DEF Free
<1>5. ASSUME NEW i \in Len(s) + 1 .. Len(s) + m PROVE Stopper((s \o w)[i])
  <2>1. i - Len(s) \in 1 .. WordBytes /\ i = Len(s) + (i - Len(s))
    OBVIOUS
  <2>2. (s \o w)[i] = <<"BOOT_ERROR", i - Len(s)>>
    BY <1>1, <1>2, <2>1
  <2>. QED  BY <2>2 DEF Stopper
<1>6. Barred(s \o w, m, D)
  BY <1>3, <1>4, <1>5 DEF Barred
<1>. QED  BY <1>6 DEF w

LEMMA BarStops ==
  ASSUME NEW D, NEW s \in Seq(Byte), NEW m \in Nat \ {0}, Barred(s, m, D),
         \A x \in D : ~Stopper(x)
  PROVE  s[1] \notin D
<1>1. PICK a \in 0 .. Len(s) - m : /\ \A i \in 1 .. a : s[i] \notin D
                                   /\ \A i \in a + 1 .. a + m : Stopper(s[i])
  BY DEF Barred
<1>2. 1 \in 1 .. a \/ 1 \in a + 1 .. a + m
  OBVIOUS
<1>. QED  BY <1>1, <1>2

LEMMA BarLess ==
  ASSUME NEW D, NEW s \in Seq(Byte), NEW m \in Nat \ {0}, Barred(s, m, D)
  PROVE  Barred(s, m - 1, D)
<1>1. PICK a \in 0 .. Len(s) - m : /\ \A i \in 1 .. a : s[i] \notin D
                                   /\ \A i \in a + 1 .. a + m : Stopper(s[i])
  BY DEF Barred
<1>2. a \in 0 .. Len(s) - (m - 1) /\ \A i \in a + 1 .. a + (m - 1) : Stopper(s[i])
  BY <1>1
<1>. QED  BY <1>1, <1>2 DEF Barred

LEMMA Alphabet ==
  /\ BadByte \notin Danger /\ BadByte \notin Early
  /\ \A x \in Danger : ~Stopper(x)
  /\ \A x \in Early : ~Stopper(x)
  /\ \A s : Free(s, Early) => Free(s, Danger)
BY DEF BadByte, Danger, Early, Stopper, Free

(* Words that do not let my-install go on. *)
LEMMA WordFree ==
  ASSUME NEW w \in Names, w \notin {"PRINT_STRING", "BOOT_SUCCESS"}
  PROVE  Free(Word(w), Danger) /\ (w # "GET_CODE" => Free(Word(w), Early))
<1>1. Len(Word(w)) = WordBytes /\ \A i \in 1 .. WordBytes : Word(w)[i] = <<w, i>>
  BY WordIs
<1>2. \A i : <<w, i>> \notin Danger /\ (w # "GET_CODE" => <<w, i>> \notin Early)
  BY DEF Danger, Early
<1>. QED  BY <1>1, <1>2 DEF Free

LEMMA PrintIs == PrintMessage \in Seq(Byte)
<1>1. Word("PRINT_STRING") \in Seq(Byte) /\ Word("strlen") \in Seq(Byte)
  BY WordIs DEF Names, Opcodes, Fields
<1>2. Bytes("char", PrintLen) \in Seq(Byte)
  BY BytesAre, Sizes DEF Names
<1>3. Word("PRINT_STRING") \o Word("strlen") \in Seq(Byte)
  BY <1>1, JoinIs
<1>. QED  BY <1>2, <1>3, JoinIs DEF PrintMessage

------------------------------------------------------------------------------
(* What the invariant says of the moment when a word is read. *)

Rest == <<addr, n, crc, mem, collided, faults, losses, resets>>

LEMMA Bounds ==
  ASSUME TypeOK
  PROVE  /\ WordBytes \in Nat \ {0} /\ NBytes \in Nat \ {0}
         /\ Sent \in 0 .. Total /\ Used \in {0, 4 * WordBytes} /\ Total = 5 * WordBytes + NBytes
         /\ Len(toPi) \in Nat /\ Len(toUnix) \in Nat /\ Len(mem) \in Nat
BY Sizes DEF TypeOK, Sent, Used, Total

LEMMA LeftIs ==
  ASSUME MaxLosses < WordBytes, TypeOK
  PROVE  Left \in 1 .. WordBytes
BY Sizes DEF TypeOK, Left

(* Once the program is there, nothing is under way to the pi, and nothing will be. *)
LEMMA VerifiedIs ==
  ASSUME Inv, Verified
  PROVE  /\ ~Fresh /\ toPi = <<>> /\ Sent = Total /\ upc \notin {"sync", "drain"}
         /\ ~collided
<1>1. mem = Prog /\ crc = "crc"
  BY DEF Verified
<1>2. Prog \in Seq(Byte) /\ Len(Prog) = NBytes
  BY Sizes, BytesAre DEF Prog, Names
<1>3. Prog # <<>>
  BY <1>2, Sizes
<1>4. ~Fresh /\ Len(mem) + Len(toPi) + 5 * WordBytes <= Sent
  BY <1>1, <1>3 DEF Inv, StoreInv
<1>5. Len(toPi) = 0 /\ Sent = Total
  BY <1>1, <1>2, <1>4, Bounds DEF Inv
<1>6. toPi = <<>>
  BY <1>5 DEF Inv, TypeOK
<1>7. upc \notin {"sync", "drain"}
  BY <1>5, Sizes DEF Sent, Total
<1>8. ~collided
  BY <1>1, <1>3 DEF Inv, CollisionInv, HeaderRead
<1>. QED  BY <1>4, <1>5, <1>6, <1>7, <1>8

LEMMA OpIs ==
  ASSUME Inv, Len(toUnix) >= WordBytes, Op # "bad"
  PROVE  \A k \in 1 .. WordBytes : toUnix[k] = <<Op, k>>
<1>1. 1 \in 1 .. 4 /\ 1 * WordBytes <= Len(toUnix)
  BY Bounds DEF Inv
<1>2. \A k \in 1 .. WordBytes : toUnix[(1 - 1) * WordBytes + k] = <<WordAt(toUnix, 1), k>>
  BY <1>1, WordRead DEF Inv, TypeOK, Op
<1>3. \A k \in 1 .. WordBytes : (1 - 1) * WordBytes + k = k
  BY Sizes
<1>. QED  BY <1>2, <1>3 DEF Op

(* A word that leads to "done" is read only when the program is there. *)
LEMMA GoodWord ==
  ASSUME MaxLosses < WordBytes, Inv, upc \notin {"failed", "done"}, Len(toUnix) >= WordBytes,
         Op \in {"PRINT_STRING", "BOOT_SUCCESS"}
  PROVE  Verified
<1>1. toUnix[1] = <<Op, 1>>
  BY OpIs, Sizes
<1>2. toUnix[1] \in Danger
  BY <1>1 DEF Danger
<1>3. ~Free(toUnix, Danger)
  BY <1>2, Sizes, Bounds DEF Free, Inv
<1>4. ~Barred(toUnix, Left, Danger)
  BY <1>2, BarStops, LeftIs, Alphabet DEF Inv, TypeOK
<1>. QED  BY <1>3, <1>4 DEF Inv, GuardInv

LEMMA NeedIs ==
  ASSUME Inv, ~Starved
  PROVE  /\ Len(toUnix) >= WordBytes /\ Need \in 0 .. Len(toUnix)
         /\ Op = "PRINT_STRING" => Need = 2 * WordBytes + PrintLen
         /\ upc = "sync" /\ Op \notin {"PRINT_STRING", "GET_PROG_INFO"} => Need = ResyncStep
         /\ upc # "result" /\ Op = "GET_PROG_INFO" => Need = WordBytes
         /\ upc = "drain" /\ Op = "GET_CODE" => Need = 2 * WordBytes
         /\ upc = "result" /\ Op # "PRINT_STRING" => Need = WordBytes
<1>1. Need >= 0 /\ Need \in Int /\ Len(toUnix) \in Nat
  BY Sizes, Bounds DEF Need, ResyncStep, Inv
<1>2. Len(toUnix) >= Need
  BY <1>1 DEF Starved
<1>3. Len(toUnix) >= WordBytes
  BY <1>1, <1>2, Sizes DEF Need
<1>4. Need = IF Op = "PRINT_STRING" THEN 2 * WordBytes + PrintLen
             ELSE IF upc = "sync" /\ Op # "GET_PROG_INFO" THEN ResyncStep
             ELSE IF upc = "drain" /\ Op = "GET_CODE" THEN 2 * WordBytes
             ELSE WordBytes
  <2>1. ~(Len(toUnix) < WordBytes)
    BY <1>1, <1>3, Sizes
  <2>. QED  BY <2>1 DEF Need
<1>. QED  BY <1>1, <1>2, <1>3, <1>4

------------------------------------------------------------------------------
(* The steps of my-install. *)

(* It reads k bytes and goes on as before. *)
LEMMA UnixReads ==
  ASSUME MaxLosses < WordBytes, Inv, NEW k \in 0 .. Len(toUnix), toUnix' = Drop(toUnix, k),
         UNCHANGED <<upc, toPi, piVars, faultVars>>,
         Verified \/ Fresh \/ \A i \in 1 .. k : ~Stopper(toUnix[i])
  PROVE  Inv'
<1>. USE DEF piVars, faultVars
<1>1. TypeOK /\ toUnix \in Seq(Byte)
  BY DEF Inv, TypeOK
<1>2. TypeOK'
  BY <1>1, DropIs DEF TypeOK
<1>3. Sent' = Sent /\ Used' = Used /\ Fresh' = Fresh /\ Left' = Left
  BY DEF Sent, Used, Fresh, Left
<1>4. LineInv' /\ StoreInv' /\ CodeInv'
  BY <1>3 DEF Inv, LineInv, StoreInv, CodeInv
<1>5. \A D : BadByte \notin D /\ Free(toUnix, D) => Free(toUnix', D)
  BY <1>1, FreeLines
<1>6. FreshInv'
  BY <1>3, <1>5, Alphabet DEF Inv, FreshInv
<1>7. \A D : Barred(toUnix, Left, D) /\ (\A i \in 1 .. k : ~Stopper(toUnix[i]))
              => Barred(toUnix', Left, D)
  BY <1>1, LeftIs, BarDrop
<1>8. Fresh => Free(toUnix', Danger) /\ ~collided /\ upc # "done"
  BY <1>5, Alphabet DEF Inv, FreshInv
<1>9. GuardInv'
  <2>1. Verified' = Verified
    BY DEF Verified
  <2>. QED  BY <1>3, <1>5, <1>7, <1>8, <2>1, Alphabet DEF Inv, GuardInv
<1>10. CollisionInv'
  <2>1. HeaderRead' = HeaderRead
    BY DEF HeaderRead
  <2>. QED  BY <1>3, <1>7, <1>8, <2>1, VerifiedIs DEF Inv, CollisionInv
<1>. QED  BY <1>2, <1>4, <1>6, <1>9, <1>10 DEF Inv

(* It gives up, whatever it has read. *)
LEMMA UnixFails ==
  ASSUME Inv, upc' = "failed", UNCHANGED <<toPi, piVars, faultVars>>,
         \E k \in 0 .. Len(toUnix) : toUnix' = Drop(toUnix, k)
  PROVE  Inv'
<1>. USE DEF piVars, faultVars
<1>1. TypeOK /\ toUnix \in Seq(Byte)
  BY DEF Inv, TypeOK
<1>2. TypeOK'
  BY <1>1, DropIs DEF TypeOK
<1>3. Used' = Used /\ Fresh' = Fresh
  BY DEF Used, Fresh
<1>4. Sent <= Sent' /\ Sent' \in Nat /\ Sent \in Nat
  <2>1. Fresh => upc \notin {"result", "done"}
    BY DEF Inv, FreshInv
  <2>. QED  BY <1>1, <1>3, <2>1, Sizes DEF Sent, Total, TypeOK
<1>5. LineInv'
  <2>1. \A i \in 1 .. Len(toPi) : \A p \in i + Used .. Sent : p \in i + Used .. Sent'
    BY <1>1, <1>4, Bounds
  <2>. QED  BY <1>1, <1>3, <1>4, <2>1, Bounds DEF Inv, LineInv
<1>6. StoreInv' /\ CodeInv'
  BY <1>1, <1>3, <1>4, Bounds DEF Inv, StoreInv, CodeInv
<1>7. FreshInv'
  BY <1>1, <1>3, FreeLines, Alphabet DEF Inv, FreshInv
<1>8. GuardInv' /\ CollisionInv'
  BY DEF Inv, GuardInv, CollisionInv, HeaderRead
<1>. QED  BY <1>2, <1>5, <1>6, <1>7, <1>8 DEF Inv

LEMMA DropNone == \A s \in Seq(Byte) : Drop(s, 0) = s
BY SubSeqFull DEF Drop

LEMMA UnixPrintInv ==
  ASSUME MaxLosses < WordBytes, Inv, UnixPrint
  PROVE  Inv'
<1>1. /\ Reading /\ ~Starved /\ Op = "PRINT_STRING" /\ UNCHANGED <<toPi, piVars, faultVars>>
      /\ \/ WordAt(toUnix, 2) = "strlen" /\ toUnix' = Drop(toUnix, Need) /\ UNCHANGED upc
         \/ \E k \in 2 * WordBytes .. Len(toUnix) : toUnix' = Drop(toUnix, k) /\ UNCHANGED upc
         \/ upc' = "failed" /\ UNCHANGED toUnix
  BY DEF UnixPrint
<1>2. Len(toUnix) >= WordBytes /\ Need \in 0 .. Len(toUnix)
  BY <1>1, NeedIs
<1>3. Verified
  BY <1>1, <1>2, GoodWord DEF Reading
<1>4. \A k \in 2 * WordBytes .. Len(toUnix) : k \in 0 .. Len(toUnix)
  BY Sizes
<1>5. CASE upc' = "failed" /\ UNCHANGED toUnix
  <2>1. 0 \in 0 .. Len(toUnix) /\ toUnix' = Drop(toUnix, 0)
    BY <1>5, DropNone, Bounds DEF Inv, TypeOK
  <2>. QED  BY <1>1, <1>5, <2>1, UnixFails
<1>6. CASE \E k \in 0 .. Len(toUnix) : toUnix' = Drop(toUnix, k) /\ UNCHANGED upc
  BY <1>1, <1>3, <1>6, UnixReads
<1>. QED  BY <1>1, <1>2, <1>4, <1>5, <1>6

LEMMA UnixSyncInv ==
  ASSUME MaxLosses < WordBytes, Inv, UnixSync
  PROVE  Inv'
<1>1. /\ upc = "sync" /\ ~Starved /\ Op # "PRINT_STRING" /\ UNCHANGED <<piVars, faultVars>>
      /\ TypeOK /\ toUnix \in Seq(Byte) /\ toPi \in Seq(Byte)
  BY DEF UnixSync, Inv, TypeOK
<1>2. Len(toUnix) >= WordBytes /\ Need \in 0 .. Len(toUnix)
  BY <1>1, NeedIs
<1>3. Sent = 0 /\ Used = 0 /\ Len(toPi) = 0 /\ Fresh
  <2>1. Sent = 0
    BY <1>1 DEF Sent
  <2>2. Len(toPi) + Used <= 0
    BY <2>1 DEF Inv, LineInv
  <2>. QED  BY <1>1, <2>1, <2>2, Bounds, Sizes DEF Used
<1>4. CASE Op # "GET_PROG_INFO"
  <2>1. toUnix' = Drop(toUnix, Need) /\ UNCHANGED <<toPi, upc>>
    BY <1>1, <1>4, NeedIs DEF UnixSync
  <2>. QED  BY <1>1, <1>2, <1>3, <2>1, UnixReads
<1>5. CASE Op = "GET_PROG_INFO"
  <2>1. toUnix' = Drop(toUnix, WordBytes) /\ toPi' = toPi \o ProgInfo /\ upc' = "drain"
    BY <1>5 DEF UnixSync
  <2>2. toPi' = ProgInfo
    BY <1>1, <1>3, <2>1, ImageIs, ConcatEmptySeq, EmptySeq
  <2>3. WordBytes \in 0 .. Len(toUnix)
    BY <1>2, Sizes
  <2>4. TypeOK'
    BY <1>1, <2>1, <2>2, <2>3, ImageIs, DropIs DEF TypeOK, piVars, faultVars
  <2>5. Fresh' /\ Used' = 0 /\ Sent' = 4 * WordBytes
    BY <1>1, <1>3, <2>1 DEF Fresh, Used, Sent, piVars
  <2>6. LineInv'
    <3>1. ASSUME NEW i \in 1 .. 4 * WordBytes
          PROVE  i \in i + Used' .. Sent' /\ toPi'[i] = Image[i]
      BY <2>2, <2>5, <3>1, ImageIs, Sizes
    <3>. QED  BY <2>2, <2>5, <3>1, ImageIs, Sizes DEF LineInv
  <2>7. /\ mem' = <<>> /\ ppc' \in {"ask", "wait"} /\ ~collided' /\ addr' = "none"
        /\ Free(toUnix', Early)
    <3>1. mem = <<>> /\ ppc \in {"ask", "wait"} /\ ~collided /\ addr = "none" /\ Free(toUnix, Early)
      BY <1>3 DEF Inv, StoreInv, FreshInv
    <3>. QED  BY <1>1, <2>1, <2>3, <3>1, FreeLines, Alphabet DEF piVars
  <2>. QED
    BY <2>1, <2>4, <2>6, <2>7, Alphabet
    DEF Inv, StoreInv, FreshInv, CodeInv, GuardInv, CollisionInv
<1>. QED  BY <1>4, <1>5

LEMMA UnixDrainInv ==
  ASSUME MaxLosses < WordBytes, Inv, UnixDrain
  PROVE  Inv'
<1>1. /\ upc = "drain" /\ ~Starved /\ Op # "PRINT_STRING" /\ UNCHANGED <<piVars, faultVars>>
      /\ toUnix' = Drop(toUnix, Need)
      /\ TypeOK /\ toUnix \in Seq(Byte) /\ toPi \in Seq(Byte)
  BY DEF UnixDrain, Inv, TypeOK
<1>2. Len(toUnix) >= WordBytes /\ Need \in 0 .. Len(toUnix)
  BY <1>1, NeedIs
<1>3. CASE Repeated(Op)
  <2>1. Op = "GET_PROG_INFO" /\ Need = WordBytes /\ UNCHANGED <<toPi, upc>>
    BY <1>1, <1>3, NeedIs DEF UnixDrain, Repeated
  <2>2. \A i \in 1 .. Need : toUnix[i] = <<"GET_PROG_INFO", i>>
    BY <1>2, <2>1, OpIs
  <2>3. \A i \in 1 .. Need : ~Stopper(toUnix[i])
    BY <2>2 DEF Stopper, BadByte
  <2>. QED  BY <1>1, <1>2, <2>1, <2>3, UnixReads
<1>4. CASE ~Repeated(Op) /\ ~(Op = "GET_CODE" /\ WordAt(toUnix, 2) = "crc")
  <2>1. upc' = "failed" /\ UNCHANGED toPi
    BY <1>4 DEF UnixDrain
  <2>. QED  BY <1>1, <1>2, <2>1, UnixFails
<1>5. CASE Op = "GET_CODE" /\ WordAt(toUnix, 2) = "crc"
  <2>. DEFINE code == Word("PUT_CODE") \o Prog
  <2>1. toPi' = toPi \o Word("PUT_CODE") \o Prog /\ upc' = "result" /\ Need = 2 * WordBytes
    BY <1>1, <1>5, NeedIs DEF UnixDrain, Repeated
  <2>2. toUnix[1] = <<"GET_CODE", 1>>
    BY <1>2, <1>5, OpIs, Sizes
  <2>3. ~Fresh
    <3>1. 1 \in 1 .. Len(toUnix) /\ toUnix[1] \in Early
      BY <1>2, <2>2, Sizes DEF Early
    <3>. QED  BY <3>1 DEF Inv, FreshInv, Free
  <2>4. Sent = 4 * WordBytes /\ Used = 4 * WordBytes /\ Len(toPi) = 0
    <3>1. Sent = 4 * WordBytes /\ Used = 4 * WordBytes
      BY <1>1, <2>3 DEF Sent, Used
    <3>2. Len(toPi) + Used <= Sent
      BY DEF Inv, LineInv
    <3>. QED  BY <1>1, <3>1, <3>2, Bounds
  <2>5. toPi' = code
    <3>1. toPi = <<>>
      BY <1>1, <2>4, EmptySeq
    <3>2. Word("PUT_CODE") \in Seq(Byte)
      BY WordIs DEF Names, Opcodes
    <3>3. <<>> \o Word("PUT_CODE") = Word("PUT_CODE")
      BY <3>2, ConcatEmptySeq
    <3>. QED  BY <2>1, <3>1, <3>3
  <2>6. /\ code \in Seq(Byte) /\ Len(code) = WordBytes + NBytes
        /\ \A i \in 1 .. WordBytes + NBytes : code[i] = Image[4 * WordBytes + i]
    BY ImageIs
  <2>. HIDE DEF code
  <2>7. TypeOK'
    BY <1>1, <1>2, <2>1, <2>5, <2>6, DropIs DEF TypeOK, piVars, faultVars
  <2>8. ~Fresh' /\ Used' = 4 * WordBytes /\ Sent' = Total /\ Left' = Left
    BY <1>1, <2>1, <2>3 DEF Fresh, Used, Sent, Left, piVars, faultVars
  <2>9. LineInv'
    <3>1. ASSUME NEW i \in 1 .. Len(toPi')
          PROVE  4 * WordBytes + i \in i + Used' .. Sent' /\ toPi'[i] = Image[4 * WordBytes + i]
      BY <2>5, <2>6, <2>8, <3>1, Sizes DEF Total
    <3>2. Len(toPi') + Used' <= Sent'
      BY <2>5, <2>6, <2>8, Sizes DEF Total
    <3>. QED  BY <3>1, <3>2 DEF LineInv
  <2>10. mem = <<>> /\ ppc \notin {"load", "running"}
    BY <2>4, Bounds, Sizes DEF Inv, StoreInv, TypeOK
  <2>11. StoreInv' /\ CodeInv' /\ FreshInv'
    BY <1>1, <2>8, <2>10 DEF StoreInv, CodeInv, FreshInv, piVars
  <2>12. GuardInv'
    <3>1. ~Verified
      BY <1>1, VerifiedIs
    <3>2. \A i \in 1 .. Need : ~Stopper(toUnix[i])
      <4>1. \A k \in 1 .. WordBytes : toUnix[k] = <<"GET_CODE", k>>
        BY <1>2, <1>5, OpIs
      <4>2. 2 \in 1 .. 4 /\ 2 * WordBytes <= Len(toUnix)
        BY <1>2, <2>1
      <4>3. \A k \in 1 .. WordBytes : toUnix[(2 - 1) * WordBytes + k] = <<"crc", k>>
        BY <1>1, <1>5, <4>2, WordRead
      <4>4. ASSUME NEW i \in 1 .. Need
            PROVE  toUnix[i] = <<"GET_CODE", i>> \/ toUnix[i] = <<"crc", i - WordBytes>>
        <5>1. CASE i <= WordBytes
          BY <4>1, <5>1
        <5>2. CASE i > WordBytes
          <6>1. i - WordBytes \in 1 .. WordBytes /\ (2 - 1) * WordBytes + (i - WordBytes) = i
            BY <2>1, <5>2, Sizes
          <6>. QED  BY <4>3, <6>1
        <5>. QED  BY <5>1, <5>2, Sizes, <2>1
      <4>. QED  BY <4>4 DEF Stopper, BadByte
    <3>3. Free(toUnix, Danger) \/ Barred(toUnix, Left, Danger)
      BY <1>1, <3>1 DEF Inv, GuardInv
    <3>4. Free(toUnix', Danger) \/ Barred(toUnix', Left, Danger)
      BY <1>1, <1>2, <3>2, <3>3, FreeLines, Alphabet, BarDrop, LeftIs
    <3>. QED  BY <2>1, <2>8, <3>4 DEF GuardInv
  <2>13. CollisionInv'
    <3>1. ~Barred(toUnix, Left, Early)
      <4>1. toUnix[1] \in Early
        BY <2>2 DEF Early
      <4>. QED  BY <1>1, <4>1, LeftIs, BarStops, Alphabet
    <3>2. ~(collided /\ HeaderRead)
      BY <1>1, <3>1 DEF Inv, CollisionInv
    <3>. QED  BY <1>1, <3>2 DEF CollisionInv, HeaderRead, piVars
  <2>. QED  BY <2>7, <2>9, <2>11, <2>12, <2>13 DEF Inv
<1>. QED  BY <1>3, <1>4, <1>5

LEMMA UnixResultInv ==
  ASSUME MaxLosses < WordBytes, Inv, UnixResult
  PROVE  Inv'
<1>1. /\ upc = "result" /\ ~Starved /\ Op # "PRINT_STRING"
      /\ UNCHANGED <<toPi, piVars, faultVars>> /\ toUnix' = Drop(toUnix, Need)
      /\ TypeOK /\ toUnix \in Seq(Byte) /\ upc' = IF Success(Op) THEN "done" ELSE "failed"
  BY DEF UnixResult, Inv, TypeOK
<1>2. Len(toUnix) >= WordBytes /\ Need \in 0 .. Len(toUnix)
  BY <1>1, NeedIs
<1>3. CASE ~Success(Op)
  BY <1>1, <1>2, <1>3, UnixFails
<1>4. CASE Success(Op)
  <2>1. Verified
    BY <1>1, <1>2, <1>4, GoodWord DEF Success
  <2>2. ~Fresh /\ ~collided
    BY <2>1, VerifiedIs
  <2>3. ~Fresh' /\ ~collided' /\ Verified' /\ Sent' = Sent /\ Used' = Used /\ upc' = "done"
    BY <1>1, <1>4, <2>1, <2>2 DEF Fresh, Verified, Sent, Used, piVars
  <2>4. TypeOK'
    BY <1>1, <1>2, <2>3, DropIs DEF TypeOK, piVars, faultVars
  <2>. QED
    BY <1>1, <2>3, <2>4
    DEF Inv, LineInv, StoreInv, FreshInv, CodeInv, GuardInv, CollisionInv, piVars, Fresh
<1>. QED  BY <1>3, <1>4

LEMMA UnixTimeoutInv ==
  ASSUME Inv, UnixTimeout
  PROVE  Inv'
<1>1. /\ upc' = "failed" /\ UNCHANGED <<toPi, toUnix, piVars, faultVars>>
      /\ toUnix \in Seq(Byte)
  BY DEF UnixTimeout, Inv, TypeOK
<1>2. 0 \in 0 .. Len(toUnix) /\ toUnix' = Drop(toUnix, 0)
  BY <1>1, DropNone, LenProperties
<1>. QED  BY <1>1, <1>2, UnixFails

------------------------------------------------------------------------------
(* The steps of the pi. *)

(* It says something harmless, or nothing. *)
LEMMA PiSays ==
  ASSUME NEW D, NEW s \in Seq(Byte), NEW t \in Seq(Byte), Free(t, D), BadByte \notin D, NEW m \in Nat
  PROVE  /\ Free(s, D) => Free(s \o t, D)
         /\ Barred(s, m, D) => Barred(s \o t, m, D)
BY FreeLines, BarJoin

LEMMA PiAskInv ==
  ASSUME MaxLosses < WordBytes, Inv, PiAsk \/ PiTimeout
  PROVE  Inv'
<1>. DEFINE w == Word("GET_PROG_INFO")
<1>1. /\ UNCHANGED <<upc, addr, n, crc, mem, collided, faultVars, toPi>>
      /\ ppc \in {"ask", "wait"} /\ ppc' \in {"ask", "wait"}
      /\ toUnix' = toUnix \o w \/ toUnix' = toUnix
      /\ TypeOK /\ toUnix \in Seq(Byte)
  BY DEF PiAsk, PiTimeout, Inv, TypeOK, unixVars
<1>2. w \in Seq(Byte) /\ Free(w, Danger) /\ Free(w, Early)
  BY WordIs, WordFree DEF Names, Opcodes
<1>. HIDE DEF w
<1>3. toUnix' \in Seq(Byte)
  BY <1>1, <1>2, JoinIs
<1>4. TypeOK'
  BY <1>1, <1>3 DEF TypeOK, faultVars
<1>5. Sent' = Sent /\ Used' = Used /\ Fresh' = Fresh /\ Left' = Left /\ Verified' = Verified
      /\ HeaderRead' = HeaderRead
  BY <1>1 DEF Sent, Used, Fresh, Left, Verified, HeaderRead, faultVars
<1>6. LineInv' /\ StoreInv' /\ CodeInv'
  BY <1>1, <1>5 DEF Inv, LineInv, StoreInv, CodeInv
<1>7. \A D \in {Danger, Early} : /\ Free(toUnix, D) => Free(toUnix', D)
                                 /\ Barred(toUnix, Left, D) => Barred(toUnix', Left, D)
  <2>1. Left \in Nat
    BY <1>1, LeftIs, Sizes
  <2>2. ASSUME NEW D \in {Danger, Early}
        PROVE  /\ Free(toUnix, D) => Free(toUnix \o w, D)
               /\ Barred(toUnix, Left, D) => Barred(toUnix \o w, Left, D)
    <3>1. Free(w, D) /\ BadByte \notin D
      BY <1>2, Alphabet
    <3>. QED  BY <1>1, <1>2, <2>1, <3>1, PiSays
  <2>. QED  BY <1>1, <2>2
<1>8. FreshInv'
  BY <1>1, <1>5, <1>7 DEF Inv, FreshInv
<1>9. GuardInv'
  BY <1>1, <1>5, <1>7 DEF Inv, GuardInv
<1>10. CollisionInv'
  BY <1>1, <1>5, <1>7 DEF Inv, CollisionInv
<1>. QED  BY <1>4, <1>6, <1>8, <1>9, <1>10 DEF Inv

(* A word of the header is where my-install has put it, and of no earlier header. *)
LEMMA HeaderIs ==
  ASSUME Inv, 4 * WordBytes <= Len(toPi)
  PROVE  /\ WordAt(toPi, 4) \in Opcodes \cup Fields \cup {"bad"}
         /\ WordAt(toPi, 4) \notin {"PRINT_STRING", "BOOT_SUCCESS"}
         /\ WordAt(toPi, 2) = "ARMBASE" => Fresh
         /\ WordAt(toPi, 4) = "crc" => Fresh
<1>. TypeOK /\ toPi \in Seq(Byte) /\ WordBytes \in Nat \ {0} /\ NBytes \in Nat \ {0}
  BY Sizes DEF Inv, TypeOK
<1>1. ASSUME NEW i \in 1 .. 4, WordAt(toPi, i) # "bad"
      PROVE  \E p \in i * WordBytes + Used .. Total : Image[p] = <<WordAt(toPi, i), WordBytes>>
  <2>1. i * WordBytes <= Len(toPi) /\ i * WordBytes \in 1 .. Len(toPi)
        /\ (i - 1) * WordBytes + WordBytes = i * WordBytes
    <3>1. i = 1 \/ i = 2 \/ i = 3 \/ i = 4
      OBVIOUS
    <3>. QED  BY <3>1
  <2>2. toPi[i * WordBytes] = <<WordAt(toPi, i), WordBytes>>
    <3>1. \A k \in 1 .. WordBytes : toPi[(i - 1) * WordBytes + k] = <<WordAt(toPi, i), k>>
      BY <1>1, <2>1, WordRead
    <3>2. WordBytes \in 1 .. WordBytes
      OBVIOUS
    <3>3. toPi[(i - 1) * WordBytes + WordBytes] = <<WordAt(toPi, i), WordBytes>>
      BY <3>1, <3>2
    <3>. QED  BY <2>1, <3>3
  <2>3. toPi[i * WordBytes] # BadByte
    BY <1>1, <2>2 DEF BadByte
  <2>4. PICK p \in i * WordBytes + Used .. Sent : toPi[i * WordBytes] = Image[p]
    BY <2>1, <2>3 DEF Inv, LineInv
  <2>5. p \in i * WordBytes + Used .. Total
    BY Bounds, <2>1
  <2>. QED  BY <2>2, <2>4, <2>5
<1>2. Used \in {0, 4 * WordBytes} /\ (~Fresh => Used = 4 * WordBytes)
  BY DEF Used
<1>3. WordAt(toPi, 4) \in Opcodes \cup Fields \cup {"bad"}
  BY WordRead
<1>4. WordAt(toPi, 4) \notin {"PRINT_STRING", "BOOT_SUCCESS"}
  <2>. SUFFICES ASSUME WordAt(toPi, 4) \in {"PRINT_STRING", "BOOT_SUCCESS"} PROVE FALSE
    OBVIOUS
  <2>1. PICK p \in 4 * WordBytes + Used .. Total : Image[p] = <<WordAt(toPi, 4), WordBytes>>
    BY <1>1
  <2>2. p \in 1 .. Total /\ p >= 4 * WordBytes
    BY <1>2, <2>1
  <2>. QED  BY <2>1, <2>2, ImageAt
<1>5. ASSUME WordAt(toPi, 2) = "ARMBASE" PROVE Fresh
  <2>1. PICK p \in 2 * WordBytes + Used .. Total : Image[p] = <<"ARMBASE", WordBytes>>
    BY <1>1, <1>5
  <2>2. p \in 1 .. Total /\ p >= 2 * WordBytes + Used
    BY <1>2, <2>1
  <2>3. p <= 2 * WordBytes
    BY <2>1, <2>2, <1>2, ImageAt
  <2>. QED  BY <1>2, <2>2, <2>3
<1>6. ASSUME WordAt(toPi, 4) = "crc" PROVE Fresh
  <2>1. PICK p \in 4 * WordBytes + Used .. Total : Image[p] = <<"crc", WordBytes>>
    BY <1>1, <1>6
  <2>2. p \in 1 .. Total /\ p >= 4 * WordBytes + Used
    BY <1>2, <2>1
  <2>3. p <= 4 * WordBytes
    BY <2>1, <2>2, <1>2, ImageAt
  <2>. QED  BY <1>2, <2>2, <2>3
<1>. QED  BY <1>3, <1>4, <1>5, <1>6

LEMMA PiGetInfoInv ==
  ASSUME MaxLosses < WordBytes, Inv, PiGetInfo
  PROVE  Inv'
<1>. DEFINE r == Report(collided') g == Word("GET_CODE") e == Word(crc')
<1>1. /\ ppc = "wait" /\ Len(toPi) >= 4 * WordBytes
      /\ addr' = IF WordAt(toPi, 2) = "ARMBASE" THEN "ARMBASE" ELSE "other"
      /\ n' \in IF WordAt(toPi, 3) = "nbytes" THEN {NBytes} ELSE 0 .. MaxBytes
      /\ crc' = WordAt(toPi, 4) /\ collided' \in BOOLEAN
      /\ mem' = <<>> /\ toPi' = Drop(toPi, 4 * WordBytes)
      /\ toUnix' = toUnix \o r \o g \o e /\ ppc' = "code"
      /\ UNCHANGED <<upc, faultVars>>
  <2>1. collided' \in BOOLEAN
    <3>1. collided' \in IF addr' = "ARMBASE" THEN {n' >= Room} ELSE BOOLEAN
      BY DEF PiGetInfo
    <3>2. {n' >= Room} \subseteq BOOLEAN
      OBVIOUS
    <3>. QED  BY <3>1, <3>2
  <2>. QED  BY <2>1 DEF PiGetInfo, unixVars
<1>2. /\ TypeOK /\ toPi \in Seq(Byte) /\ toUnix \in Seq(Byte)
      /\ WordBytes \in Nat \ {0} /\ NBytes \in Nat \ {0} /\ 4 * WordBytes \in 0 .. Len(toPi)
  BY <1>1, Sizes, Bounds DEF Inv, TypeOK
<1>3. crc' \in Names /\ crc' \notin {"PRINT_STRING", "BOOT_SUCCESS", "none"}
  BY <1>1, <1>2, HeaderIs DEF Names, Opcodes, Fields
<1>4. /\ r \in Seq(Byte) /\ Free(r, Danger) /\ g \in Seq(Byte) /\ Free(g, Danger)
      /\ e \in Seq(Byte) /\ Free(e, Danger)
  <2>1. <<>> \in Seq(Byte) /\ Free(<<>>, Danger)
    BY EmptySeq DEF Free
  <2>. QED  BY <1>3, <2>1, WordIs, WordFree DEF Report, Names, Opcodes
<1>5. collided' => r = Word("BOOT_ERROR")
  BY DEF Report
<1>. HIDE DEF r, g, e
<1>6. /\ toPi' \in Seq(Byte) /\ Len(toPi') = Len(toPi) - 4 * WordBytes
      /\ \A i \in 1 .. Len(toPi) - 4 * WordBytes : toPi'[i] = toPi[i + 4 * WordBytes]
  BY <1>1, <1>2, DropIs
<1>7. toUnix \o r \in Seq(Byte) /\ toUnix \o r \o g \in Seq(Byte) /\ toUnix' \in Seq(Byte)
  BY <1>1, <1>2, <1>4, JoinIs
<1>8. TypeOK'
  <2>1. n' \in Nat
    BY <1>1, Sizes
  <2>. QED  BY <1>1, <1>2, <1>3, <1>6, <1>7, <2>1, EmptySeq DEF TypeOK, faultVars
<1>9. /\ ~Fresh' /\ Used' = 4 * WordBytes /\ Left' = Left
      /\ Sent <= Sent' /\ Sent' \in Nat /\ Sent \in Nat
  <2>1. ~Fresh' /\ Used' = 4 * WordBytes /\ Left' = Left
    BY <1>1, <1>3 DEF Fresh, Used, Left, faultVars
  <2>. QED  BY <1>1, <1>2, <2>1, Sizes DEF Sent, Total
<1>10. LineInv'
  <2>1. Len(toPi) + Used <= Sent
    BY DEF Inv, LineInv
  <2>2. Len(toPi') + Used' <= Sent'
    BY <1>2, <1>6, <1>9, <2>1, Bounds
  <2>3. ASSUME NEW i \in 1 .. Len(toPi'), toPi'[i] # BadByte
        PROVE  \E p \in i + Used' .. Sent' : toPi'[i] = Image[p]
    <3>1. i + 4 * WordBytes \in 1 .. Len(toPi) /\ toPi'[i] = toPi[i + 4 * WordBytes]
      BY <1>2, <1>6
    <3>2. PICK p \in (i + 4 * WordBytes) + Used .. Sent : toPi[i + 4 * WordBytes] = Image[p]
      BY <2>3, <3>1 DEF Inv, LineInv
    <3>3. p \in i + Used' .. Sent'
      BY <1>2, <1>9, <3>2, Bounds
    <3>. QED  BY <3>1, <3>2, <3>3
  <2>. QED  BY <2>2, <2>3 DEF LineInv
<1>11. StoreInv' /\ CodeInv' /\ FreshInv'
  BY <1>1, <1>9 DEF StoreInv, CodeInv, FreshInv
<1>12. GuardInv'
  <2>1. ~Verified
    BY <1>1, <1>2, VerifiedIs, Sizes
  <2>2. CASE Free(toUnix, Danger)
    <3>1. Free(toUnix', Danger)
      BY <1>1, <1>2, <1>4, <1>7, <2>2, FreeLines, Alphabet
    <3>. QED  BY <1>1, <2>1, <3>1 DEF Inv, GuardInv
  <2>3. CASE Barred(toUnix, Left, Danger)
    <3>2. Left \in Nat
      BY <1>2, LeftIs
    <3>3. Barred(toUnix \o r, Left, Danger)
      BY <1>2, <1>4, <2>3, <3>2, BarJoin
    <3>4. Barred(toUnix \o r \o g, Left, Danger)
      BY <1>4, <1>7, <3>2, <3>3, BarJoin
    <3>1. Barred(toUnix', Left, Danger)
      BY <1>1, <1>4, <1>7, <3>2, <3>4, BarJoin
    <3>. QED  BY <1>1, <1>9, <2>1, <3>1 DEF Inv, GuardInv
  <2>4. CASE upc = "failed"
    BY <1>1, <2>4 DEF GuardInv
  <2>. QED  BY <2>1, <2>2, <2>3, <2>4 DEF Inv, GuardInv
<1>13. CollisionInv'
  <2>. SUFFICES ASSUME collided', HeaderRead'
                PROVE  toPi' = <<>> /\ (upc' = "failed" \/ (upc' = "drain" /\ Barred(toUnix', Left, Early)))
    BY <1>1, <1>9 DEF CollisionInv
  <2>1. Fresh
    BY <1>1, <1>2, HeaderIs DEF HeaderRead
  <2>2. upc \in {"sync", "drain", "failed"} /\ Free(toUnix, Early)
    BY <1>2, <2>1 DEF Inv, FreshInv, TypeOK
  <2>3. Len(toPi) <= Sent /\ Sent <= 4 * WordBytes /\ (upc = "sync" => Sent = 0)
    BY <1>2, <2>1, <2>2, Bounds DEF Inv, LineInv, Sent, Used
  <2>4. toPi' = <<>>
    <3>2. Len(toPi) \in Nat /\ Len(toPi) >= 4 * WordBytes /\ Len(toPi) <= 4 * WordBytes
      BY <1>1, <1>2, <1>9, <2>3, Bounds
    <3>3. Len(toPi') = Len(toPi) - 4 * WordBytes
      BY <1>6
    <3>1. Len(toPi') = 0
      BY <3>2, <3>3, <1>2
    <3>. QED  BY <1>6, <3>1, EmptySeq
  <2>5. upc # "sync"
    BY <1>1, <1>2, <2>3
  <2>9. Left \in Nat /\ Left \in 0 .. WordBytes
    BY <1>2, LeftIs
  <2>6. Barred(toUnix \o r, Left, Early)
    BY <1>2, <1>5, <2>2, <2>9, BarNew
  <2>7. Barred(toUnix \o r \o g, Left, Early)
    BY <1>4, <1>7, <2>6, <2>9, BarJoin
  <2>8. Barred(toUnix', Left, Early)
    BY <1>1, <1>4, <1>7, <2>7, <2>9, BarJoin
  <2>. QED  BY <1>1, <2>2, <2>4, <2>5, <2>8
<1>. QED  BY <1>8, <1>10, <1>11, <1>12, <1>13 DEF Inv

(* Bytes of the line are read, damaged or lost: what is left is still in order. *)
LEMMA LineShrinks ==
  ASSUME TypeOK, LineInv, toPi' \in Seq(Byte), Len(toPi') <= Len(toPi),
         UNCHANGED <<upc, crc>>,
         \A i \in 1 .. Len(toPi') :
            toPi'[i] = BadByte \/ \E j \in i .. Len(toPi) : toPi'[i] = toPi[j]
  PROVE  LineInv'
<1>1. Sent' = Sent /\ Used' = Used /\ Sent \in Nat /\ Used \in Nat
      /\ Len(toPi) \in Nat /\ Len(toPi') \in Nat
  BY Bounds, Sizes DEF Sent, Used, Fresh
<1>2. Len(toPi') + Used' <= Sent'
  BY <1>1 DEF LineInv
<1>3. ASSUME NEW i \in 1 .. Len(toPi'), toPi'[i] # BadByte
      PROVE  \E p \in i + Used' .. Sent' : toPi'[i] = Image[p]
  <2>1. PICK j \in i .. Len(toPi) : toPi'[i] = toPi[j]
    BY <1>3
  <2>2. PICK p \in j + Used .. Sent : toPi[j] = Image[p]
    BY <1>1, <1>3, <2>1 DEF LineInv
  <2>3. p \in i + Used' .. Sent'
    BY <1>1, <2>1, <2>2
  <2>. QED  BY <2>1, <2>2, <2>3
<1>. QED  BY <1>2, <1>3 DEF LineInv

LEMMA LineDrop ==
  ASSUME TypeOK, LineInv, NEW k \in 0 .. Len(toPi), toPi' = Drop(toPi, k), UNCHANGED <<upc, crc>>
  PROVE  LineInv' /\ toPi' \in Seq(Byte) /\ Len(toPi') = Len(toPi) - k
<1>1. toPi \in Seq(Byte) /\ Len(toPi) \in Nat
  BY Bounds DEF TypeOK
<1>2. /\ toPi' \in Seq(Byte) /\ Len(toPi') = Len(toPi) - k
      /\ \A i \in 1 .. Len(toPi) - k : toPi'[i] = toPi[i + k]
  BY <1>1, DropIs
<1>3. \A i \in 1 .. Len(toPi') : i + k \in i .. Len(toPi)
  BY <1>1, <1>2
<1>4. \A i \in 1 .. Len(toPi') : \E j \in i .. Len(toPi) : toPi'[i] = toPi[j]
  BY <1>2, <1>3
<1>5. Len(toPi') <= Len(toPi)
  BY <1>1, <1>2
<1>. QED  BY <1>2, <1>4, <1>5, LineShrinks

LEMMA PiPutCodeInv ==
  ASSUME MaxLosses < WordBytes, Inv, PiPutCode
  PROVE  Inv'
<1>1. /\ ppc = "code" /\ Len(toPi) >= WordBytes /\ toPi' = Drop(toPi, WordBytes) /\ ppc' = "load"
      /\ UNCHANGED <<upc, addr, n, crc, mem, collided, faultVars, toUnix>>
      /\ TypeOK /\ LineInv
  BY DEF PiPutCode, unixVars, Inv
<1>2. WordBytes \in 0 .. Len(toPi) /\ Len(toPi) > 0
  BY <1>1, Bounds, Sizes
<1>3. LineInv' /\ toPi' \in Seq(Byte) /\ Len(toPi') = Len(toPi) - WordBytes
  BY <1>1, <1>2, LineDrop
<1>4. TypeOK'
  BY <1>1, <1>3 DEF TypeOK, faultVars
<1>5. mem = <<>> /\ ~Fresh
  BY <1>1 DEF Inv, CodeInv, FreshInv
<1>6. ~Fresh' /\ Sent' = Sent /\ Left' = Left /\ Verified' = Verified /\ HeaderRead' = HeaderRead
  BY <1>1, <1>5 DEF Fresh, Sent, Left, Verified, HeaderRead, faultVars
<1>7. StoreInv'
  <2>1. Len(toPi) + 4 * WordBytes <= Sent
    BY <1>1, <1>5 DEF LineInv, Used
  <2>2. Len(mem') = 0
    BY <1>1, <1>5
  <2>3. Len(mem') + Len(toPi') + 5 * WordBytes <= Sent'
    BY <1>1, <1>3, <1>6, <2>1, <2>2, Bounds
  <2>. QED  BY <1>6, <2>3 DEF StoreInv
<1>8. GuardInv'
  BY <1>1, <1>6 DEF Inv, GuardInv
<1>9. CollisionInv'
  <2>1. toPi # <<>>
    BY <1>2, EmptySeq
  <2>. QED  BY <1>1, <1>6, <2>1 DEF Inv, CollisionInv
<1>. QED  BY <1>1, <1>3, <1>4, <1>6, <1>7, <1>8, <1>9 DEF Inv, FreshInv, CodeInv

LEMMA PiLoadInv ==
  ASSUME MaxLosses < WordBytes, Inv, PiLoad
  PROVE  Inv'
<1>1. /\ ppc = "load" /\ toPi # <<>> /\ mem' = Append(mem, Head(toPi)) /\ toPi' = Tail(toPi)
      /\ UNCHANGED <<upc, ppc, addr, n, crc, collided, faultVars, toUnix>>
      /\ TypeOK /\ LineInv /\ toPi \in Seq(Byte) /\ mem \in Seq(Byte)
  BY DEF PiLoad, unixVars, Inv, TypeOK
<1>2. /\ toPi' \in Seq(Byte) /\ Len(toPi') = Len(toPi) - 1
      /\ \A i \in 1 .. Len(toPi') : toPi'[i] = toPi[i + 1]
      /\ Head(toPi) \in Byte
  BY <1>1, HeadTailProperties
<1>3. mem' \in Seq(Byte) /\ Len(mem') = Len(mem) + 1
  BY <1>1, <1>2, AppendProperties
<1>4. LineInv'
  <2>1. \A i \in 1 .. Len(toPi') : i + 1 \in i .. Len(toPi)
    BY <1>2, Bounds, <1>1
  <2>2. \A i \in 1 .. Len(toPi') : \E j \in i .. Len(toPi) : toPi'[i] = toPi[j]
    BY <1>2, <2>1
  <2>3. Len(toPi') <= Len(toPi)
    BY <1>1, <1>2, Bounds
  <2>. QED  BY <1>1, <1>2, <2>2, <2>3, LineShrinks
<1>5. TypeOK'
  BY <1>1, <1>2, <1>3 DEF TypeOK, faultVars
<1>6. ~Fresh /\ Len(mem) + Len(toPi) + 5 * WordBytes <= Sent
  BY <1>1 DEF Inv, StoreInv
<1>7. ~Fresh' /\ Sent' = Sent /\ Left' = Left /\ HeaderRead' = HeaderRead /\ ~Verified
  BY <1>1, <1>6, VerifiedIs DEF Fresh, Sent, Left, HeaderRead, faultVars
<1>8. StoreInv'
  BY <1>1, <1>2, <1>3, <1>6, <1>7, Bounds DEF StoreInv
<1>9. GuardInv'
  BY <1>1, <1>7 DEF Inv, GuardInv
<1>10. CollisionInv'
  BY <1>1, <1>7 DEF Inv, CollisionInv
<1>. QED  BY <1>1, <1>4, <1>5, <1>7, <1>8, <1>9, <1>10 DEF Inv, FreshInv, CodeInv

LEMMA PiVerifyInv ==
  ASSUME MaxLosses < WordBytes, Inv, PiVerify
  PROVE  Inv'
<1>. DEFINE r == Report(~Verified) m == PrintMessage e == Word("BOOT_SUCCESS")
<1>1. /\ ppc = "load" /\ toUnix' = toUnix \o r \o m \o e /\ ppc' \in {"running", "ask"}
      /\ UNCHANGED <<upc, addr, n, crc, mem, collided, faultVars, toPi>>
      /\ TypeOK /\ toUnix \in Seq(Byte)
  BY DEF PiVerify, unixVars, Inv, TypeOK
<1>2. r \in Seq(Byte) /\ m \in Seq(Byte) /\ e \in Seq(Byte)
  <2>1. <<>> \in Seq(Byte)
    OBVIOUS
  <2>. QED  BY <2>1, WordIs, PrintIs DEF Report, Names, Opcodes
<1>3. ~Verified => r = Word("BOOT_ERROR")
  BY DEF Report
<1>. HIDE DEF r, m, e
<1>4. toUnix \o r \in Seq(Byte) /\ toUnix \o r \o m \in Seq(Byte) /\ toUnix' \in Seq(Byte)
  BY <1>1, <1>2, JoinIs
<1>5. TypeOK'
  BY <1>1, <1>4 DEF TypeOK, faultVars
<1>6. ~Fresh /\ Len(mem) + Len(toPi) + 5 * WordBytes <= Sent
  BY <1>1 DEF Inv, StoreInv
<1>7. ~Fresh' /\ Sent' = Sent /\ Used' = Used /\ Left' = Left /\ Verified' = Verified
      /\ HeaderRead' = HeaderRead
  BY <1>1, <1>6 DEF Fresh, Sent, Used, Left, Verified, HeaderRead, faultVars
<1>8. LineInv' /\ StoreInv' /\ FreshInv' /\ CodeInv'
  BY <1>1, <1>6, <1>7 DEF Inv, LineInv, StoreInv, FreshInv, CodeInv
<1>9. Left \in Nat /\ Left \in 0 .. WordBytes
  BY <1>1, LeftIs
<1>10. GuardInv'
  <2>. SUFFICES ASSUME ~Verified, upc # "failed"
                PROVE  upc # "done" /\ Barred(toUnix', Left, Danger)
    BY <1>1, <1>7 DEF GuardInv
  <2>1. upc # "done" /\ (Free(toUnix, Danger) \/ Barred(toUnix, Left, Danger))
    BY DEF Inv, GuardInv
  <2>2. Barred(toUnix \o r, Left, Danger)
    <3>1. CASE Free(toUnix, Danger)
      BY <1>1, <1>3, <1>9, <3>1, BarNew
    <3>2. CASE Barred(toUnix, Left, Danger)
      BY <1>1, <1>2, <1>9, <3>2, BarJoin
    <3>. QED  BY <2>1, <3>1, <3>2
  <2>3. Barred(toUnix \o r \o m, Left, Danger)
    BY <1>2, <1>4, <1>9, <2>2, BarJoin
  <2>4. Barred(toUnix', Left, Danger)
    BY <1>1, <1>2, <1>4, <1>9, <2>3, BarJoin
  <2>. QED  BY <2>1, <2>4
<1>11. CollisionInv'
  <2>1. upc # "drain"
    BY <1>1, <1>6, Bounds DEF Sent
  <2>. QED  BY <1>1, <1>7, <2>1 DEF Inv, CollisionInv
<1>. QED  BY <1>5, <1>8, <1>10, <1>11 DEF Inv

------------------------------------------------------------------------------
(* The steps of the world. *)

LEMMA CorruptInv ==
  ASSUME MaxLosses < WordBytes, Inv, Corrupt
  PROVE  Inv'
<1>1. /\ faults' = faults + 1 /\ UNCHANGED <<upc, piVars, losses, resets>>
      /\ TypeOK /\ LineInv /\ toPi \in Seq(Byte) /\ toUnix \in Seq(Byte)
      /\ \/ \E i \in 1 .. Len(toPi) : toPi' = [toPi EXCEPT ![i] = BadByte] /\ UNCHANGED toUnix
         \/ \E i \in 1 .. Len(toUnix) : toUnix' = [toUnix EXCEPT ![i] = BadByte] /\ UNCHANGED toPi
  BY DEF Corrupt, unixVars, Inv, TypeOK
<1>2. Sent' = Sent /\ Used' = Used /\ Left' = Left /\ Fresh' = Fresh /\ Verified' = Verified
      /\ HeaderRead' = HeaderRead
  BY <1>1 DEF Sent, Used, Left, Fresh, Verified, HeaderRead, piVars
<1>3. CASE \E i \in 1 .. Len(toPi) : toPi' = [toPi EXCEPT ![i] = BadByte] /\ UNCHANGED toUnix
  <2>. PICK k \in 1 .. Len(toPi) : toPi' = [toPi EXCEPT ![k] = BadByte] /\ UNCHANGED toUnix
    BY <1>3
  <2>1. /\ toPi' \in Seq(Byte) /\ Len(toPi') = Len(toPi)
        /\ \A i \in 1 .. Len(toPi) : toPi'[i] = IF i = k THEN BadByte ELSE toPi[i]
    BY <1>1, DamagedIs
  <2>2. LineInv'
    <3>1. ASSUME NEW i \in 1 .. Len(toPi'), toPi'[i] # BadByte
          PROVE  \E j \in i .. Len(toPi) : toPi'[i] = toPi[j]
      <4>1. i \in i .. Len(toPi) /\ toPi'[i] = toPi[i]
        BY <1>1, <2>1, <3>1, Bounds
      <4>. QED  BY <4>1
    <3>2. Len(toPi') <= Len(toPi)
      BY <1>1, <2>1, Bounds
    <3>. QED  BY <1>1, <2>1, <3>1, <3>2, LineShrinks DEF piVars
  <2>3. TypeOK'
    BY <1>1, <2>1 DEF TypeOK, piVars
  <2>4. StoreInv' /\ FreshInv' /\ CodeInv' /\ GuardInv'
    BY <1>1, <1>2, <2>1 DEF Inv, StoreInv, FreshInv, CodeInv, GuardInv, piVars
  <2>5. CollisionInv'
    <3>1. toPi # <<>>
      BY <1>1, Bounds, EmptySeq
    <3>. QED  BY <1>1, <1>2, <3>1 DEF Inv, CollisionInv, piVars
  <2>. QED  BY <2>2, <2>3, <2>4, <2>5 DEF Inv
<1>4. CASE \E i \in 1 .. Len(toUnix) : toUnix' = [toUnix EXCEPT ![i] = BadByte] /\ UNCHANGED toPi
  <2>. PICK k \in 1 .. Len(toUnix) : toUnix' = [toUnix EXCEPT ![k] = BadByte] /\ UNCHANGED toPi
    BY <1>4
  <2>1. toUnix' \in Seq(Byte)
    BY <1>1, DamagedIs
  <2>2. TypeOK'
    BY <1>1, <2>1 DEF TypeOK, piVars
  <2>3. LineInv' /\ StoreInv' /\ CodeInv'
    BY <1>1, <1>2 DEF Inv, LineInv, StoreInv, CodeInv, piVars
  <2>4. \A D : BadByte \notin D /\ Free(toUnix, D) => Free(toUnix', D)
    BY <1>1, FreeLines
  <2>5. \A D : BadByte \notin D /\ Barred(toUnix, Left, D) => Barred(toUnix', Left, D)
    <3>1. Left \in Nat
      BY <1>1, LeftIs
    <3>. QED  BY <1>1, <3>1, BarDamaged
  <2>6. FreshInv' /\ GuardInv' /\ CollisionInv'
    BY <1>1, <1>2, <2>4, <2>5, Alphabet DEF Inv, FreshInv, GuardInv, CollisionInv, piVars
  <2>. QED  BY <2>2, <2>3, <2>6 DEF Inv
<1>. QED  BY <1>1, <1>3, <1>4

LEMMA LoseInv ==
  ASSUME MaxLosses < WordBytes, Inv, Lose
  PROVE  Inv'
<1>1. /\ losses < MaxLosses /\ losses' = losses + 1 /\ UNCHANGED <<upc, piVars, faults, resets>>
      /\ TypeOK /\ LineInv /\ toPi \in Seq(Byte) /\ toUnix \in Seq(Byte)
      /\ \/ \E i \in 1 .. Len(toPi) : toPi' = Without(toPi, i) /\ UNCHANGED toUnix
         \/ \E i \in 1 .. Len(toUnix) : toUnix' = Without(toUnix, i) /\ UNCHANGED toPi
  BY DEF Lose, unixVars, Inv, TypeOK
<1>2. /\ Sent' = Sent /\ Used' = Used /\ Fresh' = Fresh /\ Verified' = Verified
      /\ HeaderRead' = HeaderRead /\ Left' = Left - 1 /\ Left \in Nat \ {0}
      /\ losses' \in 0 .. MaxLosses
  <2>1. losses' \in 0 .. MaxLosses /\ Left' = Left - 1
    BY <1>1, Sizes DEF TypeOK, Left
  <2>2. Left \in Nat \ {0}
    BY <1>1, LeftIs
  <2>. QED  BY <1>1, <2>1, <2>2 DEF Sent, Used, Fresh, Verified, HeaderRead, piVars
<1>3. CASE \E i \in 1 .. Len(toPi) : toPi' = Without(toPi, i) /\ UNCHANGED toUnix
  <2>. PICK k \in 1 .. Len(toPi) : toPi' = Without(toPi, k) /\ UNCHANGED toUnix
    BY <1>3
  <2>1. /\ toPi' \in Seq(Byte) /\ Len(toPi') = Len(toPi) - 1
        /\ \A i \in 1 .. k - 1 : toPi'[i] = toPi[i]
        /\ \A i \in k .. Len(toPi) - 1 : toPi'[i] = toPi[i + 1]
    BY <1>1, WithoutIs
  <2>2. Len(toPi) \in Nat /\ Len(toPi') <= Len(toPi)
    BY <1>1, <2>1, Bounds
  <2>3. LineInv'
    <3>1. ASSUME NEW i \in 1 .. Len(toPi')
          PROVE  \E j \in i .. Len(toPi) : toPi'[i] = toPi[j]
      <4>1. i \in i .. Len(toPi) /\ i + 1 \in i .. Len(toPi)
        BY <2>1, <2>2
      <4>2. i \in 1 .. k - 1 \/ i \in k .. Len(toPi) - 1
        BY <2>1, <2>2
      <4>. QED  BY <2>1, <4>1, <4>2
    <3>. QED  BY <1>1, <2>1, <2>2, <3>1, LineShrinks DEF piVars
  <2>4. TypeOK'
    BY <1>1, <1>2, <2>1 DEF TypeOK, piVars
  <2>5. \A D : Barred(toUnix, Left, D) => Barred(toUnix, Left - 1, D)
    BY <1>1, <1>2, BarLess
  <2>6. StoreInv'
    BY <1>1, <1>2, <2>1, Bounds DEF Inv, StoreInv, piVars
  <2>7. FreshInv' /\ CodeInv' /\ GuardInv'
    BY <1>1, <1>2, <2>5 DEF Inv, FreshInv, CodeInv, GuardInv, piVars
  <2>8. CollisionInv'
    <3>1. toPi # <<>>
      BY <2>2, EmptySeq
    <3>. QED  BY <1>1, <1>2, <3>1 DEF Inv, CollisionInv, piVars
  <2>. QED  BY <2>3, <2>4, <2>6, <2>7, <2>8 DEF Inv
<1>4. CASE \E i \in 1 .. Len(toUnix) : toUnix' = Without(toUnix, i) /\ UNCHANGED toPi
  <2>. PICK k \in 1 .. Len(toUnix) : toUnix' = Without(toUnix, k) /\ UNCHANGED toPi
    BY <1>4
  <2>1. toUnix' \in Seq(Byte)
    BY <1>1, WithoutIs
  <2>2. TypeOK'
    BY <1>1, <1>2, <2>1 DEF TypeOK, piVars
  <2>3. LineInv' /\ StoreInv' /\ CodeInv'
    BY <1>1, <1>2 DEF Inv, LineInv, StoreInv, CodeInv, piVars
  <2>4. \A D : BadByte \notin D /\ Free(toUnix, D) => Free(toUnix', D)
    BY <1>1, FreeLines
  <2>5. \A D : Barred(toUnix, Left, D) => Barred(toUnix', Left - 1, D)
    BY <1>1, <1>2, BarWithout
  <2>6. FreshInv' /\ GuardInv' /\ CollisionInv'
    BY <1>1, <1>2, <2>4, <2>5, Alphabet DEF Inv, FreshInv, GuardInv, CollisionInv, piVars
  <2>. QED  BY <2>2, <2>3, <2>6 DEF Inv
<1>. QED  BY <1>1, <1>3, <1>4

LEMMA PiResetInv ==
  ASSUME Inv, PiReset
  PROVE  Inv'
<1>1. /\ resets' = resets + 1 /\ ppc' = "ask"
      /\ UNCHANGED <<upc, addr, n, crc, mem, collided, faults, losses, toUnix>>
      /\ TypeOK /\ LineInv /\ toPi \in Seq(Byte)
  BY DEF PiReset, unixVars, Inv, TypeOK
<1>2. PICK k \in 0 .. Len(toPi) : toPi' = Drop(toPi, k)
  BY DEF PiReset
<1>3. LineInv' /\ toPi' \in Seq(Byte) /\ Len(toPi') = Len(toPi) - k
  BY <1>1, <1>2, LineDrop
<1>4. TypeOK'
  BY <1>1, <1>3 DEF TypeOK
<1>5. Sent' = Sent /\ Left' = Left /\ Fresh' = Fresh /\ Verified' = Verified
      /\ HeaderRead' = HeaderRead
  BY <1>1 DEF Sent, Left, Fresh, Verified, HeaderRead
<1>6. StoreInv'
  BY <1>1, <1>3, <1>5, Bounds DEF Inv, StoreInv
<1>7. FreshInv' /\ CodeInv' /\ GuardInv'
  BY <1>1, <1>5 DEF Inv, FreshInv, CodeInv, GuardInv
<1>8. CollisionInv'
  <2>1. toPi = <<>> => toPi' = <<>>
    <3>. SUFFICES ASSUME toPi = <<>> PROVE toPi' = <<>>
      OBVIOUS
    <3>1. Len(toPi) = 0
      OBVIOUS
    <3>2. Len(toPi') = 0
      BY <1>3, <3>1
    <3>. QED  BY <1>3, <3>2, EmptySeq
  <2>. QED  BY <1>1, <1>5, <2>1 DEF Inv, CollisionInv
<1>. QED  BY <1>3, <1>4, <1>6, <1>7, <1>8 DEF Inv

------------------------------------------------------------------------------
(* The invariant, and what it says of the end of a boot. *)

LEMMA LeftoversAre ==
  ASSUME NEW s \in Leftovers
  PROVE  s \in Seq(Byte) /\ Free(s, Early)
<1>. WordBytes \in Nat \ {0}
  BY Sizes
<1>1. ASSUME NEW k \in 1 .. WordBytes, s = Drop(Word("GET_PROG_INFO"), k)
      PROVE  s \in Seq(Byte) /\ Free(s, Early)
  <2>1. "GET_PROG_INFO" \in Names
    BY DEF Names, Opcodes
  <2>2. Word("GET_PROG_INFO") \in Seq(Byte) /\ Free(Word("GET_PROG_INFO"), Early)
        /\ k \in 0 .. Len(Word("GET_PROG_INFO"))
    BY <2>1, WordIs, WordFree
  <2>. QED  BY <1>1, <2>2, DropIs, FreeLines, Alphabet
<1>2. ASSUME NEW k \in 1 .. WordBytes, s = Bytes("garbage", k)
      PROVE  s \in Seq(Byte) /\ Free(s, Early)
  <2>1. /\ s \in Seq(Byte) /\ Len(s) = k /\ \A i \in 1 .. k : s[i] = <<"garbage", i>>
    <3>1. "garbage" \in Names /\ k \in Nat
      BY DEF Names
    <3>. QED  BY <1>2, <3>1, BytesAre
  <2>. QED  BY <2>1 DEF Free, Early, Danger
<1>. QED  BY <1>1, <1>2 DEF Leftovers

LEMMA InitInv == Init => Inv
<1>. SUFFICES ASSUME Init PROVE Inv
  OBVIOUS
<1>1. toUnix \in Seq(Byte) /\ Free(toUnix, Early) /\ Free(toUnix, Danger)
  BY LeftoversAre, Alphabet DEF Init
<1>2. TypeOK
  <2>1. toPi \in Seq(Byte) /\ mem \in Seq(Byte)
    BY EmptySeq DEF Init
  <2>2. "none" \in Names /\ 0 \in 0 .. MaxLosses
    BY Sizes DEF Names
  <2>. QED  BY <1>1, <2>1, <2>2 DEF Init, TypeOK
<1>3. Fresh /\ Sent = 0 /\ Used = 0 /\ Len(toPi) = 0 /\ mem = <<>>
  BY DEF Init, Fresh, Sent, Used
<1>. QED
  BY <1>1, <1>2, <1>3
  DEF Init, Inv, LineInv, StoreInv, FreshInv, CodeInv, GuardInv, CollisionInv

LEMMA StutterInv == Inv /\ UNCHANGED vars => Inv'
BY DEF Inv, TypeOK, LineInv, StoreInv, FreshInv, CodeInv, GuardInv, CollisionInv, HeaderRead,
       Sent, Used, Fresh, Left, Verified, vars, unixVars, piVars, faultVars

LEMMA NextInv ==
  ASSUME MaxLosses < WordBytes, Inv, [Next]_vars
  PROVE  Inv'
<1>1. CASE UnixStep
  BY <1>1, UnixPrintInv, UnixSyncInv, UnixDrainInv, UnixResultInv, UnixTimeoutInv DEF UnixStep
<1>2. CASE PiStep
  BY <1>2, PiAskInv, PiGetInfoInv, PiPutCodeInv, PiLoadInv, PiVerifyInv DEF PiStep
<1>3. CASE Corrupt \/ Lose \/ PiReset
  BY <1>3, CorruptInv, LoseInv, PiResetInv
<1>4. CASE UNCHANGED vars
  BY <1>4, StutterInv
<1>. QED  BY <1>1, <1>2, <1>3, <1>4 DEF Next

(* Everything on the line to the pi is in the order my-install sent it, nothing is
   stored before the code was sent, and a BOOT_ERROR that is not yet read is in
   front of everything that would let my-install go on. *)
THEOREM Invariance ==
  ASSUME MaxLosses < WordBytes
  PROVE  Spec => []Inv
<1>1. Inv /\ [Next]_vars => Inv'
  BY NextInv
<1>. QED  BY InitInv, <1>1, PTL DEF Spec

(* my-install reports a boot ("done", after a BOOT_SUCCESS) only when the pi holds the
   whole program, and not over its own code, whatever bytes are damaged, whenever
   the pi is reset, as long as fewer bytes are lost than a BOOT_ERROR has. *)
THEOREM DoneMeansLoadedHolds ==
  ASSUME MaxLosses < WordBytes
  PROVE  Spec => []DoneMeansLoaded
<1>1. Inv => DoneMeansLoaded
  <2>. SUFFICES ASSUME Inv, upc = "done" PROVE mem = Prog /\ ~collided
    BY DEF DoneMeansLoaded
  <2>1. Verified
    BY DEF Inv, GuardInv
  <2>. QED  BY <2>1, VerifiedIs DEF Verified
<1>. QED  BY <1>1, Invariance, PTL

(* After a header of my-install's that reaches into the bootloader's code, get_code
   goes on but my-install does not: the BOOT_ERROR is read before the GET_CODE, and
   no byte is ever stored. *)
THEOREM NoSelfOverwriteHolds ==
  ASSUME MaxLosses < WordBytes
  PROVE  Spec => []NoSelfOverwrite
<1>1. Inv => NoSelfOverwrite
  BY DEF Inv, CollisionInv, NoSelfOverwrite
<1>. QED  BY <1>1, Invariance, PTL

------------------------------------------------------------------------------
(* A line that does not fail: the whole exchange, phase by phase. *)

\* nothing but whole GET_PROG_INFOs
Requests(s) ==
    \A i \in 1 .. Len(s) :
        \E c \in 1 .. WordBytes :
            /\ i - c \in 0 .. Len(s) - WordBytes
            /\ \A j \in 1 .. WordBytes : s[i - c + j] = <<"GET_PROG_INFO", j>>

\* what may be in front of them: a word at most, and no beginning of a request
Lead(s) ==
    /\ Len(s) <= WordBytes
    /\ \A i \in 1 .. Len(s) : s[i][1] \in {"GET_PROG_INFO", "garbage"} /\ s[i] # <<"GET_PROG_INFO", 1>>

Agreement == addr = "ARMBASE" /\ n = NBytes /\ crc = "crc" /\ collided = (NBytes >= Room)

Calling ==
    /\ upc = "sync" /\ ppc \in {"ask", "wait"} /\ toPi = <<>>
    /\ \E l, q \in Seq(Byte) : Lead(l) /\ Requests(q) /\ toUnix = l \o q

Answered ==
    /\ upc = "drain" /\ ppc \in {"ask", "wait"} /\ toPi = ProgInfo
    /\ toUnix \in Seq(Byte) /\ Requests(toUnix)

Agreed ==
    /\ upc = "drain" /\ ppc = "code" /\ Agreement /\ mem = <<>> /\ toPi = <<>>
    /\ \E q \in Seq(Byte) :
        Requests(q) /\ toUnix = q \o Report(collided) \o Word("GET_CODE") \o Word("crc")

Sending ==
    /\ upc = "result" /\ ppc = "code" /\ Agreement /\ ~collided /\ mem = <<>> /\ toUnix = <<>>
    /\ toPi = Word("PUT_CODE") \o Prog

Loading ==
    /\ upc = "result" /\ ppc = "load" /\ Agreement /\ ~collided /\ toUnix = <<>>
    /\ mem \in Seq(Byte) /\ toPi \in Seq(Byte) /\ Len(mem) + Len(toPi) = NBytes
    /\ \A i \in 1 .. Len(mem) : mem[i] = <<"code", i>>
    /\ \A i \in 1 .. Len(toPi) : toPi[i] = <<"code", Len(mem) + i>>

Running ==
    /\ ppc = "running" /\ toPi = <<>>
    /\ \/ upc = "result" /\ toUnix \in {PrintMessage \o Word("BOOT_SUCCESS"), Word("BOOT_SUCCESS")}
       \/ upc = "done"

Stopped == upc = "failed" /\ ppc = "code" /\ toPi = <<>> /\ NBytes >= Room

Script == Calling \/ Answered \/ Agreed \/ Sending \/ Loading \/ Running \/ Stopped

\* the pi leaves a read with nothing more under way
Quiet == ppc' # ppc /\ ppc' \in {"code", "running"} => toPi' = <<>>

LEMMA WordSeen ==
  ASSUME NEW s \in Seq(Byte), NEW i \in 1 .. 4, i * WordBytes <= Len(s),
         NEW w \in Opcodes \cup Fields,
         \A k \in 1 .. WordBytes : s[(i - 1) * WordBytes + k] = <<w, k>>
  PROVE  WordAt(s, i) = w
<1>. WordBytes \in Nat \ {0}
  BY Sizes
<1>. DEFINE from == (i - 1) * WordBytes
            b == SubSeq(s, from + 1, i * WordBytes)
<1>1. from \in Nat /\ i * WordBytes = from + WordBytes
  <2>1. i = 1 \/ i = 2 \/ i = 3 \/ i = 4
    OBVIOUS
  <2>. QED  BY <2>1
<1>2. b \in Seq(Byte) /\ Len(b) = WordBytes /\ \A k \in 1 .. WordBytes : b[k] = s[from + k]
  BY <1>1
<1>3. WordAt(s, i) = IF \E x \in Opcodes \cup Fields : b = Word(x) THEN b[1][1] ELSE "bad"
  BY DEF WordAt
<1>. HIDE DEF b, from
<1>4. Word(w) \in Seq(Byte) /\ Len(Word(w)) = WordBytes
      /\ \A k \in 1 .. WordBytes : Word(w)[k] = <<w, k>>
  BY WordIs DEF Names
<1>5. \A k \in 1 .. WordBytes : b[k] = Word(w)[k]
  BY <1>2, <1>4 DEF from
<1>6. b = Word(w)
  BY <1>2, <1>4, <1>5, SeqEqual
<1>7. b[1][1] = w
  BY <1>4, <1>6
<1>. QED  BY <1>3, <1>6, <1>7

(* The first word of a stream. *)
LEMMA First ==
  ASSUME NEW s \in Seq(Byte), Len(s) >= WordBytes
  PROVE  /\ WordAt(s, 1) # "bad" => s[1] = <<WordAt(s, 1), 1>>
         /\ \A w \in Opcodes \cup Fields :
              (\A k \in 1 .. WordBytes : s[k] = <<w, k>>) => WordAt(s, 1) = w
<1>1. 1 \in 1 .. 4 /\ 1 * WordBytes <= Len(s) /\ 1 \in 1 .. WordBytes
      /\ \A k \in 1 .. WordBytes : (1 - 1) * WordBytes + k = k
  BY Sizes
<1>2. WordAt(s, 1) # "bad" =>
        \A k \in 1 .. WordBytes : s[(1 - 1) * WordBytes + k] = <<WordAt(s, 1), k>>
  BY <1>1, WordRead
<1>3. WordAt(s, 1) # "bad" => s[1] = <<WordAt(s, 1), 1>>
  BY <1>1, <1>2
<1>4. ASSUME NEW w \in Opcodes \cup Fields, \A k \in 1 .. WordBytes : s[k] = <<w, k>>
      PROVE  WordAt(s, 1) = w
  <2>1. \A k \in 1 .. WordBytes : s[(1 - 1) * WordBytes + k] = <<w, k>>
    BY <1>1, <1>4
  <2>. QED  BY <1>1, <2>1, WordSeen
<1>. QED  BY <1>3, <1>4

LEMMA DropJoin ==
  ASSUME NEW s \in Seq(Byte), NEW t \in Seq(Byte)
  PROVE  /\ \A k \in 0 .. Len(s) : Drop(s \o t, k) = Drop(s, k) \o t
         /\ Drop(s \o t, Len(s)) = t
         /\ Drop(s, Len(s)) = <<>>
<1>0. Len(s) \in Nat /\ Len(t) \in Nat
  OBVIOUS
<1>1. /\ s \o t \in Seq(Byte) /\ Len(s \o t) = Len(s) + Len(t)
      /\ \A i \in 1 .. Len(s) : (s \o t)[i] = s[i]
      /\ \A i \in 1 .. Len(t) : (s \o t)[Len(s) + i] = t[i]
  BY JoinIs
<1>2. \A k \in 0 .. Len(s) : k \in 0 .. Len(s \o t)
  BY <1>0, <1>1
<1>3. ASSUME NEW k \in 0 .. Len(s)
      PROVE  /\ Drop(s \o t, k) \in Seq(Byte) /\ Len(Drop(s \o t, k)) = Len(s) + Len(t) - k
             /\ \A i \in 1 .. Len(s) + Len(t) - k : Drop(s \o t, k)[i] = (s \o t)[i + k]
  <2>. DEFINE u == s \o t
  <2>1. u \in Seq(Byte) /\ k \in 0 .. Len(u) /\ Len(u) = Len(s) + Len(t)
    BY <1>1, <1>2
  <2>. HIDE DEF u
  <2>2. /\ Drop(u, k) \in Seq(Byte) /\ Len(Drop(u, k)) = Len(u) - k
        /\ \A i \in 1 .. Len(u) - k : Drop(u, k)[i] = u[i + k]
    BY <2>1, DropIs
  <2>3. /\ Drop(u, k) \in Seq(Byte) /\ Len(Drop(u, k)) = Len(s) + Len(t) - k
        /\ \A i \in 1 .. Len(s) + Len(t) - k : Drop(u, k)[i] = u[i + k]
    BY <2>1, <2>2
  <2>. QED  BY <2>3 DEF u
<1>4. ASSUME NEW k \in 0 .. Len(s) PROVE Drop(s \o t, k) = Drop(s, k) \o t
  <2>. DEFINE d == Drop(s, k) a == Drop(s \o t, k)
  <2>1. d \in Seq(Byte) /\ Len(d) = Len(s) - k /\ \A i \in 1 .. Len(s) - k : d[i] = s[i + k]
    BY DropIs
  <2>2. a \in Seq(Byte) /\ Len(a) = Len(s) + Len(t) - k
        /\ \A i \in 1 .. Len(s) + Len(t) - k : a[i] = (s \o t)[i + k]
    BY <1>3
  <2>. HIDE DEF d, a
  <2>3. /\ d \o t \in Seq(Byte) /\ Len(d \o t) = Len(d) + Len(t)
        /\ \A i \in 1 .. Len(d) : (d \o t)[i] = d[i]
        /\ \A i \in 1 .. Len(t) : (d \o t)[Len(d) + i] = t[i]
    BY <2>1, JoinIs
  <2>4. ASSUME NEW i \in 1 .. Len(a) PROVE a[i] = (d \o t)[i]
    <3>1. CASE i <= Len(s) - k
      <4>1. i \in 1 .. Len(s) - k /\ i + k \in 1 .. Len(s) /\ i \in 1 .. Len(s) + Len(t) - k
        BY <1>0, <2>2, <3>1
      <4>. QED  BY <1>1, <2>1, <2>2, <2>3, <4>1
    <3>2. CASE i > Len(s) - k
      <4>. DEFINE j == i - (Len(s) - k)
      <4>1. j \in 1 .. Len(t) /\ i = Len(d) + j /\ i + k = Len(s) + j
            /\ i \in 1 .. Len(s) + Len(t) - k
        BY <1>0, <2>1, <2>2, <3>2
      <4>. HIDE DEF j
      <4>2. (d \o t)[i] = t[j]
        BY <2>3, <4>1
      <4>3. a[i] = (s \o t)[i + k]
        BY <2>2, <4>1
      <4>4. (s \o t)[Len(s) + j] = t[j]
        BY <1>1, <4>1
      <4>. QED  BY <4>1, <4>2, <4>3, <4>4
    <3>3. i \in Int /\ Len(s) - k \in Int
      BY <1>0
    <3>4. i <= Len(s) - k \/ i > Len(s) - k
      BY <3>3
    <3>. QED  BY <3>1, <3>2, <3>4
  <2>5. Len(a) = Len(d \o t)
    BY <1>0, <2>1, <2>2, <2>3
  <2>6. a = d \o t
    BY <2>2, <2>3, <2>4, <2>5, SeqEqual
  <2>. QED  BY <2>6 DEF a, d
<1>5. Drop(s, Len(s)) = <<>>
  BY <1>0, SubSeqEmpty DEF Drop
<1>6. Drop(s \o t, Len(s)) = t
  <2>1. Drop(s \o t, Len(s)) = Drop(s, Len(s)) \o t
    BY <1>0, <1>4
  <2>. QED  BY <1>5, <2>1, ConcatEmptySeq
<1>. QED  BY <1>4, <1>5, <1>6

LEMMA RequestsHead ==
  ASSUME NEW q \in Seq(Byte), Requests(q), q # <<>>
  PROVE  /\ Len(q) >= WordBytes /\ \A k \in 1 .. WordBytes : q[k] = <<"GET_PROG_INFO", k>>
         /\ Drop(q, WordBytes) \in Seq(Byte) /\ Requests(Drop(q, WordBytes))
<1>. WordBytes \in Nat \ {0} /\ Len(q) \in Nat
  BY Sizes
<1>1. 1 \in 1 .. Len(q)
  BY EmptySeq
<1>2. PICK c \in 1 .. WordBytes : /\ 1 - c \in 0 .. Len(q) - WordBytes
                                  /\ \A j \in 1 .. WordBytes : q[1 - c + j] = <<"GET_PROG_INFO", j>>
  BY <1>1 DEF Requests
<1>3. c = 1 /\ Len(q) >= WordBytes /\ \A j \in 1 .. WordBytes : 1 - c + j = j
  BY <1>2
<1>4. \A k \in 1 .. WordBytes : q[k] = <<"GET_PROG_INFO", k>>
  BY <1>2, <1>3
<1>. DEFINE d == Drop(q, WordBytes)
<1>5. d \in Seq(Byte) /\ Len(d) = Len(q) - WordBytes
      /\ \A i \in 1 .. Len(q) - WordBytes : d[i] = q[i + WordBytes]
  BY <1>3, DropIs
<1>. HIDE DEF d
<1>6. ASSUME NEW i \in 1 .. Len(d)
      PROVE  \E e \in 1 .. WordBytes :
                /\ i - e \in 0 .. Len(d) - WordBytes
                /\ \A j \in 1 .. WordBytes : d[i - e + j] = <<"GET_PROG_INFO", j>>
  <2>1. PICK m \in 1 .. Len(q) : m = i + WordBytes
    BY <1>5
  <2>2. PICK e \in 1 .. WordBytes :
            /\ m - e \in 0 .. Len(q) - WordBytes
            /\ \A j \in 1 .. WordBytes : q[m - e + j] = <<"GET_PROG_INFO", j>>
    BY DEF Requests
  <2>3. i >= e
    <3>. SUFFICES ASSUME i < e PROVE FALSE
      OBVIOUS
    <3>1. e - i \in 1 .. WordBytes /\ m - e + (e - i) = WordBytes
      BY <2>1
    <3>2. q[WordBytes] = <<"GET_PROG_INFO", e - i>>
      BY <2>2, <3>1
    <3>3. q[WordBytes] = <<"GET_PROG_INFO", WordBytes>>
      BY <1>4
    <3>4. e - i = WordBytes
      BY <3>2, <3>3
    <3>. QED  BY <3>4
  <2>4. i - e \in 0 .. Len(d) - WordBytes
    BY <1>5, <2>1, <2>2, <2>3
  <2>5. ASSUME NEW j \in 1 .. WordBytes PROVE d[i - e + j] = <<"GET_PROG_INFO", j>>
    <3>1. i - e + j \in 1 .. Len(q) - WordBytes
          /\ (i - e + j) + WordBytes = m - e + j
      BY <1>5, <2>1, <2>4
    <3>. QED  BY <1>5, <2>2, <3>1
  <2>. QED  BY <2>4, <2>5
<1>7. Requests(d)
  BY <1>6 DEF Requests
<1>. QED  BY <1>3, <1>4, <1>5, <1>7 DEF d

LEMMA RequestsJoin ==
  ASSUME NEW q \in Seq(Byte), Requests(q)
  PROVE  q \o Word("GET_PROG_INFO") \in Seq(Byte) /\ Requests(q \o Word("GET_PROG_INFO"))
<1>. WordBytes \in Nat \ {0} /\ Len(q) \in Nat
  BY Sizes
<1>. DEFINE w == Word("GET_PROG_INFO") s == q \o w
<1>1. w \in Seq(Byte) /\ Len(w) = WordBytes /\ \A i \in 1 .. WordBytes : w[i] = <<"GET_PROG_INFO", i>>
  BY WordIs DEF Names, Opcodes
<1>. HIDE DEF w
<1>2. /\ s \in Seq(Byte) /\ Len(s) = Len(q) + WordBytes
      /\ \A i \in 1 .. Len(q) : s[i] = q[i]
      /\ \A i \in 1 .. WordBytes : s[Len(q) + i] = w[i]
  BY <1>1, JoinIs
<1>. HIDE DEF s
<1>3. ASSUME NEW i \in 1 .. Len(s)
      PROVE  \E c \in 1 .. WordBytes :
                /\ i - c \in 0 .. Len(s) - WordBytes
                /\ \A j \in 1 .. WordBytes : s[i - c + j] = <<"GET_PROG_INFO", j>>
  <2>1. CASE i <= Len(q)
    <3>1. i \in 1 .. Len(q)
      BY <2>1
    <3>2. PICK c \in 1 .. WordBytes :
            /\ i - c \in 0 .. Len(q) - WordBytes
            /\ \A j \in 1 .. WordBytes : q[i - c + j] = <<"GET_PROG_INFO", j>>
      BY <3>1 DEF Requests
    <3>3. i - c \in 0 .. Len(s) - WordBytes
      BY <1>2, <3>2
    <3>4. \A j \in 1 .. WordBytes : i - c + j \in 1 .. Len(q)
      BY <3>2
    <3>. QED  BY <1>2, <3>2, <3>3, <3>4
  <2>2. CASE i > Len(q)
    <3>1. i - Len(q) \in 1 .. WordBytes /\ i - (i - Len(q)) = Len(q)
      BY <1>2, <2>2
    <3>2. Len(q) \in 0 .. Len(s) - WordBytes
      BY <1>2
    <3>3. \A j \in 1 .. WordBytes : s[Len(q) + j] = <<"GET_PROG_INFO", j>>
      BY <1>1, <1>2
    <3>. QED  BY <3>1, <3>2, <3>3
  <2>3. i <= Len(q) \/ i > Len(q)
    OBVIOUS
  <2>. QED  BY <2>1, <2>2, <2>3
<1>4. Requests(s)
  BY <1>3 DEF Requests
<1>. QED  BY <1>2, <1>4 DEF s, w

(* Out of step: the byte thrown away behind the word brings the next one closer. *)
LEMMA LeadShrinks ==
  ASSUME NEW l \in Seq(Byte), Lead(l), l # <<>>, NEW q \in Seq(Byte), Requests(q),
         Len(l \o q) >= WordBytes + 1
  PROVE  \E l2, q2 \in Seq(Byte) :
            Lead(l2) /\ Requests(q2) /\ Drop(l \o q, WordBytes + 1) = l2 \o q2
<1>. WordBytes \in Nat \ {0} /\ Len(q) \in Nat
  BY Sizes
<1>. DEFINE w == Word("GET_PROG_INFO")
            rest == Drop(q, WordBytes)
            d == WordBytes + 1 - Len(l)
            l2 == Drop(w, d)
<1>1. Len(l) \in 1 .. WordBytes /\ Len(l \o q) = Len(l) + Len(q)
  BY EmptySeq, JoinIs DEF Lead
<1>2. q # <<>>
  BY <1>1, EmptySeq
<1>3. /\ Len(q) >= WordBytes /\ \A k \in 1 .. WordBytes : q[k] = <<"GET_PROG_INFO", k>>
      /\ rest \in Seq(Byte) /\ Requests(rest)
  BY <1>2, RequestsHead
<1>4. w \in Seq(Byte) /\ Len(w) = WordBytes /\ \A i \in 1 .. WordBytes : w[i] = <<"GET_PROG_INFO", i>>
  BY WordIs DEF Names, Opcodes
<1>5. /\ Len(rest) = Len(q) - WordBytes
      /\ \A i \in 1 .. Len(q) - WordBytes : rest[i] = q[i + WordBytes]
  BY <1>3, DropIs
<1>. HIDE DEF w, rest
<1>6. d \in 1 .. WordBytes
  BY <1>1
<1>11. d = WordBytes + 1 - Len(l) /\ d \in 0 .. Len(w)
  BY <1>4, <1>6
<1>. HIDE DEF d
<1>7. q = w \o rest
  <2>3. /\ w \o rest \in Seq(Byte) /\ Len(w \o rest) = Len(w) + Len(rest)
        /\ \A i \in 1 .. Len(w) : (w \o rest)[i] = w[i]
        /\ \A i \in 1 .. Len(rest) : (w \o rest)[Len(w) + i] = rest[i]
    BY <1>3, <1>4, JoinIs
  <2>1. /\ w \o rest \in Seq(Byte) /\ Len(w \o rest) = Len(q)
        /\ \A i \in 1 .. WordBytes : (w \o rest)[i] = w[i]
        /\ \A i \in 1 .. Len(q) - WordBytes : (w \o rest)[WordBytes + i] = rest[i]
    BY <1>4, <1>5, <2>3
  <2>2. ASSUME NEW i \in 1 .. Len(q) PROVE q[i] = (w \o rest)[i]
    <3>1. CASE i <= WordBytes
      <4>1. i \in 1 .. WordBytes
        BY <3>1
      <4>. QED  BY <1>3, <1>4, <2>1, <4>1
    <3>2. CASE i > WordBytes
      <4>1. i - WordBytes \in 1 .. Len(q) - WordBytes /\ WordBytes + (i - WordBytes) = i
            /\ (i - WordBytes) + WordBytes = i
        BY <3>2
      <4>2. rest[i - WordBytes] = q[i]
        BY <1>5, <4>1
      <4>3. (w \o rest)[i] = rest[i - WordBytes]
        BY <2>1, <4>1
      <4>. QED  BY <4>2, <4>3
    <3>3. i <= WordBytes \/ i > WordBytes
      OBVIOUS
    <3>. QED  BY <3>1, <3>2, <3>3
  <2>. QED  BY <2>1, <2>2, SeqEqual
<1>8. l2 \in Seq(Byte) /\ Len(l2) = WordBytes - d
      /\ \A i \in 1 .. WordBytes - d : l2[i] = w[i + d]
  <2>1. l2 \in Seq(Byte) /\ Len(l2) = Len(w) - d /\ \A i \in 1 .. Len(w) - d : l2[i] = w[i + d]
    BY <1>4, <1>11, DropIs
  <2>. QED  BY <1>4, <2>1
<1>9. Lead(l2)
  <2>1. ASSUME NEW i \in 1 .. Len(l2) PROVE l2[i] = <<"GET_PROG_INFO", i + d>> /\ i + d # 1
    <3>1. i \in 1 .. WordBytes - d /\ i + d \in 1 .. WordBytes /\ i + d # 1
      BY <1>6, <1>8
    <3>. QED  BY <1>4, <1>8, <3>1
  <2>2. \A i \in 1 .. Len(l2) : l2[i][1] = "GET_PROG_INFO" /\ l2[i] # <<"GET_PROG_INFO", 1>>
    BY <2>1
  <2>. QED  BY <1>6, <1>8, <2>2 DEF Lead
<1>10. Drop(l \o q, WordBytes + 1) = l2 \o rest
  <2>1. Drop(l \o q, WordBytes + 1) = Drop(q, d)
    <3>. DEFINE s == l \o q a == Drop(s, WordBytes + 1) b == Drop(q, d)
    <3>1. /\ s \in Seq(Byte) /\ Len(s) = Len(l) + Len(q)
          /\ \A i \in 1 .. Len(q) : s[Len(l) + i] = q[i]
      BY JoinIs
    <3>2. WordBytes + 1 \in 0 .. Len(s) /\ d \in 0 .. Len(q)
      BY <1>1, <1>3, <1>6, <3>1
    <3>. HIDE DEF s
    <3>3. a \in Seq(Byte) /\ Len(a) = Len(s) - (WordBytes + 1)
          /\ \A i \in 1 .. Len(s) - (WordBytes + 1) : a[i] = s[i + (WordBytes + 1)]
      BY <3>1, <3>2, DropIs
    <3>4. b \in Seq(Byte) /\ Len(b) = Len(q) - d /\ \A i \in 1 .. Len(q) - d : b[i] = q[i + d]
      BY <3>2, DropIs
    <3>. HIDE DEF a, b
    <3>5. Len(a) = Len(b)
      BY <1>1, <1>11, <3>1, <3>3, <3>4
    <3>6. ASSUME NEW i \in 1 .. Len(a) PROVE a[i] = b[i]
      <4>1. /\ i \in 1 .. Len(s) - (WordBytes + 1) /\ i \in 1 .. Len(q) - d
            /\ i + d \in 1 .. Len(q) /\ i + (WordBytes + 1) = Len(l) + (i + d)
        BY <1>1, <1>11, <3>1, <3>3, <3>4, <3>5
      <4>. QED  BY <3>1, <3>3, <3>4, <4>1
    <3>7. a = b
      BY <3>3, <3>4, <3>5, <3>6, SeqEqual
    <3>. QED  BY <3>7 DEF a, b, s
  <2>2. Drop(w \o rest, d) = Drop(w, d) \o rest
    <3>1. d \in 0 .. Len(w)
      BY <1>4, <1>6
    <3>. QED  BY <1>3, <1>4, <3>1, DropJoin
  <2>. QED  BY <1>7, <2>1, <2>2
<1>. QED  BY <1>3, <1>8, <1>9, <1>10

LEMMA WordsAre ==
  \A w \in Opcodes \cup Fields :
     /\ Word(w) \in Seq(Byte) /\ Len(Word(w)) = WordBytes
     /\ \A i \in 1 .. WordBytes : Word(w)[i] = <<w, i>>
BY WordIs DEF Names

LEMMA CallingStep ==
  ASSUME Calling, UnixStep \/ PiStep
  PROVE  Script' /\ Quiet
<1>. WordBytes \in Nat \ {0}
  BY Sizes
<1>1. upc = "sync" /\ ppc \in {"ask", "wait"} /\ toPi = <<>>
  BY DEF Calling
<1>2. PICK l, q \in Seq(Byte) : Lead(l) /\ Requests(q) /\ toUnix = l \o q
  BY DEF Calling
<1>3. /\ toUnix \in Seq(Byte) /\ Len(toUnix) = Len(l) + Len(q) /\ Len(toUnix) \in Nat
      /\ \A i \in 1 .. Len(l) : toUnix[i] = l[i]
  BY <1>2, JoinIs
<1>4. l = <<>> => toUnix = q
  BY <1>2, ConcatEmptySeq
<1>5. ASSUME Len(toUnix) >= WordBytes
      PROVE  Op # "PRINT_STRING" /\ (Op = "GET_PROG_INFO" <=> l = <<>>)
  <2>1. Op # "bad" => toUnix[1] = <<Op, 1>>
    BY <1>3, <1>5, First DEF Op
  <2>2. CASE l = <<>>
    <3>1. q # <<>>
      BY <1>4, <1>5, <2>2
    <3>2. \A k \in 1 .. WordBytes : toUnix[k] = <<"GET_PROG_INFO", k>>
      BY <1>2, <1>4, <2>2, <3>1, RequestsHead
    <3>3. Op = "GET_PROG_INFO"
      BY <1>3, <1>5, <3>2, First DEF Op, Opcodes
    <3>. QED  BY <2>2, <3>3
  <2>3. CASE l # <<>>
    <3>1. 1 \in 1 .. Len(l)
      BY <1>2, <2>3, EmptySeq
    <3>2. toUnix[1][1] \in {"GET_PROG_INFO", "garbage"} /\ toUnix[1] # <<"GET_PROG_INFO", 1>>
      BY <1>2, <1>3, <3>1 DEF Lead
    <3>3. <<Op, 1>>[1] = Op
      OBVIOUS
    <3>. QED  BY <2>1, <2>3, <3>2, <3>3
  <2>. QED  BY <2>2, <2>3
<1>6. ~Starved => Len(toUnix) >= WordBytes
  BY <1>3 DEF Starved, Need
<1>7. CASE UnixStep
  <2>1. UnixSync
    <3>1. ~UnixPrint
      BY <1>5, <1>6 DEF UnixPrint
    <3>2. ~UnixDrain /\ ~UnixResult
      BY <1>1 DEF UnixDrain, UnixResult
    <3>3. ~UnixTimeout
      <4>1. Len(toPi) = 0
        BY <1>1
      <4>. QED  BY <1>1, <4>1 DEF UnixTimeout, PiSilent
    <3>. QED  BY <1>7, <3>1, <3>2, <3>3 DEF UnixStep
  <2>2. ~Starved /\ Len(toUnix) >= WordBytes /\ ppc' = ppc
    BY <1>6, <2>1 DEF UnixSync, piVars
  <2>3. CASE Op = "GET_PROG_INFO"
    <3>1. toUnix' = Drop(toUnix, WordBytes) /\ toPi' = toPi \o ProgInfo /\ upc' = "drain"
      BY <2>1, <2>3 DEF UnixSync
    <3>2. toUnix = q /\ q # <<>>
      BY <1>4, <1>5, <2>2, <2>3
    <3>3. toUnix' \in Seq(Byte) /\ Requests(toUnix')
      BY <1>2, <3>1, <3>2, RequestsHead
    <3>4. toPi' = ProgInfo
      BY <1>1, <3>1, ImageIs, ConcatEmptySeq
    <3>5. Answered'
      BY <1>1, <2>2, <3>1, <3>3, <3>4 DEF Answered, Requests
    <3>. QED  BY <2>2, <3>5 DEF Script, Quiet
  <2>4. CASE Op # "GET_PROG_INFO"
    <3>1. toUnix' = Drop(toUnix, WordBytes + 1) /\ UNCHANGED <<toPi, upc>>
      BY <2>1, <2>4 DEF UnixSync, ResyncStep
    <3>2. Len(toUnix) >= WordBytes + 1
      <4>1. Need = WordBytes + 1
        BY <1>1, <1>3, <1>5, <2>2, <2>4 DEF Need, ResyncStep
      <4>. QED  BY <1>3, <2>2, <4>1 DEF Starved
    <3>3. l # <<>>
      BY <1>5, <2>2, <2>4
    <3>4. \E l2, q2 \in Seq(Byte) : Lead(l2) /\ Requests(q2) /\ toUnix' = l2 \o q2
      <4>1. Len(l \o q) >= WordBytes + 1
        BY <1>2, <3>2
      <4>2. \E l2, q2 \in Seq(Byte) :
                Lead(l2) /\ Requests(q2) /\ Drop(l \o q, WordBytes + 1) = l2 \o q2
        BY <1>2, <3>3, <4>1, LeadShrinks
      <4>. QED  BY <1>2, <3>1, <4>2
    <3>5. Calling'
      BY <1>1, <2>2, <3>1, <3>4 DEF Calling, Lead, Requests
    <3>. QED  BY <2>2, <3>5 DEF Script, Quiet
  <2>. QED  BY <2>3, <2>4
<1>8. CASE PiStep
  <2>1. Len(toPi) = 0
    BY <1>1
  <2>2. PiAsk \/ PiTimeout
    BY <1>1, <1>8, <2>1 DEF PiStep, PiGetInfo, PiPutCode, PiLoad, PiVerify
  <2>3. /\ ppc' \in {"ask", "wait"} /\ UNCHANGED <<upc, toPi>>
        /\ toUnix' = toUnix \/ toUnix' = toUnix \o Word("GET_PROG_INFO")
    BY <2>2 DEF PiAsk, PiTimeout, unixVars
  <2>4. \E q2 \in Seq(Byte) : Requests(q2) /\ toUnix' = l \o q2
    <3>. DEFINE w == Word("GET_PROG_INFO")
    <3>1. q \o w \in Seq(Byte) /\ Requests(q \o w) /\ w \in Seq(Byte)
      BY <1>2, RequestsJoin, WordIs DEF Names, Opcodes
    <3>2. (l \o q) \o w = l \o (q \o w)
      BY <3>1, ConcatAssociative
    <3>. QED  BY <1>2, <2>3, <3>1, <3>2
  <2>5. Calling'
    BY <1>1, <1>2, <2>3, <2>4 DEF Calling, Lead, Requests
  <2>. QED  BY <2>3, <2>5 DEF Script, Quiet
<1>. QED  BY <1>7, <1>8

LEMMA AnsweredStep ==
  ASSUME Answered, UnixStep \/ PiStep
  PROVE  Script' /\ Quiet
<1>. WordBytes \in Nat \ {0}
  BY Sizes
<1>1. /\ upc = "drain" /\ ppc \in {"ask", "wait"} /\ toPi = ProgInfo
      /\ toUnix \in Seq(Byte) /\ Requests(toUnix) /\ Len(toUnix) \in Nat
  BY DEF Answered
<1>2. Len(toPi) = 4 * WordBytes /\ toPi # <<>> /\ toPi \in Seq(Byte)
      /\ \A i \in 1 .. 4 * WordBytes : toPi[i] = Image[i]
  BY <1>1, ImageIs, EmptySeq
<1>3. ASSUME ~Starved
      PROVE  Op = "GET_PROG_INFO" /\ Need = WordBytes /\ toUnix # <<>>
  <2>1. Len(toUnix) >= WordBytes
    BY <1>1, <1>3 DEF Starved, Need
  <2>2. toUnix # <<>>
    BY <2>1
  <2>3. \A k \in 1 .. WordBytes : toUnix[k] = <<"GET_PROG_INFO", k>>
    BY <1>1, <2>2, RequestsHead
  <2>4. Op = "GET_PROG_INFO"
    BY <1>1, <2>1, <2>3, First DEF Op, Opcodes
  <2>. QED  BY <1>1, <2>1, <2>2, <2>4 DEF Need
<1>4. CASE UnixStep
  <2>1. UnixDrain
    <3>1. ~UnixPrint
      BY <1>3 DEF UnixPrint
    <3>2. ~UnixSync /\ ~UnixResult
      BY <1>1 DEF UnixSync, UnixResult
    <3>3. ~UnixTimeout
      BY <1>1, <1>2 DEF UnixTimeout, PiSilent
    <3>. QED  BY <1>4, <3>1, <3>2, <3>3 DEF UnixStep
  <2>2. ~Starved /\ toUnix' = Drop(toUnix, Need) /\ ppc' = ppc
    BY <2>1 DEF UnixDrain, piVars
  <2>3. UNCHANGED <<toPi, upc>>
    BY <1>3, <2>1, <2>2 DEF UnixDrain, Repeated
  <2>4. toUnix' \in Seq(Byte) /\ Requests(toUnix')
    BY <1>1, <1>3, <2>2, RequestsHead
  <2>5. Answered'
    BY <1>1, <2>2, <2>3, <2>4 DEF Answered, Requests
  <2>. QED  BY <2>2, <2>5 DEF Script, Quiet
<1>5. CASE PiAsk
  <2>1. /\ ppc' = "wait" /\ UNCHANGED <<upc, toPi>> /\ toUnix' = toUnix \o Word("GET_PROG_INFO")
    BY <1>5 DEF PiAsk, unixVars
  <2>2. toUnix' \in Seq(Byte) /\ Requests(toUnix')
    BY <1>1, <2>1, RequestsJoin
  <2>3. Answered'
    BY <1>1, <2>1, <2>2 DEF Answered, Requests
  <2>. QED  BY <2>1, <2>3 DEF Script, Quiet
<1>6. CASE PiGetInfo
  <2>1. /\ WordAt(toPi, 2) = "ARMBASE" /\ WordAt(toPi, 3) = "nbytes" /\ WordAt(toPi, 4) = "crc"
    <3>1. ASSUME NEW k \in 1 .. WordBytes
          PROVE  /\ toPi[(2 - 1) * WordBytes + k] = <<"ARMBASE", k>>
                 /\ toPi[(3 - 1) * WordBytes + k] = <<"nbytes", k>>
                 /\ toPi[(4 - 1) * WordBytes + k] = <<"crc", k>>
      <4>1. /\ WordBytes + k \in 1 .. Total /\ 2 * WordBytes + k \in 1 .. Total
            /\ 3 * WordBytes + k \in 1 .. Total /\ NBytes \in Nat
        BY Sizes DEF Total
      <4>2. /\ Image[WordBytes + k] = <<"ARMBASE", k>>
            /\ Image[2 * WordBytes + k] = <<"nbytes", k>>
            /\ Image[3 * WordBytes + k] = <<"crc", k>>
        BY <4>1, ImageAt
      <4>. QED  BY <1>2, <4>2
    <3>2. 2 \in 1 .. 4 /\ 3 \in 1 .. 4 /\ 4 \in 1 .. 4
          /\ 2 * WordBytes <= Len(toPi) /\ 3 * WordBytes <= Len(toPi) /\ 4 * WordBytes <= Len(toPi)
      BY <1>2
    <3>3. \A w \in {"ARMBASE", "nbytes", "crc"} : w \in Opcodes \cup Fields
      BY DEF Fields
    <3>4. WordAt(toPi, 2) = "ARMBASE"
      BY <1>2, <3>1, <3>2, <3>3, WordSeen
    <3>5. WordAt(toPi, 3) = "nbytes"
      BY <1>2, <3>1, <3>2, <3>3, WordSeen
    <3>6. WordAt(toPi, 4) = "crc"
      BY <1>2, <3>1, <3>2, <3>3, WordSeen
    <3>. QED  BY <3>4, <3>5, <3>6
  <2>2. /\ addr' = "ARMBASE" /\ n' = NBytes /\ crc' = "crc" /\ collided' = (NBytes >= Room)
        /\ mem' = <<>> /\ toPi' = Drop(toPi, 4 * WordBytes) /\ ppc' = "code" /\ upc' = upc
        /\ toUnix' = toUnix \o Report(collided') \o Word("GET_CODE") \o Word("crc")
    <3>1. addr' = "ARMBASE" /\ n' = NBytes /\ crc' = "crc"
      BY <1>6, <2>1 DEF PiGetInfo
    <3>. QED  BY <1>6, <3>1 DEF PiGetInfo, unixVars
  <2>3. toPi' = <<>>
    BY <1>2, <2>2, DropJoin
  <2>4. Agreed'
    BY <1>1, <2>2, <2>3 DEF Agreed, Agreement, Requests, Report
  <2>. QED  BY <2>3, <2>4 DEF Script, Quiet
<1>7. ~PiTimeout /\ ~PiPutCode /\ ~PiLoad /\ ~PiVerify
  BY <1>1, <1>2 DEF PiTimeout, PiPutCode, PiLoad, PiVerify
<1>. QED  BY <1>4, <1>5, <1>6, <1>7 DEF PiStep

LEMMA AgreedStep ==
  ASSUME Agreed, UnixStep \/ PiStep
  PROVE  Script' /\ Quiet
<1>. WordBytes \in Nat \ {0}
  BY Sizes
<1>. DEFINE r == Report(collided) g == Word("GET_CODE") e == Word("crc")
<1>1. upc = "drain" /\ ppc = "code" /\ Agreement /\ mem = <<>> /\ toPi = <<>> /\ Len(toPi) = 0
  BY DEF Agreed
<1>2. PICK q \in Seq(Byte) : Requests(q) /\ toUnix = q \o r \o g \o e
  BY DEF Agreed
<1>3. /\ g \in Seq(Byte) /\ Len(g) = WordBytes /\ \A i \in 1 .. WordBytes : g[i] = <<"GET_CODE", i>>
      /\ e \in Seq(Byte) /\ Len(e) = WordBytes /\ \A i \in 1 .. WordBytes : e[i] = <<"crc", i>>
  BY WordsAre DEF Opcodes, Fields
<1>4. /\ r \in Seq(Byte) /\ (~collided => r = <<>>)
      /\ collided => /\ Len(r) = WordBytes /\ \A i \in 1 .. WordBytes : r[i] = <<"BOOT_ERROR", i>>
  <2>1. <<>> \in Seq(Byte)
    OBVIOUS
  <2>2. "BOOT_ERROR" \in Opcodes \cup Fields
    BY DEF Opcodes
  <2>. QED  BY <2>1, <2>2, WordsAre DEF Report
<1>. HIDE DEF r, g, e
<1>5. /\ q \o r \in Seq(Byte) /\ Len(q \o r) = Len(q) + Len(r)
      /\ \A i \in 1 .. Len(q) : (q \o r)[i] = q[i]
  BY <1>4, JoinIs
<1>6. /\ q \o r \o g \in Seq(Byte) /\ Len(q \o r \o g) = Len(q \o r) + Len(g)
      /\ \A i \in 1 .. Len(q \o r) : (q \o r \o g)[i] = (q \o r)[i]
  BY <1>3, <1>5, JoinIs
<1>7. /\ toUnix \in Seq(Byte) /\ Len(toUnix) = Len(q \o r \o g) + Len(e)
      /\ \A i \in 1 .. Len(q \o r \o g) : toUnix[i] = (q \o r \o g)[i]
  BY <1>2, <1>3, <1>6, JoinIs
<1>8. Len(toUnix) = Len(q) + Len(r) + 2 * WordBytes /\ Len(q) \in Nat /\ Len(r) \in Nat
      /\ Len(toUnix) \in Nat
  <2>1. Len(q) \in Nat /\ Len(r) \in Nat
    BY <1>4, LenProperties
  <2>. QED  BY <1>3, <1>5, <1>6, <1>7, <2>1
<1>9. ~PiStep
  BY <1>1 DEF PiStep, PiAsk, PiTimeout, PiGetInfo, PiPutCode, PiLoad, PiVerify
<1>10. ASSUME Op \in Opcodes \cup Fields, Op # "PRINT_STRING", ~Starved
       PROVE  UnixDrain /\ ppc' = ppc
  <2>1. ~UnixPrint /\ ~UnixSync /\ ~UnixResult /\ ~UnixTimeout
    BY <1>1, <1>10 DEF UnixPrint, UnixSync, UnixResult, UnixTimeout
  <2>2. UnixDrain
    BY <1>9, <2>1 DEF UnixStep
  <2>. QED  BY <2>2 DEF UnixDrain, piVars
<1>11. CASE q # <<>>
  <2>1. /\ Len(q) >= WordBytes /\ \A k \in 1 .. WordBytes : q[k] = <<"GET_PROG_INFO", k>>
        /\ Drop(q, WordBytes) \in Seq(Byte) /\ Requests(Drop(q, WordBytes))
    BY <1>2, <1>11, RequestsHead
  <2>2. \A k \in 1 .. WordBytes : k \in 1 .. Len(q) /\ k \in 1 .. Len(q \o r) /\ k \in 1 .. Len(q \o r \o g)
    BY <1>3, <1>5, <1>6, <1>8, <2>1
  <2>3. \A k \in 1 .. WordBytes : toUnix[k] = <<"GET_PROG_INFO", k>>
    BY <1>5, <1>6, <1>7, <2>1, <2>2
  <2>4. Len(toUnix) >= WordBytes
    BY <1>8, <2>1
  <2>5. Op = "GET_PROG_INFO"
    BY <1>7, <2>3, <2>4, First DEF Op, Opcodes
  <2>6. Need = WordBytes /\ ~Starved
    BY <1>1, <1>8, <2>4, <2>5 DEF Need, Starved
  <2>7. UnixDrain /\ ppc' = ppc
    BY <1>10, <2>5, <2>6 DEF Opcodes
  <2>8. toUnix' = Drop(toUnix, WordBytes) /\ UNCHANGED <<toPi, upc, piVars>>
    BY <2>5, <2>6, <2>7 DEF UnixDrain, Repeated
  <2>9. Drop(toUnix, WordBytes) = Drop(q, WordBytes) \o r \o g \o e
    <3>1. WordBytes \in 0 .. Len(q) /\ WordBytes \in 0 .. Len(q \o r)
          /\ WordBytes \in 0 .. Len(q \o r \o g)
      BY <1>3, <1>5, <1>6, <1>8, <2>1
    <3>2. Drop(q \o r, WordBytes) = Drop(q, WordBytes) \o r
      BY <1>4, <3>1, DropJoin
    <3>3. Drop(q \o r \o g, WordBytes) = Drop(q \o r, WordBytes) \o g
      BY <1>3, <1>5, <3>1, DropJoin
    <3>4. Drop(q \o r \o g \o e, WordBytes) = Drop(q \o r \o g, WordBytes) \o e
      BY <1>3, <1>6, <3>1, DropJoin
    <3>. QED  BY <1>2, <3>2, <3>3, <3>4
  <2>10. Agreed'
    <3>1. /\ Requests(Drop(q, WordBytes)) /\ Drop(q, WordBytes) \in Seq(Byte)
          /\ toUnix' = Drop(q, WordBytes) \o Report(collided') \o Word("GET_CODE") \o Word("crc")
      BY <2>1, <2>8, <2>9 DEF r, g, e, piVars
    <3>. QED  BY <1>1, <2>8, <3>1 DEF Agreed, Agreement, Requests, piVars
  <2>. QED  BY <2>7, <2>10 DEF Script, Quiet
<1>12. CASE q = <<>> /\ collided
  <2>1. q \o r = r /\ Len(r) = WordBytes
    BY <1>4, <1>12, ConcatEmptySeq
  <2>2. \A k \in 1 .. WordBytes : k \in 1 .. Len(q \o r) /\ k \in 1 .. Len(q \o r \o g)
    BY <1>3, <1>6, <2>1
  <2>3. \A k \in 1 .. WordBytes : toUnix[k] = <<"BOOT_ERROR", k>>
    BY <1>4, <1>6, <1>7, <1>12, <2>1, <2>2
  <2>4. Len(toUnix) >= WordBytes
    BY <1>8, <2>1
  <2>5. Op = "BOOT_ERROR"
    BY <1>7, <2>3, <2>4, First DEF Op, Opcodes
  <2>6. ~Starved
    BY <1>1, <1>8, <2>4, <2>5 DEF Need, Starved
  <2>7. UnixDrain /\ ppc' = ppc
    BY <1>10, <2>5, <2>6 DEF Opcodes
  <2>8. upc' = "failed" /\ UNCHANGED toPi
    BY <2>5, <2>7 DEF UnixDrain, Repeated
  <2>9. Stopped'
    BY <1>1, <1>12, <2>7, <2>8 DEF Stopped, Agreement
  <2>. QED  BY <2>7, <2>9 DEF Script, Quiet
<1>13. CASE q = <<>> /\ ~collided
  <2>1. toUnix = g \o e
    <3>1. q \o r = <<>>
      BY <1>4, <1>13, ConcatEmptySeq
    <3>2. q \o r \o g = g
      BY <1>3, <3>1, ConcatEmptySeq
    <3>. QED  BY <1>2, <3>2
  <2>2. /\ Len(toUnix) = 2 * WordBytes
        /\ \A k \in 1 .. WordBytes : toUnix[k] = <<"GET_CODE", k>>
        /\ \A k \in 1 .. WordBytes : toUnix[WordBytes + k] = <<"crc", k>>
    <3>1. /\ Len(g \o e) = Len(g) + Len(e)
          /\ \A k \in 1 .. Len(g) : (g \o e)[k] = g[k]
          /\ \A k \in 1 .. Len(e) : (g \o e)[Len(g) + k] = e[k]
      BY <1>3, JoinIs
    <3>. QED  BY <1>3, <2>1, <3>1
  <2>3. Op = "GET_CODE"
    <3>1. Len(toUnix) >= WordBytes
      BY <2>2
    <3>2. "GET_CODE" \in Opcodes \cup Fields /\ toUnix \in Seq(Byte)
      BY <1>7 DEF Opcodes
    <3>3. WordAt(toUnix, 1) = "GET_CODE"
      BY <2>2, <3>1, <3>2, First
    <3>. QED  BY <3>3 DEF Op
  <2>4. WordAt(toUnix, 2) = "crc"
    <3>1. 2 \in 1 .. 4 /\ 2 * WordBytes <= Len(toUnix) /\ "crc" \in Opcodes \cup Fields
          /\ \A k \in 1 .. WordBytes : (2 - 1) * WordBytes + k = WordBytes + k
      BY <2>2 DEF Fields
    <3>2. \A k \in 1 .. WordBytes : toUnix[(2 - 1) * WordBytes + k] = <<"crc", k>>
      BY <2>2, <3>1
    <3>. QED  BY <1>7, <3>1, <3>2, WordSeen
  <2>5. Need = 2 * WordBytes /\ ~Starved
    <3>1. ~(Len(toUnix) < WordBytes)
      BY <2>2
    <3>2. Need = 2 * WordBytes
      BY <1>1, <2>3, <3>1 DEF Need
    <3>. QED  BY <2>2, <3>2 DEF Starved
  <2>6. UnixDrain /\ ppc' = ppc
    BY <1>10, <2>3, <2>5 DEF Opcodes
  <2>7. /\ toUnix' = Drop(toUnix, Len(toUnix)) /\ toPi' = toPi \o Word("PUT_CODE") \o Prog
        /\ upc' = "result" /\ UNCHANGED piVars
    BY <2>2, <2>3, <2>4, <2>5, <2>6 DEF UnixDrain, Repeated
  <2>8. toUnix' = <<>>
    BY <1>7, <2>7, DropJoin
  <2>9. toPi' = Word("PUT_CODE") \o Prog
    <3>1. <<>> \o Word("PUT_CODE") = Word("PUT_CODE")
      BY WordsAre, ConcatEmptySeq DEF Opcodes
    <3>. QED  BY <1>1, <2>7, <3>1
  <2>10. Sending'
    BY <1>1, <1>13, <2>6, <2>7, <2>8, <2>9 DEF Sending, Agreement, piVars
  <2>. QED  BY <2>6, <2>10 DEF Script, Quiet
<1>. QED  BY <1>11, <1>12, <1>13

LEMMA SendingStep ==
  ASSUME Sending, UnixStep \/ PiStep
  PROVE  Script' /\ Quiet
<1>. WordBytes \in Nat \ {0} /\ NBytes \in Nat \ {0}
  BY Sizes
<1>. DEFINE w == Word("PUT_CODE")
<1>1. /\ upc = "result" /\ ppc = "code" /\ Agreement /\ ~collided /\ mem = <<>> /\ toUnix = <<>>
      /\ toPi = w \o Prog /\ Len(toUnix) = 0
  BY DEF Sending
<1>2. w \in Seq(Byte) /\ Len(w) = WordBytes
  BY WordsAre DEF Opcodes
<1>3. Prog \in Seq(Byte) /\ Len(Prog) = NBytes /\ \A i \in 1 .. NBytes : Prog[i] = <<"code", i>>
  BY BytesAre DEF Prog, Names
<1>. HIDE DEF w
<1>4. Len(toPi) = WordBytes + NBytes
  BY <1>1, <1>2, <1>3, JoinIs
<1>5. ~UnixStep
  <2>1. Starved
    BY <1>1 DEF Starved, Need
  <2>2. ~PiSilent
    BY <1>1, <1>4 DEF PiSilent
  <2>. QED
    BY <2>1, <2>2 DEF UnixStep, UnixPrint, UnixSync, UnixDrain, UnixResult, UnixTimeout
<1>6. PiPutCode
  BY <1>1, <1>5 DEF PiStep, PiAsk, PiTimeout, PiGetInfo, PiLoad, PiVerify
<1>7. toPi' = Drop(toPi, WordBytes) /\ ppc' = "load"
      /\ UNCHANGED <<upc, addr, n, crc, mem, collided, toUnix>>
  BY <1>6 DEF PiPutCode, unixVars
<1>8. toPi' = Prog
  BY <1>1, <1>2, <1>3, <1>7, DropJoin
<1>9. Loading'
  <2>1. mem' = <<>> /\ mem' \in Seq(Byte) /\ Len(mem') = 0 /\ toPi' \in Seq(Byte)
        /\ Len(mem') + Len(toPi') = NBytes
    BY <1>1, <1>3, <1>7, <1>8
  <2>2. \A i \in 1 .. Len(toPi') : toPi'[i] = <<"code", Len(mem') + i>>
    BY <1>3, <1>8, <2>1
  <2>. QED  BY <1>1, <1>7, <2>1, <2>2 DEF Loading, Agreement
<1>. QED  BY <1>7, <1>9 DEF Script, Quiet

LEMMA LoadingStep ==
  ASSUME Loading, UnixStep \/ PiStep
  PROVE  Script' /\ Quiet
<1>. WordBytes \in Nat \ {0} /\ NBytes \in Nat \ {0}
  BY Sizes
<1>1. /\ upc = "result" /\ ppc = "load" /\ Agreement /\ ~collided /\ toUnix = <<>>
      /\ mem \in Seq(Byte) /\ toPi \in Seq(Byte) /\ Len(mem) + Len(toPi) = NBytes
      /\ \A i \in 1 .. Len(mem) : mem[i] = <<"code", i>>
      /\ \A i \in 1 .. Len(toPi) : toPi[i] = <<"code", Len(mem) + i>>
      /\ Len(toUnix) = 0 /\ Len(mem) \in Nat /\ Len(toPi) \in Nat
  BY DEF Loading
<1>2. ~UnixStep
  <2>1. Starved
    BY <1>1 DEF Starved, Need
  <2>2. ~PiSilent
    <3>1. toPi = <<>> => Len(mem) = n
      BY <1>1 DEF Agreement
    <3>. QED  BY <1>1, <3>1 DEF PiSilent
  <2>. QED
    BY <2>1, <2>2 DEF UnixStep, UnixPrint, UnixSync, UnixDrain, UnixResult, UnixTimeout
<1>3. PiLoad \/ PiVerify
  BY <1>1, <1>2 DEF PiStep, PiAsk, PiTimeout, PiGetInfo, PiPutCode
<1>4. CASE PiLoad
  <2>1. toPi # <<>> /\ mem' = Append(mem, Head(toPi)) /\ toPi' = Tail(toPi)
        /\ UNCHANGED <<upc, ppc, addr, n, crc, collided, toUnix>>
    BY <1>4 DEF PiLoad, unixVars
  <2>2. /\ toPi' \in Seq(Byte) /\ Len(toPi') = Len(toPi) - 1 /\ Head(toPi) \in Byte
        /\ \A i \in 1 .. Len(toPi') : toPi'[i] = toPi[i + 1]
        /\ Head(toPi) = toPi[1] /\ 1 \in 1 .. Len(toPi)
    <3>1. 1 \in 1 .. Len(toPi)
      BY <1>1, <2>1, EmptySeq
    <3>. QED  BY <1>1, <2>1, <3>1, HeadTailProperties
  <2>3. /\ mem' \in Seq(Byte) /\ Len(mem') = Len(mem) + 1
        /\ \A i \in 1 .. Len(mem) : mem'[i] = mem[i]
        /\ mem'[Len(mem) + 1] = Head(toPi)
    BY <1>1, <2>1, <2>2, AppendProperties
  <2>4. \A i \in 1 .. Len(mem') : mem'[i] = <<"code", i>>
    <3>1. mem'[Len(mem) + 1] = <<"code", Len(mem) + 1>>
      BY <1>1, <2>2, <2>3
    <3>2. \A i \in 1 .. Len(mem') : i \in 1 .. Len(mem) \/ i = Len(mem) + 1
      BY <1>1, <2>3
    <3>. QED  BY <1>1, <2>3, <3>1, <3>2
  <2>5. \A i \in 1 .. Len(toPi') : toPi'[i] = <<"code", Len(mem') + i>>
    <3>1. \A i \in 1 .. Len(toPi') : i + 1 \in 1 .. Len(toPi) /\ Len(mem) + (i + 1) = Len(mem') + i
      BY <1>1, <2>2, <2>3
    <3>2. \A i \in 1 .. Len(toPi') : toPi'[i] = <<"code", Len(mem) + (i + 1)>>
      BY <1>1, <2>2, <3>1
    <3>. QED  BY <3>1, <3>2
  <2>6. Len(mem') + Len(toPi') = NBytes
    <3>1. Len(toPi') = Len(toPi) - 1 /\ Len(mem') = Len(mem) + 1
      BY <2>2, <2>3
    <3>2. Len(mem) + Len(toPi) = NBytes /\ Len(mem) \in Nat /\ Len(toPi) \in Nat
      BY <1>1
    <3>. QED  BY <3>1, <3>2
  <2>7. Loading'
    BY <1>1, <2>1, <2>2, <2>3, <2>4, <2>5, <2>6 DEF Loading, Agreement
  <2>. QED  BY <2>1, <2>7 DEF Script, Quiet
<1>5. CASE PiVerify
  <2>1. Len(mem) = NBytes /\ toPi = <<>>
    <3>1. Len(mem) = NBytes
      BY <1>1, <1>5 DEF PiVerify, Agreement
    <3>2. Len(toPi) = 0
      BY <1>1, <3>1
    <3>. QED  BY <1>1, <3>1, <3>2, EmptySeq
  <2>2. Verified
    <3>1. Prog \in Seq(Byte) /\ Len(Prog) = NBytes /\ \A i \in 1 .. NBytes : Prog[i] = <<"code", i>>
      BY BytesAre DEF Prog, Names
    <3>2. mem = Prog
      BY <1>1, <2>1, <3>1, SeqEqual
    <3>. QED  BY <1>1, <3>2 DEF Verified, Agreement
  <2>3. Report(~Verified) = <<>>
    BY <2>2 DEF Report
  <2>4. toUnix' = PrintMessage \o Word("BOOT_SUCCESS")
    <3>1. <<>> \o <<>> = <<>> /\ <<>> \o PrintMessage = PrintMessage
      BY PrintIs, EmptySeq, ConcatEmptySeq
    <3>2. toUnix' = toUnix \o Report(~Verified) \o PrintMessage \o Word("BOOT_SUCCESS")
      BY <1>5 DEF PiVerify
    <3>. QED  BY <1>1, <2>3, <3>1, <3>2
  <2>5. ppc' = "running" /\ UNCHANGED <<upc, toPi>>
    BY <1>1, <1>5 DEF PiVerify, unixVars, Agreement
  <2>6. Running'
    BY <1>1, <2>1, <2>4, <2>5 DEF Running
  <2>. QED  BY <2>1, <2>5, <2>6 DEF Script, Quiet
<1>. QED  BY <1>3, <1>4, <1>5

LEMMA PrintAt ==
  /\ Len(PrintMessage) = 2 * WordBytes + PrintLen
  /\ \A k \in 1 .. WordBytes : PrintMessage[k] = <<"PRINT_STRING", k>>
  /\ \A k \in 1 .. WordBytes : PrintMessage[WordBytes + k] = <<"strlen", k>>
<1>. WordBytes \in Nat \ {0} /\ PrintLen \in Nat \ {0}
  BY Sizes
<1>. DEFINE a == Word("PRINT_STRING") b == Word("strlen") c == Bytes("char", PrintLen)
<1>1. /\ a \in Seq(Byte) /\ Len(a) = WordBytes /\ \A i \in 1 .. WordBytes : a[i] = <<"PRINT_STRING", i>>
      /\ b \in Seq(Byte) /\ Len(b) = WordBytes /\ \A i \in 1 .. WordBytes : b[i] = <<"strlen", i>>
  BY WordsAre DEF Opcodes, Fields
<1>2. c \in Seq(Byte) /\ Len(c) = PrintLen
  BY BytesAre DEF Names
<1>3. PrintMessage = a \o b \o c
  BY DEF PrintMessage
<1>. HIDE DEF a, b, c
<1>4. /\ a \o b \in Seq(Byte) /\ Len(a \o b) = Len(a) + Len(b)
      /\ \A i \in 1 .. Len(a) : (a \o b)[i] = a[i]
      /\ \A i \in 1 .. Len(b) : (a \o b)[Len(a) + i] = b[i]
  BY <1>1, JoinIs
<1>5. /\ Len(PrintMessage) = Len(a \o b) + Len(c)
      /\ \A i \in 1 .. Len(a \o b) : PrintMessage[i] = (a \o b)[i]
  BY <1>2, <1>3, <1>4, JoinIs
<1>6. Len(PrintMessage) = 2 * WordBytes + PrintLen /\ Len(a \o b) = 2 * WordBytes
  BY <1>1, <1>2, <1>4, <1>5
<1>7. ASSUME NEW k \in 1 .. WordBytes
      PROVE  PrintMessage[k] = <<"PRINT_STRING", k>> /\ PrintMessage[WordBytes + k] = <<"strlen", k>>
  <2>1. k \in 1 .. Len(a \o b) /\ WordBytes + k \in 1 .. Len(a \o b)
    BY <1>6
  <2>2. PrintMessage[k] = (a \o b)[k] /\ PrintMessage[WordBytes + k] = (a \o b)[WordBytes + k]
    BY <1>5, <2>1
  <2>3. (a \o b)[k] = <<"PRINT_STRING", k>> /\ (a \o b)[WordBytes + k] = <<"strlen", k>>
    BY <1>1, <1>4
  <2>. QED  BY <2>2, <2>3
<1>. QED  BY <1>6, <1>7

LEMMA RunningStep ==
  ASSUME Running, UnixStep \/ PiStep
  PROVE  Script' /\ Quiet
<1>. WordBytes \in Nat \ {0} /\ PrintLen \in Nat \ {0}
  BY Sizes
<1>. DEFINE p == PrintMessage w == Word("BOOT_SUCCESS")
<1>1. /\ ppc = "running" /\ toPi = <<>>
      /\ (upc = "result" /\ toUnix \in {p \o w, w}) \/ upc = "done"
  BY DEF Running
<1>2. ~PiStep
  BY <1>1 DEF PiStep, PiAsk, PiTimeout, PiGetInfo, PiPutCode, PiLoad, PiVerify
<1>3. UnixStep /\ upc = "result" /\ ~UnixSync /\ ~UnixDrain
  <2>1. UnixStep
    BY <1>2
  <2>2. upc = "result"
    BY <1>1, <2>1
    DEF UnixStep, UnixPrint, UnixSync, UnixDrain, UnixResult, UnixTimeout, Reading
  <2>. QED  BY <2>1, <2>2 DEF UnixSync, UnixDrain
<1>4. ppc' = "running" /\ toPi' = <<>>
  BY <1>1, <1>3 DEF UnixStep, UnixPrint, UnixResult, UnixTimeout, piVars
<1>5. /\ p \in Seq(Byte) /\ Len(p) = 2 * WordBytes + PrintLen
      /\ \A k \in 1 .. WordBytes : p[k] = <<"PRINT_STRING", k>>
      /\ \A k \in 1 .. WordBytes : p[WordBytes + k] = <<"strlen", k>>
      /\ w \in Seq(Byte) /\ Len(w) = WordBytes
      /\ \A k \in 1 .. WordBytes : w[k] = <<"BOOT_SUCCESS", k>>
  BY PrintIs, PrintAt, WordsAre DEF Opcodes
<1>. HIDE DEF p, w
<1>6. CASE toUnix = p \o w
  <2>1. /\ toUnix \in Seq(Byte) /\ Len(toUnix) = 3 * WordBytes + PrintLen
        /\ \A k \in 1 .. Len(p) : toUnix[k] = p[k]
    <3>1. /\ p \o w \in Seq(Byte) /\ Len(p \o w) = Len(p) + Len(w)
          /\ \A k \in 1 .. Len(p) : (p \o w)[k] = p[k]
      BY <1>5, JoinIs
    <3>2. Len(p) + Len(w) = 3 * WordBytes + PrintLen
      BY <1>5
    <3>. QED  BY <1>6, <3>1, <3>2
  <2>2. \A k \in 1 .. WordBytes : k \in 1 .. Len(p) /\ WordBytes + k \in 1 .. Len(p)
    BY <1>5
  <2>3. /\ \A k \in 1 .. WordBytes : toUnix[k] = <<"PRINT_STRING", k>>
        /\ \A k \in 1 .. WordBytes : toUnix[WordBytes + k] = <<"strlen", k>>
    BY <1>5, <2>1, <2>2
  <2>4. Op = "PRINT_STRING"
    <3>1. Len(toUnix) >= WordBytes /\ "PRINT_STRING" \in Opcodes \cup Fields
      BY <2>1 DEF Opcodes
    <3>2. WordAt(toUnix, 1) = "PRINT_STRING"
      BY <2>1, <2>3, <3>1, First
    <3>. QED  BY <3>2 DEF Op
  <2>5. WordAt(toUnix, 2) = "strlen"
    <3>1. 2 \in 1 .. 4 /\ 2 * WordBytes <= Len(toUnix) /\ "strlen" \in Opcodes \cup Fields
          /\ \A k \in 1 .. WordBytes : (2 - 1) * WordBytes + k = WordBytes + k
      BY <2>1 DEF Fields
    <3>2. \A k \in 1 .. WordBytes : toUnix[(2 - 1) * WordBytes + k] = <<"strlen", k>>
      BY <2>3, <3>1
    <3>. QED  BY <2>1, <3>1, <3>2, WordSeen
  <2>6. Need = 2 * WordBytes + PrintLen /\ ~Starved
    <3>1. ~(Len(toUnix) < WordBytes)
      BY <2>1
    <3>2. Need = 2 * WordBytes + PrintLen
      BY <2>4, <3>1 DEF Need
    <3>. QED  BY <2>1, <3>2 DEF Starved
  <2>7. UnixPrint
    BY <1>3, <2>4, <2>6 DEF UnixStep, UnixResult, UnixTimeout
  <2>8. toUnix' = Drop(p \o w, Len(p)) /\ UNCHANGED upc
    BY <1>5, <1>6, <2>5, <2>6, <2>7 DEF UnixPrint
  <2>9. toUnix' = w
    BY <1>5, <2>8, DropJoin
  <2>10. Running'
    BY <1>3, <1>4, <2>8, <2>9 DEF Running, w
  <2>. QED  BY <1>1, <1>4, <2>10 DEF Script, Quiet
<1>7. CASE toUnix = w
  <2>1. Len(toUnix) >= WordBytes /\ "BOOT_SUCCESS" \in Opcodes \cup Fields
    BY <1>5, <1>7 DEF Opcodes
  <2>2. Op = "BOOT_SUCCESS"
    <3>1. WordAt(toUnix, 1) = "BOOT_SUCCESS"
      BY <1>5, <1>7, <2>1, First
    <3>. QED  BY <3>1 DEF Op
  <2>3. ~Starved
    <3>1. ~(Len(toUnix) < WordBytes)
      BY <1>5, <1>7
    <3>2. Need = WordBytes
      BY <1>3, <2>2, <3>1 DEF Need
    <3>. QED  BY <1>5, <1>7, <3>2 DEF Starved
  <2>4. UnixResult
    BY <1>3, <2>2, <2>3 DEF UnixStep, UnixPrint, UnixTimeout
  <2>5. upc' = "done"
    BY <2>2, <2>4 DEF UnixResult, Success
  <2>6. Running'
    BY <1>4, <2>5 DEF Running
  <2>. QED  BY <1>1, <1>4, <2>6 DEF Script, Quiet
<1>. QED  BY <1>1, <1>3, <1>6, <1>7

LEMMA StoppedStep ==
  ASSUME Stopped, UnixStep \/ PiStep
  PROVE  FALSE
<1>1. upc = "failed" /\ ppc = "code" /\ Len(toPi) = 0
  BY DEF Stopped
<1>2. ~UnixStep
  BY <1>1 DEF UnixStep, UnixPrint, UnixSync, UnixDrain, UnixResult, UnixTimeout, Reading
<1>3. ~PiStep
  BY <1>1, Sizes DEF PiStep, PiAsk, PiTimeout, PiGetInfo, PiPutCode, PiLoad, PiVerify
<1>. QED  BY <1>2, <1>3

\* the script is followed as long as nothing fails
Followed ==
    faults \in Nat /\ losses \in Nat /\ resets \in Nat /\ (Intact => Script)

LEMMA InitFollowed == Init => Followed
<1>. SUFFICES ASSUME Init PROVE Followed
  OBVIOUS
<1>1. toUnix \in Leftovers
  BY DEF Init
<1>2. toUnix \in Seq(Byte)
  BY <1>1, LeftoversAre
<1>3. Lead(toUnix)
  <2>. WordBytes \in Nat \ {0}
    BY Sizes
  <2>1. ASSUME NEW k \in 1 .. WordBytes, toUnix = Drop(Word("GET_PROG_INFO"), k)
        PROVE  Lead(toUnix)
    <3>1. /\ Word("GET_PROG_INFO") \in Seq(Byte) /\ Len(Word("GET_PROG_INFO")) = WordBytes
          /\ \A i \in 1 .. WordBytes : Word("GET_PROG_INFO")[i] = <<"GET_PROG_INFO", i>>
      BY WordsAre DEF Opcodes
    <3>2. k \in 0 .. Len(Word("GET_PROG_INFO"))
      BY <3>1
    <3>3. /\ Len(toUnix) = WordBytes - k
          /\ \A i \in 1 .. WordBytes - k : toUnix[i] = Word("GET_PROG_INFO")[i + k]
      BY <2>1, <3>1, <3>2, DropIs
    <3>4. ASSUME NEW i \in 1 .. Len(toUnix) PROVE toUnix[i] = <<"GET_PROG_INFO", i + k>> /\ i + k # 1
      <4>1. i \in 1 .. WordBytes - k /\ i + k \in 1 .. WordBytes /\ i + k # 1
        BY <3>3
      <4>. QED  BY <3>1, <3>3, <4>1
    <3>5. \A i \in 1 .. Len(toUnix) :
            toUnix[i][1] = "GET_PROG_INFO" /\ toUnix[i] # <<"GET_PROG_INFO", 1>>
      BY <3>4
    <3>. QED  BY <3>3, <3>5 DEF Lead
  <2>2. ASSUME NEW k \in 1 .. WordBytes, toUnix = Bytes("garbage", k)
        PROVE  Lead(toUnix)
    <3>1. "garbage" \in Names /\ k \in Nat
      BY DEF Names
    <3>2. Len(toUnix) = k /\ \A i \in 1 .. k : toUnix[i] = <<"garbage", i>>
      BY <2>2, <3>1, BytesAre
    <3>. QED  BY <3>2 DEF Lead
  <2>. QED  BY <1>1, <2>1, <2>2 DEF Leftovers
<1>4. <<>> \in Seq(Byte) /\ Requests(<<>>) /\ toUnix = toUnix \o <<>>
  BY <1>2, ConcatEmptySeq DEF Requests
<1>5. Calling
  BY <1>2, <1>3, <1>4 DEF Init, Calling
<1>. QED  BY <1>5 DEF Init, Followed, Script

LEMMA NextFollowed ==
  ASSUME Followed, [Next]_vars
  PROVE  Followed' /\ (Intact => Quiet)
<1>1. CASE UnixStep \/ PiStep
  <2>1. UNCHANGED <<faults, losses, resets>>
    BY <1>1
    DEF UnixStep, UnixPrint, UnixSync, UnixDrain, UnixResult, UnixTimeout,
        PiStep, PiAsk, PiTimeout, PiGetInfo, PiPutCode, PiLoad, PiVerify, faultVars
  <2>2. Intact => Script' /\ Quiet
    BY <1>1, CallingStep, AnsweredStep, AgreedStep, SendingStep, LoadingStep, RunningStep,
       StoppedStep DEF Followed, Script
  <2>. QED  BY <2>1, <2>2 DEF Followed, Intact
<1>2. CASE Corrupt
  BY <1>2 DEF Corrupt, Followed, Intact, piVars, Quiet
<1>3. CASE Lose
  BY <1>3 DEF Lose, Followed, Intact, piVars, Quiet
<1>4. CASE PiReset
  BY <1>4 DEF PiReset, Followed, Intact, Quiet
<1>5. CASE UNCHANGED vars
  <2>1. Script' = Script /\ ppc' = ppc
    BY <1>5 DEF vars, unixVars, piVars, faultVars, Script, Calling, Answered, Agreed, Sending,
                Loading, Running, Stopped, Agreement, Lead, Requests, Report
  <2>. QED  BY <1>5, <2>1 DEF vars, faultVars, Followed, Intact, Quiet
<1>. QED  BY <1>1, <1>2, <1>3, <1>4, <1>5 DEF Next

LEMMA FollowedHolds == Spec => []Followed
BY InitFollowed, NextFollowed, PTL DEF Spec

(* As long as no byte is damaged or lost and the pi is not reset, nothing is under way
   to the pi when it leaves a read: after the header (GET_CODE is what my-install
   waits for) and after the last byte of the code. *)
THEOREM QuietLineHolds == Spec => QuietLine
<1>1. Followed /\ [Next]_vars =>
        [Intact /\ ppc' # ppc /\ ppc' \in {"code", "running"} => toPi' = <<>>]_vars
  BY NextFollowed DEF Quiet
<1>. QED  BY <1>1, FollowedHolds, PTL DEF Spec, QuietLine

(* Over a line that does not fail, my-install ends with no error, whatever the tty held
   when it was opened (part of a request, garbage) and however many requests the pi
   has queued: the byte thrown away after every miss gets it in step.  The program
   must fit under the bootloader's code, which is what the pi checks. *)
THEOREM NoFalseAlarmHolds ==
  ASSUME NBytes < Room
  PROVE  Spec => []NoFalseAlarm
<1>1. Followed => NoFalseAlarm
  <2>1. ~(NBytes >= Room)
    BY BootAssumption
  <2>. QED
    BY <2>1
    DEF Followed, NoFalseAlarm, Script, Calling, Answered, Agreed, Sending, Loading, Running, Stopped
<1>. QED  BY <1>1, FollowedHolds, PTL

==============================================================================
