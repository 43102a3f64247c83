--------------------------- MODULE PageTableProofs ---------------------------
(***************************************************************************)
(* Proofs about PageTable, for every number of tables, sections, frames    *)
(* and ASIDs and every permission vm_map_sec is called with.               *)
(***************************************************************************)
EXTENDS PageTable, TLAPS

LiveAsid == Asid \cap 1 .. 63
TlbEntry == [tag : LiveAsid \cup {0, Global}, section : Section, pte : Pte]
Job == [next : {"perm", "nG", "frame"}, table : Table, section : Section,
        frame : Frame, perm : Perm]

TypeOK ==
    /\ pt \in [Table -> [Section -> Pte]]
    /\ storing \in Job \cup {NotStoring}
    /\ mmu \in BOOLEAN
    /\ ttbr \in Table /\ asid \in LiveAsid \cup {0}
    /\ switch \in {"done", "called", "zeroed", "moved"}
    /\ to \in Table \X LiveAsid
    /\ tlb \in SUBSET TlbEntry
    /\ owner \in [Asid -> Table \cup {NoTable}]
    /\ unsynced \in SUBSET (Table \X Section)
    /\ maps \in Nat

\* where the switch is: an ASID other than 0 is used with its own table
SwitchInv ==
    /\ owner[to[2]] = to[1]
    /\ switch = "done" => ttbr = to[1] /\ asid = to[2]
    /\ switch \in {"zeroed", "moved"} => asid = 0
    /\ switch = "moved" => ttbr = to[1]
    /\ asid # 0 => owner[asid] = ttbr
    /\ switch # "done" => storing = NotStoring
    /\ Allocated(ttbr)
    /\ \A a \in Asid : owner[a] \in Table => Allocated(owner[a])

\* vm_map_sec is at section s of t
At(t, s) == storing.next # "none" /\ storing.table = t /\ storing.section = s

\* kernel sections are global, and the same in every table; the others are not
\* global, but for the one vm_map_sec has yet to store nG of
KernelInv ==
    /\ Allocated(Kernel)
    /\ \A t \in Table, s \in KernSection : ~pt[t][s].nG
    /\ \A t \in Table, s \in Section \ KernSection :
        pt[t][s].valid => pt[t][s].nG \/ (At(t, s) /\ storing.next \in {"perm", "nG"})
    /\ \A t \in Table, s \in KernSection : Allocated(t) => pt[t][s] = pt[Kernel][s]

AllUnsynced(s) == \A t \in Table : <<t, s>> \in unsynced

\* neither the walker nor the TLB knows of section s of t
Unseen(t, s) ==
    /\ ~(mmu /\ ttbr = t)
    /\ \A e \in tlb : e.section = s =>
        /\ e.tag # Global
        /\ e.tag \in 1 .. 63 => owner[e.tag] # t

\* an entry is owed synchronisation while it is half written, unless the
\* walker and the TLB do not know of it
StoringInv ==
    \A t \in Table, s \in Section : At(t, s) =>
        /\ pt[t][s].valid
        /\ s \in KernSection => /\ t = Kernel /\ AllUnsynced(s)
                                /\ \A u \in Table : Allocated(u) => u = Kernel
        /\ <<t, s>> \in unsynced \/ Unseen(t, s)
        /\ ~pt[t][s].nG /\ mmu /\ ttbr = t => AllUnsynced(s)

TlbInv ==
    /\ TlbTrue
    /\ \A s \in KernSection, t \in Table : <<t, s>> \in unsynced => AllUnsynced(s)
    /\ \A e \in tlb :
        /\ e.pte.valid
        /\ e.tag = Global => e.section \in KernSection \/ AllUnsynced(e.section)

Inv == TypeOK /\ SwitchInv /\ KernelInv /\ StoringInv /\ TlbInv

------------------------------------------------------------------------------
(* The operators. *)

(* ASIDs in use are neither 0, which the switch uses, nor the tag of global
   entries. *)
LEMMA Tags ==
  /\ KernAsid \in LiveAsid /\ 0 \notin 1 .. 63 /\ Global \notin 1 .. 63 /\ Global # 0
  /\ LiveAsid \subseteq Asid
BY PageTableAssumption DEF LiveAsid, KernAsid, Global

(* An entry remains one when its tag is written. *)
LEMMA WriteValid ==
  ASSUME NEW e \in Pte, NEW v \in BOOLEAN
  PROVE  /\ [e EXCEPT !.valid = v] \in Pte
         /\ [e EXCEPT !.valid = v].valid = v
         /\ [e EXCEPT !.valid = v].nG = e.nG
<1>1. [e EXCEPT !.valid = v] \in Pte
  BY DEF Pte
<1>2. [e EXCEPT !.valid = v].valid = v
  BY DEF Pte
<1>3. [e EXCEPT !.valid = v].nG = e.nG
  BY DEF Pte
<1>. QED  BY <1>1, <1>2, <1>3, Zenon

(* An entry remains one when its nG is written. *)
LEMMA WriteNG ==
  ASSUME NEW e \in Pte, NEW v \in BOOLEAN
  PROVE  /\ [e EXCEPT !.nG = v] \in Pte
         /\ [e EXCEPT !.nG = v].valid = e.valid
         /\ [e EXCEPT !.nG = v].nG = v
<1>1. [e EXCEPT !.nG = v] \in Pte
  BY DEF Pte
<1>2. [e EXCEPT !.nG = v].valid = e.valid
  BY DEF Pte
<1>3. [e EXCEPT !.nG = v].nG = v
  BY DEF Pte
<1>. QED  BY <1>1, <1>2, <1>3, Zenon

(* Each store of vm_map_sec changes its own fields and no others. *)
LEMMA SetTagType ==
  ASSUME NEW e \in Pte
  PROVE  SetTag(e) \in Pte /\ SetTag(e).valid = TRUE /\ SetTag(e).nG = e.nG
BY TRUE \in BOOLEAN, WriteValid, Zenon DEF SetTag

LEMMA SetPermType ==
  ASSUME NEW e \in Pte, NEW perm \in {0, 1, 2, 3, 5}
  PROVE  /\ SetPerm(e, perm) \in Pte
         /\ SetPerm(e, perm).valid = e.valid
         /\ SetPerm(e, perm).nG = e.nG
<1>. DEFINE bits == 4 * (perm \div 4) + (perm % 2)
            d == [e EXCEPT !.perm = bits]
<1>1. bits \in 0 .. 7 /\ perm \in 0 .. 7
  OBVIOUS
<1>2. SetPerm(e, perm) = [d EXCEPT !.asked = perm]
  BY DEF SetPerm, Pte
<1>. HIDE DEF bits
<1>3. d \in Pte /\ d.valid = e.valid /\ d.nG = e.nG
  <2>1. d \in Pte
    BY <1>1 DEF Pte
  <2>2. d.valid = e.valid
    BY DEF Pte
  <2>3. d.nG = e.nG
    BY DEF Pte
  <2>. QED  BY <2>1, <2>2, <2>3, Zenon
<1>. HIDE DEF d
<1>4. SetPerm(e, perm) \in Pte
  BY <1>1, <1>2, <1>3 DEF Pte
<1>5. SetPerm(e, perm).valid = d.valid
  BY <1>2, <1>3 DEF Pte
<1>6. SetPerm(e, perm).nG = d.nG
  BY <1>2, <1>3 DEF Pte
<1>. QED  BY <1>3, <1>4, <1>5, <1>6, Zenon

LEMMA SetNGType ==
  ASSUME NEW e \in Pte, NEW s
  PROVE  /\ SetNG(e, s) \in Pte
         /\ SetNG(e, s).valid = e.valid
         /\ SetNG(e, s).nG = (s \notin KernSection)
<1>1. (s \notin KernSection) \in BOOLEAN
  OBVIOUS
<1>. QED  BY <1>1, WriteNG, Zenon DEF SetNG

LEMMA SetFrameType ==
  ASSUME NEW e \in Pte, NEW f \in Megabyte
  PROVE  /\ SetFrame(e, f) \in Pte
         /\ SetFrame(e, f).valid = e.valid
         /\ SetFrame(e, f).nG = e.nG
<1>1. SetFrame(e, f) \in Pte
  BY DEF SetFrame, Pte
<1>2. SetFrame(e, f).valid = e.valid
  BY DEF SetFrame, Pte
<1>3. SetFrame(e, f).nG = e.nG
  BY DEF SetFrame, Pte
<1>. QED  BY <1>1, <1>2, <1>3, Zenon

(* The entries of an empty table are neither valid nor marked nG. *)
LEMMA ZeroType == Zero \in Pte /\ Zero.valid = FALSE /\ Zero.nG = FALSE
<1>1. Zero \in Pte
  BY DEF Zero, Pte, Megabyte
<1>. QED  BY <1>1, Zenon DEF Zero

(* The entries vm_map_kernel makes are valid and global. *)
LEMMA KernelPteType ==
  ASSUME NEW s \in KernSection
  PROVE  KernelPte(s) \in Pte /\ KernelPte(s).valid = TRUE /\ KernelPte(s).nG = FALSE
<1>. DEFINE a == SetTag(Zero)
            b == SetPerm(a, 1)
            c == SetNG(b, s)
<1>1. s \in Megabyte /\ s \in Section /\ 1 \in {0, 1, 2, 3, 5}
  BY PageTableAssumption
<1>2. a \in Pte /\ a.valid
  BY SetTagType, ZeroType, Zenon
<1>. HIDE DEF a
<1>3. b \in Pte /\ b.valid
  BY <1>1, <1>2, SetPermType, Zenon
<1>. HIDE DEF b
<1>4. c \in Pte /\ c.valid /\ c.nG = (s \notin KernSection)
  BY <1>3, SetNGType, Zenon
<1>. HIDE DEF c
<1>5. SetFrame(c, s) \in Pte /\ SetFrame(c, s).valid /\ SetFrame(c, s).nG = c.nG
  BY <1>1, <1>4, SetFrameType, Zenon
<1>6. KernelPte(s) = SetFrame(c, s)
  BY DEF KernelPte, a, b, c
<1>. QED  BY <1>4, <1>5, <1>6, Zenon

LEMMA InitInv == Init => Inv
<1>. SUFFICES ASSUME Init PROVE Inv
  OBVIOUS
<1>. USE PageTableAssumption
<1>1. \A t \in Table, s \in Section :
        pt[t][s] = IF t = Kernel /\ s \in KernSection THEN KernelPte(s) ELSE Zero
  BY DEF Init
<1>2. Zero \in Pte /\ ~Zero.valid /\ ~Zero.nG
  BY ZeroType
<1>10. \A t \in Table, s \in Section :
         /\ pt[t][s].valid <=> t = Kernel /\ s \in KernSection
         /\ ~pt[t][s].nG
  <2>. SUFFICES ASSUME NEW t \in Table, NEW s \in Section
                PROVE  /\ pt[t][s].valid <=> t = Kernel /\ s \in KernSection
                       /\ ~pt[t][s].nG
    OBVIOUS
  <2>1. CASE t = Kernel /\ s \in KernSection
    <3>1. pt[t][s] = KernelPte(s)
      BY <2>1, <1>1
    <3>. QED  BY <2>1, <3>1, KernelPteType, Zenon
  <2>2. CASE ~(t = Kernel /\ s \in KernSection)
    <3>1. pt[t][s] = Zero
      BY <2>2, <1>1
    <3>. QED  BY <2>2, <3>1, <1>2, Zenon
  <2>. QED  BY <2>1, <2>2
<1>3. pt \in [Table -> [Section -> Pte]]
  <2>1. \A t \in Table, s \in Section :
          (IF t = Kernel /\ s \in KernSection THEN KernelPte(s) ELSE Zero) \in Pte
    BY <1>2, KernelPteType
  <2>. QED  BY <2>1 DEF Init
<1>4. Allocated(Kernel) /\ \A t \in Table : Allocated(t) => t = Kernel
  BY <1>10 DEF Allocated
<1>5. storing = NotStoring /\ NotStoring.next = "none"
  BY DEF Init, NotStoring
<1>6. TypeOK
  BY <1>3, <1>5, Tags DEF Init, TypeOK
<1>7. SwitchInv
  BY <1>4 DEF Init, SwitchInv
<1>8. KernelInv
  <2>1. \A t \in Table, s \in KernSection : ~pt[t][s].nG
    BY <1>10
  <2>2. \A t \in Table, s \in Section \ KernSection : ~pt[t][s].valid
    BY <1>10
  <2>3. \A t \in Table, s \in KernSection : Allocated(t) => pt[t][s] = pt[Kernel][s]
    BY <1>4
  <2>. QED  BY <2>1, <2>2, <2>3, <1>4 DEF KernelInv
<1>9. StoringInv
  BY <1>5 DEF StoringInv, At
<1>11. TlbInv
  BY DEF Init, TlbInv, TlbTrue
<1>. QED  BY <1>6, <1>7, <1>8, <1>9, <1>11 DEF Inv

------------------------------------------------------------------------------
(* The tables. *)

(* Outside vm_map_sec no entry is half written. *)
LEMMA NotAt == ASSUME storing = NotStoring PROVE \A t, s : ~At(t, s)
BY DEF At, NotStoring

(* vm_dup gives the copy the kernel sections of the original. *)
LEMMA DupInv ==
  ASSUME Inv, NEW t \in Table, NEW u \in Table, vm_dup(t, u)
  PROVE  Inv'
<1>. USE PageTableAssumption DEF Inv, TypeOK
<1>1. /\ Allocated(t) /\ ~Allocated(u) /\ pt' = [pt EXCEPT ![u] = pt[t]]
      /\ storing = NotStoring
  BY DEF vm_dup, Idle
<1>2. UNCHANGED <<storing, mmu, ttbr, asid, switch, to, tlb, owner, unsynced, maps>>
  BY DEF vm_dup
<1>3. pt' \in [Table -> [Section -> Pte]]
  BY <1>1
<1>4. \A v \in Table : Allocated(v)' <=> Allocated(v) \/ v = u
  BY <1>1 DEF Allocated
<1>5. \A v \in Table : v # u => pt'[v] = pt[v]
  BY <1>1
<1>6. pt'[u] = pt[t]
  BY <1>1
<1>7. u # Kernel
  BY <1>1 DEF KernelInv
<1>8. TypeOK'
  BY <1>2, <1>3
<1>9. SwitchInv'
  BY <1>2, <1>4 DEF SwitchInv
<1>10. \A v, s : ~At(v, s) /\ ~At(v, s)'
  BY <1>1, <1>2, NotAt DEF At
<1>11. KernelInv'
  <2>1. Allocated(Kernel)'
    BY <1>4 DEF KernelInv
  <2>2. ASSUME NEW v \in Table PROVE \E w \in Table : pt'[v] = pt[w]
    BY <1>5, <1>6
  <2>3. \A v \in Table, s \in KernSection : ~pt'[v][s].nG
    BY <2>2 DEF KernelInv
  <2>4. \A v \in Table, s \in Section \ KernSection : pt'[v][s].valid => pt'[v][s].nG
    BY <2>2, <1>10 DEF KernelInv
  <2>5. ASSUME NEW v \in Table, NEW s \in KernSection, Allocated(v)'
        PROVE  pt'[v][s] = pt'[Kernel][s]
    BY <2>5, <1>1, <1>4, <1>5, <1>6, <1>7 DEF KernelInv
  <2>. QED  BY <2>1, <2>3, <2>4, <2>5 DEF KernelInv
<1>12. StoringInv'
  BY <1>10 DEF StoringInv
<1>13. TlbInv'
  <2>1. ASSUME NEW e \in tlb, e.tag \in 1 .. 63
        PROVE  /\ owner[e.tag] \in Table
               /\ \/ e.pte = pt'[owner[e.tag]][e.section]
                  \/ <<owner[e.tag], e.section>> \in unsynced
    <3>1. e.tag \in Asid
      BY <2>1, Tags DEF TlbEntry
    <3>2. owner[e.tag] \in Table
      BY <2>1 DEF TlbInv, TlbTrue
    <3>3. owner[e.tag] # u
      BY <3>1, <3>2, <1>1 DEF SwitchInv
    <3>. QED  BY <2>1, <3>2, <3>3, <1>5 DEF TlbInv, TlbTrue
  <2>2. ASSUME NEW e \in tlb, e.tag = Global, NEW v \in Table, Allocated(v)'
        PROVE  e.pte = pt'[v][e.section] \/ <<v, e.section>> \in unsynced
    <3>1. CASE v # u
      BY <2>2, <3>1, <1>4, <1>5 DEF TlbInv, TlbTrue
    <3>2. CASE v = u
      <4>1. e.section \in KernSection \/ AllUnsynced(e.section)
        BY <2>2 DEF TlbInv
      <4>2. CASE AllUnsynced(e.section)
        BY <4>2 DEF AllUnsynced
      <4>3. CASE e.section \in KernSection /\ ~AllUnsynced(e.section)
        <5>1. e.pte = pt[t][e.section]
          BY <2>2, <4>3, <1>1 DEF TlbInv, TlbTrue
        <5>. QED  BY <5>1, <3>2, <1>6
      <4>. QED  BY <4>1, <4>2, <4>3
    <3>. QED  BY <3>1, <3>2
  <2>. QED  BY <2>1, <2>2, <1>2 DEF TlbInv, TlbTrue, AllUnsynced
<1>. QED  BY <1>8, <1>9, <1>11, <1>12, <1>13

(* The first store of vm_map_sec: from here on the entry is owed a
   mmu_sync_pte_mods, unless neither the walker nor the TLB knows of it. *)
LEMMA MapInv ==
  ASSUME Inv, NEW t \in Table, NEW s \in Section, NEW f \in Frame, NEW perm \in Perm,
         vm_map_sec(t, s, f, perm)
  PROVE  Inv'
<1>. USE PageTableAssumption DEF Inv, TypeOK
<1>. DEFINE new == SetTag(pt[t][s])
<1>1. /\ Allocated(t) /\ storing = NotStoring /\ switch = "done"
      /\ s \in KernSection => t = Kernel /\ \A u \in Table \ {Kernel} : ~Allocated(u)
      /\ pt' = [pt EXCEPT ![t] = [@ EXCEPT ![s] = new]]
      /\ storing' = [next |-> "perm", table |-> t, section |-> s, frame |-> f, perm |-> perm]
      /\ unsynced' = unsynced \cup (Disturbed(t, s) \X {s})
      /\ maps' = maps + 1
  BY DEF vm_map_sec, Idle, Store
<1>2. UNCHANGED <<mmu, ttbr, asid, switch, to, tlb, owner>>
  BY DEF vm_map_sec
<1>3. new \in Pte /\ new.valid /\ new.nG = pt[t][s].nG
  <2>1. pt[t][s] \in Pte
    OBVIOUS
  <2>. QED  BY <2>1, SetTagType, Zenon
<1>. HIDE DEF new
<1>4. pt' \in [Table -> [Section -> Pte]]
  BY <1>1, <1>3
<1>5. \A v \in Table, r \in Section :
        pt'[v][r] = IF v = t /\ r = s THEN new ELSE pt[v][r]
  BY <1>1
<1>6. \A v \in Table : Allocated(v)' <=> Allocated(v)
  BY <1>1, <1>3, <1>5 DEF Allocated
<1>7. /\ \A v, r : ~At(v, r)
      /\ At(t, s)' /\ storing'.next = "perm"
      /\ \A v, r : At(v, r)' => v = t /\ r = s
  BY <1>1, NotAt DEF At
<1>8. /\ Disturbed(t, s) \subseteq Table
      /\ pt[t][s].valid => t \in Disturbed(t, s)
      /\ ~pt[t][s].nG /\ (pt[t][s].valid \/ (mmu /\ ttbr = t)) => Disturbed(t, s) = Table
  BY DEF Disturbed
<1>9. /\ unsynced \subseteq unsynced' /\ unsynced' \in SUBSET (Table \X Section)
      /\ \A v, r : <<v, r>> \in unsynced' <=>
            <<v, r>> \in unsynced \/ (v \in Disturbed(t, s) /\ r = s)
  BY <1>1, <1>8
<1>10. TypeOK'
  <2>1. storing' \in Job
    BY <1>1 DEF Job
  <2>. QED  BY <1>1, <1>2, <1>4, <1>9, <2>1
<1>11. SwitchInv'
  BY <1>1, <1>2, <1>6 DEF SwitchInv
<1>12. KernelInv'
  <2>1. \A v \in Table, r \in KernSection : ~pt'[v][r].nG
    BY <1>3, <1>5 DEF KernelInv
  <2>2. ASSUME NEW v \in Table, NEW r \in Section \ KernSection, pt'[v][r].valid
        PROVE  pt'[v][r].nG \/ (At(v, r)' /\ storing'.next \in {"perm", "nG"})
    BY <2>2, <1>5, <1>7 DEF KernelInv
  <2>3. ASSUME NEW v \in Table, NEW r \in KernSection, Allocated(v)'
        PROVE  pt'[v][r] = pt'[Kernel][r]
    <3>1. CASE s \in KernSection
      BY <2>3, <3>1, <1>1, <1>6
    <3>2. CASE s \notin KernSection
      BY <2>3, <3>2, <1>5, <1>6 DEF KernelInv
    <3>. QED  BY <3>1, <3>2
  <2>. QED  BY <2>1, <2>2, <2>3, <1>6 DEF KernelInv
<1>13. s \in KernSection => AllUnsynced(s)'
  BY <1>1, <1>8, <1>9 DEF AllUnsynced, KernelInv, Allocated
<1>14. ASSUME NEW e \in tlb, e.section = s, <<t, s>> \notin unsynced'
       PROVE  e.tag # Global /\ (e.tag \in 1 .. 63 => owner[e.tag] # t)
  <2>1. ~pt[t][s].valid /\ <<t, s>> \notin unsynced
    BY <1>8, <1>9, <1>14
  <2>2. e.pte # pt[t][s]
    BY <2>1 DEF TlbInv
  <2>. QED  BY <1>1, <1>14, <2>1, <2>2 DEF TlbInv, TlbTrue
<1>15. StoringInv'
  <2>. SUFFICES ASSUME NEW v \in Table, NEW r \in Section, At(v, r)'
       PROVE  /\ pt'[v][r].valid
              /\ r \in KernSection => /\ v = Kernel /\ AllUnsynced(r)'
                                      /\ \A u \in Table : Allocated(u)' => u = Kernel
              /\ <<v, r>> \in unsynced' \/ Unseen(v, r)'
              /\ ~pt'[v][r].nG /\ mmu' /\ ttbr' = v => AllUnsynced(r)'
    BY DEF StoringInv
  <2>1. v = t /\ r = s
    BY <1>7
  <2>2. pt'[v][r].valid
    BY <2>1, <1>3, <1>5
  <2>3. r \in KernSection => /\ v = Kernel /\ AllUnsynced(r)'
                             /\ \A u \in Table : Allocated(u)' => u = Kernel
    BY <2>1, <1>1, <1>6, <1>13
  <2>4. <<v, r>> \in unsynced' \/ Unseen(v, r)'
    <3>1. CASE <<t, s>> \notin unsynced'
      <4>1. ~(mmu /\ ttbr = t)
        BY <3>1, <1>8, <1>9 DEF Disturbed
      <4>. QED  BY <2>1, <3>1, <4>1, <1>2, <1>14 DEF Unseen
    <3>. QED  BY <2>1, <3>1
  <2>5. ~pt'[v][r].nG /\ mmu' /\ ttbr' = v => AllUnsynced(r)'
    BY <2>1, <1>2, <1>3, <1>5, <1>8, <1>9 DEF AllUnsynced
  <2>. QED  BY <2>2, <2>3, <2>4, <2>5
<1>16. TlbInv'
  <2>1. ASSUME NEW e \in tlb, e.tag \in 1 .. 63
        PROVE  /\ owner[e.tag] \in Table
               /\ \/ e.pte = pt'[owner[e.tag]][e.section]
                  \/ <<owner[e.tag], e.section>> \in unsynced'
    <3>1. owner[e.tag] \in Table /\ e.section \in Section
      BY <2>1 DEF TlbInv, TlbTrue, TlbEntry
    <3>2. CASE owner[e.tag] = t /\ e.section = s
      BY <2>1, <3>1, <3>2, <1>14
    <3>3. CASE ~(owner[e.tag] = t /\ e.section = s)
      BY <2>1, <3>1, <3>3, <1>5, <1>9 DEF TlbInv, TlbTrue
    <3>. QED  BY <3>1, <3>2, <3>3
  <2>2. ASSUME NEW e \in tlb, e.tag = Global, NEW v \in Table, Allocated(v)'
        PROVE  e.pte = pt'[v][e.section] \/ <<v, e.section>> \in unsynced'
    <3>1. e.section \in Section /\ Allocated(v)
      BY <2>2, <1>6 DEF TlbEntry
    <3>2. CASE v = t /\ e.section = s
      BY <2>2, <3>2, <1>14
    <3>3. CASE ~(v = t /\ e.section = s)
      BY <2>2, <3>1, <3>3, <1>5, <1>9 DEF TlbInv, TlbTrue
    <3>. QED  BY <3>2, <3>3
  <2>3. \A r \in KernSection, v \in Table : <<v, r>> \in unsynced' => AllUnsynced(r)'
    BY <1>9, <1>13 DEF TlbInv, AllUnsynced
  <2>4. \A e \in tlb : e.pte.valid /\ (e.tag = Global =>
                                          e.section \in KernSection \/ AllUnsynced(e.section)')
    BY <1>9 DEF TlbInv, AllUnsynced
  <2>. QED  BY <2>1, <2>2, <2>3, <2>4, <1>2 DEF TlbInv, TlbTrue
<1>. QED  BY <1>10, <1>11, <1>12, <1>15, <1>16

(* Each further store changes an entry that is owed synchronisation already or
   that nobody knows of. *)
LEMMA StoreInv ==
  ASSUME Inv, storing.next # "none",
         NEW e \in Pte, e.valid = Half.valid,
         storing.section \in KernSection => ~e.nG,
         storing.section \notin KernSection =>
            e.nG \/ (storing'.next \in {"perm", "nG"}),
         ~e.nG => ~Half.nG \/ storing.section \in KernSection,
         Store(storing.table, storing.section, e),
         \/ storing' = NotStoring
         \/ /\ storing' \in Job
            /\ storing'.table = storing.table /\ storing'.section = storing.section,
         UNCHANGED <<mmu, ttbr, asid, switch, to, tlb, owner, unsynced, maps>>
  PROVE  Inv'
<1>. USE PageTableAssumption DEF Inv, TypeOK
<1>. DEFINE t == storing.table
            s == storing.section
<1>1. storing \in Job
  BY DEF NotStoring
<1>2. t \in Table /\ s \in Section /\ At(t, s) /\ \A v, r : At(v, r) => v = t /\ r = s
  BY <1>1 DEF Job, At
<1>3. /\ pt[t][s].valid
      /\ s \in KernSection => /\ t = Kernel /\ AllUnsynced(s)
                              /\ \A u \in Table : Allocated(u) => u = Kernel
      /\ <<t, s>> \in unsynced \/ Unseen(t, s)
      /\ ~pt[t][s].nG /\ mmu /\ ttbr = t => AllUnsynced(s)
  BY <1>2 DEF StoringInv
<1>4. pt' = [pt EXCEPT ![t] = [@ EXCEPT ![s] = e]] /\ Half = pt[t][s]
  BY DEF Store, Half
<1>5. \A v, r : At(v, r)' => /\ v = t /\ r = s /\ storing' # NotStoring
  <2>1. CASE storing' = NotStoring
    BY <2>1 DEF At, NotStoring
  <2>2. CASE storing' # NotStoring
    BY <2>2 DEF At
  <2>. QED  BY <2>1, <2>2
<1>6. storing'.next \in {"perm", "nG"} => \A v, r : v = t /\ r = s => At(v, r)'
  BY DEF At, NotStoring
<1>. HIDE DEF t, s
<1>7. e.valid
  BY <1>3, <1>4
<1>8. pt' \in [Table -> [Section -> Pte]]
  BY <1>2, <1>4
<1>9. \A v \in Table, r \in Section :
        pt'[v][r] = IF v = t /\ r = s THEN e ELSE pt[v][r]
  BY <1>2, <1>4
<1>10. \A v \in Table : Allocated(v)' <=> Allocated(v)
  BY <1>3, <1>7, <1>9 DEF Allocated
<1>11. /\ s \in KernSection => ~e.nG
       /\ s \notin KernSection => e.nG \/ (storing'.next \in {"perm", "nG"})
       /\ ~e.nG => ~pt[t][s].nG \/ s \in KernSection
  BY <1>4 DEF s
<1>12. TypeOK'
  BY <1>8
<1>13. SwitchInv'
  <2>1. switch # "none" /\ (switch # "done" => storing = NotStoring)
    BY DEF SwitchInv
  <2>2. storing # NotStoring
    BY DEF NotStoring
  <2>. QED  BY <2>1, <2>2, <1>10 DEF SwitchInv
<1>14. KernelInv'
  <2>1. \A v \in Table, r \in KernSection : ~pt'[v][r].nG
    BY <1>9, <1>11 DEF KernelInv
  <2>2. ASSUME NEW v \in Table, NEW r \in Section \ KernSection, pt'[v][r].valid
        PROVE  pt'[v][r].nG \/ (At(v, r)' /\ storing'.next \in {"perm", "nG"})
    <3>1. CASE v = t /\ r = s
      <4>1. pt'[v][r] = e /\ s \notin KernSection
        BY <3>1, <1>9
      <4>2. CASE e.nG
        BY <4>1, <4>2
      <4>3. CASE storing'.next \in {"perm", "nG"}
        BY <3>1, <4>3, <1>6
      <4>. QED  BY <4>1, <4>2, <4>3, <1>11
    <3>2. CASE ~(v = t /\ r = s)
      BY <2>2, <3>2, <1>2, <1>9 DEF KernelInv
    <3>. QED  BY <3>1, <3>2
  <2>3. ASSUME NEW v \in Table, NEW r \in KernSection, Allocated(v)'
        PROVE  pt'[v][r] = pt'[Kernel][r]
    <3>1. CASE s \in KernSection
      BY <2>3, <3>1, <1>3, <1>10
    <3>2. CASE s \notin KernSection
      BY <2>3, <3>2, <1>9, <1>10 DEF KernelInv
    <3>. QED  BY <3>1, <3>2
  <2>. QED  BY <2>1, <2>2, <2>3, <1>10 DEF KernelInv
<1>15. StoringInv'
  <2>. SUFFICES ASSUME NEW v \in Table, NEW r \in Section, At(v, r)'
       PROVE  /\ pt'[v][r].valid
              /\ r \in KernSection => /\ v = Kernel /\ AllUnsynced(r)
                                      /\ \A u \in Table : Allocated(u)' => u = Kernel
              /\ <<v, r>> \in unsynced \/ Unseen(v, r)
              /\ ~pt'[v][r].nG /\ mmu /\ ttbr = v => AllUnsynced(r)
    BY DEF StoringInv, AllUnsynced, Unseen
  <2>1. v = t /\ r = s
    BY <1>5
  <2>. QED  BY <2>1, <1>3, <1>7, <1>9, <1>10, <1>11
<1>16. TlbInv'
  <2>1. ASSUME NEW d \in tlb, d.tag \in 1 .. 63
        PROVE  /\ owner[d.tag] \in Table
               /\ \/ d.pte = pt'[owner[d.tag]][d.section]
                  \/ <<owner[d.tag], d.section>> \in unsynced
    <3>1. owner[d.tag] \in Table /\ d.section \in Section
      BY <2>1 DEF TlbInv, TlbTrue, TlbEntry
    <3>2. CASE owner[d.tag] = t /\ d.section = s
      BY <2>1, <3>1, <3>2, <1>3 DEF Unseen
    <3>3. CASE ~(owner[d.tag] = t /\ d.section = s)
      BY <2>1, <3>1, <3>3, <1>9 DEF TlbInv, TlbTrue
    <3>. QED  BY <3>1, <3>2, <3>3
  <2>2. ASSUME NEW d \in tlb, d.tag = Global, NEW v \in Table, Allocated(v)'
        PROVE  d.pte = pt'[v][d.section] \/ <<v, d.section>> \in unsynced
    <3>1. d.section \in Section /\ Allocated(v)
      BY <2>2, <1>10 DEF TlbEntry
    <3>2. CASE v = t /\ d.section = s
      BY <2>2, <3>2, <1>3 DEF Unseen
    <3>3. CASE ~(v = t /\ d.section = s)
      BY <2>2, <3>1, <3>3, <1>9 DEF TlbInv, TlbTrue
    <3>. QED  BY <3>2, <3>3
  <2>. QED  BY <2>1, <2>2 DEF TlbInv, TlbTrue, AllUnsynced
<1>. QED  BY <1>12, <1>13, <1>14, <1>15, <1>16

LEMMA StorePermInv == ASSUME Inv, StorePerm PROVE Inv'
<1>. DEFINE e == SetPerm(Half, storing.perm)
<1>1. /\ storing.next = "perm" /\ Store(storing.table, storing.section, e)
      /\ storing' = [storing EXCEPT !.next = "nG"]
      /\ UNCHANGED <<mmu, ttbr, asid, switch, to, tlb, owner, unsynced, maps>>
  BY DEF StorePerm
<1>2. storing \in Job
  BY <1>1 DEF Inv, TypeOK, NotStoring
<1>3. /\ storing' \in Job /\ storing'.next = "nG"
      /\ storing'.table = storing.table /\ storing'.section = storing.section
  BY <1>1, <1>2 DEF Job
<1>4. /\ Half \in Pte /\ storing.perm \in {0, 1, 2, 3, 5}
      /\ storing.section \in KernSection => ~Half.nG
  <2>1. storing.table \in Table /\ storing.section \in Section /\ storing.perm \in Perm
    BY <1>2 DEF Job
  <2>2. Half \in Pte
    BY <2>1 DEF Half, Inv, TypeOK
  <2>3. storing.section \in KernSection => ~Half.nG
    BY <2>1 DEF Half, Inv, KernelInv
  <2>. QED  BY <2>1, <2>2, <2>3, PageTableAssumption
<1>5. e \in Pte /\ e.valid = Half.valid /\ e.nG = Half.nG
  BY <1>4, SetPermType, Zenon
<1>. HIDE DEF e
<1>. QED  BY <1>1, <1>3, <1>4, <1>5, StoreInv

LEMMA StoreNGInv == ASSUME Inv, StoreNG PROVE Inv'
<1>. DEFINE e == SetNG(Half, storing.section)
<1>1. /\ storing.next = "nG" /\ Store(storing.table, storing.section, e)
      /\ storing' = [storing EXCEPT !.next = "frame"]
      /\ UNCHANGED <<mmu, ttbr, asid, switch, to, tlb, owner, unsynced, maps>>
  BY DEF StoreNG
<1>2. storing \in Job
  BY <1>1 DEF Inv, TypeOK, NotStoring
<1>3. /\ storing' \in Job
      /\ storing'.table = storing.table /\ storing'.section = storing.section
  BY <1>1, <1>2 DEF Job
<1>4. Half \in Pte
  BY <1>2 DEF Half, Job, Inv, TypeOK
<1>5. e \in Pte /\ e.valid = Half.valid /\ e.nG = (storing.section \notin KernSection)
  BY <1>4, SetNGType, Zenon
<1>. HIDE DEF e
<1>6. /\ storing.section \in KernSection => ~e.nG
      /\ storing.section \notin KernSection => e.nG
  BY <1>5, Zenon
<1>. QED  BY <1>1, <1>3, <1>5, <1>6, StoreInv

LEMMA StoreFrameInv == ASSUME Inv, StoreFrame PROVE Inv'
<1>. DEFINE e == SetFrame(Half, storing.frame)
<1>1. /\ storing.next = "frame" /\ Store(storing.table, storing.section, e)
      /\ storing' = NotStoring
      /\ UNCHANGED <<mmu, ttbr, asid, switch, to, tlb, owner, unsynced, maps>>
  BY DEF StoreFrame
<1>2. storing \in Job
  BY <1>1 DEF Inv, TypeOK, NotStoring
<1>3. /\ Half \in Pte /\ storing.frame \in Megabyte
      /\ storing.section \in KernSection => ~Half.nG
      /\ storing.section \notin KernSection => Half.nG
  <2>1. /\ storing.table \in Table /\ storing.section \in Section
        /\ storing.frame \in Megabyte
    BY <1>2, PageTableAssumption DEF Job
  <2>2. At(storing.table, storing.section) /\ storing.next \notin {"perm", "nG"}
    BY <1>1 DEF At
  <2>3. pt[storing.table][storing.section].valid
    BY <2>1, <2>2 DEF Inv, StoringInv
  <2>. QED  BY <2>1, <2>2, <2>3 DEF Half, Inv, TypeOK, KernelInv
<1>4. e \in Pte /\ e.valid = Half.valid /\ e.nG = Half.nG
  BY <1>3, SetFrameType, Zenon
<1>. HIDE DEF e
<1>. QED  BY <1>1, <1>3, <1>4, StoreInv

(* mmu_sync_pte_mods empties the TLB, when no entry is half written. *)
LEMMA SyncInv == ASSUME Inv, mmu_sync_pte_mods PROVE Inv'
<1>. USE DEF Inv, TypeOK
<1>1. /\ storing = NotStoring /\ tlb' = {} /\ unsynced' = {}
      /\ UNCHANGED <<pt, storing, mmu, ttbr, asid, switch, to, owner, maps>>
  BY DEF mmu_sync_pte_mods, Idle
<1>2. TypeOK' /\ SwitchInv'
  BY <1>1 DEF SwitchInv, Allocated
<1>3. KernelInv'
  BY <1>1 DEF KernelInv, Allocated, At
<1>4. StoringInv'
  BY <1>1, NotAt DEF StoringInv, At
<1>5. TlbInv'
  BY <1>1 DEF TlbInv, TlbTrue
<1>. QED  BY <1>2, <1>3, <1>4, <1>5

------------------------------------------------------------------------------
(* The switch and the MMU: the tables stand still. *)

LEMMA SwitchBeginInv ==
  ASSUME Inv, NEW t \in Table, NEW pid \in Pid, NEW a \in Asid, vm_mmu_switch(t, pid, a)
  PROVE  Inv'
<1>. USE PageTableAssumption DEF Inv, TypeOK
<1>1. /\ Allocated(t) /\ owner[a] \in {NoTable, t} /\ storing = NotStoring
      /\ owner' = [owner EXCEPT ![a] = t]
      /\ to' = <<t, a>> /\ switch = "done" /\ switch' = "called"
      /\ UNCHANGED <<pt, storing, mmu, ttbr, asid, tlb, unsynced, maps>>
  BY DEF vm_mmu_switch, Idle
<1>2. a \in LiveAsid
  <2>1. a # 0 /\ a < 64
    BY DEF vm_mmu_switch, ContextOk
  <2>. QED  BY <2>1 DEF LiveAsid
<1>3. TypeOK'
  BY <1>1, <1>2
<1>4. SwitchInv'
  BY <1>1 DEF SwitchInv, Allocated
<1>5. KernelInv' /\ StoringInv'
  BY <1>1, NotAt DEF KernelInv, StoringInv, Allocated, At
<1>6. TlbInv'
  <2>1. ASSUME NEW e \in tlb, e.tag \in 1 .. 63
        PROVE  /\ owner'[e.tag] \in Table
               /\ \/ e.pte = pt[owner'[e.tag]][e.section]
                  \/ <<owner'[e.tag], e.section>> \in unsynced
    <3>1. e.tag \in Asid
      BY <2>1, Tags DEF TlbEntry
    <3>2. owner[e.tag] \in Table
      BY <2>1 DEF TlbInv, TlbTrue
    <3>3. owner'[e.tag] = owner[e.tag]
      BY <3>1, <3>2, <1>1
    <3>. QED  BY <2>1, <3>2, <3>3 DEF TlbInv, TlbTrue
  <2>. QED  BY <2>1, <1>1 DEF TlbInv, TlbTrue, Allocated, AllUnsynced
<1>. QED  BY <1>3, <1>4, <1>5, <1>6

LEMMA SwitchZeroInv == ASSUME Inv, SwitchZero PROVE Inv'
<1>. USE DEF Inv, TypeOK
<1>1. /\ switch = "called" /\ switch' = "zeroed" /\ asid' = 0
      /\ UNCHANGED <<pt, storing, mmu, ttbr, to, tlb, owner, unsynced, maps>>
  BY DEF SwitchZero
<1>2. TypeOK' /\ SwitchInv'
  BY <1>1 DEF SwitchInv, Allocated
<1>3. storing = NotStoring
  BY <1>1 DEF SwitchInv
<1>4. KernelInv' /\ StoringInv'
  BY <1>1, <1>3, NotAt DEF KernelInv, StoringInv, Allocated, At
<1>5. TlbInv'
  BY <1>1 DEF TlbInv, TlbTrue, Allocated, AllUnsynced
<1>. QED  BY <1>2, <1>4, <1>5

LEMMA SwitchMoveInv == ASSUME Inv, SwitchMove PROVE Inv'
<1>. USE DEF Inv, TypeOK
<1>1. /\ switch = "zeroed" /\ switch' = "moved" /\ ttbr' = to[1]
      /\ UNCHANGED <<pt, storing, mmu, asid, to, tlb, owner, unsynced, maps>>
  BY DEF SwitchMove
<1>2. TypeOK'
  BY <1>1
<1>3. to[1] \in Table /\ to[2] \in Asid /\ Allocated(to[1])
  BY Tags DEF SwitchInv
<1>4. SwitchInv'
  BY <1>1, <1>3 DEF SwitchInv, Allocated
<1>5. storing = NotStoring
  BY <1>1 DEF SwitchInv
<1>6. KernelInv' /\ StoringInv'
  BY <1>1, <1>5, NotAt DEF KernelInv, StoringInv, Allocated, At
<1>7. TlbInv'
  BY <1>1 DEF TlbInv, TlbTrue, Allocated, AllUnsynced
<1>. QED  BY <1>2, <1>4, <1>6, <1>7

LEMMA SwitchEndInv == ASSUME Inv, SwitchEnd PROVE Inv'
<1>. USE DEF Inv, TypeOK
<1>1. /\ switch = "moved" /\ switch' = "done" /\ asid' = to[2]
      /\ UNCHANGED <<pt, storing, mmu, ttbr, to, tlb, owner, unsynced, maps>>
  BY DEF SwitchEnd
<1>2. TypeOK'
  BY <1>1
<1>3. SwitchInv'
  BY <1>1 DEF SwitchInv, Allocated
<1>4. storing = NotStoring
  BY <1>1 DEF SwitchInv
<1>5. KernelInv' /\ StoringInv'
  BY <1>1, <1>4, NotAt DEF KernelInv, StoringInv, Allocated, At
<1>6. TlbInv'
  BY <1>1 DEF TlbInv, TlbTrue, Allocated, AllUnsynced
<1>. QED  BY <1>2, <1>3, <1>5, <1>6

LEMMA MmuInv == ASSUME Inv, vm_mmu_enable \/ vm_mmu_disable PROVE Inv'
<1>1. /\ mmu' \in BOOLEAN /\ storing = NotStoring
      /\ UNCHANGED <<pt, storing, ttbr, asid, switch, to, tlb, owner, unsynced, maps>>
  BY DEF vm_mmu_enable, vm_mmu_disable, Idle
<1>2. TypeOK' /\ SwitchInv'
  BY <1>1 DEF Inv, TypeOK, SwitchInv, Allocated
<1>3. KernelInv' /\ StoringInv'
  BY <1>1, NotAt DEF Inv, KernelInv, StoringInv, Allocated, At
<1>4. TlbInv'
  BY <1>1 DEF Inv, TlbInv, TlbTrue, Allocated, AllUnsynced
<1>. QED  BY <1>2, <1>3, <1>4 DEF Inv

------------------------------------------------------------------------------
(* The TLB: the tables and the registers stand still. *)

(* A walk may fall anywhere.  While the ASID is 0 what it brings belongs to no
   process, and otherwise TTBR0 is the table of the ASID.  What it brings for
   every ASID is of the kernel, or half written and owed synchronisation. *)
LEMMA WalkInv == ASSUME Inv, NEW s \in Section, Walk(s) PROVE Inv'
<1>. USE DEF Inv, TypeOK
<1>. DEFINE tag == IF pt[ttbr][s].nG THEN asid ELSE Global
            new == [tag |-> tag, section |-> s, pte |-> pt[ttbr][s]]
<1>1. /\ mmu /\ pt[ttbr][s].valid /\ tlb' = tlb \cup {new}
      /\ UNCHANGED <<pt, storing, mmu, ttbr, asid, switch, to, owner, unsynced, maps>>
  BY DEF Walk
<1>2. pt[ttbr][s] \in Pte /\ tag \in LiveAsid \cup {0, Global}
  OBVIOUS
<1>3. /\ tag = Global => ~pt[ttbr][s].nG
      /\ tag # Global => tag = asid /\ pt[ttbr][s].nG
  <2>1. asid # Global
    BY Tags DEF LiveAsid
  <2>. QED  BY <2>1
<1>4. new.tag = tag /\ new.section = s /\ new.pte = pt[ttbr][s]
  OBVIOUS
<1>. HIDE DEF tag
<1>5. new \in TlbEntry
  BY <1>2 DEF TlbEntry
<1>. HIDE DEF new
<1>6. TypeOK'
  BY <1>1, <1>5
<1>7. SwitchInv' /\ KernelInv'
  BY <1>1 DEF SwitchInv, KernelInv, Allocated, At
<1>8. ASSUME new.tag \in 1 .. 63
      PROVE  owner[new.tag] = ttbr /\ ttbr \in Table
  <2>1. asid # 0 /\ new.tag = asid
    BY <1>3, <1>4, <1>8, Tags
  <2>. QED  BY <2>1 DEF SwitchInv
<1>9. ASSUME new.tag = Global
      PROVE  s \in KernSection \/ (At(ttbr, s) /\ AllUnsynced(s))
  <2>1. ~pt[ttbr][s].nG
    BY <1>3, <1>4, <1>9
  <2>2. CASE s \notin KernSection
    <3>1. At(ttbr, s)
      BY <2>1, <2>2, <1>1 DEF KernelInv
    <3>. QED  BY <2>1, <3>1, <1>1 DEF StoringInv
  <2>. QED  BY <2>2
<1>10. ASSUME NEW t \in Table, Allocated(t), new.tag = Global
       PROVE  new.pte = pt[t][new.section] \/ <<t, new.section>> \in unsynced
  <2>1. CASE s \in KernSection
    BY <2>1, <1>4, <1>10 DEF SwitchInv, KernelInv
  <2>2. CASE AllUnsynced(s)
    BY <2>2, <1>4 DEF AllUnsynced
  <2>. QED  BY <2>1, <2>2, <1>9, <1>10
<1>11. StoringInv'
  <2>. SUFFICES ASSUME NEW t \in Table, NEW r \in Section, At(t, r),
                       <<t, r>> \notin unsynced
                PROVE  Unseen(t, r)'
    BY <1>1 DEF StoringInv, At, AllUnsynced, Allocated
  <2>1. Unseen(t, r) /\ ttbr # t
    BY <1>1 DEF StoringInv, Unseen
  <2>2. r = s => new.tag # Global
    <3>1. CASE r = s /\ new.tag = Global
      <4>1. s \in KernSection
        BY <3>1, <1>9 DEF AllUnsynced
      <4>. QED  BY <3>1, <4>1 DEF StoringInv, AllUnsynced
    <3>. QED  BY <3>1
  <2>3. r = s => (new.tag \in 1 .. 63 => owner[new.tag] # t)
    BY <2>1, <1>8
  <2>. QED  BY <2>1, <2>2, <2>3, <1>1, <1>4 DEF Unseen
<1>12. TlbInv'
  <2>1. \A e \in tlb' : e = new \/ e \in tlb
    BY <1>1
  <2>2. ASSUME NEW e \in tlb', e.tag \in 1 .. 63
        PROVE  /\ owner[e.tag] \in Table
               /\ \/ e.pte = pt[owner[e.tag]][e.section]
                  \/ <<owner[e.tag], e.section>> \in unsynced
    BY <2>1, <2>2, <1>4, <1>8 DEF TlbInv, TlbTrue
  <2>3. ASSUME NEW e \in tlb', e.tag = Global, NEW t \in Table, Allocated(t)
        PROVE  e.pte = pt[t][e.section] \/ <<t, e.section>> \in unsynced
    BY <2>1, <2>3, <1>10 DEF TlbInv, TlbTrue
  <2>4. ASSUME NEW e \in tlb'
        PROVE  /\ e.pte.valid
               /\ e.tag = Global => e.section \in KernSection \/ AllUnsynced(e.section)
    BY <2>1, <1>1, <1>4, <1>9 DEF TlbInv
  <2>. QED  BY <2>2, <2>3, <2>4, <1>1 DEF TlbInv, TlbTrue, Allocated, AllUnsynced
<1>. QED  BY <1>6, <1>7, <1>11, <1>12

LEMMA EvictInv == ASSUME Inv, NEW e \in tlb, Evict(e) PROVE Inv'
<1>1. /\ tlb' \subseteq tlb
      /\ UNCHANGED <<pt, storing, mmu, ttbr, asid, switch, to, owner, unsynced, maps>>
  BY DEF Evict
<1>2. TypeOK' /\ SwitchInv' /\ KernelInv'
  BY <1>1 DEF Inv, TypeOK, SwitchInv, KernelInv, Allocated, At
<1>3. StoringInv'
  BY <1>1 DEF Inv, StoringInv, Allocated, At, AllUnsynced, Unseen
<1>4. TlbInv'
  BY <1>1 DEF Inv, TlbInv, TlbTrue, Allocated, AllUnsynced
<1>. QED  BY <1>2, <1>3, <1>4 DEF Inv

------------------------------------------------------------------------------
LEMMA StepInv == Inv /\ [Next]_vars => Inv'
<1>. SUFFICES ASSUME Inv, [Next]_vars PROVE Inv'
  OBVIOUS
<1>1. CASE \E t, u \in Table : vm_dup(t, u)
  BY <1>1, DupInv
<1>2. CASE \E t \in Table, s \in Section, f \in Frame, perm \in Perm : vm_map_sec(t, s, f, perm)
  BY <1>2, MapInv
<1>3. CASE StorePerm \/ StoreNG \/ StoreFrame
  BY <1>3, StorePermInv, StoreNGInv, StoreFrameInv
<1>4. CASE mmu_sync_pte_mods
  BY <1>4, SyncInv
<1>5. CASE \E t \in Table, pid \in Pid, a \in Asid : vm_mmu_switch(t, pid, a)
  BY <1>5, SwitchBeginInv
<1>6. CASE SwitchZero \/ SwitchMove \/ SwitchEnd
  BY <1>6, SwitchZeroInv, SwitchMoveInv, SwitchEndInv
<1>7. CASE vm_mmu_enable \/ vm_mmu_disable
  BY <1>7, MmuInv
<1>8. CASE \E s \in Section : Walk(s)
  BY <1>8, WalkInv
<1>9. CASE \E e \in tlb : Evict(e)
  BY <1>9, EvictInv
<1>10. CASE UNCHANGED vars
  <2>1. TypeOK' /\ SwitchInv' /\ KernelInv'
    BY <1>10 DEF vars, Inv, TypeOK, SwitchInv, KernelInv, Allocated, At
  <2>2. StoringInv' /\ TlbInv'
    BY <1>10 DEF vars, Inv, StoringInv, TlbInv, TlbTrue, Allocated, At, AllUnsynced, Unseen
  <2>. QED  BY <2>1, <2>2 DEF Inv
<1>. QED  BY <1>1, <1>2, <1>3, <1>4, <1>5, <1>6, <1>7, <1>8, <1>9, <1>10 DEF Next

LEMMA Invariance == Spec => []Inv
BY InitInv, StepInv, PTL DEF Spec

(* Whatever the walker finds between the stores of vm_map_sec and the steps of
   the switch, the TLB holds under an ASID only what that ASID's table says,
   and for every ASID only what all tables say, unless mmu_sync_pte_mods is
   owed for the entry. *)
THEOREM TlbCorrect == Spec => []TlbTrue
<1>1. Inv => TlbTrue
  BY DEF Inv, TlbInv
<1>. QED  BY <1>1, Invariance, PTL

(* Between two switches the running process's accesses go where its own page
   table sends them, unless mmu_sync_pte_mods is owed for the entry. *)
THEOREM SpacesApart == Spec => []RightSpace
<1>1. Inv => RightSpace
  <2>. SUFFICES ASSUME Inv, switch = "done", NEW s \in Section, NEW e \in Hits(s, asid)
                PROVE  e.pte = pt[ttbr][s] \/ <<ttbr, s>> \in unsynced
    BY DEF RightSpace
  <2>1. e \in tlb /\ e.section = s /\ (e.tag = Global \/ e.tag = asid)
    BY DEF Hits
  <2>2. asid \in 1 .. 63 /\ owner[asid] = ttbr /\ ttbr \in Table /\ Allocated(ttbr)
    BY DEF Inv, TypeOK, SwitchInv, LiveAsid
  <2>. QED  BY <2>1, <2>2 DEF Inv, TlbInv, TlbTrue
<1>. QED  BY <1>1, Invariance, PTL
==============================================================================
