------------------------------ MODULE PageTable ------------------------------
(***************************************************************************)
(* Page tables of 1MB sections, of labs/16-vm-page-table/code: vm_map_sec, *)
(* vm_dup, the address-space switch and mmu_sync_pte_mods of pt-vm.c,      *)
(* mmu.c and your-mmu-asm.S, with the table walks and the TLB of the       *)
(* ARM1176 as steps of another actor.                                      *)
(*                                                                         *)
(* The walker reads the table in TTBR0 whenever the MMU is on, also        *)
(* between two stores of vm_map_sec into that table, and keeps what it     *)
(* finds under the present ASID, or for every ASID if nG is clear.  The    *)
(* TLB is not coherent: it drops what it likes and nothing else.           *)
(*                                                                         *)
(* Clients do as the tests do: kernel sections are mapped globally in one  *)
(* table before it is copied, sections of a process are not global and lie *)
(* elsewhere, and an ASID stands for one table.  A failed assert stops the *)
(* pi: the calls that would fail one are not taken.                        *)
(***************************************************************************)
EXTENDS Integers, FiniteSets

CONSTANTS
    Table, Kernel,      \* page tables; the one vm_map_kernel makes
    Section,            \* megabytes of virtual memory
    KernSection,        \* the sections of the kernel
    Frame,              \* megabytes of physical memory clients map to
    Asid, Pid,          \* what clients pass to vm_mmu_switch
    Perm,               \* the permissions asked for, members of mem_perm_t
    NoTable,
    MaxMaps             \* bound on the calls of vm_map_sec

Megabyte == 0 .. 4095
KernAsid == 1
Global == 64        \* tags the entries that serve every ASID

ASSUME PageTableAssumption ==
    /\ Kernel \in Table /\ NoTable \notin Table
    /\ Section \subseteq Megabyte /\ Frame \subseteq Megabyte
    /\ KernSection \subseteq Section /\ KernSection # {}
    /\ Asid \subseteq Nat /\ KernAsid \in Asid /\ Pid \subseteq Nat
    /\ Perm \subseteq {0, 1, 2, 3, 5}
    /\ MaxMaps \in Nat

VARIABLES
    pt,       \* the tables' entries
    storing,  \* what vm_map_sec has still to store
    mmu,      \* the MMU is on
    ttbr,     \* the table in TTBR0
    asid,     \* the ASID in the context register, 0 during a switch
    switch,   \* the switch: "done", "called", "zeroed", "moved"
    to,       \* the table and the ASID it switches to
    tlb,      \* the entries of the TLB
    owner,    \* the table a client uses an ASID for
    unsynced, \* table and section of what mmu_sync_pte_mods is owed for
    maps      \* calls of vm_map_sec

vars == <<pt, storing, mmu, ttbr, asid, switch, to, tlb, owner, unsynced, maps>>

\* perm has APX above the two bits of AP.  asked is what the caller of
\* vm_map_sec asked for, and not in the hardware
Pte == [valid : BOOLEAN, frame : Megabyte, nG : BOOLEAN, perm : 0 .. 7, asked : 0 .. 7]

\* an entry of a table that memset cleared
Zero == [valid |-> FALSE, frame |-> 0, nG |-> FALSE, perm |-> 0, asked |-> 0]

\* the stores of vm_map_sec: the tag; the permissions, where AP_perm & 0x11
\* keeps one of the bits of AP; nG; the frame
SetTag(e) == [e EXCEPT !.valid = TRUE]
SetPerm(e, perm) == [e EXCEPT !.perm = 4 * (perm \div 4) + (perm % 2), !.asked = perm]
SetNG_Inverted(e, s) == [e EXCEPT !.nG = s \in KernSection]
SetNG(e, s) == [e EXCEPT !.nG = s \notin KernSection]
SetFrame(e, f) == [e EXCEPT !.frame = f]

NotStoring == [next |-> "none"]

\* vm_map_kernel maps every section of the kernel to itself, for the kernel
KernelPte(s) == SetFrame(SetNG(SetPerm(SetTag(Zero), 1), s), s)

\* the state after vm_map_kernel(p, 0)
Init ==
    /\ pt = [t \in Table |-> [s \in Section |->
                IF t = Kernel /\ s \in KernSection THEN KernelPte(s) ELSE Zero]]
    /\ storing = NotStoring
    /\ mmu = FALSE
    /\ ttbr = Kernel /\ asid = KernAsid /\ switch = "done" /\ to = <<Kernel, KernAsid>>
    /\ tlb = {}
    /\ owner = [a \in Asid |-> IF a = KernAsid THEN Kernel ELSE NoTable]
    /\ unsynced = {} /\ maps = 0

\* no call of the package is under way
Idle == switch = "done" /\ storing = NotStoring

------------------------------------------------------------------------------
(* The tables. *)

\* a table nobody allocated has no kernel section
Allocated(t) == \A s \in KernSection : pt[t][s].valid

\* the copy is in nobody's TTBR0, so one step will do
vm_dup(t, u) ==
    /\ Idle
    /\ Allocated(t) /\ ~Allocated(u)
    /\ pt' = [pt EXCEPT ![u] = pt[t]]
    /\ UNCHANGED <<storing, mmu, ttbr, asid, switch, to, tlb, owner, unsynced, maps>>

Store(t, s, e) == pt' = [pt EXCEPT ![t] = [@ EXCEPT ![s] = e]]

(* The tables in which the TLB may be wrong about s once t is mapped there:
   none if the entry is new and the walker does not read t; t itself if what
   was there and what is being written is not global; else all, for an entry
   is global until nG is stored. *)
Disturbed(t, s) ==
    IF pt[t][s].valid /\ pt[t][s].nG THEN {t}
    ELSE IF pt[t][s].valid \/ (mmu /\ ttbr = t) THEN Table
    ELSE {}

\* vm_map_sec, to its store of the tag.  A kernel section is mapped only
\* while there is one table
vm_map_sec(t, s, f, perm) ==
    /\ Idle /\ maps < MaxMaps
    /\ Allocated(t)
    /\ s \in KernSection => t = Kernel /\ \A u \in Table \ {Kernel} : ~Allocated(u)
    /\ Store(t, s, SetTag(pt[t][s]))
    /\ storing' = [next |-> "perm", table |-> t, section |-> s, frame |-> f, perm |-> perm]
    /\ unsynced' = unsynced \cup (Disturbed(t, s) \X {s})
    /\ maps' = maps + 1
    /\ UNCHANGED <<mmu, ttbr, asid, switch, to, tlb, owner>>

\* the entry vm_map_sec is at
Half == pt[storing.table][storing.section]

StorePerm ==
    /\ storing.next = "perm"
    /\ Store(storing.table, storing.section, SetPerm(Half, storing.perm))
    /\ storing' = [storing EXCEPT !.next = "nG"]
    /\ UNCHANGED <<mmu, ttbr, asid, switch, to, tlb, owner, unsynced, maps>>

StoreNG ==
    /\ storing.next = "nG"
    /\ Store(storing.table, storing.section, SetNG(Half, storing.section))
    /\ storing' = [storing EXCEPT !.next = "frame"]
    /\ UNCHANGED <<mmu, ttbr, asid, switch, to, tlb, owner, unsynced, maps>>

\* and vm_map_sec returns
StoreFrame ==
    /\ storing.next = "frame"
    /\ Store(storing.table, storing.section, SetFrame(Half, storing.frame))
    /\ storing' = NotStoring
    /\ UNCHANGED <<mmu, ttbr, asid, switch, to, tlb, owner, unsynced, maps>>

mmu_sync_pte_mods_CachesOnly ==
    /\ Idle
    /\ unsynced' = {}
    /\ UNCHANGED <<pt, storing, mmu, ttbr, asid, switch, to, tlb, owner, maps>>

mmu_sync_pte_mods ==
    /\ Idle
    /\ tlb' = {} /\ unsynced' = {}
    /\ UNCHANGED <<pt, storing, mmu, ttbr, asid, switch, to, owner, maps>>

------------------------------------------------------------------------------
(* The switch, and the MMU. *)

\* the asserts of mmu_set_ctx and set_procid_ttbr0
ContextOk(pid, a) == pid > 64 /\ pid < 2^24 /\ a # 0 /\ a < 64

\* vm_mmu_switch, to its call of staff_cp15_set_procid_ttbr0
vm_mmu_switch(t, pid, a) ==
    /\ Idle /\ Allocated(t) /\ owner[a] \in {NoTable, t}
    /\ ContextOk(pid, a)
    /\ owner' = [owner EXCEPT ![a] = t]
    /\ to' = <<t, a>>
    /\ switch' = "called"
    /\ UNCHANGED <<pt, storing, mmu, ttbr, asid, tlb, unsynced, maps>>

(* What that routine does to the context, read off staff-mmu-asm.o: ASID 0,
   TTBR0, the new ASID. *)
SwitchZero ==
    /\ switch = "called"
    /\ asid' = 0
    /\ switch' = "zeroed"
    /\ UNCHANGED <<pt, storing, mmu, ttbr, to, tlb, owner, unsynced, maps>>

SwitchMove ==
    /\ switch = "zeroed"
    /\ ttbr' = to[1]
    /\ switch' = "moved"
    /\ UNCHANGED <<pt, storing, mmu, asid, to, tlb, owner, unsynced, maps>>

SwitchEnd ==
    /\ switch = "moved"
    /\ asid' = to[2]
    /\ switch' = "done"
    /\ UNCHANGED <<pt, storing, mmu, ttbr, to, tlb, owner, unsynced, maps>>

\* neither touches the TLB
vm_mmu_enable ==
    /\ Idle /\ ~mmu /\ mmu' = TRUE
    /\ UNCHANGED <<pt, storing, ttbr, asid, switch, to, tlb, owner, unsynced, maps>>

vm_mmu_disable ==
    /\ Idle /\ mmu /\ mmu' = FALSE
    /\ UNCHANGED <<pt, storing, ttbr, asid, switch, to, tlb, owner, unsynced, maps>>

------------------------------------------------------------------------------
(* The TLB. *)

\* the entries that serve section s under ASID a
Hits(s, a) == {e \in tlb : e.section = s /\ e.tag \in {Global, a}}

Walk(s) ==
    /\ mmu /\ Hits(s, asid) = {} /\ pt[ttbr][s].valid
    /\ tlb' = tlb \cup {[tag |-> IF pt[ttbr][s].nG THEN asid ELSE Global,
                         section |-> s, pte |-> pt[ttbr][s]]}
    /\ UNCHANGED <<pt, storing, mmu, ttbr, asid, switch, to, owner, unsynced, maps>>

Evict(e) ==
    /\ tlb' = tlb \ {e}
    /\ UNCHANGED <<pt, storing, mmu, ttbr, asid, switch, to, owner, unsynced, maps>>

Next ==
    \/ \E t, u \in Table : vm_dup(t, u)
    \/ \E t \in Table, s \in Section, f \in Frame, perm \in Perm : vm_map_sec(t, s, f, perm)
    \/ StorePerm
    \/ StoreNG
    \/ StoreFrame
    \/ mmu_sync_pte_mods
    \/ \E t \in Table, pid \in Pid, a \in Asid : vm_mmu_switch(t, pid, a)
    \/ SwitchZero
    \/ SwitchMove
    \/ SwitchEnd
    \/ vm_mmu_enable
    \/ vm_mmu_disable
    \/ \E s \in Section : Walk(s)
    \/ \E e \in tlb : Evict(e)

Spec == Init /\ [][Next]_vars

------------------------------------------------------------------------------
(* Properties. *)

(* What the TLB holds under an ASID is what that ASID's table says now, and
   what it holds for every ASID is what every table says, however walks fall
   between the stores of vm_map_sec and the steps of the switch.  The
   exceptions are the entries mmu_sync_pte_mods is owed for: an entry mapped
   anew, and a section mapped in the running table, which a walk may have
   found half written and global. *)
TlbTrue ==
    \A e \in tlb :
        /\ e.tag \in 1 .. 63 =>
            LET t == owner[e.tag] IN
            t \in Table /\ (e.pte = pt[t][e.section] \/ <<t, e.section>> \in unsynced)
        /\ e.tag = Global =>
            \A t \in Table : Allocated(t) =>
                e.pte = pt[t][e.section] \/ <<t, e.section>> \in unsynced

(* Between two switches an access goes where the running table sends it, by an
   entry of that table and none of another process, unless mmu_sync_pte_mods
   is owed for that table's entry. *)
RightSpace ==
    mmu /\ switch = "done" =>
        \A s \in Section : \A e \in Hits(s, asid) :
            e.pte = pt[ttbr][s] \/ <<ttbr, s>> \in unsynced

\* what a permission allows, of {"priv", "user"} \X {"r", "w"} (ARM1176 3-151)
Rights(perm) ==
    CASE perm = 1 -> {<<"priv", "r">>, <<"priv", "w">>}
      [] perm = 2 -> {<<"priv", "r">>, <<"priv", "w">>, <<"user", "r">>}
      [] perm = 3 -> {"priv", "user"} \X {"r", "w"}
      [] perm = 5 -> {<<"priv", "r">>}
      [] OTHER -> {}

(* Every entry grants what was asked for: mem-attr.h calls perm_rw_user
   "read-write user".  The mask 0x11 of vm_map_sec loses the upper bit of AP. *)
PermissionKept ==
    \A t \in Table, s \in Section :
        pt[t][s].valid => Rights(pt[t][s].perm) = Rights(pt[t][s].asked)
==============================================================================
