-------------------------------- MODULE Fat32 --------------------------------
(***************************************************************************)
(* The FAT32 reader of labs/19-fat32-readonly/code/fat32.c: fat32_readdir, *)
(* fat32_stat and fat32_read, which walk a cluster chain twice (once to    *)
(* count, once to copy) and keep all they return in the heap of kmalloc,   *)
(* which never frees.                                                      *)
(*                                                                         *)
(* Memory is counted in units: a raw directory entry, a pi_dirent_t, a     *)
(* pi_file_t and a unit of file data take one each.  A cluster holds       *)
(* UnitsPerCluster of them.  A file's size need not fill its last cluster. *)
(***************************************************************************)
EXTENDS Integers, Sequences, FiniteSets, SequencesExt

CONSTANTS
    NClusters,       \* clusters 2 .. NClusters + 1 hold data
    UnitsPerCluster,
    Layouts,         \* the disks: chains of clusters, and directories' entries
    Names,           \* the names clients ask for
    Root,            \* first cluster of the root directory
    HeapUnits,       \* bound on the heap
    MaxCalls         \* bound on the calls made

Cluster == 2 .. NClusters + 1

(* Entries of the table, which are cluster numbers too: *)
FREE_CLUSTER == 0
RESERVED_CLUSTER == 1
BAD_CLUSTER == NClusters + 2
LAST_CLUSTER == NClusters + 3
RESERVED_VALUE == NClusters + 4     \* 0xFFFFFF0 .. 0xFFFFFF6
Entry == 0 .. NClusters + 4

ASSUME FatAssumption ==
    /\ NClusters \in Nat \ {0} /\ UnitsPerCluster \in Nat \ {0} /\ Root \in Cluster
    /\ \A l \in Layouts : \A c, d \in l.chains :
        IsInjective(c) /\ (c # d => ToSet(c) \cap ToSet(d) = {})

(* What a client can be told of the disk l is on it: a directory is the root or
   the ".." of a directory below it, which is cluster 0, or has entries; a name asked for
   is of something whose chain begins at the entry's cluster and holds its nbytes. *)
OnDisk(l, e) ==
    \/ e.first = 0 /\ e.n = 0
    \/ \E s \in l.chains :
        /\ s[1] = e.first /\ e.n \in 0 .. UnitsPerCluster * Len(s)
        /\ e.n > 0 => e.first \notin DOMAIN l.ents

ASSUME DiskAssumption ==
    \A l \in Layouts :
        /\ \A s \in l.chains : s \in Seq(Cluster) /\ s # <<>>
        /\ Root \in DOMAIN l.ents
        /\ \A d \in DOMAIN l.ents :
            /\ l.ents[d] \in Seq(ToSet(l.ents[d]))
            /\ \E s \in l.chains : s[1] = d /\ Len(l.ents[d]) <= UnitsPerCluster * Len(s)
            /\ \A e \in ToSet(l.ents[d]) :
                /\ e.kind = "dir" => e.first \in DOMAIN l.ents \cup {0}
                /\ e.name \in Names => OnDisk(l, e)

(* CountMax: a walk that counts no further is on a cycle.  The heap has room for
   what MaxCalls calls allocate, and the units written behind the last buffer. *)
CountMax == NClusters + 3
Span == CountMax * UnitsPerCluster
ASSUME HeapAssumption ==
    MaxCalls \in Nat /\ HeapUnits \in Nat /\ MaxCalls * (2 * Span + 2) <= HeapUnits

VARIABLES
    layout,   \* what the disk is meant to hold
    fat,      \* fs->fat, the table in memory
    disk,     \* the units of each cluster
    heap, top,\* memory, and the first unit not allocated
    pc,       \* "idle", "count", "copy", "use", or how the call died
    call,     \* the operation under way: [op, dir, name]
    want,     \* fat32_read: the entry found by fat32_stat
    cluster, count, buf,  \* locals of the two walks
    at,       \* units the copy has read into buf: where its data points
    results,  \* what was returned: where it is, and what the disk says it is
    calls

fsVars == <<layout, fat, disk>>
walk == <<cluster, count, buf, at>>
vars == <<fsVars, heap, top, pc, call, want, walk, results, calls>>

Zero == [kind |-> "zero"]
NoCall == [op |-> "none"]

------------------------------------------------------------------------------
(* The disk. *)

\* the table entry of cluster c, where chains is a set of disjoint sequences
TableEntry(chains, c) ==
    IF c < 2 THEN LAST_CLUSTER
    ELSE LET mine == {s \in chains : c \in ToSet(s)} IN
         IF mine = {} THEN FREE_CLUSTER
         ELSE LET s == CHOOSE x \in mine : TRUE
                  i == CHOOSE j \in 1 .. Len(s) : s[j] = c IN
              IF i = Len(s) THEN LAST_CLUSTER ELSE s[i + 1]

Unit(l, c, i) ==
    IF \E s \in l.chains : c \in ToSet(s) /\ s[1] \in DOMAIN l.ents
    THEN LET s == CHOOSE x \in l.chains : c \in ToSet(x)
             k == UnitsPerCluster * ((CHOOSE j \in 1 .. Len(s) : s[j] = c) - 1) + i IN
         IF k <= Len(l.ents[s[1]]) THEN l.ents[s[1]][k] ELSE Zero
    ELSE [kind |-> "data", cluster |-> c, unit |-> i]

\* the state after fat32_mk.  At most one entry of the table is damaged.
Init ==
    /\ layout \in Layouts
    /\ LET good == [c \in 0 .. NClusters + 1 |-> TableEntry(layout.chains, c)] IN
       fat \in {good} \cup {[good EXCEPT ![c] = x] : c \in Cluster, x \in Entry}
    /\ disk = [c \in Cluster |-> [i \in 1 .. UnitsPerCluster |-> Unit(layout, c, i)]]
    /\ heap = [a \in 0 .. HeapUnits - 1 |-> Zero] /\ top = 0
    /\ pc = "idle" /\ call = NoCall /\ want = Zero
    /\ cluster = 0 /\ count = 0 /\ buf = 0 /\ at = 0
    /\ results = {} /\ calls = 0

------------------------------------------------------------------------------
(* Memory. *)

\* the memory m with the sequence s at address a
Put(m, a, s) == [x \in DOMAIN m |-> IF x - a \in 0 .. Len(s) - 1 THEN s[x - a + 1] ELSE m[x]]

\* kmalloc(n) returns top, and zero-filled memory
Kmalloc(n) == /\ top' = top + n
              /\ heap' = Put(heap, top, [i \in 1 .. n |-> Zero])

\* kmalloc of Len(s) units, at once filled with s
KmallocFilled(s) == top' = top + Len(s) /\ heap' = Put(heap, top, s)

\* what lies at a .. a + n - 1
Mem(a, n) == [i \in 1 .. n |-> heap[a + i - 1]]

------------------------------------------------------------------------------
(* The walks. *)

\* a client asks about a directory it knows: the root, or one it was told of
KnownDir == {Root} \cup {e.cluster : e \in {x \in UNION {ToSet(r.val) : r \in results} :
                                                x.kind = "dirent" /\ x.is_dir}}

Call(op, dir, name) ==
    /\ pc = "idle" /\ calls < MaxCalls /\ dir \in KnownDir
    /\ call' = [op |-> op, dir |-> dir, name |-> name]
    /\ calls' = calls + 1
    /\ pc' = "count" /\ cluster' = dir /\ count' = 1 /\ want' = Zero
    /\ UNCHANGED <<fsVars, heap, top, buf, at, results>>

CountStep_InPlace ==
    /\ pc = "count" /\ cluster # LAST_CLUSTER
    /\ count' = IF count < CountMax THEN count + 1 ELSE count
    /\ UNCHANGED <<fsVars, heap, top, pc, call, want, cluster, buf, at, results, calls>>

\* get_cluster_chain_length.  fat32_fat_entry_type panics at a reserved value
CountStep ==
    /\ pc = "count" /\ cluster # LAST_CLUSTER
    /\ count' = IF count < CountMax THEN count + 1 ELSE count
    /\ IF cluster \in DOMAIN fat
       THEN cluster' = fat[cluster] /\ UNCHANGED pc
       ELSE pc' = (IF cluster = RESERVED_VALUE THEN "panic" ELSE "wild") /\ UNCHANGED cluster
    /\ UNCHANGED <<fsVars, heap, top, call, want, buf, at, results, calls>>

Start == IF want = Zero THEN call.dir ELSE want.cluster

\* the length counts the end marker
Length == count

BufferUnits_RoundedDown ==
    IF want = Zero THEN Length * UnitsPerCluster
    ELSE (want.nbytes \div UnitsPerCluster) * UnitsPerCluster

\* a directory's buffer is of whole clusters, a file's of its size
BufferUnits == IF want = Zero THEN Length * UnitsPerCluster ELSE want.nbytes

CountEnd ==
    /\ pc = "count" /\ cluster = LAST_CLUSTER
    /\ Kmalloc(BufferUnits)
    /\ buf' = top /\ at' = 0
    /\ cluster' = Start
    /\ pc' = "copy"
    /\ UNCHANGED <<fsVars, call, want, count, results, calls>>

CopyStep_WhileDo ==
    /\ pc = "copy"
    /\ IF fat[cluster] = LAST_CLUSTER THEN pc' = "use" /\ UNCHANGED <<heap, at, cluster>>
       ELSE /\ heap' = Put(heap, buf + at, disk[cluster])
            /\ at' = at + UnitsPerCluster
            /\ cluster' = fat[cluster]
            /\ UNCHANGED pc
    /\ UNCHANGED <<fsVars, top, call, want, count, buf, results, calls>>

CopyStep_PastEnd ==
    /\ pc = "copy"
    /\ IF cluster \in Cluster
       THEN /\ heap' = Put(heap, buf + at, disk[cluster])
            /\ at' = at + UnitsPerCluster
            /\ cluster' = fat[cluster]
            /\ UNCHANGED pc
       ELSE pc' = "wild" /\ UNCHANGED <<heap, at, cluster>>
    /\ UNCHANGED <<fsVars, top, call, want, count, buf, results, calls>>

\* read_cluster_chain, one cluster
CopyStep ==
    /\ pc = "copy"
    /\ IF cluster \in Cluster
       THEN /\ heap' = Put(heap, buf + at, disk[cluster])
            /\ at' = at + UnitsPerCluster
            /\ cluster' = fat[cluster]
            /\ pc' = CASE fat[cluster] = LAST_CLUSTER -> "use"
                       [] fat[cluster] = RESERVED_VALUE -> "panic"
                       [] OTHER -> "copy"
       ELSE /\ pc' = IF cluster < 2 THEN "assert" ELSE "wild"
            /\ UNCHANGED <<heap, at, cluster>>
    /\ UNCHANGED <<fsVars, top, call, want, count, buf, results, calls>>

------------------------------------------------------------------------------
(* What is done with the copy. *)

Convert(d) == [kind |-> "dirent", name |-> d.name, cluster |-> d.first,
               is_dir |-> d.kind = "dir", nbytes |-> d.n]

\* the entries fat32_readdir keeps: deleted ones too
Kept(d) == d.kind \in {"file", "dir", "deleted"}

\* the entries kept, in the order of ents: the k-th is at Nth(ents, k)
KeptAt(ents) == {i \in 1 .. Len(ents) : Kept(ents[i])}
Nth(ents, k) == CHOOSE i \in KeptAt(ents) : Cardinality({j \in KeptAt(ents) : j <= i}) = k

Listing(ents) == [k \in 1 .. Cardinality(KeptAt(ents)) |-> Convert(ents[Nth(ents, k)])]

\* find_dirent_with_name looks at labels and long names too.  (File data that a
\* damaged table makes part of a directory has no name.)
Named(ents, name) ==
    {i \in 1 .. Len(ents) : ents[i].kind \notin {"zero", "data"} /\ ents[i].name = name}

Least(s) == CHOOSE i \in s : \A j \in s : i <= j

Dirents == Mem(buf, Length * UnitsPerCluster)

\* the table is the layout's
Intact == \A c \in 0 .. NClusters + 1 : fat[c] = TableEntry(layout.chains, c)

\* what the disk is meant to hold, whatever the table says
TrueEntries(dir) == IF dir \in DOMAIN layout.ents THEN layout.ents[dir] ELSE <<>>
TrueData(e) ==
    LET s == IF e.nbytes = 0 THEN <<>> ELSE CHOOSE x \in layout.chains : x[1] = e.cluster IN
    [i \in 1 .. e.nbytes |-> [kind |-> "data", cluster |-> s[(i - 1) \div UnitsPerCluster + 1],
                              unit |-> ((i - 1) % UnitsPerCluster) + 1]]

\* what is returned: n units at addr; val is what they should be
Return(addr, n, val) ==
    results' = IF Intact THEN results \cup {[addr |-> addr, n |-> n, val |-> val]}
               ELSE results

ReadDir ==
    /\ pc = "use" /\ call.op = "readdir"
    /\ LET list == Listing(Dirents) IN
        /\ top' = top + Length * UnitsPerCluster
        /\ heap' = Put(heap, top, [i \in 1 .. Length * UnitsPerCluster |->
                                     IF i <= Len(list) THEN list[i] ELSE Zero])
        /\ Return(top, Len(list), Listing(TrueEntries(call.dir)))
    /\ pc' = "idle"
    /\ UNCHANGED <<fsVars, call, want, walk, calls>>

\* fat32_stat, from find_dirent_with_name on.  fat32_read goes on with what is
\* found without looking whether there is anything.
Stat ==
    /\ pc = "use" /\ call.op \in {"stat", "read"} /\ want = Zero
    /\ LET found == Named(Dirents, call.name) IN
       IF found = {}
       THEN /\ pc' = IF call.op = "stat" THEN "idle" ELSE "null"
            /\ UNCHANGED <<heap, top, want, cluster, count, results>>
       ELSE LET e == Convert(Dirents[Least(found)]) IN
            /\ KmallocFilled(<<e>>)
            /\ IF call.op = "stat"
               THEN /\ LET all == TrueEntries(call.dir) IN
                       Return(top, 1, <<Convert(all[Least(Named(all, call.name))])>>)
                    /\ pc' = "idle" /\ UNCHANGED <<want, cluster, count>>
               ELSE /\ want' = e /\ cluster' = e.cluster /\ count' = 1
                    /\ pc' = "count" /\ UNCHANGED results
    /\ UNCHANGED <<fsVars, call, buf, at, calls>>

\* the end of fat32_read
ReadFile ==
    /\ pc = "use" /\ call.op = "read" /\ want # Zero
    /\ KmallocFilled(<<[kind |-> "file", data |-> buf, n_data |-> want.nbytes,
                       n_alloc |-> Length * UnitsPerCluster]>>)
    /\ Return(buf, want.nbytes, TrueData(want))
    /\ pc' = "idle"
    /\ UNCHANGED <<fsVars, call, want, walk, calls>>

Walk == CountStep \/ CountEnd \/ CopyStep
Use == ReadDir \/ Stat \/ ReadFile

Next ==
    \/ \E op \in {"readdir", "stat", "read"}, dir \in 0 .. NClusters + 1, name \in Names :
        Call(op, dir, name)
    \/ Walk
    \/ Use

\* one thread of control: a call under way goes on
Spec == Init /\ [][Next]_vars /\ WF_vars(Walk \/ Use)

------------------------------------------------------------------------------
(* Properties. *)

(* What a call returned stays what the disk holds, through every later call: the
   file read fills whole clusters behind a buffer of the file's size, but
   everything allocated later is cleared and filled again, and a directory's
   buffer is a whole cluster too long for what is read into it. *)
ResultsHold ==
    Intact => \A r \in results : Mem(r.addr, r.n) = r.val

(* The two walks agree: what is copied is one cluster less than was counted, so a
   directory never outgrows its buffer. *)
WalksAgree == pc = "use" => at = (Length - 1) * UnitsPerCluster

(* Every way for a call to die has its cause: the assert of cluster_to_lba only
   at cluster 0, which an empty file and the ".." of a top directory have; a null
   entry only for a name that is not there; and the rest only with a damaged
   table. *)
FailuresExplained ==
    Intact =>
        /\ pc = "assert" => Start = 0
        /\ pc = "null" => Named(TrueEntries(call.dir), call.name) = {}
        /\ pc \notin {"wild", "panic"}

(* With an undamaged table every call ends. *)
CallEnds == Intact /\ pc # "idle" ~> pc \in {"idle", "assert", "null"}
==============================================================================
