----------------------------- MODULE Fat32Proofs -----------------------------
(***************************************************************************)
(* Proofs about Fat32.                                                     *)
(*                                                                         *)
(* For every table, damaged or not: the two walks of a call agree          *)
(* (Walks, CopyFitsCount).                                                 *)
(*                                                                         *)
(* For a table that is not damaged: what a call returns is what the disk   *)
(* holds and stays so, and a call dies only for its cause (Sound,          *)
(* ReturnsHold, DeathsExplained).                                          *)
(***************************************************************************)
EXTENDS Fat32, FiniteSetTheorems, SequenceTheorems, WellFoundedInduction, TLAPS

------------------------------------------------------------------------------
(* Chains of table entries. *)

\* the entries of the table, which the walks may look up
Index == 0 .. NClusters + 1

\* p[1] .. p[k] is the way from one cluster to another, each linked to the next
Way(p, k, table, from, to) ==
    /\ k \in Nat \ {0} /\ p[1] = from /\ p[k] = to
    /\ \A i \in 1 .. k - 1 : p[i] \in Index /\ p[i + 1] = table[p[i]]

Simple(p, k) == \A i, j \in 1 .. k : p[i] = p[j] => i = j

\* cluster c is on a cycle, or on its way to one, and will never come to the end
Trapped(table, c) == \E loop \in SUBSET Index : c \in loop /\ \A x \in loop : table[x] \in loop

LEMMA EndOutside == LAST_CLUSTER \notin Index
BY FatAssumption DEF LAST_CLUSTER, Index

LEMMA EndIsNotReserved == LAST_CLUSTER # RESERVED_VALUE
BY FatAssumption DEF LAST_CLUSTER, RESERVED_VALUE

(* A walk that meets no cluster twice is no longer than the table. *)
LEMMA SimpleIsShort ==
  ASSUME NEW p, NEW k \in Nat, Simple(p, k), \A i \in 1 .. k : p[i] \in Index
  PROVE  k <= NClusters + 2
<1>. NClusters \in Nat
  BY FatAssumption
<1>. SUFFICES ASSUME k > NClusters + 2 PROVE FALSE
  OBVIOUS
<1>. DEFINE f == [i \in 1 .. k |-> p[i]]
<1>1. f \in [1 .. k -> Index]
  OBVIOUS
<1>2. IsFiniteSet(1 .. k) /\ Cardinality(1 .. k) = k
  BY FS_Interval
<1>3. IsFiniteSet(Index) /\ Cardinality(Index) = NClusters + 2
  <2>1. NClusters + 1 \in Int /\ 0 \in Int /\ ~(0 > NClusters + 1)
    OBVIOUS
  <2>2. IsFiniteSet(0 .. NClusters + 1)
        /\ Cardinality(0 .. NClusters + 1) = (NClusters + 1) - 0 + 1
    BY <2>1, FS_Interval
  <2>. QED  BY <2>2 DEF Index
<1>4. Cardinality(Index) < Cardinality(1 .. k)
  BY <1>2, <1>3
<1>. HIDE DEF f
<1>5. \E x, y \in 1 .. k : x # y /\ f[x] = f[y]
  BY ONLY <1>1, <1>2, <1>3, <1>4, FS_PigeonHole
<1>. QED  BY <1>5 DEF f, Simple

(* One step further: to a cluster not met yet, or into a cycle. *)
LEMMA WayGrows ==
  ASSUME NEW p, NEW k, NEW table, NEW from, NEW to,
         Way(p, k, table, from, to), Simple(p, k), to \in Index
  PROVE  \/ \E q : Way(q, k + 1, table, from, table[to]) /\ Simple(q, k + 1)
         \/ Trapped(table, table[to])
<1>0. /\ k \in Nat \ {0} /\ p[1] = from /\ p[k] = to
      /\ \A i \in 1 .. k - 1 : p[i] \in Index /\ p[i + 1] = table[p[i]]
  BY DEF Way
<1>1. CASE \E j \in 1 .. k : p[j] = table[to]
  <2>. PICK j \in 1 .. k : p[j] = table[to]
    BY <1>1
  <2>. DEFINE loop == {p[i] : i \in j .. k}
  <2>1. \A i \in j .. k : p[i] \in Index
    <3>. SUFFICES ASSUME NEW i \in j .. k PROVE p[i] \in Index
      OBVIOUS
    <3>1. i = k \/ i \in 1 .. k - 1
      BY <1>0
    <3>. QED  BY <1>0, <3>1
  <2>2. ASSUME NEW i \in j .. k PROVE table[p[i]] \in loop
    <3>1. CASE i = k
      <4>1. j \in j .. k
        BY <1>0
      <4>. QED  BY <1>0, <3>1, <4>1
    <3>2. CASE i # k
      <4>1. i \in 1 .. k - 1 /\ i + 1 \in j .. k
        BY <1>0, <3>2
      <4>. QED  BY <1>0, <4>1
    <3>. QED  BY <3>1, <3>2
  <2>3. table[to] \in loop
    <3>1. j \in j .. k
      BY <1>0
    <3>. QED  BY <3>1
  <2>4. loop \in SUBSET Index /\ \A x \in loop : table[x] \in loop
    BY <2>1, <2>2
  <2>. HIDE DEF loop
  <2>. QED  BY <2>3, <2>4 DEF Trapped
<1>2. CASE \A j \in 1 .. k : p[j] # table[to]
  <2>. DEFINE q == [i \in 1 .. k + 1 |-> IF i = k + 1 THEN table[to] ELSE p[i]]
  <2>1. q[k + 1] = table[to] /\ \A i \in 1 .. k : q[i] = p[i]
    BY <1>0
  <2>. HIDE DEF q
  <2>2. q[1] = from
    BY <1>0, <2>1
  <2>3. ASSUME NEW i \in 1 .. (k + 1) - 1
        PROVE  q[i] \in Index /\ q[i + 1] = table[q[i]]
    <3>1. CASE i = k
      BY <1>0, <2>1, <3>1
    <3>2. CASE i # k
      <4>1. i \in 1 .. k - 1 /\ i \in 1 .. k /\ i + 1 \in 1 .. k
        BY <1>0, <3>2
      <4>. QED  BY <1>0, <2>1, <4>1
    <3>. QED  BY <3>1, <3>2
  <2>4. k + 1 \in Nat \ {0}
    BY <1>0
  <2>5. Way(q, k + 1, table, from, table[to])
    BY <2>1, <2>2, <2>3, <2>4 DEF Way
  <2>6. ASSUME NEW i \in 1 .. k + 1, NEW j \in 1 .. k + 1, q[i] = q[j] PROVE i = j
    <3>1. (i = k + 1 \/ i \in 1 .. k) /\ (j = k + 1 \/ j \in 1 .. k)
      BY <1>0
    <3>2. CASE i \in 1 .. k /\ j \in 1 .. k
      BY <2>1, <2>6, <3>2 DEF Simple
    <3>. QED  BY <1>2, <2>1, <2>6, <3>1, <3>2
  <2>7. Simple(q, k + 1)
    BY <2>6 DEF Simple
  <2>. QED  BY <2>5, <2>7
<1>. QED  BY <1>1, <1>2

------------------------------------------------------------------------------
(* The inductive invariant. *)

\* get_cluster_chain_length has counted the clusters it met, or will not end
Counting ==
    \/ \E p : Way(p, count, fat, Start, cluster) /\ Simple(p, count)
    \/ Trapped(fat, cluster)

\* read_cluster_chain is at the i-th cluster of the chain that was counted
Copying(i) ==
    /\ i \in 1 .. count /\ at = (i - 1) * UnitsPerCluster
    /\ \E p : Way(p, count, fat, Start, LAST_CLUSTER) /\ p[i] = cluster

Walks ==
    /\ DOMAIN fat = Index
    /\ pc = "count" => count \in Nat /\ Counting
    /\ pc = "copy" => \E i \in 1 .. count : Copying(i)
    /\ pc = "use" => WalksAgree

LEMMA WalksInit == Init => Walks
<1>. SUFFICES ASSUME Init PROVE Walks
  OBVIOUS
<1>. DEFINE good == [c \in 0 .. NClusters + 1 |-> TableEntry(layout.chains, c)]
<1>1. DOMAIN good = Index /\ \A c, x : DOMAIN [good EXCEPT ![c] = x] = Index
  BY DEF Index
<1>2. fat \in {good} \cup {[good EXCEPT ![c] = x] : c \in Cluster, x \in Entry}
  BY DEF Init
<1>. HIDE DEF good
<1>3. DOMAIN fat = Index
  BY <1>1, <1>2
<1>4. pc = "idle"
  BY DEF Init
<1>. QED  BY <1>3, <1>4 DEF Walks

\* a walk begins where it is told to
LEMMA WayBegins ==
  ASSUME NEW table, NEW c
  PROVE  \E p : Way(p, 1, table, c, c) /\ Simple(p, 1)
<1>. DEFINE p == [i \in 1 .. 1 |-> c]
<1>1. p[1] = c
  OBVIOUS
<1>. HIDE DEF p
<1>2. Way(p, 1, table, c, c)
  BY <1>1 DEF Way
<1>3. Simple(p, 1)
  BY DEF Simple
<1>. QED  BY <1>2, <1>3

(* The walk that counts goes one cluster further; CountMax, the bound of the
   model, is met only on a cycle. *)
LEMMA CountStepWalks == Walks /\ CountStep => Walks'
<1>. SUFFICES ASSUME Walks, CountStep PROVE Walks'
  OBVIOUS
<1>. NClusters \in Nat
  BY FatAssumption
<1>0. /\ pc = "count" /\ count \in Nat /\ Counting /\ DOMAIN fat = Index
      /\ count' = (IF count < CountMax THEN count + 1 ELSE count)
      /\ fat' = fat /\ want' = want /\ call' = call
  BY DEF CountStep, Walks, fsVars
<1>1. Start' = Start
  BY <1>0 DEF Start
<1>2. CASE cluster \notin Index
  BY <1>0, <1>2 DEF CountStep, Walks
<1>3. CASE cluster \in Index
  <2>1. cluster' = fat[cluster] /\ pc' = "count"
    BY <1>0, <1>3 DEF CountStep
  <2>2. count' \in Nat
    BY <1>0
  <2>3. CASE Trapped(fat, cluster)
    <3>1. Trapped(fat, fat[cluster])
      BY <2>3 DEF Trapped
    <3>2. Counting'
      BY <1>0, <2>1, <3>1 DEF Counting
    <3>. QED  BY <1>0, <2>1, <2>2, <3>2 DEF Walks
  <2>4. ASSUME NEW p, Way(p, count, fat, Start, cluster), Simple(p, count)
        PROVE  Walks'
    <3>1. count <= NClusters + 2
      <4>1. \A i \in 1 .. count : p[i] \in Index
        <5>. SUFFICES ASSUME NEW i \in 1 .. count PROVE p[i] \in Index
          OBVIOUS
        <5>1. i = count \/ i \in 1 .. count - 1
          BY <1>0
        <5>. QED  BY <1>3, <2>4, <5>1 DEF Way
      <4>. QED  BY <1>0, <2>4, <4>1, SimpleIsShort
    <3>2. count' = count + 1
      BY <1>0, <3>1 DEF CountMax
    <3>3. \/ \E q : Way(q, count + 1, fat, Start, fat[cluster]) /\ Simple(q, count + 1)
          \/ Trapped(fat, fat[cluster])
      BY <1>3, <2>4, WayGrows
    <3>4. \/ \E q : Way(q, count', fat', Start', cluster') /\ Simple(q, count')
          \/ Trapped(fat', cluster')
      BY <1>0, <1>1, <2>1, <3>2, <3>3
    <3>. QED  BY <1>0, <2>1, <2>2, <3>4 DEF Walks, Counting
  <2>. QED  BY <1>0, <2>3, <2>4 DEF Counting
<1>. QED  BY <1>2, <1>3

LEMMA CountEndWalks == Walks /\ CountEnd => Walks'
<1>. SUFFICES ASSUME Walks, CountEnd PROVE Walks'
  OBVIOUS
<1>0. /\ pc = "count" /\ count \in Nat /\ Counting /\ DOMAIN fat = Index
      /\ cluster = LAST_CLUSTER /\ cluster' = Start /\ pc' = "copy" /\ at' = 0
      /\ count' = count /\ fat' = fat /\ want' = want /\ call' = call
  BY DEF CountEnd, Walks, fsVars
<1>1. ~Trapped(fat, cluster)
  BY <1>0, EndOutside DEF Trapped
<1>2. PICK p : Way(p, count, fat, Start, LAST_CLUSTER)
  BY <1>0, <1>1 DEF Counting
<1>3. Start' = Start
  BY <1>0 DEF Start
<1>4. Way(p, count', fat', Start', LAST_CLUSTER) /\ p[1] = cluster' /\ 1 \in 1 .. count'
  BY <1>0, <1>2, <1>3 DEF Way
<1>5. at' = (1 - 1) * UnitsPerCluster
  BY <1>0, FatAssumption
<1>6. Copying(1)'
  BY <1>4, <1>5 DEF Copying
<1>. QED  BY <1>0, <1>4, <1>6 DEF Walks

(* The walk that copies follows the chain that was counted, and stops one short
   of its end marker. *)
LEMMA CopyStepWalks == Walks /\ CopyStep => Walks'
<1>. SUFFICES ASSUME Walks, CopyStep PROVE Walks'
  OBVIOUS
<1>. NClusters \in Nat /\ UnitsPerCluster \in Nat
  BY FatAssumption
<1>0. /\ pc = "copy" /\ DOMAIN fat = Index
      /\ count' = count /\ fat' = fat /\ want' = want /\ call' = call
  BY DEF CopyStep, Walks, fsVars
<1>1. CASE cluster \notin Cluster
  BY <1>0, <1>1 DEF CopyStep, Walks
<1>2. CASE cluster \in Cluster
  <2>1. /\ at' = at + UnitsPerCluster /\ cluster' = fat[cluster]
        /\ fat[cluster] = LAST_CLUSTER => pc' = "use"
        /\ fat[cluster] # LAST_CLUSTER => pc' \in {"copy", "panic"}
    BY <1>2, EndIsNotReserved DEF CopyStep
  <2>2. PICK i \in 1 .. count : Copying(i)
    BY <1>0 DEF Walks
  <2>3. PICK p : Way(p, count, fat, Start, LAST_CLUSTER) /\ p[i] = cluster
    BY <2>2 DEF Copying
  <2>4. /\ count \in Nat /\ p[count] = LAST_CLUSTER
        /\ \A j \in 1 .. count - 1 : p[j] \in Index /\ p[j + 1] = fat[p[j]]
    BY <2>3 DEF Way
  <2>5. i # count
    BY <1>2, <2>3, <2>4 DEF Cluster, LAST_CLUSTER
  <2>6. i \in 1 .. count - 1 /\ i + 1 \in 1 .. count
    BY <2>4, <2>5
  <2>7. p[i + 1] = cluster'
    BY <2>1, <2>3, <2>4, <2>6
  <2>8. at' = i * UnitsPerCluster
    <3>1. at = (i - 1) * UnitsPerCluster
      BY <2>2 DEF Copying
    <3>. QED  BY <2>1, <3>1
  <2>9. Start' = Start
    BY <1>0 DEF Start
  <2>10. CASE fat[cluster] = LAST_CLUSTER
    <3>1. i + 1 = count
      <4>1. i + 1 \notin 1 .. count - 1
        BY <2>1, <2>4, <2>7, <2>10, EndOutside
      <4>. QED  BY <2>4, <2>6, <4>1
    <3>2. at' = (count' - 1) * UnitsPerCluster
      BY <1>0, <2>8, <3>1
    <3>. QED  BY <1>0, <2>1, <2>10, <3>2 DEF Walks, WalksAgree, Length
  <2>11. CASE fat[cluster] # LAST_CLUSTER
    <3>1. at' = ((i + 1) - 1) * UnitsPerCluster
      BY <2>8
    <3>2. Copying(i + 1)'
      BY <1>0, <2>3, <2>6, <2>7, <2>9, <3>1 DEF Copying
    <3>3. CASE pc' = "copy"
      BY <1>0, <2>1, <2>6, <3>2, <3>3 DEF Walks
    <3>4. CASE pc' = "panic"
      BY <1>0, <3>4 DEF Walks
    <3>. QED  BY <2>1, <2>11, <3>3, <3>4
  <2>. QED  BY <2>10, <2>11
<1>. QED  BY <1>1, <1>2

(* Both a call and the second half of fat32_read begin to count. *)
LEMMA BeginsWalks ==
  ASSUME Walks, fat' = fat, pc' = "count", count' = 1, cluster' = Start'
  PROVE  Walks'
<1>1. \E p : Way(p, 1, fat, Start', Start') /\ Simple(p, 1)
  BY WayBegins
<1>2. Counting'
  BY <1>1 DEF Counting
<1>. QED  BY <1>2 DEF Walks

LEMMA WalksNext == Walks /\ [Next]_vars => Walks'
<1>. SUFFICES ASSUME Walks, [Next]_vars PROVE Walks'
  OBVIOUS
<1>1. ASSUME NEW op, NEW dir, NEW name, Call(op, dir, name) PROVE Walks'
  <2>1. /\ fat' = fat /\ pc' = "count" /\ count' = 1 /\ cluster' = dir
        /\ want' = Zero /\ call'.dir = dir
    BY <1>1 DEF Call, fsVars
  <2>2. cluster' = Start'
    BY <2>1 DEF Start
  <2>. QED  BY <2>1, <2>2, BeginsWalks
<1>2. CASE ReadDir \/ ReadFile
  <2>1. fat' = fat /\ pc' = "idle"
    BY <1>2 DEF ReadDir, ReadFile, fsVars
  <2>. QED  BY <2>1 DEF Walks
<1>3. CASE Stat
  <2>1. fat' = fat
    BY <1>3 DEF Stat, fsVars
  <2>2. CASE pc' \in {"idle", "null"}
    BY <2>1, <2>2 DEF Walks
  <2>3. CASE ~(pc' \in {"idle", "null"})
    <3>1. PICK d : want' = Convert(d) /\ cluster' = Convert(d).cluster /\ count' = 1
                   /\ pc' = "count"
      <4>. DEFINE found == Named(Dirents, call.name)
                  d == Dirents[Least(found)]
      <4>1. want' = Convert(d) /\ cluster' = Convert(d).cluster /\ count' = 1 /\ pc' = "count"
        BY <1>3, <2>3 DEF Stat
      <4>. QED  BY <4>1
    <3>2. Convert(d).kind = "dirent" /\ Zero.kind = "zero"
      BY DEF Convert, Zero
    <3>3. want' # Zero
      BY <3>1, <3>2
    <3>4. cluster' = Start'
      BY <3>1, <3>3 DEF Start
    <3>. QED  BY <2>1, <3>1, <3>4, BeginsWalks
  <2>. QED  BY <2>2, <2>3
<1>4. CASE UNCHANGED vars
  BY <1>4 DEF vars, fsVars, walk, Walks, Counting, Copying, WalksAgree, Start, Length
<1>. QED
  BY <1>1, <1>2, <1>3, <1>4, CountStepWalks, CountEndWalks, CopyStepWalks DEF Next, Walk, Use

(* Whatever the table holds, a copy that ends has read one cluster less than was
   counted: the buffer of a directory is never too small. *)
THEOREM CopyFitsCount == Spec => []WalksAgree
<1>1. Walks => WalksAgree
  BY DEF Walks, WalksAgree
<1>. QED  BY <1>1, WalksInit, WalksNext, PTL DEF Spec

------------------------------------------------------------------------------
(* The inductive invariant of an undamaged table. *)

CallUnits == 2 * Span + 2

\* the entry of the table that follows i - 1 clusters of the chain s
Link(s, i) == IF i <= Len(s) THEN s[i] ELSE LAST_CLUSTER

\* the walk is of cluster 0: an empty file, or the ".." of a top directory
Nowhere == Start = 0 /\ (want # Zero => want.nbytes = 0)

\* the walk is of the chain s
Aim(s) ==
    /\ s \in layout.chains /\ s[1] = Start
    /\ IF want = Zero THEN Start \in DOMAIN layout.ents
       ELSE want.nbytes \in 0 .. UnitsPerCluster * Len(s)
            /\ (want.nbytes > 0 => Start \notin DOMAIN layout.ents)

\* the first i - 1 clusters of s are in the buffer, and a directory's ends with zeros
CopyAt(s, i) ==
    /\ count = Len(s) + 1 /\ at = (i - 1) * UnitsPerCluster
    /\ \A j \in 1 .. i - 1, u \in 1 .. UnitsPerCluster :
        heap[buf + ((j - 1) * UnitsPerCluster + u) - 1] = disk[s[j]][u]
    /\ want = Zero => \A u \in 1 .. UnitsPerCluster :
        heap[buf + (Len(s) * UnitsPerCluster + u) - 1] = Zero

CountingDisk ==
    \/ Nowhere /\ <<count, cluster>> \in {<<1, 0>>, <<2, LAST_CLUSTER>>}
    \/ \E s \in layout.chains : Aim(s) /\ count \in 1 .. Len(s) + 1 /\ cluster = Link(s, count)

CopyingDisk ==
    \/ Nowhere /\ cluster = 0 /\ count = 2
    \/ \E s \in layout.chains : Aim(s) /\ \E i \in 1 .. Len(s) : cluster = s[i] /\ CopyAt(s, i)

UsingDisk == \E s \in layout.chains : Aim(s) /\ CopyAt(s, Len(s) + 1)

WalksDisk ==
    /\ pc \in {"idle", "count", "copy", "use", "assert", "null"}
    /\ pc = "count" => CountingDisk
    /\ pc = "copy" => CopyingDisk
    /\ pc = "use" => UsingDisk

\* what the disk is: it never changes
DiskSound ==
    /\ layout \in Layouts /\ DOMAIN fat = 0 .. NClusters + 1
    /\ disk = [c \in Cluster |-> [i \in 1 .. UnitsPerCluster |-> Unit(layout, c, i)]]

CallSound ==
    pc \in {"count", "copy", "use"} =>
        /\ call.dir \in DOMAIN layout.ents \cup {0} /\ call.name \in Names
        /\ want # Zero => call.op = "read"

\* how much a call allocates before each of its steps
Budget ==
    LET base == (calls - 1) * CallUnits IN
    /\ top \in Nat /\ calls \in Nat /\ calls <= MaxCalls
    /\ pc \in {"count", "copy", "use"} => calls > 0
    /\ pc \in {"idle", "assert", "null"} => top <= calls * CallUnits
    /\ pc = "count" => top <= base + (IF want = Zero THEN 0 ELSE Span + 1)
    /\ pc \in {"copy", "use"} =>
        /\ buf \in Nat /\ buf <= base + (IF want = Zero THEN 0 ELSE Span + 1)
        /\ top = buf + BufferUnits

\* where the memory ends that earlier calls returned
Limit == IF pc \in {"copy", "use"} THEN buf ELSE top

\* r is what the disk says, lies below the limit, and tells only of known directories
Returned(r) ==
    /\ r.addr \in Nat /\ r.n \in Nat /\ r.addr + r.n <= Limit
    /\ Mem(r.addr, r.n) = r.val
    /\ \A x \in ToSet(r.val) :
        x.kind = "dirent" /\ x.is_dir => x.cluster \in DOMAIN layout.ents \cup {0}

Good ==
    /\ WalksDisk /\ CallSound /\ Budget /\ FailuresExplained
    /\ \A r \in results : Returned(r)

Sound ==
    /\ DiskSound /\ DOMAIN heap = 0 .. HeapUnits - 1
    /\ Intact => Good

------------------------------------------------------------------------------
(* Facts about numbers and sets of numbers. *)

LEMMA LeastIsIn ==
  ASSUME NEW S \in SUBSET Nat, S # {}
  PROVE  Least(S) \in S /\ \A j \in S : Least(S) <= j
<1>. DEFINE upto(n) == 0 .. n
            T == {upto(n) : n \in S}
            R == StrictSubsetOrdering(Nat)
            F == FiniteSubsetsOf(Nat)
<1>1. IsWellFoundedOn(R, F)
  BY FS_StrictSubsetOrderingWellFounded
<1>2. \A n \in Nat : upto(n) \in F
  <2>1. \A n \in Nat : IsFiniteSet(upto(n)) /\ upto(n) \in SUBSET Nat
    BY FS_Interval
  <2>. QED  BY <2>1 DEF FiniteSubsetsOf
<1>3. \A m, n \in Nat : m < n => <<upto(m), upto(n)>> \in R
  <2>1. \A m, n \in Nat : m < n => /\ upto(m) \in SUBSET Nat /\ upto(n) \in SUBSET Nat
                                  /\ upto(m) \subseteq upto(n) /\ n \in upto(n) /\ n \notin upto(m)
    OBVIOUS
  <2>. HIDE DEF upto
  <2>. QED  BY <2>1 DEF StrictSubsetOrdering
<1>. HIDE DEF upto, R, F
<1>4. T \subseteq F /\ T # {}
  BY <1>2
<1>. HIDE DEF T
<1>5. PICK t \in T : \A y \in T : ~ (<<y, t>> \in R)
  BY ONLY <1>1, <1>4, WFMin
<1>6. PICK x \in S : t = upto(x)
  BY <1>5 DEF T
<1>7. \A y \in S : x <= y
  <2>. TAKE y \in S
  <2>1. upto(y) \in T
    BY DEF T
  <2>2. ~(y < x)
    BY <1>3, <1>5, <1>6, <2>1
  <2>. QED  BY <2>2
<1>. QED  BY <1>7 DEF Least

(* The k-th unit of a chain is the u-th of its j-th cluster. *)
LEMMA UnitOfCluster ==
  ASSUME NEW m \in Nat, NEW n \in Nat \ {0}, NEW k \in 1 .. m * n
  PROVE  \E j \in 1 .. m, u \in 1 .. n : k = (j - 1) * n + u
<1>. DEFINE S == {j \in Nat : k <= j * n}
<1>. DEFINE j == Least(S)
<1>1. m \in S
  OBVIOUS
<1>2. j \in S /\ j <= m
  BY <1>1, LeastIsIn
<1>3. j # 0
  BY <1>2
<1>4. j - 1 \in Nat /\ j - 1 \notin S
  <2>. \A i \in S : j <= i
    BY <1>1, LeastIsIn
  <2>. QED  BY <1>2, <1>3
<1>. HIDE DEF j
<1>5. k > (j - 1) * n /\ k <= j * n
  BY <1>2, <1>4
<1>6. j * n = (j - 1) * n + n
  BY <1>2
<1>. DEFINE u == k - (j - 1) * n
<1>7. (j - 1) * n \in Nat
  BY <1>4
<1>8. u \in 1 .. n /\ k = (j - 1) * n + u
  BY <1>5, <1>6, <1>7
<1>9. j \in 1 .. m
  BY <1>2, <1>3
<1>. QED  BY <1>8, <1>9

------------------------------------------------------------------------------
(* The chains of a disk. *)

LEMMA ChainFacts ==
  ASSUME NEW l \in Layouts, NEW s \in l.chains
  PROVE  /\ Len(s) \in Nat \ {0} /\ Len(s) <= NClusters + 2
         /\ \A i \in 1 .. Len(s) : s[i] \in Cluster
         /\ \A i, j \in 1 .. Len(s) : s[i] = s[j] => i = j
<1>. NClusters \in Nat
  BY FatAssumption
<1>1. s \in Seq(Cluster) /\ s # <<>>
  BY DiskAssumption
<1>2. Len(s) \in Nat \ {0} /\ DOMAIN s = 1 .. Len(s) /\ \A i \in 1 .. Len(s) : s[i] \in Cluster
  BY <1>1, EmptySeq, LenProperties, ElementOfSeq
<1>3. \A i, j \in 1 .. Len(s) : s[i] = s[j] => i = j
  BY <1>2, FatAssumption DEF IsInjective
<1>4. Len(s) <= NClusters + 2
  <2>1. \A i \in 1 .. Len(s) : s[i] \in Index
    BY <1>2 DEF Cluster, Index
  <2>. QED  BY <1>2, <1>3, <2>1, SimpleIsShort DEF Simple
<1>. QED  BY <1>2, <1>3, <1>4

LEMMA ChainUnique ==
  ASSUME NEW l \in Layouts, NEW s \in l.chains, NEW t \in l.chains,
         NEW i \in 1 .. Len(s), NEW j \in 1 .. Len(t), s[i] = t[j]
  PROVE  s = t /\ i = j
<1>1. s \in Seq(Cluster) /\ t \in Seq(Cluster)
  BY DiskAssumption
<1>2. i \in DOMAIN s /\ j \in DOMAIN t
  BY <1>1, LenProperties
<1>3. s[i] \in ToSet(s) \cap ToSet(t)
  BY <1>2 DEF ToSet
<1>4. s = t
  BY <1>3, FatAssumption
<1>. QED  BY <1>4, ChainFacts

LEMMA InChain ==
  ASSUME NEW l \in Layouts, NEW s \in l.chains, NEW i \in 1 .. Len(s)
  PROVE  /\ s[i] \in ToSet(s)
         /\ \A t \in l.chains : s[i] \in ToSet(t) => t = s
         /\ (CHOOSE j \in 1 .. Len(s) : s[j] = s[i]) = i
<1>1. \A t \in l.chains : DOMAIN t = 1 .. Len(t)
  BY DiskAssumption, LenProperties
<1>2. \A t \in l.chains : s[i] \in ToSet(t) => t = s
  <2>. SUFFICES ASSUME NEW t \in l.chains, s[i] \in ToSet(t) PROVE t = s
    OBVIOUS
  <2>1. PICK j \in 1 .. Len(t) : t[j] = s[i]
    BY <1>1 DEF ToSet
  <2>. QED  BY <2>1, ChainUnique
<1>. QED  BY <1>1, <1>2, ChainFacts DEF ToSet

(* An undamaged table leads from each cluster of a chain to the next. *)
LEMMA TableFollows ==
  ASSUME NEW l \in Layouts, NEW s \in l.chains, NEW i \in 1 .. Len(s)
  PROVE  TableEntry(l.chains, s[i]) = Link(s, i + 1)
<1>1. s[i] \in Cluster /\ Len(s) \in Nat
  BY ChainFacts
<1>2. ~(s[i] < 2)
  BY <1>1, FatAssumption DEF Cluster
<1>. DEFINE mine == {t \in l.chains : s[i] \in ToSet(t)}
<1>3. mine = {s}
  BY InChain
<1>4. (CHOOSE t \in mine : TRUE) = s /\ mine # {}
  BY <1>3
<1>5. TableEntry(l.chains, s[i]) = IF i = Len(s) THEN LAST_CLUSTER ELSE s[i + 1]
  <2>. DEFINE EntryIn(t) == LET k == CHOOSE j \in 1 .. Len(t) : t[j] = s[i] IN
                            IF k = Len(t) THEN LAST_CLUSTER ELSE t[k + 1]
  <2>1. TableEntry(l.chains, s[i]) = EntryIn(CHOOSE t \in mine : TRUE)
    BY <1>2, <1>4 DEF TableEntry
  <2>2. EntryIn(s) = IF i = Len(s) THEN LAST_CLUSTER ELSE s[i + 1]
    <3>1. (CHOOSE j \in 1 .. Len(s) : s[j] = s[i]) = i
      BY InChain
    <3>. QED  BY <3>1
  <2>. HIDE DEF EntryIn, mine
  <2>. QED  BY <1>4, <2>1, <2>2
<1>6. i = Len(s) <=> ~(i + 1 <= Len(s))
  BY <1>1
<1>. QED  BY <1>5, <1>6 DEF Link

LEMMA UnitOfChain ==
  ASSUME NEW l \in Layouts, NEW s \in l.chains, NEW j \in 1 .. Len(s), NEW u
  PROVE  LET k == (j - 1) * UnitsPerCluster + u IN
         Unit(l, s[j], u) =
            IF s[1] \in DOMAIN l.ents
            THEN IF k <= Len(l.ents[s[1]]) THEN l.ents[s[1]][k] ELSE Zero
            ELSE [kind |-> "data", cluster |-> s[j], unit |-> u]
<1>1. \A t \in l.chains : s[j] \in ToSet(t) <=> t = s
  BY InChain
<1>2. (CHOOSE t \in l.chains : s[j] \in ToSet(t)) = s
  BY <1>1
<1>3. (CHOOSE i \in 1 .. Len(s) : s[i] = s[j]) = j
  BY InChain
<1>4. UnitsPerCluster * (j - 1) = (j - 1) * UnitsPerCluster
  BY FatAssumption
<1>5. (\E t \in l.chains : s[j] \in ToSet(t) /\ t[1] \in DOMAIN l.ents) <=> s[1] \in DOMAIN l.ents
  BY <1>1
<1>6. CASE s[1] \in DOMAIN l.ents
  <2>1. Unit(l, s[j], u) =
          LET t == CHOOSE x \in l.chains : s[j] \in ToSet(x)
              k == UnitsPerCluster * ((CHOOSE i \in 1 .. Len(t) : t[i] = s[j]) - 1) + u IN
          IF k <= Len(l.ents[t[1]]) THEN l.ents[t[1]][k] ELSE Zero
    BY <1>5, <1>6 DEF Unit
  <2>. QED  BY <1>2, <1>3, <1>4, <1>6, <2>1
<1>7. CASE s[1] \notin DOMAIN l.ents
  BY <1>5, <1>7 DEF Unit
<1>. QED  BY <1>6, <1>7

------------------------------------------------------------------------------
(* What is done with a directory's units. *)

LEMMA LenOfFunction ==
  ASSUME NEW n \in Nat, NEW f, f = [i \in 1 .. n |-> f[i]]
  PROVE  Len(f) = n
<1>1. f \in Seq({f[i] : i \in 1 .. n})
  BY SeqDef
<1>2. DOMAIN f = 1 .. Len(f) /\ Len(f) \in Nat
  BY <1>1, LenProperties
<1>. QED  BY <1>2

LEMMA EntriesLen ==
  ASSUME NEW l \in Layouts, NEW d \in DOMAIN l.ents
  PROVE  /\ Len(l.ents[d]) \in Nat
         /\ \A i \in 1 .. Len(l.ents[d]) : l.ents[d][i] \in ToSet(l.ents[d])
<1>1. l.ents[d] \in Seq(ToSet(l.ents[d]))
  BY DiskAssumption
<1>. QED  BY <1>1, LenProperties, ElementOfSeq

(* The k-th of a finite set of numbers. *)
LEMMA RankIsFound ==
  ASSUME NEW K \in SUBSET Nat, IsFiniteSet(K), NEW k \in 1 .. Cardinality(K)
  PROVE  \E i \in K : Cardinality({j \in K : j <= i}) = k
<1>. DEFINE upto(i) == {j \in K : j <= i}
            rank == [i \in K |-> Cardinality(upto(i))]
            n == Cardinality(K)
<1>0. n \in Nat
  BY FS_CardinalityType
<1>1. ASSUME NEW i \in K
      PROVE  IsFiniteSet(upto(i)) /\ Cardinality(upto(i)) \in 1 .. n
  <2>1. IsFiniteSet(upto(i)) /\ Cardinality(upto(i)) <= n
    <3>1. upto(i) \in SUBSET K
      OBVIOUS
    <3>. HIDE DEF upto
    <3>. QED  BY <3>1, FS_Subset
  <2>2. i \in upto(i)
    OBVIOUS
  <2>. HIDE DEF upto
  <2>3. Cardinality(upto(i)) \in Nat /\ Cardinality(upto(i)) # 0
    BY <2>1, <2>2, FS_CardinalityType, FS_EmptySet
  <2>. QED  BY <1>0, <2>1, <2>3
<1>2. ASSUME NEW i \in K, NEW j \in K, i < j PROVE rank[i] < rank[j]
  <2>1. upto(i) \in SUBSET upto(j) /\ upto(i) # upto(j)
    <3>1. j \in upto(j) /\ j \notin upto(i)
      BY <1>2
    <3>2. upto(i) \subseteq upto(j)
      <4>1. \A x \in K : x <= i => x <= j
        BY <1>2
      <4>. QED  BY <4>1
    <3>. HIDE DEF upto
    <3>. QED  BY <3>1, <3>2
  <2>2. rank[i] = Cardinality(upto(i)) /\ rank[j] = Cardinality(upto(j))
    OBVIOUS
  <2>3. Cardinality(upto(i)) \in Nat /\ Cardinality(upto(j)) \in Nat /\ IsFiniteSet(upto(j))
    BY <1>1
  <2>. HIDE DEF upto, rank
  <2>4. Cardinality(upto(i)) <= Cardinality(upto(j)) /\ Cardinality(upto(j)) # Cardinality(upto(i))
    BY <2>1, <2>3, FS_Subset
  <2>. QED  BY <2>2, <2>3, <2>4
<1>3. rank \in [K -> 1 .. n]
  BY <1>1
<1>. HIDE DEF rank
<1>4. \A i, j \in K : rank[i] = rank[j] => i = j
  <2>. SUFFICES ASSUME NEW i \in K, NEW j \in K, rank[i] = rank[j], i # j PROVE FALSE
    OBVIOUS
  <2>1. i < j \/ j < i
    OBVIOUS
  <2>2. rank[i] \in Int /\ rank[j] \in Int
    BY <1>0, <1>3
  <2>. QED  BY <1>2, <2>1, <2>2
<1>5. rank \in Injection(K, 1 .. n)
  BY <1>3, <1>4 DEF Injection, IsInjective
<1>6. IsFiniteSet(1 .. n) /\ Cardinality(1 .. n) = n
  BY <1>0, FS_Interval
<1>7. rank \in Surjection(K, 1 .. n)
  BY <1>5, <1>6, FS_Injection
<1>8. PICK i \in K : rank[i] = k
  BY <1>7 DEF Surjection
<1>. QED  BY <1>8 DEF rank

LEMMA ListingFacts ==
  ASSUME NEW ents, Len(ents) \in Nat
  PROVE  /\ Cardinality(KeptAt(ents)) \in 0 .. Len(ents)
         /\ Len(Listing(ents)) = Cardinality(KeptAt(ents))
         /\ DOMAIN Listing(ents) = 1 .. Cardinality(KeptAt(ents))
         /\ \A k \in 1 .. Cardinality(KeptAt(ents)) :
                Nth(ents, k) \in 1 .. Len(ents) /\ Listing(ents)[k] = Convert(ents[Nth(ents, k)])
<1>. DEFINE K == KeptAt(ents)
<1>1. K \in SUBSET (1 .. Len(ents))
  BY DEF KeptAt
<1>2. IsFiniteSet(1 .. Len(ents)) /\ Cardinality(1 .. Len(ents)) = Len(ents)
  BY FS_Interval
<1>. HIDE DEF K
<1>3. IsFiniteSet(K) /\ Cardinality(K) \in Nat /\ Cardinality(K) <= Len(ents)
  BY <1>1, <1>2, FS_Subset, FS_CardinalityType
<1>4. ASSUME NEW k \in 1 .. Cardinality(K) PROVE Nth(ents, k) \in K
  <2>1. K \in SUBSET Nat
    BY <1>1
  <2>2. \E i \in K : Cardinality({j \in K : j <= i}) = k
    BY <1>3, <2>1, RankIsFound
  <2>. QED  BY <2>2 DEF Nth, K
<1>5. Listing(ents) = [k \in 1 .. Cardinality(K) |-> Convert(ents[Nth(ents, k)])]
  BY DEF Listing, K
<1>6. Len(Listing(ents)) = Cardinality(K)
  BY <1>3, <1>5, LenOfFunction
<1>. QED  BY <1>1, <1>3, <1>4, <1>5, <1>6 DEF K

(* The zeros behind a directory's entries change nothing. *)
LEMMA ZerosDoNotCount ==
  ASSUME NEW ents, NEW more, Len(ents) \in Nat, Len(more) \in Nat, Len(ents) <= Len(more),
         \A i \in 1 .. Len(more) : more[i] = IF i <= Len(ents) THEN ents[i] ELSE Zero
  PROVE  /\ Listing(more) = Listing(ents)
         /\ \A name : Named(more, name) = Named(ents, name)
<1>1. \A i \in 1 .. Len(ents) : i \in 1 .. Len(more) /\ more[i] = ents[i]
  OBVIOUS
<1>2. \A i \in 1 .. Len(more) : i \in 1 .. Len(ents) \/ more[i] = Zero
  OBVIOUS
<1>3. Zero.kind = "zero"
  BY DEF Zero
<1>4. KeptAt(more) = KeptAt(ents)
  <2>1. ~Kept(Zero)
    BY <1>3 DEF Kept
  <2>. QED  BY <1>1, <1>2, <2>1 DEF KeptAt
<1>5. \A name : Named(more, name) = Named(ents, name)
  BY <1>1, <1>2, <1>3 DEF Named
<1>6. \A k : Nth(more, k) = Nth(ents, k)
  BY <1>4 DEF Nth
<1>7. \A k \in 1 .. Cardinality(KeptAt(ents)) : more[Nth(ents, k)] = ents[Nth(ents, k)]
  BY <1>1, ListingFacts
<1>8. Listing(more) = Listing(ents)
  BY <1>4, <1>6, <1>7 DEF Listing
<1>. QED  BY <1>5, <1>8

------------------------------------------------------------------------------
(* Memory. *)

LEMMA Numbers ==
  /\ NClusters \in Nat \ {0} /\ UnitsPerCluster \in Nat \ {0} /\ CountMax \in Nat
  /\ Span \in Nat /\ CallUnits \in Nat /\ HeapUnits \in Nat /\ MaxCalls \in Nat
  /\ LAST_CLUSTER \in Nat
<1>1. CountMax \in Nat /\ UnitsPerCluster \in Nat
  BY FatAssumption DEF CountMax
<1>2. Span \in Nat
  BY <1>1 DEF Span
<1>. QED  BY <1>1, <1>2, FatAssumption, HeapAssumption DEF CallUnits, LAST_CLUSTER

LEMMA SpanBounds ==
  ASSUME NEW n \in 0 .. CountMax
  PROVE  n * UnitsPerCluster \in 0 .. Span
<1>1. n * UnitsPerCluster \in Nat
  BY Numbers
<1>2. CountMax * UnitsPerCluster - n * UnitsPerCluster = (CountMax - n) * UnitsPerCluster
  BY Numbers
<1>3. (CountMax - n) * UnitsPerCluster \in Nat
  <2>1. CountMax - n \in Nat
    BY Numbers
  <2>. QED  BY <2>1, Numbers
<1>. QED  BY <1>1, <1>2, <1>3, Numbers DEF Span

LEMMA CallsFit ==
  ASSUME NEW c \in Nat, c <= MaxCalls
  PROVE  /\ c * CallUnits \in Nat /\ c * CallUnits <= HeapUnits
         /\ c > 0 => /\ (c - 1) * CallUnits \in Nat
                     /\ c * CallUnits = (c - 1) * CallUnits + 2 * Span + 2
<1>1. c * CallUnits \in Nat /\ MaxCalls * CallUnits \in Nat
  BY Numbers
<1>2. MaxCalls * CallUnits - c * CallUnits = (MaxCalls - c) * CallUnits
  BY Numbers
<1>3. (MaxCalls - c) * CallUnits \in Nat
  <2>1. MaxCalls - c \in Nat
    BY Numbers
  <2>. QED  BY <2>1, Numbers
<1>4. MaxCalls * CallUnits <= HeapUnits
  BY HeapAssumption DEF CallUnits
<1>5. ASSUME c > 0
      PROVE  /\ (c - 1) * CallUnits \in Nat
             /\ c * CallUnits = (c - 1) * CallUnits + 2 * Span + 2
  <2>1. c - 1 \in Nat
    BY <1>5
  <2>2. (c - 1) * CallUnits \in Nat
    BY <2>1, Numbers
  <2>3. c * CallUnits = (c - 1) * CallUnits + CallUnits
    BY <2>1, Numbers
  <2>. QED  BY <2>2, <2>3, Numbers DEF CallUnits
<1>. QED  BY <1>1, <1>2, <1>3, <1>4, <1>5, Numbers

(* A write leaves alone what lies below it and behind it. *)
LEMMA PutElsewhere ==
  ASSUME NEW m, DOMAIN m = 0 .. HeapUnits - 1, NEW a \in Nat, NEW s, Len(s) \in Nat,
         NEW x \in 0 .. HeapUnits - 1, x < a \/ x >= a + Len(s)
  PROVE  Put(m, a, s)[x] = m[x]
<1>1. ~(x - a \in 0 .. Len(s) - 1)
  BY Numbers
<1>. QED  BY <1>1 DEF Put

LEMMA PutThere ==
  ASSUME NEW m, DOMAIN m = 0 .. HeapUnits - 1, NEW a \in Nat, NEW s, Len(s) \in Nat,
         NEW i \in 1 .. Len(s), a + i - 1 \in 0 .. HeapUnits - 1
  PROVE  Put(m, a, s)[a + i - 1] = s[i]
<1>1. (a + i - 1) - a \in 0 .. Len(s) - 1 /\ (a + i - 1) - a + 1 = i
  OBVIOUS
<1>. QED  BY <1>1 DEF Put

(* What was returned stays what it is when all that is written lies above. *)
LEMMA ReturnedKept ==
  ASSUME NEW r, Returned(r), Limit \in Nat, Limit' \in Nat, Limit <= Limit',
         \A x \in 0 .. Limit - 1 : heap'[x] = heap[x], layout' = layout
  PROVE  Returned(r)'
<1>1. r.addr \in Nat /\ r.n \in Nat /\ r.addr + r.n <= Limit /\ Mem(r.addr, r.n) = r.val
  BY DEF Returned
<1>2. \A i \in 1 .. r.n : r.addr + i - 1 \in 0 .. Limit - 1
  BY <1>1
<1>3. Mem(r.addr, r.n)' = Mem(r.addr, r.n)
  BY <1>2 DEF Mem
<1>4. r.addr + r.n <= Limit'
  BY <1>1
<1>. QED  BY <1>1, <1>3, <1>4 DEF Returned

LEMMA WrittenAbove ==
  ASSUME NEW a \in Nat, NEW s, Len(s) \in Nat, DOMAIN heap = 0 .. HeapUnits - 1,
         heap' = Put(heap, a, s), NEW b \in Nat, b <= a, b <= HeapUnits
  PROVE  \A x \in 0 .. b - 1 : heap'[x] = heap[x]
<1>. TAKE x \in 0 .. b - 1
<1>1. x \in 0 .. HeapUnits - 1 /\ x < a
  BY Numbers
<1>2. Put(heap, a, s)[x] = heap[x]
  BY <1>1, PutElsewhere
<1>. QED  BY <1>2

LEMMA AimedUnits ==
  ASSUME layout \in Layouts, NEW s, Aim(s), count = Len(s) + 1
  PROVE  /\ BufferUnits \in 0 .. Span /\ count \in 1 .. CountMax /\ Len(s) \in Nat \ {0}
         /\ Len(s) * UnitsPerCluster \in Nat
         /\ Length * UnitsPerCluster = Len(s) * UnitsPerCluster + UnitsPerCluster
         /\ Length * UnitsPerCluster \in 0 .. Span
<1>1. s \in layout.chains
  BY DEF Aim
<1>2. Len(s) \in Nat \ {0} /\ Len(s) <= NClusters + 2
  BY <1>1, ChainFacts
<1>3. count \in 1 .. CountMax /\ count \in 0 .. CountMax /\ Len(s) \in 0 .. CountMax
  BY <1>2, Numbers DEF CountMax
<1>4. count * UnitsPerCluster \in 0 .. Span /\ Len(s) * UnitsPerCluster \in 0 .. Span
  BY <1>3, SpanBounds
<1>5. Length * UnitsPerCluster = Len(s) * UnitsPerCluster + UnitsPerCluster
  BY <1>2, Numbers DEF Length
<1>6. UnitsPerCluster * Len(s) = Len(s) * UnitsPerCluster
  BY <1>2, Numbers
<1>7. want # Zero => want.nbytes \in 0 .. UnitsPerCluster * Len(s)
  BY DEF Aim
<1>8. want # Zero => want.nbytes \in 0 .. Span
  BY <1>4, <1>6, <1>7, Numbers
<1>. QED  BY <1>2, <1>3, <1>4, <1>5, <1>8 DEF BufferUnits, Length

LEMMA NowhereUnits ==
  ASSUME Nowhere, count = 2
  PROVE  BufferUnits \in 0 .. Span
<1>1. 2 \in 0 .. CountMax
  BY Numbers DEF CountMax
<1>2. 2 * UnitsPerCluster \in 0 .. Span
  BY <1>1, SpanBounds
<1>. QED  BY <1>2, Numbers DEF Nowhere, BufferUnits, Length

LEMMA Room ==
  ASSUME Budget
  PROVE  /\ pc = "idle" => top <= HeapUnits
         /\ pc = "count" => top + Span + 1 <= HeapUnits
         /\ pc \in {"copy", "use"} => buf \in Nat /\ buf + Span + 1 <= HeapUnits
<1>1. calls \in Nat /\ calls <= MaxCalls /\ top \in Nat
  BY DEF Budget
<1>2. calls * CallUnits \in Nat /\ calls * CallUnits <= HeapUnits
  BY <1>1, CallsFit
<1>3. CASE pc = "idle"
  BY <1>1, <1>2, <1>3, Numbers DEF Budget
<1>. DEFINE base == (calls - 1) * CallUnits
<1>4. calls > 0 => base \in Nat /\ calls * CallUnits = base + 2 * Span + 2
  BY <1>1, CallsFit
<1>5. CASE pc = "count"
  <2>1. calls > 0 /\ top <= base + (IF want = Zero THEN 0 ELSE Span + 1)
    BY <1>5 DEF Budget
  <2>. HIDE DEF base
  <2>. QED  BY <1>1, <1>2, <1>4, <1>5, <2>1, Numbers
<1>6. CASE pc \in {"copy", "use"}
  <2>1. calls > 0 /\ buf \in Nat /\ buf <= base + (IF want = Zero THEN 0 ELSE Span + 1)
    BY <1>6 DEF Budget
  <2>. HIDE DEF base
  <2>. QED  BY <1>1, <1>2, <1>4, <1>6, <2>1, Numbers
<1>. QED  BY <1>3, <1>5, <1>6

------------------------------------------------------------------------------
(* What a full copy holds. *)

LEMMA DiskUnit ==
  ASSUME DiskSound, NEW s \in layout.chains, NEW j \in 1 .. Len(s), NEW u \in 1 .. UnitsPerCluster
  PROVE  /\ disk[s[j]][u] = Unit(layout, s[j], u) /\ Len(disk[s[j]]) = UnitsPerCluster
<1>1. s[j] \in Cluster
  BY ChainFacts DEF DiskSound
<1>2. disk[s[j]] = [i \in 1 .. UnitsPerCluster |-> Unit(layout, s[j], i)]
  BY <1>1 DEF DiskSound
<1>3. disk[s[j]] = [i \in 1 .. UnitsPerCluster |-> disk[s[j]][i]]
  BY <1>2
<1>4. Len(disk[s[j]]) = UnitsPerCluster
  BY <1>3, Numbers, LenOfFunction
<1>. QED  BY <1>2, <1>4

(* A directory's: its entries, and zeros. *)
LEMMA DirentsAreEntries ==
  ASSUME DiskSound, want = Zero, NEW s, Aim(s), CopyAt(s, Len(s) + 1)
  PROVE  /\ Start = call.dir /\ call.dir \in DOMAIN layout.ents
         /\ TrueEntries(call.dir) = layout.ents[call.dir]
         /\ Len(Dirents) = Length * UnitsPerCluster
         /\ Len(layout.ents[call.dir]) \in Nat
         /\ Len(layout.ents[call.dir]) <= Length * UnitsPerCluster
         /\ \A k \in 1 .. Len(Dirents) :
                Dirents[k] = IF k <= Len(layout.ents[call.dir])
                             THEN layout.ents[call.dir][k] ELSE Zero
<1>. DEFINE ents == layout.ents[call.dir]
            n == Length * UnitsPerCluster
<1>1. /\ s \in layout.chains /\ s[1] = call.dir /\ Start = call.dir
      /\ call.dir \in DOMAIN layout.ents /\ layout \in Layouts /\ count = Len(s) + 1
  BY DEF Aim, Start, DiskSound, CopyAt
<1>2. Len(ents) \in Nat
  BY <1>1, EntriesLen
<1>3. /\ Len(s) \in Nat \ {0} /\ Len(s) * UnitsPerCluster \in Nat /\ n \in Nat
      /\ n = Len(s) * UnitsPerCluster + UnitsPerCluster
  BY <1>1, AimedUnits, Numbers
<1>4. Len(ents) <= Len(s) * UnitsPerCluster
  <2>1. PICK t \in layout.chains : t[1] = call.dir /\ Len(ents) <= UnitsPerCluster * Len(t)
    BY <1>1, DiskAssumption
  <2>2. Len(t) \in Nat \ {0}
    BY <1>1, ChainFacts
  <2>3. 1 \in 1 .. Len(t) /\ 1 \in 1 .. Len(s)
    BY <1>3, <2>2
  <2>4. t = s
    BY <1>1, <2>1, <2>3, ChainUnique
  <2>5. UnitsPerCluster * Len(s) = Len(s) * UnitsPerCluster
    BY <1>3, Numbers
  <2>. QED  BY <2>1, <2>4, <2>5
<1>5. Dirents = [k \in 1 .. n |-> heap[buf + k - 1]]
  BY DEF Dirents, Mem
<1>6. Len(Dirents) = n
  <2>. HIDE DEF n
  <2>1. Dirents = [k \in 1 .. n |-> Dirents[k]]
    BY <1>5
  <2>. QED  BY <1>3, <2>1, LenOfFunction
<1>7. ASSUME NEW k \in 1 .. n
      PROVE  heap[buf + k - 1] = IF k <= Len(ents) THEN ents[k] ELSE Zero
  <2>1. Len(s) + 1 \in Nat /\ n = (Len(s) + 1) * UnitsPerCluster
    BY <1>1, <1>3 DEF Length
  <2>2. PICK j \in 1 .. Len(s) + 1, u \in 1 .. UnitsPerCluster :
            k = (j - 1) * UnitsPerCluster + u
    <3>. HIDE DEF n
    <3>1. k \in 1 .. (Len(s) + 1) * UnitsPerCluster
      BY <2>1
    <3>. QED  BY ONLY <2>1, <3>1, UnitOfCluster, Numbers
  <2>3. CASE j <= Len(s)
    <3>1. j \in 1 .. Len(s) /\ j \in 1 .. (Len(s) + 1) - 1
      BY <1>3, <2>3
    <3>2. heap[buf + ((j - 1) * UnitsPerCluster + u) - 1] = disk[s[j]][u]
      BY <3>1 DEF CopyAt
    <3>3. disk[s[j]][u] = Unit(layout, s[j], u)
      BY <1>1, <3>1, DiskUnit
    <3>4. Unit(layout, s[j], u) = IF k <= Len(ents) THEN ents[k] ELSE Zero
      BY <1>1, <2>2, <3>1, UnitOfChain
    <3>. QED  BY <2>2, <3>2, <3>3, <3>4
  <2>4. CASE ~(j <= Len(s))
    <3>1. j - 1 = Len(s)
      BY <1>3, <2>4
    <3>2. k = Len(s) * UnitsPerCluster + u
      BY <2>2, <3>1
    <3>3. heap[buf + (Len(s) * UnitsPerCluster + u) - 1] = Zero
      BY DEF CopyAt
    <3>4. ~(k <= Len(ents))
      BY <1>2, <1>3, <1>4, <3>2
    <3>. QED  BY <3>2, <3>3, <3>4
  <2>. QED  BY <2>3, <2>4
<1>8. \A k \in 1 .. Len(Dirents) : Dirents[k] = IF k <= Len(ents) THEN ents[k] ELSE Zero
  BY <1>5, <1>6, <1>7
<1>9. Len(ents) <= n
  BY <1>2, <1>3, <1>4, Numbers
<1>. QED  BY <1>1, <1>2, <1>6, <1>8, <1>9 DEF TrueEntries

LEMMA DivideUnits ==
  ASSUME NEW q \in Nat, NEW n \in Nat \ {0}, NEW r \in 0 .. n - 1
  PROVE  (q * n + r) \div n = q /\ (q * n + r) % n = r
OBVIOUS

(* A file's: as many units of its clusters as it has. *)
LEMMA DataIsFile ==
  ASSUME DiskSound, want # Zero, NEW s, Aim(s), CopyAt(s, Len(s) + 1)
  PROVE  want.nbytes \in Nat /\ Mem(buf, want.nbytes) = TrueData(want)
<1>1. /\ s \in layout.chains /\ s[1] = want.cluster /\ layout \in Layouts
      /\ want.nbytes \in 0 .. UnitsPerCluster * Len(s)
      /\ want.nbytes > 0 => s[1] \notin DOMAIN layout.ents
  BY DEF Aim, Start, DiskSound
<1>2. Len(s) \in Nat \ {0}
  BY <1>1, ChainFacts
<1>3. (CHOOSE x \in layout.chains : x[1] = want.cluster) = s
  <2>1. ASSUME NEW x \in layout.chains, x[1] = want.cluster PROVE x = s
    <3>1. Len(x) \in Nat \ {0}
      BY <1>1, ChainFacts
    <3>2. 1 \in 1 .. Len(x) /\ 1 \in 1 .. Len(s)
      BY <1>2, <3>1
    <3>. QED  BY <1>1, <2>1, <3>2, ChainUnique
  <2>. QED  BY <1>1, <2>1
<1>. DEFINE D(i) == [kind |-> "data", cluster |-> s[(i - 1) \div UnitsPerCluster + 1],
                     unit |-> ((i - 1) % UnitsPerCluster) + 1]
<1>4. ASSUME NEW i \in 1 .. want.nbytes PROVE heap[buf + i - 1] = D(i)
  <2>1. i \in 1 .. Len(s) * UnitsPerCluster
    <3>1. UnitsPerCluster * Len(s) = Len(s) * UnitsPerCluster /\ Len(s) * UnitsPerCluster \in Nat
      BY <1>2, Numbers
    <3>. QED  BY <1>1, <3>1
  <2>2. PICK j \in 1 .. Len(s), u \in 1 .. UnitsPerCluster : i = (j - 1) * UnitsPerCluster + u
    BY <1>2, <2>1, UnitOfCluster, Numbers
  <2>3. j \in 1 .. (Len(s) + 1) - 1
    BY <1>2
  <2>4. heap[buf + ((j - 1) * UnitsPerCluster + u) - 1] = disk[s[j]][u]
    BY <2>3 DEF CopyAt
  <2>5. disk[s[j]][u] = Unit(layout, s[j], u)
    BY <1>1, DiskUnit
  <2>6. want.nbytes > 0
    BY <1>1
  <2>7. Unit(layout, s[j], u) = [kind |-> "data", cluster |-> s[j], unit |-> u]
    BY <1>1, <2>6, UnitOfChain
  <2>8. (i - 1) \div UnitsPerCluster = j - 1 /\ (i - 1) % UnitsPerCluster = u - 1
    <3>. DEFINE q == j - 1
                r == u - 1
    <3>1. q \in Nat /\ r \in 0 .. UnitsPerCluster - 1
      BY <1>2, Numbers
    <3>2. i - 1 = q * UnitsPerCluster + r
      BY <2>2, <3>1, Numbers
    <3>. HIDE DEF q, r
    <3>3. /\ (q * UnitsPerCluster + r) \div UnitsPerCluster = q
          /\ (q * UnitsPerCluster + r) % UnitsPerCluster = r
      BY <3>1, DivideUnits, Numbers
    <3>4. (i - 1) \div UnitsPerCluster = q /\ (i - 1) % UnitsPerCluster = r
      BY <3>2, <3>3
    <3>. QED  BY <3>4 DEF q, r
  <2>9. (j - 1) + 1 = j /\ (u - 1) + 1 = u
    BY <1>2, Numbers
  <2>. QED  BY <2>2, <2>4, <2>5, <2>7, <2>8, <2>9
<1>5. Mem(buf, want.nbytes) = [i \in 1 .. want.nbytes |-> heap[buf + i - 1]]
  BY DEF Mem
<1>6. want.nbytes \in Nat
  BY <1>1
<1>7. CASE want.nbytes = 0
  BY <1>5, <1>7 DEF TrueData
<1>8. CASE want.nbytes # 0
  <2>1. TrueData(want) = [i \in 1 .. want.nbytes |-> D(i)]
    BY <1>3, <1>8 DEF TrueData
  <2>2. \A i \in 1 .. want.nbytes : heap[buf + i - 1] = D(i)
    BY <1>4
  <2>. HIDE DEF D
  <2>. QED  BY <1>5, <1>6, <2>1, <2>2
<1>. QED  BY <1>6, <1>7, <1>8

------------------------------------------------------------------------------
(* The steps with an undamaged table. *)

\* the first cluster of what a walk is told to walk
LEMMA Begins ==
  ASSUME layout \in Layouts, layout' = layout, count' = 1, cluster' = Start',
         IF want' = Zero THEN Start' \in DOMAIN layout.ents \cup {0}
         ELSE \E d : want' = Convert(d) /\ OnDisk(layout, d)
  PROVE  CountingDisk'
<1>1. ASSUME NEW s \in layout.chains, Aim(s)' PROVE CountingDisk'
  <2>1. s[1] = Start' /\ Len(s) \in Nat \ {0}
    BY <1>1, ChainFacts DEF Aim
  <2>2. Link(s, 1) = s[1] /\ 1 \in 1 .. Len(s) + 1
    BY <2>1 DEF Link
  <2>. QED  BY <1>1, <2>1, <2>2 DEF CountingDisk
<1>2. Nowhere' => CountingDisk'
  <2>. SUFFICES ASSUME Nowhere' PROVE CountingDisk'
    OBVIOUS
  <2>1. cluster' = 0
    BY DEF Nowhere
  <2>. QED  BY <2>1 DEF CountingDisk
<1>3. CASE want' = Zero
  <2>1. CASE Start' = 0
    BY <1>2, <1>3, <2>1 DEF Nowhere
  <2>2. CASE Start' # 0
    <3>1. Start' \in DOMAIN layout.ents
      BY <1>3, <2>2
    <3>2. PICK s \in layout.chains : s[1] = Start'
      BY <3>1, DiskAssumption
    <3>3. Aim(s)'
      BY <1>3, <3>1, <3>2 DEF Aim
    <3>. QED  BY <1>1, <3>3
  <2>. QED  BY <2>1, <2>2
<1>4. CASE want' # Zero
  <2>1. PICK d : want' = Convert(d) /\ OnDisk(layout, d)
    BY <1>4
  <2>2. want'.cluster = d.first /\ want'.nbytes = d.n
    BY <2>1 DEF Convert
  <2>3. Start' = d.first
    BY <1>4, <2>2 DEF Start
  <2>4. CASE d.first = 0 /\ d.n = 0
    BY <1>2, <2>2, <2>3, <2>4 DEF Nowhere
  <2>5. ASSUME NEW s \in layout.chains, s[1] = d.first, d.n \in 0 .. UnitsPerCluster * Len(s),
               d.n > 0 => d.first \notin DOMAIN layout.ents
        PROVE  CountingDisk'
    <3>1. Aim(s)'
      BY <1>4, <2>2, <2>3, <2>5 DEF Aim
    <3>. QED  BY <1>1, <3>1
  <2>6. CASE ~(d.first = 0 /\ d.n = 0)
    <3>1. PICK s \in layout.chains : /\ s[1] = d.first /\ d.n \in 0 .. UnitsPerCluster * Len(s)
                                     /\ d.n > 0 => d.first \notin DOMAIN layout.ents
      <4>1. OnDisk(layout, d)
        BY <2>1
      <4>. QED  BY <2>6, <4>1 DEF OnDisk
    <3>. QED  BY <2>5, <3>1
  <2>. QED  BY <2>4, <2>6
<1>. QED  BY <1>3, <1>4

LEMMA CallGood ==
  ASSUME Sound, Intact, NEW op \in {"readdir", "stat", "read"}, NEW dir, NEW name \in Names,
         Call(op, dir, name)
  PROVE  Good'
<1>1. Good /\ layout \in Layouts
  BY DEF Sound, DiskSound
<1>2. /\ pc = "idle" /\ calls < MaxCalls /\ dir \in KnownDir
      /\ call' = [op |-> op, dir |-> dir, name |-> name]
      /\ calls' = calls + 1 /\ pc' = "count" /\ cluster' = dir /\ count' = 1 /\ want' = Zero
      /\ layout' = layout /\ heap' = heap /\ top' = top /\ results' = results
  BY DEF Call, fsVars
<1>3. dir \in DOMAIN layout.ents \cup {0}
  <2>1. CASE dir = Root
    BY <1>1, <2>1, DiskAssumption
  <2>2. CASE dir # Root
    <3>1. PICK r \in results : \E e \in ToSet(r.val) :
                        e.kind = "dirent" /\ e.is_dir /\ dir = e.cluster
      BY <1>2, <2>2 DEF KnownDir
    <3>2. Returned(r)
      BY <1>1 DEF Good
    <3>. QED  BY <3>1, <3>2 DEF Returned
  <2>. QED  BY <2>1, <2>2
<1>4. Start' = dir
  BY <1>2 DEF Start
<1>5. CountingDisk'
  BY <1>1, <1>2, <1>3, <1>4, Begins
<1>6. WalksDisk'
  BY <1>2, <1>5 DEF WalksDisk
<1>7. CallSound'
  BY <1>2, <1>3 DEF CallSound
<1>8. Budget'
  <2>1. top \in Nat /\ calls \in Nat /\ calls <= MaxCalls /\ top <= calls * CallUnits
    BY <1>1, <1>2 DEF Good, Budget
  <2>2. calls' \in Nat /\ calls' <= MaxCalls /\ calls' > 0 /\ calls' - 1 = calls
    BY <1>2, <2>1, Numbers
  <2>. QED  BY <1>2, <2>1, <2>2, CallsFit DEF Budget
<1>9. FailuresExplained'
  BY <1>2 DEF FailuresExplained
<1>10. \A r \in results' : Returned(r)'
  <2>1. Limit = top /\ Limit' = top
    BY <1>2 DEF Limit
  <2>2. top \in Nat
    BY <1>1 DEF Good, Budget
  <2>. QED  BY <1>1, <1>2, <2>1, <2>2, ReturnedKept DEF Good
<1>. QED  BY <1>6, <1>7, <1>8, <1>9, <1>10 DEF Good

LEMMA CountStepGood ==
  ASSUME Sound, Intact, CountStep
  PROVE  Good'
<1>1. Good /\ layout \in Layouts /\ DOMAIN fat = Index /\ CountingDisk
  BY DEF Sound, DiskSound, Good, WalksDisk, CountStep, Index
<1>2. /\ pc = "count" /\ cluster # LAST_CLUSTER
      /\ count' = (IF count < CountMax THEN count + 1 ELSE count)
      /\ layout' = layout /\ fat' = fat /\ heap' = heap /\ top' = top /\ call' = call
      /\ want' = want /\ results' = results /\ calls' = calls /\ buf' = buf
      /\ cluster \in Index => cluster' = fat[cluster] /\ pc' = pc
  BY <1>1 DEF CountStep, fsVars
<1>3. Start' = Start
  BY <1>2 DEF Start
<1>4. cluster \in Index /\ CountingDisk'
  <2>1. CASE Nowhere /\ <<count, cluster>> \in {<<1, 0>>, <<2, LAST_CLUSTER>>}
    <3>1. count = 1 /\ cluster = 0
      BY <1>2, <2>1
    <3>2. 0 \in Index /\ 1 < CountMax
      BY Numbers DEF Index, CountMax
    <3>3. fat[0] = LAST_CLUSTER
      <4>1. TableEntry(layout.chains, 0) = LAST_CLUSTER
        BY DEF TableEntry
      <4>2. fat[0] = TableEntry(layout.chains, 0)
        BY <3>2 DEF Intact, Index
      <4>. QED  BY <4>1, <4>2
    <3>4. count' = 2 /\ cluster' = LAST_CLUSTER
      BY <1>2, <3>1, <3>2, <3>3
    <3>5. Nowhere'
      BY <1>2, <1>3, <2>1 DEF Nowhere
    <3>. QED  BY <3>1, <3>2, <3>4, <3>5 DEF CountingDisk
  <2>2. ASSUME NEW s \in layout.chains, Aim(s), count \in 1 .. Len(s) + 1,
               cluster = Link(s, count)
        PROVE  cluster \in Index /\ CountingDisk'
    <3>1. Len(s) \in Nat \ {0} /\ Len(s) <= NClusters + 2
      BY <1>1, ChainFacts
    <3>2. count \in 1 .. Len(s) /\ cluster = s[count]
      BY <1>2, <2>2, <3>1 DEF Link
    <3>3. cluster \in Index
      <4>1. s[count] \in Cluster
        BY <1>1, <3>2, ChainFacts
      <4>. QED  BY <3>2, <4>1 DEF Cluster, Index
    <3>4. count' = count + 1
      BY <1>2, <3>1, <3>2, Numbers DEF CountMax
    <3>5. cluster' = Link(s, count + 1)
      BY <1>1, <1>2, <3>2, <3>3, TableFollows DEF Intact, Index
    <3>6. Aim(s)'
      BY <1>2, <1>3, <2>2 DEF Aim
    <3>7. count' \in 1 .. Len(s) + 1
      BY <3>1, <3>2, <3>4
    <3>. QED  BY <1>2, <3>3, <3>4, <3>5, <3>6, <3>7 DEF CountingDisk
  <2>. QED  BY <1>1, <2>1, <2>2 DEF CountingDisk
<1>5. pc' = "count"
  BY <1>2, <1>4
<1>6. WalksDisk'
  BY <1>4, <1>5 DEF WalksDisk
<1>7. CallSound'
  BY <1>1, <1>2, <1>5 DEF Good, CallSound
<1>8. Budget'
  BY <1>1, <1>2, <1>5 DEF Good, Budget
<1>9. FailuresExplained'
  BY <1>5 DEF FailuresExplained
<1>10. \A r \in results' : Returned(r)'
  <2>1. Limit = top /\ Limit' = top
    BY <1>2, <1>5 DEF Limit
  <2>2. top \in Nat
    BY <1>1 DEF Good, Budget
  <2>. QED  BY <1>1, <1>2, <2>1, <2>2, ReturnedKept DEF Good
<1>. QED  BY <1>6, <1>7, <1>8, <1>9, <1>10 DEF Good

LEMMA ZerosLen ==
  ASSUME NEW n \in Nat
  PROVE  Len([i \in 1 .. n |-> Zero]) = n
<1>. DEFINE f == [i \in 1 .. n |-> Zero]
<1>1. f = [i \in 1 .. n |-> f[i]]
  OBVIOUS
<1>. HIDE DEF f
<1>2. Len(f) = n
  BY <1>1, LenOfFunction
<1>. QED  BY <1>2 DEF f

LEMMA CountEndGood ==
  ASSUME Sound, Intact, CountEnd
  PROVE  Good'
<1>. DEFINE zeros == [i \in 1 .. BufferUnits |-> Zero]
<1>1. Good /\ layout \in Layouts /\ CountingDisk /\ DOMAIN heap = 0 .. HeapUnits - 1
  BY DEF Sound, DiskSound, Good, WalksDisk, CountEnd
<1>2. /\ pc = "count" /\ cluster = LAST_CLUSTER
      /\ top' = top + BufferUnits /\ heap' = Put(heap, top, zeros)
      /\ buf' = top /\ at' = 0 /\ cluster' = Start /\ pc' = "copy"
      /\ layout' = layout /\ call' = call /\ want' = want /\ count' = count
      /\ results' = results /\ calls' = calls
  BY DEF CountEnd, Kmalloc, fsVars
<1>. HIDE DEF zeros
<1>3. Start' = Start /\ BufferUnits' = BufferUnits
  BY <1>2 DEF Start, BufferUnits, Length
<1>4. top \in Nat /\ top + Span + 1 <= HeapUnits
  BY <1>1, <1>2, Room DEF Good, Budget
<1>5. BufferUnits \in 0 .. Span /\ CopyingDisk'
  <2>1. CASE Nowhere /\ <<count, cluster>> \in {<<1, 0>>, <<2, LAST_CLUSTER>>}
    <3>1. count = 2
      BY <1>2, <2>1, Numbers DEF LAST_CLUSTER
    <3>2. Start = 0
      BY <2>1 DEF Nowhere
    <3>3. Nowhere' /\ cluster' = 0 /\ count' = 2
      BY <1>2, <1>3, <2>1, <3>1, <3>2 DEF Nowhere
    <3>. QED  BY <2>1, <3>1, <3>3, NowhereUnits DEF CopyingDisk
  <2>2. ASSUME NEW s \in layout.chains, Aim(s), count \in 1 .. Len(s) + 1,
               cluster = Link(s, count)
        PROVE  BufferUnits \in 0 .. Span /\ CopyingDisk'
    <3>1. Len(s) \in Nat \ {0}
      BY <1>1, ChainFacts
    <3>2. count = Len(s) + 1
      <4>. SUFFICES ASSUME count # Len(s) + 1 PROVE FALSE
        OBVIOUS
      <4>1. count \in 1 .. Len(s) /\ cluster = s[count]
        BY <2>2, <3>1 DEF Link
      <4>2. cluster \in Cluster
        BY <1>1, <4>1, ChainFacts
      <4>. QED  BY <1>2, <4>2, Numbers DEF Cluster, LAST_CLUSTER
    <3>3. /\ BufferUnits \in 0 .. Span /\ Len(s) * UnitsPerCluster \in Nat
          /\ Length * UnitsPerCluster = Len(s) * UnitsPerCluster + UnitsPerCluster
      BY <1>1, <2>2, <3>2, AimedUnits
    <3>4. Aim(s)'
      BY <1>2, <1>3, <2>2 DEF Aim
    <3>5. cluster' = s[1] /\ 1 \in 1 .. Len(s)
      BY <1>2, <2>2, <3>1 DEF Aim
    <3>6. ASSUME want = Zero, NEW u \in 1 .. UnitsPerCluster
          PROVE  heap'[buf' + (Len(s) * UnitsPerCluster + u) - 1] = Zero
      <4>. DEFINE k == Len(s) * UnitsPerCluster + u
      <4>1. BufferUnits = Length * UnitsPerCluster
        BY <3>6 DEF BufferUnits
      <4>2. k \in 1 .. BufferUnits
        BY <3>3, <4>1, Numbers
      <4>3. Len(zeros) = BufferUnits /\ zeros[k] = Zero
        BY <3>3, <4>2, Numbers, ZerosLen DEF zeros
      <4>. HIDE DEF k
      <4>4. top + k - 1 \in 0 .. HeapUnits - 1
        BY <1>4, <3>3, <4>2, Numbers
      <4>5. Len(zeros) \in Nat /\ k \in 1 .. Len(zeros)
        BY <3>3, <4>2, <4>3, Numbers
      <4>6. Put(heap, top, zeros)[top + k - 1] = zeros[k]
        BY <1>1, <1>4, <4>4, <4>5, PutThere
      <4>. QED  BY <1>2, <4>3, <4>6 DEF k
    <3>7. at' = (1 - 1) * UnitsPerCluster
      BY <1>2, Numbers
    <3>8. CopyAt(s, 1)'
      <4>1. \A j \in 1 .. 1 - 1 : FALSE
        OBVIOUS
      <4>. QED  BY <1>2, <3>2, <3>6, <3>7, <4>1 DEF CopyAt
    <3>. QED  BY <1>2, <3>3, <3>4, <3>5, <3>8 DEF CopyingDisk
  <2>. QED  BY <1>1, <2>1, <2>2 DEF CountingDisk
<1>6. WalksDisk'
  BY <1>2, <1>5 DEF WalksDisk
<1>7. CallSound'
  BY <1>1, <1>2 DEF Good, CallSound
<1>8. Budget'
  <2>1. top' \in Nat /\ top' = buf' + BufferUnits'
    BY <1>2, <1>3, <1>4, <1>5, Numbers
  <2>. QED  BY <1>1, <1>2, <1>4, <2>1 DEF Good, Budget
<1>9. FailuresExplained'
  BY <1>2 DEF FailuresExplained
<1>10. \A r \in results' : Returned(r)'
  <2>1. Limit = top /\ Limit' = top
    BY <1>2 DEF Limit
  <2>2. Len(zeros) \in Nat
    BY <1>5, Numbers, ZerosLen DEF zeros
  <2>3. \A x \in 0 .. top - 1 : heap'[x] = heap[x]
    <3>1. top <= HeapUnits
      BY <1>4, Numbers
    <3>. QED  BY <1>1, <1>2, <1>4, <2>2, <3>1, WrittenAbove
  <2>. QED  BY <1>1, <1>2, <1>4, <2>1, <2>3, ReturnedKept DEF Good
<1>. QED  BY <1>6, <1>7, <1>8, <1>9, <1>10 DEF Good

(* One cluster more in the buffer. *)
LEMMA CopyGrows ==
  ASSUME layout \in Layouts, DiskSound, DOMAIN heap = 0 .. HeapUnits - 1,
         NEW s, Aim(s), NEW i \in 1 .. Len(s), CopyAt(s, i),
         buf \in Nat, buf + Span + 1 <= HeapUnits,
         heap' = Put(heap, buf + at, disk[s[i]]), at' = at + UnitsPerCluster,
         buf' = buf, count' = count, want' = want, disk' = disk
  PROVE  CopyAt(s, i + 1)'
<1>. DEFINE U == UnitsPerCluster
            a == buf + at
<1>1. s \in layout.chains /\ count = Len(s) + 1 /\ at = (i - 1) * U
  BY DEF Aim, CopyAt
<1>2. /\ Len(s) \in Nat \ {0} /\ Len(s) * U \in Nat /\ Len(s) * U + U <= Span /\ U \in Nat \ {0}
  <2>1. /\ Len(s) \in Nat \ {0} /\ Len(s) * UnitsPerCluster \in Nat
        /\ Length * UnitsPerCluster = Len(s) * UnitsPerCluster + UnitsPerCluster
        /\ Length * UnitsPerCluster \in 0 .. Span
    BY <1>1, AimedUnits
  <2>. HIDE DEF U
  <2>. QED  BY <2>1, Numbers DEF U
<1>3. i - 1 \in Nat /\ at \in Nat /\ a \in Nat
  BY <1>1, <1>2
<1>4. i * U = at + U /\ i * U <= Len(s) * U
  <2>1. i * U = (i - 1) * U + U
    BY <1>2
  <2>2. Len(s) * U - i * U = (Len(s) - i) * U
    BY <1>2
  <2>3. (Len(s) - i) * U \in Nat
    <3>1. Len(s) - i \in Nat
      BY <1>2
    <3>. QED  BY <1>2, <3>1
  <2>4. i * U \in Nat
    BY <1>2
  <2>. QED  BY <1>1, <1>2, <2>1, <2>2, <2>3, <2>4
<1>5. Len(disk[s[i]]) = U
  <2>1. 1 \in 1 .. UnitsPerCluster
    BY Numbers
  <2>. QED  BY <1>1, <2>1, DiskUnit
<1>. HIDE DEF U, a
<1>6. /\ \A x \in 0 .. HeapUnits - 1 : x < a \/ x >= a + U => heap'[x] = heap[x]
      /\ \A u \in 1 .. U : a + u - 1 \in 0 .. HeapUnits - 1 => heap'[a + u - 1] = disk[s[i]][u]
  <2>. DEFINE d == disk[s[i]]
  <2>1. Len(d) \in Nat /\ heap' = Put(heap, a, d)
    BY <1>2, <1>5 DEF a
  <2>2. ASSUME NEW x \in 0 .. HeapUnits - 1, x < a \/ x >= a + U PROVE heap'[x] = heap[x]
    <3>. HIDE DEF d
    <3>1. Put(heap, a, d)[x] = heap[x]
      BY <1>3, <1>5, <2>1, <2>2, PutElsewhere DEF d
    <3>. QED  BY <2>1, <3>1
  <2>3. ASSUME NEW u \in 1 .. U, a + u - 1 \in 0 .. HeapUnits - 1 PROVE heap'[a + u - 1] = d[u]
    <3>. HIDE DEF d
    <3>1. u \in 1 .. Len(d)
      BY <1>5 DEF d
    <3>2. Put(heap, a, d)[a + u - 1] = d[u]
      BY <1>3, <2>1, <2>3, <3>1, PutThere
    <3>. QED  BY <2>1, <3>2
  <2>. QED  BY <2>2, <2>3
<1>7. at' = ((i + 1) - 1) * U
  BY <1>4 DEF U
<1>8. ASSUME NEW j \in 1 .. (i + 1) - 1, NEW u \in 1 .. U
      PROVE  heap'[buf + ((j - 1) * U + u) - 1] = disk[s[j]][u]
  <2>1. CASE j = i
    <3>1. (j - 1) * U = at
      BY <1>1, <2>1
    <3>2. buf + ((j - 1) * U + u) - 1 = a + u - 1
      BY <1>2, <1>3, <3>1 DEF a
    <3>3. a + u - 1 \in 0 .. HeapUnits - 1
      BY <1>2, <1>3, <1>4, Numbers DEF a
    <3>. QED  BY <1>6, <2>1, <3>2, <3>3
  <2>2. CASE j # i
    <3>1. j \in 1 .. i - 1 /\ j - 1 \in Nat
      BY <2>2
    <3>2. heap[buf + ((j - 1) * U + u) - 1] = disk[s[j]][u]
      BY <3>1 DEF CopyAt, U
    <3>. DEFINE k == (j - 1) * U + u
    <3>3. k \in Nat /\ k > 0 /\ k <= at
      <4>1. (j - 1) * U \in Nat
        BY <1>2, <3>1
      <4>2. at - ((j - 1) * U + U) = (i - 1 - j) * U
        BY <1>1, <1>2, <3>1
      <4>3. (i - 1 - j) * U \in Nat
        <5>1. i - 1 - j \in Nat
          BY <3>1
        <5>. QED  BY <1>2, <5>1
      <4>. QED  BY <1>2, <1>3, <4>1, <4>2, <4>3
    <3>. HIDE DEF k
    <3>4. buf + k - 1 \in 0 .. HeapUnits - 1 /\ buf + k - 1 < a
      BY <1>2, <1>3, <1>4, <3>3, Numbers DEF a
    <3>. QED  BY <1>6, <3>2, <3>4 DEF k
  <2>. QED  BY <2>1, <2>2
<1>9. ASSUME want = Zero, NEW u \in 1 .. U
      PROVE  heap'[buf + (Len(s) * U + u) - 1] = Zero
  <2>1. heap[buf + (Len(s) * U + u) - 1] = Zero
    BY <1>9 DEF CopyAt, U
  <2>2. buf + (Len(s) * U + u) - 1 \in 0 .. HeapUnits - 1
        /\ buf + (Len(s) * U + u) - 1 >= a + U
    BY <1>2, <1>3, <1>4, Numbers DEF a
  <2>. QED  BY <1>6, <2>1, <2>2
<1>. QED  BY <1>1, <1>7, <1>8, <1>9 DEF CopyAt, U

LEMMA CopyStepGood ==
  ASSUME Sound, Intact, CopyStep
  PROVE  Good'
<1>1. Good /\ DiskSound /\ layout \in Layouts /\ CopyingDisk /\ DOMAIN heap = 0 .. HeapUnits - 1
  BY DEF Sound, DiskSound, Good, WalksDisk, CopyStep
<1>2. /\ pc = "copy" /\ layout' = layout /\ disk' = disk /\ fat' = fat /\ top' = top /\ call' = call
      /\ want' = want /\ count' = count /\ buf' = buf /\ results' = results /\ calls' = calls
  BY DEF CopyStep, fsVars
<1>3. Start' = Start /\ BufferUnits' = BufferUnits
  BY <1>2 DEF Start, BufferUnits, Length
<1>4. /\ buf \in Nat /\ buf + Span + 1 <= HeapUnits /\ top = buf + BufferUnits /\ top \in Nat
      /\ calls \in Nat /\ calls <= MaxCalls /\ calls > 0
      /\ buf <= (calls - 1) * CallUnits + (IF want = Zero THEN 0 ELSE Span + 1)
  BY <1>1, <1>2, Room DEF Good, Budget
<1>5. CASE Nowhere /\ cluster = 0 /\ count = 2
  <2>1. cluster \notin Cluster /\ cluster < 2
    BY <1>5 DEF Cluster
  <2>2. pc' = "assert" /\ heap' = heap
    BY <2>1 DEF CopyStep
  <2>3. BufferUnits \in 0 .. Span
    BY <1>5, NowhereUnits
  <2>4. WalksDisk' /\ CallSound'
    BY <2>2 DEF WalksDisk, CallSound
  <2>5. Budget'
    <3>. DEFINE base == (calls - 1) * CallUnits
    <3>1. base \in Nat /\ calls * CallUnits = base + 2 * Span + 2
      BY <1>4, CallsFit
    <3>2. buf <= base + Span + 1
      <4>. HIDE DEF base
      <4>1. buf <= base + (IF want = Zero THEN 0 ELSE Span + 1)
        BY <1>4 DEF base
      <4>. QED  BY <1>4, <3>1, <4>1, Numbers
    <3>. HIDE DEF base
    <3>3. top <= calls * CallUnits
      BY <1>4, <2>3, <3>1, <3>2, Numbers
    <3>. QED  BY <1>2, <1>4, <2>2, <3>3 DEF Budget
  <2>6. FailuresExplained'
    BY <1>3, <1>5, <2>2 DEF FailuresExplained, Nowhere
  <2>7. \A r \in results' : Returned(r)'
    <3>1. Limit = buf /\ Limit' = top
      BY <1>2, <2>2 DEF Limit
    <3>2. buf <= top
      BY <1>4, <2>3, Numbers
    <3>. QED  BY <1>1, <1>2, <1>4, <2>2, <3>1, <3>2, ReturnedKept DEF Good
  <2>. QED  BY <2>4, <2>5, <2>6, <2>7 DEF Good
<1>6. ASSUME NEW s \in layout.chains, Aim(s), NEW i \in 1 .. Len(s), cluster = s[i], CopyAt(s, i)
      PROVE  Good'
  <2>1. Len(s) \in Nat \ {0} /\ s[i] \in Cluster
    BY <1>1, ChainFacts
  <2>2. /\ heap' = Put(heap, buf + at, disk[s[i]]) /\ at' = at + UnitsPerCluster
        /\ cluster' = fat[s[i]]
        /\ fat[s[i]] = LAST_CLUSTER => pc' = "use"
        /\ fat[s[i]] \notin {LAST_CLUSTER, RESERVED_VALUE} => pc' = "copy"
    BY <1>6, <2>1, EndIsNotReserved DEF CopyStep
  <2>3. fat[s[i]] = Link(s, i + 1)
    <3>1. s[i] \in Index
      BY <2>1 DEF Cluster, Index
    <3>. QED  BY <1>1, <3>1, TableFollows DEF Intact, Index
  <2>4. CopyAt(s, i + 1)'
    BY <1>1, <1>2, <1>4, <1>6, <2>2, CopyGrows
  <2>5. Aim(s)'
    BY <1>2, <1>3, <1>6 DEF Aim
  <2>6. WalksDisk' /\ pc' \in {"copy", "use"}
    <3>1. CASE i = Len(s)
      <4>1. pc' = "use"
        BY <2>1, <2>2, <2>3, <3>1 DEF Link
      <4>. QED  BY <1>2, <2>4, <2>5, <3>1, <4>1 DEF WalksDisk, UsingDisk
    <3>2. CASE i # Len(s)
      <4>1. i + 1 \in 1 .. Len(s)
        BY <2>1, <3>2
      <4>2. fat[s[i]] = s[i + 1]
        BY <2>3, <4>1 DEF Link
      <4>3. s[i + 1] \in Cluster
        BY <1>1, <4>1, ChainFacts
      <4>4. s[i + 1] \notin {LAST_CLUSTER, RESERVED_VALUE}
        BY <4>3, Numbers DEF Cluster, LAST_CLUSTER, RESERVED_VALUE
      <4>5. pc' = "copy" /\ cluster' = s[i + 1]
        BY <2>2, <4>2, <4>4
      <4>. QED  BY <1>2, <2>4, <2>5, <4>1, <4>5 DEF WalksDisk, CopyingDisk
    <3>. QED  BY <3>1, <3>2
  <2>7. CallSound'
    BY <1>1, <1>2, <2>6 DEF Good, CallSound
  <2>8. Budget'
    BY <1>2, <1>3, <1>4, <2>6 DEF Budget
  <2>9. FailuresExplained'
    BY <2>6 DEF FailuresExplained
  <2>10. \A r \in results' : Returned(r)'
    <3>1. Limit = buf /\ Limit' = buf
      BY <1>2, <2>6 DEF Limit
    <3>2. /\ at \in Nat /\ Len(disk[s[i]]) \in Nat
      <4>1. i - 1 \in Nat /\ at = (i - 1) * UnitsPerCluster
        BY <1>6, <2>1 DEF CopyAt
      <4>2. Len(disk[s[i]]) = UnitsPerCluster
        BY <1>1, <1>6, Numbers, DiskUnit
      <4>. QED  BY <4>1, <4>2, Numbers
    <3>3. \A x \in 0 .. buf - 1 : heap'[x] = heap[x]
      <4>1. buf + at \in Nat /\ buf <= buf + at /\ buf <= HeapUnits
        BY <1>4, <3>2, Numbers
      <4>. QED  BY <1>1, <1>4, <2>2, <3>2, <4>1, WrittenAbove
    <3>. QED  BY <1>1, <1>2, <1>4, <3>1, <3>3, ReturnedKept DEF Good
  <2>. QED  BY <2>6, <2>7, <2>8, <2>9, <2>10 DEF Good
<1>. QED  BY <1>1, <1>5, <1>6 DEF CopyingDisk

(* What each of the last steps of a call starts from. *)
LEMMA UseFacts ==
  ASSUME Sound, Intact, pc = "use"
  PROVE  /\ Good /\ DiskSound /\ layout \in Layouts /\ DOMAIN heap = 0 .. HeapUnits - 1
         /\ buf \in Nat /\ top \in Nat /\ BufferUnits \in 0 .. Span /\ top = buf + BufferUnits
         /\ Length * UnitsPerCluster \in 0 .. Span
         /\ calls \in Nat /\ calls <= MaxCalls /\ calls > 0
         /\ (calls - 1) * CallUnits \in Nat
         /\ calls * CallUnits = (calls - 1) * CallUnits + 2 * Span + 2
         /\ calls * CallUnits \in Nat /\ calls * CallUnits <= HeapUnits
         /\ buf <= (calls - 1) * CallUnits + (IF want = Zero THEN 0 ELSE Span + 1)
         /\ \E s \in layout.chains : Aim(s) /\ CopyAt(s, Len(s) + 1)
<1>1. Good /\ DiskSound /\ layout \in Layouts /\ DOMAIN heap = 0 .. HeapUnits - 1
  BY DEF Sound, DiskSound
<1>2. PICK s \in layout.chains : Aim(s) /\ CopyAt(s, Len(s) + 1)
  BY <1>1 DEF Good, WalksDisk, UsingDisk
<1>3. BufferUnits \in 0 .. Span /\ Length * UnitsPerCluster \in 0 .. Span
  BY <1>1, <1>2, AimedUnits DEF CopyAt
<1>4. /\ buf \in Nat /\ top \in Nat /\ top = buf + BufferUnits
      /\ calls \in Nat /\ calls <= MaxCalls /\ calls > 0
      /\ buf <= (calls - 1) * CallUnits + (IF want = Zero THEN 0 ELSE Span + 1)
  BY <1>1 DEF Good, Budget
<1>. QED  BY <1>1, <1>2, <1>3, <1>4, CallsFit

(* An entry of a directory, as a client sees it. *)
LEMMA EntryKnown ==
  ASSUME NEW l \in Layouts, NEW d \in DOMAIN l.ents, NEW i \in 1 .. Len(l.ents[d])
  PROVE  LET e == Convert(l.ents[d][i]) IN
         /\ e.kind = "dirent" /\ e.is_dir => e.cluster \in DOMAIN l.ents \cup {0}
         /\ l.ents[d][i].name \in Names => OnDisk(l, l.ents[d][i])
<1>1. l.ents[d][i] \in ToSet(l.ents[d])
  BY EntriesLen
<1>. QED  BY <1>1, DiskAssumption DEF Convert

LEMMA ReadDirGood ==
  ASSUME Sound, Intact, ReadDir
  PROVE  Good'
<1>. DEFINE ents == layout.ents[call.dir]
            list == Listing(Dirents)
            n == Length * UnitsPerCluster
            units == [i \in 1 .. n |-> IF i <= Len(list) THEN list[i] ELSE Zero]
<1>1. /\ pc = "use" /\ call.op = "readdir"
      /\ top' = top + n /\ heap' = Put(heap, top, units)
      /\ results' = results \cup {[addr |-> top, n |-> Len(list),
                                   val |-> Listing(TrueEntries(call.dir))]}
      /\ pc' = "idle" /\ layout' = layout /\ call' = call /\ calls' = calls
  BY DEF ReadDir, Return, fsVars
<1>2. /\ Good /\ DiskSound /\ layout \in Layouts /\ DOMAIN heap = 0 .. HeapUnits - 1
      /\ buf \in Nat /\ top \in Nat /\ BufferUnits \in 0 .. Span /\ top = buf + BufferUnits
      /\ n \in 0 .. Span /\ calls \in Nat /\ calls <= MaxCalls /\ calls > 0
      /\ (calls - 1) * CallUnits \in Nat
      /\ calls * CallUnits = (calls - 1) * CallUnits + 2 * Span + 2
      /\ calls * CallUnits <= HeapUnits
      /\ buf <= (calls - 1) * CallUnits + (IF want = Zero THEN 0 ELSE Span + 1)
  BY <1>1, UseFacts
<1>3. want = Zero
  BY <1>1, <1>2 DEF Good, CallSound
<1>4. /\ call.dir \in DOMAIN layout.ents /\ TrueEntries(call.dir) = ents
      /\ Len(Dirents) = n /\ Len(ents) \in Nat /\ Len(ents) <= n
      /\ list = Listing(ents)
  <2>1. PICK s \in layout.chains : Aim(s) /\ CopyAt(s, Len(s) + 1)
    BY <1>1, UseFacts
  <2>2. /\ call.dir \in DOMAIN layout.ents /\ TrueEntries(call.dir) = ents
        /\ Len(Dirents) = n /\ Len(ents) \in Nat /\ Len(ents) <= n
        /\ \A k \in 1 .. Len(Dirents) : Dirents[k] = IF k <= Len(ents) THEN ents[k] ELSE Zero
    BY <1>2, <1>3, <2>1, DirentsAreEntries
  <2>. HIDE DEF ents, n
  <2>3. Len(Dirents) \in Nat
    BY <1>2, <2>2, Numbers
  <2>4. list = Listing(ents)
    BY <2>2, <2>3, ZerosDoNotCount
  <2>. QED  BY <2>2, <2>4
<1>. HIDE DEF ents, list, n
<1>5. /\ Len(list) \in 0 .. n /\ DOMAIN list = 1 .. Len(list)
      /\ \A k \in 1 .. Len(list) : \E i \in 1 .. Len(ents) : list[k] = Convert(ents[i])
  <2>1. /\ Cardinality(KeptAt(ents)) \in 0 .. Len(ents)
        /\ Len(list) = Cardinality(KeptAt(ents)) /\ DOMAIN list = 1 .. Len(list)
        /\ \A k \in 1 .. Len(list) :
              Nth(ents, k) \in 1 .. Len(ents) /\ list[k] = Convert(ents[Nth(ents, k)])
    BY <1>4, ListingFacts
  <2>2. Len(list) \in 0 .. n
    BY <1>2, <1>4, <2>1, Numbers
  <2>. QED  BY <2>1, <2>2
<1>6. list = [k \in 1 .. Len(list) |-> list[k]]
  BY <1>4, <1>5 DEF Listing
<1>7. top' \in Nat /\ top' <= calls * CallUnits /\ top + n <= HeapUnits /\ top <= HeapUnits
      /\ buf <= top'
  <2>. DEFINE base == (calls - 1) * CallUnits
              all == calls * CallUnits
  <2>1. /\ base \in Nat /\ all = base + 2 * Span + 2 /\ all <= HeapUnits /\ buf <= base
        /\ top' = top + n
    BY <1>1, <1>2, <1>3
  <2>. HIDE DEF base, all
  <2>2. top' \in Nat /\ top' <= all /\ top + n <= HeapUnits /\ top <= HeapUnits /\ buf <= top'
    BY <1>2, <2>1, Numbers
  <2>. QED  BY <2>2 DEF all
<1>8. Len(units) = n
  <2>1. units = [i \in 1 .. n |-> units[i]]
    OBVIOUS
  <2>. HIDE DEF units
  <2>. QED  BY <1>2, <2>1, Numbers, LenOfFunction
<1>9. ASSUME NEW i \in 1 .. Len(list) PROVE heap'[top + i - 1] = list[i]
  <2>1. i \in 1 .. n
    BY <1>2, <1>5, Numbers
  <2>2. units[i] = list[i]
    BY <1>5, <2>1
  <2>. HIDE DEF units
  <2>3. top + i - 1 \in 0 .. HeapUnits - 1
    BY <1>2, <1>7, <2>1, Numbers
  <2>4. Len(units) \in Nat /\ i \in 1 .. Len(units)
    BY <1>2, <1>8, <2>1, Numbers
  <2>5. Put(heap, top, units)[top + i - 1] = units[i]
    BY <1>2, <2>3, <2>4, PutThere
  <2>. QED  BY <1>1, <2>2, <2>5
<1>. HIDE DEF units
<1>10. WalksDisk' /\ CallSound' /\ FailuresExplained'
  BY <1>1 DEF WalksDisk, CallSound, FailuresExplained
<1>11. Budget'
  BY <1>1, <1>2, <1>7 DEF Budget
<1>12. ASSUME NEW r \in results PROVE Returned(r)'
  <2>1. Limit = buf /\ Limit' = top'
    BY <1>1 DEF Limit
  <2>2. Len(units) \in Nat /\ buf <= top /\ buf <= HeapUnits
    BY <1>2, <1>7, <1>8, Numbers
  <2>3. \A x \in 0 .. buf - 1 : heap'[x] = heap[x]
    BY <1>1, <1>2, <2>2, WrittenAbove
  <2>. QED  BY <1>1, <1>2, <1>7, <2>1, <2>3, ReturnedKept DEF Good
<1>13. ASSUME NEW r, r = [addr |-> top, n |-> Len(list), val |-> list]
       PROVE  Returned(r)'
  <2>1. Limit' = top'
    BY <1>1 DEF Limit
  <2>2. r.addr = top /\ r.n = Len(list) /\ r.val = list
    BY <1>13
  <2>3. Mem(r.addr, r.n)' = r.val
    <3>1. Mem(r.addr, r.n)' = [i \in 1 .. r.n |-> heap'[r.addr + i - 1]]
      BY DEF Mem
    <3>. QED  BY <1>6, <1>9, <2>2, <3>1
  <2>4. r.addr \in Nat /\ r.n \in Nat /\ r.addr + r.n <= top'
    BY <1>1, <1>2, <1>5, <2>2, Numbers
  <2>5. \A x \in ToSet(r.val) :
          x.kind = "dirent" /\ x.is_dir => x.cluster \in DOMAIN layout.ents \cup {0}
    <3>. SUFFICES ASSUME NEW x \in ToSet(list), x.kind = "dirent" /\ x.is_dir
                  PROVE  x.cluster \in DOMAIN layout.ents \cup {0}
      BY <2>2
    <3>1. PICK i \in 1 .. Len(ents) : x = Convert(ents[i])
      BY <1>5 DEF ToSet
    <3>. QED  BY <1>2, <1>4, <3>1, EntryKnown DEF ents
  <2>. QED  BY <1>1, <2>1, <2>3, <2>4, <2>5 DEF Returned
<1>14. \A r \in results' : Returned(r)'
  BY <1>1, <1>4, <1>12, <1>13
<1>. QED  BY <1>10, <1>11, <1>14 DEF Good

LEMMA StatGood ==
  ASSUME Sound, Intact, Stat
  PROVE  Good'
<1>. DEFINE ents == layout.ents[call.dir]
            found == Named(Dirents, call.name)
            first == Least(found)
            e == Convert(Dirents[first])
            base == (calls - 1) * CallUnits
            all == calls * CallUnits
<1>1. /\ pc = "use" /\ call.op \in {"stat", "read"} /\ want = Zero
      /\ layout' = layout /\ call' = call /\ calls' = calls
      /\ found = {} => /\ pc' = IF call.op = "stat" THEN "idle" ELSE "null"
                       /\ heap' = heap /\ top' = top /\ want' = want /\ results' = results
      /\ found # {} =>
            /\ top' = top + Len(<<e>>) /\ heap' = Put(heap, top, <<e>>)
            /\ call.op = "stat" =>
                /\ results' = results \cup
                     {[addr |-> top, n |-> 1,
                       val |-> <<Convert(TrueEntries(call.dir)[
                                   Least(Named(TrueEntries(call.dir), call.name))])>>]}
                /\ pc' = "idle"
            /\ call.op # "stat" =>
                /\ want' = e /\ cluster' = e.cluster /\ count' = 1
                /\ pc' = "count" /\ results' = results
  BY DEF Stat, KmallocFilled, Return, fsVars
<1>2. /\ Good /\ DiskSound /\ layout \in Layouts /\ DOMAIN heap = 0 .. HeapUnits - 1
      /\ buf \in Nat /\ top \in Nat /\ BufferUnits \in 0 .. Span /\ top = buf + BufferUnits
      /\ calls \in Nat /\ calls <= MaxCalls /\ calls > 0
      /\ base \in Nat /\ all = base + 2 * Span + 2 /\ all <= HeapUnits /\ buf <= base
  BY <1>1, UseFacts
<1>3. /\ call.dir \in DOMAIN layout.ents /\ TrueEntries(call.dir) = ents
      /\ Start = call.dir /\ Len(ents) \in Nat
      /\ found = Named(ents, call.name)
      /\ \A i \in 1 .. Len(ents) : Dirents[i] = ents[i]
  <2>1. PICK s \in layout.chains : Aim(s) /\ CopyAt(s, Len(s) + 1)
    BY <1>1, UseFacts
  <2>2. /\ call.dir \in DOMAIN layout.ents /\ TrueEntries(call.dir) = ents /\ Start = call.dir
        /\ Len(Dirents) = Length * UnitsPerCluster
        /\ Len(ents) \in Nat /\ Len(ents) <= Length * UnitsPerCluster
        /\ \A k \in 1 .. Len(Dirents) : Dirents[k] = IF k <= Len(ents) THEN ents[k] ELSE Zero
    BY <1>1, <1>2, <2>1, DirentsAreEntries
  <2>3. Length * UnitsPerCluster \in 0 .. Span
    BY <1>1, UseFacts
  <2>. HIDE DEF ents
  <2>4. Len(Dirents) \in Nat /\ Len(ents) <= Len(Dirents)
    BY <2>2, <2>3, Numbers
  <2>5. found = Named(ents, call.name)
    BY <2>2, <2>4, ZerosDoNotCount
  <2>6. \A i \in 1 .. Len(ents) : Dirents[i] = ents[i]
    BY <2>2, <2>4
  <2>. QED  BY <2>2, <2>5, <2>6
<1>. HIDE DEF base, all
<1>4. Limit = buf /\ Limit' = top'
  BY <1>1 DEF Limit
<1>5. CASE found = {}
  <2>1. WalksDisk' /\ CallSound'
    BY <1>1, <1>5 DEF WalksDisk, CallSound
  <2>2. Budget'
    <3>1. top <= all
      BY <1>2, Numbers
    <3>. QED  BY <1>1, <1>2, <1>5, <3>1 DEF Budget, all
  <2>3. FailuresExplained'
    <3>1. Named(TrueEntries(call.dir), call.name)' = {}
      BY <1>1, <1>3, <1>5 DEF TrueEntries
    <3>. QED  BY <1>1, <1>5, <3>1 DEF FailuresExplained
  <2>4. \A r \in results' : Returned(r)'
    <3>1. buf <= top
      BY <1>2, Numbers
    <3>. QED  BY <1>1, <1>2, <1>4, <1>5, <3>1, ReturnedKept DEF Good
  <2>. QED  BY <2>1, <2>2, <2>3, <2>4 DEF Good
<1>6. CASE found # {}
  <2>1. /\ first \in 1 .. Len(ents) /\ e = Convert(ents[first])
        /\ ents[first].name = call.name
    <3>. HIDE DEF ents
    <3>1. found \in SUBSET Nat /\ found \subseteq 1 .. Len(ents)
      BY <1>3 DEF Named
    <3>2. first \in found
      BY <1>6, <3>1, LeastIsIn
    <3>. QED  BY <1>3, <3>1, <3>2 DEF Named
  <2>2. Len(<<e>>) = 1 /\ <<e>>[1] = e
    OBVIOUS
  <2>. HIDE DEF e, first, found
  <2>3. /\ top' = top + 1 /\ top' \in Nat /\ top + 1 <= HeapUnits /\ buf <= top
        /\ top' <= base + Span + 1 /\ top' <= all
    BY <1>1, <1>2, <1>6, <2>2, Numbers
  <2>4. heap'[top] = e
    <3>1. heap' = Put(heap, top, <<e>>) /\ 1 \in 1 .. Len(<<e>>) /\ Len(<<e>>) \in Nat
      BY <1>1, <1>6, <2>2
    <3>2. top + 1 - 1 = top /\ top \in 0 .. HeapUnits - 1
      BY <1>2, <2>3, Numbers
    <3>. DEFINE one == <<e>>
    <3>3. heap' = Put(heap, top, one) /\ 1 \in 1 .. Len(one) /\ Len(one) \in Nat /\ one[1] = e
      BY <2>2, <3>1
    <3>. HIDE DEF one
    <3>4. top + 1 - 1 \in 0 .. HeapUnits - 1 /\ top \in Nat /\ DOMAIN heap = 0 .. HeapUnits - 1
      BY <1>2, <3>2
    <3>5. ASSUME NEW k \in 1 .. Len(one), k = 1 PROVE Put(heap, top, one)[top + k - 1] = one[k]
      BY <3>3, <3>4, <3>5, PutThere
    <3>. QED  BY <3>2, <3>3, <3>5
  <2>5. ASSUME NEW r \in results PROVE Returned(r)'
    <3>1. heap' = Put(heap, top, <<e>>) /\ Len(<<e>>) \in Nat /\ buf <= HeapUnits
      BY <1>1, <1>2, <1>6, <2>2, <2>3, Numbers
    <3>2. \A x \in 0 .. buf - 1 : heap'[x] = heap[x]
      BY <1>2, <2>3, <3>1, WrittenAbove
    <3>3. buf <= top'
      BY <1>2, <2>3, Numbers
    <3>. QED  BY <1>1, <1>2, <1>4, <2>3, <3>2, <3>3, ReturnedKept DEF Good
  <2>6. e.kind = "dirent" /\ e.is_dir => e.cluster \in DOMAIN layout.ents \cup {0}
    BY <1>2, <1>3, <2>1, EntryKnown
  <2>7. CASE call.op = "stat"
    <3>1. /\ pc' = "idle"
          /\ results' = results \cup {[addr |-> top, n |-> 1, val |-> <<e>>]}
      BY <1>1, <1>3, <1>6, <2>1, <2>7 DEF first, found
    <3>2. WalksDisk' /\ CallSound' /\ FailuresExplained'
      BY <3>1 DEF WalksDisk, CallSound, FailuresExplained
    <3>3. Budget'
      BY <1>1, <1>2, <2>3, <3>1 DEF Budget, all
    <3>4. ASSUME NEW r, r = [addr |-> top, n |-> 1, val |-> <<e>>] PROVE Returned(r)'
      <4>1. r.addr = top /\ r.n = 1 /\ r.val = <<e>>
        BY <3>4
      <4>2. Mem(r.addr, r.n)' = r.val
        <5>1. Mem(r.addr, r.n)' = [i \in 1 .. r.n |-> heap'[r.addr + i - 1]]
          BY DEF Mem
        <5>2. \A i \in 1 .. 1 : top + i - 1 = top
          BY <1>2
        <5>3. <<e>> = [i \in 1 .. 1 |-> e]
          OBVIOUS
        <5>. QED  BY <2>4, <4>1, <5>1, <5>2, <5>3
      <4>3. \A x \in ToSet(r.val) : x = e
        BY <4>1 DEF ToSet
      <4>4. r.addr \in Nat /\ r.n \in Nat /\ r.addr + r.n <= top'
        BY <1>2, <2>3, <4>1
      <4>. QED  BY <1>1, <1>4, <2>6, <4>2, <4>3, <4>4 DEF Returned
    <3>5. \A r \in results' : Returned(r)'
      BY <2>5, <3>1, <3>4
    <3>. QED  BY <3>2, <3>3, <3>5 DEF Good
  <2>8. CASE call.op # "stat"
    <3>1. /\ want' = e /\ cluster' = e.cluster /\ count' = 1 /\ pc' = "count"
          /\ results' = results /\ call.op = "read"
      BY <1>1, <1>6, <2>8
    <3>2. call.dir \in DOMAIN layout.ents \cup {0} /\ call.name \in Names
      BY <1>1, <1>2 DEF Good, CallSound
    <3>3. OnDisk(layout, ents[first])
      BY <1>2, <1>3, <2>1, <3>2, EntryKnown
    <3>4. want' # Zero
      <4>1. want'.kind = "dirent" /\ Zero.kind = "zero"
        BY <2>1, <3>1 DEF Convert, Zero
      <4>. QED  BY <4>1
    <3>5. cluster' = Start'
      BY <3>1, <3>4 DEF Start
    <3>6. CountingDisk'
      BY <1>1, <1>2, <2>1, <3>1, <3>3, <3>4, <3>5, Begins
    <3>7. WalksDisk' /\ CallSound' /\ FailuresExplained'
      BY <1>1, <3>1, <3>2, <3>6 DEF WalksDisk, CallSound, FailuresExplained
    <3>8. Budget'
      <4>1. (calls' - 1) * CallUnits = base
        BY <1>1 DEF base
      <4>2. /\ top' \in Nat /\ calls' \in Nat /\ calls' <= MaxCalls /\ calls' > 0
            /\ top' <= base + (IF want' = Zero THEN 0 ELSE Span + 1) /\ pc' = "count"
        <5>1. top' \in Nat /\ top' <= base + Span + 1
          BY <2>3
        <5>2. calls' \in Nat /\ calls' <= MaxCalls /\ calls' > 0 /\ pc' = "count"
          BY <1>1, <1>2, <3>1
        <5>3. base + (IF want' = Zero THEN 0 ELSE Span + 1) = base + Span + 1
          BY <1>2, <3>4, Numbers
        <5>. QED  BY <5>1, <5>2, <5>3
      <4>. QED  BY <4>1, <4>2 DEF Budget
    <3>. QED  BY <2>5, <3>1, <3>7, <3>8 DEF Good
  <2>. QED  BY <2>7, <2>8
<1>. QED  BY <1>5, <1>6

LEMMA ReadFileGood ==
  ASSUME Sound, Intact, ReadFile
  PROVE  Good'
<1>. DEFINE file == [kind |-> "file", data |-> buf, n_data |-> want.nbytes,
                     n_alloc |-> Length * UnitsPerCluster]
            base == (calls - 1) * CallUnits
            all == calls * CallUnits
<1>1. /\ pc = "use" /\ want # Zero /\ pc' = "idle"
      /\ top' = top + Len(<<file>>) /\ heap' = Put(heap, top, <<file>>)
      /\ results' = results \cup {[addr |-> buf, n |-> want.nbytes, val |-> TrueData(want)]}
      /\ layout' = layout /\ call' = call /\ calls' = calls
  BY DEF ReadFile, KmallocFilled, Return, fsVars
<1>2. Len(<<file>>) = 1
  OBVIOUS
<1>. HIDE DEF file
<1>3. /\ Good /\ DiskSound /\ layout \in Layouts /\ DOMAIN heap = 0 .. HeapUnits - 1
      /\ buf \in Nat /\ top \in Nat /\ BufferUnits \in 0 .. Span /\ top = buf + want.nbytes
      /\ calls \in Nat /\ calls <= MaxCalls /\ calls > 0
      /\ base \in Nat /\ all = base + 2 * Span + 2 /\ all <= HeapUnits /\ buf <= base + Span + 1
      /\ BufferUnits = want.nbytes
  <2>1. BufferUnits = want.nbytes
    BY <1>1 DEF BufferUnits
  <2>2. buf <= base + (IF want = Zero THEN 0 ELSE Span + 1)
    BY <1>1, UseFacts
  <2>3. /\ Good /\ DiskSound /\ layout \in Layouts /\ DOMAIN heap = 0 .. HeapUnits - 1
        /\ buf \in Nat /\ top \in Nat /\ BufferUnits \in 0 .. Span /\ top = buf + BufferUnits
        /\ calls \in Nat /\ calls <= MaxCalls /\ calls > 0
        /\ base \in Nat /\ all = base + 2 * Span + 2 /\ all <= HeapUnits
    BY <1>1, UseFacts
  <2>. HIDE DEF base, all
  <2>4. buf <= base + Span + 1
    BY <1>1, <2>2, <2>3, Numbers
  <2>. QED  BY <2>1, <2>3, <2>4
<1>4. want.nbytes \in Nat /\ Mem(buf, want.nbytes) = TrueData(want)
  <2>1. PICK s \in layout.chains : Aim(s) /\ CopyAt(s, Len(s) + 1)
    BY <1>1, UseFacts
  <2>. QED  BY <1>1, <1>3, <2>1, DataIsFile
<1>. HIDE DEF base, all
<1>5. /\ top' = top + 1 /\ top' \in Nat /\ top + 1 <= HeapUnits /\ top' <= all
      /\ buf <= top /\ top <= HeapUnits /\ buf <= HeapUnits
  BY <1>1, <1>2, <1>3, <1>4, Numbers
<1>6. \A x \in 0 .. top - 1 : heap'[x] = heap[x]
  <2>1. Len(<<file>>) \in Nat /\ heap' = Put(heap, top, <<file>>) /\ top <= top
    BY <1>1, <1>2, <1>3
  <2>. QED  BY <1>3, <1>5, <2>1, WrittenAbove
<1>7. Limit = buf /\ Limit' = top'
  BY <1>1 DEF Limit
<1>8. WalksDisk' /\ CallSound' /\ FailuresExplained'
  BY <1>1 DEF WalksDisk, CallSound, FailuresExplained
<1>9. Budget'
  BY <1>1, <1>3, <1>5 DEF Budget, all
<1>10. ASSUME NEW r \in results PROVE Returned(r)'
  <2>1. \A x \in 0 .. buf - 1 : heap'[x] = heap[x]
    <3>1. \A x \in 0 .. buf - 1 : x \in 0 .. top - 1
      <4>1. buf \in Nat /\ top \in Nat /\ buf <= top
        BY <1>3, <1>5
      <4>. QED  BY <4>1
    <3>. QED  BY <1>6, <3>1
  <2>2. buf <= top'
    BY <1>3, <1>5
  <2>. QED  BY <1>1, <1>3, <1>5, <1>7, <2>1, <2>2, ReturnedKept DEF Good
<1>11. ASSUME NEW r, r = [addr |-> buf, n |-> want.nbytes, val |-> TrueData(want)]
       PROVE  Returned(r)'
  <2>1. r.addr = buf /\ r.n = want.nbytes /\ r.val = TrueData(want)
    BY <1>11
  <2>2. Mem(r.addr, r.n)' = r.val
    <3>1. Mem(r.addr, r.n)' = [i \in 1 .. r.n |-> heap'[r.addr + i - 1]]
      BY DEF Mem
    <3>2. Mem(buf, want.nbytes) = [i \in 1 .. want.nbytes |-> heap[buf + i - 1]]
      BY DEF Mem
    <3>3. \A i \in 1 .. want.nbytes : buf + i - 1 \in 0 .. top - 1
      BY <1>3, <1>4
    <3>. QED  BY <1>4, <1>6, <2>1, <3>1, <3>2, <3>3
  <2>3. \A x \in ToSet(r.val) : x.kind = "data"
    BY <2>1 DEF ToSet, TrueData
  <2>4. r.addr \in Nat /\ r.n \in Nat /\ r.addr + r.n <= top'
    BY <1>3, <1>4, <1>5, <2>1
  <2>. QED  BY <1>1, <1>7, <2>2, <2>3, <2>4 DEF Returned
<1>12. \A r \in results' : Returned(r)'
  BY <1>1, <1>10, <1>11
<1>. QED  BY <1>8, <1>9, <1>12 DEF Good

------------------------------------------------------------------------------
(* The theorems about an undamaged table. *)

LEMMA SoundInit == Init => Sound
<1>. SUFFICES ASSUME Init PROVE Sound
  OBVIOUS
<1>1. DiskSound
  <2>1. DOMAIN fat = 0 .. NClusters + 1
    BY WalksInit DEF Walks, Index
  <2>. QED  BY <2>1 DEF Init, DiskSound
<1>2. /\ DOMAIN heap = 0 .. HeapUnits - 1 /\ pc = "idle" /\ top = 0 /\ calls = 0 /\ results = {}
  BY DEF Init
<1>3. WalksDisk /\ CallSound /\ FailuresExplained
  BY <1>2 DEF WalksDisk, CallSound, FailuresExplained
<1>4. Budget
  <2>1. calls <= MaxCalls /\ top <= calls * CallUnits
    BY <1>2, Numbers
  <2>. QED  BY <1>2, <2>1 DEF Budget
<1>. QED  BY <1>1, <1>2, <1>3, <1>4 DEF Sound, Good

\* nothing writes to the disk or moves the bounds of the memory
LEMMA NothingMoves ==
  ASSUME Next
  PROVE  layout' = layout /\ fat' = fat /\ disk' = disk /\ DOMAIN heap' = DOMAIN heap
<1>1. \A m, a, s : DOMAIN Put(m, a, s) = DOMAIN m
  BY DEF Put
<1>2. ASSUME NEW op, NEW dir, NEW name, Call(op, dir, name)
      PROVE  layout' = layout /\ fat' = fat /\ disk' = disk /\ DOMAIN heap' = DOMAIN heap
  BY <1>2 DEF Call, fsVars
<1>3. CASE CountStep
  BY <1>3 DEF CountStep, fsVars
<1>4. CASE CountEnd
  BY <1>1, <1>4 DEF CountEnd, Kmalloc, fsVars
<1>5. CASE CopyStep
  BY <1>1, <1>5 DEF CopyStep, fsVars
<1>6. CASE ReadDir
  BY <1>1, <1>6 DEF ReadDir, fsVars
<1>7. CASE Stat
  <2>1. layout' = layout /\ fat' = fat /\ disk' = disk
    BY <1>7 DEF Stat, fsVars
  <2>2. heap' = heap \/ \E s : heap' = Put(heap, top, s)
    <3>. DEFINE found == Named(Dirents, call.name)
                e == Convert(Dirents[Least(found)])
    <3>1. heap' = heap \/ KmallocFilled(<<e>>)
      BY <1>7 DEF Stat
    <3>. HIDE DEF e
    <3>. QED  BY <3>1 DEF KmallocFilled
  <2>. QED  BY <1>1, <2>1, <2>2
<1>8. CASE ReadFile
  BY <1>1, <1>8 DEF ReadFile, KmallocFilled, fsVars
<1>. QED  BY <1>2, <1>3, <1>4, <1>5, <1>6, <1>7, <1>8 DEF Next, Walk, Use

LEMMA SoundNext == Sound /\ [Next]_vars => Sound'
<1>1. ASSUME Sound, UNCHANGED vars PROVE Sound'
  <2>1. /\ layout' = layout /\ fat' = fat /\ disk' = disk /\ heap' = heap /\ top' = top /\ pc' = pc
        /\ call' = call /\ want' = want /\ cluster' = cluster /\ count' = count /\ buf' = buf
        /\ at' = at /\ results' = results /\ calls' = calls
    BY <1>1 DEF vars, fsVars, walk
  <2>2. DiskSound' /\ DOMAIN heap' = 0 .. HeapUnits - 1
    BY <1>1, <2>1 DEF Sound, DiskSound
  <2>3. ASSUME Intact' PROVE Good'
    <3>1. Good
      BY <1>1, <2>1, <2>3 DEF Sound, Intact
    <3>2. Start' = Start
      BY <2>1 DEF Start
    <3>3. \A s : Aim(s)' <=> Aim(s)
      BY <2>1, <3>2 DEF Aim
    <3>4. \A s, i : CopyAt(s, i)' <=> CopyAt(s, i)
      BY <2>1 DEF CopyAt
    <3>5. Nowhere' <=> Nowhere
      BY <2>1, <3>2 DEF Nowhere
    <3>6. WalksDisk'
      BY <2>1, <3>1, <3>3, <3>4, <3>5 DEF Good, WalksDisk, CountingDisk, CopyingDisk, UsingDisk
    <3>7. CallSound'
      BY <2>1, <3>1 DEF Good, CallSound
    <3>8. Budget'
      BY <2>1, <3>1 DEF Good, Budget, BufferUnits, Length
    <3>9. FailuresExplained'
      BY <2>1, <3>1, <3>2 DEF Good, FailuresExplained, Intact, TrueEntries
    <3>10. Limit' = Limit
      BY <2>1 DEF Limit
    <3>11. \A r \in results' : Returned(r)'
      BY <2>1, <3>1, <3>10 DEF Good, Returned, Mem
    <3>. QED  BY <3>6, <3>7, <3>8, <3>9, <3>11 DEF Good
  <2>. QED  BY <2>2, <2>3 DEF Sound
<1>2. ASSUME Sound, Next PROVE Sound'
  <2>1. layout' = layout /\ fat' = fat /\ disk' = disk /\ DOMAIN heap' = DOMAIN heap
    BY <1>2, NothingMoves
  <2>2. DiskSound' /\ DOMAIN heap' = 0 .. HeapUnits - 1
    BY <1>2, <2>1 DEF Sound, DiskSound
  <2>3. ASSUME Intact' PROVE Good'
    <3>1. Intact
      BY <2>1, <2>3 DEF Intact
    <3>. QED
      BY <1>2, <3>1, CallGood, CountStepGood, CountEndGood, CopyStepGood, ReadDirGood, StatGood,
         ReadFileGood DEF Next, Walk, Use
  <2>. QED  BY <2>2, <2>3 DEF Sound
<1>. QED  BY <1>1, <1>2

(* As long as the table is not damaged, the walks follow the chains of the disk,
   every call stays in its share of the heap, and nothing a call writes reaches
   what an earlier one returned. *)
THEOREM Invariance == Spec => []Sound
BY SoundInit, SoundNext, PTL DEF Spec

(* What fat32_readdir, fat32_stat and fat32_read return is what the disk holds, and
   stays so through every later call, although fat32_read reads whole clusters into
   a buffer of the file's size. *)
THEOREM ReturnsHold == Spec => []ResultsHold
<1>1. Sound => ResultsHold
  BY DEF Sound, Good, ResultsHold, Returned
<1>. QED  BY <1>1, Invariance, PTL

(* On an undamaged table a call dies only of the assert of cluster_to_lba at
   cluster 0, or of a name that is not in the directory. *)
THEOREM DeathsExplained == Spec => []FailuresExplained
<1>1. Sound => FailuresExplained
  BY DEF Sound, Good, FailuresExplained
<1>. QED  BY <1>1, Invariance, PTL
==============================================================================
