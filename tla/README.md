# EmbeddedOS: a TLA+ verification project

EmbeddedOS is a collection of small operating-system components for the Raspberry Pi
(ARM1176): a bootloader, cooperative and pre-emptive threads, device drivers, interrupt
handlers, virtual memory and a FAT32 reader, with the host-side program that loads code.
`libpi/` is the library the pi links, `libunix/` the host's, and `labs/` holds one component
per directory. There is no kernel image: each component is linked with a client and owns the
machine while it runs.

This directory holds TLA+ models of the components, the TLC configurations that check them
on small instances, and TLAPS proofs.

    tlc -config <X>.cfg <Module>        model-check a configuration
    tlapm <Module>.tla                  check the proofs of a module

## 1. Inventory

| Component | State it keeps | Operations | Interacts with | What is hard |
|---|---|---|---|---|
| Circular queue (`libpi/libc/circular.h`) | `c_buf`, `head`, `tail` | push, push_n, pop, pop_nonblock, pop_n, pop_n_noblk, peek_n | an interrupt handler produces, the main program consumes, with no lock | every access can be separated from the next by the other side; counts are stale when used; peek moves `tail` backwards |
| Bootloader (`labs/7-bootloader`) | each side's place in the protocol, the serial line, the memory loaded | seven messages, retries every 300 ms, a tty timeout | host and pi over a byte stream | losing step in the stream, damaged and lost bytes, resets, errors that are reported but do not stop the boot |
| Intrusive queue (`libpi/libc/Q.h`) | `head`, `tail`, `cnt`, and the `next` field of each element | pop, append, push, insert_after | elements are shared between queues | two queues share the same `next` fields |
| Cooperative threads (`labs/6-threads`) | run queue, free queue, current and scheduler thread, saved stack pointers | fork, start, yield, exit, context switch | intrusive queue, kmalloc | a block is freed while its context is still live; blocks are recycled |
| Equivalence threads (`labs/14-ss-equiv-deux`) | run queue, registers and hash of each thread | fork, refresh, run, the single-step and system call handlers | debug hardware | pre-emption after every instruction |
| Debug hardware (`labs/10-debug-hw`) | breakpoint and watchpoint registers, handler | mismatch on, set, off; watch | exception vectors | state that must be set again before each return |
| NRF driver (`labs/17-nrf-networking`) | mode of the chip, its fifos, where pipe 0 points, `recvq` | init, send (ack and no ack), get_pkts, reads | circular queue, the chips and the air | lost frames and acks, packets that arrive in the middle of a send, spinning on a chip that gave up |
| GPIO interrupts, logic analyzer (`labs/9-device-int`) | event bit, counters, ring of edges | edge handlers, `interrupt_vector` | circular queue | the pin moves between the event and its handler |
| Timer, profiler, system calls (`labs/5-interrupts`) | counters, histogram | handlers | vectors | pre-emption anywhere |
| Page tables (`labs/16`), pinned VM (`labs/15`) | entries, TTBR0, ASID, TLB | map, lookup, copy, switch, synchronise | MMU | a TLB that fills itself between any two instructions, from entries that are half written; bit fields |
| FAT32 reader (`labs/19`) | the table, the heap | readdir, stat, read | SD card, kmalloc | chains: end marker, cycles, damage; buffers smaller than what is read into them |
| I2C, IMU, mailbox (`labs/11`, `labs/12`) | device registers | read, write | devices | polling with no way out |
| Hardware and bit-banged uart (`labs/8`) | device registers | get8, put8, flush | bootloader, printk | 8-byte receive fifo; timing |
| GPIO, timers, watchdog, reboot | device registers | set, read, delay | everything | timer wrap |
| Fake pi, cross-checking, libunix, libc | test harness, host I/O, string routines | | | |

`PROJECT.json` lists the same components with their status and reasons, and every hazard
at its line.

## 2. Modules

### Circular queue

`FifoQueue` is the abstract promise: a bounded FIFO, one step per enqueue or dequeue.

`CircularQueue` is the code. The grain is one access to the shared state: the producer's step
from `PushTest` (reads `tail`) to `PushWrite` (writes the slot) to `PushAdvance` (stores
`head`), and the consumer's `PopTest`, `PopRead`, `PopAdvance`. `PushBegin` is the test of
`cq_push_n`, `TryBegin` that of `cq_pop_n_noblk`: one look at the count, used over a whole
batch. The producer is the interrupt handler and the consumer the main program, as in every
client in the repository; letting the two interleave freely allows more than a handler that
runs to completion does, so safety carries over. With interrupts off the producer cannot start
(`IntSwitch`), and a consumer that waits panics, as `cq_pop` does. History variables `pushed`
and `popped` say what went in and out. Counts are computed as the code does, modulo the word and
modulo N.

`CircularQueuePeek` adds `cq_peek_n`, which pops and puts `tail` back, against a handler that
does run to completion.

`CircularQueueProofs` and `CircularQueuePeekProofs`: see section 5.

### Bootloader

`BootLoader` has both programs and one byte sequence each way. A 32-bit word is `WordBytes` bytes
that carry the word's name and their place, so a reader out of step sees no protocol word, which
is true of the constants of `boot-defs.h`. Each read of the code is taken when all its bytes are
there. `Unix*` are the steps of `simple_boot` and `get_op`; `Pi*` those of `get_code` in order.
`UnixTimeout` is `get_uint8`'s `read() == 0`: it can happen only when the pi is not going to send
(`PiSilent`), because the tty timeout of 1 s is longer than the pi's 300 ms. `Corrupt`, `Lose` and
`PiReset` are the environment, bounded by `MaxFaults`, `MaxLosses`, `MaxResets`. `Leftovers` is
what the tty may hold when it is opened. `LineBound` bounds the backlog of unanswered requests: how long
the code lets it grow is not looked at.

### Cooperative threads

`IntrusiveQueue` gives each operation of `Q.h` as two operators, the queue it leaves and the
links it leaves; `Holds(q, next, s)` says that the pointers represent the sequence `s`.
`RoundRobin` is the abstract promise. `RpiThread` has one action per entry point; nothing
pre-empts, so an entry point up to its context switch is one step. A context is named by the tid
of the thread it resumes, and is `Stale` once resumed. The order inside `Exit` is the code's: the
block goes on the free queue before the switch saves into it. `runs` and `frees` are history
variables that say what the two queues should hold.

### Equivalence threads

`AloneThreads` is the promise: threads that each have a processor of their own, deterministic,
whose hash takes in the registers each time the program counter moves. `EquivThreads` is the code over one
processor with the mismatch breakpoint. User programs are constants (`Pc`, `Kind`, `Execute`):
which address a register file points at, what kind of instruction is there, which registers it leaves. The grain is
an instruction and an exception: `Instruction` executes when the breakpoint lets it, `MismatchFault`
is the prefetch abort with `equiv_hash_handler` and `equiv_schedule`, the `Syscall...` actions are
`equiv_syscall_handler`. The registers of the running thread are in `cpu` and nowhere else until a handler
saves them; `View(t)` finds the registers and the hash of a thread wherever they are. The breakpoint is
the processor's rule (`Stopped`): stop at every address but `bvr0`. `trace` is a reference run: it is
computed from a thread's own instructions, never from the state the handlers move about.

A hash is the sequence of register files it was computed from. That leaves out collisions of
`fast_hash_inc32` and nothing else. Threads share no memory, as in the tests (each has its own stack); a thread that
does would be reported, rightly, as a mismatch. `EquivRefresh` is limited to threads that are not on the
run queue, as its callers are; the code does not check, and the links of the queue would be lost. `MCEquivThreads` has the five programs of the run.

### NRF driver

`NrfDriver` is a set of nodes, each with its driver and its chip, and the air between them. The driver
polls; the chip receives, acknowledges and retransmits on its own between any two looks of the driver at it. So
a step of the driver is what it does up to its next look at something the chip changes: `GetPkt` is one
turn of the loop of `nrf_get_pkts`, `SendBegin`, `SendLoad`, `SendTx`, `SendReturn` are the parts of
`nrf_tx_send_ack` and `nrf_tx_send_noack` (`ackp` says which protocol the nodes were initialised with). The chip
is external and modelled from how the driver uses it: `Transmit` is a transmission that was
acknowledged, `NoAck` one that was not, and in both the frame may have been taken by some of those who
listen (`Hearers`). An acknowledgement can be lost and the frame taken, hence taken twice, unless the chip
recognises it (`Repeats`). `sent`, `returned`, `taken` and `got` are history variables. `recvq` is the
sequence that section 5 proves the circular queue to be.

### Page tables

`PageTable` has the tables, what `vm_map_sec` has still to store (`storing`), TTBR0, the ASID register, the
TLB and whether the MMU is on. With the MMU on the hardware may read the table in TTBR0 (`Walk`) or drop an
entry (`Evict`) between any two instructions. `vm_map_sec` writes an entry that may be in use with
one store for each bit field or group of fields: the tag, which makes it valid (action `vm_map_sec`), the permissions
(`StorePerm`), nG (`StoreNG`), the frame (`StoreFrame`). These are the stores of the compiled tests
(`tests/1-test-basic.list`), except that the one for the domain is left out with domains. A walk in between finds an
entry of frame 0, and one that passes for global. `vm_dup` is one step: nobody's TTBR0 holds the copy yet.

The switch is `vm_mmu_switch` with its asserts on pid and ASID (`ContextOk`; a client that fails one stops the
pi) and then `staff_cp15_set_procid_ttbr0`, of which the repository has the object code only. `SwitchZero`,
`SwitchMove` and `SwitchEnd` are what the instructions in `staff-mmu-asm.o` do to the context, in their order:
ASID 0, TTBR0, the new ASID. (`cp15_set_procid_ttbr0` of `your-mmu-asm.S` does the same, but nobody calls it.)
They are marked external. The write buffer is not modelled: the switch, `mmu_sync_pte_mods` and the enabling of the
MMU drain it.

`unsynced` is a history variable, the entries for which `mmu_sync_pte_mods` is owed. A call of `vm_map_sec` adds
those about which it may leave the TLB wrong (`Disturbed`). An entry that is new in a table the walker does not read
adds none. One that was not global before adds itself. Any other adds the section in all tables, since an entry
that was global, or that the walker can find before nG is stored, is served to every ASID. So a client may map into the running
table with the MMU on if it synchronises before it relies on the section, in any address space. `owner` is the client's convention
that an ASID stands for one table.

### FAT32 reader

`Fat32` has the table, the disk and the heap of `kmalloc`, which never frees. A call walks its chain
twice, `CountStep` to count and `CopyStep` to copy, one cluster a step, and then `ReadDir`,
`Stat` or `ReadFile` does what the call does with the copy; `fat32_read` calls `fat32_stat` first and
goes on with whatever that returned. `layout` is what the disk is meant to hold; one entry of the table may differ
from it, by any value; at one of the reserved values a walk panics, as `fat32_fat_entry_type` does. Memory is counted in units of which a raw entry, a converted entry, a file
record and a piece of data take one each. `MCFat32` has the three disks. A listing takes the entries kept by
their rank in the directory.

## 3. Runs

| Run | Configuration | Shows |
|---|---|---|
| `cq` | ring of 4 slots, batches of 1 and 2, 7 pushes | FIFO order, no panic, no blocking `cq_pop_n_noblk`, no slot accessed by both sides, stale counts are safe, the ring implements `FifoQueue`, everything pushed is delivered |
| `cq_peek` | the same ring, peeks of 1 and 3, 6 pushes | what `cq_peek_n` returns is the front of the queue, and its assert catches fewer than N intruding pushes |
| `cq_peek_assert` | the same | violated: with interrupts on the assert fails |
| `boot` | program of 17 bytes; at most one damaged byte, one lost byte and one reset | success is reported only for the whole program; nothing is stored after a header of my-install that collides; on a line that does not fail the boot completes from every leftover, my-install does not give up and the line is quiet while the pi is busy; my-install ends unless the pi is reset |
| `boot_bad_checksum` | one damaged byte | violated: the pi runs a program whose checksum was wrong |
| `threads` | 5 blocks, 4 tids | queues sound, every block in one place, contexts right, round robin, no starvation |
| `equiv` | five threads: a loop, the same loop from a later start, a putc, an immediate exit, an illegal call; right, wrong and no expected hashes | each thread has the registers and the hash it has alone, a completed run is never contradicted, threads advance in lockstep, every run returns or panics, the code implements `AloneThreads` |
| `nrf` | 3 nodes, 2 of them addressed, fifos and queues of 2, one retransmission, 2 packets, with and without acks | nothing lost or reordered between chip and client, retransmission never reorders, what an acknowledged send means, a node that rests listens, a send ends or its chip has given up |
| `nrf_given_up` | 2 nodes, one packet | violated: a chip that gave up does not make the driver panic |
| `vm` | 3 tables, 2 sections, 2 frames, 2 ASIDs and 2 that are refused, 2 calls of `vm_map_sec`, walks between any two stores | the TLB serves an ASID only from its table, and an access only from the running table, unless `mmu_sync_pte_mods` is owed for the entry |
| `vm_user` | the same with `perm_rw_user` | violated: the entry does not grant what was asked for |
| `fat` | three disks of 4 clusters, intact or with any one entry damaged in any way, 3 calls | what was returned stays right, the two walks agree, a call dies only for a cause, with an intact table every call ends |

Bounds. Seven pushes go round a ring of four nearly twice, so that both indices wrap with every
offset between them; batches of two make a count stale in the middle of a batch. Two values
tell a reordering from a repetition. Six pushes with peeks let a whole ring of elements be pushed inside one
`cq_peek_n`. A program of 17 bytes is one byte longer than a header, so that its bytes can be taken for one
and still leave a byte to store; `MaxBytes = 18` allows a damaged length to be too long and, with `Room = 18`, to
collide. `WordBytes = 4` is the code's, so every misalignment occurs. One loss is fewer than the bytes of a word: a line that lost a whole
`BOOT_ERROR` would make `DoneMeansLoaded` false. Five blocks hold four threads and the scheduler's; once a
thread has exited its block is used again. In `equiv` the threads are forked, run and refreshed in every order
and any number of times: nothing is bounded but the programs. In `nrf` the third node sends without
being addressed, which leaves its pipe 0 at another node's address while that node is sent to; two
packets are the least that can be out of order, and one retransmission the least that can repeat one. In
`vm` two calls of `vm_map_sec` change one entry twice or a kernel and a process entry, before or after the table is
copied, switched to or put in use, with walks and evictions around every store; three tables allow two
processes that each have an ASID beside the kernel's. In `fat` a chain of two
clusters, a chain longer than its file, an empty file, a directory below the root, labels, long names and deleted
entries each occur; the third call sees the memory two earlier ones returned.

Deadlock checking is off where the system stops: every bounded run ends (all pushes made, my-install
has exited, no more tids, no more packets or calls), and a panic or a failed assert reboots the machine.

Fairness. `CircularQueue!FairSpec`: a started handler runs to its end, and the main program keeps
popping. Nothing is assumed of `IntSwitch` or of the device: interrupts may stay off and pushes may
stop. `BootLoader!FairSpec`: both programs keep running; no fairness on faults. `RpiThread!FairSpec`: the
main program calls `rpi_thread_start` when it has forked, and each thread eventually yields or
exits. The package is cooperative, so nothing less would do. `EquivThreads!FairSpec`: the processor keeps
executing user code and its exceptions; each instruction ends a turn, so no fairness between threads
is needed. The exception is an instruction that branches to itself, at which the breakpoint never
stops: the programs of the run have none. `NrfDriver!FairSpec`: a driver in a call goes on, a chip with a frame
to send sends it, and a client with nothing else to do reads; nothing is assumed of the air, which may
lose every frame. `Fat32!Spec`: a call under way goes on.

## 4. Disagreements between code and documents

* `cq_peek_n` is documented as non-destructive and the queue as lock free, but its assert fails when
  the handler pushes while it runs (`circular.h:155`). N pushes inside one peek go unnoticed and
  lose elements: `PeekFailsStop` is stated for fewer than N, and N is the exact bound.
* A bad checksum (`get-code.h:215`) is reported with `BOOT_ERROR` but does not stop the boot: the damaged
  program runs. The same holds of a collision (`get-code.h:188`, where line 173 and `BOOTLOADER.md:98` say the
  pi gives up), which has no run of its own, and the words in the places of `PUT_PROG_INFO` and `PUT_CODE`
  are never compared (`get-code.h:168`, `:204`; `BOOTLOADER.md:122` says they are). What saves the
  protocol is that `simple_boot` stops at the first `BOOT_ERROR`: `DoneMeansLoaded` and
  `NoSelfOverwrite` hold all the same, as long as a line does not lose a whole `BOOT_ERROR`.
* A send that is never acknowledged spins at `nrf-driver.c:292`: the loop waits for an empty transmit
  fifo, and the frame stays in it. The check for `MAX_RT`, at which the lab's README says to panic, comes
  after the loop.
* `vm_map_sec` masks the permission with hexadecimal 11 (`pt-vm.c:83`), which drops the upper of its two
  bits: `perm_rw_user` gives the user nothing.

Not run:

* `simple_boot` ignores its `boot_addr` parameter (`put-code.c:174`), although the comment above it
  says it is sent.
* If the pi is reset after `PUT_PROG_INFO` was sent, `simple_boot` takes the requests of the new boot for
  repeats of the old one and discards them for ever. The document asks for a manual restart, so
  this is recorded as a hazard and `UnixTerminates` excepts it.
* A pi that asks again while code is under way takes the next 16 bytes of the code for a header, stores what
  follows wherever that says, and may do so over itself: after a reset, or when the address and the length of the header
  were both damaged (`get-code.h:168`). `NoSelfOverwrite` is stated for headers of which a word was read
  where it belongs, and no document promises more.
* `vm_xlate` drops the offset within the section (`pt-vm.c:121`; the comment at 109 says it returns the
  physical address).
* `fat32_read` of an empty file fails the assert of `cluster_to_lba`, although the comment at
  `fat32.c:254` speaks of a file "if it's not empty"; so does reading the `..` of a directory below the root. `FailuresExplained`
  allows for both. Deleted entries are listed, and labels and long names are looked at when a name is
  looked up.

## 5. Proofs

All are checked from nothing and take nothing on trust but the named assumptions on the constants.

| Module | Properties, as theorems for every value of the constants |
|---|---|
| `CircularQueueProofs` | `TypeOK`, `PushNeverPanics`, `StaleIsSafe`, `TryNeverWaits`, `SlotExclusion`, `FifoOrder`, `ImplementsFifo` |
| `CircularQueuePeekProofs` | `PeekSeesFront`, `PeekFailsStop` |
| `RpiThreadProofs` | `TypeOK`, `QueuesSound`, `OneHome`, `ContextMatches`, `ImplementsRoundRobin` |
| `BootLoaderProofs` | `DoneMeansLoaded`, `NoSelfOverwrite`, `QuietLine`, `NoFalseAlarm` |
| `EquivThreadsProofs` | `TypeOK`, `HandOver`, `RunsAlone`, `NoFalseMismatch`, `ImplementsAlone`, `Lockstep` |
| `NrfDriverProofs` | `NothingLost`, `InOrder`, `AckMeansTaken`, `IdleListens` |
| `PageTableProofs` | `TlbTrue`, `RightSpace` |
| `Fat32Proofs` | `WalksAgree`, `ResultsHold`, `FailuresExplained` |

**Circular queue.** Assumptions: `SizeAssumption` (N is at least 2 and divides the word size, which is what
makes the unsigned difference of two indices the number of elements) and `ClientAssumption` (values and sizes).
The invariant is `Control /\ Ring`. None of the properties is inductive alone: `FifoOrder`
says nothing about the write that is under way, and `PushNeverPanics` depends on the promise made when
the batch was admitted. `Control` holds the types and the two promises: while a batch is being pushed,
`ProducerPromise` says the room still needed is still there, and `ConsumerPromise` the same of the
elements to pop. Each promise survives the other side's steps because those only move the distance
`head - tail (mod N)` in its favour. `Ring` says that what was popped followed by the contents of the
occupied slots is what was pushed, with the one slot already written and not yet published. The arithmetic is
in lemmas about the distance of two indices (`ModUnique`, `SuccValue`, `DistanceValue`, `DistanceAdvance`), and
what a step does to the occupied slots in `OccupiedWrite`, `OccupiedPush` and `OccupiedPop`.

**Peeking.** `Control` does not survive `cq_peek_n`: putting `tail` back takes away room, and after a
whole ring of pushes the queue is lost. So the invariant `PInv` is a case distinction: either everything popped was right and
the rest is there (`Sound` between two peeks, `SoundPeek` inside one), or N elements or more were pushed
inside some peek (`Lost`), or the assert has failed. `SoundPeek` speaks of two overlapping rings, the one that
starts at the saved `tail` and the one that starts where the peek has come to; `RingFrom` says what a ring
holds, and `WriteKeeps`, `AdvanceGrows`, `TailDrops` and `HeadComesRound` what a store, a new `head` and a
new `tail` do to it. The count the assert compares goes wrong with the first push and is right again only
after N: `AssertSees`.

**Bootloader.** Assumption: `BootAssumption`. There are two arguments. On a line that fails (`DoneMeansLoaded`,
`NoSelfOverwrite`; hypothesis `MaxLosses < WordBytes`, which is exact: a line that loses the four bytes of a `BOOT_ERROR` leads
my-install to report a program that is not there), none of the properties is inductive, because what my-install will do
is decided by bytes under way. `LineInv` says that a byte under way to the pi is damaged or one of those sent, and not before
its turn: nothing on this line overtakes, so whatever a header is made of, its last word is the checksum only in
the header that my-install sent (`HeaderIs`). `StoreInv` says that nothing is stored before the code was sent, so a pi that holds the
program has nothing more under way (`VerifiedIs`). `GuardInv` and `CollisionInv` are about the other direction: as long as the program is not there,
the line is free of bytes that begin a `PRINT_STRING` or a `BOOT_SUCCESS`, or such a byte is `Barred` by what is left of a
`BOOT_ERROR`, one byte fewer for each byte lost (`BarWithout`); a reader in step or out of step cannot get past it, since
no accepted word contains such bytes (`BarDrop`, `BarStops`). After a collision it bars the `GET_CODE` too.
On a line that does not fail (`QuietLine`; `NoFalseAlarm` with the hypothesis `NBytes < Room`, that the program fits), `Script`
lists the seven phases of the exchange with what is on the line in each. Requests are described without
counting: every byte lies in a whole `GET_PROG_INFO` (`Requests`), behind a `Lead` of at most a word which
`LeadShrinks` shortens by one byte each time my-install throws one away.

**Cooperative threads.** Assumptions: `NullAssumption` (`NULL` is no block) and `TidAssumption`. The invariant is the
conjunction of the four properties and `Named` (every thread that is ready or running has a tid other than 0,
the scheduler's). `Holds(q, next, s)`, the claim that the pointers of a queue
represent a sequence, is carried through each operation of `Q.h` by a lemma; two queues share the `next`
fields, so each lemma also says that the other queue is left alone, which is where `OneHome` is needed.
The refinement follows because `runs`, which the invariant ties to the pointers, is the round-robin queue.

**Equivalence threads.** Assumption: `ProgramAssumption`, the types of the constants.
The invariant is `Control /\ History`. `Control` is the types and `HandOver`, with `PopThread` and `PutThread`
for what the queue operations do to the set of queued threads; one lemma per action says that it is
either invisible (`Quiet`: no thread is added, removed or changed) or a change of one thread.
`History` is needed for `NoFalseMismatch`, which is not inductive: it says that the trace of a live thread is a chain of
its own instructions ending in its present view, that `first_trace` is a complete chain that ends in the
known hash, and that the present trace is a prefix of it. `ChainStep` is where determinism enters:
the same view has the same successor, so a prefix stays a prefix, and `ChainEnd` says that a prefix which has come to
the exit is the whole. Nothing is assumed of the order in which threads are scheduled, except what
`EquivSchedule` does. `Lockstep` does depend on it, and on there being no instruction that branches to itself
(`NoSelfBranch`, a hypothesis of `LockstepHolds`, not an assumption of the model). Its invariant `Turns` says
that the run queue is sorted by age: first the threads that have still to run in this round, then those
that have.

**NRF driver.** Assumption: `NrfAssumption`. The invariant is one predicate for each node, `NodeInv`, and two
global ones. `NodeInv` joins what each program counter implies of the chip (`CallInv`), that the packet under way is the
newest its node has sent (`MsgInv`), where pipe 0 may point (`PipeInv`: at the node itself or at an address it has sent to),
that a chip takes the packets of one sender in their order (`TakenInv`), and that what it took is what the client has
read, then `recvq`, then the fifo (`Kept`, `GotInv`). `SentInv` says that numbers identify packets, and `AckInv` that an
acknowledged packet was taken by the node addressed or by one whose pipe 0 is at that address.

**Page tables.** Assumption: `PageTableAssumption`. Neither property is inductive, because a walk copies whatever it
finds. The invariant says what it can find. `SwitchInv`: an ASID other than 0 is in the register only with its own table in TTBR0, so
a walk between two steps of the switch tags with 0 what could be another's. `KernelInv`: kernel sections are global and equal in
every allocated table, and every other valid entry is not global, except the one `vm_map_sec` has yet to
store nG of. `StoringInv` is about that entry: either synchronisation is owed for it or neither the walker nor the TLB knows
of it (`Unseen`), and if it passes for global in the running table, synchronisation is owed for its section in all tables.
`TlbInv` adds to `TlbTrue` that a global entry of the TLB is of the kernel or of such a section. `MapInv`, about
the first store, shows that `Disturbed` is large enough, which is what the properties rest on; the other three stores share `StoreInv`.

**FAT32 reader.** Two invariants. `Walks`, from `FatAssumption` alone and for any table, says that the walk
that counts has come `count` clusters along a way of links that meets no cluster twice, or is `Trapped`
in a set of clusters that is closed under the table, and that the walk that copies is at the i-th cluster of a way of
`count` clusters to the end marker, with i - 1 clusters copied. The pigeonhole principle (`SimpleIsShort`)
shows that the bound `CountMax`, which keeps the model finite, is met only by a trapped walk, which never comes to
copy anything.

`Sound` is about tables that are not damaged, and needs two assumptions more. `DiskAssumption` is what a
consistent disk is: chains are not empty, a directory's entries fit its chain, an entry of a directory leads to one
(or, for the `..` of a top directory, to cluster 0), and a file's chain holds its size. `HeapAssumption` bounds the heap
of the model: it has room for every call, so that a write never falls outside memory and is lost. Neither
`ResultsHold` nor `FailuresExplained` is inductive. `WalksDisk` says which chain of the disk each walk is on and how
much of it the buffer holds (`CopyAt`), that a directory's buffer still ends with the zeros of `kmalloc` (its length
counts the end marker, and the entries are read to the end of the buffer), or that the walk is of cluster 0
(`Nowhere`) and must die. `Budget` gives each call its share of the heap. `Returned` says that
what was returned is right, lies below everything a copy under way can still write (`Limit`: the buffer it
fills), and tells clients only of directories the disk has, which is what the next call begins from. The step that
uses the copy needs that a unit's number determines its cluster (`UnitOfCluster`), that the zeros
change neither the listing nor a search (`ZerosDoNotCount`), and that the k-th entry kept exists
(`RankIsFound`, by counting).

Only model-checked: every liveness property (the proof system does not handle fairness), and the runs that show a
disagreement between the code and what is said of it.

## 6. Not modelled

* Within modelled components: `Q_insert_after` (no modelled component calls it); the stacks and the redzone of
  the thread package (abstracted to the context they resume); the load address of the boot header, which
  has no checksum; memory shared by equivalence threads; hash collisions; SPI transfers and register encodings;
  memory domains and types; `mmu_init`, whose body is object code, as is that of
  `staff_cp15_set_procid_ttbr0`, of which the steps are modelled as far as the context goes; the write buffer; the checks of the boot
  sectors. Of the debug hardware, `mini_step_run` and the watchpoints: one function stepped without threads, and
  registers that report an access to the program that made it.
* GPIO interrupts and the logic analyzer: the pins are looped back, so the interrupted program makes the
  edges itself and the handlers run between its statements; the queue under them is modelled.
* Timer interrupt, profiler, system calls: handlers of one step over one counter.
* Pinned VM: lockdown entries are written once and never move; the switch it shares with the page tables
  is modelled there.
* I2C, IMU, mailboxes: polling loops over one register; what they see is the device's choice, which the sources
  do not describe.
* Hardware uart, GPIO, timers, watchdog and reboot: device register set-up without state of its own. The bit-banged
  uart: correctness is in cycle counts.
* Fake pi and cross-checking, libunix, libc, the trusting-trust exercises: test harness, host wrappers, string
  routines, text transformations.
