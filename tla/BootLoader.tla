----------------------------- MODULE BootLoader ------------------------------
(***************************************************************************)
(* The bootloader protocol of labs/7-bootloader: my-install's simple_boot  *)
(* on the unix side (1-unix-side/put-code.c, put-get.c), get_code on the   *)
(* pi side (2-pi-side/get-code.h, main.c), and the serial line, one byte   *)
(* stream each way.                                                        *)
(*                                                                         *)
(* The stream is modelled byte by byte because the two sides frame it by   *)
(* themselves: a 32-bit word is WordBytes bytes that carry the word's name *)
(* and their place in it, so a reader that is out of step never sees a     *)
(* protocol word (no shifted overlap of the constants of boot-defs.h is    *)
(* one of them).  A message is put on the line as a whole: nothing else is *)
(* done between its bytes.  Reads block, so a word is taken once all of it *)
(* is there.                                                               *)
(***************************************************************************)
EXTENDS Integers, Sequences

CONSTANTS
    WordBytes,      \* 4
    NBytes,         \* n, the size of the program
    MaxBytes,       \* bound: the largest n the pi side reads from the line
    Room,           \* bytes between ARMBASE and the bootloader's own code
    PrintLen,       \* strlen of the string the pi side prints
    LineBound,      \* bound: the pi does not ask again past this backlog
    MaxFaults,      \* bound on the bytes the line corrupts
    MaxLosses,      \* bound on the bytes the line loses
    MaxResets       \* bound on the resets of the pi

ASSUME BootAssumption ==
    /\ WordBytes \in Nat \ {0} /\ NBytes \in 1 .. MaxBytes /\ MaxBytes \in Nat
    /\ Room \in Nat /\ PrintLen \in Nat \ {0} /\ LineBound \in Nat
    /\ MaxFaults \in Nat /\ MaxLosses \in Nat /\ MaxResets \in Nat

VARIABLES
    upc,        \* where simple_boot is
    toPi,       \* bytes on their way to the pi
    toUnix,     \* bytes on their way to unix
    ppc,        \* where get_code is
    addr, n, crc,   \* its locals, as read from the line
    mem,        \* the bytes stored from addr on by this get_code
    collided,   \* the collision check of get_code failed
    faults, losses, resets

unixVars == <<upc>>
piVars == <<ppc, addr, n, crc, mem, collided>>
faultVars == <<faults, losses, resets>>
vars == <<unixVars, piVars, faultVars, toPi, toUnix>>

------------------------------------------------------------------------------
(* Words, messages and the program. *)

Opcodes == {"GET_PROG_INFO", "PUT_PROG_INFO", "GET_CODE", "PUT_CODE",
            "BOOT_SUCCESS", "BOOT_ERROR", "PRINT_STRING"}
Fields == {"ARMBASE", "nbytes", "crc", "strlen"}

BadByte == <<"bad", 0>>

Word(w) == [k \in 1 .. WordBytes |-> <<w, k>>]

Bytes(w, len) == [k \in 1 .. len |-> <<w, k>>]

Prog == Bytes("code", NBytes)

Drop(line, k) == SubSeq(line, k + 1, Len(line))

\* the i-th word of a stream, "bad" if it is none of the protocol's
WordAt(line, i) ==
    LET w == SubSeq(line, (i - 1) * WordBytes + 1, i * WordBytes)
    IN  IF \E x \in Opcodes \cup Fields : w = Word(x) THEN w[1][1] ELSE "bad"

ProgInfo_Eager ==
    Word("PUT_PROG_INFO") \o Word("ARMBASE") \o Word("nbytes") \o Word("crc") \o Word("PUT_CODE")

ProgInfo == Word("PUT_PROG_INFO") \o Word("ARMBASE") \o Word("nbytes") \o Word("crc")

\* boot_putk: opcode, length, characters
PrintMessage == Word("PRINT_STRING") \o Word("strlen") \o Bytes("char", PrintLen)

------------------------------------------------------------------------------
(* What the tty may hold when my-install opens it: nothing, the rest of a
   GET_PROG_INFO, or garbage of an earlier run. *)
Leftovers ==
    {Drop(Word("GET_PROG_INFO"), k) : k \in 1 .. WordBytes}
      \cup {Bytes("garbage", k) : k \in 1 .. WordBytes}

Init ==
    /\ upc = "sync"
    /\ toPi = <<>> /\ toUnix \in Leftovers
    /\ ppc = "ask" /\ addr = "none" /\ n = 0 /\ crc = "none"
    /\ mem = <<>> /\ collided = FALSE
    /\ faults = 0 /\ losses = 0 /\ resets = 0

------------------------------------------------------------------------------
(* The unix side. *)

Op == WordAt(toUnix, 1)

Reading == upc \in {"sync", "drain", "result"}

\* what simple_boot takes for a repeated request, and for the good end
Repeated_Never(op) == FALSE
Repeated(op) == op = "GET_PROG_INFO"

Success_AnyReply(op) == TRUE
Success(op) == op = "BOOT_SUCCESS"

\* the bytes thrown away to get back in step
ResyncStep_Word == WordBytes
ResyncStep == WordBytes + 1

\* the bytes that the reads up to the next decision of simple_boot consume
Need ==
    IF Len(toUnix) < WordBytes THEN WordBytes
    ELSE IF Op = "PRINT_STRING" THEN 2 * WordBytes + PrintLen
    ELSE IF upc = "sync" /\ Op # "GET_PROG_INFO" THEN ResyncStep
    ELSE IF upc = "drain" /\ Op = "GET_CODE" THEN 2 * WordBytes
    ELSE WordBytes

Starved == Len(toUnix) < Need

\* get_op: a PRINT_STRING is shown and skipped; a damaged length may be refused
\* (demand(nbytes < 512)) or may swallow other bytes
UnixPrint ==
    /\ Reading /\ ~Starved /\ Op = "PRINT_STRING"
    /\ IF WordAt(toUnix, 2) = "strlen"
       THEN toUnix' = Drop(toUnix, Need) /\ UNCHANGED upc
       ELSE \/ \E k \in 2 * WordBytes .. Len(toUnix) :
                 toUnix' = Drop(toUnix, k) /\ UNCHANGED upc
            \/ upc' = "failed" /\ UNCHANGED toUnix
    /\ UNCHANGED <<toPi, piVars, faultVars>>

\* steps 0 and 1: look for a GET_PROG_INFO, one byte further after every miss,
\* and answer it.  The address sent is ARMBASE, whatever simple_boot's boot_addr is.
UnixSync ==
    /\ upc = "sync" /\ ~Starved /\ Op # "PRINT_STRING"
    /\ IF Op = "GET_PROG_INFO"
       THEN /\ toUnix' = Drop(toUnix, WordBytes)
            /\ toPi' = toPi \o ProgInfo
            /\ upc' = "drain"
       ELSE /\ toUnix' = Drop(toUnix, ResyncStep)
            /\ UNCHANGED <<toPi, upc>>
    /\ UNCHANGED <<piVars, faultVars>>

\* steps 2, 3 and 4: skip further GET_PROG_INFOs, assert GET_CODE and the echoed
\* checksum, send the code
UnixDrain ==
    /\ upc = "drain" /\ ~Starved /\ Op # "PRINT_STRING"
    /\ CASE Repeated(Op) -> UNCHANGED <<toPi, upc>>
         [] Op = "GET_CODE" /\ WordAt(toUnix, 2) = "crc" ->
                toPi' = toPi \o Word("PUT_CODE") \o Prog /\ upc' = "result"
         [] OTHER -> upc' = "failed" /\ UNCHANGED toPi
    /\ toUnix' = Drop(toUnix, Need)
    /\ UNCHANGED <<piVars, faultVars>>

\* step 5
UnixResult ==
    /\ upc = "result" /\ ~Starved /\ Op # "PRINT_STRING"
    /\ upc' = IF Success(Op) THEN "done" ELSE "failed"
    /\ toUnix' = Drop(toUnix, Need)
    /\ UNCHANGED <<toPi, piVars, faultVars>>

\* the pi is blocked in a boot_get8, or has left the bootloader
PiSilent ==
    \/ ppc = "wait" /\ Len(toPi) \in 1 .. 4 * WordBytes - 1
    \/ ppc = "code" /\ Len(toPi) < WordBytes
    \/ ppc = "load" /\ Len(mem) < n /\ toPi = <<>>
    \/ ppc = "running"

UnixTimeout_Retry == Reading /\ Starved /\ PiSilent /\ UNCHANGED vars

\* get_uint8: read() returned 0, nothing came for the tty timeout.  The timeout
\* (1 s) is longer than any pause of a pi that is still going to send.
UnixTimeout ==
    /\ Reading /\ Starved /\ PiSilent
    /\ upc' = "failed"
    /\ UNCHANGED <<toPi, toUnix, piVars, faultVars>>

UnixStep == UnixPrint \/ UnixSync \/ UnixDrain \/ UnixResult \/ UnixTimeout

------------------------------------------------------------------------------
(* The pi side. *)

\* wait_for_data: boot_put32(GET_PROG_INFO)
PiAsk ==
    /\ ppc = "ask"
    /\ toUnix' = toUnix \o Word("GET_PROG_INFO")
    /\ ppc' = "wait"
    /\ UNCHANGED <<unixVars, addr, n, crc, mem, collided, faultVars, toPi>>

\* has_data_timeout returned 0: ask again
PiTimeout ==
    /\ ppc = "wait" /\ toPi = <<>>
    /\ Len(toUnix) + WordBytes <= LineBound
    /\ ppc' = "ask"
    /\ UNCHANGED <<unixVars, addr, n, crc, mem, collided, faultVars, toPi, toUnix>>

\* a failed check is reported
Report_Never(failed) == <<>>
Report(failed) == IF failed THEN Word("BOOT_ERROR") ELSE <<>>

\* steps 2, 3 and 4 of get_code.  The first word is not compared with
\* PUT_PROG_INFO, and a collision is reported but does not stop the boot.
PiGetInfo ==
    /\ ppc = "wait" /\ Len(toPi) >= 4 * WordBytes
    /\ addr' = IF WordAt(toPi, 2) = "ARMBASE" THEN "ARMBASE" ELSE "other"
    /\ n' \in IF WordAt(toPi, 3) = "nbytes" THEN {NBytes} ELSE 0 .. MaxBytes
    /\ crc' = WordAt(toPi, 4)
    /\ collided' \in IF addr' = "ARMBASE" THEN {n' >= Room} ELSE BOOLEAN
    /\ mem' = <<>>
    /\ toPi' = Drop(toPi, 4 * WordBytes)
    /\ toUnix' = toUnix \o Report(collided') \o Word("GET_CODE") \o Word(crc')
    /\ ppc' = "code"
    /\ UNCHANGED <<unixVars, faultVars>>

\* step 5: the opcode is read and not compared with PUT_CODE ...
PiPutCode ==
    /\ ppc = "code" /\ Len(toPi) >= WordBytes
    /\ toPi' = Drop(toPi, WordBytes)
    /\ ppc' = "load"
    /\ UNCHANGED <<unixVars, addr, n, crc, mem, collided, faultVars, toUnix>>

\* ... then boot_get8 and PUT8(addr+i)
PiLoad ==
    /\ ppc = "load" /\ Len(mem) < n /\ toPi # <<>>
    /\ mem' = Append(mem, Head(toPi))
    /\ toPi' = Tail(toPi)
    /\ UNCHANGED <<unixVars, ppc, addr, n, crc, collided, faultVars, toUnix>>

Verified_HeaderOnly == crc = "crc"

\* crc32 over what was stored against the checksum received
Verified == crc = "crc" /\ mem = Prog

\* steps 6 and 7, and notmain: a bad checksum is reported, then the program is
\* run all the same (unless addr is 0)
PiVerify ==
    /\ ppc = "load" /\ Len(mem) = n
    /\ toUnix' = toUnix \o Report(~Verified) \o PrintMessage \o Word("BOOT_SUCCESS")
    /\ ppc' \in IF addr = "ARMBASE" THEN {"running"} ELSE {"running", "ask"}
    /\ UNCHANGED <<unixVars, addr, n, crc, mem, collided, faultVars, toPi>>

PiStep == PiAsk \/ PiTimeout \/ PiGetInfo \/ PiPutCode \/ PiLoad \/ PiVerify

------------------------------------------------------------------------------
(* The world: noise and lost bytes on the line, the reset button. *)

Without(line, i) == SubSeq(line, 1, i - 1) \o Drop(line, i)

Corrupt ==
    /\ faults < MaxFaults /\ faults' = faults + 1
    /\ \/ \E i \in 1 .. Len(toPi) : toPi' = [toPi EXCEPT ![i] = BadByte] /\ UNCHANGED toUnix
       \/ \E i \in 1 .. Len(toUnix) : toUnix' = [toUnix EXCEPT ![i] = BadByte] /\ UNCHANGED toPi
    /\ UNCHANGED <<unixVars, piVars, losses, resets>>

Lose ==
    /\ losses < MaxLosses /\ losses' = losses + 1
    /\ \/ \E i \in 1 .. Len(toPi) : toPi' = Without(toPi, i) /\ UNCHANGED toUnix
       \/ \E i \in 1 .. Len(toUnix) : toUnix' = Without(toUnix, i) /\ UNCHANGED toPi
    /\ UNCHANGED <<unixVars, piVars, faults, resets>>

\* what arrives while the pi is down is lost, what is still under way is not
PiReset ==
    /\ resets < MaxResets /\ resets' = resets + 1
    /\ \E k \in 0 .. Len(toPi) : toPi' = Drop(toPi, k)
    /\ ppc' = "ask"
    /\ UNCHANGED <<unixVars, addr, n, crc, mem, collided, faults, losses, toUnix>>

Next == UnixStep \/ PiStep \/ Corrupt \/ Lose \/ PiReset

Spec == Init /\ [][Next]_vars

\* both programs keep running; nothing makes the line fail
FairSpec == Spec /\ WF_vars(UnixStep) /\ WF_vars(PiStep)

------------------------------------------------------------------------------
(* Properties. *)

(* Corruption and loss never make my-install report a boot of anything but the
   program: when it is done, the pi holds every byte, and it was not stored over
   the bootloader's own code.  (BOOTLOADER.md: "The CRC and other checks guard
   against corruption".)  Not covered: the load address, which has no checksum
   (question Q6 of BOOTLOADER.md). *)
DoneMeansLoaded == upc = "done" => mem = Prog /\ ~collided

\* nothing has gone wrong on the line, and the pi was not reset
Intact == faults + losses + resets = 0

(* The send-response discipline of BOOTLOADER.md: when the pi leaves a read to
   compute, print or wait for its transmitter, the unix side has gone quiet and
   nothing more can overrun the 8-byte receive fifo.  After a reset what the last
   boot sent may still be under way. *)
QuietLine ==
    [][Intact /\ ppc' # ppc /\ ppc' \in {"code", "running"} => toPi' = <<>>]_vars

(* On a line that does not fail, my-install never gives up, whatever the tty
   held and however many GET_PROG_INFO are queued. *)
NoFalseAlarm == Intact => upc # "failed"

\* some word of the header was read where it belongs
HeaderRead == addr = "ARMBASE" \/ crc = "crc"

(* A colliding image is never stored: the pi goes on after its BOOT_ERROR, but
   the unix side has stopped sending.  Only of a header that my-install sent: a pi
   that asks again while the code is under way (after a reset, or when address
   and length were both damaged) takes 16 bytes of the code for a header, and
   stores the rest wherever that says. *)
NoSelfOverwrite == collided /\ HeaderRead => mem = <<>>

(* On a line that does not fail, the program is running and my-install knows. *)
BootCompletes == <>((upc = "done" /\ ppc = "running" /\ mem = Prog) \/ ~Intact)

(* my-install does not hang: it ends, with success or an error, whatever damaged
   and lost bytes do to the pi.  Unless the pi is reset: if PUT_PROG_INFO was
   sent already, unix discards every GET_PROG_INFO of the new boot, for ever. *)
UnixTerminates == <>(upc \in {"done", "failed"} \/ resets > 0)

------------------------------------------------------------------------------
(* What the documents say and the code does not do. *)

(* BOOTLOADER.md step 5: on a checksum mismatch the pi reboots. *)
RunsOnlyVerified == ppc = "running" => Verified
==============================================================================
