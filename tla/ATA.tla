-------------------------------- MODULE ATA --------------------------------
(***************************************************************************)
(* The ATA PIO driver and the drive it talks to.  The driver is a thread   *)
(* that reads and writes one port per step; the drive works at its own     *)
(* pace, so a port access may find it in any phase.                        *)
(*                                                                         *)
(* The drive is external and keeps the rules the driver's comments and     *)
(* delays rely on: a command takes up to 400ns to show in the status       *)
(* register ("pending"), no other status bit means anything while BSY is   *)
(* set, and registers and commands written to a drive that is at work or   *)
(* moving data are not taken.  It may fail a command with ERR, fault       *)
(* without ERR, or hang.                                                   *)
(*                                                                         *)
(* Scaled down: an LBA has Registers digits of base Base (the code's 28    *)
(* bits are three bytes and a nibble), a sector Words words (256).         *)
(***************************************************************************)
EXTENDS Integers

CONSTANTS Registers,    \* LBA registers
          Base,         \* values of one of them
          Words,        \* words of a sector
          MaxCount,     \* the largest sectorCount asked for
          MaxWrites     \* a bound: so many calls of Write28 are made

ASSUME GeometryAssumption == /\ Registers \in Nat \ {0}
                             /\ Base \in Nat \ {0, 1}
                             /\ Words \in Nat \ {0}
ASSUME CallsAssumption == /\ MaxCount \in Nat \ {0}
                          /\ MaxWrites \in Nat

(* What a digit in each register counts, and the sectors that the digits   *)
(* in all of them can name.                                                *)
Weight[r \in 0 .. Registers] == IF r = 0 THEN 1 ELSE Base * Weight[r - 1]
Capacity == Weight[Registers]
Sectors == 0 .. Capacity - 1
RegisterNumbers == 0 .. Registers - 1
WordNumbers == 0 .. Words - 1

(* A word of a sector: which sector it was written for, its place in it,   *)
(* and whether Write28 put it there.  A data port without data is Floating.*)
Floating == <<Capacity, 0, FALSE>>
Word == (Sectors \X WordNumbers \X BOOLEAN) \cup {Floating}

VARIABLES kind,    \* what is on the bus: an ATA drive, a packet device, nothing
          phase,   \* what the drive is doing
          cmd,     \* the command it is doing it for
          err,     \* ERR of its last command
          left,    \* words it has still to move
          lba,     \* its LBA registers
          disk,    \* the contents of the sectors
          dirty,   \* the sectors whose contents are in its cache only
          sector,  \* the words of the sector being written
          pc,      \* where the driver is
          op,      \* the call it is in: "init", "read" or "write"
          at,      \* the argument lba
          count,   \* the argument sectorCount
          i,       \* the sector loop's counter
          n,       \* the counter of the loop over registers or words
          buf,     \* the caller's buffer
          writes,  \* history: the calls of Write28 so far
          ret      \* "ok", "failed", or "none" until there is an answer

drive == <<kind, phase, cmd, err, left, lba, disk, dirty, sector>>
driver == <<pc, op, at, count, i, n, buf, writes, ret>>
vars == <<kind, phase, cmd, err, left, lba, disk, dirty, sector,
          pc, op, at, count, i, n, buf, writes, ret>>

-----------------------------------------------------------------------------
(* The drive as seen through its ports. *)

TakesWrites == phase \in {"ready", "fault"}

(* What the status register may read as. *)
Status ==
    CASE phase \in {"busy", "hung"} ->
           [bsy: {TRUE}, err: BOOLEAN, drq: BOOLEAN]
      [] phase \in {"pending", "ready"} ->
           [bsy: {FALSE}, err: {err}, drq: {FALSE}]
      [] phase = "data" -> [bsy: {FALSE}, err: {FALSE}, drq: {TRUE}]
      [] OTHER -> [bsy: {FALSE}, err: {FALSE}, drq: {FALSE}]

WriteRegister(r, digit) ==
    /\ lba' = IF TakesWrites THEN [lba EXCEPT ![r] = digit] ELSE lba
    /\ UNCHANGED <<kind, phase, cmd, err, left, disk, dirty, sector>>

WriteCommand(c) ==
    /\ IF TakesWrites THEN phase' = "pending" /\ cmd' = c
                      ELSE UNCHANGED <<phase, cmd>>
    /\ UNCHANGED <<kind, err, left, lba, disk, dirty, sector>>

(* The sector whose number has the digits in the registers. *)
DigitOf(s, r) == (s \div Weight[r]) % Base
SelectedSector == CHOOSE s \in Sectors: \A r \in RegisterNumbers: DigitOf(s, r) = lba[r]

(* What the data port reads as. *)
DataWord == IF phase = "data" THEN disk[SelectedSector][Words - left]
                              ELSE Floating

(* The drive counts a word moved through the data port: after the last it  *)
(* is done with a read and has the sector of a write to store.             *)
WordMoved ==
    /\ IF phase # "data" THEN UNCHANGED <<phase, cmd, left>>
       ELSE /\ left' = left - 1
            /\ phase' = IF left > 1 THEN "data"
                        ELSE IF cmd = "write" THEN "pending" ELSE "ready"
            /\ cmd' = IF left = 1 /\ cmd = "write" THEN "store" ELSE cmd
    /\ UNCHANGED <<kind, err, lba, disk, dirty>>

(* The steps of the drive itself. *)

Show == /\ phase = "pending"
        /\ phase' = "busy"
        /\ err' = FALSE
        /\ UNCHANGED <<kind, cmd, left, lba, disk, dirty, sector>>

Transfer == /\ phase = "busy"
            /\ kind = "ata"
            /\ cmd \in {"identify", "read", "write"}
            /\ phase' = "data"
            /\ left' = Words
            /\ UNCHANGED <<kind, cmd, err, lba, disk, dirty, sector>>

Store == /\ phase = "busy"
         /\ cmd = "store"
         /\ disk' = [disk EXCEPT ![SelectedSector] = sector]
         /\ dirty' = dirty \cup {SelectedSector}
         /\ phase' = "ready"
         /\ UNCHANGED <<kind, cmd, err, left, lba, sector>>

Flush == /\ phase = "busy"
         /\ cmd = "flush"
         /\ dirty' = {}
         /\ phase' = "ready"
         /\ UNCHANGED <<kind, cmd, err, left, lba, disk, sector>>

Fail == /\ phase = "busy"
        /\ phase' = "ready"
        /\ err' = TRUE
        /\ UNCHANGED <<kind, cmd, left, lba, disk, dirty, sector>>

Break == /\ phase = "busy"
         /\ phase' \in {"fault", "hung"}
         /\ UNCHANGED <<kind, cmd, err, left, lba, disk, dirty, sector>>

Drive == /\ Show \/ Transfer \/ Store \/ Flush \/ Fail \/ Break
         /\ UNCHANGED driver

-----------------------------------------------------------------------------
(* The driver. *)

Call == UNCHANGED <<op, at, count, writes>>

Return(r) == /\ pc' = "idle"
             /\ ret' = r

(* Init: the drive registers are as the firmware left them, and the first  *)
(* call is ATA::Init, whose InitBusDrive asks the drive to identify itself.*)
Init ==
    /\ kind \in {"ata", "packet", "absent"}
    /\ phase = IF kind = "absent" THEN "absent" ELSE "ready"
    /\ cmd = "none"
    /\ err \in IF kind = "absent" THEN {FALSE} ELSE BOOLEAN
    /\ left = 0
    /\ lba = [r \in RegisterNumbers |-> 0]
    /\ disk = [s \in Sectors |-> [w \in WordNumbers |-> <<s, w, FALSE>>]]
    /\ dirty = {}
    /\ sector = [w \in WordNumbers |-> Floating]
    /\ pc = "setup"
    /\ op = "init"
    /\ at = 0
    /\ count = 1
    /\ i = 0
    /\ n = 0
    /\ buf = [w \in 0 .. MaxCount * Words - 1 |-> Floating]
    /\ writes = 0
    /\ ret = "none"

(* Read28 or Write28 is called, whatever Init has answered; an LBA may be  *)
(* one past the last sector, for the callers pass any size_t.  A call for  *)
(* no sectors returns at once and changes nothing.                         *)
StartCall ==
    /\ pc = "idle"
    /\ \/ op' = "read" /\ UNCHANGED writes
       \/ op' = "write" /\ writes < MaxWrites /\ writes' = writes + 1
    /\ at' \in 0 .. Capacity
    /\ count' \in 1 .. MaxCount
    /\ pc' = "setup"
    /\ i' = 0
    /\ n' = 0
    /\ buf' = [w \in 0 .. MaxCount * Words - 1 |-> Floating]
    /\ ret' = "none"
    /\ UNCHANGED drive

(* The drive/head register, with the highest digit, is written first, then *)
(* the others from the lowest up.  IDENTIFY wants zeros.                   *)
RegisterAt(k) == IF k = 0 THEN Registers - 1 ELSE k - 1

(* Mutant: every sector of a call is looked for at the call's LBA. *)
DigitOfFirst(r) == DigitOf(at, r)

Digit(r) == DigitOf(at + i, r)

SetRegister ==
    /\ pc = "setup"
    /\ WriteRegister(RegisterAt(n), Digit(RegisterAt(n)))
    /\ IF n + 1 < Registers THEN n' = n + 1 /\ UNCHANGED pc
                            ELSE n' = 0 /\ pc' = "command"
    /\ Call /\ UNCHANGED <<i, buf, ret>>

Command ==
    /\ pc = "command"
    /\ WriteCommand(IF op = "init" THEN "identify" ELSE op)
    /\ pc' = "delay"
    /\ Call /\ UNCHANGED <<i, n, buf, ret>>

(* Mutant: the status is read without waiting for it to be valid. *)
NoDelay ==
    /\ pc = "delay"
    /\ pc' = IF op = "init" THEN "status" ELSE "poll"
    /\ Call /\ UNCHANGED drive /\ UNCHANGED <<i, n, buf, ret>>

(* Delay400NS: fourteen reads of the status last long enough. *)
Delay ==
    /\ pc = "delay"
    /\ phase # "pending"
    /\ pc' = IF op = "init" THEN "status" ELSE "poll"
    /\ Call /\ UNCHANGED drive /\ UNCHANGED <<i, n, buf, ret>>

(* InitBusDrive: a status of 0 means that there is no drive. *)
IdentifyStatus ==
    /\ pc = "status"
    /\ IF phase = "absent" THEN Return("failed")
                           ELSE pc' = "identify" /\ UNCHANGED ret
    /\ Call /\ UNCHANGED drive /\ UNCHANGED <<i, n, buf>>

IdentifyBusy ==
    /\ pc = "identify"
    /\ \E s \in Status: pc' = IF s.bsy THEN "signature" ELSE "check"
    /\ Call /\ UNCHANGED drive /\ UNCHANGED <<i, n, buf, ret>>

(* A packet device puts its signature in the LBA registers. *)
Signature ==
    /\ pc = "signature"
    /\ \/ pc' = "identify" /\ UNCHANGED ret
       \/ kind = "packet" /\ Return("failed")
    /\ Call /\ UNCHANGED drive /\ UNCHANGED <<i, n, buf>>

(* Mutants: Poll goes on while BSY is set; ERR does not end the loop.      *)
PollIgnoresBusy ==
    /\ pc = "poll"
    /\ pc' = "check"
    /\ Call /\ UNCHANGED drive /\ UNCHANGED <<i, n, buf, ret>>

CheckIgnoresError ==
    /\ pc = "check"
    /\ \E s \in Status: pc' = IF s.drq THEN "move" ELSE "check"
    /\ Call /\ UNCHANGED drive /\ UNCHANGED <<i, n, buf, ret>>

(* The first loop of Poll: wait for BSY to clear. *)
Poll ==
    /\ pc = "poll"
    /\ \E s \in Status: pc' = IF s.bsy THEN "poll" ELSE "check"
    /\ Call /\ UNCHANGED drive /\ UNCHANGED <<i, n, buf, ret>>

(* The second loop of Poll, and the same loop in InitBusDrive: read the    *)
(* status until it has ERR or DRQ.                                         *)
Check ==
    /\ pc = "check"
    /\ \E s \in Status:
          IF s.err THEN Return("failed")
          ELSE pc' = (IF s.drq THEN "move" ELSE "check") /\ UNCHANGED ret
    /\ Call /\ UNCHANGED drive /\ UNCHANGED <<i, n, buf>>

(* Mutant: one word short. *)
NextWordShort(next) ==
    IF n + 2 < Words THEN n' = n + 1 /\ UNCHANGED <<pc, ret>>
    ELSE /\ n' = 0
         /\ next

(* One word through the data port.  IDENTIFY's words go to a block of the  *)
(* heap that nothing reads.  Write28's buffer holds, for every sector, the *)
(* words meant for it.                                                     *)
NextWord(next) == IF n + 1 < Words THEN n' = n + 1 /\ UNCHANGED <<pc, ret>>
                  ELSE /\ n' = 0
                       /\ next

Goto(l) == pc' = l /\ UNCHANGED ret

MoveIdentify == /\ pc = "move" /\ op = "init"
                /\ WordMoved
                /\ NextWord(Return("ok"))
                /\ Call /\ UNCHANGED <<sector, i, buf>>

MoveRead == /\ pc = "move" /\ op = "read"
            /\ buf' = [buf EXCEPT ![i * Words + n] = DataWord]
            /\ WordMoved
            /\ NextWord(Goto("settle"))
            /\ Call /\ UNCHANGED <<sector, i>>

MoveWrite == /\ pc = "move" /\ op = "write"
             /\ sector' = IF phase = "data"
                          THEN [sector EXCEPT ![Words - left] =
                                  <<(at + i) % Capacity, n, TRUE>>]
                          ELSE sector
             /\ WordMoved
             /\ NextWord(Goto("flush"))
             /\ Call /\ UNCHANGED <<i, buf>>

(* CacheFlush writes its command without a look at the status, *)
CacheFlush == /\ pc = "flush"
              /\ WriteCommand("flush")
              /\ pc' = "flushed"
              /\ Call /\ UNCHANGED <<i, n, buf, ret>>

(* and then reads the status until BSY is clear or DRQ set. *)
FlushStatus ==
    /\ pc = "flushed"
    /\ \E s \in Status:
          CASE s.bsy /\ ~s.drq -> Goto("flushed")
            [] ~(s.bsy /\ ~s.drq) /\ s.err -> Return("failed")
            [] OTHER -> Goto("settle")
    /\ Call /\ UNCHANGED drive /\ UNCHANGED <<i, n, buf>>

(* The delay at the end of ReadSector28 and WriteSector28, and the loop of *)
(* Read28 and Write28 around them.                                         *)
NextSector ==
    /\ pc = "settle"
    /\ phase # "pending"
    /\ i' = i + 1
    /\ IF i + 1 < count THEN Goto("setup") ELSE Return("ok")
    /\ Call /\ UNCHANGED drive /\ UNCHANGED <<n, buf>>

Driver == \/ StartCall \/ SetRegister \/ Command \/ Delay
          \/ IdentifyStatus \/ IdentifyBusy \/ Signature
          \/ Poll \/ Check
          \/ MoveIdentify \/ MoveRead \/ MoveWrite
          \/ CacheFlush \/ FlushStatus \/ NextSector

Next == Driver \/ Drive

(* The kernel has one thread, so the driver goes on as long as it can; a   *)
(* drive that neither faults nor hangs finishes what it is doing.  Nothing *)
(* obliges the kernel to make a call.                                      *)
Spec == /\ Init /\ [][Next]_vars
        /\ WF_vars(Driver /\ pc # "idle")
        /\ WF_vars(Drive)
-----------------------------------------------------------------------------
TypeOK ==
    /\ kind \in {"ata", "packet", "absent"}
    /\ phase \in {"absent", "ready", "pending", "busy", "data", "fault", "hung"}
    /\ cmd \in {"none", "identify", "read", "write", "store", "flush"}
    /\ err \in BOOLEAN
    /\ left \in 0 .. Words
    /\ lba \in [RegisterNumbers -> 0 .. Base - 1]
    /\ disk \in [Sectors -> [WordNumbers -> Word]]
    /\ dirty \subseteq Sectors
    /\ sector \in [WordNumbers -> Word]
    /\ pc \in {"idle", "setup", "command", "delay", "status", "identify",
               "signature", "poll", "check", "move", "flush", "flushed",
               "settle"}
    /\ op \in {"init", "read", "write"}
    /\ writes \in 0 .. MaxWrites
    /\ at \in 0 .. Capacity
    /\ count \in 1 .. MaxCount
    /\ i \in 0 .. count
    /\ n \in 0 .. (IF pc = "setup" THEN Registers ELSE Words) - 1
    /\ buf \in [0 .. MaxCount * Words - 1 -> Word]
    /\ ret \in {"none", "ok", "failed"}

(* The loops over the 256 words of a sector touch the data port only while *)
(* the drive has data for the call they belong to, and both count the same *)
(* word: no access finds the port without data, whatever the drive's pace. *)
InStep == pc = "move" => /\ phase = "data"
                         /\ left = Words - n
                         /\ cmd = IF op = "init" THEN "identify" ELSE op

(* A sector is moved whole: the driver never leaves its loop, or returns,  *)
(* while the drive has words left, which would drop its next command.      *)
SectorMovedWhole ==
    phase = "data" => pc \in {"delay", "status", "identify", "signature",
                              "poll", "check", "move"}

(* Read28's buffer holds, word by word and sector by sector, the contents  *)
(* of the sectors asked for, as far as it has been filled; when the call   *)
(* answers with a count it is filled to the end.  Nothing is claimed past  *)
(* the last of the 2^28 sectors, where the code drops the LBA's high bits, *)
(* nor once a write has lost its flush.  No value leaves its type (TypeOK).*)
WordsRead == IF ret = "ok" THEN count * Words
             ELSE i * Words + (IF pc = "move" THEN n
                               ELSE IF pc = "settle" THEN Words ELSE 0)

ReadReturnsSectors ==
    /\ TypeOK
    /\ writes = 0 /\ op = "read" /\ ret # "failed" =>
          \A w \in 0 .. WordsRead - 1:
             LET s == at + w \div Words
             IN  s \in Sectors => buf[w] = disk[s][w % Words]

(* A call on an ATA drive fails only because the drive has failed the      *)
(* command of that call: an error left over from an earlier command is     *)
(* never taken for this one's.  (On a packet device Init returns while the *)
(* device is busy, so a read may see the error of IDENTIFY; after a write  *)
(* whose flush was lost, a command may be lost too.)                       *)
FailureIsReal ==
    writes = 0 /\ ret = "failed" =>
        \/ err /\ cmd = IF op = "init" THEN "identify" ELSE op
        \/ kind # "ata"

(* A call on a drive that works, with or without errors, ends: the loops   *)
(* of Poll and InitBusDrive end as soon as the drive answers.  A drive     *)
(* that hangs or faults, or one that is missing, is polled for ever, and   *)
(* so is one that has lost a command to a write's flush.                   *)
CallReturns == (writes = 0 /\ pc # "idle") ~> \/ pc = "idle"
                                              \/ phase \in {"hung", "fault", "absent"}

(* "Cache Flush after Write": when Write28 answers with a count, what the  *)
(* caller wrote is on the disk and no longer in the drive's cache only.    *)
FlushedAfterWrite ==
    op = "write" /\ ret = "ok" =>
       \A k \in 0 .. count - 1:
          at + k \in Sectors =>
             /\ at + k \notin dirty
             /\ disk[at + k] = [w \in WordNumbers |-> <<at + k, w, TRUE>>]
=============================================================================
