----------------------------- MODULE ATA_proofs -----------------------------
(***************************************************************************)
(* Theorems about the driver and the drive, for every geometry, every      *)
(* sequence of calls and every pace of the drive: the loops over a         *)
(* sector's words are in step with the drive, no value leaves its type,    *)
(* and, until something is written, a failure is the failure of the call's *)
(* own command and a read returns the sectors asked for.                   *)
(***************************************************************************)
EXTENDS ATA, Bitmap_proofs

CommandOf(o) == IF o = "init" THEN "identify" ELSE o

(* Where the driver waits for the answer to a command it has written. *)
Waiting == {"delay", "status", "identify", "signature", "poll"}

(* The part of the type invariant that the control of both needs. *)
ControlOK ==
    /\ kind \in {"ata", "packet", "absent"}
    /\ phase \in {"absent", "ready", "pending", "busy", "data", "fault", "hung"}
    /\ cmd \in {"none", "identify", "read", "write", "store", "flush"}
    /\ left \in Int
    /\ n \in Nat
    /\ pc \in {"idle", "setup", "command", "delay", "status", "identify",
               "signature", "poll", "check", "move", "flush", "flushed",
               "settle"}
    /\ op \in {"init", "read", "write"}

(* The word loop begins at 0. *)
CounterAtZero == pc \notin {"setup", "move"} => n = 0

(* After the delay the status is valid; after Poll's first loop the drive  *)
(* has answered.                                                           *)
Answered == /\ phase = "pending" => pc \notin Waiting \ {"delay"}
            /\ pc \in {"check", "move"} => phase \notin {"pending", "busy", "hung"}

(* A command that will move data belongs to the call that waits for it. *)
Owned == kind = "ata" /\ phase \in {"pending", "busy"}
            /\ cmd \in {"identify", "read", "write"}
         => pc \in Waiting /\ cmd = CommandOf(op)

(* So does the data, of which the driver has moved n words. *)
DataOwned == phase = "data" =>
                /\ kind = "ata"
                /\ pc \in Waiting \cup {"check", "move"}
                /\ cmd = CommandOf(op)
                /\ left = Words - n
                /\ n < Words

MoveHasData == pc = "move" => phase = "data"

IInv == /\ ControlOK /\ CounterAtZero /\ Answered
        /\ Owned /\ DataOwned /\ MoveHasData

(* What a reading of the status tells of the drive. *)
LEMMA StatusTells ==
    ASSUME ControlOK, NEW s \in Status
    PROVE  /\ ~s.bsy => phase \notin {"busy", "hung"}
           /\ s.drq /\ phase \notin {"busy", "hung"} => phase = "data"
           /\ s.err /\ phase \notin {"busy", "hung"} => err /\ phase # "data"
  <1>1. CASE phase \in {"busy", "hung"}
    <2>1. Status = [bsy: {TRUE}, err: BOOLEAN, drq: BOOLEAN]
      BY <1>1 DEF Status
    <2>2. s.bsy = TRUE
      BY <2>1
    <2> QED BY <1>1, <2>2
  <1>2. CASE phase \in {"pending", "ready"}
    <2>1. Status = [bsy: {FALSE}, err: {err}, drq: {FALSE}]
      BY <1>2 DEF Status
    <2>2. s.bsy = FALSE /\ s.err = err /\ s.drq = FALSE
      BY <2>1
    <2> QED BY <1>2, <2>2
  <1>3. CASE phase = "data"
    <2>1. Status = [bsy: {FALSE}, err: {FALSE}, drq: {TRUE}]
      BY <1>3 DEF Status
    <2>2. s.bsy = FALSE /\ s.err = FALSE
      BY <2>1
    <2> QED BY <1>3, <2>2
  <1>4. CASE phase \in {"absent", "fault"}
    <2>1. Status = [bsy: {FALSE}, err: {FALSE}, drq: {FALSE}]
      BY <1>4 DEF Status
    <2>2. s.bsy = FALSE /\ s.err = FALSE /\ s.drq = FALSE
      BY <2>1
    <2> QED BY <1>4, <2>2
  <1> QED BY <1>1, <1>2, <1>3, <1>4 DEF ControlOK

LEMMA InitInvariant == Init => IInv
  <1> SUFFICES ASSUME Init PROVE IInv
    OBVIOUS
  <1> QED BY DEF Init, IInv, ControlOK, CounterAtZero, Answered, Owned,
                 DataOwned, MoveHasData, Waiting

(* The drive's own steps: they move data only for a command taken. *)
LEMMA DriveKeepsInvariant == IInv /\ Drive => IInv'
  <1> SUFFICES ASSUME IInv, Drive PROVE IInv'
    OBVIOUS
  <1> USE GeometryAssumption
      DEF IInv, ControlOK, CounterAtZero, Answered, Owned, DataOwned,
          MoveHasData, Waiting, driver
  <1>1. CASE Show BY <1>1 DEF Drive, Show
  <1>2. CASE Transfer BY <1>2 DEF Drive, Transfer
  <1>3. CASE Store BY <1>3 DEF Drive, Store
  <1>4. CASE Flush BY <1>4 DEF Drive, Flush
  <1>5. CASE Fail BY <1>5 DEF Drive, Fail
  <1>6. CASE Break BY <1>6 DEF Drive, Break
  <1> QED BY <1>1, <1>2, <1>3, <1>4, <1>5, <1>6 DEF Drive

(* The driver's steps up to and after the word loop. *)
LEMMA DriverKeepsInvariant ==
    ASSUME IInv, Driver, pc # "move"
    PROVE  IInv'
  <1> USE GeometryAssumption, CallsAssumption
      DEF IInv, ControlOK, CounterAtZero, Answered, Owned, DataOwned,
          MoveHasData, Waiting, drive, Call, Return, Goto
  <1>1. CASE StartCall BY <1>1 DEF StartCall
  <1>2. CASE SetRegister BY <1>2 DEF SetRegister, WriteRegister
  <1>3. CASE Command
    BY <1>3 DEF Command, WriteCommand, TakesWrites, CommandOf
  <1>4. CASE Delay BY <1>4 DEF Delay
  <1>5. CASE IdentifyStatus BY <1>5 DEF IdentifyStatus
  <1>6. CASE IdentifyBusy BY <1>6, StatusTells DEF IdentifyBusy
  <1>7. CASE Signature BY <1>7 DEF Signature
  <1>8. CASE Poll BY <1>8, StatusTells DEF Poll
  <1>9. CASE Check BY <1>9, StatusTells DEF Check
  <1>10. CASE CacheFlush BY <1>10 DEF CacheFlush, WriteCommand, TakesWrites
  <1>11. CASE FlushStatus BY <1>11 DEF FlushStatus
  <1>12. CASE NextSector BY <1>12 DEF NextSector
  <1> QED
    BY <1>1, <1>2, <1>3, <1>4, <1>5, <1>6, <1>7, <1>8, <1>9, <1>10, <1>11,
       <1>12 DEF Driver, MoveIdentify, MoveRead, MoveWrite

(* The word loop: driver and drive count the same word, so that the driver *)
(* leaves the loop with the drive's last.                                  *)
LEMMA MoveKeepsInvariant ==
    ASSUME IInv, Driver, pc = "move"
    PROVE  IInv'
  <1>1. /\ phase = "data" /\ kind = "ata" /\ left = Words - n /\ n < Words /\ n \in Nat
        /\ cmd = CommandOf(op) /\ op \in {"init", "read", "write"}
    BY DEF IInv, ControlOK, DataOwned, MoveHasData
  <1>2. /\ WordMoved
        /\ UNCHANGED op
        /\ IF n + 1 < Words THEN n' = n + 1 /\ pc' = "move"
                            ELSE n' = 0 /\ pc' \in {"idle", "settle", "flush"}
    BY DEF Driver, StartCall, SetRegister, Command, Delay, IdentifyStatus,
           IdentifyBusy, Signature, Poll, Check, CacheFlush, FlushStatus,
           NextSector, MoveIdentify, MoveRead, MoveWrite, NextWord, Goto,
           Return, Call
  <1>3. /\ left' = left - 1
        /\ phase' = IF n + 1 < Words THEN "data"
                    ELSE IF op = "write" THEN "pending" ELSE "ready"
        /\ cmd' = IF n + 1 < Words THEN cmd
                  ELSE IF op = "write" THEN "store" ELSE cmd
        /\ UNCHANGED kind
    BY <1>1, <1>2, GeometryAssumption DEF WordMoved, CommandOf
  <1>4. CASE n + 1 < Words
    BY <1>1, <1>2, <1>3, <1>4, GeometryAssumption
    DEF IInv, ControlOK, CounterAtZero, Answered, Owned, DataOwned,
        MoveHasData, Waiting
  <1>5. CASE ~(n + 1 < Words)
    BY <1>1, <1>2, <1>3, <1>5, GeometryAssumption
    DEF IInv, ControlOK, CounterAtZero, Answered, Owned, DataOwned,
        MoveHasData, Waiting
  <1> QED BY <1>4, <1>5

LEMMA StepKeepsInvariant == IInv /\ [Next]_vars => IInv'
  <1> SUFFICES ASSUME IInv, [Next]_vars PROVE IInv'
    OBVIOUS
  <1>1. CASE Drive BY <1>1, DriveKeepsInvariant
  <1>2. CASE Driver BY <1>2, DriverKeepsInvariant, MoveKeepsInvariant
  <1>3. CASE UNCHANGED vars
    BY <1>3 DEF vars, IInv, ControlOK, CounterAtZero, Answered, Owned,
                DataOwned, MoveHasData
  <1> QED BY <1>1, <1>2, <1>3 DEF Next

(* Whatever the drive's pace, the data port is touched only while the      *)
(* drive has data for the call in progress, word for word.                 *)
THEOREM DriverInStep == Spec => []InStep
  <1>1. IInv => InStep
    BY DEF IInv, DataOwned, MoveHasData, InStep, CommandOf
  <1> QED BY InitInvariant, StepKeepsInvariant, <1>1, PTL DEF Spec

(* The driver never turns away from a drive that has words left to move. *)
THEOREM SectorsAreMovedWhole == Spec => []SectorMovedWhole
  <1>1. IInv => SectorMovedWhole
    BY DEF IInv, DataOwned, SectorMovedWhole, Waiting
  <1> QED BY InitInvariant, StepKeepsInvariant, <1>1, PTL DEF Spec
-----------------------------------------------------------------------------
(* As long as nothing is written, an ATA drive is at rest between calls    *)
(* (or hangs, and no call returns), so it takes every command.             *)
AtRest == kind = "ata" /\ pc \in {"idle", "setup", "command", "settle"}
             => phase \in {"ready", "fault"}

(* The command the drive has is the call's while the driver waits for it.  *)
Taken == kind = "ata" /\ pc \in Waiting \cup {"check", "move"}
            => cmd = CommandOf(op)

FailedWithError ==
    ret = "failed" => /\ pc = "idle"
                      /\ kind = "ata" => err /\ cmd = CommandOf(op)

NoWrite == op # "write" /\ pc \notin {"flush", "flushed"}

MissingIsAbsent == kind = "ata" => phase # "absent"

ReadInv == IInv /\ AtRest /\ Taken /\ FailedWithError /\ NoWrite
              /\ MissingIsAbsent

(* All of it up to the first write. *)
UntilWriteInv == /\ IInv
                 /\ writes \in Nat
                 /\ writes = 0 => ReadInv

LEMMA InitReadInvariant == Init => UntilWriteInv
  <1> SUFFICES ASSUME Init PROVE UntilWriteInv
    OBVIOUS
  <1> QED
    BY InitInvariant DEF Init, UntilWriteInv, ReadInv, AtRest, Taken, FailedWithError, NoWrite,
       MissingIsAbsent, Waiting, CommandOf

LEMMA DriveKeepsReadInvariant == ReadInv /\ Drive => ReadInv'
  <1> SUFFICES ASSUME ReadInv, Drive PROVE ReadInv'
    OBVIOUS
  <1> USE DEF ReadInv, AtRest, Taken, FailedWithError, NoWrite,
              MissingIsAbsent, Waiting, driver
  <1>0. IInv'
    BY DriveKeepsInvariant
  <1>a. ASSUME phase \in {"pending", "busy"}, kind = "ata"
        PROVE  pc \notin {"idle", "setup", "command", "settle"}
    BY <1>a
  <1>b. /\ UNCHANGED <<kind, pc, op, ret>>
        /\ cmd' = cmd
        /\ phase \in {"pending", "busy"}
        /\ phase' # "absent"
    BY DEF Drive, Show, Transfer, Store, Flush, Fail, Break
  <1>c. CommandOf(op)' = CommandOf(op)
    BY <1>b DEF CommandOf
  <1>1. AtRest'
    BY <1>a, <1>b
  <1>2. Taken'
    BY <1>b, <1>c
  <1>3. FailedWithError'
    BY <1>a, <1>b, <1>c
  <1> QED BY <1>0, <1>1, <1>2, <1>3, <1>b

LEMMA DriverKeepsReadInvariant ==
    ASSUME ReadInv, Driver, writes = 0, writes' = 0
    PROVE  ReadInv'
  <1>0. IInv'
    BY DriverKeepsInvariant, MoveKeepsInvariant DEF ReadInv
  <1> USE DEF ReadInv, AtRest, Taken, FailedWithError, NoWrite,
              MissingIsAbsent, Waiting, CommandOf, drive, Call, Return, Goto
  <1>1. CASE StartCall
    BY <1>0, <1>1 DEF StartCall
  <1>2. CASE SetRegister BY <1>0, <1>2 DEF SetRegister, WriteRegister
  <1>3. CASE Command BY <1>0, <1>3 DEF Command, WriteCommand, TakesWrites
  <1>4. CASE Delay BY <1>0, <1>4 DEF Delay
  <1>5. CASE IdentifyStatus BY <1>0, <1>5 DEF IdentifyStatus
  <1>6. CASE IdentifyBusy BY <1>0, <1>6 DEF IdentifyBusy
  <1>7. CASE Signature BY <1>0, <1>7 DEF Signature
  <1>8. CASE Poll BY <1>0, <1>8 DEF Poll
  <1>9. CASE Check
    BY <1>0, <1>9, StatusTells DEF Check, IInv, Answered, ControlOK
  <1>10. CASE pc = "move"
    <2>1. /\ phase = "data" /\ left = Words - n /\ n < Words /\ n \in Nat
          /\ cmd = CommandOf(op) /\ op \in {"init", "read"}
      BY <1>10 DEF IInv, ControlOK, DataOwned, MoveHasData
    <2>2. /\ WordMoved
          /\ UNCHANGED op
          /\ IF n + 1 < Words
             THEN pc' = "move" /\ ret' = ret
             ELSE \/ pc' = "idle" /\ ret' = "ok"
                  \/ pc' = "settle" /\ ret' = ret
      BY <1>10, <2>1 DEF Driver, StartCall, SetRegister, Command, Delay,
         IdentifyStatus, IdentifyBusy, Signature, Poll, Check, CacheFlush,
         FlushStatus, NextSector, MoveIdentify, MoveRead, MoveWrite, NextWord
    <2>3. /\ phase' = IF n + 1 < Words THEN "data" ELSE "ready"
          /\ cmd' = cmd /\ UNCHANGED kind
      BY <2>1, <2>2, GeometryAssumption DEF WordMoved
    <2> QED BY <1>0, <1>10, <2>1, <2>2, <2>3
  <1>11. CASE NextSector BY <1>0, <1>11 DEF NextSector
  <1> QED
    BY <1>1, <1>2, <1>3, <1>4, <1>5, <1>6, <1>7, <1>8, <1>9, <1>10, <1>11
    DEF Driver, MoveIdentify, MoveRead, MoveWrite, CacheFlush, FlushStatus

LEMMA StepKeepsReadInvariant == UntilWriteInv /\ [Next]_vars => UntilWriteInv'
  <1> SUFFICES ASSUME UntilWriteInv, [Next]_vars PROVE UntilWriteInv'
    OBVIOUS
  <1>1. IInv'
    BY StepKeepsInvariant DEF UntilWriteInv
  <1>2. writes' \in {writes, writes + 1}
    BY DEF Next, Drive, driver, vars, Driver, StartCall, SetRegister, Command,
       Delay, IdentifyStatus, IdentifyBusy, Signature, Poll, Check,
       MoveIdentify, MoveRead, MoveWrite, CacheFlush, FlushStatus, NextSector,
       Call
  <1>3. writes' \in Nat /\ (writes' = 0 => writes = 0 /\ ReadInv)
    BY <1>2 DEF UntilWriteInv
  <1>4. ASSUME writes' = 0 PROVE ReadInv'
    <2>1. CASE Drive BY <2>1, <1>3, <1>4, DriveKeepsReadInvariant
    <2>2. CASE Driver BY <2>2, <1>3, <1>4, DriverKeepsReadInvariant
    <2>3. CASE UNCHANGED vars
      BY <1>1, <1>3, <1>4, <2>3
      DEF vars, ReadInv, AtRest, Taken, FailedWithError, NoWrite,
          MissingIsAbsent, CommandOf
    <2> QED BY <2>1, <2>2, <2>3 DEF Next
  <1> QED BY <1>1, <1>3, <1>4 DEF UntilWriteInv

(* Until something is written, and this kernel only reads, a call on an    *)
(* ATA drive is never told of a failure that is not its own command's.     *)
THEOREM FailuresAreReal == Spec => []FailureIsReal
  <1>1. UntilWriteInv => FailureIsReal
    BY DEF UntilWriteInv, ReadInv, IInv, ControlOK, FailedWithError,
           FailureIsReal, CommandOf
  <1> QED BY InitReadInvariant, StepKeepsReadInvariant, <1>1, PTL DEF Spec
-----------------------------------------------------------------------------
(* The digits of an LBA. *)

LEMMA WeightIs ==
    Weight = [r \in 0 .. Registers |-> IF r = 0 THEN 1 ELSE Base * Weight[r - 1]]
  <1> DEFINE Is(n_, g) == g = [r \in 0 .. n_ |-> IF r = 0 THEN 1 ELSE Base * g[r - 1]]
             T == {m \in Nat : \E g : Is(m, g)}
  <1>1. 0 \in T
    <2>1. Is(0, [r \in 0 .. 0 |-> 1])
      OBVIOUS
    <2> QED
      BY <2>1
  <1>2. ASSUME NEW m \in T
        PROVE  m + 1 \in T
    <2>1. PICK g : Is(m, g)
      OBVIOUS
    <2>2. m \in Nat
      OBVIOUS
    <2> DEFINE h == [r \in 0 .. m + 1 |-> IF r = m + 1 THEN Base * g[m] ELSE g[r]]
    <2>3. ASSUME NEW r \in 0 .. m + 1
          PROVE  h[r] = IF r = 0 THEN 1 ELSE Base * h[r - 1]
      <3>1. CASE r = m + 1
        BY <2>2, <3>1
      <3>2. CASE r \in 0 .. m
        <4>1. h[r] = g[r] /\ (r # 0 => h[r - 1] = g[r - 1])
          BY <2>2, <3>2
        <4>2. g[r] = IF r = 0 THEN 1 ELSE Base * g[r - 1]
          BY <2>1, <3>2
        <4> QED
          BY <4>1, <4>2
      <3> QED
        BY <2>2, <3>1, <3>2
    <2>4. Is(m + 1, h)
      BY <2>3
    <2>5. \E f : Is(m + 1, f)
      <3> HIDE DEF Is, h
      <3> QED
        BY <2>4
    <2>6. m + 1 \in Nat
      BY <2>2
    <2> QED
      BY <2>5, <2>6
  <1>3. T = Nat
    <2> HIDE DEF T
    <2>1. T \in SUBSET Nat
      BY DEF T
    <2> QED
      BY <1>1, <1>2, <2>1, Induction
  <1>4. \E g : Is(Registers, g)
    BY <1>3, GeometryAssumption
  <1> QED
    BY <1>4 DEF Weight

LEMMA Weights ==
    /\ Weight[0] = 1
    /\ \A r \in RegisterNumbers : Weight[r + 1] = Base * Weight[r]
    /\ \A r \in 0 .. Registers : Weight[r] \in Nat \ {0}
    /\ Capacity \in Nat \ {0}
  <1>1. Weight[0] = 1
    BY WeightIs, GeometryAssumption
  <1>2. ASSUME NEW r \in RegisterNumbers
        PROVE  Weight[r + 1] = Base * Weight[r]
    <2>1. r + 1 \in 0 .. Registers /\ r + 1 # 0 /\ (r + 1) - 1 = r
      BY GeometryAssumption DEF RegisterNumbers
    <2> QED
      BY <2>1, WeightIs
  <1>3. ASSUME NEW r \in 0 .. Registers
        PROVE  Weight[r] \in Nat \ {0}
    <2> DEFINE T == {m \in Nat : m =< Registers => Weight[m] \in Nat \ {0}}
    <2>1. 0 \in T
      BY <1>1
    <2>2. ASSUME NEW m \in T
          PROVE  m + 1 \in T
      <3>1. CASE m + 1 =< Registers
        <4>1. Weight[m] \in Nat \ {0} /\ m \in RegisterNumbers
          BY <3>1, GeometryAssumption DEF RegisterNumbers
        <4>2. Base * Weight[m] \in Nat \ {0}
          BY <4>1, GeometryAssumption
        <4> QED
          BY <1>2, <4>1, <4>2
      <3> QED
        BY <3>1
    <2>3. T = Nat
      <3> HIDE DEF T
      <3>1. T \in SUBSET Nat
        BY DEF T
      <3> QED
        BY <2>1, <2>2, <3>1, Induction
    <2> QED
      BY <2>3, GeometryAssumption
  <1>4. Capacity \in Nat \ {0}
    BY <1>3, GeometryAssumption DEF Capacity
  <1> QED
    BY <1>1, <1>2, <1>3, <1>4

(* Dropping the lowest digit moves the others down. *)
LEMMA NextDigit ==
    ASSUME NEW s \in Nat, NEW r \in RegisterNumbers, r + 1 \in RegisterNumbers
    PROVE  DigitOf(s, r + 1) = DigitOf(s \div Base, r)
  <1>1. r \in 0 .. Registers
    BY GeometryAssumption DEF RegisterNumbers
  <1>2. Weight[r + 1] = Base * Weight[r] /\ Weight[r] \in Nat \ {0}
    BY <1>1, Weights
  <1>3. s \div (Base * Weight[r]) = (s \div Base) \div Weight[r]
    <2>1. PICK w \in Nat \ {0} : w = Weight[r]
      BY <1>2
    <2>2. Base \in Nat \ {0}
      BY GeometryAssumption
    <2>3. s \div (Base * w) = (s \div Base) \div w
      BY <2>2, DivDiv
    <2> QED
      BY <2>1, <2>3
  <1> QED
    BY <1>2, <1>3 DEF DigitOf

LEMMA FirstDigit ==
    ASSUME NEW s \in Nat
    PROVE  DigitOf(s, 0) = s % Base
  <1>1. s \div 1 = s
    OBVIOUS
  <1> QED
    BY <1>1, Weights DEF DigitOf

(* Numbers of m digits that agree in all of them are equal. *)
LEMMA SameDigits ==
    ASSUME NEW m \in 0 .. Registers,
           NEW s \in 0 .. Weight[m] - 1, NEW t \in 0 .. Weight[m] - 1,
           \A r \in 0 .. m - 1 : DigitOf(s, r) = DigitOf(t, r)
    PROVE  s = t
  <1> DEFINE Same(k) == \A x, y \in 0 .. Weight[k] - 1 :
                           (\A r \in 0 .. k - 1 : DigitOf(x, r) = DigitOf(y, r)) => x = y
             T == {k \in Nat : k =< Registers => Same(k)}
  <1>1. 0 \in T
    BY Weights
  <1>2. ASSUME NEW k \in T
        PROVE  k + 1 \in T
    <2>1. SUFFICES ASSUME k + 1 =< Registers, NEW x \in 0 .. Weight[k + 1] - 1,
                          NEW y \in 0 .. Weight[k + 1] - 1,
                          \A r \in 0 .. k : DigitOf(x, r) = DigitOf(y, r)
                   PROVE  x = y
      OBVIOUS
    <2>2. k \in Nat /\ k \in RegisterNumbers /\ Same(k)
      BY <2>1, GeometryAssumption DEF RegisterNumbers
    <2>3. Weight[k + 1] = Base * Weight[k] /\ Weight[k] \in Nat \ {0} /\ Base \in Nat \ {0}
      BY <2>2, Weights, GeometryAssumption DEF RegisterNumbers
    <2>4. /\ x \in Nat /\ y \in Nat /\ x \in Int /\ y \in Int
          /\ x < Base * Weight[k] /\ y < Base * Weight[k]
      BY <2>1, <2>3
    <2>5. PICK q \in Int, e \in 0 .. (Base - 1) : x = Base * q + e /\ x \div Base = q /\ x % Base = e
      BY <2>3, <2>4, QuotientRemainder
    <2>6. PICK p \in Int, f \in 0 .. (Base - 1) : y = Base * p + f /\ y \div Base = p /\ y % Base = f
      BY <2>3, <2>4, QuotientRemainder
    <2>7. q \in 0 .. Weight[k] - 1 /\ p \in 0 .. Weight[k] - 1
      BY <2>3, <2>5, <2>6, <2>4
    <2>8. ASSUME NEW r \in 0 .. k - 1
          PROVE  DigitOf(q, r) = DigitOf(p, r)
      <3>1. r \in RegisterNumbers /\ r + 1 \in RegisterNumbers /\ r + 1 \in 0 .. k
        <4>1. r \in Int /\ k \in Int /\ Registers \in Int /\ k =< Registers - 1
              /\ 0 =< r /\ r =< k - 1
          BY <2>1, <2>2, GeometryAssumption DEF RegisterNumbers
        <4> QED
          BY <4>1 DEF RegisterNumbers
      <3>2. DigitOf(x, r + 1) = DigitOf(q, r) /\ DigitOf(y, r + 1) = DigitOf(p, r)
        BY <2>5, <2>6, <2>4, <3>1, NextDigit
      <3> QED
        BY <2>1, <3>1, <3>2
    <2>9. q = p
      BY <2>2, <2>7, <2>8
    <2>10. e = f
      <3>1. DigitOf(x, 0) = e /\ DigitOf(y, 0) = f
        BY <2>5, <2>6, <2>4, FirstDigit
      <3>2. 0 \in 0 .. k
        BY <2>2
      <3> QED
        BY <2>1, <3>1, <3>2
    <2> QED
      BY <2>5, <2>6, <2>9, <2>10
  <1>3. T = Nat
    <2> HIDE DEF T
    <2>1. T \in SUBSET Nat
      BY DEF T
    <2> QED
      BY <1>1, <1>2, <2>1, Induction
  <1>4. Same(m)
    BY <1>3, GeometryAssumption
  <1> QED
    BY <1>4

(* Any digits are those of a sector. *)
LEMMA HasDigits ==
    ASSUME NEW d \in [RegisterNumbers -> 0 .. Base - 1]
    PROVE  \E s \in Sectors : \A r \in RegisterNumbers : DigitOf(s, r) = d[r]
  <1> DEFINE Has(k) == \E s \in 0 .. Weight[k] - 1 :
                          \A r \in 0 .. k - 1 : DigitOf(s, r) = d[Registers - k + r]
             T == {k \in Nat : k =< Registers => Has(k)}
  <1>1. 0 \in T
    BY Weights
  <1>2. ASSUME NEW k \in T
        PROVE  k + 1 \in T
    <2>1. SUFFICES ASSUME k + 1 =< Registers
                   PROVE  Has(k + 1)
      OBVIOUS
    <2>2. k \in Nat /\ k \in RegisterNumbers /\ Has(k) /\ Registers \in Nat
      BY <2>1, GeometryAssumption DEF RegisterNumbers
    <2>3. Weight[k + 1] = Base * Weight[k] /\ Weight[k] \in Nat \ {0} /\ Base \in Nat \ {0}
      BY <2>2, Weights, GeometryAssumption DEF RegisterNumbers
    <2>4. PICK t \in 0 .. Weight[k] - 1 :
             \A r \in 0 .. k - 1 : DigitOf(t, r) = d[Registers - k + r]
      BY <2>2
    <2>5. PICK e : e = d[Registers - (k + 1)]
      OBVIOUS
    <2>6. e \in 0 .. (Base - 1)
      BY <2>1, <2>2, <2>5 DEF RegisterNumbers
    <2>7. PICK s : s = Base * t + e
      OBVIOUS
    <2>8. s \in Nat /\ s \in 0 .. Weight[k + 1] - 1
      <3>1. Base * t \in Nat /\ Base * t =< Base * (Weight[k] - 1)
            /\ Base * (Weight[k] - 1) = Base * Weight[k] - Base
        BY <2>3
      <3>2. Base * Weight[k] \in Nat
        BY <2>3
      <3> QED
        BY <2>3, <2>6, <2>7, <3>1, <3>2
    <2>9. s \div Base = t /\ s % Base = e
      <3>1. /\ Base \in Nat \ {0} /\ s \in Int /\ t \in Int /\ e \in 0 .. (Base - 1)
            /\ s = Base * t + e
        BY <2>3, <2>6, <2>7, <2>8
      <3> QED
        BY <3>1, DivMod
    <2>10. ASSUME NEW r \in 0 .. k
           PROVE  DigitOf(s, r) = d[Registers - (k + 1) + r]
      <3>1. CASE r = 0
        <4>1. DigitOf(s, 0) = e /\ Registers - (k + 1) + 0 = Registers - (k + 1)
          BY <2>2, <2>8, <2>9, FirstDigit
        <4> QED
          BY <2>5, <3>1, <4>1
      <3>2. CASE r # 0
        <4>1. /\ r - 1 \in RegisterNumbers /\ r - 1 \in 0 .. k - 1 /\ (r - 1) + 1 = r
              /\ r \in RegisterNumbers
              /\ Registers - k + (r - 1) = Registers - (k + 1) + r
          BY <2>2, <3>2 DEF RegisterNumbers
        <4>2. DigitOf(s, (r - 1) + 1) = DigitOf(t, r - 1)
          BY <2>8, <2>9, <4>1, NextDigit
        <4> QED
          BY <2>4, <4>1, <4>2
      <3> QED
        BY <3>1, <3>2
    <2>11. (k + 1) - 1 = k
      BY <2>2
    <2> QED
      BY <2>8, <2>10, <2>11
  <1>3. T = Nat
    <2> HIDE DEF T
    <2>1. T \in SUBSET Nat
      BY DEF T
    <2> QED
      BY <1>1, <1>2, <2>1, Induction
  <1>4. Has(Registers)
    BY <1>3, GeometryAssumption
  <1>5. \A r \in RegisterNumbers : Registers - Registers + r = r
    BY GeometryAssumption DEF RegisterNumbers
  <1> QED
    BY <1>4, <1>5 DEF Sectors, Capacity, RegisterNumbers

(* The drive's registers name one sector. *)
LEMMA SelectedIs ==
    ASSUME NEW s \in Sectors, lba \in [RegisterNumbers -> 0 .. Base - 1],
           \A r \in RegisterNumbers : DigitOf(s, r) = lba[r]
    PROVE  SelectedSector = s
  <1>1. PICK x : x = SelectedSector
    OBVIOUS
  <1>2. x \in Sectors /\ \A r \in RegisterNumbers : DigitOf(x, r) = lba[r]
    BY <1>1 DEF SelectedSector
  <1>3. /\ Registers \in 0 .. Registers
        /\ x \in 0 .. Weight[Registers] - 1 /\ s \in 0 .. Weight[Registers] - 1
        /\ \A r \in 0 .. Registers - 1 : DigitOf(x, r) = DigitOf(s, r)
    BY <1>2, GeometryAssumption DEF Sectors, Capacity, RegisterNumbers
  <1> QED
    BY <1>1, <1>3, SameDigits

LEMMA SelectedTypes ==
    ASSUME lba \in [RegisterNumbers -> 0 .. Base - 1]
    PROVE  SelectedSector \in Sectors
  BY HasDigits DEF SelectedSector
-----------------------------------------------------------------------------
(* No value leaves its type, whatever is called and written. *)

(* During a call there is a sector left to do and no answer yet. *)
CallOpen == pc # "idle" => i < count /\ ret = "none"

(* What the sizes of sectors and of the disk are made of. *)
DataOK ==
    /\ left \in 0 .. Words
    /\ lba \in [RegisterNumbers -> 0 .. Base - 1]
    /\ disk \in [Sectors -> [WordNumbers -> Word]]
    /\ dirty \subseteq Sectors
    /\ sector \in [WordNumbers -> Word]
    /\ buf \in [0 .. MaxCount * Words - 1 -> Word]

CallOK ==
    /\ err \in BOOLEAN
    /\ writes \in 0 .. MaxWrites
    /\ at \in 0 .. Capacity
    /\ count \in 1 .. MaxCount
    /\ i \in 0 .. count
    /\ n \in 0 .. (IF pc = "setup" THEN Registers ELSE Words) - 1
    /\ ret \in {"none", "ok", "failed"}

TypeInv == IInv /\ CallOK /\ CallOpen /\ DataOK

LEMMA WordsAre ==
    /\ Floating \in Word
    /\ \A s \in Sectors, w \in WordNumbers, b \in BOOLEAN : <<s, w, b>> \in Word
  BY DEF Floating, Word

LEMMA DigitTypes ==
    ASSUME NEW s \in Int, NEW r \in RegisterNumbers
    PROVE  DigitOf(s, r) \in 0 .. Base - 1
  <1>1. r \in 0 .. Registers
    BY GeometryAssumption DEF RegisterNumbers
  <1>2. PICK w \in Nat \ {0} : w = Weight[r]
    BY <1>1, Weights
  <1>3. PICK q \in Int : q = s \div w
    BY <1>2
  <1>4. q % Base \in 0 .. Base - 1
    BY <1>3, GeometryAssumption
  <1> QED
    BY <1>2, <1>3, <1>4 DEF DigitOf

LEMMA InitTypes == Init => TypeInv
  <1> SUFFICES ASSUME Init PROVE TypeInv
    OBVIOUS
  <1>1. CallOK /\ CallOpen
    <2>1. err \in BOOLEAN
      BY DEF Init
    <2>2. Capacity \in Nat \ {0}
      BY Weights
    <2>3. pc = "setup" /\ ret = "none" /\ at = 0 /\ count = 1 /\ i = 0 /\ n = 0 /\ writes = 0
      BY DEF Init
    <2> QED
      BY <2>1, <2>2, <2>3, GeometryAssumption, CallsAssumption DEF CallOK, CallOpen
  <1>2. lba \in [RegisterNumbers -> 0 .. Base - 1]
    BY GeometryAssumption DEF Init
  <1>3. disk \in [Sectors -> [WordNumbers -> Word]]
    BY WordsAre DEF Init
  <1>4. sector \in [WordNumbers -> Word] /\ buf \in [0 .. MaxCount * Words - 1 -> Word]
    BY WordsAre DEF Init
  <1>5. left \in 0 .. Words /\ dirty \subseteq Sectors
    BY GeometryAssumption DEF Init
  <1> QED
    BY InitInvariant, <1>1, <1>2, <1>3, <1>4, <1>5 DEF TypeInv, DataOK

LEMMA DriveKeepsTypes == TypeInv /\ Drive => TypeInv'
  <1> SUFFICES ASSUME TypeInv, Drive PROVE TypeInv'
    OBVIOUS
  <1>1. IInv'
    BY DriveKeepsInvariant DEF TypeInv
  <1>2. CallOK' /\ CallOpen'
    BY DEF TypeInv, CallOK, CallOpen, Drive, driver, Show, Transfer, Store,
           Flush, Fail, Break
  <1>3. DataOK'
    <2>1. SelectedSector \in Sectors
      BY SelectedTypes DEF TypeInv, DataOK
    <2>2. UNCHANGED <<lba, sector, buf>>
      BY DEF Drive, driver, Show, Transfer, Store, Flush, Fail, Break
    <2>3. left' \in {left, Words} /\ Words \in 0 .. Words
      BY GeometryAssumption DEF Drive, Show, Transfer, Store, Flush, Fail, Break
    <2>4. /\ disk' \in {disk, [disk EXCEPT ![SelectedSector] = sector]}
          /\ dirty' \in {dirty, {}, dirty \cup {SelectedSector}}
      BY DEF Drive, Show, Transfer, Store, Flush, Fail, Break
    <2> QED
      BY <2>1, <2>2, <2>3, <2>4 DEF TypeInv, DataOK
  <1> QED
    BY <1>1, <1>2, <1>3 DEF TypeInv

LEMMA DriverKeepsTypes == TypeInv /\ Driver => TypeInv'
  <1> SUFFICES ASSUME TypeInv, Driver PROVE TypeInv'
    OBVIOUS
  <1>1. IInv'
    BY DriverKeepsInvariant, MoveKeepsInvariant DEF TypeInv
  <1>2. /\ pc = "move" => phase = "data" /\ left = Words - n
        /\ phase = "data" => n < Words /\ left = Words - n
        /\ pc \notin {"setup", "move"} => n = 0
        /\ n \in Nat /\ left \in Int /\ i \in Int /\ count \in Int
    BY DEF TypeInv, IInv, MoveHasData, DataOwned, CounterAtZero, ControlOK, CallOK
  <1>3. CallOK' /\ CallOpen'
    <2> USE <1>2, GeometryAssumption, CallsAssumption
        DEF TypeInv, CallOK, CallOpen, drive, Call, Return, Goto
    <2>1. CASE StartCall BY <2>1 DEF StartCall
    <2>2. CASE SetRegister BY <2>2 DEF SetRegister, WriteRegister
    <2>3. CASE Command BY <2>3 DEF Command, WriteCommand
    <2>4. CASE Delay BY <2>4 DEF Delay
    <2>5. CASE IdentifyStatus BY <2>5 DEF IdentifyStatus
    <2>6. CASE IdentifyBusy BY <2>6 DEF IdentifyBusy
    <2>7. CASE Signature BY <2>7 DEF Signature
    <2>8. CASE Poll BY <2>8 DEF Poll
    <2>9. CASE Check BY <2>9 DEF Check
    <2>10. CASE MoveIdentify BY <2>10 DEF MoveIdentify, WordMoved, NextWord
    <2>11. CASE MoveRead BY <2>11 DEF MoveRead, WordMoved, NextWord
    <2>12. CASE MoveWrite BY <2>12 DEF MoveWrite, WordMoved, NextWord
    <2>13. CASE CacheFlush BY <2>13 DEF CacheFlush, WriteCommand
    <2>14. CASE FlushStatus BY <2>14 DEF FlushStatus
    <2>15. CASE NextSector BY <2>15 DEF NextSector
    <2> QED
      BY <2>1, <2>2, <2>3, <2>4, <2>5, <2>6, <2>7, <2>8, <2>9, <2>10, <2>11,
         <2>12, <2>13, <2>14, <2>15 DEF Driver
  <1>4. DataOK'
    <2> USE DEF drive, Call, Return, Goto
    <2>1. CASE SetRegister
      <3>1. RegisterAt(n) \in RegisterNumbers
        BY <1>2, <2>1, GeometryAssumption DEF SetRegister, TypeInv, CallOK, RegisterAt, RegisterNumbers
      <3>2. Digit(RegisterAt(n)) \in 0 .. Base - 1
        <4>1. at + i \in Int
          BY <1>2, Weights DEF TypeInv, CallOK
        <4> QED
          BY <3>1, <4>1, DigitTypes DEF Digit
      <3>3. lba' \in [RegisterNumbers -> 0 .. Base - 1]
        BY <2>1, <3>1, <3>2 DEF SetRegister, WriteRegister, TypeInv, DataOK
      <3> QED
        BY <2>1, <3>3 DEF SetRegister, WriteRegister, TypeInv, DataOK
    <2>2. CASE pc = "move"
      <3>1. /\ WordMoved
            /\ buf' = buf \/ buf' = [buf EXCEPT ![i * Words + n] = DataWord]
            /\ \/ sector' = sector
               \/ sector' = [sector EXCEPT ![Words - left] =
                               <<(at + i) % Capacity, n, TRUE>>]
        BY <2>2 DEF Driver, StartCall, SetRegister, Command, Delay, IdentifyStatus,
           IdentifyBusy, Signature, Poll, Check, CacheFlush, FlushStatus,
           NextSector, MoveIdentify, MoveRead, MoveWrite
      <3>2. left' = left - 1 /\ UNCHANGED <<lba, disk, dirty>>
        BY <1>2, <2>2, <3>1 DEF WordMoved
      <3>3. Words - left \in WordNumbers /\ n \in WordNumbers /\ left - 1 \in 0 .. Words
        BY <1>2, <2>2, GeometryAssumption DEF WordNumbers
      <3>4. DataWord \in Word
        BY <3>3, SelectedTypes, WordsAre DEF DataWord, TypeInv, DataOK
      <3>5. (at + i) % Capacity \in Sectors
        BY <1>2, Weights DEF TypeInv, CallOK, Sectors
      <3>6. <<(at + i) % Capacity, n, TRUE>> \in Word
        BY <3>3, <3>5, WordsAre
      <3>7. buf' \in [0 .. MaxCount * Words - 1 -> Word]
        BY <3>1, <3>4 DEF TypeInv, DataOK
      <3>8. sector' \in [WordNumbers -> Word]
        BY <3>1, <3>6 DEF TypeInv, DataOK
      <3> QED
        BY <3>2, <3>3, <3>7, <3>8 DEF TypeInv, DataOK
    <2>3. CASE StartCall
      BY <2>3, WordsAre DEF StartCall, TypeInv, DataOK
    <2>4. CASE Command \/ Delay \/ IdentifyStatus \/ IdentifyBusy \/ Signature
               \/ Poll \/ Check \/ CacheFlush \/ FlushStatus \/ NextSector
      <3>1. UNCHANGED <<left, lba, disk, dirty, sector, buf>>
        BY <2>4 DEF Command, Delay, IdentifyStatus, IdentifyBusy, Signature, Poll,
           Check, CacheFlush, FlushStatus, NextSector, WriteCommand
      <3> QED
        BY <3>1 DEF TypeInv, DataOK
    <2> QED
      BY <2>1, <2>2, <2>3, <2>4 DEF Driver, MoveIdentify, MoveRead, MoveWrite
  <1> QED
    BY <1>1, <1>3, <1>4 DEF TypeInv

LEMMA StepKeepsTypes == TypeInv /\ [Next]_vars => TypeInv'
  <1> SUFFICES ASSUME TypeInv, [Next]_vars PROVE TypeInv'
    OBVIOUS
  <1>1. CASE UNCHANGED vars
    BY <1>1, StepKeepsInvariant DEF vars, TypeInv, CallOK, CallOpen, DataOK
  <1> QED
    BY <1>1, DriveKeepsTypes, DriverKeepsTypes DEF Next

LEMMA TypesAre == TypeInv => TypeOK
  BY DEF TypeInv, TypeOK, CallOK, DataOK, IInv, ControlOK

(* Every variable stays in its type, whatever calls are made and whatever  *)
(* the drive does: the loops of Read28, Write28 and of a sector's words    *)
(* stay in their ranges (ATA.cpp:113-137, 251-255, 276-281).               *)
THEOREM TypeCorrect == Spec => []TypeOK
  BY InitTypes, StepKeepsTypes, TypesAre, PTL DEF Spec
-----------------------------------------------------------------------------
(* What a read returns, as long as nothing is written. *)

(* The drive's registers get the digits of the sector the call is at, and  *)
(* keep them until its words have been moved: the drive takes the writes,  *)
(* for it is at rest between commands.                                     *)
Addressed ==
    kind = "ata" /\ op = "read" =>
        /\ pc = "setup" =>
              \A k \in 0 .. n - 1 : lba[RegisterAt(k)] = DigitOf(at + i, RegisterAt(k))
        /\ pc \in {"command", "check", "move"} \cup Waiting =>
              \A r \in RegisterNumbers : lba[r] = DigitOf(at + i, r)

(* The buffer's first m words are those of the sectors asked for. *)
Filled(m) == \A w \in 0 .. m - 1 :
                at + w \div Words \in Sectors => buf[w] = disk[at + w \div Words][w % Words]

BufferFilled == op = "read" /\ ret # "failed" => Filled(WordsRead)

NothingToStore == cmd \notin {"write", "store"}

DataInv == /\ UntilWriteInv /\ TypeInv
           /\ writes = 0 => NothingToStore /\ Addressed /\ BufferFilled

LEMMA InitData == Init => DataInv
  <1> SUFFICES ASSUME Init PROVE DataInv
    OBVIOUS
  <1>1. NothingToStore /\ Addressed /\ BufferFilled
    BY DEF Init, NothingToStore, Addressed, BufferFilled
  <1> QED
    BY <1>1, InitReadInvariant, InitTypes DEF DataInv

(* The registers name the sector the call is at. *)
LEMMA ReadsItsSector ==
    ASSUME DataInv, writes = 0, pc = "move", op = "read", at + i \in Sectors
    PROVE  DataWord = disk[at + i][n]
  <1>1. /\ kind = "ata" /\ phase = "data" /\ left = Words - n /\ n \in Int
        /\ lba \in [RegisterNumbers -> 0 .. Base - 1]
    BY DEF DataInv, TypeInv, DataOK, CallOK, IInv, MoveHasData, DataOwned, ControlOK
  <1>2. \A r \in RegisterNumbers : DigitOf(at + i, r) = lba[r]
    BY <1>1 DEF DataInv, Addressed
  <1>3. SelectedSector = at + i
    BY <1>1, <1>2, SelectedIs
  <1>4. Words - left = n
    BY <1>1, GeometryAssumption
  <1> QED
    BY <1>1, <1>3, <1>4 DEF DataWord

(* The drive's steps change neither its registers nor, without a write,    *)
(* its disk.                                                               *)
LEMMA DriveKeepsData ==
    ASSUME DataInv, writes = 0, Drive
    PROVE  NothingToStore' /\ Addressed' /\ BufferFilled'
  <1>1. /\ UNCHANGED <<kind, lba, pc, op, at, count, i, n, buf, ret>>
        /\ cmd' = cmd
    BY DEF Drive, driver, Show, Transfer, Store, Flush, Fail, Break
  <1>2. disk' = disk
    BY DEF DataInv, NothingToStore, Drive, Show, Transfer, Store, Flush, Fail, Break
  <1>3. NothingToStore' /\ Addressed'
    BY <1>1 DEF DataInv, NothingToStore, Addressed, RegisterAt
  <1>4. WordsRead' = WordsRead
    BY <1>1 DEF WordsRead
  <1> QED
    BY <1>1, <1>2, <1>3, <1>4 DEF DataInv, BufferFilled, Filled

(* The driver's steps outside of the loops over registers and words. *)
LEMMA DriverKeepsData ==
    ASSUME DataInv, writes = 0, writes' = 0,
           \/ Command \/ Delay \/ IdentifyStatus \/ IdentifyBusy \/ Signature
           \/ Poll \/ Check \/ CacheFlush \/ FlushStatus
    PROVE  NothingToStore' /\ Addressed' /\ BufferFilled'
  <1>1. UNCHANGED <<kind, lba, disk, op, at, count, i, n, buf>>
    BY DEF Call, drive, Command, WriteCommand, Delay, IdentifyStatus, IdentifyBusy,
           Signature, Poll, Check, CacheFlush, FlushStatus
  <1>2. pc \notin {"flush", "flushed"} /\ op # "write" /\ op \in {"init", "read", "write"}
    BY DEF DataInv, UntilWriteInv, ReadInv, NoWrite, TypeInv, IInv, ControlOK
  <1>3. NothingToStore'
    BY <1>2 DEF DataInv, NothingToStore, drive, Command, WriteCommand, Delay,
           IdentifyStatus, IdentifyBusy, Signature, Poll, Check, CacheFlush, FlushStatus
  <1>4. /\ pc \in {"command", "check"} \cup Waiting
        /\ pc' \in {"idle", "check", "move"} \cup Waiting
    BY <1>2 DEF Waiting, Return, Command, Delay, IdentifyStatus, IdentifyBusy,
           Signature, Poll, Check, CacheFlush, FlushStatus
  <1>5. Addressed'
    BY <1>1, <1>4 DEF DataInv, Addressed, Waiting
  <1>6. /\ ret = "none" /\ ret' \in {"none", "failed"}
        /\ pc' = "move" => n = 0
    <2>1. ret = "none" /\ n = 0
      BY <1>4 DEF Waiting, DataInv, TypeInv, CallOpen, IInv, CounterAtZero
    <2> QED
      BY <1>2, <2>1 DEF Return, Command, Delay, IdentifyStatus, IdentifyBusy,
           Signature, Poll, Check, CacheFlush, FlushStatus
  <1>7. i \in Int /\ Words \in Int
    BY GeometryAssumption DEF DataInv, TypeInv, CallOK
  <1>8. ret' # "failed" => WordsRead' = WordsRead
    BY <1>1, <1>4, <1>6, <1>7 DEF WordsRead, Waiting
  <1> QED
    BY <1>1, <1>3, <1>5, <1>6, <1>8 DEF DataInv, BufferFilled, Filled

LEMMA SetRegisterKeepsData ==
    ASSUME DataInv, writes = 0, SetRegister
    PROVE  NothingToStore' /\ Addressed' /\ BufferFilled'
  <1>1. /\ UNCHANGED <<kind, cmd, disk, op, at, count, i, buf, ret>>
        /\ pc = "setup"
        /\ IF n + 1 < Registers THEN n' = n + 1 /\ pc' = "setup"
                                ELSE n' = 0 /\ pc' = "command"
    BY DEF SetRegister, WriteRegister, Call
  <1>2. NothingToStore'
    BY <1>1 DEF DataInv, NothingToStore
  <1>3. /\ n \in 0 .. Registers - 1 /\ i \in Int /\ at \in Int /\ Registers \in Nat
        /\ lba \in [RegisterNumbers -> 0 .. Base - 1]
    BY <1>1, GeometryAssumption, Weights DEF DataInv, TypeInv, CallOK, DataOK
  <1>4. ASSUME kind = "ata", op = "read"
        PROVE  \A k \in 0 .. n : lba'[RegisterAt(k)] = DigitOf(at + i, RegisterAt(k))
    <2>1. phase \in {"ready", "fault"}
      BY <1>1, <1>4 DEF DataInv, UntilWriteInv, ReadInv, AtRest
    <2>2. lba' = [lba EXCEPT ![RegisterAt(n)] = DigitOf(at + i, RegisterAt(n))]
      BY <2>1 DEF SetRegister, WriteRegister, TakesWrites, Digit
    <2>3. \A k \in 0 .. Registers - 1 : RegisterAt(k) \in RegisterNumbers
      BY <1>3, GeometryAssumption DEF RegisterAt, RegisterNumbers
    <2>4. ASSUME NEW k \in 0 .. n
          PROVE  lba'[RegisterAt(k)] = DigitOf(at + i, RegisterAt(k))
      <3>1. RegisterAt(k) \in RegisterNumbers
        BY <1>3, <2>3
      <3>2. CASE RegisterAt(k) = RegisterAt(n)
        BY <1>3, <2>2, <3>1, <3>2
      <3>3. CASE RegisterAt(k) # RegisterAt(n)
        <4>1. k \in 0 .. n - 1
          BY <1>3, <3>3
        <4>2. lba[RegisterAt(k)] = DigitOf(at + i, RegisterAt(k))
          BY <1>1, <1>4, <4>1 DEF DataInv, Addressed
        <4> QED
          BY <1>3, <2>2, <3>1, <3>3, <4>2
      <3> QED
        BY <3>2, <3>3
    <2> QED
      BY <2>4
  <1>5. Addressed'
    <2>1. SUFFICES ASSUME kind = "ata", op = "read" PROVE Addressed'
      BY <1>1 DEF Addressed
    <2>2. CASE n + 1 < Registers
      <3>1. n' - 1 = n /\ pc' = "setup"
        BY <1>1, <1>3, <2>2
      <3> QED
        BY <1>1, <1>4, <2>1, <3>1 DEF Addressed, Waiting, RegisterAt
    <2>3. CASE ~(n + 1 < Registers)
      <3>1. n = Registers - 1 /\ pc' = "command"
        BY <1>1, <1>3, <2>3
      <3>2. ASSUME NEW r \in RegisterNumbers
            PROVE  lba'[r] = DigitOf(at + i, r)
        <4>1. PICK k \in 0 .. n : RegisterAt(k) = r
          <5>1. CASE r = Registers - 1
            <6>1. 0 \in 0 .. n /\ RegisterAt(0) = r
              BY <1>3, <5>1 DEF RegisterAt
            <6> QED
              BY <6>1
          <5>2. CASE r # Registers - 1
            <6>1. r + 1 \in 0 .. n /\ RegisterAt(r + 1) = r
              BY <1>3, <3>1, <5>2 DEF RegisterAt, RegisterNumbers
            <6> QED
              BY <6>1
          <5> QED
            BY <5>1, <5>2
        <4> QED
          BY <1>4, <2>1, <4>1
      <3> QED
        BY <1>1, <3>1, <3>2 DEF Addressed
    <2> QED
      BY <2>2, <2>3
  <1>6. WordsRead' = WordsRead
    BY <1>1 DEF WordsRead
  <1> QED
    BY <1>1, <1>2, <1>5, <1>6 DEF DataInv, BufferFilled, Filled

(* Word n of the sector the call is at goes to its own place in the        *)
(* buffer, so the buffer is filled one word further.                       *)
LEMMA MoveReadFills ==
    ASSUME DataInv, writes = 0, MoveRead, NEW m, m = i * Words + n + 1
    PROVE  Filled(m)'
  <1>1. /\ UNCHANGED <<disk, at, i>>
        /\ buf' = [buf EXCEPT ![i * Words + n] = DataWord]
        /\ pc = "move" /\ op = "read"
    BY DEF MoveRead, WordMoved, Call
  <1>2. /\ i \in Nat /\ count \in Nat /\ i < count /\ count =< MaxCount /\ at \in Nat
        /\ n \in 0 .. (Words - 1) /\ Words \in Nat \ {0} /\ MaxCount \in Nat \ {0}
        /\ ret = "none"
        /\ buf \in [0 .. MaxCount * Words - 1 -> Word]
    BY <1>1, GeometryAssumption, CallsAssumption, Weights
    DEF DataInv, TypeInv, CallOK, CallOpen, DataOK
  <1>3. PICK p : p = i * Words + n
    OBVIOUS
  <1>4. p \in Nat /\ p \div Words = i /\ p % Words = n
    <2>1. PICK iw : iw = Words * i
      OBVIOUS
    <2>2. iw \in Nat /\ iw = i * Words
      BY <1>2, <2>1
    <2>3. p \in Int /\ p = Words * i + n /\ i \in Int
      BY <1>2, <1>3, <2>1, <2>2
    <2>4. p \in Nat
      BY <1>2, <1>3, <2>2
    <2> QED
      BY <1>2, <2>3, <2>4, DivMod
  <1>5. p \in 0 .. MaxCount * Words - 1
    <2>1. PICK iw, mw : iw = i * Words /\ mw = MaxCount * Words
      OBVIOUS
    <2>2. (MaxCount - (i + 1)) * Words \in Nat
      BY <1>2
    <2>3. (MaxCount - (i + 1)) * Words = MaxCount * Words - i * Words - Words
      BY <1>2
    <2>4. iw \in Nat /\ mw \in Nat /\ mw - iw - Words \in Nat
      BY <1>2, <2>1, <2>2, <2>3
    <2>5. p = iw + n
      BY <1>3, <2>1
    <2>6. p =< mw - 1
      BY <1>2, <2>4, <2>5
    <2> QED
      BY <1>4, <2>1, <2>4, <2>6
  <1>6. Filled(p)
    <2>1. WordsRead = p
      BY <1>1, <1>2, <1>3 DEF WordsRead
    <2> QED
      BY <1>1, <1>2, <2>1 DEF DataInv, BufferFilled
  <1>7. ASSUME NEW w \in 0 .. p, at + w \div Words \in Sectors
        PROVE  buf'[w] = disk[at + w \div Words][w % Words]
    <2>1. CASE w = p
      <3>1. DataWord = disk[at + i][n]
        BY <1>1, <1>4, <1>7, <2>1, ReadsItsSector
      <3>2. buf'[p] = DataWord
        BY <1>1, <1>2, <1>3, <1>5
      <3> QED
        BY <1>4, <2>1, <3>1, <3>2
    <2>2. CASE w # p
      <3>1. w \in 0 .. p - 1 /\ w \in 0 .. MaxCount * Words - 1
        <4>1. PICK mw : mw = MaxCount * Words
          OBVIOUS
        <4>2. mw \in Nat
          BY <1>2, <4>1
        <4> QED
          BY <1>4, <1>5, <2>2, <4>1, <4>2
      <3>2. buf[w] = disk[at + w \div Words][w % Words]
        BY <1>6, <1>7, <3>1 DEF Filled
      <3>3. buf'[w] = buf[w]
        BY <1>1, <1>2, <1>3, <2>2, <3>1
      <3> QED
        BY <3>2, <3>3
    <2> QED
      BY <2>1, <2>2
  <1>8. m - 1 = p
    <2>1. i * Words \in Int
      BY <1>2
    <2> QED
      BY <1>2, <1>3, <2>1
  <1> QED
    BY <1>1, <1>7, <1>8 DEF Filled

LEMMA MoveReadKeepsData ==
    ASSUME DataInv, writes = 0, MoveRead
    PROVE  NothingToStore' /\ Addressed' /\ BufferFilled'
  <1>1. /\ UNCHANGED <<kind, lba, disk, op, at, count, i, ret>>
        /\ pc = "move" /\ op = "read"
        /\ WordMoved
        /\ IF n + 1 < Words THEN n' = n + 1 /\ pc' = "move"
                            ELSE n' = 0 /\ pc' = "settle"
    BY DEF MoveRead, WordMoved, Call, NextWord, Goto
  <1>2. NothingToStore'
    BY <1>1 DEF DataInv, NothingToStore, WordMoved
  <1>3. Addressed'
    BY <1>1 DEF DataInv, Addressed, Waiting
  <1>4. PICK m : m = i * Words + n + 1
    OBVIOUS
  <1>5. WordsRead' = m
    <2>1. ret = "none" /\ n \in 0 .. (Words - 1) /\ Words \in Nat /\ i \in Int
      BY <1>1, GeometryAssumption DEF DataInv, TypeInv, CallOpen, CallOK
    <2>2. PICK iw : iw = i * Words
      OBVIOUS
    <2>3. iw \in Int
      BY <2>1, <2>2
    <2>4. WordsRead' = IF n + 1 < Words THEN iw + (n + 1) ELSE iw + Words
      BY <1>1, <2>1, <2>2 DEF WordsRead
    <2>5. WordsRead' = iw + n + 1
      BY <2>1, <2>3, <2>4
    <2> QED
      BY <1>4, <2>2, <2>5
  <1>6. Filled(m)'
    BY <1>4, MoveReadFills
  <1> QED
    BY <1>1, <1>2, <1>3, <1>5, <1>6 DEF BufferFilled, Filled

(* A sector whose words are all moved is counted, and the next one begins  *)
(* in the buffer where it ended.                                           *)
LEMMA NextSectorKeepsData ==
    ASSUME DataInv, writes = 0, NextSector
    PROVE  NothingToStore' /\ Addressed' /\ BufferFilled'
  <1>1. /\ UNCHANGED <<kind, cmd, lba, disk, op, at, count, n, buf>>
        /\ pc = "settle" /\ i' = i + 1
        /\ IF i + 1 < count THEN pc' = "setup" /\ ret' = ret
                            ELSE pc' = "idle" /\ ret' = "ok"
    BY DEF NextSector, Call, drive, Goto, Return
  <1>2. /\ ret = "none" /\ n = 0 /\ i \in Nat /\ count \in Nat /\ i < count
        /\ Words \in Nat
    BY <1>1, GeometryAssumption
    DEF DataInv, TypeInv, CallOpen, CallOK, IInv, CounterAtZero
  <1>3. NothingToStore'
    BY <1>1 DEF DataInv, NothingToStore
  <1>4. Addressed'
    BY <1>1, <1>2 DEF Addressed, Waiting
  <1>5. WordsRead' = WordsRead
    <2>1. (i + 1) * Words = i * Words + Words /\ (i + 1) * Words + 0 = (i + 1) * Words
      BY <1>2
    <2>2. WordsRead = i * Words + Words
      BY <1>1, <1>2 DEF WordsRead
    <2>3. CASE i + 1 < count
      BY <1>1, <1>2, <2>1, <2>2, <2>3 DEF WordsRead
    <2>4. CASE ~(i + 1 < count)
      <3>1. count = i + 1
        BY <1>2, <2>4
      <3> QED
        BY <1>1, <2>1, <2>2, <2>4, <3>1 DEF WordsRead
    <2> QED
      BY <2>3, <2>4
  <1>6. ret # "failed"
    BY <1>2
  <1> QED
    BY <1>1, <1>3, <1>4, <1>5, <1>6 DEF DataInv, BufferFilled, Filled

(* A new call starts with nothing read; IDENTIFY's words go elsewhere.     *)
LEMMA OtherStepsKeepData ==
    ASSUME DataInv, writes = 0, writes' = 0, StartCall \/ MoveIdentify \/ MoveWrite
    PROVE  NothingToStore' /\ Addressed' /\ BufferFilled'
  <1>1. CASE StartCall
    <2>1. /\ UNCHANGED <<kind, cmd>>
          /\ pc' = "setup" /\ i' = 0 /\ n' = 0 /\ ret' = "none"
      BY <1>1 DEF StartCall, drive
    <2>2. Words \in Nat
      BY GeometryAssumption
    <2>3. WordsRead' = 0
      BY <2>1, <2>2 DEF WordsRead
    <2> QED
      BY <2>1, <2>3 DEF DataInv, NothingToStore, Addressed, BufferFilled, Filled, Waiting
  <1>2. CASE MoveIdentify
    BY <1>2 DEF MoveIdentify, WordMoved, Call, DataInv, NothingToStore, Addressed,
       BufferFilled
  <1>3. CASE MoveWrite
    BY <1>3 DEF MoveWrite, DataInv, UntilWriteInv, ReadInv, NoWrite
  <1> QED
    BY <1>1, <1>2, <1>3

LEMMA StepKeepsData == DataInv /\ [Next]_vars => DataInv'
  <1> SUFFICES ASSUME DataInv, [Next]_vars PROVE DataInv'
    OBVIOUS
  <1>1. UntilWriteInv' /\ TypeInv'
    BY StepKeepsReadInvariant, StepKeepsTypes DEF DataInv
  <1>2. writes' \in {writes, writes + 1} /\ writes \in Nat
    BY DEF Next, Drive, driver, vars, Driver, StartCall, SetRegister, Command,
       Delay, IdentifyStatus, IdentifyBusy, Signature, Poll, Check,
       MoveIdentify, MoveRead, MoveWrite, CacheFlush, FlushStatus, NextSector,
       Call, DataInv, UntilWriteInv
  <1>3. ASSUME writes' = 0
        PROVE  NothingToStore' /\ Addressed' /\ BufferFilled'
    <2>1. writes = 0
      BY <1>2, <1>3
    <2>2. CASE Drive
      BY <2>1, <2>2, DriveKeepsData
    <2>3. CASE Driver
      BY <1>3, <2>1, <2>3, DriverKeepsData, SetRegisterKeepsData, MoveReadKeepsData,
         NextSectorKeepsData, OtherStepsKeepData DEF Driver
    <2>4. CASE UNCHANGED vars
      BY <2>1, <2>4 DEF vars, DataInv, NothingToStore, Addressed, BufferFilled,
         Filled, WordsRead, RegisterAt
    <2> QED
      BY <2>2, <2>3, <2>4 DEF Next
  <1> QED
    BY <1>1, <1>3 DEF DataInv

(* Whatever sectors are asked for, at whatever pace of the drive and after *)
(* whatever other calls of Read28: the buffer holds the sectors' contents  *)
(* (ATA.cpp:113-124, 235-255).                                             *)
THEOREM ReadsAreRight == Spec => []ReadReturnsSectors
  <1>1. DataInv => ReadReturnsSectors
    BY TypesAre DEF DataInv, BufferFilled, Filled, ReadReturnsSectors
  <1> QED
    BY InitData, StepKeepsData, <1>1, PTL DEF Spec
=============================================================================
