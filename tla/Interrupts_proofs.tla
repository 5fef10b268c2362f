-------------------------- MODULE Interrupts_proofs --------------------------
(***************************************************************************)
(* Proofs about Processor::Init, the exception stubs and the remapping of  *)
(* the controllers, for every set of exceptions, error codes and firmware  *)
(* masks and for any depth of nesting.                                     *)
(***************************************************************************)
EXTENDS Interrupts, TLAPS

(* What is set after each step of Processor::Init: the descriptors and     *)
(* gates up to the loop index, all of them after the loop; the tables that *)
(* are loaded are complete.                                                *)
LoopInv == /\ boot = "gdt" => next \in 0 .. 4
           /\ boot = "idt" => next \in 0 .. 31
           /\ boot = "masks" => next \in 0 .. 1
           /\ boot = "remap" => next \in 0 .. 9
           /\ boot \in {"lgdt", "lidt", "done"} => next = 0

GDTInv == /\ \A s \in 0 .. 4 : gdt[s] = IF boot = "gdt" /\ s >= next THEN "none" ELSE Segments[s]
          /\ "gdt" \in loaded <=> boot \notin {"gdt", "lgdt"}

IDTInv == /\ \A v \in 0 .. 31 :
                gates[v] = IF boot \in {"gdt", "lgdt"} \/ (boot = "idt" /\ v >= next)
                           THEN NoGate ELSE Gate(v)
          /\ "idt" \in loaded <=> boot \in {"masks", "remap", "done"}

(* The masks of the firmware: in the controllers until the first command   *)
(* word clears them, and saved before that.                                *)
MaskInv == /\ \A k \in 1 .. 2 :
                 boot \in {"remap", "done"} \/ (boot = "masks" /\ next >= k)
                     => saved[k] = firmware[k]
           /\ boot \notin {"remap", "done"} =>
                 \A k \in 1 .. 2 : pic[k].imr = firmware[k]

(* How far the initialisation of a controller has come after the first n   *)
(* of its four words.                                                      *)
Initialised(p, n, offset, cascade) ==
    /\ n = 1 => p.icw = 2
    /\ n = 2 => p.icw = 3
    /\ n = 3 => p.icw = 4
    /\ n >= 4 => p.icw = 0
    /\ n >= 2 => p.offset = offset
    /\ n >= 3 => p.cascade = cascade

PICInv == /\ boot = "remap" => /\ Initialised(pic[1], next, 32, 4)
                               /\ Initialised(pic[2], next - 4, 40, 2)
                               /\ next >= 9 => pic[1].imr = firmware[1]
          /\ boot = "done" => /\ Initialised(pic[1], 4, 32, 4) /\ Initialised(pic[2], 4, 40, 2)
                              /\ \A k \in 1 .. 2 : pic[k].imr = firmware[k]

Fault == [vector : Exceptions, code : Nat, at : {"entry", "save", "handler", "panic"},
          esp : Nat, told : Int, present : Int]

(* Word k of the stack s, of which the top one is word Len(s). *)
Word(s, k, what, value) == k \in 1 .. Len(s) /\ s[k] = <<what, value>>

(* The context of the code that an exception interrupted at depth d, the   *)
(* last of its words at top.                                               *)
Context(s, top, d) == /\ Word(s, top, "EIP", d) /\ Word(s, top - 1, "CS", d)
                      /\ Word(s, top - 2, "EFLAGS", d)

(* The frame of exception v at depth d, which the handler finds at esp. *)
FrameAt(s, esp, v, d) ==
    /\ Word(s, esp, "DS", d) /\ Word(s, esp - 1, "EDI", d) /\ Word(s, esp - 2, "ESI", d)
    /\ Word(s, esp - 3, "EBP", d) /\ Word(s, esp - 5, "EBX", d) /\ Word(s, esp - 6, "EDX", d)
    /\ Word(s, esp - 7, "ECX", d) /\ Word(s, esp - 8, "EAX", d)
    /\ Word(s, esp - 9, "stub", v) /\ Word(s, esp - 10, "stub", 0)
    /\ v \notin WithErrorCode => Context(s, esp - 11, d - 1)

FrameInv == \A d \in Frames : FrameAt(stack, faults[d].esp, faults[d].vector, d)

(* What the handler of the innermost exception pushes next to: the stubs   *)
(* that wait in the outer ones never go on.                                *)
EntryAt(s, v, d) == v \notin WithErrorCode => Context(s, Len(s), d - 1)
StubAt(s, v, d) == /\ Word(s, Len(s), "stub", v) /\ Word(s, Len(s) - 1, "stub", 0)
                   /\ v \notin WithErrorCode => Context(s, Len(s) - 2, d - 1)

TopInv == Depth > 0 => /\ Current.at = "entry" => EntryAt(stack, Current.vector, Depth)
                       /\ Current.at = "save" => StubAt(stack, Current.vector, Depth)

StackInv == /\ faults \in Seq(Fault) /\ stack \in Seq(StackWord)
            /\ \A d \in 1 .. Depth : gates[faults[d].vector] = Gate(faults[d].vector)
            /\ TopInv /\ FrameInv

ResetInv == cpu = "reset" => ~({"gdt", "idt"} \subseteq loaded)

-----------------------------------------------------------------------------
(* Processor::Init. *)

PIC == [offset : 0 .. 255, imr : Masks \cup {0}, icw : {0, 2, 3, 4}, cascade : 0 .. 255]

(* TypeOK, but for the stack and the faults. *)
BootTypes == /\ boot \in {"gdt", "lgdt", "idt", "lidt", "masks", "remap", "done"}
             /\ gdt \in [0 .. 4 -> {Segments[s] : s \in 0 .. 4}]
             /\ gates \in [0 .. 31 -> {NoGate} \cup {Gate(v) : v \in 0 .. 31}]
             /\ loaded \subseteq {"gdt", "idt"}
             /\ pic \in [1 .. 2 -> PIC]
             /\ saved \in [1 .. 2 -> Masks \cup {0}] /\ firmware \in [1 .. 2 -> Masks]
             /\ cpu \in {"running", "reset"}

BootInv == BootTypes /\ LoopInv /\ GDTInv /\ IDTInv /\ MaskInv /\ PICInv /\ ResetInv

IInv == BootInv /\ StackInv

LEMMA OrderIs ==
    /\ {Order[k] : k \in DOMAIN Order} = {"gdt", "lgdt", "idt", "lidt", "masks", "remap", "done"}
    /\ After("gdt") = "lgdt" /\ After("lgdt") = "idt" /\ After("idt") = "lidt"
    /\ After("lidt") = "masks" /\ After("masks") = "remap" /\ After("remap") = "done"
  <1>1. /\ DOMAIN Order = 1 .. 7
        /\ Order[1] = "gdt" /\ Order[2] = "lgdt" /\ Order[3] = "idt" /\ Order[4] = "lidt"
        /\ Order[5] = "masks" /\ Order[6] = "remap" /\ Order[7] = "done"
    BY DEF Order
  <1>2. ASSUME NEW j \in 1 .. 7
        PROVE  After(Order[j]) = Order[1 + j]
    <2>1. \A k \in 1 .. 7 : Order[k] = Order[j] => k = j
      BY <1>1
    <2>2. (CHOOSE k \in DOMAIN Order : Order[k] = Order[j]) = j
      BY <1>1, <2>1
    <2> QED
      BY <2>2 DEF After
  <1>3. 1 .. 7 = {1, 2, 3, 4, 5, 6, 7}
    OBVIOUS
  <1> QED
    BY <1>1, <1>2, <1>3

LEMMA SegmentsAre ==
    /\ Segments[0] = "none" /\ Segments[1] = "kernel code" /\ Segments[2] = "kernel data"
    /\ Segments[3] = "user code" /\ Segments[4] = "user data"
    /\ Segments \in [0 .. 4 -> {Segments[s] : s \in 0 .. 4}]
  BY DEF Segments

(* A loop's step: its index moves, or the next step begins at index 0. *)
LEMMA AdvanceIs ==
    ASSUME NEW last \in Nat, Advance(last), next \in 0 .. last
    PROVE  \/ next' = next + 1 /\ next' \in 0 .. last /\ boot' = boot
           \/ next = last /\ next' = 0 /\ boot' = After(boot)
  BY DEF Advance

LEMMA SetSegmentBoot ==
    ASSUME BootInv, SetSegment
    PROVE  BootInv'
  <1> USE DEF BootInv
  <1>1. /\ boot = "gdt" /\ cpu = "running" /\ next \in 0 .. 4 /\ Advance(4)
        /\ gdt' = [gdt EXCEPT ![next] = Segments[next]]
        /\ UNCHANGED <<gates, loaded, pic, saved, firmware, cpu>>
    BY DEF SetSegment, At, UnchangedFaults, LoopInv
  <1>2. \/ next' = next + 1 /\ next' \in 0 .. 4 /\ boot' = "gdt"
        \/ next = 4 /\ next' = 0 /\ boot' = "lgdt"
    BY <1>1, AdvanceIs, OrderIs
  <1>3. BootTypes'
    BY <1>1, <1>2 DEF BootTypes
  <1>4. LoopInv'
    BY <1>2 DEF LoopInv
  <1>5. GDTInv'
    BY <1>1, <1>2 DEF GDTInv, BootTypes
  <1>6. IDTInv' /\ MaskInv' /\ PICInv' /\ ResetInv'
    BY <1>1, <1>2 DEF IDTInv, MaskInv, PICInv, ResetInv
  <1> QED
    BY <1>3, <1>4, <1>5, <1>6

LEMMA GDTLoadBoot ==
    ASSUME BootInv, GDTLoad
    PROVE  BootInv'
  <1> USE DEF BootInv
  <1>1. /\ boot = "lgdt" /\ cpu = "running" /\ next = 0 /\ Advance(0)
        /\ loaded' = loaded \cup {"gdt"}
        /\ UNCHANGED <<gdt, gates, pic, saved, firmware, cpu>>
    BY DEF GDTLoad, At, UnchangedFaults, LoopInv
  <1>2. next' = 0 /\ boot' = "idt"
    BY <1>1, AdvanceIs, OrderIs
  <1>3. BootTypes' /\ LoopInv'
    BY <1>1, <1>2 DEF BootTypes, LoopInv
  <1>4. GDTInv'
    BY <1>1, <1>2 DEF GDTInv
  <1>5. IDTInv'
    BY <1>1, <1>2 DEF IDTInv
  <1>6. MaskInv' /\ PICInv' /\ ResetInv'
    BY <1>1, <1>2 DEF MaskInv, PICInv, ResetInv
  <1> QED
    BY <1>3, <1>4, <1>5, <1>6

LEMMA SetGateBoot ==
    ASSUME BootInv, SetGate
    PROVE  BootInv'
  <1> USE DEF BootInv
  <1>1. /\ boot = "idt" /\ cpu = "running" /\ next \in 0 .. 31 /\ Advance(31)
        /\ gates' = [gates EXCEPT ![next] = Gate(next)]
        /\ UNCHANGED <<gdt, loaded, pic, saved, firmware, cpu>>
    BY DEF SetGate, At, UnchangedFaults, LoopInv
  <1>2. \/ next' = next + 1 /\ next' \in 0 .. 31 /\ boot' = "idt"
        \/ next = 31 /\ next' = 0 /\ boot' = "lidt"
    BY <1>1, AdvanceIs, OrderIs
  <1>3. BootTypes'
    BY <1>1, <1>2 DEF BootTypes
  <1>4. LoopInv'
    BY <1>2 DEF LoopInv
  <1>5. IDTInv'
    BY <1>1, <1>2 DEF IDTInv, BootTypes
  <1>6. GDTInv' /\ MaskInv' /\ PICInv' /\ ResetInv'
    BY <1>1, <1>2 DEF GDTInv, MaskInv, PICInv, ResetInv
  <1> QED
    BY <1>3, <1>4, <1>5, <1>6

LEMMA IDTLoadBoot ==
    ASSUME BootInv, IDTLoad
    PROVE  BootInv'
  <1> USE DEF BootInv
  <1>1. /\ boot = "lidt" /\ cpu = "running" /\ next = 0 /\ Advance(0)
        /\ loaded' = loaded \cup {"idt"}
        /\ UNCHANGED <<gdt, gates, pic, saved, firmware, cpu>>
    BY DEF IDTLoad, At, UnchangedFaults, LoopInv
  <1>2. next' = 0 /\ boot' = "masks"
    BY <1>1, AdvanceIs, OrderIs
  <1>3. BootTypes' /\ LoopInv'
    BY <1>1, <1>2 DEF BootTypes, LoopInv
  <1>4. GDTInv'
    BY <1>1, <1>2 DEF GDTInv
  <1>5. IDTInv'
    BY <1>1, <1>2 DEF IDTInv
  <1>6. MaskInv' /\ PICInv' /\ ResetInv'
    BY <1>1, <1>2 DEF MaskInv, PICInv, ResetInv
  <1> QED
    BY <1>3, <1>4, <1>5, <1>6

LEMMA SaveMaskBoot ==
    ASSUME BootInv, SaveMask
    PROVE  BootInv'
  <1> USE DEF BootInv
  <1>1. /\ boot = "masks" /\ cpu = "running" /\ next \in 0 .. 1 /\ Advance(1)
        /\ saved' = [saved EXCEPT ![next + 1] = pic[next + 1].imr]
        /\ UNCHANGED <<gdt, gates, loaded, pic, firmware, cpu>>
    BY DEF SaveMask, At, UnchangedFaults, LoopInv
  <1>2. \/ next = 0 /\ next' = 1 /\ boot' = "masks"
        \/ next = 1 /\ next' = 0 /\ boot' = "remap"
    BY <1>1, AdvanceIs, OrderIs
  <1>3. pic[next + 1].imr = firmware[next + 1] /\ next + 1 \in 1 .. 2
    BY <1>1 DEF MaskInv
  <1>4. BootTypes'
    BY <1>1, <1>2, <1>3 DEF BootTypes
  <1>5. LoopInv'
    BY <1>2 DEF LoopInv
  <1>6. MaskInv'
    BY <1>1, <1>2, <1>3 DEF MaskInv, BootTypes
  <1>7. GDTInv' /\ IDTInv' /\ ResetInv'
    BY <1>1, <1>2 DEF GDTInv, IDTInv, ResetInv
  <1>8. PICInv'
    BY <1>1, <1>2 DEF PICInv, Initialised
  <1> QED
    BY <1>4, <1>5, <1>6, <1>7, <1>8

(* What a port write does to a controller. *)
LEMMA PICWriteIs ==
    ASSUME NEW p \in PIC, NEW port, NEW value,
           NEW q, q = PICWrite(p, port, value)
    PROVE  /\ port = "command" =>
                 /\ q \in PIC /\ q.icw = 2 /\ q.offset = p.offset /\ q.cascade = p.cascade
           /\ port = "data" /\ p.icw = 2 /\ value \in 0 .. 255 =>
                 /\ q \in PIC /\ q.icw = 3 /\ q.offset = value /\ q.cascade = p.cascade
           /\ port = "data" /\ p.icw = 3 /\ value \in 0 .. 255 =>
                 /\ q \in PIC /\ q.icw = 4 /\ q.cascade = value /\ q.offset = p.offset
           /\ port = "data" /\ p.icw = 4 =>
                 /\ q \in PIC /\ q.icw = 0 /\ q.offset = p.offset /\ q.cascade = p.cascade
           /\ port = "data" /\ p.icw = 0 /\ value \in Masks \cup {0} =>
                 /\ q \in PIC /\ q.icw = 0 /\ q.imr = value
                 /\ q.offset = p.offset /\ q.cascade = p.cascade
  <1>1. CASE port = "command"
    BY <1>1 DEF PICWrite, PIC
  <1>2. CASE port = "data" /\ p.icw = 2
    <2>1. q = [p EXCEPT !.icw = 3, !.offset = value]
      BY <1>2 DEF PICWrite
    <2>2. q = [offset |-> value, imr |-> p.imr, icw |-> 3, cascade |-> p.cascade]
      BY <2>1 DEF PIC
    <2> QED
      BY <1>2, <2>2 DEF PIC
  <1>3. CASE port = "data" /\ p.icw = 3
    <2>1. q = [p EXCEPT !.icw = 4, !.cascade = value]
      BY <1>3 DEF PICWrite
    <2>2. q = [offset |-> p.offset, imr |-> p.imr, icw |-> 4, cascade |-> value]
      BY <2>1 DEF PIC
    <2> QED
      BY <1>3, <2>2 DEF PIC
  <1>4. CASE port = "data" /\ p.icw = 4
    BY <1>4 DEF PICWrite, PIC
  <1>5. CASE port = "data" /\ p.icw = 0
    BY <1>5 DEF PICWrite, PIC
  <1> QED
    BY <1>1, <1>2, <1>3, <1>4, <1>5

LEMMA RemapWritesAre ==
    /\ Len(RemapWrites) = 10
    /\ RemapWrites[1] = Write(1, "command", 17) /\ RemapWrites[2] = Write(1, "data", 32)
    /\ RemapWrites[3] = Write(1, "data", 4) /\ RemapWrites[4] = Write(1, "data", 1)
    /\ RemapWrites[5] = Write(2, "command", 17) /\ RemapWrites[6] = Write(2, "data", 40)
    /\ RemapWrites[7] = Write(2, "data", 2) /\ RemapWrites[8] = Write(2, "data", 1)
    /\ RemapWrites[9] = Write(1, "data", saved[1])
    /\ RemapWrites[10] = Write(2, "data", saved[2])
  BY DEF RemapWrites

(* One port write of Remap, to controller c. *)
LEMMA WriteIs ==
    ASSUME BootTypes, Remap, NEW c \in 1 .. 2, NEW port, NEW value,
           RemapWrites[next + 1] = Write(c, port, value)
    PROVE  /\ pic'[c] = PICWrite(pic[c], port, value)
           /\ \A k \in 1 .. 2 : k # c => pic'[k] = pic[k]
           /\ pic'[c] \in PIC => pic' \in [1 .. 2 -> PIC]
  <1>1. pic' = [pic EXCEPT ![c] = PICWrite(pic[c], port, value)]
    BY DEF Remap, Write
  <1> QED
    BY <1>1 DEF BootTypes

LEMMA RemapBoot ==
    ASSUME BootInv, Remap
    PROVE  BootInv'
  <1> USE DEF BootInv
  <1>1. /\ boot = "remap" /\ cpu = "running" /\ next \in 0 .. 9
        /\ UNCHANGED <<gdt, gates, loaded, saved, firmware, cpu>>
    BY DEF Remap, At, UnchangedFaults, LoopInv
  <1>2. \/ next' = next + 1 /\ next' \in 0 .. 9 /\ boot' = "remap"
        \/ next = 9 /\ next' = 0 /\ boot' = "done"
    <2>1. Advance(9)
      <3>1. Len(RemapWrites) - 1 = 9
        BY RemapWritesAre
      <3> QED
        BY <3>1 DEF Remap
    <2> QED
      BY <1>1, <2>1, AdvanceIs, OrderIs
  <1>3. /\ pic[1] \in PIC /\ pic[2] \in PIC
        /\ saved[1] = firmware[1] /\ saved[2] = firmware[2]
        /\ saved[1] \in Masks \cup {0} /\ saved[2] \in Masks \cup {0}
    BY <1>1 DEF BootTypes, MaskInv
  <1>4. Initialised(pic[1], next, 32, 4) /\ Initialised(pic[2], next - 4, 40, 2)
        /\ (next >= 9 => pic[1].imr = firmware[1])
    BY <1>1 DEF PICInv
  <1>5. /\ pic' \in [1 .. 2 -> PIC]
        /\ Initialised(pic'[1], next + 1, 32, 4) /\ Initialised(pic'[2], next - 3, 40, 2)
        /\ next >= 8 => pic'[1].imr = firmware[1]
        /\ next = 9 => pic'[2].imr = firmware[2]
    <2>1. CASE next = 0
      <3>1. pic'[1] = PICWrite(pic[1], "command", 17) /\ pic'[2] = pic[2]
            /\ (pic'[1] \in PIC => pic' \in [1 .. 2 -> PIC])
        BY <2>1, RemapWritesAre, WriteIs
      <3> QED
        BY <1>3, <1>4, <2>1, <3>1, PICWriteIs DEF Initialised
    <2>2. CASE next = 1
      <3>1. pic'[1] = PICWrite(pic[1], "data", 32) /\ pic'[2] = pic[2]
            /\ (pic'[1] \in PIC => pic' \in [1 .. 2 -> PIC])
        BY <2>2, RemapWritesAre, WriteIs
      <3> QED
        BY <1>3, <1>4, <2>2, <3>1, PICWriteIs DEF Initialised
    <2>3. CASE next = 2
      <3>1. pic'[1] = PICWrite(pic[1], "data", 4) /\ pic'[2] = pic[2]
            /\ (pic'[1] \in PIC => pic' \in [1 .. 2 -> PIC])
        BY <2>3, RemapWritesAre, WriteIs
      <3> QED
        BY <1>3, <1>4, <2>3, <3>1, PICWriteIs DEF Initialised
    <2>4. CASE next = 3
      <3>1. pic'[1] = PICWrite(pic[1], "data", 1) /\ pic'[2] = pic[2]
            /\ (pic'[1] \in PIC => pic' \in [1 .. 2 -> PIC])
        BY <2>4, RemapWritesAre, WriteIs
      <3> QED
        BY <1>3, <1>4, <2>4, <3>1, PICWriteIs DEF Initialised
    <2>5. CASE next = 4
      <3>1. pic'[2] = PICWrite(pic[2], "command", 17) /\ pic'[1] = pic[1]
            /\ (pic'[2] \in PIC => pic' \in [1 .. 2 -> PIC])
        BY <2>5, RemapWritesAre, WriteIs
      <3> QED
        BY <1>3, <1>4, <2>5, <3>1, PICWriteIs DEF Initialised
    <2>6. CASE next = 5
      <3>1. pic'[2] = PICWrite(pic[2], "data", 40) /\ pic'[1] = pic[1]
            /\ (pic'[2] \in PIC => pic' \in [1 .. 2 -> PIC])
        BY <2>6, RemapWritesAre, WriteIs
      <3> QED
        BY <1>3, <1>4, <2>6, <3>1, PICWriteIs DEF Initialised
    <2>7. CASE next = 6
      <3>1. pic'[2] = PICWrite(pic[2], "data", 2) /\ pic'[1] = pic[1]
            /\ (pic'[2] \in PIC => pic' \in [1 .. 2 -> PIC])
        BY <2>7, RemapWritesAre, WriteIs
      <3> QED
        BY <1>3, <1>4, <2>7, <3>1, PICWriteIs DEF Initialised
    <2>8. CASE next = 7
      <3>1. pic'[2] = PICWrite(pic[2], "data", 1) /\ pic'[1] = pic[1]
            /\ (pic'[2] \in PIC => pic' \in [1 .. 2 -> PIC])
        BY <2>8, RemapWritesAre, WriteIs
      <3>2. pic[2].icw = 4 /\ pic[2].offset = 40 /\ pic[2].cascade = 2
        BY <1>4, <2>8 DEF Initialised
      <3>3. /\ pic'[2] \in PIC /\ pic'[2].icw = 0
            /\ pic'[2].offset = 40 /\ pic'[2].cascade = 2
        BY <1>3, <3>1, <3>2, PICWriteIs
      <3> QED
        BY <1>4, <2>8, <3>1, <3>3 DEF Initialised
    <2>9. CASE next = 8
      <3>1. pic'[1] = PICWrite(pic[1], "data", saved[1]) /\ pic'[2] = pic[2]
            /\ (pic'[1] \in PIC => pic' \in [1 .. 2 -> PIC])
        BY <2>9, RemapWritesAre, WriteIs
      <3> QED
        BY <1>3, <1>4, <2>9, <3>1, PICWriteIs DEF Initialised
    <2>10. CASE next = 9
      <3>1. pic'[2] = PICWrite(pic[2], "data", saved[2]) /\ pic'[1] = pic[1]
            /\ (pic'[2] \in PIC => pic' \in [1 .. 2 -> PIC])
        BY <2>10, RemapWritesAre, WriteIs
      <3>2. pic[2].icw = 0 /\ pic[2].offset = 40 /\ pic[2].cascade = 2
        BY <1>4, <2>10 DEF Initialised
      <3>3. /\ pic'[2] \in PIC /\ pic'[2].icw = 0 /\ pic'[2].imr = firmware[2]
            /\ pic'[2].offset = 40 /\ pic'[2].cascade = 2
        BY <1>3, <3>1, <3>2, PICWriteIs
      <3> QED
        BY <1>4, <2>10, <3>1, <3>3 DEF Initialised
    <2> QED
      BY <1>1, <2>1, <2>2, <2>3, <2>4, <2>5, <2>6, <2>7, <2>8, <2>9, <2>10
  <1>6. BootTypes'
    BY <1>1, <1>2, <1>5 DEF BootTypes
  <1>7. LoopInv'
    BY <1>2 DEF LoopInv
  <1>8. MaskInv' /\ GDTInv' /\ IDTInv' /\ ResetInv'
    BY <1>1, <1>2 DEF MaskInv, GDTInv, IDTInv, ResetInv
  <1>9. PICInv'
    <2>1. CASE boot' = "remap"
      <3>1. next' = next + 1 /\ (next + 1) - 4 = next - 3
        BY <1>1, <1>2, <2>1
      <3> QED
        BY <1>1, <1>5, <2>1, <3>1 DEF PICInv
    <2>2. CASE boot' = "done"
      <3>1. next = 9
        BY <1>2, <2>2
      <3> QED
        BY <1>1, <1>5, <2>2, <3>1 DEF PICInv, Initialised
    <2> QED
      BY <1>2, <2>1, <2>2
  <1> QED
    BY <1>6, <1>7, <1>8, <1>9

(* No handler touches what Processor::Init has set. *)
LEMMA HandlersBoot ==
    ASSUME BootInv, UNCHANGED <<boot, next>>, UNCHANGED tables,
           \/ cpu' = cpu
           \/ cpu' = "reset" /\ ~({"gdt", "idt"} \subseteq loaded)
    PROVE  BootInv'
  <1>1. UNCHANGED <<boot, next, gdt, gates, loaded, pic, saved, firmware>>
    BY DEF tables
  <1>2. BootTypes' /\ ResetInv'
    BY <1>1 DEF BootInv, BootTypes, ResetInv
  <1>3. LoopInv' /\ GDTInv' /\ IDTInv' /\ MaskInv' /\ PICInv'
    BY <1>1 DEF BootInv, LoopInv, GDTInv, IDTInv, MaskInv, PICInv
  <1> QED
    BY <1>2, <1>3 DEF BootInv

(* Tables that are loaded are complete: what an exception needs is there. *)
LEMMA LoadedIsComplete ==
    ASSUME BootInv, {"gdt", "idt"} \subseteq loaded, NEW v \in 0 .. 31
    PROVE  Deliverable(v) /\ gates[v] = Gate(v)
  <1>1. boot \in {"masks", "remap", "done"}
    BY DEF BootInv, IDTInv
  <1>2. gates[v] = Gate(v)
    BY <1>1 DEF BootInv, IDTInv
  <1>3. gdt[KernelCode] = "kernel code"
    <2>1. 1 \in 0 .. 4
      OBVIOUS
    <2>2. gdt[1] = Segments[1]
      BY <1>1, <2>1 DEF BootInv, GDTInv
    <2> QED
      BY <2>2, SegmentsAre DEF KernelCode
  <1>4. Gate(v) # NoGate /\ Gate(v).selector = KernelCode
    BY DEF Gate, NoGate, KernelCode
  <1> QED
    BY <1>2, <1>3, <1>4 DEF Deliverable

-----------------------------------------------------------------------------
(* The handlers.  The stack only grows, so what a frame is made of stays.  *)

LEMMA Pushed ==
    ASSUME NEW T, NEW s \in Seq(T), NEW t \in Seq(T)
    PROVE  /\ s \o t \in Seq(T) /\ Len(s \o t) = Len(s) + Len(t)
           /\ \A k \in 1 .. Len(s) : (s \o t)[k] = s[k]
           /\ \A k \in 1 .. Len(t) : (s \o t)[Len(s) + k] = t[k]
  OBVIOUS

Words == Seq(StackWord)

LEMMA StackWords ==
    ASSUME NEW d \in Nat
    PROVE  /\ <<"EFLAGS", d>> \in StackWord /\ <<"CS", d>> \in StackWord /\ <<"EIP", d>> \in StackWord
           /\ <<"code", d>> \in StackWord /\ <<"stub", d>> \in StackWord
           /\ <<"EAX", d>> \in StackWord /\ <<"ECX", d>> \in StackWord
           /\ <<"EDX", d>> \in StackWord /\ <<"EBX", d>> \in StackWord
           /\ <<"ESP", d>> \in StackWord /\ <<"EBP", d>> \in StackWord
           /\ <<"ESI", d>> \in StackWord /\ <<"EDI", d>> \in StackWord
           /\ <<"DS", d>> \in StackWord
  BY DEF StackWord

(* The tuples the handlers push, word by word. *)
LEMMA Two ==
    ASSUME NEW T, NEW a \in T, NEW b \in T
    PROVE  /\ <<a, b>> \in Seq(T) /\ Len(<<a, b>>) = 2
           /\ <<a, b>>[1] = a /\ <<a, b>>[2] = b
  OBVIOUS

LEMMA Three ==
    ASSUME NEW T, NEW a \in T, NEW b \in T, NEW c \in T
    PROVE  /\ <<a, b, c>> \in Seq(T) /\ Len(<<a, b, c>>) = 3
           /\ <<a, b, c>>[1] = a /\ <<a, b, c>>[2] = b /\ <<a, b, c>>[3] = c
  OBVIOUS

LEMMA Nine ==
    ASSUME NEW T, NEW r1 \in T, NEW r2 \in T, NEW r3 \in T, NEW r4 \in T, NEW r5 \in T,
           NEW r6 \in T, NEW r7 \in T, NEW r8 \in T, NEW r9 \in T
    PROVE  LET w == <<r1, r2, r3, r4, r5, r6, r7, r8, r9>>
           IN  /\ w \in Seq(T) /\ Len(w) = 9
               /\ w[1] = r1 /\ w[2] = r2 /\ w[3] = r3 /\ w[4] = r4 /\ w[5] = r5
               /\ w[6] = r6 /\ w[7] = r7 /\ w[8] = r8 /\ w[9] = r9
  OBVIOUS

(* A word stays where it was, and the new words are above it. *)
LEMMA WordStays ==
    ASSUME NEW s \in Words, NEW u \in Words, NEW t, t = s \o u
    PROVE  /\ t \in Words /\ Len(t) = Len(s) + Len(u)
           /\ \A k, what, value : Word(s, k, what, value) => Word(t, k, what, value)
           /\ \A n, what, value : n \in Int /\ Word(s, Len(s) - n, what, value)
                   => Word(t, Len(t) - (Len(u) + n), what, value)
  <1>1. /\ t \in Words /\ Len(t) = Len(s) + Len(u) /\ \A k \in 1 .. Len(s) : t[k] = s[k]
        /\ Len(s) \in Nat /\ Len(u) \in Nat
    BY Pushed DEF Words
  <1>2. ASSUME NEW k, NEW what, NEW value, Word(s, k, what, value)
        PROVE  Word(t, k, what, value)
    BY <1>1, <1>2 DEF Word
  <1>3. ASSUME NEW n \in Int, NEW what, NEW value, Word(s, Len(s) - n, what, value)
        PROVE  Word(t, Len(t) - (Len(u) + n), what, value)
    <2>1. Len(t) - (Len(u) + n) = Len(s) - n
      BY <1>1
    <2> QED
      BY <1>2, <1>3, <2>1
  <1> QED
    BY <1>1, <1>2, <1>3

LEMMA WordPushed ==
    ASSUME NEW s \in Words, NEW u \in Words, NEW t, t = s \o u
    PROVE  \A n, what, value : n \in 0 .. Len(u) - 1 /\ u[Len(u) - n] = <<what, value>>
               => Word(t, Len(t) - n, what, value)
  <1>1. /\ Len(t) = Len(s) + Len(u) /\ \A k \in 1 .. Len(u) : t[Len(s) + k] = u[k]
        /\ Len(s) \in Nat /\ Len(u) \in Nat
    BY Pushed DEF Words
  <1> TAKE n, what, value
  <1> HAVE n \in 0 .. Len(u) - 1 /\ u[Len(u) - n] = <<what, value>>
  <1>2. Len(u) - n \in 1 .. Len(u) /\ Len(t) - n = Len(s) + (Len(u) - n)
    BY <1>1
  <1>3. t[Len(t) - n] = <<what, value>>
    BY <1>1, <1>2
  <1> QED
    BY <1>1, <1>2, <1>3 DEF Word

LEMMA FrameStays ==
    ASSUME NEW s, NEW t,
           \A k, what, value : Word(s, k, what, value) => Word(t, k, what, value),
           NEW esp, NEW v, NEW d, FrameAt(s, esp, v, d)
    PROVE  FrameAt(t, esp, v, d)
  BY Zenon DEF FrameAt, Context

(* What the processor pushes for an exception at depth d + 1. *)
LEMMA ContextPushed ==
    ASSUME NEW s \in Words, NEW d \in Nat,
           NEW w, w = << <<"EFLAGS", d>>, <<"CS", d>>, <<"EIP", d>> >>,
           NEW t, t = s \o w
    PROVE  t \in Words /\ Context(t, Len(t), d)
  <1>1. /\ w \in Words /\ Len(w) = 3
        /\ w[1] = <<"EFLAGS", d>> /\ w[2] = <<"CS", d>> /\ w[3] = <<"EIP", d>>
    <2>1. /\ << <<"EFLAGS", d>>, <<"CS", d>>, <<"EIP", d>> >> \in Words
          /\ Len(<< <<"EFLAGS", d>>, <<"CS", d>>, <<"EIP", d>> >>) = 3
      BY StackWords, Three, Zenon DEF Words
    <2> QED
      BY <2>1
  <1>2. t \in Words
    BY <1>1, WordStays, Zenon
  <1>3. Len(t) \in Nat
    BY <1>2 DEF Words
  <1>4. \A n, what, value : n \in 0 .. Len(w) - 1 /\ w[Len(w) - n] = <<what, value>>
               => Word(t, Len(t) - n, what, value)
    BY <1>1, WordPushed, Zenon
  <1>5. \A n, what, value : n \in 0 .. 2 /\ w[3 - n] = <<what, value>>
               => Word(t, Len(t) - n, what, value)
    <2>1. 3 - 1 = 2
      OBVIOUS
    <2> QED
      BY <1>1, <1>4, <2>1, Zenon
  <1>6. w[3 - 0] = <<"EIP", d>> /\ w[3 - 1] = <<"CS", d>> /\ w[3 - 2] = <<"EFLAGS", d>>
    BY <1>1
  <1>7. /\ Word(t, Len(t) - 0, "EIP", d) /\ Word(t, Len(t) - 1, "CS", d)
        /\ Word(t, Len(t) - 2, "EFLAGS", d)
    <2>1. 0 \in 0 .. 2 /\ 1 \in 0 .. 2 /\ 2 \in 0 .. 2
      OBVIOUS
    <2> QED
      BY <1>5, <1>6, <2>1, Zenon
  <1>8. Len(t) - 0 = Len(t)
    BY <1>3
  <1> QED
    BY <1>2, <1>7, <1>8 DEF Context

LEMMA StubPushed ==
    ASSUME NEW s \in Words, NEW v \in Nat, NEW d, EntryAt(s, v, d),
           NEW w, w = Stub(v), NEW t, t = s \o w
    PROVE  t \in Words /\ StubAt(t, v, d)
  <1>1. /\ w \in Words /\ Len(w) = 2
        /\ w[1] = <<"stub", 0>> /\ w[2] = <<"stub", v>>
    <2>1. <<"stub", 0>> \in StackWord /\ <<"stub", v>> \in StackWord
      BY StackWords
    <2>2. /\ << <<"stub", 0>>, <<"stub", v>> >> \in Words
          /\ Len(<< <<"stub", 0>>, <<"stub", v>> >>) = 2
      BY <2>1, Two, Zenon DEF Words
    <2> QED
      BY <2>2 DEF Stub
  <1>2. /\ t \in Words /\ Len(t) = Len(s) + Len(w)
        /\ \A k, what, value : Word(s, k, what, value) => Word(t, k, what, value)
    BY <1>1, WordStays, Zenon
  <1>3. Len(t) \in Nat /\ Len(s) \in Nat
    BY <1>2 DEF Words
  <1>4. \A n, what, value : n \in 0 .. Len(w) - 1 /\ w[Len(w) - n] = <<what, value>>
               => Word(t, Len(t) - n, what, value)
    BY <1>1, WordPushed, Zenon
  <1>5. \A n, what, value : n \in 0 .. 1 /\ w[2 - n] = <<what, value>>
               => Word(t, Len(t) - n, what, value)
    <2>1. 2 - 1 = 1
      OBVIOUS
    <2> QED
      BY <1>1, <1>4, <2>1, Zenon
  <1>6. w[2 - 0] = <<"stub", v>> /\ w[2 - 1] = <<"stub", 0>>
    BY <1>1
  <1>7. Word(t, Len(t) - 0, "stub", v) /\ Word(t, Len(t) - 1, "stub", 0)
    <2>1. 0 \in 0 .. 1 /\ 1 \in 0 .. 1
      OBVIOUS
    <2> QED
      BY <1>5, <1>6, <2>1, Zenon
  <1>8. Len(t) - 0 = Len(t) /\ Len(t) - 2 = Len(s)
    BY <1>1, <1>2, <1>3
  <1>9. v \notin WithErrorCode => Context(t, Len(t) - 2, d - 1)
    BY <1>2, <1>8, Zenon DEF EntryAt, Context
  <1> QED
    BY <1>2, <1>7, <1>8, <1>9 DEF StubAt

LEMMA FramePushed ==
    ASSUME NEW s \in Words, NEW v, NEW d \in Nat, StubAt(s, v, d),
           NEW w, w = Pushad(d), NEW t, t = s \o w
    PROVE  t \in Words /\ FrameAt(t, Len(t), v, d)
  <1>1. /\ w \in Words /\ Len(w) = 9
        /\ w[1] = <<"EAX", d>> /\ w[2] = <<"ECX", d>> /\ w[3] = <<"EDX", d>>
        /\ w[4] = <<"EBX", d>> /\ w[6] = <<"EBP", d>> /\ w[7] = <<"ESI", d>>
        /\ w[8] = <<"EDI", d>> /\ w[9] = <<"DS", d>>
    <2>1. /\ Pushad(d) \in Words /\ Len(Pushad(d)) = 9
      BY StackWords, Nine, Zenon DEF Words, Pushad
    <2>2. /\ Pushad(d)[1] = <<"EAX", d>> /\ Pushad(d)[2] = <<"ECX", d>>
          /\ Pushad(d)[3] = <<"EDX", d>> /\ Pushad(d)[4] = <<"EBX", d>>
          /\ Pushad(d)[6] = <<"EBP", d>> /\ Pushad(d)[7] = <<"ESI", d>>
          /\ Pushad(d)[8] = <<"EDI", d>> /\ Pushad(d)[9] = <<"DS", d>>
      BY DEF Pushad
    <2> QED
      BY <2>1, <2>2
  <1>2. /\ t \in Words /\ Len(t) = Len(s) + Len(w)
        /\ \A k, what, value : Word(s, k, what, value) => Word(t, k, what, value)
    BY <1>1, WordStays, Zenon
  <1>3. Len(t) \in Nat /\ Len(s) \in Nat
    BY <1>2 DEF Words
  <1>4. \A n, what, value : n \in 0 .. Len(w) - 1 /\ w[Len(w) - n] = <<what, value>>
               => Word(t, Len(t) - n, what, value)
    BY <1>1, WordPushed, Zenon
  <1>5. \A n, what, value : n \in 0 .. 8 /\ w[9 - n] = <<what, value>>
               => Word(t, Len(t) - n, what, value)
    <2>1. 9 - 1 = 8
      OBVIOUS
    <2> QED
      BY <1>1, <1>4, <2>1, Zenon
  <1>6. /\ w[9 - 0] = <<"DS", d>> /\ w[9 - 1] = <<"EDI", d>> /\ w[9 - 2] = <<"ESI", d>>
        /\ w[9 - 3] = <<"EBP", d>> /\ w[9 - 5] = <<"EBX", d>> /\ w[9 - 6] = <<"EDX", d>>
        /\ w[9 - 7] = <<"ECX", d>> /\ w[9 - 8] = <<"EAX", d>>
    BY <1>1
  <1>7. /\ Word(t, Len(t) - 0, "DS", d) /\ Word(t, Len(t) - 1, "EDI", d)
        /\ Word(t, Len(t) - 2, "ESI", d) /\ Word(t, Len(t) - 3, "EBP", d)
        /\ Word(t, Len(t) - 5, "EBX", d) /\ Word(t, Len(t) - 6, "EDX", d)
        /\ Word(t, Len(t) - 7, "ECX", d) /\ Word(t, Len(t) - 8, "EAX", d)
    <2>1. /\ 0 \in 0 .. 8 /\ 1 \in 0 .. 8 /\ 2 \in 0 .. 8 /\ 3 \in 0 .. 8
          /\ 5 \in 0 .. 8 /\ 6 \in 0 .. 8 /\ 7 \in 0 .. 8 /\ 8 \in 0 .. 8
      OBVIOUS
    <2> QED
      BY <1>5, <1>6, <2>1, Zenon
  <1>8. /\ Len(t) - 0 = Len(t) /\ Len(s) = Len(t) - 9
        /\ Len(s) - 1 = Len(t) - 10 /\ Len(s) - 2 = Len(t) - 11
    BY <1>1, <1>2, <1>3
  <1>9. Word(t, Len(t) - 9, "stub", v) /\ Word(t, Len(t) - 10, "stub", 0)
    BY <1>2, <1>8, Zenon DEF StubAt
  <1>10. v \notin WithErrorCode => Context(t, Len(t) - 11, d - 1)
    BY <1>2, <1>8, Zenon DEF StubAt, Context
  <1> QED
    BY <1>2, <1>7, <1>8, <1>9, <1>10 DEF FrameAt

(* The fields of an exception, one of them changed by the step it takes. *)
LEMMA FaultIs ==
    ASSUME NEW c \in Fault, NEW at
    PROVE  /\ c.vector \in Exceptions /\ c.code \in Nat /\ c.esp \in Nat
           /\ c.at \in {"entry", "save", "handler", "panic"}
           /\ c.told \in Int /\ c.present \in Int
           /\ [c EXCEPT !.at = at] = [vector |-> c.vector, code |-> c.code, at |-> at,
                                     esp |-> c.esp, told |-> c.told, present |-> c.present]
  BY DEF Fault

(* The innermost exception is the only one a handler changes. *)
LEMMA InnermostSet ==
    ASSUME NEW f \in Seq(Fault), Len(f) > 0, NEW r \in Fault,
           NEW g, g = [f EXCEPT ![Len(f)] = r]
    PROVE  /\ g \in Seq(Fault) /\ Len(g) = Len(f) /\ g[Len(f)] = r
           /\ \A d \in 1 .. Len(f) : d # Len(f) => g[d] = f[d]
  OBVIOUS

LEMMA FaultAppended ==
    ASSUME NEW f \in Seq(Fault), NEW r \in Fault, NEW g, g = Append(f, r)
    PROVE  /\ g \in Seq(Fault) /\ Len(g) = Len(f) + 1 /\ g[Len(f) + 1] = r
           /\ \A d \in 1 .. Len(f) : g[d] = f[d]
  OBVIOUS

LEMMA RaiseStack ==
    ASSUME BootInv, StackInv, NEW v \in Exceptions, NEW code \in ErrorCodes \cup {0},
           Raise(v, code)
    PROVE  StackInv'
  <1>1. CASE ~Deliverable(v)
    <2>1. UNCHANGED <<gates, stack, faults>>
      BY <1>1 DEF Raise, tables
    <2> QED
      BY <2>1 DEF StackInv, TopInv, FrameInv, Frames, Depth, Current
  <1>2. CASE Deliverable(v)
    <2> DEFINE r == [vector |-> v, code |-> code, at |-> "entry",
                     esp |-> 0, told |-> -1, present |-> -1]
    <2>1. /\ faults \in Seq(Fault) /\ Depth \in Nat /\ stack \in Words /\ gates' = gates
          /\ faults' = Append(faults, r)
      BY <1>2 DEF StackInv, Raise, tables, Depth, Words
    <2>2. gates[v] = Gate(v)
      BY <1>2, LoadedIsComplete, ExceptionsAssumption DEF Deliverable
    <2>3. r \in Fault
      BY ErrorCodesAssumption DEF Fault
    <2> HIDE DEF r
    <2>4. /\ faults' \in Seq(Fault) /\ Depth' = Depth + 1 /\ faults'[Depth + 1] = r
          /\ \A d \in 1 .. Depth : faults'[d] = faults[d]
      BY <2>1, <2>3, FaultAppended DEF Depth
    <2>5. r.vector = v /\ r.at = "entry"
      BY DEF r
    <2>6. PICK w : w = << <<"EFLAGS", Depth>>, <<"CS", Depth>>, <<"EIP", Depth>> >>
      OBVIOUS
    <2>7. PICK s : s = stack \o w
      OBVIOUS
    <2>8. s \in Words /\ Context(s, Len(s), Depth)
      BY <2>1, <2>6, <2>7, ContextPushed
    <2>9. w \in Words
      BY <2>1, <2>6, StackWords, Three, Zenon DEF Words
    <2>10. PICK u : u = IF v \in WithErrorCode THEN << <<"code", code>> >> ELSE <<>>
      OBVIOUS
    <2>11. u \in Words /\ stack' = s \o u
      <3>1. <<"code", code>> \in StackWord
        BY StackWords, ErrorCodesAssumption
      <3>2. u \in Words
        BY <2>10, <3>1 DEF Words
      <3> QED
        BY <1>2, <2>6, <2>7, <2>10, <3>2 DEF Raise
    <2>12. /\ stack' \in Words
           /\ \A k, what, value : Word(stack, k, what, value) => Word(stack', k, what, value)
      <3>1. \A k, what, value : Word(stack, k, what, value) => Word(s, k, what, value)
        BY <2>1, <2>7, <2>9, WordStays, Zenon
      <3>2. PICK t : t = stack'
        OBVIOUS
      <3>3. t \in Words /\ \A k, what, value : Word(s, k, what, value) => Word(t, k, what, value)
        BY <2>8, <2>11, <3>2, WordStays, Zenon
      <3> QED
        BY <3>1, <3>2, <3>3, Zenon
    <2>13. EntryAt(stack', v, Depth + 1)
      <3>1. SUFFICES ASSUME v \notin WithErrorCode
                     PROVE  Context(stack', Len(stack'), (Depth + 1) - 1)
        BY DEF EntryAt
      <3>2. stack' = s /\ (Depth + 1) - 1 = Depth
        BY <2>1, <2>8, <2>10, <2>11, <3>1 DEF Words
      <3> QED
        BY <2>8, <3>2
    <2>14. TopInv'
      <3>1. Current' = r
        BY <2>4 DEF Current
      <3> QED
        BY <2>4, <2>5, <2>13, <3>1 DEF TopInv
    <2>15. ASSUME NEW d \in 1 .. Depth'
           PROVE  gates'[faults'[d].vector] = Gate(faults'[d].vector)
      <3>1. d \in 1 .. Depth \/ d = Depth + 1
        BY <2>1, <2>4
      <3>2. CASE d \in 1 .. Depth
        <4>1. faults'[d] = faults[d] /\ gates[faults[d].vector] = Gate(faults[d].vector)
          BY <2>4, <3>2 DEF StackInv
        <4> QED
          BY <2>1, <4>1
      <3>3. CASE d = Depth + 1
        BY <2>1, <2>2, <2>4, <2>5, <3>3
      <3> QED
        BY <3>1, <3>2, <3>3
    <2>16. ASSUME NEW d \in Frames'
           PROVE  FrameAt(stack', faults'[d].esp, faults'[d].vector, d)
      <3>1. d \in Frames /\ faults'[d] = faults[d]
        <4>1. d \in 1 .. Depth' /\ faults'[d].at \in {"handler", "panic"}
          BY DEF Frames
        <4>2. d # Depth + 1
          BY <2>4, <2>5, <4>1
        <4>3. d \in 1 .. Depth
          BY <2>1, <2>4, <4>1, <4>2
        <4> QED
          BY <2>4, <4>1, <4>3 DEF Frames
      <3>2. FrameAt(stack, faults[d].esp, faults[d].vector, d)
        BY <3>1 DEF StackInv, FrameInv
      <3> QED
        BY <2>12, <3>1, <3>2, FrameStays, Zenon
    <2> QED
      BY <2>4, <2>12, <2>14, <2>15, <2>16 DEF StackInv, FrameInv, Words
  <1> QED
    BY <1>1, <1>2

(* A handler's step: the innermost exception goes on, and words are pushed. *)
LEMMA InnermostStep ==
    ASSUME StackInv, Depth > 0, NEW r \in Fault, r.vector = Current.vector,
           faults' = [faults EXCEPT ![Depth] = r], gates' = gates, stack' \in Words,
           \A k, what, value : Word(stack, k, what, value) => Word(stack', k, what, value),
           r.at # "entry", r.at = "save" => StubAt(stack', r.vector, Depth),
           r.at \in {"handler", "panic"} => FrameAt(stack', r.esp, r.vector, Depth)
    PROVE  StackInv'
  <1>1. faults \in Seq(Fault) /\ Depth \in Nat
    BY DEF StackInv, Depth
  <1>2. /\ faults' \in Seq(Fault) /\ Depth' = Depth /\ faults'[Depth] = r
        /\ \A d \in 1 .. Depth : d # Depth => faults'[d] = faults[d]
    BY <1>1, InnermostSet DEF Depth
  <1>3. ASSUME NEW d \in 1 .. Depth
        PROVE  gates'[faults'[d].vector] = Gate(faults'[d].vector)
    <2>1. gates[faults[d].vector] = Gate(faults[d].vector)
      BY DEF StackInv
    <2>2. faults'[d].vector = faults[d].vector
      BY <1>2 DEF Current
    <2> QED
      BY <2>1, <2>2
  <1>4. TopInv'
    <2>1. Current' = r
      BY <1>2 DEF Current
    <2> QED
      BY <1>2, <2>1 DEF TopInv
  <1>5. ASSUME NEW d \in Frames'
        PROVE  FrameAt(stack', faults'[d].esp, faults'[d].vector, d)
    <2>1. d \in 1 .. Depth /\ faults'[d].at \in {"handler", "panic"}
      BY <1>2 DEF Frames
    <2>2. CASE d = Depth
      BY <1>2, <2>1, <2>2
    <2>3. CASE d # Depth
      <3>1. faults'[d] = faults[d] /\ d \in Frames
        BY <1>2, <2>1, <2>3 DEF Frames
      <3>2. FrameAt(stack, faults[d].esp, faults[d].vector, d)
        BY <3>1 DEF StackInv, FrameInv
      <3> QED
        BY <3>1, <3>2, FrameStays, Zenon
    <2> QED
      BY <2>2, <2>3
  <1>6. \A d \in 1 .. Depth' : gates'[faults'[d].vector] = Gate(faults'[d].vector)
    BY <1>2, <1>3
  <1> QED
    BY <1>2, <1>4, <1>5, <1>6 DEF StackInv, FrameInv, Words

(* What is known of the innermost exception. *)
LEMMA InnermostIs ==
    ASSUME StackInv, Depth > 0
    PROVE  /\ Depth \in Nat /\ faults \in Seq(Fault) /\ stack \in Words
           /\ Depth \in 1 .. Depth /\ faults[Depth] = Current /\ Current \in Fault
           /\ Current.vector \in Exceptions /\ Current.vector \in Nat
           /\ gates[Current.vector].stub = Current.vector
  <1>1. /\ Depth \in Nat /\ faults \in Seq(Fault) /\ stack \in Words
        /\ Depth \in 1 .. Depth /\ faults[Depth] = Current /\ Current \in Fault
    BY DEF StackInv, Depth, Current, Words
  <1>2. Current.vector \in Exceptions /\ Current.vector \in Nat
    <2>1. Current.vector \in Exceptions
      BY <1>1, FaultIs, Zenon
    <2>2. PICK v : v = Current.vector
      OBVIOUS
    <2>3. v \in 0 .. 31
      BY <2>1, <2>2, ExceptionsAssumption, Zenon
    <2> QED
      BY <2>1, <2>2, <2>3
  <1>3. gates[Current.vector] = Gate(Current.vector)
    BY <1>1 DEF StackInv
  <1> QED
    BY <1>1, <1>2, <1>3 DEF Gate

LEMMA EnterStubStack ==
    ASSUME StackInv, EnterStub
    PROVE  StackInv'
  <1> DEFINE c == Current
             r == [vector |-> c.vector, code |-> c.code, at |-> "save",
                   esp |-> c.esp, told |-> c.told, present |-> c.present]
  <1>1. /\ Depth > 0 /\ c.at = "entry" /\ gates' = gates
        /\ stack' = stack \o Stub(gates[c.vector].stub)
        /\ faults' = [faults EXCEPT ![Depth].at = "save"]
    BY DEF EnterStub, Handling, tables
  <1>2. /\ Depth \in Nat /\ faults \in Seq(Fault) /\ stack \in Words
        /\ Depth \in 1 .. Depth /\ faults[Depth] = c /\ c \in Fault
        /\ c.vector \in Nat /\ gates[c.vector].stub = c.vector
    BY <1>1, InnermostIs
  <1>3. /\ r \in Fault /\ r.vector = c.vector /\ r.at = "save"
    BY <1>2 DEF Fault
  <1>4. faults' = [faults EXCEPT ![Depth] = r]
    <2>1. [c EXCEPT !.at = "save"] = r
      BY <1>2, FaultIs, Zenon
    <2> QED
      BY <1>1, <1>2, <2>1
  <1> HIDE DEF r
  <1>5. EntryAt(stack, c.vector, Depth)
    BY <1>1 DEF StackInv, TopInv
  <1>6. PICK w : w = Stub(c.vector)
    OBVIOUS
  <1>7. PICK t : t = stack'
    OBVIOUS
  <1>8. t \in Words /\ StubAt(t, c.vector, Depth)
    BY <1>1, <1>2, <1>5, <1>6, <1>7, StubPushed
  <1>9. w \in Words
    BY <1>2, <1>6, StackWords, Two DEF Words, Stub
  <1>10. \A k, what, value : Word(stack, k, what, value) => Word(t, k, what, value)
    <2>1. t = stack \o w
      BY <1>1, <1>2, <1>6, <1>7
    <2> QED
      BY <1>2, <1>9, <2>1, WordStays, Zenon
  <1> QED
    BY <1>1, <1>3, <1>4, <1>7, <1>8, <1>10, InnermostStep

LEMMA SaveStateStack ==
    ASSUME StackInv, SaveState
    PROVE  StackInv'
  <1> DEFINE c == Current
             r == [vector |-> c.vector, code |-> c.code, at |-> "handler",
                   esp |-> Len(stack'), told |-> c.told, present |-> c.present]
  <1>1. /\ Depth > 0 /\ c.at = "save" /\ gates' = gates
        /\ stack' = stack \o Pushad(Depth)
        /\ faults' = [faults EXCEPT ![Depth].at = "handler", ![Depth].esp = Len(stack')]
    BY DEF SaveState, Handling, tables
  <1>2. /\ Depth \in Nat /\ faults \in Seq(Fault) /\ stack \in Words
        /\ Depth \in 1 .. Depth /\ faults[Depth] = c /\ c \in Fault
        /\ c.vector \in Nat
    BY <1>1, InnermostIs
  <1>3. StubAt(stack, c.vector, Depth)
    BY <1>1 DEF StackInv, TopInv
  <1>4. PICK w : w = Pushad(Depth)
    OBVIOUS
  <1>5. PICK t : t = stack'
    OBVIOUS
  <1>6. t = stack \o w
    BY <1>1, <1>4, <1>5
  <1>7. t \in Words /\ FrameAt(t, Len(t), c.vector, Depth)
    BY <1>2, <1>3, <1>4, <1>6, FramePushed, Zenon
  <1>8. w \in Words
    BY <1>2, <1>4, StackWords, Nine, Zenon DEF Words, Pushad
  <1>9. \A k, what, value : Word(stack, k, what, value) => Word(t, k, what, value)
    BY <1>2, <1>6, <1>8, WordStays, Zenon
  <1>10. Len(stack') \in Nat
    BY <1>5, <1>7 DEF Words
  <1>11. /\ r \in Fault /\ r.vector = c.vector /\ r.at = "handler" /\ r.esp = Len(stack')
    BY <1>2, <1>10 DEF Fault
  <1>12. faults' = [faults EXCEPT ![Depth] = r]
    <2>1. PICK b : b = [c EXCEPT !.at = "handler"]
      OBVIOUS
    <2>2. b = [vector |-> c.vector, code |-> c.code, at |-> "handler",
               esp |-> c.esp, told |-> c.told, present |-> c.present]
      BY <1>2, <2>1, FaultIs, Zenon
    <2>3. PICK esp : esp = Len(stack')
      OBVIOUS
    <2>4. [b EXCEPT !.esp = esp] = r
      BY <2>2, <2>3
    <2>5. faults' = [faults EXCEPT ![Depth] = [b EXCEPT !.esp = esp]]
      BY <1>1, <1>2, <2>1, <2>3
    <2> QED
      BY <2>4, <2>5
  <1> HIDE DEF r
  <1>13. FrameAt(stack', r.esp, r.vector, Depth)
    BY <1>5, <1>7, <1>11
  <1> QED
    BY <1>1, <1>5, <1>7, <1>9, <1>11, <1>12, <1>13, InnermostStep

LEMMA Positions ==
    ASSUME NEW esp \in Int
    PROVE  /\ Field(esp, "DS") = stack[esp] /\ Field(esp, "EDI") = stack[esp - 1]
           /\ Field(esp, "ESI") = stack[esp - 2] /\ Field(esp, "EBP") = stack[esp - 3]
           /\ Field(esp, "EBX") = stack[esp - 5] /\ Field(esp, "EDX") = stack[esp - 6]
           /\ Field(esp, "ECX") = stack[esp - 7] /\ Field(esp, "EAX") = stack[esp - 8]
           /\ Field(esp, "InterruptNumber") = stack[esp - 9]
           /\ Field(esp, "ErrorCode") = stack[esp - 10]
           /\ Field(esp, "EIP") = stack[esp - 11] /\ Field(esp, "CS") = stack[esp - 12]
           /\ Field(esp, "EFLAGS") = stack[esp - 13]
  <1>1. /\ DOMAIN InterruptFrame = 1 .. 14
        /\ InterruptFrame[1] = "DS" /\ InterruptFrame[2] = "EDI" /\ InterruptFrame[3] = "ESI"
        /\ InterruptFrame[4] = "EBP" /\ InterruptFrame[5] = "IESP" /\ InterruptFrame[6] = "EBX"
        /\ InterruptFrame[7] = "EDX" /\ InterruptFrame[8] = "ECX" /\ InterruptFrame[9] = "EAX"
        /\ InterruptFrame[10] = "InterruptNumber" /\ InterruptFrame[11] = "ErrorCode"
        /\ InterruptFrame[12] = "EIP" /\ InterruptFrame[13] = "CS"
        /\ InterruptFrame[14] = "EFLAGS"
    BY DEF InterruptFrame
  <1>2. ASSUME NEW j \in 1 .. 14
        PROVE  Field(esp, InterruptFrame[j]) = stack[esp + 1 - j]
    <2>1. \A k \in 1 .. 14 : InterruptFrame[k] = InterruptFrame[j] => k = j
      BY <1>1
    <2>2. (CHOOSE k \in DOMAIN InterruptFrame : InterruptFrame[k] = InterruptFrame[j]) = j
      BY <1>1, <2>1
    <2> QED
      BY <2>2 DEF Field
  <1>3. /\ esp + 1 - 1 = esp /\ esp + 1 - 2 = esp - 1 /\ esp + 1 - 3 = esp - 2
        /\ esp + 1 - 4 = esp - 3 /\ esp + 1 - 6 = esp - 5 /\ esp + 1 - 7 = esp - 6
        /\ esp + 1 - 8 = esp - 7 /\ esp + 1 - 9 = esp - 8 /\ esp + 1 - 10 = esp - 9
        /\ esp + 1 - 11 = esp - 10 /\ esp + 1 - 12 = esp - 11 /\ esp + 1 - 13 = esp - 12
        /\ esp + 1 - 14 = esp - 13
    OBVIOUS
  <1>4. /\ 1 \in 1 .. 14 /\ 2 \in 1 .. 14 /\ 3 \in 1 .. 14 /\ 4 \in 1 .. 14
        /\ 6 \in 1 .. 14 /\ 7 \in 1 .. 14 /\ 8 \in 1 .. 14 /\ 9 \in 1 .. 14
        /\ 10 \in 1 .. 14 /\ 11 \in 1 .. 14 /\ 12 \in 1 .. 14 /\ 13 \in 1 .. 14
        /\ 14 \in 1 .. 14
    OBVIOUS
  <1> QED
    BY <1>1, <1>2, <1>3, <1>4, Zenon

LEMMA FaultHandlerStack ==
    ASSUME StackInv, FaultHandler
    PROVE  StackInv'
  <1>1. PICK c : c = Current
    OBVIOUS
  <1>2. /\ Depth > 0 /\ c.at = "handler" /\ gates' = gates /\ stack' = stack
    BY <1>1 DEF FaultHandler, Handling, tables
  <1>3. /\ Depth \in Nat /\ faults \in Seq(Fault) /\ stack \in Words
        /\ Depth \in 1 .. Depth /\ faults[Depth] = c /\ c \in Fault
        /\ c.vector \in Nat
    BY <1>1, <1>2, InnermostIs
  <1>4. /\ c.vector \in Exceptions /\ c.code \in Nat /\ c.esp \in Nat
    BY <1>3, FaultIs, Zenon
  <1>5. FrameAt(stack, c.esp, c.vector, Depth)
    BY <1>2, <1>3 DEF StackInv, FrameInv, Frames
  <1>6. /\ Field(c.esp, "InterruptNumber") = <<"stub", c.vector>>
        /\ Field(c.esp, "ErrorCode") = <<"stub", 0>>
    <2>1. /\ stack[c.esp - 9] = <<"stub", c.vector>> /\ stack[c.esp - 10] = <<"stub", 0>>
      BY <1>5, Zenon DEF FrameAt, Word
    <2>2. c.esp \in Int
      BY <1>4
    <2>3. /\ Field(c.esp, "InterruptNumber") = stack[c.esp - 9]
          /\ Field(c.esp, "ErrorCode") = stack[c.esp - 10]
      BY <2>2, Positions, Zenon
    <2> QED
      BY <2>1, <2>3
  <1>7. PICK told, present :
          /\ told = (IF c.vector < 32 THEN c.vector ELSE -1)
          /\ present = (IF c.vector = 14 THEN 0 % 2 ELSE -1)
    OBVIOUS
  <1>8. told \in Int /\ present \in Int
    BY <1>3, <1>7
  <1>9. PICK r : r = [vector |-> c.vector, code |-> c.code, at |-> "panic",
                      esp |-> c.esp, told |-> told, present |-> present]
    OBVIOUS
  <1>10. faults' = [faults EXCEPT ![Depth] = r]
    <2>1. faults' = [faults EXCEPT ![Depth].at = "panic", ![Depth].told = told,
                                   ![Depth].present = present]
      <3>1. PICK number, error :
              /\ number = Field(Current.esp, "InterruptNumber")[2]
              /\ error = Field(Current.esp, "ErrorCode")[2]
        OBVIOUS
      <3>2. faults' = [faults EXCEPT
              ![Depth].at = "panic",
              ![Depth].told = IF number < 32 THEN number ELSE -1,
              ![Depth].present = IF number = 14 THEN error % 2 ELSE -1]
        BY <3>1, Zenon DEF FaultHandler
      <3>3. number = c.vector /\ error = 0
        BY <1>1, <1>6, <3>1
      <3> QED
        BY <1>7, <3>2, <3>3, Zenon
    <2>2. PICK b : b = [c EXCEPT !.at = "panic"]
      OBVIOUS
    <2>3. b = [vector |-> c.vector, code |-> c.code, at |-> "panic",
               esp |-> c.esp, told |-> c.told, present |-> c.present]
      BY <1>3, <2>2, FaultIs, Zenon
    <2>4. [[b EXCEPT !.told = told] EXCEPT !.present = present] = r
      <3>1. PICK e : e = [b EXCEPT !.told = told]
        OBVIOUS
      <3>2. e = [vector |-> c.vector, code |-> c.code, at |-> "panic",
                 esp |-> c.esp, told |-> told, present |-> c.present]
        BY <2>3, <3>1
      <3>3. [e EXCEPT !.present = present] = r
        BY <1>9, <3>2
      <3> QED
        BY <3>1, <3>3
    <2>5. faults' = [faults EXCEPT ![Depth] = [[b EXCEPT !.told = told] EXCEPT !.present = present]]
      BY <1>3, <2>1, <2>2
    <2> QED
      BY <2>4, <2>5
  <1>11. r \in Fault /\ r.vector = c.vector /\ r.at = "panic" /\ r.esp = c.esp
    BY <1>4, <1>8, <1>9 DEF Fault
  <1>12. stack' \in Words
         /\ \A k, what, value : Word(stack, k, what, value) => Word(stack', k, what, value)
    BY <1>2, <1>3
  <1> QED
    BY <1>1, <1>2, <1>5, <1>10, <1>11, <1>12, InnermostStep

(* While Processor::Init goes on there is no exception: nothing is pushed. *)
LEMMA NoStack ==
    ASSUME StackInv, faults = <<>>, UNCHANGED <<stack, faults>>
    PROVE  StackInv'
  <1>1. Len(faults) = 0
    OBVIOUS
  <1>2. Depth' = 0 /\ 1 .. 0 = {}
    BY <1>1 DEF Depth
  <1>3. TopInv' /\ FrameInv'
    BY <1>2 DEF TopInv, FrameInv, Frames
  <1>4. \A d \in 1 .. Depth' : gates'[faults'[d].vector] = Gate(faults'[d].vector)
    BY <1>2
  <1> QED
    BY <1>3, <1>4 DEF StackInv

LEMMA TypesFollow ==
    ASSUME IInv
    PROVE  TypeOK
  <1>1. /\ boot \in {Order[k] : k \in DOMAIN Order} /\ next \in 0 .. 31
    BY OrderIs DEF IInv, BootInv, BootTypes, LoopInv
  <1>2. \A k \in 1 .. Len(stack) : stack[k] \in StackWord
    BY DEF IInv, StackInv
  <1>3. ASSUME NEW d \in 1 .. Depth
        PROVE  /\ faults[d].vector \in Exceptions
               /\ faults[d].at \in {"entry", "save", "handler", "panic"}
    <2>1. faults[d] \in Fault
      BY DEF IInv, StackInv, Depth
    <2> QED
      BY <2>1, FaultIs, Zenon
  <1> QED
    BY <1>1, <1>2, <1>3 DEF TypeOK, IInv, BootInv, BootTypes, PIC

LEMMA NoneIsSegment == "none" \in {Segments[s] : s \in 0 .. 4}
  <1>1. 0 \in 0 .. 4
    OBVIOUS
  <1> QED
    BY <1>1, SegmentsAre, Zenon

LEMMA InitInv ==
    ASSUME Init
    PROVE  IInv
  <1> USE DEF Init
  <1>1. BootTypes
    <2>1. "gdt" \in {"gdt", "lgdt", "idt", "lidt", "masks", "remap", "done"}
      OBVIOUS
    <2>2. gdt \in [0 .. 4 -> {Segments[s] : s \in 0 .. 4}]
      <3>1. "none" \in {Segments[s] : s \in 0 .. 4}
        BY NoneIsSegment, Zenon
      <3>2. PICK T : T = {Segments[s] : s \in 0 .. 4}
        OBVIOUS
      <3>3. gdt \in [0 .. 4 -> T]
        BY <3>1, <3>2
      <3> QED
        BY <3>2, <3>3
    <2>3. PICK a \in Masks, b \in Masks :
             pic = <<[offset |-> 8, imr |-> a, icw |-> 0, cascade |-> 4],
                     [offset |-> 112, imr |-> b, icw |-> 0, cascade |-> 2]>>
      OBVIOUS
    <2>4. /\ [offset |-> 8, imr |-> a, icw |-> 0, cascade |-> 4] \in PIC
          /\ [offset |-> 112, imr |-> b, icw |-> 0, cascade |-> 2] \in PIC
      BY DEF PIC
    <2>5. pic \in [1 .. 2 -> PIC] /\ firmware = <<a, b>>
      <3>1. /\ pic[1] = [offset |-> 8, imr |-> a, icw |-> 0, cascade |-> 4]
            /\ pic[2] = [offset |-> 112, imr |-> b, icw |-> 0, cascade |-> 2]
        BY <2>3
      <3>2. ASSUME NEW T, NEW p \in T, NEW q \in T
            PROVE  <<p, q>> \in [1 .. 2 -> T]
        OBVIOUS
      <3>3. pic \in [1 .. 2 -> PIC]
        BY <2>3, <2>4, <3>2, Zenon
      <3> QED
        BY <3>1, <3>3
    <2>6. /\ gates \in [0 .. 31 -> {NoGate} \cup {Gate(v) : v \in 0 .. 31}]
          /\ saved \in [1 .. 2 -> Masks \cup {0}]
      OBVIOUS
    <2>7. firmware \in [1 .. 2 -> Masks]
      <3>1. <<a, b>> \in [1 .. 2 -> Masks]
        OBVIOUS
      <3> QED
        BY <2>5, <3>1, Zenon
    <2> QED
      BY <2>1, <2>2, <2>5, <2>6, <2>7 DEF BootTypes
  <1>2. LoopInv /\ GDTInv /\ IDTInv /\ PICInv /\ ResetInv
    BY DEF LoopInv, GDTInv, IDTInv, PICInv, ResetInv
  <1>3. MaskInv
    BY DEF MaskInv
  <1>4. StackInv
    BY DEF StackInv, TopInv, FrameInv, Frames, Depth
  <1> QED
    BY <1>1, <1>2, <1>3, <1>4 DEF IInv, BootInv

LEMMA StepInv ==
    ASSUME IInv, [Next]_vars
    PROVE  IInv'
  <1> USE DEF IInv
  <1>1. ASSUME \/ SetSegment \/ GDTLoad \/ SetGate \/ IDTLoad \/ SaveMask \/ Remap
        PROVE  IInv'
    <2>1. faults = <<>> /\ UNCHANGED <<stack, faults>>
      BY <1>1 DEF SetSegment, GDTLoad, SetGate, IDTLoad, SaveMask, Remap, At, UnchangedFaults
    <2>2. BootInv'
      BY <1>1, SetSegmentBoot, GDTLoadBoot, SetGateBoot, IDTLoadBoot, SaveMaskBoot, RemapBoot
    <2> QED
      BY <2>1, <2>2, NoStack
  <1>2. ASSUME NEW v \in Exceptions, NEW code \in ErrorCodes \cup {0}, Raise(v, code)
        PROVE  IInv'
    <2>1. BootInv'
      <3>1. UNCHANGED <<boot, next>> /\ UNCHANGED tables
        BY <1>2 DEF Raise
      <3>2. cpu' = cpu \/ (cpu' = "reset" /\ ~({"gdt", "idt"} \subseteq loaded))
        <4>1. CASE Deliverable(v)
          BY <1>2, <4>1 DEF Raise
        <4>2. CASE ~Deliverable(v)
          BY <1>2, <4>2, LoadedIsComplete, ExceptionsAssumption DEF Raise
        <4> QED
          BY <4>1, <4>2
      <3> QED
        BY <3>1, <3>2, HandlersBoot
    <2> QED
      BY <1>2, <2>1, RaiseStack
  <1>3. ASSUME EnterStub \/ SaveState \/ FaultHandler
        PROVE  IInv'
    <2>1. UNCHANGED <<boot, next, cpu>> /\ UNCHANGED tables
      BY <1>3 DEF EnterStub, SaveState, FaultHandler
    <2> QED
      BY <1>3, <2>1, HandlersBoot, EnterStubStack, SaveStateStack, FaultHandlerStack
  <1>4. ASSUME UNCHANGED vars
        PROVE  IInv'
    <2>1. /\ UNCHANGED <<boot, next, cpu>> /\ UNCHANGED tables
          /\ UNCHANGED <<stack, faults, gates>>
      BY <1>4 DEF vars, tables
    <2>2. BootInv'
      BY <2>1, HandlersBoot
    <2>3. StackInv'
      BY <2>1 DEF StackInv, TopInv, FrameInv, Frames, Depth, Current
    <2> QED
      BY <2>2, <2>3
  <1> QED
    BY <1>1, <1>2, <1>3, <1>4 DEF Next, Idle

-----------------------------------------------------------------------------
(* Processor::Init and the handlers keep the invariant above: what is set  *)
(* so far, and what each nested exception has pushed.                      *)
THEOREM Invariance == Spec => []IInv
  <1>1. Init => IInv
    BY InitInv
  <1>2. IInv /\ [Next]_vars => IInv'
    BY StepInv
  <1> QED
    BY <1>1, <1>2, PTL DEF Spec

(* The type invariant. *)
THEOREM TypeCorrect == Spec => []TypeOK
  <1>1. IInv => TypeOK
    BY TypesFollow
  <1> QED
    BY <1>1, Invariance, PTL

(* Whatever exceptions nest in one another, and whichever of them push an  *)
(* error code, x86ISRFaultHandler reads from its InterruptFrame what was   *)
(* pushed for it by the gate's stub, pushad and _ISRHandler.               *)
THEOREM FramesAreRead == Spec => []FrameIsRead
  <1>1. ASSUME IInv
        PROVE  FrameIsRead
    <2>1. ASSUME NEW d \in Frames
          PROVE  /\ Field(faults[d].esp, "InterruptNumber") = <<"stub", faults[d].vector>>
                 /\ \A f \in {"DS", "EAX", "EBX", "ECX", "EDX", "ESI", "EDI", "EBP"} :
                       Field(faults[d].esp, f) = <<f, d>>
                 /\ faults[d].vector \notin WithErrorCode =>
                       /\ Field(faults[d].esp, "ErrorCode") = <<"stub", 0>>
                       /\ \A f \in {"EIP", "CS", "EFLAGS"} :
                             Field(faults[d].esp, f) = <<f, d - 1>>
      <3>1. faults[d] \in Fault
        BY <1>1 DEF IInv, StackInv, Frames, Depth
      <3>2. PICK esp, v : esp = faults[d].esp /\ v = faults[d].vector
        OBVIOUS
      <3>3. esp \in Int
        <4>1. esp \in Nat
          BY <3>1, <3>2, FaultIs, Zenon
        <4> QED
          BY <4>1
      <3>4. FrameAt(stack, esp, v, d)
        BY <1>1, <3>2 DEF IInv, StackInv, FrameInv
      <3>5. /\ stack[esp] = <<"DS", d>> /\ stack[esp - 1] = <<"EDI", d>>
            /\ stack[esp - 2] = <<"ESI", d>> /\ stack[esp - 3] = <<"EBP", d>>
            /\ stack[esp - 5] = <<"EBX", d>> /\ stack[esp - 6] = <<"EDX", d>>
            /\ stack[esp - 7] = <<"ECX", d>> /\ stack[esp - 8] = <<"EAX", d>>
            /\ stack[esp - 9] = <<"stub", v>> /\ stack[esp - 10] = <<"stub", 0>>
        BY <3>4, Zenon DEF FrameAt, Word
      <3>6. v \notin WithErrorCode =>
               /\ stack[esp - 11] = <<"EIP", d - 1>> /\ stack[esp - 12] = <<"CS", d - 1>>
               /\ stack[esp - 13] = <<"EFLAGS", d - 1>>
        <4>1. (esp - 11) - 1 = esp - 12 /\ (esp - 11) - 2 = esp - 13
          BY <3>3
        <4> QED
          BY <3>4, <4>1, Zenon DEF FrameAt, Context, Word
      <3>7. /\ Field(esp, "InterruptNumber") = <<"stub", v>>
            /\ Field(esp, "ErrorCode") = <<"stub", 0>>
            /\ Field(esp, "DS") = <<"DS", d>> /\ Field(esp, "EAX") = <<"EAX", d>>
            /\ Field(esp, "EBX") = <<"EBX", d>> /\ Field(esp, "ECX") = <<"ECX", d>>
            /\ Field(esp, "EDX") = <<"EDX", d>> /\ Field(esp, "ESI") = <<"ESI", d>>
            /\ Field(esp, "EDI") = <<"EDI", d>> /\ Field(esp, "EBP") = <<"EBP", d>>
        BY <3>3, <3>5, Positions, Zenon
      <3>8. v \notin WithErrorCode =>
               /\ Field(esp, "EIP") = <<"EIP", d - 1>> /\ Field(esp, "CS") = <<"CS", d - 1>>
               /\ Field(esp, "EFLAGS") = <<"EFLAGS", d - 1>>
        BY <3>3, <3>6, Positions, Zenon
      <3> QED
        BY <3>2, <3>7, <3>8
    <2> QED
      BY <1>1, <2>1, TypesFollow DEF FrameIsRead
  <1>2. IInv => FrameIsRead
    BY <1>1
  <1> QED
    BY <1>2, Invariance, PTL

(* Once lgdt and lidt have been executed, no exception resets the machine: *)
(* SetGate and SetSegment have filled the tables that LoadIDT and LoadGDT  *)
(* give to the processor.                                                  *)
THEOREM LoadedTablesDeliver == Spec => []FaultsAreDelivered
  <1>1. IInv => FaultsAreDelivered
    BY DEF IInv, BootInv, ResetInv, FaultsAreDelivered
  <1> QED
    BY <1>1, Invariance, PTL

(* After PIC8259::Remap both controllers have left their initialisation,   *)
(* IRQ 0-15 are vectors 32-47, and the firmware's masks are back.          *)
THEOREM RemapIsComplete == Spec => []Remapped
  <1>1. ASSUME IInv, boot = "done"
        PROVE  /\ \A k \in 1 .. 2 : pic[k].icw = 0 /\ pic[k].imr = firmware[k]
               /\ {pic[k].offset + irq : k \in 1 .. 2, irq \in 0 .. 7} = 32 .. 47
               /\ pic[1].cascade = 4 /\ pic[2].cascade = 2
    <2>1. /\ pic[1].icw = 0 /\ pic[2].icw = 0 /\ pic[1].offset = 32 /\ pic[2].offset = 40
          /\ pic[1].cascade = 4 /\ pic[2].cascade = 2
          /\ \A k \in 1 .. 2 : pic[k].imr = firmware[k]
      BY <1>1 DEF IInv, BootInv, PICInv, Initialised
    <2>2. \A k \in 1 .. 2 : k = 1 \/ k = 2
      OBVIOUS
    <2>3. {pic[k].offset + irq : k \in 1 .. 2, irq \in 0 .. 7} \subseteq 32 .. 47
      BY <2>1, <2>2
    <2>4. ASSUME NEW n \in 32 .. 47
          PROVE  n \in {pic[k].offset + irq : k \in 1 .. 2, irq \in 0 .. 7}
      <3>1. CASE n < 40
        <4>1. n = pic[1].offset + (n - 32) /\ n - 32 \in 0 .. 7 /\ 1 \in 1 .. 2
          BY <2>1, <3>1
        <4> QED
          BY <4>1
      <3>2. CASE n >= 40
        <4>1. n = pic[2].offset + (n - 40) /\ n - 40 \in 0 .. 7 /\ 2 \in 1 .. 2
          BY <2>1, <3>2
        <4> QED
          BY <4>1
      <3> QED
        BY <3>1, <3>2
    <2> QED
      BY <2>1, <2>2, <2>3, <2>4
  <1>2. IInv => Remapped
    BY <1>1 DEF Remapped
  <1> QED
    BY <1>2, Invariance, PTL
=============================================================================
