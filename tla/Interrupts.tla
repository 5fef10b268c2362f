----------------------------- MODULE Interrupts -----------------------------
(***************************************************************************)
(* Processor::Init and what it leaves behind: the segment descriptors, the *)
(* exception gates, the stubs that build the handler's stack frame and the *)
(* two interrupt controllers.  The processor and the controllers are       *)
(* external.  An exception may be raised at any step, also in a handler.   *)
(*                                                                         *)
(* No handler returns: every stub's number is below 32, and KPanic loops.  *)
(* Interrupts stay disabled (Boot.asm clears them and nothing calls        *)
(* EnableInterrupts, SendEOI or Shutdown), so no IRQ is delivered.         *)
(***************************************************************************)
EXTENDS Integers, Sequences

CONSTANTS Exceptions,   \* the exceptions the processor may raise
          ErrorCodes,   \* the error codes it may push
          Masks,        \* the IRQ masks the firmware may have left
          MaxNesting    \* bound: exceptions raised in one another

ASSUME ExceptionsAssumption == Exceptions \subseteq 0 .. 31
ASSUME ErrorCodesAssumption == ErrorCodes \subseteq Nat
ASSUME NestingAssumption == MaxNesting \in Nat

VARIABLES boot,     \* the step of Processor::Init
          next,     \* the descriptor, gate, mask or port write it is at
          gdt,      \* s_GDT: the access bytes
          gates,    \* s_IDT: stub and selector of each gate, or NoGate
          loaded,   \* the tables the processor has been given
          pic,      \* the controllers
          saved,    \* a1 and a2, the masks Remap has read
          stack,    \* words pushed since the first exception
          faults,   \* the exceptions being handled, innermost last
          firmware, \* history: the masks at boot
          cpu       \* "running", or "reset" by an exception it cannot deliver

vars == <<boot, next, gdt, gates, loaded, pic, saved, stack, faults, firmware, cpu>>
tables == <<gdt, gates, loaded, pic, saved, firmware>>

-----------------------------------------------------------------------------
(* Mutants: the table is given to the processor before its gates are set;  *)
(* the masks are read after the initialisation.                            *)
TableBeforeGates == <<"gdt", "lgdt", "lidt", "idt", "masks", "remap", "done">>
MasksAfterRemap == <<"gdt", "lgdt", "idt", "lidt", "remap", "masks", "done">>

(* Processor::Init.  Its steps, in the order of its calls. *)
Order == <<"gdt", "lgdt", "idt", "lidt", "masks", "remap", "done">>
After(s) == Order[1 + CHOOSE k \in DOMAIN Order : Order[k] = s]

(* Access bytes by what they say: 0x9a, 0x92, 0xf8, 0xf2. *)
Segments == [s \in 0 .. 4 |-> CASE s = 1 -> "kernel code" [] s = 2 -> "kernel data"
                                [] s = 3 -> "user code"   [] s = 4 -> "user data"
                                [] OTHER -> "none"]
KernelCode == 1         \* selectors 0x08 and 0x10, as descriptor numbers
KernelData == 2
NoGate == [stub |-> -1, selector |-> 0]
Gate(v) == [stub |-> v, selector |-> KernelCode]

(* Remap's port writes; the last two restore the masks read before them. *)
Write(to, port, value) == [to |-> to, port |-> port, value |-> value]

RemapWrites == <<
    Write(1, "command", 17), Write(1, "data", 32), Write(1, "data", 4), Write(1, "data", 1),
    Write(2, "command", 17), Write(2, "data", 40), Write(2, "data", 2), Write(2, "data", 1),
    Write(1, "data", saved[1]), Write(2, "data", saved[2]) >>

(* A controller: icw is the initialisation word it expects, 0 for none. *)
PICWrite(p, port, value) ==
    IF port = "command" THEN [p EXCEPT !.icw = 2, !.imr = 0]
    ELSE CASE p.icw = 2 -> [p EXCEPT !.icw = 3, !.offset = value]
           [] p.icw = 3 -> [p EXCEPT !.icw = 4, !.cascade = value]
           [] p.icw = 4 -> [p EXCEPT !.icw = 0]
           [] OTHER     -> [p EXCEPT !.imr = value]

(* The loop index, until the last of the step's writes has been made. *)
Advance(last) ==
    IF next < last THEN next' = next + 1 /\ UNCHANGED boot
                   ELSE next' = 0 /\ boot' = After(boot)

At(s) == cpu = "running" /\ faults = <<>> /\ boot = s
UnchangedFaults == UNCHANGED <<stack, faults, firmware, cpu>>

SetSegment ==
    /\ At("gdt")
    /\ gdt' = [gdt EXCEPT ![next] = Segments[next]]
    /\ Advance(4)
    /\ UNCHANGED <<gates, loaded, pic, saved>> /\ UnchangedFaults

GDTLoad ==
    /\ At("lgdt")
    /\ loaded' = loaded \cup {"gdt"}
    /\ Advance(0)
    /\ UNCHANGED <<gdt, gates, pic, saved>> /\ UnchangedFaults

SetGate ==
    /\ At("idt")
    /\ gates' = [gates EXCEPT ![next] = Gate(next)]
    /\ Advance(31)
    /\ UNCHANGED <<gdt, loaded, pic, saved>> /\ UnchangedFaults

IDTLoad ==
    /\ At("lidt")
    /\ loaded' = loaded \cup {"idt"}
    /\ Advance(0)
    /\ UNCHANGED <<gdt, gates, pic, saved>> /\ UnchangedFaults

SaveMask ==
    /\ At("masks")
    /\ saved' = [saved EXCEPT ![next + 1] = pic[next + 1].imr]
    /\ Advance(1)
    /\ UNCHANGED <<gdt, gates, loaded, pic>> /\ UnchangedFaults

Remap ==
    /\ At("remap")
    /\ LET w == RemapWrites[next + 1] IN
         pic' = [pic EXCEPT ![w.to] = PICWrite(@, w.port, w.value)]
    /\ Advance(Len(RemapWrites) - 1)
    /\ UNCHANGED <<gdt, gates, loaded, saved>> /\ UnchangedFaults

-----------------------------------------------------------------------------
(* Exceptions.  A word on the stack is <<what it holds, its value>>; the   *)
(* value of a saved register is the nesting depth it was saved at.         *)

WithErrorCode == {8, 10, 11, 12, 13, 14, 17}

(* InterruptFrame, from the top of the stack. *)
InterruptFrame == <<"DS", "EDI", "ESI", "EBP", "IESP", "EBX", "EDX", "ECX", "EAX",
                    "InterruptNumber", "ErrorCode", "EIP", "CS", "EFLAGS">>
Field(esp, f) == stack[esp + 1 - CHOOSE k \in DOMAIN InterruptFrame : InterruptFrame[k] = f]

(* Mutant: the data segment is not saved. *)
WithoutSegment(d) == << <<"EAX", d>>, <<"ECX", d>>, <<"EDX", d>>, <<"EBX", d>>,
                        <<"ESP", d>>, <<"EBP", d>>, <<"ESI", d>>, <<"EDI", d>> >>

(* What ISR<n> and _ISRHandler push: error code and number; then pushad    *)
(* and the data segment.                                                   *)
Stub(n) == << <<"stub", 0>>, <<"stub", n>> >>
Pushad(d) == << <<"EAX", d>>, <<"ECX", d>>, <<"EDX", d>>, <<"EBX", d>>,
                <<"ESP", d>>, <<"EBP", d>>, <<"ESI", d>>, <<"EDI", d>>, <<"DS", d>> >>

Depth == Len(faults)
Current == faults[Depth]
Deliverable(v) ==
    /\ {"gdt", "idt"} \subseteq loaded
    /\ gates[v] # NoGate
    /\ gdt[gates[v].selector] = "kernel code"

(* The processor pushes the interrupted context, and an error code for     *)
(* some exceptions, and enters the gate's stub.  Without a gate it is lost.*)
Raise(v, code) ==
    /\ cpu = "running" /\ Depth < MaxNesting
    /\ v \notin WithErrorCode => code = 0
    /\ IF Deliverable(v)
         THEN /\ stack' = stack \o << <<"EFLAGS", Depth>>, <<"CS", Depth>>, <<"EIP", Depth>> >>
                                \o IF v \in WithErrorCode THEN << <<"code", code>> >> ELSE <<>>
              /\ faults' = Append(faults, [vector |-> v, code |-> code, at |-> "entry",
                                           esp |-> 0, told |-> -1, present |-> -1])
              /\ UNCHANGED cpu
         ELSE cpu' = "reset" /\ UNCHANGED <<stack, faults>>
    /\ UNCHANGED <<boot, next>> /\ UNCHANGED tables

Handling(step) == cpu = "running" /\ Depth > 0 /\ Current.at = step

EnterStub ==
    /\ Handling("entry")
    /\ stack' = stack \o Stub(gates[Current.vector].stub)
    /\ faults' = [faults EXCEPT ![Depth].at = "save"]
    /\ UNCHANGED <<boot, next, cpu>> /\ UNCHANGED tables

(* The kernel data segment is loaded before the handler is called. *)
SaveState ==
    /\ Handling("save")
    /\ gdt[KernelData] = "kernel data"
    /\ stack' = stack \o Pushad(Depth)
    /\ faults' = [faults EXCEPT ![Depth].at = "handler", ![Depth].esp = Len(stack')]
    /\ UNCHANGED <<boot, next, cpu>> /\ UNCHANGED tables

(* x86ISRFaultHandler: a page fault prints whether the page was present,   *)
(* and every exception ends in KPanic with its own message.                *)
FaultHandler ==
    /\ Handling("handler")
    /\ LET number == Field(Current.esp, "InterruptNumber")[2]
           error == Field(Current.esp, "ErrorCode")[2]
       IN faults' = [faults EXCEPT
            ![Depth].at = "panic",
            ![Depth].told = IF number < 32 THEN number ELSE -1,
            ![Depth].present = IF number = 14 THEN error % 2 ELSE -1]
    /\ UNCHANGED <<boot, next, stack, cpu>> /\ UNCHANGED tables

(* KMain's work, or the loop it or KPanic ends in. *)
Rest == cpu = "reset" \/ boot = "done" \/ Depth > 0
Idle == Rest /\ UNCHANGED vars

Init ==
    /\ boot = "gdt" /\ next = 0
    /\ gdt = [s \in 0 .. 4 |-> "none"]
    /\ gates = [v \in 0 .. 31 |-> NoGate]
    /\ loaded = {}
    /\ pic \in {<<[offset |-> 8, imr |-> a, icw |-> 0, cascade |-> 4],
                  [offset |-> 112, imr |-> b, icw |-> 0, cascade |-> 2]>> : a, b \in Masks}
    /\ firmware = <<pic[1].imr, pic[2].imr>>
    /\ saved = <<0, 0>>
    /\ stack = <<>> /\ faults = <<>> /\ cpu = "running"

Next == \/ SetSegment \/ GDTLoad \/ SetGate \/ IDTLoad \/ SaveMask \/ Remap
        \/ \E v \in Exceptions, code \in ErrorCodes \cup {0} : Raise(v, code)
        \/ EnterStub \/ SaveState \/ FaultHandler
        \/ Idle

Spec == Init /\ [][Next]_vars

-----------------------------------------------------------------------------
(* A word on the stack: a register, an error code or a word of the stub.   *)
StackWord == {"EFLAGS", "CS", "EIP", "code", "stub", "EAX", "ECX", "EDX", "EBX",
              "ESP", "EBP", "ESI", "EDI", "DS"} \X Nat

TypeOK ==
    /\ boot \in {Order[k] : k \in DOMAIN Order}
    /\ next \in 0 .. 31
    /\ gdt \in [0 .. 4 -> {Segments[s] : s \in 0 .. 4}]
    /\ gates \in [0 .. 31 -> {NoGate} \cup {Gate(v) : v \in 0 .. 31}]
    /\ loaded \subseteq {"gdt", "idt"}
    /\ pic \in [1 .. 2 -> [offset : 0 .. 255, imr : Masks \cup {0}, icw : {0, 2, 3, 4},
                           cascade : 0 .. 255]]
    /\ saved \in [1 .. 2 -> Masks \cup {0}] /\ firmware \in [1 .. 2 -> Masks]
    /\ \A k \in 1 .. Len(stack) : stack[k] \in StackWord
    /\ \A d \in 1 .. Depth : /\ faults[d].vector \in Exceptions
                             /\ faults[d].at \in {"entry", "save", "handler", "panic"}
    /\ cpu \in {"running", "reset"}

Frames == {d \in 1 .. Depth : faults[d].at \in {"handler", "panic"}}

(* What x86ISRFaultHandler reads from its frame is what was pushed for it, *)
(* through gate, stub, pushad and InterruptFrame, in nested handlers too:  *)
(* the number is the vector raised and the registers are those of the code *)
(* interrupted at that depth, whether the processor pushed an error code   *)
(* or not; without one, EIP, CS and EFLAGS are that code's as well.        *)
FrameIsRead ==
    /\ TypeOK
    /\ \A d \in Frames :
          /\ Field(faults[d].esp, "InterruptNumber") = <<"stub", faults[d].vector>>
          /\ \A f \in {"DS", "EAX", "EBX", "ECX", "EDX", "ESI", "EDI", "EBP"} :
                Field(faults[d].esp, f) = <<f, d>>
          /\ faults[d].vector \notin WithErrorCode =>
                /\ Field(faults[d].esp, "ErrorCode") = <<"stub", 0>>
                /\ \A f \in {"EIP", "CS", "EFLAGS"} :
                      Field(faults[d].esp, f) = <<f, d - 1>>

(* Only an exception raised before Processor::Init has loaded both tables  *)
(* takes the machine down: once a table is in use, every gate and segment  *)
(* an exception needs is in it.                                            *)
FaultsAreDelivered == cpu = "reset" => ~({"gdt", "idt"} \subseteq loaded)

(* What Remap leaves: both controllers out of their initialisation, with   *)
(* IRQ 0-15 on vectors 32-47 (PIC8259.cpp:27), clear of the exceptions,    *)
(* cascaded, and masked as the firmware had them masked, although the      *)
(* first initialisation word clears the mask.                              *)
Remapped ==
    boot = "done" =>
        /\ \A k \in 1 .. 2 : pic[k].icw = 0 /\ pic[k].imr = firmware[k]
        /\ {pic[k].offset + irq : k \in 1 .. 2, irq \in 0 .. 7} = 32 .. 47
        /\ pic[1].cascade = 4 /\ pic[2].cascade = 2

(* The comments of ISR.asm say of exceptions 8 and 10 to 14 "With Error    *)
(* Code!" (ISR.asm:154), and the handler prints IsPresent from the frame's *)
(* ErrorCode: it should be bit 0 of the code of the page fault.            *)
PageFaultReported ==
    \A d \in 1 .. Depth : faults[d].at = "panic" /\ faults[d].vector = 14 =>
        faults[d].present = faults[d].code % 2

=============================================================================
