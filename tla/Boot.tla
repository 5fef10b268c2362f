-------------------------------- MODULE Boot --------------------------------
(***************************************************************************)
(* From the boot loader's jump to _kernelstart (Boot.asm) through KMain    *)
(* and InitKernel (Kernel.cpp) to KMain's last loop.  The machine walks    *)
(* the page tables that lie in its memory: the assembly code writes the    *)
(* first ones with paging off, the kernel writes the others through the    *)
(* translation that the first ones give it, switches to them, and then     *)
(* goes on editing the tables it runs on.                                  *)
(*                                                                         *)
(* Addresses are counted in pages.  PhysicalMemoryManager is the bitmap    *)
(* the boot fills; VirtualMemoryManager has the requests of the running    *)
(* kernel, and the TLB.                                                    *)
(***************************************************************************)
EXTENDS Integers, Sequences, FiniteSets

CONSTANTS EntryCount,      \* entries of a page table or directory entry's
                           \*   span in pages, 1024
          DirCount,        \* directory entries, 1024
          FirstKernelDir,  \* 768
          LoaderStart,     \* _bootloader_physical_start, 0x100000
          KernelPhysical,  \* _kernel_physical_start, 0x200000
          VideoPage,       \* VGA_VIDEO_ADDRESS, 0xB8000
          DmaPages,        \* 0x1000000 / 4096
          HeapPages,       \* kernelHeapSize / 4096, 25600
          TSize, ByteBits, \* of the bitmaps, 131072 and 8
          InfoPages,       \* where the boot loader may leave its information
          Maps             \* memory maps: sets of regions, see
                           \*   PhysicalMemoryManager

VPages == DirCount * EntryCount
Frames == 0 .. VPages - 1

(* The boot loader's image, in linker.ld's order. *)
BootDirectory == LoaderStart
BootTable0 == LoaderStart + 1
BootTable768 == LoaderStart + 2
BootText == LoaderStart + 3
BootStack == LoaderStart + 4
LoaderPages == 5

(* The kernel's image by its offsets: .text, then in .bss the directory    *)
(* and the tables of _KernelVMM, then the stack.                           *)
Text == 0
Directory == 1
Table0 == 2
Tables768 == 3
Stack == Tables768 + DirCount - FirstKernelDir
KernelPages == Stack + 1

KernelStart == FirstKernelDir * EntryCount
InKernel(offset) == KernelStart + offset

(* A directory has an entry for each table it may need and is itself one   *)
(* page of entries.  The kernel fits in one table, the heap in the tables  *)
(* from its own on, the low images and the boot loader's information in    *)
(* the first one's identity map and apart from each other; multiboot asks  *)
(* the loader for the last, and for a zeroed .bss.  The bitmap does not    *)
(* cover the whole address space (512MB of 4GB).                           *)
ASSUME LayoutAssumption ==
    /\ EntryCount \in Nat /\ DirCount \in 1 .. EntryCount
    /\ FirstKernelDir \in 1 .. DirCount - 5
    /\ LoaderStart \in Nat /\ KernelPhysical \in Nat
    /\ KernelPages < EntryCount
    /\ LoaderStart + LoaderPages =< KernelPhysical
    /\ KernelPhysical + KernelPages =< DmaPages
    /\ InfoPages \cup {VideoPage} \subseteq 0 .. LoaderStart - 1
    /\ LoaderStart + LoaderPages =< EntryCount
    /\ HeapPages \in 1 .. (DirCount - FirstKernelDir - 4) * EntryCount
    /\ TSize \in Nat /\ DmaPages \in 1 .. TSize /\ TSize < VPages
    /\ ByteBits \in 1 .. HeapPages

(* The memory map of a PC begins at address 0. *)
ASSUME MapsAssumption ==
    \A regions \in Maps :
       /\ regions \subseteq [base : Nat, length : Nat, available : BOOLEAN]
       /\ \E r \in regions : r.base = 0

P == INSTANCE PhysicalMemoryManager WITH
         PageSize <- 1, AddrSpace <- VPages, BootInfos <- {}, Callers <- {},
         Requests <- {}, start <- 0, bitmap <- {}, boot <- {}, info <- {},
         held <- << >>

VARIABLES loader,  \* what the boot loader left: eax, ebx, and where the
                   \*   structure ebx points to has the memory map
          pc,      \* the step the kernel is at
          i,       \* the counter of the step's loop
          mem,     \* the entries of the page tables in memory
          cr3,     \* the frame of the directory in force, or Off
          pushed,  \* the words pushed on the boot stack
          args,    \* KMain's arguments, the last one pushed first
          bootInfo,
          util,    \* MemoryUtil's start addresses, virtual and physical
          bits,    \* g_KernelPMM's bitmap
          heap     \* what AllocatePages has found for the heap

bootVars ==
    <<loader, pc, i, mem, cr3, pushed, args, bootInfo, util, bits, heap>>

Absent == -1
Off == -1

(* MULTIBOOT_BOOTLOADER_MAGIC: a word that is no address of this model. *)
Magic == VPages
NoInfo == P!None

-----------------------------------------------------------------------------
(* The processor's walk of directory and table. *)

At(frame, entry) == IF frame \in Frames THEN mem[frame][entry] ELSE Absent

Translate(page) ==
    IF cr3 = Off THEN page
    ELSE At(At(cr3, page \div EntryCount), page % EntryCount)

(* MemoryUtil. *)
KernelVirtualToPhysicalAddress(page) ==
    (page - util.virtual + util.physical) % VPages

KernelPhysicalToVirtualAddress(frame) ==
    (frame + util.virtual - util.physical) % VPages

-----------------------------------------------------------------------------
BootInit ==
    /\ loader \in [eax : {Magic, Magic + 1}, ebx : InfoPages,
                   mapPage : InfoPages, regions : Maps]
    /\ pc = "start"
    /\ i = 0
    /\ mem = [f \in Frames |-> [e \in 0 .. EntryCount - 1 |-> Absent]]
    /\ cr3 = Off
    /\ pushed = << >>
    /\ args = << >>
    /\ bootInfo = NoInfo
    /\ util = [virtual |-> 0, physical |-> 0]
    /\ bits = {}
    /\ heap = [page |-> 0, frame |-> 0]

(* Registers are saved on the boot stack: the loops below need them. *)
SaveRegisters ==
    /\ pc = "start"
    /\ pushed' = <<loader.eax, loader.ebx>>
    /\ pc' = "identity"
    /\ UNCHANGED <<loader, i, mem, cr3, args, bootInfo, util, bits, heap>>

(* One round of a loop that ends at count, and what the step after it is.  *)
Round(count, next) ==
    IF i + 1 < count THEN i' = i + 1 /\ UNCHANGED pc
                     ELSE i' = 0 /\ pc' = next

(* _identity_map and _map_pages. *)
FillBootTables ==
    /\ \/ /\ pc = "identity"
          /\ mem' = [mem EXCEPT ![BootTable0][i] = i]
          /\ Round(EntryCount, "higher")
       \/ /\ pc = "higher"
          /\ mem' = [mem EXCEPT ![BootTable768][i] = KernelPhysical + i]
          /\ Round(EntryCount, "directory")
    /\ UNCHANGED <<loader, cr3, pushed, args, bootInfo, util, bits, heap>>

EnablePaging ==
    /\ pc = "directory"
    /\ mem' = [mem EXCEPT ![BootDirectory][0] = BootTable0,
                          ![BootDirectory][FirstKernelDir] = BootTable768]
    /\ cr3' = BootDirectory
    /\ pc' = "jump"
    /\ UNCHANGED <<loader, i, pushed, args, bootInfo, util, bits, heap>>

(* Mutant: the two words are pushed in the order they were saved in. *)
HigherHalfUnswapped ==
    /\ pc = "jump"
    /\ args' = <<pushed[2], pushed[1]>>
    /\ pc' = "KMain"
    /\ UNCHANGED <<loader, i, mem, cr3, pushed, bootInfo, util, bits, heap>>

(* _kernelstart_higherhalf: the words are read back from the boot stack    *)
(* and pushed, the magic last, on the kernel's.                            *)
HigherHalf ==
    /\ pc = "jump"
    /\ args' = <<pushed[1], pushed[2]>>
    /\ pc' = "KMain"
    /\ UNCHANGED <<loader, i, mem, cr3, pushed, bootInfo, util, bits, heap>>

(* Mutant: MemoryUtil is initialised after the page tables it is used for. *)
OrderUtilLate ==
    <<"VGA", "Processor", "PMM", "VMM", "map first 4MB", "map kernel",
      "map rest", "MemoryUtil", "reload", "VMA", "map heap", "heap", "ATA",
      "read", "forever">>

(* What InitKernel does, with the calls of InitMemoryManager in line.      *)
Order ==
    <<"VGA", "Processor", "MemoryUtil", "PMM", "VMM", "map first 4MB",
      "map kernel", "map rest", "reload", "VMA", "map heap", "heap", "ATA",
      "read", "forever">>

Number(step) == CHOOSE n \in 1 .. Len(Order) : Order[n] = step
NextStep == Order[Number(pc) + 1]

(* KMain returns to the hlt loop when it was not called by multiboot. *)
KMain ==
    /\ pc = "KMain"
    /\ IF args[1] # Magic THEN pc' = "hang" /\ UNCHANGED bootInfo
       ELSE /\ pc' = Order[1]
            /\ bootInfo' = [regions         |-> loader.regions,
                            bootloaderStart |-> LoaderStart,
                            bootloaderSize  |-> LoaderPages,
                            kernelStart     |-> KernelPhysical,
                            kernelSize      |-> KernelPages]
    /\ UNCHANGED <<loader, i, mem, cr3, pushed, args, util, bits, heap>>

(* Steps that concern neither memory nor translation: the other modules    *)
(* have them.                                                              *)
InitDevice ==
    /\ pc \in {"VGA", "Processor", "heap"}
    /\ pc' = NextStep
    /\ UNCHANGED <<loader, i, mem, cr3, pushed, args, bootInfo, util, bits, heap>>

(* ata.Init and Read28 have come back, with whatever answer.  A drive that *)
(* is missing, hangs or faults may be polled for ever: nothing obliges     *)
(* this step.                                                              *)
UseDisk ==
    /\ pc \in {"ATA", "read"}
    /\ pc' = NextStep
    /\ UNCHANGED <<loader, i, mem, cr3, pushed, args, bootInfo, util, bits, heap>>

InitMemoryUtil ==
    /\ pc = "MemoryUtil"
    /\ util' = [virtual |-> KernelStart, physical |-> bootInfo.kernelStart]
    /\ pc' = NextStep
    /\ UNCHANGED <<loader, i, mem, cr3, pushed, args, bootInfo, bits, heap>>

InitPhysicalMemoryManager ==
    /\ pc = "PMM"
    /\ bits' = P!BootBitmap(P!StartAddress(bootInfo), bootInfo)
    /\ pc' = NextStep
    /\ UNCHANGED <<loader, i, mem, cr3, pushed, args, bootInfo, util, heap>>

(* VirtualMemoryManager::Init zeroes directory and tables. *)
InitPageTables ==
    /\ pc = "VMM"
    /\ LET zeroed == {Translate(InKernel(k)) : k \in Directory .. Stack - 1}
       IN  mem' = [f \in Frames |-> IF f \in zeroed
                                    THEN [e \in 0 .. EntryCount - 1 |-> Absent]
                                    ELSE mem[f]]
    /\ pc' = NextStep
    /\ UNCHANGED <<loader, i, cr3, pushed, args, bootInfo, util, bits, heap>>

(* Mutant: the rest of the kernel's table is mapped from its start. *)
RequestFromStart ==
    CASE pc = "map first 4MB" -> [page |-> 0, frame |-> 0, count |-> EntryCount]
      [] pc = "map kernel" -> [page |-> KernelStart, frame |-> bootInfo.kernelStart,
                               count |-> bootInfo.kernelSize]
      [] pc = "map rest" -> [page |-> KernelStart, frame |-> bootInfo.kernelStart,
                             count |-> EntryCount - bootInfo.kernelSize]
      [] pc = "map heap" -> [page |-> heap.page, frame |-> heap.frame,
                             count |-> HeapPages]

(* The calls of MapRange. *)
Request ==
    CASE pc = "map first 4MB" -> [page |-> 0, frame |-> 0, count |-> EntryCount]
      [] pc = "map kernel" -> [page |-> KernelStart, frame |-> bootInfo.kernelStart,
                               count |-> bootInfo.kernelSize]
      [] pc = "map rest" -> [page |-> KernelStart + bootInfo.kernelSize,
                             frame |-> bootInfo.kernelStart + bootInfo.kernelSize,
                             count |-> EntryCount - bootInfo.kernelSize]
      [] pc = "map heap" -> [page |-> heap.page, frame |-> heap.frame,
                             count |-> HeapPages]

MapSteps == {"map first 4MB", "map kernel", "map rest", "map heap"}

TableOf(page) ==
    IF page \div EntryCount = 0 THEN InKernel(Table0)
    ELSE InKernel(Tables768 + (page - KernelStart) \div EntryCount)

(* One round of MapRange: Map writes directory and table where the         *)
(* translation in force has them.  A page that is mapped ends in KPanic.   *)
MapPage ==
    /\ pc \in MapSteps
    /\ LET page      == Request.page + i
           entry     == page % EntryCount
           dirEntry  == page \div EntryCount
           directory == Translate(InKernel(Directory))
           linked    == IF At(directory, dirEntry) # Absent THEN mem
                        ELSE [mem EXCEPT ![directory][dirEntry] =
                                 KernelVirtualToPhysicalAddress(TableOf(page))]
           table     == Translate(KernelPhysicalToVirtualAddress(
                                      linked[directory][dirEntry]))
       IN  IF linked[table][entry] = Absent
           THEN /\ mem' = [linked EXCEPT ![table][entry] =
                              (Request.frame + i) % VPages]
                /\ Round(Request.count, NextStep)
           ELSE mem' = linked /\ pc' = "panic" /\ UNCHANGED i
    /\ UNCHANGED <<loader, cr3, pushed, args, bootInfo, util, bits, heap>>

ReloadPageDirectory ==
    /\ pc = "reload"
    /\ cr3' = KernelVirtualToPhysicalAddress(InKernel(Directory))
    /\ pc' = NextStep
    /\ UNCHANGED <<loader, i, mem, pushed, args, bootInfo, util, bits, heap>>

(* InitVirtualMemoryAllocator, and Heap::Init's AllocatePages up to its    *)
(* MapRange: nothing of the virtual map is in use, so the heap lies at its *)
(* start, four tables above the kernel's.                                  *)
AllocateHeap ==
    /\ pc = "VMA"
    /\ LET firstPage == P!FindUnsetBits(bits, HeapPages)
           frame == P!PageNumberToAddress(P!StartAddress(bootInfo), firstPage)
       IN  IF firstPage < 0 \/ frame = 0
           THEN pc' = "panic" /\ UNCHANGED <<bits, heap>>
           ELSE /\ bits' = P!SetBits(bits, firstPage, HeapPages)
                /\ heap' = [page |-> KernelStart + 4 * EntryCount, frame |-> frame]
                /\ pc' = NextStep
    /\ UNCHANGED <<loader, i, mem, cr3, pushed, args, bootInfo, util>>

Kernel ==
    \/ SaveRegisters \/ FillBootTables \/ EnablePaging \/ HigherHalf
    \/ KMain \/ InitDevice \/ InitMemoryUtil \/ InitPhysicalMemoryManager
    \/ InitPageTables \/ MapPage \/ ReloadPageDirectory \/ AllocateHeap

BootNext == Kernel \/ UseDisk

(* One thread with interrupts off: it goes on, but for the disk. *)
BootSpec == BootInit /\ [][BootNext]_bootVars /\ WF_bootVars(Kernel)
-----------------------------------------------------------------------------
(* The pages that the next step fetches its code from, reads and writes,   *)
(* each with the frame that holds what it means.                           *)
Identity(pages) == {<<p, p>> : p \in pages}
Image(offsets) == {<<InKernel(k), KernelPhysical + k>> : k \in offsets}

InBootText == pc \in {"start", "identity", "higher", "directory", "jump"}
Reached(step) == \E n \in 1 .. Len(Order) : pc = Order[n] /\ n >= Number(step)

Touched ==
    UNION {
      IF InBootText THEN Identity(BootDirectory .. BootStack) ELSE Image({Text, Stack}),
      IF pc = "jump" THEN Image({Text, Stack}) ELSE {},
      IF pc = "KMain" THEN Identity({loader.ebx}) ELSE {},
      IF pc = "PMM" THEN Identity({loader.mapPage}) ELSE {},
      IF Reached("VGA") THEN Identity({VideoPage}) ELSE {},
      IF Reached("VMM") THEN Image(Directory .. Stack - 1) ELSE {},
      IF Reached("heap")
      THEN {<<heap.page + k, (heap.frame + k) % VPages>> : k \in 0 .. HeapPages - 1}
      ELSE {} }

(* No step faults or reads another page than it means: code, stacks, boot  *)
(* information, video memory, the tables being edited and the heap are     *)
(* where the step looks for them, with paging off, under the boot's        *)
(* directory and under the kernel's, the step that switches included       *)
(* (Boot.asm:32-121, Kernel.cpp:78-118, 238-268).                          *)
NothingFaults == \A t \in Touched : Translate(t[1]) = t[2]

(* KMain gets what the boot loader left in eax and ebx, through the boot   *)
(* stack and across the switch of stacks, and its BootInfo describes this  *)
(* machine; it gives up exactly when the magic is wrong                    *)
(* (Boot.asm:40-43, 113-121, Kernel.cpp:238-265).                          *)
HandedOver ==
    /\ args # << >> => args = <<loader.eax, loader.ebx>>
    /\ pc = "hang" => loader.eax # Magic
    /\ Reached("VGA") => loader.eax = Magic /\ bootInfo.regions = loader.regions

(* The heap of a machine with room for it is memory of its own: its pages  *)
(* lie on different frames that are on record as taken and are neither the *)
(* boot loader's nor the kernel's nor the DMA zone's, and they are         *)
(* available memory, though seven of eight pages of no region are free in  *)
(* the bitmap.  Only where a hole lies right below a region the run may    *)
(* start in the hole, in its last byte of the bitmap.  Room is a region    *)
(* that the bitmap covers with as many pages above the DMA zone, on a map  *)
(* of memory below 4GB whose bounds lie on whole bytes of the bitmap, as a *)
(* PC's do (PhysicalMemoryManager.cpp:82-130, Kernel.cpp:51-76, 120-147).  *)
RegionPages(r) == r.base .. r.base + r.length - 1
Available == UNION {RegionPages(r) : r \in {q \in loader.regions : q.available}}

HasRoom ==
    /\ \E r \in loader.regions :
          /\ r.available /\ r.base + r.length =< TSize
          /\ Cardinality(RegionPages(r) \ (0 .. DmaPages - 1)) >= HeapPages
    /\ \A r \in loader.regions :
          /\ r.base + r.length =< VPages
          /\ r.base % ByteBits = 0 /\ (r.base + r.length) % ByteBits = 0

HoleBelowRegion ==
    \E r \in loader.regions :
       r.available /\ r.base > DmaPages /\ r.base - 1 \notin Available

HeapIsOwnMemory ==
    HasRoom /\ Reached("heap") =>
        LET frames == {Translate(heap.page + k) : k \in 0 .. HeapPages - 1}
        IN  /\ Cardinality(frames) = HeapPages
            /\ frames \subseteq bits
            /\ frames \cap (   0 .. DmaPages - 1
                            \cup LoaderStart .. LoaderStart + LoaderPages - 1
                            \cup KernelPhysical .. KernelPhysical + KernelPages - 1) = {}
            /\ IF HoleBelowRegion THEN Cardinality(frames \ Available) < ByteBits
                                  ELSE frames \subseteq Available

(* A boot by multiboot reaches its first use of the disk: no mapping of    *)
(* the boot and no allocation of it fails, on any memory map, so KPanic is *)
(* never called.  From there on it waits for the drive (Kernel.cpp:160-213,*)
(* 238-268).                                                               *)
BootReachesDisk == <>(pc = IF loader.eax = Magic THEN "ATA" ELSE "hang")
=============================================================================
