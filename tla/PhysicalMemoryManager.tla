----------------------- MODULE PhysicalMemoryManager -----------------------
(***************************************************************************)
(* Kernel::Memory::PhysicalMemoryManager: the bitmap of physical pages, as *)
(* the boot sequence fills it (Kernel.cpp, InitPhysicalMemoryManager) and  *)
(* as its callers then allocate and free runs of pages.                    *)
(*                                                                         *)
(* The kernel is one thread with interrupts off, so every member function  *)
(* is one step.  m_EndAddress, m_MemorySizeBytes and m_PageCount are left  *)
(* out: the code computes them and only prints them.                       *)
(***************************************************************************)
EXTENDS Bitmap

CONSTANTS PageSize,    \* m_PageSize, 4096
          AddrSpace,   \* 2^32: PhysicalAddress and size_t wrap here
          DmaPages,    \* pages of the ISA DMA zone, 0x1000000 / 4096
          BootInfos,   \* the BootInfo structures the boot loader may leave
          Callers,     \* who holds runs of pages
          Requests     \* the page counts asked for

(* A region of the multiboot memory map: base and length have 64 bits.     *)
Region == [base : Nat, length : Nat, available : BOOLEAN]

BootInfo == [regions : SUBSET Region,
             bootloaderStart : Nat, bootloaderSize : Nat,
             kernelStart : Nat, kernelSize : Nat]

(* The bitmap covers no more than the address space (512MB of 4GB).        *)
ASSUME SizeAssumption == /\ PageSize \in Nat \ {0}
                         /\ AddrSpace \in Nat \ {0}
                         /\ TSize * PageSize =< AddrSpace
                         /\ DmaPages \in 1 .. TSize

ASSUME RequestAssumption == Requests \subseteq Nat \ {0}

(* The memory map of a PC begins at address 0, and linker.ld places boot   *)
(* loader and kernel at 1MB, in the 4MB that Boot.asm maps: below 16MB.    *)
ASSUME BootAssumption ==
    /\ BootInfos \subseteq BootInfo
    /\ \A in \in BootInfos :
          /\ \E r \in in.regions : r.base = 0
          /\ in.bootloaderStart + in.bootloaderSize =< DmaPages * PageSize
          /\ in.kernelStart + in.kernelSize =< DmaPages * PageSize

VARIABLES start,    \* m_StartAddress
          bitmap,   \* m_Bitmap
          boot,     \* history: the bitmap as the boot sequence left it
          info,     \* history: the BootInfo of this boot, None before
          held      \* held[c]: the run caller c was last given and has not
                    \*   freed, as the address and the count it knows

vars == <<start, bitmap, boot, info, held>>

None == [regions |-> {}, bootloaderStart |-> 0, bootloaderSize |-> 0,
         kernelStart |-> 0, kernelSize |-> 0]

Nothing == [address |-> 0, count |-> 0]

-----------------------------------------------------------------------------

(* InitMemory: the lowest base of the map, narrowed to 32 bits.            *)
StartAddress(in) == Min({r.base : r \in in.regions}) % AddrSpace

AddressToPageNumber(from, address) == ((address - from) % AddrSpace) \div PageSize

PageNumberToAddress(from, page) == (from + page * PageSize) % AddrSpace

(* SetRegionState(.., Free): base and length are narrowed to 32 bits, and  *)
(* both are rounded DOWN to pages.                                         *)
SetRegionFree(bits, from, region) ==
    ClearBits(bits, AddressToPageNumber(from, region.base % AddrSpace),
              (region.length % AddrSpace) \div PageSize)

(* InitBitmap, then InitFreeMemory: clears commute, so the loop over the   *)
(* regions keeps the bits that every available region keeps.               *)
InitFreeMemory(from, in) ==
    {p \in SetAll :
        \A r \in in.regions : r.available /\ r.length > 0
                                => p \in SetRegionFree(SetAll, from, r)}

ReservePages(bits, from, address, count) ==
    SetBits(bits, AddressToPageNumber(from, address), count)

(* Mutant: the DMA zone is not reserved. *)
BootBitmapWithoutDma(from, in) ==
    LET free == InitFreeMemory(from, in)
        ldr  == ReservePages(free, from, in.bootloaderStart,
                             in.bootloaderSize \div PageSize + 1)
        krnl == ReservePages(ldr, from, in.kernelStart,
                             in.kernelSize \div PageSize)
    IN  ReservePages(krnl, from, 0, 1)

(* The reservations of the boot sequence, in its order: boot loader,       *)
(* kernel (its last partial page is not counted), DMA zone, page 0.        *)
BootBitmap(from, in) ==
    LET free == InitFreeMemory(from, in)
        ldr  == ReservePages(free, from, in.bootloaderStart,
                             in.bootloaderSize \div PageSize + 1)
        krnl == ReservePages(ldr, from, in.kernelStart,
                             in.kernelSize \div PageSize)
        dma  == ReservePages(krnl, from, 0, DmaPages)
    IN  ReservePages(dma, from, 0, 1)

-----------------------------------------------------------------------------

(* Before boot the object lies in zeroed storage. *)
Init == /\ start = 0
        /\ bitmap = ResetAll
        /\ boot = ResetAll
        /\ info = None
        /\ held = [c \in Callers |-> Nothing]

(* InitPhysicalMemoryManager: Init and the reservations. *)
Boot(in) == /\ info = None
            /\ info' = in
            /\ start' = StartAddress(in)
            /\ bitmap' = BootBitmap(start', in)
            /\ boot' = bitmap'
            /\ UNCHANGED held

(* AllocatePages(count), for a caller that holds nothing.  The caller      *)
(* reads the address 0 as a failure.                                       *)
AllocatePages(c, count) ==
    /\ info # None
    /\ held[c] = Nothing
    /\ LET firstPage == FindUnsetBits(bitmap, count)
           address   == PageNumberToAddress(start, firstPage)
       IN  /\ firstPage >= 0
           /\ bitmap' = SetBits(bitmap, firstPage, count)
           /\ held' = IF address = 0 THEN held
                      ELSE [held EXCEPT ![c] = [address |-> address, count |-> count]]
    /\ UNCHANGED <<start, boot, info>>

(* AllocatePages finds no clear page at the end of the map: it returns 0.  *)
AllocateFails(c, count) ==
    /\ info # None
    /\ held[c] = Nothing
    /\ FindUnsetBits(bitmap, count) = -1
    /\ UNCHANGED vars

(* FreePages(address, count), by the caller the run was given to. *)
FreePages(c) ==
    /\ held[c].address # 0
    /\ bitmap' = ClearBits(bitmap, AddressToPageNumber(start, held[c].address),
                           held[c].count)
    /\ held' = [held EXCEPT ![c] = Nothing]
    /\ UNCHANGED <<start, boot, info>>

Next == \/ \E in \in BootInfos : Boot(in)
        \/ \E c \in Callers, n \in Requests : AllocatePages(c, n)
        \/ \E c \in Callers, n \in Requests : AllocateFails(c, n)
        \/ \E c \in Callers : FreePages(c)

Spec == Init /\ [][Next]_vars

-----------------------------------------------------------------------------

Run == [address : 0 .. (AddrSpace - 1), count : Requests \cup {0}]

TypeOK == /\ start \in 0 .. (AddrSpace - 1)
          /\ bitmap \subseteq Positions
          /\ boot \subseteq Positions
          /\ info \in BootInfos \cup {None}
          /\ held \in [Callers -> Run]

Holds(c) == held[c].address # 0

(* The pages caller c believes are its own. *)
Pages(c) == Span(AddressToPageNumber(start, held[c].address), held[c].count)

(* The runs that the bitmap has on record: SetBits ignored the others.     *)
Recorded(c) == Holds(c) /\ Pages(c) \subseteq Positions

(***************************************************************************)
(* Nothing leaks and nothing is freed twice, through any sequence of       *)
(* allocations and frees: the set bits are those of the boot and those of  *)
(* the runs on record (PhysicalMemoryManager.cpp:42-65).                   *)
(***************************************************************************)
ExactAccounting ==
    bitmap = boot \cup UNION {Pages(c) : c \in {d \in Callers : Recorded(d)}}

(***************************************************************************)
(* No page is given to two callers, unless one of their runs leaves the    *)
(* bitmap: FindUnsetBits answers with a run at the end that is too short,  *)
(* SetBits then records nothing of it, and its pages are given again       *)
(* (Bitmap.h:80-89, PhysicalMemoryManager.cpp:47-52).                      *)
(***************************************************************************)
NoSharing ==
    \A c, d \in Callers :
        c # d /\ Recorded(c) /\ Recorded(d) => Pages(c) \cap Pages(d) = {}

(* The pages that hold the bytes from .. from + size - 1. *)
PagesOf(from, size) ==
    IF size = 0 THEN {} ELSE (from \div PageSize) .. ((from + size - 1) \div PageSize)

(***************************************************************************)
(* The boot loader, the kernel image with its last partial page, the DMA   *)
(* zone and page 0 are never given to anyone (Kernel.cpp:61-74), though    *)
(* the kernel's page count is rounded down and memory above 4GB clears     *)
(* bits of low pages.                                                      *)
(***************************************************************************)
ReservedNeverHeld ==
    \A c \in Callers : Holds(c) =>
        Pages(c) \cap ( 0 .. (DmaPages - 1)
                        \cup PagesOf(info.bootloaderStart, info.bootloaderSize)
                        \cup PagesOf(info.kernelStart, info.kernelSize) ) = {}

(***************************************************************************)
(* A run leaves the bitmap only when no run of that size was free: a       *)
(* request that can be met inside the map is (PhysicalMemoryManager.cpp:   *)
(* 42-53 with the search of Bitmap.h:58-84).                               *)
(***************************************************************************)
OverrunOnlyWhenNothingFits ==
    [][ \A c \in Callers :
            ~Holds(c) /\ Holds(c)' /\ ~Recorded(c)'
                => Fits(bitmap, held'[c].count) = {} ]_vars
=============================================================================
