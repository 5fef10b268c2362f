----------------------- MODULE VirtualMemoryAllocator -----------------------
(***************************************************************************)
(* Kernel::Memory::VirtualMemoryAllocator over the physical page bitmap    *)
(* and the address space.  A run of virtual pages, a run of physical pages *)
(* and the mapping between them are three records of one allocation, kept  *)
(* by three objects and updated one after the other; this module is about  *)
(* their agreement.                                                        *)
(*                                                                         *)
(* Everything is counted in pages: PhysicalMemoryManager has the addresses *)
(* of the physical side, whose map begins at address 0, and AddressSpace   *)
(* is what VirtualMemoryManager implements.                                *)
(***************************************************************************)
EXTENDS Integers, Functions

CONSTANTS PhysSize,    \* bits of the physical map, 131072
          VirtSize,    \* bits of the virtual map, 131072
          ByteBits,    \* bits per byte of either
          VPages,      \* virtual pages, 2^20
          Window,      \* virtual pages that have a page table
          VStart,      \* first page of the allocator's range, 0xC1000000
          Boots,       \* what the boot sequence leaves: records of the set
                       \*   bits of the physical map and of the translation
          Callers,
          Requests     \* the page counts asked for

P == INSTANCE Bitmap WITH TSize <- PhysSize
V == INSTANCE Bitmap WITH TSize <- VirtSize
A == INSTANCE AddressSpace WITH
         Frames <- VPages, map <- << >>, request <- << >>, ok <- TRUE

(* The virtual pages of the allocator's range. *)
VirtualRange == VStart .. (VStart + VirtSize - 1)

ASSUME AllocatorAssumption ==
    /\ PhysSize \in Nat \ {0} /\ VirtSize \in Nat \ {0} /\ VPages \in Nat \ {0}
    /\ PhysSize =< VPages
    /\ Requests \subseteq Nat \ {0}
    (* the range lies under the kernel's page tables *)
    /\ VStart \in Nat /\ VirtualRange \subseteq Window
    /\ Window \subseteq 0 .. (VPages - 1)
    (* page 0 is reserved, and nothing of the range is mapped *)
    /\ \A b \in Boots : /\ b.bits \subseteq P!Positions /\ 0 \in b.bits
                        /\ DOMAIN b.map \subseteq Window \cap 0 .. (VStart - 1)
                        /\ \A p \in DOMAIN b.map : b.map[p] \in 0 .. (VPages - 1)

VARIABLES pbits,    \* PhysicalMemoryManager::m_Bitmap
          vbits,    \* VirtualMemoryAllocator::m_Bitmap
          map,      \* the translation of VirtualMemoryManager
          base,     \* history: the boot record
          held,     \* held[c]: the run c was given, by its virtual page and
                    \*   count, with the frame that page was mapped to
          overrun   \* history: some run has left the virtual or the
                    \*   physical map

vars == <<pbits, vbits, map, base, held, overrun>>

Nothing == [page |-> 0, count |-> 0, frame |-> 0]

-----------------------------------------------------------------------------

(* PageNumberToAddress and AddressToPageNumber. *)
PageNumberToAddress(n) == (VStart + n) % VPages
AddressToPageNumber(page) == (page - VStart) % VPages

(* Init: nothing of the range is in use.  m_PageCount and m_EndAddress are *)
(* only printed.                                                           *)
Init == \E b \in Boots :
            /\ base = b
            /\ pbits = b.bits
            /\ vbits = V!ResetAll
            /\ map = b.map
            /\ held = [c \in Callers |-> Nothing]
            /\ overrun = FALSE

(* PhysicalMemoryManager::AllocatePages, which answers 0 on failure. *)
PhysAllocate(n) == LET f == P!FindUnsetBits(pbits, n) IN IF f < 0 THEN 0 ELSE f

(* AllocatePages: the virtual run is looked for, the physical one taken,   *)
(* the virtual one taken, the mapping made.  When the mapping fails, what  *)
(* was taken and the pages mapped before the failure stay (line 52).       *)
AllocatePages(c, n) ==
    /\ held[c] = Nothing
    /\ LET firstPage == V!FindUnsetBits(vbits, n)
           paddr     == PhysAllocate(n)
           vaddr     == PageNumberToAddress(firstPage)
       IN  /\ firstPage >= 0
           /\ paddr # 0
           /\ pbits' = P!SetBits(pbits, paddr, n)
           /\ vbits' = V!SetBits(vbits, firstPage, n)
           /\ map' = A!AfterMap(map, vaddr, paddr, n)
           /\ held' = IF A!MapLength(map, vaddr, n) = n
                      THEN [held EXCEPT ![c] = [page |-> vaddr, count |-> n, frame |-> paddr]]
                      ELSE held
           /\ overrun' = (overrun \/ ~P!InMap(paddr, n) \/ ~V!InMap(firstPage, n))
    /\ UNCHANGED base

(* Nothing virtual, or nothing physical, is clear at the end of its map:   *)
(* AllocatePages returns 0 before it has taken anything.                   *)
AllocateFails(c, n) ==
    /\ held[c] = Nothing
    /\ V!FindUnsetBits(vbits, n) = -1 \/ PhysAllocate(n) = 0
    /\ UNCHANGED vars

(* GetPhysicalAddress answers 0 for a page that is not mapped. *)
GetPhysicalAddress(page) == IF page \in DOMAIN map THEN map[page] ELSE 0

(* FreePages: the pages are unmapped, and when all of them were, both maps *)
(* are told.  The physical run is taken to be contiguous; its address is   *)
(* read before the unmapping, and PhysicalMemoryManager ignores a 0.       *)
FreePages(c) ==
    /\ held[c] # Nothing
    /\ LET page  == held[c].page
           n     == held[c].count
           paddr == GetPhysicalAddress(page)
       IN  /\ map' = A!AfterUnmap(map, page, n)
           /\ IF A!UnmapLength(map, page, n) = n
              THEN /\ pbits' = IF paddr = 0 THEN pbits ELSE P!ClearBits(pbits, paddr, n)
                   /\ vbits' = V!ClearBits(vbits, AddressToPageNumber(page), n)
              ELSE UNCHANGED <<pbits, vbits>>
    /\ held' = [held EXCEPT ![c] = Nothing]
    /\ UNCHANGED <<base, overrun>>

Next == \/ \E c \in Callers, n \in Requests : AllocatePages(c, n)
        \/ \E c \in Callers, n \in Requests : AllocateFails(c, n)
        \/ \E c \in Callers : FreePages(c)

Spec == Init /\ [][Next]_vars

-----------------------------------------------------------------------------

Run == [page : Window, count : Requests, frame : 0 .. (VPages - 1)]

TypeOK == /\ pbits \subseteq P!Positions
          /\ vbits \subseteq V!Positions
          /\ DOMAIN map \subseteq Window
          /\ \A p \in DOMAIN map : map[p] \in 0 .. (VPages - 1)
          /\ base \in Boots
          /\ held \in [Callers -> Run \cup {Nothing}]
          /\ overrun \in BOOLEAN

Live == {c \in Callers : held[c] # Nothing}
VirtualPages(c) == A!PagesFrom(held[c].page, held[c].count)
PhysicalPages(c) == P!Span(held[c].frame, held[c].count)

(***************************************************************************)
(* What a caller was given stays mapped, page after page onto one run of   *)
(* frames, until it frees it: no allocation, failed or not, and no other   *)
(* caller's free touches it (VirtualMemoryAllocator.cpp:30-86); and every  *)
(* record stays inside its map or window (TypeOK).                         *)
(***************************************************************************)
LiveMapped ==
    /\ TypeOK
    /\ \A c \in Live : \A k \in 0 .. (held[c].count - 1) :
          LET p == A!PageAt(held[c].page, k)
          IN  p \in DOMAIN map /\ map[p] = A!FrameAt(held[c].frame, k)

(***************************************************************************)
(* No virtual page is given to two callers, even by a run that leaves the  *)
(* virtual map and is not recorded there: the second mapping of a page is  *)
(* refused (VirtualMemoryManager.cpp:72-76).  And two callers' pages lie   *)
(* on one frame only if one of their runs leaves the physical map          *)
(* (PhysicalMemoryManager.cpp:47-52).                                      *)
(***************************************************************************)
LiveDisjoint ==
    \A c, d \in Live : c # d =>
        /\ VirtualPages(c) \cap VirtualPages(d) = {}
        /\ \/ PhysicalPages(c) \cap PhysicalPages(d) = {}
           \/ ~P!InMap(held[c].frame, held[c].count)
           \/ ~P!InMap(held[d].frame, held[d].count)

(***************************************************************************)
(* As long as no run has left a map, the three records agree exactly: the  *)
(* virtual bits are the live runs, the physical bits those of the boot and *)
(* the live runs' frames, and the translation is the boot's and the live   *)
(* runs'.  So nothing leaks, and MapRange never fails: the branch that     *)
(* gives up what it took (VirtualMemoryAllocator.cpp:49-54) is dead.       *)
(***************************************************************************)
LockstepUntilOverrun ==
    ~overrun =>
        /\ vbits = {AddressToPageNumber(p) : p \in UNION {VirtualPages(c) : c \in Live}}
        /\ pbits = base.bits \cup UNION {PhysicalPages(c) : c \in Live}
        /\ DOMAIN map = DOMAIN base.map \cup UNION {VirtualPages(c) : c \in Live}

(***************************************************************************)
(* Freeing a run that was given takes all of it out of the translation and *)
(* nothing else: UnmapRange never stops short on a live run                *)
(* (VirtualMemoryAllocator.cpp:77-81).                                     *)
(***************************************************************************)
FreeUnmapsAll ==
    [][ \A c \in Live :
            held'[c] = Nothing =>
                map' = Restrict(map, DOMAIN map \ VirtualPages(c)) ]_vars
=============================================================================
