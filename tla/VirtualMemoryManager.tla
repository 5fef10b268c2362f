------------------------ MODULE VirtualMemoryManager ------------------------
(***************************************************************************)
(* Kernel::Memory::VirtualMemoryManager: the page directory and the page   *)
(* tables it edits, page by page, with the processor's TLB beside it,      *)
(* which may cache a translation at any moment.  The first three requests  *)
(* and the switch to the directory are those of the boot sequence          *)
(* (Kernel.cpp, InitVirtualMemoryManager); the later ones come from the    *)
(* virtual memory allocator.                                               *)
(*                                                                         *)
(* Addresses are bytes and wrap at AddrSpace.  A directory entry names its *)
(* table: the conversions of MemoryUtil on the way in and out add and      *)
(* subtract the same page-aligned offset.  Every request asks for writable *)
(* pages, so the flag is left out.                                         *)
(***************************************************************************)
EXTENDS Integers

CONSTANTS PageSize,         \* PAGE_SIZE, 4096
          EntryCount,       \* entries of a table and pages a directory
                            \*   entry spans, 1024
          DirCount,         \* directory entries, 1024
          FirstKernelDir,   \* 768
          KernelPhysical,   \* KernelPhysicalStartAddress
          KernelPages,      \* pages of the kernel image
          Calls             \* requests that follow the boot sequence

AddrSpace == DirCount * EntryCount * PageSize
VPages == DirCount * EntryCount
Addresses == 0 .. (AddrSpace - 1)

Call == [op : {"none", "map", "unmap", "flush"}, va : Addresses, pa : Addresses,
         count : Nat, i : Nat]

Idle == [op |-> "none", va |-> 0, pa |-> 0, count |-> 0, i |-> 0]

MapCall(va, pa, n) == [op |-> "map", va |-> va, pa |-> pa, count |-> n, i |-> 0]
UnmapCall(va, n) == [op |-> "unmap", va |-> va, pa |-> 0, count |-> n, i |-> 0]

(* KernelVirtualStartAddress, which is also m_VirtualStartAddress. *)
KernelVirtual == FirstKernelDir * EntryCount * PageSize

ASSUME VMMAssumption ==
    /\ PageSize \in Nat \ {0} /\ EntryCount \in Nat \ {0}
    /\ DirCount \in Nat /\ FirstKernelDir \in 1 .. (DirCount - 1)
    /\ KernelPhysical \in Addresses /\ KernelPhysical % PageSize = 0
    /\ KernelPhysical + EntryCount * PageSize =< AddrSpace
    /\ KernelPages \in 0 .. EntryCount

(* The later requests are the allocator's: it unmaps what it was given, in *)
(* its own range, never what the boot mapped.                              *)
ASSUME CallsAssumption ==
    /\ Calls \subseteq Call
    /\ \A c \in Calls :
          /\ c.op \in {"map", "unmap"} /\ c.i = 0 /\ c.count =< VPages
          /\ c.op = "unmap" => \A k \in 0 .. (c.count - 1) :
                ((c.va + k * PageSize) % AddrSpace) \div (EntryCount * PageSize)
                    \notin {0, FirstKernelDir}

VARIABLES directory,  \* m_PageDirectory
          tables,     \* m_PageTable0 is table 0, m_PageTables768[k] table k+1
          cr3,        \* whose directory the processor walks
          tlb,        \* the translations the processor has cached
          stage,      \* of the boot: 1..3 requests, 4 the switch, 5 running,
                      \*   0 after a panic
          call,       \* the request being served: addresses and counter of
                      \*   its loop
          ok,         \* what the last request returned
          before      \* history: the translation when the request began

vars == <<directory, tables, cr3, tlb, stage, call, ok, before>>

-----------------------------------------------------------------------------
(* The address of a page in directory and table (PageInfo.h). *)

IsAligned(address) == address % PageSize = 0
DirIndex(va) == va \div (EntryCount * PageSize)
EntryIndex(va) == (va % (EntryCount * PageSize)) \div PageSize

(* Only directory entry 0 and those of the kernel have tables. *)
HasTable(va) == DirIndex(va) = 0 \/ DirIndex(va) >= FirstKernelDir

(* Mutant: every kernel entry uses the first kernel table. *)
TableIndexShared(va) == IF DirIndex(va) = 0 THEN 0 ELSE 1

TableIndex(va) ==
    IF DirIndex(va) = 0 THEN 0
    ELSE 1 + ((va - KernelVirtual) % AddrSpace) \div (EntryCount * PageSize)

Tables == 0 .. (DirCount - FirstKernelDir)

(* Clear zeroes an entry.  SetAddress clears the address bits of the old   *)
(* entry except the highest one, then ORs the new address in.              *)
ClearedEntry == [present |-> FALSE, address |-> 0]
HighBit == AddrSpace \div 2

SetAddress(old, address) ==
    IF old >= HighBit /\ address < HighBit THEN address + HighBit ELSE address

SetEntry(entry, pa) ==
    [present |-> TRUE, address |-> SetAddress(entry.address, pa)]

(* The directory once Map has seen to it that the page has a table. *)
WithTable(va) ==
    IF directory[DirIndex(va)].present THEN directory
    ELSE [directory EXCEPT ![DirIndex(va)] =
              [present |-> TRUE, table |-> TableIndex(va)]]

EntryOf(dir, va) == tables[dir[DirIndex(va)].table][EntryIndex(va)]

WithEntry(dir, va, entry) ==
    [tables EXCEPT ![dir[DirIndex(va)].table][EntryIndex(va)] = entry]

(* The translation that directory and tables hold. *)
IsMapped(va) == directory[DirIndex(va)].present /\ EntryOf(directory, va).present
Pages == 0 .. (VPages - 1)
MappedPages == {p \in Pages : IsMapped(p * PageSize)}
Walk == [p \in MappedPages |-> EntryOf(directory, p * PageSize).address \div PageSize]

(* The translation of the boot directory: the first table's worth of       *)
(* memory at address 0, and the kernel's at KernelVirtual (Boot.asm).      *)
BootWalk == [p \in {q \in Pages : DirIndex(q * PageSize) \in {0, FirstKernelDir}} |->
                IF DirIndex(p * PageSize) = 0 THEN p
                ELSE KernelPhysical \div PageSize + EntryIndex(p * PageSize)]

ActiveWalk == IF cr3 = "kernel" THEN Walk ELSE BootWalk

-----------------------------------------------------------------------------

(* VirtualMemoryManager::Init zeroes directory and tables; the processor   *)
(* runs on the boot directory.                                             *)
Init == /\ directory = [d \in 0 .. (DirCount - 1) |-> [present |-> FALSE, table |-> 0]]
        /\ tables = [t \in Tables |-> [e \in 0 .. (EntryCount - 1) |-> ClearedEntry]]
        /\ cr3 = "boot"
        /\ tlb = << >>
        /\ stage = 1
        /\ call = Idle
        /\ ok = TRUE
        /\ before = << >>

(* The three requests of InitVirtualMemoryManager: identity map, kernel    *)
(* image, rest of the kernel's first table.                                *)
BootCall(s) ==
    CASE s = 1 -> MapCall(0, 0, EntryCount)
      [] s = 2 -> MapCall(KernelVirtual, KernelPhysical, KernelPages)
      [] s = 3 -> MapCall((KernelVirtual + KernelPages * PageSize) % AddrSpace,
                          (KernelPhysical + KernelPages * PageSize) % AddrSpace,
                          EntryCount - KernelPages)

Start(c) == /\ call = Idle
            /\ call' = c
            /\ before' = Walk
            /\ UNCHANGED <<directory, tables, cr3, tlb, stage, ok>>

StartBootCall == stage \in 1 .. 3 /\ Start(BootCall(stage))

StartCall(c) == stage = 5 /\ Start(c)

(* The request returns; a boot request that failed panics. *)
Return(result) ==
    /\ call' = Idle
    /\ ok' = result
    /\ stage' = IF stage > 3 THEN stage ELSE IF result THEN stage + 1 ELSE 0
    /\ UNCHANGED <<cr3, tlb, before>>

(* The loop of a range goes on to its next page. *)
NextPage == [call EXCEPT !.va = (@ + PageSize) % AddrSpace,
                         !.pa = (@ + PageSize) % AddrSpace,
                         !.i = @ + 1]

(* Map can reach an entry: what MapRange's iteration checks first. *)
Reaches(va, pa) == IsAligned(va) /\ IsAligned(pa) /\ HasTable(va)

(* Mutant: Map replaces an entry that is present. *)
MapPageReplaces ==
    /\ call.op = "map" /\ call.i < call.count /\ Reaches(call.va, call.pa)
    /\ directory' = WithTable(call.va)
    /\ tables' = WithEntry(directory', call.va,
                     SetEntry(EntryOf(directory', call.va), call.pa))
    /\ call' = NextPage
    /\ UNCHANGED <<cr3, tlb, stage, ok, before>>

(* One iteration of MapRange in which Map succeeds. *)
MapPage == /\ call.op = "map"
           /\ call.i < call.count
           /\ Reaches(call.va, call.pa)
           /\ ~EntryOf(WithTable(call.va), call.va).present
           /\ directory' = WithTable(call.va)
           /\ tables' = WithEntry(directory', call.va,
                            SetEntry(EntryOf(directory', call.va), call.pa))
           /\ call' = NextPage
           /\ UNCHANGED <<cr3, tlb, stage, ok, before>>

(* Map fails: bad alignment, no table, or, with the directory entry seen   *)
(* to, an entry already present.                                           *)
MapFails == /\ call.op = "map"
            /\ call.i < call.count
            /\ IF Reaches(call.va, call.pa)
               THEN /\ EntryOf(WithTable(call.va), call.va).present
                    /\ directory' = WithTable(call.va)
               ELSE UNCHANGED directory
            /\ Return(FALSE)
            /\ UNCHANGED tables

MapReturns == /\ call.op = "map"
              /\ call.i = call.count
              /\ Return(TRUE)
              /\ UNCHANGED <<directory, tables>>

(* Unmap finds an entry to clear. *)
Unmappable(va) == IsAligned(va) /\ HasTable(va) /\ IsMapped(va)

(* Mutant: Unmap resets the present bit and leaves the address. *)
UnmapPageKeepsAddress ==
    /\ call.op = "unmap" /\ call.i < call.count /\ Unmappable(call.va)
    /\ tables' = WithEntry(directory, call.va,
                     [EntryOf(directory, call.va) EXCEPT !.present = FALSE])
    /\ call' = [call EXCEPT !.op = "flush"]
    /\ UNCHANGED <<directory, cr3, tlb, stage, ok, before>>

(* One iteration of UnmapRange: Unmap, then FlushTLB. *)
UnmapPage == /\ call.op = "unmap"
             /\ call.i < call.count
             /\ Unmappable(call.va)
             /\ tables' = WithEntry(directory, call.va, ClearedEntry)
             /\ call' = [call EXCEPT !.op = "flush"]
             /\ UNCHANGED <<directory, cr3, tlb, stage, ok, before>>

PageOf(va) == va \div PageSize

(* Mutant: UnmapRange without FlushTLB. *)
NoFlushTLB == /\ call.op = "flush"
              /\ call' = [NextPage EXCEPT !.op = "unmap"]
              /\ UNCHANGED <<directory, tables, cr3, tlb, stage, ok, before>>

FlushTLB == /\ call.op = "flush"
            /\ tlb' = [p \in DOMAIN tlb \ {PageOf(call.va)} |-> tlb[p]]
            /\ call' = [NextPage EXCEPT !.op = "unmap"]
            /\ UNCHANGED <<directory, tables, cr3, stage, ok, before>>

UnmapFails == /\ call.op = "unmap"
              /\ call.i < call.count
              /\ ~Unmappable(call.va)
              /\ Return(FALSE)
              /\ UNCHANGED <<directory, tables>>

UnmapReturns == /\ call.op = "unmap"
                /\ call.i = call.count
                /\ Return(TRUE)
                /\ UNCHANGED <<directory, tables>>

(* ReloadPageDirectory: loading CR3 empties the TLB. *)
ReloadPageDirectory == /\ stage = 4
                       /\ cr3' = "kernel"
                       /\ tlb' = << >>
                       /\ stage' = 5
                       /\ UNCHANGED <<directory, tables, call, ok, before>>

(* The processor caches a translation, of its own accord. *)
FillTLB(p) == /\ p \in DOMAIN ActiveWalk
              /\ tlb' = [q \in DOMAIN tlb \cup {p} |->
                            IF q = p THEN ActiveWalk[p] ELSE tlb[q]]
              /\ UNCHANGED <<directory, tables, cr3, stage, call, ok, before>>

Serve == \/ MapPage \/ MapFails \/ MapReturns
         \/ UnmapPage \/ FlushTLB \/ UnmapFails \/ UnmapReturns

Next == \/ StartBootCall
        \/ \E c \in Calls : StartCall(c)
        \/ Serve
        \/ ReloadPageDirectory
        \/ \E p \in Pages : FillTLB(p)

(* The kernel's one thread runs the loop of a request to its end. *)
Spec == Init /\ [][Next]_vars /\ WF_vars(Serve)

-----------------------------------------------------------------------------

Entry == [present : BOOLEAN, address : Addresses]

TypeOK == /\ directory \in [0 .. (DirCount - 1) -> [present : BOOLEAN, table : Tables]]
          /\ tables \in [Tables -> [0 .. (EntryCount - 1) -> Entry]]
          /\ cr3 \in {"boot", "kernel"}
          /\ DOMAIN tlb \subseteq Pages /\ \A p \in DOMAIN tlb : tlb[p] \in Pages
          /\ stage \in 0 .. 5
          /\ call \in Call
          /\ ok \in BOOLEAN
          /\ DOMAIN before \subseteq Pages /\ \A p \in DOMAIN before : before[p] \in Pages

(***************************************************************************)
(* The processor never uses a translation that the directory in force no   *)
(* longer holds, but for the page an unmap is just about to flush: Map     *)
(* flushes nothing, UnmapRange flushes page by page, the switch of         *)
(* directories flushes all (VirtualMemoryManager.cpp:78-80, 143-149, 177); *)
(* and no address, of the ranges that wrap either, leaves its type (TypeOK)*)
(***************************************************************************)
TLBCoherent ==
    /\ TypeOK
    /\ \A p \in DOMAIN tlb :
          \/ call.op = "flush" /\ p = PageOf(call.va)
          \/ p \in DOMAIN ActiveWalk /\ tlb[p] = ActiveWalk[p]

(***************************************************************************)
(* The switch of directories does not move the kernel: from then on, every *)
(* page of the image, of the identity map and of the rest of the kernel's  *)
(* first table is where the boot directory had it, whatever ranges were    *)
(* asked for since, those that wrap to address 0 among them                *)
(* (Kernel.cpp:87-116, VirtualMemoryManager.cpp:84-97).                    *)
(***************************************************************************)
KernelStaysMapped ==
    cr3 = "kernel" => \A p \in DOMAIN BootWalk :
                          p \in MappedPages /\ Walk[p] = BootWalk[p]

(***************************************************************************)
(* An entry that is not present is zero, its highest address bit too:      *)
(* SetAddress does not clear that bit, so a stale one would move the next  *)
(* page mapped there by 2GB (PageTable.cpp:9-12, 89-92).                   *)
(***************************************************************************)
NotPresentIsZero ==
    \A t \in Tables, e \in 0 .. (EntryCount - 1) :
        ~tables[t][e].present => tables[t][e] = ClearedEntry

(***************************************************************************)
(* The page tables implement AddressSpace: a request, however many pages   *)
(* its loop edits, has the effect of one step on the translation, on the   *)
(* longest prefix of its range that can be served and on nothing else, and *)
(* it returns true if that is the whole range                              *)
(* (VirtualMemoryManager.cpp:27-152).                                      *)
(***************************************************************************)
Asked ==
    IF call.op = "none" THEN [op |-> "none"]
    ELSE LET va == (call.va - call.i * PageSize) % AddrSpace
             pa == (call.pa - call.i * PageSize) % AddrSpace
         IN  [op      |-> IF call.op = "map" THEN "map" ELSE "unmap",
              page    |-> PageOf(va),
              frame   |-> IF call.op = "map" THEN PageOf(pa) ELSE 0,
              count   |-> call.count,
              aligned |-> IsAligned(va) /\ (call.op = "map" => IsAligned(pa))]

Abstract == INSTANCE AddressSpace WITH
                Frames  <- VPages,
                Window  <- {p \in Pages : HasTable(p * PageSize)},
                map     <- IF call.op = "none" THEN Walk ELSE before,
                request <- Asked,
                ok      <- ok

ImplementsAddressSpace == Abstract!Spec
=============================================================================
