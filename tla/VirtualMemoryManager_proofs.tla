--------------------- MODULE VirtualMemoryManager_proofs ---------------------
(***************************************************************************)
(* Proofs about the page directory, the page tables and the TLB, for every *)
(* page size, table size and sequence of requests that the assumptions     *)
(* allow.  Addresses are taken to pages first: a page has a slot, its      *)
(* directory entry and its entry in that entry's table.                    *)
(***************************************************************************)
EXTENDS VirtualMemoryManager, Bitmap_proofs

DirOf(p) == p \div EntryCount
SlotOf(p) == p % EntryCount

(* The table that stands behind a directory entry. *)
TableOf(d) == IF d = 0 THEN 0 ELSE 1 + (d - FirstKernelDir)
DirHasTable(d) == d = 0 \/ d >= FirstKernelDir

LEMMA Sizes ==
    /\ PageSize \in Nat \ {0} /\ EntryCount \in Nat \ {0} /\ DirCount \in Nat \ {0, 1}
    /\ FirstKernelDir \in 1 .. (DirCount - 1)
    /\ VPages \in Nat \ {0, 1} /\ AddrSpace \in Nat \ {0, 1}
    /\ VPages = DirCount * EntryCount /\ AddrSpace = VPages * PageSize
  <1>1. /\ PageSize \in Nat \ {0} /\ EntryCount \in Nat \ {0} /\ DirCount \in Nat \ {0, 1}
        /\ FirstKernelDir \in 1 .. (DirCount - 1)
    BY VMMAssumption
  <1>2. VPages \in Nat /\ VPages >= DirCount
    BY <1>1 DEF VPages
  <1>3. AddrSpace = VPages * PageSize
    BY DEF AddrSpace, VPages
  <1>4. AddrSpace \in Nat /\ AddrSpace >= VPages
    BY <1>1, <1>2, <1>3
  <1> QED
    BY <1>1, <1>2, <1>3, <1>4 DEF VPages

(* The page of an address, and its indices in terms of the page. *)
LEMMA AddressParts ==
    ASSUME NEW va \in Addresses
    PROVE  /\ PageOf(va) \in Pages
           /\ DirIndex(va) = DirOf(PageOf(va)) /\ EntryIndex(va) = SlotOf(PageOf(va))
           /\ IsAligned(va) => va = PageOf(va) * PageSize
  <1> USE Sizes
  <1>1. va \in Nat /\ va < VPages * PageSize
    BY DEF Addresses
  <1>2. va \div PageSize \in Pages
    BY <1>1 DEF Pages
  <1>3. /\ va \div (EntryCount * PageSize) = (va \div PageSize) \div EntryCount
        /\ (va % (EntryCount * PageSize)) \div PageSize = (va \div PageSize) % EntryCount
    BY <1>1
  <1>4. va % PageSize = 0 => va = (va \div PageSize) * PageSize
    BY <1>1
  <1> QED
    BY <1>2, <1>3, <1>4 DEF PageOf, DirIndex, EntryIndex, DirOf, SlotOf, IsAligned

LEMMA PageAddress ==
    ASSUME NEW p \in Pages
    PROVE  p * PageSize \in Addresses /\ PageOf(p * PageSize) = p
  <1> USE Sizes
  <1>1. p \in Nat /\ p + 1 =< VPages
    BY DEF Pages
  <1>2. p * PageSize \in Nat /\ p * PageSize < VPages * PageSize
    BY <1>1
  <1>3. (p * PageSize) \div PageSize = p
    BY <1>1
  <1> QED
    BY <1>2, <1>3 DEF Addresses, PageOf

(* A page's slot is inside the tables and belongs to no other page. *)
LEMMA Slots ==
    ASSUME NEW p \in Pages
    PROVE  /\ DirOf(p) \in 0 .. (DirCount - 1) /\ SlotOf(p) \in 0 .. (EntryCount - 1)
           /\ p = EntryCount * DirOf(p) + SlotOf(p)
           /\ DirHasTable(DirOf(p)) => TableOf(DirOf(p)) \in Tables
  <1> USE Sizes
  <1>1. p \in Nat /\ p < DirCount * EntryCount
    BY DEF Pages
  <1>2. /\ p \div EntryCount \in 0 .. (DirCount - 1) /\ p % EntryCount \in 0 .. (EntryCount - 1)
        /\ p = EntryCount * (p \div EntryCount) + (p % EntryCount)
    BY <1>1
  <1> QED
    BY <1>2 DEF DirOf, SlotOf, DirHasTable, TableOf, Tables

(* The table index that Map computes from the address is that of the       *)
(* directory entry.                                                        *)
LEMMA TableIndexIs ==
    ASSUME NEW va \in Addresses, HasTable(va)
    PROVE  TableIndex(va) = TableOf(DirIndex(va)) /\ DirHasTable(DirIndex(va))
  <1> USE Sizes
  <1> DEFINE span == EntryCount * PageSize
  <1>1. va \in Nat /\ va < AddrSpace /\ span \in Nat \ {0}
    BY DEF Addresses
  <1>2. CASE DirIndex(va) = 0
    BY <1>2 DEF TableIndex, TableOf, DirHasTable
  <1>3. CASE DirIndex(va) >= FirstKernelDir /\ DirIndex(va) # 0
    <2> HIDE DEF span
    <2>1. PICK q \in Nat, r \in 0 .. (span - 1) : va = span * q + r /\ va \div span = q
      BY <1>1
    <2>2. KernelVirtual = span * FirstKernelDir
      BY DEF KernelVirtual, span
    <2>3. q >= FirstKernelDir
      BY <1>3, <2>1 DEF DirIndex, span
    <2>4. va - KernelVirtual = span * (q - FirstKernelDir) + r /\ va - KernelVirtual \in Nat
      BY <1>1, <2>1, <2>2, <2>3
    <2>5. (va - KernelVirtual) % AddrSpace = va - KernelVirtual
      <3>1. KernelVirtual \in Nat
        BY <1>1, <2>2
      <3> QED
        BY <1>1, <2>4, <3>1
    <2>6. (va - KernelVirtual) \div span = q - FirstKernelDir
      <3>1. q - FirstKernelDir \in Int /\ va - KernelVirtual \in Int
        BY <2>1, <2>4
      <3> QED
        BY <1>1, <2>1, <2>4, <3>1, DivMod, Zenon
    <2> QED
      BY <1>3, <2>1, <2>5, <2>6 DEF TableIndex, TableOf, DirHasTable, DirIndex, span
  <1> QED
    BY <1>2, <1>3 DEF HasTable

(* The address k pages further on is the k-th page's, around the end of    *)
(* memory as well.                                                         *)
LEMMA PagesOn ==
    ASSUME NEW va \in Addresses, NEW k \in Int
    PROVE  /\ (va + k * PageSize) % AddrSpace \in Addresses
           /\ PageOf((va + k * PageSize) % AddrSpace) = (PageOf(va) + k) % VPages
           /\ IsAligned((va + k * PageSize) % AddrSpace) <=> IsAligned(va)
  <1> USE Sizes
  <1>1. PICK q \in Nat, r \in 0 .. (PageSize - 1) :
            va = PageSize * q + r /\ va \div PageSize = q /\ va % PageSize = r
    BY DEF Addresses
  <1>2. PICK s \in Int, t \in 0 .. (VPages - 1) : q + k = VPages * s + t /\ (q + k) % VPages = t
    <2>1. q + k \in Int /\ VPages \in Nat \ {0}
      BY <1>1
    <2> HIDE Sizes
    <2> QED
      BY <2>1, QuotientRemainder, Zenon
  <1> DEFINE on == PageSize * t + r
  <1>3. on \in 0 .. (AddrSpace - 1)
    <2>1. (t + 1) * PageSize =< VPages * PageSize
      BY <1>2
    <2>2. PageSize * t + PageSize =< VPages * PageSize /\ PageSize * t \in Nat
      BY <1>2, <2>1
    <2> QED
      BY <1>1, <2>2
  <1>4. va + k * PageSize = AddrSpace * s + on /\ va + k * PageSize \in Int
    <2>1. va + k * PageSize = PageSize * (q + k) + r
      BY <1>1
    <2>2. va + k * PageSize = PageSize * (VPages * s + t) + r
      BY <1>2, <2>1
    <2>3. PageSize * (VPages * s + t) = (VPages * PageSize) * s + PageSize * t
      BY <1>2
    <2> QED
      BY <1>1, <1>2, <2>2, <2>3
  <1>5. (va + k * PageSize) % AddrSpace = on
    <2> HIDE DEF on
    <2>1. AddrSpace \in Nat \ {0}
      OBVIOUS
    <2> HIDE Sizes
    <2> QED
      BY <1>2, <1>3, <1>4, <2>1, DivMod, Zenon
  <1>6. on \div PageSize = t /\ on % PageSize = r
    <2>1. PageSize \in Nat \ {0} /\ t \in Int /\ on \in Int
      BY <1>2, <1>3
    <2> QED
      BY <1>1, <2>1, DivMod, Zenon
  <1> QED
    BY <1>1, <1>2, <1>3, <1>5, <1>6 DEF Addresses, PageOf, IsAligned

(* Where a loop began, i pages ago. *)
Back(address, i) == (address - i * PageSize) % AddrSpace

LEMMA LoopStart ==
    ASSUME NEW va \in Addresses, NEW i \in Nat
    PROVE  /\ Back(va, i) \in Addresses
           /\ va = (Back(va, i) + i * PageSize) % AddrSpace
           /\ PageOf(va) = (PageOf(Back(va, i)) + i) % VPages
           /\ IsAligned(Back(va, i)) <=> IsAligned(va)
           /\ Back((va + PageSize) % AddrSpace, i + 1) = Back(va, i)
  <1> DEFINE start == (va - i * PageSize) % AddrSpace
  <1> USE Sizes
  <1> DEFINE b == i * PageSize
  <1>1. va \in Int /\ b \in Int /\ va % AddrSpace = va /\ -i \in Int
    BY DEF Addresses
  <1>2. va - b = va + (-i) * PageSize
    BY <1>1
  <1>3. start \in Addresses /\ (IsAligned(start) <=> IsAligned(va))
    <2> DEFINE k == -i
               on == (va + k * PageSize) % AddrSpace
    <2>1. k \in Int /\ start = on
      BY <1>1, <1>2
    <2>2. on \in Addresses /\ (IsAligned(on) <=> IsAligned(va))
      <3> HIDE Sizes
      <3> HIDE DEF k
      <3> QED
        BY <2>1, PagesOn, Zenon
    <2> HIDE DEF on
    <2> QED
      BY <2>1, <2>2, Zenon
  <1>4. va = (start + b) % AddrSpace
    <2> HIDE DEF b
    <2>1. (b + (va - b)) = va /\ va - b \in Int /\ b + start = start + b
      BY <1>1, <1>3 DEF b, Addresses
    <2>2. (b + ((va - b) % AddrSpace)) % AddrSpace = (b + (va - b)) % AddrSpace
      BY <1>1, <2>1, ModOfSum
    <2> QED
      BY <1>1, <2>1, <2>2 DEF b
  <1>5. PageOf(va) = (PageOf(start) + i) % VPages
    <2> DEFINE on == (start + i * PageSize) % AddrSpace
    <2>1. i \in Int /\ va = on
      BY <1>4
    <2>2. PageOf(on) = (PageOf(start) + i) % VPages
      <3> HIDE Sizes
      <3> QED
        BY <1>3, <2>1, PagesOn, Zenon
    <2> HIDE DEF on
    <2> QED
      BY <2>1, <2>2
  <1>6. (((va + PageSize) % AddrSpace) - (i + 1) * PageSize) % AddrSpace = start
    <2> DEFINE c == -((i + 1) * PageSize)
               x == va + PageSize
    <2>1. c \in Int /\ x \in Int /\ c + x = va - b /\ x % AddrSpace \in Int
      BY <1>1
    <2>2. (c + (x % AddrSpace)) % AddrSpace = (c + x) % AddrSpace
      <3> HIDE DEF c, x
      <3> QED
        BY <2>1, ModOfSum
    <2>3. c + (x % AddrSpace) = (x % AddrSpace) - (i + 1) * PageSize
      BY <2>1
    <2> QED
      BY <2>1, <2>2, <2>3
  <1> HIDE Sizes
  <1> QED
    BY <1>3, <1>4, <1>5, <1>6, Zenon DEF Back

-----------------------------------------------------------------------------

(* A directory entry that is present names its own table; the table behind *)
(* one that is not present holds nothing.                                  *)
DirectoryInv ==
    \A d \in 0 .. (DirCount - 1) :
        IF directory[d].present THEN DirHasTable(d) /\ directory[d].table = TableOf(d)
        ELSE DirHasTable(d) => \A e \in 0 .. (EntryCount - 1) : ~tables[TableOf(d)][e].present

(* So the entry of a page is found without the directory, ... *)
PageEntry(p) == tables[TableOf(DirOf(p))][SlotOf(p)]
Mapped(p) == DirHasTable(DirOf(p)) /\ PageEntry(p).present

LEMMA PageView ==
    TypeOK /\ DirectoryInv =>
        /\ \A va \in Addresses :
              /\ HasTable(va) <=> DirHasTable(DirOf(PageOf(va)))
              /\ IsMapped(va) <=> Mapped(PageOf(va))
              /\ HasTable(va) => EntryOf(WithTable(va), va) = PageEntry(PageOf(va))
              /\ IsMapped(va) => EntryOf(directory, va) = PageEntry(PageOf(va))
        /\ MappedPages = {p \in Pages : Mapped(p)}
        /\ Walk = [p \in MappedPages |-> PageEntry(p).address \div PageSize]
  <1> SUFFICES ASSUME TypeOK, DirectoryInv
               PROVE  /\ \A va \in Addresses :
                            /\ HasTable(va) <=> DirHasTable(DirOf(PageOf(va)))
                            /\ IsMapped(va) <=> Mapped(PageOf(va))
                            /\ HasTable(va) => EntryOf(WithTable(va), va) = PageEntry(PageOf(va))
                            /\ IsMapped(va) => EntryOf(directory, va) = PageEntry(PageOf(va))
                      /\ MappedPages = {p \in Pages : Mapped(p)}
                      /\ Walk = [p \in MappedPages |-> PageEntry(p).address \div PageSize]
    OBVIOUS
  <1>1. ASSUME NEW va \in Addresses
        PROVE  /\ HasTable(va) <=> DirHasTable(DirOf(PageOf(va)))
               /\ IsMapped(va) <=> Mapped(PageOf(va))
               /\ HasTable(va) => EntryOf(WithTable(va), va) = PageEntry(PageOf(va))
               /\ IsMapped(va) => EntryOf(directory, va) = PageEntry(PageOf(va))
    <2> DEFINE p == PageOf(va)
    <2>1. p \in Pages /\ DirIndex(va) = DirOf(p) /\ EntryIndex(va) = SlotOf(p)
      BY AddressParts
    <2>2. DirOf(p) \in 0 .. (DirCount - 1) /\ SlotOf(p) \in 0 .. (EntryCount - 1)
      BY <2>1, Slots
    <2> HIDE DEF p
    <2>3. HasTable(va) <=> DirHasTable(DirOf(p))
      BY <2>1 DEF HasTable, DirHasTable
    <2>4. directory[DirOf(p)].present => EntryOf(directory, va) = PageEntry(p)
      BY <2>1, <2>2 DEF DirectoryInv, EntryOf, PageEntry
    <2>5. IsMapped(va) <=> Mapped(p)
      BY <2>1, <2>2, <2>4 DEF IsMapped, Mapped, DirectoryInv, PageEntry
    <2>6. ASSUME HasTable(va)
          PROVE  EntryOf(WithTable(va), va) = PageEntry(p)
      <3>1. CASE directory[DirOf(p)].present
        BY <2>1, <2>4, <3>1 DEF WithTable
      <3>2. CASE ~directory[DirOf(p)].present
        <4>1. WithTable(va)[DirOf(p)] = [present |-> TRUE, table |-> TableOf(DirOf(p))]
          BY <2>1, <2>2, <2>6, <3>2, TableIndexIs DEF WithTable, TypeOK
        <4> QED
          BY <2>1, <4>1 DEF EntryOf, PageEntry
      <3> QED
        BY <3>1, <3>2
    <2> QED
      BY <2>1, <2>3, <2>4, <2>5, <2>6 DEF IsMapped, p
  <1>2. ASSUME NEW p \in Pages
        PROVE  /\ p * PageSize \in Addresses /\ PageOf(p * PageSize) = p
               /\ IsMapped(p * PageSize) <=> Mapped(p)
               /\ Mapped(p) => EntryOf(directory, p * PageSize) = PageEntry(p)
    BY <1>1, PageAddress
  <1>3. MappedPages = {p \in Pages : Mapped(p)}
    BY <1>2 DEF MappedPages
  <1>4. Walk = [p \in MappedPages |-> PageEntry(p).address \div PageSize]
    BY <1>2, <1>3 DEF Walk
  <1> QED
    BY <1>1, <1>3, <1>4

(* ... and an edit of one page's entry touches no other page's. *)
LEMMA EditEntry ==
    ASSUME TypeOK, NEW q \in Pages, DirHasTable(DirOf(q)), NEW entry \in Entry,
           tables' = [tables EXCEPT ![TableOf(DirOf(q))][SlotOf(q)] = entry]
    PROVE  /\ tables' \in [Tables -> [0 .. (EntryCount - 1) -> Entry]]
           /\ PageEntry(q)' = entry
           /\ \A p \in Pages : p # q /\ DirHasTable(DirOf(p)) => PageEntry(p)' = PageEntry(p)
           /\ \A t \in Tables, e \in 0 .. (EntryCount - 1) :
                 tables'[t][e] = IF t = TableOf(DirOf(q)) /\ e = SlotOf(q) THEN entry
                                 ELSE tables[t][e]
  <1>1. /\ TableOf(DirOf(q)) \in Tables /\ SlotOf(q) \in 0 .. (EntryCount - 1)
        /\ tables \in [Tables -> [0 .. (EntryCount - 1) -> Entry]]
    BY Slots DEF TypeOK
  <1>2. \A t \in Tables, e \in 0 .. (EntryCount - 1) :
           tables'[t][e] = IF t = TableOf(DirOf(q)) /\ e = SlotOf(q) THEN entry ELSE tables[t][e]
    BY <1>1
  <1>3. tables' \in [Tables -> [0 .. (EntryCount - 1) -> Entry]]
    BY <1>1
  <1>4. ASSUME NEW p \in Pages, p # q, DirHasTable(DirOf(p)),
               TableOf(DirOf(p)) = TableOf(DirOf(q)), SlotOf(p) = SlotOf(q)
        PROVE  FALSE
    <2>1. DirOf(p) = DirOf(q)
      BY <1>4, Slots, Sizes DEF TableOf, DirHasTable
    <2> QED
      BY <1>4, <2>1, Slots
  <1>5. ASSUME NEW p \in Pages, p # q, DirHasTable(DirOf(p))
        PROVE  PageEntry(p)' = PageEntry(p)
    <2>1. TableOf(DirOf(p)) \in Tables /\ SlotOf(p) \in 0 .. (EntryCount - 1)
      BY <1>5, Slots
    <2> QED
      BY <1>2, <1>4, <1>5, <2>1 DEF PageEntry
  <1> QED
    BY <1>1, <1>2, <1>3, <1>5 DEF PageEntry

-----------------------------------------------------------------------------
(* What holds in every state.  Tables and directory agree, an entry that   *)
(* is not present is zero.                                                 *)
TableInv == TypeOK /\ DirectoryInv /\ NotPresentIsZero

(* The address at which the range of the request began. *)
StartOf(address) == Back(address, call.i)

(* The loop of a request: the boot makes its three in order and maps only, *)
(* unmapping waits for the running kernel and keeps off its tables.        *)
CallInv ==
    /\ call.op = "none" => call = Idle
    /\ call.i =< call.count /\ call.count =< VPages
    /\ call.op = "flush" => call.i < call.count
    /\ stage \in {0, 4} => call.op = "none"
    /\ stage \in 1 .. 3 /\ call.op # "none" =>
          /\ call.op = "map" /\ call.count = BootCall(stage).count
          /\ StartOf(call.va) = BootCall(stage).va /\ StartOf(call.pa) = BootCall(stage).pa
    /\ call.op \in {"unmap", "flush"} =>
          \A k \in 0 .. (call.count - 1) :
              DirIndex((StartOf(call.va) + k * PageSize) % AddrSpace) \notin {0, FirstKernelDir}
    /\ cr3 = "kernel" => stage = 5

(* How much of the two tables of the boot directory is filled already, and *)
(* that it is filled as the boot directory has it.                         *)
IdentityDone == IF stage = 1 THEN call.i ELSE EntryCount
KernelDone == CASE stage = 1 -> 0
                [] stage = 2 -> call.i
                [] stage = 3 -> KernelPages + call.i
                [] OTHER -> EntryCount

InBoot(p) == DirOf(p) \in {0, FirstKernelDir}
BootFilled(p) == \/ DirOf(p) = 0 /\ SlotOf(p) < IdentityDone
                 \/ DirOf(p) = FirstKernelDir /\ SlotOf(p) < KernelDone
BootFrame(p) == IF DirOf(p) = 0 THEN p ELSE KernelPhysical \div PageSize + SlotOf(p)

FrameOf(p) == PageEntry(p).address \div PageSize

BootInv == stage # 0 => \A p \in Pages :
                            BootFilled(p) => Mapped(p) /\ FrameOf(p) = BootFrame(p)

IInv == TableInv /\ CallInv /\ TLBCoherent /\ BootInv

(* What the loop of a request has done to the translation it found. *)
Done == Abstract!PagesFrom(Asked.page, IF call.op = "flush" THEN call.i + 1 ELSE call.i)

RangeInv ==
    /\ before = [p \in DOMAIN before |-> before[p]]
    /\ call.op # "none" /\ Done # {} => Asked.aligned
    /\ call.op = "map" =>
          /\ Done \subseteq {p \in Pages : DirHasTable(DirOf(p))} \ DOMAIN before
          /\ Walk = [p \in DOMAIN before \cup Done |->
                        IF p \in Done
                        THEN Abstract!FrameAt(Asked.frame, (p - Asked.page) % VPages)
                        ELSE before[p]]
    /\ call.op \in {"unmap", "flush"} =>
          /\ Done \subseteq DOMAIN before
          /\ Walk = [p \in DOMAIN before \ Done |-> before[p]]

-----------------------------------------------------------------------------
(* The edits of directory and tables, told in pages. *)

TablesOK == /\ directory \in [0 .. (DirCount - 1) -> [present : BOOLEAN, table : Tables]]
            /\ tables \in [Tables -> [0 .. (EntryCount - 1) -> Entry]]
            /\ DirectoryInv /\ NotPresentIsZero

OthersKept(q) == \A p \in Pages : p # q => /\ Mapped(p)' <=> Mapped(p)
                                           /\ Mapped(p) => FrameOf(p)' = FrameOf(p)

AllKept == \A p \in Pages : /\ Mapped(p)' <=> Mapped(p)
                            /\ Mapped(p) => FrameOf(p)' = FrameOf(p)

(* The directory may gain the entry of the table that is edited. *)
LEMMA DirectoryStep ==
    ASSUME TypeOK, DirectoryInv, NEW d \in 0 .. (DirCount - 1), DirHasTable(d),
           \/ directory' = directory /\ directory[d].present
           \/ directory' = [directory EXCEPT ![d] = [present |-> TRUE, table |-> TableOf(d)]],
           \A t \in Tables \ {TableOf(d)}, e \in 0 .. (EntryCount - 1) :
               tables'[t][e] = tables[t][e]
    PROVE  /\ directory' \in [0 .. (DirCount - 1) -> [present : BOOLEAN, table : Tables]]
           /\ DirectoryInv'
  <1>1. \A c \in 0 .. (DirCount - 1) : DirHasTable(c) => TableOf(c) \in Tables
    BY Sizes DEF TableOf, Tables, DirHasTable
  <1>2. \A c \in 0 .. (DirCount - 1) :
           DirHasTable(c) /\ c # d => TableOf(c) # TableOf(d)
    BY Sizes DEF TableOf, Tables, DirHasTable
  <1>3. directory' \in [0 .. (DirCount - 1) -> [present : BOOLEAN, table : Tables]]
    <2>1. [present |-> TRUE, table |-> TableOf(d)] \in [present : BOOLEAN, table : Tables]
      BY <1>1
    <2>2. directory \in [0 .. (DirCount - 1) -> [present : BOOLEAN, table : Tables]]
      BY DEF TypeOK
    <2> HIDE DEF TypeOK
    <2>3. CASE directory' = [directory EXCEPT ![d] = [present |-> TRUE, table |-> TableOf(d)]]
      <3> DEFINE T == [present : BOOLEAN, table : Tables]
                 x == [present |-> TRUE, table |-> TableOf(d)]
      <3> HIDE DEF T, x
      <3>1. [directory EXCEPT ![d] = x] \in [0 .. (DirCount - 1) -> T]
        BY <2>1, <2>2 DEF T, x
      <3> QED
        BY <2>3, <3>1 DEF T, x
    <2> QED
      BY <2>2, <2>3
  <1>4. ASSUME NEW c \in 0 .. (DirCount - 1)
        PROVE  IF directory'[c].present THEN DirHasTable(c) /\ directory'[c].table = TableOf(c)
               ELSE DirHasTable(c) => \A e \in 0 .. (EntryCount - 1) : ~tables'[TableOf(c)][e].present
    <2>1. CASE c = d
      <3>1. CASE directory' = directory /\ directory[d].present
        BY <2>1, <3>1 DEF DirectoryInv
      <3>2. CASE directory' = [directory EXCEPT ![d] = [present |-> TRUE, table |-> TableOf(d)]]
        <4>1. directory'[d] = [present |-> TRUE, table |-> TableOf(d)]
          BY <3>2 DEF TypeOK
        <4> QED
          BY <2>1, <4>1
      <3> QED
        BY <3>1, <3>2
    <2>2. CASE c # d
      <3>1. directory'[c] = directory[c]
        BY <2>2 DEF TypeOK
      <3>2. DirHasTable(c) => \A e \in 0 .. (EntryCount - 1) :
                tables'[TableOf(c)][e] = tables[TableOf(c)][e]
        BY <1>1, <1>2, <2>2
      <3> QED
        BY <3>1, <3>2 DEF DirectoryInv
    <2> QED
      BY <2>1, <2>2
  <1>5. DirectoryInv'
    BY <1>4 DEF DirectoryInv
  <1> QED
    BY <1>3, <1>5

(* What Map does to the directory. *)
LEMMA WithTableIs ==
    ASSUME TypeOK, NEW va \in Addresses, HasTable(va), directory' = WithTable(va)
    PROVE  LET d == DirOf(PageOf(va)) IN
           /\ d \in 0 .. (DirCount - 1) /\ DirHasTable(d)
           /\ \/ directory' = directory /\ directory[d].present
              \/ directory' = [directory EXCEPT ![d] = [present |-> TRUE, table |-> TableOf(d)]]
           /\ directory'[d].present
  <1>1. /\ PageOf(va) \in Pages /\ DirIndex(va) = DirOf(PageOf(va))
        /\ DirOf(PageOf(va)) \in 0 .. (DirCount - 1)
    BY AddressParts, Slots
  <1>2. TableIndex(va) = TableOf(DirIndex(va)) /\ DirHasTable(DirIndex(va))
    BY TableIndexIs
  <1> QED
    BY <1>1, <1>2 DEF WithTable, TypeOK

LEMMA Unedited ==
    ASSUME UNCHANGED tables
    PROVE  AllKept
  BY DEF AllKept, Mapped, PageEntry, FrameOf

LEMMA MapPageEdits ==
    ASSUME TableInv, MapPage, NEW va, va = call.va, NEW pa, pa = call.pa,
           NEW q, q = PageOf(va)
    PROVE  /\ TablesOK' /\ OthersKept(q)
           /\ DirHasTable(DirOf(q)) /\ ~Mapped(q)
           /\ Mapped(q)' /\ FrameOf(q)' = PageOf(pa)
  <1> USE DEF TableInv
  <1> DEFINE d == DirOf(q)
             entry == [present |-> TRUE, address |-> pa]
  <1>1. va \in Addresses /\ pa \in Addresses
    BY DEF TypeOK, Call
  <1>2. /\ q \in Pages /\ DirIndex(va) = d /\ EntryIndex(va) = SlotOf(q)
        /\ d \in 0 .. (DirCount - 1) /\ SlotOf(q) \in 0 .. (EntryCount - 1)
    BY <1>1, AddressParts, Slots
  <1>3. HasTable(va) /\ ~EntryOf(WithTable(va), va).present
    BY DEF MapPage, Reaches
  <1>4. /\ DirHasTable(d)
        /\ EntryOf(WithTable(va), va) = PageEntry(q)
        /\ TableOf(d) \in Tables
    BY <1>1, <1>2, <1>3, PageView, Slots
  <1>5. /\ \/ directory' = directory /\ directory[d].present
           \/ directory' = [directory EXCEPT ![d] = [present |-> TRUE, table |-> TableOf(d)]]
        /\ directory'[d].present
    BY <1>1, <1>3, WithTableIs DEF MapPage
  <1>6. directory'[d].table = TableOf(d)
    <2>1. CASE directory' = directory /\ directory[d].present
      BY <1>2, <2>1 DEF DirectoryInv
    <2>2. CASE directory' = [directory EXCEPT ![d] = [present |-> TRUE, table |-> TableOf(d)]]
      BY <1>2, <2>2 DEF TypeOK
    <2> QED
      BY <1>5, <2>1, <2>2
  <1>7. PageEntry(q) = ClearedEntry
    BY <1>2, <1>3, <1>4 DEF NotPresentIsZero, PageEntry
  <1>8. entry = SetEntry(PageEntry(q), pa) /\ entry \in Entry
    <2>1. HighBit \in Nat \ {0}
      BY Sizes DEF HighBit
    <2>2. SetAddress(0, pa) = pa
      BY <1>1, <2>1 DEF SetAddress, Addresses
    <2>3. ClearedEntry.address = 0
      BY DEF ClearedEntry
    <2>4. SetEntry(PageEntry(q), pa) = entry
      BY <1>7, <2>2, <2>3 DEF SetEntry
    <2> QED
      BY <1>1, <2>4 DEF Entry
  <1>9. tables' = [tables EXCEPT ![TableOf(d)][SlotOf(q)] = entry]
    <2>1. tables' = WithEntry(directory', va, SetEntry(EntryOf(directory', va), pa))
      BY DEF MapPage
    <2>2. EntryOf(directory', va) = PageEntry(q)
      BY <1>2, <1>6 DEF EntryOf, PageEntry
    <2> QED
      BY <1>2, <1>6, <1>8, <2>1, <2>2 DEF WithEntry
  <1> HIDE DEF d, entry
  <1>10. /\ tables' \in [Tables -> [0 .. (EntryCount - 1) -> Entry]]
         /\ PageEntry(q)' = entry
         /\ \A p \in Pages : p # q /\ DirHasTable(DirOf(p)) => PageEntry(p)' = PageEntry(p)
         /\ \A t \in Tables, e \in 0 .. (EntryCount - 1) :
               tables'[t][e] = IF t = TableOf(d) /\ e = SlotOf(q) THEN entry ELSE tables[t][e]
    <2>1. /\ TypeOK /\ q \in Pages /\ DirHasTable(DirOf(q)) /\ entry \in Entry
          /\ tables' = [tables EXCEPT ![TableOf(DirOf(q))][SlotOf(q)] = entry]
      BY <1>2, <1>4, <1>8, <1>9 DEF d
    <2> QED
      BY <2>1, EditEntry, Zenon DEF d
  <1>11. /\ directory' \in [0 .. (DirCount - 1) -> [present : BOOLEAN, table : Tables]]
         /\ DirectoryInv'
    BY <1>2, <1>4, <1>5, <1>10, DirectoryStep
  <1>12. NotPresentIsZero'
    BY <1>8, <1>10 DEF NotPresentIsZero, entry
  <1>13. OthersKept(q)
    BY <1>10 DEF OthersKept, Mapped, FrameOf
  <1>14. Mapped(q)' /\ FrameOf(q)' = PageOf(pa) /\ ~Mapped(q)
    BY <1>4, <1>7, <1>8, <1>10 DEF Mapped, FrameOf, PageOf, ClearedEntry, d, entry
  <1> QED
    BY <1>4, <1>10, <1>11, <1>12, <1>13, <1>14 DEF TablesOK, d

LEMMA UnmapPageEdits ==
    ASSUME TableInv, UnmapPage, NEW va, va = call.va, NEW q, q = PageOf(va)
    PROVE  TablesOK' /\ OthersKept(q) /\ Mapped(q) /\ ~Mapped(q)'
  <1> USE DEF TableInv
  <1> DEFINE d == DirOf(q)
  <1>1. va \in Addresses
    BY DEF TypeOK, Call
  <1>2. /\ q \in Pages /\ DirIndex(va) = d /\ EntryIndex(va) = SlotOf(q)
        /\ d \in 0 .. (DirCount - 1) /\ SlotOf(q) \in 0 .. (EntryCount - 1)
    BY <1>1, AddressParts, Slots
  <1>3. IsMapped(va)
    BY DEF UnmapPage, Unmappable
  <1>4. DirHasTable(d) /\ Mapped(q) /\ directory[d].present
    BY <1>1, <1>2, <1>3, PageView DEF Mapped, IsMapped
  <1>5. directory[d].table = TableOf(d) /\ TableOf(d) \in Tables
    BY <1>2, <1>4, Slots DEF DirectoryInv
  <1>6. ClearedEntry \in Entry
    BY Sizes DEF ClearedEntry, Entry, Addresses
  <1>7. tables' = WithEntry(directory, va, ClearedEntry) /\ directory' = directory
    BY DEF UnmapPage
  <1>8. tables' = [tables EXCEPT ![TableOf(d)][SlotOf(q)] = ClearedEntry] /\ directory' = directory
    BY <1>2, <1>5, <1>7 DEF WithEntry
  <1> HIDE DEF d
  <1>9. /\ tables' \in [Tables -> [0 .. (EntryCount - 1) -> Entry]]
        /\ PageEntry(q)' = ClearedEntry
        /\ \A p \in Pages : p # q /\ DirHasTable(DirOf(p)) => PageEntry(p)' = PageEntry(p)
        /\ \A t \in Tables, e \in 0 .. (EntryCount - 1) :
              tables'[t][e] = IF t = TableOf(d) /\ e = SlotOf(q) THEN ClearedEntry
                              ELSE tables[t][e]
    BY <1>2, <1>4, <1>6, <1>8, EditEntry DEF d
  <1>10. /\ directory' \in [0 .. (DirCount - 1) -> [present : BOOLEAN, table : Tables]]
        /\ DirectoryInv'
    BY <1>2, <1>4, <1>8, <1>9, DirectoryStep
  <1>11. NotPresentIsZero'
    BY <1>9 DEF NotPresentIsZero
  <1>12. OthersKept(q)
    BY <1>9 DEF OthersKept, Mapped, FrameOf
  <1> QED
    BY <1>4, <1>9, <1>10, <1>11, <1>12 DEF TablesOK, Mapped, ClearedEntry

LEMMA MapFailsEdits ==
    ASSUME TableInv, MapFails
    PROVE  TablesOK' /\ AllKept
  <1> USE DEF TableInv
  <1>1. tables' = tables /\ call.va \in Addresses
    BY DEF MapFails, TypeOK, Call
  <1>2. /\ directory' \in [0 .. (DirCount - 1) -> [present : BOOLEAN, table : Tables]]
        /\ DirectoryInv'
    <2>1. CASE Reaches(call.va, call.pa)
      <3>1. directory' = WithTable(call.va) /\ HasTable(call.va)
        BY <2>1 DEF MapFails, Reaches
      <3> QED
        BY <1>1, <3>1, WithTableIs, DirectoryStep
    <2>2. CASE ~Reaches(call.va, call.pa)
      BY <1>1, <2>2 DEF MapFails, DirectoryInv, TypeOK
    <2> QED
      BY <2>1, <2>2
  <1> QED
    BY <1>1, <1>2, Unedited DEF TablesOK, TypeOK, NotPresentIsZero

-----------------------------------------------------------------------------
(* Both translations, page by page. *)

LEMMA Translation ==
    TypeOK /\ DirectoryInv =>
        /\ Walk = [p \in MappedPages |-> FrameOf(p)] /\ MappedPages \subseteq Pages
        /\ \A p \in Pages : /\ p \in MappedPages <=> Mapped(p)
                            /\ Mapped(p) => FrameOf(p) \in Pages
  <1> SUFFICES ASSUME TypeOK, DirectoryInv
               PROVE  /\ Walk = [p \in MappedPages |-> FrameOf(p)]
                      /\ MappedPages \subseteq Pages
                      /\ \A p \in Pages : /\ p \in MappedPages <=> Mapped(p)
                                          /\ Mapped(p) => FrameOf(p) \in Pages
    OBVIOUS
  <1>1. /\ MappedPages = {p \in Pages : Mapped(p)}
        /\ Walk = [p \in MappedPages |-> PageEntry(p).address \div PageSize]
    BY PageView
  <1>2. ASSUME NEW p \in Pages, Mapped(p)
        PROVE  FrameOf(p) \in Pages
    <2>1. TableOf(DirOf(p)) \in Tables /\ SlotOf(p) \in 0 .. (EntryCount - 1)
      BY <1>2, Slots DEF Mapped
    <2>2. PageEntry(p).address \in Addresses
      BY <2>1 DEF TypeOK, PageEntry, Entry
    <2> QED
      BY <2>2, AddressParts DEF FrameOf, PageOf
  <1> QED
    BY <1>1, <1>2 DEF FrameOf

LEMMA TranslationAfter ==
    ASSUME TypeOK', DirectoryInv'
    PROVE  /\ Walk' = [p \in MappedPages' |-> FrameOf(p)'] /\ MappedPages' \subseteq Pages
           /\ \A p \in Pages : p \in MappedPages' <=> Mapped(p)'
  <1>1. (TypeOK /\ DirectoryInv =>
            /\ Walk = [p \in MappedPages |-> FrameOf(p)] /\ MappedPages \subseteq Pages
            /\ \A p \in Pages : /\ p \in MappedPages <=> Mapped(p)
                                /\ Mapped(p) => FrameOf(p) \in Pages)'
    BY Translation, PTL
  <1>2. Pages' = Pages
    BY DEF Pages
  <1> QED
    BY <1>1, <1>2

LEMMA BootTranslation ==
    /\ BootWalk = [p \in {q \in Pages : InBoot(q)} |-> BootFrame(p)]
    /\ \A p \in Pages : InBoot(p) => BootFrame(p) \in Pages
  <1>1. ASSUME NEW p \in Pages
        PROVE  DirIndex(p * PageSize) = DirOf(p) /\ EntryIndex(p * PageSize) = SlotOf(p)
    BY PageAddress, AddressParts
  <1>2. BootWalk = [p \in {q \in Pages : InBoot(q)} |-> BootFrame(p)]
    BY <1>1 DEF BootWalk, InBoot, BootFrame
  <1>3. KernelPhysical \div PageSize \in Nat /\ KernelPhysical \div PageSize + EntryCount =< VPages
    <2>1. PICK k \in Nat : KernelPhysical = PageSize * k /\ KernelPhysical \div PageSize = k
      BY VMMAssumption DEF Addresses
    <2>2. PageSize * (k + EntryCount) =< PageSize * VPages
      BY <2>1, VMMAssumption, Sizes
    <2>3. k + EntryCount =< VPages
      BY <2>1, <2>2, Sizes
    <2> QED
      BY <2>1, <2>3
  <1>4. ASSUME NEW p \in Pages
        PROVE  BootFrame(p) \in Pages
    BY <1>3, <1>4, Slots, Sizes DEF BootFrame, Pages
  <1> QED
    BY <1>2, <1>4

(* The translation in force, which the TLB has to agree with. *)
Active(p) == IF cr3 = "kernel" THEN Mapped(p) ELSE InBoot(p)
ActiveFrame(p) == IF cr3 = "kernel" THEN FrameOf(p) ELSE BootFrame(p)

Coherent == \A p \in DOMAIN tlb : \/ call.op = "flush" /\ p = PageOf(call.va)
                                  \/ Active(p) /\ tlb[p] = ActiveFrame(p)

LEMMA ActiveWalkIs ==
    TypeOK /\ DirectoryInv =>
        /\ DOMAIN ActiveWalk \subseteq Pages
        /\ \A p \in Pages : /\ p \in DOMAIN ActiveWalk <=> Active(p)
                            /\ Active(p) => /\ ActiveWalk[p] = ActiveFrame(p)
                                            /\ ActiveFrame(p) \in Pages
  <1> SUFFICES ASSUME TypeOK, DirectoryInv
               PROVE  /\ DOMAIN ActiveWalk \subseteq Pages
                      /\ \A p \in Pages : /\ p \in DOMAIN ActiveWalk <=> Active(p)
                                          /\ Active(p) => /\ ActiveWalk[p] = ActiveFrame(p)
                                                          /\ ActiveFrame(p) \in Pages
    OBVIOUS
  <1>1. CASE cr3 = "kernel"
    BY <1>1, Translation DEF ActiveWalk, Active, ActiveFrame
  <1>2. CASE cr3 # "kernel"
    BY <1>2, BootTranslation DEF ActiveWalk, Active, ActiveFrame
  <1> QED
    BY <1>1, <1>2

LEMMA CoherentIs == TypeOK /\ DirectoryInv => (TLBCoherent <=> Coherent)
  <1> SUFFICES ASSUME TypeOK, DirectoryInv
               PROVE  TLBCoherent <=> Coherent
    OBVIOUS
  <1>1. DOMAIN tlb \subseteq Pages
    BY DEF TypeOK
  <1> QED
    BY <1>1, ActiveWalkIs DEF TLBCoherent, Coherent

-----------------------------------------------------------------------------
(* What a step has to respect for the invariant to hold after it. *)

NoneLost == \A p \in Pages : Mapped(p) => Mapped(p)' /\ FrameOf(p)' = FrameOf(p)

(* The TLB stays coherent when mappings are only added ... *)
LEMMA TLBKept ==
    ASSUME IInv, TypeOK', DirectoryInv', NoneLost, call.op # "flush", UNCHANGED <<cr3, tlb>>
    PROVE  TLBCoherent'
  <1>1. Coherent /\ DOMAIN tlb \subseteq Pages
    BY CoherentIs DEF IInv, TableInv, TypeOK
  <1>2. Coherent'
    BY <1>1 DEF Coherent, NoneLost, Active, ActiveFrame
  <1>3. (TypeOK /\ DirectoryInv => (TLBCoherent <=> Coherent))'
    BY CoherentIs, PTL
  <1> QED
    BY <1>2, <1>3

(* ... and the boot directory's pages when none of them is lost and none   *)
(* is counted before it is mapped.                                         *)
LEMMA BootKept ==
    ASSUME BootInv,
           \A p \in Pages : InBoot(p) /\ Mapped(p) => Mapped(p)' /\ FrameOf(p)' = FrameOf(p),
           stage' # 0 => stage # 0 /\ IdentityDone' = IdentityDone /\ KernelDone' = KernelDone
    PROVE  BootInv'
  <1>1. ASSUME stage' # 0, NEW p \in Pages, BootFilled(p)'
        PROVE  Mapped(p)' /\ FrameOf(p)' = BootFrame(p)
    <2>1. BootFilled(p) /\ stage # 0
      BY <1>1 DEF BootFilled
    <2> QED
      BY <2>1 DEF BootInv, BootFilled, InBoot
  <1> QED
    BY <1>1 DEF BootInv, BootFrame

LEMMA CallIs ==
    ASSUME NEW o \in {"none", "map", "unmap", "flush"}, NEW a \in Addresses,
           NEW b \in Addresses, NEW n \in Nat, NEW j \in Nat
    PROVE  [op |-> o, va |-> a, pa |-> b, count |-> n, i |-> j] \in Call
  BY DEF Call

(* The next page of a loop. *)
LEMMA NextPageIs ==
    ASSUME TypeOK, NEW o \in {"map", "unmap"}, call' = [NextPage EXCEPT !.op = o]
    PROVE  /\ call' \in Call
           /\ call'.op = o /\ call'.i = call.i + 1 /\ call'.count = call.count
           /\ StartOf(call.va)' = StartOf(call.va) /\ StartOf(call.pa)' = StartOf(call.pa)
  <1>1. /\ call.va \in Addresses /\ call.pa \in Addresses
        /\ call.count \in Nat /\ call.i \in Nat
    BY DEF TypeOK, Call
  <1>2. call' = [op |-> o, va |-> (call.va + PageSize) % AddrSpace,
                 pa |-> (call.pa + PageSize) % AddrSpace,
                 count |-> call.count, i |-> call.i + 1]
    BY DEF NextPage, TypeOK, Call
  <1>3. ASSUME NEW a \in Addresses
        PROVE  (a + PageSize) % AddrSpace \in Addresses
    <2>1. 1 \in Int /\ 1 * PageSize = PageSize
      BY Sizes
    <2> QED
      BY <2>1, PagesOn
  <1>4. ASSUME NEW a \in Addresses
        PROVE  Back((a + PageSize) % AddrSpace, call.i + 1) = Back(a, call.i)
    BY <1>1, LoopStart
  <1>5. /\ call'.op = o /\ call'.i = call.i + 1 /\ call'.count = call.count
        /\ call'.va = (call.va + PageSize) % AddrSpace
        /\ call'.pa = (call.pa + PageSize) % AddrSpace
    BY <1>2
  <1>6. StartOf(call.va)' = StartOf(call.va) /\ StartOf(call.pa)' = StartOf(call.pa)
    BY <1>1, <1>4, <1>5 DEF StartOf
  <1>7. call' \in Call
    <2> DEFINE a == (call.va + PageSize) % AddrSpace
               b == (call.pa + PageSize) % AddrSpace
               j == call.i + 1
    <2>1. a \in Addresses /\ b \in Addresses /\ j \in Nat /\ call.count \in Nat
      BY <1>1, <1>3
    <2>2. call' = [op |-> o, va |-> a, pa |-> b, count |-> call.count, i |-> j]
      BY <1>2
    <2> HIDE DEF a, b, j
    <2>3. o \in {"none", "map", "unmap", "flush"}
      OBVIOUS
    <2> DEFINE n == call.count
    <2> HIDE DEF n
    <2>4. [op |-> o, va |-> a, pa |-> b, count |-> n, i |-> j] \in Call
      <3>1. n \in Nat
        BY <2>1 DEF n
      <3> QED
        BY <2>1, <2>3, <3>1, CallIs
    <2> QED
      BY <2>2, <2>4 DEF n
  <1> QED
    BY <1>5, <1>6, <1>7

(* A loop that starts has not left its first page. *)
LEMMA AtStart ==
    ASSUME NEW a \in Addresses
    PROVE  Back(a, 0) = a
  BY Sizes DEF Addresses, Back

(* Where the boot's requests have come to. *)
LEMMA BootPage ==
    ASSUME TypeOK, CallInv, stage \in 1 .. 3, call.op # "none", call.i < call.count,
           NEW q, q = PageOf(call.va)
    PROVE  /\ q \in Pages /\ PageOf(call.pa) = BootFrame(q)
           /\ DirOf(q) = IF stage = 1 THEN 0 ELSE FirstKernelDir
           /\ SlotOf(q) = IF stage = 1 THEN IdentityDone ELSE KernelDone
           /\ SlotOf(q) < EntryCount
  <1> USE Sizes
  <1>1. /\ call.va \in Addresses /\ call.pa \in Addresses /\ call.i \in Nat
        /\ KernelPages \in 0 .. EntryCount
    BY VMMAssumption DEF TypeOK, Call
  <1>2. /\ StartOf(call.va) = BootCall(stage).va /\ StartOf(call.pa) = BootCall(stage).pa
        /\ call.i < BootCall(stage).count
    BY DEF CallInv
  <1>3. /\ q = (PageOf(StartOf(call.va)) + call.i) % VPages
        /\ PageOf(call.pa) = (PageOf(StartOf(call.pa)) + call.i) % VPages
    <2>1. ASSUME NEW a \in Addresses
          PROVE  PageOf(a) = (PageOf(StartOf(a)) + call.i) % VPages
      BY <1>1, LoopStart DEF StartOf
    <2> QED
      BY <1>1, <2>1
  <1>4. PICK k \in Nat : KernelPhysical = PageSize * k /\ KernelPhysical \div PageSize = k
    BY VMMAssumption DEF Addresses
  <1>5. k + EntryCount =< VPages
    <2>1. PageSize * (k + EntryCount) =< PageSize * VPages
      BY <1>4, VMMAssumption
    <2> QED
      BY <1>4, <2>1
  <1> DEFINE first == FirstKernelDir * EntryCount
  <1>6. first \in Nat /\ first + EntryCount =< VPages /\ KernelVirtual = first * PageSize
    <2>1. (FirstKernelDir + 1) * EntryCount =< DirCount * EntryCount
      OBVIOUS
    <2> QED
      BY <2>1 DEF KernelVirtual
  <1>7. /\ KernelVirtual \in Addresses /\ PageOf(KernelVirtual) = first
        /\ KernelPhysical \in Addresses /\ PageOf(KernelPhysical) = k
    <2>1. first \in Pages
      BY <1>6 DEF Pages
    <2> HIDE DEF first
    <2> QED
      BY <1>4, <1>6, <2>1, PageAddress, VMMAssumption DEF PageOf
  <1>8. \A j \in 0 .. (EntryCount - 1) : (first + j) \div EntryCount = FirstKernelDir
                                      /\ (first + j) % EntryCount = j
    <2>1. TAKE j \in 0 .. (EntryCount - 1)
    <2>2. first + j = EntryCount * FirstKernelDir + j /\ first + j \in Int
      BY <1>6
    <2>3. EntryCount \in Nat \ {0} /\ FirstKernelDir \in Int
      OBVIOUS
    <2> HIDE DEF first
    <2> HIDE Sizes
    <2> QED
      BY <2>2, <2>3, DivMod, Zenon
  <1> HIDE DEF first
  <1>9. CASE stage = 1
    <2>1. BootCall(stage) = MapCall(0, 0, EntryCount) /\ IdentityDone = call.i
      BY <1>9 DEF BootCall, IdentityDone
    <2>2. 0 \in Addresses /\ PageOf(0) = 0
      BY DEF Addresses, PageOf
    <2>3. EntryCount =< VPages
      BY <1>5, <1>4
    <2>4. q = call.i /\ PageOf(call.pa) = call.i /\ call.i < EntryCount
      <3>1. /\ StartOf(call.va) = 0 /\ StartOf(call.pa) = 0 /\ call.i < EntryCount
        BY <1>2, <2>1 DEF MapCall
      <3> QED
        BY <1>1, <1>3, <2>2, <2>3, <3>1
    <2>5. call.i \div EntryCount = 0 /\ call.i % EntryCount = call.i
      BY <1>1, <2>4
    <2> QED
      BY <1>1, <1>9, <2>1, <2>3, <2>4, <2>5 DEF DirOf, SlotOf, BootFrame, Pages
  <1>10. CASE stage = 2
    <2>1. BootCall(stage) = MapCall(KernelVirtual, KernelPhysical, KernelPages) /\ KernelDone = call.i
      BY <1>10 DEF BootCall, KernelDone
    <2>2. q = first + call.i /\ PageOf(call.pa) = k + call.i /\ call.i \in 0 .. (EntryCount - 1)
      <3>1. /\ StartOf(call.va) = KernelVirtual /\ StartOf(call.pa) = KernelPhysical
            /\ call.i < KernelPages
        BY <1>2, <2>1 DEF MapCall
      <3>2. /\ q = (first + call.i) % VPages /\ PageOf(call.pa) = (k + call.i) % VPages
        BY <1>3, <1>7, <3>1
      <3>3. /\ first + call.i \in 0 .. (VPages - 1) /\ k + call.i \in 0 .. (VPages - 1)
            /\ call.i \in 0 .. (EntryCount - 1)
        BY <1>1, <1>4, <1>5, <1>6, <3>1
      <3>4. VPages \in Nat \ {0}
        OBVIOUS
      <3> HIDE Sizes
      <3> QED
        BY <3>2, <3>3, <3>4, SmallMod, Zenon
    <2>3. DirOf(q) = FirstKernelDir /\ SlotOf(q) = call.i
      BY <1>8, <2>2 DEF DirOf, SlotOf
    <2>4. q \in Pages
      BY <1>6, <2>2 DEF Pages
    <2>5. BootFrame(q) = k + call.i
      BY <1>4, <2>3 DEF BootFrame
    <2> QED
      BY <1>10, <2>1, <2>2, <2>3, <2>4, <2>5
  <1>11. CASE stage = 3
    <2> DEFINE j == KernelPages + call.i
    <2>1. /\ BootCall(stage) = MapCall((KernelVirtual + KernelPages * PageSize) % AddrSpace,
                                       (KernelPhysical + KernelPages * PageSize) % AddrSpace,
                                       EntryCount - KernelPages)
          /\ KernelDone = j
      BY <1>11 DEF BootCall, KernelDone
    <2>2. q = first + j /\ PageOf(call.pa) = k + j /\ j \in 0 .. (EntryCount - 1)
      <3>1. /\ StartOf(call.va) = (KernelVirtual + KernelPages * PageSize) % AddrSpace
            /\ StartOf(call.pa) = (KernelPhysical + KernelPages * PageSize) % AddrSpace
            /\ call.i < EntryCount - KernelPages
        BY <1>2, <2>1 DEF MapCall
      <3>2. /\ PageOf(StartOf(call.va)) = (first + KernelPages) % VPages
            /\ PageOf(StartOf(call.pa)) = (k + KernelPages) % VPages
        <4>1. KernelPages \in Int
          BY <1>1
        <4> HIDE Sizes
        <4> QED
          BY <1>7, <3>1, <4>1, PagesOn
      <3>3. /\ first + KernelPages \in 0 .. (VPages - 1) /\ k + KernelPages \in 0 .. (VPages - 1)
            /\ first + j \in 0 .. (VPages - 1) /\ k + j \in 0 .. (VPages - 1)
            /\ j \in 0 .. (EntryCount - 1)
        BY <1>1, <1>4, <1>5, <1>6, <3>1
      <3>4. /\ PageOf(StartOf(call.va)) = first + KernelPages
            /\ PageOf(StartOf(call.pa)) = k + KernelPages
        BY <3>2, <3>3
      <3>5. /\ q = (first + j) % VPages /\ PageOf(call.pa) = (k + j) % VPages
        <4>1. (first + KernelPages) + call.i = first + j /\ (k + KernelPages) + call.i = k + j
          BY <1>1, <1>4, <1>6
        <4> HIDE DEF j
        <4> QED
          BY <1>3, <3>4, <4>1
      <3>6. VPages \in Nat \ {0}
        OBVIOUS
      <3> HIDE DEF j
      <3> HIDE Sizes
      <3> QED
        BY <3>3, <3>5, <3>6, SmallMod, Zenon
    <2> HIDE DEF j
    <2>3. DirOf(q) = FirstKernelDir /\ SlotOf(q) = j
      BY <1>8, <2>2 DEF DirOf, SlotOf
    <2>4. q \in Pages
      BY <1>6, <2>2 DEF Pages
    <2>5. BootFrame(q) = k + j
      BY <1>4, <2>3 DEF BootFrame
    <2> QED
      BY <1>11, <2>1, <2>2, <2>3, <2>4, <2>5
  <1> QED
    BY <1>9, <1>10, <1>11

-----------------------------------------------------------------------------
(* The types of the state beside directory and tables. *)

RestOK == /\ cr3 \in {"boot", "kernel"}
          /\ DOMAIN tlb \subseteq Pages /\ \A p \in DOMAIN tlb : tlb[p] \in Pages
          /\ stage \in 0 .. 5
          /\ call \in Call
          /\ ok \in BOOLEAN
          /\ DOMAIN before \subseteq Pages /\ \A p \in DOMAIN before : before[p] \in Pages

LEMMA InvOf ==
    ASSUME TablesOK', RestOK', CallInv', BootInv', TypeOK' => TLBCoherent'
    PROVE  IInv'
  BY DEF TablesOK, RestOK, IInv, TableInv, TypeOK

LEMMA InvHolds ==
    ASSUME IInv
    PROVE  TypeOK /\ DirectoryInv /\ NotPresentIsZero /\ TablesOK /\ RestOK /\ CallInv /\ BootInv
  BY DEF TablesOK, RestOK, IInv, TableInv, TypeOK

LEMMA IdleIsCall == Idle \in Call
  BY Sizes DEF Idle, Call, Addresses

LEMMA InitInv == Init => IInv
  <1> SUFFICES ASSUME Init PROVE IInv
    OBVIOUS
  <1>1. TypeOK
    <2>1. 0 \in Tables /\ ClearedEntry \in Entry
      BY Sizes DEF Tables, ClearedEntry, Entry, Addresses
    <2> QED
      BY <2>1, IdleIsCall DEF Init, TypeOK
  <1>2. DirectoryInv
    <2>1. \A d \in 0 .. (DirCount - 1) : DirHasTable(d) => TableOf(d) \in Tables
      BY Sizes DEF TableOf, Tables, DirHasTable
    <2> QED
      BY <2>1 DEF Init, DirectoryInv, ClearedEntry
  <1>3. NotPresentIsZero
    BY DEF Init, NotPresentIsZero
  <1>4. CallInv
    BY Sizes DEF Init, CallInv, Idle
  <1>5. TLBCoherent
    BY <1>1 DEF Init, TLBCoherent
  <1>6. BootInv
    <2>1. ASSUME NEW p \in Pages
          PROVE  ~BootFilled(p)
      BY Slots, Sizes DEF BootFilled, IdentityDone, KernelDone, Init, Idle
    <2> QED
      BY <2>1 DEF BootInv
  <1> QED
    BY <1>1, <1>2, <1>3, <1>4, <1>5, <1>6 DEF IInv, TableInv

-----------------------------------------------------------------------------
(* One lemma per action. *)

(* A request begins, of the boot or of the allocator. *)
LEMMA StartKeeps ==
    ASSUME IInv, NEW c \in Call, Start(c), c.op \in {"map", "unmap"}, c.i = 0,
           c.count =< VPages, stage \in {1, 2, 3, 5},
           stage \in 1 .. 3 => c = BootCall(stage),
           c.op = "unmap" => \A k \in 0 .. (c.count - 1) :
               DirIndex((c.va + k * PageSize) % AddrSpace) \notin {0, FirstKernelDir}
    PROVE  IInv'
  <1> USE InvHolds
  <1>1. /\ call.op = "none" /\ call.i = 0 /\ call' = c /\ before' = Walk
        /\ UNCHANGED <<directory, tables, cr3, tlb, stage, ok>>
    BY DEF Start, Idle
  <1>2. /\ c.va \in Addresses /\ c.pa \in Addresses /\ c.count \in Nat
        /\ StartOf(call.va)' = c.va /\ StartOf(call.pa)' = c.pa
    BY <1>1, AtStart DEF Call, StartOf
  <1>3. TablesOK'
    BY <1>1 DEF TablesOK, DirectoryInv, NotPresentIsZero
  <1>4. AllKept
    BY <1>1, Unedited
  <1>5. RestOK'
    <2>1. DOMAIN Walk \subseteq Pages /\ \A p \in DOMAIN Walk : Walk[p] \in Pages
      BY Translation
    <2> QED
      BY <1>1, <2>1 DEF RestOK
  <1>6. CallInv'
    <2>1. stage \in 1 .. 3 => BootCall(stage).op = "map"
      BY DEF BootCall, MapCall
    <2>2. (stage \in 1 .. 3)' => call'.op = "map" /\ call'.count = BootCall(stage)'.count
                  /\ StartOf(call.va)' = BootCall(stage)'.va
                  /\ StartOf(call.pa)' = BootCall(stage)'.pa
      BY <1>1, <1>2, <2>1 DEF BootCall
    <2>3. cr3' = "kernel" => stage' = 5
      BY <1>1 DEF CallInv
    <2>4. call'.op \in {"unmap", "flush"} =>
              \A k \in 0 .. (call'.count - 1) :
                  DirIndex((StartOf(call.va)' + k * PageSize) % AddrSpace)
                      \notin {0, FirstKernelDir}
      BY <1>1, <1>2
    <2>5. /\ call'.op # "none" /\ call'.op # "flush" /\ stage' \notin {0, 4}
          /\ call'.i =< call'.count /\ call'.count =< VPages
      BY <1>1, <1>2
    <2> QED
      BY <2>2, <2>3, <2>4, <2>5 DEF CallInv
  <1>7. TypeOK' => TLBCoherent'
    BY <1>1, <1>3, <1>4, TLBKept DEF AllKept, NoneLost, TablesOK
  <1>8. BootInv'
    <2>1. stage' # 0 => stage # 0 /\ IdentityDone' = IdentityDone /\ KernelDone' = KernelDone
      BY <1>1 DEF IdentityDone, KernelDone
    <2> QED
      BY <1>4, <2>1, BootKept DEF AllKept
  <1> QED
    BY <1>3, <1>5, <1>6, <1>7, <1>8, InvOf

LEMMA StartBootCallKeeps == IInv /\ StartBootCall => IInv'
  <1> SUFFICES ASSUME IInv, StartBootCall PROVE IInv'
    OBVIOUS
  <1> DEFINE c == BootCall(stage)
  <1>1. stage \in 1 .. 3 /\ Start(c)
    BY DEF StartBootCall
  <1>2. KernelPages \in 0 .. EntryCount /\ EntryCount =< VPages
    BY VMMAssumption, Sizes DEF VPages
  <1>3. /\ 0 \in Addresses /\ KernelPhysical \in Addresses
        /\ KernelVirtual \in Addresses
        /\ (KernelVirtual + KernelPages * PageSize) % AddrSpace \in Addresses
        /\ (KernelPhysical + KernelPages * PageSize) % AddrSpace \in Addresses
    <2>1. FirstKernelDir * EntryCount \in Pages
      <3>1. (FirstKernelDir + 1) * EntryCount =< DirCount * EntryCount
        BY Sizes
      <3> QED
        BY <3>1, Sizes DEF Pages
    <2>2. KernelVirtual \in Addresses
      BY <2>1, PageAddress DEF KernelVirtual
    <2>3. KernelPages \in Int /\ KernelPhysical \in Addresses
      BY VMMAssumption
    <2>4. 0 \in Addresses
      BY Sizes DEF Addresses
    <2> QED
      BY <2>2, <2>3, <2>4, PagesOn
  <1>4. c \in Call /\ c.op = "map" /\ c.i = 0 /\ c.count =< VPages
    <2>1. CASE stage = 1
      BY <1>2, <1>3, <2>1, CallIs, Sizes DEF BootCall, MapCall
    <2>2. CASE stage = 2
      BY <1>2, <1>3, <2>2, CallIs, Sizes DEF BootCall, MapCall
    <2>3. CASE stage = 3
      BY <1>2, <1>3, <2>3, CallIs, Sizes DEF BootCall, MapCall
    <2> QED
      BY <1>1, <2>1, <2>2, <2>3
  <1> HIDE DEF c
  <1> QED
    BY <1>1, <1>4, StartKeeps DEF c

LEMMA StartCallKeeps ==
    ASSUME IInv, NEW c \in Calls, StartCall(c)
    PROVE  IInv'
  <1>1. /\ c \in Call /\ c.op \in {"map", "unmap"} /\ c.i = 0 /\ c.count =< VPages
        /\ c.op = "unmap" => \A k \in 0 .. (c.count - 1) :
               DirIndex((c.va + k * PageSize) % AddrSpace) \notin {0, FirstKernelDir}
    BY CallsAssumption DEF DirIndex
  <1>2. Start(c) /\ stage = 5
    BY DEF StartCall
  <1> QED
    BY <1>1, <1>2, StartKeeps

(* A request returns; one of the boot that succeeded has filled its pages. *)
LEMMA ReturnKeeps ==
    ASSUME IInv, TablesOK', AllKept, NEW r \in BOOLEAN, Return(r),
           call.op \in {"map", "unmap"}, r => call.i = call.count
    PROVE  IInv'
  <1> USE InvHolds
  <1>1. /\ call' = Idle /\ ok' = r /\ UNCHANGED <<cr3, tlb, before>>
        /\ stage' = IF stage > 3 THEN stage ELSE IF r THEN stage + 1 ELSE 0
    BY DEF Return
  <1>2. stage \in {1, 2, 3, 5} /\ call.op # "flush" /\ call.op # "none"
    BY DEF CallInv, RestOK
  <1>3. Idle.op = "none" /\ Idle.i = 0 /\ Idle.count = 0
    BY DEF Idle
  <1>4. RestOK'
    BY <1>1, <1>2, IdleIsCall DEF RestOK
  <1>5. CallInv'
    <2>1. cr3' = "kernel" => stage' = 5
      BY <1>1 DEF CallInv
    <2>2. call' = Idle /\ call'.op = "none" /\ call'.i =< call'.count /\ call'.count =< VPages
      BY <1>1, <1>3, Sizes
    <2> QED
      BY <2>1, <2>2 DEF CallInv
  <1>6. TypeOK' => TLBCoherent'
    BY <1>1, <1>2, TLBKept DEF AllKept, NoneLost, TablesOK
  <1>7. BootInv'
    <2>1. ASSUME stage' # 0
          PROVE  stage # 0 /\ IdentityDone' = IdentityDone /\ KernelDone' = KernelDone
      <3>1. CASE stage = 5
        BY <1>1, <3>1 DEF IdentityDone, KernelDone
      <3>2. CASE stage \in 1 .. 3
        <4>1. r /\ stage' = stage + 1 /\ call'.i = 0
          BY <1>1, <1>3, <2>1, <3>2
        <4>2. call.i = BootCall(stage).count
          BY <1>2, <3>2, <4>1 DEF CallInv
        <4>3. KernelPages \in Nat /\ EntryCount \in Nat
          BY VMMAssumption
        <4>4. CASE stage = 1
          BY <4>1, <4>2, <4>3, <4>4 DEF IdentityDone, KernelDone, BootCall, MapCall
        <4>5. CASE stage = 2
          BY <4>1, <4>2, <4>3, <4>5 DEF IdentityDone, KernelDone, BootCall, MapCall
        <4>6. CASE stage = 3
          BY <4>1, <4>2, <4>3, <4>6 DEF IdentityDone, KernelDone, BootCall, MapCall
        <4> QED
          BY <3>2, <4>4, <4>5, <4>6
      <3> QED
        BY <1>2, <3>1, <3>2
    <2> QED
      BY <2>1, BootKept DEF AllKept
  <1> QED
    BY <1>4, <1>5, <1>6, <1>7, InvOf

LEMMA MapFailsKeeps == IInv /\ MapFails => IInv'
  <1> SUFFICES ASSUME IInv, MapFails PROVE IInv'
    OBVIOUS
  <1>1. TablesOK' /\ AllKept
    BY MapFailsEdits DEF IInv
  <1>2. Return(FALSE) /\ call.op = "map"
    BY DEF MapFails
  <1> QED
    BY <1>1, <1>2, ReturnKeeps

LEMMA OthersReturnKeep == IInv /\ (MapReturns \/ UnmapFails \/ UnmapReturns) => IInv'
  <1> SUFFICES ASSUME IInv, MapReturns \/ UnmapFails \/ UnmapReturns PROVE IInv'
    OBVIOUS
  <1>1. UNCHANGED <<directory, tables>>
    BY DEF MapReturns, UnmapFails, UnmapReturns
  <1>2. TablesOK' /\ AllKept
    BY <1>1, Unedited, InvHolds DEF TablesOK, DirectoryInv, NotPresentIsZero
  <1>3. PICK r \in BOOLEAN :
            Return(r) /\ call.op \in {"map", "unmap"} /\ (r => call.i = call.count)
    BY DEF MapReturns, UnmapFails, UnmapReturns
  <1> QED
    BY <1>2, <1>3, ReturnKeeps

LEMMA MapPageKeeps == IInv /\ MapPage => IInv'
  <1> SUFFICES ASSUME IInv, MapPage PROVE IInv'
    OBVIOUS
  <1> USE InvHolds
  <1>1. /\ call.op = "map" /\ call.i < call.count /\ call' = NextPage
        /\ UNCHANGED <<cr3, tlb, stage, ok, before>>
    BY DEF MapPage
  <1>2. /\ call' \in Call
        /\ call'.op = "map" /\ call'.i = call.i + 1 /\ call'.count = call.count
        /\ StartOf(call.va)' = StartOf(call.va) /\ StartOf(call.pa)' = StartOf(call.pa)
    <2>1. call' = [NextPage EXCEPT !.op = "map"]
      BY <1>1 DEF NextPage, TypeOK, Call
    <2> QED
      BY <2>1, NextPageIs
  <1>3. call.i \in Nat /\ call.count \in Nat
    BY DEF TypeOK, Call
  <1>4. PICK q, f : q = PageOf(call.va) /\ f = PageOf(call.pa)
    OBVIOUS
  <1>5. /\ TablesOK' /\ OthersKept(q)
        /\ DirHasTable(DirOf(q)) /\ ~Mapped(q)
        /\ Mapped(q)' /\ FrameOf(q)' = f
    <2>1. PICK va, pa : va = call.va /\ pa = call.pa
      OBVIOUS
    <2> QED
      BY <1>4, <2>1, MapPageEdits DEF IInv
  <1>6. NoneLost
    BY <1>5 DEF OthersKept, NoneLost
  <1>7. RestOK'
    BY <1>1, <1>2 DEF RestOK
  <1>8. CallInv'
    <2>1. /\ call'.op # "none" /\ call'.op \notin {"unmap", "flush"}
          /\ call'.i =< call'.count /\ call'.count =< VPages
      BY <1>1, <1>2, <1>3 DEF CallInv
    <2>2. stage' \notin {0, 4} /\ (cr3' = "kernel" => stage' = 5)
      BY <1>1 DEF CallInv
    <2>3. (stage \in 1 .. 3)' => call'.op = "map" /\ call'.count = BootCall(stage)'.count
              /\ StartOf(call.va)' = BootCall(stage)'.va
              /\ StartOf(call.pa)' = BootCall(stage)'.pa
      BY <1>1, <1>2 DEF CallInv, BootCall
    <2> QED
      BY <2>1, <2>2, <2>3 DEF CallInv
  <1>9. TypeOK' => TLBCoherent'
    BY <1>1, <1>5, <1>6, TLBKept DEF TablesOK
  <1>10. BootInv'
    <2>1. CASE stage \in 1 .. 3
      <3>1. /\ q \in Pages /\ f = BootFrame(q)
            /\ DirOf(q) = IF stage = 1 THEN 0 ELSE FirstKernelDir
            /\ SlotOf(q) = IF stage = 1 THEN IdentityDone ELSE KernelDone
        BY <1>1, <1>4, <2>1, BootPage
      <3>2. /\ IdentityDone' = IF stage = 1 THEN IdentityDone + 1 ELSE IdentityDone
            /\ KernelDone' = IF stage = 1 THEN KernelDone ELSE KernelDone + 1
            /\ IdentityDone \in Nat /\ KernelDone \in Nat
        <4>1. KernelPages \in Nat /\ EntryCount \in Nat
          BY VMMAssumption
        <4>2. CASE stage = 1
          BY <1>1, <1>2, <1>3, <4>1, <4>2 DEF IdentityDone, KernelDone
        <4>3. CASE stage = 2
          BY <1>1, <1>2, <1>3, <4>1, <4>3 DEF IdentityDone, KernelDone
        <4>4. CASE stage = 3
          BY <1>1, <1>2, <1>3, <4>1, <4>4 DEF IdentityDone, KernelDone
        <4> QED
          BY <2>1, <4>2, <4>3, <4>4
      <3>3. ASSUME NEW p \in Pages, BootFilled(p)'
            PROVE  Mapped(p)' /\ FrameOf(p)' = BootFrame(p)
        <4>1. CASE p = q
          BY <1>5, <3>1, <4>1
        <4>2. CASE p # q
          <5>1. \/ DirOf(p) = 0 /\ SlotOf(p) < IdentityDone'
                \/ DirOf(p) = FirstKernelDir /\ SlotOf(p) < KernelDone'
            BY <3>3 DEF BootFilled
          <5>2. DirOf(p) = DirOf(q) => SlotOf(p) # SlotOf(q)
            BY <3>1, <4>2, Slots
          <5>3. SlotOf(p) \in Nat /\ FirstKernelDir # 0
            BY Slots, VMMAssumption
          <5>4. BootFilled(p)
            BY <3>1, <3>2, <5>1, <5>2, <5>3 DEF BootFilled
          <5>5. Mapped(p) /\ FrameOf(p) = BootFrame(p)
            BY <2>1, <5>4 DEF BootInv
          <5> QED
            BY <1>5, <4>2, <5>5 DEF OthersKept
        <4> QED
          BY <4>1, <4>2
      <3> QED
        BY <3>3 DEF BootInv, BootFrame
    <2>2. CASE stage = 5
      <3>1. stage' # 0 => stage # 0 /\ IdentityDone' = IdentityDone /\ KernelDone' = KernelDone
        BY <1>1, <2>2 DEF IdentityDone, KernelDone
      <3> QED
        BY <1>6, <3>1, BootKept DEF NoneLost
    <2> QED
      BY <1>1, <2>1, <2>2 DEF CallInv, RestOK
  <1> QED
    BY <1>5, <1>7, <1>8, <1>9, <1>10, InvOf

LEMMA UnmapPageKeeps == IInv /\ UnmapPage => IInv'
  <1> SUFFICES ASSUME IInv, UnmapPage PROVE IInv'
    OBVIOUS
  <1> USE InvHolds
  <1>1. /\ call.op = "unmap" /\ call.i < call.count
        /\ UNCHANGED <<directory, cr3, tlb, stage, ok, before>>
    BY DEF UnmapPage
  <1>2. call.i \in Nat /\ call.count \in Nat /\ call.va \in Addresses /\ call.pa \in Addresses
    BY DEF TypeOK, Call
  <1>3. call' = [op |-> "flush", va |-> call.va, pa |-> call.pa, count |-> call.count, i |-> call.i]
    BY DEF UnmapPage, TypeOK, Call
  <1>4. /\ call' \in Call /\ call'.op = "flush"
        /\ call'.va = call.va /\ call'.i = call.i /\ call'.count = call.count
    BY <1>2, <1>3, CallIs
  <1>5. PICK q : q = PageOf(call.va)
    OBVIOUS
  <1>6. TablesOK' /\ OthersKept(q) /\ Mapped(q) /\ ~Mapped(q)'
    <2>1. PICK va : va = call.va
      OBVIOUS
    <2> QED
      BY <1>5, <2>1, UnmapPageEdits DEF IInv
  <1>7. stage = 5
    BY <1>1 DEF CallInv, RestOK
  <1>8. RestOK'
    BY <1>1, <1>4 DEF RestOK
  <1>9. CallInv'
    BY <1>1, <1>2, <1>4, <1>7 DEF CallInv, StartOf
  <1>10. TypeOK' => TLBCoherent'
    <2>1. (TypeOK /\ DirectoryInv => (TLBCoherent <=> Coherent))'
      BY CoherentIs, PTL
    <2>2. Coherent /\ DOMAIN tlb \subseteq Pages
      BY CoherentIs DEF IInv, TypeOK
    <2>3. ASSUME NEW p \in DOMAIN tlb, p # q
          PROVE  Active(p)' /\ tlb[p] = ActiveFrame(p)'
      <3>1. Active(p) /\ tlb[p] = ActiveFrame(p) /\ p \in Pages
        BY <1>1, <2>2 DEF Coherent
      <3> QED
        BY <1>1, <1>6, <2>3, <3>1 DEF OthersKept, Active, ActiveFrame, BootFrame
    <2>4. PageOf(call.va)' = q
      BY <1>4, <1>5 DEF PageOf
    <2>5. Coherent'
      BY <1>1, <1>4, <2>3, <2>4 DEF Coherent
    <2> QED
      BY <1>6, <2>1, <2>5 DEF TablesOK
  <1>11. BootInv'
    <2>1. DirOf(q) \notin {0, FirstKernelDir} /\ q \in Pages
      <3>1. call.va = (StartOf(call.va) + call.i * PageSize) % AddrSpace
        BY <1>2, LoopStart DEF StartOf
      <3>2. DirIndex(call.va) \notin {0, FirstKernelDir}
        <4>1. call.i \in 0 .. (call.count - 1)
          BY <1>1, <1>2
        <4>2. DirIndex((StartOf(call.va) + call.i * PageSize) % AddrSpace)
                  \notin {0, FirstKernelDir}
          BY <1>1, <4>1 DEF CallInv
        <4> QED
          BY <3>1, <4>2
      <3> QED
        BY <1>2, <1>5, <3>2, AddressParts
    <2>2. \A p \in Pages : InBoot(p) /\ Mapped(p) => Mapped(p)' /\ FrameOf(p)' = FrameOf(p)
      BY <1>6, <2>1 DEF OthersKept, InBoot
    <2>3. stage' # 0 => stage # 0 /\ IdentityDone' = IdentityDone /\ KernelDone' = KernelDone
      BY <1>1, <1>7 DEF IdentityDone, KernelDone
    <2> QED
      BY <2>2, <2>3, BootKept
  <1> QED
    BY <1>6, <1>8, <1>9, <1>10, <1>11, InvOf

LEMMA FlushTLBKeeps == IInv /\ FlushTLB => IInv'
  <1> SUFFICES ASSUME IInv, FlushTLB PROVE IInv'
    OBVIOUS
  <1> USE InvHolds
  <1>1. /\ call.op = "flush" /\ call' = [NextPage EXCEPT !.op = "unmap"]
        /\ tlb' = [p \in DOMAIN tlb \ {PageOf(call.va)} |-> tlb[p]]
        /\ UNCHANGED <<directory, tables, cr3, stage, ok, before>>
    BY DEF FlushTLB
  <1>2. /\ call' \in Call
        /\ call'.op = "unmap" /\ call'.i = call.i + 1 /\ call'.count = call.count
        /\ StartOf(call.va)' = StartOf(call.va)
    BY <1>1, NextPageIs
  <1>3. call.i \in Nat /\ call.count \in Nat /\ call.i < call.count
    BY <1>1 DEF TypeOK, Call, CallInv
  <1>4. TablesOK' /\ AllKept
    BY <1>1, Unedited DEF TablesOK, DirectoryInv, NotPresentIsZero
  <1>5. stage = 5
    BY <1>1 DEF CallInv, RestOK
  <1>6. RestOK'
    BY <1>1, <1>2 DEF RestOK
  <1>7. CallInv'
    BY <1>1, <1>2, <1>3, <1>5 DEF CallInv
  <1>8. TypeOK' => TLBCoherent'
    <2>1. (TypeOK /\ DirectoryInv => (TLBCoherent <=> Coherent))'
      BY CoherentIs, PTL
    <2>2. Coherent /\ DOMAIN tlb \subseteq Pages
      BY CoherentIs DEF IInv, TypeOK
    <2>3. ASSUME NEW p \in DOMAIN tlb'
          PROVE  Active(p)' /\ tlb'[p] = ActiveFrame(p)'
      <3>1. p \in DOMAIN tlb /\ p # PageOf(call.va) /\ tlb'[p] = tlb[p]
        BY <1>1
      <3>2. Active(p) /\ tlb[p] = ActiveFrame(p) /\ p \in Pages
        BY <2>2, <3>1 DEF Coherent
      <3> QED
        BY <1>1, <1>4, <3>1, <3>2 DEF AllKept, Active, ActiveFrame, BootFrame
    <2>4. Coherent'
      BY <2>3 DEF Coherent
    <2> QED
      BY <1>4, <2>1, <2>4 DEF TablesOK
  <1>9. BootInv'
    <2>1. stage' # 0 => stage # 0 /\ IdentityDone' = IdentityDone /\ KernelDone' = KernelDone
      BY <1>1, <1>5 DEF IdentityDone, KernelDone
    <2> QED
      BY <1>4, <2>1, BootKept DEF AllKept
  <1> QED
    BY <1>4, <1>6, <1>7, <1>8, <1>9, InvOf

LEMMA ReloadKeeps == IInv /\ ReloadPageDirectory => IInv'
  <1> SUFFICES ASSUME IInv, ReloadPageDirectory PROVE IInv'
    OBVIOUS
  <1> USE InvHolds
  <1>1. /\ stage = 4 /\ stage' = 5 /\ cr3' = "kernel" /\ tlb' = << >>
        /\ UNCHANGED <<directory, tables, call, ok, before>>
    BY DEF ReloadPageDirectory
  <1>2. TablesOK' /\ AllKept
    BY <1>1, Unedited DEF TablesOK, DirectoryInv, NotPresentIsZero
  <1>3. RestOK'
    BY <1>1 DEF RestOK
  <1>4. call.op = "none"
    BY <1>1 DEF CallInv
  <1>5. CallInv'
    BY <1>1, <1>4 DEF CallInv
  <1>6. TypeOK' => TLBCoherent'
    BY <1>1 DEF TLBCoherent
  <1>7. BootInv'
    <2>1. stage' # 0 => stage # 0 /\ IdentityDone' = IdentityDone /\ KernelDone' = KernelDone
      BY <1>1 DEF IdentityDone, KernelDone
    <2> QED
      BY <1>2, <2>1, BootKept DEF AllKept
  <1> QED
    BY <1>2, <1>3, <1>5, <1>6, <1>7, InvOf

LEMMA FillTLBKeeps ==
    ASSUME IInv, NEW p \in Pages, FillTLB(p)
    PROVE  IInv'
  <1> USE InvHolds
  <1>1. /\ p \in DOMAIN ActiveWalk
        /\ tlb' = [q \in DOMAIN tlb \cup {p} |-> IF q = p THEN ActiveWalk[p] ELSE tlb[q]]
        /\ UNCHANGED <<directory, tables, cr3, stage, call, ok, before>>
    BY DEF FillTLB
  <1>2. TablesOK' /\ AllKept
    BY <1>1, Unedited DEF TablesOK, DirectoryInv, NotPresentIsZero
  <1>3. Active(p) /\ ActiveWalk[p] = ActiveFrame(p) /\ ActiveWalk[p] \in Pages
    BY <1>1, ActiveWalkIs
  <1>4. RestOK'
    BY <1>1, <1>3 DEF RestOK
  <1>5. CallInv'
    BY <1>1 DEF CallInv, StartOf, BootCall
  <1>6. TypeOK' => TLBCoherent'
    <2>1. (TypeOK /\ DirectoryInv => (TLBCoherent <=> Coherent))'
      BY CoherentIs, PTL
    <2>2. Coherent /\ DOMAIN tlb \subseteq Pages
      BY CoherentIs DEF IInv, TypeOK
    <2>3. \A q \in Pages : (Active(q)' <=> Active(q)) /\ (Active(q) => ActiveFrame(q)' = ActiveFrame(q))
      BY <1>1, <1>2 DEF AllKept, Active, ActiveFrame, BootFrame
    <2>4. ASSUME NEW q \in DOMAIN tlb'
          PROVE  \/ call'.op = "flush" /\ q = PageOf(call.va)'
                 \/ Active(q)' /\ tlb'[q] = ActiveFrame(q)'
      <3>1. CASE q = p
        BY <1>1, <1>3, <2>3, <3>1
      <3>2. CASE q # p
        <4>1. q \in DOMAIN tlb /\ tlb'[q] = tlb[q] /\ q \in Pages
          BY <1>1, <2>2, <3>2
        <4> QED
          BY <1>1, <2>2, <2>3, <4>1 DEF Coherent, PageOf
      <3> QED
        BY <3>1, <3>2
    <2>5. Coherent'
      BY <2>4 DEF Coherent
    <2> QED
      BY <1>2, <2>1, <2>5 DEF TablesOK
  <1>7. BootInv'
    <2>1. stage' # 0 => stage # 0 /\ IdentityDone' = IdentityDone /\ KernelDone' = KernelDone
      BY <1>1 DEF IdentityDone, KernelDone
    <2> QED
      BY <1>2, <2>1, BootKept DEF AllKept
  <1> QED
    BY <1>2, <1>4, <1>5, <1>6, <1>7, InvOf

LEMMA StutterKeeps == IInv /\ UNCHANGED vars => IInv'
  <1> SUFFICES ASSUME IInv, UNCHANGED vars PROVE IInv'
    OBVIOUS
  <1> USE InvHolds
  <1>1. UNCHANGED <<directory, tables, cr3, tlb, stage, call, ok, before>>
    BY DEF vars
  <1>2. TablesOK' /\ AllKept
    BY <1>1, Unedited DEF TablesOK, DirectoryInv, NotPresentIsZero
  <1>3. RestOK'
    BY <1>1 DEF RestOK
  <1>4. CallInv'
    BY <1>1 DEF CallInv, StartOf, BootCall
  <1>5. TypeOK' => TLBCoherent'
    <2>1. Walk' = Walk
      BY <1>1 DEF Walk, MappedPages, IsMapped, EntryOf
    <2> QED
      BY <1>1, <2>1 DEF IInv, TLBCoherent, ActiveWalk
  <1>6. BootInv'
    <2>1. stage' # 0 => stage # 0 /\ IdentityDone' = IdentityDone /\ KernelDone' = KernelDone
      BY <1>1 DEF IdentityDone, KernelDone
    <2> QED
      BY <1>2, <2>1, BootKept DEF AllKept
  <1> QED
    BY <1>2, <1>3, <1>4, <1>5, <1>6, InvOf

(* Every state the program reaches satisfies the inductive invariant. *)
THEOREM Invariance == Spec => []IInv
  <1>1. Init => IInv
    BY InitInv
  <1>2. IInv /\ [Next]_vars => IInv'
    <2> SUFFICES ASSUME IInv, [Next]_vars PROVE IInv'
      OBVIOUS
    <2>1. CASE StartBootCall
      BY <2>1, StartBootCallKeeps
    <2>2. ASSUME NEW c \in Calls, StartCall(c) PROVE IInv'
      BY <2>2, StartCallKeeps
    <2>3. CASE Serve
      BY <2>3, MapPageKeeps, MapFailsKeeps, UnmapPageKeeps, FlushTLBKeeps,
         OthersReturnKeep DEF Serve
    <2>4. CASE ReloadPageDirectory
      BY <2>4, ReloadKeeps
    <2>5. ASSUME NEW p \in Pages, FillTLB(p) PROVE IInv'
      BY <2>5, FillTLBKeeps
    <2>6. CASE UNCHANGED vars
      BY <2>6, StutterKeeps
    <2> QED
      BY <2>1, <2>2, <2>3, <2>4, <2>5, <2>6 DEF Next
  <1> QED
    BY <1>1, <1>2, PTL DEF Spec

(***************************************************************************)
(* The processor never uses a translation that the directory in force no   *)
(* longer holds, however its own fills fall between the steps of a request *)
(* and the switch of directories, and all state keeps its type             *)
(* (VirtualMemoryManager.cpp:78-80, 143-149, 177).                         *)
(***************************************************************************)
THEOREM TLBIsCoherent == Spec => []TLBCoherent
  <1>1. IInv => TLBCoherent
    BY DEF IInv
  <1> QED
    BY <1>1, Invariance, PTL

(***************************************************************************)
(* From the switch of directories on, every page of the boot directory is  *)
(* mapped to the frame it had, whatever was requested before and since     *)
(* (Kernel.cpp:87-116, VirtualMemoryManager.cpp:84-97).                    *)
(***************************************************************************)
THEOREM KernelIsKept == Spec => []KernelStaysMapped
  <1>1. IInv => KernelStaysMapped
    <2> SUFFICES ASSUME IInv, cr3 = "kernel", NEW p \in DOMAIN BootWalk
                 PROVE  p \in MappedPages /\ Walk[p] = BootWalk[p]
      BY DEF KernelStaysMapped
    <2>1. p \in Pages /\ InBoot(p) /\ BootWalk[p] = BootFrame(p)
      BY BootTranslation
    <2>2. IdentityDone = EntryCount /\ KernelDone = EntryCount /\ stage = 5
      BY DEF IInv, CallInv, IdentityDone, KernelDone
    <2>3. BootFilled(p)
      BY <2>1, <2>2, Slots, Sizes DEF BootFilled, InBoot
    <2>4. Mapped(p) /\ FrameOf(p) = BootFrame(p)
      BY <2>1, <2>2, <2>3 DEF IInv, BootInv
    <2> QED
      BY <2>1, <2>4, Translation DEF IInv, TableInv
  <1> QED
    BY <1>1, Invariance, PTL

(***************************************************************************)
(* An entry that is not present is zero in every state, so SetAddress      *)
(* finds no old address under the new one (PageTable.cpp:9-12, 89-92).     *)
(***************************************************************************)
THEOREM ClearedIsZero == Spec => []NotPresentIsZero
  <1>1. IInv => NotPresentIsZero
    BY DEF IInv, TableInv
  <1> QED
    BY <1>1, Invariance, PTL

-----------------------------------------------------------------------------
(* The refinement: a request's loop is one step of AddressSpace. *)

PageAt(x, k) == (x + k) % VPages
PagesFrom(page, n) == {PageAt(page, k) : k \in 0 .. (n - 1)}

LEMMA SamePages ==
    /\ \A x, k : Abstract!PageAt(x, k) = PageAt(x, k) /\ Abstract!FrameAt(x, k) = PageAt(x, k)
    /\ \A page, n : Abstract!PagesFrom(page, n) = PagesFrom(page, n)
  BY DEF Abstract!PageAt, Abstract!FrameAt, Abstract!PagesFrom, PageAt, PagesFrom

LEMMA RangeGrows ==
    ASSUME NEW page, NEW n \in Nat
    PROVE  /\ PagesFrom(page, 0) = {}
           /\ PagesFrom(page, n + 1) = PagesFrom(page, n) \cup {PageAt(page, n)}
           /\ PagesFrom(page, n) = {} => n = 0
  <1>1. 0 .. ((n + 1) - 1) = (0 .. (n - 1)) \cup {n} /\ 0 .. (0 - 1) = {}
    OBVIOUS
  <1>2. n # 0 => 0 \in 0 .. (n - 1)
    OBVIOUS
  <1> QED
    BY <1>1, <1>2 DEF PagesFrom

(* A page tells its place in a range that does not come round to it again. *)
LEMMA PlaceInRange ==
    ASSUME NEW page \in Pages, NEW k \in 0 .. (VPages - 1)
    PROVE  (PageAt(page, k) - page) % VPages = k /\ PageAt(page, k) \in Pages
  <1>1. page \in Int /\ k \in Int /\ VPages \in Nat \ {0}
    BY Sizes DEF Pages
  <1>2. (((page + k) % VPages) - page) % VPages = k % VPages
    BY <1>1, ModOfSum
  <1>3. k % VPages = k
    BY <1>1, SmallMod
  <1>4. (page + k) % VPages \in 0 .. (VPages - 1)
    BY <1>1
  <1> QED
    BY <1>2, <1>3, <1>4 DEF PageAt, Pages

LEMMA NotYet ==
    ASSUME NEW page \in Pages, NEW n \in 0 .. (VPages - 1)
    PROVE  PageAt(page, n) \notin PagesFrom(page, n)
  <1> SUFFICES ASSUME NEW k \in 0 .. (n - 1), PageAt(page, n) = PageAt(page, k)
               PROVE  FALSE
    BY DEF PagesFrom
  <1>1. k \in 0 .. (VPages - 1) /\ k # n
    BY Sizes
  <1> QED
    BY <1>1, PlaceInRange

(* The longest prefix is the one a page outside the set ends. *)
LEMMA PrefixIs ==
    ASSUME NEW S, NEW page, NEW n \in Nat, NEW i \in 0 .. n,
           PagesFrom(page, i) \subseteq S, i < n => PageAt(page, i) \notin S
    PROVE  Abstract!PrefixIn(S, page, n) = i
  <1> DEFINE P == {k \in 0 .. n : PagesFrom(page, k) \subseteq S}
  <1>1. Abstract!PrefixIn(S, page, n) = Abstract!Max(P)
    BY SamePages DEF Abstract!PrefixIn
  <1>2. i \in P
    OBVIOUS
  <1>3. ASSUME NEW k \in P
        PROVE  k =< i
    <2> SUFFICES ASSUME k > i PROVE FALSE
      OBVIOUS
    <2>1. i \in 0 .. (k - 1) /\ i < n
      BY <1>3
    <2>2. PageAt(page, i) \in PagesFrom(page, k)
      BY <2>1 DEF PagesFrom
    <2> QED
      BY <1>3, <2>1, <2>2
  <1>4. \A x, y \in P : (\A z \in P : z =< x) /\ (\A z \in P : z =< y) => x = y
    OBVIOUS
  <1>5. Abstract!Max(P) = i
    <2> HIDE DEF P
    <2> QED
      BY <1>2, <1>3, <1>4 DEF Abstract!Max
  <1> QED
    BY <1>1, <1>5

(* What is asked, and the page the loop has come to. *)
LEMMA AskedIs ==
    TypeOK /\ CallInv /\ call.op # "none" =>
        /\ Asked = [op      |-> IF call.op = "map" THEN "map" ELSE "unmap",
                    page    |-> PageOf(StartOf(call.va)),
                    frame   |-> IF call.op = "map" THEN PageOf(StartOf(call.pa)) ELSE 0,
                    count   |-> call.count,
                    aligned |-> IsAligned(StartOf(call.va))
                                /\ (call.op = "map" => IsAligned(StartOf(call.pa)))]
        /\ Asked.aligned <=> IsAligned(call.va) /\ (call.op = "map" => IsAligned(call.pa))
        /\ Asked.page \in Pages /\ Asked.frame \in Pages
        /\ PageOf(call.va) = PageAt(Asked.page, call.i)
        /\ call.op = "map" => PageOf(call.pa) = PageAt(Asked.frame, call.i)
  <1> SUFFICES ASSUME TypeOK, CallInv, call.op # "none"
               PROVE  /\ Asked = [op      |-> IF call.op = "map" THEN "map" ELSE "unmap",
                                  page    |-> PageOf(StartOf(call.va)),
                                  frame   |-> IF call.op = "map" THEN PageOf(StartOf(call.pa))
                                              ELSE 0,
                                  count   |-> call.count,
                                  aligned |-> IsAligned(StartOf(call.va))
                                              /\ (call.op = "map" => IsAligned(StartOf(call.pa)))]
                      /\ Asked.aligned <=> /\ IsAligned(call.va)
                                           /\ call.op = "map" => IsAligned(call.pa)
                      /\ Asked.page \in Pages /\ Asked.frame \in Pages
                      /\ PageOf(call.va) = PageAt(Asked.page, call.i)
                      /\ call.op = "map" => PageOf(call.pa) = PageAt(Asked.frame, call.i)
    OBVIOUS
  <1>1. call.va \in Addresses /\ call.pa \in Addresses /\ call.i \in Nat
    BY DEF TypeOK, Call
  <1>2. ASSUME NEW a \in Addresses
        PROVE  /\ StartOf(a) \in Addresses /\ PageOf(StartOf(a)) \in Pages
               /\ PageOf(a) = PageAt(PageOf(StartOf(a)), call.i)
               /\ IsAligned(StartOf(a)) <=> IsAligned(a)
    BY <1>1, LoopStart, AddressParts DEF StartOf, PageAt
  <1>3. Asked = [op      |-> IF call.op = "map" THEN "map" ELSE "unmap",
                 page    |-> PageOf(StartOf(call.va)),
                 frame   |-> IF call.op = "map" THEN PageOf(StartOf(call.pa)) ELSE 0,
                 count   |-> call.count,
                 aligned |-> IsAligned(StartOf(call.va))
                             /\ (call.op = "map" => IsAligned(StartOf(call.pa)))]
    BY DEF Asked, StartOf, Back
  <1>4. 0 \in Pages
    BY Sizes DEF Pages
  <1>5. /\ Asked.page = PageOf(StartOf(call.va))
        /\ Asked.frame = IF call.op = "map" THEN PageOf(StartOf(call.pa)) ELSE 0
        /\ Asked.aligned <=> IsAligned(StartOf(call.va))
                             /\ (call.op = "map" => IsAligned(StartOf(call.pa)))
    BY <1>3
  <1> QED
    BY <1>1, <1>2, <1>3, <1>4, <1>5

(* The steps of a loop leave what is asked alone. *)
LEMMA AskedStays ==
    ASSUME IInv, call.op # "none", MapPage \/ UnmapPage \/ FlushTLB
    PROVE  /\ Asked' = Asked /\ call'.op # "none" /\ (call'.op = "map" <=> call.op = "map")
           /\ IF UnmapPage THEN call'.i = call.i /\ call'.op = "flush"
              ELSE call'.i = call.i + 1 /\ call'.op = IF MapPage THEN "map" ELSE "unmap"
  <1> USE InvHolds
  <1>1. /\ call'.op # "none" /\ (call'.op = "map" <=> call.op = "map")
        /\ call'.count = call.count
        /\ StartOf(call.va)' = StartOf(call.va) /\ StartOf(call.pa)' = StartOf(call.pa)
        /\ IF UnmapPage THEN call'.i = call.i /\ call'.op = "flush"
           ELSE call'.i = call.i + 1 /\ call'.op = IF MapPage THEN "map" ELSE "unmap"
    <2>1. CASE MapPage
      <3>1. call.op = "map" /\ call' = NextPage
        BY <2>1 DEF MapPage
      <3>2. call' = [NextPage EXCEPT !.op = "map"]
        BY <3>1 DEF NextPage, TypeOK, Call
      <3>3. ~UnmapPage
        BY <3>1 DEF UnmapPage
      <3> QED
        BY <2>1, <3>1, <3>2, <3>3, NextPageIs
    <2>2. CASE UnmapPage
      <3>1. call.op = "unmap"
        BY <2>2 DEF UnmapPage
      <3>2. call' = [op |-> "flush", va |-> call.va, pa |-> call.pa,
                     count |-> call.count, i |-> call.i]
        BY <2>2 DEF UnmapPage, TypeOK, Call
      <3> QED
        BY <2>2, <3>1, <3>2 DEF StartOf
    <2>3. CASE FlushTLB
      <3>1. call.op = "flush" /\ call' = [NextPage EXCEPT !.op = "unmap"]
        BY <2>3 DEF FlushTLB
      <3>2. ~UnmapPage /\ ~MapPage
        BY <3>1 DEF UnmapPage, MapPage
      <3> QED
        BY <3>1, <3>2, NextPageIs
    <2> QED
      BY <2>1, <2>2, <2>3
  <1>2. Asked' = Asked
    BY <1>1 DEF Asked, StartOf, Back
  <1> QED
    BY <1>1, <1>2

-----------------------------------------------------------------------------
(* RangeInv: how far the loop of a request has come. *)

(* The loop's page is new to the range, and a step adds it to what is done. *)
LEMMA DoneGrows ==
    ASSUME IInv, call.op # "none", call.i < call.count
    PROVE  /\ PageOf(call.va) \in Pages /\ PageOf(call.va) \notin PagesFrom(Asked.page, call.i)
           /\ PagesFrom(Asked.page, call.i + 1)
                  = PagesFrom(Asked.page, call.i) \cup {PageOf(call.va)}
           /\ (PageOf(call.va) - Asked.page) % VPages = call.i
           /\ call.i \in 0 .. (VPages - 1)
  <1> USE InvHolds
  <1>1. call.i \in Nat /\ call.count \in Nat /\ call.count =< VPages
    BY DEF TypeOK, Call, CallInv
  <1>2. call.i \in 0 .. (VPages - 1)
    BY <1>1, Sizes
  <1>3. Asked.page \in Pages /\ PageOf(call.va) = PageAt(Asked.page, call.i)
    BY AskedIs
  <1> QED
    BY <1>1, <1>2, <1>3, RangeGrows, PlaceInRange, NotYet

LEMMA DoneIs ==
    Done = PagesFrom(Asked.page, IF call.op = "flush" THEN call.i + 1 ELSE call.i)
  BY SamePages DEF Done

LEMMA RangeStart ==
    ASSUME IInv, RangeInv, IInv', NEW c \in Call, Start(c), c.op \in {"map", "unmap"}, c.i = 0
    PROVE  RangeInv'
  <1> USE InvHolds
  <1>1. /\ call' = c /\ before' = Walk /\ UNCHANGED <<directory, tables>>
    BY DEF Start
  <1>2. Walk' = Walk
    BY <1>1 DEF Walk, MappedPages, IsMapped, EntryOf
  <1>3. Done' = {}
    <2>1. Done' = PagesFrom(Asked'.page, 0)
      <3>1. (Done = PagesFrom(Asked.page, IF call.op = "flush" THEN call.i + 1 ELSE call.i))'
        BY DoneIs, PTL
      <3> QED
        BY <1>1, <3>1 DEF PagesFrom, PageAt
    <2> QED
      BY <2>1, RangeGrows
  <1>4. Walk = [p \in DOMAIN Walk |-> Walk[p]]
    BY Translation
  <1>5. before' = [p \in DOMAIN before' |-> before'[p]]
    BY <1>1, <1>4
  <1>6. /\ DOMAIN before' \cup Done' = DOMAIN before' /\ DOMAIN before' \ Done' = DOMAIN before'
        /\ \A p : p \notin Done'
    BY <1>3
  <1> QED
    BY <1>1, <1>2, <1>3, <1>5, <1>6 DEF RangeInv

LEMMA RangeMapPage ==
    ASSUME IInv, RangeInv, MapPage, TypeOK', DirectoryInv'
    PROVE  RangeInv'
  <1> USE InvHolds
  <1>1. /\ call.op = "map" /\ call.i < call.count /\ Reaches(call.va, call.pa)
        /\ UNCHANGED before
    BY DEF MapPage
  <1>2. PICK q, f : q = PageOf(call.va) /\ f = PageOf(call.pa)
    OBVIOUS
  <1>3. /\ OthersKept(q) /\ DirHasTable(DirOf(q)) /\ ~Mapped(q)
        /\ Mapped(q)' /\ FrameOf(q)' = f
    <2>1. PICK va, pa : va = call.va /\ pa = call.pa
      OBVIOUS
    <2> QED
      BY <1>2, <2>1, MapPageEdits DEF IInv
  <1>4. /\ Asked' = Asked /\ call'.op = "map" /\ call'.i = call.i + 1
    <2>1. ~UnmapPage
      BY <1>1 DEF UnmapPage
    <2> QED
      BY <1>1, <2>1, AskedStays
  <1>5. Done = PagesFrom(Asked.page, call.i) /\ Done' = PagesFrom(Asked.page, call.i + 1)
    <2>1. (Done = PagesFrom(Asked.page, IF call.op = "flush" THEN call.i + 1 ELSE call.i))'
      BY DoneIs, PTL
    <2>2. Done' = PagesFrom(Asked'.page, call'.i)
      BY <1>4, <2>1 DEF PagesFrom, PageAt
    <2> QED
      BY <1>1, <1>4, <2>2, DoneIs
  <1>6. /\ q \in Pages /\ q \notin Done /\ Done' = Done \cup {q}
        /\ (q - Asked.page) % VPages = call.i
    BY <1>1, <1>2, <1>5, DoneGrows
  <1>7. f = PageAt(Asked.frame, call.i) /\ Asked.aligned
    BY <1>1, <1>2, AskedIs DEF Reaches
  <1>8. /\ Walk = [p \in MappedPages |-> FrameOf(p)] /\ MappedPages \subseteq Pages
        /\ \A p \in Pages : p \in MappedPages <=> Mapped(p)
    BY Translation
  <1>9. /\ Walk' = [p \in MappedPages' |-> FrameOf(p)'] /\ MappedPages' \subseteq Pages
        /\ \A p \in Pages : p \in MappedPages' <=> Mapped(p)'
    BY TranslationAfter
  <1>10. MappedPages' = MappedPages \cup {q} /\ q \notin MappedPages
    BY <1>3, <1>6, <1>8, <1>9 DEF OthersKept
  <1>11. MappedPages = DOMAIN before \cup Done
    <2>1. DOMAIN Walk = DOMAIN before \cup Done
      BY <1>1 DEF RangeInv
    <2> QED
      BY <1>8, <2>1
  <1>12. \A p \in MappedPages : /\ p # q /\ FrameOf(p)' = FrameOf(p)
                               /\ FrameOf(p) = IF p \in Done
                                               THEN PageAt(Asked.frame, (p - Asked.page) % VPages)
                                               ELSE before[p]
    <2>1. \A p \in MappedPages : Walk[p] = IF p \in Done
                                          THEN PageAt(Asked.frame, (p - Asked.page) % VPages)
                                          ELSE before[p]
      BY <1>1, <1>11, SamePages DEF RangeInv
    <2>2. \A p \in MappedPages : Walk[p] = FrameOf(p) /\ p \in Pages /\ Mapped(p)
      BY <1>8
    <2> QED
      BY <1>3, <1>10, <2>1, <2>2 DEF OthersKept
  <1>13. Walk' = [p \in DOMAIN before \cup Done' |->
                    IF p \in Done'
                    THEN PageAt(Asked.frame, (p - Asked.page) % VPages)
                    ELSE before[p]]
    <2>1. MappedPages' = DOMAIN before \cup Done'
      BY <1>6, <1>10, <1>11
    <2>2. ASSUME NEW p \in MappedPages'
          PROVE  FrameOf(p)' = IF p \in Done'
                               THEN PageAt(Asked.frame, (p - Asked.page) % VPages)
                               ELSE before[p]
      <3>1. CASE p = q
        BY <1>3, <1>6, <1>7, <3>1
      <3>2. CASE p # q
        <4>1. p \in MappedPages /\ (p \in Done' <=> p \in Done)
          BY <1>6, <1>10, <2>2, <3>2
        <4> QED
          BY <1>12, <4>1
      <3> QED
        BY <3>1, <3>2
    <2> HIDE <1>12
    <2> QED
      BY <1>9, <2>1, <2>2
  <1>14. Done' \subseteq {p \in Pages : DirHasTable(DirOf(p))} \ DOMAIN before
    BY <1>1, <1>3, <1>6, <1>10, <1>11 DEF RangeInv
  <1> QED
    BY <1>1, <1>4, <1>7, <1>13, <1>14, SamePages DEF RangeInv

LEMMA RangeUnmapPage ==
    ASSUME IInv, RangeInv, UnmapPage, TypeOK', DirectoryInv'
    PROVE  RangeInv'
  <1> USE InvHolds
  <1>1. /\ call.op = "unmap" /\ call.i < call.count /\ Unmappable(call.va)
        /\ UNCHANGED before
    BY DEF UnmapPage
  <1>2. PICK q : q = PageOf(call.va)
    OBVIOUS
  <1>3. OthersKept(q) /\ Mapped(q) /\ ~Mapped(q)'
    <2>1. PICK va : va = call.va
      OBVIOUS
    <2> QED
      BY <1>2, <2>1, UnmapPageEdits DEF IInv
  <1>4. /\ Asked' = Asked /\ call'.op = "flush" /\ call'.i = call.i
    BY <1>1, AskedStays
  <1>5. Done = PagesFrom(Asked.page, call.i) /\ Done' = PagesFrom(Asked.page, call.i + 1)
    <2>1. (Done = PagesFrom(Asked.page, IF call.op = "flush" THEN call.i + 1 ELSE call.i))'
      BY DoneIs, PTL
    <2>2. Done' = PagesFrom(Asked'.page, call'.i + 1)
      BY <1>4, <2>1 DEF PagesFrom, PageAt
    <2> QED
      BY <1>1, <1>4, <2>2, DoneIs
  <1>6. q \in Pages /\ q \notin Done /\ Done' = Done \cup {q}
    BY <1>1, <1>2, <1>5, DoneGrows
  <1>7. Asked.aligned
    BY <1>1, AskedIs DEF Unmappable
  <1>8. /\ Walk = [p \in MappedPages |-> FrameOf(p)] /\ MappedPages \subseteq Pages
        /\ \A p \in Pages : p \in MappedPages <=> Mapped(p)
    BY Translation
  <1>9. /\ Walk' = [p \in MappedPages' |-> FrameOf(p)'] /\ MappedPages' \subseteq Pages
        /\ \A p \in Pages : p \in MappedPages' <=> Mapped(p)'
    BY TranslationAfter
  <1>10. MappedPages' = MappedPages \ {q} /\ q \in MappedPages
    BY <1>3, <1>6, <1>8, <1>9 DEF OthersKept
  <1>11. /\ MappedPages = DOMAIN before \ Done /\ Done \subseteq DOMAIN before
         /\ \A p \in MappedPages : FrameOf(p) = before[p]
    <2>1. Walk = [p \in DOMAIN before \ Done |-> before[p]] /\ Done \subseteq DOMAIN before
      BY <1>1 DEF RangeInv
    <2>2. DOMAIN Walk = DOMAIN before \ Done /\ DOMAIN Walk = MappedPages
      BY <1>8, <2>1
    <2>3. \A p \in MappedPages : Walk[p] = before[p]
      BY <2>1, <2>2
    <2>4. \A p \in MappedPages : Walk[p] = FrameOf(p)
      BY <1>8
    <2> QED
      BY <2>1, <2>2, <2>3, <2>4
  <1>12. Walk' = [p \in DOMAIN before \ Done' |-> before[p]]
    <2>1. MappedPages' = DOMAIN before \ Done'
      BY <1>6, <1>10, <1>11
    <2>2. \A p \in MappedPages' : FrameOf(p)' = before[p]
      BY <1>3, <1>8, <1>10, <1>11 DEF OthersKept
    <2> QED
      BY <1>9, <2>1, <2>2
  <1>13. Done' \subseteq DOMAIN before
    BY <1>6, <1>10, <1>11
  <1> QED
    BY <1>1, <1>4, <1>7, <1>12, <1>13 DEF RangeInv

LEMMA RangeFlush ==
    ASSUME IInv, RangeInv, FlushTLB
    PROVE  RangeInv'
  <1> USE InvHolds
  <1>1. /\ call.op = "flush" /\ UNCHANGED <<directory, tables, before>>
    BY DEF FlushTLB
  <1>2. Walk' = Walk
    BY <1>1 DEF Walk, MappedPages, IsMapped, EntryOf
  <1>3. Asked' = Asked /\ call'.op = "unmap" /\ call'.i = call.i + 1
    <2>1. ~UnmapPage /\ ~MapPage
      BY <1>1 DEF UnmapPage, MapPage
    <2> QED
      BY <1>1, <2>1, AskedStays
  <1>4. Done' = Done
    <2>1. (Done = PagesFrom(Asked.page, IF call.op = "flush" THEN call.i + 1 ELSE call.i))'
      BY DoneIs, PTL
    <2>2. Done' = PagesFrom(Asked'.page, call'.i)
      BY <1>3, <2>1 DEF PagesFrom, PageAt
    <2> QED
      BY <1>1, <1>3, <2>2, DoneIs
  <1> QED
    BY <1>1, <1>2, <1>3, <1>4 DEF RangeInv

(* Any other step that leaves the translation alone. *)
LEMMA RangeKept ==
    ASSUME RangeInv, UNCHANGED <<directory, tables, before>>, call' = call \/ call'.op = "none"
    PROVE  RangeInv'
  <1>1. Walk' = Walk
    BY DEF Walk, MappedPages, IsMapped, EntryOf
  <1>2. CASE call' = call
    <2>1. Asked' = Asked
      BY <1>2 DEF Asked
    <2>2. Done' = Done
      BY <1>2, <2>1, SamePages DEF Done, PagesFrom, PageAt
    <2> QED
      BY <1>1, <1>2, <2>1, <2>2 DEF RangeInv
  <1>3. CASE call'.op = "none"
    BY <1>3 DEF RangeInv
  <1> QED
    BY <1>2, <1>3

LEMMA ReturnEnds ==
    ASSUME RangeInv, UNCHANGED before, call'.op = "none"
    PROVE  RangeInv'
  BY DEF RangeInv

(* In every state the translation is what the request found, edited on the *)
(* pages its loop has passed and on no other.                              *)
THEOREM LoopsKeepTheirPlace == Spec => [](IInv /\ RangeInv)
  <1>1. Init => RangeInv
    BY DEF Init, RangeInv, Idle
  <1>2. IInv /\ IInv' /\ RangeInv /\ [Next]_vars => RangeInv'
    <2> SUFFICES ASSUME IInv, IInv', RangeInv, [Next]_vars PROVE RangeInv'
      OBVIOUS
    <2> USE InvHolds
    <2>1. TypeOK' /\ DirectoryInv'
      BY DEF IInv, TableInv
    <2>2. Idle.op = "none"
      BY DEF Idle
    <2>3. CASE StartBootCall
      <3> DEFINE c == BootCall(stage)
      <3>1. Start(c) /\ c.op = "map" /\ c.i = 0
        BY <2>3 DEF StartBootCall, BootCall, MapCall
      <3>2. c \in Call
        <4>1. call' = c /\ call' \in Call
          BY <2>1, <3>1 DEF Start, TypeOK
        <4> QED
          BY <4>1
      <3> HIDE DEF c
      <3> QED
        BY <3>1, <3>2, RangeStart
    <2>4. ASSUME NEW c \in Calls, StartCall(c) PROVE RangeInv'
      BY <2>4, RangeStart, CallsAssumption DEF StartCall
    <2>5. CASE MapPage
      BY <2>1, <2>5, RangeMapPage
    <2>6. CASE UnmapPage
      BY <2>1, <2>6, RangeUnmapPage
    <2>7. CASE FlushTLB
      BY <2>7, RangeFlush
    <2>8. CASE MapFails \/ MapReturns \/ UnmapFails \/ UnmapReturns
      BY <2>2, <2>8, ReturnEnds DEF MapFails, MapReturns, UnmapFails, UnmapReturns, Return
    <2>9. CASE ReloadPageDirectory
      BY <2>9, RangeKept DEF ReloadPageDirectory
    <2>10. ASSUME NEW p \in Pages, FillTLB(p) PROVE RangeInv'
      BY <2>10, RangeKept DEF FillTLB
    <2>11. CASE UNCHANGED vars
      BY <2>11, RangeKept DEF vars
    <2> QED
      BY <2>3, <2>4, <2>5, <2>6, <2>7, <2>8, <2>9, <2>10, <2>11 DEF Next, Serve
  <1> QED
    BY <1>1, <1>2, Invariance, PTL DEF Spec

-----------------------------------------------------------------------------
(* Each action as a step of AddressSpace. *)

Window == {p \in Pages : HasTable(p * PageSize)}

LEMMA WindowIs == Window = {p \in Pages : DirHasTable(DirOf(p))}
  <1>1. ASSUME NEW p \in Pages
        PROVE  HasTable(p * PageSize) <=> DirHasTable(DirOf(p))
    BY PageAddress, AddressParts DEF HasTable, DirHasTable
  <1> QED
    BY <1>1 DEF Window

LEMMA AbstractStart ==
    ASSUME IInv, IInv', NEW c \in Call, Start(c), c.op \in {"map", "unmap"}
    PROVE  Abstract!Ask
  <1> USE InvHolds
  <1>1. /\ call.op = "none" /\ call' = c /\ before' = Walk /\ ok' = ok
    BY DEF Start, Idle
  <1>2. Asked = [op |-> "none"]
    BY <1>1 DEF Asked
  <1>3. Asked' \in [op : {"map", "unmap"}, page : 0 .. (VPages - 1),
                    frame : 0 .. (VPages - 1), count : 0 .. VPages, aligned : BOOLEAN]
    <2>1. call'.va \in Addresses /\ call'.pa \in Addresses /\ call'.count \in 0 .. VPages
          /\ call'.i \in Nat
      <3>1. TypeOK' /\ CallInv'
        BY DEF IInv, TableInv
      <3>2. call'.count =< VPages /\ VPages \in Nat
        BY <3>1, Sizes DEF CallInv
      <3> QED
        BY <3>1, <3>2 DEF TypeOK, Call
    <2>2. ASSUME NEW a \in Addresses
          PROVE  PageOf((a - call'.i * PageSize) % AddrSpace) \in 0 .. (VPages - 1)
      BY <2>1, LoopStart, AddressParts DEF Back, Pages
    <2>3. 0 \in 0 .. (VPages - 1)
      BY Sizes
    <2> DEFINE m == IF call'.op = "map" THEN "map" ELSE "unmap"
               p == PageOf((call'.va - call'.i * PageSize) % AddrSpace)
               g == PageOf((call'.pa - call'.i * PageSize) % AddrSpace)
               f == IF call'.op = "map" THEN g ELSE 0
               al == IsAligned((call'.va - call'.i * PageSize) % AddrSpace)
                     /\ (call'.op = "map" => IsAligned((call'.pa - call'.i * PageSize) % AddrSpace))
    <2>4. m \in {"map", "unmap"} /\ p \in 0 .. (VPages - 1) /\ f \in 0 .. (VPages - 1)
      BY <2>1, <2>2, <2>3
    <2>5. al \in BOOLEAN
      OBVIOUS
    <2>6. Asked' = [op |-> m, page |-> p, frame |-> f, count |-> call'.count, aligned |-> al]
      BY <1>1 DEF Asked
    <2> HIDE DEF m, p, g, f, al
    <2> QED
      BY <2>1, <2>4, <2>5, <2>6
  <1>4. (IF call.op = "none" THEN Walk ELSE before)' = IF call.op = "none" THEN Walk ELSE before
    BY <1>1
  <1> QED
    BY <1>1, <1>2, <1>3, <1>4 DEF Abstract!Ask, Abstract!NoRequest, Abstract!Request

LEMMA AbstractStutter ==
    ASSUME IInv, \/ MapPage \/ UnmapPage \/ FlushTLB
                 \/ UNCHANGED <<directory, tables, before, call, ok>>
    PROVE  UNCHANGED Abstract!vars
  <1>1. CASE MapPage \/ UnmapPage \/ FlushTLB
    <2>1. call.op # "none" /\ UNCHANGED <<before, ok>>
      BY <1>1 DEF MapPage, UnmapPage, FlushTLB
    <2>2. Asked' = Asked /\ call'.op # "none"
      BY <1>1, <2>1, AskedStays
    <2> QED
      BY <2>1, <2>2 DEF Abstract!vars
  <1>2. CASE UNCHANGED <<directory, tables, before, call, ok>>
    <2>1. Walk' = Walk
      BY <1>2 DEF Walk, MappedPages, IsMapped, EntryOf
    <2>2. Asked' = Asked
      BY <1>2 DEF Asked
    <2> QED
      BY <1>2, <2>1, <2>2 DEF Abstract!vars
  <1> QED
    BY <1>1, <1>2

(* A map request that ends, at its last page or at one it cannot serve. *)
LEMMA AbstractMap ==
    ASSUME IInv, RangeInv, call.op = "map", NEW r \in BOOLEAN, Return(r), AllKept,
           TypeOK', DirectoryInv',
           IF r THEN call.i = call.count
           ELSE /\ call.i < call.count
                /\ Reaches(call.va, call.pa) => Mapped(PageOf(call.va))
    PROVE  Abstract!MapRange
  <1> USE InvHolds
  <1> DEFINE page == Asked.page
             n == call.count
             i == call.i
             q == PageOf(call.va)
             refused == n > 0 /\ ~Asked.aligned
  <1>1. /\ call' = Idle /\ ok' = r /\ UNCHANGED before
        /\ n \in Nat /\ i \in 0 .. n /\ call.va \in Addresses
    BY DEF Return, TypeOK, Call, CallInv
  <1>2. /\ Asked.op = "map" /\ Asked.count = n /\ page \in Pages
        /\ Asked.aligned <=> IsAligned(call.va) /\ IsAligned(call.pa)
        /\ q = PageAt(page, i)
    BY AskedIs
  <1>3. /\ call'.op = "none" /\ Asked' = [op |-> "none"]
    BY <1>1 DEF Idle, Asked
  <1>4. Walk' = Walk
    BY Translation, TranslationAfter DEF AllKept
  <1>5. Done = PagesFrom(page, i)
    BY DoneIs
  <1>6. /\ Done \subseteq Window \ DOMAIN before
        /\ Walk = [p \in DOMAIN before \cup Done |->
                      IF p \in Done THEN PageAt(Asked.frame, (p - page) % VPages) ELSE before[p]]
        /\ before = [p \in DOMAIN before |-> before[p]]
        /\ Done # {} => Asked.aligned
    BY SamePages, WindowIs DEF RangeInv
  <1>7. CASE refused
    <2>1. i = 0 /\ Done = {}
      <3>1. Done = {}
        BY <1>6, <1>7
      <3>2. PagesFrom(page, i) = {} /\ i \in Nat
        BY <1>1, <1>5, <3>1
      <3> HIDE DEF i, page
      <3> QED
        BY <3>1, <3>2, RangeGrows
    <2>2. Walk = before /\ ~r
      BY <1>1, <1>6, <1>7, <2>1
    <2> QED
      BY <1>1, <1>2, <1>3, <1>4, <1>7, <2>2
      DEF Abstract!MapRange, Abstract!Refused, Abstract!NoRequest
  <1>8. CASE ~refused
    <2>1. i < n => PageAt(page, i) \notin Window \ DOMAIN before
      <3> SUFFICES ASSUME i < n, q \in Window, q \notin DOMAIN before
                   PROVE  FALSE
        BY <1>2
      <3>1. Asked.aligned /\ ~r
        BY <1>1, <1>8
      <3>2. HasTable(call.va)
        BY <1>1, WindowIs, PageView
      <3>3. Mapped(q) /\ q \in Pages
        BY <1>1, <1>2, <3>1, <3>2, AddressParts DEF Reaches
      <3>4. q \in DOMAIN before \cup Done
        <4>1. DOMAIN Walk = DOMAIN before \cup Done
          BY <1>6
        <4> QED
          BY <3>3, <4>1, Translation
      <3>5. q \notin PagesFrom(page, i)
        BY DoneGrows
      <3> QED
        BY <1>5, <3>4, <3>5
    <2>2. Abstract!PrefixIn(Window \ DOMAIN before, page, n) = i
      <3> HIDE DEF i, n, page
      <3> QED
        BY <1>1, <1>5, <1>6, <2>1, PrefixIs
    <2>3. Abstract!MapLength(before, page, n) = i
      BY <2>2 DEF Abstract!MapLength, Window
    <2>4. Abstract!AfterMap(before, page, Asked.frame, n) = Walk
      BY <1>5, <1>6, <2>3, SamePages DEF Abstract!AfterMap
    <2>5. r = (i = n)
      BY <1>1
    <2> QED
      BY <1>1, <1>2, <1>3, <1>4, <1>8, <2>3, <2>4, <2>5
      DEF Abstract!MapRange, Abstract!Refused, Abstract!NoRequest
  <1> QED
    BY <1>7, <1>8

(* The same for a request to unmap. *)
LEMMA AbstractUnmap ==
    ASSUME IInv, RangeInv, call.op = "unmap", NEW r \in BOOLEAN, Return(r), AllKept,
           TypeOK', DirectoryInv',
           IF r THEN call.i = call.count ELSE call.i < call.count /\ ~Unmappable(call.va)
    PROVE  Abstract!UnmapRange
  <1> USE InvHolds
  <1> DEFINE page == Asked.page
             n == call.count
             i == call.i
             q == PageOf(call.va)
             refused == n > 0 /\ ~Asked.aligned
  <1>1. /\ call' = Idle /\ ok' = r /\ UNCHANGED before
        /\ n \in Nat /\ i \in 0 .. n /\ call.va \in Addresses
    BY DEF Return, TypeOK, Call, CallInv
  <1>2. /\ Asked.op = "unmap" /\ Asked.count = n /\ page \in Pages
        /\ Asked.aligned <=> IsAligned(call.va)
        /\ q = PageAt(page, i)
    BY AskedIs
  <1>3. /\ call'.op = "none" /\ Asked' = [op |-> "none"]
    BY <1>1 DEF Idle, Asked
  <1>4. Walk' = Walk
    BY Translation, TranslationAfter DEF AllKept
  <1>5. Done = PagesFrom(page, i)
    BY DoneIs
  <1>6. /\ Done \subseteq DOMAIN before
        /\ Walk = [p \in DOMAIN before \ Done |-> before[p]]
        /\ before = [p \in DOMAIN before |-> before[p]]
        /\ Done # {} => Asked.aligned
    BY DEF RangeInv
  <1>7. CASE refused
    <2>1. i = 0 /\ Done = {}
      <3>1. Done = {}
        BY <1>6, <1>7
      <3>2. PagesFrom(page, i) = {} /\ i \in Nat
        BY <1>1, <1>5, <3>1
      <3> HIDE DEF i, page
      <3> QED
        BY <3>1, <3>2, RangeGrows
    <2>2. Walk = before /\ ~r
      BY <1>1, <1>6, <1>7, <2>1
    <2> QED
      BY <1>1, <1>2, <1>3, <1>4, <1>7, <2>2
      DEF Abstract!UnmapRange, Abstract!Refused, Abstract!NoRequest
  <1>8. CASE ~refused
    <2>1. i < n => PageAt(page, i) \notin DOMAIN before
      <3> SUFFICES ASSUME i < n, q \in DOMAIN before
                   PROVE  FALSE
        BY <1>2
      <3>1. Asked.aligned /\ ~r
        BY <1>1, <1>8
      <3>2. q \notin PagesFrom(page, i)
        BY DoneGrows
      <3>3. q \in DOMAIN Walk
        <4>1. DOMAIN Walk = DOMAIN before \ Done
          BY <1>6
        <4> QED
          BY <1>5, <3>2, <4>1
      <3>4. q \in MappedPages /\ q \in Pages /\ Mapped(q)
        BY <3>3, Translation
      <3>5. IsMapped(call.va) /\ HasTable(call.va)
        BY <1>1, <3>4, PageView DEF Mapped
      <3> QED
        BY <1>2, <3>1, <3>5 DEF Unmappable
    <2>2. Abstract!PrefixIn(DOMAIN before, page, n) = i
      <3> HIDE DEF i, n, page
      <3> QED
        BY <1>1, <1>5, <1>6, <2>1, PrefixIs
    <2>3. Abstract!UnmapLength(before, page, n) = i
      BY <2>2 DEF Abstract!UnmapLength
    <2>4. Abstract!AfterUnmap(before, page, n) = Walk
      BY <1>5, <1>6, <2>3, SamePages DEF Abstract!AfterUnmap, Abstract!Restrict
    <2>5. r = (i = n)
      BY <1>1
    <2> QED
      BY <1>1, <1>2, <1>3, <1>4, <1>8, <2>3, <2>4, <2>5
      DEF Abstract!UnmapRange, Abstract!Refused, Abstract!NoRequest
  <1> QED
    BY <1>7, <1>8

(***************************************************************************)
(* The page tables implement AddressSpace, but for its fairness: whatever  *)
(* a request's loop does on the way, the translation it leaves behind and  *)
(* the answer it gives are those of one step, on the longest prefix of the *)
(* range that can be served (VirtualMemoryManager.cpp:27-152).             *)
(***************************************************************************)
THEOREM ImplementsSteps == Spec => Abstract!Init /\ [][Abstract!Next]_(Abstract!vars)
  <1>1. Init => Abstract!Init
    <2> SUFFICES ASSUME Init PROVE Abstract!Init
      OBVIOUS
    <2>1. TypeOK /\ DirectoryInv /\ call.op = "none" /\ ok = TRUE
      BY InitInv DEF IInv, TableInv, Init, Idle
    <2>2. \A p \in Pages : ~Mapped(p)
      BY Slots DEF Mapped, PageEntry, Init, ClearedEntry
    <2>3. Walk = << >>
      <3>1. MappedPages = {}
        BY <2>1, <2>2, Translation
      <3> QED
        BY <2>1, <3>1, Translation
    <2>4. Asked = [op |-> "none"]
      BY <2>1 DEF Asked
    <2> QED
      BY <2>1, <2>3, <2>4 DEF Abstract!Init, Abstract!NoRequest
  <1>2. IInv /\ RangeInv /\ IInv' /\ [Next]_vars => [Abstract!Next]_(Abstract!vars)
    <2> SUFFICES ASSUME IInv, RangeInv, IInv', [Next]_vars
                 PROVE  Abstract!Next \/ UNCHANGED Abstract!vars
      OBVIOUS
    <2> USE InvHolds
    <2>1. TypeOK' /\ DirectoryInv'
      BY DEF IInv, TableInv
    <2>2. CASE StartBootCall
      <3> DEFINE c == BootCall(stage)
      <3>1. Start(c) /\ c.op = "map"
        BY <2>2 DEF StartBootCall, BootCall, MapCall
      <3>2. c \in Call
        <4>1. call' = c /\ call' \in Call
          BY <2>1, <3>1 DEF Start, TypeOK
        <4> QED
          BY <4>1
      <3> HIDE DEF c
      <3> QED
        BY <3>1, <3>2, AbstractStart DEF Abstract!Next
    <2>3. ASSUME NEW c \in Calls, StartCall(c)
          PROVE  Abstract!Next
      BY <2>3, AbstractStart, CallsAssumption DEF StartCall, Abstract!Next
    <2>4. CASE MapPage \/ UnmapPage \/ FlushTLB
      BY <2>4, AbstractStutter
    <2>5. CASE MapFails
      <3>1. call.op = "map" /\ call.i < call.count /\ Return(FALSE)
        BY <2>5 DEF MapFails
      <3>2. Reaches(call.va, call.pa) => Mapped(PageOf(call.va))
        <4> SUFFICES ASSUME Reaches(call.va, call.pa) PROVE Mapped(PageOf(call.va))
          OBVIOUS
        <4>1. EntryOf(WithTable(call.va), call.va).present /\ HasTable(call.va)
              /\ call.va \in Addresses
          BY <2>5 DEF MapFails, Reaches, TypeOK, Call
        <4> QED
          BY <4>1, PageView DEF Mapped
      <3>3. AllKept
        BY <2>5, MapFailsEdits DEF IInv
      <3> QED
        BY <2>1, <3>1, <3>2, <3>3, AbstractMap DEF Abstract!Next
    <2>6. CASE MapReturns
      <3>1. call.op = "map" /\ call.i = call.count /\ Return(TRUE) /\ AllKept
        BY <2>6, Unedited DEF MapReturns
      <3> QED
        BY <2>1, <3>1, AbstractMap DEF Abstract!Next
    <2>7. CASE UnmapFails
      <3>1. /\ call.op = "unmap" /\ call.i < call.count /\ ~Unmappable(call.va)
            /\ Return(FALSE) /\ AllKept
        BY <2>7, Unedited DEF UnmapFails
      <3> QED
        BY <2>1, <3>1, AbstractUnmap DEF Abstract!Next
    <2>8. CASE UnmapReturns
      <3>1. call.op = "unmap" /\ call.i = call.count /\ Return(TRUE) /\ AllKept
        BY <2>8, Unedited DEF UnmapReturns
      <3> QED
        BY <2>1, <3>1, AbstractUnmap DEF Abstract!Next
    <2>9. CASE ReloadPageDirectory
      BY <2>9, AbstractStutter DEF ReloadPageDirectory
    <2>10. ASSUME NEW p \in Pages, FillTLB(p)
           PROVE  UNCHANGED Abstract!vars
      BY <2>10, AbstractStutter DEF FillTLB
    <2>11. CASE UNCHANGED vars
      BY <2>11, AbstractStutter DEF vars
    <2> QED
      BY <2>2, <2>3, <2>4, <2>5, <2>6, <2>7, <2>8, <2>9, <2>10, <2>11 DEF Next, Serve
  <1> QED
    BY <1>1, <1>2, LoopsKeepTheirPlace, Invariance, PTL DEF Spec
=============================================================================
