-------------------- MODULE PhysicalMemoryManager_proofs --------------------
(***************************************************************************)
(* Proofs about the physical page allocator for every bitmap size, page    *)
(* size, memory map and sequence of requests that the assumptions allow.   *)
(***************************************************************************)
EXTENDS PhysicalMemoryManager, BitmapScan, Bitmap_proofs

(* What the search promises a caller (SearchResult, in the map's terms). *)
LEMMA FindUnsetBitsResult ==
    ASSUME NEW set \in SUBSET Positions, NEW n \in Nat \ {0},
           FindUnsetBits(set, n) # -1
    PROVE  /\ FindUnsetBits(set, n) \in Positions
           /\ Span(FindUnsetBits(set, n), n) \cap set = {}
           /\ ~InMap(FindUnsetBits(set, n), n) => Fits(set, n) = {}
  <1>1. FindUnsetBits(set, n) = SearchIn(TSize, set, n) /\ Fits(set, n) = FitsIn(TSize, set, n)
    BY DEF FindUnsetBits, Fits, Tails, Positions, Span, InMap, SearchIn, FitsIn, TailsIn
  <1> QED
    BY <1>1, SearchResult, BitmapAssumption DEF Positions, Span, InMap

(* The address of a page of the map does not wrap, gives the page back,    *)
(* and is the failure value 0 for page 0 only.                             *)
LEMMA PageAddress ==
    ASSUME NEW p \in Positions
    PROVE  /\ p * PageSize \in 0 .. (AddrSpace - 1)
           /\ (p * PageSize) % AddrSpace = p * PageSize
           /\ (p * PageSize) \div PageSize = p
           /\ p # 0 => p * PageSize # 0
  <1> USE SizeAssumption, BitmapAssumption DEF Positions
  <1>1. p \in Nat /\ p + 1 =< TSize
    OBVIOUS
  <1>2. (p + 1) * PageSize =< TSize * PageSize
    BY <1>1
  <1>3. p * PageSize + PageSize =< AddrSpace
    BY <1>1, <1>2
  <1>4. p * PageSize \in Nat
    BY <1>1
  <1>5. p * PageSize \in 0 .. (AddrSpace - 1)
    BY <1>3, <1>4
  <1>6. (p * PageSize) % AddrSpace = p * PageSize
    BY <1>5
  <1>7. (p * PageSize) \div PageSize = p
    BY <1>1
  <1>8. p # 0 => p * PageSize # 0
    BY <1>1
  <1> QED
    BY <1>5, <1>6, <1>7, <1>8

(* Every memory map begins at 0, so m_StartAddress is 0. *)
LEMMA StartIsZero ==
    ASSUME NEW in \in BootInfos
    PROVE  StartAddress(in) = 0
  <1> DEFINE Bases == {r.base : r \in in.regions}
  <1>1. Bases \in SUBSET Nat /\ 0 \in Bases
    BY BootAssumption DEF BootInfo, Region
  <1>2. Min(Bases) = 0
    <2> HIDE DEF Bases
    <2> QED
      BY <1>1, MinIs
  <1> QED
    BY <1>2, SizeAssumption DEF StartAddress

(* The boot sequence sets bits of the map only, and the DMA zone's all.    *)
LEMMA BootBitmapBounds ==
    ASSUME NEW in \in BootInfos
    PROVE  /\ BootBitmap(0, in) \subseteq Positions
           /\ 0 .. (DmaPages - 1) \subseteq BootBitmap(0, in)
  <1> USE BitmapAssumption, SizeAssumption
  <1>1. InitFreeMemory(0, in) \subseteq Positions
    BY DEF InitFreeMemory, SetAll
  <1>2. ASSUME NEW set \in SUBSET Positions, NEW s \in Nat, NEW n \in Nat
        PROVE  SetBits(set, s, n) \in SUBSET Positions /\ set \subseteq SetBits(set, s, n)
    BY <1>2 DEF SetBits, InMap, Span, Positions
  <1>3. in \in BootInfo
    BY BootAssumption
  <1>4. ASSUME NEW set \in SUBSET Positions, NEW a \in Nat, NEW n \in Nat
        PROVE  ReservePages(set, 0, a, n) \in SUBSET Positions /\ set \subseteq ReservePages(set, 0, a, n)
    <2>1. AddressToPageNumber(0, a) \in Nat
      BY DEF AddressToPageNumber
    <2> QED
      BY <1>2, <2>1 DEF ReservePages
  <1>5. in.bootloaderSize \div PageSize + 1 \in Nat /\ in.kernelSize \div PageSize \in Nat
    BY <1>3 DEF BootInfo
  <1>6. in.bootloaderStart \in Nat /\ in.kernelStart \in Nat
    BY <1>3 DEF BootInfo
  <1>7. ASSUME NEW set \in SUBSET Positions
        PROVE  0 .. (DmaPages - 1) \subseteq ReservePages(set, 0, 0, DmaPages)
    <2>1. AddressToPageNumber(0, 0) = 0
      BY DEF AddressToPageNumber
    <2> QED
      BY <2>1 DEF ReservePages, SetBits, InMap, Span
  <1> HIDE BitmapAssumption, SizeAssumption
  <1>8. DmaPages \in Nat
    BY SizeAssumption, BitmapAssumption
  <1> QED
    BY <1>1, <1>4, <1>5, <1>6, <1>7, <1>8 DEF BootBitmap

-----------------------------------------------------------------------------

(* Before boot nobody holds anything, and after it the DMA zone, page 0    *)
(* among it, is reserved.                                                  *)
BootInv == IF info = None
           THEN boot = {} /\ \A c \in Callers : ~Holds(c)
           ELSE 0 .. (DmaPages - 1) \subseteq boot

(* What a caller holds is a run the bitmap gave out: its address is that   *)
(* of a page of the map, and it keeps clear of what the boot reserved.     *)
HeldInv == \A c \in Callers : Holds(c) =>
              /\ held[c].count # 0
              /\ \E p \in Positions : held[c].address = p * PageSize
              /\ Pages(c) \cap boot = {}

IInv == /\ TypeOK
        /\ start = 0
        /\ BootInv
        /\ HeldInv
        /\ ExactAccounting
        /\ NoSharing

(* The first page of a held run, in place of the address arithmetic. *)
LEMMA HeldPages ==
    ASSUME IInv, NEW c \in Callers, Holds(c)
    PROVE  \E p \in Positions :
              /\ held[c].address = p * PageSize
              /\ AddressToPageNumber(start, held[c].address) = p
              /\ Pages(c) = Span(p, held[c].count)
              /\ held[c].count \in Nat \ {0}
              /\ Recorded(c) <=> InMap(p, held[c].count)
  <1>1. PICK p \in Positions : held[c].address = p * PageSize
    BY DEF IInv, HeldInv
  <1>2. AddressToPageNumber(start, held[c].address) = p
    <2>1. start = 0
      BY DEF IInv
    <2>2. p * PageSize - 0 = p * PageSize
      BY PageAddress
    <2> QED
      BY <1>1, <2>1, <2>2, PageAddress DEF AddressToPageNumber
  <1>3. held[c].count \in Nat \ {0}
    BY RequestAssumption DEF IInv, HeldInv, TypeOK, Run
  <1>4. Pages(c) = Span(p, held[c].count)
    BY <1>2 DEF Pages
  <1>5. Recorded(c) <=> InMap(p, held[c].count)
    BY <1>3, <1>4, BitmapAssumption DEF Recorded, Span, Positions, InMap
  <1> QED
    BY <1>1, <1>2, <1>3, <1>4, <1>5

LEMMA BootStep ==
    ASSUME IInv, NEW in \in BootInfos, Boot(in)
    PROVE  IInv'
  <1>1. start' = 0
    BY StartIsZero DEF Boot
  <1>2. bitmap' = boot' /\ bitmap' \subseteq Positions /\ 0 .. (DmaPages - 1) \subseteq boot'
    BY <1>1, BootBitmapBounds DEF Boot
  <1>3. held' = held /\ \A c \in Callers : ~Holds(c)
    BY DEF Boot, IInv, BootInv
  <1>4. \A c \in Callers : ~Holds(c)' /\ ~Recorded(c)'
    BY <1>3 DEF Holds, Recorded
  <1>5. in # None
    BY BootAssumption DEF None
  <1>6. TypeOK'
    BY <1>1, <1>2, <1>3, SizeAssumption DEF Boot, IInv, TypeOK
  <1>7. BootInv'
    BY <1>2, <1>5 DEF Boot, BootInv
  <1>8. HeldInv' /\ NoSharing'
    BY <1>4 DEF HeldInv, NoSharing
  <1>9. ExactAccounting'
    BY <1>2, <1>4 DEF ExactAccounting
  <1> QED
    BY <1>1, <1>6, <1>7, <1>8, <1>9 DEF IInv

(* What an allocation gives: the run the search found, by its address.    *)
LEMMA AllocateGives ==
    ASSUME IInv, NEW c \in Callers, NEW n \in Requests, AllocatePages(c, n)
    PROVE  LET f == FindUnsetBits(bitmap, n)
           IN  /\ f \in Positions \ {0} /\ Span(f, n) \cap bitmap = {}
               /\ f * PageSize # 0
               /\ bitmap' = SetBits(bitmap, f, n)
               /\ held' = [held EXCEPT ![c] = [address |-> f * PageSize, count |-> n]]
               /\ start' = start /\ boot' = boot /\ info' = info
               /\ Holds(c)' /\ Pages(c)' = Span(f, n)
               /\ Recorded(c)' <=> InMap(f, n)
  <1> DEFINE f == FindUnsetBits(bitmap, n)
  <1>1. bitmap \in SUBSET Positions /\ n \in Nat \ {0} /\ start = 0 /\ info # None
    BY RequestAssumption DEF IInv, TypeOK, AllocatePages
  <1>2. f >= 0 /\ f # -1
    BY DEF AllocatePages
  <1>3. f \in Positions /\ Span(f, n) \cap bitmap = {}
    BY <1>1, <1>2, FindUnsetBitsResult
  <1>4. 0 \in boot /\ boot \subseteq bitmap
    BY <1>1, SizeAssumption DEF IInv, BootInv, ExactAccounting
  <1>5. f # 0
    BY <1>1, <1>3, <1>4 DEF Span
  <1>6. PageNumberToAddress(start, f) = f * PageSize /\ f * PageSize # 0
    <2>1. 0 + f * PageSize = f * PageSize
      BY <1>3, PageAddress
    <2> QED
      BY <1>1, <1>3, <1>5, <2>1, PageAddress DEF PageNumberToAddress
  <1>7. /\ bitmap' = SetBits(bitmap, f, n)
        /\ held' = [held EXCEPT ![c] = [address |-> f * PageSize, count |-> n]]
        /\ start' = start /\ boot' = boot /\ info' = info
    BY <1>6 DEF AllocatePages
  <1> HIDE DEF f
  <1>8. held'[c] = [address |-> f * PageSize, count |-> n]
    BY <1>7 DEF IInv, TypeOK
  <1>9. Holds(c)' /\ Pages(c)' = Span(f, n)
    <2>1. AddressToPageNumber(start, f * PageSize) = f
      <3>1. f * PageSize - 0 = f * PageSize
        BY <1>3, PageAddress
      <3> QED
        BY <1>1, <1>3, <3>1, PageAddress DEF AddressToPageNumber
    <2> QED
      BY <1>6, <1>7, <1>8, <2>1 DEF Holds, Pages
  <1>10. Recorded(c)' <=> InMap(f, n)
    BY <1>1, <1>3, <1>9, BitmapAssumption DEF Recorded, Span, Positions, InMap
  <1> QED
    BY <1>3, <1>5, <1>6, <1>7, <1>9, <1>10 DEF f

LEMMA AllocateStep ==
    ASSUME IInv, NEW c \in Callers, NEW n \in Requests, AllocatePages(c, n)
    PROVE  IInv'
  <1> DEFINE f == FindUnsetBits(bitmap, n)
  <1>1. bitmap \in SUBSET Positions /\ n \in Nat \ {0} /\ start = 0 /\ info # None
    BY RequestAssumption DEF IInv, TypeOK, AllocatePages
  <1>2. f \in Positions /\ Span(f, n) \cap bitmap = {}
    BY AllocateGives
  <1>3. 0 \in boot /\ boot \subseteq bitmap
    BY <1>1, SizeAssumption DEF IInv, BootInv, ExactAccounting
  <1>4. f # 0
    BY AllocateGives
  <1>5. f * PageSize # 0
    BY AllocateGives
  <1>6. /\ bitmap' = SetBits(bitmap, f, n)
        /\ held' = [held EXCEPT ![c] = [address |-> f * PageSize, count |-> n]]
        /\ start' = start /\ boot' = boot /\ info' = info
    BY AllocateGives
  <1>7. Holds(c)' /\ Pages(c)' = Span(f, n)
    BY AllocateGives
  <1>8. Recorded(c)' <=> InMap(f, n)
    BY AllocateGives
  <1> HIDE DEF f
  <1>9. held'[c] = [address |-> f * PageSize, count |-> n]
    BY <1>6 DEF IInv, TypeOK
  <1>10. ASSUME NEW d \in Callers, d # c
        PROVE  /\ held'[d] = held[d] /\ Pages(d)' = Pages(d)
               /\ Holds(d)' = Holds(d) /\ Recorded(d)' = Recorded(d)
    <2>1. held'[d] = held[d]
      BY <1>6, <1>10 DEF IInv, TypeOK
    <2> QED
      BY <1>6, <2>1 DEF Pages, Holds, Recorded
  <1>11. ~Recorded(c)
    BY DEF AllocatePages, Recorded, Holds, Nothing
  <1>12. TypeOK'
    <2>1. bitmap' \subseteq Positions
      BY <1>1, <1>2, <1>6, BitmapAssumption DEF SetBits, InMap, Span, Positions
    <2>2. [address |-> f * PageSize, count |-> n] \in Run
      BY <1>2, PageAddress DEF Run
    <2> QED
      BY <1>6, <2>1, <2>2 DEF IInv, TypeOK
  <1>13. BootInv'
    BY <1>1, <1>6 DEF IInv, BootInv
  <1>14. HeldInv'
    <2>1. ASSUME NEW d \in Callers, d # c, Holds(d)'
          PROVE  /\ held'[d].count # 0
                 /\ \E p \in Positions : held'[d].address = p * PageSize
                 /\ Pages(d)' \cap boot' = {}
      BY <2>1, <1>6, <1>10 DEF IInv, HeldInv
    <2>2. /\ held'[c].count # 0
          /\ \E p \in Positions : held'[c].address = p * PageSize
          /\ Pages(c)' \cap boot' = {}
      BY <1>1, <1>2, <1>3, <1>6, <1>9, <1>7
    <2> QED
      BY <2>1, <2>2 DEF HeldInv
  <1>15. ExactAccounting'
    <2>1. CASE InMap(f, n)
      <3>1. {d \in Callers : Recorded(d)'} = {d \in Callers : Recorded(d)} \cup {c}
        BY <1>10, <1>8, <2>1
      <3>2. bitmap' = bitmap \cup Pages(c)'
        BY <1>6, <1>7, <2>1 DEF SetBits
      <3>3. UNION {Pages(d)' : d \in {e \in Callers : Recorded(e)'}}
              = (UNION {Pages(d) : d \in {e \in Callers : Recorded(e)}}) \cup Pages(c)'
        BY <1>10, <1>11, <3>1
      <3> QED
        BY <1>6, <3>2, <3>3 DEF IInv, ExactAccounting
    <2>2. CASE ~InMap(f, n)
      <3>1. {d \in Callers : Recorded(d)'} = {d \in Callers : Recorded(d)}
        BY <1>10, <1>8, <1>11, <2>2
      <3>2. UNION {Pages(d)' : d \in {e \in Callers : Recorded(e)'}}
              = UNION {Pages(d) : d \in {e \in Callers : Recorded(e)}}
        BY <1>10, <1>11, <3>1
      <3> QED
        BY <1>6, <2>2, <3>2 DEF IInv, ExactAccounting, SetBits
    <2> QED
      BY <2>1, <2>2
  <1>16. NoSharing'
    <2>1. ASSUME NEW d \in Callers, d # c, Recorded(d)'
          PROVE  Pages(c)' \cap Pages(d)' = {}
      <3>1. Pages(d) \subseteq bitmap
        BY <2>1, <1>10 DEF IInv, ExactAccounting
      <3> QED
        BY <2>1, <3>1, <1>2, <1>10, <1>7
    <2> QED
      BY <2>1, <1>10 DEF IInv, NoSharing
  <1> QED
    BY <1>1, <1>6, <1>12, <1>13, <1>14, <1>15, <1>16 DEF IInv

LEMMA FreeStep ==
    ASSUME IInv, NEW c \in Callers, FreePages(c)
    PROVE  IInv'
  <1>1. Holds(c)
    BY DEF FreePages, Holds
  <1>2. PICK p \in Positions :
              /\ held[c].address = p * PageSize
              /\ AddressToPageNumber(start, held[c].address) = p
              /\ Pages(c) = Span(p, held[c].count)
              /\ held[c].count \in Nat \ {0}
              /\ Recorded(c) <=> InMap(p, held[c].count)
    BY <1>1, HeldPages
  <1>3. /\ bitmap' = ClearBits(bitmap, p, held[c].count)
        /\ held' = [held EXCEPT ![c] = Nothing]
        /\ start' = start /\ boot' = boot /\ info' = info
    BY <1>2 DEF FreePages
  <1>4. held'[c] = Nothing /\ ~Holds(c)' /\ ~Recorded(c)'
    BY <1>3 DEF IInv, TypeOK, Holds, Recorded, Nothing
  <1>5. ASSUME NEW d \in Callers, d # c
        PROVE  /\ held'[d] = held[d] /\ Pages(d)' = Pages(d)
               /\ Holds(d)' = Holds(d) /\ Recorded(d)' = Recorded(d)
    <2>1. held'[d] = held[d]
      BY <1>3, <1>5 DEF IInv, TypeOK
    <2> QED
      BY <1>3, <2>1 DEF Pages, Holds, Recorded
  <1>6. TypeOK'
    <2>1. bitmap' \subseteq Positions
      BY <1>3 DEF IInv, TypeOK, ClearBits
    <2>2. Nothing \in Run
      BY SizeAssumption DEF Nothing, Run
    <2> QED
      BY <1>3, <2>1, <2>2 DEF IInv, TypeOK
  <1>7. BootInv'
    BY <1>3, <1>4, <1>5 DEF IInv, BootInv
  <1>8. HeldInv'
    <2>1. ASSUME NEW d \in Callers, Holds(d)'
          PROVE  /\ held'[d].count # 0
                 /\ \E q \in Positions : held'[d].address = q * PageSize
                 /\ Pages(d)' \cap boot' = {}
      BY <2>1, <1>3, <1>4, <1>5 DEF IInv, HeldInv
    <2> QED
      BY <2>1 DEF HeldInv
  <1>9. ExactAccounting'
    <2> DEFINE Others == UNION {Pages(d) : d \in {e \in Callers \ {c} : Recorded(e)}}
    <2>1. UNION {Pages(d)' : d \in {e \in Callers : Recorded(e)'}} = Others
      BY <1>4, <1>5
    <2>2. CASE Recorded(c)
      <3>1. bitmap' = bitmap \ Pages(c)
        BY <1>2, <1>3, <2>2 DEF ClearBits
      <3>2. bitmap = boot \cup Others \cup Pages(c)
        BY <2>2 DEF IInv, ExactAccounting
      <3>3. Pages(c) \cap boot = {}
        BY <1>1 DEF IInv, HeldInv
      <3>4. Pages(c) \cap Others = {}
        BY <2>2 DEF IInv, NoSharing
      <3>5. bitmap' = boot' \cup Others
        <4> HIDE DEF Others
        <4> QED
          BY <1>3, <3>1, <3>2, <3>3, <3>4
      <3> QED
        BY <2>1, <3>5 DEF ExactAccounting
    <2>3. CASE ~Recorded(c)
      <3>1. bitmap' = bitmap
        BY <1>2, <1>3, <2>3 DEF ClearBits
      <3>2. bitmap = boot \cup Others
        BY <2>3 DEF IInv, ExactAccounting
      <3> QED
        BY <1>3, <2>1, <3>1, <3>2 DEF ExactAccounting
    <2> QED
      BY <2>2, <2>3
  <1>10. NoSharing'
    BY <1>4, <1>5 DEF IInv, NoSharing
  <1> QED
    BY <1>3, <1>6, <1>7, <1>8, <1>9, <1>10 DEF IInv

-----------------------------------------------------------------------------

(* The inductive invariant. *)
THEOREM Invariance == Spec => []IInv
  <1>1. Init => IInv
    <2> SUFFICES ASSUME Init
                 PROVE  IInv
      OBVIOUS
    <2>1. \A c \in Callers : held[c] = Nothing /\ ~Holds(c) /\ ~Recorded(c)
      BY DEF Init, Holds, Recorded, Nothing
    <2>2. Nothing \in Run
      BY SizeAssumption DEF Nothing, Run
    <2>3. TypeOK
      BY <2>2, SizeAssumption DEF Init, TypeOK, ResetAll
    <2>4. ExactAccounting
      BY <2>1 DEF Init, ExactAccounting, ResetAll
    <2> QED
      BY <2>1, <2>3, <2>4
      DEF Init, IInv, BootInv, HeldInv, NoSharing, ResetAll
  <1>2. IInv /\ [Next]_vars => IInv'
    <2> SUFFICES ASSUME IInv, [Next]_vars
                 PROVE  IInv'
      OBVIOUS
    <2>1. ASSUME NEW in \in BootInfos, Boot(in)
          PROVE  IInv'
      BY <2>1, BootStep
    <2>2. ASSUME NEW c \in Callers, NEW n \in Requests, AllocatePages(c, n)
          PROVE  IInv'
      BY <2>2, AllocateStep
    <2>3. ASSUME NEW c \in Callers, FreePages(c)
          PROVE  IInv'
      BY <2>3, FreeStep
    <2>4. CASE UNCHANGED vars
      BY <2>4 DEF vars, IInv, TypeOK, BootInv, HeldInv, ExactAccounting, NoSharing,
                  Holds, Recorded, Pages
    <2> QED
      BY <2>1, <2>2, <2>3, <2>4 DEF Next, AllocateFails
  <1> QED
    BY <1>1, <1>2, PTL DEF Spec

(* The variables keep to their types through boot, allocations and frees   *)
(* (PhysicalMemoryManager.cpp:10-75).                                      *)
THEOREM TypeCorrect == Spec => []TypeOK
  <1>1. IInv => TypeOK
    BY DEF IInv
  <1> QED
    BY <1>1, Invariance, PTL

(* The bitmap is exactly the boot's bits and the recorded runs'            *)
(* (PhysicalMemoryManager.cpp:42-65).                                      *)
THEOREM AccountingIsExact == Spec => []ExactAccounting
  <1>1. IInv => ExactAccounting
    BY DEF IInv
  <1> QED
    BY <1>1, Invariance, PTL

(* Two runs on record share no page (PhysicalMemoryManager.cpp:47-52).     *)
THEOREM RunsAreDisjoint == Spec => []NoSharing
  <1>1. IInv => NoSharing
    BY DEF IInv
  <1> QED
    BY <1>1, Invariance, PTL

(* The bytes that end below the DMA limit lie on pages of the DMA zone. *)
LEMMA ImageInDmaZone ==
    ASSUME NEW from \in Nat, NEW size \in Nat, from + size =< DmaPages * PageSize
    PROVE  PagesOf(from, size) \subseteq 0 .. (DmaPages - 1)
  <1> USE SizeAssumption, BitmapAssumption
  <1>1. CASE size = 0
    BY <1>1 DEF PagesOf
  <1>2. CASE size # 0
    <2> DEFINE last == from + size - 1
    <2>1. last \in Nat /\ last < DmaPages * PageSize /\ DmaPages \in Nat
      BY <1>2
    <2>2. last \div PageSize < DmaPages
      <3> HIDE DEF last
      <3>1. last \div PageSize \in Nat /\ (last \div PageSize) * PageSize =< last
        BY <2>1
      <3>2. ASSUME last \div PageSize >= DmaPages
            PROVE  FALSE
        <4>1. (last \div PageSize) * PageSize >= DmaPages * PageSize
          BY <2>1, <3>1, <3>2
        <4> QED
          BY <2>1, <3>1, <4>1
      <3> QED
        BY <2>1, <3>1, <3>2
    <2>3. from \div PageSize \in Nat
      OBVIOUS
    <2> QED
      BY <1>2, <2>1, <2>2, <2>3 DEF PagesOf
  <1> QED
    BY <1>1, <1>2

(* Boot loader, kernel image, DMA zone and page 0 are never given to       *)
(* anyone (Kernel.cpp:61-74).                                              *)
THEOREM ReservedIsNeverHeld == Spec => []ReservedNeverHeld
  <1>1. IInv => ReservedNeverHeld
    <2> SUFFICES ASSUME IInv, NEW c \in Callers, Holds(c)
                 PROVE  Pages(c) \cap ( 0 .. (DmaPages - 1)
                          \cup PagesOf(info.bootloaderStart, info.bootloaderSize)
                          \cup PagesOf(info.kernelStart, info.kernelSize) ) = {}
      BY DEF ReservedNeverHeld
    <2>1. info # None /\ info \in BootInfos
      BY DEF IInv, BootInv, TypeOK
    <2>2. 0 .. (DmaPages - 1) \subseteq boot /\ Pages(c) \cap boot = {}
      BY <2>1 DEF IInv, BootInv, HeldInv
    <2>3. info \in BootInfo
      BY <2>1, BootAssumption
    <2>4. PagesOf(info.bootloaderStart, info.bootloaderSize) \subseteq 0 .. (DmaPages - 1)
      BY <2>1, <2>3, BootAssumption, ImageInDmaZone DEF BootInfo
    <2>5. PagesOf(info.kernelStart, info.kernelSize) \subseteq 0 .. (DmaPages - 1)
      BY <2>1, <2>3, BootAssumption, ImageInDmaZone DEF BootInfo
    <2> QED
      BY <2>2, <2>4, <2>5
  <1> QED
    BY <1>1, Invariance, PTL

(* A run leaves the map only when no run of its size was clear: the heap's *)
(* overrun on a machine with much memory is due to the map alone           *)
(* (PhysicalMemoryManager.cpp:42-53, Bitmap.h:58-84).                      *)
THEOREM OverrunsAreForced == Spec => OverrunOnlyWhenNothingFits
  <1> DEFINE Forced ==
        \A c \in Callers :
            ~Holds(c) /\ Holds(c)' /\ ~Recorded(c)'
                => Fits(bitmap, held'[c].count) = {}
  <1>1. ASSUME IInv, [Next]_vars
        PROVE  [Forced]_vars
    <2> SUFFICES ASSUME NEW d \in Callers, Next, ~Holds(d), Holds(d)', ~Recorded(d)'
                 PROVE  Fits(bitmap, held'[d].count) = {}
      BY <1>1
    <2>1. ASSUME NEW in \in BootInfos, Boot(in)
          PROVE  FALSE
      BY <2>1 DEF Boot, Holds
    <2>2. ASSUME NEW c \in Callers, FreePages(c)
          PROVE  FALSE
      BY <1>1, <2>2 DEF FreePages, Holds, Nothing, IInv, TypeOK
    <2>3. ASSUME NEW c \in Callers, NEW n \in Requests, AllocateFails(c, n)
          PROVE  FALSE
      BY <2>3 DEF AllocateFails, vars, Holds
    <2>4. ASSUME NEW c \in Callers, NEW n \in Requests, AllocatePages(c, n)
          PROVE  Fits(bitmap, held'[d].count) = {}
      <3> DEFINE f == FindUnsetBits(bitmap, n)
      <3>1. /\ held' = [held EXCEPT ![c] = [address |-> f * PageSize, count |-> n]]
            /\ Recorded(c)' <=> InMap(f, n)
        BY <1>1, <2>4, AllocateGives
      <3>2. c = d /\ held'[d].count = n
        BY <1>1, <3>1 DEF Holds, IInv, TypeOK
      <3>3. ASSUME Fits(bitmap, n) # {}
            PROVE  FALSE
        <4>1. f = Min(Fits(bitmap, n))
          BY <3>3 DEF FindUnsetBits
        <4>2. Fits(bitmap, n) \in SUBSET Nat
          BY BitmapAssumption DEF Fits, Positions
        <4>3. f \in Fits(bitmap, n)
          BY <3>3, <4>1, <4>2, MinOfNaturals
        <4> QED
          BY <3>1, <3>2, <4>3 DEF Fits
      <3> QED
        BY <3>2, <3>3
    <2> QED
      BY <2>1, <2>2, <2>3, <2>4 DEF Next
  <1> QED
    BY <1>1, Invariance, PTL DEF Spec, OverrunOnlyWhenNothingFits

-----------------------------------------------------------------------------
(***************************************************************************)
(* The search itself.  FindUnsetBits is an operator for the manager; that  *)
(* the loop of Bitmap<TSize>::FindUnsetBits computes it, for every content *)
(* of the map and every request, is shown here.  The loop has variables of *)
(* its own, which the rest of this module does not mention.                *)
(***************************************************************************)

(* A position that was ruled out begins no fit. *)
LEMMA RuledOutIsNoFit ==
    ASSUME ScanTypeOK, RuledOut, NEW s \in Fits(bits, count)
    PROVE  s >= Frontier
  <1>1. s \in Nat /\ Span(s, count) \cap bits = {}
    BY BitmapAssumption DEF Fits, Positions
  <1>2. ASSUME s < Frontier
        PROVE  FALSE
    <2>1. PICK q \in bits : s =< q /\ q < s + count
      BY <1>1, <1>2 DEF ScanTypeOK, RuledOut, Frontier, Positions
    <2>2. q \in Span(s, count)
      BY <1>1, <2>1, CountsAssumption DEF ScanTypeOK, Span, Positions
    <2> QED
      BY <1>1, <2>2
  <1> QED
    BY <1>1, <1>2, BitmapAssumption DEF ScanTypeOK, Frontier, Positions

-----------------------------------------------------------------------------
(* One step of the loop, action by action. *)

LEMMA SetBitStep ==
    ASSUME ScanTypeOK, LoopInv, SetBit
    PROVE  ScanTypeOK' /\ LoopInv' /\ ScanCorrect'
  <1> USE BitmapAssumption, CountsAssumption DEF ScanTypeOK, LoopInv, SetBit, Positions
  <1>1. RuledOut'
    <2>1. Frontier' - 1 = i
      BY DEF Frontier
    <2>2. ASSUME NEW s \in 0 .. i
          PROVE  \E q \in bits : s =< q /\ q < i' /\ q < s + count
      <3>1. CASE s < Frontier
        <4>1. PICK q \in bits : s =< q /\ q < i /\ q < s + count
          BY <3>1 DEF RuledOut, Frontier
        <4> QED
          BY <4>1
      <3>2. CASE s >= Frontier
        BY <3>2 DEF Test, Frontier, RunClear
      <3> QED
        BY <3>1, <3>2 DEF Frontier
    <2> QED
      BY <2>1, <2>2 DEF RuledOut
  <1>2. RunClear' /\ currentBit' < count'
    BY DEF RunClear
  <1> QED
    BY <1>1, <1>2 DEF ScanCorrect

LEMMA ClearBitStep ==
    ASSUME ScanTypeOK, LoopInv, ClearBit
    PROVE  ScanTypeOK' /\ LoopInv' /\ ScanCorrect'
  <1> USE BitmapAssumption, CountsAssumption DEF ScanTypeOK, LoopInv, ClearBit, Positions
  <1>1. firstBit' = Frontier /\ Frontier' = Frontier
    BY DEF Frontier
  <1>2. Frontier \in Positions /\ Frontier =< i
    BY DEF Frontier, RunClear
  <1>3. /\ currentBit' = i + 1 - Frontier
        /\ (Frontier .. i) \cap bits = {}
    BY DEF Frontier, RunClear, Test
  <1>4. ScanTypeOK'
    BY <1>1, <1>2, <1>3
  <1>5. LoopInv'
    <2> SUFFICES ASSUME pc' = "scan"
                 PROVE  RuledOut' /\ RunClear' /\ currentBit' < count'
      OBVIOUS
    <2>1. i' = i + 1 /\ currentBit' # count
      OBVIOUS
    <2>2. ASSUME NEW s \in 0 .. (Frontier - 1)
          PROVE  \E q \in bits : s =< q /\ q < i + 1 /\ q < s + count
      <3>1. PICK q \in bits : s =< q /\ q < i /\ q < s + count
        BY DEF RuledOut
      <3> QED
        BY <3>1
    <2>3. RuledOut'
      BY <1>1, <2>1, <2>2 DEF RuledOut
    <2>4. RunClear'
      BY <1>1, <1>2, <1>3, <2>1 DEF RunClear
    <2>5. currentBit < count
      OBVIOUS
    <2> QED
      BY <2>1, <2>3, <2>4, <2>5
  <1>6. ScanCorrect'
    <2> SUFFICES ASSUME currentBit' = count
                 PROVE  firstBit' = FindUnsetBits(bits, count)
      BY DEF ScanCorrect
    <2>1. Frontier \in Fits(bits, count)
      BY <1>2, <1>3 DEF Fits, InMap, Span
    <2>2. \A s \in Fits(bits, count) : Frontier =< s
      BY RuledOutIsNoFit, <1>2 DEF Fits
    <2>3. Fits(bits, count) \in SUBSET Int
      BY DEF Fits
    <2>4. Min(Fits(bits, count)) = Frontier
      BY <2>1, <2>2, <2>3, MinIs
    <2> QED
      BY <1>1, <2>1, <2>4 DEF FindUnsetBits
  <1> QED
    BY <1>4, <1>5, <1>6

LEMMA ExhaustedStep ==
    ASSUME ScanTypeOK, LoopInv, Exhausted
    PROVE  ScanTypeOK' /\ LoopInv' /\ ScanCorrect'
  <1> USE BitmapAssumption, CountsAssumption DEF ScanTypeOK, LoopInv, Exhausted, Positions
  <1>1. Fits(bits, count) = {}
    <2>1. ASSUME NEW s \in Fits(bits, count)
          PROVE  FALSE
      <3>1. s \in Positions /\ s + count =< TSize
        BY DEF Fits, InMap
      <3>2. s >= Frontier
        BY RuledOutIsNoFit
      <3> QED
        BY <3>1, <3>2 DEF Frontier, RunClear
    <2> QED
      BY <2>1
  <1>2. CASE firstBit = -1
    <2>1. ASSUME NEW s \in Tails(bits)
          PROVE  FALSE
      <3>1. s \in Positions /\ (s .. (TSize - 1)) \cap bits = {}
        BY DEF Tails
      <3>2. PICK q \in bits : s =< q /\ q < i
        BY <1>2, <3>1 DEF RuledOut, Frontier
      <3> QED
        BY <3>1, <3>2
    <2> QED
      BY <1>1, <1>2, <2>1 DEF ScanCorrect, FindUnsetBits
  <1>3. CASE firstBit # -1
    <2>1. firstBit \in Tails(bits)
      BY <1>3 DEF Tails, RunClear
    <2>2. ASSUME NEW s \in Tails(bits)
          PROVE  firstBit =< s
      <3>1. s \in Positions /\ (s .. (TSize - 1)) \cap bits = {}
        BY DEF Tails
      <3>2. ASSUME s < firstBit
            PROVE  FALSE
        <4>1. PICK q \in bits : s =< q /\ q < i
          BY <1>3, <3>1, <3>2 DEF RuledOut, Frontier
        <4> QED
          BY <3>1, <4>1
      <3> QED
        BY <3>1, <3>2
    <2>3. Tails(bits) \in SUBSET Int
      BY DEF Tails
    <2>4. Min(Tails(bits)) = firstBit
      BY <2>1, <2>2, <2>3, MinIs
    <2> QED
      BY <1>1, <2>1, <2>4 DEF ScanCorrect, FindUnsetBits
  <1> QED
    BY <1>2, <1>3

-----------------------------------------------------------------------------
(* The inductive invariant of the loop. *)
ScanIInv == ScanTypeOK /\ LoopInv /\ ScanCorrect

(* The loop invariant holds at every iteration, and the answer is right at *)
(* every exit (Bitmap.h:58-84).                                            *)
THEOREM ScanInvariance == ScanSpec => []ScanIInv
  <1>1. ScanInit => ScanIInv
    BY BitmapAssumption, CountsAssumption
    DEF ScanInit, ScanIInv, ScanTypeOK, LoopInv, ScanCorrect, RuledOut, RunClear, Frontier
  <1>2. ScanIInv /\ [ScanNext]_scanVars => ScanIInv'
    <2> SUFFICES ASSUME ScanIInv, [ScanNext]_scanVars
                 PROVE  ScanIInv'
      OBVIOUS
    <2>1. CASE SetBit
      BY <2>1, SetBitStep DEF ScanIInv
    <2>2. CASE ClearBit
      BY <2>2, ClearBitStep DEF ScanIInv
    <2>3. CASE Exhausted
      BY <2>3, ExhaustedStep DEF ScanIInv
    <2>4. CASE UNCHANGED scanVars
      BY <2>4 DEF scanVars, ScanIInv, ScanTypeOK, LoopInv, ScanCorrect, RuledOut, RunClear,
                  Frontier
    <2> QED
      BY <2>1, <2>2, <2>3, <2>4 DEF ScanNext
  <1> QED
    BY <1>1, <1>2, PTL DEF ScanSpec

(* FindUnsetBits answers with the first fit, the short tail or -1          *)
(* (Bitmap.h:58-84).                                                       *)
THEOREM ScanIsCorrect == ScanSpec => []ScanCorrect
  <1>1. ScanIInv => ScanCorrect
    BY DEF ScanIInv
  <1> QED
    BY <1>1, ScanInvariance, PTL

(* The run FindUnsetBits answers with holds no set bit (Bitmap.h:58-84,    *)
(* relied on by both AllocatePages).                                       *)
THEOREM AnswerIsAlwaysClear == ScanSpec => []AnswerIsClear
  <1>1. ScanIInv => AnswerIsClear
    BY FindUnsetBitsResult, CountsAssumption
    DEF ScanIInv, ScanTypeOK, ScanCorrect, AnswerIsClear
  <1> QED
    BY <1>1, ScanInvariance, PTL
=============================================================================
