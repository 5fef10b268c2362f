-------------------------- MODULE BootAndHeap_proofs --------------------------
(***************************************************************************)
(* Proofs about the boot and about the heap that its last mapping makes,   *)
(* for every size of directory, image, bitmap, heap, header and request    *)
(* and every memory map.                                                   *)
(*                                                                         *)
(* The boot: what the page tables have in them at each step, under paging  *)
(* off, the boot loader's tables and the kernel's (TablesInv), what        *)
(* KMain's arguments are (HandedOverInv), and which frames AllocatePages   *)
(* finds for the heap (HeapRunInv).                                        *)
(*                                                                         *)
(* The heap: what Allocate's walk and Free keep until a Free merges two    *)
(* blocks or m_CurrentAddress goes round the address space, which requests *)
(* make it go round, and what Free keeps always.                           *)
(***************************************************************************)
EXTENDS Heap, Boot, Bitmap_proofs, FiniteSetTheorems

(***************************************************************************)
(*                              The boot.                                  *)
(***************************************************************************)

Steps == {"VGA", "Processor", "MemoryUtil", "PMM", "VMM", "map first 4MB",
          "map kernel", "map rest", "reload", "VMA", "map heap", "heap", "ATA",
          "read", "forever"}

(* The steps of InitKernel by their numbers.                               *)
LEMMA OrderItems ==
    /\ Len(Order) = 15
    /\ Order[1] = "VGA" /\ Order[2] = "Processor" /\ Order[3] = "MemoryUtil"
    /\ Order[4] = "PMM" /\ Order[5] = "VMM" /\ Order[6] = "map first 4MB"
    /\ Order[7] = "map kernel" /\ Order[8] = "map rest" /\ Order[9] = "reload"
    /\ Order[10] = "VMA" /\ Order[11] = "map heap" /\ Order[12] = "heap"
    /\ Order[13] = "ATA" /\ Order[14] = "read" /\ Order[15] = "forever"
  BY DEF Order

LEMMA FifteenSteps ==
    ASSUME NEW n \in 1 .. 15
    PROVE  \/ n = 1 \/ n = 2 \/ n = 3 \/ n = 4 \/ n = 5 \/ n = 6 \/ n = 7 \/ n = 8
           \/ n = 9 \/ n = 10 \/ n = 11 \/ n = 12 \/ n = 13 \/ n = 14 \/ n = 15
  OBVIOUS

(* Number finds the number of a step that occurs once,                     *)
LEMMA NumberIs ==
    ASSUME NEW n \in 1 .. 15, \A m \in 1 .. 15 : Order[m] = Order[n] => m = n
    PROVE  Number(Order[n]) = n
  BY OrderItems DEF Number

(* as every step does.                                                     *)
LEMMA Distinct ==
    ASSUME NEW m \in 1 .. 15, NEW n \in 1 .. 15, Order[m] = Order[n]
    PROVE  m = n
  <1> USE OrderItems
  <1>1. CASE n = 1
    BY <1>1, FifteenSteps
  <1>2. CASE n = 2
    BY <1>2, FifteenSteps
  <1>3. CASE n = 3
    BY <1>3, FifteenSteps
  <1>4. CASE n = 4
    BY <1>4, FifteenSteps
  <1>5. CASE n = 5
    BY <1>5, FifteenSteps
  <1>6. CASE n = 6
    BY <1>6, FifteenSteps
  <1>7. CASE n = 7
    BY <1>7, FifteenSteps
  <1>8. CASE n = 8
    BY <1>8, FifteenSteps
  <1>9. CASE n = 9
    BY <1>9, FifteenSteps
  <1>10. CASE n = 10
    BY <1>10, FifteenSteps
  <1>11. CASE n = 11
    BY <1>11, FifteenSteps
  <1>12. CASE n = 12
    BY <1>12, FifteenSteps
  <1>13. CASE n = 13
    BY <1>13, FifteenSteps
  <1>14. CASE n = 14
    BY <1>14, FifteenSteps
  <1>15. CASE n = 15
    BY <1>15, FifteenSteps
  <1> QED
    BY <1>1, <1>2, <1>3, <1>4, <1>5, <1>6, <1>7, <1>8, <1>9, <1>10, <1>11, <1>12,
       <1>13, <1>14, <1>15, FifteenSteps

(* What follows a step in InitKernel, the step included. *)
After(step) == {Order[n] : n \in Number(step) .. 15}

LEMMA Numbers ==
    \A n \in 1 .. 15 : Number(Order[n]) = n
  BY Distinct, NumberIs

(* The numbers of the steps by their names.                                *)
LEMMA StepNumbers ==
    /\ Number("VGA") = 1 /\ Number("Processor") = 2 /\ Number("MemoryUtil") = 3
    /\ Number("PMM") = 4 /\ Number("VMM") = 5 /\ Number("map first 4MB") = 6
    /\ Number("map kernel") = 7 /\ Number("map rest") = 8 /\ Number("reload") = 9
    /\ Number("VMA") = 10 /\ Number("map heap") = 11 /\ Number("heap") = 12
    /\ Number("ATA") = 13 /\ Number("read") = 14 /\ Number("forever") = 15
  <1>1. /\ Number(Order[1]) = 1 /\ Number(Order[2]) = 2 /\ Number(Order[3]) = 3
        /\ Number(Order[4]) = 4 /\ Number(Order[5]) = 5 /\ Number(Order[6]) = 6
        /\ Number(Order[7]) = 7 /\ Number(Order[8]) = 8 /\ Number(Order[9]) = 9
        /\ Number(Order[10]) = 10 /\ Number(Order[11]) = 11 /\ Number(Order[12]) = 12
        /\ Number(Order[13]) = 13 /\ Number(Order[14]) = 14 /\ Number(Order[15]) = 15
    BY Numbers
  <1> QED
    BY <1>1, OrderItems

(* The steps from a given one on, and what comes after the first of them.  *)
LEMMA Sequels ==
    /\ After("VGA") =
           {"VGA", "Processor", "MemoryUtil", "PMM", "VMM",
            "map first 4MB", "map kernel", "map rest", "reload", "VMA",
            "map heap", "heap", "ATA", "read", "forever"}
    /\ After("PMM") =
           {"PMM", "VMM", "map first 4MB", "map kernel", "map rest",
            "reload", "VMA", "map heap", "heap", "ATA", "read",
            "forever"}
    /\ After("VMM") =
           {"VMM", "map first 4MB", "map kernel", "map rest", "reload",
            "VMA", "map heap", "heap", "ATA", "read", "forever"}
    /\ After("map first 4MB") =
           {"map first 4MB", "map kernel", "map rest", "reload", "VMA",
            "map heap", "heap", "ATA", "read", "forever"}
    /\ After("map kernel") =
           {"map kernel", "map rest", "reload", "VMA", "map heap",
            "heap", "ATA", "read", "forever"}
    /\ After("map rest") =
           {"map rest", "reload", "VMA", "map heap", "heap", "ATA",
            "read", "forever"}
    /\ After("map heap") =
           {"map heap", "heap", "ATA", "read", "forever"}
    /\ After("heap") =
           {"heap", "ATA", "read", "forever"}
  <1>1. \A n \in 1 .. 15 : \A m : m \in n .. 15 <=> m = n \/ m \in n + 1 .. 15
    OBVIOUS
  <1>2. \A n \in 1 .. 14 : After(Order[n]) = {Order[n]} \cup After(Order[n + 1])
    <2> SUFFICES ASSUME NEW n \in 1 .. 14
                 PROVE  After(Order[n]) = {Order[n]} \cup After(Order[n + 1])
      OBVIOUS
    <2>1. n \in 1 .. 15 /\ n + 1 \in 1 .. 15
      OBVIOUS
    <2>2. Number(Order[n]) = n /\ Number(Order[n + 1]) = n + 1
      BY <2>1, Numbers
    <2> QED
      BY <1>1, <2>1, <2>2 DEF After
  <1>3. After(Order[15]) = {Order[15]}
    <2>1. Number(Order[15]) = 15 /\ 15 .. 15 = {15}
      BY Numbers
    <2> QED
      BY <2>1 DEF After
  <1>4. /\ After(Order[1]) = {Order[1]} \cup After(Order[2])
        /\ After(Order[2]) = {Order[2]} \cup After(Order[3])
        /\ After(Order[3]) = {Order[3]} \cup After(Order[4])
        /\ After(Order[4]) = {Order[4]} \cup After(Order[5])
        /\ After(Order[5]) = {Order[5]} \cup After(Order[6])
        /\ After(Order[6]) = {Order[6]} \cup After(Order[7])
        /\ After(Order[7]) = {Order[7]} \cup After(Order[8])
        /\ After(Order[8]) = {Order[8]} \cup After(Order[9])
        /\ After(Order[9]) = {Order[9]} \cup After(Order[10])
        /\ After(Order[10]) = {Order[10]} \cup After(Order[11])
        /\ After(Order[11]) = {Order[11]} \cup After(Order[12])
        /\ After(Order[12]) = {Order[12]} \cup After(Order[13])
        /\ After(Order[13]) = {Order[13]} \cup After(Order[14])
        /\ After(Order[14]) = {Order[14]} \cup After(Order[15])
    BY <1>2
  <1>5. /\ After("VGA") = {"VGA"} \cup After("Processor")
        /\ After("Processor") = {"Processor"} \cup After("MemoryUtil")
        /\ After("MemoryUtil") = {"MemoryUtil"} \cup After("PMM")
        /\ After("PMM") = {"PMM"} \cup After("VMM")
        /\ After("VMM") = {"VMM"} \cup After("map first 4MB")
        /\ After("map first 4MB") = {"map first 4MB"} \cup After("map kernel")
        /\ After("map kernel") = {"map kernel"} \cup After("map rest")
        /\ After("map rest") = {"map rest"} \cup After("reload")
        /\ After("reload") = {"reload"} \cup After("VMA")
        /\ After("VMA") = {"VMA"} \cup After("map heap")
        /\ After("map heap") = {"map heap"} \cup After("heap")
        /\ After("heap") = {"heap"} \cup After("ATA")
        /\ After("ATA") = {"ATA"} \cup After("read")
        /\ After("read") = {"read"} \cup After("forever")
        /\ After("forever") = {"forever"}
    BY <1>3, <1>4, OrderItems
  <1> QED
    BY <1>5

(* Reached, by the step the boot is at. *)
LEMMA ReachedIs ==
    ASSUME NEW step
    PROVE  Reached(step) <=> \E n \in 1 .. 15 : pc = Order[n] /\ n >= Number(step)
  BY OrderItems DEF Reached

(* Where the boot goes from each step.                                     *)
LEMMA NextSteps ==
    /\ pc = "VGA" => NextStep = "Processor"
    /\ pc = "Processor" => NextStep = "MemoryUtil"
    /\ pc = "MemoryUtil" => NextStep = "PMM"
    /\ pc = "PMM" => NextStep = "VMM"
    /\ pc = "VMM" => NextStep = "map first 4MB"
    /\ pc = "map first 4MB" => NextStep = "map kernel"
    /\ pc = "map kernel" => NextStep = "map rest"
    /\ pc = "map rest" => NextStep = "reload"
    /\ pc = "reload" => NextStep = "VMA"
    /\ pc = "VMA" => NextStep = "map heap"
    /\ pc = "map heap" => NextStep = "heap"
    /\ pc = "heap" => NextStep = "ATA"
    /\ pc = "ATA" => NextStep = "read"
    /\ pc = "read" => NextStep = "forever"
  <1>1. \A n \in 1 .. 14 : Order[Number(Order[n]) + 1] = Order[n + 1]
    BY Numbers
  <1>2. /\ Order[Number(Order[1]) + 1] = Order[2]
        /\ Order[Number(Order[2]) + 1] = Order[3]
        /\ Order[Number(Order[3]) + 1] = Order[4]
        /\ Order[Number(Order[4]) + 1] = Order[5]
        /\ Order[Number(Order[5]) + 1] = Order[6]
        /\ Order[Number(Order[6]) + 1] = Order[7]
        /\ Order[Number(Order[7]) + 1] = Order[8]
        /\ Order[Number(Order[8]) + 1] = Order[9]
        /\ Order[Number(Order[9]) + 1] = Order[10]
        /\ Order[Number(Order[10]) + 1] = Order[11]
        /\ Order[Number(Order[11]) + 1] = Order[12]
        /\ Order[Number(Order[12]) + 1] = Order[13]
        /\ Order[Number(Order[13]) + 1] = Order[14]
        /\ Order[Number(Order[14]) + 1] = Order[15]
    BY <1>1
  <1>3. /\ Order[Number("VGA") + 1] = "Processor"
        /\ Order[Number("Processor") + 1] = "MemoryUtil"
        /\ Order[Number("MemoryUtil") + 1] = "PMM"
        /\ Order[Number("PMM") + 1] = "VMM"
        /\ Order[Number("VMM") + 1] = "map first 4MB"
        /\ Order[Number("map first 4MB") + 1] = "map kernel"
        /\ Order[Number("map kernel") + 1] = "map rest"
        /\ Order[Number("map rest") + 1] = "reload"
        /\ Order[Number("reload") + 1] = "VMA"
        /\ Order[Number("VMA") + 1] = "map heap"
        /\ Order[Number("map heap") + 1] = "heap"
        /\ Order[Number("heap") + 1] = "ATA"
        /\ Order[Number("ATA") + 1] = "read"
        /\ Order[Number("read") + 1] = "forever"
    BY <1>2, OrderItems
  <1> QED
    BY <1>3 DEF NextStep

-----------------------------------------------------------------------------
(* The frames of the kernel's directory and of the table behind its entry  *)
(* e, and the pages that have a table.                                     *)
Entries == 0 .. EntryCount - 1
KernelDirectory == KernelPhysical + Directory
KernelTable(e) == IF e = 0 THEN KernelPhysical + Table0
                  ELSE KernelPhysical + Tables768 + (e - FirstKernelDir)
Dirs == {0} \cup FirstKernelDir .. DirCount - 1
Pages == Entries \cup KernelStart .. VPages - 1

(* Memory holds tables, each a function of its entries. *)
IsMemory(m) == m = [f \in Frames |-> [e \in Entries |-> m[f][e]]]

(* The boot loader's tables when they are complete. *)
BootTables(m) ==
    /\ m[BootDirectory][0] = BootTable0
    /\ m[BootDirectory][FirstKernelDir] = BootTable768
    /\ \A e \in Entries : m[BootTable0][e] = e /\ m[BootTable768][e] = KernelPhysical + e

(* An entry of the kernel's directory is absent or leads to its own table. *)
LinksRight(m) == \A e \in Dirs : m[KernelDirectory][e] \in {Absent, KernelTable(e)}

(* The kernel's tables lead from the page to the frame. *)
Mapped(m, page, frame) ==
    /\ m[KernelDirectory][page \div EntryCount] = KernelTable(page \div EntryCount)
    /\ m[KernelTable(page \div EntryCount)][page % EntryCount] = frame

LowMapped(m, n) == \A p \in 0 .. n - 1 : Mapped(m, p, p)
KernelMapped(m, n) ==
    \A k \in 0 .. n - 1 : Mapped(m, InKernel(k), KernelPhysical + k)
HeapMapped(m, n) ==
    \A k \in 0 .. n - 1 : Mapped(m, heap.page + k, (heap.frame + k) % VPages)

LoopPcs == {"identity", "higher"} \cup MapSteps
PagingOff == {"start", "identity", "higher", "directory"}
UnderBoot == {"jump", "KMain", "hang", "VGA", "Processor", "MemoryUtil", "PMM", "VMM",
              "map first 4MB", "map kernel", "map rest", "reload"}
UnderKernel == {"VMA", "map heap", "heap", "ATA", "read", "forever"}

(* Where the loops of the boot stand. *)
CounterInv ==
    /\ pc \in PagingOff \cup UnderBoot \cup UnderKernel \cup {"panic"}
    /\ i \in Nat
    /\ pc \in {"identity", "higher", "map first 4MB"} => i < EntryCount
    /\ pc = "map kernel" => i < KernelPages
    /\ pc = "map rest" => i < EntryCount - KernelPages
    /\ pc = "map heap" => i < HeapPages
    /\ pc \notin LoopPcs \cup {"panic"} => i = 0

(* What the steps have been told of the machine. *)
KnownInv ==
    /\ pc \in After("VGA") =>
           bootInfo = [regions         |-> loader.regions,
                       bootloaderStart |-> LoaderStart,
                       bootloaderSize  |-> LoaderPages,
                       kernelStart     |-> KernelPhysical,
                       kernelSize      |-> KernelPages]
    /\ pc \in After("PMM") =>
           util = [virtual |-> KernelStart, physical |-> KernelPhysical]
    /\ pc \in After("map heap") => heap.page = KernelStart + 4 * EntryCount

(* The directory in force, and the boot's tables. *)
BootTablesInv ==
    /\ IsMemory(mem)
    /\ pc \in PagingOff => cr3 = Off
    /\ pc \in UnderBoot => cr3 = BootDirectory
    /\ pc \in UnderKernel => cr3 = KernelDirectory
    /\ pc = "panic" => \/ cr3 = BootDirectory
                       \/ cr3 = KernelDirectory /\ KernelMapped(mem, KernelPages)
    /\ pc = "identity" => \A e \in 0 .. i - 1 : mem[BootTable0][e] = e
    /\ pc \in {"higher", "directory"} => \A e \in Entries : mem[BootTable0][e] = e
    /\ pc = "higher" =>
           \A e \in 0 .. i - 1 : mem[BootTable768][e] = KernelPhysical + e
    /\ pc = "directory" => \A e \in Entries : mem[BootTable768][e] = KernelPhysical + e
    /\ pc \notin PagingOff => BootTables(mem)

(* The kernel's tables. *)
KernelTablesInv ==
    /\ pc \in After("map first 4MB") => LinksRight(mem)
    /\ pc = "map first 4MB" => LowMapped(mem, i)
    /\ pc \in After("map kernel") => LowMapped(mem, EntryCount)
    /\ pc = "map kernel" => KernelMapped(mem, i)
    /\ pc \in After("map rest") => KernelMapped(mem, KernelPages)
    /\ pc = "map heap" => HeapMapped(mem, i)
    /\ pc \in After("heap") => HeapMapped(mem, HeapPages)

LoaderInv == loader \in [eax : {Magic, Magic + 1}, ebx : InfoPages,
                         mapPage : InfoPages, regions : Maps]

TablesInv == CounterInv /\ LoaderInv /\ KnownInv /\ BootTablesInv /\ KernelTablesInv

-----------------------------------------------------------------------------
(* Where the tables and the pages they map lie. *)

(* The sizes as numbers: the kernel half has whole tables, at least five.  *)
LEMMA TableSizes ==
    /\ EntryCount \in Nat \ {0} /\ DirCount \in Nat /\ FirstKernelDir \in Nat
    /\ VPages \in Nat /\ KernelStart \in Nat
    /\ VPages = KernelStart + (DirCount - FirstKernelDir) * EntryCount
    /\ KernelStart >= EntryCount
    /\ KernelStart + 5 * EntryCount =< VPages
  <1> USE LayoutAssumption
  <1>1. EntryCount \in Nat \ {0} /\ DirCount \in Nat /\ FirstKernelDir \in Nat \ {0}
    OBVIOUS
  <1>2. PICK d : d = DirCount - FirstKernelDir
    OBVIOUS
  <1>3. d \in Nat /\ d >= 5 /\ DirCount = FirstKernelDir + d
    BY <1>2
  <1>4. (FirstKernelDir + d) * EntryCount = FirstKernelDir * EntryCount + d * EntryCount
    BY <1>1, <1>3
  <1>5. d * EntryCount = 5 * EntryCount + (d - 5) * EntryCount /\ (d - 5) * EntryCount \in Nat
    BY <1>1, <1>3
  <1>6. /\ FirstKernelDir * EntryCount = EntryCount + (FirstKernelDir - 1) * EntryCount
        /\ (FirstKernelDir - 1) * EntryCount \in Nat
    BY <1>1
  <1>7. PICK v, s, t, u, w : /\ v = DirCount * EntryCount /\ s = FirstKernelDir * EntryCount
                             /\ t = d * EntryCount /\ u = (d - 5) * EntryCount
                             /\ w = (FirstKernelDir - 1) * EntryCount
    OBVIOUS
  <1>8. v = s + t /\ t = 5 * EntryCount + u /\ s = EntryCount + w /\ u \in Nat /\ w \in Nat
    BY <1>3, <1>4, <1>5, <1>6, <1>7
  <1>9. v \in Nat /\ s \in Nat /\ s >= EntryCount /\ s + 5 * EntryCount =< v
    BY <1>1, <1>8
  <1> QED
    BY <1>1, <1>2, <1>7, <1>8, <1>9 DEF VPages, KernelStart

(* The images, by their pages. *)
LEMMA Images ==
    /\ KernelPages \in Nat /\ KernelPages = 4 + DirCount - FirstKernelDir
    /\ KernelPages < EntryCount /\ Stack = KernelPages - 1
    /\ Text = 0 /\ Directory = 1 /\ Table0 = 2 /\ Tables768 = 3
    /\ KernelPhysical \in Nat /\ KernelPhysical + KernelPages =< VPages
    /\ LoaderStart \in Nat /\ LoaderStart + 5 =< KernelPhysical
    /\ LoaderStart + 5 =< EntryCount
    /\ BootDirectory = LoaderStart /\ BootTable0 = LoaderStart + 1
    /\ BootTable768 = LoaderStart + 2 /\ BootStack = LoaderStart + 4
    /\ BootDirectory \in Frames /\ BootTable0 \in Frames /\ BootTable768 \in Frames
  BY TableSizes, LayoutAssumption
  DEF KernelPages, Stack, Text, Directory, Table0, Tables768, LoaderPages, BootDirectory,
      BootTable0, BootTable768, BootStack, Frames

(* The kernel's tables are frames of their own. *)
LEMMA TableFrames ==
    /\ KernelDirectory \in Frames
    /\ KernelDirectory > LoaderStart + 5 - 1
    /\ \A e \in Dirs :
          /\ e \in Entries
          /\ KernelTable(e) \in Frames /\ KernelTable(e) > KernelDirectory
          /\ KernelTable(e) - KernelPhysical \in Directory .. Stack - 1
          /\ \A d \in Dirs : KernelTable(d) = KernelTable(e) => d = e
  BY TableSizes, Images, LayoutAssumption DEF KernelDirectory, KernelTable, Dirs, Entries, Frames

(* A page is where its entries say. *)
LEMMA EntriesOf ==
    ASSUME NEW e \in Nat, NEW o \in Entries
    PROVE  (e * EntryCount + o) \div EntryCount = e /\ (e * EntryCount + o) % EntryCount = o
  <1>1. /\ EntryCount \in Nat \ {0} /\ e * EntryCount + o \in Int /\ e \in Int
        /\ o \in 0 .. EntryCount - 1 /\ e * EntryCount + o = EntryCount * e + o
    BY TableSizes DEF Entries
  <1>2. PICK a : a = e * EntryCount + o
    OBVIOUS
  <1>3. EntryCount \in Nat \ {0} /\ a \in Int /\ e \in Int /\ o \in 0 .. (EntryCount - 1)
        /\ a = EntryCount * e + o
    BY <1>1, <1>2
  <1>4. a \div EntryCount = e /\ a % EntryCount = o
    BY <1>3, DivMod
  <1> QED
    BY <1>2, <1>4

(* A page with a table is an offset in the span of one directory entry.    *)
LEMMA PagesOf ==
    ASSUME NEW page \in Pages
    PROVE  \E e \in Dirs, o \in Entries :
              /\ page = e * EntryCount + o
              /\ page \div EntryCount = e /\ page % EntryCount = o
              /\ (e = 0 <=> page \in Entries)
              /\ page \notin Entries => (page - KernelStart) \div EntryCount = e - FirstKernelDir
  <1>1. EntryCount \in Nat \ {0} /\ page \in Nat
    BY TableSizes DEF Pages, Entries
  <1>2. PICK e \in Int, o \in 0 .. (EntryCount - 1) :
            page = EntryCount * e + o /\ page \div EntryCount = e /\ page % EntryCount = o
    BY <1>1, QuotientRemainder
  <1>3. e * EntryCount = EntryCount * e /\ o \in Entries
    BY <1>1, <1>2 DEF Entries
  <1>4. CASE page \in Entries
    <2>1. page \div EntryCount = 0
      <3>1. EntryCount \in Nat \ {0} /\ page \in Int /\ 0 \in Int
            /\ page \in 0 .. (EntryCount - 1) /\ page = EntryCount * 0 + page
        BY <1>1, <1>4 DEF Entries
      <3> QED
        BY <3>1, DivMod
    <2>2. e = 0
      BY <1>2, <2>1
    <2> QED
      BY <1>2, <1>3, <1>4, <2>2 DEF Dirs
  <1>5. CASE page \notin Entries
    <2>1. page >= KernelStart /\ page < VPages
      BY <1>5, TableSizes DEF Pages
    <2>2. PICK x : x = page - KernelStart
      OBVIOUS
    <2>3. x \in Int
      BY <2>1, <2>2, <1>1, TableSizes
    <2>4. PICK q \in Int, r \in 0 .. (EntryCount - 1) :
              x = EntryCount * q + r /\ x \div EntryCount = q /\ x % EntryCount = r
      BY <1>1, <2>3, QuotientRemainder
    <2>5. q >= 0 /\ q < DirCount - FirstKernelDir
      <3>1. x >= 0 /\ x < (DirCount - FirstKernelDir) * EntryCount
        BY <1>1, <2>1, <2>2, TableSizes
      <3>2. PICK d : d = DirCount - FirstKernelDir
        OBVIOUS
      <3>3. d \in Int /\ x < d * EntryCount
        BY <3>1, <3>2, TableSizes
      <3>4. ~ (q < 0)
        <4>1. SUFFICES ASSUME q < 0 PROVE FALSE
          OBVIOUS
        <4>2. EntryCount * q =< EntryCount * (-1)
          BY <1>1, <4>1
        <4>3. PICK y : y = EntryCount * q
          OBVIOUS
        <4>4. y =< -EntryCount /\ y \in Int
          BY <1>1, <4>2, <4>3
        <4> QED
          BY <1>1, <2>4, <3>1, <4>3, <4>4
      <3>5. ~ (q >= d)
        <4>1. SUFFICES ASSUME q >= d PROVE FALSE
          OBVIOUS
        <4>2. EntryCount * q >= d * EntryCount
          BY <1>1, <3>3, <4>1
        <4>3. PICK y, z : y = EntryCount * q /\ z = d * EntryCount
          OBVIOUS
        <4>4. y >= z /\ y \in Int /\ z \in Int
          BY <1>1, <3>3, <4>2, <4>3
        <4> QED
          BY <1>1, <2>4, <3>3, <4>3, <4>4
      <3> QED
        BY <3>2, <3>3, <3>4, <3>5
    <2>6. /\ EntryCount \in Nat \ {0} /\ page \in Int /\ FirstKernelDir + q \in Int
          /\ r \in 0 .. (EntryCount - 1) /\ page = EntryCount * (FirstKernelDir + q) + r
      <3>1. EntryCount * (FirstKernelDir + q) = FirstKernelDir * EntryCount + EntryCount * q
        BY <1>1, TableSizes
      <3>2. PICK y, z : y = EntryCount * (FirstKernelDir + q) /\ z = EntryCount * q
        OBVIOUS
      <3>3. y = KernelStart + z /\ z \in Int
        BY <1>1, <3>1, <3>2 DEF KernelStart
      <3>4. page = y + r
        BY <1>1, <2>2, <2>4, <3>2, <3>3, TableSizes
      <3> QED
        BY <1>1, <3>2, <3>4, TableSizes
    <2>7. page \div EntryCount = FirstKernelDir + q
      BY <2>6, DivMod
    <2>8. e = FirstKernelDir + q /\ e \in Dirs /\ e # 0
      BY <1>2, <2>5, <2>7, LayoutAssumption DEF Dirs
    <2> QED
      BY <1>2, <1>3, <1>5, <2>2, <2>4, <2>8, TableSizes
  <1> QED
    BY <1>4, <1>5

(* The pages of the kernel's table lie in the span of its first entry,     *)
LEMMA KernelPage ==
    ASSUME NEW k \in Entries
    PROVE  /\ InKernel(k) \in Pages
           /\ InKernel(k) \div EntryCount = FirstKernelDir /\ InKernel(k) % EntryCount = k
  <1>1. FirstKernelDir \in Nat /\ k \in Entries /\ InKernel(k) = FirstKernelDir * EntryCount + k
    BY TableSizes DEF InKernel, KernelStart
  <1>2. InKernel(k) \in Pages
    BY TableSizes, LayoutAssumption DEF InKernel, Pages, Entries
  <1> QED
    BY <1>1, <1>2, EntriesOf

(* those of the first 4MB in the span of entry 0.                          *)
LEMMA LowPage ==
    ASSUME NEW p \in Entries
    PROVE  p \in Pages /\ p \div EntryCount = 0 /\ p % EntryCount = p
  <1>1. EntryCount \in Nat \ {0} /\ p \in Int /\ 0 \in Int
        /\ p \in 0 .. (EntryCount - 1) /\ p = EntryCount * 0 + p
    BY TableSizes DEF Entries
  <1> QED
    BY <1>1, DivMod DEF Pages

(* The boot loader's directory: low pages are themselves, and the kernel's *)
(* pages are where it was loaded.                                          *)
LEMMA TranslateBoot ==
    ASSUME BootTables(mem), cr3 = BootDirectory
    PROVE  \A p \in Entries : Translate(p) = p /\ Translate(InKernel(p)) = KernelPhysical + p
  <1> SUFFICES ASSUME NEW p \in Entries
               PROVE  Translate(p) = p /\ Translate(InKernel(p)) = KernelPhysical + p
    OBVIOUS
  <1>1. cr3 # Off /\ cr3 \in Frames /\ BootTable0 \in Frames /\ BootTable768 \in Frames
    BY Images DEF Off
  <1> QED
    BY <1>1, LowPage, KernelPage DEF Translate, At, BootTables

(* The kernel's directory leads where it maps. *)
LEMMA TranslateKernel ==
    ASSUME cr3 = KernelDirectory, NEW page \in Pages, NEW frame, Mapped(mem, page, frame)
    PROVE  Translate(page) = frame
  <1>1. page \div EntryCount \in Dirs
    BY PagesOf
  <1>2. cr3 # Off /\ cr3 \in Frames /\ KernelTable(page \div EntryCount) \in Frames
    BY <1>1, TableFrames, Images DEF Off, Frames
  <1> QED
    BY <1>2 DEF Translate, At, Mapped

(* So the kernel finds its own pages, its tables among them. *)
UnderTables == \/ cr3 = BootDirectory /\ BootTables(mem)
               \/ cr3 = KernelDirectory /\ KernelMapped(mem, KernelPages)

(* Either directory leads the kernel's pages to its image.                 *)
LEMMA KernelFound ==
    ASSUME UnderTables, NEW k \in 0 .. KernelPages - 1
    PROVE  Translate(InKernel(k)) = KernelPhysical + k
  <1>1. k \in Entries
    BY Images, TableSizes DEF Entries
  <1>2. CASE cr3 = BootDirectory /\ BootTables(mem)
    BY <1>1, <1>2, TranslateBoot
  <1>3. CASE cr3 = KernelDirectory /\ KernelMapped(mem, KernelPages)
    BY <1>1, <1>3, KernelPage, TranslateKernel DEF KernelMapped
  <1> QED
    BY <1>2, <1>3 DEF UnderTables

(* What Map does to the tables: it links the table when the entry is       *)
(* absent, and writes the page's entry.                                    *)
Link(m, e) == IF m[KernelDirectory][e] # Absent THEN m
              ELSE [m EXCEPT ![KernelDirectory][e] = KernelTable(e)]

(* Linking a table keeps every translation, and the links right.           *)
LEMMA LinkKeeps ==
    ASSUME NEW m, IsMemory(m), LinksRight(m), NEW e \in Dirs
    PROVE  /\ IsMemory(Link(m, e)) /\ LinksRight(Link(m, e))
           /\ Link(m, e)[KernelDirectory][e] = KernelTable(e)
           /\ BootTables(m) => BootTables(Link(m, e))
           /\ \A q \in Pages : \A f : Mapped(m, q, f) => Mapped(Link(m, e), q, f)
  <1>1. CASE m[KernelDirectory][e] # Absent
    BY <1>1 DEF Link, LinksRight
  <1>2. CASE m[KernelDirectory][e] = Absent
    <2> DEFINE n == [m EXCEPT ![KernelDirectory][e] = KernelTable(e)]
    <2>1. Link(m, e) = n
      BY <1>2 DEF Link
    <2>2. KernelDirectory \in Frames /\ e \in Entries /\ KernelTable(e) \in Frames
      BY TableFrames
    <2>3. \A f \in Frames, d \in Entries :
             n[f][d] = IF f = KernelDirectory /\ d = e THEN KernelTable(e) ELSE m[f][d]
      BY <2>2 DEF IsMemory
    <2>4. IsMemory(n)
      BY <2>2 DEF IsMemory
    <2> HIDE DEF n
    <2>5. LinksRight(n)
      BY <2>2, <2>3, TableFrames DEF LinksRight
    <2>6. n[KernelDirectory][e] = KernelTable(e)
      BY <2>2, <2>3
    <2>7. BootTables(m) => BootTables(n)
      <3>1. 0 \in Entries /\ FirstKernelDir \in Entries
        BY TableSizes, LayoutAssumption DEF Entries
      <3>2. /\ BootDirectory # KernelDirectory /\ BootTable0 # KernelDirectory
            /\ BootTable768 # KernelDirectory
        BY Images, TableFrames
      <3> QED
        BY <2>3, <3>1, <3>2, Images DEF BootTables
    <2>8. \A q \in Pages : \A f : Mapped(m, q, f) => Mapped(n, q, f)
      <3> SUFFICES ASSUME NEW q \in Pages, NEW f, Mapped(m, q, f)
                   PROVE  Mapped(n, q, f)
        OBVIOUS
      <3>1. q \div EntryCount \in Dirs /\ q % EntryCount \in Entries
        BY PagesOf
      <3>2. q \div EntryCount \in Entries /\ KernelTable(q \div EntryCount) \in Frames
            /\ KernelTable(q \div EntryCount) # KernelDirectory
            /\ KernelTable(q \div EntryCount) # Absent
        BY <3>1, TableFrames DEF Absent, Frames
      <3>3. q \div EntryCount # e
        BY <1>2, <3>2 DEF Mapped
      <3> QED
        BY <2>2, <2>3, <3>1, <3>2, <3>3 DEF Mapped
    <2> QED
      BY <2>1, <2>4, <2>5, <2>6, <2>7, <2>8
  <1> QED
    BY <1>1, <1>2

Put(m, page, frame) ==
    [m EXCEPT ![KernelTable(page \div EntryCount)][page % EntryCount] = frame]

(* Writing a page's entry keeps every other page's translation.            *)
LEMMA PutKeeps ==
    ASSUME NEW m, IsMemory(m), LinksRight(m), NEW page \in Pages, NEW frame,
           m[KernelDirectory][page \div EntryCount] = KernelTable(page \div EntryCount)
    PROVE  /\ IsMemory(Put(m, page, frame)) /\ LinksRight(Put(m, page, frame))
           /\ BootTables(m) => BootTables(Put(m, page, frame))
           /\ \A q \in Pages : \A f : Mapped(m, q, f) /\ q # page
                                    => Mapped(Put(m, page, frame), q, f)
           /\ Mapped(Put(m, page, frame), page, frame)
  <1>1. PICK e \in Dirs, o \in Entries :
            page = e * EntryCount + o /\ page \div EntryCount = e /\ page % EntryCount = o
    BY PagesOf
  <1>2. PICK n : n = [m EXCEPT ![KernelTable(e)][o] = frame]
    OBVIOUS
  <1>3. Put(m, page, frame) = n
    BY <1>1, <1>2 DEF Put
  <1>4. /\ KernelDirectory \in Frames /\ KernelTable(e) \in Frames /\ e \in Entries
        /\ KernelTable(e) > KernelDirectory /\ KernelTable(e) # KernelDirectory
    BY TableFrames DEF Frames
  <1>5. \A f \in Frames, d \in Entries :
             n[f][d] = IF f = KernelTable(e) /\ d = o THEN frame ELSE m[f][d]
    BY <1>1, <1>2, <1>4 DEF IsMemory
  <1>6. IsMemory(n)
    BY <1>1, <1>2, <1>4 DEF IsMemory
  <1>7. \A d \in Dirs : d \in Entries /\ n[KernelDirectory][d] = m[KernelDirectory][d]
    BY <1>4, <1>5, TableFrames
  <1>8. LinksRight(n)
    BY <1>7 DEF LinksRight
  <1>9. BootTables(m) => BootTables(n)
    <2>1. 0 \in Entries /\ FirstKernelDir \in Entries
      BY TableSizes, LayoutAssumption DEF Entries
    <2>2. /\ BootDirectory # KernelTable(e) /\ BootTable0 # KernelTable(e)
          /\ BootTable768 # KernelTable(e)
      BY Images, TableFrames DEF Frames
    <2> QED
      BY <1>5, <2>1, <2>2, Images DEF BootTables
  <1>10. \A q \in Pages : \A f : Mapped(m, q, f) /\ q # page => Mapped(n, q, f)
    <2> SUFFICES ASSUME NEW q \in Pages, NEW f, Mapped(m, q, f), q # page
                 PROVE  Mapped(n, q, f)
      OBVIOUS
    <2>1. PICK d \in Dirs, p \in Entries :
              q = d * EntryCount + p /\ q \div EntryCount = d /\ q % EntryCount = p
      BY PagesOf
    <2>2. ~ (d = e /\ p = o)
      BY <1>1, <2>1
    <2>3. KernelTable(d) \in Frames /\ (KernelTable(d) = KernelTable(e) => d = e)
      BY TableFrames
    <2>4. n[KernelTable(d)][p] = m[KernelTable(d)][p]
      BY <1>5, <2>1, <2>2, <2>3
    <2> QED
      BY <1>7, <2>1, <2>4 DEF Mapped
  <1>11. Mapped(n, page, frame)
    BY <1>1, <1>4, <1>5, <1>7 DEF Mapped
  <1> QED
    BY <1>3, <1>6, <1>8, <1>9, <1>10, <1>11

(* Addresses below 4GB are not wrapped.                                    *)
LEMMA SmallRemainder ==
    ASSUME NEW a \in 0 .. VPages - 1
    PROVE  a % VPages = a
  <1>1. VPages \in Nat \ {0} /\ a \in Int /\ 0 \in Int
        /\ a \in 0 .. (VPages - 1) /\ a = VPages * 0 + a
    BY TableSizes
  <1> QED
    BY <1>1, DivMod

(* One round of MapRange, whatever it maps: the page gets its entry, or it *)
(* has one already and the kernel panics, and nothing else is undone.      *)
LEMMA MapStep ==
    ASSUME IsMemory(mem), LinksRight(mem), UnderTables,
           util = [virtual |-> KernelStart, physical |-> KernelPhysical],
           MapPage, Request.page + i \in Pages
    PROVE  /\ IsMemory(mem') /\ LinksRight(mem')
           /\ BootTables(mem) => BootTables(mem')
           /\ \A q \in Pages : \A f : Mapped(mem, q, f) /\ q # Request.page + i
                                    => Mapped(mem', q, f)
           /\ \/ /\ Mapped(mem', Request.page + i, (Request.frame + i) % VPages)
                 /\ Round(Request.count, NextStep)
              \/ pc' = "panic" /\ i' = i
  <1>1. PICK page : page = Request.page + i
    OBVIOUS
  <1>2. page \in Pages
    BY <1>1
  <1>3. PICK e \in Dirs, o \in Entries :
              /\ page = e * EntryCount + o
              /\ page \div EntryCount = e /\ page % EntryCount = o
              /\ (e = 0 <=> page \in Entries)
              /\ page \notin Entries => (page - KernelStart) \div EntryCount = e - FirstKernelDir
    BY <1>2, PagesOf
  <1>4. Translate(InKernel(Directory)) = KernelDirectory
    <2>1. Directory \in 0 .. KernelPages - 1
      BY Images, LayoutAssumption
    <2> QED
      BY <2>1, KernelFound DEF KernelDirectory
  <1>5. PICK k \in Directory .. Stack - 1 : KernelTable(e) = KernelPhysical + k
    <2>1. KernelTable(e) - KernelPhysical \in Directory .. Stack - 1 /\ KernelTable(e) \in Frames
      BY TableFrames
    <2>2. KernelTable(e) = KernelPhysical + (KernelTable(e) - KernelPhysical)
      BY <2>1, Images, TableSizes DEF Frames
    <2> QED
      BY <2>1, <2>2
  <1>6. k \in 0 .. KernelPages - 1 /\ k \in Nat /\ k \in Entries
    BY Images, TableSizes DEF Entries
  <1>7. TableOf(page) = InKernel(k)
    <2>1. CASE e = 0
      <3>1. KernelTable(e) = KernelPhysical + Table0 /\ k = Table0
        BY <1>5, <1>6, <2>1, Images DEF KernelTable
      <3> QED
        BY <1>3, <2>1, <3>1 DEF TableOf
    <2>2. CASE e # 0
      <3>1. e \in Nat
        BY TableFrames DEF Entries
      <3>2. KernelTable(e) = KernelPhysical + Tables768 + (e - FirstKernelDir)
        BY <2>2 DEF KernelTable
      <3>3. k = Tables768 + (e - FirstKernelDir)
        BY <1>5, <1>6, <3>1, <3>2, Images, TableSizes
      <3>4. (page - KernelStart) \div EntryCount = e - FirstKernelDir
        BY <1>3, <2>2
      <3> QED
        BY <1>3, <2>2, <3>3, <3>4 DEF TableOf
    <2> QED
      BY <2>1, <2>2
  <1>8. KernelVirtualToPhysicalAddress(TableOf(page)) = KernelTable(e)
    <2>1. InKernel(k) - util.virtual + util.physical = KernelPhysical + k
      BY <1>6, TableSizes, Images DEF InKernel
    <2>2. KernelPhysical + k \in 0 .. VPages - 1
      BY <1>6, TableSizes, Images
    <2> QED
      BY <1>5, <1>7, <2>1, <2>2, SmallRemainder DEF KernelVirtualToPhysicalAddress
  <1>9. At(KernelDirectory, e) = mem[KernelDirectory][e]
    BY TableFrames DEF At
  <1>10. PICK linked : linked = Link(mem, e)
    OBVIOUS
  <1>11. linked = IF At(KernelDirectory, e) # Absent THEN mem
                  ELSE [mem EXCEPT ![KernelDirectory][e] =
                           KernelVirtualToPhysicalAddress(TableOf(page))]
    BY <1>8, <1>9, <1>10 DEF Link
  <1>12. /\ IsMemory(linked) /\ LinksRight(linked)
         /\ linked[KernelDirectory][e] = KernelTable(e)
         /\ BootTables(mem) => BootTables(linked)
         /\ \A q \in Pages : \A f : Mapped(mem, q, f) => Mapped(linked, q, f)
    BY <1>10, LinkKeeps
  <1>13. Translate(KernelPhysicalToVirtualAddress(linked[KernelDirectory][e])) = KernelTable(e)
    <2>1. KernelTable(e) + util.virtual - util.physical = InKernel(k)
      BY <1>5, <1>6, TableSizes, Images DEF InKernel
    <2>2. InKernel(k) \in 0 .. VPages - 1
      BY <1>6, TableSizes, Images DEF InKernel, Entries
    <2>3. KernelPhysicalToVirtualAddress(KernelTable(e)) = InKernel(k)
      BY <2>1, <2>2, SmallRemainder DEF KernelPhysicalToVirtualAddress
    <2> QED
      BY <1>5, <1>6, <1>12, <2>3, KernelFound
  <1>14. IF linked[KernelTable(e)][o] = Absent
         THEN /\ mem' = [linked EXCEPT ![KernelTable(e)][o] = (Request.frame + i) % VPages]
              /\ Round(Request.count, NextStep)
         ELSE mem' = linked /\ pc' = "panic" /\ UNCHANGED i
    BY <1>1, <1>3, <1>4, <1>11, <1>13 DEF MapPage
  <1>15. CASE linked[KernelTable(e)][o] = Absent
    <2>1. PICK frame : frame = (Request.frame + i) % VPages
      OBVIOUS
    <2>2. mem' = Put(linked, page, frame) /\ Round(Request.count, NextStep)
      BY <1>3, <1>14, <1>15, <2>1 DEF Put
    <2>3. linked[KernelDirectory][page \div EntryCount] = KernelTable(page \div EntryCount)
      BY <1>3, <1>12
    <2>4. /\ IsMemory(mem') /\ LinksRight(mem')
          /\ BootTables(linked) => BootTables(mem')
          /\ \A q \in Pages : \A f : Mapped(linked, q, f) /\ q # page => Mapped(mem', q, f)
          /\ Mapped(mem', page, frame)
      BY <1>2, <1>12, <2>2, <2>3, PutKeeps
    <2> QED
      BY <1>1, <1>12, <2>1, <2>2, <2>4
  <1>16. CASE linked[KernelTable(e)][o] # Absent
    <2>1. mem' = linked /\ pc' = "panic" /\ i' = i
      BY <1>14, <1>16
    <2> QED
      BY <1>12, <2>1
  <1> QED
    BY <1>15, <1>16

-----------------------------------------------------------------------------
(* The steps. *)

(* _kernelstart is entered with paging off.                                *)
LEMMA TablesInit == BootInit => TablesInv
  <1> SUFFICES ASSUME BootInit PROVE TablesInv
    OBVIOUS
  <1>1. pc = "start" /\ i = 0 /\ cr3 = Off
    BY DEF BootInit
  <1>2. IsMemory(mem)
    BY DEF BootInit, IsMemory, Entries
  <1>3. CounterInv
    BY <1>1 DEF CounterInv, PagingOff, LoopPcs, MapSteps
  <1>4. LoaderInv
    BY DEF BootInit, LoaderInv
  <1>5. KnownInv
    BY <1>1, Sequels DEF KnownInv
  <1>6. BootTablesInv
    BY <1>1, <1>2 DEF BootTablesInv, PagingOff, UnderBoot, UnderKernel
  <1>7. KernelTablesInv
    BY <1>1, Sequels DEF KernelTablesInv
  <1> QED
    BY <1>3, <1>4, <1>5, <1>6, <1>7 DEF TablesInv

(* The registers are saved. *)
LEMMA SaveStep ==
    ASSUME TablesInv, SaveRegisters
    PROVE  TablesInv'
  <1>1. pc = "start"
    BY DEF SaveRegisters
  <1>2. pc' = "identity"
    BY DEF SaveRegisters
  <1>3. UNCHANGED <<loader, i, mem, cr3, bootInfo, util, heap>>
    BY DEF SaveRegisters
  <1>4. i = 0 /\ 0 .. -1 = {} /\ EntryCount > 0
    BY <1>1, TableSizes DEF TablesInv, CounterInv, LoopPcs, MapSteps
  <1>5. CounterInv'
    BY <1>1, <1>2, <1>3, <1>4 DEF TablesInv, CounterInv, PagingOff, UnderBoot, UnderKernel,
                            LoopPcs, MapSteps
  <1>6. LoaderInv'
    BY <1>3 DEF TablesInv, LoaderInv
  <1>7. KnownInv'
    BY <1>1, <1>2, <1>3, Sequels DEF TablesInv, KnownInv
  <1>8. BootTablesInv'
    BY <1>1, <1>2, <1>3, <1>4 DEF TablesInv, BootTablesInv, PagingOff, UnderBoot, UnderKernel
  <1>9. KernelTablesInv'
    BY <1>1, <1>2, <1>3, Sequels DEF TablesInv, KernelTablesInv
  <1> QED
    BY <1>5, <1>6, <1>7, <1>8, <1>9 DEF TablesInv

(* The stack is switched. *)
LEMMA HigherHalfStep ==
    ASSUME TablesInv, HigherHalf
    PROVE  TablesInv'
  <1>1. pc = "jump"
    BY DEF HigherHalf
  <1>2. pc' = "KMain"
    BY DEF HigherHalf
  <1>3. UNCHANGED <<loader, i, mem, cr3, bootInfo, util, heap>>
    BY DEF HigherHalf
  <1>4. CounterInv'
    BY <1>1, <1>2, <1>3 DEF TablesInv, CounterInv, PagingOff, UnderBoot, UnderKernel,
                            LoopPcs, MapSteps
  <1>5. LoaderInv'
    BY <1>3 DEF TablesInv, LoaderInv
  <1>6. KnownInv'
    BY <1>1, <1>2, <1>3, Sequels DEF TablesInv, KnownInv
  <1>7. BootTablesInv'
    BY <1>1, <1>2, <1>3 DEF TablesInv, BootTablesInv, PagingOff, UnderBoot, UnderKernel
  <1>8. KernelTablesInv'
    BY <1>1, <1>2, <1>3, Sequels DEF TablesInv, KernelTablesInv
  <1> QED
    BY <1>4, <1>5, <1>6, <1>7, <1>8 DEF TablesInv

(* KMain looks at its arguments. *)
LEMMA KMainStep ==
    ASSUME TablesInv, KMain
    PROVE  TablesInv'
  <1>1. pc = "KMain"
    BY DEF KMain
  <1>2. \/ pc' = "hang"
        \/ /\ pc' = "VGA"
           /\ bootInfo' = [regions         |-> loader.regions,
                       bootloaderStart |-> LoaderStart,
                       bootloaderSize  |-> LoaderPages,
                       kernelStart     |-> KernelPhysical,
                       kernelSize      |-> KernelPages]
    BY OrderItems DEF KMain
  <1>3. UNCHANGED <<loader, i, mem, cr3, util, heap>>
    BY DEF KMain
  <1>4. CounterInv'
    BY <1>1, <1>2, <1>3 DEF TablesInv, CounterInv, PagingOff, UnderBoot, UnderKernel,
                            LoopPcs, MapSteps
  <1>5. LoaderInv'
    BY <1>3 DEF TablesInv, LoaderInv
  <1>6. KnownInv'
    BY <1>1, <1>2, <1>3, Sequels DEF TablesInv, KnownInv
  <1>7. BootTablesInv'
    BY <1>1, <1>2, <1>3 DEF TablesInv, BootTablesInv, PagingOff, UnderBoot, UnderKernel
  <1>8. KernelTablesInv'
    BY <1>1, <1>2, <1>3, Sequels DEF TablesInv, KernelTablesInv
  <1> QED
    BY <1>4, <1>5, <1>6, <1>7, <1>8 DEF TablesInv

(* A step beside memory. *)
LEMMA DeviceStep ==
    ASSUME TablesInv, InitDevice \/ UseDisk
    PROVE  TablesInv'
  <1>1. pc \in {"VGA", "Processor", "heap", "ATA", "read"}
    BY DEF InitDevice, UseDisk
  <1>2. /\ pc = "VGA" => pc' = "Processor"
        /\ pc = "Processor" => pc' = "MemoryUtil"
        /\ pc = "heap" => pc' = "ATA"
        /\ pc = "ATA" => pc' = "read"
        /\ pc = "read" => pc' = "forever"
    BY <1>1, NextSteps DEF InitDevice, UseDisk
  <1>3. UNCHANGED <<loader, i, mem, cr3, bootInfo, util, heap>>
    BY DEF InitDevice, UseDisk
  <1>4. CounterInv'
    BY <1>1, <1>2, <1>3 DEF TablesInv, CounterInv, PagingOff, UnderBoot, UnderKernel,
                            LoopPcs, MapSteps
  <1>5. LoaderInv'
    BY <1>3 DEF TablesInv, LoaderInv
  <1>6. KnownInv'
    BY <1>1, <1>2, <1>3, Sequels DEF TablesInv, KnownInv
  <1>7. BootTablesInv'
    BY <1>1, <1>2, <1>3 DEF TablesInv, BootTablesInv, PagingOff, UnderBoot, UnderKernel
  <1>8. KernelTablesInv'
    BY <1>1, <1>2, <1>3, Sequels DEF TablesInv, KernelTablesInv, HeapMapped
  <1> QED
    BY <1>4, <1>5, <1>6, <1>7, <1>8 DEF TablesInv

(* MemoryUtil::Init. *)
LEMMA UtilStep ==
    ASSUME TablesInv, InitMemoryUtil
    PROVE  TablesInv'
  <1>1. pc = "MemoryUtil"
    BY DEF InitMemoryUtil
  <1>2. /\ pc' = "PMM"
        /\ util' = [virtual |-> KernelStart, physical |-> bootInfo.kernelStart]
    BY <1>1, NextSteps DEF InitMemoryUtil
  <1>3. UNCHANGED <<loader, i, mem, cr3, bootInfo, heap>>
    BY DEF InitMemoryUtil
  <1>4. bootInfo.kernelStart = KernelPhysical
    <2>1. bootInfo = [regions         |-> loader.regions,
                      bootloaderStart |-> LoaderStart,
                      bootloaderSize  |-> LoaderPages,
                      kernelStart     |-> KernelPhysical,
                      kernelSize      |-> KernelPages]
      BY <1>1, Sequels DEF TablesInv, KnownInv
    <2> QED
      BY <2>1
  <1>5. CounterInv'
    BY <1>1, <1>2, <1>3 DEF TablesInv, CounterInv, PagingOff, UnderBoot, UnderKernel,
                            LoopPcs, MapSteps
  <1>6. LoaderInv'
    BY <1>3 DEF TablesInv, LoaderInv
  <1>7. KnownInv'
    BY <1>1, <1>2, <1>3, <1>4, Sequels DEF TablesInv, KnownInv
  <1>8. BootTablesInv'
    BY <1>1, <1>2, <1>3 DEF TablesInv, BootTablesInv, PagingOff, UnderBoot, UnderKernel
  <1>9. KernelTablesInv'
    BY <1>1, <1>2, <1>3, Sequels DEF TablesInv, KernelTablesInv
  <1> QED
    BY <1>5, <1>6, <1>7, <1>8, <1>9 DEF TablesInv

(* The bitmap is filled. *)
LEMMA BitmapStep ==
    ASSUME TablesInv, InitPhysicalMemoryManager
    PROVE  TablesInv'
  <1>1. pc = "PMM"
    BY DEF InitPhysicalMemoryManager
  <1>2. pc' = "VMM"
    BY <1>1, NextSteps DEF InitPhysicalMemoryManager
  <1>3. UNCHANGED <<loader, i, mem, cr3, bootInfo, util, heap>>
    BY DEF InitPhysicalMemoryManager
  <1>4. CounterInv'
    BY <1>1, <1>2, <1>3 DEF TablesInv, CounterInv, PagingOff, UnderBoot, UnderKernel,
                            LoopPcs, MapSteps
  <1>5. LoaderInv'
    BY <1>3 DEF TablesInv, LoaderInv
  <1>6. KnownInv'
    BY <1>1, <1>2, <1>3, Sequels DEF TablesInv, KnownInv
  <1>7. BootTablesInv'
    BY <1>1, <1>2, <1>3 DEF TablesInv, BootTablesInv, PagingOff, UnderBoot, UnderKernel
  <1>8. KernelTablesInv'
    BY <1>1, <1>2, <1>3, Sequels DEF TablesInv, KernelTablesInv
  <1> QED
    BY <1>4, <1>5, <1>6, <1>7, <1>8 DEF TablesInv

(* The kernel switches to its own directory. *)
LEMMA ReloadStep ==
    ASSUME TablesInv, ReloadPageDirectory
    PROVE  TablesInv'
  <1>1. pc = "reload"
    BY DEF ReloadPageDirectory
  <1>2. /\ pc' = "VMA"
        /\ cr3' = KernelVirtualToPhysicalAddress(InKernel(Directory))
    BY <1>1, NextSteps DEF ReloadPageDirectory
  <1>3. UNCHANGED <<loader, i, mem, bootInfo, util, heap>>
    BY DEF ReloadPageDirectory
  <1>4. cr3' = KernelDirectory
    <2>1. util = [virtual |-> KernelStart, physical |-> KernelPhysical]
      BY <1>1, Sequels DEF TablesInv, KnownInv
    <2>2. InKernel(Directory) - util.virtual + util.physical = KernelDirectory
      BY <2>1, TableSizes, Images DEF InKernel, KernelDirectory
    <2>3. KernelDirectory \in 0 .. VPages - 1
      BY TableFrames DEF Frames
    <2> QED
      BY <1>2, <2>2, <2>3, SmallRemainder DEF KernelVirtualToPhysicalAddress
  <1>5. CounterInv'
    BY <1>1, <1>2, <1>3 DEF TablesInv, CounterInv, PagingOff, UnderBoot, UnderKernel,
                            LoopPcs, MapSteps
  <1>6. LoaderInv'
    BY <1>3 DEF TablesInv, LoaderInv
  <1>7. KnownInv'
    BY <1>1, <1>2, <1>3, Sequels DEF TablesInv, KnownInv
  <1>8. BootTablesInv'
    BY <1>1, <1>2, <1>3, <1>4 DEF TablesInv, BootTablesInv, PagingOff, UnderBoot, UnderKernel
  <1>9. KernelTablesInv'
    BY <1>1, <1>2, <1>3, Sequels DEF TablesInv, KernelTablesInv
  <1> QED
    BY <1>5, <1>6, <1>7, <1>8, <1>9 DEF TablesInv

(* The heap gets its pages, or the kernel panics. *)
LEMMA HeapPagesStep ==
    ASSUME TablesInv, AllocateHeap
    PROVE  TablesInv'
  <1>1. pc = "VMA"
    BY DEF AllocateHeap
  <1>2. \/ pc' = "panic"
        \/ pc' = NextStep /\ heap'.page = KernelStart + 4 * EntryCount
    BY DEF AllocateHeap
  <1>3. pc' = "panic" \/ pc' = "map heap"
    BY <1>1, <1>2, NextSteps
  <1>4. UNCHANGED <<loader, i, mem, cr3, bootInfo, util>>
    BY DEF AllocateHeap
  <1>5. i = 0 /\ i' = 0 /\ HeapPages > 0
    BY <1>1, <1>4, LayoutAssumption DEF TablesInv, CounterInv, LoopPcs, MapSteps
  <1>6. /\ KernelMapped(mem, KernelPages) /\ LowMapped(mem, EntryCount)
        /\ LinksRight(mem) /\ IsMemory(mem)
    BY <1>1, Sequels DEF TablesInv, KernelTablesInv, BootTablesInv
  <1>7. cr3 = KernelDirectory /\ BootTables(mem)
    BY <1>1 DEF TablesInv, BootTablesInv, PagingOff, UnderKernel
  <1>8. LoaderInv'
    BY <1>4 DEF TablesInv, LoaderInv
  <1>9. KnownInv'
    BY <1>1, <1>2, <1>3, <1>4, Sequels DEF TablesInv, KnownInv
  <1>10. CASE pc' = "panic"
    <2>1. CounterInv'
      BY <1>4, <1>5, <1>10
      DEF TablesInv, CounterInv, PagingOff, UnderBoot, UnderKernel, LoopPcs, MapSteps
    <2>2. BootTablesInv'
      BY <1>4, <1>6, <1>7, <1>10 DEF BootTablesInv, PagingOff, UnderBoot, UnderKernel, KernelMapped
    <2>3. KernelTablesInv'
      BY <1>10, Sequels DEF KernelTablesInv
    <2> QED
      BY <1>8, <1>9, <2>1, <2>2, <2>3 DEF TablesInv
  <1>11. CASE pc' = "map heap"
    <2>1. CounterInv'
      BY <1>4, <1>5, <1>11
      DEF TablesInv, CounterInv, PagingOff, UnderBoot, UnderKernel, LoopPcs, MapSteps
    <2>2. BootTablesInv'
      BY <1>4, <1>6, <1>7, <1>11 DEF BootTablesInv, PagingOff, UnderBoot, UnderKernel
    <2>3. HeapMapped(mem, i)'
      BY <1>5 DEF HeapMapped
    <2>4. KernelTablesInv'
      BY <1>4, <1>6, <1>11, <2>3, Sequels DEF KernelTablesInv
    <2> QED
      BY <1>8, <1>9, <2>1, <2>2, <2>4 DEF TablesInv
  <1> QED
    BY <1>3, <1>10, <1>11

(* A round of a loop: where it ends, and where it goes on. *)
LEMMA RoundIs ==
    ASSUME NEW count, NEW step, Round(count, step)
    PROVE  \/ i + 1 < count /\ i' = i + 1 /\ pc' = pc
           \/ ~ (i + 1 < count) /\ i' = 0 /\ pc' = step
  BY DEF Round

(* The boot's tables are filled, an entry a round. *)
LEMMA FillStep ==
    ASSUME TablesInv, FillBootTables
    PROVE  TablesInv'
  <1>1. UNCHANGED <<loader, cr3, bootInfo, util, heap>>
    BY DEF FillBootTables
  <1>2. IsMemory(mem) /\ i \in Nat
    BY DEF TablesInv, BootTablesInv, CounterInv
  <1>3. LoaderInv'
    BY <1>1 DEF TablesInv, LoaderInv
  <1>4. BootTable0 \in Frames /\ BootTable768 \in Frames /\ BootTable0 # BootTable768
    BY Images
  <1>5. CASE pc = "identity"
    <2>1. mem' = [mem EXCEPT ![BootTable0][i] = i] /\ Round(EntryCount, "higher")
      BY <1>5 DEF FillBootTables
    <2>2. i \in Entries /\ cr3 = Off /\ \A e \in 0 .. i - 1 : mem[BootTable0][e] = e
      <3>1. i < EntryCount
        BY <1>5 DEF TablesInv, CounterInv
      <3>2. cr3 = Off /\ \A e \in 0 .. i - 1 : mem[BootTable0][e] = e
        BY <1>5 DEF TablesInv, BootTablesInv, PagingOff
      <3> QED
        BY <1>2, <3>1, <3>2, TableSizes DEF Entries
    <2>3. \A f \in Frames, e \in Entries :
             mem'[f][e] = IF f = BootTable0 /\ e = i THEN i ELSE mem[f][e]
      BY <1>2, <1>4, <2>1, <2>2 DEF IsMemory
    <2>4. IsMemory(mem')
      BY <1>2, <1>4, <2>1, <2>2 DEF IsMemory
    <2>5. \A e \in 0 .. i : mem'[BootTable0][e] = e
      <3>1. \A e \in 0 .. i : e \in Entries /\ (e = i \/ e \in 0 .. i - 1)
        BY <1>2, <2>2, TableSizes DEF Entries
      <3> QED
        BY <1>4, <2>2, <2>3, <3>1
    <2>6. \/ i + 1 < EntryCount /\ i' = i + 1 /\ pc' = "identity"
          \/ i + 1 >= EntryCount /\ i' = 0 /\ pc' = "higher"
      BY <1>2, <1>5, <2>1, RoundIs, TableSizes
    <2>7. \A e \in 0 .. i' - 1 : pc' = "identity" => mem'[BootTable0][e] = e
      BY <1>2, <2>5, <2>6
    <2>8. pc' = "higher" => /\ \A e \in Entries : mem'[BootTable0][e] = e
                            /\ \A e \in 0 .. i' - 1 : mem'[BootTable768][e] = KernelPhysical + e
      <3>1. i + 1 >= EntryCount => \A e \in Entries : e \in 0 .. i
        BY <1>2, TableSizes DEF Entries
      <3>2. \A e \in 0 .. 0 - 1 : FALSE
        OBVIOUS
      <3>3. pc' = "higher" => i + 1 >= EntryCount /\ i' = 0
        BY <2>6
      <3> QED
        BY <2>5, <3>1, <3>2, <3>3
    <2>9. CounterInv'
      <3>1. i' \in Nat /\ i' < EntryCount
        BY <1>2, <2>6, TableSizes
      <3> QED
        BY <2>6, <3>1 DEF CounterInv, PagingOff, LoopPcs, MapSteps
    <2>10. KnownInv' /\ KernelTablesInv'
      BY <2>6, Sequels DEF KnownInv, KernelTablesInv
    <2>11. BootTablesInv'
      BY <1>1, <2>2, <2>4, <2>6, <2>7, <2>8 DEF BootTablesInv, PagingOff, UnderBoot, UnderKernel
    <2> QED
      BY <1>3, <2>9, <2>10, <2>11 DEF TablesInv
  <1>6. CASE pc = "higher"
    <2>1. /\ mem' = [mem EXCEPT ![BootTable768][i] = KernelPhysical + i]
          /\ Round(EntryCount, "directory")
      BY <1>6 DEF FillBootTables
    <2>2. /\ i \in Entries /\ cr3 = Off
          /\ \A e \in Entries : mem[BootTable0][e] = e
          /\ \A e \in 0 .. i - 1 : mem[BootTable768][e] = KernelPhysical + e
      <3>1. i < EntryCount
        BY <1>6 DEF TablesInv, CounterInv
      <3>2. /\ cr3 = Off
            /\ \A e \in Entries : mem[BootTable0][e] = e
            /\ \A e \in 0 .. i - 1 : mem[BootTable768][e] = KernelPhysical + e
        BY <1>6 DEF TablesInv, BootTablesInv, PagingOff
      <3> QED
        BY <1>2, <3>1, <3>2, TableSizes DEF Entries
    <2>3. \A f \in Frames, e \in Entries :
             mem'[f][e] = IF f = BootTable768 /\ e = i THEN KernelPhysical + i ELSE mem[f][e]
      BY <1>2, <1>4, <2>1, <2>2 DEF IsMemory
    <2>4. IsMemory(mem')
      BY <1>2, <1>4, <2>1, <2>2 DEF IsMemory
    <2>5. /\ \A e \in 0 .. i : mem'[BootTable768][e] = KernelPhysical + e
          /\ \A e \in Entries : mem'[BootTable0][e] = e
      <3>1. \A e \in 0 .. i : e \in Entries /\ (e = i \/ e \in 0 .. i - 1)
        BY <1>2, <2>2, TableSizes DEF Entries
      <3> QED
        BY <1>4, <2>2, <2>3, <3>1
    <2>6. \/ i + 1 < EntryCount /\ i' = i + 1 /\ pc' = "higher"
          \/ i + 1 >= EntryCount /\ i' = 0 /\ pc' = "directory"
      BY <1>2, <1>6, <2>1, RoundIs, TableSizes
    <2>7. \A e \in 0 .. i' - 1 : pc' = "higher" => mem'[BootTable768][e] = KernelPhysical + e
      BY <1>2, <2>5, <2>6
    <2>8. pc' = "directory" => \A e \in Entries : mem'[BootTable768][e] = KernelPhysical + e
      <3>1. i + 1 >= EntryCount => \A e \in Entries : e \in 0 .. i
        BY <1>2, TableSizes DEF Entries
      <3>2. \A e \in 0 .. 0 - 1 : FALSE
        OBVIOUS
      <3>3. pc' = "directory" => i + 1 >= EntryCount /\ i' = 0
        BY <2>6
      <3> QED
        BY <2>5, <3>1, <3>2, <3>3
    <2>9. CounterInv'
      <3>1. i' \in Nat /\ i' < EntryCount
        BY <1>2, <2>6, TableSizes
      <3> QED
        BY <2>6, <3>1 DEF CounterInv, PagingOff, LoopPcs, MapSteps
    <2>10. KnownInv' /\ KernelTablesInv'
      BY <2>6, Sequels DEF KnownInv, KernelTablesInv
    <2>11. BootTablesInv'
      BY <1>1, <2>2, <2>4, <2>5, <2>6, <2>7, <2>8
      DEF BootTablesInv, PagingOff, UnderBoot, UnderKernel
    <2> QED
      BY <1>3, <2>9, <2>10, <2>11 DEF TablesInv
  <1> QED
    BY <1>5, <1>6 DEF FillBootTables

(* The boot's directory is completed, and in force. *)
LEMMA EnableStep ==
    ASSUME TablesInv, EnablePaging
    PROVE  TablesInv'
  <1>1. /\ pc = "directory" /\ pc' = "jump" /\ cr3' = BootDirectory
        /\ UNCHANGED <<loader, i, bootInfo, util, heap>>
    BY DEF EnablePaging
  <1>2. /\ IsMemory(mem) /\ i = 0
        /\ \A e \in Entries : mem[BootTable0][e] = e /\ mem[BootTable768][e] = KernelPhysical + e
    BY <1>1 DEF TablesInv, BootTablesInv, CounterInv, LoopPcs, MapSteps
  <1>3. /\ BootDirectory \in Frames /\ BootTable0 \in Frames /\ BootTable768 \in Frames
        /\ BootDirectory # BootTable0 /\ BootDirectory # BootTable768
    BY Images
  <1>4. 0 \in Entries /\ FirstKernelDir \in Entries /\ FirstKernelDir # 0
    BY TableSizes, LayoutAssumption DEF Entries
  <1>5. PICK a : a = [mem EXCEPT ![BootDirectory][0] = BootTable0]
    OBVIOUS
  <1>6. mem' = [a EXCEPT ![BootDirectory][FirstKernelDir] = BootTable768]
    BY <1>5 DEF EnablePaging
  <1>7. IsMemory(a) /\ a[BootDirectory][0] = BootTable0
        /\ \A f \in Frames : f # BootDirectory => a[f] = mem[f]
    <2>1. \A f \in Frames, e \in Entries :
             a[f][e] = IF f = BootDirectory /\ e = 0 THEN BootTable0 ELSE mem[f][e]
      BY <1>2, <1>3, <1>4, <1>5 DEF IsMemory
    <2>2. IsMemory(a)
      BY <1>2, <1>3, <1>4, <1>5 DEF IsMemory
    <2>3. \A f \in Frames : f # BootDirectory => a[f] = mem[f]
      BY <1>2, <1>5 DEF IsMemory
    <2> QED
      BY <1>3, <1>4, <2>1, <2>2, <2>3
  <1>8. IsMemory(mem') /\ mem'[BootDirectory][FirstKernelDir] = BootTable768
        /\ mem'[BootDirectory][0] = a[BootDirectory][0]
        /\ \A f \in Frames : f # BootDirectory => mem'[f] = a[f]
    BY <1>3, <1>4, <1>6, <1>7 DEF IsMemory
  <1>9. BootTables(mem')
    BY <1>2, <1>3, <1>7, <1>8 DEF BootTables
  <1>10. CounterInv'
    BY <1>1, <1>2 DEF CounterInv, PagingOff, UnderBoot, LoopPcs, MapSteps
  <1>11. LoaderInv'
    BY <1>1 DEF TablesInv, LoaderInv
  <1>12. KnownInv' /\ KernelTablesInv'
    BY <1>1, Sequels DEF KnownInv, KernelTablesInv
  <1>13. BootTablesInv'
    BY <1>1, <1>8, <1>9 DEF BootTablesInv, PagingOff, UnderBoot, UnderKernel
  <1> QED
    BY <1>10, <1>11, <1>12, <1>13 DEF TablesInv

(* The kernel's tables are zeroed through the boot's directory. *)
LEMMA ZeroStep ==
    ASSUME TablesInv, InitPageTables
    PROVE  TablesInv'
  <1>1. pc = "VMM" /\ UNCHANGED <<loader, i, cr3, bootInfo, util, heap>>
    BY DEF InitPageTables
  <1>2. pc' = "map first 4MB"
    BY <1>1, NextSteps DEF InitPageTables
  <1>3. IsMemory(mem) /\ BootTables(mem) /\ cr3 = BootDirectory /\ i = 0 /\ EntryCount > 0
    BY <1>1, TableSizes
    DEF TablesInv, BootTablesInv, CounterInv, LoopPcs, MapSteps, PagingOff, UnderBoot
  <1>4. PICK zeroed : zeroed = {Translate(InKernel(k)) : k \in Directory .. Stack - 1}
    OBVIOUS
  <1>5. /\ \A f \in zeroed : f > BootStack
        /\ KernelDirectory \in zeroed
    <2>1. \A k \in Directory .. Stack - 1 : /\ k \in 0 .. KernelPages - 1
                                            /\ Translate(InKernel(k)) = KernelPhysical + k
      BY <1>3, Images, KernelFound DEF UnderTables
    <2>2. Directory \in Directory .. Stack - 1
      BY Images, LayoutAssumption
    <2> QED
      BY <1>4, <2>1, <2>2, Images DEF KernelDirectory
  <1>6. mem' = [f \in Frames |-> IF f \in zeroed THEN [e \in Entries |-> Absent] ELSE mem[f]]
    BY <1>4 DEF InitPageTables, Entries
  <1>7. IsMemory(mem')
    <2>1. \A f \in Frames : mem[f] = [e \in Entries |-> mem[f][e]]
      BY <1>3 DEF IsMemory
    <2> QED
      BY <1>6, <2>1 DEF IsMemory
  <1>8. BootTables(mem')
    <2>1. /\ BootDirectory \notin zeroed /\ BootTable0 \notin zeroed /\ BootTable768 \notin zeroed
          /\ BootDirectory \in Frames /\ BootTable0 \in Frames /\ BootTable768 \in Frames
      BY <1>5, Images
    <2> QED
      BY <1>3, <1>6, <2>1 DEF BootTables
  <1>9. LinksRight(mem')
    BY <1>5, <1>6, TableFrames DEF LinksRight
  <1>10. CounterInv'
    BY <1>1, <1>2, <1>3 DEF CounterInv, UnderBoot, LoopPcs, MapSteps
  <1>11. LoaderInv'
    BY <1>1 DEF TablesInv, LoaderInv
  <1>12. KnownInv'
    BY <1>1, <1>2, Sequels DEF TablesInv, KnownInv
  <1>13. BootTablesInv'
    BY <1>1, <1>2, <1>3, <1>7, <1>8 DEF BootTablesInv, PagingOff, UnderBoot, UnderKernel
  <1>14. LowMapped(mem, i)'
    BY <1>1, <1>3 DEF LowMapped
  <1>15. KernelTablesInv'
    BY <1>2, <1>9, <1>14, Sequels DEF KernelTablesInv
  <1> QED
    BY <1>10, <1>11, <1>12, <1>13, <1>15 DEF TablesInv

(* What a round of a mapping finds. *)
LEMMA MapFinds ==
    ASSUME TablesInv, MapPage
    PROVE  /\ UNCHANGED <<loader, cr3, bootInfo, util, heap>>
           /\ IsMemory(mem) /\ LinksRight(mem) /\ UnderTables /\ BootTables(mem)
           /\ util = [virtual |-> KernelStart, physical |-> KernelPhysical]
           /\ bootInfo.kernelStart = KernelPhysical /\ bootInfo.kernelSize = KernelPages
           /\ i \in Nat
           /\ pc # "map heap" => cr3 = BootDirectory
           /\ pc = "map heap" => /\ cr3 = KernelDirectory
                                 /\ heap.page = KernelStart + 4 * EntryCount
  <1>1. pc \in MapSteps /\ UNCHANGED <<loader, cr3, bootInfo, util, heap>>
    BY DEF MapPage
  <1>2. IsMemory(mem) /\ BootTables(mem) /\ i \in Nat
    BY <1>1 DEF TablesInv, BootTablesInv, CounterInv, PagingOff, MapSteps
  <1>3. LinksRight(mem)
    BY <1>1, Sequels DEF TablesInv, KernelTablesInv, MapSteps
  <1>4. util = [virtual |-> KernelStart, physical |-> KernelPhysical]
    BY <1>1, Sequels DEF TablesInv, KnownInv, MapSteps
  <1>5. bootInfo = [regions         |-> loader.regions,
                    bootloaderStart |-> LoaderStart,
                    bootloaderSize  |-> LoaderPages,
                    kernelStart     |-> KernelPhysical,
                    kernelSize      |-> KernelPages]
    BY <1>1, Sequels DEF TablesInv, KnownInv, MapSteps
  <1>6. bootInfo.kernelStart = KernelPhysical /\ bootInfo.kernelSize = KernelPages
    BY <1>5
  <1>7. /\ pc # "map heap" => cr3 = BootDirectory
        /\ pc = "map heap" => cr3 = KernelDirectory
    BY <1>1 DEF TablesInv, BootTablesInv, MapSteps, UnderBoot, UnderKernel
  <1>8. pc = "map heap" => /\ KernelMapped(mem, KernelPages)
                           /\ heap.page = KernelStart + 4 * EntryCount
    BY Sequels DEF TablesInv, KernelTablesInv, KnownInv
  <1>9. UnderTables
    BY <1>2, <1>7, <1>8 DEF UnderTables
  <1> QED
    BY <1>1, <1>2, <1>3, <1>4, <1>6, <1>7, <1>8, <1>9

(* What a round of a mapping keeps, whatever comes of it. *)
LEMMA MapKeeps ==
    ASSUME TablesInv, MapPage,
           IsMemory(mem'), BootTables(mem'),
           pc = "map heap" => KernelMapped(mem', KernelPages),
           pc' \in {pc, NextStep, "panic"}
    PROVE  LoaderInv' /\ KnownInv' /\ BootTablesInv'
  <1>1. /\ UNCHANGED <<loader, cr3, bootInfo, util, heap>>
        /\ pc # "map heap" => cr3 = BootDirectory
        /\ pc = "map heap" => cr3 = KernelDirectory
    BY MapFinds
  <1>2. pc \in MapSteps
    BY DEF MapPage
  <1>3. \/ pc = "map first 4MB" /\ pc' \in {"map first 4MB", "map kernel", "panic"}
        \/ pc = "map kernel" /\ pc' \in {"map kernel", "map rest", "panic"}
        \/ pc = "map rest" /\ pc' \in {"map rest", "reload", "panic"}
        \/ pc = "map heap" /\ pc' \in {"map heap", "heap", "panic"}
    BY <1>2, NextSteps DEF MapSteps
  <1>4. LoaderInv'
    BY <1>1 DEF TablesInv, LoaderInv
  <1>5. KnownInv'
    BY <1>1, <1>3, Sequels DEF TablesInv, KnownInv
  <1>6. BootTablesInv'
    BY <1>1, <1>3 DEF BootTablesInv, PagingOff, UnderBoot, UnderKernel
  <1> QED
    BY <1>4, <1>5, <1>6

(* A round of InitMemoryManager's MapRange of the first 4MB.               *)
LEMMA MapFirstStep ==
    ASSUME TablesInv, MapPage
    PROVE  pc = "map first 4MB" => TablesInv'
  <1>0. SUFFICES ASSUME pc = "map first 4MB"
                 PROVE  TablesInv'
    OBVIOUS
  <1>1. Request = [page |-> 0, frame |-> 0, count |-> EntryCount]
    BY <1>0 DEF Request
  <1>2. Request.page = 0 /\ Request.frame = 0 /\ Request.count = EntryCount
    BY <1>1
  <1>3. i \in Entries /\ LowMapped(mem, i)
    <2>1. i < EntryCount /\ i \in Nat
      BY <1>0 DEF TablesInv, CounterInv
    <2>2. LowMapped(mem, i)
      BY <1>0 DEF TablesInv, KernelTablesInv
    <2> QED
      BY <2>1, <2>2, TableSizes DEF Entries
  <1>4. Request.page + i = i /\ Request.page + i \in Pages /\ (Request.frame + i) % VPages = i
    <2>1. i \in 0 .. VPages - 1 /\ Request.page + i = i /\ Request.frame + i = i
      BY <1>2, <1>3, TableSizes DEF Entries
    <2> QED
      BY <1>3, <2>1, SmallRemainder DEF Pages
  <1>5. /\ IsMemory(mem') /\ LinksRight(mem') /\ BootTables(mem')
        /\ \A q \in Pages : \A f : Mapped(mem, q, f) /\ q # i => Mapped(mem', q, f)
        /\ \/ Mapped(mem', i, i) /\ Round(EntryCount, NextStep)
           \/ pc' = "panic" /\ i' = i
    BY <1>2, <1>4, MapFinds, MapStep
  <1>6. LowMapped(mem', i)
    <2>1. \A p \in 0 .. i - 1 : p \in Pages /\ p # i
      BY <1>3, TableSizes DEF Entries, Pages
    <2> QED
      BY <1>3, <1>5, <2>1 DEF LowMapped
  <1>7. CASE pc' = "panic" /\ i' = i
    <2>1. CounterInv'
      BY <1>3, <1>7, TableSizes DEF CounterInv, LoopPcs, MapSteps, Entries
    <2>2. KernelTablesInv'
      BY <1>7, Sequels DEF KernelTablesInv
    <2> QED
      BY <1>0, <1>5, <1>7, <2>1, <2>2, MapKeeps DEF TablesInv
  <1>8. CASE Mapped(mem', i, i) /\ Round(EntryCount, NextStep)
    <2>1. LowMapped(mem', i + 1)
      <3>1. \A p \in 0 .. (i + 1) - 1 : p \in 0 .. i - 1 \/ p = i
        BY <1>3, TableSizes DEF Entries
      <3> QED
        BY <1>6, <1>8, <3>1 DEF LowMapped
    <2>2. \/ i + 1 < EntryCount /\ i' = i + 1 /\ pc' = "map first 4MB"
          \/ i + 1 = EntryCount /\ i' = 0 /\ pc' = "map kernel"
      <3>1. ~ (i + 1 < EntryCount) => i + 1 = EntryCount
        BY <1>3, TableSizes DEF Entries
      <3> QED
        BY <1>0, <1>8, <3>1, RoundIs, NextSteps
    <2>3. CounterInv'
      <3>0. (i' = i + 1 /\ i + 1 < EntryCount) \/ i' = 0
        BY <2>2
      <3>1. i' \in Nat /\ i' < EntryCount /\ 0 < KernelPages
        BY <1>3, <3>0, TableSizes, Images, LayoutAssumption DEF Entries
      <3> QED
        BY <2>2, <3>1 DEF CounterInv, UnderBoot, LoopPcs, MapSteps
    <2>4. KernelMapped(mem', 0)
      BY DEF KernelMapped
    <2>5. KernelTablesInv'
      BY <1>5, <2>1, <2>2, <2>4, Sequels DEF KernelTablesInv
    <2> QED
      BY <1>0, <1>5, <2>2, <2>3, <2>5, NextSteps, MapKeeps DEF TablesInv
  <1> QED
    BY <1>5, <1>7, <1>8

(* A round of its MapRange of the kernel.                                  *)
LEMMA MapKernelStep ==
    ASSUME TablesInv, MapPage
    PROVE  pc = "map kernel" => TablesInv'
  <1>0. SUFFICES ASSUME pc = "map kernel"
                 PROVE  TablesInv'
    OBVIOUS
  <1>1. Request = [page |-> KernelStart, frame |-> bootInfo.kernelStart,
                   count |-> bootInfo.kernelSize]
    BY <1>0 DEF Request
  <1>2. Request.page = KernelStart /\ Request.frame = KernelPhysical /\ Request.count = KernelPages
    BY <1>1, MapFinds
  <1>3. /\ i \in Nat /\ i < KernelPages /\ i \in Entries
        /\ KernelMapped(mem, i) /\ LowMapped(mem, EntryCount)
    <2>1. i < KernelPages /\ i \in Nat
      BY <1>0 DEF TablesInv, CounterInv
    <2>2. KernelMapped(mem, i) /\ LowMapped(mem, EntryCount)
      BY <1>0, Sequels DEF TablesInv, KernelTablesInv
    <2> QED
      BY <2>1, <2>2, TableSizes, Images DEF Entries
  <1>4. /\ Request.page + i = InKernel(i) /\ Request.page + i \in Pages
        /\ (Request.frame + i) % VPages = KernelPhysical + i
    <2>1. KernelPhysical + i \in 0 .. VPages - 1
      BY <1>3, TableSizes, Images
    <2> QED
      BY <1>2, <1>3, <2>1, SmallRemainder, KernelPage DEF InKernel
  <1>5. /\ IsMemory(mem') /\ LinksRight(mem') /\ BootTables(mem')
        /\ \A q \in Pages : \A f : Mapped(mem, q, f) /\ q # InKernel(i) => Mapped(mem', q, f)
        /\ \/ Mapped(mem', InKernel(i), KernelPhysical + i) /\ Round(KernelPages, NextStep)
           \/ pc' = "panic" /\ i' = i
    BY <1>2, <1>4, MapFinds, MapStep
  <1>6. LowMapped(mem', EntryCount)
    <2>1. \A p \in 0 .. EntryCount - 1 : p \in Pages /\ p # InKernel(i)
      BY <1>3, TableSizes DEF Entries, Pages, InKernel
    <2> QED
      BY <1>3, <1>5, <2>1 DEF LowMapped
  <1>7. KernelMapped(mem', i)
    <2>1. \A k \in 0 .. i - 1 : k \in Entries /\ InKernel(k) # InKernel(i)
      BY <1>3, TableSizes DEF Entries, InKernel
    <2> QED
      BY <1>3, <1>5, <2>1, KernelPage DEF KernelMapped
  <1>8. CASE pc' = "panic" /\ i' = i
    <2>1. CounterInv'
      BY <1>3, <1>8 DEF CounterInv, LoopPcs, MapSteps
    <2>2. KernelTablesInv'
      BY <1>8, Sequels DEF KernelTablesInv
    <2> QED
      BY <1>0, <1>5, <1>8, <2>1, <2>2, MapKeeps DEF TablesInv
  <1>9. CASE Mapped(mem', InKernel(i), KernelPhysical + i) /\ Round(KernelPages, NextStep)
    <2>1. KernelMapped(mem', i + 1)
      <3>1. \A p \in 0 .. (i + 1) - 1 : p \in 0 .. i - 1 \/ p = i
        BY <1>3
      <3> QED
        BY <1>7, <1>9, <3>1 DEF KernelMapped
    <2>2. \/ i + 1 < KernelPages /\ i' = i + 1 /\ pc' = "map kernel"
          \/ i + 1 = KernelPages /\ i' = 0 /\ pc' = "map rest"
      <3>1. ~ (i + 1 < KernelPages) => i + 1 = KernelPages
        BY <1>3, Images
      <3> QED
        BY <1>0, <1>9, <3>1, RoundIs, NextSteps
    <2>3. CounterInv'
      <3>0. (i' = i + 1 /\ i + 1 < KernelPages) \/ i' = 0
        BY <2>2
      <3>1. i' \in Nat /\ i' < KernelPages /\ 0 < EntryCount - KernelPages
        BY <1>3, <3>0, TableSizes, Images
      <3> QED
        BY <2>2, <3>1 DEF CounterInv, UnderBoot, LoopPcs, MapSteps
    <2>4. KernelTablesInv'
      BY <1>5, <1>6, <2>1, <2>2, Sequels DEF KernelTablesInv
    <2> QED
      BY <1>0, <1>5, <2>2, <2>3, <2>4, NextSteps, MapKeeps DEF TablesInv
  <1> QED
    BY <1>5, <1>8, <1>9

(* A round of its MapRange of what is left of the kernel's table.          *)
LEMMA MapRestStep ==
    ASSUME TablesInv, MapPage
    PROVE  pc = "map rest" => TablesInv'
  <1>0. SUFFICES ASSUME pc = "map rest"
                 PROVE  TablesInv'
    OBVIOUS
  <1>1. Request = [page  |-> KernelStart + bootInfo.kernelSize,
                   frame |-> bootInfo.kernelStart + bootInfo.kernelSize,
                   count |-> EntryCount - bootInfo.kernelSize]
    BY <1>0 DEF Request
  <1>2. /\ Request.page = KernelStart + KernelPages
        /\ Request.count = EntryCount - KernelPages
    BY <1>1, MapFinds
  <1>3. /\ i \in Nat /\ i < EntryCount - KernelPages /\ KernelPages + i \in Entries
        /\ KernelMapped(mem, KernelPages) /\ LowMapped(mem, EntryCount)
    <2>1. i < EntryCount - KernelPages /\ i \in Nat
      BY <1>0 DEF TablesInv, CounterInv
    <2>2. KernelMapped(mem, KernelPages) /\ LowMapped(mem, EntryCount)
      BY <1>0, Sequels DEF TablesInv, KernelTablesInv
    <2> QED
      BY <2>1, <2>2, TableSizes, Images DEF Entries
  <1>4. Request.page + i = InKernel(KernelPages + i) /\ Request.page + i \in Pages
    <2>1. Request.page + i = InKernel(KernelPages + i)
      BY <1>2, <1>3, TableSizes, Images DEF InKernel
    <2> QED
      BY <1>3, <2>1, KernelPage
  <1>5. /\ IsMemory(mem') /\ LinksRight(mem') /\ BootTables(mem')
        /\ \A q \in Pages : \A f :
              Mapped(mem, q, f) /\ q # InKernel(KernelPages + i) => Mapped(mem', q, f)
        /\ \/ Round(EntryCount - KernelPages, NextStep)
           \/ pc' = "panic" /\ i' = i
    BY <1>2, <1>4, MapFinds, MapStep
  <1>6. LowMapped(mem', EntryCount)
    <2>1. \A p \in 0 .. EntryCount - 1 : p \in Pages /\ p # InKernel(KernelPages + i)
      BY <1>3, TableSizes, Images DEF Entries, Pages, InKernel
    <2> QED
      BY <1>3, <1>5, <2>1 DEF LowMapped
  <1>7. KernelMapped(mem', KernelPages)
    <2>1. \A k \in 0 .. KernelPages - 1 :
             k \in Entries /\ InKernel(k) # InKernel(KernelPages + i)
      BY <1>3, TableSizes, Images DEF Entries, InKernel
    <2> QED
      BY <1>3, <1>5, <2>1, KernelPage DEF KernelMapped
  <1>8. CASE pc' = "panic" /\ i' = i
    <2>1. CounterInv'
      BY <1>3, <1>8 DEF CounterInv, LoopPcs, MapSteps
    <2>2. KernelTablesInv'
      BY <1>8, Sequels DEF KernelTablesInv
    <2> QED
      BY <1>0, <1>5, <1>8, <2>1, <2>2, MapKeeps DEF TablesInv
  <1>9. CASE Round(EntryCount - KernelPages, NextStep)
    <2>1. \/ i + 1 < EntryCount - KernelPages /\ i' = i + 1 /\ pc' = "map rest"
          \/ i' = 0 /\ pc' = "reload"
      BY <1>0, <1>9, RoundIs, NextSteps
    <2>2. CounterInv'
      <3>0. i' = i + 1 \/ i' = 0
        BY <2>1
      <3>1. i' \in Nat
        BY <1>3, <3>0
      <3> QED
        BY <2>1, <3>1 DEF CounterInv, UnderBoot, LoopPcs, MapSteps
    <2>3. KernelTablesInv'
      BY <1>5, <1>6, <1>7, <2>1, Sequels DEF KernelTablesInv
    <2> QED
      BY <1>0, <1>5, <2>1, <2>2, <2>3, NextSteps, MapKeeps DEF TablesInv
  <1> QED
    BY <1>5, <1>8, <1>9

(* The heap's pages lie in the tables above the kernel's four. *)
LEMMA HeapPage ==
    ASSUME NEW k \in 0 .. HeapPages - 1
    PROVE  /\ KernelStart + 4 * EntryCount + k \in Pages
           /\ KernelStart + 4 * EntryCount + k >= KernelStart + 4 * EntryCount
  <1>1. PICK d : d = DirCount - FirstKernelDir
    OBVIOUS
  <1>2. d \in Nat /\ d >= 5 /\ EntryCount \in Nat /\ HeapPages \in Nat
    BY <1>1, LayoutAssumption, TableSizes
  <1>3. HeapPages =< (d - 4) * EntryCount /\ (d - 4) * EntryCount = d * EntryCount - 4 * EntryCount
    BY <1>1, <1>2, LayoutAssumption
  <1>4. PICK x : x = d * EntryCount
    OBVIOUS
  <1>5. x \in Int /\ HeapPages =< x - 4 * EntryCount
    BY <1>2, <1>3, <1>4
  <1>6. VPages = KernelStart + x
    BY <1>1, <1>4, TableSizes
  <1> QED
    BY <1>2, <1>5, <1>6, TableSizes DEF Pages

(* A round of AllocatePages' MapRange of the heap.                         *)
LEMMA MapHeapStep ==
    ASSUME TablesInv, MapPage
    PROVE  pc = "map heap" => TablesInv'
  <1>0. SUFFICES ASSUME pc = "map heap"
                 PROVE  TablesInv'
    OBVIOUS
  <1>1. Request = [page |-> heap.page, frame |-> heap.frame, count |-> HeapPages]
    BY <1>0 DEF Request
  <1>2. /\ Request.page = heap.page /\ Request.frame = heap.frame
        /\ Request.count = HeapPages /\ heap.page = KernelStart + 4 * EntryCount
    BY <1>0, <1>1, MapFinds
  <1>3. /\ i \in Nat /\ i < HeapPages /\ HeapPages \in Nat
        /\ KernelMapped(mem, KernelPages) /\ LowMapped(mem, EntryCount) /\ HeapMapped(mem, i)
    <2>1. i < HeapPages /\ i \in Nat
      BY <1>0 DEF TablesInv, CounterInv
    <2>2. KernelMapped(mem, KernelPages) /\ LowMapped(mem, EntryCount) /\ HeapMapped(mem, i)
      BY <1>0, Sequels DEF TablesInv, KernelTablesInv
    <2> QED
      BY <2>1, <2>2, LayoutAssumption, TableSizes
  <1>4. heap.page + i \in Pages /\ heap.page + i >= KernelStart + 4 * EntryCount
    <2>1. i \in 0 .. HeapPages - 1
      BY <1>3
    <2> QED
      BY <1>2, <2>1, HeapPage
  <1>5. /\ IsMemory(mem') /\ LinksRight(mem') /\ BootTables(mem')
        /\ \A q \in Pages : \A f : Mapped(mem, q, f) /\ q # heap.page + i => Mapped(mem', q, f)
        /\ \/ /\ Mapped(mem', heap.page + i, (heap.frame + i) % VPages)
              /\ Round(HeapPages, NextStep)
           \/ pc' = "panic" /\ i' = i
    BY <1>2, <1>4, MapFinds, MapStep
  <1>6. LowMapped(mem', EntryCount)
    <2>1. \A p \in 0 .. EntryCount - 1 : p \in Pages /\ p # heap.page + i
      BY <1>4, TableSizes DEF Entries, Pages
    <2> QED
      BY <1>3, <1>5, <2>1 DEF LowMapped
  <1>7. KernelMapped(mem', KernelPages)
    <2>1. \A k \in 0 .. KernelPages - 1 : k \in Entries /\ InKernel(k) # heap.page + i
      BY <1>4, TableSizes, Images DEF Entries, InKernel
    <2> QED
      BY <1>3, <1>5, <2>1, KernelPage DEF KernelMapped
  <1>8. HeapMapped(mem', i) /\ heap' = heap
    <2>1. \A k \in 0 .. i - 1 : k \in 0 .. HeapPages - 1
      BY <1>3
    <2>2. \A k \in 0 .. i - 1 : heap.page + k \in Pages
      BY <1>2, <2>1, HeapPage
    <2>3. \A k \in 0 .. i - 1 : heap.page + k # heap.page + i
      BY <1>2, <1>3, TableSizes
    <2>4. HeapMapped(mem', i)
      BY <1>3, <1>5, <2>2, <2>3 DEF HeapMapped
    <2> QED
      BY <2>4, MapFinds
  <1>9. CASE pc' = "panic" /\ i' = i
    <2>1. CounterInv'
      BY <1>3, <1>9 DEF CounterInv, LoopPcs, MapSteps
    <2>2. KernelTablesInv'
      BY <1>9, Sequels DEF KernelTablesInv
    <2> QED
      BY <1>0, <1>5, <1>7, <1>9, <2>1, <2>2, MapKeeps DEF TablesInv
  <1>10. CASE /\ Mapped(mem', heap.page + i, (heap.frame + i) % VPages)
              /\ Round(HeapPages, NextStep)
    <2>1. HeapMapped(mem', i + 1)
      <3>1. \A k \in 0 .. (i + 1) - 1 : k \in 0 .. i - 1 \/ k = i
        BY <1>3
      <3> QED
        BY <1>8, <1>10, <3>1 DEF HeapMapped
    <2>2. \/ i + 1 < HeapPages /\ i' = i + 1 /\ pc' = "map heap"
          \/ i + 1 = HeapPages /\ i' = 0 /\ pc' = "heap"
      <3>1. ~ (i + 1 < HeapPages) => i + 1 = HeapPages
        BY <1>3
      <3> QED
        BY <1>0, <1>10, <3>1, RoundIs, NextSteps
    <2>3. CounterInv'
      <3>0. (i' = i + 1 /\ i + 1 < HeapPages) \/ i' = 0
        BY <2>2
      <3>1. i' \in Nat /\ i' < HeapPages
        BY <1>3, <3>0
      <3> QED
        BY <2>2, <3>1 DEF CounterInv, UnderKernel, LoopPcs, MapSteps
    <2>4. /\ pc' = "map heap" => HeapMapped(mem, i)'
          /\ pc' # "map heap" => HeapMapped(mem, HeapPages)'
      BY <1>8, <2>1, <2>2 DEF HeapMapped
    <2>5. KernelTablesInv'
      BY <1>5, <1>6, <1>7, <2>2, <2>4, Sequels DEF KernelTablesInv
    <2> QED
      BY <1>0, <1>5, <1>7, <2>2, <2>3, <2>5, NextSteps, MapKeeps DEF TablesInv
  <1> QED
    BY <1>5, <1>9, <1>10

(* Nothing happens.                                                        *)
LEMMA TablesSame ==
    ASSUME TablesInv, UNCHANGED bootVars
    PROVE  TablesInv'
  <1>1. UNCHANGED <<loader, pc, i, mem, cr3, bootInfo, util, heap>>
    BY DEF bootVars
  <1>2. CounterInv'
    BY <1>1 DEF TablesInv, CounterInv
  <1>3. LoaderInv' /\ KnownInv'
    BY <1>1 DEF TablesInv, LoaderInv, KnownInv
  <1>4. BootTablesInv'
    BY <1>1 DEF TablesInv, BootTablesInv
  <1>5. KernelTablesInv'
    BY <1>1 DEF TablesInv, KernelTablesInv, HeapMapped
  <1> QED
    BY <1>2, <1>3, <1>4, <1>5 DEF TablesInv

(* The page tables are what each step needs, at every step of the boot and *)
(* of its mappings (Boot.asm:32-121, Kernel.cpp:78-158).                   *)
THEOREM TablesInvariance == BootSpec => []TablesInv
  <1>1. TablesInv /\ [BootNext]_bootVars => TablesInv'
    <2> SUFFICES ASSUME TablesInv, [BootNext]_bootVars
                 PROVE  TablesInv'
      OBVIOUS
    <2>1. CASE MapPage
      <3>1. pc \in MapSteps
        BY <2>1 DEF MapPage
      <3> QED
        BY <2>1, <3>1, MapFirstStep, MapKernelStep, MapRestStep, MapHeapStep DEF MapSteps
    <2> QED
      BY <2>1, SaveStep, FillStep, EnableStep, HigherHalfStep, KMainStep, DeviceStep, UtilStep,
         BitmapStep, ZeroStep, ReloadStep, HeapPagesStep, TablesSame DEF BootNext, Kernel
  <1> QED
    BY <1>1, TablesInit, PTL DEF BootSpec

-----------------------------------------------------------------------------
(* What is touched. *)

(* The steps numbered n or higher.                                         *)
LEMMA Upward == \A n \in 1 .. 15 : \A m : m \in n .. 15 <=> m \in 1 .. 15 /\ m >= n
  OBVIOUS

(* The numbers of the steps that NothingFaults names.                      *)
LEMMA NumbersInRange ==
    /\ Number("VGA") \in 1 .. 15 /\ Number("PMM") \in 1 .. 15 /\ Number("VMM") \in 1 .. 15
    /\ Number("map heap") \in 1 .. 15 /\ Number("heap") \in 1 .. 15
  <1>1. 1 \in 1 .. 15 /\ 4 \in 1 .. 15 /\ 5 \in 1 .. 15 /\ 11 \in 1 .. 15 /\ 12 \in 1 .. 15
    OBVIOUS
  <1> QED
    BY <1>1, StepNumbers

(* Reached, by the steps from the one named on.                            *)
LEMMA Reaches ==
    ASSUME NEW step \in {"VGA", "PMM", "VMM", "map heap", "heap"}
    PROVE  Reached(step) <=> pc \in After(step)
  <1>1. Number(step) \in 1 .. 15
    BY NumbersInRange
  <1> QED
    BY <1>1, Upward, ReachedIs DEF After

(* From the jump on the kernel finds its own pages. *)
LEMMA KernelThere ==
    ASSUME TablesInv, pc \notin PagingOff, NEW k \in 0 .. KernelPages - 1
    PROVE  Translate(InKernel(k)) = KernelPhysical + k
  <1>1. BootTables(mem) /\ pc \in UnderBoot \cup UnderKernel \cup {"panic"}
    BY DEF TablesInv, BootTablesInv, CounterInv
  <1>2. pc \in UnderKernel => KernelMapped(mem, KernelPages)
    BY Sequels DEF TablesInv, KernelTablesInv, UnderKernel
  <1>3. UnderTables
    BY <1>1, <1>2 DEF TablesInv, BootTablesInv, UnderTables
  <1> QED
    BY <1>3, KernelFound

(* And until it panics the low pages. *)
LEMMA LowThere ==
    ASSUME TablesInv, pc \in UnderBoot \cup UnderKernel, NEW p \in 0 .. LoaderStart + 4
    PROVE  Translate(p) = p
  <1>1. p \in Entries
    BY Images, TableSizes DEF Entries
  <1>2. CASE pc \in UnderBoot
    <2>1. BootTables(mem) /\ cr3 = BootDirectory
      BY <1>2 DEF TablesInv, BootTablesInv, UnderBoot, PagingOff
    <2> QED
      BY <1>1, <2>1, TranslateBoot
  <1>3. CASE pc \in UnderKernel
    <2>1. LowMapped(mem, EntryCount) /\ cr3 = KernelDirectory
      BY <1>3, Sequels DEF TablesInv, BootTablesInv, KernelTablesInv, UnderKernel
    <2>2. Mapped(mem, p, p) /\ p \in Pages
      BY <1>1, <2>1 DEF LowMapped, Entries, Pages
    <2> QED
      BY <2>1, <2>2, TranslateKernel
  <1> QED
    BY <1>2, <1>3

(* The kernel's directory leads the heap's pages to its frames.            *)
LEMMA HeapThere ==
    ASSUME TablesInv, Reached("heap"), NEW k \in 0 .. HeapPages - 1
    PROVE  Translate(heap.page + k) = (heap.frame + k) % VPages
  <1>1. pc \in After("heap")
    BY Reaches
  <1>2. HeapMapped(mem, HeapPages) /\ cr3 = KernelDirectory
    BY <1>1, Sequels DEF TablesInv, BootTablesInv, KernelTablesInv, UnderKernel
  <1>3. heap.page = KernelStart + 4 * EntryCount
    BY <1>1, Sequels DEF TablesInv, KnownInv
  <1>4. heap.page + k \in Pages
    BY <1>3, HeapPage
  <1>5. Mapped(mem, heap.page + k, (heap.frame + k) % VPages)
    BY <1>2 DEF HeapMapped
  <1> QED
    BY <1>2, <1>4, <1>5, TranslateKernel

(* Every page that a step touches is where the step looks for it           *)
(* (Boot.asm:32-121, Kernel.cpp:78-118, 238-268).                          *)
THEOREM BootNeverFaults == BootSpec => []NothingFaults
  <1>1. ASSUME TablesInv, NEW t \in Touched
        PROVE  Translate(t[1]) = t[2]
    <2>1. \/ InBootText /\ t \in Identity(BootDirectory .. BootStack)
          \/ (~ InBootText \/ pc = "jump") /\ t \in Image({Text, Stack})
          \/ pc = "KMain" /\ t \in Identity({loader.ebx})
          \/ pc = "PMM" /\ t \in Identity({loader.mapPage})
          \/ Reached("VGA") /\ t \in Identity({VideoPage})
          \/ Reached("VMM") /\ t \in Image(Directory .. Stack - 1)
          \/ Reached("heap") /\ t \in {<<heap.page + k, (heap.frame + k) % VPages>> :
                                          k \in 0 .. HeapPages - 1}
      BY <1>1 DEF Touched
    <2>2. ASSUME NEW pages, t \in Identity(pages)
          PROVE  t[1] = t[2] /\ t[1] \in pages
      BY <2>2 DEF Identity
    <2>3. ASSUME NEW offsets, t \in Image(offsets)
          PROVE  \E k \in offsets : t[1] = InKernel(k) /\ t[2] = KernelPhysical + k
      BY <2>3 DEF Image
    <2>4. Reached("VGA") \/ Reached("VMM") => pc \in UnderBoot \cup UnderKernel
      BY Reaches, Sequels DEF UnderBoot, UnderKernel
    <2>5. pc \in UnderBoot \cup UnderKernel => pc \notin PagingOff
      BY DEF UnderBoot, UnderKernel, PagingOff
    <2>6. loader.ebx \in 0 .. LoaderStart + 4 /\ loader.mapPage \in 0 .. LoaderStart + 4
          /\ VideoPage \in 0 .. LoaderStart + 4
      <3>1. loader.ebx \in InfoPages /\ loader.mapPage \in InfoPages
        BY <1>1 DEF TablesInv, LoaderInv
      <3>2. \A p \in InfoPages \cup {VideoPage} : p \in 0 .. LoaderStart + 4
        BY LayoutAssumption
      <3> QED
        BY <3>1, <3>2
    <2>7. CASE InBootText /\ t \in Identity(BootDirectory .. BootStack)
      <3>1. t[1] = t[2] /\ t[1] \in 0 .. LoaderStart + 4
        <4>1. t[1] = t[2] /\ t[1] \in BootDirectory .. BootStack
          BY <2>2, <2>7
        <4> QED
          BY <4>1, Images
      <3>2. CASE pc \in PagingOff
        <4>1. cr3 = Off
          BY <1>1, <3>2 DEF TablesInv, BootTablesInv
        <4> QED
          BY <3>1, <4>1 DEF Translate
      <3>3. CASE pc = "jump"
        BY <1>1, <3>1, <3>3, LowThere DEF UnderBoot
      <3> QED
        BY <2>7, <3>2, <3>3 DEF InBootText, PagingOff
    <2>8. CASE (~ InBootText \/ pc = "jump") /\ t \in Image({Text, Stack})
      <3>1. PICK k \in {Text, Stack} : t[1] = InKernel(k) /\ t[2] = KernelPhysical + k
        BY <2>3, <2>8
      <3>2. k \in 0 .. KernelPages - 1
        BY <3>1, Images, LayoutAssumption
      <3>3. pc \notin PagingOff
        BY <2>8 DEF InBootText, PagingOff
      <3> QED
        BY <1>1, <3>1, <3>2, <3>3, KernelThere
    <2>9. CASE pc = "KMain" /\ t \in Identity({loader.ebx})
      <3>1. t[1] = t[2] /\ t[1] = loader.ebx /\ pc \in UnderBoot
        BY <2>2, <2>9 DEF UnderBoot
      <3> QED
        BY <1>1, <2>6, <3>1, LowThere
    <2>10. CASE pc = "PMM" /\ t \in Identity({loader.mapPage})
      <3>1. t[1] = t[2] /\ t[1] = loader.mapPage /\ pc \in UnderBoot
        BY <2>2, <2>10 DEF UnderBoot
      <3> QED
        BY <1>1, <2>6, <3>1, LowThere
    <2>11. CASE Reached("VGA") /\ t \in Identity({VideoPage})
      <3>1. t[1] = t[2] /\ t[1] = VideoPage /\ pc \in UnderBoot \cup UnderKernel
        BY <2>2, <2>4, <2>11
      <3> QED
        BY <1>1, <2>6, <3>1, LowThere
    <2>12. CASE Reached("VMM") /\ t \in Image(Directory .. Stack - 1)
      <3>1. PICK k \in Directory .. Stack - 1 : t[1] = InKernel(k) /\ t[2] = KernelPhysical + k
        BY <2>3, <2>12
      <3>2. k \in 0 .. KernelPages - 1
        BY <3>1, Images, LayoutAssumption
      <3>3. pc \notin PagingOff
        BY <2>4, <2>5, <2>12
      <3> QED
        BY <1>1, <3>1, <3>2, <3>3, KernelThere
    <2>13. CASE Reached("heap") /\ t \in {<<heap.page + k, (heap.frame + k) % VPages>> :
                                             k \in 0 .. HeapPages - 1}
      <3>1. PICK k \in 0 .. HeapPages - 1 : t = <<heap.page + k, (heap.frame + k) % VPages>>
        BY <2>13
      <3>2. t[1] = heap.page + k /\ t[2] = (heap.frame + k) % VPages
        BY <3>1
      <3> QED
        BY <1>1, <2>13, <3>2, HeapThere
    <2> QED
      BY <2>1, <2>7, <2>8, <2>9, <2>10, <2>11, <2>12, <2>13
  <1>2. TablesInv => NothingFaults
    BY <1>1 DEF NothingFaults
  <1> QED
    BY <1>2, TablesInvariance, PTL

-----------------------------------------------------------------------------
(* The words on the boot stack, and what KMain makes of them. *)
HandedOverInv ==
    /\ pc \in {"identity", "higher", "directory", "jump"} =>
           pushed = <<loader.eax, loader.ebx>>
    /\ pc \in PagingOff \cup {"jump"} => args = << >>
    /\ pc \notin PagingOff \cup {"jump"} => args = <<loader.eax, loader.ebx>>
    /\ pc = "hang" => loader.eax # Magic
    /\ pc \in After("VGA") => loader.eax = Magic /\ bootInfo.regions = loader.regions

(* The steps after the jump that go on within InitKernel, or panic. *)
Later == InitDevice \/ UseDisk \/ InitMemoryUtil \/ InitPhysicalMemoryManager \/ InitPageTables
         \/ MapPage \/ ReloadPageDirectory \/ AllocateHeap

(* No step from InitKernel on changes what KMain was given.                *)
LEMMA LaterStays ==
    ASSUME Later
    PROVE  /\ pc \in After("VGA") /\ pc' \in After("VGA") \cup {"panic"}
           /\ UNCHANGED <<loader, pushed, args, bootInfo>>
  <1>1. pc \in After("VGA") \ {"forever"}
    BY Sequels
    DEF Later, InitDevice, UseDisk, InitMemoryUtil, InitPhysicalMemoryManager, InitPageTables,
        MapPage, MapSteps, ReloadPageDirectory, AllocateHeap
  <1>2. NextStep \in After("VGA")
    BY <1>1, Sequels, NextSteps
  <1>3. pc' \in {pc, NextStep, "panic"}
    BY DEF Later, InitDevice, UseDisk, InitMemoryUtil, InitPhysicalMemoryManager,
           InitPageTables, MapPage, Round, ReloadPageDirectory, AllocateHeap
  <1>4. UNCHANGED <<loader, pushed, args, bootInfo>>
    BY DEF Later, InitDevice, UseDisk, InitMemoryUtil, InitPhysicalMemoryManager,
           InitPageTables, MapPage, ReloadPageDirectory, AllocateHeap
  <1> QED
    BY <1>1, <1>2, <1>3, <1>4

(* KMain's arguments and BootInfo are the machine's, and it gives up only  *)
(* on a wrong magic (Boot.asm:40-43, 113-121, Kernel.cpp:238-265).         *)
THEOREM ArgumentsAreHandedOver == BootSpec => []HandedOver
  <1>1. BootInit => HandedOverInv
    BY Sequels DEF BootInit, HandedOverInv, PagingOff
  <1>2. HandedOverInv /\ [BootNext]_bootVars => HandedOverInv'
    <2> SUFFICES ASSUME HandedOverInv, [BootNext]_bootVars
                 PROVE  HandedOverInv'
      OBVIOUS
    <2>1. CASE SaveRegisters
      BY <2>1, Sequels DEF SaveRegisters, HandedOverInv, PagingOff
    <2>2. CASE FillBootTables
      BY <2>2, Sequels DEF FillBootTables, Round, HandedOverInv, PagingOff
    <2>3. CASE EnablePaging
      BY <2>3, Sequels DEF EnablePaging, HandedOverInv, PagingOff
    <2>4. CASE HigherHalf
      <3>1. /\ pc = "jump" /\ pc' = "KMain" /\ UNCHANGED <<loader, pushed, bootInfo>>
            /\ args' = <<pushed[1], pushed[2]>>
        BY <2>4 DEF HigherHalf
      <3>2. pushed = <<loader.eax, loader.ebx>>
        BY <3>1 DEF HandedOverInv
      <3>3. args' = <<loader.eax, loader.ebx>>
        BY <3>1, <3>2
      <3> QED
        BY <3>1, <3>3, Sequels DEF HandedOverInv, PagingOff
    <2>5. CASE KMain
      <3>1. /\ pc = "KMain" /\ UNCHANGED <<loader, pushed, args>>
            /\ IF args[1] # Magic THEN pc' = "hang"
               ELSE pc' = "VGA" /\ bootInfo'.regions = loader.regions
        <4>1. /\ pc = "KMain" /\ UNCHANGED <<loader, pushed, args>>
              /\ IF args[1] # Magic THEN pc' = "hang"
                 ELSE /\ pc' = Order[1]
                      /\ bootInfo' = [regions         |-> loader.regions,
                                      bootloaderStart |-> LoaderStart,
                                      bootloaderSize  |-> LoaderPages,
                                      kernelStart     |-> KernelPhysical,
                                      kernelSize      |-> KernelPages]
          BY <2>5 DEF KMain
        <4>2. PICK regions : regions = loader.regions
          OBVIOUS
        <4>3. args[1] = Magic => bootInfo'.regions = regions
          <5>1. args[1] = Magic =>
                    bootInfo' = [regions         |-> regions,
                                 bootloaderStart |-> LoaderStart,
                                 bootloaderSize  |-> LoaderPages,
                                 kernelStart     |-> KernelPhysical,
                                 kernelSize      |-> KernelPages]
            BY <4>1, <4>2
          <5> QED
            BY <5>1
        <4>4. args[1] = Magic => pc' = "VGA"
          BY <4>1, OrderItems
        <4> QED
          BY <4>1, <4>2, <4>3, <4>4
      <3>2. args = <<loader.eax, loader.ebx>>
        BY <3>1 DEF HandedOverInv, PagingOff
      <3>3. args[1] = loader.eax
        BY <3>2
      <3> QED
        BY <3>1, <3>2, <3>3, Sequels DEF HandedOverInv, PagingOff
    <2>6. CASE Later
      <3>1. /\ pc \in After("VGA") /\ pc' \in After("VGA") \cup {"panic"}
            /\ UNCHANGED <<loader, pushed, args, bootInfo>>
        BY <2>6, LaterStays
      <3>2. \A p \in After("VGA") \cup {"panic"} :
               p \notin {"identity", "higher", "directory", "jump", "hang"} \cup PagingOff
        BY Sequels DEF PagingOff
      <3> QED
        BY <3>1, <3>2 DEF HandedOverInv
    <2>7. CASE UNCHANGED bootVars
      BY <2>7 DEF bootVars, HandedOverInv
    <2> QED
      BY <2>1, <2>2, <2>3, <2>4, <2>5, <2>6, <2>7 DEF BootNext, Kernel, Later
  <1>3. HandedOverInv => HandedOver
    BY Reaches DEF HandedOverInv, HandedOver
  <1> QED
    BY <1>1, <1>2, <1>3, PTL DEF BootSpec

-----------------------------------------------------------------------------
(* The bitmap of the boot, above the DMA zone. *)

(* Nothing is below the memory map: the bitmap begins at frame 0. *)
LEMMA StartsAtZero ==
    ASSUME NEW in, in.regions \in Maps
    PROVE  P!StartAddress(in) = 0
  <1>1. PICK bases : bases = {r.base : r \in in.regions}
    OBVIOUS
  <1>2. bases \subseteq Nat /\ 0 \in bases
    BY <1>1, MapsAssumption
  <1>3. Min(bases) = 0
    BY <1>2, MinIs
  <1>4. P!Min(bases) = 0
    BY <1>3 DEF P!Min, Min
  <1>5. 0 \in 0 .. VPages - 1
    BY TableSizes, Images
  <1>6. 0 % VPages = 0
    BY <1>5, SmallRemainder
  <1> QED
    BY <1>1, <1>4, <1>6 DEF P!StartAddress

(* Addresses are counted in pages.                                         *)
LEMMA Unscaled ==
    ASSUME NEW a \in Nat
    PROVE  a \div 1 = a /\ a * 1 = a
  <1>1. 1 \in Nat \ {0} /\ a \in Int /\ a \in Int /\ 0 \in 0 .. (1 - 1) /\ a = 1 * a + 0
    OBVIOUS
  <1>2. a \div 1 = a
    BY <1>1, DivMod
  <1> QED
    BY <1>2

(* The bitmap begins at address 0.                                         *)
LEMMA PageNumber ==
    ASSUME NEW a \in 0 .. VPages - 1
    PROVE  P!AddressToPageNumber(0, a) = a
  <1>1. a - 0 = a /\ a \in Nat
    OBVIOUS
  <1> QED
    BY <1>1, SmallRemainder, Unscaled DEF P!AddressToPageNumber

(* A region of the map below 4GB clears nothing but its own pages, and all *)
(* of them when the bitmap covers it.                                      *)
LEMMA RegionCleared ==
    ASSUME NEW r, r.base \in Nat, r.length \in Nat, r.length > 0, r.base + r.length =< VPages,
           NEW p \in P!SetAll
    PROVE  /\ p \notin P!SetRegionFree(P!SetAll, 0, r) => p \in RegionPages(r)
           /\ r.base + r.length =< TSize /\ p \in RegionPages(r)
                => p \notin P!SetRegionFree(P!SetAll, 0, r)
  <1>1. PICK base, length : base = r.base /\ length = r.length
    OBVIOUS
  <1>2. base \in 0 .. VPages - 1 /\ length \in Nat /\ length =< VPages /\ VPages \in Nat \ {0}
        /\ TSize \in Nat /\ TSize < VPages
    BY <1>1, TableSizes, LayoutAssumption
  <1>3. base % VPages = base /\ P!AddressToPageNumber(0, base) = base
    BY <1>2, SmallRemainder, PageNumber
  <1>4. PICK count : count = (length % VPages) \div 1
    OBVIOUS
  <1>5. length < VPages => count = length
    <2>1. length < VPages => length \in 0 .. VPages - 1
      BY <1>2
    <2> QED
      BY <1>2, <1>4, <2>1, SmallRemainder, Unscaled
  <1>6. length = VPages => count = 0
    <2>1. VPages \in Nat \ {0} /\ VPages \in Int /\ 1 \in Int /\ 0 \in 0 .. (VPages - 1)
          /\ VPages = VPages * 1 + 0
      BY <1>2
    <2>2. VPages % VPages = 0
      BY <2>1, DivMod
    <2> QED
      BY <1>4, <2>2, Unscaled
  <1>7. count = length \/ count = 0
    BY <1>2, <1>5, <1>6
  <1>8. P!SetRegionFree(P!SetAll, 0, r) =
            IF base + count =< TSize THEN P!SetAll \ (base .. base + count - 1) ELSE P!SetAll
    BY <1>1, <1>3, <1>4 DEF P!SetRegionFree, P!ClearBits, P!InMap, P!Span
  <1>9. RegionPages(r) = base .. base + length - 1
    BY <1>1 DEF RegionPages
  <1>10. p \notin P!SetRegionFree(P!SetAll, 0, r) => p \in RegionPages(r)
    <2>1. base .. base + 0 - 1 = {}
      BY <1>2
    <2> QED
      BY <1>7, <1>8, <1>9, <2>1
  <1>11. base + length =< TSize => length < VPages
    BY <1>2
  <1> QED
    BY <1>1, <1>5, <1>8, <1>9, <1>10, <1>11

(* Setting bits adds no position but those of the run. *)
LEMMA Reserved ==
    ASSUME NEW set, NEW a \in Nat, NEW n \in Nat, a + n =< DmaPages
    PROVE  /\ P!ReservePages(set, 0, a, n) = set \cup a .. a + n - 1
           /\ a .. a + n - 1 \subseteq 0 .. DmaPages - 1
  <1>1. DmaPages \in Nat /\ DmaPages =< TSize /\ TSize < VPages /\ TSize \in Nat /\ VPages \in Nat
    BY LayoutAssumption, TableSizes
  <1>2. a \in 0 .. VPages - 1 /\ a + n =< TSize
    BY <1>1
  <1>3. P!AddressToPageNumber(0, a) = a
    BY <1>2, PageNumber
  <1> QED
    BY <1>1, <1>2, <1>3 DEF P!ReservePages, P!SetBits, P!InMap, P!Span

(* The bitmap after PhysicalMemoryManager::Init and the reservations: the  *)
(* regions are released one by one, then the boot loader, the kernel and   *)
(* the DMA zone are set.                                                   *)
LEMMA BootBits ==
    ASSUME NEW regions \in Maps,
           NEW in, in = [regions         |-> regions,
                         bootloaderStart |-> LoaderStart,
                         bootloaderSize  |-> LoaderPages,
                         kernelStart     |-> KernelPhysical,
                         kernelSize      |-> KernelPages]
    PROVE  P!BootBitmap(0, in) = P!InitFreeMemory(0, in) \cup 0 .. DmaPages - 1
  <1>1. PICK free : free = P!InitFreeMemory(0, in)
    OBVIOUS
  <1>2. /\ LoaderPages \in Nat /\ LoaderPages \div 1 + 1 = LoaderPages + 1
        /\ KernelPages \in Nat /\ KernelPages \div 1 = KernelPages
    BY Images, Unscaled DEF LoaderPages
  <1>3. PICK ldr : ldr = P!ReservePages(free, 0, LoaderStart, LoaderPages + 1)
    OBVIOUS
  <1>4. PICK krnl : krnl = P!ReservePages(ldr, 0, KernelPhysical, KernelPages)
    OBVIOUS
  <1>5. PICK dma : dma = P!ReservePages(krnl, 0, 0, DmaPages)
    OBVIOUS
  <1>6. P!BootBitmap(0, in) = P!ReservePages(dma, 0, 0, 1)
    BY <1>1, <1>2, <1>3, <1>4, <1>5 DEF P!BootBitmap
  <1>7. ldr \subseteq free \cup 0 .. DmaPages - 1 /\ free \subseteq ldr
    <2>1. LoaderStart \in Nat /\ LoaderPages + 1 \in Nat /\ LoaderStart + (LoaderPages + 1) =< DmaPages
      BY <1>2, Images, LayoutAssumption DEF LoaderPages
    <2> QED
      BY <1>3, <2>1, Reserved
  <1>8. krnl \subseteq ldr \cup 0 .. DmaPages - 1 /\ ldr \subseteq krnl
    <2>1. KernelPhysical \in Nat /\ KernelPages \in Nat /\ KernelPhysical + KernelPages =< DmaPages
      BY <1>2, Images, LayoutAssumption
    <2> QED
      BY <1>4, <2>1, Reserved
  <1>9. dma = krnl \cup 0 .. DmaPages - 1
    <2>1. DmaPages \in Nat /\ 0 + DmaPages =< DmaPages /\ 0 \in Nat
          /\ 0 .. 0 + DmaPages - 1 = 0 .. DmaPages - 1
      BY LayoutAssumption
    <2>2. P!ReservePages(krnl, 0, 0, DmaPages) = krnl \cup 0 .. 0 + DmaPages - 1
      BY <2>1, Reserved
    <2> QED
      BY <1>5, <2>1, <2>2
  <1>10. P!ReservePages(dma, 0, 0, 1) = dma
    <2>1. 0 \in Nat /\ 1 \in Nat /\ 0 + 1 =< DmaPages /\ 0 .. 0 + 1 - 1 \subseteq 0 .. DmaPages - 1
      BY LayoutAssumption
    <2>2. P!ReservePages(dma, 0, 0, 1) = dma \cup 0 .. 0 + 1 - 1
      BY <2>1, Reserved
    <2> QED
      BY <1>9, <2>1, <2>2
  <1> QED
    BY <1>1, <1>6, <1>7, <1>8, <1>9, <1>10

(* The regions of a map below 4GB with its bounds on whole bytes. *)
WholeBytes == \A r \in loader.regions :
                  /\ r.base \in Nat /\ r.length \in Nat /\ r.base + r.length =< VPages
                  /\ r.base % ByteBits = 0 /\ (r.base + r.length) % ByteBits = 0

(* The boot's bitmap above the DMA zone: the first page of a byte is clear *)
(* in an available region only, and every page of a region that the bitmap *)
(* covers is.                                                              *)
ClearsRegions(set) ==
    /\ 0 .. DmaPages - 1 \subseteq set
    /\ \A q \in DmaPages .. TSize - 1 :
          /\ q \notin set /\ q % ByteBits = 0 =>
                \E r \in loader.regions : r.available /\ q \in RegionPages(r)
          /\ \A r \in loader.regions :
                r.available /\ r.base + r.length =< TSize /\ q \in RegionPages(r) => q \notin set

(* Above the DMA zone, the bitmap of the boot has only bits of available   *)
(* regions clear, but for the other bits of the byte a region begins in.   *)
LEMMA BootClearsRegions ==
    ASSUME LoaderInv, WholeBytes,
           NEW in, in = [regions         |-> loader.regions,
                         bootloaderStart |-> LoaderStart,
                         bootloaderSize  |-> LoaderPages,
                         kernelStart     |-> KernelPhysical,
                         kernelSize      |-> KernelPages]
    PROVE  ClearsRegions(P!BootBitmap(P!StartAddress(in), in))
  <1>1. PICK regions \in Maps : regions = loader.regions
    BY DEF LoaderInv
  <1>2. in = [regions         |-> regions,
              bootloaderStart |-> LoaderStart,
              bootloaderSize  |-> LoaderPages,
              kernelStart     |-> KernelPhysical,
              kernelSize      |-> KernelPages]
    BY <1>1
  <1>3. in.regions = regions
    BY <1>2
  <1>4. PICK free : free = P!InitFreeMemory(0, in)
    OBVIOUS
  <1>5. P!BootBitmap(P!StartAddress(in), in) = free \cup 0 .. DmaPages - 1
    BY <1>2, <1>3, <1>4, StartsAtZero, BootBits
  <1>6. free = {p \in P!SetAll : \A r \in regions :
                   r.available /\ r.length > 0 => p \in P!SetRegionFree(P!SetAll, 0, r)}
    BY <1>3, <1>4 DEF P!InitFreeMemory
  <1>7. ASSUME NEW q \in DmaPages .. TSize - 1, q \notin free, q % ByteBits = 0
        PROVE  \E r \in regions : r.available /\ q \in RegionPages(r)
    <2>1. q \in P!SetAll
      BY <1>7, LayoutAssumption DEF P!SetAll, P!Positions
    <2>2. PICK r \in regions : r.available /\ r.length > 0
                               /\ q \notin P!SetRegionFree(P!SetAll, 0, r)
      BY <1>6, <1>7, <2>1
    <2>3. r.base \in Nat /\ r.length \in Nat /\ r.length > 0 /\ r.base + r.length =< VPages
      BY <1>1, <2>2 DEF WholeBytes
    <2>4. q \in RegionPages(r)
      BY <2>1, <2>2, <2>3, RegionCleared
    <2> QED
      BY <2>2, <2>4
  <1>8. ASSUME NEW q \in DmaPages .. TSize - 1, NEW r \in regions,
               r.available, r.base + r.length =< TSize, q \in RegionPages(r)
        PROVE  q \notin free
    <2>1. SUFFICES ASSUME q \in P!SetAll PROVE q \notin P!SetRegionFree(P!SetAll, 0, r)
                                               /\ r.length > 0
      BY <1>6, <1>8
    <2>2. r.base \in Nat /\ r.length \in Nat /\ r.base + r.length =< VPages
      BY <1>1 DEF WholeBytes
    <2>3. r.length > 0
      <3>1. PICK base, length : base = r.base /\ length = r.length
        OBVIOUS
      <3>2. q \in base .. base + length - 1
        BY <1>8, <3>1 DEF RegionPages
      <3> QED
        BY <2>2, <3>1, <3>2
    <2> QED
      BY <1>8, <2>1, <2>2, <2>3, RegionCleared
  <1>9. \A q \in DmaPages .. TSize - 1 : q \notin 0 .. DmaPages - 1
    BY LayoutAssumption
  <1> QED
    BY <1>1, <1>5, <1>7, <1>8, <1>9 DEF ClearsRegions

(* A map with room has a run of pages for the heap, and FindUnsetBits      *)
(* answers with a run above the DMA zone.                                  *)
LEMMA HeapRunFound ==
    ASSUME WholeBytes, HasRoom, NEW set, ClearsRegions(set),
           NEW s, s = P!FindUnsetBits(set, HeapPages)
    PROVE  /\ s \in Nat /\ s >= DmaPages /\ s + HeapPages =< TSize
           /\ (s .. s + HeapPages - 1) \cap set = {}
  <1>1. DmaPages \in Nat /\ HeapPages \in Nat /\ HeapPages >= 1 /\ TSize \in Nat
        /\ DmaPages =< TSize /\ DmaPages >= 1
    BY LayoutAssumption, TableSizes
  <1>2. PICK fits : fits = P!Fits(set, HeapPages)
    OBVIOUS
  <1>3. fits = {x \in 0 .. TSize - 1 : x + HeapPages =< TSize
                                       /\ (x .. x + HeapPages - 1) \cap set = {}}
    BY <1>2 DEF P!Fits, P!Positions, P!InMap, P!Span
  <1>4. fits # {}
    <2>1. PICK r \in loader.regions :
              /\ r.available /\ r.base + r.length =< TSize
              /\ Cardinality(RegionPages(r) \ (0 .. DmaPages - 1)) >= HeapPages
      BY DEF HasRoom
    <2>2. PICK base, length : base = r.base /\ length = r.length
      OBVIOUS
    <2>3. base \in Nat /\ length \in Nat /\ base + length =< TSize
          /\ RegionPages(r) = base .. base + length - 1
      BY <2>1, <2>2 DEF WholeBytes, RegionPages
    <2>4. PICK low : low = IF base >= DmaPages THEN base ELSE DmaPages
      OBVIOUS
    <2>5. low \in Nat /\ low >= DmaPages /\ low >= base
      BY <1>1, <2>3, <2>4
    <2>6. (base .. base + length - 1) \ (0 .. DmaPages - 1) = low .. base + length - 1
      BY <1>1, <2>3, <2>4
    <2>7. PICK top : top = base + length - 1
      OBVIOUS
    <2>8. top \in Int /\ Cardinality(low .. top) >= HeapPages
      <3>1. RegionPages(r) \ (0 .. DmaPages - 1) = low .. top
        BY <2>3, <2>6, <2>7
      <3>2. Cardinality(low .. top) >= HeapPages
        BY <2>1, <3>1
      <3> QED
        BY <2>3, <2>7, <3>2
    <2>9. Cardinality(low .. top) = IF low > top THEN 0 ELSE top - low + 1
      BY <2>5, <2>8, FS_Interval
    <2>10. low + HeapPages =< top + 1
      BY <1>1, <2>5, <2>8, <2>9
    <2>11. low \in 0 .. TSize - 1 /\ low + HeapPages =< TSize
      BY <1>1, <2>3, <2>5, <2>7, <2>10
    <2>12. \A q \in low .. low + HeapPages - 1 :
              q \in DmaPages .. TSize - 1 /\ q \in base .. base + length - 1
      BY <1>1, <2>3, <2>5, <2>7, <2>10, <2>11
    <2>13. (low .. low + HeapPages - 1) \cap set = {}
      BY <2>1, <2>2, <2>3, <2>12 DEF ClearsRegions
    <2> QED
      BY <1>3, <2>11, <2>13
  <1>5. s \in fits
    <2>1. fits \subseteq Nat
      BY <1>1, <1>3
    <2>2. Min(fits) \in fits
      BY <1>4, <2>1, MinOfNaturals
    <2>3. P!Min(fits) = Min(fits)
      BY DEF P!Min, Min
    <2> QED
      BY <1>2, <1>4, <2>2, <2>3 DEF P!FindUnsetBits
  <1>6. s \in Nat /\ s + HeapPages =< TSize /\ (s .. s + HeapPages - 1) \cap set = {}
    BY <1>1, <1>3, <1>5
  <1>7. s \in s .. s + HeapPages - 1 /\ s \notin set
    <2>1. s \in s .. s + HeapPages - 1
      BY <1>1, <1>6
    <2> QED
      BY <1>6, <2>1
  <1>8. s >= DmaPages
    BY <1>1, <1>6, <1>7 DEF ClearsRegions
  <1> QED
    BY <1>6, <1>8

(* The byte of a page: regions have whole bytes. *)
LEMMA WholeByte ==
    ASSUME NEW a \in Nat, NEW c \in Nat, a % ByteBits = 0, c % ByteBits = 0, a < c
    PROVE  a + ByteBits =< c
  <1>1. ByteBits \in Nat \ {0} /\ a \in Int /\ c \in Int
    BY LayoutAssumption, TableSizes
  <1>2. PICK q \in Int, r \in 0 .. (ByteBits - 1) :
            a = ByteBits * q + r /\ a \div ByteBits = q /\ a % ByteBits = r
    BY <1>1, QuotientRemainder
  <1>3. PICK k \in Int, t \in 0 .. (ByteBits - 1) :
            c = ByteBits * k + t /\ c \div ByteBits = k /\ c % ByteBits = t
    BY <1>1, QuotientRemainder
  <1>4. a = ByteBits * q /\ c = ByteBits * k
    BY <1>1, <1>2, <1>3
  <1>5. q < k
    <2>1. SUFFICES ASSUME q >= k PROVE FALSE
      OBVIOUS
    <2>2. ByteBits * q >= ByteBits * k
      BY <1>1, <2>1
    <2> QED
      BY <1>1, <1>4, <2>2
  <1>6. ByteBits * (q + 1) =< ByteBits * k /\ ByteBits * (q + 1) = ByteBits * q + ByteBits
    BY <1>1, <1>5
  <1> QED
    BY <1>1, <1>4, <1>6

(* Every page lies in a byte of the bitmap.                                *)
LEMMA ByteStart ==
    ASSUME NEW p \in Nat
    PROVE  \E a \in Nat : a % ByteBits = 0 /\ a =< p /\ p < a + ByteBits
                          /\ (a + ByteBits) % ByteBits = 0
  <1>1. ByteBits \in Nat \ {0} /\ p \in Int
    BY LayoutAssumption, TableSizes
  <1>2. PICK q \in Int, r \in 0 .. (ByteBits - 1) :
            p = ByteBits * q + r /\ p \div ByteBits = q /\ p % ByteBits = r
    BY <1>1, QuotientRemainder
  <1>3. PICK a : a = ByteBits * q
    OBVIOUS
  <1>4. a \in Int /\ a =< p /\ p < a + ByteBits
    BY <1>1, <1>2, <1>3
  <1>5. a >= 0
    <2>1. q >= 0
      <3>1. SUFFICES ASSUME q < 0 PROVE FALSE
        OBVIOUS
      <3>2. ByteBits * q =< ByteBits * (-1) /\ ByteBits * (-1) = -ByteBits
        BY <1>1, <3>1
      <3> QED
        BY <1>1, <1>3, <1>4, <3>2
    <2> QED
      BY <1>1, <1>3, <2>1
  <1>6. ByteBits \in Nat \ {0} /\ a \in Int /\ q \in Int /\ 0 \in 0 .. (ByteBits - 1)
        /\ a = ByteBits * q + 0
    BY <1>1, <1>3, <1>4
  <1>7. a % ByteBits = 0
    BY <1>6, DivMod
  <1>8. ByteBits \in Nat \ {0} /\ a + ByteBits \in Int /\ q + 1 \in Int
        /\ 0 \in 0 .. (ByteBits - 1) /\ a + ByteBits = ByteBits * (q + 1) + 0
    <2>1. ByteBits * (q + 1) = ByteBits * q + ByteBits
      BY <1>1
    <2> QED
      BY <1>1, <1>3, <1>4, <2>1
  <1>9. (a + ByteBits) % ByteBits = 0
    BY <1>8, DivMod
  <1> QED
    BY <1>4, <1>5, <1>7, <1>9

(* Pages of the run that are no memory lie in its first byte, below a      *)
(* region's start.                                                         *)
LEMMA OnlyFirstByte ==
    ASSUME WholeBytes, NEW set, ClearsRegions(set),
           NEW s \in Nat, s >= DmaPages, s + HeapPages =< TSize,
           (s .. s + HeapPages - 1) \cap set = {},
           NEW p \in s .. s + HeapPages - 1, p \notin Available
    PROVE  /\ \E a \in Nat : a % ByteBits = 0 /\ a < s /\ a =< p /\ p < a + ByteBits
           /\ HoleBelowRegion
  <1>1. DmaPages \in Nat /\ HeapPages \in Nat /\ TSize \in Nat /\ p \in Nat
        /\ ByteBits \in Nat \ {0} /\ ByteBits =< HeapPages
    BY LayoutAssumption, TableSizes
  <1>2. PICK a \in Nat : a % ByteBits = 0 /\ a =< p /\ p < a + ByteBits
                         /\ (a + ByteBits) % ByteBits = 0
    BY <1>1, ByteStart
  <1>3. ASSUME NEW q \in s .. s + HeapPages - 1, q % ByteBits = 0
        PROVE  \E r \in loader.regions : r.available /\ q \in RegionPages(r)
    <2>1. q \in DmaPages .. TSize - 1
      BY <1>1
    <2>2. q \notin set
      BY <1>3
    <2> QED
      BY <1>3, <2>1, <2>2 DEF ClearsRegions
  <1>4. ASSUME NEW r \in loader.regions, r.available
        PROVE  /\ a \notin RegionPages(r)
               /\ a + ByteBits - 1 \notin RegionPages(r)
    <2>1. PICK base, top : base = r.base /\ top = r.base + r.length
      OBVIOUS
    <2>2. /\ base \in Nat /\ top \in Nat /\ base % ByteBits = 0 /\ top % ByteBits = 0
          /\ RegionPages(r) = base .. top - 1
      BY <2>1 DEF WholeBytes, RegionPages
    <2>3. p \notin base .. top - 1
      BY <1>4, <2>2 DEF Available
    <2>4. a < top => a + ByteBits =< top
      BY <1>2, <2>2, WholeByte
    <2>5. a < base => a + ByteBits =< base
      BY <1>2, <2>2, WholeByte
    <2>6. a \notin base .. top - 1
      BY <1>1, <1>2, <2>2, <2>3, <2>4
    <2>7. a + ByteBits - 1 \notin base .. top - 1
      <3>1. SUFFICES ASSUME a + ByteBits - 1 >= base, a + ByteBits - 1 =< top - 1 PROVE FALSE
        BY <1>1, <1>2, <2>2
      <3>2. a >= base
        BY <1>1, <1>2, <2>2, <2>5, <3>1
      <3>3. a < top
        BY <1>1, <1>2, <2>2, <3>1
      <3> QED
        BY <1>1, <1>2, <2>2, <2>6, <3>2, <3>3
    <2> QED
      BY <2>2, <2>6, <2>7
  <1>5. a < s
    <2>1. SUFFICES ASSUME a >= s PROVE FALSE
      BY <1>1
    <2>2. a \in s .. s + HeapPages - 1
      BY <1>1, <1>2, <2>1
    <2> QED
      BY <1>2, <1>3, <1>4, <2>2
  <1>6. HoleBelowRegion
    <2>1. PICK c : c = a + ByteBits
      OBVIOUS
    <2>2. c \in s .. s + HeapPages - 1 /\ c \in Nat /\ c % ByteBits = 0 /\ c > DmaPages
          /\ c - 1 = a + ByteBits - 1
      BY <1>1, <1>2, <1>5, <2>1
    <2>3. PICK r \in loader.regions : r.available /\ c \in RegionPages(r)
      BY <1>3, <2>2
    <2>4. PICK base, top : base = r.base /\ top = r.base + r.length
      OBVIOUS
    <2>5. base \in Nat /\ top \in Nat /\ RegionPages(r) = base .. top - 1
      BY <2>4 DEF WholeBytes, RegionPages
    <2>6. c - 1 \notin base .. top - 1 /\ c \in base .. top - 1
      BY <1>4, <2>2, <2>3, <2>5
    <2>7. base = c
      BY <2>2, <2>5, <2>6
    <2>8. c - 1 \notin Available
      BY <1>4, <2>2 DEF Available
    <2> QED
      BY <2>2, <2>3, <2>4, <2>7, <2>8 DEF HoleBelowRegion
  <1> QED
    BY <1>2, <1>5, <1>6

(* What the heap's run is. *)
OwnRun(frames) ==
    IF HoleBelowRegion THEN Cardinality(frames \ Available) < ByteBits
                       ELSE frames \subseteq Available

(* A clear run above the DMA zone is available memory, but for the pages   *)
(* of its first byte that lie below a region.                              *)
LEMMA HeapRunAvailable ==
    ASSUME WholeBytes, NEW set, ClearsRegions(set),
           NEW s \in Nat, s >= DmaPages, s + HeapPages =< TSize,
           (s .. s + HeapPages - 1) \cap set = {}
    PROVE  OwnRun(s .. s + HeapPages - 1)
  <1>1. \A p \in s .. s + HeapPages - 1 : p \notin Available =>
            /\ \E a \in Nat : a % ByteBits = 0 /\ a < s /\ a =< p /\ p < a + ByteBits
            /\ HoleBelowRegion
    BY OnlyFirstByte
  <1>2. CASE ~ HoleBelowRegion
    BY <1>1, <1>2 DEF OwnRun
  <1>3. CASE HoleBelowRegion
    <2>1. ByteBits \in Nat \ {0} /\ HeapPages \in Nat
      BY LayoutAssumption, TableSizes
    <2>2. \A p \in (s .. s + HeapPages - 1) \ Available : p \in s .. s + ByteBits - 2
      <3> SUFFICES ASSUME NEW p \in s .. s + HeapPages - 1, p \notin Available
                   PROVE  p \in s .. s + ByteBits - 2
        OBVIOUS
      <3>1. PICK a \in Nat : a < s /\ a =< p /\ p < a + ByteBits
        BY <1>1
      <3> QED
        BY <2>1, <3>1
    <2>3. PICK top : top = s + ByteBits - 2
      OBVIOUS
    <2>4. top \in Int
      BY <2>1, <2>3
    <2>5. IsFiniteSet(s .. top) /\ Cardinality(s .. top) = IF s > top THEN 0 ELSE top - s + 1
      BY <2>4, FS_Interval
    <2>6. Cardinality(s .. top) < ByteBits
      BY <2>1, <2>3, <2>4, <2>5
    <2>7. (s .. s + HeapPages - 1) \ Available \in SUBSET (s .. top)
      BY <2>2, <2>3
    <2>8. PICK rest : rest = (s .. s + HeapPages - 1) \ Available
      OBVIOUS
    <2>9. IsFiniteSet(rest) /\ Cardinality(rest) =< Cardinality(s .. top)
      BY <2>5, <2>7, <2>8, FS_Subset
    <2>10. Cardinality(rest) \in Nat /\ Cardinality(s .. top) \in Nat
      BY <2>5, <2>9, FS_CardinalityType
    <2>11. Cardinality(rest) < ByteBits
      BY <2>1, <2>6, <2>9, <2>10
    <2> QED
      BY <1>3, <2>8, <2>11 DEF OwnRun
  <1> QED
    BY <1>2, <1>3

(* The bitmap until the heap has its pages, and the heap's run after. *)
HeapRunInv ==
    /\ pc \in {"VMM", "map first 4MB", "map kernel", "map rest", "reload", "VMA"} =>
           bits = P!BootBitmap(P!StartAddress(bootInfo), bootInfo)
    /\ pc \in After("map heap") /\ HasRoom =>
           /\ heap.frame \in Nat /\ heap.frame >= DmaPages
           /\ heap.frame + HeapPages =< TSize
           /\ heap.frame .. heap.frame + HeapPages - 1 \subseteq bits
           /\ OwnRun(heap.frame .. heap.frame + HeapPages - 1)

(* AllocatePages finds such a run for the heap.                            *)
LEMMA HeapRunStep ==
    ASSUME TablesInv, HeapRunInv, AllocateHeap, HasRoom, pc' # "panic"
    PROVE  /\ heap'.frame \in Nat /\ heap'.frame >= DmaPages
           /\ heap'.frame + HeapPages =< TSize
           /\ heap'.frame .. heap'.frame + HeapPages - 1 \subseteq bits'
           /\ OwnRun(heap'.frame .. heap'.frame + HeapPages - 1)
  <1>1. pc = "VMA"
    BY DEF AllocateHeap
  <1>2. bootInfo = [regions         |-> loader.regions,
                    bootloaderStart |-> LoaderStart,
                    bootloaderSize  |-> LoaderPages,
                    kernelStart     |-> KernelPhysical,
                    kernelSize      |-> KernelPages]
    BY <1>1, Sequels DEF TablesInv, KnownInv
  <1>3. LoaderInv /\ bits = P!BootBitmap(P!StartAddress(bootInfo), bootInfo)
    BY <1>1 DEF TablesInv, HeapRunInv
  <1>4. PICK regions \in Maps : regions = loader.regions
    BY <1>3 DEF LoaderInv
  <1>5. WholeBytes
    BY <1>4, MapsAssumption DEF HasRoom, WholeBytes
  <1>6. ClearsRegions(bits)
    BY <1>2, <1>3, <1>5, BootClearsRegions
  <1>7. bootInfo.regions \in Maps
    BY <1>2, <1>4
  <1>8. P!StartAddress(bootInfo) = 0
    BY <1>7, StartsAtZero
  <1>9. PICK s : s = P!FindUnsetBits(bits, HeapPages)
    OBVIOUS
  <1>10. /\ s \in Nat /\ s >= DmaPages /\ s + HeapPages =< TSize
         /\ (s .. s + HeapPages - 1) \cap bits = {}
    BY <1>5, <1>6, <1>9, HeapRunFound
  <1>11. P!PageNumberToAddress(P!StartAddress(bootInfo), s) = s
    <2>1. s \in 0 .. VPages - 1
      BY <1>10, LayoutAssumption, TableSizes
    <2>2. s * 1 = s /\ 0 + s = s
      BY <1>10
    <2> QED
      BY <1>8, <2>1, <2>2, SmallRemainder DEF P!PageNumberToAddress
  <1>12. /\ bits' = P!SetBits(bits, s, HeapPages)
         /\ heap' = [page |-> KernelStart + 4 * EntryCount, frame |-> s]
    BY <1>9, <1>11 DEF AllocateHeap
  <1>13. heap'.frame = s
    BY <1>12
  <1>14. bits' = bits \cup s .. s + HeapPages - 1
    BY <1>10, <1>12 DEF P!SetBits, P!InMap, P!Span
  <1>15. OwnRun(s .. s + HeapPages - 1)
    BY <1>5, <1>6, <1>10, HeapRunAvailable
  <1> QED
    BY <1>10, <1>13, <1>14, <1>15

(* What the boot loader left is not written to.                            *)
LEMMA LoaderStays ==
    ASSUME [BootNext]_bootVars
    PROVE  loader' = loader
  BY DEF BootNext, Kernel, bootVars, SaveRegisters, FillBootTables, EnablePaging, HigherHalf, KMain,
         InitDevice, UseDisk, InitMemoryUtil, InitPhysicalMemoryManager, InitPageTables, MapPage,
         ReloadPageDirectory, AllocateHeap

(* The steps that change neither the bitmap nor the heap's run. *)
LEMMA RunKept ==
    ASSUME HeapRunInv, [BootNext]_bootVars,
           UNCHANGED <<bits, heap>>,
           pc' \in {"VMM", "map first 4MB", "map kernel", "map rest", "reload", "VMA"} =>
               /\ pc \in {"VMM", "map first 4MB", "map kernel", "map rest", "reload", "VMA"}
               /\ bootInfo' = bootInfo,
           pc' \in After("map heap") => pc \in After("map heap")
    PROVE  HeapRunInv'
  <1>1. loader' = loader
    BY LoaderStays
  <1>2. HasRoom' = HasRoom
    BY <1>1 DEF HasRoom, RegionPages
  <1>3. OwnRun(heap.frame .. heap.frame + HeapPages - 1)'
            = OwnRun(heap.frame .. heap.frame + HeapPages - 1)
    BY <1>1 DEF OwnRun, HoleBelowRegion, Available, RegionPages
  <1> QED
    BY <1>2, <1>3 DEF HeapRunInv

(* The heap's frames are a run of the bitmap that AllocatePages has found  *)
(* and set (Kernel.cpp:120-147, PhysicalMemoryManager.cpp:42-62).          *)
THEOREM HeapRunInvariance == BootSpec => []HeapRunInv
  <1>1. BootInit => HeapRunInv
    BY Sequels DEF BootInit, HeapRunInv
  <1>2. TablesInv /\ HeapRunInv /\ [BootNext]_bootVars => HeapRunInv'
    <2> SUFFICES ASSUME TablesInv, HeapRunInv, [BootNext]_bootVars
                 PROVE  HeapRunInv'
      OBVIOUS
    <2>1. CASE SaveRegisters \/ FillBootTables \/ EnablePaging \/ HigherHalf
      <3>1. UNCHANGED <<bits, heap>> /\ pc' \in {"identity", "higher", "directory", "jump", "KMain"}
        BY <2>1 DEF SaveRegisters, FillBootTables, Round, EnablePaging, HigherHalf
      <3> QED
        BY <3>1, RunKept, Sequels
    <2>2. CASE KMain
      <3>1. UNCHANGED <<bits, heap>> /\ pc' \in {"hang", "VGA"}
        BY <2>2, OrderItems DEF KMain
      <3> QED
        BY <3>1, RunKept, Sequels
    <2>3. CASE InitDevice \/ UseDisk
      <3>1. /\ UNCHANGED <<bits, heap>> /\ pc' = NextStep
            /\ pc \in {"VGA", "Processor", "heap", "ATA", "read"}
        BY <2>3 DEF InitDevice, UseDisk
      <3>2. \/ pc' \in {"Processor", "MemoryUtil"}
            \/ pc \in {"heap", "ATA", "read"} /\ pc' \in {"ATA", "read", "forever"}
        BY <3>1, NextSteps
      <3> QED
        BY <3>1, <3>2, RunKept, Sequels
    <2>4. CASE InitMemoryUtil
      <3>1. UNCHANGED <<bits, heap>> /\ pc' = "PMM"
        BY <2>4, NextSteps DEF InitMemoryUtil
      <3> QED
        BY <3>1, RunKept, Sequels
    <2>5. CASE InitPhysicalMemoryManager
      <3>1. /\ pc' = "VMM" /\ bootInfo' = bootInfo
            /\ bits' = P!BootBitmap(P!StartAddress(bootInfo), bootInfo)
        BY <2>5, NextSteps DEF InitPhysicalMemoryManager
      <3> QED
        BY <3>1, Sequels DEF HeapRunInv
    <2>6. CASE InitPageTables \/ ReloadPageDirectory
      <3>1. /\ UNCHANGED <<bits, heap, bootInfo>>
            /\ \/ pc = "VMM" /\ pc' = "map first 4MB"
               \/ pc = "reload" /\ pc' = "VMA"
        BY <2>6, NextSteps DEF InitPageTables, ReloadPageDirectory
      <3> QED
        BY <3>1, RunKept, Sequels
    <2>7. CASE MapPage
      <3>1. UNCHANGED <<bits, heap, bootInfo>> /\ pc' \in {pc, NextStep, "panic"} /\ pc \in MapSteps
        BY <2>7 DEF MapPage, Round
      <3>2. \/ pc = "map first 4MB" /\ pc' \in {"map first 4MB", "map kernel", "panic"}
            \/ pc = "map kernel" /\ pc' \in {"map kernel", "map rest", "panic"}
            \/ pc = "map rest" /\ pc' \in {"map rest", "reload", "panic"}
            \/ pc = "map heap" /\ pc' \in {"map heap", "heap", "panic"}
        BY <3>1, NextSteps DEF MapSteps
      <3> QED
        BY <3>1, <3>2, RunKept, Sequels
    <2>8. CASE AllocateHeap
      <3>1. pc = "VMA" /\ pc' \in {"panic", NextStep}
        BY <2>8 DEF AllocateHeap
      <3>2. pc' \in {"panic", "map heap"}
        BY <3>1, NextSteps
      <3>3. loader' = loader
        BY LoaderStays
      <3>4. HasRoom' = HasRoom
        BY <3>3 DEF HasRoom, RegionPages
      <3>5. \A a, b : OwnRun(a .. b)' = OwnRun(a .. b)
        BY <3>3 DEF OwnRun, HoleBelowRegion, Available, RegionPages
      <3>6. pc' = "map heap" /\ HasRoom =>
               /\ heap'.frame \in Nat /\ heap'.frame >= DmaPages
               /\ heap'.frame + HeapPages =< TSize
               /\ heap'.frame .. heap'.frame + HeapPages - 1 \subseteq bits'
               /\ OwnRun(heap.frame .. heap.frame + HeapPages - 1)'
        <4> SUFFICES ASSUME pc' = "map heap", HasRoom
                     PROVE  /\ heap'.frame \in Nat /\ heap'.frame >= DmaPages
                            /\ heap'.frame + HeapPages =< TSize
                            /\ heap'.frame .. heap'.frame + HeapPages - 1 \subseteq bits'
                            /\ OwnRun(heap.frame .. heap.frame + HeapPages - 1)'
          OBVIOUS
        <4>1. pc' # "panic"
          OBVIOUS
        <4>2. /\ heap'.frame \in Nat /\ heap'.frame >= DmaPages
              /\ heap'.frame + HeapPages =< TSize
              /\ heap'.frame .. heap'.frame + HeapPages - 1 \subseteq bits'
              /\ OwnRun(heap'.frame .. heap'.frame + HeapPages - 1)
          BY <2>8, <4>1, HeapRunStep
        <4>3. OwnRun(heap.frame .. heap.frame + HeapPages - 1)'
          BY <3>3, <4>2 DEF OwnRun, HoleBelowRegion, Available, RegionPages
        <4> QED
          BY <4>2, <4>3
      <3> QED
        BY <3>2, <3>4, <3>6, Sequels DEF HeapRunInv
    <2>9. CASE UNCHANGED bootVars
      BY <2>9, RunKept DEF bootVars
    <2> QED
      BY <2>1, <2>2, <2>3, <2>4, <2>5, <2>6, <2>7, <2>8, <2>9 DEF BootNext, Kernel
  <1> QED
    BY <1>1, <1>2, TablesInvariance, PTL DEF BootSpec

(* The heap of a machine with room is memory of its own                    *)
(* (PhysicalMemoryManager.cpp:82-130, Kernel.cpp:51-76, 120-147).          *)
THEOREM HeapOwnsItsMemory == BootSpec => []HeapIsOwnMemory
  <1>1. TablesInv /\ HeapRunInv => HeapIsOwnMemory
    <2>0. SUFFICES ASSUME TablesInv, HeapRunInv, HasRoom, Reached("heap"),
                         NEW frames,
                         frames = {Translate(heap.page + k) : k \in 0 .. HeapPages - 1}
                   PROVE  /\ Cardinality(frames) = HeapPages
                          /\ frames \subseteq bits
                          /\ frames \cap (   0 .. DmaPages - 1
                                  \cup LoaderStart .. LoaderStart + LoaderPages - 1
                                  \cup KernelPhysical .. KernelPhysical + KernelPages - 1) = {}
                          /\ OwnRun(frames)
      BY DEF HeapIsOwnMemory, OwnRun
    <2>1. pc \in After("map heap")
      BY <2>0, Reaches, Sequels
    <2>2. PICK s : s = heap.frame
      OBVIOUS
    <2>3. /\ s \in Nat /\ s >= DmaPages /\ s + HeapPages =< TSize
          /\ s .. s + HeapPages - 1 \subseteq bits
          /\ OwnRun(s .. s + HeapPages - 1)
      BY <2>0, <2>1, <2>2 DEF HeapRunInv
    <2>4. DmaPages \in Nat /\ HeapPages \in Nat /\ HeapPages >= 1 /\ TSize \in Nat
          /\ TSize < VPages /\ VPages \in Nat
      BY LayoutAssumption, TableSizes
    <2>5. \A k \in 0 .. HeapPages - 1 : Translate(heap.page + k) = s + k
      <3> SUFFICES ASSUME NEW k \in 0 .. HeapPages - 1
                   PROVE  Translate(heap.page + k) = s + k
        OBVIOUS
      <3>1. Translate(heap.page + k) = (s + k) % VPages
        BY <2>0, <2>2, HeapThere
      <3>2. s + k \in 0 .. VPages - 1
        BY <2>3, <2>4
      <3> QED
        BY <3>1, <3>2, SmallRemainder
    <2>6. frames = {s + k : k \in 0 .. HeapPages - 1}
      BY <2>0, <2>5
    <2>7. frames = s .. s + HeapPages - 1
      <3>1. \A x \in s .. s + HeapPages - 1 :
               x - s \in 0 .. HeapPages - 1 /\ s + (x - s) = x
        BY <2>3, <2>4
      <3>2. \A k \in 0 .. HeapPages - 1 : s + k \in s .. s + HeapPages - 1
        BY <2>3, <2>4
      <3> QED
        BY <2>6, <3>1, <3>2
    <2>8. PICK top : top = s + HeapPages - 1
      OBVIOUS
    <2>9. s \in Int /\ top \in Int /\ ~ (s > top) /\ top - s + 1 = HeapPages
      BY <2>3, <2>4, <2>8
    <2>10. Cardinality(frames) = HeapPages
      BY <2>7, <2>8, <2>9, FS_Interval
    <2>11. \A x \in frames : x \in Nat /\ x >= DmaPages
      BY <2>3, <2>4, <2>7
    <2>12. \A x \in    0 .. DmaPages - 1
                 \cup LoaderStart .. LoaderStart + LoaderPages - 1
                 \cup KernelPhysical .. KernelPhysical + KernelPages - 1 : x < DmaPages
      BY <2>4, Images, LayoutAssumption DEF LoaderPages
    <2> QED
      BY <2>3, <2>4, <2>7, <2>10, <2>11, <2>12
  <1> QED
    BY <1>1, TablesInvariance, HeapRunInvariance, PTL

(***************************************************************************)
(*                              The heap.                                  *)
(***************************************************************************)

(* While the heap is intact: a block at a ends before the address space    *)
(* does, where the next one begins or where the heap's used part ends, and *)
(* is linked to that neighbour.                                            *)
Laid(h, D, top, a) ==
    /\ End(h, a) = a + HeaderSize + h[a].size
    /\ End(h, a) =< top
    /\ IF End(h, a) = top THEN h[a].next = Null
       ELSE End(h, a) \in D /\ h[a].next = End(h, a) /\ h[End(h, a)].prev = a
    /\ \A b \in D : a < b => End(h, a) =< b

(* Blocks, with the requests in use of them. *)
Layout(h, D, top, requests, L) ==
    /\ \A a \in D : h[a].state = "reserved" <=> a \in L
    /\ \A a \in L : requests[a] =< h[a].size
    /\ top = 0 => D = {0} /\ h[0].size = 0 /\ h[0].prev = Null
    /\ top > 0 => \A a \in D : Laid(h, D, top, a)

LayoutInv ==
    intact => current >= 0 /\ state # "lost"
              /\ Layout(header, DOMAIN header, current, live, DOMAIN live)

(* The walk stands at a block, or behind the last one; call.prev is the    *)
(* block before it, and no block it has passed would do.                   *)
CallInv ==
    intact /\ call.size > 0 =>
        /\ call.node \in DOMAIN header \cup {current}
        /\ current = 0 => call.node = 0 /\ call.prev = Null
        /\ call.node > 0 => /\ call.prev \in DOMAIN header
                            /\ End(header, call.prev) = call.node
        /\ \A b \in DOMAIN header : b < call.node => ~Fits(b, call.size)

(* The headers are a function whose links stay in its domain. *)
Node(D) == [size : Words, state : {"free", "reserved"}, next : {Null} \cup D, prev : {Null} \cup D]

HeaderInv == header \in [DOMAIN header -> Node(DOMAIN header)]

IInv == TypeOK /\ HeaderInv /\ LayoutInv /\ CallInv

-----------------------------------------------------------------------------
(* Addresses. *)

LEMMA HeapConstants ==
    /\ AddrSpace \in Nat \ {0} /\ HeapStart \in Nat /\ HeapStart > 0
    /\ HeapSize \in Nat /\ HeaderSize \in Nat /\ HeaderSize > 0
    /\ HeaderSize =< HeapSize /\ HeapStart + HeapSize =< AddrSpace
    /\ \A n \in Sizes : n \in Nat /\ n > 0 /\ n \in Words
    /\ \A a \in Room : a \in Nat /\ a + HeaderSize =< HeapSize /\ a \in Offsets
    /\ Null \notin Room /\ Null \in Int
  BY HeapAssumption DEF Room, Offsets, Null, Words

LEMMA RemainderIsWord ==
    ASSUME NEW a \in Int
    PROVE  a % AddrSpace \in Words
  BY HeapConstants, QuotientRemainder DEF Words

LEMMA WrapIs ==
    ASSUME NEW a \in Int
    PROVE  /\ Wrap(a) \in Offsets
           /\ a \in Offsets => Wrap(a) = a
           /\ a - AddrSpace \in Offsets => Wrap(a) = a - AddrSpace
  <1>1. PICK x \in Int : x = a + HeapStart
    BY HeapConstants
  <1>2. x % AddrSpace \in Words
    BY <1>1, RemainderIsWord
  <1>3. Wrap(a) = (x % AddrSpace) - HeapStart
    BY <1>1 DEF Wrap
  <1>4. Wrap(a) \in Offsets
    BY <1>2, <1>3, HeapConstants DEF Offsets, Words
  <1>5. ASSUME a \in Offsets
        PROVE  Wrap(a) = a
    <2>1. x \in 0 .. (AddrSpace - 1) /\ x = AddrSpace * 0 + x /\ 0 \in Int
      BY <1>1, <1>5, HeapConstants DEF Offsets
    <2>2. x % AddrSpace = x
      BY <2>1, HeapConstants, DivMod
    <2> QED
      BY <1>1, <1>3, <2>2, HeapConstants
  <1>6. ASSUME a - AddrSpace \in Offsets
        PROVE  Wrap(a) = a - AddrSpace
    <2>1. PICK y : y = x - AddrSpace
      OBVIOUS
    <2>2. y \in 0 .. (AddrSpace - 1) /\ x = AddrSpace * 1 + y /\ 1 \in Int
      BY <1>1, <1>6, <2>1, HeapConstants DEF Offsets
    <2>3. x % AddrSpace = y
      BY <2>2, HeapConstants, DivMod
    <2> QED
      BY <1>1, <1>3, <2>1, <2>3, HeapConstants
  <1> QED
    BY <1>4, <1>5, <1>6

-----------------------------------------------------------------------------
(* Headers, field by field. *)

LEMMA NodeFields ==
    ASSUME NEW D, NEW h \in [D -> Node(D)], NEW a \in D
    PROVE  /\ h[a].size \in Words /\ h[a].size \in Nat /\ h[a].state \in {"free", "reserved"}
           /\ h[a].next \in {Null} \cup D /\ h[a].prev \in {Null} \cup D
  BY DEF Node, Words

(* The headers h and g, g with another header at a. *)
LEMMA HeaderSet ==
    ASSUME NEW D, NEW h \in [D -> Node(D)], NEW a \in D, NEW r \in Node(D),
           NEW g, g = [h EXCEPT ![a] = r]
    PROVE  /\ g \in [D -> Node(D)] /\ g[a] = r
           /\ \A b \in D : b # a => g[b] = h[b]
  OBVIOUS

(* What Allocate and Free do to the state of a header. *)
WithState(h, a, s) == [h EXCEPT ![a].state = s]
States == {"free", "reserved"}

LEMMA StateSet ==
    ASSUME NEW D, NEW h \in [D -> Node(D)], NEW a \in D, NEW s \in States,
           NEW g, g = WithState(h, a, s)
    PROVE  /\ g \in [D -> Node(D)] /\ g[a].state = s
           /\ \A b \in D : /\ g[b].size = h[b].size /\ g[b].next = h[b].next
                           /\ g[b].prev = h[b].prev
                           /\ b # a => g[b].state = h[b].state
  <1>1. PICK r : r = [size |-> h[a].size, state |-> s, next |-> h[a].next, prev |-> h[a].prev]
    OBVIOUS
  <1>2. r \in Node(D)
    BY <1>1, NodeFields DEF Node, States
  <1>3. [h[a] EXCEPT !.state = s] = r
    BY <1>1 DEF Node
  <1>4. g = [h EXCEPT ![a] = r]
    BY <1>3 DEF WithState
  <1>5. /\ g \in [D -> Node(D)] /\ g[a] = r /\ \A b \in D : b # a => g[b] = h[b]
    BY <1>2, <1>4, HeaderSet
  <1> QED
    BY <1>1, <1>5

(* What a merge does to the header that remains. *)
SizeAndPrev(h, a, m, p) == [h EXCEPT ![a].size = (@ + m) % AddrSpace, ![a].prev = p]
SizeAndNext(h, a, m, n) == [h EXCEPT ![a].size = (@ + m) % AddrSpace, ![a].next = n]

LEMMA SizeAndPrevSet ==
    ASSUME NEW D, NEW h \in [D -> Node(D)], NEW a \in D, NEW m \in Nat, NEW p \in {Null} \cup D,
           NEW g, g = SizeAndPrev(h, a, m, p)
    PROVE  /\ g \in [D -> Node(D)] /\ g[a].prev = p
           /\ \A b \in D : /\ g[b].state = h[b].state /\ g[b].next = h[b].next
                           /\ b # a => g[b].prev = h[b].prev
  <1>1. PICK r : r = [size |-> (h[a].size + m) % AddrSpace, state |-> h[a].state,
                      next |-> h[a].next, prev |-> p]
    OBVIOUS
  <1>2. r \in Node(D)
    <2>1. h[a].size \in Nat
      BY NodeFields
    <2>2. (h[a].size + m) % AddrSpace \in Words
      BY <2>1, RemainderIsWord
    <2> QED
      BY <1>1, <2>2, NodeFields DEF Node
  <1>3. g = [h EXCEPT ![a] = r]
    <2>1. PICK q : q = [size |-> (h[a].size + m) % AddrSpace, state |-> h[a].state,
                        next |-> h[a].next, prev |-> h[a].prev]
      OBVIOUS
    <2>2. [h[a] EXCEPT !.size = (h[a].size + m) % AddrSpace] = q
      BY <2>1 DEF Node
    <2>3. [q EXCEPT !.prev = p] = r
      BY <1>1, <2>1
    <2>4. PICK w : w = [h EXCEPT ![a] = q]
      OBVIOUS
    <2>5. g = [w EXCEPT ![a].prev = p] /\ w[a] = q
      BY <2>2, <2>4 DEF SizeAndPrev
    <2> QED
      BY <2>3, <2>4, <2>5
  <1>4. /\ g \in [D -> Node(D)] /\ g[a] = r /\ \A b \in D : b # a => g[b] = h[b]
    BY <1>2, <1>3, HeaderSet
  <1> QED
    BY <1>1, <1>4

LEMMA SizeAndNextSet ==
    ASSUME NEW D, NEW h \in [D -> Node(D)], NEW a \in D, NEW m \in Nat, NEW n \in {Null} \cup D,
           NEW g, g = SizeAndNext(h, a, m, n)
    PROVE  /\ g \in [D -> Node(D)] /\ g[a].next = n
           /\ \A b \in D : /\ g[b].state = h[b].state /\ g[b].prev = h[b].prev
                           /\ b # a => g[b].next = h[b].next
  <1>1. PICK r : r = [size |-> (h[a].size + m) % AddrSpace, state |-> h[a].state,
                      next |-> n, prev |-> h[a].prev]
    OBVIOUS
  <1>2. r \in Node(D)
    <2>1. h[a].size \in Nat
      BY NodeFields
    <2>2. (h[a].size + m) % AddrSpace \in Words
      BY <2>1, RemainderIsWord
    <2> QED
      BY <1>1, <2>2, NodeFields DEF Node
  <1>3. g = [h EXCEPT ![a] = r]
    <2>1. PICK q : q = [size |-> (h[a].size + m) % AddrSpace, state |-> h[a].state,
                        next |-> h[a].next, prev |-> h[a].prev]
      OBVIOUS
    <2>2. [h[a] EXCEPT !.size = (h[a].size + m) % AddrSpace] = q
      BY <2>1 DEF Node
    <2>3. [q EXCEPT !.next = n] = r
      BY <1>1, <2>1
    <2>4. PICK w : w = [h EXCEPT ![a] = q]
      OBVIOUS
    <2>5. g = [w EXCEPT ![a].next = n] /\ w[a] = q
      BY <2>2, <2>4 DEF SizeAndNext
    <2> QED
      BY <2>3, <2>4, <2>5
  <1>4. /\ g \in [D -> Node(D)] /\ g[a] = r /\ \A b \in D : b # a => g[b] = h[b]
    BY <1>2, <1>3, HeaderSet
  <1> QED
    BY <1>1, <1>4

LEMMA LinksSet ==
    ASSUME NEW D, NEW h \in [D -> Node(D)], NEW a \in {Null} \cup D, NEW x \in {Null} \cup D,
           Null \notin D
    PROVE  /\ SetNext(h, a, x) \in [D -> Node(D)]
           /\ SetPrev(h, a, x) \in [D -> Node(D)]
           /\ \A b \in D : /\ SetNext(h, a, x)[b].state = h[b].state
                           /\ SetNext(h, a, x)[b].prev = h[b].prev
                           /\ SetNext(h, a, x)[b].next = IF b = a THEN x ELSE h[b].next
                           /\ SetPrev(h, a, x)[b].state = h[b].state
                           /\ SetPrev(h, a, x)[b].next = h[b].next
                           /\ SetPrev(h, a, x)[b].prev = IF b = a THEN x ELSE h[b].prev
  <1>1. CASE a = Null
    BY <1>1 DEF SetNext, SetPrev
  <1>2. CASE a \in D
    <2>1. PICK q, r : /\ q = [size |-> h[a].size, state |-> h[a].state,
                              next |-> x, prev |-> h[a].prev]
                      /\ r = [size |-> h[a].size, state |-> h[a].state,
                              next |-> h[a].next, prev |-> x]
      OBVIOUS
    <2>2. q \in Node(D) /\ r \in Node(D)
      BY <1>2, <2>1, NodeFields DEF Node
    <2>3. [h[a] EXCEPT !.next = x] = q
      BY <1>2, <2>1 DEF Node
    <2>4. [h[a] EXCEPT !.prev = x] = r
      BY <1>2, <2>1 DEF Node
    <2>5. PICK f, g : f = SetNext(h, a, x) /\ g = SetPrev(h, a, x)
      OBVIOUS
    <2>6. f = [h EXCEPT ![a] = q] /\ g = [h EXCEPT ![a] = r]
      BY <1>2, <2>3, <2>4, <2>5 DEF SetNext, SetPrev
    <2>7. /\ f \in [D -> Node(D)] /\ f[a] = q /\ \A b \in D : b # a => f[b] = h[b]
      BY <1>2, <2>2, <2>6, HeaderSet
    <2>8. /\ g \in [D -> Node(D)] /\ g[a] = r /\ \A b \in D : b # a => g[b] = h[b]
      BY <1>2, <2>2, <2>6, HeaderSet
    <2> QED
      BY <2>1, <2>5, <2>7, <2>8
  <1> QED
    BY <1>1, <1>2

LEMMA NextSet ==
    ASSUME NEW D, Null \notin D, NEW h \in [D -> Node(D)], NEW a \in {Null} \cup D,
           NEW x \in {Null} \cup D, NEW g, g = SetNext(h, a, x)
    PROVE  /\ g \in [D -> Node(D)]
           /\ \A b \in D : /\ g[b].state = h[b].state /\ g[b].prev = h[b].prev
                           /\ g[b].next = IF b = a THEN x ELSE h[b].next
  BY LinksSet

LEMMA PrevSet ==
    ASSUME NEW D, Null \notin D, NEW h \in [D -> Node(D)], NEW a \in {Null} \cup D,
           NEW x \in {Null} \cup D, NEW g, g = SetPrev(h, a, x)
    PROVE  /\ g \in [D -> Node(D)]
           /\ \A b \in D : /\ g[b].state = h[b].state /\ g[b].next = h[b].next
                           /\ g[b].prev = IF b = a THEN x ELSE h[b].prev
  BY LinksSet

-----------------------------------------------------------------------------
(* The two merges of Free link the neighbours p and n of a with each other. *)
Linked(g, h, D, p, n) ==
    \A b \in D : /\ g[b].state = h[b].state
                 /\ g[b].next = IF b = p THEN n ELSE h[b].next
                 /\ g[b].prev = IF b = n THEN p ELSE h[b].prev

LEMMA NextLinked ==
    ASSUME NEW D, Null \notin D, NEW h \in [D -> Node(D)], NEW n \in D, NEW p \in {Null} \cup D,
           NEW m \in Nat, NEW w, w = SizeAndPrev(h, n, m, p), NEW g, g = SetNext(w, p, n)
    PROVE  g \in [D -> Node(D)] /\ Linked(g, h, D, p, n)
  <1>1. /\ w \in [D -> Node(D)] /\ w[n].prev = p
        /\ \A b \in D : /\ w[b].state = h[b].state /\ w[b].next = h[b].next
                        /\ b # n => w[b].prev = h[b].prev
    BY SizeAndPrevSet
  <1>2. /\ g \in [D -> Node(D)]
        /\ \A b \in D : /\ g[b].state = w[b].state /\ g[b].prev = w[b].prev
                        /\ g[b].next = IF b = p THEN n ELSE w[b].next
    BY <1>1, NextSet
  <1> QED
    BY <1>1, <1>2 DEF Linked

LEMMA PrevLinked ==
    ASSUME NEW D, Null \notin D, NEW h \in [D -> Node(D)], NEW p \in D, NEW n \in {Null} \cup D,
           NEW m \in Nat, NEW w, w = SizeAndNext(h, p, m, n), NEW g, g = SetPrev(w, n, p)
    PROVE  g \in [D -> Node(D)] /\ Linked(g, h, D, p, n)
  <1>1. /\ w \in [D -> Node(D)] /\ w[p].next = n
        /\ \A b \in D : /\ w[b].state = h[b].state /\ w[b].prev = h[b].prev
                        /\ b # p => w[b].next = h[b].next
    BY SizeAndNextSet
  <1>2. /\ g \in [D -> Node(D)]
        /\ \A b \in D : /\ g[b].state = w[b].state /\ g[b].next = w[b].next
                        /\ g[b].prev = IF b = n THEN p ELSE w[b].prev
    BY <1>1, PrevSet
  <1> QED
    BY <1>1, <1>2 DEF Linked

LEMMA MergedIntoNext ==
    ASSUME NEW D, Null \notin D, NEW h \in [D -> Node(D)], NEW a \in D,
           NEW n, n = h[a].next, NEW p, p = h[a].prev, NEW g, g = MergeIntoNext(h, a)
    PROVE  /\ g \in [D -> Node(D)]
           /\ IsFree(h, n) => Linked(g, h, D, p, n)
           /\ ~IsFree(h, n) => g = h
  <1>1. n \in {Null} \cup D /\ p \in {Null} \cup D /\ h[a].size \in Nat
    BY NodeFields
  <1>2. CASE ~IsFree(h, n)
    BY <1>2 DEF MergeIntoNext
  <1>3. CASE IsFree(h, n)
    <2>1. n \in D
      BY <1>1, <1>3 DEF IsFree
    <2>2. PICK m, w : m = h[a].size /\ w = SizeAndPrev(h, n, m, p)
      OBVIOUS
    <2>3. g = SetNext(w, p, n)
      BY <1>3, <2>2 DEF MergeIntoNext, SizeAndPrev
    <2>4. m \in Nat
      BY <1>1, <2>2
    <2>5. g \in [D -> Node(D)] /\ Linked(g, h, D, p, n)
      BY <1>1, <2>1, <2>2, <2>3, <2>4, NextLinked
    <2> QED
      BY <1>3, <2>5
  <1> QED
    BY <1>2, <1>3

LEMMA MergedIntoPrev ==
    ASSUME NEW D, Null \notin D, NEW h \in [D -> Node(D)], NEW a \in D,
           NEW n, n = h[a].next, NEW p, p = h[a].prev, NEW g, g = MergeIntoPrev(h, a)
    PROVE  /\ g \in [D -> Node(D)]
           /\ IsFree(h, p) => Linked(g, h, D, p, n)
           /\ ~IsFree(h, p) => g = h
  <1>1. n \in {Null} \cup D /\ p \in {Null} \cup D /\ h[a].size \in Nat
    BY NodeFields
  <1>2. CASE ~IsFree(h, p)
    BY <1>2 DEF MergeIntoPrev
  <1>3. CASE IsFree(h, p)
    <2>1. p \in D
      BY <1>1, <1>3 DEF IsFree
    <2>2. PICK m, w : m = h[a].size /\ w = SizeAndNext(h, p, m, n)
      OBVIOUS
    <2>3. g = SetPrev(w, n, p)
      BY <1>3, <2>2 DEF MergeIntoPrev, SizeAndNext
    <2>4. m \in Nat
      BY <1>1, <2>2
    <2>5. g \in [D -> Node(D)] /\ Linked(g, h, D, p, n)
      BY <1>1, <2>1, <2>2, <2>3, <2>4, PrevLinked
    <2> QED
      BY <1>3, <2>5
  <1> QED
    BY <1>2, <1>3

LEMMA Merged ==
    ASSUME NEW D, Null \notin D, NEW h \in [D -> Node(D)], NEW a \in D,
           NEW n, n = h[a].next, NEW p, p = h[a].prev,
           NEW g, g = MergeIntoPrev(MergeIntoNext(h, a), a)
    PROVE  /\ g \in [D -> Node(D)]
           /\ IsFree(h, n) \/ IsFree(h, p) => Linked(g, h, D, p, n)
           /\ ~IsFree(h, n) /\ ~IsFree(h, p) => g = h
  <1>1. PICK f : f = MergeIntoNext(h, a)
    OBVIOUS
  <1>2. /\ f \in [D -> Node(D)]
        /\ IsFree(h, n) => Linked(f, h, D, p, n)
        /\ ~IsFree(h, n) => f = h
    BY <1>1, MergedIntoNext
  <1>3. g = MergeIntoPrev(f, a)
    BY <1>1
  <1>4. f[a].next = n /\ f[a].prev = p
    BY <1>2 DEF Linked
  <1>5. p \in {Null} \cup D
    BY NodeFields
  <1>6. IsFree(f, p) <=> IsFree(h, p)
    BY <1>2, <1>5 DEF Linked, IsFree
  <1>7. /\ g \in [D -> Node(D)]
        /\ IsFree(f, p) => Linked(g, f, D, p, n)
        /\ ~IsFree(f, p) => g = f
    BY <1>2, <1>3, <1>4, MergedIntoPrev
  <1> QED
    BY <1>2, <1>6, <1>7 DEF Linked

(* Linking the neighbours of a with each other keeps all links inverse but *)
(* those of a.                                                             *)
LEMMA LinkedInverse ==
    ASSUME NEW D, Null \notin D, NEW h, NEW g, NEW a \in D,
           NEW n, n = h[a].next, NEW p, p = h[a].prev, n \in {Null} \cup D, p \in {Null} \cup D,
           Linked(g, h, D, p, n),
           NEW A, a \notin A,
           \A b \in D \ A : /\ h[b].next \in {Null} \cup D /\ h[b].prev \in {Null} \cup D
                            /\ h[b].next # Null => h[h[b].next].prev = b
                            /\ h[b].prev # Null => h[h[b].prev].next = b
    PROVE  \A b \in D \ (A \cup {a}) :
              /\ g[b].next # Null => g[g[b].next].prev = b
              /\ g[b].prev # Null => g[g[b].prev].next = b
  <1> TAKE b \in D \ (A \cup {a})
  <1>1. /\ n # Null => h[n].prev = a
        /\ p # Null => h[p].next = a
    OBVIOUS
  <1>2. ASSUME g[b].next # Null
        PROVE  g[g[b].next].prev = b
    <2>1. CASE b = p
      BY <1>2, <2>1 DEF Linked
    <2>2. CASE b # p
      <3>1. g[b].next = h[b].next /\ h[b].next \in D /\ h[h[b].next].prev = b
        BY <1>2, <2>2 DEF Linked
      <3>2. h[b].next # n
        BY <1>1, <3>1
      <3> QED
        BY <3>1, <3>2 DEF Linked
    <2> QED
      BY <2>1, <2>2
  <1>3. ASSUME g[b].prev # Null
        PROVE  g[g[b].prev].next = b
    <2>1. CASE b = n
      BY <1>3, <2>1 DEF Linked
    <2>2. CASE b # n
      <3>1. g[b].prev = h[b].prev /\ h[b].prev \in D /\ h[h[b].prev].next = b
        BY <1>3, <2>2 DEF Linked
      <3>2. h[b].prev # p
        BY <1>1, <3>1
      <3> QED
        BY <3>1, <3>2 DEF Linked
    <2> QED
      BY <2>1, <2>2
  <1> QED
    BY <1>2, <1>3

-----------------------------------------------------------------------------
(* While the heap is intact blocks lie side by side. *)

LEMMA HeadersAre ==
    ASSUME TypeOK, HeaderInv
    PROVE  /\ 0 \in DOMAIN header /\ DOMAIN header \subseteq Nat /\ Null \notin DOMAIN header
           /\ current \in Int /\ HeaderSize \in Nat /\ HeaderSize > 0
           /\ \A a \in DOMAIN header :
                 /\ header[a].size \in Nat /\ header[a].state \in {"free", "reserved"}
                 /\ header[a].next \in Addresses /\ header[a].prev \in Addresses
                 /\ a \in Nat /\ a + HeaderSize =< HeapSize /\ End(header, a) \in Offsets
  <1>1. /\ 0 \in DOMAIN header /\ DOMAIN header \subseteq Nat /\ Null \notin DOMAIN header
        /\ current \in Int /\ HeaderSize \in Nat /\ HeaderSize > 0
    BY HeapConstants DEF TypeOK, Offsets
  <1>2. ASSUME NEW a \in DOMAIN header
        PROVE  /\ header[a].size \in Nat /\ header[a].state \in {"free", "reserved"}
               /\ header[a].next \in Addresses /\ header[a].prev \in Addresses
    BY NodeFields DEF HeaderInv, Addresses
  <1>3. ASSUME NEW a \in DOMAIN header
        PROVE  a \in Nat /\ a + HeaderSize =< HeapSize
    BY <1>3, HeapConstants DEF TypeOK
  <1>4. ASSUME NEW a \in DOMAIN header
        PROVE  End(header, a) \in Offsets
    <2>1. a + HeaderSize + header[a].size \in Int
      BY <1>1, <1>2, <1>3, <1>4
    <2> QED
      BY <2>1, WrapIs DEF End
  <1> QED
    BY <1>1, <1>2, <1>3, <1>4

(* A block of an intact heap ends before the address space does. *)
LEMMA EndIs ==
    ASSUME TypeOK, HeaderInv, LayoutInv, intact, current > 0, NEW a \in DOMAIN header
    PROVE  /\ End(header, a) = a + HeaderSize + header[a].size
           /\ End(header, a) \in Nat /\ End(header, a) >= a + HeaderSize
           /\ End(header, a) \in Offsets /\ End(header, a) =< current
  <1>1. /\ End(header, a) = a + HeaderSize + header[a].size
        /\ End(header, a) =< current
    BY DEF LayoutInv, Layout, Laid
  <1> QED
    BY <1>1, HeadersAre

(* An empty heap has no block. *)
LEMMA EmptyHeap ==
    ASSUME TypeOK, LayoutInv, intact, current = 0
    PROVE  DOMAIN header = {0} /\ header[0].size = 0 /\ DOMAIN live = {}
  <1>1. DOMAIN header = {0} /\ header[0].size = 0
    BY DEF LayoutInv, Layout
  <1>2. \A b \in DOMAIN live : b = 0 /\ live[b] =< header[b].size /\ live[b] \in Sizes
    BY <1>1 DEF TypeOK, LayoutInv, Layout
  <1>3. \A n \in Sizes : ~(n =< 0)
    BY HeapConstants
  <1> QED
    BY <1>1, <1>2, <1>3

LEMMA ExtentIs ==
    ASSUME NEW a \in Nat, NEW n \in Nat, a + HeaderSize + n \in Offsets
    PROVE  Extent(a, n) = a .. a + HeaderSize + n - 1
  <1>1. \A b \in a .. a + HeaderSize + n - 1 : b \in Int /\ b \in Offsets
    BY HeapConstants DEF Offsets
  <1>2. \A b \in a .. a + HeaderSize + n - 1 : Wrap(b) = b
    BY <1>1, WrapIs
  <1> QED
    BY <1>2 DEF Extent

LEMMA Apart ==
    ASSUME NEW a \in Int, NEW m \in Int, NEW b \in Int, NEW n \in Int,
           a + m =< b \/ b + n =< a
    PROVE  (a .. a + m - 1) \cap (b .. b + n - 1) = {}
  OBVIOUS

LEMMA BlocksApart ==
    ASSUME TypeOK, HeaderInv, LayoutInv, intact, current > 0,
           NEW a \in DOMAIN header, NEW b \in DOMAIN header, a # b
    PROVE  End(header, a) =< b \/ End(header, b) =< a
  <1>1. a < b \/ b < a
    BY HeadersAre
  <1> QED
    BY <1>1 DEF LayoutInv, Layout, Laid

(* A free block, or the place behind the last block, is nobody else's. *)
LEMMA NoOverlap ==
    ASSUME TypeOK, HeaderInv, LayoutInv, intact,
           NEW a \in Nat, NEW n \in Nat, a + HeaderSize + n \in Offsets,
           current > 0 => \A b \in DOMAIN header \ {a} :
                             a + HeaderSize + n =< b \/ End(header, b) =< a,
           current = 0 => a = 0,
           a \notin DOMAIN live
    PROVE  ~Overlaps(a, n)
  <1>1. Extent(a, n) = a .. a + HeaderSize + n - 1
    BY ExtentIs
  <1>2. current \in Int /\ current >= 0
    BY HeadersAre DEF LayoutInv
  <1>3. ~(HeaderSize + n > AddrSpace)
    BY HeapConstants DEF Offsets
  <1>4. CASE current = 0
    <2>1. DOMAIN header \ {a} = {} /\ DOMAIN live = {}
      BY <1>4, EmptyHeap
    <2> QED
      BY <1>3, <2>1 DEF Overlaps
  <1>5. CASE current > 0
    <2>1. ASSUME NEW b \in DOMAIN header \ {a}
          PROVE  Extent(a, n) \cap (b .. b + HeaderSize - 1) = {}
      <3>1. /\ b \in Int /\ HeaderSize \in Int /\ HeaderSize + n \in Int
            /\ a + (HeaderSize + n) =< b \/ b + HeaderSize =< a
        BY <1>5, HeadersAre, EndIs
      <3>2. (a .. a + (HeaderSize + n) - 1) \cap (b .. b + HeaderSize - 1) = {}
        BY <3>1, Apart
      <3>3. a + (HeaderSize + n) - 1 = a + HeaderSize + n - 1
        BY <3>1
      <3> QED
        BY <1>1, <3>2, <3>3
    <2>2. ASSUME NEW b \in DOMAIN live
          PROVE  Extent(a, n) \cap Extent(b, live[b]) = {}
      <3>1. b \in DOMAIN header \ {a} /\ live[b] =< header[b].size /\ live[b] \in Nat
        BY HeapConstants DEF TypeOK, LayoutInv, Layout
      <3>2. PICK m, k : m = HeaderSize + n /\ k = HeaderSize + live[b]
        OBVIOUS
      <3>3. /\ a \in Int /\ b \in Int /\ b \in Nat /\ m \in Int /\ k \in Int
            /\ a + m =< b \/ b + k =< a
            /\ a + m - 1 = a + HeaderSize + n - 1 /\ b + k - 1 = b + HeaderSize + live[b] - 1
            /\ b + HeaderSize + live[b] =< End(header, b) /\ End(header, b) \in Offsets
        BY <1>5, <3>1, <3>2, HeadersAre, EndIs
      <3>4. (a .. a + m - 1) \cap (b .. b + k - 1) = {}
        BY <3>3, Apart, Zenon
      <3>5. Extent(b, live[b]) = b .. b + HeaderSize + live[b] - 1
        <4>1. b + HeaderSize + live[b] \in Offsets
          BY <3>1, <3>3, HeapConstants DEF Offsets
        <4> QED
          BY <3>1, <3>3, <4>1, ExtentIs
      <3> QED
        BY <1>1, <3>3, <3>4, <3>5
    <2> QED
      BY <1>3, <2>1, <2>2 DEF Overlaps
  <1> QED
    BY <1>2, <1>4, <1>5

-----------------------------------------------------------------------------
(* The walk. *)

LEMMA AllocateKeeps ==
    ASSUME IInv, NEW n \in Sizes, Allocate(n)
    PROVE  IInv'
  <1>1. /\ UNCHANGED <<header, current, live, absorbed, wrapped, state>>
        /\ call' = [size |-> n, node |-> 0, prev |-> header[0].prev]
    BY DEF Allocate
  <1>2. /\ TypeOK /\ HeaderInv /\ 0 \in DOMAIN header /\ DOMAIN header \subseteq Nat
        /\ header[0].prev \in Addresses
    BY HeadersAre DEF IInv
  <1>3. TypeOK'
    <2>1. 0 \in Offsets
      BY HeapConstants DEF Offsets
    <2> QED
      BY <1>1, <1>2, <2>1 DEF TypeOK, Addresses
  <1>4. HeaderInv' /\ LayoutInv'
    BY <1>1 DEF IInv, HeaderInv, LayoutInv, intact
  <1>5. CallInv'
    <2>1. intact /\ current = 0 => header[0].prev = Null
      BY DEF IInv, LayoutInv, Layout
    <2>2. call'.node = 0 /\ call'.prev = header[0].prev
      BY <1>1
    <2>3. \A b \in DOMAIN header : ~(b < 0)
      BY <1>2
    <2> QED
      BY <1>1, <1>2, <2>1, <2>2, <2>3 DEF CallInv, intact
  <1> QED
    BY <1>3, <1>4, <1>5 DEF IInv

LEMMA NextNodeKeeps ==
    ASSUME IInv, NextNode
    PROVE  IInv'
  <1>1. PICK a : a = call.node
    OBVIOUS
  <1>2. /\ UNCHANGED <<header, current, live, absorbed, wrapped, state>>
        /\ call.size > 0 /\ a < current /\ a \in DOMAIN header /\ ~Fits(a, call.size)
        /\ call' = [size |-> call.size, node |-> End(header, a), prev |-> a]
    BY <1>1 DEF NextNode, Visiting
  <1>3. call.size \in Sizes \cup {0}
    BY DEF IInv, TypeOK
  <1>4. call'.size = call.size /\ call'.node = End(header, a) /\ call'.prev = a
    BY <1>2
  <1>5. /\ TypeOK /\ HeaderInv /\ DOMAIN header \subseteq Nat /\ current \in Int
        /\ HeaderSize \in Nat /\ HeaderSize > 0 /\ End(header, a) \in Offsets
    BY <1>2, HeadersAre DEF IInv
  <1>6. TypeOK'
    BY <1>2, <1>3, <1>5 DEF TypeOK, Addresses
  <1>7. HeaderInv' /\ LayoutInv'
    BY <1>2 DEF IInv, HeaderInv, LayoutInv, intact
  <1>8. ASSUME intact
        PROVE  /\ End(header, a) \in DOMAIN header \cup {current} /\ current > 0
               /\ End(header, a) > 0
               /\ \A b \in DOMAIN header : b < End(header, a) => ~Fits(b, call.size)
    <2>1. current > 0
      BY <1>2, <1>5
    <2>5. /\ End(header, a) \in Nat /\ End(header, a) >= a + HeaderSize
          /\ a \in Nat /\ End(header, a) > 0
      BY <1>2, <1>5, <1>8, <2>1, EndIs DEF IInv
    <2>2. Laid(header, DOMAIN header, current, a)
      BY <1>2, <1>8, <2>1 DEF IInv, LayoutInv, Layout
    <2>3. \A b \in DOMAIN header : b < a => ~Fits(b, call.size)
      BY <1>1, <1>2, <1>8 DEF IInv, CallInv
    <2>4. ASSUME NEW b \in DOMAIN header, b < End(header, a)
          PROVE  ~Fits(b, call.size)
      <3>1. ~(a < b)
        BY <1>5, <2>2, <2>4, <2>5 DEF Laid
      <3>2. b < a \/ b = a
        BY <1>2, <1>5, <3>1
      <3> QED
        BY <1>2, <2>3, <3>2
    <2> QED
      BY <2>1, <2>2, <2>4, <2>5 DEF Laid
  <1>9. CallInv'
    BY <1>2, <1>4, <1>8 DEF CallInv, intact, Fits, End
  <1> QED
    BY <1>6, <1>7, <1>9 DEF IInv

-----------------------------------------------------------------------------
(* Giving out a block. *)

LEMMA GivenOut ==
    ASSUME NEW a, NEW n, GiveOut(a, n)
    PROVE  /\ DOMAIN live' = DOMAIN live \cup {a} /\ live'[a] = n
           /\ \A b \in DOMAIN live : b # a => live'[b] = live[b]
           /\ call' = NoCall /\ call'.size = 0 /\ absorbed' = absorbed
           /\ state' \in {state, "lost"} /\ (~Overlaps(a, n) => state' = state)
  BY DEF GiveOut, NoCall

(* Types, from those of the headers and of the block given out. *)
LEMMA GiveOutTypes ==
    ASSUME TypeOK, NEW a, NEW n \in Sizes, GiveOut(a, n), HeaderInv', a \in DOMAIN header',
           DOMAIN header \subseteq DOMAIN header',
           DOMAIN header' \subseteq Room, current' \in Offsets, wrapped' \in BOOLEAN
    PROVE  TypeOK'
  <1>1. \A b \in DOMAIN header' : header'[b] \in [size : Words, state : {"free", "reserved"},
                                               next : Addresses', prev : Addresses']
    BY DEF HeaderInv, Node, Addresses
  <1>2. /\ DOMAIN live' = DOMAIN live \cup {a} /\ live'[a] = n
        /\ \A b \in DOMAIN live : b # a => live'[b] = live[b]
        /\ call' = NoCall /\ absorbed' = absorbed /\ state' \in {state, "lost"}
    BY GivenOut, Zenon
  <1>3. /\ DOMAIN live' \subseteq DOMAIN header' /\ absorbed' \subseteq DOMAIN header'
        /\ state' \in {"running", "lost", "faulted"}
    BY <1>2 DEF TypeOK
  <1>4. ASSUME NEW b \in DOMAIN live'
        PROVE  live'[b] \in Sizes
    BY <1>2 DEF TypeOK
  <1>5. NoCall \in [size : Sizes \cup {0}, node : Offsets, prev : Addresses']
    <2>1. 0 \in Offsets
      BY HeapConstants DEF Offsets
    <2> QED
      BY <2>1 DEF NoCall, Addresses
  <1>6. 0 \in DOMAIN header'
    BY DEF TypeOK
  <1> QED
    BY <1>1, <1>2, <1>3, <1>4, <1>5, <1>6 DEF TypeOK

LEMMA LaidSame ==
    ASSUME NEW D, NEW h, NEW g, NEW top, NEW a \in D, Laid(h, D, top, a),
           \A b \in D : /\ End(g, b) = End(h, b) /\ g[b].size = h[b].size
                         /\ g[b].next = h[b].next /\ g[b].prev = h[b].prev
    PROVE  Laid(g, D, top, a)
  BY DEF Laid

LEMMA ReuseKeeps ==
    ASSUME IInv, AllocateReuse
    PROVE  IInv'
  <1>1. PICK a, n, D, h, g : a = call.node /\ n = call.size /\ D = DOMAIN header
                             /\ h = header /\ g = header'
    OBVIOUS
  <1>2. /\ a \in D /\ n > 0 /\ a < current /\ h[a].size >= n /\ h[a].state = "free"
        /\ g = [h EXCEPT ![a].state = "reserved"] /\ GiveOut(a, n) /\ current' = current
        /\ wrapped' = wrapped /\ state = "running"
    BY <1>1 DEF AllocateReuse, Visiting, Fits
  <1>3. /\ TypeOK /\ HeaderInv /\ LayoutInv /\ h \in [D -> Node(D)]
        /\ n \in Sizes /\ n \in Nat /\ D \subseteq Room
        /\ current \in Offsets /\ wrapped \in BOOLEAN
    BY <1>1, <1>2, HeapConstants DEF IInv, HeaderInv, TypeOK
  <1>4. /\ g \in [D -> Node(D)] /\ g[a].state = "reserved"
        /\ \A b \in D : /\ g[b].size = h[b].size /\ g[b].next = h[b].next
                        /\ g[b].prev = h[b].prev
                        /\ b # a => g[b].state = h[b].state
    <2>1. PICK x : x = "reserved"
      OBVIOUS
    <2>2. /\ x \in States /\ a \in D /\ h \in [D -> Node(D)]
          /\ g = WithState(h, a, x)
      BY <1>2, <1>3, <2>1 DEF WithState, States
    <2>3. /\ g \in [D -> Node(D)] /\ g[a].state = x
          /\ \A b \in D : /\ g[b].size = h[b].size /\ g[b].next = h[b].next
                          /\ g[b].prev = h[b].prev
                          /\ b # a => g[b].state = h[b].state
      BY <2>2, StateSet
    <2> QED
      BY <2>1, <2>3
  <1>5. DOMAIN header' = D /\ HeaderInv' /\ current' \in Offsets /\ wrapped' \in BOOLEAN
    BY <1>1, <1>2, <1>3, <1>4 DEF HeaderInv, TypeOK
  <1>6. TypeOK'
    BY <1>1, <1>2, <1>3, <1>5, GiveOutTypes
  <1>7. CallInv'
    <2>1. call' = NoCall
      BY <1>2, GivenOut, Zenon
    <2> QED
      BY <2>1 DEF CallInv, NoCall
  <1>8. LayoutInv'
    <2>1. SUFFICES ASSUME intact' PROVE LayoutInv'
      BY DEF LayoutInv
    <2>2. intact
      BY <1>2, <2>1, GivenOut DEF intact
    <2>3. current > 0 /\ a \in Nat
      BY <1>1, <1>2, <1>3, HeadersAre
    <2>4. PICK top, l, L, m, M : /\ top = current /\ l = live /\ L = DOMAIN live
                                 /\ m = live' /\ M = DOMAIN live'
      OBVIOUS
    <2>5. Layout(h, D, top, l, L)
      BY <1>1, <1>3, <2>2, <2>4 DEF LayoutInv
    <2>6. M = L \cup {a} /\ m[a] = n /\ \A b \in L : b # a => m[b] = l[b]
      BY <1>2, <2>4, GivenOut
    <2>7. Layout(g, D, top, m, M)
      <3>1. \A b \in D : End(g, b) = End(h, b)
        BY <1>4 DEF End
      <3>2. top > 0 /\ L \subseteq D
        BY <1>1, <1>3, <2>3, <2>4 DEF TypeOK
      <3>3. ASSUME NEW b \in D
            PROVE  Laid(g, D, top, b)
        <4>1. Laid(h, D, top, b)
          BY <2>5, <3>2 DEF Layout
        <4>2. \A c \in D : /\ End(g, c) = End(h, c) /\ g[c].size = h[c].size
                            /\ g[c].next = h[c].next /\ g[c].prev = h[c].prev
          <5> TAKE c \in D
          <5>1. End(g, c) = End(h, c)
            BY <3>1
          <5>2. g[c].size = h[c].size /\ g[c].next = h[c].next /\ g[c].prev = h[c].prev
            BY <1>4
          <5> QED
            BY <5>1, <5>2
        <4> QED
          BY <4>1, <4>2, LaidSame, Zenon
      <3>4. n \in Int /\ top \in Int
        BY <1>3, <2>3, <2>4, HeadersAre
      <3>5. ASSUME NEW b \in D
            PROVE  g[b].state = "reserved" <=> b \in M
        BY <1>2, <1>4, <2>5, <2>6, <3>5 DEF Layout
      <3>6. ASSUME NEW b \in M
            PROVE  m[b] =< g[b].size
        <4>1. CASE b = a
          BY <1>1, <1>2, <1>3, <1>4, <2>6, <4>1, HeadersAre
        <4>2. CASE b # a
          BY <1>4, <2>5, <2>6, <3>2, <3>6, <4>2 DEF Layout
        <4> QED
          BY <4>1, <4>2
      <3>7. top # 0
        BY <3>2, <3>4
      <3> QED
        BY <3>3, <3>5, <3>6, <3>7 DEF Layout
    <2>8. ~Overlaps(a, n)
      <3>1. a \notin DOMAIN live
        BY <1>2, <2>4, <2>5 DEF Layout
      <3>3. /\ a + HeaderSize + n =< End(header, a) /\ End(header, a) \in Nat
            /\ a + HeaderSize + n \in Offsets
        <4>1. /\ End(header, a) = a + HeaderSize + header[a].size /\ End(header, a) \in Nat
              /\ End(header, a) \in Offsets /\ header[a].size \in Nat /\ header[a].size >= n
          BY <1>1, <1>2, <1>3, <2>2, <2>3, HeadersAre, EndIs
        <4> QED
          BY <1>3, <2>3, <4>1, HeapConstants DEF Offsets
      <3>2. ASSUME NEW b \in D \ {a}
            PROVE  a + HeaderSize + n =< b \/ End(header, b) =< a
        <4>1. End(header, a) =< b \/ End(header, b) =< a
          BY <1>1, <1>2, <1>3, <2>2, <2>3, BlocksApart
        <4> QED
          BY <1>1, <1>3, <2>3, <3>3, <4>1, HeadersAre
      <3> QED
        BY <1>1, <1>3, <2>2, <2>3, <3>1, <3>2, <3>3, NoOverlap
    <2>9. state' # "lost"
      BY <1>2, <2>8, GivenOut
    <2>10. current' >= 0 /\ current' = top
      BY <1>2, <1>3, <2>3, <2>4, HeapConstants DEF Offsets
    <2>11. Layout(header', DOMAIN header', current', live', DOMAIN live')
      BY <1>1, <1>5, <2>4, <2>7, <2>10, Zenon
    <2> QED
      BY <2>9, <2>10, <2>11, Zenon DEF LayoutInv
  <1> QED
    BY <1>5, <1>6, <1>7, <1>8 DEF IInv

-----------------------------------------------------------------------------
(* A new block behind the last one. *)

(* h with the header r at a, linked from the one at p. *)
Extended(h, D, a, r, p) ==
    [b \in D \cup {a} |-> IF b = a THEN r
                         ELSE IF b = p THEN [h[b] EXCEPT !.next = a] ELSE h[b]]

(* g has the headers h, but that the block at p is linked to a. *)
LinkedTo(g, h, D, a, p) ==
    \A b \in D \ {a} : /\ g[b].size = h[b].size /\ g[b].state = h[b].state
                        /\ g[b].prev = h[b].prev
                        /\ g[b].next = IF b = p THEN a ELSE h[b].next

LEMMA ExtendedSet ==
    ASSUME NEW D, NEW h \in [D -> Node(D)], NEW a, NEW r \in Node(D \cup {a}), NEW p,
           NEW g, g = Extended(h, D, a, r, p)
    PROVE  /\ g \in [D \cup {a} -> Node(D \cup {a})] /\ g[a] = r
           /\ LinkedTo(g, h, D, a, p)
  <1>1. g = [b \in D \cup {a} |-> g[b]] /\ g[a] = r
    BY DEF Extended
  <1>2. ASSUME NEW b \in D \ {a}
        PROVE  /\ g[b].size = h[b].size /\ g[b].state = h[b].state
               /\ g[b].prev = h[b].prev
               /\ g[b].next = IF b = p THEN a ELSE h[b].next
               /\ g[b] \in Node(D \cup {a})
    <2>1. PICK q : q = [size |-> h[b].size, state |-> h[b].state, next |-> a, prev |-> h[b].prev]
      OBVIOUS
    <2>2. [h[b] EXCEPT !.next = a] = q
      BY <2>1 DEF Node
    <2>3. g[b] = IF b = p THEN q ELSE h[b]
      BY <2>2 DEF Extended
    <2>4. h[b] \in Node(D \cup {a})
      BY DEF Node
    <2>5. q \in Node(D \cup {a})
      BY <2>1, NodeFields DEF Node
    <2> QED
      BY <2>1, <2>3, <2>4, <2>5
  <1>3. \A b \in D \cup {a} : g[b] \in Node(D \cup {a})
    BY <1>1, <1>2
  <1> QED
    BY <1>1, <1>2, <1>3 DEF LinkedTo

LEMMA NewLaid ==
    ASSUME NEW D, D \subseteq Nat, NEW h \in [D -> Node(D)], NEW top \in Nat,
           \A a \in D : Laid(h, D, top, a),
           NEW p \in D, End(h, p) = top, NEW n \in Nat,
           top + HeaderSize + n \in Offsets,
           NEW g, g[top].size = n, g[top].next = Null, g[top].prev = p,
           LinkedTo(g, h, D, top, p)
    PROVE  /\ top \notin D
           /\ \A b \in D \cup {top} : Laid(g, D \cup {top}, top + n + HeaderSize, b)
  <1>1. HeaderSize \in Nat /\ HeaderSize > 0
    BY HeapAssumption
  <1>2. \A a \in D : /\ End(h, a) \in Nat /\ End(h, a) > a /\ End(h, a) =< top /\ a < top
                      /\ End(h, a) = a + HeaderSize + h[a].size
    <2> TAKE a \in D
    <2>1. h[a].size \in Nat /\ a \in Nat
      BY NodeFields
    <2> QED
      BY <1>1, <2>1 DEF Laid
  <1>3. top \notin D
    BY <1>2
  <1>4. \A b \in D : /\ g[b].size = h[b].size /\ g[b].prev = h[b].prev
                     /\ g[b].next = IF b = p THEN top ELSE h[b].next
    BY <1>3 DEF LinkedTo
  <1>5. PICK t : t = top + n + HeaderSize
    OBVIOUS
  <1>6. t \in Nat /\ t > top
    BY <1>1, <1>5
  <1>7. End(g, top) = t /\ t = top + HeaderSize + g[top].size
    <2>1. t = top + HeaderSize + n /\ t \in Int
      BY <1>1, <1>5
    <2> QED
      BY <2>1, WrapIs DEF End
  <1>8. Laid(g, D \cup {top}, t, top)
    BY <1>2, <1>4, <1>6, <1>7 DEF Laid
  <1>9. ASSUME NEW b \in D
        PROVE  Laid(g, D \cup {top}, t, b)
    <2>1. /\ End(g, b) = End(h, b) /\ End(h, b) \in Nat /\ End(h, b) =< top
          /\ End(g, b) = b + HeaderSize + g[b].size
      BY <1>2, <1>4 DEF End
    <2>2. \A c \in D \cup {top} : b < c => End(g, b) =< c
      BY <2>1 DEF Laid
    <2>3. CASE End(h, b) = top
      <3>1. ~(b < p) /\ ~(p < b)
        <4>1. (b < p => End(h, b) =< p) /\ (p < b => End(h, p) =< b)
          BY DEF Laid
        <4>2. b \in Nat /\ p \in Nat /\ b < top /\ p < top /\ End(h, p) = top
          BY <1>2
        <4> QED
          BY <2>3, <4>1, <4>2
      <3>2. b = p
        BY <3>1
      <3> QED
        BY <1>4, <1>6, <2>1, <2>2, <2>3, <3>2 DEF Laid
    <2>4. CASE End(h, b) # top
      <3>1. End(h, b) \in D /\ h[b].next = End(h, b) /\ h[End(h, b)].prev = b
        BY <2>4 DEF Laid
      <3>2. b # p
        BY <2>4
      <3>3. g[b].next = End(h, b) /\ g[End(h, b)].prev = b
        BY <1>4, <3>1, <3>2
      <3>4. End(g, b) # t /\ End(g, b) =< t
        BY <1>6, <2>1, <2>4
      <3>5. IF End(g, b) = t THEN g[b].next = Null
            ELSE /\ End(g, b) \in D \cup {top} /\ g[b].next = End(g, b)
                 /\ g[End(g, b)].prev = b
        BY <2>1, <3>1, <3>3, <3>4
      <3> QED
        BY <2>1, <2>2, <3>4, <3>5, Zenon DEF Laid
    <2> QED
      BY <2>3, <2>4
  <1> QED
    BY <1>3, <1>5, <1>8, <1>9

LEMMA NewKeeps ==
    ASSUME IInv, AllocateNew
    PROVE  IInv'
  <1>1. PICK k, n, p, D, h, g, r, top :
            /\ k = call.node /\ n = call.size /\ p = call.prev /\ D = DOMAIN header
            /\ h = header /\ g = header' /\ r = NewBlock /\ top = current
    OBVIOUS
  <1>2. /\ n > 0 /\ k >= top /\ k \in Room /\ GiveOut(k, n)
        /\ g = Extended(h, D, k, r, p) /\ current' = Wrap(top + n + HeaderSize)
        /\ wrapped' = (wrapped \/ top + n + HeaderSize \notin Offsets)
        /\ state = "running"
    BY <1>1 DEF AllocateNew, AtEnd, WithNewBlock, Extended, Grow
  <1>3. /\ TypeOK /\ HeaderInv /\ h \in [D -> Node(D)] /\ 0 \in D
        /\ n \in Sizes \cup {0} /\ p \in {Null} \cup D /\ top \in Int
        /\ D \subseteq Room /\ wrapped \in BOOLEAN
    BY <1>1, HeapConstants DEF IInv, HeaderInv, TypeOK, Addresses, Offsets
  <1>4. /\ n \in Sizes /\ n \in Nat /\ n \in Words /\ k \in Nat
        /\ HeaderSize \in Nat /\ HeaderSize > 0 /\ HeapSize \in Nat
    BY <1>2, <1>3, HeapConstants
  <1>5. /\ r \in Node(D \cup {k}) /\ r.size = n /\ r.state = "reserved"
        /\ r.next = Null /\ r.prev = p
    BY <1>1, <1>3, <1>4 DEF NewBlock, Node
  <1>6. /\ g \in [D \cup {k} -> Node(D \cup {k})] /\ g[k] = r
        /\ LinkedTo(g, h, D, k, p)
    <2>1. h \in [D -> Node(D)] /\ r \in Node(D \cup {k}) /\ g = Extended(h, D, k, r, p)
      BY <1>2, <1>3, <1>5
    <2> QED
      BY <2>1, ExtendedSet
  <1>7. /\ DOMAIN header' = D \cup {k} /\ HeaderInv' /\ current' \in Offsets
        /\ wrapped' \in BOOLEAN /\ D \cup {k} \subseteq Room
    <2>1. DOMAIN header' = D \cup {k} /\ HeaderInv'
      BY <1>1, <1>6 DEF HeaderInv
    <2>2. current' \in Offsets
      <3>1. top + n + HeaderSize \in Int
        BY <1>3, <1>4
      <3> QED
        BY <1>2, <3>1, WrapIs
    <2> QED
      BY <1>2, <1>3, <2>1, <2>2
  <1>8. TypeOK'
    BY <1>1, <1>2, <1>3, <1>4, <1>7, GiveOutTypes
  <1>9. CallInv'
    <2>1. call' = NoCall
      BY <1>2, GivenOut, Zenon
    <2> QED
      BY <2>1 DEF CallInv, NoCall
  <1>10. LayoutInv'
    <2>1. SUFFICES ASSUME intact' PROVE LayoutInv'
      BY DEF LayoutInv
    <2>2. /\ intact /\ LayoutInv /\ top + n + HeaderSize \in Offsets
          /\ top >= 0 /\ top \in Nat
      <3>1. intact /\ LayoutInv /\ top + n + HeaderSize \in Offsets
        BY <1>2, <2>1, GivenOut DEF intact, IInv
      <3> QED
        BY <1>1, <1>3, <3>1 DEF LayoutInv
    <2>3. PICK l, L, m, M, t : /\ l = live /\ L = DOMAIN live
                               /\ m = live' /\ M = DOMAIN live' /\ t = current'
      OBVIOUS
    <2>4. Layout(h, D, top, l, L) /\ L \subseteq D /\ \A b \in L : l[b] \in Sizes
      BY <1>1, <1>3, <2>2, <2>3 DEF LayoutInv, TypeOK
    <2>5. M = L \cup {k} /\ m[k] = n /\ \A b \in L : b # k => m[b] = l[b]
      BY <1>2, <2>3, GivenOut
    <2>6. /\ t = top + n + HeaderSize /\ t = top + HeaderSize + n
          /\ t \in Offsets /\ t \in Nat /\ t > 0
      <3>1. top + n + HeaderSize \in Int
        BY <1>4, <2>2
      <3>2. Wrap(top + n + HeaderSize) = top + n + HeaderSize
        BY <2>2, <3>1, WrapIs
      <3> QED
        BY <1>2, <1>4, <2>2, <2>3, <3>2
    <2>7. /\ k \in D \cup {top}
          /\ top = 0 => k = 0 /\ p = Null
          /\ k > 0 => p \in D /\ End(h, p) = k
      BY <1>1, <1>2, <2>2 DEF IInv, CallInv
    <2>8. /\ k \notin L
          /\ top = 0 => k = 0
          /\ top > 0 => k = top /\ \A b \in D \ {k} : End(h, b) =< k
          /\ \A b \in D \cup {k} : Laid(g, D \cup {k}, t, b)
      <3>1. CASE top = 0
        <4>1. D = {0} /\ k = 0 /\ p = Null
          BY <2>4, <2>7, <3>1 DEF Layout
        <4>2. 0 \notin L
          BY <1>1, <1>3, <2>2, <2>3, <3>1, EmptyHeap
        <4>3. End(g, 0) = t /\ t = 0 + HeaderSize + g[0].size
          <5>1. g[0].size = n /\ 0 + HeaderSize + n = t
            BY <1>4, <1>5, <1>6, <2>6, <3>1, <4>1
          <5> QED
            BY <2>6, <5>1, WrapIs DEF End
        <4>4. Laid(g, {0}, t, 0)
          BY <1>5, <1>6, <2>6, <4>1, <4>3 DEF Laid
        <4>5. D \cup {k} = {0} /\ ~(top > 0)
          BY <3>1, <4>1
        <4> QED
          BY <4>1, <4>2, <4>4, <4>5, Zenon
      <3>2. CASE top > 0
        <4>1. \A b \in D : Laid(h, D, top, b)
          BY <2>4, <3>2 DEF Layout
        <4>2. \A b \in D : /\ b \in Nat /\ End(h, b) \in Nat /\ End(h, b) > b
                           /\ End(h, b) =< top
          <5> TAKE b \in D
          <5>1. h[b].size \in Nat
            BY <1>3, NodeFields
          <5>2. b \in Nat
            BY <1>3, HeapConstants
          <5> QED
            BY <1>4, <4>1, <5>1, <5>2 DEF Laid
        <4>3. k = top /\ k \notin D
          BY <1>2, <1>3, <2>7, <4>2
        <4>4. p \in D /\ End(h, p) = k
          BY <2>7, <3>2, <4>3
        <4>5. /\ D \subseteq Nat /\ h \in [D -> Node(D)] /\ top \in Nat
              /\ \A b \in D : Laid(h, D, top, b)
              /\ p \in D /\ End(h, p) = top /\ n \in Nat /\ top + HeaderSize + n \in Offsets
              /\ g[top].size = n /\ g[top].next = Null /\ g[top].prev = p
          BY <1>3, <1>4, <1>5, <1>6, <2>2, <2>6, <4>1, <4>2, <4>3, <4>4
        <4>6. LinkedTo(g, h, D, top, p)
          BY <1>6, <4>3
        <4>7. \A b \in D \cup {top} : Laid(g, D \cup {top}, top + n + HeaderSize, b)
          BY <4>5, <4>6, NewLaid, Zenon
        <4>8. top # 0 /\ \A b \in D \ {k} : End(h, b) =< k
          BY <3>2, <4>2, <4>3
        <4>9. \A b \in D \cup {k} : Laid(g, D \cup {k}, t, b)
          BY <2>6, <4>3, <4>7, Zenon
        <4> QED
          BY <2>4, <4>3, <4>8, <4>9, Zenon
      <3>3. top = 0 \/ top > 0
        BY <2>2
      <3> QED
        BY <3>1, <3>2, <3>3, Zenon
    <2>9. Layout(g, D \cup {k}, t, m, M)
      <3>1. ASSUME NEW b \in D \cup {k}
            PROVE  g[b].state = "reserved" <=> b \in M
        BY <1>5, <1>6, <2>4, <2>5, <3>1 DEF Layout, LinkedTo
      <3>2. ASSUME NEW b \in M
            PROVE  m[b] =< g[b].size
        <4>1. CASE b = k
          BY <1>4, <1>5, <1>6, <2>5, <4>1
        <4>2. CASE b # k
          BY <1>6, <2>4, <2>5, <3>2, <4>2 DEF Layout, LinkedTo
        <4> QED
          BY <4>1, <4>2
      <3>3. t # 0
        BY <2>6
      <3> QED
        BY <2>8, <3>1, <3>2, <3>3 DEF Layout
    <2>10. ~Overlaps(k, n)
      <3>1. current > 0 => \A b \in DOMAIN header \ {k} :
                              k + HeaderSize + n =< b \/ End(header, b) =< k
        BY <1>1, <2>8
      <3>2. k + HeaderSize + n \in Offsets
        BY <2>2, <2>6, <2>8
      <3> QED
        BY <1>1, <1>3, <1>4, <2>2, <2>3, <2>8, <3>1, <3>2, NoOverlap
    <2>11. state' # "lost"
      BY <1>2, <2>10, GivenOut
    <2> QED
      BY <1>1, <1>7, <2>3, <2>6, <2>9, <2>11 DEF LayoutInv
  <1> QED
    BY <1>7, <1>8, <1>9, <1>10 DEF IInv

(* The call that faults never returns, and only a heap that is not intact  *)
(* is lost.                                                                *)
LEMMA OutsideKeeps ==
    ASSUME IInv, AllocateOutside
    PROVE  IInv'
  <1>1. /\ state' \in {"faulted", "lost"} /\ (state' = "lost" => call.node < 0)
        /\ UNCHANGED <<header, current, live, absorbed, wrapped, call>> /\ call.size > 0
    BY DEF AllocateOutside, AtEnd
  <1>2. TypeOK' /\ HeaderInv'
    BY <1>1 DEF IInv, TypeOK, HeaderInv, Addresses
  <1>3. intact => call.node >= 0 /\ call.node \in Int
    <2>1. TypeOK /\ HeaderInv
      BY DEF IInv
    <2> QED
      BY <1>1, <2>1, HeadersAre DEF IInv, CallInv, LayoutInv
  <1>4. LayoutInv' /\ CallInv'
    BY <1>1, <1>3 DEF IInv, LayoutInv, CallInv, intact, Fits
  <1> QED
    BY <1>2, <1>4 DEF IInv

LEMMA LostKeeps ==
    ASSUME IInv, AllocateLost
    PROVE  IInv'
  <1>1. /\ state' = "lost" /\ UNCHANGED <<header, current, live, absorbed, wrapped, call>>
        /\ call.size > 0 /\ call.node < current /\ call.node \notin DOMAIN header
    BY DEF AllocateLost, Visiting
  <1>2. call.node \in Int /\ current \in Int
    BY HeapConstants DEF IInv, TypeOK, Offsets
  <1>3. ~intact
    BY <1>1, <1>2 DEF IInv, CallInv
  <1>4. TypeOK' /\ HeaderInv'
    BY <1>1 DEF IInv, TypeOK, HeaderInv, Addresses
  <1>5. LayoutInv' /\ CallInv'
    BY <1>1, <1>3 DEF LayoutInv, CallInv, intact
  <1> QED
    BY <1>4, <1>5 DEF IInv

-----------------------------------------------------------------------------
(* Free. *)

(* What Free does to the headers, with the block's neighbours p and n.     *)
LEMMA FreedAndMerged ==
    ASSUME TypeOK, HeaderInv, NEW a, Free(a)
    PROVE  \E D, h, f, g, p, n :
              /\ D = DOMAIN header /\ h = header /\ g = header' /\ a \in D
              /\ f \in [D -> Node(D)] /\ g \in [D -> Node(D)]
              /\ f[a].state = "free"
              /\ \A b \in D : /\ f[b].size = h[b].size /\ f[b].next = h[b].next
                              /\ f[b].prev = h[b].prev
                              /\ b # a => f[b].state = h[b].state
              /\ p = h[a].prev /\ n = h[a].next
              /\ \/ absorbed' = absorbed \cup {a} /\ Linked(g, f, D, p, n)
                 \/ absorbed' = absorbed /\ g = f
  <1>1. PICK D, h, g, x : D = DOMAIN header /\ h = header /\ g = header' /\ x = "free"
    OBVIOUS
  <1>2. PICK f : f = WithState(h, a, x)
    OBVIOUS
  <1>3. /\ a \in DOMAIN live
        /\ g = MergeIntoPrev(MergeIntoNext(f, a), a)
        /\ absorbed' = IF IsFree(f, f[a].next) \/ IsFree(f, f[a].prev)
                       THEN absorbed \cup {a} ELSE absorbed
    BY <1>1, <1>2 DEF Free, WithState
  <1>4. a \in D /\ h \in [D -> Node(D)] /\ x \in States /\ Null \notin D
    BY <1>1, <1>3, HeadersAre DEF TypeOK, HeaderInv, States
  <1>5. /\ f \in [D -> Node(D)] /\ f[a].state = x
        /\ \A b \in D : /\ f[b].size = h[b].size /\ f[b].next = h[b].next
                        /\ f[b].prev = h[b].prev
                        /\ b # a => f[b].state = h[b].state
    BY <1>2, <1>4, StateSet
  <1>6. PICK p, n : p = f[a].prev /\ n = f[a].next
    OBVIOUS
  <1>7. /\ g \in [D -> Node(D)]
        /\ IsFree(f, n) \/ IsFree(f, p) => Linked(g, f, D, p, n)
        /\ ~IsFree(f, n) /\ ~IsFree(f, p) => g = f
    BY <1>3, <1>4, <1>5, <1>6, Merged
  <1>8. p = h[a].prev /\ n = h[a].next
    BY <1>4, <1>5, <1>6
  <1>9. \/ absorbed' = absorbed \cup {a} /\ Linked(g, f, D, p, n)
        \/ absorbed' = absorbed /\ g = f
    BY <1>3, <1>6, <1>7
  <1> QED
    BY <1>1, <1>4, <1>5, <1>7, <1>8, <1>9

LEMMA FreeKeeps ==
    ASSUME IInv, NEW a, Free(a)
    PROVE  IInv'
  <1>1. TypeOK /\ HeaderInv /\ LayoutInv
    BY DEF IInv
  <1>2. PICK D, h, f, g, p, n :
              /\ D = DOMAIN header /\ h = header /\ g = header' /\ a \in D
              /\ f \in [D -> Node(D)] /\ g \in [D -> Node(D)]
              /\ f[a].state = "free"
              /\ \A b \in D : /\ f[b].size = h[b].size /\ f[b].next = h[b].next
                              /\ f[b].prev = h[b].prev
                              /\ b # a => f[b].state = h[b].state
              /\ p = h[a].prev /\ n = h[a].next
              /\ \/ absorbed' = absorbed \cup {a} /\ Linked(g, f, D, p, n)
                 \/ absorbed' = absorbed /\ g = f
    BY <1>1, FreedAndMerged
  <1>3. /\ state = "running" /\ call = NoCall /\ a \in DOMAIN live
        /\ live' = [b \in DOMAIN live \ {a} |-> live[b]]
        /\ UNCHANGED <<current, wrapped, state, call>>
    BY DEF Free
  <1>4. DOMAIN header' = D /\ HeaderInv'
    BY <1>2 DEF HeaderInv
  <1>5. TypeOK'
    <2>1. \A b \in DOMAIN header' : header'[b] \in [size : Words, state : {"free", "reserved"},
                                                  next : Addresses', prev : Addresses']
      BY <1>4 DEF HeaderInv, Node, Addresses
    <2>2. /\ DOMAIN live' = DOMAIN live \ {a} /\ \A b \in DOMAIN live' : live'[b] = live[b]
          /\ DOMAIN header' = DOMAIN header /\ absorbed' \subseteq DOMAIN header'
      BY <1>1, <1>2, <1>3, <1>4 DEF TypeOK
    <2>3. /\ \A b \in DOMAIN live' : live'[b] \in Sizes
          /\ DOMAIN live' \subseteq DOMAIN header'
      BY <1>1, <2>2 DEF TypeOK
    <2>4. /\ call' \in [size : Sizes \cup {0}, node : Offsets, prev : Addresses']
          /\ current' \in Offsets /\ wrapped' \in BOOLEAN
          /\ state' \in {"running", "lost", "faulted"}
      BY <1>1, <1>3, <2>2 DEF TypeOK, Addresses
    <2>5. 0 \in DOMAIN header' /\ DOMAIN header' \subseteq Room
      BY <1>1, <2>2 DEF TypeOK
    <2> QED
      BY <2>1, <2>2, <2>3, <2>4, <2>5 DEF TypeOK
  <1>6. CallInv'
    BY <1>3 DEF CallInv, NoCall
  <1>7. LayoutInv'
    <2>1. SUFFICES ASSUME intact' PROVE LayoutInv'
      BY DEF LayoutInv
    <2>2. intact /\ g = f
      BY <1>2, <1>3, <2>1 DEF intact
    <2>3. PICK top, l, L, m, M : /\ top = current /\ l = live /\ L = DOMAIN live
                                 /\ m = live' /\ M = DOMAIN live'
      OBVIOUS
    <2>4. Layout(h, D, top, l, L) /\ L \subseteq D
      BY <1>1, <1>2, <2>2, <2>3 DEF LayoutInv, TypeOK
    <2>5. M = L \ {a} /\ \A b \in M : m[b] = l[b]
      BY <1>3, <2>3
    <2>6. Layout(g, D, top, m, M)
      <3>1. ASSUME NEW b \in D
            PROVE  g[b].state = "reserved" <=> b \in M
        BY <1>2, <2>2, <2>4, <2>5, <3>1 DEF Layout
      <3>2. ASSUME NEW b \in M
            PROVE  m[b] =< g[b].size
        BY <1>2, <2>2, <2>4, <2>5, <3>2 DEF Layout
      <3>3. \A c \in D : /\ End(g, c) = End(h, c) /\ g[c].size = h[c].size
                          /\ g[c].next = h[c].next /\ g[c].prev = h[c].prev
        BY <1>2, <2>2 DEF End
      <3>4. ASSUME top > 0, NEW b \in D
            PROVE  Laid(g, D, top, b)
        <4>1. Laid(h, D, top, b)
          BY <2>4, <3>4 DEF Layout
        <4> QED
          BY <3>3, <4>1, LaidSame, Zenon
      <3>5. ASSUME top = 0
            PROVE  D = {0} /\ g[0].size = 0 /\ g[0].prev = Null
        BY <1>2, <2>2, <2>4, <3>5 DEF Layout
      <3> QED
        BY <3>1, <3>2, <3>4, <3>5 DEF Layout
    <2> QED
      BY <1>1, <1>2, <1>3, <1>4, <2>2, <2>3, <2>6 DEF LayoutInv
  <1> QED
    BY <1>4, <1>5, <1>6, <1>7 DEF IInv

-----------------------------------------------------------------------------
LEMMA InitInv == Init => IInv
  <1> SUFFICES ASSUME Init PROVE IInv
    OBVIOUS
  <1>1. /\ DOMAIN header = {0}
        /\ header[0] = [size |-> 0, state |-> "free", next |-> Null, prev |-> Null]
        /\ header = [a \in {0} |-> header[a]]
        /\ current = 0 /\ DOMAIN live = {} /\ absorbed = {} /\ wrapped = FALSE
        /\ state = "running" /\ call = NoCall
    BY DEF Init
  <1>2. header[0] \in Node({0})
    BY <1>1, HeapConstants DEF Node, Words
  <1>3. HeaderInv
    BY <1>1, <1>2 DEF HeaderInv
  <1>4. TypeOK
    <2>1. 0 \in Room /\ 0 \in Offsets
      BY HeapConstants DEF Room, Offsets
    <2>2. call \in [size : Sizes \cup {0}, node : Offsets, prev : Addresses]
      BY <1>1, <2>1 DEF NoCall, Addresses
    <2> QED
      BY <1>1, <1>2, <2>1, <2>2 DEF TypeOK, Node, Addresses
  <1>5. LayoutInv
    BY <1>1 DEF LayoutInv, Layout
  <1>6. CallInv
    BY <1>1 DEF CallInv, NoCall
  <1> QED
    BY <1>3, <1>4, <1>5, <1>6 DEF IInv

LEMMA StutterKeeps ==
    ASSUME IInv, UNCHANGED vars
    PROVE  IInv'
  <1>1. UNCHANGED <<header, current, live, absorbed, wrapped, state, call>>
    BY DEF vars
  <1>2. TypeOK' /\ HeaderInv'
    BY <1>1 DEF IInv, TypeOK, HeaderInv, Addresses
  <1>3. LayoutInv' /\ CallInv'
    BY <1>1 DEF IInv, LayoutInv, CallInv, intact, Fits
  <1> QED
    BY <1>2, <1>3 DEF IInv

(* Every call of Allocate, at whichever header its walk stands, and every  *)
(* Free keep the types, the layout while the heap is intact, and what the  *)
(* walk knows.                                                             *)
THEOREM Invariance == Spec => []IInv
  <1>1. Init => IInv
    BY InitInv
  <1>2. IInv /\ [Next]_vars => IInv'
    <2> SUFFICES ASSUME IInv, [Next]_vars PROVE IInv'
      OBVIOUS
    <2>1. CASE \E n \in Sizes : Allocate(n)
      BY <2>1, AllocateKeeps
    <2>2. CASE NextNode
      BY <2>2, NextNodeKeeps
    <2>3. CASE AllocateReuse
      BY <2>3, ReuseKeeps
    <2>4. CASE AllocateNew
      BY <2>4, NewKeeps
    <2>5. CASE AllocateOutside
      BY <2>5, OutsideKeeps
    <2>6. CASE AllocateLost
      BY <2>6, LostKeeps
    <2>7. CASE \E a \in DOMAIN live : Free(a)
      BY <2>7, FreeKeeps
    <2>8. CASE UNCHANGED vars
      BY <2>8, StutterKeeps
    <2> QED
      BY <2>1, <2>2, <2>3, <2>4, <2>5, <2>6, <2>7, <2>8 DEF Next
  <1> QED
    BY <1>1, <1>2, PTL DEF Spec

-----------------------------------------------------------------------------
LEMMA OnlyLast ==
    ASSUME IInv, intact, NEW a \in DOMAIN live, End(header, a) > HeapSize
    PROVE  End(header, a) = current
  <1>1. TypeOK /\ HeaderInv /\ LayoutInv /\ a \in DOMAIN header
    BY DEF IInv, TypeOK
  <1>2. current > 0
    BY <1>1, EmptyHeap, HeadersAre DEF LayoutInv
  <1>3. End(header, a) = current \/ End(header, a) \in DOMAIN header
    BY <1>1, <1>2 DEF LayoutInv, Layout, Laid
  <1>4. \A b \in DOMAIN header : ~(b > HeapSize)
    BY <1>1, HeadersAre, HeapConstants
  <1> QED
    BY <1>3, <1>4

LEMMA Disjoint ==
    ASSUME IInv
    PROVE  DisjointWhileIntact
  <1>1. TypeOK /\ HeaderInv /\ LayoutInv
    BY DEF IInv
  <1>2. ASSUME intact
        PROVE  state # "lost" /\ \A a \in DOMAIN live : live[a] =< header[a].size
    BY <1>1, <1>2 DEF LayoutInv, Layout
  <1>3. ASSUME intact, NEW a \in DOMAIN live, NEW b \in DOMAIN live, a # b
        PROVE  Extent(a, live[a]) \cap Extent(b, live[b]) = {}
    <2>1. /\ a \in DOMAIN header /\ b \in DOMAIN header
          /\ live[a] \in Nat /\ live[b] \in Nat
          /\ live[a] =< header[a].size /\ live[b] =< header[b].size
      BY <1>1, <1>2, <1>3, HeapConstants DEF TypeOK
    <2>2. current # 0
      BY <1>1, <1>3, EmptyHeap
    <2>3. current > 0
      BY <1>1, <1>3, <2>2, HeadersAre DEF LayoutInv
    <2>4. End(header, a) =< b \/ End(header, b) =< a
      BY <1>1, <1>3, <2>1, <2>3, BlocksApart
    <2>5. PICK m, k : m = HeaderSize + live[a] /\ k = HeaderSize + live[b]
      OBVIOUS
    <2>6. /\ a \in Int /\ b \in Int /\ m \in Int /\ k \in Int
          /\ a + m =< b \/ b + k =< a
          /\ a + m - 1 = a + HeaderSize + live[a] - 1 /\ b + k - 1 = b + HeaderSize + live[b] - 1
      <3>1. /\ a \in Nat /\ b \in Nat /\ HeaderSize \in Nat
            /\ header[a].size \in Nat /\ header[b].size \in Nat
        BY <1>1, <2>1, HeadersAre
      <3>2. /\ End(header, a) = a + HeaderSize + header[a].size
            /\ End(header, b) = b + HeaderSize + header[b].size
        BY <1>1, <1>3, <2>1, <2>3, EndIs
      <3> QED
        BY <2>1, <2>4, <2>5, <3>1, <3>2
    <2>7. (a .. a + m - 1) \cap (b .. b + k - 1) = {}
      BY <2>6, Apart, Zenon
    <2>8. \A c \in {a, b} : Extent(c, live[c]) = c .. c + HeaderSize + live[c] - 1
      <3> TAKE c \in {a, b}
      <3>1. /\ c \in Nat /\ live[c] \in Nat /\ header[c].size \in Nat
            /\ live[c] =< header[c].size /\ c + HeaderSize + header[c].size \in Offsets
        BY <1>1, <1>3, <2>1, <2>3, HeadersAre, EndIs
      <3>2. c + HeaderSize + live[c] \in Offsets
        BY <3>1, HeapConstants DEF Offsets
      <3> QED
        BY <3>1, <3>2, ExtentIs
    <2> QED
      BY <2>6, <2>7, <2>8
  <1> QED
    BY <1>1, <1>2, <1>3, OnlyLast DEF DisjointWhileIntact

(* While the heap is intact no two callers share a byte, none is given a   *)
(* byte of a header, and no walk leaves the headers: the loop of           *)
(* Heap::Allocate may read and write every node it visits.  Only the last  *)
(* block can reach past m_EndAddress, although Heap::Allocate never        *)
(* compares it with m_CurrentAddress.                                      *)
THEOREM CallersStayApart == Spec => []DisjointWhileIntact
  <1>1. IInv => DisjointWhileIntact
    BY Disjoint
  <1> QED
    BY <1>1, Invariance, PTL

(* While the heap is intact the links that Free follows name the           *)
(* neighbours that the sizes give, the ones Allocate's loop follows.       *)
THEOREM LinksAgreeWithSizes == Spec => []LinksFollowSizes
  <1>1. IInv => LinksFollowSizes
    <2> SUFFICES ASSUME IInv, intact, current > 0, NEW a \in DOMAIN header
                 PROVE  IF End(header, a) = current THEN header[a].next = Null
                        ELSE /\ End(header, a) \in DOMAIN header
                             /\ header[a].next = End(header, a)
                             /\ header[End(header, a)].prev = a
      BY DEF LinksFollowSizes
    <2>1. Laid(header, DOMAIN header, current, a)
      BY DEF IInv, LayoutInv, Layout
    <2> QED
      BY <2>1 DEF Laid
  <1> QED
    BY <1>1, Invariance, PTL

-----------------------------------------------------------------------------
(* Steps. *)

LEMMA OnlyNewGrows ==
    ASSUME TypeOK, [Next]_vars, current' # current
    PROVE  AllocateNew
  BY DEF Next, vars, Allocate, NextNode, AllocateReuse, AllocateOutside, AllocateLost, Free

LEMMA NewIsNeeded ==
    ASSUME IInv, AllocateNew, intact, NEW a \in DOMAIN live' \ DOMAIN live,
           NEW b \in DOMAIN header, header[b].state = "free"
    PROVE  header[b].size < live'[a]
  <1>1. /\ TypeOK /\ HeaderInv /\ LayoutInv /\ CallInv
        /\ call.size > 0 /\ call.node >= current /\ GiveOut(call.node, call.size)
    BY DEF IInv, AllocateNew, AtEnd
  <1>2. a = call.node /\ live'[a] = call.size
    BY <1>1 DEF GiveOut
  <1>3. /\ call.size \in Nat /\ call.node \in Int /\ current \in Nat
        /\ header[b].size \in Nat
    BY <1>1, HeapConstants, HeadersAre DEF TypeOK, Offsets, LayoutInv
  <1>4. CASE current = 0
    <2>1. b = 0 /\ header[0].size = 0
      BY <1>1, <1>4 DEF LayoutInv, Layout
    <2> QED
      BY <1>1, <1>2, <1>3, <2>1
  <1>5. CASE current > 0
    <2>1. End(header, b) =< current
      BY <1>1, <1>5 DEF LayoutInv, Layout, Laid
    <2>2. /\ End(header, b) \in Nat /\ End(header, b) >= b + HeaderSize
          /\ HeaderSize \in Nat /\ HeaderSize > 0 /\ b \in Nat
      BY <1>1, <1>5, HeadersAre, EndIs
    <2>3. b < call.node
      BY <1>1, <1>3, <2>1, <2>2
    <2>4. ~Fits(b, call.size)
      BY <1>1, <2>3 DEF CallInv
    <2> QED
      BY <1>2, <1>3, <2>4 DEF Fits
  <1> QED
    BY <1>3, <1>4, <1>5

(* While the heap is intact Heap::Allocate appends a block only when its   *)
(* walk, which takes the first node that will do, has met every free block *)
(* and none was large enough.                                              *)
THEOREM GrowthIsNeeded == Spec => GrowsOnlyWhenNothingFits
  <1>1. IInv /\ [Next]_vars =>
          [intact /\ current' # current =>
             \A a \in DOMAIN live' \ DOMAIN live, b \in DOMAIN header :
                header[b].state = "free" => header[b].size < live'[a]]_vars
    BY OnlyNewGrows, NewIsNeeded DEF IInv
  <1> QED
    BY <1>1, Invariance, PTL DEF Spec, GrowsOnlyWhenNothingFits

(* A block that wraps covers the first header, or ends below it. *)
LEMMA WrapIsHuge ==
    ASSUME IInv, AllocateNew, intact, wrapped'
    PROVE  /\ call.size >= AddrSpace - (HeapStart + HeapSize)
           /\ state' # "lost" => current' =< 0
  <1>1. PICK k, n, t : k = call.node /\ n = call.size /\ t = k + n + HeaderSize
    OBVIOUS
  <1>2. /\ TypeOK /\ HeaderInv /\ LayoutInv /\ CallInv /\ n > 0 /\ k >= current /\ k \in Room
        /\ GiveOut(k, n) /\ current' = Wrap(current + n + HeaderSize)
        /\ current + n + HeaderSize \notin Offsets
    BY <1>1 DEF IInv, AllocateNew, AtEnd, Grow, intact
  <1>3. /\ n \in Words /\ n \in Nat /\ k \in Nat /\ k + HeaderSize =< HeapSize
        /\ current \in Nat /\ current =< k /\ 0 \in DOMAIN header
    <2>1. n \in Sizes
      BY <1>1, <1>2 DEF TypeOK
    <2>2. current \in Nat
      BY <1>2, HeadersAre DEF LayoutInv
    <2> QED
      BY <1>2, <2>1, <2>2, HeapConstants, HeadersAre
  <1>4. k = current
    <2>1. CASE current = 0
      BY <1>1, <1>2, <2>1 DEF CallInv
    <2>2. CASE current > 0
      <3>1. k \in DOMAIN header => k < current
        BY <1>2, <1>3, <2>2, EndIs, HeapConstants
      <3> QED
        BY <1>1, <1>2, <1>3, <3>1 DEF CallInv
    <2> QED
      BY <1>3, <2>1, <2>2
  <1>5. t \in Nat /\ t >= AddrSpace - HeapStart
    BY <1>1, <1>2, <1>3, <1>4, HeapConstants DEF Offsets
  <1>6. t - AddrSpace \in Offsets /\ t =< HeapSize + n
    BY <1>1, <1>3, <1>5, HeapConstants DEF Offsets, Words
  <1>7. n >= AddrSpace - (HeapStart + HeapSize)
    BY <1>3, <1>5, <1>6, HeapConstants
  <1>8. current' = t - AddrSpace
    BY <1>1, <1>2, <1>4, <1>5, <1>6, WrapIs
  <1>9. ASSUME ~(t - AddrSpace =< 0)
        PROVE  Overlaps(k, n)
    <2>1. CASE k = 0
      BY <1>1, <1>3, <1>5, <1>9, <2>1, HeapConstants DEF Overlaps
    <2>2. CASE k # 0
      <3>1. AddrSpace \in k .. k + HeaderSize + n - 1
        BY <1>1, <1>3, <1>5, <1>9, HeapConstants
      <3>2. Wrap(AddrSpace) = 0
        BY WrapIs, HeapConstants DEF Offsets
      <3>3. 0 \in Extent(k, n) /\ 0 \in 0 .. 0 + HeaderSize - 1
        BY <3>1, <3>2, HeapConstants DEF Extent
      <3> QED
        BY <1>3, <2>2, <3>3 DEF Overlaps
    <2> QED
      BY <2>1, <2>2
  <1>10. state' # "lost" => current' =< 0
    BY <1>2, <1>8, <1>9 DEF GiveOut
  <1> QED
    BY <1>1, <1>7, <1>10

(* Heap::Allocate wraps m_CurrentAddress only for a request that is larger *)
(* than all memory behind the heap, and leaves it at or below the heap's   *)
(* start unless the block covers others at once.                           *)
THEOREM WrapStartsOver == Spec => OnlyHugeWraps
  <1>1. ASSUME [Next]_vars, intact, wrapped'
        PROVE  AllocateNew
    BY <1>1 DEF Next, vars, intact, Allocate, NextNode, AllocateReuse, AllocateOutside,
                AllocateLost, Free
  <1>2. IInv /\ [Next]_vars =>
          [intact /\ wrapped' =>
             /\ call.size >= AddrSpace - (HeapStart + HeapSize)
             /\ state' # "lost" => current' =< 0]_vars
    BY <1>1, WrapIsHuge
  <1> QED
    BY <1>2, Invariance, PTL DEF Spec, OnlyHugeWraps

LEMMA OnlyFreeGivesBack ==
    ASSUME [Next]_vars, NEW a \in DOMAIN live, DOMAIN live' = DOMAIN live \ {a}
    PROVE  Free(a)
  <1>1. ~UNCHANGED live
    OBVIOUS
  <1>2. ~(\E b, n : GiveOut(b, n))
    BY DEF GiveOut
  <1>3. ~(\E n \in Sizes : Allocate(n)) /\ ~NextNode /\ ~AllocateOutside /\ ~AllocateLost
    BY <1>1 DEF Allocate, NextNode, AllocateOutside, AllocateLost
  <1>4. ~AllocateReuse /\ ~AllocateNew /\ ~UNCHANGED vars
    BY <1>1, <1>2 DEF AllocateReuse, AllocateNew, vars
  <1>5. PICK b \in DOMAIN live : Free(b)
    BY <1>3, <1>4 DEF Next
  <1>6. DOMAIN live' = DOMAIN live \ {b}
    BY <1>5 DEF Free
  <1> QED
    BY <1>5, <1>6

LEMMA FreeKeepsInverse ==
    ASSUME IInv, NEW a \in DOMAIN live \ absorbed, Free(a), LinksInverse
    PROVE  LinksInverse'
  <1>1. TypeOK /\ HeaderInv
    BY DEF IInv
  <1>2. PICK D, h, f, g, p, n :
              /\ D = DOMAIN header /\ h = header /\ g = header' /\ a \in D
              /\ f \in [D -> Node(D)] /\ g \in [D -> Node(D)]
              /\ f[a].state = "free"
              /\ \A b \in D : /\ f[b].size = h[b].size /\ f[b].next = h[b].next
                              /\ f[b].prev = h[b].prev
                              /\ b # a => f[b].state = h[b].state
              /\ p = h[a].prev /\ n = h[a].next
              /\ \/ absorbed' = absorbed \cup {a} /\ Linked(g, f, D, p, n)
                 \/ absorbed' = absorbed /\ g = f
    BY <1>1, FreedAndMerged
  <1>3. PICK A, B : A = absorbed /\ B = absorbed'
    OBVIOUS
  <1>4. a \notin A /\ Null \notin D /\ DOMAIN g = D
    BY <1>1, <1>2, <1>3, HeadersAre
  <1>5. \A b \in D : f[b].next \in {Null} \cup D /\ f[b].prev \in {Null} \cup D
    BY <1>2, NodeFields
  <1>6. \A b \in D \ A : /\ f[b].next \in {Null} \cup D /\ f[b].prev \in {Null} \cup D
                         /\ f[b].next # Null => f[f[b].next].prev = b
                         /\ f[b].prev # Null => f[f[b].prev].next = b
    <2>1. \A b \in D \ A : /\ h[b].next # Null => h[h[b].next].prev = b
                           /\ h[b].prev # Null => h[h[b].prev].next = b
      BY <1>2, <1>3 DEF LinksInverse
    <2> QED
      BY <1>2, <1>5, <2>1
  <1>7. \A b \in D \ B : /\ g[b].next # Null => g[g[b].next].prev = b
                         /\ g[b].prev # Null => g[g[b].prev].next = b
    <2>1. CASE B = A \cup {a} /\ Linked(g, f, D, p, n)
      <3>1. n = f[a].next /\ p = f[a].prev /\ a \in D
        BY <1>2
      <3>2. n \in {Null} \cup D /\ p \in {Null} \cup D
        BY <1>5, <3>1
      <3> QED
        BY <1>4, <1>6, <2>1, <3>1, <3>2, LinkedInverse
    <2>2. CASE B = A /\ g = f
      BY <1>6, <2>2
    <2> QED
      BY <1>2, <1>3, <2>1, <2>2
  <1> QED
    BY <1>2, <1>3, <1>4, <1>7 DEF LinksInverse

(* Heap::Free keeps next and prev inverse but for the nodes merged away,   *)
(* whatever the sizes and the neighbours of the block.                     *)
THEOREM FreeKeepsLinksInverse == Spec => FreeKeepsLinks
  <1>1. IInv /\ [Next]_vars =>
          [\A a \in DOMAIN live \ absorbed :
              LinksInverse /\ DOMAIN live' = DOMAIN live \ {a} => LinksInverse']_vars
    BY OnlyFreeGivesBack, FreeKeepsInverse
  <1> QED
    BY <1>1, Invariance, PTL DEF Spec, FreeKeepsLinks
=============================================================================
