# A TLA+ development of EagleOS

EagleOS is a 32-bit x86 kernel. GRUB loads it, `Arch/x86/Boot.asm` maps it to the
higher half and calls `KMain`, which collects a `BootInfo` and calls
`InitKernel`: console, descriptor tables and interrupt controllers, memory
managers, heap, one disk read, an endless loop. There is one thread of control;
interrupts are never enabled. What runs beside that thread is hardware (drive,
TLB, interrupt controllers, CRT controller) and the exceptions the processor may
raise between any two instructions.

These modules model what the kernel keeps state about, TLC checks them on small
instances, and every safety property that holds, of every module, is also proved with
TLAPS, for every value of the constants. Liveness is only model-checked. `PROJECT.json` gives, definition by
definition, the source lines each one translates. All paths below are under
`src/Kernel/`.

## 1. Inventory

| component | state | operations | modules |
|---|---|---|---|
| `ESTD::Bitmap` | one bit per page | `SetAll`, `ResetAll`, `SetBits`, `ClearBits`, `FindUnsetBits` | `Bitmap`, `BitmapScan` |
| physical memory manager | bitmap, start address | `Init`, `ReservePages`, `AllocatePages`, `FreePages` | `PhysicalMemoryManager` |
| virtual memory manager | page directory, page tables, CR3 | `Map`, `MapRange`, `Unmap`, `UnmapRange`, `GetPhysicalAddress`, `ReloadPageDirectory` | `AddressSpace`, `VirtualMemoryManager` |
| virtual memory allocator | bitmap of its range | `Init`, `AllocatePages`, `FreePages` | `VirtualMemoryAllocator` |
| kernel heap | headers in the heap, current address | `Init`, `Allocate`, `Free` | `Heap` |
| ATA PIO driver | locals of the calls, the drive's registers | `Init`, `Read28`, `Write28` | `ATA` |
| GDT, IDT, stubs, PIC | descriptor and gate tables, stack frames, PIC registers | `Processor::Init`, an exception | `Interrupts` |
| VGA console | `s_Col`, `s_Row`, video memory, CRT controller | `Init`, `ClearScreen`, `WriteChar` | `VGA` |
| conversions, `KPrintf` | buffers, the place in the format | `IntToStr`, `Strrev`, `KPrintf` | `TypeConverter`, `KPrintf` |
| boot sequence | directory and stack of the boot, `BootInfo`, order of initialisation | `Boot.asm`, `KMain`, `InitKernel`, `InitMemoryManager` | `Boot` |
| tokeniser | the text, `Strtok`'s pointer | `Strtok_r`, `Strspn`, `Strcspn` | `CString` |
| `ESTD::String` | heap buffers and sizes | constructors, assignments, sums, `Substr`, destructor | `String` |

How they interact. The virtual memory allocator asks its own bitmap for virtual
pages, the physical memory manager for frames and the virtual memory manager for
the mapping; the heap takes its range once, at `Init`, the same way, and never
asks again. All of them are called directly and return error values. `KPrintf`
and `KPanic` reach the console from everywhere, the exception handler included,
which interrupts whatever is running and shares the console's static variables
with it. The ATA driver talks to a drive that runs at its own pace. The page
tables are read by the processor's TLB at moments of its own choosing.

What is hard, and which properties answer to it:

- **Sequences of calls.** One thread, but long-lived records that different
  functions edit in different ways: bits, runs, links, page-table entries. A
  mistake shows after several calls. Bitmap accounting (`ExactAccounting`),
  agreement of three records of one allocation (`LockstepUntilOverrun`), links
  against sizes in the heap (`LinksFollowSizes`).
- **Limits.** A bitmap of 131072 bits for a 4GB address space, narrowings from
  64 to 32 bits, ranges that wrap, a heap of fixed size whose requests may be any
  32-bit number, a 512MB map on a 1GB machine (`ReservedNeverHeld`, `NoSharing`,
  `LiveDisjoint`, `DisjointWhileIntact`, `OnlyHugeWraps`, `KernelStaysMapped`).
- **Partial failure.** Range operations stop in the middle and keep what they
  have done (`ImplementsAddressSpace`, `FreeUnmapsAll`).
- **A second actor.** The TLB (`TLBCoherent`), the drive (`InStep`,
  `FailureIsReal`, `CallReturns`), the exception handler inside the console
  (`PanicIsShown`), an exception during `Processor::Init`
  (`FaultsAreDelivered`).
- **Order of initialisation.** Code, stack and tables move under the running kernel
  twice (`NothingFaults`, `HandedOver`), and each manager stands on the ones before
  it, down to which frames the heap comes to lie on (`HeapIsOwnMemory`).
- **Errors nobody handles.** Every `while` on a status bit; every panic
  (`BootReachesDisk`).

`PROJECT.json` lists the hazards line by line.

## 2. The modules

### Bitmap, BitmapScan

A bitmap is the set of its set positions. `SetAll` has the code's pattern:
`Memset(m_Bits, 1, ..)` sets one bit of each byte, not eight. `SetBits` and
`ClearBits` do nothing if the run leaves the map (`InMap`). `FindUnsetBits` is
defined by its result: the first clear run that is long enough, otherwise the
(shorter) clear run at the end of the map, otherwise -1. `BitmapScan` is the same
function as a loop, one position per step with the code's variables `firstBit`,
`length` and `i`; `ScanCorrect` states that the loop leaves what the operator is
defined as, so the other modules may use the operator.

### PhysicalMemoryManager

`Boot(in)` is `InitPhysicalMemoryManager`: start address, release of the available
regions with their 64-bit bases and lengths narrowed to 32 bits, reservation of
boot loader, kernel, DMA zone and page 0, in this order. `AllocatePages`,
`AllocateFails` and `FreePages` are its member functions, called by callers that
remember the address and count they were given (`held`). `BootInfo` is what the
multiboot memory map and `linker.ld` may say. Single-page functions are the case
`count = 1`.

### AddressSpace, VirtualMemoryManager

`AddressSpace` is the promise: a translation from pages to frames, changed by range
requests that take effect at once, on the longest prefix of the range that can
be served. `VirtualMemoryManager` has the directory, the tables and their entries
(`present` bit, address, the bit `SetAddress` does not clear), serves a range one
page per step with the address arithmetic of the code (wrapping at the end of
the address space), flushes the TLB page by page on unmapping, and performs the
boot's three mappings and the switch of directories. The TLB fills itself with
any current translation at any step. `ImplementsAddressSpace` is the refinement:
while a request is under way the abstract translation is the one from before it.

### VirtualMemoryAllocator

Composes two instances of `Bitmap` (virtual and physical) and `AddressSpace`.
`AllocatePages` searches both maps, sets bits in both and maps the range;
`FreePages` looks up the frame, unmaps, clears both. Callers hold runs as above.
The history variable `overrun` records that a run has left one of the maps, which
the code does not notice.

### Heap

`header` holds the `HeapNode`s by address. `Allocate` begins a call, whose locals are in
`call`; `NextNode` is one turn of its loop, from a header to the one its size leads to;
`AllocateReuse`, `AllocateNew` and `AllocateOutside` are the ends of the loop, and
`AllocateLost` a walk that comes to an address without a header. `Free` merges with the
next and then with the previous block exactly as the code does. When headers and
data overlap, what memory holds is unknown: the state becomes `lost` and the model
stops; past the end of the mapped range it becomes `faulted`.

Pointers and sizes have 32 bits (`AddrSpace`). An address is written as its offset from
`m_StartAddress`, so that those below the heap are negative and `nullptr` is `-HeapStart`;
`Wrap` is what an addition makes of it. Three things wrap: the walk (`Heap.cpp:52`),
`m_CurrentAddress` (`:61`) and the sizes of merged blocks (`:78`, `:88`). No request is
too large: when one takes `m_CurrentAddress` round, it comes out at or below the first
block, the next `Allocate` skips its loop, and `AllocateNew` writes a header over the
first one, in use or not. The history variable `wrapped` records that this has happened,
`absorbed` which blocks were merged away; `intact` says that neither has.

### ATA

The driver makes one port access per step (`SetRegister`, `Command`, `Delay`, the
polling loops `Poll` and `Check`, the word loops `MoveRead`, `MoveWrite`,
`MoveIdentify`, `CacheFlush`, `FlushStatus`); the drive is external, with the phases
absent, ready, pending, busy, data, fault and hung, and changes phase at any step.
Its status register means nothing while a command is pending or BSY is set, and
it drops what is written to it while it works. It may be an ATA drive, a packet
device or missing. An LBA has `Registers` digits of base `Base` (three bytes and
a nibble in the code), a sector `Words` words (256).

### Interrupts

`boot` walks through `Processor::Init`: five descriptors, `lgdt`, thirty-two gates,
`lidt`, the two masks, ten port writes of `PIC8259::Remap`, one per step. `Raise` is an
exception at any of them, or in another exception's handler. Delivered through
gate and descriptor, it pushes EFLAGS, CS and EIP, for some vectors an error code;
`EnterStub`, `SaveState` and `FaultHandler` are the stub, `_ISRHandler` and
`x86ISRFaultHandler`, which reads its argument through the layout of
`InterruptFrame`. Without a deliverable gate the machine is reset. The controllers
are external and interpret data writes by the initialisation word they expect.

### VGA (with MCVGA)

`WriteCharColor` step by step for two contexts: the kernel, which prints any text,
and the exception handler, which interrupts it between any two accesses, prints
`PanicText` and loops. The kernel is compiled with `-O0`, so the order of accesses
is the source's. `ScrollDown` copies rows including the first one below the
screen, then blanks twice the memory it means to (`Memsetw` counts words, it is
given bytes), all of it below the screen. `lines` is what a scrolling terminal
should show of everything printed so far.

### TypeConverter

`IntToStr` with one step per turn of its loops, over words of `Bits` bits, with the
conversions between `int32_t` and `uint32_t` that dividing by an unsigned base
brings, and two cells behind the buffer. `Numeral` is the reference: a number's digits
without leading zeros, each by its place (`Digits`), and the sign of a decimal number;
`Room` is what it needs with its NUL. `Power` is a recursion because the provers know
nothing of `^`.

### KPrintf

The loop over a format, a character or a directive per step, with `TypeConverter`'s
steps inside `%d` (and `%u` and `%i`, which are the same code) and `%x`. The arguments
are chosen as they are read and recorded in `args`, so that `Formatted`, a recursion over
the format's characters, can say what should have been printed. A call of `IntToStr` by someone else is a behaviour of its
own (`DirectInit`), which keeps all buffer lengths and bases.

### CString

`Strtok_r` called until it answers 0, with the loops of `Strspn` and `Strcspn` a
character per step. Pointers are places in the text, which the calls cut up; `tokens`
is what they have answered. `Starts` is the reference: the beginnings of the longest
runs without a delimiter.

### String

Objects with `m_Data` and `m_Size` over a set of live blocks, one action per
constructor, assignment, sum, `Substr` and destructor. `value` is the text an object
stands for, as long as it has one: a string moved from, or with a terminator inside,
has none. Blocks that nothing names any more are dropped (the code leaks them);
what is read behind a block or at address 0 is any character up to a terminator.
`Substr` writes behind its buffer, so the model stops there (`overwritten`).

### TextLibrary

The three of them for TLC. They share no state: a behaviour is one of `KPrintf` or
`IntToStr`, a tokenisation, or a use of strings.

### Boot

From `_kernelstart` to the last loop, with the page tables where they lie in memory
(`mem`): the assembly code writes the first ones with paging off, the kernel writes its
own through the translation that these give it, switches (`cr3`) and goes on editing
the tables it runs on, one page per step. `Translate` is the processor's walk. `Order`
is what `InitKernel` and `InitMemoryManager` call, `Request` the arguments of each
`MapRange`; `P` is `PhysicalMemoryManager`, for the bitmap its boot leaves and the search
for the heap's run in it. Addresses are counted in pages. The steps inside the console,
the processor's tables, the heap and the disk are their own modules'; here they are
steps that may fault. `Touched` says, step by step, which pages are used and which
frame each must lead to.

`VirtualMemoryManager` abstracts from where the tables lie, and has the TLB and every
request; `Boot` has the memory and the one sequence of requests the kernel makes.

## 3. The runs

Each run is one `.cfg` file. All of them finish, without a state constraint; the
few bounds are constants of the modules and are named here.

| run | shows | instance, and why it is enough | states |
|---|---|---|---|
| `bitmap_scan` | for every content and request the loop ends, with what `FindUnsetBits` is defined to answer | every map of 7 bits, every request from 1 to 8: all arrangements of two clear runs with a set bit before, between and behind them | 7,808 |
| `physical_pages` | set bits are the boot's and the recorded runs; recorded runs are disjoint; reserved pages are never held; runs leave the map only when nothing fits | 10 pages, three callers, requests 1, 2, 3 and 7 on three machines: memory covered by the map, more memory than the map, memory above the address space | 10,393 |
| `page_tables` | the tables implement `AddressSpace`; the TLB never holds what the tables do not; the kernel stays mapped; entries not present are zero | 4 directory entries of 2 pages; 13 requests: overlapping, misaligned, without table, wrapping to address 0 | 17,184 |
| `virtual_pages` | the three records of an allocation agree until a run leaves a map; what is live is mapped, disjoint inside the maps and unmapped whole | 7 physical and 4 virtual bits, three callers: each of the maps can be the one that runs out, with and without a short run at its end | 8,844 |
| `heap` | until a merge or a wrap: live blocks are disjoint, links follow sizes, growth only when nothing fits, only the last block may leave the heap; only a request for all that lies behind the heap wraps, and the heap then starts over; `Free` keeps the links inverse always | an address space of 32, the heap's 12 bytes from 8 on, headers of 2: four blocks, every merge and reuse, and kernel and free addresses on either side. Requests of 1 and 3; 14 wraps from the third block on, to the addresses from `nullptr` on; 26 wraps from every place, to addresses below the heap and in it; 31 goes round to its own header. Bound `MaxBlock`: no `Free` once a merged block is larger than 4 and no request's size. Deadlock is not checked: a faulted or lost heap stops | 4,361,824 |
| `ata` | the word loops stay in step with the drive, also after a lost flush; a read returns the sectors, failures are real and calls return, as long as nothing has been written | LBAs of two digits, so that a carry happens between registers; 3 words; up to 3 sectors, so that a call crosses the carry; reads past the last sector. Bound `MaxWrites`: one call of `Write28`, at any place; what it may leave behind (a busy drive, a dropped command) is there for every later call | 492,138 |
| `interrupts` | the frame is read as it was pushed, no exception is lost once the tables are loaded, the controllers end remapped with their masks | two exceptions with an error code and two without, two masks per controller. Bound `MaxNesting`: two exceptions in one another | 31,564 |
| `console` | the screen shows the last lines, junk from below the screen shows in one row at most, the cursor follows, a panic message is shown whatever it interrupts | 3 rows of 2 cells, a message longer than a row: wrapping, scrolling and wrapping into scrolling happen to both contexts; no bound on the text | 368,357 |
| `text` | the numeral is right in a buffer with room and nothing is written behind such a buffer; a format is printed with its arguments in their places; the tokens are those of the text, in order and cut off right; a block has one owner and a string keeps its text | all numbers of 6 bits, bases 2, 10, 16, all lengths from 0 to that of the longest numeral; all formats of up to 4 characters, so two directives, or one between others; texts of up to 5 characters with no, one and two delimiters; two strings of up to 2 letters, all operations in any order | 419,046 |
| `boot` | no step of the boot faults or uses another page than it means; KMain gets what the boot loader left; the heap is memory of its own; the boot reaches the disk, without a panic | a directory of 10 entries of 16 pages, a heap over two tables; a memory map with room, one with a hole below the room, one without room, one that the bitmap does not cover | 2,176 |

Deadlock is checked except in `heap`, `bitmap_scan`, `text` and `boot`, where the
system stops (the latter three at the end of the loop or the call, or in the
kernel's last loop).

Two runs show a disagreement between the code and what its comments say (see
section 6): `ata_flush`, `interrupts_page_fault`.

Invariants about types are kept with the first invariant of a module
(`DisjointWhileIntact`, `LiveMapped`, `ShowsLastLines`, `FrameIsRead`, `TLBCoherent`,
`ReadReturnsSectors` include `TypeOK`) or proved (`PhysicalMemoryManager`);
`AnswerIsClear` of `BitmapScan` is only proved, as are the inductive invariants of section
4, which were checked with these instances before (what they say of all numbers or
texts was cut down to those of the instance).
Every property of a passing run has a mutant in `PROJECT.json`: a form of one
definition with a plausible bug, kept beside the definition in its module and
marked as such, under which TLC finds the property violated.

### Fairness

Fairness appears in four places, and nowhere else is anything obliged to happen.

- `BitmapScan`: weak fairness of the loop. The thread runs its loop.
- `VirtualMemoryManager`: weak fairness of `Serve`, the loop of a request under way.
  Neither a new request nor a TLB fill is obliged to happen. The refinement does
  not depend on more, for `AddressSpace` asks only that a request is answered.
- `ATA`: weak fairness of the driver while it is in a call, and of the drive. A
  drive that hangs, faults without ERR or is missing has phases for that in which
  it owes no step; `CallReturns` makes its claim for every other drive. Polling a
  busy drive is a step that leaves the state as it is, so termination rests on
  the drive's fairness, as in the machine.
- `Boot`: weak fairness of `Kernel`, every step but those at the disk: one thread with
  interrupts off. Nothing obliges `UseDisk`, the answers of `ata.Init` and `ata.Read28`,
  because both poll a drive that is missing, hangs or faults for ever, and the kernel
  reads whatever `Init` answered (`Kernel.cpp:215-220`). So `BootReachesDisk` ends where
  the disk begins, and what follows depends on the drive: `CallReturns` for one that works.

## 4. What is proved

`tlapm` checks these for every value of the constants the assumptions admit.

| module | theorem | property, or what it says |
|---|---|---|
| `PhysicalMemoryManager_proofs` | `TypeCorrect`, `AccountingIsExact`, `RunsAreDisjoint`, `ReservedIsNeverHeld`, `OverrunsAreForced` | `ExactAccounting`, `NoSharing`, `ReservedNeverHeld`, `OverrunOnlyWhenNothingFits` |
| | `ScanIsCorrect` | `ScanCorrect` of `BitmapScan`: the loop computes `FindUnsetBits` |
| | `AnswerIsAlwaysClear` | the run answered holds no set bit |
| `VirtualMemoryAllocator_proofs` | `RunsStayMapped`, `RunsStayDisjoint`, `RecordsAgree`, `FreesAreComplete` | `LiveMapped`, `LiveDisjoint`, `LockstepUntilOverrun`, `FreeUnmapsAll` |
| `VirtualMemoryManager_proofs` | `TLBIsCoherent`, `KernelIsKept`, `ClearedIsZero` | `TLBCoherent`, `KernelStaysMapped`, `NotPresentIsZero` |
| | `LoopsKeepTheirPlace` | in the middle of a request the translation is the one it found, edited on the pages its loop has passed |
| | `ImplementsSteps` | initial states and steps of the tables are those of `AddressSpace` |
| `BootAndHeap_proofs` | `CallersStayApart`, `LinksAgreeWithSizes`, `GrowthIsNeeded`, `WrapStartsOver`, `FreeKeepsLinksInverse` | `DisjointWhileIntact`, `LinksFollowSizes`, `GrowsOnlyWhenNothingFits`, `OnlyHugeWraps`, `FreeKeepsLinks`, for requests of every size a 32-bit number has |
| | `BootNeverFaults`, `ArgumentsAreHandedOver`, `HeapOwnsItsMemory` | `NothingFaults`, `HandedOver`, `HeapIsOwnMemory` |
| `ATA_proofs` | `DriverInStep`, `SectorsAreMovedWhole` | `InStep`, `SectorMovedWhole`, for every sequence of calls, writes included |
| | `FailuresAreReal`, `ReadsAreRight` | `FailureIsReal`, `ReadReturnsSectors`; they claim something of the calls before the first write, and `ReadsAreRight` the types always (`TypeCorrect`) |
| `Interrupts_proofs` | `FramesAreRead`, `LoadedTablesDeliver`, `RemapIsComplete` | `FrameIsRead`, `FaultsAreDelivered`, `Remapped` |
| `ConsoleAndText_proofs` | `LastLinesAreShown`, `JunkStaysInOneRow`, `CursorIsRight`, `PanicMessageIsShown` | `ShowsLastLines`, `JunkInOneRow`, `CursorFollows`, `PanicIsShown`, for every screen and text |
| | `PositionIsInScreen` | row and column stay in their range at every access, of the handler that interrupts too |
| | `NumeralsAreRight`, `BuffersAreKept` | `NumeralIsRight`, `StaysInBuffer`, for every width, base and buffer |
| | `FormatsArePrinted` | `PrintsAsFormatted`, for every format and every argument |
| | `TokensAreAnswered` | `TokensAreRight`, for every text and set of delimiters |
| | `BlocksHaveOneOwner` | `OneOwner`, for every number of strings |

`LiveMapped`, `TLBCoherent`, `DisjointWhileIntact`, `FrameIsRead` and `ReadReturnsSectors` have
`TypeOK` as a conjunct, so these modules' types are proved with them.

### Assumptions

Nothing is assumed but what the modules assume of their constants:

- Sizes (of a map, a page, a table, a header, a sector, a digit) are positive, requests
  are for at least one page or byte: `BitmapAssumption`, `CountsAssumption`,
  `SizeAssumption`, `RequestAssumption`, `GeometryAssumption`, `HeapAssumption`. The last
  says too that the heap has room for its first header, which `Heap::Init` does not test
  (100MB are asked for, `Kernel.cpp:137`), that it does not begin at address 0 and lies in
  the address space, as the allocator's range does, and that a request is a positive
  32-bit number.
- `MaxCount`, `MaxWrites`, `MaxBlock` and `MaxNesting`, which bound the runs, are any
  natural numbers (`CallsAssumption` of `ATA`, `HeapAssumption`, `NestingAssumption`). The
  bounds of section 3 are none of the theorems'.
- `SizeAssumption` also says that a map is not larger than the address space, and
  `BootAssumption` that the memory map begins at address 0 and that boot loader and kernel
  lie in the first 16MB: PC memory maps, and `linker.ld`.
- `AllocatorAssumption`: the allocator's range lies under the kernel's page tables, page 0
  is reserved, and nothing of the range is mapped when it starts. `InitMemoryManager` calls
  the physical manager first, which reserves page 0; the boot maps pages below
  0xC1000000, where the range starts; the tables reach from 0xC0000000 to the end.
- `VMMAssumption`: the kernel's directory entry is not the first one, the kernel fits into
  one table. `CallsAssumption` of `VirtualMemoryManager`: later requests come from the
  allocator, which unmaps what it was given in its own range, never a page of the two
  tables of the boot. Mapping requests are not restricted.
- `ExceptionsAssumption`, `ErrorCodesAssumption`: vectors are below 32, error codes are numbers.
- `LayoutAssumption` of `Boot`: a directory has no more entries than a page and enough for
  the heap's tables (25 of the 252 behind the kernel's); kernel, boot loader, boot
  information and the low images lie apart, in the parts of memory that `linker.ld` and the
  boot's identity map give them; the DMA zone lies in the bitmap, and the bitmap does not
  cover the whole address space. `MapsAssumption`: the memory map begins at address 0.
- `ScreenAssumption`: a screen has a row and a column, and its cells have locations of two
  halves. `TextAssumption`: the panic message is a line that fits on the screen with a row to
  spare; those of `ISR.cpp:47-78` are shorter than one row.
- `WidthAssumption`, `BasesAssumption`: a word has more than one bit, a base is at least 2.
  `KPrintfAssumption`: the 12 characters of `tmp` are enough, a sign, ten digits and a NUL in
  decimal; that this is so for 32 bits is `2^31 < 10^10` and `2^32 <= 16^11`, whose small
  form TLC evaluates. `LibraryAssumption`: texts do not contain their terminator; there are
  finitely many string objects.

### The arguments

**Shared lemmas** (`Bitmap_proofs`). What `FindUnsetBits` returns (`SearchResult`), from the
minimum of a set of naturals (`MinOfNaturals`, by the library's well-foundedness of `<`);
every module with a bitmap cites it. Quotients and remainders (`DivMod`,
`QuotientRemainder`, `DivDiv`, `ModOfSum`), because the solver does not find them by
itself among other facts. `Induction`, stated with a set of numbers in place of a
predicate, which makes an induction possible that the library's theorem does not
(its parameter is an operator); `ATA` uses it for the digits of an LBA.

**Bitmap.** The loop's invariant is `TypeOK /\ LoopInv /\ ScanCorrect`. `LoopInv` says that
the run being read is clear, that it starts behind a set bit or at 0, and that no
start before it fits (`RuledOut`); without the last part the answer's being the
first fit would not be inductive. One lemma per branch of the loop.

**PhysicalMemoryManager.** `ExactAccounting` alone is not inductive: a free is right
only if the runs on record are disjoint, do not touch what the boot reserved and
have addresses that convert back to their pages. So
`IInv == TypeOK /\ start = 0 /\ BootInv /\ HeldInv /\ ExactAccounting /\ NoSharing`,
where `BootInv` says that the DMA zone is reserved in `boot` and `HeldInv` that what a
caller holds starts at a page of the map and is clear of `boot`. That the start
address is 0 comes from the memory map's beginning there. `BootStep`,
`AllocateStep` and `FreeStep` prove one action each; `ReservedIsNeverHeld` follows because
every reserved page lies in the DMA zone (`ImageInDmaZone`), which makes the
kernel's rounded-down page count harmless. `OverrunsAreForced` is the action
property, by the same invariant and `AllocateGives`.

**VirtualMemoryAllocator.** The three properties lean on each other: a free is complete
only if the run is mapped as recorded, an allocation stays disjoint only if the maps
have a bit for every live page, and a run that leaves a map has pages without a bit.
`IInv` is their conjunction with the boot's bits being still set, and with `RunOK` for
each caller: its run starts in both maps, is clear of the boot's bits and, if it lies in
the physical map, has its bits set. `InsideMaps`, as long as there is no overrun, gives
back the whole lockstep. `AllocateStep` and `FreeStep` are the two actions, on
`AllocateGives` and `FreeGives`, which say what an action does to maps, translation and record.

**VirtualMemoryManager.** Addresses are taken to pages and slots first. `TableInv` has
`DirectoryInv` (an entry that is present names its own table, a table without one is
empty), needed since `Map` and `Unmap` find a table through the entry's address. `CallInv`
says where the loop is, that the boot's three requests come in order and only map, and
that unmapping keeps off the boot's tables. `BootInv` says how far the two tables of the boot
are filled and with which frames: the TLB may hold translations from the boot directory,
which are right after the switch only for that reason, and the kernel's pages keep
their frames. For the refinement, `RangeInv` adds that in the middle of a request the
translation is the one from before, edited on the pages passed (`Done`), so that the
step that answers is one step of `AddressSpace` on the longest prefix that can be
served; every other step is a stutter, for the mapping shows the translation from
`before`. The fairness part of `AddressSpace` is only model-checked.

**Heap.** `HeaderInv` says that links stay among the headers. `LayoutInv`, while the heap is
intact: the blocks cover the used part without gap or overlap, each linked to the neighbour
its size leads to (`Laid`), a block is reserved exactly if it is live, with room for the
request. `Laid` has the block's end as a plain sum: no block laid so far goes round the
address space, so their walk does not either (`WrapIs`, `EndIs`), and a new one that does
ends the layout (`wrapped`). `CallInv` is the loop's: the walk stands at a block or behind the last one, its
`prev` is the block before, and no block it has passed would do. That blocks do not
overlap and that growth is forced follow from these, and so does `OnlyHugeWraps`
(`WrapIsHuge`): the header of a new block lies in the heap, so its size must reach from there
to the end of the address space; and if the sum comes out above the first block, the new one
has gone over that block's header. `FreeKeepsLinks` claims
something after merges too; it is an action property of `Free` on any links that are
inverse, and its proof goes through the two merges (`Merged`, `LinkedInverse`) with every
case of missing and coinciding neighbours.

**ATA.** The driver's word loop counts by itself, the drive by itself; that they
agree needs to be known from the moment the command is written. `IInv` has
`ControlOK` (types of the control variables), `CounterAtZero` (n is 0 outside
the register setup and the word loops), `Answered` (after the delay the status is valid, and
after `Poll`'s first loop the drive has answered), `Owned` (a drive that
is at work between command and data works for the call in progress), `DataOwned`
(in the data phase the driver is on its way to the loop and no word has been
moved, or is in it) and `MoveHasData`. `FailuresAreReal` needs `ReadInv`: the drive is at
rest between calls, it has taken the command it was given, and a driver that is
about to fail has seen ERR. It holds only until the first write (`writes = 0`): a lost
flush leaves the drive busy, and the next call's command may be dropped.
`ReadsAreRight` adds `Addressed` (register by register, what the drive has is the LBA of the
sector the call is at, and no register is overwritten or dropped until its words are
moved) and `Filled` (the first words of the buffer are those of the sectors asked for).
That the registers name that one sector is arithmetic: digits determine a
number below the capacity (`SameDigits`) and any digits are some number's (`HasDigits`),
both by induction over the number of digits.

**Boot.** `TablesInv` says what is in memory and in `cr3` at each step: the boot's tables are
complete from the moment paging is on; a directory entry of the kernel's is absent or names
its own table; and what the mapping loops have reached is mapped, by their counter
(`LowMapped`, `KernelMapped`, `HeapMapped`). Writing an entry keeps all of it because the
tables lie apart from each other and from what they map. Every pair in `Touched`
then has the translation it needs, before and after the switch. `HandedOverInv` follows the
boot loader's words through the registers and the first stack. `HeapRunInv` is about the
bitmap: above the DMA zone the first page of a byte is clear only if an available region
covers it, since `SetAll` sets just that bit of each byte. A run as long as the heap's that
is clear contains such pages from end to end, and therefore lies in a region or, where
a hole precedes one, within a byte of it.

**Console.** `BaseInv` bounds row, column and the copying loop's row for both contexts at
every access. `CursorInv` says which half of the cursor's location has been written, and that the
controller's register is the one the context selected. `JunkInv` names the one row that may
show what was below the screen, moved up by the copying loop (`Moved`). `ShowInv` says that the screen
shows `lines`, once what is under way is counted: a character that is stored and not yet
counted, a row that is due to be wrapped (`RowDue`), the rows the loop has not moved yet
(`Pending`). `PanicInv` says the same of the message alone (`Written`, `WrittenMoved`), from
wherever the handler found the console.

**Tokeniser.** `TextInv`: the text is the original one from the place on where the tokeniser
stands (`Here`), so that cutting up what is behind it harms nothing. `PlaceInv`: that place
is the text's start, its end, or behind a delimiter. `TokensInv`: every beginning of a run before it has been
answered, in order, and is cut off.

**Strings.** `OwnerInv`: live objects name blocks on the heap, each its own; a dead object keeps
its pointer, which names no block that is on the heap; and a string that has its text has all
of it in its block (`HasText`). A constructor finds a block that nobody has because there are
more blocks than objects.

**Conversions.** After `i` divisions what is left of a number is its value divided by
`base^i`, and the `i` characters written are its lowest places (`DigitsInv`); while `Strrev`
swaps, the outer `j` characters on either side have changed places (`ReverseInv`). The
conversions between signed and unsigned words undo each other (`SignedIs`), also for the
lowest number. That the digits end where `Numeral` does is the length's being the least
power above the number (`LengthIs`, `PowerGrows`). `PowersExist` proves that the recursion of
`Power` has a solution, from its finite parts and `Induction`; `StepsExist` does it for the
recursion of `Formatted`.

**KPrintf.** What `Formatted` yields for the whole format depends on arguments that are not
read yet. `PrinterInv` therefore speaks of all continuations: whatever arguments follow those
read, the part of the format that was read yields `out` and leaves exactly these
(`InFormat`; in the middle of a conversion, these and the number, `InNumber`). One lemma per
directive; at the end nothing is left, and `out` is the whole. `FitsTmp` says that every
number has room in `tmp`, so that the text printed is the numeral.

**Interrupts.** `BootInv` says what is set after each step of `Processor::Init`: descriptors and
gates up to the loop's index, the controllers' progress through their
initialisation words, where the firmware's masks are. A table that is loaded is
complete (`LoadedIsComplete`), hence `FaultsAreDelivered`. `StackInv` says, for each nested
exception, which words lie where on the stack (`FrameAt`, and before that `EntryAt`,
`StubAt`), relative to the `esp` its stub was entered with; words below the top are never
written again (`WordStays`), which carries outer frames through inner exceptions.

### Only model-checked

- Everything with liveness: `Terminates`, `CallReturns`, `BootReachesDisk`, and the fairness
  part of the refinement. The provers do not do ENABLED.
- The two findings, which are counterexamples.

## 5. What is not modelled, and why

- **String's comparisons and `Find`, `CharToInt`, and `Strrchr`, `Strnlen`, `Memcmp`.** They
  change no state, and the running kernel calls none of them.
- **Failures that cannot happen.** Every `Init` that `InitMemoryManager` calls answers
  true, except the heap's when it gets no pages; `Boot` has that one and the
  mappings'. `KPanic`'s loop itself is in `VGA` and `Interrupts`.
- **Functions without a caller**, or behind code that never returns: `SendEOI`,
  `Shutdown`, `EnableInterrupts`, `DisableInterrupts`, the return path of the
  stubs, `Toggle` of the bitmap, `ReservePages` and `SetRegionState` of the virtual
  memory allocator.
- **Data no property tells apart**: colours, the cursor's shape, the monochrome
  adapter (whose branch would still write to 0xB8000), what IDENTIFY
  returns and `m_DeviceInfo`, flags of an entry other than `present`, the dumps, the
  fields of Multiboot's tables the kernel does not read.
- **Details next to what is modelled.** `PanicText` has no newline, so the two lines that a
  page fault prints before its message (`ISR.cpp:123-124`) are not covered. What the loops
  of `Boot.asm` leave in the registers is not state: that the multiboot words are saved
  before them is. Blocks that a string drops are dropped from the model too, so `OneOwner`
  says at most one owner and no leak is noticed. `PrintsAsFormatted` does not look at
  arguments without a directive, nor at the narrowing of `%c`'s.
- **Build scripts and GRUB.** `LayoutAssumption` and the assumptions about `BootInfo`
  are what the kernel relies on of them; `linker.ld` is in the layout of `Boot`.

## 6. Findings

Two runs end in a counterexample, each to a statement of a comment in the source.

- `ata_flush`, `FlushedAfterWrite`: "Cache Flush after Write"
  (`Drivers/Storage/ATA/ATA.cpp:283`). The command is written (`:220`) while the
  drive stores the sector it has just received, and the status is read without the
  delay; the drive drops the command and `Write28` reports success.
- `interrupts_page_fault`, `PageFaultReported`: "Page Fault Exception (With Error
  Code!)" (`Arch/x86/ISR.asm:154`). The stub pushes a zero of its own on top of the
  processor's error code (`:156`), so the handler reads that zero.

Other behaviour of the code that the modules reproduce, or that was met while
writing them, and that no text of the repository contradicts:

- *Physical memory.* `SetAll` sets one bit in eight, so unavailable pages are free in
  the bitmap; `m_PageCount` is not used as a bound; a region reaching past 512MB is
  not released at all, and on a 1GB machine the heap's request gets the short run
  at the end of the map, unrecorded; 64-bit bases are narrowed to 32 bits. On a
  map with a hole right below the region that has room, the heap's run may start in the
  hole, within the last byte of the bitmap below the region (`HeapIsOwnMemory`): of
  that byte seven bits are clear.
- *Boot.* The two loops of `Boot.asm` fill 1024 entries where their comments say 256
  (`:67-68`); comments on a single instruction, and the larger number is the one that is
  needed. `KMain` goes on whatever the disk answers.
- *Virtual memory.* The setters of an entry ignore their argument and set the bit;
  `SetAddress` leaves the highest bit of the old address; the virtual map covers half of
  its range.
- *Heap.* Merging with the next block adds to the size of the later header, and
  merging with the previous one forgets a header's size, so absorbed blocks are
  handed out again. `m_EndAddress` is never compared with anything, and a request of about
  1GB or more wraps `m_CurrentAddress`, after which the first block is given out again. The
  properties of `heap` therefore speak of the time before the first merge or wrap, except
  `FreeKeepsLinks`, and `OnlyHugeWraps` of the first wrap itself.
- *ATA.* No loop on a status bit counts its turns and nothing resets the drive, so a
  hung drive is polled for ever (the comment at `ATA.cpp:52` speaks of a software
  reset; `CallReturns` excepts exactly these drives). After a lost flush the next sector's registers are written to a busy
  drive; an LBA of 2^28 or more is truncated; the kernel reads even when `Init` has
  failed, and then polls a missing drive for ever; `Init` on a packet device returns
  while it is busy; `m_DeviceInfo` points behind the identify block.
- *Interrupts.* An exception before `lidt` resets the machine. `GDTLoad` leaves the
  segment registers as they were, which would show only if a handler returned.
- *Console.* A panic message that interrupts between the increment of `s_Col` and the
  wrap loses its first character; the first scroll shows one row of memory from
  below the screen; a newline does not move the hardware cursor.
- *Conversions.* `ToString` always yields the empty string; `IntToStr` writes up to two
  cells behind a buffer that is too short; a format that ends in `%` makes `KPrintf`
  read past its end; `%u` prints a signed number; the sector is printed with `%s` from a
  buffer that may have no terminator (`Kernel.cpp:225`).
- *Strings.* `operator=`, the sums and `Substr` leak a block each; `Substr` writes its
  terminator behind its buffer; a string moved to itself loses its text; `operator==`
  looks at as many characters as its left side has.
- *Arguments.* `KPrintf` reads every number as 32 bits, so a 64-bit argument (the
  commented-out dump of the memory map passes some) shifts those after it.

## 7. Plan

Order of what is left, most important first.

1. **Compose.** Heap over the virtual memory allocator with the maps that `Boot`
   leaves, in place of the few maps of `Boots` that `VirtualMemoryAllocator` starts
   from.
