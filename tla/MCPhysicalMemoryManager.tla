---------------------- MODULE MCPhysicalMemoryManager ----------------------
(***************************************************************************)
(* PhysicalMemoryManager for TLC: 10 pages of 2 bytes in a 32-byte address *)
(* space, a DMA zone of 4 pages, 4 bits to the byte.                       *)
(***************************************************************************)
EXTENDS PhysicalMemoryManager

Usable(base, length) == [base |-> base, length |-> length, available |-> TRUE]
Unusable(base, length) == [base |-> base, length |-> length, available |-> FALSE]

(* The boot loader is the bytes 2..2 of page 1, the kernel the bytes 4..6  *)
(* of pages 2 and 3.                                                       *)
Image(regions) == [regions |-> regions,
                   bootloaderStart |-> 2, bootloaderSize |-> 1,
                   kernelStart |-> 4, kernelSize |-> 3]

(* A machine whose memory the bitmap covers; the low region ends inside    *)
(* page 2, the high one at the end of the map.                             *)
SmallMachine == Image({Usable(0, 5), Unusable(5, 3), Usable(8, 12)})

(* A machine with more memory than the bitmap covers: its release at boot  *)
(* is ignored as a whole (QEMU is started with 1GB for a 512MB bitmap).    *)
BigMachine == Image({Usable(0, 5), Unusable(5, 3), Usable(8, 20)})

(* A machine with memory above 4GB, whose base wraps onto low pages.       *)
WrapMachine == Image({Usable(0, 5), Unusable(5, 11), Usable(16, 4),
                      Usable(32, 12), Unusable(50, 4)})

MCBootInfos == {SmallMachine, BigMachine, WrapMachine}
MCRequests == {1, 2, 3, 7}
=============================================================================
