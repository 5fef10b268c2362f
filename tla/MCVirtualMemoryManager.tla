---------------------- MODULE MCVirtualMemoryManager ----------------------
(***************************************************************************)
(* VirtualMemoryManager for TLC: 4 directory entries of 2 pages of 2       *)
(* bytes; entry 0 and entries 2 and 3 have tables, the kernel runs in      *)
(* entry 2 from physical page 1.                                           *)
(***************************************************************************)
EXTENDS VirtualMemoryManager

(* Ranges over the entries above the kernel's, onto low and high frames;   *)
(* one wraps to address 0, one starts on a page in use.                    *)
MCCalls == {MapCall(12, 4, 1), MapCall(12, 12, 2), MapCall(14, 6, 1),
            MapCall(14, 14, 2), MapCall(10, 2, 2),
            (* bad alignment of either address, no table *)
            MapCall(13, 2, 1), MapCall(12, 3, 1), MapCall(4, 4, 1),
            UnmapCall(12, 1), UnmapCall(14, 1), UnmapCall(12, 2),
            UnmapCall(13, 1), UnmapCall(6, 1)}
=============================================================================
