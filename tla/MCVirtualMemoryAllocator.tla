---------------------- MODULE MCVirtualMemoryAllocator ----------------------
(***************************************************************************)
(* VirtualMemoryAllocator for TLC: 12 virtual pages, the boot's in 0..1    *)
(* and 6..7, the allocator's range from page 8; physical maps with room at *)
(* the end and with a reserved last page.                                  *)
(***************************************************************************)
EXTENDS VirtualMemoryAllocator, TLC

BootMap == 0 :> 0 @@ 1 :> 1 @@ 6 :> 1 @@ 7 :> 2

MCBoots == {[bits |-> 0 .. 1, map |-> BootMap],
            [bits |-> {0, 1, 4}, map |-> BootMap],
            [bits |-> {0, 1, PhysSize - 1}, map |-> BootMap]}
MCWindow == {0, 1} \cup 6 .. 13
MCRequests == {1, 2, 3}
=============================================================================
