------------------------------- MODULE MCBoot -------------------------------
(* Boot for TLC: 10 directory entries of 16 pages, the kernel's from the     *)
(* third on, a heap of 20 pages that spans two tables.                     *)
EXTENDS Boot

Usable(base, length) == [base |-> base, length |-> length, available |-> TRUE]
Unusable(base, length) == [base |-> base, length |-> length, available |-> FALSE]

MCMaps == {(* one large region, released *)
           {Usable(0, 4), Unusable(4, 4), Usable(8, 88), Unusable(96, 8)},
           (* a region with too little room, a hole, then the heap's *)
           {Usable(0, 4), Usable(8, 64), Unusable(72, 4), Usable(76, 36)},
           (* no region with room: the run leaves the bitmap *)
           {Usable(0, 4), Usable(8, 64), Unusable(72, 8)},
           (* more memory than the bitmap covers: nothing is released *)
           {Usable(0, 4), Usable(8, 112)}}
=============================================================================
