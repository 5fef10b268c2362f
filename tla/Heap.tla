-------------------------------- MODULE Heap --------------------------------
(***************************************************************************)
(* The kernel heap: blocks with a header in front, found by walking from   *)
(* header to header by their sizes, a header per step, linked both ways    *)
(* for Free, and merged with a free neighbour when they are freed.         *)
(*                                                                         *)
(* Addresses are offsets from m_StartAddress, and wrap where an address    *)
(* does: those below the heap are negative.  What memory holds where no    *)
(* header was written is the callers' data or the kernel's, so nothing is  *)
(* known of a walk that leads there, nor of headers inside a block given   *)
(* out: such a heap is "lost" and the model goes no further.               *)
(***************************************************************************)
EXTENDS Integers

CONSTANTS AddrSpace,     \* 2^32: pointers and size_t
          HeapStart,     \* m_StartAddress
          HeapSize,      \* m_EndAddress - m_StartAddress
          HeaderSize,    \* sizeof(HeapNode)
          Sizes,         \* the sizes callers ask for (0 is refused at once)
          MaxBlock       \* bound: no Free once a merged block is larger

ASSUME HeapAssumption == /\ HeaderSize \in Nat \ {0}
                         /\ HeapSize \in Nat /\ HeapSize >= HeaderSize
                         /\ HeapStart \in Nat \ {0} /\ AddrSpace \in Nat
                         /\ HeapStart + HeapSize =< AddrSpace
                         /\ Sizes \subseteq 1 .. AddrSpace - 1
                         /\ MaxBlock \in Nat

(* Where the sum of an address and a size is: 32-bit pointer arithmetic.   *)
Wrap(a) == ((a + HeapStart) % AddrSpace) - HeapStart

Words == 0 .. AddrSpace - 1

(* The offsets of the addresses 0 to 2^32 - 1; the first is nullptr. *)
Offsets == - HeapStart .. AddrSpace - HeapStart - 1
Null == - HeapStart

VARIABLES header,    \* HeapNodes by their address
          current,   \* m_CurrentAddress
          live,      \* requested size of every block not yet freed, by header
          absorbed,  \* the blocks that a Free has merged away (history)
          wrapped,   \* m_CurrentAddress has passed the address space's end
                     \*   (history)
          state,     \* "running", "lost", or "faulted" past the end
          call       \* the call of Allocate under way: its locals

vars == <<header, current, live, absorbed, wrapped, state, call>>

(* The address after a block with its header. *)
End(h, a) == Wrap(a + HeaderSize + h[a].size)

NoCall == [size |-> 0, node |-> 0, prev |-> Null]

(* Heap::Init: the pages of the range are mapped, and zeros are a free     *)
(* block of size 0 in front of an empty heap.                              *)
Init == /\ header = [a \in {0} |-> [size |-> 0, state |-> "free",
                                    next |-> Null, prev |-> Null]]
        /\ current = 0
        /\ live = [a \in {} |-> 0]
        /\ absorbed = {}
        /\ wrapped = FALSE
        /\ state = "running"
        /\ call = NoCall

(* Mutants: a free block must be larger than the request; a block in use   *)
(* is taken.                                                               *)
FitsLarger(a, n) == header[a].size > n /\ header[a].state = "free"
FitsReserved(a, n) == header[a].size >= n

Fits(a, n) == header[a].size >= n /\ header[a].state = "free"

(* Allocate: the walk begins at the first header. *)
Allocate(n) ==
    /\ state = "running" /\ call = NoCall
    /\ call' = [size |-> n, node |-> 0, prev |-> header[0].prev]
    /\ UNCHANGED <<header, current, live, absorbed, wrapped, state>>

(* The walk is at an address before m_CurrentAddress, or has come to the   *)
(* end of the blocks.                                                      *)
Visiting == state = "running" /\ call.size > 0 /\ call.node < current
AtEnd == state = "running" /\ call.size > 0 /\ call.node >= current

(* From a block that will not do to the one behind it. *)
NextNode ==
    /\ Visiting
    /\ call.node \in DOMAIN header /\ ~Fits(call.node, call.size)
    /\ call' = [size |-> call.size, node |-> End(header, call.node), prev |-> call.node]
    /\ UNCHANGED <<header, current, live, absorbed, wrapped, state>>

Extent(a, n) == {Wrap(b) : b \in a .. a + HeaderSize + n - 1}

(* A block of n bytes at a that the caller may write over another block or *)
(* a header, its own included if it goes round the whole address space.    *)
Overlaps(a, n) ==
    \/ HeaderSize + n > AddrSpace
    \/ \E b \in DOMAIN header \ {a}:
          Extent(a, n) \cap (b .. b + HeaderSize - 1) # {}
    \/ \E b \in DOMAIN live: Extent(a, n) \cap Extent(b, live[b]) # {}

GiveOut(a, n) ==
    /\ live' = [b \in DOMAIN live \cup {a} |-> IF b = a THEN n ELSE live[b]]
    /\ state' = IF Overlaps(a, n) THEN "lost" ELSE state
    /\ call' = NoCall
    /\ UNCHANGED absorbed

(* A free block is reused whole, whatever is left over. *)
AllocateReuse ==
    /\ Visiting
    /\ call.node \in DOMAIN header /\ Fits(call.node, call.size)
    /\ header' = [header EXCEPT ![call.node].state = "reserved"]
    /\ GiveOut(call.node, call.size)
    /\ UNCHANGED <<current, wrapped>>

(* The header of a new block, linked from the one before it. *)
NewBlock == [size |-> call.size, state |-> "reserved", next |-> Null, prev |-> call.prev]
WithNewBlock ==
    [a \in DOMAIN header \cup {call.node} |->
        IF a = call.node THEN NewBlock
        ELSE IF a = call.prev THEN [header[a] EXCEPT !.next = call.node] ELSE header[a]]

(* The heap has grown by a block: neither the block nor m_CurrentAddress   *)
(* is compared with m_EndAddress or with the end of the address space.     *)
Grow(n) ==
    /\ current' = Wrap(current + n + HeaderSize)
    /\ wrapped' = (wrapped \/ current + n + HeaderSize \notin Offsets)

(* The places for a header in the heap's own pages. *)
Room == 0 .. HeapSize - HeaderSize

(* Mutants: the memory behind the heap can be written; the new block is    *)
(* not linked from the one before it.                                      *)
AllocateNewAnywhere ==
    /\ AtEnd
    /\ header' = WithNewBlock
    /\ Grow(call.size)
    /\ GiveOut(call.node, call.size)

AllocateNewUnlinked ==
    /\ AtEnd /\ call.node \in Room
    /\ header' = [a \in DOMAIN header \cup {call.node} |->
                     IF a = call.node THEN NewBlock ELSE header[a]]
    /\ Grow(call.size)
    /\ GiveOut(call.node, call.size)

(* A new block behind the last one, or over the first one when             *)
(* m_CurrentAddress has wrapped below it.                                  *)
AllocateNew ==
    /\ AtEnd /\ call.node \in Room
    /\ header' = WithNewBlock
    /\ Grow(call.size)
    /\ GiveOut(call.node, call.size)

(* The header of the new block is not in the heap.  Nothing is mapped      *)
(* behind the heap, the only user of the virtual memory allocator: a page  *)
(* fault.  Below it lie unmapped pages and the kernel.                     *)
AllocateOutside ==
    /\ AtEnd /\ call.node \notin Room
    /\ state' \in IF call.node < 0 THEN {"faulted", "lost"} ELSE {"faulted"}
    /\ UNCHANGED <<header, current, live, absorbed, wrapped, call>>

(* The walk has come to an address where no header was ever written. *)
AllocateLost ==
    /\ Visiting
    /\ call.node \notin DOMAIN header
    /\ state' = "lost"
    /\ UNCHANGED <<header, current, live, absorbed, wrapped, call>>

(* The two merges of Free, on the headers as the steps before left them. *)

IsFree(h, a) == a # Null /\ h[a].state = "free"

SetNext(h, a, next) == IF a = Null THEN h ELSE [h EXCEPT ![a].next = next]
SetPrev(h, a, prev) == IF a = Null THEN h ELSE [h EXCEPT ![a].prev = prev]

(* Mutant: the block before keeps its link to the merged one. *)
MergeIntoNextKeepsLink(h, a) ==
    LET next == h[a].next
        prev == h[a].prev
    IN  IF ~IsFree(h, next) THEN h
        ELSE [h EXCEPT ![next].size = (@ + h[a].size) % AddrSpace, ![next].prev = prev]

MergeIntoNext(h, a) ==
    LET next == h[a].next
        prev == h[a].prev
    IN  IF ~IsFree(h, next) THEN h
        ELSE SetNext([h EXCEPT ![next].size = (@ + h[a].size) % AddrSpace,
                               ![next].prev = prev],
                     prev, next)

MergeIntoPrev(h, a) ==
    LET next == h[a].next
        prev == h[a].prev
    IN  IF ~IsFree(h, prev) THEN h
        ELSE SetPrev([h EXCEPT ![prev].size = (@ + h[a].size) % AddrSpace,
                               ![prev].next = next],
                     next, prev)

(* Callers free each of their blocks once. *)
Free(a) ==
    LET freed == [header EXCEPT ![a].state = "free"]
    IN  /\ state = "running" /\ call = NoCall
        /\ a \in DOMAIN live
        /\ \A b \in DOMAIN header: header[b].size =< MaxBlock \/ header[b].size \in Sizes
        /\ header' = MergeIntoPrev(MergeIntoNext(freed, a), a)
        /\ live' = [b \in DOMAIN live \ {a} |-> live[b]]
        /\ absorbed' = IF \/ IsFree(freed, freed[a].next)
                          \/ IsFree(freed, freed[a].prev)
                       THEN absorbed \cup {a} ELSE absorbed
        /\ UNCHANGED <<current, wrapped, state, call>>

Next == \/ \E n \in Sizes: Allocate(n)
        \/ NextNode \/ AllocateReuse \/ AllocateNew \/ AllocateOutside \/ AllocateLost
        \/ \E a \in DOMAIN live: Free(a)

Spec == Init /\ [][Next]_vars

-----------------------------------------------------------------------------
(* No block has been merged away, and no block given out past the end of   *)
(* the address space.                                                      *)
intact == absorbed = {} /\ ~wrapped

Addresses == {Null} \cup DOMAIN header

TypeOK == /\ 0 \in DOMAIN header /\ DOMAIN header \subseteq Room
          /\ \A a \in DOMAIN header:
                header[a] \in [size: Words, state: {"free", "reserved"},
                               next: Addresses, prev: Addresses]
          /\ current \in Offsets
          /\ DOMAIN live \subseteq DOMAIN header
          /\ \A a \in DOMAIN live: live[a] \in Sizes
          /\ absorbed \subseteq DOMAIN header
          /\ wrapped \in BOOLEAN
          /\ state \in {"running", "lost", "faulted"}
          /\ call \in [size: Sizes \cup {0}, node: Offsets, prev: Addresses]

(* As long as no Free has met a free neighbour and m_CurrentAddress has    *)
(* not wrapped, no two callers are given the same byte, no caller a byte   *)
(* of a header, and the walk never leaves the headers: the heap is not     *)
(* lost.  And nothing compares m_CurrentAddress with m_EndAddress, but     *)
(* only the last block can leave the heap.  A merge ends all of this, and  *)
(* so does a wrap: the next Allocate writes its header over the first one, *)
(* in use or not.  In every state each address in use is that of a header  *)
(* (TypeOK) (Heap.cpp:42-62, 70-92).                                       *)
DisjointWhileIntact ==
    /\ TypeOK
    /\ intact =>
          /\ state # "lost"
          /\ \A a \in DOMAIN live: live[a] =< header[a].size
          /\ \A a, b \in DOMAIN live:
                a # b => Extent(a, live[a]) \cap Extent(b, live[b]) = {}
          /\ \A a \in DOMAIN live:
                End(header, a) > HeapSize => End(header, a) = current

(* Until then the blocks cover the used part of the heap without gap or    *)
(* overlap, and the links that Free and Dump follow name the same          *)
(* neighbours as the sizes that Allocate follows (Heap.cpp:52, 57-60).     *)
LinksFollowSizes ==
    intact /\ current > 0 =>
       \A a \in DOMAIN header:
          IF End(header, a) = current THEN header[a].next = Null
          ELSE /\ End(header, a) \in DOMAIN header
               /\ header[a].next = End(header, a)
               /\ header[End(header, a)].prev = a

(* The heap grows only when no free block would do, wherever it lies       *)
(* (Heap.cpp:44-53).                                                       *)
GrowsOnlyWhenNothingFits ==
    [][intact /\ current' # current =>
          \A a \in DOMAIN live' \ DOMAIN live, b \in DOMAIN header:
             header[b].state = "free" => header[b].size < live'[a]]_vars

(* Only a request for more than lies between m_EndAddress and the end of   *)
(* the address space wraps m_CurrentAddress.  Either its block covers      *)
(* others at once, or m_CurrentAddress is left at or below the first block *)
(* and the next Allocate begins the heap anew there, on top of the blocks  *)
(* in use, instead of faulting (Heap.cpp:44, 61).                          *)
OnlyHugeWraps ==
    [][intact /\ wrapped' =>
          /\ call.size >= AddrSpace - (HeapStart + HeapSize)
          /\ state' # "lost" => current' =< 0]_vars

(* Freeing a block keeps the links inverse, whichever neighbours it is     *)
(* merged with: only a block merged away may point to a neighbour that     *)
(* does not point back.  (Allocate does not keep them so: after a merge    *)
(* its walk by sizes finds merged blocks again, gives them out, and passes *)
(* over blocks in use.)                                                    *)
LinksInverse ==
    \A a \in DOMAIN header \ absorbed:
       /\ header[a].next # Null => header[header[a].next].prev = a
       /\ header[a].prev # Null => header[header[a].prev].next = a

FreeKeepsLinks ==
    [][\A a \in DOMAIN live \ absorbed:
          LinksInverse /\ DOMAIN live' = DOMAIN live \ {a}
             => LinksInverse']_vars
=============================================================================
