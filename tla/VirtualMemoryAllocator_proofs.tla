-------------------- MODULE VirtualMemoryAllocator_proofs --------------------
(***************************************************************************)
(* Proofs about the virtual allocator: the agreement of the two bitmaps,   *)
(* the translation and what the callers hold, for every size of either     *)
(* map, every window, boot record and sequence of requests that the        *)
(* assumption allows.                                                      *)
(***************************************************************************)
EXTENDS VirtualMemoryAllocator, Bitmap_proofs

(* The two searches give the start of a clear run. *)
LEMMA PhysicalSearch ==
    ASSUME NEW n \in Nat \ {0}, pbits \subseteq P!Positions, PhysAllocate(n) # 0
    PROVE  /\ PhysAllocate(n) \in P!Positions
           /\ P!Span(PhysAllocate(n), n) \cap pbits = {}
  <1>1. P!FindUnsetBits(pbits, n) = SearchIn(PhysSize, pbits, n)
    BY DEF P!FindUnsetBits, P!Fits, P!Tails, P!Positions, P!Span, P!InMap, P!Min,
           SearchIn, FitsIn, TailsIn, Min
  <1>2. PhysAllocate(n) = SearchIn(PhysSize, pbits, n) /\ PhysAllocate(n) # -1
    BY <1>1 DEF PhysAllocate
  <1> QED
    BY <1>2, SearchResult, AllocatorAssumption DEF P!Positions, P!Span

LEMMA VirtualSearch ==
    ASSUME NEW n \in Nat \ {0}, vbits \subseteq V!Positions, V!FindUnsetBits(vbits, n) >= 0
    PROVE  /\ V!FindUnsetBits(vbits, n) \in V!Positions
           /\ V!Span(V!FindUnsetBits(vbits, n), n) \cap vbits = {}
  <1>1. V!FindUnsetBits(vbits, n) = SearchIn(VirtSize, vbits, n)
    BY DEF V!FindUnsetBits, V!Fits, V!Tails, V!Positions, V!Span, V!InMap, V!Min,
           SearchIn, FitsIn, TailsIn, Min
  <1>2. V!FindUnsetBits(vbits, n) # -1
    OBVIOUS
  <1> QED
    BY <1>1, <1>2, SearchResult, AllocatorAssumption DEF V!Positions, V!Span

(* PrefixIn is the longest prefix, and the whole range if all of it is in. *)
LEMMA PrefixResult ==
    ASSUME NEW S, NEW page, NEW n \in Nat
    PROVE  /\ A!PrefixIn(S, page, n) \in 0 .. n
           /\ A!PagesFrom(page, A!PrefixIn(S, page, n)) \subseteq S
           /\ A!PagesFrom(page, n) \subseteq S => A!PrefixIn(S, page, n) = n
  <1> DEFINE Lengths == {k \in 0 .. n : A!PagesFrom(page, k) \subseteq S}
  <1>1. 0 \in Lengths
    BY DEF A!PagesFrom
  <1>2. A!PrefixIn(S, page, n) = Max(Lengths)
    BY DEF A!PrefixIn, A!Max, Max
  <1>3. Lengths \in SUBSET (0 .. n)
    OBVIOUS
  <1>4. Max(Lengths) \in Lengths /\ \A k \in Lengths : k =< Max(Lengths)
    <2> HIDE DEF Lengths
    <2> QED
      BY <1>1, <1>3, MaxOfBounded
  <1>5. A!PagesFrom(page, n) \subseteq S => n \in Lengths
    OBVIOUS
  <1> HIDE DEF Lengths
  <1>6. A!PagesFrom(page, n) \subseteq S => Max(Lengths) = n
    <2>1. Max(Lengths) \in 0 .. n
      BY <1>3, <1>4
    <2>2. n \in Lengths => n =< Max(Lengths)
      BY <1>4
    <2> QED
      BY <1>5, <2>1, <2>2
  <1>7. Max(Lengths) \in 0 .. n /\ A!PagesFrom(page, Max(Lengths)) \subseteq S
    BY <1>4 DEF Lengths
  <1> QED
    BY <1>2, <1>6, <1>7

(* Pages and frames are counted off together, around the end as well. *)
LEMMA FrameOfPage ==
    ASSUME NEW page \in Nat, NEW frame \in Nat, NEW k \in Nat
    PROVE  A!FrameAt(frame, (A!PageAt(page, k) - page) % VPages) = A!FrameAt(frame, k)
  <1>1. VPages \in Nat \ {0} /\ page \in Int /\ frame \in Int /\ k \in Int
    BY AllocatorAssumption
  <1>2. (((page + k) % VPages) - page) % VPages = k % VPages
    BY <1>1, ModOfSum, Zenon
  <1>3. (frame + (k % VPages)) % VPages = (frame + k) % VPages
    BY <1>1, ModOfSum, Zenon
  <1>4. (frame + ((((page + k) % VPages) - page) % VPages)) % VPages = (frame + k) % VPages
    BY <1>2, <1>3
  <1> QED
    BY <1>4 DEF A!FrameAt, A!PageAt

(* What mapping a range does: its pages that are mapped were free, in the  *)
(* window, and lie on the frames counted from the first; no other page is  *)
(* touched; and if all pages were free, all are mapped.                    *)
MapsPrefix(m, r, page, frame, n) ==
    LET len == A!MapLength(m, page, n)
        new == A!PagesFrom(page, len)
    IN  /\ len \in 0 .. n
        /\ new \subseteq Window \ DOMAIN m
        /\ DOMAIN r = DOMAIN m \cup new
        /\ \A p \in DOMAIN m : r[p] = m[p]
        /\ \A k \in 0 .. (len - 1) : r[A!PageAt(page, k)] = A!FrameAt(frame, k)
        /\ A!PagesFrom(page, n) \subseteq Window \ DOMAIN m => len = n

LEMMA MapResult ==
    ASSUME NEW m, NEW page \in Nat, NEW frame \in Nat, NEW n \in Nat
    PROVE  MapsPrefix(m, A!AfterMap(m, page, frame, n), page, frame, n)
  <1> DEFINE len == A!MapLength(m, page, n)
             new == A!PagesFrom(page, len)
             r   == A!AfterMap(m, page, frame, n)
  <1>1. /\ len \in 0 .. n /\ new \subseteq Window \ DOMAIN m
        /\ A!PagesFrom(page, n) \subseteq Window \ DOMAIN m => len = n
    BY PrefixResult DEF A!MapLength
  <1>2. r = [p \in DOMAIN m \cup new |->
                IF p \in new THEN A!FrameAt(frame, (p - page) % VPages) ELSE m[p]]
    BY DEF A!AfterMap
  <1> HIDE DEF new, r
  <1>3. DOMAIN r = DOMAIN m \cup new /\ \A p \in DOMAIN m : r[p] = m[p]
    BY <1>1, <1>2
  <1>4. ASSUME NEW k \in 0 .. (len - 1)
        PROVE  r[A!PageAt(page, k)] = A!FrameAt(frame, k)
    <2>1. A!PageAt(page, k) \in new
      BY DEF new, A!PagesFrom
    <2>2. k \in Nat
      BY <1>1
    <2>3. r[A!PageAt(page, k)] = A!FrameAt(frame, (A!PageAt(page, k) - page) % VPages)
      BY <1>2, <2>1
    <2> QED
      BY <2>2, <2>3, FrameOfPage
  <1> QED
    BY <1>1, <1>3, <1>4 DEF new, r, MapsPrefix

(* Unmapping a range all of whose pages are mapped takes out just those. *)
LEMMA UnmapResult ==
    ASSUME NEW m, NEW page, NEW n \in Nat, A!PagesFrom(page, n) \subseteq DOMAIN m
    PROVE  /\ A!UnmapLength(m, page, n) = n
           /\ A!AfterUnmap(m, page, n) = Restrict(m, DOMAIN m \ A!PagesFrom(page, n))
  <1>1. A!UnmapLength(m, page, n) = n
    BY PrefixResult DEF A!UnmapLength
  <1> QED
    BY <1>1 DEF A!AfterUnmap, A!Restrict, Restrict

(* The pages of a run in the virtual map, and their numbers there. *)
LEMMA RunInRange ==
    ASSUME NEW f \in V!Positions, NEW n \in Nat \ {0}
    PROVE  /\ PageNumberToAddress(f) = VStart + f
           /\ PageNumberToAddress(f) \in VirtualRange
           /\ AddressToPageNumber(VStart + f) = f
           /\ V!InMap(f, n) =>
                 /\ A!PagesFrom(VStart + f, n) = (VStart + f) .. (VStart + f + n - 1)
                 /\ A!PagesFrom(VStart + f, n) \subseteq VirtualRange
                 /\ \A p \in A!PagesFrom(VStart + f, n) :
                       AddressToPageNumber(p) = p - VStart
                 /\ {AddressToPageNumber(p) : p \in A!PagesFrom(VStart + f, n)} = V!Span(f, n)
  <1>1. /\ VStart \in Nat /\ VirtSize \in Nat \ {0} /\ VPages \in Nat \ {0}
        /\ VStart + VirtSize =< VPages
    <2>1. VStart + VirtSize - 1 \in VirtualRange
      BY AllocatorAssumption DEF VirtualRange
    <2> QED
      BY <2>1, AllocatorAssumption
  <1>2. \A p \in 0 .. (VPages - 1) : p % VPages = p
    BY <1>1
  <1>3. f \in Nat /\ f < VirtSize
    BY <1>1 DEF V!Positions
  <1>4. PageNumberToAddress(f) = VStart + f /\ VStart + f \in VirtualRange
    BY <1>1, <1>2, <1>3 DEF PageNumberToAddress, VirtualRange
  <1>5. \A p \in VirtualRange : AddressToPageNumber(p) = p - VStart
    BY <1>1, <1>2 DEF AddressToPageNumber, VirtualRange
  <1>6. AddressToPageNumber(VStart + f) = f
    BY <1>1, <1>3, <1>4, <1>5
  <1>7. ASSUME V!InMap(f, n)
        PROVE  /\ A!PagesFrom(VStart + f, n) = (VStart + f) .. (VStart + f + n - 1)
               /\ (VStart + f) .. (VStart + f + n - 1) \subseteq VirtualRange
    <2>1. f + n =< VirtSize
      BY <1>7 DEF V!InMap
    <2>2. \A k \in 0 .. (n - 1) : A!PageAt(VStart + f, k) = VStart + f + k
      BY <1>1, <1>2, <1>3, <2>1 DEF A!PageAt
    <2>3. A!PagesFrom(VStart + f, n) = {VStart + f + k : k \in 0 .. (n - 1)}
      BY <2>2 DEF A!PagesFrom
    <2>4. ASSUME NEW a \in Nat
          PROVE  {a + k : k \in 0 .. (n - 1)} = a .. (a + n - 1)
      <3>1. ASSUME NEW p \in a .. (a + n - 1)
            PROVE  p \in {a + k : k \in 0 .. (n - 1)}
        <4>1. p - a \in 0 .. (n - 1) /\ p = a + (p - a)
          OBVIOUS
        <4> QED
          BY <4>1
      <3>2. ASSUME NEW k \in 0 .. (n - 1)
            PROVE  a + k \in a .. (a + n - 1)
        OBVIOUS
      <3> QED
        BY <3>1, <3>2
    <2>5. VStart + f \in Nat
      BY <1>1, <1>3
    <2>6. {(VStart + f) + k : k \in 0 .. (n - 1)} = (VStart + f) .. (VStart + f + n - 1)
      BY <2>4, <2>5
    <2>7. (VStart + f) .. (VStart + f + n - 1) \subseteq VirtualRange
      BY <1>1, <1>3, <2>1 DEF VirtualRange
    <2> QED
      BY <2>3, <2>6, <2>7
  <1>8. ASSUME V!InMap(f, n)
        PROVE  {AddressToPageNumber(p) : p \in A!PagesFrom(VStart + f, n)} = V!Span(f, n)
    <2>1. {p - VStart : p \in (VStart + f) .. (VStart + f + n - 1)} = f .. (f + n - 1)
      <3>1. \A x \in f .. (f + n - 1) :
               x + VStart \in (VStart + f) .. (VStart + f + n - 1) /\ x = (x + VStart) - VStart
        BY <1>1, <1>3
      <3> QED
        BY <1>1, <1>3, <3>1
    <2> QED
      BY <1>5, <1>7, <1>8, <2>1 DEF V!Span
  <1> QED
    BY <1>4, <1>5, <1>6, <1>7, <1>8

-----------------------------------------------------------------------------

(* What a caller was given begins in the two maps, off page 0 and off what *)
(* the boot reserved, and is recorded unless it leaves the physical map.   *)
RunOK(c) ==
    /\ held[c].frame \in P!Positions \ {0}
    /\ \E f \in V!Positions : held[c].page = VStart + f
    /\ PhysicalPages(c) \cap base.bits = {}
    /\ P!InMap(held[c].frame, held[c].count) => PhysicalPages(c) \subseteq pbits

(* As long as no run has left a map, every run lies inside both. *)
InsideMaps(c) == /\ P!InMap(held[c].frame, held[c].count)
                 /\ V!InMap(held[c].page - VStart, held[c].count)

IInv == /\ LiveMapped
        /\ LiveDisjoint
        /\ LockstepUntilOverrun
        /\ base.bits \subseteq pbits
        /\ \A c \in Live : RunOK(c)
        /\ ~overrun => \A c \in Live : InsideMaps(c)

(* A run's pages depend on what is held only. *)
LEMMA SameRun ==
    ASSUME NEW d, held'[d] = held[d]
    PROVE  /\ VirtualPages(d)' = VirtualPages(d)
           /\ PhysicalPages(d)' = PhysicalPages(d)
           /\ InsideMaps(d)' = InsideMaps(d)
  BY DEF VirtualPages, PhysicalPages, InsideMaps

(* What an allocation takes from the two maps, and the mapping it makes. *)
Gives(c, n, first, frame) ==
    LET page == VStart + first
    IN  /\ page \in Window /\ page \in Nat /\ frame \in 0 .. (VPages - 1)
        /\ V!Span(first, n) \cap vbits = {} /\ P!Span(frame, n) \cap pbits = {}
        /\ pbits' = P!SetBits(pbits, frame, n)
        /\ vbits' = V!SetBits(vbits, first, n)
        /\ MapsPrefix(map, map', page, frame, n)
        /\ held' = IF A!MapLength(map, page, n) = n
                   THEN [held EXCEPT ![c] = [page |-> page, count |-> n, frame |-> frame]]
                   ELSE held
        /\ overrun' = (overrun \/ ~P!InMap(frame, n) \/ ~V!InMap(first, n))
        /\ base' = base

LEMMA AllocateGives ==
    ASSUME IInv, NEW c \in Callers, NEW n \in Requests, AllocatePages(c, n)
    PROVE  \E first \in V!Positions, frame \in P!Positions \ {0} : Gives(c, n, first, frame)
  <1> DEFINE first == V!FindUnsetBits(vbits, n)
             frame == PhysAllocate(n)
             page  == VStart + first
  <1>1. n \in Nat \ {0} /\ vbits \subseteq V!Positions /\ pbits \subseteq P!Positions
    BY AllocatorAssumption DEF IInv, LiveMapped, TypeOK
  <1>2. first >= 0 /\ frame # 0
    BY DEF AllocatePages
  <1>3. first \in V!Positions /\ V!Span(first, n) \cap vbits = {}
    BY <1>1, <1>2, VirtualSearch
  <1>4. frame \in P!Positions \ {0} /\ P!Span(frame, n) \cap pbits = {}
    BY <1>1, <1>2, PhysicalSearch
  <1>5. frame \in 0 .. (VPages - 1)
    BY <1>4, AllocatorAssumption DEF P!Positions
  <1>6. PageNumberToAddress(first) = page /\ page \in VirtualRange
    BY <1>1, <1>3, RunInRange
  <1>7. page \in Window /\ page \in Nat
    <2> HIDE DEF page
    <2> QED
      BY <1>6, AllocatorAssumption DEF VirtualRange
  <1>8. /\ pbits' = P!SetBits(pbits, frame, n)
        /\ vbits' = V!SetBits(vbits, first, n)
        /\ map' = A!AfterMap(map, page, frame, n)
        /\ held' = IF A!MapLength(map, page, n) = n
                   THEN [held EXCEPT ![c] = [page |-> page, count |-> n, frame |-> frame]]
                   ELSE held
        /\ overrun' = (overrun \/ ~P!InMap(frame, n) \/ ~V!InMap(first, n))
        /\ base' = base
    BY <1>6 DEF AllocatePages
  <1> HIDE DEF first, frame
  <1>9. MapsPrefix(map, map', page, frame, n)
    <2>1. frame \in Nat /\ n \in Nat
      BY <1>1, <1>5
    <2> HIDE DEF page
    <2> QED
      BY <1>7, <1>8, <2>1, MapResult
  <1>10. Gives(c, n, first, frame)
    BY <1>3, <1>4, <1>5, <1>7, <1>8, <1>9 DEF Gives
  <1> QED
    BY <1>3, <1>4, <1>10

(* Who holds what after an allocation: those before it what they had, and  *)
(* the caller its run if all of it was mapped.                             *)
LEMMA AllocateHolds ==
    ASSUME IInv, NEW c \in Callers, NEW n \in Requests, held[c] = Nothing,
           NEW first \in V!Positions, NEW frame \in P!Positions \ {0}, Gives(c, n, first, frame)
    PROVE  LET page == VStart + first
               all  == A!MapLength(map, page, n) = n
           IN  /\ c \notin Live
               /\ Live' = IF all THEN Live \cup {c} ELSE Live
               /\ \A d \in Live : held'[d] = held[d]
               /\ all => /\ held'[c] = [page |-> page, count |-> n, frame |-> frame]
                         /\ VirtualPages(c)' = A!PagesFrom(page, n)
                         /\ PhysicalPages(c)' = P!Span(frame, n)
  <1> DEFINE page == VStart + first
             run  == [page |-> page, count |-> n, frame |-> frame]
  <1>1. c \notin Live
    BY DEF Live
  <1>2. held \in [Callers -> Run \cup {Nothing}] /\ n # 0
    BY AllocatorAssumption DEF IInv, LiveMapped, TypeOK
  <1>3. run # Nothing
    BY <1>2 DEF Nothing
  <1>4. CASE A!MapLength(map, page, n) = n
    <2>1. held' = [held EXCEPT ![c] = run]
      BY <1>4 DEF Gives
    <2> HIDE DEF run
    <2>2. held'[c] = run /\ \A d \in Callers \ {c} : held'[d] = held[d]
      BY <1>2, <2>1
    <2>3. Live' = Live \cup {c}
      BY <1>3, <2>2 DEF Live
    <2>4. \A d \in Live : held'[d] = held[d]
      BY <1>1, <2>2 DEF Live
    <2>5. VirtualPages(c)' = A!PagesFrom(page, n) /\ PhysicalPages(c)' = P!Span(frame, n)
      BY <2>2 DEF VirtualPages, PhysicalPages, run
    <2> QED
      BY <1>1, <1>4, <2>2, <2>3, <2>4, <2>5 DEF run
  <1>5. CASE A!MapLength(map, page, n) # n
    <2>1. held' = held
      BY <1>5 DEF Gives
    <2> QED
      BY <1>1, <1>5, <2>1 DEF Live
  <1> QED
    BY <1>4, <1>5

LEMMA AllocateTypes ==
    ASSUME IInv, NEW c \in Callers, NEW n \in Requests, held[c] = Nothing,
           NEW first \in V!Positions, NEW frame \in P!Positions \ {0}, Gives(c, n, first, frame)
    PROVE  TypeOK'
  <1> DEFINE page == VStart + first
  <1>1. TypeOK /\ n \in Nat \ {0}
    BY AllocatorAssumption DEF IInv, LiveMapped
  <1>2. pbits' \subseteq P!Positions
    BY <1>1, AllocatorAssumption DEF Gives, TypeOK, P!SetBits, P!InMap, P!Span, P!Positions
  <1>3. vbits' \subseteq V!Positions
    BY <1>1, AllocatorAssumption DEF Gives, TypeOK, V!SetBits, V!InMap, V!Span, V!Positions
  <1>4. DOMAIN map' \subseteq Window
    BY <1>1 DEF Gives, MapsPrefix, TypeOK
  <1>5. ASSUME NEW p \in DOMAIN map'
        PROVE  map'[p] \in 0 .. (VPages - 1)
    <2>1. CASE p \in DOMAIN map
      BY <1>1, <2>1 DEF Gives, MapsPrefix, TypeOK
    <2>2. CASE p \notin DOMAIN map
      <3>1. PICK k \in 0 .. (A!MapLength(map, page, n) - 1) : p = A!PageAt(page, k)
        BY <2>2 DEF Gives, MapsPrefix, A!PagesFrom
      <3>2. map'[p] = (frame + k) % VPages /\ k \in Int /\ frame \in Int
        BY <3>1 DEF Gives, MapsPrefix, A!FrameAt
      <3> QED
        BY <3>2, AllocatorAssumption
    <2> QED
      BY <2>1, <2>2
  <1>6. [page |-> page, count |-> n, frame |-> frame] \in Run
    BY DEF Gives, Run
  <1>7. held' \in [Callers -> Run \cup {Nothing}]
    BY <1>1, <1>6 DEF Gives, TypeOK
  <1>8. base' \in Boots /\ overrun' \in BOOLEAN
    BY <1>1 DEF Gives, TypeOK
  <1> QED
    BY <1>2, <1>3, <1>4, <1>5, <1>7, <1>8 DEF TypeOK

LEMMA AllocateKeepsRuns ==
    ASSUME IInv, NEW c \in Callers, NEW n \in Requests, held[c] = Nothing,
           NEW first \in V!Positions, NEW frame \in P!Positions \ {0}, Gives(c, n, first, frame)
    PROVE  /\ LiveMapped' /\ LiveDisjoint'
           /\ base'.bits \subseteq pbits'
           /\ \A d \in Live' : RunOK(d)'
  <1> DEFINE page == VStart + first
             all  == A!MapLength(map, page, n) = n
  <1> HIDE DEF all
  <1>1. /\ c \notin Live
        /\ Live' = IF all THEN Live \cup {c} ELSE Live
        /\ \A d \in Live : held'[d] = held[d]
        /\ all => /\ held'[c] = [page |-> page, count |-> n, frame |-> frame]
                  /\ VirtualPages(c)' = A!PagesFrom(page, n)
                  /\ PhysicalPages(c)' = P!Span(frame, n)
    BY AllocateHolds DEF all
  <1>2. ASSUME NEW d \in Live
        PROVE  /\ held'[d] = held[d] /\ d # c
               /\ VirtualPages(d)' = VirtualPages(d) /\ PhysicalPages(d)' = PhysicalPages(d)
    BY <1>1, SameRun
  <1>3. pbits \subseteq pbits' /\ (P!InMap(frame, n) => P!Span(frame, n) \subseteq pbits')
    BY DEF Gives, P!SetBits
  <1>4. all => A!PagesFrom(page, n) \subseteq Window \ DOMAIN map
    BY DEF Gives, MapsPrefix, all
  <1>5. ASSUME NEW d \in Live
        PROVE  VirtualPages(d) \subseteq DOMAIN map
    BY DEF IInv, LiveMapped, VirtualPages, A!PagesFrom
  <1>6. LiveMapped'
    <2>1. ASSUME NEW d \in Live, NEW k \in 0 .. (held[d].count - 1)
          PROVE  LET p == A!PageAt(held[d].page, k)
                 IN  p \in DOMAIN map' /\ map'[p] = A!FrameAt(held[d].frame, k)
      BY DEF IInv, LiveMapped, Gives, MapsPrefix
    <2>2. ASSUME all, NEW k \in 0 .. (n - 1)
          PROVE  LET p == A!PageAt(page, k)
                 IN  p \in DOMAIN map' /\ map'[p] = A!FrameAt(frame, k)
      BY <2>2 DEF Gives, MapsPrefix, A!PagesFrom, all
    <2>3. ASSUME NEW d \in Live', NEW k \in 0 .. (held'[d].count - 1)
          PROVE  LET p == A!PageAt(held'[d].page, k)
                 IN  p \in DOMAIN map' /\ map'[p] = A!FrameAt(held'[d].frame, k)
      <3>1. CASE d \in Live
        BY <1>2, <2>1, <2>3, <3>1
      <3>2. CASE d \notin Live
        <4>1. d = c /\ all
          BY <1>1, <2>3, <3>2
        <4> QED
          BY <1>1, <2>2, <2>3, <4>1
      <3> QED
        BY <3>1, <3>2
    <2> QED
      BY <2>3, AllocateTypes DEF LiveMapped
  <1>7. LiveDisjoint'
    <2>1. ASSUME all, NEW d \in Live
          PROVE  /\ A!PagesFrom(page, n) \cap VirtualPages(d) = {}
                 /\ \/ P!Span(frame, n) \cap PhysicalPages(d) = {}
                    \/ ~P!InMap(held[d].frame, held[d].count)
      <3>1. P!Span(frame, n) \cap pbits = {}
        BY DEF Gives
      <3> QED
        BY <1>4, <1>5, <2>1, <3>1 DEF IInv, RunOK
    <2>2. ASSUME NEW d \in Live', NEW e \in Live', d # e
          PROVE  /\ VirtualPages(d)' \cap VirtualPages(e)' = {}
                 /\ \/ PhysicalPages(d)' \cap PhysicalPages(e)' = {}
                    \/ ~P!InMap(held'[d].frame, held'[d].count)
                    \/ ~P!InMap(held'[e].frame, held'[e].count)
      <3>1. CASE d \in Live /\ e \in Live
        BY <1>2, <2>2, <3>1 DEF IInv, LiveDisjoint
      <3>2. CASE d \in Live /\ e \notin Live
        <4>1. e = c /\ all
          BY <1>1, <2>2, <3>2
        <4> QED
          BY <1>1, <1>2, <2>1, <3>2, <4>1
      <3>3. CASE d \notin Live /\ e \in Live
        <4>1. d = c /\ all
          BY <1>1, <2>2, <3>3
        <4> QED
          BY <1>1, <1>2, <2>1, <3>3, <4>1
      <3>4. CASE d \notin Live /\ e \notin Live
        BY <1>1, <2>2, <3>4
      <3> QED
        BY <3>1, <3>2, <3>3, <3>4
    <2> QED
      BY <2>2 DEF LiveDisjoint
  <1>8. base' = base /\ base.bits \subseteq pbits
    BY DEF Gives, IInv
  <1>9. ASSUME NEW d \in Live'
        PROVE  RunOK(d)'
    <2>1. CASE d \in Live
      BY <1>2, <1>3, <1>8, <2>1 DEF IInv, RunOK
    <2>2. CASE d \notin Live
      <3>1. d = c /\ all
        BY <1>1, <1>9, <2>2
      <3>2. P!Span(frame, n) \cap base.bits = {}
        BY <1>8 DEF Gives
      <3> QED
        BY <1>1, <1>3, <1>8, <3>1, <3>2 DEF RunOK
    <2> QED
      BY <2>1, <2>2
  <1> QED
    BY <1>3, <1>6, <1>7, <1>8, <1>9

(* A run inside both maps is mapped whole: the pages of clear bits are not *)
(* in the translation.                                                     *)
LEMMA AllocateMapsAll ==
    ASSUME IInv, ~overrun, NEW first \in V!Positions, NEW n \in Nat \ {0},
           V!InMap(first, n), V!Span(first, n) \cap vbits = {}
    PROVE  A!PagesFrom(VStart + first, n) \subseteq Window \ DOMAIN map
  <1> SUFFICES ASSUME NEW p \in A!PagesFrom(VStart + first, n)
               PROVE  p \in Window /\ p \notin DOMAIN map
    OBVIOUS
  <1>1. p \in VirtualRange /\ AddressToPageNumber(p) \in V!Span(first, n)
    BY RunInRange
  <1>2. p \notin DOMAIN base.map
    <2>1. base \in Boots
      BY DEF IInv, LiveMapped, TypeOK
    <2> QED
      BY <1>1, <2>1, AllocatorAssumption DEF VirtualRange
  <1>3. \A d \in Live : p \notin VirtualPages(d)
    BY <1>1 DEF IInv, LockstepUntilOverrun
  <1> QED
    BY <1>1, <1>2, <1>3, AllocatorAssumption DEF IInv, LockstepUntilOverrun

LEMMA AllocateKeepsLockstep ==
    ASSUME IInv, NEW c \in Callers, NEW n \in Requests, held[c] = Nothing,
           NEW first \in V!Positions, NEW frame \in P!Positions \ {0}, Gives(c, n, first, frame),
           ~overrun'
    PROVE  LockstepUntilOverrun' /\ \A d \in Live' : InsideMaps(d)'
  <1> DEFINE page == VStart + first
  <1>1. n \in Nat \ {0} /\ ~overrun /\ P!InMap(frame, n) /\ V!InMap(first, n)
    BY AllocatorAssumption DEF Gives
  <1>2. A!MapLength(map, page, n) = n
    <2>1. A!PagesFrom(page, n) \subseteq Window \ DOMAIN map
      BY <1>1, AllocateMapsAll DEF Gives
    <2> QED
      BY <2>1 DEF Gives, MapsPrefix
  <1>3. /\ Live' = Live \cup {c} /\ c \notin Live
        /\ \A d \in Live : held'[d] = held[d]
        /\ held'[c] = [page |-> page, count |-> n, frame |-> frame]
        /\ VirtualPages(c)' = A!PagesFrom(page, n)
        /\ PhysicalPages(c)' = P!Span(frame, n)
    BY <1>2, AllocateHolds
  <1>4. ASSUME NEW d \in Live
        PROVE  /\ VirtualPages(d)' = VirtualPages(d) /\ PhysicalPages(d)' = PhysicalPages(d)
               /\ InsideMaps(d)'
    BY <1>1, <1>3, SameRun DEF IInv
  <1>5. UNION {VirtualPages(d)' : d \in Live'}
           = (UNION {VirtualPages(d) : d \in Live}) \cup A!PagesFrom(page, n)
    BY <1>3, <1>4
  <1>6. UNION {PhysicalPages(d)' : d \in Live'}
           = (UNION {PhysicalPages(d) : d \in Live}) \cup P!Span(frame, n)
    BY <1>3, <1>4
  <1>7. vbits' = {AddressToPageNumber(p) : p \in UNION {VirtualPages(d)' : d \in Live'}}
    <2>1. vbits' = vbits \cup V!Span(first, n)
      BY <1>1 DEF Gives, V!SetBits
    <2>2. {AddressToPageNumber(p) : p \in A!PagesFrom(page, n)} = V!Span(first, n)
      BY <1>1, RunInRange
    <2>3. vbits = {AddressToPageNumber(p) : p \in UNION {VirtualPages(d) : d \in Live}}
      BY <1>1 DEF IInv, LockstepUntilOverrun
    <2> DEFINE before == UNION {VirtualPages(d) : d \in Live}
    <2> HIDE DEF before
    <2>4. {AddressToPageNumber(p) : p \in before \cup A!PagesFrom(page, n)}
             = {AddressToPageNumber(p) : p \in before}
               \cup {AddressToPageNumber(p) : p \in A!PagesFrom(page, n)}
      OBVIOUS
    <2> QED
      BY <1>5, <2>1, <2>2, <2>3, <2>4 DEF before
  <1>8. pbits' = base'.bits \cup UNION {PhysicalPages(d)' : d \in Live'}
    <2>1. pbits' = pbits \cup P!Span(frame, n) /\ base' = base
      BY <1>1 DEF Gives, P!SetBits
    <2> QED
      BY <1>1, <1>6, <2>1 DEF IInv, LockstepUntilOverrun
  <1>9. DOMAIN map' = DOMAIN base'.map \cup UNION {VirtualPages(d)' : d \in Live'}
    <2>1. DOMAIN map' = DOMAIN map \cup A!PagesFrom(page, n) /\ base' = base
      BY <1>2 DEF Gives, MapsPrefix
    <2> QED
      BY <1>1, <1>5, <2>1 DEF IInv, LockstepUntilOverrun
  <1>10. InsideMaps(c)'
    <2>1. (VStart + first) - VStart = first
      BY AllocatorAssumption DEF V!Positions
    <2> QED
      BY <1>1, <1>3, <2>1 DEF InsideMaps
  <1> QED
    BY <1>3, <1>4, <1>7, <1>8, <1>9, <1>10 DEF LockstepUntilOverrun

LEMMA AllocateStep ==
    ASSUME IInv, NEW c \in Callers, NEW n \in Requests, AllocatePages(c, n)
    PROVE  IInv'
  <1>1. PICK first \in V!Positions, frame \in P!Positions \ {0} : Gives(c, n, first, frame)
    BY AllocateGives
  <1>2. held[c] = Nothing
    BY DEF AllocatePages
  <1>3. /\ LiveMapped' /\ LiveDisjoint' /\ base'.bits \subseteq pbits'
        /\ \A d \in Live' : RunOK(d)'
    BY <1>1, <1>2, AllocateKeepsRuns
  <1>4. ~overrun' => LockstepUntilOverrun' /\ \A d \in Live' : InsideMaps(d)'
    BY <1>1, <1>2, AllocateKeepsLockstep
  <1>5. overrun' => LockstepUntilOverrun'
    BY DEF LockstepUntilOverrun
  <1> QED
    BY <1>3, <1>4, <1>5 DEF IInv

(* What a free gives back: the frame the first page lies on is the run's,  *)
(* the whole range is unmapped and both maps are told.                     *)
LEMMA FreeGives ==
    ASSUME IInv, NEW c \in Callers, FreePages(c)
    PROVE  LET n == held[c].count
           IN  /\ c \in Live
               /\ map' = Restrict(map, DOMAIN map \ VirtualPages(c))
               /\ pbits' = P!ClearBits(pbits, held[c].frame, n)
               /\ vbits' = V!ClearBits(vbits, held[c].page - VStart, n)
               /\ held' = [held EXCEPT ![c] = Nothing]
               /\ base' = base /\ overrun' = overrun
  <1> DEFINE page == held[c].page
             n    == held[c].count
  <1>1. c \in Live
    BY DEF FreePages, Live
  <1>2. held[c] \in Run
    BY <1>1 DEF IInv, LiveMapped, TypeOK, Live
  <1>3. n \in Nat \ {0} /\ page \in 0 .. (VPages - 1) /\ held[c].frame \in 0 .. (VPages - 1)
    BY <1>2, AllocatorAssumption DEF Run
  <1>4. A!PagesFrom(page, n) \subseteq DOMAIN map
    BY <1>1 DEF IInv, LiveMapped, A!PagesFrom
  <1>5. GetPhysicalAddress(page) = held[c].frame
    <2>1. 0 \in 0 .. (n - 1)
      BY <1>3
    <2>2. A!PageAt(page, 0) = page /\ A!FrameAt(held[c].frame, 0) = held[c].frame
      <3>1. VPages \in Nat \ {0} /\ \A x \in 0 .. (VPages - 1) : (x + 0) % VPages = x
        BY AllocatorAssumption
      <3> HIDE DEF page
      <3> QED
        BY <1>3, <3>1 DEF A!PageAt, A!FrameAt
    <2>3. page \in DOMAIN map /\ map[page] = held[c].frame
      BY <1>1, <2>1, <2>2 DEF IInv, LiveMapped
    <2> QED
      BY <2>3 DEF GetPhysicalAddress
  <1>6. held[c].frame # 0
    BY <1>1 DEF IInv, RunOK
  <1>7. A!UnmapLength(map, page, n) = n
        /\ A!AfterUnmap(map, page, n) = Restrict(map, DOMAIN map \ VirtualPages(c))
    BY <1>3, <1>4, UnmapResult DEF VirtualPages
  <1>8. AddressToPageNumber(page) = page - VStart
    <2>1. PICK f \in V!Positions : page = VStart + f
      BY <1>1 DEF IInv, RunOK
    <2>2. AddressToPageNumber(VStart + f) = f /\ (VStart + f) - VStart = f
      BY <1>3, RunInRange, AllocatorAssumption DEF V!Positions
    <2> QED
      BY <2>1, <2>2
  <1> QED
    BY <1>1, <1>5, <1>6, <1>7, <1>8 DEF FreePages

LEMMA FreeKeepsRuns ==
    ASSUME IInv, NEW c \in Callers, FreePages(c)
    PROVE  /\ Live' = Live \ {c}
           /\ \A d \in Live \ {c} : /\ held'[d] = held[d]
                                   /\ VirtualPages(d)' = VirtualPages(d)
                                   /\ PhysicalPages(d)' = PhysicalPages(d)
           /\ LiveMapped' /\ LiveDisjoint'
           /\ base'.bits \subseteq pbits'
           /\ \A d \in Live' : RunOK(d)'
  <1> DEFINE n == held[c].count
  <1>1. /\ c \in Live
        /\ map' = Restrict(map, DOMAIN map \ VirtualPages(c))
        /\ pbits' = P!ClearBits(pbits, held[c].frame, n)
        /\ vbits' = V!ClearBits(vbits, held[c].page - VStart, n)
        /\ held' = [held EXCEPT ![c] = Nothing]
        /\ base' = base /\ overrun' = overrun
    BY FreeGives
  <1>2. TypeOK
    BY DEF IInv, LiveMapped
  <1>3. held'[c] = Nothing /\ \A d \in Callers \ {c} : held'[d] = held[d]
    BY <1>1, <1>2 DEF TypeOK
  <1>4. Live' = Live \ {c}
    BY <1>3 DEF Live
  <1>5. ASSUME NEW d \in Live \ {c}
        PROVE  /\ held'[d] = held[d]
               /\ VirtualPages(d)' = VirtualPages(d) /\ PhysicalPages(d)' = PhysicalPages(d)
    <2>1. held'[d] = held[d]
      BY <1>3 DEF Live
    <2> QED
      BY <2>1, SameRun
  <1>6. /\ DOMAIN map' = DOMAIN map \ VirtualPages(c)
        /\ \A p \in DOMAIN map' : map'[p] = map[p]
    BY <1>1 DEF Restrict
  <1>7. TypeOK'
    <2>1. pbits' \subseteq P!Positions /\ vbits' \subseteq V!Positions
      BY <1>1, <1>2 DEF TypeOK, P!ClearBits, V!ClearBits
    <2> QED
      BY <1>1, <1>2, <1>6, <2>1 DEF TypeOK
  <1>8. LiveMapped'
    <2>1. ASSUME NEW d \in Live \ {c}, NEW k \in 0 .. (held[d].count - 1)
          PROVE  LET p == A!PageAt(held[d].page, k)
                 IN  p \in DOMAIN map' /\ map'[p] = A!FrameAt(held[d].frame, k)
      <3> DEFINE p == A!PageAt(held[d].page, k)
      <3>1. p \in DOMAIN map /\ map[p] = A!FrameAt(held[d].frame, k)
        BY DEF IInv, LiveMapped
      <3>2. p \in VirtualPages(d)
        BY DEF VirtualPages, A!PagesFrom
      <3>3. p \notin VirtualPages(c)
        BY <1>1, <3>2 DEF IInv, LiveDisjoint
      <3> QED
        BY <1>6, <3>1, <3>3
    <2> QED
      BY <1>4, <1>5, <1>7, <2>1 DEF LiveMapped
  <1>9. LiveDisjoint'
    BY <1>4, <1>5 DEF IInv, LiveDisjoint
  <1>10. PhysicalPages(c) \cap base.bits = {} /\ base.bits \subseteq pbits
    BY <1>1 DEF IInv, RunOK
  <1>11. base'.bits \subseteq pbits'
    BY <1>1, <1>10 DEF P!ClearBits, PhysicalPages
  <1>12. ASSUME NEW d \in Live \ {c}
         PROVE  RunOK(d)'
    <2>1. RunOK(d)
      BY DEF IInv
    <2>2. ASSUME P!InMap(held[d].frame, held[d].count)
          PROVE  PhysicalPages(d) \subseteq pbits'
      <3>1. PhysicalPages(d) \subseteq pbits
        BY <2>1, <2>2 DEF RunOK
      <3>2. \/ PhysicalPages(d) \cap PhysicalPages(c) = {}
            \/ ~P!InMap(held[c].frame, n)
        BY <1>1, <2>2 DEF IInv, LiveDisjoint
      <3> QED
        BY <1>1, <3>1, <3>2 DEF P!ClearBits, PhysicalPages
    <2> QED
      BY <1>1, <1>5, <2>1, <2>2 DEF RunOK
  <1> QED
    BY <1>4, <1>5, <1>8, <1>9, <1>11, <1>12

(* The virtual pages of a run inside the maps. *)
LEMMA HeldInRange ==
    ASSUME IInv, NEW c \in Live, InsideMaps(c)
    PROVE  /\ VirtualPages(c) \subseteq VirtualRange
           /\ \A p \in VirtualPages(c) : AddressToPageNumber(p) = p - VStart
           /\ {AddressToPageNumber(p) : p \in VirtualPages(c)}
                 = V!Span(held[c].page - VStart, held[c].count)
  <1>1. PICK f \in V!Positions : held[c].page = VStart + f
    BY DEF IInv, RunOK
  <1>2. (VStart + f) - VStart = f
    BY AllocatorAssumption DEF V!Positions
  <1>3. held[c].count \in Nat \ {0}
    BY AllocatorAssumption DEF IInv, LiveMapped, TypeOK, Live, Run
  <1>4. V!InMap(f, held[c].count)
    BY <1>1, <1>2 DEF InsideMaps
  <1> QED
    BY <1>1, <1>2, <1>3, <1>4, RunInRange DEF VirtualPages

LEMMA FreeKeepsLockstep ==
    ASSUME IInv, NEW c \in Callers, FreePages(c), ~overrun'
    PROVE  LockstepUntilOverrun' /\ \A d \in Live' : InsideMaps(d)'
  <1> DEFINE n      == held[c].count
             first  == held[c].page - VStart
             VOther == UNION {VirtualPages(d) : d \in Live \ {c}}
             POther == UNION {PhysicalPages(d) : d \in Live \ {c}}
  <1>1. /\ c \in Live /\ ~overrun
        /\ map' = Restrict(map, DOMAIN map \ VirtualPages(c))
        /\ pbits' = P!ClearBits(pbits, held[c].frame, n)
        /\ vbits' = V!ClearBits(vbits, first, n)
        /\ base' = base
    BY FreeGives
  <1>2. /\ Live' = Live \ {c}
        /\ \A d \in Live \ {c} : /\ held'[d] = held[d]
                                /\ VirtualPages(d)' = VirtualPages(d)
                                /\ PhysicalPages(d)' = PhysicalPages(d)
    BY FreeKeepsRuns
  <1>3. InsideMaps(c) /\ \A d \in Live' : InsideMaps(d)'
    BY <1>1, <1>2, SameRun DEF IInv
  <1>4. /\ UNION {VirtualPages(d)' : d \in Live'} = VOther
        /\ UNION {PhysicalPages(d)' : d \in Live'} = POther
    BY <1>2
  <1>5. UNION {VirtualPages(d) : d \in Live} = VOther \cup VirtualPages(c)
    BY <1>1
  <1>6. UNION {PhysicalPages(d) : d \in Live} = POther \cup PhysicalPages(c)
    BY <1>1
  <1>7. VOther \cap VirtualPages(c) = {}
    BY <1>1 DEF IInv, LiveDisjoint
  <1>8. POther \cap PhysicalPages(c) = {}
    BY <1>1, <1>3 DEF IInv, LiveDisjoint, InsideMaps
  <1>9. VirtualPages(c) \cap DOMAIN base.map = {} /\ PhysicalPages(c) \cap base.bits = {}
    <2>1. VirtualPages(c) \subseteq VirtualRange
      BY <1>1, <1>3, HeldInRange
    <2>2. base \in Boots
      BY DEF IInv, LiveMapped, TypeOK
    <2> QED
      BY <1>1, <2>1, <2>2, AllocatorAssumption DEF IInv, RunOK, VirtualRange
  <1>10. \A d \in Live : \A p \in VirtualPages(d) : p \in VirtualRange /\ AddressToPageNumber(p) = p - VStart
    BY <1>1, HeldInRange DEF IInv
  <1>11. vbits' = {AddressToPageNumber(p) : p \in VOther}
    <2>1. vbits' = vbits \ V!Span(first, n)
      BY <1>1, <1>3 DEF V!ClearBits, InsideMaps
    <2>2. V!Span(first, n) = {AddressToPageNumber(p) : p \in VirtualPages(c)}
      BY <1>1, <1>3, HeldInRange
    <2>3. vbits = {AddressToPageNumber(p) : p \in VOther \cup VirtualPages(c)}
      BY <1>1, <1>5 DEF IInv, LockstepUntilOverrun
    <2>4. \A p \in VOther, q \in VirtualPages(c) : AddressToPageNumber(p) # AddressToPageNumber(q)
      <3>1. \A p, q \in VirtualRange : p - VStart = q - VStart => p = q
        BY AllocatorAssumption DEF VirtualRange
      <3>2. ASSUME NEW p \in VOther, NEW q \in VirtualPages(c),
                   AddressToPageNumber(p) = AddressToPageNumber(q)
            PROVE  FALSE
        <4>1. p \in VirtualRange /\ AddressToPageNumber(p) = p - VStart
          BY <1>10
        <4>2. q \in VirtualRange /\ AddressToPageNumber(q) = q - VStart
          BY <1>1, <1>10
        <4> QED
          BY <1>7, <3>1, <3>2, <4>1, <4>2
      <3> QED
        BY <3>2
    <2> HIDE DEF VOther
    <2> QED
      BY <2>1, <2>2, <2>3, <2>4
  <1> HIDE DEF VOther, POther
  <1>12. pbits' = base'.bits \cup POther
    <2>1. pbits' = pbits \ PhysicalPages(c)
      BY <1>1, <1>3 DEF P!ClearBits, InsideMaps, PhysicalPages
    <2>2. pbits = base.bits \cup POther \cup PhysicalPages(c)
      BY <1>1, <1>6 DEF IInv, LockstepUntilOverrun
    <2> QED
      BY <1>1, <1>8, <1>9, <2>1, <2>2
  <1>13. DOMAIN map' = DOMAIN base'.map \cup VOther
    <2>1. DOMAIN map' = DOMAIN map \ VirtualPages(c)
      BY <1>1 DEF Restrict
    <2>2. DOMAIN map = DOMAIN base.map \cup VOther \cup VirtualPages(c)
      BY <1>1, <1>5 DEF IInv, LockstepUntilOverrun
    <2> QED
      BY <1>1, <1>7, <1>9, <2>1, <2>2
  <1> QED
    BY <1>3, <1>4, <1>11, <1>12, <1>13 DEF LockstepUntilOverrun

LEMMA FreeStep ==
    ASSUME IInv, NEW c \in Callers, FreePages(c)
    PROVE  IInv'
  <1>1. /\ LiveMapped' /\ LiveDisjoint' /\ base'.bits \subseteq pbits'
        /\ \A d \in Live' : RunOK(d)'
    BY FreeKeepsRuns
  <1>2. ~overrun' => LockstepUntilOverrun' /\ \A d \in Live' : InsideMaps(d)'
    BY FreeKeepsLockstep
  <1>3. overrun' => LockstepUntilOverrun'
    BY DEF LockstepUntilOverrun
  <1> QED
    BY <1>1, <1>2, <1>3 DEF IInv

-----------------------------------------------------------------------------

(* The inductive invariant. *)
THEOREM Invariance == Spec => []IInv
  <1>1. Init => IInv
    <2> SUFFICES ASSUME Init
                 PROVE  IInv
      OBVIOUS
    <2>1. PICK b \in Boots : base = b /\ pbits = b.bits /\ map = b.map
      BY DEF Init
    <2>2. held = [c \in Callers |-> Nothing] /\ vbits = {} /\ overrun = FALSE
      BY DEF Init, V!ResetAll
    <2>3. Live = {}
      BY <2>2 DEF Live
    <2>4. TypeOK
      BY <2>1, <2>2, AllocatorAssumption DEF TypeOK
    <2>5. LockstepUntilOverrun
      BY <2>1, <2>2, <2>3 DEF LockstepUntilOverrun
    <2> QED
      BY <2>1, <2>3, <2>4, <2>5 DEF IInv, LiveMapped, LiveDisjoint
  <1>2. IInv /\ [Next]_vars => IInv'
    <2> SUFFICES ASSUME IInv, [Next]_vars
                 PROVE  IInv'
      OBVIOUS
    <2>1. ASSUME NEW c \in Callers, NEW n \in Requests, AllocatePages(c, n)
          PROVE  IInv'
      BY <2>1, AllocateStep
    <2>2. ASSUME NEW c \in Callers, FreePages(c)
          PROVE  IInv'
      BY <2>2, FreeStep
    <2>3. CASE UNCHANGED vars
      <3>1. /\ pbits' = pbits /\ vbits' = vbits /\ map' = map
            /\ base' = base /\ held' = held /\ overrun' = overrun
        BY <2>3 DEF vars
      <3>2. /\ Live' = Live
            /\ \A d : VirtualPages(d)' = VirtualPages(d) /\ PhysicalPages(d)' = PhysicalPages(d)
        BY <3>1 DEF Live, VirtualPages, PhysicalPages
      <3>3. LiveMapped'
        BY <3>1, <3>2 DEF IInv, LiveMapped, TypeOK
      <3>4. LiveDisjoint' /\ LockstepUntilOverrun'
        BY <3>1, <3>2 DEF IInv, LiveDisjoint, LockstepUntilOverrun
      <3>5. \A d \in Live' : RunOK(d)' = RunOK(d) /\ InsideMaps(d)' = InsideMaps(d)
        BY <3>1, <3>2 DEF RunOK, InsideMaps
      <3> QED
        BY <3>1, <3>2, <3>3, <3>4, <3>5 DEF IInv
    <2> QED
      BY <2>1, <2>2, <2>3 DEF Next, AllocateFails
  <1> QED
    BY <1>1, <1>2, PTL DEF Spec

(* Every page of a run a caller holds is mapped, onto the run's frames in  *)
(* order (VirtualMemoryAllocator.cpp:30-86).                               *)
THEOREM RunsStayMapped == Spec => []LiveMapped
  <1>1. IInv => LiveMapped
    BY DEF IInv
  <1> QED
    BY <1>1, Invariance, PTL

(* No two callers share a virtual page, nor a frame unless one's run has   *)
(* left the physical map (VirtualMemoryManager.cpp:72-76,                  *)
(* PhysicalMemoryManager.cpp:47-52).                                       *)
THEOREM RunsStayDisjoint == Spec => []LiveDisjoint
  <1>1. IInv => LiveDisjoint
    BY DEF IInv
  <1> QED
    BY <1>1, Invariance, PTL

(* The virtual bits, the physical bits and the translation record the same *)
(* runs until one leaves a map (VirtualMemoryAllocator.cpp:49-54, 81-84).  *)
THEOREM RecordsAgree == Spec => []LockstepUntilOverrun
  <1>1. IInv => LockstepUntilOverrun
    BY DEF IInv
  <1> QED
    BY <1>1, Invariance, PTL

(* A free of a live run takes out all of its pages and no other            *)
(* (VirtualMemoryAllocator.cpp:77-81).                                     *)
THEOREM FreesAreComplete == Spec => FreeUnmapsAll
  <1> DEFINE Complete ==
        \A c \in Live :
            held'[c] = Nothing => map' = Restrict(map, DOMAIN map \ VirtualPages(c))
  <1>1. ASSUME IInv, [Next]_vars
        PROVE  [Complete]_vars
    <2> SUFFICES ASSUME NEW d \in Live, Next, held'[d] = Nothing, vars' # vars
                 PROVE  map' = Restrict(map, DOMAIN map \ VirtualPages(d))
      BY <1>1
    <2>1. ASSUME NEW c \in Callers, NEW n \in Requests, AllocatePages(c, n)
          PROVE  FALSE
      <3>1. PICK first \in V!Positions, frame \in P!Positions \ {0} : Gives(c, n, first, frame)
        BY <1>1, <2>1, AllocateGives
      <3>2. held[c] = Nothing
        BY <2>1 DEF AllocatePages
      <3>3. held'[d] = held[d]
        BY <1>1, <3>1, <3>2, AllocateHolds
      <3> QED
        BY <3>3 DEF Live
    <2>2. ASSUME NEW c \in Callers, FreePages(c)
          PROVE  map' = Restrict(map, DOMAIN map \ VirtualPages(d))
      <3>1. held' = [held EXCEPT ![c] = Nothing]
            /\ map' = Restrict(map, DOMAIN map \ VirtualPages(c))
        BY <1>1, <2>2, FreeGives
      <3>2. c = d
        BY <1>1, <3>1 DEF Live, IInv, LiveMapped, TypeOK
      <3> QED
        BY <3>1, <3>2
    <2>3. ASSUME NEW c \in Callers, NEW n \in Requests, AllocateFails(c, n)
          PROVE  FALSE
      BY <2>3 DEF AllocateFails
    <2> QED
      BY <2>1, <2>2, <2>3 DEF Next
  <1> QED
    BY <1>1, Invariance, PTL DEF Spec, FreeUnmapsAll
=============================================================================
