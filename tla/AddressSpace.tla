---------------------------- MODULE AddressSpace ----------------------------
(***************************************************************************)
(* What the virtual memory manager promises, without directory or tables:  *)
(* the translation in force is a function from virtual pages to physical   *)
(* frames, and a range request is one step that stops at the first page    *)
(* that cannot be served and keeps what came before it                     *)
(* (VirtualMemoryManager.cpp, MapRange and UnmapRange).                    *)
(***************************************************************************)
EXTENDS Integers, Functions, FiniteSetsExt

CONSTANTS VPages,   \* virtual pages, 2^20; ranges wrap at the end
          Frames,   \* physical frames, 2^20; they wrap too
          Window    \* the pages that have a page table: directory entry 0
                    \*   and the entries 768..1023

(* The k-th page or frame after x. *)
PageAt(x, k) == (x + k) % VPages
FrameAt(x, k) == (x + k) % Frames

(* The pages of a range, and the length of its longest prefix all of whose *)
(* pages are in S.                                                         *)
PagesFrom(page, n) == {PageAt(page, k) : k \in 0 .. (n - 1)}

PrefixIn(S, page, n) == Max({k \in 0 .. n : PagesFrom(page, k) \subseteq S})

(* Mutant: Map does not look whether the entry is present. *)
MapLengthIgnoresPresent(map, page, n) == PrefixIn(Window, page, n)

(* A page is mapped if it has a table and is not mapped already; a page of *)
(* the window that is mapped can be unmapped.                              *)
MapLength(map, page, n) == PrefixIn(Window \ DOMAIN map, page, n)
UnmapLength(map, page, n) == PrefixIn(DOMAIN map, page, n)

AfterMap(map, page, frame, n) ==
    LET new == PagesFrom(page, MapLength(map, page, n))
    IN  [p \in DOMAIN map \cup new |->
            IF p \in new THEN FrameAt(frame, (p - page) % VPages) ELSE map[p]]

(* Mutants: the loop unmaps a page too many, a page too few. *)
AfterUnmapLong(map, page, n) ==
    Restrict(map, DOMAIN map \ PagesFrom(page, UnmapLength(map, page, n) + 1))

AfterUnmapShort(map, page, n) ==
    Restrict(map, DOMAIN map \ PagesFrom(page, UnmapLength(map, page, n) - 1))

AfterUnmap(map, page, n) ==
    Restrict(map, DOMAIN map \ PagesFrom(page, UnmapLength(map, page, n)))

-----------------------------------------------------------------------------

(* A request: aligned is whether both addresses are those of pages. *)
Request == [op : {"map", "unmap"}, page : 0 .. (VPages - 1),
            frame : 0 .. (Frames - 1), count : 0 .. VPages, aligned : BOOLEAN]

NoRequest == [op |-> "none"]

VARIABLES map,       \* the translation: the mapped pages to their frames
          request,   \* the request that waits for its answer
          ok         \* the last answer

vars == <<map, request, ok>>

Init == /\ map = << >>
        /\ request = NoRequest
        /\ ok = TRUE

Ask == /\ request = NoRequest
       /\ request' \in Request
       /\ UNCHANGED <<map, ok>>

(* A request for no page is granted whatever its addresses are. *)
Refused == request.count > 0 /\ ~request.aligned

MapRange == /\ request.op = "map"
            /\ IF Refused
               THEN map' = map /\ ok' = FALSE
               ELSE /\ map' = AfterMap(map, request.page, request.frame, request.count)
                    /\ ok' = (MapLength(map, request.page, request.count) = request.count)
            /\ request' = NoRequest

UnmapRange == /\ request.op = "unmap"
              /\ IF Refused
                 THEN map' = map /\ ok' = FALSE
                 ELSE /\ map' = AfterUnmap(map, request.page, request.count)
                      /\ ok' = (UnmapLength(map, request.page, request.count) = request.count)
              /\ request' = NoRequest

Next == Ask \/ MapRange \/ UnmapRange

(* Requests are answered: a loop over pages ends. *)
Spec == Init /\ [][Next]_vars /\ WF_vars(MapRange \/ UnmapRange)
=============================================================================
