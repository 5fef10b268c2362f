\* A heap of twelve bytes with headers of two, twelve addresses behind it and
\* eight below: requests of one and three make up to four blocks, the last of
\* which may leave the heap; one of fourteen wraps from offset eight on, one of
\* twenty-six always, to below the heap or into it, and one of thirty-one goes
\* round to its own header.
SPECIFICATION Spec
CONSTANTS
    AddrSpace = 32
    HeapStart = 8
    HeapSize = 12
    HeaderSize = 2
    Sizes = {1, 3, 14, 26, 31}
    MaxBlock = 4
INVARIANTS DisjointWhileIntact LinksFollowSizes
PROPERTIES GrowsOnlyWhenNothingFits FreeKeepsLinks OnlyHugeWraps
CHECK_DEADLOCK FALSE
