CONSTANTS
    TSize = 10
    ByteBits = 4
    PageSize = 2
    AddrSpace = 32
    DmaPages = 4
    BootInfos <- MCBootInfos
    Requests <- MCRequests
    Callers = {c1, c2, c3}
SPECIFICATION Spec
INVARIANTS
    ExactAccounting
    NoSharing
    ReservedNeverHeld
PROPERTY
    OverrunOnlyWhenNothingFits
