CONSTANTS
    PhysSize = 7
    VirtSize = 4
    ByteBits = 4
    VPages = 14
    VStart = 8
    Window <- MCWindow
    Boots <- MCBoots
    Requests <- MCRequests
    Callers = {c1, c2, c3}
SPECIFICATION Spec
INVARIANTS
    LiveMapped
    LiveDisjoint
    LockstepUntilOverrun
PROPERTY
    FreeUnmapsAll
