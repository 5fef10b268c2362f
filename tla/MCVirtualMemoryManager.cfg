CONSTANTS
    PageSize = 2
    EntryCount = 2
    DirCount = 4
    FirstKernelDir = 2
    KernelPhysical = 2
    KernelPages = 1
    Calls <- MCCalls
SPECIFICATION Spec
INVARIANTS
    TLBCoherent
    KernelStaysMapped
    NotPresentIsZero
PROPERTY
    ImplementsAddressSpace
