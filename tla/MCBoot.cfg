CONSTANTS
    EntryCount = 16
    DirCount = 10
    FirstKernelDir = 2
    LoaderStart = 3
    KernelPhysical = 8
    VideoPage = 1
    DmaPages = 64
    HeapPages = 20
    TSize = 112
    ByteBits = 4
    InfoPages = {0, 2}
    Maps <- MCMaps
SPECIFICATION BootSpec
INVARIANTS
    NothingFaults
    HandedOver
    HeapIsOwnMemory
PROPERTY
    BootReachesDisk
CHECK_DEADLOCK FALSE
