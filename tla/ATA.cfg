\* ATA::Init, then any sequence of Read28 calls of one to three sectors, and
\* one Write28 call among them, on a drive of four sectors of three words,
\* addressed by two registers.
SPECIFICATION Spec
CONSTANTS
    Registers = 2
    Base = 2
    Words = 3
    MaxCount = 3
    MaxWrites = 1
INVARIANTS InStep SectorMovedWhole ReadReturnsSectors FailureIsReal
PROPERTY CallReturns
