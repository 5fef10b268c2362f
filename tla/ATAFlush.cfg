\* ATA::Init, then calls of Read28 and one of Write28, of one or two sectors, on a
\* drive of four sectors of two words, addressed by two registers.
SPECIFICATION Spec
CONSTANTS
    Registers = 2
    Base = 2
    Words = 2
    MaxCount = 2
    MaxWrites = 1
INVARIANT FlushedAfterWrite
