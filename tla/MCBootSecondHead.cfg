CONSTANTS
    b1 = b1
    b2 = b2
    b3 = b3
    b4 = b4
    Old = old
    Fill = b4
    Blocks <- MCBlocks
    Heads <- RepeatingHeads
    AppPages = 3
    ErasedPages = 2
    LockPages = 1
    MaxFrame = 2
    IndexMod = 4
    EraseAttempts = 5
    MaxFaults = 0
    MaxHeads = 2
    TraceEn = FALSE
SPECIFICATION Spec
INVARIANT EndMeansProgrammed
