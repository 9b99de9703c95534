CONSTANTS
    b1 = b1
    b2 = b2
    b3 = b3
    b4 = b4
    Old = old
    Fill = b4
    Blocks <- MCBlocks
    Heads <- SmallHeads
    AppPages = 3
    ErasedPages = 2
    LockPages = 1
    MaxFrame = 2
    IndexMod = 4
    EraseAttempts = 5
    MaxFaults = 1
    MaxHeads = 2
    TraceEn = TRUE
SPECIFICATION Spec
INVARIANTS TypeOK EndMeansProgrammed AckedDataIsInFlash GuardedImage SessionInv
PROPERTY FrameAnswered
