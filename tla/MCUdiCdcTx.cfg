CONSTANTS
    BufSize = 2
    FrameMod = 2
    ZlpLimit = 2
    Highs = {"usb", "app"}
    MaxBytes = 5
    MaxEnables = 2
    Tear = FALSE
SPECIFICATION Spec
INVARIANTS TypeOK SpaceStays NoWriteToSending TxInv
PROPERTIES InOrder AllSent
CHECK_DEADLOCK FALSE
