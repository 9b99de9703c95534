CONSTANTS
    RxBufs = 2
    BufSize = 2
    Highs = {"usb", "app"}
    MaxBytes = 6
    MaxEnables = 2
    Tear = FALSE
SPECIFICATION Spec
INVARIANTS TypeOK NoOverwrite RingInv
PROPERTIES InOrder AllRead
CHECK_DEADLOCK FALSE
