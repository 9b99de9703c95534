CONSTANTS
    RxBufs = 2
    BufSize = 2
    Highs = {"app"}
    MaxBytes = 6
    MaxEnables = 2
    Tear = TRUE
SPECIFICATION Spec
CHECK_DEADLOCK FALSE
PROPERTY InOrder
