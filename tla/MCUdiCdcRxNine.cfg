CONSTANTS
    RxBufs = 9
    BufSize = 2
    Highs = {"usb"}
    MaxBytes = 6
    MaxEnables = 2
    Tear = FALSE
SPECIFICATION Spec
PROPERTY InOrder
CHECK_DEADLOCK FALSE
