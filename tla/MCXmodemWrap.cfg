CONSTANTS
    Packets = 4
    DestBlocks = 4
    NumMod = 4
    Cap = 1
    Retries = 2
    MaxRetrans = 2
    EotRetries = 2
    MaxFaults = 0
SPECIFICATION Spec
PROPERTY DuplicateAcked
CHECK_DEADLOCK FALSE
