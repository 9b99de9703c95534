CONSTANTS
    Packets = 2
    DestBlocks = 2
    NumMod = 8
    Cap = 2
    Retries = 2
    MaxRetrans = 2
    EotRetries = 2
    MaxFaults = 0
SPECIFICATION Spec
INVARIANT SuccessMeansReceived
CHECK_DEADLOCK FALSE
