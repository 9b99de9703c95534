CONSTANTS
    Packets = 4
    DestBlocks = 3
    NumMod = 3
    Cap = 2
    Retries = 2
    MaxRetrans = 2
    EotRetries = 2
    MaxFaults = 1
SPECIFICATION Spec
INVARIANTS TypeOK FlashIsPrefix InStep
PROPERTIES DuplicateAckedUnlessWrapped Terminates
CHECK_DEADLOCK FALSE
