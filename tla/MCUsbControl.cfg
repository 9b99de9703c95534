SPECIFICATION Spec
CONSTANTS
    dFull = dFull
    dLong = dLong
    rate = rate
    slow = slow
    NoItem = NoItem
    Codings = {rate, slow}
    Default = rate
    Size <- MCSize
    Requests <- MCRequests
    CountMod = 2
    MaxFaults = 1
INVARIANTS TypeOK NotStalled HostReads AddressAgrees CodingApplied ConfigAgrees InStep
PROPERTIES RequestEnds
