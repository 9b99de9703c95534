SPECIFICATION Spec
CONSTANTS
    c1 = c1
    c2 = c2
    NoCard = NoCard
    NoCommand = NoCommand
    Junk = Junk
    Cards = {c1, c2}
    Blocks = {0, 1, 2}
    Data = {0, 1}
    Contents <- MCContents
    NoTag = NoTag
    Tags = {1}
    Commands <- MCCommands
    Transfers = {"cbw", "block", "data", "csw"}
    Waiting = {"wait_cbw", "wait_csw", "wait_invalid"}
INVARIANTS TypeOK PhasesAgree InvalidHolds ReadyForNext Transport InCustody
PROPERTIES ResidueExact IsBlockDevice Answered
