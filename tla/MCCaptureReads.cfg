SPECIFICATION FairSpec
CONSTANTS
    k1 = k1 k2 = k2 k3 = k3 x1 = x1 x2 = x2 p1 = p1 p2 = p2
    Calls <- MCCalls
    Retries = 4
    NoResult = NoResult
    Processes = {p1}
    Jobs = {"capture"}
    MaxJobs = 1
    Apart = TRUE
    AccountKeys <- MCThreeKeys
    GroupSize = 2
    Programs = {x1}
    HasLookups = TRUE
    TxSlot = 2
    MaxSlot = 3
    Absent = Absent Torn = Torn Null = Null
INVARIANTS
    CapturedSlotIsLatest
    GivesUpForCause
PROPERTIES
    CommandsEnd
    CommandsMoveOn
CHECK_DEADLOCK FALSE
