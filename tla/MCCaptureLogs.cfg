SPECIFICATION ReusedSpec
CONSTANTS
    k1 = k1 k2 = k2 k3 = k3 x1 = x1 x2 = x2 p1 = p1 p2 = p2
    Calls <- MCCalls
    Retries = 0
    NoResult = NoResult
    Processes = {p1}
    Jobs = {"inspect", "bundle"}
    MaxJobs = 2
    Apart = TRUE
    AccountKeys <- MCOneKey
    GroupSize = 1
    Programs = {x1}
    HasLookups = FALSE
    TxSlot = 2
    MaxSlot = 2
    Absent = Absent Torn = Torn Null = Null
INVARIANTS
    BundledLogsAreWhole
CHECK_DEADLOCK FALSE
