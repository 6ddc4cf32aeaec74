SPECIFICATION FairSpec
CONSTANTS
    c1 = c1 c2 = c2 c3 = c3 s1 = s1 s2 = s2 a1 = a1 a2 = a2 x1 = x1 o1 = o1 p1 = p1 p2 = p2
    Signatures = {s1, s2}
    SignatureOf <- MCSignatureOf
    EligibilityOf <- MCEligibilityOf
    AccountFiles = {a1, a2}
    ProgramFiles = {}
    AccountsOf <- MCAccountsOf
    ProgramsOf <- MCProgramsOf
    OutFiles = {o1}
    PinnedRuntime = "litesvm-0.15.2"
    Default = Default Absent = Absent Torn = Torn None = None
    Captures = {c1, c2}
    Runtimes = {"litesvm-0.15.2"}
    Processes = {p1, p2}
    Jobs <- EndingJobs
    MaxCommands = 2
    Exclusion = "alone"
PROPERTIES
    CommandsEnd
    CommandsMoveOn
CHECK_DEADLOCK FALSE
