SPECIFICATION Spec
CONSTANTS
    payer = payer
    peer = peer
    x = x
    y = y
    Null = Null
    Accounts <- MCAccounts
    Lines = {x, y}
    MaxLines = 4
    Executions <- MCExecutions
    MinSimilarity = 60
    MaxCuChange = 1
INVARIANTS
    TypeOK
    RowIsLcs
    AcceptedMeansSameState
    IdenticalIsExact
PROPERTY
    ImplementsVerdict
CHECK_DEADLOCK FALSE
