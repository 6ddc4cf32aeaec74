SPECIFICATION Spec
CONSTANTS
    payer = payer
    peer = peer
    x = x
    y = y
    Null = Null
    Accounts <- MCAccounts
    Lines = {x, y}
    MaxLines = 2
    Executions <- MCExecutions
    MinSimilarity = 95
    MaxCuChange = 1
INVARIANTS
    HighFidelityKeepsToItsRule
CHECK_DEADLOCK FALSE
