SPECIFICATION Spec
CONSTANTS
    alice = alice
    bob = bob
    src = src
    dst = dst
    mint = mint
    other = other
    v1 = v1
    v2 = v2
    System = System
    Token = Token
    ComputeBudget = ComputeBudget
    Loader = Loader
    WrappedSol = WrappedSol
    Nothing = Nothing
    Accounts <- MCAccounts
    Programs <- MCPrograms
    RuntimePrograms <- MCRuntimePrograms
    Upgradeable <- MCUpgradeable
    Bytes <- MCBytes
    States <- MCStates
    Ledgers <- MCLedgers
    Transactions <- MCTransactions
    Chunks <- MCChunks
    MaxChanges = 2
    MaxCaptures = 2
INVARIANTS
    TypeOK
    SupportedInputsAreHistorical
    RecaptureIsStable
PROPERTY
    RecoverableIsSupported
CHECK_DEADLOCK FALSE
