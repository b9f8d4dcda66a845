SPECIFICATION FairSpec
CONSTANTS
    alice = alice
    solver = solver
    w1 = w1
    Addr = {alice, solver}
    MaxLocks = 1
    MaxTime = 6
    MaxWrap = 2
    CantonUnlock = 2
    Workers = {w1, w2}
    w2 = w2
    User = alice
    Solver = solver
    WbtcAmount = 1
    UserTimelock = 6
    SolverTimelock = 3
    UnlockLead = 1
    AllocLead = 1
    Margin = 2
    BindTol = 1
    DraftTTL = 1
    Skew = 1
    LockTimes = {6}
    LockAmounts = {1}
    LockReceivers = {solver}
    MaxFails = 1
    Cleanup = TRUE
    Reorgs = TRUE
CHECK_DEADLOCK FALSE
PROPERTY FloatFreed
PROPERTY SettlementRecorded
PROPERTY RecordedReleaseCovered
