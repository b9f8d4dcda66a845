SPECIFICATION Spec
CONSTANTS
    alice = alice
    solver = solver
    w1 = w1
    w2 = w2
    mallory = mallory
    Addr = {alice, mallory, solver}
    MaxLocks = 2
    MaxTime = 7
    MaxWrap = 2
    CantonUnlock = 2
    Workers = {w1, w2}
    User = alice
    Solver = solver
    WbtcAmount = 2
    UserTimelock = 6
    SolverTimelock = 3
    UnlockLead = 1
    AllocLead = 1
    Margin = 2
    BindTol = 1
    DraftTTL = 1
    Skew = 1
    LockTimes = {2, 5}
    LockAmounts = {1, 2}
    LockReceivers = {mallory, solver}
    MaxFails = 2
    Cleanup = FALSE
    Reorgs = FALSE
SYMMETRY WorkerSymmetry
CHECK_DEADLOCK FALSE
INVARIANT WbtcAfterCbtc
INVARIANT RowEvidenceTrue
INVARIANT CancelledUnfunded
INVARIANT CounterLockedFunded
PROPERTY CbtcReleaseCovered
PROPERTY CbtcReserveCovered
PROPERTY ImplementsSwap
PROPERTY SettledStays
