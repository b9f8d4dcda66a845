SPECIFICATION Spec
CONSTANTS
    w1 = w1
    w2 = w2
    Workers = {w1, w2}
    Modes = {"managed", "loop"}
    SlowHandlers = FALSE
    MaxFails = 2
    MaxLegs = 3
SYMMETRY WorkerSymmetry
CHECK_DEADLOCK FALSE
INVARIANT PaidOnce
INVARIANT FilledIsPaid
INVARIANT FillIsReserved
INVARIANT ExpiredReleasesOffer
INVARIANT BookedFeeWasCollected
