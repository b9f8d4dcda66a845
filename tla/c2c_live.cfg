SPECIFICATION FairSpec
CONSTANTS
    w1 = w1
    Workers = {w1}
    Modes = {"managed", "loop"}
    SlowHandlers = FALSE
    MaxFails = 3
    MaxLegs = 3
CHECK_DEADLOCK FALSE
PROPERTY ManagedFillRecorded
PROPERTY AcceptNoticed
PROPERTY OutboxDrains
