SPECIFICATION FairSpec
CONSTANTS
    NoTab = NoTab
    Tabs = {t1}
    Workers = {w1, w2}
    MaxAttempts = 1
    MaxFails = 2
CHECK_DEADLOCK FALSE
INVARIANT SecretKept
PROPERTY RetryIsClean
PROPERTY RecordWorkedOff
