SPECIFICATION SyncSpecFair
CONSTANTS
    MaxWrites = 3
INVARIANTS
    NoLostWakeup
    ClosedIsFinal
PROPERTIES
    WritesReachDisk
    DestructorReturns
CHECK_DEADLOCK FALSE
