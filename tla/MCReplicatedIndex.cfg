SPECIFICATION FairSpec
CONSTANTS
    s1 = s1
    s2 = s2
    None = None
    Server <- MCServer
    MaxLog = 3
    MaxRestarts = 1
CHECK_DEADLOCK FALSE
INVARIANTS TypeOK TablesAreReplay DefaultIsLatest AckedIsDurable PurgedIsApplied
PROPERTIES NeverBack KeepsReplay EveryoneCatchesUp
