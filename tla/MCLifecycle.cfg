CONSTANTS
    Unset = Unset
    Bad = Bad
    Width = 8
    Requests = {r1, r2}
    MaxSignals = 2
    Second = 4
    Grace = 4
SPECIFICATION FairSpec
CHECK_DEADLOCK FALSE
INVARIANTS TypeOK ProductionIsHardened PartsCanRun NothingCutOff PoolOutlivesUsers PoolNotWedged
PROPERTIES ShutdownEnds
