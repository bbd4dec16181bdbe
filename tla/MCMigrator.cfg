CONSTANTS
    Replicas = {r1, r2, r3}
    NoOne = NoOne
    Releases = {1, 3}
    MaxRestarts = 1
SPECIFICATION FairSpec
CHECK_DEADLOCK FALSE
INVARIANTS TypeOK LastGoodVersion NoRace ServesMigrated
PROPERTIES EveryStartEnds
