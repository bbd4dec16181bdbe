CONSTANTS
    None = None
    TestEndpoints = TRUE
    StaticDir = TRUE
    HasTimeout = TRUE
SPECIFICATION FairSpec
CHECK_DEADLOCK FALSE
INVARIANTS ReportsMatchWire OnlyAdmittedCalls SuccessMeansDone
PROPERTIES EveryRequestEnds
