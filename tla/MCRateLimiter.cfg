CONSTANTS
    Clients = {c1, c2}
    Burst = 2  Rate = 2  Cost = 3
    BucketTTL = 3
    MaxTime = 7
SPECIFICATION Spec
CHECK_DEADLOCK FALSE
INVARIANTS TypeOK RateBound RefusedOnlyOverRate
PROPERTIES OldBucketsGo
