CONSTANTS
    Showtimes = {s1, s2}
    Seats = {x1}
    Contested = {s1}
    None = None
    Failed = Failed
    Wires = {u1}
    PollWires = {poll}
    HoldTTL = 2
    PaymentWindow = 3
    Second = 2
    MaxTime = 3
    MaxBookings = 1
    MaxPays = 1
SPECIFICATION FairSpec
CHECK_DEADLOCK FALSE
INVARIANTS CountdownIsHonest
PROPERTIES GridCatchesUp
