CONSTANTS
    b1 = b1  None = None
    Bookings = {b1}
    Checkouts = {a1, a2}
    Cancels = {}
    Releases = {}
    Handlers = {h1, h2}
    Of <- OneBooking
    Together <- All
    GatewayVoids = FALSE  ProviderFails = FALSE
    Crashes = FALSE  ConsoleRefunds = FALSE
    Simulated = {a1}
    MaxCopies = 2
CHECK_DEADLOCK FALSE
SPECIFICATION FairSpec
INVARIANTS OneRefundPerEvent
PROPERTIES MoneyFollowsSeats
