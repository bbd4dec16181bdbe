CONSTANTS
    b1 = b1  None = None
    Bookings = {b1}
    Checkouts = {a1, a2}
    Cancels = {c1, c2}
    Releases = {x1}
    Handlers = {h1, h2}
    Of <- OneBooking
    Together <- PairAndOne
    GatewayVoids = TRUE  ProviderFails = TRUE
    Crashes = TRUE  ConsoleRefunds = TRUE
    Simulated = {}
    MaxCopies = 1
CHECK_DEADLOCK FALSE
SPECIFICATION Spec
SYMMETRY AnyCall
INVARIANTS TypeOK ConfirmedIsPaid OrphanHasNoSeats
PROPERTIES LedgerSpec
