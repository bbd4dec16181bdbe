CONSTANTS
    b1 = b1  None = None
    Bookings = {b1}
    Checkouts = {a1}
    Cancels = {c1}
    Releases = {}
    Handlers = {h1}
    Of <- OneBooking
    Together <- All
    GatewayVoids = TRUE  ProviderFails = FALSE
    Crashes = FALSE  ConsoleRefunds = FALSE
    Simulated = {}
    MaxCopies = 1
CHECK_DEADLOCK FALSE
SPECIFICATION Spec
PROPERTIES MoneyBackBeforeSeats
