CONSTANTS
    Requests = {r1, r2, r3}
    r1 = r1  r2 = r2  alice = alice  bob = bob  k = k
    evening = evening  matinee = matinee  gala = gala  nowhere = nowhere
    NoKey = NoKey  NoUser = NoUser  NoBooking = NoBooking
    Inputs <- RaceInputs
    Traffic <- AnyTraffic
    Showtimes <- OneShow
    Hall <- TwoSeats
    StartsAt <- Late
    Called_off = {}
    HoldTTL = 2  PaymentWindow = 2  BookingCutoff = 1  RequestTimeout = 1
    MaxSeatsPerBooking = 2  SweepBatch = 1  HoldMaxAttempts = 2
    MaxTime = 2
SPECIFICATION Spec
SYMMETRY AnyRequest
CHECK_DEADLOCK FALSE
INVARIANTS TypeOK OneActiveClaim SeatsMatchStatus OneBookingPerKey ReplayFindsWinner OneStory DeadlockNeedsLapse
PROPERTIES Lifecycle RefusedOnlyIfTaken LedgerSpec
