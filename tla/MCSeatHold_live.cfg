CONSTANTS
    Requests = {r1, r2, r3}
    r1 = r1  r2 = r2  alice = alice  bob = bob  k = k
    evening = evening  matinee = matinee  gala = gala  nowhere = nowhere
    NoKey = NoKey  NoUser = NoUser  NoBooking = NoBooking
    Inputs <- MixedInputs
    Traffic <- MixedTraffic
    Showtimes <- ThreeShows
    Hall <- TwoSeats
    StartsAt <- Late
    Called_off <- GalaIsOff
    HoldTTL = 2  PaymentWindow = 2  BookingCutoff = 1  RequestTimeout = 1
    MaxSeatsPerBooking = 2  SweepBatch = 1  HoldMaxAttempts = 2
    MaxTime = 2
SPECIFICATION FairSpec
CHECK_DEADLOCK FALSE
PROPERTIES EveryCallAnswered LapsedHoldsGo
