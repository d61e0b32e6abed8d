\* Any three requests or failures, the coordinator's changes beside each of them.
SPECIFICATION Spec
CONSTANTS
    g1 = g1  g2 = g2  r1 = r1  r2 = r2
    Overseer = Overseer  NoOne = NoOne
    MaxEntries = 6
    Weeks = 2
    Guests = {g1, g2}
    Requests = {r1, r2}
    Operations <- MCOperations
    Setups <- MCSetups
    MaxUsed = 3
INVARIANTS TypeOK OneGuestAWeek MismatchHasCause RoundTrip
PROPERTIES GuestComesBack ReplacementWhole
CHECK_DEADLOCK FALSE
