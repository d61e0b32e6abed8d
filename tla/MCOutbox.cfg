\* What becomes of the rows: two calls, passes, a night, one loss.
SPECIFICATION Spec
CONSTANTS
    u1 = u1  u2 = u2  ph = ph  android = android  ios = ios  desk = desk
    k1 = k1  c1 = c1  c2 = c2
    Nobody = Nobody  NoKey = NoKey
    Users <- TwoUsers
    Phones = {}
    Browsers <- OnlyDesk
    KindOf <- KindOfAll
    Keys <- OneKey
    Calls <- EitherWay
    Tests <- TestHere
    Setups <- AllOrNothing
    Last = 3
    Night <- TheSecondMoment
    Batch = 1
    Keep = 2
    Carriers <- TwoCarriers
    MaxRows = 2
    MaxCalls = 2
    MaxEdits = 0
    MaxLost = 1
INVARIANTS TypeOK HeldTillMorning
PROPERTIES KeepsLedger EveryRowSettles
CHECK_DEADLOCK FALSE
