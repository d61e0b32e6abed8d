\* Any two requests of any kind, through the whole life of the week.
SPECIFICATION Spec
CONSTANTS
    p1 = p1  p2 = p2  guest = guest
    d1 = d1  d2 = d2
    q1 = q1  q2 = q2  q3 = q3
    NoPlace = NoPlace
    Guest = guest
    People <- OnePerson
    Days <- TwoDays
    DateOf <- SameDate
    PlaceOf <- EachItsPlace
    Slots = 3
    MinSpan = 2
    CapacityMax = 1
    CorrectionDays = 0
    Spans <- EarlyAndLate
    Moments <- Locking
    Requests <- TwoRequests
    Operations = {"build", "assign", "update", "remove", "cancelMine", "request", "callOff", "putBack", "updateDay", "deleteDay", "open", "publish", "deleteWeek"}
    MaxPlaces = 2
    MaxWishes = 1
    MaxOff = 1
    MaxJobs = 2
INVARIANTS TypeOK
PROPERTIES RequestsFinish
CHECK_DEADLOCK FALSE
