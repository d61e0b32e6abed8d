\* Requests that change the plan at the same time, three in all, and the week around it.
SPECIFICATION Spec
CONSTANTS
    p1 = p1  p2 = p2  guest = guest
    d1 = d1  d2 = d2
    q1 = q1  q2 = q2  q3 = q3
    NoPlace = NoPlace
    Guest = guest
    People <- TwoPeople
    Days <- TwoDays
    DateOf <- SameDate
    PlaceOf <- EachItsPlace
    Slots = 3
    MinSpan = 2
    CapacityMax = 1
    CorrectionDays = 0
    Spans <- EarlyAndLate
    Moments <- UnderWay
    Requests <- ThreeRequests
    Operations = {"assign", "update", "remove", "cancelMine", "deleteDay", "callOff", "putBack", "publish", "deleteWeek"}
    MaxPlaces = 2
    MaxWishes = 0
    MaxOff = 1
    MaxJobs = 3
SYMMETRY Symmetric
INVARIANTS ToldOfHisTime
PROPERTIES RotaSpec ArchiveFixed PlanKept
CHECK_DEADLOCK FALSE
