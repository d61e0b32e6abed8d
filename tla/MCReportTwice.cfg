\* A frozen month confirmed after the next month took its late report in.
SPECIFICATION Spec
CONSTANTS
    p1 = p1  p2 = p2  q1 = q1  q2 = q2  night = night
    Publishers <- TwoPublishers
    Months = 2
    Reach = 12
    Requests <- OneRequest
    Nightly = night
    Operations <- FilingAndClosing
    Setups <- OneReported
    MaxUsed = 3
INVARIANTS CountedOnce
CHECK_DEADLOCK FALSE
