\* Two months, and a sheet looks one month back: a request beside the nightly round, failures.
SPECIFICATION Spec
CONSTANTS
    p1 = p1  p2 = p2  q1 = q1  q2 = q2  night = night
    Publishers <- TwoPublishers
    Months = 2
    Reach = 1
    Requests <- TwoRequests
    Nightly = night
    Operations <- AnyBesideClose
    Setups <- OneReported
    MaxUsed = 3
INVARIANTS TypeOK CountedOnceUnlessAbsorbed NoneIsPassedBy ClosedIsSent NoHalfState
PROPERTIES AppNeverOverwrites LateReportsGo
CHECK_DEADLOCK FALSE
