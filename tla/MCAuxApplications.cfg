\* Any two requests or failures beside the nightly round.
SPECIFICATION Spec
CONSTANTS
    Users <- Everybody
    Seats <- Committee
    Apps = 2
    Months = 2
    Moments = 2
    MonthAt <- Calendar
    Choices <- JustOne
    q1 = q1  q2 = q2
    Requests <- TwoRequests
    Nightly = Nightly
    Operations <- AnyBesideAnswers
    Setups <- AllSetups
    MaxUsed = 2
    Nobody = Nobody
INVARIANTS TypeOK ApprovedByTheCommittee ServedAsApproved
PROPERTIES AnsweredIsSettled
CHECK_DEADLOCK FALSE
