\* Any two requests or failures beside the nightly pass, on three days before the month and in it.
SPECIFICATION Spec
CONSTANTS
    ann = ann  boris = boris  group = group
    Brothers <- TwoBrothers
    Nobody = Nobody
    ByHand = ByHand
    Days <- TwoDays
    Kinds <- TheGroup
    Template <- BothDays
    PrepareDay = 0
    PublishDay = 1
    First = 2
    Policy = "publish_7d"
    q1 = q1  q2 = q2
    Requests <- TwoRequests
    Nightly = Nightly
    Operations <- AnyBesideOverseers
    Setups <- ThreeMonths
    MaxMeetings = 4
    MaxUsed = 2
INVARIANTS TypeOK ConductorsKnow MadeOnce
PROPERTIES DraftsGoOut
CHECK_DEADLOCK FALSE
