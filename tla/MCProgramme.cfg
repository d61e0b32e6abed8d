\* One request after another, with the minute job, the digest and one loss.
SPECIFICATION Spec
CONSTANTS
    b1 = b1  b2 = b2  chair = chair  pray = pray  r1 = r1
    Nobody = Nobody  Minute = Minute  Evening = Evening
    Parts <- TwoParts
    Chairman = chair
    Prayer = pray
    Brothers <- TwoBrothers
    Capable <- TwoBrothers
    Last = 5
    Soon = 3
    Begins = 4
    HeldFrom = 5
    Quiet <- Night
    EveningOf <- Evenings
    Ahead <- TheEvening
    Recall <- TheEvening
    HoldAt <- Eighteen
    Settle = 1
    SoonSettle = 0
    Setups <- HisOwn
    Requests <- OneRequest
    MaxUsed = 2
INVARIANTS TypeOK ToldUnlessFlagged BelieversAreMarked KnowsOnTheDay
PROPERTIES FlagsSettle
CHECK_DEADLOCK FALSE
