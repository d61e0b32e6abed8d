\* A line removed, its week changed in the journal, the line put back.
SPECIFICATION Spec
CONSTANTS
    g1 = g1  g2 = g2  r1 = r1  r2 = r2
    Overseer = Overseer  NoOne = NoOne
    MaxEntries = 5
    Weeks = 2
    Guests = {g1, g2}
    Requests = {r1}
    Operations <- MCOperations
    Setups <- OnlyAgreed
    MaxUsed = 3
INVARIANTS LineShowsTheJournal
CHECK_DEADLOCK FALSE
