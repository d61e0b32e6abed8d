\* Devices that change hands or go while a message is delivered.
SPECIFICATION Spec
CONSTANTS
    u1 = u1  u2 = u2  ph = ph  android = android  ios = ios  desk = desk
    k1 = k1  c1 = c1  c2 = c2
    Nobody = Nobody  NoKey = NoKey
    Users <- TwoUsers
    Phones <- OnePhone
    Browsers <- AllKinds
    KindOf <- KindOfAll
    Keys <- OneKey
    Calls <- One
    Tests <- NoTest
    Setups <- AllMine
    Last = 1
    Night = {}
    Batch = 1
    Keep = 1
    Carriers <- OneCarrier
    MaxRows = 1
    MaxCalls = 1
    MaxEdits = 3
    MaxLost = 1
INVARIANTS StepsDown OnePersonAPhone BrowserIsTheLastUsers
PROPERTIES DeadPhonesGo
CHECK_DEADLOCK FALSE
