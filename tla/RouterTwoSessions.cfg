CONSTANTS
    u1 = u1  u2 = u2
    r1 = r1  r2 = r2  r3 = r3  r4 = r4
    f1 = f1  f2 = f2
    NoSession = NoSession
    NoRow = NoRow
    Torn = Torn
    Requests = {r1, r2, r3}
    Keys = {u1, u2}
    KeyOf <- TwoUsers
    SerialKeys = {}
    Allowed = {u1, u2}
    Backend = "sqlite"
    Slots = {f1, f2}
    SlotOf <- OwnSlots
    Faults = {}
    MaxCrashes = 0
    MaxClears = 0
    MaxMessages = 3
SPECIFICATION Spec
CHECK_DEADLOCK FALSE
INVARIANT OneSession
