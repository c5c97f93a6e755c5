CONSTANTS
    u1 = u1  u2 = u2
    r1 = r1  r2 = r2  r3 = r3  r4 = r4
    f1 = f1  f2 = f2
    NoSession = NoSession
    NoRow = NoRow
    Torn = Torn
    Requests = {r1, r2, r3}
    Keys = {u1, u2}
    KeyOf <- OneUser
    SerialKeys = {u1, u2}
    Allowed = {u1, u2}
    Backend = "postgres"
    Slots = {f1, f2}
    SlotOf <- OwnSlots
    Faults = {"crash", "load"}
    MaxCrashes = 1
    MaxClears = 0
    MaxMessages = 4
SPECIFICATION Spec
CHECK_DEADLOCK FALSE
PROPERTY PersistedAdvances
