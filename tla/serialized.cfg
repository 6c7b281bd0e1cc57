SPECIFICATION Spec
CONSTANTS
    s1 = s1
    s2 = s2
    c1 = c1
    c2 = c2
    None = None
    Slots <- MCSlots
    Callers <- MCCallers
    RequestCallers <- MCCallers
    Attempts = {a1, a2}
    Requests = {r1, r2, r3}
    BeginInputs <- SigningInputs
    RootKinds = {"source", "pdf", "container"}
    Ops = {"poll", "submit", "abandon"}
    SerializedOps = {"poll", "submit", "abandon"}
    Faults = {"collab", "lapse"}
    LateSubmit = FALSE
    MaxCoSignRetries = 1
CHECK_DEADLOCK FALSE
SYMMETRY Symmetry
INVARIANTS
    OneRecordPerJob
    StoredIsRecorded
    LockAccounted
PROPERTY JobRefined
