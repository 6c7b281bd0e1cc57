SPECIFICATION Spec
CONSTANTS
    s1 = s1
    s2 = s2
    c1 = c1
    c2 = c2
    None = None
    Slots <- MCSlots
    Callers <- MCCallers
    RequestCallers <- MCCallers
    Attempts = {a1}
    Requests = {r1, r2}
    BeginInputs <- PAdESInputs
    RootKinds = {"source"}
    Ops = {"poll", "abandon"}
    SerializedOps = {}
    Faults = {}
    LateSubmit = FALSE
    MaxCoSignRetries = 3
CHECK_DEADLOCK FALSE
INVARIANT AbandonedHoldsNothing
