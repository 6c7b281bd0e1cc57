SPECIFICATION FairCoSigners
CONSTANTS
    s1 = s1
    s2 = s2
    c1 = c1
    c2 = c2
    a1 = a1
    a2 = a2
    None = None
    Slots <- MCSlots
    Callers <- MCCallers
    RequestCallers <- MCCallers
    Attempts = {a1, a2}
    Requests = {r1, r2}
    BeginInputs <- Mixed
    RootKinds = {"source"}
    Ops = {"poll"}
    SerializedOps = {}
    Faults = {}
    LateSubmit = FALSE
    MaxCoSignRetries = 3
    EmitFails = FALSE
    Verdicts = {TRUE}
CHECK_DEADLOCK FALSE
PROPERTIES
    HandlersEnd
    CompletedTold
    ValidationReported
