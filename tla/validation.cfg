SPECIFICATION EvidenceSpec
CONSTANTS
    s1 = s1
    s2 = s2
    c1 = c1
    c2 = c2
    a1 = a1
    a2 = a2
    None = None
    Slots <- MCSlots
    Callers <- MCCallers
    RequestCallers <- AnyCallers
    Attempts = {a1}
    Requests = {r1, r2, r3}
    BeginInputs <- Mixed
    RootKinds = {"source"}
    Ops = {"poll", "submit", "abandon", "validate"}
    SerializedOps = {}
    Faults = {"store", "crash"}
    LateSubmit = FALSE
    MaxCoSignRetries = 1
    EmitFails = TRUE
    Verdicts = {TRUE, FALSE}
CHECK_DEADLOCK FALSE
SYMMETRY Symmetry
INVARIANTS
    EvidenceTypeOK
    AssuranceTruthful
    ValidationBacked
    ReportsMatch
