SPECIFICATION ArchiveSpec
CONSTANTS
    s1 = s1
    s2 = s2
    c1 = c1
    c2 = c2
    None = None
    Slots <- MCSlots
    Callers <- MCCallers
    RequestCallers <- MCCallers
    Attempts = {a1, a2}
    Requests = {r1, r2}
    Archivers = {x1, x2}
    BeginInputs <- CoSigners
    RootKinds = {"source", "pdf"}
    Ops = {"poll"}
    SerializedOps = {}
    Faults = {}
    LateSubmit = FALSE
    MaxCoSignRetries = 1
SYMMETRY Symmetry
CHECK_DEADLOCK FALSE
INVARIANTS
    ArchiveTypeOK
    ArchiveOutlived
PROPERTY ArchiveInvisible
