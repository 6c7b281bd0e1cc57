SPECIFICATION Spec
CONSTANTS
    s1 = s1
    s2 = s2
    c1 = c1
    c2 = c2
    None = None
    Slots <- MCSlots
    Callers <- MCCallers
    RequestCallers <- MCCallers
    Attempts = {a1, a2}
    Requests = {r1, r2}
    BeginInputs <- MixedInputs
    RootKinds = {"source"}
    Ops = {"poll", "submit", "abandon", "validate"}
    SerializedOps = {}
    Faults = {"collab", "store", "lostReply", "crash", "lapse"}
    LateSubmit = TRUE
    MaxCoSignRetries = 1
CHECK_DEADLOCK FALSE
SYMMETRY Symmetry
INVARIANTS
    TypeOK
    RecordsBacked
    CompletedRecorded
    BindingHonoured
    PDFRecordedOnce
PROPERTIES
    ChainKeepsSignatures
    OnlyOwnSlotFrees
    CallsBounded
