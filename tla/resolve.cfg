SPECIFICATION Spec
CONSTANTS
    e1 = e1
    e2 = e2
    e3 = e3
    d1 = d1
    d2 = d2
    a1 = a1
    a2 = a2
    a3 = a3
    None = None
    Envelopes <- MCEnvelopes
    Roots <- MCRoots
    RootOf <- SharedRoot
    Attempts <- MCAttempts
    EnvelopeOf <- TwoOfOne
    Wired = {a1, a2}
    Unreadable = TRUE
CHECK_DEADLOCK FALSE
INVARIANTS
    TypeOK
    SignsLiveHead
PROPERTY NoSignatureLost
