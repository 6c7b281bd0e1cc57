SPECIFICATION FairSpec
CONSTANTS
    Chains = {k1, k2}
    Slots = {s1, s2}
    NoSlot = NoSlot
    Waiters = {w1}
    SigningLockTTL = 2
    DefaultTTL = 2
    MaxChainFreeWait = 2
INVARIANT TypeOK
PROPERTIES
    LeaseRefined
    WaiterAnswered
    UnattendedChainFrees
