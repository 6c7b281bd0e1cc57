SPECIFICATION FairSpec
CONSTANTS
    r1 = r1
    r2 = r2
    r3 = r3
    Requests = {r1, r2, r3}
    Deployments <- AllDeployments
    OutboxCapacity = 2
    MaxStarts = 3
    BrokerFaults = {"away", "slow"}
INVARIANTS
    TypeOK
    CreatedKept
    ConductorComplete
    EvidenceKept
    StopDelivers
PROPERTIES
    SpoolDelivered
CHECK_DEADLOCK FALSE
