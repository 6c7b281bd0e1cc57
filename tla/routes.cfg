SPECIFICATION Spec
CONSTANTS
    Logins <- MCLogins
    Flows <- MCFlows
    UpstreamStatuses <- MCStatuses
INVARIANTS
    TypeOK
    SuccessMeansDone
    TablesAgree
    
CHECK_DEADLOCK FALSE
