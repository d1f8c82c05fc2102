CONSTANTS
    Nodes = {"n1"}
    AliasNames = {}
    NoAlias = "none"
    SuspectAfter = 1
    OfflineAfter = 2
    MaxUnsaved = 1
    LateCalls = {"benchmark", "heartbeat"}
    MaxFaults = 4
SPECIFICATION MembershipFairSpec
INVARIANTS
    HeartbeatsAreMeasured
PROPERTIES
    Recovers
    DeadGoesOffline
