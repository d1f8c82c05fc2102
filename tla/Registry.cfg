CONSTANTS
    Nodes = {"n1", "n2"}
    AliasNames = {"n2"}
    NoAlias = "none"
    SuspectAfter = 1
    OfflineAfter = 2
    MaxUnsaved = 2
SPECIFICATION FairSpec
INVARIANTS
    ActiveIsBenchmarked
    LatenessIsReal
    NamesAreUnambiguous
    FileIsCurrent
PROPERTY SilentGoesOffline
