CONSTANTS
    Kinds = {"keys", "tokens", "externals", "settings"}
    Names = {"a", "b"}
    MaxIds = 3
    None = None
    Nodes = {"a"}
    Models = {"m"}
    Url <- MCUrl
    Allow <- MCAllow
    FailsOffline = 2
SPECIFICATION ExternalSpec
INVARIANTS
    RevokedStaysRevoked
    ErrorsChangeNothing
    SpeedsAreOfTheServer
PROPERTIES
    ImplementsDurableStore
    AnsweringNodesReturn
