CONSTANTS
    Nodes = {"a", "b", "c"}
    Requests = {1}
    NoNode = "none"
    ToolNodes = {"b"}
    MaxAttempts = 2
    Inputs <- MixedInputs
    CtxSize <- MixedContexts
    MaxConcurrency <- Uncapped
SPECIFICATION ReaperSpec
INVARIANTS
    EveryRequestIsAccounted
PROPERTIES
    LostNodesAreReleased
    RequestsEnd
