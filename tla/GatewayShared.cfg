CONSTANTS
    a = a
    b = b
    r1 = r1
    r2 = r2
    none = none
    Nodes = {a, b}
    Requests = {r1, r2}
    NoNode = none
    ToolNodes = {}
    MaxAttempts = 2
    Inputs <- AutoInputs
    CtxSize <- UnknownContexts
    MaxConcurrency <- OneAtATime
SYMMETRY Symmetry
SPECIFICATION GatewaySpec
INVARIANTS
    InflightIsExact
    OneVoice
    CapIsKept
