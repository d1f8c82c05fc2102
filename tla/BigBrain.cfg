SPECIFICATION BigBrainSpec
CONSTANTS
    None = None
    a = a
    b = b
    c = c
    alias = alias
    m = m
    NumPools = 2
    Names <- MCNames
    NodeOf <- MCNodeOf
    Requests <- MCRequests
    Restless = {b}
    Models = {m}
INVARIANTS OwnHeadAnswers OneBrainPerPhone
PROPERTIES RemovedHeadsEnd DeadHeadsAreNotOffered
