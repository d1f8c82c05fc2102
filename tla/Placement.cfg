CONSTANTS
    small = small
    big = big
    None = None
    Models = {small, big}
    Nodes = {1, 2}
    IdOrder <- MCIdOrder
    Resident <- MCResident
    Sparse <- MCSparse
    PerCtx <- MCPerCtx
    CtxTrain <- MCCtxTrain
    RAM <- MCRAM
    Budget <- MCBudget
    Bandwidth <- MCBandwidth
    Preference <- MCPreference
    ClassRAM <- MCClassRAM
    MinTokS = 1
    Specs <- MCSpecs
    Changing = {big}
    Attended = {2}
    Benchmarks = {{1, 2}}
    MaxEvents = 3
SPECIFICATION PlacementSpec
INVARIANTS
    PlanIsStable
    NodesAreGivenBack
PROPERTIES
    BenchmarksEnd
