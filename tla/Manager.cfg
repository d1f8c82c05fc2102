CONSTANTS
    Models = {"a", "b"}
    Versions = {"v1"}
    Wishes <- SomeWishes
    Configs <- SomeConfigs
    Nothing = Nothing
    RPC = RPC
    Release = Release
    MaxCrashes = 1
SPECIFICATION ManagerFairSpec
INVARIANTS
    OneServer
    ViewIsTrue
    KeepsServing
    ReportIsTrue
PROPERTY Converges
