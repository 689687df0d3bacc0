SPECIFICATION FairSpec
CONSTANTS
    Infra <- MCInfra
    MaxNonce = 2
    MaxCommit = 2
    MaxCrashes = 1
INVARIANTS NothingForgotten DispatchedRunIsExact
PROPERTIES NeverAskedTwice DestroyCompletes
CHECK_DEADLOCK FALSE
