\* Three calls on an execution of two nodes, with a pool of three connections.
SPECIFICATION FairSpec
CONSTANTS
    Nodes = {"m", "n"}
    Calls = {c1, c2, c3}
    Operations <- VOperations
    Connections = 3
    c1 = c1
    c2 = c2
    c3 = c3
INVARIANTS FailuresAreWhole CompletedHasAllResults
PROPERTIES AloneCompletes EveryCallReturns
CHECK_DEADLOCK FALSE
