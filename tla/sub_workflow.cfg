\* A join as a sub-workflow of an entry node, with one crash or error.
SPECIFICATION FairSubSpec
CONSTANTS
    Nodes <- VNodes
    Inputs <- VInputs
    EntryNodeId = NoNode
    Outputs <- VOutputs
    DelayNodes = {}
    InvalidDelays = {}
    Behaviour <- VBehaviour
    ContinueOnFail = {}
    MaxAttempts = 1
    Retries = {}
    Concurrency = 2
    Guarded = TRUE
    Faults = {"crash", "error"}
    MaxFaults = 1
    NoJob = NoJob
    IsEntry = TRUE
    ContinueFlow = FALSE
INVARIANTS AggregatesAll StartsOnce
PROPERTIES ChildEnds
CHECK_DEADLOCK FALSE
