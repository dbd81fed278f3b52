\* The diamond without faults: c throws as often as it is run.
SPECIFICATION Spec
CONSTANTS
    Nodes <- DiamondNodes
    Inputs <- DiamondInputs
    EntryNodeId = "a"
    Outputs <- DiamondOutputs
    DelayNodes = {}
    InvalidDelays = {}
    Behaviour <- DiamondBehaviour
    ContinueOnFail = {"c"}
    MaxAttempts = 2
    Retries = {}
    Concurrency = 2
    Guarded = TRUE
    Faults = {}
    MaxFaults = 0
    NoJob = NoJob
INVARIANT ContinueOnFailContained
CHECK_DEADLOCK FALSE
