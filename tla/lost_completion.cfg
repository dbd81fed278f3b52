\* The diamond on two worker slots, no faults and no failures: the completion check is lost.
SPECIFICATION FairSpec
CONSTANTS
    Nodes <- DiamondNodes
    Inputs <- DiamondInputs
    EntryNodeId = "a"
    Outputs <- DiamondOutputs
    DelayNodes = {}
    InvalidDelays = {}
    Behaviour <- DiamondReliable
    ContinueOnFail = {}
    MaxAttempts = 2
    Retries = {}
    Concurrency = 2
    Guarded = TRUE
    Faults = {}
    MaxFaults = 0
    NoJob = NoJob
PROPERTIES EventuallyCompleted
CHECK_DEADLOCK FALSE
