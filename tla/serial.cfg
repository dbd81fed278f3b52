\* The diamond on one worker slot, no faults, with two shutdowns and restarts.
SPECIFICATION ShutSpec
CONSTANTS
    Nodes <- DiamondNodes
    Inputs <- DiamondInputs
    EntryNodeId = "a"
    Outputs <- DiamondOutputs
    DelayNodes = {}
    InvalidDelays = {}
    Behaviour <- DiamondBehaviour
    ContinueOnFail = {}
    MaxAttempts = 2
    Retries = {}
    Concurrency = 1
    Guarded = TRUE
    Faults = {}
    MaxFaults = 0
    NoJob = NoJob
    MaxShutdowns = 2
PROPERTIES EndsUnlessCut
CHECK_DEADLOCK FALSE
