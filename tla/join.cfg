\* A diamond with a branch and a join, which is a delay node, on two worker slots,
\* with up to two crashes or errors.
SPECIFICATION Spec
CONSTANTS
    Nodes <- DiamondNodes
    Inputs <- DiamondInputs
    EntryNodeId = "a"
    Outputs <- DiamondOutputs
    DelayNodes = {"d"}
    InvalidDelays = {}
    Behaviour <- DiamondBehaviour
    ContinueOnFail = {"c"}
    MaxAttempts = 2
    Retries = {}
    Concurrency = 2
    Guarded = TRUE
    Faults = {"crash", "error"}
    MaxFaults = 2
    NoJob = NoJob
INVARIANTS TypeOK ParentsBeforeChildren LockExclusive CompletedOnce QuietMeansResolved
CHECK_DEADLOCK FALSE
