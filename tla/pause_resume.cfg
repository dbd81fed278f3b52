\* In-memory store: one client pauses and resumes, two retry dead letters, while the
\* workers run a node that may throw and a delay node.
SPECIFICATION FairDeadSpec
CONSTANTS
    Nodes <- PairNodes
    Inputs <- PairInputs
    EntryNodeId = "a"
    Outputs <- PairOutputs
    DelayNodes = {"b"}
    InvalidDelays = {}
    Behaviour <- PairBehaviour
    ContinueOnFail = {}
    MaxAttempts = 1
    Retries = {"retry1", "retry2"}
    Concurrency = 2
    Guarded = FALSE
    Faults = {}
    MaxFaults = 0
    NoJob = NoJob
    Callers = {"x"}
    Operations = {"pause", "resume"}
    MaxCalls = 2
    Retriers = {"r", "s"}
    MaxRequests = 2
INVARIANTS PauseLosesNothing NoLetterLost
PROPERTIES RetriesAreRun
CHECK_DEADLOCK FALSE
