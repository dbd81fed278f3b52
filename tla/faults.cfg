\* Drizzle store: a fork into a valid and an invalid delay, with a cancellation,
\* crashes, store errors and late locks.
SPECIFICATION ControlSpec
CONSTANTS
    Nodes <- ForkNodes
    Inputs <- ForkInputs
    EntryNodeId = "a"
    Outputs <- ForkOutputs
    DelayNodes = {"b", "c"}
    InvalidDelays = {"c"}
    Behaviour <- ForkBehaviour
    ContinueOnFail = {}
    MaxAttempts = 2
    Retries = {}
    Concurrency = 2
    Guarded = TRUE
    Faults = {"crash", "error", "overrun"}
    MaxFaults = 2
    NoJob = NoJob
    Callers = {"x"}
    Operations = {"cancel", "pause"}
    MaxCalls = 1
INVARIANTS CompletedHasAllResults CancelStopsExecution
PROPERTIES NoReexecution DelayIsWaitedFor ImplementsExecution
CHECK_DEADLOCK FALSE
