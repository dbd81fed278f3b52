\* Workflows of up to three nodes; data of up to three objects; two parents; a store
\* with room for two of three executions.
SPECIFICATION SynchronousSpec
CONSTANTS
    Workflows <- VWorkflows
    NodeIds = {"a", "b", "c", "g"}
    NoId = "none"
    Cases <- VCases
    Objects = {x, y, z}
    Primitives = {Plain, Undefined}
    Undefined = Undefined
    ParentIds = {"p", "q", "blank"}
    Blank = "blank"
    Missing = Missing
    NoCase = NoCase
    x = x
    y = y
    z = z
    Plain = Plain
    Executions = {e1, e2, e3}
    MaxExecutions = 2
    MaxLogs = 1
    MaxSpans = 1
    ExecutionTtl = 1
    UsedStatuses = {"running", "completed"}
    MaxTime = 3
INVARIANTS CyclesAreFound UnreachableAreFound AcceptedCanBeWalked DataChecked InputsAgree
INVARIANTS SizeBounded TracesHaveExecutions
PROPERTIES EvictsLeastRecentlyUsed RunningKept
CHECK_DEADLOCK FALSE
