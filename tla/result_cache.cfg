\* Two nodes and two clients, with all writers, cache failures and crashes.
SPECIFICATION FairSpec
CONSTANTS
    Nodes = {"m", "n"}
    Clients = {"x", "y"}
    Operations = {"update", "cache", "failure"}
    MaxWrites = 2
    Faults = {"cache", "crash"}
    MaxFaults = 1
INVARIANTS ReadSeesStored CacheNeverAhead
PROPERTIES StalenessEnds
