SPECIFICATION FairSpec
CONSTANTS
    coordinator = coordinator
    c1 = c1
    m1 = m1
    Coordinator = coordinator
    StateMonitors <- NoProcesses
    Contributors <- TwoContributors
    Verifiers = {}
    VerifierOrder <- NoProcesses
    Replacements <- NoProcesses
    Starting <- StartingC1
    Joining <- JoiningM1
    StartAfter <- MidM1
    DropAfter <- DropC1
    TimeLimit = FALSE
    MaxWaits = 1
    Chunks = 1
    PipeBound = 1
    MaxFaults = 0
PROPERTY WaiterHeedsShutdown
CHECK_DEADLOCK FALSE
