SPECIFICATION FairSpec
CONSTANTS
    coordinator = coordinator
    stateMonitor = stateMonitor
    v1 = v1
    c1 = c1
    Coordinator = coordinator
    StateMonitors <- NoProcesses
    Contributors <- OneContributor
    Verifiers = {}
    VerifierOrder <- NoProcesses
    Replacements <- NoProcesses
    Starting <- StartingC1
    Joining <- JoiningNobody
    StartAfter <- Nobody
    DropAfter <- Nobody
    TimeLimit = TRUE
    MaxWaits = 2
    Chunks = 1
    PipeBound = 1
    MaxFaults = 0
PROPERTY EndsUnlessDeaf
CHECK_DEADLOCK FALSE
