SPECIFICATION FairSpec
CONSTANTS
    coordinator = coordinator
    stateMonitor = stateMonitor
    v1 = v1
    c1 = c1
    Coordinator = coordinator
    StateMonitors <- TheStateMonitor
    Contributors <- OneContributor
    Verifiers <- OneVerifier
    VerifierOrder <- TheVerifier
    Replacements <- NoProcesses
    Starting <- StartingC1
    Joining <- JoiningNobody
    StartAfter <- Nobody
    DropAfter <- Nobody
    TimeLimit = TRUE
    MaxWaits = 1
    Chunks = 1
    PipeBound = 1
    MaxFaults = 0
PROPERTY TimeLimitEndsTest
CHECK_DEADLOCK FALSE
