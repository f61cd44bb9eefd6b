SPECIFICATION Spec
CONSTANTS
    coordinator = coordinator
    stateMonitor = stateMonitor
    v1 = v1
    c1 = c1
    Coordinator = coordinator
    StateMonitors <- NoProcesses
    Contributors <- OneContributor
    Verifiers = {}
    VerifierOrder <- NoProcesses
    Replacements <- NoProcesses
    Starting <- StartingC1
    Joining <- JoiningNobody
    StartAfter <- Nobody
    DropAfter <- DropC1
    TimeLimit = FALSE
    MaxWaits = 1
    Chunks = 1
    PipeBound = 1
    MaxFaults = 2
INVARIANTS
    TypeOK
    NoErrorHidden
    OkLeavesNothing
    OkMeansFinished
    OkMeansDropped
PROPERTY KeepsPromise
CHECK_DEADLOCK FALSE
