SPECIFICATION Spec
CONSTANTS
    coordinator = coordinator
    c1 = c1
    c2 = c2
    r1 = r1
    Coordinator = coordinator
    StateMonitors <- NoProcesses
    Contributors <- ThreeContributors
    Verifiers = {}
    VerifierOrder <- NoProcesses
    Replacements <- TheReplacement
    Starting <- StartingOneEach
    Joining <- JoiningNobody
    StartAfter <- Nobody
    DropAfter <- DropC1
    TimeLimit = FALSE
    MaxWaits = 2
    Chunks = 1
    PipeBound = 1
    MaxFaults = 0
PROPERTY HelpersRunning
CHECK_DEADLOCK FALSE
