SPECIFICATION FairSpec
CONSTANTS
    c1 = c1
    c2 = c2
    Garbled = garbled
    Contributors <- MCContributors
    Verifiers = {}
    MaxRound = 2
    Chunks = 1
    PipeBound = 2
INVARIANTS
    TypeOK
    RoundMessagesInOrder
    NoStageSkipped
    ReporterInSync
    DropsReachTheBus
PROPERTY
    FinishReported
CHECK_DEADLOCK FALSE
