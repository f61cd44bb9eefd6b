SPECIFICATION FairSpec
CONSTANTS
    c1 = c1
    Contributors <- MCContributors
    Verifiers = {}
    Services = {}
    DropAfter <- MCDropAfter
    MaxLog = 4
INVARIANTS
    TypeOK
    KilledWithCause
PROPERTIES
    ShutdownLetsJoin
    RoundEndStopsContributor
    FailureIsAnnounced
CHECK_DEADLOCK FALSE
