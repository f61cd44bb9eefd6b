SPECIFICATION FairSpec
CONSTANTS
    c1 = c1
    c2 = c2
    v1 = v1
    Contributors <- MCContributors
    Verifiers <- MCVerifiers
    MaxLog = 4
INVARIANTS
    TypeOK
    VerdictSound
    FailureJustified
PROPERTY
    RoundEndEndsThread
CHECK_DEADLOCK FALSE
