SPECIFICATION Spec
CONSTANTS
    a = a
    b = b
    Files = {a, b}
    NoFile = NoFile
    Rounds = 1
    NoDrop = NoDrop
    Inputs <- SomeInputs
    RepoOrder <- TwoRepos
    CrateOrder <- ThreeCrates
    RepoOf <- TheRepo
    Needed = {"setup1-contributor"}
    MaxLines = 3
    MaxFaults = 2
INVARIANTS
    TypeOK
    NothingLost
    FilesInOrder
    InOneFile
    LinesStayForward
    LogReachesDisk
    EveryTestHasItsTurn
    OkMeansBuilt
    AloneUnlessFailed
    DropsAgree
    EachStartsOnce
CHECK_DEADLOCK FALSE
