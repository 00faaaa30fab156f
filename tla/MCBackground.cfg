SPECIFICATION BackgroundSpec
CONSTANTS
    Home = Home
    NoPlace = NoPlace
    Above = Above
    MaxTabs = 3
    MaxClosed = 1
    v = v
    e = e
    k = k
    d1 = d1
    d2 = d2
    Nothing = Nothing
    Volumes = {v, e}
    Locked = {k}
    Drives = {d1, d2}
    Drive <- MCDrive
    Backing <- MCBacking
    SiblingId <- MCSiblingId
    CanPowerOff = {d1}
    MaxEvents = 3
    MaxDisturbances = 1
    Roots = {share}
    MaxMounts = 2
    MaxActs = 6
    Folders = {"top", "below", "plain"}
    NoFolder = ""
    Repositories = {"repository"}
    NoRepository = "none"
    RepositoryOf <- MCRepositoryOf
    MaxChanges = 2
    MaxGenerations = 5
    Files = {"f", "g"}
    MaxActions = 2
    Responses = {"r1", "r2", "r3", "r4"}
    Workers = 1
    MaxQueued = 2
    Entries = {"a", "ab", "b", "sub"}
    Directories = {"root", "sub"}
    Children <- MCChildren
    Queries = {"a", "b"}
    Matching <- MCMatching
    SearchRoots = {"root", "sub", "gone"}
    BatchSize = 2
    MaxResults = 3
    MaxVisitedEntries = 4
    ProgressStride = 2
    MaxSearches = 2
INVARIANTS
    NobodyStaysInWhatIsGone
    EveryQuestionIsOnTheScreen
    ThumbnailsAreFinishedOnce
    SearchTellsTheTruth
    StatusTellsTheTruth
    OneGitActionAtATime
PROPERTIES
    PowerOffIsAlone
    ClosingKeepsTheCurrentTab
CHECK_DEADLOCK FALSE
