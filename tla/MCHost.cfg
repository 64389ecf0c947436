\* Two processes that load their hubs; two setups and two saves of the IDE;
\* logs of five entries; a cache of two places and four bytes; all patterns,
\* texts and trees up to a size.
CONSTANTS
    HubProcesses = {p1, p2}
    HubConfigs <- TheConfigs
    HubOffers <- TheOffers
    HubStarts = 2
    CfSetups = {s1, s2}
    CfSaves = 2
    SmacEntries = 4
    SmacCapacity = 5
    MaxReceipts = 5
    Keys = {k1, k2, k3}
    Sizes = {1, 2, 4, 5}
    MaxBytes = 4
    MaxEntries = 2
    Ttl = 2
    Skew = 1
    MaxTime = 3
    ShWrites = 4
    ShCap = 3
    ShCut = 2
    FsTrees <- TheTrees
    FsRequests <- TheRequests
    FsRoot <- TheRoot
    FsLinks <- Outside
    FsSecretDirs = {".git"}
    FsSecretNames = {"key"}
    Letters = {"a", "b"}
    GlobLength = 4
    Environment <- TheEnvironment
    TextLength = 5
    OutputLength = 6
    MinBearer = 1
    MinKey = 2
    MinSecret = 2
    ClRequests = 3
    ClStarts = 2
SPECIFICATION Spec
SYMMETRY Symmetry
INVARIANTS
    HubAsConfigured
    QuarantineLasts
    ChainSurvivesFailures
    NoSilentLoss
    VerifiedMeansComplete
    NumbersRunOn
    CacheAccounts
    NoneSurvivesFailure
    SuccessIsWhole
    FsStaysInside
    MatchesAsMeant
    LogHidesCredentials
    MaskHidesSecrets
    AnswersAreOwn
PROPERTIES
    OldestMakesRoom
    SetupPreserves
CHECK_DEADLOCK FALSE
