SPECIFICATION Spec

CONSTANTS
    Parts = {"agp", "shutdown", "streams", "input", "gate", "launch", "crowded", "machine",
             "flaky", "viewer", "recording", "calls", "events", "a11y"}
    a = a
    b = b
    None = None
    \* connections
    Connections = {a}
    Asks <- RequestsOf
    QueueCap = 1
    InFlight = 1
    MaxRequests = 3
    MaxEvents = 1
    MayStop = TRUE
    \* input
    Sessions = {a, b}
    Methods <- MethodsOfAll
    Desktop = {1, 2}
    MaxInputs = 2
    NoWindow = None
    \* launches
    Launches = {1, 2, 3}
    AppOf <- Applications
    Windows = {1, 2, 3, 4}
    StartedBy <- Openers
    ReportsPid <- PidsReported
    AppIdOf <- AppIds
    LateAppIdOf <- LateAppIds
    TitleOf <- Titles
    AppsMatch <- SameApps
    TitlesMatch <- SameTitles
    ClassesMatch <- SameClasses
    TextsMatch <- SameTexts
    SpawnFails = {1}
    LedgerCap = 2
    NoLaunch = None
    \* machines
    Callers = {a, b}
    Names = {"m"}
    Calls = {"create", "start", "stop", "restart", "remove", "status", "list"}
    MaxMachines = 2
    MayFail = FALSE
    \* recordings
    Watchers = {a}
    MaxRecordings = 2
    MaxFrames = 2
    \* the SDK
    Tasks = {a}
    OutboxCap = 1
    StreamCap = 1
    MaxIds = 2
    MaxSent = 2
    \* elements
    Agents = {a, b}
    Elements = {"button", "label"}
    RegistryCap = 1
    MaxNodeIds = 3

INVARIANTS
    QuietAfterUnsubscribe
    MethodsStayTogether
    ButtonsAreAccountedFor
    WindowsFindTheirLaunch
    CacheAgreesWhenIdle
    FinishedFileIsComplete
    StreamAccountsForEveryEvent
    IdsNeverChangeMeaning

PROPERTIES
    EveryRequestAnswered
    EndedConnectionWindsUp
    EveryViewerSeesTheChange
    CallsReturnOnceClosed

\* A bounded service stops: its peers have sent all they may, and its tasks have ended.
CHECK_DEADLOCK FALSE
