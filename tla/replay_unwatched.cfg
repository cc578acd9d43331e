\* The replay alone: its loop and the panel that comes and goes.
CONSTANTS
    Parts = {"replay"}
    NoValue = NoValue
    MaxClicks <- Clicks
    Ref = {"r1", "r2", "r3"}
    Id = {1, 2}
    Host = {"h1", "h2"}
    Link = {3}
    Left <- LeftConfigs
    MaxSends = 2
    MaxFiles = 2
    MaxReports = 1
    Text = {"", "t"}
    View = {"all", "5m"}
    Token = {"", "x"}
    Days = {1}
    Limit = 1
    Whole = {1}
    MaxRows = 2
    MaxCalls = 2
    Conn = {"src", "dst", "c1"}
    Endpoint = {"e1", "e2"}
    Reach = {"e1"}
    MaxEvents = 2
    MaxSessions = 2
    RuleIds = {1, 2}
    MaxRules = 1
    AlertCap = 1
    MaxSeen = 1
    MaxWaiting = 2
    MessageKinds <- Messages
    BufferMax = 2
    BatchMax = 2
    MaxMessages = 2
    MaxTopics = 1
    MaxPresets = 1
    MaxArrivals = 4
    RowMessages <- ShownMessages
    Modes <- ViewModes
    Scripts <- CodecScripts
    CacheCap = 1
    SourceFilter = {"f"}
    Name = {"a"}
    MaxSinks = 2
    MaxHeaders = 2
    OldRules <- OldRuleSets
    Recorded <- Recordings
    Speeds = {1, 2}
    GapCaps = {0, 3}
    MaxLoops = 2
    Docs <- Scenarios
    SharedRule = {"r"}
    Tallies <- Counts
    MaxAsked = 3
    Packs <- SenmlPacks
    Threshold = 10
    Version = 2
    MaxPack = 200
    Now = 40
    Topics = 2
    ShownLimits = {3}
    Ahead = 1
    ListCap = 1
    Forms = {"dated", "numbered", "truncated"}
    MaxSent = 3
    MaxStored = 3
    MaxClock = 2
SPECIFICATION Spec
PROPERTIES
    NobodyUnwatched
\* A panel may be left alone for good.
CHECK_DEADLOCK FALSE
