\* The components around the link, one at a time.  A scan, a transfer, a snapshot
\* and every bounded input come to an end.
SPECIFICATION Spec
CONSTANTS
    Parts = {"health", "hub", "ip", "decoder", "discovery", "transfer", "procedures",
             "bench", "mesh", "admission", "profiles", "scheduler"}
    read_call = read_call
    write_call = write_call
    read_probe = read_probe
    write_probe = write_probe
    p1 = p1
    p2 = p2
    \* Health
    Calls <- HealthCalls
    Policy <- CallPolicy
    NoAdaptive = NoAdaptive
    Adaptive <- ShortTimeouts
    Threshold = 2
    Cooldown = 2
    DrainGuard = 1
    MaxRetryTime = 9
    MaxTime = 3
    \* BurstHub
    Subscribers = {1, 2}
    Keys = {k1, k2}
    Payloads = {"x", "y"}
    Capacities = {0, 1, 2}
    MaxSubscriptions = 2
    MaxDeliveries = 2
    MaxTracked = 1
    DuplicateWindow = 2
    MaxPublished = 3
    MaxHubTime = 2
    \* HartIp
    SequenceModulus = 4
    MaximumPublished = 2
    MaximumPublishedBytes = 3
    MaximumUnmatched = 1
    MaximumBody = 3
    BodyLengths = {2, 4}
    CancelPoints = {"boundary", "write"}
    Users = {"application", "runner"}
    MaxRequests = 3
    MaxPublishes = 2
    MaxInbound = 2
    \* Decoder
    TestFrames <- LineFrames
    Chunks <- LineChunks
    Policies <- RepairPolicies
    MinimumPreambles = 1
    BufferCapacity = 12
    MaximumEvents = 2
    MaxChunks = 2
    \* Discovery
    Modules <- TwoModules
    LastAddress = 2
    Conservative = 20
    Hints <- PreambleHints
    AddressTimeouts <- SlowAddress
    FirstResponse = 5
    SteadyResponse = 2
    Passes = 2
    TransportRetries = 2
    Waits = 1
    RetryDelay = 1
    \* Transfer
    Sources <- TransferSources
    BlockSizes = {1, 2}
    Limits = {1, 3, 9}
    MAXIMUM_TRANSFER_BYTES = 4
    SequenceSpace = 3
    \* Procedures
    Devices <- ThreeDevices
    Polling = {p1, p2}
    Nobody = Nobody
    SnapshotGroups = {{"process"}, {"process", "tags", "diagnostics"}}
    Plans <- TwoPlans
    MaxSwaps = 2
    \* Bench
    FrameLength = 2
    Capacity = 2
    FaultPlans <- SomeFaults
    NoFaults <- Faultless
    Targets = {"own", "other"}
    TraceLimits <- TwoTraceLimits
    MAXIMUM_TRACE_RECORDS = 4
    MAXIMUM_TRACE_BYTES = 7
    MaxBenchRequests = 2
    MaxPlans = 2
    \* Mesh
    MeshDevices = {1, 2, 3}
    Nicknames = 4
    WindowWidth = 2
    Counters = {0, 1, 2, 3, 4}
    Reliabilities = {50, 90}
    SuperframeSize = 2
    MeshBounds <- ThreeBounds
    \* Admission
    Catalog <- Registry3
    Requests <- SomeRequests
    Clients = {c1, c2}
    Queues = {"normal", "urgent"}
    Elsewhere = "elsewhere"
    LinkPolicies <- SomePolicies
    Routings <- SomeRoutings
    RetryPolicies <- SomeRetries
    PrefixLengths = {0, 5}
    Configs <- SomeConfigs
    MAXIMUM_RETRY_DURATION = 2
    MAXIMUM_TRANSMIT_PREFIX = 4
    MAXIMUM_QUEUE_CAPACITY = 16
    MAXIMUM_LINK_READ_BUFFER = 1024
    MAXIMUM_LINK_DECODER_BUFFER = 4096
    MAX_ENCODED_FRAME_SIZE = 522
    MaxCalls = 2
    \* Profiles
    MaximumPayload = 255
    MAXIMUM_SCHEMA_FIELDS = 255
    RefusedNames = {""}
    Packages <- SomePackages
    LimitChoices <- SomeSizes
    HardLimits <- HardSizes
    CatalogBounds <- TwoProfiles
    Firmware <- TwoTypes
    Codes = {0, 8, 14, 128}
    Tails <- TwoTails
    Truncated = Truncated
    Tags <- SomeTags
    LongTags <- SomeLongTags
    NoImport = NoImport
    NoProfile = NoProfile
    MaxImports = 2
    \* Scheduler
    N = 4
    Depth <- MixedDepth
    InitPriority <- MixedPriority
    Reconfig <- MixedChoices
CHECK_DEADLOCK FALSE
INVARIANTS
    CooldownExact
    AdaptiveIsOneCall
    CurrentView
    HubBounded
    ReplyIsOwn
    PublishedAccounted
    FragmentationIrrelevant
    NoFrameLost
    DiscoveryThorough
    TransferExact
    SnapshotOfOneDevice
    PlanFailsFast
    FaultsCostOnce
    TraceReproduces
    ReplayWindowExact
    RoutesMinimal
    MeshConsistent
    AdmissionSound
    PackageAtomic
    RecordExact
    WeightedShare
PROPERTY
    SuppressedBriefly
