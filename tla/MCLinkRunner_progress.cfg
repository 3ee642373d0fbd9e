\* Two reads on one strict queue over a channel that does not fail.
\* The runner stops when its clients are gone.
SPECIFICATION FairLinkSpec
CONSTANTS
    a = a
    b = b
    c = c
    Job = {a, b}
    NoJob = NoJob
    N = 1
    QueueOf <- OneQueue
    Capacity <- TwoPlaces
    InitPriority <- AllStrict
    Reconfig <- NoReconfig
    Word = 4
    Request <- AllReads
    ReadOnly = {a, b}
    maximum_coalesced = 1
    MayAbandon = {a}
    MayExpire = {b}
    ChannelFails = FALSE
    RunnerAborts = FALSE
CHECK_DEADLOCK FALSE
PROPERTIES
    EveryRequestEnds
    RunnerStops
