\* The same link over a channel that may fail: a push that passed its last
\* check before the runner stopped is appended to a queue nobody serves.
SPECIFICATION FairLinkSpec
CONSTANTS
    a = a
    b = b
    c = c
    Job = {a, b}
    NoJob = NoJob
    N = 1
    QueueOf <- OneQueue
    Capacity <- TwoPlaces
    InitPriority <- AllStrict
    Reconfig <- NoReconfig
    Word = 4
    Request <- AllReads
    ReadOnly = {a, b}
    maximum_coalesced = 1
    MayAbandon = {a}
    MayExpire = {b}
    ChannelFails = TRUE
    RunnerAborts = FALSE
CHECK_DEADLOCK FALSE
PROPERTY
    EveryRequestEnds
