\* Two equal reads and another request on one queue; callers give up, deadlines
\* pass, the channel fails, the runner is aborted.  It may stop for good.
SPECIFICATION LinkSpec
CONSTANTS
    a = a
    b = b
    c = c
    Job = {a, b, c}
    NoJob = NoJob
    N = 1
    QueueOf <- OneQueue
    Capacity <- TwoPlaces
    InitPriority <- AllWeighted
    Reconfig <- NoReconfig
    Word = 4
    Request <- TwoReadsAndOther
    ReadOnly = {a, b}
    maximum_coalesced = 1
    MayAbandon = {b}
    MayExpire = {b}
    ChannelFails = TRUE
    RunnerAborts = TRUE
CHECK_DEADLOCK FALSE
INVARIANTS
    CountersAddUp
    FailureStaysWithLeader
    CoalescedReplyFits
    ServedUntilClosed
PROPERTY
    ImplementsService
