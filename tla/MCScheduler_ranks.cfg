\* Two slots of rank 10 and one of rank 20, never reconfigured.
SPECIFICATION SchedulerSpec
CONSTANTS
    N = 3
    Depth <- TwoDeep
    InitPriority <- RankedPriority
    Reconfig <- NoChoices
INVARIANT
    EqualRanksRotate
