\* A strict queue with one place and two clients, and a weighted queue whose
\* priority an application keeps changing.  The runner may stop for good, so the
\* system may.
SPECIFICATION Spec
CONSTANTS
    a = a
    b = b
    c = c
    Job = {a, b, c}
    NoJob = NoJob
    N = 2
    QueueOf <- TwoQueues
    Capacity <- OnePlace
    InitPriority <- StrictThenWeighted
    Reconfig <- SecondMayBeStrict
    Word = 4
CHECK_DEADLOCK FALSE
INVARIANTS
    CapacityRespected
    CounterAccurate
    NoLostWakeup
PROPERTY
    StrictFirstWhenQuiet
