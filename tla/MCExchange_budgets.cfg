\* One read with every kind of retry and a Burst frame at any time.
\* The line may fail, and there is an end to the jobs.
SPECIFICATION FairSpec
CONSTANTS
    Jobs = 1
    Command <- SameCommand
    Action = {}
    transport_retries = 1
    busy_retries = 1
    delayed_response_polls = 1
    retry_delay = 1
    response_timeout = 2
    total_timeout = 4
    late_response_guard = 3
    Latency = 1
    MaxBursts = 1
CHECK_DEADLOCK FALSE
INVARIANTS
    BudgetsBoundSends
    DeadlineKept
PROPERTY
    ExchangeEnds
