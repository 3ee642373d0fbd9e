\* One read and one Burst frame that arrives in one piece with the reply.
SPECIFICATION Spec
CONSTANTS
    Jobs = 1
    Command <- SameCommand
    Action = {}
    transport_retries = 1
    busy_retries = 1
    delayed_response_polls = 1
    retry_delay = 1
    response_timeout = 2
    total_timeout = 3
    late_response_guard = 3
    Latency = 2
    MaxBursts = 1
CHECK_DEADLOCK FALSE
INVARIANT
    BurstsRouted
