\* Two equal reads with a transport retry: the retry decision can meet the
\* deadline, and the drain is left out.
SPECIFICATION Spec
CONSTANTS
    Jobs = 2
    Command <- SameCommand
    Action = {}
    transport_retries = 1
    busy_retries = 1
    delayed_response_polls = 1
    retry_delay = 1
    response_timeout = 2
    total_timeout = 3
    late_response_guard = 3
    Latency = 2
    MaxBursts = 0
CHECK_DEADLOCK FALSE
INVARIANT
    DrainedAfterTimeout
