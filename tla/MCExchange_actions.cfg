\* Three equal actions; the device answers within the drain period or never.
\* The line may fail, and there is an end to the jobs.
SPECIFICATION Spec
CONSTANTS
    Jobs = 3
    Command <- SameCommand
    Action = {1, 2, 3}
    transport_retries = 1
    busy_retries = 1
    delayed_response_polls = 0
    retry_delay = 1
    response_timeout = 2
    total_timeout = 3
    late_response_guard = 3
    Latency = 2
    MaxBursts = 0
CHECK_DEADLOCK FALSE
INVARIANTS
    ActionOnce
    ActionReplyIsOwn
