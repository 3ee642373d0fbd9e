\* A link runner over a packet channel: it sends, receives, and reads the idle
\* line between two requests.
SPECIFICATION Spec
CONSTANTS
    SequenceModulus = 4
    MaximumPublished = 2
    MaximumPublishedBytes = 3
    MaximumUnmatched = 1
    MaximumBody = 3
    BodyLengths = {1, 4}
    CancelPoints = {}
    Users = {"runner"}
    MaxRequests = 3
    MaxPublishes = 1
    MaxInbound = 2
CHECK_DEADLOCK FALSE
INVARIANT
    RunnerGoesOn
