\* An application whose requests may be dropped anywhere, inside a packet included.
SPECIFICATION Spec
CONSTANTS
    SequenceModulus = 4
    MaximumPublished = 2
    MaximumPublishedBytes = 3
    MaximumUnmatched = 1
    MaximumBody = 3
    BodyLengths = {1, 4}
    CancelPoints = {"boundary", "write", "read"}
    Users = {"application"}
    MaxRequests = 3
    MaxPublishes = 1
    MaxInbound = 2
CHECK_DEADLOCK FALSE
INVARIANT
    UsableMeansFramed
