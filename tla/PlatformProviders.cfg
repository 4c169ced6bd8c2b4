CONSTANTS
    MaxTicket = 2
    MaxFrame = 1
    MaxTopology = 1
    Displays = {1, 2}
    Streams = 2
    Transfers = 2
    MaxChanges = 3
    MaxFailures = 2
SPECIFICATION Spec
INVARIANTS
    QueryHolds
    CaptureHolds
PROPERTIES
    CallsReturn
CHECK_DEADLOCK FALSE
