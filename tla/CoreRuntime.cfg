\* Two slots in every table, two generations per slot, queues of one and two.
\* Three threads and four calls: a runtime is created, destroyed, its slot used
\* again and the old handle tried, with two threads at the gate.
CONSTANTS
    MaxGeneration = 2
    Vacant = Vacant
    FrameCapacity = 2
    SessionCapacity = 2
    TicketCapacity = 2
    QueueLimit = 2
    Threads = {t1, t2, t3}
    Capacity = 1
    MaxDomain = 2
    BlockSize = 2
    MaxRegistry = 3
    MaxCalls = 4
    ModelCapacity = 1
    ContextCapacity = 2
    JobCapacity = 2
    ContextQueue = 2
SPECIFICATION CoreSpec
SYMMETRY ThreadSymmetry
INVARIANTS
    RuntimeHolds
    StoreHolds
    BackendHolds
PROPERTIES
    NoHandleRevives
    JobsEndOnce
\* A destroyed runtime, or one whose slots are all retired, does nothing more;
\* so do the threads when their calls are used up.
CHECK_DEADLOCK FALSE
