\* Two windows of one process; one connection is lost and another made.
CONSTANTS
    w1 = w1
    w2 = w2
    Windows = {w1, w2}
    Secure = Secure
    Process <- MCProcess
    Allowed = {"observe", "pointer", "keyboard", "window"}
    Batches <- MCBatches
    Offers <- MCOffers
    MaxActions = 3
    MaxRequests = 2
    MaxConnections = 2
    MaxEpoch = 2
    MaxPermission = 2
    MaxFaults = 1
SPECIFICATION Spec
INVARIANTS
    HeldIsTheClients
    ClientIsTold
PROPERTIES
    DispatchIsAgreed
    EndpointComesBack
