CONSTANT
    MaxTicket = 3
SPECIFICATION Spec
INVARIANTS
    ProvidersHold
PROPERTIES
    WaitsEnd
CHECK_DEADLOCK FALSE
