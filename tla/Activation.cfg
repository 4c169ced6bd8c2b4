SPECIFICATION PipelineSpec
INVARIANTS
    ActivationHolds
PROPERTIES
    PendingEnds
