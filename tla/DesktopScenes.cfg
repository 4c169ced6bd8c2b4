CONSTANTS
    SlotCount = 3
    Source = {1, 2}
    Scopes = {{1}, {2}, {1, 2}}
    MaxTopology = 2
    PoolDepth = 1
    ScenePeriod = 2
    MaxWake = 2
SPECIFICATION Spec
INVARIANTS
    ScenesHold
PROPERTIES
    TopologyForward
    TurnEnds
