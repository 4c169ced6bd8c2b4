\* Every plan of MCPlans, four units of time and one desktop change.
CONSTANTS
    left = left
    right = right
    key = key
    shift = shift
    control = control
    unit = unit
    Buttons = {left, right}
    Keys = {key}
    Modifiers = {shift, control}
    Units = {unit}
    Plans <- MCPlans
    KeyLimit = 1
    PendingCapacity = 6
    MaxClock = 4
    MaxTopology = 2
SPECIFICATION Spec
INVARIANTS
    ExecutorHolds
PROPERTIES
    WorkEnds
