CONSTANTS
    Ids = {1, 2, 3, 4}
    Scenes = {{}, {1, 2}, {1, 2, 3, 4}}
    Alphabet = 3
    MaxScene = 3
    MaxSpace = 2
    MaxFocus = 2
    MaxPermission = 2
SPECIFICATION Spec
INVARIANTS
    SessionHolds
PROPERTIES
    PlanIsMeant
    SessionEnds
CHECK_DEADLOCK FALSE
