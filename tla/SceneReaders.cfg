\* Three slots as in SceneStoreStorage; five publications let every slot be
\* reused after a return, a replacement and an abort, six let a lone read, the
\* refusals it causes and an abort follow one another.
CONSTANTS
    SlotCount = 3
    MaxEpoch = 5
    MaxScenes = 6
    MaxSpace = 2
SPECIFICATION Spec
INVARIANTS
    SlotsHold
PROPERTIES
    HeldScenesUnchanged
    BusyEnds
    ImplementsHandoff
    ReadersAgree
