SPECIFICATION FairSpec
CONSTANTS
    Window = 2
    Required = 1
    LeaveCount = 2
    SlotCount = 2
    IdModulus = 4
    MaxSubmits = 5
INVARIANTS
    FramesConserved
    SlotsExclusive
    CallbacksInScope
    EventsAlternate
PROPERTIES
    CallsReturn
