SPECIFICATION Spec
CONSTANTS
    PayloadMax = 2
    SeqModulus = 6
    FirstSeq = 2
    ClockModulus = 3
    ClockStep = 1
    AccessUnits <- MCAccessUnits
    MaxPictures = 3
    Delay = 3
\* The session ends, and so does the stream.
CHECK_DEADLOCK FALSE
INVARIANTS
    SpellsPictures
    ShownWhole
    LossContained
