SPECIFICATION Spec
CONSTANTS
    RingSize = 4
    MaxLength = 3
    MaxPictures = 3
\* The encoder is closed.
CHECK_DEADLOCK FALSE
INVARIANTS
    CopiedWhole
    NothingKept
