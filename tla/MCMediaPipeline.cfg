SPECIFICATION PipelineSpec
CONSTANTS
    Buffers = 3
    Gop = 3
    MaxSequence = 8
INVARIANTS
    BuffersConserved
    GapsCounted
    IdrWithinGop
PROPERTIES
    ImplementsStream
