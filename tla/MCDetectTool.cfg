SPECIFICATION FairSpec
CONSTANTS
    MaxBuffers = 2
    MaxShots = 6
    Numerators <- MCNumerators
    Denominators <- MCDenominators
    WantedFps = 2
    WarmupFrames = 1
    SeqModulus = 5
INVARIANTS
    FrameReadable
    TornDownInOrder
    SampledEvenly
    GapsCounted
    EndsPromptly
PROPERTIES
    ToolEnds
