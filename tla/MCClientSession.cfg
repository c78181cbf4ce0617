SPECIFICATION Spec
CONSTANTS
    BufferSize = 5
    Requests <- MCRequests
    MaxRequests = 2
    ParameterSets <- MCParameterSets
    Deliveries <- MCDeliveries
    MaxNalus = 3
    Second = 5
    Fps = 2
    MaxFrames = 2
    TextSize = 16
    FixedLength = 5
    SdpSize = 28
\* Without parameter sets the server does not start.
CHECK_DEADLOCK FALSE
INVARIANTS
    AnswersMatch
    UnitsSurvive
    RecordingPlays
    SdpDecodes
PROPERTIES
    EachAnswered
