SPECIFICATION FairProgramSpec
CONSTANTS
    Ports <- MCPorts
    Recording = TRUE
    MaxSignals = 2
\* The program exits.
CHECK_DEADLOCK FALSE
INVARIANTS
    NothingBetweenSessions
    ReturnsClean
    CameraWithinIsp
PROPERTIES
    ImplementsMedia
    SessionEnds
    SignalEndsProgram
