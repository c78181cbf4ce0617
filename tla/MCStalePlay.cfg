SPECIFICATION ServerSpec
CONSTANTS
    Ports <- MCPorts
    Recording = TRUE
    MaxSignals = 0
PROPERTY
    AlreadyRunningStreams
