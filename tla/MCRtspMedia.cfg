SPECIFICATION FairMediaSpec
CONSTANTS
    Ports <- MCPorts
    Recording = TRUE
INVARIANTS
    ThreadInScope
    PlayingHasThread
    EveryThreadJoined
PROPERTIES
    CallsReturn
    FlagEndsThread
