SPECIFICATION TrackerSpec
CONSTANTS
    Window = 3
    Required = 2
    LeaveCount = 5
    IdModulus = 4
PROPERTIES
    ImplementsRule
