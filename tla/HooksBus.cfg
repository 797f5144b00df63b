SPECIFICATION Spec
CONSTANTS
    Hooks = {"h1", "h2"}
    Settings = {"narrow", "unknown"}
    ValidSettings = {"narrow"}
    Types = {"detected", "threshold"}
    ThresholdType = "threshold"
    Subscribed <- MCSubscribed
    MaxEvents = 1
    MaxRegistered = 3
    MaxWebhooks = 1
    Tested = {"h1"}
INVARIANTS
    BusAgreesWithTable
    LimitKept
PROPERTIES
    UsesBus
