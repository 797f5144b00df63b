SPECIFICATION Spec
CONSTANTS
    Hooks = {"h1", "h2"}
    Settings = {"narrow"}
    ValidSettings = {"narrow"}
    Types = {"detected", "threshold"}
    ThresholdType = "threshold"
    Subscribed <- MCSubscribed
    MaxEvents = 1
    MaxRegistered = 3
    MaxWebhooks = 2
    Tested = {}
PROPERTIES
    DisabledReceiveNothing
