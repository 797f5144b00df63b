SPECIFICATION BusFairSpec
CONSTANTS
    Hooks = {"h1"}
    Settings = {"narrow", "all"}
    Types = {"detected", "violation"}
    Subscribed <- MCSubscribed
    MaxEvents = 2
    MaxRegistered = 2
INVARIANTS
    Accounted
    PostsInOrder
    RetriesAsStated
    ServedInFull
PROPERTIES
    EventsHandled
