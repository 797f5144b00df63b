SPECIFICATION FairSpec
CONSTANTS
    r1 = r1  r2 = r2  r3 = r3
    ann = ann  bob = bob  ssn = ssn
    email = email  secret = secret
    None = None
    Requests = {r1, r2, r3}
    DocRequests = {r3}
    Keys <- MixedKeys
    Types <- AllTypes
    TypeOf <- KeyTypes
    BlockedTypes = {secret}
    Client = "oneSend"
INVARIANTS
    SameEntitySamePlaceholder
    HistoryRehydrates
    MessagesNumberedInOrder
PROPERTIES
    PromisedTable
    EveryRequestEnds
CHECK_DEADLOCK FALSE
