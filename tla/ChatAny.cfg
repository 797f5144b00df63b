SPECIFICATION Spec
CONSTANTS
    r1 = r1  r2 = r2  r3 = r3
    ann = ann  bob = bob  ssn = ssn
    email = email  secret = secret
    None = None
    Requests = {r1, r2, r3}
    DocRequests = {r3}
    Keys <- MixedKeys
    Types <- AllTypes
    TypeOf <- KeyTypes
    BlockedTypes = {secret}
    Client = "any"
INVARIANTS
    StoredEntitiesKept
    BlockedNeverSent
    OpenTransactionIsOwned
    AnswerFollowsQuestion
PROPERTIES
    RowsPermanent
SYMMETRY SameKind
CHECK_DEADLOCK FALSE
