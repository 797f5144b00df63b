SPECIFICATION Spec
CONSTANTS
    r1 = r1  r2 = r2  r3 = r3
    ann = ann  bob = bob  ssn = ssn
    email = email  secret = secret
    None = None
    Requests = {r1, r2, r3}
    DocRequests = {}
    Keys <- TwoKeys
    Types <- OneType
    TypeOf <- TwoKeyTypes
    BlockedTypes = {}
    Client = "any"
INVARIANT SameEntitySamePlaceholder
CHECK_DEADLOCK FALSE
