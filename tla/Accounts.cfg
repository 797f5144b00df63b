SPECIFICATION Spec
CONSTANTS
    r1 = r1  r2 = r2
    e1 = e1  e2 = e2  e3 = e3
    None = None
    Requests = {r1, r2}
    Emails = {e1, e2, e3}
    GoogleEmail = e3
    MaxUsers = 2
    MaxAccounts <- MCMaxAccounts
INVARIANTS
    AccountsDistinct
    AdministratorRemains
    LimitKept
PROPERTIES
    ChangesAuthorized
SYMMETRY Alike
CHECK_DEADLOCK FALSE
