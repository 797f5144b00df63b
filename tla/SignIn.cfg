SPECIFICATION Spec
CONSTANTS
    r1 = r1  r2 = r2  r3 = r3
    Requests = {r1, r2, r3}
    Workers = {w}
    ResetTokens = {t}
    States = {s}
    MaxFailed = 3
    Lockout = 3
    Life = 1
    None = None
INVARIANTS
    FailuresBounded
    LockedAfterFailures
    TokensTakenOnce
SYMMETRY Alike
