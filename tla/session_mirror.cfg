SPECIFICATION Spec
CONSTANTS
    User = {u1, u2}
    Token = {t1, t2, t3}
    Request = {r1, r2}
    MaxBusy = 2
    RedisFails = TRUE
    Crashes = TRUE
    NoToken = NoToken
    Nobody = Nobody
SYMMETRY Interchangeable
INVARIANTS TypeOK RevokedUnmirrored SessionsKeepOwner RotationsBounded
CHECK_DEADLOCK FALSE
