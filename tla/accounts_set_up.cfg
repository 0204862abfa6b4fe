SPECIFICATION Spec
CONSTANTS
    upper = upper
    lower = lower
    Email = {upper, lower, e2, e3}
    Address = {lower, e2, e3}
    Normal <- Spellings
    UserId = {i1, i2, i3, i4, i5}
    Request = {r1, r2, r3}
    MaxBusy = 3
    NoUser = NoUser
SYMMETRY Interchangeable
INVARIANTS TypeOK OneAccountPerAddress AdminsBounded
CHECK_DEADLOCK FALSE
