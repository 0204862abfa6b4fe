SPECIFICATION Spec
CONSTANTS
    upper = upper
    lower = lower
    Email = {upper, lower, e2, e3}
    Address = {lower, e2, e3}
    Normal <- Spellings
    UserId = {i1, i2, i3, i4}
    Request = {r1, r2}
    MaxBusy = 2
    NoUser = NoUser
SYMMETRY Interchangeable
INVARIANT OneAdministrator
CHECK_DEADLOCK FALSE
