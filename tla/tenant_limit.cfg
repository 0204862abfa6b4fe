SPECIFICATION Spec
CONSTANTS
    User = {u1}
    Admin = {}
    AppId = {a1, a2, a3}
    Subdomain = {s1, s2, s3}
    Config = {c0}
    DefaultConfig = c0
    Plan = {free}
    FreePlan = free
    AppLimit <- OneAppPerUser
    NoPlan = NoPlan
    MissingPlan = MissingPlan
    Request = {r1, r2}
    Lookup = {v1}
    MaxBusy = 2
    PatchStatus = {"suspended"}
    FaultsAllowed = TRUE
    NoRow = NoRow
    Keep = Keep
    Miss = Miss
    NotFound = NotFound
SYMMETRY Interchangeable
INVARIANT AppLimitOvershoot
CHECK_DEADLOCK FALSE
