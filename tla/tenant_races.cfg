SPECIFICATION HistorySpec
CONSTANTS
    User = {u1, u2}
    Admin = {}
    AppId = {a1, a2}
    Subdomain = {s1, s2}
    Config = {c0}
    DefaultConfig = c0
    Plan = {free}
    FreePlan = free
    AppLimit <- OneAppPerUser
    NoPlan = NoPlan
    MissingPlan = MissingPlan
    Request = {r1, r2}
    Lookup = {k1}
    MaxBusy = 2
    PatchStatus = {"suspended"}
    FaultsAllowed = TRUE
    NoRow = NoRow
    Keep = Keep
    Miss = Miss
    NotFound = NotFound
SYMMETRY Interchangeable
INVARIANTS TypeOK TenantIsolation StaleOnlyByRace
PROPERTIES ImplementsRegistry RevivedOnlyByOverlap
