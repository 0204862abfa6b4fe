SPECIFICATION ServingSafety
CONSTANTS
    n1 = n1
    n2 = n2
    User = {u1, u2}
    Admin = {}
    AppId = {a1, a2}
    Subdomain = {s1, s2}
    Config <- SinglePages
    DefaultConfig <- SinglePage
    Plan = {free}
    FreePlan = free
    AppLimit <- OneAppPerUser
    NoPlan = NoPlan
    MissingPlan = MissingPlan
    Request = {r1}
    Lookup = {v1}
    MaxBusy = 2
    PatchStatus = {"suspended"}
    FaultsAllowed = TRUE
    NoRow = NoRow
    Keep = Keep
    Miss = Miss
    NotFound = NotFound
    Dir = {top}
    Top = top
    Name = {n2}
    Slash = Slash
    BadPath = BadPath
SYMMETRY Interchangeable
INVARIANTS VisitsStayHome
