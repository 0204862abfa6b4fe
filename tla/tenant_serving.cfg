SPECIFICATION ServingSpec
CONSTANTS
    n1 = n1
    n2 = n2
    User = {u1}
    Admin = {}
    AppId = {a1}
    Subdomain = {s1}
    Config <- Configs
    DefaultConfig <- Plain
    Plan = {free}
    FreePlan = free
    AppLimit <- OneAppPerUser
    NoPlan = NoPlan
    MissingPlan = MissingPlan
    Request = {r1}
    Lookup = {v1}
    MaxBusy = 2
    PatchStatus = {"active", "suspended"}
    FaultsAllowed = TRUE
    NoRow = NoRow
    Keep = Keep
    Miss = Miss
    NotFound = NotFound
    Dir = {top}
    Top = top
    Name = {n1, n2}
    Slash = Slash
    BadPath = BadPath
INVARIANTS ServingTypeOK
PROPERTIES InactiveGoesDark ReadyIsServed NegativeEntriesHeal CacheConverges
