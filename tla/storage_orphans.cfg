SPECIFICATION LedgerSpec
CONSTANTS
    p1 = p1
    p2 = p2
    App = {a1}
    Path = {p1, p2}
    Size = {1, 2}
    Quota = 3
    Archive <- Archives
    BatchSize = 1
    Request = {r1, r2}
    Task = {nightly}
    Nightly = nightly
    MaxBusy = 2
    MaxFaults = 0
    NoWrite = NoWrite
SYMMETRY Interchangeable
INVARIANTS DeletedSiteEmpty
