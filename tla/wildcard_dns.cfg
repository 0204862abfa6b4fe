SPECIFICATION Spec
CONSTANTS
    Caller = {c1, c2}
    RecordId = {d1, d2, d3, d4, d5}
    Name = {wild, host}
    Star = Star
    ZoneWildcard = wild
    BaseWildcard = wild
    PageSize = 1
    MaxBusy = 2
    MaxRetries = 1
    MaxEdits = 2
SYMMETRY Interchangeable
INVARIANTS TypeOK NothingOverlooked DuplicatesBounded
