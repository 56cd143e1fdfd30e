\* A seeded and a new record, three concurrent requests of any kind, every fault.
SPECIFICATION Spec
CONSTANTS
    Codes = {"ba", "df", "ir"}
    TableOf <- MCTableOf
    r1 = r1
    r2 = r2
    r3 = r3
    d1 = d1
    d2 = d2
    Data = {d1, d2}
    Blank = Blank
    Reqs = {r1, r2, r3}
    Lookahead = 0
    NoRecord = NoRecord
    NoInput = NoInput
    SeedStatus <- MCSeedStatus
    SeedData = d1
SYMMETRY Symmetry
INVARIANTS
    TypeOK
    AuditTrailIsAWalk
    ReplyIncludesChange
PROPERTIES
    StatusFollowsGraph
    ImplementsRegister
