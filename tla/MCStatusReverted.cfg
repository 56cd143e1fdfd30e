\* A client sends its edit under the version it expects to see next.
SPECIFICATION Spec
CONSTANTS
    Codes = {"ba"}
    TableOf <- MCTableOf
    r1 = r1
    r2 = r2
    r3 = r3
    d1 = d1
    d2 = d2
    Data = {d1, d2}
    Blank = Blank
    Reqs = {r1, r2}
    Lookahead = 1
    NoRecord = NoRecord
    NoInput = NoInput
    SeedStatus <- MCSeedStatus
    SeedData = d1
PROPERTY StatusFollowsGraph
