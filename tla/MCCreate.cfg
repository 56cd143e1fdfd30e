\* No decision yet: three requests create, change and delete one, and clients may
\* send the version after the one they were shown (a pipelined second request).
SPECIFICATION Spec
CONSTANTS
    Codes = {"pd1"}
    Users <- TwoUsers
    RoleOf <- TwoRoles
    r1 = r1
    r2 = r2
    r3 = r3
    e1 = e1
    e2 = e2
    Reqs = {r1, r2, r3}
    Evidence = {e1, e2}
    Blank = Blank
    Lookahead = 1
    NoDecision = NoDecision
    NoInput = NoInput
    SeedStatus <- NoSeeds
    SeedPreparer = "admin"
    SeedReviewer = "reviewer"
    SeedEvidence = e1
    SeedReq = SeedReq
SYMMETRY Symmetry
INVARIANTS
    RevisionChain
    IndependentReview
    SnapshotsRecorded
PROPERTIES
    RevisionsAppendOnly
