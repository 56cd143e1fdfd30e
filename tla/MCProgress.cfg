\* Two requests on a new and a seeded decision, no faults: what must
\* happen in the end, and that every step is one of the ledger.
SPECIFICATION FaultFreeSpec
CONSTANTS
    Codes = {"pd1", "pd2"}
    Users <- MCUsers
    RoleOf <- MCRoleOf
    r1 = r1
    r2 = r2
    r3 = r3
    e1 = e1
    e2 = e2
    Reqs = {r1, r2}
    Evidence = {e1, e2}
    Blank = Blank
    Lookahead = 0
    NoDecision = NoDecision
    NoInput = NoInput
    SeedStatus <- SeededDraft
    SeedPreparer = "operator"
    SeedReviewer = "reviewer"
    SeedEvidence = e1
    SeedReq = SeedReq
PROPERTIES
    ImplementsLedger
    RevisionsEventuallyAudited
    Answered
