\* One seeded draft, three concurrent requests of any kind, every fault.
SPECIFICATION Spec
CONSTANTS
    Codes = {"pd1"}
    Users <- MCUsers
    RoleOf <- MCRoleOf
    r1 = r1
    r2 = r2
    r3 = r3
    e1 = e1
    e2 = e2
    Reqs = {r1, r2, r3}
    Evidence = {e1, e2}
    Blank = Blank
    Lookahead = 0
    NoDecision = NoDecision
    NoInput = NoInput
    SeedStatus <- SeededDraft
    SeedPreparer = "operator"
    SeedReviewer = "reviewer"
    SeedEvidence = e1
    SeedReq = SeedReq
SYMMETRY Symmetry
INVARIANTS
    TypeOK
    OwnEvidenceOnlyByAdmin
    ApprovedAsRead
    AuditTellsTheTruth
    SingleRemoval
    AcknowledgedIsAudited
    RejectedLeavesNoTrace
    ReplyIsTraceable
PROPERTIES
    FinalFrozen
    RemovedIsFrozen
