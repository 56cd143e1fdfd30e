\* A tab with three operations, another client with one request, a change of
\* the session.
SPECIFICATION WebSpec
CONSTANTS
    Codes = {"pd1"}
    Users <- MCUsers
    RoleOf <- MCRoleOf
    o1 = o1
    o2 = o2
    o3 = o3
    x1 = x1
    e1 = e1
    e2 = e2
    Reqs = {o1, o2, o3, x1}
    Ops = {o1, o2, o3}
    Evidence = {e1, e2}
    NewEvidence = e1
    Blank = Blank
    Lookahead = 0
    OtherUsers = {"viewer"}
    MaxSwitches = 1
    NoDecision = NoDecision
    NoInput = NoInput
    NoUser = NoUser
    NoDialog = NoDialog
    NotAsked = NotAsked
    SeedStatus <- SeededDraft
    SeedPreparer = "reviewer"
    SeedReviewer = "admin"
    SeedEvidence = e1
    SeedReq = SeedReq
SYMMETRY Symmetry
INVARIANTS
    WebTypeOK
    AppliedAsConfirmed
    ConfirmedOnce
    MaskHasReason
    OffersAreAdmitted
PROPERTIES
    OwnChangeShown
