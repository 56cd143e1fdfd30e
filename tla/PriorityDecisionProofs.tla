----------------------- MODULE PriorityDecisionProofs -----------------------
(***************************************************************************)
(* Proofs about PriorityDecision for any codes, users, evidence, requests, *)
(* seeds and Lookahead.                                                    *)
(*                                                                         *)
(* The invariant is what TypeOK, RevisionChain, IndependentReview and      *)
(* DraftsByOwner need of a handler between its statements (HandlersOK):    *)
(* the checks it passed on its snapshot speak of the preparer, who never   *)
(* changes, and of a row that is never taken away.                         *)
(***************************************************************************)
EXTENDS PriorityDecisionProperties, TLAPS

\* What a handler at statement ph with the request in and the snapshot old
\* has established; it does not depend on the versions the client sent.
HandlerFacts(ph, in, old) ==
    /\ ph \in InFlight => in \in Input
    /\ (ph \in {"write", "audit"} /\ in.kind \in {"create", "update"}) =>
          in.evidence \in Evidence
    /\ ph \in {"write", "audit"} => in.kind # "get"
    /\ (ph \in {"write", "audit"} /\ in.kind # "create") =>
          /\ old \in Decision
          /\ decisions[in.code] # NoDecision
          /\ old.preparedBy = decisions[in.code].preparedBy
    /\ (ph \in {"write", "audit"} /\ in.kind = "update") =>
          old.status = "draft" /\ MayEdit(old, in.user)
    /\ (ph \in {"write", "audit"} /\ in.kind = "transition") =>
          /\ in.target \in PriorityLevels
          /\ RoleOf[in.user] \in {"reviewer", "admin"}
          /\ in.user # old.preparedBy

HandlersOK == \A r \in Reqs : HandlerFacts(phase[r], input[r], current[r])

IInv == TypeOK /\ RevisionChain /\ IndependentReview /\ DraftsByOwner /\ HandlersOK

\* Rows come and stay, and keep their preparer.
RowsStay == \A c \in Codes :
    decisions[c] # NoDecision =>
        /\ decisions'[c] # NoDecision
        /\ decisions'[c].preparedBy = decisions[c].preparedBy

-----------------------------------------------------------------------------
(***************************************************************************)
(* The initial state.                                                      *)
(***************************************************************************)
LEMMA InitInductive == Init => IInv
<1> SUFFICES ASSUME Init PROVE IInv
    OBVIOUS
<1> USE SeedAssumption, NoDecisionAssumption
<1>1. \A c \in DOMAIN SeedStatus :
         /\ SeedRow(c) \in Decision
         /\ SeedRow(c) # NoDecision
         /\ SeedRow(c).version \in {1, 2}
         /\ DOMAIN SeedRevisions(c) = 1 .. SeedRow(c).version
         /\ \A v \in DOMAIN SeedRevisions(c) : SeedRevisions(c)[v] \in Revision
  <2> SUFFICES ASSUME NEW c \in DOMAIN SeedStatus
               PROVE  /\ SeedRow(c) \in Decision
                      /\ SeedRow(c) # NoDecision
                      /\ SeedRow(c).version \in {1, 2}
                      /\ DOMAIN SeedRevisions(c) = 1 .. SeedRow(c).version
                      /\ \A v \in DOMAIN SeedRevisions(c) : SeedRevisions(c)[v] \in Revision
      OBVIOUS
  <2>1. SeedRow(c) \in Decision /\ SeedRow(c).version \in {1, 2}
      BY DEF SeedRow, Decision
  <2>2. SeedRow(c) # NoDecision
      BY <2>1
  <2>3. DOMAIN SeedRevisions(c) = 1 .. SeedRow(c).version
      BY DEF SeedRevisions
  <2>4. \A v \in DOMAIN SeedRevisions(c) : SeedRevisions(c)[v] \in Revision
      BY <2>3 DEF SeedRevisions, Revision, PriorityDecisionStatuses
  <2>5. QED
      BY <2>1, <2>2, <2>3, <2>4
<1>2. DOMAIN NoRevisions = {}
    BY DEF NoRevisions
<1>3. TypeOK
  <2>1. decisions \in [Codes -> Decision \cup {NoDecision}]
      BY <1>1 DEF Init
  <2>2. \A c \in Codes : /\ DOMAIN revisions[c] \subseteq Nat
                         /\ \A v \in DOMAIN revisions[c] : revisions[c][v] \in Revision
      BY <1>1, <1>2 DEF Init
  <2>3. QED
      BY <2>1, <2>2 DEF Init, TypeOK, Phases
<1>4. RevisionChain
  <2> SUFFICES ASSUME NEW c \in Codes PROVE ChainOf(c)
      BY DEF RevisionChain
  <2>1. CASE c \in DOMAIN SeedStatus
      BY <2>1, <1>1 DEF Init, ChainOf, SeedRow, SeedRevisions
  <2>2. CASE c \notin DOMAIN SeedStatus
      BY <2>2, <1>2 DEF Init, ChainOf
  <2>3. QED
      BY <2>1, <2>2
<1>5. IndependentReview
  <2> SUFFICES ASSUME NEW c \in Codes, NEW v \in DOMAIN revisions[c],
                      revisions[c][v].status # "draft"
               PROVE  /\ RoleOf[revisions[c][v].actor] \in {"reviewer", "admin"}
                      /\ revisions[c][v].actor # decisions[c].preparedBy
      BY DEF IndependentReview
  <2>1. c \in DOMAIN SeedStatus
      BY <1>2 DEF Init
  <2>2. QED
      BY <2>1, <1>1 DEF Init, SeedRow, SeedRevisions
<1>6. DraftsByOwner
  <2> SUFFICES ASSUME NEW c \in Codes, NEW v \in DOMAIN revisions[c],
                      revisions[c][v].status = "draft"
               PROVE  \/ revisions[c][v].actor = decisions[c].preparedBy
                      \/ RoleOf[revisions[c][v].actor] = "admin"
      BY DEF DraftsByOwner
  <2>1. c \in DOMAIN SeedStatus
      BY <1>2 DEF Init
  <2>2. QED
      BY <2>1, <1>1 DEF Init, SeedRow, SeedRevisions
<1>7. HandlersOK
    BY DEF Init, HandlersOK, HandlerFacts, InFlight
<1>8. QED
    BY <1>3, <1>4, <1>5, <1>6, <1>7 DEF IInv

-----------------------------------------------------------------------------
(***************************************************************************)
(* Handlers.                                                               *)
(***************************************************************************)
\* A handler that does not move keeps what it has established, whatever the
\* others do to the rows.
LEMMA HandlerKept ==
    ASSUME NEW r \in Reqs, HandlersOK, RowsStay,
           phase'[r] = phase[r], input'[r] = input[r], current'[r] = current[r]
    PROVE  HandlerFacts(phase[r], input[r], current[r])'
<1>1. HandlerFacts(phase[r], input[r], current[r])
    BY DEF HandlersOK
<1>2. (phase[r] \in {"write", "audit"} /\ input[r].kind # "create") =>
         /\ input[r].code \in Codes
         /\ decisions[input[r].code] # NoDecision
    BY <1>1 DEF HandlerFacts, InFlight, Input
<1>3. (phase[r] \in {"write", "audit"} /\ input[r].kind # "create") =>
         /\ decisions'[input[r].code] # NoDecision
         /\ decisions'[input[r].code].preparedBy = decisions[input[r].code].preparedBy
    BY <1>2 DEF RowsStay
<1>4. QED
    BY <1>1, <1>3 DEF HandlerFacts

\* Nothing is expected of a handler that is over.
LEMMA NothingOwed ==
    ASSUME NEW r \in Reqs, phase'[r] \in {"idle"} \cup Outcomes
    PROVE  HandlerFacts(phase[r], input[r], current[r])'
BY DEF HandlerFacts, Outcomes, InFlight

\* A step that leaves the tables alone keeps the invariant if the handler that
\* takes it keeps its part.
LEMMA QuietStep ==
    ASSUME IInv, UNCHANGED database, NEW r \in Reqs,
           DOMAIN shown' = Reqs,
           phase' \in [Reqs -> Phases],
           input' \in [Reqs -> Input \cup {NoInput}],
           current' \in [Reqs -> Decision \cup {NoDecision}],
           \A q \in Reqs \ {r} : /\ phase'[q] = phase[q]
                                 /\ input'[q] = input[q]
                                 /\ current'[q] = current[q],
           HandlerFacts(phase[r], input[r], current[r])'
    PROVE  IInv'
<1>1. RowsStay
    BY DEF RowsStay, database
<1>2. TypeOK'
    BY DEF IInv, TypeOK, database
<1>3. RevisionChain' /\ IndependentReview' /\ DraftsByOwner'
    BY DEF IInv, RevisionChain, ChainOf, IndependentReview, DraftsByOwner, database
<1>4. HandlersOK'
  <2> SUFFICES ASSUME NEW q \in Reqs
               PROVE  HandlerFacts(phase[q], input[q], current[q])'
      BY DEF HandlersOK
  <2>1. CASE q = r
      BY <2>1
  <2>2. CASE q # r
      BY <2>2, <1>1, HandlerKept DEF IInv
  <2>3. QED
      BY <2>1, <2>2
<1>5. QED
    BY <1>2, <1>3, <1>4 DEF IInv

\* A request that ends without touching the tables.
LEMMA FinishKeeps ==
    ASSUME IInv, UNCHANGED <<database, shown>>, NEW r \in Reqs,
           NEW outcome \in Outcomes, Finish(r, outcome)
    PROVE  IInv'
<1>1. /\ phase' \in [Reqs -> Phases]
      /\ input' \in [Reqs -> Input \cup {NoInput}]
      /\ current' \in [Reqs -> Decision \cup {NoDecision}]
      /\ DOMAIN shown' = Reqs
    BY DEF IInv, TypeOK, Finish, Phases
<1>2. \A q \in Reqs \ {r} : /\ phase'[q] = phase[q]
                            /\ input'[q] = input[q]
                            /\ current'[q] = current[q]
    BY DEF IInv, TypeOK, Finish
<1>3. phase'[r] = outcome
    BY DEF IInv, TypeOK, Finish
<1>4. HandlerFacts(phase[r], input[r], current[r])'
    BY <1>3, NothingOwed
<1>5. UNCHANGED database
    OBVIOUS
<1>6. QED
    BY <1>1, <1>2, <1>4, <1>5, QuietStep

-----------------------------------------------------------------------------
(***************************************************************************)
(* Arrivals: what the verdicts of the business rules guarantee.            *)
(***************************************************************************)
LEMMA EnterKeeps ==
    ASSUME IInv, NEW r \in Reqs, NEW request \in Input,
           NEW verdict \in {"write", "preload"} \cup Outcomes,
           NEW snapshot \in Decision \cup {NoDecision},
           Enter(r, request, verdict, snapshot),
           verdict = "write" => HandlerFacts("write", request, snapshot)
    PROVE  IInv'
<1>1. /\ phase' \in [Reqs -> Phases]
      /\ input' \in [Reqs -> Input \cup {NoInput}]
      /\ current' \in [Reqs -> Decision \cup {NoDecision}]
      /\ DOMAIN shown' = Reqs
    BY DEF IInv, TypeOK, Enter, Phases, InFlight
<1>2. \A q \in Reqs \ {r} : /\ phase'[q] = phase[q]
                            /\ input'[q] = input[q]
                            /\ current'[q] = current[q]
    BY DEF IInv, TypeOK, Enter
<1>3. UNCHANGED database /\ UNCHANGED decisions
    BY DEF Enter, database
<1>4. phase'[r] = verdict
    BY DEF IInv, TypeOK, Enter
<1>5. verdict \in InFlight => input'[r] = request /\ current'[r] = snapshot
    BY DEF IInv, TypeOK, Enter
<1>6. HandlerFacts(phase[r], input[r], current[r])'
  <2>1. CASE verdict \in Outcomes
      BY <2>1, <1>4, NothingOwed
  <2>2. CASE verdict = "preload"
      BY <2>2, <1>4, <1>5 DEF HandlerFacts, InFlight
  <2>3. CASE verdict = "write"
      BY <2>3, <1>3, <1>4, <1>5 DEF HandlerFacts, InFlight
  <2>4. QED
      BY <2>1, <2>2, <2>3
<1>7. QED
    BY <1>1, <1>2, <1>3, <1>6, QuietStep

LEMMA KnownVersionsAreNat ==
    ASSUME IInv, NEW c \in Codes
    PROVE  KnownVersions(c) \subseteq Nat
BY LookaheadAssumption DEF IInv, TypeOK, KnownVersions, Decision

LEMMA ReceiveKeeps ==
    ASSUME IInv, NEW r \in Reqs, Receive(r)
    PROVE  IInv'
<1>1. CASE ReceiveCreate(r)
  <2>1. PICK user \in Users, c \in Codes, evidence \in Evidence \cup {Blank} :
            Enter(r, [Request("create", user, c) EXCEPT !.evidence = evidence],
                  IF evidence = Blank THEN "rule" ELSE "write", NoDecision)
      BY <1>1 DEF ReceiveCreate
  <2> DEFINE request == [Request("create", user, c) EXCEPT !.evidence = evidence]
             verdict == IF evidence = Blank THEN "rule" ELSE "write"
  <2>2. request \in Input /\ request.kind = "create" /\ request.evidence = evidence
      BY DEF Request, Input, PriorityDecisionStatuses
  <2>3. verdict \in {"write", "preload"} \cup Outcomes
      BY DEF Outcomes
  <2>4. verdict = "write" => HandlerFacts("write", request, NoDecision)
      BY <2>2 DEF HandlerFacts
  <2>5. QED
      BY <2>1, <2>2, <2>3, <2>4, EnterKeeps
<1>2. CASE ReceiveUpdate(r)
  <2>1. PICK user \in Users, c \in Codes, evidence \in Evidence \cup {Blank},
             expected \in Nat :
            Enter(r, [Request("update", user, c) EXCEPT !.expected = expected,
                                                        !.evidence = evidence],
                  EditVerdict(decisions[c], user, evidence), decisions[c])
      BY <1>2, KnownVersionsAreNat DEF ReceiveUpdate
  <2> DEFINE request == [Request("update", user, c) EXCEPT
                            !.expected = expected, !.evidence = evidence]
             verdict == EditVerdict(decisions[c], user, evidence)
  <2>2. /\ request \in Input /\ request.kind = "update"
        /\ request.evidence = evidence /\ request.code = c /\ request.user = user
      BY DEF Request, Input, PriorityDecisionStatuses
  <2>3. verdict \in {"write", "preload"} \cup Outcomes
      BY DEF Outcomes, EditVerdict
  <2>4. decisions[c] \in Decision \cup {NoDecision}
      BY DEF IInv, TypeOK
  <2>5. verdict = "write" => /\ decisions[c] # NoDecision
                             /\ decisions[c].status = "draft"
                             /\ MayEdit(decisions[c], user)
                             /\ evidence # Blank
      BY DEF EditVerdict, Live
  <2>6. verdict = "write" => HandlerFacts("write", request, decisions[c])
      BY <2>2, <2>4, <2>5 DEF HandlerFacts
  <2>7. QED
      BY <2>1, <2>2, <2>3, <2>4, <2>6, EnterKeeps
<1>3. CASE ReceiveTransition(r)
  <2>1. PICK user \in Users, c \in Codes, target \in PriorityDecisionStatuses,
             expected \in Nat :
            Enter(r, [Request("transition", user, c) EXCEPT
                        !.expected = expected, !.target = target],
                  ReviewVerdict(decisions[c], user, target), decisions[c])
      BY <1>3, KnownVersionsAreNat DEF ReceiveTransition
  <2> DEFINE request == [Request("transition", user, c) EXCEPT
                            !.expected = expected, !.target = target]
             verdict == ReviewVerdict(decisions[c], user, target)
  <2>2. /\ request \in Input /\ request.kind = "transition"
        /\ request.target = target /\ request.code = c /\ request.user = user
      BY DEF Request, Input, PriorityDecisionStatuses
  <2>3. verdict \in {"write", "preload"} \cup Outcomes
      BY DEF Outcomes, ReviewVerdict
  <2>4. decisions[c] \in Decision \cup {NoDecision}
      BY DEF IInv, TypeOK
  <2>5. verdict = "write" =>
           /\ decisions[c] # NoDecision
           /\ RoleOf[user] \in {"reviewer", "admin"}
           /\ user # decisions[c].preparedBy
           /\ CanTransition(PriorityDecisionTransitions, decisions[c].status, target)
      BY DEF ReviewVerdict, Live, MayReview
  <2>6. verdict = "write" => target \in PriorityLevels
      BY <2>5 DEF CanTransition, PriorityDecisionTransitions
  <2>7. verdict = "write" => HandlerFacts("write", request, decisions[c])
      BY <2>2, <2>4, <2>5, <2>6 DEF HandlerFacts
  <2>8. QED
      BY <2>1, <2>2, <2>3, <2>4, <2>7, EnterKeeps
<1>4. CASE ReceiveDelete(r)
  <2>1. PICK user \in Users, c \in Codes :
            Enter(r, Request("delete", user, c), RemoveVerdict(decisions[c]),
                  decisions[c])
      BY <1>4 DEF ReceiveDelete
  <2> DEFINE request == Request("delete", user, c)
  <2>2. request \in Input /\ request.kind = "delete" /\ request.code = c
      BY DEF Request, Input, PriorityDecisionStatuses
  <2>3. RemoveVerdict(decisions[c]) \in {"write", "preload"} \cup Outcomes
      BY DEF Outcomes, RemoveVerdict
  <2>4. decisions[c] \in Decision \cup {NoDecision}
      BY DEF IInv, TypeOK
  <2>5. RemoveVerdict(decisions[c]) = "write" => decisions[c] # NoDecision
      BY DEF RemoveVerdict, Live
  <2>6. RemoveVerdict(decisions[c]) = "write" =>
           HandlerFacts("write", request, decisions[c])
      BY <2>2, <2>4, <2>5 DEF HandlerFacts
  <2>7. QED
      BY <2>1, <2>2, <2>3, <2>4, <2>6, EnterKeeps
<1>5. CASE ReceiveGet(r)
  <2>1. PICK user \in Users, c \in Codes :
            Enter(r, Request("get", user, c),
                  IF Live(decisions[c]) THEN "preload" ELSE "notFound", decisions[c])
      BY <1>5 DEF ReceiveGet
  <2>2. Request("get", user, c) \in Input
      BY DEF Request, Input, PriorityDecisionStatuses
  <2>3. decisions[c] \in Decision \cup {NoDecision}
      BY DEF IInv, TypeOK
  <2>4. (IF Live(decisions[c]) THEN "preload" ELSE "notFound")
           \in {"preload"} \cup Outcomes
      BY DEF Outcomes
  <2>5. (IF Live(decisions[c]) THEN "preload" ELSE "notFound") # "write"
      OBVIOUS
  <2>6. QED
      BY <2>1, <2>2, <2>3, <2>4, <2>5, EnterKeeps
<1>6. QED
    BY <1>1, <1>2, <1>3, <1>4, <1>5 DEF Receive

-----------------------------------------------------------------------------
(***************************************************************************)
(* The write transactions.                                                 *)
(***************************************************************************)
\* The writer goes on to its audit entry; it has what it had.
LEMMA GotoAudit ==
    ASSUME IInv, RowsStay, NEW r \in Reqs, phase[r] = "write", Goto(r, "audit")
    PROVE  /\ HandlersOK'
           /\ phase' \in [Reqs -> Phases]
           /\ UNCHANGED <<input, current>>
<1>1. phase' \in [Reqs -> Phases] /\ phase'[r] = "audit"
    BY DEF IInv, TypeOK, Goto, Phases, InFlight
<1>2. UNCHANGED <<input, current>>
    BY DEF Goto
<1>3. HandlerFacts(phase[r], input[r], current[r])'
  <2>1. HandlerFacts("write", input[r], current[r])
      BY DEF IInv, HandlersOK
  <2>2. input[r].kind # "create" => input[r].code \in Codes
      BY <2>1 DEF HandlerFacts, InFlight, Input
  <2>3. input[r].kind # "create" =>
           /\ decisions'[input[r].code] # NoDecision
           /\ decisions'[input[r].code].preparedBy = decisions[input[r].code].preparedBy
      BY <2>1, <2>2 DEF HandlerFacts, RowsStay
  <2>4. QED
      BY <1>1, <1>2, <2>1, <2>3 DEF HandlerFacts, InFlight
<1>4. ASSUME NEW q \in Reqs, q # r
      PROVE  HandlerFacts(phase[q], input[q], current[q])'
  <2>1. phase'[q] = phase[q]
      BY <1>4 DEF IInv, TypeOK, Goto
  <2>2. QED
      BY <1>2, <2>1, HandlerKept DEF IInv
<1>5. QED
    BY <1>1, <1>2, <1>3, <1>4 DEF HandlersOK

LEMMA CreateKeeps ==
    ASSUME IInv, NEW r \in Reqs, CreateWithRevision(r)
    PROVE  IInv'
<1> DEFINE c == input[r].code
           item == Edited(r)
           revision == NewRevision(r, item)
<1>1. /\ input[r] \in Input /\ input[r].kind = "create"
      /\ input[r].evidence \in Evidence /\ c \in Codes
    BY DEF IInv, HandlersOK, HandlerFacts, InFlight, CreateWithRevision, Input
<1>2. item = [status |-> "draft", version |-> 1, evidence |-> input[r].evidence,
              preparedBy |-> input[r].user, deleted |-> FALSE]
    BY <1>1 DEF Edited
<1>3. item \in Decision /\ item # NoDecision
  <2>1. input[r].user \in Users
      BY <1>1 DEF Input
  <2>2. item \in Decision
      BY <1>1, <1>2, <2>1 DEF Decision, PriorityDecisionStatuses
  <2>3. QED
      BY <2>2, NoDecisionAssumption
<1>4. revision = [status |-> "draft", evidence |-> item.evidence,
                  actor |-> item.preparedBy, request |-> r]
    BY <1>2 DEF NewRevision
<1>5. revision \in Revision
  <2>1. item.evidence \in Evidence /\ item.preparedBy \in Users
      BY <1>3 DEF Decision
  <2>2. QED
      BY <1>4, <2>1 DEF Revision, PriorityDecisionStatuses
<1>6. CASE decisions[c] = NoDecision
  <2>1. /\ decisions' = [decisions EXCEPT ![c] = item]
        /\ revisions' = [revisions EXCEPT ![c] =
                            WithRevision(NoRevisions, 1, revision)]
        /\ Goto(r, "audit") /\ phase[r] = "write"
        /\ UNCHANGED <<audits, shown>>
      BY <1>6 DEF CreateWithRevision
  <2>2. /\ decisions'[c] = item
        /\ \A d \in Codes \ {c} : decisions'[d] = decisions[d]
        /\ decisions' \in [Codes -> Decision \cup {NoDecision}]
      BY <1>1, <1>3, <2>1 DEF IInv, TypeOK
  <2>3. /\ DOMAIN revisions'[c] = {1} /\ revisions'[c][1] = revision
        /\ \A d \in Codes \ {c} : revisions'[d] = revisions[d]
        /\ DOMAIN revisions' = Codes
      BY <1>1, <2>1 DEF IInv, TypeOK, WithRevision, NoRevisions
  <2>4. RowsStay
      BY <1>6, <2>2 DEF RowsStay
  <2>5. /\ HandlersOK' /\ phase' \in [Reqs -> Phases]
        /\ UNCHANGED <<input, current>>
      BY <2>1, <2>4, GotoAudit
  <2>6. TypeOK'
      BY <1>5, <2>1, <2>2, <2>3, <2>5 DEF IInv, TypeOK
  <2>7. RevisionChain'
    <3> SUFFICES ASSUME NEW d \in Codes PROVE ChainOf(d)'
        BY DEF RevisionChain
    <3>1. CASE d = c
        BY <3>1, <1>2, <1>3, <1>4, <2>2, <2>3 DEF ChainOf
    <3>2. CASE d # c
        BY <3>2, <2>2, <2>3 DEF IInv, RevisionChain, ChainOf
    <3>3. QED
        BY <3>1, <3>2
  <2>8. IndependentReview'
      BY <1>4, <2>2, <2>3 DEF IInv, IndependentReview
  <2>9. DraftsByOwner'
      BY <1>4, <2>2, <2>3 DEF IInv, DraftsByOwner
  <2>10. QED
      BY <2>5, <2>6, <2>7, <2>8, <2>9 DEF IInv
<1>7. CASE decisions[c] # NoDecision
    BY <1>7, FinishKeeps DEF CreateWithRevision, Outcomes, database
<1>8. QED
    BY <1>6, <1>7

\* What a matched update does to the row and to its revisions.
LEMMA UpdateKeeps ==
    ASSUME IInv, NEW r \in Reqs, UpdateWithRevision(r)
    PROVE  IInv'
<1> DEFINE c == input[r].code
           item == Edited(r)
           revision == NewRevision(r, item)
           row == decisions[c]
           matched == Matches(row, input[r].expected)
<1>1. /\ phase[r] = "write" /\ input[r] \in Input /\ c \in Codes
      /\ input[r].kind \in {"update", "transition"}
      /\ HandlerFacts("write", input[r], current[r])
    BY DEF IInv, HandlersOK, HandlerFacts, InFlight, UpdateWithRevision, Input
<1>2. /\ current[r] \in Decision /\ row # NoDecision /\ row \in Decision
      /\ current[r].preparedBy = row.preparedBy
    BY <1>1 DEF HandlerFacts, IInv, TypeOK
<1>3. /\ item \in Decision /\ item.version = input[r].expected + 1
      /\ item.status # "draft" =>
            /\ RoleOf[input[r].user] \in {"reviewer", "admin"}
            /\ input[r].user # row.preparedBy
      /\ item.status = "draft" => MayEdit(row, input[r].user)
  <2>1. CASE input[r].kind = "update"
    <3>1. item = [current[r] EXCEPT !.version = input[r].expected + 1,
                                    !.evidence = input[r].evidence]
        BY <2>1 DEF Edited
    <3>2. /\ input[r].evidence \in Evidence /\ current[r].status = "draft"
          /\ MayEdit(row, input[r].user)
        BY <1>1, <1>2, <2>1 DEF HandlerFacts, MayEdit
    <3>3. /\ item.version = input[r].expected + 1
          /\ item.status = current[r].status
          /\ item = [status |-> current[r].status,
                     version |-> input[r].expected + 1,
                     evidence |-> input[r].evidence,
                     preparedBy |-> current[r].preparedBy,
                     deleted |-> current[r].deleted]
        BY <1>2, <3>1 DEF Decision
    <3>4. QED
        BY <1>1, <1>2, <3>2, <3>3 DEF Decision, Input
  <2>2. CASE input[r].kind = "transition"
    <3>1. item = [current[r] EXCEPT !.version = input[r].expected + 1,
                                    !.status = input[r].target]
        BY <2>2 DEF Edited
    <3>2. /\ RoleOf[input[r].user] \in {"reviewer", "admin"}
          /\ input[r].user # current[r].preparedBy
          /\ input[r].target # "draft"
        BY <1>1, <2>2 DEF HandlerFacts, PriorityLevels
    <3>3. /\ item.version = input[r].expected + 1
          /\ item = [status |-> input[r].target,
                     version |-> input[r].expected + 1,
                     evidence |-> current[r].evidence,
                     preparedBy |-> current[r].preparedBy,
                     deleted |-> current[r].deleted]
        BY <1>2, <3>1 DEF Decision
    <3>4. QED
        BY <1>1, <1>2, <3>2, <3>3 DEF Decision, Input
  <2>3. QED
      BY <1>1, <2>1, <2>2
<1>4. /\ revision \in Revision
      /\ revision.status = item.status /\ revision.evidence = item.evidence
      /\ revision.actor = input[r].user
    BY <1>1, <1>3 DEF NewRevision, Revision, Decision, Input
<1>5. CASE matched /\ item.version \notin DOMAIN revisions[c]
  <2>1. /\ decisions' = [decisions EXCEPT ![c] = Rewritten(row, item)]
        /\ revisions' = [revisions EXCEPT ![c] =
                            WithRevision(revisions[c], item.version, revision)]
        /\ Goto(r, "audit")
        /\ UNCHANGED <<audits, shown>>
      BY <1>5 DEF UpdateWithRevision
  <2>2. /\ Rewritten(row, item) \in Decision
        /\ Rewritten(row, item).status = item.status
        /\ Rewritten(row, item).evidence = item.evidence
        /\ Rewritten(row, item).version = row.version + 1
        /\ Rewritten(row, item).preparedBy = row.preparedBy
      BY <1>2, <1>3, <1>5 DEF Rewritten, Decision, Matches
  <2>3. /\ decisions'[c] = Rewritten(row, item)
        /\ decisions'[c] # NoDecision
        /\ \A d \in Codes \ {c} : decisions'[d] = decisions[d]
        /\ decisions' \in [Codes -> Decision \cup {NoDecision}]
      BY <1>1, <2>1, <2>2, NoDecisionAssumption DEF IInv, TypeOK
  <2>4. /\ DOMAIN revisions'[c] = DOMAIN revisions[c] \cup {item.version}
        /\ revisions'[c][item.version] = revision
        /\ \A v \in DOMAIN revisions[c] : revisions'[c][v] = revisions[c][v]
        /\ \A d \in Codes \ {c} : revisions'[d] = revisions[d]
        /\ DOMAIN revisions' = Codes
      BY <1>1, <1>5, <2>1 DEF IInv, TypeOK, WithRevision
  <2>5. RowsStay
      BY <2>2, <2>3 DEF RowsStay
  <2>6. /\ HandlersOK' /\ phase' \in [Reqs -> Phases]
        /\ UNCHANGED <<input, current>>
      BY <1>1, <2>1, <2>5, GotoAudit
  <2>7. TypeOK'
    <3>1. \A d \in Codes : /\ DOMAIN revisions'[d] \subseteq Nat
                           /\ \A v \in DOMAIN revisions'[d] :
                                 revisions'[d][v] \in Revision
      <4> SUFFICES ASSUME NEW d \in Codes
                   PROVE  /\ DOMAIN revisions'[d] \subseteq Nat
                          /\ \A v \in DOMAIN revisions'[d] :
                                revisions'[d][v] \in Revision
          OBVIOUS
      <4>1. item.version \in Nat
          BY <1>3 DEF Decision
      <4>2. CASE d = c
          BY <4>1, <4>2, <1>4, <2>4 DEF IInv, TypeOK
      <4>3. CASE d # c
          BY <4>3, <2>4 DEF IInv, TypeOK
      <4>4. QED
          BY <4>2, <4>3
    <3>2. QED
        BY <3>1, <2>1, <2>3, <2>4, <2>6 DEF IInv, TypeOK
  <2>8. RevisionChain'
    <3> SUFFICES ASSUME NEW d \in Codes PROVE ChainOf(d)'
        BY DEF RevisionChain
    <3>1. CASE d = c
      <4>1. /\ row.version \in Nat \ {0}
            /\ DOMAIN revisions[c] = 1 .. row.version
            /\ revisions[c][1].status = "draft"
            /\ revisions[c][1].actor = row.preparedBy
          BY <1>1, <1>2 DEF IInv, RevisionChain, ChainOf
      <4>2. item.version = row.version + 1
          BY <1>3, <1>5 DEF Matches
      <4>3. DOMAIN revisions'[c] = 1 .. row.version + 1
          BY <2>4, <4>1, <4>2
      <4>4. /\ revisions'[c][1] = revisions[c][1]
            /\ revisions'[c][row.version + 1] = revision
          BY <2>4, <4>1, <4>2
      <4>5. QED
          BY <3>1, <1>4, <2>2, <2>3, <4>1, <4>3, <4>4 DEF ChainOf
    <3>2. CASE d # c
        BY <3>2, <2>3, <2>4 DEF IInv, RevisionChain, ChainOf
    <3>3. QED
        BY <3>1, <3>2
  <2>9. IndependentReview'
    <3> SUFFICES ASSUME NEW d \in Codes, NEW v \in DOMAIN revisions'[d],
                        revisions'[d][v].status # "draft"
                 PROVE  /\ RoleOf[revisions'[d][v].actor] \in {"reviewer", "admin"}
                        /\ revisions'[d][v].actor # decisions'[d].preparedBy
        BY DEF IndependentReview
    <3>1. CASE d # c
        BY <3>1, <2>3, <2>4 DEF IInv, IndependentReview
    <3>2. CASE d = c /\ v \in DOMAIN revisions[c]
        BY <3>2, <1>1, <2>2, <2>3, <2>4 DEF IInv, IndependentReview
    <3>3. CASE d = c /\ v = item.version
        BY <3>3, <1>3, <1>4, <2>2, <2>3, <2>4
    <3>4. QED
        BY <3>1, <3>2, <3>3, <2>4
  <2>10. DraftsByOwner'
    <3> SUFFICES ASSUME NEW d \in Codes, NEW v \in DOMAIN revisions'[d],
                        revisions'[d][v].status = "draft"
                 PROVE  \/ revisions'[d][v].actor = decisions'[d].preparedBy
                        \/ RoleOf[revisions'[d][v].actor] = "admin"
        BY DEF DraftsByOwner
    <3>1. CASE d # c
        BY <3>1, <2>3, <2>4 DEF IInv, DraftsByOwner
    <3>2. CASE d = c /\ v \in DOMAIN revisions[c]
        BY <3>2, <1>1, <2>2, <2>3, <2>4 DEF IInv, DraftsByOwner
    <3>3. CASE d = c /\ v = item.version
        BY <3>3, <1>3, <1>4, <2>2, <2>3, <2>4 DEF MayEdit
    <3>4. QED
        BY <3>1, <3>2, <3>3, <2>4
  <2>11. QED
      BY <2>6, <2>7, <2>8, <2>9, <2>10 DEF IInv
<1>6. CASE ~(matched /\ item.version \notin DOMAIN revisions[c])
  <2>1. /\ Finish(r, IF matched THEN "internal" ELSE "conflict")
        /\ UNCHANGED <<database, shown>>
      BY <1>6 DEF UpdateWithRevision, database
  <2>2. (IF matched THEN "internal" ELSE "conflict") \in Outcomes
      BY DEF Outcomes
  <2>3. QED
      BY <2>1, <2>2, FinishKeeps
<1>7. QED
    BY <1>5, <1>6

LEMMA DeleteKeeps ==
    ASSUME IInv, NEW r \in Reqs, Delete(r)
    PROVE  IInv'
<1> DEFINE c == input[r].code
<1>1. /\ phase[r] = "write" /\ c \in Codes
      /\ decisions[c] \in Decision \cup {NoDecision}
    BY DEF IInv, TypeOK, HandlersOK, HandlerFacts, InFlight, Delete, Input
<1>2. CASE Removes(decisions[c])
  <2>1. /\ decisions' = [decisions EXCEPT ![c].deleted = TRUE]
        /\ Goto(r, "audit")
        /\ UNCHANGED <<revisions, audits, shown>>
      BY <1>2 DEF Delete
  <2>2. decisions[c] \in Decision /\ decisions[c] # NoDecision
      BY <1>1, <1>2 DEF Removes, Live
  <2>3. /\ decisions'[c] = [decisions[c] EXCEPT !.deleted = TRUE]
        /\ \A d \in Codes \ {c} : decisions'[d] = decisions[d]
      BY <1>1, <2>1 DEF IInv, TypeOK
  <2>4. /\ decisions'[c] \in Decision /\ decisions'[c] # NoDecision
        /\ decisions'[c].status = decisions[c].status
        /\ decisions'[c].version = decisions[c].version
        /\ decisions'[c].evidence = decisions[c].evidence
        /\ decisions'[c].preparedBy = decisions[c].preparedBy
      BY <2>2, <2>3, NoDecisionAssumption DEF Decision
  <2>5. RowsStay
      BY <2>3, <2>4 DEF RowsStay
  <2>6. /\ HandlersOK' /\ phase' \in [Reqs -> Phases]
        /\ UNCHANGED <<input, current>>
      BY <1>1, <2>1, <2>5, GotoAudit
  <2>7. decisions' \in [Codes -> Decision \cup {NoDecision}]
      BY <1>1, <2>1, <2>3, <2>4 DEF IInv, TypeOK
  <2>8. TypeOK'
      BY <2>1, <2>6, <2>7 DEF IInv, TypeOK
  <2>9. RevisionChain'
    <3> SUFFICES ASSUME NEW d \in Codes PROVE ChainOf(d)'
        BY DEF RevisionChain
    <3>1. CASE d = c
        BY <3>1, <2>1, <2>2, <2>4 DEF IInv, RevisionChain, ChainOf
    <3>2. CASE d # c
        BY <3>2, <2>1, <2>3 DEF IInv, RevisionChain, ChainOf
    <3>3. QED
        BY <3>1, <3>2
  <2>10. IndependentReview' /\ DraftsByOwner'
      BY <2>1, <2>3, <2>4 DEF IInv, IndependentReview, DraftsByOwner
  <2>11. QED
      BY <2>6, <2>8, <2>9, <2>10 DEF IInv
<1>3. CASE ~Removes(decisions[c])
    BY <1>3, FinishKeeps DEF Delete, Outcomes, database
<1>4. QED
    BY <1>2, <1>3

-----------------------------------------------------------------------------
(***************************************************************************)
(* After the commit, and faults.                                           *)
(***************************************************************************)
\* Going on to the response read.
LEMMA GotoReload ==
    ASSUME IInv, NEW r \in Reqs, phase[r] = "audit", Goto(r, "reload")
    PROVE  /\ phase' \in [Reqs -> Phases]
           /\ \A q \in Reqs \ {r} : phase'[q] = phase[q]
           /\ UNCHANGED <<input, current>>
           /\ HandlerFacts(phase[r], input[r], current[r])'
<1>1. phase' \in [Reqs -> Phases] /\ phase'[r] = "reload"
    BY DEF IInv, TypeOK, Goto, Phases, InFlight
<1>2. \A q \in Reqs \ {r} : phase'[q] = phase[q]
    BY DEF IInv, TypeOK, Goto
<1>3. input[r] \in Input
    BY DEF IInv, HandlersOK, HandlerFacts, InFlight
<1>4. QED
    BY <1>1, <1>2, <1>3 DEF Goto, HandlerFacts

\* The invariant says of the audit log only what rows it has.
LEMMA AuditsGrow ==
    ASSUME IInv, UNCHANGED <<decisions, revisions, shown>>,
           audits' \subseteq AuditLog, NEW r \in Reqs,
           phase' \in [Reqs -> Phases],
           input' \in [Reqs -> Input \cup {NoInput}],
           current' \in [Reqs -> Decision \cup {NoDecision}],
           \A q \in Reqs \ {r} : /\ phase'[q] = phase[q]
                                 /\ input'[q] = input[q]
                                 /\ current'[q] = current[q],
           HandlerFacts(phase[r], input[r], current[r])'
    PROVE  IInv'
<1>1. RowsStay
    BY DEF RowsStay
<1>2. TypeOK'
    BY DEF IInv, TypeOK
<1>3. RevisionChain' /\ IndependentReview' /\ DraftsByOwner'
    BY DEF IInv, RevisionChain, ChainOf, IndependentReview, DraftsByOwner
<1>4. ASSUME NEW q \in Reqs, q # r
      PROVE  HandlerFacts(phase[q], input[q], current[q])'
    BY <1>1, <1>4, HandlerKept DEF IInv
<1>5. QED
    BY <1>2, <1>3, <1>4 DEF IInv, HandlersOK

LEMMA AuditKeeps ==
    ASSUME IInv, NEW r \in Reqs, Audit(r) \/ AnswerLost(r)
    PROVE  IInv'
<1>1. /\ input[r] \in Input /\ input[r].kind # "get"
      /\ input[r].kind # "create" => current[r] \in Decision
      /\ phase[r] = "audit"
    BY DEF IInv, HandlersOK, HandlerFacts, InFlight, Audit, AnswerLost
<1>2. AuditEntry(r) \in AuditLog
  <2>1. /\ input[r].user \in Users /\ input[r].code \in Codes
        /\ input[r].target \in PriorityDecisionStatuses
        /\ input[r].kind \in {"create", "update", "transition", "delete"}
      BY <1>1 DEF Input
  <2>2. input[r].kind # "create" => current[r].status \in PriorityDecisionStatuses
      BY <1>1 DEF Decision
  <2>3. input[r].kind # "delete" => Edited(r).status \in PriorityDecisionStatuses
    <3>1. CASE input[r].kind = "create"
        BY <3>1 DEF Edited, PriorityDecisionStatuses
    <3>2. CASE input[r].kind = "update"
      <4>1. Edited(r) = [current[r] EXCEPT !.version = input[r].expected + 1,
                                           !.evidence = input[r].evidence]
          BY <3>2 DEF Edited
      <4>2. Edited(r).status = current[r].status
          BY <1>1, <3>2, <4>1 DEF Decision
      <4>3. QED
          BY <2>2, <3>2, <4>2
    <3>3. CASE input[r].kind = "transition"
      <4>1. Edited(r) = [current[r] EXCEPT !.version = input[r].expected + 1,
                                           !.status = input[r].target]
          BY <3>3 DEF Edited
      <4>2. Edited(r).status = input[r].target
          BY <1>1, <3>3, <4>1 DEF Decision
      <4>3. QED
          BY <2>1, <4>2
    <3>4. QED
        BY <2>1, <3>1, <3>2, <3>3
  <2>4. QED
      BY <2>1, <2>2, <2>3 DEF AuditEntry, AuditLog
<1>3. audits' \subseteq AuditLog /\ UNCHANGED <<decisions, revisions, shown>>
    BY <1>2 DEF Audit, AnswerLost, IInv, TypeOK
<1>4. CASE input[r].kind # "delete"
  <2>1. Goto(r, "reload")
      BY <1>4 DEF Audit, AnswerLost
  <2>2. QED
      BY <1>1, <1>3, <2>1, GotoReload, AuditsGrow DEF IInv, TypeOK
<1>5. CASE input[r].kind = "delete"
  <2>1. PICK outcome \in {"ok", "internal"} : Finish(r, outcome)
      BY <1>5 DEF Audit, AnswerLost
  <2>2. /\ phase' \in [Reqs -> Phases]
        /\ input' \in [Reqs -> Input \cup {NoInput}]
        /\ current' \in [Reqs -> Decision \cup {NoDecision}]
        /\ phase'[r] \in Outcomes
        /\ \A q \in Reqs \ {r} : /\ phase'[q] = phase[q]
                                 /\ input'[q] = input[q]
                                 /\ current'[q] = current[q]
      BY <2>1 DEF IInv, TypeOK, Finish, Phases, Outcomes
  <2>3. HandlerFacts(phase[r], input[r], current[r])'
      BY <2>2, NothingOwed
  <2>4. QED
      BY <1>3, <2>2, <2>3, AuditsGrow
<1>6. QED
    BY <1>4, <1>5

LEMMA ReloadKeeps ==
    ASSUME IInv, NEW r \in Reqs, Reload(r)
    PROVE  IInv'
<1> DEFINE row == decisions[input[r].code]
<1>1. /\ phase[r] = "reload" /\ input[r] \in Input
      /\ row \in Decision \cup {NoDecision}
    BY DEF IInv, TypeOK, HandlersOK, HandlerFacts, InFlight, Reload, Input
<1>2. CASE Live(row)
  <2>1. /\ phase' = [phase EXCEPT ![r] = "preload"]
        /\ current' = [current EXCEPT ![r] = row]
        /\ UNCHANGED <<database, shown, input>>
      BY <1>2 DEF Reload
  <2>2. /\ phase' \in [Reqs -> Phases]
        /\ current' \in [Reqs -> Decision \cup {NoDecision}]
        /\ phase'[r] = "preload"
        /\ \A q \in Reqs \ {r} : phase'[q] = phase[q] /\ current'[q] = current[q]
      BY <1>1, <2>1 DEF IInv, TypeOK, Phases, InFlight
  <2>3. HandlerFacts(phase[r], input[r], current[r])'
      BY <1>1, <2>1, <2>2 DEF HandlerFacts
  <2>4. QED
      BY <2>1, <2>2, <2>3, QuietStep DEF IInv, TypeOK
<1>3. CASE ~Live(row)
    BY <1>3, FinishKeeps DEF Reload, Outcomes
<1>4. QED
    BY <1>2, <1>3

LEMMA PreloadKeeps ==
    ASSUME IInv, NEW r \in Reqs, Preload(r)
    PROVE  IInv'
<1>1. /\ phase' \in [Reqs -> Phases]
      /\ input' \in [Reqs -> Input \cup {NoInput}]
      /\ DOMAIN shown' = Reqs
      /\ phase'[r] \in Outcomes
      /\ \A q \in Reqs \ {r} : phase'[q] = phase[q] /\ input'[q] = input[q]
      /\ UNCHANGED <<database, current>>
    BY DEF Preload, IInv, TypeOK, Phases, Outcomes
<1>2. HandlerFacts(phase[r], input[r], current[r])'
    BY <1>1, NothingOwed
<1>3. QED
    BY <1>1, <1>2, QuietStep DEF IInv, TypeOK

LEMMA FaultKeeps ==
    ASSUME IInv, NEW r \in Reqs, DatabaseFails(r) \/ AuditFails(r)
    PROVE  IInv'
<1>1. CASE DatabaseFails(r)
    BY <1>1, FinishKeeps DEF DatabaseFails, Outcomes
<1>2. CASE AuditFails(r) /\ AuditErrorIgnored(input[r].kind)
  <2>1. Goto(r, "reload") /\ phase[r] = "audit" /\ UNCHANGED <<database, shown>>
      BY <1>2 DEF AuditFails
  <2>2. QED
      BY <2>1, GotoReload, QuietStep DEF IInv, TypeOK
<1>3. CASE AuditFails(r) /\ ~AuditErrorIgnored(input[r].kind)
    BY <1>3, FinishKeeps DEF AuditFails, Outcomes
<1>4. QED
    BY <1>1, <1>2, <1>3

LEMMA CrashKeeps ==
    ASSUME IInv, Crash
    PROVE  IInv'
<1>1. UNCHANGED <<decisions, revisions, audits, shown>>
    BY DEF Crash, database
<1>2. /\ phase' \in [Reqs -> Phases]
      /\ input' \in [Reqs -> Input \cup {NoInput}]
      /\ current' \in [Reqs -> Decision \cup {NoDecision}]
      /\ \A r \in Reqs : phase'[r] \in {"idle"} \cup Outcomes
    BY DEF Crash, IInv, TypeOK, Phases, InFlight, Outcomes
<1>3. HandlersOK'
    BY <1>2, NothingOwed DEF HandlersOK
<1>4. TypeOK' /\ RevisionChain' /\ IndependentReview' /\ DraftsByOwner'
    BY <1>1, <1>2 DEF IInv, TypeOK, RevisionChain, ChainOf, IndependentReview,
                      DraftsByOwner
<1>5. QED
    BY <1>3, <1>4 DEF IInv

-----------------------------------------------------------------------------
(***************************************************************************)
(* The theorems.                                                           *)
(***************************************************************************)
LEMMA NextInductive == IInv /\ [Next]_vars => IInv'
<1> SUFFICES ASSUME IInv, [Next]_vars PROVE IInv'
    OBVIOUS
<1>1. ASSUME NEW r \in Reqs, Receive(r) PROVE IInv'
    BY <1>1, ReceiveKeeps
<1>2. ASSUME NEW r \in Reqs, Serve(r) PROVE IInv'
    BY <1>2, CreateKeeps, UpdateKeeps, DeleteKeeps, AuditKeeps, ReloadKeeps,
       PreloadKeeps DEF Serve
<1>3. ASSUME NEW r \in Reqs, DatabaseFails(r) \/ AuditFails(r) \/ AnswerLost(r)
      PROVE  IInv'
    BY <1>3, FaultKeeps, AuditKeeps
<1>4. CASE Crash
    BY <1>4, CrashKeeps
<1>5. CASE Quiescent \/ UNCHANGED vars
    BY <1>5 DEF Quiescent, vars, IInv, TypeOK, RevisionChain, ChainOf,
                IndependentReview, DraftsByOwner, HandlersOK, HandlerFacts
<1>6. QED
    BY <1>1, <1>2, <1>3, <1>4, <1>5 DEF Next

\* The invariant of every execution.
THEOREM Invariance == Spec => []IInv
BY InitInductive, NextInductive, PTL DEF Spec

\* The tables and the handlers hold what their types allow, in particular no
\* decision with a blank field and no audit entry of a read.
THEOREM TypeCorrect == Spec => []TypeOK
<1>1. IInv => TypeOK
    BY DEF IInv
<1>2. QED
    BY <1>1, Invariance, PTL

\* For any number of concurrent requests, clients that send any version, and
\* any faults, the revisions of a decision run from its preparer's draft to its
\* row without a gap (repository/priority_decision.go, UpdateWithRevision).
THEOREM RevisionsFormAChain == Spec => []RevisionChain
<1>1. IInv => RevisionChain
    BY DEF IInv
<1>2. QED
    BY <1>1, Invariance, PTL

\* Whatever snapshot the check ran on, no priority level is set by the preparer
\* or by an operator (service/priority_decision.go, Transition).
THEOREM ReviewIsIndependent == Spec => []IndependentReview
<1>1. IInv => IndependentReview
    BY DEF IInv
<1>2. QED
    BY <1>1, Invariance, PTL

\* Whatever users edit and review in whatever order, the author of a draft that
\* also finalises it is an administrator (service/priority_decision.go, Update
\* and Transition): drafts are written by the preparer, who may not review, and
\* by administrators.
THEOREM OwnEvidenceNeedsAdmin == Spec => []OwnEvidenceOnlyByAdmin
<1>1. IInv => OwnEvidenceOnlyByAdmin
    BY DEF IInv, IndependentReview, DraftsByOwner, OwnEvidenceOnlyByAdmin
<1>2. QED
    BY <1>1, Invariance, PTL

=============================================================================
