-------------------- MODULE PriorityDecisionFreezeProofs --------------------
(***************************************************************************)
(* Proofs about PriorityDecision that need the history of a decision: its  *)
(* revisions are append-only for any clients, and when clients send only   *)
(* versions the decision has had (Lookahead = 0) a final decision rests on *)
(* the evidence its reviewer read and never changes again.                 *)
(*                                                                         *)
(* The argument: the UPDATE matches the version the client sent; that is   *)
(* at most the version of the handler's snapshot, which is at most the     *)
(* row's, so all three are equal and the snapshot is the row.              *)
(***************************************************************************)
EXTENDS PriorityDecisionProofs

-----------------------------------------------------------------------------
(***************************************************************************)
(* What a matched update does, for any client.                             *)
(***************************************************************************)
Writes(r) ==
    /\ UpdateWithRevision(r)
    /\ Matches(decisions[input[r].code], input[r].expected)
    /\ Edited(r).version \notin DOMAIN revisions[input[r].code]

LEMMA WriteEffect ==
    ASSUME IInv, NEW r \in Reqs, Writes(r)
    PROVE  LET c == input[r].code
               item == Edited(r)
           IN  /\ c \in Codes /\ decisions[c] # NoDecision
               /\ decisions[c].version \in Nat \ {0}
               /\ DOMAIN revisions[c] = 1 .. decisions[c].version
               /\ item.version = decisions[c].version + 1
               /\ decisions'[c] = Rewritten(decisions[c], item)
               /\ decisions'[c] # NoDecision
               /\ decisions'[c].version = decisions[c].version + 1
               /\ decisions'[c].preparedBy = decisions[c].preparedBy
               /\ DOMAIN revisions'[c] = 1 .. decisions[c].version + 1
               /\ revisions'[c][decisions[c].version + 1] = NewRevision(r, item)
               /\ \A v \in DOMAIN revisions[c] : revisions'[c][v] = revisions[c][v]
               /\ \A d \in Codes \ {c} : /\ decisions'[d] = decisions[d]
                                         /\ revisions'[d] = revisions[d]
<1> DEFINE c == input[r].code
           item == Edited(r)
           row == decisions[c]
<1>1. /\ phase[r] = "write" /\ input[r] \in Input /\ c \in Codes
      /\ input[r].kind \in {"update", "transition"}
      /\ HandlerFacts("write", input[r], current[r])
    BY DEF IInv, HandlersOK, HandlerFacts, InFlight, Writes, UpdateWithRevision, Input
<1>2. row \in Decision /\ row # NoDecision /\ current[r] \in Decision
    BY <1>1 DEF HandlerFacts, IInv, TypeOK
<1>3. /\ row.version \in Nat \ {0}
      /\ DOMAIN revisions[c] = 1 .. row.version
    BY <1>1, <1>2 DEF IInv, RevisionChain, ChainOf
<1>4. item.version = input[r].expected + 1 /\ input[r].expected = row.version
    BY <1>1, <1>2 DEF Edited, Decision, Writes, Matches
<1>5. /\ decisions' = [decisions EXCEPT ![c] = Rewritten(row, item)]
      /\ revisions' = [revisions EXCEPT ![c] =
                         WithRevision(revisions[c], item.version, NewRevision(r, item))]
    BY DEF Writes, UpdateWithRevision
<1>6. /\ decisions'[c] = Rewritten(row, item)
      /\ \A d \in Codes \ {c} : decisions'[d] = decisions[d]
    BY <1>1, <1>5 DEF IInv, TypeOK
<1>7. /\ Rewritten(row, item).version = item.version
      /\ Rewritten(row, item).preparedBy = row.preparedBy
    BY <1>2 DEF Rewritten, Decision
<1>8. /\ revisions'[c] = WithRevision(revisions[c], item.version, NewRevision(r, item))
      /\ \A d \in Codes \ {c} : revisions'[d] = revisions[d]
    BY <1>1, <1>5 DEF IInv, TypeOK
<1>9. /\ DOMAIN revisions'[c] = DOMAIN revisions[c] \cup {item.version}
      /\ revisions'[c][item.version] = NewRevision(r, item)
      /\ \A v \in DOMAIN revisions[c] \ {item.version} :
            revisions'[c][v] = revisions[c][v]
    BY <1>8 DEF WithRevision
<1>10. /\ DOMAIN revisions'[c] = 1 .. row.version + 1
       /\ \A v \in DOMAIN revisions[c] : revisions'[c][v] = revisions[c][v]
    BY <1>3, <1>4, <1>9
<1>11. decisions'[c] # NoDecision
  <2>1. IInv'
      BY UpdateKeeps DEF Writes
  <2>2. DOMAIN revisions'[c] # {}
      BY <1>3, <1>10
  <2>3. QED
      BY <1>1, <2>1, <2>2 DEF IInv, RevisionChain, ChainOf
<1>12. QED
    BY <1>1, <1>2, <1>3, <1>4, <1>6, <1>7, <1>8, <1>9, <1>10, <1>11

\* Only the three write transactions touch the tables of decisions and revisions.
LEMMA TablesUntouched ==
    ASSUME [Next]_vars,
           \A r \in Reqs :
              ~(CreateWithRevision(r) \/ UpdateWithRevision(r) \/ Delete(r))
    PROVE  UNCHANGED <<decisions, revisions>>
<1>1. ASSUME NEW r \in Reqs, Receive(r) PROVE UNCHANGED <<decisions, revisions>>
    BY <1>1 DEF Receive, ReceiveCreate, ReceiveUpdate, ReceiveTransition,
                ReceiveDelete, ReceiveGet, Enter, database
<1>2. ASSUME NEW r \in Reqs, Audit(r) \/ Reload(r) \/ Preload(r)
      PROVE  UNCHANGED <<decisions, revisions>>
    BY <1>2 DEF Audit, Reload, Preload, database
<1>3. ASSUME NEW r \in Reqs, DatabaseFails(r) \/ AuditFails(r) \/ AnswerLost(r)
      PROVE  UNCHANGED <<decisions, revisions>>
    BY <1>3 DEF DatabaseFails, AuditFails, AnswerLost, database
<1>4. ASSUME Crash \/ Quiescent \/ UNCHANGED vars
      PROVE  UNCHANGED <<decisions, revisions>>
    BY <1>4 DEF Crash, Quiescent, database, vars
<1>5. QED
    BY <1>1, <1>2, <1>3, <1>4 DEF Next, Serve

\* Every other step leaves the revisions of existing decisions alone, and at
\* most marks a row deleted.
LEMMA OtherEffects ==
    ASSUME IInv, [Next]_vars, \A r \in Reqs : ~Writes(r), NEW c \in Codes,
           decisions[c] # NoDecision
    PROVE  /\ revisions'[c] = revisions[c]
           /\ \/ decisions'[c] = decisions[c]
              \/ decisions'[c] = [decisions[c] EXCEPT !.deleted = TRUE]
<1>1. CASE \E r \in Reqs : UpdateWithRevision(r)
    BY <1>1 DEF Writes, UpdateWithRevision
<1>2. CASE \E r \in Reqs : CreateWithRevision(r)
  <2>1. PICK r \in Reqs : CreateWithRevision(r)
      BY <1>2
  <2>2. CASE decisions[input[r].code] = NoDecision
    <3>1. c # input[r].code
        BY <2>2
    <3>2. QED
        BY <2>1, <2>2, <3>1 DEF CreateWithRevision, IInv, TypeOK
  <2>3. CASE decisions[input[r].code] # NoDecision
      BY <2>1, <2>3 DEF CreateWithRevision
  <2>4. QED
      BY <2>2, <2>3
<1>3. CASE \E r \in Reqs : Delete(r)
  <2>1. PICK r \in Reqs : Delete(r)
      BY <1>3
  <2>2. UNCHANGED revisions
      BY <2>1 DEF Delete
  <2>3. \/ decisions' = decisions
        \/ decisions' = [decisions EXCEPT ![input[r].code].deleted = TRUE]
      BY <2>1 DEF Delete
  <2>4. QED
      BY <2>2, <2>3 DEF IInv, TypeOK
<1>4. QED
    BY <1>1, <1>2, <1>3, TablesUntouched

-----------------------------------------------------------------------------
LEMMA HistoryStep ==
    ASSUME IInv, [Next]_vars, NEW c \in Codes, decisions[c] # NoDecision
    PROVE  HistoryKept(c)
<1>1. decisions[c] \in Decision
    BY DEF IInv, TypeOK
<1>2. CASE \E r \in Reqs : Writes(r)
  <2>1. PICK r \in Reqs : Writes(r)
      BY <1>2
  <2>2. CASE c = input[r].code
      BY <2>1, <2>2, WriteEffect DEF HistoryKept
  <2>3. CASE c # input[r].code
      BY <2>1, <2>3, WriteEffect DEF HistoryKept
  <2>4. QED
      BY <2>2, <2>3
<1>3. CASE \A r \in Reqs : ~Writes(r)
  <2>1. /\ revisions'[c] = revisions[c]
        /\ \/ decisions'[c] = decisions[c]
           \/ decisions'[c] = [decisions[c] EXCEPT !.deleted = TRUE]
      BY <1>3, OtherEffects
  <2>2. decisions'[c] # NoDecision
      BY <1>1, <2>1, NoDecisionAssumption DEF Decision
  <2>3. /\ decisions'[c].preparedBy = decisions[c].preparedBy
        /\ decisions'[c].version = decisions[c].version
      BY <1>1, <2>1 DEF Decision
  <2>4. QED
      BY <2>1, <2>2, <2>3 DEF HistoryKept
<1>4. QED
    BY <1>2, <1>3

\* Revisions are append-only and versions rise one by one, for any number of
\* concurrent requests and any client (model/priority_decision.go:29).
THEOREM AppendOnly == Spec => RevisionsAppendOnly
<1>1. IInv /\ [Next]_vars =>
        [\A c \in Codes : decisions[c] # NoDecision => HistoryKept(c)]_vars
    BY HistoryStep
<1>2. QED
    BY <1>1, Invariance, PTL DEF Spec, RevisionsAppendOnly

LEMMA RemovedStep ==
    ASSUME IInv, [Next]_vars, NEW c \in Codes,
           decisions[c] # NoDecision, ~Live(decisions[c])
    PROVE  decisions'[c] = decisions[c] /\ revisions'[c] = revisions[c]
<1>1. decisions[c] \in Decision /\ decisions[c].deleted
    BY DEF IInv, TypeOK, Live, Decision
<1>2. CASE \E r \in Reqs : Writes(r)
  <2>1. PICK r \in Reqs : Writes(r)
      BY <1>2
  <2>2. c # input[r].code
      BY <2>1 DEF Writes, Matches
  <2>3. QED
      BY <2>1, <2>2, WriteEffect
<1>3. CASE \A r \in Reqs : ~Writes(r)
  <2>1. /\ revisions'[c] = revisions[c]
        /\ \/ decisions'[c] = decisions[c]
           \/ decisions'[c] = [decisions[c] EXCEPT !.deleted = TRUE]
      BY <1>3, OtherEffects
  <2>2. [decisions[c] EXCEPT !.deleted = TRUE] = decisions[c]
      BY <1>1 DEF Decision
  <2>3. QED
      BY <2>1, <2>2
<1>4. QED
    BY <1>2, <1>3

\* No handler changes or brings back a deleted decision.
THEOREM DeletedStaysAsItWas == Spec => RemovedIsFrozen
<1>1. IInv /\ [Next]_vars =>
        [\A c \in Codes : (decisions[c] # NoDecision /\ ~Live(decisions[c])) =>
            /\ decisions'[c] = decisions[c]
            /\ revisions'[c] = revisions[c]]_vars
    BY RemovedStep
<1>2. QED
    BY <1>1, Invariance, PTL DEF Spec, RemovedIsFrozen

-----------------------------------------------------------------------------
(***************************************************************************)
(* Snapshots, for any client.                                              *)
(***************************************************************************)
SnapshotOf(r) ==
    LET in == input[r]
        row == decisions[in.code]
        old == current[r]
    IN  /\ row # NoDecision
        /\ old.version \in 1 .. row.version
        /\ old.status = "draft"
        /\ old.preparedBy = row.preparedBy
        /\ revisions[in.code][old.version].status = "draft"
        /\ revisions[in.code][old.version].evidence = old.evidence
        /\ in.expected \in 1 .. old.version + Lookahead

Changes(r) == phase[r] = "write" /\ input[r].kind \in {"update", "transition"}

\* A snapshot stays recorded while its handler waits.
LEMMA SnapshotKept ==
    ASSUME IInv, [Next]_vars, NEW r \in Reqs, Changes(r), SnapshotOf(r),
           UNCHANGED <<input[r], current[r]>>
    PROVE  SnapshotOf(r)'
<1> DEFINE c == input[r].code
           v == current[r].version
<1>1. c \in Codes /\ decisions[c] \in Decision /\ decisions[c] # NoDecision
    BY DEF IInv, TypeOK, HandlersOK, HandlerFacts, InFlight, Input, Changes, SnapshotOf
<1>2. HistoryKept(c)
    BY <1>1, HistoryStep
<1>3. v \in 1 .. decisions[c].version /\ decisions[c].version \in Nat
    BY <1>1 DEF SnapshotOf, Decision
<1>4. v \in DOMAIN revisions[c]
    BY <1>1, <1>3 DEF IInv, RevisionChain, ChainOf
<1>5. /\ decisions'[c] # NoDecision
      /\ decisions'[c].preparedBy = decisions[c].preparedBy
      /\ v \in 1 .. decisions'[c].version
      /\ revisions'[c][v] = revisions[c][v]
    BY <1>2, <1>3, <1>4 DEF HistoryKept
<1>6. QED
    BY <1>5 DEF SnapshotOf

\* A handler takes its snapshot of a draft in the table.
LEMMA SnapshotTaken ==
    ASSUME IInv, NEW r \in Reqs, NEW c \in Codes,
           NEW request, NEW verdict, Enter(r, request, verdict, decisions[c]),
           request.code = c, request.expected \in KnownVersions(c),
           verdict = "write" => /\ decisions[c] # NoDecision
                                /\ decisions[c].status = "draft",
           Changes(r)'
    PROVE  SnapshotOf(r)'
<1>1. UNCHANGED <<decisions, revisions>>
    BY DEF Enter, database
<1>2. phase'[r] = verdict /\ phase'[r] = "write"
    BY DEF Enter, Changes, IInv, TypeOK
<1>3. input'[r] = request /\ current'[r] = decisions[c]
    BY <1>2 DEF Enter, InFlight, IInv, TypeOK
<1>4. decisions[c] # NoDecision /\ decisions[c].status = "draft"
    BY <1>2
<1>5. decisions[c].version \in Nat \ {0}
    BY <1>4 DEF IInv, RevisionChain, ChainOf
<1>6. request.expected \in 1 .. decisions[c].version + Lookahead
    BY <1>4 DEF KnownVersions
<1>7. /\ revisions[c][decisions[c].version].status = "draft"
      /\ revisions[c][decisions[c].version].evidence = decisions[c].evidence
    BY <1>4 DEF IInv, RevisionChain, ChainOf
<1>8. QED
    BY <1>1, <1>3, <1>4, <1>5, <1>6, <1>7 DEF SnapshotOf

LEMMA ReceiveSnapshots ==
    ASSUME IInv, NEW r \in Reqs, Receive(r), Changes(r)'
    PROVE  SnapshotOf(r)'
<1>1. CASE ReceiveUpdate(r)
  <2>1. PICK user \in Users, c \in Codes, evidence \in Evidence \cup {Blank},
             expected \in Nat :
          /\ expected \in KnownVersions(c)
          /\ Enter(r, [Request("update", user, c) EXCEPT !.expected = expected,
                                                         !.evidence = evidence],
                   EditVerdict(decisions[c], user, evidence), decisions[c])
      BY <1>1, KnownVersionsAreNat DEF ReceiveUpdate
  <2> DEFINE request == [Request("update", user, c) EXCEPT
                            !.expected = expected, !.evidence = evidence]
             verdict == EditVerdict(decisions[c], user, evidence)
  <2>2. request.code = c /\ request.expected \in KnownVersions(c)
      BY <2>1 DEF Request
  <2>3. verdict = "write" => /\ decisions[c] # NoDecision
                             /\ decisions[c].status = "draft"
      BY DEF EditVerdict, Live
  <2>4. QED
      BY <2>1, <2>2, <2>3, SnapshotTaken
<1>2. CASE ReceiveTransition(r)
  <2>1. PICK user \in Users, c \in Codes, target \in PriorityDecisionStatuses,
             expected \in Nat :
          /\ expected \in KnownVersions(c)
          /\ Enter(r, [Request("transition", user, c) EXCEPT
                         !.expected = expected, !.target = target],
                   ReviewVerdict(decisions[c], user, target), decisions[c])
      BY <1>2, KnownVersionsAreNat DEF ReceiveTransition
  <2> DEFINE request == [Request("transition", user, c) EXCEPT
                            !.expected = expected, !.target = target]
             verdict == ReviewVerdict(decisions[c], user, target)
  <2>2. request.code = c /\ request.expected \in KnownVersions(c)
      BY <2>1 DEF Request
  <2>3. verdict = "write" => /\ decisions[c] # NoDecision
                             /\ decisions[c].status = "draft"
    <3>1. verdict = "write" =>
            /\ decisions[c] # NoDecision
            /\ CanTransition(PriorityDecisionTransitions, decisions[c].status, target)
        BY DEF ReviewVerdict, Live
    <3>2. QED
        BY <3>1 DEF CanTransition, PriorityDecisionTransitions
  <2>4. QED
      BY <2>1, <2>2, <2>3, SnapshotTaken
<1>3. CASE ReceiveCreate(r) \/ ReceiveDelete(r)
  <2>1. PICK request, verdict, snapshot :
            /\ Enter(r, request, verdict, snapshot)
            /\ request.kind \notin {"update", "transition"}
    <3>1. ASSUME NEW user \in Users, NEW c \in Codes,
                 NEW evidence \in Evidence \cup {Blank}
          PROVE  /\ Request("delete", user, c).kind = "delete"
                 /\ [Request("create", user, c) EXCEPT !.evidence = evidence].kind
                       = "create"
        BY DEF Request
    <3>2. CASE ReceiveCreate(r)
        BY <3>1, <3>2 DEF ReceiveCreate
    <3>3. CASE ReceiveDelete(r)
        BY <3>1, <3>3 DEF ReceiveDelete
    <3>4. QED
        BY <1>3, <3>2, <3>3
  <2>2. phase'[r] = verdict /\ (verdict \in InFlight => input'[r] = request)
      BY <2>1 DEF Enter, IInv, TypeOK
  <2>3. QED
      BY <2>1, <2>2 DEF Changes, InFlight
<1>4. CASE ReceiveGet(r)
  <2>1. phase'[r] # "write"
      BY <1>4 DEF ReceiveGet, Enter, IInv, TypeOK
  <2>2. QED
      BY <2>1 DEF Changes
<1>5. QED
    BY <1>1, <1>2, <1>3, <1>4 DEF Receive

\* A handler with a write ahead of it either arrives in this step or waits.
LEMMA WritersWaitOrArrive ==
    ASSUME IInv, [Next]_vars, NEW r \in Reqs, Changes(r)', ~Receive(r)
    PROVE  Changes(r) /\ UNCHANGED <<input[r], current[r]>>
<1> USE DEF Changes
<1>1. ASSUME NEW q \in Reqs, Receive(q) PROVE Changes(r) /\ UNCHANGED <<input[r], current[r]>>
  <2>1. r # q
      BY <1>1
  <2>2. PICK request, verdict, snapshot : Enter(q, request, verdict, snapshot)
      BY <1>1 DEF Receive, ReceiveCreate, ReceiveUpdate, ReceiveTransition,
                  ReceiveDelete, ReceiveGet
  <2>3. QED
      BY <2>1, <2>2 DEF Enter, IInv, TypeOK
<1>2. ASSUME NEW q \in Reqs, Serve(q) PROVE Changes(r) /\ UNCHANGED <<input[r], current[r]>>
    BY <1>2 DEF Serve, CreateWithRevision, UpdateWithRevision, Delete, Audit,
                Reload, Preload, Goto, Finish, IInv, TypeOK
<1>3. ASSUME NEW q \in Reqs, DatabaseFails(q) \/ AuditFails(q) \/ AnswerLost(q)
      PROVE Changes(r) /\ UNCHANGED <<input[r], current[r]>>
    BY <1>3 DEF DatabaseFails, AuditFails, AnswerLost, Goto, Finish, IInv, TypeOK
<1>4. CASE Crash
    BY <1>4 DEF Crash, InFlight, IInv, TypeOK
<1>5. CASE Quiescent \/ UNCHANGED vars
    BY <1>5 DEF Quiescent, vars
<1>6. QED
    BY <1>1, <1>2, <1>3, <1>4, <1>5 DEF Next

Snapshots == \A r \in Reqs : Changes(r) => SnapshotOf(r)

LEMMA SnapshotsStep == IInv /\ Snapshots /\ [Next]_vars => Snapshots'
<1> SUFFICES ASSUME IInv, Snapshots, [Next]_vars, NEW r \in Reqs, Changes(r)'
             PROVE  SnapshotOf(r)'
    BY DEF Snapshots
<1>1. CASE Receive(r)
    BY <1>1, ReceiveSnapshots
<1>2. CASE ~Receive(r)
    BY <1>2, WritersWaitOrArrive, SnapshotKept DEF Snapshots
<1>3. QED
    BY <1>1, <1>2

\* Between its read and its write a handler holds a version of the decision
\* that its revisions still record (service/priority_decision.go, current).
THEOREM SnapshotsAreRecorded == Spec => []SnapshotsRecorded
<1>1. Init => Snapshots
    BY DEF Init, Snapshots, Changes
<1>2. Snapshots => SnapshotsRecorded
    BY DEF Snapshots, SnapshotsRecorded, Changes, SnapshotOf
<1>3. QED
    BY <1>1, <1>2, SnapshotsStep, Invariance, PTL DEF Spec

-----------------------------------------------------------------------------
(***************************************************************************)
(* Clients that send only versions the decision has had.                   *)
(***************************************************************************)
\* The version matched is the version read, so the snapshot is the row.
LEMMA WritesWhatItRead ==
    ASSUME Lookahead = 0, IInv, Snapshots, NEW r \in Reqs, Writes(r)
    PROVE  LET c == input[r].code
               row == decisions[c]
           IN  /\ row.status = "draft"
               /\ revisions[c][row.version].status = "draft"
               /\ revisions[c][row.version].evidence = current[r].evidence
<1> DEFINE c == input[r].code
           row == decisions[c]
           old == current[r]
<1>1. SnapshotOf(r)
    BY DEF Snapshots, Changes, Writes, UpdateWithRevision
<1>2. /\ c \in Codes /\ row # NoDecision /\ row.version \in Nat \ {0}
      /\ old \in Decision
    BY WriteEffect DEF IInv, HandlersOK, HandlerFacts, Writes, UpdateWithRevision
<1>3. row.version = input[r].expected
    BY DEF Writes, Matches
<1>4. old.version = row.version
    BY <1>1, <1>2, <1>3 DEF SnapshotOf, Decision
<1>5. revisions[c][row.version].status = row.status
    BY <1>2 DEF IInv, RevisionChain, ChainOf
<1>6. QED
    BY <1>1, <1>4, <1>5 DEF SnapshotOf

\* Only a transition sets a priority level, and it leaves the evidence alone.
LEMMA LevelKeepsEvidence ==
    ASSUME IInv, Snapshots, NEW r \in Reqs, Writes(r), Edited(r).status # "draft"
    PROVE  Edited(r).evidence = current[r].evidence
<1>1. /\ input[r].kind \in {"update", "transition"}
      /\ current[r] \in Decision
      /\ current[r].status = "draft"
    BY DEF IInv, HandlersOK, HandlerFacts, Snapshots, SnapshotOf, Changes, Writes,
           UpdateWithRevision
<1>2. CASE input[r].kind = "update"
    BY <1>1, <1>2 DEF Edited, Decision
<1>3. CASE input[r].kind = "transition"
    BY <1>1, <1>3 DEF Edited, Decision
<1>4. QED
    BY <1>1, <1>2, <1>3

ApprovedIn(c) ==
    \A v \in DOMAIN revisions[c] :
        revisions[c][v].status # "draft" =>
            /\ v = decisions[c].version
            /\ v - 1 \in DOMAIN revisions[c]
            /\ revisions[c][v].evidence = revisions[c][v - 1].evidence

LEMMA ApprovedStep ==
    ASSUME Lookahead = 0, IInv, Snapshots, [Next]_vars, NEW c \in Codes, ApprovedIn(c)
    PROVE  ApprovedIn(c)'
<1>1. CASE \E r \in Reqs : Writes(r)
  <2>1. PICK r \in Reqs : Writes(r)
      BY <1>1
  <2>2. CASE c # input[r].code
      BY <2>1, <2>2, WriteEffect DEF ApprovedIn
  <2>3. CASE c = input[r].code
    <3> DEFINE row == decisions[c]
    <3>1. /\ row.version \in Nat \ {0}
          /\ DOMAIN revisions[c] = 1 .. row.version
          /\ decisions'[c].version = row.version + 1
          /\ DOMAIN revisions'[c] = 1 .. row.version + 1
          /\ revisions'[c][row.version + 1] = NewRevision(r, Edited(r))
          /\ \A v \in DOMAIN revisions[c] : revisions'[c][v] = revisions[c][v]
        BY <2>1, <2>3, WriteEffect
    <3>2. /\ revisions[c][row.version].status = "draft"
          /\ revisions[c][row.version].evidence = current[r].evidence
        BY <2>1, <2>3, WritesWhatItRead
    <3>3. \A v \in 1 .. row.version : revisions'[c][v].status = "draft"
      <4> SUFFICES ASSUME NEW v \in 1 .. row.version, revisions[c][v].status # "draft"
                   PROVE  FALSE
          BY <3>1
      <4>1. v = row.version
          BY <3>1 DEF ApprovedIn
      <4>2. QED
          BY <4>1, <3>2
    <3>4. revisions'[c][row.version + 1].status # "draft" =>
            revisions'[c][row.version + 1].evidence = revisions'[c][row.version].evidence
      <4>1. Edited(r).status # "draft" => Edited(r).evidence = current[r].evidence
          BY <2>1, LevelKeepsEvidence
      <4>2. revisions'[c][row.version] = revisions[c][row.version]
          BY <3>1
      <4>3. QED
          BY <3>1, <3>2, <4>1, <4>2 DEF NewRevision
    <3>5. ASSUME NEW v \in DOMAIN revisions'[c], revisions'[c][v].status # "draft"
          PROVE  /\ v = decisions'[c].version
                 /\ v - 1 \in DOMAIN revisions'[c]
                 /\ revisions'[c][v].evidence = revisions'[c][v - 1].evidence
      <4>1. v = row.version + 1
          BY <3>1, <3>3, <3>5
      <4>2. v - 1 = row.version /\ v - 1 \in DOMAIN revisions'[c]
          BY <3>1, <4>1
      <4>3. QED
          BY <3>1, <3>4, <3>5, <4>1, <4>2
    <3>6. QED
        BY <3>5 DEF ApprovedIn
  <2>4. QED
      BY <2>2, <2>3
<1>2. CASE (\A r \in Reqs : ~Writes(r)) /\ decisions[c] # NoDecision
  <2>1. revisions'[c] = revisions[c]
      BY <1>2, OtherEffects
  <2>2. decisions[c] \in Decision
      BY <1>2 DEF IInv, TypeOK
  <2>3. decisions'[c].version = decisions[c].version
      BY <1>2, <2>2, OtherEffects DEF Decision
  <2>4. QED
      BY <2>1, <2>3 DEF ApprovedIn
<1>3. CASE decisions[c] = NoDecision
  <2>1. DOMAIN revisions[c] = {}
      BY <1>3 DEF IInv, RevisionChain, ChainOf
  <2>2. \A v \in DOMAIN revisions'[c] : revisions'[c][v].status = "draft"
    <3>1. CASE \E r \in Reqs : CreateWithRevision(r)
      <4>1. PICK r \in Reqs : CreateWithRevision(r)
          BY <3>1
      <4>2. CASE decisions[input[r].code] = NoDecision
        <5>1. NewRevision(r, Edited(r)).status = "draft"
            BY <4>1 DEF NewRevision, Edited, CreateWithRevision
        <5>2. revisions' = [revisions EXCEPT ![input[r].code] =
                              WithRevision(NoRevisions, 1, NewRevision(r, Edited(r)))]
            BY <4>1, <4>2 DEF CreateWithRevision
        <5>3. QED
            BY <2>1, <5>1, <5>2 DEF WithRevision, NoRevisions, IInv, TypeOK
      <4>3. CASE decisions[input[r].code] # NoDecision
          BY <2>1, <4>1, <4>3 DEF CreateWithRevision
      <4>4. QED
          BY <4>2, <4>3
    <3>2. CASE \E r \in Reqs : UpdateWithRevision(r)
      <4>1. PICK r \in Reqs : UpdateWithRevision(r)
          BY <3>2
      <4>2. CASE Writes(r)
          BY <1>3, <2>1, <4>1, <4>2, WriteEffect
      <4>3. CASE ~Writes(r)
          BY <2>1, <4>1, <4>3 DEF Writes, UpdateWithRevision
      <4>4. QED
          BY <4>2, <4>3
    <3>3. CASE \E r \in Reqs : Delete(r)
        BY <2>1, <3>3 DEF Delete
    <3>4. QED
        BY <2>1, <3>1, <3>2, <3>3, TablesUntouched
  <2>3. QED
      BY <2>2 DEF ApprovedIn
<1>4. QED
    BY <1>1, <1>2, <1>3

LEMMA ApprovedAtFirst == Init => \A c \in Codes : ApprovedIn(c)
<1> SUFFICES ASSUME Init, NEW c \in Codes PROVE ApprovedIn(c)
    OBVIOUS
<1>1. CASE c \in DOMAIN SeedStatus
    BY <1>1, SeedAssumption DEF Init, ApprovedIn, SeedRevisions, SeedRow
<1>2. CASE c \notin DOMAIN SeedStatus
    BY <1>2 DEF Init, ApprovedIn, NoRevisions
<1>3. QED
    BY <1>1, <1>2

\* A priority level is set once, and on the evidence its reviewer read, when
\* clients send only versions the decision has had.
THEOREM FinalEvidenceWasRead ==
    ASSUME Lookahead = 0
    PROVE  Spec => []ApprovedAsRead
<1> DEFINE Inv == Snapshots /\ \A c \in Codes : ApprovedIn(c)
<1>1. Init => Inv
    BY ApprovedAtFirst DEF Init, Snapshots, Changes
<1>2. IInv /\ Inv /\ [Next]_vars => Inv'
    BY SnapshotsStep, ApprovedStep
<1>3. Inv => ApprovedAsRead
    BY DEF ApprovedAsRead, ApprovedIn
<1> HIDE DEF Inv
<1>4. QED
    BY <1>1, <1>2, <1>3, Invariance, PTL DEF Spec

\* A step at most marks a final decision deleted.
LEMMA FinalStep ==
    ASSUME Lookahead = 0, IInv, Snapshots, [Next]_vars, NEW c \in Codes,
           IsFinal(decisions[c])
    PROVE  /\ [decisions'[c] EXCEPT !.deleted = decisions[c].deleted] = decisions[c]
           /\ revisions'[c] = revisions[c]
<1>1. decisions[c] # NoDecision /\ decisions[c] \in Decision
    BY DEF IsFinal, IInv, TypeOK
<1>2. CASE \E r \in Reqs : Writes(r)
  <2>1. PICK r \in Reqs : Writes(r)
      BY <1>2
  <2>2. c # input[r].code
      BY <2>1, WritesWhatItRead DEF IsFinal
  <2>3. decisions'[c] = decisions[c] /\ revisions'[c] = revisions[c]
      BY <2>1, <2>2, WriteEffect
  <2>4. QED
      BY <1>1, <2>3 DEF Decision
<1>3. CASE \A r \in Reqs : ~Writes(r)
  <2>1. /\ revisions'[c] = revisions[c]
        /\ \/ decisions'[c] = decisions[c]
           \/ decisions'[c] = [decisions[c] EXCEPT !.deleted = TRUE]
      BY <1>1, <1>3, OtherEffects
  <2>2. QED
      BY <1>1, <2>1 DEF Decision
<1>4. QED
    BY <1>2, <1>3

\* "final priority decisions are immutable" (service/errors.go:10), but for
\* their removal, when clients send only versions the decision has had.
THEOREM FinalStaysAsItWas ==
    ASSUME Lookahead = 0
    PROVE  Spec => FinalFrozen
<1>1. IInv /\ Snapshots /\ [Next]_vars =>
        [\A c \in Codes : IsFinal(decisions[c]) =>
            /\ [decisions'[c] EXCEPT !.deleted = decisions[c].deleted] = decisions[c]
            /\ revisions'[c] = revisions[c]]_vars
    BY FinalStep
<1>2. Init => Snapshots
    BY DEF Init, Snapshots, Changes
<1>3. QED
    BY <1>1, <1>2, SnapshotsStep, Invariance, PTL DEF Spec, FinalFrozen

=============================================================================
