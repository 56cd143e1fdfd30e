-------------------------- MODULE PriorityDecision --------------------------
(***************************************************************************)
(* The priority-decision aggregate: service/priority_decision.go over      *)
(* repository/priority_decision.go, called by concurrent HTTP handlers.    *)
(*                                                                         *)
(* Every request is a handler of its own.  Between two of its database     *)
(* statements any other handler may run, the connection may fail, and the  *)
(* process may stop; a database transaction is one step.  A request reads  *)
(* the decision, decides on that snapshot, writes under the version the    *)
(* CLIENT sent, appends an audit entry outside the transaction and reads   *)
(* the decision again for its response.                                    *)
(***************************************************************************)
EXTENDS Naturals, StatusGraph, AccessControl

CONSTANTS
    Codes,          \* codes of decisions; a code stands for the row it names
    Users,          \* user names, the actors of requests
    RoleOf,         \* the role in each user's token
    Evidence,       \* evidence texts that pass validation
    Blank,          \* stands for input with a blank business field
    Reqs,           \* requests, each handled once
    Lookahead,      \* how far past the current version a client may guess
    NoDecision,     \* no row, or no snapshot
    NoInput,        \* a request that has not arrived
    SeedStatus,     \* status of each seeded decision; its domain: seeded codes
    SeedPreparer, SeedReviewer, SeedEvidence, SeedReq   \* of seeded revisions

ASSUME RolesAssumption     == RoleOf \in [Users -> Roles]
ASSUME BlankAssumption     == Blank \notin Evidence
ASSUME LookaheadAssumption == Lookahead \in Nat
ASSUME SeedAssumption      ==
    /\ DOMAIN SeedStatus \subseteq Codes
    /\ \A c \in DOMAIN SeedStatus : SeedStatus[c] \in PriorityDecisionStatuses
    /\ SeedPreparer \in Users /\ SeedReviewer \in Users
    /\ SeedPreparer # SeedReviewer
    /\ RoleOf[SeedReviewer] \in {"reviewer", "admin"}
    /\ SeedEvidence \in Evidence
    /\ SeedReq \notin Reqs

-----------------------------------------------------------------------------
(***************************************************************************)
(* The rows of the three tables.                                           *)
(***************************************************************************)
Decision == [status: PriorityDecisionStatuses, version: Nat,
             evidence: Evidence, preparedBy: Users, deleted: BOOLEAN]

ASSUME NoDecisionAssumption == NoDecision \notin Decision

Revision == [status: PriorityDecisionStatuses, evidence: Evidence,
             actor: Users, request: Reqs \cup {SeedReq}]

AuditLog == [request: Reqs, actor: Users, code: Codes,
             action: {"create", "update", "transition", "delete"},
             before: PriorityDecisionStatuses \cup {""},
             after: PriorityDecisionStatuses \cup {"deleted"}]

\* What a request carries; fields its kind does not use hold a default.
Input == [kind: {"create", "update", "transition", "delete", "get"},
          user: Users, code: Codes, expected: Nat,
          target: PriorityDecisionStatuses, evidence: Evidence \cup {Blank}]

\* The responses handleError tells apart, and the answer a stopped process
\* never gives.
Outcomes == {"ok", "notFound", "conflict", "forbidden", "rule", "internal",
             "lost"}
InFlight == {"write", "audit", "reload", "preload"}
Phases   == {"idle"} \cup InFlight \cup Outcomes

VARIABLES
    decisions,  \* table priority_decisions: one row or none per code
    revisions,  \* table priority_decision_revisions: version |-> revision
    audits,     \* table audit_logs, the rows of this aggregate
    phase,      \* the next database statement of each request, or its outcome
    input,      \* what each request under way asked for
    current,    \* the decision each handler holds: its snapshot, then its reply
    shown       \* the revisions each finished handler returned

database == <<decisions, revisions, audits>>
vars == <<decisions, revisions, audits, phase, input, current, shown>>

\* A table of revisions keyed by the unique index (decision, version).
NoRevisions == [v \in {} |-> SeedReq]
WithRevision(table, version, revision) ==
    [v \in DOMAIN table \cup {version} |->
        IF v = version THEN revision ELSE table[v]]

Live(row) == row # NoDecision /\ ~row.deleted
IsFinal(row) == row # NoDecision /\ row.status # "draft"

SeedRow(c) ==
    [status     |-> SeedStatus[c],
     version    |-> IF SeedStatus[c] = "draft" THEN 1 ELSE 2,
     evidence   |-> SeedEvidence,
     preparedBy |-> SeedPreparer,
     deleted    |-> FALSE]

SeedRevisions(c) ==
    [v \in 1 .. SeedRow(c).version |->
        [status   |-> IF v = 1 THEN "draft" ELSE SeedStatus[c],
         evidence |-> SeedEvidence,
         actor    |-> IF v = 1 THEN SeedPreparer ELSE SeedReviewer,
         request  |-> SeedReq]]

Init ==
    /\ decisions = [c \in Codes |->
                      IF c \in DOMAIN SeedStatus THEN SeedRow(c) ELSE NoDecision]
    /\ revisions = [c \in Codes |->
                      IF c \in DOMAIN SeedStatus THEN SeedRevisions(c)
                                                 ELSE NoRevisions]
    /\ audits = {}
    /\ phase = [r \in Reqs |-> "idle"]
    /\ input = [r \in Reqs |-> NoInput]
    /\ current = [r \in Reqs |-> NoDecision]
    /\ shown = [r \in Reqs |-> NoRevisions]

-----------------------------------------------------------------------------
(***************************************************************************)
(* Business rules.  A verdict is the early return a handler takes on what  *)
(* it read, in the order of the code, or the statement it goes on to.      *)
(***************************************************************************)
MayEdit(row, user) == user = row.preparedBy \/ RoleOf[user] = "admin"

\* Mutant: blank business fields are accepted.
EditVerdictWithoutValidation(row, user, evidence) ==
    IF ~Live(row) THEN "notFound"
    ELSE IF row.status # "draft" THEN "rule"
    ELSE IF ~MayEdit(row, user) THEN "forbidden"
    ELSE "write"

\* Mutant: the check that the decision is still a draft is left out.
EditVerdictWithoutLock(row, user, evidence) ==
    IF ~Live(row) THEN "notFound"
    ELSE IF ~MayEdit(row, user) THEN "forbidden"
    ELSE IF evidence = Blank THEN "rule"
    ELSE "write"

\* Mutant: whoever may write may edit a draft.
EditVerdictByAnyone(row, user, evidence) ==
    IF ~Live(row) THEN "notFound"
    ELSE IF row.status # "draft" \/ evidence = Blank THEN "rule"
    ELSE "write"

EditVerdict(row, user, evidence) ==
    IF ~Live(row) THEN "notFound"
    ELSE IF row.status # "draft" THEN "rule"
    ELSE IF ~MayEdit(row, user) THEN "forbidden"
    ELSE IF evidence = Blank THEN "rule"
    ELSE "write"

MayReview(user) == RoleOf[user] \in {"reviewer", "admin"}

\* Mutant: an administrator is exempt from the separation of duty.
ReviewVerdictExemptsAdmin(row, user, target) ==
    IF ~Live(row) THEN "notFound"
    ELSE IF ~MayReview(user) THEN "forbidden"
    ELSE IF user = row.preparedBy /\ RoleOf[user] # "admin" THEN "rule"
    ELSE IF ~CanTransition(PriorityDecisionTransitions, row.status, target)
         THEN "rule"
    ELSE "write"

ReviewVerdict(row, user, target) ==
    IF ~Live(row) THEN "notFound"
    ELSE IF ~MayReview(user) THEN "forbidden"
    ELSE IF user = row.preparedBy THEN "rule"
    ELSE IF ~CanTransition(PriorityDecisionTransitions, row.status, target)
         THEN "rule"
    ELSE "write"

RemoveVerdict(row) ==
    IF ~Live(row) THEN "notFound"
    ELSE IF row.status # "draft" THEN "rule"
    ELSE "write"

-----------------------------------------------------------------------------
(***************************************************************************)
(* A request arrives: the router admits its role, and the handler runs its *)
(* first statement, the read of the decision (a create only validates).    *)
(***************************************************************************)
Request(kind, user, code) ==
    [kind |-> kind, user |-> user, code |-> code, expected |-> 0,
     target |-> "draft", evidence |-> Blank]

\* The versions a client can send: those the decision has had, and Lookahead
\* more.  A client that only repeats what it was shown has Lookahead = 0; one
\* that sends its next request without waiting for an answer has 1.
KnownVersions(c) ==
    LET latest == IF decisions[c] = NoDecision THEN 1 ELSE decisions[c].version
    IN  1 .. latest + Lookahead

\* A verdict that is an outcome ends the request at once.
Enter(r, request, verdict, snapshot) ==
    /\ phase[r] = "idle"
    /\ phase' = [phase EXCEPT ![r] = verdict]
    /\ IF verdict \in InFlight
       THEN /\ input' = [input EXCEPT ![r] = request]
            /\ current' = [current EXCEPT ![r] = snapshot]
       ELSE UNCHANGED <<input, current>>
    /\ UNCHANGED <<database, shown>>

ReceiveCreate(r) ==
    \E user \in Users, c \in Codes, evidence \in Evidence \cup {Blank} :
        /\ RequireMinimumRole(RoleOf[user], "operator")
        /\ Enter(r, [Request("create", user, c) EXCEPT !.evidence = evidence],
                 IF evidence = Blank THEN "rule" ELSE "write", NoDecision)

ReceiveUpdate(r) ==
    \E user \in Users, c \in Codes, evidence \in Evidence \cup {Blank} :
        /\ RequireMinimumRole(RoleOf[user], "operator")
        /\ \E expected \in KnownVersions(c) :
             Enter(r, [Request("update", user, c) EXCEPT !.expected = expected,
                                                         !.evidence = evidence],
                   EditVerdict(decisions[c], user, evidence), decisions[c])

ReceiveTransition(r) ==
    \E user \in Users, c \in Codes, target \in PriorityDecisionStatuses :
        /\ RequireMinimumRole(RoleOf[user], "operator")
        /\ \E expected \in KnownVersions(c) :
             Enter(r, [Request("transition", user, c) EXCEPT
                         !.expected = expected, !.target = target],
                   ReviewVerdict(decisions[c], user, target), decisions[c])

ReceiveDelete(r) ==
    \E user \in Users, c \in Codes :
        /\ RequireRoles(RoleOf[user], {"admin"})
        /\ Enter(r, Request("delete", user, c),
                 RemoveVerdict(decisions[c]), decisions[c])

ReceiveGet(r) ==
    \E user \in Users, c \in Codes :
        Enter(r, Request("get", user, c),
              IF Live(decisions[c]) THEN "preload" ELSE "notFound", decisions[c])

-----------------------------------------------------------------------------
(***************************************************************************)
(* The write transaction.                                                  *)
(***************************************************************************)
Goto(r, next) ==
    /\ phase' = [phase EXCEPT ![r] = next]
    /\ UNCHANGED <<input, current>>

\* A request that ends without a body leaves nothing of its handler behind.
Finish(r, outcome) ==
    /\ phase' = [phase EXCEPT ![r] = outcome]
    /\ input' = [input EXCEPT ![r] = NoInput]
    /\ current' = [current EXCEPT ![r] = NoDecision]

\* The item the handler built: its snapshot with the fields the request sets.
Edited(r) ==
    LET in == input[r]
    IN  CASE in.kind = "create" ->
               [status |-> "draft", version |-> 1, evidence |-> in.evidence,
                preparedBy |-> in.user, deleted |-> FALSE]
          [] in.kind = "update" ->
               [current[r] EXCEPT !.version = in.expected + 1,
                                  !.evidence = in.evidence]
          [] in.kind = "transition" ->
               [current[r] EXCEPT !.version = in.expected + 1,
                                  !.status = in.target]

\* Mutant: the revision is built before the new evidence is assigned.
StaleRevision(r, item) ==
    [status |-> item.status, actor |-> input[r].user, request |-> r,
     evidence |-> IF current[r] = NoDecision THEN item.evidence
                                             ELSE current[r].evidence]

NewRevision(r, item) ==
    [status |-> item.status, evidence |-> item.evidence,
     actor |-> input[r].user, request |-> r]

\* The unique index on code also sees soft-deleted rows.
CreateWithRevision(r) ==
    /\ phase[r] = "write" /\ input[r].kind = "create"
    /\ LET c == input[r].code
       IN  IF decisions[c] = NoDecision
           THEN /\ decisions' = [decisions EXCEPT ![c] = Edited(r)]
                /\ revisions' = [revisions EXCEPT ![c] =
                     WithRevision(NoRevisions, 1, NewRevision(r, Edited(r)))]
                /\ Goto(r, "audit")
           ELSE Finish(r, "internal") /\ UNCHANGED <<decisions, revisions>>
    /\ UNCHANGED <<audits, shown>>

\* Mutant: the version is left out of the WHERE clause.
MatchesAnyVersion(row, expected) == Live(row)

\* Mutant: the soft-delete filter is left out (Unscoped).
MatchesUnscoped(row, expected) == row # NoDecision /\ row.version = expected

Matches(row, expected) == Live(row) /\ row.version = expected

\* Select("*") writes every column of the item but the omitted ones, so the
\* status and evidence a request does not set come from its snapshot.
Rewritten(row, item) ==
    [row EXCEPT !.status = item.status, !.evidence = item.evidence,
                !.version = item.version]

\* Mutant: no transaction, the revision is inserted before the row is checked.
UpdateThenRevise(r) ==
    /\ phase[r] = "write" /\ input[r].kind \in {"update", "transition"}
    /\ LET c == input[r].code
           item == Edited(r)
       IN  /\ revisions' = [revisions EXCEPT ![c] =
                WithRevision(@, item.version, NewRevision(r, item))]
           /\ IF Matches(decisions[c], input[r].expected)
              THEN /\ decisions' = [decisions EXCEPT ![c] = Rewritten(@, item)]
                   /\ Goto(r, "audit")
              ELSE Finish(r, "conflict") /\ UNCHANGED decisions
    /\ UNCHANGED <<audits, shown>>

\* Mutant: the last writer wins, whatever version the client expected.
UpdateBlindly(r) ==
    /\ phase[r] = "write" /\ input[r].kind \in {"update", "transition"}
    /\ LET c == input[r].code
           item == [Edited(r) EXCEPT !.version = decisions[c].version + 1]
       IN  IF Live(decisions[c])
           THEN /\ decisions' = [decisions EXCEPT ![c] = Rewritten(@, item)]
                /\ revisions' = [revisions EXCEPT ![c] =
                     WithRevision(@, item.version, NewRevision(r, item))]
                /\ Goto(r, "audit")
           ELSE Finish(r, "conflict") /\ UNCHANGED <<decisions, revisions>>
    /\ UNCHANGED <<audits, shown>>

UpdateWithRevision(r) ==
    /\ phase[r] = "write" /\ input[r].kind \in {"update", "transition"}
    /\ LET c == input[r].code
           item == Edited(r)
           matched == Matches(decisions[c], input[r].expected)
       IN  IF matched /\ item.version \notin DOMAIN revisions[c]
           THEN /\ decisions' = [decisions EXCEPT ![c] = Rewritten(@, item)]
                /\ revisions' = [revisions EXCEPT ![c] =
                     WithRevision(@, item.version, NewRevision(r, item))]
                /\ Goto(r, "audit")
           ELSE /\ Finish(r, IF matched THEN "internal" ELSE "conflict")
                /\ UNCHANGED <<decisions, revisions>>
    /\ UNCHANGED <<audits, shown>>

\* Mutant: a row that is already deleted counts as affected.
RemovesAgain(row) == row # NoDecision

\* The soft delete asks for the row only: no version and no status.
Removes(row) == Live(row)

Delete(r) ==
    /\ phase[r] = "write" /\ input[r].kind = "delete"
    /\ LET c == input[r].code
       IN  IF Removes(decisions[c])
           THEN /\ decisions' = [decisions EXCEPT ![c].deleted = TRUE]
                /\ Goto(r, "audit")
           ELSE Finish(r, "notFound") /\ UNCHANGED decisions
    /\ UNCHANGED <<revisions, audits, shown>>

-----------------------------------------------------------------------------
(***************************************************************************)
(* After the commit: the audit entry, then the read of the response.       *)
(***************************************************************************)
\* Mutant: the state before the change is taken after it.
AuditEntryAfterwards(r) ==
    LET in == input[r]
    IN  [request |-> r, actor |-> in.user, code |-> in.code, action |-> in.kind,
         before |-> IF in.kind = "create" THEN "" ELSE Edited(r).status,
         after |-> IF in.kind = "delete" THEN "deleted" ELSE Edited(r).status]

AuditEntry(r) ==
    LET in == input[r]
    IN  [request |-> r, actor |-> in.user, code |-> in.code, action |-> in.kind,
         before |-> IF in.kind = "create" THEN "" ELSE current[r].status,
         after |-> IF in.kind = "delete" THEN "deleted" ELSE Edited(r).status]

\* Mutant: only creations and deletions are audited.
AuditBothEnds(r) ==
    /\ phase[r] = "audit"
    /\ audits' = IF input[r].kind \in {"create", "delete"}
                 THEN audits \cup {AuditEntry(r)} ELSE audits
    /\ IF input[r].kind = "delete" THEN Finish(r, "ok") ELSE Goto(r, "reload")
    /\ UNCHANGED <<decisions, revisions, shown>>

Audit(r) ==
    /\ phase[r] = "audit"
    /\ audits' = audits \cup {AuditEntry(r)}
    /\ IF input[r].kind = "delete" THEN Finish(r, "ok") ELSE Goto(r, "reload")
    /\ UNCHANGED <<decisions, revisions, shown>>

\* Mutant: the handler waits for the decision to come back.
ReloadUntilFound(r) ==
    /\ phase[r] = "reload"
    /\ Live(decisions[input[r].code])
    /\ current' = [current EXCEPT ![r] = decisions[input[r].code]]
    /\ phase' = [phase EXCEPT ![r] = "preload"]
    /\ UNCHANGED <<database, input, shown>>

\* The reply is read in two statements: the row, then its revisions.
Reload(r) ==
    /\ phase[r] = "reload"
    /\ LET row == decisions[input[r].code]
       IN  IF Live(row)
           THEN /\ current' = [current EXCEPT ![r] = row]
                /\ phase' = [phase EXCEPT ![r] = "preload"]
                /\ UNCHANGED input
           ELSE Finish(r, "notFound")
    /\ UNCHANGED <<database, shown>>

Preload(r) ==
    /\ phase[r] = "preload"
    /\ shown' = [shown EXCEPT ![r] = revisions[input[r].code]]
    /\ phase' = [phase EXCEPT ![r] = "ok"]
    /\ input' = [input EXCEPT ![r] = NoInput]
    /\ UNCHANGED <<database, current>>

-----------------------------------------------------------------------------
(***************************************************************************)
(* Faults.                                                                 *)
(***************************************************************************)
\* Any read, or the write transaction, may fail: nothing was changed by it.
DatabaseFails(r) ==
    /\ phase[r] \in {"idle", "write", "reload", "preload"}
    /\ Finish(r, "internal")
    /\ UNCHANGED <<database, shown>>

\* Mutant: every kind of request ignores a failed audit.
IgnoresAuditError(kind) == TRUE

\* `_ = s.security.Audit(...)` on create and update only.
AuditErrorIgnored(kind) == kind \in {"create", "update"}

AuditFails(r) ==
    /\ phase[r] = "audit"
    /\ IF AuditErrorIgnored(input[r].kind)
       THEN Goto(r, "reload")
       ELSE Finish(r, "internal")
    /\ UNCHANGED <<database, shown>>

\* A statement is done and its answer lost.  Where another one follows, this is
\* its failure; the entry of a deletion is the last.
AnswerLost(r) ==
    /\ phase[r] = "audit" /\ input[r].kind = "delete"
    /\ audits' = audits \cup {AuditEntry(r)}
    /\ Finish(r, "internal")
    /\ UNCHANGED <<decisions, revisions, shown>>

\* The process stops: every handler is gone, the tables stay.
Crash ==
    LET running == {r \in Reqs : phase[r] \in InFlight}
        dropped(f, gone) == [r \in Reqs |-> IF r \in running THEN gone ELSE f[r]]
    IN  /\ running # {}
        /\ phase' = dropped(phase, "lost")
        /\ input' = dropped(input, NoInput)
        /\ current' = dropped(current, NoDecision)
        /\ UNCHANGED <<database, shown>>

-----------------------------------------------------------------------------
Receive(r) == \/ ReceiveCreate(r)
              \/ ReceiveUpdate(r)
              \/ ReceiveTransition(r)
              \/ ReceiveDelete(r)
              \/ ReceiveGet(r)

Serve(r) == \/ CreateWithRevision(r)
            \/ UpdateWithRevision(r)
            \/ Delete(r)
            \/ Audit(r)
            \/ Reload(r)
            \/ Preload(r)

\* All requests are answered: the only way the bounded system stops.
Quiescent ==
    /\ \A r \in Reqs : phase[r] \in Outcomes
    /\ UNCHANGED vars

FaultFreeNext == \/ \E r \in Reqs : Receive(r) \/ Serve(r)
                 \/ Quiescent

Next == \/ \E r \in Reqs : \/ Receive(r)
                           \/ Serve(r)
                           \/ DatabaseFails(r)
                           \/ AuditFails(r)
                           \/ AnswerLost(r)
        \/ Crash
        \/ Quiescent

Spec == Init /\ [][Next]_vars

\* A handler that has started runs on; a client may never send its request.
FaultFreeSpec == /\ Init /\ [][FaultFreeNext]_vars
                 /\ \A r \in Reqs : WF_vars(Serve(r))

=============================================================================
