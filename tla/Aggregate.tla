----------------------------- MODULE Aggregate -----------------------------
(***************************************************************************)
(* The three aggregates without revisions: bridge assets, inspection       *)
(* rounds and defect findings.  Their services, handlers and repositories  *)
(* are the same code under different names, over repository/base.go; a     *)
(* code stands for the row it names, and TableOf says in which table.      *)
(*                                                                         *)
(* As in PriorityDecision every request is a handler of its own, and every *)
(* database statement is a step.  The router's role checks are left out:   *)
(* these services never look at the actor.                                 *)
(***************************************************************************)
EXTENDS Naturals, StatusGraph

CONSTANTS
    Codes,          \* codes of records, of any of the three tables
    TableOf,        \* the table of each code
    Data,           \* business fields that pass validation, as one value
    Blank,          \* stands for input with a blank business field
    Reqs,           \* requests, each handled once
    Lookahead,      \* how far past the current version a client may guess
    NoRecord,       \* no row, or no snapshot
    NoInput,        \* a request that has not arrived, or is over
    SeedStatus,     \* status of each seeded record; its domain: seeded codes
    SeedData        \* their business fields

-----------------------------------------------------------------------------
Tables == {"BridgeAsset", "InspectionRound", "DefectFinding"}

Transitions ==
    [ BridgeAsset     |-> BridgeAssetTransitions,
      InspectionRound |-> InspectionRoundTransitions,
      DefectFinding   |-> DefectFindingTransitions ]

\* BridgeAssetInitialStatus and its two siblings.
InitialStatusOf ==
    [ BridgeAsset     |-> "active",
      InspectionRound |-> "planned",
      DefectFinding   |-> "new" ]

Graph(c) == Transitions[TableOf[c]]
InitialStatus(c) == InitialStatusOf[TableOf[c]]
Statuses == UNION {DOMAIN Transitions[t] : t \in Tables}

ASSUME TablesAssumption    == TableOf \in [Codes -> Tables]
ASSUME DataAssumption      == Blank \notin Data
ASSUME LookaheadAssumption == Lookahead \in Nat
ASSUME SeedAssumption      ==
    /\ DOMAIN SeedStatus \subseteq Codes
    /\ \A c \in DOMAIN SeedStatus : SeedStatus[c] \in DOMAIN Graph(c)
    /\ SeedData \in Data

Record == [status: Statuses, version: Nat, data: Data, deleted: BOOLEAN]

ASSUME NoRecordAssumption ==
    NoRecord \notin Record \cup [status: Statuses, data: Data]

AuditLog == [request: Reqs, code: Codes,
             action: {"create", "update", "transition", "delete"},
             before: Statuses \cup {""},
             after: Statuses \cup {"deleted"}]

\* What a request carries; fields its kind does not use hold a default.
Input == [kind: {"create", "update", "transition", "delete", "get"},
          code: Codes, expected: Nat, target: Statuses,
          data: Data \cup {Blank}]

Outcomes == {"ok", "notFound", "conflict", "rule", "internal", "lost"}
InFlight == {"write", "audit", "reload"}
Phases   == {"idle"} \cup InFlight \cup Outcomes

VARIABLES
    records,    \* the three tables: one row or none per code
    audits,     \* table audit_logs, the rows of these aggregates
    phase,      \* the next database statement of each request, or its outcome
    input,      \* what each request asked for
    current     \* the row each handler holds: its snapshot, then its reply

vars == <<records, audits, phase, input, current>>

Live(row) == row # NoRecord /\ ~row.deleted

SeedRow(c) == [status |-> SeedStatus[c], version |-> 1,
               data |-> SeedData, deleted |-> FALSE]

Init ==
    /\ records = [c \in Codes |->
                    IF c \in DOMAIN SeedStatus THEN SeedRow(c) ELSE NoRecord]
    /\ audits = {}
    /\ phase = [r \in Reqs |-> "idle"]
    /\ input = [r \in Reqs |-> NoInput]
    /\ current = [r \in Reqs |-> NoRecord]

-----------------------------------------------------------------------------
(***************************************************************************)
(* A request arrives and runs its first statement, the read of the row (a  *)
(* create only validates).  A verdict is the early return the handler      *)
(* takes on what it read, or the statement it goes on to.                  *)
(***************************************************************************)
\* Mutant: blank business fields are accepted.
CreateVerdictWithoutValidation(data) == "write"

CreateVerdict(data) == IF data = Blank THEN "rule" ELSE "write"

EditVerdict(row, data) ==
    IF ~Live(row) THEN "notFound"
    ELSE IF data = Blank THEN "rule"
    ELSE "write"

MoveVerdict(c, target) ==
    IF ~Live(records[c]) THEN "notFound"
    ELSE IF ~CanTransition(Graph(c), records[c].status, target) THEN "rule"
    ELSE "write"

Request(kind, c) == [kind |-> kind, code |-> c, expected |-> 0,
                     target |-> InitialStatus(c), data |-> Blank]

\* The versions a client can send: those the record has had, and Lookahead more.
KnownVersions(c) ==
    LET latest == IF records[c] = NoRecord THEN 1 ELSE records[c].version
    IN  1 .. latest + Lookahead

\* A verdict that is an outcome ends the request at once.
Enter(r, request, verdict, snapshot) ==
    /\ phase[r] = "idle"
    /\ phase' = [phase EXCEPT ![r] = verdict]
    /\ IF verdict \in InFlight
       THEN input' = [input EXCEPT ![r] = request]
       ELSE UNCHANGED input
    /\ IF verdict \in InFlight \cup {"ok"}
       THEN current' = [current EXCEPT ![r] = snapshot]
       ELSE UNCHANGED current
    /\ UNCHANGED <<records, audits>>

ReceiveCreate(r) ==
    \E c \in Codes, data \in Data \cup {Blank} :
        Enter(r, [Request("create", c) EXCEPT !.data = data],
              CreateVerdict(data), NoRecord)

ReceiveUpdate(r) ==
    \E c \in Codes, data \in Data \cup {Blank} :
        \E expected \in KnownVersions(c) :
            Enter(r, [Request("update", c) EXCEPT !.expected = expected,
                                                  !.data = data],
                  EditVerdict(records[c], data), records[c])

ReceiveTransition(r) ==
    \E c \in Codes : \E target \in DOMAIN Graph(c), expected \in KnownVersions(c) :
        Enter(r, [Request("transition", c) EXCEPT !.expected = expected,
                                                  !.target = target],
              MoveVerdict(c, target), records[c])

\* Any status may be deleted.
ReceiveDelete(r) ==
    \E c \in Codes :
        Enter(r, Request("delete", c),
              IF Live(records[c]) THEN "write" ELSE "notFound", records[c])

ReceiveGet(r) ==
    \E c \in Codes :
        Enter(r, Request("get", c),
              IF Live(records[c]) THEN "ok" ELSE "notFound", records[c])

-----------------------------------------------------------------------------
(***************************************************************************)
(* The write, one statement.                                               *)
(***************************************************************************)
Goto(r, next) ==
    /\ phase' = [phase EXCEPT ![r] = next]
    /\ UNCHANGED <<input, current>>

\* A request that ends without a body leaves nothing of its handler behind.
Finish(r, outcome) ==
    /\ phase' = [phase EXCEPT ![r] = outcome]
    /\ input' = [input EXCEPT ![r] = NoInput]
    /\ current' = [current EXCEPT ![r] = NoRecord]

Edited(r) ==
    LET in == input[r]
    IN  CASE in.kind = "create" ->
               [status |-> InitialStatus(in.code), version |-> 1,
                data |-> in.data, deleted |-> FALSE]
          [] in.kind = "update" ->
               [current[r] EXCEPT !.version = in.expected + 1, !.data = in.data]
          [] in.kind = "transition" ->
               [current[r] EXCEPT !.version = in.expected + 1,
                                  !.status = in.target]

\* The unique index on code also sees soft-deleted rows.  The item created is
\* the reply; it is not read again.
Create(r) ==
    /\ phase[r] = "write" /\ input[r].kind = "create"
    /\ LET c == input[r].code
       IN  IF records[c] = NoRecord
           THEN /\ records' = [records EXCEPT ![c] = Edited(r)]
                /\ current' = [current EXCEPT ![r] = Edited(r)]
                /\ phase' = [phase EXCEPT ![r] = "audit"]
                /\ UNCHANGED input
           ELSE Finish(r, "internal") /\ UNCHANGED records
    /\ UNCHANGED audits

\* Mutant: the version is left out of the WHERE clause.
MatchesAnyVersion(row, expected) == Live(row)

Matches(row, expected) == Live(row) /\ row.version = expected

\* Select("*") writes every column but the omitted ones: an edit writes back
\* the status of its snapshot, a transition the data of its snapshot.
Update(r) ==
    /\ phase[r] = "write" /\ input[r].kind \in {"update", "transition"}
    /\ LET c == input[r].code
           item == Edited(r)
       IN  IF Matches(records[c], input[r].expected)
           THEN /\ records' = [records EXCEPT
                     ![c].status = item.status, ![c].data = item.data,
                     ![c].version = item.version]
                /\ Goto(r, "audit")
           ELSE Finish(r, "conflict") /\ UNCHANGED records
    /\ UNCHANGED audits

Removes(row) == Live(row)

Delete(r) ==
    /\ phase[r] = "write" /\ input[r].kind = "delete"
    /\ LET c == input[r].code
       IN  IF Removes(records[c])
           THEN /\ records' = [records EXCEPT ![c].deleted = TRUE]
                /\ Goto(r, "audit")
           ELSE Finish(r, "notFound") /\ UNCHANGED records
    /\ UNCHANGED audits

-----------------------------------------------------------------------------
(***************************************************************************)
(* After the write: the audit entry, then the read of the response.        *)
(***************************************************************************)
\* Mutant: the state before a transition is taken after it.
AuditEntryAfterwards(r) ==
    LET in == input[r]
    IN  [request |-> r, code |-> in.code, action |-> in.kind,
         before |-> IF in.kind = "create" THEN "" ELSE
                    IF in.kind = "delete" THEN current[r].status
                                          ELSE Edited(r).status,
         after |-> IF in.kind = "delete" THEN "deleted" ELSE Edited(r).status]

AuditEntry(r) ==
    LET in == input[r]
    IN  [request |-> r, code |-> in.code, action |-> in.kind,
         before |-> IF in.kind = "create" THEN "" ELSE current[r].status,
         after |-> IF in.kind = "delete" THEN "deleted" ELSE Edited(r).status]

\* What a handler does when its audit is done with, well or not.
AfterAudit(r) ==
    CASE input[r].kind = "create" -> Goto(r, "ok")
      [] input[r].kind = "delete" -> Finish(r, "ok")
      [] OTHER                    -> Goto(r, "reload")

Audit(r) ==
    /\ phase[r] = "audit"
    /\ audits' = audits \cup {AuditEntry(r)}
    /\ AfterAudit(r)
    /\ UNCHANGED records

\* Mutant: the handler answers with the snapshot it read.
ReplyWithSnapshot(r) ==
    /\ phase[r] = "reload"
    /\ Goto(r, "ok")
    /\ UNCHANGED <<records, audits>>

Reload(r) ==
    /\ phase[r] = "reload"
    /\ LET row == records[input[r].code]
       IN  IF Live(row)
           THEN /\ current' = [current EXCEPT ![r] = row]
                /\ phase' = [phase EXCEPT ![r] = "ok"]
                /\ UNCHANGED input
           ELSE Finish(r, "notFound")
    /\ UNCHANGED <<records, audits>>

-----------------------------------------------------------------------------
(***************************************************************************)
(* Faults.                                                                 *)
(***************************************************************************)
\* Any read, or the write, may fail: nothing was changed by it.
DatabaseFails(r) ==
    /\ phase[r] \in {"idle", "write", "reload"}
    /\ Finish(r, "internal")
    /\ UNCHANGED <<records, audits>>

\* `_ = s.security.Audit(...)` on create and update only.
AuditFails(r) ==
    /\ phase[r] = "audit"
    /\ IF input[r].kind \in {"create", "update"}
       THEN AfterAudit(r)
       ELSE Finish(r, "internal")
    /\ UNCHANGED <<records, audits>>

\* A statement is done and its answer lost.  Where another one follows, this is
\* its failure; two are the last whose errors the client is told of: the insert
\* of a creation and the entry of a deletion.
AnswerLost(r) ==
    /\ \/ /\ phase[r] = "write" /\ input[r].kind = "create"
          /\ records[input[r].code] = NoRecord
          /\ records' = [records EXCEPT ![input[r].code] = Edited(r)]
          /\ UNCHANGED audits
       \/ /\ phase[r] = "audit" /\ input[r].kind = "delete"
          /\ audits' = audits \cup {AuditEntry(r)}
          /\ UNCHANGED records
    /\ Finish(r, "internal")

\* The process stops: every handler is gone, the tables stay.
Crash ==
    LET running == {r \in Reqs : phase[r] \in InFlight}
        dropped(f, gone) == [r \in Reqs |-> IF r \in running THEN gone ELSE f[r]]
    IN  /\ running # {}
        /\ phase' = dropped(phase, "lost")
        /\ input' = dropped(input, NoInput)
        /\ current' = dropped(current, NoRecord)
        /\ UNCHANGED <<records, audits>>

-----------------------------------------------------------------------------
Receive(r) == \/ ReceiveCreate(r)
              \/ ReceiveUpdate(r)
              \/ ReceiveTransition(r)
              \/ ReceiveDelete(r)
              \/ ReceiveGet(r)

Serve(r) == Create(r) \/ Update(r) \/ Delete(r) \/ Audit(r) \/ Reload(r)

Fail(r) == DatabaseFails(r) \/ AuditFails(r) \/ AnswerLost(r)

\* All requests are answered: the only way the bounded system stops.
Quiescent ==
    /\ \A r \in Reqs : phase[r] \in Outcomes
    /\ UNCHANGED vars

Next == \/ \E r \in Reqs : Receive(r) \/ Serve(r) \/ Fail(r)
        \/ Crash
        \/ Quiescent

Spec == Init /\ [][Next]_vars

=============================================================================
