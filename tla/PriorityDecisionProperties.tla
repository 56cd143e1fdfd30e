--------------------- MODULE PriorityDecisionProperties ---------------------
(***************************************************************************)
(* What must be true of the priority decisions, whatever handlers          *)
(* interleave, fail or disappear.                                          *)
(***************************************************************************)
EXTENDS PriorityDecision

TypeOK ==
    /\ decisions \in [Codes -> Decision \cup {NoDecision}]
    /\ \A c \in Codes : /\ DOMAIN revisions[c] \subseteq Nat
                        /\ \A v \in DOMAIN revisions[c] : revisions[c][v] \in Revision
    /\ DOMAIN revisions = Codes
    /\ audits \subseteq AuditLog
    /\ phase \in [Reqs -> Phases]
    /\ input \in [Reqs -> Input \cup {NoInput}]
    /\ current \in [Reqs -> Decision \cup {NoDecision}]
    /\ DOMAIN shown = Reqs

-----------------------------------------------------------------------------
(***************************************************************************)
(* The revisions.                                                          *)
(***************************************************************************)
\* The revisions of a decision are numbered 1, 2, ... up to its version
\* without a gap, the first is its preparer's draft, and the last says what the
\* row says: no interleaving of readers with old snapshots and of failed or
\* conflicting writes separates the table of decisions from that of revisions.
ChainOf(c) ==
    IF decisions[c] = NoDecision
    THEN DOMAIN revisions[c] = {}
    ELSE LET row == decisions[c]
         IN  /\ row.version \in Nat \ {0}
             /\ DOMAIN revisions[c] = 1 .. row.version
             /\ revisions[c][1].status = "draft"
             /\ revisions[c][1].actor = row.preparedBy
             /\ revisions[c][row.version].status = row.status
             /\ revisions[c][row.version].evidence = row.evidence

RevisionChain == \A c \in Codes : ChainOf(c)

\* Separation of duty: every revision that sets a priority level was written by
\* a reviewer or an administrator who did not prepare the decision, although
\* the check ran on a snapshot that other handlers may have outdated.
IndependentReview ==
    \A c \in Codes : \A v \in DOMAIN revisions[c] :
        revisions[c][v].status # "draft" =>
            /\ RoleOf[revisions[c][v].actor] \in {"reviewer", "admin"}
            /\ revisions[c][v].actor # decisions[c].preparedBy

\* A draft is written by its preparer or an administrator, whatever the handler
\* read when it asked who may edit.
DraftsByOwner ==
    \A c \in Codes : \A v \in DOMAIN revisions[c] :
        revisions[c][v].status = "draft" =>
            \/ revisions[c][v].actor = decisions[c].preparedBy
            \/ RoleOf[revisions[c][v].actor] = "admin"

\* Who finalises a decision wrote the evidence it is finalised on only if an
\* administrator: a reviewer never approves its own text, by whatever sequence
\* of edits and reviews of several users.  (An administrator that edits another's
\* draft may finalise it; the separation of duty looks at the preparer alone.)
OwnEvidenceOnlyByAdmin ==
    \A c \in Codes : \A v \in DOMAIN revisions[c] :
        (/\ revisions[c][v].status # "draft"
         /\ v - 1 \in DOMAIN revisions[c]
         /\ revisions[c][v - 1].status = "draft"
         /\ revisions[c][v - 1].actor = revisions[c][v].actor)
        => RoleOf[revisions[c][v].actor] = "admin"

\* "PriorityDecisionRevision is append-only" (model/priority_decision.go:29): a
\* step keeps every revision, the row and its preparer, and raises the version
\* by at most one; handlers that read different versions cannot break it.
HistoryKept(c) ==
    /\ decisions'[c] # NoDecision
    /\ decisions'[c].preparedBy = decisions[c].preparedBy
    /\ decisions'[c].version \in {decisions[c].version, decisions[c].version + 1}
    /\ \A v \in DOMAIN revisions[c] :
          v \in DOMAIN revisions'[c] /\ revisions'[c][v] = revisions[c][v]

RevisionsAppendOnly ==
    [][\A c \in Codes : decisions[c] # NoDecision => HistoryKept(c)]_vars

\* A priority level is set once, as the last revision, on the evidence of the
\* draft just before it: nobody approves evidence that was replaced between
\* their read and their write.
ApprovedAsRead ==
    \A c \in Codes : \A v \in DOMAIN revisions[c] :
        revisions[c][v].status # "draft" =>
            /\ v = decisions[c].version
            /\ v - 1 \in DOMAIN revisions[c]
            /\ revisions[c][v].evidence = revisions[c][v - 1].evidence

\* A finalised decision keeps its status, evidence, version, preparer and
\* revisions, whatever requests were under way when it was finalised.  (It may
\* still be removed: FinalNeverDeleted.)
FinalFrozen ==
    [][\A c \in Codes :
         IsFinal(decisions[c]) =>
            /\ [decisions'[c] EXCEPT !.deleted = decisions[c].deleted] = decisions[c]
            /\ revisions'[c] = revisions[c]]_vars

\* A soft-deleted decision is never changed or brought back by a handler that
\* read it before it was deleted.
RemovedIsFrozen ==
    [][\A c \in Codes :
         (decisions[c] # NoDecision /\ ~Live(decisions[c])) =>
            /\ decisions'[c] = decisions[c]
            /\ revisions'[c] = revisions[c]]_vars

\* "final priority decisions are immutable" (service/errors.go:10): a decision
\* with a priority level is not deleted.
FinalNeverDeleted ==
    \A c \in Codes : IsFinal(decisions[c]) => ~decisions[c].deleted

\* Between its read and its write a handler holds what was true of the decision
\* once: an earlier version, then a draft, that its revisions still record, with
\* the preparer the decision still has.  A reviewer that passed the checks holds
\* a decision it may review.
SnapshotsRecorded ==
    \A r \in Reqs :
        (phase[r] = "write" /\ input[r].kind \in {"update", "transition"}) =>
            LET in == input[r]
                row == decisions[in.code]
                old == current[r]
            IN  /\ row # NoDecision
                /\ old.version \in 1 .. row.version
                /\ old.status = "draft"
                /\ old.preparedBy = row.preparedBy
                /\ revisions[in.code][old.version].status = "draft"
                /\ revisions[in.code][old.version].evidence = old.evidence
                /\ in.expected \in 1 .. old.version + Lookahead

-----------------------------------------------------------------------------
(***************************************************************************)
(* The audit log.                                                          *)
(***************************************************************************)
\* Every audit entry of a change is confirmed by the revisions: its request
\* wrote one that has the state after, and the one before it has the state
\* before, even when the entry is appended long after the commit.
AuditTellsTheTruth ==
    \A a \in audits : a.action # "delete" =>
        \E v \in DOMAIN revisions[a.code] :
            /\ revisions[a.code][v].request = a.request
            /\ revisions[a.code][v].actor = a.actor
            /\ revisions[a.code][v].status = a.after
            /\ IF v = 1 THEN a.before = ""
                        ELSE a.before = revisions[a.code][v - 1].status

\* Administrators that delete one decision at the same time do it once: the
\* log holds at most one deletion of a code, and only of a deleted row.
SingleRemoval ==
    \A a \in audits : a.action = "delete" =>
        /\ decisions[a.code].deleted
        /\ \A b \in audits : (b.action = "delete" /\ b.code = a.code) => b = a

\* A reviewer who was told "ok" finds the finalisation in the audit log.
AcknowledgedIsAudited ==
    \A c \in Codes : \A v \in DOMAIN revisions[c] :
        LET r == revisions[c][v].request
        IN  (revisions[c][v].status # "draft" /\ r \in Reqs /\ phase[r] = "ok")
            => \E a \in audits : a.request = r

\* "all status changes ... are written to the audit log" (README.md:42): once
\* the request of a finalised revision is over, its entry is in the log.
StatusChangesAudited ==
    \A c \in Codes : \A v \in DOMAIN revisions[c] :
        LET r == revisions[c][v].request
        IN  (/\ revisions[c][v].status # "draft"
             /\ r \in Reqs
             /\ phase[r] \in Outcomes)
            => \E a \in audits : a.request = r

-----------------------------------------------------------------------------
(***************************************************************************)
(* What a client may conclude from a response.                             *)
(***************************************************************************)
\* A request rejected by a rule, its role or a conflict changed nothing: no
\* revision and no audit entry carries its id.
RejectedLeavesNoTrace ==
    \A r \in Reqs : phase[r] \in {"conflict", "forbidden", "rule"} =>
        /\ \A c \in Codes : \A v \in DOMAIN revisions[c] :
              revisions[c][v].request # r
        /\ \A a \in audits : a.request # r

\* The decision and the revisions of one reply are read by two statements; the
\* reply still contains the revision its version, status and evidence are from.
ReplyIsTraceable ==
    \A r \in Reqs : (phase[r] = "ok" /\ current[r] # NoDecision) =>
        LET row == current[r]
        IN  /\ row.version \in DOMAIN shown[r]
            /\ shown[r][row.version].status = row.status
            /\ shown[r][row.version].evidence = row.evidence

-----------------------------------------------------------------------------
(***************************************************************************)
(* Progress, without faults.                                               *)
(***************************************************************************)
\* Every accepted revision eventually has the audit entry of its request.
RevisionsEventuallyAudited ==
    \A r \in Reqs :
        (\E c \in Codes : \E v \in DOMAIN revisions[c] :
            revisions[c][v].request = r)
        ~> (\E a \in audits : a.request = r)

\* Every request that was taken up is answered.
Answered == \A r \in Reqs : phase[r] \in InFlight ~> phase[r] \in Outcomes

-----------------------------------------------------------------------------
(***************************************************************************)
(* The ledger the service implements when clients send only versions they  *)
(* have seen: the trail of a decision is its revisions without the request *)
(* ids.                                                                    *)
(***************************************************************************)
Trail(table) ==
    [c \in Codes |-> [v \in DOMAIN table[c] |->
        [status   |-> table[c][v].status,
         evidence |-> table[c][v].evidence,
         actor    |-> table[c][v].actor]]]

Ledger == INSTANCE DecisionLedger WITH
    trail <- Trail(revisions),
    removed <- {c \in Codes : decisions[c] # NoDecision /\ decisions[c].deleted},
    InitialTrail <- Trail([c \in Codes |->
        IF c \in DOMAIN SeedStatus THEN SeedRevisions(c) ELSE NoRevisions])

\* Every step of the handlers is one entry, one removal or nothing in the ledger.
ImplementsLedger == Ledger!LedgerSpec

=============================================================================
