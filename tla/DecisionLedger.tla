--------------------------- MODULE DecisionLedger ---------------------------
(***************************************************************************)
(* What the priority-decision service promises, free of handlers,          *)
(* snapshots and versions: every decision has one trail of entries that    *)
(* only grows; it opens with a draft by its preparer, may be amended while *)
(* it is a draft, and closes with one priority level set by an independent *)
(* reviewer on the evidence of the last draft.  A closed trail takes no    *)
(* further entry, and neither does a removed one.                          *)
(***************************************************************************)
EXTENDS Sequences, SequencesExt, StatusGraph, AccessControl

CONSTANTS
    Codes, Users, RoleOf, Evidence,
    InitialTrail    \* the seeded trails

VARIABLES
    trail,      \* the entries of each decision, oldest first; empty: no decision
    removed     \* the decisions taken out of the register

ledger == <<trail, removed>>

Entry == [status: PriorityDecisionStatuses, evidence: Evidence, actor: Users]

LedgerInit == trail = InitialTrail /\ removed = {}

Preparer(c) == Head(trail[c]).actor

\* Only an open trail, one that exists, is not removed and ends in a draft,
\* takes an entry.
Open(c) == /\ trail[c] # <<>>
           /\ c \notin removed
           /\ Last(trail[c]).status = "draft"

Enter(c, entry) ==
    /\ trail' = [trail EXCEPT ![c] = Append(@, entry)]
    /\ UNCHANGED removed

Draft(c) ==
    /\ trail[c] = <<>>
    /\ \E user \in Users, evidence \in Evidence :
         /\ RequireMinimumRole(RoleOf[user], "operator")
         /\ Enter(c, [status |-> "draft", evidence |-> evidence, actor |-> user])

Amend(c) ==
    /\ Open(c)
    /\ \E user \in Users, evidence \in Evidence :
         /\ user = Preparer(c) \/ RoleOf[user] = "admin"
         /\ Enter(c, [status |-> "draft", evidence |-> evidence, actor |-> user])

Finalise(c) ==
    /\ Open(c)
    /\ \E user \in Users, level \in PriorityLevels :
         /\ user # Preparer(c)
         /\ RoleOf[user] \in {"reviewer", "admin"}
         /\ Enter(c, [status |-> level, evidence |-> Last(trail[c]).evidence,
                        actor |-> user])

\* The code does not hold a removal back when the decision was closed in the
\* meantime, so the promise cannot be that only drafts are removed.
Withdraw(c) ==
    /\ trail[c] # <<>>
    /\ c \notin removed
    /\ removed' = removed \cup {c}
    /\ UNCHANGED trail

LedgerNext == \E c \in Codes : Draft(c) \/ Amend(c) \/ Finalise(c) \/ Withdraw(c)

LedgerSpec == LedgerInit /\ [][LedgerNext]_ledger

=============================================================================
