------------------------- MODULE MCPriorityDecision -------------------------
(***************************************************************************)
(* Small instances of PriorityDecision for TLC.                            *)
(***************************************************************************)
EXTENDS PriorityDecisionProperties, TLC

CONSTANTS r1, r2, r3, e1, e2

\* The three accounts of the seed that can write.
MCUsers == {"operator", "reviewer", "admin"}
MCRoleOf == [u \in MCUsers |-> u]

\* The two that can review, and prepare as an operator can.
TwoUsers == {"reviewer", "admin"}
TwoRoles == [u \in TwoUsers |-> u]

\* PD-001 of the seed, a draft.
SeededDraft == [pd1 |-> "draft"]

\* No seeded decision: everything is created by requests.
NoSeeds == [c \in {} |-> "draft"]

Symmetry == Permutations({r1, r2, r3})

=============================================================================
