---------------------------- MODULE MCWebClient ----------------------------
(***************************************************************************)
(* A small instance of WebClient for TLC.                                  *)
(***************************************************************************)
EXTENDS WebClient, TLC

CONSTANTS o1, o2, o3, x1, e1, e2

MCUsers == {"viewer", "reviewer", "admin"}
MCRoleOf == [u \in MCUsers |-> u]

\* PD-001, a draft that a reviewer prepared.
SeededDraft == [pd1 |-> "draft"]

Symmetry == Permutations({o1, o2, o3})

=============================================================================
