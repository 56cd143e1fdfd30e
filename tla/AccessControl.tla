--------------------------- MODULE AccessControl ---------------------------
(***************************************************************************)
(* The role checks every route goes through (middleware/auth.go) before a  *)
(* handler runs.                                                           *)
(***************************************************************************)
EXTENDS Naturals

Roles == {"viewer", "operator", "reviewer", "admin"}

RoleRank == [viewer |-> 1, operator |-> 2, reviewer |-> 3, admin |-> 4]

RequireMinimumRole(role, minimum) == RoleRank[role] >= RoleRank[minimum]

RequireRoles(role, allowed) == role \in allowed

=============================================================================
