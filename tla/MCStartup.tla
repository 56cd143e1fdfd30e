----------------------------- MODULE MCStartup -----------------------------
(***************************************************************************)
(* A small instance of Startup for TLC: the five tables of the seed, with  *)
(* fewer rows each.                                                        *)
(***************************************************************************)
EXTENDS Startup

MCTables == <<"users", "bridges", "inspections", "defects", "decisions">>

MCSeedCodes == [users |-> {"admin"}, bridges |-> {"BA-001", "BA-002"},
                inspections |-> {"IR-001"}, defects |-> {"DF-001"},
                decisions |-> {"PD-001", "PD-002"}]

\* Clients add a bridge and a decision; there is no route that adds a user.
MCOtherCodes == [t \in DOMAIN MCSeedCodes |->
    CASE t = "bridges" -> {"BA-100"} [] t = "decisions" -> {"PD-100"} [] OTHER -> {}]

\* No route deletes a user, and PD-002 is final.
MCDeletable == [t \in DOMAIN MCSeedCodes |->
    IF t = "users" THEN {} ELSE (MCSeedCodes[t] \cup MCOtherCodes[t]) \ {"PD-002"}]

=============================================================================
