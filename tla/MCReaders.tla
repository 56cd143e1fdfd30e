----------------------------- MODULE MCReaders -----------------------------
(***************************************************************************)
(* Small instances of Listing and AuditSummary for TLC: one reader at a    *)
(* time, since a reader changes nothing another could see.                 *)
(***************************************************************************)
EXTENDS Listing, AuditSummary

VARIABLE reader

\* Four rows, two of them of one instant.
MCPresent   == <<1, 2, 2, 3>>
MCPageSizes == {-1, 1, 2, 3, 4}

\* One entry older than the window.
MCOldEntries == <<[action |-> "update", actor |-> "operator",
                   type |-> "BridgeAsset", recent |-> FALSE]>>

Init ==
    /\ reader \in {"walk", "summary"}
    /\ WalkInit /\ SummaryInit
    /\ reader = "summary" => table = "audits" /\ page = 1 /\ size = DefaultSize /\ byTotal

Next ==
    \/ reader = "walk" /\ WalkNext /\ UNCHANGED <<reader, summaryVars>>
    \/ reader = "summary" /\ SummaryNext /\ UNCHANGED <<reader, walkVars>>

Spec == Init /\ [][Next]_<<reader, walkVars, summaryVars>>

=============================================================================
