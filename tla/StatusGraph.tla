---------------------------- MODULE StatusGraph ----------------------------
(***************************************************************************)
(* The status graphs of the four aggregates (constants/status.go).  A      *)
(* graph maps a status to the statuses one transition may lead to; the     *)
(* initial status of a record is the one its model package names.          *)
(***************************************************************************)

BridgeAssetTransitions ==
    [ active     |-> {"restricted", "closed"},
      restricted |-> {"closed", "retired", "active"},
      closed     |-> {"retired", "restricted"},
      retired    |-> {"closed"} ]

InspectionRoundTransitions ==
    [ planned   |-> {"running", "review"},
      running   |-> {"review", "completed", "planned"},
      review    |-> {"completed", "running"},
      completed |-> {"review"} ]

DefectFindingTransitions ==
    [ new        |-> {"verified", "monitoring"},
      verified   |-> {"monitoring", "mitigated", "new"},
      monitoring |-> {"mitigated", "closed", "verified"},
      mitigated  |-> {"closed", "monitoring"},
      closed     |-> {"mitigated"} ]

PriorityLevels == {"observe", "restrict", "urgent"}

\* The draft may become any priority level; a level leads nowhere.
PriorityDecisionStatuses == {"draft"} \cup PriorityLevels

PriorityDecisionTransitions ==
    [ s \in PriorityDecisionStatuses |->
        IF s = "draft" THEN PriorityLevels ELSE {} ]

\* A status the graph does not list has no successor at all.
CanTransition(graph, from, to) ==
    /\ from \in DOMAIN graph
    /\ to \in graph[from]

=============================================================================
