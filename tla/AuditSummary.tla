---------------------------- MODULE AuditSummary ----------------------------
(***************************************************************************)
(* The audit summary (service/security.go over repository/security.go)     *)
(* while other requests append to the log: five statements without a       *)
(* transaction, each of which sees the log as it is by then.               *)
(***************************************************************************)
EXTENDS Integers, Sequences, FiniteSets, Functions

CONSTANTS
    Actions,        \* what entries record; "transition" is one of them
    Actors,
    EntityTypes,
    OldEntries,     \* the log before the window of the summary
    MaxEntries      \* bounds the log

Entry == [action: Actions, actor: Actors, type: EntityTypes, recent: BOOLEAN]

ASSUME ActionsAssumption == /\ "transition" \in Actions /\ IsFiniteSet(Actions)
                            /\ IsFiniteSet(EntityTypes)
ASSUME OldAssumption     == /\ OldEntries \in Seq(Entry)
                            /\ \A i \in DOMAIN OldEntries : ~OldEntries[i].recent
ASSUME BoundAssumption   == MaxEntries \in Nat

VARIABLES
    log,        \* table audit_logs, oldest first
    step,       \* the next statement of the reader, or how it ended
    summary,    \* what it has read so far
    lengthThen  \* history: the length of the log at its first statement

summaryVars == <<log, step, summary, lengthThen>>

NoSummary == [total |-> 0, transitions |-> 0, uniqueActors |-> 0,
              actions |-> [a \in Actions |-> 0],
              entityTypes |-> [t \in EntityTypes |-> 0]]

SummaryInit ==
    /\ log = OldEntries
    /\ step = "total"
    /\ summary = NoSummary
    /\ lengthThen = 0

\* The entries of the window, created_at >= since.
InWindow == {i \in DOMAIN log : log[i].recent}

AppendAudit ==
    /\ Len(log) < MaxEntries
    /\ \E a \in Actions, u \in Actors, t \in EntityTypes :
         log' = Append(log, [action |-> a, actor |-> u, type |-> t, recent |-> TRUE])
    /\ UNCHANGED <<step, summary, lengthThen>>

Read(statement, next) ==
    /\ step = statement
    /\ step' = next
    /\ UNCHANGED log

\* Mutant: the total counts entries of before the window, too.
CountAll ==
    /\ Read("total", "transitions")
    /\ summary' = [summary EXCEPT !.total = Len(log)]
    /\ lengthThen' = Len(log)

CountTotal ==
    /\ Read("total", "transitions")
    /\ summary' = [summary EXCEPT !.total = Cardinality(InWindow)]
    /\ lengthThen' = Len(log)

CountTransitions ==
    /\ Read("transitions", "actors")
    /\ summary' = [summary EXCEPT !.transitions =
                     Cardinality({i \in InWindow : log[i].action = "transition"})]
    /\ UNCHANGED lengthThen

CountActors ==
    /\ Read("actors", "actions")
    /\ summary' = [summary EXCEPT !.uniqueActors =
                     Cardinality({log[i].actor : i \in InWindow})]
    /\ UNCHANGED lengthThen

GroupActions ==
    /\ Read("actions", "entityTypes")
    /\ summary' = [summary EXCEPT !.actions =
                     [a \in Actions |-> Cardinality({i \in InWindow : log[i].action = a})]]
    /\ UNCHANGED lengthThen

GroupEntityTypes ==
    /\ Read("entityTypes", "ok")
    /\ summary' = [summary EXCEPT !.entityTypes =
                     [t \in EntityTypes |-> Cardinality({i \in InWindow : log[i].type = t})]]
    /\ UNCHANGED lengthThen

\* Any statement may fail; the client gets no summary at all.
ReadFails ==
    /\ step \notin {"ok", "internal"}
    /\ step' = "internal"
    /\ summary' = NoSummary
    /\ UNCHANGED <<log, lengthThen>>

\* The summary was answered; the log is full.
Quiescent ==
    /\ step \in {"ok", "internal"} /\ Len(log) = MaxEntries
    /\ UNCHANGED summaryVars

SummarizeAudits == \/ CountTotal
                   \/ CountTransitions
                   \/ CountActors
                   \/ GroupActions
                   \/ GroupEntityTypes
                   \/ ReadFails

SummaryNext == AppendAudit \/ SummarizeAudits \/ Quiescent

SummarySpec == SummaryInit /\ [][SummaryNext]_summaryVars

-----------------------------------------------------------------------------
\* The figures of one summary may come from different moments, but they differ
\* only by what was appended while it was read, and in the order it was read: the
\* total is at most the sum by action, that at most the sum by entity type; no
\* more transitions than the actions list, no more actors than entries.  A
\* summary read while nothing is appended agrees with itself.
SummaryConsistent ==
    step = "ok" =>
        LET byAction == SumFunction(summary.actions)
            byType   == SumFunction(summary.entityTypes)
        IN  /\ summary.total <= byAction
            /\ byAction <= byType
            /\ byType <= summary.total + (Len(log) - lengthThen)
            /\ summary.transitions <= summary.actions["transition"]
            /\ summary.uniqueActors <= byAction
            /\ summary.total > 0 => summary.uniqueActors > 0

=============================================================================
