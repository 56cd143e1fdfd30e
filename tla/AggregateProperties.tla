------------------------ MODULE AggregateProperties ------------------------
(***************************************************************************)
(* What must be true of bridge assets, inspection rounds and defect        *)
(* findings, whatever handlers interleave, fail or disappear.              *)
(***************************************************************************)
EXTENDS Aggregate, FiniteSets

TypeOK ==
    /\ records \in [Codes -> Record \cup {NoRecord}]
    /\ \A c \in Codes : records[c] # NoRecord => records[c].status \in DOMAIN Graph(c)
    /\ audits \subseteq AuditLog
    /\ phase \in [Reqs -> Phases]
    /\ input \in [Reqs -> Input \cup {NoInput}]
    /\ current \in [Reqs -> Record \cup {NoRecord}]

\* The order of the entries in the log is not the order of the changes, since
\* each is appended after its commit.  Once nothing is under way and no request
\* broke off, the log still explains the status of every record: taken in some
\* order the transitions lead from the first status to the present one, each
\* leaving a status as often as the walk does.
InitialStatusOfRecord(c) ==
    IF c \in DOMAIN SeedStatus THEN SeedStatus[c] ELSE InitialStatus(c)

AuditTrailIsAWalk ==
    (\A r \in Reqs : phase[r] \in Outcomes \ {"internal", "lost"}) =>
        \A c \in Codes : \A s \in DOMAIN Graph(c) :
            LET moves    == {a \in audits : a.code = c /\ a.action = "transition"}
                arrivals == Cardinality({a \in moves : a.after = s})
                leavings == Cardinality({a \in moves : a.before = s})
                one(b)   == IF b THEN 1 ELSE 0
            IN  records[c] # NoRecord =>
                  arrivals + one(InitialStatusOfRecord(c) = s)
                    = leavings + one(records[c].status = s)

\* A client that is told its change succeeded sees it: the record of the reply,
\* read after the commit while others write, is the client's version or a later
\* one, and if it is the client's version it holds what the client set.
ReplyIncludesChange ==
    \A r \in Reqs :
        (phase[r] = "ok" /\ input[r] # NoInput) =>
            LET in == input[r]
                row == current[r]
            IN  /\ row.version > in.expected
                /\ row.version = in.expected + 1 =>
                     CASE in.kind = "transition" -> row.status = in.target
                       [] OTHER                  -> row.data = in.data

\* "Status is deliberately omitted so callers cannot bypass the service state
\* machine" (dto/bridge_asset.go:5-6): the status of a record only ever changes
\* along its graph.
StatusFollowsGraph ==
    [][\A c \in Codes :
         (records[c] # NoRecord /\ records'[c].status # records[c].status) =>
            CanTransition(Graph(c), records[c].status, records'[c].status)]_vars

-----------------------------------------------------------------------------
(***************************************************************************)
(* The register the services implement when clients send only versions     *)
(* they have seen.                                                         *)
(***************************************************************************)
Register(table) ==
    [c \in Codes |-> IF table[c] = NoRecord THEN NoRecord
                     ELSE [status |-> table[c].status, data |-> table[c].data]]

RR == INSTANCE RecordRegister WITH
    GraphOf <- [c \in Codes |-> Graph(c)],
    OpenedAs <- [c \in Codes |-> InitialStatus(c)],
    register <- Register(records),
    withdrawn <- {c \in Codes : records[c] # NoRecord /\ records[c].deleted},
    InitialRegister <- Register([c \in Codes |->
        IF c \in DOMAIN SeedStatus THEN SeedRow(c) ELSE NoRecord])

\* Every step of the handlers opens, edits, moves or withdraws one record of
\* the register, or does nothing to it: no edit brings an old status back, no
\* transition old data, however their handlers interleave.
ImplementsRegister == RR!RegisterSpec

=============================================================================
