--------------------------- MODULE RecordRegister ---------------------------
(***************************************************************************)
(* What the services of bridge assets, inspection rounds and defect        *)
(* findings promise, free of handlers, snapshots and versions: a register  *)
(* of records, each opened in the initial status of its kind, whose data   *)
(* and status change separately, the status only along the graph of its    *)
(* kind, until the record is withdrawn.                                    *)
(***************************************************************************)
EXTENDS StatusGraph

CONSTANTS
    Codes,          \* the records, by code
    Data,           \* the business fields of a record, as one value
    GraphOf,        \* the status graph of each code
    OpenedAs,       \* the status each code is opened in
    NoRecord,       \* the code is not in use
    InitialRegister \* the seeded records

VARIABLES
    register,       \* the status and data of each record
    withdrawn       \* the records that take no further change

registry == <<register, withdrawn>>

RegisterInit == register = InitialRegister /\ withdrawn = {}

Kept(c) == register[c] # NoRecord /\ c \notin withdrawn

OpenRecord(c) ==
    /\ register[c] = NoRecord
    /\ \E data \in Data :
         register' = [register EXCEPT ![c] =
                        [status |-> OpenedAs[c], data |-> data]]
    /\ UNCHANGED withdrawn

Edit(c) ==
    /\ Kept(c)
    /\ \E data \in Data : register' = [register EXCEPT ![c].data = data]
    /\ UNCHANGED withdrawn

Move(c) ==
    /\ Kept(c)
    /\ \E status \in DOMAIN GraphOf[c] :
         /\ CanTransition(GraphOf[c], register[c].status, status)
         /\ register' = [register EXCEPT ![c].status = status]
    /\ UNCHANGED withdrawn

Withdraw(c) ==
    /\ Kept(c)
    /\ withdrawn' = withdrawn \cup {c}
    /\ UNCHANGED register

RegisterNext ==
    \E c \in Codes : OpenRecord(c) \/ Edit(c) \/ Move(c) \/ Withdraw(c)

RegisterSpec == RegisterInit /\ [][RegisterNext]_registry

=============================================================================
