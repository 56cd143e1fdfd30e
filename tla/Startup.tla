------------------------------ MODULE Startup ------------------------------
(***************************************************************************)
(* The lives of the server process (cmd/server/main.go over                *)
(* database/database.go): it connects, migrates, seeds the tables one      *)
(* after another, pings Redis and serves, until it is stopped; a start     *)
(* that fails exits, and Compose starts the container again (restart:      *)
(* unless-stopped).  While it serves, records are created and soft-deleted.*)
(***************************************************************************)
EXTENDS Naturals, Sequences

CONSTANTS
    Tables,             \* the tables Seed fills, in its order
    SeedCodes,          \* the codes it inserts into each table
    OtherCodes,         \* the codes clients may create in each table
    Deletable,          \* the codes clients may delete in each table
    Attempts,           \* of connecting in one start, 20 in the code
    MaxInterruptions    \* bounds the stops and failures that are not Seed's own

ASSUME TablesAssumption ==
    /\ Tables # <<>> /\ Tables \in Seq({Tables[i] : i \in DOMAIN Tables})
    /\ \A i, j \in DOMAIN Tables : Tables[i] = Tables[j] => i = j
ASSUME CodesAssumption  ==
    \A i \in DOMAIN Tables : /\ SeedCodes[Tables[i]] # {}
                             /\ SeedCodes[Tables[i]] \cap OtherCodes[Tables[i]] = {}
ASSUME BoundsAssumption == Attempts \in Nat \ {0} /\ MaxInterruptions \in Nat

TableNames == {Tables[i] : i \in DOMAIN Tables}

VARIABLES
    rows,           \* the rows of each table: code |-> "live" or "deleted"
    step,           \* what the process does next
    seeded,         \* the tables the present start is done with
    attempt,        \* of connecting
    interruptions   \* so far

vars == <<rows, step, seeded, attempt, interruptions>>

Init ==
    /\ rows = [t \in TableNames |-> [c \in {} |-> "live"]]
    /\ step = "down"
    /\ seeded = 0
    /\ attempt = 0
    /\ interruptions = 0

LiveIn(table) == {c \in DOMAIN table : table[c] = "live"}

Interrupt ==
    /\ interruptions < MaxInterruptions
    /\ interruptions' = interruptions + 1

-----------------------------------------------------------------------------
(***************************************************************************)
(* A start.                                                                *)
(***************************************************************************)
Boot ==
    /\ step = "down"
    /\ step' = "connect"
    /\ attempt' = 1
    /\ seeded' = 0
    /\ UNCHANGED <<rows, interruptions>>

Connect ==
    /\ step = "connect"
    /\ step' = "seed"
    /\ UNCHANGED <<rows, seeded, attempt, interruptions>>

\* Mutant: one attempt too many.
PingFailsOnceMore ==
    /\ step = "connect"
    /\ IF attempt <= Attempts
       THEN attempt' = attempt + 1 /\ UNCHANGED <<step, interruptions>>
       ELSE UNCHANGED attempt /\ step' = "down" /\ Interrupt
    /\ UNCHANGED <<rows, seeded>>

\* The ping failed; it is pinged once more for the error, and the loop goes on.
\* After the last attempt the start fails, unless that second ping succeeds.
PingFails ==
    /\ step = "connect"
    /\ IF attempt < Attempts
       THEN attempt' = attempt + 1 /\ UNCHANGED <<step, interruptions>>
       ELSE /\ UNCHANGED attempt
            /\ \/ step' = "down" /\ Interrupt
               \/ step' = "seed" /\ UNCHANGED interruptions
    /\ UNCHANGED <<rows, seeded>>

\* Mutant: only the seeded codes are looked for.
NeedsSeedByCode(t) == LiveIn(rows[t]) \cap SeedCodes[t] = {}

\* The count of a model with DeletedAt leaves deleted rows out.
NeedsSeed(t) == LiveIn(rows[t]) = {}

\* Mutant: a seeded code that exists is updated, deleted or not (upsert).
Upserts(table, codes) == TRUE

\* The unique index on code does not leave them out.
Inserts(table, codes) == codes \cap DOMAIN table = {}

\* The seed of the next table succeeded.
Proceed ==
    /\ seeded' = seeded + 1
    /\ step' = IF seeded' = Len(Tables) THEN "redis" ELSE "seed"

WithRows(table, codes) ==
    [c \in DOMAIN table \cup codes |-> IF c \in codes THEN "live" ELSE table[c]]

\* Mutant: the batch is inserted row by row, and a failure keeps what it did.
SeedRowByRow ==
    /\ step = "seed"
    /\ LET t == Tables[seeded + 1]
       IN  IF ~NeedsSeed(t)
           THEN Proceed /\ UNCHANGED <<rows, interruptions>>
           ELSE \E codes \in SUBSET SeedCodes[t] :
                  /\ rows' = [rows EXCEPT ![t] = WithRows(@, codes)]
                  /\ IF codes = SeedCodes[t]
                     THEN Proceed /\ UNCHANGED interruptions
                     ELSE step' = "down" /\ UNCHANGED seeded /\ Interrupt
    /\ UNCHANGED attempt

\* A table is counted and, when it holds nothing, filled with one statement (the
\* decisions and their revisions with one transaction); no other process runs.
SeedTable ==
    /\ step = "seed"
    /\ LET t == Tables[seeded + 1]
       IN  IF ~NeedsSeed(t)
           THEN Proceed /\ UNCHANGED rows
           ELSE IF Inserts(rows[t], SeedCodes[t])
                THEN rows' = [rows EXCEPT ![t] = WithRows(@, SeedCodes[t])] /\ Proceed
                ELSE step' = "down" /\ UNCHANGED <<rows, seeded>>
    /\ UNCHANGED <<attempt, interruptions>>

PingRedis ==
    /\ step = "redis"
    /\ step' = "serve"
    /\ UNCHANGED <<rows, seeded, attempt, interruptions>>

-----------------------------------------------------------------------------
(***************************************************************************)
(* Clients, and everything that ends a life.                               *)
(***************************************************************************)
CreateRecord ==
    /\ step = "serve"
    /\ \E t \in TableNames : \E c \in OtherCodes[t] \ DOMAIN rows[t] :
         rows' = [rows EXCEPT ![t] = WithRows(@, {c})]
    /\ UNCHANGED <<step, seeded, attempt, interruptions>>

DeleteRecord ==
    /\ step = "serve"
    /\ \E t \in TableNames : \E c \in LiveIn(rows[t]) \cap Deletable[t] :
         rows' = [rows EXCEPT ![t][c] = "deleted"]
    /\ UNCHANGED <<step, seeded, attempt, interruptions>>

\* The other requests read.
Answer == step = "serve" /\ UNCHANGED vars

\* A statement of the start fails, its time runs out, or the process is stopped.
Stop ==
    /\ step # "down"
    /\ step' = "down"
    /\ Interrupt
    /\ UNCHANGED <<rows, seeded, attempt>>

Start == Boot \/ Connect \/ SeedTable \/ PingRedis

Next == Start \/ PingFails \/ CreateRecord \/ DeleteRecord \/ Answer \/ Stop

\* Compose starts the container again, and a start goes on to its end.
Spec == Init /\ [][Next]_vars /\ WF_vars(Start)

-----------------------------------------------------------------------------
(***************************************************************************)
(* What a restart may and may not do to the records.                       *)
(***************************************************************************)
TypeOK ==
    /\ DOMAIN rows = TableNames
    /\ \A t \in TableNames : /\ DOMAIN rows[t] \subseteq SeedCodes[t] \cup OtherCodes[t]
                             /\ \A c \in DOMAIN rows[t] : rows[t][c] \in {"live", "deleted"}
    /\ step \in {"down", "connect", "seed", "redis", "serve"}
    /\ seeded \in 0 .. Len(Tables)
    /\ attempt \in 0 .. Attempts
    /\ interruptions \in 0 .. MaxInterruptions

\* However often starts are cut short, each table has all of its seeded records
\* or nothing at all, and the tables are filled in the order of Seed.
SeededWholeAndInOrder ==
    \A i \in DOMAIN Tables :
        LET codes(j) == DOMAIN rows[Tables[j]]
        IN  /\ SeedCodes[Tables[i]] \subseteq codes(i) \/ codes(i) = {}
            /\ \A j \in 1 .. i : codes(i) # {} => codes(j) # {}
            /\ i <= seeded => codes(i) # {}

\* A restart does not bring a deleted record back, and takes none away.
RestartKeepsRecords ==
    [][\A t \in TableNames : \A c \in DOMAIN rows[t] :
         /\ c \in DOMAIN rows'[t]
         /\ rows[t][c] = "deleted" => rows'[t][c] = "deleted"
         /\ rows'[t][c] # rows[t][c] => step = "serve"]_vars

\* A server that goes down comes back when it is left alone, also when an earlier
\* start was cut short, as long as each table has a live record or never had one.
\* (When all records of a table were deleted, the codes of its seed are taken by
\* deleted rows, and every start fails.)
Recoverable == \A t \in TableNames : LiveIn(rows[t]) # {} \/ DOMAIN rows[t] = {}

Restarts == (step = "down" /\ Recoverable) ~> (step = "serve")

=============================================================================
