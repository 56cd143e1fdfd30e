---------------------------- MODULE StartupProofs ----------------------------
(***************************************************************************)
(* What starts, failed starts and restarts do to the records, proved for   *)
(* any tables, any rows and any number of interruptions.                   *)
(***************************************************************************)
EXTENDS Startup, TLAPS

\* Where the present start is: it seeds while a table is left, and goes on when
\* none is.
SeedProgress ==
    /\ step \in {"connect", "seed"} => seeded < Len(Tables)
    /\ step \in {"redis", "serve"} => seeded = Len(Tables)

IInv == TypeOK /\ SeededWholeAndInOrder /\ SeedProgress

LEMMA TablesFacts ==
    /\ Len(Tables) \in Nat \ {0}
    /\ DOMAIN Tables = 1 .. Len(Tables)
    /\ \A i \in 1 .. Len(Tables) : Tables[i] \in TableNames
    /\ \A t \in TableNames : \E i \in 1 .. Len(Tables) : t = Tables[i]
BY TablesAssumption DEF TableNames

\* WithRows adds the codes it is given and keeps the rest of the table.
LEMMA WithRowsAdds ==
    ASSUME NEW table, NEW codes
    PROVE  /\ DOMAIN WithRows(table, codes) = DOMAIN table \cup codes
           /\ \A c \in codes : WithRows(table, codes)[c] = "live"
           /\ \A c \in DOMAIN table \ codes : WithRows(table, codes)[c] = table[c]
BY DEF WithRows

-----------------------------------------------------------------------------
(***************************************************************************)
(* What the steps do to the rows.                                          *)
(***************************************************************************)
\* Rows are added to the codes of a table, those of its seed before the server
\* serves and others while it does; or a live row is marked; or nothing is done.
Adds(t, codes) ==
    /\ t \in TableNames /\ codes \cap DOMAIN rows[t] = {}
    /\ rows' = [rows EXCEPT ![t] = WithRows(@, codes)]

Seeds ==
    /\ step = "seed" /\ seeded' = seeded + 1
    /\ seeded + 1 \in 1 .. Len(Tables)
    /\ Adds(Tables[seeded + 1], SeedCodes[Tables[seeded + 1]])

Creates ==
    /\ step = "serve" /\ UNCHANGED seeded
    /\ \E t \in TableNames : \E c \in OtherCodes[t] : Adds(t, {c})

Marks ==
    /\ step = "serve" /\ UNCHANGED seeded
    /\ \E t \in TableNames : \E c \in LiveIn(rows[t]) :
         rows' = [rows EXCEPT ![t][c] = "deleted"]

LEMMA RowSteps ==
    ASSUME IInv, [Next]_vars
    PROVE  Seeds \/ Creates \/ Marks \/ UNCHANGED rows
<1>1. CASE SeedTable
    BY <1>1, TablesFacts
       DEF SeedTable, Proceed, Inserts, Seeds, Adds, IInv, SeedProgress, TypeOK
<1>2. CASE CreateRecord
    BY <1>2 DEF CreateRecord, Creates, Adds
<1>3. CASE DeleteRecord
    BY <1>3 DEF DeleteRecord, Marks
<1>4. CASE Boot \/ Connect \/ PingRedis \/ PingFails \/ Answer \/ Stop \/ UNCHANGED vars
    BY <1>4 DEF Boot, Connect, PingRedis, PingFails, Answer, Stop, vars
<1>5. QED
    BY <1>1, <1>2, <1>3, <1>4 DEF Next, Start

\* What a step that adds rows leaves of the tables.
LEMMA AddsEffect ==
    ASSUME TypeOK, NEW t, NEW codes, Adds(t, codes)
    PROVE  /\ DOMAIN rows' = TableNames
           /\ DOMAIN rows'[t] = DOMAIN rows[t] \cup codes
           /\ \A c \in codes : rows'[t][c] = "live"
           /\ \A c \in DOMAIN rows[t] : rows'[t][c] = rows[t][c]
           /\ \A u \in TableNames \ {t} : rows'[u] = rows[u]
<1>1. /\ rows'[t] = WithRows(rows[t], codes) /\ DOMAIN rows' = TableNames
      /\ \A u \in TableNames \ {t} : rows'[u] = rows[u]
    BY DEF Adds, TypeOK
<1> DEFINE table == rows[t]
           table2 == WithRows(table, codes)
<1>2. \A c \in DOMAIN table : c \notin codes
    BY DEF Adds
<1>3. /\ DOMAIN table2 = DOMAIN table \cup codes
      /\ \A c \in codes : table2[c] = "live"
      /\ \A c \in DOMAIN table \ codes : table2[c] = table[c]
    BY WithRowsAdds
<1>4. rows'[t] = table2
    BY <1>1
<1> HIDE DEF table2
<1>5. QED
    BY <1>1, <1>2, <1>3, <1>4

LEMMA MarksEffect ==
    ASSUME TypeOK, NEW t \in TableNames, NEW c \in LiveIn(rows[t]),
           rows' = [rows EXCEPT ![t][c] = "deleted"]
    PROVE  /\ DOMAIN rows' = TableNames
           /\ DOMAIN rows'[t] = DOMAIN rows[t]
           /\ rows[t][c] = "live" /\ rows'[t][c] = "deleted"
           /\ \A d \in DOMAIN rows[t] \ {c} : rows'[t][d] = rows[t][d]
           /\ \A u \in TableNames \ {t} : rows'[u] = rows[u]
BY DEF LiveIn, TypeOK

-----------------------------------------------------------------------------
(***************************************************************************)
(* The invariant.                                                          *)
(***************************************************************************)
RowsOK ==
    /\ DOMAIN rows = TableNames
    /\ \A t \in TableNames : /\ DOMAIN rows[t] \subseteq SeedCodes[t] \cup OtherCodes[t]
                             /\ \A c \in DOMAIN rows[t] : rows[t][c] \in {"live", "deleted"}

LEMMA InitIsGood == Init => IInv
<1> SUFFICES ASSUME Init PROVE IInv
    OBVIOUS
<1>1. TypeOK
    BY BoundsAssumption, TablesFacts DEF Init, TypeOK
<1>2. \A i \in DOMAIN Tables : DOMAIN rows[Tables[i]] = {}
    BY TablesFacts DEF Init
<1>3. SeededWholeAndInOrder
  <2>1. seeded = 0
      BY DEF Init
  <2>2. \A i \in DOMAIN Tables : \A j \in 1 .. i : j \in DOMAIN Tables
      BY TablesFacts
  <2>3. \A i \in DOMAIN Tables : ~(i <= 0)
    <3>1. ASSUME NEW n \in Nat
          PROVE  \A i \in 1 .. n : ~(i <= 0)
        OBVIOUS
    <3>2. QED
        BY <3>1, TablesFacts
  <2>4. QED
      BY <1>2, <2>1, <2>2, <2>3 DEF SeededWholeAndInOrder
<1>4. SeedProgress
    BY DEF Init, SeedProgress
<1>5. QED
    BY <1>1, <1>3, <1>4 DEF IInv

LEMMA RowsStep == IInv /\ [Next]_vars => RowsOK'
<1> SUFFICES ASSUME IInv, [Next]_vars PROVE RowsOK'
    OBVIOUS
<1> USE DEF IInv
<1>1. ASSUME NEW t \in TableNames, NEW codes, Adds(t, codes),
             codes \subseteq SeedCodes[t] \cup OtherCodes[t]
      PROVE  RowsOK'
  <2>1. /\ DOMAIN rows' = TableNames
        /\ DOMAIN rows'[t] = DOMAIN rows[t] \cup codes
        /\ \A c \in codes : rows'[t][c] = "live"
        /\ \A c \in DOMAIN rows[t] : rows'[t][c] = rows[t][c]
        /\ \A u \in TableNames \ {t} : rows'[u] = rows[u]
      BY <1>1, AddsEffect
  <2>2. QED
      BY <1>1, <2>1 DEF TypeOK, RowsOK
<1>2. CASE Seeds
    BY <1>1, <1>2, TablesFacts DEF Seeds
<1>3. CASE Creates
  <2>1. PICK t \in TableNames : \E c \in OtherCodes[t] : Adds(t, {c})
      BY <1>3 DEF Creates
  <2>2. PICK c \in OtherCodes[t] : Adds(t, {c})
      BY <2>1
  <2>3. QED
      BY <1>1, <2>2
<1>4. CASE Marks
  <2>1. PICK t \in TableNames : \E c \in LiveIn(rows[t]) :
          rows' = [rows EXCEPT ![t][c] = "deleted"]
      BY <1>4 DEF Marks
  <2>2. PICK c \in LiveIn(rows[t]) : rows' = [rows EXCEPT ![t][c] = "deleted"]
      BY <2>1
  <2>3. /\ DOMAIN rows' = TableNames
        /\ DOMAIN rows'[t] = DOMAIN rows[t]
        /\ rows'[t][c] = "deleted"
        /\ \A d \in DOMAIN rows[t] \ {c} : rows'[t][d] = rows[t][d]
        /\ \A u \in TableNames \ {t} : rows'[u] = rows[u]
      BY <2>2, MarksEffect
  <2>4. QED
      BY <2>3 DEF TypeOK, RowsOK
<1>5. CASE UNCHANGED rows
    BY <1>5 DEF TypeOK, RowsOK
<1>6. QED
    BY <1>2, <1>3, <1>4, <1>5, RowSteps

CountersOK ==
    /\ step \in {"down", "connect", "seed", "redis", "serve"}
    /\ seeded \in 0 .. Len(Tables)
    /\ attempt \in 0 .. Attempts
    /\ interruptions \in 0 .. MaxInterruptions
    /\ SeedProgress

LEMMA CountersStep == IInv /\ [Next]_vars => CountersOK'
<1> SUFFICES ASSUME IInv, [Next]_vars PROVE CountersOK'
    OBVIOUS
<1> USE BoundsAssumption DEF IInv, TypeOK, SeedProgress
<1>1. CASE Boot
    BY <1>1, TablesFacts DEF Boot, CountersOK
<1>2. CASE Connect
    BY <1>2 DEF Connect, CountersOK
<1>3. CASE SeedTable
    BY <1>3, TablesFacts DEF SeedTable, Proceed, CountersOK
<1>4. CASE PingRedis
    BY <1>4 DEF PingRedis, CountersOK
<1>5. CASE PingFails
  <2>1. CASE attempt < Attempts
      BY <1>5, <2>1 DEF PingFails, CountersOK
  <2>2. CASE ~(attempt < Attempts)
      BY <1>5, <2>2 DEF PingFails, Interrupt, CountersOK
  <2>3. QED
      BY <2>1, <2>2
<1>6. CASE CreateRecord \/ DeleteRecord \/ Answer \/ UNCHANGED vars
    BY <1>6 DEF CreateRecord, DeleteRecord, Answer, vars, CountersOK
<1>7. CASE Stop
    BY <1>7 DEF Stop, Interrupt, CountersOK
<1> HIDE DEF IInv, TypeOK, SeedProgress
<1>8. QED
    BY <1>1, <1>2, <1>3, <1>4, <1>5, <1>6, <1>7 DEF Next, Start

Filled(tables, i) == DOMAIN tables[Tables[i]]

\* No table is left out between two filled ones, and those the present start is
\* done with are filled.
LEMMA OrderStep == IInv /\ [Next]_vars => SeededWholeAndInOrder'
<1> SUFFICES ASSUME IInv, [Next]_vars PROVE SeededWholeAndInOrder'
    OBVIOUS
<1> USE DEF IInv
<1>1. \A i \in 1 .. Len(Tables) :
        /\ SeedCodes[Tables[i]] \subseteq Filled(rows, i) \/ Filled(rows, i) = {}
        /\ \A j \in 1 .. i : Filled(rows, i) # {} => Filled(rows, j) # {}
        /\ i <= seeded => Filled(rows, i) # {}
    BY TablesFacts DEF SeededWholeAndInOrder, Filled
<1>2. SUFFICES \A i \in 1 .. Len(Tables) :
        /\ SeedCodes[Tables[i]] \subseteq Filled(rows', i) \/ Filled(rows', i) = {}
        /\ \A j \in 1 .. i : Filled(rows', i) # {} => Filled(rows', j) # {}
        /\ i <= seeded' => Filled(rows', i) # {}
    BY TablesFacts DEF SeededWholeAndInOrder, Filled
<1>3. CASE Seeds
  <2> DEFINE n == seeded + 1
             t == Tables[n]
  <2>1. /\ n \in 1 .. Len(Tables) /\ seeded' = n
        /\ Filled(rows', n) = Filled(rows, n) \cup SeedCodes[t]
        /\ SeedCodes[t] # {} /\ Filled(rows, n) \cap SeedCodes[t] = {}
        /\ \A i \in 1 .. Len(Tables) \ {n} : Filled(rows', i) = Filled(rows, i)
    <3>1. /\ n \in 1 .. Len(Tables) /\ seeded' = n
          /\ Adds(t, SeedCodes[t]) /\ t \in TableNames
          /\ DOMAIN rows[t] \cap SeedCodes[t] = {}
        BY <1>3 DEF Seeds, Adds
    <3>2. \A i \in 1 .. Len(Tables) \ {n} : Tables[i] \in TableNames \ {t}
        BY <3>1, TablesFacts, TablesAssumption
    <3>3. SeedCodes[t] # {}
        BY <3>1, CodesAssumption
    <3>4. /\ DOMAIN rows'[t] = DOMAIN rows[t] \cup SeedCodes[t]
          /\ \A u \in TableNames \ {t} : rows'[u] = rows[u]
        BY <3>1, AddsEffect
    <3>5. QED
        BY <3>1, <3>2, <3>3, <3>4 DEF Filled
  <2>2. Filled(rows, n) = {}
    BY <1>1, <2>1
  <2>3. seeded \in Nat
    BY DEF TypeOK
  <2>4. \A j \in 1 .. n : Filled(rows', j) # {}
    BY <1>1, <2>1, <2>3
  <2>5. QED
    BY <1>1, <2>1, <2>2, <2>3, <2>4
<1>4. CASE Creates
  <2>1. PICK t \in TableNames : \E c \in OtherCodes[t] : Adds(t, {c})
      BY <1>4 DEF Creates
  <2>2. PICK c \in OtherCodes[t] : Adds(t, {c})
      BY <2>1
  <2>3. seeded' = Len(Tables) /\ seeded = Len(Tables)
      BY <1>4 DEF Creates, SeedProgress
  <2>4. \A i \in 1 .. Len(Tables) : Filled(rows, i) \subseteq Filled(rows', i)
      BY <2>2, AddsEffect, TablesFacts DEF Filled
  <2>5. \A i \in 1 .. Len(Tables) : i <= seeded
      BY <2>3, TablesFacts
  <2>6. QED
      BY <1>1, <2>4, <2>5
<1>5. CASE Marks
  <2>1. PICK t \in TableNames : \E c \in LiveIn(rows[t]) :
          rows' = [rows EXCEPT ![t][c] = "deleted"]
      BY <1>5 DEF Marks
  <2>2. PICK c \in LiveIn(rows[t]) : rows' = [rows EXCEPT ![t][c] = "deleted"]
      BY <2>1
  <2>3. \A i \in 1 .. Len(Tables) : Filled(rows', i) = Filled(rows, i)
      BY <2>2, MarksEffect, TablesFacts DEF Filled
  <2>4. UNCHANGED seeded
      BY <1>5 DEF Marks
  <2>5. QED
      BY <1>1, <2>3, <2>4
<1>6. CASE UNCHANGED rows
  <2>1. \A i \in 1 .. Len(Tables) : i <= seeded' => Filled(rows, i) # {}
    <3>1. CASE SeedTable
      <4> DEFINE n == seeded + 1
      <4>1. seeded' \in {seeded, n} /\ n \in 1 .. Len(Tables)
        BY <3>1, TablesFacts DEF SeedTable, Proceed, SeedProgress, TypeOK
      <4>2. ASSUME Filled(rows, n) = {}
            PROVE  UNCHANGED seeded
        <5>1. Seeds
          BY <3>1, <4>1, <4>2, TablesFacts, CodesAssumption
             DEF SeedTable, Proceed, NeedsSeed, LiveIn, Inserts, Seeds, Adds,
                 Filled
        <5>2. Filled(rows', n) = Filled(rows, n) \cup SeedCodes[Tables[n]]
          BY <5>1, AddsEffect, TablesFacts DEF Seeds, Filled
        <5>3. Filled(rows', n) # {}
          BY <4>1, <5>2, CodesAssumption, TablesFacts
        <5>4. QED
          BY <1>6, <4>2, <5>3 DEF Filled
      <4>3. QED
        BY <1>1, <4>1, <4>2 DEF TypeOK
    <3>2. CASE ~SeedTable
      <4>1. seeded' \in {0, seeded}
        BY <3>2 DEF Next, Start, Boot, Connect, PingRedis, PingFails,
                    CreateRecord, DeleteRecord, Answer, Stop, vars
      <4>2. QED
        BY <1>1, <4>1
    <3>3. QED
      BY <3>1, <3>2
  <2>2. \A i \in 1 .. Len(Tables) : Filled(rows', i) = Filled(rows, i)
      BY <1>6 DEF Filled
  <2>3. QED
      BY <1>1, <2>1, <2>2
<1>7. QED
    BY <1>3, <1>4, <1>5, <1>6, RowSteps

LEMMA Invariance == Spec => []IInv
<1>1. IInv /\ [Next]_vars => IInv'
    BY RowsStep, CountersStep, OrderStep DEF IInv, TypeOK, RowsOK, CountersOK
<1>2. QED
    BY <1>1, InitIsGood, PTL DEF Spec

-----------------------------------------------------------------------------
\* The rows of a table are rows of its codes, and no start tries to connect more
\* than Attempts times (database/database.go, Connect).
THEOREM TypeCorrect == Spec => []TypeOK
BY Invariance, PTL DEF IInv

\* However often starts are cut short, a table has all of its seeded records or
\* nothing, and the tables are filled in the order of Seed (database.go).
THEOREM TablesAreSeededWhole == Spec => []SeededWholeAndInOrder
BY Invariance, PTL DEF IInv

\* No restart revives or removes a record (the counts of Seed, which leave
\* deleted rows out, against the unique index on code, which does not).
THEOREM RestartsKeepRecords == Spec => RestartKeepsRecords
<1>1. ASSUME IInv, [Next]_vars
      PROVE  \A t \in TableNames : \A c \in DOMAIN rows[t] :
               /\ c \in DOMAIN rows'[t]
               /\ rows[t][c] = "deleted" => rows'[t][c] = "deleted"
               /\ rows'[t][c] # rows[t][c] => step = "serve"
  <2> USE <1>1 DEF IInv
  <2>1. CASE Seeds
      BY <2>1, AddsEffect DEF Seeds
  <2>2. CASE Creates
      BY <2>2, AddsEffect DEF Creates
  <2>3. CASE Marks
    <3>1. PICK u \in TableNames : \E d \in LiveIn(rows[u]) :
            rows' = [rows EXCEPT ![u][d] = "deleted"]
        BY <2>3 DEF Marks
    <3>2. PICK d \in LiveIn(rows[u]) : rows' = [rows EXCEPT ![u][d] = "deleted"]
        BY <3>1
    <3>3. /\ DOMAIN rows'[u] = DOMAIN rows[u]
          /\ rows'[u][d] = "deleted"
          /\ \A c \in DOMAIN rows[u] \ {d} : rows'[u][c] = rows[u][c]
          /\ \A t \in TableNames \ {u} : rows'[t] = rows[t]
        BY <3>2, MarksEffect
    <3>4. QED
        BY <2>3, <3>3 DEF Marks
  <2>4. CASE UNCHANGED rows
      BY <2>4
  <2>5. QED
      BY <2>1, <2>2, <2>3, <2>4, RowSteps
<1>2. QED
    BY <1>1, Invariance, PTL DEF Spec, RestartKeepsRecords

=============================================================================
