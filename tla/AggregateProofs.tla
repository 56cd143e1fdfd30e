--------------------------- MODULE AggregateProofs ---------------------------
(***************************************************************************)
(* Bridge assets, inspection rounds and defect findings, proved for any    *)
(* records, requests and faults: types, replies, and, for clients that     *)
(* send only versions a record has had (Lookahead = 0), the status graph,  *)
(* the register and the audit trail.                                       *)
(***************************************************************************)
EXTENDS AggregateProperties, FiniteSetTheorems, TLAPS

-----------------------------------------------------------------------------
(***************************************************************************)
(* The status graphs.                                                      *)
(***************************************************************************)
LEMMA GraphFacts ==
    ASSUME NEW c \in Codes
    PROVE  /\ Graph(c) \in {Transitions[t] : t \in Tables}
           /\ InitialStatus(c) \in DOMAIN Graph(c)
           /\ DOMAIN Graph(c) \subseteq Statuses
<1>1. TableOf[c] \in Tables
    BY TablesAssumption
<1>2. Graph(c) = Transitions[TableOf[c]]
    BY DEF Graph
<1>3. InitialStatus(c) \in DOMAIN Graph(c)
  <2>1. "active" \in DOMAIN BridgeAssetTransitions
      BY DEF BridgeAssetTransitions
  <2>2. "planned" \in DOMAIN InspectionRoundTransitions
      BY DEF InspectionRoundTransitions
  <2>3. "new" \in DOMAIN DefectFindingTransitions
      BY DEF DefectFindingTransitions
  <2>4. QED
      BY <1>1, <1>2, <2>1, <2>2, <2>3
         DEF InitialStatus, InitialStatusOf, Transitions, Tables
<1>4. DOMAIN Graph(c) \subseteq Statuses
    BY <1>1, <1>2 DEF Statuses
<1>5. QED
    BY <1>1, <1>2, <1>3, <1>4

-----------------------------------------------------------------------------
(***************************************************************************)
(* Types.                                                                  *)
(***************************************************************************)
Fits(row, c) == row \in Record /\ row.status \in DOMAIN Graph(c)

\* What a handler at statement ph with the request in and the snapshot old has
\* established; it does not depend on the rows.
HandlerFacts(ph, in, old) ==
    /\ ph \in InFlight => in \in Input /\ in.kind # "get"
    /\ (ph \in {"write", "audit"} /\ in.kind \in {"create", "update"}) =>
          in.data \in Data
    /\ ph = "idle" => in = NoInput
    /\ (ph \in InFlight /\ in.kind = "create") => in.expected = 0
    /\ (ph \in {"write", "audit"} /\ in.kind # "create") => Fits(old, in.code)
    /\ (ph \in {"write", "audit"} /\ in.kind = "transition") =>
          /\ in.target \in DOMAIN Graph(in.code)
          /\ CanTransition(Graph(in.code), old.status, in.target)
    /\ ph = "reload" => in.kind \in {"update", "transition"}

HandlersOK == \A r \in Reqs : HandlerFacts(phase[r], input[r], current[r])

Typed == TypeOK /\ HandlersOK

LEMMA InitIsTyped == Init => Typed
<1> SUFFICES ASSUME Init PROVE Typed
    OBVIOUS
<1>1. \A c \in DOMAIN SeedStatus : SeedRow(c) \in Record /\ c \in Codes
    BY SeedAssumption, GraphFacts DEF SeedRow, Record
<1>2. records \in [Codes -> Record \cup {NoRecord}]
    BY <1>1 DEF Init
<1>3. \A c \in Codes : records[c] # NoRecord => records[c].status \in DOMAIN Graph(c)
    BY SeedAssumption DEF Init, SeedRow
<1>4. TypeOK
    BY <1>2, <1>3 DEF Init, TypeOK, Phases
<1>5. HandlersOK
    BY DEF Init, HandlersOK, HandlerFacts, InFlight
<1>6. QED
    BY <1>4, <1>5 DEF Typed

LEMMA KnownVersionsAreNat ==
    ASSUME TypeOK, NEW c \in Codes
    PROVE  KnownVersions(c) \subseteq Nat
BY LookaheadAssumption DEF KnownVersions, TypeOK, Record

\* A request enters with what its checks have established.
LEMMA EnterIsTyped ==
    ASSUME Typed, NEW r \in Reqs, NEW request \in Input, NEW verdict, NEW snapshot,
           Enter(r, request, verdict, snapshot),
           verdict \in {"write", "ok", "rule", "notFound"},
           verdict \in {"write", "ok"} => snapshot \in Record \cup {NoRecord},
           HandlerFacts("write", request, snapshot) \/ verdict # "write"
    PROVE  Typed'
<1>1. /\ phase[r] = "idle" /\ phase' = [phase EXCEPT ![r] = verdict]
      /\ UNCHANGED <<records, audits>>
    BY DEF Enter
<1>2. CASE verdict = "write"
  <2>1. /\ input' = [input EXCEPT ![r] = request]
        /\ current' = [current EXCEPT ![r] = snapshot]
      BY <1>2 DEF Enter, InFlight
  <2>2. TypeOK'
      BY <1>1, <1>2, <2>1 DEF Typed, TypeOK, Phases, InFlight
  <2>3. ASSUME NEW q \in Reqs
        PROVE  HandlerFacts(phase'[q], input'[q], current'[q])
    <3>1. CASE q = r
        BY <1>1, <1>2, <2>1, <3>1 DEF Typed, TypeOK
    <3>2. CASE q # r
      <4>1. phase'[q] = phase[q] /\ input'[q] = input[q] /\ current'[q] = current[q]
          BY <1>1, <2>1, <3>2 DEF Typed, TypeOK
      <4>2. QED
          BY <4>1 DEF Typed, HandlersOK
    <3>3. QED
        BY <3>1, <3>2
  <2>4. QED
      BY <2>2, <2>3 DEF Typed, HandlersOK, HandlerFacts
<1>3. CASE verdict # "write"
  <2>1. /\ UNCHANGED input
        /\ current' \in [Reqs -> Record \cup {NoRecord}]
        /\ \A q \in Reqs \ {r} : current'[q] = current[q]
      BY <1>3 DEF Enter, InFlight, Typed, TypeOK
  <2>2. TypeOK'
      BY <1>1, <2>1 DEF Typed, TypeOK, Phases, Outcomes, InFlight
  <2>3. ASSUME NEW q \in Reqs
        PROVE  HandlerFacts(phase'[q], input'[q], current'[q])
    <3>1. CASE q = r
      <4>1. phase'[q] \in {"ok", "rule", "notFound"}
          BY <1>1, <1>3, <3>1 DEF Typed, TypeOK
      <4>2. QED
          BY <4>1 DEF HandlerFacts, InFlight
    <3>2. CASE q # r
      <4>1. phase'[q] = phase[q] /\ input'[q] = input[q] /\ current'[q] = current[q]
          BY <1>1, <2>1, <3>2 DEF Typed, TypeOK
      <4>2. QED
          BY <4>1 DEF Typed, HandlersOK
    <3>3. QED
        BY <3>1, <3>2
  <2>4. QED
      BY <2>2, <2>3 DEF Typed, HandlersOK, HandlerFacts
<1>4. QED
    BY <1>2, <1>3

LEMMA RequestIsInput ==
    ASSUME NEW c \in Codes, NEW kind \in {"create", "update", "transition", "delete", "get"}
    PROVE  /\ Request(kind, c) \in Input
           /\ Request(kind, c).kind = kind /\ Request(kind, c).code = c
           /\ Request(kind, c).expected = 0
<1>1. InitialStatus(c) \in Statuses
    BY GraphFacts
<1>2. QED
    BY <1>1 DEF Request, Input

LEMMA LiveFits ==
    ASSUME Typed, NEW c \in Codes, Live(records[c])
    PROVE  Fits(records[c], c)
BY DEF Typed, TypeOK, Live, Fits

LEMMA ReceiveIsTyped ==
    ASSUME Typed, NEW r \in Reqs, Receive(r)
    PROVE  Typed'
<1>1. CASE ReceiveCreate(r)
  <2>1. PICK c \in Codes, data \in Data \cup {Blank} :
          Enter(r, [Request("create", c) EXCEPT !.data = data],
                CreateVerdict(data), NoRecord)
      BY <1>1 DEF ReceiveCreate
  <2> DEFINE request == [Request("create", c) EXCEPT !.data = data]
  <2>2. /\ request \in Input /\ request.kind = "create" /\ request.expected = 0
        /\ request.data = data
      BY RequestIsInput DEF Input
  <2>3. /\ CreateVerdict(data) \in {"write", "rule"}
        /\ CreateVerdict(data) = "write" => data \in Data
      BY DEF CreateVerdict
  <2> HIDE DEF request
  <2>4. CreateVerdict(data) = "write" => HandlerFacts("write", request, NoRecord)
      BY <2>2, <2>3 DEF HandlerFacts
  <2>5. PICK verdict, snapshot :
          verdict = CreateVerdict(data) /\ snapshot = NoRecord
      OBVIOUS
  <2>6. Enter(r, request, verdict, snapshot)
      BY <2>1, <2>5 DEF request
  <2>7. snapshot \in Record \cup {NoRecord}
      BY <2>5
  <2>8. QED
      BY <2>2, <2>3, <2>4, <2>5, <2>6, <2>7, EnterIsTyped
<1>2. CASE ReceiveUpdate(r)
  <2>1. PICK c \in Codes, data \in Data \cup {Blank} :
        \E expected \in KnownVersions(c) :
          Enter(r, [Request("update", c) EXCEPT !.expected = expected, !.data = data],
                EditVerdict(records[c], data), records[c])
      BY <1>2 DEF ReceiveUpdate
  <2>2. PICK expected \in Nat :
          Enter(r, [Request("update", c) EXCEPT !.expected = expected, !.data = data],
                EditVerdict(records[c], data), records[c])
      BY <2>1, KnownVersionsAreNat DEF Typed
  <2> DEFINE request == [Request("update", c) EXCEPT !.expected = expected,
                                                     !.data = data]
             verdict == EditVerdict(records[c], data)
  <2>3. /\ request \in Input /\ request.kind = "update" /\ request.code = c
        /\ request.data = data
    <3>1. InitialStatus(c) \in Statuses
        BY GraphFacts
    <3>2. QED
        BY <3>1 DEF Request, Input
  <2>4. /\ verdict \in {"write", "rule", "notFound"}
        /\ verdict = "write" => data \in Data /\ Live(records[c])
      BY DEF EditVerdict
  <2>5. records[c] \in Record \cup {NoRecord}
      BY DEF Typed, TypeOK
  <2> HIDE DEF request, verdict
  <2>6. verdict = "write" => HandlerFacts("write", request, records[c])
      BY <2>3, <2>4, LiveFits DEF HandlerFacts
  <2>7. PICK snapshot : snapshot = records[c]
      OBVIOUS
  <2>8. QED
      BY <2>2, <2>3, <2>4, <2>5, <2>6, <2>7, EnterIsTyped DEF request, verdict
<1>3. CASE ReceiveTransition(r)
  <2>1. PICK c \in Codes : \E target \in DOMAIN Graph(c), expected \in KnownVersions(c) :
          Enter(r, [Request("transition", c) EXCEPT !.expected = expected,
                                                    !.target = target],
                MoveVerdict(c, target), records[c])
      BY <1>3 DEF ReceiveTransition
  <2>2. PICK target \in DOMAIN Graph(c), expected \in Nat :
          Enter(r, [Request("transition", c) EXCEPT !.expected = expected,
                                                    !.target = target],
                MoveVerdict(c, target), records[c])
      BY <2>1, KnownVersionsAreNat DEF Typed
  <2> DEFINE request == [Request("transition", c) EXCEPT !.expected = expected,
                                                         !.target = target]
             verdict == MoveVerdict(c, target)
  <2>3. /\ request \in Input /\ request.kind = "transition" /\ request.code = c
        /\ request.target = target
    <3>1. target \in Statuses
        BY GraphFacts
    <3>2. QED
        BY <3>1 DEF Request, Input
  <2>4. /\ verdict \in {"write", "rule", "notFound"}
        /\ verdict = "write" => /\ Live(records[c])
                                /\ CanTransition(Graph(c), records[c].status, target)
      BY DEF MoveVerdict
  <2>5. records[c] \in Record \cup {NoRecord}
      BY DEF Typed, TypeOK
  <2> HIDE DEF request, verdict
  <2>6. verdict = "write" => HandlerFacts("write", request, records[c])
      BY <2>2, <2>3, <2>4, LiveFits DEF HandlerFacts
  <2>7. PICK snapshot : snapshot = records[c]
      OBVIOUS
  <2>8. QED
      BY <2>2, <2>3, <2>4, <2>5, <2>6, <2>7, EnterIsTyped DEF request, verdict
<1>4. CASE ReceiveDelete(r)
  <2>1. PICK c \in Codes : Enter(r, Request("delete", c),
          IF Live(records[c]) THEN "write" ELSE "notFound", records[c])
      BY <1>4 DEF ReceiveDelete
  <2>2. PICK verdict, snapshot :
          /\ verdict = IF Live(records[c]) THEN "write" ELSE "notFound"
          /\ snapshot = records[c]
      OBVIOUS
  <2>3. verdict = "write" => HandlerFacts("write", Request("delete", c), snapshot)
      BY <2>2, RequestIsInput, LiveFits DEF HandlerFacts
  <2>4. snapshot \in Record \cup {NoRecord}
      BY <2>2 DEF Typed, TypeOK
  <2>5. Enter(r, Request("delete", c), verdict, snapshot)
      BY <2>1, <2>2
  <2>6. QED
      BY <2>2, <2>3, <2>4, <2>5, RequestIsInput, EnterIsTyped
<1>5. CASE ReceiveGet(r)
  <2>1. PICK c \in Codes : Enter(r, Request("get", c),
          IF Live(records[c]) THEN "ok" ELSE "notFound", records[c])
      BY <1>5 DEF ReceiveGet
  <2>2. PICK verdict, snapshot :
          /\ verdict = IF Live(records[c]) THEN "ok" ELSE "notFound"
          /\ snapshot = records[c]
      OBVIOUS
  <2>3. snapshot \in Record \cup {NoRecord}
      BY <2>2 DEF Typed, TypeOK
  <2>4. Enter(r, Request("get", c), verdict, snapshot)
      BY <2>1, <2>2
  <2>5. QED
      BY <2>2, <2>3, <2>4, RequestIsInput, EnterIsTyped
<1>6. QED
    BY <1>1, <1>2, <1>3, <1>4, <1>5 DEF Receive

-----------------------------------------------------------------------------
(***************************************************************************)
(* The writes.                                                             *)
(***************************************************************************)
LEMMA WriterFacts ==
    ASSUME Typed, NEW r \in Reqs, phase[r] \in {"write", "audit"}
    PROVE  /\ input[r] \in Input /\ input[r].code \in Codes
           /\ input[r].kind \in {"create", "update", "transition", "delete"}
           /\ HandlerFacts(phase[r], input[r], current[r])
           /\ input[r].expected \in Nat
<1>1. HandlerFacts(phase[r], input[r], current[r])
    BY DEF Typed, HandlersOK
<1>2. input[r] \in Input /\ input[r].kind # "get"
    BY <1>1 DEF HandlerFacts, InFlight
<1>3. QED
    BY <1>1, <1>2 DEF Input

\* The item a handler builds is a record of its table.
LEMMA EditedFits ==
    ASSUME Typed, NEW r \in Reqs, phase[r] \in {"write", "audit"},
           input[r].kind # "delete"
    PROVE  LET in == input[r]
               old == current[r]
           IN  /\ Edited(r) \in Record
               /\ Edited(r).status \in DOMAIN Graph(in.code)
               /\ in.kind = "create" =>
                    Edited(r) = [status |-> InitialStatus(in.code), version |-> 1,
                                 data |-> in.data, deleted |-> FALSE]
               /\ in.kind = "update" =>
                    /\ Edited(r).status = old.status /\ Edited(r).data = in.data
                    /\ Edited(r).version = in.expected + 1
               /\ in.kind = "transition" =>
                    /\ Edited(r).status = in.target /\ Edited(r).data = old.data
                    /\ Edited(r).version = in.expected + 1
<1> DEFINE in == input[r]
           old == current[r]
<1>1. /\ in \in Input /\ in.code \in Codes /\ in.expected \in Nat
      /\ in.kind \in {"create", "update", "transition"}
      /\ HandlerFacts(phase[r], in, old)
    BY WriterFacts
<1>2. CASE in.kind = "create"
  <2>1. in.data \in Data /\ InitialStatus(in.code) \in Statuses
        /\ InitialStatus(in.code) \in DOMAIN Graph(in.code)
      BY <1>1, <1>2, GraphFacts DEF HandlerFacts
  <2>2. Edited(r) = [status |-> InitialStatus(in.code), version |-> 1,
                     data |-> in.data, deleted |-> FALSE]
      BY <1>2 DEF Edited
  <2>3. QED
      BY <1>2, <2>1, <2>2 DEF Record
<1>3. CASE in.kind = "update"
  <2>1. PICK data, expected, base, item :
          /\ data = in.data /\ expected = in.expected /\ base = old
          /\ item = Edited(r)
      OBVIOUS
  <2>2. data \in Data /\ expected \in Nat /\ base \in Record
        /\ base.status \in DOMAIN Graph(in.code)
      BY <1>1, <1>3, <2>1 DEF HandlerFacts, Fits
  <2>3. item = [base EXCEPT !.version = expected + 1, !.data = data]
      BY <1>3, <2>1 DEF Edited
  <2>4. item = [status |-> base.status, version |-> expected + 1,
                data |-> data, deleted |-> base.deleted]
      BY <2>2, <2>3 DEF Record
  <2>5. item \in Record
      BY <2>2, <2>4 DEF Record
  <2>6. QED
      BY <1>3, <2>1, <2>2, <2>4, <2>5
<1>4. CASE in.kind = "transition"
  <2>1. PICK target, expected, base, item :
          /\ target = in.target /\ expected = in.expected /\ base = old
          /\ item = Edited(r)
      OBVIOUS
  <2>2. target \in DOMAIN Graph(in.code) /\ expected \in Nat /\ base \in Record
        /\ target \in Statuses
      BY <1>1, <1>4, <2>1, GraphFacts DEF HandlerFacts, Fits
  <2>3. item = [base EXCEPT !.version = expected + 1, !.status = target]
      BY <1>4, <2>1 DEF Edited
  <2>4. item = [status |-> target, version |-> expected + 1,
                data |-> base.data, deleted |-> base.deleted]
      BY <2>2, <2>3 DEF Record
  <2>5. item \in Record
      BY <2>2, <2>4 DEF Record
  <2>6. QED
      BY <1>4, <2>1, <2>2, <2>4, <2>5
<1>5. QED
    BY <1>1, <1>2, <1>3, <1>4

\* A row is created, written or marked by one statement; the handler may not
\* hear that it was created.
Creates(r) ==
    /\ phase[r] = "write" /\ input[r].kind = "create"
    /\ records[input[r].code] = NoRecord
    /\ records' = [records EXCEPT ![input[r].code] = Edited(r)]
    /\ UNCHANGED audits
Writes(r) == Update(r) /\ Matches(records[input[r].code], input[r].expected)
Marks(r) == Delete(r) /\ Removes(records[input[r].code])

LEMMA CreatesEffect ==
    ASSUME Typed, NEW r \in Reqs, Creates(r), NEW c, c = input[r].code
    PROVE  /\ c \in Codes /\ records[c] = NoRecord
           /\ phase[r] = "write" /\ input[r].kind = "create"
           /\ records' \in [Codes -> Record \cup {NoRecord}]
           /\ records'[c] = Edited(r) /\ Fits(records'[c], c)
           /\ \A d \in Codes \ {c} : records'[d] = records[d]
           /\ UNCHANGED audits
<1>1. /\ phase[r] = "write" /\ input[r].kind = "create" /\ records[c] = NoRecord
      /\ records' = [records EXCEPT ![c] = Edited(r)]
      /\ UNCHANGED audits
    BY DEF Creates
<1>2. /\ c \in Codes /\ Edited(r) \in Record
      /\ Edited(r).status \in DOMAIN Graph(c)
    BY <1>1, WriterFacts, EditedFits
<1>3. QED
    BY <1>1, <1>2 DEF Typed, TypeOK, Fits

LEMMA WritesNeeds ==
    ASSUME Typed, NEW r \in Reqs, Writes(r), NEW c, c = input[r].code
    PROVE  /\ phase[r] = "write" /\ input[r].kind \in {"update", "transition"}
           /\ c \in Codes /\ records[c] # NoRecord
           /\ records[c].version = input[r].expected
<1>1. /\ phase[r] = "write" /\ input[r].kind \in {"update", "transition"}
      /\ records[c] # NoRecord /\ records[c].version = input[r].expected
    BY DEF Writes, Update, Matches, Live
<1>2. QED
    BY <1>1, WriterFacts

LEMMA WritesEffect ==
    ASSUME Typed, NEW r \in Reqs, Writes(r), NEW c, c = input[r].code
    PROVE  LET row == records[c]
               new == records'[c]
           IN  /\ c \in Codes /\ row \in Record /\ row # NoRecord /\ ~row.deleted
               /\ phase[r] = "write" /\ input[r].kind \in {"update", "transition"}
               /\ row.version = input[r].expected
               /\ records' \in [Codes -> Record \cup {NoRecord}]
               /\ new.status = Edited(r).status /\ new.data = Edited(r).data
               /\ new.version = row.version + 1 /\ new.deleted = FALSE
               /\ Fits(new, c)
               /\ \A d \in Codes \ {c} : records'[d] = records[d]
               /\ phase' = [phase EXCEPT ![r] = "audit"]
               /\ UNCHANGED <<audits, input, current>>
<1> DEFINE row == records[c]
           item == Edited(r)
<1>1. /\ phase[r] = "write" /\ input[r].kind \in {"update", "transition"}
      /\ row # NoRecord /\ ~row.deleted /\ row.version = input[r].expected
      /\ records' = [records EXCEPT ![c].status = item.status, ![c].data = item.data,
                                    ![c].version = item.version]
      /\ phase' = [phase EXCEPT ![r] = "audit"]
      /\ UNCHANGED <<audits, input, current>>
    BY DEF Writes, Update, Matches, Live, Goto
<1>2. /\ c \in Codes /\ item \in Record
      /\ item.status \in DOMAIN Graph(c) /\ item.version = input[r].expected + 1
    BY <1>1, WriterFacts, EditedFits
<1>3. row \in Record /\ records \in [Codes -> Record \cup {NoRecord}]
    BY <1>1, <1>2 DEF Typed, TypeOK
<1> HIDE DEF item
<1>4. /\ records'[c] = [row EXCEPT !.status = item.status, !.data = item.data,
                                   !.version = item.version]
      /\ \A d \in Codes \ {c} : records'[d] = records[d]
      /\ DOMAIN records' = Codes /\ records' = [d \in Codes |-> records'[d]]
    BY <1>1, <1>2, <1>3
<1>5. /\ records'[c] \in Record
      /\ records'[c].status = item.status /\ records'[c].data = item.data
      /\ records'[c].version = item.version /\ records'[c].deleted = row.deleted
    BY <1>2, <1>3, <1>4 DEF Record
<1>6. records' \in [Codes -> Record \cup {NoRecord}]
    BY <1>3, <1>4, <1>5
<1>7. records'[c].deleted = FALSE
    BY <1>1, <1>3, <1>5 DEF Record
<1>8. QED
    BY <1>1, <1>2, <1>3, <1>4, <1>5, <1>6, <1>7 DEF Fits, item

LEMMA MarksEffect ==
    ASSUME Typed, NEW r \in Reqs, Marks(r), NEW c, c = input[r].code
    PROVE  LET row == records[c]
               new == records'[c]
           IN  /\ c \in Codes /\ row \in Record /\ row # NoRecord /\ ~row.deleted
               /\ phase[r] = "write" /\ input[r].kind = "delete"
               /\ records' \in [Codes -> Record \cup {NoRecord}]
               /\ new.status = row.status /\ new.data = row.data
               /\ new.version = row.version /\ new.deleted
               /\ Fits(new, c)
               /\ \A d \in Codes \ {c} : records'[d] = records[d]
               /\ phase' = [phase EXCEPT ![r] = "audit"]
               /\ UNCHANGED <<audits, input, current>>
<1> DEFINE row == records[c]
<1>1. /\ phase[r] = "write" /\ input[r].kind = "delete"
      /\ row # NoRecord /\ ~row.deleted
      /\ records' = [records EXCEPT ![c].deleted = TRUE]
      /\ phase' = [phase EXCEPT ![r] = "audit"]
      /\ UNCHANGED <<audits, input, current>>
    BY DEF Marks, Delete, Removes, Live, Goto
<1>2. c \in Codes
    BY <1>1, WriterFacts
<1>3. /\ row \in Record /\ records \in [Codes -> Record \cup {NoRecord}]
      /\ row.status \in DOMAIN Graph(c)
    BY <1>1, <1>2 DEF Typed, TypeOK
<1>4. /\ records'[c] = [row EXCEPT !.deleted = TRUE]
      /\ \A d \in Codes \ {c} : records'[d] = records[d]
      /\ DOMAIN records' = Codes /\ records' = [d \in Codes |-> records'[d]]
    BY <1>1, <1>2, <1>3
<1>5. /\ records'[c] \in Record
      /\ records'[c].status = row.status /\ records'[c].data = row.data
      /\ records'[c].version = row.version /\ records'[c].deleted
    BY <1>3, <1>4 DEF Record
<1>6. records' \in [Codes -> Record \cup {NoRecord}]
    BY <1>3, <1>4, <1>5
<1>7. QED
    BY <1>1, <1>2, <1>3, <1>4, <1>5, <1>6 DEF Fits

\* Every other step leaves the rows alone.
LEMMA RowsUntouched ==
    ASSUME [Next]_vars, \A r \in Reqs : ~Creates(r) /\ ~Writes(r) /\ ~Marks(r)
    PROVE  UNCHANGED records
<1>1. ASSUME NEW r \in Reqs, Receive(r) PROVE UNCHANGED records
    BY <1>1 DEF Receive, ReceiveCreate, ReceiveUpdate, ReceiveTransition,
                ReceiveDelete, ReceiveGet, Enter
<1>2. ASSUME NEW r \in Reqs, Serve(r) PROVE UNCHANGED records
    BY <1>2 DEF Serve, Create, Update, Delete, Audit, Reload, Creates, Writes, Marks
<1>3. ASSUME NEW r \in Reqs, Fail(r) PROVE UNCHANGED records
    BY <1>3 DEF Fail, DatabaseFails, AuditFails, AnswerLost, Creates
<1>4. CASE Crash \/ Quiescent \/ UNCHANGED vars
    BY <1>4 DEF Crash, Quiescent, vars
<1>5. QED
    BY <1>1, <1>2, <1>3, <1>4 DEF Next

-----------------------------------------------------------------------------
(***************************************************************************)
(* What a step does to the handler that takes it.                          *)
(***************************************************************************)
Moves(r, ph, in, old) ==
    /\ phase' = [phase EXCEPT ![r] = ph]
    /\ input' = [input EXCEPT ![r] = in]
    /\ current' = [current EXCEPT ![r] = old]

Ends(r, outcomes) == \E outcome \in outcomes : Moves(r, outcome, NoInput, NoRecord)

Entered(r) == audits' = audits \cup {AuditEntry(r)}

Wrote(r) ==
    \/ Creates(r) /\ (Moves(r, "audit", input[r], Edited(r)) \/ Ends(r, {"internal"}))
    \/ (Writes(r) \/ Marks(r)) /\ Moves(r, "audit", input[r], current[r])

\* After the write the rows are left alone.
Audited(r) ==
    /\ phase[r] = "audit"
    /\ UNCHANGED records
    /\ \/ input[r].kind = "create" /\ Moves(r, "ok", input[r], current[r])
       \/ input[r].kind = "update" /\ Moves(r, "reload", input[r], current[r])
       \/ /\ input[r].kind = "transition" /\ Entered(r)
          /\ Moves(r, "reload", input[r], current[r])
       \/ input[r].kind = "delete" /\ Ends(r, {"ok", "internal"})
       \/ /\ input[r].kind = "transition" /\ UNCHANGED audits
          /\ Ends(r, {"internal"})
    /\ Entered(r) \/ UNCHANGED audits

Reloaded(r) ==
    /\ phase[r] = "reload" /\ Live(records[input[r].code])
    /\ Moves(r, "ok", input[r], records[input[r].code])
    /\ UNCHANGED <<records, audits>>

GaveUp(r) ==
    /\ phase[r] \in {"idle", "write", "reload"}
    /\ Ends(r, Outcomes \ {"ok"})
    /\ UNCHANGED <<records, audits>>

LEMMA GotoMoves ==
    ASSUME TypeOK, NEW r \in Reqs, NEW next, Goto(r, next)
    PROVE  Moves(r, next, input[r], current[r])
BY DEF TypeOK, Goto, Moves

LEMMA FinishMoves ==
    ASSUME NEW r \in Reqs, NEW outcome, Finish(r, outcome)
    PROVE  Moves(r, outcome, NoInput, NoRecord)
BY DEF Finish, Moves

LEMMA HandlerSteps ==
    ASSUME Typed, NEW r \in Reqs, Serve(r) \/ Fail(r)
    PROVE  Wrote(r) \/ Audited(r) \/ Reloaded(r) \/ GaveUp(r)
<1>0. TypeOK
    BY DEF Typed
<1>1. CASE Create(r)
  <2>1. CASE records[input[r].code] = NoRecord
    <3>1. Creates(r)
        BY <1>1, <2>1 DEF Create, Creates
    <3>2. Moves(r, "audit", input[r], Edited(r))
        BY <1>0, <1>1, <2>1 DEF Create, Moves, TypeOK
    <3>3. QED
        BY <3>1, <3>2 DEF Wrote
  <2>2. CASE records[input[r].code] # NoRecord
    <3>1. Finish(r, "internal") /\ UNCHANGED <<records, audits>> /\ phase[r] = "write"
        BY <1>1, <2>2 DEF Create
    <3>2. QED
        BY <3>1, FinishMoves DEF GaveUp, Ends, Outcomes
  <2>3. QED
      BY <2>1, <2>2
<1>2. CASE Update(r)
  <2>1. CASE Matches(records[input[r].code], input[r].expected)
    <3>1. Writes(r) /\ Goto(r, "audit")
        BY <1>2, <2>1 DEF Writes, Update
    <3>2. QED
        BY <1>0, <3>1, GotoMoves DEF Wrote
  <2>2. CASE ~Matches(records[input[r].code], input[r].expected)
    <3>1. Finish(r, "conflict") /\ UNCHANGED <<records, audits>> /\ phase[r] = "write"
        BY <1>2, <2>2 DEF Update
    <3>2. QED
        BY <3>1, FinishMoves DEF GaveUp, Ends, Outcomes
  <2>3. QED
      BY <2>1, <2>2
<1>3. CASE Delete(r)
  <2>1. CASE Removes(records[input[r].code])
    <3>1. Marks(r) /\ Goto(r, "audit")
        BY <1>3, <2>1 DEF Marks, Delete
    <3>2. QED
        BY <1>0, <3>1, GotoMoves DEF Wrote
  <2>2. CASE ~Removes(records[input[r].code])
    <3>1. Finish(r, "notFound") /\ UNCHANGED <<records, audits>> /\ phase[r] = "write"
        BY <1>3, <2>2 DEF Delete
    <3>2. QED
        BY <3>1, FinishMoves DEF GaveUp, Ends, Outcomes
  <2>3. QED
      BY <2>1, <2>2
<1>4. CASE Audit(r) \/ AuditFails(r)
  <2>1. /\ phase[r] = "audit" /\ UNCHANGED records
        /\ \/ Entered(r) /\ AfterAudit(r)
           \/ /\ UNCHANGED audits /\ input[r].kind \in {"create", "update"}
              /\ AfterAudit(r)
           \/ /\ UNCHANGED audits /\ input[r].kind \notin {"create", "update"}
              /\ Finish(r, "internal")
      BY <1>4 DEF Audit, AuditFails, Entered
  <2>2. input[r].kind \in {"create", "update", "transition", "delete"}
      BY <2>1, WriterFacts
  <2>3. ASSUME AfterAudit(r), input[r].kind = "create"
        PROVE  Moves(r, "ok", input[r], current[r])
    <3>1. Goto(r, "ok")
        BY <2>3 DEF AfterAudit
    <3>2. QED
        BY <1>0, <3>1, GotoMoves
  <2>4. ASSUME AfterAudit(r), input[r].kind \in {"update", "transition"}
        PROVE  Moves(r, "reload", input[r], current[r])
    <3>1. Goto(r, "reload")
        BY <2>4 DEF AfterAudit
    <3>2. QED
        BY <1>0, <3>1, GotoMoves
  <2>5. ASSUME AfterAudit(r), input[r].kind = "delete"
        PROVE  Ends(r, {"ok", "internal"})
    <3>1. Finish(r, "ok")
        BY <2>5 DEF AfterAudit
    <3>2. QED
        BY <3>1, FinishMoves DEF Ends
  <2>6. Finish(r, "internal") => Ends(r, {"internal"}) /\ Ends(r, {"ok", "internal"})
      BY FinishMoves DEF Ends
  <2>7. QED
      BY <2>1, <2>2, <2>3, <2>4, <2>5, <2>6 DEF Audited
<1>5. CASE Reload(r)
  <2>1. CASE Live(records[input[r].code])
    <3>1. Moves(r, "ok", input[r], records[input[r].code])
        BY <1>0, <1>5, <2>1 DEF Reload, Moves, TypeOK
    <3>2. QED
        BY <1>5, <2>1, <3>1 DEF Reload, Reloaded
  <2>2. CASE ~Live(records[input[r].code])
    <3>1. Finish(r, "notFound") /\ UNCHANGED <<records, audits>> /\ phase[r] = "reload"
        BY <1>5, <2>2 DEF Reload
    <3>2. QED
        BY <3>1, FinishMoves DEF GaveUp, Ends, Outcomes
  <2>3. QED
      BY <2>1, <2>2
<1>6. CASE DatabaseFails(r)
  <2>1. Finish(r, "internal") /\ UNCHANGED <<records, audits>>
        /\ phase[r] \in {"idle", "write", "reload"}
      BY <1>6 DEF DatabaseFails
  <2>2. QED
      BY <2>1, FinishMoves DEF GaveUp, Ends, Outcomes
<1>7. CASE AnswerLost(r)
  <2>1. Finish(r, "internal")
      BY <1>7 DEF AnswerLost
  <2>2. Ends(r, {"internal"}) /\ Ends(r, {"ok", "internal"})
      BY <2>1, FinishMoves DEF Ends
  <2>3. \/ Creates(r)
        \/ phase[r] = "audit" /\ input[r].kind = "delete" /\ Entered(r) /\ UNCHANGED records
      BY <1>7 DEF AnswerLost, Creates, Entered
  <2>4. QED
      BY <2>2, <2>3 DEF Wrote, Audited
<1>8. QED
    BY <1>1, <1>2, <1>3, <1>4, <1>5, <1>6, <1>7 DEF Serve, Fail

LEMMA MovesAreTyped ==
    ASSUME Typed, NEW r \in Reqs, NEW ph \in Phases, NEW in \in Input \cup {NoInput},
           NEW old \in Record \cup {NoRecord}, Moves(r, ph, in, old),
           HandlerFacts(ph, in, old),
           records' \in [Codes -> Record \cup {NoRecord}],
           \A c \in Codes : records'[c] # NoRecord => records'[c].status \in DOMAIN Graph(c),
           audits' \subseteq AuditLog
    PROVE  Typed'
<1>1. TypeOK'
    BY DEF Typed, TypeOK, Moves
<1>2. ASSUME NEW q \in Reqs
      PROVE  HandlerFacts(phase'[q], input'[q], current'[q])
  <2>1. CASE q = r
      BY <2>1 DEF Typed, TypeOK, Moves
  <2>2. CASE q # r
    <3>1. phase'[q] = phase[q] /\ input'[q] = input[q] /\ current'[q] = current[q]
        BY <2>2 DEF Typed, TypeOK, Moves
    <3>2. QED
        BY <3>1 DEF Typed, HandlersOK
  <2>3. QED
      BY <2>1, <2>2
<1>3. QED
    BY <1>1, <1>2 DEF Typed, HandlersOK, HandlerFacts

LEMMA EndsAreTyped ==
    ASSUME Typed, NEW r \in Reqs, NEW outcomes \in SUBSET Outcomes, Ends(r, outcomes),
           records' \in [Codes -> Record \cup {NoRecord}],
           \A c \in Codes : records'[c] # NoRecord => records'[c].status \in DOMAIN Graph(c),
           audits' \subseteq AuditLog
    PROVE  Typed'
<1>1. PICK outcome \in Outcomes : Moves(r, outcome, NoInput, NoRecord)
    BY DEF Ends
<1>2. HandlerFacts(outcome, NoInput, NoRecord) /\ outcome \in Phases
    BY DEF HandlerFacts, Outcomes, InFlight, Phases
<1>3. QED
    BY <1>1, <1>2, MovesAreTyped

LEMMA EntryIsTyped ==
    ASSUME Typed, NEW r \in Reqs, phase[r] = "audit"
    PROVE  AuditEntry(r) \in AuditLog
<1> DEFINE in == input[r]
<1>1. /\ in.code \in Codes /\ HandlerFacts(phase[r], in, current[r])
      /\ in.kind \in {"create", "update", "transition", "delete"}
    BY WriterFacts
<1>2. in.kind # "create" => current[r].status \in Statuses
    BY <1>1, GraphFacts DEF HandlerFacts, Fits
<1>3. in.kind # "delete" => Edited(r).status \in Statuses
    BY <1>1, EditedFits, GraphFacts
<1> HIDE DEF in
<1>4. PICK before, after :
        /\ before = IF in.kind = "create" THEN "" ELSE current[r].status
        /\ after = IF in.kind = "delete" THEN "deleted" ELSE Edited(r).status
    OBVIOUS
<1>5. before \in Statuses \cup {""} /\ after \in Statuses \cup {"deleted"}
    BY <1>2, <1>3, <1>4
<1>6. PICK code, kind : code = in.code /\ kind = in.kind
    OBVIOUS
<1>7. AuditEntry(r) = [request |-> r, code |-> code, action |-> kind,
                       before |-> before, after |-> after]
    BY <1>4, <1>6 DEF AuditEntry, in
<1>8. code \in Codes /\ kind \in {"create", "update", "transition", "delete"}
    BY <1>1, <1>6
<1>9. [request |-> r, code |-> code, action |-> kind, before |-> before,
       after |-> after] \in AuditLog
    BY <1>5, <1>8 DEF AuditLog
<1>10. QED
    BY <1>7, <1>9

LEMMA HandlerStepIsTyped ==
    ASSUME Typed, NEW r \in Reqs, Serve(r) \/ Fail(r)
    PROVE  Typed'
<1> DEFINE RowsFit == \A c \in Codes :
               records'[c] # NoRecord => records'[c].status \in DOMAIN Graph(c)
<1>0. /\ records \in [Codes -> Record \cup {NoRecord}] /\ audits \subseteq AuditLog
      /\ \A c \in Codes : records[c] # NoRecord => records[c].status \in DOMAIN Graph(c)
      /\ current[r] \in Record \cup {NoRecord} /\ input[r] \in Input \cup {NoInput}
      /\ HandlerFacts(phase[r], input[r], current[r])
    BY DEF Typed, TypeOK, HandlersOK
<1>1. CASE Creates(r) /\ (Moves(r, "audit", input[r], Edited(r)) \/ Ends(r, {"internal"}))
  <2>1. PICK c : c = input[r].code
      OBVIOUS
  <2>2. /\ phase[r] = "write" /\ input[r].kind = "create"
        /\ records' \in [Codes -> Record \cup {NoRecord}] /\ Fits(records'[c], c)
        /\ records'[c] = Edited(r)
        /\ \A d \in Codes \ {c} : records'[d] = records[d]
        /\ UNCHANGED audits
      BY <1>1, <2>1, CreatesEffect
  <2>3. RowsFit /\ Edited(r) \in Record /\ Fits(Edited(r), input[r].code)
      BY <1>0, <2>1, <2>2 DEF Fits
  <2>4. HandlerFacts("audit", input[r], Edited(r))
      BY <1>0, <2>2, <2>3 DEF HandlerFacts, InFlight
  <2>5. CASE Moves(r, "audit", input[r], Edited(r))
      BY <1>0, <2>2, <2>3, <2>4, <2>5, MovesAreTyped DEF Phases, InFlight
  <2>6. CASE Ends(r, {"internal"})
      BY <1>0, <2>2, <2>3, <2>6, EndsAreTyped DEF Outcomes
  <2>7. QED
      BY <1>1, <2>5, <2>6
<1>2. CASE (Writes(r) \/ Marks(r)) /\ Moves(r, "audit", input[r], current[r])
  <2>1. PICK c : c = input[r].code
      OBVIOUS
  <2>2. /\ phase[r] = "write"
        /\ records' \in [Codes -> Record \cup {NoRecord}] /\ Fits(records'[c], c)
        /\ \A d \in Codes \ {c} : records'[d] = records[d]
        /\ UNCHANGED audits
    <3>1. CASE Writes(r)
        BY <2>1, <3>1, WritesEffect
    <3>2. CASE Marks(r)
        BY <2>1, <3>2, MarksEffect
    <3>3. QED
        BY <1>2, <3>1, <3>2
  <2>3. RowsFit
      BY <1>0, <2>2 DEF Fits
  <2>4. HandlerFacts("audit", input[r], current[r])
      BY <1>0, <2>2 DEF HandlerFacts, InFlight
  <2>5. QED
      BY <1>0, <1>2, <2>2, <2>3, <2>4, MovesAreTyped DEF Phases, InFlight
<1>3. CASE Audited(r)
  <2>1. phase[r] = "audit" /\ UNCHANGED records
      BY <1>3 DEF Audited
  <2>2. audits' \subseteq AuditLog
    <3>1. AuditEntry(r) \in AuditLog
        BY <2>1, EntryIsTyped
    <3>2. QED
        BY <1>0, <1>3, <3>1 DEF Audited, Entered
  <2>3. records' \in [Codes -> Record \cup {NoRecord}] /\ RowsFit
      BY <1>0, <2>1
  <2>4. CASE Ends(r, {"ok", "internal"}) \/ Ends(r, {"internal"})
      BY <2>2, <2>3, <2>4, EndsAreTyped DEF Outcomes
  <2>5. CASE \/ input[r].kind = "create" /\ Moves(r, "ok", input[r], current[r])
             \/ /\ input[r].kind \in {"update", "transition"}
                /\ Moves(r, "reload", input[r], current[r])
    <3>1. PICK ph : /\ Moves(r, ph, input[r], current[r])
                    /\ \/ input[r].kind = "create" /\ ph = "ok"
                       \/ input[r].kind \in {"update", "transition"} /\ ph = "reload"
        BY <2>5
    <3>2. HandlerFacts(ph, input[r], current[r])
        BY <1>0, <2>1, <3>1 DEF HandlerFacts, InFlight
    <3>3. ph \in Phases
        BY <3>1 DEF Phases, InFlight, Outcomes
    <3>4. QED
        BY <1>0, <2>2, <2>3, <3>1, <3>2, <3>3, MovesAreTyped
  <2>6. QED
      BY <1>3, <2>4, <2>5 DEF Audited
<1>4. CASE Reloaded(r)
  <2>1. /\ Live(records[input[r].code]) /\ phase[r] = "reload"
        /\ Moves(r, "ok", input[r], records[input[r].code])
        /\ UNCHANGED <<records, audits>>
      BY <1>4 DEF Reloaded
  <2>2. records[input[r].code] \in Record \cup {NoRecord}
    <3>1. input[r].code \in Codes
        BY <1>0, <2>1 DEF HandlerFacts, InFlight, Input
    <3>2. QED
        BY <1>0, <3>1
  <2>3. HandlerFacts("ok", input[r], records[input[r].code]) /\ "ok" \in Phases
      BY DEF HandlerFacts, InFlight, Phases, Outcomes
  <2>4. QED
      BY <1>0, <2>1, <2>2, <2>3, MovesAreTyped
<1>5. CASE GaveUp(r)
    BY <1>0, <1>5, EndsAreTyped DEF GaveUp
<1>6. QED
    BY <1>1, <1>2, <1>3, <1>4, <1>5, HandlerSteps DEF Wrote

LEMMA StepIsTyped == Typed /\ [Next]_vars => Typed'
<1> SUFFICES ASSUME Typed, [Next]_vars PROVE Typed'
    OBVIOUS
<1>1. ASSUME NEW r \in Reqs, Receive(r) PROVE Typed'
    BY <1>1, ReceiveIsTyped
<1>2. ASSUME NEW r \in Reqs, Serve(r) \/ Fail(r) PROVE Typed'
    BY <1>2, HandlerStepIsTyped
<1>3. CASE Crash
  <2>1. UNCHANGED <<records, audits>>
      BY <1>3 DEF Crash
  <2>2. ASSUME NEW q \in Reqs
        PROVE  \/ phase'[q] = "lost" /\ input'[q] = NoInput /\ current'[q] = NoRecord
               \/ phase'[q] = phase[q] /\ input'[q] = input[q] /\ current'[q] = current[q]
      BY <1>3 DEF Crash
  <2>3. TypeOK'
    <3>1. /\ phase' = [q \in Reqs |-> phase'[q]] /\ input' = [q \in Reqs |-> input'[q]]
          /\ current' = [q \in Reqs |-> current'[q]]
        BY <1>3 DEF Crash
    <3>2. /\ phase' \in [Reqs -> Phases] /\ input' \in [Reqs -> Input \cup {NoInput}]
          /\ current' \in [Reqs -> Record \cup {NoRecord}]
        BY <2>2, <3>1 DEF Typed, TypeOK, Phases, Outcomes
    <3>3. QED
        BY <2>1, <3>2 DEF Typed, TypeOK
  <2>4. ASSUME NEW q \in Reqs
        PROVE  HandlerFacts(phase'[q], input'[q], current'[q])
    <3>1. CASE phase'[q] = "lost"
        BY <3>1 DEF HandlerFacts, InFlight
    <3>2. CASE phase'[q] = phase[q] /\ input'[q] = input[q] /\ current'[q] = current[q]
        BY <3>2 DEF Typed, HandlersOK
    <3>3. QED
        BY <2>2, <3>1, <3>2
  <2>5. QED
      BY <2>3, <2>4 DEF Typed, HandlersOK, HandlerFacts
<1>4. CASE Quiescent \/ UNCHANGED vars
    BY <1>4 DEF Quiescent, vars, Typed, TypeOK, HandlersOK, HandlerFacts
<1>5. QED
    BY <1>1, <1>2, <1>3, <1>4 DEF Next

\* The tables, the audit log and every handler hold values of their types, and
\* no record has a status outside the graph of its table.
THEOREM TypeCorrect == Spec => []TypeOK
<1>1. Spec => []Typed
    BY InitIsTyped, StepIsTyped, PTL DEF Spec
<1>2. Typed => TypeOK
    BY DEF Typed
<1>3. QED
    BY <1>1, <1>2, PTL

-----------------------------------------------------------------------------
(***************************************************************************)
(* Rows only advance: a row is never taken away, its version never goes    *)
(* back, and at one version its status and data are the same.              *)
(***************************************************************************)
Follows(new, old) ==
    /\ new # NoRecord /\ new.version >= old.version
    /\ new.version = old.version => new.status = old.status /\ new.data = old.data

LEMMA NoRecordIsNoRow == \A row \in Record : row # NoRecord
BY NoRecordAssumption

LEMMA FollowsIsTransitive ==
    ASSUME NEW a \in Record, NEW b \in Record, NEW c \in Record,
           Follows(b, a), Follows(c, b)
    PROVE  Follows(c, a)
BY DEF Follows, Record

LEMMA RowsAdvance ==
    ASSUME Typed, [Next]_vars, NEW c \in Codes, records[c] # NoRecord
    PROVE  /\ records[c] \in Record /\ records'[c] \in Record
           /\ Follows(records'[c], records[c])
<1>1. records[c] \in Record
    BY DEF Typed, TypeOK
<1>2. records'[c] \in Record \cup {NoRecord}
    BY StepIsTyped DEF Typed, TypeOK
<1>3. CASE records'[c] = records[c]
    BY <1>1, <1>3 DEF Follows, Record
<1>4. ASSUME NEW r \in Reqs, Creates(r) PROVE records'[c] = records[c]
  <2>1. PICK d : d = input[r].code
      OBVIOUS
  <2>2. records[d] = NoRecord /\ \A e \in Codes \ {d} : records'[e] = records[e]
      BY <1>4, <2>1, CreatesEffect
  <2>3. QED
      BY <2>2
<1>5. ASSUME NEW r \in Reqs, Writes(r) PROVE Follows(records'[c], records[c])
  <2>1. PICK d : d = input[r].code
      OBVIOUS
  <2>2. /\ records'[d].version = records[d].version + 1 /\ Fits(records'[d], d)
        /\ \A e \in Codes \ {d} : records'[e] = records[e]
      BY <1>5, <2>1, WritesEffect
  <2>3. CASE c = d
    <3>1. records'[c] \in Record /\ records'[c].version = records[c].version + 1
          /\ records[c].version \in Nat
        BY <1>1, <2>2, <2>3 DEF Fits, Record
    <3>2. QED
        BY <3>1, NoRecordIsNoRow DEF Follows
  <2>4. QED
      BY <1>3, <2>2, <2>3
<1>6. ASSUME NEW r \in Reqs, Marks(r) PROVE Follows(records'[c], records[c])
  <2>1. PICK d : d = input[r].code
      OBVIOUS
  <2>2. /\ records'[d].version = records[d].version /\ Fits(records'[d], d)
        /\ records'[d].status = records[d].status /\ records'[d].data = records[d].data
        /\ \A e \in Codes \ {d} : records'[e] = records[e]
      BY <1>6, <2>1, MarksEffect
  <2>3. CASE c = d
    <3>1. /\ records'[c] \in Record /\ records'[c].version = records[c].version
          /\ records'[c].status = records[c].status /\ records'[c].data = records[c].data
          /\ records[c].version \in Nat
        BY <1>1, <2>2, <2>3 DEF Fits, Record
    <3>2. QED
        BY <3>1, NoRecordIsNoRow DEF Follows
  <2>4. QED
      BY <1>3, <2>2, <2>3
<1>7. Follows(records'[c], records[c])
    BY <1>3, <1>4, <1>5, <1>6, RowsUntouched
<1>8. QED
    BY <1>1, <1>2, <1>7 DEF Follows

-----------------------------------------------------------------------------
(***************************************************************************)
(* Arrivals.  A request that will write holds the row as it is, and a      *)
(* version at most Lookahead past it.                                      *)
(***************************************************************************)
JustRead(request, snapshot) ==
    /\ request.code \in Codes /\ Live(records[request.code])
    /\ snapshot = records[request.code]
    /\ request.expected <= snapshot.version + Lookahead

Received(r) ==
    /\ phase[r] = "idle"
    /\ UNCHANGED <<records, audits>>
    /\ \/ \E request, snapshot :
            /\ Moves(r, "write", request, snapshot)
            /\ request.kind # "create" => JustRead(request, snapshot)
       \/ /\ \E outcome \in {"ok", "rule", "notFound"} :
                phase' = [phase EXCEPT ![r] = outcome]
          /\ \A q \in Reqs \ {r} : current'[q] = current[q]
          /\ UNCHANGED input

LEMMA EnterReceives ==
    ASSUME Typed, NEW r \in Reqs, NEW request, NEW verdict, NEW snapshot,
           Enter(r, request, verdict, snapshot),
           verdict \in {"write", "ok", "rule", "notFound"},
           (verdict = "write" /\ request.kind # "create") => JustRead(request, snapshot)
    PROVE  Received(r)
<1>1. phase[r] = "idle" /\ UNCHANGED <<records, audits>>
      /\ phase' = [phase EXCEPT ![r] = verdict]
    BY DEF Enter
<1>2. CASE verdict = "write"
  <2>1. Moves(r, "write", request, snapshot)
      BY <1>2 DEF Enter, InFlight, Moves
  <2>2. QED
      BY <1>1, <1>2, <2>1 DEF Received
<1>3. CASE verdict # "write"
  <2>1. UNCHANGED input /\ \A q \in Reqs \ {r} : current'[q] = current[q]
      BY <1>3 DEF Enter, InFlight, Typed, TypeOK
  <2>2. QED
      BY <1>1, <1>3, <2>1 DEF Received
<1>4. QED
    BY <1>2, <1>3

LEMMA SeenVersions ==
    ASSUME Typed, NEW c \in Codes, Live(records[c]), NEW expected \in KnownVersions(c)
    PROVE  expected <= records[c].version + Lookahead
BY LookaheadAssumption DEF KnownVersions, Live, Typed, TypeOK, Record

LEMMA ReceiveSteps ==
    ASSUME Typed, NEW r \in Reqs, Receive(r)
    PROVE  Received(r)
<1>1. CASE ReceiveCreate(r)
  <2>1. PICK c \in Codes, data \in Data \cup {Blank} :
          Enter(r, [Request("create", c) EXCEPT !.data = data],
                CreateVerdict(data), NoRecord)
      BY <1>1 DEF ReceiveCreate
  <2>2. PICK request, verdict, snapshot :
          /\ request = [Request("create", c) EXCEPT !.data = data]
          /\ verdict = CreateVerdict(data) /\ snapshot = NoRecord
      OBVIOUS
  <2>3. request.kind = "create" /\ verdict \in {"write", "rule"}
      BY <2>2 DEF Request, CreateVerdict
  <2>4. Enter(r, request, verdict, snapshot)
      BY <2>1, <2>2
  <2>5. QED
      BY <2>3, <2>4, EnterReceives
<1>2. CASE ReceiveUpdate(r)
  <2>1. PICK c \in Codes, data \in Data \cup {Blank} :
        \E expected \in KnownVersions(c) :
          Enter(r, [Request("update", c) EXCEPT !.expected = expected, !.data = data],
                EditVerdict(records[c], data), records[c])
      BY <1>2 DEF ReceiveUpdate
  <2>2. PICK expected \in KnownVersions(c) :
          Enter(r, [Request("update", c) EXCEPT !.expected = expected, !.data = data],
                EditVerdict(records[c], data), records[c])
      BY <2>1
  <2>3. PICK request, verdict, snapshot :
          /\ request = [Request("update", c) EXCEPT !.expected = expected,
                                                    !.data = data]
          /\ verdict = EditVerdict(records[c], data) /\ snapshot = records[c]
      OBVIOUS
  <2>4. request.code = c /\ request.expected = expected
      BY <2>3 DEF Request
  <2>5. /\ verdict \in {"write", "rule", "notFound"}
        /\ verdict = "write" => Live(records[c])
      BY <2>3 DEF EditVerdict
  <2>6. Enter(r, request, verdict, snapshot)
      BY <2>2, <2>3
  <2>7. verdict = "write" => JustRead(request, snapshot)
      BY <2>3, <2>4, <2>5, SeenVersions DEF JustRead
  <2>8. QED
      BY <2>5, <2>6, <2>7, EnterReceives
<1>3. CASE ReceiveTransition(r)
  <2>1. PICK c \in Codes : \E target \in DOMAIN Graph(c), expected \in KnownVersions(c) :
          Enter(r, [Request("transition", c) EXCEPT !.expected = expected,
                                                    !.target = target],
                MoveVerdict(c, target), records[c])
      BY <1>3 DEF ReceiveTransition
  <2>2. PICK target \in DOMAIN Graph(c), expected \in KnownVersions(c) :
          Enter(r, [Request("transition", c) EXCEPT !.expected = expected,
                                                    !.target = target],
                MoveVerdict(c, target), records[c])
      BY <2>1
  <2>3. PICK request, verdict, snapshot :
          /\ request = [Request("transition", c) EXCEPT !.expected = expected,
                                                        !.target = target]
          /\ verdict = MoveVerdict(c, target) /\ snapshot = records[c]
      OBVIOUS
  <2>4. request.code = c /\ request.expected = expected
      BY <2>3 DEF Request
  <2>5. /\ verdict \in {"write", "rule", "notFound"}
        /\ verdict = "write" => Live(records[c])
      BY <2>3 DEF MoveVerdict
  <2>6. Enter(r, request, verdict, snapshot)
      BY <2>2, <2>3
  <2>7. verdict = "write" => JustRead(request, snapshot)
      BY <2>3, <2>4, <2>5, SeenVersions DEF JustRead
  <2>8. QED
      BY <2>5, <2>6, <2>7, EnterReceives
<1>4. CASE ReceiveDelete(r)
  <2>1. PICK c \in Codes : Enter(r, Request("delete", c),
          IF Live(records[c]) THEN "write" ELSE "notFound", records[c])
      BY <1>4 DEF ReceiveDelete
  <2>2. PICK request, verdict, snapshot :
          /\ request = Request("delete", c)
          /\ verdict = IF Live(records[c]) THEN "write" ELSE "notFound"
          /\ snapshot = records[c]
      OBVIOUS
  <2>3. Enter(r, request, verdict, snapshot)
      BY <2>1, <2>2
  <2>4. request.code = c /\ request.expected = 0
      BY <2>2, RequestIsInput
  <2>5. Live(records[c]) => records[c].version \in Nat
      BY DEF Live, Typed, TypeOK, Record
  <2>6. verdict = "write" => JustRead(request, snapshot)
      BY <2>2, <2>4, <2>5, LookaheadAssumption DEF JustRead
  <2>7. QED
      BY <2>2, <2>3, <2>6, EnterReceives
<1>5. CASE ReceiveGet(r)
  <2>1. PICK c \in Codes : Enter(r, Request("get", c),
          IF Live(records[c]) THEN "ok" ELSE "notFound", records[c])
      BY <1>5 DEF ReceiveGet
  <2>2. PICK request, verdict, snapshot :
          /\ request = Request("get", c)
          /\ verdict = IF Live(records[c]) THEN "ok" ELSE "notFound"
          /\ snapshot = records[c]
      OBVIOUS
  <2>3. Enter(r, request, verdict, snapshot)
      BY <2>1, <2>2
  <2>4. QED
      BY <2>2, <2>3, EnterReceives
<1>6. QED
    BY <1>1, <1>2, <1>3, <1>4, <1>5 DEF Receive

-----------------------------------------------------------------------------
\* A step is one handler's, or the process stops, or nothing happens.
Acts(r) == Received(r) \/ Wrote(r) \/ Audited(r) \/ Reloaded(r) \/ GaveUp(r)

LEMMA StepActs ==
    ASSUME Typed, [Next]_vars
    PROVE  (\E r \in Reqs : Acts(r)) \/ Crash \/ UNCHANGED vars
BY HandlerSteps, ReceiveSteps DEF Next, Quiescent, Acts

Untouched(q) ==
    phase'[q] = phase[q] /\ input'[q] = input[q] /\ current'[q] = current[q]

LEMMA OthersUntouched ==
    ASSUME Typed, NEW r \in Reqs, Acts(r), NEW q \in Reqs, q # r
    PROVE  Untouched(q)
<1>1. ASSUME NEW ph, NEW in, NEW old, Moves(r, ph, in, old) PROVE Untouched(q)
    BY <1>1 DEF Moves, Untouched, Typed, TypeOK
<1>2. CASE Received(r)
    BY <1>1, <1>2 DEF Received, Untouched, Typed, TypeOK
<1>3. CASE Wrote(r)
    BY <1>1, <1>3 DEF Wrote, Ends
<1>4. CASE Audited(r)
    BY <1>1, <1>4 DEF Audited, Ends
<1>5. CASE Reloaded(r)
    BY <1>1, <1>5 DEF Reloaded
<1>6. CASE GaveUp(r)
    BY <1>1, <1>6 DEF GaveUp, Ends
<1>7. QED
    BY <1>2, <1>3, <1>4, <1>5, <1>6 DEF Acts

\* A crash ends what it touches.
LEMMA CrashUntouched ==
    ASSUME Crash, NEW q \in Reqs
    PROVE  (phase'[q] = "lost" /\ input'[q] = NoInput) \/ Untouched(q)
BY DEF Crash, Untouched

LEMMA MovesHere ==
    ASSUME Typed, NEW r \in Reqs, NEW ph, NEW in, NEW old, Moves(r, ph, in, old)
    PROVE  phase'[r] = ph /\ input'[r] = in /\ current'[r] = old
BY DEF Moves, Typed, TypeOK

-----------------------------------------------------------------------------
(***************************************************************************)
(* Replies.  From its write on, the row holds a handler's change, or the   *)
(* version of the row has passed it.                                       *)
(***************************************************************************)
Includes(row, in) ==
    /\ row \in Record /\ row.version > in.expected
    /\ row.version = in.expected + 1 =>
         IF in.kind = "transition" THEN row.status = in.target
                                   ELSE row.data = in.data

Holds(row, ph, in, old) ==
    /\ (ph \in {"audit", "reload"} /\ in.kind \in {"update", "transition"}) =>
          Includes(row, in)
    /\ (ph = "audit" /\ in.kind = "create") => Includes(old, in)
    /\ (ph = "ok" /\ in # NoInput) => Includes(old, in)

RowOf(r) == records[input[r].code]

Replies == \A r \in Reqs : Holds(RowOf(r), phase[r], input[r], current[r])

LEMMA StaysIncluded ==
    ASSUME NEW in, in.expected \in Nat, NEW row, NEW new \in Record,
           Includes(row, in), Follows(new, row)
    PROVE  Includes(new, in)
BY DEF Includes, Follows, Record

LEMMA WrittenIsIncluded ==
    ASSUME Typed, NEW r \in Reqs, phase[r] \in {"write", "audit"},
           input[r].kind \in {"create", "update", "transition"},
           NEW row \in Record, row.status = Edited(r).status,
           row.data = Edited(r).data, row.version = Edited(r).version
    PROVE  Includes(row, input[r])
<1>1. /\ HandlerFacts(phase[r], input[r], current[r])
      /\ input[r].expected \in Nat
    BY WriterFacts
<1>2. /\ input[r].kind = "create" =>
           row.version = 1 /\ row.data = input[r].data /\ input[r].expected = 0
      /\ input[r].kind = "update" =>
           row.version = input[r].expected + 1 /\ row.data = input[r].data
      /\ input[r].kind = "transition" =>
           row.version = input[r].expected + 1 /\ row.status = input[r].target
    BY <1>1, EditedFits DEF HandlerFacts, InFlight
<1>3. QED
    BY <1>1, <1>2 DEF Includes

LEMMA InitReplies == Init => Replies
BY DEF Init, Replies, Holds

LEMMA OtherReplies ==
    ASSUME Typed, Replies, [Next]_vars, NEW q \in Reqs, Untouched(q)
    PROVE  Holds(RowOf(q), phase[q], input[q], current[q])'
<1>1. Holds(RowOf(q), phase[q], input[q], current[q])
    BY DEF Replies
<1>2. ASSUME phase[q] \in {"audit", "reload"}, input[q].kind \in {"update", "transition"}
      PROVE  Includes(RowOf(q)', input[q])
  <2>1. PICK in, c : in = input[q] /\ c = in.code
      OBVIOUS
  <2>2. in \in Input /\ c \in Codes /\ in.expected \in Nat
      BY <1>2, <2>1 DEF Typed, HandlersOK, HandlerFacts, InFlight, Input
  <2>3. Includes(records[c], in)
      BY <1>1, <1>2, <2>1 DEF Holds, RowOf
  <2>4. records'[c] \in Record /\ Follows(records'[c], records[c])
      BY <2>2, <2>3, RowsAdvance, NoRecordIsNoRow DEF Includes
  <2>5. Includes(records'[c], in)
      BY <2>2, <2>3, <2>4, StaysIncluded
  <2>6. QED
      BY <2>1, <2>5 DEF RowOf, Untouched
<1>3. QED
    BY <1>1, <1>2 DEF Holds, Untouched, Includes

LEMMA StepReplies == Typed /\ Replies /\ [Next]_vars => Replies'
<1> SUFFICES ASSUME Typed, Replies, [Next]_vars,
                    NEW q \in Reqs
             PROVE  Holds(RowOf(q), phase[q], input[q], current[q])'
    BY DEF Replies
<1>0. HandlerFacts(phase[q], input[q], current[q])
      /\ Holds(RowOf(q), phase[q], input[q], current[q])
    BY DEF Typed, HandlersOK, Replies
<1>1. CASE Untouched(q)
    BY <1>1, OtherReplies
<1>2. ASSUME input'[q] = NoInput, phase'[q] \in Outcomes \cup {"idle"}
      PROVE  Holds(RowOf(q), phase[q], input[q], current[q])'
    BY <1>2 DEF Holds, Outcomes
<1>3. CASE Received(q)
  <2>1. CASE phase'[q] = "write"
      BY <2>1 DEF Holds
  <2>2. CASE UNCHANGED input /\ phase'[q] \in {"ok", "rule", "notFound"}
    <3>1. input'[q] = NoInput
        BY <1>0, <1>3, <2>2 DEF HandlerFacts, Received
    <3>2. QED
        BY <1>2, <2>2, <3>1 DEF Outcomes
  <2>3. QED
      BY <1>3, <2>1, <2>2 DEF Received, Moves, Typed, TypeOK
<1>4. CASE Creates(q) /\ Moves(q, "audit", input[q], Edited(q))
  <2>1. phase[q] = "write" /\ input[q].kind = "create"
      BY <1>4, CreatesEffect
  <2>2. Edited(q) \in Record
      BY <2>1, EditedFits
  <2>3. Includes(Edited(q), input[q])
      BY <2>1, <2>2, WrittenIsIncluded
  <2>4. phase'[q] = "audit" /\ input'[q] = input[q] /\ current'[q] = Edited(q)
      BY <1>4, MovesHere
  <2>5. QED
      BY <2>1, <2>3, <2>4 DEF Holds, Includes
<1>5. CASE Writes(q) /\ Moves(q, "audit", input[q], current[q])
  <2>1. PICK c : c = input[q].code
      OBVIOUS
  <2>2. /\ phase[q] = "write" /\ input[q].kind \in {"update", "transition"}
        /\ Fits(records'[c], c)
        /\ records'[c].status = Edited(q).status /\ records'[c].data = Edited(q).data
        /\ records'[c].version = records[c].version + 1
        /\ records[c].version = input[q].expected
    <3>1. Writes(q)
        BY <1>5
    <3>2. /\ phase[q] = "write" /\ input[q].kind \in {"update", "transition"}
          /\ records[c].version = input[q].expected
        BY <2>1, <3>1, WritesNeeds
    <3>3. /\ Fits(records'[c], c) /\ records'[c].status = Edited(q).status
          /\ records'[c].data = Edited(q).data
        BY <2>1, <3>1, WritesEffect
    <3>4. Fits(records'[c], c) /\ records'[c].version = records[c].version + 1
        BY <2>1, <3>1, WritesEffect
    <3>5. QED
        BY <3>2, <3>3, <3>4
  <2>3. records'[c].version = Edited(q).version /\ records'[c] \in Record
      BY <2>2, EditedFits DEF Fits
  <2>4. Includes(records'[c], input[q])
    <3>1. PICK row \in Record : row = records'[c]
        BY <2>3
    <3>2. Includes(row, input[q])
        BY <2>2, <2>3, <3>1, WrittenIsIncluded
    <3>3. QED
        BY <3>1, <3>2
  <2>5. phase'[q] = "audit" /\ input'[q] = input[q] /\ current'[q] = current[q]
      BY <1>5, MovesHere
  <2>6. QED
      BY <2>1, <2>2, <2>4, <2>5 DEF Holds, Includes, RowOf
<1>6. CASE Marks(q) /\ Moves(q, "audit", input[q], current[q])
  <2>1. input[q].kind = "delete"
      BY <1>6, MarksEffect
  <2>2. phase'[q] = "audit" /\ input'[q] = input[q]
      BY <1>6, MovesHere
  <2>3. QED
      BY <2>1, <2>2 DEF Holds
<1>7. ASSUME NEW outcomes \in SUBSET Outcomes, Ends(q, outcomes)
      PROVE  Holds(RowOf(q), phase[q], input[q], current[q])'
    BY <1>2, <1>7, MovesHere DEF Ends
<1>8. CASE Audited(q)
  <2>1. phase[q] = "audit" /\ UNCHANGED records
      BY <1>8 DEF Audited
  <2>2. CASE input[q].kind = "create" /\ Moves(q, "ok", input[q], current[q])
    <3>1. phase'[q] = "ok" /\ input'[q] = input[q] /\ current'[q] = current[q]
        BY <2>2, MovesHere
    <3>2. QED
        BY <1>0, <2>1, <2>2, <3>1 DEF Holds, Includes
  <2>3. CASE /\ input[q].kind \in {"update", "transition"}
             /\ Moves(q, "reload", input[q], current[q])
    <3>1. phase'[q] = "reload" /\ input'[q] = input[q]
        BY <2>3, MovesHere
    <3>2. RowOf(q)' = RowOf(q)
        BY <2>1, <3>1 DEF RowOf
    <3>3. QED
        BY <1>0, <2>1, <2>3, <3>1, <3>2 DEF Holds, Includes
  <2>4. QED
      BY <1>7, <1>8, <2>2, <2>3 DEF Audited, Outcomes
<1>9. CASE Reloaded(q)
  <2>1. phase[q] = "reload" /\ input[q].kind \in {"update", "transition"}
      BY <1>0, <1>9 DEF Reloaded, HandlerFacts
  <2>2. Includes(RowOf(q), input[q])
      BY <1>0, <2>1 DEF Holds
  <2>3. phase'[q] = "ok" /\ input'[q] = input[q] /\ current'[q] = RowOf(q)
      BY <1>9, MovesHere DEF Reloaded, RowOf
  <2>4. QED
      BY <2>2, <2>3 DEF Holds, Includes
<1>10. CASE GaveUp(q)
    BY <1>7, <1>10 DEF GaveUp
<1>11. CASE Acts(q)
  <2>1. Ends(q, {"internal"}) => Holds(RowOf(q), phase[q], input[q], current[q])'
      BY <1>7 DEF Outcomes
  <2>2. QED
      BY <1>3, <1>4, <1>5, <1>6, <1>8, <1>9, <1>10, <1>11, <2>1 DEF Acts, Wrote
<1>12. CASE Crash
    BY <1>1, <1>2, <1>12, CrashUntouched DEF Outcomes
<1>13. CASE UNCHANGED vars
    BY <1>1, <1>13 DEF vars, Untouched
<1>14. QED
  <2>1. ASSUME NEW r \in Reqs, Acts(r), r # q PROVE Untouched(q)
      BY <2>1, OthersUntouched
  <2>2. QED
      BY <1>1, <1>11, <1>12, <1>13, <2>1, StepActs

\* A client that is told its change succeeded sees it in the reply, or a later
\* version, whoever wrote in between.
THEOREM RepliesIncludeTheChange == Spec => []ReplyIncludesChange
<1>1. Spec => []Typed
    BY InitIsTyped, StepIsTyped, PTL DEF Spec
<1>2. Spec => []Replies
    BY <1>1, InitReplies, StepReplies, PTL DEF Spec
<1>3. Replies => ReplyIncludesChange
  <2> SUFFICES ASSUME Replies, NEW r \in Reqs, phase[r] = "ok", input[r] # NoInput
               PROVE  LET in == input[r]
                          row == current[r]
                      IN  /\ row.version > in.expected
                          /\ row.version = in.expected + 1 =>
                               CASE in.kind = "transition" -> row.status = in.target
                                 [] OTHER                  -> row.data = in.data
      BY DEF ReplyIncludesChange
  <2>1. Includes(current[r], input[r])
      BY DEF Replies, Holds
  <2>2. QED
      BY <2>1 DEF Includes
<1>4. QED
    BY <1>2, <1>3, PTL

-----------------------------------------------------------------------------
(***************************************************************************)
(* Snapshots.  Until its write, the row of a handler follows its snapshot. *)
(***************************************************************************)
Holding(r) == phase[r] = "write" /\ input[r].kind # "create"

IsSnapshotOf(old, in, row) ==
    Follows(row, old) /\ in.expected <= old.version + Lookahead

Snapshots ==
    \A r \in Reqs : Holding(r) => IsSnapshotOf(current[r], input[r], RowOf(r))

LEMMA InitSnapshots == Init => Snapshots
BY DEF Init, Snapshots, Holding

LEMMA HolderFacts ==
    ASSUME Typed, NEW r \in Reqs, Holding(r)
    PROVE  /\ input[r].code \in Codes /\ input[r].expected \in Nat
           /\ current[r] \in Record
BY WriterFacts DEF Holding, HandlerFacts, Fits

LEMMA StepSnapshots == Typed /\ Snapshots /\ [Next]_vars => Snapshots'
<1> SUFFICES ASSUME Typed, Snapshots, [Next]_vars, NEW q \in Reqs, Holding(q)'
             PROVE  IsSnapshotOf(current[q], input[q], RowOf(q))'
    BY DEF Snapshots
<1>0. phase'[q] = "write" /\ input'[q].kind # "create"
    BY DEF Holding
<1>1. CASE Untouched(q)
  <2>1. Holding(q) /\ IsSnapshotOf(current[q], input[q], RowOf(q))
      BY <1>0, <1>1 DEF Untouched, Holding, Snapshots
  <2>2. PICK in, old, c : in = input[q] /\ old = current[q] /\ c = in.code
      OBVIOUS
  <2>3. c \in Codes /\ old \in Record /\ in.expected \in Nat
      BY <2>1, <2>2, HolderFacts
  <2>4. Follows(records[c], old) /\ in.expected <= old.version + Lookahead
      BY <2>1, <2>2 DEF IsSnapshotOf, RowOf
  <2>5. /\ records[c] \in Record /\ records'[c] \in Record
        /\ Follows(records'[c], records[c])
      BY <2>3, <2>4, RowsAdvance DEF Follows
  <2>6. PICK row, new : row = records[c] /\ new = records'[c]
      OBVIOUS
  <2>7. Follows(new, old)
      BY <2>3, <2>4, <2>5, <2>6, FollowsIsTransitive
  <2>8. IsSnapshotOf(old, in, new)
      BY <2>4, <2>7 DEF IsSnapshotOf
  <2>9. QED
      BY <1>1, <2>2, <2>6, <2>8 DEF Untouched, RowOf, IsSnapshotOf, Follows
<1>2. CASE Received(q)
  <2>1. PICK request, snapshot :
          /\ Moves(q, "write", request, snapshot)
          /\ request.kind # "create" => JustRead(request, snapshot)
      BY <1>0, <1>2 DEF Received, Typed, TypeOK
  <2>2. input'[q] = request /\ current'[q] = snapshot
      BY <2>1, MovesHere
  <2>3. JustRead(request, snapshot) /\ UNCHANGED records
      BY <1>0, <1>2, <2>1, <2>2 DEF Received
  <2>4. /\ snapshot = records[request.code] /\ snapshot # NoRecord
        /\ snapshot \in Record /\ request.expected <= snapshot.version + Lookahead
      BY <2>3 DEF JustRead, Live, Typed, TypeOK
  <2>5. Follows(snapshot, snapshot)
      BY <2>4 DEF Follows, Record
  <2>6. RowOf(q)' = snapshot
      BY <2>2, <2>3, <2>4 DEF RowOf
  <2>7. QED
      BY <2>2, <2>4, <2>5, <2>6 DEF IsSnapshotOf, Follows
<1>3. CASE Wrote(q) \/ Audited(q) \/ Reloaded(q) \/ GaveUp(q)
  <2>1. PICK ph, in, old :
          Moves(q, ph, in, old) /\ ph \in {"audit", "reload"} \cup Outcomes
      BY <1>3 DEF Wrote, Audited, Reloaded, GaveUp, Ends, Outcomes
  <2>2. phase'[q] \in {"audit", "reload"} \cup Outcomes
      BY <2>1, MovesHere
  <2>3. QED
      BY <1>0, <2>2 DEF Outcomes
<1>4. CASE Crash
    BY <1>0, <1>1, <1>4, CrashUntouched
<1>5. CASE UNCHANGED vars
    BY <1>1, <1>5 DEF vars, Untouched
<1>6. QED
  <2>1. ASSUME NEW r \in Reqs, Acts(r), r # q PROVE Untouched(q)
      BY <2>1, OthersUntouched
  <2>2. QED
      BY <1>1, <1>2, <1>3, <1>4, <1>5, <2>1, StepActs DEF Acts

LEMMA InitRows == Init => Typed /\ Snapshots
BY InitIsTyped, InitSnapshots

LEMMA StepRows == Typed /\ Snapshots /\ [Next]_vars => (Typed /\ Snapshots)'
BY StepIsTyped, StepSnapshots

\* With versions a record has had, a write that matches finds the row its
\* handler read.
LEMMA SnapshotIsCurrent ==
    ASSUME Lookahead = 0, Typed, Snapshots, NEW r \in Reqs, Writes(r),
           NEW c, c = input[r].code
    PROVE  records[c].status = current[r].status /\ records[c].data = current[r].data
<1>1. /\ c \in Codes /\ records[c] \in Record /\ Holding(r)
      /\ records[c].version = input[r].expected
    BY WritesEffect DEF Holding
<1>2. current[r] \in Record /\ IsSnapshotOf(current[r], input[r], records[c])
    BY <1>1, HolderFacts DEF Snapshots, RowOf
<1>3. /\ records[c].version >= current[r].version
      /\ records[c].version <= current[r].version + 0
      /\ records[c].version \in Nat /\ current[r].version \in Nat
    BY <1>1, <1>2 DEF IsSnapshotOf, Follows, Record
<1>4. records[c].version = current[r].version
    BY <1>3
<1>5. QED
    BY <1>2, <1>4 DEF IsSnapshotOf, Follows

\* What a write does to the row, then: an edit changes the data alone, a
\* transition takes the status one step along the graph.
LEMMA WriteIsEditOrMove ==
    ASSUME Lookahead = 0, Typed, Snapshots, NEW r \in Reqs, Writes(r),
           NEW c, c = input[r].code
    PROVE  \/ /\ input[r].kind = "update" /\ input[r].data \in Data
              /\ records'[c].data = input[r].data
              /\ records'[c].status = records[c].status
           \/ /\ input[r].kind = "transition"
              /\ input[r].target \in DOMAIN Graph(c)
              /\ CanTransition(Graph(c), records[c].status, input[r].target)
              /\ records'[c].status = input[r].target
              /\ records'[c].data = records[c].data
<1>1. /\ phase[r] = "write" /\ input[r].kind \in {"update", "transition"}
      /\ records'[c].status = Edited(r).status /\ records'[c].data = Edited(r).data
    BY WritesEffect
<1>2. HandlerFacts(phase[r], input[r], current[r])
    BY <1>1, WriterFacts
<1>3. records[c].status = current[r].status /\ records[c].data = current[r].data
    BY SnapshotIsCurrent
<1>4. QED
    BY <1>1, <1>2, <1>3, EditedFits DEF HandlerFacts

\* No edit brings an old status back: the status of a record only changes
\* along its graph, however the handlers interleave.
THEOREM StatusesFollowTheGraph ==
    ASSUME Lookahead = 0
    PROVE  Spec => StatusFollowsGraph
<1> DEFINE Follow(c) ==
      (records[c] # NoRecord /\ records'[c].status # records[c].status) =>
         CanTransition(Graph(c), records[c].status, records'[c].status)
<1>1. ASSUME Typed, Snapshots, [Next]_vars, NEW c \in Codes PROVE Follow(c)
  <2>1. ASSUME NEW r \in Reqs, Creates(r) PROVE Follow(c)
    <3>1. PICK d : d = input[r].code
        OBVIOUS
    <3>2. records[d] = NoRecord /\ \A e \in Codes \ {d} : records'[e] = records[e]
        BY <2>1, <3>1, <1>1, CreatesEffect
    <3>3. QED
        BY <3>2
  <2>2. ASSUME NEW r \in Reqs, Writes(r) PROVE Follow(c)
    <3>1. PICK d : d = input[r].code
        OBVIOUS
    <3>2. Typed /\ Writes(r)
        BY <1>1, <2>2
    <3>3. /\ Fits(records'[d], d)
          /\ \A e \in Codes \ {d} : records'[e] = records[e]
        BY <3>1, <3>2, WritesEffect
    <3>4. \/ records'[d].status = records[d].status
          \/ CanTransition(Graph(d), records[d].status, records'[d].status)
        BY <2>2, <3>1, <1>1, WriteIsEditOrMove
    <3>5. QED
        BY <3>3, <3>4
  <2>3. ASSUME NEW r \in Reqs, Marks(r) PROVE Follow(c)
    <3>1. PICK d : d = input[r].code
        OBVIOUS
    <3>2. /\ \A e \in Codes \ {d} : records'[e] = records[e]
          /\ records'[d].status = records[d].status
        BY <2>3, <3>1, <1>1, MarksEffect
    <3>3. QED
        BY <3>2
  <2>4. QED
      BY <1>1, <2>1, <2>2, <2>3, RowsUntouched
<1>2. Typed /\ Snapshots /\ [Next]_vars => [\A c \in Codes : Follow(c)]_vars
    BY <1>1
<1>3. QED
    BY <1>2, InitRows, StepRows, PTL DEF Spec, StatusFollowsGraph

-----------------------------------------------------------------------------
(***************************************************************************)
(* The register: a creation opens a record, a write edits or moves it, a   *)
(* delete withdraws it.                                                    *)
(***************************************************************************)
Withdrawn == {c \in Codes : records[c] # NoRecord /\ records[c].deleted}

\* An entry of the register, as the mapping takes it from a row.
EntryOf(row) == IF row = NoRecord THEN NoRecord
                ELSE [status |-> row.status, data |-> row.data]

LEMMA EntryIsPresent ==
    ASSUME NEW row \in Record
    PROVE  EntryOf(row) = [status |-> row.status, data |-> row.data]
           /\ EntryOf(row) # NoRecord
<1>1. EntryOf(row) = [status |-> row.status, data |-> row.data]
    BY NoRecordIsNoRow DEF EntryOf
<1>2. row.status \in Statuses /\ row.data \in Data
    BY DEF Record
<1>3. PICK s, d : s = row.status /\ d = row.data
    OBVIOUS
<1>4. [status |-> s, data |-> d] \in [status: Statuses, data: Data]
    BY <1>2, <1>3
<1>5. QED
    BY <1>1, <1>3, <1>4, NoRecordAssumption

LEMMA RegisterFacts ==
    ASSUME NEW rows \in [Codes -> Record \cup {NoRecord}]
    PROVE  /\ Register(rows) = [c \in Codes |-> EntryOf(rows[c])]
           /\ \A c \in Codes : Register(rows)[c] = EntryOf(rows[c])
BY DEF Register, EntryOf

\* One row changed: so did its entry, and no other.
LEMMA EntryChanges ==
    ASSUME NEW old \in [Codes -> Record \cup {NoRecord}],
           NEW new \in [Codes -> Record \cup {NoRecord}],
           NEW c \in Codes, \A d \in Codes \ {c} : new[d] = old[d]
    PROVE  Register(new) = [Register(old) EXCEPT ![c] = EntryOf(new[c])]
<1>1. PICK before, after, entry :
        before = Register(old) /\ after = Register(new) /\ entry = EntryOf(new[c])
    OBVIOUS
<1>2. /\ before = [d \in Codes |-> EntryOf(old[d])]
      /\ after = [d \in Codes |-> EntryOf(new[d])]
    BY <1>1, RegisterFacts
<1>3. /\ DOMAIN before = Codes /\ DOMAIN after = Codes
      /\ after[c] = entry /\ \A d \in Codes \ {c} : after[d] = before[d]
    BY <1>1, <1>2
<1>4. after = [before EXCEPT ![c] = entry]
    BY <1>2, <1>3
<1>5. QED
    BY <1>1, <1>4

LEMMA RegisterUnchanged ==
    ASSUME UNCHANGED records
    PROVE  UNCHANGED RR!registry
BY DEF RR!registry, Register

LEMMA CreateOpens ==
    ASSUME Typed, NEW r \in Reqs, Creates(r), NEW c, c = input[r].code
    PROVE  c \in Codes /\ RR!OpenRecord(c)
<1>1. /\ c \in Codes /\ records[c] = NoRecord
      /\ phase[r] = "write" /\ input[r].kind = "create"
      /\ records' \in [Codes -> Record \cup {NoRecord}] /\ records'[c] = Edited(r)
      /\ \A d \in Codes \ {c} : records'[d] = records[d]
    BY CreatesEffect
<1>2. PICK data, new :
        data = input[r].data /\ new = records'[c]
    OBVIOUS
<1>3. data \in Data
    BY <1>1, <1>2, WriterFacts DEF HandlerFacts
<1>4. new = [status |-> InitialStatus(c), version |-> 1, data |-> data,
             deleted |-> FALSE] /\ new \in Record
    BY <1>1, <1>2, EditedFits
<1>5. EntryOf(new) = [status |-> InitialStatus(c), data |-> data]
    BY <1>4, EntryIsPresent
<1>6. Register(records') = [Register(records) EXCEPT ![c] = EntryOf(new)]
  <2>1. records \in [Codes -> Record \cup {NoRecord}]
      BY DEF Typed, TypeOK
  <2>2. QED
      BY <1>1, <1>2, <2>1, EntryChanges
<1>7. Register(records)[c] = NoRecord
    BY <1>1, RegisterFacts DEF EntryOf, Typed, TypeOK
<1>8. UNCHANGED Withdrawn
  <2>1. \A d \in Codes \ {c} : records'[d] = records[d]
      BY <1>1
  <2>2. new.deleted = FALSE
      BY <1>4
  <2>3. QED
      BY <1>1, <1>2, <2>1, <2>2 DEF Withdrawn
<1>9. QED
    BY <1>1, <1>3, <1>5, <1>6, <1>7, <1>8 DEF RR!OpenRecord, Withdrawn

LEMMA RowIsKept ==
    ASSUME Typed, NEW c \in Codes, records[c] \in Record, ~records[c].deleted
    PROVE  RR!Kept(c)
<1>1. Register(records)[c] # NoRecord
    BY RegisterFacts, EntryIsPresent DEF Typed, TypeOK
<1>2. QED
    BY <1>1 DEF RR!Kept

LEMMA WriteEditsOrMoves ==
    ASSUME Lookahead = 0, Typed, Snapshots, NEW r \in Reqs, Writes(r),
           NEW c, c = input[r].code
    PROVE  c \in Codes /\ (RR!Edit(c) \/ RR!Move(c))
<1>1. /\ c \in Codes /\ records[c] \in Record /\ ~records[c].deleted
      /\ records' \in [Codes -> Record \cup {NoRecord}] /\ records'[c] \in Record
      /\ records'[c].deleted = FALSE
      /\ \A d \in Codes \ {c} : records'[d] = records[d]
    BY WritesEffect DEF Fits
<1>2. PICK old, new, in : old = records[c] /\ new = records'[c] /\ in = input[r]
    OBVIOUS
<1>3. old \in Record /\ new \in Record
    BY <1>1, <1>2
<1>4. /\ EntryOf(old) = [status |-> old.status, data |-> old.data]
      /\ EntryOf(new) = [status |-> new.status, data |-> new.data]
    BY <1>3, EntryIsPresent
<1>5. records \in [Codes -> Record \cup {NoRecord}]
    BY DEF Typed, TypeOK
<1>6. /\ Register(records') = [Register(records) EXCEPT ![c] = EntryOf(new)]
      /\ Register(records)[c] = EntryOf(old)
      /\ DOMAIN Register(records) = Codes
    BY <1>1, <1>2, <1>5, EntryChanges, RegisterFacts
<1>7. RR!Kept(c)
    BY <1>1, RowIsKept
<1>8. UNCHANGED Withdrawn
    BY <1>1, NoRecordIsNoRow DEF Withdrawn
<1>9. CASE /\ in.data \in Data /\ new.data = in.data /\ new.status = old.status
  <2>1. EntryOf(new) = [EntryOf(old) EXCEPT !.data = in.data]
      BY <1>4, <1>9
  <2>2. Register(records') = [Register(records) EXCEPT ![c].data = in.data]
      BY <1>1, <1>6, <2>1
  <2>3. QED
      BY <1>1, <1>7, <1>8, <1>9, <2>2 DEF RR!Edit, Withdrawn
<1>10. CASE /\ in.target \in DOMAIN Graph(c)
            /\ CanTransition(Graph(c), old.status, in.target)
            /\ new.status = in.target /\ new.data = old.data
  <2>1. EntryOf(new) = [EntryOf(old) EXCEPT !.status = in.target]
      BY <1>4, <1>10
  <2>2. Register(records') = [Register(records) EXCEPT ![c].status = in.target]
      BY <1>1, <1>6, <2>1
  <2>3. Register(records)[c].status = old.status
      BY <1>4, <1>6
  <2>4. QED
      BY <1>1, <1>7, <1>8, <1>10, <2>2, <2>3
         DEF RR!Move, Withdrawn, RR!CanTransition, CanTransition
<1>11. QED
    BY <1>2, <1>9, <1>10, WriteIsEditOrMove

LEMMA MarkWithdraws ==
    ASSUME Typed, NEW r \in Reqs, Marks(r), NEW c, c = input[r].code
    PROVE  c \in Codes /\ RR!Withdraw(c)
<1>1. /\ c \in Codes /\ records[c] \in Record /\ ~records[c].deleted
      /\ records' \in [Codes -> Record \cup {NoRecord}] /\ records'[c] \in Record
      /\ records'[c].status = records[c].status /\ records'[c].data = records[c].data
      /\ records'[c].deleted
      /\ \A d \in Codes \ {c} : records'[d] = records[d]
    BY MarksEffect DEF Fits
<1>2. RR!Kept(c)
    BY <1>1, RowIsKept
<1>3. Withdrawn' = Withdrawn \cup {c}
    BY <1>1, NoRecordIsNoRow DEF Withdrawn
<1>4. UNCHANGED Register(records)
  <2>1. EntryOf(records'[c]) = EntryOf(records[c])
    <3>1. PICK old \in Record, new \in Record : old = records[c] /\ new = records'[c]
        BY <1>1
    <3>2. QED
        BY <1>1, <3>1, EntryIsPresent
  <2>2. records \in [Codes -> Record \cup {NoRecord}]
      BY DEF Typed, TypeOK
  <2>3. Register(records') = [d \in Codes |-> EntryOf(records'[d])]
        /\ Register(records) = [d \in Codes |-> EntryOf(records[d])]
      BY <1>1, <2>2, RegisterFacts
  <2>4. \A d \in Codes : EntryOf(records'[d]) = EntryOf(records[d])
      BY <1>1, <2>1
  <2>5. QED
      BY <2>3, <2>4
<1>5. QED
    BY <1>1, <1>2, <1>3, <1>4 DEF RR!Withdraw, Withdrawn

LEMMA StepIsRegisterStep ==
    ASSUME Lookahead = 0, Typed, Snapshots, [Next]_vars
    PROVE  [RR!RegisterNext]_(RR!registry)
<1>1. ASSUME NEW r \in Reqs, Creates(r) PROVE RR!RegisterNext
  <2>1. PICK c : c = input[r].code
      OBVIOUS
  <2>2. QED
      BY <1>1, <2>1, CreateOpens DEF RR!RegisterNext
<1>2. ASSUME NEW r \in Reqs, Writes(r) PROVE RR!RegisterNext
  <2>1. PICK c : c = input[r].code
      OBVIOUS
  <2>2. QED
      BY <1>2, <2>1, WriteEditsOrMoves DEF RR!RegisterNext
<1>3. ASSUME NEW r \in Reqs, Marks(r) PROVE RR!RegisterNext
  <2>1. PICK c : c = input[r].code
      OBVIOUS
  <2>2. QED
      BY <1>3, <2>1, MarkWithdraws DEF RR!RegisterNext
<1>4. QED
    BY <1>1, <1>2, <1>3, RowsUntouched, RegisterUnchanged

LEMMA InitIsRegisterInit == Init => RR!RegisterInit
<1> SUFFICES ASSUME Init PROVE RR!RegisterInit
    OBVIOUS
<1>1. Withdrawn = {}
    BY DEF Init, Withdrawn, SeedRow
<1>2. QED
    BY <1>1 DEF Init, RR!RegisterInit, Withdrawn

\* The services do to their tables what the register does, one record at a
\* time (service/bridge_asset.go and its siblings over repository/base.go), when
\* clients send only versions a record has had.
THEOREM ServicesImplementRegister ==
    ASSUME Lookahead = 0
    PROVE  Spec => ImplementsRegister
<1>1. Typed /\ Snapshots /\ [Next]_vars => [RR!RegisterNext]_(RR!registry)
    BY StepIsRegisterStep
<1>2. QED
    BY <1>1, InitIsRegisterInit, InitRows, StepRows, PTL
       DEF Spec, ImplementsRegister, RR!RegisterSpec

-----------------------------------------------------------------------------
(***************************************************************************)
(* The audit trail.  The trail of a record is what is logged of its        *)
(* transitions and what their handlers are about to log.  As long as no    *)
(* request broke off it balances: every status is left as often as it is   *)
(* entered, but for the first status and the present one.                  *)
(***************************************************************************)
Logged(c) == {a \in audits : a.code = c /\ a.action = "transition"}

Unlogged(c) == {r \in Reqs : /\ phase[r] = "audit" /\ input[r].kind = "transition"
                             /\ input[r].code = c}

Trail(c) == Logged(c) \cup {AuditEntry(r) : r \in Unlogged(c)}

Into(S, s) == {a \in S : a.after = s}
OutOf(S, s) == {a \in S : a.before = s}
One(b) == IF b THEN 1 ELSE 0

Balanced(S, first, last) ==
    /\ IsFiniteSet(S)
    /\ \A s \in Statuses : Cardinality(Into(S, s)) + One(first = s)
                             = Cardinality(OutOf(S, s)) + One(last = s)

Unbroken == \A r \in Reqs : phase[r] \notin {"internal", "lost"}

Walked(c) ==
    IF records[c] = NoRecord THEN Trail(c) = {}
    ELSE Balanced(Trail(c), InitialStatusOfRecord(c), records[c].status)

SeedsAreKept == \A c \in DOMAIN SeedStatus : records[c] # NoRecord

\* An entry is logged once the write of its request is past.
EntriesArePast == \A a \in audits : phase[a.request] \notin {"idle", "write", "audit"}

Trails == /\ SeedsAreKept /\ EntriesArePast
          /\ Unbroken => \A c \in Codes : Walked(c)

LEMMA FiniteParts ==
    ASSUME NEW S, IsFiniteSet(S), NEW s
    PROVE  /\ IsFiniteSet(Into(S, s)) /\ Cardinality(Into(S, s)) \in Nat
           /\ IsFiniteSet(OutOf(S, s)) /\ Cardinality(OutOf(S, s)) \in Nat
<1>1. Into(S, s) \subseteq S /\ OutOf(S, s) \subseteq S
    BY DEF Into, OutOf
<1>2. IsFiniteSet(Into(S, s)) /\ IsFiniteSet(OutOf(S, s))
    BY <1>1, FS_Subset
<1>3. QED
    BY <1>2, FS_CardinalityType

LEMMA EmptyIsBalanced ==
    ASSUME NEW status
    PROVE  Balanced({}, status, status)
<1>1. \A s : Into({}, s) = {} /\ OutOf({}, s) = {}
    BY DEF Into, OutOf
<1>2. IsFiniteSet({}) /\ Cardinality({}) = 0
    BY FS_EmptySet
<1>3. QED
    BY <1>1, <1>2 DEF Balanced

\* One more step of the walk keeps the balance.
LEMMA StepIsBalanced ==
    ASSUME NEW S, NEW first, NEW last, Balanced(S, first, last),
           NEW a, a \notin S, a.before = last
    PROVE  Balanced(S \cup {a}, first, a.after)
<1>1. IsFiniteSet(S) /\ IsFiniteSet(S \cup {a})
    BY FS_AddElement DEF Balanced
<1>2. ASSUME NEW s \in Statuses
      PROVE  Cardinality(Into(S \cup {a}, s)) + One(first = s)
               = Cardinality(OutOf(S \cup {a}, s)) + One(a.after = s)
  <2>1. PICK in, out : in = Into(S, s) /\ out = OutOf(S, s)
      OBVIOUS
  <2>2. /\ IsFiniteSet(in) /\ Cardinality(in) \in Nat
        /\ IsFiniteSet(out) /\ Cardinality(out) \in Nat
      BY <1>1, <2>1, FiniteParts
  <2>3. /\ a \notin in /\ a \notin out
        /\ Into(S \cup {a}, s) = IF a.after = s THEN in \cup {a} ELSE in
        /\ OutOf(S \cup {a}, s) = IF last = s THEN out \cup {a} ELSE out
      BY <2>1 DEF Into, OutOf
  <2>4. /\ Cardinality(in \cup {a}) = Cardinality(in) + 1
        /\ Cardinality(out \cup {a}) = Cardinality(out) + 1
      BY <2>2, <2>3, FS_AddElement
  <2>5. /\ Cardinality(Into(S \cup {a}, s)) = Cardinality(in) + One(a.after = s)
        /\ Cardinality(OutOf(S \cup {a}, s)) = Cardinality(out) + One(last = s)
      BY <2>2, <2>3, <2>4 DEF One
  <2>6. Cardinality(in) + One(first = s) = Cardinality(out) + One(last = s)
      BY <2>1 DEF Balanced
  <2>7. One(first = s) \in Nat /\ One(last = s) \in Nat /\ One(a.after = s) \in Nat
      BY DEF One
  <2>8. QED
      BY <2>2, <2>5, <2>6, <2>7
<1>3. QED
    BY <1>1, <1>2 DEF Balanced

LEMMA EntryIsFixed ==
    ASSUME NEW q \in Reqs, input'[q] = input[q], current'[q] = current[q]
    PROVE  AuditEntry(q)' = AuditEntry(q)
BY DEF AuditEntry, Edited

\* The three ways a handler's step bears on a trail.
LEMMA TrailIsKept ==
    ASSUME Typed, NEW r \in Reqs, NEW c \in Codes, Acts(r),
           r \notin Unlogged(c), r \notin Unlogged(c)', UNCHANGED Logged(c)
    PROVE  UNCHANGED Trail(c)
<1>1. \A q \in Reqs \ {r} : Untouched(q)
    BY OthersUntouched
<1>2. Unlogged(c)' = Unlogged(c)
    BY <1>1 DEF Unlogged, Untouched
<1>3. \A q \in Unlogged(c) : AuditEntry(q)' = AuditEntry(q)
    BY <1>1, EntryIsFixed DEF Unlogged, Untouched
<1>4. QED
    BY <1>2, <1>3 DEF Trail

LEMMA TrailIsLogged ==
    ASSUME Typed, NEW r \in Reqs, NEW c \in Codes, Acts(r),
           r \in Unlogged(c), r \notin Unlogged(c)', Entered(r)
    PROVE  UNCHANGED Trail(c)
<1>1. \A q \in Reqs \ {r} : Untouched(q)
    BY OthersUntouched
<1>2. Unlogged(c)' = Unlogged(c) \ {r}
    BY <1>1 DEF Unlogged, Untouched
<1>3. \A q \in Unlogged(c) \ {r} : AuditEntry(q)' = AuditEntry(q)
    BY <1>1, EntryIsFixed DEF Unlogged, Untouched
<1>4. AuditEntry(r).code = c /\ AuditEntry(r).action = "transition"
    BY DEF Unlogged, AuditEntry
<1>5. Logged(c)' = Logged(c) \cup {AuditEntry(r)}
    BY <1>4 DEF Logged, Entered
<1>6. QED
    BY <1>2, <1>3, <1>5 DEF Trail

LEMMA TrailGrows ==
    ASSUME Typed, NEW r \in Reqs, NEW c \in Codes, Acts(r), UNCHANGED audits,
           r \notin Unlogged(c), r \in Unlogged(c)',
           input'[r] = input[r], current'[r] = current[r]
    PROVE  Trail(c)' = Trail(c) \cup {AuditEntry(r)}
<1>1. \A q \in Reqs \ {r} : Untouched(q)
    BY OthersUntouched
<1>2. Unlogged(c)' = Unlogged(c) \cup {r}
    BY <1>1 DEF Unlogged, Untouched
<1>3. \A q \in Unlogged(c) \cup {r} : AuditEntry(q)' = AuditEntry(q)
    BY <1>1, EntryIsFixed DEF Unlogged, Untouched
<1>4. Logged(c)' = Logged(c)
    BY DEF Logged
<1>5. QED
    BY <1>2, <1>3, <1>4 DEF Trail

\* The transition that writes a row, and every other step.
WritesMove(r) == Writes(r) /\ input[r].kind = "transition"

LEMMA MoveGrowsTrail ==
    ASSUME Typed, NEW r \in Reqs, WritesMove(r),
           Moves(r, "audit", input[r], current[r]), NEW c \in Codes
    PROVE  Trail(c)' = IF c = input[r].code THEN Trail(c) \cup {AuditEntry(r)}
                                            ELSE Trail(c)
<1>1. phase[r] = "write" /\ UNCHANGED audits
  <2>1. PICK d : d = input[r].code
      OBVIOUS
  <2>2. QED
      BY <2>1, WritesEffect DEF WritesMove
<1>2. phase'[r] = "audit" /\ input'[r] = input[r] /\ current'[r] = current[r]
    BY MovesHere
<1>3. Acts(r)
    BY DEF Acts, Wrote, WritesMove
<1>4. r \notin Unlogged(c) /\ UNCHANGED Logged(c)
    BY <1>1 DEF Unlogged, Logged
<1>5. CASE c = input[r].code
  <2>1. r \in Unlogged(c)'
      BY <1>2, <1>5 DEF Unlogged, WritesMove
  <2>2. QED
      BY <1>1, <1>2, <1>3, <1>4, <1>5, <2>1, TrailGrows
<1>6. CASE c # input[r].code
  <2>1. r \notin Unlogged(c)'
      BY <1>2, <1>6 DEF Unlogged
  <2>2. QED
      BY <1>3, <1>4, <1>6, <2>1, TrailIsKept
<1>7. QED
    BY <1>5, <1>6

LEMMA OthersKeepTrail ==
    ASSUME Typed, NEW r \in Reqs, Acts(r), Unbroken', NEW c \in Codes
    PROVE  \/ UNCHANGED Trail(c)
           \/ WritesMove(r) /\ Moves(r, "audit", input[r], current[r])
<1>1. ASSUME phase[r] # "audit", phase'[r] # "audit", UNCHANGED audits
      PROVE  UNCHANGED Trail(c)
    BY <1>1, TrailIsKept DEF Unlogged, Logged
<1>2. CASE Received(r)
  <2>1. /\ phase[r] = "idle" /\ UNCHANGED audits
        /\ phase'[r] \in {"write", "ok", "rule", "notFound"}
      BY <1>2 DEF Received, Moves, Typed, TypeOK
  <2>2. QED
      BY <1>1, <2>1
<1>3. ASSUME NEW in, NEW old, Moves(r, "audit", in, old), in = input[r],
             phase[r] = "write", input[r].kind # "transition", UNCHANGED audits
      PROVE  UNCHANGED Trail(c)
  <2>1. input'[r] = input[r]
      BY <1>3, MovesHere
  <2>2. r \notin Unlogged(c) /\ r \notin Unlogged(c)' /\ UNCHANGED Logged(c)
      BY <1>3, <2>1 DEF Unlogged, Logged
  <2>3. QED
      BY <2>2, TrailIsKept
<1>4. CASE Wrote(r) /\ ~(WritesMove(r) /\ Moves(r, "audit", input[r], current[r]))
  <2>1. PICK d : d = input[r].code
      OBVIOUS
  <2>2. CASE Creates(r) /\ Moves(r, "audit", input[r], Edited(r))
    <3>1. phase[r] = "write" /\ input[r].kind = "create" /\ UNCHANGED audits
        BY <2>1, <2>2, CreatesEffect
    <3>2. QED
        BY <1>3, <2>2, <3>1
  <2>3. CASE Writes(r) /\ Moves(r, "audit", input[r], current[r])
    <3>1. phase[r] = "write" /\ UNCHANGED audits
        BY <2>1, <2>3, WritesEffect
    <3>2. QED
        BY <1>3, <1>4, <2>3, <3>1 DEF WritesMove
  <2>4. CASE Marks(r) /\ Moves(r, "audit", input[r], current[r])
    <3>1. phase[r] = "write" /\ input[r].kind = "delete" /\ UNCHANGED audits
        BY <2>1, <2>4, MarksEffect
    <3>2. QED
        BY <1>3, <2>4, <3>1
  <2>5. CASE Ends(r, {"internal"})
    <3>1. phase'[r] = "internal"
        BY <2>5, MovesHere DEF Ends
    <3>2. QED
        BY <3>1 DEF Unbroken
  <2>6. QED
      BY <1>4, <2>2, <2>3, <2>4, <2>5 DEF Wrote
<1>5. CASE Audited(r)
  <2>1. phase[r] = "audit" /\ (Entered(r) \/ UNCHANGED audits)
      BY <1>5 DEF Audited
  <2>2. phase'[r] \in {"ok", "reload", "internal"}
      BY <1>5, MovesHere DEF Audited, Ends
  <2>3. phase'[r] # "internal"
      BY DEF Unbroken
  <2>4. r \notin Unlogged(c)'
      BY <2>2 DEF Unlogged
  <2>5. CASE input[r].kind = "transition" /\ Entered(r)
    <3>1. CASE input[r].code = c
      <4>1. r \in Unlogged(c)
          BY <2>1, <2>5, <3>1 DEF Unlogged
      <4>2. QED
          BY <2>4, <2>5, <4>1, TrailIsLogged
    <3>2. CASE input[r].code # c
      <4>1. AuditEntry(r).code # c
          BY <3>2 DEF AuditEntry
      <4>2. UNCHANGED Logged(c)
          BY <2>5, <4>1 DEF Logged, Entered
      <4>3. r \notin Unlogged(c)
          BY <3>2 DEF Unlogged
      <4>4. QED
          BY <2>4, <4>2, <4>3, TrailIsKept
    <3>3. QED
        BY <3>1, <3>2
  <2>6. CASE input[r].kind # "transition"
    <3>1. AuditEntry(r).action # "transition"
        BY <2>6 DEF AuditEntry
    <3>2. UNCHANGED Logged(c)
        BY <2>1, <3>1 DEF Logged, Entered
    <3>3. r \notin Unlogged(c)
        BY <2>6 DEF Unlogged
    <3>4. QED
        BY <2>4, <3>2, <3>3, TrailIsKept
  <2>7. CASE input[r].kind = "transition" /\ ~Entered(r)
    <3>1. phase'[r] = "internal"
        BY <1>5, <2>7, MovesHere DEF Audited, Ends
    <3>2. QED
        BY <2>3, <3>1
  <2>8. QED
      BY <2>5, <2>6, <2>7
<1>6. CASE Reloaded(r)
  <2>1. phase[r] = "reload" /\ phase'[r] = "ok" /\ UNCHANGED audits
      BY <1>6, MovesHere DEF Reloaded
  <2>2. QED
      BY <1>1, <2>1
<1>7. CASE GaveUp(r)
  <2>1. phase[r] # "audit" /\ phase'[r] # "audit" /\ UNCHANGED audits
      BY <1>7, MovesHere DEF GaveUp, Ends, Outcomes
  <2>2. QED
      BY <1>1, <2>1
<1>8. QED
    BY <1>2, <1>4, <1>5, <1>6, <1>7 DEF Acts

LEMMA WritersLogNothing ==
    ASSUME Typed, NEW r \in Reqs, Wrote(r)
    PROVE  phase[r] = "write" /\ UNCHANGED audits
<1>1. PICK c : c = input[r].code
    OBVIOUS
<1>2. CASE Creates(r)
    BY <1>1, <1>2, CreatesEffect
<1>3. CASE Writes(r)
    BY <1>1, <1>3, WritesEffect
<1>4. CASE Marks(r)
    BY <1>1, <1>4, MarksEffect
<1>5. QED
    BY <1>2, <1>3, <1>4 DEF Wrote

LEMMA ActsInFlight ==
    ASSUME Typed, NEW r \in Reqs, Acts(r)
    PROVE  phase[r] \in {"idle", "write", "audit", "reload"}
<1>1. Wrote(r) => phase[r] = "write"
    BY WritersLogNothing
<1>2. QED
    BY <1>1 DEF Acts, Received, Audited, Reloaded, GaveUp

LEMMA StaysBroken ==
    ASSUME Typed, [Next]_vars, Unbroken'
    PROVE  Unbroken /\ ((\E r \in Reqs : Acts(r)) \/ UNCHANGED vars)
<1>1. ~Crash
  <2> SUFFICES ASSUME Crash PROVE FALSE
      OBVIOUS
  <2>1. PICK r \in Reqs : phase[r] \in InFlight
      BY DEF Crash
  <2>2. phase'[r] = "lost"
      BY <2>1 DEF Crash
  <2>3. QED
      BY <2>2 DEF Unbroken
<1>2. CASE UNCHANGED vars
    BY <1>2 DEF vars, Unbroken
<1>3. ASSUME NEW r \in Reqs, Acts(r) PROVE Unbroken
  <2>1. \A q \in Reqs \ {r} : phase'[q] = phase[q]
      BY <1>3, OthersUntouched DEF Untouched
  <2>2. phase[r] \notin {"internal", "lost"}
      BY <1>3, ActsInFlight
  <2>3. QED
      BY <2>1, <2>2 DEF Unbroken
<1>4. QED
    BY <1>1, <1>2, <1>3, StepActs

LEMMA StepEntriesArePast ==
    ASSUME Typed, EntriesArePast, [Next]_vars
    PROVE  EntriesArePast'
<1> SUFFICES ASSUME NEW a \in audits'
             PROVE  phase'[a.request] \notin {"idle", "write", "audit"}
    BY DEF EntriesArePast
<1>1. ASSUME NEW r \in Reqs, Entered(r), Audited(r), a = AuditEntry(r)
      PROVE  phase'[a.request] \notin {"idle", "write", "audit"}
  <2>1. phase'[r] \in {"ok", "reload", "internal"}
      BY <1>1, MovesHere DEF Audited, Ends
  <2>2. QED
      BY <1>1, <2>1 DEF AuditEntry
<1>2. ASSUME a \in audits
      PROVE  phase'[a.request] \notin {"idle", "write", "audit"}
  <2>1. PICK q \in Reqs : q = a.request /\ phase[q] \notin {"idle", "write", "audit"}
      BY <1>2 DEF EntriesArePast, Typed, TypeOK, AuditLog
  <2>2. CASE Untouched(q)
      BY <2>1, <2>2 DEF Untouched
  <2>3. CASE Acts(q)
    <3>1. Reloaded(q) \/ GaveUp(q)
      <4>1. ~Wrote(q)
          BY <2>1, WritersLogNothing
      <4>2. QED
          BY <2>1, <2>3, <4>1 DEF Acts, Received, Audited
    <3>2. phase'[q] \in Outcomes
        BY <3>1, MovesHere DEF Reloaded, GaveUp, Ends, Outcomes
    <3>3. QED
        BY <2>1, <3>2 DEF Outcomes
  <2>4. CASE Crash
      BY <2>1, <2>2, <2>4, CrashUntouched
  <2>5. CASE UNCHANGED vars
      BY <2>2, <2>5 DEF vars, Untouched
  <2>6. QED
    <3>1. ASSUME NEW r \in Reqs, Acts(r), r # q PROVE Untouched(q)
        BY <3>1, OthersUntouched
    <3>2. QED
        BY <2>2, <2>3, <2>4, <2>5, <3>1, StepActs
<1>3. ASSUME NEW r \in Reqs, Acts(r), a \notin audits
      PROVE  Entered(r) /\ Audited(r) /\ a = AuditEntry(r)
  <2>1. ~Wrote(r)
      BY <1>3, WritersLogNothing
  <2>2. Audited(r)
      BY <1>3, <2>1 DEF Acts, Received, Reloaded, GaveUp
  <2>3. QED
      BY <1>3, <2>2 DEF Audited, Entered
<1>4. CASE a \notin audits
  <2>1. ~Crash /\ ~(UNCHANGED vars)
      BY <1>4 DEF Crash, vars
  <2>2. QED
      BY <1>1, <1>3, <1>4, <2>1, StepActs
<1>5. QED
    BY <1>2, <1>4

LEMMA StepSeedsAreKept ==
    ASSUME Typed, SeedsAreKept, [Next]_vars
    PROVE  SeedsAreKept'
BY SeedAssumption, RowsAdvance DEF SeedsAreKept, Follows

LEMMA SameStatusWalked ==
    ASSUME NEW c \in Codes, Walked(c), UNCHANGED Trail(c),
           \/ records'[c] = records[c]
           \/ /\ records[c] # NoRecord /\ records'[c] # NoRecord
              /\ records'[c].status = records[c].status
    PROVE  Walked(c)'
<1>1. InitialStatusOfRecord(c)' = InitialStatusOfRecord(c)
    BY DEF InitialStatusOfRecord, InitialStatus, InitialStatusOf
<1>2. PICK S, first : S = Trail(c) /\ S = Trail(c)' /\ first = InitialStatusOfRecord(c)
    OBVIOUS
<1>3. Walked(c) <=> IF records[c] = NoRecord THEN S = {}
                    ELSE Balanced(S, first, records[c].status)
    BY <1>2 DEF Walked
<1>4. Walked(c)' <=> IF records'[c] = NoRecord THEN S = {}
                     ELSE Balanced(S, first, records'[c].status)
    BY <1>1, <1>2 DEF Walked, Balanced, Into, OutOf, One
<1>5. QED
    BY <1>3, <1>4

LEMMA CreateStartsWalk ==
    ASSUME Typed, Trails, Unbroken, NEW r \in Reqs, Creates(r),
           NEW c, c = input[r].code, UNCHANGED Trail(c)
    PROVE  Walked(c)'
<1>1. /\ c \in Codes /\ records[c] = NoRecord /\ records'[c] = Edited(r)
      /\ phase[r] = "write" /\ input[r].kind = "create" /\ Fits(records'[c], c)
    BY CreatesEffect
<1>2. records'[c].status = InitialStatus(c) /\ records'[c] # NoRecord
    BY <1>1, EditedFits, NoRecordIsNoRow DEF Fits
<1>3. InitialStatusOfRecord(c) = InitialStatus(c)
    BY <1>1 DEF InitialStatusOfRecord, Trails, SeedsAreKept
<1>4. Trail(c)' = {}
    BY <1>1 DEF Trails, Walked
<1>5. PICK first : first = InitialStatus(c) /\ Balanced({}, first, first)
    BY EmptyIsBalanced
<1>6. QED
    BY <1>2, <1>3, <1>4, <1>5 DEF Walked, Balanced, Into, OutOf, One

LEMMA MoveWalksOn ==
    ASSUME Lookahead = 0, Typed, Snapshots, Trails, Unbroken,
           NEW r \in Reqs, WritesMove(r), Moves(r, "audit", input[r], current[r]),
           NEW c, c = input[r].code
    PROVE  Walked(c)'
<1>0. Writes(r)
    BY DEF WritesMove
<1>1. /\ c \in Codes /\ records[c] # NoRecord
      /\ phase[r] = "write" /\ Fits(records'[c], c)
      /\ records'[c].status = Edited(r).status
  <2>1. c \in Codes /\ records[c] # NoRecord /\ phase[r] = "write"
      BY <1>0, WritesNeeds
  <2>2. Fits(records'[c], c) /\ records'[c].status = Edited(r).status
      BY <1>0, WritesEffect
  <2>3. QED
      BY <2>1, <2>2
<1>2. records[c].status = current[r].status
    BY SnapshotIsCurrent DEF WritesMove
<1>3. PICK a : a = AuditEntry(r)
    OBVIOUS
<1>4. a.before = records[c].status /\ a.after = records'[c].status
    BY <1>1, <1>2, <1>3 DEF AuditEntry, WritesMove
<1>5. a \notin Trail(c)
  <2>1. a.request = r
      BY <1>3 DEF AuditEntry
  <2>2. a \notin Logged(c)
      BY <1>1, <2>1 DEF Logged, Trails, EntriesArePast
  <2>3. ASSUME NEW q \in Unlogged(c) PROVE a # AuditEntry(q)
    <3>1. q # r
        BY <1>1 DEF Unlogged
    <3>2. AuditEntry(q).request = q
        BY DEF AuditEntry
    <3>3. QED
        BY <2>1, <3>1, <3>2
  <2>4. QED
      BY <2>2, <2>3 DEF Trail
<1>6. PICK S, first :
        S = Trail(c) /\ first = InitialStatusOfRecord(c)
    OBVIOUS
<1>7. Balanced(S, first, records[c].status)
    BY <1>1, <1>6 DEF Trails, Walked
<1>8. Balanced(S \cup {a}, first, a.after)
    BY <1>4, <1>5, <1>6, <1>7, StepIsBalanced
<1>9. Trail(c)' = S \cup {a}
    BY <1>1, <1>3, <1>6, MoveGrowsTrail
<1>10. records'[c] # NoRecord
    BY <1>1, NoRecordIsNoRow DEF Fits
<1>11. InitialStatusOfRecord(c)' = first
    BY <1>6 DEF InitialStatusOfRecord, InitialStatus, InitialStatusOf
<1>12. PICK new, S2 : new = records'[c].status /\ S2 = Trail(c)'
    OBVIOUS
<1>13. Balanced(S2, first, new)
    BY <1>4, <1>8, <1>9, <1>12
<1>14. QED
    BY <1>10, <1>11, <1>12, <1>13 DEF Walked, Balanced, Into, OutOf, One

LEMMA StepWalks ==
    ASSUME Lookahead = 0, Typed, Snapshots, Trails, [Next]_vars, Unbroken',
           NEW c \in Codes
    PROVE  Walked(c)'
<1>1. Unbroken /\ Walked(c)
    BY StaysBroken DEF Trails
<1>2. CASE UNCHANGED vars
  <2>1. UNCHANGED Trail(c) /\ UNCHANGED records
      BY <1>2 DEF vars, Trail, Logged, Unlogged, AuditEntry, Edited
  <2>2. QED
      BY <1>1, <2>1, SameStatusWalked
<1>3. ASSUME NEW r \in Reqs, Acts(r) PROVE Walked(c)'
  <2>1. PICK d : d = input[r].code
      OBVIOUS
  <2>2. CASE WritesMove(r) /\ Moves(r, "audit", input[r], current[r])
    <3>1. CASE c = d
        BY <1>1, <2>1, <2>2, <3>1, MoveWalksOn
    <3>2. CASE c # d
      <4>1. UNCHANGED Trail(c)
          BY <2>1, <2>2, <3>2, MoveGrowsTrail
      <4>2. records'[c] = records[c]
        <5>1. Writes(r)
            BY <2>2 DEF WritesMove
        <5>2. /\ Fits(records'[d], d)
              /\ \A e \in Codes \ {d} : records'[e] = records[e]
            BY <2>1, <5>1, WritesEffect
        <5>3. QED
            BY <3>2, <5>2
      <4>3. QED
          BY <1>1, <4>1, <4>2, SameStatusWalked
    <3>3. QED
        BY <3>1, <3>2
  <2>3. CASE UNCHANGED Trail(c)
    <3>1. CASE Creates(r)
      <4>1. CASE c = d
          BY <1>1, <2>1, <2>3, <3>1, <4>1, CreateStartsWalk
      <4>2. CASE c # d
        <5>1. \A e \in Codes \ {d} : records'[e] = records[e]
            BY <2>1, <3>1, CreatesEffect
        <5>2. QED
            BY <1>1, <2>3, <4>2, <5>1, SameStatusWalked
      <4>3. QED
          BY <4>1, <4>2
    <3>2. CASE Marks(r)
      <4>1. /\ records[d] # NoRecord /\ records'[d].status = records[d].status
            /\ Fits(records'[d], d)
            /\ \A e \in Codes \ {d} : records'[e] = records[e]
          BY <2>1, <3>2, MarksEffect
      <4>2. records'[d] # NoRecord
          BY <4>1, NoRecordIsNoRow DEF Fits
      <4>3. QED
          BY <1>1, <2>3, <4>1, <4>2, SameStatusWalked
    <3>3. CASE Writes(r) /\ input[r].kind = "update"
      <4>1. /\ records[d] # NoRecord /\ Fits(records'[d], d)
            /\ \A e \in Codes \ {d} : records'[e] = records[e]
          BY <2>1, <3>3, WritesEffect
      <4>2. records'[d].status = records[d].status
          BY <2>1, <3>3, WriteIsEditOrMove
      <4>3. records'[d] # NoRecord
          BY <4>1, NoRecordIsNoRow DEF Fits
      <4>4. QED
          BY <1>1, <2>3, <4>1, <4>2, <4>3, SameStatusWalked
    <3>4. CASE WritesMove(r) /\ ~Moves(r, "audit", input[r], current[r])
      <4>1. Writes(r) /\ phase[r] = "write" /\ records'[d].version = records[d].version + 1
            /\ d \in Codes /\ records[d] \in Record
          BY <2>1, <3>4, WritesEffect DEF WritesMove
      <4>2. ~(UNCHANGED records)
          BY <4>1 DEF Record
      <4>3. QED
          BY <1>3, <3>4, <4>1, <4>2 DEF Acts, Received, Wrote, Audited, Reloaded, GaveUp,
             WritesMove, Creates, Create
    <3>5. CASE ~Creates(r) /\ ~Writes(r) /\ ~Marks(r)
      <4>1. UNCHANGED records
          BY <1>3, <3>5 DEF Acts, Received, Wrote, Audited, Reloaded, GaveUp
      <4>2. QED
          BY <1>1, <2>3, <4>1, SameStatusWalked
    <3>6. CASE WritesMove(r) /\ Moves(r, "audit", input[r], current[r])
        BY <2>2, <3>6
    <3>7. Writes(r) => input[r].kind \in {"update", "transition"}
        BY <2>1, WritesEffect
    <3>8. QED
        BY <3>1, <3>2, <3>3, <3>4, <3>5, <3>6, <3>7 DEF WritesMove
  <2>4. QED
      BY <1>3, <2>2, <2>3, OthersKeepTrail
<1>4. QED
    BY <1>2, <1>3, StaysBroken

LEMMA InitTrails == Init => Trails
<1> SUFFICES ASSUME Init PROVE Trails
    OBVIOUS
<1>1. \A c \in Codes : Trail(c) = {}
    BY DEF Init, Trail, Logged, Unlogged
<1>2. SeedsAreKept
  <2>1. \A c \in DOMAIN SeedStatus : c \in Codes /\ SeedRow(c) \in Record
      BY SeedAssumption, GraphFacts DEF SeedRow, Record
  <2>2. QED
      BY <2>1, NoRecordIsNoRow DEF Init, SeedsAreKept
<1>3. ASSUME NEW c \in Codes, records[c] # NoRecord
      PROVE  records[c].status = InitialStatusOfRecord(c)
    BY <1>3 DEF Init, SeedRow, InitialStatusOfRecord
<1>4. \A c \in Codes : Walked(c)
    BY <1>1, <1>3, EmptyIsBalanced DEF Walked
<1>5. EntriesArePast
    BY DEF Init, EntriesArePast
<1>6. QED
    BY <1>2, <1>4, <1>5 DEF Trails

LEMMA StepTrails ==
    Lookahead = 0 /\ Typed /\ Snapshots /\ Trails /\ [Next]_vars => Trails'
<1> SUFFICES ASSUME Lookahead = 0, Typed, Snapshots, Trails, [Next]_vars
             PROVE  Trails'
    OBVIOUS
<1>1. SeedsAreKept' /\ EntriesArePast'
    BY StepSeedsAreKept, StepEntriesArePast DEF Trails
<1>2. ASSUME Unbroken', NEW c \in Codes PROVE Walked(c)'
    BY <1>2, StepWalks
<1>3. QED
    BY <1>1, <1>2 DEF Trails

\* Once nothing is under way and no request broke off, the audit log explains
\* the status of every record (service/bridge_asset.go and its siblings).
THEOREM AuditTrailsAreWalks ==
    ASSUME Lookahead = 0
    PROVE  Spec => []AuditTrailIsAWalk
<1>1. Typed /\ Trails => AuditTrailIsAWalk
  <2> SUFFICES ASSUME Typed, Trails,
                      \A r \in Reqs : phase[r] \in Outcomes \ {"internal", "lost"},
                      NEW c \in Codes, NEW s \in DOMAIN Graph(c), records[c] # NoRecord
               PROVE  LET moves    == {a \in audits : a.code = c /\ a.action = "transition"}
                          arrivals == Cardinality({a \in moves : a.after = s})
                          leavings == Cardinality({a \in moves : a.before = s})
                          one(b)   == IF b THEN 1 ELSE 0
                      IN  arrivals + one(InitialStatusOfRecord(c) = s)
                            = leavings + one(records[c].status = s)
      BY DEF AuditTrailIsAWalk
  <2>1. Unbroken
      BY DEF Unbroken
  <2>2. Unlogged(c) = {}
      BY DEF Unlogged, Outcomes
  <2>3. Trail(c) = Logged(c)
      BY <2>2 DEF Trail
  <2>4. Balanced(Logged(c), InitialStatusOfRecord(c), records[c].status)
      BY <2>1, <2>3 DEF Trails, Walked
  <2>5. s \in Statuses
      BY GraphFacts
  <2>6. QED
      BY <2>4, <2>5 DEF Balanced, Into, OutOf, One, Logged
<1>2. Typed /\ Snapshots /\ Trails /\ [Next]_vars => Trails'
    BY StepTrails
<1>3. QED
    BY <1>1, <1>2, InitRows, StepRows, InitTrails, PTL DEF Spec

=============================================================================
