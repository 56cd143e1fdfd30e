-------------------- MODULE PriorityDecisionAuditProofs --------------------
(***************************************************************************)
(* Proofs about what PriorityDecision leaves behind for its readers: the   *)
(* audit log and the replies.  Each rests on what a request under way owes *)
(* to the tables: nothing before its transaction, one revision after it,   *)
(* one audit entry before its reply.                                       *)
(*                                                                         *)
(* And PriorityDecision implements DecisionLedger when clients send only   *)
(* versions the decision has had (Lookahead = 0): the revisions of a       *)
(* decision are its trail, and every step of the handlers is one entry,    *)
(* one removal, or nothing that the ledger knows of.                       *)
(***************************************************************************)
EXTENDS PriorityDecisionFreezeProofs, SequenceTheorems

-----------------------------------------------------------------------------
(***************************************************************************)
(* One step, seen from one request and from the tables.                    *)
(***************************************************************************)
\* A request waits, takes a step of its own, or is lost with the process.
LEMMA Moves ==
    ASSUME IInv, [Next]_vars, NEW r \in Reqs
    PROVE  \/ UNCHANGED <<phase[r], input[r], current[r], shown[r]>>
           \/ Receive(r) \/ Serve(r) \/ DatabaseFails(r) \/ AuditFails(r) \/ AnswerLost(r)
           \/ phase'[r] = "lost" /\ UNCHANGED <<database, shown>>
<1> DEFINE waits == UNCHANGED <<phase[r], input[r], current[r], shown[r]>>
<1>1. ASSUME NEW q \in Reqs, q # r, Receive(q) PROVE waits
  <2>1. PICK request, verdict, snapshot : Enter(q, request, verdict, snapshot)
      BY <1>1 DEF Receive, ReceiveCreate, ReceiveUpdate, ReceiveTransition,
                  ReceiveDelete, ReceiveGet
  <2>2. QED
      BY <1>1, <2>1 DEF Enter, IInv, TypeOK
<1>2. ASSUME NEW q \in Reqs, q # r, Serve(q) PROVE waits
  <2>1. CASE CreateWithRevision(q) \/ UpdateWithRevision(q) \/ Delete(q)
      BY <1>2, <2>1 DEF CreateWithRevision, UpdateWithRevision, Delete, Goto,
                        Finish, IInv, TypeOK
  <2>2. CASE Audit(q) \/ Reload(q) \/ Preload(q)
      BY <1>2, <2>2 DEF Audit, Reload, Preload, Goto, Finish, IInv, TypeOK
  <2>3. QED
      BY <1>2, <2>1, <2>2 DEF Serve
<1>3. ASSUME NEW q \in Reqs, q # r, DatabaseFails(q) \/ AuditFails(q) \/ AnswerLost(q)
      PROVE  waits
    BY <1>3 DEF DatabaseFails, AuditFails, AnswerLost, Goto, Finish, IInv, TypeOK
<1>4. ASSUME Crash
      PROVE  waits \/ (phase'[r] = "lost" /\ UNCHANGED <<database, shown>>)
    BY <1>4 DEF Crash
<1>5. ASSUME Quiescent \/ UNCHANGED vars PROVE waits
    BY <1>5 DEF Quiescent, vars
<1>6. QED
    BY <1>1, <1>2, <1>3, <1>4, <1>5 DEF Next

\* The revision a step adds to a decision.
Adds(r, c, v) ==
    /\ phase[r] = "write" /\ phase'[r] = "audit"
    /\ UNCHANGED <<input[r], current[r], audits>>
    /\ input[r].kind \in {"create", "update", "transition"}
    /\ input[r].code = c
    /\ v \in DOMAIN revisions'[c]
    /\ revisions'[c][v] = NewRevision(r, Edited(r))
    /\ input[r].kind = "create" => v = 1
    /\ input[r].kind # "create" => Writes(r) /\ v = decisions[c].version + 1

LEMMA CreateAdds ==
    ASSUME IInv, NEW r \in Reqs, CreateWithRevision(r),
           decisions[input[r].code] = NoDecision
    PROVE  /\ Adds(r, input[r].code, 1)
           /\ DOMAIN revisions'[input[r].code] = {1}
           /\ \A d \in Codes \ {input[r].code} : revisions'[d] = revisions[d]
<1> DEFINE c == input[r].code
<1>1. c \in Codes /\ phase[r] = "write" /\ input[r].kind = "create"
    BY DEF IInv, HandlersOK, HandlerFacts, InFlight, Input, CreateWithRevision
<1>2. /\ Goto(r, "audit") /\ UNCHANGED audits
      /\ revisions' = [revisions EXCEPT ![c] =
             WithRevision(NoRevisions, 1, NewRevision(r, Edited(r)))]
    BY DEF CreateWithRevision
<1>3. /\ revisions'[c] = WithRevision(NoRevisions, 1, NewRevision(r, Edited(r)))
      /\ \A d \in Codes \ {c} : revisions'[d] = revisions[d]
    BY <1>1, <1>2 DEF IInv, TypeOK
<1>4. /\ DOMAIN revisions'[c] = {1}
      /\ revisions'[c][1] = NewRevision(r, Edited(r))
    BY <1>3 DEF WithRevision, NoRevisions
<1>5. phase'[r] = "audit" /\ UNCHANGED <<input, current>>
    BY <1>2 DEF Goto, IInv, TypeOK
<1>6. QED
    BY <1>1, <1>2, <1>3, <1>4, <1>5 DEF Adds

LEMMA UpdateAdds ==
    ASSUME IInv, NEW r \in Reqs, Writes(r)
    PROVE  /\ Adds(r, input[r].code, decisions[input[r].code].version + 1)
           /\ DOMAIN revisions'[input[r].code] =
                DOMAIN revisions[input[r].code]
                  \cup {decisions[input[r].code].version + 1}
<1> DEFINE c == input[r].code
<1>1. Goto(r, "audit") /\ UNCHANGED audits
    BY DEF Writes, UpdateWithRevision
<1>2. phase'[r] = "audit" /\ UNCHANGED <<input, current>>
    BY <1>1 DEF Goto, IInv, TypeOK
<1>3. phase[r] = "write" /\ input[r].kind \in {"update", "transition"}
    BY DEF Writes, UpdateWithRevision
<1>4. QED
    BY <1>1, <1>2, <1>3, WriteEffect DEF Adds

\* A revision is there already, or the step adds it.
LEMMA NewRevisions ==
    ASSUME IInv, [Next]_vars, NEW c \in Codes, NEW v \in DOMAIN revisions'[c]
    PROVE  \/ v \in DOMAIN revisions[c] /\ revisions'[c][v] = revisions[c][v]
           \/ \E r \in Reqs : Adds(r, c, v)
<1>1. CASE \E r \in Reqs : Writes(r)
  <2>1. PICK r \in Reqs : Writes(r)
      BY <1>1
  <2>2. CASE c # input[r].code
      BY <2>1, <2>2, WriteEffect
  <2>3. CASE c = input[r].code
    <3>1. CASE v \in DOMAIN revisions[c]
        BY <2>1, <2>3, <3>1, WriteEffect
    <3>2. CASE v \notin DOMAIN revisions[c]
        BY <2>1, <2>3, <3>2, UpdateAdds
    <3>3. QED
        BY <3>1, <3>2
  <2>4. QED
      BY <2>2, <2>3
<1>2. CASE decisions[c] # NoDecision /\ \A r \in Reqs : ~Writes(r)
  <2>1. revisions'[c] = revisions[c]
      BY <1>2, OtherEffects
  <2>2. QED
      BY <2>1
<1>3. CASE decisions[c] = NoDecision /\ \E r \in Reqs : CreateWithRevision(r)
  <2>1. PICK r \in Reqs : CreateWithRevision(r)
      BY <1>3
  <2>2. CASE decisions[input[r].code] = NoDecision /\ c = input[r].code
      BY <2>1, <2>2, CreateAdds
  <2>3. CASE decisions[input[r].code] = NoDecision /\ c # input[r].code
      BY <2>1, <2>3, CreateAdds
  <2>4. CASE decisions[input[r].code] # NoDecision
      BY <2>1, <2>4 DEF CreateWithRevision
  <2>5. QED
      BY <2>2, <2>3, <2>4
<1>4. CASE \A r \in Reqs : ~Writes(r) /\ ~CreateWithRevision(r)
  <2>1. CASE \E r \in Reqs : UpdateWithRevision(r)
      BY <1>4, <2>1 DEF Writes, UpdateWithRevision
  <2>2. CASE \E r \in Reqs : Delete(r)
      BY <2>2 DEF Delete
  <2>3. QED
      BY <1>4, <2>1, <2>2, TablesUntouched
<1>5. QED
    BY <1>1, <1>2, <1>3, <1>4

\* Revisions and audit entries stay.
LEMMA RevisionsStay ==
    ASSUME IInv, [Next]_vars, NEW c \in Codes, NEW v \in DOMAIN revisions[c]
    PROVE  v \in DOMAIN revisions'[c] /\ revisions'[c][v] = revisions[c][v]
<1>1. decisions[c] # NoDecision
    BY DEF IInv, RevisionChain, ChainOf
<1>2. QED
    BY <1>1, HistoryStep DEF HistoryKept

\* A step that appends the entry, whether or not the handler hears of it.
Logs(r) == Audit(r) \/ AnswerLost(r)

LEMMA NewAudits ==
    ASSUME [Next]_vars
    PROVE  \/ audits' = audits
           \/ \E r \in Reqs : Logs(r) /\ audits' = audits \cup {AuditEntry(r)}
<1>1. ASSUME NEW r \in Reqs, Receive(r) PROVE audits' = audits
    BY <1>1 DEF Receive, ReceiveCreate, ReceiveUpdate, ReceiveTransition,
                ReceiveDelete, ReceiveGet, Enter, database
<1>2. ASSUME NEW r \in Reqs, Serve(r)
      PROVE  audits' = audits \/ (Logs(r) /\ audits' = audits \cup {AuditEntry(r)})
    BY <1>2 DEF Logs, Serve, CreateWithRevision, UpdateWithRevision, Delete, Audit,
                Reload, Preload, database
<1>3. ASSUME NEW r \in Reqs, DatabaseFails(r) \/ AuditFails(r) \/ AnswerLost(r)
      PROVE  audits' = audits \/ (Logs(r) /\ audits' = audits \cup {AuditEntry(r)})
    BY <1>3 DEF Logs, DatabaseFails, AuditFails, AnswerLost, database
<1>4. ASSUME Crash \/ Quiescent \/ UNCHANGED vars PROVE audits' = audits
    BY <1>4 DEF Crash, Quiescent, database, vars
<1>5. QED
    BY <1>1, <1>2, <1>3, <1>4 DEF Next

-----------------------------------------------------------------------------
(***************************************************************************)
(* Where a request comes from.                                             *)
(***************************************************************************)
\* Phases of a request whose transaction has not been committed.
Untouched == {"idle", "write", "conflict", "forbidden", "rule"}

\* What an arrival does to its request.
LEMMA Arrives ==
    ASSUME IInv, NEW r \in Reqs, Receive(r)
    PROVE  /\ phase[r] = "idle"
           /\ phase'[r] \in {"write", "preload", "notFound", "forbidden", "rule"}
           /\ UNCHANGED <<decisions, revisions, audits, shown>>
<1>1. PICK request, verdict, snapshot :
          /\ Enter(r, request, verdict, snapshot)
          /\ verdict \in {"write", "preload", "notFound", "forbidden", "rule"}
    BY DEF Receive, ReceiveCreate, ReceiveUpdate, ReceiveTransition,
           ReceiveDelete, ReceiveGet, EditVerdict, ReviewVerdict, RemoveVerdict
<1>2. QED
    BY <1>1 DEF Enter, database, IInv, TypeOK

LEMMA ToUntouched ==
    ASSUME IInv, [Next]_vars, NEW r \in Reqs, phase'[r] \in Untouched
    PROVE  phase[r] \in Untouched
<1> USE DEF Untouched
<1>1. CASE Receive(r)
    BY <1>1, Arrives
<1>2. CASE Serve(r)
    BY <1>2 DEF Serve, CreateWithRevision, UpdateWithRevision, Delete, Audit,
                Reload, Preload, Goto, Finish, IInv, TypeOK
<1>3. CASE DatabaseFails(r) \/ AuditFails(r) \/ AnswerLost(r)
    BY <1>3 DEF DatabaseFails, AuditFails, AnswerLost, Goto, Finish, IInv, TypeOK
<1>4. QED
    BY <1>1, <1>2, <1>3, Moves

\* A request about to be audited was so before, or its transaction is this step.
LEMMA ToAudit ==
    ASSUME IInv, [Next]_vars, NEW r \in Reqs, phase'[r] = "audit"
    PROVE  /\ UNCHANGED <<input[r], current[r]>>
           /\ phase[r] \in {"write", "audit"}
           /\ phase[r] = "write" =>
                \/ \E v \in DOMAIN revisions'[input[r].code] :
                      Adds(r, input[r].code, v)
                \/ Delete(r) /\ Removes(decisions[input[r].code])
<1>1. CASE Receive(r)
    BY <1>1, Arrives
<1>2. CASE CreateWithRevision(r)
  <2>1. decisions[input[r].code] = NoDecision
      BY <1>2 DEF CreateWithRevision, Finish, IInv, TypeOK
  <2>2. Adds(r, input[r].code, 1)
      BY <1>2, <2>1, CreateAdds
  <2>3. QED
      BY <2>2 DEF Adds
<1>3. CASE UpdateWithRevision(r)
  <2>1. Writes(r)
      BY <1>3 DEF Writes, UpdateWithRevision, Finish, IInv, TypeOK
  <2>2. Adds(r, input[r].code, decisions[input[r].code].version + 1)
      BY <2>1, UpdateAdds
  <2>3. QED
      BY <2>2 DEF Adds
<1>4. CASE Delete(r)
    BY <1>4 DEF Delete, Goto, Finish, IInv, TypeOK
<1>5. CASE Audit(r) \/ Reload(r) \/ Preload(r)
    BY <1>5 DEF Audit, Reload, Preload, Goto, Finish, IInv, TypeOK
<1>6. CASE DatabaseFails(r) \/ AuditFails(r) \/ AnswerLost(r)
    BY <1>6 DEF DatabaseFails, AuditFails, AnswerLost, Goto, Finish, IInv, TypeOK
<1>7. QED
    BY <1>1, <1>2, <1>3, <1>4, <1>5, <1>6, Moves DEF Serve

\* Phases of a request whose audit entry is behind it, if it owed one.
Behind == {"reload", "preload", "ok"}

LEMMA ToBehind ==
    ASSUME IInv, [Next]_vars, NEW r \in Reqs, phase'[r] \in Behind
    PROVE  \/ phase[r] \in Behind
           \/ phase[r] = "idle"
           \/ phase[r] = "audit" /\ Audit(r)
           \/ phase[r] = "audit" /\ AuditFails(r) /\ AuditErrorIgnored(input[r].kind)
<1> USE DEF Behind
<1>1. CASE Receive(r)
    BY <1>1, Arrives
<1>2. CASE Serve(r)
    BY <1>2 DEF Serve, CreateWithRevision, UpdateWithRevision, Delete, Audit,
                Reload, Preload, Goto, Finish, IInv, TypeOK
<1>3. CASE DatabaseFails(r) \/ AuditFails(r) \/ AnswerLost(r)
    BY <1>3 DEF DatabaseFails, AuditFails, AnswerLost, Goto, Finish, IInv, TypeOK
<1>4. QED
    BY <1>1, <1>2, <1>3, Moves

-----------------------------------------------------------------------------
(***************************************************************************)
(* Nothing before the transaction.                                         *)
(***************************************************************************)
NoTrace(r) ==
    /\ \A c \in Codes : \A v \in DOMAIN revisions[c] : revisions[c][v].request # r
    /\ \A a \in audits : a.request # r

NothingBefore == \A r \in Reqs : phase[r] \in Untouched => NoTrace(r)

LEMMA NothingBeforeStep == IInv /\ NothingBefore /\ [Next]_vars => NothingBefore'
<1> SUFFICES ASSUME IInv, NothingBefore, [Next]_vars, NEW r \in Reqs,
                    phase'[r] \in Untouched
             PROVE  NoTrace(r)'
    BY DEF NothingBefore
<1>1. phase[r] \in Untouched /\ NoTrace(r)
    BY ToUntouched DEF NothingBefore
<1>2. ASSUME NEW c \in Codes, NEW v \in DOMAIN revisions'[c]
      PROVE  revisions'[c][v].request # r
  <2>1. CASE v \in DOMAIN revisions[c] /\ revisions'[c][v] = revisions[c][v]
      BY <1>1, <2>1 DEF NoTrace
  <2>2. ASSUME NEW q \in Reqs, Adds(q, c, v) PROVE revisions'[c][v].request # r
    <3>1. q # r
        BY <2>2 DEF Adds, Untouched
    <3>2. QED
        BY <2>2, <3>1 DEF Adds, NewRevision
  <2>3. QED
      BY <2>1, <2>2, NewRevisions
<1>3. ASSUME NEW a \in audits' PROVE a.request # r
  <2>1. CASE a \in audits
      BY <1>1, <2>1 DEF NoTrace
  <2>2. ASSUME NEW q \in Reqs, Logs(q), a = AuditEntry(q) PROVE a.request # r
    <3>1. q # r
        BY <1>1, <2>2 DEF Logs, Audit, AnswerLost, Untouched
    <3>2. QED
        BY <2>2, <3>1 DEF AuditEntry
  <2>3. QED
      BY <2>1, <2>2, NewAudits
<1>4. QED
    BY <1>2, <1>3 DEF NoTrace

LEMMA NothingAtFirst == Init => NothingBefore
<1> SUFFICES ASSUME Init, NEW r \in Reqs, NEW c \in Codes,
                    NEW v \in DOMAIN revisions[c]
             PROVE  revisions[c][v].request # r
    BY DEF Init, NothingBefore, NoTrace
<1>1. c \in DOMAIN SeedStatus
    BY DEF Init, NoRevisions
<1>2. QED
    BY <1>1, SeedAssumption DEF Init, SeedRevisions

\* A request refused by a rule, for its role or with a conflict has changed
\* nothing (handler/errors.go, handleError): its transaction was not committed.
THEOREM RejectionsLeaveNoTrace == Spec => []RejectedLeavesNoTrace
<1>1. NothingBefore => RejectedLeavesNoTrace
    BY DEF NothingBefore, Untouched, NoTrace, RejectedLeavesNoTrace
<1>2. QED
    BY <1>1, NothingAtFirst, NothingBeforeStep, Invariance, PTL DEF Spec

-----------------------------------------------------------------------------
(***************************************************************************)
(* One audit entry before the reply.                                       *)
(***************************************************************************)
\* Only a transition sets a priority level, and its audit error is not ignored.
IgnoredAreDrafts ==
    \A r \in Reqs : (phase[r] = "audit" /\ AuditErrorIgnored(input[r].kind)) =>
        \A c \in Codes : \A v \in DOMAIN revisions[c] :
            revisions[c][v].request = r => revisions[c][v].status = "draft"

AuditedWhenBehind ==
    \A c \in Codes : \A v \in DOMAIN revisions[c] :
        LET r == revisions[c][v].request
        IN  (revisions[c][v].status # "draft" /\ r \in Reqs /\ phase[r] \in Behind)
            => \E a \in audits : a.request = r

LEMMA IgnoredAreDraftsStep ==
    IInv /\ NothingBefore /\ IgnoredAreDrafts /\ [Next]_vars => IgnoredAreDrafts'
<1> SUFFICES ASSUME IInv, NothingBefore, IgnoredAreDrafts, [Next]_vars,
                    NEW r \in Reqs, phase'[r] = "audit",
                    AuditErrorIgnored(input'[r].kind),
                    NEW c \in Codes, NEW v \in DOMAIN revisions'[c],
                    revisions'[c][v].request = r
             PROVE  revisions'[c][v].status = "draft"
    BY DEF IgnoredAreDrafts, AuditErrorIgnored
<1>1. /\ UNCHANGED <<input[r], current[r]>>
      /\ phase[r] \in {"write", "audit"}
    BY ToAudit
<1>2. input[r].kind \in {"create", "update"}
    BY <1>1 DEF AuditErrorIgnored
<1>3. CASE v \in DOMAIN revisions[c] /\ revisions'[c][v] = revisions[c][v]
  <2>1. phase[r] # "write"
      BY <1>3 DEF NothingBefore, NoTrace, Untouched
  <2>2. QED
      BY <1>1, <1>2, <1>3, <2>1 DEF IgnoredAreDrafts, AuditErrorIgnored
<1>4. ASSUME NEW q \in Reqs, Adds(q, c, v) PROVE revisions'[c][v].status = "draft"
  <2>1. q = r
      BY <1>4 DEF Adds, NewRevision
  <2>2. Edited(r).status = "draft"
    <3>1. CASE input[r].kind = "create"
        BY <3>1 DEF Edited
    <3>2. CASE input[r].kind = "update"
      <4>1. current[r] \in Decision /\ current[r].status = "draft"
          BY <1>1, <3>2 DEF IInv, HandlersOK, HandlerFacts
      <4>2. QED
          BY <3>2, <4>1 DEF Edited, Decision
    <3>3. QED
        BY <1>2, <3>1, <3>2
  <2>3. QED
      BY <1>4, <2>1, <2>2 DEF Adds, NewRevision
<1>5. QED
    BY <1>3, <1>4, NewRevisions

LEMMA AuditedWhenBehindStep ==
    IInv /\ NothingBefore /\ IgnoredAreDrafts /\ AuditedWhenBehind /\ [Next]_vars
        => AuditedWhenBehind'
<1> SUFFICES ASSUME IInv, NothingBefore, IgnoredAreDrafts, AuditedWhenBehind,
                    [Next]_vars, NEW c \in Codes, NEW v \in DOMAIN revisions'[c],
                    NEW r \in Reqs, r = revisions'[c][v].request,
                    revisions'[c][v].status # "draft", phase'[r] \in Behind
             PROVE  \E a \in audits' : a.request = r
    BY DEF AuditedWhenBehind
<1>1. v \in DOMAIN revisions[c] /\ revisions'[c][v] = revisions[c][v]
  <2>1. ASSUME NEW q \in Reqs, Adds(q, c, v) PROVE FALSE
      BY <2>1 DEF Adds, NewRevision, Behind
  <2>2. QED
      BY <2>1, NewRevisions
<1>2. phase[r] # "idle"
    BY <1>1 DEF NothingBefore, NoTrace, Untouched
<1>3. CASE phase[r] \in Behind
  <2>1. \E a \in audits : a.request = r
      BY <1>1, <1>3 DEF AuditedWhenBehind
  <2>2. audits \subseteq audits'
      BY NewAudits
  <2>3. QED
      BY <2>1, <2>2
<1>4. CASE Audit(r)
  <2>1. AuditEntry(r) \in audits'
      BY <1>4 DEF Audit
  <2>2. AuditEntry(r).request = r
      BY DEF AuditEntry
  <2>3. QED
      BY <2>1, <2>2
<1>5. CASE phase[r] = "audit" /\ AuditErrorIgnored(input[r].kind)
    BY <1>1, <1>5 DEF IgnoredAreDrafts
<1>6. QED
    BY <1>2, <1>3, <1>4, <1>5, ToBehind

\* Who was told that a finalisation was accepted finds it in the audit log
\* (service/priority_decision.go, Transition): a failed entry fails the request.
THEOREM FinalisationsAreAudited == Spec => []AcknowledgedIsAudited
<1> DEFINE Inv == NothingBefore /\ IgnoredAreDrafts /\ AuditedWhenBehind
<1>1. Init => Inv
  <2> SUFFICES ASSUME Init PROVE Inv
      OBVIOUS
  <2>1. \A r \in Reqs : phase[r] = "idle"
      BY DEF Init
  <2>2. QED
      BY <2>1, NothingAtFirst DEF IgnoredAreDrafts, AuditedWhenBehind, Behind
<1>2. IInv /\ Inv /\ [Next]_vars => Inv'
    BY NothingBeforeStep, IgnoredAreDraftsStep, AuditedWhenBehindStep
<1>3. Inv => AcknowledgedIsAudited
    BY DEF AuditedWhenBehind, Behind, AcknowledgedIsAudited
<1> HIDE DEF Inv
<1>4. QED
    BY <1>1, <1>2, <1>3, Invariance, PTL DEF Spec

-----------------------------------------------------------------------------
(***************************************************************************)
(* The entry says what the revisions say.                                  *)
(***************************************************************************)
Attested(a) ==
    \E v \in DOMAIN revisions[a.code] :
        /\ revisions[a.code][v].request = a.request
        /\ revisions[a.code][v].actor = a.actor
        /\ revisions[a.code][v].status = a.after
        /\ IF v = 1 THEN a.before = ""
                    ELSE a.before = revisions[a.code][v - 1].status

OwesEntry(r) == phase[r] = "audit" /\ input[r].kind # "delete"

EntriesAttested ==
    /\ \A a \in audits : a.action # "delete" => Attested(a)
    /\ \A r \in Reqs : OwesEntry(r) => Attested(AuditEntry(r))

LEMMA AttestedStays ==
    ASSUME IInv, [Next]_vars, NEW a, a.code \in Codes, Attested(a)
    PROVE  Attested(a)'
<1> DEFINE c == a.code
<1>1. PICK v \in DOMAIN revisions[c] :
          /\ revisions[c][v].request = a.request
          /\ revisions[c][v].actor = a.actor
          /\ revisions[c][v].status = a.after
          /\ IF v = 1 THEN a.before = "" ELSE a.before = revisions[c][v - 1].status
    BY DEF Attested
<1>2. v \in DOMAIN revisions'[c] /\ revisions'[c][v] = revisions[c][v]
    BY RevisionsStay
<1>3. v # 1 => revisions'[c][v - 1] = revisions[c][v - 1]
  <2>1. decisions[c] # NoDecision
      BY DEF IInv, RevisionChain, ChainOf
  <2>2. DOMAIN revisions[c] = 1 .. decisions[c].version /\ decisions[c].version \in Nat
      BY <2>1 DEF IInv, RevisionChain, ChainOf
  <2>3. v # 1 => v - 1 \in DOMAIN revisions[c]
      BY <2>2
  <2>4. QED
      BY <2>3, RevisionsStay
<1>4. QED
    BY <1>1, <1>2, <1>3 DEF Attested

\* The entry a request will append is fixed with its transaction.
LEMMA EntryFixed ==
    ASSUME NEW r \in Reqs, UNCHANGED <<input[r], current[r]>>
    PROVE  AuditEntry(r)' = AuditEntry(r)
BY DEF AuditEntry, Edited

\* A transaction writes the revision its entry speaks of.
LEMMA AddsAttested ==
    ASSUME Lookahead = 0, IInv, Snapshots, [Next]_vars, NEW r \in Reqs,
           NEW v, Adds(r, input[r].code, v)
    PROVE  Attested(AuditEntry(r))'
<1> DEFINE c == input[r].code
           a == AuditEntry(r)
<1>1. /\ c \in Codes /\ input[r].kind \in {"create", "update", "transition"}
      /\ phase[r] = "write"
    BY DEF Adds, IInv, HandlersOK, HandlerFacts, InFlight, Input
<1>2. /\ v \in DOMAIN revisions'[c]
      /\ revisions'[c][v] = NewRevision(r, Edited(r))
    BY DEF Adds
<1>3. /\ a.request = r /\ a.actor = input[r].user /\ a.code = c
      /\ a.after = Edited(r).status
      /\ a.before = IF input[r].kind = "create" THEN "" ELSE current[r].status
    BY <1>1 DEF AuditEntry
<1>4. /\ revisions'[c][v].request = a.request
      /\ revisions'[c][v].actor = a.actor
      /\ revisions'[c][v].status = a.after
  <2>1. /\ NewRevision(r, Edited(r)).request = r
        /\ NewRevision(r, Edited(r)).actor = input[r].user
        /\ NewRevision(r, Edited(r)).status = Edited(r).status
      BY DEF NewRevision
  <2>2. QED
      BY <1>2, <1>3, <2>1
<1>5. IF v = 1 THEN a.before = "" ELSE a.before = revisions'[c][v - 1].status
  <2>1. CASE input[r].kind = "create"
      BY <1>3, <2>1 DEF Adds
  <2>2. CASE input[r].kind # "create"
    <3>1. Writes(r) /\ v = decisions[c].version + 1
        BY <2>2 DEF Adds
    <3>2. /\ decisions[c].version \in Nat \ {0}
          /\ decisions[c].version \in DOMAIN revisions[c]
        BY <3>1, WriteEffect
    <3>3. revisions[c][decisions[c].version].status = "draft"
        BY <3>1, WritesWhatItRead
    <3>4. current[r].status = "draft"
        BY <3>1 DEF Snapshots, SnapshotOf, Changes, Writes, UpdateWithRevision
    <3>5. revisions'[c][v - 1].status = "draft" /\ v # 1
      <4>1. v - 1 = decisions[c].version
          BY <3>1, <3>2
      <4>2. QED
          BY <1>1, <3>1, <3>2, <3>3, <4>1, RevisionsStay
    <3>6. QED
        BY <1>3, <2>2, <3>4, <3>5
  <2>3. QED
      BY <2>1, <2>2
<1>6. a' = a
  <2>1. UNCHANGED <<input[r], current[r]>>
      BY DEF Adds
  <2>2. QED
      BY <2>1, EntryFixed
<1> HIDE DEF a
<1>7. \E w \in DOMAIN revisions'[a.code] :
        /\ revisions'[a.code][w].request = a.request
        /\ revisions'[a.code][w].actor = a.actor
        /\ revisions'[a.code][w].status = a.after
        /\ IF w = 1 THEN a.before = ""
                    ELSE a.before = revisions'[a.code][w - 1].status
    BY <1>2, <1>3, <1>4, <1>5
<1>8. QED
    BY <1>6, <1>7 DEF Attested, a

LEMMA EntriesAttestedStep ==
    ASSUME Lookahead = 0, IInv, Snapshots, EntriesAttested, [Next]_vars
    PROVE  EntriesAttested'
<1>1. ASSUME NEW a \in audits', a.action # "delete" PROVE Attested(a)'
  <2>1. CASE a \in audits
    <3>1. a.code \in Codes
        BY <2>1 DEF IInv, TypeOK, AuditLog
    <3>2. QED
        BY <1>1, <2>1, <3>1, AttestedStays DEF EntriesAttested
  <2>2. ASSUME NEW r \in Reqs, Logs(r), a = AuditEntry(r) PROVE Attested(a)'
    <3>1. phase[r] = "audit" /\ input[r].code \in Codes
        BY <2>2 DEF Logs, Audit, AnswerLost, IInv, HandlersOK, HandlerFacts, InFlight, Input
    <3>2. a.code = input[r].code /\ a.action = input[r].kind
        BY <2>2 DEF AuditEntry
    <3>3. Attested(a)
        BY <1>1, <2>2, <3>1, <3>2 DEF EntriesAttested, OwesEntry
    <3>4. QED
        BY <3>1, <3>2, <3>3, AttestedStays
  <2>3. QED
      BY <2>1, <2>2, NewAudits
<1>2. ASSUME NEW r \in Reqs, OwesEntry(r)' PROVE Attested(AuditEntry(r))'
  <2>1. /\ phase'[r] = "audit" /\ input'[r].kind # "delete"
        /\ UNCHANGED <<input[r], current[r]>>
        /\ phase[r] \in {"write", "audit"}
      BY <1>2, ToAudit DEF OwesEntry
  <2>2. AuditEntry(r)' = AuditEntry(r)
      BY <2>1, EntryFixed
  <2>3. CASE phase[r] = "audit"
    <3>1. Attested(AuditEntry(r))
        BY <2>1, <2>3 DEF EntriesAttested, OwesEntry
    <3>2. AuditEntry(r).code \in Codes
        BY <2>3 DEF AuditEntry, IInv, HandlersOK, HandlerFacts, InFlight, Input
    <3> DEFINE a == AuditEntry(r)
    <3>3. Attested(a) /\ a.code \in Codes /\ a' = a
        BY <2>2, <3>1, <3>2
    <3> HIDE DEF a
    <3>4. \E v \in DOMAIN revisions'[a.code] :
            /\ revisions'[a.code][v].request = a.request
            /\ revisions'[a.code][v].actor = a.actor
            /\ revisions'[a.code][v].status = a.after
            /\ IF v = 1 THEN a.before = ""
                        ELSE a.before = revisions'[a.code][v - 1].status
        BY <3>3, AttestedStays DEF Attested
    <3>5. QED
        BY <3>3, <3>4 DEF Attested, a
  <2>4. CASE phase[r] = "write"
    <3>1. ~Delete(r)
        BY <2>1 DEF Delete
    <3>2. PICK v \in DOMAIN revisions'[input[r].code] : Adds(r, input[r].code, v)
        BY <2>1, <2>4, <3>1, ToAudit
    <3>3. QED
        BY <3>2, AddsAttested
  <2>5. QED
      BY <2>1, <2>3, <2>4
<1>3. QED
    BY <1>1, <1>2 DEF EntriesAttested

\* Every entry of a change names the request, the actor and the states before
\* and after of a revision, however late it is appended
\* (service/priority_decision.go, Audit after each commit), when clients send
\* only versions the decision has had.
THEOREM AuditEntriesAreTrue ==
    ASSUME Lookahead = 0
    PROVE  Spec => []AuditTellsTheTruth
<1>1. Init => Snapshots /\ EntriesAttested
    BY DEF Init, Snapshots, Changes, EntriesAttested, OwesEntry
<1>2. IInv /\ Snapshots /\ EntriesAttested /\ [Next]_vars
        => Snapshots' /\ EntriesAttested'
    BY SnapshotsStep, EntriesAttestedStep
<1>3. EntriesAttested => AuditTellsTheTruth
    BY DEF EntriesAttested, Attested, AuditTellsTheTruth
<1>4. QED
    BY <1>1, <1>2, <1>3, Invariance, PTL DEF Spec

-----------------------------------------------------------------------------
(***************************************************************************)
(* One removal of a decision.                                              *)
(***************************************************************************)
Removed(c) == decisions[c] # NoDecision /\ decisions[c].deleted

IsRemoval(a, c) == a.action = "delete" /\ a.code = c

\* A request whose removal is committed and not yet in the log.
Removing(r) == phase[r] = "audit" /\ input[r].kind = "delete"

RemovedOnce ==
    /\ \A a \in audits : a.action = "delete" =>
          /\ Removed(a.code)
          /\ \A b \in audits : IsRemoval(b, a.code) => b = a
    /\ \A r \in Reqs : Removing(r) =>
          /\ Removed(input[r].code)
          /\ \A a \in audits : ~IsRemoval(a, input[r].code)
          /\ \A q \in Reqs : (Removing(q) /\ input[q].code = input[r].code) => q = r

LEMMA RemovedStays ==
    ASSUME IInv, [Next]_vars, NEW c \in Codes, Removed(c)
    PROVE  Removed(c)'
BY RemovedStep DEF Removed, Live

\* A request that removes was about to log its removal before, or has just
\* found the decision in the register and taken it out.
LEMMA RemovesOrWaits ==
    ASSUME IInv, [Next]_vars, NEW r \in Reqs, Removing(r)'
    PROVE  /\ UNCHANGED <<input[r], current[r]>>
           /\ input[r].code \in Codes
           /\ \/ Removing(r)
              \/ /\ Delete(r)
                 /\ ~Removed(input[r].code) /\ Removed(input[r].code)'
                 /\ UNCHANGED audits
<1>1. /\ phase'[r] = "audit" /\ input'[r].kind = "delete"
      /\ UNCHANGED <<input[r], current[r]>>
      /\ phase[r] \in {"write", "audit"}
    BY ToAudit DEF Removing
<1>2. input[r].code \in Codes
    BY <1>1 DEF IInv, HandlersOK, HandlerFacts, InFlight, Input
<1>3. CASE phase[r] = "audit"
    BY <1>1, <1>2, <1>3 DEF Removing
<1>4. CASE phase[r] = "write"
  <2> DEFINE c == input[r].code
  <2>1. ASSUME NEW v, Adds(r, c, v) PROVE FALSE
      BY <1>1, <2>1 DEF Adds
  <2>2. Delete(r) /\ Removes(decisions[c])
      BY <1>1, <1>4, <2>1, ToAudit
  <2>3. /\ decisions' = [decisions EXCEPT ![c].deleted = TRUE]
        /\ UNCHANGED audits
      BY <2>2 DEF Delete
  <2>4. /\ decisions[c] \in Decision /\ ~decisions[c].deleted
        /\ decisions[c] # NoDecision
      BY <1>2, <2>2 DEF Removes, Live, IInv, TypeOK
  <2>5. decisions'[c] = [decisions[c] EXCEPT !.deleted = TRUE]
      BY <1>2, <2>3 DEF IInv, TypeOK
  <2>6. decisions'[c] \in Decision /\ decisions'[c].deleted
      BY <2>4, <2>5 DEF Decision
  <2>7. decisions'[c] # NoDecision
      BY <2>6, NoDecisionAssumption
  <2>8. ~Removed(c) /\ Removed(c)'
      BY <1>1, <2>4, <2>6, <2>7 DEF Removed
  <2>9. QED
      BY <1>1, <1>2, <2>2, <2>3, <2>8
<1>5. QED
    BY <1>1, <1>3, <1>4

LEMMA RemovedOnceStep == IInv /\ RemovedOnce /\ [Next]_vars => RemovedOnce'
<1> SUFFICES ASSUME IInv, RemovedOnce, [Next]_vars PROVE RemovedOnce'
    OBVIOUS
<1>1. CASE audits' = audits
  <2>1. ASSUME NEW a \in audits, a.action = "delete"
        PROVE  /\ Removed(a.code)'
               /\ \A b \in audits : IsRemoval(b, a.code) => b = a
    <3>1. a.code \in Codes
        BY DEF IInv, TypeOK, AuditLog
    <3>2. Removed(a.code) /\ \A b \in audits : IsRemoval(b, a.code) => b = a
        BY <2>1 DEF RemovedOnce
    <3>3. QED
        BY <3>1, <3>2, RemovedStays
  <2>2. ASSUME NEW r \in Reqs, Removing(r)'
        PROVE  /\ Removed(input[r].code)'
               /\ \A a \in audits : ~IsRemoval(a, input[r].code)
               /\ \A q \in Reqs : (Removing(q)' /\ input'[q].code = input[r].code)
                                    => q = r
    <3> DEFINE c == input[r].code
    <3>1. c \in Codes
        BY <2>2, RemovesOrWaits
    <3>2. CASE Removing(r)
      <4>1. /\ Removed(c) /\ \A a \in audits : ~IsRemoval(a, c)
            /\ \A q \in Reqs : (Removing(q) /\ input[q].code = c) => q = r
          BY <3>2 DEF RemovedOnce
      <4>2. ASSUME NEW q \in Reqs, Removing(q)', input'[q].code = c PROVE q = r
          BY <4>1, <4>2, RemovesOrWaits
      <4>3. input'[r] = input[r]
          BY <2>2, RemovesOrWaits
      <4>4. decisions'[c] # NoDecision /\ decisions'[c].deleted
          BY <3>1, <4>1, RemovedStays DEF Removed
      <4>5. QED
          BY <4>1, <4>2, <4>3, <4>4 DEF Removed
    <3>3. CASE ~Removing(r)
      <4>1. Delete(r) /\ ~Removed(c) /\ Removed(c)' /\ UNCHANGED audits
          BY <2>2, <3>3, RemovesOrWaits
      <4>2. \A a \in audits : ~IsRemoval(a, c)
          BY <4>1 DEF RemovedOnce, IsRemoval
      <4>3. ASSUME NEW q \in Reqs, Removing(q)', input'[q].code = c, q # r
            PROVE  FALSE
        <5>1. UNCHANGED <<phase[q], input[q]>>
            BY <4>1, <4>3 DEF Delete, Goto, Finish, IInv, TypeOK
        <5>2. Removing(q) /\ input[q].code = c
            BY <4>3, <5>1 DEF Removing
        <5>3. QED
            BY <4>1, <5>2 DEF RemovedOnce
      <4>4. QED
          BY <4>1, <4>2, <4>3
    <3>4. QED
        BY <3>2, <3>3
  <2>3. ASSUME NEW r \in Reqs, Removing(r)' PROVE input'[r] = input[r]
      BY <2>3, RemovesOrWaits
  <2>4. QED
      BY <1>1, <2>1, <2>2, <2>3 DEF RemovedOnce, IsRemoval, Removed
<1>2. ASSUME NEW p \in Reqs, Logs(p), audits' = audits \cup {AuditEntry(p)}
      PROVE  RemovedOnce'
  <2> DEFINE e == AuditEntry(p)
  <2>1. /\ phase[p] = "audit" /\ input[p].code \in Codes
        /\ phase'[p] # "audit" /\ UNCHANGED decisions
      BY <1>2 DEF Logs, Audit, AnswerLost, Goto, Finish, IInv, TypeOK, HandlersOK,
                  HandlerFacts, InFlight, Input
  <2>2. e.action = input[p].kind /\ e.code = input[p].code
      BY DEF AuditEntry
  <2>3. \A q \in Reqs : Removing(q)' => /\ Removing(q) /\ q # p
                                        /\ input'[q] = input[q]
    <3> SUFFICES ASSUME NEW q \in Reqs, Removing(q)'
                 PROVE  Removing(q) /\ q # p /\ input'[q] = input[q]
        OBVIOUS
    <3>1. q # p
        BY <2>1 DEF Removing
    <3>2. UNCHANGED <<phase[q], input[q]>>
        BY <1>2, <3>1 DEF Logs, Audit, AnswerLost, Goto, Finish, IInv, TypeOK
    <3>3. QED
        BY <3>1, <3>2 DEF Removing
  <2> HIDE DEF e
  <2>4. ASSUME NEW a \in audits', a.action = "delete"
        PROVE  /\ Removed(a.code)
               /\ \A b \in audits' : IsRemoval(b, a.code) => b = a
    <3>1. audits' = audits \cup {e}
        BY <1>2 DEF e
    <3>2. Removed(a.code)
        BY <2>1, <2>2, <2>4, <3>1 DEF RemovedOnce, Removing
    <3>3. ASSUME NEW b \in audits', IsRemoval(b, a.code) PROVE b = a
      <4>1. CASE a \in audits /\ b \in audits
          BY <2>4, <3>3, <4>1 DEF RemovedOnce, IsRemoval
      <4>2. CASE a = e /\ b \in audits
        <5>1. Removing(p) /\ a.code = input[p].code
            BY <2>1, <2>2, <2>4, <4>2 DEF Removing
        <5>2. QED
            BY <3>3, <4>2, <5>1 DEF RemovedOnce
      <4>3. CASE a \in audits /\ b = e
        <5>1. Removing(p) /\ a.code = input[p].code
            BY <2>1, <2>2, <3>3, <4>3 DEF Removing, IsRemoval
        <5>2. QED
            BY <2>4, <4>3, <5>1 DEF RemovedOnce, IsRemoval
      <4>4. QED
          BY <3>1, <4>1, <4>2, <4>3
    <3>4. QED
        BY <3>2, <3>3
  <2>5. ASSUME NEW r \in Reqs, Removing(r)'
        PROVE  /\ Removed(input'[r].code)
               /\ \A a \in audits' : ~IsRemoval(a, input'[r].code)
               /\ \A q \in Reqs : (Removing(q)' /\ input'[q].code = input'[r].code)
                                    => q = r
    <3>1. Removing(r) /\ r # p /\ input'[r] = input[r]
        BY <2>3, <2>5
    <3>2. \A a \in audits : ~IsRemoval(a, input[r].code)
        BY <3>1 DEF RemovedOnce
    <3>3. ~IsRemoval(e, input[r].code)
      <4>1. ASSUME IsRemoval(e, input[r].code) PROVE FALSE
        <5>1. Removing(p) /\ input[p].code = input[r].code
            BY <2>1, <2>2, <4>1 DEF Removing, IsRemoval
        <5>2. QED
            BY <3>1, <5>1 DEF RemovedOnce
      <4>2. QED
          BY <4>1
    <3>4. audits' = audits \cup {e}
        BY <1>2 DEF e
    <3>5. QED
        BY <2>3, <3>1, <3>2, <3>3, <3>4 DEF RemovedOnce
  <2>6. \A c : Removed(c)' <=> Removed(c)
      BY <2>1 DEF Removed
  <2>7. QED
      BY <2>4, <2>5, <2>6 DEF RemovedOnce, IsRemoval, Removed
<1>3. QED
    BY <1>1, <1>2, NewAudits

\* Administrators that delete a decision at the same time are not both told so:
\* the log holds one deletion of a code, of a deleted row (repository/base.go,
\* Delete, RowsAffected).
THEOREM RemovalsAreSingle == Spec => []SingleRemoval
<1>1. Init => RemovedOnce
    BY DEF Init, RemovedOnce, Removing
<1>2. RemovedOnce => SingleRemoval
    BY DEF RemovedOnce, Removed, IsRemoval, SingleRemoval
<1>3. QED
    BY <1>1, <1>2, RemovedOnceStep, Invariance, PTL DEF Spec

-----------------------------------------------------------------------------
(***************************************************************************)
(* Replies.                                                                *)
(***************************************************************************)
Recorded(row, table) ==
    /\ row.version \in DOMAIN table
    /\ table[row.version].status = row.status
    /\ table[row.version].evidence = row.evidence

RepliesRecorded ==
    \A r \in Reqs :
        /\ phase[r] = "preload" =>
              Recorded(current[r], revisions[input[r].code])
        /\ (phase[r] = "ok" /\ current[r] # NoDecision) =>
              Recorded(current[r], shown[r])

\* What a request reads for its reply is what the revisions say at that moment.
LEMMA ToPreload ==
    ASSUME IInv, [Next]_vars, NEW r \in Reqs, phase'[r] = "preload"
    PROVE  /\ input'[r].code \in Codes
           /\ \/ phase[r] = "preload" /\ UNCHANGED <<input[r], current[r]>>
              \/ /\ UNCHANGED revisions
                 /\ current'[r] = decisions[input'[r].code]
                 /\ decisions[input'[r].code] # NoDecision
<1>1. IInv'
    BY NextInductive
<1>2. input'[r].code \in Codes
    BY <1>1 DEF IInv, HandlersOK, HandlerFacts, InFlight, Input
<1>3. CASE ReceiveGet(r)
  <2>1. PICK user \in Users, c \in Codes :
            Enter(r, Request("get", user, c),
                  IF Live(decisions[c]) THEN "preload" ELSE "notFound", decisions[c])
      BY <1>3 DEF ReceiveGet
  <2>2. Live(decisions[c])
      BY <2>1 DEF Enter, IInv, TypeOK
  <2>3. input'[r] = Request("get", user, c) /\ current'[r] = decisions[c]
      BY <2>1, <2>2 DEF Enter, InFlight, IInv, TypeOK
  <2>4. UNCHANGED revisions
      BY <2>1 DEF Enter, database
  <2>5. QED
      BY <1>2, <2>2, <2>3, <2>4 DEF Request, Live
<1>4. CASE ReceiveCreate(r) \/ ReceiveUpdate(r) \/ ReceiveTransition(r)
             \/ ReceiveDelete(r)
  <2>1. ASSUME NEW request, NEW verdict, NEW snapshot,
               Enter(r, request, verdict, snapshot), verdict # "preload"
        PROVE  FALSE
      BY <2>1 DEF Enter, IInv, TypeOK
  <2>2. ASSUME NEW row, NEW user, NEW evidence, NEW target
        PROVE  /\ EditVerdict(row, user, evidence) # "preload"
               /\ ReviewVerdict(row, user, target) # "preload"
               /\ RemoveVerdict(row) # "preload"
      BY DEF EditVerdict, ReviewVerdict, RemoveVerdict
  <2>3. CASE ReceiveCreate(r)
      BY <2>1, <2>3 DEF ReceiveCreate
  <2>4. CASE ReceiveUpdate(r)
      BY <2>1, <2>2, <2>4 DEF ReceiveUpdate
  <2>5. CASE ReceiveTransition(r)
      BY <2>1, <2>2, <2>5 DEF ReceiveTransition
  <2>6. CASE ReceiveDelete(r)
      BY <2>1, <2>2, <2>6 DEF ReceiveDelete
  <2>7. QED
      BY <1>4, <2>3, <2>4, <2>5, <2>6
<1>5. CASE Reload(r)
    BY <1>2, <1>5 DEF Reload, Finish, Live, database, IInv, TypeOK
<1>6. CASE CreateWithRevision(r) \/ UpdateWithRevision(r) \/ Delete(r)
             \/ Audit(r) \/ Preload(r)
    BY <1>6 DEF CreateWithRevision, UpdateWithRevision, Delete, Audit, Preload,
                Goto, Finish, IInv, TypeOK
<1>7. CASE DatabaseFails(r) \/ AuditFails(r) \/ AnswerLost(r)
    BY <1>7 DEF DatabaseFails, AuditFails, AnswerLost, Goto, Finish, IInv, TypeOK
<1>8. QED
    BY <1>2, <1>3, <1>4, <1>5, <1>6, <1>7, Moves DEF Receive, Serve

LEMMA ToReply ==
    ASSUME IInv, [Next]_vars, NEW r \in Reqs, phase'[r] = "ok",
           current'[r] # NoDecision
    PROVE  /\ current'[r] = current[r]
           /\ \/ phase[r] = "ok" /\ shown'[r] = shown[r]
              \/ phase[r] = "preload" /\ shown'[r] = revisions[input[r].code]
<1>1. CASE Receive(r)
    BY <1>1, Arrives
<1>2. CASE Preload(r)
    BY <1>2 DEF Preload, IInv, TypeOK
<1>3. CASE CreateWithRevision(r) \/ UpdateWithRevision(r) \/ Delete(r)
             \/ Audit(r) \/ Reload(r)
    BY <1>3 DEF CreateWithRevision, UpdateWithRevision, Delete, Audit, Reload,
                Goto, Finish, IInv, TypeOK
<1>4. CASE DatabaseFails(r) \/ AuditFails(r) \/ AnswerLost(r)
    BY <1>4 DEF DatabaseFails, AuditFails, AnswerLost, Goto, Finish, IInv, TypeOK
<1>5. QED
    BY <1>1, <1>2, <1>3, <1>4, Moves DEF Serve

LEMMA RepliesRecordedStep == IInv /\ RepliesRecorded /\ [Next]_vars => RepliesRecorded'
<1> SUFFICES ASSUME IInv, RepliesRecorded, [Next]_vars, NEW r \in Reqs
             PROVE  /\ phase'[r] = "preload" =>
                         Recorded(current'[r], revisions'[input'[r].code])
                    /\ (phase'[r] = "ok" /\ current'[r] # NoDecision) =>
                         Recorded(current'[r], shown'[r])
    BY DEF RepliesRecorded, Recorded
<1>1. ASSUME phase'[r] = "preload"
      PROVE  Recorded(current'[r], revisions'[input'[r].code])
  <2> DEFINE c == input'[r].code
  <2>1. c \in Codes
      BY <1>1, ToPreload
  <2>2. CASE phase[r] = "preload" /\ UNCHANGED <<input[r], current[r]>>
    <3>1. Recorded(current[r], revisions[c])
        BY <2>2 DEF RepliesRecorded
    <3>2. /\ current[r].version \in DOMAIN revisions'[c]
          /\ revisions'[c][current[r].version] = revisions[c][current[r].version]
        BY <2>1, <3>1, RevisionsStay DEF Recorded
    <3>3. QED
        BY <2>2, <3>1, <3>2 DEF Recorded
  <2>3. CASE /\ UNCHANGED revisions
             /\ current'[r] = decisions[c] /\ decisions[c] # NoDecision
    <3>1. Recorded(decisions[c], revisions[c])
        BY <2>1, <2>3 DEF Recorded, IInv, RevisionChain, ChainOf
    <3>2. QED
        BY <2>3, <3>1
  <2>4. QED
      BY <1>1, <2>2, <2>3, ToPreload
<1>2. ASSUME phase'[r] = "ok", current'[r] # NoDecision
      PROVE  Recorded(current'[r], shown'[r])
    BY <1>2, ToReply DEF RepliesRecorded
<1>3. QED
    BY <1>1, <1>2

\* The row and the revisions of a reply are read by two statements
\* (repository/priority_decision.go, Get with Preload); whatever is written
\* between them, the reply contains the revision its row is from.
THEOREM RepliesAreTraceable == Spec => []ReplyIsTraceable
<1>1. Init => RepliesRecorded
    BY DEF Init, RepliesRecorded
<1>2. RepliesRecorded => ReplyIsTraceable
    BY DEF RepliesRecorded, Recorded, ReplyIsTraceable
<1>3. QED
    BY <1>1, <1>2, RepliesRecordedStep, Invariance, PTL DEF Spec

-----------------------------------------------------------------------------
(***************************************************************************)
(* Tables of revisions as sequences.                                       *)
(***************************************************************************)
LEMMA TableIsSequence ==
    ASSUME NEW S, NEW n \in Nat, NEW f \in [1 .. n -> S]
    PROVE  /\ f \in Seq(S)
           /\ Len(f) = n
           /\ n # 0 => f # <<>> /\ Head(f) = f[1]
           /\ n = 0 => f = <<>>
<1>1. f \in Seq(S) /\ Len(f) = n
    OBVIOUS
<1>2. n # 0 => f # <<>> /\ Head(f) = f[1]
    BY <1>1
<1>3. n = 0 => f = <<>>
    BY <1>1
<1>4. QED
    BY <1>1, <1>2, <1>3

LEMMA TableAppends ==
    ASSUME NEW S, NEW n \in Nat, NEW f \in [1 .. n -> S], NEW e \in S,
           NEW g \in [1 .. n + 1 -> S],
           \A v \in 1 .. n : g[v] = f[v], g[n + 1] = e
    PROVE  g = Append(f, e)
<1>1. f \in Seq(S) /\ Len(f) = n /\ g \in Seq(S) /\ Len(g) = n + 1
    BY TableIsSequence
<1>2. Append(f, e) \in Seq(S) /\ Len(Append(f, e)) = n + 1
    BY <1>1
<1>3. \A v \in 1 .. n + 1 : g[v] = Append(f, e)[v]
    BY <1>1
<1>4. QED
    BY <1>1, <1>2, <1>3, SeqEqual

EntryOf(revision) ==
    [status |-> revision.status, evidence |-> revision.evidence,
     actor |-> revision.actor]

Entries(table) == [v \in DOMAIN table |-> EntryOf(table[v])]

LEMMA TrailIsEntries ==
    /\ Trail(revisions) = [c \in Codes |-> Entries(revisions[c])]
    /\ Trail(revisions)' = [c \in Codes |-> Entries(revisions'[c])]
BY DEF Trail, Entries, EntryOf

LEMMA EntryIsTyped ==
    ASSUME NEW revision \in Revision
    PROVE  EntryOf(revision) \in Ledger!Entry
BY DEF EntryOf, Revision, Ledger!Entry, Ledger!PriorityDecisionStatuses,
       Ledger!PriorityLevels, PriorityDecisionStatuses, PriorityLevels

\* The trail of a decision: as many entries as its version, first to last.
LEMMA TrailOfRow ==
    ASSUME IInv, NEW c \in Codes, decisions[c] # NoDecision
    PROVE  LET row == decisions[c]
               trail == Trail(revisions)[c]
           IN  /\ row.version \in Nat \ {0}
               /\ trail \in [1 .. row.version -> Ledger!Entry]
               /\ trail # <<>>
               /\ Head(trail).actor = row.preparedBy
               /\ Ledger!Last(trail) = EntryOf(revisions[c][row.version])
<1> DEFINE n == decisions[c].version
           trail == Trail(revisions)[c]
<1>1. /\ n \in Nat \ {0} /\ DOMAIN revisions[c] = 1 .. n
      /\ revisions[c][1].actor = decisions[c].preparedBy
    BY DEF IInv, RevisionChain, ChainOf
<1>2. trail = [v \in 1 .. n |-> EntryOf(revisions[c][v])]
    BY <1>1, TrailIsEntries DEF Entries
<1>3. \A v \in 1 .. n : EntryOf(revisions[c][v]) \in Ledger!Entry
    BY <1>1, EntryIsTyped DEF IInv, TypeOK
<1>4. trail \in [1 .. n -> Ledger!Entry]
    BY <1>2, <1>3
<1> HIDE DEF trail
<1>5. trail # <<>> /\ Head(trail) = trail[1] /\ Len(trail) = n
    BY <1>1, <1>4, TableIsSequence
<1>6. Head(trail).actor = decisions[c].preparedBy
    BY <1>1, <1>2, <1>5 DEF EntryOf
<1>7. Ledger!Last(trail) = EntryOf(revisions[c][n])
    BY <1>1, <1>2, <1>5 DEF Ledger!Last
<1>8. QED
    BY <1>1, <1>4, <1>5, <1>6, <1>7 DEF trail

LEMMA TrailOfNothing ==
    ASSUME IInv, NEW c \in Codes, decisions[c] = NoDecision
    PROVE  Trail(revisions)[c] = <<>>
<1>1. DOMAIN revisions[c] = {}
    BY DEF IInv, RevisionChain, ChainOf
<1>2. Trail(revisions)[c] \in [1 .. 0 -> Ledger!Entry]
    BY <1>1, TrailIsEntries DEF Entries
<1>3. QED
    BY <1>2, TableIsSequence

\* A new last revision is an entry appended to the trail.
LEMMA OneEntry ==
    ASSUME IInv, IInv', NEW c \in Codes, NEW n \in Nat,
           DOMAIN revisions[c] = 1 .. n, DOMAIN revisions'[c] = 1 .. n + 1,
           \A v \in DOMAIN revisions[c] : revisions'[c][v] = revisions[c][v],
           \A d \in Codes \ {c} : revisions'[d] = revisions[d]
    PROVE  Trail(revisions)' =
             [Trail(revisions) EXCEPT ![c] =
                Append(Trail(revisions)[c], EntryOf(revisions'[c][n + 1]))]
<1> DEFINE f == Entries(revisions[c])
           g == Entries(revisions'[c])
           e == EntryOf(revisions'[c][n + 1])
<1>1. f \in [1 .. n -> Ledger!Entry]
    BY EntryIsTyped DEF Entries, IInv, TypeOK
<1>2. g \in [1 .. n + 1 -> Ledger!Entry]
    BY EntryIsTyped DEF Entries, IInv, TypeOK
<1>3. /\ \A v \in 1 .. n : g[v] = f[v]
      /\ g[n + 1] = e /\ e \in Ledger!Entry
  <2>1. g[n + 1] = e
      BY DEF Entries
  <2>2. \A v \in 1 .. n : g[v] = f[v]
      BY DEF Entries
  <2>3. QED
      BY <1>2, <2>1, <2>2
<1> HIDE DEF f, g, e
<1>4. g = Append(f, e)
    BY <1>1, <1>2, <1>3, TableAppends
<1>5. \A d \in Codes \ {c} : Entries(revisions'[d]) = Entries(revisions[d])
    OBVIOUS
<1>6. QED
    BY <1>4, <1>5, TrailIsEntries DEF f, g, e

-----------------------------------------------------------------------------
(***************************************************************************)
(* Who drafts: the role is checked before the request enters.              *)
(***************************************************************************)
CreatorsAdmitted ==
    \A r \in Reqs : (phase[r] = "write" /\ input[r].kind = "create") =>
        RequireMinimumRole(RoleOf[input[r].user], "operator")

LEMMA CreatorsAdmittedStep ==
    IInv /\ CreatorsAdmitted /\ [Next]_vars => CreatorsAdmitted'
<1> SUFFICES ASSUME IInv, CreatorsAdmitted, [Next]_vars, NEW r \in Reqs,
                    phase'[r] = "write", input'[r].kind = "create"
             PROVE  RequireMinimumRole(RoleOf[input'[r].user], "operator")
    BY DEF CreatorsAdmitted, RequireMinimumRole
<1>1. CASE ReceiveCreate(r)
  <2>1. PICK user \in Users, c \in Codes, evidence \in Evidence \cup {Blank} :
          /\ RequireMinimumRole(RoleOf[user], "operator")
          /\ Enter(r, [Request("create", user, c) EXCEPT !.evidence = evidence],
                   IF evidence = Blank THEN "rule" ELSE "write", NoDecision)
      BY <1>1 DEF ReceiveCreate
  <2>2. input'[r] = [Request("create", user, c) EXCEPT !.evidence = evidence]
      BY <2>1 DEF Enter, InFlight, IInv, TypeOK
  <2>3. input'[r].user = user
      BY <2>2 DEF Request
  <2>4. QED
      BY <2>1, <2>3
<1> DEFINE Entering(request) ==
             \E verdict, snapshot : Enter(r, request, verdict, snapshot)
<1>2. ASSUME NEW request, Entering(request)
      PROVE  request.kind = "create"
    BY <1>2 DEF Enter, InFlight, IInv, TypeOK
<1>3. CASE ReceiveUpdate(r)
  <2>1. PICK user \in Users, c \in Codes, evidence \in Evidence \cup {Blank} :
        \E expected \in KnownVersions(c) :
          Enter(r, [Request("update", user, c) EXCEPT !.expected = expected,
                                                      !.evidence = evidence],
                EditVerdict(decisions[c], user, evidence), decisions[c])
      BY <1>3 DEF ReceiveUpdate
  <2>2. PICK expected \in KnownVersions(c) :
          Entering([Request("update", user, c) EXCEPT !.expected = expected,
                                                      !.evidence = evidence])
      BY <2>1
  <2> DEFINE request == [Request("update", user, c) EXCEPT
                           !.expected = expected, !.evidence = evidence]
  <2>3. request.kind = "update"
      BY DEF Request
  <2> HIDE DEF request, Entering
  <2>4. Entering(request)
      BY <2>2 DEF request
  <2>5. QED
      BY <1>2, <2>3, <2>4
<1>4. CASE ReceiveTransition(r)
  <2>1. PICK user \in Users, c \in Codes, target \in PriorityDecisionStatuses :
        \E expected \in KnownVersions(c) :
          Enter(r, [Request("transition", user, c) EXCEPT
                      !.expected = expected, !.target = target],
                ReviewVerdict(decisions[c], user, target), decisions[c])
      BY <1>4 DEF ReceiveTransition
  <2>2. PICK expected \in KnownVersions(c) :
          Entering([Request("transition", user, c) EXCEPT
                      !.expected = expected, !.target = target])
      BY <2>1
  <2> DEFINE request == [Request("transition", user, c) EXCEPT
                           !.expected = expected, !.target = target]
  <2>3. request.kind = "transition"
      BY DEF Request
  <2> HIDE DEF request, Entering
  <2>4. Entering(request)
      BY <2>2 DEF request
  <2>5. QED
      BY <1>2, <2>3, <2>4
<1>5. CASE ReceiveDelete(r) \/ ReceiveGet(r)
  <2>1. ASSUME NEW user, NEW c
        PROVE  /\ Request("delete", user, c).kind = "delete"
               /\ Request("get", user, c).kind = "get"
      BY DEF Request
  <2>2. PICK kind \in {"delete", "get"} : \E user \in Users, c \in Codes :
          Entering(Request(kind, user, c))
      BY <1>5 DEF ReceiveDelete, ReceiveGet
  <2>3. QED
      BY <1>2, <2>1, <2>2
<1>6. CASE Serve(r)
    BY <1>6 DEF Serve, CreateWithRevision, UpdateWithRevision, Delete, Audit,
                Reload, Preload, Goto, Finish, IInv, TypeOK
<1>7. CASE DatabaseFails(r) \/ AuditFails(r) \/ AnswerLost(r)
    BY <1>7 DEF DatabaseFails, AuditFails, AnswerLost, Goto, Finish, IInv, TypeOK
<1>8. CASE UNCHANGED <<phase[r], input[r]>>
    BY <1>8 DEF CreatorsAdmitted
<1>9. QED
    BY <1>1, <1>3, <1>4, <1>5, <1>6, <1>7, <1>8, Moves DEF Receive

-----------------------------------------------------------------------------
(***************************************************************************)
(* Each transaction is one action of the ledger.                           *)
(***************************************************************************)
Gone == {c \in Codes : decisions[c] # NoDecision /\ decisions[c].deleted}

\* A draft and the first entry of its trail.
LEMMA CreateIsDraft ==
    ASSUME IInv, IInv', CreatorsAdmitted, NEW r \in Reqs, CreateWithRevision(r),
           decisions[input[r].code] = NoDecision
    PROVE  input[r].code \in Codes /\ Ledger!Draft(input[r].code)
<1> DEFINE c == input[r].code
           e == EntryOf(NewRevision(r, Edited(r)))
<1>1. /\ input[r] \in Input /\ c \in Codes
      /\ phase[r] = "write" /\ input[r].kind = "create"
      /\ input[r].evidence \in Evidence
    BY DEF IInv, HandlersOK, HandlerFacts, InFlight, Input, CreateWithRevision
<1>2. input[r].user \in Users
    BY <1>1 DEF Input
<1>3. DOMAIN revisions[c] = 1 .. 0
    BY <1>1 DEF IInv, RevisionChain, ChainOf
<1>4. /\ DOMAIN revisions'[c] = 1 .. 0 + 1
      /\ revisions'[c][0 + 1] = NewRevision(r, Edited(r))
      /\ \A d \in Codes \ {c} : revisions'[d] = revisions[d]
    BY CreateAdds DEF Adds
<1>5. Trail(revisions)' =
        [Trail(revisions) EXCEPT ![c] = Append(Trail(revisions)[c], e)]
  <2>1. \A v \in DOMAIN revisions[c] : revisions'[c][v] = revisions[c][v]
      BY <1>3
  <2> HIDE DEF c
  <2>2. Trail(revisions)' =
          [Trail(revisions) EXCEPT ![c] =
             Append(Trail(revisions)[c], EntryOf(revisions'[c][0 + 1]))]
      BY <1>1, <1>3, <1>4, <2>1, OneEntry
  <2>3. QED
      BY <1>4, <2>2
<1>6. e = [status |-> "draft", evidence |-> input[r].evidence,
           actor |-> input[r].user]
    BY <1>1 DEF EntryOf, NewRevision, Edited
<1>7. UNCHANGED Gone
  <2>1. decisions' = [decisions EXCEPT ![c] = Edited(r)]
      BY DEF CreateWithRevision
  <2>2. decisions'[c] = Edited(r) /\ \A d \in Codes \ {c} : decisions'[d] = decisions[d]
      BY <1>1, <2>1 DEF IInv, TypeOK
  <2>3. Edited(r).deleted = FALSE
      BY <1>1 DEF Edited
  <2>4. QED
      BY <2>2, <2>3 DEF Gone
<1>8. Trail(revisions)[c] = <<>>
    BY <1>1, TrailOfNothing
<1>9. Ledger!RequireMinimumRole(RoleOf[input[r].user], "operator")
    BY <1>1 DEF CreatorsAdmitted, RequireMinimumRole, RoleRank,
                Ledger!RequireMinimumRole, Ledger!RoleRank
<1>10. Ledger!Enter(c, [status |-> "draft", evidence |-> input[r].evidence,
                        actor |-> input[r].user])
    BY <1>5, <1>6, <1>7 DEF Ledger!Enter, Gone
<1>11. QED
    BY <1>1, <1>2, <1>8, <1>9, <1>10 DEF Ledger!Draft

\* The trail is open: the row that matched is the draft the handler read.
LEMMA MatchedIsOpen ==
    ASSUME Lookahead = 0, IInv, IInv', Snapshots, NEW r \in Reqs, Writes(r)
    PROVE  LET c == input[r].code
           IN  /\ c \in Codes
               /\ Ledger!Open(c)
               /\ Ledger!Preparer(c) = current[r].preparedBy
               /\ Ledger!Last(Trail(revisions)[c]).evidence = current[r].evidence
               /\ Ledger!Enter(c, EntryOf(NewRevision(r, Edited(r))))
<1> DEFINE c == input[r].code
           row == decisions[c]
<1>1. /\ c \in Codes /\ row # NoDecision /\ row.version \in Nat \ {0}
      /\ DOMAIN revisions[c] = 1 .. row.version
      /\ decisions'[c] = Rewritten(row, Edited(r))
      /\ decisions'[c] # NoDecision
      /\ DOMAIN revisions'[c] = 1 .. row.version + 1
      /\ revisions'[c][row.version + 1] = NewRevision(r, Edited(r))
      /\ \A v \in DOMAIN revisions[c] : revisions'[c][v] = revisions[c][v]
      /\ \A d \in Codes \ {c} : /\ decisions'[d] = decisions[d]
                                /\ revisions'[d] = revisions[d]
    BY WriteEffect
<1>2. row \in Decision /\ ~row.deleted
    BY <1>1 DEF Writes, Matches, Live, IInv, TypeOK
<1>3. /\ Trail(revisions)[c] # <<>>
      /\ Head(Trail(revisions)[c]).actor = row.preparedBy
      /\ Ledger!Last(Trail(revisions)[c]) = EntryOf(revisions[c][row.version])
    BY <1>1, TrailOfRow
<1>4. /\ revisions[c][row.version].status = "draft"
      /\ revisions[c][row.version].evidence = current[r].evidence
      /\ current[r].preparedBy = row.preparedBy
    BY WritesWhatItRead DEF Snapshots, SnapshotOf, Changes, Writes, UpdateWithRevision
<1>5. /\ Ledger!Last(Trail(revisions)[c]).status = "draft"
      /\ Ledger!Last(Trail(revisions)[c]).evidence = current[r].evidence
    BY <1>3, <1>4 DEF EntryOf
<1>6. c \notin Gone
    BY <1>2 DEF Gone
<1>7. UNCHANGED Gone
  <2>1. Rewritten(row, Edited(r)).deleted = row.deleted
      BY <1>2 DEF Rewritten, Decision
  <2>2. QED
      BY <1>1, <1>2, <2>1 DEF Gone
<1>8. Trail(revisions)' =
        [Trail(revisions) EXCEPT ![c] =
           Append(Trail(revisions)[c], EntryOf(NewRevision(r, Edited(r))))]
  <2> DEFINE n == row.version
  <2> HIDE DEF c, n
  <2>1. Trail(revisions)' =
          [Trail(revisions) EXCEPT ![c] =
             Append(Trail(revisions)[c], EntryOf(revisions'[c][n + 1]))]
      BY <1>1, OneEntry DEF n
  <2>2. QED
      BY <1>1, <2>1 DEF n
<1>9. Ledger!Open(c)
    BY <1>3, <1>5, <1>6 DEF Ledger!Open, Gone
<1>10. Ledger!Preparer(c) = current[r].preparedBy
    BY <1>3, <1>4 DEF Ledger!Preparer
<1>11. Ledger!Enter(c, EntryOf(NewRevision(r, Edited(r))))
    BY <1>7, <1>8 DEF Ledger!Enter, Gone
<1>12. QED
    BY <1>1, <1>5, <1>9, <1>10, <1>11

\* An edit amends, a transition finalises.
LEMMA UpdateIsAmendOrFinalise ==
    ASSUME Lookahead = 0, IInv, IInv', Snapshots, NEW r \in Reqs, Writes(r)
    PROVE  /\ input[r].code \in Codes
           /\ Ledger!Amend(input[r].code) \/ Ledger!Finalise(input[r].code)
<1> DEFINE c == input[r].code
           in == input[r]
           old == current[r]
           e == EntryOf(NewRevision(r, Edited(r)))
<1>1. /\ c \in Codes /\ Ledger!Open(c) /\ Ledger!Enter(c, e)
      /\ Ledger!Preparer(c) = old.preparedBy
      /\ Ledger!Last(Trail(revisions)[c]).evidence = old.evidence
    BY MatchedIsOpen
<1>2. /\ phase[r] = "write" /\ in \in Input /\ in.user \in Users
      /\ in.kind \in {"update", "transition"}
      /\ old \in Decision
      /\ HandlerFacts("write", in, old)
    BY DEF IInv, HandlersOK, HandlerFacts, InFlight, Writes, UpdateWithRevision, Input
<1>3. CASE in.kind = "update"
  <2>1. /\ in.evidence \in Evidence /\ old.status = "draft"
        /\ in.user = old.preparedBy \/ RoleOf[in.user] = "admin"
      BY <1>2, <1>3 DEF HandlerFacts, MayEdit
  <2>2. Edited(r).status = "draft" /\ Edited(r).evidence = in.evidence
      BY <1>2, <1>3, <2>1 DEF Edited, Decision
  <2>3. e = [status |-> "draft", evidence |-> in.evidence, actor |-> in.user]
      BY <2>2 DEF EntryOf, NewRevision
  <2> HIDE DEF e
  <2>4. Ledger!Amend(c)
      BY <1>1, <1>2, <2>1, <2>3 DEF Ledger!Amend
  <2>5. QED
      BY <1>1, <2>4
<1>4. CASE in.kind = "transition"
  <2>1. /\ in.target \in PriorityLevels
        /\ RoleOf[in.user] \in {"reviewer", "admin"}
        /\ in.user # old.preparedBy
      BY <1>2, <1>4 DEF HandlerFacts
  <2>2. Edited(r).status = in.target /\ Edited(r).evidence = old.evidence
      BY <1>2, <1>4 DEF Edited, Decision
  <2>3. e = [status |-> in.target, actor |-> in.user,
             evidence |-> Ledger!Last(Trail(revisions)[c]).evidence]
      BY <1>1, <2>2 DEF EntryOf, NewRevision
  <2> HIDE DEF e
  <2>4. in.target \in Ledger!PriorityLevels
      BY <2>1 DEF PriorityLevels, Ledger!PriorityLevels
  <2>5. Ledger!Finalise(c)
      BY <1>1, <1>2, <2>1, <2>3, <2>4 DEF Ledger!Finalise
  <2>6. QED
      BY <1>1, <2>5
<1>5. QED
    BY <1>2, <1>3, <1>4

LEMMA DeleteIsWithdraw ==
    ASSUME IInv, NEW r \in Reqs, NEW c \in Codes, c = input[r].code,
           Delete(r), Removes(decisions[c])
    PROVE  Ledger!Withdraw(c)
<1>1. decisions[c] # NoDecision /\ ~decisions[c].deleted /\ decisions[c] \in Decision
    BY DEF Removes, Live, IInv, TypeOK
<1>2. /\ decisions' = [decisions EXCEPT ![c].deleted = TRUE]
      /\ UNCHANGED revisions
    BY DEF Delete
<1>3. /\ decisions'[c] = [decisions[c] EXCEPT !.deleted = TRUE]
      /\ \A d \in Codes \ {c} : decisions'[d] = decisions[d]
    BY <1>2 DEF IInv, TypeOK
<1>4. decisions'[c] \in Decision /\ decisions'[c].deleted
    BY <1>1, <1>3 DEF Decision
<1>5. decisions'[c] # NoDecision
    BY <1>4, NoDecisionAssumption
<1>6. Gone' = Gone \cup {c} /\ c \notin Gone
    BY <1>1, <1>3, <1>4, <1>5 DEF Gone
<1>7. Trail(revisions)[c] # <<>>
    BY <1>1, TrailOfRow
<1>8. UNCHANGED Trail(revisions)
    BY <1>2, TrailIsEntries
<1>9. QED
    BY <1>6, <1>7, <1>8 DEF Ledger!Withdraw, Gone

LEMMA StepIsLedgerStep ==
    ASSUME Lookahead = 0, IInv, Snapshots, CreatorsAdmitted, [Next]_vars
    PROVE  [Ledger!LedgerNext]_(Ledger!ledger)
<1>1. IInv'
    BY NextInductive
<1>2. ASSUME UNCHANGED <<decisions, revisions>>
      PROVE  UNCHANGED Ledger!ledger
    BY <1>2, TrailIsEntries DEF Ledger!ledger
<1>3. ASSUME NEW r \in Reqs, CreateWithRevision(r)
      PROVE  [Ledger!LedgerNext]_(Ledger!ledger)
  <2>1. CASE decisions[input[r].code] = NoDecision
      BY <1>1, <1>3, <2>1, CreateIsDraft DEF Ledger!LedgerNext
  <2>2. CASE decisions[input[r].code] # NoDecision
      BY <1>2, <1>3, <2>2 DEF CreateWithRevision
  <2>3. QED
      BY <2>1, <2>2
<1>4. ASSUME NEW r \in Reqs, UpdateWithRevision(r)
      PROVE  [Ledger!LedgerNext]_(Ledger!ledger)
  <2>1. CASE Writes(r)
      BY <1>1, <2>1, UpdateIsAmendOrFinalise DEF Ledger!LedgerNext
  <2>2. CASE ~Writes(r)
      BY <1>2, <1>4, <2>2 DEF Writes, UpdateWithRevision
  <2>3. QED
      BY <2>1, <2>2
<1>5. ASSUME NEW r \in Reqs, Delete(r)
      PROVE  [Ledger!LedgerNext]_(Ledger!ledger)
  <2>1. CASE Removes(decisions[input[r].code])
    <3>1. input[r].code \in Codes
        BY <1>5 DEF IInv, HandlersOK, HandlerFacts, InFlight, Input, Delete
    <3>2. PICK c \in Codes : c = input[r].code
        BY <3>1
    <3>3. Ledger!Withdraw(c)
        BY <1>5, <2>1, <3>2, DeleteIsWithdraw
    <3>4. QED
        BY <3>3 DEF Ledger!LedgerNext
  <2>2. CASE ~Removes(decisions[input[r].code])
      BY <1>2, <1>5, <2>2 DEF Delete
  <2>3. QED
      BY <2>1, <2>2
<1>6. QED
    BY <1>2, <1>3, <1>4, <1>5, TablesUntouched

LEMMA InitIsLedgerInit == Init => Ledger!LedgerInit
<1> SUFFICES ASSUME Init PROVE Ledger!LedgerInit
    OBVIOUS
<1>1. Trail(revisions) = Trail([c \in Codes |->
          IF c \in DOMAIN SeedStatus THEN SeedRevisions(c) ELSE NoRevisions])
    BY DEF Init
<1>2. Gone = {}
  <2>1. \A c \in DOMAIN SeedStatus : SeedRow(c).deleted = FALSE
      BY DEF SeedRow
  <2>2. QED
      BY <2>1 DEF Init, Gone
<1>3. QED
    BY <1>1, <1>2 DEF Ledger!LedgerInit, Gone

\* For any number of concurrent requests and any faults the service does to its
\* tables what the ledger does, one entry or removal at a time
\* (service/priority_decision.go over repository/priority_decision.go), when
\* clients send only versions the decision has had.
THEOREM ServiceImplementsLedger ==
    ASSUME Lookahead = 0
    PROVE  Spec => ImplementsLedger
<1>1. Init => Snapshots /\ CreatorsAdmitted
    BY DEF Init, Snapshots, Changes, CreatorsAdmitted
<1>2. IInv /\ Snapshots /\ CreatorsAdmitted /\ [Next]_vars
        => Snapshots' /\ CreatorsAdmitted'
    BY SnapshotsStep, CreatorsAdmittedStep
<1>3. IInv /\ Snapshots /\ CreatorsAdmitted /\ [Next]_vars
        => [Ledger!LedgerNext]_(Ledger!ledger)
    BY StepIsLedgerStep
<1>4. QED
    BY <1>1, <1>2, <1>3, InitIsLedgerInit, Invariance, PTL
       DEF Spec, ImplementsLedger, Ledger!LedgerSpec

=============================================================================
