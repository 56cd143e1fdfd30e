--------------------------- MODULE WebClientProofs ---------------------------
(***************************************************************************)
(* Proofs about WebClient for any codes, users, operations of the tab and  *)
(* requests of other clients.                                              *)
(*                                                                         *)
(* A row that the page displays may be old, and its evidence newer than    *)
(* its version, but both are of the decision's history (Known), which only *)
(* grows.  So a transition that still finds its version finds the decision *)
(* as it was displayed.                                                    *)
(***************************************************************************)
EXTENDS WebClient, PriorityDecisionAuditProofs

\* What a displayed row says of its decision: the state of one version, with
\* the evidence of that version or of a later one.
Known(c, item) ==
    /\ decisions[c] # NoDecision
    /\ item.version \in 1 .. decisions[c].version
    /\ item.preparedBy = decisions[c].preparedBy
    /\ item.status = revisions[c][item.version].status
    /\ \E w \in item.version .. decisions[c].version :
          item.evidence = revisions[c][w].evidence

ListKnown == \A c \in DOMAIN items : Known(c, items[c])

AnswerKnown(o) ==
    /\ stage[o] = "rows" =>
         /\ DOMAIN answer[o] \subseteq Codes
         /\ \A c \in DOMAIN answer[o] :
               answer[o][c] \in Decision /\ Known(c, answer[o][c])
    /\ stage[o] = "read" =>
         /\ DOMAIN answer[o] \subseteq Codes
         /\ \A c \in DOMAIN answer[o] :
               answer[o][c] \in Item /\ Known(c, answer[o][c])

\* What the button of a transition requires of the user who presses it.
MayOffer(user, item, target) ==
    /\ MayReview(user)
    /\ user # item.preparedBy
    /\ item.status = "draft"
    /\ target \in PriorityLevels

DialogKnown ==
    dialog # NoDialog =>
        /\ Known(dialog.code, dialog.item)
        /\ session \in Users
        /\ MayOffer(session, dialog.item, dialog.target)

\* What a confirmed transition, or a creation, still says when it arrives.
WriteKnown(o) ==
    LET a == asked[o]
    IN  a # NotAsked =>
            /\ stage[o] # "unused"
            /\ a.ours =>
                 /\ a.bearer \in Users
                 /\ RequireMinimumRole(RoleOf[a.bearer], "operator")
            /\ a.kind = "create" => a.expected = 0
            /\ a.kind = "transition" =>
                 /\ Known(a.code, a.item)
                 /\ a.expected = a.item.version
                 /\ a.item.status = "draft" /\ a.target \in PriorityLevels
                 /\ a.ours => MayOffer(a.bearer, a.item, a.target)

\* The handler of an operation does what the operation asked for, and holds a
\* snapshot that is not older than the row displayed.
HandlerKnown(o) ==
    /\ phase[o] # "idle" => asked[o] # NotAsked
    /\ phase[o] \in InFlight =>
         /\ input[o].code = asked[o].code
         /\ input[o].kind = asked[o].kind
         /\ asked[o].kind = "transition" =>
              /\ input[o].expected = asked[o].expected
              /\ input[o].target = asked[o].target
              /\ phase[o] = "write" => asked[o].expected <= current[o].version

TabKnown ==
    /\ ListKnown /\ DialogKnown
    /\ \A o \in Ops : AnswerKnown(o) /\ WriteKnown(o) /\ HandlerKnown(o)

\* What the proofs of the handlers have shown of the tables.
ServerKnown == IInv /\ Snapshots /\ NothingBefore

WebInv == ServerKnown /\ WebTypeOK /\ TabKnown

-----------------------------------------------------------------------------
(***************************************************************************)
(* The rules the page and the server share.                                *)
(***************************************************************************)
LEMMA ReviewersOperate ==
    \A role \in Roles : RequireMinimumRole(role, "reviewer") =>
        role \in {"reviewer", "admin"} /\ RequireMinimumRole(role, "operator")
BY DEF Roles, RequireMinimumRole, RoleRank

LEMMA OnlyDraftsMove ==
    \A status \in PriorityDecisionStatuses :
        \A target \in PriorityDecisionTransitions[status] :
            status = "draft" /\ target \in PriorityLevels
BY DEF PriorityDecisionTransitions

-----------------------------------------------------------------------------
(***************************************************************************)
(* The server's side of a step.                                            *)
(***************************************************************************)
\* A write that the router refuses for its role: no handler runs.
Refused(o) ==
    /\ phase[o] = "idle" /\ phase' = [phase EXCEPT ![o] = "forbidden"]
    /\ UNCHANGED <<database, input, current, shown>>

\* A write the router lets through is a request like any client's; its version
\* is one the decision has had.
LEMMA ArriveIsReceive ==
    ASSUME WebInv, NEW o \in Ops, Arrive(o)
    PROVE  Refused(o) \/ Receive(o)
<1> DEFINE a == asked[o]
<1>1. /\ a \in Creation \cup Transition
      /\ a.bearer \in Users /\ a.code \in Codes
    BY DEF Arrive, WebInv, WebTypeOK, Creation, Transition
<1>2. CASE ~RequireMinimumRole(RoleOf[a.bearer], "operator")
  <2>1. Enter(o, NoInput, "forbidden", NoDecision)
      BY <1>2 DEF Arrive
  <2>2. QED
      BY <2>1 DEF Enter, Refused, InFlight
<1>3. CASE RequireMinimumRole(RoleOf[a.bearer], "operator") /\ a.kind = "create"
  <2>1. Enter(o, [Request("create", a.bearer, a.code) EXCEPT
                    !.evidence = NewEvidence], "write", NoDecision)
      BY <1>3 DEF Arrive
  <2>2. NewEvidence \in Evidence /\ NewEvidence # Blank
      BY NewAssumption, BlankAssumption
  <2>3. Enter(o, [Request("create", a.bearer, a.code) EXCEPT
                    !.evidence = NewEvidence],
              IF NewEvidence = Blank THEN "rule" ELSE "write", NoDecision)
      BY <2>1, <2>2
  <2>4. ReceiveCreate(o)
      BY <1>1, <1>3, <2>2, <2>3 DEF ReceiveCreate
  <2>5. QED
      BY <2>4 DEF Receive
<1>4. CASE RequireMinimumRole(RoleOf[a.bearer], "operator") /\ a.kind # "create"
  <2>1. a \in Transition /\ a.kind = "transition"
      BY <1>1, <1>4 DEF Creation, Transition
  <2>2. Enter(o, [Request("transition", a.bearer, a.code) EXCEPT
                    !.expected = a.expected, !.target = a.target],
              ReviewVerdict(decisions[a.code], a.bearer, a.target),
              decisions[a.code])
      BY <1>4 DEF Arrive
  <2>3. Known(a.code, a.item) /\ a.expected = a.item.version
      BY <2>1, NotAskedAssumption DEF WebInv, TabKnown, WriteKnown
  <2>4. a.expected \in KnownVersions(a.code)
    <3>1. decisions[a.code] # NoDecision /\ decisions[a.code].version \in Nat
        BY <1>1, <2>3 DEF Known, WebInv, ServerKnown, IInv, TypeOK, Decision
    <3>2. a.expected \in 1 .. decisions[a.code].version
        BY <2>3 DEF Known
    <3>3. QED
        BY <3>1, <3>2, LookaheadAssumption DEF KnownVersions
  <2>5. a.target \in PriorityDecisionStatuses
      BY <2>1 DEF Transition
  <2>6. ReceiveTransition(o)
      BY <1>1, <1>4, <2>2, <2>4, <2>5 DEF ReceiveTransition
  <2>7. QED
      BY <2>6 DEF Receive
<1>5. QED
    BY <1>2, <1>3, <1>4

\* Steps of the tab and of the server exclude each other.
TabActs ==
    \/ Leave \/ SignIn \/ SignOut \/ OtherTab \/ OpenDialog \/ Cancel
    \/ \E o \in Ops : User(o) \/ Lists(o) \/ Settle(o)

ServerActs == (\E o \in Ops : Arrive(o)) \/ Handlers

LEMMA TabOrServer ==
    ASSUME [WebNext]_webVars
    PROVE  \/ TabActs /\ UNCHANGED server
           \/ ServerActs /\ UNCHANGED tab
           \/ UNCHANGED <<tab, server>>
<1>1. CASE ServerActs
    BY <1>1 DEF ServerActs, Arrive, Handlers
<1>2. CASE Rest \/ UNCHANGED webVars
    BY <1>2 DEF Rest, webVars
<1>3. CASE Leave \/ SignIn \/ SignOut \/ OtherTab \/ OpenDialog \/ Cancel
    BY <1>3 DEF TabActs, Leave, SignIn, SignOut, OtherTab, OpenDialog, Cancel
<1>4. ASSUME NEW o \in Ops, User(o) \/ Lists(o) \/ Settle(o)
      PROVE  TabActs /\ UNCHANGED server
  <2>1. CASE User(o)
      BY <1>4, <2>1 DEF TabActs, User, EnterPage, Search, Load, CreateDemo, Confirm, Write
  <2>2. CASE Lists(o)
      BY <1>4, <2>2 DEF TabActs, Lists, ListRows, ListRevisions
  <2>3. CASE Settle(o)
      BY <1>4, <2>3 DEF TabActs, Settle, WriteAnswered, ListAnswered, FetchFails
  <2>4. QED
      BY <1>4, <2>1, <2>2, <2>3
<1>5. QED
    BY <1>1, <1>2, <1>3, <1>4 DEF WebNext, ServerActs

\* To the tables every step is one of the handlers', or nothing.
LEMMA HandlersMove ==
    ASSUME WebInv, [WebNext]_webVars
    PROVE  [Next]_vars \/ \E o \in Ops : Refused(o)
<1>1. ASSUME NEW o \in Ops, Arrive(o) PROVE Refused(o) \/ Next
    BY <1>1, ArriveIsReceive, OpsAssumption DEF Next
<1>2. CASE Handlers
    BY <1>2 DEF Handlers, OthersReceive, Next, Receive
<1>3. CASE UNCHANGED server
    BY <1>3 DEF server, vars, database
<1>4. QED
    BY <1>1, <1>2, <1>3, TabOrServer DEF ServerActs

LEMMA RefusedKeeps ==
    ASSUME ServerKnown, NEW o \in Ops, Refused(o)
    PROVE  ServerKnown'
<1>1. o \in Reqs
    BY OpsAssumption
<1>2. /\ phase' \in [Reqs -> Phases] /\ phase'[o] = "forbidden"
      /\ \A r \in Reqs \ {o} : phase'[r] = phase[r]
    BY <1>1 DEF Refused, ServerKnown, IInv, TypeOK, Phases, Outcomes
<1>3. IInv'
  <2>1. HandlerFacts(phase[o], input[o], current[o])'
      BY <1>1, <1>2, NothingOwed DEF Outcomes
  <2>2. QED
      BY <1>1, <1>2, <2>1, QuietStep DEF Refused, ServerKnown, IInv, TypeOK
<1>4. Snapshots'
    BY <1>2 DEF Refused, ServerKnown, Snapshots, Changes, SnapshotOf, database
<1>5. NothingBefore'
  <2> SUFFICES ASSUME NEW r \in Reqs, phase'[r] \in Untouched
               PROVE  NoTrace(r)'
      BY DEF NothingBefore
  <2>1. phase[r] \in Untouched
      BY <1>2 DEF Untouched, Refused
  <2>2. QED
      BY <2>1 DEF Refused, ServerKnown, NothingBefore, NoTrace, database
<1>6. QED
    BY <1>3, <1>4, <1>5 DEF ServerKnown

LEMMA ServerStep ==
    ASSUME WebInv, [WebNext]_webVars
    PROVE  ServerKnown'
<1>1. ASSUME [Next]_vars PROVE ServerKnown'
    BY <1>1, NextInductive, SnapshotsStep, NothingBeforeStep DEF WebInv, ServerKnown
<1>2. ASSUME NEW o \in Ops, Refused(o) PROVE ServerKnown'
    BY <1>2, RefusedKeeps DEF WebInv
<1>3. QED
    BY <1>1, <1>2, HandlersMove

\* What a row says of its decision stays true of it.
LEMMA KnownStays ==
    ASSUME WebInv, [WebNext]_webVars, NEW c \in Codes, NEW item, Known(c, item)
    PROVE  Known(c, item)'
<1>1. CASE UNCHANGED <<decisions, revisions>>
    BY <1>1 DEF Known
<1>2. CASE [Next]_vars
  <2>1. IInv /\ decisions[c] # NoDecision
      BY DEF WebInv, ServerKnown, Known
  <2>2. HistoryKept(c)
      BY <1>2, <2>1, HistoryStep
  <2>3. /\ decisions[c].version \in Nat \ {0}
        /\ DOMAIN revisions[c] = 1 .. decisions[c].version
      BY <2>1 DEF IInv, RevisionChain, ChainOf
  <2>4. decisions'[c].version \in {decisions[c].version, decisions[c].version + 1}
      BY <2>2 DEF HistoryKept
  <2>5. PICK w \in item.version .. decisions[c].version :
            item.evidence = revisions[c][w].evidence
      BY DEF Known
  <2>6. item.version \in 1 .. decisions[c].version /\ w \in 1 .. decisions[c].version
      BY <2>3, <2>5 DEF Known
  <2>7. /\ revisions'[c][item.version] = revisions[c][item.version]
        /\ revisions'[c][w] = revisions[c][w]
      BY <2>2, <2>3, <2>6 DEF HistoryKept
  <2>8. /\ item.version \in 1 .. decisions'[c].version
        /\ w \in item.version .. decisions'[c].version
      BY <2>3, <2>4, <2>5, <2>6
  <2>9. QED
      BY <2>2, <2>5, <2>7, <2>8 DEF Known, HistoryKept
<1>3. CASE \E o \in Ops : Refused(o)
    BY <1>1, <1>3 DEF Refused, database
<1>4. QED
    BY <1>2, <1>3, HandlersMove

-----------------------------------------------------------------------------
(***************************************************************************)
(* The tab's side of a step, one variable at a time.                       *)
(***************************************************************************)
\* A write stays what it was, but for the page it was confirmed on.
SameWrite(o) ==
    \/ asked'[o] = asked[o]
    \/ /\ asked[o] \in Transition
       /\ asked'[o] = [asked[o] EXCEPT !.here = FALSE]

\* The write an operation begins with.
Sends(o) ==
    /\ stage[o] = "unused" /\ stage'[o] = "write"
    /\ UNCHANGED <<server, session, dialog>>
    /\ \/ /\ CanAtLeast("operator")
          /\ \E code \in Codes :
               asked'[o] = [kind |-> "create", code |-> code, expected |-> 0,
                            bearer |-> token, ours |-> token = session]
       \/ /\ dialog # NoDialog
          /\ asked'[o] = Confirmed(dialog.item.version)

LEMMA LeaveEffect ==
    ASSUME WebInv, LeavePage, NEW o \in Ops
    PROVE  SameWrite(o)
<1>1. CASE IsTransition(o)
  <2>1. asked[o] \in Transition
      BY <1>1 DEF WebInv, WebTypeOK, IsTransition, Creation
  <2>2. QED
      BY <2>1 DEF LeavePage, SameWrite
<1>2. CASE ~IsTransition(o)
    BY <1>2 DEF LeavePage, SameWrite
<1>3. QED
    BY <1>1, <1>2

LEMMA AskedStep ==
    ASSUME WebInv, [WebNext]_webVars, NEW o \in Ops
    PROVE  SameWrite(o) \/ Sends(o)
<1>1. CASE UNCHANGED asked
    BY <1>1 DEF SameWrite, WebInv, WebTypeOK
<1>2. CASE Leave \/ SignIn \/ SignOut
    BY <1>2, LeaveEffect DEF Leave, SignIn, SignOut
<1>3. CASE OtherTab \/ OpenDialog \/ Cancel
    BY <1>1, <1>3 DEF OtherTab, OpenDialog, Cancel, ops
<1>4. ASSUME NEW q \in Ops, CreateDemo(q)
      PROVE  SameWrite(o) \/ Sends(o)
  <2>1. PICK code \in Codes :
            Write(q, [kind |-> "create", code |-> code, expected |-> 0,
                      bearer |-> token, ours |-> token = session])
      BY <1>4 DEF CreateDemo
  <2>2. CanAtLeast("operator")
      BY <1>4 DEF CreateDemo
  <2>3. QED
      BY <2>1, <2>2 DEF Write, SameWrite, Sends, who, WebInv, WebTypeOK
<1>5. ASSUME NEW q \in Ops, Confirm(q)
      PROVE  SameWrite(o) \/ Sends(o)
  <2>1. dialog # NoDialog /\ Write(q, Confirmed(dialog.item.version))
      BY <1>5 DEF Confirm
  <2>2. QED
      BY <2>1 DEF Write, SameWrite, Sends, who, WebInv, WebTypeOK
<1>6. ASSUME NEW q \in Ops, EnterPage(q) \/ Search(q) \/ Lists(q) \/ Settle(q)
      PROVE  UNCHANGED asked
    BY <1>6 DEF EnterPage, Search, Load, Lists, ListRows, ListRevisions, Settle,
                WriteAnswered, ListAnswered, FetchFails
<1>7. CASE UNCHANGED tab
    BY <1>1, <1>7 DEF tab, ops
<1>8. QED
    BY <1>1, <1>2, <1>3, <1>4, <1>5, <1>6, <1>7, TabOrServer
       DEF TabActs, User

\* Each operation has its write in every step.
LEMMA AskedOfAll ==
    ASSUME WebInv, [WebNext]_webVars
    PROVE  asked' = [o \in Ops |-> asked'[o]]
<1>1. asked = [o \in Ops |-> asked[o]]
    BY DEF WebInv, WebTypeOK
<1>2. CASE UNCHANGED asked
    BY <1>1, <1>2
<1>3. CASE LeavePage
    BY <1>3 DEF LeavePage
<1>4. ASSUME NEW o \in Ops, NEW request, asked' = [asked EXCEPT ![o] = request]
      PROVE  asked' = [q \in Ops |-> asked'[q]]
    BY <1>1, <1>4
<1>5. CASE Leave \/ SignIn \/ SignOut \/ OtherTab \/ OpenDialog \/ Cancel
    BY <1>2, <1>3, <1>5 DEF Leave, SignIn, SignOut, OtherTab, OpenDialog, Cancel, ops
<1>6. ASSUME NEW o \in Ops, User(o) \/ Lists(o) \/ Settle(o)
      PROVE  UNCHANGED asked \/ \E request : asked' = [asked EXCEPT ![o] = request]
    BY <1>6 DEF User, CreateDemo, Confirm, Write, EnterPage, Search, Load, Lists,
                ListRows, ListRevisions, Settle, WriteAnswered, ListAnswered, FetchFails
<1>7. CASE UNCHANGED tab
    BY <1>2, <1>7 DEF tab, ops
<1>8. QED
    BY <1>2, <1>4, <1>5, <1>6, <1>7, TabOrServer DEF TabActs

LEMMA AskListStage == AskForList \in {"asked", "refused"}
BY DEF AskForList

\* Operations begin once, and the list is read for them in two steps.
LEMMA StageStep ==
    ASSUME WebInv, [WebNext]_webVars
    PROVE  /\ stage' \in [Ops -> Stages] /\ DOMAIN answer' = Ops
           /\ \A o \in Ops :
                /\ stage[o] # "unused" => stage'[o] # "unused"
                /\ stage'[o] \in {"rows", "read"} =>
                     \/ stage'[o] = stage[o] /\ answer'[o] = answer[o]
                     \/ ListRows(o) \/ ListRevisions(o)
<1> DEFINE good ==
      /\ stage' \in [Ops -> Stages] /\ DOMAIN answer' = Ops
      /\ \A o \in Ops :
           /\ stage[o] # "unused" => stage'[o] # "unused"
           /\ stage'[o] \in {"rows", "read"} =>
                \/ stage'[o] = stage[o] /\ answer'[o] = answer[o]
                \/ ListRows(o) \/ ListRevisions(o)
<1>1. stage \in [Ops -> Stages] /\ DOMAIN answer = Ops
    BY DEF WebInv, WebTypeOK
<1>2. CASE UNCHANGED <<stage, answer>>
    BY <1>1, <1>2
<1>3. CASE Leave \/ SignIn \/ SignOut \/ OtherTab \/ OpenDialog \/ Cancel
    BY <1>2, <1>3 DEF Leave, SignIn, SignOut, OtherTab, OpenDialog, Cancel, ops
<1>4. ASSUME NEW q \in Ops, User(q) PROVE good
  <2>1. PICK how \in {"asked", "refused", "write"} :
            stage' = [stage EXCEPT ![q] = how] /\ UNCHANGED answer
      BY <1>4, AskListStage DEF User, EnterPage, Search, CreateDemo, Confirm, Load, Write
  <2>2. QED
      BY <1>1, <2>1 DEF Stages, UnderWay
<1>5. ASSUME NEW q \in Ops, Lists(q) PROVE good
  <2>1. CASE ListRows(q)
      BY <1>1, <2>1 DEF ListRows, Stages, UnderWay
  <2>2. CASE ListRevisions(q)
      BY <1>1, <2>2 DEF ListRevisions, Stages, UnderWay
  <2>3. QED
      BY <1>5, <2>1, <2>2 DEF Lists
<1>6. ASSUME NEW q \in Ops, Settle(q) PROVE good
  <2>1. PICK how \in {"done", "returned", "unseen", "failed", "asked", "refused"} :
            /\ stage' = [stage EXCEPT ![q] = how]
            /\ answer' = answer \/ answer' = [answer EXCEPT ![q] = NoItems]
    <3>1. CASE WriteAnswered(q) /\ phase[q] = "ok"
        BY <3>1, AskListStage DEF WriteAnswered
    <3>2. ASSUME NEW how \in {"returned", "unseen", "failed"}, End(q, how)
          PROVE  /\ \/ stage' = [stage EXCEPT ![q] = "done"]
                    \/ stage' = [stage EXCEPT ![q] = how]
                 /\ answer' = [answer EXCEPT ![q] = NoItems]
        BY <3>2 DEF End
    <3>3. QED
        BY <1>6, <3>1, <3>2 DEF Settle, WriteAnswered, ListAnswered, FetchFails
  <2>2. QED
      BY <1>1, <2>1 DEF Stages, UnderWay
<1>7. CASE UNCHANGED tab
    BY <1>2, <1>7 DEF tab, ops
<1>8. QED
    BY <1>3, <1>4, <1>5, <1>6, <1>7, TabOrServer DEF TabActs

LEMMA ItemsStep ==
    ASSUME WebInv, [WebNext]_webVars
    PROVE  items' = items \/ \E o \in Ops : stage[o] = "read" /\ items' = answer[o]
<1>1. CASE Leave \/ SignIn \/ SignOut \/ OtherTab \/ OpenDialog \/ Cancel
    BY <1>1 DEF Leave, SignIn, SignOut, OtherTab, OpenDialog, Cancel, store
<1>2. ASSUME NEW o \in Ops, User(o) PROVE items' = items
    BY <1>2 DEF User, EnterPage, Search, CreateDemo, Confirm, Load, Write
<1>3. ASSUME NEW o \in Ops, Lists(o) PROVE items' = items
    BY <1>3 DEF Lists, ListRows, ListRevisions, store
<1>4. ASSUME NEW o \in Ops, Settle(o)
      PROVE  items' = items \/ (stage[o] = "read" /\ items' = answer[o])
    BY <1>4 DEF Settle, WriteAnswered, ListAnswered, FetchFails
<1>5. CASE UNCHANGED tab
    BY <1>5 DEF tab, store
<1>6. QED
    BY <1>1, <1>2, <1>3, <1>4, <1>5, TabOrServer DEF TabActs

\* A dialog never outlives the session of its page, or the page.
LEMMA DialogStep ==
    ASSUME WebInv, [WebNext]_webVars
    PROVE  \/ dialog' = NoDialog
           \/ dialog' = dialog /\ session' = session /\ (onPage => onPage')
           \/ OpenDialog
<1>1. CASE Leave \/ SignIn \/ SignOut
    BY <1>1 DEF Leave, SignIn, SignOut, LeavePage
<1>2. CASE OtherTab \/ OpenDialog \/ Cancel
    BY <1>2 DEF OtherTab, Cancel
<1>3. ASSUME NEW o \in Ops, User(o)
      PROVE  dialog' = dialog /\ session' = session /\ (onPage => onPage')
    BY <1>3 DEF User, EnterPage, Search, CreateDemo, Confirm, Load, Write, who
<1>4. ASSUME NEW o \in Ops, Lists(o)
      PROVE  dialog' = dialog /\ session' = session /\ (onPage => onPage')
    BY <1>4 DEF Lists, ListRows, ListRevisions, who
<1>5. ASSUME NEW o \in Ops, Settle(o)
      PROVE  /\ session' = session /\ onPage' = onPage
             /\ dialog' = NoDialog \/ dialog' = dialog
    BY <1>5 DEF Settle, WriteAnswered, ListAnswered, FetchFails, End, who
<1>6. CASE UNCHANGED tab
    BY <1>6 DEF tab, who
<1>7. QED
    BY <1>1, <1>2, <1>3, <1>4, <1>5, <1>6, TabOrServer DEF TabActs

-----------------------------------------------------------------------------
(***************************************************************************)
(* The invariant of the tab, part by part.                                 *)
(***************************************************************************)
LEMMA ListStaysKnown ==
    ASSUME WebInv, [WebNext]_webVars
    PROVE  /\ DOMAIN items' \subseteq Codes
           /\ \A c \in DOMAIN items' : items'[c] \in Item
           /\ ListKnown'
<1>1. \/ items' = items
      \/ \E o \in Ops : stage[o] = "read" /\ items' = answer[o]
    BY ItemsStep
<1>2. /\ DOMAIN items' \subseteq Codes
      /\ \A c \in DOMAIN items' : items'[c] \in Item /\ Known(c, items'[c])
    BY <1>1 DEF WebInv, WebTypeOK, TabKnown, ListKnown, AnswerKnown
<1>3. ASSUME NEW c \in DOMAIN items' PROVE Known(c, items[c])'
  <2>1. PICK item : item = items'[c]
      OBVIOUS
  <2>2. Known(c, item)'
      BY <1>2, <2>1, KnownStays
  <2>3. QED
      BY <2>1, <2>2 DEF Known
<1>4. QED
    BY <1>2, <1>3 DEF ListKnown

\* What the page offers is what the reviewer may do with the row displayed.
LEMMA OffersFit ==
    ASSUME WebInv, NEW item \in Item, NEW target \in TargetsFor(item)
    PROVE  session \in Users /\ MayOffer(session, item, target)
<1>1. CanAtLeast("reviewer") /\ item.preparedBy # session
    BY DEF TargetsFor
<1>2. session \in Users /\ RoleOf[session] \in Roles
    BY <1>1, RolesAssumption DEF CanAtLeast, WebInv, WebTypeOK
<1>3. MayReview(session)
    BY <1>1, <1>2, ReviewersOperate DEF CanAtLeast, MayReview
<1>4. item.status \in PriorityDecisionStatuses
    BY DEF Item
<1>5. target \in PriorityDecisionTransitions[item.status]
    BY DEF TargetsFor
<1>6. QED
    BY <1>1, <1>2, <1>3, <1>4, <1>5, OnlyDraftsMove DEF MayOffer

LEMMA DialogStaysKnown ==
    ASSUME WebInv, [WebNext]_webVars
    PROVE  /\ dialog' \in Dialog \cup {NoDialog}
           /\ dialog' # NoDialog =>
                /\ onPage'
                /\ dialog'.target \in PriorityDecisionTransitions[dialog'.item.status]
           /\ DialogKnown'
<1>1. CASE dialog' = NoDialog
    BY <1>1 DEF DialogKnown
<1>2. CASE dialog' # NoDialog /\ dialog' = dialog /\ session' = session /\ (onPage => onPage')
  <2>1. /\ dialog \in Dialog /\ dialog.code \in Codes
        /\ Known(dialog.code, dialog.item)
        /\ session \in Users /\ MayOffer(session, dialog.item, dialog.target)
      BY <1>2 DEF WebInv, WebTypeOK, TabKnown, DialogKnown, Dialog
  <2>2. PICK c \in Codes : c = dialog.code
      BY <2>1
  <2>3. PICK item : item = dialog.item
      OBVIOUS
  <2>4. Known(c, item)'
      BY <2>1, <2>2, <2>3, KnownStays
  <2>5. Known(dialog.code, dialog.item)'
      BY <1>2, <2>2, <2>3, <2>4 DEF Known
  <2>6. QED
      BY <1>2, <2>1, <2>5 DEF DialogKnown, MayOffer, WebInv, WebTypeOK
<1>3. CASE OpenDialog
  <2>1. PICK c \in DOMAIN items : \E target \in TargetsFor(items[c]) :
            dialog' = [code |-> c, item |-> items[c], target |-> target]
      BY <1>3 DEF OpenDialog
  <2>2. PICK item : item = items[c]
      OBVIOUS
  <2>3. PICK target \in TargetsFor(item) :
            dialog' = [code |-> c, item |-> item, target |-> target]
      BY <2>1, <2>2
  <2>4. c \in Codes /\ item \in Item /\ Known(c, item)
      BY <2>2 DEF WebInv, WebTypeOK, TabKnown, ListKnown
  <2>5. session \in Users /\ MayOffer(session, item, target)
      BY <2>4, OffersFit
  <2>6. target \in PriorityDecisionTransitions[item.status]
      BY DEF TargetsFor
  <2>7. target \in PriorityDecisionStatuses
      BY <2>5 DEF MayOffer, PriorityDecisionStatuses
  <2>8. Known(c, item)'
      BY <2>4, KnownStays
  <2>9. onPage' /\ session' = session
      BY <1>3 DEF OpenDialog, who
  <2>10. Known(dialog.code, dialog.item)'
      BY <2>3, <2>8 DEF Known
  <2>11. dialog' \in Dialog
      BY <2>3, <2>4, <2>7 DEF Dialog
  <2>12. QED
      BY <2>3, <2>5, <2>6, <2>9, <2>10, <2>11 DEF DialogKnown, MayOffer
<1>4. QED
    BY <1>1, <1>2, <1>3, DialogStep

\* The rows of one statement, and the revisions of a later one.
LEMMA RowIsKnown ==
    ASSUME WebInv, NEW c \in Codes, Live(decisions[c])
    PROVE  decisions[c] \in Decision /\ Known(c, decisions[c])
<1>1. /\ decisions[c] \in Decision /\ decisions[c] # NoDecision
    BY DEF Live, WebInv, ServerKnown, IInv, TypeOK
<1>2. ChainOf(c)
    BY DEF WebInv, ServerKnown, IInv, RevisionChain
<1>3. QED
    BY <1>1, <1>2 DEF Known, ChainOf

LEMMA ItemIsKnown ==
    ASSUME WebInv, NEW c \in Codes, NEW row \in Decision, Known(c, row)
    PROVE  /\ ItemOf(row, revisions[c]) \in Item
           /\ Known(c, ItemOf(row, revisions[c]))
<1> DEFINE last == decisions[c].version
           latest == CHOOSE v \in DOMAIN revisions[c] :
                        \A w \in DOMAIN revisions[c] : w <= v
<1>1. last \in Nat \ {0} /\ DOMAIN revisions[c] = 1 .. last
    BY DEF Known, WebInv, ServerKnown, IInv, RevisionChain, ChainOf
<1>2. latest \in DOMAIN revisions[c] /\ \A w \in DOMAIN revisions[c] : w <= latest
  <2>1. last \in DOMAIN revisions[c] /\ \A w \in DOMAIN revisions[c] : w <= last
      BY <1>1
  <2>2. QED
      BY <2>1
<1>3. latest = last
    BY <1>1, <1>2
<1>4. revisions[c][last].evidence \in Evidence
  <2>1. revisions[c][last] \in Revision
      BY <1>1 DEF WebInv, ServerKnown, IInv, TypeOK
  <2>2. QED
      BY <2>1 DEF Revision
<1>5. ItemOf(row, revisions[c]) =
        [version |-> row.version, status |-> row.status,
         preparedBy |-> row.preparedBy, evidence |-> revisions[c][last].evidence]
    BY <1>3 DEF ItemOf
<1>6. ItemOf(row, revisions[c]) \in Item
    BY <1>4, <1>5 DEF Item, Decision
<1>7. Known(c, ItemOf(row, revisions[c]))
  <2>1. last \in row.version .. last
      BY <1>1 DEF Known
  <2>2. QED
      BY <1>5, <2>1 DEF Known
<1>8. QED
    BY <1>6, <1>7

LEMMA AnswerStaysKnown ==
    ASSUME WebInv, [WebNext]_webVars, NEW o \in Ops
    PROVE  AnswerKnown(o)'
<1>1. ASSUME NEW row, NEW c \in Codes, Known(c, row), row = answer'[o][c]
      PROVE  Known(c, answer[o][c])'
  <2>1. Known(c, row)'
      BY <1>1, KnownStays
  <2>2. QED
      BY <1>1, <2>1 DEF Known
<1>2. CASE stage'[o] = stage[o] /\ answer'[o] = answer[o]
    BY <1>1, <1>2 DEF AnswerKnown, WebInv, TabKnown
<1>3. CASE ListRows(o)
  <2>1. /\ stage'[o] = "rows"
        /\ answer'[o] = [c \in {c \in Codes : Live(decisions[c])} |-> decisions[c]]
      BY <1>3 DEF ListRows, WebInv, WebTypeOK
  <2>2. \A c \in DOMAIN answer'[o] :
            c \in Codes /\ answer'[o][c] \in Decision /\ Known(c, answer'[o][c])
      BY <2>1, RowIsKnown
  <2>3. QED
      BY <1>1, <2>1, <2>2 DEF AnswerKnown
<1>4. CASE ListRevisions(o)
  <2>1. /\ stage[o] = "rows" /\ stage'[o] = "read"
        /\ answer'[o] = [c \in DOMAIN answer[o] |-> ItemOf(answer[o][c], revisions[c])]
      BY <1>4 DEF ListRevisions, WebInv, WebTypeOK
  <2>2. \A c \in DOMAIN answer[o] :
            c \in Codes /\ answer[o][c] \in Decision /\ Known(c, answer[o][c])
      BY <2>1 DEF AnswerKnown, WebInv, TabKnown
  <2>3. ASSUME NEW c \in DOMAIN answer'[o]
        PROVE  c \in Codes /\ answer'[o][c] \in Item /\ Known(c, answer'[o][c])
    <3>1. PICK row : row = answer[o][c]
        OBVIOUS
    <3>2. c \in Codes /\ row \in Decision /\ Known(c, row)
        BY <2>1, <2>2, <2>3, <3>1
    <3>3. answer'[o][c] = ItemOf(row, revisions[c])
        BY <2>1, <2>3, <3>1
    <3>4. QED
        BY <3>2, <3>3, ItemIsKnown
  <2>4. QED
      BY <1>1, <2>1, <2>3 DEF AnswerKnown
<1>5. CASE stage'[o] \notin {"rows", "read"}
    BY <1>5 DEF AnswerKnown
<1>6. QED
    BY <1>2, <1>3, <1>4, <1>5, StageStep

\* A write keeps what it said of its decision, and begins with what the dialog
\* said.
LEMMA WriteStaysKnown ==
    ASSUME WebInv, [WebNext]_webVars, NEW o \in Ops
    PROVE  /\ asked'[o] \in Creation \cup Transition \cup {NotAsked}
           /\ WriteKnown(o)'
<1>1. CASE asked'[o] = NotAsked
    BY <1>1 DEF WriteKnown
<1>2. CASE SameWrite(o) /\ asked'[o] # NotAsked
  <2> DEFINE a == asked[o]
  <2>1. /\ asked'[o] \in Creation \cup Transition
        /\ a \in Creation \cup Transition /\ a # NotAsked
        /\ asked'[o].kind = a.kind /\ asked'[o].code = a.code
        /\ asked'[o].expected = a.expected
        /\ asked'[o].bearer = a.bearer /\ asked'[o].ours = a.ours
        /\ a.kind = "transition" =>
              asked'[o].item = a.item /\ asked'[o].target = a.target
    <3>1. CASE asked'[o] = a
        BY <1>2, <3>1 DEF WebInv, WebTypeOK
    <3>2. CASE a \in Transition /\ asked'[o] = [a EXCEPT !.here = FALSE]
        BY <3>2, NotAskedAssumption DEF Transition
    <3>3. QED
        BY <1>2, <3>1, <3>2 DEF SameWrite
  <2>2. WriteKnown(o) /\ stage'[o] # "unused"
      BY <2>1, StageStep DEF WebInv, TabKnown, WriteKnown
  <2>3. ASSUME a.kind = "transition" PROVE Known(asked[o].code, asked[o].item)'
    <3>1. a.code \in Codes /\ Known(a.code, a.item)
        BY <2>1, <2>2, <2>3 DEF WriteKnown, Creation, Transition
    <3>2. PICK c \in Codes : c = a.code
        BY <3>1
    <3>3. PICK item : item = a.item
        OBVIOUS
    <3>4. Known(c, item)'
        BY <3>1, <3>2, <3>3, KnownStays
    <3>5. QED
        BY <2>1, <2>3, <3>2, <3>3, <3>4 DEF Known
  <2>4. QED
      BY <2>1, <2>2, <2>3 DEF WriteKnown, MayOffer
<1>3. CASE Sends(o)
  <2>1. stage'[o] # "unused"
      BY <1>3 DEF Sends
  <2>2. token \in Users \cup {NoUser}
      BY DEF WebInv, WebTypeOK
  <2>3. CASE \E code \in Codes :
                asked'[o] = [kind |-> "create", code |-> code, expected |-> 0,
                             bearer |-> token, ours |-> token = session]
    <3>1. PICK code \in Codes :
              asked'[o] = [kind |-> "create", code |-> code, expected |-> 0,
                           bearer |-> token, ours |-> token = session]
        BY <2>3
    <3>2. PICK ours \in BOOLEAN : ours = (token = session)
        OBVIOUS
    <3>3. asked'[o] \in Creation
        BY <2>2, <3>1, <3>2 DEF Creation
    <3>4. ours => session \in Users /\ RequireMinimumRole(RoleOf[session], "operator")
      <4>1. CASE CanAtLeast("operator")
          BY <4>1 DEF CanAtLeast, WebInv, WebTypeOK
      <4>2. CASE ~CanAtLeast("operator")
          BY <1>3, <3>1, <4>2 DEF Sends, Confirmed
      <4>3. QED
          BY <4>1, <4>2
    <3>5. asked'[o] = [kind |-> "create", code |-> code, expected |-> 0,
                       bearer |-> token, ours |-> ours]
        BY <3>1, <3>2
    <3>6. /\ asked'[o].kind = "create" /\ asked'[o].bearer = token
          /\ asked'[o].ours = ours /\ asked'[o].expected = 0
        BY <3>5
    <3>7. ours => token = session
        BY <3>2
    <3>8. QED
        BY <2>1, <3>3, <3>4, <3>6, <3>7 DEF WriteKnown
  <2>4. CASE dialog # NoDialog /\ asked'[o] = Confirmed(dialog.item.version)
    <3>1. PICK d \in Dialog : d = dialog
        BY <2>4 DEF WebInv, WebTypeOK
    <3>2. PICK ours \in BOOLEAN : ours = (token = session)
        OBVIOUS
    <3>3. /\ d.code \in Codes /\ d.item \in Item /\ d.item.version \in Nat
          /\ d.target \in PriorityDecisionStatuses
        BY DEF Dialog, Item
    <3>4. /\ Known(d.code, d.item) /\ session \in Users
          /\ MayOffer(session, d.item, d.target)
        BY <2>4, <3>1 DEF WebInv, TabKnown, DialogKnown
    <3>5. asked'[o] = [kind |-> "transition", code |-> d.code,
                       expected |-> d.item.version, item |-> d.item,
                       target |-> d.target, bearer |-> token, ours |-> ours,
                       here |-> TRUE]
        BY <2>4, <3>1, <3>2 DEF Confirmed
    <3>6. asked'[o] \in Transition
        BY <2>2, <3>3, <3>5 DEF Transition
    <3>7. Known(asked[o].code, asked[o].item)'
      <4>1. PICK c \in Codes : c = d.code
          BY <3>3
      <4>2. PICK item : item = d.item
          OBVIOUS
      <4>3. Known(c, item)'
          BY <3>4, <4>1, <4>2, KnownStays
      <4>4. QED
          BY <3>5, <4>1, <4>2, <4>3 DEF Known
    <3>8. RequireMinimumRole(RoleOf[session], "operator")
        BY <3>4 DEF MayOffer, MayReview, RequireMinimumRole, RoleRank
    <3>9. /\ asked'[o].kind = "transition"
          /\ asked'[o].bearer = token /\ asked'[o].ours = ours
          /\ asked'[o].item = d.item /\ asked'[o].target = d.target
          /\ asked'[o].expected = d.item.version
        BY <3>5
    <3>10. ours => token = session
        BY <3>2
    <3>11. QED
        BY <2>1, <3>4, <3>6, <3>7, <3>8, <3>9, <3>10 DEF WriteKnown, MayOffer
  <2>5. QED
      BY <1>3, <2>3, <2>4 DEF Sends
<1>4. QED
    BY <1>1, <1>2, <1>3, AskedStep

\* A handler moves on its own, and keeps the request it was entered with.
LEMMA ServesOwn ==
    ASSUME IInv, NEW r \in Reqs, Serve(r), NEW o \in Reqs
    PROVE  \/ o # r /\ UNCHANGED <<phase[o], input[o], current[o]>>
           \/ /\ o = r
              /\ phase[o] \in InFlight
              /\ phase'[o] \notin {"idle", "write", "forbidden", "rule"}
              /\ phase'[o] \in InFlight => input'[o] = input[o]
<1> USE DEF InFlight, Goto, Finish, IInv, TypeOK
<1>1. CASE CreateWithRevision(r)
    BY <1>1 DEF CreateWithRevision
<1>2. CASE UpdateWithRevision(r)
    BY <1>2 DEF UpdateWithRevision
<1>3. CASE Delete(r)
    BY <1>3 DEF Delete
<1>4. CASE Audit(r)
    BY <1>4 DEF Audit
<1>5. CASE Reload(r)
    BY <1>5 DEF Reload
<1>6. CASE Preload(r)
    BY <1>6 DEF Preload
<1>7. QED
    BY <1>1, <1>2, <1>3, <1>4, <1>5, <1>6 DEF Serve

LEMMA OthersLeaveAlone ==
    ASSUME IInv, NEW r \in Reqs \ Ops, OthersReceive(r), NEW o \in Ops
    PROVE  UNCHANGED <<phase[o], input[o], current[o]>>
<1>1. PICK request, verdict, snapshot : Enter(r, request, verdict, snapshot)
    BY DEF OthersReceive, ReceiveUpdate, ReceiveTransition, ReceiveDelete
<1>2. o # r /\ o \in Reqs
    BY OpsAssumption
<1>3. QED
    BY <1>1, <1>2 DEF Enter, IInv, TypeOK

\* A write that arrives is taken up as it was sent, on the row of the moment.
LEMMA ArriveEffect ==
    ASSUME WebInv, NEW o \in Ops, Arrive(o)
    PROVE  /\ asked[o] # NotAsked /\ phase[o] = "idle"
           /\ phase'[o] \in {"write", "notFound", "forbidden", "rule"}
           /\ \A q \in Ops \ {o} : UNCHANGED <<phase[q], input[q], current[q]>>
           /\ phase'[o] \in InFlight =>
                /\ input'[o].code = asked[o].code
                /\ input'[o].kind = asked[o].kind
                /\ asked[o].kind = "transition" =>
                     /\ input'[o].expected = asked[o].expected
                     /\ input'[o].target = asked[o].target
                     /\ current'[o] = decisions[asked[o].code]
<1> DEFINE a == asked[o]
<1>1. IInv /\ Ops \subseteq Reqs
    BY OpsAssumption DEF WebInv, ServerKnown
<1>2. a # NotAsked /\ a \in Creation \cup Transition
    BY DEF Arrive, WebInv, WebTypeOK
<1>3. ASSUME NEW request, NEW verdict, NEW snapshot,
             Enter(o, request, verdict, snapshot)
      PROVE  /\ phase[o] = "idle" /\ phase'[o] = verdict
             /\ \A q \in Ops \ {o} : UNCHANGED <<phase[q], input[q], current[q]>>
             /\ verdict \in InFlight => input'[o] = request /\ current'[o] = snapshot
    BY <1>1, <1>3 DEF Enter, IInv, TypeOK
<1>4. CASE ~RequireMinimumRole(RoleOf[a.bearer], "operator")
  <2>1. Enter(o, NoInput, "forbidden", NoDecision)
      BY <1>4 DEF Arrive
  <2>2. QED
      BY <1>2, <1>3, <2>1 DEF InFlight
<1>5. CASE RequireMinimumRole(RoleOf[a.bearer], "operator") /\ a.kind = "create"
  <2>1. PICK request : request = [Request("create", a.bearer, a.code) EXCEPT
                                    !.evidence = NewEvidence]
      OBVIOUS
  <2>2. Enter(o, request, "write", NoDecision)
      BY <1>5, <2>1 DEF Arrive
  <2>3. request.code = a.code /\ request.kind = "create"
      BY <2>1 DEF Request
  <2>4. QED
      BY <1>2, <1>3, <1>5, <2>2, <2>3
<1>6. CASE RequireMinimumRole(RoleOf[a.bearer], "operator") /\ a.kind # "create"
  <2>1. PICK request : request = [Request("transition", a.bearer, a.code) EXCEPT
                                    !.expected = a.expected, !.target = a.target]
      OBVIOUS
  <2>2. PICK verdict : verdict = ReviewVerdict(decisions[a.code], a.bearer, a.target)
      OBVIOUS
  <2>3. Enter(o, request, verdict, decisions[a.code])
      BY <1>6, <2>1, <2>2 DEF Arrive
  <2>4. /\ request.code = a.code /\ request.kind = "transition"
        /\ request.expected = a.expected /\ request.target = a.target
      BY <2>1 DEF Request
  <2>5. a.kind = "transition"
      BY <1>2, <1>6 DEF Creation, Transition
  <2>6. PICK snapshot : snapshot = decisions[a.code]
      OBVIOUS
  <2>7. verdict \in {"write", "notFound", "forbidden", "rule"}
      BY <2>2 DEF ReviewVerdict
  <2>8. QED
      BY <1>2, <1>3, <2>3, <2>4, <2>5, <2>6, <2>7
<1>7. QED
    BY <1>4, <1>5, <1>6

LEMMA HandlerStaysKnown ==
    ASSUME WebInv, [WebNext]_webVars, NEW o \in Ops
    PROVE  HandlerKnown(o)'
<1> DEFINE a == asked[o]
<1>1. HandlerKnown(o) /\ WriteKnown(o) /\ IInv /\ o \in Reqs /\ Ops \subseteq Reqs
    BY OpsAssumption DEF WebInv, TabKnown, ServerKnown
<1>2. CASE Sends(o)
  <2>1. a = NotAsked
      BY <1>1, <1>2 DEF Sends, WriteKnown
  <2>2. phase'[o] = "idle"
      BY <1>1, <1>2, <2>1 DEF Sends, HandlerKnown, server
  <2>3. QED
      BY <2>2 DEF HandlerKnown, InFlight
<1>3. CASE SameWrite(o) /\ UNCHANGED server
  <2>1. CASE asked'[o] = a
      BY <1>1, <1>3, <2>1 DEF HandlerKnown, server
  <2>2. CASE a \in Transition /\ asked'[o] = [a EXCEPT !.here = FALSE]
    <3>1. /\ asked'[o] \in Transition /\ asked'[o] # NotAsked
          /\ asked'[o].kind = a.kind /\ asked'[o].code = a.code
          /\ asked'[o].expected = a.expected /\ asked'[o].target = a.target
        BY <2>2, NotAskedAssumption DEF Transition
    <3>2. a # NotAsked
        BY <2>2, NotAskedAssumption
    <3>3. QED
        BY <1>1, <1>3, <3>1, <3>2 DEF HandlerKnown, server
  <2>3. QED
      BY <1>3, <2>1, <2>2 DEF SameWrite
<1>4. ASSUME NEW q \in Ops, Arrive(q), UNCHANGED tab PROVE HandlerKnown(o)'
  <2>1. asked' = asked
      BY <1>4 DEF tab, ops
  <2>2. CASE q # o
      BY <1>1, <1>4, <2>1, <2>2, ArriveEffect DEF HandlerKnown
  <2>3. CASE q = o
    <3>1. a.kind = "transition" => a.expected <= decisions[a.code].version
        BY <1>1, <1>4, <2>3, ArriveEffect DEF WriteKnown, Known
    <3>2. QED
        BY <1>4, <2>1, <2>3, <3>1, ArriveEffect DEF HandlerKnown
  <2>4. QED
      BY <2>2, <2>3
<1>5. CASE Handlers
  <2>1. asked' = asked
      BY <1>5 DEF Handlers, tab, ops
  <2>2. CASE UNCHANGED <<phase[o], input[o], current[o]>>
      BY <1>1, <2>1, <2>2 DEF HandlerKnown
  <2>3. CASE /\ phase[o] \in InFlight /\ phase'[o] \notin {"idle", "write"}
             /\ phase'[o] \in InFlight => input'[o] = input[o]
      BY <1>1, <2>1, <2>3 DEF HandlerKnown, InFlight
  <2>4. QED
      BY <1>1, <1>5, <2>2, <2>3, OthersLeaveAlone, ServesOwn DEF Handlers
<1>6. CASE UNCHANGED <<tab, server>>
    BY <1>1, <1>6 DEF HandlerKnown, tab, ops, server
<1>7. QED
    BY <1>2, <1>3, <1>4, <1>5, <1>6, TabOrServer, AskedStep DEF ServerActs

-----------------------------------------------------------------------------
(***************************************************************************)
(* The invariant of every execution.                                       *)
(***************************************************************************)
LEMMA SessionStep ==
    ASSUME WebInv, [WebNext]_webVars
    PROVE  /\ session' \in Users \cup {NoUser} /\ token' \in Users \cup {NoUser}
           /\ loading' \in BOOLEAN /\ onPage' \in BOOLEAN
<1> USE DEF WebInv, WebTypeOK
<1>1. CASE Leave \/ SignIn \/ SignOut
    BY <1>1 DEF Leave, SignIn, SignOut, LeavePage, store
<1>2. CASE OtherTab
    BY <1>2, SwitchesAssumption DEF OtherTab, store
<1>3. CASE OpenDialog \/ Cancel
    BY <1>3 DEF OpenDialog, Cancel, store, who
<1>4. ASSUME NEW o \in Ops, User(o)
      PROVE  UNCHANGED <<session, token>> /\ loading' = TRUE /\ onPage' \in BOOLEAN
    BY <1>4 DEF User, EnterPage, Search, Load, CreateDemo, Confirm, Write, who
<1>5. ASSUME NEW o \in Ops, Lists(o)
      PROVE  UNCHANGED <<session, token, loading, onPage>>
    BY <1>5 DEF Lists, ListRows, ListRevisions, who, store
<1>6. ASSUME NEW o \in Ops, Settle(o)
      PROVE  UNCHANGED <<session, token, onPage>> /\ loading' \in BOOLEAN
    BY <1>6 DEF Settle, WriteAnswered, ListAnswered, FetchFails, End, who
<1>7. CASE UNCHANGED tab
    BY <1>7 DEF tab, who, store
<1>8. QED
    BY <1>1, <1>2, <1>3, <1>4, <1>5, <1>6, <1>7, TabOrServer DEF TabActs

LEMMA InitWebInv == WebInit => WebInv
<1> SUFFICES ASSUME WebInit PROVE WebInv
    OBVIOUS
<1>1. Init /\ IInv /\ NothingBefore
    BY InitInductive, NothingAtFirst DEF WebInit
<1>2. Snapshots
    BY <1>1 DEF Init, Snapshots, Changes
<1>3. DOMAIN NoItems = {}
    BY DEF NoItems
<1>4. WebTypeOK
    BY <1>3 DEF WebInit, WebTypeOK, Stages
<1>5. TabKnown
  <2>1. ListKnown /\ DialogKnown
      BY <1>3 DEF WebInit, ListKnown, DialogKnown
  <2>2. ASSUME NEW o \in Ops PROVE AnswerKnown(o) /\ WriteKnown(o) /\ HandlerKnown(o)
      BY <1>1, OpsAssumption
         DEF WebInit, Init, AnswerKnown, WriteKnown, HandlerKnown, InFlight
  <2>3. QED
      BY <2>1, <2>2 DEF TabKnown
<1>6. QED
    BY <1>1, <1>2, <1>4, <1>5 DEF WebInv, ServerKnown

LEMMA WebInvStep == WebInv /\ [WebNext]_webVars => WebInv'
<1> SUFFICES ASSUME WebInv, [WebNext]_webVars PROVE WebInv'
    OBVIOUS
<1>1. ServerKnown'
    BY ServerStep
<1>2. TabKnown'
    BY ListStaysKnown, DialogStaysKnown, AnswerStaysKnown, WriteStaysKnown,
       HandlerStaysKnown DEF TabKnown
<1>3. asked' \in [Ops -> Creation \cup Transition \cup {NotAsked}]
    BY AskedOfAll, WriteStaysKnown
<1>4. WebTypeOK'
    BY <1>3, ListStaysKnown, DialogStaysKnown, SessionStep, StageStep DEF WebTypeOK
<1>5. QED
    BY <1>1, <1>2, <1>4 DEF WebInv

\* What the page holds is typed, and its dialog offers what its row allows
\* (components/EntityPage.vue, targetsFor).
THEOREM WebTypeCorrect == WebSpec => []WebTypeOK
<1>1. WebInv => WebTypeOK
    BY DEF WebInv
<1>2. QED
    BY <1>1, InitWebInv, WebInvStep, PTL DEF WebSpec

-----------------------------------------------------------------------------
(***************************************************************************)
(* The mask.                                                               *)
(***************************************************************************)
LEMMA MaskStep ==
    ASSUME WebInv, MaskHasReason, [WebNext]_webVars
    PROVE  MaskHasReason'
<1>1. stage \in [Ops -> Stages]
    BY DEF WebInv, WebTypeOK
<1>2. CASE UNCHANGED <<loading, stage>>
    BY <1>2 DEF MaskHasReason
<1>3. CASE Leave \/ SignIn \/ SignOut \/ OtherTab \/ OpenDialog \/ Cancel
    BY <1>2, <1>3 DEF Leave, SignIn, SignOut, OtherTab, OpenDialog, Cancel, store, ops
<1>4. ASSUME NEW o \in Ops, NEW how \in UnderWay, stage' = [stage EXCEPT ![o] = how]
      PROVE  MaskHasReason'
  <2>1. stage'[o] \in UnderWay
      BY <1>1, <1>4
  <2>2. QED
      BY <2>1 DEF MaskHasReason
<1>5. ASSUME NEW o \in Ops, User(o) \/ Lists(o) PROVE MaskHasReason'
  <2>1. \E how \in UnderWay : stage' = [stage EXCEPT ![o] = how]
      BY <1>5, AskListStage DEF User, EnterPage, Search, CreateDemo, Confirm, Load,
                                Write, Lists, ListRows, ListRevisions, UnderWay
  <2>2. QED
      BY <1>4, <2>1
<1>6. ASSUME NEW o \in Ops, Settle(o) PROVE MaskHasReason'
  <2>1. CASE WriteAnswered(o) /\ phase[o] = "ok"
    <3>1. \E how \in UnderWay : stage' = [stage EXCEPT ![o] = how]
        BY <2>1, AskListStage DEF WriteAnswered, UnderWay
    <3>2. QED
        BY <1>4, <3>1
  <2>2. CASE ~(WriteAnswered(o) /\ phase[o] = "ok")
    <3>1. \E how : End(o, how)
        BY <1>6, <2>2 DEF Settle, WriteAnswered, ListAnswered, FetchFails
    <3>2. loading' = FALSE
        BY <3>1 DEF End
    <3>3. QED
        BY <3>2 DEF MaskHasReason
  <2>3. QED
      BY <2>1, <2>2
<1>7. CASE UNCHANGED tab
    BY <1>2, <1>7 DEF tab, store, ops
<1>8. QED
    BY <1>3, <1>5, <1>6, <1>7, TabOrServer DEF TabActs

\* Whatever fails, overlaps or is lost, the table is not left masked with
\* nothing under way (stores/factory.ts: every operation clears `loading` in its
\* `finally`).
THEOREM MaskIsLifted == WebSpec => []MaskHasReason
<1>1. WebInit => MaskHasReason
    BY DEF WebInit, MaskHasReason
<1>2. QED
    BY <1>1, MaskStep, InitWebInv, WebInvStep, PTL DEF WebSpec

-----------------------------------------------------------------------------
(***************************************************************************)
(* What is applied is what was confirmed.                                  *)
(***************************************************************************)
LEMMA SameTransition ==
    ASSUME WebInv, NEW o \in Ops, SameWrite(o), IsTransition(o)'
    PROVE  /\ asked[o] \in Transition /\ IsTransition(o)
           /\ asked'[o].code = asked[o].code /\ asked'[o].item = asked[o].item
           /\ asked'[o].target = asked[o].target
           /\ asked'[o].ours = asked[o].ours
           /\ asked'[o].expected = asked[o].expected
<1>1. CASE asked'[o] = asked[o]
  <2>1. IsTransition(o) /\ asked[o] \in Creation \cup Transition
      BY <1>1 DEF IsTransition, WebInv, WebTypeOK
  <2>2. QED
      BY <1>1, <2>1 DEF IsTransition, Creation
<1>2. CASE asked[o] \in Transition /\ asked'[o] = [asked[o] EXCEPT !.here = FALSE]
    BY <1>2, NotAskedAssumption DEF Transition, IsTransition
<1>3. QED
    BY <1>1, <1>2 DEF SameWrite

\* An operation whose write has not begun has left no revision, and an
\* operation that has a revision keeps its write.
LEMMA RevisedIsSame ==
    ASSUME WebInv, [WebNext]_webVars, NEW o \in Ops,
           NEW c \in Codes, NEW v \in DOMAIN revisions[c],
           revisions[c][v].request = o
    PROVE  SameWrite(o)
<1>1. o \in Reqs
    BY OpsAssumption
<1>2. phase[o] # "idle"
    BY <1>1 DEF WebInv, ServerKnown, NothingBefore, NoTrace, Untouched
<1>3. asked[o] # NotAsked
    BY <1>2 DEF WebInv, TabKnown, HandlerKnown
<1>4. stage[o] # "unused"
    BY <1>3 DEF WebInv, TabKnown, WriteKnown
<1>5. QED
    BY <1>4, AskedStep DEF Sends

\* The transaction of a confirmed transition finds the version the row
\* displayed, and its handler read the decision no earlier than the page, so
\* snapshot, row and table agree.
LEMMA AddsAsConfirmed ==
    ASSUME WebInv, NEW o \in Ops, NEW c \in Codes, NEW v, Adds(o, c, v),
           IsTransition(o)
    PROVE  /\ c = asked[o].code
           /\ v = asked[o].item.version + 1
           /\ revisions'[c][v].status = asked[o].target
           /\ revisions'[c][v].evidence = asked[o].item.evidence
<1> DEFINE a == asked[o]
           row == decisions[c]
           old == current[o]
<1>1. /\ o \in Reqs /\ phase[o] = "write"
      /\ a # NotAsked /\ a.kind = "transition"
    BY OpsAssumption DEF Adds, IsTransition
<1>2. /\ input[o].code = a.code /\ input[o].kind = "transition"
      /\ input[o].expected = a.expected /\ input[o].target = a.target
      /\ a.expected <= old.version
    BY <1>1 DEF WebInv, TabKnown, HandlerKnown, InFlight
<1>3. /\ c = a.code /\ Writes(o) /\ v = row.version + 1
      /\ revisions'[c][v] = NewRevision(o, Edited(o))
    BY <1>2 DEF Adds
<1>4. row.version = a.expected /\ row.version \in Nat \ {0}
    BY <1>1, <1>2, <1>3, WriteEffect DEF Writes, Matches, WebInv, ServerKnown
<1>5. /\ old.version \in 1 .. row.version
      /\ revisions[c][old.version].evidence = old.evidence
    BY <1>1, <1>2, <1>3 DEF WebInv, ServerKnown, Snapshots, Changes, SnapshotOf
<1>6. old.version = row.version
    BY <1>2, <1>4, <1>5
<1>7. a.item.version = row.version /\ Known(c, a.item)
    BY <1>1, <1>3, <1>4 DEF WebInv, TabKnown, WriteKnown
<1>8. a.item.evidence = old.evidence
  <2>1. PICK w \in a.item.version .. row.version :
            a.item.evidence = revisions[c][w].evidence
      BY <1>7 DEF Known
  <2>2. w = row.version
      BY <1>4, <1>7, <2>1
  <2>3. QED
      BY <1>5, <1>6, <2>1, <2>2
<1>9. Edited(o).status = a.target /\ Edited(o).evidence = old.evidence
  <2>1. old \in Decision
      BY <1>1, <1>2 DEF WebInv, ServerKnown, IInv, HandlersOK, HandlerFacts
  <2>2. QED
      BY <1>2, <2>1 DEF Edited, Decision
<1>10. QED
    BY <1>3, <1>7, <1>8, <1>9 DEF NewRevision

LEMMA AppliedStep ==
    ASSUME WebInv, AppliedAsConfirmed, [WebNext]_webVars
    PROVE  AppliedAsConfirmed'
<1> SUFFICES ASSUME NEW c \in Codes, NEW v \in DOMAIN revisions'[c], NEW o \in Ops,
                    revisions'[c][v].request = o, IsTransition(o)'
             PROVE  /\ c = asked'[o].code
                    /\ v = asked'[o].item.version + 1
                    /\ revisions'[c][v].status = asked'[o].target
                    /\ revisions'[c][v].evidence = asked'[o].item.evidence
    BY DEF AppliedAsConfirmed, IsTransition
<1>1. CASE v \in DOMAIN revisions[c] /\ revisions'[c][v] = revisions[c][v]
  <2>1. SameWrite(o)
      BY <1>1, RevisedIsSame
  <2>2. IsTransition(o)
      BY <2>1, SameTransition
  <2>3. /\ c = asked[o].code /\ v = asked[o].item.version + 1
        /\ revisions[c][v].status = asked[o].target
        /\ revisions[c][v].evidence = asked[o].item.evidence
      BY <1>1, <2>2 DEF AppliedAsConfirmed
  <2>4. QED
      BY <1>1, <2>1, <2>3, SameTransition
<1>2. ASSUME NEW r \in Reqs, Adds(r, c, v)
      PROVE  /\ c = asked'[o].code
             /\ v = asked'[o].item.version + 1
             /\ revisions'[c][v].status = asked'[o].target
             /\ revisions'[c][v].evidence = asked'[o].item.evidence
  <2>1. r = o
      BY <1>2 DEF Adds, NewRevision
  <2>2. SameWrite(o)
      BY <1>2, <2>1, AskedStep DEF Adds, Sends, server
  <2>3. IsTransition(o)
      BY <2>2, SameTransition
  <2>4. /\ c = asked[o].code /\ v = asked[o].item.version + 1
        /\ revisions'[c][v].status = asked[o].target
        /\ revisions'[c][v].evidence = asked[o].item.evidence
      BY <1>2, <2>1, <2>3, AddsAsConfirmed
  <2>5. QED
      BY <2>2, <2>4, SameTransition
<1>3. CASE UNCHANGED revisions
    BY <1>1, <1>3
<1>4. CASE [Next]_vars
    BY <1>1, <1>2, <1>4, NewRevisions DEF WebInv, ServerKnown
<1>5. QED
    BY <1>3, <1>4, HandlersMove DEF Refused, database

\* For any clients, any number of operations of the tab and any order of their
\* answers, an accepted transition set the confirmed level on the version and
\* the evidence its dialog displayed (components/EntityPage.vue,
\* confirmTransition; service/priority_decision.go, Transition).
THEOREM AppliesWhatWasConfirmed == WebSpec => []AppliedAsConfirmed
<1>1. WebInit => AppliedAsConfirmed
  <2> SUFFICES ASSUME WebInit PROVE AppliedAsConfirmed
      OBVIOUS
  <2>1. \A o \in Ops : ~IsTransition(o)
      BY DEF WebInit, IsTransition
  <2>2. QED
      BY <2>1 DEF AppliedAsConfirmed
<1>2. QED
    BY <1>1, AppliedStep, InitWebInv, WebInvStep, PTL DEF WebSpec

-----------------------------------------------------------------------------
(***************************************************************************)
(* One transition per dialog, when clients send only versions the decision *)
(* has had.                                                                *)
(***************************************************************************)
LevelsApproved == \A c \in Codes : ApprovedIn(c)

LEMMA LevelsStep ==
    ASSUME Lookahead = 0, WebInv, LevelsApproved, [WebNext]_webVars
    PROVE  LevelsApproved'
<1>1. CASE [Next]_vars
    BY <1>1, ApprovedStep DEF LevelsApproved, WebInv, ServerKnown
<1>2. CASE \E o \in Ops : Refused(o)
    BY <1>2 DEF Refused, database, LevelsApproved, ApprovedIn
<1>3. QED
    BY <1>1, <1>2, HandlersMove

\* A revision of an accepted transition sets a level, so it is the last one.
LEMMA AcceptedIsLast ==
    ASSUME WebInv, LevelsApproved, AppliedAsConfirmed,
           NEW o \in Ops, IsTransition(o), Accepted(o)
    PROVE  LET c == asked[o].code
           IN  /\ decisions[c].version \in DOMAIN revisions[c]
               /\ revisions[c][decisions[c].version].request = o
<1>1. PICK c \in Codes : \E v \in DOMAIN revisions[c] : revisions[c][v].request = o
    BY DEF Accepted
<1>2. PICK v \in DOMAIN revisions[c] : revisions[c][v].request = o
    BY <1>1
<1>3. c = asked[o].code /\ revisions[c][v].status = asked[o].target
    BY <1>2 DEF AppliedAsConfirmed
<1>4. asked[o].target \in PriorityLevels
    BY DEF WebInv, TabKnown, WriteKnown, IsTransition
<1>5. revisions[c][v].status # "draft"
    BY <1>3, <1>4 DEF PriorityLevels
<1>6. v = decisions[c].version
    BY <1>5 DEF LevelsApproved, ApprovedIn
<1>7. QED
    BY <1>2, <1>3, <1>6

LEMMA OnceByLevels ==
    ASSUME WebInv, LevelsApproved, AppliedAsConfirmed
    PROVE  ConfirmedOnce
<1> SUFFICES ASSUME NEW o \in Ops, NEW p \in Ops \ {o},
                    IsTransition(o), Accepted(o), IsTransition(p), Accepted(p),
                    asked[o].code = asked[p].code
             PROVE  FALSE
    BY DEF ConfirmedOnce
<1> DEFINE c == asked[o].code
<1>1. revisions[c][decisions[c].version].request = o
    BY AcceptedIsLast
<1>2. revisions[c][decisions[c].version].request = p
    BY AcceptedIsLast
<1>3. QED
    BY <1>1, <1>2

\* However often a dialog is confirmed, in however many operations and after
\* whatever answers were lost, one transition of a decision is accepted
\* (repository/priority_decision.go, UpdateWithRevision; the page disables no
\* button), when clients send only versions the decision has had.
THEOREM ConfirmsOnce ==
    ASSUME Lookahead = 0
    PROVE  WebSpec => []ConfirmedOnce
<1>1. WebInit => LevelsApproved
    BY ApprovedAtFirst DEF WebInit, LevelsApproved
<1>2. WebInv /\ LevelsApproved /\ [WebNext]_webVars => LevelsApproved'
    BY LevelsStep
<1>3. WebInv /\ LevelsApproved /\ AppliedAsConfirmed => ConfirmedOnce
    BY OnceByLevels
<1>4. QED
    BY <1>1, <1>2, <1>3, AppliesWhatWasConfirmed, InitWebInv, WebInvStep, PTL
       DEF WebSpec

-----------------------------------------------------------------------------
(***************************************************************************)
(* What the page offers, when clients send only versions the decision has  *)
(* had.                                                                    *)
(***************************************************************************)
LEMMA FinalStays ==
    ASSUME Lookahead = 0, WebInv, [WebNext]_webVars,
           NEW c \in Codes, IsFinal(decisions[c])
    PROVE  IsFinal(decisions'[c])
<1>1. CASE [Next]_vars
  <2>1. /\ decisions[c] # NoDecision /\ decisions[c] \in Decision
        /\ decisions'[c] # NoDecision
      BY <1>1, HistoryStep
         DEF IsFinal, WebInv, ServerKnown, IInv, TypeOK, HistoryKept
  <2>2. [decisions'[c] EXCEPT !.deleted = decisions[c].deleted] = decisions[c]
      BY <1>1, FinalStep DEF WebInv, ServerKnown
  <2>3. decisions'[c] \in Decision
      BY <2>1, ServerStep DEF ServerKnown, IInv, TypeOK
  <2>4. decisions'[c].status = decisions[c].status
      BY <2>2, <2>3 DEF Decision
  <2>5. QED
      BY <2>1, <2>4 DEF IsFinal
<1>2. CASE \E o \in Ops : Refused(o)
    BY <1>2 DEF Refused, database
<1>3. QED
    BY <1>1, <1>2, HandlersMove

\* A write of the displayed user that arrives has a role for it, and a rule
\* stands against it only once the decision is final.
LEMMA ArriveIsAdmitted ==
    ASSUME WebInv, NEW o \in Ops, Arrive(o), asked[o].ours
    PROVE  /\ phase'[o] # "forbidden"
           /\ phase'[o] = "rule" => IsFinal(decisions[asked[o].code])
<1> DEFINE a == asked[o]
<1>1. /\ a # NotAsked /\ a \in Creation \cup Transition
      /\ RequireMinimumRole(RoleOf[a.bearer], "operator")
    BY DEF Arrive, WebInv, WebTypeOK, TabKnown, WriteKnown
<1>2. ASSUME NEW request, NEW verdict, NEW snapshot,
             Enter(o, request, verdict, snapshot)
      PROVE  phase'[o] = verdict
  <2>1. o \in Reqs /\ IInv
      BY OpsAssumption DEF WebInv, ServerKnown
  <2>2. QED
      BY <1>2, <2>1 DEF Enter, IInv, TypeOK
<1>3. CASE a.kind = "create"
  <2>1. Enter(o, [Request("create", a.bearer, a.code) EXCEPT
                    !.evidence = NewEvidence], "write", NoDecision)
      BY <1>1, <1>3 DEF Arrive
  <2>2. phase'[o] = "write"
      BY <1>2, <2>1
  <2>3. QED
      BY <2>2
<1>4. CASE a.kind # "create"
  <2> DEFINE row == decisions[a.code]
  <2>1. a.kind = "transition"
      BY <1>1, <1>4 DEF Creation, Transition
  <2>2. /\ Known(a.code, a.item) /\ MayOffer(a.bearer, a.item, a.target)
      BY <1>1, <2>1 DEF WebInv, TabKnown, WriteKnown
  <2>3. phase'[o] = ReviewVerdict(row, a.bearer, a.target)
    <3>1. PICK verdict : verdict = ReviewVerdict(row, a.bearer, a.target)
        OBVIOUS
    <3>2. Enter(o, [Request("transition", a.bearer, a.code) EXCEPT
                      !.expected = a.expected, !.target = a.target],
                verdict, row)
        BY <1>1, <1>4, <3>1 DEF Arrive
    <3>3. phase'[o] = verdict
        BY <1>2, <3>2
    <3>4. QED
        BY <3>1, <3>3
  <2>4. MayReview(a.bearer) /\ row # NoDecision /\ a.bearer # row.preparedBy
      BY <2>2 DEF Known, MayOffer
  <2>5. row.status = "draft" =>
            CanTransition(PriorityDecisionTransitions, row.status, a.target)
      BY <2>2 DEF MayOffer, CanTransition, PriorityDecisionTransitions,
                  PriorityDecisionStatuses
  <2>6. QED
      BY <2>3, <2>4, <2>5 DEF ReviewVerdict, IsFinal
<1>5. QED
    BY <1>3, <1>4

LEMMA SameOwner ==
    ASSUME WebInv, NEW o \in Ops, SameWrite(o), asked'[o] # NotAsked
    PROVE  /\ asked[o] # NotAsked
           /\ asked'[o].ours = asked[o].ours /\ asked'[o].code = asked[o].code
           /\ asked'[o].expected = asked[o].expected
           /\ asked[o].code \in Codes /\ asked[o].expected \in Nat
<1>1. CASE asked'[o] = asked[o]
    BY <1>1 DEF WebInv, WebTypeOK, Creation, Transition
<1>2. CASE asked[o] \in Transition /\ asked'[o] = [asked[o] EXCEPT !.here = FALSE]
    BY <1>2, NotAskedAssumption DEF Transition
<1>3. QED
    BY <1>1, <1>2 DEF SameWrite

\* A write begins untouched.
LEMMA SentIsIdle ==
    ASSUME WebInv, NEW o \in Ops, Sends(o)
    PROVE  phase'[o] = "idle"
<1>1. asked[o] = NotAsked
    BY DEF Sends, WebInv, TabKnown, WriteKnown
<1>2. phase[o] = "idle"
    BY <1>1 DEF WebInv, TabKnown, HandlerKnown
<1>3. QED
    BY <1>2 DEF Sends, server

\* The router and the rules refuse a write when it arrives, or not at all.
LEMMA RefusedOnArrival ==
    ASSUME WebInv, [WebNext]_webVars, NEW o \in Ops, asked'[o] # NotAsked,
           phase'[o] \in {"forbidden", "rule"}
    PROVE  /\ SameWrite(o)
           /\ phase[o] = phase'[o] \/ Arrive(o)
<1>1. SameWrite(o)
    BY SentIsIdle, AskedStep
<1>2. IInv /\ o \in Reqs
    BY OpsAssumption DEF WebInv, ServerKnown
<1>3. ASSUME NEW q \in Ops \ {o}, Arrive(q) PROVE phase[o] = phase'[o]
    BY <1>3, ArriveEffect
<1>4. CASE Handlers
    BY <1>1, <1>2, <1>4, OthersLeaveAlone, ServesOwn DEF Handlers
<1>5. CASE UNCHANGED server
    BY <1>1, <1>5 DEF server
<1>6. QED
    BY <1>1, <1>3, <1>4, <1>5, TabOrServer DEF ServerActs

LEMMA OffersStep ==
    ASSUME Lookahead = 0, WebInv, OffersAreAdmitted, [WebNext]_webVars
    PROVE  OffersAreAdmitted'
<1> SUFFICES ASSUME NEW o \in Ops, asked'[o] # NotAsked, asked'[o].ours,
                    phase'[o] \in {"forbidden", "rule"}
             PROVE  phase'[o] = "rule" /\ IsFinal(decisions'[asked'[o].code])
    BY DEF OffersAreAdmitted, IsFinal
<1> DEFINE c == asked[o].code
<1>1. SameWrite(o) /\ (phase[o] = phase'[o] \/ Arrive(o))
    BY RefusedOnArrival
<1>2. /\ asked[o] # NotAsked /\ asked[o].ours
      /\ c \in Codes /\ asked'[o].code = c
    BY <1>1, SameOwner
<1>3. phase'[o] = "rule" /\ IsFinal(decisions[c])
    BY <1>1, <1>2, ArriveIsAdmitted DEF OffersAreAdmitted
<1>4. QED
    BY <1>2, <1>3, FinalStays

\* "The routes of the back end agree with the guards, navigation and buttons of
\* the front end" (README.md:41), for any users and roles: what the page offers
\* to the user it displays is not forbidden to that user, and a rule refuses it
\* only if the decision was finalised since the list was read, when clients
\* send only versions the decision has had.
THEOREM OffersAgree ==
    ASSUME Lookahead = 0
    PROVE  WebSpec => []OffersAreAdmitted
<1>1. WebInit => OffersAreAdmitted
  <2> SUFFICES ASSUME WebInit PROVE OffersAreAdmitted
      OBVIOUS
  <2>1. \A o \in Ops : asked[o] = NotAsked
      BY DEF WebInit
  <2>2. QED
      BY <2>1 DEF OffersAreAdmitted
<1>2. WebInv /\ OffersAreAdmitted /\ [WebNext]_webVars => OffersAreAdmitted'
    BY OffersStep
<1>3. QED
    BY <1>1, <1>2, InitWebInv, WebInvStep, PTL DEF WebSpec

-----------------------------------------------------------------------------
(***************************************************************************)
(* What the list shows of a write of its own.                              *)
(***************************************************************************)
\* The decision is past a version, for good.
Moved(c, version) == decisions[c] # NoDecision /\ decisions[c].version > version

ShowsMove(c, version, list) ==
    IF c \in DOMAIN list THEN list[c].version > version ELSE ~Live(decisions[c])

Committed == {"audit", "reload", "preload", "ok"}

\* The decision has moved when the write was committed, and the list is asked
\* for again only after that.
MovedFor(o) ==
    LET a == asked[o]
    IN  a # NotAsked =>
            /\ phase[o] \in Committed => Moved(a.code, a.expected)
            /\ stage[o] \in {"asked", "rows", "read"} => Moved(a.code, a.expected)
            /\ stage[o] \in {"rows", "read"} =>
                 ShowsMove(a.code, a.expected, answer[o])

LEMMA MovedStays ==
    ASSUME WebInv, [WebNext]_webVars, NEW c \in Codes, NEW n \in Nat, Moved(c, n)
    PROVE  Moved(c, n)' /\ (~Live(decisions[c]) => ~Live(decisions'[c]))
<1>1. IInv /\ decisions[c] # NoDecision /\ decisions[c].version \in Nat
    BY DEF WebInv, ServerKnown, IInv, TypeOK, Decision, Moved
<1>2. CASE [Next]_vars
    BY <1>1, <1>2, HistoryStep, RemovedStep DEF HistoryKept, Moved
<1>3. CASE \E o \in Ops : Refused(o)
    BY <1>3 DEF Refused, database, Moved
<1>4. QED
    BY <1>2, <1>3, HandlersMove

\* The transaction of a write takes the decision past the version expected.
LEMMA AddsMoves ==
    ASSUME WebInv, [WebNext]_webVars, NEW o \in Ops, NEW c \in Codes, NEW v,
           Adds(o, c, v), NEW n, n = asked[o].expected
    PROVE  c = asked[o].code /\ Moved(c, n)'
<1> DEFINE a == asked[o]
<1>1. o \in Reqs /\ phase[o] = "write" /\ IInv /\ IInv'
    BY OpsAssumption, ServerStep DEF Adds, WebInv, ServerKnown
<1>2. /\ a # NotAsked /\ input[o].code = a.code /\ input[o].kind = a.kind
      /\ a.kind = "transition" => input[o].expected = a.expected
    BY <1>1 DEF WebInv, TabKnown, HandlerKnown, InFlight
<1>3. a.kind \in {"create", "transition"}
    BY <1>2 DEF WebInv, WebTypeOK, Creation, Transition
<1>4. c = a.code /\ v \in DOMAIN revisions'[c]
    BY <1>2 DEF Adds
<1>5. /\ decisions'[c] # NoDecision /\ decisions'[c].version \in Nat
      /\ v \in 1 .. decisions'[c].version
    BY <1>1, <1>4 DEF IInv, RevisionChain, ChainOf
<1>6. v > a.expected
  <2>1. CASE a.kind = "create"
      BY <1>2, <2>1 DEF Adds, WebInv, TabKnown, WriteKnown
  <2>2. CASE a.kind = "transition"
    <3>1. Writes(o) /\ v = decisions[c].version + 1 /\ input[o].code = c
        BY <1>2, <2>2 DEF Adds
    <3>2. decisions[c].version \in Nat /\ decisions[c].version = a.expected
        BY <1>1, <1>2, <2>2, <3>1, WriteEffect DEF Writes, Matches
    <3>3. QED
        BY <3>1, <3>2
  <2>3. QED
      BY <1>3, <2>1, <2>2
<1>7. a.expected \in Nat
    BY <1>2 DEF WebInv, WebTypeOK, Creation, Transition
<1>8. decisions'[c].version > n
    BY <1>5, <1>6, <1>7
<1>9. QED
    BY <1>4, <1>5, <1>8 DEF Moved

\* A handler of the page that is past its transaction in the next step was so
\* before, or its transaction is this step.
LEMMA ToCommitted ==
    ASSUME WebInv, [WebNext]_webVars, NEW o \in Ops, phase'[o] \in Committed
    PROVE  phase[o] \in Committed \/ \E c \in Codes : \E v : Adds(o, c, v)
<1>1. IInv /\ o \in Reqs
    BY OpsAssumption DEF WebInv, ServerKnown
<1>2. ASSUME NEW q \in Ops, Arrive(q) PROVE phase[o] \in Committed
    BY <1>2, ArriveEffect DEF Committed
<1>3. ASSUME Serve(o) PROVE phase[o] \in Committed \/ \E c \in Codes : \E v : Adds(o, c, v)
  <2>1. [Next]_vars /\ phase[o] \in InFlight
      BY <1>1, <1>3, ServesOwn DEF Next
  <2>2. CASE phase'[o] \in Behind
      BY <1>1, <2>1, <2>2, ToBehind DEF Behind, Committed, InFlight
  <2>3. CASE phase'[o] = "audit" /\ phase[o] = "write"
    <3>1. input[o].code \in Codes
        BY <1>1, <2>3 DEF IInv, HandlersOK, HandlerFacts, InFlight, Input
    <3>2. input[o].kind # "delete"
        BY <2>3 DEF WebInv, WebTypeOK, TabKnown, HandlerKnown, InFlight, Creation,
                    Transition
    <3>3. ~Delete(o)
        BY <3>2 DEF Delete
    <3>4. QED
        BY <1>1, <2>1, <2>3, <3>1, <3>3, ToAudit
  <2>4. CASE phase'[o] = "audit" /\ phase[o] # "write"
      BY <1>1, <2>1, <2>4, ToAudit DEF Committed
  <2>5. QED
      BY <2>2, <2>3, <2>4 DEF Committed, Behind
<1>4. CASE Handlers
  <2>1. CASE UNCHANGED phase[o]
      BY <2>1
  <2>2. CASE Serve(o)
      BY <1>3, <2>2
  <2>3. QED
      BY <1>1, <1>4, <2>1, <2>2, OthersLeaveAlone, ServesOwn DEF Handlers
<1>5. CASE UNCHANGED server
    BY <1>5 DEF server
<1>6. QED
    BY <1>2, <1>4, <1>5, TabOrServer DEF ServerActs

\* The list is asked for after a write that was accepted, and only so.
LEMMA ToReload ==
    ASSUME WebInv, [WebNext]_webVars, NEW o \in Ops, asked[o] # NotAsked,
           stage'[o] \in {"asked", "rows", "read"}
    PROVE  \/ stage'[o] = stage[o] /\ answer'[o] = answer[o]
           \/ stage'[o] = "asked" /\ (stage[o] = "asked" \/ phase[o] = "ok")
           \/ ListRows(o) \/ ListRevisions(o)
<1>1. CASE stage'[o] \in {"rows", "read"}
    BY <1>1, StageStep
<1>2. CASE stage'[o] = "asked"
  <2>1. stage \in [Ops -> Stages] /\ stage[o] # "unused"
      BY DEF WebInv, WebTypeOK, TabKnown, WriteKnown
  <2>2. CASE Leave \/ SignIn \/ SignOut \/ OtherTab \/ OpenDialog \/ Cancel
      BY <1>2, <2>2 DEF Leave, SignIn, SignOut, OtherTab, OpenDialog, Cancel, ops
  <2>3. ASSUME NEW q \in Ops, User(q) PROVE stage[o] = "asked"
    <3>1. stage[q] = "unused" /\ \E how : stage' = [stage EXCEPT ![q] = how]
        BY <2>3 DEF User, EnterPage, Search, CreateDemo, Confirm, Load, Write
    <3>2. QED
        BY <1>2, <2>1, <3>1
  <2>4. ASSUME NEW q \in Ops, Lists(q) PROVE stage[o] = "asked"
      BY <1>2, <2>1, <2>4 DEF Lists, ListRows, ListRevisions
  <2>5. ASSUME NEW q \in Ops, Settle(q) PROVE stage[o] = "asked" \/ phase[o] = "ok"
    <3>1. CASE q # o
      <4>1. \E how : stage' = [stage EXCEPT ![q] = how]
          BY <2>5 DEF Settle, WriteAnswered, ListAnswered, FetchFails, End
      <4>2. QED
          BY <1>2, <2>1, <3>1, <4>1
    <3>2. CASE q = o /\ WriteAnswered(o)
      <4>1. ASSUME End(o, "failed") PROVE FALSE
          BY <1>2, <2>1, <4>1 DEF End
      <4>2. QED
          BY <3>2, <4>1 DEF WriteAnswered
    <3>3. CASE q = o /\ (ListAnswered(o) \/ FetchFails(o))
      <4>1. PICK how \in {"failed", "unseen", "returned"} : End(o, how)
          BY <3>3 DEF ListAnswered, FetchFails
      <4>2. QED
          BY <1>2, <2>1, <4>1 DEF End
    <3>4. QED
        BY <2>5, <3>1, <3>2, <3>3 DEF Settle
  <2>6. CASE UNCHANGED tab
      BY <1>2, <2>6 DEF tab, ops
  <2>7. QED
      BY <1>2, <2>2, <2>3, <2>4, <2>5, <2>6, TabOrServer DEF TabActs
<1>3. QED
    BY <1>1, <1>2

MoveShown == \A o \in Ops : MovedFor(o)

LEMMA MoveShownStep ==
    ASSUME WebInv, MoveShown, [WebNext]_webVars
    PROVE  MoveShown'
<1> SUFFICES ASSUME NEW o \in Ops, asked'[o] # NotAsked PROVE MovedFor(o)'
    BY DEF MoveShown, MovedFor
<1>1. CASE Sends(o)
  <2>1. phase'[o] = "idle" /\ stage'[o] = "write"
      BY <1>1, SentIsIdle DEF Sends
  <2>2. QED
      BY <2>1 DEF MovedFor, Committed
<1>2. CASE SameWrite(o)
  <2>1. /\ asked[o] # NotAsked /\ asked[o].code \in Codes /\ asked[o].expected \in Nat
        /\ asked'[o].code = asked[o].code /\ asked'[o].expected = asked[o].expected
      BY <1>2, SameOwner
  <2>2. PICK c \in Codes, n \in Nat : c = asked[o].code /\ n = asked[o].expected
      BY <2>1
  <2>3. /\ phase[o] \in Committed => Moved(c, n)
        /\ stage[o] \in {"asked", "rows", "read"} => Moved(c, n)
        /\ stage[o] \in {"rows", "read"} => ShowsMove(c, n, answer[o])
      BY <2>1, <2>2 DEF MoveShown, MovedFor
  <2>4. Moved(c, n) => Moved(c, n)'
      BY MovedStays
  <2>5. phase'[o] \in Committed => Moved(c, n)'
      BY <2>2, <2>3, <2>4, ToCommitted, AddsMoves
  <2>6. stage'[o] \in {"asked", "rows", "read"} => Moved(c, n)
      BY <2>1, <2>3, ToReload DEF Committed, ListRows, ListRevisions
  <2>7. ASSUME stage'[o] \in {"rows", "read"}, NEW list, list = answer'[o]
        PROVE  ShowsMove(c, n, list)'
    <3>1. CASE stage'[o] = stage[o] /\ answer'[o] = answer[o]
        BY <2>3, <2>7, <3>1, MovedStays DEF ShowsMove
    <3>2. CASE ListRows(o)
      <4>1. Moved(c, n) /\ list = [d \in {d \in Codes : Live(decisions[d])} |-> decisions[d]]
          BY <2>3, <2>7, <3>2 DEF ListRows, WebInv, WebTypeOK
      <4>2. UNCHANGED decisions
          BY <3>2 DEF ListRows, server, database
      <4>3. QED
          BY <4>1, <4>2 DEF ShowsMove, Moved
    <3>3. CASE ListRevisions(o)
      <4>1. /\ ShowsMove(c, n, answer[o])
            /\ list = [d \in DOMAIN answer[o] |-> ItemOf(answer[o][d], revisions[d])]
          BY <2>3, <2>7, <3>3 DEF ListRevisions, WebInv, WebTypeOK
      <4>2. UNCHANGED decisions
          BY <3>3 DEF ListRevisions, server, database
      <4>3. c \in DOMAIN list <=> c \in DOMAIN answer[o]
          BY <4>1
      <4>4. c \in DOMAIN list => list[c].version = answer[o][c].version
          BY <4>1 DEF ItemOf
      <4>5. QED
          BY <4>1, <4>2, <4>3, <4>4 DEF ShowsMove
    <3>4. QED
        BY <2>7, <3>1, <3>2, <3>3, StageStep
  <2>8. stage'[o] \in {"rows", "read"} => ShowsMove(c, n, answer[o])'
    <3>1. PICK list : list = answer'[o]
        OBVIOUS
    <3>2. QED
        BY <2>7, <3>1 DEF ShowsMove
  <2>9. QED
      BY <2>1, <2>2, <2>4, <2>5, <2>6, <2>8 DEF MovedFor, Moved, ShowsMove
<1>3. QED
    BY <1>1, <1>2, AskedStep

\* A write returns with the answer to its list, or not at all.
LEMMA ToReturned ==
    ASSUME WebInv, [WebNext]_webVars, NEW o \in Ops,
           stage[o] # "returned", stage'[o] = "returned"
    PROVE  asked[o] # NotAsked /\ ListAnswered(o)
<1>1. stage \in [Ops -> Stages]
    BY DEF WebInv, WebTypeOK
<1>2. CASE Leave \/ SignIn \/ SignOut \/ OtherTab \/ OpenDialog \/ Cancel \/ UNCHANGED tab
    BY <1>2 DEF Leave, SignIn, SignOut, OtherTab, OpenDialog, Cancel, ops, tab
<1>3. ASSUME NEW q \in Ops, User(q) \/ Lists(q) PROVE FALSE
  <2>1. \E how \in {"asked", "refused", "write", "rows", "read"} :
            stage' = [stage EXCEPT ![q] = how]
      BY <1>3, AskListStage DEF User, EnterPage, Search, CreateDemo, Confirm, Load,
                                Write, Lists, ListRows, ListRevisions
  <2>2. QED
      BY <1>1, <2>1
<1>4. ASSUME NEW q \in Ops, Settle(q) PROVE asked[o] # NotAsked /\ ListAnswered(o)
  <2>1. CASE ListAnswered(q)
      BY <1>1, <2>1 DEF ListAnswered, End
  <2>2. CASE WriteAnswered(q) /\ phase[q] = "ok"
      BY <1>1, <2>2, AskListStage DEF WriteAnswered
  <2>3. CASE (WriteAnswered(q) /\ phase[q] # "ok") \/ FetchFails(q)
    <3>1. \E how \in {"failed", "unseen"} : End(q, how)
        BY <2>3 DEF WriteAnswered, FetchFails
    <3>2. QED
        BY <1>1, <3>1 DEF End
  <2>4. QED
      BY <1>4, <2>1, <2>2, <2>3 DEF Settle
<1>5. QED
    BY <1>2, <1>3, <1>4, TabOrServer DEF TabActs

\* When a write returns with its reload, the list shows its change or a later
\* one, unless the decision was deleted, whatever other loads are under way
\* (stores/factory.ts, create and transition: the write is awaited, then the
\* load): the reload was read after the write was committed.
THEOREM OwnChangesAreShown == WebSpec => OwnChangeShown
<1> DEFINE Shown ==
      \A o \in Ops : (stage[o] # "returned" /\ stage'[o] = "returned") =>
          LET c == asked[o].code
          IN  IF c \in DOMAIN items'
              THEN items'[c].version > asked[o].expected
              ELSE ~Live(decisions[c])
<1>1. WebInit => MoveShown
    BY DEF WebInit, MoveShown, MovedFor
<1>2. WebInv /\ MoveShown /\ [WebNext]_webVars => MoveShown'
    BY MoveShownStep
<1>3. WebInv /\ MoveShown /\ [WebNext]_webVars => [Shown]_webVars
  <2> SUFFICES ASSUME WebInv, MoveShown, [WebNext]_webVars, NEW o \in Ops,
                      stage[o] # "returned", stage'[o] = "returned"
               PROVE  ShowsMove(asked[o].code, asked[o].expected, items')
      BY DEF ShowsMove
  <2>1. asked[o] # NotAsked /\ stage[o] = "read" /\ items' = answer[o]
      BY ToReturned DEF ListAnswered
  <2>2. QED
      BY <2>1 DEF MoveShown, MovedFor
<1>4. QED
    BY <1>1, <1>2, <1>3, InitWebInv, WebInvStep, PTL DEF WebSpec, OwnChangeShown

=============================================================================
