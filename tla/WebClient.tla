------------------------------ MODULE WebClient ------------------------------
(***************************************************************************)
(* One browser tab on the page of priority decisions (src/frontend:        *)
(* components/EntityPage.vue over stores/factory.ts and api/client.ts)     *)
(* working against the handlers of PriorityDecision, while other clients   *)
(* send requests of their own and another tab may change the session.      *)
(*                                                                         *)
(* Each operation of the store is a promise of its own: it sends a write,  *)
(* then asks for the list, or only for the list.  Nothing keeps two of     *)
(* them apart, and their answers arrive in any order or not at all.        *)
(***************************************************************************)
EXTENDS PriorityDecision

CONSTANTS
    Ops,            \* operations of the tab; the write of one is its request
    NewEvidence,    \* the evidence every record created by the page has
    OtherUsers,     \* who else signs in in the same browser
    MaxSwitches,    \* bounds how often the session changes, in any tab, or the
                    \* page is left
    NoUser, NoDialog, NotAsked

ASSUME OpsAssumption      == Ops \subseteq Reqs
ASSUME NewAssumption      == NewEvidence \in Evidence
ASSUME SwitchesAssumption == MaxSwitches \in Nat /\ OtherUsers \subseteq Users
ASSUME NoUserAssumption   == NoUser \notin Users

\* A row of the table on screen: what it displays and what its buttons use.
Item == [version: Nat, status: PriorityDecisionStatuses, preparedBy: Users,
         evidence: Evidence]

Dialog == [code: Codes, item: Item, target: PriorityDecisionStatuses]

\* The write of an operation: whose token it carries, whether that is the user
\* the page displayed, and whether the dialog it was confirmed in is still there.
Creation   == [kind: {"create"}, code: Codes, expected: Nat,
               bearer: Users \cup {NoUser}, ours: BOOLEAN]
Transition == [kind: {"transition"}, code: Codes, expected: Nat, item: Item,
               target: PriorityDecisionStatuses,
               bearer: Users \cup {NoUser}, ours: BOOLEAN, here: BOOLEAN]

ASSUME NotAskedAssumption == NotAsked \notin Creation \cup Transition

\* An operation sends its write, asks for the list, or was refused it for want
\* of a token; the server reads the rows, then their revisions.  A load is done
\* in the end; a write returns, with the list or without it, or fails.
UnderWay == {"write", "asked", "refused", "rows", "read"}
Stages   == {"unused", "done", "returned", "unseen", "failed"} \cup UnderWay

VARIABLES
    session,    \* the user this tab displays (hooks/useAuth.ts)
    token,      \* the user of the token in localStorage, which all tabs share
    switches,   \* how often that happened
    onPage,     \* whether the page is mounted
    items,      \* the list in the store
    loading,    \* the table is masked
    dialog,     \* the transition waiting for confirmation
    asked,      \* the write of each operation, and what it was chosen by
    stage,      \* how far each operation is
    answer      \* the list the server is reading for an operation

who    == <<session, token, switches>>
store  == <<items, loading>>
ops    == <<asked, stage, answer>>
tab    == <<who, onPage, store, dialog, ops>>
server == <<database, phase, input, current, shown>>
webVars == <<server, tab>>

NoItems == [c \in {} |-> NoDialog]

WebInit ==
    /\ Init
    /\ session \in Users \cup {NoUser}
    /\ token = session /\ switches = 0
    /\ onPage = FALSE
    /\ items = NoItems /\ loading = FALSE
    /\ dialog = NoDialog
    /\ asked = [o \in Ops |-> NotAsked]
    /\ stage = [o \in Ops |-> "unused"]
    /\ answer = [o \in Ops |-> NoItems]

IsTransition(o) == asked[o] # NotAsked /\ asked[o].kind = "transition"

-----------------------------------------------------------------------------
(***************************************************************************)
(* The session, and leaving the page.                                      *)
(***************************************************************************)
Switch == switches < MaxSwitches /\ switches' = switches + 1

\* The page goes away and forgets its operations, which go on; the store stays.
LeavePage ==
    /\ onPage' = FALSE /\ dialog' = NoDialog
    /\ asked' = [o \in Ops |->
         IF IsTransition(o) /\ stage[o] \in UnderWay
         THEN [asked[o] EXCEPT !.here = FALSE] ELSE asked[o]]

\* A link of the navigation, or the back button, which no dialog covers.
Leave ==
    /\ Switch
    /\ onPage
    /\ LeavePage
    /\ UNCHANGED <<server, session, token, store, stage, answer>>

\* The server signs in any account; the tab stores the token, then shows it.
\* The login page is reached while nobody is signed in.
SignIn ==
    /\ Switch
    /\ session = NoUser \/ token = NoUser
    /\ \E user \in Users : token' = user /\ session' = user
    /\ LeavePage
    /\ UNCHANGED <<server, store, stage, answer>>

\* A dialog covers the button.
SignOut ==
    /\ Switch
    /\ session # NoUser /\ dialog = NoDialog
    /\ session' = NoUser /\ token' = NoUser
    /\ LeavePage
    /\ UNCHANGED <<server, store, stage, answer>>

\* Another tab signs in or out; this one goes on displaying its own session.
OtherTab ==
    /\ Switch
    /\ token' \in (OtherUsers \cup {NoUser}) \ {token}
    /\ UNCHANGED <<server, session, onPage, store, dialog, ops>>

CanAtLeast(minimum) ==
    session # NoUser /\ RequireMinimumRole(RoleOf[session], minimum)

-----------------------------------------------------------------------------
(***************************************************************************)
(* What the user does.                                                     *)
(***************************************************************************)
AskForList == IF token = NoUser THEN "refused" ELSE "asked"

Load(o) ==
    /\ stage[o] = "unused"
    /\ stage' = [stage EXCEPT ![o] = AskForList]
    /\ loading' = TRUE
    /\ UNCHANGED <<server, who, items, dialog, asked, answer>>

\* The guard of the router asks the storage, not the tab, for the session.
EnterPage(o) ==
    /\ ~onPage /\ session # NoUser /\ token # NoUser
    /\ onPage' = TRUE
    /\ Load(o)

\* Search or reset: neither waits for a load under way.
Search(o) ==
    /\ onPage /\ dialog = NoDialog
    /\ Load(o)
    /\ UNCHANGED onPage

Write(o, request) ==
    /\ stage[o] = "unused"
    /\ asked' = [asked EXCEPT ![o] = request]
    /\ stage' = [stage EXCEPT ![o] = "write"]
    /\ loading' = TRUE
    /\ UNCHANGED <<server, who, onPage, items, dialog, answer>>

CreateDemo(o) ==
    /\ onPage /\ dialog = NoDialog /\ CanAtLeast("operator")
    /\ \E code \in Codes :
         Write(o, [kind |-> "create", code |-> code, expected |-> 0,
                   bearer |-> token, ours |-> token = session])

\* Mutant: the page leaves the separation of duty to the server.
TargetsForAnyReviewer(item) ==
    IF CanAtLeast("reviewer")
    THEN PriorityDecisionTransitions[item.status] ELSE {}

\* Mutant: every level is offered, whatever the status.
TargetsForAnyStatus(item) ==
    IF CanAtLeast("reviewer") /\ item.preparedBy # session
    THEN PriorityLevels ELSE {}

TargetsFor(item) ==
    IF CanAtLeast("reviewer") /\ item.preparedBy # session
    THEN PriorityDecisionTransitions[item.status] ELSE {}

\* The mask keeps the user off the table while the store is loading.
OpenDialog ==
    /\ onPage /\ dialog = NoDialog /\ ~loading
    /\ \E code \in DOMAIN items : \E target \in TargetsFor(items[code]) :
         dialog' = [code |-> code, item |-> items[code], target |-> target]
    /\ UNCHANGED <<server, who, onPage, store, ops>>

Cancel ==
    /\ dialog # NoDialog
    /\ dialog' = NoDialog
    /\ UNCHANGED <<server, who, onPage, store, ops>>

Confirmed(version) ==
    [kind |-> "transition", code |-> dialog.code, expected |-> version,
     item |-> dialog.item, target |-> dialog.target,
     bearer |-> token, ours |-> token = session, here |-> TRUE]

\* Mutant: the version is taken from the list when the button is pressed.
ConfirmListed(o) ==
    /\ dialog # NoDialog
    /\ Write(o, Confirmed(IF dialog.code \in DOMAIN items
                          THEN items[dialog.code].version
                          ELSE dialog.item.version))

\* Nothing disables the button: it may be pressed again at once, or after an
\* answer was lost.
Confirm(o) ==
    /\ dialog # NoDialog
    /\ Write(o, Confirmed(dialog.item.version))

-----------------------------------------------------------------------------
(***************************************************************************)
(* The server's side of an operation.                                      *)
(***************************************************************************)
\* The write arrives, perhaps after the tab has given up on it.
Arrive(o) ==
    LET a == asked[o]
    IN  /\ a # NotAsked /\ a.bearer # NoUser
        /\ IF ~RequireMinimumRole(RoleOf[a.bearer], "operator")
           THEN Enter(o, NoInput, "forbidden", NoDecision)
           ELSE IF a.kind = "create"
           THEN Enter(o, [Request("create", a.bearer, a.code) EXCEPT
                            !.evidence = NewEvidence], "write", NoDecision)
           ELSE Enter(o, [Request("transition", a.bearer, a.code) EXCEPT
                            !.expected = a.expected, !.target = a.target],
                      ReviewVerdict(decisions[a.code], a.bearer, a.target),
                      decisions[a.code])
        /\ UNCHANGED tab

\* The list is read in two statements: the rows, then their revisions.  The page
\* asks for the 20 rows changed last; here these are all the rows there are.
ListRows(o) ==
    /\ stage[o] = "asked"
    /\ stage' = [stage EXCEPT ![o] = "rows"]
    /\ answer' = [answer EXCEPT ![o] =
         [c \in {c \in Codes : Live(decisions[c])} |-> decisions[c]]]
    /\ UNCHANGED <<server, who, onPage, store, dialog, asked>>

\* The page displays the version of the row and the evidence of the latest
\* revision.
ItemOf(row, table) ==
    LET latest == CHOOSE v \in DOMAIN table : \A w \in DOMAIN table : w <= v
    IN  [version |-> row.version, status |-> row.status,
         preparedBy |-> row.preparedBy, evidence |-> table[latest].evidence]

ListRevisions(o) ==
    /\ stage[o] = "rows"
    /\ stage' = [stage EXCEPT ![o] = "read"]
    /\ answer' = [answer EXCEPT ![o] =
         [c \in DOMAIN answer[o] |-> ItemOf(answer[o][c], revisions[c])]]
    /\ UNCHANGED <<server, who, onPage, store, dialog, asked>>

-----------------------------------------------------------------------------
(***************************************************************************)
(* Answers.                                                                *)
(***************************************************************************)
\* Mutant: only a load clears the mask.
EndMasked(o, how) ==
    /\ stage' = [stage EXCEPT ![o] = IF asked[o] = NotAsked THEN "done" ELSE how]
    /\ answer' = [answer EXCEPT ![o] = NoItems]
    /\ dialog' = IF how # "failed" /\ IsTransition(o) /\ asked[o].here
                 THEN NoDialog ELSE dialog
    /\ loading' = (loading /\ how = "failed" /\ asked[o] # NotAsked)

\* Every end of an operation unmasks the table.  An accepted transition closes
\* the dialog of its page, whichever that is by then.
End(o, how) ==
    /\ stage' = [stage EXCEPT ![o] = IF asked[o] = NotAsked THEN "done" ELSE how]
    /\ answer' = [answer EXCEPT ![o] = NoItems]
    /\ dialog' = IF how # "failed" /\ IsTransition(o) /\ asked[o].here
                 THEN NoDialog ELSE dialog
    /\ loading' = FALSE

\* Mutant: the list is not loaded again.
WriteAnsweredOnly(o) ==
    /\ stage[o] = "write" /\ phase[o] \in Outcomes \ {"lost"}
    /\ End(o, IF phase[o] = "ok" THEN "returned" ELSE "failed")
    /\ UNCHANGED <<server, who, onPage, items, asked>>

\* An accepted write is followed by a load of its own.
WriteAnswered(o) ==
    /\ stage[o] = "write" /\ phase[o] \in Outcomes \ {"lost"}
    /\ IF phase[o] = "ok"
       THEN /\ stage' = [stage EXCEPT ![o] = AskForList]
            /\ loading' = TRUE
            /\ UNCHANGED <<dialog, answer>>
       ELSE End(o, "failed")
    /\ UNCHANGED <<server, who, onPage, items, asked>>

ListAnswered(o) ==
    /\ stage[o] = "read"
    /\ items' = answer[o]
    /\ End(o, "returned")
    /\ UNCHANGED <<server, who, onPage, asked>>

\* The request is refused before it reaches a handler, or cut off on its way
\* there or back; the server may be done with it, or still get it.  A load
\* after a write keeps its error to itself, and the write returns as accepted.
FetchFails(o) ==
    /\ stage[o] \in UnderWay
    /\ End(o, IF stage[o] = "write" THEN "failed" ELSE "unseen")
    /\ UNCHANGED <<server, who, onPage, items, asked>>

-----------------------------------------------------------------------------
User(o)   == EnterPage(o) \/ Search(o) \/ CreateDemo(o) \/ Confirm(o)
Lists(o)  == ListRows(o) \/ ListRevisions(o)
Settle(o) == WriteAnswered(o) \/ ListAnswered(o) \/ FetchFails(o)

\* The requests of other clients that change decisions.
OthersReceive(r) == ReceiveUpdate(r) \/ ReceiveTransition(r) \/ ReceiveDelete(r)

\* A handler that fails is to the page a fetch that fails.
Handlers ==
    /\ \/ \E r \in Reqs \ Ops : OthersReceive(r)
       \/ \E r \in Reqs : Serve(r)
    /\ UNCHANGED tab

\* Everything is answered, and the user is done.
Rest == /\ \A o \in Ops : stage[o] \notin UnderWay
        /\ \A r \in Reqs : phase[r] \notin InFlight
        /\ UNCHANGED webVars

WebNext == \/ Leave \/ SignIn \/ SignOut \/ OtherTab
           \/ OpenDialog \/ Cancel
           \/ \E o \in Ops : User(o) \/ Arrive(o) \/ Lists(o) \/ Settle(o)
           \/ Handlers
           \/ Rest

WebSpec == WebInit /\ [][WebNext]_webVars

-----------------------------------------------------------------------------
\* Whether the write of an operation was accepted.
Accepted(o) ==
    \E c \in Codes : \E v \in DOMAIN revisions[c] : revisions[c][v].request = o

WebTypeOK ==
    /\ session \in Users \cup {NoUser} /\ token \in Users \cup {NoUser}
    /\ DOMAIN items \subseteq Codes
    /\ \A c \in DOMAIN items : items[c] \in Item
    /\ loading \in BOOLEAN /\ onPage \in BOOLEAN
    /\ dialog \in Dialog \cup {NoDialog}
    /\ dialog # NoDialog =>
         onPage /\ dialog.target \in PriorityDecisionTransitions[dialog.item.status]
    /\ asked \in [Ops -> Creation \cup Transition \cup {NotAsked}]
    /\ stage \in [Ops -> Stages]
    /\ DOMAIN answer = Ops

\* A priority level that was confirmed on the page is set on what the page
\* displayed when its dialog was opened: the evidence of the row, the version
\* after the one of the row, the level of the button.  Old lists, rows and
\* revisions read at different moments, answers out of order and a list that
\* changes under the dialog never make it another.
AppliedAsConfirmed ==
    \A c \in Codes : \A v \in DOMAIN revisions[c] :
        LET o == revisions[c][v].request
        IN  (o \in Ops /\ IsTransition(o)) =>
                /\ c = asked[o].code
                /\ v = asked[o].item.version + 1
                /\ revisions[c][v].status = asked[o].target
                /\ revisions[c][v].evidence = asked[o].item.evidence

\* However often a dialog is confirmed, at once or after an answer was lost, its
\* transition is applied once.
ConfirmedOnce ==
    \A o \in Ops : \A p \in Ops \ {o} :
        (IsTransition(o) /\ Accepted(o) /\ IsTransition(p) /\ Accepted(p))
            => asked[o].code # asked[p].code

\* "The routes of the back end agree with the guards, navigation and buttons of
\* the front end" (README.md:41): what the page offers to the user it displays is
\* not forbidden to that user, and a rule refuses it only if the decision was
\* finalised since the list was read.  (Unless another tab has changed the user
\* the request is sent for.)
OffersAreAdmitted ==
    \A o \in Ops :
        (asked[o] # NotAsked /\ asked[o].ours) =>
            /\ phase[o] # "forbidden"
            /\ phase[o] = "rule" => IsFinal(decisions[asked[o].code])

\* When a write returns and its reload succeeded, the list shows its change or
\* a later one, unless the decision was deleted since: the reload was answered
\* by reads made after the write, whatever other loads are under way.  (Unless 20
\* other decisions were changed between the write and its reload.)
OwnChangeShown ==
    [][\A o \in Ops :
         (stage[o] # "returned" /\ stage'[o] = "returned") =>
            LET c == asked[o].code
            IN  IF c \in DOMAIN items'
                THEN items'[c].version > asked[o].expected
                ELSE ~Live(decisions[c])]_webVars

\* The table is masked only while an operation of the page is under way: no
\* failure, lost answer or overlapping operation leaves it out of reach.
MaskHasReason == loading => \E o \in Ops : stage[o] \in UnderWay

=============================================================================
