------------------------------ MODULE Listing ------------------------------
(***************************************************************************)
(* The pages of a list while it changes: the records of a table            *)
(* (repository/base.go, List), ordered by the time of their last change    *)
(* and then by id, and the audit log (repository/security.go, ListAudits), *)
(* ordered by time alone.  A page is two statements, the count and the     *)
(* page itself.  A client asks for one page, then for the next one, until  *)
(* a page is not full or until the total says that was all.                *)
(***************************************************************************)
EXTENDS Integers, FiniteSets, FiniteSetsExt, Functions

CONSTANTS
    Present,        \* id |-> time of the rows there are at first
    PageSizes,      \* the page sizes clients ask for
    FirstPages,     \* the pages they ask for first
    DefaultSize,    \* 20 in the code
    LargestSize,    \* 100 in the code
    LargestInt,     \* the largest value of the int type
    MaxWrites       \* bounds the writes during the walk

ASSUME PresentAssumption == /\ DOMAIN Present \subseteq Nat /\ DOMAIN Present # {}
                            /\ IsFiniteSet(DOMAIN Present)
                            /\ \A id \in DOMAIN Present : Present[id] \in Nat
ASSUME PagesAssumption   == /\ PageSizes \subseteq Int
                            /\ DefaultSize \in 1 .. LargestSize
                            /\ LargestSize \in Nat
                            /\ LargestInt \in Nat
                            /\ FirstPages \subseteq -LargestInt .. LargestInt
ASSUME WritesAssumption  == MaxWrites \in Nat

VARIABLES
    table,      \* "records" or "audits"
    time,       \* id |-> updated_at or created_at of the rows
    statement,  \* "count", "find" or "done"
    page,       \* the page under way
    size,       \* the page size of this walk
    total,      \* the count of the page under way
    found,      \* the rows of the last page
    shown,      \* the ids of all pages so far
    fromStart,  \* whether the walk began with the first page
    byTotal,    \* whether it ends by the total or with a page that is not full
    touched,    \* history: the ids written during the walk
    removed,    \* history: whether a record was removed during the walk
    writes      \* how many writes there were

rule     == <<fromStart, byTotal>>
reading  == <<statement, page, size, total, found, shown, rule>>
written  == <<time, touched, removed, writes>>
walkVars == <<table, reading, written>>

-----------------------------------------------------------------------------
(***************************************************************************)
(* Reading.                                                                *)
(***************************************************************************)
\* bindPage: a size out of range becomes the default.
BindPage(asked) == IF asked < 1 \/ asked > LargestSize THEN DefaultSize ELSE asked

\* normalizePage, which reads a size that is too large in its own way.
NormalizePage(bound) ==
    CASE bound < 1           -> DefaultSize
      [] bound > LargestSize -> LargestSize
      [] OTHER               -> bound

FirstPage(asked) == IF asked < 1 THEN 1 ELSE asked

WalkInit ==
    /\ table \in {"records", "audits"}
    /\ time = Present
    /\ statement = "count"
    /\ page \in {FirstPage(asked) : asked \in FirstPages}
    /\ size \in {NormalizePage(BindPage(asked)) : asked \in PageSizes}
    /\ total = 0 /\ found = {} /\ shown = {}
    /\ fromStart = (page = 1) /\ byTotal \in BOOLEAN
    /\ touched = {} /\ removed = FALSE /\ writes = 0

Count ==
    /\ statement = "count"
    /\ total' = Cardinality(DOMAIN time)
    /\ statement' = "find"
    /\ UNCHANGED <<table, page, size, found, shown, rule, written>>

\* Mutant: oldest change first.
OldestFirst(a, b) ==
    time[a] < time[b] \/ (table = "records" /\ time[a] = time[b] /\ a < b)

\* ORDER BY updated_at DESC, id DESC; ORDER BY created_at DESC.
Before(a, b) ==
    time[a] > time[b] \/ (table = "records" /\ time[a] = time[b] /\ a > b)

\* Machine arithmetic.
Wrap(n) == ((n + LargestInt + 1) % (2 * (LargestInt + 1))) - LargestInt - 1

\* Mutant: pages are counted from zero.
OffsetFromZero == Max({0, Wrap(page * size)})

\* gorm writes no OFFSET unless it is positive.
Offset == Max({0, Wrap((page - 1) * size)})

\* What the first n rows may be.  The database may put rows that compare equal
\* in either order, and differently in every statement.
First(n) == {rows \in kSubset(Min({n, Cardinality(DOMAIN time)}), DOMAIN time) :
               \A a \in DOMAIN time \ rows : \A b \in rows : ~Before(a, b)}

More(items) ==
    IF byTotal THEN page * size < total ELSE Cardinality(items) = size

Find ==
    /\ statement = "find"
    /\ \E skipped \in First(Offset) : \E through \in First(Offset + size) :
         /\ skipped \subseteq through
         /\ found' = through \ skipped
    /\ shown' = shown \cup found'
    /\ IF More(found') /\ page < LargestInt
       THEN statement' = "count" /\ page' = page + 1
       ELSE statement' = "done" /\ UNCHANGED page
    /\ UNCHANGED <<table, size, total, rule, written>>

-----------------------------------------------------------------------------
(***************************************************************************)
(* Writing.                                                                *)
(***************************************************************************)
Writes ==
    /\ statement # "done" /\ writes < MaxWrites
    /\ writes' = writes + 1
    /\ UNCHANGED <<table, reading>>

\* The service takes the time before its statement runs: a write may be stamped
\* before, with or after the latest one there is, but not before the last write
\* of the same row: a client that names the version of that write has seen it.
Times == LET latest == Max(Range(time)) IN latest - 1 .. latest + 1

Stamp(id, t) ==
    /\ time' = [x \in DOMAIN time \cup {id} |-> IF x = id THEN t ELSE time[x]]
    /\ touched' = touched \cup {id}
    /\ UNCHANGED removed

\* A record is created, or an audit entry appended.
AddRow ==
    /\ Writes /\ DOMAIN time # {}
    /\ \E t \in Times : Stamp(Max(DOMAIN Present \cup touched) + 1, t)

ChangeRecord ==
    /\ Writes /\ table = "records"
    /\ \E id \in DOMAIN time : \E t \in {t \in Times : t >= time[id]} : Stamp(id, t)

\* A record that stops matching the filter of a list is removed from it like
\* one that is deleted.
RemoveRecord ==
    /\ Writes /\ table = "records"
    /\ \E id \in DOMAIN time :
         /\ time' = [x \in DOMAIN time \ {id} |-> time[x]]
         /\ touched' = touched \cup {id}
    /\ removed' = TRUE

Finished == statement = "done" /\ UNCHANGED walkVars

WalkNext == Count \/ Find \/ AddRow \/ ChangeRecord \/ RemoveRecord \/ Finished

WalkSpec == WalkInit /\ [][WalkNext]_walkVars

-----------------------------------------------------------------------------
\* A row whose place in the list is determined: in the audit log, one that no
\* other was appended in the same instant with.
Placed(id) ==
    table = "records" \/ \A other \in DOMAIN time \ {id} : time[other] # time[id]

\* A walk through all pages shows every row that was there before it and was not
\* changed during it, however many others are created and changed meanwhile and
\* come in between two pages: they push what was not read yet to later pages,
\* never to earlier ones.  (A removal does the opposite; audit entries of one
\* instant may change places between two pages; and a total counted before a row
\* was added may end the walk too early.)
WalkMissesNothing ==
    (/\ statement = "done" /\ fromStart /\ ~removed
     /\ byTotal => DOMAIN time = DOMAIN Present)
    => {id \in DOMAIN Present \ touched : Placed(id)} \subseteq shown

\* A page of records holds those that have as many others before them as the
\* earlier pages have places, as long as the product of page and size is an int.
\* (The pages past that show rows from anywhere in the list.)
PageIsItsSlice ==
    [][(/\ statement = "find" /\ statement' # "find"
        /\ table = "records" /\ (page - 1) * size <= LargestInt)
       => LET rank(id) == Cardinality({x \in DOMAIN time : Before(x, id)})
          IN  found' = {id \in DOMAIN time : rank(id) \div size = page - 1}]_walkVars

=============================================================================
