# Verification of the railway-bridge defect-priority service

TLA+ specifications of the back end under `src/backend` and of the page that
works on its decisions under `src/frontend`, model-checked with TLC on small
instances, with theorems about the core checked by TLAPS. Paths below
are relative to `src/backend/internal` unless they say otherwise. Codes of
findings, hazards and the line-by-line mapping are in `PROJECT.json`.

## 1. The system

A Gin server handles every HTTP request in a goroutine of its own. A handler
runs a few database statements one after another, each on whatever connection
the pool gives it; there is no lock in the process around them. What the
handlers share is the database (PostgreSQL, or SQLite in development), one Redis
counter per client and route, and the in-memory map of the rate limiter. The
statements of different handlers interleave freely, which is where the hard
behaviours of this program come from.

| Component | State | Operations | Interaction | Hard behaviour | Correct when |
|---|---|---|---|---|---|
| Priority decisions (`service/`, `repository/`, `handler/priority_decision.go`) | tables `priority_decisions` (soft delete, `version`) and `priority_decision_revisions` (unique on decision and version) | create, update, transition, delete, get, list, counts | writes row and revision in one transaction; appends to the audit log outside it | check on a snapshot, write later under the version the *client* sent; unguarded soft delete; lost audit entries; two-statement reads | revisions form an unbroken, append-only chain; a draft is finalised once, by someone independent, on the evidence that was read, which is their own only for an administrator; final decisions stay |
| Bridge assets, inspection rounds, defect findings (the same code three times over `repository/base.go`) | one table each, soft delete, `version` | create, update, transition, delete, get, list, counts | as above, no revisions | as above; an edit writes back the status it read, a transition the data it read | no lost update; status only along its graph; log and status agree |
| Audit log (`service/security.go`, `repository/security.go`) | table `audit_logs` | append; list, history, summary | called by every service after its write | entry fails or is never written after a commit; order of entries is not the order of commits | an entry is never wrong, and an acknowledged transition has one |
| Status graphs (`constants/status.go`) | none | `CanTransition` | used by the services | - | - |
| Tokens and roles (`middleware/auth.go`) | none (claims in the token) | authenticate, minimum role, role set | before every handler | - | the router admits the documented roles |
| Rate limiter (`middleware/ratelimit.go`) | Redis counters; local map under a mutex | increment, local fallback, clean-up, status | before authentication | Redis fails for some requests; the window turns between two statements; 512 keys | a bounded number of requests per window; old windows are dropped |
| Start-up (`database/database.go`, `cmd/server/main.go`) | all tables | connect with retries, migrate, seed, shut down | before the first request | stop between seeds; seeding after deletions | a restart succeeds and duplicates nothing |
| Readers (`handler/system.go`, `List`, `CountByStatus`, `SummarizeAudits`) | none | overview, audit summary, pages | several statements without a transaction | torn reads; a list that changes between its pages; offset overflow | figures of one summary fit together; a walk through the pages misses nothing that was left alone; a page is its slice of the list |
| Configuration, router wiring, request ids and logging | none over time | - | - | - | - |
| Web client (`src/frontend/src`) | one Pinia store per entity, the session of the tab, the token all tabs share, the pending dialog | load, create, transition; sign in and out | sends the version of the row it displays | loads and writes overlap; answers out of order or lost; a button pressed twice; another tab signs in | what is confirmed is what is applied, once; offers agree with the back end; a write that returned is on the list |

## 2. Modules

    StatusGraph   AccessControl                    constants/status.go, middleware/auth.go
         |    \    /      \
         |  PriorityDecision  DecisionLedger       the handlers; what they promise
         |         |            |
         |  PriorityDecisionProperties             properties, ImplementsLedger
         |         |         \
         |  MCPriorityDecision  PriorityDecisionProofs -> PriorityDecisionFreezeProofs
         |                                                    -> PriorityDecisionAuditProofs
         |
         |  PriorityDecision <- WebClient <- MCWebClient   a tab working against the handlers
         |  WebClient, PriorityDecisionAuditProofs <- WebClientProofs   its proofs
         |
     Aggregate      RecordRegister                 the three other services; their promise
         \            |
        AggregateProperties -> MCAggregate         properties, ImplementsRegister
                            -> AggregateProofs

     RateLimiter   Startup                         one module each, with its MC module
                                                   and its proofs
     AuditSummary  Listing  -> MCReaders           the readers
                            -> ReaderProofs

### PriorityDecision

*State.* `decisions` and `revisions` are the two tables, `audits` the rows of
`audit_logs` for them. A decision is named by its code instead of its id: the
code is unique, also over soft-deleted rows, and never changes. A row keeps its
status, version, `preparedBy`, deletion and one field, `evidence`, for all the
business fields; a revision keeps status, evidence, actor and request. Each
request `r` has a program counter `phase[r]` that names its next database
statement (`write`, `audit`, `reload`, `preload`) or its outcome, the `input` it
carries, the row `current[r]` its handler holds and the revisions `shown[r]` it
returned. A request is identified by itself and not by `X-Request-ID`, which a
client may choose and repeat.

*Actions.* `Receive...` is the arrival of a request up to its first read
(`Get`), with all the checks the service makes on that read in their order; a
check that fails is the outcome. `CreateWithRevision`, `UpdateWithRevision` and
`Delete` are the write, one transaction and so one step. `Audit` is the separate
insert of the log entry, `Reload` and `Preload` the two statements of the final
`Get`. `DatabaseFails` and `AuditFails` are failing statements (a failed
connection, or the request context cancelled because the client left): audit
errors are ignored on create and update and returned on transition and delete,
as in the code. `Crash` stops the process with all its handlers. A statement that
is done while its answer is lost is a step followed by the failure of the next
statement, with the same tables and the same outcome; only the entry of a deletion
has no next statement, and `AnswerLost` is that case.

*Left out.* The text of reasons, snapshots and details; ids, timestamps and the
order of log rows; validation is one value, `Blank`, for input with an empty
business field. A malformed body (400) never reaches the service.

### Aggregate

The services, handlers and repositories of bridge assets, inspection rounds and
defect findings differ in names only (compare them with the names replaced), so
one module models all three: `TableOf` gives the table of a code and with it the
graph and the initial status. `PROJECT.json` maps some definitions to one of the
three files and some to another. There are no revisions, the reply is read with
one statement, a creation answers with the item it built, and any status may be
deleted. `AnswerLost` has a second case here: after the insert of a creation only the
audit follows, whose failure is ignored, so a creation that is done but answered with
an error is no sequence of other steps. Actors are left out, since these services never look at them.

### DecisionLedger and RecordRegister

What the two services promise, without handlers, snapshots or versions: a trail
of entries per decision that opens with a draft, may be amended by its preparer
or an administrator, is closed by an independent reviewer on the evidence of the
last draft, and takes nothing more once closed or withdrawn; a register whose
records change data and status separately, the status along the graph. The
refinement mappings (`Ledger`, `RR`) read both off the tables alone, so every
statement of a handler must be one step of the promise or a stutter.

### RateLimiter

*State.* `counters` is Redis, `local` the map of the process;
`now` is the minute of the clock, and `redisKey` has the key and the window each
request read when it arrived. *Actions.* `Arrive` reads the clock; `Exec`,
`ExecAnswerLost` and `ExecFails` are the three ends of the pipeline of `INCR` and
`EXPIRE` (it ran; it ran and the answer was lost; it did not run);
`IncrementLocal` is the fallback under the mutex with the clean-up before it;
`Expire` removes a counter after its two windows; `Tick` and `Restart` are the
clock and a new process with an empty map and the same Redis. *Assumed:* the
clock does not go backwards; a pipeline runs at most one window after its key was
formed (the client's timeouts are seconds, the expiry is two minutes); go-redis
does not repeat a pipeline it has written. `Capacity` stands for the 512 of the
code. Headers and `Status` are left out, since they only report.

### Startup

*State.* `rows` is the live and deleted codes of the five tables, `step` what the
process does next, `seeded` how many seeds the present start is through.
*Actions.* `Boot`, `Connect`, `PingFails` (with the loop of attempts),
`SeedTable` (count, then insert if nothing live is there), `PingRedis`; then
`CreateRecord` and `DeleteRecord` of clients; `Stop` anywhere. One process runs
at a time, as Compose starts one container, so count and insert of a seed are one
step. Clients delete only where a handler does (no accounts). When every record
of a table has been deleted, the next start inserts codes that deleted rows
still occupy, and fails for good: `Restarts` leaves exactly that case out, and
no document promises it.

### AuditSummary and Listing

The two readers that take more than one statement and that somebody relies on.
`AuditSummary` keeps the log as a sequence and runs the five statements of
`SummarizeAudits` between appends; an entry older than the window never enters
it, since the start of the window is computed once.

`Listing` walks the pages of a table of records (`Store.List`, ordered by
`updated_at` and `id`) or of the audit log (`ListAudits`, ordered by `created_at`
alone). *State.* `time` gives each row the time it is sorted by; the walk has its
`page`, `size`, the `total` it counted, the rows `found` and all `shown` so far.
*Actions.* `Count` and `Find` are the two statements of a page; `AddRow`,
`ChangeRecord` and `RemoveRecord` are writes of others in between, stamped before,
with or after the latest row, since the service takes the time before its
statement runs. A page is any set of rows the order allows (`First`): in the audit
log, entries of one instant may come in any order, and in another one in the next
statement. The offset is computed in an int of `LargestInt`, which the
instance makes small enough to overflow. A client goes on until a page is not full
or, as `usePagination.ts`, until the total says it has seen all. A row is not stamped
earlier than its last change: a client that names the version of a change has seen it,
so its request began later (`Lookahead = 0` of section 3, and a clock that does not go
backwards). Both miss nothing
that was left alone, unless a deletion moves rows to pages already read, entries
share an instant, or a total was counted before a row was added. The module keeps
the sets of a page, not the sequence: the order within a page is that of `Before`.

### WebClient

*State.* One browser tab on the page of priority decisions
(`components/EntityPage.vue` over `stores/factory.ts`): `session` is the user it
displays, `token` the user of the token in the storage all tabs share, `items`
and `loading` the store, `dialog` the transition that waits for confirmation.
Each operation `o` of the store is a promise of its own: `asked[o]` is the write
it sends, `stage[o]` how far it is, `answer[o]` the list the server is reading for
it. The write is a request of `PriorityDecision`, which the module extends, with
all its handlers; other requests come from other clients.

*Actions.* `EnterPage` and `Search` load, `CreateDemo` and `Confirm` send a write
and on success load; `OpenDialog` takes a row and one of the targets its buttons
offer (`TargetsFor`). `Arrive` is the server's receipt of a write with the token
it was sent with, `ListRows` and `ListRevisions` the two reads of a list.
`WriteAnswered`, `ListAnswered` and `FetchFails` end or continue an operation: a
fetch may fail at any moment, also when the server is done or has yet to begin,
which covers refused tokens, failing handlers and lost answers. Nothing orders
operations: a load that started first may answer last, and the end of any of them
clears the mask over the table (`End`), so dialogs are opened on old rows. `SignIn`,
`SignOut` and `OtherTab` change the session, and `Leave` goes to another page of the
application; leaving the page forgets its dialog but not the operations under way,
nor the store, which the page finds again when it is entered the next time.

*Left out.* The search text (which rows are listed), messages, metrics, the
dialog before a creation, and the order of the rows. Page and page size are left out
with it: the store asks for the 20 rows changed last (`stores/factory.ts:9`), the
module lists all there are. `OwnChangeShown` therefore supposes that fewer than 20
other decisions change between a write and the reload after it; nothing else depends
on it, since a row that is not listed only offers less.

## 3. Lookahead: what clients send

The optimistic lock compares the row with the version the client sends, not
with the version the handler read. `Lookahead` bounds how far past the current
version a client may guess. With 0 clients repeat versions they were shown, as
the web client does (`Confirmed` in `WebClient` sends the version of the row its
dialog was opened on, `src/frontend/src/stores/factory.ts:19`);
with 1 a client may send its next request for the version it expects its
previous one to produce. The code accepts any number. Some properties need 0,
and the two runs that show what happens with 1 are expected violations.

## 4. Runs

| Run | Instance | Distinct states | Shows |
|---|---|---|---|
| `review` | 1 seeded draft, 3 requests of any kind, 3 users, 2 evidences, lookahead 0, all faults, symmetric requests | 1.0 million | types, own evidence only by administrators, approval on the evidence read, truthful log, single removal, acknowledged finalisations are logged, rejected requests leave no trace, replies are traceable, final and removed rows are frozen |
| `create` | empty table, 3 requests, a reviewer and an administrator, lookahead 1, all faults | 0.7 million | what needs no assumption on the client: chain, independence, recorded snapshots, append-only revisions |
| `progress` | 1 seeded and 1 new decision, 2 requests, no faults, fairness | 14 thousand | every accepted revision gets its entry; every request is answered; refinement of `DecisionLedger` |
| `records` | a seeded bridge and defect and a new inspection, 3 requests, lookahead 0, all faults | 0.6 million | types, a log that explains the status, replies that include the change, status along the graph, refinement of `RecordRegister` |
| `limits` | 3 requests of up to 3 keys, limit 1, map cleaned from 2 keys on, 3 windows, 1 restart | 0.2 million | each counter admits its limit per key and window, whatever fails; a rejection is earned by requests of that key; the clean-up drops what is old and nothing else |
| `startup` | 5 tables, up to 3 attempts, up to 3 interruptions, records created and deleted | 25 thousand | each seed whole, in order and once; a restart changes no record; a server left alone comes back |
| `readers` | 4 records or audit entries, 3 writes, pages and sizes in and out of range, an int of 4 bits; or 1 old entry and up to 3 new ones under a summary | 1.0 million | a walk misses no row that was left alone; a page is its slice up to the overflow; figures of one summary differ by no more than what was appended while it was read |
| `web` | 1 seeded draft, 3 operations of the tab, 1 request of another client, 3 roles, 1 change of the session or of the page, lookahead 0, symmetric operations | 2.6 million | what is confirmed is applied as it was displayed and once; offers are admitted; a returned write is on the list; the mask is lifted |
| `final_deleted` (violation) | 1 draft, 2 requests, no faults | - | a delete and a finalisation that interleave delete a final decision |
| `final_overwritten` (violation) | the same, lookahead 1 | - | an edit makes a final decision a draft again |
| `audit_lost` (violation) | 1 draft, 2 requests, faults | - | a committed finalisation without its log entry |
| `status_reverted` (violation) | 1 bridge, 2 requests, lookahead 1 | - | an edit undoes a transition against the graph |

*Bounds.* Every request is handled once, so the number of requests bounds the
versions, the log and the run itself; nothing else is cut off. Two requests are
what each known interleaving needs (the one that read and the one that writes in
between). The third lets a history precede it (create, edit, finalise), lets two
requests race behind a third, and lets one record see an edit, a change of status
and a removal. The refinement of the ledger is checked with two requests and on
two decisions, and proved for any number of both. Two evidences suffice to tell old
from new. One decision per instance is enough for safety, since no statement
touches two rows; `progress` and `records` have more than one. The three users
are the writing accounts of the seed, one of each role; a viewer never passes
the router. `create` leaves the operator out: the reviewer and the administrator can do
all an operator can, and either can prepare what the other reviews. So does `web`,
which adds a viewer: the page of an operator is that of a reviewer without its
transitions. The three requests are interchangeable, hence the symmetry (only in
runs without liveness).

In the smaller instances the bounds are on what the environment does. `limits`
has three requests, one more than the two that can share a limit of one, and one
window more than a counter lives. `startup` allows one interruption to cut a seed
short, one to stop the process afterwards and one more for the start in between.
`readers` has an entry for each of the gaps in which an append tells two figures
of a summary apart, and as many writes as move a record over more than one page
of size 1; its int of 4 bits overflows for pages 6 and 7 to a negative offset, which
is none at all, and to a positive one. `web` has three operations: a load,
a confirmation and one that overlaps both, or two confirmations of one dialog
after the load that shows it; the one request of another client edits, finalises
or deletes the decision in between. The one change of the session, or the one
time the page is left and entered again, may come at any stage of any of them; the
proofs put no bound on either. Handlers that fail are not part of the instance: to the tab
they are fetches that fail, which are.

*Deadlock* is checked in all of them: `Quiescent` (`Finished` in `Listing`, `Rest`
in `WebClient`) lets an instance rest when all is answered, and only then.

*Fairness.* `FaultFreeSpec` has weak fairness on `Serve(r)` for each request: a
goroutine whose statement can run is scheduled and the statement returns, which
Go's scheduler and a database that answers provide. Nothing is assumed about
arrivals. `Startup` has weak fairness on `Start`: Compose starts a stopped
container again (`restart: unless-stopped` in `docker-compose.yml`), and a start
whose statements return goes on to its end; the interruptions are bounded.
Neither connecting nor stopping is assumed to happen. Under faults no progress is claimed: a handler whose process stops is
never resumed, and nothing completes its log entry (`audit_lost`).

*Two locks.* Dropping the version from the `WHERE` clause of decisions alone
loses no update as long as clients send versions they have seen, because the
unique index on revisions rejects the second writer. The other three tables have
no such index, and the same change breaks `ImplementsRegister` there at once.

## 5. Findings

1. **A final decision can be deleted** (`service/priority_decision.go:148`): the
   status is checked on the row that was read, and the soft delete in
   `repository/base.go:73` asks for neither status nor version.
2. **A final decision can be overwritten** (`service/priority_decision.go:101`):
   an edit that read the draft but names the next version is accepted after the
   finalisation, and writes the status `draft` back. Comparing with the version
   that was read would prevent it.
3. **A status change can be missing from the audit log**
   (`service/priority_decision.go:134`): the entry is not part of the
   transaction, and its failure leaves the change in place.
4. **An edit can undo a transition** (`service/bridge_asset.go:85` and its
   siblings): as in 2, along an edge the status graph does not have.

## 6. Proofs

Eight modules hold theorems about the specifications, for any values of the
constants: any number of records, users, requests, keys, tables and faults. They
assume only the named `ASSUME`s of the modules, which TLC evaluates in the runs.

| Module | Theorem | Property | Extra assumption |
|---|---|---|---|
| `PriorityDecisionProofs` | `TypeCorrect` | `TypeOK` | - |
| | `RevisionsFormAChain` | `RevisionChain` | - |
| | `ReviewIsIndependent` | `IndependentReview` | - |
| | `OwnEvidenceNeedsAdmin` | `OwnEvidenceOnlyByAdmin` | - |
| `PriorityDecisionFreezeProofs` | `AppendOnly` | `RevisionsAppendOnly` | - |
| | `DeletedStaysAsItWas` | `RemovedIsFrozen` | - |
| | `SnapshotsAreRecorded` | `SnapshotsRecorded` | - |
| | `FinalEvidenceWasRead` | `ApprovedAsRead` | `Lookahead = 0` |
| | `FinalStaysAsItWas` | `FinalFrozen` | `Lookahead = 0` |
| `PriorityDecisionAuditProofs` | `RejectionsLeaveNoTrace` | `RejectedLeavesNoTrace` | - |
| | `FinalisationsAreAudited` | `AcknowledgedIsAudited` | - |
| | `AuditEntriesAreTrue` | `AuditTellsTheTruth` | `Lookahead = 0` |
| | `RemovalsAreSingle` | `SingleRemoval` | - |
| | `RepliesAreTraceable` | `ReplyIsTraceable` | - |
| | `ServiceImplementsLedger` | `ImplementsLedger` | `Lookahead = 0` |
| `AggregateProofs` | `TypeCorrect` | `TypeOK` | - |
| | `RepliesIncludeTheChange` | `ReplyIncludesChange` | - |
| | `StatusesFollowTheGraph` | `StatusFollowsGraph` | `Lookahead = 0` |
| | `ServicesImplementRegister` | `ImplementsRegister` | `Lookahead = 0` |
| | `AuditTrailsAreWalks` | `AuditTrailIsAWalk` | `Lookahead = 0` |
| `RateLimiterProofs` | `TypeCorrect` | `TypeOK` | - |
| | `RedisAdmitsWithinLimit` | `RedisBudget` | - |
| | `ProcessAdmitsWithinLimit` | `LocalBudget` | - |
| | `NobodyIsTurnedAwayEarly` | `RejectionsAreEarned` | - |
| | `BucketsDoNotPileUp` | `OldBucketsDropped` | - |
| `StartupProofs` | `TypeCorrect` | `TypeOK` | - |
| | `TablesAreSeededWhole` | `SeededWholeAndInOrder` | - |
| | `RestartsKeepRecords` | `RestartKeepsRecords` | - |
| `WebClientProofs` | `WebTypeCorrect` | `WebTypeOK` | - |
| | `MaskIsLifted` | `MaskHasReason` | - |
| | `AppliesWhatWasConfirmed` | `AppliedAsConfirmed` | - |
| | `OwnChangesAreShown` | `OwnChangeShown` | - |
| | `ConfirmsOnce` | `ConfirmedOnce` | `Lookahead = 0` |
| | `OffersAgree` | `OffersAreAdmitted` | `Lookahead = 0` |
| `ReaderProofs` | `PagesAreSlices` | `PageIsItsSlice` | - |
| | `WalksMissNothing` | `WalkMissesNothing` | the rows fit an int; stamps as in section 2 |
| | `SummariesAgree` | `SummaryConsistent` | - |

`Lookahead = 0` says that clients send only versions the record has had (section
3). The runs `final_overwritten` and `status_reverted` show that `FinalFrozen` and
`StatusFollowsGraph` need it.

### Priority decisions

*The inductive invariant.* `RevisionChain` and `IndependentReview` speak of the
tables only and are not inductive: the write of a handler depends on what it
holds. `IInv` adds `HandlersOK`, which says of each request what its phase owes:
that a handler about to write a review holds a snapshot its user may review, that
a snapshot of an existing decision carries the preparer the decision still has,
and that a request under way has the input of its kind. A step of the request
itself establishes it (the checks of `Enter`), and a step of another keeps it,
because no step changes a preparer. `DraftsByOwner` is the third part: a draft is written by
its preparer or an administrator, and since the preparer never reviews
(`IndependentReview`), who finalises evidence of their own is an administrator.
The proof has one lemma per action.

*Snapshots.* `SnapshotsRecorded`, proved on top of `IInv`, is the fact behind
the optimistic lock: what a handler holds is an earlier draft that the revisions
still record, and the expected version is at most `Lookahead` past it. With
lookahead 0 a write that matches therefore writes what it read
(`WritesWhatItRead`), and both results about final decisions follow. Without
that assumption the last step fails, and run `final_overwritten` shows why.

*The log and the replies.* Each result rests on what a request owes to the tables
at each of its phases. `NothingBefore`: a request that has not written, or was
refused, is named nowhere. `IgnoredAreDrafts` and `AuditedWhenBehind`: a handler
that is past its audit has its entry unless it wrote a draft, since only the audits
of creations and edits may fail unnoticed. `EntriesAttested`: an entry in the log,
and the one a handler is about to append, agrees with a revision; with lookahead 0
the status it calls the one before is that of the preceding revision, because the
write matched the version of the snapshot. `RemovedOnce`: of one code there is at
most one deletion, logged or about to be, and only of a deleted row; the soft delete
affects no row a second time. `RepliesRecorded`: the row a handler holds between its
two reads is one the revisions record, and they only grow.

*The ledger.* `ServiceImplementsLedger` maps each step that changes the tables to
one action of `DecisionLedger`: a creation to `Draft`, with the role the router
asked for (`CreatorsAdmitted`); a matching write to `Amend` or `Finalise`, whose
independence and evidence come from `HandlersOK` and `WritesWhatItRead`; a soft
delete to `Withdraw`. All other steps leave the two tables alone
(`TablesUntouched`) and are stutters.

### The other aggregates

`Typed` is the types with `HandlerFacts`, as in the core. There are no revisions to
compare a snapshot with, so the proof compares it with the present row: `Follows`
says that a row is never taken away, that its version never goes back, and that at
one version its status and data are the same (`RowsAdvance`). Three invariants build
on it. `Replies`: from its write on, the row holds a handler's change or its version
has passed it, so the row read for the answer does. `Snapshots`: until its write the row follows the
snapshot, and the expected version is at most `Lookahead` past it. With lookahead 0
a write that matches finds the very row its handler read (`SnapshotIsCurrent`); an
edit then changes the data alone and a transition the status alone, along the graph
(`WriteIsEditOrMove`), which is the register's `Edit` or `Move`. `Trails` counts: the
trail of a record is the logged transitions together with those whose handlers are
about to log them, so that a commit extends it and the late insert of the entry
does not change it; as long as no request broke off, every status is entered as
often as it is left, but for the first and the present one. Entries are distinct
because a request logs only after its write (`EntriesArePast`).

### Rate limiter and start-up

`Counting` ties the counters to a ghost of the module, `charges`: a Redis counter equals
the charges of its key and window for as long as a pipeline can still reach it
(`RedisCounts`, from the order of the windows in `KeysAreDue`), and a bucket of the
present window equals those of this life of the process (`LocalCounts`). A request
charges each counter once (`ChargesAreDone`), so what was admitted is at most the
count that admitted the last one. `OldBucketsDropped` also needs the map to be
finite.

For `Startup` the strengthening is `SeedProgress`: a start seeds while a table is
left and serves when none is. A seed that counts no live row finds none at all or
fails on the unique index, which is how records that were all deleted stay deleted.
`TablesAssumption` says that the tables are a sequence, and not an empty one.

### Web client

`WebInv` puts the facts proved of the handlers (`ServerKnown`) next to what the tab
holds. The central part is `Known`: a row on the list, in an answer that is being
read, in the dialog or in a confirmation that was sent carries the status of one
version of its decision and the evidence of that version or of a later one, since
the row and its revisions are read by two statements. Revisions are only appended
and preparers never change, so no step makes a known row unknown (`KnownStays`),
however old it is. A transition that is accepted finds the version it was confirmed
with, so the version displayed is the last one, and the evidence displayed can only
be that one's (`AppliesWhatWasConfirmed`). The argument uses the version of the row
of the dialog and the ones the handlers hold, and no assumption on what others send.

`OwnChangesAreShown` follows a write: from its commit on the decision is past the
version the write was sent with, or deleted (`Moved`), and the list it returns with is
asked for only after that, so it is read after that (`MoveShown`). Other loads may
replace the list before and after, not in that step.

`ConfirmsOnce` and `OffersAgree` need `LevelsApproved`, which is what
`FinalEvidenceWasRead` proves of the core: a level is the last version of a decision.
Two accepted confirmations of one decision would both be its last revision. For the
offers: a row that is offered was a draft, the rules on roles and preparer are those
of the server, and the decision is another one only when it is final. With lookahead 1
a final decision can become a draft again (`final_overwritten`), and both fail.

### Readers

*Pages.* The rank of a row is the number of rows before it. One of the first `n` rows
has a rank below `n` (`RankInFirst`); one that is not has at least `n`
(`RankBehindFirst`), provided its place is determined, as every record's is by its
id. A page lies between two such `First`s, and the rank of its rows gives its number.

*Walks.* The invariant `WalkInv`: a row that was there before, was left alone and was
not shown yet has a rank of at least `(page - 1) * size`, the place the next page
begins at. Creations and changes only add to what is before it (`RankGrows`: an id is
new, and the time of a row that changes does not decrease), and a page that does not
show it leaves it behind its end (`ShownOrBehind`). When a walk ends, no rank is that
high (`PageFull`). The assumption, `Cardinality(DOMAIN Present) + MaxWrites <=
LargestInt`, keeps the offset from wrapping; the instance of `readers` meets it
exactly (4 + 3 rows, ints up to 7), and with one more write TLC finds a walk that
misses a row.

*Summaries.* `GroupsAddUp`: the counts of a `GROUP BY` add up to the rows it groups.
No induction theorem is needed for the sum: the function that counts the rows of a
set of groups satisfies the recursion of the fold, and two functions that do cannot
differ at a smallest set (`SumIsFold`). The rest is that the log only grows, and each
figure lies between the entries of the window then and now (`SummaryInv`).

### What is only model-checked

All invariants and action properties of the runs, and both refinements, are proved.
Liveness under fairness is out of the prover's reach and stays with TLC:
`RevisionsEventuallyAudited` and `Answered` (`progress`) and `Restarts` (`startup`).
So do the four expected violations.

The inductive invariants were checked on the instances of the runs before they were
proved. `PriorityDecision`, `Aggregate` and `WebClient` take `Lookahead = 0` where the
table says so, because the code does not have the property otherwise; it is an
assumption on clients (section 3), which the web client of this repository meets.

## 7. Order of the work

`StatusGraph`, `AccessControl`, `PriorityDecision` with its properties,
`DecisionLedger` and its proofs; `Aggregate` and `RecordRegister`; `RateLimiter`;
`Startup`; `AuditSummary` and `Listing`; `WebClient`; the proofs about the core, its
log and its ledger, then those about `RateLimiter`, `Startup` and `Aggregate`, and
last those about the web client and the readers. An extension would begin with the
three other pages of the web client, against `Aggregate`, and with the codes of
repeated creations, for which the code promises nothing yet.

## 8. Not modelled

Password hashing, token signing, parsing and expiry (library calls on strings), request
ids, headers and logging (no state), configuration (read once), router wiring
beyond the role of each route; the overview, whose four counts nothing relates;
rendering of the web client, its three other pages (the same component without the
rule on the preparer) and the audit page, which only loads. Isolation of the
database is taken as: one statement or one transaction is atomic. That is what
the single guarded `UPDATE` and the unique indexes give in PostgreSQL's default
isolation, where the second of two writers of a row re-evaluates its `WHERE`
clause after the first commits.
