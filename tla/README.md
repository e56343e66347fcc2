# BLASTI queue platform: TLA+ models and proofs

BLASTI runs the waiting queues of agencies: customers take tickets from a phone, a kiosk or a
desk; staff call them to counters; agencies pay for subscriptions, SMS packs and hardware; desktop
clients go on working without a network and synchronise later. The server is a Hono application
over PostgreSQL (`src/apps/api`), with a timer-driven sweeper and cron jobs; the desktop client is
Electron with a local server and SQLite (`src/apps/desktop`).

Two things make this code hard. On the server, all coordination between concurrent requests goes
through the database at READ COMMITTED, so what a handler read in one statement may no longer be true
in the next. Between the server and the desktops, every message may be lost, answered late, or
answered after the sender has given up and gone another way. The modules are about these two.

Paths below are relative to `src/apps/api/src/` unless they start with `src/`; `index.js` and
`sync-service.js` are those of `src/apps/desktop/local-api/`.

## 1. Inventory

| Component | State | Operations | Interacts with | Hard behaviour | Correct when |
|---|---|---|---|---|---|
| Call next (`lib/queue-claim.ts`, `lib/tx-retry.ts`) | ticket status, counter link, the number shown | one transaction: scan, auto-complete, candidates, conditional claim, link; bounded retry | every route that writes a ticket | two desks at once, row deadlocks, unique indexes, rollbacks | a ticket is won once, in order; counters show what tickets say; a request is answered |
| Ticket routes (`routes/reservations.ts`, `routes/agency.ts`) and auto-skip (`routes/cron.ts`) | the same | cancel, status changes, desk actions, reclaim, batch completion, skip | call next | checks on reads that are stale when the write comes | no route undoes a call |
| Ticket issue and postponement (`routes/reservations.ts`, `routes/agency.ts`, `routes/kiosk.ts`, `routes/devices.ts`) | tickets, queue numbers | join, walk-in, kiosk, postpone, import | each other, the ticket routes | count-then-insert, max-then-insert, renumbering of ranges read earlier | numbers unique in a lane, order kept, capacity and one ticket per customer overrun only by requests at once |
| Counter control (`lib/counter-control.ts`, `routes/agency.ts`, `workers/counter-control-sweeper.ts`) | controller and heartbeat of a counter, takeover requests | claim, heartbeat, release, request, approve, reject, assign, sweep | overlapping sweeps, staff that leave | leases, timeouts racing answers, passes that die half-way | a live lease is not stolen, a dead one ends, a request is resolved once |
| Online payments (`lib/chargily-fulfill.ts`, `routes/payment-checkout.ts`, `routes/payment-webhook.ts`, `routes/admin.ts`, `routes/cron.ts`) | ledger rows, agency subscription, hardware orders; checkouts at the gateway | create checkout, webhook, poll, verify, sweep, settle | the gateway, which is unreliable and late | replayed, lost and racing settlements; expiry racing payment; crashes | the ledger agrees with the gateway; one grant for one payment |
| Change feed (`lib/sync-helpers.ts`, `routes/sync.ts`) and pull (`sync-service.js`) | SyncChange rows and their sequence; cursor, page ledger, deferred changes in SQLite | take a number, capture, answer a page; pull, apply, mark, advance, retry what was deferred | every writing transaction | order of numbers against order of commits; a pull cut short anywhere | no client passes over a change; nothing goes back |
| Outbox (`sync-service.js`, `index.js`) and push (`lib/idempotency-middleware.ts`, `lib/sync-helpers.ts`) | `_pending_mutations` in SQLite; SyncMutation rows at the cloud | log, replay, time out, retry; guard, lock a key, apply, store the answer | the change feed | lost and late answers, retries that overlap, crashes of either side | a mutation is applied once, in order, and reported done only then |
| Queue of the desktop (`index.js`) | the local copy of the tickets, outbox rows | call next, walk-in, action on a ticket: central first under one key, local otherwise; mirrors of answers | call next, outbox, feed | an attempt given up goes on at the cloud; mirrors, pulls and pushes overwrite each other | a click takes effect once; both sides agree in the end |
| Counter binding and occupancy (`routes/agency.ts`) | CounterService rows, the staff mirror | bind, unbind | call next, counter control | bindings that change under a call, two bindings at once | a service bound to a counter is bound to no other |
| Web and mobile clients, shell, messaging, authentication, analytics, backups, discovery, updates, scripts | - | user interface, input and output, row edits | - | - | not modelled, see section 8 |

`PROJECT.json` lists the components one by one with their files, and the hazards of this code at
the lines where they bite.

## 2. Modules

| Module | What it is |
|---|---|
| `Serving`, `ServingProofs`, `MCServing` | the queue being served: call next, statement by statement, and the routes beside it |
| `Ticketing`, `TicketingProofs`, `MCTicketing` | how tickets get their numbers and lose them |
| `CounterControl`, `CounterControlProofs`, `MCCounterControl` | the lease on a counter, takeover requests and the sweeper |
| `Purchase` | abstract: what an online purchase promises |
| `Settlement`, `SettlementProofs`, `MCSettlement` | the payments as coded, shown to implement `Purchase` |
| `Follower` | abstract: what a desktop that follows the cloud promises |
| `ChangeFeed`, `ChangeFeedProofs`, `MCChangeFeed` | the feed, its pages, and a desktop that follows it, shown to implement `Follower` |
| `Delivery` | abstract: what an outbox promises |
| `Outbox`, `OutboxProofs`, `MCOutbox` | the outbox and the push route, shown to implement `Delivery` |
| `UnifiedQueue`, `UnifiedQueueProofs`, `MCUnifiedQueue` | the queue as a desktop works on it, central first and local otherwise; it composes the queue, the outbox and the feed |
| `FiniteNumbers` | lemmas on least and greatest elements and on counting, for the proof modules |

`UnifiedQueue` takes from the modules beside it what they establish: which ticket a claim takes is
decided in one step (`Serving` has its statements), a row of the outbox takes effect once and is never
overtaken inside a replay (`Outbox`), and a page brings the records of its rows as they are when it is
made (`ChangeFeed`). What those modules show to go wrong it has as well: numbers that commit behind the
cursor, lookups that fail, payloads put aside, rows that are overtaken after a failure or given up.

### Serving

State: `status`, `counterOf`, `skipped` and `reclaimed` are the columns of a Reservation; `current`
is `Counter.currentReservationId`, `serving` the number shown. `call[d]` is a call-next request in
flight, `req[h]` any other request.

A call-next transaction (`claimNextTicket`) is four kinds of step: `CallScan` reads the tickets the
counter has CALLED; `CallAutoComplete` locks and completes them and reads the candidates; `CallClaim`
or `CallLose` is the conditional update (`updateMany ... status: 'WAITING'`) of one candidate, with
the link, the number shown and the commit in the step that wins; `CallNothing` answers when no
candidate is left. `CallCollide` is the unique index on `currentReservationId`; `CallRetry` is the
deadlock PostgreSQL breaks and `withTxRetry` tries again; `CallCrash` a process that dies. Writes not
committed yet are in `call[d].done`: others do not see them and cannot write those rows. Completion
of several rows is one step since the step is enabled only when all of them are free; a deadlock
needs two transactions that each complete one's rows and want the other's, which it keeps.

The other routes are a read and a write (`CancelRead`, `StatusRead`, `PatchRead`, `ReclaimRead`, ...,
then `Overwrite`, `PatchWrite`, `ReclaimWrite`), with the writes by id or conditional as in the code;
`SkipRead`/`SkipWrite` is auto-skip, ticket by ticket; `BatchComplete` is one statement. Tickets,
services and counters are given; `Booked` tickets wait for a later day and are not callable.

### Ticketing

`ticket` is the table, a row per slot: service, day, number, owner, status. A lane is a service on a
day. `issue[i]` is a join, a walk-in or a kiosk ticket in flight: `Join` and `JoinAtDesk` begin it,
with the look-up of the customer's active tickets; `Count` is the count against
`maxActiveReservations`, `ReadLast` the last number of the lane, `Insert` the row and the commit,
`Collide` the unique index. A postponement is `PostponeReads` (the ticket), `PostponeLooks` (the one it
goes behind), then `PostponeWrites`, which shifts every waiting ticket of the agency in the range by one
and sets the ticket's number, or `PostponeFails` when the index refuses a shift. `SetStatus` is any
route that changes a status, `Import` a customer who takes a walk-in's ticket into his account.

### CounterControl

`holder` and `beat` are the columns of Counter, `beat` as an age that saturates just past the time to
live; `row[r]` is a CounterControlRequest. Every statement of `counter-control.ts` is a transaction of
its own, so `proc[p]` remembers what a handler or a sweep pass has read: `ClaimRead`, `ClaimFree`,
`ClaimWrite`, `ClaimLost`; `TransferRead`, `TransferWrite`, `TransferLost`; the sweep's `SweepStale`,
`SweepFree`, `SweepRequests`, `SweepClaim`, `SweepLook`, `SweepExpire`, `SweepDone`. Clients close and
come back without a word, staff are deactivated and restored. The history variable `outdated` holds the
decisions to take a counter away (`InDoubt`) that were made before its controller claimed it, kept it
alive or came back to the agency: those whose grounds may be gone (`Observe`).

### Settlement

`status`, `linked` and `age` are a Transaction or an SmsPurchase; `order` and `orderRef` a
HardwareOrder; `agency` and `terms` the subscription, counted in paid terms; `gateway` is the checkout
at Chargily. A client creates the row, then the checkout, then the links, then marks the agency. A
settler hears of a checkout (`Webhook`, `Poll`, `Verify`, `SweepRead`), asks the gateway when it must,
reads the row, and settles it: `PaidBegin` and `PaidCommit` are the transaction of a paid settlement,
which reads the agency's expiry while it holds the ledger row only; `FailedCommit` that of a failed
one; then the hardware orders, one by one. `Decide` is the payer, whose webhook may come late, twice
or never. `Unreachable` is a gateway that does not answer.

`Purchase` says what this is for: each purchase has one outcome, decided by what the payer did, and
is granted once, when it completes.

### ChangeFeed and Follower

A record is the number of its writes, at the cloud (`cloud`) and at the desktop (`copy`). A pushed write
takes its number inside its transaction (`TakeNumber`, then `Commit` or `Abort`); any other write is
captured after its commit (`Write`, then `Capture` or `CaptureLost`), with the record as it is then. The
desktop's pull, from its cursor or from 0, reads the rows of a page, fetches the records, applies the page
in one transaction, marks it in the page ledger and moves the cursor, a step each, and `Cut` ends it
anywhere. `FetchFails` is the lookup of records that fails: `getChangesSinceCursor` only logs it and
answers with the cursor past the rows and without those records, which are then `withheld` until a page
brings them again. What the foreign keys refuse is put aside in `deferred`; `RetryDeferred` writes it from
the payload kept, `UnStrand` forgets the page and takes the cursor back (more than once: the next refusal
overwrites its marker, and refusals are not counted), `Quarantine` gives it up. A model with `updatedAt`
(`Stamped`) is overwritten only by a newer payload, one without is always overwritten.

`Follower` says what this is for: the desktop has each stamped record in a state the cloud has had, and
never in an older one than before. `ChangeFeed` maps to it by the two copies themselves. The history
variables are `seen` and `late`, the numbers that committed too late to be served, `withheld`, and `lost`, the
records whose last capture failed; only `Emit`, for a newer row, takes a record out of `lost`.

### Outbox and Delivery

`out[m]` is the status of a row of `_pending_mutations`, `batch` and `waiting` the replay in flight.
`req[q]` is a request at the cloud, which goes on when the desktop gave up on it: `GuardLookup` is
`idempotencyGuard`, which lets the request pass unguarded when its lookup fails (`GuardFails`); `FastPath`
and `Acquire` the key's row in `withIdempotency` (held until the transaction ends), `KeepCloud`,
`NoRecord` and `Apply` the outcomes of `applyMutationInTx`, `Store` the 2xx answer kept under the key
(`StoreNot` when it is not), `Answered` and `Forgotten` what becomes of the answer. `Lost`, `TimedOut`,
`Fails`, `Unauthorized`, `Crash`, `Restart`, `CloudCrash` and a write by somebody else are the faults.
`Delivery` says what this is for: a row is decided at most once and is reported done only when it is
decided.

### UnifiedQueue

`click[k]` is a request of the desktop's user: call next, a walk-in, or an action on a ticket.
Made while the cloud counts as reachable, it is sent to the central API under one
key up to `MaxAttempts` times (`callCentralQueueApi`): `HearsRefusal`, `HearsConflict`,
`HearsFailure`, `HearsSuccess`, `HearsGarbled` (a success whose body cannot be read, which is not asked
for again) and `GivesUp` are what the desktop makes of an answer or of none, and
`MirrorLook`, `MirrorWrite` write a success into SQLite. Otherwise, or when the attempts are used up,
`LocalCandidates`, `LocalClaim`, `LocalCreate` and `LocalConflict` are the local path, whose write and
outbox row commit together. `req` are the attempts at the cloud, each with the guard (`GuardLookup`, or
`GuardFails` when the lookup fails and the handler runs without it), the handler (`CentralClaim`,
`CentralCreate`, `CentralPatch`, then `CentralCommit` or `RolledBack`; `Refused`, `Conflicts`) and `Store`.

A transaction of the cloud is two steps, whoever makes it: `Opens` locks the ticket and takes its number
of the feed, `Commits` makes the change and its entry visible. What the feed does with it is kept per
ticket: `unread` has an entry past the cursor; `open[t]` is the status an open transaction will
give it; a page read in between may end beyond its number (`pull.over`), and once that page is applied
the number is `passed`, so that the commit brings nothing to the desktop (`missed`). When it commits
before that, the page is simply `behind`. `PullRead` and `PullApply` are a page and its application;
`PullWithheld` is a page without its tickets since their lookup failed; `PullDefers` puts a payload
aside, which `Retried` writes later, however old it is by then, or `Quarantined` gives up; `PullLost`
loses the page. `Push` and `PushCommit` overwrite the central row with an outbox row's state, rows in the
order they were logged (`ahead`); after `PushFails` the rows behind go on; `PushSpoiled` is a row that
leaves the outbox without effect. `WebCall`, `WebJoin`, `WebPatch`, `WebReclaim` and
`WebCommit` are the others; `Crash` is the desktop's end and restart. The history variables record only
what the properties speak of: which clicks gave up an attempt unheard, for which of them nothing was
stored then, whose stored answer could not be looked up; and which tickets were set back (`stale`),
passed over (`missed`) or had a row given up (`dropped`), until a page brings them again.

## 3. Runs

Passing runs:

| Run | Question | Bounds |
|---|---|---|
| `serving_pair` | Can two desks, and every route that writes a ticket by its id, make a counter show a ticket that was sent elsewhere (`ScreenAgrees`), win a ticket twice (`CallInv`), or move a ticket between counters while it is not waiting (`HandoverFromQueue`)? | 2 desks, 2 counters, 2 tickets of one service, 1 other request in flight; 3 calls and 2 other requests in a behaviour |
| `serving_answers` | Is a ticket ever won over one that should come first and never stopped waiting (`NoOvertaking`)? Do calls ever all wait for each other with no cycle the database would break (`SomeoneMoves`)? Is every call answered (`CallTerminates`)? | 2 desks, 3 tickets, 2 services with priorities, bound counters, a booking, 2 reclaims in flight; 2 calls |
| `tickets` | Are numbers unique in a lane (`TypeOK`)? By how much can requests at once overrun the capacity (`OverrunBounded`) and the check for a second ticket (`DuplicatesBounded`)? Does a newcomer come last, though the last number was read before others were issued and moved (`NewcomerLast`)? Does a postponement change anybody else's order (`OrderKept`)? | 3 rows, 1 service on 2 days, 1 customer and walk-ins, 2 requests at once, 2 postponements at once, 2 in all, reaching 2; capacity 2; 1 change by another route |
| `control_takeover` | Does a controller with a fresh heartbeat lose its counter to anything but an entitled order, its own word, or a decision older than its last sign of life (`LiveHolderKeeps`)? Do overlapping sweeps resolve a request twice (`SweptOnce`)? Does APPROVED mean that the counter was handed over (`ApprovedMeansGranted`)? | owner, manager, staff member that may leave; 1 counter, 1 request; 2 handlers, 2 sweep passes; 3 requests, 1 crash |
| `control_liveness` | Is the counter of a dead client freed (`OrphanFreed`) and a forgotten request resolved (`RequestResolved`)? | owner and 1 client that closes; 2 sweep passes, 1 handler, 1 crash |
| `settle_once` | Without overlapping settlements, do replays, retries, sweeps and crashes keep the promise (`KeepsPromise`, the refinement of `Purchase`), stack the terms (`TermStacked`) and settle every linked payment (`PaymentResolved`)? | a renewal with a device, an SMS pack; 1 settler, 3 attempts, 2 crashes; sweep batch of 1 |
| `settle_race` | With overlapping ones, does the ledger ever contradict the gateway (`LedgerInv`), or a settled payment change its outcome (`OutcomeKept`)? How often can one checkout be granted (`GrantsBounded`)? Is the order of a paid checkout approved or about to be (`PaidOrderApproved`)? What can take the subscription of an agency that has paid (`PaidIsActive`)? | two subscriptions that ask for the same device, 2 clients, 2 settlers; 2 attempts, 1 crash |
| `outbox` | Over lost requests, late answers, failures and crashes of either side: does a row take effect once and is it reported done only then (`KeepsPromise`, the refinement of `Delivery`)? Is a row ever overtaken by a later one inside a replay, before the cloud has decided it (`NoneOvertakenInReplay`)? Are all decided in the end (`Delivered`)? | a record made and edited, 2 rows; 2 requests at once at the cloud; 1 fault or foreign write and 1 lost or late request |
| `feed` | Which changes can the cursor pass over (`MissedOnlyIfLateOrWithheld`)? Does a record ever go back, or ahead of the cloud (`MirrorFollows`, the refinement of `Follower`)? With every row received in time, is the record as the cloud has it (`CaughtUp`)? Does the desktop catch up (`Converges`)? | a branch and its counter, which refers to it; pages of 2, 3 numbers; 1 full pull, 1 fault |
| `unified` | Is a click executed once, wherever it is (`OncePerClick`)? When do the two copies of a ticket differ with nothing under way (`DriftOnlyIfLossy`)? Does every click end, and do both sides agree in the end (`Converges`)? | 1 click while online and 1 while not, 1 ticket, not issued at first; 2 attempts; 1 event (another's write, a crash, a failure, a loss); the actions `complete` and `recall` |

They explore 211,012 (`outbox`), 287,288 (`feed`) and 280,940 (`unified`) distinct states. Each checks a
type invariant or leaves that to the run beside it. Every property of a passing run has a mutant in
`PROJECT.json`: a plausible bug of the code, defined beside the operator it changes, under which TLC finds
the property violated. Violation runs, each about a statement of the repository that the code does not
keep:

| Run | Statement | What happens |
|---|---|---|
| `settle_twice` | "replayed webhooks and racing polls converge to the same result" (chargily-fulfill.ts:21) | both read the row PENDING before either writes it by id: credits are granted twice |
| `outbox_dropped` | "so the cloud applies each logical operation exactly once" (index.js:1730) | the first of two offline edits stamps the record with the time of its arrival (sync-helpers.ts:1189); the second was made before that, is dropped as older, and is reported completed |

### Other disagreements

Met while modelling, visible in the modules, and not run on their own:

Serving and ticket routes
- "Only WAITING reservations can be cancelled" (reservations.ts:1153) is checked on a read before the
  transaction: a ticket called in between is cancelled at the desk. The status route likewise
  (reservations.ts:1257), so two staff members can both call one ticket.
- A conflict "resolves itself instead of surfacing a 500 to reception" (tx-retry.ts:10): a reclaimed
  ticket its old counter still shows makes another desk's call break the unique index, which is not
  retried.
- Two bindings of a service to two counters each strip what they can see (agency.ts:1244), and both
  stay, although "a service assigned to a counter cannot be served by other counters".

Numbers
- Joins that collide on the unique index get a 500 and are not retried. A postponement fails the same way
  when a ticket that is not waiting, or one of another lane, has the number to be shifted onto, or when
  the raw UPDATE happens to visit rows in the wrong order.
- Two overlapping postponements of one ticket can move it forward past another one when its lane has a
  gap; `OrderKept` leaves out the postponed ticket itself.
- The range of a postponement is over all services and days of the agency (reservations.ts:895). When it
  lowers another lane's highest number, the displayed number, which follows it, can be given twice
  (src/packages/db/prisma/schema.prisma:652).
- The import of a walk-in and the return of a skipped ticket check neither duplicates nor the capacity,
  hence the terms `returned` and `imported` of the two bounds.

Counter control
- "A live holder (fresh heartbeat) keeps control" (counter-control.ts:512) holds but for decisions made
  before it was renewed, which is what `LiveHolderKeeps` says and its set `outdated` is for: the sweeper
  looks at the holder, and the transfer reads it again (counter-control.ts:572) and takes whoever it is
  by then; the sweeper frees a counter by id (counter-control.ts:482) although its list said stale some
  statements ago; release (counter-control.ts:239) and the claim from a controller who left
  (counter-control.ts:185) free by id after their check of the holder.
- An approval marks its request by id (agency.ts:1751), so one rejected or expired in between ends
  APPROVED and the counter is handed over. Two clicks can file two requests (agency.ts:1659).
- The sweeper resolves a request of a fresh holder as expired (counter-control.ts:547), where the
  schema (src/packages/db/prisma/schema.prisma:1156) speaks of a transfer after the window.
- A pass that dies after it marked a request APPROVED (counter-control.ts:530) leaves it approved with
  no hand-over, which is why `ApprovedMeansGranted` speaks of behaviours without a crash.

Payments
- "an agency that was ACTIVE before attempting a renewal stays ACTIVE" (chargily-fulfill.ts:471):
  creating the checkout has already marked it PENDING, so the failure demotes it. The status is read
  before the failure is written (chargily-fulfill.ts:476), so a failure can also demote an agency that
  another payment has activated in between. `PaidIsActive` says that nothing else does.
- "the linked order is approved below" (chargily-fulfill.ts:238): a second checkout takes the order's
  link, and paying the first one approves nothing. `PaidOrderApproved` is about the link as it is.
- A process that dies between the commit of a payment and the approval of its orders
  (chargily-fulfill.ts:416) leaves the orders PENDING: poll and sweep look for PENDING payments alone
  (cron.ts:513). A crash between the creation of a checkout and its link (payment-checkout.ts:326)
  leaves a row no sweep finds.
- Two settlements of different renewals that overlap read the same expiry (chargily-fulfill.ts:254)
  and one term is lost: `TermStacked` is checked and proved for one settlement at a time.

Feed
- "every change up to the cursor must be APPLIED, durably DEFERRED, or QUARANTINED"
  (sync-service.js:2729): the number of a push is taken inside its transaction (sync-helpers.ts:118),
  so a lower number can commit behind a cursor that has passed it.
- The same statement fails when the lookup of a page's records fails (sync-helpers.ts:738): the error is
  only logged, the page goes out with the cursor past the rows and without their records, and the desktop
  marks it applied. `MissedOnlyIfLateOrWithheld` says that these two are the only ways.
- A capture that fails after its write was committed is not healed by a later full pull, though a
  comment says so (sync-helpers.ts:407): a full pull reads the feed from 0, and the feed has no row.
  `CaughtUp` says that such a record, until it is written again, and a late or withheld one are all that
  can stay behind unseen.
- A change put aside is written later from the payload it was put aside with; a model without
  `updatedAt`, as Reservation is, is taken back by that. A later change of the same record overwrites
  the marker of the page it came on.
- Un-stranding goes back to the last number of a page alone. The page ledger lets a later full pull skip
  pages that happen to have the same key. Deferred deletions are quarantined as malformed.

Outbox and idempotency
- A push that fails inside is answered 200 with an error, which is stored under its key and replayed to
  every retry: the row is never applied (`spoiled`, `LeftBehind`).
- "prevent the same operation executing twice due to request retransmission" (index.js:859): the guard
  looks for a stored answer, so a route behind it runs twice when an attempt overlaps the one before,
  its answer was not stored, or the guard's own lookup fails (idempotency-middleware.ts:70), which lets
  the request pass. The push route has its own key inside the transaction and does not.
- A request that timed out goes on at the cloud, and its row waits for its backoff, while the next replay
  sends later rows: two rows of a record can take effect in the other order. `NoneOvertakenInReplay` says
  that this takes a new replay, which begins in the row's backoff.
- A row that was `sending` when a replay was ended by a crash or a refused session waits for the next
  start of the application.

Queue of the desktop
- A click whose answers are all lost falls back to the local path and is logged in the outbox
  (index.js:831), although the central API may have executed it: two tickets are called, or made, for
  one click. So does a success whose body cannot be read (index.js:893). `OncePerClick` says that
  these and the repetitions above are the only ways.
- The mirrors of a claim and of a status write by id (index.js:949, 1011) over what a pull has brought
  meanwhile, and no later pull brings that state again until the ticket changes once more
  (`stale`).
- A pull overwrites tickets the desktop has changed and not pushed yet, and a push overwrites newer
  central states, since a Reservation has no `updatedAt` (sync-service.js:1808).
- "The mirror is best-effort — the pull brings the authoritative row" (index.js:963): not when its number
  committed behind the cursor, its lookup failed, or a payload put aside is written over it.
  `DriftOnlyIfLossy` names these as `missed` and `stale`, with the rows given up as `dropped`, and
  says that two copies of a ticket differ for no other reason once nothing of it is on its way.
- Tickets issued offline (index.js:6690, 8414, 11491) take the agency's last number plus one and have no
  `reservedDate`, so that the unique index (src/packages/db/prisma/schema.prisma:652) does not cover
  them. The offline capacity check counts per service.

### Bounds and why they are enough

Each hazard is a race of two actors, or of one actor with its own earlier read, over one row or two; the
instances have two of each actor and one or two rows, so every such race happens, and a third request or a
crash on top. In `serving_pair` three calls are the least in which a ticket is called, given back, and
called by the other desk while the first goes on calling. `MaxTxRetries` is 2 (3 in the code); one retry
already shows the lock cycle and its end. Ages saturate one tick past the limit they are compared with,
which is all the code can tell. In `control_takeover` both limits are 0, so that a heartbeat, or a
request, is either fresh or past its limit; in `control_liveness` `TTL` is 1 and a heartbeat also ages
while it is fresh. `Batch` is 1 in the settlement runs, so that older payments do fill the sweep's batch;
25 as in the code where it cannot matter. `MaxCalls`, `MaxRequests`, `MaxAttempts` of `Settlement` and
`MaxCrashes` bound behaviours only.

`tickets` has a third row for two issued at once behind one that waits or is moved; capacity 2 is overrun
by two at once. The second day is what a postponement reaches into. In `outbox` two requests at once are a
timed-out one and its retry, or the next row; a record made and edited is the least with an order and a
conflict of time stamps. In `feed` three numbers are a change, the one behind it that commits late, and
one more to move the cursor over both. In `unified` two attempts overlap or repeat, and one event is the
fault or the foreign write that each exception to a property needs. One ticket is enough, since nothing in
the feed, the outbox or a mirror relates two tickets: what two clicks do to one ticket is what can go
wrong; it is not issued at first, so that walk-ins of both sides meet. Two tickets matter to which one a
claim takes. With two, one of them issued, and the same clicks (1,992,871 states) the invariants hold, and
with one click, two tickets and two events (770,514 states) all properties do; these instances take too
long to be checked each time. `executed` is not bounded by itself: it cannot exceed the attempts.

`serving_answers` starts from `NobodyCame`: both desks have called a ticket, neither customer came and
auto-skip marked both. It is a state the first actions reach (three joins, two calls, one skip), and the
one from which the deadlock is a few steps away; from the empty state the same run would spend its
bounds on the way. Its counters are both bound to all services, which two bindings at once bring about.

Deadlock is checked in the runs of `CounterControl`. The others switch it off: their requests,
attempts, numbers or clicks are bounded, and a day without customers, a ledger without open payments
or two databases that agree are systems at rest.

Symmetry is declared in runs of invariants and action properties only, over desks, clients, settlers,
sweep passes, counters, rows and requests, which the code does not tell apart; never where a run checks
liveness.

### Fairness

- `Serving`: a call-next request goes on by itself. The claim and auto-complete steps are strongly
  fair, since PostgreSQL grants a row to its waiters in turn; `CallRetry` is weakly fair, since it
  breaks a cycle of waiters after `deadlock_timeout`. Customers, staff and cron owe nothing.
- `CounterControl`: time passes (`Tick`), and the sweeper's interval timer
  (counter-control-sweeper.ts:113) keeps each pass going. Clients owe nothing.
- `Settlement`: time passes, the cron job runs, a settlement under way goes on, and a request to the
  gateway ends, if only by its timeout (`Unreachable`). A gateway that is asked again and again
  answers some time (strong fairness of `Ask`, `SweepAsk` and `SweepExpire`): without it nothing
  could be promised. Payers, webhooks and clients owe nothing; that a PENDING payment is settled
  rests on the sweep alone.
- `Outbox`: the synchronisation cycle replays, a backoff ends, a request ends at least by its timeout,
  the desktop is started again, and what has arrived at the cloud is seen through: all weakly fair. The
  bounds stand for a network that is in time from some moment on.
- `ChangeFeed`: a transaction ends and a capture runs; a pull under way goes on (weak). The cycle starts
  a pull and retries what was put aside again and again, though either may be disabled while the other
  is under way (strong). Pulls from 0 and faults owe nothing.
- `UnifiedQueue`: one weakly fair action, `Progress`: a click goes on or times out, handlers run,
  transactions end, the outbox is replayed, and the feed pulled and what was put aside tried again on the
  cycle's timer (sync-service.js:2853). One condition for all is enough, since in a behaviour only
  finitely many such steps can be taken: attempts, rows and events are bounded, each row is sent until it
  commits, each page moves the cursor. So none of them waits for ever while others go on, and the code
  has no more to give than that each goes on some time. Users, other clients and faults owe
  nothing; neither does `HearsGarbled`.

## 4. What is proved

For every number of tickets, counters, desks, payments, records, rows, clicks and requests, and for
every bound, from the named assumption on the constants in each module alone:

| Theorem | Says |
|---|---|
| `ServingProofs!TypeCorrect`, `Screen`, `Handover`, `WonOnce` | `TypeOK`, `ScreenAgrees`, `HandoverFromQueue`, `CallInv` and with it `CalledOnce` |
| `ServingProofs!InOrder`, `NeverAllStuck` | `NoOvertaking`, `SomeoneMoves` |
| `TicketingProofs!TypeCorrect`, `Overrun`, `Duplicates`, `Newcomers`, `Order` | `TypeOK` with the unique numbers, `OverrunBounded`, `DuplicatesBounded`, `NewcomerLast`, `OrderKept` |
| `CounterControlProofs!TypeCorrect`, `ResolvedOnce`, `Granted`, `LiveHolder` | `TypeOK`, `SweptOnce`, `ApprovedMeansGranted`, `LiveHolderKeeps` |
| `SettlementProofs!TypeCorrect`, `Ledger`, `LedgerInvariant` | `TypeOK`, `LedgerAgrees`, `LedgerInv` |
| `SettlementProofs!Outcomes`, `RaceBounded` | `OutcomeKept`, `GrantsBounded` |
| `SettlementProofs!PaidOrders`, `PaidAgencyActive` | `PaidOrderApproved`, `PaidIsActive` |
| `SettlementProofs!SoleSettlerKeepsPromise`, `SoleSettlerStacks` | with one settler, `Settlement` implements `Purchase`, and `TermStacked` |
| `OutboxProofs!TypeCorrect`, `DeliveryKept`, `Order` | `TypeOK`; `Outbox` implements `Delivery`; `NoneOvertakenInReplay` |
| `ChangeFeedProofs!TypeCorrect`, `MissesExplained`, `Receives` | `TypeOK`, `MissedOnlyIfLateOrWithheld`, `CaughtUp` |
| `ChangeFeedProofs!NeverBackNorAhead` | `ChangeFeed` implements `Follower` |
| `UnifiedQueueProofs!TypeCorrect`, `ExecutedOnce`, `NoSilentDrift` | `TypeOK`, `OncePerClick`, `DriftOnlyIfLossy` |

Arguments:

- `Serving`. `ScreenAgrees` is inductive with `TypeOK`: only a claim changes `counterOf`, and the unique
  index refuses it (`CallCollide`) while another counter shows the ticket. `CalledOnce` is not
  inductive. A win needs the ticket WAITING; `WaitingIsUncalled` says that nobody has called such a
  ticket since; and for that no route that writes by a stale read may put a called ticket back to
  WAITING without being a reclaim, whatever it has read: `WritersKeepIssued`. `CallInv` is the
  conjunction of the three. `NoOvertaking` needs no invariant beyond `TypeOK`, but that every step observes
  (`EveryStepObserves`): what has waited since the desk read the queue is still among its candidates
  (`CandidatesKept`), and the claim takes the first of these (`FirstIsFirst`). For `SomeoneMoves`
  no call waits for a row of its own (`OwnRowsApart`); a call that cannot go on waits for a row of
  another call that is open (`StuckWaits`), so if none could go on, the open ones would be a cycle, which
  is what the database detects and `CallRetry` answers.
- `Ticketing`. Unique numbers are inductive with the types. The bounds count what a step can add:
  active tickets and the requests past their count grow by one only where the count was below the
  capacity, and the requests that were past it then are fewer than `Issues`. For `NewcomerLast`,
  `AheadOK` relates the last number read to those who waited before; `OrderKept` is arithmetic on the
  ranges of a shift.
- `CounterControl`. `Knows` says what a process has read at each place; `ReqsOK` that a row is taken by
  one pass at a time and not granted while it is open; `GrantOK` that an approval is backed by a
  hand-over or by a pass about to make it. For `LiveHolderKeeps`, `Decided` says that a decision to take
  a counter away still has its grounds (`Justified`) unless it is outdated, and that a transfer is made
  for somebody with a `Role`. A step carries a decision on or makes a new one on what is true
  then (`Proceeds`, one lemma per group of actions), and what is not renewed keeps its grounds
  (`GroundsLast`); then whoever changes the controller is entitled to (`EntitledTo`).
- `Settlement`. Settlers write what they heard some steps ago, so `OutcomeIsFinal` says that an outcome
  about to be written is the gateway's last word; a checkout must not come into being for a row that has
  failed (`RowBeforeCheckout`); and nobody asks about a checkout that does not exist, which would be read
  as failed (`LinkedIsCreated`). Orders and subscription need `ClientsApart`: a client that still links
  orders or marks the agency works on a payment of its own, which cannot have been paid yet, so that
  nothing it writes comes after the settlement. The refinement needs `StillPending`, which holds for one
  settler and is what two break (`settle_twice`). With any number of settlers `SettlingFrom` lists the
  steps that settle a row: each writes the outcome its process was about to write, which `OutcomeIsFinal`
  ties to the gateway, so no second one differs (`Outcomes`). A grant is made by a process that read the
  row PENDING, and leaves it settled: the invariant counts the grants made together with the settlers that
  may still make one, and nobody joins these once the row is settled (`RaceBounded`; this is why the
  settlers are assumed to be finitely many). `SoleSettlerStacks` rests on `BaseIsCurrent`: between its
  read and its commit nobody else has changed the terms.
- `Outbox`. `Promised` has four parts: the desktop listens to the request of the row it waits for
  (`Listening`), rows travel once logged (`InOrder`), a key is held by one transaction, whose row is
  undecided (`OneHolder`), and good news is true but for spoiled rows (`TrueNews`). Under it every step is
  one of `Delivery`'s or a stutter. For the order, `Queued` says of every row that is out or still in the
  batch that each older one is in the batch too, or out, or left out, or decided: a replay reads all that
  is due, sends the least first (`SendQueued`), and goes on only when it has heard (`AnsweredQueued`).
- `ChangeFeed`. `FeedInv`: nothing that travels is ahead of the cloud (`Current`), the desktop is not
  beyond what it was served (`Served`), the page in flight is about every row of its range and as new as
  any of them for the records that come with it (`Brought`), and every range that was marked or passed is
  dealt with but for late rows and records withheld (`Dealt`). When a page brings a record that had been
  withheld, its older rows are dealt with by that (`ArrivalsDealt`). A number that joins the feed below
  `seen` is late by definition, so ranges stay dealt with. The refinement of `Follower` adds that no copy
  is ahead of the cloud (`NotAhead`), which follows from `Current` since a copy is what it was, what the
  page brought, or what had been put aside (`CopiesTaken`). `Receives` adds that the last write of a
  record has a row unless its capture is to come or was lost (`Covered`).
- `UnifiedQueue`. Every action is first shown to be one of a few kinds of step by its effect
  (`StepEffect`). `Accounted` then says, for each click and each attempt: later attempts have not begun; while
  the desktop has heard everything, earlier attempts are dead and the last one is the one that has
  executed; the same holds of a click that is not `Exposed` (sent again with nothing stored, or
  its stored answer not looked up) while no answer is stored, and once one is stored no attempt of it runs;
  and a click on the local path whose failures were all heard has no attempt alive and nothing executed.
  `Synced` has three parts. `CopyOf`: the copies of a ticket agree, or a row or the feed has something of
  it under way, or it is `Lossy`. `PageOf`: a page shows a ticket as it is unless it has changed since,
  which leaves it unread or the page behind. `Apart`: a number that the cursor or the page in flight is
  past belongs to an open transaction, and no entry or page announces its ticket, so that its commit is
  the only thing that can turn it into a change that is `missed` or `behind`.

Only model-checked: the liveness properties (`CallTerminates`, `OrphanFreed`,
`RequestResolved`, `PaymentResolved`, `Delivered`, `Converges` of the feed and of the unified queue),
since the prover has neither fairness nor ENABLED.

## 5. How to run

In this directory: `tlc -workers 2 -config MCServingPair.cfg MCServing`, and likewise each run of
`PROJECT.json` with its module and configuration; `tlapm ServingProofs.tla`, and likewise
`TicketingProofs`, `CounterControlProofs`, `SettlementProofs`, `OutboxProofs`, `ChangeFeedProofs`,
`UnifiedQueueProofs` and `FiniteNumbers`.

## 6. Abstractions

Read with the header of each module. Data that no property tells apart is left out: names, prices,
notifications, audit rows, realtime events, and the columns nothing decides on. One agency and, but for
`Ticketing`, one day; in `Settlement`, one customer; one desktop. Times are ages, or the order of two
stamps. Statements that follow each other and can only be told apart by a crash that rolls them all back
are one step. Where PostgreSQL may return rows in any order, `Serving` takes the order of issue.

`Serving` takes ticket numbers as given; `Ticketing` has the statuses waiting, called and done;
`CounterControl` has no binding of counters and no staff mirror; `Settlement` has no receipts paid by
hand, no administrator's override, and no end of a term within the days a payment takes; `Outbox` and
`ChangeFeed` have no deletions, tombstones or versions; `UnifiedQueue` has no counters and no numbers,
and a click that the local path cannot serve ends there.

## 7. Plan

Done so far, in the order planned: call next, counter control, payments, ticket issue, the change feed, the
outbox with the push route, and the desktop's queue, which composes the last three with the first.
What is left, the most important first:

1. Deletions: tombstones in the push (sync-helpers.ts) and in `_applyPullChanges`, added to
   `ChangeFeed` and `Outbox`, with the quarantine of deferred deletions.
2. Counter binding (agency.ts:1150-1275), added to `Serving` as actions that change `Bound`.
3. The administrator's override (admin.ts:3804-3890) and receipts paid by hand (agency.ts:6100-6210,
   transactions.ts:205-290), added to `Settlement`.
4. Numbers of tickets issued offline, with two desktops, added to `Ticketing`.
5. The refinement of `Outbox` restricted to one fault-free cycle by the `Push` of `UnifiedQueue`.

## 8. Not modelled

User interfaces, rendering, translation and printing, which are most of the repository's lines;
authentication and verification codes; messaging providers; analytics; backups; discovery and casting;
binary delta updates (a byte algorithm over files); initial synchronisation and file transfer, which
are bulk copies; rate limits and caches, which decide no state of the queue; routes that edit one row
of settings; deployment scripts; the first generation of queue routes, which share `claimNextTicket`
with the routes modelled.

Hazards of this code that no property covers, beside those listed without one in `PROJECT.json`: approvals
and filings (agency.ts:1659, 1751), the unlinked checkout (payment-checkout.ts:326), the failed store of
an answer (idempotency-middleware.ts:93, which `UnifiedQueue` has as an event), and two bindings of one
service (agency.ts:1244). Each is described above.
