----------------------------- MODULE UnifiedQueue -----------------------------
(***************************************************************************)
(* The queue as a desktop works on it: "central first, local otherwise".   *)
(* A click (call next, a walk-in, an action on a ticket) is sent to the    *)
(* central API under one idempotency key, up to MaxAttempts times          *)
(* (callCentralQueueApi); an answer is mirrored into the local database,   *)
(* and only when the central API cannot be reached is the click executed   *)
(* locally and logged in the outbox.  Meanwhile the outbox is pushed, the  *)
(* change feed is pulled, and others work at the central queue.            *)
(*                                                                         *)
(* An attempt the desktop gave up on goes on at the cloud.  A change of a  *)
(* ticket there is a transaction in two steps: it locks the row and takes  *)
(* its number of the feed, then commits; a page read in between may end    *)
(* beyond that number.  A page brings the tickets as they are when it is   *)
(* read, but for those whose lookup failed.  The claim of the central      *)
(* queue, statement by statement, is in Serving; the repeated delivery of  *)
(* an outbox row in Outbox; the rows and pages of the feed in ChangeFeed.  *)
(* A reservation has no updatedAt: a push and a pull always overwrite it.  *)
(* Not modelled: counters, numbers, services and dates, how the cloud is   *)
(* found reachable, the full reconciliation, and that a change put aside   *)
(* is pulled again from its fifth refusal on, which could only bring more. *)
(***************************************************************************)
EXTENDS Naturals, FiniteSets, FiniteSetsExt

CONSTANTS
  Tickets,      \* tickets in the order they are called
  Issued,       \* those that exist at the start
  Clicks,       \* requests of the desktop's user, each made once
  Online,       \* those made while the cloud counts as reachable (cloudReachableFast)
  Actions,      \* actions the user takes on a ticket
  MaxAttempts,  \* requests to the central API for one click; 3 in the code
  MaxEvents,    \* bound: what others do at the central queue; crashes, failures, losses
  None

Statuses == {"none", "WAITING", "CALLED", "SERVING", "COMPLETED", "NO_SHOW", "CANCELLED"}

\* What PATCH /api/agency/queue/:id accepts.
PatchActions == {"complete", "no_show", "cancel", "serve", "recall"}

ASSUME QueueAssumption ==
  /\ Tickets \subseteq Nat /\ IsFiniteSet(Tickets) /\ Issued \subseteq Tickets
  /\ Actions \subseteq PatchActions /\ Online \subseteq Clicks
  /\ MaxAttempts \in Nat \ {0} /\ MaxEvents \in Nat
  /\ None \notin Tickets /\ None \notin Statuses

VARIABLES
  cloud, local,  \* Reservation.status in PostgreSQL and in SQLite; "none": no such row
  open,          \* the status an open transaction of the cloud gives a ticket; "none": no such one
  passed,        \* tickets whose open transaction has a number the desktop's cursor is past
  unread,        \* tickets with an entry in the feed past the desktop's cursor
  pull,          \* the page read and not applied yet
  deferred,      \* _deferred_changes: the status put aside for a ticket
  click,         \* what the desktop does about a click
  req,           \* its attempts at the cloud
  ledger,        \* SyncMutation: the answer stored under the click's key, by its ticket
  row,           \* the row in the outbox of a click, NoRow for none
  pushing,       \* those whose row the cloud is executing
  ahead,         \* the rows that were in the outbox when the click's row was logged
  events,
  executed,      \* history: how often the cloud has executed a click
  logged,        \* history: clicks executed locally
  unheard,       \* history: clicks that gave up an attempt without an answer
  unstored,      \* history: of those, the ones with no answer stored at that moment
  unchecked,     \* history: clicks whose stored answer could not be looked up
\* histories of tickets, each until a page brings the ticket again:
  stale,         \* those that an older answer or an older payload has set back
  missed,        \* those with a change the cursor has passed without bringing it
  dropped        \* those with a row of the outbox that was given up

changes == <<open, passed, unread, pull>>
outbox == <<row, pushing, ahead>>
sync == <<changes, deferred, outbox>>
done == <<executed, logged, unheard, unstored, unchecked>>
apart == <<stale, missed, dropped>>
history == <<done, apart>>
vars == <<cloud, local, sync, click, req, ledger, events, history>>

Requests == Online \X (1 .. MaxAttempts)

\* Mutant of Outcome: an action that is not spelled out becomes the status.
OutcomeRaw(act) == IF act = "walk-in" THEN "WAITING" ELSE IF act = "call" THEN "CALLED" ELSE act

\* queueActionUpdateData, with the two outcomes of the other routes.
Outcome(act) ==
  CASE act = "complete" -> "COMPLETED"
    [] act = "no_show" -> "NO_SHOW"
    [] act = "cancel" -> "CANCELLED"
    [] act = "serve" -> "SERVING"
    [] act = "walk-in" -> "WAITING"
    [] OTHER -> "CALLED"

Waiting(status) == {t \in Tickets : status[t] = "WAITING"}

Answers == {"ok", "refused", "conflict", "failed"}

\* Tickets not issued yet; each side makes its own ids.
Fresh == {t \in Tickets : cloud[t] = "none" /\ local[t] = "none" /\ open[t] = "none"}

\* The tickets a page brings and their values; those with an entry in its range that it does
\* not bring; those whose open transaction has a number in its range.
NoPage == [tickets |-> {}, value |-> [t \in Tickets |-> "none"], behind |-> {}, over |-> {}]
NotMade == [pc |-> "idle", act |-> "call", ticket |-> None, seen |-> "WAITING",
            cands |-> {}, attempt |-> 0]
NoAttempt == [pc |-> "none", act |-> "call", ticket |-> None, guarded |-> TRUE]
NoRow == [ticket |-> None, status |-> "none"]

Init ==
  /\ cloud = [t \in Tickets |-> IF t \in Issued THEN "WAITING" ELSE "none"]
  /\ local = cloud
  /\ open = [t \in Tickets |-> "none"] /\ passed = {}
  /\ unread = {} /\ pull = NoPage
  /\ deferred = [t \in Tickets |-> None]
  /\ row = [k \in Clicks |-> NoRow] /\ pushing = {}
  /\ ahead = [k \in Clicks |-> {}]
  /\ click = [k \in Clicks |-> NotMade]
  /\ req = [a \in Requests |-> NoAttempt]
  /\ ledger = [k \in Clicks |-> None]
  /\ events = 0
  /\ executed = [k \in Clicks |-> 0]
  /\ logged = {} /\ unheard = {} /\ unstored = {} /\ unchecked = {}
  /\ stale = {} /\ missed = {} /\ dropped = {}

-----------------------------------------------------------------------------
(* A click, and the local path. *)

\* The request carries what the click is about.
Sent(c) == [NoAttempt EXCEPT !.pc = "sent", !.act = c.act, !.ticket = c.ticket]

\* The verdict may be some seconds old; the click goes to the cloud, or straight to the local path.
Begin(k, c, localPc) ==
  IF k \in Online
  THEN /\ click' = [click EXCEPT ![k] = [c EXCEPT !.pc = "central", !.attempt = 1]]
       /\ req' = [req EXCEPT ![<<k, 1>>] = Sent(c)]
  ELSE click' = [click EXCEPT ![k] = [c EXCEPT !.pc = localPc]] /\ UNCHANGED req

CallNext(k) ==
  /\ click[k].pc = "idle"
  /\ Begin(k, NotMade, "local")
  /\ UNCHANGED <<cloud, local, sync, ledger, events, history>>

WalkIn(k) ==
  /\ click[k].pc = "idle"
  /\ Begin(k, [NotMade EXCEPT !.act = "walk-in"], "local")
  /\ UNCHANGED <<cloud, local, sync, ledger, events, history>>

\* The route reads the ticket first: that copy is what the local path goes by later.
Patch(k, act, t) ==
  /\ click[k].pc = "idle" /\ local[t] # "none"
  /\ Begin(k, [NotMade EXCEPT !.act = act, !.ticket = t, !.seen = local[t], !.cands = {t}],
           "chosen")
  /\ UNCHANGED <<cloud, local, sync, ledger, events, history>>

\* The answer goes out, and what the route has read is forgotten.
Ended(c) == [NotMade EXCEPT !.pc = "over", !.attempt = c.attempt]
Over(k) == click' = [click EXCEPT ![k] = Ended(@)]

\* loadLocalCallCandidates
LocalCandidates(k) ==
  /\ click[k].pc = "local" /\ click[k].act = "call"
  /\ IF Waiting(local) = {} THEN Over(k)
     ELSE click' = [click EXCEPT ![k].pc = "chosen", ![k].cands = Waiting(local)]
  /\ UNCHANGED <<cloud, local, sync, req, ledger, events, history>>

\* The outbox, in the order of ahead.
queued == {k \in Clicks : row[k] # NoRow}

\* withOutboxTransaction: the change of the ticket and its row commit together.
ExecuteLocally(k, t) ==
  /\ local' = [local EXCEPT ![t] = Outcome(click[k].act)]
  /\ Over(k)
  /\ row' = [row EXCEPT ![k] = [ticket |-> t, status |-> Outcome(click[k].act)]]
  /\ ahead' = [ahead EXCEPT ![k] = queued]
  /\ logged' = logged \cup {k}
  /\ UNCHANGED <<cloud, changes, deferred, pushing, req, ledger, events,
                 executed, unheard, unstored, unchecked, apart>>

\* The candidates whose status is still the one that was read.
Unchanged(k) == {t \in click[k].cands : local[t] = click[k].seen}

LocalClaim(k) ==
  /\ click[k].pc = "chosen" /\ Unchanged(k) # {}
  /\ ExecuteLocally(k, Min(Unchanged(k)))

\* 409, or no ticket of the model left to issue.
LocalConflict(k) ==
  /\ \/ click[k].pc = "chosen" /\ Unchanged(k) = {}
     \/ click[k].pc = "local" /\ click[k].act = "walk-in" /\ Fresh = {}
  /\ Over(k)
  /\ UNCHANGED <<cloud, local, sync, req, ledger, events, history>>

LocalCreate(k) ==
  /\ click[k].pc = "local" /\ click[k].act = "walk-in" /\ Fresh # {}
  /\ ExecuteLocally(k, Min(Fresh))

-----------------------------------------------------------------------------
(* The answers of the central API, as the desktop takes them. *)

Last(k) == req[<<k, click[k].attempt>>]
Hears(k, answer) == click[k].pc = "central" /\ Last(k).pc = answer

\* One more attempt under the same key, or the end of the attempts.
TryAgain(k, otherwise) ==
  IF click[k].attempt < MaxAttempts
  THEN /\ click' = [click EXCEPT ![k].attempt = @ + 1]
       /\ req' = [req EXCEPT ![<<k, click[k].attempt + 1>>] = Sent(click[k])]
  ELSE click' = [click EXCEPT ![k] = otherwise] /\ UNCHANGED req

Event == events < MaxEvents /\ events' = events + 1

\* Where the local path begins.
Fallback(k) ==
  [click[k] EXCEPT !.pc = IF click[k].act \in Actions THEN "chosen" ELSE "local"]

\* CLIENT and AUTH: definitive.
HearsRefusal(k) ==
  /\ Hears(k, "refused")
  /\ Over(k)
  /\ UNCHANGED <<cloud, local, sync, req, ledger, events, history>>

HearsConflict(k) ==
  /\ Hears(k, "conflict")
  /\ TryAgain(k, Ended(click[k]))
  /\ UNCHANGED <<cloud, local, sync, ledger, events, history>>

HearsFailure(k) ==
  /\ Hears(k, "failed")
  /\ TryAgain(k, Fallback(k))
  /\ UNCHANGED <<cloud, local, sync, ledger, events, history>>

\* The connection breaks, or 6 s pass before the answer comes.
GivesUp(k) ==
  /\ click[k].pc = "central" /\ Last(k).pc \notin Answers
  /\ TryAgain(k, Fallback(k))
  /\ unheard' = unheard \cup {k}
  /\ unstored' = IF ledger[k] = None THEN unstored \cup {k} ELSE unstored
  /\ UNCHANGED <<cloud, local, sync, ledger, events, executed, logged, unchecked, apart>>

\* A success whose body cannot be read: no further attempt, the local path begins.
HearsGarbled(k) ==
  /\ Hears(k, "ok") /\ Event
  /\ click' = [click EXCEPT ![k] = Fallback(k)]
  /\ unheard' = unheard \cup {k}
  /\ UNCHANGED <<cloud, local, sync, req, ledger, executed, logged, unstored, unchecked, apart>>

HearsSuccess(k) ==
  /\ Hears(k, "ok")
  /\ click' = [click EXCEPT ![k].pc = "mirror", ![k].ticket = Last(k).ticket]
  /\ UNCHANGED <<cloud, local, sync, req, ledger, events, history>>

\* What a mirror expects to find: a claim a waiting ticket, a walk-in no row, an action a row.
Expected(k, status) ==
  CASE click[k].act = "call" -> status = "WAITING"
    [] click[k].act = "walk-in" -> status = "none"
    [] OTHER -> status # "none"

MirrorLook(k) ==
  /\ click[k].pc = "mirror"
  /\ IF Expected(k, local[click[k].ticket])
     THEN click' = [click EXCEPT ![k].pc = "update"]
     ELSE Over(k)
  /\ UNCHANGED <<cloud, local, sync, req, ledger, events, history>>

\* The feed still has the ticket's state for the desktop.
Coming(t) == t \in unread \cup pull.tickets \cup pull.behind \/ deferred[t] # None

\* applyCentralClaimLocally, applyCentralStatusLocally: an update by id;
\* mirrorCentralReservationCreate: an insert, which fails if the row has come meanwhile.
MirrorWrite(k) ==
  LET t == click[k].ticket IN
    /\ click[k].pc = "update"
    /\ IF click[k].act = "walk-in" /\ local[t] # "none" THEN UNCHANGED <<local, stale>>
       ELSE /\ local' = [local EXCEPT ![t] = Outcome(click[k].act)]
            /\ stale' = IF Coming(t) \/ cloud[t] = Outcome(click[k].act) THEN stale
                        ELSE stale \cup {t}
    /\ Over(k)
    /\ UNCHANGED <<cloud, sync, req, ledger, events, done, missed, dropped>>

-----------------------------------------------------------------------------
(* Transactions of the cloud. *)

\* The ticket's row is locked and changed, and the number of its entry taken (recordSyncChange).
Opens(t, status) ==
  /\ open[t] = "none"
  /\ open' = [open EXCEPT ![t] = status]
  /\ UNCHANGED <<cloud, passed, unread, pull, missed>>

\* The change and its entry become visible.
Commits(t) ==
  /\ cloud' = [cloud EXCEPT ![t] = open[t]]
  /\ open' = [open EXCEPT ![t] = "none"] /\ passed' = passed \ {t}
  /\ unread' = IF t \in passed \cup pull.over THEN unread ELSE unread \cup {t}
  /\ pull' = IF t \in pull.over THEN [pull EXCEPT !.over = @ \ {t}, !.behind = @ \cup {t}]
                                ELSE pull
  /\ missed' = IF t \in passed THEN missed \cup {t} ELSE missed

\* Its number is a gap.
RollsBack(t) ==
  /\ open' = [open EXCEPT ![t] = "none"] /\ passed' = passed \ {t}
  /\ pull' = [pull EXCEPT !.over = @ \ {t}]
  /\ UNCHANGED <<cloud, unread, missed>>

-----------------------------------------------------------------------------
(* An attempt at the cloud. *)

At(a, pc) == req[a].pc = pc
Goes(a, pc) == req' = [req EXCEPT ![a].pc = pc]
Gone == [NoAttempt EXCEPT !.pc = "gone"]

\* The answer goes to the desktop, if it waits for this attempt still.
Replies(a, answer, t) ==
  LET c == click[a[1]] IN
    req' = [req EXCEPT ![a] = IF c.pc = "central" /\ c.attempt = a[2]
                              THEN [NoAttempt EXCEPT !.pc = answer, !.ticket = t] ELSE Gone]

\* Mutant of GuardLookup: a stored answer is not looked for.
GuardPasses(a) ==
  /\ At(a, "sent")
  /\ Goes(a, "run")
  /\ UNCHANGED <<cloud, local, sync, click, ledger, events, history>>

\* idempotencyGuard: a stored answer is replayed.
GuardLookup(a) ==
  /\ At(a, "sent")
  /\ IF ledger[a[1]] = None THEN Goes(a, "run")
     ELSE Replies(a, "ok", ledger[a[1]])
  /\ UNCHANGED <<cloud, local, sync, click, ledger, events, history>>

\* The lookup fails, which is only logged: the handler runs without the guard.
GuardFails(a) ==
  /\ At(a, "sent") /\ Event
  /\ req' = [req EXCEPT ![a].pc = "run", ![a].guarded = FALSE]
  /\ unchecked' = IF ledger[a[1]] = None THEN unchecked ELSE unchecked \cup {a[1]}
  /\ UNCHANGED <<cloud, local, sync, click, ledger, executed, logged, unheard, unstored, apart>>

\* The handler's transaction, up to its commit.
Writes(a, t) ==
  /\ Opens(t, Outcome(req[a].act))
  /\ req' = [req EXCEPT ![a].pc = "open", ![a].ticket = t]
  /\ UNCHANGED <<local, deferred, outbox, click, ledger, events, done, stale, dropped>>

CentralClaim(a) ==
  /\ At(a, "run") /\ req[a].act = "call" /\ Waiting(cloud) # {}
  /\ Writes(a, Min(Waiting(cloud)))

CentralCreate(a) ==
  /\ At(a, "run") /\ req[a].act = "walk-in" /\ Fresh # {}
  /\ Writes(a, Min(Fresh))

CentralPatch(a) ==
  /\ At(a, "run") /\ req[a].act \in Actions /\ cloud[req[a].ticket] # "none"
  /\ Writes(a, req[a].ticket)

CentralCommit(a) ==
  /\ At(a, "open")
  /\ Commits(req[a].ticket)
  /\ Goes(a, "applied")
  /\ executed' = [executed EXCEPT ![a[1]] = @ + 1]
  /\ UNCHANGED <<local, deferred, outbox, click, ledger, events,
                 logged, unheard, unstored, unchecked, stale, dropped>>

\* Nobody waits, the queue is paused, the ticket is unknown, the session is refused.
Refused(a) ==
  /\ At(a, "run")
  /\ Replies(a, "refused", None)
  /\ UNCHANGED <<cloud, local, sync, click, ledger, events, history>>

\* The row changed between the read and the update, or the server failed.
Conflicts(a) ==
  /\ At(a, "run")
  /\ \E answer \in {"conflict", "failed"} : Replies(a, answer, None)
  /\ Event
  /\ UNCHANGED <<cloud, local, sync, click, ledger, history>>

\* The transaction is rolled back, or the server dies with it.
RolledBack(a) ==
  /\ At(a, "open") /\ Event
  /\ RollsBack(req[a].ticket)
  /\ Replies(a, "failed", None) \/ req' = [req EXCEPT ![a] = Gone]
  /\ UNCHANGED <<local, deferred, outbox, click, ledger, done, stale, dropped>>

\* A walk-in's importToken is written after its transaction, which may fail; it has an entry
\* of its own.
Tokens(a) == IF req[a].act = "walk-in" THEN {req[a].ticket} ELSE {}

\* The 2xx answer of a guarded request is stored; a failure to store it is only logged.
Store(a) ==
  /\ At(a, "applied")
  /\ Replies(a, "ok", req[a].ticket)
  /\ \/ req[a].guarded /\ ledger' = [ledger EXCEPT ![a[1]] = req[a].ticket] /\ UNCHANGED events
     \/ req[a].guarded /\ Event /\ UNCHANGED ledger
     \/ ~req[a].guarded /\ UNCHANGED <<ledger, events>>
  /\ \A t \in Tokens(a) : open[t] = "none"
  /\ unread' \in {unread, unread \cup Tokens(a)}
  /\ UNCHANGED <<cloud, local, open, passed, pull, deferred, outbox, click, history>>

\* The request is lost, the server dies with no transaction open, or the answer is lost.
Lost(a) ==
  /\ req[a].pc \notin {"none", "gone", "open"}
  /\ req' = [req EXCEPT ![a] = Gone]
  /\ Event
  /\ UNCHANGED <<cloud, local, sync, click, ledger, history>>

\* A desk in a browser, a phone or a kiosk; what it rolls back leaves nothing.
Others(t, status) ==
  /\ Event
  /\ Opens(t, status)
  /\ UNCHANGED <<local, deferred, outbox, click, req, ledger, done, stale, dropped>>

WebCall == Waiting(cloud) # {} /\ Others(Min(Waiting(cloud)), "CALLED")
WebJoin == Fresh # {} /\ Others(Min(Fresh), "WAITING")
WebPatch(t, act) == cloud[t] # "none" /\ Others(t, Outcome(act))
WebReclaim(t) == cloud[t] = "CALLED" /\ Others(t, "WAITING")

\* The open transaction is of an attempt or of an outbox row.
Ours(t) ==
  \/ \E a \in Requests : At(a, "open") /\ req[a].ticket = t
  \/ \E k \in pushing : row[k].ticket = t

WebCommit(t) ==
  /\ open[t] # "none" /\ ~Ours(t)
  /\ Commits(t)
  /\ UNCHANGED <<local, deferred, outbox, click, req, ledger, events, done, stale, dropped>>

-----------------------------------------------------------------------------
(* Synchronisation. *)

\* A row of the outbox overwrites the reservation at the cloud; rows go out in order.
Push(k) ==
  /\ k \in queued \ pushing /\ ahead[k] \cap queued = {}
  /\ Opens(row[k].ticket, row[k].status)
  /\ pushing' = pushing \cup {k}
  /\ UNCHANGED <<local, deferred, row, ahead, click, req, ledger, events, done, stale, dropped>>

\* The row leaves the outbox.
RowGone(k) ==
  /\ row' = [row EXCEPT ![k] = NoRow]
  /\ pushing' = pushing \ {k} /\ ahead' = [ahead EXCEPT ![k] = {}]

\* Mutant of PushCommit: the cloud takes the row and leaves no entry in the feed.
PushUnfed(k) ==
  /\ k \in pushing
  /\ cloud' = [cloud EXCEPT ![row[k].ticket] = open[row[k].ticket]]
  /\ open' = [open EXCEPT ![row[k].ticket] = "none"] /\ passed' = passed \ {row[k].ticket}
  /\ pull' = [pull EXCEPT !.over = @ \ {row[k].ticket}]
  /\ RowGone(k)
  /\ UNCHANGED <<local, unread, deferred, click, req, ledger, events, history>>

PushCommit(k) ==
  /\ k \in pushing
  /\ Commits(row[k].ticket)
  /\ RowGone(k)
  /\ UNCHANGED <<local, deferred, click, req, ledger, events, done, stale, dropped>>

\* The transaction of a row ends without effect, if it has begun.
Withdrawn(k) ==
  IF k \in pushing THEN RollsBack(row[k].ticket) ELSE UNCHANGED <<cloud, changes, missed>>

\* The push fails or times out: the row is tried again later, those behind it go on.
PushFails(k) ==
  /\ k \in queued /\ ahead[k] \cap queued = {} /\ Event
  /\ Withdrawn(k)
  /\ pushing' = pushing \ {k} /\ ahead' = [j \in Clicks |-> ahead[j] \ {k}]
  /\ UNCHANGED <<local, deferred, row, click, req, ledger, done, stale, dropped>>

\* The row is given up as permanently failed, or acknowledged without having been executed.
PushSpoiled(k) ==
  /\ k \in queued /\ ahead[k] \cap queued = {} /\ Event
  /\ Withdrawn(k)
  /\ RowGone(k)
  /\ dropped' = dropped \cup {row[k].ticket}
  /\ UNCHANGED <<local, deferred, click, req, ledger, done, stale>>

\* A page with the tickets R, which ends beyond the numbers of the open transactions on B:
\* other records have entries too.
Read(R, B) ==
  /\ pull = NoPage /\ unread \cup B # {}
  /\ pull' = [tickets |-> R, value |-> [t \in Tickets |-> IF t \in R THEN cloud[t] ELSE "none"],
              behind |-> unread \ R, over |-> B]
  /\ unread' = {}
  /\ UNCHANGED <<cloud, local, open, passed, deferred, outbox, click, req, ledger, history>>

Ahead == {t \in Tickets \ passed : open[t] # "none"}
PullRead == UNCHANGED events /\ \E B \in SUBSET Ahead : Read(unread, B)

\* The lookup of the reservations fails, which is only logged: the page goes out without them.
PullWithheld == Event /\ unread # {} /\ \E B \in SUBSET Ahead : Read({}, B)

\* The page is applied but for the tickets D, whose payload is put aside.
Apply(D) ==
  LET new == pull.tickets \ D IN
    /\ pull # NoPage
    /\ local' = [t \in Tickets |-> IF t \in new THEN pull.value[t] ELSE local[t]]
    /\ deferred' = [t \in Tickets |-> IF t \in D THEN pull.value[t] ELSE deferred[t]]
    /\ passed' = passed \cup pull.over
    /\ stale' = stale \ new /\ dropped' = dropped \ new
    /\ missed' = (missed \ new) \cup pull.behind
    /\ pull' = NoPage
    /\ UNCHANGED <<cloud, open, unread, outbox, click, req, ledger, done>>

\* _applyPullChanges: one transaction, and the cursor goes on.
PullApply == Apply({}) /\ UNCHANGED events

\* A foreign key refuses some of it (_deferred_changes).
PullDefers == Event /\ \E D \in SUBSET pull.tickets \ {{}} : Apply(D)

\* Mutant of PullLost: the cursor moves when the page is read.
PullSkipped ==
  /\ pull # NoPage /\ Event
  /\ pull' = NoPage
  /\ UNCHANGED <<cloud, local, open, passed, unread, deferred, outbox, click, req, ledger, history>>

\* What a page was to bring is still to come.
Unpulled ==
  /\ unread' = unread \cup pull.tickets \cup pull.behind
  /\ pull' = NoPage

\* The page is lost: the cursor has not moved.
PullLost ==
  /\ pull # NoPage /\ Event
  /\ Unpulled
  /\ UNCHANGED <<cloud, local, open, passed, deferred, outbox, click, req, ledger, history>>

\* What was put aside is written after a pull, however old it is by then,
Retried(t) ==
  /\ pull = NoPage /\ deferred[t] # None
  /\ local' = [local EXCEPT ![t] = deferred[t]]
  /\ deferred' = [deferred EXCEPT ![t] = None]
  /\ stale' = IF t \in unread \/ cloud[t] = deferred[t] THEN stale ELSE stale \cup {t}
  /\ UNCHANGED <<cloud, changes, outbox, click, req, ledger, events, done, missed, dropped>>

\* or is refused too often and given up.
Quarantined(t) ==
  /\ pull = NoPage /\ deferred[t] # None
  /\ deferred' = [deferred EXCEPT ![t] = None]
  /\ missed' = missed \cup {t}
  /\ UNCHANGED <<cloud, local, changes, outbox, click, req, ledger, events, done, stale, dropped>>

\* The desktop dies: what it was doing is forgotten, its database is not.
Crash ==
  /\ Event
  /\ click' = [k \in Clicks |-> IF click[k].pc = "idle" THEN click[k] ELSE Ended(click[k])]
  /\ Unpulled
  /\ UNCHANGED <<cloud, local, open, passed, deferred, outbox, req, ledger, history>>

-----------------------------------------------------------------------------
Route(k) ==
  \/ LocalCandidates(k) \/ LocalClaim(k) \/ LocalConflict(k) \/ LocalCreate(k)
  \/ HearsRefusal(k) \/ HearsConflict(k) \/ HearsFailure(k) \/ HearsSuccess(k)
  \/ MirrorLook(k) \/ MirrorWrite(k) \/ GivesUp(k)

Handler(a) ==
  \/ GuardLookup(a) \/ CentralClaim(a) \/ CentralCreate(a) \/ CentralPatch(a)
  \/ CentralCommit(a) \/ Refused(a) \/ Store(a)

Replay(k) == Push(k) \/ PushCommit(k)
Pull == PullRead \/ PullApply
Retry(t) == Retried(t) \/ Quarantined(t)

Next ==
  \/ \E k \in Clicks :
       \/ CallNext(k) \/ WalkIn(k) \/ (\E t \in Tickets, act \in Actions : Patch(k, act, t))
       \/ Route(k) \/ HearsGarbled(k) \/ Replay(k) \/ PushFails(k) \/ PushSpoiled(k)
  \/ \E a \in Requests :
       Handler(a) \/ GuardFails(a) \/ Conflicts(a) \/ RolledBack(a) \/ Lost(a)
  \/ WebCall \/ WebJoin
  \/ \E t \in Tickets :
       \/ WebReclaim(t) \/ (\E act \in Actions : WebPatch(t, act)) \/ WebCommit(t)
       \/ Retry(t)
  \/ Pull \/ PullWithheld \/ PullDefers \/ PullLost \/ Crash

\* Requests go on at both ends or time out, transactions end, the outbox is replayed, the feed
\* is pulled and what was put aside is tried again.
Progress ==
  \/ \E k \in Clicks : Route(k) \/ Replay(k)
  \/ \E a \in Requests : Handler(a)
  \/ \E t \in Tickets : WebCommit(t) \/ Retry(t)
  \/ Pull

\* There are finitely many of these steps to take, so that none of them is starved.  Users, other
\* clients and faults owe nothing.
Fairness == WF_vars(Progress)

Spec == Init /\ [][Next]_vars

FairSpec == Spec /\ Fairness

-----------------------------------------------------------------------------
Page == [tickets : SUBSET Tickets, value : [Tickets -> Statuses],
         behind : SUBSET Tickets, over : SUBSET Tickets]
Click == [pc : {"idle", "central", "local", "chosen", "mirror", "update", "over"},
          act : Actions \cup {"call", "walk-in"}, ticket : Tickets \cup {None},
          seen : Statuses, cands : SUBSET Tickets, attempt : 0 .. MaxAttempts]
Attempt == [pc : Answers \cup {"none", "sent", "run", "open", "applied", "gone"},
            act : Actions \cup {"call", "walk-in"}, ticket : Tickets \cup {None},
            guarded : BOOLEAN]
Row == [ticket : Tickets, status : Statuses] \cup {NoRow}

\* Values are what they should be, and what writes a ticket has one to write.
TypeOK ==
  /\ cloud \in [Tickets -> Statuses] /\ local \in [Tickets -> Statuses]
  /\ open \in [Tickets -> Statuses] /\ passed \subseteq Tickets
  /\ unread \subseteq Tickets /\ pull \in Page
  /\ deferred \in [Tickets -> Statuses \cup {None}]
  /\ row \in [Clicks -> Row] /\ pushing \subseteq queued /\ ahead \in [Clicks -> SUBSET Clicks]
  /\ click \in [Clicks -> Click]
  /\ req \in [Requests -> Attempt]
  /\ ledger \in [Clicks -> Tickets \cup {None}]
  /\ events \in 0 .. MaxEvents
  /\ executed \in [Clicks -> Nat]
  /\ logged \subseteq Clicks /\ unheard \subseteq Clicks /\ unstored \subseteq unheard
  /\ unchecked \subseteq Clicks
  /\ stale \cup missed \cup dropped \subseteq Tickets
  /\ \A k \in Clicks :
       click[k].pc \in {"mirror", "update"} \/ click[k].act \in Actions =>
         click[k].ticket \in Tickets
  /\ \A a \in Requests :
       req[a].pc \in {"open", "applied", "ok"} \/ req[a].act \in Actions =>
         req[a].ticket \in Tickets

\* "the SAME X-Idempotency-Key is reused": a click takes effect once, wherever it does.  It is
\* executed again at the cloud only if it was sent again with no answer stored or its stored
\* answer could not be looked up, and once more at the desktop only if it heard no answer.
OncePerClick ==
  \A k \in Clicks :
    /\ executed[k] > 1 => k \in unstored \cup unchecked
    /\ executed[k] > 0 /\ k \in logged => k \in unheard

\* Nothing of a ticket is on its way, neither out nor in.
Settled(t) == ~Coming(t) /\ \A k \in queued : row[k].ticket # t

\* What the code loses for good: it set a ticket back to an older status, passed over one of its
\* changes, or gave up a row about it, and no page has brought the ticket since.
Lossy == stale \cup missed \cup dropped

\* The desktop and the cloud agree on every ticket with nothing on its way but for such ones.
DriftOnlyIfLossy ==
  \A t \in Tickets : Settled(t) /\ t \notin Lossy => local[t] = cloud[t]

\* Whatever fails, every click comes to an end and both sides to agree, but for such tickets.
Converges ==
  <>[](/\ \A k \in Clicks : click[k].pc \in {"idle", "over"}
       /\ \A t \in Tickets : local[t] = cloud[t] \/ t \in Lossy)
===============================================================================
