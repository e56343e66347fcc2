------------------------------- MODULE Serving -------------------------------
(***************************************************************************)
(* The agency queue while it is being served: the atomic "call next"       *)
(* transaction of apps/api/src/lib/queue-claim.ts, run by any number of    *)
(* staff workstations at once, beside the routes and the cron job that     *)
(* move a ticket through its statuses.                                     *)
(*                                                                         *)
(* Transactions run at PostgreSQL's READ COMMITTED level, so what the code *)
(* reads in one statement may be stale in the next one.  A call-next       *)
(* transaction is therefore several steps: scan the tickets the counter    *)
(* has CALLED; lock and auto-complete them all and read the candidates;    *)
(* one conditional update per candidate.  The update that wins is one step *)
(* with the rest of the transaction: the counter's link, the number shown  *)
(* and the commit.  Uncommitted writes are invisible: they are kept in     *)
(* call[d].done, whose rows no other transaction can write before the      *)
(* commit or the rollback.  The other routes read, decide, and write in a  *)
(* later step.                                                             *)
(*                                                                         *)
(* Not modelled here: notifications, audit rows, realtime events and       *)
(* sync-change rows, which ride along in the same transactions and guard   *)
(* nothing; who controls a counter (module CounterControl); postponement   *)
(* and the numbering of tickets, which is given; the tickets an offline    *)
(* client pushes.                                                          *)
(***************************************************************************)
EXTENDS Naturals, FiniteSets

CONSTANTS
  Tickets,       \* tickets of the day, in order of issue
  Counters,      \* active counters of the agency
  Services,
  ServiceOf,     \* [Tickets -> Services]
  Number,        \* [Tickets -> Nat \ {0}], Reservation.queueNumber, counted per service
  Priority,      \* [Services -> Nat], the larger is called first
  Bound,         \* [Counters -> SUBSET Services], CounterService rows
  Booked,        \* tickets reserved for a later day or hour: WAITING, not callable
  Callers,       \* call-next requests that can be in flight at once
  Handlers,      \* other requests that can be in flight at once
  MaxTxRetries,
  Ops,           \* bound: the other routes an instance exercises
  MaxCalls,      \* bound: call-next requests admitted in a behaviour
  MaxRequests,   \* bound: other requests begun in a behaviour
  None

ASSUME ServingAssumption ==
  /\ Tickets \subseteq Nat \ {0} /\ IsFiniteSet(Tickets)
  /\ ServiceOf \in [Tickets -> Services] /\ Number \in [Tickets -> Nat \ {0}]
  /\ Priority \in [Services -> Nat]
  /\ Bound \in [Counters -> SUBSET Services]
  /\ Booked \subseteq Tickets
  /\ Callers \cap Handlers = {}
  /\ MaxTxRetries \in Nat \ {0} /\ MaxCalls \in Nat /\ MaxRequests \in Nat
  /\ None \notin Tickets /\ None \notin Counters /\ None \notin Services

VARIABLES
  status,      \* Reservation.status, "NONE" before the ticket is issued
  counterOf,   \* Reservation.counterId
  skipped,     \* Reservation.skippedForNoShow
  reclaimed,   \* Reservation.reclaimRequestedAt is set
  current,     \* Counter.currentReservationId
  serving,     \* QueueSettings.currentServingNumber
  call,        \* the call-next request run by each caller
  req,         \* the request run by each handler
  calls,       \* call-next requests admitted so far
  requests,    \* other requests begun so far
  callers,     \* history: who has called the ticket since it last waited
  stayed       \* history: per open claim, the candidates still WAITING since its read

ticketVars == <<status, counterOf, skipped, reclaimed>>
deskVars == <<current, serving>>
counts     == <<calls, requests>>
vars == <<status, counterOf, skipped, reclaimed, current, serving,
          call, req, calls, requests, callers, stayed>>

Active == {"WAITING", "CALLED"}
Terminal == {"COMPLETED", "NO_SHOW", "CANCELLED"}
Status == Active \cup Terminal \cup {"NONE", "SERVING"}

IdleCall == [pc |-> "idle", counter |-> None, scope |-> {}, try |-> 0,
             called |-> {}, done |-> {}, cand |-> {}]
IdleReq == [op |-> "idle", todo |-> {}, seen |-> "NONE", linked |-> FALSE, next |-> "NONE"]

-----------------------------------------------------------------------------
(* Selection of the next ticket. *)

\* The ORDER BY of the candidates: service priority first, then the queue number.
Before(t, u) ==
  \/ Priority[ServiceOf[t]] > Priority[ServiceOf[u]]
  \/ Priority[ServiceOf[t]] = Priority[ServiceOf[u]] /\ Number[t] < Number[u]

\* Mutant of First: queue numbers alone, the service priority forgotten.
FirstByNumber(S) ==
  CHOOSE t \in S : \A u \in S \ {t} : Number[t] < Number[u] \/ (Number[t] = Number[u] /\ t < u)

\* Two services may use the same number; such rows come in an order of the database's own,
\* here the order of issue.
First(S) == CHOOSE t \in S : \A u \in S \ {t} : Before(t, u) \/ (~Before(u, t) /\ t < u)

BoundServices == UNION {Bound[c] : c \in Counters}

\* A counter with bound services serves those; any other serves the free pool.
Binding(c) == IF c = None THEN {} ELSE Bound[c]
ServiceScope(c) == IF Binding(c) # {} THEN Binding(c) ELSE Services \ BoundServices

\* An explicit service filter outside the scope finds nothing; inside, it narrows it.
Scope(c, s) == IF s = None THEN ServiceScope(c) ELSE ServiceScope(c) \cap {s}

\* WAITING tickets this transaction reads and may call now; `own` are the
\* tickets it has itself just completed.
Candidates(scope, own) ==
  {t \in Tickets \ (own \cup Booked) : status[t] = "WAITING" /\ ServiceOf[t] \in scope}

-----------------------------------------------------------------------------
(* Row locks. *)

\* No open transaction has an uncommitted write of ticket t.
RowFree(t) == \A d \in Callers : t \notin call[d].done

WaitsFor(d, e) ==
  \/ call[d].pc = "complete" /\ call[d].called \cap call[e].done # {}
  \/ call[d].pc = "claim" /\ call[d].cand # {} /\ First(call[d].cand) \in call[e].done

\* d is in a cycle of transactions that wait for each other's rows.
Deadlocked(d) ==
  \E S \in SUBSET Callers :
    d \in S /\ \A x \in S : \E y \in S \ {x} : WaitsFor(x, y)

-----------------------------------------------------------------------------
Init ==
  /\ status = [t \in Tickets |-> "NONE"]
  /\ counterOf = [t \in Tickets |-> None]
  /\ skipped = [t \in Tickets |-> FALSE]
  /\ reclaimed = [t \in Tickets |-> FALSE]
  /\ current = [c \in Counters |-> None]
  /\ serving = 0
  /\ call = [d \in Callers |-> IdleCall]
  /\ req = [h \in Handlers |-> IdleReq]
  /\ calls = 0 /\ requests = 0
  /\ callers = [t \in Tickets |-> {}]
  /\ stayed = [d \in Callers |-> {}]

\* History: the candidates of an open claim that have been WAITING ever since its read.
Observe ==
  stayed' = [d \in Callers |->
               IF call'[d].pc # "claim" THEN {}
               ELSE IF call[d].pc # "claim" THEN call'[d].cand
               ELSE {t \in stayed[d] : status'[t] = "WAITING"}]

\* A reservation or a walk-in is issued: the next number, WAITING.
Join(t) ==
  /\ status[t] = "NONE"
  /\ \A u \in Tickets : u < t => status[u] # "NONE"
  /\ status' = [status EXCEPT ![t] = "WAITING"]
  /\ UNCHANGED <<counterOf, skipped, reclaimed, deskVars, call, req, callers, counts>>
  /\ Observe

-----------------------------------------------------------------------------
(* POST call-next. *)

\* A request for counter c (None: a platform operator) and service s (None: any).  Subscription,
\* pause and counter authority are checked before the transaction and not again inside it,
\* so a request may get this far at any time.
CallAdmit(d, c, s) ==
  /\ call[d].pc = "idle"
  /\ calls < MaxCalls /\ calls' = calls + 1
  /\ call' = [call EXCEPT ![d] = [IdleCall EXCEPT !.pc = "scan", !.counter = c,
                                                  !.scope = Scope(c, s), !.try = 1]]
  /\ UNCHANGED <<ticketVars, deskVars, req, requests, callers>>
  /\ Observe

\* The tickets this counter has CALLED: its previous customer.
CallScan(d) ==
  /\ call[d].pc = "scan"
  /\ call' = [call EXCEPT ![d].pc = "complete",
                          ![d].called = {t \in Tickets : /\ counterOf[t] = call[d].counter
                                                         /\ call[d].counter # None
                                                         /\ status[t] = "CALLED"}]
  /\ UNCHANGED <<ticketVars, deskVars, req, callers, counts>>
  /\ Observe

\* Complete them, whatever they have become since, and read the candidates.
CallAutoComplete(d) ==
  /\ call[d].pc = "complete"
  /\ \A t \in call[d].called : RowFree(t)
  /\ call' = [call EXCEPT ![d].pc = "claim",
                          ![d].done = call[d].called,
                          ![d].cand = Candidates(call[d].scope, call[d].called)]
  /\ UNCHANGED <<ticketVars, deskVars, req, callers, counts>>
  /\ Observe

\* The status of the tickets once d commits its auto-completions.
AfterCommit(d) == [t \in Tickets |-> IF t \in call[d].done THEN "COMPLETED" ELSE status[t]]

\* The ticket whose row the conditional update of d tests now.
Trying(d, t) ==
  /\ call[d].pc = "claim"
  /\ call[d].cand # {}
  /\ t = First(call[d].cand)
  /\ RowFree(t)

\* Mutant of LinkFree: currentReservationId declared without @unique.
LinkUnchecked(c, t) == TRUE

\* The unique index on Counter.currentReservationId accepts the link of t to c.
LinkFree(c, t) == \A k \in Counters \ {c} : current[k] # t

\* What the claim of t by d writes when it commits.
Assign(d, t) ==
  LET c == call[d].counter IN
    /\ status' = [AfterCommit(d) EXCEPT ![t] = "CALLED"]
    /\ counterOf' = IF c = None THEN counterOf ELSE [counterOf EXCEPT ![t] = c]
    /\ current' = IF c = None THEN current ELSE [current EXCEPT ![c] = t]
    /\ serving' = Number[t]
    /\ callers' = [callers EXCEPT ![t] = @ \cup {d}]
    /\ call' = [call EXCEPT ![d] = IdleCall]
    /\ UNCHANGED <<skipped, reclaimed, req, counts>>
    /\ Observe

\* Mutant of CallClaim: the historic unconditional update of the ticket.
CallClaimBlind(d, t) ==
  /\ Trying(d, t)
  /\ call[d].counter # None => LinkFree(call[d].counter, t)
  /\ Assign(d, t)

\* count = 1: the ticket is this desk's, and so are the counter and the number shown.
CallClaim(d, t) ==
  /\ Trying(d, t)
  /\ status[t] = "WAITING"
  /\ call[d].counter # None => LinkFree(call[d].counter, t)
  /\ Assign(d, t)

\* Mutant of CallLose: the loser tries the same candidate again.
CallLoseStays(d, t) ==
  /\ Trying(d, t)
  /\ status[t] # "WAITING"
  /\ UNCHANGED <<ticketVars, deskVars, call, req, callers, counts>>
  /\ Observe

\* count = 0: another request took the ticket; go on to the next candidate.
CallLose(d, t) ==
  /\ Trying(d, t)
  /\ status[t] # "WAITING"
  /\ call' = [call EXCEPT ![d].cand = @ \ {t}]
  /\ UNCHANGED <<ticketVars, deskVars, req, callers, counts>>
  /\ Observe

\* The link breaks the unique index: the whole transaction rolls back, answer 500.
CallCollide(d, t) ==
  /\ Trying(d, t)
  /\ status[t] = "WAITING"
  /\ call[d].counter # None /\ ~LinkFree(call[d].counter, t)
  /\ call' = [call EXCEPT ![d] = IdleCall]
  /\ UNCHANGED <<ticketVars, deskVars, req, callers, counts>>
  /\ Observe

\* Mutant of CallNothing: the finished request keeps the rows it locked.
CallNothingLeaks(d) ==
  /\ call[d].pc = "claim"
  /\ call[d].cand = {}
  /\ status' = AfterCommit(d)
  /\ call' = [call EXCEPT ![d].pc = "idle"]
  /\ UNCHANGED <<counterOf, skipped, reclaimed, deskVars, req, callers, counts>>
  /\ Observe

\* NO_CALLABLE or CONFLICT is an answer, not an error: the auto-completions commit.
CallNothing(d) ==
  /\ call[d].pc = "claim"
  /\ call[d].cand = {}
  /\ status' = AfterCommit(d)
  /\ call' = [call EXCEPT ![d] = IdleCall]
  /\ UNCHANGED <<counterOf, skipped, reclaimed, deskVars, req, callers, counts>>
  /\ Observe

\* The database aborts a deadlocked transaction; withTxRetry runs it again.
CallRetry(d) ==
  /\ Deadlocked(d)
  /\ call' = [call EXCEPT ![d] =
                IF call[d].try = MaxTxRetries
                  THEN IdleCall
                  ELSE [IdleCall EXCEPT !.pc = "scan", !.counter = call[d].counter,
                                        !.scope = call[d].scope, !.try = call[d].try + 1]]
  /\ UNCHANGED <<ticketVars, deskVars, req, callers, counts>>
  /\ Observe

\* The API process or its connection dies: the open transaction rolls back.
CallCrash(d) ==
  /\ call[d].pc # "idle"
  /\ call' = [call EXCEPT ![d] = IdleCall]
  /\ UNCHANGED <<ticketVars, deskVars, req, callers, counts>>
  /\ Observe

-----------------------------------------------------------------------------
(* The other writers of a ticket. *)

Begin(h, r) ==
  /\ req[h].op = "idle" /\ r.op \in Ops
  /\ requests < MaxRequests /\ requests' = requests + 1
  /\ req' = [req EXCEPT ![h] = r]
  /\ UNCHANGED <<ticketVars, deskVars, call, calls, callers>>
  /\ Observe

OpOn(t, op, next) == [IdleReq EXCEPT !.op = op, !.todo = {t}, !.seen = status[t], !.next = next]

\* POST /reservations/:id/cancel checks that the ticket is WAITING...
CancelRead(h, t) == status[t] = "WAITING" /\ Begin(h, OpOn(t, "cancel", "CANCELLED"))

\* ...DELETE /reservations/cancel-active finds an active one...
CancelActiveRead(h, t) == status[t] \in Active /\ Begin(h, OpOn(t, "cancelActive", "CANCELLED"))

\* ...and PUT /reservations/:id/status consults its transition table.
VALID_STATUS_TRANSITIONS ==
  [s \in Status |->
     CASE s = "WAITING" -> {"CALLED", "CANCELLED"}
       [] s = "CALLED"  -> {"COMPLETED", "CANCELLED", "NO_SHOW"}
       [] s = "SERVING" -> {"COMPLETED"}
       [] OTHER         -> {}]

StatusRead(h, t, s) ==
  /\ s \in VALID_STATUS_TRANSITIONS[status[t]]
  /\ Begin(h, OpOn(t, "status", s))

\* All three then write the ticket by its id alone.
Overwrite(h, t) ==
  /\ req[h].op \in {"cancel", "cancelActive", "status"}
  /\ t \in req[h].todo /\ RowFree(t)
  /\ status' = [status EXCEPT ![t] = req[h].next]
  /\ callers' = IF req[h].next = "CALLED" THEN [callers EXCEPT ![t] = @ \cup {h}] ELSE callers
  /\ req' = [req EXCEPT ![h] = IdleReq]
  /\ UNCHANGED <<counterOf, skipped, reclaimed, deskVars, call, counts>>
  /\ Observe

\* PATCH /agency/queue/:id: complete, no_show, cancel, serve or recall, from any status.
PatchRead(h, t, s) ==
  /\ status[t] # "NONE"
  /\ s \in Terminal \cup {"SERVING", "CALLED"}
  /\ Begin(h, [OpOn(t, "patch", s) EXCEPT !.linked = counterOf[t] # None])

PatchWrite(h, t) ==
  /\ req[h].op = "patch" /\ t \in req[h].todo /\ RowFree(t)
  /\ status[t] = req[h].seen
  /\ status' = [status EXCEPT ![t] = req[h].next]
  /\ current' = IF req[h].linked /\ req[h].next \in Terminal
                  THEN [c \in Counters |-> IF current[c] = t THEN None ELSE current[c]]
                  ELSE current
  /\ req' = [req EXCEPT ![h] = IdleReq]
  /\ UNCHANGED <<counterOf, skipped, reclaimed, serving, call, callers, counts>>
  /\ Observe

\* The conditional update matched no row: 409.
PatchConflict(h, t) ==
  /\ req[h].op = "patch" /\ t \in req[h].todo /\ RowFree(t)
  /\ status[t] # req[h].seen
  /\ req' = [req EXCEPT ![h] = IdleReq]
  /\ UNCHANGED <<ticketVars, deskVars, call, callers, counts>>
  /\ Observe

\* POST /reservations/reclaim: a skipped customer is back.
ReclaimRead(h, t) == skipped[t] /\ Begin(h, OpOn(t, "reclaim", "NONE"))

\* Back in the queue if somebody else is being called, else as the ticket was when read.
ReclaimLook(h, t) ==
  /\ req[h].op = "reclaim" /\ t \in req[h].todo
  /\ req' = [req EXCEPT ![h].op = "reclaimTx",
                        ![h].next = IF \E u \in Tickets \ {t} : status[u] = "CALLED"
                                      THEN "WAITING" ELSE req[h].seen]
  /\ UNCHANGED <<ticketVars, deskVars, call, callers, counts>>
  /\ Observe

ReclaimWrite(h, t) ==
  /\ req[h].op = "reclaimTx" /\ t \in req[h].todo /\ RowFree(t)
  /\ status' = [status EXCEPT ![t] = req[h].next]
  /\ skipped' = [skipped EXCEPT ![t] = FALSE]
  /\ reclaimed' = [reclaimed EXCEPT ![t] = TRUE]
  /\ callers' = IF req[h].next = "WAITING" THEN [callers EXCEPT ![t] = {}] ELSE callers
  /\ req' = [req EXCEPT ![h] = IdleReq]
  /\ UNCHANGED <<counterOf, deskVars, call, counts>>
  /\ Observe

\* GET /cron/auto-skip: tickets called too long ago, read at once, marked one by one.
SkipRead(h, S) ==
  /\ S # {}
  /\ \A t \in S : status[t] = "CALLED" /\ ~skipped[t] /\ ~reclaimed[t]
  /\ Begin(h, [IdleReq EXCEPT !.op = "skip", !.todo = S])

SkipWrite(h, t) ==
  /\ req[h].op = "skip" /\ t \in req[h].todo /\ RowFree(t)
  /\ skipped' = [skipped EXCEPT ![t] = TRUE]
  /\ req' = [req EXCEPT ![h] = IF req[h].todo = {t} THEN IdleReq
                               ELSE [req[h] EXCEPT !.todo = @ \ {t}]]
  /\ UNCHANGED <<status, counterOf, reclaimed, deskVars, call, callers, counts>>
  /\ Observe

\* POST /reservations/batch-complete: one conditional update of all the rows named.
BatchComplete(S) ==
  /\ S # {} /\ "batch" \in Ops
  /\ requests < MaxRequests /\ requests' = requests + 1
  /\ \A t \in S : status[t] \in Active /\ RowFree(t)
  /\ status' = [t \in Tickets |-> IF t \in S THEN "COMPLETED" ELSE status[t]]
  /\ UNCHANGED <<counterOf, skipped, reclaimed, deskVars, call, req, calls, callers>>
  /\ Observe

HandlerCrash(h) ==
  /\ req[h].op # "idle"
  /\ req' = [req EXCEPT ![h] = IdleReq]
  /\ UNCHANGED <<ticketVars, deskVars, call, callers, counts>>
  /\ Observe

-----------------------------------------------------------------------------
CallStep(d) ==
  \/ CallScan(d)
  \/ CallAutoComplete(d)
  \/ \E t \in Tickets : CallClaim(d, t) \/ CallLose(d, t) \/ CallCollide(d, t)
  \/ CallNothing(d)
  \/ CallRetry(d)

HandlerStep(h) ==
  \/ \E t \in Tickets :
       \/ CancelRead(h, t) \/ CancelActiveRead(h, t)
       \/ \E s \in Status : StatusRead(h, t, s) \/ PatchRead(h, t, s)
       \/ Overwrite(h, t)
       \/ PatchWrite(h, t) \/ PatchConflict(h, t)
       \/ ReclaimRead(h, t) \/ ReclaimLook(h, t) \/ ReclaimWrite(h, t)
       \/ SkipWrite(h, t)
  \/ \E S \in SUBSET Tickets : SkipRead(h, S)
  \/ HandlerCrash(h)

Next ==
  \/ \E t \in Tickets : Join(t)
  \/ \E d \in Callers, c \in Counters \cup {None}, s \in Services \cup {None} : CallAdmit(d, c, s)
  \/ \E d \in Callers : CallStep(d) \/ CallCrash(d)
  \/ \E h \in Handlers : HandlerStep(h)
  \/ \E S \in SUBSET Tickets : BatchComplete(S)

\* The database grants a row to its waiters in turn and breaks every deadlock; nothing
\* obliges customers or staff to act.
Fairness ==
  \A d \in Callers :
    /\ WF_vars(CallScan(d))
    /\ SF_vars(CallAutoComplete(d))
    /\ SF_vars(\E t \in Tickets : CallClaim(d, t) \/ CallLose(d, t) \/ CallCollide(d, t))
    /\ WF_vars(CallNothing(d))
    /\ WF_vars(CallRetry(d))

Spec == Init /\ [][Next]_vars
FairSpec == Spec /\ Fairness
-----------------------------------------------------------------------------
(* Properties. *)

CallRecord ==
  [pc : {"idle", "scan", "complete", "claim"}, counter : Counters \cup {None},
   scope : SUBSET Services, try : 0 .. MaxTxRetries,
   called : SUBSET Tickets, done : SUBSET Tickets, cand : SUBSET Tickets]

ReqRecord ==
  [op : {"idle", "cancel", "cancelActive", "status", "patch", "reclaim", "reclaimTx", "skip"},
   todo : SUBSET Tickets, seen : Status, linked : BOOLEAN, next : Status]

\* Every variable has its type, and a request that has answered holds no row.
TypeOK ==
  /\ status \in [Tickets -> Status]
  /\ counterOf \in [Tickets -> Counters \cup {None}]
  /\ skipped \in [Tickets -> BOOLEAN]
  /\ reclaimed \in [Tickets -> BOOLEAN]
  /\ current \in [Counters -> Tickets \cup {None}]
  /\ serving \in Nat
  /\ call \in [Callers -> CallRecord]
  /\ req \in [Handlers -> ReqRecord]
  /\ callers \in [Tickets -> SUBSET (Callers \cup Handlers)]
  /\ calls \in 0 .. MaxCalls /\ requests \in 0 .. MaxRequests
  /\ stayed \in [Callers -> SUBSET Tickets]
  /\ \A d \in Callers : call[d].pc = "idle" => call[d].done = {}

\* The ticket a counter shows as being served carries that counter: no reclaim, recall,
\* cancellation or concurrent call leaves a counter showing a ticket sent elsewhere.
ScreenAgrees == \A c \in Counters, t \in Tickets : current[c] = t => counterOf[t] = c

\* Since it last waited, a ticket has been won by at most one call-next request: two
\* desks that both read it WAITING do not both call it.
CalledOnce == \A t \in Tickets : \A x, y \in callers[t] \cap Callers : x = y

\* Why CalledOnce holds: a ticket that waits has not been called since, and the writers
\* that go by a stale read never put a called ticket back among those that wait.
WaitingIsUncalled == \A t \in Tickets : status[t] \in {"NONE", "WAITING"} => callers[t] = {}

WritersKeepIssued ==
  /\ \A t \in Tickets : skipped[t] => status[t] # "NONE"
  /\ \A h \in Handlers :
       /\ req[h].op \in {"cancel", "cancelActive", "status", "patch"} =>
            req[h].next \notin {"NONE", "WAITING"}
       /\ req[h].op = "skip" => \A t \in req[h].todo : status[t] # "NONE"
       /\ req[h].op = "reclaim" => req[h].seen # "NONE"
       /\ req[h].op = "reclaimTx" => req[h].next # "NONE"

CallInv == WaitingIsUncalled /\ WritersKeepIssued /\ CalledOnce

\* A ticket goes to another counter only out of the waiting state, and never while some
\* counter still shows it.
HandoverFromQueue ==
  [][\A t \in Tickets : counterOf'[t] # counterOf[t] =>
       status[t] = "WAITING" /\ \A c \in Counters : current[c] # t]_vars

\* A desk never wins a ticket over a candidate that should come first and that has been
\* WAITING ever since the desk read the queue, whatever the other desks did meanwhile.
NoOvertaking ==
  [][\A d \in Callers, t \in Tickets :
       d \in callers'[t] \ callers[t] => \A u \in stayed[d] : ~Before(u, t)]_vars

\* The transaction can go on, or is one the database aborts to break a deadlock.
MayMove(d) ==
  \/ call[d].pc = "scan"
  \/ call[d].pc = "complete" /\ \A t \in call[d].called : RowFree(t)
  \/ call[d].pc = "claim" /\ (call[d].cand = {} \/ RowFree(First(call[d].cand)))
  \/ call[d].pc # "idle" /\ Deadlocked(d)

\* The desks never all stand still: of the call-next requests in flight, however they wait
\* for the rows that the others have completed and not committed yet, one can go on or is
\* the victim the database picks, for which withTxRetry has its answer (tx-retry.ts:37).
SomeoneMoves ==
  (\E d \in Callers : call[d].pc # "idle") => \E d \in Callers : MayMove(d)

\* Every call-next request is answered: lost candidates, row waits and deadlocks end.
CallTerminates == \A d \in Callers : call[d].pc # "idle" ~> call[d].pc = "idle"
==============================================================================
