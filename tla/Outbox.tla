-------------------------------- MODULE Outbox --------------------------------
(***************************************************************************)
(* The outbox of a desktop and the cloud that executes it.  The desktop    *)
(* logs a row with every local write, replays the due rows in order        *)
(* (_replayPendingMutations) and marks each by the answer it gets.  The    *)
(* cloud looks the row's key up (idempotencyGuard), applies its mutation   *)
(* (processPushMutation, withIdempotency, applyMutationInTx) and stores    *)
(* the answer under the key.                                               *)
(*                                                                         *)
(* A request the desktop gave up on goes on at the cloud.  A step of a     *)
(* request is a statement, or the part of a transaction up to its commit;  *)
(* the transaction of a push holds its key until then.                     *)
(*                                                                         *)
(* Times are compared only between a row's localUpdatedAt and its record's *)
(* updatedAt: `overtaken' holds the rows whose record is the newer one.    *)
(* The two clocks agree.  Not modelled: deletions and their tombstones,    *)
(* violated foreign keys, conflicts of versions (no row carries one), the  *)
(* revocation of a session, rows that replay a business route, and a 2xx   *)
(* answer whose body cannot be read.                                       *)
(***************************************************************************)
EXTENDS Naturals, FiniteSets, FiniteSetsExt

CONSTANTS
  Mutations,    \* rows of the outbox, numbered by created_at
  Op,           \* [Mutations -> {"create", "update"}]
  Record,       \* [Mutations -> Records], the record a row writes
  Records,
  Stamped,      \* the records whose model has updatedAt
  Requests,     \* requests the cloud runs at once
  MaxEvents,    \* bound: crashes of either side, failed statements, refused sessions,
                \* writes of others to the records
  MaxLate,      \* bound: requests lost and answers that come too late
  None

ASSUME OutboxAssumption ==
  /\ Mutations \subseteq Nat /\ IsFiniteSet(Mutations)
  /\ Op \in [Mutations -> {"create", "update"}]
  /\ Record \in [Mutations -> Records]
  /\ Stamped \subseteq Records
  /\ MaxEvents \in Nat /\ MaxLate \in Nat
  /\ None \notin Mutations

VARIABLES
  out,        \* _pending_mutations.status; "due" is a retry whose backoff has passed
  up,         \* the desktop runs
  batch,      \* rows left of the replay in flight
  waiting,    \* the row it waits to hear of
  req,        \* the requests at the cloud
  ledger,     \* SyncMutation: what is stored under the row's key
  present,    \* the record exists at the cloud
  overtaken,  \* rows older than their record's updatedAt
  events, late,
  executed,   \* history: how often the row has taken effect
  kept,       \* history: rows the cloud kept a newer record for
  foreign,    \* history: rows overtaken by somebody else's write
  leftOut,    \* history: rows that the replay in flight found not due, or heard an error for
  spoiled     \* history: rows under whose key an error was stored while undecided

desktop == <<out, up, batch, waiting, leftOut>>
cloud == <<ledger, present, overtaken, executed, kept, foreign, spoiled>>
bounds == <<events, late>>
vars == <<out, up, batch, waiting, req, ledger, present, overtaken,
          events, late, executed, kept, foreign, leftOut, spoiled>>

Rows(r) == {m \in Mutations : Record[m] = r}

\* No request.  `heard' says that the desktop still waits for the answer, `guarded' that the
\* guard stores it.
Free == [pc |-> "free", row |-> None, heard |-> FALSE, guarded |-> TRUE, kept |-> FALSE,
         answer |-> "none"]

\* A fault, or what somebody else does.
Event == events < MaxEvents /\ events' = events + 1

Init ==
  /\ out = [m \in Mutations |-> "none"]
  /\ up = TRUE /\ batch = {} /\ waiting = None
  /\ req = [q \in Requests |-> Free]
  /\ ledger = [m \in Mutations |-> "none"]
  /\ present = [r \in Records |-> \A m \in Rows(r) : Op[m] # "create"]
  /\ overtaken = {}
  /\ events = 0 /\ late = 0
  /\ executed = [m \in Mutations |-> 0]
  /\ kept = {} /\ foreign = {} /\ leftOut = {} /\ spoiled = {}

-----------------------------------------------------------------------------
(* The desktop. *)

\* withOutboxTransaction: the local write and its row commit together.
Log(m) ==
  /\ up /\ out[m] = "none"
  /\ \A n \in Mutations : n < m => out[n] # "none"
  /\ out' = [out EXCEPT ![m] = "pending"]
  /\ UNCHANGED <<up, batch, waiting, leftOut, req, cloud, bounds>>

BackoffEnds(m) ==
  /\ out[m] = "retry"
  /\ out' = [out EXCEPT ![m] = "due"]
  /\ UNCHANGED <<up, batch, waiting, leftOut, req, cloud, bounds>>

\* Mutant of Due: rows that failed once are not selected.
DueOnce == {m \in Mutations : out[m] = "pending"}

\* getPendingMutations
Due == {m \in Mutations : out[m] \in {"pending", "due"}}

\* One replay at a time.
ReplayRead ==
  /\ up /\ waiting = None /\ batch = {} /\ Due # {}
  /\ batch' = Due
  /\ leftOut' = {m \in Mutations : out[m] \in {"sending", "retry", "permanent"}}
  /\ UNCHANGED <<out, up, waiting, req, cloud, bounds>>

\* Rows go out by created_at, each once the one before is answered.
ReplaySend ==
  LET m == Min(batch)
      q == CHOOSE p \in Requests : req[p] = Free IN
    /\ up /\ waiting = None /\ batch # {}
    /\ \E p \in Requests : req[p] = Free
    /\ out' = [out EXCEPT ![m] = "sending"]
    /\ batch' = batch \ {m}
    /\ waiting' = m
    /\ req' = [req EXCEPT ![q] = [Free EXCEPT !.pc = "lookup", !.row = m, !.heard = TRUE]]
    /\ UNCHANGED <<up, leftOut, cloud, bounds>>

\* Mutant of Verdict: the result is stored as the row's status.
VerdictRaw(answer) == IF answer = "applied" THEN "completed" ELSE answer

\* What an answer makes of the row.  "record" is the push's own entry, replayed by the guard
\* in place of an answer: it has no results, which counts as a refusal for good.
Verdict(answer) ==
  CASE answer \in {"applied", "duplicate"} -> "completed"
    [] answer = "record" -> "permanent"
    [] answer = "unauthorized" -> "sending"
    [] OTHER -> "retry"

\* An answer arrives in time; the replay goes on, unless the session was refused.
Answered(q) ==
  LET m == req[q].row IN
    /\ up /\ req[q].heard /\ req[q].pc = "reply"
    /\ out' = [out EXCEPT ![m] = Verdict(req[q].answer)]
    /\ batch' = IF req[q].answer = "unauthorized" THEN {} ELSE batch
    /\ leftOut' = IF out'[m] = "completed" THEN leftOut ELSE leftOut \cup {m}
    /\ waiting' = None
    /\ req' = [req EXCEPT ![q] = Free]
    /\ UNCHANGED <<up, cloud, bounds>>

\* Nobody waits for the requests at the cloud any more.
Unheard == [q \in Requests |-> [req[q] EXCEPT !.heard = FALSE]]

\* The network fails or 15 s pass.
GivesUp ==
  \/ (\A q \in Requests : ~req[q].heard) /\ UNCHANGED late
  \/ late < MaxLate /\ late' = late + 1

\* Mutant of TimedOut: the replay goes on with the next row.
TimedOutGoesOn ==
  /\ up /\ waiting # None /\ GivesUp
  /\ out' = [out EXCEPT ![waiting] = "retry"]
  /\ waiting' = None
  /\ req' = Unheard
  /\ UNCHANGED <<up, batch, leftOut, cloud, events>>

\* This row is tried again later, and so is the rest of the batch.
TimedOut ==
  /\ up /\ waiting # None /\ GivesUp
  /\ out' = [out EXCEPT ![waiting] = "retry"]
  /\ batch' = {} /\ waiting' = None
  /\ req' = Unheard
  /\ UNCHANGED <<up, leftOut, cloud, events>>

Crash ==
  /\ up /\ Event
  /\ up' = FALSE /\ batch' = {} /\ waiting' = None
  /\ req' = Unheard
  /\ UNCHANGED <<out, leftOut, cloud, late>>

\* The boot sweep frees the rows found sending, unless they were sent in the last 10 minutes.
Restart ==
  /\ ~up /\ up' = TRUE
  /\ \E S \in SUBSET {m \in Mutations : out[m] = "sending"} :
       out' = [m \in Mutations |-> IF m \in S THEN "pending" ELSE out[m]]
  /\ UNCHANGED <<batch, waiting, leftOut, req, cloud, bounds>>

-----------------------------------------------------------------------------
(* The cloud. *)

\* The request ends with this answer, which is stored first unless the guard replays it.
Ends(q, pc, answer) == req' = [req EXCEPT ![q].pc = pc, ![q].answer = answer]

\* The request never arrives.
Lost(q) ==
  /\ req[q].pc = "lookup"
  /\ late < MaxLate /\ late' = late + 1
  /\ req' = [req EXCEPT ![q] = Free]
  /\ UNCHANGED <<desktop, cloud, events>>

\* Nobody waits for the answer.
Forgotten(q) ==
  /\ req[q].pc = "reply" /\ ~req[q].heard
  /\ req' = [req EXCEPT ![q] = Free]
  /\ UNCHANGED <<desktop, cloud, bounds>>

\* idempotencyGuard: what is stored under the key is the answer.
GuardLookup(q) ==
  /\ req[q].pc = "lookup"
  /\ IF ledger[req[q].row] # "none"
       THEN Ends(q, "reply", ledger[req[q].row])
       ELSE req' = [req EXCEPT ![q].pc = "enter"]
  /\ UNCHANGED <<desktop, cloud, bounds>>

\* The lookup fails: the route runs without the guard, which stores nothing either.
GuardFails(q) ==
  /\ req[q].pc = "lookup" /\ Event
  /\ req' = [req EXCEPT ![q].pc = "enter", ![q].guarded = FALSE]
  /\ UNCHANGED <<desktop, cloud, late>>

\* The token has expired; a refusal is not stored.
Unauthorized(q) ==
  /\ req[q].pc = "enter" /\ Event
  /\ Ends(q, "reply", "unauthorized")
  /\ UNCHANGED <<desktop, cloud, late>>

\* withIdempotency, before its transaction.
FastPath(q) ==
  /\ req[q].pc = "enter"
  /\ IF ledger[req[q].row] # "none"
       THEN Ends(q, "store", "duplicate")
       ELSE req' = [req EXCEPT ![q].pc = "acquire"]
  /\ UNCHANGED <<desktop, cloud, bounds>>

\* The requests whose open transaction has inserted the key of m.
Holders(m) == {q \in Requests : req[q].row = m /\ req[q].pc = "write"}

\* Mutant of Acquire: the key is not unique.
AcquireAny(q) ==
  LET m == req[q].row IN
    /\ req[q].pc = "acquire"
    /\ req' = [req EXCEPT ![q].pc = "write", ![q].kept = Record[m] \in Stamped /\ m \in overtaken]
    /\ UNCHANGED <<desktop, cloud, bounds>>

\* The insert waits for whoever holds the key, and fails if it is there by then: the lookup
\* of the winner is refused inside the aborted transaction, so the loser ends in an error.
\* The winner then compares the record's updatedAt with the row's.
Acquire(q) ==
  LET m == req[q].row IN
    /\ req[q].pc = "acquire" /\ Holders(m) = {}
    /\ IF ledger[m] # "none"
         THEN Ends(q, "store", "error")
         ELSE req' = [req EXCEPT ![q].pc = "write",
                                 ![q].kept = Record[m] \in Stamped /\ m \in overtaken]
    /\ UNCHANGED <<desktop, cloud, bounds>>

\* The rows a write of r, stamped by the cloud's clock, makes older than the record.
Logged(r) == {m \in Rows(r) : out[m] # "none"}

\* A newer record is kept.
KeepCloud(q) ==
  /\ req[q].pc = "write" /\ req[q].kept
  /\ ledger' = [ledger EXCEPT ![req[q].row] = "record"]
  /\ kept' = kept \cup {req[q].row}
  /\ Ends(q, "store", "applied")
  /\ UNCHANGED <<desktop, present, overtaken, executed, foreign, spoiled, bounds>>

\* The write, the change for other clients and the entry under the key commit together.  A
\* create carries the row's own updatedAt, an update is stamped by the cloud.
Apply(q) ==
  LET m == req[q].row
      r == Record[m] IN
    /\ req[q].pc = "write" /\ ~req[q].kept
    /\ Op[m] = "create" \/ present[r]
    /\ present' = [present EXCEPT ![r] = TRUE]
    /\ executed' = [executed EXCEPT ![m] = @ + 1]
    /\ ledger' = [ledger EXCEPT ![m] = "record"]
    /\ overtaken' = IF Op[m] = "create"
                      THEN (overtaken \ Rows(r)) \cup {n \in Logged(r) : n < m}
                      ELSE overtaken \cup Logged(r)
    /\ Ends(q, "store", "applied")
    /\ UNCHANGED <<desktop, kept, foreign, spoiled, bounds>>

\* An update finds no record.
NoRecord(q) ==
  /\ req[q].pc = "write" /\ ~req[q].kept
  /\ Op[req[q].row] = "update" /\ ~present[Record[req[q].row]]
  /\ Ends(q, "store", "error")
  /\ UNCHANGED <<desktop, cloud, bounds>>

\* The transaction fails and rolls back: a deadlock, a timeout, a lost connection.
Fails(q) ==
  /\ req[q].pc = "write" /\ Event
  /\ Ends(q, "store", "error")
  /\ UNCHANGED <<desktop, cloud, late>>

Undecided(m) == executed[m] = 0 /\ m \notin kept

\* A push answers 200 whatever became of its mutation, so the guard stores it.
Store(q) ==
  /\ req[q].pc = "store" /\ req[q].guarded
  /\ ledger' = [ledger EXCEPT ![req[q].row] = req[q].answer]
  /\ spoiled' = IF req[q].answer = "error" /\ Undecided(req[q].row)
                  THEN spoiled \cup {req[q].row} ELSE spoiled
  /\ req' = [req EXCEPT ![q].pc = "reply"]
  /\ UNCHANGED <<desktop, present, overtaken, executed, kept, foreign, bounds>>

\* The guard has stepped aside, or fails to store the answer, which goes out all the same.
StoreNot(q) ==
  /\ req[q].pc = "store"
  /\ IF req[q].guarded THEN Event ELSE UNCHANGED events
  /\ req' = [req EXCEPT ![q].pc = "reply"]
  /\ UNCHANGED <<desktop, cloud, late>>

\* The cloud restarts; open transactions roll back.
CloudCrash ==
  /\ Event
  /\ req' = [q \in Requests |-> Free]
  /\ UNCHANGED <<desktop, cloud, late>>

\* Somebody else writes the record.
CloudWrite(r) ==
  /\ present[r] /\ Event
  /\ overtaken' = overtaken \cup Logged(r)
  /\ foreign' = foreign \cup Logged(r)
  /\ UNCHANGED <<desktop, req, ledger, present, executed, kept, spoiled, late>>

-----------------------------------------------------------------------------
Handle(q) ==
  \/ GuardLookup(q) \/ FastPath(q) \/ Acquire(q) \/ KeepCloud(q) \/ Apply(q)
  \/ NoRecord(q) \/ Store(q) \/ StoreNot(q) \/ Answered(q) \/ Forgotten(q)

Next ==
  \/ \E m \in Mutations : Log(m) \/ BackoffEnds(m)
  \/ ReplayRead \/ ReplaySend \/ TimedOut \/ Crash \/ Restart
  \/ \E q \in Requests :
       \/ Lost(q) \/ GuardFails(q) \/ Unauthorized(q) \/ Fails(q) \/ Handle(q)
  \/ CloudCrash
  \/ \E r \in Records : CloudWrite(r)

\* The cycle replays, backoffs end, the desktop is started again, fetch gives up, and a
\* request that has arrived is seen through.  With the bounds: from some time on the network
\* is in time.
Fairness ==
  /\ WF_vars(ReplayRead) /\ WF_vars(ReplaySend) /\ WF_vars(TimedOut) /\ WF_vars(Restart)
  /\ \A m \in Mutations : WF_vars(BackoffEnds(m))
  /\ \A q \in Requests : WF_vars(Handle(q))

Spec == Init /\ [][Next]_vars
FairSpec == Spec /\ Fairness
-----------------------------------------------------------------------------
(* Properties. *)

Answer == {"applied", "duplicate", "error", "unauthorized", "record"}

\* Every variable has its type, and the desktop waits only while it runs.
TypeOK ==
  /\ out \in [Mutations -> {"none", "pending", "sending", "retry", "due", "completed", "permanent"}]
  /\ up \in BOOLEAN /\ batch \subseteq Mutations
  /\ waiting \in Mutations \cup {None} /\ (waiting # None => up)
  /\ req \in [Requests ->
       [pc : {"free", "lookup", "enter", "acquire", "write", "store", "reply"},
        row : Mutations \cup {None}, heard : BOOLEAN, guarded : BOOLEAN, kept : BOOLEAN,
        answer : Answer \cup {"none"}]]
  /\ \A q \in Requests : req[q].pc # "free" => req[q].row \in Mutations
  /\ \A q \in Requests : req[q].pc \in {"store", "reply"} => req[q].answer # "none"
  /\ ledger \in [Mutations -> Answer \cup {"none"}]
  /\ present \in [Records -> BOOLEAN]
  /\ overtaken \subseteq Mutations /\ kept \subseteq Mutations
  /\ foreign \subseteq Mutations /\ leftOut \subseteq Mutations /\ spoiled \subseteq Mutations
  /\ executed \in [Mutations -> Nat]
  /\ events \in 0 .. MaxEvents /\ late \in 0 .. MaxLate

\* Whatever is lost, late, overlapping or cut short, a pushed row takes effect at most once,
\* and is completed only when the cloud has decided it, unless an error was stored under its
\* key before.
Promise == INSTANCE Delivery WITH
  Operations <- Mutations,
  logged <- {m \in Mutations : out[m] # "none"},
  applied <- executed,
  reported <- {m \in Mutations : out[m] = "completed"} \ spoiled
KeepsPromise == Promise!Spec

\* Inside one replay no row overtakes another: while a row is out, the cloud has decided every
\* older one, but for those the replay has heard an error for, those it left out (in backoff,
\* left sending, refused for good), and those an error is stored for.  So a row whose answer
\* never came, decided or not, is passed by at most by replays that begin in its backoff.
NoneOvertakenInReplay ==
  \A m \in Mutations :
    waiting # None /\ m < waiting => ~Undecided(m) \/ m \in leftOut \/ m \in spoiled

\* The ways a row is left behind: it was sending when a crash or a refused session ended the
\* replay, or an error was stored under its key.
LeftBehind(m) ==
  \/ out[m] = "sending" /\ waiting # m
  \/ m \in spoiled

\* But for those, every row is decided by the cloud in the end, over any number of lost
\* requests and answers.
Delivered ==
  \A m \in Mutations :
    out[m] = "pending" ~> ~Undecided(m) \/ LeftBehind(m)

(* What the repository says and the code does not do. *)

\* "The cloud applies each logical operation exactly once": a completed row has taken effect,
\* unless somebody else has written its record since.
CompletedTookEffect ==
  \A m \in Mutations : out[m] = "completed" => executed[m] = 1 \/ m \in foreign
==============================================================================
