------------------------------ MODULE Settlement ------------------------------
(***************************************************************************)
(* Online payments: a checkout is created (routes/payment-checkout.ts),    *)
(* paid or not at the Chargily gateway, and settled by whoever hears of it *)
(* first: the gateway's webhook, the payer's poll, an administrator or the *)
(* cron sweeper, all through lib/chargily-fulfill.ts.                      *)
(*                                                                         *)
(* A settlement reads the ledger row, then settles it in a transaction of  *)
(* its own, then reads and approves the hardware orders linked to the      *)
(* checkout.  The transaction is two steps, since it reads the agency's    *)
(* expiry while it holds only the ledger row.                              *)
(*                                                                         *)
(* Kinds of payment: a subscription, an SMS pack, a hardware order.  Rows  *)
(* of Transaction and SmsPurchase are one table here, COMPLETED standing   *)
(* for the latter's APPROVED; a checkout is named by its payment.  One     *)
(* agency and one customer.  A term lasts 30 days or more and a payment a  *)
(* day, so no term ends here.  Not modelled: receipts paid by hand, the    *)
(* administrator's override when the gateway is unreachable, cancellation  *)
(* of a subscription, prices, notifications and audit rows.                *)
(***************************************************************************)
EXTENDS Naturals, FiniteSets

CONSTANTS
  Payments,     \* numbered in order of creation
  Kind,         \* [Payments -> {"subscription", "sms", "hardware"}]
  Orders,       \* hardware orders to be paid up front
  Items,        \* [Payments -> SUBSET Orders], the orders a checkout asks to include
  Clients,      \* checkout creations in flight
  Settlers,     \* settlements in flight
  Terms0,       \* terms the agency has left at first
  Webhooks,     \* TRUE if the gateway can reach the server
  Batch,        \* PAYMENT_SWEEP_BATCH
  MaxAttempts,  \* bound: webhooks, polls and verifications in a behaviour
  MaxCrashes,   \* bound: processes that die with work in flight
  None

Procs == Clients \cup Settlers

ASSUME SettlementAssumption ==
  /\ Payments \subseteq Nat /\ IsFiniteSet(Payments)
  /\ Kind \in [Payments -> {"subscription", "sms", "hardware"}]
  /\ Items \in [Payments -> SUBSET Orders]
  /\ Clients \cap Settlers = {} /\ IsFiniteSet(Settlers)
  /\ Terms0 \in Nat /\ Webhooks \in BOOLEAN /\ Batch \in Nat \ {0}
  /\ MaxAttempts \in Nat /\ MaxCrashes \in Nat
  /\ None \notin Payments

VARIABLES
  status,    \* Transaction.status or SmsPurchase.status, "NONE" before the row exists
  linked,    \* the row's providerRef is set
  age,       \* 0, 1 past PAYMENT_STALE_AFTER_MS, 2 past PAYMENT_EXPIRE_AFTER_MS
  order,     \* HardwareOrder.status
  orderRef,  \* HardwareOrder.providerRef
  agency,    \* Agency.subscriptionStatus
  terms,     \* terms until Agency.subscriptionExpiresAt
  gateway,   \* the checkout at the gateway; "open" once the payer has its URL
  proc,      \* what each client and settler is about to do
  attempts,  \* webhooks, polls and verifications so far
  crashes,   \* processes that have died so far
  granted    \* history: how often the payment was settled as paid

ledger == <<status, linked, age>>
orders == <<order, orderRef>>
subscription == <<agency, terms>>
counts == <<attempts, crashes>>
vars == <<status, linked, age, order, orderRef, agency, terms, gateway, proc,
          attempts, crashes, granted>>

IdleProc == [pc |-> "idle", pay |-> None, outcome |-> "none", seen |-> "none", base |-> 0,
             orders |-> {}, todo |-> {}]

\* The checkout can still be paid, expired or declined.
Pending(t) == gateway[t] \in {"created", "open"}

\* normalizeChargilyStatus
Normalized(t) ==
  IF gateway[t] = "paid" THEN "paid" ELSE IF Pending(t) THEN "pending" ELSE "failed"

\* Mutant of Done: the last payment of a sweep is taken for one of many.
DoneWithOne(q) == [IdleProc EXCEPT !.pc = "sweep", !.todo = q.todo]

\* p is done with its payment; a sweep goes on with the next one.
Done(q) ==
  IF q.todo = {} THEN IdleProc ELSE [IdleProc EXCEPT !.pc = "sweep", !.todo = q.todo]

Init ==
  /\ status = [t \in Payments |-> "NONE"]
  /\ linked = [t \in Payments |-> FALSE]
  /\ age = [t \in Payments |-> 0]
  /\ order = [o \in Orders |-> "PENDING"]
  /\ orderRef = [o \in Orders |-> None]
  /\ agency = IF Terms0 = 0 THEN "INACTIVE" ELSE "ACTIVE"
  /\ terms = Terms0
  /\ gateway = [t \in Payments |-> "none"]
  /\ proc = [p \in Procs |-> IdleProc]
  /\ attempts = 0 /\ crashes = 0
  /\ granted = [t \in Payments |-> 0]

-----------------------------------------------------------------------------
(* POST /payment/create-checkout *)

\* The row comes first.  A hardware checkout needs its orders PENDING, a subscription
\* takes those that are.
CreateRow(p, t) ==
  LET open == {o \in Items[t] : order[o] = "PENDING"} IN
    /\ proc[p].pc = "idle" /\ status[t] = "NONE"
    /\ \A u \in Payments : u < t => status[u] # "NONE"
    /\ Kind[t] = "hardware" => open = Items[t]
    /\ status' = [status EXCEPT ![t] = "PENDING"]
    /\ proc' = [proc EXCEPT ![p] = [IdleProc EXCEPT !.pc = "create", !.pay = t, !.orders = open]]
    /\ UNCHANGED <<linked, age, orders, subscription, gateway, counts, granted>>

CreateCheckout(p) ==
  /\ proc[p].pc = "create"
  /\ gateway' = [gateway EXCEPT ![proc[p].pay] = "created"]
  /\ proc' = [proc EXCEPT ![p].pc = "link"]
  /\ UNCHANGED <<ledger, orders, subscription, counts, granted>>

\* The gateway refuses the checkout, or creates it and its answer is lost.
CreateRefused(p) ==
  /\ proc[p].pc = "create"
  /\ gateway' \in {gateway, [gateway EXCEPT ![proc[p].pay] = "created"]}
  /\ status' = [status EXCEPT ![proc[p].pay] = "FAILED"]
  /\ proc' = [proc EXCEPT ![p] = IdleProc]
  /\ UNCHANGED <<linked, age, orders, subscription, counts, granted>>

LinkRow(p) ==
  /\ proc[p].pc = "link"
  /\ linked' = [linked EXCEPT ![proc[p].pay] = TRUE]
  /\ proc' = [proc EXCEPT ![p].pc = "linkOrders"]
  /\ UNCHANGED <<status, age, orders, subscription, gateway, counts, granted>>

\* Mutant of LinkOrders: the payer has the URL before the agency is marked.
LinkOrdersOpen(p) ==
  LET t == proc[p].pay IN
    /\ proc[p].pc = "linkOrders"
    /\ orderRef' = [o \in Orders |-> IF o \in proc[p].orders THEN t ELSE orderRef[o]]
    /\ gateway' = IF gateway[t] = "created" THEN [gateway EXCEPT ![t] = "open"] ELSE gateway
    /\ proc' = [proc EXCEPT ![p].pc = "mark"]
    /\ UNCHANGED <<ledger, order, subscription, counts, granted>>

\* By their ids: whatever checkout they were linked to before.
LinkOrders(p) ==
  /\ proc[p].pc = "linkOrders"
  /\ orderRef' = [o \in Orders |-> IF o \in proc[p].orders THEN proc[p].pay ELSE orderRef[o]]
  /\ proc' = [proc EXCEPT ![p].pc = "mark"]
  /\ UNCHANGED <<ledger, order, subscription, gateway, counts, granted>>

\* A subscription checkout marks the agency PENDING, whatever it was; the answer gives
\* the payer the URL.
AnswerCheckout(p) ==
  LET t == proc[p].pay IN
    /\ proc[p].pc = "mark"
    /\ agency' = IF Kind[t] = "subscription" THEN "PENDING" ELSE agency
    /\ gateway' = IF gateway[t] = "created" THEN [gateway EXCEPT ![t] = "open"] ELSE gateway
    /\ proc' = [proc EXCEPT ![p] = IdleProc]
    /\ UNCHANGED <<ledger, orders, terms, counts, granted>>

-----------------------------------------------------------------------------
(* The gateway, whose verdict on a checkout is final. *)

Decide(t, verdict) ==
  /\ gateway[t] = "open"
  /\ gateway' = [gateway EXCEPT ![t] = verdict]
  /\ UNCHANGED <<ledger, orders, subscription, proc, counts, granted>>

-----------------------------------------------------------------------------
(* Who hears of it. *)

Attempt(p, q) ==
  /\ proc[p].pc = "idle"
  /\ attempts < MaxAttempts /\ attempts' = attempts + 1
  /\ proc' = [proc EXCEPT ![p] = q]
  /\ UNCHANGED <<ledger, orders, subscription, gateway, crashes, granted>>

\* The webhook may be late, or delivered again after an answer that was lost or not 200.
Webhook(p, t) ==
  /\ Webhooks /\ gateway[t] \in {"paid", "failed"}
  /\ Attempt(p, [IdleProc EXCEPT !.pc = "read", !.pay = t, !.outcome = gateway[t]])

\* GET /payment/checkout/:id asks the gateway while the row is PENDING; the administrator's
\* verify asks whatever the row is.
Poll(p, t) ==
  /\ linked[t] /\ status[t] = "PENDING"
  /\ Attempt(p, [IdleProc EXCEPT !.pc = "ask", !.pay = t])

Verify(p, t) ==
  /\ linked[t] /\ Kind[t] # "sms"
  /\ Attempt(p, [IdleProc EXCEPT !.pc = "ask", !.pay = t])

\* What to do with an answer of the gateway.
Answered(q, verdict) ==
  IF verdict = "pending" THEN Done(q) ELSE [q EXCEPT !.pc = "read", !.outcome = verdict]

Ask(p) ==
  /\ proc[p].pc = "ask"
  /\ proc' = [proc EXCEPT ![p] = Answered(proc[p], Normalized(proc[p].pay))]
  /\ UNCHANGED <<ledger, orders, subscription, gateway, counts, granted>>

\* sweepPendingPayments: the oldest rows that have been PENDING for too long.
Oldest(S) == {t \in S : Cardinality({u \in S : u < t}) < Batch}
Candidates == Oldest({t \in Payments : status[t] = "PENDING" /\ linked[t] /\ age[t] > 0})

SweepRead(p) ==
  /\ proc[p].pc = "idle" /\ Candidates # {}
  /\ proc' = [proc EXCEPT ![p] = [IdleProc EXCEPT !.pc = "sweep", !.todo = Candidates]]
  /\ UNCHANGED <<ledger, orders, subscription, gateway, counts, granted>>

\* Mutant of SweepVerdict: a payment pending for a day is left for the next sweep.
SweepVerdictNeverOld(q, t) == Answered(q, Normalized(t))

\* Mutant of SweepVerdict: it is settled as failed without being expired at the gateway.
SweepVerdictUnexpired(q, t) ==
  Answered(q, IF Pending(t) /\ age[t] = 2 THEN "failed" ELSE Normalized(t))

\* A payment that is still pending after a day is to be expired.
SweepVerdict(q, t) ==
  IF Pending(t) /\ age[t] = 2 THEN [q EXCEPT !.pc = "expire"] ELSE Answered(q, Normalized(t))

SweepAsk(p, t) ==
  /\ proc[p].pc = "sweep" /\ t \in proc[p].todo
  /\ \A u \in proc[p].todo : t <= u
  /\ proc' = [proc EXCEPT ![p] =
                SweepVerdict([IdleProc EXCEPT !.pay = t, !.todo = proc[p].todo \ {t}], t)]
  /\ UNCHANGED <<ledger, orders, subscription, gateway, counts, granted>>

\* The gateway expires a checkout that is still pending.
SweepExpire(p) ==
  /\ proc[p].pc = "expire" /\ Pending(proc[p].pay)
  /\ gateway' = [gateway EXCEPT ![proc[p].pay] = "expired"]
  /\ proc' = [proc EXCEPT ![p].pc = "read", ![p].outcome = "failed"]
  /\ UNCHANGED <<ledger, orders, subscription, counts, granted>>

\* The gateway does not answer, or refuses to expire: nothing is settled this time.
Unreachable(p) ==
  /\ proc[p].pc \in {"ask", "sweep", "expire"}
  /\ proc' = [proc EXCEPT ![p] =
                Done(IF proc[p].pc # "sweep" THEN proc[p]
                     ELSE [proc[p] EXCEPT !.todo = {t \in @ : \E u \in @ : u < t}])]
  /\ UNCHANGED <<ledger, orders, subscription, gateway, counts, granted>>

-----------------------------------------------------------------------------
(* fulfillCheckoutPaid and fulfillCheckoutFailed *)

\* After the row: the hardware orders if the checkout was paid.
AfterRow(q) == IF q.outcome = "paid" THEN [q EXCEPT !.pc = "hardware"] ELSE Done(q)

\* Mutant of ReadRow: the row is settled whatever its status.
ReadRowAny(p) ==
  /\ proc[p].pc = "read"
  /\ proc' = [proc EXCEPT ![p].pc = "settle", ![p].seen = agency]
  /\ UNCHANGED <<ledger, orders, subscription, gateway, counts, granted>>

\* The row and its agency; only a PENDING row is settled.
ReadRow(p) ==
  /\ proc[p].pc = "read"
  /\ proc' = [proc EXCEPT ![p] =
                IF status[proc[p].pay] = "PENDING" /\ linked[proc[p].pay]
                  THEN [proc[p] EXCEPT !.pc = "settle", !.seen = agency]
                  ELSE AfterRow(proc[p])]
  /\ UNCHANGED <<ledger, orders, subscription, gateway, counts, granted>>

\* The transaction that settles t holds its row until it commits.
RowFree(t) == \A p \in Settlers : proc[p].pc = "commit" => proc[p].pay # t

\* Read what the new term is stacked on.
PaidBegin(p) ==
  /\ proc[p].pc = "settle" /\ proc[p].outcome = "paid" /\ RowFree(proc[p].pay)
  /\ proc' = [proc EXCEPT ![p].pc = "commit", ![p].base = terms]
  /\ UNCHANGED <<ledger, orders, subscription, gateway, counts, granted>>

\* Mutant of Stacked: the term starts now, and what was left of the old one is lost.
StackedFromNow(q) == 1

\* A paid term is added to the window that is still running.
Stacked(q) == q.base + 1

\* Mutant of PaidCommit: the orders are left to the next to hear of the payment.
PaidCommitOnly(p) ==
  LET t == proc[p].pay IN
    /\ proc[p].pc = "commit"
    /\ status' = [status EXCEPT ![t] = "COMPLETED"]
    /\ IF Kind[t] = "subscription"
         THEN agency' = "ACTIVE" /\ terms' = Stacked(proc[p])
         ELSE UNCHANGED subscription
    /\ granted' = [granted EXCEPT ![t] = @ + 1]
    /\ proc' = [proc EXCEPT ![p] = Done(proc[p])]
    /\ UNCHANGED <<linked, age, orders, gateway, counts>>

\* By its id: the row may have been settled since it was read.
PaidCommit(p) ==
  LET t == proc[p].pay IN
    /\ proc[p].pc = "commit"
    /\ status' = [status EXCEPT ![t] = "COMPLETED"]
    /\ IF Kind[t] = "subscription"
         THEN agency' = "ACTIVE" /\ terms' = Stacked(proc[p])
         ELSE UNCHANGED subscription
    /\ granted' = [granted EXCEPT ![t] = @ + 1]
    /\ proc' = [proc EXCEPT ![p].pc = "hardware"]
    /\ UNCHANGED <<linked, age, orders, gateway, counts>>

\* An agency that was PENDING when the row was read is demoted.
FailedCommit(p) ==
  LET t == proc[p].pay IN
    /\ proc[p].pc = "settle" /\ proc[p].outcome = "failed" /\ RowFree(t)
    /\ status' = [status EXCEPT ![t] = "FAILED"]
    /\ agency' = IF Kind[t] # "sms" /\ proc[p].seen = "PENDING" THEN "INACTIVE" ELSE agency
    /\ proc' = [proc EXCEPT ![p] = Done(proc[p])]
    /\ UNCHANGED <<linked, age, orders, terms, gateway, counts, granted>>

\* The PENDING orders of the checkout...
ReadOrders(p) ==
  LET mine == {o \in Orders : orderRef[o] = proc[p].pay /\ order[o] = "PENDING"} IN
    /\ proc[p].pc = "hardware"
    /\ proc' = [proc EXCEPT ![p] = IF mine = {} THEN Done(proc[p])
                                   ELSE [proc[p] EXCEPT !.pc = "approve", !.orders = mine]]
    /\ UNCHANGED <<ledger, orders, subscription, gateway, counts, granted>>

\* ...are approved one by one.
ApproveOrder(p, o) ==
  /\ proc[p].pc = "approve" /\ o \in proc[p].orders
  /\ order' = [order EXCEPT ![o] = "APPROVED"]
  /\ proc' = [proc EXCEPT ![p] = IF proc[p].orders = {o} THEN Done(proc[p])
                                 ELSE [proc[p] EXCEPT !.orders = @ \ {o}]]
  /\ UNCHANGED <<ledger, orderRef, subscription, gateway, counts, granted>>

-----------------------------------------------------------------------------
\* A process or its connection dies; an open transaction rolls back.
Crash(p) ==
  /\ proc[p].pc # "idle"
  /\ crashes < MaxCrashes /\ crashes' = crashes + 1
  /\ proc' = [proc EXCEPT ![p] = IdleProc]
  /\ UNCHANGED <<ledger, orders, subscription, gateway, attempts, granted>>

Tick ==
  /\ age' = [t \in Payments |-> IF status[t] = "PENDING" /\ age[t] < 2 THEN age[t] + 1 ELSE age[t]]
  /\ age' # age
  /\ UNCHANGED <<status, linked, orders, subscription, gateway, proc, counts, granted>>

ClientStep(p) ==
  \/ \E t \in Payments : CreateRow(p, t)
  \/ CreateCheckout(p) \/ CreateRefused(p) \/ LinkRow(p) \/ LinkOrders(p) \/ AnswerCheckout(p)

Hear(p) == \E t \in Payments : Webhook(p, t) \/ Poll(p, t) \/ Verify(p, t)

AskGateway(p) == Ask(p) \/ SweepExpire(p) \/ \E t \in Payments : SweepAsk(p, t)

SettleStep(p) ==
  \/ ReadRow(p) \/ PaidBegin(p) \/ PaidCommit(p) \/ FailedCommit(p)
  \/ ReadOrders(p) \/ \E o \in Orders : ApproveOrder(p, o)

Next ==
  \/ \E p \in Clients : ClientStep(p)
  \/ \E t \in Payments : Decide(t, "paid") \/ Decide(t, "failed")
  \/ \E p \in Settlers : Hear(p) \/ SweepRead(p) \/ AskGateway(p) \/ Unreachable(p) \/ SettleStep(p)
  \/ \E p \in Procs : Crash(p)
  \/ Tick

\* Time passes, the sweeper's timer runs, and a gateway asked again and again answers some
\* time.  Payers, webhooks and clients owe nothing.
Fairness ==
  /\ WF_vars(Tick)
  /\ \A p \in Settlers :
       /\ WF_vars(SweepRead(p)) /\ WF_vars(SettleStep(p)) /\ WF_vars(Unreachable(p))
       /\ SF_vars(Ask(p)) /\ SF_vars(SweepExpire(p))
       /\ \A t \in Payments : SF_vars(SweepAsk(p, t))

Spec == Init /\ [][Next]_vars
FairSpec == Spec /\ Fairness
-----------------------------------------------------------------------------
(* Properties. *)

ProcRecord ==
  [pc : {"idle", "create", "link", "linkOrders", "mark", "ask", "sweep", "expire", "read",
         "settle", "commit", "hardware", "approve"},
   pay : Payments \cup {None}, outcome : {"none", "paid", "failed"},
   seen : {"none", "INACTIVE", "PENDING", "ACTIVE"}, base : Nat,
   orders : SUBSET Orders, todo : SUBSET Payments]

\* Every variable has its type, and a process at work has a payment to work on.
TypeOK ==
  /\ status \in [Payments -> {"NONE", "PENDING", "COMPLETED", "FAILED"}]
  /\ linked \in [Payments -> BOOLEAN]
  /\ age \in [Payments -> 0 .. 2]
  /\ order \in [Orders -> {"PENDING", "APPROVED"}]
  /\ orderRef \in [Orders -> Payments \cup {None}]
  /\ agency \in {"INACTIVE", "PENDING", "ACTIVE"} /\ terms \in Nat
  /\ gateway \in [Payments -> {"none", "created", "open", "paid", "failed", "expired"}]
  /\ proc \in [Procs -> ProcRecord]
  /\ \A p \in Procs : proc[p].pc \notin {"idle", "sweep"} => proc[p].pay \in Payments
  /\ \A p \in Procs : proc[p].pc = "sweep" => proc[p].todo # {}
  /\ attempts \in 0 .. MaxAttempts /\ crashes \in 0 .. MaxCrashes
  /\ granted \in [Payments -> Nat]

\* However many settlements race, the ledger never disagrees with the gateway: what is
\* COMPLETED was paid, and what is FAILED can no longer be paid.
LedgerAgrees ==
  \A t \in Payments :
    /\ status[t] = "COMPLETED" => gateway[t] = "paid"
    /\ status[t] = "FAILED" => gateway[t] \notin {"open", "paid"}

\* Why LedgerAgrees holds: an outcome that is about to be written is the gateway's last
\* word, and no checkout is created, or shown to its payer, for a row that has failed.
OutcomeIsFinal ==
  \A p \in Settlers :
    /\ proc[p].pc \in {"read", "settle"} =>
         \/ proc[p].outcome = "paid" /\ gateway[proc[p].pay] = "paid"
         \/ proc[p].outcome = "failed" /\ gateway[proc[p].pay] \in {"failed", "expired"}
    /\ proc[p].pc = "commit" => gateway[proc[p].pay] = "paid"

RowBeforeCheckout ==
  /\ \A t \in Payments : status[t] = "NONE" => gateway[t] = "none"
  /\ \A p \in Clients :
       /\ proc[p].pc = "create" => status[proc[p].pay] = "PENDING" /\ gateway[proc[p].pay] = "none"
       /\ proc[p].pc \in {"link", "linkOrders", "mark"} =>
            /\ gateway[proc[p].pay] # "none"
            /\ status[proc[p].pay] = "FAILED" => gateway[proc[p].pay] \in {"failed", "expired"}
  /\ \A p, q \in Clients : proc[p].pc = "create" /\ proc[q].pc = "create" /\ p # q =>
                              proc[p].pay # proc[q].pay

\* Only checkouts that exist are asked about.
LinkedIsCreated ==
  /\ \A t \in Payments : linked[t] => gateway[t] # "none"
  /\ \A p \in Settlers :
       /\ proc[p].pc = "ask" => gateway[proc[p].pay] # "none"
       /\ \A t \in proc[p].todo : gateway[t] # "none"

LedgerInv == LedgerAgrees /\ OutcomeIsFinal /\ RowBeforeCheckout /\ LinkedIsCreated

\* "All state transitions are guarded by PENDING checks [...] racing polls converge to the
\* same result" (chargily-fulfill.ts:21): though the checks go by a row read earlier, no
\* settlement turns around what another one has settled meanwhile.
OutcomeKept ==
  [][\A t \in Payments : status[t] \in {"COMPLETED", "FAILED"} => status'[t] = status[t]]_vars

\* How far the race for a paid checkout goes (GrantedOnce below is what it breaks): each
\* settlement that is in flight at once may grant it, and then no later one does, however
\* often webhooks and polls come back.
GrantsBounded == \A t \in Payments : granted[t] <= Cardinality(Settlers)

\* Someone is about to approve order o as paid for by t.
ApprovalComing(o, t) ==
  \E p \in Settlers :
    /\ proc[p].pay = t
    /\ proc[p].pc = "hardware" \/ (proc[p].pc = "approve" /\ o \in proc[p].orders)

\* Unless a process has died, an order whose link is a paid checkout is approved or about
\* to be, whichever checkout took the link from whichever and however settlements race:
\* the approvals come after the payment is committed, from a later read of the links
\* (chargily-fulfill.ts:416).
PaidOrderApproved ==
  \A o \in Orders, t \in Payments :
    orderRef[o] = t /\ status[t] = "COMPLETED" /\ order[o] = "PENDING" =>
      ApprovalComing(o, t) \/ crashes > 0

\* A checkout that leaves an agency without its subscription.
Unsettling ==
  \E t \in Payments :
    \/ Kind[t] = "subscription" /\ status[t] = "PENDING"
    \/ Kind[t] # "sms" /\ status[t] = "FAILED"

\* "A crash mid-settle can no longer leave a COMPLETED payment with an INACTIVE agency"
\* (chargily-fulfill.ts:220): an agency that has paid for a term is ACTIVE, unless another
\* checkout of it has failed or a newer subscription is waiting to be paid.
PaidIsActive ==
  agency = "ACTIVE" \/ Unsettling \/
  \A t \in Payments : Kind[t] = "subscription" => status[t] # "COMPLETED"

\* When settlements do not overlap, every replay, retry and late answer keeps the promise
\* of an online purchase.
Promise == INSTANCE Purchase WITH paid <- {t \in Payments : gateway[t] = "paid"},
                                  outcome <- status, grants <- granted
KeepsPromise == Promise!Spec

\* A term that is paid for is added to those the agency has left when it is added.
TermStacked ==
  [][\A t \in Payments :
       Kind[t] = "subscription" /\ granted'[t] # granted[t] => terms' = terms + 1]_vars

\* Even if no webhook comes and nobody polls, a PENDING payment whose checkout was linked
\* is settled, though the gateway is often unreachable and older payments fill the
\* sweeper's batch.
PaymentResolved ==
  \A t \in Payments : status[t] = "PENDING" /\ linked[t] ~> status[t] # "PENDING"

(* What the repository says and the code does not do. *)

\* "Replayed webhooks and racing polls converge to the same result": one payment, one grant.
GrantedOnce == \A t \in Payments : granted[t] <= 1
==============================================================================
