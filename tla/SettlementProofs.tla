--------------------------- MODULE SettlementProofs ---------------------------
(* Proofs about the payments of module Settlement, for any number of payments, orders, *)
(* clients and settlements in flight.                                                   *)
EXTENDS Settlement, FiniteSetTheorems, TLAPS

\* What TypeOK asks of a process record beyond its fields.
AtWork(q) ==
  /\ q \in ProcRecord
  /\ q.pc \notin {"idle", "sweep"} => q.pay \in Payments
  /\ q.pc = "sweep" => q.todo # {}

\* A process that is done, and one whose payment is finished, have their type.
LEMMA DoneTyped ==
  ASSUME NEW q \in ProcRecord PROVE AtWork(Done(q)) /\ AtWork(IdleProc)
<1>1. IdleProc \in ProcRecord /\ IdleProc.pc = "idle"
    BY DEF IdleProc, ProcRecord
<1>2. CASE q.todo = {}
    BY <1>1, <1>2 DEF Done, AtWork
<1>3. CASE q.todo # {}
  <2> DEFINE x == [IdleProc EXCEPT !.pc = "sweep", !.todo = q.todo]
  <2>1. x \in ProcRecord /\ x.pc = "sweep" /\ x.todo = q.todo
      BY DEF IdleProc, ProcRecord
  <2> HIDE DEF x
  <2>2. AtWork(x)
      BY <1>3, <2>1 DEF AtWork
  <2>3. Done(q) = x
      BY <1>3 DEF Done, x
  <2> QED BY <1>1, <2>2, <2>3 DEF AtWork
<1> QED BY <1>2, <1>3

\* The types of processes, payment by payment, are those of TypeOK.
LEMMA ProcsTyped ==
  TypeOK => /\ \A p \in Procs : AtWork(proc[p])
            /\ DOMAIN proc = Procs
BY DEF TypeOK, AtWork

\* A step of one process that goes on with the record x keeps the types of the processes.
LEMMA MoveTyped ==
  ASSUME TypeOK, NEW p \in Procs, NEW x, AtWork(x), proc' = [proc EXCEPT ![p] = x]
  PROVE  /\ proc' \in [Procs -> ProcRecord]
         /\ \A q \in Procs : proc'[q].pc \notin {"idle", "sweep"} => proc'[q].pay \in Payments
         /\ \A q \in Procs : proc'[q].pc = "sweep" => proc'[q].todo # {}
BY DEF TypeOK, AtWork

\* A step that does nothing else keeps all types.
LEMMA OnlyMoveTyped ==
  ASSUME TypeOK, NEW p \in Procs, NEW x, AtWork(x), proc' = [proc EXCEPT ![p] = x],
         UNCHANGED <<ledger, orders, subscription, gateway, crashes, granted>>,
         attempts' \in 0 .. MaxAttempts
  PROVE  TypeOK'
<1>1. /\ proc' \in [Procs -> ProcRecord]
      /\ \A q \in Procs : proc'[q].pc \notin {"idle", "sweep"} => proc'[q].pay \in Payments
      /\ \A q \in Procs : proc'[q].pc = "sweep" => proc'[q].todo # {}
    BY MoveTyped
<1> QED BY <1>1 DEF TypeOK, ledger, orders, subscription

\* Every answer of the gateway leaves a process with its payment.
LEMMA AnsweredTyped ==
  ASSUME NEW q \in ProcRecord, q.pay \in Payments, NEW v \in {"paid", "pending", "failed"}
  PROVE  AtWork(Answered(q, v))
<1>1. CASE v = "pending"
    BY <1>1, DoneTyped DEF Answered
<1>2. CASE v # "pending"
    BY <1>2 DEF Answered, AtWork, ProcRecord
<1> QED BY <1>1, <1>2

\* What the gateway's status is normalized to.
LEMMA NormalizedTyped == \A t \in Payments : Normalized(t) \in {"paid", "pending", "failed"}
BY DEF Normalized

\* A sweep's payments are payments.
LEMMA CandidatesArePayments == Candidates \subseteq Payments
BY DEF Candidates, Oldest

\* What TypeOK asks of the other variables.
DataTyped ==
  /\ status \in [Payments -> {"NONE", "PENDING", "COMPLETED", "FAILED"}]
  /\ linked \in [Payments -> BOOLEAN]
  /\ age \in [Payments -> 0 .. 2]
  /\ order \in [Orders -> {"PENDING", "APPROVED"}]
  /\ orderRef \in [Orders -> Payments \cup {None}]
  /\ agency \in {"INACTIVE", "PENDING", "ACTIVE"} /\ terms \in Nat
  /\ gateway \in [Payments -> {"none", "created", "open", "paid", "failed", "expired"}]
  /\ attempts \in 0 .. MaxAttempts /\ crashes \in 0 .. MaxCrashes
  /\ granted \in [Payments -> Nat]

LEMMA StepTyped ==
  ASSUME TypeOK, NEW p \in Procs, NEW x, AtWork(x), proc' = [proc EXCEPT ![p] = x], DataTyped'
  PROVE  TypeOK'
<1>1. /\ proc' \in [Procs -> ProcRecord]
      /\ \A q \in Procs : proc'[q].pc \notin {"idle", "sweep"} => proc'[q].pay \in Payments
      /\ \A q \in Procs : proc'[q].pc = "sweep" => proc'[q].todo # {}
    BY MoveTyped
<1> QED BY <1>1 DEF TypeOK, DataTyped

\* Checkout creation keeps the types.
LEMMA ClientTyped ==
  ASSUME TypeOK, NEW p \in Clients, ClientStep(p) PROVE TypeOK'
<1> USE DEF ledger, orders, subscription, counts
<1>p. p \in Procs
    BY DEF Procs
<1>0. AtWork(proc[p]) /\ AtWork(IdleProc)
    BY <1>p, ProcsTyped, DoneTyped DEF AtWork
<1>1. ASSUME NEW t \in Payments, CreateRow(p, t) PROVE TypeOK'
  <2> DEFINE open == {o \in Items[t] : order[o] = "PENDING"}
             x == [IdleProc EXCEPT !.pc = "create", !.pay = t, !.orders = open]
  <2>1. Items[t] \subseteq Orders
      BY SettlementAssumption DEF SettlementAssumption
  <2>2. AtWork(x)
      BY <2>1 DEF AtWork, IdleProc, ProcRecord
  <2>3. proc' = [proc EXCEPT ![p] = x]
      BY <1>1 DEF CreateRow
  <2>4. DataTyped'
      BY <1>1 DEF CreateRow, TypeOK, DataTyped
  <2> HIDE DEF x
  <2> QED BY <1>p, <2>2, <2>3, <2>4, StepTyped
<1>2. ASSUME NEW pc \in {"link", "linkOrders", "mark"}, proc[p].pc \notin {"idle", "sweep"}
      PROVE  AtWork([proc[p] EXCEPT !.pc = pc])
    BY <1>0, <1>2 DEF AtWork, ProcRecord
<1>3. ASSUME CreateCheckout(p) PROVE TypeOK'
  <2>1. AtWork([proc[p] EXCEPT !.pc = "link"])
      BY <1>2, <1>3 DEF CreateCheckout
  <2>2. proc' = [proc EXCEPT ![p] = [proc[p] EXCEPT !.pc = "link"]]
      BY <1>3 DEF CreateCheckout
  <2>3. DataTyped'
      BY <1>3 DEF CreateCheckout, TypeOK, DataTyped
  <2> QED BY <1>p, <2>1, <2>2, <2>3, StepTyped
<1>4. ASSUME CreateRefused(p) PROVE TypeOK'
  <2>1. DataTyped'
      BY <1>4 DEF CreateRefused, TypeOK, DataTyped
  <2> QED BY <1>p, <1>0, <1>4, <2>1, StepTyped DEF CreateRefused
<1>5. ASSUME LinkRow(p) PROVE TypeOK'
  <2>1. AtWork([proc[p] EXCEPT !.pc = "linkOrders"])
      BY <1>2, <1>5 DEF LinkRow
  <2>2. proc' = [proc EXCEPT ![p] = [proc[p] EXCEPT !.pc = "linkOrders"]]
      BY <1>5 DEF LinkRow
  <2>3. DataTyped'
      BY <1>5 DEF LinkRow, TypeOK, DataTyped
  <2> QED BY <1>p, <2>1, <2>2, <2>3, StepTyped
<1>6. ASSUME LinkOrders(p) PROVE TypeOK'
  <2>1. AtWork([proc[p] EXCEPT !.pc = "mark"]) /\ proc[p].pay \in Payments
      BY <1>0, <1>2, <1>6 DEF LinkOrders, AtWork
  <2>2. proc' = [proc EXCEPT ![p] = [proc[p] EXCEPT !.pc = "mark"]]
      BY <1>6 DEF LinkOrders
  <2>3. DataTyped'
      BY <1>6, <2>1 DEF LinkOrders, TypeOK, DataTyped
  <2> QED BY <1>p, <2>1, <2>2, <2>3, StepTyped
<1>7. ASSUME AnswerCheckout(p) PROVE TypeOK'
  <2>1. DataTyped'
      BY <1>7 DEF AnswerCheckout, TypeOK, DataTyped
  <2> QED BY <1>p, <1>0, <1>7, <2>1, StepTyped DEF AnswerCheckout
<1> QED BY <1>1, <1>3, <1>4, <1>5, <1>6, <1>7 DEF ClientStep

\* Hearing of a payment, from outside or by a sweep, keeps the types.
LEMMA HearTyped ==
  ASSUME TypeOK, NEW p \in Settlers, Hear(p) \/ SweepRead(p) PROVE TypeOK'
<1> USE DEF Procs
<1>1. ASSUME NEW t \in Payments, NEW pc \in {"read", "ask"}, NEW v \in {"none", "paid", "failed"},
             Attempt(p, [IdleProc EXCEPT !.pc = pc, !.pay = t, !.outcome = v])
      PROVE  TypeOK'
  <2> DEFINE x == [IdleProc EXCEPT !.pc = pc, !.pay = t, !.outcome = v]
  <2>1. AtWork(x)
      BY DEF AtWork, IdleProc, ProcRecord
  <2>2. attempts' \in 0 .. MaxAttempts
      BY <1>1, SettlementAssumption DEF Attempt, TypeOK, SettlementAssumption
  <2> HIDE DEF x
  <2> QED BY <1>1, <2>1, <2>2, OnlyMoveTyped DEF Attempt, x
<1>2. ASSUME NEW t \in Payments, Webhook(p, t) PROVE TypeOK'
    BY <1>1, <1>2 DEF Webhook
<1>3. ASSUME NEW t \in Payments, Attempt(p, [IdleProc EXCEPT !.pc = "ask", !.pay = t])
      PROVE  TypeOK'
  <2> DEFINE x == [IdleProc EXCEPT !.pc = "ask", !.pay = t]
  <2>1. AtWork(x)
      BY DEF AtWork, IdleProc, ProcRecord
  <2>2. attempts' \in 0 .. MaxAttempts
      BY <1>3, SettlementAssumption DEF Attempt, TypeOK, SettlementAssumption
  <2> HIDE DEF x
  <2> QED BY <1>3, <2>1, <2>2, OnlyMoveTyped DEF Attempt, x
<1>4. ASSUME SweepRead(p) PROVE TypeOK'
  <2> DEFINE x == [IdleProc EXCEPT !.pc = "sweep", !.todo = Candidates]
  <2>1. Candidates \subseteq Payments /\ Candidates # {}
      BY <1>4, CandidatesArePayments DEF SweepRead
  <2>2. AtWork(x)
      BY <2>1 DEF AtWork, IdleProc, ProcRecord
  <2>3. attempts' \in 0 .. MaxAttempts
      BY <1>4 DEF SweepRead, TypeOK, counts
  <2> HIDE DEF x
  <2> QED BY <1>4, <2>2, <2>3, OnlyMoveTyped DEF SweepRead, counts, x
<1> QED BY <1>2, <1>3, <1>4 DEF Hear, Poll, Verify

\* So does asking the gateway, whether or not it answers.
LEMMA AskTyped ==
  ASSUME TypeOK, NEW p \in Settlers, AskGateway(p) \/ Unreachable(p) PROVE TypeOK'
<1> USE DEF ledger, orders, subscription, counts
<1>p. p \in Procs
    BY DEF Procs
<1>0. AtWork(proc[p]) /\ proc[p] \in ProcRecord
    BY <1>p, ProcsTyped DEF AtWork
<1>1. ASSUME Ask(p) PROVE TypeOK'
  <2>1. proc[p].pay \in Payments
      BY <1>0, <1>1 DEF AtWork, Ask
  <2>2. AtWork(Answered(proc[p], Normalized(proc[p].pay)))
      BY <1>0, <2>1, AnsweredTyped, NormalizedTyped
  <2>3. DataTyped'
      BY <1>1 DEF Ask, TypeOK, DataTyped
  <2> QED BY <1>p, <1>1, <2>2, <2>3, StepTyped DEF Ask
<1>2. ASSUME SweepExpire(p) PROVE TypeOK'
  <2> DEFINE x == [proc[p] EXCEPT !.pc = "read", !.outcome = "failed"]
  <2>1. AtWork(x)
      BY <1>0, <1>2 DEF AtWork, ProcRecord, SweepExpire
  <2>2. proc' = [proc EXCEPT ![p] = x]
      BY <1>p, <1>2 DEF SweepExpire, TypeOK, ProcRecord
  <2>3. DataTyped'
      BY <1>2 DEF SweepExpire, TypeOK, DataTyped
  <2> HIDE DEF x
  <2> QED BY <1>p, <2>1, <2>2, <2>3, StepTyped
<1>3. ASSUME NEW t \in Payments, SweepAsk(p, t) PROVE TypeOK'
  <2> DEFINE q == [IdleProc EXCEPT !.pay = t, !.todo = proc[p].todo \ {t}]
             x == SweepVerdict(q, t)
  <2>1. q \in ProcRecord /\ q.pay = t
      BY <1>0 DEF IdleProc, ProcRecord
  <2>2. AtWork([q EXCEPT !.pc = "expire"])
      BY <2>1 DEF AtWork, ProcRecord
  <2>3. AtWork(Answered(q, Normalized(t)))
    <3> HIDE DEF q
    <3> QED BY <2>1, AnsweredTyped, NormalizedTyped
  <2>4. AtWork(x)
    <3> HIDE DEF q
    <3> QED BY <2>2, <2>3 DEF SweepVerdict
  <2>5. proc' = [proc EXCEPT ![p] = x]
      BY <1>3 DEF SweepAsk
  <2>6. DataTyped'
      BY <1>3 DEF SweepAsk, TypeOK, DataTyped
  <2> HIDE DEF x
  <2> QED BY <1>p, <2>4, <2>5, <2>6, StepTyped
<1>4. ASSUME Unreachable(p) PROVE TypeOK'
  <2> DEFINE q == [proc[p] EXCEPT !.todo = {t \in @ : \E u \in @ : u < t}]
             x == Done(IF proc[p].pc # "sweep" THEN proc[p] ELSE q)
  <2>1. q \in ProcRecord
      BY <1>0 DEF ProcRecord
  <2>2. AtWork(x)
    <3> HIDE DEF q
    <3> QED BY <1>0, <2>1, DoneTyped
  <2>3. proc' = [proc EXCEPT ![p] = x]
      BY <1>4 DEF Unreachable
  <2>4. DataTyped'
      BY <1>4 DEF Unreachable, TypeOK, DataTyped
  <2> HIDE DEF x
  <2> QED BY <1>p, <2>2, <2>3, <2>4, StepTyped
<1> QED BY <1>1, <1>2, <1>3, <1>4 DEF AskGateway

\* So does every step of a settlement.
LEMMA SettleTyped ==
  ASSUME TypeOK, NEW p \in Settlers, SettleStep(p) PROVE TypeOK'
<1> USE DEF ledger, orders, subscription, counts
<1>p. p \in Procs
    BY DEF Procs
<1>0. AtWork(proc[p]) /\ proc[p] \in ProcRecord /\ AtWork(Done(proc[p]))
    BY <1>p, ProcsTyped, DoneTyped DEF AtWork
<1>1. ASSUME ReadRow(p) PROVE TypeOK'
  <2>1. agency \in {"none", "INACTIVE", "PENDING", "ACTIVE"} /\ proc[p].pay \in Payments
      BY <1>0, <1>1 DEF TypeOK, AtWork, ReadRow
  <2>2. AtWork([proc[p] EXCEPT !.pc = "settle", !.seen = agency])
      BY <1>0, <2>1 DEF AtWork, ProcRecord
  <2>3. AtWork(AfterRow(proc[p]))
    <3>1. AtWork([proc[p] EXCEPT !.pc = "hardware"])
        BY <1>0, <2>1 DEF AtWork, ProcRecord
    <3> QED BY <1>0, <3>1 DEF AfterRow
  <2>4. DataTyped'
      BY <1>1 DEF ReadRow, TypeOK, DataTyped
  <2> QED BY <1>p, <1>1, <2>2, <2>3, <2>4, StepTyped DEF ReadRow
<1>2. ASSUME PaidBegin(p) PROVE TypeOK'
  <2> DEFINE x == [proc[p] EXCEPT !.pc = "commit", !.base = terms]
  <2>1. terms \in Nat
      BY DEF TypeOK
  <2>2. AtWork(x)
      BY <1>0, <1>2, <2>1 DEF AtWork, ProcRecord, PaidBegin
  <2>3. proc' = [proc EXCEPT ![p] = x]
      BY <1>p, <1>2 DEF PaidBegin, TypeOK, ProcRecord
  <2>4. DataTyped'
      BY <1>2 DEF PaidBegin, TypeOK, DataTyped
  <2> HIDE DEF x
  <2> QED BY <1>p, <2>2, <2>3, <2>4, StepTyped
<1>3. ASSUME PaidCommit(p) PROVE TypeOK'
  <2> DEFINE x == [proc[p] EXCEPT !.pc = "hardware"]
  <2>1. AtWork(x)
      BY <1>0, <1>3 DEF AtWork, ProcRecord, PaidCommit
  <2>2. proc' = [proc EXCEPT ![p] = x]
      BY <1>3 DEF PaidCommit
  <2>3. Stacked(proc[p]) \in Nat
      BY <1>0 DEF Stacked, ProcRecord
  <2>4. proc[p].pay \in Payments
      BY <1>0, <1>3 DEF AtWork, PaidCommit
  <2>5. agency' \in {"INACTIVE", "PENDING", "ACTIVE"} /\ terms' \in Nat
      BY <1>3, <2>3 DEF PaidCommit, TypeOK
  <2>6. granted' \in [Payments -> Nat]
      BY <1>3, <2>4 DEF PaidCommit, TypeOK
  <2>7. DataTyped'
      BY <1>3, <2>5, <2>6 DEF PaidCommit, TypeOK, DataTyped
  <2> HIDE DEF x
  <2> QED BY <1>p, <2>1, <2>2, <2>7, StepTyped
<1>4. ASSUME FailedCommit(p) PROVE TypeOK'
  <2>1. DataTyped'
      BY <1>4 DEF FailedCommit, TypeOK, DataTyped
  <2> QED BY <1>p, <1>0, <1>4, <2>1, StepTyped DEF FailedCommit
<1>5. ASSUME ReadOrders(p) PROVE TypeOK'
  <2> DEFINE mine == {o \in Orders : orderRef[o] = proc[p].pay /\ order[o] = "PENDING"}
  <2>1. AtWork([proc[p] EXCEPT !.pc = "approve", !.orders = mine])
      BY <1>0, <1>5 DEF AtWork, ProcRecord, ReadOrders
  <2>2. DataTyped'
      BY <1>5 DEF ReadOrders, TypeOK, DataTyped
  <2> QED BY <1>p, <1>0, <1>5, <2>1, <2>2, StepTyped DEF ReadOrders
<1>6. ASSUME NEW o \in Orders, ApproveOrder(p, o) PROVE TypeOK'
  <2>1. AtWork([proc[p] EXCEPT !.orders = @ \ {o}])
      BY <1>0, <1>6 DEF AtWork, ProcRecord, ApproveOrder
  <2>2. DataTyped'
      BY <1>6 DEF ApproveOrder, TypeOK, DataTyped
  <2> QED BY <1>p, <1>0, <1>6, <2>1, <2>2, StepTyped DEF ApproveOrder
<1> QED BY <1>1, <1>2, <1>3, <1>4, <1>5, <1>6 DEF SettleStep

\* So do the gateway, the clock and a crash.
LEMMA WorldTyped ==
  ASSUME TypeOK,
         \/ \E t \in Payments : Decide(t, "paid") \/ Decide(t, "failed")
         \/ \E p \in Procs : Crash(p)
         \/ Tick
  PROVE  TypeOK'
<1> USE DEF ledger, orders, subscription, counts
<1>1. ASSUME NEW t \in Payments, Decide(t, "paid") \/ Decide(t, "failed") PROVE TypeOK'
    BY <1>1 DEF Decide, TypeOK
<1>2. ASSUME NEW p \in Procs, Crash(p) PROVE TypeOK'
  <2>1. AtWork(IdleProc)
      BY ProcsTyped, DoneTyped DEF AtWork
  <2>2. DataTyped'
      BY <1>2, SettlementAssumption DEF Crash, TypeOK, DataTyped, SettlementAssumption
  <2> QED BY <1>2, <2>1, <2>2, StepTyped DEF Crash
<1>3. ASSUME Tick PROVE TypeOK'
    BY <1>3 DEF Tick, TypeOK
<1> QED BY <1>1, <1>2, <1>3

\* Every variable of the payments keeps its type, and a process at work has its payment, in
\* every behaviour.
THEOREM TypeCorrect == Spec => []TypeOK
<1>1. Init => TypeOK
  <2>1. IdleProc \in ProcRecord /\ IdleProc.pc = "idle"
      BY DEF IdleProc, ProcRecord
  <2> QED BY <2>1, SettlementAssumption DEF SettlementAssumption, Init, TypeOK
<1>2. TypeOK /\ UNCHANGED vars => TypeOK'
    BY DEF TypeOK, vars
<1>3. TypeOK /\ Next => TypeOK'
    BY ClientTyped, HearTyped, AskTyped, SettleTyped, WorldTyped DEF Next
<1> QED BY <1>1, <1>2, <1>3, PTL DEF Spec
-----------------------------------------------------------------------------
(* The ledger and the gateway. *)

\* The parts of LedgerInv that speak of one process.
SettlerKnows(q) ==
  /\ q.pc \in {"read", "settle"} =>
       \/ q.outcome = "paid" /\ gateway[q.pay] = "paid"
       \/ q.outcome = "failed" /\ gateway[q.pay] \in {"failed", "expired"}
  /\ q.pc = "commit" => gateway[q.pay] = "paid"
  /\ q.pc = "ask" => gateway[q.pay] # "none"
  /\ \A t \in q.todo : gateway[t] # "none"

ClientKnows(q) ==
  /\ q.pc = "create" => status[q.pay] = "PENDING" /\ gateway[q.pay] = "none"
  /\ q.pc \in {"link", "linkOrders", "mark"} =>
       /\ gateway[q.pay] # "none"
       /\ status[q.pay] = "FAILED" => gateway[q.pay] \in {"failed", "expired"}

LEMMA AllKnow ==
  LedgerInv => /\ \A p \in Settlers : SettlerKnows(proc[p])
               /\ \A p \in Clients : ClientKnows(proc[p])
BY DEF LedgerInv, OutcomeIsFinal, LinkedIsCreated, RowBeforeCheckout, SettlerKnows, ClientKnows

\* A process that is done, or waits for its next payment, knows no more than it did.
LEMMA DoneKnows ==
  ASSUME NEW q, \A t \in q.todo : gateway[t] # "none"
  PROVE  SettlerKnows(Done(q)) /\ SettlerKnows(IdleProc)
<1>1. SettlerKnows(IdleProc)
    BY DEF SettlerKnows, IdleProc
<1>2. CASE q.todo = {}
    BY <1>1, <1>2 DEF Done
<1>3. CASE q.todo # {}
  <2>1. Done(q).pc = "sweep" /\ Done(q).todo = q.todo
      BY <1>3 DEF Done, IdleProc
  <2> QED BY <1>1, <2>1 DEF SettlerKnows
<1> QED BY <1>2, <1>3

\* A settlement that only moves on to the record x keeps the ledger's invariant if what x
\* knows is so: clients are other processes.
LEMMA SettlerMoves ==
  ASSUME TypeOK, LedgerInv, NEW p \in Settlers, NEW x, SettlerKnows(x),
         proc' = [proc EXCEPT ![p] = x], UNCHANGED <<status, linked, gateway>>
  PROVE  LedgerInv'
<1>1. \A c \in Clients : proc'[c] = proc[c]
    BY SettlementAssumption DEF SettlementAssumption, TypeOK
<1>2. \A q \in Settlers : proc'[q] = IF q = p THEN x ELSE proc[q]
    BY DEF TypeOK, Procs
<1>3. LedgerAgrees'
    BY DEF LedgerInv, LedgerAgrees
<1>4. OutcomeIsFinal' /\ LinkedIsCreated'
    BY <1>2 DEF LedgerInv, OutcomeIsFinal, LinkedIsCreated, SettlerKnows
<1>5. RowBeforeCheckout'
    BY <1>1 DEF LedgerInv, RowBeforeCheckout
<1> QED BY <1>3, <1>4, <1>5 DEF LedgerInv

\* What a settlement has heard of is final: it comes from the gateway, not from a guess.
LEMMA AnsweredKnows ==
  ASSUME TypeOK, NEW q \in ProcRecord, q.pay \in Payments, gateway[q.pay] # "none",
         \A t \in q.todo : gateway[t] # "none"
  PROVE  SettlerKnows(Answered(q, Normalized(q.pay)))
<1>1. CASE Normalized(q.pay) = "pending"
    BY <1>1, DoneKnows DEF Answered
<1>2. CASE Normalized(q.pay) # "pending"
  <2> DEFINE x == [q EXCEPT !.pc = "read", !.outcome = Normalized(q.pay)]
  <2>1. x.pc = "read" /\ x.pay = q.pay /\ x.outcome = Normalized(q.pay) /\ x.todo = q.todo
      BY DEF ProcRecord
  <2>2. Answered(q, Normalized(q.pay)) = x
      BY <1>2 DEF Answered
  <2> HIDE DEF x
  <2>3. gateway[q.pay] \in {"created", "open", "paid", "failed", "expired"}
      BY DEF TypeOK
  <2>4. \/ Normalized(q.pay) = "paid" /\ gateway[q.pay] = "paid"
        \/ Normalized(q.pay) = "failed" /\ gateway[q.pay] \in {"failed", "expired"}
      BY <1>2, <2>3 DEF Normalized, Pending
  <2> QED BY <2>1, <2>2, <2>4 DEF SettlerKnows
<1> QED BY <1>1, <1>2

\* Hearing of a payment keeps the ledger's invariant.
LEMMA HearStep ==
  ASSUME TypeOK, LedgerInv, NEW p \in Settlers, Hear(p) \/ SweepRead(p) PROVE LedgerInv'
<1> USE DEF ledger
<1>1. ASSUME NEW t \in Payments, Webhook(p, t) PROVE LedgerInv'
  <2> DEFINE x == [IdleProc EXCEPT !.pc = "read", !.pay = t, !.outcome = gateway[t]]
  <2>1. SettlerKnows(x)
      BY <1>1 DEF Webhook, SettlerKnows, IdleProc
  <2>2. proc' = [proc EXCEPT ![p] = x] /\ UNCHANGED <<status, linked, gateway>>
      BY <1>1 DEF Webhook, Attempt
  <2> HIDE DEF x
  <2> QED BY <2>1, <2>2, SettlerMoves
<1>2. ASSUME NEW t \in Payments, Poll(p, t) \/ Verify(p, t) PROVE LedgerInv'
  <2> DEFINE x == [IdleProc EXCEPT !.pc = "ask", !.pay = t]
  <2>1. gateway[t] # "none"
      BY <1>2 DEF Poll, Verify, LedgerInv, LinkedIsCreated
  <2>2. SettlerKnows(x)
      BY <2>1 DEF SettlerKnows, IdleProc
  <2>3. proc' = [proc EXCEPT ![p] = x] /\ UNCHANGED <<status, linked, gateway>>
      BY <1>2 DEF Poll, Verify, Attempt
  <2> HIDE DEF x
  <2> QED BY <2>2, <2>3, SettlerMoves
<1>3. ASSUME SweepRead(p) PROVE LedgerInv'
  <2> DEFINE x == [IdleProc EXCEPT !.pc = "sweep", !.todo = Candidates]
  <2>1. \A t \in Candidates : gateway[t] # "none"
      BY DEF Candidates, Oldest, LedgerInv, LinkedIsCreated
  <2>2. SettlerKnows(x)
      BY <2>1 DEF SettlerKnows, IdleProc
  <2>3. proc' = [proc EXCEPT ![p] = x] /\ UNCHANGED <<status, linked, gateway>>
      BY <1>3 DEF SweepRead
  <2> HIDE DEF x
  <2> QED BY <2>2, <2>3, SettlerMoves
<1> QED BY <1>1, <1>2, <1>3 DEF Hear

\* A checkout that is still pending has no outcome anybody has heard of, and its row is
\* neither COMPLETED nor FAILED once its payer may have seen it.
LEMMA PendingIsUnheard ==
  ASSUME LedgerInv, NEW t \in Payments, Pending(t)
  PROVE  /\ status[t] \notin {"NONE", "COMPLETED"}
         /\ gateway[t] = "open" => status[t] # "FAILED"
         /\ \A q \in Settlers : proc[q].pc \in {"read", "settle", "commit"} => proc[q].pay # t
         /\ \A q \in Clients : proc[q].pc = "create" => proc[q].pay # t
BY DEF LedgerInv, LedgerAgrees, OutcomeIsFinal, RowBeforeCheckout, Pending

\* The gateway's verdict keeps the invariant.
LEMMA DecideStep ==
  ASSUME TypeOK, LedgerInv, NEW t \in Payments, NEW v \in {"paid", "failed"}, Decide(t, v)
  PROVE  LedgerInv'
<1>1. /\ Pending(t) /\ gateway[t] = "open" /\ status[t] \notin {"NONE", "COMPLETED", "FAILED"}
      /\ \A q \in Settlers : proc[q].pc \in {"read", "settle", "commit"} => proc[q].pay # t
      /\ \A q \in Clients : proc[q].pc = "create" => proc[q].pay # t
    BY PendingIsUnheard DEF Decide, Pending
<1>2. /\ gateway'[t] = v /\ UNCHANGED <<status, linked, proc>>
      /\ \A u \in Payments : u # t => gateway'[u] = gateway[u]
      /\ \A u : gateway[u] # "none" /\ u \in Payments => gateway'[u] # "none"
    BY DEF Decide, ledger, TypeOK
<1>3. /\ \A q \in Procs : proc[q].pc \notin {"idle", "sweep"} => proc[q].pay \in Payments
      /\ \A q \in Procs : proc[q].todo \subseteq Payments
    BY DEF TypeOK, ProcRecord
<1>4. LedgerAgrees'
    BY <1>1, <1>2 DEF LedgerInv, LedgerAgrees
<1>5. OutcomeIsFinal'
    BY <1>1, <1>2, <1>3 DEF LedgerInv, OutcomeIsFinal, Procs
<1>6. RowBeforeCheckout'
    BY <1>1, <1>2, <1>3 DEF LedgerInv, RowBeforeCheckout, Procs
<1>7. LinkedIsCreated'
    BY <1>2, <1>3 DEF LedgerInv, LinkedIsCreated, Procs
<1> QED BY <1>4, <1>5, <1>6, <1>7 DEF LedgerInv

\* So does a checkout that the sweeper expires.
LEMMA ExpireStep ==
  ASSUME TypeOK, LedgerInv, NEW p \in Settlers, SweepExpire(p) PROVE LedgerInv'
<1> DEFINE t == proc[p].pay
<1>0. /\ \A q \in Procs : proc[q].pc \notin {"idle", "sweep"} => proc[q].pay \in Payments
      /\ \A q \in Procs : proc[q].todo \subseteq Payments
    BY DEF TypeOK, ProcRecord
<1>1. t \in Payments /\ Pending(t)
    BY <1>0 DEF SweepExpire, Procs
<1> HIDE DEF t
<1>2. /\ status[t] \notin {"NONE", "COMPLETED"}
      /\ \A q \in Settlers : proc[q].pc \in {"read", "settle", "commit"} => proc[q].pay # t
      /\ \A q \in Clients : proc[q].pc = "create" => proc[q].pay # t
    BY <1>1, PendingIsUnheard
<1>3. /\ gateway'[t] = "expired" /\ UNCHANGED <<status, linked>>
      /\ \A u \in Payments : u # t => gateway'[u] = gateway[u]
      /\ \A u : gateway[u] # "none" /\ u \in Payments => gateway'[u] # "none"
    BY <1>1 DEF SweepExpire, ledger, TypeOK, t
<1>4. /\ \A q \in Settlers : q # p => proc'[q] = proc[q]
      /\ proc'[p].pc = "read" /\ proc'[p].outcome = "failed" /\ proc'[p].pay = t
      /\ proc'[p].todo = proc[p].todo
    BY DEF SweepExpire, TypeOK, Procs, ProcRecord, t
<1>5. \A q \in Clients : proc'[q] = proc[q]
    BY SettlementAssumption DEF SettlementAssumption, SweepExpire, TypeOK, Procs
<1>6. LedgerAgrees'
    BY <1>2, <1>3 DEF LedgerInv, LedgerAgrees
<1>7. OutcomeIsFinal'
    BY <1>0, <1>2, <1>3, <1>4 DEF LedgerInv, OutcomeIsFinal, Procs
<1>8. RowBeforeCheckout'
    BY <1>0, <1>2, <1>3, <1>5 DEF LedgerInv, RowBeforeCheckout, Procs
<1>9. LinkedIsCreated'
    BY <1>0, <1>3, <1>4 DEF LedgerInv, LinkedIsCreated, Procs
<1> QED BY <1>6, <1>7, <1>8, <1>9 DEF LedgerInv

\* Asking the gateway keeps the invariant, whether or not it answers.
LEMMA AskStep ==
  ASSUME TypeOK, LedgerInv, NEW p \in Settlers, AskGateway(p) \/ Unreachable(p) PROVE LedgerInv'
<1> USE DEF ledger
<1>0. /\ proc[p] \in ProcRecord /\ AtWork(proc[p])
      /\ \A t \in proc[p].todo : gateway[t] # "none" /\ t \in Payments
    BY ProcsTyped DEF AtWork, Procs, LedgerInv, LinkedIsCreated, ProcRecord
<1>1. ASSUME Ask(p) PROVE LedgerInv'
  <2>1. proc[p].pay \in Payments /\ gateway[proc[p].pay] # "none"
      BY <1>0, <1>1 DEF AtWork, Ask, LedgerInv, LinkedIsCreated
  <2>2. SettlerKnows(Answered(proc[p], Normalized(proc[p].pay)))
      BY <1>0, <2>1, AnsweredKnows
  <2> QED BY <1>1, <2>2, SettlerMoves DEF Ask
<1>2. ASSUME NEW t \in Payments, SweepAsk(p, t) PROVE LedgerInv'
  <2> DEFINE q == [IdleProc EXCEPT !.pay = t, !.todo = proc[p].todo \ {t}]
             x == SweepVerdict(q, t)
  <2>1. q \in ProcRecord /\ q.pay = t /\ q.todo \subseteq proc[p].todo
      BY <1>0 DEF IdleProc, ProcRecord
  <2>2. gateway[t] # "none"
      BY <1>0, <1>2 DEF SweepAsk
  <2>3. SettlerKnows(Answered(q, Normalized(t)))
    <3> HIDE DEF q
    <3> QED BY <1>0, <2>1, <2>2, AnsweredKnows
  <2>4. SettlerKnows([q EXCEPT !.pc = "expire"])
    <3> DEFINE e == [q EXCEPT !.pc = "expire"]
    <3>1. e.pc = "expire" /\ e.todo = q.todo
        BY DEF IdleProc
    <3> QED BY <1>0, <2>1, <3>1 DEF SettlerKnows
  <2>5. SettlerKnows(x)
    <3> HIDE DEF q
    <3> QED BY <2>3, <2>4 DEF SweepVerdict
  <2>6. proc' = [proc EXCEPT ![p] = x] /\ UNCHANGED <<status, linked, gateway>>
      BY <1>2 DEF SweepAsk
  <2> HIDE DEF x
  <2> QED BY <2>5, <2>6, SettlerMoves
<1>3. ASSUME Unreachable(p) PROVE LedgerInv'
  <2> DEFINE q == [proc[p] EXCEPT !.todo = {t \in @ : \E u \in @ : u < t}]
             x == Done(IF proc[p].pc # "sweep" THEN proc[p] ELSE q)
  <2>1. q.todo \subseteq proc[p].todo
      BY <1>0 DEF ProcRecord
  <2>2. SettlerKnows(x)
    <3> HIDE DEF q
    <3> QED BY <1>0, <2>1, DoneKnows
  <2>3. proc' = [proc EXCEPT ![p] = x] /\ UNCHANGED <<status, linked, gateway>>
      BY <1>3 DEF Unreachable
  <2> HIDE DEF x
  <2> QED BY <2>2, <2>3, SettlerMoves
<1> QED BY <1>1, <1>2, <1>3, ExpireStep DEF AskGateway

\* So does a settlement: what it writes is what it has heard of.
LEMMA SettleLedgerStep ==
  ASSUME TypeOK, LedgerInv, NEW p \in Settlers, SettleStep(p) PROVE LedgerInv'
<1> USE DEF ledger
<1> DEFINE t == proc[p].pay
<1>0. /\ proc[p] \in ProcRecord /\ AtWork(proc[p]) /\ SettlerKnows(proc[p])
      /\ SettlerKnows(Done(proc[p])) /\ \A u \in proc[p].todo : gateway[u] # "none"
      /\ \A q \in Procs : proc[q].pc \notin {"idle", "sweep"} => proc[q].pay \in Payments
  <2>1. proc[p] \in ProcRecord /\ AtWork(proc[p])
      BY ProcsTyped DEF AtWork, Procs
  <2>2. SettlerKnows(proc[p])
      BY AllKnow
  <2>3. \A u \in proc[p].todo : gateway[u] # "none"
      BY <2>2 DEF SettlerKnows
  <2> QED BY <2>1, <2>2, <2>3, DoneKnows DEF TypeOK
<1>1. ASSUME NEW x, x.pc \in {"hardware", "approve"}, x.todo = proc[p].todo
      PROVE  SettlerKnows(x)
    BY <1>0, <1>1 DEF SettlerKnows
<1>2. ASSUME ReadRow(p) PROVE LedgerInv'
  <2>1. SettlerKnows([proc[p] EXCEPT !.pc = "settle", !.seen = agency])
    <3> DEFINE x == [proc[p] EXCEPT !.pc = "settle", !.seen = agency]
    <3>1. /\ x.pc = "settle" /\ x.pay = proc[p].pay /\ x.outcome = proc[p].outcome
          /\ x.todo = proc[p].todo
        BY <1>0 DEF ProcRecord
    <3> HIDE DEF x
    <3> QED BY <1>0, <1>2, <3>1 DEF SettlerKnows, ReadRow
  <2>2. SettlerKnows(AfterRow(proc[p]))
    <3> DEFINE x == [proc[p] EXCEPT !.pc = "hardware"]
    <3>1. x.pc = "hardware" /\ x.todo = proc[p].todo
        BY <1>0 DEF ProcRecord
    <3>2. SettlerKnows(x)
      <4> HIDE DEF x
      <4> QED BY <1>1, <3>1
    <3> QED BY <1>0, <3>2 DEF AfterRow
  <2> QED BY <1>2, <2>1, <2>2, SettlerMoves DEF ReadRow
<1>3. ASSUME PaidBegin(p) PROVE LedgerInv'
  <2> DEFINE x == [proc[p] EXCEPT !.pc = "commit", !.base = terms]
  <2>1. x.pc = "commit" /\ x.pay = proc[p].pay /\ x.todo = proc[p].todo
      BY <1>0 DEF ProcRecord
  <2>2. proc' = [proc EXCEPT ![p] = x] /\ UNCHANGED <<status, linked, gateway>>
      BY <1>3 DEF PaidBegin, TypeOK, Procs, ProcRecord
  <2> HIDE DEF x
  <2>3. SettlerKnows(x)
      BY <1>0, <1>3, <2>1 DEF SettlerKnows, PaidBegin
  <2> QED BY <2>2, <2>3, SettlerMoves
<1>4. ASSUME PaidCommit(p) PROVE LedgerInv'
  <2>1. t \in Payments /\ gateway[t] = "paid"
      BY <1>0, <1>4 DEF AtWork, SettlerKnows, PaidCommit
  <2>2. /\ status'[t] = "COMPLETED" /\ UNCHANGED <<linked, gateway>>
        /\ \A u \in Payments : u # t => status'[u] = status[u]
      BY <1>4, <2>1 DEF PaidCommit, TypeOK
  <2>3. /\ \A q \in Settlers : q # p => proc'[q] = proc[q]
        /\ proc'[p].pc = "hardware" /\ proc'[p].todo = proc[p].todo
      BY <1>0, <1>4 DEF PaidCommit, TypeOK, Procs, ProcRecord
  <2>4. \A q \in Clients : proc'[q] = proc[q]
      BY <1>4, SettlementAssumption DEF SettlementAssumption, PaidCommit, TypeOK, Procs
  <2> HIDE DEF t
  <2>5. LedgerAgrees'
      BY <2>1, <2>2 DEF LedgerInv, LedgerAgrees
  <2>6. OutcomeIsFinal' /\ LinkedIsCreated'
      BY <2>2, <2>3 DEF LedgerInv, OutcomeIsFinal, LinkedIsCreated
  <2>7. RowBeforeCheckout'
      BY <1>0, <2>1, <2>2, <2>4 DEF LedgerInv, RowBeforeCheckout, Procs
  <2> QED BY <2>5, <2>6, <2>7 DEF LedgerInv
<1>5. ASSUME FailedCommit(p) PROVE LedgerInv'
  <2>1. t \in Payments /\ gateway[t] \in {"failed", "expired"}
      BY <1>0, <1>5 DEF AtWork, SettlerKnows, FailedCommit
  <2>2. /\ status'[t] = "FAILED" /\ UNCHANGED <<linked, gateway>>
        /\ \A u \in Payments : u # t => status'[u] = status[u]
      BY <1>5, <2>1 DEF FailedCommit, TypeOK
  <2>3. /\ \A q \in Settlers : q # p => proc'[q] = proc[q]
        /\ proc'[p] = Done(proc[p])
      BY <1>5 DEF FailedCommit, TypeOK, Procs
  <2>4. \A q \in Clients : proc'[q] = proc[q]
      BY <1>5, SettlementAssumption DEF SettlementAssumption, FailedCommit, TypeOK, Procs
  <2> HIDE DEF t
  <2>5. LedgerAgrees'
      BY <2>1, <2>2 DEF LedgerInv, LedgerAgrees
  <2>6. OutcomeIsFinal' /\ LinkedIsCreated'
      BY <1>0, <2>2, <2>3 DEF LedgerInv, OutcomeIsFinal, LinkedIsCreated, SettlerKnows
  <2>7. RowBeforeCheckout'
      BY <1>0, <2>1, <2>2, <2>4 DEF LedgerInv, RowBeforeCheckout, Procs
  <2> QED BY <2>5, <2>6, <2>7 DEF LedgerInv
<1>6. ASSUME ReadOrders(p) PROVE LedgerInv'
  <2> DEFINE mine == {o \in Orders : orderRef[o] = proc[p].pay /\ order[o] = "PENDING"}
             x == [proc[p] EXCEPT !.pc = "approve", !.orders = mine]
  <2>1. x.pc = "approve" /\ x.todo = proc[p].todo
      BY <1>0 DEF ProcRecord
  <2>2. SettlerKnows(x)
    <3> HIDE DEF x
    <3> QED BY <1>1, <2>1
  <2> QED BY <1>0, <1>6, <2>2, SettlerMoves DEF ReadOrders
<1>7. ASSUME NEW o \in Orders, ApproveOrder(p, o) PROVE LedgerInv'
  <2> DEFINE x == [proc[p] EXCEPT !.orders = @ \ {o}]
  <2>1. x.pc = "approve" /\ x.todo = proc[p].todo
      BY <1>0, <1>7 DEF ProcRecord, ApproveOrder
  <2>2. SettlerKnows(x)
    <3> HIDE DEF x
    <3> QED BY <1>1, <2>1
  <2> QED BY <1>0, <1>7, <2>2, SettlerMoves DEF ApproveOrder
<1> QED BY <1>2, <1>3, <1>4, <1>5, <1>6, <1>7 DEF SettleStep

\* A client that only moves on to the record x keeps the invariant too.
LEMMA ClientMoves ==
  ASSUME TypeOK, LedgerInv, NEW p \in Clients, NEW x, ClientKnows(x), x.pc # "create",
         proc' = [proc EXCEPT ![p] = x], UNCHANGED <<status, gateway>>,
         \A t \in Payments : linked'[t] => gateway[t] # "none"
  PROVE  LedgerInv'
<1>1. \A c \in Settlers : proc'[c] = proc[c]
    BY SettlementAssumption DEF SettlementAssumption, TypeOK
<1>2. \A q \in Clients : proc'[q] = IF q = p THEN x ELSE proc[q]
    BY DEF TypeOK, Procs
<1>3. LedgerAgrees'
    BY DEF LedgerInv, LedgerAgrees
<1>4. OutcomeIsFinal' /\ LinkedIsCreated'
    BY <1>1 DEF LedgerInv, OutcomeIsFinal, LinkedIsCreated
<1>5. RowBeforeCheckout'
    BY <1>2 DEF LedgerInv, RowBeforeCheckout, ClientKnows
<1> QED BY <1>3, <1>4, <1>5 DEF LedgerInv

\* Checkout creation keeps it: the row comes before the checkout, and one client creates it.
LEMMA ClientLedgerStep ==
  ASSUME TypeOK, LedgerInv, NEW p \in Clients, ClientStep(p) PROVE LedgerInv'
<1> USE DEF ledger
<1> DEFINE t == proc[p].pay
<1>0. /\ p \in Procs /\ proc[p] \in ProcRecord /\ ClientKnows(proc[p])
      /\ \A q \in Procs : proc[q].pc \notin {"idle", "sweep"} => proc[q].pay \in Payments
      /\ \A q \in Procs : proc[q].todo \subseteq Payments
    BY AllKnow DEF TypeOK, Procs, ProcRecord
<1>i. ClientKnows(IdleProc) /\ IdleProc.pc # "create"
    BY DEF ClientKnows, IdleProc
<1>l. \A u \in Payments : linked[u] => gateway[u] # "none"
    BY DEF LedgerInv, LinkedIsCreated
<1>1. ASSUME NEW u \in Payments, CreateRow(p, u) PROVE LedgerInv'
  <2>1. gateway[u] = "none" /\ status[u] = "NONE"
      BY <1>1 DEF CreateRow, LedgerInv, RowBeforeCheckout
  <2>2. /\ status'[u] = "PENDING" /\ UNCHANGED <<linked, gateway>>
        /\ \A v \in Payments : v # u => status'[v] = status[v]
      BY <1>1 DEF CreateRow, TypeOK
  <2>3. /\ \A q \in Clients : q # p => proc'[q] = proc[q]
        /\ proc'[p].pc = "create" /\ proc'[p].pay = u
      BY <1>0, <1>1 DEF CreateRow, TypeOK, Procs, IdleProc
  <2>4. \A q \in Settlers : proc'[q] = proc[q]
      BY <1>1, SettlementAssumption DEF SettlementAssumption, CreateRow, TypeOK, Procs
  <2>5. LedgerAgrees'
      BY <2>1, <2>2 DEF LedgerInv, LedgerAgrees
  <2>6. OutcomeIsFinal' /\ LinkedIsCreated'
      BY <2>2, <2>4 DEF LedgerInv, OutcomeIsFinal, LinkedIsCreated
  <2>7. \A q \in Clients : q # p /\ proc[q].pc \in {"create", "link", "linkOrders", "mark"} =>
            proc[q].pay \in Payments /\ proc[q].pay # u
      BY <1>0, <2>1 DEF LedgerInv, RowBeforeCheckout, Procs
  <2>8. RowBeforeCheckout'
      BY <1>0, <2>1, <2>2, <2>3, <2>7 DEF LedgerInv, RowBeforeCheckout, Procs
  <2> QED BY <2>5, <2>6, <2>8 DEF LedgerInv
<1>2. ASSUME proc[p].pc = "create",
             /\ \A u \in Payments : u # t => gateway'[u] = gateway[u] /\ status'[u] = status[u]
             /\ UNCHANGED linked /\ status'[t] \in {"PENDING", "FAILED"}
             /\ gateway'[t] \in {"none", "created"}
             /\ \A q \in Procs : q # p => proc'[q] = proc[q]
             /\ \/ proc'[p] = IdleProc
                \/ /\ proc'[p].pc = "link" /\ proc'[p].pay = t
                   /\ gateway'[t] = "created" /\ status'[t] = "PENDING"
      PROVE  LedgerInv'
  <2>1. t \in Payments /\ gateway[t] = "none" /\ status[t] = "PENDING"
      BY <1>0, <1>2 DEF ClientKnows
  <2>2. \A q \in Settlers : proc'[q] = proc[q]
      BY <1>2, SettlementAssumption DEF SettlementAssumption, Procs
  <2>3. \A q \in Clients : q # p /\ proc[q].pc \in {"create", "link", "linkOrders", "mark"} =>
            proc[q].pay \in Payments /\ proc[q].pay # t
      BY <1>0, <1>2, <2>1 DEF LedgerInv, RowBeforeCheckout, Procs
  <2>4. \A q \in Settlers : proc[q].pc \in {"read", "settle", "commit", "ask"} =>
            proc[q].pay \in Payments /\ proc[q].pay # t
      BY <1>0, <2>1 DEF LedgerInv, OutcomeIsFinal, LinkedIsCreated, Procs
  <2>5. \A q \in Settlers : \A u \in proc[q].todo : u \in Payments /\ u # t
      BY <1>0, <2>1 DEF LedgerInv, LinkedIsCreated, Procs
  <2>6. ~linked[t]
      BY <1>l, <2>1
  <2>7. proc'[p].pc \in {"idle", "link"}
      BY <1>2 DEF IdleProc
  <2>8. proc'[p].pc = "link" => /\ proc'[p].pay = t
                               /\ gateway'[t] = "created" /\ status'[t] = "PENDING"
      BY <1>2 DEF IdleProc
  <2> HIDE DEF t
  <2>9. LedgerAgrees'
      BY <1>2, <2>1 DEF LedgerInv, LedgerAgrees
  <2>10. OutcomeIsFinal'
      BY <1>2, <2>2, <2>4 DEF LedgerInv, OutcomeIsFinal
  <2>11. LinkedIsCreated'
      BY <1>2, <2>2, <2>4, <2>5, <2>6 DEF LedgerInv, LinkedIsCreated
  <2>12. RowBeforeCheckout'
    <3>1. \A u \in Payments : status'[u] = "NONE" => gateway'[u] = "none"
        BY <1>2, <2>1 DEF LedgerInv, RowBeforeCheckout
    <3>2. \A q \in Clients : q # p => proc'[q] = proc[q]
        BY <1>2 DEF Procs
    <3> QED BY <1>2, <2>3, <2>7, <2>8, <3>1, <3>2 DEF LedgerInv, RowBeforeCheckout
  <2> QED BY <2>9, <2>10, <2>11, <2>12 DEF LedgerInv
<1>3. ASSUME CreateCheckout(p) PROVE LedgerInv'
  <2>1. t \in Payments /\ status[t] = "PENDING"
      BY <1>0, <1>3 DEF ClientKnows, CreateCheckout
  <2> QED BY <1>0, <1>2, <1>3, <2>1 DEF CreateCheckout, TypeOK, ProcRecord
<1>4. ASSUME CreateRefused(p) PROVE LedgerInv'
  <2>1. t \in Payments /\ gateway[t] = "none"
      BY <1>0, <1>4 DEF ClientKnows, CreateRefused
  <2>2. /\ \A u \in Payments : u # t => gateway'[u] = gateway[u]
        /\ gateway'[t] \in {"none", "created"}
      BY <1>4, <2>1 DEF CreateRefused, TypeOK
  <2>3. status'[t] = "FAILED" /\ \A u \in Payments : u # t => status'[u] = status[u]
      BY <1>4, <2>1 DEF CreateRefused, TypeOK
  <2>4. proc'[p] = IdleProc /\ \A q \in Procs : q # p => proc'[q] = proc[q]
      BY <1>0, <1>4 DEF CreateRefused, TypeOK
  <2> QED BY <1>2, <1>4, <2>2, <2>3, <2>4 DEF CreateRefused
<1>5. ASSUME LinkRow(p) \/ LinkOrders(p) PROVE LedgerInv'
  <2>1. PICK pc \in {"linkOrders", "mark"} : proc' = [proc EXCEPT ![p] = [proc[p] EXCEPT !.pc = pc]]
      BY <1>5 DEF LinkRow, LinkOrders
  <2> DEFINE x == [proc[p] EXCEPT !.pc = pc]
  <2>2. x.pc = pc /\ x.pay = proc[p].pay
      BY <1>0 DEF ProcRecord
  <2>3. proc' = [proc EXCEPT ![p] = x]
      BY <2>1
  <2>4. /\ gateway[t] # "none"
        /\ status[t] = "FAILED" => gateway[t] \in {"failed", "expired"}
        /\ UNCHANGED <<status, gateway>>
      BY <1>0, <1>5 DEF ClientKnows, LinkRow, LinkOrders
  <2>5. \A u \in Payments : linked'[u] => gateway[u] # "none"
      BY <1>l, <1>5, <2>4 DEF LinkRow, LinkOrders, TypeOK
  <2> HIDE DEF x
  <2>6. ClientKnows(x) /\ x.pc # "create"
      BY <2>2, <2>4 DEF ClientKnows
  <2> QED BY <2>3, <2>4, <2>5, <2>6, ClientMoves
<1>6. ASSUME AnswerCheckout(p) PROVE LedgerInv'
  <2>1. /\ t \in Payments
        /\ status[t] = "FAILED" => gateway[t] \in {"failed", "expired"}
      BY <1>0, <1>6 DEF ClientKnows, AnswerCheckout
  <2>2. proc' = [proc EXCEPT ![p] = IdleProc] /\ UNCHANGED <<status, linked>>
      BY <1>6 DEF AnswerCheckout
  <2>3. CASE gateway[t] # "created"
    <3>1. gateway' = gateway
        BY <1>6, <2>3 DEF AnswerCheckout
    <3> QED BY <1>i, <1>l, <2>2, <3>1, ClientMoves
  <2>4. CASE gateway[t] = "created"
    <3>1. gateway'[t] = "open" /\ \A u \in Payments : u # t => gateway'[u] = gateway[u]
        BY <1>6, <2>1, <2>4 DEF AnswerCheckout, TypeOK
    <3>2. /\ status[t] \notin {"NONE", "COMPLETED", "FAILED"}
          /\ \A q \in Settlers : proc[q].pc \in {"read", "settle", "commit"} => proc[q].pay # t
          /\ \A q \in Clients : proc[q].pc = "create" => proc[q].pay # t
        BY <2>1, <2>4, PendingIsUnheard DEF Pending
    <3>3. \A q \in Settlers : proc'[q] = proc[q]
        BY <2>2, SettlementAssumption DEF SettlementAssumption, TypeOK, Procs
    <3>4. proc'[p].pc = "idle" /\ \A q \in Clients : q # p => proc'[q] = proc[q]
        BY <1>0, <2>2 DEF TypeOK, Procs, IdleProc
    <3>5. \A u \in Payments : gateway[u] # "none" => gateway'[u] # "none"
        BY <3>1
    <3> HIDE DEF t
    <3>6. LedgerAgrees'
        BY <2>2, <3>1, <3>2 DEF LedgerInv, LedgerAgrees
    <3>7. OutcomeIsFinal'
        BY <1>0, <3>1, <3>2, <3>3 DEF LedgerInv, OutcomeIsFinal, Procs
    <3>8. LinkedIsCreated'
        BY <1>0, <2>2, <3>3, <3>5 DEF LedgerInv, LinkedIsCreated, Procs
    <3>9. RowBeforeCheckout'
        BY <1>0, <2>1, <2>2, <3>1, <3>2, <3>4 DEF LedgerInv, RowBeforeCheckout, Procs
    <3> QED BY <3>6, <3>7, <3>8, <3>9 DEF LedgerInv
  <2> QED BY <2>3, <2>4
<1> QED BY <1>1, <1>3, <1>4, <1>5, <1>6 DEF ClientStep

\* So do the clock and a crash.
LEMMA WorldLedgerStep ==
  ASSUME TypeOK, LedgerInv, Tick \/ \E p \in Procs : Crash(p) PROVE LedgerInv'
<1> USE DEF ledger
<1>1. ASSUME Tick PROVE LedgerInv'
    BY <1>1 DEF Tick, LedgerInv, LedgerAgrees, OutcomeIsFinal, RowBeforeCheckout, LinkedIsCreated
<1>2. ASSUME NEW p \in Settlers, Crash(p) PROVE LedgerInv'
  <2>1. SettlerKnows(IdleProc)
      BY DEF SettlerKnows, IdleProc
  <2> QED BY <1>2, <2>1, SettlerMoves DEF Crash
<1>3. ASSUME NEW p \in Clients, Crash(p) PROVE LedgerInv'
  <2>1. ClientKnows(IdleProc) /\ IdleProc.pc # "create"
      BY DEF ClientKnows, IdleProc
  <2>2. \A t \in Payments : linked'[t] => gateway[t] # "none"
      BY <1>3 DEF Crash, LedgerInv, LinkedIsCreated
  <2> QED BY <1>3, <2>1, <2>2, ClientMoves DEF Crash
<1> QED BY <1>1, <1>2, <1>3 DEF Procs

\* Every step keeps the ledger's invariant.
LEMMA LedgerStep ==
  ASSUME TypeOK, LedgerInv, [Next]_vars PROVE LedgerInv'
<1>1. ASSUME UNCHANGED vars PROVE LedgerInv'
    BY <1>1 DEF vars, LedgerInv, LedgerAgrees, OutcomeIsFinal, RowBeforeCheckout, LinkedIsCreated
<1>2. ASSUME Next PROVE LedgerInv'
    BY <1>2, ClientLedgerStep, DecideStep, HearStep, AskStep, SettleLedgerStep, WorldLedgerStep
       DEF Next
<1> QED BY <1>1, <1>2

\* The ledger agrees with the gateway, nobody is about to write an outcome that is not the
\* gateway's last word, and no checkout comes into being for a row that has failed.
THEOREM LedgerInvariant == Spec => []LedgerInv
<1>1. Init => LedgerInv
    BY DEF Init, LedgerInv, LedgerAgrees, OutcomeIsFinal, RowBeforeCheckout, LinkedIsCreated,
           IdleProc, Procs
<1>2. TypeOK /\ LedgerInv /\ [Next]_vars => LedgerInv'
    BY LedgerStep
<1> QED BY <1>1, <1>2, TypeCorrect, PTL DEF Spec

\* Whatever races, crashes and replays there are, what the ledger calls COMPLETED was paid
\* at the gateway, and what it calls FAILED can no longer be paid.
THEOREM Ledger == Spec => []LedgerAgrees
<1>1. LedgerInv => LedgerAgrees
    BY DEF LedgerInv
<1> QED BY <1>1, LedgerInvariant, PTL

-----------------------------------------------------------------------------
(* Which steps settle a row, and where a settlement that is about to comes from. *)

\* The steps that change neither a row's status nor the agency's.
LEMMA QuietForAgency ==
  ASSUME [Next]_vars
  PROVE  \/ UNCHANGED <<status, agency>>
         \/ \E p \in Clients, t \in Payments : CreateRow(p, t)
         \/ \E p \in Clients : CreateRefused(p) \/ AnswerCheckout(p)
         \/ \E p \in Settlers : PaidCommit(p) \/ FailedCommit(p)
<1> USE DEF ledger, subscription
<1>1. ASSUME NEW p \in Clients, CreateCheckout(p) \/ LinkRow(p) \/ LinkOrders(p)
      PROVE  UNCHANGED <<status, agency>>
    BY <1>1 DEF CreateCheckout, LinkRow, LinkOrders
<1>2. ASSUME NEW p \in Settlers, Hear(p) \/ SweepRead(p) \/ AskGateway(p) \/ Unreachable(p)
      PROVE  UNCHANGED <<status, agency>>
    BY <1>2 DEF Hear, Webhook, Poll, Verify, Attempt, SweepRead, AskGateway, Ask, SweepExpire,
                SweepAsk, Unreachable
<1>3. ASSUME NEW p \in Settlers,
             ReadRow(p) \/ PaidBegin(p) \/ ReadOrders(p) \/ \E o \in Orders : ApproveOrder(p, o)
      PROVE  UNCHANGED <<status, agency>>
    BY <1>3 DEF ReadRow, PaidBegin, ReadOrders, ApproveOrder
<1>4. ASSUME \/ Tick \/ UNCHANGED vars \/ \E p \in Procs : Crash(p)
             \/ \E t \in Payments : Decide(t, "paid") \/ Decide(t, "failed")
      PROVE  UNCHANGED <<status, agency>>
    BY <1>4 DEF Tick, vars, Crash, Decide
<1> QED BY <1>1, <1>2, <1>3, <1>4 DEF Next, ClientStep, SettleStep

\* A settlement is about to write only because it was so already, or because it has just read
\* the row PENDING; a transaction that has begun was about to settle a paid checkout.
LEMMA SettlingFrom ==
  ASSUME TypeOK, [Next]_vars, NEW p \in Settlers, proc'[p].pc \in {"settle", "commit"}
  PROVE  /\ proc'[p].pay = proc[p].pay /\ proc'[p].outcome = proc[p].outcome
         /\ \/ ReadRow(p) /\ status[proc[p].pay] = "PENDING" /\ proc'[p].pc = "settle"
            \/ /\ proc[p].pc \in {"settle", "commit"}
               /\ proc'[p].pc = "commit" => proc[p].pc = "commit" \/ proc[p].outcome = "paid"
<1> DEFINE Settling == {"settle", "commit"}
           Goal == /\ proc'[p].pay = proc[p].pay /\ proc'[p].outcome = proc[p].outcome
                   /\ \/ ReadRow(p) /\ status[proc[p].pay] = "PENDING" /\ proc'[p].pc = "settle"
                      \/ /\ proc[p].pc \in Settling
                         /\ proc'[p].pc = "commit" =>
                              proc[p].pc = "commit" \/ proc[p].outcome = "paid"
<1>0. \A q \in Procs : proc[q] \in ProcRecord
    BY DEF TypeOK
<1>s. ASSUME proc'[p] = proc[p] PROVE Goal
    BY <1>s
<1>1. ASSUME NEW q \in Procs, NEW x, x.pc \notin Settling, proc' = [proc EXCEPT ![q] = x]
      PROVE  Goal
  <2>1. CASE q = p
      BY <1>1, <2>1 DEF TypeOK
  <2>2. CASE q # p
      BY <1>1, <1>s, <2>2 DEF TypeOK
  <2> QED BY <2>1, <2>2
<1>p. p \in Procs /\ Settlers \subseteq Procs
    BY DEF Procs
<1>d. \A q : Done(q).pc \in {"idle", "sweep"}
    BY DEF Done, IdleProc
<1>i. IdleProc.pc = "idle"
    BY DEF IdleProc
<1>a. ASSUME NEW q \in ProcRecord, NEW v PROVE Answered(q, v).pc \in {"idle", "sweep", "read"}
    BY <1>d DEF Answered, ProcRecord
<1> HIDE DEF Goal
<1>2. ASSUME NEW q \in Settlers, Hear(q) \/ SweepRead(q) PROVE Goal
  <2>1. ASSUME NEW t \in Payments, Webhook(q, t) PROVE Goal
      BY <1>1, <1>p, <2>1 DEF Webhook, Attempt, IdleProc
  <2>2. ASSUME NEW t \in Payments, Poll(q, t) \/ Verify(q, t) PROVE Goal
      BY <1>1, <1>p, <2>2 DEF Poll, Verify, Attempt, IdleProc
  <2>3. ASSUME SweepRead(q) PROVE Goal
      BY <1>1, <1>p, <2>3 DEF SweepRead, IdleProc
  <2> QED BY <1>2, <2>1, <2>2, <2>3 DEF Hear
<1>3. ASSUME NEW q \in Settlers, AskGateway(q) \/ Unreachable(q) PROVE Goal
  <2>0. proc[q] \in ProcRecord
      BY <1>0, <1>p
  <2>1. ASSUME Ask(q) PROVE Goal
    <3>1. Answered(proc[q], Normalized(proc[q].pay)).pc \notin Settling
        BY <1>a, <2>0
    <3> QED BY <1>1, <1>p, <2>1, <3>1 DEF Ask
  <2>2. ASSUME SweepExpire(q) PROVE Goal
    <3> DEFINE x == [proc[q] EXCEPT !.pc = "read", !.outcome = "failed"]
    <3>1. proc' = [proc EXCEPT ![q] = x] /\ x.pc = "read"
        BY <1>p, <2>0, <2>2 DEF SweepExpire, TypeOK, ProcRecord
    <3> HIDE DEF x
    <3> QED BY <1>1, <1>p, <3>1
  <2>3. ASSUME NEW t \in Payments, SweepAsk(q, t) PROVE Goal
    <3> DEFINE y == [IdleProc EXCEPT !.pay = t, !.todo = proc[q].todo \ {t}]
               x == SweepVerdict(y, t)
    <3>1. y \in ProcRecord
        BY <2>0 DEF IdleProc, ProcRecord
    <3>2. Answered(y, Normalized(t)).pc \notin Settling
      <4> HIDE DEF y
      <4> QED BY <1>a, <3>1
    <3>3. x.pc \notin Settling
        BY <3>1, <3>2 DEF SweepVerdict, ProcRecord
    <3>4. proc' = [proc EXCEPT ![q] = x]
        BY <2>3 DEF SweepAsk
    <3> HIDE DEF x
    <3> QED BY <1>1, <1>p, <3>3, <3>4
  <2>4. ASSUME Unreachable(q) PROVE Goal
      BY <1>1, <1>d, <1>p, <2>4 DEF Unreachable
  <2> QED BY <1>3, <2>1, <2>2, <2>3, <2>4 DEF AskGateway
<1>4. ASSUME NEW q \in Settlers, SettleStep(q) PROVE Goal
  <2>0. proc[q] \in ProcRecord
      BY <1>0, <1>p
  <2>1. ASSUME ReadRow(q) PROVE Goal
    <3>1. CASE status[proc[q].pay] = "PENDING" /\ linked[proc[q].pay]
      <4>1. CASE q = p
        <5>1. proc'[p] = [proc[p] EXCEPT !.pc = "settle", !.seen = agency]
            BY <1>p, <2>1, <3>1, <4>1 DEF ReadRow, TypeOK
        <5>2. /\ proc'[p].pc = "settle" /\ proc'[p].pay = proc[p].pay
              /\ proc'[p].outcome = proc[p].outcome
            BY <2>0, <4>1, <5>1 DEF ProcRecord
        <5> QED BY <2>1, <3>1, <4>1, <5>2 DEF Goal
      <4>2. CASE q # p
          BY <1>p, <1>s, <2>1, <4>2 DEF ReadRow, TypeOK
      <4> QED BY <4>1, <4>2
    <3>2. CASE ~(status[proc[q].pay] = "PENDING" /\ linked[proc[q].pay])
      <4>1. proc' = [proc EXCEPT ![q] = AfterRow(proc[q])]
          BY <2>1, <3>2 DEF ReadRow
      <4>2. AfterRow(proc[q]).pc \notin Settling
          BY <1>d, <2>0 DEF AfterRow, ProcRecord
      <4> QED BY <1>1, <1>p, <4>1, <4>2
    <3> QED BY <3>1, <3>2
  <2>2. ASSUME PaidBegin(q) PROVE Goal
    <3>1. CASE q = p
      <4>1. /\ proc'[p].pay = proc[p].pay /\ proc'[p].outcome = proc[p].outcome
            /\ proc[p].pc = "settle" /\ proc[p].outcome = "paid"
          BY <1>p, <2>0, <2>2, <3>1 DEF PaidBegin, TypeOK, ProcRecord
      <4> QED BY <4>1 DEF Goal
    <3>2. CASE q # p
        BY <1>p, <1>s, <2>2, <3>2 DEF PaidBegin, TypeOK
    <3> QED BY <3>1, <3>2
  <2>3. ASSUME PaidCommit(q) PROVE Goal
    <3> DEFINE x == [proc[q] EXCEPT !.pc = "hardware"]
    <3>1. proc' = [proc EXCEPT ![q] = x] /\ x.pc = "hardware"
        BY <1>p, <2>0, <2>3 DEF PaidCommit, TypeOK, ProcRecord
    <3> HIDE DEF x
    <3> QED BY <1>1, <1>p, <3>1
  <2>4. ASSUME FailedCommit(q) PROVE Goal
      BY <1>1, <1>d, <1>p, <2>4 DEF FailedCommit
  <2>5. ASSUME ReadOrders(q) PROVE Goal
    <3> DEFINE mine == {o \in Orders : orderRef[o] = proc[q].pay /\ order[o] = "PENDING"}
               x == IF mine = {} THEN Done(proc[q])
                    ELSE [proc[q] EXCEPT !.pc = "approve", !.orders = mine]
    <3>1. proc' = [proc EXCEPT ![q] = x]
        BY <2>5 DEF ReadOrders
    <3>2. x.pc \notin Settling
        BY <1>d, <2>0 DEF ProcRecord
    <3> HIDE DEF x
    <3> QED BY <1>1, <1>p, <3>1, <3>2
  <2>6. ASSUME NEW o \in Orders, ApproveOrder(q, o) PROVE Goal
    <3> DEFINE x == IF proc[q].orders = {o} THEN Done(proc[q])
                    ELSE [proc[q] EXCEPT !.orders = @ \ {o}]
    <3>1. proc' = [proc EXCEPT ![q] = x]
        BY <2>6 DEF ApproveOrder
    <3>2. x.pc \notin Settling
        BY <1>d, <2>0, <2>6 DEF ApproveOrder, ProcRecord
    <3> HIDE DEF x
    <3> QED BY <1>1, <1>p, <3>1, <3>2
  <2> QED BY <1>4, <2>1, <2>2, <2>3, <2>4, <2>5, <2>6 DEF SettleStep
<1>5. ASSUME NEW q \in Clients, ClientStep(q) PROVE Goal
  <2>1. proc'[p] = proc[p]
      BY <1>5, SettlementAssumption
         DEF SettlementAssumption, TypeOK, Procs, ClientStep, CreateRow, CreateCheckout,
             CreateRefused, LinkRow, LinkOrders, AnswerCheckout
  <2> QED BY <1>s, <2>1
<1>6. ASSUME NEW q \in Procs, Crash(q) PROVE Goal
    BY <1>1, <1>6, <1>i DEF Crash
<1>7. ASSUME Tick \/ (\E t \in Payments : Decide(t, "paid") \/ Decide(t, "failed")) \/ UNCHANGED vars
      PROVE  Goal
    BY <1>7, <1>s DEF Tick, Decide, vars
<1> QED BY <1>2, <1>3, <1>4, <1>5, <1>6, <1>7 DEF Next, Goal
-----------------------------------------------------------------------------
(* One settlement at a time keeps the promise of module Purchase. *)

\* What one settlement at a time can rely on and two cannot: the row it has read PENDING
\* is still PENDING when it is written.
StillPending ==
  \A p \in Settlers : proc[p].pc \in {"settle", "commit"} => status[proc[p].pay] = "PENDING"

\* A step of another process does not settle the row, nor does time or a crash.
LEMMA StillPendingStep ==
  ASSUME \A p, q \in Settlers : p = q, TypeOK, LedgerInv, StillPending, [Next]_vars
  PROVE  StillPending'
<1> SUFFICES ASSUME NEW p \in Settlers, proc'[p].pc \in {"settle", "commit"}
             PROVE  status'[proc'[p].pay] = "PENDING"
    BY DEF StillPending
<1> DEFINE t == proc[p].pay
<1>1. /\ proc'[p].pay = t /\ status[t] = "PENDING"
      /\ proc[p].pc \in {"read", "settle", "commit"}
    BY SettlingFrom DEF ReadRow, StillPending
<1>2. t \in Payments /\ gateway[t] # "none"
    BY <1>1 DEF TypeOK, Procs, LedgerInv, OutcomeIsFinal
<1>3. CASE UNCHANGED <<status, agency>>
    BY <1>1, <1>3
<1>4. ASSUME NEW c \in Clients, NEW u \in Payments, CreateRow(c, u) PROVE status'[t] = "PENDING"
    BY <1>1, <1>4 DEF CreateRow, TypeOK
<1>5. ASSUME NEW c \in Clients, CreateRefused(c) \/ AnswerCheckout(c)
      PROVE  status'[t] = "PENDING"
  <2>1. CreateRefused(c) => proc[c].pay # t
      BY <1>2 DEF CreateRefused, LedgerInv, RowBeforeCheckout
  <2>2. CASE CreateRefused(c)
      BY <1>1, <1>2, <2>1, <2>2 DEF CreateRefused, TypeOK
  <2>3. CASE AnswerCheckout(c)
      BY <1>1, <2>3 DEF AnswerCheckout, ledger
  <2> QED BY <1>5, <2>2, <2>3
<1>6. ASSUME NEW q \in Settlers, PaidCommit(q) \/ FailedCommit(q) PROVE FALSE
  <2>0. q = p
      OBVIOUS
  <2>1. q = p /\ proc[p] \in ProcRecord /\ p \in Procs
      BY <2>0 DEF TypeOK, Procs
  <2>2. Done(proc[p]).pc \in {"idle", "sweep"}
      BY DEF Done, IdleProc
  <2>3. CASE PaidCommit(p)
    <3>1. proc'[p].pc = "hardware"
        BY <2>1, <2>3 DEF PaidCommit, TypeOK, ProcRecord
    <3> QED BY <3>1
  <2>4. CASE FailedCommit(p)
    <3>1. proc'[p] = Done(proc[p])
        BY <2>1, <2>4 DEF FailedCommit, TypeOK
    <3> QED BY <2>2, <3>1
  <2> QED BY <1>6, <2>1, <2>3, <2>4
<1> QED BY <1>1, <1>3, <1>4, <1>5, <1>6, QuietForAgency

\* A step that changes no row's status, no grant and no payment is a stutter of Purchase.
LEMMA QuietStep ==
  ASSUME UNCHANGED <<status, granted>>,
         \A t \in Payments : gateway'[t] = "paid" <=> gateway[t] = "paid"
  PROVE  UNCHANGED Promise!vars
BY DEF Promise!vars

\* When settlements do not overlap, every step is one of Purchase's or a stutter.
LEMMA PromiseStep ==
  ASSUME \A p, q \in Settlers : p = q, TypeOK, LedgerInv, StillPending, [Next]_vars
  PROVE  [Promise!Next]_(Promise!vars)
<1> USE DEF ledger
<1> DEFINE Paid == {t \in Payments : gateway[t] = "paid"}
<1>0. \A p \in Procs : proc[p].pc \notin {"idle", "sweep"} => proc[p].pay \in Payments
    BY DEF TypeOK
<1>1. ASSUME NEW p \in Clients, ClientStep(p) PROVE [Promise!Next]_(Promise!vars)
  <2>1. ASSUME NEW t \in Payments, CreateRow(p, t) PROVE Promise!Start(t)
      BY <2>1 DEF CreateRow, Promise!Start
  <2>2. ASSUME CreateRefused(p) PROVE Promise!Fail(proc[p].pay) /\ proc[p].pay \in Payments
    <3>1. /\ proc[p].pay \in Payments /\ status[proc[p].pay] = "PENDING"
          /\ gateway[proc[p].pay] = "none"
        BY <1>0, <2>2 DEF CreateRefused, LedgerInv, RowBeforeCheckout, Procs
    <3>2. Paid' = Paid
        BY <2>2, <3>1 DEF CreateRefused, TypeOK
    <3> QED BY <2>2, <3>1, <3>2 DEF CreateRefused, Promise!Fail
  <2>3. ASSUME CreateCheckout(p) \/ LinkRow(p) \/ LinkOrders(p) \/ AnswerCheckout(p)
        PROVE  UNCHANGED Promise!vars
    <3>1. CreateCheckout(p) => proc[p].pay \in Payments /\ gateway[proc[p].pay] = "none"
        BY <1>0 DEF CreateCheckout, LedgerInv, RowBeforeCheckout, Procs
    <3>2. UNCHANGED <<status, granted>>
        BY <2>3 DEF CreateCheckout, LinkRow, LinkOrders, AnswerCheckout
    <3>3. \A t \in Payments : gateway'[t] = "paid" <=> gateway[t] = "paid"
        BY <2>3, <3>1 DEF CreateCheckout, LinkRow, LinkOrders, AnswerCheckout, TypeOK
    <3> QED BY <3>2, <3>3, QuietStep
  <2> QED BY <1>1, <2>1, <2>2, <2>3 DEF ClientStep, Promise!Next
<1>2. ASSUME NEW t \in Payments, Decide(t, "paid") PROVE Promise!Pay(t)
  <2>1. status[t] = "PENDING" /\ t \notin Paid
      BY <1>2, PendingIsUnheard DEF Decide, Pending, TypeOK
  <2>2. Paid' = Paid \cup {t}
      BY <1>2 DEF Decide, TypeOK
  <2> QED BY <1>2, <2>1, <2>2 DEF Decide, Promise!Pay
<1>3. ASSUME NEW t \in Payments, Decide(t, "failed") PROVE UNCHANGED Promise!vars
  <2>1. \A u \in Payments : gateway'[u] = "paid" <=> gateway[u] = "paid"
      BY <1>3 DEF Decide, TypeOK
  <2> QED BY <1>3, <2>1, QuietStep DEF Decide
<1>4. ASSUME NEW p \in Settlers, SettleStep(p) PROVE [Promise!Next]_(Promise!vars)
  <2>1. ASSUME PaidCommit(p)
        PROVE  Promise!Complete(proc[p].pay) /\ proc[p].pay \in Payments
    <3>1. /\ proc[p].pay \in Payments /\ status[proc[p].pay] = "PENDING"
          /\ proc[p].pay \in Paid
        BY <1>0, <2>1 DEF PaidCommit, LedgerInv, OutcomeIsFinal, StillPending, Procs
    <3> QED BY <2>1, <3>1 DEF PaidCommit, Promise!Complete
  <2>2. ASSUME FailedCommit(p) PROVE Promise!Fail(proc[p].pay) /\ proc[p].pay \in Payments
    <3>1. /\ proc[p].pay \in Payments /\ status[proc[p].pay] = "PENDING"
          /\ proc[p].pay \notin Paid
        BY <1>0, <2>2 DEF FailedCommit, LedgerInv, OutcomeIsFinal, StillPending, Procs
    <3> QED BY <2>2, <3>1 DEF FailedCommit, Promise!Fail
  <2>3. ASSUME ReadRow(p) \/ PaidBegin(p) \/ ReadOrders(p) \/ \E o \in Orders : ApproveOrder(p, o)
        PROVE  UNCHANGED Promise!vars
      BY <2>3, QuietStep DEF ReadRow, PaidBegin, ReadOrders, ApproveOrder
  <2> QED BY <1>4, <2>1, <2>2, <2>3 DEF SettleStep, Promise!Next
<1>5. ASSUME NEW p \in Settlers, Hear(p) \/ SweepRead(p) \/ Unreachable(p)
      PROVE  UNCHANGED Promise!vars
    BY <1>5, QuietStep DEF Hear, Webhook, Poll, Verify, Attempt, SweepRead, Unreachable
<1>6. ASSUME NEW p \in Settlers, AskGateway(p) PROVE UNCHANGED Promise!vars
  <2>1. UNCHANGED <<status, granted>>
      BY <1>6 DEF AskGateway, Ask, SweepExpire, SweepAsk
  <2>2. \A t \in Payments : gateway'[t] = "paid" <=> gateway[t] = "paid"
      BY <1>6 DEF AskGateway, Ask, SweepExpire, SweepAsk, Pending, TypeOK
  <2> QED BY <2>1, <2>2, QuietStep
<1>7. ASSUME Tick \/ (\E p \in Procs : Crash(p)) \/ UNCHANGED vars PROVE UNCHANGED Promise!vars
    BY <1>7, QuietStep DEF Tick, Crash, vars
<1> QED BY <1>1, <1>2, <1>3, <1>4, <1>5, <1>6, <1>7 DEF Next, Promise!Next

\* When settlements do not overlap, the payments implement module Purchase: one outcome,
\* decided by what the payer did, and one grant, whatever is replayed, retried or late.
THEOREM SoleSettlerKeepsPromise ==
  ASSUME \A p, q \in Settlers : p = q
  PROVE  Spec => KeepsPromise
<1>1. Init => LedgerInv /\ StillPending /\ Promise!Init
    BY DEF Init, LedgerInv, LedgerAgrees, OutcomeIsFinal, RowBeforeCheckout, LinkedIsCreated,
           StillPending, IdleProc, Procs, Promise!Init
<1>2. TypeOK /\ LedgerInv /\ [Next]_vars => LedgerInv'
    BY LedgerStep
<1>3. TypeOK /\ LedgerInv /\ StillPending /\ [Next]_vars => StillPending'
    BY StillPendingStep
<1>4. TypeOK /\ LedgerInv /\ StillPending /\ [Next]_vars => [Promise!Next]_(Promise!vars)
    BY PromiseStep
<1> QED BY <1>1, <1>2, <1>3, <1>4, TypeCorrect, PTL DEF Spec, KeepsPromise, Promise!Spec

\* What a new term is stacked on is what the agency has when it is added.
BaseIsCurrent == \A p \in Settlers : proc[p].pc = "commit" => proc[p].base = terms

\* A process is at its commit because it has just begun the transaction, or was there.
LEMMA OnlyPaidBegin ==
  ASSUME TypeOK, [Next]_vars, NEW p \in Settlers, proc'[p].pc = "commit"
  PROVE  PaidBegin(p) \/ proc'[p] = proc[p]
<1> USE DEF Procs
<1>0. \A q \in Settlers : proc[q] \in ProcRecord
    BY DEF TypeOK
<1>d. \A q : Done(q).pc \in {"idle", "sweep"}
    BY DEF Done, IdleProc
<1>a. ASSUME NEW q \in ProcRecord, NEW v PROVE Answered(q, v).pc \in {"idle", "sweep", "read"}
    BY <1>d DEF Answered, ProcRecord
<1>1. ASSUME NEW q \in Procs, NEW x, x.pc # "commit", proc' = [proc EXCEPT ![q] = x]
      PROVE  proc'[p] = proc[p]
    BY <1>1 DEF TypeOK
<1>2. ASSUME NEW q \in Settlers, Hear(q) \/ SweepRead(q) PROVE proc'[p] = proc[p]
  <2>1. ASSUME NEW t \in Payments, Webhook(q, t) PROVE proc'[p] = proc[p]
      BY <1>1, <2>1 DEF Webhook, Attempt, IdleProc
  <2>2. ASSUME NEW t \in Payments, Poll(q, t) \/ Verify(q, t) PROVE proc'[p] = proc[p]
    <3> DEFINE x == [IdleProc EXCEPT !.pc = "ask", !.pay = t]
    <3>1. x.pc = "ask"
        BY DEF IdleProc
    <3>2. proc' = [proc EXCEPT ![q] = x]
        BY <2>2 DEF Poll, Verify, Attempt
    <3> HIDE DEF x
    <3> QED BY <1>1, <3>1, <3>2
  <2>3. ASSUME SweepRead(q) PROVE proc'[p] = proc[p]
      BY <1>1, <2>3 DEF SweepRead, IdleProc
  <2> QED BY <1>2, <2>1, <2>2, <2>3 DEF Hear
<1>3. ASSUME NEW q \in Settlers, AskGateway(q) \/ Unreachable(q) PROVE proc'[p] = proc[p]
  <2>1. ASSUME Ask(q) PROVE proc'[p] = proc[p]
    <3>1. Answered(proc[q], Normalized(proc[q].pay)).pc # "commit"
        BY <1>0, <1>a
    <3> QED BY <1>1, <2>1, <3>1 DEF Ask
  <2>2. ASSUME SweepExpire(q) PROVE proc'[p] = proc[p]
    <3>1. proc'[q].pc = "read"
        BY <1>0, <2>2 DEF SweepExpire, TypeOK, ProcRecord
    <3> QED BY <2>2, <3>1 DEF SweepExpire, TypeOK
  <2>3. ASSUME NEW t \in Payments, SweepAsk(q, t) PROVE proc'[p] = proc[p]
    <3> DEFINE r == [IdleProc EXCEPT !.pay = t, !.todo = proc[q].todo \ {t}]
               x == SweepVerdict(r, t)
    <3>1. r \in ProcRecord
        BY <1>0 DEF IdleProc, ProcRecord
    <3>2. Answered(r, Normalized(t)).pc # "commit"
      <4> HIDE DEF r
      <4> QED BY <1>a, <3>1
    <3>3. x.pc # "commit"
        BY <3>1, <3>2 DEF SweepVerdict, ProcRecord
    <3>4. proc' = [proc EXCEPT ![q] = x]
        BY <2>3 DEF SweepAsk
    <3> HIDE DEF x
    <3> QED BY <1>1, <3>3, <3>4
  <2>4. ASSUME Unreachable(q) PROVE proc'[p] = proc[p]
      BY <1>1, <1>d, <2>4 DEF Unreachable
  <2> QED BY <1>3, <2>1, <2>2, <2>3, <2>4 DEF AskGateway
<1>4. ASSUME NEW q \in Settlers, SettleStep(q) PROVE PaidBegin(p) \/ proc'[p] = proc[p]
  <2>1. CASE q = p /\ ~PaidBegin(p)
    <3>0. /\ proc[p] \in ProcRecord
          /\ \A x : proc' = [proc EXCEPT ![p] = x] => proc'[p] = x
        BY <1>0 DEF TypeOK
    <3>1. ReadRow(p) => proc'[p].pc # "commit"
        BY <1>d, <3>0 DEF ReadRow, AfterRow, ProcRecord
    <3>2. PaidCommit(p) \/ FailedCommit(p) => proc'[p].pc # "commit"
        BY <1>d, <3>0 DEF PaidCommit, FailedCommit, ProcRecord
    <3>3. ASSUME ReadOrders(p) PROVE proc'[p].pc # "commit"
      <4> DEFINE mine == {o \in Orders : orderRef[o] = proc[p].pay /\ order[o] = "PENDING"}
      <4>1. proc' = [proc EXCEPT ![p] = IF mine = {} THEN Done(proc[p])
                                        ELSE [proc[p] EXCEPT !.pc = "approve", !.orders = mine]]
          BY <3>3 DEF ReadOrders
      <4> HIDE DEF mine
      <4> QED BY <1>d, <3>0, <4>1 DEF ProcRecord
    <3>4. ASSUME NEW o \in Orders, ApproveOrder(p, o) PROVE proc'[p].pc # "commit"
      <4>1. [proc[p] EXCEPT !.orders = proc[p].orders \ {o}].pc = proc[p].pc
          BY <3>0 DEF ProcRecord
      <4>2. proc'[p] = Done(proc[p]) \/ proc'[p] = [proc[p] EXCEPT !.orders = proc[p].orders \ {o}]
          BY <3>0, <3>4 DEF ApproveOrder
      <4> QED BY <1>d, <3>4, <4>1, <4>2 DEF ApproveOrder
    <3> QED BY <1>4, <2>1, <3>1, <3>2, <3>3, <3>4 DEF SettleStep
  <2>2. CASE q # p
    <3>1. DOMAIN proc = Procs /\ q \in Procs /\ p \in Procs
        BY DEF TypeOK
    <3>2. ReadRow(q) => proc'[p] = proc[p]
        BY <2>2, <3>1 DEF ReadRow
    <3>3. PaidBegin(q) \/ FailedCommit(q) => proc'[p] = proc[p]
        BY <2>2, <3>1 DEF PaidBegin, FailedCommit
    <3>4. PaidCommit(q) => proc'[p] = proc[p]
        BY <2>2, <3>1 DEF PaidCommit
    <3>5. ReadOrders(q) => proc'[p] = proc[p]
        BY <2>2, <3>1 DEF ReadOrders
    <3>6. (\E o \in Orders : ApproveOrder(q, o)) => proc'[p] = proc[p]
        BY <2>2, <3>1 DEF ApproveOrder
    <3> QED BY <1>4, <3>2, <3>3, <3>4, <3>5, <3>6 DEF SettleStep
  <2> QED BY <2>1, <2>2
<1>5. ASSUME NEW q \in Clients, ClientStep(q) PROVE proc'[p] = proc[p]
    BY <1>5, SettlementAssumption
       DEF SettlementAssumption, TypeOK, ClientStep, CreateRow, CreateCheckout,
           CreateRefused, LinkRow, LinkOrders, AnswerCheckout
<1>6. ASSUME NEW q \in Procs, Crash(q) PROVE proc'[p] = proc[p]
    BY <1>1, <1>6 DEF Crash, IdleProc
<1>7. ASSUME Tick \/ (\E t \in Payments : Decide(t, "paid") \/ Decide(t, "failed")) \/ UNCHANGED vars
      PROVE  proc'[p] = proc[p]
    BY <1>7 DEF Tick, Decide, vars
<1> QED BY <1>2, <1>3, <1>4, <1>5, <1>6, <1>7 DEF Next

\* Only the commit of a paid payment changes the terms the agency has, or grants one.
LEMMA OnlyPaidCommit ==
  ASSUME [Next]_vars
  PROVE  UNCHANGED <<terms, granted>> \/ \E p \in Settlers : PaidCommit(p)
<1>1. ASSUME NEW p \in Clients, ClientStep(p) PROVE UNCHANGED <<terms, granted>>
    BY <1>1 DEF ClientStep, CreateRow, CreateCheckout, CreateRefused, LinkRow, LinkOrders,
                AnswerCheckout, subscription
<1>2. ASSUME NEW p \in Settlers, Hear(p) \/ SweepRead(p) \/ AskGateway(p) \/ Unreachable(p)
      PROVE  UNCHANGED <<terms, granted>>
    BY <1>2 DEF Hear, Webhook, Poll, Verify, Attempt, SweepRead, AskGateway, Ask, SweepExpire,
                SweepAsk, Unreachable, subscription
<1>3. ASSUME NEW p \in Settlers, SettleStep(p)
      PROVE  PaidCommit(p) \/ UNCHANGED <<terms, granted>>
    BY <1>3 DEF SettleStep, ReadRow, PaidBegin, FailedCommit, ReadOrders, ApproveOrder,
                subscription
<1>4. ASSUME \/ Tick \/ UNCHANGED vars \/ \E p \in Procs : Crash(p)
             \/ \E t \in Payments : Decide(t, "paid") \/ Decide(t, "failed")
      PROVE  UNCHANGED <<terms, granted>>
    BY <1>4 DEF Tick, vars, Crash, Decide, subscription
<1> QED BY <1>1, <1>2, <1>3, <1>4 DEF Next

\* When settlements do not overlap, no paid term is lost: each is added to those the agency
\* has when it is added.
THEOREM SoleSettlerStacks ==
  ASSUME \A p, q \in Settlers : p = q
  PROVE  Spec => TermStacked
<1>1. Init => BaseIsCurrent
    BY DEF Init, BaseIsCurrent, IdleProc, Procs
<1>2. TypeOK /\ BaseIsCurrent /\ [Next]_vars => BaseIsCurrent'
  <2> SUFFICES ASSUME TypeOK, BaseIsCurrent, [Next]_vars, NEW p \in Settlers, proc'[p].pc = "commit"
               PROVE  proc'[p].base = terms'
      BY DEF BaseIsCurrent
  <2>1. CASE PaidBegin(p)
      BY <2>1 DEF PaidBegin, TypeOK, Procs, ProcRecord, subscription
  <2>2. CASE proc'[p] = proc[p] /\ UNCHANGED terms
      BY <2>2 DEF BaseIsCurrent
  <2>3. ASSUME PaidCommit(p) PROVE FALSE
      BY <2>3 DEF PaidCommit, TypeOK, Procs, ProcRecord
  <2> QED BY <2>1, <2>2, <2>3, OnlyPaidBegin, OnlyPaidCommit
<1>3. TypeOK /\ BaseIsCurrent /\ [Next]_vars =>
        [\A t \in Payments :
           Kind[t] = "subscription" /\ granted'[t] # granted[t] => terms' = terms + 1]_vars
  <2> SUFFICES ASSUME TypeOK, BaseIsCurrent, [Next]_vars, NEW t \in Payments,
                      Kind[t] = "subscription", granted'[t] # granted[t]
               PROVE  terms' = terms + 1
      OBVIOUS
  <2>1. PICK p \in Settlers : PaidCommit(p)
      BY OnlyPaidCommit
  <2>2. proc[p].pay = t /\ proc[p].base = terms
      BY <2>1 DEF PaidCommit, TypeOK, BaseIsCurrent
  <2> QED BY <2>1, <2>2 DEF PaidCommit, Stacked
<1> QED BY <1>1, <1>2, <1>3, TypeCorrect, PTL DEF Spec, TermStacked

-----------------------------------------------------------------------------
(* The orders and the agency of a payment. *)

\* A client at work has a payment of its own, which cannot have been paid yet.
ClientsApart ==
  /\ \A p \in Clients : proc[p].pc \in {"idle", "create", "link", "linkOrders", "mark"}
  /\ \A p, q \in Clients :
       p # q /\ proc[p].pc # "idle" /\ proc[q].pc # "idle" => proc[p].pay # proc[q].pay
  /\ \A p \in Clients :
       proc[p].pc # "idle" => gateway[proc[p].pay] \in {"none", "created", "expired"}

\* A step that is not a client's leaves the clients as they are, or idle.
LEMMA OthersLeaveClients ==
  ASSUME TypeOK, [Next]_vars, NEW c \in Clients, ~ClientStep(c)
  PROVE  proc'[c] = proc[c] \/ proc'[c] = IdleProc
<1> USE DEF Procs
<1>1. ASSUME NEW p \in Clients, p # c, ClientStep(p) PROVE proc'[c] = proc[c]
    BY <1>1 DEF TypeOK, ClientStep, CreateRow, CreateCheckout, CreateRefused, LinkRow,
                LinkOrders, AnswerCheckout
<1>2. ASSUME NEW p \in Settlers PROVE p # c
    BY SettlementAssumption DEF SettlementAssumption
<1>3. ASSUME NEW p \in Settlers, Hear(p) \/ SweepRead(p) \/ Unreachable(p)
      PROVE  proc'[c] = proc[c]
    BY <1>2, <1>3 DEF TypeOK, Hear, Webhook, Poll, Verify, Attempt, SweepRead, Unreachable
<1>4. ASSUME NEW p \in Settlers, AskGateway(p) PROVE proc'[c] = proc[c]
    BY <1>2, <1>4 DEF TypeOK, AskGateway, Ask, SweepExpire, SweepAsk
<1>5. ASSUME NEW p \in Settlers, SettleStep(p) PROVE proc'[c] = proc[c]
    BY <1>2, <1>5 DEF TypeOK, SettleStep, ReadRow, PaidBegin, PaidCommit, FailedCommit,
                      ReadOrders, ApproveOrder
<1>6. ASSUME NEW p \in Procs, Crash(p) PROVE proc'[c] = proc[c] \/ proc'[c] = IdleProc
    BY <1>6 DEF TypeOK, Crash
<1>7. ASSUME Tick \/ (\E t \in Payments : Decide(t, "paid") \/ Decide(t, "failed")) \/ UNCHANGED vars
      PROVE  proc'[c] = proc[c]
    BY <1>7 DEF Tick, Decide, vars
<1> QED BY <1>1, <1>3, <1>4, <1>5, <1>6, <1>7 DEF Next

\* What is not the step of a client does not open a checkout: it is decided or expires.
LEMMA OthersOpenNone ==
  ASSUME TypeOK, [Next]_vars, \A c \in Clients : ~ClientStep(c), NEW t \in Payments,
         gateway[t] \in {"none", "created", "expired"}
  PROVE  gateway'[t] \in {"none", "created", "expired"}
<1>1. ASSUME NEW p \in Settlers, Hear(p) \/ SweepRead(p) \/ Unreachable(p) \/ SettleStep(p)
      PROVE  UNCHANGED gateway
    BY <1>1 DEF Hear, Webhook, Poll, Verify, Attempt, SweepRead, Unreachable, SettleStep,
                ReadRow, PaidBegin, PaidCommit, FailedCommit, ReadOrders, ApproveOrder
<1>2. ASSUME NEW p \in Settlers, AskGateway(p)
      PROVE  gateway'[t] \in {gateway[t], "expired"}
    BY <1>2 DEF TypeOK, AskGateway, Ask, SweepExpire, SweepAsk
<1>3. ASSUME \/ \E p \in Procs : Crash(p)
             \/ Tick \/ UNCHANGED vars
      PROVE  UNCHANGED gateway
    BY <1>3 DEF Crash, Tick, vars
<1>4. ASSUME NEW u \in Payments, Decide(u, "paid") \/ Decide(u, "failed")
      PROVE  gateway'[t] = gateway[t]
    BY <1>4 DEF TypeOK, Decide
<1> QED BY <1>1, <1>2, <1>3, <1>4 DEF Next

\* The row of a client at work exists and is not COMPLETED.
LEMMA RowAtWork ==
  ASSUME TypeOK, LedgerInv, ClientsApart, NEW p \in Clients, proc[p].pc # "idle"
  PROVE  proc[p].pay \in Payments /\ status[proc[p].pay] \in {"PENDING", "FAILED"}
<1>1. proc[p].pay \in Payments
    BY DEF TypeOK, ClientsApart, Procs
<1>2. status[proc[p].pay] # "COMPLETED"
    BY <1>1 DEF LedgerInv, LedgerAgrees, ClientsApart
<1>3. status[proc[p].pay] # "NONE"
    BY <1>1 DEF LedgerInv, RowBeforeCheckout, ClientsApart
<1> QED BY <1>1, <1>2, <1>3 DEF TypeOK

\* A client's own step takes it to the next line with the same payment, or to none; and
\* only the answer to the client opens its checkout.
LEMMA ClientProgress ==
  ASSUME TypeOK, LedgerInv, NEW p \in Clients, ClientStep(p)
  PROVE  /\ \A c \in Clients : c # p => proc'[c] = proc[c]
         /\ proc'[p].pc \in {"idle", "create", "link", "linkOrders", "mark"}
         /\ \/ \E t \in Payments :
                 CreateRow(p, t) /\ proc'[p].pay = t /\ status[t] = "NONE" /\ gateway' = gateway
            \/ /\ proc[p].pc # "idle"
               /\ proc'[p].pc # "idle" => proc'[p].pay = proc[p].pay
               /\ \A t \in Payments : t # proc[p].pay => gateway'[t] = gateway[t]
               /\ proc'[p].pc # "idle" => gateway'[proc[p].pay] \in {"created", gateway[proc[p].pay]}
<1> USE DEF Procs
<1>0. /\ proc[p] \in ProcRecord /\ DOMAIN proc = Procs
      /\ proc[p].pc # "idle" /\ proc[p].pc # "sweep" => proc[p].pay \in Payments
    BY DEF TypeOK
<1>1. \A c \in Clients : c # p => proc'[c] = proc[c]
    BY <1>0 DEF ClientStep, CreateRow, CreateCheckout, CreateRefused, LinkRow,
                LinkOrders, AnswerCheckout
<1>2. ASSUME NEW t \in Payments, CreateRow(p, t)
      PROVE  /\ proc'[p].pc = "create" /\ proc'[p].pay = t
             /\ status[t] = "NONE" /\ gateway' = gateway
    BY <1>0, <1>2 DEF CreateRow, IdleProc
<1>3. ASSUME CreateCheckout(p)
      PROVE  /\ proc[p].pc # "idle" /\ proc'[p].pc = "link" /\ proc'[p].pay = proc[p].pay
             /\ gateway' = [gateway EXCEPT ![proc[p].pay] = "created"]
    BY <1>0, <1>3 DEF CreateCheckout, ProcRecord
<1>4. ASSUME CreateRefused(p)
      PROVE  /\ proc[p].pc # "idle" /\ proc'[p].pc = "idle"
             /\ \A t \in Payments : t # proc[p].pay => gateway'[t] = gateway[t]
    BY <1>0, <1>4 DEF CreateRefused, IdleProc, TypeOK
<1>5. ASSUME LinkRow(p) \/ LinkOrders(p)
      PROVE  /\ proc[p].pc # "idle" /\ proc'[p].pc \in {"linkOrders", "mark"}
             /\ proc'[p].pay = proc[p].pay /\ gateway' = gateway
    BY <1>0, <1>5 DEF LinkRow, LinkOrders, ProcRecord
<1>6. ASSUME AnswerCheckout(p)
      PROVE  /\ proc[p].pc # "idle" /\ proc'[p].pc = "idle"
             /\ \A t \in Payments : t # proc[p].pay => gateway'[t] = gateway[t]
    BY <1>0, <1>6 DEF AnswerCheckout, IdleProc, TypeOK
<1>7. CASE CreateCheckout(p)
  <2>1. /\ \A t \in Payments : t # proc[p].pay => gateway'[t] = gateway[t]
        /\ gateway'[proc[p].pay] = "created"
      BY <1>0, <1>3, <1>7 DEF TypeOK, CreateCheckout
  <2> QED BY <1>1, <1>3, <1>7, <2>1
<1> QED BY <1>1, <1>2, <1>4, <1>5, <1>6, <1>7 DEF ClientStep

\* Every step keeps the clients apart.
LEMMA ApartStep ==
  ASSUME TypeOK, LedgerInv, ClientsApart, [Next]_vars
  PROVE  ClientsApart'
<1>1. ASSUME NEW p \in Clients, ClientStep(p) PROVE ClientsApart'
  <2>1. \A c \in Clients : proc'[c].pc \in {"idle", "create", "link", "linkOrders", "mark"}
      BY <1>1, ClientProgress DEF ClientsApart
  <2>2. ASSUME NEW c \in Clients, c # p, proc'[c].pc # "idle", proc'[p].pc # "idle"
        PROVE  proc'[c].pay # proc'[p].pay
    <3>1. proc'[c] = proc[c]
        BY <1>1, <2>2, ClientProgress
    <3>2. proc[c].pay \in Payments /\ status[proc[c].pay] # "NONE"
        BY <2>2, <3>1, RowAtWork
    <3> QED BY <1>1, <2>2, <3>1, <3>2, ClientProgress DEF ClientsApart
  <2>3. ASSUME NEW c \in Clients, NEW d \in Clients, c # d, proc'[c].pc # "idle",
               proc'[d].pc # "idle"
        PROVE  proc'[c].pay # proc'[d].pay
    <3>1. CASE c = p \/ d = p
        BY <2>2, <2>3, <3>1
    <3>2. CASE c # p /\ d # p
        BY <1>1, <2>3, <3>2, ClientProgress DEF ClientsApart
    <3> QED BY <3>1, <3>2
  <2>4. ASSUME NEW c \in Clients, proc'[c].pc # "idle"
        PROVE  gateway'[proc'[c].pay] \in {"none", "created", "expired"}
    <3>1. CASE c # p
      <4>1. proc'[c] = proc[c]
          BY <1>1, <3>1, ClientProgress
      <4>2. proc[c].pay \in Payments
          BY <2>4, <4>1, RowAtWork
      <4>3. proc[p].pc # "idle" => gateway'[proc[c].pay] = gateway[proc[c].pay]
        <5>1. proc[p].pc # "idle" => proc[c].pay # proc[p].pay
            BY <2>4, <3>1, <4>1 DEF ClientsApart
        <5> QED BY <1>1, <4>2, <5>1, ClientProgress
      <4>4. proc[p].pc = "idle" => gateway' = gateway
          BY <1>1, ClientProgress
      <4> QED BY <2>4, <4>1, <4>3, <4>4 DEF ClientsApart
    <3>2. CASE c = p
      <4>1. CASE proc[p].pc = "idle"
        <5>1. PICK t \in Payments : /\ proc'[p].pay = t /\ status[t] = "NONE"
                                    /\ gateway' = gateway
            BY <1>1, <4>1, ClientProgress
        <5> QED BY <3>2, <5>1 DEF LedgerInv, RowBeforeCheckout
      <4>2. CASE proc[p].pc # "idle"
        <5>1. /\ proc'[p].pay = proc[p].pay
              /\ gateway'[proc[p].pay] \in {"created", gateway[proc[p].pay]}
            BY <1>1, <2>4, <3>2, <4>2, ClientProgress DEF CreateRow
        <5> QED BY <3>2, <4>2, <5>1 DEF ClientsApart
      <4> QED BY <4>1, <4>2
    <3> QED BY <3>1, <3>2
  <2> QED BY <2>1, <2>3, <2>4 DEF ClientsApart
<1>2. ASSUME \A c \in Clients : ~ClientStep(c) PROVE ClientsApart'
  <2>1. \A c \in Clients : proc'[c] = proc[c] \/ proc'[c].pc = "idle"
      BY <1>2, OthersLeaveClients DEF IdleProc
  <2>2. ASSUME NEW c \in Clients, proc'[c].pc # "idle"
        PROVE  gateway'[proc'[c].pay] \in {"none", "created", "expired"}
    <3>1. proc'[c] = proc[c] /\ proc[c].pay \in Payments
        BY <2>1, <2>2, RowAtWork
    <3> QED BY <1>2, <2>2, <3>1, OthersOpenNone DEF ClientsApart
  <2> QED BY <2>1, <2>2 DEF ClientsApart
<1> QED BY <1>1, <1>2

LEMMA InitApart == Init => ClientsApart
BY DEF Init, ClientsApart, IdleProc, Procs

\* A step leaves a paid agency ACTIVE, or there is a checkout that takes it away.
LEMMA ActiveStep ==
  ASSUME TypeOK, LedgerInv, ClientsApart, PaidIsActive, [Next]_vars
  PROVE  PaidIsActive'
<1>1. CASE UNCHANGED <<status, agency>>
    BY <1>1 DEF PaidIsActive, Unsettling
<1>2. ASSUME NEW p \in Clients, NEW t \in Payments, CreateRow(p, t) PROVE PaidIsActive'
  <2>1. /\ status[t] = "NONE" /\ status'[t] = "PENDING" /\ agency' = agency
        /\ \A u \in Payments : u # t => status'[u] = status[u]
      BY <1>2 DEF CreateRow, TypeOK, subscription
  <2> QED BY <2>1 DEF PaidIsActive, Unsettling
<1>3. ASSUME NEW p \in Clients, CreateRefused(p) PROVE PaidIsActive'
  <2>1. proc[p].pay \in Payments
      BY <1>3, RowAtWork DEF CreateRefused
  <2>2. /\ status'[proc[p].pay] = "FAILED" /\ agency' = agency
        /\ \A u \in Payments : u # proc[p].pay => status'[u] = status[u]
      BY <1>3, <2>1 DEF CreateRefused, TypeOK, subscription
  <2> QED BY <2>1, <2>2 DEF PaidIsActive, Unsettling
<1>4. ASSUME NEW p \in Clients, AnswerCheckout(p) PROVE PaidIsActive'
  <2>1. proc[p].pay \in Payments /\ status[proc[p].pay] \in {"PENDING", "FAILED"}
      BY <1>4, RowAtWork DEF AnswerCheckout
  <2>2. status' = status /\ (Kind[proc[p].pay] # "subscription" => agency' = agency)
      BY <1>4 DEF AnswerCheckout, ledger
  <2> QED BY <2>1, <2>2 DEF PaidIsActive, Unsettling
<1>5. ASSUME NEW p \in Settlers, PaidCommit(p) PROVE PaidIsActive'
  <2>1. proc[p].pay \in Payments /\ gateway[proc[p].pay] = "paid"
      BY <1>5 DEF PaidCommit, LedgerInv, OutcomeIsFinal, TypeOK, Procs
  <2>2. status[proc[p].pay] # "FAILED"
      BY <2>1 DEF LedgerInv, LedgerAgrees
  <2>3. /\ \A u \in Payments : u # proc[p].pay => status'[u] = status[u]
        /\ Kind[proc[p].pay] = "subscription" => agency' = "ACTIVE"
        /\ Kind[proc[p].pay] # "subscription" => agency' = agency
      BY <1>5, <2>1 DEF PaidCommit, TypeOK, subscription
  <2> QED BY <2>1, <2>2, <2>3 DEF PaidIsActive, Unsettling
<1>6. ASSUME NEW p \in Settlers, FailedCommit(p) PROVE PaidIsActive'
  <2>1. proc[p].pay \in Payments
      BY <1>6 DEF FailedCommit, TypeOK, Procs
  <2>2. /\ status'[proc[p].pay] = "FAILED"
        /\ \A u \in Payments : u # proc[p].pay => status'[u] = status[u]
        /\ Kind[proc[p].pay] = "sms" => agency' = agency
      BY <1>6, <2>1 DEF FailedCommit, TypeOK
  <2> QED BY <2>1, <2>2 DEF PaidIsActive, Unsettling
<1> QED BY <1>1, <1>2, <1>3, <1>4, <1>5, <1>6, QuietForAgency

\* An agency that has paid for a term is ACTIVE, however settlements race, crash or are
\* replayed, unless another checkout of it has failed or is waiting to be paid.
THEOREM PaidAgencyActive == Spec => []PaidIsActive
<1>1. Init => PaidIsActive
    BY DEF Init, PaidIsActive
<1> QED BY <1>1, InitApart, ApartStep, ActiveStep, TypeCorrect, LedgerInvariant, PTL DEF Spec

\* A process that is about to approve the orders of a payment goes on to do so, or dies.
LEMMA ApprovalGoesOn ==
  ASSUME TypeOK, [Next]_vars, NEW p \in Settlers, proc[p].pc \in {"hardware", "approve"}
  PROVE  \/ proc'[p] = proc[p]
         \/ ReadOrders(p)
         \/ \E o \in Orders : ApproveOrder(p, o)
         \/ crashes' > 0
<1> USE DEF Procs
<1>1. ASSUME NEW q \in Clients, ClientStep(q) PROVE proc'[p] = proc[p]
    BY <1>1, SettlementAssumption
       DEF SettlementAssumption, TypeOK, ClientStep, CreateRow, CreateCheckout,
           CreateRefused, LinkRow, LinkOrders, AnswerCheckout
<1>2. ASSUME NEW q \in Settlers, q # p, Hear(q) \/ SweepRead(q) \/ Unreachable(q)
      PROVE  proc'[p] = proc[p]
    BY <1>2 DEF TypeOK, Hear, Webhook, Poll, Verify, Attempt, SweepRead, Unreachable
<1>3. ASSUME NEW q \in Settlers, q # p, AskGateway(q) PROVE proc'[p] = proc[p]
    BY <1>3 DEF TypeOK, AskGateway, Ask, SweepExpire, SweepAsk
<1>4. ASSUME NEW q \in Settlers, q # p, SettleStep(q) PROVE proc'[p] = proc[p]
    BY <1>4 DEF TypeOK, SettleStep, ReadRow, PaidBegin, PaidCommit, FailedCommit,
                ReadOrders, ApproveOrder
<1>5. ASSUME Hear(p) \/ SweepRead(p) \/ Unreachable(p) \/ AskGateway(p) PROVE FALSE
    BY <1>5 DEF Hear, Webhook, Poll, Verify, Attempt, SweepRead, Unreachable, AskGateway, Ask,
                SweepExpire, SweepAsk
<1>6. ASSUME SettleStep(p) PROVE ReadOrders(p) \/ \E o \in Orders : ApproveOrder(p, o)
    BY <1>6 DEF SettleStep, ReadRow, PaidBegin, PaidCommit, FailedCommit
<1>7. ASSUME NEW q \in Procs, Crash(q) PROVE crashes' > 0
    BY <1>7, SettlementAssumption DEF Crash, TypeOK, SettlementAssumption
<1>8. ASSUME Tick \/ (\E t \in Payments : Decide(t, "paid") \/ Decide(t, "failed")) \/ UNCHANGED vars
      PROVE  proc'[p] = proc[p]
    BY <1>8 DEF Tick, Decide, vars
<1> QED BY <1>1, <1>2, <1>3, <1>4, <1>5, <1>6, <1>7, <1>8 DEF Next

\* As long as it is neither approved nor linked to another payment, the order stays among
\* those that are to be approved.
LEMMA ApprovalStep ==
  ASSUME TypeOK, [Next]_vars, NEW o \in Orders, NEW t \in Payments, ApprovalComing(o, t),
         orderRef[o] = t, order[o] = "PENDING", order'[o] = "PENDING"
  PROVE  ApprovalComing(o, t)' \/ crashes' > 0
<1>1. PICK p \in Settlers :
         /\ proc[p].pay = t
         /\ proc[p].pc = "hardware" \/ (proc[p].pc = "approve" /\ o \in proc[p].orders)
    BY DEF ApprovalComing
<1>0. proc[p] \in ProcRecord /\ p \in DOMAIN proc
    BY DEF TypeOK, Procs
<1>2. CASE proc'[p] = proc[p]
    BY <1>1, <1>2 DEF ApprovalComing
<1>3. CASE ReadOrders(p)
  <2> DEFINE mine == {x \in Orders : orderRef[x] = proc[p].pay /\ order[x] = "PENDING"}
  <2>1. o \in mine
      BY <1>1
  <2>2. proc[p].pc = "hardware"
      BY <1>3 DEF ReadOrders
  <2>3. proc' = [proc EXCEPT ![p] = IF mine = {} THEN Done(proc[p])
                                    ELSE [proc[p] EXCEPT !.pc = "approve", !.orders = mine]]
      BY <1>3 DEF ReadOrders
  <2> HIDE DEF mine
  <2>4. proc'[p] = [proc[p] EXCEPT !.pc = "approve", !.orders = mine]
      BY <1>0, <2>1, <2>3
  <2>5. proc'[p].pc = "approve" /\ proc'[p].pay = t /\ o \in proc'[p].orders
      BY <1>0, <1>1, <2>1, <2>4 DEF ProcRecord
  <2> QED BY <2>5 DEF ApprovalComing
<1>4. ASSUME NEW x \in Orders, ApproveOrder(p, x) PROVE ApprovalComing(o, t)'
  <2>1. x # o
      BY <1>4 DEF ApproveOrder, TypeOK
  <2>2. proc[p].pc = "approve" /\ o \in proc[p].orders
      BY <1>1, <1>4 DEF ApproveOrder
  <2>3. proc'[p] = [proc[p] EXCEPT !.orders = @ \ {x}]
      BY <1>0, <1>4, <2>1, <2>2 DEF ApproveOrder
  <2>4. proc'[p].pc = "approve" /\ proc'[p].pay = t /\ o \in proc'[p].orders
      BY <1>0, <1>1, <2>1, <2>2, <2>3 DEF ProcRecord
  <2> QED BY <2>4 DEF ApprovalComing
<1> QED BY <1>1, <1>2, <1>3, <1>4, ApprovalGoesOn

\* Only clients link orders, and only a commit completes a payment; no approval is undone.
LEMMA QuietForOrders ==
  ASSUME TypeOK, [Next]_vars, NEW o \in Orders, NEW t \in Payments
  PROVE  /\ UNCHANGED orderRef \/ \E p \in Clients : LinkOrders(p)
         /\ order'[o] = "PENDING" => order[o] = "PENDING"
         /\ status'[t] = "COMPLETED" =>
              \/ status[t] = "COMPLETED"
              \/ \E p \in Settlers : PaidCommit(p) /\ proc[p].pay = t
         /\ crashes > 0 => crashes' > 0
<1> USE DEF ledger, orders, counts
<1>1. ASSUME NEW p \in Clients, ClientStep(p)
      PROVE  /\ UNCHANGED orderRef \/ LinkOrders(p)
             /\ UNCHANGED <<order, crashes>>
             /\ status'[t] = "COMPLETED" => status[t] = "COMPLETED"
    BY <1>1 DEF TypeOK, ClientStep, CreateRow, CreateCheckout, CreateRefused, LinkRow, LinkOrders,
                AnswerCheckout
<1>2. ASSUME NEW p \in Settlers, Hear(p) \/ SweepRead(p) \/ AskGateway(p) \/ Unreachable(p)
      PROVE  UNCHANGED <<status, order, orderRef, crashes>>
    BY <1>2 DEF Hear, Webhook, Poll, Verify, Attempt, SweepRead, AskGateway, Ask, SweepExpire,
                SweepAsk, Unreachable
<1>3. ASSUME NEW p \in Settlers, SettleStep(p)
      PROVE  /\ UNCHANGED <<orderRef, crashes>>
             /\ order'[o] = "PENDING" => order[o] = "PENDING"
             /\ status'[t] = "COMPLETED" =>
                  status[t] = "COMPLETED" \/ (PaidCommit(p) /\ proc[p].pay = t)
    BY <1>3 DEF TypeOK, SettleStep, ReadRow, PaidBegin, PaidCommit, FailedCommit, ReadOrders,
                ApproveOrder
<1>4. ASSUME \/ Tick \/ UNCHANGED vars
             \/ \E u \in Payments : Decide(u, "paid") \/ Decide(u, "failed")
      PROVE  UNCHANGED <<status, order, orderRef, crashes>>
    BY <1>4 DEF Tick, vars, Decide
<1>5. ASSUME NEW p \in Procs, Crash(p)
      PROVE  UNCHANGED <<status, order, orderRef>> /\ crashes' > 0
    BY <1>5, SettlementAssumption DEF Crash, TypeOK, SettlementAssumption
<1> QED BY <1>1, <1>2, <1>3, <1>4, <1>5 DEF Next

\* Every step leaves the order of a paid checkout approved, or somebody about to do it.
LEMMA OrdersStep ==
  ASSUME TypeOK, LedgerInv, ClientsApart, PaidOrderApproved, [Next]_vars
  PROVE  PaidOrderApproved'
<1> SUFFICES ASSUME NEW o \in Orders, NEW t \in Payments,
                    orderRef'[o] = t, status'[t] = "COMPLETED", order'[o] = "PENDING",
                    ~(crashes' > 0)
             PROVE  ApprovalComing(o, t)'
    BY DEF PaidOrderApproved
<1>1. order[o] = "PENDING" /\ ~(crashes > 0)
    BY QuietForOrders
<1>2. ASSUME NEW p \in Settlers, PaidCommit(p), proc[p].pay = t PROVE ApprovalComing(o, t)'
  <2>1. proc'[p].pc = "hardware" /\ proc'[p].pay = t
      BY <1>2 DEF PaidCommit, TypeOK, Procs, ProcRecord
  <2> QED BY <2>1 DEF ApprovalComing
<1>3. CASE status[t] = "COMPLETED"
  <2>1. ASSUME NEW p \in Clients, LinkOrders(p) PROVE orderRef'[o] = orderRef[o]
    <3>1. proc[p].pay # t
        BY <1>3, <2>1, RowAtWork DEF LinkOrders
    <3> QED BY <2>1, <3>1 DEF LinkOrders
  <2>2. orderRef[o] = t
      BY <2>1, QuietForOrders
  <2>3. ApprovalComing(o, t)
      BY <1>1, <1>3, <2>2 DEF PaidOrderApproved
  <2> QED BY <1>1, <2>2, <2>3, ApprovalStep
<1> QED BY <1>2, <1>3, QuietForOrders

\* Until a process dies, an order whose link is a paid checkout is approved or about to be,
\* however checkouts take their orders from each other and however settlements race.
THEOREM PaidOrders == Spec => []PaidOrderApproved
<1>1. Init => PaidOrderApproved
    BY DEF Init, PaidOrderApproved
<1> QED BY <1>1, InitApart, ApartStep, OrdersStep, TypeCorrect, LedgerInvariant, PTL DEF Spec
-----------------------------------------------------------------------------
(* Settlements that race. *)

\* No settlement turns around what another one has settled.
LEMMA OutcomeStep ==
  ASSUME TypeOK, LedgerInv, [Next]_vars, NEW t \in Payments,
         status[t] \in {"COMPLETED", "FAILED"}
  PROVE  status'[t] = status[t]
<1>0. \A p \in Procs : proc[p].pc \notin {"idle", "sweep"} => proc[p].pay \in Payments
    BY DEF TypeOK
<1>1. CASE UNCHANGED <<status, agency>>
    BY <1>1
<1>2. ASSUME NEW p \in Clients, NEW u \in Payments, CreateRow(p, u) PROVE status'[t] = status[t]
    BY <1>2 DEF CreateRow, TypeOK
<1>3. ASSUME NEW p \in Clients, CreateRefused(p) \/ AnswerCheckout(p)
      PROVE  status'[t] = status[t]
  <2>1. CreateRefused(p) => status[proc[p].pay] = "PENDING"
      BY DEF CreateRefused, LedgerInv, RowBeforeCheckout
  <2> QED BY <1>3, <2>1 DEF CreateRefused, AnswerCheckout, ledger, TypeOK
<1>4. ASSUME NEW p \in Settlers, PaidCommit(p) PROVE status'[t] = status[t]
  <2>1. gateway[proc[p].pay] = "paid"
      BY <1>4 DEF PaidCommit, LedgerInv, OutcomeIsFinal
  <2>2. t = proc[p].pay => status[t] = "COMPLETED"
      BY <2>1 DEF LedgerInv, LedgerAgrees
  <2> QED BY <1>4, <2>2 DEF PaidCommit, TypeOK
<1>5. ASSUME NEW p \in Settlers, FailedCommit(p) PROVE status'[t] = status[t]
  <2>1. gateway[proc[p].pay] # "paid"
      BY <1>5 DEF FailedCommit, LedgerInv, OutcomeIsFinal
  <2>2. t = proc[p].pay => status[t] = "FAILED"
      BY <2>1 DEF LedgerInv, LedgerAgrees
  <2> QED BY <1>5, <2>2 DEF FailedCommit, TypeOK
<1> QED BY <1>1, <1>2, <1>3, <1>4, <1>5, QuietForAgency

\* However many settlements race, and whatever is replayed or late, a payment that is settled
\* stays as it was settled.
THEOREM Outcomes == Spec => OutcomeKept
<1>1. TypeOK /\ LedgerInv /\ [Next]_vars =>
        [\A t \in Payments : status[t] \in {"COMPLETED", "FAILED"} => status'[t] = status[t]]_vars
    BY OutcomeStep
<1> QED BY <1>1, TypeCorrect, LedgerInvariant, PTL DEF Spec, OutcomeKept

\* The settlements that may still grant payment t.
Granting(t) ==
  {p \in Settlers : /\ proc[p].pc \in {"settle", "commit"}
                    /\ proc[p].outcome = "paid" /\ proc[p].pay = t}

\* Every settlement that may grant t began before t was settled, so that together with the
\* grants made so far there are no more of them than settlements in flight at once.
GrantsInv ==
  /\ \A p \in Settlers : proc[p].pc = "commit" => proc[p].outcome = "paid"
  /\ \A t \in Payments : status[t] \in {"NONE", "PENDING"} => granted[t] = 0
  /\ \A t \in Payments : granted[t] + Cardinality(Granting(t)) <= Cardinality(Settlers)

LEMMA SomeSettlers ==
  ASSUME NEW S \in SUBSET Settlers
  PROVE  /\ IsFiniteSet(S) /\ Cardinality(S) \in Nat
         /\ Cardinality(Settlers) \in Nat /\ Cardinality(S) <= Cardinality(Settlers)
BY SettlementAssumption, FS_Subset, FS_CardinalityType DEF SettlementAssumption

\* Who may grant t now could do so before, or has just read t PENDING.
LEMMA GrantingFrom ==
  ASSUME TypeOK, GrantsInv, [Next]_vars, NEW t \in Payments
  PROVE  \/ Granting(t)' \subseteq Granting(t)
         \/ status[t] = "PENDING" /\ UNCHANGED <<status, granted>>
<1> SUFFICES ASSUME NEW p \in Settlers, p \in Granting(t)', p \notin Granting(t)
             PROVE  status[t] = "PENDING" /\ UNCHANGED <<status, granted>>
    BY DEF Granting
<1>1. proc'[p].pc \in {"settle", "commit"} /\ proc'[p].outcome = "paid" /\ proc'[p].pay = t
    BY DEF Granting
<1>2. ReadRow(p) /\ status[proc[p].pay] = "PENDING" /\ proc[p].pay = t
    BY <1>1, SettlingFrom DEF Granting
<1> QED BY <1>2 DEF ReadRow, ledger
\* Only the commit of a paid checkout grants it, and it settles the row.
LEMMA OnlyCommitGrants ==
  ASSUME TypeOK, [Next]_vars, NEW t \in Payments, granted'[t] # granted[t]
  PROVE  \E p \in Settlers :
           /\ proc[p].pc = "commit" /\ proc[p].pay = t /\ proc'[p].pc = "hardware"
           /\ granted'[t] = granted[t] + 1 /\ status'[t] = "COMPLETED"
<1>1. \/ UNCHANGED granted
      \/ \E p \in Settlers : PaidCommit(p)
    BY DEF Next, ClientStep, CreateRow, CreateCheckout, CreateRefused, LinkRow, LinkOrders,
           AnswerCheckout, Decide, Hear, Webhook, Poll, Verify, Attempt, SweepRead, AskGateway,
           Ask, SweepExpire, SweepAsk, Unreachable, SettleStep, ReadRow, PaidBegin,
           FailedCommit, ReadOrders, ApproveOrder, Crash, Tick, vars
<1>2. PICK p \in Settlers : PaidCommit(p)
    BY <1>1
<1>3. p \in Procs /\ proc[p] \in ProcRecord
    BY DEF TypeOK, Procs
<1>4. t = proc[p].pay /\ granted'[t] = granted[t] + 1 /\ status'[t] = "COMPLETED"
    BY <1>2 DEF PaidCommit, TypeOK
<1>5. proc[p].pc = "commit" /\ proc'[p].pc = "hardware"
    BY <1>2, <1>3 DEF PaidCommit, TypeOK, ProcRecord
<1> QED BY <1>4, <1>5

LEMMA GrantsStep ==
  ASSUME TypeOK, LedgerInv, GrantsInv, [Next]_vars PROVE GrantsInv'
<1>1. \A p \in Settlers : proc'[p].pc = "commit" => proc'[p].outcome = "paid"
    BY SettlingFrom DEF GrantsInv
<1>2. ASSUME NEW t \in Payments
      PROVE  /\ status'[t] \in {"NONE", "PENDING"} => granted'[t] = 0
             /\ granted'[t] + Cardinality(Granting(t)') <= Cardinality(Settlers)
  <2> DEFINE S == Granting(t)
             R == Granting(t)'
  <2>0. S \in SUBSET Settlers /\ R \in SUBSET Settlers
      BY DEF Granting
  <2>1. /\ granted[t] \in Nat
        /\ status[t] \in {"NONE", "PENDING"} => granted[t] = 0
        /\ granted[t] + Cardinality(S) <= Cardinality(Settlers)
      BY DEF TypeOK, GrantsInv
  <2>2. status[t] \in {"NONE", "PENDING"} \/ status[t] \in {"COMPLETED", "FAILED"}
      BY DEF TypeOK
  <2>3. R \subseteq S \/ (status[t] = "PENDING" /\ UNCHANGED <<status, granted>>)
      BY GrantingFrom
  <2>4. \A p \in S : proc'[p].pc = "hardware" => p \notin R
      BY DEF Granting
  <2>5. ASSUME NEW p \in Settlers, proc[p].pc = "commit", proc[p].pay = t PROVE p \in S
      BY <2>5 DEF Granting, GrantsInv
  <2>6. status[t] \in {"COMPLETED", "FAILED"} => status'[t] = status[t]
      BY OutcomeStep
  <2> HIDE DEF S, R
  <2>7. /\ IsFiniteSet(S) /\ Cardinality(S) \in Nat
        /\ Cardinality(R) \in Nat /\ Cardinality(Settlers) \in Nat
        /\ Cardinality(R) <= Cardinality(Settlers)
      BY <2>0, SomeSettlers
  <2>8. CASE granted'[t] = granted[t]
    <3>1. CASE R \subseteq S
      <4>1. Cardinality(R) <= Cardinality(S)
          BY <2>7, <3>1, FS_Subset
      <4> QED BY <2>1, <2>2, <2>6, <2>7, <2>8, <4>1 DEF R
    <3>2. CASE status[t] = "PENDING"
        BY <2>1, <2>7, <2>8, <3>2 DEF R
    <3> QED BY <2>3, <3>1, <3>2
  <2>9. CASE granted'[t] # granted[t]
    <3>1. PICK p \in Settlers : /\ proc[p].pc = "commit" /\ proc[p].pay = t
                                /\ proc'[p].pc = "hardware"
                                /\ granted'[t] = granted[t] + 1 /\ status'[t] = "COMPLETED"
        BY <2>9, OnlyCommitGrants
    <3>2. p \in S /\ R \subseteq S \ {p}
        BY <2>3, <2>4, <2>5, <2>9, <3>1
    <3>3. IsFiniteSet(S \ {p}) /\ Cardinality(S \ {p}) = Cardinality(S) - 1
        BY <2>7, <3>2, FS_RemoveElement
    <3>4. Cardinality(R) <= Cardinality(S) - 1
        BY <3>2, <3>3, FS_Subset
    <3> QED BY <2>1, <2>7, <3>1, <3>4 DEF R
  <2> QED BY <2>8, <2>9
<1> QED BY <1>1, <1>2 DEF GrantsInv

\* However many settlements race for a paid checkout, and however often it is replayed, it is
\* granted no more often than settlements are in flight at once.
THEOREM RaceBounded == Spec => []GrantsBounded
<1>1. Init => GrantsInv
  <2> SUFFICES ASSUME Init PROVE GrantsInv
      OBVIOUS
  <2>1. \A t \in Payments : granted[t] = 0
      BY DEF Init
  <2>2. \A p \in Settlers : proc[p].pc # "commit"
      BY DEF Init, Procs, IdleProc
  <2>3. \A t \in Payments : /\ Cardinality(Granting(t)) \in Nat
                             /\ Cardinality(Granting(t)) <= Cardinality(Settlers)
    <3>1. \A t \in Payments : Granting(t) \in SUBSET Settlers
        BY DEF Granting
    <3> QED BY <3>1, SomeSettlers
  <2> QED BY <2>1, <2>2, <2>3 DEF GrantsInv
<1>2. TypeOK /\ GrantsInv => GrantsBounded
  <2> SUFFICES ASSUME TypeOK, GrantsInv, NEW t \in Payments
               PROVE  granted[t] <= Cardinality(Settlers)
      BY DEF GrantsBounded
  <2>1. Granting(t) \in SUBSET Settlers
      BY DEF Granting
  <2>2. Cardinality(Granting(t)) \in Nat /\ Cardinality(Settlers) \in Nat
      BY <2>1, SomeSettlers
  <2> QED BY <2>2 DEF TypeOK, GrantsInv
<1> QED BY <1>1, <1>2, GrantsStep, TypeCorrect, LedgerInvariant, PTL DEF Spec
==============================================================================
