---------------------------- MODULE ServingProofs ----------------------------
(* Proofs about the queue of module Serving, for any number of tickets, desks and requests. *)
EXTENDS Serving, FiniteNumbers, TLAPS

\* What a transaction reads as its candidates are tickets.
LEMMA CandidatesAreTickets ==
  ASSUME NEW scope, NEW own PROVE Candidates(scope, own) \subseteq Tickets
BY DEF Candidates

\* The history of open claims keeps its type whenever the requests do.
LEMMA ObserveTyped ==
  ASSUME TypeOK, Observe, call' \in [Callers -> CallRecord]
  PROVE  stayed' \in [Callers -> SUBSET Tickets]
<1> SUFFICES ASSUME NEW d \in Callers
             PROVE  (IF call'[d].pc # "claim" THEN {}
                     ELSE IF call[d].pc # "claim" THEN call'[d].cand
                     ELSE {t \in stayed[d] : status'[t] = "WAITING"}) \in SUBSET Tickets
    BY DEF Observe
<1>1. call'[d].cand \in SUBSET Tickets
    BY DEF CallRecord
<1>2. stayed[d] \in SUBSET Tickets
    BY DEF TypeOK
<1> QED BY <1>1, <1>2

\* The services a request may call from are services of the agency.
LEMMA ScopeTyped ==
  ASSUME NEW c \in Counters \cup {None}, NEW s \in Services \cup {None}
  PROVE  Scope(c, s) \subseteq Services
<1>1. Binding(c) \subseteq Services
    BY ServingAssumption DEF ServingAssumption, Binding
<1> QED BY <1>1 DEF Scope, ServiceScope

\* The records of requests that have answered have their types.
LEMMA IdleTyped == IdleCall \in CallRecord /\ IdleReq \in ReqRecord
  BY ServingAssumption
     DEF ServingAssumption, IdleCall, IdleReq, CallRecord, ReqRecord, Status, Active, Terminal

\* A step that only moves request d on to the record x keeps the types.
LEMMA CallMoveTyped ==
  ASSUME TypeOK, Observe, NEW d \in Callers, NEW x \in CallRecord,
         x.pc = "idle" => x.done = {},
         call' = [call EXCEPT ![d] = x],
         calls' \in 0 .. MaxCalls,
         UNCHANGED <<ticketVars, deskVars, req, callers, requests>>
  PROVE  TypeOK'
<1>1. call' \in [Callers -> CallRecord]
    BY DEF TypeOK
<1>2. \A e \in Callers : call'[e].pc = "idle" => call'[e].done = {}
    BY DEF TypeOK
<1> QED BY <1>1, <1>2, ObserveTyped DEF TypeOK, ticketVars, deskVars

\* A handler that begins with the record r keeps the types.
LEMMA BeginTyped ==
  ASSUME TypeOK, NEW h \in Handlers, NEW r \in ReqRecord, Begin(h, r)
  PROVE  TypeOK'
<1>1. req' \in [Handlers -> ReqRecord]
    BY DEF TypeOK, Begin
<1>2. requests' \in 0 .. MaxRequests
    BY ServingAssumption DEF TypeOK, Begin, ServingAssumption
<1>3. Observe /\ UNCHANGED <<ticketVars, deskVars, call, calls, callers>>
    BY DEF Begin
<1>4. call' \in [Callers -> CallRecord]
    BY <1>3 DEF TypeOK
<1> QED BY <1>1, <1>2, <1>3, <1>4, ObserveTyped DEF TypeOK, ticketVars, deskVars

\* So has what a handler keeps of the ticket it has read.
LEMMA OpOnTyped ==
  ASSUME TypeOK, NEW t \in Tickets, NEW next \in Status,
         NEW op \in {"cancel", "cancelActive", "status", "patch", "reclaim"}
  PROVE  OpOn(t, op, next) \in ReqRecord
BY DEF TypeOK, OpOn, IdleReq, ReqRecord

\* Every step of the queue keeps the types.
LEMMA TypeStep ==
  ASSUME TypeOK, Next PROVE TypeOK'
<1> USE ServingAssumption DEF ServingAssumption, ticketVars, deskVars, counts, Status, Active, Terminal
<1>1. ASSUME NEW t \in Tickets, Join(t) PROVE TypeOK'
    BY <1>1, ObserveTyped DEF TypeOK, CallRecord, ReqRecord, Join
<1>2. ASSUME NEW d \in Callers, NEW c \in Counters \cup {None}, NEW s \in Services \cup {None}, CallAdmit(d, c, s) PROVE TypeOK'
  <2> DEFINE x == [IdleCall EXCEPT !.pc = "scan", !.counter = c, !.scope = Scope(c, s), !.try = 1]
  <2>1. x \in CallRecord /\ (x.pc = "idle" => x.done = {})
    <3>1. Scope(c, s) \subseteq Services
        BY ScopeTyped
    <3>2. 1 \in 0 .. MaxTxRetries
        OBVIOUS
    <3> QED BY <3>1, <3>2, IdleTyped DEF CallRecord
  <2>2. call' = [call EXCEPT ![d] = x]
      BY <1>2 DEF TypeOK, CallRecord, CallAdmit, IdleCall, Scope, ServiceScope, Binding, BoundServices
  <2>3. Observe /\ calls' \in 0 .. MaxCalls /\ UNCHANGED <<ticketVars, deskVars, req, callers, requests>>
      BY <1>2 DEF TypeOK, CallAdmit, IdleCall, Scope, ServiceScope, Binding, BoundServices
  <2> QED BY <2>1, <2>2, <2>3, CallMoveTyped
<1>3. ASSUME NEW d \in Callers, CallScan(d) PROVE TypeOK'
  <2> DEFINE x == [call[d] EXCEPT !.pc = "complete",
                    !.called = {t \in Tickets : /\ counterOf[t] = call[d].counter
                                                /\ call[d].counter # None
                                                /\ status[t] = "CALLED"}]
  <2>1. x \in CallRecord /\ (x.pc = "idle" => x.done = {})
    <3>1. call[d] \in CallRecord
        BY DEF TypeOK
    <3> QED BY <3>1, IdleTyped DEF CallRecord
  <2>2. call' = [call EXCEPT ![d] = x]
      BY <1>3 DEF TypeOK, CallRecord, CallScan
  <2>3. Observe /\ calls' \in 0 .. MaxCalls /\ UNCHANGED <<ticketVars, deskVars, req, callers, requests>>
      BY <1>3 DEF TypeOK, CallScan
  <2> QED BY <2>1, <2>2, <2>3, CallMoveTyped
<1>4. ASSUME NEW d \in Callers, CallAutoComplete(d) PROVE TypeOK'
  <2> DEFINE x == [call[d] EXCEPT !.pc = "claim", !.done = call[d].called,
                    !.cand = Candidates(call[d].scope, call[d].called)]
  <2>1. x \in CallRecord /\ (x.pc = "idle" => x.done = {})
    <3>1. call[d] \in CallRecord
        BY DEF TypeOK
    <3>2. Candidates(call[d].scope, call[d].called) \subseteq Tickets
        BY CandidatesAreTickets
    <3> QED BY <3>1, <3>2, IdleTyped DEF CallRecord
  <2>2. call' = [call EXCEPT ![d] = x]
      BY <1>4 DEF TypeOK, CallRecord, CallAutoComplete
  <2>3. Observe /\ calls' \in 0 .. MaxCalls /\ UNCHANGED <<ticketVars, deskVars, req, callers, requests>>
      BY <1>4 DEF TypeOK, CallAutoComplete
  <2> QED BY <2>1, <2>2, <2>3, CallMoveTyped
<1>5. ASSUME NEW d \in Callers, NEW t \in Tickets, CallClaim(d, t) PROVE TypeOK'
    BY <1>5, ObserveTyped DEF TypeOK, CallRecord, ReqRecord, CallClaim, Trying, Assign, AfterCommit, IdleCall
<1>6. ASSUME NEW d \in Callers, NEW t \in Tickets, CallLose(d, t) PROVE TypeOK'
  <2> DEFINE x == [call[d] EXCEPT !.cand = @ \ {t}]
  <2>1. x \in CallRecord /\ (x.pc = "idle" => x.done = {})
    <3>1. call[d] \in CallRecord
        BY DEF TypeOK
    <3>2. call[d].pc = "claim"
        BY <1>6 DEF CallLose, Trying
    <3> QED BY <3>1, <3>2, IdleTyped DEF CallRecord
  <2>2. call' = [call EXCEPT ![d] = x]
      BY <1>6 DEF TypeOK, CallRecord, CallLose, Trying
  <2>3. Observe /\ calls' \in 0 .. MaxCalls /\ UNCHANGED <<ticketVars, deskVars, req, callers, requests>>
      BY <1>6 DEF TypeOK, CallLose, Trying
  <2> QED BY <2>1, <2>2, <2>3, CallMoveTyped
<1>7. ASSUME NEW d \in Callers, NEW t \in Tickets, CallCollide(d, t) PROVE TypeOK'
    BY <1>7, ObserveTyped DEF TypeOK, CallRecord, ReqRecord, CallCollide, Trying, IdleCall
<1>8. ASSUME NEW d \in Callers, CallNothing(d) PROVE TypeOK'
    BY <1>8, ObserveTyped DEF TypeOK, CallRecord, ReqRecord, CallNothing, AfterCommit, IdleCall
<1>9. ASSUME NEW d \in Callers, CallRetry(d) PROVE TypeOK'
  <2> DEFINE x == IF call[d].try = MaxTxRetries THEN IdleCall
             ELSE [IdleCall EXCEPT !.pc = "scan", !.counter = call[d].counter,
                                   !.scope = call[d].scope, !.try = call[d].try + 1]
  <2>1. x \in CallRecord /\ (x.pc = "idle" => x.done = {})
    <3>1. call[d] \in CallRecord
        BY DEF TypeOK
    <3>2. call[d].try # MaxTxRetries => call[d].try + 1 \in 0 .. MaxTxRetries
        BY <3>1 DEF CallRecord
    <3>3. IdleCall.done = {}
        BY DEF IdleCall
    <3> QED BY <3>1, <3>2, <3>3, IdleTyped DEF CallRecord
  <2>2. call' = [call EXCEPT ![d] = x]
      BY <1>9 DEF TypeOK, CallRecord, CallRetry, IdleCall
  <2>3. Observe /\ calls' \in 0 .. MaxCalls /\ UNCHANGED <<ticketVars, deskVars, req, callers, requests>>
      BY <1>9 DEF TypeOK, CallRetry, IdleCall
  <2> QED BY <2>1, <2>2, <2>3, CallMoveTyped
<1>10. ASSUME NEW d \in Callers, CallCrash(d) PROVE TypeOK'
    BY <1>10, ObserveTyped DEF TypeOK, CallRecord, ReqRecord, CallCrash, IdleCall
<1>11. ASSUME NEW h \in Handlers, NEW t \in Tickets, CancelRead(h, t) PROVE TypeOK'
    BY <1>11, BeginTyped, OpOnTyped DEF CancelRead
<1>12. ASSUME NEW h \in Handlers, NEW t \in Tickets, CancelActiveRead(h, t) PROVE TypeOK'
    BY <1>12, BeginTyped, OpOnTyped DEF CancelActiveRead
<1>13. ASSUME NEW h \in Handlers, NEW t \in Tickets, NEW s \in Status, StatusRead(h, t, s) PROVE TypeOK'
    BY <1>13, BeginTyped, OpOnTyped DEF StatusRead
<1>14. ASSUME NEW h \in Handlers, NEW t \in Tickets, NEW s \in Status, PatchRead(h, t, s) PROVE TypeOK'
  <2> DEFINE r == [OpOn(t, "patch", s) EXCEPT !.linked = counterOf[t] # None]
  <2>1. OpOn(t, "patch", s) \in ReqRecord
      BY OpOnTyped
  <2>2. r \in ReqRecord
      BY <2>1 DEF ReqRecord
  <2> QED BY <1>14, <2>2, BeginTyped DEF PatchRead
<1>15. ASSUME NEW h \in Handlers, NEW t \in Tickets, Overwrite(h, t) PROVE TypeOK'
    BY <1>15, ObserveTyped DEF TypeOK, CallRecord, ReqRecord, Overwrite, IdleReq
<1>16. ASSUME NEW h \in Handlers, NEW t \in Tickets, PatchWrite(h, t) PROVE TypeOK'
    BY <1>16, ObserveTyped DEF TypeOK, CallRecord, ReqRecord, PatchWrite, IdleReq
<1>17. ASSUME NEW h \in Handlers, NEW t \in Tickets, PatchConflict(h, t) PROVE TypeOK'
    BY <1>17, ObserveTyped DEF TypeOK, CallRecord, ReqRecord, PatchConflict, IdleReq
<1>18. ASSUME NEW h \in Handlers, NEW t \in Tickets, ReclaimRead(h, t) PROVE TypeOK'
    BY <1>18, BeginTyped, OpOnTyped DEF ReclaimRead
<1>19. ASSUME NEW h \in Handlers, NEW t \in Tickets, ReclaimLook(h, t) PROVE TypeOK'
  <2>1. req[h] \in ReqRecord
      BY DEF TypeOK
  <2>2. \A s \in Status : [req[h] EXCEPT !.op = "reclaimTx", !.next = s] \in ReqRecord
      BY <2>1 DEF ReqRecord
  <2>3. req[h].seen \in Status
      BY <2>1 DEF ReqRecord
  <2>4. req' \in [Handlers -> ReqRecord]
      BY <1>19, <2>2, <2>3 DEF ReclaimLook, TypeOK
  <2> QED BY <1>19, <2>4, ObserveTyped DEF ReclaimLook, TypeOK
<1>20. ASSUME NEW h \in Handlers, NEW t \in Tickets, ReclaimWrite(h, t) PROVE TypeOK'
    BY <1>20, ObserveTyped DEF TypeOK, CallRecord, ReqRecord, ReclaimWrite, IdleReq
<1>21. ASSUME NEW h \in Handlers, NEW t \in Tickets, SkipWrite(h, t) PROVE TypeOK'
  <2>0. req[h] \in ReqRecord
      BY DEF TypeOK
  <2>1. [req[h] EXCEPT !.todo = @ \ {t}] \in ReqRecord
      BY <2>0 DEF ReqRecord
  <2>2. req' \in [Handlers -> ReqRecord]
      BY <1>21, <2>0, <2>1, IdleTyped DEF SkipWrite, TypeOK
  <2> QED BY <1>21, <2>2, ObserveTyped DEF SkipWrite, TypeOK
<1>22. ASSUME NEW h \in Handlers, NEW S \in SUBSET Tickets, SkipRead(h, S) PROVE TypeOK'
  <2> DEFINE r == [IdleReq EXCEPT !.op = "skip", !.todo = S]
  <2>1. r \in ReqRecord
      BY DEF IdleReq, ReqRecord
  <2> QED BY <1>22, <2>1, BeginTyped DEF SkipRead
<1>23. ASSUME NEW h \in Handlers, HandlerCrash(h) PROVE TypeOK'
    BY <1>23, ObserveTyped DEF TypeOK, CallRecord, ReqRecord, HandlerCrash, IdleReq
<1>24. ASSUME NEW S \in SUBSET Tickets, BatchComplete(S) PROVE TypeOK'
    BY <1>24, ObserveTyped DEF TypeOK, CallRecord, ReqRecord, BatchComplete
<1> QED BY <1>1, <1>2, <1>3, <1>4, <1>5, <1>6, <1>7, <1>8, <1>9, <1>10, <1>11, <1>12, <1>13, <1>14, <1>15, <1>16, <1>17, <1>18, <1>19, <1>20, <1>21, <1>22, <1>23, <1>24 DEF Next, CallStep, HandlerStep

\* So does a step that changes nothing.
LEMMA TypeStutter ==
  ASSUME TypeOK, UNCHANGED vars PROVE TypeOK'
BY DEF TypeOK, vars

\* Every variable of the queue keeps its type, and a request that has answered holds no
\* row, in every behaviour.
THEOREM TypeCorrect == Spec => []TypeOK
<1>1. Init => TypeOK
    BY ServingAssumption, IdleTyped
       DEF ServingAssumption, Init, TypeOK, Status, Active, Terminal, IdleCall
<1>2. TypeOK /\ [Next]_vars => TypeOK'
    BY TypeStep, TypeStutter
<1> QED BY <1>1, <1>2, PTL DEF Spec
-----------------------------------------------------------------------------
(* The desks and the tickets they show. *)

\* All but two of the actions leave the desks and the counters of the tickets alone.
LEMMA OnlyClaimAndPatch ==
  ASSUME [Next]_vars
  PROVE  \/ \E d \in Callers, t \in Tickets : CallClaim(d, t)
         \/ \E h \in Handlers, t \in Tickets : PatchWrite(h, t)
         \/ UNCHANGED <<counterOf, current>>
<1> DEFINE Quiet == UNCHANGED <<counterOf, current>>
<1>1. ASSUME NEW d \in Callers, CallStep(d) \/ CallCrash(d)
      PROVE  (\E t \in Tickets : CallClaim(d, t)) \/ Quiet
    BY <1>1 DEF CallStep, CallScan, CallAutoComplete, CallLose, CallCollide, CallNothing,
                CallRetry, CallCrash, ticketVars, deskVars
<1>2. ASSUME NEW h \in Handlers, NEW r, Begin(h, r) PROVE Quiet
    BY <1>2 DEF Begin, ticketVars, deskVars
<1>3. ASSUME NEW h \in Handlers, NEW t \in Tickets, NEW s \in Status,
             StatusRead(h, t, s) \/ PatchRead(h, t, s)
      PROVE  Quiet
    BY <1>2, <1>3 DEF StatusRead, PatchRead
<1>4. ASSUME NEW h \in Handlers, NEW t \in Tickets,
              CancelRead(h, t) \/ CancelActiveRead(h, t) \/ ReclaimRead(h, t)
       PROVE  Quiet
    BY <1>2, <1>4 DEF CancelRead, CancelActiveRead, ReclaimRead
<1>5. ASSUME NEW h \in Handlers, NEW S \in SUBSET Tickets, SkipRead(h, S) PROVE Quiet
    BY <1>2, <1>5 DEF SkipRead
<1>6. ASSUME NEW h \in Handlers, NEW t \in Tickets,
             \/ Overwrite(h, t) \/ PatchConflict(h, t) \/ ReclaimLook(h, t)
             \/ ReclaimWrite(h, t) \/ SkipWrite(h, t)
      PROVE  Quiet
    BY <1>6 DEF Overwrite, PatchConflict, ReclaimLook, ReclaimWrite, SkipWrite,
                ticketVars, deskVars
<1>7. ASSUME NEW h \in Handlers, HandlerStep(h)
      PROVE  (\E t \in Tickets : PatchWrite(h, t)) \/ Quiet
    BY <1>3, <1>4, <1>5, <1>6, <1>7 DEF HandlerStep, HandlerCrash, ticketVars, deskVars
<1>8. ASSUME NEW t \in Tickets, Join(t) PROVE Quiet
    BY <1>8 DEF Join, deskVars
<1>9. ASSUME NEW d \in Callers, NEW c, NEW s, CallAdmit(d, c, s) PROVE Quiet
    BY <1>9 DEF CallAdmit, ticketVars, deskVars
<1>10. ASSUME NEW S \in SUBSET Tickets, BatchComplete(S) PROVE Quiet
    BY <1>10 DEF BatchComplete, deskVars
<1>11. CASE UNCHANGED vars
    BY <1>11 DEF vars
<1> QED BY <1>1, <1>7, <1>8, <1>9, <1>10, <1>11 DEF Next

\* A claim gives the ticket its counter and the counter its ticket, and no other counter
\* shows that ticket.
LEMMA ClaimKeepsScreen ==
  ASSUME TypeOK, ScreenAgrees, NEW d \in Callers, NEW t \in Tickets, CallClaim(d, t)
  PROVE  ScreenAgrees'
<1>1. CASE call[d].counter = None
    BY <1>1 DEF CallClaim, Assign, ScreenAgrees
<1>2. CASE call[d].counter # None
  <2> DEFINE k == call[d].counter
  <2>1. k \in Counters
      BY <1>2 DEF TypeOK, CallRecord
  <2>2. current' = [current EXCEPT ![k] = t] /\ counterOf' = [counterOf EXCEPT ![t] = k]
      BY <1>2 DEF CallClaim, Assign
  <2>3. \A c \in Counters \ {k} : current[c] # t
      BY <1>2 DEF CallClaim, LinkFree
  <2> QED BY <2>1, <2>2, <2>3 DEF ScreenAgrees, TypeOK
<1> QED BY <1>1, <1>2

\* Every step keeps what the counters show in agreement with the tickets.
LEMMA ScreenStep ==
  ASSUME TypeOK, ScreenAgrees, [Next]_vars PROVE ScreenAgrees'
<1>1. ASSUME NEW h \in Handlers, NEW t \in Tickets, PatchWrite(h, t) PROVE ScreenAgrees'
    BY <1>1, ServingAssumption DEF ServingAssumption, PatchWrite, ScreenAgrees, TypeOK
<1>2. CASE UNCHANGED <<counterOf, current>>
    BY <1>2 DEF ScreenAgrees
<1> QED BY <1>1, <1>2, ClaimKeepsScreen, OnlyClaimAndPatch

\* The ticket a counter shows carries that counter, whatever routes race for it: the unique
\* index on currentReservationId is what makes it so.
THEOREM Screen == Spec => []ScreenAgrees
<1>1. Init => ScreenAgrees
    BY ServingAssumption DEF ServingAssumption, Init, ScreenAgrees
<1>2. TypeOK /\ ScreenAgrees /\ [Next]_vars => ScreenAgrees'
    BY ScreenStep
<1> QED BY <1>1, <1>2, TypeCorrect, PTL DEF Spec

\* A step moves a ticket to another counter only out of the queue.
LEMMA HandoverStep ==
  ASSUME TypeOK, ScreenAgrees, [Next]_vars, NEW t \in Tickets, counterOf'[t] # counterOf[t]
  PROVE  status[t] = "WAITING" /\ \A c \in Counters : current[c] # t
<1>1. PICK d \in Callers, u \in Tickets : CallClaim(d, u)
    BY OnlyClaimAndPatch DEF PatchWrite
<1>2. counterOf' = [counterOf EXCEPT ![u] = call[d].counter] /\ call[d].counter # None
    BY <1>1 DEF CallClaim, Assign
<1>3. u = t /\ counterOf[t] # call[d].counter
    BY <1>2 DEF TypeOK
<1>4. status[t] = "WAITING" /\ \A c \in Counters \ {call[d].counter} : current[c] # t
    BY <1>1, <1>2, <1>3 DEF CallClaim, LinkFree
<1> QED BY <1>3, <1>4 DEF ScreenAgrees

\* A ticket changes its counter only out of the waiting state, and only when no counter
\* shows it any more.
THEOREM Handover == Spec => HandoverFromQueue
<1>1. TypeOK /\ ScreenAgrees /\ [Next]_vars =>
        [\A t \in Tickets : counterOf'[t] # counterOf[t] =>
           status[t] = "WAITING" /\ \A c \in Counters : current[c] # t]_vars
    BY HandoverStep
<1> QED BY <1>1, TypeCorrect, Screen, PTL DEF Spec, HandoverFromQueue
-----------------------------------------------------------------------------
(* A ticket is won by one call-next request. *)

\* What the invariant says of one handler's request.
ReqKeepsIssued(r, st) ==
  /\ r.op \in {"cancel", "cancelActive", "status", "patch"} => r.next \notin {"NONE", "WAITING"}
  /\ r.op = "skip" => \A t \in r.todo : st[t] # "NONE"
  /\ r.op = "reclaim" => r.seen # "NONE"
  /\ r.op = "reclaimTx" => r.next # "NONE"

\* A step that leaves the tickets and their history alone, and gives at most one handler a
\* new request, keeps the invariant if that request does.
LEMMA QuietKeepsCallInv ==
  ASSUME TypeOK, CallInv, UNCHANGED <<status, skipped, callers>>,
         \/ UNCHANGED req
         \/ \E h \in Handlers : \E r \in ReqRecord :
              req' = [req EXCEPT ![h] = r] /\ ReqKeepsIssued(r, status)
  PROVE  CallInv'
<1>1. \A h \in Handlers : ReqKeepsIssued(req'[h], status')
    BY DEF TypeOK, CallInv, WritersKeepIssued, ReqKeepsIssued
<1> QED BY <1>1 DEF CallInv, WaitingIsUncalled, WritersKeepIssued, CalledOnce, ReqKeepsIssued

\* A step that writes statuses, never NONE, and takes tickets out of the waiting state
\* keeps the invariant if no waiting ticket has been called.
LEMMA WriteKeepsCallInv ==
  ASSUME TypeOK, CallInv,
         \A t \in Tickets : status'[t] = "NONE" => status[t] = "NONE",
         WaitingIsUncalled', CalledOnce',
         \A t \in Tickets : skipped'[t] => skipped[t] \/ status[t] # "NONE",
         req' \in [Handlers -> ReqRecord],
         \A h \in Handlers : \/ req'[h] = req[h] \/ req'[h] = IdleReq
                             \/ req[h].op = "skip" /\ req'[h].op = "skip" /\ req'[h].todo \subseteq req[h].todo
  PROVE  CallInv'
<1>1. \A h \in Handlers : req[h] \in ReqRecord
    BY DEF TypeOK
<1>2. ASSUME NEW h \in Handlers PROVE ReqKeepsIssued(req[h], status)
    BY DEF CallInv, WritersKeepIssued, ReqKeepsIssued
<1>3. ASSUME NEW h \in Handlers PROVE ReqKeepsIssued(req'[h], status')
    BY <1>1, <1>2 DEF ReqKeepsIssued, IdleReq, ReqRecord
<1>4. WritersKeepIssued'
    BY <1>3 DEF ReqKeepsIssued, WritersKeepIssued, CallInv
<1> QED BY <1>4 DEF CallInv

\* Every step keeps CallInv, the reason why a ticket is won once.
LEMMA CallInvStep ==
  ASSUME TypeOK, CallInv, [Next]_vars PROVE CallInv'
<1> USE DEF ticketVars, deskVars, counts
<1>1. ASSUME NEW t \in Tickets, Join(t) PROVE CallInv'
    BY <1>1, WriteKeepsCallInv DEF Join, CallInv, WaitingIsUncalled, CalledOnce, TypeOK
<1>2. ASSUME NEW d \in Callers, NEW c, NEW s, CallAdmit(d, c, s) PROVE CallInv'
    BY <1>2, QuietKeepsCallInv DEF CallAdmit
<1>3. ASSUME NEW d \in Callers,
             \/ CallScan(d) \/ CallAutoComplete(d) \/ CallRetry(d) \/ CallCrash(d)
             \/ \E t \in Tickets : CallLose(d, t) \/ CallCollide(d, t)
      PROVE  CallInv'
    BY <1>3, QuietKeepsCallInv
       DEF CallScan, CallAutoComplete, CallRetry, CallCrash, CallLose, CallCollide
<1>4. ASSUME NEW d \in Callers, NEW t \in Tickets, CallClaim(d, t) PROVE CallInv'
  <2>1. status' = [AfterCommit(d) EXCEPT ![t] = "CALLED"] /\ callers[t] = {}
        /\ callers' = [callers EXCEPT ![t] = @ \cup {d}] /\ UNCHANGED <<skipped, req>>
      BY <1>4 DEF CallClaim, Assign, CallInv, WaitingIsUncalled
  <2>2. CalledOnce'
      BY <2>1 DEF CallInv, CalledOnce, TypeOK
  <2>3. WaitingIsUncalled' /\ \A u \in Tickets : status'[u] = "NONE" => status[u] = "NONE"
      BY <2>1 DEF AfterCommit, CallInv, WaitingIsUncalled, TypeOK
  <2> QED BY <2>1, <2>2, <2>3, WriteKeepsCallInv DEF TypeOK
<1>5. ASSUME NEW d \in Callers, CallNothing(d) PROVE CallInv'
    BY <1>5, WriteKeepsCallInv
       DEF CallNothing, AfterCommit, CallInv, WaitingIsUncalled, CalledOnce, TypeOK
<1>6. ASSUME NEW h \in Handlers, NEW r \in ReqRecord, Begin(h, r), ReqKeepsIssued(r, status)
      PROVE  CallInv'
    BY <1>6, QuietKeepsCallInv DEF Begin
<1>7. ASSUME NEW h \in Handlers, NEW t \in Tickets,
             CancelRead(h, t) \/ CancelActiveRead(h, t) \/ ReclaimRead(h, t)
      PROVE  CallInv'
  <2>1. ASSUME NEW op \in {"cancel", "cancelActive"} PROVE ReqKeepsIssued(OpOn(t, op, "CANCELLED"), status)
      BY DEF ReqKeepsIssued, OpOn, IdleReq
  <2>2. skipped[t] => ReqKeepsIssued(OpOn(t, "reclaim", "NONE"), status)
      BY DEF ReqKeepsIssued, OpOn, IdleReq, CallInv, WritersKeepIssued
  <2> QED BY <1>6, <1>7, <2>1, <2>2, OpOnTyped
             DEF CancelRead, CancelActiveRead, ReclaimRead, Status, Active, Terminal
<1>8. ASSUME NEW h \in Handlers, NEW t \in Tickets, NEW s \in Status, StatusRead(h, t, s)
      PROVE  CallInv'
  <2>1. s \notin {"NONE", "WAITING"}
      BY <1>8 DEF StatusRead, VALID_STATUS_TRANSITIONS, TypeOK
  <2>2. ReqKeepsIssued(OpOn(t, "status", s), status)
      BY <2>1 DEF ReqKeepsIssued, OpOn, IdleReq
  <2> QED BY <1>6, <1>8, <2>2, OpOnTyped DEF StatusRead
<1>9. ASSUME NEW h \in Handlers, NEW t \in Tickets, NEW s \in Status, PatchRead(h, t, s)
      PROVE  CallInv'
  <2> DEFINE r == [OpOn(t, "patch", s) EXCEPT !.linked = counterOf[t] # None]
  <2>1. ReqKeepsIssued(r, status)
      BY <1>9 DEF PatchRead, ReqKeepsIssued, OpOn, IdleReq, Terminal
  <2>2. OpOn(t, "patch", s) \in ReqRecord
      BY OpOnTyped
  <2>3. r \in ReqRecord
      BY <2>2 DEF ReqRecord
  <2> QED BY <1>6, <1>9, <2>1, <2>3 DEF PatchRead
<1>10. ASSUME NEW h \in Handlers, NEW S \in SUBSET Tickets, SkipRead(h, S) PROVE CallInv'
  <2> DEFINE r == [IdleReq EXCEPT !.op = "skip", !.todo = S]
  <2>1. r \in ReqRecord /\ ReqKeepsIssued(r, status)
      BY <1>10 DEF SkipRead, IdleReq, ReqRecord, ReqKeepsIssued, Status
  <2> QED BY <1>6, <1>10, <2>1 DEF SkipRead
<1>11. ASSUME NEW h \in Handlers, NEW t \in Tickets, Overwrite(h, t) PROVE CallInv'
  <2>1. req[h].next \notin {"NONE", "WAITING"}
      BY <1>11 DEF Overwrite, CallInv, WritersKeepIssued
  <2>2. WaitingIsUncalled' /\ \A u \in Tickets : status'[u] = "NONE" => status[u] = "NONE"
      BY <1>11, <2>1 DEF Overwrite, CallInv, WaitingIsUncalled, TypeOK
  <2>3. \A u \in Tickets : callers'[u] \cap Callers = callers[u] \cap Callers
      BY <1>11, ServingAssumption DEF Overwrite, TypeOK, ServingAssumption
  <2>4. CalledOnce'
      BY <2>3 DEF CallInv, CalledOnce
  <2> QED BY <1>11, <2>2, <2>4, IdleTyped, WriteKeepsCallInv DEF Overwrite, TypeOK
<1>12. ASSUME NEW h \in Handlers, NEW t \in Tickets, PatchWrite(h, t) PROVE CallInv'
  <2>1. req[h].next \notin {"NONE", "WAITING"}
      BY <1>12 DEF PatchWrite, CallInv, WritersKeepIssued
  <2>2. WaitingIsUncalled' /\ CalledOnce'
        /\ \A u \in Tickets : status'[u] = "NONE" => status[u] = "NONE"
      BY <1>12, <2>1 DEF PatchWrite, CallInv, WaitingIsUncalled, CalledOnce, TypeOK
  <2> QED BY <1>12, <2>2, IdleTyped, WriteKeepsCallInv DEF PatchWrite, TypeOK
<1>13. ASSUME NEW h \in Handlers, NEW t \in Tickets, PatchConflict(h, t)
       PROVE  CallInv'
  <2>1. ReqKeepsIssued(IdleReq, status)
      BY DEF ReqKeepsIssued, IdleReq
  <2> QED BY <1>13, <2>1, IdleTyped, QuietKeepsCallInv DEF PatchConflict
<1>14. ASSUME NEW h \in Handlers, NEW t \in Tickets, ReclaimLook(h, t) PROVE CallInv'
  <2> DEFINE r == [req[h] EXCEPT !.op = "reclaimTx",
                    !.next = IF \E u \in Tickets \ {t} : status[u] = "CALLED"
                               THEN "WAITING" ELSE req[h].seen]
  <2>1. req[h] \in ReqRecord /\ req[h].seen # "NONE"
      BY <1>14 DEF ReclaimLook, CallInv, WritersKeepIssued, TypeOK
  <2>2. r \in ReqRecord
      BY <2>1 DEF ReqRecord, Status, Active
  <2>3. ReqKeepsIssued(r, status)
      BY <2>1 DEF ReqKeepsIssued, ReqRecord
  <2>4. req' = [req EXCEPT ![h] = r]
      BY <1>14 DEF ReclaimLook, TypeOK
  <2> QED BY <1>14, <2>2, <2>3, <2>4, QuietKeepsCallInv DEF ReclaimLook
<1>15. ASSUME NEW h \in Handlers, NEW t \in Tickets, ReclaimWrite(h, t) PROVE CallInv'
  <2>1. req[h].next # "NONE"
      BY <1>15 DEF ReclaimWrite, CallInv, WritersKeepIssued
  <2>2. WaitingIsUncalled' /\ CalledOnce'
        /\ \A u \in Tickets : status'[u] = "NONE" => status[u] = "NONE"
      BY <1>15, <2>1 DEF ReclaimWrite, CallInv, WaitingIsUncalled, CalledOnce, TypeOK
  <2> QED BY <1>15, <2>2, IdleTyped, WriteKeepsCallInv DEF ReclaimWrite, TypeOK
<1>16. ASSUME NEW h \in Handlers, NEW t \in Tickets, SkipWrite(h, t) PROVE CallInv'
  <2>1. WaitingIsUncalled' /\ CalledOnce' /\ status' = status
      BY <1>16 DEF SkipWrite, CallInv, WaitingIsUncalled, CalledOnce
  <2>2. \A u \in Tickets : skipped'[u] => skipped[u] \/ status[u] # "NONE"
      BY <1>16 DEF SkipWrite, CallInv, WritersKeepIssued, TypeOK
  <2>0. req[h] \in ReqRecord
      BY DEF TypeOK
  <2>3. req[h] \in ReqRecord /\ [req[h] EXCEPT !.todo = @ \ {t}] \in ReqRecord
      BY <2>0 DEF ReqRecord
  <2>4. req' \in [Handlers -> ReqRecord]
      BY <1>16, <2>3, IdleTyped DEF SkipWrite, TypeOK
  <2>5. \A g \in Handlers :
          \/ req'[g] = req[g] \/ req'[g] = IdleReq
          \/ req[g].op = "skip" /\ req'[g].op = "skip" /\ req'[g].todo \subseteq req[g].todo
    <3> TAKE g \in Handlers
    <3> DEFINE less == [req[h] EXCEPT !.todo = @ \ {t}]
    <3>1. CASE g # h
        BY <1>16, <3>1 DEF SkipWrite, TypeOK
    <3>2. CASE g = h
      <4>1. req'[h] = IF req[h].todo = {t} THEN IdleReq ELSE less
          BY <1>16 DEF SkipWrite, TypeOK
      <4>2. less.op = req[h].op /\ less.todo = req[h].todo \ {t}
          BY <2>3 DEF ReqRecord
      <4> HIDE DEF less
      <4> QED BY <1>16, <3>2, <4>1, <4>2 DEF SkipWrite
    <3> QED BY <3>1, <3>2
  <2> QED BY <2>1, <2>2, <2>4, <2>5, WriteKeepsCallInv
<1>17. ASSUME NEW S \in SUBSET Tickets, BatchComplete(S) PROVE CallInv'
    BY <1>17, WriteKeepsCallInv DEF BatchComplete, CallInv, WaitingIsUncalled, CalledOnce, TypeOK
<1>18. CASE UNCHANGED vars
    BY <1>18, QuietKeepsCallInv DEF vars
<1>19. ASSUME NEW d \in Callers, CallStep(d) PROVE CallInv'
    BY <1>3, <1>4, <1>5, <1>19 DEF CallStep
<1>20. ASSUME NEW h \in Handlers, HandlerStep(h) PROVE CallInv'
  <2>1. CASE HandlerCrash(h)
    <3>1. IdleReq \in ReqRecord /\ ReqKeepsIssued(IdleReq, status)
        BY IdleTyped DEF ReqKeepsIssued, IdleReq
    <3> QED BY <2>1, <3>1, QuietKeepsCallInv DEF HandlerCrash
  <2> QED BY <1>7, <1>8, <1>9, <1>10, <1>11, <1>12, <1>13, <1>14, <1>15, <1>16, <1>20, <2>1
             DEF HandlerStep
<1> QED BY <1>1, <1>2, <1>3, <1>17, <1>18, <1>19, <1>20 DEF Next

\* Since it last waited, a ticket has been won by at most one call-next request, however many
\* desks call at once and whichever other routes write it meanwhile.
THEOREM WonOnce == Spec => []CallInv
<1>1. Init => CallInv
    BY DEF Init, CallInv, WaitingIsUncalled, WritersKeepIssued, CalledOnce, IdleReq
<1>2. TypeOK /\ CallInv /\ [Next]_vars => CallInv'
    BY CallInvStep
<1> QED BY <1>1, <1>2, TypeCorrect, PTL DEF Spec

-----------------------------------------------------------------------------
(* The order of calls. *)

\* The first of some tickets is one of them, and none of the others comes before it: the
\* candidates are ordered by priority, then number, then issue.
LEMMA FirstIsFirst ==
  ASSUME NEW S \in SUBSET Tickets, S # {}
  PROVE  First(S) \in S /\ \A u \in S : ~Before(u, First(S))
<1> USE ServingAssumption DEF ServingAssumption
<1>f. \A R \in SUBSET S : IsFiniteSet(R)
    BY FS_Subset
<1>t. /\ \A t \in S : Priority[ServiceOf[t]] \in Nat /\ Number[t] \in Nat /\ t \in Nat
    OBVIOUS
<1> HIDE ServingAssumption
<1>1. PICK x \in S : \A u \in S : Priority[ServiceOf[x]] >= Priority[ServiceOf[u]]
  <2> DEFINE f == [u \in S |-> Priority[ServiceOf[u]]]
  <2>1. f \in [S -> Nat] /\ IsFiniteSet(S)
      BY <1>f, <1>t
  <2> HIDE DEF f
  <2>2. PICK x \in S : \A u \in S : f[x] >= f[u]
      BY <2>1, ExtremeValues
  <2> QED BY <2>2 DEF f
<1> DEFINE Q == {u \in S : Priority[ServiceOf[u]] = Priority[ServiceOf[x]]}
<1>2. PICK y \in Q : \A u \in Q : Number[y] =< Number[u]
  <2> DEFINE f == [u \in Q |-> Number[u]]
  <2>1. f \in [Q -> Nat] /\ IsFiniteSet(Q) /\ Q # {}
      BY <1>f, <1>t
  <2> HIDE DEF f, Q
  <2>2. PICK y \in Q : \A u \in Q : f[y] =< f[u]
      BY <2>1, ExtremeValues
  <2> QED BY <2>2 DEF f
<1> DEFINE T == {u \in Q : Number[u] = Number[y]}
<1>3. PICK t \in T : \A u \in T : t =< u
  <2>1. IsFiniteSet(T) /\ T \in SUBSET Nat /\ T # {}
      BY <1>f, <1>t
  <2> HIDE DEF T
  <2> QED BY <2>1, Extremes
<1>4. ASSUME NEW u \in S, u # t PROVE Before(t, u) \/ (~Before(u, t) /\ t < u)
  <2>0. /\ Priority[ServiceOf[u]] \in Nat /\ Number[u] \in Nat /\ u \in Nat
        /\ t \in S /\ t \in Nat /\ Number[t] \in Nat /\ Priority[ServiceOf[t]] \in Nat
      BY <1>t
  <2>1. /\ Priority[ServiceOf[t]] >= Priority[ServiceOf[u]]
        /\ Priority[ServiceOf[t]] = Priority[ServiceOf[x]] /\ Number[t] = Number[y]
      BY <1>1
  <2>2. CASE u \notin Q
      BY <2>0, <2>1, <2>2 DEF Before
  <2>3. CASE u \in Q /\ u \notin T
    <3>1. /\ Number[t] =< Number[u] /\ Number[t] # Number[u]
          /\ Priority[ServiceOf[u]] = Priority[ServiceOf[t]]
        BY <1>2, <2>1, <2>3
    <3> QED BY <2>0, <3>1 DEF Before
  <2>4. CASE u \in T
    <3>1. /\ t =< u /\ Number[u] = Number[t]
          /\ Priority[ServiceOf[u]] = Priority[ServiceOf[t]]
        BY <1>3, <2>1, <2>4
    <3> QED BY <1>4, <2>0, <3>1 DEF Before
  <2> QED BY <2>2, <2>3, <2>4
<1>5. t \in S
    BY <1>3
<1> HIDE DEF T, Q
<1> DEFINE Least(w) == \A u \in S \ {w} : Before(w, u) \/ (~Before(u, w) /\ w < u)
<1>6. Least(t)
    BY <1>4
<1>7. First(S) = CHOOSE w \in S : Least(w)
    BY DEF First
<1>8. First(S) \in S /\ Least(First(S))
  <2> HIDE DEF Least
  <2> QED BY <1>5, <1>6, <1>7
<1>9. ASSUME NEW u \in S PROVE ~Before(u, First(S))
  <2> DEFINE f == First(S)
  <2>0. /\ Priority[ServiceOf[u]] \in Nat /\ Number[u] \in Nat
        /\ Priority[ServiceOf[f]] \in Nat /\ Number[f] \in Nat
      BY <1>t, <1>8
  <2>1. u = f \/ Before(f, u) \/ ~Before(u, f)
      BY <1>8
  <2> HIDE DEF f
  <2>2. ~Before(u, f)
      BY <2>0, <2>1 DEF Before
  <2> QED BY <2>2 DEF f
<1> QED BY <1>8, <1>9

\* What is known to have stayed since the read is still among the candidates.
StayedAmong == \A d \in Callers : stayed[d] \subseteq call[d].cand

\* Every step observes the open claims.
LEMMA EveryStepObserves == Next => Observe
<1>1. ASSUME NEW d \in Callers, CallStep(d) \/ CallCrash(d) PROVE Observe
    BY <1>1 DEF CallStep, CallScan, CallAutoComplete, CallClaim, Assign, CallLose, CallCollide,
                CallNothing, CallRetry, CallCrash
<1>2. ASSUME NEW h \in Handlers, HandlerStep(h) PROVE Observe
    BY <1>2 DEF HandlerStep, CancelRead, CancelActiveRead, StatusRead, PatchRead, ReclaimRead,
                SkipRead, Begin, Overwrite, PatchWrite, PatchConflict, ReclaimLook,
                ReclaimWrite, SkipWrite, HandlerCrash
<1>3. ASSUME \/ \E t \in Tickets : Join(t)
             \/ \E S \in SUBSET Tickets : BatchComplete(S)
             \/ \E d \in Callers, c \in Counters \cup {None}, s \in Services \cup {None} :
                  CallAdmit(d, c, s)
      PROVE  Observe
    BY <1>3 DEF Join, BatchComplete, CallAdmit
<1> QED BY <1>1, <1>2, <1>3 DEF Next

\* A claim that goes on has its candidates still, but for one that waits no more.
LEMMA CandidatesKept ==
  ASSUME TypeOK, Next, NEW d \in Callers, call[d].pc = "claim", call'[d].pc = "claim"
  PROVE  \/ call'[d].cand = call[d].cand
         \/ \E t \in Tickets : call'[d].cand = call[d].cand \ {t} /\ status'[t] # "WAITING"
<1> USE DEF ticketVars
<1>0. call \in [Callers -> CallRecord]
    BY DEF TypeOK
<1>1. ASSUME NEW h \in Handlers, HandlerStep(h) PROVE call' = call
    BY <1>1 DEF HandlerStep, CancelRead, CancelActiveRead, StatusRead, PatchRead, ReclaimRead,
                SkipRead, Begin, Overwrite, PatchWrite, PatchConflict, ReclaimLook,
                ReclaimWrite, SkipWrite, HandlerCrash
<1>2. ASSUME \/ \E t \in Tickets : Join(t)
             \/ \E S \in SUBSET Tickets : BatchComplete(S)
      PROVE  call' = call
    BY <1>2 DEF Join, BatchComplete
<1>3. ASSUME NEW e \in Callers, NEW x, call' = [call EXCEPT ![e] = x], x.pc # "claim"
      PROVE  call'[d] = call[d]
    BY <1>0, <1>3
<1>4. ASSUME NEW e \in Callers, NEW c \in Counters \cup {None}, NEW s \in Services \cup {None},
             CallAdmit(e, c, s)
      PROVE  call'[d] = call[d]
    BY <1>0, <1>4 DEF CallAdmit, IdleCall
<1>5. ASSUME NEW e \in Callers, CallScan(e) \/ CallAutoComplete(e) PROVE call'[d] = call[d]
    BY <1>0, <1>5 DEF CallScan, CallAutoComplete
<1>n. IdleCall.pc # "claim"
    BY DEF IdleCall
<1>6. ASSUME NEW e \in Callers, NEW t \in Tickets, CallClaim(e, t) \/ CallCollide(e, t)
      PROVE  call'[d] = call[d]
  <2>1. call' = [call EXCEPT ![e] = IdleCall]
      BY <1>6 DEF CallClaim, Assign, CallCollide
  <2> QED BY <1>3, <1>n, <2>1
<1>7. ASSUME NEW e \in Callers, CallNothing(e) \/ CallCrash(e)
      PROVE  call'[d] = call[d]
  <2>1. call' = [call EXCEPT ![e] = IdleCall]
      BY <1>7 DEF CallNothing, CallCrash
  <2> QED BY <1>3, <1>n, <2>1
<1>8. ASSUME NEW e \in Callers, CallRetry(e) PROVE call'[d] = call[d]
    BY <1>0, <1>8 DEF CallRetry, IdleCall
<1>9. ASSUME NEW e \in Callers, NEW t \in Tickets, CallLose(e, t)
      PROVE  \/ call'[d] = call[d]
             \/ call'[d].cand = call[d].cand \ {t} /\ status'[t] # "WAITING"
    BY <1>0, <1>9 DEF CallLose, CallRecord
<1> QED BY <1>1, <1>2, <1>4, <1>5, <1>6, <1>7, <1>8, <1>9 DEF Next, CallStep

LEMMA StayedStep ==
  ASSUME TypeOK, StayedAmong, [Next]_vars PROVE StayedAmong'
<1> SUFFICES ASSUME Next, NEW d \in Callers PROVE stayed'[d] \subseteq call'[d].cand
    BY DEF StayedAmong, vars
<1>1. stayed'[d] = IF call'[d].pc # "claim" THEN {}
                   ELSE IF call[d].pc # "claim" THEN call'[d].cand
                   ELSE {t \in stayed[d] : status'[t] = "WAITING"}
    BY EveryStepObserves DEF Observe
<1>2. CASE call[d].pc = "claim" /\ call'[d].pc = "claim"
    BY <1>1, <1>2, CandidatesKept DEF StayedAmong
<1> QED BY <1>1, <1>2

\* Only a claim makes a desk one of those who have called the ticket.
LEMMA OnlyClaimCalls ==
  ASSUME TypeOK, Next, NEW d \in Callers, NEW t \in Tickets, d \in callers'[t] \ callers[t]
  PROVE  CallClaim(d, t)
<1>0. callers \in [Tickets -> SUBSET (Callers \cup Handlers)] /\ d \notin Handlers
    BY ServingAssumption DEF ServingAssumption, TypeOK
<1>1. ASSUME NEW e \in Callers, NEW u \in Tickets, CallClaim(e, u) PROVE CallClaim(d, t)
    BY <1>0, <1>1 DEF CallClaim, Assign
<1>2. ASSUME NEW h \in Handlers, NEW u \in Tickets, Overwrite(h, u) \/ ReclaimWrite(h, u)
      PROVE  FALSE
    BY <1>0, <1>2 DEF Overwrite, ReclaimWrite
<1>3. ASSUME NEW h \in Handlers, HandlerStep(h), callers' # callers PROVE FALSE
    BY <1>2, <1>3 DEF HandlerStep, CancelRead, CancelActiveRead, StatusRead, PatchRead,
                      ReclaimRead, SkipRead, Begin, PatchWrite, PatchConflict, ReclaimLook,
                      SkipWrite, HandlerCrash
<1>4. ASSUME \/ \E u \in Tickets : Join(u)
             \/ \E S \in SUBSET Tickets : BatchComplete(S)
             \/ \E e \in Callers, c \in Counters \cup {None}, s \in Services \cup {None} :
                  CallAdmit(e, c, s)
             \/ \E e \in Callers : CallCrash(e)
      PROVE  callers' = callers
    BY <1>4 DEF Join, BatchComplete, CallAdmit, CallCrash
<1>5. ASSUME NEW e \in Callers, CallStep(e)
      PROVE  callers' = callers \/ \E u \in Tickets : CallClaim(e, u)
    BY <1>5 DEF CallStep, CallScan, CallAutoComplete, CallLose, CallCollide, CallNothing,
                CallRetry
<1> QED BY <1>1, <1>3, <1>4, <1>5 DEF Next

\* No desk wins a ticket over one that should come first and has waited since the desk read
\* the queue, for any number of desks, tickets and services.
THEOREM InOrder == Spec => NoOvertaking
<1>1. Init => StayedAmong
    BY DEF Init, StayedAmong
<1>2. TypeOK /\ StayedAmong /\ [Next]_vars =>
        [\A d \in Callers, t \in Tickets :
           d \in callers'[t] \ callers[t] => \A u \in stayed[d] : ~Before(u, t)]_vars
  <2> SUFFICES ASSUME TypeOK, StayedAmong, Next, NEW d \in Callers, NEW t \in Tickets,
                      d \in callers'[t] \ callers[t], NEW u \in stayed[d]
               PROVE  ~Before(u, t)
      OBVIOUS
  <2>1. call[d].cand # {} /\ t = First(call[d].cand)
      BY OnlyClaimCalls DEF CallClaim, Trying
  <2>2. call[d].cand \in SUBSET Tickets /\ u \in call[d].cand
      BY DEF TypeOK, CallRecord, StayedAmong
  <2> QED BY <2>1, <2>2, FirstIsFirst
<1> QED BY <1>1, <1>2, StayedStep, TypeCorrect, PTL DEF Spec, NoOvertaking
-----------------------------------------------------------------------------
(* Waiting for rows. *)

\* A request never tries a row it has completed itself, and holds rows only while it claims.
OwnRowsApart ==
  \A d \in Callers :
    /\ call[d].pc # "claim" => call[d].done = {}
    /\ call[d].cand \cap call[d].done = {}

\* A step that moves one request on, to a record that is so, keeps the others so.
LEMMA MoveKeepsApart ==
  ASSUME TypeOK, OwnRowsApart, NEW d \in Callers, NEW x,
         call' = [call EXCEPT ![d] = x],
         x.pc # "claim" => x.done = {}, x.cand \cap x.done = {}
  PROVE  OwnRowsApart'
<1> SUFFICES ASSUME NEW e \in Callers
             PROVE  /\ call'[e].pc # "claim" => call'[e].done = {}
                    /\ call'[e].cand \cap call'[e].done = {}
    BY DEF OwnRowsApart
<1>1. CASE e = d
    BY <1>1 DEF TypeOK
<1>2. CASE e # d
  <2>1. call'[e] = call[e]
      BY <1>2 DEF TypeOK
  <2>2. /\ call[e].pc # "claim" => call[e].done = {}
        /\ call[e].cand \cap call[e].done = {}
      BY DEF OwnRowsApart
  <2> QED BY <2>1, <2>2
<1> QED BY <1>1, <1>2

LEMMA OwnRowsStep ==
  ASSUME TypeOK, OwnRowsApart, [Next]_vars PROVE OwnRowsApart'
<1>0. call \in [Callers -> CallRecord]
    BY DEF TypeOK
<1>i. IdleCall.pc # "claim" /\ IdleCall.done = {} /\ IdleCall.cand = {}
    BY DEF IdleCall
<1>1. ASSUME call' = call PROVE OwnRowsApart'
    BY <1>1 DEF OwnRowsApart
<1>2. ASSUME NEW h \in Handlers, HandlerStep(h) PROVE call' = call
    BY <1>2 DEF HandlerStep, CancelRead, CancelActiveRead, StatusRead, PatchRead, ReclaimRead,
                SkipRead, Begin, Overwrite, PatchWrite, PatchConflict, ReclaimLook,
                ReclaimWrite, SkipWrite, HandlerCrash
<1>3. ASSUME \/ \E t \in Tickets : Join(t)
             \/ \E S \in SUBSET Tickets : BatchComplete(S)
             \/ UNCHANGED vars
      PROVE  call' = call
    BY <1>3 DEF Join, BatchComplete, vars
<1>4. ASSUME NEW d \in Callers, call' = [call EXCEPT ![d] = IdleCall] PROVE OwnRowsApart'
    BY <1>4, <1>i, MoveKeepsApart
<1>5. ASSUME NEW d \in Callers, NEW t \in Tickets, CallClaim(d, t) \/ CallCollide(d, t)
      PROVE  OwnRowsApart'
  <2>1. call' = [call EXCEPT ![d] = IdleCall]
      BY <1>5 DEF CallClaim, Assign, CallCollide
  <2> QED BY <1>4, <2>1
<1>6. ASSUME NEW d \in Callers, CallNothing(d) \/ CallCrash(d) PROVE OwnRowsApart'
  <2>1. call' = [call EXCEPT ![d] = IdleCall]
      BY <1>6 DEF CallNothing, CallCrash
  <2> QED BY <1>4, <2>1
<1>7. ASSUME NEW d \in Callers, NEW c \in Counters \cup {None}, NEW s \in Services \cup {None},
             CallAdmit(d, c, s)
      PROVE  OwnRowsApart'
  <2> DEFINE x == [IdleCall EXCEPT !.pc = "scan", !.counter = c, !.scope = Scope(c, s), !.try = 1]
  <2>1. call' = [call EXCEPT ![d] = x]
      BY <1>7 DEF CallAdmit
  <2>2. x.done = {} /\ x.cand = {}
      BY DEF IdleCall
  <2> QED BY <2>1, <2>2, MoveKeepsApart
<1>8. ASSUME NEW d \in Callers, CallRetry(d) PROVE OwnRowsApart'
  <2> DEFINE x == IF call[d].try = MaxTxRetries
                    THEN IdleCall
                    ELSE [IdleCall EXCEPT !.pc = "scan", !.counter = call[d].counter,
                                          !.scope = call[d].scope, !.try = call[d].try + 1]
  <2>1. call' = [call EXCEPT ![d] = x]
      BY <1>8 DEF CallRetry
  <2>2. x.done = {} /\ x.cand = {}
      BY DEF IdleCall
  <2> QED BY <2>1, <2>2, MoveKeepsApart
<1>9. ASSUME NEW d \in Callers, CallScan(d) PROVE OwnRowsApart'
  <2> DEFINE x == [call[d] EXCEPT !.pc = "complete",
                    !.called = {t \in Tickets : /\ counterOf[t] = call[d].counter
                                                /\ call[d].counter # None
                                                /\ status[t] = "CALLED"}]
  <2>1. call' = [call EXCEPT ![d] = x]
      BY <1>0, <1>9 DEF CallScan, CallRecord
  <2>2. call[d].pc # "claim" /\ x.done = call[d].done /\ x.cand = call[d].cand
      BY <1>0, <1>9 DEF CallScan, CallRecord
  <2>3. x.done = {}
      BY <2>2 DEF OwnRowsApart
  <2> QED BY <2>1, <2>3, MoveKeepsApart
<1>10. ASSUME NEW d \in Callers, CallAutoComplete(d) PROVE OwnRowsApart'
  <2> DEFINE x == [call[d] EXCEPT !.pc = "claim", !.done = call[d].called,
                    !.cand = Candidates(call[d].scope, call[d].called)]
  <2>1. call' = [call EXCEPT ![d] = x]
      BY <1>0, <1>10 DEF CallAutoComplete, CallRecord
  <2>2. x.pc = "claim" /\ x.done = call[d].called
        /\ x.cand = Candidates(call[d].scope, call[d].called)
      BY <1>0 DEF CallRecord
  <2>3. x.cand \cap x.done = {}
      BY <2>2 DEF Candidates
  <2> HIDE DEF x
  <2> QED BY <2>1, <2>2, <2>3, MoveKeepsApart
<1>11. ASSUME NEW d \in Callers, NEW t \in Tickets, CallLose(d, t) PROVE OwnRowsApart'
  <2> DEFINE x == [call[d] EXCEPT !.cand = @ \ {t}]
  <2>1. call' = [call EXCEPT ![d] = x]
      BY <1>0, <1>11 DEF CallLose, CallRecord
  <2>2. x.pc = call[d].pc /\ x.done = call[d].done /\ x.cand = call[d].cand \ {t}
      BY <1>0 DEF CallRecord
  <2> HIDE DEF x
  <2>3. x.pc # "claim" => x.done = {}
      BY <2>2 DEF OwnRowsApart
  <2>4. x.cand \cap x.done = {}
      BY <2>2 DEF OwnRowsApart
  <2> QED BY <2>1, <2>3, <2>4, MoveKeepsApart
<1> QED BY <1>1, <1>2, <1>3, <1>5, <1>6, <1>7, <1>8, <1>9, <1>10, <1>11 DEF Next, CallStep

\* Whoever can do nothing waits for a row of another open request.
LEMMA StuckWaits ==
  ASSUME TypeOK, OwnRowsApart, NEW d \in Callers, call[d].pc # "idle", ~MayMove(d)
  PROVE  \E e \in Callers \ {d} : call[e].pc # "idle" /\ WaitsFor(d, e)
<1>1. call[d].pc \in {"scan", "complete", "claim"}
    BY DEF TypeOK, CallRecord
<1>2. CASE call[d].pc = "complete"
  <2>1. PICK e \in Callers : call[d].called \cap call[e].done # {}
      BY <1>2 DEF MayMove, RowFree
  <2>2. call[d].done = {}
      BY <1>2 DEF OwnRowsApart
  <2> QED BY <1>2, <2>1, <2>2 DEF OwnRowsApart, WaitsFor
<1>3. CASE call[d].pc = "claim"
  <2>1. call[d].cand # {} /\ ~RowFree(First(call[d].cand))
      BY <1>3 DEF MayMove
  <2>2. PICK e \in Callers : First(call[d].cand) \in call[e].done
      BY <2>1 DEF RowFree
  <2>3. First(call[d].cand) \in call[d].cand
      BY <2>1, FirstIsFirst DEF TypeOK, CallRecord
  <2>4. First(call[d].cand) \notin call[d].done
      BY <2>3 DEF OwnRowsApart
  <2>5. e # d /\ call[e].pc # "idle"
    <3>1. call[e].pc # "claim" => call[e].done = {}
        BY DEF OwnRowsApart
    <3> QED BY <2>2, <2>4, <3>1
  <2> QED BY <1>3, <2>1, <2>2, <2>5 DEF WaitsFor
<1> QED BY <1>1, <1>2, <1>3 DEF MayMove

\* The desks never all stand still: were all of them stuck, each would wait for another one
\* of them, and that is what the database detects.
THEOREM NeverAllStuck == Spec => []SomeoneMoves
<1>1. Init => OwnRowsApart
    BY DEF Init, OwnRowsApart, IdleCall
<1>2. TypeOK /\ OwnRowsApart => SomeoneMoves
  <2> SUFFICES ASSUME TypeOK, OwnRowsApart, NEW d \in Callers, call[d].pc # "idle",
                      \A e \in Callers : ~MayMove(e)
               PROVE  FALSE
      BY DEF SomeoneMoves
  <2> DEFINE Open == {e \in Callers : call[e].pc # "idle"}
  <2>1. \A x \in Open : \E y \in Open \ {x} : WaitsFor(x, y)
      BY StuckWaits
  <2>2. d \in Open /\ Open \in SUBSET Callers
      OBVIOUS
  <2> HIDE DEF Open
  <2>3. Deadlocked(d)
      BY <2>1, <2>2 DEF Deadlocked
  <2> QED BY <2>3 DEF MayMove
<1> QED BY <1>1, <1>2, OwnRowsStep, TypeCorrect, PTL DEF Spec
==============================================================================
