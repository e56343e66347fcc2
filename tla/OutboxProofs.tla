----------------------------- MODULE OutboxProofs -----------------------------
(* What is proved about Outbox. *)
EXTENDS Outbox, FiniteNumbers

-----------------------------------------------------------------------------
(* Types. *)

Statuses == {"none", "pending", "sending", "retry", "due", "completed", "permanent"}
Places == {"lookup", "enter", "acquire", "write", "store", "reply"}
RequestRecord ==
  [pc : Places \cup {"free"}, row : Mutations \cup {None}, heard : BOOLEAN, guarded : BOOLEAN,
   kept : BOOLEAN, answer : Answer \cup {"none"}]

Busy(q) == req[q].pc # "free"

\* What is known of a request: the row it is about, and what it is about to answer.
Sound(x) ==
  /\ x \in RequestRecord
  /\ x.pc # "free" => x.row \in Mutations
  /\ x.pc \in {"store", "reply"} => x.answer # "none"

LEMMA ReqSound ==
  ASSUME TypeOK
  PROVE  /\ req \in [Requests -> RequestRecord] /\ \A q \in Requests : Sound(req[q])
         /\ \A q \in Requests : Busy(q) => req[q].row \in Mutations
BY DEF TypeOK, Sound, RequestRecord, Places, Busy

LEMMA FreeSound == Sound(Free) /\ Free.heard = FALSE /\ Free.pc = "free"
BY DEF Sound, Free, RequestRecord, Answer, Places

\* A request goes on, or ends with an answer: the rest of it stays.
LEMMA EndsMoves ==
  ASSUME TypeOK, NEW q \in Requests, Busy(q), NEW pc \in {"store", "reply"}, NEW a \in Answer, Ends(q, pc, a)
  PROVE  /\ Sound(req'[q]) /\ req'[q].pc = pc /\ req'[q].answer = a
         /\ req'[q].row = req[q].row /\ req'[q].heard = req[q].heard
         /\ \A p \in Requests \ {q} : req'[p] = req[p]
         /\ req' \in [Requests -> RequestRecord]
<1> DEFINE x == [req[q] EXCEPT !.pc = pc, !.answer = a]
<1>1. req \in [Requests -> RequestRecord] /\ req[q] \in RequestRecord /\ req[q].row \in Mutations
  BY ReqSound
<1>2. req' = [req EXCEPT ![q] = x]
  BY <1>1 DEF Ends
<1>3. x \in RequestRecord
  BY <1>1 DEF RequestRecord, Places
<1>4. x.pc = pc /\ x.answer = a
  BY <1>1 DEF RequestRecord
<1>5. x.row = req[q].row /\ x.heard = req[q].heard
  BY <1>1 DEF RequestRecord
<1> HIDE DEF x
<1>6. Sound(x)
  BY <1>1, <1>3, <1>4, <1>5 DEF Sound, Answer
<1> QED BY <1>1, <1>2, <1>3, <1>4, <1>5, <1>6

LEMMA GoesMoves ==
  ASSUME TypeOK, NEW q \in Requests, Busy(q), NEW pc \in {"enter", "acquire"},
         req' = [req EXCEPT ![q].pc = pc]
  PROVE  /\ Sound(req'[q]) /\ req'[q].pc = pc
         /\ req'[q].row = req[q].row /\ req'[q].heard = req[q].heard
         /\ \A p \in Requests \ {q} : req'[p] = req[p]
         /\ req' \in [Requests -> RequestRecord]
<1> DEFINE x == [req[q] EXCEPT !.pc = pc]
<1>1. req \in [Requests -> RequestRecord] /\ req[q] \in RequestRecord /\ req[q].row \in Mutations
  BY ReqSound
<1>2. req' = [req EXCEPT ![q] = x]
  BY <1>1
<1>3. x \in RequestRecord
  BY <1>1 DEF RequestRecord, Places
<1>4. x.pc = pc /\ x.row = req[q].row /\ x.heard = req[q].heard
  BY <1>1 DEF RequestRecord
<1> HIDE DEF x
<1>5. Sound(x)
  BY <1>1, <1>3, <1>4 DEF Sound
<1> QED BY <1>1, <1>2, <1>3, <1>4, <1>5

\* A request is over.
LEMMA FreedMoves ==
  ASSUME TypeOK, NEW q \in Requests, req' = [req EXCEPT ![q] = Free]
  PROVE  /\ Sound(req'[q]) /\ req'[q] = Free
         /\ \A p \in Requests \ {q} : req'[p] = req[p]
         /\ req' \in [Requests -> RequestRecord]
<1>1. req \in [Requests -> RequestRecord]
  BY ReqSound
<1> QED BY <1>1, FreeSound DEF Sound

\* Nobody listens to the requests any more.
LEMMA UnheardMoves ==
  ASSUME TypeOK, req' = Unheard
  PROVE  /\ req' \in [Requests -> RequestRecord]
         /\ \A q \in Requests : /\ Sound(req'[q]) /\ req'[q].heard = FALSE
                                /\ req'[q].pc = req[q].pc /\ req'[q].row = req[q].row
                                /\ req'[q].answer = req[q].answer
<1> DEFINE x(q) == [req[q] EXCEPT !.heard = FALSE]
<1>1. req' = [q \in Requests |-> x(q)]
  BY DEF Unheard
<1>2. ASSUME NEW q \in Requests
      PROVE  /\ x(q) \in RequestRecord /\ x(q).heard = FALSE /\ x(q).pc = req[q].pc
             /\ x(q).row = req[q].row /\ x(q).answer = req[q].answer
  BY ReqSound DEF RequestRecord
<1>3. \A q \in Requests : Sound(req[q])
  BY ReqSound
<1> HIDE DEF x
<1>4. \A q \in Requests : Sound(x(q))
  BY <1>2, <1>3 DEF Sound
<1> QED BY <1>1, <1>2, <1>4

\* Types of the desktop's side and of the cloud's side, next to the requests.
DesktopOK ==
  /\ out \in [Mutations -> Statuses]
  /\ up \in BOOLEAN /\ batch \subseteq Mutations
  /\ waiting \in Mutations \cup {None} /\ (waiting # None => up)
  /\ leftOut \subseteq Mutations

CloudOK ==
  /\ ledger \in [Mutations -> Answer \cup {"none"}]
  /\ present \in [Records -> BOOLEAN]
  /\ overtaken \subseteq Mutations /\ kept \subseteq Mutations
  /\ foreign \subseteq Mutations /\ spoiled \subseteq Mutations
  /\ executed \in [Mutations -> Nat]

BoundsOK == events \in 0 .. MaxEvents /\ late \in 0 .. MaxLate
RequestsOK == req \in [Requests -> RequestRecord] /\ \A q \in Requests : Sound(req[q])

LEMMA TypeParts == TypeOK <=> DesktopOK /\ CloudOK /\ BoundsOK /\ RequestsOK
BY DEF TypeOK, DesktopOK, CloudOK, BoundsOK, RequestsOK, Sound, RequestRecord, Places, Statuses

LEMMA TypePartsNext == DesktopOK' /\ CloudOK' /\ BoundsOK' /\ RequestsOK' => TypeOK'
BY DEF TypeOK, DesktopOK, CloudOK, BoundsOK, RequestsOK, Sound, RequestRecord, Places, Statuses

LEMMA SameParts ==
  /\ DesktopOK /\ UNCHANGED desktop => DesktopOK'
  /\ CloudOK /\ UNCHANGED cloud => CloudOK'
  /\ BoundsOK /\ UNCHANGED bounds => BoundsOK'
  /\ RequestsOK /\ UNCHANGED req => RequestsOK'
<1>1. DesktopOK /\ UNCHANGED desktop => DesktopOK'
  BY DEF DesktopOK, desktop
<1>2. CloudOK /\ UNCHANGED cloud => CloudOK'
  BY DEF CloudOK, cloud
<1>3. BoundsOK /\ UNCHANGED bounds => BoundsOK'
  BY DEF BoundsOK, bounds
<1>4. RequestsOK /\ UNCHANGED req => RequestsOK'
  BY DEF RequestsOK
<1> QED BY <1>1, <1>2, <1>3, <1>4

LEMMA BoundsStep == TypeOK /\ Next => BoundsOK'
<1> SUFFICES ASSUME TypeOK, Next PROVE BoundsOK'
  OBVIOUS
<1>0. BoundsOK
  BY TypeParts
<1>1. CASE UNCHANGED bounds
  BY <1>0, <1>1, SameParts
<1>2. CASE events < MaxEvents /\ events' = events + 1 /\ UNCHANGED late
  BY <1>0, <1>2, OutboxAssumption DEF BoundsOK
<1>3. CASE UNCHANGED events /\ (UNCHANGED late \/ (late < MaxLate /\ late' = late + 1))
  BY <1>0, <1>3, OutboxAssumption DEF BoundsOK
<1>4. \/ UNCHANGED bounds
      \/ events < MaxEvents /\ events' = events + 1 /\ UNCHANGED late
      \/ UNCHANGED events /\ (UNCHANGED late \/ (late < MaxLate /\ late' = late + 1))
  BY DEF Next, Log, BackoffEnds, ReplayRead, ReplaySend, TimedOut, GivesUp, Crash, Restart, Lost,
     Unauthorized, Fails, Handle, GuardLookup, FastPath, Acquire, KeepCloud, Apply, NoRecord, Store,
     StoreNot, Answered, Forgotten, CloudCrash, CloudWrite, GuardFails, Event, bounds
<1> QED BY <1>1, <1>2, <1>3, <1>4

\* The least row of a batch.
LEMMA MinBatch ==
  ASSUME TypeOK, batch # {}
  PROVE  Min(batch) \in batch /\ \A m \in batch : Min(batch) =< m
<1>1. batch \subseteq Nat /\ IsFiniteSet(batch)
  BY OutboxAssumption, FS_Subset DEF TypeOK
<1> QED BY <1>1, MinOf

\* What a send does to the requests: a free one carries the row, and is listened to.
LEMMA SendMoves ==
  ASSUME TypeOK, ReplaySend
  PROVE  \E q \in Requests :
           /\ req[q] = Free
           /\ req'[q].pc = "lookup" /\ req'[q].row = Min(batch) /\ req'[q].heard
           /\ Sound(req'[q])
           /\ \A p \in Requests \ {q} : req'[p] = req[p]
           /\ req' \in [Requests -> RequestRecord]
<1> DEFINE m == Min(batch)
           q == CHOOSE p \in Requests : req[p] = Free
           x == [Free EXCEPT !.pc = "lookup", !.row = m, !.heard = TRUE]
<1>1. q \in Requests /\ req[q] = Free
  BY DEF ReplaySend
<1>2. req' = [req EXCEPT ![q] = x]
  BY DEF ReplaySend
<1>3. m \in Mutations
  BY MinBatch DEF ReplaySend, TypeOK
<1> HIDE DEF m, q
<1>4. x \in RequestRecord
  BY <1>3, FreeSound DEF Sound, RequestRecord, Places
<1>5. x.pc = "lookup" /\ x.row = m /\ x.heard
  BY DEF Free
<1> HIDE DEF x
<1>6. Sound(x)
  BY <1>3, <1>4, <1>5 DEF Sound
<1>7. req \in [Requests -> RequestRecord]
  BY ReqSound
<1> QED BY <1>1, <1>2, <1>4, <1>5, <1>6, <1>7 DEF m

LEMMA DesktopTyped ==
  ASSUME TypeOK,
         \/ \E m \in Mutations : Log(m) \/ BackoffEnds(m)
         \/ ReplayRead \/ ReplaySend \/ TimedOut \/ Crash \/ Restart
  PROVE  DesktopOK' /\ CloudOK' /\ RequestsOK'
<1>0. DesktopOK /\ CloudOK /\ RequestsOK
  BY TypeParts
<1>1. CASE \E m \in Mutations : Log(m) \/ BackoffEnds(m)
  <2>1. DesktopOK'
    BY <1>0, <1>1 DEF DesktopOK, Log, BackoffEnds, Statuses
  <2> QED BY <1>0, <1>1, <2>1, SameParts DEF Log, BackoffEnds
<1>2. CASE ReplayRead
  <2>1. DesktopOK'
    BY <1>0, <1>2 DEF DesktopOK, ReplayRead, Due
  <2> QED BY <1>0, <1>2, <2>1, SameParts DEF ReplayRead
<1>3. CASE ReplaySend
  <2>1. Min(batch) \in batch
    BY <1>3, MinBatch DEF ReplaySend
  <2>2. DesktopOK'
    BY <1>0, <1>3, <2>1 DEF DesktopOK, ReplaySend, Statuses
  <2>3. RequestsOK'
    BY <1>0, <1>3, SendMoves DEF RequestsOK
  <2> QED BY <1>0, <1>3, <2>2, <2>3, SameParts DEF ReplaySend
<1>4. CASE TimedOut
  <2>1. DesktopOK'
    BY <1>0, <1>4 DEF DesktopOK, TimedOut, Statuses
  <2>2. RequestsOK'
    BY <1>4, UnheardMoves DEF RequestsOK, TimedOut
  <2> QED BY <1>0, <1>4, <2>1, <2>2, SameParts DEF TimedOut
<1>5. CASE Crash
  <2>1. DesktopOK'
    BY <1>0, <1>5 DEF DesktopOK, Crash
  <2>2. RequestsOK'
    BY <1>5, UnheardMoves DEF RequestsOK, Crash
  <2> QED BY <1>0, <1>5, <2>1, <2>2, SameParts DEF Crash
<1>6. CASE Restart
  <2>1. DesktopOK'
    BY <1>0, <1>6 DEF DesktopOK, Restart, Statuses
  <2> QED BY <1>0, <1>6, <2>1, SameParts DEF Restart
<1> QED BY <1>1, <1>2, <1>3, <1>4, <1>5, <1>6

\* What becomes of one request.
Moves(q) ==
  /\ req' \in [Requests -> RequestRecord] /\ Sound(req'[q])
  /\ \A p \in Requests \ {q} : req'[p] = req[p]
  /\ \/ req'[q] = Free
     \/ req'[q].pc # "free" /\ req'[q].row = req[q].row /\ req'[q].heard = req[q].heard

LEMMA MovesTyped ==
  ASSUME RequestsOK, NEW q \in Requests, Moves(q) PROVE RequestsOK'
BY DEF RequestsOK, Moves

\* Before the transaction.
LEMMA GuardMoves ==
  ASSUME TypeOK, NEW q \in Requests, GuardLookup(q) \/ FastPath(q)
  PROVE  /\ Moves(q) /\ Busy(q)
         /\ \/ ledger[req[q].row] = "none" /\ req'[q].pc \in {"enter", "acquire"}
            \/ /\ ledger[req[q].row] # "none"
               /\ \/ GuardLookup(q) /\ req'[q].pc = "reply" /\ req'[q].answer = ledger[req[q].row]
                  \/ FastPath(q) /\ req'[q].pc = "store" /\ req'[q].answer = "duplicate"
<1> DEFINE m == req[q].row
<1>0. Busy(q) /\ m \in Mutations /\ ledger[m] \in Answer \cup {"none"}
  BY ReqSound DEF GuardLookup, FastPath, Busy, TypeOK
<1>1. CASE ledger[m] = "none"
  <2>1. PICK pc \in {"enter", "acquire"} : req' = [req EXCEPT ![q].pc = pc]
    BY <1>1 DEF GuardLookup, FastPath
  <2> QED BY <1>0, <1>1, <2>1, GoesMoves DEF Moves
<1>2. CASE ledger[m] # "none" /\ GuardLookup(q)
  <2>1. Ends(q, "reply", ledger[m])
    BY <1>2 DEF GuardLookup
  <2> QED BY <1>0, <1>2, <2>1, EndsMoves DEF Moves
<1>3. CASE ledger[m] # "none" /\ FastPath(q)
  <2>1. Ends(q, "store", "duplicate") /\ "duplicate" \in Answer
    BY <1>3 DEF FastPath, Answer
  <2> QED BY <1>0, <1>3, <2>1, EndsMoves DEF Moves
<1> QED BY <1>1, <1>2, <1>3

\* The key.
LEMMA AcquireMoves ==
  ASSUME TypeOK, NEW q \in Requests, Acquire(q)
  PROVE  /\ Moves(q) /\ Busy(q) /\ Holders(req[q].row) = {}
         /\ \/ ledger[req[q].row] = "none" /\ req'[q].pc = "write"
            \/ /\ ledger[req[q].row] # "none"
               /\ req'[q].pc = "store" /\ req'[q].answer = "error"
<1> DEFINE m == req[q].row
           k == Record[m] \in Stamped /\ m \in overtaken
           x == [req[q] EXCEPT !.pc = "write", !.kept = k]
<1>0. Busy(q) /\ m \in Mutations /\ req \in [Requests -> RequestRecord] /\ Holders(m) = {}
  BY ReqSound DEF Acquire, Busy
<1>1. CASE ledger[m] = "none"
  <2>1. req' = [req EXCEPT ![q] = x]
    BY <1>0, <1>1 DEF Acquire
  <2>2. k \in BOOLEAN
    OBVIOUS
  <2> HIDE DEF k
  <2>3. x \in RequestRecord
    BY <1>0, <2>2 DEF RequestRecord, Places
  <2>4. x.pc = "write" /\ x.row = m /\ x.heard = req[q].heard
    BY <1>0 DEF RequestRecord
  <2> HIDE DEF x
  <2>5. Sound(x)
    BY <1>0, <2>3, <2>4 DEF Sound
  <2> QED BY <1>0, <1>1, <2>1, <2>3, <2>4, <2>5 DEF Moves
<1>2. CASE ledger[m] # "none"
  <2>1. Ends(q, "store", "error") /\ "error" \in Answer
    BY <1>2 DEF Acquire, Answer
  <2> QED BY <1>0, <1>2, <2>1, EndsMoves DEF Moves
<1> QED BY <1>1, <1>2

\* A request ends in an error, without a write.
LEMMA ErrorMoves ==
  ASSUME TypeOK, NEW q \in Requests, NoRecord(q) \/ Fails(q) \/ Unauthorized(q)
  PROVE  /\ Moves(q) /\ Busy(q)
         /\ \/ req'[q].pc = "store" /\ req'[q].answer = "error"
            \/ req'[q].pc = "reply" /\ req'[q].answer = "unauthorized"
<1>0. Busy(q)
  BY DEF NoRecord, Fails, Unauthorized, Busy
<1>1. CASE NoRecord(q) \/ Fails(q)
  <2>1. Ends(q, "store", "error") /\ "error" \in Answer
    BY <1>1 DEF NoRecord, Fails, Answer
  <2> QED BY <1>0, <2>1, EndsMoves DEF Moves
<1>2. CASE Unauthorized(q)
  <2>1. Ends(q, "reply", "unauthorized") /\ "unauthorized" \in Answer
    BY <1>2 DEF Unauthorized, Answer
  <2> QED BY <1>0, <2>1, EndsMoves DEF Moves
<1> QED BY <1>1, <1>2

\* The commit.
LEMMA CommitMoves ==
  ASSUME TypeOK, NEW q \in Requests, KeepCloud(q) \/ Apply(q)
  PROVE  /\ Moves(q) /\ Busy(q) /\ req[q].pc = "write"
         /\ req'[q].pc = "store" /\ req'[q].answer = "applied"
<1>0. Busy(q)
  BY DEF KeepCloud, Apply, Busy
<1>1. Ends(q, "store", "applied") /\ "applied" \in Answer
  BY DEF KeepCloud, Apply, Answer
<1> QED BY <1>0, <1>1, EndsMoves DEF Moves, KeepCloud, Apply

\* The guard steps aside.
LEMMA FailsMoves ==
  ASSUME TypeOK, NEW q \in Requests, GuardFails(q)
  PROVE  Moves(q) /\ Busy(q) /\ req'[q].pc = "enter"
<1> DEFINE x == [req[q] EXCEPT !.pc = "enter", !.guarded = FALSE]
<1>0. Busy(q) /\ req \in [Requests -> RequestRecord] /\ Sound(req[q])
  BY ReqSound DEF GuardFails, Busy
<1>1. req' = [req EXCEPT ![q] = x]
  BY <1>0 DEF GuardFails
<1>2. x \in RequestRecord
  BY <1>0 DEF RequestRecord, Places
<1>3. x.pc = "enter" /\ x.row = req[q].row /\ x.heard = req[q].heard
  BY <1>0 DEF RequestRecord
<1> HIDE DEF x
<1>4. Sound(x)
  BY <1>0, <1>2, <1>3 DEF Sound, Busy
<1> QED BY <1>0, <1>1, <1>2, <1>3, <1>4 DEF Moves

\* The answer is stored, or it is not.
LEMMA StoreMoves ==
  ASSUME TypeOK, NEW q \in Requests, Store(q) \/ StoreNot(q)
  PROVE  /\ Moves(q) /\ Busy(q) /\ req[q].pc = "store"
         /\ req'[q].pc = "reply" /\ req'[q].answer = req[q].answer
<1> DEFINE x == [req[q] EXCEPT !.pc = "reply"]
<1>0. Busy(q) /\ req[q].pc = "store" /\ req \in [Requests -> RequestRecord] /\ Sound(req[q])
  BY ReqSound DEF Store, StoreNot, Busy
<1>1. req' = [req EXCEPT ![q] = x]
  BY <1>0 DEF Store, StoreNot
<1>2. x \in RequestRecord
  BY <1>0 DEF RequestRecord, Places
<1>3. x.pc = "reply" /\ x.row = req[q].row /\ x.heard = req[q].heard /\ x.answer = req[q].answer
  BY <1>0 DEF RequestRecord
<1> HIDE DEF x
<1>4. Sound(x)
  BY <1>0, <1>2, <1>3 DEF Sound
<1> QED BY <1>0, <1>1, <1>2, <1>3, <1>4 DEF Moves

LEMMA OverMoves ==
  ASSUME TypeOK, NEW q \in Requests, Answered(q) \/ Forgotten(q) \/ Lost(q)
  PROVE  Moves(q) /\ req'[q] = Free
BY FreedMoves DEF Answered, Forgotten, Lost, Moves

LEMMA CloudTyped ==
  ASSUME TypeOK,
         \/ \E q \in Requests :
              Lost(q) \/ GuardFails(q) \/ Unauthorized(q) \/ Fails(q) \/ Handle(q)
         \/ CloudCrash \/ \E r \in Records : CloudWrite(r)
  PROVE  DesktopOK' /\ CloudOK' /\ RequestsOK'
<1>0. DesktopOK /\ CloudOK /\ RequestsOK
  BY TypeParts
<1>1. ASSUME NEW q \in Requests,
             \/ GuardLookup(q) \/ FastPath(q) \/ Acquire(q) \/ NoRecord(q) \/ Fails(q)
             \/ Unauthorized(q) \/ Forgotten(q) \/ Lost(q) \/ GuardFails(q) \/ StoreNot(q)
      PROVE  DesktopOK' /\ CloudOK' /\ RequestsOK'
  <2>1. Moves(q)
    BY <1>1, GuardMoves, AcquireMoves, ErrorMoves, OverMoves, FailsMoves, StoreMoves
  <2>2. UNCHANGED <<desktop, cloud>>
    BY <1>1 DEF GuardLookup, FastPath, Acquire, NoRecord, Fails, Unauthorized, Forgotten, Lost,
       GuardFails, StoreNot
  <2> QED BY <1>0, <2>1, <2>2, MovesTyped, SameParts
<1>2. ASSUME NEW q \in Requests, KeepCloud(q) \/ Apply(q)
      PROVE  DesktopOK' /\ CloudOK' /\ RequestsOK'
  <2>1. RequestsOK'
    BY <1>0, <1>2, CommitMoves, MovesTyped
  <2>2. DesktopOK'
    BY <1>0, <1>2, SameParts DEF KeepCloud, Apply
  <2>3. req[q].row \in Mutations
    BY <1>2, CommitMoves, ReqSound
  <2>4. CASE KeepCloud(q)
    BY <1>0, <2>1, <2>2, <2>3, <2>4 DEF CloudOK, KeepCloud, Answer
  <2>5. CASE Apply(q)
    <3>1. ledger' \in [Mutations -> Answer \cup {"none"}] /\ executed' \in [Mutations -> Nat]
      BY <1>0, <2>3, <2>5 DEF CloudOK, Apply, Answer
    <3>2. present' \in [Records -> BOOLEAN]
      BY <1>0, <2>5 DEF CloudOK, Apply
    <3>3. overtaken' \subseteq Mutations
      BY <1>0, <2>5 DEF CloudOK, Apply, Logged, Rows
    <3> QED BY <1>0, <2>1, <2>2, <2>5, <3>1, <3>2, <3>3 DEF CloudOK, Apply
  <2> QED BY <1>2, <2>1, <2>2, <2>4, <2>5
<1>3. ASSUME NEW q \in Requests, Store(q) PROVE DesktopOK' /\ CloudOK' /\ RequestsOK'
  <2>1. RequestsOK' /\ DesktopOK'
    BY <1>0, <1>3, StoreMoves, MovesTyped, SameParts DEF Store
  <2>2. req[q].row \in Mutations /\ req[q].answer \in Answer \cup {"none"}
    BY <1>3, StoreMoves, ReqSound DEF RequestRecord
  <2>3. CloudOK'
    BY <1>0, <1>3, <2>2 DEF CloudOK, Store
  <2> QED BY <2>1, <2>3
<1>4. ASSUME NEW q \in Requests, Answered(q) PROVE DesktopOK' /\ CloudOK' /\ RequestsOK'
  <2>1. RequestsOK' /\ CloudOK'
    BY <1>0, <1>4, OverMoves, MovesTyped, SameParts DEF Answered
  <2>2. req[q].row \in Mutations /\ Verdict(req[q].answer) \in Statuses
    BY <1>4, ReqSound DEF Answered, Busy, Verdict, Statuses
  <2>3. DesktopOK'
    BY <1>0, <1>4, <2>2 DEF DesktopOK, Answered
  <2> QED BY <2>1, <2>3
<1>5. CASE CloudCrash
  <2>1. RequestsOK'
    BY <1>5, FreeSound DEF CloudCrash, RequestsOK, Sound
  <2> QED BY <1>0, <1>5, <2>1, SameParts DEF CloudCrash
<1>6. ASSUME NEW r \in Records, CloudWrite(r) PROVE DesktopOK' /\ CloudOK' /\ RequestsOK'
  <2>1. CloudOK'
    BY <1>0, <1>6 DEF CloudOK, CloudWrite, Logged, Rows
  <2> QED BY <1>0, <1>6, <2>1, SameParts DEF CloudWrite
<1>7. \A q \in Requests : Handle(q) =>
        \/ GuardLookup(q) \/ FastPath(q) \/ Acquire(q) \/ KeepCloud(q) \/ Apply(q)
        \/ NoRecord(q) \/ Store(q) \/ StoreNot(q) \/ Answered(q) \/ Forgotten(q)
  BY DEF Handle
<1> QED BY <1>1, <1>2, <1>3, <1>4, <1>5, <1>6, <1>7

\* Whatever is lost, late, overlapping or cut short, every variable keeps its type, and the
\* desktop waits only while it runs.
THEOREM TypeCorrect == Spec => []TypeOK
<1>1. Init => TypeOK
  BY OutboxAssumption DEF Init, TypeOK, Free, Answer
<1>2. TypeOK /\ [Next]_vars => TypeOK'
  <2>1. ASSUME TypeOK, Next PROVE TypeOK'
    <3>1. DesktopOK' /\ CloudOK' /\ RequestsOK'
      BY <2>1, DesktopTyped, CloudTyped DEF Next
    <3>2. BoundsOK'
      BY <2>1, BoundsStep
    <3> QED BY <3>1, <3>2, TypePartsNext
  <2>2. ASSUME TypeOK, UNCHANGED vars PROVE TypeOK'
    BY <2>2 DEF TypeOK, vars
  <2> QED BY <2>1, <2>2
<1> QED BY <1>1, <1>2, PTL DEF Spec

-----------------------------------------------------------------------------
(* What the two sides know of each other. *)

\* Decided by the cloud, or spoiled by an error stored under its key.
Settled(m) == ~Undecided(m) \/ m \in spoiled

\* The desktop listens to the request of the row it waits for, and only to that.
Listening ==
  /\ \A q \in Requests : req[q].heard => Busy(q) /\ req[q].row = waiting
  /\ \A p, q \in Requests : req[p].heard /\ req[q].heard => p = q

\* Rows are logged in order, and only logged rows travel.
InOrder ==
  /\ \A m, n \in Mutations : m < n /\ out[n] # "none" => out[m] # "none"
  /\ \A m \in batch : out[m] \in {"pending", "due"}
  /\ waiting # None => out[waiting] = "sending"
  /\ \A q \in Requests : Busy(q) => out[req[q].row] # "none"

\* A key is held by one transaction, which decides a row that is undecided.
OneHolder ==
  /\ \A p, q \in Requests : req[p].pc = "write" /\ req[q].pc = "write" /\ req[p].row = req[q].row => p = q
  /\ \A q \in Requests : req[q].pc = "write" => Undecided(req[q].row)
  /\ \A m \in Mutations : ledger[m] = "none" => Undecided(m)
  /\ \A m \in Mutations : ledger[m] # "none" => Settled(m)

\* Good news is true, but for spoiled rows.
TrueNews ==
  /\ \A q \in Requests : req[q].pc = "store" => req[q].answer \in {"applied", "duplicate", "error"}
  /\ \A q \in Requests : req[q].pc \in {"store", "reply"} /\ req[q].answer \in {"applied", "duplicate"}
       => Settled(req[q].row)
  /\ \A m \in Mutations : out[m] = "completed" => Settled(m)

Promised == Listening /\ InOrder /\ OneHolder /\ TrueNews

\* The row of a request that has begun is known.
LEMMA RowOf ==
  ASSUME TypeOK
  PROVE  /\ \A q \in Requests : Busy(q) => req[q].row \in Mutations
         /\ \A q \in Requests : req[q].pc # "free" => req[q].row \in Mutations
BY ReqSound DEF Busy

\* A request goes on, and nothing else changes.
LEMMA QuietMoves ==
  ASSUME TypeOK, TypeOK', Promised, NEW q \in Requests, Moves(q), Busy(q), UNCHANGED <<desktop, cloud>>,
         req'[q].pc = "store" => req'[q].answer \in {"applied", "duplicate", "error"},
         req'[q].pc = "write" => Holders(req[q].row) = {} /\ Undecided(req[q].row),
         req'[q].pc \in {"store", "reply"} /\ req'[q].answer \in {"applied", "duplicate"}
           => Settled(req[q].row)
  PROVE  Promised'
<1>2. /\ out' = out /\ batch' = batch /\ waiting' = waiting /\ ledger' = ledger
      /\ executed' = executed /\ kept' = kept /\ spoiled' = spoiled
      /\ \A p \in Requests \ {q} : req'[p] = req[p]
  BY DEF desktop, cloud, Moves
<1>3. req'[q] = Free \/ (req'[q].pc # "free" /\ req'[q].row = req[q].row /\ req'[q].heard = req[q].heard)
  BY DEF Moves
<1>4. Listening'
  BY <1>2, <1>3 DEF Promised, Listening, Busy, Free
<1>5. InOrder'
  BY <1>2, <1>3 DEF Promised, InOrder, Busy, Free
<1>6. OneHolder'
  BY <1>2, <1>3 DEF Promised, OneHolder, Holders, Free, Undecided, Settled
<1>7. TrueNews'
  BY <1>2, <1>3 DEF Promised, TrueNews, Free, Undecided, Settled
<1> QED BY <1>4, <1>5, <1>6, <1>7 DEF Promised

LEMMA GuardPromised ==
  ASSUME TypeOK, TypeOK', Promised, NEW q \in Requests,
         \/ GuardLookup(q) \/ FastPath(q) \/ Acquire(q) \/ NoRecord(q) \/ Fails(q)
         \/ Unauthorized(q) \/ Forgotten(q) \/ Lost(q) \/ GuardFails(q) \/ StoreNot(q)
  PROVE  Promised'
<1>1. UNCHANGED <<desktop, cloud>> /\ Busy(q)
  BY DEF GuardLookup, FastPath, Acquire, NoRecord, Fails, Unauthorized, Forgotten, Lost,
     GuardFails, StoreNot, Busy
<1>2. req[q].row \in Mutations
  BY <1>1, RowOf
<1>3. CASE GuardLookup(q) \/ FastPath(q)
  <2>1. Moves(q)
    BY <1>3, GuardMoves
  <2>2. /\ req'[q].pc # "write"
        /\ req'[q].pc = "store" => req'[q].answer \in {"applied", "duplicate", "error"}
        /\ req'[q].pc \in {"store", "reply"} => ledger[req[q].row] # "none"
    BY <1>3, GuardMoves
  <2>3. req'[q].pc \in {"store", "reply"} => Settled(req[q].row)
    BY <1>2, <2>2 DEF Promised, OneHolder
  <2> QED BY <1>1, <2>1, <2>2, <2>3, QuietMoves
<1>4. CASE Acquire(q)
  <2>1. Moves(q) /\ Holders(req[q].row) = {}
    BY <1>4, AcquireMoves
  <2>2. \/ ledger[req[q].row] = "none" /\ req'[q].pc = "write"
        \/ req'[q].pc = "store" /\ req'[q].answer = "error"
    BY <1>4, AcquireMoves
  <2>3. req'[q].pc = "write" => Undecided(req[q].row)
    BY <1>2, <2>2 DEF Promised, OneHolder
  <2> QED BY <1>1, <2>1, <2>2, <2>3, QuietMoves
<1>5. CASE NoRecord(q) \/ Fails(q) \/ Unauthorized(q)
  <2>1. Moves(q)
    BY <1>5, ErrorMoves
  <2>2. \/ req'[q].pc = "store" /\ req'[q].answer = "error"
        \/ req'[q].pc = "reply" /\ req'[q].answer = "unauthorized"
    BY <1>5, ErrorMoves
  <2> QED BY <1>1, <2>1, <2>2, QuietMoves
<1>6. CASE Forgotten(q) \/ Lost(q)
  <2>1. Moves(q) /\ req'[q].pc = "free"
    BY <1>6, OverMoves DEF Free
  <2> QED BY <1>1, <2>1, QuietMoves
<1>7. CASE GuardFails(q)
  <2>1. Moves(q) /\ req'[q].pc = "enter"
    BY <1>7, FailsMoves
  <2> QED BY <1>1, <2>1, QuietMoves
<1>8. CASE StoreNot(q)
  <2>1. /\ Moves(q) /\ req[q].pc = "store"
        /\ req'[q].pc = "reply" /\ req'[q].answer = req[q].answer
    BY <1>8, StoreMoves
  <2>2. req'[q].answer \in {"applied", "duplicate"} => Settled(req[q].row)
    BY <2>1 DEF Promised, TrueNews
  <2> QED BY <1>1, <2>1, <2>2, QuietMoves
<1> QED BY <1>3, <1>4, <1>5, <1>6, <1>7, <1>8

\* The commit decides the row, for the only transaction that held its key.
LEMMA CommitDecides ==
  ASSUME TypeOK, Promised, NEW q \in Requests, KeepCloud(q) \/ Apply(q)
  PROVE  LET m == req[q].row IN
           /\ m \in Mutations /\ Undecided(m)
           /\ ledger'[m] = "record" /\ \A k \in Mutations \ {m} : ledger'[k] = ledger[k]
           /\ executed'[m] > 0 \/ m \in kept'
           /\ \A k \in Mutations \ {m} : executed'[k] = executed[k] /\ (k \in kept' <=> k \in kept)
           /\ executed[m] = 0 /\ kept \subseteq kept' /\ spoiled' = spoiled
<1> DEFINE m == req[q].row
<1>1. m \in Mutations /\ req[q].pc = "write"
  BY CommitMoves, RowOf
<1>2. Undecided(m)
  BY <1>1 DEF Promised, OneHolder
<1>3. /\ ledger' = [ledger EXCEPT ![m] = "record"] /\ spoiled' = spoiled
      /\ \/ kept' = kept \cup {m} /\ executed' = executed
         \/ kept' = kept /\ executed' = [executed EXCEPT ![m] = @ + 1]
  BY DEF KeepCloud, Apply
<1>4. ledger'[m] = "record" /\ \A k \in Mutations \ {m} : ledger'[k] = ledger[k]
  BY <1>1, <1>3 DEF TypeOK
<1>5. executed[m] = 0
  BY <1>2 DEF Undecided
<1>6. executed'[m] > 0 \/ m \in kept'
  BY <1>1, <1>3, <1>5 DEF TypeOK
<1>7. \A k \in Mutations \ {m} : executed'[k] = executed[k] /\ (k \in kept' <=> k \in kept)
  BY <1>1, <1>3 DEF TypeOK
<1> QED BY <1>1, <1>2, <1>3, <1>4, <1>5, <1>6, <1>7

LEMMA CommitPromised ==
  ASSUME TypeOK, TypeOK', Promised, NEW q \in Requests, KeepCloud(q) \/ Apply(q)
  PROVE  Promised'
<1>1. /\ Moves(q) /\ Busy(q) /\ req[q].pc = "write"
      /\ req'[q].pc = "store" /\ req'[q].answer = "applied"
  BY CommitMoves
<1>2. /\ \A p \in Requests \ {q} : req'[p] = req[p]
      /\ req'[q].row = req[q].row /\ req'[q].heard = req[q].heard
  BY <1>1 DEF Moves, Free
<1>3. out' = out /\ batch' = batch /\ waiting' = waiting
  BY DEF KeepCloud, Apply, desktop
<1>4. PICK m \in Mutations :
           /\ m = req[q].row /\ Undecided(m)
           /\ ledger'[m] = "record" /\ \A k \in Mutations \ {m} : ledger'[k] = ledger[k]
           /\ executed'[m] > 0 \/ m \in kept'
           /\ \A k \in Mutations \ {m} : executed'[k] = executed[k] /\ (k \in kept' <=> k \in kept)
           /\ spoiled' = spoiled
  BY CommitDecides
<1>5. \A p \in Requests : Busy(p) => req[p].row \in Mutations
  BY RowOf
<1>6. Listening'
  BY <1>1, <1>2, <1>3 DEF Promised, Listening, Busy
<1>7. InOrder'
  BY <1>1, <1>2, <1>3 DEF Promised, InOrder, Busy
<1>8. ~(executed'[m] = 0 /\ m \notin kept')
  BY <1>4
<1>9. OneHolder'
  <2>1. \A p, u \in Requests :
          req'[p].pc = "write" /\ req'[u].pc = "write" /\ req'[p].row = req'[u].row => p = u
    BY <1>1, <1>2 DEF Promised, OneHolder
  <2>2. \A p \in Requests : req'[p].pc = "write" =>
          req'[p].row # m /\ req'[p].row \in Mutations /\ Undecided(req[p].row) /\ req'[p].row = req[p].row
    BY <1>1, <1>2, <1>4, <1>5 DEF Promised, OneHolder, Busy
  <2>3. \A p \in Requests : req'[p].pc = "write" =>
          executed'[req'[p].row] = 0 /\ req'[p].row \notin kept'
    BY <1>4, <2>2 DEF Undecided
  <2>4. \A k \in Mutations : ledger'[k] = "none" => executed'[k] = 0 /\ k \notin kept'
    BY <1>4 DEF Promised, OneHolder, Undecided
  <2>5. \A k \in Mutations : ledger'[k] # "none" => ~(executed'[k] = 0 /\ k \notin kept') \/ k \in spoiled'
    BY <1>4, <1>8 DEF Promised, OneHolder, Undecided, Settled
  <2> QED BY <2>1, <2>3, <2>4, <2>5 DEF OneHolder, Undecided, Settled
<1>10. TrueNews'
  <2>1. \A k \in Mutations : Settled(k) => ~(executed'[k] = 0 /\ k \notin kept') \/ k \in spoiled'
    BY <1>4, <1>8 DEF Undecided, Settled
  <2>2. \A p \in Requests : req'[p].pc = "store" => req'[p].answer \in {"applied", "duplicate", "error"}
    BY <1>1, <1>2 DEF Promised, TrueNews
  <2>3. \A p \in Requests : req'[p].pc \in {"store", "reply"} /\ req'[p].answer \in {"applied", "duplicate"} =>
          ~(executed'[req'[p].row] = 0 /\ req'[p].row \notin kept') \/ req'[p].row \in spoiled'
    BY <1>1, <1>2, <1>4, <1>5, <1>8, <2>1 DEF Promised, TrueNews, Busy
  <2>4. \A k \in Mutations : out'[k] = "completed" => ~(executed'[k] = 0 /\ k \notin kept') \/ k \in spoiled'
    BY <1>3, <2>1 DEF Promised, TrueNews
  <2> QED BY <2>2, <2>3, <2>4 DEF TrueNews, Undecided, Settled
<1> QED BY <1>6, <1>7, <1>9, <1>10 DEF Promised

LEMMA StorePromised ==
  ASSUME TypeOK, TypeOK', Promised, NEW q \in Requests, Store(q)
  PROVE  Promised'
<1>1. /\ Moves(q) /\ Busy(q) /\ req[q].pc = "store"
      /\ req'[q].pc = "reply" /\ req'[q].answer = req[q].answer
  BY StoreMoves
<1>2. /\ \A p \in Requests \ {q} : req'[p] = req[p]
      /\ req'[q].row = req[q].row /\ req'[q].heard = req[q].heard
  BY <1>1 DEF Moves, Free
<1>3. /\ out' = out /\ batch' = batch /\ waiting' = waiting /\ executed' = executed /\ kept' = kept
      /\ spoiled \subseteq spoiled'
  BY DEF Store, desktop
<1>4. \A p \in Requests : Busy(p) => req[p].row \in Mutations
  BY RowOf
<1>5. PICK m \in Mutations : m = req[q].row
  BY <1>1, <1>4
<1>6. req[q].answer \in {"applied", "duplicate", "error"}
  BY <1>1 DEF Promised, TrueNews
<1>7. ledger'[m] = req[q].answer /\ \A k \in Mutations \ {m} : ledger'[k] = ledger[k]
  BY <1>5 DEF Store, TypeOK
<1>8. ~Undecided(m) \/ m \in spoiled'
  <2>1. CASE req[q].answer = "error"
    BY <1>5, <2>1 DEF Store
  <2>2. CASE req[q].answer # "error"
    BY <1>1, <1>3, <1>5, <1>6, <2>2 DEF Promised, TrueNews, Settled
  <2> QED BY <2>1, <2>2
<1>9. Listening'
  BY <1>1, <1>2, <1>3 DEF Promised, Listening, Busy
<1>10. InOrder'
  BY <1>1, <1>2, <1>3 DEF Promised, InOrder, Busy
<1>11. OneHolder'
  BY <1>1, <1>2, <1>3, <1>4, <1>6, <1>7, <1>8 DEF Promised, OneHolder, Undecided, Settled, Busy
<1>12. TrueNews'
  BY <1>1, <1>2, <1>3, <1>4, <1>5, <1>8 DEF Promised, TrueNews, Undecided, Settled, Busy
<1> QED BY <1>9, <1>10, <1>11, <1>12 DEF Promised

\* What the rest of the desktop's steps leave alone.
LEMMA CloudStays ==
  ASSUME UNCHANGED cloud
  PROVE  ledger' = ledger /\ executed' = executed /\ kept' = kept /\ spoiled' = spoiled
BY DEF cloud

LEMMA AnsweredPromised ==
  ASSUME TypeOK, TypeOK', Promised, NEW q \in Requests, Answered(q)
  PROVE  Promised'
<1>1. /\ \A p \in Requests \ {q} : req'[p] = req[p]
      /\ req'[q].pc = "free" /\ ~req'[q].heard
  BY OverMoves, FreeSound DEF Moves
<1>2. ledger' = ledger /\ executed' = executed /\ kept' = kept /\ spoiled' = spoiled
  BY CloudStays DEF Answered
<1>3. PICK m \in Mutations : m = req[q].row
  BY RowOf DEF Answered
<1>4. /\ waiting = m /\ out[m] = "sending" /\ m # None
      /\ \A p \in Requests : req[p].heard => p = q
  BY <1>3, OutboxAssumption DEF Promised, Listening, InOrder, Answered
<1>5. /\ out' = [out EXCEPT ![m] = Verdict(req[q].answer)]
      /\ waiting' = None /\ batch' \subseteq batch /\ req[q].pc = "reply"
  BY <1>3 DEF Answered
<1>6. /\ Verdict(req[q].answer) \in {"sending", "retry", "permanent", "completed"}
      /\ Verdict(req[q].answer) = "completed" => req[q].answer \in {"applied", "duplicate"}
  BY DEF Verdict
<1>7. /\ out'[m] = Verdict(req[q].answer) /\ \A k \in Mutations \ {m} : out'[k] = out[k]
  BY <1>5 DEF TypeOK
<1>8. \A p \in Requests : Busy(p) => req[p].row \in Mutations
  BY RowOf
<1>9. Listening'
  BY <1>1, <1>4 DEF Promised, Listening, Busy
<1>10. InOrder'
  <2>1. \A k, n \in Mutations : k < n /\ out'[n] # "none" => out'[k] # "none"
    BY <1>4, <1>6, <1>7 DEF Promised, InOrder
  <2>2. \A k \in batch' : out'[k] \in {"pending", "due"}
    BY <1>4, <1>5, <1>7 DEF Promised, InOrder, TypeOK
  <2>3. \A p \in Requests : req'[p].pc # "free" => out'[req'[p].row] # "none"
    BY <1>1, <1>6, <1>7, <1>8 DEF Promised, InOrder, Busy
  <2> QED BY <1>5, <2>1, <2>2, <2>3 DEF InOrder, Busy
<1>11. OneHolder'
  BY <1>1, <1>2 DEF Promised, OneHolder, Undecided, Settled
<1>12. TrueNews'
  <2>1. \A p \in Requests : req'[p].pc = "store" => req'[p].answer \in {"applied", "duplicate", "error"}
    BY <1>1 DEF Promised, TrueNews
  <2>2. \A k \in Mutations : out'[k] = "completed" => Settled(k)
    BY <1>3, <1>5, <1>6, <1>7 DEF Promised, TrueNews
  <2> QED BY <1>1, <1>2, <2>1, <2>2 DEF Promised, TrueNews, Undecided, Settled
<1> QED BY <1>9, <1>10, <1>11, <1>12 DEF Promised

LEMMA DesktopPromised ==
  ASSUME TypeOK, TypeOK', Promised,
         (\E m \in Mutations : Log(m) \/ BackoffEnds(m)) \/ ReplayRead \/ Restart
  PROVE  Promised'
<1>1. req' = req /\ waiting' = waiting
  BY DEF Log, BackoffEnds, ReplayRead, Restart
<1>2. ledger' = ledger /\ executed' = executed /\ kept' = kept /\ spoiled' = spoiled
  BY CloudStays DEF Log, BackoffEnds, ReplayRead, Restart
<1>3. \A p \in Requests : Busy(p) => req[p].row \in Mutations
  BY RowOf
<1>4. Listening' /\ OneHolder'
  BY <1>1, <1>2 DEF Promised, Listening, OneHolder, Undecided, Settled, Busy
<1>5. InOrder' /\ TrueNews'
  <2>1. ASSUME NEW m \in Mutations, Log(m) PROVE InOrder' /\ TrueNews'
    <3>1. /\ out'[m] = "pending" /\ out[m] = "none" /\ \A k \in Mutations \ {m} : out'[k] = out[k]
          /\ batch' = batch /\ \A n \in Mutations : n < m => out[n] # "none"
      BY <2>1 DEF Log, TypeOK
    <3>2. InOrder'
      BY <1>1, <1>3, <3>1 DEF Promised, InOrder, Busy, TypeOK
    <3>3. TrueNews'
      BY <1>1, <1>2, <3>1 DEF Promised, TrueNews, Undecided, Settled
    <3> QED BY <3>2, <3>3
  <2>2. ASSUME NEW m \in Mutations, BackoffEnds(m) PROVE InOrder' /\ TrueNews'
    <3>1. /\ out'[m] = "due" /\ out[m] = "retry" /\ \A k \in Mutations \ {m} : out'[k] = out[k]
          /\ batch' = batch
      BY <2>2 DEF BackoffEnds, TypeOK
    <3>2. InOrder'
      BY <1>1, <1>3, <3>1 DEF Promised, InOrder, Busy, TypeOK
    <3>3. TrueNews'
      BY <1>1, <1>2, <3>1 DEF Promised, TrueNews, Undecided, Settled
    <3> QED BY <3>2, <3>3
  <2>3. CASE ReplayRead
    <3>1. out' = out /\ batch' = Due /\ waiting' = None
      BY <2>3 DEF ReplayRead
    <3>2. InOrder'
      BY <1>1, <3>1 DEF Promised, InOrder, Busy, Due
    <3>3. TrueNews'
      BY <1>1, <1>2, <3>1 DEF Promised, TrueNews, Undecided, Settled
    <3> QED BY <3>2, <3>3
  <2>4. CASE Restart
    <3>1. /\ waiting = None /\ batch' = batch
          /\ \A k \in Mutations : out'[k] = out[k] \/ (out[k] = "sending" /\ out'[k] = "pending")
      BY <2>4 DEF Restart, TypeOK
    <3>2. InOrder'
      BY <1>1, <1>3, <3>1 DEF Promised, InOrder, Busy, TypeOK
    <3>3. TrueNews'
      BY <1>1, <1>2, <3>1 DEF Promised, TrueNews, Undecided, Settled
    <3> QED BY <3>2, <3>3
  <2> QED BY <2>1, <2>2, <2>3, <2>4
<1> QED BY <1>4, <1>5 DEF Promised

LEMMA SendPromised ==
  ASSUME TypeOK, TypeOK', Promised, ReplaySend PROVE Promised'
<1> DEFINE m == Min(batch)
<1>1. /\ m \in batch /\ m \in Mutations /\ waiting = None /\ m # None
      /\ out' = [out EXCEPT ![m] = "sending"] /\ batch' = batch \ {m} /\ waiting' = m
  BY MinBatch, OutboxAssumption DEF ReplaySend, TypeOK
<1> HIDE DEF m
<1>2. PICK q \in Requests :
           /\ req[q] = Free /\ req'[q].pc = "lookup" /\ req'[q].row = m /\ req'[q].heard
           /\ \A p \in Requests \ {q} : req'[p] = req[p]
  BY SendMoves DEF m
<1>3. ledger' = ledger /\ executed' = executed /\ kept' = kept /\ spoiled' = spoiled
  BY CloudStays DEF ReplaySend
<1>4. out'[m] = "sending" /\ out[m] \in {"pending", "due"} /\ \A k \in Mutations \ {m} : out'[k] = out[k]
  BY <1>1 DEF TypeOK, Promised, InOrder
<1>5. \A p \in Requests : Busy(p) => req[p].row \in Mutations
  BY RowOf
<1>6. \A p \in Requests : ~req[p].heard
  BY <1>1, <1>5, OutboxAssumption DEF Promised, Listening
<1>7. Listening'
  BY <1>1, <1>2, <1>6 DEF Listening, Busy
<1>8. InOrder'
  BY <1>1, <1>2, <1>4, <1>5 DEF Promised, InOrder, Busy, TypeOK
<1>9. OneHolder'
  BY <1>2, <1>3 DEF Promised, OneHolder, Undecided, Settled
<1>10. TrueNews'
  BY <1>2, <1>3, <1>4 DEF Promised, TrueNews, Undecided, Settled
<1> QED BY <1>7, <1>8, <1>9, <1>10 DEF Promised

LEMMA GivenUpPromised ==
  ASSUME TypeOK, TypeOK', Promised, TimedOut \/ Crash PROVE Promised'
<1>1. \A q \in Requests : /\ req'[q].heard = FALSE /\ req'[q].pc = req[q].pc
                          /\ req'[q].row = req[q].row /\ req'[q].answer = req[q].answer
  BY UnheardMoves DEF TimedOut, Crash
<1>2. ledger' = ledger /\ executed' = executed /\ kept' = kept /\ spoiled' = spoiled
  BY CloudStays DEF TimedOut, Crash
<1>3. /\ batch' = {} /\ waiting' = None
      /\ \A k \in Mutations : out'[k] = out[k] \/ (out[k] = "sending" /\ out'[k] = "retry")
  <2>1. CASE TimedOut
    BY <2>1 DEF TimedOut, TypeOK, Promised, InOrder
  <2>2. CASE Crash
    BY <2>2 DEF Crash
  <2> QED BY <2>1, <2>2
<1>4. \A p \in Requests : Busy(p) => req[p].row \in Mutations
  BY RowOf
<1>5. Listening'
  BY <1>1 DEF Listening
<1>6. InOrder'
  BY <1>1, <1>3, <1>4 DEF Promised, InOrder, Busy
<1>7. OneHolder'
  BY <1>1, <1>2 DEF Promised, OneHolder, Undecided, Settled
<1>8. TrueNews'
  BY <1>1, <1>2, <1>3 DEF Promised, TrueNews, Undecided, Settled
<1> QED BY <1>5, <1>6, <1>7, <1>8 DEF Promised

LEMMA RestPromised ==
  ASSUME TypeOK, TypeOK', Promised, CloudCrash \/ (\E r \in Records : CloudWrite(r)) \/ UNCHANGED vars
  PROVE  Promised'
<1>1. /\ out' = out /\ batch' = batch /\ waiting' = waiting /\ ledger' = ledger
      /\ executed' = executed /\ kept' = kept /\ spoiled' = spoiled
  BY DEF CloudCrash, CloudWrite, vars, desktop, cloud
<1>2. req' = req \/ req' = [q \in Requests |-> Free]
  BY DEF CloudCrash, CloudWrite, vars
<1>3. Listening'
  BY <1>1, <1>2 DEF Promised, Listening, Busy, Free
<1>4. InOrder'
  BY <1>1, <1>2 DEF Promised, InOrder, Busy, Free
<1>5. OneHolder'
  BY <1>1, <1>2 DEF Promised, OneHolder, Undecided, Settled, Free
<1>6. TrueNews'
  BY <1>1, <1>2 DEF Promised, TrueNews, Undecided, Settled, Free
<1> QED BY <1>3, <1>4, <1>5, <1>6 DEF Promised

LEMMA PromisedStep ==
  ASSUME TypeOK, TypeOK', Promised, [Next]_vars PROVE Promised'
<1>1. ASSUME NEW q \in Requests,
             Handle(q) \/ Lost(q) \/ GuardFails(q) \/ Unauthorized(q) \/ Fails(q)
      PROVE  Promised'
  BY <1>1, GuardPromised, CommitPromised, StorePromised, AnsweredPromised DEF Handle
<1> QED BY <1>1, DesktopPromised, SendPromised, GivenUpPromised, RestPromised DEF Next

LEMMA InitPromised == Init => Promised
BY OutboxAssumption DEF Init, Promised, Listening, InOrder, OneHolder, TrueNews, Settled, Undecided, Free, Busy

\* Every step is one of Delivery's or a stutter.
LEMMA PromiseStep ==
  ASSUME TypeOK, TypeOK', Promised, [Next]_vars
  PROVE  [Promise!Next]_(Promise!vars)
<1> DEFINE Logs == {m \in Mutations : out[m] # "none"}
           Done == {m \in Mutations : out[m] = "completed"} \ spoiled
<1>1. ASSUME NEW q \in Requests, KeepCloud(q) \/ Apply(q) PROVE Promise!Next
  <2> DEFINE m == req[q].row
  <2>1. m \in Mutations /\ Undecided(m) /\ m \in Logs
    BY <1>1, CommitDecides, CommitMoves DEF Promised, InOrder
  <2>2. UNCHANGED <<out, spoiled>>
    BY <1>1 DEF KeepCloud, Apply, desktop
  <2>3. UNCHANGED <<Logs, Done>>
    BY <2>2
  <2>4. CASE KeepCloud(q)
    <3>1. kept' = kept \cup {m} /\ executed' = executed
      BY <2>4 DEF KeepCloud
    <3>2. Promise!Keep(m)
      BY <2>1, <2>3, <3>1 DEF Promise!Keep, Promise!Undecided, Undecided
    <3> QED BY <2>1, <3>2 DEF Promise!Next
  <2>5. CASE Apply(q)
    <3>1. kept' = kept /\ executed' = [executed EXCEPT ![m] = @ + 1]
      BY <2>5 DEF Apply
    <3>2. executed' = [executed EXCEPT ![m] = 1]
      BY <2>1, <3>1 DEF Undecided, TypeOK
    <3>3. Promise!Apply(m)
      BY <2>1, <2>3, <3>1, <3>2 DEF Promise!Apply, Promise!Undecided, Undecided
    <3> QED BY <2>1, <3>3 DEF Promise!Next
  <2> QED BY <1>1, <2>4, <2>5
<1>2. ASSUME NEW q \in Requests, Answered(q) PROVE [Promise!Next]_(Promise!vars)
  <2>1. PICK m \in Mutations : m = req[q].row
    BY <1>2, RowOf DEF Answered
  <2>2. out[m] = "sending"
    BY <1>2, <2>1, OutboxAssumption DEF Promised, Listening, InOrder, Answered
  <2>3. /\ out' = [out EXCEPT ![m] = Verdict(req[q].answer)] /\ executed' = executed /\ kept' = kept
        /\ spoiled' = spoiled /\ Verdict(req[q].answer) # "none"
    BY <1>2, <2>1 DEF Answered, cloud, Verdict
  <2>4. Logs' = Logs
    BY <2>2, <2>3 DEF TypeOK
  <2>5. CASE Verdict(req[q].answer) # "completed" \/ m \in spoiled
    <3>1. Done' = Done
      BY <2>2, <2>3, <2>5 DEF TypeOK
    <3> QED BY <2>3, <2>4, <3>1 DEF Promise!vars
  <2>6. CASE Verdict(req[q].answer) = "completed" /\ m \notin spoiled
    <3>1. Done' = Done \cup {m} /\ m \in Logs \ Done
      BY <2>2, <2>3, <2>6 DEF TypeOK
    <3>2. ~Undecided(m)
      <4>1. req[q].answer \in {"applied", "duplicate"}
        BY <2>6 DEF Verdict
      <4> QED BY <1>2, <2>1, <2>6, <4>1 DEF Promised, TrueNews, Settled, Answered
    <3>3. Promise!Report(m)
      BY <2>3, <2>4, <3>1, <3>2 DEF Promise!Report, Promise!Undecided, Undecided
    <3> QED BY <3>3 DEF Promise!Next
  <2> QED BY <2>5, <2>6
<1>3. ASSUME NEW q \in Requests, Store(q) PROVE UNCHANGED Promise!vars
  <2>1. out' = out /\ executed' = executed /\ kept' = kept
    BY <1>3 DEF Store, desktop
  <2>2. \A m \in Mutations : out[m] = "completed" => (m \in spoiled' <=> m \in spoiled)
    BY <1>3 DEF Promised, TrueNews, Settled, Store
  <2>3. Logs' = Logs /\ Done' = Done
    BY <2>1, <2>2
  <2> QED BY <2>1, <2>3 DEF Promise!vars
<1>4. ASSUME NEW m \in Mutations, Log(m) PROVE Promise!Next
  <2>1. /\ Logs' = Logs \cup {m} /\ m \notin Logs /\ Done' = Done
        /\ executed' = executed /\ kept' = kept
    BY <1>4 DEF Log, TypeOK, cloud
  <2>2. Promise!Log(m)
    BY <2>1 DEF Promise!Log
  <2> QED BY <2>2 DEF Promise!Next
<1>5. ASSUME \A m \in Mutations : /\ out'[m] = "none" <=> out[m] = "none"
                                  /\ out'[m] = "completed" <=> out[m] = "completed",
             UNCHANGED <<executed, kept, spoiled>>
      PROVE  UNCHANGED Promise!vars
  <2>1. Logs' = Logs /\ Done' = Done
    BY <1>5
  <2> QED BY <1>5, <2>1 DEF Promise!vars
<1>6. ASSUME NEW q \in Requests,
             \/ GuardLookup(q) \/ FastPath(q) \/ Acquire(q) \/ NoRecord(q) \/ Fails(q)
             \/ Unauthorized(q) \/ Forgotten(q) \/ Lost(q) \/ GuardFails(q) \/ StoreNot(q)
      PROVE  UNCHANGED Promise!vars
  BY <1>5, <1>6 DEF GuardLookup, FastPath, Acquire, NoRecord, Fails, Unauthorized, Forgotten, Lost,
     GuardFails, StoreNot, desktop, cloud
<1>7. CASE (\E m \in Mutations : BackoffEnds(m)) \/ ReplayRead \/ Restart
  <2>1. \A m \in Mutations : /\ out'[m] = "none" <=> out[m] = "none"
                             /\ out'[m] = "completed" <=> out[m] = "completed"
    BY <1>7 DEF BackoffEnds, ReplayRead, Restart, TypeOK
  <2> QED BY <1>5, <1>7, <2>1 DEF BackoffEnds, ReplayRead, Restart, cloud
<1>8. CASE ReplaySend
  <2>1. Min(batch) \in Mutations /\ out[Min(batch)] \in {"pending", "due"}
    BY <1>8, MinBatch DEF ReplaySend, TypeOK, Promised, InOrder
  <2>2. \A m \in Mutations : /\ out'[m] = "none" <=> out[m] = "none"
                             /\ out'[m] = "completed" <=> out[m] = "completed"
    BY <1>8, <2>1 DEF ReplaySend, TypeOK
  <2> QED BY <1>5, <1>8, <2>2 DEF ReplaySend, cloud
<1>9. CASE TimedOut \/ Crash
  <2>1. \A m \in Mutations : /\ out'[m] = "none" <=> out[m] = "none"
                             /\ out'[m] = "completed" <=> out[m] = "completed"
    BY <1>9 DEF TimedOut, Crash, TypeOK, Promised, InOrder
  <2> QED BY <1>5, <1>9, <2>1 DEF TimedOut, Crash, cloud
<1>10. CASE CloudCrash \/ (\E r \in Records : CloudWrite(r)) \/ UNCHANGED vars
  BY <1>5, <1>10 DEF CloudCrash, CloudWrite, vars, desktop, cloud
<1> HIDE DEF Logs, Done
<1>11. ASSUME NEW q \in Requests,
              Handle(q) \/ Lost(q) \/ GuardFails(q) \/ Unauthorized(q) \/ Fails(q)
       PROVE  [Promise!Next]_(Promise!vars)
  BY <1>1, <1>2, <1>3, <1>6, <1>11 DEF Handle
<1> QED BY <1>4, <1>7, <1>8, <1>9, <1>10, <1>11 DEF Next

\* The outbox and the cloud keep the promise of module Delivery for any rows, any number of
\* requests and any number of failures: a row takes effect at most once, and is reported done
\* only when the cloud has decided it, unless an error was stored under its key.
THEOREM DeliveryKept == Spec => KeepsPromise
<1>1. Init => Promise!Init
  BY DEF Init, Promise!Init
<1>2. TypeOK /\ TypeOK' /\ Promised /\ [Next]_vars => Promised'
  BY PromisedStep
<1>3. TypeOK /\ TypeOK' /\ Promised /\ [Next]_vars => [Promise!Next]_(Promise!vars)
  BY PromiseStep
<1> QED BY <1>1, <1>2, <1>3, InitPromised, TypeCorrect, PTL DEF Spec, KeepsPromise, Promise!Spec

-----------------------------------------------------------------------------
(* The order of the rows. *)

\* The replay is through with row m: it is decided or spoiled, or was left out.
Behind(m) == Settled(m) \/ m \in leftOut

\* A replay has rows to send or one to hear of only while the desktop runs; it sends the oldest
\* first, and what is older than a row of it is in it too, or behind it.
Queued ==
  /\ batch # {} => up
  /\ waiting # None => waiting \notin batch /\ \A n \in batch : waiting < n
  /\ \A m, n \in Mutations :
       m < n /\ (n \in batch \/ n = waiting) => m \in batch \/ m = waiting \/ Behind(m)

\* Decisions are not taken back.
LEMMA BehindStays ==
  ASSUME kept \subseteq kept', \A m \in Mutations : executed[m] > 0 => executed'[m] > 0,
         spoiled \subseteq spoiled', leftOut \subseteq leftOut', TypeOK, TypeOK'
  PROVE  \A m \in Mutations : Behind(m) => Settled(m)' \/ m \in leftOut'
BY DEF Behind, Settled, Undecided, TypeOK

\* The replay stands still.
LEMMA StillQueued ==
  ASSUME TypeOK, TypeOK', Queued, up' = up, batch' = batch, waiting' = waiting,
         \A m \in Mutations : Behind(m) => Settled(m)' \/ m \in leftOut'
  PROVE  Queued'
BY DEF Queued, Behind

\* A step that ends the replay, or finds none.
LEMMA NoneQueued ==
  ASSUME batch' = {}, waiting' = None PROVE Queued'
<1>1. \A n \in Mutations : n # None
  BY OutboxAssumption
<1> QED BY <1>1 DEF Queued

LEMMA ReadQueued ==
  ASSUME TypeOK, TypeOK', Promised, ReplayRead PROVE Queued'
<1>1. /\ out' = out /\ batch' = Due /\ waiting' = None /\ up' /\ UNCHANGED cloud
      /\ leftOut' = {m \in Mutations : out[m] \in {"sending", "retry", "permanent"}}
  BY DEF ReplayRead, TypeOK
<1>2. ASSUME NEW m \in Mutations, NEW n \in batch', m < n
      PROVE  m \in batch' \/ Settled(m)' \/ m \in leftOut'
  <2>1. n \in Mutations /\ out[n] # "none"
    BY <1>1, <1>2 DEF Due
  <2>2. out[m] # "none"
    BY <1>2, <2>1 DEF Promised, InOrder
  <2>3. CASE out[m] = "completed"
    BY <1>1, <2>3, CloudStays DEF Promised, TrueNews, Settled, Undecided
  <2>4. CASE out[m] # "completed"
    BY <1>1, <2>2, <2>4 DEF Due, TypeOK
  <2> QED BY <2>3, <2>4
<1>3. \A n \in Mutations : n # waiting'
  BY <1>1, OutboxAssumption
<1> QED BY <1>1, <1>2, <1>3 DEF Queued, Behind

LEMMA SendQueued ==
  ASSUME TypeOK, TypeOK', Queued, ReplaySend PROVE Queued'
<1> DEFINE m == Min(batch)
<1>1. m \in batch /\ \A n \in batch : m =< n
  BY MinBatch DEF ReplaySend
<1>2. /\ waiting = None /\ up' = up /\ batch' = batch \ {m} /\ waiting' = m
      /\ leftOut' = leftOut /\ UNCHANGED cloud
  BY DEF ReplaySend
<1> HIDE DEF m
<1>3. /\ m \in Nat /\ batch \subseteq Nat /\ batch \subseteq Mutations
      /\ \A n \in Mutations : n # waiting
  BY <1>1, <1>2, OutboxAssumption DEF TypeOK
<1>4. \A n \in batch' : m < n
  BY <1>1, <1>2, <1>3
<1>5. \A k \in Mutations : Behind(k) => Settled(k)' \/ k \in leftOut'
  BY <1>2, CloudStays DEF Behind, Settled, Undecided
<1>6. ASSUME NEW k \in Mutations, NEW n \in Mutations, k < n, n \in batch' \/ n = waiting'
      PROVE  k \in batch' \/ k = waiting' \/ Settled(k)' \/ k \in leftOut'
  <2>1. n \in batch
    BY <1>1, <1>2, <1>6
  <2>2. k \in batch \/ Behind(k)
    BY <1>3, <1>6, <2>1 DEF Queued
  <2> QED BY <1>2, <1>5, <2>2
<1>7. batch' # {} => up'
  BY <1>1, <1>2 DEF Queued
<1> QED BY <1>2, <1>4, <1>6, <1>7 DEF Queued, Behind

LEMMA AnsweredQueued ==
  ASSUME TypeOK, TypeOK', Promised, Queued, NEW q \in Requests, Answered(q) PROVE Queued'
<1>1. PICK m \in Mutations : m = req[q].row /\ waiting = m /\ req[q].pc = "reply"
  BY RowOf DEF Answered, Promised, Listening
<1>2. /\ out' = [out EXCEPT ![m] = Verdict(req[q].answer)]
      /\ batch' \subseteq batch /\ (batch' = {} \/ batch' = batch) /\ waiting' = None
      /\ leftOut' = IF out'[m] = "completed" THEN leftOut ELSE leftOut \cup {m}
      /\ up' = up /\ UNCHANGED cloud
  BY <1>1 DEF Answered
<1>3. \A k \in Mutations : Behind(k) => Settled(k)' \/ k \in leftOut'
  BY <1>2, CloudStays DEF Behind, Settled, Undecided
<1>4. Settled(m)' \/ m \in leftOut'
  <2>1. CASE out'[m] = "completed"
    <3>1. req[q].answer \in {"applied", "duplicate"}
      BY <1>1, <1>2, <2>1 DEF TypeOK, Verdict
    <3> QED BY <1>1, <1>2, <3>1, CloudStays DEF Promised, TrueNews, Settled, Undecided
  <2>2. CASE out'[m] # "completed"
    BY <1>2, <2>2
  <2> QED BY <2>1, <2>2
<1>5. CASE batch' = {}
  BY <1>2, <1>5, NoneQueued
<1>6. CASE batch' = batch
  <2>1. \A n \in Mutations : n # waiting'
    BY <1>2, OutboxAssumption
  <2>2. ASSUME NEW k \in Mutations, NEW n \in Mutations, k < n, n \in batch'
        PROVE  k \in batch' \/ Settled(k)' \/ k \in leftOut'
    BY <1>1, <1>3, <1>4, <1>6, <2>2 DEF Queued
  <2> QED BY <1>2, <1>6, <2>1, <2>2 DEF Queued, Behind
<1> QED BY <1>2, <1>5, <1>6

\* What the cloud does to a request decides a row or leaves all as it is.
LEMMA CloudQueued ==
  ASSUME TypeOK, TypeOK', Promised, Queued, NEW q \in Requests,
         \/ Handle(q) /\ ~Answered(q)
         \/ Lost(q) \/ GuardFails(q) \/ Unauthorized(q) \/ Fails(q)
  PROVE  Queued'
<1>1. UNCHANGED desktop
  BY DEF Handle, GuardLookup, FastPath, Acquire, KeepCloud, Apply, NoRecord, Store, StoreNot,
     Forgotten, Lost, GuardFails, Unauthorized, Fails
<1>2. UNCHANGED cloud \/ KeepCloud(q) \/ Apply(q) \/ Store(q)
  BY DEF Handle, GuardLookup, FastPath, Acquire, NoRecord, StoreNot,
     Forgotten, Lost, GuardFails, Unauthorized, Fails
<1>3. /\ kept \subseteq kept' /\ spoiled \subseteq spoiled'
      /\ \A m \in Mutations : executed[m] > 0 => executed'[m] > 0
  <2>1. CASE UNCHANGED cloud
    BY <2>1, CloudStays
  <2>2. CASE KeepCloud(q) \/ Apply(q)
    BY <2>2, CommitDecides
  <2>3. CASE Store(q)
    BY <2>3 DEF Store
  <2> QED BY <1>2, <2>1, <2>2, <2>3
<1>4. up' = up /\ batch' = batch /\ waiting' = waiting /\ leftOut' = leftOut
  BY <1>1 DEF desktop
<1>5. \A m \in Mutations : Behind(m) => Settled(m)' \/ m \in leftOut'
  BY <1>3, <1>4, BehindStays
<1> QED BY <1>4, <1>5, StillQueued

LEMMA RestQueued ==
  ASSUME TypeOK, TypeOK', Queued,
         \/ \E m \in Mutations : Log(m) \/ BackoffEnds(m)
         \/ TimedOut \/ Crash \/ Restart \/ CloudCrash
         \/ (\E r \in Records : CloudWrite(r)) \/ UNCHANGED vars
  PROVE  Queued'
<1>1. CASE TimedOut \/ Crash
  BY <1>1, NoneQueued DEF TimedOut, Crash
<1>2. CASE Restart
  <2>1. batch = {} /\ waiting = None
    BY <1>2 DEF Restart, Queued, TypeOK
  <2> QED BY <1>2, <2>1, NoneQueued DEF Restart
<1>3. CASE \/ \E m \in Mutations : Log(m) \/ BackoffEnds(m)
           \/ CloudCrash \/ (\E r \in Records : CloudWrite(r)) \/ UNCHANGED vars
  <2>1. /\ up' = up /\ batch' = batch /\ waiting' = waiting /\ leftOut' = leftOut
        /\ executed' = executed /\ kept' = kept /\ spoiled' = spoiled
    BY <1>3 DEF Log, BackoffEnds, CloudCrash, CloudWrite, vars, desktop, cloud
  <2>2. \A m \in Mutations : Behind(m) => Settled(m)' \/ m \in leftOut'
    BY <2>1 DEF Behind, Settled, Undecided
  <2> QED BY <2>1, <2>2, StillQueued
<1> QED BY <1>1, <1>2, <1>3

LEMMA QueuedStep ==
  ASSUME TypeOK, TypeOK', Promised, Queued, [Next]_vars PROVE Queued'
<1>1. ASSUME NEW q \in Requests,
             Handle(q) \/ Lost(q) \/ GuardFails(q) \/ Unauthorized(q) \/ Fails(q)
      PROVE  Queued'
  BY <1>1, CloudQueued, AnsweredQueued
<1> QED BY <1>1, ReadQueued, SendQueued, RestQueued DEF Next

LEMMA InitQueued == Init => Queued
BY NoneQueued, OutboxAssumption DEF Init, Queued

\* Whatever is lost, late or cut short, no row overtakes another inside one replay, unless the
\* replay heard an error for the earlier one, left it out, or an error is stored for it.
THEOREM Order == Spec => []NoneOvertakenInReplay
<1>1. TypeOK /\ TypeOK' /\ Promised /\ [Next]_vars => Promised'
  BY PromisedStep
<1>2. TypeOK /\ TypeOK' /\ Promised /\ Queued /\ [Next]_vars => Queued'
  BY QueuedStep
<1>3. TypeOK /\ Queued => NoneOvertakenInReplay
  <2> SUFFICES ASSUME TypeOK, Queued, NEW m \in Mutations, waiting # None, m < waiting
               PROVE  Behind(m)
    BY DEF NoneOvertakenInReplay, Behind, Settled
  <2>1. waiting \in Mutations /\ Mutations \subseteq Nat
    BY OutboxAssumption DEF TypeOK
  <2>2. m \notin batch /\ m # waiting
    BY <2>1 DEF Queued
  <2> QED BY <2>1, <2>2 DEF Queued
<1> QED BY <1>1, <1>2, <1>3, InitPromised, InitQueued, TypeCorrect, PTL DEF Spec
==============================================================================
