------------------------ MODULE CounterControlProofs ------------------------
(* What is proved about CounterControl. *)
EXTENDS CounterControl, TLAPS

-----------------------------------------------------------------------------
(* What a handler or a sweep pass knows at each point. *)

AtRequest == {"look", "transferRead", "transferWrite", "expire"}

Knows(p, q) ==
  /\ q \in ProcRecord
  /\ q.pc = "idle" => q.req = None /\ q.op = "none"
  /\ q.pc # "idle" => (q.op = "sweep" <=> p \in Sweepers)
  /\ q.pc \in {"claimFree", "claimWrite"} =>
       q.op \in {"claim", "request"} /\ q.counter \in Counters /\ q.user \in Users
  /\ q.op = "claim" => q.to \in Users
  /\ q.pc \in {"fileLook", "fileCreate"} =>
       q.op = "request" /\ q.counter \in Counters /\ q.user \in Users
  /\ q.pc = "free" => q.todo \subseteq Counters /\ q.op \in {"release", "releaseMine", "sweep"}
  /\ q.pc \in {"transferRead", "transferWrite"} =>
       q.op \in {"claim", "assign", "approve", "sweep"} /\ q.counter \in Counters /\ q.to \in Users
  /\ q.pc = "transferWrite" => q.expect \in {None, q.seen}
  /\ q.pc = "approveMark" => q.op = "approve"
  /\ q.pc = "reject" => q.op = "reject"
  /\ q.op \in {"request", "approve", "reject"} => q.req \in Requests
  /\ q.pc \in {"resolve", "look", "expire"} => q.op = "sweep"
  /\ q.op = "sweep" =>
       /\ q.pc # "free" => q.todo \subseteq Requests
       /\ q.expect = None
       /\ IF q.pc \in AtRequest THEN q.req \in Requests ELSE q.req = None
  /\ q.op \in {"none", "claim", "assign", "release", "releaseMine"} => q.req = None

KnowsAll == \A p \in Procs : Knows(p, proc[p])

RowsOK ==
  \A r \in Requests : /\ row[r].status # "NONE" => row[r].counter \in Counters /\ row[r].from \in Users
                      /\ row[r].status = "PENDING" => row[r].by = None

LEMMA IdleKnows == \A p \in Procs : Knows(p, IdleProc)
BY ControlAssumption DEF Knows, IdleProc, ProcRecord, AtRequest

\* A process moves on, the others stay.
LEMMA ProcMoves ==
  ASSUME proc \in [Procs -> ProcRecord], KnowsAll,
         NEW p \in Procs, NEW x, Knows(p, x), proc' = [proc EXCEPT ![p] = x]
  PROVE  KnowsAll' /\ proc' \in [Procs -> ProcRecord]
BY DEF KnowsAll, Knows

Places == {"claimFree", "claimWrite", "fileLook", "fileCreate", "free", "transferRead",
           "transferWrite", "approveMark", "reject", "resolve", "look", "expire"}

LEMMA AtFields ==
  ASSUME NEW q \in ProcRecord, NEW pc \in Places
  PROVE  /\ At(q, pc) \in ProcRecord /\ At(q, pc).pc = pc
         /\ At(q, pc).op = q.op /\ At(q, pc).user = q.user /\ At(q, pc).to = q.to
         /\ At(q, pc).counter = q.counter /\ At(q, pc).expect = q.expect
         /\ At(q, pc).seen = q.seen /\ At(q, pc).req = q.req /\ At(q, pc).todo = q.todo
<1> DEFINE x == [q EXCEPT !.pc = pc]
<1>1. At(q, pc) = x
  BY DEF At, Places
<1>2. x \in ProcRecord /\ x.pc = pc
  BY DEF Places, ProcRecord
<1>3. /\ x.op = q.op /\ x.user = q.user /\ x.to = q.to /\ x.counter = q.counter
      /\ x.expect = q.expect /\ x.seen = q.seen /\ x.req = q.req /\ x.todo = q.todo
  BY DEF ProcRecord
<1> HIDE DEF x
<1> QED BY <1>1, <1>2, <1>3

\* Another place, the same work.
LEMMA AtKnows ==
  ASSUME NEW p \in Procs, NEW q, Knows(p, q), q.pc # "idle",
         NEW pc \in {"claimWrite", "fileLook", "fileCreate", "transferRead", "approveMark", "expire", "idle"},
         pc = "claimWrite" => q.pc = "claimFree",
         pc \in {"fileLook", "fileCreate"} => q.pc \in {"claimWrite", "fileLook"} /\ q.op = "request",
         pc = "transferRead" => q.pc = "claimWrite" /\ q.op = "claim",
         pc = "approveMark" => q.op = "approve",
         pc = "expire" => q.op = "sweep" /\ q.pc \in AtRequest
  PROVE  Knows(p, At(q, pc))
<1>1. CASE pc = "idle"
  BY <1>1, IdleKnows DEF At
<1>2. CASE pc # "idle"
  <2>1. q \in ProcRecord /\ pc \in Places
    BY <1>2 DEF Knows, Places
  <2> QED BY <1>2, <2>1, AtFields DEF Knows, AtRequest
<1> QED BY <1>1, <1>2

-----------------------------------------------------------------------------
(* Types: the rows and counters. *)

CountersOK ==
  /\ holder \in [Counters -> Users \cup {None}]
  /\ beat \in [Counters -> 0 .. TTL + 1]
  /\ \A c \in Counters : holder[c] = None => beat[c] = 0

CountsOK ==
  /\ member \subseteq Users /\ open \subseteq Users
  /\ begun \in 0 .. MaxRequests /\ crashes \in 0 .. MaxCrashes
  /\ granted \in [Requests -> Nat] /\ swept \in [Requests -> Nat]

TableOK == row \in [Requests -> RequestRow] /\ RowsOK

Typed == CountersOK /\ CountsOK /\ TableOK /\ KnowsAll /\ proc \in [Procs -> ProcRecord]

LEMMA TypedTypeOK == Typed /\ outdated \subseteq Procs \X Counters => TypeOK
BY DEF Typed, TypeOK, CountersOK, CountsOK, TableOK

LEMMA GiveTyped ==
  ASSUME CountersOK, NEW c \in Counters, NEW u \in Users, Give(c, u) PROVE CountersOK'
BY ControlAssumption DEF CountersOK, Give

LEMMA FreeTyped ==
  ASSUME CountersOK, NEW c \in Counters, Free(c) PROVE CountersOK'
BY ControlAssumption DEF CountersOK, Free

\* A row that exists and takes another status.
LEMMA MarkTyped ==
  ASSUME TableOK, NEW r \in Requests, row[r].status # "NONE", NEW x,
         row' = [row EXCEPT ![r] = x], x \in RequestRow,
         x.counter = row[r].counter, x.from = row[r].from, x.status # "PENDING"
  PROVE  TableOK'
BY DEF TableOK, RowsOK

\* A request begins.
LEMMA BeginTyped ==
  ASSUME Typed, NEW h \in Handlers, NEW x, Begin(h, x), Knows(h, x) PROVE Typed'
<1>1. KnowsAll' /\ proc' \in [Procs -> ProcRecord]
  BY ProcMoves DEF Begin, Typed, Procs
<1>2. CountersOK' /\ TableOK' /\ CountsOK'
  BY ControlAssumption DEF Typed, Begin, CountersOK, TableOK, RowsOK, CountsOK, counterVars, peopleVars, history
<1> QED BY <1>1, <1>2 DEF Typed

LEMMA ClaimDecides ==
  ASSUME NEW op, NEW u, NEW c
  PROVE  /\ ClaimDecision(op, u, c) \in {"claimWrite", "claimFree", "fileLook", "transferRead", "idle"}
         /\ ClaimDecision(op, u, c) = "fileLook" => op = "request"
         /\ ClaimDecision(op, u, c) = "transferRead" => op # "request"
BY DEF ClaimDecision, AfterRefusal

LEMMA ClaimReadTyped ==
  ASSUME Typed, NEW h \in Handlers, NEW u \in Users, NEW c \in Counters, ClaimRead(h, u, c)
  PROVE  Typed'
<1> DEFINE q == [IdleProc EXCEPT !.op = "claim", !.user = u, !.to = u, !.counter = c]
           d == ClaimDecision("claim", u, c)
<1>1. IdleProc \in ProcRecord
  BY DEF IdleProc, ProcRecord
<1>2. q \in ProcRecord
  BY <1>1 DEF ProcRecord
<1>3. q.op = "claim" /\ q.user = u /\ q.to = u /\ q.counter = c /\ q.req = None
  BY <1>1 DEF ProcRecord, IdleProc
<1>4. d \in {"claimWrite", "claimFree", "transferRead", "idle"}
  BY ClaimDecides
<1>5. Begin(h, At(q, d))
  BY DEF ClaimRead
<1> HIDE DEF q, d
<1>6. Knows(h, At(q, d))
  <2>1. CASE d = "idle"
    BY <2>1, IdleKnows DEF At, Procs
  <2>2. CASE d # "idle"
    BY <1>2, <1>3, <1>4, <2>2, AtFields, ControlAssumption DEF Knows, AtRequest, Places
  <2> QED BY <2>1, <2>2
<1> QED BY <1>5, <1>6, BeginTyped

LEMMA RequestReadTyped ==
  ASSUME Typed, NEW h \in Handlers, NEW u \in Users, NEW c \in Counters, NEW r \in Requests,
         RequestRead(h, u, c, r)
  PROVE  Typed'
<1> DEFINE q == [IdleProc EXCEPT !.op = "request", !.user = u, !.counter = c, !.req = r]
           d == ClaimDecision("request", u, c)
<1>1. IdleProc \in ProcRecord
  BY DEF IdleProc, ProcRecord
<1>2. q \in ProcRecord
  BY <1>1 DEF ProcRecord
<1>3. q.op = "request" /\ q.user = u /\ q.counter = c /\ q.req = r
  BY <1>1 DEF ProcRecord, IdleProc
<1>4. d \in {"claimWrite", "claimFree", "fileLook", "idle"}
  BY ClaimDecides
<1>5. Begin(h, At(q, d))
  BY DEF RequestRead
<1> HIDE DEF q, d
<1>6. Knows(h, At(q, d))
  <2>1. CASE d = "idle"
    BY <2>1, IdleKnows DEF At, Procs
  <2>2. CASE d # "idle"
    BY <1>2, <1>3, <1>4, <2>2, AtFields, ControlAssumption DEF Knows, AtRequest, Places
  <2> QED BY <2>1, <2>2
<1> QED BY <1>5, <1>6, BeginTyped

LEMMA IdleTyped == IdleProc \in ProcRecord
BY DEF IdleProc, ProcRecord

LEMMA ReleaseTyped ==
  ASSUME Typed, NEW h \in Handlers, NEW u \in Users,
         ReleaseMineRead(h, u) \/ \E c \in Counters : ReleaseRead(h, u, c)
  PROVE  Typed'
<1>1. ASSUME NEW op \in {"release", "releaseMine"}, NEW t \in SUBSET Counters,
             Begin(h, [IdleProc EXCEPT !.pc = "free", !.op = op, !.user = u, !.todo = t])
      PROVE  Typed'
  <2> DEFINE q == [IdleProc EXCEPT !.pc = "free", !.op = op, !.user = u, !.todo = t]
  <2>1. q \in ProcRecord
    BY IdleTyped DEF ProcRecord
  <2>2. q.pc = "free" /\ q.op = op /\ q.todo = t /\ q.req = None
    BY DEF ProcRecord, IdleProc
  <2> HIDE DEF q
  <2>3. Knows(h, q)
    BY <2>1, <2>2, ControlAssumption DEF Knows, AtRequest
  <2> QED BY <1>1, <2>3, BeginTyped DEF q
<1>2. CASE ReleaseMineRead(h, u)
  BY <1>1, <1>2 DEF ReleaseMineRead
<1>3. ASSUME NEW c \in Counters, ReleaseRead(h, u, c) PROVE Typed'
  BY <1>1, <1>3 DEF ReleaseRead
<1> QED BY <1>2, <1>3

LEMMA AssignReadTyped ==
  ASSUME Typed, NEW h \in Handlers, NEW u \in Users, NEW c \in Counters, NEW v \in Users,
         AssignRead(h, u, c, v)
  PROVE  Typed'
<1> DEFINE q == [IdleProc EXCEPT !.pc = "transferRead", !.op = "assign", !.user = u, !.to = v,
                                 !.counter = c]
<1>1. q \in ProcRecord
  BY IdleTyped DEF ProcRecord
<1>2. q.pc = "transferRead" /\ q.op = "assign" /\ q.to = v /\ q.counter = c /\ q.req = None
  BY DEF ProcRecord, IdleProc
<1>3. Begin(h, q)
  BY DEF AssignRead
<1> HIDE DEF q
<1>4. Knows(h, q)
  BY <1>1, <1>2, ControlAssumption DEF Knows, AtRequest
<1> QED BY <1>3, <1>4, BeginTyped

\* A request that can be answered names a counter and an account.
LEMMA Answerable ==
  ASSUME Typed, NEW u, NEW r \in Requests, MayAnswer(u, r)
  PROVE  row[r].counter \in Counters /\ row[r].from \in Users /\ row[r].status = "PENDING"
BY DEF Typed, TableOK, RowsOK, MayAnswer

LEMMA ApproveReadTyped ==
  ASSUME Typed, NEW h \in Handlers, NEW u \in Users, NEW r \in Requests, ApproveRead(h, u, r)
  PROVE  Typed'
<1> DEFINE e == IF holder[row[r].counter] = u THEN u ELSE None
           q == [IdleProc EXCEPT !.pc = "transferRead", !.op = "approve", !.user = u, !.req = r,
                   !.to = row[r].from, !.counter = row[r].counter, !.expect = e]
<1>0. row[r].counter \in Counters /\ row[r].from \in Users
  BY Answerable DEF ApproveRead
<1>00. e \in Users \cup {None}
  OBVIOUS
<1>1. q \in ProcRecord
  <2> HIDE DEF e
  <2> QED BY <1>0, <1>00, IdleTyped DEF ProcRecord
<1>2. /\ q.pc = "transferRead" /\ q.op = "approve" /\ q.to = row[r].from
      /\ q.counter = row[r].counter /\ q.req = r
  <2> HIDE DEF e
  <2> QED BY DEF ProcRecord, IdleProc
<1>3. Begin(h, q)
  BY DEF ApproveRead
<1> HIDE DEF q
<1>4. Knows(h, q)
  BY <1>0, <1>1, <1>2, ControlAssumption DEF Knows, AtRequest
<1> QED BY <1>3, <1>4, BeginTyped

LEMMA RejectReadTyped ==
  ASSUME Typed, NEW h \in Handlers, NEW u \in Users, NEW r \in Requests, RejectRead(h, u, r)
  PROVE  Typed'
<1> DEFINE q == [IdleProc EXCEPT !.pc = "reject", !.op = "reject", !.user = u, !.req = r]
<1>1. q \in ProcRecord
  BY IdleTyped DEF ProcRecord
<1>2. q.pc = "reject" /\ q.op = "reject" /\ q.req = r
  BY DEF ProcRecord, IdleProc
<1>3. Begin(h, q)
  BY DEF RejectRead
<1> HIDE DEF q
<1>4. Knows(h, q)
  BY <1>1, <1>2, ControlAssumption DEF Knows, AtRequest
<1> QED BY <1>3, <1>4, BeginTyped

\* A process at work goes to another place; what it does to the counters and rows is typed.
LEMMA GotoTyped ==
  ASSUME Typed, NEW p \in Procs, NEW x, Knows(p, x), proc' = [proc EXCEPT ![p] = x],
         CountersOK', TableOK', CountsOK'
  PROVE  Typed'
BY ProcMoves DEF Typed

LEMMA SameRest ==
  ASSUME Typed
  PROVE  /\ UNCHANGED counterVars => CountersOK'
         /\ UNCHANGED row => TableOK'
         /\ UNCHANGED <<peopleVars, begun, crashes, history>> => CountsOK'
<1>1. UNCHANGED counterVars => CountersOK'
  BY DEF Typed, CountersOK, counterVars
<1>2. UNCHANGED row => TableOK'
  BY DEF Typed, TableOK, RowsOK
<1>3. UNCHANGED <<peopleVars, begun, crashes, history>> => CountsOK'
  BY DEF Typed, CountsOK, peopleVars, history
<1> QED BY <1>1, <1>2, <1>3

LEMMA ClaimTyped ==
  ASSUME Typed, NEW h \in Handlers, ClaimFree(h) \/ ClaimWrite(h) \/ ClaimLost(h)
  PROVE  Typed'
<1>0. Knows(h, proc[h]) /\ h \in Procs /\ h \notin Sweepers
  BY ControlAssumption DEF Typed, KnowsAll, Procs
<1>1. CASE ClaimFree(h)
  <2>1. Knows(h, At(proc[h], "claimWrite"))
    BY <1>0, <1>1, AtKnows DEF ClaimFree
  <2>2. CountersOK'
    BY <1>0, <1>1, FreeTyped DEF ClaimFree, Typed, Knows
  <2> QED BY <1>0, <1>1, <2>1, <2>2, GotoTyped, SameRest DEF ClaimFree, Goto
<1>2. CASE ClaimWrite(h)
  <2>1. Knows(h, At(proc[h], "idle"))
    BY <1>0, <1>2, AtKnows DEF ClaimWrite
  <2>2. CountersOK'
    BY <1>0, <1>2, GiveTyped DEF ClaimWrite, Typed, Knows
  <2> QED BY <1>0, <1>2, <2>1, <2>2, GotoTyped, SameRest DEF ClaimWrite, Goto
<1>3. CASE ClaimLost(h)
  <2> DEFINE pc == AfterRefusal(proc[h].op, proc[h].user)
  <2>1. /\ pc \in {"fileLook", "transferRead", "idle"}
        /\ pc = "fileLook" => proc[h].op = "request"
        /\ pc = "transferRead" => proc[h].op = "claim"
    BY <1>0, <1>3 DEF AfterRefusal, ClaimLost, Knows
  <2>2. proc' = [proc EXCEPT ![h] = At(proc[h], pc)]
    BY <1>3 DEF ClaimLost, Goto
  <2> HIDE DEF pc
  <2>3. Knows(h, At(proc[h], pc))
    BY <1>0, <1>3, <2>1, AtKnows DEF ClaimLost
  <2> QED BY <1>0, <1>3, <2>2, <2>3, GotoTyped, SameRest DEF ClaimLost
<1> QED BY <1>1, <1>2, <1>3

LEMMA FileTyped ==
  ASSUME Typed, NEW h \in Handlers, FileLook(h) \/ FileCreate(h) PROVE Typed'
<1>0. Knows(h, proc[h]) /\ h \in Procs /\ h \notin Sweepers
  BY ControlAssumption DEF Typed, KnowsAll, Procs
<1>1. CASE FileLook(h)
  <2>1. PICK pc \in {"idle", "fileCreate"} : proc' = [proc EXCEPT ![h] = At(proc[h], pc)]
    BY <1>1 DEF FileLook, Goto
  <2>2. Knows(h, At(proc[h], pc))
    <3>1. proc[h].pc = "fileLook" /\ proc[h].op = "request"
      BY <1>0, <1>1 DEF FileLook, Knows
    <3> QED BY <1>0, <3>1, AtKnows
  <2> QED BY <1>0, <1>1, <2>1, <2>2, GotoTyped, SameRest DEF FileLook
<1>2. CASE FileCreate(h)
  <2>1. Knows(h, At(proc[h], "idle"))
    BY <1>0, <1>2, AtKnows DEF FileCreate
  <2>2. TableOK'
    <3>1. proc[h].counter \in Counters /\ proc[h].user \in Users /\ proc[h].req \in Requests
      BY <1>0, <1>2 DEF FileCreate, Knows
    <3> DEFINE x == [NoRow EXCEPT !.counter = proc[h].counter, !.from = proc[h].user,
                                  !.status = "PENDING"]
    <3>2. NoRow \in RequestRow
      BY ControlAssumption DEF NoRow, RequestRow, RowStatus
    <3>3. x \in RequestRow
      BY <3>1, <3>2 DEF RequestRow, RowStatus
    <3>4. x.counter = proc[h].counter /\ x.from = proc[h].user /\ x.by = None
      BY DEF NoRow
    <3>5. row' = [row EXCEPT ![proc[h].req] = x]
      BY <1>2 DEF FileCreate
    <3> HIDE DEF x
    <3> QED BY <3>1, <3>3, <3>4, <3>5 DEF Typed, TableOK, RowsOK
  <2> QED BY <1>0, <1>2, <2>1, <2>2, GotoTyped, SameRest DEF FileCreate, Goto
<1> QED BY <1>1, <1>2

\* Whoever answers or resolves a request found it in the table.
Filed ==
  \A p \in Procs : proc[p].op \in {"approve", "reject", "sweep"} /\ proc[p].req # None =>
                     row[proc[p].req].status # "NONE"

\* A process gives up a counter of its list, or a request.
LEMMA TodoKnows ==
  ASSUME NEW p \in Procs, NEW q, Knows(p, q), q.pc # "idle", NEW c
  PROVE  Knows(p, [q EXCEPT !.todo = @ \ {c}])
<1> DEFINE x == [q EXCEPT !.todo = q.todo \ {c}]
<1>1. x \in ProcRecord /\ x.todo = q.todo \ {c}
  BY DEF Knows, ProcRecord
<1>2. /\ x.op = q.op /\ x.user = q.user /\ x.to = q.to /\ x.counter = q.counter
      /\ x.expect = q.expect /\ x.seen = q.seen /\ x.req = q.req /\ x.pc = q.pc
  BY DEF Knows, ProcRecord
<1> HIDE DEF x
<1>3. Knows(p, x)
  BY <1>1, <1>2 DEF Knows, AtRequest
<1> QED BY <1>3 DEF x

LEMMA FreeStepTyped ==
  ASSUME Typed, NEW p \in Procs, NEW c \in Counters, FreeWrite(p, c) \/ SweepFree(p, c)
  PROVE  Typed'
<1>0. Knows(p, proc[p]) /\ proc[p].pc = "free" /\ proc \in [Procs -> ProcRecord]
  BY DEF Typed, KnowsAll, FreeWrite, SweepFree
<1> DEFINE y == [proc[p] EXCEPT !.todo = @ \ {c}]
<1>1. PICK x \in {IdleProc, y} : proc' = [proc EXCEPT ![p] = x]
  BY <1>0 DEF FreeWrite, SweepFree
<1>2. Knows(p, y)
  BY <1>0, TodoKnows
<1> HIDE DEF y
<1>3. Knows(p, x)
  BY <1>1, <1>2, IdleKnows
<1>4. CountersOK'
  BY FreeTyped DEF FreeWrite, SweepFree, Typed
<1> QED BY <1>1, <1>3, <1>4, GotoTyped, SameRest DEF FreeWrite, SweepFree

LEMMA TransferReadTyped ==
  ASSUME Typed, NEW p \in Procs, TransferRead(p) PROVE Typed'
<1> DEFINE now == holder[proc[p].counter]
           y == [proc[p] EXCEPT !.pc = "transferWrite", !.seen = now]
<1>0. Knows(p, proc[p]) /\ proc[p].pc = "transferRead" /\ proc[p] \in ProcRecord
  BY DEF Typed, KnowsAll, TransferRead
<1>1. now \in Users \cup {None}
  BY <1>0 DEF Knows, Typed, CountersOK
<1>2. CASE proc[p].expect \notin {None, now}
  <2>1. proc' = [proc EXCEPT ![p] = IdleProc]
    BY <1>2 DEF TransferRead
  <2> QED BY <2>1, IdleKnows, GotoTyped, SameRest DEF TransferRead
<1>3. CASE proc[p].expect \in {None, now}
  <2>1. proc' = [proc EXCEPT ![p] = y]
    BY <1>3 DEF TransferRead
  <2> HIDE DEF now
  <2>2. y \in ProcRecord
    BY <1>0, <1>1 DEF ProcRecord
  <2>3. y.pc = "transferWrite" /\ y.seen = now
    BY <1>0 DEF ProcRecord
  <2>4. /\ y.op = proc[p].op /\ y.to = proc[p].to /\ y.counter = proc[p].counter
        /\ y.expect = proc[p].expect /\ y.req = proc[p].req /\ y.todo = proc[p].todo
    BY <1>0 DEF ProcRecord
  <2> HIDE DEF y
  <2>5. Knows(p, y)
    BY <1>0, <1>3, <2>2, <2>3, <2>4 DEF Knows, AtRequest
  <2> QED BY <2>1, <2>5, GotoTyped, SameRest DEF TransferRead
<1> QED BY <1>2, <1>3

\* What a transfer goes on with.
LEMMA AfterTransfer ==
  ASSUME Typed, NEW p \in Procs, TransferWrite(p)
  PROVE  \E x : /\ proc' = [proc EXCEPT ![p] = x] /\ Knows(p, x)
                /\ IF proc[p].op = "approve"
                     THEN x.pc = "approveMark" /\ x.op = "approve" /\ x.req = proc[p].req
                     ELSE x.req = None
                /\ x.pc \in {"approveMark", "resolve", "idle"}
<1>0. Knows(p, proc[p]) /\ proc[p].pc = "transferWrite" /\ proc[p] \in ProcRecord
  BY DEF Typed, KnowsAll, TransferWrite
<1>1. CASE proc[p].op = "approve"
  <2> DEFINE x == At(proc[p], "approveMark")
  <2>1. proc' = [proc EXCEPT ![p] = x]
    BY <1>1 DEF TransferWrite
  <2>2. Knows(p, x)
    BY <1>0, <1>1, AtKnows
  <2>3. x.pc = "approveMark" /\ x.op = "approve" /\ x.req = proc[p].req
    BY <1>0, <1>1, AtFields DEF Places
  <2> HIDE DEF x
  <2> QED BY <1>1, <2>1, <2>2, <2>3
<1>2. CASE proc[p].op = "sweep"
  <2> DEFINE z == At(proc[p], "resolve")
             x == [z EXCEPT !.req = None]
  <2>1. proc' = [proc EXCEPT ![p] = x]
    BY <1>2 DEF TransferWrite
  <2>2. /\ z \in ProcRecord /\ z.pc = "resolve" /\ z.op = "sweep" /\ z.todo = proc[p].todo
        /\ z.expect = None
    BY <1>0, <1>2, AtFields DEF Places, Knows
  <2> HIDE DEF z
  <2>3. x \in ProcRecord
    BY <2>2 DEF ProcRecord
  <2>4. x.pc = "resolve" /\ x.op = "sweep" /\ x.todo = proc[p].todo /\ x.req = None /\ x.expect = None
    BY <2>2 DEF ProcRecord
  <2> HIDE DEF x
  <2>5. Knows(p, x)
    BY <1>0, <1>2, <2>3, <2>4 DEF Knows, AtRequest
  <2> QED BY <1>2, <2>1, <2>4, <2>5
<1>3. CASE proc[p].op \notin {"approve", "sweep"}
  <2>1. proc' = [proc EXCEPT ![p] = IdleProc]
    BY <1>3 DEF TransferWrite
  <2>2. IdleProc.req = None /\ IdleProc.pc = "idle"
    BY DEF IdleProc
  <2> QED BY <1>3, <2>1, <2>2, IdleKnows
<1> QED BY <1>1, <1>2, <1>3

LEMMA TransferWriteTyped ==
  ASSUME Typed, NEW p \in Procs, TransferWrite(p) PROVE Typed'
<1>0. Knows(p, proc[p]) /\ proc[p].pc = "transferWrite"
  BY DEF Typed, KnowsAll, TransferWrite
<1>1. PICK x : proc' = [proc EXCEPT ![p] = x] /\ Knows(p, x)
  BY AfterTransfer
<1>2. CountersOK'
  BY <1>0, GiveTyped DEF TransferWrite, Typed, Knows
<1>3. CountsOK'
  <2>1. proc[p].req \in Requests \cup {None} /\ (proc[p].op = "sweep" => proc[p].req \in Requests)
    BY <1>0 DEF Knows, ProcRecord, AtRequest
  <2>2. granted' \in [Requests -> Nat]
    BY <2>1 DEF TransferWrite, Typed, CountsOK
  <2>3. swept' \in [Requests -> Nat]
    BY <2>1 DEF TransferWrite, Typed, CountsOK
  <2> QED BY <2>2, <2>3 DEF TransferWrite, Typed, CountsOK, peopleVars
<1> QED BY <1>1, <1>2, <1>3, GotoTyped, SameRest DEF TransferWrite

LEMMA TransferLostTyped ==
  ASSUME Typed, NEW p \in Procs, TransferLost(p) PROVE Typed'
<1>0. Knows(p, proc[p]) /\ proc[p].pc = "transferWrite"
  BY DEF Typed, KnowsAll, TransferLost
<1>1. PICK pc \in {"expire", "idle"} : /\ proc' = [proc EXCEPT ![p] = At(proc[p], pc)]
                                       /\ pc = "expire" => proc[p].op = "sweep"
  BY DEF TransferLost, Goto
<1>2. Knows(p, At(proc[p], pc))
  BY <1>0, <1>1, AtKnows DEF AtRequest
<1> QED BY <1>1, <1>2, GotoTyped, SameRest DEF TransferLost

LEMMA AnswerTyped ==
  ASSUME Typed, Filed, NEW h \in Handlers, ApproveMark(h) \/ RejectWrite(h) PROVE Typed'
<1>0. Knows(h, proc[h]) /\ h \in Procs /\ proc[h].pc \in {"approveMark", "reject"}
  BY DEF Typed, KnowsAll, Procs, ApproveMark, RejectWrite
<1> DEFINE r == proc[h].req
<1>1. /\ r \in Requests /\ row[r].status # "NONE" /\ row[r] \in RequestRow
      /\ proc[h].user \in Users \cup {None}
  BY <1>0, ControlAssumption DEF Knows, Filed, Typed, TableOK, ProcRecord
<1>2. Knows(h, At(proc[h], "idle"))
  BY <1>0, AtKnows
<1>3. ASSUME NEW st \in {"APPROVED", "REJECTED"},
             row' = [row EXCEPT ![r].status = st, ![r].by = proc[h].user]
      PROVE  TableOK'
  <2> DEFINE x == [row[r] EXCEPT !.status = st, !.by = proc[h].user]
  <2>1. row' = [row EXCEPT ![r] = x]
    BY <1>1, <1>3 DEF Typed, TableOK
  <2>2. x \in RequestRow
    BY <1>1 DEF RequestRow, RowStatus
  <2>3. x.counter = row[r].counter /\ x.from = row[r].from /\ x.status # "PENDING"
    BY <1>1 DEF RequestRow
  <2> HIDE DEF x, r
  <2> QED BY <1>1, <2>1, <2>2, <2>3, MarkTyped DEF Typed
<1>4. TableOK'
  BY <1>3, SameRest DEF ApproveMark, RejectWrite
<1> QED BY <1>0, <1>2, <1>4, GotoTyped, SameRest DEF ApproveMark, RejectWrite, Goto

\* A pass reads its lists.
LEMMA SweepListTyped ==
  ASSUME Typed, NEW s \in Sweepers, SweepStale(s) \/ SweepRequests(s) \/ SweepDone(s) PROVE Typed'
<1>0. Knows(s, proc[s]) /\ s \in Procs /\ proc \in [Procs -> ProcRecord]
  BY DEF Typed, KnowsAll, Procs
<1>1. CASE SweepStale(s)
  <2> DEFINE t == {c \in Counters : holder[c] # None /\ Stale(c)}
             x == [IdleProc EXCEPT !.pc = "free", !.op = "sweep", !.todo = t]
  <2>1. proc' = [proc EXCEPT ![s] = x]
    BY <1>1 DEF SweepStale
  <2>2. t \subseteq Counters
    OBVIOUS
  <2> HIDE DEF t
  <2>3. x \in ProcRecord
    BY <2>2, IdleTyped DEF ProcRecord
  <2>4. x.pc = "free" /\ x.op = "sweep" /\ x.todo = t /\ x.req = None /\ x.expect = None
    BY DEF IdleProc
  <2> HIDE DEF x
  <2>5. Knows(s, x)
    BY <2>2, <2>3, <2>4 DEF Knows, AtRequest
  <2> QED BY <1>0, <1>1, <2>1, <2>5, GotoTyped, SameRest DEF SweepStale
<1>2. CASE SweepRequests(s)
  <2> DEFINE t == {r \in Requests : row[r].status = "PENDING" /\ Expired(r)}
             x == [proc[s] EXCEPT !.pc = "resolve", !.todo = t]
  <2>1. proc' = [proc EXCEPT ![s] = x]
    BY <1>0, <1>2 DEF SweepRequests
  <2>2. t \subseteq Requests
    OBVIOUS
  <2> HIDE DEF t
  <2>3. proc[s].pc = "free" /\ proc[s].op = "sweep" /\ proc[s] \in ProcRecord
    BY <1>0, <1>2 DEF SweepRequests
  <2>4. x \in ProcRecord
    BY <2>2, <2>3 DEF ProcRecord
  <2>5. /\ x.pc = "resolve" /\ x.op = "sweep" /\ x.todo = t /\ x.req = proc[s].req
        /\ x.expect = proc[s].expect
    BY <2>3 DEF ProcRecord
  <2> HIDE DEF x
  <2>6. Knows(s, x)
    BY <1>0, <2>2, <2>3, <2>4, <2>5 DEF Knows, AtRequest
  <2> QED BY <1>0, <1>2, <2>1, <2>6, GotoTyped, SameRest DEF SweepRequests
<1>3. CASE SweepDone(s)
  <2>1. Knows(s, At(proc[s], "idle"))
    BY <1>0, <1>3, AtKnows DEF SweepDone
  <2> QED BY <1>0, <1>3, <2>1, GotoTyped, SameRest DEF SweepDone, Goto
<1> QED BY <1>1, <1>2, <1>3

\* A pass takes a request, or leaves it to who has it.
LEMMA ClaimedBySweep ==
  ASSUME Typed, NEW s \in Sweepers, NEW r \in Requests, SweepClaim(s, r), row[r].status = "PENDING"
  PROVE  \E x : /\ proc' = [proc EXCEPT ![s] = x] /\ Knows(s, x)
                /\ x.pc = "look" /\ x.op = "sweep" /\ x.req = r
<1> DEFINE x == [proc[s] EXCEPT !.todo = @ \ {r}, !.pc = "look", !.req = r]
<1>0. Knows(s, proc[s]) /\ proc \in [Procs -> ProcRecord] /\ proc[s].pc = "resolve" /\ s \in Procs
  BY DEF Typed, KnowsAll, Procs, SweepClaim
<1>1. proc' = [proc EXCEPT ![s] = x]
  BY <1>0 DEF SweepClaim
<1>2. proc[s] \in ProcRecord /\ proc[s].op = "sweep"
  BY <1>0 DEF Knows
<1>3. x \in ProcRecord
  BY <1>2 DEF ProcRecord
<1>4. /\ x.pc = "look" /\ x.op = "sweep" /\ x.todo = proc[s].todo \ {r} /\ x.req = r
      /\ x.expect = proc[s].expect
  BY <1>2 DEF ProcRecord
<1> HIDE DEF x
<1>5. Knows(s, x)
  BY <1>0, <1>2, <1>3, <1>4, ControlAssumption DEF Knows, AtRequest
<1> QED BY <1>1, <1>4, <1>5

LEMMA SweepClaimTyped ==
  ASSUME Typed, NEW s \in Sweepers, NEW r \in Requests, SweepClaim(s, r) PROVE Typed'
<1>0. /\ Knows(s, proc[s]) /\ proc \in [Procs -> ProcRecord] /\ proc[s].pc = "resolve" /\ s \in Procs
      /\ row \in [Requests -> RequestRow]
  BY DEF Typed, KnowsAll, Procs, SweepClaim, TableOK
<1>1. CASE row[r].status = "PENDING"
  <2>1. PICK x : proc' = [proc EXCEPT ![s] = x] /\ Knows(s, x)
    BY <1>1, ClaimedBySweep
  <2>2. TableOK'
    <3> DEFINE y == [row[r] EXCEPT !.status = "APPROVED"]
    <3>1. row' = [row EXCEPT ![r] = y]
      BY <1>0, <1>1 DEF SweepClaim
    <3>2. y \in RequestRow
      BY <1>0 DEF RequestRow, RowStatus
    <3>3. y.counter = row[r].counter /\ y.from = row[r].from /\ y.status # "PENDING"
      BY <1>0 DEF RequestRow
    <3> HIDE DEF y
    <3> QED BY <1>1, <3>1, <3>2, <3>3, MarkTyped DEF Typed
  <2> QED BY <1>0, <2>1, <2>2, GotoTyped, SameRest DEF SweepClaim
<1>2. CASE row[r].status # "PENDING"
  <2> DEFINE y == [proc[s] EXCEPT !.todo = @ \ {r}]
  <2>1. Knows(s, y) /\ proc' = [proc EXCEPT ![s] = y]
    BY <1>0, <1>2, TodoKnows DEF SweepClaim
  <2> QED BY <1>0, <1>2, <2>1, GotoTyped, SameRest DEF SweepClaim
<1> QED BY <1>1, <1>2

LEMMA LookKeepsRequest ==
  ASSUME Typed, Filed, NEW s \in Sweepers, SweepLook(s)
  PROVE  \E x : /\ proc' = [proc EXCEPT ![s] = x] /\ Knows(s, x)
                /\ x.op = "sweep" /\ x.req = proc[s].req /\ x.pc \in AtRequest
<1> DEFINE r == proc[s].req
           c == row[r].counter
           pc == IF ~(holder[c] # None /\ ~Stale(c)) /\ row[r].from \in member
                   THEN "transferRead" ELSE "expire"
           x == [proc[s] EXCEPT !.pc = pc, !.counter = c, !.to = row[r].from]
<1>0. Knows(s, proc[s]) /\ proc[s].pc = "look" /\ proc[s] \in ProcRecord /\ s \in Procs
  BY DEF Typed, KnowsAll, Procs, SweepLook
<1>1. proc[s].op = "sweep" /\ r \in Requests /\ proc[s].todo \subseteq Requests
  BY <1>0 DEF Knows, AtRequest
<1>2. c \in Counters /\ row[r].from \in Users
  BY <1>0, <1>1, ControlAssumption DEF Filed, Typed, TableOK, RowsOK
<1>3. proc' = [proc EXCEPT ![s] = x]
  BY DEF SweepLook
<1>4. pc \in {"transferRead", "expire"}
  OBVIOUS
<1> HIDE DEF pc
<1>5. x \in ProcRecord
  BY <1>0, <1>2, <1>4 DEF ProcRecord
<1>6. x.pc = pc /\ x.counter = c /\ x.to = row[r].from
  BY <1>0 DEF ProcRecord
<1>7. /\ x.op = proc[s].op /\ x.req = r /\ x.todo = proc[s].todo
      /\ x.expect = proc[s].expect
  BY <1>0 DEF ProcRecord
<1> HIDE DEF x, c
<1>8. Knows(s, x)
  BY <1>0, <1>1, <1>2, <1>4, <1>5, <1>6, <1>7 DEF Knows, AtRequest
<1> QED BY <1>1, <1>3, <1>4, <1>6, <1>7, <1>8 DEF AtRequest

\* A request is given up, or resolved, and the pass goes on.
LEMMA ExpireKnows ==
  ASSUME Typed, NEW s \in Sweepers, SweepExpire(s)
  PROVE  \E x : /\ proc' = [proc EXCEPT ![s] = x] /\ Knows(s, x) /\ x.req = None
<1> DEFINE x == [proc[s] EXCEPT !.pc = "resolve", !.req = None]
<1>0. Knows(s, proc[s]) /\ proc[s].pc = "expire" /\ proc[s] \in ProcRecord /\ s \in Procs
  BY DEF Typed, KnowsAll, Procs, SweepExpire
<1>1. proc' = [proc EXCEPT ![s] = x]
  BY <1>0 DEF SweepExpire, Typed
<1>2. x \in ProcRecord
  BY <1>0 DEF ProcRecord
<1>3. /\ x.pc = "resolve" /\ x.req = None /\ x.op = proc[s].op /\ x.todo = proc[s].todo
      /\ x.expect = proc[s].expect
  BY <1>0 DEF ProcRecord
<1> HIDE DEF x
<1>4. Knows(s, x)
  BY <1>0, <1>2, <1>3 DEF Knows, AtRequest
<1> QED BY <1>1, <1>3, <1>4

LEMMA SweepEndTyped ==
  ASSUME Typed, Filed, NEW s \in Sweepers, SweepLook(s) \/ SweepExpire(s) PROVE Typed'
<1>0. s \in Procs
  BY DEF Procs
<1>1. CASE SweepLook(s)
  BY <1>0, <1>1, LookKeepsRequest, GotoTyped, SameRest DEF SweepLook
<1>2. CASE SweepExpire(s)
  <2>1. PICK x : proc' = [proc EXCEPT ![s] = x] /\ Knows(s, x)
    BY <1>2, ExpireKnows
  <2>2. TableOK'
    <3> DEFINE r == proc[s].req
               y == [row[r] EXCEPT !.status = "EXPIRED"]
    <3>1. r \in Requests /\ row[r] \in RequestRow
      BY <1>0, <1>2 DEF SweepExpire, Typed, KnowsAll, Knows, AtRequest, TableOK
    <3>2. CASE row' = row
      BY <3>2, SameRest
    <3>3. CASE row' # row
      <4>1. row[r].status = "APPROVED" /\ row' = [row EXCEPT ![r] = y]
        BY <1>2, <3>1, <3>3 DEF SweepExpire, Typed, TableOK
      <4>2. y \in RequestRow
        BY <3>1 DEF RequestRow, RowStatus
      <4>3. y.counter = row[r].counter /\ y.from = row[r].from /\ y.status # "PENDING"
        BY <3>1 DEF RequestRow
      <4> HIDE DEF y
      <4> QED BY <3>1, <4>1, <4>2, <4>3, MarkTyped DEF Typed
    <3> QED BY <3>2, <3>3
  <2> QED BY <1>0, <1>2, <2>1, <2>2, GotoTyped, SameRest DEF SweepExpire
<1> QED BY <1>1, <1>2

LEMMA WorldTyped ==
  ASSUME Typed,
         \/ \E p \in Procs : Crash(p)
         \/ \E u \in Users : CloseOrOpen(u) \/ JoinOrLeave(u) \/ \E c \in Counters : Heartbeat(u, c)
         \/ Tick
  PROVE  Typed'
<1>1. ASSUME NEW p \in Procs, Crash(p) PROVE Typed'
  <2>1. proc' = [proc EXCEPT ![p] = IdleProc]
    BY <1>1 DEF Crash, Goto, At
  <2>2. CountsOK'
    BY <1>1, ControlAssumption DEF Crash, Typed, CountsOK, peopleVars, history
  <2> QED BY <1>1, <2>1, <2>2, IdleKnows, GotoTyped, SameRest DEF Crash
<1>2. ASSUME NEW u \in Users, CloseOrOpen(u) \/ JoinOrLeave(u) PROVE Typed'
  <2>1. CountsOK'
    BY <1>2 DEF CloseOrOpen, JoinOrLeave, Typed, CountsOK, history
  <2>2. CountersOK' /\ TableOK'
    BY <1>2, SameRest DEF CloseOrOpen, JoinOrLeave
  <2>3. proc' = proc
    BY <1>2 DEF CloseOrOpen, JoinOrLeave
  <2> QED BY <2>1, <2>2, <2>3 DEF Typed, KnowsAll
<1>3. ASSUME NEW u \in Users, NEW c \in Counters, Heartbeat(u, c) PROVE Typed'
  <2>1. CountersOK'
    BY <1>3, ControlAssumption DEF Heartbeat, Typed, CountersOK
  <2>2. CountsOK' /\ TableOK'
    BY <1>3, SameRest DEF Heartbeat
  <2>3. proc' = proc
    BY <1>3 DEF Heartbeat
  <2> QED BY <2>1, <2>2, <2>3 DEF Typed, KnowsAll
<1>4. CASE Tick
  <2>1. CountersOK'
    BY <1>4, ControlAssumption DEF Tick, Typed, CountersOK, Older
  <2>2. TableOK'
    <3> DEFINE older(r) == [row[r] EXCEPT !.age = Older(row[r].age, Window)]
    <3>1. \A r \in Requests : /\ older(r) \in RequestRow /\ older(r).counter = row[r].counter
                              /\ older(r).from = row[r].from /\ older(r).status = row[r].status
                              /\ older(r).by = row[r].by
      <4> SUFFICES ASSUME NEW r \in Requests
                   PROVE  /\ older(r) \in RequestRow /\ older(r).counter = row[r].counter
                          /\ older(r).from = row[r].from /\ older(r).status = row[r].status
                          /\ older(r).by = row[r].by
        OBVIOUS
      <4>1. row[r] \in RequestRow
        BY DEF Typed, TableOK
      <4>2. Older(row[r].age, Window) \in 0 .. Window + 1
        BY <4>1, ControlAssumption DEF RequestRow, Older
      <4>3. PICK n : n = Older(row[r].age, Window)
        OBVIOUS
      <4>4. [row[r] EXCEPT !.age = n] \in RequestRow
        BY <4>1, <4>2, <4>3 DEF RequestRow
      <4> QED BY <4>1, <4>3, <4>4 DEF RequestRow
    <3>2. row' = [r \in Requests |-> IF row[r].status # "PENDING" THEN row[r] ELSE older(r)]
      BY <1>4 DEF Tick
    <3> HIDE DEF older
    <3> QED BY <3>1, <3>2 DEF Typed, TableOK, RowsOK
  <2>3. proc' = proc /\ CountsOK'
    BY <1>4 DEF Tick, Typed, CountsOK, peopleVars, history
  <2> QED BY <2>1, <2>2, <2>3 DEF Typed, KnowsAll
<1> QED BY <1>1, <1>2, <1>3, <1>4

LEMMA TypedStep ==
  ASSUME Typed, Filed, Next PROVE Typed'
<1>1. ASSUME NEW h \in Handlers, HandlerStep(h) PROVE Typed'
  <2>1. ASSUME NEW u \in Users, NEW c \in Counters,
               \/ ClaimRead(h, u, c) \/ \E r \in Requests : RequestRead(h, u, c, r)
               \/ ReleaseRead(h, u, c) \/ \E v \in Users : AssignRead(h, u, c, v)
        PROVE  Typed'
    BY <2>1, ClaimReadTyped, RequestReadTyped, ReleaseTyped, AssignReadTyped
  <2>2. ASSUME NEW u \in Users, ReleaseMineRead(h, u) PROVE Typed'
    BY <2>2, ReleaseTyped
  <2>3. ASSUME NEW u \in Users, NEW r \in Requests, ApproveRead(h, u, r) \/ RejectRead(h, u, r)
        PROVE  Typed'
    BY <2>3, ApproveReadTyped, RejectReadTyped
  <2>4. ASSUME NEW c \in Counters, FreeWrite(h, c) PROVE Typed'
    BY <2>4, FreeStepTyped DEF Procs
  <2> QED BY <1>1, <2>1, <2>2, <2>3, <2>4, ClaimTyped, FileTyped, AnswerTyped DEF HandlerStep
<1>2. ASSUME NEW p \in Procs, TransferStep(p) PROVE Typed'
  BY <1>2, TransferReadTyped, TransferWriteTyped, TransferLostTyped DEF TransferStep
<1>3. ASSUME NEW s \in Sweepers, SweepStep(s) PROVE Typed'
  BY <1>3, SweepListTyped, FreeStepTyped, SweepClaimTyped, SweepEndTyped DEF SweepStep, Procs
<1> QED BY <1>1, <1>2, <1>3, WorldTyped DEF Next

-----------------------------------------------------------------------------
(* Who works on which request. *)

\* Ids are handed out once, a row is taken by one pass at a time, and a request that is still
\* open, or being taken, has not been granted by a pass.
ReqsOK ==
  /\ Filed
  /\ \A p \in Procs : proc[p].op = "request" => row[proc[p].req].status = "NONE"
  /\ \A p, q \in Procs : p # q /\ proc[p].op = "request" => proc[q].req # proc[p].req
  /\ \A s \in Sweepers : proc[s].req # None =>
       row[proc[s].req].status # "PENDING" /\ swept[proc[s].req] = 0
  /\ \A s, t \in Sweepers : s # t /\ proc[s].req # None => proc[t].req # proc[s].req
  /\ \A r \in Requests : row[r].status \in {"NONE", "PENDING"} => swept[r] = 0
  /\ \A r \in Requests : swept[r] <= 1

\* No process but p moves.
Alone(p) == \A q \in Procs \ {p} : proc'[q] = proc[q]

\* p keeps its request or drops it.
KeepsReq(p) == proc'[p].req = None \/ (proc'[p].req = proc[p].req /\ proc'[p].op = proc[p].op)

\* Rows stay as they are, or are closed.
Closing ==
  \A r \in Requests : \/ row'[r].status = row[r].status
                      \/ row[r].status # "NONE" /\ row'[r].status \notin {"NONE", "PENDING"}

\* The request of a process that has one is a row's id.
LEMMA ReqTyped ==
  ASSUME Typed
  PROVE  \A p \in Procs : /\ proc[p].req \in Requests \cup {None}
                          /\ proc[p].op = "request" => proc[p].req \in Requests
BY DEF Typed, KnowsAll, Knows, ProcRecord

LEMMA QuietReqs ==
  ASSUME Typed, Typed', ReqsOK, NEW p \in Procs, Alone(p), KeepsReq(p), Closing, swept' = swept
  PROVE  ReqsOK'
<1>1. \A q \in Procs : /\ proc[q].req \in Requests \cup {None}
                       /\ proc[q].op = "request" => proc[q].req \in Requests
  BY ReqTyped
<1>2. \A q \in Procs : proc'[q].op = "request" => proc'[q].req # None
  BY ControlAssumption DEF Typed, KnowsAll, Knows
<1>3. \A q \in Procs : proc'[q].req = None
                       \/ (proc'[q].req = proc[q].req /\ proc'[q].op = proc[q].op)
  BY DEF Alone, KeepsReq
<1>4. Filed'
  BY <1>1, <1>3 DEF ReqsOK, Filed, Closing
<1>5. \A q \in Procs : proc'[q].op = "request" => row'[proc'[q].req].status = "NONE"
  BY <1>1, <1>2, <1>3 DEF ReqsOK, Closing
<1>6. \A q, u \in Procs : q # u /\ proc'[q].op = "request" => proc'[u].req # proc'[q].req
  BY <1>2, <1>3 DEF ReqsOK
<1>7. \A s \in Sweepers : proc'[s].req # None =>
        row'[proc'[s].req].status # "PENDING" /\ swept'[proc'[s].req] = 0
  BY <1>1, <1>3 DEF ReqsOK, Closing, Procs
<1>8. \A s, t \in Sweepers : s # t /\ proc'[s].req # None => proc'[t].req # proc'[s].req
  BY <1>3 DEF ReqsOK, Procs
<1>9. \A r \in Requests : row'[r].status \in {"NONE", "PENDING"} => swept'[r] = 0
  BY DEF ReqsOK, Closing
<1> QED BY <1>4, <1>5, <1>6, <1>7, <1>8, <1>9 DEF ReqsOK

\* Going to another place keeps the request, ending drops it.
LEMMA GotoKeeps ==
  ASSUME Typed, NEW p \in Procs, NEW pc \in Places \cup {"idle"}, Goto(p, pc)
  PROVE  Alone(p) /\ KeepsReq(p)
<1>1. proc \in [Procs -> ProcRecord] /\ proc' = [proc EXCEPT ![p] = At(proc[p], pc)]
  BY DEF Typed, Goto
<1>2. Alone(p) /\ proc'[p] = At(proc[p], pc)
  BY <1>1 DEF Alone
<1>3. CASE pc = "idle"
  BY <1>2, <1>3 DEF At, KeepsReq, IdleProc
<1>4. CASE pc # "idle"
  BY <1>1, <1>2, <1>4, AtFields DEF KeepsReq
<1> QED BY <1>2, <1>3, <1>4

LEMMA EndKeeps ==
  ASSUME Typed, NEW p \in Procs, proc' = [proc EXCEPT ![p] = IdleProc]
  PROVE  Alone(p) /\ KeepsReq(p)
BY DEF Typed, Alone, KeepsReq, IdleProc

LEMMA SameRows ==
  ASSUME row' = row PROVE Closing
BY DEF Closing

\* What begins without a request.
LEMMA BeginReqs ==
  ASSUME Typed, Typed', ReqsOK, NEW h \in Handlers, NEW u \in Users,
         \/ ReleaseMineRead(h, u)
         \/ \E c \in Counters : \/ ClaimRead(h, u, c) \/ ReleaseRead(h, u, c)
                                \/ \E v \in Users : AssignRead(h, u, c, v)
  PROVE  ReqsOK'
<1>1. ASSUME NEW x, Begin(h, x), x.req = None PROVE ReqsOK'
  <2>1. Alone(h) /\ KeepsReq(h)
    BY <1>1 DEF Begin, Typed, Alone, KeepsReq, Procs
  <2>2. row' = row /\ swept' = swept
    BY <1>1 DEF Begin, history
  <2> QED BY <2>1, <2>2, SameRows, QuietReqs DEF Procs
<1>2. CASE ReleaseMineRead(h, u)
  BY <1>1, <1>2 DEF ReleaseMineRead, IdleProc
<1>3. ASSUME NEW c \in Counters, ClaimRead(h, u, c) PROVE ReqsOK'
  <2> DEFINE q == [IdleProc EXCEPT !.op = "claim", !.user = u, !.to = u, !.counter = c]
             d == ClaimDecision("claim", u, c)
  <2>1. q \in ProcRecord /\ q.req = None
    <3>1. q \in ProcRecord
      BY IdleTyped DEF ProcRecord
    <3>2. q.req = None
      BY DEF IdleProc
    <3> QED BY <3>1, <3>2
  <2>2. d \in Places \cup {"idle"}
    BY ClaimDecides DEF Places
  <2>3. Begin(h, At(q, d))
    BY <1>3 DEF ClaimRead
  <2> HIDE DEF q, d
  <2>4. At(q, d).req = None
    <3>1. CASE d = "idle"
      BY <3>1 DEF At, IdleProc
    <3>2. CASE d # "idle"
      BY <2>1, <2>2, <3>2, AtFields
    <3> QED BY <3>1, <3>2
  <2> QED BY <1>1, <2>3, <2>4
<1>4. ASSUME NEW c \in Counters, ReleaseRead(h, u, c) PROVE ReqsOK'
  BY <1>1, <1>4 DEF ReleaseRead, IdleProc
<1>5. ASSUME NEW c \in Counters, NEW v \in Users, AssignRead(h, u, c, v) PROVE ReqsOK'
  BY <1>1, <1>5 DEF AssignRead, IdleProc
<1> QED BY <1>2, <1>3, <1>4, <1>5

\* A new request has an id nobody uses.
LEMMA RequestReqs ==
  ASSUME Typed, Typed', ReqsOK, NEW h \in Handlers, NEW u \in Users, NEW c \in Counters,
         NEW r \in Requests, RequestRead(h, u, c, r)
  PROVE  ReqsOK'
<1> DEFINE q == [IdleProc EXCEPT !.op = "request", !.user = u, !.counter = c, !.req = r]
           d == ClaimDecision("request", u, c)
<1>1. q \in ProcRecord
  BY IdleTyped DEF ProcRecord
<1>2. q.op = "request" /\ q.req = r
  BY DEF IdleProc
<1>3. d \in {"claimWrite", "claimFree", "fileLook", "idle"}
  BY ClaimDecides
<1>4. Begin(h, At(q, d))
  BY DEF RequestRead
<1>5. row[r].status = "NONE" /\ \A p \in Procs : proc[p].req # r
  BY DEF RequestRead, FreshIds
<1> HIDE DEF q, d
<1>6. /\ proc' = [proc EXCEPT ![h] = At(q, d)] /\ h \in Procs /\ h \notin Sweepers
      /\ row' = row /\ swept' = swept
  BY <1>4, ControlAssumption DEF Begin, Procs, history
<1>7. CASE d = "idle"
  <2>1. proc' = [proc EXCEPT ![h] = IdleProc]
    BY <1>6, <1>7 DEF At
  <2> QED BY <1>6, <2>1, EndKeeps, SameRows, QuietReqs
<1>8. CASE d # "idle"
  <2>1. /\ proc'[h].op = "request" /\ proc'[h].req = r
        /\ \A p \in Procs \ {h} : proc'[p] = proc[p]
    BY <1>1, <1>2, <1>3, <1>6, <1>8, AtFields DEF Typed, Places
  <2>2. \A p \in Procs : proc[p].op = "request" => proc[p].req \in Requests
    BY ReqTyped
  <2> QED BY <1>5, <1>6, <2>1, <2>2 DEF ReqsOK, Filed, Procs
<1> QED BY <1>7, <1>8

\* An answer is to a request in the table.
LEMMA AnswerReadReqs ==
  ASSUME Typed, Typed', ReqsOK, NEW h \in Handlers, NEW u \in Users, NEW r \in Requests,
         ApproveRead(h, u, r) \/ RejectRead(h, u, r)
  PROVE  ReqsOK'
<1>1. row[r].status = "PENDING"
  BY DEF ApproveRead, RejectRead, MayAnswer
<1>2. /\ row' = row /\ swept' = swept /\ h \in Procs /\ h \notin Sweepers
      /\ \A p \in Procs \ {h} : proc'[p] = proc[p]
  BY ControlAssumption DEF ApproveRead, RejectRead, Begin, Procs, Typed, history
<1>3. proc'[h].req = r /\ proc'[h].op # "request"
  <2>1. ASSUME NEW x, Begin(h, x), x.req = r, x.op # "request"
        PROVE  proc'[h].req = r /\ proc'[h].op # "request"
    BY <2>1 DEF Begin, Procs, Typed
  <2>2. CASE RejectRead(h, u, r)
    BY <2>1, <2>2 DEF RejectRead, IdleProc
  <2>3. CASE ApproveRead(h, u, r)
    <3> DEFINE e == IF holder[row[r].counter] = u THEN u ELSE None
               x == [IdleProc EXCEPT !.pc = "transferRead", !.op = "approve", !.user = u, !.req = r,
                       !.to = row[r].from, !.counter = row[r].counter, !.expect = e]
    <3>1. Begin(h, x)
      BY <2>3 DEF ApproveRead
    <3> HIDE DEF e
    <3>2. x.req = r /\ x.op = "approve"
      BY DEF IdleProc
    <3> HIDE DEF x
    <3> QED BY <2>1, <3>1, <3>2
  <2> QED BY <2>2, <2>3
<1>4. \A p \in Procs : proc[p].op = "request" => proc[p].req \in Requests
  BY ReqTyped
<1> QED BY <1>1, <1>2, <1>3, <1>4 DEF ReqsOK, Filed, Procs

LEMMA FileReqs ==
  ASSUME Typed, Typed', ReqsOK, NEW h \in Handlers, FileCreate(h) PROVE ReqsOK'
<1> DEFINE r == proc[h].req
<1>0. h \in Procs /\ h \notin Sweepers /\ proc[h].op = "request" /\ r \in Requests
  BY ControlAssumption DEF Typed, KnowsAll, Knows, Procs, FileCreate
<1>1. row[r].status = "NONE" /\ \A q \in Procs \ {h} : proc[q].req # r
  BY <1>0 DEF ReqsOK
<1>2. /\ swept' = swept /\ proc'[h].req = None /\ proc'[h].op = "none"
      /\ \A q \in Procs \ {h} : proc'[q] = proc[q]
  BY <1>0 DEF FileCreate, Goto, At, IdleProc, Typed, history
<1>3. /\ row'[r].status = "PENDING" /\ \A x \in Requests \ {r} : row'[x] = row[x]
  BY <1>0 DEF FileCreate, Typed, TableOK, NoRow
<1>4. \A q \in Procs : /\ proc[q].req \in Requests \cup {None}
                       /\ proc[q].op = "request" => proc[q].req \in Requests
  BY ReqTyped
<1> HIDE DEF r
<1>5. Filed'
  BY <1>0, <1>1, <1>2, <1>3, <1>4 DEF ReqsOK, Filed
<1>6. \A q \in Procs : proc'[q].op = "request" => row'[proc'[q].req].status = "NONE"
  BY <1>1, <1>2, <1>3, <1>4 DEF ReqsOK
<1>7. \A q, u \in Procs : q # u /\ proc'[q].op = "request" => proc'[u].req # proc'[q].req
  BY <1>2, <1>4, ControlAssumption DEF ReqsOK
<1>8. \A s \in Sweepers : proc'[s].req # None =>
        row'[proc'[s].req].status # "PENDING" /\ swept'[proc'[s].req] = 0
  BY <1>0, <1>1, <1>2, <1>3, <1>4 DEF ReqsOK, Procs
<1>9. \A s, t \in Sweepers : s # t /\ proc'[s].req # None => proc'[t].req # proc'[s].req
  BY <1>0, <1>2 DEF ReqsOK, Procs
<1>10. \A x \in Requests : row'[x].status \in {"NONE", "PENDING"} => swept'[x] = 0
  BY <1>1, <1>2, <1>3 DEF ReqsOK
<1> QED BY <1>2, <1>5, <1>6, <1>7, <1>8, <1>9, <1>10 DEF ReqsOK

LEMMA TransferReqs ==
  ASSUME Typed, Typed', ReqsOK, NEW p \in Procs, TransferWrite(p) PROVE ReqsOK'
<1>0. Knows(p, proc[p]) /\ proc[p].pc = "transferWrite"
  BY DEF Typed, KnowsAll, TransferWrite
<1>1. Alone(p) /\ KeepsReq(p) /\ (proc[p].op = "sweep" => proc'[p].req = None)
  <2>1. PICK x : /\ proc' = [proc EXCEPT ![p] = x]
                 /\ IF proc[p].op = "approve"
                      THEN x.pc = "approveMark" /\ x.op = "approve" /\ x.req = proc[p].req
                      ELSE x.req = None
    BY AfterTransfer
  <2> QED BY <2>1 DEF Typed, Alone, KeepsReq
<1>2. row' = row
  BY DEF TransferWrite
<1>3. CASE proc[p].op # "sweep"
  BY <1>1, <1>2, <1>3, SameRows, QuietReqs DEF TransferWrite
<1>4. CASE proc[p].op = "sweep"
  <2> DEFINE r == proc[p].req
  <2>1. r \in Requests /\ p \in Sweepers
    BY <1>0, <1>4 DEF Knows, AtRequest
  <2>2. row[r].status \notin {"NONE", "PENDING"} /\ swept[r] = 0
    BY <1>4, <2>1, ControlAssumption DEF ReqsOK, Filed
  <2>3. swept'[r] = 1 /\ \A x \in Requests \ {r} : swept'[x] = swept[x]
    BY <1>4, <2>1, <2>2 DEF TransferWrite, Typed, CountsOK
  <2>4. \A q \in Procs \ {p} : proc'[q] = proc[q]
    BY <1>1 DEF Alone
  <2>5. \A s \in Sweepers \ {p} : proc[s].req # r
    BY <2>1, ControlAssumption DEF ReqsOK
  <2>6. \A q \in Procs : /\ proc[q].req \in Requests \cup {None}
                         /\ proc[q].op = "request" => proc[q].req \in Requests
    BY ReqTyped
  <2>7. proc'[p].op # "request" /\ proc'[p].req = None
    BY <1>1, <1>4, ControlAssumption DEF Typed, KnowsAll, Knows
  <2> HIDE DEF r
  <2>8. Filed'
    BY <1>2, <2>4, <2>7 DEF ReqsOK, Filed
  <2>9. \A q \in Procs : proc'[q].op = "request" => row'[proc'[q].req].status = "NONE"
    BY <1>2, <2>4, <2>7 DEF ReqsOK
  <2>10. \A q, u \in Procs : q # u /\ proc'[q].op = "request" => proc'[u].req # proc'[q].req
    BY <2>4, <2>6, <2>7, ControlAssumption DEF ReqsOK
  <2>11. \A s \in Sweepers : proc'[s].req # None =>
          row'[proc'[s].req].status # "PENDING" /\ swept'[proc'[s].req] = 0
    BY <1>2, <2>3, <2>4, <2>5, <2>6, <2>7 DEF ReqsOK, Procs
  <2>12. \A s, t \in Sweepers : s # t /\ proc'[s].req # None => proc'[t].req # proc'[s].req
    BY <2>4, <2>7 DEF ReqsOK, Procs
  <2>13. \A x \in Requests : row'[x].status \in {"NONE", "PENDING"} => swept'[x] = 0
    BY <1>2, <2>2, <2>3 DEF ReqsOK
  <2>14. \A x \in Requests : swept'[x] <= 1
    BY <2>1, <2>3 DEF ReqsOK
  <2> QED BY <2>8, <2>9, <2>10, <2>11, <2>12, <2>13, <2>14 DEF ReqsOK
<1> QED BY <1>3, <1>4

LEMMA SweepClaimReqs ==
  ASSUME Typed, Typed', ReqsOK, NEW s \in Sweepers, NEW r \in Requests, SweepClaim(s, r)
  PROVE  ReqsOK'
<1>0. s \in Procs /\ proc \in [Procs -> ProcRecord] /\ row \in [Requests -> RequestRow]
  BY DEF Procs, Typed, TableOK
<1>1. CASE row[r].status # "PENDING"
  <2>1. Alone(s) /\ row' = row /\ swept' = swept
    BY <1>0, <1>1 DEF SweepClaim, Alone, history
  <2>2. KeepsReq(s)
    BY <1>0, <1>1 DEF SweepClaim, KeepsReq, ProcRecord
  <2> QED BY <1>0, <2>1, <2>2, SameRows, QuietReqs
<1>2. CASE row[r].status = "PENDING"
  <2>1. PICK x : /\ proc' = [proc EXCEPT ![s] = x] /\ x.op = "sweep" /\ x.req = r
    BY <1>2, ClaimedBySweep
  <2>2. /\ proc'[s].op = "sweep" /\ proc'[s].req = r
        /\ \A q \in Procs \ {s} : proc'[q] = proc[q]
    BY <1>0, <2>1
  <2>3. /\ row'[r].status = "APPROVED" /\ \A y \in Requests \ {r} : row'[y] = row[y]
    BY <1>0, <1>2 DEF SweepClaim, RequestRow
  <2>4. swept' = swept /\ swept[r] = 0
    BY <1>2 DEF SweepClaim, history, ReqsOK
  <2>5. \A q \in Procs : /\ proc[q].req \in Requests \cup {None}
                         /\ proc[q].op = "request" => proc[q].req \in Requests
    BY ReqTyped
  <2>6. /\ \A t \in Sweepers : proc[t].req # r
        /\ \A q \in Procs : proc[q].op = "request" => proc[q].req # r
    BY <1>2, ControlAssumption DEF ReqsOK
  <2>7. Filed'
    BY <2>2, <2>3, <2>5 DEF ReqsOK, Filed
  <2>8. \A q \in Procs : proc'[q].op = "request" => row'[proc'[q].req].status = "NONE"
    BY <2>2, <2>3, <2>5, <2>6 DEF ReqsOK
  <2>9. \A q, u \in Procs : q # u /\ proc'[q].op = "request" => proc'[u].req # proc'[q].req
    BY <2>2, <2>6 DEF ReqsOK
  <2>10. \A t \in Sweepers : proc'[t].req # None =>
          row'[proc'[t].req].status # "PENDING" /\ swept'[proc'[t].req] = 0
    BY <2>2, <2>3, <2>4, <2>5, <2>6 DEF ReqsOK, Procs
  <2>11. \A t, u \in Sweepers : t # u /\ proc'[t].req # None => proc'[u].req # proc'[t].req
    BY <2>2, <2>6 DEF ReqsOK, Procs
  <2>12. \A y \in Requests : row'[y].status \in {"NONE", "PENDING"} => swept'[y] = 0
    BY <2>3, <2>4 DEF ReqsOK
  <2> QED BY <2>4, <2>7, <2>8, <2>9, <2>10, <2>11, <2>12 DEF ReqsOK
<1> QED BY <1>1, <1>2

LEMMA HandlerReqs ==
  ASSUME Typed, Typed', ReqsOK, NEW h \in Handlers,
         \/ ClaimFree(h) \/ ClaimWrite(h) \/ ClaimLost(h) \/ FileLook(h)
         \/ \E c \in Counters : FreeWrite(h, c)
  PROVE  ReqsOK'
<1>0. h \in Procs /\ proc \in [Procs -> ProcRecord]
  BY DEF Procs, Typed
<1>1. CASE ClaimFree(h) \/ ClaimWrite(h) \/ ClaimLost(h) \/ FileLook(h)
  <2>1. PICK pc \in Places \cup {"idle"} : Goto(h, pc)
    BY <1>1 DEF ClaimFree, ClaimWrite, ClaimLost, FileLook, AfterRefusal, Places
  <2>2. row' = row /\ swept' = swept
    BY <1>1 DEF ClaimFree, ClaimWrite, ClaimLost, FileLook, history
  <2> QED BY <1>0, <2>1, <2>2, GotoKeeps, SameRows, QuietReqs
<1>2. ASSUME NEW c \in Counters, FreeWrite(h, c) PROVE ReqsOK'
  <2>1. row' = row /\ swept' = swept
    BY <1>2 DEF FreeWrite, history
  <2>2. Alone(h)
    BY <1>0, <1>2 DEF FreeWrite, Alone
  <2>3. KeepsReq(h)
    BY <1>0, <1>2 DEF FreeWrite, KeepsReq, ProcRecord, IdleProc
  <2> QED BY <1>0, <2>1, <2>2, <2>3, SameRows, QuietReqs
<1> QED BY <1>1, <1>2

LEMMA AnswerReqs ==
  ASSUME Typed, Typed', ReqsOK, NEW h \in Handlers, ApproveMark(h) \/ RejectWrite(h)
  PROVE  ReqsOK'
<1>0. h \in Procs /\ row \in [Requests -> RequestRow]
  BY DEF Procs, Typed, TableOK
<1>1. Goto(h, "idle") /\ swept' = swept
  BY DEF ApproveMark, RejectWrite, history
<1>2. proc[h].req \in Requests /\ row[proc[h].req].status # "NONE"
  BY <1>0, ControlAssumption DEF ApproveMark, RejectWrite, Typed, KnowsAll, Knows, ReqsOK, Filed
<1>3. Closing
  <2>1. CASE ApproveMark(h)
    BY <1>0, <1>2, <2>1 DEF ApproveMark, Closing, RequestRow
  <2>2. CASE RejectWrite(h)
    BY <1>0, <1>2, <2>2 DEF RejectWrite, Closing, RequestRow
  <2> QED BY <2>1, <2>2
<1> QED BY <1>0, <1>1, <1>3, GotoKeeps, QuietReqs

LEMMA TransferQuiet ==
  ASSUME Typed, Typed', ReqsOK, NEW p \in Procs, TransferRead(p) \/ TransferLost(p)
  PROVE  ReqsOK'
<1>0. proc \in [Procs -> ProcRecord] /\ row' = row /\ swept' = swept
  BY DEF Typed, TransferRead, TransferLost, history
<1>1. CASE TransferLost(p)
  <2>1. PICK pc \in Places \cup {"idle"} : Goto(p, pc)
    BY <1>1 DEF TransferLost, Places
  <2> QED BY <1>0, <2>1, GotoKeeps, SameRows, QuietReqs
<1>2. CASE TransferRead(p)
  <2> DEFINE n == holder[proc[p].counter]
             y == [proc[p] EXCEPT !.pc = "transferWrite", !.seen = n]
  <2>1. proc' = [proc EXCEPT ![p] = IdleProc] \/ proc' = [proc EXCEPT ![p] = y]
    BY <1>2 DEF TransferRead
  <2> HIDE DEF n
  <2>2. y.req = proc[p].req /\ y.op = proc[p].op
    BY <1>0 DEF ProcRecord
  <2> HIDE DEF y
  <2>3. CASE proc' = [proc EXCEPT ![p] = y]
    BY <1>0, <2>2, <2>3, SameRows, QuietReqs DEF Alone, KeepsReq
  <2>4. CASE proc' = [proc EXCEPT ![p] = IdleProc]
    BY <1>0, <2>4, EndKeeps, SameRows, QuietReqs
  <2> QED BY <2>1, <2>3, <2>4
<1> QED BY <1>1, <1>2

LEMMA SweepReqs ==
  ASSUME Typed, Typed', ReqsOK, NEW s \in Sweepers,
         \/ SweepStale(s) \/ \E c \in Counters : SweepFree(s, c)
         \/ SweepRequests(s) \/ SweepDone(s)
  PROVE  ReqsOK'
<1>0. s \in Procs /\ proc \in [Procs -> ProcRecord] /\ row' = row /\ swept' = swept
  BY DEF Procs, Typed, SweepStale, SweepFree, SweepRequests, SweepDone, history
<1>1. CASE SweepStale(s)
  <2>1. Alone(s) /\ KeepsReq(s)
    BY <1>0, <1>1 DEF SweepStale, Alone, KeepsReq, IdleProc
  <2> QED BY <1>0, <2>1, SameRows, QuietReqs
<1>2. ASSUME NEW c \in Counters, SweepFree(s, c) PROVE ReqsOK'
  <2>1. Alone(s)
    BY <1>0, <1>2 DEF SweepFree, Alone
  <2>2. KeepsReq(s)
    BY <1>0, <1>2 DEF SweepFree, KeepsReq, ProcRecord
  <2> QED BY <1>0, <2>1, <2>2, SameRows, QuietReqs
<1>3. CASE SweepRequests(s)
  <2>1. Alone(s)
    BY <1>0, <1>3 DEF SweepRequests, Alone
  <2>2. KeepsReq(s)
    BY <1>0, <1>3 DEF SweepRequests, KeepsReq, ProcRecord
  <2> QED BY <1>0, <2>1, <2>2, SameRows, QuietReqs
<1>4. CASE SweepDone(s)
  <2>1. Goto(s, "idle")
    BY <1>4 DEF SweepDone
  <2> QED BY <1>0, <2>1, GotoKeeps, SameRows, QuietReqs
<1> QED BY <1>1, <1>2, <1>3, <1>4

LEMMA SweepEndReqs ==
  ASSUME Typed, Typed', ReqsOK, NEW s \in Sweepers, SweepLook(s) \/ SweepExpire(s)
  PROVE  ReqsOK'
<1>0. /\ s \in Procs /\ proc \in [Procs -> ProcRecord] /\ swept' = swept /\ Filed
      /\ row \in [Requests -> RequestRow]
  BY DEF Procs, Typed, TableOK, SweepLook, SweepExpire, history, ReqsOK
<1>1. CASE SweepLook(s)
  <2>1. PICK x : proc' = [proc EXCEPT ![s] = x] /\ x.op = "sweep" /\ x.req = proc[s].req
    BY <1>0, <1>1, LookKeepsRequest
  <2>2. proc[s].op = "sweep"
    BY <1>0, <1>1 DEF SweepLook, Typed, KnowsAll, Knows
  <2>3. Alone(s) /\ KeepsReq(s)
    BY <1>0, <2>1, <2>2 DEF Alone, KeepsReq
  <2>4. row' = row
    BY <1>1 DEF SweepLook
  <2> QED BY <1>0, <2>3, <2>4, SameRows, QuietReqs
<1>2. CASE SweepExpire(s)
  <2>1. PICK x : proc' = [proc EXCEPT ![s] = x] /\ x.req = None
    BY <1>2, ExpireKnows
  <2>2. Alone(s) /\ KeepsReq(s)
    BY <1>0, <2>1 DEF Alone, KeepsReq
  <2>3. proc[s].req \in Requests
    BY <1>0, <1>2 DEF SweepExpire, Typed, KnowsAll, Knows, AtRequest
  <2>4. Closing
    BY <1>0, <1>2, <2>3 DEF SweepExpire, Closing, RequestRow
  <2> QED BY <1>0, <2>2, <2>4, QuietReqs
<1> QED BY <1>1, <1>2

LEMMA WorldReqs ==
  ASSUME Typed, Typed', ReqsOK,
         \/ \E p \in Procs : Crash(p)
         \/ \E u \in Users : CloseOrOpen(u) \/ JoinOrLeave(u) \/ \E c \in Counters : Heartbeat(u, c)
         \/ Tick \/ UNCHANGED vars
  PROVE  ReqsOK'
<1>1. ASSUME NEW p \in Procs, Crash(p) PROVE ReqsOK'
  <2>1. Goto(p, "idle") /\ row' = row /\ swept' = swept
    BY <1>1 DEF Crash, history
  <2> QED BY <2>1, GotoKeeps, SameRows, QuietReqs
<1>2. ASSUME proc' = proc, swept' = swept, \A r \in Requests : row'[r].status = row[r].status
      PROVE  ReqsOK'
  <2>1. \A p \in Procs : /\ proc[p].req \in Requests \cup {None}
                         /\ proc[p].op = "request" => proc[p].req \in Requests
    BY ReqTyped
  <2>2. Filed'
    BY <1>2, <2>1 DEF ReqsOK, Filed
  <2>3. \A p \in Procs : proc'[p].op = "request" => row'[proc'[p].req].status = "NONE"
    BY <1>2, <2>1 DEF ReqsOK
  <2>4. \A s \in Sweepers : proc'[s].req # None =>
          row'[proc'[s].req].status # "PENDING" /\ swept'[proc'[s].req] = 0
    BY <1>2, <2>1 DEF ReqsOK, Procs
  <2>5. \A r \in Requests : row'[r].status \in {"NONE", "PENDING"} => swept'[r] = 0
    BY <1>2 DEF ReqsOK
  <2> QED BY <1>2, <2>2, <2>3, <2>4, <2>5 DEF ReqsOK
<1>3. CASE \E u \in Users : CloseOrOpen(u) \/ JoinOrLeave(u) \/ \E c \in Counters : Heartbeat(u, c)
  BY <1>2, <1>3 DEF CloseOrOpen, JoinOrLeave, Heartbeat, history
<1>4. CASE Tick
  <2>1. \A r \in Requests : row'[r].status = row[r].status
    BY <1>4 DEF Tick, Typed, TableOK, RequestRow
  <2> QED BY <1>2, <1>4, <2>1 DEF Tick, history
<1>5. CASE UNCHANGED vars
  BY <1>2, <1>5 DEF vars
<1> QED BY <1>1, <1>3, <1>4, <1>5

LEMMA ReqsStep ==
  ASSUME Typed, Typed', ReqsOK, [Next]_vars PROVE ReqsOK'
<1>1. ASSUME NEW h \in Handlers, HandlerStep(h) PROVE ReqsOK'
  <2>1. ASSUME NEW u \in Users, NEW c \in Counters,
               \/ ClaimRead(h, u, c) \/ ReleaseRead(h, u, c) \/ \E v \in Users : AssignRead(h, u, c, v)
        PROVE  ReqsOK'
    BY <2>1, BeginReqs
  <2>2. ASSUME NEW u \in Users, NEW c \in Counters, NEW r \in Requests, RequestRead(h, u, c, r)
        PROVE  ReqsOK'
    BY <2>2, RequestReqs
  <2>3. ASSUME NEW u \in Users, ReleaseMineRead(h, u) PROVE ReqsOK'
    BY <2>3, BeginReqs
  <2>4. ASSUME NEW u \in Users, NEW r \in Requests, ApproveRead(h, u, r) \/ RejectRead(h, u, r)
        PROVE  ReqsOK'
    BY <2>4, AnswerReadReqs
  <2> QED BY <1>1, <2>1, <2>2, <2>3, <2>4, HandlerReqs, FileReqs, AnswerReqs DEF HandlerStep
<1>2. ASSUME NEW p \in Procs, TransferStep(p) PROVE ReqsOK'
  BY <1>2, TransferReqs, TransferQuiet DEF TransferStep
<1>3. ASSUME NEW s \in Sweepers, SweepStep(s) PROVE ReqsOK'
  BY <1>3, SweepReqs, SweepClaimReqs, SweepEndReqs DEF SweepStep
<1> QED BY <1>1, <1>2, <1>3, WorldReqs DEF Next

LEMMA InitTyped == Init => Typed /\ ReqsOK
<1> SUFFICES ASSUME Init PROVE Typed /\ ReqsOK
  OBVIOUS
<1>1. CountersOK /\ CountsOK
  BY ControlAssumption DEF Init, CountersOK, CountsOK
<1>2. TableOK
  BY ControlAssumption DEF Init, TableOK, RowsOK, NoRow, RequestRow, RowStatus
<1>3. KnowsAll /\ proc \in [Procs -> ProcRecord]
  BY IdleKnows, IdleTyped DEF Init, KnowsAll
<1>4. ReqsOK
  BY DEF Init, ReqsOK, Filed, IdleProc, NoRow, Procs
<1> QED BY <1>1, <1>2, <1>3, <1>4 DEF Typed

LEMMA TypedStays == Typed /\ UNCHANGED vars => Typed'
BY DEF Typed, CountersOK, CountsOK, TableOK, RowsOK, KnowsAll, vars

LEMMA Correct == Spec => [](Typed /\ ReqsOK)
<1>1. Typed /\ ReqsOK /\ [Next]_vars => (Typed /\ ReqsOK)'
  <2> SUFFICES ASSUME Typed, ReqsOK, [Next]_vars PROVE Typed' /\ ReqsOK'
    OBVIOUS
  <2>1. Typed'
    BY TypedStep, TypedStays DEF ReqsOK
  <2> QED BY <2>1, ReqsStep
<1> QED BY <1>1, InitTyped, PTL DEF Spec

\* Every step keeps the history of outdated decisions.
LEMMA EveryStepObserves == Next => Observe
<1>1. ASSUME NEW h \in Handlers, HandlerStep(h) PROVE Observe
  BY <1>1 DEF HandlerStep, ClaimRead, RequestRead, ReleaseRead, AssignRead, ReleaseMineRead,
     ApproveRead, RejectRead, Begin, ClaimFree, ClaimWrite, ClaimLost, FileLook, FileCreate,
     FreeWrite, ApproveMark, RejectWrite
<1>2. ASSUME NEW p \in Procs, TransferStep(p) \/ Crash(p) PROVE Observe
  BY <1>2 DEF TransferStep, TransferRead, TransferWrite, TransferLost, Crash
<1>3. ASSUME NEW s \in Sweepers, SweepStep(s) PROVE Observe
  BY <1>3 DEF SweepStep, SweepStale, SweepFree, SweepRequests, SweepClaim, SweepLook, SweepExpire,
     SweepDone
<1>4. ASSUME \/ \E u \in Users : CloseOrOpen(u) \/ JoinOrLeave(u) \/ \E c \in Counters : Heartbeat(u, c)
             \/ Tick
      PROVE  Observe
  BY <1>4 DEF CloseOrOpen, JoinOrLeave, Heartbeat, Tick
<1> QED BY <1>1, <1>2, <1>3, <1>4 DEF Next

LEMMA Observed == Spec => [](outdated \subseteq Procs \X Counters)
<1>1. Init => outdated \subseteq Procs \X Counters
  BY DEF Init
<1>2. outdated \subseteq Procs \X Counters /\ [Next]_vars => (outdated \subseteq Procs \X Counters)'
  BY EveryStepObserves DEF Observe, vars
<1> QED BY <1>1, <1>2, PTL DEF Spec

\* Whatever the handlers, the sweep passes and the crashes, every variable keeps its type, and
\* a counter nobody controls has no heartbeat.
THEOREM TypeCorrect == Spec => []TypeOK
BY Correct, Observed, TypedTypeOK, PTL

\* Passes that overlap never hand a counter over twice for the same request: a pass works only
\* on a row it has taken from PENDING itself, and nothing makes a row PENDING again.
THEOREM ResolvedOnce == Spec => []SweptOnce
<1>1. ReqsOK => SweptOnce
  BY DEF ReqsOK, SweptOnce
<1> QED BY <1>1, Correct, PTL

-----------------------------------------------------------------------------
(* An approval is backed by a hand-over. *)

GrantOK ==
  /\ \A p \in Procs : proc[p].pc = "approveMark" => granted[proc[p].req] > 0
  /\ \A r \in Requests : row[r].status = "APPROVED" /\ row[r].by # None => granted[r] > 0
  /\ ApprovedMeansGranted

\* No request reads APPROVED that did not before.
NoApproval ==
  \A r \in Requests : row'[r].status = "APPROVED" =>
                        row[r].status = "APPROVED" /\ row'[r].by = row[r].by

\* p is not about to mark an approval, and a sweep pass keeps the request it has.
Holds(p) ==
  /\ proc'[p].pc # "approveMark"
  /\ p \in Sweepers /\ proc[p].req # None => proc'[p].req = proc[p].req

LEMMA QuietGrants ==
  ASSUME GrantOK, NEW p \in Procs, Alone(p), Holds(p) \/ (proc'[p] = IdleProc /\ crashes' # 0),
         NoApproval, granted' = granted, crashes' = crashes \/ crashes' # 0, None \notin Requests
  PROVE  GrantOK'
<1>1. \A q \in Procs : proc'[q].pc = "approveMark" => granted'[proc'[q].req] > 0
  BY DEF GrantOK, Alone, Holds, IdleProc
<1>2. \A r \in Requests : row'[r].status = "APPROVED" /\ row'[r].by # None => granted'[r] > 0
  BY DEF GrantOK, NoApproval
<1>3. ApprovedMeansGranted'
  <2> SUFFICES ASSUME crashes' = 0, NEW r \in Requests, row'[r].status = "APPROVED"
               PROVE  granted'[r] > 0 \/ \E s \in Sweepers : proc'[s].req = r
    BY DEF ApprovedMeansGranted
  <2>1. granted[r] > 0 \/ \E s \in Sweepers : proc[s].req = r
    BY DEF GrantOK, ApprovedMeansGranted, NoApproval
  <2>2. \A s \in Sweepers : proc[s].req = r => proc'[s].req = r
    BY DEF Alone, Holds, Procs
  <2> QED BY <2>1, <2>2
<1> QED BY <1>1, <1>2, <1>3 DEF GrantOK

LEMMA GotoHolds ==
  ASSUME Typed, NEW p \in Procs, NEW pc \in (Places \cup {"idle"}) \ {"approveMark"}, Goto(p, pc),
         p \in Sweepers /\ proc[p].req # None => pc # "idle"
  PROVE  Alone(p) /\ Holds(p)
<1>1. Alone(p) /\ proc'[p] = At(proc[p], pc) /\ proc[p] \in ProcRecord
  BY DEF Goto, Typed, Alone
<1>2. CASE pc = "idle"
  BY <1>1, <1>2 DEF At, Holds, IdleProc
<1>3. CASE pc # "idle"
  BY <1>1, <1>3, AtFields DEF Holds
<1> QED BY <1>1, <1>2, <1>3

LEMMA BeginGrants ==
  ASSUME Typed, GrantOK, NEW h \in Handlers, NEW x, Begin(h, x), x.pc # "approveMark"
  PROVE  GrantOK'
<1>1. h \in Procs /\ h \notin Sweepers /\ None \notin Requests
  BY ControlAssumption DEF Procs
<1>2. Alone(h) /\ Holds(h)
  BY <1>1 DEF Begin, Typed, Alone, Holds
<1>3. NoApproval /\ granted' = granted /\ crashes' = crashes
  BY DEF Begin, NoApproval, history
<1> QED BY <1>1, <1>2, <1>3, QuietGrants

LEMMA AtPlace ==
  ASSUME NEW q \in ProcRecord, NEW pc \in (Places \cup {"idle"}) \ {"approveMark"}
  PROVE  At(q, pc).pc # "approveMark"
<1>1. CASE pc = "idle"
  BY <1>1 DEF At, IdleProc
<1>2. CASE pc # "idle"
  BY <1>2, AtFields
<1> QED BY <1>1, <1>2

LEMMA BeginsGrant ==
  ASSUME Typed, GrantOK, NEW h \in Handlers, NEW u \in Users,
         \/ ReleaseMineRead(h, u)
         \/ \E c \in Counters : \/ ClaimRead(h, u, c) \/ ReleaseRead(h, u, c)
                                \/ \E r \in Requests : RequestRead(h, u, c, r)
                                \/ \E v \in Users : AssignRead(h, u, c, v)
         \/ \E r \in Requests : ApproveRead(h, u, r) \/ RejectRead(h, u, r)
  PROVE  GrantOK'
<1>1. CASE ReleaseMineRead(h, u)
  BY <1>1, BeginGrants DEF ReleaseMineRead, IdleProc
<1>2. ASSUME NEW c \in Counters, ClaimRead(h, u, c) PROVE GrantOK'
  <2> DEFINE q == [IdleProc EXCEPT !.op = "claim", !.user = u, !.to = u, !.counter = c]
             d == ClaimDecision("claim", u, c)
  <2>1. q \in ProcRecord
    BY IdleTyped DEF ProcRecord
  <2>2. d \in (Places \cup {"idle"}) \ {"approveMark"}
    BY ClaimDecides DEF Places
  <2>3. Begin(h, At(q, d))
    BY <1>2 DEF ClaimRead
  <2> HIDE DEF q, d
  <2> QED BY <2>1, <2>2, <2>3, AtPlace, BeginGrants
<1>3. ASSUME NEW c \in Counters, NEW r \in Requests, RequestRead(h, u, c, r) PROVE GrantOK'
  <2> DEFINE q == [IdleProc EXCEPT !.op = "request", !.user = u, !.counter = c, !.req = r]
             d == ClaimDecision("request", u, c)
  <2>1. q \in ProcRecord
    BY IdleTyped DEF ProcRecord
  <2>2. d \in (Places \cup {"idle"}) \ {"approveMark"}
    BY ClaimDecides DEF Places
  <2>3. Begin(h, At(q, d))
    BY <1>3 DEF RequestRead
  <2> HIDE DEF q, d
  <2> QED BY <2>1, <2>2, <2>3, AtPlace, BeginGrants
<1>4. ASSUME NEW c \in Counters, ReleaseRead(h, u, c) PROVE GrantOK'
  BY <1>4, BeginGrants DEF ReleaseRead, IdleProc
<1>5. ASSUME NEW c \in Counters, NEW v \in Users, AssignRead(h, u, c, v) PROVE GrantOK'
  BY <1>5, BeginGrants DEF AssignRead, IdleProc
<1>6. ASSUME NEW r \in Requests, RejectRead(h, u, r) PROVE GrantOK'
  BY <1>6, BeginGrants DEF RejectRead, IdleProc
<1>7. ASSUME NEW r \in Requests, ApproveRead(h, u, r) PROVE GrantOK'
  <2> DEFINE e == IF holder[row[r].counter] = u THEN u ELSE None
             x == [IdleProc EXCEPT !.pc = "transferRead", !.op = "approve", !.user = u, !.req = r,
                     !.to = row[r].from, !.counter = row[r].counter, !.expect = e]
  <2>1. Begin(h, x)
    BY <1>7 DEF ApproveRead
  <2> HIDE DEF e
  <2>2. x.pc # "approveMark"
    BY DEF IdleProc
  <2> HIDE DEF x
  <2> QED BY <2>1, <2>2, BeginGrants
<1> QED BY <1>1, <1>2, <1>3, <1>4, <1>5, <1>6, <1>7

LEMMA HandlerGrants ==
  ASSUME Typed, Filed, GrantOK, NEW h \in Handlers,
         \/ ClaimFree(h) \/ ClaimWrite(h) \/ ClaimLost(h) \/ FileLook(h) \/ FileCreate(h)
         \/ RejectWrite(h) \/ \E c \in Counters : FreeWrite(h, c)
  PROVE  GrantOK'
<1>0. /\ h \in Procs /\ h \notin Sweepers /\ None \notin Requests /\ Knows(h, proc[h])
      /\ row \in [Requests -> RequestRow] /\ proc \in [Procs -> ProcRecord]
  BY ControlAssumption DEF Procs, Typed, KnowsAll, TableOK
<1>1. CASE ClaimFree(h) \/ ClaimWrite(h) \/ ClaimLost(h) \/ FileLook(h) \/ FileCreate(h) \/ RejectWrite(h)
  <2>1. PICK pc \in (Places \cup {"idle"}) \ {"approveMark"} : Goto(h, pc)
    BY <1>1 DEF ClaimFree, ClaimWrite, ClaimLost, FileLook, FileCreate, RejectWrite, AfterRefusal, Places
  <2>2. Alone(h) /\ Holds(h)
    BY <1>0, <2>1, GotoHolds
  <2>3. granted' = granted /\ crashes' = crashes
    BY <1>1 DEF ClaimFree, ClaimWrite, ClaimLost, FileLook, FileCreate, RejectWrite, history
  <2>4. NoApproval
    <3>1. CASE ClaimFree(h) \/ ClaimWrite(h) \/ ClaimLost(h) \/ FileLook(h)
      BY <3>1 DEF ClaimFree, ClaimWrite, ClaimLost, FileLook, NoApproval
    <3>2. CASE FileCreate(h)
      <4>1. proc[h].req \in Requests
        BY <1>0, <3>2 DEF FileCreate, Knows
      <4> QED BY <1>0, <3>2, <4>1 DEF FileCreate, NoApproval, NoRow
    <3>3. CASE RejectWrite(h)
      <4>1. proc[h].req \in Requests
        BY <1>0, <3>3 DEF RejectWrite, Knows
      <4> QED BY <1>0, <3>3, <4>1 DEF RejectWrite, NoApproval, RequestRow
    <3> QED BY <1>1, <3>1, <3>2, <3>3
  <2> QED BY <1>0, <2>2, <2>3, <2>4, QuietGrants
<1>2. ASSUME NEW c \in Counters, FreeWrite(h, c) PROVE GrantOK'
  <2>1. granted' = granted /\ crashes' = crashes /\ NoApproval
    BY <1>2 DEF FreeWrite, history, NoApproval
  <2>2. Alone(h)
    BY <1>0, <1>2 DEF FreeWrite, Alone
  <2>3. Holds(h)
    BY <1>0, <1>2 DEF FreeWrite, Holds, ProcRecord, IdleProc
  <2> QED BY <1>0, <2>1, <2>2, <2>3, QuietGrants
<1> QED BY <1>1, <1>2

\* The approval of an approver whose transfer went through.
LEMMA ApproveGrants ==
  ASSUME Typed, GrantOK, NEW h \in Handlers, ApproveMark(h) PROVE GrantOK'
<1> DEFINE r == proc[h].req
<1>0. /\ h \in Procs /\ h \notin Sweepers /\ r \in Requests /\ row \in [Requests -> RequestRow]
  BY ControlAssumption DEF Procs, Typed, KnowsAll, Knows, TableOK, ApproveMark
<1>1. granted[r] > 0
  BY <1>0 DEF GrantOK, ApproveMark
<1>2. /\ granted' = granted /\ crashes' = crashes /\ Goto(h, "idle")
      /\ \A x \in Requests \ {r} : row'[x] = row[x]
  BY <1>0 DEF ApproveMark, history
<1>3. Alone(h) /\ Holds(h)
  BY <1>0, <1>2, GotoHolds
<1> HIDE DEF r
<1>4. \A q \in Procs : proc'[q].pc = "approveMark" => granted'[proc'[q].req] > 0
  BY <1>2, <1>3 DEF GrantOK, Alone, Holds
<1>5. \A x \in Requests : row'[x].status = "APPROVED" /\ row'[x].by # None => granted'[x] > 0
  BY <1>1, <1>2 DEF GrantOK
<1>6. \A s \in Sweepers : proc'[s] = proc[s]
  BY <1>0, <1>3 DEF Alone, Procs
<1>7. ApprovedMeansGranted'
  BY <1>1, <1>2, <1>6 DEF GrantOK, ApprovedMeansGranted
<1> QED BY <1>4, <1>5, <1>7 DEF GrantOK

\* A transfer for a request is a hand-over of its counter.
LEMMA TransferGrants ==
  ASSUME Typed, GrantOK, NEW p \in Procs, TransferWrite(p) PROVE GrantOK'
<1>0. /\ Knows(p, proc[p]) /\ proc[p].pc = "transferWrite" /\ granted \in [Requests -> Nat]
      /\ proc \in [Procs -> ProcRecord] /\ proc[p].req \in Requests \cup {None} /\ None \notin Requests
  BY ControlAssumption DEF Typed, KnowsAll, CountsOK, TransferWrite, ProcRecord
<1>1. PICK x : /\ proc' = [proc EXCEPT ![p] = x]
               /\ IF proc[p].op = "approve"
                    THEN x.pc = "approveMark" /\ x.op = "approve" /\ x.req = proc[p].req
                    ELSE x.req = None
               /\ Knows(p, x)
  BY AfterTransfer
<1>2. row' = row /\ crashes' = crashes
  BY DEF TransferWrite
<1>3. /\ \A r \in Requests : granted[r] > 0 => granted'[r] > 0
      /\ proc[p].req # None => granted'[proc[p].req] > 0
  BY <1>0 DEF TransferWrite
<1>4. \A q \in Procs \ {p} : proc'[q] = proc[q]
  BY <1>0, <1>1
<1>5. proc'[p] = x
  BY <1>0, <1>1
<1>6. x.pc = "approveMark" => proc[p].op = "approve" /\ x.req = proc[p].req /\ proc[p].req # None
  BY <1>0, <1>1 DEF Knows
<1>7. \A q \in Procs : proc[q].pc = "approveMark" => proc[q].req \in Requests
  BY DEF Typed, KnowsAll, Knows
<1>8. \A q \in Procs : proc'[q].pc = "approveMark" => granted'[proc'[q].req] > 0
  BY <1>3, <1>4, <1>5, <1>6, <1>7 DEF GrantOK
<1>9. \A r \in Requests : row'[r].status = "APPROVED" /\ row'[r].by # None => granted'[r] > 0
  BY <1>2, <1>3 DEF GrantOK
<1>10. ApprovedMeansGranted'
  <2> SUFFICES ASSUME crashes' = 0, NEW r \in Requests, row'[r].status = "APPROVED"
               PROVE  granted'[r] > 0 \/ \E s \in Sweepers : proc'[s].req = r
    BY DEF ApprovedMeansGranted
  <2>1. granted[r] > 0 \/ \E s \in Sweepers : proc[s].req = r
    BY <1>2 DEF GrantOK, ApprovedMeansGranted
  <2>2. \A s \in Sweepers : proc[s].req = r => granted'[r] > 0 \/ proc'[s].req = r
    BY <1>0, <1>3, <1>4 DEF Procs
  <2> QED BY <1>3, <2>1, <2>2
<1> QED BY <1>8, <1>9, <1>10 DEF GrantOK

LEMMA TransferHolds ==
  ASSUME Typed, GrantOK, NEW p \in Procs, TransferRead(p) \/ TransferLost(p)
  PROVE  GrantOK'
<1>0. /\ proc \in [Procs -> ProcRecord] /\ granted' = granted /\ crashes' = crashes /\ NoApproval
      /\ Knows(p, proc[p]) /\ None \notin Requests
  BY ControlAssumption DEF Typed, KnowsAll, TransferRead, TransferLost, history, NoApproval
<1>1. CASE TransferLost(p)
  <2>1. PICK pc \in {"expire", "idle"} : /\ Goto(p, pc)
                                         /\ proc[p].op = "sweep" => pc = "expire"
    BY <1>1 DEF TransferLost
  <2>2. p \in Sweepers => proc[p].op = "sweep"
    BY <1>0, <1>1 DEF TransferLost, Knows
  <2>3. Alone(p) /\ Holds(p)
    BY <2>1, <2>2, GotoHolds DEF Places
  <2> QED BY <1>0, <2>3, QuietGrants
<1>2. CASE TransferRead(p)
  <2> DEFINE n == holder[proc[p].counter]
             y == [proc[p] EXCEPT !.pc = "transferWrite", !.seen = n]
  <2>1. IF proc[p].expect \notin {None, n} THEN proc' = [proc EXCEPT ![p] = IdleProc]
                                           ELSE proc' = [proc EXCEPT ![p] = y]
    BY <1>2 DEF TransferRead
  <2>2. p \in Sweepers => proc[p].expect = None
    BY <1>0, <1>2 DEF TransferRead, Knows
  <2> HIDE DEF n
  <2>3. y.req = proc[p].req /\ y.pc = "transferWrite"
    BY <1>0 DEF ProcRecord
  <2> HIDE DEF y
  <2>4. Alone(p)
    BY <1>0, <2>1 DEF Alone
  <2>5. Holds(p)
    BY <1>0, <2>1, <2>2, <2>3 DEF Holds, IdleProc
  <2> QED BY <1>0, <2>4, <2>5, QuietGrants
<1> QED BY <1>1, <1>2

LEMMA SweepGrants ==
  ASSUME Typed, Filed, GrantOK, NEW s \in Sweepers,
         \/ SweepStale(s) \/ \E c \in Counters : SweepFree(s, c)
         \/ SweepRequests(s) \/ SweepDone(s) \/ SweepLook(s)
  PROVE  GrantOK'
<1>0. /\ s \in Procs /\ proc \in [Procs -> ProcRecord] /\ granted' = granted /\ crashes' = crashes
      /\ NoApproval /\ Knows(s, proc[s]) /\ None \notin Requests
  BY ControlAssumption DEF Procs, Typed, KnowsAll, SweepStale, SweepFree, SweepRequests, SweepDone,
     SweepLook, NoApproval, history
<1>1. CASE SweepStale(s)
  <2>1. Alone(s)
    BY <1>0, <1>1 DEF SweepStale, Alone
  <2>2. Holds(s)
    BY <1>0, <1>1 DEF SweepStale, Holds, IdleProc, Knows
  <2> QED BY <1>0, <2>1, <2>2, QuietGrants
<1>2. ASSUME NEW c \in Counters, SweepFree(s, c) PROVE GrantOK'
  <2>1. Alone(s)
    BY <1>0, <1>2 DEF SweepFree, Alone
  <2>2. Holds(s)
    BY <1>0, <1>2 DEF SweepFree, Holds, ProcRecord
  <2> QED BY <1>0, <2>1, <2>2, QuietGrants
<1>3. CASE SweepRequests(s)
  <2>1. Alone(s)
    BY <1>0, <1>3 DEF SweepRequests, Alone
  <2>2. Holds(s)
    BY <1>0, <1>3 DEF SweepRequests, Holds, ProcRecord
  <2> QED BY <1>0, <2>1, <2>2, QuietGrants
<1>4. CASE SweepDone(s)
  <2>1. Goto(s, "idle") /\ proc[s].req = None
    BY <1>0, <1>4 DEF SweepDone, Knows, AtRequest
  <2>2. Alone(s) /\ Holds(s)
    BY <1>0, <2>1, GotoHolds
  <2> QED BY <1>0, <2>2, QuietGrants
<1>5. CASE SweepLook(s)
  <2>1. PICK x : proc' = [proc EXCEPT ![s] = x] /\ x.req = proc[s].req /\ x.pc \in AtRequest
    BY <1>5, LookKeepsRequest
  <2>2. Alone(s) /\ Holds(s)
    BY <1>0, <2>1 DEF Alone, Holds, AtRequest
  <2> QED BY <1>0, <2>2, QuietGrants
<1> QED BY <1>1, <1>2, <1>3, <1>4, <1>5

LEMMA SweepClaimGrants ==
  ASSUME Typed, GrantOK, NEW s \in Sweepers, NEW r \in Requests, SweepClaim(s, r) PROVE GrantOK'
<1>0. /\ s \in Procs /\ proc \in [Procs -> ProcRecord] /\ granted' = granted /\ crashes' = crashes
      /\ Knows(s, proc[s]) /\ None \notin Requests /\ row \in [Requests -> RequestRow]
      /\ proc[s].pc = "resolve"
  BY ControlAssumption DEF Procs, Typed, KnowsAll, SweepClaim, TableOK, history
<1>1. CASE row[r].status # "PENDING"
  <2>1. Alone(s) /\ NoApproval
    BY <1>0, <1>1 DEF SweepClaim, Alone, NoApproval
  <2>2. Holds(s)
    BY <1>0, <1>1 DEF SweepClaim, Holds, ProcRecord
  <2> QED BY <1>0, <2>1, <2>2, QuietGrants
<1>2. CASE row[r].status = "PENDING"
  <2>1. PICK x : proc' = [proc EXCEPT ![s] = x] /\ x.pc = "look" /\ x.req = r
    BY <1>2, ClaimedBySweep
  <2>2. /\ proc'[s].pc = "look" /\ proc'[s].req = r
        /\ \A q \in Procs \ {s} : proc'[q] = proc[q]
    BY <1>0, <2>1
  <2>3. proc[s].req = None /\ row[r].by = None
    BY <1>0, <1>2 DEF Knows, AtRequest, Typed, TableOK, RowsOK
  <2>4. row'[r].by = None /\ \A y \in Requests \ {r} : row'[y] = row[y]
    BY <1>0, <1>2, <2>3 DEF SweepClaim, RequestRow
  <2>5. \A q \in Procs : proc'[q].pc = "approveMark" => granted'[proc'[q].req] > 0
    BY <1>0, <2>2 DEF GrantOK
  <2>6. \A y \in Requests : row'[y].status = "APPROVED" /\ row'[y].by # None => granted'[y] > 0
    BY <1>0, <2>4 DEF GrantOK
  <2>7. \A t \in Sweepers : proc[t].req # None => proc'[t].req = proc[t].req
    BY <2>2, <2>3 DEF Procs
  <2>8. ApprovedMeansGranted'
    BY <1>0, <2>2, <2>4, <2>7 DEF GrantOK, ApprovedMeansGranted
  <2> QED BY <2>5, <2>6, <2>8 DEF GrantOK
<1> QED BY <1>1, <1>2

\* A pass gives up a request only once it is granted, or it is not APPROVED any more.
LEMMA SweepExpireGrants ==
  ASSUME Typed, GrantOK, NEW s \in Sweepers, SweepExpire(s) PROVE GrantOK'
<1> DEFINE r == proc[s].req
<1>0. /\ s \in Procs /\ proc \in [Procs -> ProcRecord] /\ granted' = granted /\ crashes' = crashes
      /\ Knows(s, proc[s]) /\ row \in [Requests -> RequestRow] /\ proc[s].pc = "expire"
  BY DEF Procs, Typed, KnowsAll, SweepExpire, TableOK, history
<1>1. PICK x : proc' = [proc EXCEPT ![s] = x] /\ x.req = None /\ Knows(s, x)
  BY ExpireKnows
<1>2. proc'[s] = x /\ \A q \in Procs \ {s} : proc'[q] = proc[q]
  BY <1>0, <1>1
<1>3. r \in Requests /\ x.pc # "approveMark"
  BY <1>0, <1>1, ControlAssumption DEF Knows, AtRequest
<1>4. /\ \A y \in Requests \ {r} : row'[y] = row[y]
      /\ row'[r].status = "APPROVED" => row'[r] = row[r] /\ row[r].by # None
  BY <1>0, <1>3 DEF SweepExpire, RequestRow
<1> HIDE DEF r
<1>5. \A q \in Procs : proc'[q].pc = "approveMark" => granted'[proc'[q].req] > 0
  BY <1>0, <1>2, <1>3 DEF GrantOK
<1>6. \A y \in Requests : row'[y].status = "APPROVED" /\ row'[y].by # None => granted'[y] > 0
  BY <1>0, <1>4 DEF GrantOK
<1>7. row'[r].status = "APPROVED" => granted'[r] > 0
  BY <1>0, <1>3, <1>4 DEF GrantOK
<1>8. \A t \in Sweepers, y \in Requests \ {r} : proc[t].req = y => proc'[t].req = y
  BY <1>2 DEF Procs, r
<1>9. ApprovedMeansGranted'
  <2> SUFFICES ASSUME crashes' = 0, NEW y \in Requests, row'[y].status = "APPROVED"
               PROVE  granted'[y] > 0 \/ \E t \in Sweepers : proc'[t].req = y
    BY DEF ApprovedMeansGranted
  <2>1. CASE y = r
    BY <1>7, <2>1
  <2>2. CASE y # r
    BY <1>0, <1>4, <1>8, <2>2 DEF GrantOK, ApprovedMeansGranted
  <2> QED BY <2>1, <2>2
<1> QED BY <1>5, <1>6, <1>9 DEF GrantOK

LEMMA WorldGrants ==
  ASSUME Typed, GrantOK,
         \/ \E p \in Procs : Crash(p)
         \/ \E u \in Users : CloseOrOpen(u) \/ JoinOrLeave(u) \/ \E c \in Counters : Heartbeat(u, c)
         \/ Tick \/ UNCHANGED vars
  PROVE  GrantOK'
<1>1. ASSUME NEW p \in Procs, Crash(p) PROVE GrantOK'
  <2>1. Alone(p) /\ proc'[p] = IdleProc
    BY <1>1 DEF Crash, Goto, At, Typed, Alone
  <2>2. crashes' # 0 /\ granted' = granted /\ NoApproval
    BY <1>1 DEF Crash, history, NoApproval, Typed, CountsOK
  <2> QED BY <2>1, <2>2, QuietGrants, ControlAssumption
<1>2. ASSUME proc' = proc, granted' = granted, crashes' = crashes, NoApproval PROVE GrantOK'
  BY <1>2 DEF GrantOK, ApprovedMeansGranted, NoApproval
<1>3. CASE \E u \in Users : CloseOrOpen(u) \/ JoinOrLeave(u) \/ \E c \in Counters : Heartbeat(u, c)
  BY <1>2, <1>3 DEF CloseOrOpen, JoinOrLeave, Heartbeat, history, NoApproval
<1>4. CASE Tick
  <2>1. NoApproval
    BY <1>4 DEF Tick, Typed, TableOK, RequestRow, NoApproval
  <2> QED BY <1>2, <1>4, <2>1 DEF Tick, history
<1>5. CASE UNCHANGED vars
  BY <1>2, <1>5 DEF vars, NoApproval
<1> QED BY <1>1, <1>3, <1>4, <1>5

LEMMA GrantStep ==
  ASSUME Typed, ReqsOK, GrantOK, [Next]_vars PROVE GrantOK'
<1>0. Filed
  BY DEF ReqsOK
<1>1. ASSUME NEW h \in Handlers, HandlerStep(h) PROVE GrantOK'
  <2>1. ASSUME NEW u \in Users, NEW c \in Counters,
               \/ ClaimRead(h, u, c) \/ \E r \in Requests : RequestRead(h, u, c, r)
               \/ ReleaseRead(h, u, c) \/ \E v \in Users : AssignRead(h, u, c, v)
        PROVE  GrantOK'
    BY <2>1, BeginsGrant
  <2>2. ASSUME NEW u \in Users,
               \/ ReleaseMineRead(h, u)
               \/ \E r \in Requests : ApproveRead(h, u, r) \/ RejectRead(h, u, r)
        PROVE  GrantOK'
    BY <2>2, BeginsGrant
  <2> QED BY <1>0, <1>1, <2>1, <2>2, HandlerGrants, ApproveGrants DEF HandlerStep
<1>2. ASSUME NEW p \in Procs, TransferStep(p) PROVE GrantOK'
  BY <1>2, TransferGrants, TransferHolds DEF TransferStep
<1>3. ASSUME NEW s \in Sweepers, SweepStep(s) PROVE GrantOK'
  BY <1>0, <1>3, SweepGrants, SweepClaimGrants, SweepExpireGrants DEF SweepStep
<1> QED BY <1>1, <1>2, <1>3, WorldGrants DEF Next

\* Unless a process died half-way, a request that reads APPROVED had its counter handed over,
\* or a sweep pass is about to: an approver marks it after the transfer, and a pass that cannot
\* transfer takes its own mark back.
THEOREM Granted == Spec => []ApprovedMeansGranted
<1>1. Init => GrantOK
  BY DEF Init, GrantOK, ApprovedMeansGranted, IdleProc, NoRow, Procs
<1>2. Typed /\ ReqsOK /\ GrantOK /\ [Next]_vars => GrantOK'
  BY GrantStep
<1>3. GrantOK => ApprovedMeansGranted
  BY DEF GrantOK
<1> QED BY <1>1, <1>2, <1>3, Correct, PTL DEF Spec

-----------------------------------------------------------------------------
(* Who may take a counter from a live controller. *)

\* A process at work for somebody entitled: what the decision to transfer rests on.
Role(q) ==
  q.pc \in {"transferRead", "transferWrite"} =>
    /\ q.op \in {"claim", "assign"} => q.user \in Owners \cup Managers
    /\ q.op = "approve" => q.user \in Owners \cup Managers \/ (q.expect = q.user /\ q.user # None)

\* The grounds on which p decided to take c away from its controller still hold.
Justified(p, c) ==
  holder[c] # None =>
    /\ proc[p].op = "sweep" => Stale(c)
    /\ proc[p].pc = "claimFree" => holder[c] \notin member
    /\ proc[p].pc = "free" /\ proc[p].op # "sweep" => proc[p].user \in Owners \cup {holder[c]}

\* They hold until the counter is renewed.
Decided ==
  /\ \A p \in Procs : Role(proc[p])
  /\ \A p \in Procs, c \in Counters :
       InDoubt(proc[p], c) /\ <<p, c>> \notin outdated => Justified(p, c)

\* q goes on with the decision that p made, or decides anew.
Proceeds(p) ==
  /\ Role(proc'[p])
  /\ \A c \in Counters : InDoubt(proc'[p], c) =>
       \/ /\ InDoubt(proc[p], c)
          /\ proc'[p].op = proc[p].op /\ proc'[p].user = proc[p].user
          /\ \A pc \in {"free", "claimFree"} : proc'[p].pc = pc => proc[p].pc = pc
       \/ Justified(p, c)'

AllProceed == \A p \in Procs : Proceeds(p)

LEMMA GroundsLast ==
  ASSUME Typed, Typed', Decided, AllProceed, Observe
  PROVE  Decided'
<1>1. ASSUME NEW p \in Procs, NEW c \in Counters, InDoubt(proc'[p], c), <<p, c>> \notin outdated'
      PROVE  Justified(p, c)'
  <2>1. CASE InDoubt(proc[p], c) /\ ~Justified(p, c)'
    <3>1. <<p, c>> \notin outdated /\ ~Renewed(c)
      <4> DEFINE d == <<p, c>>
      <4>1. d \in Procs \X Counters /\ d[1] = p /\ d[2] = c
        OBVIOUS
      <4> HIDE DEF d
      <4> DEFINE Doubts(e) == InDoubt(proc[e[1]], e[2]) /\ InDoubt(proc'[e[1]], e[2])
                 Renews(e) == e \in outdated \/ Renewed(e[2])
      <4>2. outdated' = {e \in Procs \X Counters : Doubts(e) /\ Renews(e)}
        BY DEF Observe
      <4>3. Doubts(d) /\ d \notin outdated'
        BY <1>1, <2>1, <4>1 DEF d
      <4>4. ~Renews(d)
        <5> HIDE DEF Doubts, Renews
        <5> QED BY <4>1, <4>2, <4>3
      <4> QED BY <4>1, <4>4 DEF d
    <3>2. Justified(p, c)
      BY <2>1, <3>1 DEF Decided
    <3>3. /\ proc'[p].op = proc[p].op /\ proc'[p].user = proc[p].user
          /\ \A pc \in {"free", "claimFree"} : proc'[p].pc = pc => proc[p].pc = pc
      BY <1>1, <2>1 DEF AllProceed, Proceeds
    <3>4. beat[c] \in Nat /\ beat'[c] \in Nat /\ TTL \in Nat
      BY ControlAssumption DEF Typed, CountersOK
    <3>5. holder'[c] # None => /\ holder'[c] = holder[c]
                               /\ Stale(c) => Stale(c)'
                               /\ holder[c] \notin member => holder'[c] \notin member'
      BY <3>1, <3>4 DEF Renewed, Stale
    <3> QED BY <3>2, <3>3, <3>5 DEF Justified
  <2> QED BY <1>1, <2>1 DEF AllProceed, Proceeds
<1> QED BY <1>1 DEF Decided, AllProceed, Proceeds

\* It is enough to look at the process that moves.
LEMMA OneProceeds ==
  ASSUME Decided, NEW p \in Procs, Alone(p), Proceeds(p)
  PROVE  AllProceed
<1>1. ASSUME NEW q \in Procs \ {p} PROVE Proceeds(q)
  BY <1>1 DEF Decided, Alone, Proceeds
<1> QED BY <1>1 DEF AllProceed

\* Where no decision is pending.
Settled == {"idle", "claimWrite", "fileLook", "fileCreate", "approveMark", "reject", "resolve",
            "look", "expire"}

LEMMA SettledProceeds ==
  ASSUME Decided, NEW p \in Procs, Alone(p), proc'[p].pc \in Settled
  PROVE  AllProceed
BY OneProceeds DEF Proceeds, Role, InDoubt, Settled

LEMMA GotoSettled ==
  ASSUME Typed, Decided, NEW p \in Procs, NEW pc \in Settled, Goto(p, pc)
  PROVE  AllProceed
<1>1. Alone(p) /\ proc'[p] = At(proc[p], pc) /\ proc[p] \in ProcRecord
  BY DEF Goto, Typed, Alone
<1>2. At(proc[p], pc).pc = pc
  <2>1. CASE pc = "idle"
    BY <2>1 DEF At, IdleProc
  <2>2. CASE pc # "idle"
    BY <1>1, <2>2, AtFields DEF Settled, Places
  <2> QED BY <2>1, <2>2
<1> QED BY <1>1, <1>2, SettledProceeds

LEMMA BeginAlone ==
  ASSUME Typed, NEW h \in Handlers, NEW x, Begin(h, x)
  PROVE  /\ h \in Procs /\ Alone(h) /\ proc'[h] = x
         /\ UNCHANGED <<holder, beat, member>>
BY DEF Begin, Typed, Alone, Procs, counterVars, peopleVars


LEMMA ClaimProceeds ==
  ASSUME Typed, Decided, NEW h \in Handlers, NEW u \in Users, NEW c \in Counters,
         ClaimRead(h, u, c) \/ \E r \in Requests : RequestRead(h, u, c, r)
  PROVE  AllProceed
<1>1. ASSUME NEW op \in {"claim", "request"}, NEW q \in ProcRecord,
             q.op = op, q.user = u, q.counter = c, Begin(h, At(q, ClaimDecision(op, u, c)))
      PROVE  AllProceed
  <2> DEFINE d == ClaimDecision(op, u, c)
  <2>1. h \in Procs /\ Alone(h) /\ proc'[h] = At(q, d) /\ UNCHANGED <<holder, beat, member>>
    BY <1>1, BeginAlone
  <2>2. d \in {"claimWrite", "claimFree", "fileLook", "transferRead", "idle"}
    BY ClaimDecides
  <2>3. d = "claimFree" => holder[c] \notin member
    BY DEF ClaimDecision, AfterRefusal
  <2>4. d = "transferRead" => u \in Owners \cup Managers /\ op = "claim"
    BY <1>1 DEF ClaimDecision, AfterRefusal, Bypass
  <2> HIDE DEF d
  <2>5. d # "idle" => /\ proc'[h].pc = d /\ proc'[h].op = op /\ proc'[h].user = u
                      /\ proc'[h].counter = c
    BY <1>1, <2>1, <2>2, AtFields DEF Places
  <2>6. d = "idle" => proc'[h].pc = "idle"
    BY <2>1 DEF At, IdleProc
  <2>7. CASE d \in {"claimWrite", "fileLook", "idle"}
    BY <2>1, <2>5, <2>6, <2>7, SettledProceeds DEF Settled
  <2>8. CASE d = "transferRead"
    <3>1. Proceeds(h)
      BY <1>1, <2>4, <2>5, <2>8 DEF Proceeds, Role, InDoubt
    <3> QED BY <2>1, <3>1, OneProceeds
  <2>9. CASE d = "claimFree"
    <3>1. Proceeds(h)
      BY <1>1, <2>1, <2>3, <2>5, <2>9 DEF Proceeds, Role, InDoubt, Justified
    <3> QED BY <2>1, <3>1, OneProceeds
  <2> QED BY <2>2, <2>7, <2>8, <2>9
<1>2. CASE ClaimRead(h, u, c)
  <2> DEFINE q == [IdleProc EXCEPT !.op = "claim", !.user = u, !.to = u, !.counter = c]
  <2>1. q \in ProcRecord /\ q.op = "claim" /\ q.user = u /\ q.counter = c
    BY DEF ProcRecord, IdleProc
  <2>2. Begin(h, At(q, ClaimDecision("claim", u, c)))
    BY <1>2 DEF ClaimRead
  <2> HIDE DEF q
  <2> QED BY <1>1, <2>1, <2>2
<1>3. ASSUME NEW r \in Requests, RequestRead(h, u, c, r) PROVE AllProceed
  <2> DEFINE q == [IdleProc EXCEPT !.op = "request", !.user = u, !.counter = c, !.req = r]
  <2>1. q \in ProcRecord /\ q.op = "request" /\ q.user = u /\ q.counter = c
    BY DEF ProcRecord, IdleProc
  <2>2. Begin(h, At(q, ClaimDecision("request", u, c)))
    BY <1>3 DEF RequestRead
  <2> HIDE DEF q
  <2> QED BY <1>1, <2>1, <2>2
<1> QED BY <1>2, <1>3

LEMMA OthersBegin ==
  ASSUME Typed, Decided, NEW h \in Handlers, NEW u \in Users,
         \/ ReleaseMineRead(h, u)
         \/ \E c \in Counters : ReleaseRead(h, u, c) \/ \E v \in Users : AssignRead(h, u, c, v)
         \/ \E r \in Requests : ApproveRead(h, u, r) \/ RejectRead(h, u, r)
  PROVE  AllProceed
<1>1. CASE ReleaseMineRead(h, u)
  <2> DEFINE q == [IdleProc EXCEPT !.pc = "free", !.op = "releaseMine", !.user = u,
                                   !.todo = {c \in Counters : holder[c] = u}]
  <2>1. /\ q.pc = "free" /\ q.op = "releaseMine" /\ q.user = u
        /\ q.todo = {c \in Counters : holder[c] = u}
    BY DEF IdleProc
  <2>2. Begin(h, q)
    BY <1>1 DEF ReleaseMineRead
  <2> HIDE DEF q
  <2>3. /\ h \in Procs /\ Alone(h) /\ proc'[h] = q /\ UNCHANGED <<holder, beat, member>>
    BY <2>2, BeginAlone
  <2>4. Proceeds(h)
    BY <2>1, <2>3 DEF Proceeds, Role, InDoubt, Justified
  <2> QED BY <2>3, <2>4, OneProceeds
<1>2. ASSUME NEW c \in Counters, ReleaseRead(h, u, c) PROVE AllProceed
  <2> DEFINE q == [IdleProc EXCEPT !.pc = "free", !.op = "release", !.user = u, !.todo = {c}]
  <2>1. q.pc = "free" /\ q.op = "release" /\ q.user = u /\ q.todo = {c}
    BY DEF IdleProc
  <2>2. Begin(h, q) /\ (holder[c] \in {None, u} \/ u \in Owners)
    BY <1>2 DEF ReleaseRead
  <2> HIDE DEF q
  <2>3. /\ h \in Procs /\ Alone(h) /\ proc'[h] = q /\ UNCHANGED <<holder, beat, member>>
    BY <2>2, BeginAlone
  <2>4. Proceeds(h)
    BY <2>1, <2>2, <2>3 DEF Proceeds, Role, InDoubt, Justified
  <2> QED BY <2>3, <2>4, OneProceeds
<1>3. ASSUME NEW c \in Counters, NEW v \in Users, AssignRead(h, u, c, v) PROVE AllProceed
  <2> DEFINE q == [IdleProc EXCEPT !.pc = "transferRead", !.op = "assign", !.user = u, !.to = v,
                                   !.counter = c]
  <2>1. q.pc = "transferRead" /\ q.op = "assign" /\ q.user = u
    BY DEF IdleProc
  <2>2. Begin(h, q) /\ u \in Owners
    BY <1>3 DEF AssignRead
  <2> HIDE DEF q
  <2>3. h \in Procs /\ Alone(h) /\ proc'[h] = q
    BY <2>2, BeginAlone
  <2>4. Proceeds(h)
    BY <2>1, <2>2, <2>3 DEF Proceeds, Role, InDoubt
  <2> QED BY <2>3, <2>4, OneProceeds
<1>4. ASSUME NEW r \in Requests, ApproveRead(h, u, r) PROVE AllProceed
  <2> DEFINE e == IF holder[row[r].counter] = u THEN u ELSE None
             q == [IdleProc EXCEPT !.pc = "transferRead", !.op = "approve", !.user = u, !.req = r,
                     !.to = row[r].from, !.counter = row[r].counter, !.expect = e]
  <2>1. Begin(h, q) /\ (e = u \/ u \in Owners \cup Managers)
    BY <1>4 DEF ApproveRead, MayAnswer, Bypass
  <2> HIDE DEF e
  <2>2. q.pc = "transferRead" /\ q.op = "approve" /\ q.user = u /\ q.expect = e
    BY DEF IdleProc
  <2> HIDE DEF q
  <2>3. h \in Procs /\ Alone(h) /\ proc'[h] = q /\ u # None
    BY <2>1, BeginAlone, ControlAssumption
  <2>4. Proceeds(h)
    BY <2>1, <2>2, <2>3 DEF Proceeds, Role, InDoubt
  <2> QED BY <2>3, <2>4, OneProceeds
<1>5. ASSUME NEW r \in Requests, RejectRead(h, u, r) PROVE AllProceed
  <2> DEFINE q == [IdleProc EXCEPT !.pc = "reject", !.op = "reject", !.user = u, !.req = r]
  <2>1. q.pc \in Settled
    BY DEF IdleProc, Settled
  <2>2. Begin(h, q)
    BY <1>5 DEF RejectRead
  <2> HIDE DEF q
  <2> QED BY <2>1, <2>2, BeginAlone, SettledProceeds
<1> QED BY <1>1, <1>2, <1>3, <1>4, <1>5

LEMMA HandlerProceeds ==
  ASSUME Typed, Decided, NEW h \in Handlers,
         \/ ClaimFree(h) \/ ClaimWrite(h) \/ ClaimLost(h) \/ FileLook(h) \/ FileCreate(h)
         \/ ApproveMark(h) \/ RejectWrite(h)
  PROVE  AllProceed
<1>0. h \in Procs /\ Knows(h, proc[h]) /\ proc[h] \in ProcRecord
  BY DEF Procs, Typed, KnowsAll
<1>1. CASE ~ClaimLost(h)
  <2>1. PICK pc \in Settled : Goto(h, pc)
    BY <1>1 DEF ClaimFree, ClaimWrite, FileLook, FileCreate, ApproveMark, RejectWrite, Settled
  <2> QED BY <1>0, <2>1, GotoSettled
<1>2. CASE ClaimLost(h)
  <2> DEFINE d == AfterRefusal(proc[h].op, proc[h].user)
  <2>1. /\ d \in {"fileLook", "transferRead", "idle"} /\ Goto(h, d)
        /\ proc[h].op \in {"claim", "request"}
        /\ d = "transferRead" => proc[h].user \in Owners \cup Managers
    BY <1>0, <1>2 DEF ClaimLost, AfterRefusal, Bypass, Knows
  <2> HIDE DEF d
  <2>2. CASE d # "transferRead"
    BY <1>0, <2>1, <2>2, GotoSettled DEF Settled
  <2>3. CASE d = "transferRead"
    <3>1. Alone(h) /\ proc'[h] = At(proc[h], "transferRead")
      BY <1>0, <2>1, <2>3 DEF Goto, Alone, Typed
    <3>2. /\ proc'[h].pc = "transferRead" /\ proc'[h].op = proc[h].op
          /\ proc'[h].user = proc[h].user
      BY <1>0, <3>1, AtFields DEF Places
    <3>3. Proceeds(h)
      BY <2>1, <2>3, <3>2 DEF Proceeds, Role, InDoubt
    <3> QED BY <1>0, <3>1, <3>3, OneProceeds
  <2> QED BY <2>2, <2>3
<1> QED BY <1>1, <1>2

\* A list of counters to free gets shorter.
LEMMA FreeProceeds ==
  ASSUME Typed, Decided, NEW p \in Procs, NEW c \in Counters, FreeWrite(p, c) \/ SweepFree(p, c)
  PROVE  AllProceed
<1> DEFINE q == [proc[p] EXCEPT !.todo = @ \ {c}]
<1>1. /\ proc[p] \in ProcRecord /\ proc[p].pc = "free"
      /\ proc' = [proc EXCEPT ![p] = q] \/ proc' = [proc EXCEPT ![p] = IdleProc]
  BY DEF FreeWrite, SweepFree, Typed
<1>2. Alone(p) /\ (proc'[p] = q \/ proc'[p] = IdleProc)
  BY <1>1 DEF Alone, Typed
<1>3. /\ q.pc = "free" /\ q.op = proc[p].op /\ q.user = proc[p].user
      /\ q.todo \subseteq proc[p].todo
  BY <1>1 DEF ProcRecord
<1> HIDE DEF q
<1>4. CASE proc'[p] = IdleProc
  BY <1>2, <1>4, SettledProceeds DEF Settled, IdleProc
<1>5. CASE proc'[p] = q
  <2>1. Proceeds(p)
    BY <1>1, <1>3, <1>5 DEF Proceeds, Role, InDoubt
  <2> QED BY <1>2, <2>1, OneProceeds
<1> QED BY <1>2, <1>4, <1>5

LEMMA TransferProceeds ==
  ASSUME Typed, Decided, NEW p \in Procs, TransferStep(p)
  PROVE  AllProceed
<1>0. Knows(p, proc[p]) /\ proc[p] \in ProcRecord
  BY DEF Typed, KnowsAll
<1>1. CASE TransferRead(p)
  <2> DEFINE n == holder[proc[p].counter]
             q == [proc[p] EXCEPT !.pc = "transferWrite", !.seen = n]
  <2>1. /\ proc[p].pc = "transferRead"
        /\ proc' = [proc EXCEPT ![p] = q] \/ proc' = [proc EXCEPT ![p] = IdleProc]
    BY <1>1 DEF TransferRead
  <2>2. Alone(p) /\ (proc'[p] = q \/ proc'[p] = IdleProc)
    BY <2>1 DEF Alone, Typed
  <2> HIDE DEF n
  <2>3. /\ q.pc = "transferWrite" /\ q.op = proc[p].op /\ q.user = proc[p].user
        /\ q.expect = proc[p].expect /\ q.counter = proc[p].counter
    BY <1>0 DEF ProcRecord
  <2> HIDE DEF q
  <2>4. CASE proc'[p] = IdleProc
    BY <2>2, <2>4, SettledProceeds DEF Settled, IdleProc
  <2>5. CASE proc'[p] = q
    <3>1. Role(proc[p])
      BY DEF Decided
    <3>2. Proceeds(p)
      BY <2>1, <2>3, <2>5, <3>1 DEF Proceeds, Role, InDoubt
    <3> QED BY <2>2, <3>2, OneProceeds
  <2> QED BY <2>2, <2>4, <2>5
<1>2. CASE TransferWrite(p)
  <2>1. PICK x : /\ proc' = [proc EXCEPT ![p] = x]
                 /\ x.pc \in Settled
    BY <1>2, AfterTransfer DEF Settled
  <2>2. Alone(p) /\ proc'[p] = x
    BY <2>1 DEF Alone, Typed
  <2> QED BY <2>1, <2>2, SettledProceeds
<1>3. CASE TransferLost(p)
  <2>1. PICK pc \in Settled : Goto(p, pc)
    BY <1>3 DEF TransferLost, Settled
  <2> QED BY <2>1, GotoSettled
<1> QED BY <1>1, <1>2, <1>3 DEF TransferStep

LEMMA SweepProceeds ==
  ASSUME Typed, Decided, NEW s \in Sweepers, SweepStep(s)
  PROVE  AllProceed
<1>0. /\ s \in Procs /\ Knows(s, proc[s]) /\ proc[s] \in ProcRecord
      /\ proc \in [Procs -> ProcRecord]
  BY DEF Procs, Typed, KnowsAll
<1>1. CASE SweepStale(s)
  <2> DEFINE q == [IdleProc EXCEPT !.pc = "free", !.op = "sweep",
                     !.todo = {c \in Counters : holder[c] # None /\ Stale(c)}]
  <2>1. /\ q.pc = "free" /\ q.op = "sweep"
        /\ q.todo = {c \in Counters : holder[c] # None /\ Stale(c)}
    BY DEF IdleProc
  <2>2. proc' = [proc EXCEPT ![s] = q] /\ UNCHANGED <<holder, beat, member>>
    BY <1>1 DEF SweepStale, counterVars, peopleVars
  <2> HIDE DEF q
  <2>3. Alone(s) /\ proc'[s] = q
    BY <1>0, <2>2 DEF Alone
  <2>4. Proceeds(s)
    BY <2>1, <2>2, <2>3 DEF Proceeds, Role, InDoubt, Justified, Stale
  <2> QED BY <1>0, <2>3, <2>4, OneProceeds
<1>2. CASE SweepLook(s)
  <2> DEFINE r == proc[s].req
             c == row[r].counter
             alive == holder[c] # None /\ ~Stale(c)
             pc == IF ~alive /\ row[r].from \in member THEN "transferRead" ELSE "expire"
             q == [proc[s] EXCEPT !.pc = pc, !.counter = c, !.to = row[r].from]
  <2>1. proc' = [proc EXCEPT ![s] = q] /\ UNCHANGED <<holder, beat, member>> /\ proc[s].pc = "look"
    BY <1>2 DEF SweepLook, counterVars, peopleVars
  <2>2. pc \in {"transferRead", "expire"} /\ (pc = "transferRead" => ~alive)
    OBVIOUS
  <2>3. Alone(s) /\ proc'[s] = q
    BY <1>0, <2>1 DEF Alone
  <2> HIDE DEF c, pc
  <2>4. q.pc = pc /\ q.op = proc[s].op /\ q.user = proc[s].user /\ q.counter = c
    BY <1>0 DEF ProcRecord
  <2> HIDE DEF q
  <2>5. proc[s].op = "sweep"
    BY <1>0, <2>1 DEF Knows
  <2>6. Proceeds(s)
    BY <2>1, <2>2, <2>3, <2>4, <2>5 DEF Proceeds, Role, InDoubt, Justified, Stale
  <2> QED BY <1>0, <2>3, <2>6, OneProceeds
<1>3. CASE SweepRequests(s) \/ SweepExpire(s) \/ \E r \in Requests : SweepClaim(s, r)
  <2>1. PICK x : proc' = [proc EXCEPT ![s] = x] /\ x.pc \in {"resolve", "look"}
    <3>1. CASE SweepRequests(s)
      <4> DEFINE x == [proc[s] EXCEPT !.pc = "resolve",
                         !.todo = {r \in Requests : row[r].status = "PENDING" /\ Expired(r)}]
      <4>1. proc' = [proc EXCEPT ![s] = x]
        BY <1>0, <3>1 DEF SweepRequests
      <4>2. x.pc = "resolve"
        BY <1>0 DEF ProcRecord
      <4> QED BY <4>1, <4>2
    <3>2. CASE SweepExpire(s)
      <4> DEFINE x == [proc[s] EXCEPT !.pc = "resolve", !.req = None]
      <4>1. proc' = [proc EXCEPT ![s] = x]
        BY <1>0, <3>2 DEF SweepExpire
      <4>2. x.pc = "resolve"
        BY <1>0 DEF ProcRecord
      <4> QED BY <4>1, <4>2
    <3>3. ASSUME NEW r \in Requests, SweepClaim(s, r)
          PROVE  \E x : proc' = [proc EXCEPT ![s] = x] /\ x.pc \in {"resolve", "look"}
      <4> DEFINE x == [proc[s] EXCEPT !.todo = @ \ {r}, !.pc = "look", !.req = r]
                 y == [proc[s] EXCEPT !.todo = @ \ {r}]
      <4>1. proc' = [proc EXCEPT ![s] = x] \/ proc' = [proc EXCEPT ![s] = y]
        BY <1>0, <3>3 DEF SweepClaim
      <4>2. x.pc = "look" /\ y.pc = "resolve"
        BY <1>0, <3>3 DEF ProcRecord, SweepClaim
      <4> HIDE DEF x, y
      <4> QED BY <4>1, <4>2
    <3> QED BY <1>3, <3>1, <3>2, <3>3
  <2>2. Alone(s) /\ proc'[s] = x
    BY <1>0, <2>1 DEF Alone
  <2> QED BY <1>0, <2>1, <2>2, SettledProceeds DEF Settled
<1>4. CASE SweepDone(s)
  BY <1>0, <1>4, GotoSettled DEF SweepDone, Settled
<1> QED BY <1>0, <1>1, <1>2, <1>3, <1>4, FreeProceeds DEF SweepStep

LEMMA DecidedStep ==
  ASSUME Typed, Typed', Decided, [Next]_vars
  PROVE  Decided'
<1>1. ASSUME NEW h \in Handlers, HandlerStep(h) PROVE AllProceed
  <2>0. h \in Procs
    BY DEF Procs
  <2>1. ASSUME NEW u \in Users, NEW c \in Counters,
               \/ ClaimRead(h, u, c) \/ \E r \in Requests : RequestRead(h, u, c, r)
               \/ ReleaseRead(h, u, c) \/ \E v \in Users : AssignRead(h, u, c, v)
        PROVE  AllProceed
    BY <2>1, ClaimProceeds, OthersBegin
  <2>2. ASSUME NEW u \in Users,
               \/ ReleaseMineRead(h, u)
               \/ \E r \in Requests : ApproveRead(h, u, r) \/ RejectRead(h, u, r)
        PROVE  AllProceed
    BY <2>2, OthersBegin
  <2>3. ASSUME NEW c \in Counters, FreeWrite(h, c) PROVE AllProceed
    BY <2>0, <2>3, FreeProceeds
  <2> QED BY <1>1, <2>1, <2>2, <2>3, HandlerProceeds DEF HandlerStep
<1>2. ASSUME NEW p \in Procs, TransferStep(p) \/ Crash(p) PROVE AllProceed
  BY <1>2, TransferProceeds, GotoSettled DEF Crash, Settled
<1>3. ASSUME NEW s \in Sweepers, SweepStep(s) PROVE AllProceed
  BY <1>3, SweepProceeds
<1>4. ASSUME proc' = proc PROVE AllProceed
  BY <1>4 DEF AllProceed, Proceeds, Decided
<1>5. CASE Next
  BY <1>1, <1>2, <1>3, <1>4, <1>5, GroundsLast, EveryStepObserves DEF Next, CloseOrOpen, JoinOrLeave, Heartbeat, Tick
<1>6. CASE UNCHANGED vars
  BY <1>6 DEF vars, Decided, Justified, Stale
<1> QED BY <1>5, <1>6

LEMMA InitDecided == Init => Decided
BY DEF Init, Decided, Role, InDoubt, IdleProc

\* Who changes the controllers.
LEMMA HolderStep ==
  ASSUME Typed, [Next]_vars
  PROVE  \/ holder' = holder
         \/ \E h \in Handlers :
              ClaimFree(h) \/ ClaimWrite(h) \/ \E c \in Counters : FreeWrite(h, c)
         \/ \E p \in Procs : TransferWrite(p)
         \/ \E s \in Sweepers, c \in Counters : SweepFree(s, c)
<1>1. ASSUME NEW h \in Handlers, HandlerStep(h),
             ~ClaimFree(h), ~ClaimWrite(h), \A c \in Counters : ~FreeWrite(h, c)
      PROVE  holder' = holder
  BY <1>1 DEF HandlerStep, ClaimRead, RequestRead, ReleaseRead, AssignRead, ReleaseMineRead,
     ApproveRead, RejectRead, ClaimLost, FileLook, FileCreate, ApproveMark, RejectWrite, Begin,
     counterVars
<1>2. ASSUME NEW p \in Procs, TransferStep(p) \/ Crash(p), ~TransferWrite(p) PROVE holder' = holder
  BY <1>2 DEF TransferStep, TransferRead, TransferLost, Crash, counterVars
<1>3. ASSUME NEW s \in Sweepers, SweepStep(s), \A c \in Counters : ~SweepFree(s, c)
      PROVE  holder' = holder
  BY <1>3 DEF SweepStep, SweepStale, SweepRequests, SweepClaim, SweepLook, SweepExpire,
     SweepDone, counterVars
<1>4. ASSUME \/ \E u \in Users : CloseOrOpen(u) \/ JoinOrLeave(u) \/ \E c \in Counters : Heartbeat(u, c)
             \/ Tick \/ UNCHANGED vars
      PROVE  holder' = holder
  BY <1>4 DEF CloseOrOpen, JoinOrLeave, Heartbeat, Tick, vars, counterVars
<1> QED BY <1>1, <1>2, <1>3, <1>4 DEF Next

\* A process that frees or takes a counter is done with it, so it is seen to have acted.
LEMMA MovesOn ==
  ASSUME Typed, NEW p \in Procs, NEW c \in Counters,
         ClaimFree(p) \/ TransferWrite(p) \/ FreeWrite(p, c) \/ SweepFree(p, c)
  PROVE  proc'[p] # proc[p]
<1>0. Knows(p, proc[p]) /\ proc[p] \in ProcRecord /\ proc \in [Procs -> ProcRecord]
  BY DEF Typed, KnowsAll
<1>1. CASE ClaimFree(p)
  <2>1. proc[p].pc = "claimFree" /\ proc'[p] = At(proc[p], "claimWrite")
    BY <1>0, <1>1 DEF ClaimFree, Goto
  <2>2. At(proc[p], "claimWrite").pc = "claimWrite"
    BY <1>0, AtFields DEF Places
  <2> QED BY <2>1, <2>2
<1>2. CASE TransferWrite(p)
  <2>1. PICK x : proc' = [proc EXCEPT ![p] = x] /\ x.pc \in {"approveMark", "resolve", "idle"}
    BY <1>2, AfterTransfer
  <2>2. proc'[p] = x /\ proc[p].pc = "transferWrite"
    BY <1>0, <1>2, <2>1 DEF TransferWrite
  <2> QED BY <2>1, <2>2
<1>3. CASE FreeWrite(p, c) \/ SweepFree(p, c)
  <2> DEFINE q == [proc[p] EXCEPT !.todo = @ \ {c}]
  <2>1. /\ proc[p].pc = "free" /\ c \in proc[p].todo
        /\ proc' = [proc EXCEPT ![p] = q] \/ proc' = [proc EXCEPT ![p] = IdleProc]
    BY <1>3 DEF FreeWrite, SweepFree, Typed
  <2>2. q.todo = proc[p].todo \ {c} /\ IdleProc.pc = "idle"
    BY <1>0 DEF ProcRecord, IdleProc
  <2> HIDE DEF q
  <2>3. proc'[p] = q \/ proc'[p] = IdleProc
    BY <1>0, <2>1
  <2>4. c \notin q.todo
    BY <2>2
  <2> QED BY <2>1, <2>2, <2>3, <2>4
<1> QED BY <1>1, <1>2, <1>3

\* Whoever may take a counter in one of these places is entitled to it.
LEMMA EntitledTo ==
  ASSUME Typed, Decided, NEW p \in Procs, NEW c \in Counters, holder[c] # None, ~Stale(c),
         <<p, c>> \notin outdated,
         \/ proc[p].pc = "claimFree" /\ proc[p].counter = c
         \/ proc[p].pc = "free" /\ c \in proc[p].todo
         \/ proc[p].pc = "transferWrite" /\ proc[p].counter = c /\ proc[p].seen = holder[c]
  PROVE  Taking(proc[p], c) /\ Entitled(p, c)
<1>0. Knows(p, proc[p]) /\ Role(proc[p])
  BY DEF Typed, KnowsAll, Decided
<1>1. InDoubt(proc[p], c) => Justified(p, c)
  BY DEF Decided
<1>2. CASE proc[p].pc = "claimFree" /\ proc[p].counter = c
  BY <1>0, <1>1, <1>2 DEF InDoubt, Taking, Justified, Entitled, Knows
<1>3. CASE proc[p].pc = "free" /\ c \in proc[p].todo
  BY <1>0, <1>1, <1>3 DEF InDoubt, Taking, Justified, Entitled, Knows
<1>4. CASE proc[p].pc = "transferWrite" /\ proc[p].counter = c /\ proc[p].seen = holder[c]
  <2>1. proc[p].op # "sweep"
    BY <1>1, <1>4 DEF InDoubt, Justified
  <2>2. proc[p].op \in {"claim", "assign", "approve"} /\ proc[p].expect \in {None, proc[p].seen}
    BY <1>0, <1>4, <2>1 DEF Knows
  <2> QED BY <1>0, <1>4, <2>2 DEF Taking, Role, Entitled
<1> QED BY <1>2, <1>3, <1>4

\* A live controller loses its counter only to somebody entitled to take it, or to a decision
\* made before it was last heard from: whatever a claim, a release, a transfer or a sweep read,
\* the grounds it read last until the counter is renewed.
THEOREM LiveHolder == Spec => LiveHolderKeeps
<1> DEFINE Loses(c) == holder[c] # None /\ holder'[c] # holder[c] /\ ~Stale(c)
           Takes(p, c) ==
             /\ proc'[p] # proc[p]
             /\ \/ <<p, c>> \in outdated
                \/ Taking(proc[p], c) /\ Entitled(p, c)
<1>1. ASSUME Typed, Decided, [Next]_vars, NEW c \in Counters, Loses(c)
      PROVE  \E p \in Procs : Takes(p, c)
  <2>0. /\ holder \in [Counters -> Users \cup {None}] /\ Handlers \cup Sweepers \subseteq Procs
        /\ \A p \in Procs : Knows(p, proc[p])
    BY <1>1 DEF Typed, CountersOK, Procs, KnowsAll
  <2>1. ASSUME NEW h \in Handlers, ClaimFree(h) PROVE Takes(h, c)
    <3>1. proc[h].pc = "claimFree" /\ proc[h].counter = c
      BY <1>1, <2>0, <2>1 DEF ClaimFree, Free
    <3> QED BY <1>1, <2>0, <2>1, <3>1, MovesOn, EntitledTo
  <2>2. ASSUME NEW h \in Handlers, ClaimWrite(h) PROVE FALSE
    BY <1>1, <2>0, <2>2 DEF ClaimWrite, Claimable, Give
  <2>3. ASSUME NEW h \in Procs, NEW d \in Counters, FreeWrite(h, d) \/ SweepFree(h, d)
        PROVE  Takes(h, c)
    <3>1. proc[h].pc = "free" /\ d \in proc[h].todo /\ d = c
      BY <1>1, <2>0, <2>3 DEF FreeWrite, SweepFree, Free
    <3> QED BY <1>1, <2>0, <2>3, <3>1, MovesOn, EntitledTo
  <2>4. ASSUME NEW p \in Procs, TransferWrite(p) PROVE Takes(p, c)
    <3>1. /\ proc[p].pc = "transferWrite" /\ proc[p].counter = c /\ proc[p].seen = holder[c]
      BY <1>1, <2>0, <2>4 DEF TransferWrite, Give
    <3> QED BY <1>1, <2>0, <2>4, <3>1, MovesOn, EntitledTo
  <2>5. holder' # holder
    BY <1>1
  <2> QED BY <1>1, <2>0, <2>1, <2>2, <2>3, <2>4, <2>5, HolderStep
<1>2. Typed /\ Decided /\ [Next]_vars => [\A c \in Counters : Loses(c) => \E p \in Procs : Takes(p, c)]_vars
  BY <1>1
<1>3. Typed /\ Typed' /\ Decided /\ [Next]_vars => Decided'
  BY DecidedStep
<1> QED BY <1>2, <1>3, InitDecided, Correct, PTL DEF Spec, LiveHolderKeeps
==============================================================================
