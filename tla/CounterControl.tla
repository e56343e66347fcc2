---------------------------- MODULE CounterControl ----------------------------
(***************************************************************************)
(* Counter control: which agency account operates a service counter        *)
(* (apps/api/src/lib/counter-control.ts, its routes in routes/agency.ts    *)
(* and the sweeper of workers/counter-control-sweeper.ts).                 *)
(*                                                                         *)
(* Control is a lease.  A client claims a counter and heartbeats; a        *)
(* control without a heartbeat for longer than TTL may be claimed by       *)
(* anyone and is freed by the sweeper.  Somebody else's counter can be     *)
(* requested; the holder answers within Window or the sweeper resolves     *)
(* the request.  Owners and managers need no answer.                       *)
(*                                                                         *)
(* Every statement of the code is a transaction of its own, so a handler   *)
(* acts on what it read earlier: its reads are one step, and each of its   *)
(* writes is another.  Reads in a row that decide one branch, such as the  *)
(* counter and the membership of its controller, are a single step.        *)
(* Time is counted in ages that saturate just past the limit they are      *)
(* compared with: beat is the age of controlHeartbeatAt, row[r].age the    *)
(* time since requestedAt.  A claim checks that its counter is active and  *)
(* in the agency once, at its first read; here that read succeeds.         *)
(* controlClaimedAt changes with the controller, and the legacy mirror      *)
(* columns staffId and occupiedAt decide nothing here: left out.           *)
(***************************************************************************)
EXTENDS Naturals, FiniteSets

CONSTANTS
  Users,        \* accounts that have ever belonged to the agency
  Owners,       \* owner and platform operators: release and assign any counter
  Managers,     \* branch managers: like owners they need no approval
  Counters,     \* active counters
  Requests,     \* ids of takeover requests
  Handlers,     \* HTTP requests that can be in flight at once
  Sweepers,     \* sweep passes that can overlap, one per API process or timer tick
  TTL,          \* CONTROL_TTL_MS, in ticks
  Window,       \* CONTROL_REQUEST_WINDOW_MS, in ticks
  Closers,      \* bound: users whose client may close and come back
  Leavers,      \* bound: staff accounts that may be deactivated and restored
  MaxRequests,  \* bound: HTTP requests begun in a behaviour
  MaxCrashes,   \* bound: processes that die with work in flight
  None

Procs == Handlers \cup Sweepers

ASSUME ControlAssumption ==
  /\ Owners \cup Managers \subseteq Users /\ IsFiniteSet(Requests)
  /\ Handlers \cap Sweepers = {}
  /\ Closers \subseteq Users /\ Leavers \subseteq Users \ Owners
  /\ TTL \in Nat /\ Window \in Nat /\ MaxRequests \in Nat /\ MaxCrashes \in Nat
  /\ None \notin Users \cup Counters \cup Requests

VARIABLES
  holder,    \* Counter.controlledByUserId
  beat,      \* age of Counter.controlHeartbeatAt
  row,       \* CounterControlRequest rows
  member,    \* accounts that are active members of the agency
  open,      \* users whose client is running
  proc,      \* what each handler and sweep pass is about to do
  begun,     \* HTTP requests begun so far
  crashes,   \* processes that have died so far
  granted,   \* history: how often control was handed over for a request
  swept,     \* history: how many of these hand-overs a sweep pass made
  outdated   \* history: decisions of processes on counters claimed or kept alive since

counterVars == <<holder, beat>>
peopleVars == <<member, open>>
history == <<granted, swept>>
vars == <<holder, beat, row, member, open, proc, begun, crashes, granted, swept, outdated>>

\* Accounts that need no approval; a manager is one only while a member.
Bypass == Owners \cup (Managers \cap member)

NoRow == [counter |-> None, from |-> None, status |-> "NONE", age |-> 0, by |-> None]

IdleProc == [pc |-> "idle", op |-> "none", user |-> None, to |-> None, counter |-> None,
             expect |-> None, seen |-> None, req |-> None, todo |-> {}]

\* The heartbeat of c is older than the cutoff.
Stale(c) == beat[c] > TTL
Expired(r) == row[r].age > Window
Older(age, limit) == IF age > limit THEN age ELSE age + 1

\* p goes on at pc; a process that is done forgets everything.
At(q, pc) == IF pc = "idle" THEN IdleProc ELSE [q EXCEPT !.pc = pc]
Goto(p, pc) == proc' = [proc EXCEPT ![p] = At(proc[p], pc)]

\* Mutant of Free: the heartbeat of the previous controller stays.
FreeKeepsBeat(c) ==
  /\ holder' = [holder EXCEPT ![c] = None]
  /\ UNCHANGED beat

Free(c) ==
  /\ holder' = [holder EXCEPT ![c] = None]
  /\ beat' = [beat EXCEPT ![c] = 0]

Give(c, u) ==
  /\ holder' = [holder EXCEPT ![c] = u]
  /\ beat' = [beat EXCEPT ![c] = 0]

\* q has decided on an earlier read to take control of c from whoever has it.
InDoubt(q, c) ==
  \/ q.pc = "free" /\ c \in q.todo
  \/ q.pc = "claimFree" /\ q.counter = c
  \/ q.op = "sweep" /\ q.pc \in {"transferRead", "transferWrite"} /\ q.counter = c

\* c gets a controller, hears from it, or sees it restored.
Renewed(c) ==
  /\ holder'[c] # None
  /\ \/ holder'[c] # holder[c]
     \/ beat'[c] < beat[c]
     \/ holder'[c] \in member' \ member

\* Every step keeps the history of outdated decisions.
Observe ==
  outdated' = {d \in Procs \X Counters :
                 /\ InDoubt(proc[d[1]], d[2]) /\ InDoubt(proc'[d[1]], d[2])
                 /\ d \in outdated \/ Renewed(d[2])}

Begin(h, q) ==
  /\ proc[h].pc = "idle"
  /\ begun < MaxRequests /\ begun' = begun + 1
  /\ proc' = [proc EXCEPT ![h] = q]
  /\ UNCHANGED <<counterVars, row, peopleVars, crashes, history>>
  /\ Observe

Init ==
  /\ holder = [c \in Counters |-> None]
  /\ beat = [c \in Counters |-> 0]
  /\ row = [r \in Requests |-> NoRow]
  /\ member = Users
  /\ open = Users
  /\ proc = [p \in Procs |-> IdleProc]
  /\ begun = 0 /\ crashes = 0
  /\ granted = [r \in Requests |-> 0]
  /\ swept = [r \in Requests |-> 0]
  /\ outdated = {}

-----------------------------------------------------------------------------
(* Claiming, and requesting a counter that is held. *)

\* Where a claim answered COUNTER_CONTROLLED goes: a takeover request is filed, a
\* bypass transfers by force, anybody else is refused.
AfterRefusal(op, u) ==
  IF op = "request" THEN "fileLook"
  ELSE IF u \in Bypass THEN "transferRead" ELSE "idle"

\* Decide on one read of the counter and of its controller's membership.
ClaimDecision(op, u, c) ==
  IF holder[c] \in {None, u} \/ Stale(c) THEN "claimWrite"
  ELSE IF holder[c] \notin member THEN "claimFree"
  ELSE AfterRefusal(op, u)

\* Ids no row has and no handler is about to use.
FreshIds == {r \in Requests : row[r].status = "NONE" /\ \A p \in Procs : proc[p].req # r}

ClaimRead(h, u, c) ==
  /\ u \in open \cap member
  /\ Begin(h, At([IdleProc EXCEPT !.op = "claim", !.user = u, !.to = u, !.counter = c],
                 ClaimDecision("claim", u, c)))

RequestRead(h, u, c, r) ==
  /\ u \in open \cap member /\ r \in FreshIds
  /\ Begin(h, At([IdleProc EXCEPT !.op = "request", !.user = u, !.counter = c, !.req = r],
                 ClaimDecision("request", u, c)))

\* The controller read above is no member any more: free the counter, whoever has it now.
ClaimFree(h) ==
  /\ proc[h].pc = "claimFree"
  /\ Free(proc[h].counter)
  /\ Goto(h, "claimWrite")
  /\ UNCHANGED <<row, peopleVars, begun, crashes, history>>
  /\ Observe

Claimable(c, u) == holder[c] \in {None, u} \/ Stale(c)

\* Mutant of ClaimWrite: the decision of the read is trusted.
ClaimWriteBlind(h) ==
  /\ proc[h].pc = "claimWrite"
  /\ Give(proc[h].counter, proc[h].user)
  /\ Goto(h, "idle")
  /\ UNCHANGED <<row, peopleVars, begun, crashes, history>>
  /\ Observe

\* The conditional update matches: free, mine, or stale.
ClaimWrite(h) ==
  /\ proc[h].pc = "claimWrite"
  /\ Claimable(proc[h].counter, proc[h].user)
  /\ Give(proc[h].counter, proc[h].user)
  /\ Goto(h, "idle")
  /\ UNCHANGED <<row, peopleVars, begun, crashes, history>>
  /\ Observe

\* It does not: another claimant was faster.
ClaimLost(h) ==
  /\ proc[h].pc = "claimWrite"
  /\ ~Claimable(proc[h].counter, proc[h].user)
  /\ Goto(h, AfterRefusal(proc[h].op, proc[h].user))
  /\ UNCHANGED <<counterVars, row, peopleVars, begun, crashes, history>>
  /\ Observe

\* One live PENDING request per counter and requester is reused.
FileLook(h) ==
  /\ proc[h].pc = "fileLook"
  /\ Goto(h, IF \E r \in Requests : /\ row[r].status = "PENDING" /\ ~Expired(r)
                                    /\ row[r].counter = proc[h].counter
                                    /\ row[r].from = proc[h].user
               THEN "idle" ELSE "fileCreate")
  /\ UNCHANGED <<counterVars, row, peopleVars, begun, crashes, history>>
  /\ Observe

FileCreate(h) ==
  /\ proc[h].pc = "fileCreate"
  /\ row' = [row EXCEPT ![proc[h].req] =
               [NoRow EXCEPT !.counter = proc[h].counter, !.from = proc[h].user,
                             !.status = "PENDING"]]
  /\ Goto(h, "idle")
  /\ UNCHANGED <<counterVars, peopleVars, begun, crashes, history>>
  /\ Observe

\* A heartbeat of the controller; from anybody else it is answered COUNTER_CONTROL_LOST.
Heartbeat(u, c) ==
  /\ u \in open \cap member /\ holder[c] = u /\ beat[c] > 0
  /\ beat' = [beat EXCEPT ![c] = 0]
  /\ UNCHANGED <<holder, row, peopleVars, proc, begun, crashes, history>>
  /\ Observe

-----------------------------------------------------------------------------
(* Releasing. *)

\* By the controller, by anybody if nobody controls, by force for an owner.
ReleaseRead(h, u, c) ==
  /\ u \in open \cap member
  /\ holder[c] \in {None, u} \/ u \in Owners
  /\ Begin(h, [IdleProc EXCEPT !.pc = "free", !.op = "release", !.user = u, !.todo = {c}])

\* Logout and page close release everything the account holds.
ReleaseMineRead(h, u) ==
  LET mine == {c \in Counters : holder[c] = u} IN
    /\ u \in open /\ mine # {}
    /\ Begin(h, [IdleProc EXCEPT !.pc = "free", !.op = "releaseMine", !.user = u, !.todo = mine])

\* The controller is not looked at again.
FreeWrite(h, c) ==
  /\ proc[h].pc = "free" /\ proc[h].op # "sweep" /\ c \in proc[h].todo
  /\ Free(c)
  /\ proc' = [proc EXCEPT ![h] = IF proc[h].todo = {c} THEN IdleProc
                                 ELSE [proc[h] EXCEPT !.todo = @ \ {c}]]
  /\ UNCHANGED <<row, peopleVars, begun, crashes, history>>
  /\ Observe

-----------------------------------------------------------------------------
(* Transfers: forced claims, assignments, approved requests and swept requests. *)

AssignRead(h, u, c, v) ==
  /\ u \in open \cap Owners /\ v \in member
  /\ Begin(h, [IdleProc EXCEPT !.pc = "transferRead", !.op = "assign", !.user = u, !.to = v,
                               !.counter = c])

\* Only the controller, or a bypass, answers a PENDING request.
MayAnswer(u, r) ==
  /\ u \in open \cap member /\ row[r].status = "PENDING"
  /\ holder[row[r].counter] = u \/ u \in Bypass

ApproveRead(h, u, r) ==
  /\ MayAnswer(u, r)
  /\ Begin(h, [IdleProc EXCEPT !.pc = "transferRead", !.op = "approve", !.user = u, !.req = r,
                 !.to = row[r].from, !.counter = row[r].counter,
                 !.expect = IF holder[row[r].counter] = u THEN u ELSE None])

\* Read the controller; an approval is void once its approver lost control.
TransferRead(p) ==
  LET now == holder[proc[p].counter] IN
    /\ proc[p].pc = "transferRead"
    /\ proc' = [proc EXCEPT ![p] = IF proc[p].expect \notin {None, now} THEN IdleProc
                                   ELSE [proc[p] EXCEPT !.pc = "transferWrite", !.seen = now]]
    /\ UNCHANGED <<counterVars, row, peopleVars, begun, crashes, history>>
    /\ Observe

\* The conditional update matches: control is still where it was read.
TransferWrite(p) ==
  /\ proc[p].pc = "transferWrite"
  /\ holder[proc[p].counter] = proc[p].seen
  /\ Give(proc[p].counter, proc[p].to)
  /\ granted' = IF proc[p].req = None THEN granted ELSE [granted EXCEPT ![proc[p].req] = @ + 1]
  /\ swept' = IF proc[p].op = "sweep" THEN [swept EXCEPT ![proc[p].req] = @ + 1] ELSE swept
  /\ proc' = [proc EXCEPT ![p] =
                CASE proc[p].op = "approve" -> At(proc[p], "approveMark")
                  [] proc[p].op = "sweep"   -> [At(proc[p], "resolve") EXCEPT !.req = None]
                  [] OTHER                  -> IdleProc]
  /\ UNCHANGED <<row, peopleVars, begun, crashes>>
  /\ Observe

TransferLost(p) ==
  /\ proc[p].pc = "transferWrite"
  /\ holder[proc[p].counter] # proc[p].seen
  /\ Goto(p, IF proc[p].op = "sweep" THEN "expire" ELSE "idle")
  /\ UNCHANGED <<counterVars, row, peopleVars, begun, crashes, history>>
  /\ Observe

\* The approved request is marked by its id alone.
ApproveMark(h) ==
  /\ proc[h].pc = "approveMark"
  /\ row' = [row EXCEPT ![proc[h].req].status = "APPROVED", ![proc[h].req].by = proc[h].user]
  /\ Goto(h, "idle")
  /\ UNCHANGED <<counterVars, peopleVars, begun, crashes, history>>
  /\ Observe

RejectRead(h, u, r) ==
  /\ MayAnswer(u, r)
  /\ Begin(h, [IdleProc EXCEPT !.pc = "reject", !.op = "reject", !.user = u, !.req = r])

RejectWrite(h) ==
  /\ proc[h].pc = "reject"
  /\ row' = IF row[proc[h].req].status # "PENDING" THEN row
            ELSE [row EXCEPT ![proc[h].req].status = "REJECTED", ![proc[h].req].by = proc[h].user]
  /\ Goto(h, "idle")
  /\ UNCHANGED <<counterVars, peopleVars, begun, crashes, history>>
  /\ Observe

-----------------------------------------------------------------------------
(* The sweeper: free stale controls, then resolve requests nobody answered. *)

\* A new pass begins while an earlier one may still be running.
SweepStale(s) ==
  /\ proc[s].pc = "idle"
  /\ proc' = [proc EXCEPT ![s] = [IdleProc EXCEPT !.pc = "free", !.op = "sweep",
                !.todo = {c \in Counters : holder[c] # None /\ Stale(c)}]]
  /\ UNCHANGED <<counterVars, row, peopleVars, begun, crashes, history>>
  /\ Observe

\* Mutant of SweepFree: the freed counter is dropped from the list but not freed.
SweepFreeNothing(s, c) ==
  /\ proc[s].pc = "free" /\ proc[s].op = "sweep" /\ c \in proc[s].todo
  /\ proc' = [proc EXCEPT ![s].todo = @ \ {c}]
  /\ UNCHANGED <<counterVars, row, peopleVars, begun, crashes, history>>
  /\ Observe

\* Freed by id: a heartbeat or a claim since the read does not help.
SweepFree(s, c) ==
  /\ proc[s].pc = "free" /\ proc[s].op = "sweep" /\ c \in proc[s].todo
  /\ Free(c)
  /\ proc' = [proc EXCEPT ![s].todo = @ \ {c}]
  /\ UNCHANGED <<row, peopleVars, begun, crashes, history>>
  /\ Observe

\* Mutant of SweepRequests: only requests for a counter nobody holds are looked at.
SweepRequestsOfFree(s) ==
  /\ proc[s].pc = "free" /\ proc[s].op = "sweep" /\ proc[s].todo = {}
  /\ proc' = [proc EXCEPT ![s].pc = "resolve",
                ![s].todo = {r \in Requests : /\ row[r].status = "PENDING" /\ Expired(r)
                                              /\ holder[row[r].counter] = None}]
  /\ UNCHANGED <<counterVars, row, peopleVars, begun, crashes, history>>
  /\ Observe

\* Then the PENDING requests past their window are read.
SweepRequests(s) ==
  /\ proc[s].pc = "free" /\ proc[s].op = "sweep" /\ proc[s].todo = {}
  /\ proc' = [proc EXCEPT ![s].pc = "resolve",
                          ![s].todo = {r \in Requests : row[r].status = "PENDING" /\ Expired(r)}]
  /\ UNCHANGED <<counterVars, row, peopleVars, begun, crashes, history>>
  /\ Observe

\* Mutant of SweepClaim: the row is marked without asking whether it is PENDING.
SweepClaimAny(s, r) ==
  /\ proc[s].pc = "resolve" /\ r \in proc[s].todo
  /\ row' = [row EXCEPT ![r].status = "APPROVED"]
  /\ proc' = [proc EXCEPT ![s].todo = @ \ {r}, ![s].pc = "look", ![s].req = r]
  /\ UNCHANGED <<counterVars, peopleVars, begun, crashes, history>>
  /\ Observe

\* Take the row; one that is not PENDING any more belongs to somebody else.
SweepClaim(s, r) ==
  /\ proc[s].pc = "resolve" /\ r \in proc[s].todo
  /\ IF row[r].status = "PENDING"
       THEN /\ row' = [row EXCEPT ![r].status = "APPROVED"]
            /\ proc' = [proc EXCEPT ![s].todo = @ \ {r}, ![s].pc = "look", ![s].req = r]
       ELSE /\ proc' = [proc EXCEPT ![s].todo = @ \ {r}]
            /\ UNCHANGED row
  /\ UNCHANGED <<counterVars, peopleVars, begun, crashes, history>>
  /\ Observe

\* Is the holder gone, and the requester still a member?
SweepLook(s) ==
  LET r == proc[s].req
      c == row[r].counter
      alive == holder[c] # None /\ ~Stale(c)
  IN /\ proc[s].pc = "look"
     /\ proc' = [proc EXCEPT ![s] =
                   [proc[s] EXCEPT !.pc = IF ~alive /\ row[r].from \in member
                                            THEN "transferRead" ELSE "expire",
                                   !.counter = c, !.to = row[r].from]]
     /\ UNCHANGED <<counterVars, row, peopleVars, begun, crashes, history>>
     /\ Observe

\* Mutant of SweepExpire: the request nobody took over stays APPROVED.
SweepExpireForgotten(s) ==
  /\ proc[s].pc = "expire"
  /\ proc' = [proc EXCEPT ![s].pc = "resolve", ![s].req = None]
  /\ UNCHANGED <<counterVars, row, peopleVars, begun, crashes, history>>
  /\ Observe

SweepExpire(s) ==
  LET r == proc[s].req IN
    /\ proc[s].pc = "expire"
    /\ row' = IF row[r].status = "APPROVED" /\ row[r].by = None
                THEN [row EXCEPT ![r].status = "EXPIRED"] ELSE row
    /\ proc' = [proc EXCEPT ![s].pc = "resolve", ![s].req = None]
    /\ UNCHANGED <<counterVars, peopleVars, begun, crashes, history>>
    /\ Observe

SweepDone(s) ==
  /\ proc[s].pc = "resolve" /\ proc[s].todo = {}
  /\ Goto(s, "idle")
  /\ UNCHANGED <<counterVars, row, peopleVars, begun, crashes, history>>
  /\ Observe

-----------------------------------------------------------------------------
(* The environment. *)

\* A process dies, or a statement fails, with work in flight.
Crash(p) ==
  /\ proc[p].pc # "idle"
  /\ crashes < MaxCrashes /\ crashes' = crashes + 1
  /\ Goto(p, "idle")
  /\ UNCHANGED <<counterVars, row, peopleVars, begun, history>>
  /\ Observe

\* A client is closed, or crashes, without a word; or comes back.
CloseOrOpen(u) ==
  /\ u \in Closers
  /\ open' = IF u \in open THEN open \ {u} ELSE open \cup {u}
  /\ UNCHANGED <<counterVars, row, member, proc, begun, crashes, history>>
  /\ Observe

\* A staff account is deactivated or restored.
JoinOrLeave(u) ==
  /\ u \in Leavers
  /\ member' = IF u \in member THEN member \ {u} ELSE member \cup {u}
  /\ UNCHANGED <<counterVars, row, open, proc, begun, crashes, history>>
  /\ Observe

Tick ==
  /\ beat' = [c \in Counters |-> IF holder[c] = None THEN beat[c] ELSE Older(beat[c], TTL)]
  /\ row' = [r \in Requests |-> IF row[r].status # "PENDING" THEN row[r]
                                ELSE [row[r] EXCEPT !.age = Older(@, Window)]]
  /\ <<beat', row'>> # <<beat, row>>
  /\ UNCHANGED <<holder, peopleVars, proc, begun, crashes, history>>
  /\ Observe

-----------------------------------------------------------------------------
HandlerStep(h) ==
  \/ \E u \in Users, c \in Counters :
       \/ ClaimRead(h, u, c)
       \/ \E r \in Requests : RequestRead(h, u, c, r)
       \/ ReleaseRead(h, u, c)
       \/ \E v \in Users : AssignRead(h, u, c, v)
  \/ \E u \in Users : ReleaseMineRead(h, u)
  \/ \E u \in Users, r \in Requests : ApproveRead(h, u, r) \/ RejectRead(h, u, r)
  \/ ClaimFree(h) \/ ClaimWrite(h) \/ ClaimLost(h)
  \/ FileLook(h) \/ FileCreate(h)
  \/ \E c \in Counters : FreeWrite(h, c)
  \/ ApproveMark(h) \/ RejectWrite(h)

TransferStep(p) == TransferRead(p) \/ TransferWrite(p) \/ TransferLost(p)

SweepStep(s) ==
  \/ SweepStale(s) \/ \E c \in Counters : SweepFree(s, c)
  \/ SweepRequests(s) \/ \E r \in Requests : SweepClaim(s, r)
  \/ SweepLook(s) \/ SweepExpire(s) \/ SweepDone(s)

Next ==
  \/ \E h \in Handlers : HandlerStep(h)
  \/ \E p \in Procs : TransferStep(p) \/ Crash(p)
  \/ \E s \in Sweepers : SweepStep(s)
  \/ \E u \in Users : CloseOrOpen(u) \/ JoinOrLeave(u) \/ \E c \in Counters : Heartbeat(u, c)
  \/ Tick

\* Time passes and the interval timer keeps the sweeper going; users owe nothing.
Fairness ==
  /\ WF_vars(Tick)
  /\ \A s \in Sweepers : WF_vars(SweepStep(s) \/ TransferStep(s))

Spec == Init /\ [][Next]_vars
FairSpec == Spec /\ Fairness
-----------------------------------------------------------------------------
(* Properties. *)

RowStatus == {"NONE", "PENDING", "APPROVED", "REJECTED", "EXPIRED"}
RequestRow ==
  [counter : Counters \cup {None}, from : Users \cup {None}, status : RowStatus,
   age : 0 .. Window + 1, by : Users \cup {None}]

ProcRecord ==
  [pc : {"idle", "claimFree", "claimWrite", "fileLook", "fileCreate", "free", "transferRead",
         "transferWrite", "approveMark", "reject", "resolve", "look", "expire"},
   op : {"none", "claim", "request", "release", "releaseMine", "assign", "approve", "reject",
         "sweep"},
   user : Users \cup {None}, to : Users \cup {None}, counter : Counters \cup {None},
   expect : Users \cup {None}, seen : Users \cup {None}, req : Requests \cup {None},
   todo : SUBSET (Counters \cup Requests)]

\* Every variable has its type, and a counter without a controller has no heartbeat.
TypeOK ==
  /\ holder \in [Counters -> Users \cup {None}]
  /\ beat \in [Counters -> 0 .. TTL + 1]
  /\ row \in [Requests -> RequestRow]
  /\ member \subseteq Users /\ open \subseteq Users
  /\ proc \in [Procs -> ProcRecord]
  /\ begun \in 0 .. MaxRequests /\ crashes \in 0 .. MaxCrashes
  /\ granted \in [Requests -> Nat] /\ swept \in [Requests -> Nat]
  /\ \A c \in Counters : holder[c] = None => beat[c] = 0
  /\ outdated \subseteq Procs \X Counters

\* q is about to take control of c, a transfer from the controller it has read.
Taking(q, c) ==
  InDoubt(q, c) \/ (q.pc = "transferWrite" /\ q.counter = c /\ q.seen = holder[c])

\* p may take control of c: by an owner's order or an owner's or manager's claim, assignment
\* or approval; by the word of the controller, which gives it up or approves; or because the
\* controller has left the agency.
Entitled(p, c) ==
  /\ proc[p].op = "approve" => proc[p].expect \in {None, holder[c]}
  /\ \/ proc[p].user \in Owners \cup {holder[c]}
     \/ proc[p].user \in Managers /\ proc[p].pc = "transferWrite"
     \/ proc[p].pc = "claimFree" /\ holder[c] \notin member

\* "A live holder (fresh heartbeat) keeps control": a controller whose heartbeat is fresh loses
\* its counter, to another account or to nobody, only to somebody entitled to take it, or to
\* a sweep, a release or a claim that has decided before that controller claimed the counter
\* or gave its last sign of life.
LiveHolderKeeps ==
  [][\A c \in Counters :
       holder[c] # None /\ holder'[c] # holder[c] /\ ~Stale(c) =>
         \E p \in Procs :
           /\ proc'[p] # proc[p]
           /\ \/ <<p, c>> \in outdated
              \/ Taking(proc[p], c) /\ Entitled(p, c)]_vars

\* "Only ONE sweeper pass may resolve a request": passes that overlap never hand the
\* counter over twice for the same request.
SweptOnce == \A r \in Requests : swept[r] <= 1

\* Unless a process died half-way, a request that reads APPROVED and that no sweep pass is
\* still working on did hand its counter over.
ApprovedMeansGranted ==
  crashes = 0 =>
    \A r \in Requests : row[r].status = "APPROVED" =>
      granted[r] > 0 \/ \E s \in Sweepers : proc[s].req = r

\* Control never outlives the session: a counter whose controller closed its client, and
\* does not come back, is freed or taken over.
OrphanFreed ==
  \A c \in Counters, u \in Users :
    (holder[c] = u /\ u \notin open) ~> (holder[c] # u \/ u \in open)

\* A request nobody answers is resolved by the sweeper.
RequestResolved == \A r \in Requests : row[r].status = "PENDING" ~> row[r].status # "PENDING"
==============================================================================
