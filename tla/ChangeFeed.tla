------------------------------ MODULE ChangeFeed ------------------------------
(***************************************************************************)
(* The change feed of the cloud and a desktop that follows it.             *)
(*                                                                         *)
(* A write of a synced record is followed by a numbered row of the feed:   *)
(* a push takes the number inside its transaction (recordSyncChange), any  *)
(* other write is captured after its commit (_processSyncEvent).  The      *)
(* desktop pulls the rows after its cursor page by page                    *)
(* (getChangesSinceCursor, _pullFromCloud), applies each page in one       *)
(* transaction (_applyPullChanges), puts aside what its foreign keys       *)
(* refuse, and retries that after the pull (_retryDeferredChanges).        *)
(*                                                                         *)
(* A record is the number of its writes; 0 is no record.  A page carries   *)
(* the records as they are when it is answered, but for those whose lookup *)
(* failed: the page is answered without them, and its cursor is past them. *)
(* Not modelled: deletions and tombstones, edits of the desktop itself     *)
(* (Outbox), the pruning of the feed, other agencies (their changes only   *)
(* leave gaps).                                                            *)
(***************************************************************************)
EXTENDS Naturals, FiniteSets, FiniteSetsExt

CONSTANTS
  Records,
  Parent,       \* [Records -> Records \cup {None}], the record a foreign key refers to
  Stamped,      \* the records whose model has updatedAt
  Limit,        \* rows of a page
  MaxNumber,    \* bound: numbers taken
  MaxFull,      \* bound: full pulls
  MaxFaults,    \* bound: pulls cut short, lookups failed, captures lost, transactions rolled back
  None

ASSUME FeedAssumption ==
  /\ Parent \in [Records -> Records \cup {None}]
  /\ \A r \in Records : Parent[r] # None => Parent[Parent[r]] = None
  /\ Stamped \subseteq Records
  /\ Limit \in Nat \ {0}
  /\ MaxNumber \in Nat /\ MaxFull \in Nat /\ MaxFaults \in Nat
  /\ None \notin Records /\ None \notin Nat

VARIABLES
  cloud,       \* the records of the cloud
  next,        \* sync_change_seq
  feed,        \* committed rows by number: the record and its value then
  open,        \* the number an open push of the record has taken, 0 for none
  uncaptured,  \* records written and not captured yet; bound: one write of each
  copy,        \* the records of the desktop
  cursor,      \* lastPulledSequence
  pages,       \* _sync_applied_mutations: pages applied
  deferred,    \* _deferred_changes, PENDING: payload and page
  quarantined, \* _deferred_changes, QUARANTINED: records
  pull,        \* the pull in flight
  full, faults,
  seen,        \* history: the highest number the desktop has been served
  late,        \* history: numbers committed after it was served a higher one
  lost,        \* history: records whose capture was lost and that have no newer row since
  withheld     \* history: records missing from the last page applied that had a row of them

cloudside == <<cloud, next, feed, open, uncaptured, late, lost>>
desktop == <<copy, cursor, pages, deferred, quarantined, pull, seen, withheld>>
vars == <<cloud, next, feed, open, uncaptured, copy, cursor, pages, deferred, quarantined, pull,
          full, faults, seen, late, lost, withheld>>

Numbers == 1 .. MaxNumber
NoPage == [pc |-> "idle", since |-> 0, last |-> 0, more |-> FALSE, records |-> {},
           payload |-> [r \in Records |-> 0]]
Nothing == [value |-> 0, page |-> 0]

Init ==
  /\ cloud = [r \in Records |-> 0]
  /\ next = 1
  /\ feed = [n \in {} |-> Nothing]
  /\ open = [r \in Records |-> 0] /\ uncaptured = {}
  /\ copy = [r \in Records |-> 0]
  /\ cursor = 0 /\ pages = {} /\ quarantined = {}
  /\ deferred = [r \in Records |-> Nothing]
  /\ pull = NoPage
  /\ full = 0 /\ faults = 0 /\ seen = 0 /\ late = {} /\ lost = {} /\ withheld = {}

-----------------------------------------------------------------------------
(* The cloud. *)

\* The parent of a new record is there, no open transaction has written the record, and the
\* bound leaves a number for every write.
Writable(r) ==
  /\ Parent[r] # None => cloud[Parent[r]] > 0
  /\ open[r] = 0
  /\ next + Cardinality(uncaptured) <= MaxNumber

\* Row n of the feed, about r, becomes visible.
Emit(n, r) ==
  /\ feed' = [k \in DOMAIN feed \cup {n} |->
                IF k = n THEN [record |-> r, value |-> cloud'[r]] ELSE feed[k]]
  /\ late' = IF n < seen THEN late \cup {n} ELSE late
  /\ lost' = lost \ {r}

\* processPushMutation: the record is written and the number taken; neither is visible yet.
TakeNumber(r) ==
  /\ Writable(r)
  /\ open' = [open EXCEPT ![r] = next]
  /\ next' = next + 1
  /\ UNCHANGED <<cloud, feed, uncaptured, late, lost, desktop, full, faults>>

\* Both commit.
Commit(r) ==
  /\ open[r] > 0
  /\ cloud' = [cloud EXCEPT ![r] = @ + 1]
  /\ Emit(open[r], r)
  /\ open' = [open EXCEPT ![r] = 0]
  /\ UNCHANGED <<next, uncaptured, desktop, full, faults>>

\* The transaction rolls back; its number is a gap.
Abort(r) ==
  /\ open[r] > 0 /\ faults < MaxFaults /\ faults' = faults + 1
  /\ open' = [open EXCEPT ![r] = 0]
  /\ UNCHANGED <<cloud, next, feed, uncaptured, late, lost, desktop, full>>

\* Any other write commits on its own.
Write(r) ==
  /\ Writable(r) /\ r \notin uncaptured
  /\ cloud' = [cloud EXCEPT ![r] = @ + 1]
  /\ uncaptured' = uncaptured \cup {r}
  /\ UNCHANGED <<next, feed, open, late, lost, desktop, full, faults>>

\* Mutant of Capture: the row takes the current number (currval).
CaptureCurrent(r) ==
  /\ r \in uncaptured
  /\ UNCHANGED cloud
  /\ Emit(next - 1, r)
  /\ uncaptured' = uncaptured \ {r}
  /\ UNCHANGED <<next, open, desktop, full, faults>>

\* recordChangeAuto: the number is taken and committed by one statement.
Capture(r) ==
  /\ r \in uncaptured
  /\ UNCHANGED cloud
  /\ Emit(next, r)
  /\ next' = next + 1
  /\ uncaptured' = uncaptured \ {r}
  /\ UNCHANGED <<open, desktop, full, faults>>

\* The cloud dies between the write and its capture, or the capture fails.
CaptureLost(r) ==
  /\ r \in uncaptured /\ faults < MaxFaults /\ faults' = faults + 1
  /\ uncaptured' = uncaptured \ {r} /\ lost' = lost \cup {r}
  /\ UNCHANGED <<cloud, next, feed, open, late, desktop, full>>

-----------------------------------------------------------------------------
(* The desktop. *)

\* An incremental pull goes on from the cursor, a full one starts at 0.
Begin(since) ==
  /\ pull.pc = "idle"
  /\ pull' = [NoPage EXCEPT !.pc = "ask", !.since = since]
  /\ UNCHANGED <<cloudside, copy, cursor, pages, deferred, quarantined, faults, seen, withheld>>
PullFromCursor == Begin(cursor) /\ UNCHANGED full
PullFromZero == Begin(0) /\ full < MaxFull /\ full' = full + 1

\* The first Limit rows after n.
Page(n) == {k \in DOMAIN feed : k > n /\ Cardinality({j \in DOMAIN feed : n < j /\ j < k}) < Limit}

\* Mutant of ReadRows: the page ends at the highest number of the feed.
ReadRowsToEnd ==
  LET page == Page(pull.since) IN
    /\ pull.pc = "ask"
    /\ pull' = [pull EXCEPT
         !.pc = "fetch",
         !.records = {feed[k].record : k \in page},
         !.last = Max(DOMAIN feed \cup {pull.since}),
         !.more = \E k \in DOMAIN feed : k > pull.since /\ k \notin page]
    /\ seen' = Max({seen, pull'.last})
    /\ UNCHANGED <<cloudside, copy, cursor, pages, deferred, quarantined, full, faults, withheld>>

\* getChangesSinceCursor: the rows of the page, and the number of the last of them.
ReadRows ==
  LET page == Page(pull.since) IN
    /\ pull.pc = "ask"
    /\ pull' = [pull EXCEPT
         !.pc = "fetch",
         !.records = {feed[k].record : k \in page},
         !.last = Max(page \cup {pull.since}),
         !.more = \E k \in DOMAIN feed : k > pull.since /\ k \notin page]
    /\ seen' = Max({seen, pull'.last})
    /\ UNCHANGED <<cloudside, copy, cursor, pages, deferred, quarantined, full, faults, withheld>>

\* The page goes out with the records R, as they are by now.
Serve(R) ==
  /\ pull.pc = "fetch"
  /\ pull' = [pull EXCEPT !.pc = "apply",
                          !.payload = [r \in Records |-> IF r \in R THEN cloud[r] ELSE 0]]
  /\ UNCHANGED <<cloudside, copy, cursor, pages, deferred, quarantined, full, seen, withheld>>

Fetch == Serve(pull.records) /\ UNCHANGED faults

\* The lookup of a model's records fails, which is only logged: the page goes out without them.
FetchFails ==
  /\ faults < MaxFaults /\ faults' = faults + 1
  /\ \E R \in SUBSET pull.records : R # pull.records /\ Serve(R)

PageKey == <<pull.since, pull.last>>

\* _isPullPageApplied
SkipPage ==
  /\ pull.pc = "apply" /\ PageKey \in pages
  /\ pull' = [pull EXCEPT !.pc = "advance", !.records = {}, !.payload = NoPage.payload]
  /\ UNCHANGED <<cloudside, copy, cursor, pages, deferred, quarantined, full, faults, seen,
                 withheld>>

\* Mutant of Newer: the copy is not compared.
NewerAny(r, value) == value

\* Last write wins by updatedAt; a model without one takes whatever comes.
Newer(r, value) == IF r \in Stamped THEN Max({copy[r], value}) ELSE value

\* The foreign key of a new record refers to none, given the records R to be written too.
Orphan(r, R) == Parent[r] # None /\ copy[r] = 0 /\ copy[Parent[r]] = 0 /\ Parent[r] \notin R

\* The records that came with the page, and those of them that are refused: parents are
\* written first.
Arrived == {r \in pull.records : pull.payload[r] > 0}
Refused == {r \in Arrived : Orphan(r, {p \in Arrived : ~Orphan(p, {})})}

\* One transaction writes what it can and puts the rest aside.
ApplyPage ==
  /\ pull.pc = "apply" /\ PageKey \notin pages
  /\ copy' = [r \in Records |->
       IF r \in Arrived \ Refused THEN Newer(r, pull.payload[r]) ELSE copy[r]]
  /\ deferred' = [r \in Records |->
       IF r \in Refused
         THEN [value |-> pull.payload[r], page |-> pull.last]
         ELSE deferred[r]]
  /\ pull' = [pull EXCEPT !.pc = IF Refused = {} THEN "mark" ELSE "advance",
                          !.records = {}, !.payload = NoPage.payload]
  /\ withheld' = (withheld \cup pull.records) \ Arrived
  /\ UNCHANGED <<cloudside, cursor, pages, quarantined, full, faults, seen>>

\* _markPullPageApplied, unless something was put aside.  The key of an empty page, which only
\* an empty page meets again, is left out.
MarkPage ==
  /\ pull.pc = "mark"
  /\ pages' = IF pull.last > pull.since THEN pages \cup {PageKey} ELSE pages
  /\ pull' = [pull EXCEPT !.pc = "advance"]
  /\ UNCHANGED <<cloudside, copy, cursor, deferred, quarantined, full, faults, seen, withheld>>

\* _setCursor; the next page follows.
Advance ==
  /\ pull.pc = "advance"
  /\ cursor' = pull.last
  /\ pull' = IF pull.more THEN [NoPage EXCEPT !.pc = "ask", !.since = pull.last]
                          ELSE NoPage
  /\ UNCHANGED <<cloudside, copy, pages, deferred, quarantined, full, faults, seen, withheld>>

\* The desktop dies or the network fails.
Cut ==
  /\ pull.pc # "idle" /\ faults < MaxFaults /\ faults' = faults + 1
  /\ pull' = NoPage
  /\ UNCHANGED <<cloudside, copy, cursor, pages, deferred, quarantined, full, seen, withheld>>

\* Mutant of RetryDeferred: the row is removed whether or not it could be written.
RetryDeferredDrops(r) ==
  /\ pull.pc = "idle" /\ deferred[r].value > 0
  /\ copy' = IF Orphan(r, {}) THEN copy ELSE [copy EXCEPT ![r] = Newer(r, deferred[r].value)]
  /\ deferred' = [deferred EXCEPT ![r] = Nothing]
  /\ UNCHANGED <<cloudside, cursor, pages, quarantined, pull, full, faults, seen, withheld>>

\* A change put aside is tried again between pulls: it is written and forgotten,
RetryDeferred(r) ==
  /\ pull.pc = "idle" /\ deferred[r].value > 0 /\ ~Orphan(r, {})
  /\ copy' = [copy EXCEPT ![r] = Newer(r, deferred[r].value)]
  /\ deferred' = [deferred EXCEPT ![r] = Nothing]
  /\ UNCHANGED <<cloudside, cursor, pages, quarantined, pull, full, faults, seen, withheld>>

\* or, from the fifth refusal on, the last number of its page is to be pulled again: the mark
\* of having done so is overwritten by the next refusal (refusals are not counted),
UnStrand(r) ==
  /\ pull.pc = "idle" /\ deferred[r].value > 0 /\ Orphan(r, {})
  /\ pages' = {p \in pages : p[2] # deferred[r].page}
  /\ cursor' = IF cursor >= deferred[r].page THEN deferred[r].page - 1 ELSE cursor
  /\ UNCHANGED <<cloudside, copy, deferred, quarantined, pull, full, faults, seen, withheld>>

\* or, at the twentieth, it is given up.
Quarantine(r) ==
  /\ pull.pc = "idle" /\ deferred[r].value > 0 /\ Orphan(r, {})
  /\ quarantined' = quarantined \cup {r}
  /\ deferred' = [deferred EXCEPT ![r] = Nothing]
  /\ UNCHANGED <<cloudside, copy, cursor, pages, pull, full, faults, seen, withheld>>

-----------------------------------------------------------------------------
PullStep ==
  \/ ReadRows \/ Fetch \/ SkipPage \/ ApplyPage \/ MarkPage \/ Advance

Next ==
  \/ \E r \in Records :
       \/ TakeNumber(r) \/ Commit(r) \/ Abort(r)
       \/ Write(r) \/ Capture(r) \/ CaptureLost(r)
  \/ PullFromCursor \/ PullFromZero \/ PullStep \/ FetchFails \/ Cut
  \/ \E r \in Records : RetryDeferred(r) \/ UnStrand(r) \/ Quarantine(r)

\* The cycle pulls and retries; transactions end and captures run.
Fairness ==
  /\ \A r \in Records : WF_vars(Commit(r)) /\ WF_vars(Capture(r))
  /\ SF_vars(PullFromCursor) /\ WF_vars(PullStep)
  /\ \A r \in Records : SF_vars(RetryDeferred(r))

Spec == Init /\ [][Next]_vars
FairSpec == Spec /\ Fairness
-----------------------------------------------------------------------------
(* Properties. *)

\* Every variable has its type, and the number of an open push is not in the feed.
TypeOK ==
  /\ cloud \in [Records -> Nat] /\ copy \in [Records -> Nat]
  /\ next \in 1 .. MaxNumber + 1 /\ cursor \in Nat /\ seen \in Nat
  /\ DOMAIN feed \subseteq 1 .. next - 1
  /\ \A n \in DOMAIN feed : feed[n] \in [record : Records, value : Nat]
  /\ open \in [Records -> 0 .. MaxNumber] /\ uncaptured \subseteq Records
  /\ \A r \in Records : open[r] \notin DOMAIN feed
  /\ pages \subseteq Nat \X Nat /\ quarantined \subseteq Records
  /\ deferred \in [Records -> [value : Nat, page : Nat]]
  /\ pull.pc \in {"idle", "ask", "fetch", "apply", "mark", "advance"}
  /\ pull.since \in Nat /\ pull.last \in Nat /\ pull.more \in BOOLEAN
  /\ pull.records \subseteq Records /\ pull.payload \in [Records -> Nat]
  /\ full \in 0 .. MaxFull /\ faults \in 0 .. MaxFaults
  /\ late \subseteq Nat /\ lost \subseteq Records /\ withheld \subseteq Records

\* Row n of the feed has been dealt with.
AccountedFor(n) ==
  LET r == feed[n].record IN
    copy[r] >= feed[n].value \/ deferred[r].value >= feed[n].value \/ r \in quarantined

\* The only changes of a stamped model that the cursor passes over are those whose number was
\* committed after a higher one had been served, and those of a record whose lookup failed,
\* until a page brings that record again.
MissedOnlyIfLateOrWithheld ==
  \A n \in DOMAIN feed :
    n <= cursor /\ n \notin late /\ feed[n].record \in Stamped \ withheld => AccountedFor(n)

\* All there is to receive about r is there: its last write is captured, its rows were passed
\* in time and with the record, and no change of it is put aside or given up.
AllReceived(r) ==
  /\ r \notin uncaptured \cup lost \cup withheld \cup quarantined
  /\ deferred[r].value = 0
  /\ \A n \in DOMAIN feed : feed[n].record = r => n <= cursor /\ n \notin late

\* Then the desktop has the record as the cloud has it.  What can be missing for good is only
\* what AllReceived names: late rows, failed lookups, changes given up, lost captures.
CaughtUp == \A r \in Stamped : AllReceived(r) => copy[r] = cloud[r]

\* No pull, page delivered again or change put aside takes a stamped record back to an older
\* state, or to one the cloud has not had.
Replica == INSTANCE Follower WITH Records <- Stamped,
                                  source <- [r \in Stamped |-> cloud[r]],
                                  mirror <- [r \in Stamped |-> copy[r]]
MirrorFollows == Replica!Spec

\* In the end the desktop has every change of a stamped model that was not late, or has given
\* it up, or holds it back because the record it refers to never came, or has been served its
\* page last without the record.
Converges ==
  <>[](\A n \in DOMAIN feed :
         LET r == feed[n].record IN
           n \notin late /\ r \in Stamped =>
             \/ copy[r] >= feed[n].value
             \/ r \in quarantined \cup withheld
             \/ deferred[r].value > 0 /\ copy[Parent[r]] = 0)
==============================================================================
