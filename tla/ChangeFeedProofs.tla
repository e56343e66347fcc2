--------------------------- MODULE ChangeFeedProofs ---------------------------
(* What is proved about ChangeFeed. *)
EXTENDS ChangeFeed, FiniteNumbers

-----------------------------------------------------------------------------
(* Types. *)

PullRecord ==
  [pc : {"idle", "ask", "fetch", "apply", "mark", "advance"}, since : Nat, last : Nat,
   more : BOOLEAN, records : SUBSET Records, payload : [Records -> Nat]]

CloudTyped ==
  /\ cloud \in [Records -> Nat]
  /\ next \in 1 .. MaxNumber + 1
  /\ DOMAIN feed \subseteq 1 .. next - 1
  /\ \A n \in DOMAIN feed : feed[n] \in [record : Records, value : Nat]
  /\ uncaptured \subseteq Records
  /\ late \subseteq Nat /\ lost \subseteq Records

\* Every open push holds a number of its own, and there is one left for every capture to come.
NumbersOwned ==
  /\ open \in [Records -> 0 .. MaxNumber]
  /\ \A r \in Records : open[r] < next /\ open[r] \notin DOMAIN feed
  /\ \A r, s \in Records : open[r] = open[s] /\ open[r] > 0 => r = s
  /\ IsFiniteSet(uncaptured) /\ next + Cardinality(uncaptured) =< MaxNumber + 1

DesktopTyped ==
  /\ copy \in [Records -> Nat]
  /\ cursor \in Nat /\ seen \in Nat
  /\ pages \subseteq Nat \X Nat /\ quarantined \subseteq Records
  /\ deferred \in [Records -> [value : Nat, page : Nat]]
  /\ \A r \in Records : deferred[r].value > 0 => deferred[r].page > 0
  /\ pull \in PullRecord
  /\ pull.records # {} => pull.last > 0
  /\ withheld \subseteq Records

BoundsTyped == full \in 0 .. MaxFull /\ faults \in 0 .. MaxFaults

Typed == CloudTyped /\ NumbersOwned /\ DesktopTyped /\ BoundsTyped

-----------------------------------------------------------------------------
(* What a number that was served stands for. *)

\* What travels or waits is not ahead of the cloud, and a page not behind what was put aside.
Current ==
  /\ \A n \in DOMAIN feed : feed[n].value =< cloud[feed[n].record]
  /\ \A r \in Records : deferred[r].value =< cloud[r] /\ pull.payload[r] =< cloud[r]
  /\ pull.pc = "apply" => \A r \in Arrived : deferred[r].value =< pull.payload[r]

\* Nothing of the desktop is beyond the highest number served, which is a row of the feed.
Served ==
  /\ seen = 0 \/ seen \in DOMAIN feed
  /\ cursor =< seen /\ pull.last =< seen /\ pull.since =< cursor
  /\ pull.pc = "idle" => pull.since = 0
  /\ \A p \in pages : p[2] =< seen

\* The rows of a range are dealt with, but for late ones, those of models without a stamp and
\* those of a record whose lookup failed.
Done(lo, hi) ==
  \A n \in DOMAIN feed :
    lo < n /\ n =< hi /\ n \notin late /\ feed[n].record \in Stamped \ withheld => AccountedFor(n)

\* The page in flight is about every row of its range; and a record that comes with it is as
\* new as any row of it up to the highest number served, of this page or an earlier one.
Brought ==
  /\ pull.pc \in {"fetch", "apply"} =>
       \A n \in DOMAIN feed :
         pull.since < n /\ n =< pull.last /\ n \notin late => feed[n].record \in pull.records
  /\ pull.pc = "apply" =>
       \A n \in DOMAIN feed :
         n =< seen /\ n \notin late /\ feed[n].record \in Arrived =>
           feed[n].value =< pull.payload[feed[n].record]

Dealt ==
  /\ Done(0, cursor)
  /\ \A p \in pages : Done(p[1], p[2])
  /\ pull.pc \in {"mark", "advance"} => Done(pull.since, pull.last)

FeedInv == Typed /\ Current /\ Served /\ Brought /\ Dealt

-----------------------------------------------------------------------------
(* Pages. *)

\* The greater of two numbers.
LEMMA MaxOfTwo ==
  ASSUME NEW a \in Nat, NEW b \in Nat
  PROVE  Max({a, b}) \in Nat /\ Max({a, b}) >= a /\ Max({a, b}) >= b /\ Max({a, b}) \in {a, b}
<1>1. IsFiniteSet({a, b})
  <2>1. IsFiniteSet({} \cup {a})
    BY FS_EmptySet, FS_AddElement
  <2>2. IsFiniteSet(({} \cup {a}) \cup {b})
    BY <2>1, FS_AddElement
  <2>3. ({} \cup {a}) \cup {b} = {a, b}
    OBVIOUS
  <2> QED BY <2>2, <2>3
<1> QED BY <1>1, MaxOf

LEMMA FeedFinite ==
  ASSUME CloudTyped
  PROVE  IsFiniteSet(DOMAIN feed) /\ DOMAIN feed \subseteq Nat
<1>1. next - 1 \in Int /\ IsFiniteSet(1 .. next - 1)
  BY FS_Interval, FeedAssumption DEF CloudTyped
<1>2. DOMAIN feed \subseteq 1 .. next - 1
  BY DEF CloudTyped
<1>3. 1 .. next - 1 \subseteq Nat
  BY <1>1
<1> QED BY <1>1, <1>2, <1>3, FS_Subset

\* A page has every row of its range, and ends at a row unless it is empty.
LEMMA PageWhole ==
  ASSUME CloudTyped, NEW a \in Nat
  PROVE  LET m == Max(Page(a) \cup {a}) IN
           /\ Page(a) \subseteq DOMAIN feed
           /\ m \in Nat /\ m >= a /\ (m # a => m \in DOMAIN feed)
           /\ Page(a) # {} => m > 0
           /\ \A n \in DOMAIN feed : a < n /\ n =< m => n \in Page(a)
<1> DEFINE P == Page(a)
           m == Max(P \cup {a})
<1>1. P \subseteq DOMAIN feed /\ \A k \in P : k > a
  BY DEF Page
<1>2. IsFiniteSet(P \cup {a}) /\ P \cup {a} \subseteq Nat
  BY <1>1, FeedFinite, FS_Subset, FS_AddElement
<1>3. m \in P \cup {a} /\ \A y \in P \cup {a} : m >= y
  BY <1>2, MaxOf
<1>4. ASSUME NEW n \in DOMAIN feed, a < n, n =< m PROVE n \in P
  <2>1. m \in DOMAIN feed /\ m \in P /\ n \in Nat /\ m \in Nat
    BY <1>1, <1>2, <1>3, <1>4, FeedFinite
  <2>2. CASE n = m
    BY <2>1, <2>2
  <2>3. CASE n < m
    <3> DEFINE B(k) == {j \in DOMAIN feed : a < j /\ j < k}
    <3>1. B(n) \subseteq B(m)
      BY <2>1, <2>3, FeedFinite
    <3>2. IsFiniteSet(B(m))
      <4>1. B(m) \subseteq DOMAIN feed
        OBVIOUS
      <4> HIDE DEF B
      <4> QED BY <4>1, FeedFinite, FS_Subset
    <3>3. Cardinality(B(m)) < Limit
      BY <2>1 DEF Page
    <3>4. Cardinality(B(n)) =< Cardinality(B(m)) /\ Cardinality(B(n)) \in Nat /\ Cardinality(B(m)) \in Nat
      <4> HIDE DEF B
      <4> QED BY <3>1, <3>2, FS_Subset, FS_CardinalityType
    <3>5. Cardinality(B(n)) < Limit
      <4> HIDE DEF B
      <4> QED BY <3>3, <3>4, FeedAssumption
    <3> QED BY <1>4, <3>5 DEF Page
  <2> QED BY <1>4, <2>1, <2>2, <2>3
<1>5. P # {} => m > 0
  <2>1. ASSUME NEW k \in P PROVE m > 0
    BY <1>1, <1>2, <1>3
  <2> QED BY <2>1
<1> HIDE DEF P
<1>6. m \in Nat /\ m >= a /\ (m # a => m \in DOMAIN feed)
  BY <1>1, <1>2, <1>3
<1> QED BY <1>1, <1>4, <1>5, <1>6 DEF P

-----------------------------------------------------------------------------
(* The cloud. *)

\* A row joins the feed; if a higher number has been served it is late.
LEMMA Emits ==
  ASSUME CloudTyped, NEW r \in Records, NEW n \in Nat, n \notin DOMAIN feed, Emit(n, r)
  PROVE  /\ DOMAIN feed' = DOMAIN feed \cup {n}
         /\ feed'[n] = [record |-> r, value |-> cloud'[r]]
         /\ \A k \in DOMAIN feed : feed'[k] = feed[k]
         /\ late \subseteq late' /\ late' \subseteq late \cup {n}
         /\ n < seen => n \in late'
         /\ lost' = lost \ {r}
BY DEF Emit

Writes(r) == TakeNumber(r) \/ Commit(r) \/ Abort(r) \/ Write(r) \/ Capture(r) \/ CaptureLost(r)

\* The numbers a step of the cloud takes and frees.
LEMMA WritesTyped ==
  ASSUME Typed, NEW r \in Records, Writes(r)
  PROVE  Typed'
<1> USE DEF Typed
<1>1. CASE TakeNumber(r)
  <2>1. Cardinality(uncaptured) \in Nat /\ next \in Nat
    BY FS_CardinalityType, FeedAssumption DEF NumbersOwned, CloudTyped
  <2>2. next \in 1 .. MaxNumber /\ next \notin DOMAIN feed
    BY <1>1, <2>1, FeedAssumption DEF TakeNumber, Writable, CloudTyped
  <2>3. CloudTyped'
    BY <1>1, <2>2, FeedAssumption DEF TakeNumber, CloudTyped
  <2>4. NumbersOwned'
    <3>1. open \in [Records -> 0 .. MaxNumber] /\ open' = [open EXCEPT ![r] = next] /\ next' = next + 1
      BY <1>1 DEF TakeNumber, NumbersOwned
    <3>2. open' \in [Records -> 0 .. MaxNumber] /\ open'[r] = next
          /\ \A s \in Records \ {r} : open'[s] = open[s]
      BY <2>2, <3>1, FeedAssumption
    <3>3. DOMAIN feed' = DOMAIN feed /\ uncaptured' = uncaptured
      BY <1>1 DEF TakeNumber
    <3>4. \A s \in Records : open'[s] < next' /\ open'[s] \notin DOMAIN feed'
      BY <2>1, <2>2, <3>1, <3>2, <3>3 DEF NumbersOwned
    <3>5. \A s, t \in Records : open'[s] = open'[t] /\ open'[s] > 0 => s = t
      <4>1. \A s \in Records : open[s] < next
        BY DEF NumbersOwned
      <4>2. \A s \in Records \ {r} : open'[s] # open'[r]
        BY <2>1, <3>1, <3>2, <4>1
      <4> QED BY <3>2, <4>2 DEF NumbersOwned
    <3>6. next' + Cardinality(uncaptured') =< MaxNumber + 1
      BY <1>1, <2>1, <3>1, <3>3, FeedAssumption DEF TakeNumber, Writable
    <3> QED BY <3>2, <3>3, <3>4, <3>5, <3>6 DEF NumbersOwned
  <2>5. DesktopTyped' /\ BoundsTyped'
    BY <1>1 DEF TakeNumber, DesktopTyped, BoundsTyped, desktop
  <2> QED BY <2>3, <2>4, <2>5
<1>2. CASE Commit(r)
  <2>1. open[r] \in Nat /\ open[r] > 0 /\ open[r] < next /\ open[r] \notin DOMAIN feed /\ next \in Nat
    BY <1>2, FeedAssumption DEF Commit, NumbersOwned, CloudTyped
  <2>2. cloud' \in [Records -> Nat]
    BY <1>2 DEF Commit, CloudTyped
  <2>3. /\ DOMAIN feed' = DOMAIN feed \cup {open[r]}
        /\ feed'[open[r]] = [record |-> r, value |-> cloud'[r]]
        /\ \A k \in DOMAIN feed : feed'[k] = feed[k]
        /\ late' \subseteq late \cup {open[r]} /\ lost' = lost \ {r}
    BY <1>2, <2>1, Emits DEF Commit
  <2>4. CloudTyped'
    <3>1. next' = next /\ uncaptured' = uncaptured
      BY <1>2 DEF Commit
    <3>2. DOMAIN feed' \subseteq 1 .. next' - 1
      BY <2>1, <2>3, <3>1 DEF CloudTyped
    <3>3. \A n \in DOMAIN feed' : feed'[n] \in [record : Records, value : Nat]
      BY <2>2, <2>3 DEF CloudTyped
    <3> QED BY <2>1, <2>2, <2>3, <3>1, <3>2, <3>3 DEF CloudTyped
  <2>5. NumbersOwned'
    <3>1. next' = next /\ uncaptured' = uncaptured /\ open' = [open EXCEPT ![r] = 0]
      BY <1>2 DEF Commit
    <3>2. open \in [Records -> 0 .. MaxNumber]
      BY DEF NumbersOwned
    <3>3. open' \in [Records -> 0 .. MaxNumber] /\ open'[r] = 0
          /\ \A s \in Records \ {r} : open'[s] = open[s]
      BY <3>1, <3>2, FeedAssumption
    <3>4. \A s \in Records \ {r} : open[s] # open[r]
      BY <2>1 DEF NumbersOwned
    <3>5. 0 \notin DOMAIN feed
      BY DEF CloudTyped
    <3>6. \A s \in Records : open'[s] < next' /\ open'[s] \notin DOMAIN feed'
      BY <2>1, <2>3, <3>1, <3>3, <3>4, <3>5 DEF NumbersOwned
    <3>7. \A s, t \in Records : open'[s] = open'[t] /\ open'[s] > 0 => s = t
      BY <3>3 DEF NumbersOwned
    <3> QED BY <3>1, <3>3, <3>6, <3>7 DEF NumbersOwned
  <2>6. DesktopTyped' /\ BoundsTyped'
    BY <1>2 DEF Commit, DesktopTyped, BoundsTyped, desktop
  <2> QED BY <2>4, <2>5, <2>6
<1>3. CASE Abort(r)
  <2>1. CloudTyped' /\ DesktopTyped'
    BY <1>3 DEF Abort, CloudTyped, DesktopTyped, desktop
  <2>2. NumbersOwned'
    <3>1. next' = next /\ uncaptured' = uncaptured /\ feed' = feed /\ open' = [open EXCEPT ![r] = 0]
      BY <1>3 DEF Abort
    <3>2. open \in [Records -> 0 .. MaxNumber] /\ next \in Nat /\ next > 0 /\ 0 \notin DOMAIN feed
      BY FeedAssumption DEF NumbersOwned, CloudTyped
    <3>3. open' \in [Records -> 0 .. MaxNumber] /\ open'[r] = 0
          /\ \A s \in Records \ {r} : open'[s] = open[s]
      BY <3>1, <3>2, FeedAssumption
    <3>4. \A s \in Records : open'[s] < next' /\ open'[s] \notin DOMAIN feed'
      BY <3>1, <3>2, <3>3 DEF NumbersOwned
    <3>5. \A s, t \in Records : open'[s] = open'[t] /\ open'[s] > 0 => s = t
      BY <3>3 DEF NumbersOwned
    <3> QED BY <3>1, <3>3, <3>4, <3>5 DEF NumbersOwned
  <2>3. BoundsTyped'
    BY <1>3, FeedAssumption DEF Abort, BoundsTyped
  <2> QED BY <2>1, <2>2, <2>3
<1>4. CASE Write(r)
  <2>1. CloudTyped' /\ DesktopTyped' /\ BoundsTyped'
    BY <1>4 DEF Write, CloudTyped, DesktopTyped, BoundsTyped, desktop
  <2>2. /\ IsFiniteSet(uncaptured') /\ Cardinality(uncaptured') = Cardinality(uncaptured) + 1
        /\ Cardinality(uncaptured) \in Nat
    BY <1>4, FS_AddElement, FS_CardinalityType DEF Write, NumbersOwned
  <2>3. next' + Cardinality(uncaptured') =< MaxNumber + 1
    BY <1>4, <2>2, FeedAssumption DEF Write, Writable, CloudTyped
  <2>4. NumbersOwned'
    BY <1>4, <2>2, <2>3 DEF Write, NumbersOwned
  <2> QED BY <2>1, <2>4
<1>5. CASE Capture(r)
  <2>1. r \in uncaptured /\ IsFiniteSet(uncaptured) /\ next \in Nat /\ next > 0
    BY <1>5, FeedAssumption DEF Capture, NumbersOwned, CloudTyped
  <2>2. /\ IsFiniteSet(uncaptured') /\ Cardinality(uncaptured') = Cardinality(uncaptured) - 1
        /\ Cardinality(uncaptured) \in Nat /\ Cardinality(uncaptured') \in Nat
    BY <1>5, <2>1, FS_RemoveElement, FS_CardinalityType DEF Capture
  <2>3. next =< MaxNumber /\ next \notin DOMAIN feed
    BY <2>1, <2>2, FeedAssumption DEF NumbersOwned, CloudTyped
  <2>4. cloud' = cloud
    BY <1>5 DEF Capture
  <2>5. /\ DOMAIN feed' = DOMAIN feed \cup {next}
        /\ feed'[next] = [record |-> r, value |-> cloud'[r]]
        /\ \A k \in DOMAIN feed : feed'[k] = feed[k]
        /\ late' \subseteq late \cup {next} /\ lost' = lost \ {r}
    BY <1>5, <2>1, <2>3, Emits DEF Capture
  <2>6. next' = next + 1 /\ open' = open /\ uncaptured' \subseteq uncaptured
    BY <1>5 DEF Capture
  <2>7. CloudTyped'
    <3>1. DOMAIN feed' \subseteq 1 .. next' - 1
      BY <2>1, <2>5, <2>6 DEF CloudTyped
    <3>2. \A n \in DOMAIN feed' : feed'[n] \in [record : Records, value : Nat]
      BY <2>4, <2>5 DEF CloudTyped
    <3> QED BY <2>1, <2>3, <2>4, <2>5, <2>6, <3>1, <3>2, FeedAssumption DEF CloudTyped
  <2>8. NumbersOwned'
    <3>1. \A s \in Records : open'[s] < next' /\ open'[s] \notin DOMAIN feed'
      <4>1. \A s \in Records : open[s] \in Nat /\ open[s] < next /\ open[s] \notin DOMAIN feed
        BY FeedAssumption DEF NumbersOwned
      <4> QED BY <2>1, <2>5, <2>6, <4>1
    <3>2. next' + Cardinality(uncaptured') =< MaxNumber + 1
      BY <2>1, <2>2, <2>6, FeedAssumption DEF NumbersOwned
    <3> QED BY <2>2, <2>6, <3>1, <3>2 DEF NumbersOwned
  <2>9. DesktopTyped' /\ BoundsTyped'
    BY <1>5 DEF Capture, DesktopTyped, BoundsTyped, desktop
  <2> QED BY <2>7, <2>8, <2>9
<1>6. CASE CaptureLost(r)
  <2>1. CloudTyped' /\ DesktopTyped'
    BY <1>6 DEF CaptureLost, CloudTyped, DesktopTyped, desktop
  <2>2. BoundsTyped'
    BY <1>6, FeedAssumption DEF CaptureLost, BoundsTyped
  <2>3. /\ IsFiniteSet(uncaptured') /\ Cardinality(uncaptured') = Cardinality(uncaptured) - 1
        /\ Cardinality(uncaptured) \in Nat
    BY <1>6, FS_RemoveElement, FS_CardinalityType DEF CaptureLost, NumbersOwned
  <2>4. next' + Cardinality(uncaptured') =< MaxNumber + 1
    BY <1>6, <2>3, FeedAssumption DEF CaptureLost, NumbersOwned, CloudTyped
  <2>5. NumbersOwned'
    BY <1>6, <2>3, <2>4 DEF CaptureLost, NumbersOwned
  <2> QED BY <2>1, <2>2, <2>5
<1> QED BY <1>1, <1>2, <1>3, <1>4, <1>5, <1>6 DEF Writes

-----------------------------------------------------------------------------
(* The desktop. *)

\* A pull moves on: the rest of it stays.
LEMMA PullFields ==
  ASSUME DesktopTyped
  PROVE  /\ pull \in PullRecord /\ pull.since \in Nat /\ pull.last \in Nat /\ pull.more \in BOOLEAN
         /\ pull.records \subseteq Records /\ pull.payload \in [Records -> Nat]
BY DEF DesktopTyped, PullRecord

LEMMA NoPageTyped ==
  /\ NoPage \in PullRecord /\ NoPage.pc = "idle" /\ NoPage.since = 0 /\ NoPage.last = 0
  /\ NoPage.records = {} /\ NoPage.payload = [r \in Records |-> 0]
BY DEF NoPage, PullRecord

LEMMA AsksMoves ==
  ASSUME NEW a \in Nat, pull' = [NoPage EXCEPT !.pc = "ask", !.since = a]
  PROVE  /\ pull' \in PullRecord /\ pull'.pc = "ask" /\ pull'.since = a /\ pull'.last = 0
         /\ pull'.records = {} /\ pull'.payload = [r \in Records |-> 0]
BY NoPageTyped DEF PullRecord

LEMMA PullEnds ==
  ASSUME pull' = NoPage
  PROVE  /\ pull' \in PullRecord /\ pull'.pc = "idle" /\ pull'.since = 0 /\ pull'.last = 0
         /\ pull'.records = {} /\ pull'.payload = [r \in Records |-> 0]
BY NoPageTyped

\* The page is read,
LEMMA ReadMoves ==
  ASSUME CloudTyped, DesktopTyped, ReadRows
  PROVE  /\ pull' \in PullRecord /\ pull'.pc = "fetch" /\ pull'.since = pull.since
         /\ pull'.last >= pull.since /\ (pull'.last # pull.since => pull'.last \in DOMAIN feed)
         /\ pull'.records # {} => pull'.last > 0
         /\ pull'.payload = pull.payload
         /\ \A n \in DOMAIN feed :
              pull.since < n /\ n =< pull'.last => feed[n].record \in pull'.records
         /\ seen' \in Nat /\ seen' >= seen /\ seen' >= pull'.last /\ seen' \in {seen, pull'.last}
<1> DEFINE page == Page(pull.since)
           last == Max(page \cup {pull.since})
           records == {feed[k].record : k \in page}
           more == \E k \in DOMAIN feed : k > pull.since /\ k \notin page
           x == [pull EXCEPT !.pc = "fetch", !.records = records, !.last = last, !.more = more]
<1>1. pull \in PullRecord /\ pull.since \in Nat
  BY PullFields
<1>2. /\ page \subseteq DOMAIN feed
      /\ last \in Nat /\ last >= pull.since /\ (last # pull.since => last \in DOMAIN feed)
      /\ page # {} => last > 0
      /\ \A n \in DOMAIN feed : pull.since < n /\ n =< last => n \in page
  BY <1>1, PageWhole
<1>3. records \subseteq Records
  BY <1>2 DEF CloudTyped
<1>4. pull' = x /\ seen' = Max({seen, pull'.last})
  BY DEF ReadRows
<1>5. more \in BOOLEAN
  OBVIOUS
<1> HIDE DEF page, last, records, more
<1>6. x \in PullRecord
  BY <1>1, <1>2, <1>3, <1>5 DEF PullRecord
<1>7. x.pc = "fetch" /\ x.since = pull.since /\ x.last = last /\ x.records = records
      /\ x.payload = pull.payload
  BY <1>1 DEF PullRecord
<1> HIDE DEF x
<1>8. records # {} => page # {}
  BY DEF records
<1>9. \A n \in DOMAIN feed : n \in page => feed[n].record \in records
  BY DEF records
<1>10. seen' \in Nat /\ seen' >= seen /\ seen' >= last /\ seen' \in {seen, last}
  BY <1>2, <1>4, <1>7, MaxOfTwo DEF DesktopTyped
<1> QED BY <1>2, <1>4, <1>6, <1>7, <1>8, <1>9, <1>10

\* the records fetched, all of them or some,
LEMMA FetchMoves ==
  ASSUME CloudTyped, DesktopTyped, Fetch \/ FetchFails
  PROVE  /\ pull' \in PullRecord /\ pull.pc = "fetch" /\ pull'.pc = "apply"
         /\ pull'.since = pull.since /\ pull'.last = pull.last /\ pull'.records = pull.records
         /\ \A r \in Records : pull'.payload[r] \in {0, cloud[r]}
         /\ UNCHANGED <<cloudside, copy, cursor, pages, deferred, quarantined, seen, withheld>>
<1>1. PICK R \in SUBSET pull.records : Serve(R)
  BY DEF Fetch, FetchFails
<1> DEFINE payload == [r \in Records |-> IF r \in R THEN cloud[r] ELSE 0]
           x == [pull EXCEPT !.pc = "apply", !.payload = payload]
<1>2. pull \in PullRecord /\ payload \in [Records -> Nat]
  BY PullFields DEF CloudTyped
<1>3. /\ pull' = x /\ pull.pc = "fetch"
      /\ UNCHANGED <<cloudside, copy, cursor, pages, deferred, quarantined, seen, withheld>>
  BY <1>1 DEF Serve
<1>4. \A r \in Records : payload[r] \in {0, cloud[r]}
  OBVIOUS
<1> HIDE DEF payload
<1>5. x \in PullRecord
  BY <1>2 DEF PullRecord
<1>6. x.pc = "apply" /\ x.since = pull.since /\ x.last = pull.last /\ x.records = pull.records
      /\ x.payload = payload
  BY <1>2 DEF PullRecord
<1> QED BY <1>3, <1>4, <1>5, <1>6

\* and applied or skipped.
LEMMA AppliedMoves ==
  ASSUME DesktopTyped, NEW pc \in {"mark", "advance"},
         pull' = [pull EXCEPT !.pc = pc, !.records = {}, !.payload = NoPage.payload]
  PROVE  /\ pull' \in PullRecord /\ pull'.pc = pc /\ pull'.since = pull.since
         /\ pull'.last = pull.last /\ pull'.records = {}
         /\ pull'.payload = [r \in Records |-> 0]
<1> DEFINE x == [pull EXCEPT !.pc = pc, !.records = {}, !.payload = NoPage.payload]
<1>1. pull \in PullRecord /\ NoPage.payload = [r \in Records |-> 0]
  BY PullFields, NoPageTyped
<1>2. [r \in Records |-> 0] \in [Records -> Nat]
  OBVIOUS
<1>3. x \in PullRecord
  BY <1>1, <1>2 DEF PullRecord
<1>4. x.pc = pc /\ x.since = pull.since /\ x.last = pull.last /\ x.records = {}
      /\ x.payload = NoPage.payload
  BY <1>1 DEF PullRecord
<1> QED BY <1>1, <1>3, <1>4

LEMMA MarkMoves ==
  ASSUME DesktopTyped, MarkPage
  PROVE  /\ pull' \in PullRecord /\ pull'.pc = "advance" /\ pull'.since = pull.since
         /\ pull'.last = pull.last /\ pull'.records = pull.records /\ pull'.payload = pull.payload
<1>1. pull \in PullRecord /\ pull' = [pull EXCEPT !.pc = "advance"]
  BY PullFields DEF MarkPage
<1> QED BY <1>1 DEF PullRecord

\* A new value of a copy, if the model has a stamp, is not below the old one.
LEMMA NewerTyped ==
  ASSUME DesktopTyped, NEW r \in Records, NEW v \in Nat
  PROVE  Newer(r, v) \in Nat /\ (r \in Stamped => Newer(r, v) >= copy[r] /\ Newer(r, v) >= v)
<1>1. copy[r] \in Nat
  BY DEF DesktopTyped
<1> QED BY <1>1, MaxOfTwo DEF Newer

\* What a page brings is written or put aside.
LEMMA ApplyMoves ==
  ASSUME CloudTyped, DesktopTyped, ApplyPage
  PROVE  /\ pull' \in PullRecord /\ pull'.pc \in {"mark", "advance"} /\ pull'.since = pull.since
         /\ pull'.last = pull.last /\ pull'.records = {} /\ pull'.payload = [r \in Records |-> 0]
         /\ withheld' = (withheld \cup pull.records) \ Arrived
         /\ copy' \in [Records -> Nat]
         /\ deferred' \in [Records -> [value : Nat, page : Nat]]
         /\ \A r \in Records :
              \/ /\ r \notin Arrived /\ copy'[r] = copy[r] /\ deferred'[r] = deferred[r]
              \/ /\ r \in Arrived /\ deferred'[r] = deferred[r]
                 /\ r \in Stamped => copy'[r] >= copy[r] /\ copy'[r] >= pull.payload[r]
              \/ /\ r \in Arrived /\ copy'[r] = copy[r]
                 /\ deferred'[r].value = pull.payload[r] /\ deferred'[r].page = pull.last
<1>1. pull.records \subseteq Records /\ pull.payload \in [Records -> Nat] /\ pull.last \in Nat
  BY PullFields
<1>2. Refused \subseteq Arrived
  BY DEF Refused
<1>3. copy' = [r \in Records |->
         IF r \in Arrived \ Refused THEN Newer(r, pull.payload[r]) ELSE copy[r]]
  BY DEF ApplyPage
<1>4. deferred' = [r \in Records |->
         IF r \in Refused THEN [value |-> pull.payload[r], page |-> pull.last]
                          ELSE deferred[r]]
  BY DEF ApplyPage
<1>5. copy \in [Records -> Nat] /\ deferred \in [Records -> [value : Nat, page : Nat]]
  BY DEF DesktopTyped
<1>6. \A r \in Records : /\ Newer(r, pull.payload[r]) \in Nat
                         /\ r \in Stamped => /\ Newer(r, pull.payload[r]) >= copy[r]
                                             /\ Newer(r, pull.payload[r]) >= pull.payload[r]
  BY <1>1, NewerTyped
<1>7. \E pc \in {"mark", "advance"} :
        pull' = [pull EXCEPT !.pc = pc, !.records = {}, !.payload = NoPage.payload]
  BY DEF ApplyPage
<1>8. /\ pull' \in PullRecord /\ pull'.pc \in {"mark", "advance"} /\ pull'.since = pull.since
      /\ pull'.last = pull.last /\ pull'.records = {} /\ pull'.payload = [r \in Records |-> 0]
  BY <1>7, AppliedMoves
<1>9. copy' \in [Records -> Nat]
  BY <1>3, <1>5, <1>6
<1>10. deferred' \in [Records -> [value : Nat, page : Nat]]
  BY <1>1, <1>4, <1>5
<1>11. ASSUME NEW r \in Records
       PROVE  \/ /\ r \notin Arrived /\ copy'[r] = copy[r] /\ deferred'[r] = deferred[r]
              \/ /\ r \in Arrived /\ deferred'[r] = deferred[r]
                 /\ r \in Stamped => copy'[r] >= copy[r] /\ copy'[r] >= pull.payload[r]
              \/ /\ r \in Arrived /\ copy'[r] = copy[r]
                 /\ deferred'[r].value = pull.payload[r] /\ deferred'[r].page = pull.last
  <2>1. CASE r \in Refused
    BY <1>2, <1>3, <1>4, <2>1
  <2>2. CASE r \notin Refused /\ r \in Arrived
    BY <1>3, <1>4, <1>6, <2>2
  <2>3. CASE r \notin Arrived
    BY <1>2, <1>3, <1>4, <2>3
  <2> QED BY <2>1, <2>2, <2>3
<1>12. withheld' = (withheld \cup pull.records) \ Arrived
  BY DEF ApplyPage
<1> QED BY <1>8, <1>9, <1>10, <1>11, <1>12

\* A change that was put aside is written, asked for again or given up.
Retries(r) == RetryDeferred(r) \/ UnStrand(r) \/ Quarantine(r)

LEMMA RetryMoves ==
  ASSUME DesktopTyped, NEW r \in Records, Retries(r)
  PROVE  /\ copy' \in [Records -> Nat]
         /\ deferred' \in [Records -> [value : Nat, page : Nat]]
         /\ \A s \in Records : deferred'[s].value > 0 =>
              deferred'[s].value = deferred[s].value /\ deferred'[s].page = deferred[s].page
         /\ \A s \in Stamped : copy'[s] >= copy[s]
         /\ \A s \in Stamped : \/ deferred'[s].value = deferred[s].value
                               \/ copy'[s] >= deferred[s].value
                               \/ s \in quarantined'
         /\ quarantined \subseteq quarantined' /\ quarantined' \subseteq Records
         /\ cursor' \in Nat /\ cursor' =< cursor /\ pages' \subseteq pages
         /\ pull' = pull /\ pull.pc = "idle" /\ seen' = seen /\ withheld' = withheld
<1>1. /\ copy \in [Records -> Nat] /\ cursor \in Nat /\ quarantined \subseteq Records
      /\ deferred \in [Records -> [value : Nat, page : Nat]]
      /\ Nothing \in [value : Nat, page : Nat] /\ Nothing.value = 0
      /\ Stamped \subseteq Records
  BY FeedAssumption DEF DesktopTyped, Nothing
<1>2. deferred[r].value > 0 /\ deferred[r].value \in Nat /\ deferred[r].page \in Nat /\ deferred[r].page > 0
      /\ pull' = pull /\ pull.pc = "idle" /\ seen' = seen /\ withheld' = withheld
  BY <1>1 DEF Retries, RetryDeferred, UnStrand, Quarantine, DesktopTyped
<1>3. CASE RetryDeferred(r)
  <2>1. Newer(r, deferred[r].value) \in Nat
        /\ (r \in Stamped => /\ Newer(r, deferred[r].value) >= copy[r]
                             /\ Newer(r, deferred[r].value) >= deferred[r].value)
    BY <1>2, NewerTyped
  <2>2. copy' = [copy EXCEPT ![r] = Newer(r, deferred[r].value)] /\ deferred' = [deferred EXCEPT ![r] = Nothing]
    BY <1>3 DEF RetryDeferred
  <2>3. copy' \in [Records -> Nat] /\ copy'[r] = Newer(r, deferred[r].value)
        /\ \A s \in Records \ {r} : copy'[s] = copy[s]
    BY <1>1, <2>1, <2>2
  <2>4. deferred' \in [Records -> [value : Nat, page : Nat]] /\ deferred'[r].value = 0
        /\ \A s \in Records \ {r} : deferred'[s] = deferred[s]
    BY <1>1, <2>2
  <2>5. cursor' = cursor /\ pages' = pages /\ quarantined' = quarantined
    BY <1>3 DEF RetryDeferred
  <2>6. \A s \in Stamped : copy'[s] >= copy[s]
    BY <1>1, <2>1, <2>3
  <2>7. \A s \in Stamped : deferred'[s].value = deferred[s].value \/ copy'[s] >= deferred[s].value
    BY <1>1, <2>1, <2>3, <2>4
  <2>8. \A s \in Records : deferred'[s].value > 0 => deferred'[s] = deferred[s]
    BY <2>4
  <2> QED BY <1>1, <1>2, <2>3, <2>4, <2>5, <2>6, <2>7, <2>8
<1>4. CASE UnStrand(r)
  <2>1. copy' = copy /\ quarantined' = quarantined /\ pages' \subseteq pages
    BY <1>4 DEF UnStrand
  <2>2. cursor' \in Nat /\ cursor' =< cursor
    <3>1. cursor' = IF cursor >= deferred[r].page THEN deferred[r].page - 1 ELSE cursor
      BY <1>4 DEF UnStrand
    <3> QED BY <1>1, <1>2, <3>1
  <2>3. deferred' = deferred
    BY <1>4 DEF UnStrand
  <2> QED BY <1>1, <1>2, <2>1, <2>2, <2>3
<1>5. CASE Quarantine(r)
  <2>1. copy' = copy /\ cursor' = cursor /\ pages' = pages /\ quarantined' = quarantined \cup {r}
        /\ deferred' = [deferred EXCEPT ![r] = Nothing]
    BY <1>5 DEF Quarantine
  <2>2. deferred' \in [Records -> [value : Nat, page : Nat]] /\ deferred'[r].value = 0
        /\ \A s \in Records \ {r} : deferred'[s] = deferred[s]
    BY <1>1, <2>1
  <2> QED BY <1>1, <1>2, <2>1, <2>2
<1> QED BY <1>3, <1>4, <1>5 DEF Retries

Follows ==
  \/ PullFromCursor \/ PullFromZero \/ PullStep \/ FetchFails \/ Cut
  \/ \E r \in Records : Retries(r)

LEMMA CloudStays ==
  ASSUME Typed, Follows PROVE CloudTyped' /\ NumbersOwned' /\ BoundsTyped' /\ UNCHANGED cloudside
<1>1. UNCHANGED cloudside
  BY DEF Follows, PullFromCursor, PullFromZero, Begin, PullStep, ReadRows, Fetch, FetchFails,
         Serve, SkipPage, ApplyPage, MarkPage, Advance, Cut, Retries, RetryDeferred, UnStrand, Quarantine
<1>2. CloudTyped' /\ NumbersOwned'
  BY <1>1 DEF Typed, CloudTyped, NumbersOwned, cloudside
<1>3. full' = full \/ (full < MaxFull /\ full' = full + 1)
  BY DEF Follows, PullFromCursor, PullFromZero, PullStep, ReadRows, Fetch, FetchFails, Serve,
         SkipPage, ApplyPage, MarkPage, Advance, Cut, Retries, RetryDeferred, UnStrand, Quarantine
<1>4. faults' = faults \/ (faults < MaxFaults /\ faults' = faults + 1)
  BY DEF Follows, PullFromCursor, PullFromZero, Begin, PullStep, ReadRows, Fetch, FetchFails, SkipPage,
         ApplyPage, MarkPage, Advance, Cut, Retries, RetryDeferred, UnStrand, Quarantine
<1>5. full' \in 0 .. MaxFull /\ faults' \in 0 .. MaxFaults
  BY <1>3, <1>4, FeedAssumption DEF Typed, BoundsTyped
<1> QED BY <1>1, <1>2, <1>5 DEF BoundsTyped

\* A pull that begins, goes on to its next page, or ends.
LEMMA AdvanceMoves ==
  ASSUME DesktopTyped, Advance
  PROVE  /\ cursor' = pull.last /\ cursor' \in Nat
         /\ pull' \in PullRecord /\ pull'.pc \in {"idle", "ask"} /\ pull'.since \in {0, pull.last}
         /\ pull'.pc = "idle" => pull'.since = 0
         /\ pull'.last = 0 /\ pull'.records = {} /\ pull'.payload = [r \in Records |-> 0]
<1>1. cursor' = pull.last /\ pull.last \in Nat
  BY PullFields DEF Advance
<1>2. CASE pull.more
  <2>1. pull' = [NoPage EXCEPT !.pc = "ask", !.since = pull.last]
    BY <1>2 DEF Advance
  <2> QED BY <1>1, <2>1, AsksMoves
<1>3. CASE ~pull.more
  <2>1. pull' = NoPage
    BY <1>3 DEF Advance
  <2> QED BY <1>1, <2>1, PullEnds
<1> QED BY <1>2, <1>3

LEMMA BeginMoves ==
  ASSUME DesktopTyped, PullFromCursor \/ PullFromZero
  PROVE  /\ pull' \in PullRecord /\ pull'.pc = "ask" /\ pull'.since \in {0, cursor}
         /\ pull'.last = 0 /\ pull'.records = {} /\ pull'.payload = [r \in Records |-> 0]
         /\ UNCHANGED <<copy, cursor, pages, deferred, quarantined, seen, withheld>>
<1>1. PICK a \in {0, cursor} : Begin(a)
  BY DEF PullFromCursor, PullFromZero
<1>2. a \in Nat
  BY DEF DesktopTyped
<1>3. pull' = [NoPage EXCEPT !.pc = "ask", !.since = a]
  BY <1>1 DEF Begin
<1>4. UNCHANGED <<copy, cursor, pages, deferred, quarantined, seen, withheld>>
  BY <1>1 DEF Begin
<1> QED BY <1>2, <1>3, <1>4, AsksMoves

LEMMA FollowsTyped ==
  ASSUME Typed, Follows PROVE DesktopTyped'
<1> USE DEF Typed
<1>1. CASE PullFromCursor \/ PullFromZero
  BY <1>1, BeginMoves DEF DesktopTyped
<1>2. CASE ReadRows
  <2>1. UNCHANGED <<copy, cursor, pages, deferred, quarantined, withheld>>
    BY <1>2 DEF ReadRows
  <2> QED BY <1>2, <2>1, ReadMoves DEF DesktopTyped
<1>3. CASE Fetch \/ FetchFails
  <2>1. UNCHANGED <<copy, cursor, pages, deferred, quarantined, seen, withheld>>
    BY <1>3 DEF Fetch, FetchFails, Serve
  <2> QED BY <1>3, <2>1, FetchMoves DEF DesktopTyped
<1>4. CASE SkipPage
  <2>1. UNCHANGED <<copy, cursor, pages, deferred, quarantined, seen, withheld>>
    BY <1>4 DEF SkipPage
  <2>2. pull' \in PullRecord /\ pull'.records = {}
    BY <1>4, AppliedMoves DEF SkipPage
  <2> QED BY <2>1, <2>2 DEF DesktopTyped
<1>5. CASE ApplyPage
  <2>1. UNCHANGED <<cursor, pages, quarantined, seen>>
    BY <1>5 DEF ApplyPage
  <2>2. \A r \in Records : deferred'[r].value > 0 => deferred'[r].page > 0
    <3>1. ASSUME NEW r \in Records, deferred'[r].value > 0 PROVE deferred'[r].page > 0
      <4>1. CASE deferred'[r] = deferred[r]
        BY <3>1, <4>1 DEF DesktopTyped
      <4>2. CASE r \in Arrived /\ deferred'[r].page = pull.last
        BY <4>2 DEF Arrived, DesktopTyped
      <4> QED BY <1>5, <4>1, <4>2, ApplyMoves
    <3> QED BY <3>1
  <2>3. withheld' \subseteq Records
    BY <1>5, PullFields DEF ApplyPage, DesktopTyped
  <2> QED BY <1>5, <2>1, <2>2, <2>3, ApplyMoves DEF DesktopTyped
<1>6. CASE MarkPage
  <2>1. UNCHANGED <<copy, cursor, deferred, quarantined, seen, withheld>>
    BY <1>6 DEF MarkPage
  <2>2. pages' \subseteq Nat \X Nat
    BY <1>6, PullFields DEF MarkPage, PageKey, DesktopTyped
  <2> QED BY <1>6, <2>1, <2>2, MarkMoves DEF DesktopTyped
<1>7. CASE Advance
  <2>1. UNCHANGED <<copy, pages, deferred, quarantined, seen, withheld>>
    BY <1>7 DEF Advance
  <2> QED BY <1>7, <2>1, AdvanceMoves DEF DesktopTyped
<1>8. CASE Cut
  <2>1. UNCHANGED <<copy, cursor, pages, deferred, quarantined, seen, withheld>> /\ pull' = NoPage
    BY <1>8 DEF Cut
  <2> QED BY <2>1, PullEnds DEF DesktopTyped
<1>9. ASSUME NEW r \in Records, Retries(r) PROVE DesktopTyped'
  <2>1. \A s \in Records : deferred'[s].value > 0 => deferred'[s].page > 0
    BY <1>9, RetryMoves DEF DesktopTyped
  <2>2. pages' \subseteq Nat \X Nat
    BY <1>9, RetryMoves DEF DesktopTyped
  <2> QED BY <1>9, <2>1, <2>2, RetryMoves DEF DesktopTyped
<1> QED BY <1>1, <1>2, <1>3, <1>4, <1>5, <1>6, <1>7, <1>8, <1>9 DEF Follows, PullStep

LEMMA NextIs == Next <=> (\E r \in Records : Writes(r)) \/ Follows
BY DEF Next, Writes, Follows, Retries

LEMMA TypedStep == Typed /\ [Next]_vars => Typed'
<1>1. ASSUME Typed, NEW r \in Records, Writes(r) PROVE Typed'
  BY <1>1, WritesTyped
<1>2. ASSUME Typed, Follows PROVE Typed'
  BY <1>2, CloudStays, FollowsTyped DEF Typed
<1>3. ASSUME Typed, UNCHANGED vars PROVE Typed'
  BY <1>3 DEF Typed, CloudTyped, NumbersOwned, DesktopTyped, BoundsTyped, vars
<1> QED BY <1>1, <1>2, <1>3, NextIs

LEMMA InitTyped == Init => Typed
<1> SUFFICES ASSUME Init PROVE Typed
  OBVIOUS
<1>1. CloudTyped
  BY FeedAssumption DEF Init, CloudTyped
<1>2. NumbersOwned
  BY FeedAssumption, FS_EmptySet DEF Init, NumbersOwned
<1>3. DesktopTyped
  BY NoPageTyped DEF Init, DesktopTyped, Nothing
<1>4. BoundsTyped
  BY FeedAssumption DEF Init, BoundsTyped
<1> QED BY <1>1, <1>2, <1>3, <1>4 DEF Typed

LEMMA TypedOK == Typed => TypeOK
BY DEF Typed, CloudTyped, NumbersOwned, DesktopTyped, BoundsTyped, PullRecord, TypeOK

\* Every variable of the feed and of the desktop keeps its type, whatever is written, pulled, lost
\* or put aside; and a number that an open push has taken is in nobody's hands but its own.
THEOREM TypeCorrect == Spec => []TypeOK
BY InitTyped, TypedStep, TypedOK, PTL DEF Spec

-----------------------------------------------------------------------------
(* A stamped copy never goes back. *)

LEMMA FollowsForward ==
  ASSUME Typed, Follows PROVE \A r \in Stamped : copy'[r] >= copy[r]
<1>1. copy \in [Records -> Nat] /\ Stamped \subseteq Records
  BY FeedAssumption DEF Typed, DesktopTyped
<1>2. CASE copy' = copy
  BY <1>1, <1>2
<1>3. CASE ApplyPage
  BY <1>1, <1>3, ApplyMoves DEF Typed
<1>4. CASE \E r \in Records : Retries(r)
  BY <1>4, RetryMoves DEF Typed
<1>5. copy' = copy \/ ApplyPage \/ \E r \in Records : Retries(r)
  BY DEF Follows, PullFromCursor, PullFromZero, Begin, PullStep, ReadRows, Fetch, FetchFails,
         Serve, SkipPage, MarkPage,
         Advance, Cut
<1> QED BY <1>2, <1>3, <1>4, <1>5

-----------------------------------------------------------------------------
(* What the cursor has passed. *)

\* A step that keeps what is accounted for: rows stay, a new one below what was served is late,
\* and nothing that was written, put aside or given up is forgotten; what a record that is no longer
\* withheld had before is dealt with now.
Keeps ==
  /\ \A n \in DOMAIN feed : n \in DOMAIN feed' /\ feed'[n] = feed[n]
  /\ \A n \in DOMAIN feed' \ DOMAIN feed : n =< seen => n \in late'
  /\ late \subseteq late'
  /\ \A r \in Stamped : copy'[r] >= copy[r]
  /\ \A r \in Stamped : \/ deferred'[r].value >= deferred[r].value
                        \/ copy'[r] >= deferred[r].value
                        \/ r \in quarantined'
  /\ quarantined \subseteq quarantined'
  /\ \A n \in DOMAIN feed :
       n =< seen /\ n \notin late /\ feed[n].record \in Stamped \cap (withheld \ withheld') =>
         AccountedFor(n)'

DoneNext(lo, hi) ==
  \A n \in DOMAIN feed' :
    lo < n /\ n =< hi /\ n \notin late' /\ feed'[n].record \in Stamped \ withheld' => AccountedFor(n)'

LEMMA AccountKept ==
  ASSUME Typed, Typed', Keeps, NEW n \in DOMAIN feed, feed[n].record \in Stamped, AccountedFor(n)
  PROVE  AccountedFor(n)'
<1> DEFINE r == feed[n].record
           v == feed[n].value
<1>1. r \in Stamped /\ r \in Records /\ v \in Nat /\ feed'[n].record = r /\ feed'[n].value = v
  BY DEF Keeps, Typed, CloudTyped
<1>2. /\ copy[r] \in Nat /\ copy'[r] \in Nat /\ deferred[r].value \in Nat /\ deferred'[r].value \in Nat
  BY <1>1 DEF Typed, DesktopTyped
<1>3. copy[r] >= v \/ deferred[r].value >= v \/ r \in quarantined
  BY DEF AccountedFor
<1>4. /\ copy'[r] >= copy[r]
      /\ \/ deferred'[r].value >= deferred[r].value
         \/ copy'[r] >= deferred[r].value
         \/ r \in quarantined'
      /\ quarantined \subseteq quarantined'
  BY <1>1 DEF Keeps
<1> HIDE DEF r, v
<1>5. copy'[r] >= v \/ deferred'[r].value >= v \/ r \in quarantined'
  BY <1>1, <1>2, <1>3, <1>4
<1> QED BY <1>1, <1>5 DEF AccountedFor

LEMMA DoneKept ==
  ASSUME Typed, Typed', Keeps, NEW lo \in Nat, NEW hi \in Nat, hi =< seen, Done(lo, hi)
  PROVE  DoneNext(lo, hi)
<1> SUFFICES ASSUME NEW n \in DOMAIN feed', lo < n, n =< hi, n \notin late',
                    feed'[n].record \in Stamped \ withheld'
             PROVE  AccountedFor(n)'
  BY DEF DoneNext
<1>1. n \in Nat /\ seen \in Nat
  BY FeedFinite DEF Typed, DesktopTyped, CloudTyped
<1>2. n \in DOMAIN feed /\ n \notin late /\ feed'[n] = feed[n]
  BY <1>1 DEF Keeps
<1>3. CASE feed[n].record \in withheld
  BY <1>1, <1>2, <1>3 DEF Keeps
<1>4. CASE feed[n].record \notin withheld
  <2>1. AccountedFor(n)
    BY <1>2, <1>4 DEF Done
  <2> QED BY <1>2, <2>1, AccountKept
<1> QED BY <1>3, <1>4

\* Every range that was done stays done.
LEMMA DealtKept ==
  ASSUME Typed, Typed', Served, Dealt, Keeps
  PROVE  /\ DoneNext(0, cursor)
         /\ \A p \in pages : DoneNext(p[1], p[2])
         /\ pull.pc \in {"mark", "advance"} => DoneNext(pull.since, pull.last)
<1>1. /\ cursor \in Nat /\ pull.since \in Nat /\ pull.last \in Nat
      /\ \A p \in pages : p[1] \in Nat /\ p[2] \in Nat
  BY PullFields DEF Typed, DesktopTyped
<1> QED BY <1>1, DoneKept DEF Served, Dealt

-----------------------------------------------------------------------------
LEMMA WritesMoves ==
  ASSUME Typed, Served, NEW r \in Records, Writes(r)
  PROVE  /\ UNCHANGED desktop
         /\ \A s \in Records : cloud'[s] >= cloud[s]
         /\ \A n \in DOMAIN feed : n \in DOMAIN feed' /\ feed'[n] = feed[n]
         /\ \A n \in DOMAIN feed' \ DOMAIN feed :
              feed'[n].value = cloud'[feed'[n].record] /\ (n =< seen => n \in late')
         /\ late \subseteq late'
<1>1. /\ cloud \in [Records -> Nat] /\ seen \in Nat /\ (seen = 0 \/ seen \in DOMAIN feed)
      /\ DOMAIN feed \subseteq Nat
  BY FeedFinite DEF Typed, CloudTyped, DesktopTyped, Served
<1>2. UNCHANGED desktop
  BY DEF Writes, TakeNumber, Commit, Abort, Write, Capture, CaptureLost
<1>3. \A s \in Records : cloud'[s] >= cloud[s]
  BY <1>1 DEF Writes, TakeNumber, Commit, Abort, Write, Capture, CaptureLost
<1>4. ASSUME NEW k \in Nat, k > 0, k \notin DOMAIN feed, Emit(k, r)
      PROVE  /\ \A n \in DOMAIN feed : n \in DOMAIN feed' /\ feed'[n] = feed[n]
             /\ \A n \in DOMAIN feed' \ DOMAIN feed :
                  feed'[n].value = cloud'[feed'[n].record] /\ (n =< seen => n \in late')
             /\ late \subseteq late'
  <2>1. /\ DOMAIN feed' = DOMAIN feed \cup {k}
        /\ feed'[k] = [record |-> r, value |-> cloud'[r]]
        /\ \A n \in DOMAIN feed : feed'[n] = feed[n]
        /\ late \subseteq late' /\ (k < seen => k \in late')
    BY <1>4, Emits DEF Typed
  <2>2. k =< seen => k \in late'
    BY <1>1, <1>4, <2>1
  <2> QED BY <2>1, <2>2
<1>5. CASE Commit(r)
  <2>1. open[r] \in Nat /\ open[r] > 0 /\ open[r] \notin DOMAIN feed
    BY <1>5, FeedAssumption DEF Commit, Typed, NumbersOwned
  <2> QED BY <1>2, <1>3, <1>4, <1>5, <2>1 DEF Commit
<1>6. CASE Capture(r)
  <2>1. next \in Nat /\ next > 0 /\ next \notin DOMAIN feed
    BY FeedAssumption DEF Typed, CloudTyped
  <2> QED BY <1>2, <1>3, <1>4, <1>6, <2>1 DEF Capture
<1>7. CASE TakeNumber(r) \/ Abort(r) \/ Write(r) \/ CaptureLost(r)
  <2>1. feed' = feed /\ late' = late
    BY <1>7 DEF TakeNumber, Abort, Write, CaptureLost
  <2> QED BY <1>2, <1>3, <2>1
<1> QED BY <1>5, <1>6, <1>7 DEF Writes

LEMMA WritesInv ==
  ASSUME FeedInv, Typed', NEW r \in Records, Writes(r)
  PROVE  FeedInv'
<1>1. /\ UNCHANGED desktop
      /\ \A s \in Records : cloud'[s] >= cloud[s]
      /\ \A n \in DOMAIN feed : n \in DOMAIN feed' /\ feed'[n] = feed[n]
      /\ \A n \in DOMAIN feed' \ DOMAIN feed :
           feed'[n].value = cloud'[feed'[n].record] /\ (n =< seen => n \in late')
      /\ late \subseteq late'
  BY WritesMoves DEF FeedInv
<1>2. /\ copy' = copy /\ cursor' = cursor /\ pages' = pages /\ deferred' = deferred
      /\ quarantined' = quarantined /\ pull' = pull /\ seen' = seen /\ withheld' = withheld
  BY <1>1 DEF desktop
<1>3. /\ \A s \in Records : cloud[s] \in Nat /\ cloud'[s] \in Nat /\ deferred[s].value \in Nat
                            /\ pull.payload[s] \in Nat /\ copy[s] \in Nat
      /\ \A n \in DOMAIN feed : feed[n].record \in Records /\ feed[n].value \in Nat
      /\ \A n \in DOMAIN feed' : n \in Nat /\ feed'[n].record \in Records /\ feed'[n].value \in Nat
      /\ pull.last \in Nat /\ seen \in Nat /\ Stamped \subseteq Records
  <2>1. \A n \in DOMAIN feed' : n \in Nat
    BY FeedAssumption DEF FeedInv, Typed, CloudTyped
  <2>2. \A n \in DOMAIN feed' : feed'[n].record \in Records /\ feed'[n].value \in Nat
    BY DEF Typed, CloudTyped
  <2> QED BY <2>1, <2>2, PullFields, FeedAssumption DEF FeedInv, Typed, CloudTyped, DesktopTyped
<1>4. Current'
  <2>1. \A n \in DOMAIN feed' : feed'[n].value =< cloud'[feed'[n].record]
    <3>1. ASSUME NEW n \in DOMAIN feed PROVE feed'[n].value =< cloud'[feed'[n].record]
      BY <1>1, <1>3, <3>1 DEF FeedInv, Current
    <3>2. ASSUME NEW n \in DOMAIN feed' \ DOMAIN feed PROVE feed'[n].value =< cloud'[feed'[n].record]
      BY <1>1, <1>3
    <3> QED BY <3>1, <3>2
  <2>2. \A s \in Records : deferred'[s].value =< cloud'[s] /\ pull'.payload[s] =< cloud'[s]
    BY <1>1, <1>2, <1>3 DEF FeedInv, Current
  <2>3. Arrived' = Arrived
    BY <1>2 DEF Arrived
  <2> QED BY <1>2, <2>1, <2>2, <2>3 DEF FeedInv, Current
<1>5. Served'
  BY <1>1, <1>2 DEF FeedInv, Served
<1>6. Brought'
  <2>1. ASSUME NEW n \in DOMAIN feed', n =< seen, n \notin late'
        PROVE  n \in DOMAIN feed /\ n \notin late /\ feed'[n] = feed[n]
    BY <1>1, <2>1
  <2>2. pull.last =< seen /\ \A n \in DOMAIN feed' : n =< pull.last => n =< seen
    BY <1>3 DEF FeedInv, Served
  <2>3. Arrived' = Arrived
    BY <1>2 DEF Arrived
  <2> QED BY <1>2, <2>1, <2>2, <2>3 DEF FeedInv, Brought
<1>7. Dealt'
  <2>1. \A s \in Records : copy'[s] >= copy[s] /\ deferred'[s].value >= deferred[s].value
    BY <1>2, <1>3
  <2>2. Keeps
    BY <1>1, <1>2, <1>3, <2>1 DEF Keeps
  <2> QED BY <1>2, <2>2, DealtKept DEF FeedInv, Dealt, Done, DoneNext
<1> QED BY <1>4, <1>5, <1>6, <1>7 DEF FeedInv

-----------------------------------------------------------------------------
\* What is applied deals with every row of the records that came, of whatever page.
LEMMA ArrivalsDealt ==
  ASSUME FeedInv, ApplyPage, NEW n \in DOMAIN feed, n =< seen, n \notin late,
         feed[n].record \in Stamped, feed[n].record \in Arrived
  PROVE  AccountedFor(n)'
<1> DEFINE r == feed[n].record
           v == feed[n].value
<1>1. feed' = feed /\ pull.pc = "apply" /\ Stamped \subseteq Records /\ Typed
  BY FeedAssumption DEF ApplyPage, cloudside, FeedInv
<1>2. r \in Stamped /\ r \in Records /\ r \in Arrived /\ v =< pull.payload[r]
  BY <1>1 DEF FeedInv, Brought
<1>3. v \in Nat /\ pull.payload[r] \in Nat
  BY <1>1, <1>2, PullFields DEF Typed, CloudTyped
<1>4. copy'[r] \in Nat /\ deferred'[r].value \in Nat
  BY <1>1, <1>2, ApplyMoves DEF Typed
<1>5. \/ copy'[r] >= pull.payload[r]
      \/ deferred'[r].value = pull.payload[r]
  BY <1>1, <1>2, ApplyMoves DEF Typed
<1>6. feed'[n].record = r /\ feed'[n].value = v
  BY <1>1
<1> HIDE DEF r, v
<1>7. copy'[r] >= v \/ deferred'[r].value >= v
  BY <1>2, <1>3, <1>4, <1>5
<1> QED BY <1>6, <1>7 DEF AccountedFor

LEMMA FollowsKeeps ==
  ASSUME FeedInv, Follows PROVE Keeps
<1>1. /\ UNCHANGED cloudside /\ \A r \in Stamped : copy'[r] >= copy[r]
      /\ Stamped \subseteq Records
  BY CloudStays, FollowsForward, FeedAssumption DEF FeedInv
<1>2. feed' = feed /\ late' = late
  BY <1>1 DEF cloudside
<1>3. /\ \A r \in Stamped : \/ deferred'[r].value >= deferred[r].value
                            \/ copy'[r] >= deferred[r].value
                            \/ r \in quarantined'
      /\ quarantined \subseteq quarantined'
  <2>1. \A r \in Records : deferred[r].value \in Nat
    BY DEF FeedInv, Typed, DesktopTyped
  <2>2. CASE deferred' = deferred /\ quarantined' = quarantined
    BY <1>1, <2>1, <2>2
  <2>3. CASE ApplyPage
    <3>1. pull.pc = "apply" /\ quarantined' = quarantined
      BY <2>3 DEF ApplyPage
    <3>2. \A r \in Arrived : deferred[r].value =< pull.payload[r]
      BY <3>1 DEF FeedInv, Current
    <3>3. \A r \in Records : \/ deferred'[r] = deferred[r]
                             \/ r \in Arrived /\ deferred'[r].value = pull.payload[r]
      BY <2>3, ApplyMoves DEF FeedInv, Typed
    <3>4. pull.payload \in [Records -> Nat]
      BY PullFields DEF FeedInv, Typed
    <3> QED BY <1>1, <2>1, <3>1, <3>2, <3>3, <3>4
  <2>4. ASSUME NEW r \in Records, Retries(r)
        PROVE  /\ \A s \in Stamped : \/ deferred'[s].value >= deferred[s].value
                                     \/ copy'[s] >= deferred[s].value
                                     \/ s \in quarantined'
               /\ quarantined \subseteq quarantined'
    BY <1>1, <2>1, <2>4, RetryMoves DEF FeedInv, Typed
  <2>5. \/ deferred' = deferred /\ quarantined' = quarantined
        \/ ApplyPage
        \/ \E r \in Records : Retries(r)
    BY DEF Follows, PullFromCursor, PullFromZero, Begin, PullStep, ReadRows, Fetch, FetchFails,
         Serve, SkipPage,
           MarkPage, Advance, Cut
  <2> QED BY <2>2, <2>3, <2>4, <2>5
<1>4. ASSUME NEW n \in DOMAIN feed, n =< seen, n \notin late,
             feed[n].record \in Stamped \cap (withheld \ withheld')
      PROVE  AccountedFor(n)'
  <2>1. withheld' = withheld \/ ApplyPage
    BY DEF Follows, PullFromCursor, PullFromZero, Begin, PullStep, ReadRows, Fetch, FetchFails,
           Serve, SkipPage, MarkPage, Advance, Cut, Retries, RetryDeferred, UnStrand, Quarantine
  <2>2. ApplyPage /\ feed[n].record \in Arrived
    BY <1>4, <2>1, ApplyMoves DEF FeedInv, Typed
  <2> QED BY <1>4, <2>2, ArrivalsDealt
<1> QED BY <1>1, <1>2, <1>3, <1>4 DEF Keeps

\* The numbers and values of the desktop, as numbers.
LEMMA Ranges ==
  ASSUME Typed
  PROVE  /\ cursor \in Nat /\ seen \in Nat /\ pull.since \in Nat /\ pull.last \in Nat
         /\ \A p \in pages : p[1] \in Nat /\ p[2] \in Nat
         /\ DOMAIN feed \subseteq Nat
         /\ \A n \in DOMAIN feed : feed[n].record \in Records /\ feed[n].value \in Nat /\ n > 0
         /\ \A r \in Records : cloud[r] \in Nat /\ deferred[r].value \in Nat /\ pull.payload[r] \in Nat
<1>1. \A n \in DOMAIN feed : n \in Nat /\ n > 0
  BY FeedAssumption DEF Typed, CloudTyped
<1> QED BY <1>1, PullFields DEF Typed, CloudTyped, DesktopTyped

LEMMA FollowsCurrent ==
  ASSUME FeedInv, Follows PROVE Current'
<1>1. cloud' = cloud /\ feed' = feed
  BY CloudStays DEF FeedInv, cloudside
<1>2. Typed /\ Current
  BY DEF FeedInv
<1> SUFFICES
      /\ \A r \in Records : deferred'[r].value =< cloud[r] /\ pull'.payload[r] =< cloud[r]
      /\ pull'.pc = "apply" => \A r \in Arrived' : deferred'[r].value =< pull'.payload[r]
  BY <1>1, <1>2 DEF Current
<1>3. CASE PullFromCursor \/ PullFromZero \/ Cut \/ Advance
  <2>1. deferred' = deferred /\ pull'.payload = [r \in Records |-> 0] /\ pull'.pc # "apply"
    <3>1. CASE PullFromCursor \/ PullFromZero
      BY <1>2, <3>1, BeginMoves DEF Typed
    <3>2. CASE Cut
      BY <3>2, PullEnds DEF Cut
    <3>3. CASE Advance
      BY <1>2, <3>3, AdvanceMoves DEF Advance, Typed
    <3> QED BY <1>3, <3>1, <3>2, <3>3
  <2> QED BY <1>2, <2>1, Ranges DEF Current
<1>4. CASE ReadRows
  <2>1. deferred' = deferred /\ pull'.payload = pull.payload /\ pull'.pc # "apply"
    BY <1>2, <1>4, ReadMoves DEF ReadRows, Typed
  <2> QED BY <1>2, <2>1 DEF Current
<1>5. CASE Fetch \/ FetchFails
  <2>1. deferred' = deferred /\ \A r \in Records : pull'.payload[r] \in {0, cloud[r]}
    BY <1>2, <1>5, FetchMoves DEF Typed
  <2>2. \A r \in Arrived' : r \in Records /\ pull'.payload[r] = cloud[r]
    <3>1. pull'.records \subseteq Records
      BY <1>2, <1>5, FetchMoves, PullFields DEF Typed
    <3> QED BY <2>1, <3>1 DEF Arrived
  <2> QED BY <1>2, <2>1, <2>2, Ranges DEF Current
<1>6. CASE SkipPage
  <2>1. deferred' = deferred /\ pull'.payload = [r \in Records |-> 0] /\ pull'.pc # "apply"
    BY <1>2, <1>6, AppliedMoves DEF SkipPage, Typed
  <2> QED BY <1>2, <2>1, Ranges DEF Current
<1>7. CASE ApplyPage
  <2>1. pull'.payload = [r \in Records |-> 0] /\ pull'.pc # "apply"
    BY <1>2, <1>7, ApplyMoves DEF Typed
  <2>2. \A r \in Records : deferred'[r] = deferred[r] \/ deferred'[r].value = pull.payload[r]
    BY <1>2, <1>7, ApplyMoves DEF Typed
  <2> QED BY <1>2, <2>1, <2>2, Ranges DEF Current
<1>8. CASE MarkPage
  <2>1. deferred' = deferred /\ pull'.payload = pull.payload /\ pull'.pc # "apply"
    BY <1>2, <1>8, MarkMoves DEF MarkPage, Typed
  <2> QED BY <1>2, <2>1 DEF Current
<1>9. ASSUME NEW r \in Records, Retries(r)
      PROVE  /\ \A s \in Records : deferred'[s].value =< cloud[s] /\ pull'.payload[s] =< cloud[s]
             /\ pull'.pc = "apply" => \A s \in Arrived' : deferred'[s].value =< pull'.payload[s]
  <2>1. /\ deferred' \in [Records -> [value : Nat, page : Nat]]
        /\ \A s \in Records : deferred'[s].value > 0 => deferred'[s].value = deferred[s].value
        /\ pull' = pull /\ pull.pc = "idle"
    BY <1>2, <1>9, RetryMoves DEF Typed
  <2>2. \A s \in Records : deferred'[s].value \in Nat
    BY <2>1
  <2> QED BY <1>2, <2>1, <2>2, Ranges DEF Current
<1> QED BY <1>3, <1>4, <1>5, <1>6, <1>7, <1>8, <1>9 DEF Follows, PullStep

LEMMA FollowsServed ==
  ASSUME FeedInv, Follows PROVE Served'
<1>1. feed' = feed /\ Typed /\ Served
  BY CloudStays DEF FeedInv, cloudside
<1>2. CASE PullFromCursor \/ PullFromZero
  BY <1>1, <1>2, BeginMoves, Ranges DEF Served, Typed
<1>3. CASE ReadRows
  <2>1. UNCHANGED <<cursor, pages>>
    BY <1>3 DEF ReadRows
  <2>2. /\ pull'.pc = "fetch" /\ pull'.since = pull.since
        /\ pull'.last >= pull.since /\ (pull'.last # pull.since => pull'.last \in DOMAIN feed)
        /\ seen' \in Nat /\ seen' >= seen /\ seen' >= pull'.last /\ seen' \in {seen, pull'.last}
        /\ pull'.last \in Nat
    BY <1>1, <1>3, ReadMoves DEF Typed, PullRecord
  <2>3. seen' = 0 \/ seen' \in DOMAIN feed
    <3>1. CASE seen' = seen
      BY <1>1, <3>1 DEF Served
    <3>2. CASE seen' = pull'.last /\ pull'.last # pull.since
      BY <2>2, <3>2
    <3>3. CASE seen' = pull'.last /\ pull'.last = pull.since
      <4>1. seen' = seen
        BY <1>1, <2>2, <3>3, Ranges DEF Served
      <4> QED BY <1>1, <4>1 DEF Served
    <3> QED BY <2>2, <3>1, <3>2, <3>3
  <2> QED BY <1>1, <2>1, <2>2, <2>3, Ranges DEF Served
<1>4. CASE Fetch \/ FetchFails
  <2> QED BY <1>1, <1>4, FetchMoves DEF Served, Typed
<1>5. CASE SkipPage
  <2>1. UNCHANGED <<cursor, pages, seen>>
    BY <1>5 DEF SkipPage
  <2> QED BY <1>1, <1>5, <2>1, AppliedMoves DEF Served, Typed, SkipPage
<1>6. CASE ApplyPage
  <2>1. UNCHANGED <<cursor, pages, seen>>
    BY <1>6 DEF ApplyPage
  <2> QED BY <1>1, <1>6, <2>1, ApplyMoves DEF Served, Typed
<1>7. CASE MarkPage
  <2>1. UNCHANGED <<cursor, seen>> /\ pages' \subseteq pages \cup {<<pull.since, pull.last>>}
    BY <1>7 DEF MarkPage, PageKey
  <2> QED BY <1>1, <1>7, <2>1, MarkMoves DEF Served, Typed
<1>8. CASE Advance
  <2>1. UNCHANGED <<pages, seen>>
    BY <1>8 DEF Advance
  <2> QED BY <1>1, <1>8, <2>1, AdvanceMoves, Ranges DEF Served, Typed
<1>9. CASE Cut
  <2>1. UNCHANGED <<cursor, pages, seen>> /\ pull' = NoPage
    BY <1>9 DEF Cut
  <2> QED BY <1>1, <2>1, PullEnds, Ranges DEF Served
<1>10. ASSUME NEW r \in Records, Retries(r) PROVE Served'
  BY <1>1, <1>10, RetryMoves, Ranges DEF Served, Typed
<1> QED BY <1>2, <1>3, <1>4, <1>5, <1>6, <1>7, <1>8, <1>9, <1>10 DEF Follows, PullStep

LEMMA FollowsBrought ==
  ASSUME FeedInv, Follows PROVE Brought'
<1>1. feed' = feed /\ late' = late /\ cloud' = cloud /\ Typed
  BY CloudStays DEF FeedInv, cloudside
<1>2. CASE ReadRows
  BY <1>1, <1>2, ReadMoves DEF Brought, Typed
<1>3. CASE Fetch \/ FetchFails
  <2>1. /\ pull.pc = "fetch" /\ pull'.since = pull.since /\ pull'.last = pull.last
        /\ pull'.records = pull.records
        /\ \A r \in Records : pull'.payload[r] \in {0, cloud[r]}
    BY <1>1, <1>3, FetchMoves DEF Typed
  <2>2. \A n \in DOMAIN feed : feed[n].record \in Records /\ feed[n].value =< cloud[feed[n].record]
    BY <1>1, Ranges DEF FeedInv, Current
  <2>3. \A n \in DOMAIN feed' :
          feed'[n].record \in Arrived' => feed'[n].value =< pull'.payload[feed'[n].record]
    BY <1>1, <2>1, <2>2 DEF Arrived
  <2> QED BY <1>1, <2>1, <2>3 DEF FeedInv, Brought
<1>4. CASE pull'.pc \notin {"fetch", "apply"}
  BY <1>4 DEF Brought
<1>5. pull'.pc \notin {"fetch", "apply"} \/ ReadRows \/ Fetch \/ FetchFails
  <2>1. CASE PullFromCursor \/ PullFromZero
    BY <1>1, <2>1, BeginMoves DEF Typed
  <2>2. CASE SkipPage
    BY <1>1, <2>2, AppliedMoves DEF SkipPage, Typed
  <2>3. CASE ApplyPage
    BY <1>1, <2>3, ApplyMoves DEF Typed
  <2>4. CASE MarkPage
    BY <1>1, <2>4, MarkMoves DEF Typed
  <2>5. CASE Advance
    BY <1>1, <2>5, AdvanceMoves DEF Typed
  <2>6. CASE Cut
    BY <2>6, PullEnds DEF Cut
  <2>7. CASE \E r \in Records : Retries(r)
    BY <1>1, <2>7, RetryMoves DEF Typed
  <2> QED BY <2>1, <2>2, <2>3, <2>4, <2>5, <2>6, <2>7 DEF Follows, PullStep
<1> QED BY <1>2, <1>3, <1>4, <1>5

\* A page that has been applied leaves its range done.
LEMMA AppliedDone ==
  ASSUME FeedInv, Typed', ApplyPage PROVE DoneNext(pull.since, pull.last)
<1>1. feed' = feed /\ late' = late /\ pull.pc = "apply"
  BY DEF ApplyPage, cloudside
<1> SUFFICES ASSUME NEW n \in DOMAIN feed, pull.since < n, n =< pull.last, n \notin late,
                    feed[n].record \in Stamped \ withheld'
             PROVE  AccountedFor(n)'
  BY <1>1 DEF DoneNext
<1>2. feed[n].record \in pull.records
  BY <1>1 DEF FeedInv, Brought
<1>3. feed[n].record \in Arrived
  BY <1>2, ApplyMoves DEF FeedInv, Typed
<1>4. n =< seen
  BY Ranges DEF FeedInv, Served
<1> QED BY <1>3, <1>4, ArrivalsDealt

LEMMA FollowsDealt ==
  ASSUME FeedInv, Typed', Follows PROVE Dealt'
<1>1. /\ DoneNext(0, cursor)
      /\ \A p \in pages : DoneNext(p[1], p[2])
      /\ pull.pc \in {"mark", "advance"} => DoneNext(pull.since, pull.last)
  BY FollowsKeeps, DealtKept DEF FeedInv
<1>2. feed' = feed /\ Typed /\ Served
  BY CloudStays DEF FeedInv, cloudside
<1>3. DoneNext(0, cursor')
  <2>1. CASE cursor' \in Nat /\ cursor' =< cursor
    <3>1. \A n \in DOMAIN feed' : n \in Nat
      BY <1>2, Ranges
    <3> QED BY <1>1, <1>2, <2>1, <3>1, Ranges DEF DoneNext
  <2>2. CASE Advance
    <3>1. cursor' = pull.last /\ DoneNext(pull.since, pull.last) /\ pull.since =< cursor
      BY <1>1, <1>2, <2>2 DEF Advance, Served
    <3>2. ASSUME NEW n \in DOMAIN feed', 0 < n, n =< pull.last, n \notin late',
                 feed'[n].record \in Stamped \ withheld'
          PROVE  AccountedFor(n)'
      <4>1. n \in Nat /\ pull.since \in Nat /\ cursor \in Nat
        BY <1>2, Ranges
      <4>2. CASE pull.since < n
        BY <3>1, <3>2, <4>2 DEF DoneNext
      <4>3. CASE n =< cursor
        BY <1>1, <3>2, <4>3 DEF DoneNext
      <4> QED BY <3>1, <4>1, <4>2, <4>3
    <3> QED BY <3>1, <3>2 DEF DoneNext
  <2>3. cursor' = cursor \/ Advance \/ \E r \in Records : Retries(r)
    BY DEF Follows, PullFromCursor, PullFromZero, Begin, PullStep, ReadRows, Fetch, FetchFails,
         Serve, SkipPage,
           ApplyPage, MarkPage, Cut
  <2>4. cursor \in Nat
    BY <1>2, Ranges
  <2> QED BY <1>2, <2>1, <2>2, <2>3, <2>4, RetryMoves DEF Typed
<1>4. \A p \in pages' : DoneNext(p[1], p[2])
  <2>1. CASE pages' \subseteq pages
    BY <1>1, <2>1
  <2>2. CASE MarkPage
    <3>1. pages' \subseteq pages \cup {<<pull.since, pull.last>>} /\ pull.pc = "mark"
      BY <2>2 DEF MarkPage, PageKey
    <3> QED BY <1>1, <3>1
  <2>3. pages' \subseteq pages \/ MarkPage \/ \E r \in Records : Retries(r)
    BY DEF Follows, PullFromCursor, PullFromZero, Begin, PullStep, ReadRows, Fetch, FetchFails,
         Serve, SkipPage,
           ApplyPage, Advance, Cut
  <2> QED BY <1>2, <2>1, <2>2, <2>3, RetryMoves DEF Typed
<1>5. pull'.pc \in {"mark", "advance"} => DoneNext(pull'.since, pull'.last)
  <2>1. CASE SkipPage
    <3>1. PageKey \in pages /\ pull'.since = pull.since /\ pull'.last = pull.last
      BY <1>2, <2>1, AppliedMoves DEF SkipPage, Typed
    <3>2. DoneNext(PageKey[1], PageKey[2])
      BY <1>1, <3>1
    <3> QED BY <3>1, <3>2 DEF PageKey
  <2>2. CASE ApplyPage
    <3>1. pull'.since = pull.since /\ pull'.last = pull.last
      BY <1>2, <2>2, ApplyMoves DEF Typed
    <3> QED BY <2>2, <3>1, AppliedDone
  <2>3. CASE MarkPage
    <3>1. pull'.since = pull.since /\ pull'.last = pull.last /\ pull.pc = "mark"
      BY <1>2, <2>3, MarkMoves DEF MarkPage, Typed
    <3> QED BY <1>1, <3>1
  <2>4. pull'.pc \notin {"mark", "advance"} \/ SkipPage \/ ApplyPage \/ MarkPage
    <3>1. CASE PullFromCursor \/ PullFromZero
      BY <1>2, <3>1, BeginMoves DEF Typed
    <3>2. CASE ReadRows
      BY <1>2, <3>2, ReadMoves DEF Typed
    <3>3. CASE Fetch \/ FetchFails
      BY <1>2, <3>3, FetchMoves DEF Typed
    <3>4. CASE Advance
      BY <1>2, <3>4, AdvanceMoves DEF Typed
    <3>5. CASE Cut
      BY <3>5, PullEnds DEF Cut
    <3>6. CASE \E r \in Records : Retries(r)
      BY <1>2, <3>6, RetryMoves DEF Typed
    <3> QED BY <3>1, <3>2, <3>3, <3>4, <3>5, <3>6 DEF Follows, PullStep
  <2> QED BY <2>1, <2>2, <2>3, <2>4
<1> QED BY <1>3, <1>4, <1>5 DEF Dealt, Done, DoneNext

LEMMA FeedStep == FeedInv /\ [Next]_vars => FeedInv'
<1>1. ASSUME FeedInv, [Next]_vars PROVE FeedInv'
  <2>1. Typed'
    BY <1>1, TypedStep DEF FeedInv
  <2>2. CASE \E r \in Records : Writes(r)
    BY <1>1, <2>1, <2>2, WritesInv
  <2>3. CASE Follows
    BY <1>1, <2>1, <2>3, FollowsCurrent, FollowsServed, FollowsBrought, FollowsDealt DEF FeedInv
  <2>4. CASE UNCHANGED vars
    BY <1>1, <2>1, <2>4
       DEF vars, FeedInv, Current, Served, Brought, Dealt, Done, AccountedFor, Arrived
  <2> QED BY <1>1, <2>2, <2>3, <2>4, NextIs
<1> QED BY <1>1

LEMMA InitFeed == Init => FeedInv
<1> SUFFICES ASSUME Init PROVE FeedInv
  OBVIOUS
<1>1. Typed /\ pull = NoPage /\ DOMAIN feed = {}
  BY InitTyped DEF Init
<1>2. Current /\ Served
  BY <1>1, NoPageTyped DEF Init, Current, Served, Nothing
<1>3. Brought /\ Dealt
  BY <1>1, NoPageTyped DEF Init, Brought, Dealt, Done
<1> QED BY <1>1, <1>2, <1>3 DEF FeedInv

\* However pages are cut short, delivered again, served without some of their records, put aside,
\* given up or asked for again, and however writes, captures and pushes interleave with them, the
\* only changes of a stamped model that lastPulledSequence passes over are those whose number
\* committed after a higher one had been served, and those of a record that the last page to be
\* applied with a row of it came without (getChangesSinceCursor, the lookup that is only logged).
THEOREM MissesExplained == Spec => []MissedOnlyIfLateOrWithheld
<1>1. FeedInv => MissedOnlyIfLateOrWithheld
  BY Ranges DEF FeedInv, Dealt, Done, MissedOnlyIfLateOrWithheld
<1> QED BY <1>1, InitFeed, FeedStep, PTL DEF Spec

-----------------------------------------------------------------------------
(* The desktop as a follower of the cloud. *)

NotAhead == \A r \in Records : copy[r] =< cloud[r]

\* A copy is what it was, what the page brought, or what had been put aside.
LEMMA NewerIs ==
  ASSUME DesktopTyped, NEW r \in Records, NEW v \in Nat
  PROVE  Newer(r, v) \in {copy[r], v}
<1>1. copy[r] \in Nat
  BY DEF DesktopTyped
<1> QED BY <1>1, MaxOfTwo DEF Newer

LEMMA CopiesTaken ==
  ASSUME Typed, Follows
  PROVE  \A r \in Records : copy'[r] \in {copy[r], pull.payload[r], deferred[r].value}
<1>1. DesktopTyped /\ copy \in [Records -> Nat]
  BY DEF Typed, DesktopTyped
<1>2. CASE copy' = copy
  BY <1>2
<1>3. CASE ApplyPage
  <2>1. copy' = [r \in Records |->
           IF r \in Arrived \ Refused THEN Newer(r, pull.payload[r]) ELSE copy[r]]
    BY <1>3 DEF ApplyPage
  <2>2. \A r \in Records : Newer(r, pull.payload[r]) \in {copy[r], pull.payload[r]}
    BY <1>1, NewerIs, PullFields
  <2> QED BY <2>1, <2>2
<1>4. ASSUME NEW r \in Records, RetryDeferred(r)
      PROVE  \A s \in Records : copy'[s] \in {copy[s], deferred[s].value}
  <2>1. Newer(r, deferred[r].value) \in {copy[r], deferred[r].value}
    BY <1>1, NewerIs DEF DesktopTyped
  <2> QED BY <1>1, <1>4, <2>1 DEF RetryDeferred
<1>5. copy' = copy \/ ApplyPage \/ \E r \in Records : RetryDeferred(r)
  BY DEF Follows, PullFromCursor, PullFromZero, Begin, PullStep, ReadRows, Fetch, FetchFails,
         Serve, SkipPage, MarkPage,
         Advance, Cut, Retries, UnStrand, Quarantine
<1> QED BY <1>2, <1>3, <1>4, <1>5

LEMMA NotAheadStep ==
  ASSUME FeedInv, FeedInv', NotAhead, [Next]_vars PROVE NotAhead'
<1>1. \A r \in Records : copy[r] \in Nat /\ cloud[r] \in Nat /\ cloud'[r] \in Nat
  BY DEF FeedInv, Typed, CloudTyped, DesktopTyped
<1>2. ASSUME NEW r \in Records, Writes(r) PROVE NotAhead'
  BY <1>1, <1>2, WritesMoves DEF NotAhead, FeedInv, desktop
<1>3. CASE Follows
  <2>1. cloud' = cloud
    BY <1>3, CloudStays DEF FeedInv, cloudside
  <2>2. \A r \in Records : copy'[r] \in {copy[r], pull.payload[r], deferred[r].value}
    BY <1>3, CopiesTaken DEF FeedInv
  <2> QED BY <2>1, <2>2 DEF NotAhead, FeedInv, Current
<1>4. CASE UNCHANGED vars
  BY <1>4 DEF NotAhead, vars
<1> QED BY <1>2, <1>3, <1>4, NextIs

\* What the cloud does to a record is one write of it, or nothing.
LEMMA WritesOnce ==
  ASSUME NEW r \in Records, Writes(r)
  PROVE  /\ cloud' = cloud \/ cloud' = [cloud EXCEPT ![r] = @ + 1]
         /\ copy' = copy
BY DEF Writes, TakeNumber, Commit, Abort, Write, Capture, CaptureLost, desktop

LEMMA FollowerStep ==
  ASSUME FeedInv, FeedInv', NotAhead', [Next]_vars
  PROVE  [Replica!Next]_(Replica!vars)
<1>1. /\ cloud \in [Records -> Nat] /\ copy \in [Records -> Nat] /\ copy' \in [Records -> Nat]
      /\ Stamped \subseteq Records
  BY FeedAssumption DEF FeedInv, Typed, CloudTyped, DesktopTyped
<1>2. ASSUME NEW r \in Records, Writes(r) PROVE [Replica!Next]_(Replica!vars)
  <2>1. [s \in Stamped |-> copy[s]]' = [s \in Stamped |-> copy[s]]
    BY <1>2, WritesOnce
  <2>2. CASE cloud' = cloud
    BY <2>1, <2>2 DEF Replica!vars
  <2>3. CASE cloud' = [cloud EXCEPT ![r] = @ + 1] /\ r \notin Stamped
    <3>1. [s \in Stamped |-> cloud[s]]' = [s \in Stamped |-> cloud[s]]
      BY <1>1, <2>3
    <3> QED BY <2>1, <3>1 DEF Replica!vars
  <2>4. CASE cloud' = [cloud EXCEPT ![r] = @ + 1] /\ r \in Stamped
    <3>1. [s \in Stamped |-> cloud[s]]' = [[s \in Stamped |-> cloud[s]] EXCEPT ![r] = @ + 1]
      BY <1>1, <2>4
    <3> QED BY <2>1, <2>4, <3>1 DEF Replica!Next, Replica!Write
  <2> QED BY <1>2, <2>2, <2>3, <2>4, WritesOnce
<1>3. CASE Follows
  <2>1. cloud' = cloud
    BY <1>3, CloudStays DEF FeedInv, cloudside
  <2>2. \A r \in Stamped : copy'[r] >= copy[r]
    BY <1>3, FollowsForward DEF FeedInv
  <2>3. \A r \in Stamped : copy'[r] =< cloud[r]
    BY <1>1, <2>1 DEF NotAhead
  <2>4. Replica!CatchUp
    BY <1>1, <2>1, <2>2, <2>3 DEF Replica!CatchUp
  <2> QED BY <2>4 DEF Replica!Next
<1>4. CASE UNCHANGED vars
  BY <1>4 DEF vars, Replica!vars
<1> QED BY <1>2, <1>3, <1>4, NextIs

\* The desktop implements module Follower: whatever is cut short, delivered again, put aside or
\* asked for again, a stamped record of it is at any time in a state the cloud has had, and never
\* goes back to an older one (the comparison of updatedAt in _applyPullChanges and
\* _retryDeferredChanges, over pages that carry the records as they are when answered).
THEOREM NeverBackNorAhead == Spec => MirrorFollows
<1>1. Init => NotAhead /\ Replica!Init
  BY FeedAssumption DEF Init, NotAhead, Replica!Init
<1>2. FeedInv /\ FeedInv' /\ NotAhead /\ [Next]_vars => NotAhead'
  BY NotAheadStep
<1>3. FeedInv /\ FeedInv' /\ NotAhead' /\ [Next]_vars => [Replica!Next]_(Replica!vars)
  BY FollowerStep
<1> QED BY <1>1, <1>2, <1>3, InitFeed, FeedStep, PTL DEF Spec, MirrorFollows, Replica!Spec

-----------------------------------------------------------------------------
(* Nothing is missing but what is late, withheld, given up or was never captured. *)

\* The last write of a record has a row, unless its capture is to come or was lost.
Covered ==
  \A r \in Records : cloud[r] > 0 /\ r \notin uncaptured \cup lost =>
    \E n \in DOMAIN feed : feed[n].record = r /\ feed[n].value = cloud[r]

LEMMA EmitCovers ==
  ASSUME Typed, Covered, NEW r \in Records, NEW n \in Nat, n \notin DOMAIN feed, Emit(n, r),
         \A s \in Records \ {r} : cloud'[s] = cloud[s] /\ (s \in uncaptured => s \in uncaptured')
  PROVE  Covered'
<1>1. /\ DOMAIN feed' = DOMAIN feed \cup {n}
      /\ feed'[n] = [record |-> r, value |-> cloud'[r]]
      /\ \A k \in DOMAIN feed : feed'[k] = feed[k]
      /\ lost' = lost \ {r}
  BY Emits DEF Typed
<1> SUFFICES ASSUME NEW s \in Records, cloud'[s] > 0, s \notin uncaptured' \cup lost'
             PROVE  \E k \in DOMAIN feed' : feed'[k].record = s /\ feed'[k].value = cloud'[s]
  BY DEF Covered
<1>2. CASE s = r
  BY <1>1, <1>2
<1>3. CASE s # r
  <2>1. PICK k \in DOMAIN feed : feed[k].record = s /\ feed[k].value = cloud[s]
    BY <1>1, <1>3 DEF Covered
  <2> QED BY <1>1, <1>3, <2>1
<1> QED BY <1>2, <1>3

LEMMA CoveredStep ==
  ASSUME Typed, Covered, [Next]_vars PROVE Covered'
<1>1. ASSUME NEW r \in Records, Writes(r) PROVE Covered'
  <2>1. CASE TakeNumber(r) \/ Abort(r)
    BY <2>1 DEF TakeNumber, Abort, Covered
  <2>2. CASE Write(r)
    <3>1. cloud' = [cloud EXCEPT ![r] = @ + 1] /\ cloud \in [Records -> Nat]
      BY <2>2 DEF Write, Typed, CloudTyped
    <3>2. uncaptured' = uncaptured \cup {r} /\ feed' = feed /\ lost' = lost
      BY <2>2 DEF Write
    <3> QED BY <3>1, <3>2 DEF Covered
  <2>3. CASE CaptureLost(r)
    <3>1. uncaptured' \cup lost' = uncaptured \cup lost
      BY <2>3 DEF CaptureLost
    <3> QED BY <2>3, <3>1 DEF CaptureLost, Covered
  <2>4. CASE Commit(r)
    <3>1. open[r] \in Nat /\ open[r] \notin DOMAIN feed
      BY FeedAssumption DEF Typed, NumbersOwned
    <3>2. \A s \in Records \ {r} : cloud'[s] = cloud[s] /\ (s \in uncaptured => s \in uncaptured')
      BY <2>4 DEF Commit, Typed, CloudTyped
    <3> QED BY <2>4, <3>1, <3>2, EmitCovers DEF Commit
  <2>5. CASE Capture(r)
    <3>1. next \in Nat /\ next \notin DOMAIN feed
      BY FeedAssumption DEF Typed, CloudTyped
    <3>2. \A s \in Records \ {r} : cloud'[s] = cloud[s] /\ (s \in uncaptured => s \in uncaptured')
      BY <2>5 DEF Capture
    <3> QED BY <2>5, <3>1, <3>2, EmitCovers DEF Capture
  <2> QED BY <1>1, <2>1, <2>2, <2>3, <2>4, <2>5 DEF Writes
<1>2. CASE Follows
  <2>1. UNCHANGED cloudside
    BY <1>2, CloudStays
  <2> QED BY <2>1 DEF cloudside, Covered
<1>3. CASE UNCHANGED vars
  BY <1>3 DEF vars, Covered
<1> QED BY <1>1, <1>2, <1>3, NextIs

LEMMA AllIsThere ==
  ASSUME FeedInv, NotAhead, Covered PROVE CaughtUp
<1>1. MissedOnlyIfLateOrWithheld /\ Stamped \subseteq Records
  BY Ranges, FeedAssumption DEF FeedInv, Dealt, Done, MissedOnlyIfLateOrWithheld
<1> SUFFICES ASSUME NEW r \in Stamped, AllReceived(r) PROVE copy[r] = cloud[r]
  BY DEF CaughtUp
<1>2. /\ cloud[r] \in Nat /\ copy[r] \in Nat /\ copy[r] =< cloud[r]
  BY <1>1 DEF FeedInv, Typed, CloudTyped, DesktopTyped, NotAhead
<1>3. CASE cloud[r] = 0
  BY <1>2, <1>3
<1>4. CASE cloud[r] > 0
  <2>1. PICK n \in DOMAIN feed : feed[n].record = r /\ feed[n].value = cloud[r]
    BY <1>1, <1>4 DEF Covered, AllReceived
  <2>2. AccountedFor(n)
    BY <1>1, <2>1 DEF AllReceived, MissedOnlyIfLateOrWithheld
  <2>3. copy[r] >= cloud[r]
    BY <1>2, <1>4, <2>1, <2>2 DEF AccountedFor, AllReceived
  <2> QED BY <1>2, <2>3
<1> QED BY <1>2, <1>3, <1>4

\* Once the cursor is past the rows of a stamped record, none of them was late, put aside or given
\* up, and the record came with the last page applied that had a row of it, the desktop has the
\* record as the cloud has it, unless its last write was never captured: then it has an older one,
\* and no pull will tell (_processSyncEvent after the commit).
THEOREM Receives == Spec => []CaughtUp
<1>1. Init => NotAhead /\ Covered
  BY FeedAssumption DEF Init, NotAhead, Covered
<1>2. FeedInv /\ FeedInv' /\ NotAhead /\ [Next]_vars => NotAhead'
  BY NotAheadStep
<1>3. FeedInv /\ Covered /\ [Next]_vars => Covered'
  BY CoveredStep DEF FeedInv
<1>4. FeedInv /\ NotAhead /\ Covered => CaughtUp
  BY AllIsThere
<1> QED BY <1>1, <1>2, <1>3, <1>4, InitFeed, FeedStep, PTL DEF Spec
==============================================================================
