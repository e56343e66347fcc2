-------------------------- MODULE UnifiedQueueProofs --------------------------
(* What is proved about UnifiedQueue. *)
EXTENDS UnifiedQueue, FiniteNumbers

-----------------------------------------------------------------------------
(* Types. *)

\* What a click's record says of it.
ClickSound(k, c) ==
  /\ c \in Click
  /\ (c.pc \in {"mirror", "update"} \/ c.act \in Actions) => c.ticket \in Tickets
  /\ c.pc = "central" => k \in Online /\ c.attempt \in 1 .. MaxAttempts
  /\ c.pc = "idle" => c.attempt = 0

AttemptSound(x) ==
  /\ x \in Attempt
  /\ (x.pc \in {"open", "applied", "ok"} \/ x.act \in Actions) => x.ticket \in Tickets

TicketsOK ==
  /\ cloud \in [Tickets -> Statuses] /\ local \in [Tickets -> Statuses]
  /\ open \in [Tickets -> Statuses] /\ passed \subseteq Tickets
  /\ unread \subseteq Tickets /\ pull \in Page
  /\ deferred \in [Tickets -> Statuses \cup {None}]
  /\ stale \subseteq Tickets /\ missed \subseteq Tickets /\ dropped \subseteq Tickets
ClicksOK == click \in [Clicks -> Click] /\ \A k \in Clicks : ClickSound(k, click[k])
ReqOK == req \in [Requests -> Attempt] /\ \A a \in Requests : AttemptSound(req[a])
RestOK ==
  /\ ledger \in [Clicks -> Tickets \cup {None}]
  /\ events \in 0 .. MaxEvents
  /\ executed \in [Clicks -> Nat]
  /\ unheard \subseteq Clicks /\ unstored \subseteq unheard /\ unchecked \subseteq Clicks
  /\ ahead \in [Clicks -> SUBSET Clicks]

\* A click executed locally is over.
RowsOK ==
  /\ row \in [Clicks -> Row] /\ pushing \subseteq queued
  /\ queued \subseteq logged /\ logged \subseteq Clicks
  /\ \A k \in logged : click[k].pc = "over"

Typed == TicketsOK /\ ClicksOK /\ ReqOK /\ RestOK /\ RowsOK

LEMMA TypedIsTypeOK == Typed => TypeOK
BY DEF Typed, TypeOK, TicketsOK, ClicksOK, ClickSound, ReqOK, AttemptSound, RestOK, RowsOK

LEMMA OutcomeStatus == \A act : Outcome(act) \in Statuses
BY DEF Outcome, Statuses

LEMMA Verbs == "call" \notin Actions /\ "walk-in" \notin Actions
BY QueueAssumption DEF PatchActions

LEMMA LeastTicket ==
  ASSUME NEW T \in SUBSET Tickets, T # {}
  PROVE  Min(T) \in T
<1>1. T \in SUBSET Nat /\ IsFiniteSet(T)
  BY QueueAssumption, FS_Subset
<1> QED BY <1>1, MinOf

LEMMA PlainRecords ==
  /\ NotMade \in Click /\ NotMade.pc = "idle" /\ NotMade.act = "call" /\ NotMade.attempt = 0
  /\ NoAttempt \in Attempt /\ NoAttempt.pc = "none" /\ NoAttempt.act = "call"
  /\ Gone \in Attempt /\ Gone.pc = "gone" /\ Gone.act = "call"
  /\ NoPage \in Page /\ NoPage.tickets = {} /\ NoPage.behind = {} /\ NoPage.over = {}
  /\ NoRow \in Row
  /\ \A c \in Click : /\ Ended(c) \in Click /\ Ended(c).pc = "over" /\ Ended(c).act = "call"
                      /\ Ended(c).attempt = c.attempt
  /\ \A c \in Click : /\ Sent(c) \in Attempt /\ Sent(c).pc = "sent"
                      /\ Sent(c).act = c.act /\ Sent(c).ticket = c.ticket
<1>1. /\ NotMade \in Click /\ NotMade.pc = "idle" /\ NotMade.act = "call" /\ NotMade.attempt = 0
  BY QueueAssumption DEF NotMade, Click, Statuses
<1>2. NoAttempt \in Attempt /\ NoAttempt.pc = "none" /\ NoAttempt.act = "call"
  BY DEF NoAttempt, Attempt, Answers
<1>3. Gone \in Attempt /\ Gone.pc = "gone" /\ Gone.act = "call"
  BY <1>2 DEF Gone, Attempt
<1>4. NoPage \in Page /\ NoPage.tickets = {} /\ NoPage.behind = {} /\ NoPage.over = {}
  BY DEF NoPage, Page, Statuses
<1>5. NoRow \in Row
  BY DEF Row
<1>6. ASSUME NEW c \in Click
      PROVE  /\ Ended(c) \in Click /\ Ended(c).pc = "over" /\ Ended(c).act = "call"
             /\ Ended(c).attempt = c.attempt
  BY <1>1 DEF Ended, Click
<1>7. ASSUME NEW c \in Click
      PROVE  /\ Sent(c) \in Attempt /\ Sent(c).pc = "sent"
             /\ Sent(c).act = c.act /\ Sent(c).ticket = c.ticket
  <2>1. c.act \in Actions \cup {"call", "walk-in"} /\ c.ticket \in Tickets \cup {None}
    BY DEF Click
  <2> QED BY <1>2, <2>1 DEF Sent, Attempt
<1> QED BY <1>1, <1>2, <1>3, <1>4, <1>5, <1>6, <1>7

\* A row of the outbox is about a ticket.
LEMMA RowOf ==
  ASSUME Typed, NEW k \in queued
  PROVE  k \in Clicks /\ row[k].ticket \in Tickets /\ row[k].status \in Statuses
BY DEF Typed, RowsOK, Row, queued

LEMMA SameParts ==
  /\ TicketsOK /\ UNCHANGED <<cloud, local, changes, deferred, apart>> => TicketsOK'
  /\ ClicksOK /\ UNCHANGED click => ClicksOK'
  /\ ReqOK /\ UNCHANGED req => ReqOK'
  /\ RestOK /\ UNCHANGED <<ledger, events, executed, unheard, unstored, unchecked, ahead>> =>
       RestOK'
  /\ RowsOK /\ UNCHANGED <<row, pushing, logged, click>> => RowsOK'
<1>1. TicketsOK /\ UNCHANGED <<cloud, local, changes, deferred, apart>> => TicketsOK'
  BY DEF TicketsOK, changes, apart
<1>2. ClicksOK /\ UNCHANGED click => ClicksOK'
  BY DEF ClicksOK, ClickSound
<1>3. ReqOK /\ UNCHANGED req => ReqOK'
  BY DEF ReqOK, AttemptSound
<1>4. RestOK /\ UNCHANGED <<ledger, events, executed, unheard, unstored, unchecked, ahead>> =>
        RestOK'
  BY DEF RestOK
<1>5. RowsOK /\ UNCHANGED <<row, pushing, logged, click>> => RowsOK'
  BY DEF RowsOK, queued
<1> QED BY <1>1, <1>2, <1>3, <1>4, <1>5

-----------------------------------------------------------------------------
(* What the steps do to a click and to an attempt. *)

\* A click goes on to the record c; the others stay.
ClickTo(k, c) ==
  /\ ClickSound(k, c)
  /\ click' = [click EXCEPT ![k] = c]

\* An attempt goes on to the record x; the others stay.
AttemptTo(a, x) ==
  /\ AttemptSound(x)
  /\ req' = [req EXCEPT ![a] = x]

LEMMA ClickToKeeps ==
  ASSUME ClicksOK, NEW k \in Clicks, NEW c, ClickTo(k, c)
  PROVE  ClicksOK' /\ click'[k] = c /\ \A j \in Clicks \ {k} : click'[j] = click[j]
<1>1. click' \in [Clicks -> Click] /\ click'[k] = c /\ \A j \in Clicks \ {k} : click'[j] = click[j]
  BY DEF ClicksOK, ClickTo, ClickSound
<1>2. \A j \in Clicks : ClickSound(j, click'[j])
  BY <1>1 DEF ClicksOK, ClickTo
<1> QED BY <1>1, <1>2 DEF ClicksOK, ClickSound

LEMMA AttemptToKeeps ==
  ASSUME ReqOK, NEW a \in Requests, NEW x, AttemptTo(a, x)
  PROVE  ReqOK' /\ req'[a] = x /\ \A b \in Requests \ {a} : req'[b] = req[b]
<1>1. req' \in [Requests -> Attempt] /\ req'[a] = x /\ \A b \in Requests \ {a} : req'[b] = req[b]
  BY DEF ReqOK, AttemptTo, AttemptSound
<1>2. \A b \in Requests : AttemptSound(req'[b])
  BY <1>1 DEF ReqOK, AttemptTo
<1> QED BY <1>1, <1>2 DEF ReqOK, AttemptSound

\* Rows are those of clicks that are over: another click may move.
LEMMA RowsUnmoved ==
  ASSUME RowsOK, ClicksOK, NEW k \in Clicks, click[k].pc # "over", NEW c, ClickTo(k, c),
         UNCHANGED <<row, pushing, logged>>
  PROVE  RowsOK'
<1>1. \A j \in logged : j # k
  BY DEF RowsOK
<1> QED BY <1>1, ClickToKeeps DEF RowsOK, queued

-----------------------------------------------------------------------------
(* The steps by their effect. *)

Elsewhere == UNCHANGED <<cloud, local, sync, ledger, events, history>>

\* Attempt n of a click is sent.
Sends(k, n) == \E x : x.pc = "sent" /\ AttemptTo(<<k, n>>, x)

\* A click begins, centrally or locally.
Begins(k) ==
  /\ click[k].pc = "idle" /\ Elsewhere
  /\ \E c : /\ ClickTo(k, c)
            /\ \/ k \in Online /\ c.pc = "central" /\ c.attempt = 1 /\ Sends(k, 1)
               \/ k \notin Online /\ c.pc \in {"local", "chosen"} /\ c.attempt = 0 /\ UNCHANGED req

\* A click goes on; it does not turn to the local path.
Proceeds(k) ==
  /\ click[k].pc \notin {"idle", "over"} /\ Elsewhere /\ UNCHANGED req
  /\ \E c : /\ ClickTo(k, c) /\ c.attempt = click[k].attempt /\ c.pc # "idle"
            /\ c.pc \in {"local", "chosen"} => click[k].pc \in {"local", "chosen"}

\* One more attempt, or none left: then the click is over or turns to the local path.
Retries(k) ==
  /\ click[k].pc = "central"
  /\ \E c : /\ ClickTo(k, c)
            /\ \/ c.pc = "central" /\ c.attempt = click[k].attempt + 1 /\ Sends(k, c.attempt)
               \/ /\ c.pc \in {"over", "local", "chosen"} /\ c.attempt = click[k].attempt
                  /\ c.attempt = MaxAttempts /\ UNCHANGED req

\* An attempt is looked at or answered, nothing else.
Talks(a) ==
  /\ UNCHANGED click /\ UNCHANGED <<cloud, local, sync, ledger, history>>
  /\ events' \in {events, events + 1} /\ events' =< MaxEvents
  /\ \E x : /\ AttemptTo(a, x)
            /\ \/ req[a].pc = "sent" /\ ledger[a[1]] = None /\ x.pc = "run"
               \/ req[a].pc \in {"sent", "run"} /\ x.pc \in Answers \cup {"gone"}
               \/ req[a].pc # "none" /\ x.pc = "gone"

LEMMA SentSound ==
  ASSUME NEW c \in Click, c.act \in Actions => c.ticket \in Tickets
  PROVE  AttemptSound(Sent(c)) /\ Sent(c).pc = "sent"
BY PlainRecords DEF AttemptSound

LEMMA BeginBegins ==
  ASSUME Typed, NEW k \in Clicks, click[k].pc = "idle", Elsewhere,
         NEW c \in Click, c.attempt = 0, c.act \in Actions => c.ticket \in Tickets,
         NEW pc \in {"local", "chosen"}, Begin(k, c, pc)
  PROVE  Begins(k)
<1>1. CASE k \in Online
  <2> DEFINE d == [c EXCEPT !.pc = "central", !.attempt = 1]
  <2>3. 1 \in 1 .. MaxAttempts /\ 1 \in 0 .. MaxAttempts
    BY QueueAssumption
  <2>1. d \in Click
    BY <2>3 DEF Click
  <2>2. d.pc = "central" /\ d.attempt = 1 /\ d.act = c.act /\ d.ticket = c.ticket
    BY DEF Click
  <2>4. click' = [click EXCEPT ![k] = d] /\ req' = [req EXCEPT ![<<k, 1>>] = Sent(c)]
    BY <1>1 DEF Begin
  <2> HIDE DEF d
  <2>5. ClickTo(k, d)
    BY <1>1, <2>1, <2>2, <2>3, <2>4 DEF ClickTo, ClickSound
  <2>6. Sends(k, 1)
    BY <2>4, SentSound DEF AttemptTo, Sends
  <2> QED BY <1>1, <2>1, <2>2, <2>5, <2>6 DEF Begins
<1>2. CASE k \notin Online
  <2> DEFINE d == [c EXCEPT !.pc = pc]
  <2>1. d \in Click /\ d.pc = pc
    BY DEF Click
  <2>2. d.attempt = 0 /\ d.act = c.act /\ d.ticket = c.ticket
    BY DEF Click
  <2>3. click' = [click EXCEPT ![k] = d] /\ UNCHANGED req
    BY <1>2 DEF Begin
  <2> HIDE DEF d
  <2>4. ClickTo(k, d)
    BY <2>1, <2>2, <2>3 DEF ClickTo, ClickSound
  <2> QED BY <1>2, <2>1, <2>2, <2>3, <2>4 DEF Begins
<1> QED BY <1>1, <1>2

LEMMA UserBegins ==
  ASSUME Typed, NEW k \in Clicks
  PROVE  /\ CallNext(k) => Begins(k)
         /\ WalkIn(k) => Begins(k)
         /\ \A t \in Tickets, act \in Actions : Patch(k, act, t) => Begins(k)
<1>1. ASSUME CallNext(k) PROVE Begins(k)
  BY <1>1, BeginBegins, PlainRecords, Verbs DEF CallNext, Elsewhere
<1>2. ASSUME WalkIn(k) PROVE Begins(k)
  <2> DEFINE c == [NotMade EXCEPT !.act = "walk-in"]
  <2>1. c \in Click
    BY PlainRecords DEF Click
  <2>2. c.attempt = 0 /\ c.act = "walk-in"
    BY PlainRecords DEF Click
  <2>3. click[k].pc = "idle" /\ Begin(k, c, "local") /\ Elsewhere
    BY <1>2 DEF WalkIn, Elsewhere
  <2> HIDE DEF c
  <2> QED BY <2>1, <2>2, <2>3, BeginBegins, Verbs
<1>3. ASSUME NEW t \in Tickets, NEW act \in Actions, Patch(k, act, t) PROVE Begins(k)
  <2> DEFINE c == [NotMade EXCEPT !.act = act, !.ticket = t, !.seen = local[t], !.cands = {t}]
  <2>0. local[t] \in Statuses
    BY DEF Typed, TicketsOK
  <2>1. c \in Click
    BY <2>0, PlainRecords DEF Click
  <2>2. c.attempt = 0 /\ c.ticket = t
    BY PlainRecords DEF Click
  <2>3. click[k].pc = "idle" /\ Begin(k, c, "chosen") /\ Elsewhere
    BY <1>3 DEF Patch, Elsewhere
  <2> HIDE DEF c
  <2> QED BY <2>1, <2>2, <2>3, BeginBegins
<1> QED BY <1>1, <1>2, <1>3

\* The answer goes out.
LEMMA OverMoves ==
  ASSUME Typed, NEW k \in Clicks, Over(k)
  PROVE  ClickTo(k, Ended(click[k]))
<1>1. click[k] \in Click /\ ClickSound(k, click[k])
  BY DEF Typed, ClicksOK
<1>2. click' = [click EXCEPT ![k] = Ended(click[k])]
  BY DEF Over
<1> QED BY <1>1, <1>2, PlainRecords, Verbs DEF ClickTo, ClickSound

LEMMA OverProceeds ==
  ASSUME Typed, NEW k \in Clicks, Over(k), click[k].pc \notin {"idle", "over"}, Elsewhere,
         UNCHANGED req
  PROVE  Proceeds(k)
<1>1. click[k] \in Click
  BY DEF Typed, ClicksOK
<1>2. Ended(click[k]).pc = "over" /\ Ended(click[k]).attempt = click[k].attempt
  BY <1>1, PlainRecords
<1> QED BY <1>2, OverMoves DEF Proceeds

LEMMA RouteProceeds ==
  ASSUME Typed, NEW k \in Clicks
  PROVE  /\ LocalCandidates(k) => Proceeds(k)
         /\ LocalConflict(k) => Proceeds(k)
         /\ HearsRefusal(k) => Proceeds(k)
         /\ HearsSuccess(k) => Proceeds(k)
         /\ MirrorLook(k) => Proceeds(k)
<1> DEFINE c == click[k]
<1>0. c \in Click /\ ClickSound(k, c)
  BY DEF Typed, ClicksOK
<1>1. ASSUME LocalCandidates(k) PROVE Proceeds(k)
  <2>0. c.pc = "local" /\ c.act = "call" /\ Elsewhere /\ UNCHANGED req
    BY <1>1 DEF LocalCandidates, Elsewhere
  <2>1. CASE Waiting(local) = {}
    BY <1>1, <2>0, <2>1, OverProceeds DEF LocalCandidates
  <2>2. CASE Waiting(local) # {}
    <3> DEFINE d == [c EXCEPT !.pc = "chosen", !.cands = Waiting(local)]
    <3>1. d \in Click /\ d.pc = "chosen"
      BY <1>0 DEF Click, Waiting
    <3>2. d.act = c.act /\ d.attempt = c.attempt
      BY <1>0 DEF Click
    <3>3. click' = [click EXCEPT ![k] = d]
      BY <1>1, <2>2 DEF LocalCandidates, Typed, ClicksOK
    <3> HIDE DEF d
    <3>4. ClickTo(k, d)
      BY <2>0, <3>1, <3>2, <3>3, Verbs DEF ClickTo, ClickSound
    <3> QED BY <2>0, <3>1, <3>2, <3>4 DEF Proceeds
  <2> QED BY <2>1, <2>2
<1>2. ASSUME LocalConflict(k) PROVE Proceeds(k)
  BY <1>2, OverProceeds DEF LocalConflict, Elsewhere
<1>3. ASSUME HearsRefusal(k) PROVE Proceeds(k)
  BY <1>3, OverProceeds DEF HearsRefusal, Hears, Elsewhere
<1>4. ASSUME HearsSuccess(k) PROVE Proceeds(k)
  <2>0. c.pc = "central" /\ Last(k).pc = "ok" /\ Elsewhere /\ UNCHANGED req
    BY <1>4 DEF HearsSuccess, Hears, Elsewhere
  <2>1. <<k, c.attempt>> \in Requests
    BY <1>0, <2>0 DEF ClickSound, Requests
  <2>2. Last(k).ticket \in Tickets
    BY <2>0, <2>1 DEF Typed, ReqOK, AttemptSound, Last
  <2> DEFINE d == [c EXCEPT !.pc = "mirror", !.ticket = Last(k).ticket]
  <2>3. d \in Click /\ d.pc = "mirror"
    BY <1>0, <2>2 DEF Click
  <2>4. d.ticket \in Tickets /\ d.attempt = c.attempt
    BY <1>0, <2>2 DEF Click
  <2>5. click' = [click EXCEPT ![k] = d]
    BY <1>4 DEF HearsSuccess, Typed, ClicksOK
  <2> HIDE DEF d
  <2>6. ClickTo(k, d)
    BY <2>3, <2>4, <2>5 DEF ClickTo, ClickSound
  <2> QED BY <2>0, <2>3, <2>4, <2>6 DEF Proceeds
<1>5. ASSUME MirrorLook(k) PROVE Proceeds(k)
  <2>0. c.pc = "mirror" /\ Elsewhere /\ UNCHANGED req
    BY <1>5 DEF MirrorLook, Elsewhere
  <2>1. CASE ~Expected(k, local[c.ticket])
    BY <1>5, <2>0, <2>1, OverProceeds DEF MirrorLook
  <2>2. CASE Expected(k, local[c.ticket])
    <3> DEFINE d == [c EXCEPT !.pc = "update"]
    <3>1. d \in Click /\ d.pc = "update"
      BY <1>0 DEF Click
    <3>2. d.ticket = c.ticket /\ d.attempt = c.attempt
      BY <1>0 DEF Click
    <3>3. click' = [click EXCEPT ![k] = d]
      BY <1>5, <2>2 DEF MirrorLook
    <3> HIDE DEF d
    <3>4. ClickTo(k, d)
      BY <1>0, <2>0, <3>1, <3>2, <3>3 DEF ClickTo, ClickSound
    <3> QED BY <2>0, <3>1, <3>2, <3>4 DEF Proceeds
  <2> QED BY <2>1, <2>2
<1> QED BY <1>1, <1>2, <1>3, <1>4, <1>5

LEMMA TryAgainRetries ==
  ASSUME Typed, NEW k \in Clicks, click[k].pc = "central", NEW d,
         ClickSound(k, d), d.pc \in {"over", "local", "chosen"}, d.attempt = click[k].attempt,
         TryAgain(k, d)
  PROVE  Retries(k)
<1> DEFINE c == click[k]
<1>0. c \in Click /\ ClickSound(k, c)
  BY DEF Typed, ClicksOK
<1>1. k \in Online /\ c.attempt \in 1 .. MaxAttempts /\ MaxAttempts \in Nat
  BY <1>0, QueueAssumption DEF ClickSound
<1>2. CASE c.attempt < MaxAttempts
  <2> DEFINE e == [c EXCEPT !.attempt = c.attempt + 1]
  <2>1. c.attempt + 1 \in 1 .. MaxAttempts /\ c.attempt + 1 \in 0 .. MaxAttempts
    BY <1>1, <1>2
  <2>2. e \in Click
    BY <1>0, <2>1 DEF Click
  <2>3. e.attempt = c.attempt + 1 /\ e.pc = "central" /\ e.act = c.act /\ e.ticket = c.ticket
    BY <1>0 DEF Click
  <2>4. /\ click' = [click EXCEPT ![k] = e]
        /\ req' = [req EXCEPT ![<<k, c.attempt + 1>>] = Sent(c)]
    BY <1>2 DEF TryAgain
  <2> HIDE DEF e
  <2>5. ClickTo(k, e)
    BY <1>0, <1>1, <2>1, <2>2, <2>3, <2>4 DEF ClickTo, ClickSound
  <2>6. Sends(k, e.attempt)
    BY <1>0, <2>3, <2>4, SentSound DEF AttemptTo, Sends, ClickSound
  <2> QED BY <2>3, <2>5, <2>6 DEF Retries
<1>3. CASE ~(c.attempt < MaxAttempts)
  <2>1. c.attempt = MaxAttempts
    BY <1>1, <1>3
  <2>2. click' = [click EXCEPT ![k] = d] /\ UNCHANGED req
    BY <1>3 DEF TryAgain
  <2> QED BY <2>1, <2>2 DEF Retries, ClickTo
<1> QED BY <1>2, <1>3

LEMMA FallbackSound ==
  ASSUME Typed, NEW k \in Clicks, click[k].pc = "central"
  PROVE  /\ ClickSound(k, Fallback(k)) /\ Fallback(k).pc \in {"local", "chosen"}
         /\ Fallback(k).attempt = click[k].attempt
<1> DEFINE c == click[k]
<1>0. c \in Click /\ ClickSound(k, c)
  BY DEF Typed, ClicksOK
<1> DEFINE p == IF c.act \in Actions THEN "chosen" ELSE "local"
<1>1. p \in {"local", "chosen"} /\ Fallback(k) = [c EXCEPT !.pc = p]
  BY DEF Fallback
<1> HIDE DEF p
<1>2. [c EXCEPT !.pc = p] \in Click
  BY <1>0, <1>1 DEF Click
<1>3. /\ [c EXCEPT !.pc = p].pc = p /\ [c EXCEPT !.pc = p].attempt = c.attempt
      /\ [c EXCEPT !.pc = p].act = c.act /\ [c EXCEPT !.pc = p].ticket = c.ticket
  BY <1>0 DEF Click
<1> QED BY <1>0, <1>1, <1>2, <1>3 DEF ClickSound

\* A click that hears a conflict, a failure or nothing at all.
LEMMA RouteRetries ==
  ASSUME Typed, NEW k \in Clicks
  PROVE  /\ HearsConflict(k) => Retries(k)
         /\ HearsFailure(k) => Retries(k)
         /\ GivesUp(k) => Retries(k)
<1>0. click[k] \in Click /\ ClickSound(k, click[k])
  BY DEF Typed, ClicksOK
<1>1. ASSUME HearsConflict(k) PROVE Retries(k)
  <2>1. ClickSound(k, Ended(click[k]))
    BY <1>0, PlainRecords, Verbs DEF ClickSound
  <2>2. click[k].pc = "central" /\ TryAgain(k, Ended(click[k]))
    BY <1>1 DEF HearsConflict, Hears
  <2> QED BY <1>0, <2>1, <2>2, PlainRecords, TryAgainRetries
<1>2. ASSUME HearsFailure(k) PROVE Retries(k)
  <2>1. click[k].pc = "central" /\ TryAgain(k, Fallback(k))
    BY <1>2 DEF HearsFailure, Hears
  <2> QED BY <2>1, FallbackSound, TryAgainRetries
<1>3. ASSUME GivesUp(k) PROVE Retries(k)
  <2>1. click[k].pc = "central" /\ TryAgain(k, Fallback(k))
    BY <1>3 DEF GivesUp
  <2> QED BY <2>1, FallbackSound, TryAgainRetries
<1> QED BY <1>1, <1>2, <1>3

\* A click turns to the local path although the cloud has executed it.
Garbles(k) ==
  /\ click[k].pc = "central"
  /\ \E c : ClickTo(k, c) /\ c.pc \in {"local", "chosen"} /\ c.attempt = click[k].attempt
  /\ unheard' = unheard \cup {k} /\ events' \in 0 .. MaxEvents
  /\ UNCHANGED <<cloud, local, sync, req, ledger, executed, logged, unstored, unchecked, apart>>

LEMMA GarbledGarbles ==
  ASSUME Typed, NEW k \in Clicks, HearsGarbled(k)
  PROVE  Garbles(k)
<1>1. click[k].pc = "central" /\ click' = [click EXCEPT ![k] = Fallback(k)]
  BY DEF HearsGarbled, Hears
<1>2. ClickTo(k, Fallback(k))
  BY <1>1, FallbackSound DEF ClickTo
<1>3. events' \in 0 .. MaxEvents
  BY QueueAssumption DEF HearsGarbled, Event, Typed, RestOK
<1> QED BY <1>1, <1>2, <1>3, FallbackSound DEF HearsGarbled, Garbles

\* A click is executed at the desktop.
Executes(k, t) ==
  /\ click[k].pc \in {"local", "chosen"}
  /\ \E status \in Statuses :
       /\ local' = [local EXCEPT ![t] = status]
       /\ row' = [row EXCEPT ![k] = [ticket |-> t, status |-> status]]
  /\ ClickTo(k, Ended(click[k]))
  /\ ahead' = [ahead EXCEPT ![k] = queued]
  /\ logged' = logged \cup {k}
  /\ UNCHANGED <<cloud, changes, deferred, pushing, req, ledger, events,
                 executed, unheard, unstored, unchecked, apart>>

LEMMA LocalExecutes ==
  ASSUME Typed, NEW k \in Clicks
  PROVE  LocalClaim(k) \/ LocalCreate(k) => \E t \in Tickets : Executes(k, t)
<1>0. click[k] \in Click /\ ClickSound(k, click[k])
  BY DEF Typed, ClicksOK
<1>1. ASSUME NEW t \in Tickets, ExecuteLocally(k, t), click[k].pc \in {"local", "chosen"}
      PROVE  Executes(k, t)
  BY <1>1, OverMoves, OutcomeStatus DEF Executes, ExecuteLocally
<1>2. ASSUME LocalClaim(k) PROVE \E t \in Tickets : Executes(k, t)
  <2>1. Unchanged(k) \in SUBSET Tickets /\ Unchanged(k) # {} /\ click[k].pc = "chosen"
    BY <1>0, <1>2 DEF LocalClaim, Unchanged, Click
  <2>2. Min(Unchanged(k)) \in Tickets
    BY <2>1, LeastTicket
  <2> QED BY <1>1, <1>2, <2>1, <2>2 DEF LocalClaim
<1>3. ASSUME LocalCreate(k) PROVE \E t \in Tickets : Executes(k, t)
  <2>1. Fresh \in SUBSET Tickets /\ Fresh # {} /\ click[k].pc = "local"
    BY <1>3 DEF LocalCreate, Fresh
  <2>2. Min(Fresh) \in Tickets
    BY <2>1, LeastTicket
  <2> QED BY <1>1, <1>3, <2>1, <2>2 DEF LocalCreate
<1> QED BY <1>2, <1>3

\* The answer of an attempt is there, or nobody waits for it.
LEMMA RepliesTo ==
  ASSUME Typed, NEW a \in Requests, NEW answer \in Answers, NEW t \in Tickets \cup {None},
         answer = "ok" => t \in Tickets, Replies(a, answer, t)
  PROVE  \E x : AttemptTo(a, x) /\ x.pc \in {answer, "gone"}
<1> DEFINE x == [NoAttempt EXCEPT !.pc = answer, !.ticket = t]
           heard == click[a[1]].pc = "central" /\ click[a[1]].attempt = a[2]
<1>1. x \in Attempt /\ x.pc = answer /\ x.ticket = t /\ x.act = "call"
  BY PlainRecords DEF Attempt
<1>2. AttemptSound(x)
  BY <1>1, Verbs DEF AttemptSound, Answers
<1>3. AttemptSound(Gone) /\ Gone.pc = "gone"
  BY PlainRecords, Verbs DEF AttemptSound
<1>4. CASE heard
  <2>1. req' = [req EXCEPT ![a] = x]
    BY <1>4 DEF Replies
  <2> HIDE DEF x
  <2> QED BY <1>1, <1>2, <2>1 DEF AttemptTo
<1>5. CASE ~heard
  BY <1>3, <1>5 DEF Replies, AttemptTo
<1> QED BY <1>4, <1>5

\* An attempt's path names its click.
LEMMA RequestParts ==
  ASSUME NEW a \in Requests
  PROVE  a = <<a[1], a[2]>> /\ a[1] \in Online /\ a[1] \in Clicks /\ a[2] \in 1 .. MaxAttempts
BY QueueAssumption DEF Requests

LEMMA HandlerTalks ==
  ASSUME Typed, NEW a \in Requests
  PROVE  /\ GuardLookup(a) => Talks(a)
         /\ Refused(a) => Talks(a)
         /\ Conflicts(a) => Talks(a)
         /\ Lost(a) => Talks(a)
<1>0. a[1] \in Clicks /\ req[a] \in Attempt /\ AttemptSound(req[a])
  BY RequestParts DEF Typed, ReqOK
<1>e. /\ Event => events' = events + 1 /\ events' =< MaxEvents
      /\ UNCHANGED events => events' = events /\ events' =< MaxEvents
  BY QueueAssumption DEF Event, Typed, RestOK
<1>1. ASSUME GuardLookup(a) PROVE Talks(a)
  <2>0. req[a].pc = "sent" /\ Elsewhere /\ UNCHANGED click
    BY <1>1 DEF GuardLookup, At, Elsewhere
  <2>1. CASE ledger[a[1]] = None
    <3> DEFINE x == [req[a] EXCEPT !.pc = "run"]
    <3>1. x \in Attempt /\ x.pc = "run" /\ x.act = req[a].act /\ x.ticket = req[a].ticket
      BY <1>0 DEF Attempt
    <3>2. req' = [req EXCEPT ![a] = x]
      BY <1>1, <2>1 DEF GuardLookup, Goes
    <3> HIDE DEF x
    <3>3. AttemptTo(a, x)
      BY <1>0, <3>1, <3>2 DEF AttemptTo, AttemptSound
    <3> QED BY <1>e, <2>0, <2>1, <3>1, <3>3 DEF Talks, Elsewhere
  <2>2. CASE ledger[a[1]] # None
    <3>1. ledger[a[1]] \in Tickets /\ Replies(a, "ok", ledger[a[1]])
      BY <1>0, <1>1, <2>2 DEF GuardLookup, Typed, RestOK
    <3>2. "ok" \in Answers
      BY DEF Answers
    <3>3. \E x : AttemptTo(a, x) /\ x.pc \in {"ok", "gone"}
      BY <3>1, <3>2, RepliesTo
    <3> QED BY <1>e, <2>0, <3>2, <3>3 DEF Talks, Elsewhere
  <2> QED BY <2>1, <2>2
<1>2. ASSUME Refused(a) PROVE Talks(a)
  <2>0. req[a].pc = "run" /\ Elsewhere /\ UNCHANGED click
    BY <1>2 DEF Refused, At, Elsewhere
  <2>1. "refused" \in Answers /\ "refused" # "ok" /\ Replies(a, "refused", None)
    BY <1>2 DEF Refused, Answers
  <2>2. \E x : AttemptTo(a, x) /\ x.pc \in {"refused", "gone"}
    BY <2>1, RepliesTo
  <2> QED BY <1>e, <2>0, <2>1, <2>2 DEF Talks, Elsewhere
<1>3. ASSUME Conflicts(a) PROVE Talks(a)
  <2>0. /\ req[a].pc = "run" /\ Event
        /\ UNCHANGED click /\ UNCHANGED <<cloud, local, sync, ledger, history>>
    BY <1>3 DEF Conflicts, At
  <2>1. PICK answer \in {"conflict", "failed"} : Replies(a, answer, None)
    BY <1>3 DEF Conflicts
  <2>2. answer \in Answers /\ answer # "ok"
    BY DEF Answers
  <2>3. \E x : AttemptTo(a, x) /\ x.pc \in {answer, "gone"}
    BY <2>1, <2>2, RepliesTo
  <2> QED BY <1>e, <2>0, <2>2, <2>3 DEF Talks
<1>4. ASSUME Lost(a) PROVE Talks(a)
  <2>0. /\ req[a].pc # "none" /\ Event
        /\ UNCHANGED click /\ UNCHANGED <<cloud, local, sync, ledger, history>>
    BY <1>4 DEF Lost
  <2>1. AttemptTo(a, Gone) /\ Gone.pc = "gone"
    BY <1>4, PlainRecords, Verbs DEF Lost, AttemptTo, AttemptSound
  <2> QED BY <1>e, <2>0, <2>1 DEF Talks
<1> QED BY <1>1, <1>2, <1>3, <1>4

\* The guard's lookup fails, and the attempt goes on unguarded.
Unguards(a) ==
  /\ req[a].pc = "sent"
  /\ \E x : AttemptTo(a, x) /\ x.pc = "run"
  /\ events' \in 0 .. MaxEvents
  /\ unchecked' = IF ledger[a[1]] = None THEN unchecked ELSE unchecked \cup {a[1]}
  /\ UNCHANGED <<cloud, local, sync, click, ledger, executed, logged, unheard, unstored, apart>>

LEMMA GuardUnguards ==
  ASSUME Typed, NEW a \in Requests, GuardFails(a)
  PROVE  Unguards(a)
<1>0. req[a] \in Attempt /\ AttemptSound(req[a]) /\ req[a].pc = "sent"
  BY DEF Typed, ReqOK, GuardFails, At
<1> DEFINE x == [req[a] EXCEPT !.pc = "run", !.guarded = FALSE]
<1>1. x \in Attempt
  BY <1>0 DEF Attempt
<1>2. x.pc = "run" /\ x.act = req[a].act /\ x.ticket = req[a].ticket
  BY <1>0 DEF Attempt
<1>3. req' = [req EXCEPT ![a] = x]
  BY <1>0 DEF GuardFails, Typed, ReqOK, Attempt
<1> HIDE DEF x
<1>4. AttemptTo(a, x)
  BY <1>0, <1>1, <1>2, <1>3 DEF AttemptTo, AttemptSound
<1>5. events' \in 0 .. MaxEvents
  BY QueueAssumption DEF GuardFails, Event, Typed, RestOK
<1> QED BY <1>0, <1>2, <1>4, <1>5 DEF GuardFails, Unguards

\* An attempt has executed its click, and its answer is stored or not; the ticket of a walk-in
\* may be in the feed once more.
Stores(a) ==
  /\ req[a].pc = "applied"
  /\ UNCHANGED click /\ UNCHANGED <<cloud, local, open, passed, pull, deferred, outbox, history>>
  /\ events' \in 0 .. MaxEvents
  /\ \E x : AttemptTo(a, x) /\ x.pc \in {"ok", "gone"}
  /\ \/ ledger' = [ledger EXCEPT ![a[1]] = req[a].ticket] /\ req[a].ticket \in Tickets
     \/ UNCHANGED ledger
  /\ \E T \in SUBSET {t \in Tickets : open[t] = "none"} : unread' = unread \cup T

LEMMA StoreStores ==
  ASSUME Typed, NEW a \in Requests, Store(a)
  PROVE  Stores(a)
<1>1. req[a].pc = "applied" /\ req[a].ticket \in Tickets
  BY DEF Store, At, Typed, ReqOK, AttemptSound
<1>2. "ok" \in Answers /\ Replies(a, "ok", req[a].ticket)
  BY DEF Store, Answers
<1>3. \E x : AttemptTo(a, x) /\ x.pc \in {"ok", "gone"}
  BY <1>1, <1>2, RepliesTo
<1>4. events' \in 0 .. MaxEvents
  BY QueueAssumption DEF Store, Event, Typed, RestOK
<1>5. \E T \in SUBSET {t \in Tickets : open[t] = "none"} : unread' = unread \cup T
  <2>1. Tokens(a) \in SUBSET {t \in Tickets : open[t] = "none"}
    BY <1>1 DEF Store, Tokens
  <2>2. {} \in SUBSET {t \in Tickets : open[t] = "none"} /\ unread = unread \cup {}
    OBVIOUS
  <2> QED BY <2>1, <2>2 DEF Store
<1> QED BY <1>1, <1>3, <1>4, <1>5 DEF Store, Stores

\* An attempt has written a ticket; nothing is to be seen of it yet.
Holds(a) ==
  /\ req[a].pc = "run"
  /\ \E x : AttemptTo(a, x) /\ x.pc = "open"
  /\ \E t \in Tickets, status \in Statuses : Opens(t, status)
  /\ UNCHANGED <<local, deferred, outbox, click, ledger, events, done, stale, dropped>>

LEMMA CentralHolds ==
  ASSUME Typed, NEW a \in Requests, CentralClaim(a) \/ CentralCreate(a) \/ CentralPatch(a)
  PROVE  Holds(a)
<1>0. req[a] \in Attempt /\ AttemptSound(req[a]) /\ req[a].pc = "run"
  BY DEF Typed, ReqOK, CentralClaim, CentralCreate, CentralPatch, At
<1>1. ASSUME NEW t \in Tickets, Writes(a, t) PROVE Holds(a)
  <2> DEFINE x == [req[a] EXCEPT !.pc = "open", !.ticket = t]
  <2>1. x \in Attempt
    BY <1>0 DEF Attempt
  <2>2. x.pc = "open" /\ x.ticket = t
    BY <1>0 DEF Attempt
  <2>3. req' = [req EXCEPT ![a] = x]
    BY <1>0, <1>1 DEF Writes, Typed, ReqOK, Attempt
  <2> HIDE DEF x
  <2>4. AttemptTo(a, x)
    BY <2>1, <2>2, <2>3 DEF AttemptTo, AttemptSound
  <2>5. \E status \in Statuses : Opens(t, status)
    BY <1>1, OutcomeStatus DEF Writes
  <2> QED BY <1>0, <1>1, <2>2, <2>4, <2>5 DEF Writes, Holds
<1>2. CASE CentralClaim(a)
  <2>1. Waiting(cloud) \in SUBSET Tickets /\ Waiting(cloud) # {}
    BY <1>2 DEF CentralClaim, Waiting
  <2> QED BY <1>1, <1>2, <2>1, LeastTicket DEF CentralClaim
<1>3. CASE CentralCreate(a)
  <2>1. Fresh \in SUBSET Tickets /\ Fresh # {}
    BY <1>3 DEF CentralCreate, Fresh
  <2> QED BY <1>1, <1>3, <2>1, LeastTicket DEF CentralCreate
<1>4. CASE CentralPatch(a)
  BY <1>0, <1>1, <1>4 DEF CentralPatch, AttemptSound
<1> QED BY <1>2, <1>3, <1>4

\* An attempt executes its click at the cloud.
Lands(a) ==
  /\ req[a].pc = "open"
  /\ \E x : AttemptTo(a, x) /\ x.pc = "applied"
  /\ \E t \in Tickets : Commits(t)
  /\ executed' = [executed EXCEPT ![a[1]] = @ + 1]
  /\ UNCHANGED <<local, deferred, outbox, click, ledger, events,
                 logged, unheard, unstored, unchecked, stale, dropped>>

\* Its transaction ends without effect.
Aborts(a) ==
  /\ req[a].pc = "open"
  /\ \E x : AttemptTo(a, x) /\ x.pc \in {"failed", "gone"}
  /\ \E t \in Tickets : RollsBack(t)
  /\ events' \in 0 .. MaxEvents
  /\ UNCHANGED <<local, deferred, outbox, click, ledger, done, stale, dropped>>

LEMMA OpenEnds ==
  ASSUME Typed, NEW a \in Requests
  PROVE  (CentralCommit(a) => Lands(a)) /\ (RolledBack(a) => Aborts(a))
<1>0. AttemptSound(req[a]) /\ req[a] \in Attempt
  BY DEF Typed, ReqOK
<1>1. ASSUME CentralCommit(a) PROVE Lands(a)
  <2> DEFINE x == [req[a] EXCEPT !.pc = "applied"]
  <2>0. req[a].pc = "open" /\ req[a].ticket \in Tickets
    BY <1>0, <1>1 DEF CentralCommit, At, AttemptSound
  <2>1. x \in Attempt
    BY <1>0 DEF Attempt
  <2>2. x.pc = "applied" /\ x.ticket = req[a].ticket
    BY <1>0 DEF Attempt
  <2>3. req' = [req EXCEPT ![a] = x]
    BY <1>1 DEF CentralCommit, Goes
  <2> HIDE DEF x
  <2>4. AttemptTo(a, x)
    BY <2>0, <2>1, <2>2, <2>3 DEF AttemptTo, AttemptSound
  <2> QED BY <1>1, <2>0, <2>2, <2>4 DEF CentralCommit, Lands
<1>2. ASSUME RolledBack(a) PROVE Aborts(a)
  <2>0. req[a].pc = "open" /\ req[a].ticket \in Tickets
    BY <1>0, <1>2 DEF RolledBack, At, AttemptSound
  <2>1. \E x : AttemptTo(a, x) /\ x.pc \in {"failed", "gone"}
    <3>1. CASE Replies(a, "failed", None)
      <4>1. "failed" \in Answers /\ "failed" # "ok"
        BY DEF Answers
      <4> QED BY <3>1, <4>1, RepliesTo
    <3>2. CASE req' = [req EXCEPT ![a] = Gone]
      <4>1. AttemptTo(a, Gone) /\ Gone.pc = "gone"
        BY <3>2, PlainRecords, Verbs DEF AttemptTo, AttemptSound
      <4> QED BY <4>1
    <3> QED BY <1>2, <3>1, <3>2 DEF RolledBack
  <2>2. events' \in 0 .. MaxEvents
    BY <1>2, QueueAssumption DEF RolledBack, Event, Typed, RestOK
  <2> QED BY <1>2, <2>0, <2>1, <2>2 DEF RolledBack, Aborts
<1> QED BY <1>1, <1>2

\* What others do at the central queue.
LEMMA OthersWrite ==
  ASSUME Typed,
         \/ WebCall \/ WebJoin
         \/ \E t \in Tickets : WebReclaim(t) \/ (\E act \in Actions : WebPatch(t, act))
  PROVE  \E t \in Tickets, status \in Statuses : Others(t, status)
<1>1. CASE WebCall
  <2>1. Waiting(cloud) \in SUBSET Tickets /\ Waiting(cloud) # {}
    BY <1>1 DEF WebCall, Waiting
  <2>2. Min(Waiting(cloud)) \in Tickets
    BY <2>1, LeastTicket
  <2> QED BY <1>1, <2>2 DEF WebCall, Statuses
<1>2. CASE WebJoin
  <2>1. Fresh \in SUBSET Tickets /\ Fresh # {}
    BY <1>2 DEF WebJoin, Fresh
  <2>2. Min(Fresh) \in Tickets
    BY <2>1, LeastTicket
  <2> QED BY <1>2, <2>2 DEF WebJoin, Statuses
<1>3. CASE \E t \in Tickets : WebReclaim(t)
  BY <1>3 DEF WebReclaim, Statuses
<1>4. CASE \E t \in Tickets, act \in Actions : WebPatch(t, act)
  BY <1>4, OutcomeStatus DEF WebPatch
<1> QED BY <1>1, <1>2, <1>3, <1>4

\* An attempt that failed is followed by another one, or by none.
Fails(k) == Elsewhere /\ Last(k).pc \in {"conflict", "failed"} /\ Retries(k)

\* A step of synchronisation.
Syncs ==
  \/ \E k \in Clicks : Push(k) \/ PushCommit(k) \/ PushFails(k) \/ PushSpoiled(k)
  \/ \E R \in SUBSET unread, B \in SUBSET Ahead : Read(R, B) /\ (UNCHANGED events \/ Event)
  \/ \E D \in SUBSET pull.tickets : Apply(D) /\ (UNCHANGED events \/ Event)
  \/ PullLost \/ Crash
  \/ \E t \in Tickets : WebCommit(t) \/ Retried(t) \/ Quarantined(t)

\* The cases of a step, by what it does.
LEMMA StepEffect ==
  ASSUME Typed, Next
  PROVE  \/ \E k \in Clicks :
              \/ Begins(k) \/ Proceeds(k) \/ Fails(k) \/ (GivesUp(k) /\ Retries(k))
              \/ Garbles(k) \/ MirrorWrite(k) \/ (\E t \in Tickets : Executes(k, t))
         \/ \E a \in Requests :
              Talks(a) \/ Unguards(a) \/ Stores(a) \/ Holds(a) \/ Lands(a) \/ Aborts(a)
         \/ \E t \in Tickets, status \in Statuses : Others(t, status)
         \/ Syncs
<1>1. ASSUME NEW k \in Clicks, Route(k) \/ HearsGarbled(k)
      PROVE  \/ Proceeds(k) \/ Fails(k) \/ (GivesUp(k) /\ Retries(k)) \/ Garbles(k)
             \/ MirrorWrite(k) \/ (\E t \in Tickets : Executes(k, t))
  <2>1. HearsConflict(k) \/ HearsFailure(k) => Fails(k)
    BY RouteRetries DEF HearsConflict, HearsFailure, Hears, Fails, Elsewhere
  <2> QED BY <1>1, <2>1, RouteProceeds, RouteRetries, LocalExecutes, GarbledGarbles DEF Route
<1>2. ASSUME NEW a \in Requests,
             Handler(a) \/ GuardFails(a) \/ Conflicts(a) \/ RolledBack(a) \/ Lost(a)
      PROVE  Talks(a) \/ Unguards(a) \/ Stores(a) \/ Holds(a) \/ Lands(a) \/ Aborts(a)
  BY <1>2, HandlerTalks, GuardUnguards, StoreStores, CentralHolds, OpenEnds DEF Handler
<1>3. ASSUME NEW k \in Clicks,
             CallNext(k) \/ WalkIn(k) \/ (\E t \in Tickets, act \in Actions : Patch(k, act, t))
      PROVE  Begins(k)
  BY <1>3, UserBegins
<1>4. ASSUME Pull \/ PullWithheld \/ PullDefers PROVE Syncs
  <2>1. unread \in SUBSET unread /\ {} \in SUBSET unread /\ {} \in SUBSET pull.tickets
    OBVIOUS
  <2>2. PullRead => Syncs
    BY <2>1 DEF PullRead, Syncs
  <2>3. PullWithheld => Syncs
    BY <2>1 DEF PullWithheld, Syncs
  <2>4. PullApply => Syncs
    BY <2>1 DEF PullApply, Syncs
  <2>5. PullDefers => Syncs
    BY DEF PullDefers, Syncs
  <2> QED BY <1>4, <2>2, <2>3, <2>4, <2>5 DEF Pull
<1>5. ASSUME \/ \E k \in Clicks : Replay(k) \/ PushFails(k) \/ PushSpoiled(k)
             \/ PullLost \/ Crash
             \/ \E t \in Tickets : WebCommit(t) \/ Retry(t)
      PROVE  Syncs
  BY <1>5 DEF Syncs, Replay, Retry
<1> QED BY <1>1, <1>2, <1>3, <1>4, <1>5, OthersWrite DEF Next

\* What the death of the desktop does to a click.
LEMMA CrashEnds ==
  ASSUME Typed, Crash
  PROVE  /\ ClicksOK'
         /\ \A k \in Clicks : /\ click'[k].attempt = click[k].attempt
                              /\ click'[k].pc = IF click[k].pc = "idle" THEN "idle" ELSE "over"
<1>1. ASSUME NEW k \in Clicks
      PROVE  /\ ClickSound(k, click'[k])
             /\ click'[k].attempt = click[k].attempt
             /\ click'[k].pc = IF click[k].pc = "idle" THEN "idle" ELSE "over"
  <2>0. click[k] \in Click /\ ClickSound(k, click[k])
    BY DEF Typed, ClicksOK
  <2>1. CASE click[k].pc = "idle"
    <3>1. click'[k] = click[k]
      BY <2>1 DEF Crash
    <3> QED BY <2>0, <2>1, <3>1
  <2>2. CASE click[k].pc # "idle"
    <3>1. click'[k] = Ended(click[k])
      BY <2>2 DEF Crash
    <3> QED BY <2>0, <2>2, <3>1, PlainRecords, Verbs DEF ClickSound
  <2> QED BY <2>1, <2>2
<1>2. click' \in [Clicks -> Click]
  BY <1>1 DEF ClickSound, Crash
<1> QED BY <1>1, <1>2 DEF ClicksOK, ClickSound

LEMMA MirrorEnds ==
  ASSUME Typed, NEW k \in Clicks, MirrorWrite(k)
  PROVE  /\ click[k].ticket \in Tickets /\ click[k].pc = "update"
         /\ ClickTo(k, Ended(click[k]))
         /\ Ended(click[k]).attempt = click[k].attempt /\ Ended(click[k]).pc = "over"
<1>0. click[k] \in Click /\ ClickSound(k, click[k])
  BY DEF Typed, ClicksOK
<1> QED BY <1>0, OverMoves, PlainRecords DEF MirrorWrite, ClickSound

-----------------------------------------------------------------------------
(* Every step keeps the types. *)

LEMMA InitTyped == Init => Typed
<1> SUFFICES ASSUME Init PROVE Typed
  OBVIOUS
<1>1. TicketsOK
  BY PlainRecords, QueueAssumption DEF Init, TicketsOK, Statuses
<1>2. ClicksOK
  <2>1. \A k \in Clicks : click[k] = NotMade
    BY DEF Init
  <2>2. \A k \in Clicks : ClickSound(k, click[k])
    BY <2>1, PlainRecords, Verbs DEF ClickSound
  <2> QED BY <2>1, <2>2, PlainRecords DEF Init, ClicksOK
<1>3. ReqOK
  BY PlainRecords, Verbs DEF Init, ReqOK, AttemptSound
<1>4. RestOK
  BY QueueAssumption DEF Init, RestOK
<1>5. RowsOK
  BY PlainRecords DEF Init, RowsOK, queued
<1> QED BY <1>1, <1>2, <1>3, <1>4, <1>5 DEF Typed

LEMMA RequestOf ==
  ASSUME NEW k \in Online, NEW i \in 1 .. MaxAttempts
  PROVE  <<k, i>> \in Requests
BY DEF Requests

LEMMA Counted ==
  ASSUME Typed, UNCHANGED events \/ Event
  PROVE  events' \in 0 .. MaxEvents
BY QueueAssumption DEF Event, Typed, RestOK

LEMMA ClickStepTyped ==
  ASSUME Typed, NEW k \in Clicks,
         Begins(k) \/ Proceeds(k) \/ Fails(k) \/ (GivesUp(k) /\ Retries(k)) \/ Garbles(k)
  PROVE  Typed'
<1> USE DEF Typed
<1>1. CASE Begins(k)
  <2>1. PICK c : /\ ClickTo(k, c)
                 /\ (k \in Online /\ Sends(k, 1)) \/ UNCHANGED req
    BY <1>1 DEF Begins
  <2>2. click[k].pc = "idle" /\ Elsewhere
    BY <1>1 DEF Begins
  <2>3. ClicksOK' /\ RowsOK'
    BY <2>1, <2>2, ClickToKeeps, RowsUnmoved DEF Elsewhere, sync, outbox, history, done
  <2>4. ReqOK'
    <3>1. 1 \in 1 .. MaxAttempts
      BY QueueAssumption
    <3> QED BY <2>1, <3>1, RequestOf, AttemptToKeeps, SameParts DEF Sends
  <2> QED BY <2>2, <2>3, <2>4, SameParts DEF Elsewhere, sync, outbox, history, done
<1>2. CASE Proceeds(k)
  <2>1. PICK c : ClickTo(k, c)
    BY <1>2 DEF Proceeds
  <2>2. click[k].pc # "over" /\ Elsewhere /\ UNCHANGED req
    BY <1>2 DEF Proceeds
  <2>3. ClicksOK' /\ RowsOK'
    BY <2>1, <2>2, ClickToKeeps, RowsUnmoved DEF Elsewhere, sync, outbox, history, done
  <2> QED BY <2>2, <2>3, SameParts DEF Elsewhere, sync, outbox, history, done
<1>3. CASE Retries(k) /\ (Fails(k) \/ GivesUp(k))
  <2>1. PICK c : /\ ClickTo(k, c)
                 /\ (c.pc = "central" /\ Sends(k, c.attempt)) \/ UNCHANGED req
    BY <1>3 DEF Retries
  <2>2. click[k].pc = "central" /\ UNCHANGED <<row, pushing, logged>>
    BY <1>3 DEF Retries, Fails, GivesUp, Elsewhere, sync, outbox, history, done
  <2>3. ClicksOK' /\ RowsOK'
    BY <2>1, <2>2, ClickToKeeps, RowsUnmoved
  <2>4. ReqOK'
    <3>1. CASE c.pc = "central" /\ Sends(k, c.attempt)
      <4>1. <<k, c.attempt>> \in Requests
        BY <2>1, <3>1, RequestOf DEF ClickTo, ClickSound
      <4> QED BY <3>1, <4>1, AttemptToKeeps DEF Sends
    <3> QED BY <2>1, <3>1, SameParts
  <2>5. TicketsOK'
    BY <1>3, SameParts DEF Fails, GivesUp, Elsewhere, sync, history
  <2>6. RestOK'
    <3>1. CASE Fails(k)
      BY <3>1, SameParts DEF Fails, Elsewhere, sync, outbox, history, done
    <3>2. CASE GivesUp(k)
      BY <3>2 DEF GivesUp, RestOK, sync, outbox
    <3> QED BY <1>3, <3>1, <3>2
  <2> QED BY <2>3, <2>4, <2>5, <2>6
<1>4. CASE Garbles(k)
  <2>1. PICK c : ClickTo(k, c)
    BY <1>4 DEF Garbles
  <2>2. click[k].pc # "over" /\ UNCHANGED <<row, pushing, logged>>
    BY <1>4 DEF Garbles, sync, outbox
  <2>3. ClicksOK' /\ RowsOK'
    BY <2>1, <2>2, ClickToKeeps, RowsUnmoved
  <2>4. RestOK'
    BY <1>4 DEF Garbles, RestOK, sync, outbox
  <2> QED BY <1>4, <2>3, <2>4, SameParts DEF Garbles, sync
<1> QED BY <1>1, <1>2, <1>3, <1>4 DEF Fails

LEMMA LocalStepTyped ==
  ASSUME Typed, NEW k \in Clicks,
         MirrorWrite(k) \/ (\E t \in Tickets : Executes(k, t))
  PROVE  Typed'
<1> USE DEF Typed
<1>1. CASE MirrorWrite(k)
  <2>1. ClicksOK' /\ RowsOK'
    BY <1>1, MirrorEnds, ClickToKeeps, RowsUnmoved DEF MirrorWrite, sync, outbox, done
  <2>2. TicketsOK'
    BY <1>1, MirrorEnds, OutcomeStatus DEF MirrorWrite, TicketsOK, sync, changes
  <2> QED BY <1>1, <2>1, <2>2, SameParts DEF MirrorWrite, sync, outbox, done
<1>2. CASE \E t \in Tickets : Executes(k, t)
  <2>1. PICK t \in Tickets : Executes(k, t)
    BY <1>2
  <2>2. click[k] \in Click
    BY DEF ClicksOK
  <2>3. PICK status \in Statuses : /\ local' = [local EXCEPT ![t] = status]
                                   /\ row' = [row EXCEPT ![k] = [ticket |-> t, status |-> status]]
    BY <2>1 DEF Executes
  <2>4. TicketsOK'
    BY <2>1, <2>3 DEF Executes, TicketsOK, changes, apart
  <2>5. /\ ClicksOK' /\ click'[k].pc = "over"
        /\ \A j \in Clicks \ {k} : click'[j] = click[j]
    BY <2>1, <2>2, ClickToKeeps, PlainRecords DEF Executes
  <2>6. RowsOK'
    <3>1. [ticket |-> t, status |-> status] \in Row
      BY DEF Row
    <3>2. [ticket |-> t, status |-> status] # NoRow
      BY QueueAssumption DEF NoRow
    <3>3. row' \in [Clicks -> Row] /\ \A j \in Clicks : row'[j] = NoRow => row[j] = NoRow /\ j # k
      BY <2>3, <3>1, <3>2 DEF RowsOK
    <3>4. queued \subseteq queued' /\ queued' \subseteq queued \cup {k}
      BY <2>3, <3>3 DEF queued, RowsOK
    <3>5. pushing' = pushing /\ logged' = logged \cup {k}
      BY <2>1 DEF Executes
    <3> QED BY <2>5, <3>3, <3>4, <3>5 DEF RowsOK
  <2>7. RestOK'
    <3>1. queued \in SUBSET Clicks
      BY DEF queued
    <3> QED BY <2>1, <3>1 DEF Executes, RestOK
  <2> QED BY <2>1, <2>4, <2>5, <2>6, <2>7, SameParts DEF Executes
<1> QED BY <1>1, <1>2

\* What a transaction of the cloud does to the tickets.
LEMMA TransactionTyped ==
  ASSUME TicketsOK, NEW t \in Tickets,
         (\E status \in Statuses : Opens(t, status)) \/ Commits(t) \/ RollsBack(t),
         UNCHANGED <<local, deferred, stale>>, dropped' \subseteq Tickets
  PROVE  TicketsOK'
<1> USE DEF TicketsOK
<1>1. CASE \E status \in Statuses : Opens(t, status)
  BY <1>1 DEF Opens
<1>2. CASE Commits(t)
  <2>1. pull' \in Page
    BY <1>2 DEF Commits, Page
  <2>2. /\ cloud' \in [Tickets -> Statuses] /\ open' \in [Tickets -> Statuses]
        /\ passed' \subseteq Tickets /\ unread' \subseteq Tickets /\ missed' \subseteq Tickets
    BY <1>2 DEF Commits, Statuses
  <2> QED BY <2>1, <2>2
<1>3. CASE RollsBack(t)
  <2>1. pull' \in Page
    BY <1>3 DEF RollsBack, Page
  <2> QED BY <1>3, <2>1 DEF RollsBack, Statuses
<1> QED BY <1>1, <1>2, <1>3

LEMMA CloudStepTyped ==
  ASSUME Typed, NEW a \in Requests,
         Talks(a) \/ Unguards(a) \/ Stores(a) \/ Holds(a) \/ Lands(a) \/ Aborts(a)
  PROVE  Typed'
<1> USE DEF Typed
<1>0. a[1] \in Clicks
  BY RequestParts
<1>1. ReqOK'
  BY AttemptToKeeps DEF Talks, Unguards, Stores, Holds, Lands, Aborts
<1>2. UNCHANGED <<local, deferred, outbox, click, logged, unheard, unstored, stale, dropped>>
  BY DEF Talks, Unguards, Stores, Holds, Lands, Aborts, sync, history, done, apart
<1>3. ClicksOK' /\ RowsOK'
  BY <1>2, SameParts DEF outbox
<1>4. TicketsOK'
  <2>1. CASE Holds(a) \/ Lands(a) \/ Aborts(a)
    <3>1. dropped' \subseteq Tickets
      BY <1>2 DEF TicketsOK
    <3> QED BY <1>2, <2>1, <3>1, TransactionTyped DEF Holds, Lands, Aborts
  <2>2. CASE Talks(a) \/ Unguards(a)
    BY <2>2, SameParts DEF Talks, Unguards, sync, history
  <2>3. CASE Stores(a)
    BY <2>3 DEF Stores, TicketsOK, history, apart
  <2> QED BY <2>1, <2>2, <2>3
<1>5. RestOK'
  <2>1. ahead' = ahead /\ unheard' = unheard /\ unstored' = unstored
    BY <1>2 DEF outbox
  <2>2. events' \in 0 .. MaxEvents
    BY QueueAssumption DEF Talks, Unguards, Stores, Holds, Lands, Aborts, RestOK
  <2>3. ledger' \in [Clicks -> Tickets \cup {None}]
    BY <1>0 DEF Talks, Unguards, Stores, Holds, Lands, Aborts, RestOK
  <2>4. executed' \in [Clicks -> Nat]
    BY <1>0 DEF Talks, Unguards, Stores, Holds, Lands, Aborts, RestOK, history, done
  <2>5. unchecked' \subseteq Clicks
    BY <1>0 DEF Talks, Unguards, Stores, Holds, Lands, Aborts, RestOK, history, done
  <2> QED BY <2>1, <2>2, <2>3, <2>4, <2>5 DEF RestOK
<1> QED BY <1>1, <1>3, <1>4, <1>5

LEMMA OthersTyped ==
  ASSUME Typed, NEW t \in Tickets,
         WebCommit(t) \/ \E status \in Statuses : Others(t, status)
  PROVE  Typed'
<1> USE DEF Typed
<1>1. UNCHANGED <<local, deferred, outbox, click, req, ledger, done, stale, dropped>>
  BY DEF WebCommit, Others
<1>2. TicketsOK'
  <2>1. dropped' \subseteq Tickets
    BY <1>1 DEF TicketsOK
  <2> QED BY <1>1, <2>1, TransactionTyped DEF WebCommit, Others
<1>3. events' \in 0 .. MaxEvents
  BY Counted DEF WebCommit, Others
<1>4. RestOK'
  BY <1>1, <1>3 DEF RestOK, outbox, done
<1> QED BY <1>1, <1>2, <1>4, SameParts DEF outbox, done

LEMMA PushTyped ==
  ASSUME Typed, NEW k \in Clicks, Push(k) \/ PushCommit(k) \/ PushFails(k) \/ PushSpoiled(k)
  PROVE  Typed'
<1> USE DEF Typed
<1>0. k \in queued /\ row[k].ticket \in Tickets /\ row[k].status \in Statuses
  BY RowOf DEF Push, PushCommit, PushFails, PushSpoiled, RowsOK
<1>1. UNCHANGED <<local, deferred, click, req, ledger, done, stale>>
  BY DEF Push, PushCommit, PushFails, PushSpoiled
<1>2. dropped' \subseteq Tickets
  BY <1>0 DEF Push, PushCommit, PushFails, PushSpoiled, TicketsOK
<1>3. TicketsOK'
  <2>1. CASE Push(k) \/ PushCommit(k)
    BY <1>0, <1>1, <1>2, <2>1, TransactionTyped DEF Push, PushCommit
  <2>2. CASE PushFails(k) \/ PushSpoiled(k)
    <3>1. Withdrawn(k)
      BY <2>2 DEF PushFails, PushSpoiled
    <3>2. CASE RollsBack(row[k].ticket)
      BY <1>0, <1>1, <1>2, <3>2, TransactionTyped
    <3>3. CASE UNCHANGED <<cloud, changes, missed>>
      BY <1>1, <1>2, <3>3 DEF TicketsOK, changes
    <3> QED BY <3>1, <3>2, <3>3 DEF Withdrawn
  <2> QED BY <2>1, <2>2
<1>4. RowsOK'
  <2>1. \/ UNCHANGED row
        \/ row' = [row EXCEPT ![k] = NoRow] /\ pushing' = pushing \ {k}
    BY DEF Push, PushCommit, PushFails, PushSpoiled, RowGone
  <2>2. pushing' \subseteq pushing \cup {k} /\ logged' = logged
    BY <1>1 DEF Push, PushCommit, PushFails, PushSpoiled, RowGone, done
  <2>3. CASE UNCHANGED row
    BY <1>0, <1>1, <2>2, <2>3 DEF RowsOK, queued
  <2>4. CASE row' = [row EXCEPT ![k] = NoRow] /\ pushing' = pushing \ {k}
    <3>1. queued' = queued \ {k} /\ row' \in [Clicks -> Row]
      BY <2>4, PlainRecords DEF RowsOK, queued
    <3> QED BY <1>1, <2>2, <2>4, <3>1 DEF RowsOK
  <2> QED BY <2>1, <2>3, <2>4
<1>5. RestOK'
  <2>1. events' \in 0 .. MaxEvents
    BY Counted DEF Push, PushCommit, PushFails, PushSpoiled
  <2>2. ahead' \in [Clicks -> SUBSET Clicks]
    BY DEF Push, PushCommit, PushFails, PushSpoiled, RowGone, RestOK
  <2> QED BY <1>1, <2>1, <2>2 DEF RestOK, done
<1> QED BY <1>1, <1>3, <1>4, <1>5, SameParts

\* A page that is read, applied or lost, and what was put aside.
LEMMA PullTyped ==
  ASSUME Typed,
         \/ \E R \in SUBSET unread, B \in SUBSET Ahead : Read(R, B) /\ (UNCHANGED events \/ Event)
         \/ \E D \in SUBSET pull.tickets : Apply(D) /\ (UNCHANGED events \/ Event)
         \/ PullLost
         \/ \E t \in Tickets : Retried(t) \/ Quarantined(t)
  PROVE  Typed'
<1> USE DEF Typed
<1>0. pull.tickets \subseteq Tickets /\ pull.behind \subseteq Tickets /\ pull.over \subseteq Tickets
      /\ pull.value \in [Tickets -> Statuses]
  BY DEF TicketsOK, Page
<1>1. UNCHANGED <<outbox, click, req, ledger, done>>
  BY DEF Read, Apply, PullLost, Retried, Quarantined, history
<1>2. events' \in 0 .. MaxEvents
  BY Counted DEF PullLost, Retried, Quarantined
<1>3. RestOK'
  BY <1>1, <1>2 DEF RestOK, outbox, done
<1>4. TicketsOK'
  <2>1. ASSUME NEW R \in SUBSET unread, NEW B \in SUBSET Ahead, Read(R, B) PROVE TicketsOK'
    <3>1. pull' \in Page
      BY <2>1 DEF Read, Page, TicketsOK, Ahead, Statuses
    <3> QED BY <2>1, <3>1 DEF Read, TicketsOK, history, apart
  <2>2. ASSUME NEW D \in SUBSET pull.tickets, Apply(D) PROVE TicketsOK'
    BY <1>0, <2>2, PlainRecords DEF Apply, TicketsOK
  <2>3. CASE PullLost
    BY <1>0, <2>3, PlainRecords DEF PullLost, Unpulled, TicketsOK, history, apart
  <2>4. ASSUME NEW t \in Tickets, Retried(t) \/ Quarantined(t) PROVE TicketsOK'
    BY <2>4 DEF Retried, Quarantined, TicketsOK, changes
  <2> QED BY <2>1, <2>2, <2>3, <2>4
<1> QED BY <1>1, <1>3, <1>4, SameParts DEF outbox, done

LEMMA CrashTyped == Typed /\ Crash => Typed'
<1> SUFFICES ASSUME Typed, Crash PROVE Typed'
  OBVIOUS
<1> USE DEF Typed
<1>1. TicketsOK'
  <2>1. pull.tickets \subseteq Tickets /\ pull.behind \subseteq Tickets
    BY DEF TicketsOK, Page
  <2> QED BY <2>1, PlainRecords DEF Crash, Unpulled, TicketsOK, history, apart
<1>2. RestOK'
  BY Counted DEF Crash, RestOK, outbox, history, done
<1>3. RowsOK'
  <2>1. \A k \in logged : click'[k].pc = "over"
    BY CrashEnds DEF RowsOK
  <2> QED BY <2>1 DEF Crash, RowsOK, queued, outbox, history, done
<1> QED BY <1>1, <1>2, <1>3, CrashEnds, SameParts DEF Crash

LEMMA TypedStep ==
  ASSUME Typed, [Next]_vars
  PROVE  Typed'
<1>1. CASE Next
  <2>1. Syncs => Typed'
    BY PushTyped, PullTyped, CrashTyped, OthersTyped DEF Syncs
  <2> QED BY <1>1, <2>1, StepEffect, ClickStepTyped, LocalStepTyped, CloudStepTyped, OthersTyped
<1>2. CASE UNCHANGED vars
  BY <1>2, SameParts DEF Typed, vars, sync, outbox, history, done
<1> QED BY <1>1, <1>2

\* Every value is of its type, and what writes a ticket has one to write.
THEOREM TypeCorrect == Spec => []TypeOK
<1>1. Typed /\ [Next]_vars => Typed'
  BY TypedStep
<1>2. Typed => TypeOK
  BY TypedIsTypeOK
<1> QED BY InitTyped, <1>1, <1>2, PTL DEF Spec

-----------------------------------------------------------------------------
(* Clicks and their attempts. *)

Dead == {"conflict", "failed", "gone"}

\* The click is executed at the desktop, or going to be.
Local(k) == click[k].pc \in {"local", "chosen"} \/ k \in logged

\* While it is the last one sent, an attempt is the one that has executed the click.
Latest(k, i) ==
  /\ i < click[k].attempt => req[<<k, i>>].pc \in Dead
  /\ i = click[k].attempt /\ executed[k] > 0 => req[<<k, i>>].pc \in {"applied", "ok", "gone"}

\* The cloud may execute the click again.
Exposed(k) == k \in unstored \cup unchecked

\* What is known of attempt i of click k.
AttemptOf(k, i) ==
  /\ i > click[k].attempt => req[<<k, i>>].pc = "none"
  /\ ~Exposed(k) /\ ledger[k] = None => Latest(k, i)
  /\ ~Exposed(k) /\ ledger[k] # None => req[<<k, i>>].pc \notin {"run", "open", "applied"}
  /\ k \notin unheard => Latest(k, i)
  /\ k \notin unheard /\ Local(k) => req[<<k, i>>].pc \in Dead \cup {"none"}

CountOf(k) ==
  /\ executed[k] > 0 => click[k].attempt > 0
  /\ ~Exposed(k) => executed[k] =< 1
  /\ k \notin unheard /\ Local(k) => executed[k] = 0

ClickOf(k) == CountOf(k) /\ \A i \in 1 .. MaxAttempts : k \in Online => AttemptOf(k, i)

Accounted == \A k \in Clicks : ClickOf(k)

LEMMA AccountedIsOnce == Accounted /\ Typed => OncePerClick
BY DEF Accounted, ClickOf, CountOf, Exposed, Local, OncePerClick, Typed, RestOK

LEMMA InitAccounted == Init => Accounted
BY PlainRecords, QueueAssumption
   DEF Init, Accounted, ClickOf, CountOf, AttemptOf, Latest, Local, NotMade, NoAttempt, Requests, Dead

\* What a step must leave alone for a click.
SameFor(k) ==
  /\ click'[k].attempt = click[k].attempt
  /\ Local(k)' => Local(k)
  /\ executed'[k] = executed[k] /\ ledger'[k] = ledger[k]
  /\ unheard \subseteq unheard' /\ (Exposed(k) => Exposed(k)')
  /\ ledger[k] = None => (Exposed(k)' => Exposed(k))
  /\ \A i \in 1 .. MaxAttempts : k \in Online => req'[<<k, i>>] = req[<<k, i>>]

LEMMA SameKeeps ==
  ASSUME NEW k \in Clicks, ClickOf(k), SameFor(k)
  PROVE  ClickOf(k)'
<1>1. CountOf(k)'
  BY DEF ClickOf, CountOf, SameFor
<1>2. ASSUME NEW i \in 1 .. MaxAttempts, k \in Online
      PROVE  AttemptOf(k, i)'
  BY <1>2 DEF ClickOf, AttemptOf, Latest, SameFor
<1> QED BY <1>1, <1>2 DEF ClickOf

\* A click and its last attempt.
LEMMA ClickFacts ==
  ASSUME Typed, NEW k \in Clicks
  PROVE  /\ ClickSound(k, click[k]) /\ click[k].attempt \in Nat /\ executed[k] \in Nat
         /\ MaxAttempts \in Nat \ {0}
         /\ k \in logged => click[k].pc = "over"
BY QueueAssumption DEF Typed, ClicksOK, ClickSound, Click, RestOK, RowsOK

\* A step that moves one click leaves the others alone.
LEMMA OthersStay ==
  ASSUME Typed, NEW k \in Clicks, NEW c, ClickTo(k, c),
         UNCHANGED <<ledger, executed, unchecked>>, logged' \subseteq logged \cup {k},
         unheard \subseteq unheard' /\ unheard' \subseteq unheard \cup {k},
         unstored \subseteq unstored' /\ unstored' \subseteq unstored \cup {k},
         \/ UNCHANGED req
         \/ \E n \in 1 .. MaxAttempts : \E x : k \in Online /\ AttemptTo(<<k, n>>, x),
         NEW j \in Clicks \ {k}
  PROVE  SameFor(j)
<1>1. click'[j] = click[j]
  BY ClickToKeeps DEF Typed
<1>2. ASSUME NEW i \in 1 .. MaxAttempts, j \in Online
      PROVE  req'[<<j, i>>] = req[<<j, i>>]
  <2>1. CASE UNCHANGED req
    BY <2>1
  <2>2. ASSUME NEW n \in 1 .. MaxAttempts, NEW x, k \in Online, AttemptTo(<<k, n>>, x)
        PROVE  req'[<<j, i>>] = req[<<j, i>>]
    <3>1. <<j, i>> \in Requests /\ <<k, n>> \in Requests /\ <<j, i>> # <<k, n>>
      BY <1>2, <2>2, RequestOf
    <3> QED BY <2>2, <3>1, AttemptToKeeps DEF Typed
  <2> QED BY <2>1, <2>2
<1> QED BY <1>1, <1>2 DEF SameFor, Exposed, Local

LEMMA BeginsAccounted ==
  ASSUME Typed, Accounted, NEW k \in Clicks, Begins(k)
  PROVE  Accounted'
<1>1. PICK c : /\ ClickTo(k, c)
               /\ \/ k \in Online /\ c.pc = "central" /\ c.attempt = 1 /\ Sends(k, 1)
                  \/ /\ k \notin Online /\ c.pc \in {"local", "chosen"} /\ c.attempt = 0
                     /\ UNCHANGED req
  BY DEF Begins
<1>2. click[k].pc = "idle" /\ UNCHANGED <<ledger, executed, logged, unheard, unstored, unchecked>>
  BY DEF Begins, Elsewhere, history, done
<1>3. click[k].attempt = 0 /\ executed[k] = 0 /\ k \notin logged /\ ClickOf(k)
  BY <1>2, ClickFacts DEF Accounted, ClickOf, CountOf, ClickSound
<1>4. click'[k] = c /\ 1 \in 1 .. MaxAttempts
  BY <1>1, ClickToKeeps, ClickFacts DEF Typed
<1>5. \A j \in Clicks \ {k} : SameFor(j)
  BY <1>1, <1>2, <1>4, OthersStay DEF Sends
<1>6. CountOf(k)'
  BY <1>1, <1>2, <1>3, <1>4 DEF CountOf
<1>7. ASSUME NEW i \in 1 .. MaxAttempts, k \in Online
      PROVE  AttemptOf(k, i)'
  <2>1. AttemptOf(k, i) /\ c.attempt = 1 /\ c.pc = "central" /\ Sends(k, 1)
    BY <1>1, <1>3, <1>7 DEF ClickOf
  <2> PICK x : x.pc = "sent" /\ AttemptTo(<<k, 1>>, x)
    BY <2>1 DEF Sends
  <2>2. <<k, i>> \in Requests /\ <<k, 1>> \in Requests
    BY <1>4, <1>7, RequestOf
  <2>3. req'[<<k, i>>].pc = IF i = 1 THEN "sent" ELSE "none"
    <3>1. CASE i = 1
      BY <2>2, <3>1, AttemptToKeeps DEF Typed
    <3>2. CASE i # 1
      <4>1. <<k, i>> # <<k, 1>>
        BY <3>2
      <4>2. req'[<<k, i>>] = req[<<k, i>>]
        BY <2>2, <4>1, AttemptToKeeps DEF Typed
      <4> QED BY <1>3, <2>1, <3>2, <4>2 DEF AttemptOf
    <3> QED BY <3>1, <3>2
  <2> QED BY <1>2, <1>3, <1>4, <2>1, <2>3 DEF AttemptOf, Latest, Local
<1> QED BY <1>5, <1>6, <1>7, SameKeeps DEF Accounted, ClickOf

LEMMA RetriesAccounted ==
  ASSUME Typed, Accounted, NEW k \in Clicks, Retries(k), Fails(k) \/ GivesUp(k)
  PROVE  Accounted'
<1> DEFINE n == click[k].attempt
<1>1. PICK c : /\ ClickTo(k, c)
               /\ \/ c.pc = "central" /\ c.attempt = n + 1 /\ Sends(k, c.attempt)
                  \/ /\ c.pc \in {"over", "local", "chosen"} /\ c.attempt = n
                     /\ c.attempt = MaxAttempts /\ UNCHANGED req
  BY DEF Retries
<1>2. /\ UNCHANGED <<ledger, executed, logged, unchecked>>
      /\ unheard \subseteq unheard' /\ unheard' \subseteq unheard \cup {k}
      /\ unstored \subseteq unstored' /\ unstored' \subseteq unstored \cup {k}
  BY DEF Fails, Elsewhere, GivesUp, history, done
<1>3. /\ click[k].pc = "central" /\ k \in Online /\ n \in 1 .. MaxAttempts
      /\ k \notin logged /\ ClickOf(k)
  BY ClickFacts DEF Retries, ClickSound, Accounted
<1>4. click'[k] = c /\ executed[k] \in Nat /\ MaxAttempts \in Nat \ {0}
  BY <1>1, ClickToKeeps, ClickFacts DEF Typed
<1>5. c.pc = "central" => c.attempt \in 1 .. MaxAttempts
  BY <1>1 DEF ClickTo, ClickSound
<1>6. \A j \in Clicks \ {k} : SameFor(j)
  BY <1>1, <1>2, <1>3, <1>5, OthersStay DEF Sends
<1>7. AttemptOf(k, n)
  BY <1>3 DEF ClickOf
\* After a failure that was heard, and with nothing unknown before it, nothing is executed yet.
<1>8. \/ k \in unheard' /\ (k \in unstored' \/ ledger[k] # None)
      \/ /\ k \in unheard' <=> k \in unheard
         /\ k \in unstored' <=> k \in unstored
         /\ req[<<k, n>>].pc \in {"conflict", "failed"}
  BY DEF Fails, Elsewhere, GivesUp, Last, history, done
<1>9. (k \notin unheard' \/ (~Exposed(k)' /\ ledger[k] = None)) =>
        /\ executed[k] = 0 /\ req[<<k, n>>].pc \in {"conflict", "failed"}
        /\ k \notin unheard' => k \notin unheard
        /\ ~Exposed(k)' => ~Exposed(k)
  BY <1>2, <1>4, <1>7, <1>8 DEF AttemptOf, Latest, Exposed
<1>e. ~Exposed(k)' => ~Exposed(k)
  BY <1>2 DEF Exposed
<1>10. CountOf(k)'
  BY <1>1, <1>2, <1>3, <1>4, <1>9, <1>e DEF ClickOf, CountOf
<1>11. ASSUME NEW i \in 1 .. MaxAttempts
       PROVE  AttemptOf(k, i)'
  <2>0. AttemptOf(k, i) /\ <<k, i>> \in Requests
    BY <1>3, RequestOf DEF ClickOf
  <2>1. CASE c.pc = "central" /\ c.attempt = n + 1 /\ Sends(k, c.attempt)
    <3> PICK x : x.pc = "sent" /\ AttemptTo(<<k, n + 1>>, x)
      BY <2>1 DEF Sends
    <3>1. <<k, n + 1>> \in Requests
      BY <1>3, <1>5, <2>1, RequestOf
    <3>2. i = n + 1 => req'[<<k, i>>].pc = "sent"
      BY <3>1, AttemptToKeeps DEF Typed
    <3>3. i # n + 1 => req'[<<k, i>>] = req[<<k, i>>]
      <4>1. i # n + 1 => <<k, i>> # <<k, n + 1>>
        OBVIOUS
      <4> QED BY <2>0, <3>1, <4>1, AttemptToKeeps DEF Typed
    <3>4. ~Local(k)'
      BY <1>2, <1>3, <1>4, <2>1 DEF Local
    <3>5. i < n + 1 => i < n \/ i = n
      BY <1>3
    <3>6. i > n + 1 => i > n
      BY <1>3
    <3>7. click'[k].attempt = n + 1
      BY <1>4, <2>1
    <3> QED BY <1>2, <1>9, <1>e, <2>0, <3>2, <3>3, <3>4, <3>5, <3>6, <3>7
            DEF AttemptOf, Latest, Dead
  <2>2. CASE c.attempt = n /\ UNCHANGED req
    <3>1. k \notin unheard' => (i < n \/ i = n \/ i > n) /\ k \notin unheard
      BY <1>3, <1>9
    <3>2. k \notin unheard' => req[<<k, i>>].pc \in Dead \cup {"none"}
      BY <1>9, <2>0, <3>1 DEF AttemptOf, Latest, Dead
    <3> QED BY <1>2, <1>4, <1>9, <1>e, <2>0, <2>2, <3>2 DEF AttemptOf, Latest
  <2> QED BY <1>1, <2>1, <2>2
<1> QED BY <1>6, <1>10, <1>11, SameKeeps DEF Accounted, ClickOf

LEMMA QuietAccounted ==
  ASSUME Typed, Accounted, NEW k \in Clicks,
         Proceeds(k) \/ MirrorWrite(k) \/ Garbles(k) \/ (\E t \in Tickets : Executes(k, t))
  PROVE  Accounted'
<1>1. CASE Proceeds(k)
  <2>1. PICK c : /\ ClickTo(k, c) /\ c.attempt = click[k].attempt
                 /\ c.pc \in {"local", "chosen"} => click[k].pc \in {"local", "chosen"}
    BY <1>1 DEF Proceeds
  <2>2. UNCHANGED <<req, ledger, executed, logged, unheard, unstored, unchecked>>
    BY <1>1 DEF Proceeds, Elsewhere, history, done
  <2>3. click'[k] = c
    BY <2>1, ClickToKeeps DEF Typed
  <2>4. SameFor(k)
    BY <2>1, <2>2, <2>3 DEF SameFor, Exposed, Local
  <2>5. \A j \in Clicks \ {k} : SameFor(j)
    BY <2>1, <2>2, OthersStay
  <2> QED BY <2>4, <2>5, SameKeeps DEF Accounted
<1>2. CASE MirrorWrite(k)
  <2>1. /\ ClickTo(k, Ended(click[k]))
        /\ UNCHANGED <<req, ledger, executed, logged, unheard, unstored, unchecked>>
    BY <1>2, MirrorEnds DEF MirrorWrite, done
  <2>2. click'[k].attempt = click[k].attempt /\ click'[k].pc = "over"
    BY <1>2, <2>1, MirrorEnds, ClickToKeeps DEF Typed
  <2>3. SameFor(k)
    BY <2>1, <2>2 DEF SameFor, Exposed, Local
  <2>4. \A j \in Clicks \ {k} : SameFor(j)
    BY <2>1, OthersStay
  <2> QED BY <2>3, <2>4, SameKeeps DEF Accounted
<1>3. CASE Garbles(k)
  <2>1. PICK c : ClickTo(k, c) /\ c.attempt = click[k].attempt
    BY <1>3 DEF Garbles
  <2>2. /\ UNCHANGED <<req, ledger, executed, logged, unstored, unchecked>>
        /\ unheard' = unheard \cup {k}
    BY <1>3 DEF Garbles
  <2>3. click'[k] = c
    BY <2>1, ClickToKeeps DEF Typed
  <2>4. ClickOf(k)'
    <3>1. CountOf(k)'
      BY <2>1, <2>2, <2>3 DEF Accounted, ClickOf, CountOf, Exposed
    <3>2. \A i \in 1 .. MaxAttempts : k \in Online => AttemptOf(k, i)'
      BY <2>1, <2>2, <2>3 DEF Accounted, ClickOf, AttemptOf, Latest, Exposed
    <3> QED BY <3>1, <3>2 DEF ClickOf
  <2>5. \A j \in Clicks \ {k} : SameFor(j)
    BY <2>1, <2>2, OthersStay
  <2> QED BY <2>4, <2>5, SameKeeps DEF Accounted
<1>4. CASE \E t \in Tickets : Executes(k, t)
  <2>0. click[k] \in Click
    BY DEF Typed, ClicksOK
  <2>1. PICK c : ClickTo(k, c) /\ c.attempt = click[k].attempt
    BY <1>4, <2>0, PlainRecords DEF Executes
  <2>2. /\ UNCHANGED <<req, ledger, executed, unheard, unstored, unchecked>>
        /\ logged' = logged \cup {k} /\ click[k].pc \in {"local", "chosen"}
    BY <1>4 DEF Executes
  <2>3. click'[k] = c
    BY <2>1, ClickToKeeps DEF Typed
  <2>4. SameFor(k)
    BY <2>1, <2>2, <2>3 DEF SameFor, Exposed, Local
  <2>5. \A j \in Clicks \ {k} : SameFor(j)
    BY <2>1, <2>2, OthersStay
  <2> QED BY <2>4, <2>5, SameKeeps DEF Accounted
<1> QED BY <1>1, <1>2, <1>3, <1>4

\* A step at the cloud concerns one attempt.
LEMMA OtherAttempts ==
  ASSUME Typed, NEW a \in Requests, NEW x, AttemptTo(a, x)
  PROVE  /\ req'[<<a[1], a[2]>>] = x /\ req[<<a[1], a[2]>>] = req[a]
         /\ \A i \in 1 .. MaxAttempts : i # a[2] => req'[<<a[1], i>>] = req[<<a[1], i>>]
         /\ \A j \in Clicks \ {a[1]} :
              \A i \in 1 .. MaxAttempts : j \in Online => req'[<<j, i>>] = req[<<j, i>>]
<1>1. a = <<a[1], a[2]>> /\ a[1] \in Online
  BY RequestParts
<1>2. ASSUME NEW k \in Online, NEW i \in 1 .. MaxAttempts, k # a[1] \/ i # a[2]
      PROVE  req'[<<k, i>>] = req[<<k, i>>]
  <2>1. <<k, i>> \in Requests /\ <<k, i>> # <<a[1], a[2]>>
    BY <1>2, RequestOf
  <2>2. <<k, i>> \in Requests \ {a}
    BY <1>1, <2>1
  <2> QED BY <2>2, AttemptToKeeps DEF Typed
<1>3. req'[a] = x
  BY AttemptToKeeps DEF Typed
<1>4. req'[<<a[1], a[2]>>] = x /\ req[<<a[1], a[2]>>] = req[a]
  BY <1>1, <1>3
<1>5. \A i \in 1 .. MaxAttempts : i # a[2] => req'[<<a[1], i>>] = req[<<a[1], i>>]
  BY <1>1, <1>2
<1>6. \A j \in Clicks \ {a[1]} :
        \A i \in 1 .. MaxAttempts : j \in Online => req'[<<j, i>>] = req[<<j, i>>]
  BY <1>2
<1> QED BY <1>4, <1>5, <1>6

\* An attempt that goes on, short of a commit; where its guard fails, its click is exposed.
Advances(a, x) ==
  /\ AttemptTo(a, x)
  /\ UNCHANGED <<click, ledger, executed, logged, unheard, unstored>>
  /\ unchecked \subseteq unchecked' /\ unchecked' \subseteq unchecked \cup {a[1]}
  /\ ledger[a[1]] = None => unchecked' = unchecked
  /\ \/ /\ req[a].pc = "sent" /\ x.pc = "run"
        /\ ledger[a[1]] = None \/ a[1] \in unchecked'
     \/ req[a].pc = "run" /\ x.pc = "open"
     \/ req[a].pc \in {"sent", "run", "open"} /\ x.pc \in Answers \cup {"gone"}
     \/ req[a].pc # "none" /\ x.pc = "gone"

LEMMA AdvancesAccounted ==
  ASSUME Typed, Accounted, NEW a \in Requests, NEW x, Advances(a, x)
  PROVE  Accounted'
<1> DEFINE k == a[1]
           m == a[2]
<1>0. k \in Clicks /\ k \in Online /\ m \in 1 .. MaxAttempts
  BY RequestParts
<1>1. UNCHANGED <<click, ledger, executed, logged, unheard, unstored>>
  BY DEF Advances
<1>2. AttemptTo(a, x)
  BY DEF Advances
<1>3. ASSUME NEW j \in Clicks \ {k} PROVE SameFor(j)
  <2>1. \A i \in 1 .. MaxAttempts : j \in Online => req'[<<j, i>>] = req[<<j, i>>]
    BY <1>2, OtherAttempts
  <2>2. Exposed(j)' <=> Exposed(j)
    BY <1>1 DEF Advances, Exposed
  <2> QED BY <1>1, <2>1, <2>2 DEF SameFor, Local
<1>4. ClickOf(k)
  BY <1>0 DEF Accounted
<1>5. (~Exposed(k)' => ~Exposed(k)) /\ (ledger[k] = None => (Exposed(k)' <=> Exposed(k)))
  BY <1>1 DEF Advances, Exposed
<1>5a. \A i \in 1 .. MaxAttempts : i # m => req'[<<k, i>>] = req[<<k, i>>]
  BY <1>2, OtherAttempts
<1>6. CountOf(k)'
  BY <1>1, <1>4, <1>5 DEF ClickOf, CountOf, Local
<1>7. ASSUME NEW i \in 1 .. MaxAttempts PROVE AttemptOf(k, i)'
  <2>0. AttemptOf(k, i)
    BY <1>0, <1>4 DEF ClickOf
  <2>1. CASE i # m
    <3>1. req'[<<k, i>>] = req[<<k, i>>]
      BY <1>5a, <2>1
    <3> QED BY <1>1, <1>5, <2>0, <3>1 DEF AttemptOf, Latest, Local
  <2>2. CASE i = m
    <3>1. req'[<<k, i>>].pc = x.pc /\ req[<<k, i>>].pc = req[a].pc
      BY <1>2, <2>2, OtherAttempts
    <3>2. \/ /\ req[<<k, i>>].pc = "sent" /\ x.pc = "run"
             /\ ledger[k] = None \/ Exposed(k)'
          \/ req[<<k, i>>].pc = "run" /\ x.pc = "open"
          \/ req[<<k, i>>].pc \in {"sent", "run", "open"} /\ x.pc \in Answers \cup {"gone"}
          \/ req[<<k, i>>].pc # "none" /\ x.pc = "gone"
      BY <3>1 DEF Advances, Exposed
    <3> HIDE DEF k, m
    <3>3. Latest(k, i) => Latest(k, i)'
      BY <1>1, <3>1, <3>2 DEF Latest, Dead
    <3>4. i > click'[k].attempt => req'[<<k, i>>].pc = "none"
      BY <1>1, <2>0, <3>2 DEF AttemptOf
    <3>5. ~Exposed(k)' /\ ledger'[k] # None => req'[<<k, i>>].pc \notin {"run", "open", "applied"}
      BY <1>1, <1>5, <2>0, <3>1, <3>2 DEF AttemptOf, Answers
    <3>6. k \notin unheard' /\ Local(k)' => req'[<<k, i>>].pc \in Dead \cup {"none"}
      BY <1>1, <2>0, <3>1, <3>2 DEF AttemptOf, Local, Dead
    <3> QED BY <1>1, <1>5, <2>0, <3>3, <3>4, <3>5, <3>6 DEF AttemptOf
  <2> QED BY <2>1, <2>2
<1> QED BY <1>3, <1>6, <1>7, SameKeeps DEF Accounted, ClickOf

LEMMA TalksAccounted ==
  ASSUME Typed, Accounted, NEW a \in Requests, Talks(a) \/ Unguards(a) \/ Holds(a) \/ Aborts(a)
  PROVE  Accounted'
<1>1. Talks(a) => \E x : Advances(a, x)
  BY DEF Talks, Advances, history, done
<1>2. Unguards(a) => \E x : Advances(a, x)
  BY DEF Unguards, Advances
<1>3. Holds(a) => \E x : Advances(a, x)
  BY DEF Holds, Advances, done
<1>4. Aborts(a) => \E x : Advances(a, x)
  BY DEF Aborts, Advances, Answers, done
<1> QED BY <1>1, <1>2, <1>3, <1>4, AdvancesAccounted

LEMMA StoresAccounted ==
  ASSUME Typed, Accounted, NEW a \in Requests, Stores(a)
  PROVE  Accounted'
<1> DEFINE k == a[1]
           m == a[2]
<1>0. k \in Clicks /\ k \in Online /\ m \in 1 .. MaxAttempts
  BY RequestParts
<1>1. UNCHANGED <<click, executed, logged, unheard, unstored, unchecked>>
  BY DEF Stores, history, done
<1>2. PICK x : AttemptTo(a, x) /\ x.pc \in {"ok", "gone"}
  BY DEF Stores
<1>3. /\ \A j \in Clicks \ {k} : ledger'[j] = ledger[j]
      /\ ledger'[k] = ledger[k] \/ ledger'[k] # None
  BY <1>0, QueueAssumption DEF Stores, Typed, RestOK
<1>4. ASSUME NEW j \in Clicks \ {k} PROVE SameFor(j)
  <2>1. \A i \in 1 .. MaxAttempts : j \in Online => req'[<<j, i>>] = req[<<j, i>>]
    <3>1. AttemptTo(a, x)
      BY <1>2
    <3> QED BY <3>1, OtherAttempts
  <2> QED BY <1>1, <1>3, <2>1 DEF SameFor, Exposed, Local
<1>5. ClickOf(k) /\ req[a].pc = "applied" /\ req[<<k, m>>] = req[a]
  BY <1>0, <1>2, OtherAttempts DEF Accounted, Stores
<1>6. CountOf(k)'
  BY <1>1, <1>5 DEF ClickOf, CountOf, Exposed, Local
<1>7. ASSUME NEW i \in 1 .. MaxAttempts PROVE AttemptOf(k, i)'
  <2>0. AttemptOf(k, i) /\ AttemptOf(k, m)
    BY <1>0, <1>5 DEF ClickOf
  <2>1. /\ i = m => req'[<<k, i>>].pc \in {"ok", "gone"}
        /\ i # m => req'[<<k, i>>] = req[<<k, i>>]
    <3>1. req'[<<k, m>>] = x
      BY <1>2, OtherAttempts
    <3>2. i # m => req'[<<k, i>>] = req[<<k, i>>]
      BY <1>2, OtherAttempts
    <3> HIDE DEF k, m
    <3> QED BY <1>2, <3>1, <3>2
  <2>2. req[<<k, m>>].pc = "applied"
    BY <1>5
  <2>3. /\ i \in Nat /\ m \in Nat /\ click[k].attempt \in Nat
    BY <1>0, ClickFacts
  <2> HIDE DEF k, m
\* With an answer unstored until now, no other attempt runs.
  <2>4. ~Exposed(k) => req'[<<k, i>>].pc \notin {"run", "open", "applied"}
    <3>1. CASE ledger[k] = None /\ i # m
      BY <2>0, <2>1, <2>2, <2>3, <3>1 DEF AttemptOf, Latest, Dead
    <3>2. CASE i = m
      BY <2>1, <3>2
    <3>3. CASE ledger[k] # None /\ i # m
      BY <2>0, <2>1, <3>3 DEF AttemptOf
    <3> QED BY <3>1, <3>2, <3>3
  <2>5. Latest(k, i) => Latest(k, i)'
    BY <1>1, <2>1, <2>2, <2>3 DEF Latest, Dead
  <2>6. k \notin unheard => ~Local(k)
    BY <2>0, <2>2 DEF AttemptOf, Dead
  <2>7. i > click[k].attempt => req'[<<k, i>>].pc = "none"
    BY <2>0, <2>1, <2>2 DEF AttemptOf
  <2>8. Local(k)' <=> Local(k)
    BY <1>1 DEF Local
  <2>9. Exposed(k)' <=> Exposed(k)
    BY <1>1 DEF Exposed
  <2> QED BY <1>1, <1>3, <2>0, <2>4, <2>5, <2>6, <2>7, <2>8, <2>9 DEF AttemptOf
<1> QED BY <1>4, <1>6, <1>7, SameKeeps DEF Accounted, ClickOf

LEMMA LandsAccounted ==
  ASSUME Typed, Accounted, NEW a \in Requests, Lands(a)
  PROVE  Accounted'
<1> DEFINE k == a[1]
           m == a[2]
<1>0. k \in Clicks /\ k \in Online /\ m \in 1 .. MaxAttempts
  BY RequestParts
<1>1. UNCHANGED <<click, ledger, logged, unheard, unstored, unchecked>>
  BY DEF Lands
<1>2. PICK x : AttemptTo(a, x) /\ x.pc = "applied"
  BY DEF Lands
<1>3. executed'[k] = executed[k] + 1 /\ \A j \in Clicks \ {k} : executed'[j] = executed[j]
  BY <1>0 DEF Lands, Typed, RestOK
<1>4. ASSUME NEW j \in Clicks \ {k} PROVE SameFor(j)
  <2>1. \A i \in 1 .. MaxAttempts : j \in Online => req'[<<j, i>>] = req[<<j, i>>]
    <3>1. AttemptTo(a, x)
      BY <1>2
    <3> QED BY <3>1, OtherAttempts
  <2> QED BY <1>1, <1>3, <2>1 DEF SameFor, Exposed, Local
<1>5. ClickOf(k) /\ req[<<k, m>>].pc = "open" /\ AttemptOf(k, m)
  BY <1>0, <1>2, OtherAttempts DEF Lands, Accounted, ClickOf
<1>5a. /\ req'[<<k, m>>].pc = "applied"
       /\ \A i \in 1 .. MaxAttempts : i # m => req'[<<k, i>>] = req[<<k, i>>]
  BY <1>2, OtherAttempts
<1>6. m \in Nat /\ m > 0 /\ click[k].attempt \in Nat /\ executed[k] \in Nat
  BY <1>0, ClickFacts
<1>e. Exposed(k)' <=> Exposed(k)
  BY <1>1 DEF Exposed
<1> HIDE DEF k, m
\* What runs is the last attempt, and the first to execute the click, unless an answer is unknown.
<1>7. ~(m > click[k].attempt)
  BY <1>5 DEF AttemptOf
<1>8. ~Exposed(k) => ledger[k] = None /\ m = click[k].attempt /\ executed[k] = 0
  BY <1>5, <1>6, <1>7 DEF AttemptOf, Latest, Dead
<1>9. k \notin unheard => m = click[k].attempt /\ executed[k] = 0 /\ ~Local(k)
  BY <1>5, <1>6, <1>7 DEF AttemptOf, Latest, Dead
<1>10. Local(k)' <=> Local(k)
  BY <1>1 DEF Local
<1>11. CountOf(k)'
  BY <1>1, <1>3, <1>6, <1>7, <1>8, <1>9, <1>10, <1>e DEF CountOf
<1>12. ASSUME NEW i \in 1 .. MaxAttempts PROVE AttemptOf(k, i)'
  <2>0. AttemptOf(k, i)
    BY <1>0, <1>5 DEF ClickOf
  <2>1. /\ i = m => req'[<<k, i>>].pc = "applied"
        /\ i # m => req'[<<k, i>>] = req[<<k, i>>]
    BY <1>5a
  <2> QED BY <1>1, <1>6, <1>7, <1>8, <1>9, <1>10, <1>e, <2>0, <2>1 DEF AttemptOf, Latest
<1> QED BY <1>0, <1>4, <1>11, <1>12, SameKeeps DEF Accounted, ClickOf

LEMMA FeedAccounted ==
  ASSUME Typed, Accounted,
         Syncs \/ \E t \in Tickets, status \in Statuses : Others(t, status)
  PROVE  Accounted'
<1>1. UNCHANGED <<req, ledger, executed, logged, unheard, unstored, unchecked>>
  BY DEF Others, Syncs, Push, PushCommit, PushFails, PushSpoiled, Read, Apply, PullLost, Crash,
         WebCommit, Retried, Quarantined, history, done
<1>2. CASE UNCHANGED click
  <2>1. \A k \in Clicks : SameFor(k)
    BY <1>1, <1>2 DEF SameFor, Exposed, Local
  <2> QED BY <2>1, SameKeeps DEF Accounted
<1>3. CASE Crash
  <2>1. \A k \in Clicks : SameFor(k)
    BY <1>1, <1>3, CrashEnds DEF SameFor, Exposed, Local
  <2> QED BY <2>1, SameKeeps DEF Accounted
<1>4. UNCHANGED click \/ Crash
  BY DEF Others, Syncs, Push, PushCommit, PushFails, PushSpoiled, Read, Apply, PullLost,
         WebCommit, Retried, Quarantined
<1> QED BY <1>2, <1>3, <1>4

LEMMA AccountedStep ==
  ASSUME Typed, Accounted, [Next]_vars
  PROVE  Accounted'
<1>1. CASE Next
  BY <1>1, StepEffect, BeginsAccounted, RetriesAccounted, QuietAccounted, TalksAccounted,
     StoresAccounted, LandsAccounted, FeedAccounted DEF Fails
<1>2. CASE UNCHANGED vars
  <2>1. \A k \in Clicks : SameFor(k)
    BY <1>2 DEF vars, history, done, SameFor, Exposed, Local
  <2> QED BY <2>1, SameKeeps DEF Accounted
<1> QED BY <1>1, <1>2

\* A click sent once, or again after an answer that was heard or is found stored, is executed
\* once; and a click executed at both ends is one whose answers were not heard.
THEOREM ExecutedOnce == Spec => []OncePerClick
<1>1. Typed /\ Accounted /\ [Next]_vars => (Typed /\ Accounted)'
  BY TypedStep, AccountedStep
<1>2. Typed /\ Accounted => OncePerClick
  BY AccountedIsOnce
<1> QED BY InitTyped, InitAccounted, <1>1, <1>2, PTL DEF Spec

-----------------------------------------------------------------------------
(* Tickets and their copies. *)

\* A ticket's copies differ only while news of it is on the way, or after a loss.
CopyOf(t) ==
  \/ local[t] = cloud[t] \/ Coming(t) \/ t \in Lossy
  \/ \E k \in queued : row[k].ticket = t

\* A page that is read shows the tickets that have not changed since.
PageOf(t) ==
  t \in pull.tickets /\ t \notin unread \cup pull.behind => pull.value[t] = cloud[t]

\* A number that the cursor is past, or that the page ends beyond, is that of a transaction still
\* open, on a ticket that has no other entry for the desktop.
Apart ==
  /\ \A t \in passed \cup pull.over : open[t] # "none" /\ t \notin unread
  /\ \A t \in passed : t \notin pull.tickets \cup pull.behind

Synced == (\A t \in Tickets : CopyOf(t) /\ PageOf(t)) /\ Apart

LEMMA SyncedIsNoDrift == Synced => DriftOnlyIfLossy
BY DEF Synced, CopyOf, DriftOnlyIfLossy, Settled

LEMMA InitSynced == Init => Synced
BY PlainRecords DEF Init, Synced, CopyOf, PageOf, Apart

\* A ticket with a row in the outbox keeps one.
RowsKept(t) ==
  (\E k \in queued : row[k].ticket = t) => \E k \in queued' : row'[k].ticket = t

LEMMA SameRowsKept ==
  ASSUME UNCHANGED row
  PROVE  \A t \in Tickets : RowsKept(t)
BY DEF RowsKept, queued

\* Only the tickets of the row that leaves may have no row any more.
LEMMA RowGoneKept ==
  ASSUME Typed, NEW k \in queued, RowGone(k)
  PROVE  \A t \in Tickets : t # row[k].ticket => RowsKept(t)
<1>1. row \in [Clicks -> Row] /\ k \in Clicks
  BY DEF Typed, RowsOK, queued
<1>2. \A j \in queued \ {k} : j \in queued' /\ row'[j] = row[j]
  BY <1>1 DEF RowGone, queued
<1> QED BY <1>2 DEF RowsKept

LEMMA CopyKeeps ==
  ASSUME NEW t \in Tickets, CopyOf(t), local'[t] = local[t], cloud'[t] = cloud[t],
         Coming(t) => Coming(t)' \/ t \in Lossy', t \in Lossy => t \in Lossy' \/ Coming(t)',
         RowsKept(t)
  PROVE  CopyOf(t)'
BY DEF CopyOf, RowsKept

\* A step that leaves the tickets, the feed and the rows alone.
LEMMA SyncedFrame ==
  ASSUME Synced, UNCHANGED <<cloud, local, changes, deferred, row, apart>>
  PROVE  Synced'
<1>1. ASSUME NEW t \in Tickets PROVE CopyOf(t)' /\ PageOf(t)'
  BY DEF Synced, CopyOf, PageOf, Coming, Lossy, queued, changes, apart
<1>2. Apart'
  BY DEF Synced, Apart, changes
<1> QED BY <1>1, <1>2 DEF Synced

\* What a transaction of the cloud does.
LEMMA TransactionSynced ==
  ASSUME Typed, Synced, NEW t \in Tickets,
         (\E status \in Statuses : Opens(t, status)) \/ Commits(t) \/ RollsBack(t),
         UNCHANGED <<local, deferred, stale>>, dropped \subseteq dropped',
         \A u \in Tickets : u # t => RowsKept(u),
         Commits(t) \/ RowsKept(t) \/ t \in dropped'
  PROVE  Synced'
<1>0. /\ cloud \in [Tickets -> Statuses] /\ open \in [Tickets -> Statuses] /\ pull \in Page
      /\ passed \subseteq Tickets
  BY DEF Typed, TicketsOK
<1>1. /\ pull'.tickets = pull.tickets /\ pull'.value = pull.value
      /\ pull.behind \subseteq pull'.behind /\ pull'.behind \subseteq pull.behind \cup {t}
      /\ pull'.over \subseteq pull.over
      /\ unread \subseteq unread' /\ passed' \subseteq passed /\ missed \subseteq missed'
      /\ \A u \in Tickets : u # t => cloud'[u] = cloud[u] /\ open'[u] = open[u]
                                     /\ (u \in unread' => u \in unread)
  <2>1. CASE \E status \in Statuses : Opens(t, status)
    BY <1>0, <2>1 DEF Opens
  <2>2. CASE Commits(t)
    BY <1>0, <2>2 DEF Commits, Page
  <2>3. CASE RollsBack(t)
    BY <1>0, <2>3 DEF RollsBack, Page
  <2> QED BY <2>1, <2>2, <2>3
<1>2. ASSUME NEW u \in Tickets, Coming(u) PROVE Coming(u)'
  BY <1>1, <1>2 DEF Coming
<1>3. ASSUME NEW u \in Tickets, u \in Lossy PROVE u \in Lossy'
  BY <1>1, <1>3 DEF Lossy
<1>4. ASSUME NEW u \in Tickets, u # t PROVE CopyOf(u)' /\ PageOf(u)'
  <2>1. CopyOf(u)'
    BY <1>1, <1>2, <1>3, <1>4, CopyKeeps DEF Synced
  <2>2. PageOf(u)'
    BY <1>1, <1>4 DEF Synced, PageOf
  <2> QED BY <2>1, <2>2
<1>5. CopyOf(t)' /\ PageOf(t)'
  <2>1. CASE Commits(t)
    <3>1. t \in unread' \cup pull'.behind \/ (t \in missed' /\ t \in passed)
      BY <1>0, <2>1 DEF Commits, Page
    <3>2. t \in passed => t \notin pull.tickets
      BY DEF Synced, Apart
    <3> QED BY <1>1, <3>1, <3>2 DEF CopyOf, PageOf, Coming, Lossy
  <2>2. CASE ~Commits(t)
    <3>1. cloud' = cloud
      BY <2>2 DEF Opens, RollsBack
    <3>2. PageOf(t)'
      BY <1>1, <3>1 DEF Synced, PageOf
    <3>3. CASE RowsKept(t)
      BY <1>2, <1>3, <3>1, <3>2, <3>3, CopyKeeps DEF Synced
    <3>4. CASE t \in dropped'
      BY <3>2, <3>4 DEF CopyOf, Lossy
    <3> QED BY <2>2, <3>3, <3>4
  <2> QED BY <2>1, <2>2
<1>6. Apart'
  <2>1. pull.over \subseteq Tickets
    BY <1>0 DEF Page
  <2>2. ASSUME NEW u \in passed' \cup pull'.over PROVE open'[u] # "none" /\ u \notin unread'
    <3>1. u \in Tickets /\ u \in passed \cup pull.over
      BY <1>0, <1>1, <2>1
    <3>2. open[u] # "none" /\ u \notin unread
      BY <3>1 DEF Synced, Apart
    <3>3. u # t
      <4>1. CASE \E status \in Statuses : Opens(t, status)
        BY <3>2, <4>1 DEF Opens
      <4>2. CASE Commits(t)
        <5>1. t \notin passed'
          BY <4>2 DEF Commits
        <5>2. t \notin pull'.over
          BY <1>0, <4>2 DEF Commits, Page
        <5> QED BY <2>2, <5>1, <5>2
      <4>3. CASE RollsBack(t)
        <5>1. t \notin passed' /\ t \notin pull'.over
          BY <1>0, <4>3 DEF RollsBack, Page
        <5> QED BY <2>2, <5>1
      <4> QED BY <4>1, <4>2, <4>3
    <3> QED BY <1>1, <3>1, <3>2, <3>3
  <2>3. ASSUME NEW u \in passed' PROVE u \notin pull'.tickets \cup pull'.behind
    <3>1. u \in passed /\ u \notin pull.tickets \cup pull.behind
      BY <1>1, <2>3 DEF Synced, Apart
    <3>2. open[u] # "none"
      BY <3>1 DEF Synced, Apart
    <3>3. u # t
      BY <2>3, <3>2 DEF Opens, Commits, RollsBack
    <3> QED BY <1>1, <3>1, <3>3
  <2> QED BY <2>2, <2>3 DEF Apart
<1> QED BY <1>4, <1>5, <1>6 DEF Synced

LEMMA ClickSynced ==
  ASSUME Typed, Synced, NEW k \in Clicks,
         Begins(k) \/ Proceeds(k) \/ Fails(k) \/ (GivesUp(k) /\ Retries(k)) \/ Garbles(k)
  PROVE  Synced'
<1>1. UNCHANGED <<cloud, local, changes, deferred, row, apart>>
  BY DEF Begins, Proceeds, Fails, Elsewhere, GivesUp, Garbles, sync, outbox, history
<1> QED BY <1>1, SyncedFrame

\* A copy of one ticket is written; the feed stays as it is.
LEMMA CopySynced ==
  ASSUME Typed, Synced, NEW t \in Tickets, NEW status,
         local' = [local EXCEPT ![t] = status], UNCHANGED <<cloud, changes>>,
         \A u \in Tickets : u # t => (deferred[u] # None => deferred'[u] # None),
         stale \subseteq stale', UNCHANGED <<missed, dropped>>,
         \A u \in Tickets : u # t => RowsKept(u),
         \/ Coming(t)' \/ t \in stale' \/ cloud[t] = status
         \/ \E k \in queued' : row'[k].ticket = t
  PROVE  Synced'
<1>1. local' \in [Tickets -> {status} \cup Statuses] /\ local'[t] = status
  BY DEF Typed, TicketsOK
<1>2. CopyOf(t)'
  BY <1>1 DEF CopyOf, Lossy
<1>3. ASSUME NEW u \in Tickets, u # t PROVE CopyOf(u)'
  <2>1. local'[u] = local[u] /\ cloud'[u] = cloud[u]
    BY <1>3 DEF Typed, TicketsOK
  <2>2. (Coming(u) => Coming(u)') /\ (u \in Lossy => u \in Lossy')
    BY <1>3 DEF Coming, Lossy, changes
  <2> QED BY <1>3, <2>1, <2>2, CopyKeeps DEF Synced
<1>4. \A u \in Tickets : PageOf(u)'
  BY DEF Synced, PageOf, changes
<1>5. Apart'
  BY DEF Synced, Apart, changes
<1> QED BY <1>2, <1>3, <1>4, <1>5 DEF Synced

LEMMA LocalSynced ==
  ASSUME Typed, Synced, NEW k \in Clicks,
         MirrorWrite(k) \/ (\E t \in Tickets : Executes(k, t))
  PROVE  Synced'
<1>1. CASE MirrorWrite(k)
  <2>0. PICK t \in Tickets : t = click[k].ticket
    BY <1>1, MirrorEnds
  <2>1. UNCHANGED <<cloud, changes, deferred, row, missed, dropped>>
    BY <1>1 DEF MirrorWrite, sync, outbox
  <2>2. CASE UNCHANGED <<local, stale>>
    BY <2>1, <2>2, SyncedFrame DEF apart
  <2>3. CASE /\ local' = [local EXCEPT ![t] = Outcome(click[k].act)]
             /\ stale' = IF Coming(t) \/ cloud[t] = Outcome(click[k].act) THEN stale
                         ELSE stale \cup {t}
    <3>1. Coming(t)' <=> Coming(t)
      BY <2>1 DEF Coming, changes
    <3>2. stale \subseteq stale' /\ \A u \in Tickets : RowsKept(u)
      BY <2>1, <2>3, SameRowsKept
    <3>3. Coming(t)' \/ t \in stale' \/ cloud[t] = Outcome(click[k].act)
      BY <2>3, <3>1
    <3> QED BY <2>1, <2>3, <3>2, <3>3, CopySynced
  <2> QED BY <1>1, <2>0, <2>2, <2>3 DEF MirrorWrite
<1>2. ASSUME NEW t \in Tickets, Executes(k, t) PROVE Synced'
  <2>1. PICK status \in Statuses : /\ local' = [local EXCEPT ![t] = status]
                                   /\ row' = [row EXCEPT ![k] = [ticket |-> t, status |-> status]]
    BY <1>2 DEF Executes
  <2>2. k \notin queued /\ row \in [Clicks -> Row]
    BY <1>2 DEF Executes, Typed, RowsOK
  <2>3. \A j \in queued : j \in queued' /\ row'[j] = row[j]
    BY <2>1, <2>2 DEF queued
  <2>4. row'[k].ticket = t /\ k \in queued'
    BY <2>1, <2>2, QueueAssumption DEF queued, NoRow
  <2>5. \A u \in Tickets : RowsKept(u)
    BY <2>3 DEF RowsKept
  <2>6. UNCHANGED <<cloud, changes, deferred, stale, missed, dropped>>
    BY <1>2 DEF Executes, apart
  <2> QED BY <2>1, <2>4, <2>5, <2>6, CopySynced
<1> QED BY <1>1, <1>2

LEMMA CloudSynced ==
  ASSUME Typed, Synced, NEW a \in Requests,
         Talks(a) \/ Unguards(a) \/ Stores(a) \/ Holds(a) \/ Lands(a) \/ Aborts(a)
  PROVE  Synced'
<1>1. CASE Talks(a) \/ Unguards(a)
  BY <1>1, SyncedFrame DEF Talks, Unguards, sync, outbox, history
<1>2. CASE Holds(a) \/ Lands(a) \/ Aborts(a)
  <2>1. UNCHANGED <<local, deferred, row, stale, dropped>>
    BY <1>2 DEF Holds, Lands, Aborts, outbox
  <2> QED BY <1>2, <2>1, SameRowsKept, TransactionSynced DEF Holds, Lands, Aborts
<1>3. CASE Stores(a)
  <2>1. UNCHANGED <<cloud, local, open, passed, pull, deferred, row, stale, missed, dropped>>
    BY <1>3 DEF Stores, outbox, history, apart
  <2>2. PICK T \in SUBSET {t \in Tickets : open[t] = "none"} : unread' = unread \cup T
    BY <1>3 DEF Stores
  <2>3. ASSUME NEW t \in Tickets PROVE CopyOf(t)' /\ PageOf(t)'
    <3>1. (Coming(t) => Coming(t)') /\ (t \in Lossy => t \in Lossy') /\ RowsKept(t)
      BY <2>1, <2>2, SameRowsKept DEF Coming, Lossy
    <3>2. CopyOf(t)'
      BY <2>1, <3>1, CopyKeeps DEF Synced
    <3>3. PageOf(t)'
      BY <2>1, <2>2 DEF Synced, PageOf
    <3> QED BY <3>2, <3>3
  <2>4. Apart'
    BY <2>1, <2>2 DEF Synced, Apart
  <2> QED BY <2>3, <2>4 DEF Synced
<1> QED BY <1>1, <1>2, <1>3

LEMMA OthersSynced ==
  ASSUME Typed, Synced, NEW t \in Tickets,
         WebCommit(t) \/ \E status \in Statuses : Others(t, status)
  PROVE  Synced'
<1>1. UNCHANGED <<local, deferred, row, stale, dropped>>
  BY DEF WebCommit, Others, outbox
<1> QED BY <1>1, SameRowsKept, TransactionSynced DEF WebCommit, Others

LEMMA PushSynced ==
  ASSUME Typed, Synced, NEW k \in Clicks,
         Push(k) \/ PushCommit(k) \/ PushFails(k) \/ PushSpoiled(k)
  PROVE  Synced'
<1> DEFINE t == row[k].ticket
<1>0. k \in queued /\ t \in Tickets /\ row[k].status \in Statuses
  BY RowOf DEF Push, PushCommit, PushFails, PushSpoiled, Typed, RowsOK
<1>1. UNCHANGED <<local, deferred, stale>> /\ dropped \subseteq dropped'
  BY DEF Push, PushCommit, PushFails, PushSpoiled
<1>2. \A u \in Tickets : u # t => RowsKept(u)
  BY <1>0, SameRowsKept, RowGoneKept DEF Push, PushCommit, PushFails, PushSpoiled
<1>3. PushCommit(k) \/ RowsKept(t) \/ t \in dropped'
  BY <1>0, SameRowsKept DEF Push, PushCommit, PushFails, PushSpoiled
<1>4. CASE Push(k) \/ PushCommit(k)
  BY <1>0, <1>1, <1>2, <1>3, <1>4, TransactionSynced DEF Push, PushCommit
<1>5. CASE PushFails(k) \/ PushSpoiled(k)
  <2>0. Withdrawn(k) /\ (RowsKept(t) \/ t \in dropped')
    BY <1>0, <1>5, SameRowsKept DEF PushFails, PushSpoiled
  <2>1. CASE RollsBack(t)
    BY <1>0, <1>1, <1>2, <2>0, <2>1, TransactionSynced
  <2>2. CASE UNCHANGED <<cloud, changes, missed>>
    <3>1. ASSUME NEW u \in Tickets PROVE CopyOf(u)' /\ PageOf(u)'
      <4>1. (Coming(u) => Coming(u)') /\ (u \in Lossy => u \in Lossy')
        BY <1>1, <2>2 DEF Coming, Lossy, changes
      <4>p. PageOf(u)'
        BY <2>2 DEF Synced, PageOf, changes
      <4>0. CopyOf(u) /\ local'[u] = local[u] /\ cloud'[u] = cloud[u]
        BY <1>1, <2>2 DEF Synced
      <4>2. CASE RowsKept(u)
        BY <4>0, <4>1, <4>2, <4>p, CopyKeeps
      <4>3. CASE u = t /\ t \in dropped'
        BY <4>3, <4>p DEF CopyOf, Lossy
      <4> QED BY <1>2, <2>0, <4>2, <4>3
    <3>2. Apart'
      BY <2>2 DEF Synced, Apart, changes
    <3> QED BY <3>1, <3>2 DEF Synced
  <2> QED BY <2>0, <2>1, <2>2 DEF Withdrawn
<1> QED BY <1>4, <1>5

LEMMA ReadSynced ==
  ASSUME Typed, Synced, NEW R \in SUBSET unread, NEW B \in SUBSET Ahead, Read(R, B)
  PROVE  Synced'
<1>1. /\ pull = NoPage /\ unread' = {}
      /\ pull' = [tickets |-> R, value |-> [t \in Tickets |-> IF t \in R THEN cloud[t] ELSE "none"],
                  behind |-> unread \ R, over |-> B]
      /\ UNCHANGED <<cloud, local, open, passed, deferred, row, stale, missed, dropped>>
  BY DEF Read, outbox, history, apart
<1>2. /\ pull'.tickets = R /\ pull'.behind = unread \ R /\ pull'.over = B
      /\ \A t \in R : t \in Tickets => pull'.value[t] = cloud[t]
  BY <1>1
<1>3. ASSUME NEW t \in Tickets PROVE CopyOf(t)' /\ PageOf(t)'
  <2>1. Coming(t) => Coming(t)'
    BY <1>1, <1>2, PlainRecords DEF Coming
  <2>2. CopyOf(t)'
    BY <1>1, <2>1, SameRowsKept, CopyKeeps DEF Synced, Lossy
  <2>3. PageOf(t)'
    BY <1>1, <1>2 DEF PageOf
  <2> QED BY <2>2, <2>3
<1>4. Apart'
  BY <1>1, <1>2 DEF Synced, Apart, Ahead
<1> QED BY <1>3, <1>4 DEF Synced

LEMMA ApplySynced ==
  ASSUME Typed, Synced, NEW D \in SUBSET pull.tickets, Apply(D)
  PROVE  Synced'
<1> DEFINE new == pull.tickets \ D
<1>0. /\ pull.tickets \subseteq Tickets /\ pull.value \in [Tickets -> Statuses]
      /\ None \notin Statuses
  BY QueueAssumption DEF Typed, TicketsOK, Page
<1>1. /\ local' = [t \in Tickets |-> IF t \in new THEN pull.value[t] ELSE local[t]]
      /\ deferred' = [t \in Tickets |-> IF t \in D THEN pull.value[t] ELSE deferred[t]]
      /\ passed' = passed \cup pull.over /\ pull' = NoPage
      /\ stale' = stale \ new /\ dropped' = dropped \ new
      /\ missed' = (missed \ new) \cup pull.behind
      /\ UNCHANGED <<cloud, open, unread, row>>
  BY DEF Apply, outbox
<1>2. ASSUME NEW t \in Tickets PROVE CopyOf(t)'
  <2>0. CopyOf(t) /\ PageOf(t)
    BY DEF Synced
  <2>1. CASE t \in new
    <3>1. local'[t] = pull.value[t]
      BY <1>1, <2>1
    <3> QED BY <1>1, <2>0, <2>1, <3>1 DEF CopyOf, PageOf, Coming, Lossy
  <2>2. CASE t \in D
    <3>1. deferred'[t] # None
      BY <1>0, <1>1, <2>2
    <3> QED BY <3>1 DEF CopyOf, Coming
  <2>3. CASE t \notin pull.tickets
    <3>1. local'[t] = local[t] /\ deferred'[t] = deferred[t]
      BY <1>1, <2>3
    <3>2. Coming(t) => Coming(t)' \/ t \in Lossy'
      BY <1>1, <2>3, <3>1 DEF Coming, Lossy
    <3>3. t \in Lossy => t \in Lossy'
      BY <1>1, <2>3 DEF Lossy
    <3> QED BY <1>1, <2>0, <3>1, <3>2, <3>3, SameRowsKept, CopyKeeps
  <2> QED BY <2>1, <2>2, <2>3
<1>3. \A t \in Tickets : PageOf(t)'
  BY <1>1, PlainRecords DEF PageOf
<1>4. Apart'
  BY <1>1, PlainRecords DEF Synced, Apart
<1> QED BY <1>2, <1>3, <1>4 DEF Synced

\* A page that is lost is read again.
LEMMA UnpulledSynced ==
  ASSUME Typed, Synced, Unpulled,
         UNCHANGED <<cloud, local, open, passed, deferred, row, apart>>
  PROVE  Synced'
<1>1. /\ unread' = unread \cup pull.tickets \cup pull.behind
      /\ pull'.tickets = {} /\ pull'.behind = {} /\ pull'.over = {}
  BY PlainRecords DEF Unpulled
<1>2. ASSUME NEW t \in Tickets PROVE CopyOf(t)' /\ PageOf(t)'
  <2>1. Coming(t) => Coming(t)'
    BY <1>1 DEF Coming
  <2>2. t \in Lossy => t \in Lossy'
    BY DEF Lossy, apart
  <2>3. CopyOf(t)'
    BY <2>1, <2>2, SameRowsKept, CopyKeeps DEF Synced
  <2>4. PageOf(t)'
    BY <1>1 DEF PageOf
  <2> QED BY <2>3, <2>4
<1>3. Apart'
  BY <1>1 DEF Synced, Apart
<1> QED BY <1>2, <1>3 DEF Synced

\* What was put aside is written or given up.
LEMMA RetrySynced ==
  ASSUME Typed, Synced, NEW t \in Tickets, Retried(t) \/ Quarantined(t)
  PROVE  Synced'
<1>0. deferred \in [Tickets -> Statuses \cup {None}]
  BY DEF Typed, TicketsOK
<1>1. /\ UNCHANGED <<cloud, changes, row, dropped>>
      /\ deferred' = [deferred EXCEPT ![t] = None]
  BY DEF Retried, Quarantined, outbox
<1>2. \A u \in Tickets : u # t => deferred'[u] = deferred[u]
  BY <1>0, <1>1
<1>3. CASE Retried(t)
  <2>1. /\ local' = [local EXCEPT ![t] = deferred[t]] /\ missed' = missed
        /\ stale' = IF t \in unread \/ cloud[t] = deferred[t] THEN stale ELSE stale \cup {t}
    BY <1>3 DEF Retried
  <2>2. t \in unread => Coming(t)'
    BY <1>1 DEF Coming, changes
  <2> QED BY <1>1, <1>2, <2>1, <2>2, SameRowsKept, CopySynced
<1>4. CASE Quarantined(t)
  <2>1. UNCHANGED <<local, stale>> /\ missed' = missed \cup {t}
    BY <1>4 DEF Quarantined
  <2>2. CopyOf(t)'
    BY <2>1 DEF CopyOf, Lossy
  <2>3. ASSUME NEW u \in Tickets, u # t PROVE CopyOf(u)'
    <3>1. (Coming(u) => Coming(u)') /\ (u \in Lossy => u \in Lossy')
      BY <1>1, <1>2, <2>1, <2>3 DEF Coming, Lossy, changes
    <3> QED BY <1>1, <2>1, <3>1, SameRowsKept, CopyKeeps DEF Synced
  <2>4. (\A u \in Tickets : PageOf(u)') /\ Apart'
    BY <1>1 DEF Synced, PageOf, Apart, changes
  <2> QED BY <2>2, <2>3, <2>4 DEF Synced
<1> QED BY <1>3, <1>4

LEMMA SyncedStep ==
  ASSUME Typed, Synced, [Next]_vars
  PROVE  Synced'
<1>1. PullLost \/ Crash => Synced'
  BY UnpulledSynced DEF PullLost, Crash, outbox, history
<1>2. Syncs => Synced'
  BY <1>1, PushSynced, ReadSynced, ApplySynced, RetrySynced, OthersSynced DEF Syncs
<1>3. CASE Next
  BY <1>2, <1>3, StepEffect, ClickSynced, LocalSynced, CloudSynced, OthersSynced
<1>4. CASE UNCHANGED vars
  BY <1>4, SyncedFrame DEF vars, sync, outbox, history
<1> QED BY <1>3, <1>4

\* The two copies of a ticket differ only while news of it is under way, or after a loss that no
\* page has made good yet.
THEOREM NoSilentDrift == Spec => []DriftOnlyIfLossy
<1>1. Typed /\ Synced /\ [Next]_vars => (Typed /\ Synced)'
  BY TypedStep, SyncedStep
<1>2. Typed /\ Synced => DriftOnlyIfLossy
  BY SyncedIsNoDrift
<1> QED BY InitTyped, InitSynced, <1>1, <1>2, PTL DEF Spec
=============================================================================
