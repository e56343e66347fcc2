------------------------------ MODULE Ticketing ------------------------------
(***************************************************************************)
(* How tickets get their numbers and lose them.  A customer's join, a      *)
(* walk-in at the desk and one at a kiosk count the active tickets, read   *)
(* the last number and insert the next one, a statement at a time: the     *)
(* transactions run at READ COMMITTED and may interleave between any two.  *)
(* A postponement reads the queue, then renumbers it in one transaction.   *)
(* The numbers of a lane, a service on a day, are kept apart by a unique   *)
(* index alone, whatever the tickets' states.                              *)
(*                                                                         *)
(* Serving has the routes that change a ticket's status, SetStatus here.   *)
(* An insert and its commit are one step: the index holds the key from     *)
(* the one to the other.  Not modelled: the switches read before the       *)
(* transaction (open, paused, subscribed), the displayed copy of the last  *)
(* issued number, tickets made offline.                                    *)
(***************************************************************************)
EXTENDS Naturals, FiniteSets, FiniteSetsExt

CONSTANTS
  Slots,       \* bound: the rows there can be
  Services,
  Days, Today, \* days that can be reserved
  Before,      \* last number a service issued on the days before
  Customers,
  WalkIn,      \* who has a ticket without an account
  Issues,      \* requests for a ticket that run at once
  Postponers,  \* postponements that run at once
  Capacity,    \* agency.maxActiveReservations
  MaxReach,    \* bound: positions of a postponement (10 in the code)
  MaxChanges,  \* bound: changes made by other routes
  MaxMoves,    \* bound: postponements
  None

Ticket == [service : Services, day : Days, number : Nat \ {0},
           owner : Customers \cup {WalkIn}, status : {"waiting", "called", "done"}]

ASSUME TicketingAssumption ==
  /\ IsFiniteSet(Slots) /\ IsFiniteSet(Issues) /\ Issues # {}
  /\ Today \in Days /\ Before \in Nat
  /\ Capacity \in Nat /\ MaxReach \in Nat /\ MaxChanges \in Nat /\ MaxMoves \in Nat
  /\ WalkIn \notin Customers
  /\ None \notin Ticket

VARIABLES
  ticket,    \* the rows of Reservation; None is one not inserted yet
  issue,     \* the requests for a ticket
  move,      \* the postponements
  changes,   \* changes made by other routes
  returned,  \* those of them that made a finished ticket active again
  imported,  \* walk-ins taken into an account
  moves,     \* postponements begun
  ahead      \* history: tickets that wait in the lane of a request since before it

bounds == <<changes, returned, imported, moves>>
vars == <<ticket, issue, move, changes, returned, imported, moves, ahead>>

Rows == {t \in Slots : ticket[t] # None}
Waits(t) == ticket[t] # None /\ ticket[t].status = "waiting"
Lane(s, d) == {t \in Rows : ticket[t].service = s /\ ticket[t].day = d}

\* The tickets of a day that count against the capacity.
Active(d) == {t \in Rows : ticket[t].status \in {"waiting", "called"} /\ ticket[t].day = d}

\* The requests that have been counted in, but not inserted.
Counted(d) == {i \in Issues : issue[i].pc \in {"number", "insert"} /\ issue[i].day = d}

Idle == [pc |-> "idle", who |-> None, service |-> None, day |-> None, number |-> 0]
Still == [pc |-> "idle", ticket |-> None, from |-> 0, to |-> 0]

Init ==
  /\ ticket = [t \in Slots |-> None]
  /\ issue = [i \in Issues |-> Idle]
  /\ move = [p \in Postponers |-> Still]
  /\ changes = 0 /\ returned = 0 /\ imported = 0 /\ moves = 0
  /\ ahead = [i \in Issues |-> {}]

-----------------------------------------------------------------------------
(* A ticket is issued. *)

\* Mutant of HasTicket: a called customer may join again.
HasTicketWaiting(c, s, d) ==
  \E t \in Lane(s, d) : ticket[t].owner = c /\ ticket[t].status = "waiting"

\* duplicateWhere
HasTicket(c, s, d) ==
  \E t \in Lane(s, d) : ticket[t].owner = c /\ ticket[t].status \in {"waiting", "called"}

\* Mutant of HasRoom: off by one.
HasRoomForOneMore(who, d) == Cardinality(Active(d)) <= Capacity

\* A join counts the tickets of its day, a walk-in those of every day.
HasRoom(who, d) ==
  Cardinality(IF who = WalkIn THEN UNION {Active(e) : e \in Days} ELSE Active(d)) < Capacity

\* Mutant of LastNumber: tickets are counted, although a lane may have gaps.
LastNumberCounts(who, s, d) == (IF who = WalkIn THEN Before ELSE 0) + Cardinality(Lane(s, d))

\* A join continues its lane, a walk-in the service whatever the day.
LastNumber(who, s, d) ==
  IF who = WalkIn THEN Max({Before} \cup {ticket[t].number : t \in UNION {Lane(s, e) : e \in Days}})
  ELSE Max({0} \cup {ticket[t].number : t \in Lane(s, d)})

\* The index on service, day and number.
Taken(s, d, n) == \E t \in Lane(s, d) : ticket[t].number = n

\* The customer is looked up.  Both checks are made once before the
\* transaction too, where they can only refuse more.  (Bound: at most
\* one request more than there are rows left.)
Begin(i, who, s, d) ==
  /\ issue[i] = Idle
  /\ Cardinality(Rows) + Cardinality({j \in Issues : issue[j] # Idle}) <= Cardinality(Slots)
  /\ issue' = [issue EXCEPT ![i] = [pc |-> "count", who |-> who, service |-> s, day |-> d, number |-> 0]]
  /\ ahead' = [ahead EXCEPT ![i] = {t \in Lane(s, d) : Waits(t)}]
  /\ UNCHANGED <<ticket, move, bounds>>

Join(i, c, s, d) == ~HasTicket(c, s, d) /\ Begin(i, c, s, d)

JoinAtDesk(i, s) == Begin(i, WalkIn, s, Today)

Count(i) ==
  /\ issue[i].pc = "count"
  /\ issue' = [issue EXCEPT ![i] =
                 IF HasRoom(issue[i].who, issue[i].day) THEN [issue[i] EXCEPT !.pc = "number"] ELSE Idle]
  /\ ahead' = IF issue'[i] = Idle THEN [ahead EXCEPT ![i] = {}] ELSE ahead
  /\ UNCHANGED <<ticket, move, bounds>>

ReadLast(i) ==
  /\ issue[i].pc = "number"
  /\ issue' = [issue EXCEPT ![i].pc = "insert",
       ![i].number = LastNumber(issue[i].who, issue[i].service, issue[i].day) + 1]
  /\ UNCHANGED <<ticket, move, bounds, ahead>>

Insert(i) ==
  LET r == issue[i] IN
    /\ r.pc = "insert" /\ ~Taken(r.service, r.day, r.number)
    /\ Rows # Slots
    /\ ticket' = [ticket EXCEPT ![CHOOSE t \in Slots : ticket[t] = None] =
         [service |-> r.service, day |-> r.day, number |-> r.number, owner |-> r.who, status |-> "waiting"]]
    /\ issue' = [issue EXCEPT ![i] = Idle]
    /\ ahead' = [ahead EXCEPT ![i] = {}]
    /\ UNCHANGED <<move, bounds>>

\* The index refuses the row, and nothing tries again.
Collide(i) ==
  /\ issue[i].pc = "insert" /\ Taken(issue[i].service, issue[i].day, issue[i].number)
  /\ issue' = [issue EXCEPT ![i] = Idle]
  /\ ahead' = [ahead EXCEPT ![i] = {}]
  /\ UNCHANGED <<ticket, move, bounds>>

-----------------------------------------------------------------------------
(* A ticket is postponed. *)

PostponeReads(p, t) ==
  /\ move[p] = Still /\ Waits(t) /\ moves < MaxMoves
  /\ moves' = moves + 1
  /\ move' = [move EXCEPT ![p] = [pc |-> "look", ticket |-> t, from |-> ticket[t].number, to |-> 0]]
  /\ UNCHANGED <<ticket, issue, changes, returned, imported, ahead>>

\* The waiting tickets of the agency numbered above n, of any lane.
Later(n) == {t \in Slots : Waits(t) /\ ticket[t].number > n}

\* The number of the k-th of them, or of the last.
Target(n, k) ==
  Min({m \in {ticket[t].number : t \in Later(n)} :
        LET upTo == {t \in Later(n) : ticket[t].number <= m} IN
          Cardinality(upTo) >= k \/ upTo = Later(n)})

PostponeLooks(p, k) ==
  /\ move[p].pc = "look"
  /\ LET m == move[p] IN
       move' = [move EXCEPT ![p] = IF Later(m.from) = {} THEN Still
                  ELSE [m EXCEPT !.pc = "write", !.to = Target(m.from, k)]]
  /\ UNCHANGED <<ticket, issue, bounds, ahead>>

\* Whoever waits in the range read gives way, and the ticket takes the last
\* number of the range, whatever its status is by now.
Passed(m) ==
  {t \in Slots \ {m.ticket} : Waits(t) /\ m.from < ticket[t].number /\ ticket[t].number <= m.to}

Renumbered(m) ==
  [t \in Slots |->
     IF t = m.ticket THEN [ticket[t] EXCEPT !.number = m.to]
     ELSE IF t \in Passed(m) THEN [ticket[t] EXCEPT !.number = @ - 1]
     ELSE ticket[t]]

SameLane(t, u) == ticket[t].service = ticket[u].service /\ ticket[t].day = ticket[u].day

\* Mutant of Clashes: no unique index.
ClashesNever(m) == FALSE

Clashes(m) ==
  \E t, u \in Rows : t # u /\ SameLane(t, u) /\ Renumbered(m)[t].number = Renumbered(m)[u].number

\* The index is checked row by row, in an order the statement does not fix.
MayClash(m) ==
  \/ Clashes(m)
  \/ \E t, u \in Passed(m) : SameLane(t, u) /\ ticket[t].number + 1 = ticket[u].number

PostponeWrites(p) ==
  /\ move[p].pc = "write" /\ ~Clashes(move[p])
  /\ ticket' = Renumbered(move[p])
  /\ ahead' = [i \in Issues |-> ahead[i] \ {move[p].ticket}]
  /\ move' = [move EXCEPT ![p] = Still]
  /\ UNCHANGED <<issue, bounds>>

PostponeFails(p) ==
  /\ move[p].pc = "write" /\ MayClash(move[p])
  /\ move' = [move EXCEPT ![p] = Still]
  /\ UNCHANGED <<ticket, issue, bounds, ahead>>

-----------------------------------------------------------------------------
(* What the other routes do to a ticket. *)

\* The desks, the cron jobs and the customers set any status.  No capacity
\* is asked for when a ticket comes back.
SetStatus(t, status) ==
  /\ t \in Rows /\ ticket[t].status # status
  /\ changes < MaxChanges
  /\ changes' = changes + 1
  /\ returned' = IF ticket[t].status = "done" THEN returned + 1 ELSE returned
  /\ ticket' = [ticket EXCEPT ![t].status = status]
  /\ ahead' = [i \in Issues |-> ahead[i] \ {t}]
  /\ UNCHANGED <<issue, move, imported, moves>>

\* A customer takes a walk-in's ticket into his account; his other tickets
\* are not looked for.  (Check and write are one step: of two customers that
\* race for a ticket either may have it in the end.)
Import(t, c) ==
  /\ Waits(t) /\ ticket[t].owner = WalkIn
  /\ changes < MaxChanges
  /\ changes' = changes + 1
  /\ imported' = imported + 1
  /\ ticket' = [ticket EXCEPT ![t].owner = c]
  /\ UNCHANGED <<issue, move, returned, moves, ahead>>

Issuing ==
  \E i \in Issues :
    \/ \E c \in Customers, s \in Services, d \in Days : Join(i, c, s, d)
    \/ \E s \in Services : JoinAtDesk(i, s)
    \/ Count(i) \/ ReadLast(i) \/ Insert(i) \/ Collide(i)

Postponing ==
  \E p \in Postponers :
    \/ \E t \in Slots : PostponeReads(p, t)
    \/ \E k \in 1 .. MaxReach : PostponeLooks(p, k)
    \/ PostponeWrites(p) \/ PostponeFails(p)

Elsewhere ==
  \E t \in Slots :
    \/ \E status \in {"waiting", "called", "done"} : SetStatus(t, status)
    \/ \E c \in Customers : Import(t, c)

Next == Issuing \/ Postponing \/ Elsewhere

Spec == Init /\ [][Next]_vars

-----------------------------------------------------------------------------
TicketsOK ==
  /\ ticket \in [Slots -> Ticket \cup {None}]
  /\ \A t, u \in Rows : SameLane(t, u) /\ ticket[t].number = ticket[u].number => t = u

Asked == [pc : {"count", "number", "insert"}, who : Customers \cup {WalkIn},
          service : Services, day : Days, number : Nat]

IssuesOK ==
  /\ issue \in [Issues -> {Idle} \cup Asked]
  /\ \A i \in Issues : issue[i].pc = "insert" => issue[i].number > 0

Moving == [pc : {"look", "write"}, ticket : Slots, from : Nat \ {0}, to : Nat]

MovesOK ==
  /\ move \in [Postponers -> {Still} \cup Moving]
  /\ \A p \in Postponers : /\ move[p].pc # "idle" => move[p].ticket \in Rows
                           /\ move[p].pc = "write" => move[p].to > 0

CountsOK ==
  /\ changes \in 0 .. MaxChanges /\ moves \in 0 .. MaxMoves
  /\ returned \in Nat /\ imported \in Nat /\ returned + imported <= changes

\* Types, and that no two tickets of a lane ever share a number, however the
\* numbers are issued and moved.
TypeOK ==
  TicketsOK /\ IssuesOK /\ MovesOK /\ CountsOK /\ ahead \in [Issues -> SUBSET Slots]

\* The capacity is counted before it is filled (reservations.ts:203): a day
\* holds more active tickets than maxActiveReservations, yet never by more
\* than the requests that run beside one, and the tickets given back.
OverrunBounded ==
  \A d \in Days :
    Cardinality(Active(d)) + Cardinality(Counted(d))
      <= Capacity + Cardinality(Issues) - 1 + returned

Held(c, s, d) == {t \in Lane(s, d) \cap Active(d) : ticket[t].owner = c}

Asking(c, s, d) ==
  {i \in Issues : /\ issue[i].pc # "idle"
                  /\ issue[i].who = c /\ issue[i].service = s /\ issue[i].day = d}

\* A customer has no more tickets of a lane than requests that ran at once,
\* tickets given back and tickets imported (the check at reservations.ts:200
\* is not atomic with the insert).
DuplicatesBounded ==
  \A c \in Customers, s \in Services, d \in Days :
    Cardinality(Held(c, s, d)) + Cardinality(Asking(c, s, d))
      <= Cardinality(Issues) + (returned + imported)

\* A ticket is numbered after every one that has waited in its lane since
\* before the request came in, though the last number was read before others
\* were issued and moved.
NewcomerLast ==
  [][\A i \in Issues : Insert(i) => \A t \in ahead[i] : ticket[t].number < issue[i].number]_vars

\* Renumbering by ranges read earlier, over all lanes of the agency, leaves
\* the tickets that wait in a lane in their order, but for the one postponed.
OrderKept ==
  [][\A t, u \in Rows :
       /\ Waits(t) /\ Waits(u) /\ SameLane(t, u) /\ ticket[t].number < ticket[u].number
       /\ ~\E p \in Postponers : move[p].ticket \in {t, u} /\ PostponeWrites(p)
       => ticket'[t].number < ticket'[u].number]_vars
==============================================================================
