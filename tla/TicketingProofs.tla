--------------------------- MODULE TicketingProofs ---------------------------
(* What is proved about Ticketing. *)
EXTENDS Ticketing, FiniteNumbers

-----------------------------------------------------------------------------
(* Numbers that are issued. *)

\* The numbers of some rows.
NumbersOf(L) == {ticket[t].number : t \in L}

LEMMA NumbersFinite ==
  ASSUME NEW L \in SUBSET Slots
  PROVE  IsFiniteSet(NumbersOf(L))
<1> DEFINE f == [t \in L |-> ticket[t].number]
<1>1. IsFiniteSet(L) BY FS_Subset, TicketingAssumption
<1>2. f \in Surjection(L, NumbersOf(L)) BY DEF Surjection, NumbersOf
<1> QED BY <1>1, <1>2, FS_Surjection

\* The last number is one, and no ticket of the lane is numbered above it.
LEMMA LastNumberBounds ==
  ASSUME TypeOK, NEW who, NEW s \in Services, NEW d \in Days
  PROVE  /\ LastNumber(who, s, d) \in Nat
         /\ \A t \in Lane(s, d) : ticket[t].number <= LastNumber(who, s, d)
<1> DEFINE W == UNION {Lane(s, e) : e \in Days}
           L == Lane(s, d)
<1>1. /\ W \in SUBSET Rows /\ L \in SUBSET Rows /\ L \subseteq W
      /\ \A t \in Rows : ticket[t].number \in Nat
  BY TicketingAssumption DEF TypeOK, TicketsOK, Rows, Lane, Ticket
<1>2. \A M \in SUBSET Rows, b \in Nat :
        LET n == Max({b} \cup NumbersOf(M)) IN n \in Nat /\ \A t \in M : ticket[t].number <= n
  <2> SUFFICES ASSUME NEW M \in SUBSET Rows, NEW b \in Nat
               PROVE  LET n == Max({b} \cup NumbersOf(M)) IN
                        n \in Nat /\ \A t \in M : ticket[t].number <= n
    OBVIOUS
  <2>1. IsFiniteSet({b} \cup NumbersOf(M))
    BY NumbersFinite, FS_AddElement DEF Rows
  <2>2. {b} \cup NumbersOf(M) \in SUBSET Nat
    BY <1>1 DEF NumbersOf
  <2>3. \A t \in M : ticket[t].number \in NumbersOf(M)
    BY DEF NumbersOf
  <2> QED BY <2>1, <2>2, <2>3, MaxOf
<1>3. LastNumber(who, s, d) = Max({Before} \cup NumbersOf(W))
      \/ LastNumber(who, s, d) = Max({0} \cup NumbersOf(L))
  BY DEF LastNumber, NumbersOf
<1> HIDE DEF W, L
<1> QED BY <1>1, <1>2, <1>3, TicketingAssumption DEF L

\* A postponement that finds somebody behind it gets a number.
LEMMA TargetTyped ==
  ASSUME TypeOK, NEW n \in Nat, NEW k \in Nat, Later(n) # {}
  PROVE  Target(n, k) \in Nat \ {0}
<1> DEFINE N == NumbersOf(Later(n))
           UpTo(m) == {t \in Later(n) : ticket[t].number <= m}
           Enough == {m \in N : Cardinality(UpTo(m)) >= k \/ UpTo(m) = Later(n)}
<1>1. Later(n) \in SUBSET Slots /\ \A t \in Later(n) : ticket[t].number \in Nat \ {0}
  BY TicketingAssumption DEF TypeOK, TicketsOK, Later, Waits, Ticket
<1>2. N \in SUBSET (Nat \ {0}) /\ N # {} /\ IsFiniteSet(N)
  BY <1>1, NumbersFinite DEF NumbersOf
<1>3. UpTo(Max(N)) = Later(n)
  <2>1. \A t \in Later(n) : ticket[t].number \in N
    BY DEF NumbersOf
  <2> QED BY <1>2, <2>1, MaxOf
<1>4. Max(N) \in Enough
  BY <1>2, <1>3, MaxOf
<1>5. IsFiniteSet(Enough) /\ Enough \in SUBSET Nat
  BY <1>2, FS_Subset
<1>6. Min(Enough) \in Enough
  <2> HIDE DEF Enough
  <2> QED BY <1>4, <1>5, MinOf
<1>7. Target(n, k) = Min(Enough)
  BY DEF Target, NumbersOf
<1> QED BY <1>2, <1>6, <1>7

-----------------------------------------------------------------------------
(* Types, and the unique numbers of a lane. *)

\* What a request and a postponement under way look like.
LEMMA Under ==
  ASSUME TypeOK
  PROVE  /\ \A i \in Issues : issue[i].pc # "idle" => issue[i] \in Asked
         /\ \A p \in Postponers : move[p].pc # "idle" => move[p] \in Moving
BY DEF TypeOK, IssuesOK, MovesOK, Asked, Moving, Idle, Still

\* A new row, and nothing else of the rows changes.
LEMMA InsertAdds ==
  ASSUME TypeOK, NEW i \in Issues, Insert(i)
  PROVE  \E n \in Slots \ Rows :
           /\ ticket' = [ticket EXCEPT ![n] =
                [service |-> issue[i].service, day |-> issue[i].day, number |-> issue[i].number,
                 owner |-> issue[i].who, status |-> "waiting"]]
           /\ ticket'[n] \in Ticket
           /\ Rows' = Rows \cup {n}
           /\ \A t \in Rows : ticket'[t] = ticket[t]
<1> DEFINE n == CHOOSE t \in Slots : ticket[t] = None
           new == [service |-> issue[i].service, day |-> issue[i].day,
                   number |-> issue[i].number, owner |-> issue[i].who, status |-> "waiting"]
<1>1. n \in Slots \ Rows
  BY DEF Insert, Rows
<1>2. new \in Ticket
  BY Under, TypeOK DEF Insert, TypeOK, IssuesOK, Asked, Ticket
<1>3. ticket' = [ticket EXCEPT ![n] = new]
  BY DEF Insert
<1>4. ticket \in [Slots -> Ticket \cup {None}]
  BY DEF TypeOK, TicketsOK
<1> HIDE DEF n, new
<1>5. ticket'[n] = new /\ \A t \in Rows : ticket'[t] = ticket[t]
  BY <1>1, <1>3, <1>4 DEF Rows
<1>6. Rows' = Rows \cup {n}
  BY <1>1, <1>2, <1>3, <1>4, <1>5, TicketingAssumption DEF Rows
<1> QED BY <1>1, <1>2, <1>3, <1>5, <1>6 DEF new

\* A ticket with another number.
LEMMA Numbered ==
  ASSUME NEW r \in Ticket, NEW n \in Nat \ {0}
  PROVE  LET x == [r EXCEPT !.number = n] IN
           /\ x \in Ticket /\ x.number = n
           /\ x.service = r.service /\ x.day = r.day /\ x.owner = r.owner /\ x.status = r.status
BY DEF Ticket

\* A postponement changes numbers, and of the rows alone.
LEMMA WriteRenumbers ==
  ASSUME TypeOK, NEW p \in Postponers, PostponeWrites(p)
  PROVE  /\ ticket' = Renumbered(move[p])
         /\ ticket' \in [Slots -> Ticket \cup {None}]
         /\ Rows' = Rows
         /\ \A t \in Rows :
              /\ ticket'[t].service = ticket[t].service /\ ticket'[t].day = ticket[t].day
              /\ ticket'[t].owner = ticket[t].owner /\ ticket'[t].status = ticket[t].status
              /\ t # move[p].ticket =>
                   ticket'[t].number = IF t \in Passed(move[p]) THEN ticket[t].number - 1
                                       ELSE ticket[t].number
<1> DEFINE m == move[p]
<1>1. m \in Moving /\ m.ticket \in Rows /\ m.to > 0
  BY Under DEF TypeOK, MovesOK, PostponeWrites
<1>2. /\ ticket \in [Slots -> Ticket \cup {None}] /\ Rows \subseteq Slots
      /\ \A t \in Slots : t \in Rows <=> ticket[t] # None
      /\ \A t \in Rows : ticket[t] \in Ticket
  BY DEF TypeOK, TicketsOK, Rows
<1>3. ticket' = Renumbered(m)
  BY DEF PostponeWrites
<1>4. /\ Passed(m) \subseteq Rows \ {m.ticket}
      /\ \A t \in Passed(m) : ticket[t].number - 1 \in Nat \ {0}
  <2>1. Passed(m) \subseteq Rows \ {m.ticket}
    BY DEF Passed, Waits, Rows
  <2>2. \A t \in Passed(m) : m.from < ticket[t].number /\ ticket[t].number \in Nat
    BY <1>2, <2>1 DEF Passed, Ticket
  <2> QED BY <1>1, <2>1, <2>2 DEF Moving
<1>5. m.to \in Nat \ {0}
  BY <1>1 DEF Moving
<1> HIDE DEF m
<1>6. \A t \in Slots \ Rows : ticket'[t] = None
  BY <1>1, <1>2, <1>3, <1>4 DEF Renumbered
<1> DEFINE number(t) == IF t = m.ticket THEN m.to
             ELSE IF t \in Passed(m) THEN ticket[t].number - 1 ELSE ticket[t].number
<1>7. \A t \in Rows : ticket'[t] = [ticket[t] EXCEPT !.number = number(t)]
  <2> SUFFICES ASSUME NEW t \in Rows
               PROVE  ticket'[t] = [ticket[t] EXCEPT !.number = number(t)]
    OBVIOUS
  <2>1. ticket'[t] = IF t = m.ticket THEN [ticket[t] EXCEPT !.number = m.to]
                     ELSE IF t \in Passed(m) THEN [ticket[t] EXCEPT !.number = @ - 1]
                     ELSE ticket[t]
    BY <1>2, <1>3 DEF Renumbered
  <2>2. ticket[t] = [ticket[t] EXCEPT !.number = ticket[t].number]
    BY <1>2 DEF Ticket
  <2> QED BY <2>1, <2>2
<1>8. \A t \in Rows : number(t) \in Nat \ {0}
  BY <1>2, <1>4, <1>5 DEF Ticket
<1>9. \A t \in Rows :
         /\ ticket'[t] \in Ticket /\ ticket'[t].number = number(t)
         /\ ticket'[t].service = ticket[t].service /\ ticket'[t].day = ticket[t].day
         /\ ticket'[t].owner = ticket[t].owner /\ ticket'[t].status = ticket[t].status
  <2> SUFFICES ASSUME NEW t \in Rows
               PROVE  /\ ticket'[t] \in Ticket /\ ticket'[t].number = number(t)
                      /\ ticket'[t].service = ticket[t].service /\ ticket'[t].day = ticket[t].day
                      /\ ticket'[t].owner = ticket[t].owner /\ ticket'[t].status = ticket[t].status
    OBVIOUS
  <2>1. PICK n : n = number(t)
    OBVIOUS
  <2>2. n \in Nat \ {0} /\ ticket'[t] = [ticket[t] EXCEPT !.number = n] /\ ticket[t] \in Ticket
    BY <1>2, <1>7, <1>8, <2>1
  <2> HIDE DEF number
  <2> QED BY <2>1, <2>2, Numbered
<1>10. ticket' \in [Slots -> Ticket \cup {None}]
  <2>1. DOMAIN ticket' = Slots /\ ticket' = [t \in Slots |-> ticket'[t]]
    BY <1>3 DEF Renumbered
  <2> QED BY <1>6, <1>9, <2>1
<1>11. Rows' = Rows
  BY <1>2, <1>6, <1>9, TicketingAssumption DEF Rows
<1>12. \A t \in Rows :
         /\ ticket'[t].service = ticket[t].service /\ ticket'[t].day = ticket[t].day
         /\ ticket'[t].owner = ticket[t].owner /\ ticket'[t].status = ticket[t].status
         /\ t # m.ticket =>
              ticket'[t].number = IF t \in Passed(m) THEN ticket[t].number - 1 ELSE ticket[t].number
  BY <1>9
<1> QED BY <1>3, <1>10, <1>11, <1>12 DEF m

\* Another status, of one row.
LEMMA StatusMoves ==
  ASSUME TypeOK, NEW t \in Slots, NEW status \in {"waiting", "called", "done"}, SetStatus(t, status)
  PROVE  /\ ticket' = [ticket EXCEPT ![t].status = status]
         /\ ticket'[t] \in Ticket /\ ticket'[t] = [ticket[t] EXCEPT !.status = status]
         /\ Rows' = Rows
         /\ \A u \in Slots \ {t} : ticket'[u] = ticket[u]
<1>1. ticket \in [Slots -> Ticket \cup {None}] /\ ticket[t] \in Ticket
  BY DEF TypeOK, TicketsOK, SetStatus, Rows
<1>2. /\ ticket' = [ticket EXCEPT ![t].status = status]
      /\ ticket'[t] = [ticket[t] EXCEPT !.status = status]
      /\ \A u \in Slots \ {t} : ticket'[u] = ticket[u]
  BY <1>1 DEF SetStatus
<1>3. ticket'[t] \in Ticket
  BY <1>1, <1>2 DEF Ticket
<1> QED BY <1>1, <1>2, <1>3, TicketingAssumption DEF Rows

\* Another owner, of one row.
LEMMA ImportMoves ==
  ASSUME TypeOK, NEW t \in Slots, NEW c \in Customers, Import(t, c)
  PROVE  /\ ticket' = [ticket EXCEPT ![t].owner = c]
         /\ ticket'[t] \in Ticket /\ ticket'[t] = [ticket[t] EXCEPT !.owner = c]
         /\ Rows' = Rows
         /\ \A u \in Slots \ {t} : ticket'[u] = ticket[u]
<1>1. ticket \in [Slots -> Ticket \cup {None}] /\ ticket[t] \in Ticket
  BY DEF TypeOK, TicketsOK, Import, Waits
<1>2. /\ ticket' = [ticket EXCEPT ![t].owner = c]
      /\ ticket'[t] = [ticket[t] EXCEPT !.owner = c]
      /\ \A u \in Slots \ {t} : ticket'[u] = ticket[u]
  BY <1>1 DEF Import
<1>3. ticket'[t] \in Ticket
  BY <1>1, <1>2 DEF Ticket
<1> QED BY <1>1, <1>2, <1>3, TicketingAssumption DEF Rows

\* A step that leaves rows where they are leaves the postponements well-typed.
LEMMA MovesStay ==
  ASSUME MovesOK, Rows \subseteq Rows', UNCHANGED move
  PROVE  MovesOK'
BY DEF MovesOK

\* A request that moves on.
LEMMA IssueMoves ==
  ASSUME IssuesOK, NEW i \in Issues, NEW r \in {Idle} \cup Asked,
         r.pc = "insert" => r.number > 0, issue' = [issue EXCEPT ![i] = r]
  PROVE  IssuesOK'
BY DEF IssuesOK

LEMMA TypeStep ==
  ASSUME TypeOK, Next PROVE TypeOK'
<1>0. TicketsOK /\ IssuesOK /\ MovesOK /\ CountsOK /\ ahead \in [Issues -> SUBSET Slots]
  BY DEF TypeOK
<1>1. ASSUME NEW i \in Issues, NEW who \in Customers \cup {WalkIn}, NEW s \in Services,
             NEW d \in Days, Begin(i, who, s, d)
      PROVE  TypeOK'
  <2>1. IssuesOK'
    <3> DEFINE r == [pc |-> "count", who |-> who, service |-> s, day |-> d, number |-> 0]
    <3>1. r \in Asked /\ r.pc # "insert"
      BY DEF Asked
    <3>2. issue' = [issue EXCEPT ![i] = r]
      BY <1>1 DEF Begin
    <3> HIDE DEF r
    <3> QED BY <1>0, <3>1, <3>2, IssueMoves
  <2>2. TicketsOK' /\ MovesOK' /\ CountsOK'
    BY <1>0, <1>1 DEF Begin, TicketsOK, MovesOK, CountsOK, bounds, Rows, SameLane
  <2>3. ahead' \in [Issues -> SUBSET Slots]
    BY <1>0, <1>1 DEF Begin, Lane, Rows
  <2> QED BY <2>1, <2>2, <2>3 DEF TypeOK
<1>2. ASSUME NEW i \in Issues, Count(i) PROVE TypeOK'
  <2>1. IssuesOK'
    <3>1. issue[i] \in Asked
      BY <1>2, Under DEF Count
    <3>2. /\ [issue[i] EXCEPT !.pc = "number"] \in Asked
          /\ [issue[i] EXCEPT !.pc = "number"].pc # "insert" /\ Idle.pc # "insert"
      BY <3>1 DEF Asked, Idle
    <3>3. CASE HasRoom(issue[i].who, issue[i].day)
      <4>1. issue' = [issue EXCEPT ![i] = [issue[i] EXCEPT !.pc = "number"]]
        BY <1>2, <3>3 DEF Count
      <4> QED BY <1>0, <3>2, <4>1, IssueMoves
    <3>4. CASE ~HasRoom(issue[i].who, issue[i].day)
      <4>1. issue' = [issue EXCEPT ![i] = Idle]
        BY <1>2, <3>4 DEF Count
      <4> QED BY <1>0, <3>2, <4>1, IssueMoves
    <3> QED BY <3>3, <3>4
  <2>2. TicketsOK' /\ MovesOK' /\ CountsOK'
    BY <1>0, <1>2 DEF Count, TicketsOK, MovesOK, CountsOK, bounds, Rows, SameLane
  <2>3. ahead' \in [Issues -> SUBSET Slots]
    BY <1>0, <1>2 DEF Count
  <2> QED BY <2>1, <2>2, <2>3 DEF TypeOK
<1>3. ASSUME NEW i \in Issues, ReadLast(i) PROVE TypeOK'
  <2>1. IssuesOK'
    <3> DEFINE n == LastNumber(issue[i].who, issue[i].service, issue[i].day) + 1
    <3>1. issue[i] \in Asked
      BY <1>3, Under DEF ReadLast
    <3>2. n \in Nat \ {0}
      BY <3>1, LastNumberBounds DEF Asked
    <3>3. issue' = [issue EXCEPT ![i] = [issue[i] EXCEPT !.pc = "insert", !.number = n]]
      BY <1>3, <1>0 DEF ReadLast, IssuesOK
    <3> HIDE DEF n
    <3> DEFINE r == [issue[i] EXCEPT !.pc = "insert", !.number = n]
    <3>4. r \in Asked
      BY <3>1, <3>2 DEF Asked
    <3>5. r.number > 0
      BY <3>1, <3>2 DEF Asked
    <3> HIDE DEF r
    <3>6. issue' = [issue EXCEPT ![i] = r]
      BY <3>3 DEF r
    <3> QED BY <1>0, <3>4, <3>5, <3>6, IssueMoves
  <2>2. TicketsOK' /\ MovesOK' /\ CountsOK' /\ ahead' \in [Issues -> SUBSET Slots]
    BY <1>0, <1>3 DEF ReadLast, TicketsOK, MovesOK, CountsOK, bounds, Rows, SameLane
  <2> QED BY <2>1, <2>2 DEF TypeOK
<1>4. ASSUME NEW i \in Issues, Insert(i) PROVE TypeOK'
  <2>1. PICK n \in Slots \ Rows :
          /\ ticket' = [ticket EXCEPT ![n] =
               [service |-> issue[i].service, day |-> issue[i].day, number |-> issue[i].number,
                owner |-> issue[i].who, status |-> "waiting"]]
          /\ ticket'[n] \in Ticket
          /\ Rows' = Rows \cup {n}
          /\ \A t \in Rows : ticket'[t] = ticket[t]
    BY <1>4, InsertAdds
  <2>2. TicketsOK'
    <3>1. ticket' \in [Slots -> Ticket \cup {None}]
      BY <1>0, <2>1 DEF TicketsOK
    <3>2. /\ ticket'[n].service = issue[i].service /\ ticket'[n].day = issue[i].day
          /\ ticket'[n].number = issue[i].number
      BY <1>0, <2>1 DEF TicketsOK
    <3>3. \A t \in Rows : ~(/\ ticket[t].service = issue[i].service /\ ticket[t].day = issue[i].day
                            /\ ticket[t].number = issue[i].number)
      BY <1>4 DEF Insert, Taken, Lane
    <3>4. \A t, u \in Rows' : SameLane(t, u)' /\ ticket'[t].number = ticket'[u].number => t = u
      BY <1>0, <2>1, <3>2, <3>3 DEF TicketsOK, SameLane
    <3> QED BY <3>1, <3>4 DEF TicketsOK
  <2>3. IssuesOK'
    BY <1>0, <1>4, IssueMoves DEF Insert, Idle
  <2>4. MovesOK' /\ CountsOK' /\ ahead' \in [Issues -> SUBSET Slots]
    BY <1>0, <1>4, <2>1, MovesStay DEF Insert, CountsOK, bounds
  <2> QED BY <2>2, <2>3, <2>4 DEF TypeOK
<1>5. ASSUME NEW i \in Issues, Collide(i) PROVE TypeOK'
  <2>1. IssuesOK'
    BY <1>0, <1>5, IssueMoves DEF Collide, Idle
  <2>2. TicketsOK' /\ MovesOK' /\ CountsOK' /\ ahead' \in [Issues -> SUBSET Slots]
    BY <1>0, <1>5 DEF Collide, TicketsOK, MovesOK, CountsOK, bounds, Rows, SameLane
  <2> QED BY <2>1, <2>2 DEF TypeOK
<1>6. ASSUME NEW p \in Postponers, NEW t \in Slots, PostponeReads(p, t) PROVE TypeOK'
  <2>1. MovesOK'
    <3>1. t \in Rows /\ ticket[t].number \in Nat \ {0}
      BY <1>0, <1>6 DEF PostponeReads, Waits, Rows, TicketsOK, Ticket
    <3>2. [pc |-> "look", ticket |-> t, from |-> ticket[t].number, to |-> 0] \in Moving
      BY <3>1 DEF Moving
    <3> QED BY <1>0, <1>6, <3>1, <3>2 DEF MovesOK, PostponeReads, Rows
  <2>2. CountsOK'
    BY <1>0, <1>6, TicketingAssumption DEF CountsOK, PostponeReads
  <2>3. TicketsOK' /\ IssuesOK' /\ ahead' \in [Issues -> SUBSET Slots]
    BY <1>0, <1>6 DEF PostponeReads, TicketsOK, IssuesOK, Rows, SameLane
  <2> QED BY <2>1, <2>2, <2>3 DEF TypeOK
<1>7. ASSUME NEW p \in Postponers, NEW k \in 1 .. MaxReach, PostponeLooks(p, k) PROVE TypeOK'
  <2>1. MovesOK'
    <3>1. move[p] \in Moving /\ move[p].ticket \in Rows
      BY <1>0, <1>7, Under DEF PostponeLooks, MovesOK
    <3>2. CASE Later(move[p].from) = {}
      BY <1>0, <1>7, <3>2 DEF PostponeLooks, MovesOK, Still, Rows
    <3>3. CASE Later(move[p].from) # {}
      <4> DEFINE n == Target(move[p].from, k)
      <4>1. n \in Nat \ {0}
        BY <3>1, <3>3, TargetTyped, TicketingAssumption DEF Moving
      <4>2. move' = [move EXCEPT ![p] = [move[p] EXCEPT !.pc = "write", !.to = n]]
        BY <1>7, <3>3 DEF PostponeLooks
      <4> HIDE DEF n
      <4> DEFINE m == [move[p] EXCEPT !.pc = "write", !.to = n]
      <4>3. m \in Moving
        BY <3>1, <4>1 DEF Moving
      <4>4. m.ticket \in Rows /\ m.to > 0
        BY <3>1, <4>1 DEF Moving
      <4> HIDE DEF m
      <4>5. move' = [move EXCEPT ![p] = m]
        BY <4>2 DEF m
      <4>6. Rows' = Rows
        BY <1>7 DEF PostponeLooks, Rows
      <4> QED BY <1>0, <4>3, <4>4, <4>5, <4>6 DEF MovesOK
    <3> QED BY <3>2, <3>3
  <2>2. TicketsOK' /\ IssuesOK' /\ CountsOK' /\ ahead' \in [Issues -> SUBSET Slots]
    BY <1>0, <1>7 DEF PostponeLooks, TicketsOK, IssuesOK, CountsOK, bounds, Rows, SameLane
  <2> QED BY <2>1, <2>2 DEF TypeOK
<1>8. ASSUME NEW p \in Postponers, PostponeWrites(p) PROVE TypeOK'
  <2>1. TicketsOK'
    <3>1. ticket' \in [Slots -> Ticket \cup {None}] /\ ticket' = Renumbered(move[p]) /\ Rows' = Rows
      BY <1>8, WriteRenumbers
    <3>2. \A t \in Rows : ticket'[t].service = ticket[t].service /\ ticket'[t].day = ticket[t].day
      BY <1>8, WriteRenumbers
    <3>3. \A t, u \in Rows : SameLane(t, u) /\ ticket'[t].number = ticket'[u].number => t = u
      BY <1>8, <3>1 DEF PostponeWrites, Clashes
    <3> QED BY <3>1, <3>2, <3>3 DEF TicketsOK, SameLane
  <2>2. MovesOK'
    <3>1. Rows' = Rows
      BY <1>8, WriteRenumbers
    <3> QED BY <1>0, <1>8, <3>1 DEF PostponeWrites, MovesOK, Still
  <2>3. IssuesOK' /\ CountsOK' /\ ahead' \in [Issues -> SUBSET Slots]
    BY <1>0, <1>8 DEF PostponeWrites, IssuesOK, CountsOK, bounds
  <2> QED BY <2>1, <2>2, <2>3 DEF TypeOK
<1>9. ASSUME NEW p \in Postponers, PostponeFails(p) PROVE TypeOK'
  <2>1. MovesOK'
    BY <1>0, <1>9 DEF PostponeFails, MovesOK, Still, Rows
  <2>2. TicketsOK' /\ IssuesOK' /\ CountsOK' /\ ahead' \in [Issues -> SUBSET Slots]
    BY <1>0, <1>9 DEF PostponeFails, TicketsOK, IssuesOK, CountsOK, bounds, Rows, SameLane
  <2> QED BY <2>1, <2>2 DEF TypeOK
<1>10. ASSUME NEW t \in Slots, NEW status \in {"waiting", "called", "done"}, SetStatus(t, status)
       PROVE  TypeOK'
  <2>1. /\ ticket' = [ticket EXCEPT ![t].status = status]
        /\ ticket'[t] \in Ticket /\ ticket'[t] = [ticket[t] EXCEPT !.status = status]
        /\ Rows' = Rows
        /\ \A u \in Slots \ {t} : ticket'[u] = ticket[u]
    BY <1>10, StatusMoves
  <2>2. \A u \in Rows : /\ ticket'[u].service = ticket[u].service /\ ticket'[u].day = ticket[u].day
                        /\ ticket'[u].number = ticket[u].number
    BY <1>0, <2>1 DEF TicketsOK, Rows, Ticket
  <2>3. TicketsOK'
    BY <1>0, <2>1, <2>2 DEF TicketsOK, SameLane
  <2>4. CountsOK'
    BY <1>0, <1>10, TicketingAssumption DEF CountsOK, SetStatus
  <2>5. MovesOK' /\ IssuesOK' /\ ahead' \in [Issues -> SUBSET Slots]
    BY <1>0, <1>10, <2>1, MovesStay DEF SetStatus, IssuesOK
  <2> QED BY <2>3, <2>4, <2>5 DEF TypeOK
<1>11. ASSUME NEW t \in Slots, NEW c \in Customers, Import(t, c) PROVE TypeOK'
  <2>1. /\ ticket' = [ticket EXCEPT ![t].owner = c]
        /\ ticket'[t] \in Ticket /\ ticket'[t] = [ticket[t] EXCEPT !.owner = c]
        /\ Rows' = Rows
        /\ \A u \in Slots \ {t} : ticket'[u] = ticket[u]
    BY <1>11, ImportMoves
  <2>2. \A u \in Rows : /\ ticket'[u].service = ticket[u].service /\ ticket'[u].day = ticket[u].day
                        /\ ticket'[u].number = ticket[u].number
    BY <1>0, <2>1 DEF TicketsOK, Rows, Ticket
  <2>3. TicketsOK'
    BY <1>0, <2>1, <2>2 DEF TicketsOK, SameLane
  <2>4. CountsOK'
    BY <1>0, <1>11, TicketingAssumption DEF CountsOK, Import
  <2>5. MovesOK' /\ IssuesOK' /\ ahead' \in [Issues -> SUBSET Slots]
    BY <1>0, <1>11, <2>1, MovesStay DEF Import, IssuesOK
  <2> QED BY <2>3, <2>4, <2>5 DEF TypeOK
<1> QED BY <1>1, <1>2, <1>3, <1>4, <1>5, <1>6, <1>7, <1>8, <1>9, <1>10, <1>11, TicketingAssumption
        DEF Next, Issuing, Postponing, Elsewhere, Join, JoinAtDesk

\* The rows and the requests keep their types, and a number is held once in a lane.
THEOREM TypeCorrect == Spec => []TypeOK
<1>1. Init => TypeOK
  BY TicketingAssumption DEF Init, TypeOK, TicketsOK, IssuesOK, MovesOK, CountsOK, Rows, Idle, Still
<1>2. TypeOK /\ [Next]_vars => TypeOK'
  <2>1. ASSUME TypeOK, UNCHANGED vars PROVE TypeOK'
    BY <2>1 DEF TypeOK, TicketsOK, IssuesOK, MovesOK, CountsOK, vars, bounds, Rows, SameLane
  <2> QED BY <2>1, TypeStep
<1> QED BY <1>1, <1>2, PTL DEF Spec

-----------------------------------------------------------------------------
(* The capacity. *)

\* One element more, one element less.
LEMMA OneMore ==
  ASSUME NEW S, IsFiniteSet(S), NEW x, NEW T \in SUBSET (S \cup {x})
  PROVE  Cardinality(T) \in Nat /\ Cardinality(T) <= Cardinality(S) + 1
<1>1. Cardinality(S) \in Nat
  BY FS_CardinalityType
<1>2. IsFiniteSet(S \cup {x})
  BY FS_AddElement
<1>3. Cardinality(S \cup {x}) <= Cardinality(S) + 1
  <2>1. Cardinality(S \cup {x}) = IF x \in S THEN Cardinality(S) ELSE Cardinality(S) + 1
    BY FS_AddElement
  <2> QED BY <1>1, <2>1
<1>4. IsFiniteSet(T) /\ Cardinality(T) <= Cardinality(S \cup {x})
  BY <1>2, FS_Subset
<1>5. Cardinality(T) \in Nat /\ Cardinality(S \cup {x}) \in Nat
  BY <1>2, <1>4, FS_CardinalityType
<1> QED BY <1>1, <1>3, <1>4, <1>5

LEMMA OneLess ==
  ASSUME NEW S, IsFiniteSet(S), NEW x \in S, NEW T \in SUBSET (S \ {x})
  PROVE  Cardinality(T) \in Nat /\ Cardinality(T) <= Cardinality(S) - 1
<1>1. IsFiniteSet(S \ {x}) /\ Cardinality(S \ {x}) = Cardinality(S) - 1
  BY FS_RemoveElement
<1>2. Cardinality(T) <= Cardinality(S \ {x}) /\ IsFiniteSet(T)
  BY <1>1, FS_Subset
<1> QED BY <1>1, <1>2, FS_CardinalityType

LEMMA OverrunFinite ==
  ASSUME NEW d
  PROVE  /\ IsFiniteSet(Active(d)) /\ IsFiniteSet(Counted(d))
         /\ Cardinality(Active(d)) \in Nat /\ Cardinality(Counted(d)) \in Nat
         /\ Cardinality(Issues) \in Nat /\ Cardinality(Counted(d)) <= Cardinality(Issues)
<1>1. Active(d) \in SUBSET Slots /\ Counted(d) \in SUBSET Issues
  BY DEF Active, Counted, Rows
<1> QED BY <1>1, FS_Subset, FS_CardinalityType, TicketingAssumption

\* Neither another active ticket nor another request counted in.
LEMMA NoOverrunAdded ==
  ASSUME OverrunBounded, returned \in Nat, returned' \in Nat, returned' >= returned, NEW d \in Days,
         Active(d)' \subseteq Active(d), Counted(d)' \subseteq Counted(d)
  PROVE  Cardinality(Active(d)') + Cardinality(Counted(d)')
           <= Capacity + Cardinality(Issues) - 1 + returned'
<1>1. /\ Cardinality(Active(d)') <= Cardinality(Active(d)) /\ Cardinality(Active(d)') \in Nat
      /\ Cardinality(Counted(d)') <= Cardinality(Counted(d)) /\ Cardinality(Counted(d)') \in Nat
  BY OverrunFinite, FS_Subset, FS_CardinalityType
<1>2. Cardinality(Active(d)) + Cardinality(Counted(d)) <= Capacity + Cardinality(Issues) - 1 + returned
  BY DEF OverrunBounded
<1> QED BY <1>1, <1>2, OverrunFinite, TicketingAssumption

LEMMA OverrunStep ==
  ASSUME TypeOK, TypeOK', OverrunBounded, Next PROVE OverrunBounded'
<1>0. returned \in Nat /\ returned' \in Nat
  BY DEF TypeOK, CountsOK
<1> SUFFICES ASSUME NEW d \in Days
             PROVE  Cardinality(Active(d)') + Cardinality(Counted(d)')
                      <= Capacity + Cardinality(Issues) - 1 + returned'
  BY DEF OverrunBounded
<1> DEFINE Goal == Cardinality(Active(d)') + Cardinality(Counted(d)')
                     <= Capacity + Cardinality(Issues) - 1 + returned'
<1>1. ASSUME NEW i \in Issues, NEW who, NEW s, NEW e, Begin(i, who, s, e) PROVE Goal
  <2>1. Active(d)' = Active(d) /\ Counted(d)' \subseteq Counted(d)
    BY <1>1 DEF Begin, Active, Rows, Counted, Idle, TypeOK, IssuesOK
  <2> QED BY <1>0, <1>1, <2>1, NoOverrunAdded DEF Begin, bounds
<1>2. ASSUME NEW i \in Issues, Count(i) PROVE Goal
  <2>1. Active(d)' = Active(d) /\ returned' = returned
    BY <1>2 DEF Count, Active, Rows, bounds
  <2>2. CASE HasRoom(issue[i].who, issue[i].day) /\ issue[i].day = d
    <3>1. Cardinality(Active(d)) < Capacity
      <4> DEFINE All == UNION {Active(e) : e \in Days}
      <4>1. All \in SUBSET Slots /\ Active(d) \subseteq All
        BY DEF Active, Rows
      <4>2. IsFiniteSet(All) /\ Cardinality(All) \in Nat /\ Cardinality(Active(d)) <= Cardinality(All)
        BY <4>1, FS_Subset, FS_CardinalityType, TicketingAssumption
      <4>3. Cardinality(Active(d)) < Capacity \/ Cardinality(All) < Capacity
        BY <2>2 DEF HasRoom
      <4> HIDE DEF All
      <4> QED BY <4>2, <4>3, OverrunFinite, TicketingAssumption
    <3>2. Counted(d)' \in SUBSET Issues
      BY DEF Counted
    <3>3. Cardinality(Counted(d)') <= Cardinality(Issues) /\ Cardinality(Counted(d)') \in Nat
      BY <3>2, FS_Subset, FS_CardinalityType, TicketingAssumption
    <3> QED BY <1>0, <2>1, <3>1, <3>3, OverrunFinite, TicketingAssumption
  <2>3. CASE ~(HasRoom(issue[i].who, issue[i].day) /\ issue[i].day = d)
    <3>1. Counted(d)' \subseteq Counted(d)
      BY <1>2, <2>3 DEF Count, Counted, Idle, TypeOK, IssuesOK
    <3> QED BY <1>0, <2>1, <3>1, NoOverrunAdded
  <2> QED BY <2>2, <2>3
<1>3. ASSUME NEW i \in Issues, ReadLast(i) PROVE Goal
  <2>1. Active(d)' = Active(d) /\ Counted(d)' \subseteq Counted(d) /\ returned' = returned
    BY <1>3 DEF ReadLast, Active, Rows, Counted, TypeOK, IssuesOK, bounds
  <2> QED BY <1>0, <2>1, NoOverrunAdded
<1>4. ASSUME NEW i \in Issues, Insert(i) PROVE Goal
  <2>1. PICK n \in Slots \ Rows :
          /\ ticket' = [ticket EXCEPT ![n] =
               [service |-> issue[i].service, day |-> issue[i].day, number |-> issue[i].number,
                owner |-> issue[i].who, status |-> "waiting"]]
          /\ ticket'[n] \in Ticket
          /\ Rows' = Rows \cup {n}
          /\ \A t \in Rows : ticket'[t] = ticket[t]
    BY <1>4, InsertAdds
  <2>2. ticket'[n].day = issue[i].day
    BY <2>1 DEF TypeOK, TicketsOK
  <2>3. /\ i \in Counted(issue[i].day) /\ returned' = returned
        /\ Counted(d)' \subseteq Counted(d) \ {i}
    BY <1>4 DEF Insert, Counted, Idle, TypeOK, IssuesOK, bounds
  <2>4. CASE issue[i].day = d
    <3>1. Active(d)' \subseteq Active(d) \cup {n}
      BY <2>1 DEF Active
    <3>2. Cardinality(Active(d)') <= Cardinality(Active(d)) + 1 /\ Cardinality(Active(d)') \in Nat
      BY <3>1, OverrunFinite, OneMore
    <3>3. Cardinality(Counted(d)') <= Cardinality(Counted(d)) - 1 /\ Cardinality(Counted(d)') \in Nat
      BY <2>3, <2>4, OverrunFinite, OneLess
    <3>4. Cardinality(Active(d)) + Cardinality(Counted(d))
            <= Capacity + Cardinality(Issues) - 1 + returned
      BY DEF OverrunBounded
    <3> QED BY <1>0, <2>3, <3>2, <3>3, <3>4, OverrunFinite, TicketingAssumption
  <2>5. CASE issue[i].day # d
    <3>1. Active(d)' \subseteq Active(d)
      BY <2>1, <2>2, <2>5 DEF Active
    <3> QED BY <1>0, <2>3, <3>1, NoOverrunAdded
  <2> QED BY <2>4, <2>5
<1>5. ASSUME NEW i \in Issues, Collide(i) PROVE Goal
  <2>1. Active(d)' = Active(d) /\ Counted(d)' \subseteq Counted(d) /\ returned' = returned
    BY <1>5 DEF Collide, Active, Rows, Counted, Idle, TypeOK, IssuesOK, bounds
  <2> QED BY <1>0, <2>1, NoOverrunAdded
<1>6. ASSUME NEW p \in Postponers, PostponeWrites(p) PROVE Goal
  <2>1. Active(d)' = Active(d)
    BY <1>6, WriteRenumbers DEF Active
  <2>2. Counted(d)' = Counted(d) /\ returned' = returned
    BY <1>6 DEF PostponeWrites, Counted, bounds
  <2> QED BY <1>0, <2>1, <2>2, NoOverrunAdded
<1>7. ASSUME NEW p \in Postponers,
             \/ \E t \in Slots : PostponeReads(p, t)
             \/ \E k \in 1 .. MaxReach : PostponeLooks(p, k)
             \/ PostponeFails(p)
      PROVE  Goal
  <2>1. Active(d)' = Active(d) /\ Counted(d)' = Counted(d) /\ returned' = returned
    BY <1>7 DEF PostponeReads, PostponeLooks, PostponeFails, Active, Rows, Counted, bounds
  <2> QED BY <1>0, <2>1, NoOverrunAdded
<1>8. ASSUME NEW t \in Slots, NEW status \in {"waiting", "called", "done"}, SetStatus(t, status)
      PROVE  Goal
  <2>1. /\ ticket'[t] = [ticket[t] EXCEPT !.status = status] /\ Rows' = Rows
        /\ \A u \in Slots \ {t} : ticket'[u] = ticket[u]
    BY <1>8, StatusMoves
  <2>2. t \in Rows /\ ticket[t] \in Ticket /\ ticket'[t].day = ticket[t].day
    BY <1>8, <2>1 DEF SetStatus, Rows, TypeOK, TicketsOK, Ticket
  <2>3. Counted(d)' = Counted(d)
    BY <1>8 DEF SetStatus, Counted
  <2>4. CASE ticket[t].status = "done"
    <3>1. Active(d)' \subseteq Active(d) \cup {t}
      BY <2>1 DEF Active, Rows
    <3>2. Cardinality(Active(d)') <= Cardinality(Active(d)) + 1 /\ Cardinality(Active(d)') \in Nat
      BY <3>1, OverrunFinite, OneMore
    <3>3. Cardinality(Active(d)) + Cardinality(Counted(d))
            <= Capacity + Cardinality(Issues) - 1 + returned
      BY DEF OverrunBounded
    <3>4. returned' = returned + 1
      BY <1>8, <2>4 DEF SetStatus
    <3> QED BY <1>0, <2>3, <3>2, <3>3, <3>4, OverrunFinite, TicketingAssumption
  <2>5. CASE ticket[t].status # "done"
    <3>1. Active(d)' \subseteq Active(d)
      BY <2>1, <2>2, <2>5 DEF Active, Rows, Ticket
    <3>2. returned' = returned
      BY <1>8, <2>5 DEF SetStatus
    <3> QED BY <1>0, <2>3, <3>1, <3>2, NoOverrunAdded
  <2> QED BY <2>4, <2>5
<1>9. ASSUME NEW t \in Slots, NEW c \in Customers, Import(t, c) PROVE Goal
  <2>1. /\ ticket'[t] = [ticket[t] EXCEPT !.owner = c] /\ Rows' = Rows
        /\ \A u \in Slots \ {t} : ticket'[u] = ticket[u]
    BY <1>9, ImportMoves
  <2>2. /\ t \in Rows /\ ticket[t] \in Ticket
        /\ ticket'[t].day = ticket[t].day /\ ticket'[t].status = ticket[t].status
    BY <1>9, <2>1 DEF Import, Waits, Rows, TypeOK, TicketsOK, Ticket
  <2>3. Counted(d)' = Counted(d) /\ returned' = returned /\ Active(d)' \subseteq Active(d)
    BY <1>9, <2>1, <2>2 DEF Import, Counted, Active, Rows
  <2> QED BY <1>0, <2>3, NoOverrunAdded
<1> QED BY <1>1, <1>2, <1>3, <1>4, <1>5, <1>6, <1>7, <1>8, <1>9
        DEF Next, Issuing, Postponing, Elsewhere, Join, JoinAtDesk

\* However many requests count before they insert, a day's active tickets exceed the
\* capacity by less than the requests that run at once, and the tickets given back.
THEOREM Overrun == Spec => []OverrunBounded
<1>1. Init => OverrunBounded
  <2>1. ASSUME Init, NEW d \in Days
        PROVE  Cardinality(Active(d)) + Cardinality(Counted(d))
                 <= Capacity + Cardinality(Issues) - 1 + returned
    <3>1. Active(d) = {} /\ Counted(d) = {} /\ returned = 0
      BY <2>1 DEF Init, Active, Rows, Counted, Idle
    <3>2. Cardinality(Active(d)) = 0 /\ Cardinality(Counted(d)) = 0 /\ Cardinality(Issues) # 0
      BY <3>1, FS_EmptySet, TicketingAssumption
    <3> QED BY <3>1, <3>2, OverrunFinite, TicketingAssumption
  <2> QED BY <2>1 DEF OverrunBounded
<1>2. TypeOK /\ TypeOK' /\ OverrunBounded /\ [Next]_vars => OverrunBounded'
  <2>1. ASSUME OverrunBounded, UNCHANGED vars PROVE OverrunBounded'
    BY <2>1 DEF OverrunBounded, vars, bounds, Active, Counted, Rows
  <2> QED BY <2>1, OverrunStep
<1> QED BY <1>1, <1>2, TypeCorrect, PTL DEF Spec

-----------------------------------------------------------------------------
(* A customer's tickets. *)

LEMMA HeldFinite ==
  ASSUME NEW c, NEW s, NEW d
  PROVE  /\ IsFiniteSet(Held(c, s, d)) /\ IsFiniteSet(Asking(c, s, d))
         /\ Cardinality(Held(c, s, d)) \in Nat /\ Cardinality(Asking(c, s, d)) \in Nat
         /\ Cardinality(Issues) \in Nat /\ Cardinality(Asking(c, s, d)) <= Cardinality(Issues)
<1>1. Held(c, s, d) \in SUBSET Slots /\ Asking(c, s, d) \in SUBSET Issues
  BY DEF Held, Asking, Lane, Rows
<1> QED BY <1>1, FS_Subset, FS_CardinalityType, TicketingAssumption

\* Neither another ticket of the customer nor another request of his.
LEMMA NoneHeldAdded ==
  ASSUME DuplicatesBounded, NEW c \in Customers, NEW s \in Services, NEW d \in Days,
         returned + imported \in Nat, returned' + imported' \in Nat,
         returned' + imported' >= returned + imported,
         Held(c, s, d)' \subseteq Held(c, s, d), Asking(c, s, d)' \subseteq Asking(c, s, d)
  PROVE  Cardinality(Held(c, s, d)') + Cardinality(Asking(c, s, d)')
           <= Cardinality(Issues) + (returned' + imported')
<1>1. Cardinality(Held(c, s, d)') <= Cardinality(Held(c, s, d)) /\ Cardinality(Held(c, s, d)') \in Nat
  BY HeldFinite, FS_Subset, FS_CardinalityType
<1>2. /\ Cardinality(Asking(c, s, d)') <= Cardinality(Asking(c, s, d))
      /\ Cardinality(Asking(c, s, d)') \in Nat
  BY HeldFinite, FS_Subset, FS_CardinalityType
<1>3. Cardinality(Held(c, s, d)) + Cardinality(Asking(c, s, d))
        <= Cardinality(Issues) + (returned + imported)
  BY DEF DuplicatesBounded
<1> QED BY <1>1, <1>2, <1>3, HeldFinite

\* One ticket more, which one that comes back or is imported accounts for.
LEMMA OneHeldAdded ==
  ASSUME DuplicatesBounded, NEW c \in Customers, NEW s \in Services, NEW d \in Days, NEW t,
         returned + imported \in Nat, returned' + imported' = returned + imported + 1,
         Held(c, s, d)' \subseteq Held(c, s, d) \cup {t}, Asking(c, s, d)' = Asking(c, s, d)
  PROVE  Cardinality(Held(c, s, d)') + Cardinality(Asking(c, s, d)')
           <= Cardinality(Issues) + (returned' + imported')
<1>1. /\ Cardinality(Held(c, s, d)') <= Cardinality(Held(c, s, d)) + 1
      /\ Cardinality(Held(c, s, d)') \in Nat
  BY HeldFinite, OneMore
<1>2. Cardinality(Held(c, s, d)) + Cardinality(Asking(c, s, d))
        <= Cardinality(Issues) + (returned + imported)
  BY DEF DuplicatesBounded
<1> QED BY <1>1, <1>2, HeldFinite

LEMMA DuplicatesStep ==
  ASSUME TypeOK, TypeOK', DuplicatesBounded, Next PROVE DuplicatesBounded'
<1>a. returned \in Nat /\ imported \in Nat /\ returned' \in Nat /\ imported' \in Nat
  BY DEF TypeOK, CountsOK
<1>b. returned + imported \in Nat
  BY <1>a
<1>c. returned' + imported' \in Nat
  <2>1. \A x, y \in Nat : x + y \in Nat
    OBVIOUS
  <2> QED BY <1>a, <2>1
<1>0. /\ returned \in Nat /\ imported \in Nat /\ returned' \in Nat /\ imported' \in Nat
      /\ returned + imported \in Nat /\ returned' + imported' \in Nat
  BY ONLY <1>a, <1>b, <1>c
<1> SUFFICES ASSUME NEW c \in Customers, NEW s \in Services, NEW d \in Days
             PROVE  Cardinality(Held(c, s, d)') + Cardinality(Asking(c, s, d)')
                      <= Cardinality(Issues) + (returned' + imported')
  BY <1>0, HeldFinite DEF DuplicatesBounded
<1> DEFINE Goal == Cardinality(Held(c, s, d)') + Cardinality(Asking(c, s, d)')
                     <= Cardinality(Issues) + (returned' + imported')
           Same == returned' + imported' >= returned + imported
           Rests == returned' = returned /\ imported' = imported
<1>00. Rests => Same
  BY <1>0
<1>1. ASSUME NEW i \in Issues, NEW a \in Customers, NEW b \in Services, NEW e \in Days,
             Join(i, a, b, e)
      PROVE  Goal
  <2>1. Held(c, s, d)' = Held(c, s, d) /\ Rests
    BY <1>1 DEF Join, Begin, Held, Lane, Active, Rows, bounds
  <2>2. CASE a = c /\ b = s /\ e = d
    <3>1. Held(c, s, d) = {}
      BY <1>1, <2>2 DEF Join, HasTicket, Held, Active
    <3>2. Cardinality(Held(c, s, d)') = 0
      BY <2>1, <3>1, FS_EmptySet
    <3>3. Asking(c, s, d)' \in SUBSET Issues
      BY DEF Asking
    <3>4. Cardinality(Asking(c, s, d)') <= Cardinality(Issues) /\ Cardinality(Asking(c, s, d)') \in Nat
      BY <3>3, FS_Subset, FS_CardinalityType, TicketingAssumption
    <3> QED BY <1>0, <2>1, <3>2, <3>4, HeldFinite
  <2>3. CASE ~(a = c /\ b = s /\ e = d)
    <3>1. Asking(c, s, d)' \subseteq Asking(c, s, d)
      BY <1>1, <2>3 DEF Join, Begin, Asking, TypeOK, IssuesOK
    <3> QED BY <1>0, <1>00, <2>1, <3>1, NoneHeldAdded
  <2> QED BY <2>2, <2>3
<1>2. ASSUME NEW i \in Issues, NEW b \in Services, JoinAtDesk(i, b) PROVE Goal
  <2>1. Held(c, s, d)' = Held(c, s, d) /\ Rests
    BY <1>2 DEF JoinAtDesk, Begin, Held, Lane, Active, Rows, bounds
  <2>2. Asking(c, s, d)' \subseteq Asking(c, s, d)
    BY <1>2, TicketingAssumption DEF JoinAtDesk, Begin, Asking, TypeOK, IssuesOK
  <2> QED BY <1>0, <1>00, <2>1, <2>2, NoneHeldAdded
<1>3. ASSUME NEW i \in Issues, Count(i) \/ ReadLast(i) \/ Collide(i) PROVE Goal
  <2>1. Held(c, s, d)' = Held(c, s, d) /\ Rests
    BY <1>3 DEF Count, ReadLast, Collide, Held, Lane, Active, Rows, bounds
  <2>2. Asking(c, s, d)' \subseteq Asking(c, s, d)
    <3>1. CASE Count(i)
      BY <3>1 DEF Count, Asking, Idle, TypeOK, IssuesOK, Asked
    <3>2. CASE ReadLast(i)
      BY <3>2 DEF ReadLast, Asking, TypeOK, IssuesOK
    <3>3. CASE Collide(i)
      BY <3>3 DEF Collide, Asking, Idle, TypeOK, IssuesOK
    <3> QED BY <1>3, <3>1, <3>2, <3>3
  <2> QED BY <1>0, <1>00, <2>1, <2>2, NoneHeldAdded
<1>4. ASSUME NEW i \in Issues, Insert(i) PROVE Goal
  <2>1. PICK n \in Slots \ Rows :
          /\ ticket' = [ticket EXCEPT ![n] =
               [service |-> issue[i].service, day |-> issue[i].day, number |-> issue[i].number,
                owner |-> issue[i].who, status |-> "waiting"]]
          /\ ticket'[n] \in Ticket
          /\ Rows' = Rows \cup {n}
          /\ \A t \in Rows : ticket'[t] = ticket[t]
    BY <1>4, InsertAdds
  <2>2. /\ ticket'[n].day = issue[i].day /\ ticket'[n].service = issue[i].service
        /\ ticket'[n].owner = issue[i].who
    BY <2>1 DEF TypeOK, TicketsOK
  <2>3. Asking(c, s, d)' \subseteq Asking(c, s, d) \ {i} /\ Rests
    BY <1>4 DEF Insert, Asking, Idle, TypeOK, IssuesOK, bounds
  <2>4. CASE i \in Asking(c, s, d)
    <3>1. Held(c, s, d)' \subseteq Held(c, s, d) \cup {n}
      BY <2>1 DEF Held, Lane, Active
    <3>2. /\ Cardinality(Held(c, s, d)') <= Cardinality(Held(c, s, d)) + 1
          /\ Cardinality(Held(c, s, d)') \in Nat
      BY <3>1, HeldFinite, OneMore
    <3>3. /\ Cardinality(Asking(c, s, d)') <= Cardinality(Asking(c, s, d)) - 1
          /\ Cardinality(Asking(c, s, d)') \in Nat
      BY <2>3, <2>4, HeldFinite, OneLess
    <3>4. Cardinality(Held(c, s, d)) + Cardinality(Asking(c, s, d))
            <= Cardinality(Issues) + (returned + imported)
      BY <1>0, HeldFinite DEF DuplicatesBounded
    <3> QED BY <1>0, <2>3, <3>2, <3>3, <3>4, HeldFinite
  <2>5. CASE i \notin Asking(c, s, d)
    <3>1. Held(c, s, d)' \subseteq Held(c, s, d)
      BY <1>4, <2>1, <2>2, <2>5 DEF Insert, Held, Lane, Active, Asking
    <3> QED BY <1>0, <1>00, <2>3, <3>1, NoneHeldAdded
  <2> QED BY <2>4, <2>5
<1>5. ASSUME NEW p \in Postponers, PostponeWrites(p) PROVE Goal
  <2>1. Held(c, s, d)' = Held(c, s, d)
    BY <1>5, WriteRenumbers DEF Held, Lane, Active
  <2>2. Asking(c, s, d)' = Asking(c, s, d) /\ Rests
    BY <1>5 DEF PostponeWrites, Asking, bounds
  <2> QED BY <1>0, <1>00, <2>1, <2>2, NoneHeldAdded
<1>6. ASSUME NEW p \in Postponers,
             \/ \E t \in Slots : PostponeReads(p, t)
             \/ \E k \in 1 .. MaxReach : PostponeLooks(p, k)
             \/ PostponeFails(p)
      PROVE  Goal
  <2>1. /\ Held(c, s, d)' = Held(c, s, d) /\ Asking(c, s, d)' = Asking(c, s, d) /\ Rests
    BY <1>6 DEF PostponeReads, PostponeLooks, PostponeFails, Held, Lane, Active, Rows, Asking, bounds
  <2> QED BY <1>0, <1>00, <2>1, NoneHeldAdded
<1>7. ASSUME NEW t \in Slots, NEW status \in {"waiting", "called", "done"}, SetStatus(t, status)
      PROVE  Goal
  <2>1. /\ ticket'[t] = [ticket[t] EXCEPT !.status = status] /\ Rows' = Rows
        /\ \A u \in Slots \ {t} : ticket'[u] = ticket[u]
    BY <1>7, StatusMoves
  <2>2. /\ t \in Rows /\ ticket[t] \in Ticket
        /\ ticket'[t].day = ticket[t].day /\ ticket'[t].service = ticket[t].service
        /\ ticket'[t].owner = ticket[t].owner
    BY <1>7, <2>1 DEF SetStatus, Rows, TypeOK, TicketsOK, Ticket
  <2>3. Asking(c, s, d)' = Asking(c, s, d) /\ imported' = imported
    BY <1>7 DEF SetStatus, Asking
  <2>4. CASE ticket[t].status = "done"
    <3>1. Held(c, s, d)' \subseteq Held(c, s, d) \cup {t}
      BY <2>1 DEF Held, Lane, Active, Rows
    <3>2. returned' + imported' = returned + imported + 1
      BY <1>0, <1>7, <2>3, <2>4 DEF SetStatus
    <3> QED BY <1>0, <2>3, <3>1, <3>2, OneHeldAdded
  <2>5. CASE ticket[t].status # "done"
    <3>1. Held(c, s, d)' \subseteq Held(c, s, d)
      BY <2>1, <2>2, <2>5 DEF Held, Lane, Active, Rows, Ticket
    <3>2. Same
      BY <1>0, <1>7, <2>3, <2>5 DEF SetStatus
    <3> QED BY <1>0, <2>3, <3>1, <3>2, NoneHeldAdded
  <2> QED BY <2>4, <2>5
<1>8. ASSUME NEW t \in Slots, NEW a \in Customers, Import(t, a) PROVE Goal
  <2>1. Rows' = Rows /\ \A u \in Slots \ {t} : ticket'[u] = ticket[u]
    BY <1>8, ImportMoves
  <2>2. Held(c, s, d)' \subseteq Held(c, s, d) \cup {t}
    BY <2>1 DEF Held, Lane, Active, Rows
  <2>3. Asking(c, s, d)' = Asking(c, s, d) /\ returned' + imported' = returned + imported + 1
    BY <1>0, <1>8 DEF Import, Asking
  <2> QED BY <1>0, <2>2, <2>3, OneHeldAdded
<1> QED BY <1>1, <1>2, <1>3, <1>4, <1>5, <1>6, <1>7, <1>8
        DEF Next, Issuing, Postponing, Elsewhere

\* A customer gets no more tickets of a lane than his requests ran at once, but for those
\* given back or imported.
THEOREM Duplicates == Spec => []DuplicatesBounded
<1>1. Init => DuplicatesBounded
  <2>1. ASSUME Init, NEW c \in Customers, NEW s \in Services, NEW d \in Days
        PROVE  Cardinality(Held(c, s, d)) + Cardinality(Asking(c, s, d))
                 <= Cardinality(Issues) + (returned + imported)
    <3>1. Held(c, s, d) = {} /\ Asking(c, s, d) = {} /\ returned = 0 /\ imported = 0
      BY <2>1 DEF Init, Held, Lane, Rows, Asking, Idle
    <3>2. Cardinality(Held(c, s, d)) = 0 /\ Cardinality(Asking(c, s, d)) = 0
      BY <3>1, FS_EmptySet
    <3> QED BY <3>1, <3>2, HeldFinite
  <2> QED BY <2>1 DEF DuplicatesBounded
<1>2. TypeOK /\ TypeOK' /\ DuplicatesBounded /\ [Next]_vars => DuplicatesBounded'
  <2>1. ASSUME DuplicatesBounded, UNCHANGED vars PROVE DuplicatesBounded'
    BY <2>1 DEF DuplicatesBounded, vars, bounds, Held, Lane, Active, Rows, Asking
  <2> QED BY <2>1, DuplicatesStep
<1> QED BY <1>1, <1>2, TypeCorrect, PTL DEF Spec

-----------------------------------------------------------------------------
(* Who stands before whom. *)

\* The tickets ahead of a request wait in its lane, and once the last number is read they
\* are numbered below the one to be inserted.
AheadOK ==
  \A i \in Issues : \A t \in ahead[i] :
    /\ t \in Rows /\ Waits(t) /\ issue[i].pc # "idle"
    /\ ticket[t].service = issue[i].service /\ ticket[t].day = issue[i].day
    /\ issue[i].pc = "insert" => ticket[t].number < issue[i].number

\* A step of a request: what the others know of their tickets does not change.
LEMMA OthersAhead ==
  ASSUME TypeOK, AheadOK, NEW i \in Issues, Rows \subseteq Rows',
         \A t \in Rows : ticket'[t] = ticket[t],
         \A j \in Issues \ {i} : ahead'[j] = ahead[j] /\ issue'[j] = issue[j],
         \A t \in ahead'[i] :
           /\ t \in Rows /\ Waits(t) /\ issue'[i].pc # "idle"
           /\ ticket[t].service = issue'[i].service /\ ticket[t].day = issue'[i].day
           /\ issue'[i].pc = "insert" => ticket[t].number < issue'[i].number
  PROVE  AheadOK'
<1> SUFFICES ASSUME NEW j \in Issues, NEW t \in ahead'[j]
             PROVE  /\ t \in Rows' /\ Waits(t)' /\ issue'[j].pc # "idle"
                    /\ ticket'[t].service = issue'[j].service /\ ticket'[t].day = issue'[j].day
                    /\ issue'[j].pc = "insert" => ticket'[t].number < issue'[j].number
  BY DEF AheadOK
<1>1. CASE j = i
  BY <1>1 DEF Waits
<1>2. CASE j # i
  BY <1>2 DEF AheadOK, Waits
<1> QED BY <1>1, <1>2

LEMMA AheadStep ==
  ASSUME TypeOK, AheadOK, Next PROVE AheadOK'
<1>1. ASSUME NEW i \in Issues, NEW who \in Customers \cup {WalkIn}, NEW s \in Services,
             NEW d \in Days, Begin(i, who, s, d)
      PROVE  AheadOK'
  <2>1. /\ issue'[i] = [pc |-> "count", who |-> who, service |-> s, day |-> d, number |-> 0]
        /\ ahead'[i] = {t \in Lane(s, d) : Waits(t)}
        /\ \A j \in Issues \ {i} : ahead'[j] = ahead[j] /\ issue'[j] = issue[j]
        /\ ticket' = ticket /\ Rows' = Rows
    BY <1>1 DEF Begin, TypeOK, IssuesOK, Rows
  <2>2. \A t \in ahead'[i] :
           /\ t \in Rows /\ Waits(t) /\ issue'[i].pc # "idle"
           /\ ticket[t].service = issue'[i].service /\ ticket[t].day = issue'[i].day
           /\ issue'[i].pc = "insert" => ticket[t].number < issue'[i].number
    BY <2>1 DEF Lane
  <2> QED BY <2>1, <2>2, OthersAhead
<1>2. ASSUME NEW i \in Issues, Count(i) PROVE AheadOK'
  <2>1. /\ \A j \in Issues \ {i} : ahead'[j] = ahead[j] /\ issue'[j] = issue[j]
        /\ ticket' = ticket /\ Rows' = Rows
    BY <1>2 DEF Count, TypeOK, IssuesOK, Rows
  <2>2. CASE issue'[i] = Idle
    <3>1. ahead'[i] = {}
      BY <1>2, <2>2 DEF Count, TypeOK
    <3> QED BY <2>1, <3>1, OthersAhead
  <2>3. CASE issue'[i] # Idle
    <3>1. ahead'[i] = ahead[i] /\ issue'[i] = [issue[i] EXCEPT !.pc = "number"] /\ issue[i] \in Asked
      BY <1>2, <2>3, Under DEF Count, TypeOK, IssuesOK
    <3>2. /\ issue'[i].service = issue[i].service /\ issue'[i].day = issue[i].day
          /\ issue'[i].pc = "number"
      BY <3>1 DEF Asked
    <3>3. \A t \in ahead'[i] :
             /\ t \in Rows /\ Waits(t) /\ issue'[i].pc # "idle"
             /\ ticket[t].service = issue'[i].service /\ ticket[t].day = issue'[i].day
             /\ issue'[i].pc = "insert" => ticket[t].number < issue'[i].number
      BY <3>1, <3>2 DEF AheadOK
    <3> QED BY <2>1, <3>3, OthersAhead
  <2> QED BY <2>2, <2>3
<1>3. ASSUME NEW i \in Issues, ReadLast(i) PROVE AheadOK'
  <2> DEFINE n == LastNumber(issue[i].who, issue[i].service, issue[i].day)
  <2>1. /\ \A j \in Issues \ {i} : ahead'[j] = ahead[j] /\ issue'[j] = issue[j]
        /\ ticket' = ticket /\ Rows' = Rows /\ ahead'[i] = ahead[i]
    BY <1>3 DEF ReadLast, TypeOK, IssuesOK, Rows
  <2>2. issue[i] \in Asked
    BY <1>3, Under DEF ReadLast
  <2>3. n \in Nat /\ \A t \in Lane(issue[i].service, issue[i].day) : ticket[t].number <= n
    BY <2>2, LastNumberBounds DEF Asked
  <2>4. /\ issue'[i].service = issue[i].service /\ issue'[i].day = issue[i].day
        /\ issue'[i].pc = "insert" /\ issue'[i].number = n + 1
    BY <1>3, <2>2 DEF ReadLast, TypeOK, IssuesOK, Asked
  <2>5. \A t \in ahead[i] : /\ t \in Lane(issue[i].service, issue[i].day)
                            /\ ticket[t].number \in Nat
    BY DEF AheadOK, Lane, TypeOK, TicketsOK, Rows, Ticket
  <2> HIDE DEF n
  <2>6. \A t \in ahead[i] : ticket[t].number < n + 1
    BY <2>3, <2>5
  <2>7. \A t \in ahead'[i] :
           /\ t \in Rows /\ Waits(t) /\ issue'[i].pc # "idle"
           /\ ticket[t].service = issue'[i].service /\ ticket[t].day = issue'[i].day
           /\ issue'[i].pc = "insert" => ticket[t].number < issue'[i].number
    BY <2>1, <2>4, <2>6 DEF AheadOK
  <2> QED BY <2>1, <2>7, OthersAhead
<1>4. ASSUME NEW i \in Issues, Insert(i) \/ Collide(i) PROVE AheadOK'
  <2>1. /\ \A j \in Issues \ {i} : ahead'[j] = ahead[j] /\ issue'[j] = issue[j]
        /\ ahead'[i] = {}
    BY <1>4 DEF Insert, Collide, TypeOK, IssuesOK
  <2>2. Rows \subseteq Rows' /\ \A t \in Rows : ticket'[t] = ticket[t]
    <3>1. CASE Insert(i)
      BY <3>1, InsertAdds
    <3>2. CASE Collide(i)
      BY <3>2 DEF Collide, Rows
    <3> QED BY <1>4, <3>1, <3>2
  <2> QED BY <2>1, <2>2, OthersAhead
<1>5. ASSUME NEW p \in Postponers, PostponeWrites(p) PROVE AheadOK'
  <2> SUFFICES ASSUME NEW i \in Issues, NEW t \in ahead'[i]
               PROVE  /\ t \in Rows' /\ Waits(t)' /\ issue'[i].pc # "idle"
                      /\ ticket'[t].service = issue'[i].service /\ ticket'[t].day = issue'[i].day
                      /\ issue'[i].pc = "insert" => ticket'[t].number < issue'[i].number
    BY DEF AheadOK
  <2>1. t \in ahead[i] /\ t # move[p].ticket /\ issue' = issue
    BY <1>5 DEF PostponeWrites
  <2>2. /\ t \in Rows /\ Waits(t) /\ issue[i].pc # "idle"
        /\ ticket[t].service = issue[i].service /\ ticket[t].day = issue[i].day
        /\ issue[i].pc = "insert" => ticket[t].number < issue[i].number
    BY <2>1 DEF AheadOK
  <2>3. /\ Rows' = Rows
        /\ ticket'[t].service = ticket[t].service /\ ticket'[t].day = ticket[t].day
        /\ ticket'[t].status = ticket[t].status
        /\ ticket'[t].number = IF t \in Passed(move[p]) THEN ticket[t].number - 1
                               ELSE ticket[t].number
    BY <1>5, <2>1, <2>2, WriteRenumbers
  <2>4. ticket[t].number \in Nat /\ issue[i].number \in Nat
    BY <2>2, Under DEF TypeOK, TicketsOK, Rows, Ticket, Asked
  <2>5. issue[i].pc = "insert" => ticket'[t].number < issue[i].number
    BY <2>2, <2>3, <2>4
  <2>6. Waits(t)'
    BY <2>2, <2>3 DEF Waits, Rows
  <2> QED BY <2>1, <2>2, <2>3, <2>5, <2>6
<1>6. ASSUME NEW p \in Postponers,
             \/ \E t \in Slots : PostponeReads(p, t)
             \/ \E k \in 1 .. MaxReach : PostponeLooks(p, k)
             \/ PostponeFails(p)
      PROVE  AheadOK'
  <2>1. ticket' = ticket /\ issue' = issue /\ ahead' = ahead
    BY <1>6 DEF PostponeReads, PostponeLooks, PostponeFails
  <2> QED BY <2>1 DEF AheadOK, Rows, Waits
<1>7. ASSUME NEW t \in Slots, NEW status \in {"waiting", "called", "done"}, SetStatus(t, status)
      PROVE  AheadOK'
  <2>1. Rows' = Rows /\ \A u \in Slots \ {t} : ticket'[u] = ticket[u]
    BY <1>7, StatusMoves
  <2>2. issue' = issue /\ \A i \in Issues : ahead'[i] = ahead[i] \ {t}
    BY <1>7 DEF SetStatus
  <2> QED BY <2>1, <2>2 DEF AheadOK, Rows, Waits
<1>8. ASSUME NEW t \in Slots, NEW c \in Customers, Import(t, c) PROVE AheadOK'
  <2>1. /\ ticket'[t] = [ticket[t] EXCEPT !.owner = c] /\ Rows' = Rows
        /\ \A u \in Slots \ {t} : ticket'[u] = ticket[u]
    BY <1>8, ImportMoves
  <2>2. t \in Rows /\ ticket[t] \in Ticket
    BY <1>8 DEF Import, Waits, Rows, TypeOK, TicketsOK
  <2>3. /\ ticket'[t].service = ticket[t].service /\ ticket'[t].day = ticket[t].day
        /\ ticket'[t].number = ticket[t].number /\ ticket'[t].status = ticket[t].status
    BY <2>1, <2>2 DEF Ticket
  <2>4. \A u \in Rows : Waits(u) => Waits(u)'
    BY <2>1, <2>3 DEF Waits, Rows
  <2>5. issue' = issue /\ ahead' = ahead
    BY <1>8 DEF Import
  <2>6. \A u \in Rows : /\ ticket'[u].service = ticket[u].service /\ ticket'[u].day = ticket[u].day
                        /\ ticket'[u].number = ticket[u].number
    BY <2>1, <2>3 DEF Rows
  <2> QED BY <2>1, <2>4, <2>5, <2>6 DEF AheadOK
<1> QED BY <1>1, <1>2, <1>3, <1>4, <1>5, <1>6, <1>7, <1>8, TicketingAssumption
        DEF Next, Issuing, Postponing, Elsewhere, Join, JoinAtDesk

\* Whoever waits in a lane since before a request came in is numbered below its ticket.
THEOREM Newcomers == Spec => NewcomerLast
<1>1. Init => AheadOK
  BY DEF Init, AheadOK
<1>2. TypeOK /\ AheadOK /\ [Next]_vars => AheadOK'
  <2>1. ASSUME AheadOK, UNCHANGED vars PROVE AheadOK'
    BY <2>1 DEF AheadOK, vars, bounds, Rows, Waits
  <2> QED BY <2>1, AheadStep
<1>3. AheadOK /\ [Next]_vars =>
        [\A i \in Issues : Insert(i) => \A t \in ahead[i] : ticket[t].number < issue[i].number]_vars
  BY DEF AheadOK, Insert
<1> QED BY <1>1, <1>2, <1>3, TypeCorrect, PTL DEF Spec, NewcomerLast

\* Renumbering keeps two waiting tickets of a lane apart and in order.
LEMMA RenumberingKeepsOrder ==
  ASSUME TypeOK, NEW p \in Postponers, PostponeWrites(p), NEW t \in Rows, NEW u \in Rows,
         Waits(t), Waits(u), SameLane(t, u), ticket[t].number < ticket[u].number,
         move[p].ticket \notin {t, u}
  PROVE  ticket'[t].number < ticket'[u].number
<1> DEFINE m == move[p]
<1>1. /\ ticket'[t].number = IF t \in Passed(m) THEN ticket[t].number - 1 ELSE ticket[t].number
      /\ ticket'[u].number = IF u \in Passed(m) THEN ticket[u].number - 1 ELSE ticket[u].number
  BY WriteRenumbers
<1>2. ticket[t].number \in Nat /\ ticket[u].number \in Nat
  BY DEF TypeOK, TicketsOK, Rows, Ticket
<1>3. ticket'[t].number # ticket'[u].number
  <2>1. ticket' = Renumbered(m) /\ ~Clashes(m)
    BY DEF PostponeWrites
  <2> QED BY <1>2, <2>1 DEF Clashes
<1> HIDE DEF m
<1> QED BY <1>1, <1>2, <1>3

LEMMA OrderStep ==
  ASSUME TypeOK, [Next]_vars, NEW t \in Rows, NEW u \in Rows,
         Waits(t), Waits(u), SameLane(t, u), ticket[t].number < ticket[u].number,
         ~\E p \in Postponers : move[p].ticket \in {t, u} /\ PostponeWrites(p)
  PROVE  ticket'[t].number < ticket'[u].number
<1>1. ASSUME NEW p \in Postponers, PostponeWrites(p) PROVE ticket'[t].number < ticket'[u].number
  BY <1>1, RenumberingKeepsOrder
<1>2. CASE ticket'[t].number = ticket[t].number /\ ticket'[u].number = ticket[u].number
  BY <1>2
<1>3. ASSUME NEW i \in Issues, Insert(i) PROVE ticket'[t] = ticket[t] /\ ticket'[u] = ticket[u]
  BY <1>3, InsertAdds
<1>4. ASSUME NEW x \in Slots, NEW status \in {"waiting", "called", "done"}, SetStatus(x, status)
      PROVE  ticket'[t].number = ticket[t].number /\ ticket'[u].number = ticket[u].number
  <2>1. /\ ticket'[x] = [ticket[x] EXCEPT !.status = status]
        /\ \A v \in Slots \ {x} : ticket'[v] = ticket[v]
    BY <1>4, StatusMoves
  <2>2. ticket[x] \in Ticket
    BY <1>4 DEF SetStatus, Rows, TypeOK, TicketsOK
  <2>3. ticket'[x].number = ticket[x].number
    BY <2>1, <2>2 DEF Ticket
  <2> QED BY <2>1, <2>3 DEF Rows
<1>5. ASSUME NEW x \in Slots, NEW c \in Customers, Import(x, c)
      PROVE  ticket'[t].number = ticket[t].number /\ ticket'[u].number = ticket[u].number
  <2>1. /\ ticket'[x] = [ticket[x] EXCEPT !.owner = c]
        /\ \A v \in Slots \ {x} : ticket'[v] = ticket[v]
    BY <1>5, ImportMoves
  <2>2. ticket[x] \in Ticket
    BY <1>5 DEF Import, Waits, TypeOK, TicketsOK
  <2>3. ticket'[x].number = ticket[x].number
    BY <2>1, <2>2 DEF Ticket
  <2> QED BY <2>1, <2>3 DEF Rows
<1>6. ASSUME NEW i \in Issues,
             \/ \E who \in Customers \cup {WalkIn}, s \in Services, d \in Days : Begin(i, who, s, d)
             \/ Count(i) \/ ReadLast(i) \/ Collide(i)
      PROVE  ticket' = ticket
  BY <1>6 DEF Begin, Count, ReadLast, Collide
<1>7. ASSUME NEW p \in Postponers,
             \/ \E x \in Slots : PostponeReads(p, x)
             \/ \E k \in 1 .. MaxReach : PostponeLooks(p, k)
             \/ PostponeFails(p)
      PROVE  ticket' = ticket
  BY <1>7 DEF PostponeReads, PostponeLooks, PostponeFails
<1>8. CASE UNCHANGED vars
  BY <1>8 DEF vars
<1>9. CASE Issuing
  <2>1. PICK i \in Issues :
          \/ \E who \in Customers \cup {WalkIn}, s \in Services, d \in Days : Begin(i, who, s, d)
          \/ Count(i) \/ ReadLast(i) \/ Insert(i) \/ Collide(i)
    BY <1>9, TicketingAssumption DEF Issuing, Join, JoinAtDesk
  <2> QED BY <1>2, <1>3, <1>6, <2>1
<1>10. CASE Postponing
  BY <1>1, <1>2, <1>7, <1>10 DEF Postponing
<1>11. CASE Elsewhere
  BY <1>2, <1>4, <1>5, <1>11 DEF Elsewhere
<1> QED BY <1>8, <1>9, <1>10, <1>11 DEF Next

\* A postponement, over whatever ranges it has read, disturbs the order of no other tickets.
THEOREM Order == Spec => OrderKept
<1>1. TypeOK /\ [Next]_vars =>
        [\A t, u \in Rows :
           /\ Waits(t) /\ Waits(u) /\ SameLane(t, u) /\ ticket[t].number < ticket[u].number
           /\ ~\E p \in Postponers : move[p].ticket \in {t, u} /\ PostponeWrites(p)
           => ticket'[t].number < ticket'[u].number]_vars
  BY OrderStep
<1> QED BY <1>1, TypeCorrect, PTL DEF Spec, OrderKept
==============================================================================
