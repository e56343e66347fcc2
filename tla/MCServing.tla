------------------------------ MODULE MCServing ------------------------------
(* Small instances of Serving for TLC. *)
EXTENDS Serving, TLC

\* Two tickets of one service.
PairTickets == 1 .. 2
PairServiceOf == <<"desk", "desk">>
PairNumber == <<1, 2>>
PairPriority == [desk |-> 0]
PairServices == {"desk"}

\* Three tickets, the second of a service that is called first, the third booked for later.
MixedTickets == 1 .. 3
MixedServiceOf == <<"desk", "urgent", "urgent">>
MixedNumber == <<1, 2, 3>>
MixedPriority == [desk |-> 0, urgent |-> 1]
MixedServices == {"desk", "urgent"}
LastIsBooked == {3}

\* Every counter is bound to all services, as when two managers bind them at once and neither
\* strips the bindings the other has not committed yet.
BoundToAll == [c \in Counters |-> Services]

\* Every counter serves the free pool.
FreePool == [c \in Counters |-> {}]

\* Counters and requests in flight are interchangeable.
Symmetric == Permutations(Counters) \cup Permutations(Callers)

\* A reachable state in the middle of the day: both desks have called a ticket, neither
\* customer came, auto-skip has marked both tickets; the others are waiting.
Called == {1, 2}
DeskOf == CHOOSE f \in [Called -> Counters] : f[1] # f[2]
NobodyCame ==
  /\ status = [t \in Tickets |-> IF t \in Called THEN "CALLED" ELSE "WAITING"]
  /\ counterOf = [t \in Tickets |-> IF t \in Called THEN DeskOf[t] ELSE None]
  /\ skipped = [t \in Tickets |-> t \in Called]
  /\ reclaimed = [t \in Tickets |-> FALSE]
  /\ current = [c \in Counters |-> CHOOSE t \in Called : DeskOf[t] = c]
  /\ serving = Number[2]
  /\ call = [d \in Callers |-> IdleCall]
  /\ req = [h \in Handlers |-> IdleReq]
  /\ calls = 0 /\ requests = 0
  /\ callers = [t \in Tickets |-> IF t \in Called THEN {CHOOSE d \in Callers : TRUE} ELSE {}]
  /\ stayed = [d \in Callers |-> {}]

FairFromNobodyCame == NobodyCame /\ [][Next]_vars /\ Fairness
==============================================================================
