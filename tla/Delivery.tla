------------------------------- MODULE Delivery -------------------------------
(***************************************************************************)
(* What the outbox of a desktop promises: each local operation that was    *)
(* logged is decided by the cloud at most once, which applies it or keeps  *)
(* its own newer record, and is reported done only when it is decided.     *)
(***************************************************************************)
EXTENDS Naturals

CONSTANT Operations

VARIABLES
  logged,    \* operations in the outbox
  applied,   \* how often each has taken effect
  kept,      \* those the cloud kept a newer record for
  reported   \* those reported done

vars == <<logged, applied, kept, reported>>

Undecided(m) == applied[m] = 0 /\ m \notin kept

Init ==
  /\ logged = {} /\ kept = {} /\ reported = {}
  /\ applied = [m \in Operations |-> 0]

Log(m) ==
  /\ m \notin logged
  /\ logged' = logged \cup {m}
  /\ UNCHANGED <<applied, kept, reported>>

Apply(m) ==
  /\ m \in logged /\ Undecided(m)
  /\ applied' = [applied EXCEPT ![m] = 1]
  /\ UNCHANGED <<logged, kept, reported>>

Keep(m) ==
  /\ m \in logged /\ Undecided(m)
  /\ kept' = kept \cup {m}
  /\ UNCHANGED <<logged, applied, reported>>

Report(m) ==
  /\ m \in logged \ reported /\ ~Undecided(m)
  /\ reported' = reported \cup {m}
  /\ UNCHANGED <<logged, applied, kept>>

Next == \E m \in Operations : Log(m) \/ Apply(m) \/ Keep(m) \/ Report(m)

Spec == Init /\ [][Next]_vars
==============================================================================
