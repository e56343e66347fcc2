------------------------------- MODULE Purchase -------------------------------
(***************************************************************************)
(* What an online purchase promises, whoever settles it and however often: *)
(* its outcome is decided once, by what the payer did, and its benefit (a  *)
(* subscription term, SMS credits) is granted once, together with the      *)
(* completion.  Module Settlement is the code that is to keep the promise. *)
(***************************************************************************)
EXTENDS Naturals

CONSTANT Payments

VARIABLES
  paid,     \* purchases whose checkout the payer has paid
  outcome,  \* "NONE", "PENDING", "COMPLETED" or "FAILED"
  grants    \* how often the benefit was granted

vars == <<paid, outcome, grants>>

Init ==
  /\ paid = {}
  /\ outcome = [t \in Payments |-> "NONE"]
  /\ grants = [t \in Payments |-> 0]

Start(t) ==
  /\ outcome[t] = "NONE"
  /\ outcome' = [outcome EXCEPT ![t] = "PENDING"]
  /\ UNCHANGED <<paid, grants>>

Pay(t) ==
  /\ outcome[t] = "PENDING" /\ t \notin paid
  /\ paid' = paid \cup {t}
  /\ UNCHANGED <<outcome, grants>>

Complete(t) ==
  /\ outcome[t] = "PENDING" /\ t \in paid
  /\ outcome' = [outcome EXCEPT ![t] = "COMPLETED"]
  /\ grants' = [grants EXCEPT ![t] = @ + 1]
  /\ UNCHANGED paid

Fail(t) ==
  /\ outcome[t] = "PENDING" /\ t \notin paid
  /\ outcome' = [outcome EXCEPT ![t] = "FAILED"]
  /\ UNCHANGED <<paid, grants>>

Next == \E t \in Payments : Start(t) \/ Pay(t) \/ Complete(t) \/ Fail(t)

Spec == Init /\ [][Next]_vars
==============================================================================
