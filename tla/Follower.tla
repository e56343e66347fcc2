------------------------------- MODULE Follower -------------------------------
(***************************************************************************)
(* What a desktop that follows the cloud promises of the records it can    *)
(* compare: at any time it has each of them in a state the cloud has had,  *)
(* and never one that is older than the state it had before.  It may lag   *)
(* behind, catch up with several records at once, and skip states.         *)
(* Module ChangeFeed is the code that is to keep the promise.              *)
(***************************************************************************)
EXTENDS Naturals

CONSTANT Records

VARIABLES
  source,  \* how often each record has been written
  mirror   \* which of its states the follower has

vars == <<source, mirror>>

Init ==
  /\ source = [r \in Records |-> 0]
  /\ mirror = [r \in Records |-> 0]

Write(r) ==
  /\ source' = [source EXCEPT ![r] = @ + 1]
  /\ UNCHANGED mirror

CatchUp ==
  /\ mirror' \in [Records -> Nat]
  /\ \A r \in Records : mirror[r] <= mirror'[r] /\ mirror'[r] <= source[r]
  /\ UNCHANGED source

Next == CatchUp \/ \E r \in Records : Write(r)

Spec == Init /\ [][Next]_vars
==============================================================================
