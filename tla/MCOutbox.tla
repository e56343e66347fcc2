------------------------------- MODULE MCOutbox -------------------------------
(* Small instances of Outbox for TLC. *)
EXTENDS Outbox

\* A record made and changed twice offline.
MakeAndEdit == 1 .. 3
MakeAndEditOp == <<"create", "update", "update">>
OneRecord == [m \in 1 .. 3 |-> "branch"]

\* A record the cloud has, changed twice.
TwoEdits == 1 .. 2
EditOp == <<"update", "update">>
EditRecord == <<"branch", "branch">>
==============================================================================
