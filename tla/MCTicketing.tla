----------------------------- MODULE MCTicketing -----------------------------
(* Small instances of Ticketing for TLC. *)
EXTENDS Ticketing, TLC

Alike == Permutations(Issues) \cup Permutations(Postponers)
==============================================================================
