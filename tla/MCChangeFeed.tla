----------------------------- MODULE MCChangeFeed -----------------------------
(* Small instances of ChangeFeed for TLC. *)
EXTENDS ChangeFeed

\* A counter refers to its branch.
BranchAndCounter == {"branch", "counter"}
BranchOfCounter == [r \in BranchAndCounter |-> IF r = "counter" THEN "branch" ELSE None]
==============================================================================
