---------------------------- MODULE MCUnifiedQueue ----------------------------
(***************************************************************************)
(* A small instance of UnifiedQueue.                                       *)
(***************************************************************************)
EXTENDS UnifiedQueue

CONSTANTS k1, k2
===============================================================================
