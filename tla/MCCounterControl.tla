--------------------------- MODULE MCCounterControl ---------------------------
(* Small instances of CounterControl for TLC. *)
EXTENDS CounterControl, TLC

\* Overlapping requests and sweep passes are interchangeable; so are counters.
Symmetric == Permutations(Handlers) \cup Permutations(Sweepers) \cup Permutations(Counters)
            \cup Permutations(Requests)
==============================================================================
