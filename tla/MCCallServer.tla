---------------------------- MODULE MCCallServer ----------------------------
(* CallServer on small instances: callers and call objects are interchangeable. *)
EXTENDS CallServer, TLC

Symmetry == Permutations(Ids) \cup Permutations(Threads)
=============================================================================
