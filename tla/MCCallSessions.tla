--------------------------- MODULE MCCallSessions ---------------------------
(* Instances of CallSessions for TLC. *)
EXTENDS CallSessions, TLC

(* Users, sessions and goroutines are interchangeable: nothing in the code orders them. *)
Symmetry == Permutations(Users) \cup Permutations(Sessions) \cup Permutations(Procs)
=============================================================================
