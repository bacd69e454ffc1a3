-------------------------------- MODULE MCHub --------------------------------
(* Instances of Hub for TLC. *)
EXTENDS Hub, TLC

(* Connections and servers are interchangeable: nothing in the code orders them. *)
Symmetry == Permutations(Conns) \cup Permutations(Servers)
=============================================================================
