------------------------------ MODULE MCDelivery -----------------------------
(* Instances of Delivery for TLC. *)
EXTENDS Delivery, TLC

(* Connections, servers, peers and the receivers of closed subscriptions are interchangeable: nothing in
   the code orders them. *)
Symmetry ==
    Permutations(Conns) \cup Permutations(Servers) \cup Permutations(Senders) \cup Permutations(Leftovers)
=============================================================================
