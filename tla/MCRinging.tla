------------------------------ MODULE MCRinging ------------------------------
(* Instances of Ringing for TLC.  There is no symmetry to use: one of the servers is the caller's, and
   the connections are taken in turn. *)
EXTENDS Ringing
=============================================================================
