---------------------------- MODULE MCPublication ----------------------------
(* Instance for TLC: see Publication.cfg. *)
EXTENDS Publication

=============================================================================
