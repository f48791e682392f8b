--------------------------- MODULE MCLivingProject ---------------------------
(* Instance for TLC: see LivingProject.cfg. *)
EXTENDS LivingProject

=============================================================================
