--------------------------- MODULE MCCompanionSync ---------------------------
(* Instance for TLC: see CompanionSync.cfg. *)
EXTENDS CompanionSync

=============================================================================
