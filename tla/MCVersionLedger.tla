--------------------------- MODULE MCVersionLedger ---------------------------
(* Instance for TLC: see VersionLedger.cfg. *)
EXTENDS VersionLedger

=============================================================================
