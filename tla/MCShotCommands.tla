--------------------------- MODULE MCShotCommands ---------------------------
(***************************************************************************)
(* Instances of ShotCommands for TLC.                                      *)
(***************************************************************************)
EXTENDS ShotCommands, TLC

Symmetry == Permutations(Commands)

=============================================================================
