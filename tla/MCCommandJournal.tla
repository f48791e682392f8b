-------------------------- MODULE MCCommandJournal --------------------------
(***************************************************************************)
(* Two callers admit two commands under two possible requests into a       *)
(* journal that is full at two entries; one of them may die.               *)
(***************************************************************************)
EXTENDS CommandJournal, TLC

Symmetry == Permutations(Callers) \cup Permutations(Requests)
                \cup Permutations(Commands) \cup Permutations(Receipts)

=============================================================================
