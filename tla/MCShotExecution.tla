--------------------------- MODULE MCShotExecution ---------------------------
(***************************************************************************)
(* Instances of ShotExecution for TLC.                                     *)
(***************************************************************************)
EXTENDS ShotExecution, TLC

Symmetry == Permutations(Runners)

\* Where a process still reads the record it loaded before; everywhere else
\* the next use of seen[a] overwrites it first.
ReadsItsRecord(a) ==
    pc[a] \in {"claiming", "claimed", "leasing", "leased", "locked",
               "probing_dead", "launching", "spawning_runner", "handing_over",
               "validated"}

\* States that differ only in dead local variables are the same state.
View == <<files, locks, harness, pc, verdict, spawned, history, bounds,
          [a \in Actors |-> IF ReadsItsRecord(a) THEN seen[a] ELSE None],
          [r \in Runners |-> IF Working(r) THEN passes[r] ELSE None]>>

=============================================================================
