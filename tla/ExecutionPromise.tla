-------------------------- MODULE ExecutionPromise --------------------------
(***************************************************************************)
(* What a durable execution promises to the person who sent the intention, *)
(* without any process, lock or file: the intelligence works on it at most *)
(* twice (one pass and one targeted repair), at most one Version is        *)
(* accepted, and exactly one outcome is ever published, which is completed *)
(* just when that Version was accepted.  Nothing happens after it.         *)
(***************************************************************************)
EXTENDS Naturals

CONSTANTS None

VARIABLES
    passes,     \* passes of the intelligence
    accepted,   \* Versions accepted
    outcome     \* the published outcome, or None

vars == <<passes, accepted, outcome>>

Init == passes = 0 /\ accepted = 0 /\ outcome = None

Work ==
    /\ outcome = None /\ accepted = 0
    /\ passes < 2
    /\ passes' = passes + 1
    /\ UNCHANGED <<accepted, outcome>>

Accept ==
    /\ outcome = None /\ accepted = 0
    /\ passes > 0
    /\ accepted' = 1
    /\ UNCHANGED <<passes, outcome>>

Decide ==
    /\ outcome = None
    /\ outcome' \in IF accepted = 1 THEN {"completed"}
                                    ELSE {"failed", "cancelled"}
    /\ UNCHANGED <<passes, accepted>>

Next == Work \/ Accept \/ Decide

Spec == Init /\ [][Next]_vars /\ WF_vars(Decide)

=============================================================================
