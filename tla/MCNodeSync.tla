---------------------------- MODULE MCNodeSync ----------------------------
(* n1 pulls from n2. Shot 1 has a lineage a1, a2 with two claims to the third  *)
(* place, of which a3 is unauthorized; b2 of Shot 2 names a predecessor of    *)
(* Shot 1.                                                                    *)
EXTENDS NodeSync

CONSTANTS a1, a2, a3, c3, b2, n1, n2

MCPeers == [n \in Nodes |-> IF n = n1 THEN {n2} ELSE {}]
MCParent ==
    [a \in Actions |->
        CASE a = a1 -> None [] a \in {a2, b2} -> a1 [] a \in {a3, c3} -> a2]
MCAncestors ==
    [a \in Actions |->
        CASE a = a1 -> {} [] a \in {a2, b2} -> {a1} [] a \in {a3, c3} -> {a1, a2}]
MCShotOf == [a \in Actions |-> IF a = b2 THEN 2 ELSE 1]
MCSequence ==
    [a \in Actions |->
        CASE a = a1 -> 1 [] a \in {a2, b2} -> 2 [] a \in {a3, c3} -> 3]
MCRank ==
    [a \in Actions |->
        CASE a = a1 -> 1 [] a = a2 -> 2 [] a = b2 -> 3 [] a = a3 -> 4 [] a = c3 -> 5]

=============================================================================
