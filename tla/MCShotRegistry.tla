-------------------------- MODULE MCShotRegistry --------------------------
(* Two accounts, of which one is administered and recovered, and one Shot whose *)
(* edition is limited to fewer receipts than there are claimants, or timed.    *)
EXTENDS ShotRegistry, TLC

CONSTANTS b1, b2, k1, k2

MCInitialKey == [b \in Accounts |-> IF b = b1 THEN k1 ELSE k2]
MCMaxNonce == [b \in Accounts |-> IF b = b1 THEN 2 ELSE 0]
MCPolicies == {[maxClaims |-> 1, closesAt |-> 0], [maxClaims |-> 0, closesAt |-> 2]}
Symmetry == Permutations(Heads)

=============================================================================
