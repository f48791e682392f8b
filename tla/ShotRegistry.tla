---------------------------- MODULE ShotRegistry ----------------------------
(***************************************************************************)
(* The public witness of Shot controllers and checkpoints                   *)
(* (contracts/src/ShotRegistry.sol) and the receipts of                     *)
(* contracts/src/TohsenoClaimsV1.sol, which asks it for controllers and     *)
(* heads. Both ask the accounts of BuilderAccount whether they signed.      *)
(***************************************************************************)
EXTENDS BuilderAccount, Sequences

CONSTANTS
    Shots,
    Heads,
    Deadlines,      \* reveal deadlines
    Policies,       \* [maxClaims, closesAt] of an edition; 0 is no limit
    MinCommitAge,
    MaxCommitAge,
    MaxCheckpoints  \* bound on the signed actions about a Shot

ASSUME RegistryAssumption ==
    /\ None \notin Shots \cup Heads
    /\ Deadlines \subseteq 0 .. MaxTime
    /\ Policies \subseteq [maxClaims : Nat, closesAt : Nat]
    /\ MinCommitAge \in Nat /\ MaxCommitAge \in Nat /\ MinCommitAge <= MaxCommitAge
    /\ MaxCheckpoints \in Nat

VARIABLES
    shots,              \* _shots
    commitments,        \* committedAt, or None
    registrationNonces,
    editions,           \* _editions
    claims,             \* _claims, by token, with the block of SoftwareClaimed
    claimTokenOf,
    balances,
    editionNonces,
    claimNonces

registryVars == <<shots, commitments, registrationNonces>>
claimVars == <<editions, claims, claimTokenOf, balances, editionNonces, claimNonces>>
vars == <<account, now, spent, ended, registryVars, claimVars>>

Commitments == [controller : Accounts, shot : Shots, deadline : Deadlines]
NoShot == [controller |-> None, head |-> None, checkpointSequence |-> 0, nonce |-> 0]
NoEdition == [opened |-> FALSE, maxClaims |-> 0, totalClaims |-> 0, closesAt |-> 0]

Init ==
    /\ InitAccounts
    /\ shots = [s \in Shots |-> NoShot]
    /\ commitments = [c \in Commitments |-> None]
    /\ registrationNonces = [b \in Accounts |-> 0]
    /\ editions = [s \in Shots |-> NoEdition]
    /\ claims = <<>>
    /\ claimTokenOf = [s \in Shots |-> [b \in Accounts |-> 0]]
    /\ balances = [b \in Accounts |-> 0]
    /\ editionNonces = [b \in Accounts |-> 0]
    /\ claimNonces = [b \in Accounts |-> 0]

\* _requireValidSignature
Sign(b, op, what, nonce) ==
    /\ IsValidSignature(b)
    /\ spent' = spent \cup {Digest(op, b, what, nonce)}

Exists(s) == shots[s].controller # None

-----------------------------------------------------------------------------
(* Registry *)

Expired(c) == commitments[c] # None /\ now > commitments[c] + MaxCommitAge

CommitShot(c) ==
    /\ commitments[c] = None \/ Expired(c)
    /\ commitments' = [commitments EXCEPT ![c] = now]
    /\ UNCHANGED <<shots, registrationNonces, accountVars, claimVars>>

RegisterShot(c, h) ==
    LET s == c.shot  b == c.controller
    IN  /\ now <= c.deadline
        /\ HasCode(b)
        /\ ~ Exists(s)
        /\ commitments[c] # None
        /\ now >= commitments[c] + MinCommitAge
        /\ ~ Expired(c)
        /\ Sign(b, "register", <<s, h, c.deadline>>, registrationNonces[b])
        /\ commitments' = [commitments EXCEPT ![c] = None]
        /\ registrationNonces' = [registrationNonces EXCEPT ![b] = @ + 1]
        /\ shots' = [shots EXCEPT ![s] = [controller |-> b, head |-> h,
                                          checkpointSequence |-> 1, nonce |-> 1]]
        /\ UNCHANGED <<account, ended, claimVars>>

AppendCheckpoint(s, h) ==
    /\ Exists(s)
    /\ h # shots[s].head
    /\ shots[s].nonce < MaxCheckpoints
    /\ Sign(shots[s].controller, "append",
            <<s, shots[s].head, h, shots[s].checkpointSequence + 1>>, shots[s].nonce)
    /\ shots' = [shots EXCEPT ![s].head = h, ![s].checkpointSequence = @ + 1, ![s].nonce = @ + 1]
    /\ UNCHANGED <<commitments, registrationNonces, account, ended, claimVars>>

\* The Shot's nonce is left as it was.
TransferShotUncounted(s, b) ==
    /\ Exists(s)
    /\ HasCode(b)
    /\ b # shots[s].controller
    /\ Sign(shots[s].controller, "transfer",
            <<s, b, shots[s].head, shots[s].checkpointSequence>>, shots[s].nonce)
    /\ shots' = [shots EXCEPT ![s].controller = b]
    /\ UNCHANGED <<commitments, registrationNonces, account, ended, claimVars>>

TransferShot(s, b) ==
    /\ Exists(s)
    /\ HasCode(b)
    /\ b # shots[s].controller
    /\ shots[s].nonce < MaxCheckpoints
    /\ Sign(shots[s].controller, "transfer",
            <<s, b, shots[s].head, shots[s].checkpointSequence>>, shots[s].nonce)
    /\ shots' = [shots EXCEPT ![s].controller = b, ![s].nonce = @ + 1]
    /\ UNCHANGED <<commitments, registrationNonces, account, ended, claimVars>>

-----------------------------------------------------------------------------
(* Claims *)

OpenClaimEdition(s, p) ==
    LET b == shots[s].controller
    IN  /\ ~ editions[s].opened
        /\ p.closesAt # 0 => p.closesAt > now
        /\ Exists(s)
        /\ Sign(b, "open_edition", <<s, p.maxClaims, p.closesAt>>, editionNonces[b])
        /\ editions' = [editions EXCEPT ![s] = [opened |-> TRUE, maxClaims |-> p.maxClaims,
                                                totalClaims |-> 0, closesAt |-> p.closesAt]]
        /\ editionNonces' = [editionNonces EXCEPT ![b] = @ + 1]
        /\ UNCHANGED <<claims, claimTokenOf, balances, claimNonces, registryVars, account, ended>>

\* Mutant: one claim and one block too late.
EditionIsClosedLate(s) ==
    \/ editions[s].maxClaims # 0 /\ editions[s].totalClaims > editions[s].maxClaims
    \/ editions[s].closesAt # 0 /\ now > editions[s].closesAt

\* editionIsClosed
EditionIsClosed(s) ==
    \/ editions[s].maxClaims # 0 /\ editions[s].totalClaims >= editions[s].maxClaims
    \/ editions[s].closesAt # 0 /\ now >= editions[s].closesAt

NotClaimed(s, b) == claimTokenOf[s][b] = 0

\* checkpointDigest is the current head.
ClaimSoftware(s, b) ==
    LET token == Len(claims) + 1  number == editions[s].totalClaims + 1
    IN  /\ HasCode(b)
        /\ editions[s].opened
        /\ NotClaimed(s, b)
        /\ ~ EditionIsClosed(s)
        /\ Exists(s)
        /\ Sign(b, "claim", <<s, shots[s].head>>, claimNonces[b])
        /\ editions' = [editions EXCEPT ![s].totalClaims = number]
        /\ claimNonces' = [claimNonces EXCEPT ![b] = @ + 1]
        /\ claimTokenOf' = [claimTokenOf EXCEPT ![s][b] = token]
        /\ claims' = Append(claims, [shot |-> s, number |-> number, claimant |-> b,
                                     checkpoint |-> shots[s].head, at |-> now])
        /\ balances' = [balances EXCEPT ![b] = @ + 1]
        /\ UNCHANGED <<editionNonces, registryVars, account, ended>>

-----------------------------------------------------------------------------
Next ==
    \/ /\ \E b \in Accounts : AccountStep(b)
       /\ UNCHANGED <<now, registryVars, claimVars>>
    \/ Tick /\ UNCHANGED <<accountVars, registryVars, claimVars>>
    \/ /\ \/ \E c \in Commitments : CommitShot(c) \/ \E h \in Heads : RegisterShot(c, h)
          \/ \E s \in Shots :
                \/ \E h \in Heads : AppendCheckpoint(s, h)
                \/ \E b \in Accounts : TransferShot(s, b) \/ ClaimSoftware(s, b)
                \/ \E p \in Policies : OpenClaimEdition(s, p)
       /\ UNCHANGED now

Spec == Init /\ [][Next]_vars

-----------------------------------------------------------------------------
(* Properties *)

TypeOK ==
    /\ now \in 0 .. MaxTime
    /\ \A b \in Accounts :
          /\ account[b].deviceEpoch \in Nat /\ account[b].deviceNonce \in Nat
          /\ account[b].activeDeviceCount \in Nat /\ account[b].activeAdminCount \in Nat
          /\ account[b].recoveryAuthority \in Wallets \cup Accounts \cup {None}
          /\ account[b].pending.executeAfter \in 0 .. MaxTime
    /\ shots \in [Shots -> [controller : Accounts \cup {None}, head : Heads \cup {None},
                            checkpointSequence : Nat, nonce : Nat]]
    /\ commitments \in [Commitments -> (0 .. MaxTime) \cup {None}]
    /\ editions \in [Shots -> [opened : BOOLEAN, maxClaims : Nat, totalClaims : Nat,
                               closesAt : Nat]]
    /\ claims \in Seq([shot : Shots, number : Nat, claimant : Accounts, checkpoint : Heads,
                       at : 0 .. MaxTime])

\* The controller of a Shot, and every other deployed account, has a device, and
\* an administrator or an authority that can appoint one, by counters that say
\* how many.
AlwaysGovernable ==
    /\ TypeOK
    /\ CountersCount
    /\ \A s \in Shots : Exists(s) => HasCode(shots[s].controller)
    /\ \A b \in Accounts :
          HasCode(b) => /\ Authorized(b) # {}
                        /\ Admins(b) # {} \/ account[b].recoveryAuthority # None

Tokens(s) == {t \in DOMAIN claims : claims[t].shot = s}

\* The receipts of a Shot are numbered without gaps up to its total, which stays
\* within the supply, and none was given at or after the closing time; an
\* account has at most one, where claimTokenOf says, and its balance counts its
\* receipts, whoever else claims in the same blocks (claimSoftware).
ClaimsAgree ==
    /\ \A s \in Shots :
          /\ {claims[t].number : t \in Tokens(s)} = 1 .. Cardinality(Tokens(s))
          /\ editions[s].totalClaims = Cardinality(Tokens(s))
          /\ editions[s].maxClaims # 0 => editions[s].totalClaims <= editions[s].maxClaims
          /\ editions[s].closesAt # 0 =>
                \A t \in Tokens(s) : claims[t].at < editions[s].closesAt
          /\ \A b \in Accounts :
                {t \in Tokens(s) : claims[t].claimant = b} = {claimTokenOf[s][b]} \ {0}
    /\ \A b \in Accounts :
          balances[b] = Cardinality({t \in DOMAIN claims : claims[t].claimant = b})

\* A signed action changes the public record once: every step that changes a
\* Shot, an edition, a receipt or, within an epoch, an account uses up something
\* signed that no step had used before, however often it is submitted.
SignedOnce ==
    [][\/ spent' # spent
       \/ /\ UNCHANGED <<shots, claimVars>>
          /\ \A b \in Accounts : account'[b].deviceEpoch = account[b].deviceEpoch
                                     => account'[b] = account[b]]_vars

=============================================================================
