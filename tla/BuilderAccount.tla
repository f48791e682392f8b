--------------------------- MODULE BuilderAccount ---------------------------
(***************************************************************************)
(* Builder identities on chain (contracts/src/BuilderAccount.sol and        *)
(* BuilderAccountFactory.sol): accounts that device keys administer and that *)
(* a recovery authority may take over after a notice period.                *)
(*                                                                         *)
(* Any relayer submits a signed action at any time, and again, so an action *)
(* here only asks whether some key could have signed what the contract      *)
(* hashes at that moment. A deadline only narrows when that is accepted.    *)
(***************************************************************************)
EXTENDS Integers, FiniteSets

CONSTANTS
    None,           \* address(0)
    Accounts,
    Keys,
    Wallets,        \* recovery authorities that are not accounts
    InitialKey,     \* the device key an account is created with
    RecoveryDelay,
    MaxTime,        \* the last representable timestamp
    MaxNonce        \* bound on the signed actions of each account

ASSUME AccountAssumption ==
    /\ InitialKey \in [Accounts -> Keys]
    /\ None \notin Accounts \cup Wallets \cup Keys /\ Accounts \cap Wallets = {}
    /\ RecoveryDelay \in Nat \ {0} /\ MaxTime \in Nat /\ MaxNonce \in [Accounts -> Nat]

VARIABLES
    account,    \* the storage of each account
    now,        \* block.timestamp
    spent,      \* history: what has been signed and applied
    ended       \* history: recoveries that were vetoed, replaced or completed

accountVars == <<account, spent, ended>>

Permissions == {"protocol", "device_admin"}
NoPending == [id |-> None, current |-> None, new |-> None, key |-> None, executeAfter |-> 0]
Undeployed ==
    [deviceEpoch |-> 0, deviceNonce |-> 0, recoveryNonce |-> 0,
     activeDeviceCount |-> 0, activeAdminCount |-> 0,
     keyEpoch |-> [k \in Keys |-> 0], keyPermissions |-> [k \in Keys |-> {}],
     recoveryAuthority |-> None, recoveryConfigured |-> FALSE, pending |-> NoPending]

InitAccounts ==
    /\ account = [b \in Accounts |-> Undeployed]
    /\ now = 0
    /\ spent = {}
    /\ ended = {}

HasCode(b) == b \in Accounts /\ account[b].deviceEpoch > 0

IsAuthorizedKey(b, k) ==
    account[b].keyEpoch[k] = account[b].deviceEpoch /\ account[b].keyPermissions[k] # {}
HasPermission(b, k, p) == IsAuthorizedKey(b, k) /\ p \in account[b].keyPermissions[k]

\* isValidSignature for something that a key of the account could sign.
IsValidSignature(b) == HasCode(b) /\ \E k \in Keys : HasPermission(b, k, "protocol")

\* A digest as the fields that tell it apart.
Digest(op, by, what, nonce) == [op |-> op, by |-> by, what |-> what, nonce |-> nonce]

-----------------------------------------------------------------------------
\* createAccount: anyone may deploy, once.
CreateAccount(b) ==
    /\ ~ HasCode(b)
    /\ account' = [account EXCEPT ![b] =
                     [@ EXCEPT !.deviceEpoch = 1, !.activeDeviceCount = 1,
                               !.activeAdminCount = 1,
                               !.keyEpoch[InitialKey[b]] = 1,
                               !.keyPermissions[InitialKey[b]] = Permissions]]
    /\ UNCHANGED <<spent, ended>>

\* _validAuthorizedDeviceSignature over the current deviceNonce, and the
\* storage that follows.
Administer(b, op, what, storage) ==
    /\ HasCode(b)
    /\ \E k \in Keys : HasPermission(b, k, "device_admin")
    /\ account[b].deviceNonce < MaxNonce[b]
    /\ account' = [account EXCEPT ![b] = [storage EXCEPT !.deviceNonce = @ + 1]]
    /\ spent' = spent \cup {Digest(op, b, what, account[b].deviceNonce)}

AuthorizeDevice(b, k, permissions) ==
    /\ permissions # {}
    /\ ~ IsAuthorizedKey(b, k)
    /\ Administer(b, "authorize", <<k, permissions>>,
                  [account[b] EXCEPT
                     !.activeDeviceCount = @ + 1,
                     !.activeAdminCount = @ + (IF "device_admin" \in permissions THEN 1 ELSE 0),
                     !.keyEpoch[k] = account[b].deviceEpoch,
                     !.keyPermissions[k] = permissions])
    /\ UNCHANGED ended

RevokesAdmin(b, k) == "device_admin" \in account[b].keyPermissions[k]

\* The check of the last device alone.
MayRevokeAdmin(b, k) ==
    /\ IsAuthorizedKey(b, k)
    /\ account[b].activeDeviceCount # 1

MayRevoke(b, k) ==
    /\ IsAuthorizedKey(b, k)
    /\ account[b].activeDeviceCount # 1
    /\ RevokesAdmin(b, k) /\ account[b].activeAdminCount = 1
          => account[b].recoveryAuthority # None

RevokeDevice(b, k) ==
    /\ MayRevoke(b, k)
    /\ Administer(b, "revoke", <<k>>,
                  [account[b] EXCEPT
                     !.activeDeviceCount = @ - 1,
                     !.activeAdminCount = @ - (IF RevokesAdmin(b, k) THEN 1 ELSE 0),
                     !.keyEpoch[k] = 0,
                     !.keyPermissions[k] = {}])
    /\ UNCHANGED ended

\* _checkRecoveryAuthority
MayRecover(b, w) == w \in (Wallets \cup Accounts) \ {b}

SetRecovery(b, w) ==
    /\ ~ account[b].recoveryConfigured
    /\ MayRecover(b, w)
    /\ Administer(b, "set_recovery", <<w>>,
                  [account[b] EXCEPT !.recoveryConfigured = TRUE, !.recoveryAuthority = w])
    /\ UNCHANGED ended

\* A recovery is over.
End(b) == ended' = ended \cup ({account[b].pending.id} \ {None})

\* A pending recovery stays pending.
ChangeRecoveryOnly(b, w) ==
    /\ account[b].recoveryAuthority # None
    /\ MayRecover(b, w)
    /\ Administer(b, "change_recovery", <<account[b].recoveryAuthority, w>>,
                  [account[b] EXCEPT !.recoveryNonce = @ + 1, !.recoveryAuthority = w])
    /\ UNCHANGED ended

ChangeRecovery(b, w) ==
    /\ account[b].recoveryAuthority # None
    /\ MayRecover(b, w)
    /\ Administer(b, "change_recovery", <<account[b].recoveryAuthority, w>>,
                  [account[b] EXCEPT !.recoveryNonce = @ + 1, !.pending = NoPending,
                                     !.recoveryAuthority = w])
    /\ End(b)

\* _validRecoverySignature: a wallet may have signed anything, a contract is asked.
RecoverySigns(w) == w \in Wallets \/ IsValidSignature(w)

\* _recoveryExecuteAfter refuses what does not fit.
Fits(time) == time <= MaxTime

InitiateRecovery(b, k, w) ==
    LET a == account[b]
        id == Digest("recover", b, <<a.recoveryAuthority, w, k>>, a.recoveryNonce)
    IN  /\ a.recoveryAuthority # None
        /\ MayRecover(b, w)
        /\ a.pending.id = None
        /\ RecoverySigns(a.recoveryAuthority)
        /\ a.recoveryNonce < MaxNonce[b]
        /\ Fits(now + RecoveryDelay)
        /\ account' = [account EXCEPT ![b] =
                         [a EXCEPT !.recoveryNonce = @ + 1,
                                   !.pending = [id |-> id, current |-> a.recoveryAuthority,
                                                new |-> w, key |-> k,
                                                executeAfter |-> now + RecoveryDelay]]]
        /\ spent' = spent \cup {id}
        /\ UNCHANGED ended

CancelRecovery(b) ==
    /\ account[b].pending.id # None
    /\ Administer(b, "cancel_recovery", <<account[b].pending.id>>,
                  [account[b] EXCEPT !.pending = NoPending])
    /\ End(b)

FinalizeRecovery(b) ==
    LET a == account[b]
    IN  /\ a.pending.id # None
        /\ now >= a.pending.executeAfter
        /\ account' = [account EXCEPT ![b] =
                         [a EXCEPT !.pending = NoPending,
                                   !.deviceEpoch = @ + 1, !.deviceNonce = @ + 1,
                                   !.activeDeviceCount = 1, !.activeAdminCount = 1,
                                   !.recoveryAuthority = a.pending.new,
                                   !.keyEpoch[a.pending.key] = a.deviceEpoch + 1,
                                   !.keyPermissions[a.pending.key] = Permissions]]
        /\ End(b)
        /\ UNCHANGED spent

AccountStep(b) ==
    \/ CreateAccount(b)
    \/ \E k \in Keys :
          \/ \E p \in SUBSET Permissions : AuthorizeDevice(b, k, p)
          \/ RevokeDevice(b, k)
          \/ \E w \in Wallets \cup Accounts : InitiateRecovery(b, k, w)
    \/ \E w \in Wallets \cup Accounts : SetRecovery(b, w) \/ ChangeRecovery(b, w)
    \/ CancelRecovery(b)
    \/ FinalizeRecovery(b)

Tick == now < MaxTime /\ now' = now + 1

-----------------------------------------------------------------------------
(* Properties *)

Authorized(b) == {k \in Keys : IsAuthorizedKey(b, k)}
Admins(b) == {k \in Keys : HasPermission(b, k, "device_admin")}

\* The two counters that guard the last device and the last administrator are
\* what they count, in every epoch, also for keys that come back.
CountersCount ==
    \A b \in Accounts :
        /\ account[b].activeDeviceCount = Cardinality(Authorized(b))
        /\ account[b].activeAdminCount = Cardinality(Admins(b))

\* A pending recovery was approved by the authority that is still in force, and
\* one that was vetoed, replaced or completed never becomes pending again.
PendingIsCurrent ==
    \A b \in Accounts :
        account[b].pending.id # None
            => /\ account[b].pending.current = account[b].recoveryAuthority
               /\ account[b].pending.id \notin ended

=============================================================================
