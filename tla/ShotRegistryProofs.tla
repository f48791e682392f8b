------------------------- MODULE ShotRegistryProofs -------------------------
(***************************************************************************)
(* Proofs about the contracts, for every set of accounts, keys, wallets,    *)
(* Shots and claims: no account loses its last device or everyone who could *)
(* appoint an administrator, a recovery never outlives its authority or     *)
(* comes back, a signature is applied once, and receipts add up.            *)
(***************************************************************************)
EXTENDS ShotRegistry, FiniteSetTheorems, TLAPS

-----------------------------------------------------------------------------
(* One account *)

Authorities == Wallets \cup Accounts

Pendings == [id : {None} \cup [op : {"recover"}, by : Accounts,
                               what : Authorities \X Authorities \X Keys, nonce : Nat],
             current : Authorities \cup {None}, new : Authorities \cup {None},
             key : Keys \cup {None}, executeAfter : 0 .. MaxTime]

Storages ==
    [deviceEpoch : Nat, deviceNonce : Nat, recoveryNonce : Nat,
     activeDeviceCount : Nat, activeAdminCount : Nat,
     keyEpoch : [Keys -> Nat], keyPermissions : [Keys -> SUBSET Permissions],
     recoveryAuthority : Authorities \cup {None}, recoveryConfigured : BOOLEAN,
     pending : Pendings]

\* The keys and the administrators of a storage.
KeysOf(r) == {k \in Keys : r.keyEpoch[k] = r.deviceEpoch /\ r.keyPermissions[k] # {}}
AdminsOf(r) ==
    {k \in Keys : /\ r.keyEpoch[k] = r.deviceEpoch /\ r.keyPermissions[k] # {}
                  /\ "device_admin" \in r.keyPermissions[k]}

\* No key is of a later epoch, and the counters count.
Counts(r) ==
    /\ \A k \in Keys : r.keyEpoch[k] <= r.deviceEpoch
    /\ IsFiniteSet(KeysOf(r))
    /\ r.activeDeviceCount = Cardinality(KeysOf(r))
    /\ r.activeAdminCount = Cardinality(AdminsOf(r))

\* A deployed account can be administered or recovered; one that is not has
\* neither keys nor an authority.
Governs(r) ==
    IF r.deviceEpoch = 0
    THEN /\ r.recoveryAuthority = None /\ r.pending = NoPending
         /\ \A k \in Keys : r.keyPermissions[k] = {}
    ELSE r.activeDeviceCount # 0 /\ (r.activeAdminCount # 0 \/ r.recoveryAuthority # None)

\* A pending recovery was approved by the authority in force, earlier.
Recovers(b, r) ==
    /\ ~ r.recoveryConfigured => r.recoveryAuthority = None /\ r.pending.id = None
    /\ r.pending.id # None
          => /\ r.pending.id.by = b /\ r.pending.id.nonce < r.recoveryNonce
             /\ r.pending.current = r.recoveryAuthority
             /\ r.pending.new # None /\ r.pending.key # None

Sound(b, r) == r \in Storages /\ Counts(r) /\ Governs(r) /\ Recovers(b, r)

\* A storage that differs neither in keys nor in epoch counts as before.
LEMMA SameKeys ==
    ASSUME NEW r \in Storages, NEW n \in Storages, Counts(r),
           n.deviceEpoch = r.deviceEpoch, n.keyEpoch = r.keyEpoch,
           n.keyPermissions = r.keyPermissions,
           n.activeDeviceCount = r.activeDeviceCount, n.activeAdminCount = r.activeAdminCount
    PROVE  Counts(n)
  <1>1. KeysOf(n) = KeysOf(r) /\ AdminsOf(n) = AdminsOf(r)
    BY DEF KeysOf, AdminsOf
  <1> QED
    BY <1>1 DEF Counts

\* The storage with one key, in an epoch that no key has reached yet.
LEMMA OneKey ==
    ASSUME NEW r \in Storages, NEW n \in Storages, NEW k \in Keys, Counts(r),
           n.deviceEpoch = r.deviceEpoch + 1,
           n.keyEpoch = [r.keyEpoch EXCEPT ![k] = r.deviceEpoch + 1],
           n.keyPermissions = [r.keyPermissions EXCEPT ![k] = Permissions],
           n.activeDeviceCount = 1, n.activeAdminCount = 1
    PROVE  Counts(n)
  <1>1. /\ r.keyEpoch \in [Keys -> Nat] /\ r.keyPermissions \in [Keys -> SUBSET Permissions]
        /\ r.deviceEpoch \in Nat /\ \A j \in Keys : r.keyEpoch[j] <= r.deviceEpoch
    BY DEF Storages, Counts
  <1>2. /\ \A j \in Keys : n.keyEpoch[j] = IF j = k THEN r.deviceEpoch + 1 ELSE r.keyEpoch[j]
        /\ n.keyPermissions[k] = Permissions
    BY <1>1
  <1>3. \A j \in Keys : n.keyEpoch[j] <= n.deviceEpoch /\ (n.keyEpoch[j] = n.deviceEpoch <=> j = k)
    BY <1>1, <1>2
  <1>4. KeysOf(n) = {k} /\ AdminsOf(n) = {k}
    BY <1>2, <1>3 DEF KeysOf, AdminsOf, Permissions
  <1>5. IsFiniteSet({k}) /\ Cardinality({k}) = 1
    BY FS_Singleton
  <1> QED
    BY <1>3, <1>4, <1>5 DEF Counts

\* authorizeDevice: one key more.
LEMMA KeyAdded ==
    ASSUME NEW r \in Storages, NEW n \in Storages, NEW k \in Keys, Counts(r),
           NEW p \in SUBSET Permissions, p # {}, k \notin KeysOf(r),
           n.deviceEpoch = r.deviceEpoch,
           n.keyEpoch = [r.keyEpoch EXCEPT ![k] = r.deviceEpoch],
           n.keyPermissions = [r.keyPermissions EXCEPT ![k] = p],
           n.activeDeviceCount = r.activeDeviceCount + 1,
           n.activeAdminCount = r.activeAdminCount + (IF "device_admin" \in p THEN 1 ELSE 0)
    PROVE  Counts(n)
  <1>1. /\ r.keyEpoch \in [Keys -> Nat] /\ r.keyPermissions \in [Keys -> SUBSET Permissions]
        /\ r.deviceEpoch \in Nat /\ \A j \in Keys : r.keyEpoch[j] <= r.deviceEpoch
    BY DEF Storages, Counts
  <1>2. /\ \A j \in Keys : n.keyEpoch[j] = IF j = k THEN r.deviceEpoch ELSE r.keyEpoch[j]
        /\ \A j \in Keys : n.keyPermissions[j] = IF j = k THEN p ELSE r.keyPermissions[j]
    BY <1>1
  <1>3. KeysOf(n) = KeysOf(r) \cup {k}
    BY <1>2 DEF KeysOf
  <1>4. AdminsOf(n) = IF "device_admin" \in p THEN AdminsOf(r) \cup {k} ELSE AdminsOf(r)
    BY <1>2 DEF AdminsOf, KeysOf
  <1>5. AdminsOf(r) \in SUBSET KeysOf(r) /\ k \notin AdminsOf(r)
    BY DEF AdminsOf, KeysOf
  <1>6. IsFiniteSet(KeysOf(r)) /\ IsFiniteSet(AdminsOf(r))
    BY <1>5, FS_Subset DEF Counts
  <1>7. /\ IsFiniteSet(KeysOf(r) \cup {k})
        /\ Cardinality(KeysOf(r) \cup {k}) = Cardinality(KeysOf(r)) + 1
    BY <1>6, FS_AddElement
  <1>8. Cardinality(AdminsOf(r) \cup {k}) = Cardinality(AdminsOf(r)) + 1
    BY <1>5, <1>6, FS_AddElement
  <1>9. Cardinality(AdminsOf(r)) \in Nat
    BY <1>6, FS_CardinalityType
  <1> QED
    BY <1>1, <1>2, <1>3, <1>4, <1>7, <1>8, <1>9 DEF Counts

\* revokeDevice: one key less.
LEMMA KeyRemoved ==
    ASSUME NEW r \in Storages, NEW n \in Storages, NEW k \in Keys, Counts(r), k \in KeysOf(r),
           n.deviceEpoch = r.deviceEpoch,
           n.keyEpoch = [r.keyEpoch EXCEPT ![k] = 0],
           n.keyPermissions = [r.keyPermissions EXCEPT ![k] = {}],
           n.activeDeviceCount = r.activeDeviceCount - 1,
           n.activeAdminCount =
               r.activeAdminCount - (IF "device_admin" \in r.keyPermissions[k] THEN 1 ELSE 0)
    PROVE  Counts(n)
  <1>1. /\ r.keyEpoch \in [Keys -> Nat] /\ r.keyPermissions \in [Keys -> SUBSET Permissions]
        /\ r.deviceEpoch \in Nat /\ \A j \in Keys : r.keyEpoch[j] <= r.deviceEpoch
    BY DEF Storages, Counts
  <1>2. /\ \A j \in Keys : n.keyEpoch[j] = IF j = k THEN 0 ELSE r.keyEpoch[j]
        /\ \A j \in Keys : n.keyPermissions[j] = IF j = k THEN {} ELSE r.keyPermissions[j]
    BY <1>1
  <1>3. KeysOf(n) = KeysOf(r) \ {k}
    BY <1>2 DEF KeysOf
  <1>4. AdminsOf(n) = AdminsOf(r) \ {k}
    BY <1>2 DEF AdminsOf
  <1>5. /\ AdminsOf(r) \in SUBSET KeysOf(r)
        /\ k \in AdminsOf(r) <=> "device_admin" \in r.keyPermissions[k]
    BY DEF AdminsOf, KeysOf
  <1>6. IsFiniteSet(KeysOf(r)) /\ IsFiniteSet(AdminsOf(r))
    BY <1>5, FS_Subset DEF Counts
  <1>7. /\ IsFiniteSet(KeysOf(r) \ {k})
        /\ Cardinality(KeysOf(r) \ {k}) = Cardinality(KeysOf(r)) - 1
    BY <1>6, FS_RemoveElement
  <1>8. Cardinality(AdminsOf(r) \ {k})
            = Cardinality(AdminsOf(r)) - (IF "device_admin" \in r.keyPermissions[k] THEN 1 ELSE 0)
    <2>1. Cardinality(AdminsOf(r)) \in Nat
      BY <1>6, FS_CardinalityType
    <2>2. Cardinality(AdminsOf(r) \ {k})
              = IF k \in AdminsOf(r) THEN Cardinality(AdminsOf(r)) - 1 ELSE Cardinality(AdminsOf(r))
      BY <1>6, FS_RemoveElement
    <2> QED
      BY <1>5, <2>1, <2>2
  <1> QED
    BY <1>1, <1>2, <1>3, <1>4, <1>7, <1>8 DEF Counts

\* What the counters say of a sound account.
LEMMA SoundFacts ==
    ASSUME NEW b, NEW r, Sound(b, r), r.deviceEpoch # 0
    PROVE  /\ KeysOf(r) # {}
           /\ AdminsOf(r) # {} \/ r.recoveryAuthority # None
  BY FS_EmptySet DEF Sound, Counts, Governs

LEMMA NoPendingType == NoPending \in Pendings
  BY AccountAssumption DEF NoPending, Pendings

\* createAccount.
LEMMA CreateSound ==
    ASSUME NEW b \in Accounts, NEW r, Sound(b, r), r.deviceEpoch = 0
    PROVE  Sound(b, [r EXCEPT !.deviceEpoch = 1, !.activeDeviceCount = 1,
                     !.activeAdminCount = 1, !.keyEpoch[InitialKey[b]] = 1,
                     !.keyPermissions[InitialKey[b]] = Permissions])
  <1> DEFINE epoch == 1
             devices == 1
             admins == 1
             epochs == [r.keyEpoch EXCEPT ![InitialKey[b]] = 1]
             permissions == [r.keyPermissions EXCEPT ![InitialKey[b]] = Permissions]
             n == [r EXCEPT !.deviceEpoch = epoch, !.activeDeviceCount = devices,
                            !.activeAdminCount = admins, !.keyEpoch = epochs,
                            !.keyPermissions = permissions]
  <1>1. r \in Storages
    BY DEF Sound
  <1>2. /\ epoch \in Nat
        /\ devices \in Nat
        /\ admins \in Nat
        /\ epochs \in [Keys -> Nat]
        /\ permissions \in [Keys -> SUBSET Permissions]
    BY <1>1, AccountAssumption DEF Storages
  <1>3. [r EXCEPT !.deviceEpoch = 1, !.activeDeviceCount = 1,
                     !.activeAdminCount = 1, !.keyEpoch[InitialKey[b]] = 1,
                     !.keyPermissions[InitialKey[b]] = Permissions] = n
    BY <1>1 DEF Storages
  <1> HIDE DEF epoch, devices, admins, epochs, permissions
  <1>4. /\ n \in Storages
        /\ n.deviceEpoch = epoch
        /\ n.deviceNonce = r.deviceNonce
        /\ n.recoveryNonce = r.recoveryNonce
        /\ n.activeDeviceCount = devices
        /\ n.activeAdminCount = admins
        /\ n.keyEpoch = epochs
        /\ n.keyPermissions = permissions
        /\ n.recoveryAuthority = r.recoveryAuthority
        /\ n.recoveryConfigured = r.recoveryConfigured
        /\ n.pending = r.pending
    BY <1>1, <1>2 DEF Storages
  <1> HIDE DEF n
  <1>5. Counts(n)
    BY <1>1, <1>4, OneKey, AccountAssumption DEF Sound, epoch, devices, admins, epochs, permissions
  <1>6. Governs(n)
    BY <1>1, <1>4, AccountAssumption DEF Sound, Governs, Storages, Counts, Authorities, epoch, devices, admins, epochs, permissions
  <1>7. Recovers(b, n)
    BY <1>1, <1>4 DEF Sound, Recovers, NoPending, Storages, Pendings, epoch, devices, admins, epochs, permissions
  <1>8. Sound(b, n)
    BY <1>4, <1>5, <1>6, <1>7 DEF Sound
  <1> QED
    BY <1>8, <1>3

\* authorizeDevice.
LEMMA AuthorizeSound ==
    ASSUME NEW b \in Accounts, NEW r, Sound(b, r), r.deviceEpoch # 0, NEW k \in Keys, k \notin KeysOf(r),
           NEW p \in SUBSET Permissions, p # {}
    PROVE  Sound(b, [[r EXCEPT !.activeDeviceCount = @ + 1,
                     !.activeAdminCount = @ + (IF "device_admin" \in p THEN 1 ELSE 0),
                     !.keyEpoch[k] = r.deviceEpoch, !.keyPermissions[k] = p]
                    EXCEPT !.deviceNonce = @ + 1])
  <1> DEFINE nonce == r.deviceNonce + 1
             devices == r.activeDeviceCount + 1
             admins == r.activeAdminCount + (IF "device_admin" \in p THEN 1 ELSE 0)
             epochs == [r.keyEpoch EXCEPT ![k] = r.deviceEpoch]
             permissions == [r.keyPermissions EXCEPT ![k] = p]
             n == [r EXCEPT !.deviceNonce = nonce, !.activeDeviceCount = devices,
                            !.activeAdminCount = admins, !.keyEpoch = epochs,
                            !.keyPermissions = permissions]
  <1>1. r \in Storages
    BY DEF Sound
  <1>2. /\ nonce \in Nat
        /\ devices \in Nat
        /\ admins \in Nat
        /\ epochs \in [Keys -> Nat]
        /\ permissions \in [Keys -> SUBSET Permissions]
    BY <1>1 DEF Storages
  <1>3. [[r EXCEPT !.activeDeviceCount = @ + 1,
                     !.activeAdminCount = @ + (IF "device_admin" \in p THEN 1 ELSE 0),
                     !.keyEpoch[k] = r.deviceEpoch, !.keyPermissions[k] = p]
                    EXCEPT !.deviceNonce = @ + 1] = n
    BY <1>1 DEF Storages
  <1> HIDE DEF nonce, devices, admins, epochs, permissions
  <1>4. /\ n \in Storages
        /\ n.deviceEpoch = r.deviceEpoch
        /\ n.deviceNonce = nonce
        /\ n.recoveryNonce = r.recoveryNonce
        /\ n.activeDeviceCount = devices
        /\ n.activeAdminCount = admins
        /\ n.keyEpoch = epochs
        /\ n.keyPermissions = permissions
        /\ n.recoveryAuthority = r.recoveryAuthority
        /\ n.recoveryConfigured = r.recoveryConfigured
        /\ n.pending = r.pending
    BY <1>1, <1>2 DEF Storages
  <1> HIDE DEF n
  <1>5. Counts(n)
    BY <1>1, <1>4, KeyAdded DEF Sound, nonce, devices, admins, epochs, permissions
  <1>6. Governs(n)
    BY <1>1, <1>4, AccountAssumption DEF Sound, Governs, Storages, Counts, Authorities, nonce, devices, admins, epochs, permissions
  <1>7. Recovers(b, n)
    BY <1>1, <1>4 DEF Sound, Recovers, NoPending, Storages, Pendings, nonce, devices, admins, epochs, permissions
  <1>8. Sound(b, n)
    BY <1>4, <1>5, <1>6, <1>7 DEF Sound
  <1> QED
    BY <1>8, <1>3

\* A key that is counted.
LEMMA KeyCounted ==
    ASSUME NEW r \in Storages, Counts(r), NEW k \in KeysOf(r)
    PROVE  /\ r.activeDeviceCount # 0
           /\ "device_admin" \in r.keyPermissions[k] => r.activeAdminCount # 0
  <1>1. AdminsOf(r) \in SUBSET KeysOf(r) /\ IsFiniteSet(KeysOf(r))
    BY DEF AdminsOf, KeysOf, Counts
  <1>2. IsFiniteSet(AdminsOf(r))
    BY <1>1, FS_Subset
  <1>3. "device_admin" \in r.keyPermissions[k] => k \in AdminsOf(r)
    BY DEF AdminsOf, KeysOf
  <1> QED
    BY <1>1, <1>2, <1>3, FS_EmptySet DEF Counts

\* revokeDevice.
LEMMA RevokeSound ==
    ASSUME NEW b \in Accounts, NEW r, Sound(b, r), r.deviceEpoch # 0, NEW k \in Keys, k \in KeysOf(r),
           r.activeDeviceCount # 1,
           "device_admin" \in r.keyPermissions[k] /\ r.activeAdminCount = 1
               => r.recoveryAuthority # None
    PROVE  Sound(b, [[r EXCEPT !.activeDeviceCount = @ - 1,
                     !.activeAdminCount = @ - (IF "device_admin" \in r.keyPermissions[k] THEN 1 ELSE 0),
                     !.keyEpoch[k] = 0, !.keyPermissions[k] = {}]
                    EXCEPT !.deviceNonce = @ + 1])
  <1> DEFINE nonce == r.deviceNonce + 1
             devices == r.activeDeviceCount - 1
             admins == r.activeAdminCount - (IF "device_admin" \in r.keyPermissions[k] THEN 1 ELSE 0)
             epochs == [r.keyEpoch EXCEPT ![k] = 0]
             permissions == [r.keyPermissions EXCEPT ![k] = {}]
             n == [r EXCEPT !.deviceNonce = nonce, !.activeDeviceCount = devices,
                            !.activeAdminCount = admins, !.keyEpoch = epochs,
                            !.keyPermissions = permissions]
  <1>1. r \in Storages
    BY DEF Sound
  <1>2. /\ r.activeDeviceCount # 0
        /\ "device_admin" \in r.keyPermissions[k] => r.activeAdminCount # 0
    BY KeyCounted DEF Sound
  <1>3. /\ nonce \in Nat
        /\ devices \in Nat
        /\ admins \in Nat
        /\ epochs \in [Keys -> Nat]
        /\ permissions \in [Keys -> SUBSET Permissions]
    BY <1>1, <1>2 DEF Storages
  <1>4. [[r EXCEPT !.activeDeviceCount = @ - 1,
                     !.activeAdminCount = @ - (IF "device_admin" \in r.keyPermissions[k] THEN 1 ELSE 0),
                     !.keyEpoch[k] = 0, !.keyPermissions[k] = {}]
                    EXCEPT !.deviceNonce = @ + 1] = n
    BY <1>1 DEF Storages
  <1> HIDE DEF nonce, devices, admins, epochs, permissions
  <1>5. /\ n \in Storages
        /\ n.deviceEpoch = r.deviceEpoch
        /\ n.deviceNonce = nonce
        /\ n.recoveryNonce = r.recoveryNonce
        /\ n.activeDeviceCount = devices
        /\ n.activeAdminCount = admins
        /\ n.keyEpoch = epochs
        /\ n.keyPermissions = permissions
        /\ n.recoveryAuthority = r.recoveryAuthority
        /\ n.recoveryConfigured = r.recoveryConfigured
        /\ n.pending = r.pending
    BY <1>1, <1>3, <1>2 DEF Storages
  <1> HIDE DEF n
  <1>6. Counts(n)
    BY <1>1, <1>5, KeyRemoved DEF Sound, nonce, devices, admins, epochs, permissions
  <1>7. Governs(n)
    BY <1>1, <1>5, AccountAssumption, <1>2 DEF Sound, Governs, Storages, Counts, Authorities, nonce, devices, admins, epochs, permissions
  <1>8. Recovers(b, n)
    BY <1>1, <1>5 DEF Sound, Recovers, NoPending, Storages, Pendings, nonce, devices, admins, epochs, permissions
  <1>9. Sound(b, n)
    BY <1>5, <1>6, <1>7, <1>8 DEF Sound
  <1> QED
    BY <1>9, <1>4

\* setRecovery.
LEMMA SetRecoverySound ==
    ASSUME NEW b \in Accounts, NEW r, Sound(b, r), r.deviceEpoch # 0, NEW w \in Authorities, ~ r.recoveryConfigured
    PROVE  Sound(b, [[r EXCEPT !.recoveryConfigured = TRUE, !.recoveryAuthority = w]
                    EXCEPT !.deviceNonce = @ + 1])
  <1> DEFINE nonce == r.deviceNonce + 1
             n == [r EXCEPT !.deviceNonce = nonce, !.recoveryAuthority = w,
                            !.recoveryConfigured = TRUE]
  <1>1. r \in Storages
    BY DEF Sound
  <1>2. /\ nonce \in Nat
    BY <1>1 DEF Storages
  <1>3. [[r EXCEPT !.recoveryConfigured = TRUE, !.recoveryAuthority = w]
                    EXCEPT !.deviceNonce = @ + 1] = n
    BY <1>1 DEF Storages
  <1> HIDE DEF nonce
  <1>4. /\ n \in Storages
        /\ n.deviceEpoch = r.deviceEpoch
        /\ n.deviceNonce = nonce
        /\ n.recoveryNonce = r.recoveryNonce
        /\ n.activeDeviceCount = r.activeDeviceCount
        /\ n.activeAdminCount = r.activeAdminCount
        /\ n.keyEpoch = r.keyEpoch
        /\ n.keyPermissions = r.keyPermissions
        /\ n.recoveryAuthority = w
        /\ n.recoveryConfigured = TRUE
        /\ n.pending = r.pending
    BY <1>1, <1>2 DEF Storages
  <1> HIDE DEF n
  <1>5. Counts(n)
    BY <1>1, <1>4, SameKeys DEF Sound, nonce
  <1>6. Governs(n)
    BY <1>1, <1>4, AccountAssumption DEF Sound, Governs, Storages, Counts, Authorities, nonce
  <1>7. Recovers(b, n)
    BY <1>1, <1>4 DEF Sound, Recovers, NoPending, Storages, Pendings, nonce
  <1>8. Sound(b, n)
    BY <1>4, <1>5, <1>6, <1>7 DEF Sound
  <1> QED
    BY <1>8, <1>3

\* changeRecovery.
LEMMA ChangeRecoverySound ==
    ASSUME NEW b \in Accounts, NEW r, Sound(b, r), r.deviceEpoch # 0,
           r.recoveryAuthority # None, NEW w \in Authorities
    PROVE  Sound(b, [[r EXCEPT !.recoveryNonce = @ + 1, !.pending = NoPending,
                     !.recoveryAuthority = w]
                    EXCEPT !.deviceNonce = @ + 1])
  <1> DEFINE nonce == r.deviceNonce + 1
             rnonce == r.recoveryNonce + 1
             n == [r EXCEPT !.deviceNonce = nonce, !.recoveryNonce = rnonce,
                            !.recoveryAuthority = w, !.pending = NoPending]
  <1>1. r \in Storages
    BY DEF Sound
  <1>2. /\ nonce \in Nat
        /\ rnonce \in Nat
    BY <1>1 DEF Storages
  <1>3. [[r EXCEPT !.recoveryNonce = @ + 1, !.pending = NoPending,
                     !.recoveryAuthority = w]
                    EXCEPT !.deviceNonce = @ + 1] = n
    BY <1>1 DEF Storages
  <1> HIDE DEF nonce, rnonce
  <1>4. /\ n \in Storages
        /\ n.deviceEpoch = r.deviceEpoch
        /\ n.deviceNonce = nonce
        /\ n.recoveryNonce = rnonce
        /\ n.activeDeviceCount = r.activeDeviceCount
        /\ n.activeAdminCount = r.activeAdminCount
        /\ n.keyEpoch = r.keyEpoch
        /\ n.keyPermissions = r.keyPermissions
        /\ n.recoveryAuthority = w
        /\ n.recoveryConfigured = r.recoveryConfigured
        /\ n.pending = NoPending
    BY <1>1, <1>2, NoPendingType DEF Storages
  <1> HIDE DEF n
  <1>5. Counts(n)
    BY <1>1, <1>4, SameKeys DEF Sound, nonce, rnonce
  <1>6. Governs(n)
    BY <1>1, <1>4, AccountAssumption, NoPendingType DEF Sound, Governs, Storages, Counts, Authorities, nonce, rnonce
  <1>7. Recovers(b, n)
    BY <1>1, <1>4 DEF Sound, Recovers, NoPending, Storages, Pendings, nonce, rnonce
  <1>8. Sound(b, n)
    BY <1>4, <1>5, <1>6, <1>7 DEF Sound
  <1> QED
    BY <1>8, <1>3

\* cancelRecovery.
LEMMA CancelSound ==
    ASSUME NEW b \in Accounts, NEW r, Sound(b, r), r.deviceEpoch # 0
    PROVE  Sound(b, [[r EXCEPT !.pending = NoPending]
                    EXCEPT !.deviceNonce = @ + 1])
  <1> DEFINE nonce == r.deviceNonce + 1
             n == [r EXCEPT !.deviceNonce = nonce, !.pending = NoPending]
  <1>1. r \in Storages
    BY DEF Sound
  <1>2. /\ nonce \in Nat
    BY <1>1 DEF Storages
  <1>3. [[r EXCEPT !.pending = NoPending]
                    EXCEPT !.deviceNonce = @ + 1] = n
    BY <1>1 DEF Storages
  <1> HIDE DEF nonce
  <1>4. /\ n \in Storages
        /\ n.deviceEpoch = r.deviceEpoch
        /\ n.deviceNonce = nonce
        /\ n.recoveryNonce = r.recoveryNonce
        /\ n.activeDeviceCount = r.activeDeviceCount
        /\ n.activeAdminCount = r.activeAdminCount
        /\ n.keyEpoch = r.keyEpoch
        /\ n.keyPermissions = r.keyPermissions
        /\ n.recoveryAuthority = r.recoveryAuthority
        /\ n.recoveryConfigured = r.recoveryConfigured
        /\ n.pending = NoPending
    BY <1>1, <1>2, NoPendingType DEF Storages
  <1> HIDE DEF n
  <1>5. Counts(n)
    BY <1>1, <1>4, SameKeys DEF Sound, nonce
  <1>6. Governs(n)
    BY <1>1, <1>4, AccountAssumption, NoPendingType DEF Sound, Governs, Storages, Counts, Authorities, nonce
  <1>7. Recovers(b, n)
    BY <1>1, <1>4 DEF Sound, Recovers, NoPending, Storages, Pendings, nonce
  <1>8. Sound(b, n)
    BY <1>4, <1>5, <1>6, <1>7 DEF Sound
  <1> QED
    BY <1>8, <1>3

\* finalizeRecovery.
LEMMA FinalizeSound ==
    ASSUME NEW b \in Accounts, NEW r, Sound(b, r), r.deviceEpoch # 0, r.pending.id # None
    PROVE  Sound(b, [r EXCEPT !.pending = NoPending, !.deviceEpoch = @ + 1, !.deviceNonce = @ + 1,
                     !.activeDeviceCount = 1, !.activeAdminCount = 1,
                     !.recoveryAuthority = r.pending.new,
                     !.keyEpoch[r.pending.key] = r.deviceEpoch + 1,
                     !.keyPermissions[r.pending.key] = Permissions])
  <1> DEFINE epoch == r.deviceEpoch + 1
             nonce == r.deviceNonce + 1
             devices == 1
             admins == 1
             epochs == [r.keyEpoch EXCEPT ![r.pending.key] = r.deviceEpoch + 1]
             permissions == [r.keyPermissions EXCEPT ![r.pending.key] = Permissions]
             authority == r.pending.new
             n == [r EXCEPT !.deviceEpoch = epoch, !.deviceNonce = nonce,
                            !.activeDeviceCount = devices, !.activeAdminCount = admins,
                            !.keyEpoch = epochs, !.keyPermissions = permissions,
                            !.recoveryAuthority = authority, !.pending = NoPending]
  <1>1. r \in Storages
    BY DEF Sound
  <1>2. r.pending.key \in Keys /\ r.pending.new \in Authorities /\ r.recoveryConfigured
    BY DEF Sound, Recovers, Storages, Pendings
  <1>3. /\ epoch \in Nat
        /\ nonce \in Nat
        /\ devices \in Nat
        /\ admins \in Nat
        /\ epochs \in [Keys -> Nat]
        /\ permissions \in [Keys -> SUBSET Permissions]
        /\ authority \in Authorities
    BY <1>1, <1>2 DEF Storages
  <1>4. [r EXCEPT !.pending = NoPending, !.deviceEpoch = @ + 1, !.deviceNonce = @ + 1,
                     !.activeDeviceCount = 1, !.activeAdminCount = 1,
                     !.recoveryAuthority = r.pending.new,
                     !.keyEpoch[r.pending.key] = r.deviceEpoch + 1,
                     !.keyPermissions[r.pending.key] = Permissions] = n
    BY <1>1 DEF Storages
  <1> HIDE DEF epoch, nonce, devices, admins, epochs, permissions, authority
  <1>5. /\ n \in Storages
        /\ n.deviceEpoch = epoch
        /\ n.deviceNonce = nonce
        /\ n.recoveryNonce = r.recoveryNonce
        /\ n.activeDeviceCount = devices
        /\ n.activeAdminCount = admins
        /\ n.keyEpoch = epochs
        /\ n.keyPermissions = permissions
        /\ n.recoveryAuthority = authority
        /\ n.recoveryConfigured = r.recoveryConfigured
        /\ n.pending = NoPending
    BY <1>1, <1>3, NoPendingType, <1>2 DEF Storages
  <1> HIDE DEF n
  <1>6. Counts(n)
    BY <1>1, <1>5, OneKey, <1>2 DEF Sound, epoch, nonce, devices, admins, epochs, permissions, authority
  <1>7. Governs(n)
    BY <1>1, <1>5, AccountAssumption, NoPendingType, <1>2 DEF Sound, Governs, Storages, Counts, Authorities, epoch, nonce, devices, admins, epochs, permissions, authority
  <1>8. Recovers(b, n)
    BY <1>2, <1>1, <1>5 DEF Recovers, NoPending, Storages, Pendings, epoch, nonce, devices, admins, epochs, permissions, authority
  <1>9. Sound(b, n)
    BY <1>5, <1>6, <1>7, <1>8 DEF Sound
  <1> QED
    BY <1>9, <1>4

\* initiateRecovery.
LEMMA InitiateSound ==
    ASSUME NEW b \in Accounts, NEW r, Sound(b, r), r.deviceEpoch # 0, r.recoveryAuthority # None, NEW k \in Keys,
           NEW w \in Authorities, NEW t \in 0 .. MaxTime, NEW id,
           id = Digest("recover", b, <<r.recoveryAuthority, w, k>>, r.recoveryNonce)
    PROVE  Sound(b, [r EXCEPT !.recoveryNonce = @ + 1,
                     !.pending = [id |-> id, current |-> r.recoveryAuthority,
                                  new |-> w, key |-> k, executeAfter |-> t]])
  <1> DEFINE q == [id |-> id, current |-> r.recoveryAuthority, new |-> w, key |-> k,
                    executeAfter |-> t]
             rnonce == r.recoveryNonce + 1
             n == [r EXCEPT !.recoveryNonce = rnonce, !.pending = q]
  <1>1. r \in Storages
    BY DEF Sound
  <1>2. /\ q \in Pendings /\ q.current = r.recoveryAuthority /\ q.new = w /\ q.key = k
        /\ q.id.by = b /\ q.id.nonce = r.recoveryNonce
    BY <1>1 DEF Storages, Pendings, Digest
  <1>3. /\ rnonce \in Nat
    BY <1>1 DEF Storages
  <1>4. [r EXCEPT !.recoveryNonce = @ + 1,
                     !.pending = [id |-> id, current |-> r.recoveryAuthority,
                                  new |-> w, key |-> k, executeAfter |-> t]] = n
    BY <1>1 DEF Storages
  <1> HIDE DEF rnonce, q
  <1>5. /\ n \in Storages
        /\ n.deviceEpoch = r.deviceEpoch
        /\ n.deviceNonce = r.deviceNonce
        /\ n.recoveryNonce = rnonce
        /\ n.activeDeviceCount = r.activeDeviceCount
        /\ n.activeAdminCount = r.activeAdminCount
        /\ n.keyEpoch = r.keyEpoch
        /\ n.keyPermissions = r.keyPermissions
        /\ n.recoveryAuthority = r.recoveryAuthority
        /\ n.recoveryConfigured = r.recoveryConfigured
        /\ n.pending = q
    BY <1>1, <1>3, <1>2 DEF Storages
  <1> HIDE DEF n
  <1>6. Counts(n)
    BY <1>1, <1>5, SameKeys DEF Sound, rnonce
  <1>7. Governs(n)
    BY <1>1, <1>5, AccountAssumption, <1>2 DEF Sound, Governs, Storages, Counts, Authorities, rnonce
  <1>8. Recovers(b, n)
    BY <1>2, <1>1, <1>5, AccountAssumption DEF Sound, Recovers, Storages, Authorities, rnonce
  <1>9. Sound(b, n)
    BY <1>5, <1>6, <1>7, <1>8 DEF Sound
  <1> QED
    BY <1>9, <1>4

-----------------------------------------------------------------------------
(* Every account *)

AdminOps == {"authorize", "revoke", "set_recovery", "change_recovery", "cancel_recovery"}

AccountsSound ==
    /\ account \in [Accounts -> Storages]
    /\ \A b \in Accounts : Sound(b, account[b])
    /\ now \in 0 .. MaxTime

\* What a step of an account does: a sound storage, nonces and epochs that do
\* not go back, a recovery that stays, ends or is new, and something signed that
\* is used up unless the epoch changes.
Changes(b, n) ==
    /\ account' = [account EXCEPT ![b] = n] /\ Sound(b, n)
    /\ n.deviceEpoch >= account[b].deviceEpoch
    /\ n.deviceNonce >= account[b].deviceNonce
    /\ n.recoveryNonce >= account[b].recoveryNonce
    /\ \/ n.pending = account[b].pending /\ ended' = ended
       \/ n.pending = NoPending /\ ended' = ended \cup ({account[b].pending.id} \ {None})
       \/ /\ n.pending.id.by = b /\ n.pending.id.nonce = account[b].recoveryNonce
          /\ ended' = ended
    /\ \/ n.deviceEpoch # account[b].deviceEpoch /\ spent' = spent
       \/ /\ n.deviceNonce = account[b].deviceNonce + 1
          /\ \E op \in AdminOps : \E what :
                spent' = spent \cup {Digest(op, b, what, account[b].deviceNonce)}
       \/ /\ n.recoveryNonce = account[b].recoveryNonce + 1
          /\ \E what : spent' = spent \cup {Digest("recover", b, what, account[b].recoveryNonce)}

LEMMA CreateChanges ==
    ASSUME AccountsSound, NEW b \in Accounts, CreateAccount(b)
    PROVE  \E n : Changes(b, n)
  <1> DEFINE r == account[b]
             n == [r EXCEPT !.deviceEpoch = 1, !.activeDeviceCount = 1,
                            !.activeAdminCount = 1, !.keyEpoch[InitialKey[b]] = 1,
                            !.keyPermissions[InitialKey[b]] = Permissions]
  <1>1. r \in Storages /\ Sound(b, r)
    BY DEF AccountsSound
  <1>2. r.deviceEpoch = 0
    BY <1>1 DEF CreateAccount, HasCode, Storages
  <1>3. Sound(b, n)
    BY <1>1, <1>2, CreateSound
  <1>4. account' = [account EXCEPT ![b] = n] /\ UNCHANGED <<spent, ended>>
    BY DEF CreateAccount
  <1>5. /\ n.deviceEpoch = 1 /\ n.deviceNonce = r.deviceNonce
        /\ n.recoveryNonce = r.recoveryNonce /\ n.pending = r.pending
        /\ r.deviceNonce \in Nat /\ r.recoveryNonce \in Nat
    BY <1>1 DEF Storages
  <1> HIDE DEF n
  <1>6. Changes(b, n)
    BY <1>2, <1>3, <1>4, <1>5 DEF Changes
  <1> QED
    BY <1>6

LEMMA AuthorizeChanges ==
    ASSUME AccountsSound, NEW b \in Accounts, NEW k \in Keys, NEW p \in SUBSET Permissions,
           AuthorizeDevice(b, k, p)
    PROVE  \E n : Changes(b, n)
  <1> DEFINE r == account[b]
             n == [[r EXCEPT !.activeDeviceCount = @ + 1,
                     !.activeAdminCount = @ + (IF "device_admin" \in p THEN 1 ELSE 0),
                     !.keyEpoch[k] = r.deviceEpoch, !.keyPermissions[k] = p]
                    EXCEPT !.deviceNonce = @ + 1]
  <1>1. r \in Storages /\ Sound(b, r)
    BY DEF AccountsSound
  <1>2. r.deviceEpoch # 0 /\ k \notin KeysOf(r) /\ p # {}
    BY <1>1 DEF AuthorizeDevice, Administer, HasCode, IsAuthorizedKey, KeysOf, Storages
  <1>3. Sound(b, n)
    BY <1>1, <1>2, AuthorizeSound
  <1>4. /\ account' = [account EXCEPT ![b] = n] /\ ended' = ended
        /\ spent' = spent \cup {Digest("authorize", b, <<k, p>>, r.deviceNonce)}
    BY DEF AuthorizeDevice, Administer
  <1>5. /\ n.deviceEpoch = r.deviceEpoch /\ n.deviceNonce = r.deviceNonce + 1
        /\ n.recoveryNonce = r.recoveryNonce /\ n.pending = r.pending
        /\ r.deviceEpoch \in Nat /\ r.deviceNonce \in Nat /\ r.recoveryNonce \in Nat
    BY <1>1 DEF Storages
  <1> HIDE DEF n
  <1>6. Changes(b, n)
    BY <1>3, <1>4, <1>5 DEF Changes, AdminOps
  <1> QED
    BY <1>6

LEMMA RevokeChanges ==
    ASSUME AccountsSound, NEW b \in Accounts, NEW k \in Keys, RevokeDevice(b, k)
    PROVE  \E n : Changes(b, n)
  <1> DEFINE r == account[b]
             n == [[r EXCEPT !.activeDeviceCount = @ - 1,
                     !.activeAdminCount = @ - (IF "device_admin" \in r.keyPermissions[k] THEN 1 ELSE 0),
                     !.keyEpoch[k] = 0, !.keyPermissions[k] = {}]
                    EXCEPT !.deviceNonce = @ + 1]
  <1>1. r \in Storages /\ Sound(b, r)
    BY DEF AccountsSound
  <1>2. /\ r.deviceEpoch # 0 /\ k \in KeysOf(r) /\ r.activeDeviceCount # 1
        /\ "device_admin" \in r.keyPermissions[k] /\ r.activeAdminCount = 1
              => r.recoveryAuthority # None
    BY <1>1 DEF RevokeDevice, Administer, HasCode, Storages, MayRevoke, RevokesAdmin, IsAuthorizedKey,
           KeysOf
  <1>3. Sound(b, n)
    BY <1>1, <1>2, RevokeSound
  <1>4. /\ account' = [account EXCEPT ![b] = n] /\ ended' = ended
        /\ spent' = spent \cup {Digest("revoke", b, <<k>>, r.deviceNonce)}
    BY DEF RevokeDevice, RevokesAdmin, Administer
  <1>5. /\ n.deviceEpoch = r.deviceEpoch /\ n.deviceNonce = r.deviceNonce + 1
        /\ n.recoveryNonce = r.recoveryNonce /\ n.pending = r.pending
        /\ r.deviceEpoch \in Nat /\ r.deviceNonce \in Nat /\ r.recoveryNonce \in Nat
    BY <1>1 DEF Storages
  <1> HIDE DEF n
  <1>6. Changes(b, n)
    BY <1>3, <1>4, <1>5 DEF Changes, AdminOps
  <1> QED
    BY <1>6

LEMMA SetRecoveryChanges ==
    ASSUME AccountsSound, NEW b \in Accounts, NEW w \in Wallets \cup Accounts, SetRecovery(b, w)
    PROVE  \E n : Changes(b, n)
  <1> DEFINE r == account[b]
             n == [[r EXCEPT !.recoveryConfigured = TRUE, !.recoveryAuthority = w]
                    EXCEPT !.deviceNonce = @ + 1]
  <1>1. r \in Storages /\ Sound(b, r)
    BY DEF AccountsSound
  <1>2. r.deviceEpoch # 0 /\ ~ r.recoveryConfigured /\ w \in Authorities
    BY <1>1 DEF SetRecovery, Administer, HasCode, Storages, Authorities
  <1>3. Sound(b, n)
    BY <1>1, <1>2, SetRecoverySound
  <1>4. /\ account' = [account EXCEPT ![b] = n] /\ ended' = ended
        /\ spent' = spent \cup {Digest("set_recovery", b, <<w>>, r.deviceNonce)}
    BY DEF SetRecovery, Administer
  <1>5. /\ n.deviceEpoch = r.deviceEpoch /\ n.deviceNonce = r.deviceNonce + 1
        /\ n.recoveryNonce = r.recoveryNonce /\ n.pending = r.pending
        /\ r.deviceEpoch \in Nat /\ r.deviceNonce \in Nat /\ r.recoveryNonce \in Nat
    BY <1>1 DEF Storages
  <1> HIDE DEF n
  <1>6. Changes(b, n)
    BY <1>3, <1>4, <1>5 DEF Changes, AdminOps
  <1> QED
    BY <1>6

LEMMA ChangeRecoveryChanges ==
    ASSUME AccountsSound, NEW b \in Accounts, NEW w \in Wallets \cup Accounts, ChangeRecovery(b, w)
    PROVE  \E n : Changes(b, n)
  <1> DEFINE r == account[b]
             n == [[r EXCEPT !.recoveryNonce = @ + 1, !.pending = NoPending,
                     !.recoveryAuthority = w]
                    EXCEPT !.deviceNonce = @ + 1]
  <1>1. r \in Storages /\ Sound(b, r)
    BY DEF AccountsSound
  <1>2. r.deviceEpoch # 0 /\ r.recoveryAuthority # None /\ w \in Authorities
    BY <1>1 DEF ChangeRecovery, Administer, HasCode, Storages, Authorities
  <1>3. Sound(b, n)
    BY <1>1, <1>2, ChangeRecoverySound
  <1>4. /\ account' = [account EXCEPT ![b] = n] /\ ended' = ended \cup ({r.pending.id} \ {None})
        /\ spent' = spent \cup {Digest("change_recovery", b, <<r.recoveryAuthority, w>>, r.deviceNonce)}
    BY DEF ChangeRecovery, Administer, End
  <1>5. /\ n.deviceEpoch = r.deviceEpoch /\ n.deviceNonce = r.deviceNonce + 1
        /\ n.recoveryNonce = r.recoveryNonce + 1 /\ n.pending = NoPending
        /\ r.deviceEpoch \in Nat /\ r.deviceNonce \in Nat /\ r.recoveryNonce \in Nat
    BY <1>1 DEF Storages
  <1> HIDE DEF n
  <1>6. Changes(b, n)
    BY <1>3, <1>4, <1>5 DEF Changes, AdminOps
  <1> QED
    BY <1>6

LEMMA CancelChanges ==
    ASSUME AccountsSound, NEW b \in Accounts, CancelRecovery(b)
    PROVE  \E n : Changes(b, n)
  <1> DEFINE r == account[b]
             n == [[r EXCEPT !.pending = NoPending]
                    EXCEPT !.deviceNonce = @ + 1]
  <1>1. r \in Storages /\ Sound(b, r)
    BY DEF AccountsSound
  <1>2. r.deviceEpoch # 0
    BY <1>1 DEF CancelRecovery, Administer, HasCode, Storages
  <1>3. Sound(b, n)
    BY <1>1, <1>2, CancelSound
  <1>4. /\ account' = [account EXCEPT ![b] = n] /\ ended' = ended \cup ({r.pending.id} \ {None})
        /\ spent' = spent \cup {Digest("cancel_recovery", b, <<r.pending.id>>, r.deviceNonce)}
    BY DEF CancelRecovery, Administer, End
  <1>5. /\ n.deviceEpoch = r.deviceEpoch /\ n.deviceNonce = r.deviceNonce + 1
        /\ n.recoveryNonce = r.recoveryNonce /\ n.pending = NoPending
        /\ r.deviceEpoch \in Nat /\ r.deviceNonce \in Nat /\ r.recoveryNonce \in Nat
    BY <1>1 DEF Storages
  <1> HIDE DEF n
  <1>6. Changes(b, n)
    BY <1>3, <1>4, <1>5 DEF Changes, AdminOps
  <1> QED
    BY <1>6

LEMMA InitiateChanges ==
    ASSUME AccountsSound, NEW b \in Accounts, NEW k \in Keys, NEW w \in Wallets \cup Accounts,
           InitiateRecovery(b, k, w)
    PROVE  \E n : Changes(b, n)
  <1> DEFINE r == account[b]
             t == now + RecoveryDelay
             id == Digest("recover", b, <<r.recoveryAuthority, w, k>>, r.recoveryNonce)
             n == [r EXCEPT !.recoveryNonce = @ + 1,
                            !.pending = [id |-> id, current |-> r.recoveryAuthority,
                                         new |-> w, key |-> k, executeAfter |-> t]]
  <1>1. r \in Storages /\ Sound(b, r)
    BY DEF AccountsSound
  <1>2. /\ r.deviceEpoch # 0 /\ r.recoveryAuthority # None /\ w \in Authorities
        /\ t \in 0 .. MaxTime
    BY <1>1, AccountAssumption
       DEF InitiateRecovery, Sound, Governs, Authorities, Fits, AccountsSound
  <1>3. Sound(b, n)
    <2> HIDE DEF id, t
    <2> QED
      BY <1>1, <1>2, InitiateSound DEF id
  <1>4. /\ account' = [account EXCEPT ![b] = n] /\ ended' = ended
        /\ spent' = spent \cup {id}
    BY DEF InitiateRecovery
  <1>5. /\ n.deviceEpoch = r.deviceEpoch /\ n.deviceNonce = r.deviceNonce
        /\ n.recoveryNonce = r.recoveryNonce + 1
        /\ r.deviceEpoch \in Nat /\ r.deviceNonce \in Nat /\ r.recoveryNonce \in Nat
    BY <1>1 DEF Storages
  <1>6. n.pending.id.by = b /\ n.pending.id.nonce = r.recoveryNonce
    BY <1>1 DEF Storages, Digest
  <1> HIDE DEF n
  <1>7. Changes(b, n)
    BY <1>3, <1>4, <1>5, <1>6 DEF Changes
  <1> QED
    BY <1>7

LEMMA FinalizeChanges ==
    ASSUME AccountsSound, NEW b \in Accounts, FinalizeRecovery(b)
    PROVE  \E n : Changes(b, n)
  <1> DEFINE r == account[b]
             n == [r EXCEPT !.pending = NoPending, !.deviceEpoch = @ + 1, !.deviceNonce = @ + 1,
                            !.activeDeviceCount = 1, !.activeAdminCount = 1,
                            !.recoveryAuthority = r.pending.new,
                            !.keyEpoch[r.pending.key] = r.deviceEpoch + 1,
                            !.keyPermissions[r.pending.key] = Permissions]
  <1>1. r \in Storages /\ Sound(b, r)
    BY DEF AccountsSound
  <1>2. r.deviceEpoch # 0 /\ r.pending.id # None
    BY <1>1 DEF FinalizeRecovery, Sound, Governs, NoPending
  <1>3. Sound(b, n)
    BY <1>1, <1>2, FinalizeSound
  <1>4. /\ account' = [account EXCEPT ![b] = n] /\ spent' = spent
        /\ ended' = ended \cup ({r.pending.id} \ {None})
    BY DEF FinalizeRecovery, End
  <1>5. /\ n.deviceEpoch = r.deviceEpoch + 1 /\ n.deviceNonce = r.deviceNonce + 1
        /\ n.recoveryNonce = r.recoveryNonce /\ n.pending = NoPending
        /\ r.deviceEpoch \in Nat /\ r.deviceNonce \in Nat /\ r.recoveryNonce \in Nat
    BY <1>1 DEF Storages
  <1> HIDE DEF n
  <1>6. Changes(b, n)
    BY <1>3, <1>4, <1>5 DEF Changes
  <1> QED
    BY <1>6

LEMMA AccountChanges ==
    ASSUME AccountsSound, NEW b \in Accounts, AccountStep(b)
    PROVE  \E n : Changes(b, n)
  BY CreateChanges, AuthorizeChanges, RevokeChanges, SetRecoveryChanges, ChangeRecoveryChanges,
     CancelChanges, InitiateChanges, FinalizeChanges
  DEF AccountStep


-----------------------------------------------------------------------------
(* The invariant *)

\* What was signed was for a nonce that has passed.
Used(d) ==
    /\ d.nonce \in Nat
    /\ d.op \in AdminOps => d.by \in Accounts /\ d.nonce < account[d.by].deviceNonce
    /\ d.op = "recover" => d.by \in Accounts /\ d.nonce < account[d.by].recoveryNonce
    /\ d.op = "register" => d.by \in Accounts /\ d.nonce < registrationNonces[d.by]
    /\ d.op \in {"append", "transfer"}
          => d.what[1] \in Shots /\ d.nonce < shots[d.what[1]].nonce
    /\ d.op = "open_edition" => d.by \in Accounts /\ d.nonce < editionNonces[d.by]
    /\ d.op = "claim" => d.by \in Accounts /\ d.nonce < claimNonces[d.by]

Fresh == \A d \in spent : Used(d)

\* A recovery that is over was for a nonce that has passed.
EndedOnce ==
    /\ \A e \in ended : /\ e.by \in Accounts /\ e.nonce \in Nat
                        /\ e.nonce < account[e.by].recoveryNonce
    /\ \A b \in Accounts :
          account[b].pending.id # None => account[b].pending.id \notin ended

ShotRecords == [controller : Accounts \cup {None}, head : Heads \cup {None},
                checkpointSequence : Nat, nonce : Nat]

\* A registered Shot has a head, and a controller that is deployed; nothing was
\* signed about another.
Registered ==
    /\ shots \in [Shots -> ShotRecords]
    /\ commitments \in [Commitments -> (0 .. MaxTime) \cup {None}]
    /\ registrationNonces \in [Accounts -> Nat]
    /\ \A s \in Shots : Exists(s) => /\ shots[s].controller \in Accounts
                                     /\ account[shots[s].controller].deviceEpoch # 0
                                     /\ shots[s].head \in Heads
    /\ \A s \in Shots : ~ Exists(s) => shots[s].nonce = 0

Editions == [opened : BOOLEAN, maxClaims : Nat, totalClaims : Nat, closesAt : Nat]
Receipts == [shot : Shots, number : Nat, claimant : Accounts, checkpoint : Heads,
             at : 0 .. MaxTime]

\* Nothing is claimed before the edition is opened, and receipts add up.
Claimed ==
    /\ editions \in [Shots -> Editions]
    /\ claims \in Seq(Receipts)
    /\ claimTokenOf \in [Shots -> [Accounts -> Nat]]
    /\ balances \in [Accounts -> Nat]
    /\ editionNonces \in [Accounts -> Nat] /\ claimNonces \in [Accounts -> Nat]
    /\ \A s \in Shots : ~ editions[s].opened => editions[s].totalClaims = 0
    /\ ClaimsAgree

IInv == AccountsSound /\ EndedOnce /\ Fresh /\ Registered /\ Claimed

\* Nonces never go back.
NoncesGrow ==
    /\ \A b \in Accounts :
          /\ account[b].deviceNonce \in Nat /\ account'[b].deviceNonce \in Nat
          /\ account[b].recoveryNonce \in Nat /\ account'[b].recoveryNonce \in Nat
          /\ registrationNonces[b] \in Nat /\ registrationNonces'[b] \in Nat
          /\ editionNonces[b] \in Nat /\ editionNonces'[b] \in Nat
          /\ claimNonces[b] \in Nat /\ claimNonces'[b] \in Nat
          /\ account[b].deviceNonce <= account'[b].deviceNonce
          /\ account[b].recoveryNonce <= account'[b].recoveryNonce
          /\ registrationNonces[b] <= registrationNonces'[b]
          /\ editionNonces[b] <= editionNonces'[b]
          /\ claimNonces[b] <= claimNonces'[b]
    /\ \A s \in Shots : /\ shots[s].nonce \in Nat /\ shots'[s].nonce \in Nat
                        /\ shots[s].nonce <= shots'[s].nonce

LEMMA UsedStays ==
    ASSUME NoncesGrow, NEW d, Used(d)
    PROVE  Used(d)'
  BY DEF NoncesGrow, Used

\* Something signed for the current nonce is used up by one step.
LEMMA FreshOnce ==
    ASSUME Fresh, NoncesGrow, NEW d, ~ Used(d), Used(d)', spent' = spent \cup {d}
    PROVE  Fresh' /\ spent' # spent
  BY UsedStays DEF Fresh

LEMMA FreshKept ==
    ASSUME Fresh, NoncesGrow, spent' = spent
    PROVE  Fresh'
  BY UsedStays DEF Fresh

\* Nobody has claimed a receipt of a Shot nobody has registered.
LEMMA InitIInv == Init => IInv
  <1> SUFFICES ASSUME Init PROVE IInv
    OBVIOUS
  <1> USE DEF Init, InitAccounts
  <1>1. Undeployed \in Storages
    BY AccountAssumption, NoPendingType DEF Undeployed, Storages
  <1>2. \A b \in Accounts : Sound(b, Undeployed)
    <2>1. KeysOf(Undeployed) = {} /\ AdminsOf(Undeployed) = {}
      BY DEF Undeployed, KeysOf, AdminsOf
    <2>2. /\ Undeployed.activeDeviceCount = 0 /\ Undeployed.activeAdminCount = 0
          /\ \A k \in Keys : Undeployed.keyEpoch[k] <= Undeployed.deviceEpoch
      BY DEF Undeployed
    <2>3. Counts(Undeployed)
      BY <2>1, <2>2, FS_EmptySet DEF Counts
    <2>4. Governs(Undeployed)
      BY DEF Governs, Undeployed
    <2>5. \A b \in Accounts : Recovers(b, Undeployed)
      BY DEF Recovers, Undeployed, NoPending
    <2> QED
      BY <1>1, <2>3, <2>4, <2>5 DEF Sound
  <1>3. AccountsSound
    BY <1>1, <1>2, AccountAssumption DEF AccountsSound
  <1>4. EndedOnce /\ Fresh
    BY DEF EndedOnce, Fresh
  <1>5. Registered
    <2>1. NoShot \in ShotRecords
      BY DEF NoShot, ShotRecords
    <2> QED
      BY <2>1 DEF Registered, Exists, NoShot
  <1>6. Claimed
    <2>1. NoEdition \in Editions
      BY DEF NoEdition, Editions
    <2>2. \A s \in Shots : Tokens(s) = {}
      BY DEF Tokens
    <2>3. \A b \in Accounts : {t \in DOMAIN claims : claims[t].claimant = b} = {}
      OBVIOUS
    <2>4. ClaimsAgree
      <3>1. Cardinality({}) = 0 /\ 1 .. 0 = {}
        BY FS_EmptySet
      <3>2. \A s \in Shots : /\ {claims[t].number : t \in Tokens(s)} = {}
                             /\ \A b \in Accounts :
                                   {t \in Tokens(s) : claims[t].claimant = b} = {}
        BY <2>2
      <3>3. \A s \in Shots : editions[s].totalClaims = 0 /\ editions[s].maxClaims = 0
        BY DEF NoEdition
      <3> QED
        BY <2>2, <2>3, <3>1, <3>2, <3>3 DEF ClaimsAgree
    <2> QED
      BY <2>1, <2>4 DEF Claimed, NoEdition
  <1> QED
    BY <1>3, <1>4, <1>5, <1>6 DEF IInv


\* Parts that a step leaves alone.
LEMMA ClaimedStays == Claimed /\ UNCHANGED claimVars => Claimed'
  <1> SUFFICES ASSUME Claimed, UNCHANGED claimVars PROVE Claimed'
    OBVIOUS
  <1> USE DEF claimVars
  <1>1. \A s \in Shots : Tokens(s)' = Tokens(s)
    BY DEF Tokens
  <1>2. ClaimsAgree'
    BY <1>1 DEF Claimed, ClaimsAgree
  <1> QED
    BY <1>2 DEF Claimed

LEMMA RegisteredStays ==
    ASSUME Registered, UNCHANGED registryVars,
           \A b \in Accounts : account[b].deviceEpoch # 0 => account'[b].deviceEpoch # 0
    PROVE  Registered'
  BY DEF Registered, registryVars, Exists

LEMMA AccountsStay ==
    ASSUME AccountsSound, EndedOnce, UNCHANGED <<account, ended>>, now' \in 0 .. MaxTime
    PROVE  AccountsSound' /\ EndedOnce'
  BY DEF AccountsSound, EndedOnce, Sound, Counts, Governs, Recovers, KeysOf, AdminsOf

\* Each signed action changes the public record once.
Once ==
    \/ spent' # spent
    \/ /\ UNCHANGED <<shots, claimVars>>
       /\ \A b \in Accounts : account'[b].deviceEpoch = account[b].deviceEpoch
                                  => account'[b] = account[b]

\* The steps of an account.
LEMMA AccountKeeps ==
    ASSUME IInv, NEW b \in Accounts, AccountStep(b), UNCHANGED <<now, registryVars, claimVars>>
    PROVE  IInv' /\ Once
  <1>1. AccountsSound /\ EndedOnce /\ Fresh /\ Registered /\ Claimed
    BY DEF IInv
  <1>2. PICK n : Changes(b, n)
    BY <1>1, AccountChanges
  <1> DEFINE r == account[b]
  <1>3. /\ r \in Storages /\ Sound(b, r) /\ account \in [Accounts -> Storages]
        /\ n \in Storages /\ Sound(b, n)
    BY <1>1, <1>2 DEF AccountsSound, Changes, Sound
  <1>4. /\ account' \in [Accounts -> Storages] /\ account'[b] = n
        /\ \A c \in Accounts : c # b => account'[c] = account[c]
    BY <1>2, <1>3 DEF Changes
  <1>5. \A x \in Storages : x.deviceNonce \in Nat /\ x.recoveryNonce \in Nat /\ x.deviceEpoch \in Nat
    BY DEF Storages
  <1>6. AccountsSound'
    <2>1. \A c \in Accounts : Sound(c, account'[c])
      BY <1>1, <1>3, <1>4 DEF AccountsSound
    <2> QED
      BY <1>1, <1>4, <2>1
         DEF AccountsSound, Sound, Counts, Governs, Recovers, KeysOf, AdminsOf
  <1>7. NoncesGrow
    <2>1. /\ n.deviceNonce >= r.deviceNonce /\ n.recoveryNonce >= r.recoveryNonce
      BY <1>2 DEF Changes
    <2>2. \A c \in Accounts : /\ account[c] \in Storages /\ account'[c] \in Storages
                              /\ account[c].deviceNonce <= account'[c].deviceNonce
                              /\ account[c].recoveryNonce <= account'[c].recoveryNonce
      BY <1>3, <1>4, <1>5, <2>1
    <2> QED
      BY <1>1, <1>5, <2>2 DEF NoncesGrow, registryVars, claimVars, Registered, Claimed, ShotRecords
  <1>8. EndedOnce'
    <2> DEFINE p == r.pending.id
    <2>1. p # None => /\ p.by = b /\ p.nonce < r.recoveryNonce /\ p.nonce \in Nat
                      /\ p \notin ended
      BY <1>1, <1>3 DEF EndedOnce, Sound, Recovers, Storages, Pendings
    <2>2. \A e \in ended' : /\ e.by \in Accounts /\ e.nonce \in Nat
                            /\ e.nonce < account[e.by].recoveryNonce
      <3>1. ended' = ended \/ ended' = ended \cup ({p} \ {None})
        BY <1>2 DEF Changes
      <3> HIDE DEF p
      <3> QED
        BY <1>1, <2>1, <3>1 DEF EndedOnce
    <2>3. \A e \in ended' : /\ e.by \in Accounts /\ e.nonce \in Nat
                            /\ e.nonce < account'[e.by].recoveryNonce
      BY <1>7, <2>2 DEF NoncesGrow
    <2>4. ASSUME NEW c \in Accounts, c # b, account'[c].pending.id # None
          PROVE  account'[c].pending.id \notin ended'
      <3>1. account'[c] = account[c] /\ Sound(c, account[c])
        BY <1>1, <1>4, <2>4 DEF AccountsSound
      <3>2. account[c].pending.id.by = c /\ account[c].pending.id \notin ended
        BY <1>1, <2>4, <3>1 DEF Sound, Recovers, EndedOnce
      <3> QED
        BY <1>2, <2>1, <2>4, <3>1, <3>2 DEF Changes
    <2>5. ASSUME n.pending.id # None PROVE n.pending.id \notin ended'
      <3>1. CASE n.pending = r.pending /\ ended' = ended
        BY <2>1, <2>5, <3>1
      <3>2. CASE n.pending = NoPending
        BY <2>5, <3>2 DEF NoPending
      <3>3. CASE /\ n.pending.id.by = b /\ n.pending.id.nonce = r.recoveryNonce
                 /\ ended' = ended
        BY <1>1, <1>3, <1>5, <3>3 DEF EndedOnce
      <3> QED
        BY <1>2, <3>1, <3>2, <3>3 DEF Changes
    <2> QED
      BY <1>4, <2>3, <2>4, <2>5 DEF EndedOnce
  <1>9. Fresh' /\ Once
    <2>1. CASE n.deviceEpoch # r.deviceEpoch /\ spent' = spent
      <3>1. Fresh'
        BY <1>1, <1>7, <2>1, FreshKept
      <3>2. Once
        BY <1>4, <2>1 DEF Once, registryVars, claimVars
      <3> QED
        BY <3>1, <3>2
    <2>2. ASSUME NEW op \in AdminOps, NEW what, n.deviceNonce = r.deviceNonce + 1,
                 spent' = spent \cup {Digest(op, b, what, r.deviceNonce)}
          PROVE  Fresh' /\ spent' # spent
      <3>0. PICK d : d = Digest(op, b, what, r.deviceNonce)
        OBVIOUS
      <3>1. d.op = op /\ d.by = b /\ d.nonce = r.deviceNonce
        BY <3>0 DEF Digest
      <3>2. ~ Used(d)
        BY <1>3, <1>5, <3>1 DEF Used
      <3>3. Used(d)'
        BY <1>3, <1>4, <1>5, <2>2, <3>1 DEF Used, AdminOps
      <3> QED
        BY <1>1, <1>7, <2>2, <3>0, <3>2, <3>3, FreshOnce
    <2>3. ASSUME NEW what, n.recoveryNonce = r.recoveryNonce + 1,
                 spent' = spent \cup {Digest("recover", b, what, r.recoveryNonce)}
          PROVE  Fresh' /\ spent' # spent
      <3>0. PICK d : d = Digest("recover", b, what, r.recoveryNonce)
        OBVIOUS
      <3>1. d.op = "recover" /\ d.by = b /\ d.nonce = r.recoveryNonce
        BY <3>0 DEF Digest
      <3>2. ~ Used(d)
        BY <1>3, <1>5, <3>1 DEF Used
      <3>3. Used(d)'
        BY <1>3, <1>4, <1>5, <2>3, <3>1 DEF Used, AdminOps
      <3> QED
        BY <1>1, <1>7, <2>3, <3>0, <3>2, <3>3, FreshOnce
    <2> QED
      BY <1>2, <2>1, <2>2, <2>3 DEF Changes, Once
  <1>10. Registered'
    <2>1. n.deviceEpoch >= r.deviceEpoch
      BY <1>2 DEF Changes
    <2>2. \A c \in Accounts : account[c].deviceEpoch # 0 => account'[c].deviceEpoch # 0
      BY <1>3, <1>4, <1>5, <2>1
    <2> QED
      BY <1>1, <2>2, RegisteredStays
  <1> QED
    BY <1>1, <1>6, <1>8, <1>9, <1>10, ClaimedStays DEF IInv


\* The steps of the registry and of the claims leave the accounts alone.
LEMMA AccountNonces ==
    ASSUME IInv, UNCHANGED account
    PROVE  \A b \in Accounts :
              /\ account[b].deviceNonce \in Nat /\ account'[b].deviceNonce = account[b].deviceNonce
              /\ account[b].recoveryNonce \in Nat
              /\ account'[b].recoveryNonce = account[b].recoveryNonce
  BY DEF IInv, AccountsSound, Storages

LEMMA TickKeeps ==
    ASSUME IInv, Tick, UNCHANGED <<accountVars, registryVars, claimVars>>
    PROVE  IInv' /\ Once
  <1>1. AccountsSound' /\ EndedOnce'
    BY AccountAssumption, AccountsStay DEF IInv, AccountsSound, accountVars, Tick
  <1>2. NoncesGrow
    BY AccountNonces
       DEF IInv, Registered, Claimed, NoncesGrow, accountVars, registryVars, claimVars, ShotRecords
  <1>3. Fresh' /\ Registered' /\ Claimed'
    BY <1>2, FreshKept, RegisteredStays, ClaimedStays DEF IInv, accountVars
  <1> QED
    BY <1>1, <1>3 DEF IInv, Once, accountVars, registryVars

\* commitShot.
LEMMA CommitKeeps ==
    ASSUME IInv, NEW c \in Commitments, CommitShot(c), UNCHANGED now
    PROVE  IInv' /\ Once
  <1> USE DEF CommitShot, accountVars, claimVars
  <1>1. AccountsSound' /\ EndedOnce'
    BY AccountsStay DEF IInv, AccountsSound
  <1>2. NoncesGrow
    BY AccountNonces DEF IInv, Registered, Claimed, NoncesGrow, ShotRecords
  <1>3. Fresh' /\ Claimed'
    BY <1>2, FreshKept, ClaimedStays DEF IInv
  <1>4. Registered'
    BY DEF IInv, AccountsSound, Registered, Exists
  <1> QED
    BY <1>1, <1>3, <1>4 DEF IInv, Once

\* A step of the registry or of the claims that takes something signed.
LEMMA SignedKeeps ==
    ASSUME IInv, UNCHANGED <<account, ended, now>>, NoncesGrow, Registered', Claimed',
           NEW d, ~ Used(d), Used(d)', spent' = spent \cup {d}
    PROVE  IInv' /\ Once
  <1>1. AccountsSound' /\ EndedOnce'
    BY AccountsStay DEF IInv, AccountsSound
  <1>2. Fresh' /\ spent' # spent
    BY FreshOnce DEF IInv
  <1> QED
    BY <1>1, <1>2 DEF IInv, Once

\* registerShot.
LEMMA RegisterKeeps ==
    ASSUME IInv, NEW c \in Commitments, NEW h \in Heads, RegisterShot(c, h), UNCHANGED now
    PROVE  IInv' /\ Once
  <1> DEFINE s == c.shot
             b == c.controller
             n == [controller |-> b, head |-> h, checkpointSequence |-> 1, nonce |-> 1]
  <1>1. s \in Shots /\ b \in Accounts /\ n \in ShotRecords /\ n.nonce = 1
    BY DEF Commitments, ShotRecords
  <1>2. n.controller = b /\ n.head = h
    OBVIOUS
  <1>3. /\ UNCHANGED <<account, ended>> /\ UNCHANGED claimVars
        /\ account[b].deviceEpoch # 0
        /\ commitments' = [commitments EXCEPT ![c] = None]
        /\ registrationNonces' = [registrationNonces EXCEPT ![b] = @ + 1]
        /\ shots' = [shots EXCEPT ![s] = n] /\ shots[s].controller = None
        /\ spent' = spent \cup {Digest("register", b, <<s, h, c.deadline>>, registrationNonces[b])}
    BY DEF RegisterShot, Sign, HasCode, Exists
  <1> HIDE DEF n, s, b
  <1>4. /\ shots \in [Shots -> ShotRecords] /\ registrationNonces \in [Accounts -> Nat]
        /\ shots[s].nonce = 0 /\ b # None
        /\ \A r \in ShotRecords : r.nonce \in Nat
    BY <1>1, <1>3, AccountAssumption DEF IInv, Registered, Exists, ShotRecords
  <1>5. /\ \A x \in Shots : shots'[x] = IF x = s THEN n ELSE shots[x]
        /\ \A a \in Accounts : registrationNonces'[a]
                                 = IF a = b THEN registrationNonces[a] + 1 ELSE registrationNonces[a]
    BY <1>3, <1>4
  <1>6. Registered'
    BY <1>1, <1>2, <1>3, <1>4, <1>5 DEF IInv, Registered, Exists
  <1>7. Claimed'
    BY <1>3, ClaimedStays DEF IInv
  <1>8. NoncesGrow
    <2>1. \A x \in Shots : /\ shots[x].nonce \in Nat /\ shots'[x].nonce \in Nat
                           /\ shots[x].nonce <= shots'[x].nonce
      BY <1>1, <1>4, <1>5
    <2>2. \A a \in Accounts : /\ registrationNonces[a] \in Nat /\ registrationNonces'[a] \in Nat
                              /\ registrationNonces[a] <= registrationNonces'[a]
      BY <1>4, <1>5
    <2> QED
      BY <1>3, <2>1, <2>2, AccountNonces DEF IInv, Claimed, NoncesGrow, claimVars
  <1>9. PICK d : d = Digest("register", b, <<s, h, c.deadline>>, registrationNonces[b])
    OBVIOUS
  <1>10. d.op = "register" /\ d.by = b /\ d.nonce = registrationNonces[b]
    BY <1>9 DEF Digest
  <1>11. ~ Used(d)
    BY <1>1, <1>4, <1>10 DEF Used
  <1>12. Used(d)'
    BY <1>1, <1>4, <1>5, <1>10 DEF Used, AdminOps
  <1> QED
    BY <1>3, <1>6, <1>7, <1>8, <1>9, <1>11, <1>12, SignedKeeps

\* appendCheckpoint.
LEMMA AppendKeeps ==
    ASSUME IInv, NEW s \in Shots, NEW h \in Heads, AppendCheckpoint(s, h), UNCHANGED now
    PROVE  IInv' /\ Once
  <1> DEFINE r == shots[s]
             what == <<s, r.head, h, r.checkpointSequence + 1>>
             sequence == r.checkpointSequence + 1
             nonce == r.nonce + 1
             n == [r EXCEPT !.head = h, !.checkpointSequence = sequence, !.nonce = nonce]
  <1>1. /\ UNCHANGED <<account, ended>> /\ UNCHANGED claimVars
        /\ UNCHANGED <<commitments, registrationNonces>>
        /\ r.controller # None
        /\ spent' = spent \cup {Digest("append", r.controller, what, r.nonce)}
    BY DEF AppendCheckpoint, Sign, Exists
  <1>2. /\ shots \in [Shots -> ShotRecords] /\ r \in ShotRecords
        /\ \A x \in ShotRecords : x.nonce \in Nat
    BY DEF IInv, Registered, ShotRecords
  <1>3. shots' = [shots EXCEPT ![s] = n]
    BY DEF AppendCheckpoint
  <1>4. n \in ShotRecords /\ n.controller = r.controller /\ n.head = h /\ n.nonce = r.nonce + 1
    <2>1. sequence \in Nat /\ nonce \in Nat /\ nonce = r.nonce + 1
      BY <1>2 DEF ShotRecords
    <2> HIDE DEF sequence, nonce, r
    <2> QED
      BY <1>2, <2>1 DEF ShotRecords
  <1>5. what[1] = s
    OBVIOUS
  <1> HIDE DEF n, what
  <1>6. \A x \in Shots : shots'[x] = IF x = s THEN n ELSE shots[x]
    BY <1>2, <1>3
  <1>7. Registered'
    BY <1>1, <1>2, <1>3, <1>4, <1>6 DEF IInv, Registered, Exists
  <1>8. Claimed'
    BY <1>1, ClaimedStays DEF IInv
  <1>9. NoncesGrow
    <2>1. \A x \in Shots : /\ shots[x].nonce \in Nat /\ shots'[x].nonce \in Nat
                           /\ shots[x].nonce <= shots'[x].nonce
      BY <1>2, <1>4, <1>6
    <2>2. /\ registrationNonces \in [Accounts -> Nat] /\ editionNonces \in [Accounts -> Nat]
          /\ claimNonces \in [Accounts -> Nat]
      BY DEF IInv, Registered, Claimed
    <2> QED
      BY <1>1, <2>1, <2>2, AccountNonces DEF NoncesGrow, claimVars
  <1>10. PICK d : d = Digest("append", r.controller, what, r.nonce)
    OBVIOUS
  <1>11. d.op = "append" /\ d.what[1] = s /\ d.nonce = shots[s].nonce
    BY <1>5, <1>10 DEF Digest
  <1>12. ~ Used(d)
    BY <1>2, <1>11 DEF Used
  <1>13. Used(d)'
    BY <1>2, <1>4, <1>6, <1>11 DEF Used, AdminOps
  <1> QED
    BY <1>1, <1>7, <1>8, <1>9, <1>10, <1>12, <1>13, SignedKeeps

\* transferShot.
LEMMA TransferKeeps ==
    ASSUME IInv, NEW s \in Shots, NEW b \in Accounts, TransferShot(s, b), UNCHANGED now
    PROVE  IInv' /\ Once
  <1> DEFINE r == shots[s]
             what == <<s, b, r.head, r.checkpointSequence>>
             nonce == r.nonce + 1
             n == [r EXCEPT !.controller = b, !.nonce = nonce]
  <1>1. /\ UNCHANGED <<account, ended>> /\ UNCHANGED claimVars
        /\ UNCHANGED <<commitments, registrationNonces>>
        /\ r.controller # None /\ account[b].deviceEpoch # 0
        /\ spent' = spent \cup {Digest("transfer", r.controller, what, r.nonce)}
    BY DEF TransferShot, Sign, Exists, HasCode
  <1>2. /\ shots \in [Shots -> ShotRecords] /\ r \in ShotRecords
        /\ \A x \in ShotRecords : x.nonce \in Nat
        /\ r.head \in Heads
    BY <1>1 DEF IInv, Registered, ShotRecords, Exists
  <1>3. shots' = [shots EXCEPT ![s] = n]
    BY DEF TransferShot
  <1>4. n \in ShotRecords /\ n.controller = b /\ n.head = r.head /\ n.nonce = r.nonce + 1
    <2>1. nonce \in Nat /\ nonce = r.nonce + 1
      BY <1>2
    <2> HIDE DEF nonce, r
    <2> QED
      BY <1>2, <2>1 DEF ShotRecords
  <1>5. what[1] = s
    OBVIOUS
  <1> HIDE DEF n, what
  <1>6. \A x \in Shots : shots'[x] = IF x = s THEN n ELSE shots[x]
    BY <1>2, <1>3
  <1>7. Registered'
    BY <1>1, <1>2, <1>3, <1>4, <1>6, AccountAssumption DEF IInv, Registered, Exists
  <1>8. Claimed'
    BY <1>1, ClaimedStays DEF IInv
  <1>9. NoncesGrow
    <2>1. \A x \in Shots : /\ shots[x].nonce \in Nat /\ shots'[x].nonce \in Nat
                           /\ shots[x].nonce <= shots'[x].nonce
      BY <1>2, <1>4, <1>6
    <2>2. /\ registrationNonces \in [Accounts -> Nat] /\ editionNonces \in [Accounts -> Nat]
          /\ claimNonces \in [Accounts -> Nat]
      BY DEF IInv, Registered, Claimed
    <2> QED
      BY <1>1, <2>1, <2>2, AccountNonces DEF NoncesGrow, claimVars
  <1>10. PICK d : d = Digest("transfer", r.controller, what, r.nonce)
    OBVIOUS
  <1>11. d.op = "transfer" /\ d.what[1] = s /\ d.nonce = shots[s].nonce
    BY <1>5, <1>10 DEF Digest
  <1>12. ~ Used(d)
    BY <1>2, <1>11 DEF Used
  <1>13. Used(d)'
    BY <1>2, <1>4, <1>6, <1>11 DEF Used, AdminOps
  <1> QED
    BY <1>1, <1>7, <1>8, <1>9, <1>10, <1>12, <1>13, SignedKeeps

\* ClaimsAgree, over the numbers, the receipts of an account for a Shot, all
\* receipts of an account, and the times.
Numbers(s) == {claims[t].number : t \in Tokens(s)}
Mine(s, b) == {t \in Tokens(s) : claims[t].claimant = b}
Owned(b) == {t \in DOMAIN claims : claims[t].claimant = b}
Timely(s) == editions[s].closesAt # 0 =>
                \A t \in Tokens(s) : claims[t].at < editions[s].closesAt

LEMMA ReceiptsAddUp ==
    ASSUME ClaimsAgree
    PROVE  /\ \A s \in Shots :
                 /\ Numbers(s) = 1 .. Cardinality(Tokens(s))
                 /\ editions[s].totalClaims = Cardinality(Tokens(s))
                 /\ editions[s].maxClaims # 0 => editions[s].totalClaims <= editions[s].maxClaims
                 /\ Timely(s)
                 /\ \A b \in Accounts : Mine(s, b) = {claimTokenOf[s][b]} \ {0}
           /\ \A b \in Accounts : balances[b] = Cardinality(Owned(b))
  BY DEF ClaimsAgree, Numbers, Mine, Owned, Timely

\* openClaimEdition: nothing was claimed before.
LEMMA OpenKeeps ==
    ASSUME IInv, NEW s \in Shots, NEW p \in Policies, OpenClaimEdition(s, p), UNCHANGED now
    PROVE  IInv' /\ Once
  <1> DEFINE b == shots[s].controller
             what == <<s, p.maxClaims, p.closesAt>>
             n == [opened |-> TRUE, maxClaims |-> p.maxClaims, totalClaims |-> 0,
                   closesAt |-> p.closesAt]
  <1>1. /\ UNCHANGED <<account, ended>> /\ UNCHANGED registryVars
        /\ UNCHANGED <<claims, claimTokenOf, balances, claimNonces>>
        /\ b # None /\ ~ editions[s].opened
        /\ editions' = [editions EXCEPT ![s] = n]
        /\ editionNonces' = [editionNonces EXCEPT ![b] = @ + 1]
        /\ spent' = spent \cup {Digest("open_edition", b, what, editionNonces[b])}
    BY DEF OpenClaimEdition, Sign, Exists
  <1>2. /\ b \in Accounts /\ editions \in [Shots -> Editions]
        /\ registrationNonces \in [Accounts -> Nat] /\ editionNonces \in [Accounts -> Nat]
        /\ claimNonces \in [Accounts -> Nat] /\ shots \in [Shots -> ShotRecords]
        /\ editions[s].totalClaims = 0
    BY <1>1 DEF IInv, Registered, Claimed, Exists
  <1>3. n \in Editions /\ n.opened /\ n.totalClaims = 0 /\ n.maxClaims \in Nat
    BY RegistryAssumption DEF Editions
  <1> HIDE DEF n, what, b
  <1>4. /\ \A x \in Shots : editions'[x] = IF x = s THEN n ELSE editions[x]
        /\ \A a \in Accounts : editionNonces'[a]
                                 = IF a = b THEN editionNonces[a] + 1 ELSE editionNonces[a]
    BY <1>1, <1>2
  <1>5. Registered'
    BY <1>1, RegisteredStays DEF IInv
  <1>6. Claimed'
    <2>1. Claimed
      BY DEF IInv
    <2>2. \A x \in Shots : Tokens(x)' = Tokens(x)
      BY <1>1 DEF Tokens
    <2>3. \A x \in Shots : /\ editions'[x].totalClaims = editions[x].totalClaims
                           /\ x # s => editions'[x] = editions[x]
      BY <1>2, <1>3, <1>4
    <2>4. \A x \in Shots : editions[x].maxClaims # 0
                              => editions[x].totalClaims <= editions[x].maxClaims
      BY <2>1, ReceiptsAddUp DEF Claimed
    <2>5. \A x \in Shots : editions'[x].maxClaims # 0
                              => editions'[x].totalClaims <= editions'[x].maxClaims
      BY <1>2, <1>3, <1>4, <2>4
    <2>6. ClaimsAgree'
      <3>1. \A x \in Shots : /\ Numbers(x)' = Numbers(x)
                             /\ \A a \in Accounts : Mine(x, a)' = Mine(x, a)
        BY <1>1, <2>2 DEF Numbers, Mine
      <3>2. \A a \in Accounts : Owned(a)' = Owned(a)
        BY <1>1 DEF Owned
      <3>3. /\ \A x \in Shots :
                  /\ Numbers(x)' = 1 .. Cardinality(Tokens(x)')
                  /\ editions'[x].totalClaims = Cardinality(Tokens(x)')
                  /\ \A a \in Accounts : Mine(x, a)' = {claimTokenOf'[x][a]} \ {0}
            /\ \A a \in Accounts : balances'[a] = Cardinality(Owned(a)')
        BY <1>1, <2>1, <2>2, <2>3, <3>1, <3>2, ReceiptsAddUp DEF Claimed
      <3>4. Tokens(s) = {}
        <4>1. Cardinality(Tokens(s)) = 0
          BY <1>2, <2>1, ReceiptsAddUp DEF Claimed
        <4>2. DOMAIN claims = 1 .. Len(claims) /\ Len(claims) \in Nat
          BY <2>1 DEF Claimed
        <4>3. IsFiniteSet(Tokens(s))
          <5>1. IsFiniteSet(DOMAIN claims)
            BY <4>2, FS_Interval
          <5>2. Tokens(s) \in SUBSET DOMAIN claims
            BY DEF Tokens
          <5> QED
            BY <5>1, <5>2, FS_Subset
        <4> QED
          BY <4>1, <4>3, FS_EmptySet
      <3>5. ASSUME NEW x \in Shots PROVE Timely(x)'
        <4>1. CASE x = s
          BY <2>2, <3>4, <4>1 DEF Timely
        <4>2. CASE x # s
          BY <1>1, <2>1, <2>2, <2>3, <4>2, ReceiptsAddUp DEF Timely, Claimed
        <4> QED
          BY <4>1, <4>2
      <3> QED
        BY <2>5, <3>3, <3>5 DEF ClaimsAgree, Numbers, Mine, Owned, Timely
    <2> QED
      BY <1>1, <1>2, <1>3, <1>4, <2>1, <2>6 DEF Claimed
  <1>7. NoncesGrow
    <2>1. \A a \in Accounts : /\ editionNonces[a] \in Nat /\ editionNonces'[a] \in Nat
                              /\ editionNonces[a] <= editionNonces'[a]
      BY <1>2, <1>4
    <2> QED
      BY <1>1, <1>2, <2>1, AccountNonces DEF NoncesGrow, registryVars, ShotRecords
  <1>8. PICK d : d = Digest("open_edition", b, what, editionNonces[b])
    OBVIOUS
  <1>9. d.op = "open_edition" /\ d.by = b /\ d.nonce = editionNonces[b]
    BY <1>8 DEF Digest
  <1>10. ~ Used(d)
    BY <1>2, <1>9 DEF Used
  <1>11. Used(d)'
    BY <1>2, <1>4, <1>9 DEF Used, AdminOps
  <1> QED
    BY <1>1, <1>5, <1>6, <1>7, <1>8, <1>10, <1>11, SignedKeeps

\* One receipt more, numbered after the others of its Shot.
LEMMA ReceiptAdded ==
    ASSUME Claimed, NEW s \in Shots, NEW b \in Accounts, NEW r \in Receipts,
           claimTokenOf[s][b] = 0,
           editions[s].maxClaims # 0 => editions[s].totalClaims < editions[s].maxClaims,
           editions[s].closesAt # 0 => r.at < editions[s].closesAt,
           r.shot = s, r.claimant = b, r.number = editions[s].totalClaims + 1,
           claims' = Append(claims, r),
           editions' \in [Shots -> Editions],
           \A x \in Shots : /\ editions'[x].maxClaims = editions[x].maxClaims
                            /\ editions'[x].closesAt = editions[x].closesAt
                            /\ editions'[x].totalClaims
                                 = IF x = s THEN r.number ELSE editions[x].totalClaims,
           \A x \in Shots, a \in Accounts : claimTokenOf'[x][a]
               = IF x = s /\ a = b THEN Len(claims) + 1 ELSE claimTokenOf[x][a],
           \A a \in Accounts : balances'[a] = IF a = b THEN balances[a] + 1 ELSE balances[a]
    PROVE  ClaimsAgree'
  <1> DEFINE t == Len(claims) + 1
  <1>1. /\ claims \in Seq(Receipts) /\ editions \in [Shots -> Editions] /\ ClaimsAgree
        /\ Len(claims) \in Nat /\ DOMAIN claims = 1 .. Len(claims)
        /\ t \in Nat /\ t # 0 /\ t \notin DOMAIN claims
    BY DEF Claimed
  <1>2. /\ DOMAIN claims' = DOMAIN claims \cup {t} /\ claims'[t] = r
        /\ \A u \in DOMAIN claims : claims'[u] = claims[u]
    BY <1>1
  <1>3. \A x \in Shots, a \in Accounts : claimTokenOf'[x][a]
               = IF x = s /\ a = b THEN t ELSE claimTokenOf[x][a]
    OBVIOUS
  <1> HIDE DEF t
  <1>4. /\ \A x \in Shots : x # s => Tokens(x)' = Tokens(x)
        /\ Tokens(s)' = Tokens(s) \cup {t}
        /\ \A x \in Shots : t \notin Tokens(x) /\ Tokens(x) \in SUBSET DOMAIN claims
    BY <1>1, <1>2 DEF Tokens
  <1>5. /\ \A a \in Accounts : a # b => Owned(a)' = Owned(a)
        /\ Owned(b)' = Owned(b) \cup {t} /\ t \notin Owned(b)
        /\ \A a \in Accounts : Owned(a) \in SUBSET DOMAIN claims
    BY <1>1, <1>2 DEF Owned
  <1>6. /\ \A x \in Shots : IsFiniteSet(Tokens(x)) /\ Cardinality(Tokens(x)) \in Nat
        /\ \A a \in Accounts : IsFiniteSet(Owned(a)) /\ Cardinality(Owned(a)) \in Nat
    <2>1. IsFiniteSet(DOMAIN claims)
      BY <1>1, FS_Interval
    <2>2. \A S \in SUBSET DOMAIN claims : IsFiniteSet(S) /\ Cardinality(S) \in Nat
      BY <2>1, FS_Subset, FS_CardinalityType
    <2> QED
      BY <1>4, <1>5, <2>2
  <1>7. /\ Cardinality(Tokens(s) \cup {t}) = Cardinality(Tokens(s)) + 1
        /\ Cardinality(Owned(b) \cup {t}) = Cardinality(Owned(b)) + 1
    BY <1>4, <1>5, <1>6, FS_AddElement
  <1>8. ASSUME NEW x \in Shots PROVE editions'[x].totalClaims = Cardinality(Tokens(x)')
    <2>1. editions[x].totalClaims = Cardinality(Tokens(x))
      BY <1>1, ReceiptsAddUp
    <2>2. CASE x = s
      BY <1>4, <1>7, <2>1, <2>2
    <2>3. CASE x # s
      BY <1>4, <2>1, <2>3
    <2> QED
      BY <2>2, <2>3
  <1>9. \A x \in Shots : editions'[x].maxClaims # 0
                            => editions'[x].totalClaims <= editions'[x].maxClaims
    <2>1. \A x \in Shots :
             /\ editions[x].totalClaims \in Nat /\ editions[x].maxClaims \in Nat
             /\ editions[x].maxClaims # 0
                   => editions[x].totalClaims <= editions[x].maxClaims
      BY <1>1, ReceiptsAddUp DEF Editions
    <2> QED
      BY <2>1
  <1>10. ASSUME NEW a \in Accounts PROVE balances'[a] = Cardinality(Owned(a)')
    <2>1. balances[a] = Cardinality(Owned(a))
      BY <1>1, ReceiptsAddUp
    <2>2. CASE a = b
      BY <1>5, <1>7, <2>1, <2>2
    <2>3. CASE a # b
      BY <1>5, <2>1, <2>3
    <2> QED
      BY <2>2, <2>3
  <1>11. ASSUME NEW x \in Shots, NEW a \in Accounts
         PROVE  Mine(x, a)' = {claimTokenOf'[x][a]} \ {0}
    <2>1. Mine(x, a) = {claimTokenOf[x][a]} \ {0}
      BY <1>1, ReceiptsAddUp
    <2>2. CASE x = s /\ a = b
      <3>1. Mine(x, a)' = Mine(x, a) \cup {t}
        BY <1>2, <1>4, <2>2 DEF Mine
      <3>2. claimTokenOf'[x][a] = t
        BY <1>3, <2>2
      <3> QED
        BY <1>1, <2>1, <2>2, <3>1, <3>2
    <2>3. CASE ~ (x = s /\ a = b)
      <3>1. Mine(x, a)' = Mine(x, a)
        BY <1>2, <1>4, <2>3 DEF Mine
      <3> QED
        BY <1>3, <2>1, <2>3, <3>1
    <2> QED
      BY <2>2, <2>3
  <1>12. ASSUME NEW x \in Shots
         PROVE  Numbers(x)' = 1 .. Cardinality(Tokens(x)')
    <2>1. Numbers(x) = 1 .. Cardinality(Tokens(x))
      BY <1>1, ReceiptsAddUp
    <2>2. CASE x = s
      <3>1. Numbers(s)' = Numbers(s) \cup {r.number}
        BY <1>2, <1>4 DEF Numbers
      <3>2. r.number = Cardinality(Tokens(s)) + 1
        BY <1>1, ReceiptsAddUp
      <3>3. \A m \in Nat : (1 .. m) \cup {m + 1} = 1 .. (m + 1)
        OBVIOUS
      <3>4. Numbers(s)' = 1 .. (Cardinality(Tokens(s)) + 1)
        BY <1>6, <2>1, <2>2, <3>1, <3>2, <3>3
      <3> QED
        BY <1>4, <1>7, <2>2, <3>4
    <2>3. CASE x # s
      <3>1. Numbers(x)' = Numbers(x)
        BY <1>2, <1>4, <2>3 DEF Numbers
      <3> QED
        BY <1>4, <2>1, <2>3, <3>1
    <2> QED
      BY <2>2, <2>3
  <1>13. ASSUME NEW x \in Shots PROVE Timely(x)'
    <2>1. Timely(x)
      BY <1>1, ReceiptsAddUp
    <2>2. CASE x = s
      BY <1>2, <1>4, <2>1, <2>2 DEF Timely
    <2>3. CASE x # s
      BY <1>2, <1>4, <2>1, <2>3 DEF Timely
    <2> QED
      BY <2>2, <2>3
  <1> QED
    BY <1>8, <1>9, <1>10, <1>11, <1>12, <1>13
       DEF ClaimsAgree, Numbers, Mine, Owned, Timely

\* claim.
LEMMA ClaimKeeps ==
    ASSUME IInv, NEW s \in Shots, NEW b \in Accounts, ClaimSoftware(s, b), UNCHANGED now
    PROVE  IInv' /\ Once
  <1> DEFINE number == editions[s].totalClaims + 1
             token == Len(claims) + 1
             h == shots[s].head
             n == [editions[s] EXCEPT !.totalClaims = number]
             r == [shot |-> s, number |-> number, claimant |-> b, checkpoint |-> h,
                   at |-> now]
             tokens == [claimTokenOf[s] EXCEPT ![b] = token]
  <1>1. /\ UNCHANGED <<account, ended>> /\ UNCHANGED registryVars /\ UNCHANGED editionNonces
        /\ shots[s].controller # None /\ editions[s].opened /\ claimTokenOf[s][b] = 0
        /\ ~ (editions[s].maxClaims # 0 /\ editions[s].totalClaims >= editions[s].maxClaims)
        /\ ~ (editions[s].closesAt # 0 /\ now >= editions[s].closesAt)
        /\ editions' = [editions EXCEPT ![s] = n]
        /\ claimNonces' = [claimNonces EXCEPT ![b] = @ + 1]
        /\ claimTokenOf' = [claimTokenOf EXCEPT ![s] = tokens]
        /\ claims' = Append(claims, r)
        /\ balances' = [balances EXCEPT ![b] = @ + 1]
        /\ spent' = spent \cup {Digest("claim", b, <<s, h>>, claimNonces[b])}
    BY DEF ClaimSoftware, Sign, Exists, NotClaimed, EditionIsClosed
  <1>2. /\ editions \in [Shots -> Editions] /\ editions[s] \in Editions
        /\ claims \in Seq(Receipts) /\ claimTokenOf \in [Shots -> [Accounts -> Nat]]
        /\ balances \in [Accounts -> Nat] /\ claimNonces \in [Accounts -> Nat]
        /\ registrationNonces \in [Accounts -> Nat] /\ editionNonces \in [Accounts -> Nat]
        /\ shots \in [Shots -> ShotRecords] /\ h \in Heads
        /\ now \in 0 .. MaxTime
    BY <1>1 DEF IInv, Registered, Claimed, Exists, AccountsSound
  <1>3. number \in Nat /\ number = editions[s].totalClaims + 1 /\ token \in Nat
    BY <1>2 DEF Editions
  <1> HIDE DEF number
  <1>4. /\ n \in Editions /\ n.totalClaims = number /\ n.maxClaims = editions[s].maxClaims
        /\ n.opened /\ n.closesAt = editions[s].closesAt
    BY <1>1, <1>2, <1>3 DEF Editions
  <1>5. /\ r \in Receipts /\ r.shot = s /\ r.claimant = b /\ r.number = number
        /\ r.at = now
    BY <1>2, <1>3 DEF Receipts
  <1>6. /\ tokens \in [Accounts -> Nat]
        /\ \A a \in Accounts : tokens[a] = IF a = b THEN token ELSE claimTokenOf[s][a]
    BY <1>2, <1>3
  <1> HIDE DEF n, r, tokens
  <1>7. /\ \A x \in Shots : editions'[x] = IF x = s THEN n ELSE editions[x]
        /\ \A x \in Shots : claimTokenOf'[x] = IF x = s THEN tokens ELSE claimTokenOf[x]
        /\ \A a \in Accounts : balances'[a] = IF a = b THEN balances[a] + 1 ELSE balances[a]
        /\ \A a \in Accounts : claimNonces'[a]
                                 = IF a = b THEN claimNonces[a] + 1 ELSE claimNonces[a]
        /\ editions' \in [Shots -> Editions]
    BY <1>1, <1>2, <1>4
  <1>8. Registered'
    BY <1>1, RegisteredStays DEF IInv
  <1>9. Claimed'
    <2>1. Claimed
      BY DEF IInv
    <2>2. \A x \in Shots : /\ editions'[x].maxClaims = editions[x].maxClaims
                           /\ editions'[x].closesAt = editions[x].closesAt
                           /\ editions'[x].totalClaims
                                = IF x = s THEN r.number ELSE editions[x].totalClaims
      BY <1>4, <1>5, <1>7
    <2>3. \A x \in Shots, a \in Accounts : claimTokenOf'[x][a]
               = IF x = s /\ a = b THEN token ELSE claimTokenOf[x][a]
      BY <1>6, <1>7
    <2>4. editions[s].maxClaims # 0 => editions[s].totalClaims < editions[s].maxClaims
      BY <1>1, <1>2 DEF Editions
    <2>5. editions[s].closesAt # 0 => r.at < editions[s].closesAt
      BY <1>1, <1>2, <1>5, AccountAssumption DEF Editions
    <2>6. ClaimsAgree'
      BY <1>1, <1>3, <1>5, <1>7, <2>1, <2>2, <2>3, <2>4, <2>5, ReceiptAdded
    <2>7. claims' \in Seq(Receipts)
      BY <1>1, <1>2, <1>5
    <2>8. /\ claimTokenOf' \in [Shots -> [Accounts -> Nat]]
          /\ balances' \in [Accounts -> Nat]
          /\ claimNonces' \in [Accounts -> Nat]
      BY <1>1, <1>2, <1>6
    <2>9. \A x \in Shots : ~ editions'[x].opened => editions'[x].totalClaims = 0
      BY <1>4, <1>7, <2>1 DEF Claimed
    <2> QED
      BY <1>1, <1>2, <1>7, <2>6, <2>7, <2>8, <2>9 DEF Claimed
  <1>10. NoncesGrow
    <2>1. \A a \in Accounts : /\ claimNonces[a] \in Nat /\ claimNonces'[a] \in Nat
                              /\ claimNonces[a] <= claimNonces'[a]
      <3>1. \A m \in Nat : m <= m /\ m <= m + 1 /\ m + 1 \in Nat
        OBVIOUS
      <3>2. claimNonces \in [Accounts -> Nat]
        BY <1>2
      <3>3. claimNonces' = [claimNonces EXCEPT ![b] = claimNonces[b] + 1]
        BY <1>1
      <3> QED
        BY <3>1, <3>2, <3>3
    <2>2. \A x \in Shots : shots[x].nonce \in Nat /\ shots'[x].nonce = shots[x].nonce
      BY <1>1, <1>2 DEF registryVars, ShotRecords
    <2>3. /\ registrationNonces \in [Accounts -> Nat] /\ registrationNonces' = registrationNonces
          /\ editionNonces \in [Accounts -> Nat] /\ editionNonces' = editionNonces
      BY <1>1, <1>2 DEF registryVars
    <2>4. UNCHANGED account
      BY <1>1
    <2> QED
      BY <2>1, <2>2, <2>3, <2>4, AccountNonces DEF NoncesGrow
  <1>11. PICK d : d = Digest("claim", b, <<s, h>>, claimNonces[b])
    OBVIOUS
  <1>12. d.op = "claim" /\ d.by = b /\ d.nonce = claimNonces[b]
    BY <1>11 DEF Digest
  <1>13. ~ Used(d)
    BY <1>2, <1>12 DEF Used
  <1>14. Used(d)'
    BY <1>2, <1>7, <1>12 DEF Used, AdminOps
  <1> QED
    BY <1>1, <1>8, <1>9, <1>10, <1>11, <1>13, <1>14, SignedKeeps

-----------------------------------------------------------------------------
(* Every step *)

LEMMA StepIInv == IInv /\ [Next]_vars => IInv' /\ (UNCHANGED vars \/ Once)
  <1> SUFFICES ASSUME IInv, [Next]_vars PROVE IInv' /\ (UNCHANGED vars \/ Once)
    OBVIOUS
  <1>1. CASE UNCHANGED vars
    <2>1. /\ UNCHANGED <<account, ended, now>> /\ UNCHANGED registryVars
          /\ UNCHANGED claimVars /\ spent' = spent
      BY <1>1 DEF vars
    <2>2. AccountsSound' /\ EndedOnce'
      BY <2>1, AccountsStay DEF IInv, AccountsSound
    <2>3. NoncesGrow
      <3>1. \A x \in Shots : shots[x].nonce \in Nat /\ shots'[x].nonce = shots[x].nonce
        BY <2>1 DEF IInv, Registered, registryVars, ShotRecords
      <3>2. /\ registrationNonces \in [Accounts -> Nat] /\ registrationNonces' = registrationNonces
            /\ editionNonces \in [Accounts -> Nat] /\ editionNonces' = editionNonces
            /\ claimNonces \in [Accounts -> Nat] /\ claimNonces' = claimNonces
        BY <2>1 DEF IInv, Registered, Claimed, registryVars, claimVars
      <3>3. UNCHANGED account
        BY <2>1
      <3> QED
        BY <3>1, <3>2, <3>3, AccountNonces DEF NoncesGrow
    <2>4. Fresh' /\ Registered' /\ Claimed'
      BY <2>1, <2>3, FreshKept, RegisteredStays, ClaimedStays DEF IInv
    <2> QED
      BY <1>1, <2>2, <2>4 DEF IInv
  <1>2. CASE (\E b \in Accounts : AccountStep(b)) /\ UNCHANGED <<now, registryVars, claimVars>>
    BY <1>2, AccountKeeps
  <1>3. CASE Tick /\ UNCHANGED <<accountVars, registryVars, claimVars>>
    BY <1>3, TickKeeps
  <1>4. CASE (\E c \in Commitments : CommitShot(c)) /\ UNCHANGED now
    BY <1>4, CommitKeeps
  <1>5. CASE (\E c \in Commitments, h \in Heads : RegisterShot(c, h)) /\ UNCHANGED now
    BY <1>5, RegisterKeeps
  <1>6. CASE (\E s \in Shots, h \in Heads : AppendCheckpoint(s, h)) /\ UNCHANGED now
    BY <1>6, AppendKeeps
  <1>7. CASE (\E s \in Shots, b \in Accounts : TransferShot(s, b)) /\ UNCHANGED now
    BY <1>7, TransferKeeps
  <1>8. CASE (\E s \in Shots, b \in Accounts : ClaimSoftware(s, b)) /\ UNCHANGED now
    BY <1>8, ClaimKeeps
  <1>9. CASE (\E s \in Shots, p \in Policies : OpenClaimEdition(s, p)) /\ UNCHANGED now
    BY <1>9, OpenKeeps
  <1> QED
    BY <1>1, <1>2, <1>3, <1>4, <1>5, <1>6, <1>7, <1>8, <1>9 DEF Next

\* Every part of the invariant holds in every reachable state.
LEMMA AlwaysIInv == Spec => []IInv
  BY InitIInv, StepIInv, PTL DEF Spec

\* No account of the contracts loses its last device, or its last administrator
\* with nobody left who could appoint one, whatever is authorized, revoked and
\* recovered in whatever order: BuilderAccount checks counters, and the counters
\* count. The controller of a Shot is one of those accounts.
THEOREM Governable == Spec => []AlwaysGovernable
  <1>1. IInv => AlwaysGovernable
    <2> SUFFICES ASSUME IInv PROVE AlwaysGovernable
      OBVIOUS
    <2>1. \A b \in Accounts : /\ account[b] \in Storages /\ Counts(account[b])
                              /\ Governs(account[b])
                              /\ Authorized(b) = KeysOf(account[b])
                              /\ Admins(b) = AdminsOf(account[b])
      BY DEF IInv, AccountsSound, Sound, Authorized, Admins, KeysOf, AdminsOf,
             IsAuthorizedKey, HasPermission
    <2>2. CountersCount
      BY <2>1 DEF CountersCount, Counts
    <2>3. ASSUME NEW b \in Accounts, HasCode(b)
          PROVE  /\ Authorized(b) # {}
                 /\ Admins(b) # {} \/ account[b].recoveryAuthority # None
      <3>1. account[b].deviceEpoch # 0
        BY <2>1, <2>3 DEF HasCode, Storages
      <3>2. /\ account[b].activeDeviceCount # 0
            /\ account[b].activeAdminCount # 0 \/ account[b].recoveryAuthority # None
        BY <2>1, <3>1 DEF Governs
      <3>3. /\ Authorized(b) = {} => account[b].activeDeviceCount = 0
            /\ Admins(b) = {} => account[b].activeAdminCount = 0
        BY <2>2, FS_EmptySet DEF CountersCount
      <3> QED
        BY <3>2, <3>3
    <2>4. \A s \in Shots : Exists(s) => HasCode(shots[s].controller)
      BY <2>1 DEF IInv, Registered, HasCode, Storages
    <2>5. TypeOK
      <3>1. \A b \in Accounts :
              /\ account[b].deviceEpoch \in Nat /\ account[b].deviceNonce \in Nat
              /\ account[b].activeDeviceCount \in Nat /\ account[b].activeAdminCount \in Nat
              /\ account[b].recoveryAuthority \in Wallets \cup Accounts \cup {None}
              /\ account[b].pending.executeAfter \in 0 .. MaxTime
        BY <2>1 DEF Storages, Pendings, Authorities
      <3> QED
        BY <3>1 DEF TypeOK, IInv, AccountsSound, Registered, Claimed, ShotRecords, Editions, Receipts
    <2> QED
      BY <2>2, <2>3, <2>4, <2>5 DEF AlwaysGovernable
  <1> QED
    BY <1>1, AlwaysIInv, PTL

\* A pending recovery is the approval of the authority in force, and one that was
\* vetoed, replaced or completed never comes back: recoveryNonce has passed it.
THEOREM RecoveriesAreCurrent == Spec => []PendingIsCurrent
  <1>1. IInv => PendingIsCurrent
    BY DEF IInv, AccountsSound, Sound, Recovers, EndedOnce, PendingIsCurrent
  <1> QED
    BY <1>1, AlwaysIInv, PTL

\* The receipts of TohsenoClaimsV1 add up, by Shot and by account, stay within
\* the supply of their edition and were given before it closed.
THEOREM ReceiptsAgree == Spec => []ClaimsAgree
  <1>1. IInv => ClaimsAgree
    BY DEF IInv, Claimed
  <1> QED
    BY <1>1, AlwaysIInv, PTL

\* Whatever is submitted again, a signed action changes the public record once.
THEOREM SignedActionsApplyOnce == Spec => SignedOnce
  <1>1. IInv /\ [Next]_vars => [Once]_vars
    BY StepIInv
  <1> QED
    BY <1>1, AlwaysIInv, PTL DEF Spec, SignedOnce, Once

=============================================================================
