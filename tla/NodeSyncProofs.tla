--------------------------- MODULE NodeSyncProofs ---------------------------
(***************************************************************************)
(* Proofs about nodes that preserve lineage actions, for every set of       *)
(* nodes, peers and actions and every shape of ancestry: the verdicts kept  *)
(* while actions arrive are those of a rebuild, what was acknowledged is    *)
(* still held, and a verdict once reached is not taken back.                *)
(***************************************************************************)
EXTENDS NodeSync, FiniteSetTheorems, TLAPS

-----------------------------------------------------------------------------
(* The branch *)

\* Ancestry, in the form the proofs use.
LEMMA AncestryFacts ==
    ASSUME NEW a \in Actions
    PROVE  /\ Ancestors[a] \subseteq Actions /\ a \notin Ancestors[a]
           /\ IsFiniteSet(Ancestors[a])
           /\ Parent[a] = None => Ancestors[a] = {}
           /\ Parent[a] # None => /\ Parent[a] \in Actions /\ Parent[a] \in Ancestors[a]
                                  /\ Ancestors[a] = {Parent[a]} \cup Ancestors[Parent[a]]
           /\ \A b \in Ancestors[a] : Ancestors[b] \subseteq Ancestors[a]
           /\ \A b, c \in Ancestors[a] \cup {a} :
                 b = c \/ b \in Ancestors[c] \/ c \in Ancestors[b]
  BY ConstantsAssumption DEF Chain

\* A branch is a finite part of the lineage of its action, which it contains.
LEMMA BranchFacts ==
    ASSUME NEW S, NEW a \in Actions
    PROVE  /\ Branch(S, a) \subseteq Ancestors[a] \cup {a}
           /\ Branch(S, a) \subseteq Actions
           /\ a \in Branch(S, a)
           /\ Branch(S, a) \ {a} \subseteq S
           /\ IsFiniteSet(Branch(S, a))
           /\ Cardinality(Branch(S, a)) \in Nat
  <1>1. /\ Branch(S, a) \subseteq Ancestors[a] \cup {a}
        /\ Branch(S, a) \subseteq Actions
        /\ a \in Branch(S, a)
    BY AncestryFacts DEF Branch
  <1>2. Branch(S, a) \ {a} \subseteq S
    BY AncestryFacts DEF Branch
  <1>3. IsFiniteSet(Ancestors[a] \cup {a})
    BY AncestryFacts, FS_AddElement
  <1>4. IsFiniteSet(Branch(S, a))
    BY <1>1, <1>3, FS_Subset
  <1> QED
    BY <1>1, <1>2, <1>4, FS_CardinalityType

\* A branch only grows with the set of held actions.
LEMMA BranchGrows ==
    ASSUME NEW S, NEW T, S \subseteq T, NEW a \in Actions
    PROVE  Branch(S, a) \subseteq Branch(T, a)
  BY DEF Branch

\* An action that a branch does not reach leaves it as it was.
LEMMA BranchUnreached ==
    ASSUME NEW S, NEW r \in Actions, NEW a \in Actions, r \notin Branch(S \cup {r}, a)
    PROVE  Branch(S \cup {r}, a) = Branch(S, a)
  <1>1. Branch(S, a) \subseteq Branch(S \cup {r}, a)
    BY BranchGrows
  <1>2. ASSUME NEW x \in Branch(S \cup {r}, a) PROVE x \in Branch(S, a)
    <2>1. x \in Ancestors[a] \cup {a} /\ x \in Actions
      BY BranchFacts
    <2>2. SUFFICES ASSUME NEW c \in Ancestors[a], c \notin S, c \notin Ancestors[x]
                   PROVE  FALSE
      BY <2>1 DEF Branch
    <2>3. c = r
      BY <1>2, <2>2 DEF Branch
    <2>4. PICK d \in Ancestors[a] : d \notin S \cup {r} /\ d \notin Ancestors[r]
      BY <2>2, <2>3 DEF Branch
    <2>5. d \in Ancestors[x]
      BY <1>2, <2>4 DEF Branch
    <2>6. r \in Ancestors[d]
      BY <2>2, <2>3, <2>4, AncestryFacts
    <2> QED
      BY <2>1, <2>2, <2>3, <2>5, <2>6, AncestryFacts
  <1> QED
    BY <1>1, <1>2

\* A branch has exactly one first action, the one whose predecessor is not in
\* it, and every other action of it is preceded.
LEMMA FirstExists ==
    ASSUME NEW S, NEW a \in Actions
    PROVE  \E b \in Branch(S, a) : Parent[b] \notin Branch(S, a)
  <1> DEFINE B == Branch(S, a)
             Sizes == {Cardinality(Ancestors[b]) : b \in B}
  <1>1. B \subseteq Actions /\ a \in B
    BY BranchFacts
  <1>2. Sizes \subseteq Nat /\ Sizes # {}
    BY <1>1, AncestryFacts, FS_CardinalityType
  <1>3. PICK m \in Sizes : \A k \in Sizes : <<k, m>> \notin OpToRel(<, Nat)
    BY <1>2, NatLessThanWellFounded, WFMin
  <1>4. PICK b \in B : m = Cardinality(Ancestors[b])
    OBVIOUS
  <1>5. SUFFICES ASSUME Parent[b] \in B PROVE FALSE
    OBVIOUS
  <1>6. Parent[b] # None /\ Parent[b] \in Actions /\ b \in Actions
    BY <1>1, <1>5, ConstantsAssumption
  <1>7. /\ Ancestors[b] = Ancestors[Parent[b]] \cup {Parent[b]}
        /\ Parent[b] \notin Ancestors[Parent[b]]
        /\ IsFiniteSet(Ancestors[Parent[b]])
    BY <1>6, AncestryFacts
  <1>8. Cardinality(Ancestors[b]) = Cardinality(Ancestors[Parent[b]]) + 1
    BY <1>7, FS_AddElement
  <1>9. Cardinality(Ancestors[Parent[b]]) \in Sizes
    BY <1>5
  <1> HIDE DEF Sizes
  <1>10. \A j, k \in Nat : j < k => <<j, k>> \in OpToRel(<, Nat)
    BY DEF OpToRel
  <1>11. Cardinality(Ancestors[Parent[b]]) \in Nat /\ m \in Nat
    BY <1>2, <1>9
  <1>12. Cardinality(Ancestors[Parent[b]]) < m
    BY <1>4, <1>8, <1>11
  <1> QED
    BY <1>3, <1>9, <1>10, <1>11, <1>12

LEMMA FirstUnique ==
    ASSUME NEW S, NEW a \in Actions, NEW b \in Branch(S, a), NEW c \in Branch(S, a),
           Parent[b] \notin Branch(S, a), Parent[c] \notin Branch(S, a)
    PROVE  b = c
  <1>1. /\ b \in Actions /\ c \in Actions
        /\ b \in Ancestors[a] \cup {a} /\ c \in Ancestors[a] \cup {a}
    BY BranchFacts
  <1>2. ASSUME NEW x \in Branch(S, a), NEW y \in Branch(S, a), x \in Ancestors[y]
        PROVE  Parent[y] \in Branch(S, a)
    <2>1. x \in Actions /\ y \in Actions /\ y \in Ancestors[a] \cup {a}
      BY BranchFacts
    <2>2. /\ Parent[y] # None /\ Parent[y] \in Actions
          /\ Ancestors[y] = {Parent[y]} \cup Ancestors[Parent[y]]
      BY <1>2, <2>1, AncestryFacts
    <2>3. Parent[y] \in Ancestors[a]
      BY <2>1, <2>2, AncestryFacts
    <2>4. CASE x = Parent[y]
      BY <2>4
    <2>5. CASE x \in Ancestors[Parent[y]]
      <3>1. Ancestors[x] \subseteq Ancestors[Parent[y]]
        BY <2>2, <2>5, AncestryFacts
      <3> QED
        BY <2>3, <3>1 DEF Branch
    <2> QED
      BY <1>2, <2>2, <2>4, <2>5
  <1> QED
    BY <1>1, <1>2, AncestryFacts

-----------------------------------------------------------------------------
(* The verdict *)

First(B) == CHOOSE b \in B : Parent[b] \notin B

LEMMA FirstFacts ==
    ASSUME NEW S, NEW a \in Actions
    PROVE  LET B == Branch(S, a)
           IN  /\ First(B) \in B /\ First(B) \in Actions
               /\ Parent[First(B)] \notin B
               /\ Parent[First(B)] \in Actions \cup {None}
               /\ \A b \in B : b # First(B) => Parent[b] \in B
  <1> DEFINE B == Branch(S, a)
  <1>1. First(B) \in B /\ Parent[First(B)] \notin B
    BY FirstExists DEF First
  <1>2. First(B) \in Actions /\ Parent[First(B)] \in Actions \cup {None}
    BY <1>1, BranchFacts, ConstantsAssumption
  <1>3. \A b \in B : b # First(B) => Parent[b] \in B
    BY <1>1, FirstUnique
  <1> QED
    BY <1>1, <1>2, <1>3

\* A branch is refused when it is too long, when two neighbours do not fit, when
\* it begins at sequence 1 after a predecessor, or when the complete lineage
\* does not reduce; it is open only while its predecessor is missing.
TooLong(B) ==
    \/ Cardinality(B) > ShotLimit
    \/ Cardinality(B) = ShotLimit /\ Parent[First(B)] # None
Broken(B) == \E b \in B \ {First(B)} : ~ Adjacent(b)
Reduces(B) == Sequence[First(B)] = 1 /\ B \cap Unauthorized = {}

LEMMA JudgeCases ==
    ASSUME NEW B
    PROVE  /\ TooLong(B) \/ Broken(B) => Judge(B).verdict = "rejected"
           /\ ~ TooLong(B) /\ ~ Broken(B) /\ Parent[First(B)] # None
                 => Judge(B).verdict = (IF Sequence[First(B)] = 1 THEN "rejected" ELSE "unresolved")
           /\ ~ TooLong(B) /\ ~ Broken(B) /\ Parent[First(B)] = None
                 => Judge(B).verdict = (IF Reduces(B) THEN "verified" ELSE "rejected")
           /\ Judge(B).missing \in {None, Parent[First(B)]}
  BY DEF Judge, Verdict, TooLong, Broken, Reduces, First

LEMMA JudgeType ==
    ASSUME NEW S, NEW a \in Actions
    PROVE  /\ Classify(S, a) \in Verdicts
           /\ Classify(S, a) # Absent
           /\ Classify(S, a).verdict \in {"unresolved", "verified", "rejected"}
  <1> DEFINE f == First(Branch(S, a))
  <1>1. Parent[f] \in Actions \cup {None}
    BY FirstFacts
  <1>2. \E v \in {"unresolved", "verified", "rejected"} : \E m \in {None, Parent[f]} :
            Classify(S, a) = Verdict(v, m)
    BY DEF Classify, Judge, First
  <1> QED
    BY <1>1, <1>2 DEF Verdict, Verdicts, Absent

\* A verdict other than unresolved does not depend on what is held besides.
LEMMA VerdictStays ==
    ASSUME NEW S, NEW T, S \subseteq T, T \subseteq Public, NEW a \in Actions,
           Classify(S, a).verdict # "unresolved"
    PROVE  Classify(T, a).verdict = Classify(S, a).verdict
  <1> DEFINE B == Branch(S, a)
             C == Branch(T, a)
             f == First(B)
             g == First(C)
  <1>1. B \subseteq C
    BY BranchGrows
  <1>2. /\ Cardinality(B) \in Nat /\ Cardinality(C) \in Nat
        /\ Cardinality(B) <= Cardinality(C)
        /\ Cardinality(C) = Cardinality(B) => C = B
    BY <1>1, BranchFacts, FS_Subset
  <1>3. /\ f \in B /\ f \in Actions /\ Parent[f] \notin B
        /\ \A b \in B : b # f => Parent[b] \in B
    BY FirstFacts
  <1>4. /\ g \in C /\ Parent[g] \notin C
        /\ \A b \in C : b # g => Parent[b] \in C
    BY FirstFacts
  <1>5. Classify(S, a) = Judge(B) /\ Classify(T, a) = Judge(C)
    BY DEF Classify
  <1> HIDE DEF B, C
  <1>6. CASE C = B
    BY <1>5, <1>6
  <1>7. CASE TooLong(B) /\ C # B
    <2>1. TooLong(C)
      BY <1>2, <1>7, ConstantsAssumption DEF TooLong
    <2> QED
      BY <1>5, <1>7, <2>1, JudgeCases
  <1>8. CASE Broken(B)
    <2>1. PICK b \in B \ {f} : ~ Adjacent(b)
      BY <1>8 DEF Broken
    <2>2. b \in C /\ b # g
      BY <1>1, <1>3, <1>4, <2>1
    <2>3. Broken(C)
      BY <2>1, <2>2 DEF Broken
    <2> QED
      BY <1>5, <1>8, <2>3, JudgeCases
  <1>9. CASE ~ TooLong(B) /\ ~ Broken(B) /\ Parent[f] # None
    <2>1. Judge(B).verdict = "rejected" /\ Sequence[f] = 1
      BY <1>5, <1>9, JudgeCases
    <2>2. CASE g = f
      BY <1>5, <1>9, <2>1, <2>2, JudgeCases
    <2>3. CASE g # f
      <3>1. f \in C /\ Parent[f] \in C /\ Parent[f] \in Actions
        BY <1>1, <1>3, <1>4, <1>9, <2>3, ConstantsAssumption
      <3>2. Parent[f] # a
        <4>1. a \in B
          BY BranchFacts DEF B
        <4> QED
          BY <1>3, <4>1
      <3>3. Parent[f] \in Public
        BY <3>1, <3>2, BranchFacts DEF C
      <3>4. Sequence[Parent[f]] \in Nat /\ Sequence[Parent[f]] > 0
        BY <3>1, <3>3, ConstantsAssumption
      <3>5. ~ Adjacent(f)
        BY <2>1, <3>4 DEF Adjacent
      <3>6. Broken(C)
        BY <2>3, <3>1, <3>5 DEF Broken
      <3> QED
        BY <1>5, <2>1, <3>6, JudgeCases
    <2> QED
      BY <2>2, <2>3
  <1>10. CASE Parent[f] = None /\ C # B
    <2>1. Ancestors[f] = {}
      BY <1>3, <1>10, AncestryFacts
    <2>2. Ancestors[a] \subseteq S
      BY <1>3, <2>1 DEF B, Branch
    <2>3. C = B
      BY <2>2 DEF B, C, Branch
    <2> QED
      BY <1>10, <2>3
  <1> QED
    BY <1>6, <1>7, <1>8, <1>9, <1>10

\* What the index becomes when an action is added to what a node holds.
LEMMA ReclassifyAdds ==
    ASSUME NEW S \in SUBSET Actions, NEW r \in Actions, r \notin S,
           NEW old \in [Actions -> Verdicts],
           \A a \in S : old[a] = Classify(S, a),
           \A a \in Actions : a \notin S => old[a] = Absent
    PROVE  /\ Reclassify(old, S \cup {r}, r) \in [Actions -> Verdicts]
           /\ \A a \in S \cup {r} :
                 Reclassify(old, S \cup {r}, r)[a] = Classify(S \cup {r}, a)
           /\ \A a \in Actions :
                 a \notin S \cup {r} => Reclassify(old, S \cup {r}, r)[a] = Absent
  <1> DEFINE T == S \cup {r}
             new == Reclassify(old, T, r)
  <1>1. new \in [Actions -> Verdicts]
    BY JudgeType DEF Reclassify
  <1>2. ASSUME NEW a \in T PROVE new[a] = Classify(T, a)
    <2>1. a \in Actions
      OBVIOUS
    <2>2. CASE r \in Branch(T, a)
      BY <2>1, <2>2 DEF Reclassify
    <2>3. CASE r \notin Branch(T, a)
      <3>1. a # r
        BY <2>1, <2>3, BranchFacts
      <3>2. Classify(T, a) = Classify(S, a)
        BY <2>1, <2>3, BranchUnreached DEF Classify
      <3> QED
        BY <2>1, <2>3, <3>1, <3>2 DEF Reclassify
    <2> QED
      BY <2>2, <2>3
  <1>3. \A a \in Actions : a \notin T => new[a] = Absent
    BY DEF Reclassify
  <1> QED
    BY <1>1, <1>2, <1>3

-----------------------------------------------------------------------------
(* The files *)

\* A rebuild keeps every file of a Shot that is not over the limit.
LEMMA KeptAll ==
    ASSUME NEW S \in SUBSET Actions, IsFiniteSet(S),
           \A a \in S : Cardinality(InShot(S, ShotOf[a])) <= ShotLimit
    PROVE  Kept(S) = S
  <1> SUFFICES ASSUME NEW a \in S
               PROVE  Cardinality({b \in InShot(S, ShotOf[a]) : Before(b, a)}) < ShotLimit
    BY DEF Kept
  <1> DEFINE All == InShot(S, ShotOf[a])
             Some == {b \in All : Before(b, a)}
  <1>1. IsFiniteSet(All) /\ a \in All
    BY FS_Subset DEF InShot
  <1>2. a \notin Some
    BY ConstantsAssumption DEF Before
  <1>3. Some \in SUBSET All /\ Some # All
    BY <1>1, <1>2
  <1>4. Cardinality(Some) <= Cardinality(All) /\ Cardinality(Some) # Cardinality(All)
        /\ IsFiniteSet(Some)
    BY <1>1, <1>3, FS_Subset
  <1>5. Cardinality(Some) \in Nat /\ Cardinality(All) \in Nat /\ Cardinality(All) <= ShotLimit
    BY <1>1, <1>4, FS_CardinalityType
  <1> QED
    BY <1>4, <1>5, ConstantsAssumption

\* What a rebuild derives.
LEMMA ScanFacts ==
    ASSUME NEW S \in SUBSET Actions
    PROVE  /\ Scan(S) \in [Actions -> Verdicts]
           /\ Kept(S) \subseteq S
           /\ \A a \in Kept(S) : Scan(S)[a] = Classify(Kept(S), a)
           /\ \A a \in Actions : Scan(S)[a] # Absent <=> a \in Kept(S)
  <1>1. Absent \in Verdicts
    BY DEF Absent, Verdicts
  <1>2. Kept(S) \subseteq S
    BY DEF Kept
  <1> QED
    BY <1>1, <1>2, JudgeType DEF Scan

-----------------------------------------------------------------------------
(* The invariant *)

\* A node holds files it accepted, its index is what a rebuild of the same
\* actions derives, and what it acknowledged is a file of its own.
Faithful(n) ==
    /\ IsFiniteSet(files[n])
    /\ Held(n) \subseteq files[n] /\ files[n] \subseteq Public
    /\ acked[n] \subseteq files[n]
    /\ acked[n] \subseteq Held(n) \/ Overfull(n)
    /\ \A a \in Held(n) : index[n][a] = Classify(Held(n), a)

Stored ==
    /\ files \in [Nodes -> SUBSET Actions]
    /\ index \in [Nodes -> [Actions -> Verdicts]]
    /\ acked \in [Nodes -> SUBSET Actions]
    /\ \A n \in Nodes : Faithful(n)

SyncEntries == [peer : Nodes \cup {None}, shots : SUBSET {ShotOf[a] : a \in Actions},
                refs : SUBSET Actions]

\* The pulls are well formed.
Syncs == sync \in [Nodes -> SyncEntries] /\ faults \in 0 .. MaxFaults

NodeInv == Stored /\ Syncs

LEMMA InitNodeInv == Init => NodeInv
  <1> SUFFICES ASSUME Init PROVE NodeInv
    OBVIOUS
  <1>1. Absent \in Verdicts
    BY DEF Absent, Verdicts
  <1>2. \A n \in Nodes : Held(n) = {}
    BY DEF Init, Held
  <1> QED
    BY <1>1, <1>2, FS_EmptySet, ConstantsAssumption
       DEF Init, NodeInv, Stored, Syncs, SyncEntries, Faithful, Idle

\* A Shot over its limit stays over it: files are never removed.
LEMMA OverfullStays ==
    ASSUME NEW n \in Nodes, files[n] \subseteq files'[n], IsFiniteSet(files'[n]), Overfull(n)
    PROVE  Overfull(n)'
  <1>1. PICK s \in {ShotOf[a] : a \in Actions} : Cardinality(InShot(files[n], s)) > ShotLimit
    BY DEF Overfull
  <1>2. InShot(files[n], s) \in SUBSET InShot(files'[n], s)
    BY DEF InShot
  <1>3. IsFiniteSet(InShot(files'[n], s))
    BY FS_Subset DEF InShot
  <1>4. /\ Cardinality(InShot(files[n], s)) <= Cardinality(InShot(files'[n], s))
        /\ Cardinality(InShot(files[n], s)) \in Nat /\ Cardinality(InShot(files'[n], s)) \in Nat
    BY <1>2, <1>3, FS_Subset, FS_CardinalityType
  <1>5. Cardinality(InShot(files'[n], s)) > ShotLimit
    BY <1>1, <1>4, ConstantsAssumption
  <1>6. InShot(files'[n], s) = InShot(files[n], s)'
    BY DEF InShot
  <1> QED
    BY <1>5, <1>6 DEF Overfull

\* A step that leaves a node's files, index and acknowledgements alone.
LEMMA NodeUntouched ==
    ASSUME Stored, NEW n \in Nodes, files'[n] = files[n], index'[n] = index[n],
           acked'[n] = acked[n]
    PROVE  Faithful(n)' /\ Held(n)' = Held(n)
  <1>1. Held(n)' = Held(n)
    BY DEF Held
  <1>2. Overfull(n) => Overfull(n)'
    BY OverfullStays DEF Stored, Faithful
  <1>3. Faithful(n)
    BY DEF Stored
  <1>4. /\ IsFiniteSet(files'[n]) /\ Held(n)' \subseteq files'[n] /\ files'[n] \subseteq Public
        /\ acked'[n] \subseteq files'[n] /\ (acked'[n] \subseteq Held(n)' \/ Overfull(n)')
    BY <1>1, <1>2, <1>3 DEF Faithful
  <1>5. \A a \in Held(n)' : index'[n][a] = Classify(Held(n), a)'
    BY <1>1, <1>3 DEF Faithful, Classify, Branch
  <1> QED
    BY <1>1, <1>4, <1>5 DEF Faithful

\* ingest keeps the node faithful.
LEMMA StoreKeeps ==
    ASSUME Stored, NEW n \in Nodes, NEW a \in Actions, a \notin Held(n), a \in Public,
           Store(n, a)
    PROVE  Stored' /\ Held(n)' = Held(n) \cup {a}
  <1> DEFINE H == Held(n)
             T == H \cup {a}
             new == Reclassify(index[n], T, a)
  <1>1. /\ H \in SUBSET Actions /\ index[n] \in [Actions -> Verdicts] /\ Faithful(n)
        /\ \A b \in Actions : b \notin H => index[n][b] = Absent
        /\ \A b \in H : index[n][b] = Classify(H, b)
    BY DEF Stored, Held, Faithful
  <1> HIDE DEF H
  <1>2. /\ new \in [Actions -> Verdicts]
        /\ \A b \in T : new[b] = Classify(T, b)
        /\ \A b \in Actions : b \notin T => new[b] = Absent
    <2>1. a \notin H
      BY DEF H
    <2> QED
      <3> DEFINE old == index[n]
      <3>1. /\ old \in [Actions -> Verdicts]
            /\ \A b \in H : old[b] = Classify(H, b)
            /\ \A b \in Actions : b \notin H => old[b] = Absent
        BY <1>1
      <3> HIDE DEF old
      <3>2. /\ Reclassify(old, H \cup {a}, a) \in [Actions -> Verdicts]
            /\ \A b \in H \cup {a} :
                  Reclassify(old, H \cup {a}, a)[b] = Classify(H \cup {a}, b)
            /\ \A b \in Actions :
                  b \notin H \cup {a} => Reclassify(old, H \cup {a}, a)[b] = Absent
        BY <1>1, <2>1, <3>1, ReclassifyAdds
      <3> QED
        BY <3>2 DEF old
  <1> HIDE DEF new
  <1>3. index'[n] = new /\ files'[n] = files[n] \cup {a} /\ acked'[n] = acked[n] \cup {a}
    BY DEF Store, Stored, new, H
  <1>4. /\ files' \in [Nodes -> SUBSET Actions] /\ acked' \in [Nodes -> SUBSET Actions]
        /\ index' \in [Nodes -> [Actions -> Verdicts]]
        /\ \A m \in Nodes : m # n => /\ index'[m] = index[m] /\ files'[m] = files[m]
                                     /\ acked'[m] = acked[m]
    BY <1>2 DEF Store, Stored, new, H
  <1>5. Held(n)' = T
    <2>1. \A b \in T : Classify(T, b) # Absent
      BY <1>1, JudgeType
    <2> QED
      BY <1>1, <1>2, <1>3, <2>1 DEF Held
  <1>6. IsFiniteSet(files'[n])
    <2>1. IsFiniteSet(files[n])
      BY <1>1 DEF Faithful
    <2> QED
      BY <1>3, <2>1, FS_AddElement
  <1>7. acked'[n] \subseteq T \/ Overfull(n)'
    BY <1>1, <1>3, <1>6, OverfullStays DEF Faithful, H
  <1>8. Faithful(n)'
    BY <1>1, <1>2, <1>3, <1>5, <1>6, <1>7 DEF Faithful, H, Classify, Branch
  <1>9. \A m \in Nodes : m # n => Faithful(m)'
    BY <1>4, NodeUntouched
  <1> QED
    BY <1>4, <1>5, <1>8, <1>9 DEF Stored, H

\* open and rebuild read the files again.
LEMMA ScanKeeps ==
    ASSUME Stored, NEW n \in Nodes, index' = [index EXCEPT ![n] = Scan(files[n])],
           UNCHANGED <<files, acked>>
    PROVE  /\ Stored'
           /\ Overfull(n) \/ Held(n)' = files[n]
  <1> DEFINE F == files[n]
  <1>1. F \in SUBSET Actions /\ Faithful(n) /\ IsFiniteSet(F)
    BY DEF Stored, Faithful
  <1>2. index'[n] = Scan(F) /\ \A m \in Nodes : m # n => index'[m] = index[m]
    BY DEF Stored
  <1> HIDE DEF F
  <1>3. /\ Scan(F) \in [Actions -> Verdicts] /\ Kept(F) \subseteq F
        /\ \A a \in Kept(F) : Scan(F)[a] = Classify(Kept(F), a)
        /\ \A a \in Actions : Scan(F)[a] # Absent <=> a \in Kept(F)
    BY <1>1, ScanFacts
  <1>4. Held(n)' = Kept(F)
    BY <1>1, <1>2, <1>3 DEF Held
  <1>5. ASSUME ~ Overfull(n) PROVE Kept(F) = F
    <2>1. \A a \in F : Cardinality(InShot(F, ShotOf[a])) <= ShotLimit
      <3> SUFFICES ASSUME NEW a \in F PROVE Cardinality(InShot(F, ShotOf[a])) <= ShotLimit
        OBVIOUS
      <3>1. ~ (Cardinality(InShot(F, ShotOf[a])) > ShotLimit)
        BY <1>1, <1>5 DEF Overfull, F
      <3>2. IsFiniteSet(InShot(F, ShotOf[a]))
        BY <1>1, FS_Subset DEF InShot
      <3> QED
        BY <3>1, <3>2, FS_CardinalityType, ConstantsAssumption
    <2> QED
      BY <1>1, <2>1, KeptAll
  <1>6. Overfull(n)' <=> Overfull(n)
    BY DEF Overfull, InShot
  <1>7. /\ IsFiniteSet(files'[n]) /\ Held(n)' \subseteq files'[n] /\ files'[n] \subseteq Public
        /\ acked'[n] \subseteq files'[n] /\ (acked'[n] \subseteq Held(n)' \/ Overfull(n)')
    BY <1>1, <1>3, <1>4, <1>5, <1>6 DEF Faithful, F
  <1>8. \A a \in Held(n)' : index'[n][a] = Classify(Held(n), a)'
    BY <1>2, <1>3, <1>4 DEF Classify, Branch
  <1>9. Faithful(n)'
    BY <1>7, <1>8 DEF Faithful
  <1>10. \A m \in Nodes : m # n => Faithful(m)'
    BY <1>2, NodeUntouched
  <1>11. index' \in [Nodes -> [Actions -> Verdicts]]
    BY <1>3 DEF Stored, F
  <1> QED
    BY <1>4, <1>5, <1>9, <1>10, <1>11 DEF Stored, F

\* A file that is linked while the client is refused.
LEMMA FileKeeps ==
    ASSUME Stored, NEW n \in Nodes, NEW a \in Public,
           files' = [files EXCEPT ![n] = @ \cup {a}], UNCHANGED <<index, acked>>
    PROVE  Stored' /\ \A m \in Nodes : Held(m)' = Held(m)
  <1>1. \A m \in Nodes : Held(m)' = Held(m)
    BY DEF Held
  <1>2. /\ files' \in [Nodes -> SUBSET Actions] /\ files'[n] = files[n] \cup {a}
        /\ \A m \in Nodes : m # n => files'[m] = files[m]
    BY ConstantsAssumption DEF Stored
  <1>3. Faithful(n) /\ IsFiniteSet(files[n])
    BY DEF Stored, Faithful
  <1>4. IsFiniteSet(files'[n])
    BY <1>2, <1>3, FS_AddElement
  <1>5. Overfull(n) => Overfull(n)'
    BY <1>2, <1>4, OverfullStays
  <1>6. /\ Held(n)' \subseteq files'[n] /\ files'[n] \subseteq Public
        /\ acked'[n] \subseteq files'[n] /\ (acked'[n] \subseteq Held(n)' \/ Overfull(n)')
    BY <1>1, <1>2, <1>3, <1>5 DEF Faithful
  <1>7. \A b \in Held(n)' : index'[n][b] = Classify(Held(n), b)'
    BY <1>1, <1>3 DEF Faithful, Classify, Branch
  <1>8. Faithful(n)'
    BY <1>4, <1>6, <1>7 DEF Faithful
  <1>9. \A m \in Nodes : m # n => Faithful(m)'
    BY <1>2, NodeUntouched
  <1> QED
    BY <1>1, <1>2, <1>8, <1>9 DEF Stored

\* A step that touches no store.
LEMMA StoresUntouched ==
    ASSUME Stored, UNCHANGED <<files, index, acked>>
    PROVE  Stored' /\ \A n \in Nodes : Held(n)' = Held(n)
  <1>1. \A n \in Nodes : Faithful(n)' /\ Held(n)' = Held(n)
    BY NodeUntouched
  <1> QED
    BY <1>1 DEF Stored

\* What a node holds is not lost, except where a rebuild leaves out the end of
\* a Shot over its limit.
Retains == \A n \in Nodes : Held(n) \subseteq Held(n)' \/ Overfull(n)

LEMMA StoreRetains ==
    ASSUME Stored, NEW n \in Nodes, NEW a \in Actions, a \notin Held(n), Admits(Held(n), a),
           Store(n, a)
    PROVE  Stored' /\ Retains
  <1>1. Stored' /\ Held(n)' = Held(n) \cup {a}
    BY StoreKeeps DEF Admits
  <1>2. \A m \in Nodes : m # n => Held(m)' = Held(m)
    BY DEF Store, Stored, Held
  <1> QED
    BY <1>1, <1>2 DEF Retains

LEMMA ScanRetains ==
    ASSUME Stored, NEW n \in Nodes, index' = [index EXCEPT ![n] = Scan(files[n])],
           UNCHANGED <<files, acked>>
    PROVE  Stored' /\ Retains
  <1>1. Stored' /\ (Overfull(n) \/ Held(n)' = files[n])
    BY ScanKeeps
  <1>2. \A m \in Nodes : m # n => Held(m)' = Held(m)
    BY DEF Stored, Held
  <1>3. Held(n) \subseteq files[n]
    BY DEF Stored, Faithful
  <1> QED
    BY <1>1, <1>2, <1>3 DEF Retains

\* A pull that ends, and one that is done with a reference.
LEMMA SyncIdle ==
    ASSUME Syncs, NEW n \in Nodes, sync' = [sync EXCEPT ![n] = Idle]
    PROVE  sync' \in [Nodes -> SyncEntries]
  <1>1. Idle \in SyncEntries
    BY DEF Idle, SyncEntries
  <1> QED
    BY <1>1 DEF Syncs

LEMMA SyncAdvances ==
    ASSUME Syncs, NEW n \in Nodes, NEW a, Advance(n, a)
    PROVE  sync' \in [Nodes -> SyncEntries]
  <1> DEFINE r == [sync[n] EXCEPT !.refs = @ \ {a}]
  <1>1. sync[n] \in SyncEntries
    BY DEF Syncs
  <1>2. r \in SyncEntries
    BY <1>1 DEF SyncEntries
  <1>3. sync' = [sync EXCEPT ![n] = r]
    BY DEF Advance
  <1> HIDE DEF r
  <1> QED
    BY <1>2, <1>3 DEF Syncs

\* Each step preserves the invariant and retains what is held.
LEMMA StepNodeInv == NodeInv /\ [Next]_vars => NodeInv' /\ Retains
  <1> SUFFICES ASSUME NodeInv, [Next]_vars PROVE NodeInv' /\ Retains
    OBVIOUS
  <1>1. Stored /\ Syncs
    BY DEF NodeInv
  <1>a. ASSUME UNCHANGED <<files, index, acked>> PROVE Stored' /\ Retains
    BY <1>1, <1>a, StoresUntouched DEF Retains
  <1>2. ASSUME NEW n \in Nodes, NEW a \in Actions, Ingest(n, a)
        PROVE  NodeInv' /\ Retains
    <2>1. Syncs'
      BY <1>1, <1>2 DEF Ingest, Syncs
    <2>2. Stored' /\ Retains
      BY <1>1, <1>2, StoreRetains DEF Ingest
    <2> QED
      BY <2>1, <2>2 DEF NodeInv
  <1>3. ASSUME NEW n \in Nodes, NEW a \in Actions, IngestUnsynced(n, a)
        PROVE  NodeInv' /\ Retains
    <2>1. Syncs'
      BY <1>1, <1>3, ConstantsAssumption DEF IngestUnsynced, Syncs
    <2>2. a \in Public
      BY <1>3 DEF IngestUnsynced, Admits
    <2>3. Stored' /\ \A m \in Nodes : Held(m)' = Held(m)
      BY <1>1, <1>3, <2>2, FileKeeps DEF IngestUnsynced
    <2> QED
      BY <2>1, <2>3 DEF NodeInv, Retains
  <1>4. ASSUME NEW n \in Nodes, Restart(n)
        PROVE  NodeInv' /\ Retains
    <2>1. Syncs'
      <3>1. sync' \in [Nodes -> SyncEntries]
        BY <1>1, <1>4, SyncIdle DEF Restart
      <3> QED
        BY <1>1, <1>4, <3>1, ConstantsAssumption DEF Restart, Syncs
    <2>2. Stored' /\ Retains
      BY <1>1, <1>4, ScanRetains DEF Restart
    <2> QED
      BY <2>1, <2>2 DEF NodeInv
  <1>5. ASSUME NEW n \in Nodes, Rebuild(n)
        PROVE  NodeInv' /\ Retains
    <2>1. Syncs'
      BY <1>1, <1>5 DEF Rebuild, Syncs
    <2>2. Stored' /\ Retains
      BY <1>1, <1>5, ScanRetains DEF Rebuild
    <2> QED
      BY <2>1, <2>2 DEF NodeInv
  <1>6. ASSUME NEW n \in Nodes, NEW m \in Peers[n], BeginSync(n, m)
        PROVE  NodeInv' /\ Retains
    <2> DEFINE r == [peer |-> m, shots |-> {ShotOf[a] : a \in Held(m)}, refs |-> {}]
    <2>1. m \in Nodes /\ Held(m) \subseteq Actions
      BY ConstantsAssumption DEF Held
    <2>2. r \in SyncEntries
      BY <2>1 DEF SyncEntries
    <2>3. sync' = [sync EXCEPT ![n] = r] /\ UNCHANGED <<files, index, faults, acked>>
      BY <1>6 DEF BeginSync
    <2> HIDE DEF r
    <2>4. Syncs'
      BY <1>1, <2>2, <2>3 DEF Syncs
    <2> QED
      BY <1>a, <2>3, <2>4 DEF NodeInv
  <1>7. ASSUME NEW n \in Nodes, FetchShot(n)
        PROVE  NodeInv' /\ Retains
    <2>1. PICK s \in sync[n].shots :
             LET view == InShot(Held(sync[n].peer), s)
             IN  sync' = [sync EXCEPT ![n] =
                            IF view = {} THEN Idle
                            ELSE [sync[n] EXCEPT !.shots = @ \ {s}, !.refs = view]]
      BY <1>7 DEF FetchShot
    <2> DEFINE v == InShot(Held(sync[n].peer), s)
               r == [sync[n] EXCEPT !.shots = @ \ {s}, !.refs = v]
    <2>2. v \subseteq Actions /\ sync[n] \in SyncEntries
      BY <1>1 DEF InShot, Held, Syncs
    <2>3. sync' = [sync EXCEPT ![n] = Idle] \/ sync' = [sync EXCEPT ![n] = r]
      <3>1. CASE v = {}
        BY <2>1, <3>1
      <3>2. CASE v # {}
        BY <2>1, <3>2
      <3> QED
        BY <3>1, <3>2
    <2> HIDE DEF v
    <2>4. r \in SyncEntries
      BY <2>2 DEF SyncEntries
    <2> HIDE DEF r
    <2>5. UNCHANGED <<files, index, faults, acked>>
      BY <1>7 DEF FetchShot
    <2>6. Syncs'
      <3>1. CASE sync' = [sync EXCEPT ![n] = Idle]
        BY <1>1, <2>5, <3>1, SyncIdle DEF Syncs
      <3>2. CASE sync' = [sync EXCEPT ![n] = r]
        BY <1>1, <2>4, <2>5, <3>2 DEF Syncs
      <3> QED
        BY <2>3, <3>1, <3>2
    <2> QED
      BY <1>a, <2>5, <2>6 DEF NodeInv
  <1>8. ASSUME NEW n \in Nodes, FetchAction(n)
        PROVE  NodeInv' /\ Retains
    <2>1. PICK a \in sync[n].refs : FetchReference(n, a)
      BY <1>8 DEF FetchAction
    <2>2. a \in Actions /\ UNCHANGED faults
      BY <1>1, <1>8 DEF FetchAction, Syncs, SyncEntries
    <2>3. CASE Advance(n, a) /\ UNCHANGED <<files, index, acked>>
      BY <1>1, <1>a, <2>2, <2>3, SyncAdvances DEF NodeInv, Syncs
    <2>4. CASE a \notin Held(n) /\ Admits(Held(n), a) /\ Store(n, a) /\ Advance(n, a)
      <3>1. Stored' /\ Retains
        BY <1>1, <2>2, <2>4, StoreRetains
      <3>2. Syncs'
        BY <1>1, <2>2, <2>4, SyncAdvances DEF Syncs
      <3> QED
        BY <3>1, <3>2 DEF NodeInv
    <2>5. CASE Abandon(n) /\ UNCHANGED <<files, index, acked>>
      BY <1>1, <1>a, <2>2, <2>5, SyncIdle DEF NodeInv, Abandon, Syncs
    <2> QED
      BY <2>1, <2>3, <2>4, <2>5 DEF FetchReference
  <1>9. ASSUME NEW n \in Nodes, EndSync(n) \/ FailSync(n)
        PROVE  NodeInv' /\ Retains
    <2>1. sync' \in [Nodes -> SyncEntries] /\ UNCHANGED <<files, index, acked>>
      BY <1>1, <1>9, SyncIdle DEF EndSync, FailSync, Abandon
    <2>2. Syncs'
      BY <1>1, <1>9, <2>1, ConstantsAssumption DEF EndSync, FailSync, Syncs
    <2> QED
      BY <1>a, <2>1, <2>2 DEF NodeInv
  <1>10. ASSUME UNCHANGED vars PROVE NodeInv' /\ Retains
    <2>1. Syncs'
      BY <1>1, <1>10 DEF vars, Syncs
    <2> QED
      BY <1>a, <1>10, <2>1 DEF vars, NodeInv
  <1> QED
    BY <1>2, <1>3, <1>4, <1>5, <1>6, <1>7, <1>8, <1>9, <1>10 DEF Next, Pull

\* THEOREM 1.  The verdicts a node maintains while actions arrive, in any order
\* and through restarts, are those that a rebuild derives from the same actions
\* (add_stored and reclassify_descendants against scan_index).
THEOREM VerdictsAreRebuilt == Spec => []ClassifiedAsRebuilt
  <1>1. NodeInv => ClassifiedAsRebuilt
    BY DEF NodeInv, Stored, Syncs, SyncEntries, Faithful, ClassifiedAsRebuilt, TypeOK
  <1>2. NodeInv /\ [Next]_vars => NodeInv'
    BY StepNodeInv
  <1> QED
    BY <1>1, <1>2, InitNodeInv, PTL DEF Spec

\* THEOREM 2.  What a node has reported as held is held, unless files that were
\* never reported filled the Shot (ingest, open, rebuild).
THEOREM AcknowledgementsStay == Spec => []AcknowledgedStays
  <1>1. NodeInv => AcknowledgedStays
    BY DEF NodeInv, Stored, Faithful, AcknowledgedStays
  <1>2. NodeInv /\ [Next]_vars => NodeInv'
    BY StepNodeInv
  <1> QED
    BY <1>1, <1>2, InitNodeInv, PTL DEF Spec

\* THEOREM 3.  A verdict other than unresolved is final: neither what arrives
\* later nor a restart or a rebuild changes it, unless the Shot is over its
\* limit (classify).
THEOREM VerdictsStay == Spec => VerdictsAreFinal
  <1> DEFINE Final == \A n \in Nodes : \A a \in Held(n) :
                          index[n][a].verdict # "unresolved"
                              => index'[n][a].verdict = index[n][a].verdict \/ Overfull(n)
  <1>1. NodeInv /\ NodeInv' /\ Retains => Final
    <2> SUFFICES ASSUME NodeInv, NodeInv', Retains, NEW n \in Nodes, NEW a \in Held(n),
                        index[n][a].verdict # "unresolved", ~ Overfull(n)
                 PROVE  index'[n][a].verdict = index[n][a].verdict
      OBVIOUS
    <2>1. /\ Held(n) \subseteq Held(n)' /\ Held(n)' \subseteq Public
          /\ a \in Actions /\ index[n][a] = Classify(Held(n), a)
      BY DEF Retains, NodeInv, Stored, Faithful, Held
    <2>2. index'[n][a] = Classify(Held(n)', a)
      BY <2>1 DEF NodeInv, Stored, Faithful, Classify, Branch
    <2> QED
      BY <2>1, <2>2, VerdictStays
  <1>2. NodeInv /\ [Next]_vars => NodeInv' /\ [Final]_vars
    BY <1>1, StepNodeInv
  <1> QED
    BY <1>2, InitNodeInv, PTL DEF Spec, VerdictsAreFinal

=============================================================================
