------------------------------ MODULE NodeSync ------------------------------
(***************************************************************************)
(* Nodes that preserve public lineage actions (node/src/store.rs) and pull  *)
(* from the peers they are configured with (node/src/sync.rs).              *)
(*                                                                         *)
(* An action names its predecessor by digest, so ancestry is a fixed chain. *)
(* Actions arrive in any order: one whose predecessor is missing is kept as *)
(* unresolved, and the descendants of a late one are classified again.      *)
(* Files are append-only; the index is a cache that a restart rebuilds.     *)
(***************************************************************************)
EXTENDS Integers, FiniteSets

CONSTANTS
    None,
    Nodes,
    Peers,          \* the peers each node is configured with
    Actions,
    Parent,         \* previous: the predecessor of an action, or None
    Ancestors,      \* the actions that following previous leads to
    ShotOf,         \* shot_id, a number: Shots are pulled in order
    Sequence,       \* the sequence an action claims
    Rank,           \* its place in the order of sequence, then digest
    Unordered,      \* actions whose timestamp precedes their predecessor's
    Unauthorized,   \* actions at which reduce_lineage fails
    Public,         \* actions that parse_public accepts: none has sequence 0
    ShotLimit,      \* MAX_ACTIONS_PER_SHOT
    MaxFaults       \* bound on failed requests, failed syncs of a directory, restarts

\* Digests make ancestry a chain that ends.
Chain ==
    /\ \A a \in Actions :
          /\ a \notin Ancestors[a]
          /\ Ancestors[a] = IF Parent[a] = None THEN {}
                            ELSE {Parent[a]} \cup Ancestors[Parent[a]]
          /\ \A b \in Ancestors[a] : Ancestors[b] \subseteq Ancestors[a]
          /\ IsFiniteSet(Ancestors[a])
    /\ \A a \in Actions : \A b, c \in Ancestors[a] \cup {a} :
          b = c \/ b \in Ancestors[c] \/ c \in Ancestors[b]

ASSUME ConstantsAssumption ==
    /\ Peers \in [Nodes -> SUBSET Nodes] /\ None \notin Nodes
    /\ Parent \in [Actions -> Actions \cup {None}] /\ None \notin Actions
    /\ Ancestors \in [Actions -> SUBSET Actions]
    /\ ShotOf \in [Actions -> Nat] /\ Sequence \in [Actions -> Nat]
    /\ Rank \in [Actions -> Nat]
    /\ \A a, b \in Actions :
          /\ Rank[a] = Rank[b] => a = b
          /\ Sequence[a] < Sequence[b] => Rank[a] < Rank[b]
    /\ Unordered \cup Unauthorized \cup Public \subseteq Actions
    /\ \A a \in Public : Sequence[a] > 0
    /\ ShotLimit \in Nat \ {0} /\ MaxFaults \in Nat
    /\ Chain

VARIABLES
    files,      \* actions/: what each node has on disk
    index,      \* the verdict a node holds on an action, or Absent
    sync,       \* the pull a node is in
    faults,     \* bound
    acked       \* history: the actions a node has reported as held

vars == <<files, index, sync, faults, acked>>

Absent == [verdict |-> "absent", missing |-> None]
Verdicts == [verdict : {"absent", "unresolved", "verified", "rejected"},
             missing : Actions \cup {None}]
Idle == [peer |-> None, shots |-> {}, refs |-> {}]

Held(n) == {a \in Actions : index[n][a] # Absent}
InShot(set, s) == {a \in set : ShotOf[a] = s}

Init ==
    /\ files = [n \in Nodes |-> {}]
    /\ index = [n \in Nodes |-> [a \in Actions |-> Absent]]
    /\ sync = [n \in Nodes |-> Idle]
    /\ faults = 0
    /\ acked = [n \in Nodes |-> {}]

-----------------------------------------------------------------------------
(* Classification *)

\* The branch classify walks: the ancestors of a that are held without a gap.
Branch(set, a) ==
    {b \in Ancestors[a] \cup {a} :
        \A c \in Ancestors[a] : c \in set \/ c \in Ancestors[b]}

\* verify_lineage_segment between an action and the predecessor before it.
Adjacent(b) ==
    /\ ShotOf[b] = ShotOf[Parent[b]]
    /\ Sequence[b] = Sequence[Parent[b]] + 1
    /\ b \notin Unordered

Verdict(v, m) == [verdict |-> v, missing |-> m]

\* The segment alone decides.
JudgeSegment(branch) ==
    IF \E b \in branch : Parent[b] \in branch /\ ~ Adjacent(b)
    THEN Verdict("rejected", None) ELSE Verdict("verified", None)

Judge(branch) ==
    LET first == CHOOSE b \in branch : Parent[b] \notin branch
    IN  IF \/ Cardinality(branch) > ShotLimit
           \/ Cardinality(branch) = ShotLimit /\ Parent[first] # None
        THEN Verdict("rejected", None)
        ELSE IF \E b \in branch \ {first} : ~ Adjacent(b)
        THEN Verdict("rejected", Parent[first])
        ELSE IF Parent[first] # None
        THEN Verdict(IF Sequence[first] = 1 THEN "rejected" ELSE "unresolved",
                     Parent[first])
        ELSE Verdict(IF Sequence[first] = 1 /\ branch \cap Unauthorized = {}
                     THEN "verified" ELSE "rejected", None)

\* classify
Classify(set, a) == Judge(Branch(set, a))

\* Only the children of the new action.
ReclassifyChildren(old, set, root) ==
    [a \in Actions |->
        IF a \in set /\ (a = root \/ Parent[a] = root) THEN Classify(set, a) ELSE old[a]]

\* add_stored and reclassify_descendants: the new action and everything held
\* that reaches it through held children.
Reclassify(old, set, root) ==
    [a \in Actions |->
        IF a \in set /\ root \in Branch(set, a) THEN Classify(set, a) ELSE old[a]]

-----------------------------------------------------------------------------
(* Ingestion *)

Full(set, a) == Cardinality(InShot(set, ShotOf[a])) >= ShotLimit

\* reject_known_invalid, after the limits.
Admits(set, a) ==
    /\ a \in Public
    /\ ~ Full(set, a)
    /\ Classify(set, a).verdict # "rejected"

Store(n, a) ==
    /\ files' = [files EXCEPT ![n] = @ \cup {a}]
    /\ index' = [index EXCEPT ![n] = Reclassify(@, Held(n) \cup {a}, a)]
    /\ acked' = [acked EXCEPT ![n] = @ \cup {a}]

\* ingest, by a client.
Ingest(n, a) ==
    /\ a \notin Held(n)
    /\ Admits(Held(n), a)
    /\ Store(n, a)
    /\ UNCHANGED <<sync, faults>>

\* create_new_atomic linked the file and failed to sync its directory: the
\* client is refused, the file stays.
IngestUnsynced(n, a) ==
    /\ a \notin Held(n)
    /\ Admits(Held(n), a)
    /\ faults < MaxFaults
    /\ faults' = faults + 1
    /\ files' = [files EXCEPT ![n] = @ \cup {a}]
    /\ UNCHANGED <<index, sync, acked>>

-----------------------------------------------------------------------------
(* Rebuilding *)

Before(a, b) == Rank[a] < Rank[b]

\* The action that reaches the limit is left out.
KeptBelow(set) ==
    {a \in set :
        Cardinality({b \in InShot(set, ShotOf[a]) : Before(b, a)}) < ShotLimit - 1}

\* scan_index keeps the first files of a Shot up to the limit.
Kept(set) ==
    {a \in set :
        Cardinality({b \in InShot(set, ShotOf[a]) : Before(b, a)}) < ShotLimit}

Scan(set) ==
    [a \in Actions |-> IF a \in Kept(set) THEN Classify(Kept(set), a) ELSE Absent]

\* open, after the process stopped.
Restart(n) ==
    /\ faults < MaxFaults
    /\ faults' = faults + 1
    /\ index' = [index EXCEPT ![n] = Scan(files[n])]
    /\ sync' = [sync EXCEPT ![n] = Idle]
    /\ UNCHANGED <<files, acked>>

\* rebuild, while a pull may be under way.
Rebuild(n) ==
    /\ index[n] # Scan(files[n])
    /\ index' = [index EXCEPT ![n] = Scan(files[n])]
    /\ UNCHANGED <<files, sync, faults, acked>>

-----------------------------------------------------------------------------
(* Pulling *)

\* sync_one: the peer's inventory of Shots.
BeginSync(n, m) ==
    /\ sync[n] = Idle
    /\ m \in Peers[n]
    /\ Held(m) # {}
    /\ sync' = [sync EXCEPT ![n] =
                  [peer |-> m, shots |-> {ShotOf[a] : a \in Held(m)}, refs |-> {}]]
    /\ UNCHANGED <<files, index, faults, acked>>

Pulling(n) == sync[n].peer # None

\* The inventory of the next Shot, or an answer that the Shot is gone.
FetchShot(n) ==
    /\ Pulling(n)
    /\ sync[n].refs = {}
    /\ \E s \in sync[n].shots :
          /\ \A t \in sync[n].shots : s <= t
          /\ LET view == InShot(Held(sync[n].peer), s)
             IN  sync' = [sync EXCEPT ![n] =
                            IF view = {} THEN Idle
                            ELSE [sync[n] EXCEPT !.shots = @ \ {s}, !.refs = view]]
    /\ UNCHANGED <<files, index, faults, acked>>

Advance(n, a) == sync' = [sync EXCEPT ![n].refs = @ \ {a}]
Abandon(n) == sync' = [sync EXCEPT ![n] = Idle]

\* References whose predecessor is not held yet are passed over.
FetchReferenceResolved(n, a) ==
    /\ Advance(n, a)
    /\ IF a \in Held(sync[n].peer) \ Held(n)
          /\ Admits(Held(n), a) /\ Parent[a] \in Held(n) \cup {None}
       THEN Store(n, a)
       ELSE UNCHANGED <<files, index, acked>>

\* One advertised reference, in order of sequence and digest: held already,
\* stored, or the end of the pull when the peer no longer serves it or the
\* store refuses it.
FetchReference(n, a) ==
    \/ /\ a \in Held(n)
       /\ Advance(n, a)
       /\ UNCHANGED <<files, index, acked>>
    \/ /\ a \in Held(sync[n].peer) \ Held(n)
       /\ Admits(Held(n), a)
       /\ Store(n, a)
       /\ Advance(n, a)
    \/ /\ a \notin Held(n)
       /\ a \in Held(sync[n].peer) => ~ Admits(Held(n), a)
       /\ Abandon(n)
       /\ UNCHANGED <<files, index, acked>>

FetchAction(n) ==
    /\ Pulling(n)
    /\ \E a \in sync[n].refs :
          /\ \A b \in sync[n].refs \ {a} : Before(a, b)
          /\ FetchReference(n, a)
    /\ UNCHANGED faults

\* A request fails and ends the pull.
FailSync(n) ==
    /\ Pulling(n)
    /\ faults < MaxFaults
    /\ faults' = faults + 1
    /\ Abandon(n)
    /\ UNCHANGED <<files, index, acked>>

EndSync(n) ==
    /\ Pulling(n)
    /\ sync[n].refs = {} /\ sync[n].shots = {}
    /\ Abandon(n)
    /\ UNCHANGED <<files, index, faults, acked>>

Pull(n) == FetchShot(n) \/ FetchAction(n) \/ EndSync(n)

-----------------------------------------------------------------------------
Next ==
    \E n \in Nodes :
        \/ \E a \in Actions : Ingest(n, a) \/ IngestUnsynced(n, a)
        \/ Restart(n)
        \/ Rebuild(n)
        \/ \E m \in Peers[n] : BeginSync(n, m)
        \/ Pull(n)
        \/ FailSync(n)

Spec == Init /\ [][Next]_vars

\* A pull goes on until it ends; operators keep asking every node for one.
FairSpec ==
    /\ Spec
    /\ \A n \in Nodes :
          /\ WF_vars(Pull(n))
          /\ \A m \in Peers[n] : SF_vars(BeginSync(n, m))

-----------------------------------------------------------------------------
(* Properties *)

TypeOK ==
    /\ files \in [Nodes -> SUBSET Actions]
    /\ index \in [Nodes -> [Actions -> Verdicts]]
    /\ sync \in [Nodes -> [peer : Nodes \cup {None},
                           shots : SUBSET {ShotOf[a] : a \in Actions},
                           refs : SUBSET Actions]]
    /\ faults \in 0 .. MaxFaults
    /\ acked \in [Nodes -> SUBSET Actions]

\* The incrementally maintained verdicts are those a rebuild derives from the
\* same actions, in whatever order they arrived (integrity compares the two).
ClassifiedAsRebuilt ==
    /\ TypeOK
    /\ \A n \in Nodes : \A a \in Held(n) : index[n][a] = Classify(Held(n), a)

Overfull(n) ==
    \E s \in {ShotOf[a] : a \in Actions} : Cardinality(InShot(files[n], s)) > ShotLimit

\* An action a node has reported as held is still held after restarts and
\* rebuilds, unless files it never reported filled the Shot.
AcknowledgedStays ==
    \A n \in Nodes : acked[n] \subseteq Held(n) \/ Overfull(n)

\* A verdict that is not unresolved is never taken back by what arrives later,
\* by a restart or by a rebuild, in the same circumstances.
VerdictsAreFinal ==
    [][\A n \in Nodes : \A a \in Held(n) :
          index[n][a].verdict # "unresolved"
              => index'[n][a].verdict = index[n][a].verdict \/ Overfull(n)]_vars

\* A node that keeps pulling holds everything its peer holds, again and again,
\* whatever failed in between, unless it would refuse an action that the peer
\* retains: every pull ends there, and what follows is never asked for.
PeersCatchUp ==
    \A n \in Nodes : \A m \in Peers[n] :
        []<>(\/ Held(m) \subseteq Held(n)
             \/ \E b \in Held(m) \ Held(n) : ~ Admits(Held(n), b))

=============================================================================
