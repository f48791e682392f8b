-------------------------- MODULE PublicationProofs --------------------------
(***************************************************************************)
(* Proofs about Ship, for every number of publications, artifacts,          *)
(* expiring reservations, crashes and lost answers: the relayer pays for    *)
(* one publication, bytes are stored before a transaction names them, and   *)
(* what is public is backed by the chain.                                   *)
(***************************************************************************)
EXTENDS Publication, SequenceTheorems, FiniteSetTheorems, TLAPS

-----------------------------------------------------------------------------
(* The inductive invariant *)

KindSet == {"account", "commit", "register", "claims"}
Transactions == [kind : KindSet, stg : Stagings, job : Jobs,
                 out : {"pending", "ok", "reverted"}]
Receiving == [stg : Stagings, art : AllOf, rec : Reservations]
Works == [stg : Stagings, heard : BOOLEAN, mem : JobState,
          step : {"open", "authorize", "relay", "save", "finalize", "release", "cleanup"}]

Made == 1 .. Len(staging)

\* deploy: the checkpoint a job was prepared for is settled when it is read.
Planned ==
    /\ deploy \in [Jobs -> {"none", "read", "building", "preparing", "requested", "over"}]
    /\ seq \in [Jobs -> 0 .. 2]
    /\ asked \subseteq Jobs /\ approved \subseteq asked /\ lapsed \subseteq Jobs
    /\ \A j \in Jobs : j \in asked => deploy[j] = "requested"
    /\ \A j \in Jobs : deploy[j] # "none" => seq[j] >= 1
    /\ latest = None => \A j \in Jobs : seq[j] <= 1

\* The Mac: what it remembers of the registry is there, and what it recorded
\* as published is in the catalogue.
Remembered ==
    /\ remote \in [Jobs -> {None} \cup RemoteState]
    /\ ended \in [Jobs -> {None, "completed", "failed"}]
    /\ \A j \in Jobs : remote[j] # None => /\ remote[j].stg \in Made
                                           /\ remote[j].submitted => job[remote[j].stg] # None
    /\ latest # None => latest \in [seq : {1}, job : Jobs] /\ latest.job \in catalog
    /\ \A j \in Jobs : ended[j] = "completed" => j \in catalog /\ latest # None

\* The service loop's call.
Calling ==
    call # None =>
        /\ call \in Calls /\ call.job \in approved
        /\ call.op = "stage" => /\ remote[call.job] = None
                                /\ call.answer \in {None, "ok", "refused"}
                                /\ call.answer = "ok" => call.stg \in Made
        /\ call.op # "stage" => remote[call.job] # None /\ call.stg = remote[call.job].stg
        /\ call.op = "put" => remote[call.job].up < Artifacts
        /\ call.op = "publish" /\ call.answer = "ok" => job[call.stg] # None
        /\ call.op \in {"poll", "record", "clear", "complete"} => job[call.stg] # None
        /\ call.op = "record" /\ call.answer = "ok" => call.job \in catalog
        /\ call.op \in {"clear", "complete"} => call.job \in catalog /\ latest # None

\* Reservations are made by calls: as many as jobs have, and lost answers.
Owning == {j \in Jobs : remote[j] # None}
Answering == IF call # None /\ call.op = "stage" /\ call.answer = "ok" THEN 1 ELSE 0
Stored ==
    /\ staging \in Seq({None} \cup Reservations)
    /\ files \in Seq(SUBSET AllOf) /\ Len(files) = Len(staging)
    /\ faults \in 0 .. MaxFaults
    /\ Len(staging) <= Cardinality(Owning) + faults + Answering
    /\ upload # None => /\ upload \in Receiving /\ upload.stg \in Made
                        /\ Waits("put")
    /\ late # None => late \in Receiving /\ late.stg \in Made

\* A reservation, an upload to it and a transaction for it name one job.
Owner(s, j) ==
    \/ s \in DOMAIN staging /\ staging[s] # None /\ staging[s].job = j
    \/ upload # None /\ upload.stg = s /\ upload.rec.job = j
    \/ late # None /\ late.stg = s /\ late.rec.job = j
    \/ \E i \in DOMAIN txs : txs[i].stg = s /\ txs[i].job = j
Owned ==
    /\ \A s \in Stagings, j, k \in Jobs : Owner(s, j) /\ Owner(s, k) => j = k
    /\ \A s \in Stagings, j \in Jobs : Owner(s, j) => deploy[j] # "none"
    /\ subsidy # None => \A j \in Jobs : Owner(subsidy, j) => seq[j] = 1

\* The chain: everything on it is of the sponsored publication.
Mined ==
    /\ txs \in Seq(Transactions)
    /\ subsidy # None => subsidy \in Made /\ job[subsidy] # None
    /\ \A i \in DOMAIN txs : txs[i].stg = subsidy
    /\ head # None => \E i \in DOMAIN txs : txs[i].job = head
    /\ \A i \in DOMAIN txs : txs[i].kind = "register" /\ txs[i].out = "ok" => head = txs[i].job
    /\ \A i \in DOMAIN txs : txs[i].kind = "claims" /\ txs[i].out = "ok" => edition = txs[i].job
    /\ \A i, k \in DOMAIN txs :
          txs[i].kind \in {"register", "claims"} /\ txs[i].out = "ok"
             => (txs[k].kind = txs[i].kind /\ txs[k].out = "ok" => i = k)

\* The public store.
Shown ==
    /\ \A j \in promoted : j \in Jobs /\ head = j
    /\ \A j \in catalog : j \in Jobs /\ j \in promoted /\ edition = j /\ seq[j] = 1

\* The bytes of a reservation are in the pending store, or were published.
Safe(s) == s \in bytes \/ (s = subsidy /\ promoted # {})

\* The nonces that a job remembers are of its own transactions.
Sent(s, m) ==
    \A k \in KindSet : m[k] # 0 => m[k] \in DOMAIN txs /\ txs[m[k]].kind = k /\ txs[m[k]].stg = s

Working ==
    /\ DOMAIN job = Stagings
    /\ \A s \in Stagings :
          job[s] # None => /\ job[s] \in JobState /\ Sent(s, job[s])
                           /\ job[s].status = "active" /\ job[s].blobs => Safe(s)
    /\ txs # <<>> /\ Active(subsidy) => Safe(subsidy)

\* The operation under way.
Polling ==
    work # None =>
        /\ work \in Works /\ work.stg \in Made /\ job[work.stg] # None
        /\ work.heard => Waits("poll") /\ call.stg = work.stg
        /\ work.mem.status # "failed" /\ Sent(work.stg, work.mem)
        /\ work.step = "open" => work.mem = job[work.stg]
        /\ work.step # "save" => work.mem.status = job[work.stg].status
        /\ work.step \notin {"open", "save"} => staging[work.stg] # None
        /\ work.step \notin {"open", "authorize"} => subsidy = work.stg
        /\ work.step # "open" /\ work.mem.status = "active" => Safe(work.stg)
        /\ work.step \in {"finalize", "release", "cleanup"} => edition = Job
        /\ work.step \in {"release", "cleanup"} => Job \in promoted

IInv ==
    /\ Planned /\ Remembered /\ Calling /\ Stored /\ Owned /\ Mined /\ Shown
    /\ Working /\ Polling

-----------------------------------------------------------------------------
(* What follows from it *)

LEMMA Numbers ==
    /\ MaxJobs \in Nat /\ MaxFaults \in Nat /\ Artifacts \in Nat /\ None \notin Nat
    /\ Jobs \subseteq Nat /\ Stagings \subseteq Nat /\ None \notin Jobs /\ None \notin Stagings
    /\ 0 \notin Stagings /\ AllOf \subseteq Nat
  BY ConstantsAssumption DEF Jobs, Stagings, AllOf

\* The reservations are few enough to be named: a call that made one has none yet.
LEMMA Counted ==
    ASSUME remote \in [Jobs -> {None} \cup RemoteState]
    PROVE  /\ Cardinality(Owning) \in Nat /\ Cardinality(Owning) <= MaxJobs
           /\ \A j \in Jobs : remote[j] = None => Cardinality(Owning) < MaxJobs
           /\ \A j \in Jobs \ Owning : Cardinality(Owning \cup {j}) = Cardinality(Owning) + 1
  <1>1. IsFiniteSet(Jobs) /\ Cardinality(Jobs) = MaxJobs
    <2>1. 1 \in Int /\ MaxJobs \in Int /\ MaxJobs \in Nat /\ MaxJobs # 0
      BY ConstantsAssumption
    <2>2. /\ IsFiniteSet(1 .. MaxJobs)
          /\ Cardinality(1 .. MaxJobs) = IF 1 > MaxJobs THEN 0 ELSE MaxJobs - 1 + 1
      BY <2>1, FS_Interval
    <2> QED
      BY <2>1, <2>2 DEF Jobs
  <1>2. Owning \in SUBSET Jobs
    BY DEF Owning
  <1>3. IsFiniteSet(Owning) /\ Cardinality(Owning) <= MaxJobs
    BY <1>1, <1>2, FS_Subset
  <1>4. Cardinality(Owning) \in Nat
    BY <1>3, FS_CardinalityType
  <1>5. ASSUME NEW j \in Jobs \ Owning
        PROVE  /\ Cardinality(Owning \cup {j}) = Cardinality(Owning) + 1
               /\ Cardinality(Owning) < MaxJobs
    <2>1. Cardinality(Owning \cup {j}) = Cardinality(Owning) + 1
      BY <1>3, <1>5, FS_AddElement
    <2>2. Owning \cup {j} \in SUBSET Jobs
      BY <1>2
    <2>3. Cardinality(Owning \cup {j}) <= Cardinality(Jobs)
      BY <1>1, <2>2, FS_Subset
    <2> QED
      BY <1>1, <1>4, <2>1, <2>3, Numbers
  <1>6. ASSUME NEW j \in Jobs, remote[j] = None PROVE j \notin Owning
    BY <1>6 DEF Owning
  <1> QED
    BY <1>3, <1>4, <1>5, <1>6

LEMMA Bounded ==
    ASSUME Remembered, Calling, Stored
    PROVE  /\ Len(staging) \in Nat /\ DOMAIN staging = Made /\ DOMAIN files = Made
           /\ Made \subseteq Stagings
           /\ \A s \in Made : staging[s] # None => staging[s] \in Reservations
           /\ \A s \in Made : files[s] \in SUBSET AllOf
  <1>1. /\ Len(staging) \in Nat /\ DOMAIN staging = Made /\ DOMAIN files = Made
        /\ \A s \in Made : staging[s] \in {None} \cup Reservations
        /\ \A s \in Made : files[s] \in SUBSET AllOf
    BY DEF Stored, Made
  <1>2. Len(staging) <= MaxJobs + MaxFaults
    <2>1. /\ Cardinality(Owning) \in Nat /\ Cardinality(Owning) <= MaxJobs
          /\ Answering = 1 => Cardinality(Owning) < MaxJobs
      <3>1. ASSUME Answering = 1 PROVE call.job \in Jobs /\ remote[call.job] = None
        BY <3>1 DEF Answering, Calling, Calls
      <3> QED
        BY <3>1, Counted DEF Remembered
    <2>2. Answering \in {0, 1}
      BY DEF Answering
    <2> QED
      BY <1>1, <2>1, <2>2, Numbers DEF Stored
  <1> QED
    BY <1>1, <1>2, Numbers DEF Made, Stagings

\* Before a publication is sponsored nothing is on the chain or public.
LEMMA Unsponsored ==
    ASSUME IInv
    PROVE  /\ \A i \in DOMAIN txs : subsidy # None /\ Owner(subsidy, txs[i].job)
                                    /\ txs[i] \in Transactions
           /\ head # None => \E i \in DOMAIN txs : txs[i].job = head
           /\ subsidy = None => /\ txs = <<>> /\ head = None /\ promoted = {} /\ catalog = {}
                                /\ latest = None /\ \A j \in Jobs : seq[j] <= 1
           /\ subsidy # None => subsidy \in Made /\ subsidy \in Stagings
           /\ \A j \in catalog \cup promoted :
                 j \in Jobs /\ head = j /\ head # None /\ deploy[j] # "none" /\ Owner(subsidy, j)
           /\ \A j \in catalog : edition = j /\ edition # None
  <1>1. \A i \in DOMAIN txs : txs[i] \in Transactions /\ txs[i].stg = subsidy
    BY DEF IInv, Mined
  <1>2. \A i \in DOMAIN txs : subsidy \in Stagings /\ subsidy # None /\ Owner(subsidy, txs[i].job)
    BY <1>1, Numbers DEF Transactions, Owner
  <1>3. head # None => \E i \in DOMAIN txs : txs[i].job = head
    BY DEF IInv, Mined
  <1>4. subsidy # None => subsidy \in Made /\ subsidy \in Stagings
    BY Bounded DEF IInv, Mined
  <1>5. ASSUME NEW j \in catalog \cup promoted
        PROVE  j \in Jobs /\ head = j /\ head # None /\ deploy[j] # "none" /\ Owner(subsidy, j)
    <2>1. j \in Jobs /\ head = j /\ head # None
      BY <1>5, Numbers DEF IInv, Shown
    <2>2. Owner(subsidy, j) /\ subsidy \in Stagings
      BY <1>2, <1>3, <2>1
    <2> QED
      BY <2>1, <2>2 DEF IInv, Owned
  <1>6. ASSUME subsidy = None
        PROVE  /\ txs = <<>> /\ head = None /\ promoted = {} /\ catalog = {}
               /\ latest = None /\ \A j \in Jobs : seq[j] <= 1
    <2>1. DOMAIN txs = {}
      BY <1>2, <1>6
    <2>2. txs = <<>>
      BY <2>1 DEF IInv, Mined
    <2>3. head = None /\ promoted = {} /\ catalog = {}
      BY <1>3, <1>5, <2>1
    <2>4. latest = None
      BY <2>3 DEF IInv, Remembered
    <2> QED
      BY <2>2, <2>3, <2>4 DEF IInv, Planned
  <1>7. \A j \in catalog : edition = j /\ edition # None
    BY Numbers DEF IInv, Shown
  <1> QED
    BY <1>1, <1>2, <1>3, <1>4, <1>5, <1>6, <1>7

-----------------------------------------------------------------------------
(* What a step leaves alone *)

\* Reservations and jobs only get more.
Grows ==
    /\ Len(staging) <= Len(staging')
    /\ \A s \in Stagings : job[s] # None => job'[s] # None

LEMMA MadeGrows ==
    ASSUME Stored, Stored', Grows
    PROVE  Made \subseteq Made'
  <1>1. Len(staging) \in Nat /\ Len(staging') \in Nat /\ Len(staging) <= Len(staging')
    BY DEF Stored, Grows
  <1> QED
    BY <1>1 DEF Made

LEMMA PlannedFrame ==
    ASSUME Planned, UNCHANGED <<deploy, seq, asked, approved, lapsed>>,
           latest' = None => latest = None
    PROVE  Planned'
  BY DEF Planned

LEMMA RememberedFrame ==
    ASSUME IInv, Stored', UNCHANGED <<remote, ended, latest>>, Grows, catalog \subseteq catalog'
    PROVE  Remembered'
  <1>1. Made \subseteq Made' /\ Made \subseteq Stagings
    BY MadeGrows, Bounded DEF IInv
  <1> QED
    BY <1>1 DEF IInv, Remembered, Grows

LEMMA CallingFrame ==
    ASSUME IInv, Stored', UNCHANGED <<call, remote>>, Grows, catalog \subseteq catalog',
           approved \subseteq approved', latest # None => latest' # None
    PROVE  Calling'
  <1>1. Made \subseteq Made' /\ Made \subseteq Stagings
    BY MadeGrows, Bounded DEF IInv
  <1>2. call # None /\ call.op # "stage" => call.stg \in Made
    BY DEF IInv, Calling, Remembered, Calls
  <1> QED
    BY <1>1, <1>2 DEF IInv, Calling, Grows

LEMMA StoredFrame ==
    ASSUME Stored, UNCHANGED <<staging, files, remote, call, upload, late, faults>>
    PROVE  Stored'
  BY DEF Stored, Made, Owning, Answering, Waits

LEMMA OwnedFrame ==
    ASSUME IInv, UNCHANGED <<deploy, seq, subsidy>>,
           \A s \in Stagings, j \in Jobs : Owner(s, j)' => Owner(s, j)
    PROVE  Owned'
  <1>1. subsidy # None => subsidy \in Stagings
    BY Unsponsored
  <1>2. \A s \in Stagings, j, k \in Jobs : Owner(s, j)' /\ Owner(s, k)' => j = k
    BY DEF IInv, Owned
  <1>3. \A s \in Stagings, j \in Jobs : Owner(s, j)' => deploy'[j] # "none"
    BY DEF IInv, Owned
  <1>4. subsidy # None => \A j \in Jobs : Owner(subsidy, j)' => seq'[j] = 1
    BY <1>1 DEF IInv, Owned
  <1>5. PICK s : s = subsidy /\ s = subsidy'
    OBVIOUS
  <1>6. subsidy' # None => \A j \in Jobs : Owner(s, j)' => seq'[j] = 1
    BY <1>4, <1>5 DEF Owner
  <1>7. subsidy' # None => \A j \in Jobs : Owner(subsidy, j)' => seq'[j] = 1
    BY <1>5, <1>6 DEF Owner
  <1> QED
    BY <1>2, <1>3, <1>7 DEF Owned

LEMMA OwnerFrame ==
    ASSUME UNCHANGED <<staging, upload, late, txs>>
    PROVE  \A s \in Stagings, j \in Jobs : Owner(s, j)' => Owner(s, j)
  BY DEF Owner

LEMMA MinedFrame ==
    ASSUME IInv, Stored', UNCHANGED <<txs, subsidy, head, edition>>, Grows
    PROVE  Mined'
  <1>1. Made \subseteq Made' /\ Made \subseteq Stagings
    BY MadeGrows, Bounded DEF IInv
  <1> QED
    BY <1>1 DEF IInv, Mined, Grows

LEMMA ShownFrame ==
    ASSUME Shown, UNCHANGED <<promoted, catalog, head, edition, seq>>
    PROVE  Shown'
  BY DEF Shown

LEMMA WorkingFrame ==
    ASSUME Working, subsidy # None => subsidy \in Stagings, txs # <<>> => subsidy # None,
           UNCHANGED <<job, txs, subsidy>>, promoted \subseteq promoted',
           \A s \in Stagings : s \in bytes /\ Active(s) => s \in bytes'
    PROVE  Working'
  <1>1. \A s \in Stagings : Active(s) /\ Safe(s) => Safe(s)'
    BY DEF Safe
  <1>2. \A s \in Stagings : Active(s)' <=> Active(s)
    BY DEF Active
  <1>3. txs # <<>> /\ Active(subsidy) => Safe(subsidy)'
    BY <1>1 DEF Working
  <1> QED
    BY <1>1, <1>2, <1>3 DEF Working, Sent, Active, Safe

LEMMA PollingFrame ==
    ASSUME IInv, UNCHANGED <<work, txs, subsidy, edition, bytes>>, promoted \subseteq promoted',
           Len(staging') = Len(staging), work # None => job'[work.stg] = job[work.stg],
           \A s \in Made : staging[s] # None => staging'[s] # None /\ staging'[s].job = staging[s].job,
           work # None /\ work.heard => UNCHANGED call
    PROVE  Polling'
  <1>1. Made' = Made
    BY DEF Made
  <1>2. \A s : Safe(s) => Safe(s)'
    BY DEF Safe
  <1>3. work # None /\ work.step \notin {"open", "save"} => Job' = Job
    BY DEF IInv, Polling, Job
  <1> QED
    BY <1>1, <1>2, <1>3 DEF IInv, Polling, Waits, Sent

LEMMA NoPolling ==
    ASSUME work' = None
    PROVE  Polling'
  BY DEF Polling

-----------------------------------------------------------------------------
(* deploy and the approval *)

\* A step that only changes the plans, and none that anything rests on.
LEMMA PlanKeeps ==
    ASSUME IInv, Planned', approved \subseteq approved',
           \A j \in Jobs : deploy[j] # "none" => deploy'[j] # "none" /\ seq'[j] = seq[j],
           UNCHANGED <<mac, call, store, job, public, subsidy, work, uploads, chain, faults>>
    PROVE  IInv'
  <1>1. UNCHANGED <<remote, ended, latest, call, staging, files, job, bytes, promoted, catalog,
                    subsidy, work, upload, late, txs, head, edition, faults>>
    BY DEF mac, store, public, uploads, chain
  <1>2. Stored'
    BY <1>1, StoredFrame DEF IInv
  <1>3. Grows
    BY <1>1 DEF Grows, IInv, Stored
  <1>4. Remembered' /\ Calling' /\ Mined'
    <2>1. Remembered'
      BY <1>1, <1>2, <1>3, RememberedFrame
    <2>2. Calling'
      BY <1>1, <1>2, <1>3, CallingFrame
    <2>3. Mined'
      BY <1>1, <1>2, <1>3, MinedFrame
    <2> QED
      BY <2>1, <2>2, <2>3
  <1>5. Working'
    BY <1>1, Unsponsored, WorkingFrame DEF IInv
  <1>6. Polling'
    <2>1. \A s \in Made : staging[s] # None => staging'[s] # None /\ staging'[s].job = staging[s].job
      BY <1>1
    <2> QED
      BY <1>1, <2>1, PollingFrame
  <1>7. Owned'
    <2>1. \A s, j : Owner(s, j)' <=> Owner(s, j)
      BY <1>1 DEF Owner
    <2>2. \A s \in Stagings, j, k \in Jobs : Owner(s, j)' /\ Owner(s, k)' => j = k
      BY <2>1 DEF IInv, Owned
    <2>3. \A s \in Stagings, j \in Jobs : Owner(s, j)' => deploy'[j] # "none"
      BY <2>1 DEF IInv, Owned
    <2>4. PICK s : s = subsidy /\ s = subsidy'
      BY <1>1
    <2>5. subsidy # None => subsidy \in Stagings
      BY Unsponsored
    <2>6. s # None => \A j \in Jobs : Owner(s, j)' => seq'[j] = 1
      BY <2>1, <2>4, <2>5 DEF IInv, Owned
    <2>7. subsidy' # None => \A j \in Jobs : Owner(subsidy, j)' => seq'[j] = 1
      BY <2>4, <2>6 DEF Owner
    <2> QED
      BY <2>2, <2>3, <2>7 DEF Owned
  <1>8. Shown'
    BY <1>1, Unsponsored DEF IInv, Shown
  <1> QED
    BY <1>2, <1>4, <1>5, <1>6, <1>7, <1>8 DEF IInv

LEMMA DeployKeeps ==
    ASSUME IInv, NEW j \in Jobs, Deploy(j)
    PROVE  IInv'
  <1>1. Planned
    BY DEF IInv
  <1>2. CASE ReadProject(j)
    <2>1. PICK n : n = IF latest = None THEN 1 ELSE latest.seq + 1
      OBVIOUS
    <2>2. /\ deploy[j] = "none" /\ deploy' = [deploy EXCEPT ![j] = "read"]
          /\ seq' = [seq EXCEPT ![j] = n]
          /\ UNCHANGED <<asked, approved, lapsed, mac, call, store, job, public, subsidy, work,
                         uploads, chain, faults>>
      BY <1>2, <2>1 DEF ReadProject
    <2>3. n \in 0 .. 2 /\ n >= 1 /\ (latest = None => n <= 1) /\ latest' = latest
      BY <2>1, <2>2 DEF IInv, Remembered, mac
    <2>4. Planned'
      BY <1>1, <2>2, <2>3 DEF Planned
    <2>5. \A k \in Jobs : deploy[k] # "none" => deploy'[k] # "none" /\ seq'[k] = seq[k]
      BY <1>1, <2>2 DEF Planned
    <2> QED
      BY <2>2, <2>4, <2>5, PlanKeeps
  <1>3. ASSUME NEW d \in {"building", "preparing", "requested", "over"},
               deploy[j] \in {"read", "building", "preparing"},
               deploy' = [deploy EXCEPT ![j] = d],
               UNCHANGED <<seq, asked, approved, lapsed, mac, call, store, job, public, subsidy,
                           work, uploads, chain, faults>>
        PROVE  IInv'
    <2>1. latest' = latest
      BY <1>3 DEF mac
    <2>2. Planned'
      BY <1>1, <1>3, <2>1 DEF Planned
    <2>3. \A k \in Jobs : deploy[k] # "none" => deploy'[k] # "none" /\ seq'[k] = seq[k]
      BY <1>1, <1>3 DEF Planned
    <2> QED
      BY <1>3, <2>2, <2>3, PlanKeeps
  <1>4. CASE CheckPending(j)
    BY <1>3, <1>4 DEF CheckPending
  <1>5. CASE MakeDirectory(j) \/ WriteRequest(j)
    BY <1>3, <1>5 DEF MakeDirectory, WriteRequest
  <1>6. ASSUME UNCHANGED <<deploy, seq, mac, call, store, job, public, subsidy, work, uploads, chain,
                           faults>>,
               approved \subseteq approved', approved' \subseteq asked', asked' \subseteq Jobs,
               lapsed' \subseteq Jobs, \A k \in asked' : deploy[k] = "requested"
        PROVE  IInv'
    <2>1. Planned'
      BY <1>1, <1>6 DEF Planned, mac
    <2> QED
      BY <1>6, <2>1, PlanKeeps
  <1>7. CASE PublishRequest(j)
    BY <1>1, <1>6, <1>7 DEF PublishRequest, Planned
  <1>8. CASE Approve(j)
    BY <1>1, <1>6, <1>8 DEF Approve, Planned
  <1>9. CASE Lapse(j)
    BY <1>1, <1>6, <1>9 DEF Lapse, Planned
  <1> QED
    BY <1>2, <1>4, <1>5, <1>7, <1>8, <1>9 DEF Deploy

-----------------------------------------------------------------------------
(* The service loop *)

\* A step of the loop, which only the Mac sees.
LEMMA LoopKeeps ==
    ASSUME IInv, Remembered', Calling', latest' = None => latest = None,
           Cardinality(Owning)' + Answering' >= Cardinality(Owning) + Answering,
           Cardinality(Owning)' \in Nat, Cardinality(Owning) \in Nat,
           call = None \/ call.answer # None,
           UNCHANGED <<plans, store, job, public, subsidy, work, uploads, chain, faults>>
    PROVE  IInv'
  <1>1. UNCHANGED <<deploy, seq, asked, approved, lapsed, staging, files, job, bytes, promoted,
                    catalog, subsidy, work, upload, late, txs, head, edition, faults>>
    BY DEF plans, store, public, uploads, chain
  <1>2. ~ Waits("put") /\ ~ Waits("poll")
    BY DEF Waits
  <1>3. upload = None /\ (work # None => ~ work.heard)
    BY <1>2 DEF IInv, Stored, Polling, Works
  <1>4. Stored'
    <2>1. Answering \in {0, 1} /\ Answering' \in {0, 1} /\ Len(staging) \in Nat
      BY DEF Answering, IInv, Stored
    <2>2. Len(staging') <= Cardinality(Owning)' + faults' + Answering'
      BY <1>1, <2>1, Numbers DEF IInv, Stored
    <2> QED
      BY <1>1, <1>3, <2>2 DEF IInv, Stored, Made
  <1>5. Grows
    BY <1>1 DEF Grows, IInv, Stored
  <1>6. Planned'
    BY <1>1, PlannedFrame DEF IInv
  <1>7. Mined'
    BY <1>1, <1>4, <1>5, MinedFrame
  <1>8. Owned'
    BY <1>1, OwnerFrame, OwnedFrame
  <1>9. Shown'
    BY <1>1, ShownFrame DEF IInv
  <1>10. Working'
    BY <1>1, Unsponsored, WorkingFrame DEF IInv
  <1>11. Polling'
    <2>1. \A s \in Made : staging[s] # None => staging'[s] # None /\ staging'[s].job = staging[s].job
      BY <1>1
    <2> QED
      BY <1>1, <1>3, <2>1, PollingFrame
  <1> QED
    BY <1>4, <1>6, <1>7, <1>8, <1>9, <1>10, <1>11 DEF IInv

\* ... that writes no remote state and answers no reservation.
LEMMA LoopQuiet ==
    ASSUME IInv, Remembered', Calling', latest' = None => latest = None, UNCHANGED remote,
           Answering = 0 \/ Answering' = 1, call = None \/ call.answer # None,
           UNCHANGED <<plans, store, job, public, subsidy, work, uploads, chain, faults>>
    PROVE  IInv'
  <1>1. Cardinality(Owning)' = Cardinality(Owning)
    BY DEF Owning
  <1>2. Cardinality(Owning) \in Nat
    BY Counted DEF IInv, Remembered
  <1>3. Answering \in {0, 1} /\ Answering' \in {0, 1}
    BY DEF Answering
  <1>4. /\ Cardinality(Owning)' + Answering' >= Cardinality(Owning) + Answering
        /\ Cardinality(Owning)' \in Nat
    BY <1>1, <1>2, <1>3
  <1> QED
    BY <1>2, <1>4, LoopKeeps

\* ... that ends the call, and perhaps the job.
LEMMA CallEnds ==
    ASSUME IInv, call' = None, UNCHANGED <<remote, latest>>, Answering = 0,
           call = None \/ call.answer # None,
           ended' \in [Jobs -> {None, "completed", "failed"}],
           \A j \in Jobs : ended'[j] = "completed"
                              => ended[j] = "completed" \/ (j \in catalog /\ latest # None),
           UNCHANGED <<plans, store, job, public, subsidy, work, uploads, chain, faults>>
    PROVE  IInv'
  <1>1. Calling'
    BY DEF Calling
  <1>2. Remembered'
    BY DEF IInv, Remembered, store, public, Made
  <1> QED
    BY <1>1, <1>2, LoopQuiet

\* The loop starts a step of a job.
LEMMA CallKeeps ==
    ASSUME IInv, NEW j \in Jobs, Call(j)
    PROVE  IInv'
  <1>1. PICK r, op, s : /\ r = remote[j] /\ op = Op(r)
                        /\ s = IF r = None THEN 0 ELSE r.stg
    OBVIOUS
  <1>2. /\ call = None /\ j \in approved
        /\ call' = [job |-> j, op |-> op, answer |-> None, stg |-> s]
        /\ UNCHANGED <<plans, mac, store, job, public, subsidy, work, uploads, chain, faults>>
    BY <1>1 DEF Call, Idle, Eligible
  <1>3. /\ UNCHANGED <<approved, remote, ended, latest, staging, job, catalog>> /\ Made' = Made
    BY <1>2 DEF plans, mac, store, public, Made
  <1>4. r # None => /\ r \in RemoteState /\ r.stg \in Made /\ r.stg \in Stagings
                    /\ r.submitted => job[r.stg] # None
    BY <1>1, Bounded DEF IInv, Remembered
  <1>5. /\ op \in {"stage", "put", "publish", "poll"}
        /\ op = "stage" <=> r = None
        /\ op = "put" => r.up < Artifacts
        /\ op = "poll" => r.submitted
    BY <1>1 DEF Op
  <1>6. call' \in Calls
    BY <1>1, <1>2, <1>4, <1>5 DEF Calls
  <1>7. None \notin Answers /\ "ok" \in Answers
    BY NoneAssumption DEF Answers
  <1>8. Calling'
    <2>1. /\ call'.job = j /\ call'.op = op /\ call'.answer = None /\ call'.stg = s
      BY <1>2
    <2> QED
      BY <1>1, <1>2, <1>3, <1>4, <1>5, <1>6, <1>7, <2>1 DEF Calling
  <1>9. Remembered'
    BY <1>3 DEF IInv, Remembered
  <1>10. Answering = 0
    BY <1>2 DEF Answering
  <1> QED
    BY <1>2, <1>3, <1>8, <1>9, <1>10, LoopQuiet

LEMMA NoTokenKeeps ==
    ASSUME IInv, NEW j \in Jobs, NoToken(j)
    PROVE  IInv'
  <1>1. /\ call = None /\ call' = None /\ ended' = [ended EXCEPT ![j] = "failed"]
        /\ UNCHANGED <<plans, remote, latest, store, job, public, subsidy, work, uploads, chain, faults>>
    BY DEF NoToken, Idle
  <1>2. /\ ended' \in [Jobs -> {None, "completed", "failed"}]
        /\ \A k \in Jobs : ended'[k] = "completed" => ended[k] = "completed"
    BY <1>1 DEF IInv, Remembered
  <1>3. Answering = 0
    BY <1>1 DEF Answering
  <1> QED
    BY <1>1, <1>2, <1>3, CallEnds

\* What an answered call may rely on.
LEMMA AnsweredFacts ==
    ASSUME IInv, NEW a \in Answers, call # None, call.answer = a
    PROVE  /\ call \in Calls /\ call.job \in Jobs /\ call.answer # None
           /\ (call.op # "stage" \/ a # "ok") => Answering = 0
  BY NoneAssumption DEF IInv, Calling, Calls, Answering

LEMMA RefusedKeeps ==
    ASSUME IInv, Refused
    PROVE  IInv'
  <1>1. /\ call # None /\ call.answer = "refused" /\ call' = None
        /\ ended' = [ended EXCEPT ![call.job] = "failed"]
        /\ UNCHANGED <<plans, remote, latest, store, job, public, subsidy, work, uploads, chain, faults>>
    BY DEF Refused
  <1>2. /\ "refused" \in Answers /\ "refused" # "ok"
    BY DEF Answers
  <1>3. call.job \in Jobs /\ call.answer # None /\ Answering = 0
    BY <1>1, <1>2, AnsweredFacts
  <1>4. /\ ended' \in [Jobs -> {None, "completed", "failed"}]
        /\ \A k \in Jobs : ended'[k] = "completed" => ended[k] = "completed"
    BY <1>1, <1>3 DEF IInv, Remembered
  <1> QED
    BY <1>1, <1>3, <1>4, CallEnds

LEMMA StillPendingKeeps ==
    ASSUME IInv, StillPending
    PROVE  IInv'
  <1>1. /\ call # None /\ call.answer = "pending" /\ call' = None
        /\ UNCHANGED <<plans, mac, store, job, public, subsidy, work, uploads, chain, faults>>
    BY DEF StillPending, Answered
  <1>2. /\ "pending" \in Answers /\ "pending" # "ok"
    BY DEF Answers
  <1>3. call.answer # None /\ Answering = 0
    BY <1>1, <1>2, AnsweredFacts
  <1>4. /\ UNCHANGED <<remote, latest>> /\ ended' \in [Jobs -> {None, "completed", "failed"}]
        /\ \A k \in Jobs : ended'[k] = "completed" => ended[k] = "completed"
    BY <1>1 DEF IInv, Remembered, mac
  <1> QED
    BY <1>1, <1>3, <1>4, CallEnds

LEMMA CompleteKeeps ==
    ASSUME IInv, Complete
    PROVE  IInv'
  <1>1. /\ call # None /\ call.answer = "ok" /\ call.op = "complete" /\ call' = None
        /\ ended' = [ended EXCEPT ![call.job] = "completed"]
        /\ UNCHANGED <<plans, remote, latest, store, job, public, subsidy, work, uploads, chain, faults>>
    BY DEF Complete, Answered
  <1>2. "ok" \in Answers
    BY DEF Answers
  <1>3. call.job \in Jobs /\ call.answer # None /\ Answering = 0
    BY <1>1, <1>2, AnsweredFacts
  <1>4. call.job \in catalog /\ latest # None
    BY <1>1 DEF IInv, Calling
  <1>5. /\ ended' \in [Jobs -> {None, "completed", "failed"}]
        /\ \A k \in Jobs : ended'[k] = "completed" => ended[k] = "completed" \/ k = call.job
    BY <1>1, <1>3 DEF IInv, Remembered
  <1> QED
    BY <1>1, <1>3, <1>4, <1>5, CallEnds

\* remote-state.json is written.
LEMMA RemoteFacts ==
    ASSUME IInv, NEW j \in Jobs, NEW r \in RemoteState, remote' = [remote EXCEPT ![j] = r],
           r.stg \in Made, r.submitted => job[r.stg] # None,
           UNCHANGED <<ended, latest, job, staging, catalog>>
    PROVE  /\ Remembered' /\ remote'[j] = r /\ r # None
           /\ Cardinality(Owning) \in Nat /\ Cardinality(Owning)' \in Nat
           /\ remote[j] # None => Cardinality(Owning)' = Cardinality(Owning)
           /\ remote[j] = None => Cardinality(Owning)' = Cardinality(Owning) + 1
  <1>1. /\ remote' \in [Jobs -> {None} \cup RemoteState] /\ remote'[j] = r /\ r # None
        /\ \A k \in Jobs : k # j => remote'[k] = remote[k]
    BY NoneAssumption DEF IInv, Remembered
  <1>2. Made' = Made
    BY DEF Made
  <1>3. Remembered'
    BY <1>1, <1>2 DEF IInv, Remembered
  <1>4. Owning' = Owning \cup {j}
    BY <1>1 DEF Owning
  <1>5. Cardinality(Owning) \in Nat /\ \A k \in Jobs \ Owning : Cardinality(Owning \cup {k}) = Cardinality(Owning) + 1
    BY Counted DEF IInv, Remembered
  <1>6. remote[j] # None <=> j \in Owning
    BY DEF Owning
  <1>7. ASSUME j \in Owning PROVE Cardinality(Owning)' = Cardinality(Owning)
    <2>1. Owning' = Owning
      BY <1>4, <1>7
    <2> QED
      BY <2>1
  <1>8. ASSUME j \notin Owning PROVE Cardinality(Owning)' = Cardinality(Owning) + 1
    BY <1>4, <1>5, <1>8
  <1> QED
    BY <1>1, <1>3, <1>5, <1>6, <1>7, <1>8

LEMMA StagedKeeps ==
    ASSUME IInv, Staged
    PROVE  IInv'
  <1>1. PICK r : r = [stg |-> call.stg, up |-> 0, submitted |-> FALSE, token |-> TRUE]
    OBVIOUS
  <1>2. /\ call # None /\ call.answer = "ok" /\ call.op = "stage" /\ call' = None
        /\ remote' = [remote EXCEPT ![call.job] = r]
        /\ UNCHANGED <<plans, ended, latest, store, job, public, subsidy, work, uploads, chain, faults>>
    BY <1>1 DEF Staged, Answered
  <1>3. "ok" \in Answers /\ UNCHANGED <<staging, catalog>>
    BY <1>2 DEF Answers, store, public
  <1>4. call.job \in Jobs /\ call.answer # None /\ remote[call.job] = None
    BY <1>2, <1>3, AnsweredFacts DEF IInv, Calling
  <1>5. call.stg \in Made /\ call.stg \in Stagings
    BY <1>2, Bounded DEF IInv, Calling
  <1>6. r \in RemoteState /\ r.stg \in Made /\ ~ r.submitted
    BY <1>1, <1>5, Numbers DEF RemoteState
  <1>7. /\ Remembered' /\ Cardinality(Owning) \in Nat /\ Cardinality(Owning)' \in Nat
        /\ Cardinality(Owning)' = Cardinality(Owning) + 1
    BY <1>2, <1>3, <1>4, <1>6, RemoteFacts
  <1>8. Calling' /\ Answering = 1 /\ Answering' = 0
    BY <1>2 DEF Calling, Answering
  <1>9. Cardinality(Owning)' + Answering' >= Cardinality(Owning) + Answering
    BY <1>7, <1>8
  <1> QED
    BY <1>2, <1>4, <1>7, <1>8, <1>9, LoopKeeps

\* A change of the remote state of a job that has one.
LEMMA ProgressKeeps ==
    ASSUME IInv, call # None, call.answer = "ok", call.op # "stage",
           NEW r \in RemoteState, remote' = [remote EXCEPT ![call.job] = r],
           r.stg = remote[call.job].stg, r.submitted => job[r.stg] # None, Calling',
           UNCHANGED <<plans, ended, latest, store, job, public, subsidy, work, uploads, chain, faults>>
    PROVE  IInv'
  <1>1. "ok" \in Answers /\ UNCHANGED <<staging, catalog>>
    BY DEF Answers, store, public
  <1>2. call.job \in Jobs /\ call.answer # None /\ remote[call.job] # None /\ Answering = 0
    BY <1>1, AnsweredFacts DEF IInv, Calling
  <1>3. r.stg \in Made
    BY <1>2 DEF IInv, Remembered
  <1>4. /\ Remembered' /\ Cardinality(Owning) \in Nat /\ Cardinality(Owning)' \in Nat
        /\ Cardinality(Owning)' = Cardinality(Owning)
    BY <1>1, <1>2, <1>3, RemoteFacts
  <1>5. Answering' \in {0, 1}
    BY DEF Answering
  <1>6. Cardinality(Owning)' + Answering' >= Cardinality(Owning) + Answering
    BY <1>2, <1>4, <1>5
  <1> QED
    BY <1>2, <1>4, <1>6, LoopKeeps

LEMMA UploadedKeeps ==
    ASSUME IInv, Uploaded
    PROVE  IInv'
  <1>1. PICK o, n, r : o = remote[call.job] /\ n = o.up + 1 /\ r = [o EXCEPT !.up = n]
    OBVIOUS
  <1>2. /\ call # None /\ call.answer = "ok" /\ call.op = "put" /\ call' = None
        /\ remote' = [remote EXCEPT ![call.job] = r]
        /\ UNCHANGED <<plans, ended, latest, store, job, public, subsidy, work, uploads, chain, faults>>
    BY <1>1 DEF Uploaded, Answered
  <1>3. call.job \in Jobs /\ o # None /\ o.up < Artifacts
    BY <1>1, <1>2 DEF IInv, Calling, Calls
  <1>4. o \in RemoteState /\ (o.submitted => job[o.stg] # None)
    BY <1>1, <1>3 DEF IInv, Remembered
  <1>5. n \in 0 .. Artifacts
    BY <1>1, <1>3, <1>4, Numbers DEF RemoteState
  <1>6. r \in RemoteState /\ r.stg = o.stg /\ r.submitted = o.submitted
    BY <1>1, <1>4, <1>5 DEF RemoteState
  <1>7. Calling'
    BY <1>2 DEF Calling
  <1> QED
    BY <1>1, <1>2, <1>4, <1>6, <1>7, ProgressKeeps

LEMMA SubmittedKeeps ==
    ASSUME IInv, Submitted
    PROVE  IInv'
  <1>1. PICK o, r : o = remote[call.job] /\ r = [o EXCEPT !.submitted = TRUE]
    OBVIOUS
  <1>2. /\ call # None /\ call.answer = "ok" /\ call.op = "publish" /\ call' = None
        /\ remote' = [remote EXCEPT ![call.job] = r]
        /\ UNCHANGED <<plans, ended, latest, store, job, public, subsidy, work, uploads, chain, faults>>
    BY <1>1 DEF Submitted, Answered
  <1>3. call.job \in Jobs /\ o # None /\ job[call.stg] # None /\ call.stg = o.stg
    BY <1>1, <1>2 DEF IInv, Calling, Calls
  <1>4. o \in RemoteState
    BY <1>1, <1>3 DEF IInv, Remembered
  <1>5. r \in RemoteState /\ r.stg = o.stg
    BY <1>1, <1>4 DEF RemoteState
  <1>6. Calling'
    BY <1>2 DEF Calling
  <1> QED
    BY <1>1, <1>2, <1>3, <1>5, <1>6, ProgressKeeps

\* A call that goes on: the same job and reservation.
LEMMA CallFacts ==
    ASSUME IInv, call # None, NEW op, NEW a \in Answers,
           op \in {"record", "clear", "complete"} \/ op = call.op,
           call' = [call EXCEPT !.op = op, !.answer = a]
    PROVE  /\ call' \in Calls /\ call'.job = call.job /\ call'.stg = call.stg
           /\ call'.op = op /\ call'.answer = a
  BY DEF IInv, Calling, Calls

LEMMA ClearTokenKeeps ==
    ASSUME IInv, ClearToken
    PROVE  IInv'
  <1>1. PICK o, r : o = remote[call.job] /\ r = [o EXCEPT !.token = FALSE]
    OBVIOUS
  <1>2. /\ call # None /\ call.answer = "ok" /\ call.op = "clear"
        /\ call' = [call EXCEPT !.op = "complete"]
        /\ remote' = [remote EXCEPT ![call.job] = r]
        /\ UNCHANGED <<plans, ended, latest, store, job, public, subsidy, work, uploads, chain, faults>>
    BY <1>1 DEF ClearToken, Answered
  <1>3. /\ call \in Calls /\ call.job \in Jobs /\ call.job \in approved
        /\ o # None /\ call.stg = o.stg /\ job[call.stg] # None
        /\ call.job \in catalog /\ latest # None
    BY <1>1, <1>2 DEF IInv, Calling, Calls
  <1>4. o \in RemoteState /\ (o.submitted => job[o.stg] # None)
    BY <1>1, <1>3 DEF IInv, Remembered
  <1>5. r \in RemoteState /\ r.stg = o.stg /\ r.submitted = o.submitted
    BY <1>1, <1>4 DEF RemoteState
  <1>6. /\ call' \in Calls /\ call'.job = call.job /\ call'.stg = call.stg
        /\ call'.op = "complete" /\ call'.answer = "ok"
    BY <1>2, <1>3 DEF Calls
  <1>7. remote'[call.job] = r /\ r # None
    BY <1>2, <1>3, <1>5, NoneAssumption DEF IInv, Remembered
  <1>8. Calling'
    BY <1>2, <1>3, <1>5, <1>6, <1>7 DEF Calling, plans, public
  <1> QED
    BY <1>1, <1>2, <1>4, <1>5, <1>8, ProgressKeeps

\* The evidence is compared with the approval.
LEMMA VerifyEvidenceKeeps ==
    ASSUME IInv, VerifyEvidence
    PROVE  IInv'
  <1>1. PICK a : /\ a \in {"ok", "refused"} /\ (a = "ok" => call.job \in catalog)
                 /\ call' = [call EXCEPT !.op = "record", !.answer = a]
    BY DEF VerifyEvidence
  <1>2. /\ call # None /\ call.answer = "complete" /\ call.op = "poll"
        /\ UNCHANGED <<plans, mac, store, job, public, subsidy, work, uploads, chain, faults>>
    BY DEF VerifyEvidence, Answered
  <1>3. a \in Answers /\ "complete" \in Answers
    BY <1>1 DEF Answers
  <1>4. /\ call' \in Calls /\ call'.job = call.job /\ call'.stg = call.stg
        /\ call'.op = "record" /\ call'.answer = a
    BY <1>1, <1>2, <1>3, CallFacts
  <1>5. /\ call.job \in Jobs /\ call.job \in approved /\ remote[call.job] # None
        /\ call.stg = remote[call.job].stg /\ job[call.stg] # None
    BY <1>2 DEF IInv, Calling, Calls
  <1>6. UNCHANGED <<approved, remote, ended, latest, staging, job, catalog>> /\ Made' = Made
    BY <1>2 DEF plans, mac, store, public, Made
  <1>7. Calling'
    BY <1>1, <1>4, <1>5, <1>6 DEF Calling
  <1>8. Remembered'
    BY <1>6 DEF IInv, Remembered
  <1>9. Answering = 0 /\ call.answer # None
    BY <1>2, <1>3, AnsweredFacts
  <1> QED
    BY <1>2, <1>6, <1>7, <1>8, <1>9, LoopQuiet

\* Only a first receipt is stored.
LEMMA RecordPublicationKeeps ==
    ASSUME IInv, RecordPublication
    PROVE  IInv'
  <1>1. PICK j, op, a :
           /\ j = call.job
           /\ \/ /\ latest = None \/ latest.seq < seq[j]
                 /\ latest' = [seq |-> seq[j], job |-> j] /\ op = "clear" /\ a = "ok"
              \/ latest' = latest /\ op = "record" /\ a = "refused"
           /\ call' = [call EXCEPT !.op = op, !.answer = a]
    <2>1. call # None /\ call.op = "record" /\ call.answer = "ok" /\ call \in Calls
      BY DEF RecordPublication, Answered, IInv, Calling
    <2>2. /\ [call EXCEPT !.op = "clear"] = [call EXCEPT !.op = "clear", !.answer = "ok"]
          /\ [call EXCEPT !.answer = "refused"] = [call EXCEPT !.op = "record", !.answer = "refused"]
      BY <2>1 DEF Calls
    <2>3. CASE latest = None \/ latest.seq < seq[call.job]
      <3>1. /\ latest' = [seq |-> seq[call.job], job |-> call.job]
            /\ call' = [call EXCEPT !.op = "clear", !.answer = "ok"]
        BY <2>2, <2>3 DEF RecordPublication
      <3> QED
        BY <2>3, <3>1
    <2>4. CASE ~ (latest = None \/ latest.seq < seq[call.job])
      BY <2>2, <2>4 DEF RecordPublication
    <2> QED
      BY <2>3, <2>4
  <1>2. /\ call # None /\ call.answer = "ok" /\ call.op = "record"
        /\ UNCHANGED <<plans, remote, ended, store, job, public, subsidy, work, uploads, chain, faults>>
    BY DEF RecordPublication, Answered
  <1>3. a \in Answers /\ "ok" \in Answers
    BY <1>1 DEF Answers
  <1>4. /\ call' \in Calls /\ call'.job = call.job /\ call'.stg = call.stg
        /\ call'.op = op /\ call'.answer = a
    BY <1>1, <1>2, <1>3, CallFacts
  <1>5. /\ j \in Jobs /\ j \in approved /\ remote[j] # None
        /\ call.stg = remote[j].stg /\ job[call.stg] # None /\ j \in catalog
    <2>1. /\ call.job \in Jobs /\ call.job \in approved /\ remote[call.job] # None
          /\ call.stg = remote[call.job].stg /\ job[call.stg] # None /\ call.job \in catalog
      BY <1>2 DEF IInv, Calling, Calls
    <2> QED
      BY <1>1, <2>1
  <1>6. UNCHANGED <<approved, remote, ended, staging, job, catalog>> /\ Made' = Made
    BY <1>2 DEF plans, store, public, Made
  <1>7. seq[j] = 1
    BY <1>5 DEF IInv, Shown
  <1>8. latest # None => latest \in [seq : {1}, job : Jobs] /\ latest.job \in catalog
    BY DEF IInv, Remembered
  <1>9. \/ latest' = latest /\ op = "record" /\ a = "refused"
        \/ latest = None /\ latest' = [seq |-> 1, job |-> j] /\ op = "clear"
    BY <1>1, <1>7, <1>8
  <1>10. [seq |-> 1, job |-> j] # None
    BY <1>5, NoneAssumption DEF Shipped
  <1>11. Calling'
    BY <1>1, <1>4, <1>5, <1>6, <1>9, <1>10 DEF Calling
  <1>12. Remembered'
    BY <1>5, <1>6, <1>9, <1>10 DEF IInv, Remembered
  <1>13. Answering = 0 /\ call.answer # None
    BY <1>2, <1>3, AnsweredFacts
  <1> QED
    BY <1>2, <1>6, <1>9, <1>10, <1>11, <1>12, <1>13, LoopQuiet

LEMMA LoopStep ==
    ASSUME IInv, Loop
    PROVE  IInv'
  BY CallKeeps, NoTokenKeeps, RefusedKeeps, StagedKeeps, UploadedKeeps, SubmittedKeeps,
     StillPendingKeeps, VerifyEvidenceKeeps, RecordPublicationKeeps, ClearTokenKeeps, CompleteKeeps
     DEF Loop

-----------------------------------------------------------------------------
(* The routes of the registry *)

\* A step that leaves the plans, the Mac, the chain and the catalogue alone.
LEMMA RouteKeeps ==
    ASSUME IInv, Stored', Calling', Owned', Working', Polling', Grows,
           UNCHANGED <<deploy, seq, asked, approved, lapsed, remote, ended, latest, promoted,
                       catalog, subsidy, txs, head, edition>>
    PROVE  IInv'
  <1>1. Planned'
    BY PlannedFrame DEF IInv
  <1>2. Remembered'
    BY RememberedFrame
  <1>3. Mined'
    BY MinedFrame
  <1>4. Shown'
    BY ShownFrame DEF IInv
  <1> QED
    BY <1>1, <1>2, <1>3, <1>4 DEF IInv

\* An answer to the call that waits.
LEMMA AnswerFacts ==
    ASSUME IInv, call # None, NEW a \in Answers, Answer(a)
    PROVE  /\ call' \in Calls /\ call' # None
           /\ call'.job = call.job /\ call'.stg = call.stg
           /\ call'.op = call.op /\ call'.answer = a
           /\ call.job \in Jobs /\ call \in Calls
  BY NoneAssumption DEF Answer, IInv, Calling, Calls

LEMMA AnswerCalling ==
    ASSUME IInv, Stored', call # None, NEW a \in Answers, Answer(a), Grows,
           call.op \in {"stage", "put", "publish", "poll"},
           call.op = "stage" => a = "refused",
           call.op = "publish" /\ a = "ok" => job'[call.stg] # None,
           UNCHANGED <<remote, approved, latest, catalog>>
    PROVE  Calling' /\ Answering' = 0
  <1>1. /\ call' \in Calls /\ call'.job = call.job /\ call'.stg = call.stg
        /\ call'.op = call.op /\ call'.answer = a /\ call.job \in Jobs
    BY AnswerFacts
  <1>2. call.op # "stage" => call.stg \in Made /\ call.stg \in Stagings
    BY Bounded DEF IInv, Calling, Remembered, Calls
  <1>3. call.op = "poll" => job'[call.stg] # None
    BY <1>2 DEF IInv, Calling, Grows
  <1>4. a = "refused" => a # "ok"
    OBVIOUS
  <1>5. call.job \in approved /\ (call.op = "put" => remote[call.job].up < Artifacts)
    BY DEF IInv, Calling
  <1>6. /\ call.op = "stage" => remote[call.job] = None
        /\ call.op # "stage" => remote[call.job] # None /\ call.stg = remote[call.job].stg
    BY DEF IInv, Calling
  <1>7. Calling'
    BY <1>1, <1>3, <1>4, <1>5, <1>6 DEF Calling
  <1>8. Answering' = 0
    BY <1>1, <1>4 DEF Answering
  <1> QED
    BY <1>7, <1>8

\* Reservations taken out of the store.
LEMMA Emptied ==
    ASSUME IInv, NEW st, NEW fs,
           st \in [Made -> {None} \cup Reservations], fs \in [Made -> SUBSET AllOf]
    PROVE  /\ st \in Seq({None} \cup Reservations) /\ Len(st) = Len(staging)
           /\ fs \in Seq(SUBSET AllOf) /\ Len(fs) = Len(staging)
  <1>1. Len(staging) \in Nat
    BY DEF IInv, Stored
  <1>2. st \in Seq({None} \cup Reservations) /\ Len(st) = Len(staging)
    BY <1>1, SeqDef DEF Made
  <1>3. fs \in Seq(SUBSET AllOf) /\ Len(fs) = Len(staging)
    BY <1>1, SeqDef DEF Made
  <1> QED
    BY <1>2, <1>3

LEMMA WithoutFacts ==
    ASSUME IInv, NEW gone, Without(gone)
    PROVE  /\ staging' \in Seq({None} \cup Reservations) /\ Len(staging') = Len(staging)
           /\ files' \in Seq(SUBSET AllOf) /\ Len(files') = Len(staging)
           /\ \A s \in Made : staging'[s] = None \/ staging'[s] = staging[s]
           /\ \A s \in Made : s \notin gone => staging'[s] = staging[s]
  <1>1. /\ DOMAIN staging = Made /\ DOMAIN files = Made
        /\ \A s \in Made : staging[s] \in {None} \cup Reservations
        /\ \A s \in Made : files[s] \in SUBSET AllOf
    BY Bounded DEF IInv
  <1>2. /\ staging' \in [Made -> {None} \cup Reservations] /\ files' \in [Made -> SUBSET AllOf]
        /\ \A s \in Made : staging'[s] = None \/ staging'[s] = staging[s]
        /\ \A s \in Made : s \notin gone => staging'[s] = staging[s]
    BY <1>1 DEF Without
  <1> QED
    BY <1>2, Emptied

\* Nobody gains an owner when reservations go.
LEMMA OwnerEmptied ==
    ASSUME IInv, Len(staging') = Len(staging), staging' \in Seq({None} \cup Reservations),
           \A s \in Made : staging'[s] = None \/ staging'[s] = staging[s],
           UNCHANGED <<upload, late, txs>>
    PROVE  \A s \in Stagings, j \in Jobs : Owner(s, j)' => Owner(s, j)
  <1>1. DOMAIN staging' = Made /\ DOMAIN staging = Made
    BY Bounded DEF IInv, Made
  <1> QED
    BY <1>1 DEF Owner

LEMMA StageFullKeeps ==
    ASSUME IInv, StageFull
    PROVE  IInv'
  <1>1. /\ call # None /\ call.op = "stage" /\ call.answer = None /\ work = None
        /\ Without(Collectable) /\ bytes' = bytes \ Collectable /\ Answer("refused")
        /\ UNCHANGED <<plans, mac, job, promoted, catalog, subsidy, work, uploads, chain, faults>>
    BY DEF StageFull, Waits
  <1>2. UNCHANGED <<deploy, seq, asked, approved, lapsed, remote, ended, latest, job, promoted,
                    catalog, subsidy, work, upload, late, txs, head, edition, faults>>
    BY <1>1 DEF plans, mac, uploads, chain
  <1>3. /\ staging' \in Seq({None} \cup Reservations) /\ Len(staging') = Len(staging)
        /\ files' \in Seq(SUBSET AllOf) /\ Len(files') = Len(staging)
        /\ \A s \in Made : staging'[s] = None \/ staging'[s] = staging[s]
    BY <1>1, WithoutFacts
  <1>4. "refused" \in Answers /\ "refused" # "ok" /\ None # "ok"
    BY NoneAssumption DEF Answers
  <1>5. Answering = 0 /\ upload = None
    BY <1>1, <1>4 DEF Answering, IInv, Stored, Waits
  <1>6. Answering' = 0
    BY <1>1, <1>4, AnswerFacts DEF Answering
  <1>7. Stored'
    BY <1>2, <1>3, <1>5, <1>6 DEF IInv, Stored, Made, Owning
  <1>8. Grows
    BY <1>2, <1>3 DEF Grows, IInv, Stored
  <1>9. Calling'
    BY <1>1, <1>2, <1>4, <1>7, <1>8, AnswerCalling
  <1>10. Owned'
    BY <1>2, <1>3, OwnerEmptied, OwnedFrame
  <1>11. Working'
    <2>1. \A s \in Stagings : s \in bytes /\ Active(s) => s \in bytes'
      BY <1>1 DEF Collectable
    <2> QED
      BY <1>2, <2>1, Unsponsored, WorkingFrame DEF IInv
  <1>12. Polling'
    BY <1>1, <1>2, NoPolling
  <1> QED
    BY <1>2, <1>7, <1>8, <1>9, <1>10, <1>11, <1>12, RouteKeeps

\* A reservation is made: nobody has named it before.
LEMMA StageKeeps ==
    ASSUME IInv, Stage
    PROVE  IInv'
  <1>1. PICK st, fs, n, rec :
           /\ st = [s \in DOMAIN staging |-> IF s \in Collectable THEN None ELSE staging[s]]
           /\ fs = [s \in DOMAIN files |-> IF s \in Collectable THEN {} ELSE files[s]]
           /\ n = Len(staging) + 1 /\ rec = [job |-> call.job, up |-> {}]
    OBVIOUS
  <1>2. /\ call # None /\ call.op = "stage" /\ call.answer = None /\ work = None
        /\ staging' = Append(st, rec) /\ files' = Append(fs, {})
        /\ bytes' = bytes \ Collectable
        /\ call' = [call EXCEPT !.answer = "ok", !.stg = n]
        /\ UNCHANGED <<plans, mac, job, promoted, catalog, subsidy, work, uploads, chain, faults>>
    BY <1>1 DEF Stage, Waits
  <1>3. UNCHANGED <<deploy, seq, asked, approved, lapsed, remote, ended, latest, job, promoted,
                    catalog, subsidy, work, upload, late, txs, head, edition, faults>>
    BY <1>2 DEF plans, mac, uploads, chain
  <1>4. /\ st \in Seq({None} \cup Reservations) /\ Len(st) = Len(staging)
        /\ fs \in Seq(SUBSET AllOf) /\ Len(fs) = Len(staging)
        /\ \A s \in Made : st[s] = None \/ st[s] = staging[s]
    <2>1. /\ DOMAIN staging = Made /\ DOMAIN files = Made
          /\ \A s \in Made : staging[s] \in {None} \cup Reservations
          /\ \A s \in Made : files[s] \in SUBSET AllOf
      BY Bounded DEF IInv
    <2>2. /\ st \in [Made -> {None} \cup Reservations] /\ fs \in [Made -> SUBSET AllOf]
          /\ \A s \in Made : st[s] = None \/ st[s] = staging[s]
      BY <1>1, <2>1
    <2> QED
      BY <2>2, Emptied
  <1>5. /\ call \in Calls /\ call.job \in Jobs /\ remote[call.job] = None /\ call.job \in approved
    BY <1>2 DEF IInv, Calling, Calls
  <1>6. rec \in Reservations /\ rec.job = call.job
    BY <1>1, <1>5 DEF Reservations
  <1>7. Len(staging) \in Nat /\ n \in Nat
    BY <1>1 DEF IInv, Stored
  <1>8. /\ staging' \in Seq({None} \cup Reservations) /\ Len(staging') = n
        /\ files' \in Seq(SUBSET AllOf) /\ Len(files') = n
        /\ \A s \in Made : staging'[s] = st[s]
        /\ staging'[n] = rec
    <2>1. rec \in {None} \cup Reservations /\ {} \in SUBSET AllOf
      BY <1>6
    <2> QED
      BY <1>1, <1>2, <1>4, <1>7, <2>1 DEF Made
  <1>9. /\ Cardinality(Owning) \in Nat /\ Cardinality(Owning) < MaxJobs
    BY <1>5, Counted DEF IInv, Remembered
  <1>10. Answering = 0 /\ upload = None
    <2>1. None # "ok"
      BY NoneAssumption DEF Answers
    <2> QED
      BY <1>2, <2>1 DEF Answering, IInv, Stored, Waits
  <1>11. n <= Cardinality(Owning) + faults + 1 /\ faults \in 0 .. MaxFaults
    BY <1>1, <1>7, <1>9, <1>10, Numbers DEF IInv, Stored
  <1>12. n \in Stagings /\ n \notin Made /\ Made' = Made \cup {n}
    <2>1. n <= MaxJobs + MaxFaults /\ n >= 1
      BY <1>1, <1>7, <1>9, <1>11, Numbers
    <2>2. n \in Stagings /\ n \notin Made
      BY <1>1, <1>7, <2>1, Numbers DEF Stagings, Made
    <2> QED
      BY <1>1, <1>7, <1>8, <2>2 DEF Made
  <1>13. /\ call' \in Calls /\ call'.job = call.job /\ call'.op = "stage" /\ call'.answer = "ok"
         /\ call'.stg = n
    <2>1. "ok" \in {None} \cup Answers
      BY DEF Answers
    <2> QED
      BY <1>2, <1>5, <1>12, <2>1 DEF Calls
  <1>14. Stored'
    <2>1. ASSUME call' # None PROVE Len(staging') <= Cardinality(Owning)' + faults' + Answering'
      <3>1. Answering' = 1 /\ Cardinality(Owning)' = Cardinality(Owning)
        BY <1>3, <1>13, <2>1 DEF Answering, Owning
      <3> QED
        BY <1>3, <1>8, <1>11, <3>1
    <2>2. call' # None
      BY <1>13, NoneAssumption
    <2> QED
      BY <1>3, <1>8, <1>10, <1>12, <2>1, <2>2 DEF IInv, Stored
  <1>15. Grows
    BY <1>1, <1>3, <1>7, <1>8 DEF Grows
  <1>16. Calling'
    BY <1>3, <1>5, <1>12, <1>13 DEF Calling
  <1>17. Owned'
    <2>1. ASSUME NEW s \in Stagings, NEW j \in Jobs, Owner(s, j)'
          PROVE  Owner(s, j) \/ (s = n /\ j = call.job)
      <3>1. DOMAIN staging' = Made \cup {n} /\ DOMAIN staging = Made
        BY <1>8, <1>12, Bounded DEF IInv, Made
      <3>2. CASE s \in DOMAIN staging' /\ staging'[s] # None /\ staging'[s].job = j
        BY <1>4, <1>6, <1>8, <3>1, <3>2 DEF Owner
      <3>3. CASE ~ (s \in DOMAIN staging' /\ staging'[s] # None /\ staging'[s].job = j)
        BY <1>3, <2>1, <3>3 DEF Owner
      <3> QED
        BY <3>2, <3>3
    <2>2. ASSUME NEW j, Owner(n, j) PROVE FALSE
      BY <1>12, <2>2, Unsponsored, Bounded DEF Owner, IInv, Stored, Mined
    <2>3. deploy[call.job] # "none"
      BY <1>5 DEF IInv, Planned
    <2>4. subsidy # n
      BY <1>12, Unsponsored, Numbers
    <2>5. \A s \in Stagings, j, k \in Jobs : Owner(s, j)' /\ Owner(s, k)' => j = k
      BY <2>1, <2>2 DEF IInv, Owned
    <2>6. \A s \in Stagings, j \in Jobs : Owner(s, j)' => deploy'[j] # "none"
      BY <1>3, <2>1, <2>3 DEF IInv, Owned
    <2>7. PICK b : b = subsidy /\ b = subsidy'
      BY <1>3
    <2>8. b # None => \A j \in Jobs : Owner(b, j)' => seq'[j] = 1
      BY <1>3, <2>1, <2>4, <2>7, Unsponsored DEF IInv, Owned
    <2>9. subsidy' # None => \A j \in Jobs : Owner(subsidy, j)' => seq'[j] = 1
      BY <2>7, <2>8 DEF Owner
    <2> QED
      BY <2>5, <2>6, <2>9 DEF Owned
  <1>18. Working'
    <2>1. \A s \in Stagings : s \in bytes /\ Active(s) => s \in bytes'
      BY <1>2 DEF Collectable
    <2> QED
      BY <1>3, <2>1, Unsponsored, WorkingFrame DEF IInv
  <1>19. Polling'
    BY <1>2, <1>3, NoPolling
  <1> QED
    BY <1>3, <1>14, <1>15, <1>16, <1>17, <1>18, <1>19, RouteKeeps

\* A job file is written.
LEMMA WorkingSet ==
    ASSUME IInv, NEW s \in Stagings, NEW m \in JobState, job' = [job EXCEPT ![s] = m], Sent(s, m)',
           UNCHANGED <<txs, subsidy>>, promoted \subseteq promoted',
           m.status = "active" /\ m.blobs => Safe(s)',
           m.status = "active" /\ s = subsidy /\ txs # <<>> => Safe(s)',
           \A x \in Stagings : x # s /\ x \in bytes /\ Active(x) => x \in bytes'
    PROVE  Working' /\ job'[s] = m /\ \A x \in Stagings : x # s => job'[x] = job[x]
  <1>1. /\ DOMAIN job' = Stagings /\ job'[s] = m
        /\ \A x \in Stagings : x # s => job'[x] = job[x]
    BY DEF IInv, Working
  <1>2. \A x \in Stagings : x # s /\ Active(x) /\ Safe(x) => Safe(x)'
    BY DEF Safe
  <1>3. \A x \in Stagings : x # s => (Active(x)' <=> Active(x))
    BY <1>1 DEF Active
  <1>4. ASSUME NEW x \in Stagings, job'[x] # None
        PROVE  /\ job'[x] \in JobState /\ Sent(x, job[x])'
               /\ job'[x].status = "active" /\ job'[x].blobs => Safe(x)'
    <2>1. CASE x = s
      BY <1>1, <2>1 DEF Sent
    <2>2. CASE x # s
      <3>1. job[x] # None /\ job'[x] = job[x]
        BY <1>1, <1>4, <2>2
      <3>2. job[x] \in JobState /\ Sent(x, job[x]) /\ (job[x].status = "active" /\ job[x].blobs => Safe(x))
        BY <3>1 DEF IInv, Working
      <3>3. job[x].status = "active" => Active(x)
        BY <3>1 DEF Active
      <3> QED
        BY <1>2, <2>2, <3>1, <3>2, <3>3 DEF Sent
    <2> QED
      BY <2>1, <2>2
  <1>5. ASSUME txs' # <<>>, Active(subsidy)' PROVE Safe(subsidy)'
    <2>1. subsidy \in Stagings /\ txs # <<>>
      BY <1>5, Unsponsored
    <2>2. CASE subsidy = s
      <3>1. m.status = "active"
        BY <1>1, <1>5, <2>2 DEF Active
      <3> QED
        BY <2>1, <2>2, <3>1 DEF Safe
    <2>3. CASE subsidy # s
      <3>1. Active(subsidy)
        BY <1>1, <1>5, <2>1, <2>3 DEF Active
      <3>2. Safe(subsidy)
        BY <2>1, <3>1 DEF IInv, Working
      <3> QED
        BY <1>2, <2>1, <2>3, <3>1, <3>2 DEF Safe
    <2> QED
      BY <2>2, <2>3
  <1> QED
    BY <1>1, <1>4, <1>5 DEF Working

LEMMA BeginPutKeeps ==
    ASSUME IInv, BeginPut
    PROVE  IInv'
  <1>1. PICK s : s = call.stg
    OBVIOUS
  <1>2. /\ call # None /\ call.op = "put" /\ call.answer = None /\ upload = None
        /\ \/ /\ Authorized(s) /\ call' = call
              /\ upload' = [stg |-> s, art |-> remote[call.job].up + 1, rec |-> staging[s]]
           \/ Answer("refused") /\ upload' = upload
        /\ UNCHANGED <<plans, mac, store, job, public, subsidy, work, late, chain, faults>>
    BY <1>1 DEF BeginPut, Waits
  <1>3. UNCHANGED <<deploy, seq, asked, approved, lapsed, remote, ended, latest, staging, files, job,
                    bytes, promoted, catalog, subsidy, work, late, txs, head, edition, faults>>
    BY <1>2 DEF plans, mac, store, public, chain
  <1>4. /\ call.job \in Jobs /\ remote[call.job] # None /\ s = remote[call.job].stg
        /\ remote[call.job].up < Artifacts
    BY <1>1, <1>2 DEF IInv, Calling, Calls
  <1>5. s \in Made /\ s \in Stagings /\ remote[call.job] \in RemoteState /\ Made' = Made
    BY <1>3, <1>4, Bounded DEF IInv, Remembered, Made
  <1>6. Grows
    BY <1>3 DEF Grows, IInv, Stored
  <1>7. Working'
    BY <1>3, Unsponsored, WorkingFrame DEF IInv
  <1>8. Polling'
    <2>1. \A x \in Made : staging[x] # None => staging'[x] # None /\ staging'[x].job = staging[x].job
      BY <1>3
    <2>2. work # None => ~ work.heard
      BY <1>2 DEF IInv, Polling, Waits, Works
    <2> QED
      BY <1>3, <2>1, <2>2, PollingFrame
  <1>9. ASSUME Authorized(s), call' = call,
               upload' = [stg |-> s, art |-> remote[call.job].up + 1, rec |-> staging[s]]
        PROVE  IInv'
    <2>1. staging[s] # None /\ staging[s] \in Reservations /\ s \in DOMAIN staging
      BY <1>5, <1>9, Bounded DEF IInv, Authorized
    <2>2. PICK n : n = remote[call.job].up + 1
      OBVIOUS
    <2>3. n \in AllOf
      BY <1>4, <1>5, <2>2, Numbers DEF RemoteState, AllOf
    <2>4. /\ upload' \in Receiving /\ upload'.stg = s /\ upload'.rec = staging[s]
      BY <1>5, <1>9, <2>1, <2>2, <2>3 DEF Receiving
    <2>5. Stored'
      BY <1>2, <1>3, <1>5, <1>9, <2>4 DEF IInv, Stored, Owning, Answering, Waits
    <2>6. Calling'
      BY <1>3, <1>6, <1>9, <2>5, CallingFrame
    <2>7. \A x \in Stagings, j \in Jobs : Owner(x, j)' => Owner(x, j)
      BY <1>2, <1>3, <2>1, <2>4 DEF Owner
    <2>8. Owned'
      BY <1>3, <2>7, OwnedFrame
    <2> QED
      BY <1>3, <1>6, <1>7, <1>8, <2>5, <2>6, <2>8, RouteKeeps
  <1>10. ASSUME Answer("refused"), upload' = upload PROVE IInv'
    <2>1. "refused" \in Answers /\ "refused" # "ok"
      BY DEF Answers
    <2>2. Answering = 0 /\ Answering' = 0
      BY <1>2, <1>10, <2>1, AnswerFacts DEF Answering
    <2>3. Stored'
      BY <1>2, <1>3, <1>5, <1>10, <2>2 DEF IInv, Stored, Owning
    <2>4. Calling'
      BY <1>2, <1>3, <1>6, <1>10, <2>1, <2>3, AnswerCalling
    <2>5. Owned'
      BY <1>3, <1>10, OwnerFrame, OwnedFrame
    <2> QED
      BY <1>3, <1>6, <1>7, <1>8, <2>3, <2>4, <2>5, RouteKeeps
  <1> QED
    BY <1>2, <1>9, <1>10

\* A body arrives: the record names the job that it named before.
LEMMA ReceiveFacts ==
    ASSUME IInv, NEW u \in Receiving, u.stg \in Made, Owner(u.stg, u.rec.job), Receive(u)
    PROVE  /\ staging' \in Seq({None} \cup Reservations) /\ Len(staging') = Len(staging)
           /\ files' \in Seq(SUBSET AllOf) /\ Len(files') = Len(staging)
           /\ \A s \in Made : \/ staging'[s] = staging[s]
                              \/ s = u.stg /\ staging'[s].job = u.rec.job
           /\ \A s \in Made : staging[s] # None => staging'[s] # None /\ staging'[s].job = staging[s].job
  <1>1. PICK x, f, r : /\ x = u.stg /\ f = files[x] \cup {u.art}
                       /\ r = [u.rec EXCEPT !.up = u.rec.up \cup {u.art}]
    OBVIOUS
  <1>2. staging' = [staging EXCEPT ![x] = r] /\ files' = [files EXCEPT ![x] = f]
    BY <1>1 DEF Receive
  <1>3. /\ x \in Made /\ x \in Stagings /\ u.art \in AllOf /\ u.rec \in Reservations
        /\ u.rec.job \in Jobs
    BY <1>1, Bounded DEF IInv, Receiving, Reservations
  <1>4. r \in Reservations /\ r.job = u.rec.job /\ r # None
    BY <1>1, <1>3, NoneAssumption DEF Reservations
  <1>5. f \in SUBSET AllOf
    BY <1>1, <1>3, Bounded DEF IInv
  <1>6. /\ staging \in Seq({None} \cup Reservations) /\ files \in Seq(SUBSET AllOf)
        /\ Len(files) = Len(staging) /\ DOMAIN staging = Made /\ DOMAIN files = Made
    BY Bounded DEF IInv, Stored
  <1>7. /\ staging' \in Seq({None} \cup Reservations) /\ Len(staging') = Len(staging)
        /\ \A s \in Made : staging'[s] = IF s = x THEN r ELSE staging[s]
    BY <1>2, <1>3, <1>4, <1>6, ExceptSeq DEF Made
  <1>8. files' \in Seq(SUBSET AllOf) /\ Len(files') = Len(staging)
    BY <1>2, <1>3, <1>5, <1>6, ExceptSeq DEF Made
  <1>9. ASSUME staging[x] # None PROVE staging[x].job = r.job
    <2>1. staging[x] \in Reservations /\ staging[x].job \in Jobs
      BY <1>3, <1>9, Bounded DEF IInv, Reservations
    <2>2. Owner(x, staging[x].job)
      BY <1>3, <1>6, <1>9 DEF Owner
    <2> QED
      BY <1>1, <1>3, <1>4, <2>1, <2>2 DEF IInv, Owned
  <1> QED
    BY <1>1, <1>4, <1>7, <1>8, <1>9

LEMMA OwnerReceived ==
    ASSUME IInv, NEW u \in Receiving, u.stg \in Made, Owner(u.stg, u.rec.job), Receive(u),
           upload' \in {None, upload}, late' \in {None, late}
    PROVE  Owned'
  <1>1. UNCHANGED <<deploy, seq, subsidy, txs>>
    BY DEF Receive, plans, chain
  <1>2. DOMAIN staging' = Made /\ DOMAIN staging = Made
    BY ReceiveFacts, Bounded DEF IInv, Made
  <1>3. ASSUME NEW s \in Stagings, NEW j \in Jobs, Owner(s, j)' PROVE Owner(s, j)
    <2>1. CASE s \in DOMAIN staging' /\ staging'[s] # None /\ staging'[s].job = j
      <3>1. \/ staging'[s] = staging[s]
            \/ s = u.stg /\ j = u.rec.job
        BY <1>2, <2>1, ReceiveFacts
      <3> QED
        BY <1>2, <2>1, <3>1 DEF Owner
    <2>2. CASE ~ (s \in DOMAIN staging' /\ staging'[s] # None /\ staging'[s].job = j)
      BY <1>1, <1>3, <2>2 DEF Owner
    <2> QED
      BY <2>1, <2>2
  <1> QED
    BY <1>1, <1>3, OwnedFrame

LEMMA FinishPutKeeps ==
    ASSUME IInv, FinishPut
    PROVE  IInv'
  <1>1. /\ upload # None /\ Receive(upload) /\ Answer("ok") /\ upload' = None /\ late' = late
        /\ UNCHANGED <<plans, mac, job, public, subsidy, work, chain, faults>>
    BY DEF FinishPut, Receive
  <1>2. UNCHANGED <<deploy, seq, asked, approved, lapsed, remote, ended, latest, job,
                    bytes, promoted, catalog, subsidy, work, late, txs, head, edition, faults>>
    BY <1>1 DEF plans, mac, public, chain
  <1>3. /\ upload \in Receiving /\ upload.stg \in Made /\ Owner(upload.stg, upload.rec.job)
        /\ call # None /\ call.op = "put" /\ call.answer = None
    BY <1>1 DEF IInv, Stored, Waits, Owner
  <1>4. /\ staging' \in Seq({None} \cup Reservations) /\ Len(staging') = Len(staging)
        /\ files' \in Seq(SUBSET AllOf) /\ Len(files') = Len(staging)
        /\ \A s \in Made : staging[s] # None => staging'[s] # None /\ staging'[s].job = staging[s].job
    BY <1>1, <1>3, ReceiveFacts
  <1>5. "ok" \in Answers
    BY DEF Answers
  <1>6. Answering = 0 /\ Answering' = 0 /\ Made' = Made
    BY <1>1, <1>3, <1>4, <1>5, AnswerFacts DEF Answering, Made
  <1>7. Stored'
    BY <1>1, <1>2, <1>4, <1>6 DEF IInv, Stored, Owning
  <1>8. Grows
    BY <1>2, <1>4 DEF Grows, IInv, Stored
  <1>9. Calling'
    BY <1>1, <1>2, <1>3, <1>5, <1>7, <1>8, AnswerCalling
  <1>10. Owned'
    BY <1>1, <1>3, OwnerReceived
  <1>11. Working'
    BY <1>2, Unsponsored, WorkingFrame DEF IInv
  <1>12. Polling'
    <2>1. work # None => ~ work.heard
      BY <1>3 DEF IInv, Polling, Waits, Works
    <2> QED
      BY <1>2, <1>4, <2>1, PollingFrame
  <1> QED
    BY <1>2, <1>7, <1>8, <1>9, <1>10, <1>11, <1>12, RouteKeeps

LEMMA FinishLateKeeps ==
    ASSUME IInv, FinishLate
    PROVE  IInv'
  <1>1. /\ late # None /\ Receive(late) /\ late' = None /\ call' = call /\ upload' = upload
        /\ UNCHANGED <<plans, mac, job, public, subsidy, work, chain, faults>>
    BY DEF FinishLate, Receive
  <1>2. UNCHANGED <<deploy, seq, asked, approved, lapsed, remote, ended, latest, job, call, upload,
                    bytes, promoted, catalog, subsidy, work, txs, head, edition, faults>>
    BY <1>1 DEF plans, mac, public, chain
  <1>3. /\ late \in Receiving /\ late.stg \in Made /\ Owner(late.stg, late.rec.job)
    BY <1>1 DEF IInv, Stored, Owner
  <1>4. /\ staging' \in Seq({None} \cup Reservations) /\ Len(staging') = Len(staging)
        /\ files' \in Seq(SUBSET AllOf) /\ Len(files') = Len(staging)
        /\ \A s \in Made : staging[s] # None => staging'[s] # None /\ staging'[s].job = staging[s].job
    BY <1>1, <1>3, ReceiveFacts
  <1>5. Answering' = Answering /\ Made' = Made
    BY <1>2, <1>4 DEF Answering, Made
  <1>6. Stored'
    BY <1>1, <1>2, <1>4, <1>5 DEF IInv, Stored, Owning, Waits
  <1>7. Grows
    BY <1>2, <1>4 DEF Grows, IInv, Stored
  <1>8. Calling'
    BY <1>2, <1>6, <1>7, CallingFrame
  <1>9. Owned'
    BY <1>1, <1>3, OwnerReceived
  <1>10. Working'
    BY <1>2, Unsponsored, WorkingFrame DEF IInv
  <1>11. Polling'
    BY <1>2, <1>4, PollingFrame
  <1> QED
    BY <1>2, <1>6, <1>7, <1>8, <1>9, <1>10, <1>11, RouteKeeps

\* A job that is new has sent nothing.
LEMMA PublishKeeps ==
    ASSUME IInv, Publish
    PROVE  IInv'
  <1>1. PICK s, a : /\ s = call.stg /\ a \in {"ok", "refused"} /\ Answer(a)
                    /\ \/ job' = job /\ (a = "ok" => job[s] # None)
                       \/ job[s] = None /\ job' = [job EXCEPT ![s] = NewJob]
    <2>1. PICK s : s = call.stg
      OBVIOUS
    <2>2. PICK fit \in BOOLEAN :
             /\ Answer(IF fit THEN "ok" ELSE "refused")
             /\ job' = IF fit /\ job[s] = None THEN [job EXCEPT ![s] = NewJob] ELSE job
      BY <2>1 DEF Publish
    <2>3. CASE fit
      BY <2>1, <2>2, <2>3
    <2>4. CASE ~fit
      BY <2>1, <2>2, <2>4
    <2> QED
      BY <2>3, <2>4
  <1>2. /\ call # None /\ call.op = "publish" /\ call.answer = None
        /\ UNCHANGED <<plans, mac, store, public, subsidy, work, uploads, chain, faults>>
    BY DEF Publish, Waits
  <1>3. UNCHANGED <<deploy, seq, asked, approved, lapsed, remote, ended, latest, staging, files,
                    bytes, promoted, catalog, subsidy, work, upload, late, txs, head, edition, faults>>
    BY <1>2 DEF plans, mac, store, public, uploads, chain
  <1>4. s \in Made /\ s \in Stagings
    BY <1>1, <1>2, Bounded DEF IInv, Calling, Calls, Remembered
  <1>5. NewJob \in JobState /\ NewJob # None /\ ~NewJob.blobs /\ \A k \in KindSet : NewJob[k] = 0
    <2>1. NewJob \in JobState
      BY DEF NewJob, JobState
    <2>2. NewJob # None
      BY <2>1, NoneAssumption
    <2>3. ~NewJob.blobs /\ \A k \in KindSet : NewJob[k] = 0
      BY DEF NewJob, KindSet
    <2> QED
      BY <2>1, <2>2, <2>3
  <1>6. /\ Working' /\ (a = "ok" => job'[s] # None)
        /\ \A x \in Stagings : job[x] # None => job'[x] = job[x]
    <2>1. CASE job' = job /\ (a = "ok" => job[s] # None)
      BY <1>3, <2>1, Unsponsored, WorkingFrame DEF IInv
    <2>2. CASE job[s] = None /\ job' = [job EXCEPT ![s] = NewJob]
      <3>1. Sent(s, NewJob)'
        BY <1>5 DEF Sent, NewJob
      <3>2. s # subsidy
        BY <1>4, <2>2, Numbers DEF IInv, Mined
      <3>3. NewJob.status = "active" /\ NewJob.blobs => Safe(s)'
        BY <1>5
      <3>4. NewJob.status = "active" /\ s = subsidy /\ txs # <<>> => Safe(s)'
        BY <3>2
      <3>5. \A x \in Stagings : x # s /\ x \in bytes /\ Active(x) => x \in bytes'
        BY <1>3
      <3>6. Working' /\ job'[s] = NewJob /\ \A x \in Stagings : x # s => job'[x] = job[x]
        BY <1>3, <1>4, <1>5, <2>2, <3>1, <3>3, <3>4, <3>5, WorkingSet
      <3> QED
        BY <1>5, <2>2, <3>6
    <2> QED
      BY <1>1, <2>1, <2>2
  <1>7. Grows
    BY <1>3, <1>6 DEF Grows, IInv, Stored
  <1>8. a \in Answers
    BY <1>1 DEF Answers
  <1>9. Answering = 0 /\ Answering' = 0 /\ upload = None
    BY <1>1, <1>2, <1>8, AnswerFacts DEF Answering, IInv, Stored, Waits
  <1>10. Stored'
    BY <1>3, <1>9 DEF IInv, Stored, Owning, Made
  <1>11. Calling'
    BY <1>1, <1>2, <1>3, <1>6, <1>7, <1>8, <1>10, AnswerCalling
  <1>12. Owned'
    BY <1>3, OwnerFrame, OwnedFrame
  <1>13. Polling'
    <2>1. work # None => ~ work.heard
      BY <1>2 DEF IInv, Polling, Waits, Works
    <2>2. work # None => job'[work.stg] = job[work.stg]
      BY <1>6, Bounded DEF IInv, Polling
    <2>3. \A x \in Made : staging[x] # None => staging'[x] # None /\ staging'[x].job = staging[x].job
      BY <1>3
    <2> QED
      BY <1>3, <2>1, <2>2, <2>3, PollingFrame
  <1> QED
    BY <1>3, <1>6, <1>7, <1>10, <1>11, <1>12, <1>13, RouteKeeps

LEMMA PollSettledKeeps ==
    ASSUME IInv, PollSettled
    PROVE  IInv'
  <1>1. PICK s : s = call.stg
    OBVIOUS
  <1>2. /\ call # None /\ call.op = "poll" /\ call.answer = None /\ work = None
        /\ \/ /\ Answer("refused") /\ UNCHANGED <<store, job, bytes>>
           \/ /\ job[s].status = "complete"
              /\ Without({s}) /\ bytes' = bytes \ {s}
              /\ job' = [job EXCEPT ![s].cleanup = TRUE]
              /\ Answer("complete")
        /\ UNCHANGED <<plans, mac, promoted, catalog, subsidy, work, uploads, chain, faults>>
    BY <1>1 DEF PollSettled, Waits
  <1>3. UNCHANGED <<deploy, seq, asked, approved, lapsed, remote, ended, latest, promoted,
                    catalog, subsidy, work, upload, late, txs, head, edition, faults>>
    BY <1>2 DEF plans, mac, uploads, chain
  <1>4. s \in Made /\ s \in Stagings /\ job[s] # None /\ job[s] \in JobState /\ Sent(s, job[s])
    BY <1>1, <1>2, Bounded DEF IInv, Calling, Calls, Remembered, Working
  <1>5. /\ staging' \in Seq({None} \cup Reservations) /\ Len(staging') = Len(staging)
        /\ files' \in Seq(SUBSET AllOf) /\ Len(files') = Len(staging)
        /\ \A x \in Made : staging'[x] = None \/ staging'[x] = staging[x]
    <2>1. CASE UNCHANGED store
      BY <2>1 DEF store, IInv, Stored
    <2>2. CASE Without({s})
      BY <2>2, WithoutFacts
    <2> QED
      BY <1>2, <2>1, <2>2
  <1>6. Working' /\ \A x \in Stagings : job[x] # None => job'[x] # None
    <2>1. CASE UNCHANGED <<store, job, bytes>>
      BY <1>3, <2>1, Unsponsored, WorkingFrame DEF IInv
    <2>2. CASE /\ job[s].status = "complete" /\ bytes' = bytes \ {s}
               /\ job' = [job EXCEPT ![s].cleanup = TRUE]
      <3>1. PICK m : m = [job[s] EXCEPT !.cleanup = TRUE]
        OBVIOUS
      <3>2. job' = [job EXCEPT ![s] = m]
        BY <2>2, <3>1
      <3>3. m \in JobState /\ m.status = "complete" /\ \A k \in KindSet : m[k] = job[s][k]
        BY <1>4, <2>2, <3>1 DEF JobState, KindSet
      <3>4. Sent(s, m)'
        BY <1>3, <1>4, <3>3 DEF Sent
      <3>5. m # None
        BY <3>3, NoneAssumption
      <3>6. m.status # "active"
        BY <3>3
      <3>7. \A x \in Stagings : x # s /\ x \in bytes /\ Active(x) => x \in bytes'
        BY <2>2
      <3>8. Working' /\ job'[s] = m /\ \A x \in Stagings : x # s => job'[x] = job[x]
        BY <1>3, <1>4, <3>2, <3>3, <3>4, <3>6, <3>7, WorkingSet
      <3> QED
        BY <3>5, <3>8
    <2> QED
      BY <1>2, <2>1, <2>2
  <1>7. Grows
    BY <1>5, <1>6 DEF Grows, IInv, Stored
  <1>8. PICK a : a \in {"refused", "complete"} /\ Answer(a)
    BY <1>2
  <1>9. a \in Answers
    BY <1>8 DEF Answers
  <1>10. Answering = 0 /\ Answering' = 0 /\ upload = None
    BY <1>2, <1>8, <1>9, AnswerFacts DEF Answering, IInv, Stored, Waits
  <1>11. Stored'
    BY <1>3, <1>5, <1>10 DEF IInv, Stored, Owning, Made
  <1>12. Calling'
    BY <1>2, <1>3, <1>7, <1>8, <1>9, <1>11, AnswerCalling
  <1>13. Owned'
    BY <1>3, <1>5, OwnerEmptied, OwnedFrame
  <1>14. Polling'
    BY <1>2, <1>3, NoPolling
  <1> QED
    BY <1>3, <1>6, <1>7, <1>11, <1>12, <1>13, <1>14, RouteKeeps

LEMMA RouteStep ==
    ASSUME IInv, Routes
    PROVE  IInv'
  BY StageFullKeeps, StageKeeps, BeginPutKeeps, FinishPutKeeps, PublishKeeps, PollSettledKeeps
     DEF Routes

\* Neither thirty minutes nor a minute changes what anything rests on.
LEMMA TimeKeeps ==
    ASSUME IInv, UNCHANGED <<deploy, seq, asked, approved, lapsed, mac, call, store, job, public,
                             subsidy, work, uploads, txs, head, edition, faults>>
    PROVE  IInv'
  <1>1. UNCHANGED <<deploy, seq, asked, approved, lapsed, remote, ended, latest, call, staging, files,
                    job, bytes, promoted, catalog, subsidy, work, upload, late, txs, head, edition,
                    faults>>
    BY DEF mac, store, public, uploads
  <1>2. Stored'
    BY <1>1, StoredFrame DEF IInv
  <1>3. Grows
    BY <1>1 DEF Grows, IInv, Stored
  <1>4. Calling'
    BY <1>1, <1>2, <1>3, CallingFrame
  <1>5. Owned'
    BY <1>1, OwnerFrame, OwnedFrame
  <1>6. Working'
    BY <1>1, Unsponsored, WorkingFrame DEF IInv
  <1>7. Polling'
    <2>1. \A x \in Made : staging[x] # None => staging'[x] # None /\ staging'[x].job = staging[x].job
      BY <1>1
    <2> QED
      BY <1>1, <2>1, PollingFrame
  <1> QED
    BY <1>1, <1>2, <1>3, <1>4, <1>5, <1>6, <1>7, RouteKeeps

-----------------------------------------------------------------------------
(* The poll *)

\* The operation under way, and the job it is of.
LEMMA WorkFacts ==
    ASSUME IInv, work # None
    PROVE  /\ work \in Works /\ work.stg \in Made /\ work.stg \in Stagings
           /\ job[work.stg] # None /\ job[work.stg] \in JobState
           /\ work.mem \in JobState /\ work.mem # None /\ work.mem.status # "failed"
           /\ Sent(work.stg, work.mem)
           /\ work.step \notin {"open", "save"} =>
                /\ staging[work.stg] # None /\ staging[work.stg] \in Reservations
                /\ Job \in Jobs /\ Owner(work.stg, Job)
  <1>1. /\ work \in Works /\ work.stg \in Made /\ work.stg \in Stagings /\ job[work.stg] # None
        /\ work.mem.status # "failed" /\ Sent(work.stg, work.mem)
        /\ work.step \notin {"open", "save"} => staging[work.stg] # None
    BY Bounded DEF IInv, Polling
  <1>2. job[work.stg] \in JobState
    BY <1>1 DEF IInv, Working
  <1>3. work.mem \in JobState /\ work.mem # None
    <2>1. work.mem \in JobState
      BY <1>1 DEF Works
    <2> QED
      BY <2>1, NoneAssumption
  <1>4. work.step \notin {"open", "save"} => /\ staging[work.stg] \in Reservations
                                             /\ Job \in Jobs /\ Owner(work.stg, Job)
    BY <1>1, Bounded DEF IInv, Job, Owner, Reservations
  <1> QED
    BY <1>1, <1>2, <1>3, <1>4

\* The operation ends: its caller hears of it, or has given up.
LEMMA PollEnds ==
    ASSUME IInv, work # None, NEW a \in Answers, End(a), Grows,
           faults' \in 0 .. MaxFaults, faults <= faults',
           UNCHANGED <<staging, files, remote, upload, late, approved, latest, catalog>>
    PROVE  Stored' /\ Calling' /\ Polling'
  <1>1. Polling'
    BY NoPolling DEF End
  <1>2. Made' = Made /\ Owning' = Owning
    BY DEF Made, Owning
  <1>3. Cardinality(Owning) \in Nat /\ faults \in Nat /\ faults' \in Nat
    BY Counted, Numbers DEF IInv, Stored, Remembered
  <1>4. CASE work.heard
    <2>1. call # None /\ call.op = "poll" /\ call.answer = None /\ Answer(a)
      BY <1>4 DEF End, IInv, Polling, Waits
    <2>2. Answering = 0 /\ Answering' = 0 /\ upload = None
      BY <2>1, AnswerFacts DEF Answering, IInv, Stored, Waits
    <2>3. Stored'
      BY <1>2, <1>3, <2>2, Numbers DEF IInv, Stored
    <2>4. Calling'
      BY <2>1, <2>3, AnswerCalling
    <2> QED
      BY <1>1, <2>3, <2>4
  <1>5. CASE ~work.heard
    <2>1. call' = call /\ Answering' = Answering /\ Answering \in {0, 1}
      BY <1>5 DEF End, Answering
    <2>2. Stored'
      BY <1>2, <1>3, <2>1, Numbers DEF IInv, Stored, Waits
    <2>3. Calling'
      BY <2>1, <2>2, CallingFrame
    <2> QED
      BY <1>1, <2>2, <2>3
  <1> QED
    BY <1>4, <1>5

\* A step of the operation that concerns nobody else.
LEMMA WorkKeeps ==
    ASSUME IInv, Working', Polling', \A s \in Stagings : job[s] # None => job'[s] # None,
           UNCHANGED <<deploy, seq, asked, approved, lapsed, remote, ended, latest, call, staging,
                       files, promoted, catalog, subsidy, upload, late, txs, head, edition, faults>>
    PROVE  IInv'
  <1>1. Stored'
    BY StoredFrame DEF IInv
  <1>2. Grows
    BY DEF Grows, IInv, Stored
  <1>3. Calling'
    BY <1>1, <1>2, CallingFrame
  <1>4. Owned'
    BY OwnerFrame, OwnedFrame
  <1> QED
    BY <1>1, <1>2, <1>3, <1>4, RouteKeeps

\* The job file is written and the operation ends.
LEMMA SaveKeeps ==
    ASSUME IInv, work # None, NEW m \in JobState, NEW a \in Answers, End(a),
           job' = [job EXCEPT ![work.stg] = m], Sent(work.stg, m),
           m.status = "active" => Safe(work.stg) \/ (m = job[work.stg]),
           faults' \in 0 .. MaxFaults, faults <= faults',
           UNCHANGED <<plans, mac, store, public, subsidy, uploads, chain>>
    PROVE  IInv'
  <1>1. PICK s : s = work.stg
    OBVIOUS
  <1>2. UNCHANGED <<deploy, seq, asked, approved, lapsed, remote, ended, latest, staging, files,
                    bytes, promoted, catalog, subsidy, upload, late, txs, head, edition>>
    BY DEF plans, mac, store, public, uploads, chain
  <1>3. s \in Stagings /\ job[s] # None
    BY <1>1, WorkFacts
  <1>4. job' = [job EXCEPT ![s] = m] /\ Sent(s, m)'
    BY <1>1, <1>2 DEF Sent
  <1>5. Safe(s)' <=> Safe(s)
    BY <1>2 DEF Safe
  <1>6. m.status = "active" /\ m.blobs => Safe(s)'
    BY <1>1, <1>3, <1>5 DEF IInv, Working
  <1>7. m.status = "active" /\ s = subsidy /\ txs # <<>> => Safe(s)'
    <2>1. ASSUME m.status = "active", s = subsidy, txs # <<>>, m = job[s] PROVE Safe(s)
      <3>1. Active(s)
        BY <1>3, <2>1 DEF Active
      <3> QED
        BY <2>1, <3>1 DEF IInv, Working
    <2> QED
      BY <1>1, <1>5, <2>1
  <1>8. \A x \in Stagings : x # s /\ x \in bytes /\ Active(x) => x \in bytes'
    BY <1>2
  <1>9. Working' /\ job'[s] = m /\ \A x \in Stagings : x # s => job'[x] = job[x]
    BY <1>2, <1>3, <1>4, <1>6, <1>7, <1>8, WorkingSet
  <1>10. Grows
    BY <1>2, <1>9, NoneAssumption DEF Grows, IInv, Stored
  <1>11. Stored' /\ Calling' /\ Polling'
    BY <1>2, <1>10, PollEnds
  <1>12. Owned'
    BY <1>2, OwnerFrame, OwnedFrame
  <1> QED
    BY <1>2, <1>9, <1>10, <1>11, <1>12, RouteKeeps

LEMMA FailKeeps ==
    ASSUME IInv, work # None, Fail,
           UNCHANGED <<plans, mac, store, public, subsidy, uploads, chain, faults>>
    PROVE  IInv'
  <1>1. PICK m : m = [work.mem EXCEPT !.status = "failed"]
    OBVIOUS
  <1>2. job' = [job EXCEPT ![work.stg] = m] /\ End("refused") /\ "refused" \in Answers
    BY <1>1 DEF Fail, Answers
  <1>3. work.mem \in JobState /\ Sent(work.stg, work.mem)
    BY WorkFacts
  <1>4. m \in JobState /\ m.status = "failed" /\ \A k \in KindSet : m[k] = work.mem[k]
    BY <1>1, <1>3 DEF JobState, KindSet
  <1>5. Sent(work.stg, m) /\ m.status # "active"
    BY <1>3, <1>4 DEF Sent
  <1>6. faults' \in 0 .. MaxFaults /\ faults <= faults'
    BY Numbers DEF IInv, Stored
  <1> QED
    BY <1>2, <1>4, <1>5, <1>6, SaveKeeps

LEMMA NoReservationKeeps ==
    ASSUME IInv, NoReservation
    PROVE  IInv'
  BY FailKeeps DEF NoReservation, At

LEMMA RevertedKeeps ==
    ASSUME IInv, NEW kind \in KindSet, Reverted(kind)
    PROVE  IInv'
  BY FailKeeps DEF Reverted, Due, At

LEMMA SaveJobKeeps ==
    ASSUME IInv, SaveJob
    PROVE  IInv'
  <1>1. PICK a \in {"complete", "pending"} : End(a)
    BY DEF SaveJob
  <1>2. a \in Answers
    BY DEF Answers
  <1>3. /\ work # None /\ work.step = "save" /\ job' = [job EXCEPT ![work.stg] = work.mem]
        /\ UNCHANGED <<plans, mac, store, public, subsidy, uploads, chain>>
    BY DEF SaveJob, At
  <1>4. work.mem \in JobState /\ Sent(work.stg, work.mem)
    BY <1>3, WorkFacts
  <1>5. work.mem.status = "active" => Safe(work.stg)
    BY <1>3 DEF IInv, Polling
  <1>6. faults' \in 0 .. MaxFaults /\ faults <= faults'
    BY Numbers DEF SaveJob, IInv, Stored
  <1> QED
    BY <1>1, <1>2, <1>3, <1>4, <1>5, <1>6, SaveKeeps

LEMMA StorageFailsKeeps ==
    ASSUME IInv, StorageFails
    PROVE  IInv'
  <1>1. /\ work # None /\ work.step \in {"open", "finalize"} /\ Fault /\ End("pending")
        /\ job' = [job EXCEPT ![work.stg] = work.mem]
        /\ UNCHANGED <<plans, mac, store, public, subsidy, uploads, chain>>
    BY DEF StorageFails, At
  <1>2. "pending" \in Answers
    BY DEF Answers
  <1>3. work.mem \in JobState /\ Sent(work.stg, work.mem)
    BY <1>1, WorkFacts
  <1>4. work.mem.status = "active" => Safe(work.stg) \/ work.mem = job[work.stg]
    BY <1>1 DEF IInv, Polling
  <1>5. faults' \in 0 .. MaxFaults /\ faults <= faults'
    BY <1>1, Numbers DEF Fault, IInv, Stored
  <1> QED
    BY <1>1, <1>2, <1>3, <1>4, <1>5, SaveKeeps

LEMMA AwaitKeeps ==
    ASSUME IInv, NEW kind \in KindSet, Await(kind)
    PROVE  IInv'
  <1>1. /\ work # None /\ End("pending") /\ "pending" \in Answers
        /\ UNCHANGED <<plans, mac, store, job, public, subsidy, uploads, chain, faults>>
    BY DEF Await, Due, At, Answers
  <1>2. UNCHANGED <<deploy, seq, asked, approved, lapsed, remote, ended, latest, staging, files, job,
                    bytes, promoted, catalog, subsidy, upload, late, txs, head, edition, faults>>
    BY <1>1 DEF plans, mac, store, public, uploads, chain
  <1>3. Grows
    BY <1>2 DEF Grows, IInv, Stored
  <1>4. faults' \in 0 .. MaxFaults /\ faults <= faults'
    BY <1>2, Numbers DEF IInv, Stored
  <1>5. Stored' /\ Calling' /\ Polling'
    BY <1>1, <1>2, <1>3, <1>4, PollEnds
  <1>6. Owned'
    BY <1>2, OwnerFrame, OwnedFrame
  <1>7. Working'
    BY <1>2, Unsponsored, WorkingFrame DEF IInv
  <1> QED
    BY <1>2, <1>3, <1>5, <1>6, <1>7, RouteKeeps

LEMMA BeginPollKeeps ==
    ASSUME IInv, BeginPoll
    PROVE  IInv'
  <1>1. PICK s, m : s = call.stg /\ m = job[s]
    OBVIOUS
  <1>2. /\ call # None /\ call.op = "poll" /\ call.answer = None
        /\ m.status \in {"active", "complete"}
        /\ work' = [stg |-> s, step |-> "open", heard |-> TRUE, mem |-> m]
        /\ UNCHANGED <<plans, mac, call, store, job, public, subsidy, uploads, chain, faults>>
    BY <1>1 DEF BeginPoll, Waits
  <1>3. UNCHANGED <<deploy, seq, asked, approved, lapsed, remote, ended, latest, call, staging, files,
                    job, bytes, promoted, catalog, subsidy, upload, late, txs, head, edition, faults>>
    BY <1>2 DEF plans, mac, store, public, uploads, chain
  <1>4. s \in Made /\ s \in Stagings /\ job[s] # None /\ m \in JobState /\ Sent(s, m)
    BY <1>1, <1>2, Bounded DEF IInv, Calling, Calls, Remembered, Working
  <1>5. /\ work' \in Works /\ work'.stg = s /\ work'.step = "open" /\ work'.mem = m
    BY <1>2, <1>4 DEF Works
  <1>6. Made' = Made /\ Sent(s, m)'
    BY <1>3, <1>4 DEF Made, Sent
  <1>7. Polling'
    BY <1>1, <1>2, <1>3, <1>4, <1>5, <1>6 DEF Polling, Waits, Sent
  <1>8. Working'
    BY <1>3, Unsponsored, WorkingFrame DEF IInv
  <1> QED
    BY <1>3, <1>7, <1>8, WorkKeeps

\* The operation goes on to its next step.
LEMMA GotoFacts ==
    ASSUME IInv, work # None, Goto("authorize") \/ Goto("relay") \/ Goto("finalize")
                               \/ Goto("release") \/ Goto("cleanup")
    PROVE  /\ work' \in Works /\ work'.stg = work.stg /\ work'.heard = work.heard
           /\ work'.mem = work.mem
           /\ \A x \in {"authorize", "relay", "finalize", "release", "cleanup"} :
                 Goto(x) => work'.step = x
  <1>1. work \in Works
    BY WorkFacts
  <1> QED
    BY <1>1 DEF Goto, Works

LEMMA StageBlobsKeeps ==
    ASSUME IInv, StageBlobs
    PROVE  IInv'
  <1>1. PICK s, m : s = work.stg /\ m = [work.mem EXCEPT !.blobs = TRUE]
    OBVIOUS
  <1>2. /\ work # None /\ work.step = "open" /\ staging[s] # None
        /\ UNCHANGED <<plans, mac, store, promoted, catalog, subsidy, uploads, chain, faults>>
    BY <1>1 DEF StageBlobs, At
  <1>3. UNCHANGED <<deploy, seq, asked, approved, lapsed, remote, ended, latest, staging, files,
                    promoted, catalog, subsidy, upload, late, txs, head, edition, faults>>
    BY <1>2 DEF plans, mac, store, uploads, chain
  <1>4. /\ work \in Works /\ s \in Made /\ s \in Stagings /\ job[s] # None /\ job[s] \in JobState
        /\ work.mem \in JobState /\ work.mem.status # "failed" /\ Sent(s, work.mem)
        /\ work.mem = job[s] /\ (work.heard => Waits("poll") /\ call.stg = s)
    BY <1>1, <1>2, WorkFacts DEF IInv, Polling
  <1>5. Made' = Made
    BY <1>3 DEF Made
  <1>6. CASE work.mem.blobs /\ Goto("authorize") /\ UNCHANGED <<call, job, bytes>>
    <2>1. /\ work' \in Works /\ work'.stg = s /\ work'.heard = work.heard /\ work'.mem = work.mem
          /\ work'.step = "authorize"
      BY <1>1, <1>2, <1>6, GotoFacts
    <2>2. work.mem.status = "active" => Safe(s)'
      BY <1>3, <1>4, <1>6 DEF IInv, Working, Safe
    <2>3. Polling'
      BY <1>2, <1>3, <1>4, <1>5, <1>6, <2>1, <2>2 DEF Polling, Waits, Sent, Safe
    <2>4. Working'
      BY <1>3, <1>6, Unsponsored, WorkingFrame DEF IInv
    <2> QED
      BY <1>3, <1>6, <2>3, <2>4, WorkKeeps
  <1>7. CASE /\ bytes' = bytes \cup {s} /\ job' = [job EXCEPT ![s].blobs = TRUE]
             /\ work' = [work EXCEPT !.step = "authorize", !.mem.blobs = TRUE] /\ UNCHANGED call
    <2>1. job' = [job EXCEPT ![s] = m]
      BY <1>1, <1>4, <1>7
    <2>2. m \in JobState /\ m.status = work.mem.status /\ \A k \in KindSet : m[k] = work.mem[k]
      BY <1>1, <1>4 DEF JobState, KindSet
    <2>3. Sent(s, m)' /\ Safe(s)'
      BY <1>3, <1>4, <1>7, <2>2 DEF Sent, Safe
    <2>4. \A x \in Stagings : x # s /\ x \in bytes /\ Active(x) => x \in bytes'
      BY <1>7
    <2>5. Working' /\ job'[s] = m /\ \A x \in Stagings : x # s => job'[x] = job[x]
      BY <1>3, <1>4, <2>1, <2>2, <2>3, <2>4, WorkingSet
    <2>6. \A x \in Stagings : job[x] # None => job'[x] # None
      BY <2>2, <2>5, NoneAssumption
    <2>7. /\ work' \in Works /\ work'.stg = s /\ work'.heard = work.heard /\ work'.mem = m
          /\ work'.step = "authorize"
      <3>1. work' = [work EXCEPT !.step = "authorize", !.mem = m]
        BY <1>1, <1>4, <1>7 DEF Works
      <3> QED
        BY <1>1, <1>4, <2>2, <3>1 DEF Works
    <2>8. Polling'
      <3>1. /\ Sent(work.stg, work.mem)' /\ Safe(work.stg)' /\ job'[work'.stg] # None
            /\ work'.mem.status = job'[work'.stg].status /\ work'.mem.status # "failed"
        BY <1>4, <2>2, <2>3, <2>5, <2>6, <2>7 DEF Sent, Safe
      <3>2. work'.heard => Waits("poll")' /\ call'.stg = work'.stg
        BY <1>4, <1>7, <2>7 DEF Waits
      <3>3. work'.stg \in Made' /\ staging'[work'.stg] # None
        BY <1>2, <1>3, <1>4, <1>5, <2>7
      <3> QED
        BY <2>7, <3>1, <3>2, <3>3 DEF Polling
    <2> QED
      BY <1>3, <1>7, <2>5, <2>6, <2>8, WorkKeeps
  <1> QED
    BY <1>1, <1>6, <1>7 DEF StageBlobs

\* A registration that was sent was sponsored.
LEMMA SponsoredKeeps ==
    ASSUME IInv, Sponsored
    PROVE  IInv'
  <1>1. PICK s : s = work.stg
    OBVIOUS
  <1>2. /\ work # None /\ work.step = "authorize" /\ work.mem.register # 0 /\ Goto("relay")
        /\ UNCHANGED <<plans, mac, call, store, job, public, subsidy, uploads, chain, faults>>
    BY DEF Sponsored, At
  <1>3. UNCHANGED <<deploy, seq, asked, approved, lapsed, remote, ended, latest, call, staging, files,
                    job, bytes, promoted, catalog, subsidy, upload, late, txs, head, edition, faults>>
    BY <1>2 DEF plans, mac, store, public, uploads, chain
  <1>4. /\ work' \in Works /\ work'.stg = s /\ work'.heard = work.heard /\ work'.mem = work.mem
        /\ work'.step = "relay"
    BY <1>1, <1>2, GotoFacts
  <1>5. subsidy = s
    <2>1. "register" \in KindSet /\ Sent(s, work.mem)
      BY <1>1, <1>2, WorkFacts DEF KindSet
    <2>2. \E i \in DOMAIN txs : txs[i].stg = s
      BY <1>2, <2>1 DEF Sent
    <2> QED
      BY <2>2 DEF IInv, Mined
  <1>6. Made' = Made
    BY <1>3 DEF Made
  <1>7. Polling'
    BY <1>1, <1>2, <1>3, <1>4, <1>5, <1>6 DEF IInv, Polling, Waits, Sent, Safe
  <1>8. Working'
    BY <1>3, Unsponsored, WorkingFrame DEF IInv
  <1> QED
    BY <1>3, <1>7, <1>8, WorkKeeps

\* What was mined for the operation's reservation is of the operation's job.
LEMMA RelayedKeeps ==
    ASSUME IInv, Relayed
    PROVE  IInv'
  <1>1. PICK s : s = work.stg
    OBVIOUS
  <1>2. /\ work # None /\ work.step = "relay" /\ Goto("finalize")
        /\ UNCHANGED <<plans, mac, call, store, job, public, subsidy, uploads, chain, faults>>
    BY DEF Relayed, At
  <1>3. UNCHANGED <<deploy, seq, asked, approved, lapsed, remote, ended, latest, call, staging, files,
                    job, bytes, promoted, catalog, subsidy, upload, late, txs, head, edition, faults>>
    BY <1>2 DEF plans, mac, store, public, uploads, chain
  <1>4. /\ work' \in Works /\ work'.stg = s /\ work'.heard = work.heard /\ work'.mem = work.mem
        /\ work'.step = "finalize"
    BY <1>1, <1>2, GotoFacts
  <1>5. edition = Job
    <2>1. Met("claims")
      BY DEF Relayed, Kinds
    <2>2. PICK n : n = work.mem.claims
      OBVIOUS
    <2>3. n # 0 /\ txs[n].out = "ok"
      BY <2>1, <2>2 DEF Met, Out
    <2>4. /\ Sent(s, work.mem) /\ s \in Stagings /\ Job \in Jobs /\ Owner(s, Job)
      BY <1>1, <1>2, WorkFacts
    <2>5. n \in DOMAIN txs /\ txs[n].kind = "claims" /\ txs[n].stg = s
      BY <2>2, <2>3, <2>4 DEF Sent, KindSet
    <2>6. Owner(s, txs[n].job) /\ txs[n].job \in Jobs
      <3>1. txs[n] \in Transactions
        BY <2>5, Unsponsored
      <3>2. Owner(s, txs[n].job)
        BY <2>5 DEF Owner
      <3> QED
        BY <3>1, <3>2 DEF Transactions
    <2>7. txs[n].job = Job
      BY <2>4, <2>6 DEF IInv, Owned
    <2> QED
      BY <2>3, <2>5, <2>7 DEF IInv, Mined
  <1>6. Made' = Made /\ Job' = Job
    BY <1>1, <1>3, <1>4 DEF Made, Job
  <1>7. Polling'
    BY <1>1, <1>2, <1>3, <1>4, <1>5, <1>6 DEF IInv, Polling, Waits, Sent, Safe
  <1>8. Working'
    BY <1>3, Unsponsored, WorkingFrame DEF IInv
  <1> QED
    BY <1>3, <1>7, <1>8, WorkKeeps

\* The first publication to ask is the one that is sponsored: it is a first
\* Ship, for the Mac has recorded nothing yet.
LEMMA ReserveKeeps ==
    ASSUME IInv, Reserve
    PROVE  IInv'
  <1>1. PICK s : s = work.stg
    OBVIOUS
  <1>2. /\ work # None /\ work.step = "authorize"
        /\ UNCHANGED <<plans, mac, store, public, uploads, chain, faults>>
    BY DEF Reserve, At
  <1>3. UNCHANGED <<deploy, seq, asked, approved, lapsed, remote, ended, latest, staging, files,
                    bytes, promoted, catalog, upload, late, txs, head, edition, faults>>
    BY <1>2 DEF plans, mac, store, public, uploads, chain
  <1>4. /\ s \in Made /\ s \in Stagings /\ job[s] # None /\ work \in Works
        /\ staging[s] # None /\ Sent(s, work.mem) /\ work.mem.status # "failed"
        /\ (work.heard => Waits("poll") /\ call.stg = s) /\ work.mem.status = job[s].status
        /\ (work.mem.status = "active" => Safe(s))
    BY <1>1, <1>2, WorkFacts DEF IInv, Polling
  <1>5. \/ Fail /\ subsidy' = subsidy
        \/ Goto("relay") /\ UNCHANGED <<call, job>> /\ subsidy' = s
           /\ (subsidy = None \/ subsidy = s)
    <2>1. CASE Job \in lapsed
      BY <2>1 DEF Reserve
    <2>2. CASE Job \notin lapsed /\ subsidy # None
      BY <1>1, <2>2 DEF Reserve
    <2>3. CASE Job \notin lapsed /\ subsidy = None
      <3>1. catalog = {}
        BY <2>3, Unsponsored
      <3> QED
        BY <1>1, <2>3, <3>1 DEF Reserve
    <2> QED
      BY <2>1, <2>2, <2>3
  <1>6. CASE Fail /\ subsidy' = subsidy
    BY <1>2, <1>6, FailKeeps
  <1>7. CASE /\ Goto("relay") /\ UNCHANGED <<call, job>> /\ subsidy' = s
             /\ (subsidy = None \/ subsidy = s)
    <2>1. /\ work' \in Works /\ work'.stg = s /\ work'.heard = work.heard /\ work'.mem = work.mem
          /\ work'.step = "relay"
      BY <1>1, <1>2, <1>7, GotoFacts
    <2>2. \A x \in Stagings : Safe(x) => Safe(x)'
      <3>1. subsidy = None => promoted = {}
        BY Unsponsored
      <3> QED
        BY <1>3, <1>7, <3>1 DEF Safe
    <2>3. subsidy = None => txs = <<>>
      BY Unsponsored
    <2>4. Working'
      <3>1. ASSUME NEW x \in Stagings, job[x] # None
            PROVE  /\ job[x] \in JobState /\ Sent(x, job[x])'
                   /\ job[x].status = "active" /\ job[x].blobs => Safe(x)'
        <4>1. job[x] \in JobState /\ Sent(x, job[x]) /\ (job[x].status = "active" /\ job[x].blobs => Safe(x))
          BY <3>1 DEF IInv, Working
        <4>2. Sent(x, job[x])'
          BY <1>3, <1>7, <4>1 DEF Sent
        <4> QED
          BY <2>2, <4>1, <4>2
      <3>2. ASSUME txs # <<>>, Active(s) PROVE Safe(s)'
        <4>1. subsidy = s
          BY <1>7, <2>3, <3>2
        <4> QED
          BY <1>4, <2>2, <3>2, <4>1 DEF IInv, Working
      <3>3. Active(s)' <=> Active(s)
        BY <1>7 DEF Active
      <3>4. txs' # <<>> /\ Active(subsidy)' => Safe(subsidy)'
        BY <1>3, <1>7, <3>2, <3>3 DEF Active, Safe
      <3> QED
        BY <1>3, <1>7, <3>1, <3>4 DEF IInv, Working, Sent, Safe
    <2>5. Polling'
      <3>1. /\ Sent(work.stg, work.mem)' /\ job'[work'.stg] # None
            /\ work'.mem.status = job'[work'.stg].status /\ work'.mem.status # "failed"
        BY <1>3, <1>4, <1>7, <2>1 DEF Sent
      <3>2. work'.heard => Waits("poll")' /\ call'.stg = work'.stg
        BY <1>4, <1>7, <2>1 DEF Waits
      <3>3. work'.stg \in Made' /\ staging'[work'.stg] # None /\ subsidy' = work'.stg
        BY <1>3, <1>4, <1>7, <2>1 DEF Made
      <3>4. work'.mem.status = "active" => Safe(work.stg)'
        BY <1>4, <2>1, <2>2 DEF Safe
      <3> QED
        BY <2>1, <3>1, <3>2, <3>3, <3>4 DEF Polling
    <2>6. Stored'
      BY <1>3, <1>7, StoredFrame DEF IInv
    <2>7. Grows
      BY <1>3, <1>7 DEF Grows, IInv, Stored
    <2>8. Planned' /\ Remembered' /\ Calling' /\ Shown'
      <3>1. Planned'
        BY <1>3, PlannedFrame DEF IInv
      <3>2. Remembered'
        BY <1>3, <2>6, <2>7, RememberedFrame
      <3>3. Calling'
        BY <1>3, <1>7, <2>6, <2>7, CallingFrame
      <3>4. Shown'
        BY <1>3, ShownFrame DEF IInv
      <3> QED
        BY <3>1, <3>2, <3>3, <3>4
    <2>9. Mined'
      <3>1. Made' = Made
        BY <1>3 DEF Made
      <3>2. subsidy = None => DOMAIN txs = {}
        BY <2>3
      <3> QED
        BY <1>3, <1>4, <1>7, <3>1, <3>2 DEF IInv, Mined
    <2>10. Owned'
      <3>1. \A x \in Stagings, j \in Jobs : Owner(x, j)' <=> Owner(x, j)
        BY <1>3 DEF Owner
      <3>2. ASSUME NEW j \in Jobs, Owner(s, j) PROVE seq[j] = 1
        <4>1. CASE subsidy = s
          BY <1>4, <3>2, <4>1, Numbers DEF IInv, Owned
        <4>2. CASE subsidy = None
          <5>1. deploy[j] # "none" /\ seq[j] <= 1
            BY <1>4, <3>2, <4>2, Unsponsored DEF IInv, Owned
          <5>2. seq[j] \in 0 .. 2 /\ seq[j] >= 1
            BY <5>1 DEF IInv, Planned
          <5> QED
            BY <5>1, <5>2
        <4> QED
          BY <1>7, <4>1, <4>2
      <3>3. subsidy' # None => \A j \in Jobs : Owner(subsidy, j)' => seq'[j] = 1
        <4>1. \A j \in Jobs : Owner(s, j)' => seq'[j] = 1
          BY <1>3, <1>4, <3>1, <3>2
        <4> QED
          BY <1>7, <4>1 DEF Owner
      <3> QED
        BY <1>3, <3>1, <3>3 DEF IInv, Owned
    <2> QED
      BY <2>4, <2>5, <2>6, <2>8, <2>9, <2>10 DEF IInv
  <1> QED
    BY <1>5, <1>6, <1>7

\* A transaction is sent: its nonce is new, and its job owns the reservation.
LEMMA SubmitKeeps ==
    ASSUME IInv, NEW kind \in KindSet, Submit(kind)
    PROVE  IInv'
  <1>1. PICK s, n, t, m : /\ s = work.stg /\ n = Len(txs) + 1
                          /\ t = [kind |-> kind, stg |-> s, job |-> Job, out |-> "pending"]
                          /\ m = [work.mem EXCEPT ![kind] = n]
    OBVIOUS
  <1>2. /\ work # None /\ work.step = "relay"
        /\ \/ /\ txs' = Append(txs, t)
              /\ work' = [work EXCEPT !.step = "save", !.mem[kind] = n]
              /\ UNCHANGED <<call, job>>
           \/ Fail /\ txs' = txs
        /\ UNCHANGED <<plans, mac, store, public, subsidy, uploads, account, commitment, head,
                       edition, faults>>
    BY <1>1 DEF Submit, Due, At
  <1>3. UNCHANGED <<deploy, seq, asked, approved, lapsed, remote, ended, latest, staging, files,
                    bytes, promoted, catalog, subsidy, upload, late, head, edition, faults>>
    BY <1>2 DEF plans, mac, store, public, uploads
  <1>4. CASE Fail /\ txs' = txs
    <2>1. UNCHANGED chain
      BY <1>2, <1>4 DEF chain
    <2> QED
      BY <1>2, <1>4, <2>1, FailKeeps
  <1>5. CASE /\ txs' = Append(txs, t)
             /\ work' = [work EXCEPT !.step = "save", !.mem[kind] = n]
             /\ UNCHANGED <<call, job>>
    <2>1. /\ work \in Works /\ s \in Made /\ s \in Stagings /\ job[s] # None
          /\ work.mem \in JobState /\ work.mem.status # "failed" /\ Sent(s, work.mem)
          /\ Job \in Jobs /\ Owner(s, Job) /\ subsidy = s
          /\ (work.heard => Waits("poll") /\ call.stg = s) /\ work.mem.status = job[s].status
          /\ (work.mem.status = "active" => Safe(s))
      BY <1>1, <1>2, WorkFacts DEF IInv, Polling
    <2>2. txs \in Seq(Transactions) /\ n \in Nat /\ n # 0
      BY <1>1 DEF IInv, Mined
    <2>3. t \in Transactions /\ t.stg = s /\ t.job = Job /\ t.kind = kind /\ t.out = "pending"
      BY <1>1, <2>1 DEF Transactions
    <2>4. /\ txs' \in Seq(Transactions) /\ DOMAIN txs' = DOMAIN txs \cup {n} /\ n \notin DOMAIN txs
          /\ txs'[n] = t /\ \A i \in DOMAIN txs : txs'[i] = txs[i]
      <3>1. Len(txs') = Len(txs) + 1 /\ txs' \in Seq(Transactions)
        BY <1>5, <2>2, <2>3
      <3>2. DOMAIN txs' = 1 .. n /\ DOMAIN txs = 1 .. Len(txs)
        BY <1>1, <2>2, <3>1
      <3>3. DOMAIN txs' = DOMAIN txs \cup {n} /\ n \notin DOMAIN txs
        BY <1>1, <2>2, <3>2
      <3> QED
        BY <1>1, <1>5, <2>2, <2>3, <3>1, <3>3
    <2>5. /\ m \in JobState /\ m.status = work.mem.status
          /\ \A k \in KindSet : m[k] = IF k = kind THEN n ELSE work.mem[k]
      <3>1. CASE kind = "account"
        BY <1>1, <2>1, <2>2, <3>1 DEF JobState, KindSet
      <3>2. CASE kind = "commit"
        BY <1>1, <2>1, <2>2, <3>2 DEF JobState, KindSet
      <3>3. CASE kind = "register"
        BY <1>1, <2>1, <2>2, <3>3 DEF JobState, KindSet
      <3>4. CASE kind = "claims"
        BY <1>1, <2>1, <2>2, <3>4 DEF JobState, KindSet
      <3> QED
        BY <3>1, <3>2, <3>3, <3>4 DEF KindSet
    <2>6. /\ work' \in Works /\ work'.stg = s /\ work'.heard = work.heard /\ work'.mem = m
          /\ work'.step = "save"
      <3>1. work' = [work EXCEPT !.step = "save", !.mem = m]
        BY <1>1, <1>5, <2>1 DEF Works
      <3> QED
        BY <1>1, <2>1, <2>5, <3>1 DEF Works
    <2>7. \A x \in Stagings, y \in JobState : Sent(x, y) => Sent(x, y)'
      BY <2>4 DEF Sent
    <2>8. Sent(s, m)'
      BY <2>1, <2>3, <2>4, <2>5 DEF Sent
    <2>9. \A x : Safe(x)' <=> Safe(x)
      BY <1>3 DEF Safe
    <2>10. Working'
      <3>1. ASSUME NEW x \in Stagings, job[x] # None
            PROVE  /\ job[x] \in JobState /\ Sent(x, job[x])'
                   /\ job[x].status = "active" /\ job[x].blobs => Safe(x)'
        <4>1. job[x] \in JobState /\ Sent(x, job[x]) /\ (job[x].status = "active" /\ job[x].blobs => Safe(x))
          BY <3>1 DEF IInv, Working
        <4> QED
          BY <1>5, <2>7, <2>9, <4>1 DEF Sent
      <3>2. Active(s)' => Safe(s)'
        BY <1>5, <2>1, <2>9 DEF Active
      <3>3. Active(subsidy)' => Safe(subsidy)'
        BY <1>3, <2>1, <3>2 DEF Active, Safe
      <3> QED
        BY <1>5, <3>1, <3>3 DEF IInv, Working, Sent, Safe
    <2>11. Polling'
      <3>1. /\ Sent(work.stg, work.mem)' /\ job'[work'.stg] # None /\ work'.mem.status # "failed"
        BY <1>5, <2>1, <2>5, <2>6, <2>8 DEF Sent
      <3>2. work'.heard => Waits("poll")' /\ call'.stg = work'.stg
        BY <1>5, <2>1, <2>6 DEF Waits
      <3>3. work'.stg \in Made' /\ subsidy' = work'.stg
        BY <1>3, <2>1, <2>6 DEF Made
      <3>4. work'.mem.status = "active" => Safe(work.stg)'
        BY <2>1, <2>5, <2>6, <2>9 DEF Safe
      <3> QED
        BY <2>6, <3>1, <3>2, <3>3, <3>4 DEF Polling
    <2>12. Stored'
      BY <1>3, <1>5, StoredFrame DEF IInv
    <2>13. Grows
      BY <1>3, <1>5 DEF Grows, IInv, Stored
    <2>14. Planned' /\ Remembered' /\ Calling' /\ Shown'
      <3>1. Planned'
        BY <1>3, PlannedFrame DEF IInv
      <3>2. Remembered'
        BY <1>3, <2>12, <2>13, RememberedFrame
      <3>3. Calling'
        BY <1>3, <1>5, <2>12, <2>13, CallingFrame
      <3>4. Shown'
        BY <1>3, ShownFrame DEF IInv
      <3> QED
        BY <3>1, <3>2, <3>3, <3>4
    <2>15. Mined'
      <3>1. Made' = Made /\ job' = job
        BY <1>3, <1>5 DEF Made
      <3>2. t.out # "ok"
        BY <2>3
      <3> QED
        BY <1>3, <2>1, <2>3, <2>4, <3>1, <3>2 DEF IInv, Mined
    <2>16. Owned'
      <3>1. \A x \in Stagings, j \in Jobs : Owner(x, j)' => Owner(x, j)
        BY <1>3, <2>1, <2>3, <2>4 DEF Owner
      <3> QED
        BY <1>3, <3>1, OwnedFrame
    <2> QED
      BY <2>10, <2>11, <2>12, <2>14, <2>15, <2>16 DEF IInv
  <1> QED
    BY <1>2, <1>4, <1>5

\* Safe bytes are all that the jobs ask of the public store.
LEMMA SafeWorking ==
    ASSUME IInv, UNCHANGED <<job, txs, subsidy>>, \A s \in Stagings : Safe(s) => Safe(s)'
    PROVE  Working'
  <1>1. ASSUME NEW x \in Stagings, job[x] # None
        PROVE  /\ job[x] \in JobState /\ Sent(x, job[x])'
               /\ job[x].status = "active" /\ job[x].blobs => Safe(x)'
    <2>1. job[x] \in JobState /\ Sent(x, job[x]) /\ (job[x].status = "active" /\ job[x].blobs => Safe(x))
      BY <1>1 DEF IInv, Working
    <2>2. Sent(x, job[x])'
      BY <2>1 DEF Sent
    <2> QED
      BY <2>1, <2>2
  <1>2. ASSUME txs # <<>>, Active(subsidy)' PROVE Safe(subsidy)'
    <2>1. subsidy \in Stagings /\ Active(subsidy)
      BY <1>2, Unsponsored DEF Active
    <2>2. Safe(subsidy)
      BY <1>2, <2>1 DEF IInv, Working
    <2>3. PICK s : s = subsidy /\ s = subsidy'
      OBVIOUS
    <2>4. Safe(s)'
      BY <2>1, <2>2, <2>3
    <2> QED
      BY <2>3, <2>4 DEF Safe
  <1> QED
    BY <1>1, <1>2 DEF IInv, Working, Sent, Safe

\* The bytes become public: the registration of the operation's job is there.
LEMMA FinalizeKeeps ==
    ASSUME IInv, Finalize
    PROVE  IInv'
  <1>1. PICK s, j : s = work.stg /\ j = Job
    OBVIOUS
  <1>2. /\ work # None /\ work.step = "finalize"
        /\ \/ /\ head = j /\ promoted' = promoted \cup {j}
              /\ Goto("release") /\ UNCHANGED <<call, job>>
           \/ Fail /\ promoted' = promoted
        /\ UNCHANGED <<plans, mac, store, bytes, catalog, subsidy, uploads, chain, faults>>
    BY <1>1 DEF Finalize, At
  <1>3. UNCHANGED <<deploy, seq, asked, approved, lapsed, remote, ended, latest, staging, files,
                    bytes, catalog, subsidy, upload, late, txs, head, edition, faults>>
    BY <1>2 DEF plans, mac, store, uploads, chain
  <1>4. CASE Fail /\ promoted' = promoted
    <2>1. UNCHANGED public
      BY <1>3, <1>4 DEF public
    <2> QED
      BY <1>2, <1>4, <2>1, FailKeeps
  <1>5. CASE /\ head = j /\ promoted' = promoted \cup {j}
             /\ Goto("release") /\ UNCHANGED <<call, job>>
    <2>1. /\ work' \in Works /\ work'.stg = s /\ work'.heard = work.heard /\ work'.mem = work.mem
          /\ work'.step = "release"
      BY <1>1, <1>2, <1>5, GotoFacts
    <2>2. j \in Jobs /\ work.stg \in Stagings
      BY <1>1, <1>2, WorkFacts
    <2>3. Made' = Made /\ Job' = j
      BY <1>1, <1>3, <2>1 DEF Made, Job
    <2>4. \A x : Safe(x) => Safe(x)'
      BY <1>3, <1>5 DEF Safe
    <2>5. Polling'
      BY <1>1, <1>2, <1>3, <1>5, <2>1, <2>3, <2>4 DEF IInv, Polling, Waits, Sent
    <2>6. Working'
      BY <1>3, <1>5, <2>4, SafeWorking
    <2>7. Stored'
      BY <1>3, <1>5, StoredFrame DEF IInv
    <2>8. Grows
      BY <1>3, <1>5 DEF Grows, IInv, Stored
    <2>9. Planned' /\ Remembered' /\ Calling' /\ Mined' /\ Owned'
      <3>1. Planned'
        BY <1>3, PlannedFrame DEF IInv
      <3>2. Remembered'
        BY <1>3, <2>7, <2>8, RememberedFrame
      <3>3. Calling'
        BY <1>3, <1>5, <2>7, <2>8, CallingFrame
      <3>4. Mined'
        BY <1>3, <2>7, <2>8, MinedFrame
      <3>5. Owned'
        BY <1>3, OwnerFrame, OwnedFrame
      <3> QED
        BY <3>1, <3>2, <3>3, <3>4, <3>5
    <2>10. Shown'
      BY <1>3, <1>5, <2>2 DEF IInv, Shown
    <2> QED
      BY <2>5, <2>6, <2>7, <2>9, <2>10 DEF IInv
  <1> QED
    BY <1>2, <1>4, <1>5

\* The release becomes public: its bytes, its registration and its edition are.
LEMMA WriteReleaseKeeps ==
    ASSUME IInv, WriteRelease
    PROVE  IInv'
  <1>1. PICK s, j : s = work.stg /\ j = Job
    OBVIOUS
  <1>2. /\ work # None /\ work.step = "release" /\ catalog' = catalog \cup {j} /\ Goto("cleanup")
        /\ UNCHANGED <<plans, mac, call, store, job, bytes, promoted, subsidy, uploads, chain, faults>>
    BY <1>1 DEF WriteRelease, At
  <1>3. UNCHANGED <<deploy, seq, asked, approved, lapsed, remote, ended, latest, call, staging, files,
                    job, bytes, promoted, subsidy, upload, late, txs, head, edition, faults>>
    BY <1>2 DEF plans, mac, store, uploads, chain
  <1>4. /\ work' \in Works /\ work'.stg = s /\ work'.heard = work.heard /\ work'.mem = work.mem
        /\ work'.step = "cleanup"
    BY <1>1, <1>2, GotoFacts
  <1>5. /\ j \in Jobs /\ s \in Stagings /\ Owner(s, j) /\ subsidy = s /\ edition = j /\ j \in promoted
    BY <1>1, <1>2, WorkFacts DEF IInv, Polling
  <1>6. seq[j] = 1
    BY <1>5, Numbers DEF IInv, Owned
  <1>7. Made' = Made /\ Job' = j
    BY <1>1, <1>3, <1>4 DEF Made, Job
  <1>8. \A x : Safe(x) => Safe(x)'
    BY <1>3 DEF Safe
  <1>9. Polling'
    BY <1>1, <1>2, <1>3, <1>4, <1>7, <1>8 DEF IInv, Polling, Waits, Sent
  <1>10. Working'
    BY <1>3, <1>8, SafeWorking
  <1>11. Stored'
    BY <1>3, StoredFrame DEF IInv
  <1>12. Grows
    BY <1>3 DEF Grows, IInv, Stored
  <1>13. Planned' /\ Remembered' /\ Calling' /\ Mined' /\ Owned'
    <2>1. Planned'
      BY <1>3, PlannedFrame DEF IInv
    <2>2. Remembered'
      BY <1>2, <1>3, <1>11, <1>12, RememberedFrame
    <2>3. Calling'
      BY <1>2, <1>3, <1>11, <1>12, CallingFrame
    <2>4. Mined'
      BY <1>3, <1>11, <1>12, MinedFrame
    <2>5. Owned'
      BY <1>3, OwnerFrame, OwnedFrame
    <2> QED
      BY <2>1, <2>2, <2>3, <2>4, <2>5
  <1>14. Shown'
    BY <1>2, <1>3, <1>5, <1>6 DEF IInv, Shown
  <1> QED
    BY <1>9, <1>10, <1>11, <1>13, <1>14 DEF IInv

\* The reservation goes once its bytes are public.
LEMMA CleanupKeeps ==
    ASSUME IInv, Cleanup
    PROVE  IInv'
  <1>1. PICK s : s = work.stg
    OBVIOUS
  <1>2. /\ work # None /\ work.step = "cleanup"
        /\ \/ Without({s}) /\ bytes' = bytes \ {s}
           \/ UNCHANGED <<store, bytes>>
        /\ UNCHANGED <<plans, mac, call, job, promoted, catalog, subsidy, uploads, chain, faults>>
    BY <1>1 DEF Cleanup, At
  <1>3. UNCHANGED <<deploy, seq, asked, approved, lapsed, remote, ended, latest, call, job,
                    promoted, catalog, subsidy, upload, late, txs, head, edition, faults>>
    BY <1>2 DEF plans, mac, uploads, chain
  <1>4. /\ work \in Works /\ s \in Made /\ s \in Stagings /\ job[s] # None
        /\ work.mem \in JobState /\ Sent(s, work.mem) /\ subsidy = s /\ promoted # {}
        /\ (work.heard => Waits("poll") /\ call.stg = s)
    BY <1>1, <1>2, WorkFacts DEF IInv, Polling
  <1>5. PICK m : /\ m \in JobState /\ m.status = "complete" /\ \A k \in KindSet : m[k] = work.mem[k]
                 /\ work' = [work EXCEPT !.step = "save", !.mem = m]
    <2>1. CASE work' = [work EXCEPT !.step = "save", !.mem.status = "complete", !.mem.cleanup = TRUE]
      <3>1. PICK m : m = [work.mem EXCEPT !.status = "complete", !.cleanup = TRUE]
        OBVIOUS
      <3>2. m \in JobState /\ m.status = "complete" /\ \A k \in KindSet : m[k] = work.mem[k]
        BY <1>4, <3>1 DEF JobState, KindSet
      <3>3. work' = [work EXCEPT !.step = "save", !.mem = m]
        BY <1>4, <2>1, <3>1 DEF Works
      <3> QED
        BY <3>2, <3>3
    <2>2. CASE work' = [work EXCEPT !.step = "save", !.mem.status = "complete"]
      <3>1. PICK m : m = [work.mem EXCEPT !.status = "complete"]
        OBVIOUS
      <3>2. m \in JobState /\ m.status = "complete" /\ \A k \in KindSet : m[k] = work.mem[k]
        BY <1>4, <3>1 DEF JobState, KindSet
      <3>3. work' = [work EXCEPT !.step = "save", !.mem = m]
        BY <1>4, <2>2, <3>1 DEF Works
      <3> QED
        BY <3>2, <3>3
    <2> QED
      BY <2>1, <2>2 DEF Cleanup
  <1>6. /\ work' \in Works /\ work'.stg = s /\ work'.heard = work.heard /\ work'.mem = m
        /\ work'.step = "save"
    BY <1>1, <1>4, <1>5 DEF Works
  <1>7. /\ staging' \in Seq({None} \cup Reservations) /\ Len(staging') = Len(staging)
        /\ files' \in Seq(SUBSET AllOf) /\ Len(files') = Len(staging)
        /\ \A x \in Made : staging'[x] = None \/ staging'[x] = staging[x]
    <2>1. CASE UNCHANGED store
      BY <2>1 DEF store, IInv, Stored
    <2>2. CASE Without({s})
      BY <2>2, WithoutFacts
    <2> QED
      BY <1>2, <2>1, <2>2
  <1>8. Made' = Made
    BY <1>7 DEF Made
  <1>9. \A x : Safe(x) => Safe(x)'
    BY <1>2, <1>3, <1>4 DEF Safe
  <1>10. Working'
    BY <1>3, <1>9, SafeWorking
  <1>11. Polling'
    <2>1. /\ Sent(work.stg, work.mem)' /\ job'[work'.stg] # None /\ work'.mem.status = "complete"
      BY <1>3, <1>4, <1>5, <1>6 DEF Sent
    <2>2. work'.heard => Waits("poll")' /\ call'.stg = work'.stg
      BY <1>3, <1>4, <1>6 DEF Waits
    <2>3. work'.stg \in Made' /\ subsidy' = work'.stg
      BY <1>3, <1>4, <1>6, <1>8
    <2> QED
      BY <1>6, <2>1, <2>2, <2>3 DEF Polling
  <1>12. Stored'
    BY <1>3, <1>7, <1>8 DEF IInv, Stored, Owning, Answering, Waits
  <1>13. Grows
    BY <1>3, <1>7 DEF Grows, IInv, Stored
  <1>14. Calling'
    BY <1>3, <1>12, <1>13, CallingFrame
  <1>15. Owned'
    BY <1>3, <1>7, OwnerEmptied, OwnedFrame
  <1> QED
    BY <1>3, <1>10, <1>11, <1>12, <1>13, <1>14, <1>15, RouteKeeps

LEMMA PollStep ==
    ASSUME IInv, Poll
    PROVE  IInv'
  <1>1. \A k \in DOMAIN Kinds : Kinds[k] \in KindSet
    BY DEF Kinds, KindSet
  <1>2. ASSUME Relayer PROVE IInv'
    BY <1>1, <1>2, SubmitKeeps, AwaitKeeps, RevertedKeeps DEF Relayer
  <1> QED
    BY <1>2, BeginPollKeeps, NoReservationKeeps, StageBlobsKeeps, ReserveKeeps, SponsoredKeeps,
       RelayedKeeps, SaveJobKeeps, FinalizeKeeps, WriteReleaseKeeps, CleanupKeeps DEF Poll

-----------------------------------------------------------------------------
(* Lost answers, restarts and the chain *)

LEMMA LoseAnswerKeeps ==
    ASSUME IInv, LoseAnswer
    PROVE  IInv'
  <1>1. /\ call # None /\ Fault /\ call' = None /\ upload' = None
        /\ late' = IF upload = None THEN late ELSE upload
        /\ work' = IF work = None THEN None ELSE [work EXCEPT !.heard = FALSE]
        /\ UNCHANGED <<deploy, seq, asked, approved, lapsed, mac, store, job, public, subsidy, chain>>
    BY DEF LoseAnswer
  <1>2. UNCHANGED <<deploy, seq, asked, approved, lapsed, remote, ended, latest, staging, files, job,
                    bytes, promoted, catalog, subsidy, txs, head, edition>>
    BY <1>1 DEF mac, store, public, chain
  <1>3. Made' = Made /\ Owning' = Owning /\ Answering \in {0, 1} /\ Answering' = 0
    BY <1>1, <1>2 DEF Made, Owning, Answering
  <1>4. Cardinality(Owning) \in Nat
    BY Counted DEF IInv, Remembered
  <1>5. faults' \in 0 .. MaxFaults /\ faults' = faults + 1 /\ faults \in Nat
    BY <1>1, Numbers DEF Fault, IInv, Stored
  <1>6. late' = late \/ (late' = upload /\ upload # None)
    BY <1>1
  <1>7. Stored'
    <2>1. Len(staging') <= Cardinality(Owning)' + faults' + Answering'
      BY <1>2, <1>3, <1>4, <1>5 DEF IInv, Stored
    <2>2. late' # None => late' \in Receiving /\ late'.stg \in Made'
      BY <1>3, <1>6 DEF IInv, Stored
    <2> QED
      BY <1>1, <1>2, <1>5, <2>1, <2>2 DEF IInv, Stored
  <1>8. Calling'
    BY <1>1 DEF Calling
  <1>9. Grows
    BY <1>2 DEF Grows, IInv, Stored
  <1>10. Owned'
    <2>1. \A x \in Stagings, j \in Jobs : Owner(x, j)' => Owner(x, j)
      BY <1>1, <1>2, <1>6 DEF Owner
    <2> QED
      BY <1>2, <2>1, OwnedFrame
  <1>11. Working'
    BY <1>2, Unsponsored, WorkingFrame DEF IInv
  <1>12. Polling'
    <2>1. CASE work = None
      BY <1>1, <2>1, NoPolling
    <2>2. CASE work # None
      <3>1. /\ work' \in Works /\ work'.stg = work.stg /\ ~work'.heard /\ work'.mem = work.mem
            /\ work'.step = work.step
        BY <1>1, <2>2, WorkFacts DEF Works
      <3>2. Job' = Job
        BY <1>2, <3>1 DEF Job
      <3> QED
        BY <1>2, <1>3, <2>2, <3>1, <3>2 DEF IInv, Polling, Sent, Safe
    <2> QED
      BY <2>1, <2>2
  <1> QED
    BY <1>2, <1>7, <1>8, <1>9, <1>10, <1>11, <1>12, RouteKeeps

LEMMA RegistryStopsKeeps ==
    ASSUME IInv, RegistryStops
    PROVE  IInv'
  <1>1. /\ Fault /\ work' = None /\ upload' = None /\ late' = None
        /\ (call' = None \/ call' = call)
        /\ UNCHANGED <<plans, mac, store, job, public, subsidy, chain>>
    BY DEF RegistryStops
  <1>2. UNCHANGED <<deploy, seq, asked, approved, lapsed, remote, ended, latest, staging, files, job,
                    bytes, promoted, catalog, subsidy, txs, head, edition>>
    BY <1>1 DEF plans, mac, store, public, chain
  <1>3. Made' = Made /\ Owning' = Owning /\ Answering \in {0, 1} /\ Answering' \in {0, 1}
    BY <1>2 DEF Made, Owning, Answering
  <1>4. Cardinality(Owning) \in Nat
    BY Counted DEF IInv, Remembered
  <1>5. faults' \in 0 .. MaxFaults /\ faults' = faults + 1 /\ faults \in Nat
    BY <1>1, Numbers DEF Fault, IInv, Stored
  <1>6. Stored'
    <2>1. Len(staging') <= Cardinality(Owning)' + faults' + Answering'
      BY <1>2, <1>3, <1>4, <1>5 DEF IInv, Stored
    <2> QED
      BY <1>1, <1>2, <1>5, <2>1 DEF IInv, Stored
  <1>7. Grows
    BY <1>2 DEF Grows, IInv, Stored
  <1>8. Calling'
    <2>1. CASE call' = None
      BY <2>1 DEF Calling
    <2>2. CASE call' = call
      BY <1>2, <1>6, <1>7, <2>2, CallingFrame
    <2> QED
      BY <1>1, <2>1, <2>2
  <1>9. Owned'
    <2>1. \A x \in Stagings, j \in Jobs : Owner(x, j)' => Owner(x, j)
      BY <1>1, <1>2 DEF Owner
    <2> QED
      BY <1>2, <2>1, OwnedFrame
  <1>10. Working'
    BY <1>2, Unsponsored, WorkingFrame DEF IInv
  <1>11. Polling'
    BY <1>1, NoPolling
  <1> QED
    BY <1>2, <1>6, <1>7, <1>8, <1>9, <1>10, <1>11, RouteKeeps

\* A block: a second registration or a second edition would revert.
LEMMA MineKeeps ==
    ASSUME IInv, NEW i \in DOMAIN txs, Mine(i)
    PROVE  IInv'
  <1>1. PICK t, o, u : /\ t = txs[i] /\ o = IF Succeeds(t.kind, t.job) THEN "ok" ELSE "reverted"
                       /\ u = [t EXCEPT !.out = o]
    OBVIOUS
  <1>2. /\ txs' = [txs EXCEPT ![i] = u]
        /\ t.kind = "register" /\ o = "ok" => head = None /\ head' = t.job
        /\ ~(t.kind = "register" /\ o = "ok") => head' = head
        /\ t.kind = "claims" /\ o = "ok" => edition = None /\ edition' = t.job
        /\ ~(t.kind = "claims" /\ o = "ok") => edition' = edition
        /\ t.out = "pending"
        /\ UNCHANGED <<plans, mac, call, store, job, public, subsidy, work, uploads, faults>>
    <2>1. /\ txs' = [txs EXCEPT ![i] = u]
          /\ head' = IF t.kind = "register" /\ o = "ok" THEN t.job ELSE head
          /\ edition' = IF t.kind = "claims" /\ o = "ok" THEN t.job ELSE edition
      BY <1>1 DEF Mine
    <2>2. t.kind = "register" /\ o = "ok" => head = None
      BY <1>1 DEF Succeeds
    <2>3. t.kind = "claims" /\ o = "ok" => edition = None
      BY <1>1 DEF Succeeds
    <2> QED
      BY <1>1, <2>1, <2>2, <2>3 DEF Mine, FirstPending
  <1>3. UNCHANGED <<deploy, seq, asked, approved, lapsed, remote, ended, latest, call, staging, files,
                    job, bytes, promoted, catalog, subsidy, work, upload, late, faults>>
    BY <1>2 DEF plans, mac, store, public, uploads
  <1>4. /\ t \in Transactions /\ u \in Transactions /\ u.out = o /\ u.kind = t.kind
        /\ u.stg = t.stg /\ u.job = t.job /\ txs \in Seq(Transactions)
    <2>1. t \in Transactions /\ txs \in Seq(Transactions)
      BY <1>1, Unsponsored DEF IInv, Mined
    <2>2. o \in {"pending", "ok", "reverted"}
      BY <1>1
    <2> QED
      BY <1>1, <2>1, <2>2 DEF Transactions
  <1>5. /\ txs' \in Seq(Transactions) /\ DOMAIN txs' = DOMAIN txs
        /\ txs'[i] = u /\ \A k \in DOMAIN txs : k # i => txs'[k] = txs[k]
    BY <1>2, <1>4, ExceptSeq
  <1>6. \A k \in DOMAIN txs : /\ txs'[k].kind = txs[k].kind /\ txs'[k].stg = txs[k].stg
                              /\ txs'[k].job = txs[k].job
    BY <1>1, <1>4, <1>5
  <1>7. \A k \in DOMAIN txs : txs[k].job \in Jobs /\ txs[k].job # None
    <2>1. \A k \in DOMAIN txs : txs[k] \in Transactions
      BY Unsponsored
    <2> QED
      BY <2>1, Numbers DEF Transactions
  <1>8. Made' = Made
    BY <1>3 DEF Made
  <1>9. Mined'
    <2>1. head' # None => \E k \in DOMAIN txs' : txs'[k].job = head'
      <3>1. CASE t.kind = "register" /\ o = "ok"
        BY <1>1, <1>2, <1>4, <1>5, <3>1
      <3>2. CASE ~(t.kind = "register" /\ o = "ok")
        BY <1>2, <1>5, <1>6, <3>2 DEF IInv, Mined
      <3> QED
        BY <3>1, <3>2
    <2>2. ASSUME NEW k \in DOMAIN txs', txs'[k].kind = "register", txs'[k].out = "ok"
          PROVE  head' = txs'[k].job
      <3>1. CASE k = i
        BY <1>2, <1>4, <1>5, <2>2, <3>1
      <3>2. CASE k # i
        BY <1>2, <1>5, <1>7, <2>2, <3>2 DEF IInv, Mined
      <3> QED
        BY <3>1, <3>2
    <2>3. ASSUME NEW k \in DOMAIN txs', txs'[k].kind = "claims", txs'[k].out = "ok"
          PROVE  edition' = txs'[k].job
      <3>1. CASE k = i
        BY <1>2, <1>4, <1>5, <2>3, <3>1
      <3>2. CASE k # i
        BY <1>2, <1>5, <1>7, <2>3, <3>2 DEF IInv, Mined
      <3> QED
        BY <3>1, <3>2
    <2>4. ASSUME NEW k \in DOMAIN txs', NEW l \in DOMAIN txs',
                 txs'[k].kind \in {"register", "claims"}, txs'[k].out = "ok",
                 txs'[l].kind = txs'[k].kind, txs'[l].out = "ok"
          PROVE  k = l
      <3>1. ASSUME NEW x \in DOMAIN txs, x # i, txs[x].kind = t.kind, txs[x].out = "ok", o = "ok",
                   t.kind \in {"register", "claims"}
            PROVE  FALSE
        BY <1>2, <1>7, <3>1 DEF IInv, Mined
      <3>2. CASE k = i /\ l # i
        BY <1>4, <1>5, <2>4, <3>1, <3>2
      <3>3. CASE l = i /\ k # i
        BY <1>4, <1>5, <2>4, <3>1, <3>3
      <3>4. CASE k # i /\ l # i
        BY <1>5, <2>4, <3>4 DEF IInv, Mined
      <3> QED
        BY <3>2, <3>3, <3>4
    <2>5. \A k \in DOMAIN txs' : txs'[k].stg = subsidy'
      BY <1>3, <1>5, <1>6 DEF IInv, Mined
    <2>6. subsidy' # None => subsidy' \in Made' /\ job'[subsidy'] # None
      BY <1>3, <1>8 DEF IInv, Mined
    <2> QED
      BY <1>5, <2>1, <2>2, <2>3, <2>4, <2>5, <2>6 DEF Mined
  <1>10. Shown'
    <2>1. ASSUME NEW j \in promoted PROVE head' = j
      BY <1>2, <2>1, Unsponsored
    <2>2. ASSUME NEW j \in catalog PROVE edition' = j
      BY <1>2, <2>2, Unsponsored
    <2> QED
      BY <1>3, <2>1, <2>2 DEF IInv, Shown
  <1>11. \A s, m : Sent(s, m) => Sent(s, m)'
    BY <1>5, <1>6 DEF Sent
  <1>12. \A s : Safe(s)' <=> Safe(s)
    BY <1>3 DEF Safe
  <1>13. Working'
    <2>1. ASSUME NEW x \in Stagings, job[x] # None
          PROVE  /\ job[x] \in JobState /\ Sent(x, job[x])'
                 /\ job[x].status = "active" /\ job[x].blobs => Safe(x)'
      <3>1. job[x] \in JobState /\ Sent(x, job[x]) /\ (job[x].status = "active" /\ job[x].blobs => Safe(x))
        BY <2>1 DEF IInv, Working
      <3>2. Sent(x, job[x])'
        BY <1>3, <1>5, <1>6, <3>1 DEF Sent
      <3> QED
        BY <1>12, <3>1, <3>2
    <2>2. ASSUME Active(subsidy)' PROVE Safe(subsidy)'
      <3>1. Active(subsidy) /\ txs # <<>>
        BY <1>3, <2>2 DEF Active
      <3>2. Safe(subsidy)
        BY <3>1 DEF IInv, Working
      <3> QED
        BY <1>3, <3>2 DEF Safe
    <2> QED
      BY <1>3, <2>1, <2>2 DEF IInv, Working, Sent, Safe
  <1>14. Polling'
    <2>1. work # None => Sent(work.stg, work.mem)'
      BY <1>3, <1>5, <1>6 DEF IInv, Polling, Sent
    <2>2. ASSUME work # None, work.step \in {"finalize", "release", "cleanup"}
          PROVE  edition' = Job' /\ Job' = Job
      <3>1. edition = Job /\ Job \in Jobs /\ Job' = Job
        BY <1>3, <2>2, WorkFacts DEF IInv, Polling, Job
      <3> QED
        BY <1>2, <3>1, Numbers
    <2> QED
      BY <1>3, <1>8, <2>1, <2>2 DEF IInv, Polling, Waits, Safe
  <1>15. Stored'
    BY <1>3, StoredFrame DEF IInv
  <1>16. Grows
    BY <1>3 DEF Grows, IInv, Stored
  <1>17. Planned' /\ Remembered' /\ Calling' /\ Owned'
    <2>1. Planned'
      BY <1>3, PlannedFrame DEF IInv
    <2>2. Remembered'
      BY <1>3, <1>15, <1>16, RememberedFrame
    <2>3. Calling'
      BY <1>3, <1>15, <1>16, CallingFrame
    <2>4. Owned'
      <3>1. \A x \in Stagings, j \in Jobs : Owner(x, j)' => Owner(x, j)
        BY <1>3, <1>5, <1>6 DEF Owner
      <3> QED
        BY <1>3, <3>1, OwnedFrame
    <2> QED
      BY <2>1, <2>2, <2>3, <2>4
  <1> QED
    BY <1>9, <1>10, <1>13, <1>14, <1>15, <1>17 DEF IInv

LEMMA EnvironmentKeeps ==
    ASSUME IInv, Chain \/ Environment
    PROVE  IInv'
  <1>1. ASSUME NEW j \in Jobs, Mature(j) PROVE IInv'
    BY <1>1, TimeKeeps DEF Mature, plans
  <1>2. ASSUME NEW s \in DOMAIN staging, Expire(s) PROVE IInv'
    BY <1>2, TimeKeeps DEF Expire, chain
  <1> QED
    BY <1>1, <1>2, MineKeeps, FinishLateKeeps, LoseAnswerKeeps, StorageFailsKeeps, RegistryStopsKeeps
       DEF Chain, Environment

-----------------------------------------------------------------------------
(* The invariant *)

LEMMA InitIInv == Init => IInv
  <1> SUFFICES ASSUME Init PROVE IInv
    OBVIOUS
  <1>1. DOMAIN staging = {} /\ DOMAIN txs = {} /\ Len(staging) = 0 /\ Len(files) = 0
    BY DEF Init
  <1>2. Planned
    BY DEF Init, Planned
  <1>3. Remembered
    <2>1. "completed" # None
      BY NoneAssumption DEF Endings
    <2> QED
      BY <2>1 DEF Init, Remembered
  <1>4. Calling /\ Shown /\ Polling
    BY DEF Init, Calling, Shown, Polling
  <1>5. Stored
    <2>1. Cardinality(Owning) \in Nat /\ Answering = 0
      BY Counted, <1>3 DEF Init, Remembered, Answering
    <2> QED
      BY <1>1, <2>1, Numbers DEF Init, Stored
  <1>6. Owned
    BY <1>1 DEF Init, Owned, Owner
  <1>7. Mined
    BY <1>1 DEF Init, Mined
  <1>8. Working
    BY DEF Init, Working
  <1> QED
    BY <1>2, <1>3, <1>4, <1>5, <1>6, <1>7, <1>8 DEF IInv

LEMMA StepIInv == IInv /\ [Next]_vars => IInv'
  <1> SUFFICES ASSUME IInv, [Next]_vars PROVE IInv'
    OBVIOUS
  <1>1. CASE UNCHANGED vars
    BY <1>1, TimeKeeps DEF vars, plans, chain
  <1>2. CASE Next
    BY <1>2, DeployKeeps, LoopStep, RouteStep, PollStep, EnvironmentKeeps DEF Next
  <1> QED
    BY <1>1, <1>2

\* Every part of the invariant holds in every reachable state.
LEMMA AlwaysIInv == Spec => []IInv
  BY InitIInv, StepIInv, PTL DEF Spec

LEMMA Typed ==
    ASSUME IInv
    PROVE  TypeOK
  <1>1. Len(staging) <= Cardinality(Stagings) /\ Len(files) = Len(staging)
    <2>1. PICK n : n = MaxJobs + MaxFaults
      OBVIOUS
    <2>2. n \in Int /\ 1 \in Int /\ n >= 1
      BY <2>1, ConstantsAssumption
    <2>3. Cardinality(1 .. n) = IF 1 > n THEN 0 ELSE n - 1 + 1
      BY <2>2, FS_Interval
    <2>4. Cardinality(Stagings) = n
      BY <2>1, <2>2, <2>3 DEF Stagings
    <2>5. Len(staging) \in Nat /\ (Len(staging) = 0 \/ Len(staging) \in Stagings)
      BY Bounded DEF IInv, Made
    <2>6. Len(staging) <= n
      BY <2>1, <2>2, <2>5 DEF Stagings
    <2> QED
      BY <2>4, <2>6 DEF IInv, Stored
  <1>2. ASSUME NEW k \in {"register", "claims"}
        PROVE  Cardinality({i \in DOMAIN txs : txs[i].kind = k /\ txs[i].out = "ok"}) <= 1
    <2>1. PICK X : X = {i \in DOMAIN txs : txs[i].kind = k /\ txs[i].out = "ok"}
      OBVIOUS
    <2>2. \A i, l \in X : i = l
      BY <2>1 DEF IInv, Mined
    <2>3. CASE X = {}
      <3>1. Cardinality(X) = 0
        BY <2>3, FS_EmptySet
      <3> QED
        BY <2>1, <3>1
    <2>4. CASE X # {}
      <3>1. PICK i : X = {i}
        BY <2>2, <2>4
      <3>2. Cardinality({i}) = 1
        BY FS_Singleton
      <3> QED
        BY <2>1, <3>1, <3>2
    <2> QED
      BY <2>3, <2>4
  <1>3. \A i \in DOMAIN txs : txs[i].out \in {"pending", "ok", "reverted"}
    <2>1. \A i \in DOMAIN txs : txs[i] \in Transactions
      BY Unsponsored
    <2> QED
      BY <2>1 DEF Transactions
  <1>4. latest = None \/ latest \in Shipped
    BY DEF IInv, Remembered, Shipped
  <1>5. \A j \in Jobs : remote[j] \in {None} \cup RemoteState /\ ended[j] \in {None} \cup Endings
    BY DEF IInv, Remembered, Endings
  <1>6. call = None \/ call \in Calls
    BY DEF IInv, Calling
  <1>7. \A s \in Stagings : job[s] = None \/ job[s] \in JobState
    BY DEF IInv, Working
  <1> QED
    BY <1>1, <1>2, <1>3, <1>4, <1>5, <1>6, <1>7 DEF TypeOK, IInv, Planned

-----------------------------------------------------------------------------
(* What is promised *)

\* reserveUploadSubsidy (website/apps/site/src/registry.ts): every transaction
\* the relayer ever sends is for one publication of the Builder, and for a
\* first Ship, whatever is deployed, retried, lost or restarted meanwhile.
THEOREM OneIsSponsored == Spec => []OneSponsoredUpload
  <1>1. ASSUME IInv PROVE OneSponsoredUpload
    <2>1. \A i \in DOMAIN txs : /\ txs[i].stg = subsidy /\ txs[i].job \in Jobs
                                /\ subsidy # None /\ Owner(subsidy, txs[i].job)
      <3>1. \A i \in DOMAIN txs : /\ subsidy # None /\ Owner(subsidy, txs[i].job)
                                  /\ txs[i] \in Transactions
        BY <1>1, Unsponsored
      <3> QED
        BY <1>1, <3>1 DEF IInv, Mined, Transactions
    <2>2. \A i \in DOMAIN txs : seq[txs[i].job] = 1
      BY <1>1, <2>1 DEF IInv, Owned
    <2> QED
      BY <2>1, <2>2 DEF OneSponsoredUpload
  <1> QED
    BY <1>1, AlwaysIInv, PTL

\* finalizeStaging (registry.ts) and record_publication (network_commands.rs):
\* what the catalogue shows has its bytes, its registration and its edition on
\* the chain, and what the Mac has recorded as published is in the catalogue.
THEOREM ReleasesAreBacked == Spec => []PublicIsBacked
  <1>1. ASSUME IInv PROVE PublicIsBacked
    <2>1. \A j \in catalog : j \in promoted /\ head = j /\ edition = j
      BY <1>1 DEF IInv, Shown
    <2>2. latest # None => latest.job \in catalog
      BY <1>1 DEF IInv, Remembered
    <2>3. \A j \in Jobs : ended[j] = "completed" => j \in catalog /\ latest # None
      BY <1>1 DEF IInv, Remembered
    <2>4. \A j \in Jobs : ended[j] = "completed" => j \in catalog /\ latest.job = j
      BY <2>1, <2>2, <2>3
    <2> QED
      BY <2>1, <2>2, <2>4 DEF PublicIsBacked
  <1> QED
    BY <1>1, AlwaysIInv, PTL

\* ensurePendingBlobs before the relayer, and collectExpiredStaging, which spares
\* a reservation whose job is under way (registry.ts): the bytes of a job that
\* may still be published are stored from its first transaction on, though its
\* reservation expires.  The types hold, and the chain carries at most one
\* registration and one edition.
THEOREM BytesComeFirst == Spec => []BytesBeforeChain
  <1>1. ASSUME IInv PROVE BytesBeforeChain
    <2>1. TypeOK
      BY <1>1, Typed
    <2>2. ASSUME NEW i \in DOMAIN txs, Active(txs[i].stg)
          PROVE  txs[i].stg \in bytes \/ txs[i].job \in promoted
      <3>1. /\ txs[i].stg = subsidy /\ txs[i].job \in Jobs /\ subsidy \in Stagings
            /\ Owner(subsidy, txs[i].job)
        <4>1. Owner(subsidy, txs[i].job) /\ txs[i] \in Transactions /\ subsidy # None
          BY <1>1, Unsponsored
        <4>2. subsidy \in Stagings
          BY <1>1, <4>1, Unsponsored
        <4> QED
          BY <1>1, <4>1, <4>2 DEF IInv, Mined, Transactions
      <3>2. Safe(subsidy)
        <4>1. txs # <<>>
          OBVIOUS
        <4> QED
          BY <1>1, <2>2, <3>1, <4>1 DEF IInv, Working
      <3>3. ASSUME NEW j \in promoted PROVE j = txs[i].job
        <4>1. j \in Jobs /\ Owner(subsidy, j)
          BY <1>1, Unsponsored
        <4> QED
          BY <1>1, <3>1, <4>1 DEF IInv, Owned
      <3> QED
        BY <3>1, <3>2, <3>3 DEF Safe
    <2> QED
      BY <2>1, <2>2 DEF BytesBeforeChain
  <1> QED
    BY <1>1, AlwaysIInv, PTL

=============================================================================
