----------------------------- MODULE Publication -----------------------------
(***************************************************************************)
(* Ship: `tohseno deploy` prepares a publication of one project, the phone *)
(* approves it, the Mac's service loop uploads and submits it to the       *)
(* registry web service, whose relayer registers the Shot on the chain and *)
(* then puts the release in the catalogue (cli/src/network_commands.rs,    *)
(* website/apps/site/src/registry.ts).                                     *)
(*                                                                         *)
(* Every process keeps its progress in files and may stop between any two  *)
(* of its writes; every answer may be lost.  All jobs are of one Builder   *)
(* and one Shot.  A staging reservation is named by the order of its       *)
(* creation and also names the registry's publication job.                 *)
(***************************************************************************)
EXTENDS Integers, Sequences, FiniteSets

CONSTANTS
    None,
    MaxJobs,        \* bound on the publications that `deploy` prepares
    Artifacts,      \* how many files a release has: source, icon, screenshots
    Capacity,       \* maxStagingRecords
    MaxEntries,     \* the 128 directory entries that a pass of the service takes
    MaxDeadlines,   \* bound on approvals and reservations that expire
    MaxFaults       \* bound on crashes, lost answers and failing storage

ASSUME ConstantsAssumption ==
    /\ MaxJobs \in Nat \ {0} /\ None \notin Nat
    /\ Artifacts \in Nat \ {0} /\ Capacity \in Nat \ {0}
    /\ MaxEntries \in Nat \ {0} /\ MaxDeadlines \in Nat /\ MaxFaults \in Nat

VARIABLES
    \* the Mac: a job's directory, and the project record
    deploy,         \* how far `deploy` has come with the job
    seq,            \* checkpoint_sequence the job was prepared for
    asked,          \* approval-request-sent marker
    approved,       \* approval.json
    remote,         \* remote-state.json
    ended,          \* completed.json or failure.json
    listed,         \* jobs among the first MaxEntries entries of the store
    latest,         \* the project's latest_publication
    call,           \* the service loop's step of the job at hand
    \* the registry web service
    staging,        \* staging/<id>.json
    files,          \* staging/<id>.source, .icon, ...
    job,            \* jobs/<id>.json
    bytes,          \* stagings whose bytes are in pending blob storage
    promoted,       \* jobs whose bytes are in public blob storage
    catalog,        \* releases/: what is public
    subsidy,        \* upload-subsidies/<builder>.json
    work,           \* the serialized operation under way
    upload,         \* the upload being received
    late,           \* an upload whose caller has given up
    \* the chain
    txs,            \* transactions of the relayer, by nonce
    account, commitment, head, edition,
    \* time and faults
    lapsed,         \* jobs whose approval has passed its deadline
    expired,        \* reservations older than thirty minutes
    cut,            \* history: jobs whose last writes a stop has cut off
    faults

passes == <<listed, cut>>
plans == <<deploy, seq, asked, approved, lapsed, expired, passes>>
mac == <<remote, ended, latest>>
store == <<staging, files>>
public == <<bytes, promoted, catalog>>
uploads == <<upload, late>>
chain == <<txs, account, commitment, head, edition>>
vars == <<plans, mac, call, store, job, public, subsidy, work, uploads,
          chain, faults>>

\* Named by the order in which `deploy` is called.
Jobs == 1 .. MaxJobs

\* A job makes one reservation, and one more for each answer that is lost.
Stagings == 1 .. MaxJobs + MaxFaults
Kinds == <<"account", "commit", "register", "claims">>

\* PublicationJob: of the four transactions, their nonces or 0.
JobState == [status : {"active", "complete", "failed"}, blobs : BOOLEAN,
             cleanup : BOOLEAN, account : Nat, commit : Nat, register : Nat,
             claims : Nat]

\* RemoteState: the reservation, how many files are up, and its token.
RemoteState == [stg : Stagings, up : 0 .. Artifacts, submitted : BOOLEAN,
                token : BOOLEAN]

\* What a call of the loop may be answered.
Answers == {"ok", "refused", "pending", "complete"}

\* completed.json or failure.json.
Endings == {"completed", "failed"}

\* The project's latest_publication: a checkpoint and the job that shipped it.
Shipped == [seq : 1 .. 2, job : Jobs]

\* StagingRecord: the job it was made for and the files it has received.
AllOf == 1 .. Artifacts
Reservations == [job : Jobs, up : SUBSET AllOf]

\* The step of advance_publication that waits for an answer or has one.
Calls == [job : Jobs, stg : Stagings \cup {0}, answer : {None} \cup Answers,
          op : {"stage", "put", "publish", "poll", "record", "clear", "complete"}]

ASSUME NoneAssumption ==
    None \notin Answers \cup Endings \cup JobState \cup RemoteState \cup Shipped
                   \cup Reservations \cup Calls

NewJob == [status |-> "active", blobs |-> FALSE, cleanup |-> FALSE,
           account |-> 0, commit |-> 0, register |-> 0, claims |-> 0]

Init ==
    /\ deploy = [j \in Jobs |-> "none"] /\ seq = [j \in Jobs |-> 0]
    /\ asked = {} /\ approved = {} /\ lapsed = {} /\ expired = {}
    /\ listed = {} /\ cut = {}
    /\ remote = [j \in Jobs |-> None] /\ ended = [j \in Jobs |-> None]
    /\ latest = None /\ call = None
    /\ staging = <<>> /\ files = <<>>
    /\ job = [s \in Stagings |-> None]
    /\ bytes = {} /\ promoted = {} /\ catalog = {}
    /\ subsidy = None /\ work = None /\ upload = None /\ late = None
    /\ txs = <<>> /\ account = FALSE /\ head = None /\ edition = None
    /\ commitment = [j \in Jobs |-> "none"]
    /\ faults = 0

TimePasses == Cardinality(lapsed) + Cardinality(expired) < MaxDeadlines
Fault == faults < MaxFaults /\ faults' = faults + 1

-----------------------------------------------------------------------------
(* deploy, one process per job, and the phone's approval *)

Pending == {j \in Jobs : deploy[j] = "requested" /\ ended[j] = None}

\* deploy reads the project before it looks for a pending publication.
ReadProject(j) ==
    /\ deploy[j] = "none" /\ \A i \in 1 .. j - 1 : deploy[i] # "none"
    /\ deploy' = [deploy EXCEPT ![j] = "read"]
    /\ seq' = [seq EXCEPT ![j] = IF latest = None THEN 1 ELSE latest.seq + 1]
    /\ UNCHANGED <<asked, approved, lapsed, expired, passes, mac, call, store, job, public,
                   subsidy, work, uploads, chain, faults>>

\* A pending publication is waited for; two are an error.
CheckPending(j) ==
    /\ deploy[j] = "read"
    /\ deploy' = [deploy EXCEPT ![j] = IF Pending = {} THEN "building" ELSE "over"]
    /\ UNCHANGED <<seq, asked, approved, lapsed, expired, passes, mac, call, store, job, public,
                   subsidy, work, uploads, chain, faults>>

\* Job directories are never removed.
Directories(d) == {j \in Jobs : d[j] \in {"preparing", "requested"}}

\* entries.take(128) of a directory whose order nothing promises.
FirstEntries(dirs) ==
    {S \in SUBSET dirs : IF Cardinality(dirs) <= MaxEntries THEN S = dirs
                         ELSE Cardinality(S) = MaxEntries}

\* The job's directory; then the source, the icon and the screenshots in it.
MakeDirectory(j) ==
    /\ deploy[j] = "building"
    /\ deploy' = [deploy EXCEPT ![j] = "preparing"]
    /\ listed' \in FirstEntries(Directories(deploy'))
    /\ UNCHANGED <<seq, asked, approved, lapsed, expired, cut, mac, call, store, job,
                   public, subsidy, work, uploads, chain, faults>>

\* preparation.json and then approval-request.json; without the second file
\* every reader skips the directory.
WriteRequest(j) ==
    /\ deploy[j] = "preparing"
    /\ deploy' = [deploy EXCEPT ![j] = "requested"]
    /\ UNCHANGED <<seq, asked, approved, lapsed, expired, passes, mac, call, store, job, public,
                   subsidy, work, uploads, chain, faults>>

\* publish_pending_publications sends the request to the phone, then marks it.
PublishRequest(j) ==
    /\ deploy[j] = "requested" /\ j \in listed
    /\ j \notin approved \cup asked \cup lapsed
    /\ asked' = asked \cup {j}
    /\ UNCHANGED <<deploy, seq, approved, lapsed, expired, passes, mac, call, store, job, public,
                   subsidy, work, uploads, chain, faults>>

\* publication.approve: approval.json is written once.
Approve(j) ==
    /\ j \in asked \ approved
    /\ approved' = approved \cup {j}
    /\ UNCHANGED <<deploy, seq, asked, lapsed, expired, passes, mac, call, store, job, public,
                   subsidy, work, uploads, chain, faults>>

\* The deadline of the request and of both its actions passes.
Lapse(j) ==
    /\ TimePasses /\ deploy[j] = "requested" /\ j \notin lapsed /\ ended[j] = None
    /\ lapsed' = lapsed \cup {j}
    /\ UNCHANGED <<deploy, seq, asked, approved, expired, passes, mac, call, store, job, public,
                   subsidy, work, uploads, chain, faults>>

-----------------------------------------------------------------------------
(* resume_publications_once: one call for one job, then one durable write *)

Idle == call = None

\* The pass takes its entries first and then skips the jobs that have ended.
Eligible(j) == j \in listed \cap approved /\ ended[j] = None

\* What is left to do, by remote-state.json.
Op(r) ==
    IF r = None THEN "stage"
    ELSE IF r.up < Artifacts THEN "put"
    ELSE IF ~r.submitted THEN "publish"
    ELSE "poll"

\* advance_publication up to its call.
Call(j) ==
    /\ Idle /\ Eligible(j)
    /\ remote[j] # None => remote[j].token
    /\ call' = [job |-> j, op |-> Op(remote[j]), answer |-> None,
                stg |-> IF remote[j] = None THEN 0 ELSE remote[j].stg]
    /\ UNCHANGED <<plans, mac, store, job, public, subsidy, work, uploads, chain,
                   faults>>

\* A job whose token is gone has no way to go on: failure.json.
NoToken(j) ==
    /\ Idle /\ Eligible(j)
    /\ remote[j] # None /\ ~remote[j].token
    /\ ended' = [ended EXCEPT ![j] = "failed"]
    /\ UNCHANGED <<plans, remote, latest, call, store, job, public, subsidy,
                   work, uploads, chain, faults>>

Waits(op) == call # None /\ call.op = op /\ call.answer = None
Answer(a) == call' = [call EXCEPT !.answer = a]
Answered(op, a) == call # None /\ call.op = op /\ call.answer = a

\* Mutant: every refusal is tried again.
RefusedRetried ==
    /\ call # None /\ call.answer = "refused"
    /\ call' = None
    /\ UNCHANGED <<plans, mac, store, job, public, subsidy, work, uploads, chain,
                   faults>>

\* An error that does not read as transient: failure.json, for ever.
Refused ==
    /\ call # None /\ call.answer = "refused"
    /\ ended' = [ended EXCEPT ![call.job] = "failed"]
    /\ call' = None
    /\ UNCHANGED <<plans, remote, latest, store, job, public, subsidy, work,
                   uploads, chain, faults>>

Staged ==
    /\ Answered("stage", "ok")
    /\ remote' = [remote EXCEPT ![call.job] =
                    [stg |-> call.stg, up |-> 0, submitted |-> FALSE,
                     token |-> TRUE]]
    /\ call' = None
    /\ UNCHANGED <<plans, ended, latest, store, job, public, subsidy, work,
                   uploads, chain, faults>>

Uploaded ==
    /\ Answered("put", "ok")
    /\ remote' = [remote EXCEPT ![call.job].up = @ + 1]
    /\ call' = None
    /\ UNCHANGED <<plans, ended, latest, store, job, public, subsidy, work,
                   uploads, chain, faults>>

Submitted ==
    /\ Answered("publish", "ok")
    /\ remote' = [remote EXCEPT ![call.job].submitted = TRUE]
    /\ call' = None
    /\ UNCHANGED <<plans, ended, latest, store, job, public, subsidy, work,
                   uploads, chain, faults>>

\* The job is under way; the next pass polls again.
StillPending ==
    /\ Answered("poll", "pending")
    /\ call' = None
    /\ UNCHANGED <<plans, mac, store, job, public, subsidy, work, uploads, chain,
                   faults>>

\* Release, chain and source are fetched and compared with the approval.
VerifyEvidence ==
    /\ Answered("poll", "complete")
    /\ LET j == call.job IN
       call' = [call EXCEPT !.op = "record", !.answer =
                  IF j \in catalog /\ head = j /\ j \in promoted
                  THEN "ok" ELSE "refused"]
    /\ UNCHANGED <<plans, mac, store, job, public, subsidy, work, uploads, chain,
                   faults>>

\* record_publication: a receipt may not move back, and a second one for the
\* same checkpoint differs at least in its time.
RecordPublication ==
    /\ Answered("record", "ok")
    /\ LET j == call.job
           new == latest = None \/ latest.seq < seq[j]
       IN /\ latest' = IF new THEN [seq |-> seq[j], job |-> j] ELSE latest
          /\ call' = IF new THEN [call EXCEPT !.op = "clear"]
                     ELSE [call EXCEPT !.answer = "refused"]
    /\ UNCHANGED <<plans, remote, ended, store, job, public, subsidy, work,
                   uploads, chain, faults>>

ClearToken ==
    /\ Answered("clear", "ok")
    /\ remote' = [remote EXCEPT ![call.job].token = FALSE]
    /\ call' = [call EXCEPT !.op = "complete"]
    /\ UNCHANGED <<plans, ended, latest, store, job, public, subsidy, work,
                   uploads, chain, faults>>

Complete ==
    /\ Answered("complete", "ok")
    /\ ended' = [ended EXCEPT ![call.job] = "completed"]
    /\ call' = None
    /\ UNCHANGED <<plans, remote, latest, store, job, public, subsidy, work,
                   uploads, chain, faults>>

\* Between record_publication and completed.json.
Recorded == Answered("clear", "ok") \/ Answered("complete", "ok")

\* The service stops, or its call times out or loses the connection: nothing
\* is written and the next pass starts over.  The registry carries on.
LoseAnswer ==
    /\ call # None /\ Fault
    /\ call' = None
    /\ cut' = IF Recorded THEN cut \cup {call.job} ELSE cut
    /\ work' = IF work = None THEN None ELSE [work EXCEPT !.heard = FALSE]
    /\ upload' = None
    /\ late' = IF upload = None THEN late ELSE upload
    /\ UNCHANGED <<deploy, seq, asked, approved, lapsed, expired, listed, mac, store,
                   job, public, subsidy, chain>>

-----------------------------------------------------------------------------
(* The registry's routes.  POST staging and the poll of a job are serialized *)

Holding == {s \in DOMAIN staging : staging[s] # None}
Active(s) == job[s] # None /\ job[s].status = "active"

\* Mutant: an expired reservation goes whether or not its job is under way.
CollectableAny == Holding \cap expired

\* collectExpiredStaging spares a reservation whose job is under way.
Collectable == {s \in Holding \cap expired : ~Active(s)}

Without(gone) ==
    /\ staging' = [s \in DOMAIN staging |-> IF s \in gone THEN None ELSE staging[s]]
    /\ files' = [s \in DOMAIN files |-> IF s \in gone THEN {} ELSE files[s]]

\* POST staging when the store is full: 503, which does not read as transient.
StageFull ==
    /\ Waits("stage") /\ work = None
    /\ Cardinality(Holding \ Collectable) >= Capacity
    /\ Without(Collectable) /\ bytes' = bytes \ Collectable
    /\ Answer("refused")
    /\ UNCHANGED <<plans, mac, job, promoted, catalog, subsidy, work, uploads,
                   chain, faults>>

Stage ==
    /\ Waits("stage") /\ work = None
    /\ Cardinality(Holding \ Collectable) < Capacity
    /\ staging' = Append([s \in DOMAIN staging |->
                            IF s \in Collectable THEN None ELSE staging[s]],
                         [job |-> call.job, up |-> {}])
    /\ files' = Append([s \in DOMAIN files |->
                          IF s \in Collectable THEN {} ELSE files[s]], {})
    /\ bytes' = bytes \ Collectable
    /\ call' = [call EXCEPT !.answer = "ok", !.stg = Len(staging) + 1]
    /\ UNCHANGED <<plans, mac, job, promoted, catalog, subsidy, work, uploads,
                   chain, faults>>

\* Thirty minutes pass.
Expire(s) ==
    /\ TimePasses /\ s \in Holding \ expired
    /\ expired' = expired \cup {s}
    /\ UNCHANGED <<deploy, seq, asked, approved, lapsed, passes, mac, call, store,
                   job, public, subsidy, work, uploads, chain, faults>>

\* authorizedStaging
Authorized(s) == staging[s] # None /\ s \notin expired

\* PUT reads the record before the body and writes it back after.
BeginPut ==
    /\ Waits("put") /\ upload = None
    /\ LET s == call.stg IN
       IF Authorized(s)
       THEN /\ upload' = [stg |-> s, art |-> remote[call.job].up + 1,
                          rec |-> staging[s]]
            /\ UNCHANGED call
       ELSE Answer("refused") /\ UNCHANGED upload
    /\ UNCHANGED <<plans, mac, store, job, public, subsidy, work, late, chain,
                   faults>>

Receive(u) ==
    /\ files' = [files EXCEPT ![u.stg] = @ \cup {u.art}]
    /\ staging' = [staging EXCEPT ![u.stg] = [u.rec EXCEPT !.up = u.rec.up \cup {u.art}]]
    /\ UNCHANGED <<plans, mac, job, public, subsidy, work, chain, faults>>

FinishPut ==
    /\ upload # None
    /\ Receive(upload)
    /\ Answer("ok") /\ upload' = None /\ UNCHANGED late

\* The body had arrived; its record overwrites what was stored meanwhile.
FinishLate ==
    /\ late # None
    /\ Receive(late)
    /\ late' = None /\ UNCHANGED <<call, upload>>

Lapsed(s) == staging[s].job \in lapsed

\* POST publish.  The claim edition must still be unopened.
Publish ==
    /\ Waits("publish")
    /\ LET s == call.stg
           fit == /\ Authorized(s) /\ staging[s].up = AllOf /\ ~Lapsed(s)
                  /\ seq[call.job] = 1 => edition = None
       IN /\ Answer(IF fit THEN "ok" ELSE "refused")
          /\ job' = IF fit /\ job[s] = None THEN [job EXCEPT ![s] = NewJob] ELSE job
    /\ UNCHANGED <<plans, mac, store, public, subsidy, work, uploads, chain,
                   faults>>

-----------------------------------------------------------------------------
(* publicationStatus: the poll drives the job *)

At(step) == work # None /\ work.step = step
Goto(step) == work' = [work EXCEPT !.step = step]
Job == staging[work.stg].job

\* The operation ends and its caller, if it still waits, is answered.
End(a) ==
    /\ work' = None
    /\ IF work.heard THEN Answer(a) ELSE UNCHANGED call

\* An error other than PublicationPending: the job is failed for good.
Fail ==
    /\ job' = [job EXCEPT ![work.stg] = [work.mem EXCEPT !.status = "failed"]]
    /\ End("refused")

\* A failed job is reported.  So is a complete one, but only while its
\* reservation waits to be cleaned up.
PollSettled ==
    /\ Waits("poll") /\ work = None
    /\ LET s == call.stg IN
       \/ /\ job[s].status = "failed"
          /\ Answer("refused") /\ UNCHANGED <<store, job, bytes>>
       \/ /\ job[s].status = "complete" /\ ~job[s].cleanup
          /\ Without({s}) /\ bytes' = bytes \ {s}
          /\ job' = [job EXCEPT ![s].cleanup = TRUE]
          /\ Answer("complete")
    /\ UNCHANGED <<plans, mac, promoted, catalog, subsidy, work, uploads, chain,
                   faults>>

BeginPoll ==
    /\ Waits("poll") /\ work = None
    /\ LET j == job[call.stg] IN
       /\ j.status = "active" \/ (j.status = "complete" /\ j.cleanup)
       /\ work' = [stg |-> call.stg, step |-> "open", heard |-> TRUE, mem |-> j]
    /\ UNCHANGED <<plans, mac, call, store, job, public, subsidy, uploads,
                   chain, faults>>

\* The reservation must exist, also for a job that is complete.
NoReservation ==
    /\ At("open") /\ staging[work.stg] = None
    /\ Fail
    /\ UNCHANGED <<plans, mac, store, public, subsidy, uploads, chain, faults>>

\* The bytes are stored and the job says so before the first chain call.
StageBlobs ==
    /\ At("open") /\ staging[work.stg] # None
    /\ \/ /\ work.mem.blobs
          /\ Goto("authorize") /\ UNCHANGED <<call, job, bytes>>
       \/ /\ ~work.mem.blobs /\ files[work.stg] = AllOf
          /\ bytes' = bytes \cup {work.stg}
          /\ job' = [job EXCEPT ![work.stg].blobs = TRUE]
          /\ work' = [work EXCEPT !.step = "authorize", !.mem.blobs = TRUE]
          /\ UNCHANGED call
    /\ UNCHANGED <<plans, mac, store, promoted, catalog, subsidy, uploads,
                   chain, faults>>

\* Storage is temporarily unavailable: the job waits.
StorageFails ==
    /\ \/ At("open") /\ staging[work.stg] # None /\ ~work.mem.blobs
       \/ At("finalize")
    /\ Fault /\ End("pending")
    /\ job' = [job EXCEPT ![work.stg] = work.mem]
    /\ UNCHANGED <<plans, mac, store, public, subsidy, uploads, chain>>

\* Mutant: only a published release uses the Builder's sponsored upload up.
ReserveByCatalog ==
    /\ At("authorize") /\ work.mem.register = 0
    /\ IF Job \in lapsed \/ catalog # {}
       THEN Fail /\ UNCHANGED subsidy
       ELSE Goto("relay") /\ subsidy' = work.stg /\ UNCHANGED <<call, job>>
    /\ UNCHANGED <<plans, mac, store, public, uploads, chain, faults>>

\* verifyRegistryAuthorization and reserveUploadSubsidy: one publication job
\* per Builder is sponsored, for ever.
Reserve ==
    /\ At("authorize") /\ work.mem.register = 0
    /\ LET held == IF subsidy # None THEN subsidy
                   ELSE IF catalog # {} THEN 0 ELSE work.stg
       IN IF Job \in lapsed
          THEN Fail /\ UNCHANGED subsidy
          ELSE /\ subsidy' = held
               /\ IF held = work.stg /\ catalog = {}
                  THEN Goto("relay") /\ UNCHANGED <<call, job>>
                  ELSE Fail
    /\ UNCHANGED <<plans, mac, store, public, uploads, chain, faults>>

\* Once the registration is sent neither deadline nor subsidy is looked at.
Sponsored ==
    /\ At("authorize") /\ work.mem.register # 0
    /\ Goto("relay")
    /\ UNCHANGED <<plans, mac, call, store, job, public, subsidy, uploads,
                   chain, faults>>

Out(h) == IF h = 0 THEN "none" ELSE txs[h].out

\* What the chain must show before the next transaction is due.  A commitment
\* is consumed by the registration.
Met(kind) ==
    CASE kind = "account" -> account
      [] kind = "commit" -> \/ commitment[Job] = "mature"
                            \/ /\ commitment[Job] = "none"
                               /\ Out(work.mem.commit) = "ok"
      [] OTHER -> Out(work.mem[kind]) = "ok"

Due(kind) ==
    /\ At("relay") /\ ~Met(kind)
    /\ \A i, k \in DOMAIN Kinds : Kinds[k] = kind /\ i < k => Met(Kinds[i])

\* Whether the call would succeed on the chain as it is; the node refuses to
\* send one that would not.
Succeeds(kind, j) ==
    CASE kind = "register" -> head = None /\ commitment[j] = "mature" /\ j \notin lapsed
      [] kind = "claims" -> head # None /\ edition = None /\ j \notin lapsed
      [] OTHER -> TRUE

\* writeContract: sent, but its hash is only in memory until the job is saved.
Submit(kind) ==
    /\ Due(kind) /\ work.mem[kind] = 0
    /\ kind = "commit" => commitment[Job] = "none"
    /\ IF Succeeds(kind, Job)
       THEN /\ txs' = Append(txs, [kind |-> kind, stg |-> work.stg, job |-> Job,
                                   out |-> "pending"])
            /\ work' = [work EXCEPT !.step = "save",
                                    !.mem[kind] = Len(txs) + 1]
            /\ UNCHANGED <<call, job>>
       ELSE Fail /\ UNCHANGED txs
    /\ UNCHANGED <<plans, mac, store, public, subsidy, uploads, account,
                   commitment, head, edition, faults>>

\* PublicationPending: not mined, or the commitment is younger than a minute.
Await(kind) ==
    /\ Due(kind)
    /\ \/ Out(work.mem[kind]) = "pending"
       \/ kind = "commit" /\ commitment[Job] = "young"
    /\ End("pending")
    /\ UNCHANGED <<plans, mac, store, job, public, subsidy, uploads, chain,
                   faults>>

Reverted(kind) ==
    /\ Due(kind) /\ Out(work.mem[kind]) = "reverted"
    /\ Fail
    /\ UNCHANGED <<plans, mac, store, public, subsidy, uploads, chain, faults>>

Relayed ==
    /\ At("relay") /\ \A i \in DOMAIN Kinds : Met(Kinds[i])
    /\ Goto("finalize")
    /\ UNCHANGED <<plans, mac, call, store, job, public, subsidy, uploads,
                   chain, faults>>

SaveJob ==
    /\ At("save")
    /\ job' = [job EXCEPT ![work.stg] = work.mem]
    /\ End(IF work.mem.status = "complete" THEN "complete" ELSE "pending")
    /\ UNCHANGED <<plans, mac, store, public, subsidy, uploads, chain, faults>>

\* Mutant: the release is written first and the bytes follow.
FinalizeReleaseFirst ==
    /\ At("finalize")
    /\ IF staging[work.stg].up = AllOf /\ files[work.stg] = AllOf /\ head = Job
       THEN /\ catalog' = catalog \cup {Job}
            /\ Goto("release") /\ UNCHANGED <<call, job>>
       ELSE Fail /\ UNCHANGED catalog
    /\ UNCHANGED <<plans, mac, store, bytes, promoted, subsidy, uploads, chain,
                   faults>>

\* finalizeStaging: every artifact is there, the registration is the head of
\* the Shot, and the bytes become public before the release does.
Finalize ==
    /\ At("finalize")
    /\ IF staging[work.stg].up = AllOf /\ files[work.stg] = AllOf /\ head = Job
       THEN /\ promoted' = promoted \cup {Job}
            /\ Goto("release") /\ UNCHANGED <<call, job>>
       ELSE Fail /\ UNCHANGED promoted
    /\ UNCHANGED <<plans, mac, store, bytes, catalog, subsidy, uploads, chain,
                   faults>>

\* releases/<digest>.json and the indexes of the Shot and of the Builder.
WriteRelease ==
    /\ At("release")
    /\ catalog' = catalog \cup {Job}
    /\ Goto("cleanup")
    /\ UNCHANGED <<plans, mac, call, store, job, bytes, promoted, subsidy,
                   uploads, chain, faults>>

\* cleanupPublishedStaging; a failure is left to a later poll.
Cleanup ==
    /\ At("cleanup")
    /\ \/ /\ Without({work.stg}) /\ bytes' = bytes \ {work.stg}
          /\ work' = [work EXCEPT !.step = "save", !.mem.status = "complete",
                                  !.mem.cleanup = TRUE]
       \/ /\ work' = [work EXCEPT !.step = "save", !.mem.status = "complete"]
          /\ UNCHANGED <<store, bytes>>
    /\ UNCHANGED <<plans, mac, call, job, promoted, catalog, subsidy, uploads,
                   chain, faults>>

\* The web service stops; its caller sees a connection error.
RegistryStops ==
    /\ work # None \/ upload # None \/ late # None
    /\ Fault
    /\ work' = None /\ upload' = None /\ late' = None
    /\ call' = IF upload # None \/ (work # None /\ work.heard) THEN None ELSE call
    /\ UNCHANGED <<plans, mac, store, job, public, subsidy, chain>>

-----------------------------------------------------------------------------
(* The chain mines the relayer's transactions in the order of their nonces *)

FirstPending(i) ==
    /\ i \in DOMAIN txs /\ txs[i].out = "pending"
    /\ \A k \in 1 .. i - 1 : txs[k].out # "pending"

Mine(i) ==
    /\ FirstPending(i)
    /\ LET t == txs[i]
           ok == Succeeds(t.kind, t.job)
       IN /\ txs' = [txs EXCEPT ![i].out = IF ok THEN "ok" ELSE "reverted"]
          /\ account' = (account \/ t.kind = "account")
          /\ commitment' = [commitment EXCEPT ![t.job] =
                IF t.kind = "commit" /\ @ = "none" THEN "young"
                ELSE IF t.kind = "register" /\ ok THEN "none" ELSE @]
          /\ head' = IF t.kind = "register" /\ ok THEN t.job ELSE head
          /\ edition' = IF t.kind = "claims" /\ ok THEN t.job ELSE edition
    /\ UNCHANGED <<plans, mac, call, store, job, public, subsidy, work, uploads,
                   faults>>

\* A minute passes.
Mature(j) ==
    /\ commitment[j] = "young"
    /\ commitment' = [commitment EXCEPT ![j] = "mature"]
    /\ UNCHANGED <<plans, mac, call, store, job, public, subsidy, work, uploads,
                   txs, account, head, edition, faults>>

-----------------------------------------------------------------------------
Deploy(j) ==
    \/ ReadProject(j) \/ CheckPending(j) \/ MakeDirectory(j) \/ WriteRequest(j)
    \/ PublishRequest(j) \/ Approve(j) \/ Lapse(j)

Loop ==
    \/ \E j \in Jobs : Call(j) \/ NoToken(j)
    \/ Refused \/ Staged \/ Uploaded \/ Submitted \/ StillPending
    \/ VerifyEvidence \/ RecordPublication \/ ClearToken \/ Complete

Routes == StageFull \/ Stage \/ BeginPut \/ FinishPut \/ Publish \/ PollSettled
Relayer == \E k \in DOMAIN Kinds :
              Submit(Kinds[k]) \/ Await(Kinds[k]) \/ Reverted(Kinds[k])
Poll ==
    \/ BeginPoll \/ NoReservation \/ StageBlobs \/ Reserve \/ Sponsored
    \/ Relayer \/ Relayed \/ SaveJob \/ Finalize \/ WriteRelease \/ Cleanup

Chain == (\E i \in DOMAIN txs : Mine(i)) \/ (\E j \in Jobs : Mature(j))
Environment ==
    \/ FinishLate \/ LoseAnswer \/ StorageFails \/ RegistryStops
    \/ \E s \in DOMAIN staging : Expire(s)

Next == (\E j \in Jobs : Deploy(j)) \/ Loop \/ Routes \/ Poll \/ Chain \/ Environment

Spec == Init /\ [][Next]_vars

\* The service loop ticks, the web service answers, the chain mines.  Nothing
\* makes the owner deploy or approve.
FairSpec ==
    /\ Spec
    /\ WF_vars(Loop) /\ WF_vars(Routes) /\ WF_vars(Poll) /\ WF_vars(Chain)

-----------------------------------------------------------------------------
\* The files and the chain hold what their readers expect; the chain carries
\* at most one registration and one edition.
TypeOK ==
    /\ deploy \in [Jobs -> {"none", "read", "building", "preparing", "requested", "over"}]
    /\ seq \in [Jobs -> 0 .. 2]
    /\ asked \subseteq Jobs /\ approved \subseteq asked /\ lapsed \subseteq Jobs
    /\ \A j \in Jobs :
         /\ remote[j] \in {None} \cup RemoteState
         /\ ended[j] \in {None} \cup Endings
    /\ latest = None \/ latest \in Shipped
    /\ call = None \/ call \in Calls
    /\ Len(staging) <= Cardinality(Stagings) /\ Len(files) = Len(staging)
    /\ \A s \in Stagings : job[s] = None \/ job[s] \in JobState
    /\ \A i \in DOMAIN txs : txs[i].out \in {"pending", "ok", "reverted"}
    /\ \A k \in {"register", "claims"} :
         Cardinality({i \in DOMAIN txs : txs[i].kind = k /\ txs[i].out = "ok"}) <= 1

\* "A process crash therefore cannot turn local-only bytes into a public
\* transaction": as long as a job may still be published, the bytes of every
\* transaction it has sent are in durable storage, though its reservation
\* expires and other reservations are collected meanwhile.
BytesBeforeChain ==
    /\ TypeOK
    /\ \A i \in DOMAIN txs :
          Active(txs[i].stg) => txs[i].stg \in bytes \/ txs[i].job \in promoted

\* What the catalogue shows has its bytes, its registration and its edition,
\* and what the Mac records as published is in the catalogue.
PublicIsBacked ==
    /\ \A j \in catalog : j \in promoted /\ head = j /\ edition = j
    /\ \A j \in Jobs : ended[j] = "completed" => j \in catalog /\ latest.job = j
    /\ latest # None => latest.job \in catalog

\* The relayer pays for one publication of a Builder and only a first Ship,
\* whatever is retried, deployed at the same time or lost in a crash.
OneSponsoredUpload ==
    /\ \A i, k \in DOMAIN txs : txs[i].stg = txs[k].stg
    /\ \A i \in DOMAIN txs : seq[txs[i].job] = 1

\* More directories than a pass takes entries, and this one is not taken.
Overlooked(j) ==
    /\ j \notin listed
    /\ Cardinality(Directories(deploy)) > MaxEntries

\* Every approved publication ends over lost answers, stops of both services
\* and deadlines: completed, or failed and not recorded as published.  Two
\* kinds do not: a job that the passes overlook, and one that was recorded
\* when a stop cut off its token and its completed.json, which fails.
JobsSettle ==
    \A j \in Jobs : j \in approved ~>
        \/ ended[j] = "completed"
        \/ ended[j] = "failed" /\ (latest # None => latest.job # j)
        \/ ended[j] = "failed" /\ j \in cut
        \/ Overlooked(j)

\* "Advance every locally approved publication by at most one bounded remote
\* operation" (network_commands.rs:1668): an approved publication ends.
EveryJobSettles == \A j \in Jobs : j \in approved ~> ended[j] # None

\* "The durable request will resume safely after a restart"
\* (network_commands.rs:1106): what the project records as its published
\* checkpoint is completed.
PublishedCompletes ==
    \A j \in Jobs :
        (latest # None /\ latest.job = j) ~> ended[j] = "completed"

=============================================================================
