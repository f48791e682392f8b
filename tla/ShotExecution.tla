---------------------------- MODULE ShotExecution ----------------------------
(***************************************************************************)
(* One durable execution of a Shot and the processes that may touch it     *)
(* (application/src/execution_manager.rs, application/src/factory_lease.rs *)
(* and engine/src/shot_execution.rs).                                      *)
(*                                                                         *)
(*   runners      detached `tohseno shot run` processes;                   *)
(*   supervisors  callers of ensure_background_runner: the service's one   *)
(*                second monitor and frontends that retry a receipt;       *)
(*   cancellers   `tohseno shot cancel` processes.                         *)
(*                                                                         *)
(* They share files (execution.json, completion.json, events.jsonl,        *)
(* runner.pid) and three advisory locks (runner.lock, run.claim and the    *)
(* factory lease).  A read that is used later, a file write and a lock     *)
(* operation are steps of their own; the checks cancel makes on entry are  *)
(* one step, and so are consecutive phases that every reader treats alike. *)
(*                                                                         *)
(* The thirteen phases between ExecutionStarted and ValidationStarted are  *)
(* one value, in_flight: run_shot, cancel and runner_recovery_disposition  *)
(* treat them alike.  A completion record is the phase it finalizes to.    *)
(***************************************************************************)
EXTENDS Naturals, FiniteSets

CONSTANTS
    None,
    Runners,         \* runner process identities
    Supervisors,     \* concurrent callers of ensure_background_runner
    Cancellers,      \* concurrent `shot cancel` processes
    Manual,          \* TRUE: a person may also start `shot run` by hand
    Faults,          \* which faults happen, see below
    MaxFaults,       \* bound on faults and on lost claim races
    MaxWaits,        \* bound on device losses
    MaxRuns,         \* bound on harness passes and on accepted Versions
    MaxOthers        \* bound on other executions taking the factory lease

FaultKinds == {"runner",     \* a runner process is killed
               "service",    \* a supervisor dies, but not during hand-over
               "handover",   \* a supervisor dies between spawn and PID write
               "mac",        \* the whole Mac restarts
               "preempt",    \* a supervisor is suspended between reading the
                             \* record and probing the runner's liveness
               "io",         \* a step of run_shot fails under the claim
               "device",     \* the wait for the phone ends in an error
               "ledger",     \* the ledger is unreadable when a stalled
                             \* execution is finalized
               "verify"}     \* an accepted Version fails verification

ASSUME ExecutionAssumption ==
    /\ Manual \in BOOLEAN
    /\ Faults \subseteq FaultKinds
    /\ MaxFaults \in Nat /\ MaxWaits \in Nat
    /\ MaxRuns \in Nat /\ MaxOthers \in Nat
    /\ Runners \cap Supervisors = {}
    /\ Runners \cap Cancellers = {}
    /\ Supervisors \cap Cancellers = {}
    /\ None \notin Runners \cup Supervisors \cup Cancellers
    /\ "other" \notin Runners \cup {None}
    /\ None \notin {"prepared", "completed", "failed", "cancelled"}

Actors == Runners \cup Supervisors \cup Cancellers

Final == {"completed", "failed", "cancelled"}

Phases == {"prepared", "runner_started", "in_flight", "waiting_for_device",
           "validation_completed"} \cup Final

VARIABLES
    \* files
    phase,        \* execution.json: phase
    child,        \* execution.json: process_id, named by the runner it belongs to
    log,          \* events.jsonl: "open", its one last final event, or "torn"
    completion,   \* completion.json, or None
    pidFile,      \* runner.pid, or None
    versions,     \* Versions the ledger accepted for this execution
    \* locks and processes
    launcher,     \* holder of runner.lock
    claim,        \* holder of run.claim
    owns,         \* runners whose own descriptor of run.claim is open
    lease,        \* holder of the factory lease, "other" for another execution
    harness,      \* runners whose harness process tree is alive
    pc,           \* where each process is
    seen,         \* its copy of the phase, read earlier
    verdict,      \* its exit reason, then the completion it publishes
    spawned,      \* the runner a supervisor spawned or a canceller signals
    passes,       \* harness passes of each runner process
    \* history and bounds
    unleased,     \* runners sent to their repair by a failed device wait
    invocations,  \* harness passes of the execution
    faults, waits, others

files == <<phase, child, log, completion, pidFile, versions>>
locks == <<launcher, claim, owns, lease>>
history == <<invocations, unleased>>
bounds == <<faults, waits, others>>
vars == <<files, locks, harness, pc, seen, verdict, spawned, passes,
          history, bounds>>

RunnerSteps == {"off", "loading", "claiming", "claimed", "resuming",
                "leasing", "leased", "spawning", "spawned", "harness", "gates",
                "awaiting_device", "reacquiring", "reacquired", "stalled"}
SupervisorSteps == {"idle", "locked", "probing_live", "probing_dead",
                    "launching", "spawning_runner", "handing_over", "stalled"}
CancelSteps == {"idle", "signalling", "signalled"}
CompletionSteps == {"completing", "judged", "validated", "published",
                    "finalized"}

\* run_shot between its claim and complete_execution.
Working(r) == pc[r] \in {"claimed", "resuming", "leasing", "leased",
                         "spawning", "spawned", "harness", "gates",
                         "awaiting_device", "reacquiring", "reacquired"}

Alive(r) == pc[r] # "off"

\* append_event: a final event must be the last one of the journal.
Append(p) == IF log = "open" THEN IF p \in Final THEN p ELSE "open" ELSE "torn"

\* update_phase: the caller's whole record replaces execution.json, then the
\* event is appended.
UpdatePhase(a, p) ==
    /\ phase' = p
    /\ log' = Append(p)
    /\ seen' = [seen EXCEPT ![a] = p]

Goto(a, step) == pc' = [pc EXCEPT ![a] = step]

Return(a) ==
    /\ Goto(a, IF a \in Runners THEN "off" ELSE "idle")
    /\ launcher' = IF launcher = a THEN None ELSE launcher

Fault(kind) == kind \in Faults /\ faults < MaxFaults /\ faults' = faults + 1

\* Mutant: the harness does not inherit the descriptor (FD_CLOEXEC left set).
ReleaseClaimCloseOnExec(r) ==
    /\ owns' = owns \ {r}
    /\ claim' = IF claim = r THEN None ELSE claim

\* The inherited descriptor keeps run.claim held while the harness lives.
ReleaseClaim(r) ==
    /\ owns' = owns \ {r}
    /\ claim' = IF claim = r /\ r \notin harness THEN None ELSE claim

ReleaseLease(r) == lease' = IF lease = r THEN None ELSE lease

-----------------------------------------------------------------------------
Init ==
    /\ phase = "prepared" /\ child = None /\ log = "open"
    /\ completion = None /\ pidFile = None /\ versions = 0
    /\ launcher = None /\ claim = None /\ owns = {} /\ lease = None
    /\ harness = {}
    /\ pc = [a \in Actors |-> IF a \in Runners THEN "off" ELSE "idle"]
    /\ seen = [a \in Actors |-> "prepared"]
    /\ verdict = [a \in Actors |-> None]
    /\ spawned = [a \in Supervisors \cup Cancellers |-> None]
    /\ passes = [r \in Runners |-> 0]
    /\ invocations = 0 /\ unleased = {}
    /\ faults = 0 /\ waits = 0 /\ others = 0

-----------------------------------------------------------------------------
(* run_shot *)

\* A process identity is reused only when no file or lock still names it.
Spawnable(r) == /\ pc[r] = "off" /\ r \notin harness
                /\ r \notin {pidFile, child, claim, lease}
                /\ \A a \in Supervisors \cup Cancellers : spawned[a] # r

Born(r) ==
    /\ Spawnable(r)
    /\ passes' = [passes EXCEPT ![r] = 0]
    /\ unleased' = unleased \ {r}

\* `tohseno shot run` started by a person, without the launcher lock.
ManualRun(r) ==
    /\ Manual
    /\ Born(r)
    /\ Goto(r, "loading")
    /\ UNCHANGED <<files, locks, harness, seen, verdict, spawned, invocations,
                   bounds>>

\* The record is read before the claim is taken and never read again.
Load(r) ==
    /\ pc[r] = "loading"
    /\ seen' = [seen EXCEPT ![r] = phase]
    /\ Goto(r, "claiming")
    /\ UNCHANGED <<files, locks, harness, verdict, spawned, passes,
                   history, bounds>>

\* Mutant: the claim file is opened but not locked.
ClaimUnlocked(r) ==
    /\ pc[r] = "claiming"
    /\ claim' = r
    /\ owns' = owns \cup {r}
    /\ Goto(r, "claimed")
    /\ UNCHANGED <<files, launcher, lease, harness, seen, verdict, spawned,
                   passes, history, bounds>>

\* claim_execution_runner, nonblocking.
Claim(r) ==
    /\ pc[r] = "claiming" /\ claim = None
    /\ claim' = r
    /\ owns' = owns \cup {r}
    /\ Goto(r, "claimed")
    /\ UNCHANGED <<files, launcher, lease, harness, seen, verdict, spawned,
                   passes, history, bounds>>

\* RunnerAlreadyClaimed: the loser exits quietly.  A supervisor's probe of the
\* claim makes a runner lose as well.
LoseClaim(r) ==
    /\ pc[r] = "claiming" /\ claim # None
    /\ IF claim \in Supervisors
       THEN faults < MaxFaults /\ faults' = faults + 1
       ELSE UNCHANGED faults
    /\ Goto(r, "off")
    /\ UNCHANGED <<files, locks, harness, seen, verdict, spawned, passes,
                   history, waits, others>>

\* write_runner_pid succeeds and the phase read before the claim allows work.
EnterRun(r) ==
    /\ pc[r] = "claimed" /\ pidFile \in {None, r}
    /\ seen[r] \notin {"in_flight"} \cup Final
    /\ pidFile' = r
    /\ Goto(r, IF seen[r] = "waiting_for_device" THEN "resuming" ELSE "leasing")
    /\ UNCHANGED <<phase, child, log, completion, versions, locks, harness,
                   seen, verdict, spawned, passes, history, bounds>>

\* "another exact runner already owns this execution", "already in flight",
\* "already has a final outcome": the claim is dropped, the error finalized.
RefuseRun(r) ==
    /\ pc[r] = "claimed"
    /\ \/ pidFile \notin {None, r} /\ UNCHANGED pidFile
       \/ /\ pidFile \in {None, r} /\ pidFile' = r
          /\ seen[r] \in {"in_flight"} \cup Final
    /\ ReleaseClaim(r)
    /\ Goto(r, "stalled")
    /\ UNCHANGED <<phase, child, log, completion, versions, launcher, lease,
                   harness, seen, verdict, spawned, passes, history,
                   bounds>>

\* FactoryLease::acquire polls until the flock succeeds.
TakeLease(r) ==
    /\ pc[r] \in {"leasing", "reacquiring"} /\ lease = None
    /\ lease' = r
    /\ unleased' = unleased \ {r}
    /\ Goto(r, IF pc[r] = "leasing" THEN "leased" ELSE "reacquired")
    /\ UNCHANGED <<files, launcher, claim, owns, harness, seen, verdict, spawned,
                   passes, invocations, bounds>>

\* ExecutionStarted and ContextLoaded, before any intelligence runs.
BeginExecution(r) ==
    /\ pc[r] = "leased" /\ seen[r] # "waiting_for_device"
    /\ UpdatePhase(r, "in_flight")
    /\ child' = None
    /\ Goto(r, "spawning")
    /\ UNCHANGED <<completion, pidFile, versions, locks, harness, verdict,
                   spawned, passes, history, bounds>>

\* execute_harness: the child starts, then its PID is recorded.
SpawnHarness(r) ==
    /\ pc[r] = "spawning" /\ invocations < MaxRuns
    /\ harness' = harness \cup {r}
    /\ passes' = [passes EXCEPT ![r] = @ + 1]
    /\ invocations' = invocations + 1
    /\ Goto(r, "spawned")
    /\ UNCHANGED <<files, locks, seen, verdict, spawned, unleased, bounds>>

RecordHarness(r) ==
    /\ pc[r] = "spawned"
    /\ UpdatePhase(r, "in_flight")
    /\ child' = r
    /\ Goto(r, "harness")
    /\ UNCHANGED <<completion, pidFile, versions, locks, harness, verdict,
                   spawned, passes, history, bounds>>

\* The harness tree ends, by itself or stopped for silence or budget; an
\* orphan's exit also closes the last descriptor of the claim.
HarnessExits(r) ==
    /\ r \in harness
    /\ harness' = harness \ {r}
    /\ claim' = IF claim = r /\ r \notin owns THEN None ELSE claim
    /\ UNCHANGED <<files, launcher, owns, lease, pc, seen, verdict, spawned, passes,
                   history, bounds>>

\* The supervised wait returns success: the deterministic gates begin.
HarnessSucceeded(r) ==
    /\ pc[r] = "harness" /\ r \notin harness
    /\ UpdatePhase(r, "in_flight")
    /\ child' = None
    /\ Goto(r, "gates")
    /\ UNCHANGED <<completion, pidFile, versions, locks, harness, verdict,
                   spawned, passes, history, bounds>>

\* A failing, stalled or interrupted harness skips the gates.
HarnessFailed(r, reason) ==
    /\ pc[r] = "harness" /\ r \notin harness
    /\ verdict' = [verdict EXCEPT ![r] = reason]
    /\ Goto(r, "completing")
    /\ UNCHANGED <<files, locks, harness, seen, spawned, passes, history,
                   bounds>>

\* record_and_deliver accepts a Version.
GatesAccept(r) ==
    /\ pc[r] = "gates" /\ versions < MaxRuns
    /\ versions' = versions + 1
    /\ verdict' = [verdict EXCEPT ![r] = "failed"]
    /\ Goto(r, "completing")
    /\ UNCHANGED <<phase, child, log, completion, pidFile, locks, harness,
                   seen, spawned, passes, history, bounds>>

\* Mutant: a successful harness exit counts as product completion.
GatesRefuseAsCompleted(r) ==
    /\ pc[r] = "gates"
    /\ verdict' = [verdict EXCEPT ![r] = "completed"]
    /\ Goto(r, "completing")
    /\ UNCHANGED <<files, locks, harness, seen, spawned, passes, history,
                   bounds>>

\* Nothing new to record, or a diagnostic without a repair.
GatesRefuse(r) ==
    /\ pc[r] = "gates"
    /\ verdict' = [verdict EXCEPT ![r] = "failed"]
    /\ Goto(r, "completing")
    /\ UNCHANGED <<files, locks, harness, seen, spawned, passes, history,
                   bounds>>

\* repair_allowed: one targeted repair, in the process of the first pass.
Repair(r) ==
    /\ pc[r] = "gates" /\ passes[r] = 1
    /\ Goto(r, "spawning")
    /\ UNCHANGED <<files, locks, harness, seen, verdict, spawned, passes,
                   history, bounds>>

\* Mutant: the lease is kept while the phone is away.
DeviceMissingKeepsLease(r) ==
    /\ pc[r] = "gates" /\ waits < MaxWaits
    /\ waits' = waits + 1
    /\ UpdatePhase(r, "waiting_for_device")
    /\ child' = None
    /\ Goto(r, "awaiting_device")
    /\ UNCHANGED <<completion, pidFile, versions, locks, harness, verdict,
                   spawned, passes, history, faults, others>>

\* DeviceUnavailable: the waiting phase is published and the lease released.
DeviceMissing(r) ==
    /\ pc[r] = "gates" /\ waits < MaxWaits
    /\ waits' = waits + 1
    /\ UpdatePhase(r, "waiting_for_device")
    /\ child' = None
    /\ ReleaseLease(r)
    /\ Goto(r, "awaiting_device")
    /\ UNCHANGED <<completion, pidFile, versions, launcher, claim, owns, harness,
                   verdict, spawned, passes, history, faults, others>>

\* wait_for_device returns: the loop's wait, or the first one of a runner that
\* resumes a delivery (resume_waiting_delivery).
DeviceArrives(r) ==
    /\ pc[r] \in {"awaiting_device", "resuming"}
    /\ Goto(r, IF pc[r] = "resuming" THEN "leasing" ELSE "reacquiring")
    /\ UNCHANGED <<files, locks, harness, seen, verdict, spawned, passes,
                   history, bounds>>

\* The lease is back; delivery resumes at the deterministic gates.
ResumeDelivery(r) ==
    /\ \/ pc[r] = "reacquired"
       \/ pc[r] = "leased" /\ seen[r] = "waiting_for_device"
    /\ UpdatePhase(r, "in_flight")
    /\ child' = None
    /\ Goto(r, "gates")
    /\ UNCHANGED <<completion, pidFile, versions, locks, harness, verdict,
                   spawned, passes, history, bounds>>

\* An error of wait_for_device, take_factory_lease or update_phase in the loop
\* is a diagnostic of the gates.  The text of xcrun may make the first of them
\* repairable, and the repair then starts without the lease.
WaitFails(r) ==
    /\ Fault("device")
    /\ \/ /\ pc[r] = "awaiting_device" /\ passes[r] = 1
          /\ Goto(r, "spawning")
          /\ unleased' = unleased \cup {r}
          /\ UNCHANGED verdict
       \/ /\ pc[r] \in {"awaiting_device", "reacquiring", "reacquired"}
          /\ Goto(r, "completing")
          /\ verdict' = [verdict EXCEPT ![r] = "failed"]
          /\ UNCHANGED unleased
    /\ UNCHANGED <<files, locks, harness, seen, spawned, passes, invocations,
                   waits, others>>

-----------------------------------------------------------------------------
(* complete_execution, run by a runner, a supervisor or a canceller *)

\* accepted_validation reads the ledger and verifies the Version; canonical
\* acceptance outranks the process outcome.
Judge(a) ==
    /\ pc[a] = "completing"
    /\ verdict' = [verdict EXCEPT ![a] = IF versions > 0 THEN "completed" ELSE @]
    /\ Goto(a, "judged")
    /\ UNCHANGED <<files, locks, harness, seen, spawned, passes, history,
                   bounds>>

\* finalize_stalled_execution takes an unreadable ledger for no acceptance; in
\* run_shot, under the claim, the same error is a failed step.
JudgeUnreadable(a) ==
    /\ pc[a] = "completing" /\ a \notin owns \cup Cancellers
    /\ Fault("ledger")
    /\ Goto(a, "judged")
    /\ UNCHANGED <<files, locks, harness, seen, verdict, spawned, passes,
                   history, waits, others>>

\* verify_completed_evolution refuses an accepted Version: it has not landed, so
\* the process outcome stands; a published completion that says it landed is
\* left alone.
JudgeUnverified(a) ==
    /\ versions > 0 /\ Fault("verify")
    /\ \/ pc[a] = "completing" /\ Goto(a, "judged") /\ UNCHANGED launcher
       \/ pc[a] = "stalled" /\ completion = "completed" /\ Return(a)
    /\ UNCHANGED <<files, claim, owns, lease, harness, seen, verdict, spawned,
                   passes, history, waits, others>>

\* The phases up to ValidationCompleted are written.
Validate(a) ==
    /\ pc[a] = "judged"
    /\ UpdatePhase(a, "validation_completed")
    /\ child' = None
    /\ Goto(a, "validated")
    /\ UNCHANGED <<completion, pidFile, versions, locks, harness, verdict,
                   spawned, passes, history, bounds>>

\* Mutant: the phase of the record is published instead of the outcome.
PublishCompletionPhase(a) ==
    /\ pc[a] = "validated"
    /\ completion' = seen[a]
    /\ Goto(a, "published")
    /\ UNCHANGED <<phase, child, log, pidFile, versions, locks, harness, seen,
                   verdict, spawned, passes, history, bounds>>

\* completion.json is written by rename, whether or not one exists.
PublishCompletion(a) ==
    /\ pc[a] = "validated"
    /\ completion' = verdict[a]
    /\ Goto(a, "published")
    /\ UNCHANGED <<phase, child, log, pidFile, versions, locks, harness, seen,
                   verdict, spawned, passes, history, bounds>>

\* Mutant: the final phase is the exit of the process, not the outcome that
\* was published.
FinalizePhaseByExit(a) ==
    /\ pc[a] = "published"
    /\ phase' = "failed" /\ child' = None
    /\ seen' = [seen EXCEPT ![a] = "failed"]
    /\ Goto(a, "finalized")
    /\ UNCHANGED <<log, completion, pidFile, versions, locks, harness,
                   verdict, spawned, passes, history, bounds>>

\* The final phase reaches execution.json before the event journal.
FinalizePhase(a) ==
    /\ pc[a] = "published"
    /\ phase' = verdict[a] /\ child' = None
    /\ seen' = [seen EXCEPT ![a] = verdict[a]]
    /\ Goto(a, "finalized")
    /\ UNCHANGED <<log, completion, pidFile, versions, locks, harness,
                   verdict, spawned, passes, history, bounds>>

\* The final event; then runner.pid is removed (unless a canceller found no
\* live runner), the lease and the locks go, and the call returns.
Conclude(a) ==
    /\ pc[a] = "finalized"
    /\ log' = Append(verdict[a])
    /\ pidFile' = IF a \in Cancellers /\ spawned[a] = None THEN pidFile ELSE None
    /\ Goto(a, IF a \in Runners THEN "off" ELSE "idle")
    /\ launcher' = IF launcher = a THEN None ELSE launcher
    /\ ReleaseClaim(a)
    /\ ReleaseLease(a)
    /\ verdict' = [verdict EXCEPT ![a] = None]
    /\ spawned' = [x \in DOMAIN spawned |-> IF x = a THEN None ELSE spawned[x]]
    /\ UNCHANGED <<phase, child, completion, versions, harness, seen, passes,
                   history, bounds>>

-----------------------------------------------------------------------------
(* finalize_stalled_execution, run by a failed runner or a supervisor *)

\* reconcile_published_completion refuses what it cannot explain.
Contradictory ==
    \/ completion = "completed" /\ versions = 0
    \/ phase \in Final /\ phase # completion
    \/ log \notin {"open", completion}
    \/ log = completion /\ phase \notin Final

\* No completion and no final phase: the execution is completed as failed.
FinalizeStalled(a) ==
    /\ pc[a] = "stalled" /\ completion = None /\ phase \notin Final
    /\ verdict' = [verdict EXCEPT ![a] = "failed"]
    /\ Goto(a, "completing")
    /\ UNCHANGED <<files, locks, harness, seen, spawned, passes, history,
                   bounds>>

\* A published completion whose final event is missing is finalized again.
ReconcileCompletion(a) ==
    /\ pc[a] = "stalled" /\ completion # None
    /\ ~Contradictory /\ log = "open"
    /\ verdict' = [verdict EXCEPT ![a] = completion]
    /\ Goto(a, "published")
    /\ UNCHANGED <<files, locks, harness, seen, spawned, passes, history,
                   bounds>>

\* Nothing is missing, or the evidence is contradictory.
LeaveStalled(a) ==
    /\ pc[a] = "stalled"
    /\ \/ completion = None /\ phase \in Final /\ UNCHANGED pidFile
       \/ completion # None /\ Contradictory /\ UNCHANGED pidFile
       \/ completion # None /\ ~Contradictory /\ log # "open" /\ pidFile' = None
    /\ Return(a)
    /\ UNCHANGED <<phase, child, log, completion, versions, claim, owns, lease,
                   harness, seen, verdict, spawned, passes, history,
                   bounds>>

-----------------------------------------------------------------------------
(* ensure_background_runner *)

\* The record is read again under the launcher lock.
LockLauncher(s) ==
    /\ pc[s] = "idle" /\ launcher = None
    /\ launcher' = s
    /\ seen' = [seen EXCEPT ![s] = phase]
    /\ Goto(s, "locked")
    /\ UNCHANGED <<files, claim, owns, lease, harness, verdict, spawned,
                   passes, history, bounds>>

RecordedRunnerIsAlive == pidFile # None /\ Alive(pidFile)

\* runner_claim_is_held finds the claim taken: observe and return.
ObserveClaimed(s) ==
    /\ pc[s] = "locked" /\ claim # None
    /\ Return(s)
    /\ UNCHANGED <<files, claim, owns, lease, harness, seen, verdict, spawned,
                   passes, history, bounds>>

\* runner.pid is read and runner_claim_is_held takes a free claim for a moment
\* to learn that it is free.  The record read before is still current unless
\* the supervisor was suspended in between.
ProbeClaim(s) ==
    /\ pc[s] = "locked" /\ claim = None
    /\ claim' = s
    /\ seen' = [seen EXCEPT ![s] = IF "preempt" \in Faults THEN @ ELSE phase]
    /\ Goto(s, IF RecordedRunnerIsAlive THEN "probing_live" ELSE "probing_dead")
    /\ UNCHANGED <<files, launcher, owns, lease, harness, verdict, spawned, passes,
                   history, bounds>>

\* Mutant: an abandoned execution in flight is only observed.
DisposeObservesAbandoned(s) ==
    /\ pc[s] \in {"probing_live", "probing_dead"}
    /\ claim' = None
    /\ IF pc[s] = "probing_dead"
          /\ seen[s] \in {"prepared", "runner_started", "waiting_for_device"}
       THEN Goto(s, "launching") /\ UNCHANGED launcher
       ELSE Return(s)
    /\ UNCHANGED <<files, owns, lease, harness, seen, verdict, spawned, passes,
                   history, bounds>>

\* runner_recovery_disposition decides from the phase and the two liveness
\* observations.
Dispose(s) ==
    /\ pc[s] \in {"probing_live", "probing_dead"}
    /\ claim' = None
    /\ \/ /\ pc[s] = "probing_live" \/ seen[s] \in Final
          /\ Return(s)
       \/ /\ pc[s] = "probing_dead"
          /\ seen[s] \in {"prepared", "runner_started", "waiting_for_device"}
          /\ Goto(s, "launching") /\ UNCHANGED launcher
       \/ /\ pc[s] = "probing_dead"
          /\ seen[s] \in {"in_flight", "validation_completed"}
          /\ Goto(s, "stalled") /\ UNCHANGED launcher
    /\ UNCHANGED <<files, owns, lease, harness, seen, verdict, spawned, passes,
                   history, bounds>>

\* The stale PID goes; a start, unlike a resumed delivery, is recorded.
PrepareLaunch(s) ==
    /\ pc[s] = "launching"
    /\ pidFile' = None
    /\ IF seen[s] = "waiting_for_device"
       THEN UNCHANGED <<phase, child, log, seen>>
       ELSE UpdatePhase(s, "runner_started") /\ child' = None
    /\ Goto(s, "spawning_runner")
    /\ UNCHANGED <<completion, versions, locks, harness, verdict, spawned,
                   passes, history, bounds>>

SpawnRunner(s, r) ==
    /\ pc[s] = "spawning_runner"
    /\ Born(r)
    /\ pc' = [pc EXCEPT ![s] = "handing_over", ![r] = "loading"]
    /\ spawned' = [spawned EXCEPT ![s] = r]
    /\ UNCHANGED <<files, locks, harness, seen, verdict, invocations, bounds>>

\* The child's PID is published before the launcher lock is released.
HandOver(s) ==
    /\ pc[s] = "handing_over" /\ pidFile \in {None, spawned[s]}
    /\ pidFile' = spawned[s]
    /\ spawned' = [spawned EXCEPT ![s] = None]
    /\ Return(s)
    /\ UNCHANGED <<phase, child, log, completion, versions, claim, owns, lease,
                   harness, seen, verdict, passes, history, bounds>>

\* Another PID is already there: the child is killed and the launch undone.
FailHandOver(s) ==
    LET r == spawned[s]
    IN  /\ pc[s] = "handing_over" /\ pidFile \notin {None, r}
        /\ pc' = [pc EXCEPT ![s] = "idle", ![r] = "off"]
        /\ launcher' = None
        /\ ReleaseClaim(r) /\ ReleaseLease(r)
        /\ IF seen[s] = "runner_started"
           THEN UpdatePhase(s, "prepared") /\ child' = None
           ELSE UNCHANGED <<phase, child, log, seen>>
        /\ spawned' = [spawned EXCEPT ![s] = None]
        /\ verdict' = [verdict EXCEPT ![r] = None]
        /\ UNCHANGED <<completion, pidFile, versions, harness, passes,
                       history, bounds>>

-----------------------------------------------------------------------------
(* cancel *)

\* A live recorded runner is the one to stop.
CancelLiveRunner(k) ==
    /\ pc[k] = "idle" /\ completion = None
    /\ RecordedRunnerIsAlive
    /\ spawned' = [spawned EXCEPT ![k] = pidFile]
    /\ Goto(k, "signalling")
    /\ UNCHANGED <<files, locks, harness, seen, verdict, passes, history,
                   bounds>>

\* Without a live recorded runner a dead PID is removed and the execution is
\* cancelled in place when it is between runs or its recorded child is dead.
CancelInPlace(k) ==
    /\ pc[k] = "idle" /\ completion = None
    /\ ~RecordedRunnerIsAlive
    /\ pidFile' = None
    /\ child # None => child \notin harness
    /\ phase \in {"runner_started", "in_flight"} => child # None
    /\ verdict' = [verdict EXCEPT ![k] = "cancelled"]
    /\ seen' = [seen EXCEPT ![k] = phase]
    /\ Goto(k, "completing")
    /\ UNCHANGED <<phase, child, log, completion, versions, locks, harness,
                   spawned, passes, history, bounds>>

\* A refused cancellation has already removed a dead runner's PID.
CancelRefused(k) ==
    /\ pc[k] = "idle" /\ completion = None
    /\ pidFile # None /\ ~Alive(pidFile)
    /\ \/ child # None /\ child \in harness
       \/ child = None /\ phase \in {"runner_started", "in_flight"}
    /\ pidFile' = None
    /\ UNCHANGED <<phase, child, log, completion, versions, locks, harness, pc,
                   seen, verdict, spawned, passes, history, bounds>>

\* SIGTERM to the runner's process group.  The runner dies; the harness may
\* take its time.
Signal(k) ==
    LET r == spawned[k]
    IN  /\ pc[k] = "signalling" /\ Alive(r)
        /\ pc' = [pc EXCEPT ![k] = "signalled", ![r] = "off"]
        /\ ReleaseClaim(r) /\ ReleaseLease(r)
        /\ verdict' = [verdict EXCEPT ![r] = None]
        /\ UNCHANGED <<files, launcher, harness, seen, spawned, passes,
                       history, bounds>>

\* The runner stopped by itself before the signal.
SignalLate(k) ==
    /\ pc[k] = "signalling" /\ ~Alive(spawned[k])
    /\ spawned' = [spawned EXCEPT ![k] = None]
    /\ Goto(k, "idle")
    /\ UNCHANGED <<files, locks, harness, seen, verdict, passes, history,
                   bounds>>

\* After the runner died the record is read again.
CancelStopped(k) ==
    /\ pc[k] = "signalled"
    /\ \/ /\ completion # None
          /\ Goto(k, "idle")
          /\ spawned' = [spawned EXCEPT ![k] = None]
          /\ UNCHANGED <<seen, verdict>>
       \/ /\ completion = None
          /\ Goto(k, "completing")
          /\ verdict' = [verdict EXCEPT ![k] = "cancelled"]
          /\ seen' = [seen EXCEPT ![k] = phase]
          /\ UNCHANGED spawned
    /\ UNCHANGED <<files, locks, harness, passes, history, bounds>>

-----------------------------------------------------------------------------
(* faults and the rest of the Mac *)

KillRunner(r) ==
    /\ Fault("runner")
    /\ Alive(r)
    /\ Goto(r, "off")
    /\ ReleaseClaim(r) /\ ReleaseLease(r)
    /\ verdict' = [verdict EXCEPT ![r] = None]
    /\ UNCHANGED <<files, launcher, harness, seen, spawned, passes,
                   history, waits, others>>

\* Any `?` of run_shot: its claim and lease are dropped and the error is
\* finalized; a harness that is still alive keeps the inherited claim.  The
\* errors of the gates and of their wait are diagnostics instead (GatesRefuse,
\* Repair, WaitFails).
StepFails(r) ==
    /\ Fault("io")
    /\ r \in owns
    /\ pc[r] \notin {"gates", "awaiting_device", "reacquiring", "reacquired"}
    /\ Goto(r, "stalled")
    /\ ReleaseClaim(r) /\ ReleaseLease(r)
    /\ verdict' = [verdict EXCEPT ![r] = None]
    /\ UNCHANGED <<files, launcher, harness, seen, spawned, passes,
                   history, waits, others>>

KillSupervisor(s) ==
    /\ Fault(IF pc[s] = "handing_over" THEN "handover" ELSE "service")
    /\ pc[s] # "idle"
    /\ Return(s)
    /\ claim' = IF claim = s THEN None ELSE claim
    /\ spawned' = [spawned EXCEPT ![s] = None]
    /\ verdict' = [verdict EXCEPT ![s] = None]
    /\ UNCHANGED <<files, owns, lease, harness, seen, passes, history, waits,
                   others>>

\* A restart of the Mac ends every process and every lock.
RestartMac ==
    /\ Fault("mac")
    /\ harness' = {}
    /\ pc' = [a \in Actors |-> IF a \in Runners THEN "off" ELSE "idle"]
    /\ launcher' = None /\ claim' = None /\ owns' = {} /\ lease' = None
    /\ spawned' = [a \in DOMAIN spawned |-> None]
    /\ verdict' = [a \in Actors |-> None]
    /\ UNCHANGED <<files, seen, passes, history, waits, others>>

\* Executions of other Shots compete for the factory lease.
OtherTakesLease ==
    /\ lease = None /\ others < MaxOthers
    /\ lease' = "other" /\ others' = others + 1
    /\ UNCHANGED <<files, launcher, claim, owns, harness, pc, seen, verdict, spawned,
                   passes, history, faults, waits>>

OtherReleasesLease ==
    /\ lease = "other" /\ lease' = None
    /\ UNCHANGED <<files, launcher, claim, owns, harness, pc, seen, verdict, spawned,
                   passes, history, bounds>>

-----------------------------------------------------------------------------
RunnerStep(r) ==
    \/ Load(r) \/ Claim(r) \/ LoseClaim(r) \/ EnterRun(r) \/ RefuseRun(r)
    \/ TakeLease(r) \/ BeginExecution(r) \/ SpawnHarness(r) \/ RecordHarness(r)
    \/ HarnessSucceeded(r)
    \/ \E reason \in {"failed", "cancelled"} : HarnessFailed(r, reason)
    \/ GatesAccept(r) \/ GatesRefuse(r) \/ Repair(r) \/ DeviceMissing(r)
    \/ DeviceArrives(r) \/ ResumeDelivery(r)

CompletionStep(a) ==
    \/ Judge(a) \/ JudgeUnreadable(a) \/ JudgeUnverified(a) \/ Validate(a) \/ PublishCompletion(a)
    \/ FinalizePhase(a) \/ Conclude(a)
    \/ FinalizeStalled(a) \/ ReconcileCompletion(a) \/ LeaveStalled(a)

SupervisorStep(s) ==
    \/ LockLauncher(s) \/ ObserveClaimed(s) \/ ProbeClaim(s) \/ Dispose(s)
    \/ PrepareLaunch(s) \/ (\E r \in Runners : SpawnRunner(s, r))
    \/ HandOver(s) \/ FailHandOver(s)

CancelStep(k) ==
    \/ CancelLiveRunner(k) \/ CancelInPlace(k) \/ CancelRefused(k)
    \/ Signal(k) \/ SignalLate(k) \/ CancelStopped(k)

FaultStep ==
    \/ \E r \in Runners : KillRunner(r) \/ StepFails(r) \/ WaitFails(r)
    \/ \E s \in Supervisors : KillSupervisor(s)
    \/ RestartMac

Next ==
    \/ \E r \in Runners : RunnerStep(r) \/ HarnessExits(r) \/ ManualRun(r)
    \/ \E a \in Actors : CompletionStep(a)
    \/ \E s \in Supervisors : SupervisorStep(s)
    \/ \E k \in Cancellers : CancelStep(k)
    \/ FaultStep
    \/ OtherTakesLease \/ OtherReleasesLease

Spec == Init /\ [][Next]_vars

\* Processes that run keep running, a harness ends (the runner stops a silent
\* or overspending one), the monitor ticks for ever, the phone is eventually
\* connected and other executions give the lease back.  A probe holds the
\* claim for an instant of each second, so a runner is not unlucky for ever.
Fairness ==
    /\ \A r \in Runners : /\ WF_vars(RunnerStep(r))
                          /\ SF_vars(Claim(r))
                          /\ WF_vars(HarnessExits(r))
    /\ \A a \in Actors : WF_vars(CompletionStep(a))
    /\ \A s \in Supervisors : WF_vars(SupervisorStep(s))
    /\ WF_vars(OtherReleasesLease)

FairSpec == Spec /\ Fairness

-----------------------------------------------------------------------------
\* Every variable holds a value of the file, lock or process it stands for.
TypeOK ==
    /\ phase \in Phases
    /\ child \in Runners \cup {None}
    /\ log \in {"open", "torn"} \cup Final
    /\ completion \in Final \cup {None}
    /\ pidFile \in Runners \cup {None}
    /\ versions \in Nat
    /\ launcher \in Supervisors \cup {None}
    /\ claim \in Runners \cup Supervisors \cup {None}
    /\ owns \subseteq Runners
    /\ lease \in Runners \cup {"other", None}
    /\ harness \subseteq Runners
    /\ pc \in [Actors -> RunnerSteps \cup SupervisorSteps \cup CancelSteps
                             \cup CompletionSteps]
    /\ seen \in [Actors -> Phases]
    /\ verdict \in [Actors -> Final \cup {None}]
    /\ spawned \in [Supervisors \cup Cancellers -> Runners \cup {None}]
    /\ passes \in [Runners -> Nat]
    /\ invocations \in Nat /\ unleased \subseteq Runners
    /\ faults \in Nat /\ waits \in Nat /\ others \in Nat

\* run.claim: at most one process tree works on the execution.  A runner past
\* its claim excludes every other one, and also every orphaned harness that a
\* dead runner left behind.
OneProcessTree ==
    \A r \in Runners :
        Working(r) => /\ claim = r
                      /\ \A q \in Runners \ {r} : ~Working(q)
                      /\ harness \subseteq {r}

ExpensiveWork(r) ==
    pc[r] \in {"leased", "spawning", "spawned", "harness", "gates", "reacquired"}

\* The factory lease covers the expensive work of a runner: at the harness and
\* the gates it holds the lease, while it waits for the phone it does not.  The
\* exception is the repair after a wait for the phone that ended in an error,
\* the second pass of that runner and never its first.
LeaseCoversExpensiveWork ==
    \A r \in Runners :
        /\ ExpensiveWork(r) /\ lease # r =>
              /\ r \in unleased
              /\ passes[r] = IF pc[r] = "spawning" THEN 1 ELSE 2
        /\ pc[r] \in {"resuming", "awaiting_device", "reacquiring"} => lease # r

\* "An unattended runner takes the lease before it invokes a coding harness,
\* Xcode, or the deterministic gates" (factory_lease.rs), with no exception.
LeaseBeforeExpensiveWork ==
    \A r \in Runners : ExpensiveWork(r) => lease = r

\* complete_execution: only an accepted Version may project the completed
\* phase or be recorded as landed.
CompletedMeansAccepted ==
    "completed" \in {phase, completion, log} => versions > 0

\* A final record is complete: once no process is at work on it, completion,
\* phase and ledger tell the same outcome, and the event journal never tells
\* another one.  Its final event is there unless a process died or failed (the
\* phase reaches execution.json before the journal).
Settled ==
    /\ completion # None
    /\ \A a \in Actors : pc[a] \in {"off", "idle"}
    /\ phase \in Final
RecordsAgree ==
    Settled => /\ phase = completion
               /\ (completion = "completed") = (versions > 0)
               /\ log = completion \/ (log = "open" /\ faults > 0)

\* reconcile_published_completion "repairs precisely that crash window": the
\* event journal of a final execution always gets its final event, also when
\* the process that wrote the final phase was killed before it.
FinalEventArrives == (phase \in Final) ~> (log = phase)

\* A final phase lets the next execution of the Shot be prepared, so no
\* harness may still be changing the source by then.
FinalMeansQuiet == phase \in Final => harness = {}

Promise == INSTANCE ExecutionPromise
    WITH passes <- invocations, accepted <- versions, outcome <- completion

\* Whatever is killed, restarted or resumed, the execution is one pass, at
\* most one repair, at most one Version and one outcome for ever, and under
\* fairness that outcome is published.
FulfilsPromise == Promise!Spec

=============================================================================
