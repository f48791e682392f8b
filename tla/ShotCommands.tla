---------------------------- MODULE ShotCommands ----------------------------
(***************************************************************************)
(* Evolution commands of one Shot, from admission to their outcome:        *)
(* ShotApplicationService::evolve_shot and its recovery and monitor        *)
(* (application/src/application_service.rs), Engine::evolve_exact and      *)
(* record_and_deliver (engine/src/machine.rs) and the preparation of an    *)
(* execution (engine/src/shot_execution.rs).                               *)
(*                                                                         *)
(* A command stands for its intention and for the execution identity that  *)
(* is derived from it.  claim_command lets one handler per command run in  *)
(* the service; handlers of different commands, runners and monitors       *)
(* interleave.  One execution's processes are the subject of ShotExecution *)
(* and appear here with the steps it promises.                             *)
(***************************************************************************)
EXTENDS CommandStatus, Naturals, Sequences

CONSTANTS
    Overlap,       \* TRUE: a command may be submitted while another is open
    MonitorErrors, \* TRUE: a monitor may fail five times in a row
    Unreconciled,  \* the reason a monitor that gave up publishes
    MaxCrashes,    \* bound on stops of the service and of runners, on errors
                   \* of the file system and on cancellations
    MaxVersions    \* bound on accepted Versions

ASSUME CommandsAssumption ==
    /\ Overlap \in BOOLEAN /\ MonitorErrors \in BOOLEAN
    /\ MaxCrashes \in Nat /\ MaxVersions \in Nat
    /\ None \notin Commands
    /\ None \notin Statuses /\ None \notin CommandStates
    /\ Receipts # {}
    /\ Unreconciled \in Reasons /\ Reasons # {Unreconciled}

VARIABLES
    status,    \* status[c]: the journal's status of c, None before admission
    base,      \* base[c]: the accepted Version c evolves from, by ordinal
    pc,        \* pc[c]: where the handler of c is
    monitor,   \* monitor[c]: c has a one second monitor
    exec,      \* exec[c]: the phase in execution.json of c's execution
    done,      \* done[c]: the outcome in its completion.json
    ordinal,   \* ordinal[c]: version_ordinal of that execution
    intent,    \* intent[c]: the intention its digest is bound to
    cancel,    \* cancel[c]: where `shot cancel` of it is
    run,       \* run[c]: where its runner is
    consumed,  \* consumed[c]: the pending prompt its recording read
    history,   \* prompts of the accepted Versions after the first one
    tree,      \* working tree: "clean" when it matches the latest Version
    staged,    \* pending evolution prompt
    package,   \* prepared intent package
    lock,      \* holder of the app lock
    lease,     \* holder of the factory lease
    crashes,
    raced,     \* history: cancels that replaced a final record or found a
               \* new runner
    leftover   \* history: landed prompts that were not cleared

handlers == <<pc, base>>
ends == <<done, cancel, raced>>
records == <<exec, ordinal, intent, ends>>
working == <<tree, staged, package, leftover>>
vars == <<status, handlers, monitor, records, run, consumed, history, working,
          lock, lease, crashes>>

HandlerSteps == {"idle", "loaded", "checking", "evolving", "staging",
                 "preparing", "creating", "writing", "receipt"}
RunSteps == {"off", "harness", "recording", "sealed", "judging"}
\* Where `shot cancel` is: the last two are the outcome it is about to write.
CancelSteps == {"none", "signalled", "completed", "cancelled"}
FinalPhases == {"completed", "failed", "cancelled"}
ActivePhases == {"prepared", "in_flight", "waiting_for_device"}

\* load_execution finds no readable record in an absent or torn directory.
HasRecord(c) == exec[c] \notin {"absent", "torn"}

Goto(c, step) == pc' = [pc EXCEPT ![c] = step]

\* One accepted transition of the command journal.
Transition(c, next, receipt, reason) ==
    /\ TransitionAllowed(status[c], next, receipt, reason)
    /\ status' = [status EXCEPT ![c] =
            NextStatus(status[c], next, receipt, reason)]

Receipt == CHOOSE r \in Receipts : TRUE
Reason == CHOOSE r \in Reasons : r # Unreconciled

Open(c) == status[c] # None /\ ~Terminal(status[c].state)

-----------------------------------------------------------------------------
Init ==
    /\ status = [c \in Commands |-> None]
    /\ base = [c \in Commands |-> 0]
    /\ pc = [c \in Commands |-> "idle"]
    /\ monitor = [c \in Commands |-> FALSE]
    /\ exec = [c \in Commands |-> "absent"]
    /\ ordinal = [c \in Commands |-> 0]
    /\ intent = [c \in Commands |-> None]
    /\ done = [c \in Commands |-> "none"]
    /\ cancel = [c \in Commands |-> "none"] /\ raced = {}
    /\ run = [c \in Commands |-> "off"]
    /\ consumed = [c \in Commands |-> None]
    /\ history = <<>>
    /\ tree = "clean" /\ staged = None /\ package = None /\ leftover = {}
    /\ lock = None /\ lease = None
    /\ crashes = 0

-----------------------------------------------------------------------------
(* evolve_shot *)

\* The person evolves the Version on display, which may be an older one.
Submit(c, b) ==
    /\ pc[c] = "idle" /\ status[c] = None
    /\ Overlap \/ \A d \in Commands : ~Open(d)
    /\ b \in 0..Len(history)
    /\ base' = [base EXCEPT ![c] = b]
    /\ status' = [status EXCEPT ![c] = InitialStatus]
    /\ Goto(c, "loaded")
    /\ UNCHANGED <<monitor, records, run, consumed, history, working, lock,
                   lease, crashes>>

\* A frontend repeats the command, or recover_commands replays it.
Retry(c) ==
    /\ pc[c] = "idle" /\ Open(c)
    /\ Goto(c, "loaded")
    /\ UNCHANGED <<status, base, monitor, records, run, consumed, history,
                   working, lock, lease, crashes>>

\* receipt_from_status: a published receipt is the answer, and its execution
\* is ensured and monitored again.
ReplayReceipt(c) ==
    /\ pc[c] = "loaded" /\ status[c].receipt # None
    /\ monitor' = [monitor EXCEPT ![c] = @ \/ Open(c)]
    /\ Goto(c, "idle")
    /\ UNCHANGED <<status, base, records, run, consumed, history, working,
                   lock, lease, crashes>>

\* resume_command; an accepted command whose execution exists goes on to its
\* receipt, unless that execution is bound to another base.
Resume(c) ==
    /\ pc[c] = "loaded" /\ status[c].receipt = None
    /\ \/ /\ status[c].state = "received"
          /\ Transition(c, "validated", None, None)
          /\ Goto(c, "checking")
       \/ /\ status[c].state \in {"validated", "accepted"}
          /\ status[c].state = "accepted" => ~HasRecord(c)
          /\ Goto(c, "checking") /\ UNCHANGED status
       \/ /\ status[c].state = "accepted" /\ HasRecord(c)
          /\ Goto(c, IF ordinal[c] = base[c] + 1 THEN "receipt" ELSE "idle")
          /\ UNCHANGED status
       \/ /\ Terminal(status[c].state)
          /\ Goto(c, "idle") /\ UNCHANGED status
    /\ UNCHANGED <<base, monitor, records, run, consumed, history, working,
                   lock, lease, crashes>>

\* The intention is invalid; or, later, the exact accepted base changed or no
\* harness is available.
Reject(c) ==
    /\ \/ pc[c] = "checking"
       \/ pc[c] = "loaded" /\ status[c].state = "received"
    /\ status[c].receipt = None
    /\ Transition(c, "rejected", None, Reason)
    /\ Goto(c, "idle")
    /\ UNCHANGED <<base, monitor, records, run, consumed, history, working,
                   lock, lease, crashes>>

Accept(c) ==
    /\ pc[c] = "checking" /\ Len(history) = base[c]
    /\ Transition(c, "accepted", None, None)
    /\ Goto(c, "evolving")
    /\ UNCHANGED <<base, monitor, records, run, consumed, history, working,
                   lock, lease, crashes>>

\* evolve_checked takes the app lock and looks at base and tree again.
LockEvolve(c) ==
    /\ pc[c] = "evolving"
    /\ lock = None /\ tree = "clean" /\ Len(history) = base[c]
    /\ lock' = c
    /\ Goto(c, "staging")
    /\ UNCHANGED <<status, base, monitor, records, run, consumed, history,
                   working, lease, crashes>>

\* AppBusy, a stale base, an unusable selection or an error before anything is
\* staged: every error of evolve_exact fails the command for good.
FailEvolve(c) ==
    /\ pc[c] \in {"evolving", "staging"}
    /\ lock' = IF pc[c] = "staging" THEN None ELSE lock
    /\ Transition(c, "failed", None, Reason)
    /\ Goto(c, "idle")
    /\ UNCHANGED <<base, monitor, records, run, consumed, history, working,
                   lease, crashes>>

\* stage_evolution_inputs replaces the pending instruction and the package.
StageEvolve(c) ==
    /\ pc[c] = "staging"
    /\ staged' = c /\ package' = c
    /\ lock' = None
    /\ Goto(c, "preparing")
    /\ UNCHANGED <<status, base, monitor, records, run, consumed, history, tree,
                   leftover, lease, crashes>>

\* Mutant: the ordinal of the base instead of the next one.
PrepareExecutionAtBase(c) ==
    /\ pc[c] = "preparing"
    /\ exec[c] = "absent"
    /\ \A d \in Commands : exec[d] \in {"absent"} \cup FinalPhases
    /\ ordinal' = [ordinal EXCEPT ![c] = Len(history)]
    /\ intent' = [intent EXCEPT ![c] = package]
    /\ Goto(c, "creating")
    /\ UNCHANGED <<status, base, monitor, exec, ends, run, consumed,
                   history, working, lock, lease, crashes>>

\* prepare_inner and ensure_no_active_execution: the boundary is read and no
\* other execution of the Shot is unreadable or still active.
PrepareExecution(c) ==
    /\ pc[c] = "preparing"
    /\ exec[c] = "absent"
    /\ \A d \in Commands : exec[d] \in {"absent"} \cup FinalPhases
    /\ ordinal' = [ordinal EXCEPT ![c] = Len(history) + 1]
    /\ intent' = [intent EXCEPT ![c] = package]
    /\ Goto(c, "creating")
    /\ UNCHANGED <<status, base, monitor, exec, ends, run, consumed,
                   history, working, lock, lease, crashes>>

\* Otherwise the handler returns an error and the command stays accepted.
RefusePreparation(c) ==
    /\ pc[c] = "preparing"
    /\ \E d \in Commands : exec[d] \notin {"absent"} \cup FinalPhases
    /\ Goto(c, "idle")
    /\ UNCHANGED <<status, base, monitor, records, run, consumed, history,
                   working, lock, lease, crashes>>

\* The directory exists before the record in it does.
MakeDirectory(c) ==
    /\ pc[c] = "creating"
    /\ exec' = [exec EXCEPT ![c] = "torn"]
    /\ Goto(c, "writing")
    /\ UNCHANGED <<status, base, monitor, ordinal, intent, ends, run,
                   consumed, history, working, lock, lease, crashes>>

WriteRecord(c) ==
    /\ pc[c] = "writing"
    /\ exec' = [exec EXCEPT ![c] = "prepared"]
    /\ Goto(c, "receipt")
    /\ UNCHANGED <<status, base, monitor, ordinal, intent, ends, run,
                   consumed, history, working, lock, lease, crashes>>

\* An error of the directory, the Git boundary, the record, the intent copy or
\* the first event ends the handler; what is on disk stays, and a directory
\* without its record makes every later preparation of the Shot fail.
PreparationFails(c) ==
    /\ crashes < MaxCrashes /\ crashes' = crashes + 1
    /\ pc[c] \in {"creating", "writing", "receipt"}
    /\ Goto(c, "idle")
    /\ UNCHANGED <<status, base, monitor, records, run, consumed, history,
                   working, lock, lease>>

\* The stable receipt is published before any runner starts.
PublishReceipt(c) ==
    /\ pc[c] = "receipt"
    /\ Transition(c, "running", Receipt, None)
    /\ monitor' = [monitor EXCEPT ![c] = TRUE]
    /\ Goto(c, "idle")
    /\ UNCHANGED <<base, records, run, consumed, history, working, lock, lease,
                   crashes>>

-----------------------------------------------------------------------------
(* the execution *)

\* Mutant: the step of the runner is written as the phase.
StartExecutionStep(c) ==
    /\ run[c] = "off" /\ lease = None
    /\ exec[c] = "prepared" /\ monitor[c]
    /\ exec' = [exec EXCEPT ![c] = "harness"]
    /\ run' = [run EXCEPT ![c] = "harness"]
    /\ lease' = c
    /\ UNCHANGED <<status, handlers, monitor, ordinal, intent, ends,
                   consumed, history, working, lock, crashes>>

\* ensure_background_runner starts it and the runner waits for the factory
\* lease; a waiting one goes on when the phone is back.
StartExecution(c) ==
    /\ run[c] = "off" /\ lease = None
    /\ \/ exec[c] = "prepared" /\ monitor[c]
       \/ exec[c] = "waiting_for_device"
    /\ exec' = [exec EXCEPT ![c] = "in_flight"]
    /\ run' = [run EXCEPT ![c] = "harness"]
    /\ lease' = c
    /\ UNCHANGED <<status, handlers, monitor, ordinal, intent, ends,
                   consumed, history, working, lock, crashes>>

HarnessEdits(c) ==
    /\ run[c] = "harness" /\ tree' = "drifted"
    /\ UNCHANGED <<status, handlers, monitor, records, run, consumed, history,
                   staged, package, leftover, lock, lease, crashes>>

\* The runner publishes its phase again and record_locked reads the pending
\* prompt for the new Version.
BeginRecording(c) ==
    /\ run[c] = "harness" /\ lock = None /\ tree = "drifted"
    /\ Len(history) < MaxVersions
    /\ lock' = c
    /\ consumed' = [consumed EXCEPT ![c] = staged]
    /\ run' = [run EXCEPT ![c] = "recording"]
    /\ exec' = [exec EXCEPT ![c] = "in_flight"]
    /\ UNCHANGED <<status, handlers, monitor, ordinal, intent, ends, history,
                   working, lease, crashes>>

\* The harness failed, nothing changed, the app is busy or a gate refuses.
RecordingFails(c) ==
    /\ run[c] \in {"harness", "recording"}
    /\ lock' = IF lock = c THEN None ELSE lock
    /\ run' = [run EXCEPT ![c] = "judging"]
    /\ UNCHANGED <<status, handlers, monitor, records, consumed, history,
                   working, lease, crashes>>

\* finalize_evolution seals a passing candidate; the app lock is still held.
Seal(c) ==
    /\ run[c] = "recording"
    /\ history' = Append(history, consumed[c])
    /\ run' = [run EXCEPT ![c] = "sealed"]
    /\ UNCHANGED <<status, handlers, monitor, records, consumed, working, lock,
                   lease, crashes>>

\* Mutant: the consumed prompt stays pending.
FinishSealKeepsPrompt(c) ==
    /\ run[c] = "sealed"
    /\ tree' = "clean"
    /\ lock' = None
    /\ run' = [run EXCEPT ![c] = "judging"]
    /\ UNCHANGED <<status, handlers, monitor, records, consumed, history,
                   staged, package, leftover, lease, crashes>>

\* The tree is aligned with the sealed Version and the pending prompt is cleared
\* if it is still the one that was consumed.
FinishSeal(c) ==
    /\ run[c] = "sealed"
    /\ tree' = "clean"
    /\ staged' = IF staged = consumed[c] THEN None ELSE staged
    /\ lock' = None
    /\ run' = [run EXCEPT ![c] = "judging"]
    /\ UNCHANGED <<status, handlers, monitor, records, consumed, history,
                   package, leftover, lease, crashes>>

\* An error after the seal ends the recording before the prompt is cleared, or
\* the alignment or the clearing fails with a message only.
FinishSealFails(c) ==
    /\ crashes < MaxCrashes /\ crashes' = crashes + 1
    /\ run[c] = "sealed"
    /\ tree' \in {"clean", "drifted"}
    /\ \/ staged' = (IF staged = consumed[c] THEN None ELSE staged)
          /\ UNCHANGED leftover
       \/ leftover' = leftover \cup {staged} /\ UNCHANGED staged
    /\ lock' = None
    /\ run' = [run EXCEPT ![c] = "judging"]
    /\ UNCHANGED <<status, handlers, monitor, records, consumed, history,
                   package, lease>>

\* DeviceUnavailable: both locks are released while the phone is away.
AwaitDevice(c) ==
    /\ run[c] = "recording"
    /\ exec' = [exec EXCEPT ![c] = "waiting_for_device"]
    /\ run' = [run EXCEPT ![c] = "off"]
    /\ lock' = None /\ lease' = None
    /\ UNCHANGED <<status, handlers, monitor, ordinal, intent, ends,
                   consumed, history, working, crashes>>

\* Mutant: the base Version counts as acceptance.
OutcomeOfBase(c, otherwise) ==
    IF Len(history) + 1 >= ordinal[c] THEN "completed" ELSE otherwise

\* accepted_validation looks for a Version with the execution's ordinal.
Outcome(c, otherwise) ==
    IF Len(history) >= ordinal[c] THEN "completed" ELSE otherwise

\* complete_execution publishes the completion record and then the final phase.
Publish(c, outcome) ==
    /\ done' = [done EXCEPT ![c] = outcome]
    /\ exec' = [exec EXCEPT ![c] = outcome]

Complete(c) ==
    /\ run[c] = "judging"
    /\ Publish(c, Outcome(c, "failed"))
    /\ run' = [run EXCEPT ![c] = "off"]
    /\ lease' = None
    /\ UNCHANGED <<status, handlers, monitor, ordinal, intent, cancel, raced,
                   consumed, history, working, lock, crashes>>

\* The runner of c dies: its app lock and its lease go, and so does the cleanup
\* of a recording that was sealed.
RunnerDies(c) ==
    /\ run' = [run EXCEPT ![c] = "off"]
    /\ lock' = IF run[c] \in {"recording", "sealed"} THEN None ELSE lock
    /\ lease' = IF lease = c THEN None ELSE lease
    /\ leftover' = IF run[c] = "sealed" THEN leftover \cup {staged} ELSE leftover

\* `shot cancel` finds a record and no completion.
CancelStarts(c) ==
    /\ crashes < MaxCrashes /\ crashes' = crashes + 1
    /\ cancel[c] = "none" /\ HasRecord(c) /\ done[c] = "none"

\* It terminates the runner.
CancelSignal(c) ==
    /\ CancelStarts(c) /\ run[c] # "off"
    /\ cancel' = [cancel EXCEPT ![c] = "signalled"]
    /\ RunnerDies(c)
    /\ UNCHANGED <<status, handlers, monitor, exec, ordinal, intent, done,
                   raced, consumed, history, tree, staged, package>>

\* It looks, once more after a runner, for a completion, and at the ledger for
\* its outcome.
CancelCheck(c) ==
    /\ \/ CancelStarts(c) /\ run[c] = "off"
       \/ cancel[c] = "signalled" /\ UNCHANGED crashes
    /\ cancel' = [cancel EXCEPT ![c] = IF done[c] = "none"
                                       THEN Outcome(c, "cancelled") ELSE "none"]
    /\ UNCHANGED <<status, handlers, monitor, exec, ordinal, intent, done, raced,
                   run, consumed, history, working, lock, lease>>

\* The record is written without a lock: over one that a monitor published
\* since the check, or beside a runner that started since.
CancelWrite(c) ==
    /\ cancel[c] \in {"completed", "cancelled"}
    /\ Publish(c, cancel[c])
    /\ cancel' = [cancel EXCEPT ![c] = "none"]
    /\ raced' = IF done[c] # "none" \/ run[c] # "off"
                THEN raced \cup {c} ELSE raced
    /\ UNCHANGED <<status, handlers, monitor, ordinal, intent, run, consumed,
                   history, working, lock, lease, crashes>>

\* finalize_stalled_execution for an execution whose runner died.
FinalizeAbandoned(c) ==
    /\ monitor[c] /\ exec[c] = "in_flight" /\ run[c] = "off"
    /\ done[c] = "none"
    /\ Publish(c, Outcome(c, "failed"))
    /\ UNCHANGED <<status, handlers, monitor, ordinal, intent, cancel, raced, run,
                   consumed, history, working, lock, lease, crashes>>

-----------------------------------------------------------------------------
(* reconcile_execution_status *)

\* reconcile_published_completion refuses a completion whose execution is in
\* flight again: the runner that a cancel left alive rewrote the phase and died.
Contradicts(c) == done[c] # "none" /\ exec[c] = "in_flight" /\ run[c] = "off"

\* projected_command_state of an execution without a completion.
Project(c) ==
    /\ monitor[c] /\ done[c] = "none"
    /\ LET next == IF exec[c] = "waiting_for_device" THEN "waiting_for_device"
                                                     ELSE "running"
       IN  /\ status[c].state \in {"running", "waiting_for_device"}
           /\ next # status[c].state
           /\ Transition(c, next, None, None)
    /\ UNCHANGED <<handlers, monitor, records, run, consumed, history, working,
                   lock, lease, crashes>>

\* Mutant: every completion record is reported as completed.
ReconcileAsCompleted(c) ==
    /\ monitor[c] /\ done[c] # "none" /\ ~Contradicts(c)
    /\ IF Terminal(status[c].state)
       THEN UNCHANGED status
       ELSE Transition(c, "completed", None, None)
    /\ monitor' = [monitor EXCEPT ![c] = FALSE]
    /\ UNCHANGED <<handlers, records, run, consumed, history, working, lock,
                   lease, crashes>>

\* Mutant: a cancelled execution ends the monitor but not the command.
ReconcileForgetsCancelled(c) ==
    /\ monitor[c] /\ done[c] # "none" /\ ~Contradicts(c)
    /\ IF Terminal(status[c].state) \/ done[c] = "cancelled"
       THEN UNCHANGED status
       ELSE Transition(c, done[c], None,
                       IF done[c] = "completed" THEN None ELSE Reason)
    /\ monitor' = [monitor EXCEPT ![c] = FALSE]
    /\ UNCHANGED <<handlers, records, run, consumed, history, working, lock,
                   lease, crashes>>

\* A completion becomes the command's outcome and ends the monitor.
Reconcile(c) ==
    /\ monitor[c] /\ done[c] # "none" /\ ~Contradicts(c)
    /\ IF Terminal(status[c].state)
       THEN UNCHANGED status
       ELSE Transition(c, done[c], None,
                       IF done[c] = "completed" THEN None ELSE Reason)
    /\ monitor' = [monitor EXCEPT ![c] = FALSE]
    /\ UNCHANGED <<handlers, records, run, consumed, history, working, lock,
                   lease, crashes>>

\* After five consecutive errors a monitor fails its command for good and ends;
\* one that a repeated command started beside it may go on.
GiveUp(c) ==
    /\ monitor[c] /\ (MonitorErrors \/ Contradicts(c))
    /\ IF Terminal(status[c].state)
       THEN UNCHANGED status
       ELSE Transition(c, "failed", None, Unreconciled)
    /\ \E others \in BOOLEAN : monitor' = [monitor EXCEPT ![c] = others]
    /\ UNCHANGED <<handlers, records, run, consumed, history, working, lock,
                   lease, crashes>>

-----------------------------------------------------------------------------
\* The service stops: handlers and monitors end, a handler's app lock goes.
StopService ==
    /\ crashes < MaxCrashes /\ crashes' = crashes + 1
    /\ pc' = [c \in Commands |-> "idle"]
    /\ monitor' = [c \in Commands |-> FALSE]
    /\ lock' = IF \E c \in Commands : pc[c] = "staging" THEN None ELSE lock
    /\ UNCHANGED <<status, base, records, run, consumed, history, working,
                   lease>>

KillRunner(c) ==
    /\ crashes < MaxCrashes /\ crashes' = crashes + 1
    /\ run[c] # "off"
    /\ RunnerDies(c)
    /\ UNCHANGED <<status, handlers, monitor, records, consumed, history,
                   tree, staged, package>>

Handle(c) ==
    \/ ReplayReceipt(c) \/ Resume(c) \/ Reject(c) \/ Accept(c)
    \/ LockEvolve(c) \/ FailEvolve(c) \/ StageEvolve(c)
    \/ PrepareExecution(c) \/ RefusePreparation(c)
    \/ MakeDirectory(c) \/ WriteRecord(c) \/ PublishReceipt(c)

Execute(c) ==
    \/ StartExecution(c) \/ BeginRecording(c) \/ RecordingFails(c) \/ Seal(c)
    \/ FinishSeal(c) \/ AwaitDevice(c) \/ Complete(c)

CancelStep(c) == CancelSignal(c) \/ CancelCheck(c) \/ CancelWrite(c)

Fault(c) == PreparationFails(c) \/ FinishSealFails(c) \/ KillRunner(c)

Monitor(c) ==
    FinalizeAbandoned(c) \/ Project(c) \/ Reconcile(c) \/ GiveUp(c)

Next ==
    \/ \E c \in Commands :
        \/ \E b \in 0..MaxVersions : Submit(c, b)
        \/ Retry(c) \/ Handle(c) \/ Execute(c) \/ Monitor(c)
        \/ HarnessEdits(c) \/ CancelStep(c) \/ Fault(c)
    \/ StopService

Spec == Init /\ [][Next]_vars

\* Handlers and runners that run keep running, monitors tick, a nonterminal
\* command is replayed by its frontend or at the next service start, and the
\* phone is not absent for ever.
Fairness ==
    \A c \in Commands :
        /\ WF_vars(Retry(c)) /\ WF_vars(Handle(c))
        /\ WF_vars(Execute(c)) /\ WF_vars(Monitor(c))
        /\ SF_vars(Seal(c) \/ RecordingFails(c))

FairSpec == Spec /\ Fairness

-----------------------------------------------------------------------------
\* The variables hold values of the journal, the execution records, the
\* ledger and the processes.
TypeOK ==
    /\ status \in [Commands -> Statuses \cup {None}]
    /\ base \in [Commands -> Nat]
    /\ pc \in [Commands -> HandlerSteps]
    /\ monitor \in [Commands -> BOOLEAN]
    /\ exec \in [Commands -> {"absent", "torn"} \cup ActivePhases
                                \cup FinalPhases]
    /\ ordinal \in [Commands -> Nat]
    /\ intent \in [Commands -> Commands \cup {None}]
    /\ done \in [Commands -> FinalPhases \cup {"none"}]
    /\ cancel \in [Commands -> CancelSteps] /\ raced \subseteq Commands
    /\ run \in [Commands -> RunSteps]
    /\ consumed \in [Commands -> Commands \cup {None}]
    /\ history \in Seq(Commands \cup {None})
    /\ tree \in {"clean", "drifted"}
    /\ staged \in Commands \cup {None} /\ package \in Commands \cup {None}
    /\ lock \in Commands \cup {None} /\ lease \in Commands \cup {None}
    /\ leftover \subseteq Commands \cup {None}
    /\ crashes \in Nat

StateOf(c) == IF status[c] = None THEN None ELSE status[c].state

\* What a command tells its sender is what its execution's record says: every
\* receipt names an execution that exists, and a terminal status published
\* after the receipt is the outcome of that execution, unless its monitor gave
\* up and says so, or `shot cancel` replaced the record after its last look at it.
OutcomesAgree ==
    \A c \in Commands : status[c] # None /\ status[c].receipt # None =>
        /\ HasRecord(c)
        /\ Terminal(status[c].state) /\ c \notin raced =>
              \/ done[c] = status[c].state
              \/ status[c].state = "failed" /\ status[c].reason = Unreconciled

\* complete_execution's words "final execution records are immutable": once a
\* record is final, no step of a runner, a monitor or `shot cancel` changes it.
FinalRecordIsImmutable ==
    [][\A c \in Commands : done[c] # "none" => done'[c] = done[c]]_vars

\* A completed command landed: the accepted Version its execution claims
\* carries the command's own exact instruction.  A cancel that leaves its runner
\* alive beside the next command is the exception.
CompletedIsOwn ==
    raced = {} => \A c \in Commands : StateOf(c) = "completed" =>
        /\ ordinal[c] \in DOMAIN history
        /\ history[ordinal[c]] = c

\* A command evolves the exact Version its sender saw, and its execution is
\* bound to its own intention, with the same exception.
ExactBase ==
    raced = {} => \A c \in Commands : StateOf(c) \in {"running", "completed"} =>
        ordinal[c] = base[c] + 1 /\ intent[c] = c

\* One intention becomes at most one accepted Version, unless record_and_deliver
\* stopped or failed between sealing it and clearing it.
LandsOnce ==
    \A i, j \in DOMAIN history :
        history[i] = history[j] /\ history[i] \notin {None} \cup leftover => i = j

\* A preparation ended between its directory and its record: the Shot refuses
\* every preparation from now on.
Blocked == \E c \in Commands : exec[c] = "torn" /\ pc[c] # "writing"

\* Every admitted command is eventually answered with a terminal status, unless
\* it has no execution yet and the Shot is blocked, or a cancel left its runner
\* alive beside the next command.
CommandSettles ==
    \A c \in Commands :
        Open(c) ~> \/ ~Open(c)
                   \/ Blocked /\ ~HasRecord(c)
                   \/ raced # {}

\* docs/GOLDEN_PATH.md on recover_commands: pre-running commands are replayed
\* and every admitted command is answered, whatever was interrupted.
EveryCommandSettles == \A c \in Commands : Open(c) ~> ~Open(c)

=============================================================================
