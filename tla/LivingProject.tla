---------------------------- MODULE LivingProject ----------------------------
(***************************************************************************)
(* The evolutions of one adopted Xcode project (cli/src/living_project.rs): *)
(* submission, the task that runs the harness and Xcode under the execution *)
(* lock, the reconciliation loop that retries a saved build without that    *)
(* lock, re-adoption, and recovery after the service stops.                 *)
(*                                                                         *)
(* Both records, evolution.json and project.json, are read without a lock   *)
(* and written back whole: a read and its write are two steps, and what a   *)
(* process wrote in between is overwritten.  An evolution stands for its    *)
(* command as well.                                                         *)
(***************************************************************************)
EXTENDS Integers, Sequences, FiniteSets

CONSTANTS
    None,
    Evolutions,     \* commands, and the evolutions they create
    Tasks,          \* slots for spawned run_evolution tasks
    MaxSubmits,     \* bound on the submissions of an answered command
    MaxTries,       \* installation attempts an evolution record may hold
    MaxPasses,      \* bound on the passes of the retry loop
    MaxAdoptions,   \* bound on the re-adoptions of the project
    MaxCrashes      \* bound on the stops of the service

ASSUME ConstantsAssumption ==
    /\ {MaxSubmits, MaxTries, MaxPasses, MaxAdoptions, MaxCrashes} \subseteq Nat
    /\ None \notin Evolutions \cup Tasks /\ Tasks \cap {"loop", "adopter"} = {}

VARIABLES
    evolution,  \* evolution.json of each evolution, with status "absent" before
    index,      \* commands with a CommandIndex file
    latest,     \* project.json: latest_evolution_id
    exec,       \* the task holding execution_lock
    proc,       \* the spawned tasks, the retry loop, the adoption request
    service,    \* "up" or "down"
    delivered,  \* evolutions whose build reached the phone
    answered,   \* commands whose sender got an answer
    \* bounds and history
    submits, passes, adoptions, crashes, runs

disk == <<evolution, index, latest>>
counters == <<submits, passes, adoptions, crashes>>
vars == <<disk, exec, proc, service, delivered, answered, counters, runs>>

Processes == Tasks \cup {"loop", "adopter"}

Statuses == {"Queued", "Received", "Working", "Building", "WaitingForUserAction",
             "ReadyToInstall", "Installing", "Installed", "Completed", "Failed"}
Final == {"Completed", "Failed"}
Waiting == {"WaitingForUserAction", "ReadyToInstall"}
Resumable == {"Queued", "Received"}
Interrupted == {"Working", "Building", "Installing"}

\* transition_allowed
Successors ==
    [s \in Statuses |->
        CASE s = "Queued"     -> {"Received", "Failed"}
          [] s = "Received"   -> {"Working", "Failed"}
          [] s = "Working"    -> {"Building", "Failed"}
          [] s = "Building"   -> Waiting \cup {"Installing", "Failed"}
          [] s \in Waiting    -> Waiting \cup {"Installing", "Failed"}
          [] s = "Installing" -> Waiting \cup {"Installed", "Failed"}
          [] s = "Installed"  -> Final
          [] s \in Final      -> {}]
TransitionAllowed(from, to) == from = to \/ to \in Successors[from]

\* ProjectEvolutionRecord: a successful build attempt, the number of
\* installation attempts.
Absent == [status |-> "absent", built |-> FALSE, tries |-> 0]
Fresh == [status |-> "Queued", built |-> FALSE, tries |-> 0]
Records == [status : Statuses \cup {"absent"}, built : BOOLEAN, tries : 0 .. MaxTries]

Recorded(e) == evolution[e].status # "absent"
Active == {e \in Evolutions : Recorded(e) /\ evolution[e].status \notin Final}

\* What a process still has to write before it goes on at a label:
\* "move" and "link" are the two halves of transition, "fail" and "save" of
\* fail_evolution; the others rewrite a record around one field.
Op(kind, to) == [kind |-> kind, to |-> to]
Set(s) == <<Op("move", s), Op("link", s)>>
Note == <<Op("note", None)>>
Built == <<Op("built", None)>>
Try == <<Op("try", None)>>
Save == <<Op("save", None)>>
Fail == <<Op("fail", "Failed"), Op("save", None)>>
OnEvolution(op) == op.kind \in {"move", "note", "built", "try", "fail"}

Labels == {"idle", "lock", "start", "packet", "harness", "tests", "build",
           "inventory", "install", "finish", "adopting"}
Idle == [at |-> "idle", evo |-> None, todo |-> <<>>, copy |-> None]

Init ==
    /\ evolution = [e \in Evolutions |-> Absent]
    /\ index = {}
    /\ latest = None
    /\ exec = None
    /\ proc = [p \in Processes |-> Idle]
    /\ service = "up"
    /\ delivered = {}
    /\ answered = {}
    /\ submits = [e \in Evolutions |-> 0]
    /\ passes = 0 /\ adoptions = 0 /\ crashes = 0
    /\ runs = [e \in Evolutions |-> 0]

-----------------------------------------------------------------------------
(* Submission, under the publication lock *)

\* repair_project_link_unlocked
RepairedLink(e) ==
    IF latest = None THEN e ELSE latest

\* spawn_evolution: a task, in any free slot, that waits for the execution lock.
Spawn(e) ==
    LET idle == {t \in Tasks : proc[t].at = "idle"}
    IN  /\ idle # {}
        /\ proc' = [proc EXCEPT ![CHOOSE t \in idle : TRUE] =
                      [Idle EXCEPT !.at = "lock", !.evo = e]]

\* The sender repeats a command until it is answered, and may repeat it later.
Send(e) ==
    /\ service = "up"
    /\ e \in answered => submits[e] < MaxSubmits
    /\ submits' = [submits EXCEPT ![e] = IF e \in answered THEN @ + 1 ELSE @]

\* A repeated command resolves to the evolution it created, found by its index
\* or among the evolutions, and resumes it unless it is past the queue.
SubmitAgain(e) ==
    /\ Send(e)
    /\ Recorded(e)
    /\ index' = index \cup {e}
    /\ latest' = RepairedLink(e)
    /\ IF evolution[e].status \in Resumable
       THEN Spawn(e)
       ELSE UNCHANGED proc
    /\ answered' = answered \cup {e}
    /\ UNCHANGED <<evolution, exec, service, delivered, passes, adoptions,
                   crashes, runs>>

\* A command is refused when an evolution is active, or when the source folder
\* is not what its sender saw, whatever the owner did to it.
SubmitRefused(e) ==
    /\ Send(e)
    /\ ~ Recorded(e)
    /\ answered' = answered \cup {e}
    /\ UNCHANGED <<disk, exec, proc, service, delivered, passes, adoptions,
                   crashes, runs>>

\* The evolution, its index and the project's link are three files.
Create(e, files) ==
    /\ evolution' = IF files >= 1 THEN [evolution EXCEPT ![e] = Fresh] ELSE evolution
    /\ index' = IF files >= 2 THEN index \cup {e} ELSE index
    /\ latest' = IF files >= 3 THEN e ELSE latest

SubmitNew(e) ==
    /\ Send(e)
    /\ ~ Recorded(e)
    /\ Active = {}
    /\ Create(e, 3)
    /\ Spawn(e)
    /\ answered' = answered \cup {e}
    /\ UNCHANGED <<exec, service, delivered, passes, adoptions, crashes, runs>>

Submit(e) == SubmitAgain(e) \/ SubmitRefused(e) \/ SubmitNew(e)

-----------------------------------------------------------------------------
(* Record updates: what the processes share *)

\* A process continues at a label once its updates are written.
Go(p, updates, label) ==
    proc' = [proc EXCEPT ![p].todo = updates, ![p].at = label, ![p].copy = None]

\* An error of a task: it gives up the lock and then records the failure
\* (spawn_evolution).
TaskError(t) ==
    /\ exec' = IF exec = t THEN None ELSE exec
    /\ Go(t, Fail, "finish")

\* The loop only abandons its pass.
Error(p) ==
    \/ p \in Tasks /\ TaskError(p)
    \/ p = "loop" /\ proc' = [proc EXCEPT ![p] = Idle] /\ UNCHANGED exec

UpdatedEvolution(record, op) ==
    CASE op.kind = "move"  -> [record EXCEPT !.status = op.to]
      [] op.kind = "fail"  -> [record EXCEPT !.status = op.to]
      [] op.kind = "built" -> [record EXCEPT !.built = TRUE]
      [] op.kind = "try"   -> [record EXCEPT !.tries = @ + 1]
      [] op.kind = "note"  -> record

Next1(p) == Head(proc[p].todo)
Reading(p) == service = "up" /\ proc[p].todo # <<>> /\ proc[p].copy = None
Writing(p) == service = "up" /\ proc[p].todo # <<>> /\ proc[p].copy # None

\* transition refuses a status that does not follow; fail_evolution leaves a
\* completed evolution alone.
ReadEvolution(p) ==
    /\ Reading(p)
    /\ OnEvolution(Next1(p))
    /\ LET seen == evolution[proc[p].evo]
       IN  \/ /\ Next1(p).kind = "move" => TransitionAllowed(seen.status, Next1(p).to)
              /\ Next1(p).kind = "fail" => seen.status # "Completed"
              /\ proc' = [proc EXCEPT ![p].copy = seen]
              /\ UNCHANGED exec
           \/ /\ Next1(p).kind = "move"
              /\ ~ TransitionAllowed(seen.status, Next1(p).to)
              /\ Error(p)
           \/ /\ Next1(p).kind = "fail"
              /\ seen.status = "Completed"
              /\ Go(p, <<>>, proc[p].at)
              /\ UNCHANGED exec
    /\ UNCHANGED <<disk, service, delivered, answered, counters, runs>>

\* replace_evolution: validate_evolution refuses a record that outgrew its
\* collections.
WriteEvolution(p) ==
    /\ Writing(p)
    /\ OnEvolution(Next1(p))
    /\ LET new == UpdatedEvolution(proc[p].copy, Next1(p))
       IN  \/ /\ new.tries <= MaxTries
              /\ evolution' = [evolution EXCEPT ![proc[p].evo] = new]
              /\ Go(p, Tail(proc[p].todo), proc[p].at)
              /\ UNCHANGED exec
           \/ /\ new.tries > MaxTries
              /\ Error(p)
              /\ UNCHANGED evolution
    /\ UNCHANGED <<index, latest, service, delivered, answered, counters, runs>>

ReadProject(p) ==
    /\ Reading(p)
    /\ Next1(p).kind = "save"
    /\ proc' = [proc EXCEPT ![p].copy = [link |-> latest]]
    /\ UNCHANGED <<disk, exec, service, delivered, answered, counters, runs>>

\* replace_project.  transition sets the link whatever it read: only the others
\* store the link they saw.
WriteProject(p) ==
    /\ \/ /\ Writing(p)
          /\ Next1(p).kind = "save"
          /\ latest' = proc[p].copy.link
       \/ /\ Reading(p)
          /\ Next1(p).kind = "link"
          /\ latest' = proc[p].evo
    /\ Go(p, Tail(proc[p].todo), proc[p].at)
    /\ UNCHANGED <<evolution, index, exec, service, delivered, answered,
                   counters, runs>>

Update(p) ==
    ReadEvolution(p) \/ WriteEvolution(p) \/ ReadProject(p) \/ WriteProject(p)

-----------------------------------------------------------------------------
(* run_evolution *)

At(p, label) == service = "up" /\ proc[p].todo = <<>> /\ proc[p].at = label
ElseSame == UNCHANGED <<disk, service, delivered, answered, counters, runs>>

\* A task that does not wait for the one holding the lock.
TakeLockShared(t) ==
    /\ At(t, "lock")
    /\ LET status == evolution[proc[t].evo].status
       IN  \/ /\ status = "Queued"
              /\ exec' = t
              /\ Go(t, Set("Received"), "start")
           \/ /\ status = "Received"
              /\ exec' = t
              /\ Go(t, <<>>, "start")
           \/ /\ status \notin Resumable
              /\ TaskError(t)
    /\ ElseSame

\* With the lock, the status is read again.
TakeLock(t) ==
    /\ At(t, "lock")
    /\ exec = None
    /\ LET status == evolution[proc[t].evo].status
       IN  \/ /\ status = "Queued"
              /\ exec' = t
              /\ Go(t, Set("Received"), "start")
           \/ /\ status = "Received"
              /\ exec' = t
              /\ Go(t, <<>>, "start")
           \/ /\ status \notin Resumable
              /\ TaskError(t)
    /\ ElseSame

\* The source folder is where it was, or is not.
Start(t) ==
    /\ At(t, "start")
    /\ \/ Go(t, Set("Working"), "packet") /\ UNCHANGED exec
       \/ TaskError(t)
    /\ ElseSame

\* build_evolution_command: the harness starts, or is unavailable.
StartHarness(t) ==
    /\ At(t, "packet")
    /\ \/ /\ Go(t, <<>>, "harness")
          /\ runs' = [runs EXCEPT ![proc[t].evo] = @ + 1]
          /\ UNCHANGED exec
       \/ TaskError(t) /\ UNCHANGED runs
    /\ UNCHANGED <<disk, service, delivered, answered, counters>>

\* run_harness
RunHarness(t) ==
    /\ At(t, "harness")
    /\ \/ Go(t, Note \o Set("Building"), "tests") /\ UNCHANGED exec
       \/ TaskError(t)
    /\ ElseSame

RunTests(t) ==
    /\ At(t, "tests")
    /\ \/ Go(t, Note \o Set("Building"), "build")
       \/ Go(t, Note \o Fail, "finish")
    /\ UNCHANGED exec
    /\ ElseSame

\* A signed app, which update_project_after_build records, or a build that failed.
Build(t) ==
    /\ At(t, "build")
    /\ \/ Go(t, Built \o Save, "inventory")
       \/ Go(t, Note \o Fail, "finish")
    /\ UNCHANGED exec
    /\ ElseSame

ReadyToInstall == Set("ReadyToInstall") \o Note
WaitingForUser == Set("WaitingForUserAction") \o Note

\* install_or_wait, by the task or by the loop: the devices in reach.
Inventory(p) ==
    /\ At(p, "inventory")
    /\ \/ Go(p, Set("Installing"), "install") /\ UNCHANGED exec
       \/ Go(p, ReadyToInstall, "finish") /\ UNCHANGED exec
       \/ Go(p, WaitingForUser, "finish") /\ UNCHANGED exec
       \/ Error(p)
    /\ ElseSame

\* complete_installation
CompleteInstallation ==
    Try \o Set("Installed") \o Save \o Note \o Set("Completed")

\* An unverified installation counts as one.
InstallUnverified(p) ==
    /\ At(p, "install")
    /\ \/ delivered' = delivered \cup {proc[p].evo}
       \/ UNCHANGED delivered
    /\ Go(p, CompleteInstallation, "finish")
    /\ UNCHANGED <<disk, exec, service, answered, counters, runs>>

\* devicectl verified the app on the phone, found it locked or away, or failed.
Install(p) ==
    /\ At(p, "install")
    /\ \/ /\ delivered' = delivered \cup {proc[p].evo}
          /\ Go(p, CompleteInstallation, "finish")
       \/ /\ Go(p, Try \o ReadyToInstall, "finish")
          /\ UNCHANGED delivered
       \/ /\ Go(p, Try \o Fail, "finish")
          /\ UNCHANGED delivered
    /\ UNCHANGED <<disk, exec, service, answered, counters, runs>>

\* The wall-clock budget ends while the task awaits a process; one that
\* devicectl already serves goes on without it.
Timeout(t) ==
    /\ \E label \in {"harness", "tests", "build", "inventory", "install"} : At(t, label)
    /\ TaskError(t)
    /\ \/ UNCHANGED delivered
       \/ /\ proc[t].at = "install"
          /\ delivered' = delivered \cup {proc[t].evo}
    /\ UNCHANGED <<disk, service, answered, counters, runs>>

Finish(p) ==
    /\ At(p, "finish")
    /\ exec' = IF exec = p THEN None ELSE exec
    /\ proc' = [proc EXCEPT ![p] = Idle]
    /\ ElseSame

Run(t) ==
    \/ TakeLock(t) \/ Start(t) \/ StartHarness(t) \/ RunHarness(t) \/ RunTests(t)
    \/ Build(t) \/ Inventory(t) \/ Install(t) \/ Finish(t)

-----------------------------------------------------------------------------
(* The reconciliation loop and re-adoption *)

\* retry_ready_installations_once sees only the evolution the project links.
RetryReady ==
    /\ At("loop", "idle")
    /\ passes < MaxPasses
    /\ latest # None
    /\ evolution[latest].status \in Waiting
    /\ evolution[latest].built
    /\ passes' = passes + 1
    /\ proc' = [proc EXCEPT !["loop"] =
                  [Idle EXCEPT !.at = "inventory", !.evo = latest]]
    /\ UNCHANGED <<disk, exec, service, delivered, answered, submits, adoptions,
                   crashes, runs>>

Retry == RetryReady \/ Inventory("loop") \/ Install("loop") \/ Finish("loop")

\* adoption of a project that exists reads its record once ...
BeginAdoption ==
    /\ At("adopter", "idle")
    /\ adoptions < MaxAdoptions
    /\ adoptions' = adoptions + 1
    /\ proc' = [proc EXCEPT !["adopter"].at = "adopting", !["adopter"].copy = [link |-> latest]]
    /\ UNCHANGED <<disk, exec, service, delivered, answered, submits, passes,
                   crashes, runs>>

\* ... and stores that copy at once, again after a whole Xcode build
\* (verify_adoption_build), and again if the phone has the app
\* (observe_existing_installation).
StoreAdopted(next) ==
    /\ At("adopter", "adopting")
    /\ latest' = proc["adopter"].copy.link
    /\ proc' = [proc EXCEPT !["adopter"] = IF next = "idle" THEN Idle ELSE @]
    /\ UNCHANGED <<evolution, index, exec, service, delivered, answered,
                   counters, runs>>

Adopt == BeginAdoption \/ StoreAdopted("adopting") \/ StoreAdopted("idle")

-----------------------------------------------------------------------------
(* The service stops, and recover_interrupted *)

Stop ==
    /\ crashes < MaxCrashes
    /\ crashes' = crashes + 1
    /\ service' = "down"
    /\ exec' = None
    /\ proc' = [p \in Processes |-> Idle]

Crash ==
    /\ service = "up"
    /\ Stop
    /\ UNCHANGED <<disk, delivered, answered, submits, passes, adoptions, runs>>

\* The service stops between the files of a submission.
CrashInSubmit(e, files) ==
    /\ Send(e)
    /\ ~ Recorded(e)
    /\ Active = {}
    /\ Create(e, files)
    /\ Stop
    /\ answered' = answered \ {e}
    /\ UNCHANGED <<delivered, passes, adoptions, runs>>

Linked == latest # None

\* Only a queued evolution is spawned again.
RecoverInterruptedQueued ==
    /\ service = "down"
    /\ \/ /\ Linked /\ evolution[latest].status = "Queued"
          /\ Spawn(latest)
       \/ /\ ~ (Linked /\ evolution[latest].status = "Queued")
          /\ UNCHANGED proc
    /\ service' = "up"
    /\ UNCHANGED <<disk, exec, delivered, answered, counters, runs>>

\* An interrupted evolution waits for the phone if it has a build, else failed;
\* a queued one is spawned; the others are left as they are.
RecoverInterrupted ==
    /\ service = "down"
    /\ \/ /\ Linked /\ evolution[latest].status \in Interrupted
          /\ evolution' = [evolution EXCEPT ![latest].status =
                              IF evolution[latest].built
                              THEN "ReadyToInstall" ELSE "Failed"]
          /\ UNCHANGED proc
       \/ /\ Linked /\ evolution[latest].status \in Resumable
          /\ Spawn(latest)
          /\ UNCHANGED evolution
       \/ /\ ~ (Linked /\ evolution[latest].status \in Interrupted \cup Resumable)
          /\ UNCHANGED <<evolution, proc>>
    /\ service' = "up"
    /\ UNCHANGED <<index, latest, exec, delivered, answered, counters, runs>>

-----------------------------------------------------------------------------
Next ==
    \/ \E e \in Evolutions : Submit(e)
    \/ \E p \in Processes : Update(p)
    \/ \E t \in Tasks : Run(t) \/ Timeout(t)
    \/ Retry
    \/ Adopt
    \/ Crash
    \/ \E e \in Evolutions, files \in 0 .. 3 : CrashInSubmit(e, files)
    \/ RecoverInterrupted

Spec == Init /\ [][Next]_vars

\* Unanswered senders repeat, tasks and the loop go on, the lock is granted in
\* the order it was asked for, and the service is started again.
FairSpec ==
    /\ Spec
    /\ \A e \in Evolutions : WF_vars(e \notin answered /\ Submit(e))
    /\ \A p \in Processes : WF_vars(Update(p))
    /\ \A t \in Tasks : WF_vars(Run(t)) /\ SF_vars(TakeLock(t))
    /\ WF_vars(Retry)
    /\ WF_vars(RecoverInterrupted)

-----------------------------------------------------------------------------
(* Properties *)

TypeOK ==
    /\ evolution \in [Evolutions -> Records]
    /\ index \subseteq Evolutions
    /\ latest \in Evolutions \cup {None}
    /\ exec \in Tasks \cup {None}
    /\ \A p \in Processes :
          /\ proc[p].at \in Labels
          /\ proc[p].evo \in Evolutions \cup {None}
          /\ proc[p].copy \in {None} \cup Records \cup [link : Evolutions \cup {None}]
          /\ Len(proc[p].todo) <= 7
    /\ service \in {"up", "down"}
    /\ delivered \subseteq Evolutions
    /\ answered \subseteq Evolutions
    /\ submits \in [Evolutions -> 0 .. MaxSubmits]
    /\ passes \in 0 .. MaxPasses
    /\ adoptions \in 0 .. MaxAdoptions
    /\ crashes \in 0 .. MaxCrashes
    /\ runs \in [Evolutions -> Nat]

\* The harness edits the owner's source at most once for one request, however
\* often the command was repeated, its task spawned or the service restarted
\* (run_evolution reads the status again under the lock).
HarnessRunsOnce == TypeOK /\ \A e \in Evolutions : runs[e] <= 1

\* An evolution that waits for the phone or was installed has a verified build,
\* and one reported installed or completed reached the phone, whatever stale
\* copy of the record was written over it.
StatusIsEarned ==
    \A e \in Evolutions :
        /\ evolution[e].status \in Waiting \cup {"Installing", "Installed", "Completed"}
              => evolution[e].built
        /\ evolution[e].status \in {"Installed", "Completed"} => e \in delivered

\* A recorded evolution leaves the queue, the harness and Xcode, through repeated
\* commands, failing tasks, timeouts and a stop at any point.  The exception is a
\* stop after a re-adoption stored an older link, which hides the evolution from
\* recover_interrupted.
LeavesQueue ==
    \A e \in Evolutions :
        evolution[e].status \in Resumable \cup {"Working", "Building"}
            ~> \/ evolution[e].status \notin Resumable \cup {"Working", "Building"}
               \/ adoptions > 0 /\ crashes > 0

=============================================================================
