# Verification of TOHSENO

TLA+ models of TOHSENO: the local factory that turns an intention into an accepted
Version of an app (command journal, application service, execution manager, Version
ledger), the phone that sends the intentions (companion coordinator), projects
adopted from Xcode, and the public side: nodes, contracts and the publication of a
release. The models are checked with TLC on small instances; all their safety
properties are proved with TLAPS for every size.

## 1. The system

TOHSENO is a factory on one Mac. A frontend (CLI, Studio, the paired iPhone) sends a
*command*. The Local Workspace Service admits it durably, stages the exact intention
in the Shot's folder, prepares an *execution* and answers with a receipt. A detached
*runner* process then invokes a coding harness, runs the deterministic gates,
installs the app and, if everything passes, the engine seals a new *Version* in the
ledger. A one second *monitor* in the service restarts or finalizes executions and
projects their outcome to the command. The phone talks to the service through a
relay's mailboxes. A project that was adopted instead of born in the factory is
evolved by a task of the service. `deploy` publishes a release: the phone approves
it, the service uploads it to the registry web service, whose relayer registers it
on chain. Nodes preserve the public lineage of Shots and pull it from each other. On
the Mac everything is a file; processes meet only in files and advisory locks, and
any of them may be killed at any moment.

### Inventory

| Component | State it keeps | Operations | What is hard about it | What makes it correct |
|---|---|---|---|---|
| Command journal (`application/src/journal.rs`, `command.rs`) | one directory per command: request, payload, private inputs, `status.json` | `admit_with_files`, `transition`, `load`, `recoverable` | callers in several processes, no lock during admission, crashes leave staging directories, a bounded directory | one request per identifier; receipts and terminal states stable; outcomes explained |
| Application service (`application_service.rs`) | per-command in-process claims; monitors | `evolve_shot`, `create_shot`, feedback, marketing, retire, restore, `recover_commands`, monitor | stops between any two durable steps; repeated commands; overlapping commands | every command settles; answers agree with records; an instruction lands once, on the base its sender saw |
| Execution manager (`execution_manager.rs`, `engine/src/shot_execution.rs`) | `execution.json`, `completion.json`, `events.jsonl`, `runner.pid`, locks `runner.lock`, `run.claim` | prepare, `ensure_background_runner`, `run`, `cancel`, finalize, reconcile | three kinds of processes, stale reads, orphaned harnesses, partial writes | one process tree; one pass and one repair; one outcome, equal to the ledger's; eventually final |
| Factory lease (`factory_lease.rs`) | one advisory lock per Mac | acquire, drop | held across awaits, lost and retaken around a device wait | covers all expensive work and nothing else |
| Engine and Version ledger (`engine/src/machine.rs`, `shot_layout.rs`, `ledger.rs`) | working tree, pending instruction, `app.toml`, Version directories, lineage, app lock | `evolve_exact`, `record_and_deliver`, reserve, finalize, recover, retire, birth, adopt, restore | check and use under different locks; several files per Version; readers that write | exact base and instruction; complete Versions signed, kept and recognized |
| Companion (`companion/`, `cli/src/companion_service.rs`) | devices, pairing sessions, replay window, inbox, outbox, cursors | pair, revoke, reconcile a mailbox, publish changes | duplicated, expired and replayed envelopes; records written back whole; stops anywhere | acknowledged means answered; answers true; one grant per session; changes arrive |
| Living projects (`cli/src/living_project.rs`) | `evolution.json`, `project.json`, command index, execution lock | submit, run, retry, adopt, recover | records read and replaced without a lock; detached tasks; timeouts | the harness runs once; statuses earned; nothing stays queued |
| Publication (`cli/src/network_commands.rs`, `website/apps/site/src/registry.ts`, `upload-subsidy.ts`) | a job directory on the Mac; staging, jobs, blobs, releases, subsidies at the registry | deploy, approve, stage, upload, publish, poll, relay, finalize, collect | answers lost after the act, deadlines, two durable stores and a chain | bytes before chain; public means backed; one sponsored upload; jobs settle |
| Node (`node/`) | append-only action files, an index | ingest, reclassify, scan, pull | arrival before parents; limits; failing requests | verdicts independent of arrival order; acknowledged actions stay; peers converge |
| Contracts (`contracts/src`) | accounts, registry, claims | device administration, recovery, commit and reveal, checkpoint, transfer, edition, claim | replayed signatures, delays, last device, supply limits | an account stays governable; a signature counts once; receipts agree |
| Protocol, network (`protocol/`, `network/`) | none (pure) | lineage reduction, catalogue projection | branching lineages | deterministic reduction |
| Entitlement, billing | a phase over an injected clock | grant, refresh, guard of new commands | date boundaries, in-flight work after expiry | no admitted command is stopped, no new one passes |
| User interfaces, sites, SDK, tools | none of their own | | | |

`PROJECT.json` lists every component, modelled or not, and every hazard at its line.

## 2. The modules

| Module | Models |
|---|---|
| `CommandIds` | the command identifiers and the value for "absent" that the modules about commands share |
| `CommandStatus` | status record, transition table, `transition`'s decision; pure operators |
| `CommandJournal` | the journal under concurrent callers |
| `ExecutionPromise` | abstract specification of an execution |
| `ShotExecution` | every process, file and lock of one execution |
| `ShotCommands` | evolution commands of one Shot from admission to outcome |
| `VersionLedger` | the files of a recording and everybody who reads or writes them |
| `CompanionSync` | pairing, mailbox reconciliation, receipts, revocation, projection |
| `LivingProject` | the evolutions of one adopted project |
| `NodeSync` | nodes that ingest, classify, restart and pull |
| `BuilderAccount` | accounts, devices and recovery on chain |
| `ShotRegistry` | the registry and claims contracts, composed with the accounts |
| `Publication` | deploy, service loop, registry service, relayer and chain |
| `CompanionJournalProofs` | theorems about `CommandJournal` and `CompanionSync` |
| `ShotExecutionProofs`, `ShotCommandsProofs`, `VersionLedgerProofs`, `LivingProjectProofs`, `NodeSyncProofs`, `ShotRegistryProofs`, `PublicationProofs` | theorems about the module of that name; that of `ShotRegistry` covers `BuilderAccount` too |
| `MC...` | instances for TLC: symmetry sets, a view, small lineages and policies |

`CommandJournal` and `ShotCommands` extend `CommandStatus`: both use the one
translation of `transition`. `CommandStatus` and `CompanionSync` extend
`CommandIds`. `ShotCommands` takes the processes of an execution with the steps that
`ShotExecution` shows they amount to (start, record, wait, complete, cancel,
finalize), and adds what one execution cannot show: the commands, the pending
instruction and the Versions that executions share. Its sealing of a Version is the
recording up to the completion marker; the pending prompt is cleared in a step of
its own. `VersionLedger` takes the first of the two apart into its files.
`ShotRegistry` extends `BuilderAccount`, because both contracts ask the accounts
whether they signed. `Publication` has its own small chain: what it needs of the
contracts is the success or revert of four transactions.

Definitions that a comment calls a mutant, or that stand before an action under its
name with a suffix, are deliberate faults next to the definition they change. No
specification uses them; substituting one for its original must break the property
that `PROJECT.json` names for it.

### CommandJournal and the code

`request[c]` and `status[c]` are the published files of a command. A caller goes
through `admit_with_files` in the steps that another caller can get between: the
look at the final directory (`Admit`), the count (`CheckCapacity`), the staging
directory (`WriteStaging`), the rename (`Publish` or `Collide`) and the idempotency
path after a collision (`RecheckCollision`). A request stands for the identity
tuple, the payload bytes and the private inputs, which `read_existing` compares.
`transition` holds a lock from load to replacement and is one step. A crash leaves
the staging directory behind, and `read_dir` counts it.

### ShotExecution and the code

| Variable | In the code |
|---|---|
| `phase`, `child` | `execution.json`: `phase` and `process_id` |
| `log` | `events.jsonl`: whether its last event is final, or something follows a final one |
| `completion` | `completion.json` as the phase it finalizes to |
| `pidFile` | `runner.pid` |
| `launcher`, `claim`, `owns`, `lease` | `runner.lock`, `run.claim` (held by the runner's own descriptor and by the one its harness inherits), the factory lease |
| `harness` | runners whose harness tree is alive, orphans too |
| `seen` | the record a process read earlier and goes on using |
| `verdict`, `spawned`, `passes` | locals of `complete_execution`, of launcher and canceller, of `run_shot` |
| `versions`, `invocations` | Versions of this ordinal in the ledger; harness passes (history) |
| `unleased` | runners whose wait for the phone ended in an error (history) |

A read that is used later, a file write and a lock operation are steps of their own.
Two groups of operations are one step: the checks that `cancel` makes on entry, and
the probes of `ensure_background_runner` (`runner.pid`, then the claim). The record
that a supervisor read just before its probes is stale only if it was suspended for
as long as another process needed to change it; this is the fault `preempt`. In the
same way the death of a supervisor between `spawn` and the PID file is the fault
`handover`. The runs leave these two faults out, because with them the properties
fail in the ways section 3 describes. Section 4 says which theorems hold for every
set of faults.

The fault `device` is an error of `wait_for_device`, of the second
`take_factory_lease` or of the phase update between them: it comes back to
`run_shot` as a diagnostic of the gates, with the claim kept and the lease gone, and
leads to a repair or to the failed outcome (`WaitFails`). The fault `verify` is an
accepted Version whose stored verification did not pass (`JudgeUnverified`):
`validation_passed` is then false and the execution is recorded as failed.

The thirteen phases between `ExecutionStarted` and `ValidationStarted` are one
value, `in_flight`, because `run_shot`, `cancel` and `runner_recovery_disposition`
list them together.

### ShotCommands and the code

A command stands for its intention and for the execution identity derived from it
(`command_execution_id`). `pc[c]` is where `evolve_shot` is between two durable
effects; `claim_command` allows one handler per command. `history` is the sequence
of prompts recorded with the accepted Versions after the first one, so the base of a
command is an ordinal. `tree`, `staged`, `package` and `lock` are the working tree,
the pending instruction, the prepared intent package and the app lock. `staged` is
one file of the Shot, which is what makes overlapping commands interesting.
`MonitorErrors` lets a monitor fail five times in a row for any reason (`GiveUp`).

`exec` and `done` are `execution.json` and `completion.json` of an execution. Its
preparation is a directory (`exec[c] = "torn"`) and then a record; the service may
stop between them, and `PreparationFails` is an error of `capture_git_boundary`, of
the clock or of `write_record`, after which the directory stays. Sealing (`Seal`)
and clearing the pending prompt (`FinishSeal`) are two steps; the second may fail
and is then only reported (`FinishSealFails`), and a runner may die between them.
`cancel[c]` is where `shot cancel` is: it signals the runner, looks for a completion
and judges, and writes its outcome later, without a lock. What the monitor checks
and writes in `finalize_stalled_execution` is one step, because only the monitor of
the command does it, under `runner.lock`. Two history variables name what the
properties except: `raced`, cancels that wrote over a final record or beside a new
runner, and `leftover`, prompts that were not cleared after they landed.
`MaxCrashes` is the common budget of stops, dying runners, failing calls and
cancels.

### VersionLedger and the code

`head`, `dir`, `content`, `lineage` and `working` are `app.toml`'s
`latest_evolution`, the Version directories with their completion marker and sealed
source, the Version actions of the lineage and the owner's folder. `LockApp` to
`CheckoutTree` are the steps of `record_and_deliver` and of `finalize_evolution`
that leave something on disk. `ReadRecord` and `RecoverHead` are `load_app`, which
stores a head it has replayed even for a reader. Outsiders are the readers,
`retire_shot` and `restore_shot`, which take no app lock. `behind` is a history
variable: by how many complete Versions a stored head fell short. Recovery looks at
one directory after the head, so the properties speak of `behind < 2`.

### CompanionSync and the code

One phone, its device record, and the mailboxes of its pairings, named by the order
of their creation. The service's reconciliation task is `loop`, one step per await:
`LoadDevice`, `FetchPage`, then for each envelope its admission, the application's
result, the durable receipt, the consumption of references, the upload of the
receipt, the cursor and the acknowledgement, each of which can be the last before a
stop. `pairings` are the handlers of `finish_pairing`, of the loop and of a Studio
request. The loop stores the whole device record that it loaded, as the code does. A
command is data except for whether it needs a reference, which travels as a chunk
and is consumed once. The relay (retention, closing, floor) and the phone (sending,
repeating) are external.

`Evolves` are the commands that name a base, `stale` those whose base is no longer
the accepted Version because a detached runner landed one meanwhile (`VersionLands`,
external). `process_command_uncached` compares the base before it could find an
earlier execution of the same command, so a stale command is rejected though it was
executed. The history variable `unrecorded` holds the commands whose execution a
stop left without a record. `GrantCapability` joins the relay's `create_mailbox`
with the device record that is stored after it; a mailbox between the two belongs to
nobody and a retry makes another one. An error of the application that never goes
away (`application_failure`, `companion_service.rs:1749-1754`) has no counterpart.

`finish_pairing` takes a completion for the retry of an earlier one when the device
record, not revoked, carries its response mailbox and keys; in the model, its
session. `OneGrantPerSession` therefore allows a second mailbox of one session only
after a revocation or after the mailbox of another session: with two sessions, the
completion of the first fails after its mailbox is made, the second one is paired,
and the first, when it is resumed, no longer looks like a retry. The run has one
session; the theorem covers any number.

### LivingProject and the code

`evolution` and `latest` are the two records; a read and the write of the whole
record are two steps (`ReadEvolution`, `WriteEvolution`, `ReadProject`,
`WriteProject`), so whatever another process wrote between them is lost, as in the
code. A process carries the list of updates it still has to make (`todo`) and the
label of the code after them. `Tasks` are slots for spawned `run_evolution` tasks,
`loop` is the retry of a saved build, `adopter` a re-adoption request. A timeout
ends a task anywhere, and `CrashInSubmit` leaves any prefix of the files a
submission writes. An I/O error between those writes (`living_project.rs:1426-1440`)
leaves the same files without a stop of the service and is not an action of its own.

### NodeSync and the code

Actions are immutable and name their predecessor by digest, so ancestry is a
constant. `files` is the append-only directory, `index` the verdicts in memory.
`Judge` is `verify_lineage_segment` with the reduction accepting or refusing a
chain, `Classify` the branch collection of the store, `Reclassify` its pass over the
descendants of what has arrived, `Kept` the limit of a scan. A pull takes the Shots
of a peer in order and their references one request at a time; each request may
fail.

### BuilderAccount, ShotRegistry and the code

Every external function that changes state is an action. Anybody may submit anything
that was signed, at any time and again, so an action asks whether a key could have
signed what the contract hashes at that moment; `spent` remembers what has been
applied. `now` is the block time and ends at `MaxTime`, so that the checked addition
of the recovery delay is reached. Signature verification is the key that signs;
EIP-7702 code is never accepted as a controller. What is signed for an append
carries in the model the account that is asked to verify it; the contract's APPEND
hash has no controller, and the nonce, which it has, tells the same actions apart. A
receipt keeps the time it was given, for the closing of its edition.

### Publication and the code

The Mac's variables are the files of a job directory; `call` is the one request that
`resume_publications_once` is making. The registry's variables are its durable
files, `work` the operation its queue serializes, `upload` a body being received
outside that queue and `late` one whose caller has given up. `txs` are the relayer's
transactions in nonce order: account, commit, register, claims. A stop of either
side loses `call`, `work` and `upload` and nothing else. Salts, digests and
documents are data; of the deadlines only the approval's and the reservation's are
modelled.

`listed` are the job directories that a pass takes: the first `MaxEntries`, 128 in
the code, in the order in which the file system returns them, jobs that have ended
included and none ever removed. A directory exists from `MakeDirectory` on, its
request later. `cut` are the jobs that a stop cut off between the project's record
of the publication and `completed.json` (history).

Left out of `Publication`: an unsafe entry ends a whole pass
(`network_commands.rs:1690-1698`), but nothing the program writes is such an entry.
An artifact's `.partial` file is opened exclusively (`registry.ts:823-824, 1667`),
so a retry beside an upload that is still under way, or after a registry stop during
one, is refused and fails the job, where the model's retry succeeds; collection
removes that file (`:2269`), so a late upload writes its record back only if it has
passed the rename (`:830`), and the model allows it a little longer. The blobs of a
job are staged in one step, whose integrity error (`:383-384`) and the RPC errors of
`advance` (`:424-427`), which fail a job for good, are not actions. The awaits of
the publish route between the reservation's check and the job's file (`:871-899`)
are one step. `POST staging/:id/finalize` (`:848-866`), a second caller of
`finalizeStaging`, which the Mac never calls, is not modelled.

## 3. What is checked

| Run | Instance | Shows |
|---|---|---|
| `command_journal` | 2 callers, 2 identifiers, 2 requests, capacity 2, 1 crash | admissions never disagree with the journal, outcomes are explained, published data is stable |
| `execution_supervised` | 2 runners, 2 supervisors, 2 faults among runner, service, Mac and a failing wait, a device wait, a competitor for the lease | the lease covers harness and gates, but for the repair after a failed wait; records and event journal agree with each other and with the ledger when all is quiet; a final execution has no live harness; `ShotExecution` implements `ExecutionPromise`, its fairness included: every execution gets its one outcome |
| `execution_cancel` | 2 runners also started by hand, a supervisor, a canceller, a failing step, an unreadable ledger or a failed verification | one process tree; completed means accepted, under every interference short of a kill |
| `commands_serial` | 2 commands one after another, 3 stops, failing calls and cancels | a completed command landed its own instruction on its exact base; every admitted command is answered, unless an interrupted preparation blocks the Shot |
| `commands_overlap` | 2 overlapping commands, 2 stops, failing calls and cancels, monitors that give up | answers agree with execution records that no cancel wrote over; no instruction lands twice unless it was left pending |
| `version_ledger` | 2 recorders, a reader and retirer, 2 contents, 2 Versions, 1 death | a completed Version is what was signed, stays, and becomes the head |
| `version_ledger_interrupted_attempt` | the same | expected violation, see below |
| `companion_sync` | 1 evolving command with a reference, 1 change, 1 session polled by loop and Studio, window 1, 2 sends, 2 mailboxes, 1 revocation, 1 fault | acknowledged means answered; receipts are true; references outlive their use; one grant per session; commands are answered and changes arrive |
| `living_project` | 1 evolution, 2 tasks, 1 installation attempt, 1 retry pass, 1 re-adoption, 1 stop | one harness run; statuses earned; evolutions leave the queue |
| `node_sync` | 2 nodes, 5 actions of 2 Shots with a fork, an unauthorized action and a foreign predecessor, limit 3, 1 fault | verdicts equal a rebuild's and are final; acknowledged actions stay; the puller catches up |
| `shot_registry` | 2 accounts, 2 keys, 1 wallet, 1 Shot, 2 heads, an edition of 1 receipt or one that closes at 2, time 0..2 | governable accounts with true counters; no stale recovery; receipts agree, within supply and closing time; no signature counts twice |
| `publication` | 2 deploys, 2 artifacts, capacity 2, 2 entries a pass, 1 deadline, 1 fault | bytes before chain; public means backed; one sponsored upload; approved jobs settle |

The type invariants of the newer modules are the first conjunct of their first
invariant; that of `CommandJournal` is only proved (section 4).

Bounds. Two runners suffice for every race that the claim and the PID file decide,
since a third one meets the same file contents as the second; process identities are
reused as soon as no file or lock names them, so executions with many restarts are
included. `MaxRuns` is one more than the promise allows, so that exceeding it is
possible; `execution_cancel`, whose properties do not count passes, has `MaxRuns =
1`. `MaxFaults = 2` allows a fault during the recovery from a fault. Two commands
are enough for an overwrite and for two active executions, and two serial ones for a
second command that meets the torn preparation, the cancel or the leftover prompt of
the first. Three faults allow a stop, a failing call and a cancel in one behaviour.
In `version_ledger` two Versions let a stale record hide a complete one. In
`companion_sync` a command with a reference already needs two envelopes, one more
than the window remembers, and the second mailbox is that of a pairing after a
revocation. `node_sync`'s limit is below the number of actions of Shot 1, so that
files a scan leaves out exist. An edition of one receipt has fewer than there are
claimants, so the supply is what refuses the second claim. `publication`'s second
job is the competitor for the project, the subsidy and the capacity.
`shot_registry`'s clock is three ticks long, with delay and commitment age of one
tick, so each deadline is met before, at and after its time; account 1 signs two
administrative actions, account 2 none. Symmetry is used only in runs without
temporal properties under fairness. `execution_cancel` also uses a VIEW that leaves
out what a process read of the record, and its pass count, where its next use
overwrites them first.

The check for an active execution is not atomic with the creation of one
(`shot_execution.rs:352`): `commands_overlap` contains the states in which two
executions of a Shot are active, and its two properties hold there.

Deadlock is not checked where the system may stop: when all bounds are used up and
everything is final or answered. Liveness properties replace it, except in
`shot_registry`, whose chain may simply be left alone.

### Fairness

`ShotExecution`: running processes take steps; a harness ends, because
`execute_harness` stops a silent one and one that has spent its budget; the monitor
loop ticks every second, so supervisors are weakly fair; other executions give the
lease back; the phone is eventually connected (`wait_for_device` waits without
limit, and without the phone an execution waits, as intended). `Claim` is strongly
fair: a probe holds the claim for an instant of each second, so a runner that starts
again and again is not unlucky for ever. Faults and device losses are finitely many.
`ShotCommands`: handlers, runners and monitors keep running; `Retry` is fair because
`recover_commands` replays every nonterminal command when the service starts; the
disjunction of acceptance and refusal is strongly fair, which excludes only a phone
that disappears at every attempt. `CompanionSync`: the reconciliation task ticks
every two seconds and goes on with what it has begun; it is never kept from loading
the device for ever by pairings that come and go (strong fairness of `LoadDevice`).
Nothing forces the phone, the owner or the relay. `VersionLedger`: a load or an
abort that has begun goes on, and the service reads every workspace at each tick
(`BeginRead`, strongly fair because other reads by the same process disable it).
Nobody is forced to record or to retire. `LivingProject`: a sender without an answer
repeats; tasks and the loop go on; a starting service recovers; the task lock is a
tokio mutex, which is FIFO, hence strong fairness of `TakeLock`. `NodeSync`: a pull
that has begun goes on, and the operator keeps asking for pulls. `Publication`:
loop, routes, registry queue and chain go on; nothing forces a deploy or an
approval.

### Disagreements found

`version_ledger_interrupted_attempt` is a run that TLC must find violated:
`record_accepted_materialization` appends the signed Version to the lineage before
`finalize_evolution` publishes `.complete`. A recorder that dies in between leaves
one Version more in the lineage than in the ledger; the next attempt reserves the
same number, and `prepare_materialization_lineage_input` refuses it because the
lineage expects the next one. `ledger.rs:501` says that an interrupted attempt is
preserved "without allowing it to consume the next protocol sequence number".

Seven more statements of the repository do not hold. Each is a property of its
module, stated without an exception, and a configuration for which TLC prints the
counterexample; these are demonstrations and not runs of `PROJECT.json`.

| Configuration (module) | Property | What happens, and what the repository says |
|---|---|---|
| `ShotExecution_repair_after_failed_wait` (`MCShotExecution`) | `LeaseBeforeExpensiveWork` | The lease is dropped for the wait for the phone, and an error of that wait whose text reads like a build error (`execution_manager.rs:1309-1315`) leads to a repair by the harness without the lease. `factory_lease.rs:9-11`: a runner "takes the lease before it invokes a coding harness, Xcode, or the deterministic gates". |
| `ShotExecution_missing_event` (`MCShotExecution`) | `FinalEventArrives` | A runner that is killed between the final `execution.json` and the final event leaves a final phase, which `runner_recovery_disposition` only observes. `execution_manager.rs:844-846`: repeating the update "repairs precisely that crash window"; it is repeated after an error, never after a crash. |
| `ShotCommands_interrupted_preparation` (`MCShotCommands`) | `EveryCommandSettles` | A stop or an error between directory and record of an execution (`shot_execution.rs:355-383`) strands its command in `accepted`, since every replay fails on the directory. `docs/GOLDEN_PATH.md:247-249`: recovery "replays pre-running states". |
| `ShotCommands_late_cancel` (`MCShotCommands`) | `FinalRecordIsImmutable` | `cancel` looks for a completion, then writes its own over the one that the monitor has written meanwhile. `shot_execution.rs:645`: "final execution records are immutable". |
| `CompanionSync_retry_after_execution` (`MCCompanionSync`) | `RejectedIsNotExecuted` | The service stops after `evolve_shot` and before its result is recorded, the Version lands, and the repeated command is rejected for its base although it executed. `docs/GOLDEN_PATH.md:210-211`: a stale base "is rejected without execution". |
| `Publication_overlooked` (`MCPublication`) | `EveryJobSettles` | With more job directories than a pass takes, 128 in the code, an approved publication may be advanced by no pass. `network_commands.rs:1668`: "Advance every locally approved publication". |
| `Publication_restart` (`MCPublication`) | `PublishedCompletes` | A stop of the Mac between the project's record of a publication and `completed.json` ends it as failed, since the next pass repeats what has been done and is refused. `network_commands.rs:1106`: "The durable request will resume safely after a restart." |

The passing properties state the exception that such a counterexample shows, and no
wider one: `LeaseCoversExpensiveWork` (the second pass of a runner whose wait
failed), `RecordsAgree` (no final event after a fault, never another one),
`CommandSettles` (a command without a record on a blocked Shot, or after a racing
cancel), `OutcomesAgree` (the cancelled execution itself), `LandsOnce` (a prompt
left pending behind its seal), `ReceiptsAreTrue` (an unrecorded command with a stale
base), `JobsSettle` (an overlooked job, or one that was cut off). The passes of
`publication` take every directory; `Publication_overflow` checks `JobsSettle` with
a pass of one entry and passes as well.

The models contain the following behaviours as well; the properties are stated so
that they hold beside them, and the exceptions in the properties are these.

* `cancel` may also finalize while the harness of a dead runner lives on beside the
  next execution, or while a new runner starts.
* The error of clearing a consumed prompt is only reported (`machine.rs:3135-3142`),
  and a runner may die before it: the instruction is pending again and the next
  recording may seal it a second time.
* After a launcher dies between spawn and PID file two runners are alive; the one
  the PID file does not name takes the claim first, is refused with an ordinary
  error and finalizes the other one's execution (fault `handover`). A suspended
  supervisor restarts a final execution (fault `preempt`).
  `finalize_stalled_execution` takes an unreadable ledger for no acceptance, so an
  accepted Version may end as a failed execution (fault `ledger`), and a failed step
  of `run_shot` finalizes while its harness lives (fault `io`).
* A second evolution command stages its instruction over the first one's before it
  is refused. The directory without a record that blocks the Shot blocks its later
  commands too.
* The reconciliation loop stores the device record it loaded, with a new cursor,
  over a revocation that happened meanwhile (`companion_service.rs:1126`), although
  `docs/THREAT_MODEL.md` asks a revoked phone for a new pairing session.
* A pairing session that is resumed after another one was paired gets a second
  mailbox and capability, because `finish_pairing` compares it with the one device
  record only (`companion_service.rs:705`). The proof of `OneGrantPerSession` found
  this: as first stated it did not follow.
* A repeated command may start a second task, which fails an evolution whose
  verified build waits for the phone; `docs/LIVING_CONNECTION.md:125-126` says that
  it "is retained and retried without rerunning the harness". A re-adoption may
  write an older link over the one of a new evolution, which recovery after a stop
  then overlooks.
* One action that the store refuses ends a pull, and every later pull at the same
  place; `node/README.md:57-60` says that "a receiver fetches advertised bytes and
  derives its own result".
* A folder that is edited between its comparison and the checkout of the sealed
  source loses the edit (`machine.rs:2825`).
* Publication: a completed job polled again after a lost answer, or after a stop
  between cleanup and the save of `complete`, is answered 409 and saved as failed
  (`registry.ts:374`). A stop of the registry after it sent the registration and
  before it saved the job fails a job whose Shot is registered. A failed job keeps
  the Builder's single subsidy. Since a sponsored registration needs nonce 0 and
  Updates are answered 402, a Builder's second Ship and the checkpoint branch
  (`registry.ts:1249`) are out of reach today.

## 4. What is proved

Every theorem holds for every set of processes, commands, requests, actions,
accounts or jobs and for every bound. Most are of the form `Spec => []Inv`; three
are action properties (`PublicationIsStable`, `VerdictsStay`,
`SignedActionsApplyOnce`), one is a refinement (`KeepsPromise`). Five of them carry
hypotheses on the constants, which are stated with them and below.

What they assume otherwise are the named `ASSUME`s of the modules, which TLC
evaluates on every run: bounds are naturals, identity sets are disjoint, the value
for "absent" is none of the values it stands beside (recorders, contents, command
states, device records, results, files of a job, answers), at least one receipt
exists and some reason differs from the one of a monitor that gave up, the tasks of
a living project are not its loop or its adopter. `NodeSync` assumes of the lineage
what digests guarantee: ancestry is finite and transitive, and a public action's
sequence is positive.

An invariant that a run checks is seldom inductive. What each proof adds:

* `CompanionJournalProofs`, the journal: `JournalTypeCorrect`,
  `AdmissionIsUnambiguous`, `OutcomesAreExplained`, `PublicationIsStable`. A caller
  inside an admission has a target and a request, and a collided caller's target is
  published. Without it nothing says what the rename publishes.
* `CompanionJournalProofs`, the companion: `SyncIsInvariant` and from it
  `AcknowledgedAreAnswered`, `ReceiptsTellTheTruth`, `AdmittedReferencesStay`,
  `SessionsGrantOnce`, for any number of sessions, mailboxes, envelopes, faults and
  revocations. The device record exists in several copies (the file, the loop's, a
  pairing's), any of which may be stored over the others; `CopiesFit` says of every
  copy, stale ones included, that its mailbox exists and that everything below its
  cursor is settled. Mailboxes, their items and the receipts only grow, so what a
  stale copy says stays true: this is why storing the record whole cannot lose an
  answer, although it can undo a revocation. `BoxesFit` says the same of the relay's
  acknowledgements, `Named` that every capability in use was granted, `PairingFits`
  that only the first grant finds no device. `LoopFits` and `StepsAreDurable` say
  what is on disk at each step of an envelope: no result of a command before
  `RecordProcessed`, one from then on, and never a chunk's (without this last part
  the invariant is not inductive, since the result of an answered chunk would be
  taken for its command's). `BlobsWait`: the reference of an executed command waits
  until its result is recorded. `DoneIsApplied` and `RejectedIsRecorded` follow a
  result from the application to the receipt; the second one holds in one pairing
  without revocation, where a recorded rejection excludes an execution but that of
  an `Excused` command, unrecorded and stale. `ExecutionsAreFollowed` is what makes
  this inductive: an execution that the loop is not about to record has its record,
  or is one of the unrecorded.
* `ShotExecutionProofs`, under every interference: `TypeCorrect` needs that a
  process on its way to a completion record has chosen an outcome, else `completion`
  could become absent again. `ClaimExcludes` needs `ClaimIsLock`: a working runner
  has its descriptor open and only a working or completing one has, an open
  descriptor (its own or the one its harness inherited) means the claim is its own,
  and a probing supervisor holds the claim; mutual exclusion alone is not inductive,
  because the orphaned harness keeps the claim after its runner is gone.
  `LeaseCovers` needs that a runner before its first lease does not hold it, and
  that only a runner whose wait failed and which is in its second pass works without
  it. `CompletionIsHonest` needs that whoever carries the verdict completed has seen
  an accepted Version, since judging and writing are separate steps.
* `ShotExecutionProofs`, for `Supervised` executions: no canceller, no run by hand,
  and any number of dying runners, supervisors and Macs, of failing steps of runners
  and of failing waits for the phone, but no suspended supervisor, no death during
  hand-over, no ledger that is unreadable when a stalled execution is finalized and
  no accepted Version that fails its verification (section 3 tells what happens with
  those): `FilesAgree`, `KeepsPromise`. A step of `run_shot` that fails beside a
  live harness finalizes the execution at once, so `FinalIsQuiet` has the further
  hypothesis `StepsSucceed`. The invariant has six parts. `Launching`: whoever
  supervises holds `runner.lock`, a live runner is in `runner.pid` or in the hands
  of its launcher, and a supervisor that goes on without a live runner is right
  about that. From it follows that one process moves at a time (`OneRunner`,
  `OneSupervisor`), so the other parts are about that process only: `Reading` (the
  phase it has read is still the phase), `Driving` (nothing is accepted or completed
  while a runner works; its passes are the execution's unless it resumed a delivery,
  which is why a resumed delivery gets no second repair), `Finishing` (who completes
  judges as the ledger does, and no completion exists yet). `Telling` says what the
  files imply about passes, Version and outcome. `Journalled` says that the event
  journal is open until the final phase is written and tells that phase afterwards,
  or is open still because a fault came between. The refinement then maps
  `SpawnHarness` to a pass, `GatesAccept` to the acceptance, `PublishCompletion` to
  the decision, and every other step to a stutter.
* `ShotCommandsProofs`, however commands overlap: `TypeCorrect`, `AnswersAgree`,
  `InstructionsLandOnce`. The first invariant says how far the preparation of a
  command's execution is at each step of its handler, that only an execution in
  flight has a runner and only a command with a receipt a monitor.
  `CompletionFollowsRecord` ties `completion.json` to the record, and excepts what a
  racing cancel wrote over. `HandlersKnow` adds what the app lock gives: a recorder
  has read the instruction that is pending, and while an instruction is staged the
  base is the latest Version. `Landing` says why an instruction cannot come back: a
  landed one belongs to a Version after the base of its command, a pending one has
  not landed or was left over behind its seal.
* `ShotCommandsProofs`, when commands come one after another and no monitor gives up
  (`Overlap = FALSE`, `MonitorErrors = FALSE`; interrupted preparations are
  included, and both properties are about behaviours without a racing cancel):
  `BasesAreExact`, `CompletionsAreOwn`. `InTurn` says that one command is open, only
  its execution is active, and that this execution's instruction is pending on its
  base or has just landed. Without the hypotheses both properties are false: a
  second command stages over the first one's instruction.
* `VersionLedgerProofs`: `VersionsAreSigned`, `VersionsStay`. What a recorder
  between its steps knows of the lock, its number, the directory and the lineage.
  For `VersionsStay` the invariant adds that the complete Versions are the first
  ones and that the head is at most two behind (one Version left out by a stored
  record, one by a marker without a head). Each load makes good one missing Version,
  and the recorder's second load, under the lock, comes before it reserves a number,
  so no complete Version is reserved again.
* `LivingProjectProofs`: `EditsOnce`, `StatusesAreEarned`. A part of the invariant
  for each stage of a process (starting, editing, delivering, reporting): the copies
  of a record a process has read and the updates it still has to write must be
  earned as well as the record itself, and between the harness start and the signed
  app only that task and failures write.
* `NodeSyncProofs`: `VerdictsAreRebuilt`, `AcknowledgementsStay`, `VerdictsStay`.
  The lemmas show that a verdict depends only on the present ancestors, that it is
  final once all are there, and that `Reclassify` revisits everything an arrival can
  change.
* `ShotRegistryProofs`: `Governable`, `RecoveriesAreCurrent`, `ReceiptsAgree`,
  `SignedActionsApplyOnce`. The counters of devices and administrators are the
  cardinalities they stand for; epochs and nonces only grow, and what was spent is
  below them. A receipt's time is before the closing of its edition because the
  clock has not passed it when the receipt is given and a policy never changes.
* `PublicationProofs`: `OneIsSponsored`, `ReleasesAreBacked`, `BytesComeFirst`. Nine
  parts, one for each place a job's progress is remembered: the Mac's plan and
  memory, the request under way, the registry's bytes, its reservation, the
  transactions and their order, the catalogue, the operation in the queue and the
  poll.

Each proof has one step per action or per group of actions that leave alone what the
conjunct is about. Each invariant was checked with TLC on the run of its module
before it was proved.

Model-checked only: all liveness (`CommandSettles`, `HeadCatchesUp`,
`CommandsAreAnswered`, `ChangesReachPhone`, `LeavesQueue`, `PeersCatchUp`,
`JobsSettle`, and the fairness of `FulfilsPromise`, whose safety part is
`KeepsPromise`), which is out of the prover's reach; and the expected violation.

## 5. What is not modelled

Listed component by component in `PROJECT.json`. In the modelled parts: file
permissions and symlink checks (they refuse, never change state), the contents of
prompts, logs and evidence, budgets as numbers (a harness may end at any time), the
entitlement guard, the engine gates, which accept or refuse, signatures, encryption
and encodings, and the activation and deployment scripts of the contracts.
`IdempotencyJournal` and `CursorJournal` of `companion/src/journal.rs` are
constructed by no code outside their own tests; the coordinator's own files, which
do their work, are modelled. Several phones, several Builders in one registry and a
node whose root is shared with a command line are out of the instances' reach. User
interfaces, static sites, document validation and code generation keep no protocol
state and are most of the repository's lines.

## 6. Plan

Done: journal, executions, evolution commands, ledger, companion, living projects,
nodes, contracts, publication. Next, in this order:

1. The other commands of the application service (create, feedback, marketing)
   composed with `CommandStatus`, and the entitlement guard.
2. Birth over the cable and device readiness (`cli/src`), receive jobs of the
   network.
3. The reduction of single payloads (`protocol/src/lineage.rs`) as a pure function
   against a reference definition.

All safety properties are proved; what can still be weakened are the hypotheses of
the five conditional theorems, where the exceptions are those of section 3.

## 7. Running it

In this directory: `tlc -workers 2 -config <run>.cfg <MC module>` for a run and
`tlapm <module>.tla` for each module of proofs; `PROJECT.json` names module and
configuration of each run.
