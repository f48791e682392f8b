--------------------------- MODULE CommandJournal ---------------------------
(***************************************************************************)
(* The durable command journal of the application service                  *)
(* (application/src/journal.rs).  Several callers - threads of the local   *)
(* service and separate CLI processes share one directory - admit commands *)
(* and publish their statuses.                                             *)
(*                                                                         *)
(* An admission looks the command directory up, counts the directory's     *)
(* entries against the capacity, writes a private staging directory and    *)
(* renames it into place; each is a step of its own because nothing locks  *)
(* the journal between them.  A status transition holds the command's      *)
(* status lock from its load to its atomic replacement, so it is one step. *)
(***************************************************************************)
EXTENDS CommandStatus, Integers, FiniteSets

CONSTANTS
    Requests,           \* identity tuple, payload bytes and private inputs
    Callers,            \* concurrent users of the journal
    MAXIMUM_COMMANDS,   \* capacity of the directory (100 000 in the code)
    MaxCrashes          \* bound: callers that die during an admission

ASSUME JournalAssumption ==
    /\ None \notin Requests
    /\ None \notin Statuses
    /\ MAXIMUM_COMMANDS \in Nat \ {0}
    /\ MaxCrashes \in Nat

VARIABLES
    request,    \* request[c]: what command c was published with, or None
    status,     \* status[c]: its status.json, or None
    step,       \* step[p]: where caller p is in its admission
    target,     \* target[p]: the command identifier p admits
    offered,    \* offered[p]: the request p admits it with
    crashes     \* staging directories abandoned by a crash

journalVars == <<request, status, step, target, offered, crashes>>
journal == <<request, status>>
callers == <<step, target, offered>>

\* The outcomes of an admission; conflict and full are errors.
Returned == {"created", "existing", "conflict", "full"}

Steps == {"idle", "absent", "counted", "staged", "collided"} \cup Returned

Published == {c \in Commands : request[c] # None}

InStep(names) == {p \in Callers : step[p] \in names}

\* Everything read_dir counts: published commands and staging directories,
\* the abandoned ones too.
DirectoryCount ==
    Cardinality(Published) + Cardinality(InStep({"staged", "collided"}))
        + crashes

\* Mutant: the identifier alone decides.
ReadExistingById(c, r) == "existing"

\* read_existing: an equal request finds the published command, any other
\* request under the same identifier is a conflict.
ReadExisting(c, r) == IF request[c] = r THEN "existing" ELSE "conflict"

-----------------------------------------------------------------------------
JournalInit ==
    /\ request = [c \in Commands |-> None]
    /\ status = [c \in Commands |-> None]
    /\ step = [p \in Callers |-> "idle"]
    /\ target = [p \in Callers |-> None]
    /\ offered = [p \in Callers |-> None]
    /\ crashes = 0

\* admit_with_files up to its first look at the final directory.
Admit(p, c, r) ==
    /\ step[p] \in {"idle"} \cup Returned
    /\ step' = [step EXCEPT ![p] =
            IF request[c] = None THEN "absent" ELSE ReadExisting(c, r)]
    /\ target' = [target EXCEPT ![p] = c]
    /\ offered' = [offered EXCEPT ![p] = r]
    /\ UNCHANGED <<journal, crashes>>

\* The capacity check, made before the staging directory exists.
CheckCapacity(p) ==
    /\ step[p] = "absent"
    /\ step' = [step EXCEPT ![p] =
            IF DirectoryCount >= MAXIMUM_COMMANDS THEN "full" ELSE "counted"]
    /\ UNCHANGED <<journal, target, offered, crashes>>

\* request.json, payload.json, inputs/ and status.json, still unpublished.
WriteStaging(p) ==
    /\ step[p] = "counted"
    /\ step' = [step EXCEPT ![p] = "staged"]
    /\ UNCHANGED <<journal, target, offered, crashes>>

\* Mutant: the rename replaces a command that is already there.
PublishOver(p) ==
    /\ step[p] = "staged"
    /\ request' = [request EXCEPT ![target[p]] = offered[p]]
    /\ status' = [status EXCEPT ![target[p]] = InitialStatus]
    /\ step' = [step EXCEPT ![p] = "created"]
    /\ UNCHANGED <<target, offered, crashes>>

\* The rename publishes request, payload, inputs and status at once.
Publish(p) ==
    /\ step[p] = "staged"
    /\ request[target[p]] = None
    /\ request' = [request EXCEPT ![target[p]] = offered[p]]
    /\ status' = [status EXCEPT ![target[p]] = InitialStatus]
    /\ step' = [step EXCEPT ![p] = "created"]
    /\ UNCHANGED <<target, offered, crashes>>

\* The rename fails: another caller published the same identifier first.
Collide(p) ==
    /\ step[p] = "staged"
    /\ request[target[p]] # None
    /\ step' = [step EXCEPT ![p] = "collided"]
    /\ UNCHANGED <<journal, target, offered, crashes>>

\* After a collision the caller removes its own staging directory and takes
\* the full idempotency path.
RecheckCollision(p) ==
    /\ step[p] = "collided"
    /\ step' = [step EXCEPT ![p] = ReadExisting(target[p], offered[p])]
    /\ UNCHANGED <<journal, target, offered, crashes>>

\* transition under the status lock; a refused transition changes nothing.
Transition(c, next, receipt, reason) ==
    /\ status[c] # None
    /\ TransitionAllowed(status[c], next, receipt, reason)
    /\ status' = [status EXCEPT ![c] =
            NextStatus(status[c], next, receipt, reason)]
    /\ UNCHANGED <<request, callers, crashes>>

\* A caller dies during an admission; only a staging directory outlives it.
CrashAdmitting(p) ==
    /\ crashes < MaxCrashes
    /\ step[p] \in {"absent", "counted", "staged", "collided"}
    /\ step' = [step EXCEPT ![p] = "idle"]
    /\ crashes' = IF step[p] \in {"staged", "collided"}
                  THEN crashes + 1 ELSE crashes
    /\ UNCHANGED <<journal, target, offered>>

JournalNext ==
    \/ \E p \in Callers :
        \/ \E c \in Commands, r \in Requests : Admit(p, c, r)
        \/ CheckCapacity(p)
        \/ WriteStaging(p)
        \/ Publish(p)
        \/ Collide(p)
        \/ RecheckCollision(p)
        \/ CrashAdmitting(p)
    \/ \E c \in Commands, next \in CommandStates,
          receipt \in Receipts \cup {None}, reason \in Reasons \cup {None} :
        Transition(c, next, receipt, reason)

JournalSpec == JournalInit /\ [][JournalNext]_journalVars

-----------------------------------------------------------------------------
\* The variables hold values of the journal's files and of admit_with_files.
JournalTypeOK ==
    /\ request \in [Commands -> Requests \cup {None}]
    /\ status \in [Commands -> Statuses \cup {None}]
    /\ step \in [Callers -> Steps]
    /\ target \in [Callers -> Commands \cup {None}]
    /\ offered \in [Callers -> Requests \cup {None}]
    /\ crashes \in Nat

\* Every caller told that its command was admitted, whichever path of
\* admit_with_files told it so, is told about the request the journal really
\* holds: two racing admissions of one identifier with different requests
\* never both succeed.
AdmittedRequestIsPublished ==
    \A p \in InStep({"created", "existing"}) :
        /\ target[p] \in Published
        /\ request[target[p]] = offered[p]

\* A published status is never left unexplained by transition: a completed
\* command carries its receipt and a rejected one its reason, whatever
\* sequence of transitions led there.
OutcomeIsExplained ==
    \A c \in Published :
        /\ status[c] # None
        /\ status[c].state = "completed" => status[c].receipt # None
        /\ status[c].state = "rejected" => status[c].reason # None

\* A command is published once: its request never changes afterwards, its
\* receipt once published never changes, and a terminal status is final.
StableStep ==
    \A c \in Commands : c \in Published =>
        /\ request'[c] = request[c]
        /\ status[c].receipt # None => status'[c].receipt = status[c].receipt
        /\ Terminal(status[c].state) => status'[c] = status[c]

PublishedIsStable == [][StableStep]_journalVars

=============================================================================
