---------------------------- MODULE VersionLedger ----------------------------
(***************************************************************************)
(* The Versions of one Shot on disk (engine/src/ledger.rs) and the engine's *)
(* recording of a new one (engine/src/machine.rs, shot_layout.rs): reserve  *)
(* a directory, snapshot the working tree, append the signed acceptance to  *)
(* the lineage, publish `.complete`, move the head in app.toml.             *)
(*                                                                         *)
(* Recorders hold the app lock.  Outsiders do not: every reader's load_app  *)
(* may replay a head, and retire_shot and restore_shot store a record they  *)
(* loaded.  Processes die at any step, the kernel drops their lock and another   *)
(* process takes their place.                                              *)
(***************************************************************************)
EXTENDS Integers, Sequences, FiniteSets

CONSTANTS
    None,
    Recorders,      \* processes that record a Version
    Outsiders,      \* processes that load or retire without the app lock
    Contents,       \* what the working tree can hold
    MaxVersions,    \* bound on the sequence of Versions
    MaxCrashes      \* bound on the deaths of processes

ASSUME ConstantsAssumption ==
    /\ MaxVersions \in Nat /\ MaxCrashes \in Nat
    /\ None \notin Recorders \cup Outsiders \cup Contents
    /\ Recorders \cap Outsiders = {}

VARIABLES
    head,       \* app.toml: its latest_evolution
    dir,        \* evolutions/<n>: "absent", "open", or "complete"
    content,    \* evolutions/<n>/src
    lineage,    \* lineage: the accepted source of each Version action
    working,    \* the folder the owner edits
    lock,       \* holder of the app lock
    proc,       \* the processes
    \* bounds and history
    crashes, sealed, behind

disk == <<head, dir, content, lineage, working>>
history == <<sealed, behind>>
vars == <<disk, lock, proc, crashes, history>>

Processes == Recorders \cup Outsiders
Numbers == 1 .. MaxVersions
Heads == 0 .. MaxVersions

Steps == {"idle", "loading", "recovering", "comparing", "reserving", "parenting",
          "snapshotting", "accepting", "appending", "finalizing", "marking",
          "heading", "restoring", "aligning", "checkout", "retiring", "seen"}
Idle == [step |-> "idle", then |-> "idle", rec |-> 0, number |-> 0,
         previous |-> 0, digest |-> None]

\* create_app
Init ==
    /\ head = 0
    /\ dir = [n \in Numbers |-> "absent"]
    /\ content = [n \in Numbers |-> None]
    /\ lineage = <<>>
    /\ working \in Contents
    /\ lock = None
    /\ proc = [p \in Processes |-> Idle]
    /\ crashes = 0
    /\ sealed = [n \in Numbers |-> None]
    /\ behind = 0

At(p, step) == proc[p].step = step
\* A step that is done with the record it loaded, and the start of load_app.
Goto(p, step) ==
    proc' = [proc EXCEPT ![p].step = step, ![p].then = "idle", ![p].rec = 0]
Load(p, then) ==
    [proc EXCEPT ![p].step = "loading", ![p].then = then, ![p].rec = 0]

\* has_valid_completion_marker
Complete(n) == n \in Numbers /\ dir[n] = "complete"

\* write_record replaces app.toml as a whole by rename; its retirement flag and
\* its table of parents are data.  The history keeps how many
\* completed Versions a stored head ever left out.
Top == Cardinality({n \in Numbers : dir[n] = "complete"})
WriteRecord(r) ==
    /\ head' = r
    /\ behind' = IF Top - r > behind THEN Top - r ELSE behind

-----------------------------------------------------------------------------
(* load_app *)

\* Mutant: the marker after the head is not looked for.
ReadRecordPlain(p) ==
    /\ At(p, "loading")
    /\ head = 0 \/ Complete(head)
    /\ proc' = [proc EXCEPT ![p].rec = head, ![p].step = proc[p].then]
    /\ UNCHANGED <<disk, lock, crashes, history>>

\* The head must be complete.  A complete directory after it is replayed.
ReadRecord(p) ==
    /\ At(p, "loading")
    /\ head = 0 \/ Complete(head)
    /\ proc' = [proc EXCEPT ![p].rec = head,
                            ![p].step = IF Complete(head + 1)
                                        THEN "recovering" ELSE proc[p].then]
    /\ UNCHANGED <<disk, lock, crashes, history>>

\* Mutant: the replayed head is returned, not stored.
RecoverHeadInMemory(p) ==
    /\ At(p, "recovering")
    /\ proc' = [proc EXCEPT ![p].rec = @ + 1, ![p].step = proc[p].then]
    /\ UNCHANGED <<disk, lock, crashes, history>>

\* recover_interrupted_finalization: one Version, never more.
RecoverHead(p) ==
    LET r == proc[p].rec + 1
    IN  /\ At(p, "recovering")
        /\ WriteRecord(r)
        /\ proc' = [proc EXCEPT ![p].rec = r, ![p].step = proc[p].then]
        /\ UNCHANGED <<dir, content, lineage, working, lock, crashes,
                       sealed>>

-----------------------------------------------------------------------------
(* record, record_locked *)

LockApp(p) ==
    /\ p \in Recorders /\ At(p, "idle") /\ lock = None
    /\ lock' = p
    /\ proc' = Load(p, "comparing")
    /\ UNCHANGED <<disk, crashes, history>>

\* The head's Version is compared with the folder: nothing new, or the digest
\* of the folder is taken and a directory reserved.
CompareTree(p) ==
    LET n == proc[p].rec
        unchanged == n \in Numbers /\ content[n] = working
    IN  /\ At(p, "comparing")
        /\ \/ /\ unchanged
              /\ lock' = None
              /\ proc' = [proc EXCEPT ![p] = Idle]
           \/ /\ ~unchanged
              /\ proc' = [Load(p, "reserving") EXCEPT ![p].previous = n,
                                                      ![p].digest = working]
              /\ UNCHANGED lock
        /\ UNCHANGED <<disk, crashes, history>>

\* reserve_with_directories: whatever stands at the next number is moved to
\* incomplete/, which nothing reads.
Reserve(p) ==
    LET n == proc[p].rec + 1
    IN  /\ At(p, "reserving") /\ n \in Numbers
        /\ dir' = [dir EXCEPT ![n] = "open"]
        /\ content' = [content EXCEPT ![n] = None]
        /\ proc' = [proc EXCEPT ![p].number = n, ![p].step = "parenting"]
        /\ UNCHANGED <<head, lineage, working, lock, crashes, history>>

WriteParent(p) ==
    /\ At(p, "parenting")
    /\ \/ /\ proc[p].previous = 0 /\ UNCHANGED <<head, behind>>
       \/ /\ proc[p].previous # 0
          /\ WriteRecord(proc[p].rec)
    /\ proc' = [proc EXCEPT ![p].step = "snapshotting", ![p].rec = 0,
                            ![p].previous = 0, ![p].then = "idle"]
    /\ UNCHANGED <<dir, content, lineage, working, lock, crashes,
                   sealed>>

\* assert_writable: no marker may be there yet.
Writable(p) == dir[proc[p].number] = "open"

Snapshot(p) ==
    /\ At(p, "snapshotting") /\ Writable(p)
    /\ content' = [content EXCEPT ![proc[p].number] = working]
    /\ Goto(p, "accepting")
    /\ UNCHANGED <<head, dir, lineage, working, lock, crashes, history>>

\* prepare_materialization_lineage_input: the next ordinal of the lineage must
\* be this directory's number.  Then the build and the gates accept.
GatesAccept(p) ==
    /\ At(p, "accepting") /\ Len(lineage) + 1 = proc[p].number
    /\ Goto(p, "appending")
    /\ UNCHANGED <<disk, lock, crashes, history>>

\* Mutant: the folder is hashed again instead of the snapshot.
AppendLineageOfFolder(p) ==
    /\ At(p, "appending") /\ Len(lineage) + 1 = proc[p].number
    /\ lineage' = Append(lineage, working)
    /\ Goto(p, "finalizing")
    /\ UNCHANGED <<head, dir, content, working, lock, crashes, history>>

\* record_accepted_materialization: verification, Version and Evolution are
\* one batch.
AppendLineage(p) ==
    /\ At(p, "appending") /\ Len(lineage) + 1 = proc[p].number
    /\ lineage' = Append(lineage, content[proc[p].number])
    /\ Goto(p, "finalizing")
    /\ UNCHANGED <<head, dir, content, working, lock, crashes, history>>

\* finalize_evolution: load, compare the sequence, mark, move the head.
Finalize(p) ==
    /\ At(p, "finalizing") /\ Writable(p)
    /\ proc' = Load(p, "marking")
    /\ UNCHANGED <<disk, lock, crashes, history>>

PublishMarker(p) ==
    LET n == proc[p].number
    IN  /\ At(p, "marking") /\ Writable(p) /\ proc[p].rec + 1 = n
        /\ dir' = [dir EXCEPT ![n] = "complete"]
        /\ sealed' = [sealed EXCEPT ![n] = content[n]]
        /\ Goto(p, "heading")
        /\ UNCHANGED <<head, content, lineage, working, lock, crashes,
                       behind>>

MoveHead(p) ==
    /\ At(p, "heading")
    /\ WriteRecord(proc[p].number)
    /\ proc' = Load(p, "restoring")
    /\ UNCHANGED <<dir, content, lineage, working, lock, crashes,
                   sealed>>

\* set_retired(false)
Unretire(p) ==
    /\ At(p, "restoring")
    /\ WriteRecord(proc[p].rec)
    /\ Goto(p, "aligning")
    /\ UNCHANGED <<dir, content, lineage, working, lock, crashes,
                   sealed>>

\* A folder that changed meanwhile keeps its edits.
AlignTree(p) ==
    /\ At(p, "aligning")
    /\ \/ /\ working = proc[p].digest /\ Goto(p, "checkout")
          /\ UNCHANGED lock
       \/ /\ working # proc[p].digest /\ lock' = None
          /\ proc' = [proc EXCEPT ![p] = Idle]
    /\ UNCHANGED <<disk, crashes, history>>

CheckoutTree(p) ==
    /\ At(p, "checkout")
    /\ working' = content[proc[p].number]
    /\ lock' = None
    /\ proc' = [proc EXCEPT ![p] = Idle]
    /\ UNCHANGED <<head, dir, content, lineage, crashes, history>>

\* Every early return: a corrupt head, an exhausted sequence, a lineage of
\* another length, gates that refuse, a directory sealed or taken over.
Refused(p) ==
    \/ At(p, "loading") /\ ~(head = 0 \/ Complete(head))
    \/ At(p, "reserving") /\ proc[p].rec + 1 \notin Numbers
    \/ proc[p].step \in {"snapshotting", "finalizing"} /\ ~Writable(p)
    \/ At(p, "accepting")
    \/ At(p, "marking") /\ (proc[p].rec + 1 # proc[p].number \/ ~Writable(p))

Abort(p) ==
    /\ Refused(p)
    /\ proc' = [proc EXCEPT ![p] = Idle]
    /\ lock' = IF lock = p THEN None ELSE lock
    /\ UNCHANGED <<disk, crashes, history>>

-----------------------------------------------------------------------------
(* Outside the app lock *)

\* workspace_snapshot, list_apps, latest_evolution: a load and nothing more.
BeginRead(p) ==
    /\ p \in Outsiders /\ At(p, "idle")
    /\ proc' = Load(p, "seen")
    /\ UNCHANGED <<disk, lock, crashes, history>>

EndRead(p) ==
    /\ At(p, "seen")
    /\ proc' = [proc EXCEPT ![p] = Idle]
    /\ UNCHANGED <<disk, lock, crashes, history>>

\* retire_shot and restore_shot: set_retired loads the record and stores it.
BeginRetire(p) ==
    /\ p \in Outsiders /\ At(p, "idle")
    /\ proc' = Load(p, "retiring")
    /\ UNCHANGED <<disk, lock, crashes, history>>

SetRetired(p) ==
    /\ At(p, "retiring")
    /\ WriteRecord(proc[p].rec)
    /\ proc' = [proc EXCEPT ![p] = Idle]
    /\ UNCHANGED <<dir, content, lineage, working, lock, crashes,
                   sealed>>

OwnerEdits(x) ==
    /\ x # working
    /\ working' = x
    /\ UNCHANGED <<head, dir, content, lineage, lock, proc, crashes,
                   history>>

Crash(p) ==
    /\ crashes < MaxCrashes /\ ~At(p, "idle")
    /\ crashes' = crashes + 1
    /\ proc' = [proc EXCEPT ![p] = Idle]
    /\ lock' = IF lock = p THEN None ELSE lock
    /\ UNCHANGED <<disk, history>>

-----------------------------------------------------------------------------
Loading(p) == ReadRecord(p) \/ RecoverHead(p)

Recording(p) ==
    \/ LockApp(p) \/ CompareTree(p) \/ Reserve(p) \/ WriteParent(p)
    \/ Snapshot(p) \/ GatesAccept(p) \/ AppendLineage(p) \/ Finalize(p)
    \/ PublishMarker(p) \/ MoveHead(p) \/ Unretire(p) \/ AlignTree(p)
    \/ CheckoutTree(p)

Outside(p) == BeginRead(p) \/ EndRead(p) \/ BeginRetire(p) \/ SetRetired(p)

Next ==
    \/ \E p \in Processes : \/ Loading(p) \/ Recording(p) \/ Outside(p)
                            \/ Abort(p) \/ Crash(p)
    \/ \E x \in Contents : OwnerEdits(x)

Spec == Init /\ [][Next]_vars

\* Started work goes on, and the service reads every workspace each tick.
FairSpec ==
    /\ Spec
    /\ \A p \in Processes :
          WF_vars(Loading(p) \/ Abort(p) \/ EndRead(p) \/ SetRetired(p))
    /\ \A p \in Outsiders : SF_vars(BeginRead(p))

-----------------------------------------------------------------------------
(* Properties *)

TypeOK ==
    /\ head \in Heads
    /\ dir \in [Numbers -> {"absent", "open", "complete"}]
    /\ content \in [Numbers -> Contents \cup {None}]
    /\ lineage \in Seq(Contents \cup {None})
    /\ working \in Contents
    /\ lock \in Recorders \cup {None}
    /\ proc \in [Processes ->
                   [step : Steps, then : Steps, rec : Heads,
                    number : Heads, previous : Heads,
                    digest : Contents \cup {None}]]
    /\ crashes \in 0 .. MaxCrashes
    /\ sealed \in [Numbers -> Contents \cup {None}]
    /\ behind \in 0 .. MaxVersions

\* A Version that was ever complete is exactly the tree its signed lineage
\* action accepted, whoever recorded, retired, read or died meanwhile
\* (record_accepted_materialization before finalize_evolution).
SealedIsSigned ==
    /\ TypeOK
    /\ \A n \in Numbers :
          sealed[n] # None => n <= Len(lineage) /\ lineage[n] = sealed[n]

\* A complete Version stays at its number with its tree, and the head names a
\* complete one, so that load_app does not refuse the Shot, as long as no stored
\* head left out two Versions: recover_interrupted_finalization makes good the
\* one a crash or a stale record of an outsider leaves out.
CompleteStays ==
    behind < 2 =>
        /\ head = 0 \/ Complete(head)
        /\ \A n \in Numbers :
              sealed[n] # None => dir[n] = "complete" /\ content[n] = sealed[n]

\* A marker without a head is noticed: app.toml comes to recognize every
\* complete Version, although the recorder died and outsiders store records
\* they loaded before it.
HeadCatchesUp ==
    \A n \in Numbers :
        sealed[n] # None ~> head >= n \/ behind >= 2

\* An interrupted attempt does not consume the next protocol sequence number
\* (archive_incomplete_evolution): with nobody recording, the lineage has as
\* many Versions as the ledger.
AttemptConsumesNothing ==
    lock = None => Len(lineage) = Top

=============================================================================
