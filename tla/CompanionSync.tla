---------------------------- MODULE CompanionSync ----------------------------
(***************************************************************************)
(* CompanionCoordinator (cli/src/companion_service.rs) and one phone: one- *)
(* use pairing sessions, the device record that every handler reads and    *)
(* writes back as a whole, the relay mailbox the phone writes commands and *)
(* reference chunks to, their durable admission and execution, receipts,   *)
(* revocation, and the projection of the workspace to the phone.           *)
(*                                                                         *)
(* The service's reconciliation task ("loop") and requests from Studio     *)
(* ("studio") interleave at every await.  The relay and the phone are      *)
(* external.  A studio mailbox is named by the order of its creation; it   *)
(* also names the capability granted with it.                              *)
(***************************************************************************)
EXTENDS CommandIds, Integers, Sequences, FiniteSets

CONSTANTS
    References,     \* the commands that need a reference blob
    Evolves,        \* the commands that name a base Version (shot.evolve)
    Changes,        \* changes of the workspace
    Sessions,       \* pairing sessions the owner may create
    Pollers,        \* who polls pairing sessions: "loop", "studio"
    Window,         \* envelopes the replay window remembers
    MaxSends,       \* bound on the envelopes of a mailbox
    MaxBoxes,       \* bound on studio mailboxes
    MaxRevokes,     \* bound on revocations
    MaxFaults       \* bound on crashes and failing calls

ASSUME ConstantsAssumption ==
    /\ References \subseteq Commands /\ Evolves \subseteq Commands
    /\ Pollers \subseteq {"loop", "studio"}
    /\ Window \in Nat \ {0}
    /\ MaxSends \in Nat /\ MaxBoxes \in Nat /\ MaxRevokes \in Nat
    /\ MaxFaults \in Nat
    /\ None \notin Commands \cup Sessions \cup Nat

VARIABLES
    \* files of the Mac
    device,         \* devices/<id>.json
    admitted,       \* inbox/envelopes: the result of an admitted envelope
    processed,      \* inbox/commands: the durable receipt of a command
    blob,           \* inbox/blobs: completed reference blobs
    applied,        \* the application's journal: who asked, what came of it
    acceptance,     \* outbox/<id>/pairing-<session>-acceptance.json
    projection,     \* outbox/<id>/workspace-projection.json
    workspace,      \* the changes the workspace has seen
    stale,          \* executed commands whose Version replaced their base
    \* memory of the service
    session, pending, named, pairing, replay, loop, revoker,
    \* relay and phone
    mailbox, responded, phoneBox, signed, receipts, phoneView,
    \* bounds and history
    revokes, faults,
    unrecorded      \* executed, and the service stopped before the record

files == <<device, admitted, processed, blob, applied, acceptance, projection>>
store == <<admitted, processed, blob, applied, acceptance, projection>>
pairings == <<session, pending, named, pairing>>
phone == <<responded, phoneBox, signed>>
received == <<receipts, phoneView>>
lineage == <<stale, unrecorded>>
history == <<revokes, faults, lineage>>
vars == <<files, workspace, pairings, replay, loop, revoker, mailbox, phone,
          received, history>>

Boxes == 1 .. MaxBoxes
Envelopes == Boxes \X (1 .. MaxSends)
Results == {"done", "rejected", "chunk"}
SessionStates == {"none", "active", "consumed", "over"}

Device == [box : Boxes, session : Sessions, cursor : 0 .. MaxSends,
           revoked : BOOLEAN, epoch : 0 .. MaxRevokes,
           grant : 0 .. MaxRevokes, closed : BOOLEAN]
Envelope == [cmd : Commands, kind : {"chunk", "command"}, cap : Boxes]
Mailbox == [session : Sessions, items : Seq(Envelope), acked : 0 .. MaxSends,
            expired : 0 .. MaxSends, closed : BOOLEAN]

\* An absent record is no record, an absent result no result.
ASSUME AbsenceAssumption ==
    /\ None \notin Device /\ None \notin Results
    /\ None \notin [cap : Boxes, result : Results]

PairingIdle == [who |-> None, step |-> "idle", session |-> None,
                seen |-> None, view |-> {}]
LoopIdle == [step |-> "idle", rec |-> None, prior |-> None, item |-> 0,
             last |-> 0, result |-> None, base |-> None, view |-> {}]

EmptyWindow == [floor |-> 0, seen |-> {}]

Init ==
    /\ device = None
    /\ admitted = [e \in Envelopes |-> None]
    /\ processed = [c \in Commands |-> None]
    /\ blob = {}
    /\ applied = [c \in Commands |-> None]
    /\ acceptance = [s \in Sessions |-> None]
    /\ projection = None
    /\ workspace = {}
    /\ session = [s \in Sessions |-> "none"]
    /\ pending = {} /\ named = {}
    /\ pairing = PairingIdle
    /\ replay = EmptyWindow
    /\ loop = LoopIdle
    /\ revoker = None
    /\ mailbox = <<>>
    /\ responded = {}
    /\ phoneBox = None
    /\ signed = [c \in Commands |-> None]
    /\ receipts = {}
    /\ phoneView = {}
    /\ stale = {} /\ unrecorded = {}
    /\ revokes = 0 /\ faults = 0

\* An awaited call fails; the caller's `?` ends its operation.
Fault == faults < MaxFaults /\ faults' = faults + 1

-----------------------------------------------------------------------------
(* Pairing: one operation at a time under pairing_operations. *)

CreatePairingSession(s) ==
    /\ pairing.who = None /\ session[s] = "none"
    /\ session' = [session EXCEPT ![s] = "active"]
    /\ UNCHANGED <<files, workspace, pending, named, pairing, replay, loop,
                   revoker, mailbox, phone, received, history>>

CancelPairingSession(s) ==
    /\ pairing.who = None /\ session[s] = "active"
    /\ session' = [session EXCEPT ![s] = "over"]
    /\ UNCHANGED <<files, workspace, pending, named, pairing, replay, loop,
                   revoker, mailbox, phone, received, history>>

\* Two minutes pass.  The state stays Active; verify refuses the invitation.
ExpireInvitation(s) ==
    /\ pairing.who = None /\ session[s] = "active"
    /\ session' = [session EXCEPT ![s] = "over"]
    /\ UNCHANGED <<files, workspace, pending, named, pairing, replay, loop,
                   revoker, mailbox, phone, received, history>>

\* consume, consume_encrypted: an active session is used once.
Consume(s) ==
    /\ session[s] = "active"
    /\ session' = [session EXCEPT ![s] = "consumed"]
    /\ pending' = pending \cup {s}

BeginFinish(w, s) ==
    pairing' = [PairingIdle EXCEPT !.who = w, !.step = "granting",
                                   !.session = s, !.seen = device]

\* The service's one task polls between its relay passes.
TurnOf(w) == w = "loop" => loop.step = "idle"

\* pairing_session, polled by Studio and by reconcile_pairing_sessions: take
\* the phone's response from the relay, or resume a consumed session whose
\* completion failed.
PollPairingSession(w, s) ==
    /\ pairing.who = None /\ w \in Pollers /\ TurnOf(w)
    /\ \/ s \in responded /\ Consume(s)
       \/ /\ session[s] = "consumed" /\ s \in pending \ named
          /\ UNCHANGED <<session, pending>>
    /\ BeginFinish(w, s)
    /\ UNCHANGED <<files, workspace, named, replay, loop, revoker, mailbox,
                   phone, received, history>>

\* A phone on the local network hands over its proof directly.
CompletePairing(s) ==
    /\ pairing.who = None /\ "studio" \in Pollers /\ Consume(s)
    /\ BeginFinish("studio", s)
    /\ UNCHANGED <<files, workspace, named, replay, loop, revoker, mailbox,
                   phone, received, history>>

\* Mutant: every completion allocates a mailbox.
IsRetryNever(seen, s) == FALSE

IsRetry(seen, s) == seen # None /\ ~seen.revoked /\ seen.session = s

\* finish_pairing: the record it read before create_mailbox decides whether
\* this is a retry; otherwise a fresh record with the old epoch replaces it.
GrantCapability ==
    LET s == pairing.session
        epoch == IF pairing.seen = None THEN 0 ELSE pairing.seen.epoch
    IN  /\ pairing.step = "granting"
        /\ \/ /\ IsRetry(pairing.seen, s)
              /\ UNCHANGED <<device, mailbox>>
           \/ /\ ~IsRetry(pairing.seen, s) /\ Len(mailbox) < MaxBoxes
              /\ mailbox' = Append(mailbox, [session |-> s, items |-> <<>>,
                                             acked |-> 0, expired |-> 0,
                                             closed |-> FALSE])
              /\ device' = [box |-> Len(mailbox) + 1, session |-> s,
                            cursor |-> 0, revoked |-> FALSE, epoch |-> epoch,
                            grant |-> epoch, closed |-> FALSE]
        /\ pairing' = [pairing EXCEPT
                         !.step = "accepting",
                         !.seen = IF IsRetry(@, s) THEN @ ELSE device']
        /\ UNCHANGED <<store, workspace, session, pending, named, replay, loop,
                       revoker, phone, received, history>>

\* The acceptance envelope is created once per session and uploaded.
UploadAcceptance ==
    LET s == pairing.session
        box == IF acceptance[s] = None THEN pairing.seen.box ELSE acceptance[s]
    IN  /\ pairing.step = "accepting" /\ ~mailbox[pairing.seen.box].closed
        /\ acceptance' = [acceptance EXCEPT ![s] = box]
        /\ phoneBox' = box
        /\ pairing' = [pairing EXCEPT !.step = "uploading",
                                            !.view = workspace]
        /\ UNCHANGED <<device, admitted, processed, blob, applied, projection,
                       workspace, session, pending, named, replay, loop, revoker,
                       mailbox, responded, signed, received, history>>

\* publish_workspace_snapshot: upload what was read, then the projection.
UploadSnapshot ==
    /\ pairing.step = "uploading" /\ ~mailbox[pairing.seen.box].closed
    /\ phoneView' = phoneView \cup pairing.view
    /\ pairing' = [pairing EXCEPT !.step = "projecting"]
    /\ UNCHANGED <<files, workspace, session, pending, named, replay, loop,
                   revoker, mailbox, phone, receipts, history>>

FinishPairing ==
    /\ pairing.step = "projecting"
    /\ projection' = pairing.view
    /\ named' = named \cup {pairing.session}
    /\ pairing' = PairingIdle
    /\ UNCHANGED <<device, admitted, processed, blob, applied, acceptance,
                   workspace, session, pending, replay, loop, revoker, mailbox,
                   phone, received, history>>

\* The relay refuses or fails; the consumed response stays pending.
FailPairing ==
    /\ pairing.who # None
    /\ \/ pairing.step \in {"accepting", "uploading"}
          /\ mailbox[pairing.seen.box].closed /\ UNCHANGED faults
       \/ pairing.step = "granting" /\ Len(mailbox) = MaxBoxes
          /\ UNCHANGED faults
       \/ Fault
    /\ pairing' = PairingIdle
    /\ UNCHANGED <<files, workspace, session, pending, named, replay, loop,
                   revoker, mailbox, phone, received, revokes, lineage>>

-----------------------------------------------------------------------------
(* Studio: revoke. *)

\* Authorization goes first.
Revoke ==
    /\ revoker = None /\ device # None
    /\ \/ /\ ~device.revoked /\ revokes < MaxRevokes
          /\ device' = [device EXCEPT !.revoked = TRUE, !.epoch = @ + 1]
          /\ revokes' = revokes + 1
       \/ /\ device.revoked /\ ~device.closed
          /\ UNCHANGED <<device, revokes>>
    /\ revoker' = device'
    /\ UNCHANGED <<store, workspace, pairings, replay, loop, mailbox, phone,
                   received, faults, lineage>>

\* Then both mailboxes of the record it read.
CloseMailboxes ==
    /\ revoker # None
    /\ mailbox' = [mailbox EXCEPT ![revoker.box].closed = TRUE]
    /\ device' = [revoker EXCEPT !.closed = TRUE]
    /\ revoker' = None
    /\ UNCHANGED <<store, workspace, pairings, replay, loop, phone, received,
                   history>>

FailRevoke ==
    /\ revoker # None /\ Fault
    /\ revoker' = None
    /\ UNCHANGED <<files, workspace, pairings, replay, loop, mailbox, phone,
                   received, revokes, lineage>>

-----------------------------------------------------------------------------
(* The relay and the phone. *)

\* The phone answers the invitation it scanned.
PhoneResponds(s) ==
    /\ session[s] = "active" /\ s \notin responded
    /\ responded' = responded \cup {s}
    /\ UNCHANGED <<files, workspace, pairings, replay, loop, revoker, mailbox,
                   phoneBox, signed, received, history>>

Answered(c) == \E r \in receipts : r.cmd = c

\* The phone signs a command once and seals it again until a receipt comes;
\* the chunk of its reference goes before it.
PhoneSend(c, kind) ==
    LET cap == IF signed[c] = None THEN phoneBox ELSE signed[c]
        item == [cmd |-> c, kind |-> kind, cap |-> cap]
        items == mailbox[phoneBox].items
    IN  /\ phoneBox # None /\ ~Answered(c)
        /\ ~mailbox[phoneBox].closed /\ Len(items) < MaxSends
        /\ kind = "chunk" => c \in References
        /\ kind = "command" /\ c \in References =>
              \E k \in DOMAIN items : items[k] = [item EXCEPT !.kind = "chunk"]
        /\ mailbox' = [mailbox EXCEPT ![phoneBox].items = Append(@, item)]
        /\ signed' = [signed EXCEPT ![c] = cap]
        /\ UNCHANGED <<files, workspace, pairings, replay, loop, revoker,
                       responded, phoneBox, received, history>>

\* The relay's retention drops the oldest envelope.
ExpireEnvelope(b) ==
    /\ b \in DOMAIN mailbox /\ mailbox[b].expired < Len(mailbox[b].items)
    /\ Fault
    /\ mailbox' = [mailbox EXCEPT ![b].expired = @ + 1]
    /\ UNCHANGED <<files, workspace, pairings, replay, loop, revoker, phone,
                   received, revokes, lineage>>

WorkspaceChanges(x) ==
    /\ x \notin workspace
    /\ workspace' = workspace \cup {x}
    /\ UNCHANGED <<files, pairings, replay, loop, revoker, mailbox, phone,
                   received, history>>

\* The detached execution of an evolve command lands its Version: the base
\* the command names is no longer the accepted one.  (A base that was left
\* before the execution is among the refusals of ApplicationResult.)
VersionLands(c) ==
    /\ c \in Evolves \ stale /\ applied[c] # None
    /\ stale' = stale \cup {c}
    /\ UNCHANGED <<files, workspace, pairings, replay, loop, revoker, mailbox,
                   phone, received, revokes, faults, unrecorded>>

-----------------------------------------------------------------------------
(* The reconciliation task: reconcile_relay_once, process_envelope. *)

Item == mailbox[loop.rec.box].items[loop.item]
Here == <<loop.rec.box, loop.item>>
Reachable == ~mailbox[loop.rec.box].closed

\* The phone numbers its envelopes in the order it sends them.
Sequence(e) == (e[1] - 1) * MaxSends + e[2]

\* ReplayWindow::observe: a number in the window or at most its floor is
\* refused; the oldest number of a full window raises the floor.
Replayed(e) == Sequence(e) <= replay.floor \/ Sequence(e) \in replay.seen
Observe(e) ==
    LET seen == replay.seen \cup {Sequence(e)}
        oldest == CHOOSE n \in seen : \A m \in seen : n <= m
    IN  IF Cardinality(seen) <= Window
        THEN [replay EXCEPT !.seen = seen]
        ELSE [floor |-> IF oldest > replay.floor THEN oldest ELSE replay.floor,
              seen |-> seen \ {oldest}]

\* A pass keeps the record it loaded until the pass ends.
LoadDevice ==
    /\ loop.step = "idle" /\ pairing.who # "loop"
    /\ device # None /\ ~device.revoked
    /\ loop' = [LoopIdle EXCEPT !.step = "fetching", !.rec = device]
    /\ UNCHANGED <<files, workspace, pairings, replay, revoker, mailbox, phone,
                   received, history>>

Acknowledge(rec) ==
    mailbox' = [mailbox EXCEPT ![rec.box].acked = IF rec.cursor > @
                                                  THEN rec.cursor ELSE @]

\* Mutant: a reset goes to the head of the mailbox.
FetchPageToHead ==
    LET box == mailbox[loop.rec.box]
        reset == [loop.rec EXCEPT !.cursor = Len(box.items)]
    IN  /\ loop.step = "fetching" /\ Reachable
        /\ loop.rec.cursor < box.expired
        /\ device' = reset /\ Acknowledge(reset)
        /\ loop' = [loop EXCEPT !.rec = reset]
        /\ UNCHANGED <<store, workspace, pairings, replay, revoker, phone,
                       received, history>>

\* Acknowledge again, then read the page after the cursor.  A cursor inside
\* the expired prefix moves to its end, never to the head.
FetchPage ==
    LET box == mailbox[loop.rec.box]
        reset == [loop.rec EXCEPT !.cursor = box.expired]
        next == loop.rec.cursor + 1
    IN  /\ loop.step = "fetching" /\ Reachable
        /\ \/ /\ loop.rec.cursor < box.expired
              /\ device' = reset /\ Acknowledge(reset)
              /\ loop' = [loop EXCEPT !.rec = reset]
           \/ /\ loop.rec.cursor >= box.expired /\ next <= Len(box.items)
              /\ Acknowledge(loop.rec) /\ UNCHANGED device
              /\ loop' = [loop EXCEPT !.step = "opening", !.item = next,
                                      !.last = Len(box.items)]
           \/ /\ loop.rec.cursor >= box.expired /\ next > Len(box.items)
              /\ Acknowledge(loop.rec) /\ UNCHANGED device
              /\ loop' = [LoopIdle EXCEPT !.step = "publishing"]
        /\ UNCHANGED <<store, workspace, pairings, replay, revoker, phone,
                       received, history>>

\* Mutant: an admitted envelope is an error.
RepeatEnvelopeRefused ==
    /\ loop.step = "opening" /\ admitted[Here] # None
    /\ loop' = [LoopIdle EXCEPT !.step = "publishing"]
    /\ UNCHANGED <<files, workspace, pairings, replay, revoker, mailbox, phone,
                   received, history>>

\* An envelope admitted before keeps its result.
RepeatEnvelope ==
    /\ loop.step = "opening" /\ admitted[Here] # None
    /\ loop' = [loop EXCEPT !.result = admitted[Here],
                            !.step = IF Item.kind = "chunk" THEN "advancing"
                                                            ELSE "answering"]
    /\ UNCHANGED <<files, workspace, pairings, replay, revoker, mailbox, phone,
                   received, history>>

Opens == loop.step = "opening" /\ admitted[Here] = None /\ ~Replayed(Here)

\* persist_reference_chunk, track_reference_envelope, the admission and the
\* device record, with no await between them.
AdmitChunk ==
    /\ Opens /\ Item.kind = "chunk" /\ ~device.revoked
    /\ blob' = blob \cup {Item.cmd}
    /\ admitted' = [admitted EXCEPT ![Here] = "chunk"]
    /\ replay' = Observe(Here)
    /\ loop' = [loop EXCEPT !.step = "advancing", !.result = "chunk"]
    /\ UNCHANGED <<device, processed, applied, acceptance, projection,
                   workspace, pairings, revoker, mailbox, phone, received,
                   history>>

\* authorize_command: the device's current grant, of its current epoch.
Authorized(cap) ==
    /\ device # None /\ ~device.revoked
    /\ device.box = cap /\ device.grant = device.epoch

\* remove_consumed_reference_blob: the blob goes, and the admissions of the
\* chunk envelopes it was tracked by.
RemoveConsumedReference(c) ==
    /\ blob' = blob \ {c}
    /\ admitted' = [e \in Envelopes |->
                       IF /\ admitted[e] = "chunk"
                          /\ mailbox[e[1]].items[e[2]].cmd = c
                       THEN None ELSE admitted[e]]

\* process_command: an unauthorized or conflicting command is refused without
\* a record of its own, a processed one repeats its receipt.
OpenCommand ==
    LET c == Item.cmd
        refused == \/ ~Authorized(Item.cap)
                   \/ processed[c] # None /\ processed[c].cap # Item.cap
    IN  /\ Opens /\ Item.kind = "command"
        /\ \/ /\ refused /\ UNCHANGED <<blob, admitted>>
              /\ loop' = [loop EXCEPT !.prior = device, !.step = "admitting",
                                      !.result = "rejected"]
           \/ /\ ~refused /\ processed[c] # None
              /\ RemoveConsumedReference(c)
              /\ loop' = [loop EXCEPT !.prior = device, !.step = "admitting",
                                      !.result = processed[c].result]
           \/ /\ ~refused /\ processed[c] = None
              /\ UNCHANGED <<blob, admitted>>
              /\ loop' = [loop EXCEPT !.prior = device, !.step = "applying"]
        /\ UNCHANGED <<device, processed, applied, acceptance, projection,
                       workspace, pairings, replay, revoker, mailbox, phone,
                       received, history>>

\* What process_command_uncached asks before the application: the device and
\* its grant again, the base the command names, its reference.
Admissible(c, cap) ==
    /\ Authorized(cap) /\ c \notin stale
    /\ c \in References => c \in blob

\* The application's own journal (external here): a command is executed once
\* and its outcome repeated, or refused without an entry.
ApplicationResult(c, cap, result) ==
    \/ /\ applied[c] = None /\ result = "done"
       /\ applied' = [applied EXCEPT ![c] = cap]
    \/ /\ applied[c] = None /\ result = "rejected" /\ UNCHANGED applied
    \/ /\ applied[c] # None /\ UNCHANGED applied
       /\ result = IF applied[c] = cap THEN "done" ELSE "rejected"

\* Mutant: the blob is consumed before the result is recorded.
ApplyCommandConsuming ==
    LET c == Item.cmd
    IN  /\ loop.step = "applying"
        /\ \E result \in {"done", "rejected"} :
              /\ loop' = [loop EXCEPT !.step = "recording", !.result = result]
              /\ IF Admissible(c, Item.cap)
                 THEN ApplicationResult(c, Item.cap, result)
                 ELSE result = "rejected" /\ UNCHANGED applied
        /\ RemoveConsumedReference(c)
        /\ UNCHANGED <<device, processed, acceptance, projection, workspace,
                       pairings, replay, revoker, mailbox, phone, received,
                       history>>

\* process_command_uncached.  The base is compared before the application's
\* journal could repeat what became of a command it executed already.
ApplyCommand ==
    LET c == Item.cmd
    IN  /\ loop.step = "applying"
        /\ \E result \in {"done", "rejected"} :
              /\ loop' = [loop EXCEPT !.step = "recording", !.result = result]
              /\ IF Admissible(c, Item.cap)
                 THEN ApplicationResult(c, Item.cap, result)
                 ELSE result = "rejected" /\ UNCHANGED applied
        /\ UNCHANGED <<device, admitted, processed, blob, acceptance,
                       projection, workspace, pairings, replay, revoker,
                       mailbox, phone, received, history>>

RecordProcessed ==
    /\ loop.step = "recording"
    /\ processed' = [processed EXCEPT ![Item.cmd] =
                       [cap |-> Item.cap, result |-> loop.result]]
    /\ loop' = [loop EXCEPT !.step = "cleaning"]
    /\ UNCHANGED <<device, admitted, blob, applied, acceptance, projection,
                   workspace, pairings, replay, revoker, mailbox, phone,
                   received, history>>

CleanupReferences ==
    /\ loop.step = "cleaning"
    /\ RemoveConsumedReference(Item.cmd)
    /\ loop' = [loop EXCEPT !.step = "admitting"]
    /\ UNCHANGED <<device, processed, applied, acceptance, projection,
                   workspace, pairings, replay, revoker, mailbox, phone,
                   received, history>>

\* record_admitted_envelope; then the record read before the command is
\* stored over whatever the device has become.
AdmitCommand ==
    /\ loop.step = "admitting"
    /\ admitted' = [admitted EXCEPT ![Here] = loop.result]
    /\ replay' = Observe(Here)
    /\ device' = loop.prior
    /\ loop' = [loop EXCEPT !.step = "answering", !.prior = None]
    /\ UNCHANGED <<processed, blob, applied, acceptance, projection, workspace,
                   pairings, revoker, mailbox, phone, received, history>>

PublishReceipt ==
    /\ loop.step = "answering" /\ Reachable
    /\ receipts' = receipts \cup {[cmd |-> Item.cmd, box |-> loop.rec.box,
                                   result |-> loop.result]}
    /\ loop' = [loop EXCEPT !.step = "advancing"]
    /\ UNCHANGED <<files, workspace, pairings, replay, revoker, mailbox, phone,
                   phoneView, history>>

\* The durable cursor first, then the relay's acknowledgement.
AdvanceCursor ==
    LET rec == [loop.rec EXCEPT !.cursor = loop.item]
    IN  /\ loop.step = "advancing"
        /\ device' = rec
        /\ loop' = [loop EXCEPT !.step = "acking", !.rec = rec,
                                !.result = None]
        /\ UNCHANGED <<store, workspace, pairings, replay, revoker, mailbox,
                       phone, received, history>>

AcknowledgeItem ==
    /\ loop.step = "acking" /\ Reachable
    /\ Acknowledge(loop.rec)
    /\ loop' = IF loop.item < loop.last
               THEN [loop EXCEPT !.step = "opening", !.item = @ + 1]
               ELSE [LoopIdle EXCEPT !.step = "publishing"]
    /\ UNCHANGED <<files, workspace, pairings, replay, revoker, phone, received,
                   history>>

\* Remembered: what the application executed and process_command did not
\* record before it was left.
LeaveUnrecorded ==
    unrecorded' = unrecorded \cup
                    {c \in Commands : applied[c] # None /\ processed[c] = None}

\* An error ends the pass; publish_workspace_changes is called all the same.
FailReconcile ==
    /\ loop.step \notin {"idle", "publishing", "projecting", "uploading"}
    /\ \/ /\ \/ loop.step \in {"fetching", "answering", "acking"}
                /\ ~Reachable
             \/ /\ loop.step = "opening" /\ admitted[Here] = None
                /\ Replayed(Here) \/ (Item.kind = "chunk" /\ device.revoked)
          /\ UNCHANGED faults
       \/ Fault
    /\ LeaveUnrecorded
    /\ loop' = [LoopIdle EXCEPT !.step = "publishing"]
    /\ UNCHANGED <<files, workspace, pairings, replay, revoker, mailbox, phone,
                   received, revokes, stale>>

-----------------------------------------------------------------------------
(* publish_workspace_changes *)

\* Mutant: a device without a projection is left alone.
CompareProjectionNeedsBase ==
    /\ loop.step = "publishing"
    /\ \/ /\ device # None /\ ~device.revoked
          /\ projection \notin {None, workspace}
          /\ loop' = [LoopIdle EXCEPT !.step = "uploading", !.rec = device,
                                      !.base = projection,
                                      !.view = workspace]
       \/ /\ \/ device = None \/ device.revoked
             \/ projection \in {None, workspace}
          /\ loop' = LoopIdle
    /\ UNCHANGED <<files, workspace, pairings, replay, revoker, mailbox, phone,
                   received, history>>

\* Compare the workspace with the stored projection: nothing to do, or a
\* snapshot or delta to upload.
CompareProjection ==
    /\ loop.step = "publishing"
    /\ \/ /\ device # None /\ ~device.revoked /\ projection # workspace
          /\ loop' = [LoopIdle EXCEPT !.step = "uploading", !.rec = device,
                                      !.base = projection,
                                      !.view = workspace]
       \/ /\ device = None \/ device.revoked \/ projection = workspace
          /\ loop' = LoopIdle
    /\ UNCHANGED <<files, workspace, pairings, replay, revoker, mailbox, phone,
                   received, history>>

UploadChanges ==
    /\ loop.step = "uploading" /\ Reachable
    /\ phoneView' = phoneView \cup
                      (IF loop.base = None THEN loop.view
                                           ELSE loop.view \ loop.base)
    /\ loop' = [loop EXCEPT !.step = "projecting"]
    /\ UNCHANGED <<files, workspace, pairings, replay, revoker, mailbox, phone,
                   receipts, history>>

StoreProjection ==
    /\ loop.step = "projecting"
    /\ projection' = loop.view
    /\ loop' = LoopIdle
    /\ UNCHANGED <<device, admitted, processed, blob, applied, acceptance,
                   workspace, pairings, replay, revoker, mailbox, phone,
                   received, history>>

FailPublish ==
    /\ loop.step \in {"uploading", "projecting"}
    /\ \/ loop.step = "uploading" /\ ~Reachable /\ UNCHANGED faults
       \/ Fault
    /\ loop' = LoopIdle
    /\ UNCHANGED <<files, workspace, pairings, replay, revoker, mailbox, phone,
                   received, revokes, lineage>>

-----------------------------------------------------------------------------
\* The service restarts: sessions, responses and the replay window are gone.
Crash ==
    /\ Fault
    /\ session' = [s \in Sessions |-> IF session[s] = "none" THEN "none"
                                                            ELSE "over"]
    /\ pending' = {} /\ named' = {}
    /\ pairing' = PairingIdle /\ loop' = LoopIdle
    /\ replay' = EmptyWindow /\ revoker' = None
    /\ LeaveUnrecorded
    /\ UNCHANGED <<files, workspace, mailbox, phone, received, revokes, stale>>

CompletionStep ==
    \/ GrantCapability \/ UploadAcceptance \/ UploadSnapshot
    \/ FinishPairing \/ FailPairing

Pairing ==
    \/ \E s \in Sessions : \/ CreatePairingSession(s) \/ CancelPairingSession(s)
                           \/ ExpireInvitation(s) \/ CompletePairing(s)
                           \/ PhoneResponds(s)
                           \/ \E w \in Pollers : PollPairingSession(w, s)
    \/ CompletionStep

Revocation == Revoke \/ CloseMailboxes \/ FailRevoke

Environment ==
    \/ \E c \in Commands, kind \in {"chunk", "command"} : PhoneSend(c, kind)
    \/ \E b \in Boxes : ExpireEnvelope(b)
    \/ \E x \in Changes : WorkspaceChanges(x)
    \/ \E c \in Commands : VersionLands(c)

Reconcile ==
    \/ LoadDevice \/ FetchPage \/ RepeatEnvelope \/ AdmitChunk \/ OpenCommand
    \/ ApplyCommand \/ RecordProcessed \/ CleanupReferences \/ AdmitCommand
    \/ PublishReceipt \/ AdvanceCursor \/ AcknowledgeItem \/ FailReconcile
    \/ CompareProjection \/ UploadChanges \/ StoreProjection \/ FailPublish

Next == Pairing \/ Revocation \/ Environment \/ Reconcile \/ Crash

Spec == Init /\ [][Next]_vars

\* The task ticks every two seconds and takes a relay pass after each poll of
\* the pairing sessions, whatever the poll came to; started work goes on.
Fairness ==
    /\ WF_vars(Reconcile) /\ SF_vars(LoadDevice)
    /\ WF_vars(CompletionStep)
FairSpec == Spec /\ Fairness

-----------------------------------------------------------------------------
(* Properties *)

TypeOK ==
    /\ device \in Device \cup {None}
    /\ admitted \in [Envelopes -> Results \cup {None}]
    /\ processed \in [Commands -> [cap : Boxes, result : Results] \cup {None}]
    /\ blob \subseteq Commands
    /\ applied \in [Commands -> Boxes \cup {None}]
    /\ acceptance \in [Sessions -> Boxes \cup {None}]
    /\ projection \in (SUBSET Changes) \cup {None}
    /\ workspace \subseteq Changes /\ phoneView \subseteq Changes
    /\ stale \subseteq Commands /\ unrecorded \subseteq Commands
    /\ session \in [Sessions -> SessionStates]
    /\ pending \subseteq Sessions /\ named \subseteq Sessions
    /\ replay \in [floor : Nat, seen : SUBSET Nat]
    /\ mailbox \in Seq(Mailbox)
    /\ phoneBox \in Boxes \cup {None}
    /\ signed \in [Commands -> Boxes \cup {None}]
    /\ receipts \subseteq [cmd : Commands, box : Boxes, result : Results]

Sent == {e \in Envelopes : /\ e[1] \in DOMAIN mailbox
                           /\ e[2] \in DOMAIN mailbox[e[1]].items}
ItemAt(e) == mailbox[e[1]].items[e[2]]
Kept(e) == e[2] > mailbox[e[1]].expired
Acked(e) == e[2] <= mailbox[e[1]].acked

\* What the relay may forget is answered: an acknowledged command that its
\* retention did not drop has a receipt in the same pairing's phone mailbox,
\* whatever failed or restarted between execution, cursor and acknowledgement
\* (reconcile_relay_once).
AckedIsAnswered ==
    /\ TypeOK
    /\ \A e \in Sent :
          Acked(e) /\ Kept(e) /\ ItemAt(e).kind = "command" =>
              \E r \in receipts : r.cmd = ItemAt(e).cmd /\ r.box = e[1]

\* The owner is told the truth about a command: a completed receipt means the
\* application executed it, and as long as no pairing was revoked or replaced
\* a command that was executed is not reported as rejected, however often it
\* is sent, interrupted and repeated (process_command).  One case is left: the
\* service stopped between the execution and its record, and a Version landed
\* before the retry, which is then refused for its base.
ReceiptsAreTrue ==
    \A r \in receipts :
        /\ r.result = "done" => applied[r.cmd] # None
        /\ r.result = "rejected" /\ revokes = 0 /\ Len(mailbox) = 1 =>
              applied[r.cmd] = None \/ r.cmd \in unrecorded \cap stale

\* docs/GOLDEN_PATH.md: a stale base "is rejected without execution", an exact
\* retry "returns the existing result".  In one undisturbed pairing no
\* executed command is reported as rejected (process_command_uncached).
RejectedIsNotExecuted ==
    \A r \in receipts :
        r.result = "rejected" /\ revokes = 0 /\ Len(mailbox) = 1 =>
            applied[r.cmd] = None

\* An executed reference command was executed with its blob, and the blob is
\* not removed before the result that makes it unnecessary is durable
\* (record_processed_command_at before remove_consumed_reference_blob, against
\* a crash between them); until then a chunk that counts as admitted, and so
\* is not sent again, has its blob.
ReferencesOutliveUse ==
    /\ \A c \in References :
          applied[c] # None /\ processed[c] = None => c \in blob
    /\ \A e \in Sent :
          admitted[e] = "chunk" => ItemAt(e).cmd \in blob

\* A pairing session allocates one mailbox and capability, although Studio and
\* the service poll it at once and a failed completion is retried: it takes a
\* revocation or the mailbox of another session, granted before, to make a
\* completion look like a new one (pairing_operations, finish_pairing).
OneGrantPerSession ==
    \A a, b \in DOMAIN mailbox :
        a < b /\ mailbox[a].session = mailbox[b].session =>
            \/ revokes > 0
            \/ \E c \in 1 .. b - 1 : mailbox[c].session # mailbox[b].session

\* A command the phone sent in the current pairing is answered in the end,
\* unless the relay dropped it or the owner revoked or replaced the pairing.
CommandsAreAnswered ==
    \A c \in Commands :
        (\E e \in Sent : ItemAt(e).cmd = c /\ ItemAt(e).kind = "command")
            ~> \/ Answered(c) \/ revokes > 0 \/ Len(mailbox) > 1
               \/ \E b \in DOMAIN mailbox : mailbox[b].expired > 0

\* A workspace change reaches the mailbox of a paired phone.
ChangesReachPhone ==
    []<>(\/ device = None \/ revokes > 0 \/ workspace \subseteq phoneView)

=============================================================================
