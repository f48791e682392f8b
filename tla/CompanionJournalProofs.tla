----------------------- MODULE CompanionJournalProofs -----------------------
(***************************************************************************)
(* Proofs about the two places where a command is admitted durably: the    *)
(* application's command journal (CommandJournal) and, before it, the      *)
(* companion service's inbox (CompanionSync).  They hold for every set of  *)
(* commands, callers and sessions and for every bound.                     *)
(***************************************************************************)
EXTENDS CompanionSync, CommandJournal, SequenceTheorems, WellFoundedInduction,
        TLAPS

-----------------------------------------------------------------------------
(* The command journal *)

\* A caller in the middle of an admission names a command and a request.
CallNamesCommand ==
    \A p \in Callers :
        step[p] # "idle" => target[p] \in Commands /\ offered[p] \in Requests

\* A caller that saw a collision, or was told of an existing command, looks at
\* a published entry.
CollisionIsPublished ==
    \A p \in Callers :
        step[p] = "collided" => request[target[p]] # None

JInv ==
    /\ JournalTypeOK
    /\ CallNamesCommand
    /\ CollisionIsPublished
    /\ AdmittedRequestIsPublished
    /\ OutcomeIsExplained

\* transition yields a well-formed status that is explained and keeps an
\* earlier receipt; a terminal status admits no other one.
LEMMA TransitionFacts ==
    ASSUME NEW s \in Statuses, NEW next \in CommandStates,
           NEW receipt \in Receipts \cup {None},
           NEW reason \in Reasons \cup {None},
           TransitionAllowed(s, next, receipt, reason)
    PROVE  LET t == NextStatus(s, next, receipt, reason)
           IN  /\ t \in Statuses
               /\ t.state = "completed" => t.receipt # None
               /\ t.state = "rejected" => t.reason # None
               /\ s.receipt # None => t.receipt = s.receipt
               /\ Terminal(s.state) => t = s
  BY NoneAssumption
     DEF TransitionAllowed, NextStatus, MayTransitionTo, Terminal, Statuses,
         CommandStates

\* The empty journal with idle callers satisfies the strengthened invariant.
LEMMA InitJInv == JournalInit => JInv
  BY JournalAssumption, NoneAssumption
     DEF JournalInit, JInv, JournalTypeOK, CallNamesCommand,
         CollisionIsPublished, AdmittedRequestIsPublished,
         OutcomeIsExplained, Published, InStep,
         Steps, Returned

\* Each action preserves the strengthened invariant.
LEMMA StepJInv == JInv /\ [JournalNext]_journalVars => JInv'
  <1> SUFFICES ASSUME JInv, [JournalNext]_journalVars PROVE JInv'
    OBVIOUS
  <1> USE DEF JInv, JournalTypeOK, CallNamesCommand, CollisionIsPublished,
              AdmittedRequestIsPublished, OutcomeIsExplained, Published,
              InStep, Steps, Returned, journal, callers
  <1>1. ASSUME NEW p \in Callers, NEW c \in Commands, NEW r \in Requests,
               Admit(p, c, r)
        PROVE  JInv'
    BY <1>1 DEF Admit, ReadExisting
  <1>2. ASSUME NEW p \in Callers, CheckCapacity(p)
        PROVE  JInv'
    BY <1>2 DEF CheckCapacity
  <1>3. ASSUME NEW p \in Callers, WriteStaging(p)
        PROVE  JInv'
    BY <1>3 DEF WriteStaging
  <1>4. ASSUME NEW p \in Callers, Publish(p)
        PROVE  JInv'
    <2>1. InitialStatus \in Statuses /\ InitialStatus.state = "received"
      BY DEF InitialStatus, Statuses, CommandStates
    <2> QED
      BY <1>4, <2>1, JournalAssumption DEF Publish
  <1>5. ASSUME NEW p \in Callers, Collide(p)
        PROVE  JInv'
    BY <1>5 DEF Collide
  <1>6. ASSUME NEW p \in Callers, RecheckCollision(p)
        PROVE  JInv'
    BY <1>6 DEF RecheckCollision, ReadExisting
  <1>7. ASSUME NEW p \in Callers, CrashAdmitting(p)
        PROVE  JInv'
    BY <1>7 DEF CrashAdmitting
  <1>8. ASSUME NEW c \in Commands, NEW next \in CommandStates,
               NEW receipt \in Receipts \cup {None},
               NEW reason \in Reasons \cup {None},
               Transition(c, next, receipt, reason)
        PROVE  JInv'
    <2> DEFINE t == NextStatus(status[c], next, receipt, reason)
    <2>1. status[c] \in Statuses
      BY <1>8 DEF Transition
    <2>2. /\ t \in Statuses
          /\ t.state = "completed" => t.receipt # None
          /\ t.state = "rejected" => t.reason # None
      BY <1>8, <2>1, TransitionFacts DEF Transition
    <2>3. /\ status' = [status EXCEPT ![c] = t]
          /\ UNCHANGED <<request, callers, crashes>>
      BY <1>8 DEF Transition
    <2> HIDE DEF t
    <2> QED
      BY <2>2, <2>3, JournalAssumption
  <1>9. CASE UNCHANGED journalVars
    BY <1>9 DEF journalVars
  <1> QED
    BY <1>1, <1>2, <1>3, <1>4, <1>5, <1>6, <1>7, <1>8, <1>9 DEF JournalNext

\* Under the strengthened invariant no step replaces a published request or
\* receipt, or a terminal status.
LEMMA StepStable ==
    JInv /\ [JournalNext]_journalVars => [StableStep]_journalVars
  <1> SUFFICES ASSUME JInv, JournalNext, NEW c \in Commands, c \in Published
               PROVE  /\ request'[c] = request[c]
                      /\ status[c].receipt # None =>
                            status'[c].receipt = status[c].receipt
                      /\ Terminal(status[c].state) => status'[c] = status[c]
    BY DEF StableStep
  <1> USE DEF JInv, JournalTypeOK, CallNamesCommand, OutcomeIsExplained,
          Published,
              journal
  <1>1. CASE \E p \in Callers :
               \/ \E d \in Commands, r \in Requests : Admit(p, d, r)
               \/ CheckCapacity(p)
               \/ WriteStaging(p)
               \/ Collide(p)
               \/ RecheckCollision(p)
               \/ CrashAdmitting(p)
    BY <1>1 DEF Admit, CheckCapacity, WriteStaging, Collide,
                RecheckCollision, CrashAdmitting
  <1>2. ASSUME NEW p \in Callers, Publish(p)
        PROVE  request'[c] = request[c] /\ status'[c] = status[c]
    BY <1>2 DEF Publish
  <1>3. ASSUME NEW d \in Commands, NEW next \in CommandStates,
               NEW receipt \in Receipts \cup {None},
               NEW reason \in Reasons \cup {None},
               Transition(d, next, receipt, reason)
        PROVE  /\ request'[c] = request[c]
               /\ status[c].receipt # None =>
                     status'[c].receipt = status[c].receipt
               /\ Terminal(status[c].state) => status'[c] = status[c]
    <2> DEFINE t == NextStatus(status[d], next, receipt, reason)
    <2>1. status[d] \in Statuses
      BY <1>3 DEF Transition
    <2>2. /\ status[d].receipt # None => t.receipt = status[d].receipt
          /\ Terminal(status[d].state) => t = status[d]
      BY <1>3, <2>1, TransitionFacts DEF Transition
    <2>3. status' = [status EXCEPT ![d] = t] /\ request' = request
      BY <1>3 DEF Transition
    <2> HIDE DEF t
    <2> QED
      BY <2>2, <2>3
  <1> QED
    BY <1>1, <1>2, <1>3 DEF JournalNext

\* The journal's variables keep their types in every behaviour of the
\* admission and transition code.
THEOREM JournalTypeCorrect == JournalSpec => []JournalTypeOK
  <1>1. JInv => JournalTypeOK
    BY DEF JInv
  <1> QED
    BY <1>1, InitJInv, StepJInv, PTL DEF JournalSpec

\* Whatever callers race, a successful admit_with_files reports the request
\* that the journal published under the identifier.
THEOREM AdmissionIsUnambiguous == JournalSpec => []AdmittedRequestIsPublished
  <1>1. JInv => AdmittedRequestIsPublished
    BY DEF JInv
  <1> QED
    BY <1>1, InitJInv, StepJInv, PTL DEF JournalSpec

\* Every published completed command has its receipt and every rejected one
\* its reason.
THEOREM OutcomesAreExplained == JournalSpec => []OutcomeIsExplained
  <1>1. JInv => OutcomeIsExplained
    BY DEF JInv
  <1> QED
    BY <1>1, InitJInv, StepJInv, PTL DEF JournalSpec

\* Published requests, published receipts and terminal statuses never change.
THEOREM PublicationIsStable == JournalSpec => PublishedIsStable
  BY InitJInv, StepJInv, StepStable, PTL DEF JournalSpec, PublishedIsStable
-----------------------------------------------------------------------------
(* The companion's inductive invariant *)

LoopSteps ==
    {"idle", "fetching", "opening", "applying", "recording", "cleaning",
     "admitting", "answering", "advancing", "acking", "publishing",
     "uploading", "projecting"}

\* The steps with a record in hand, those with an envelope in hand, and those
\* between the device record a command was opened under and its storing back.
WithRecord == LoopSteps \ {"idle", "publishing"}
WithItem == WithRecord \ {"fetching", "uploading", "projecting"}
WithPrior == {"applying", "recording", "cleaning", "admitting"}
WithCommand == WithPrior \cup {"answering"}
WithResult == WithCommand \ {"applying"}

PairingSteps == {"idle", "granting", "accepting", "uploading", "projecting"}

MemoryOK ==
    /\ loop \in [step : LoopSteps, rec : Device \cup {None},
                 prior : Device \cup {None}, item : 0 .. MaxSends,
                 last : 0 .. MaxSends, result : Results \cup {None},
                 base : (SUBSET Changes) \cup {None}, view : SUBSET Changes]
    /\ pairing \in [who : {"loop", "studio", None}, step : PairingSteps,
                    session : Sessions \cup {None},
                    seen : Device \cup {None}, view : SUBSET Changes]
    /\ revoker \in Device \cup {None}
    /\ revokes \in 0 .. MaxRevokes

\* An envelope is settled when it is no command, has expired, or has a receipt
\* in the phone mailbox of the same pairing.
Settled(boxes, told, b, k) ==
    boxes[b].expired < k /\ boxes[b].items[k].kind = "command" =>
        \E r \in told : r.cmd = boxes[b].items[k].cmd /\ r.box = b

\* A copy of the device record, however old, names a mailbox of its session,
\* has a cursor below which everything is settled, and an epoch that counts
\* revocations that happened.
Fits(d, boxes, told, count) ==
    /\ d.box \in DOMAIN boxes
    /\ d.session = boxes[d.box].session
    /\ d.cursor <= Len(boxes[d.box].items)
    /\ d.epoch <= count /\ d.grant <= count
    /\ d.revoked => count > 0
    /\ \A k \in 1 .. d.cursor : Settled(boxes, told, d.box, k)

\* The copies: the file, and the records that the revocation, the
\* reconciliation (for the pass and for the command it opened) and the pairing
\* read and may write back whole.
CopiesFit ==
    \A d \in {device, revoker, loop.rec, loop.prior, pairing.seen} \ {None} :
        Fits(d, mailbox, receipts, revokes)

\* The mailboxes at the relay.
BoxFits(b, boxes, told) ==
    /\ Len(boxes[b].items) <= MaxSends
    /\ boxes[b].acked <= Len(boxes[b].items)
    /\ boxes[b].expired <= Len(boxes[b].items)
    /\ \A k \in 1 .. boxes[b].acked : Settled(boxes, told, b, k)
    /\ \A k \in DOMAIN boxes[b].items : boxes[b].items[k].cap \in DOMAIN boxes

BoxesFit ==
    /\ Len(mailbox) <= MaxBoxes
    /\ \A b \in DOMAIN mailbox : BoxFits(b, mailbox, receipts)

\* Whoever names a mailbox names one that was created.
Named ==
    /\ phoneBox \in DOMAIN mailbox \cup {None}
    /\ \A s \in Sessions : acceptance[s] \in DOMAIN mailbox \cup {None}
    /\ \A c \in Commands :
          /\ signed[c] \in DOMAIN mailbox \cup {None}
          /\ applied[c] \in DOMAIN mailbox \cup {None}
          /\ processed[c] # None => processed[c].cap \in DOMAIN mailbox

\* The first grant makes the device record, and a pairing that saw no record
\* is the only one that may make it.
PairingFits ==
    /\ device = None <=> Len(mailbox) = 0
    /\ pairing.step # "idle" => pairing.session \in Sessions
    /\ pairing.step = "granting" /\ pairing.seen = None => Len(mailbox) = 0
    /\ pairing.step \in {"accepting", "uploading"} => pairing.seen # None

\* Where the reconciliation is in the page it fetched.
LoopFits ==
    /\ loop.step \in WithRecord => loop.rec # None
    /\ loop.step \in WithItem =>
          /\ loop.item \in 1 .. loop.last
          /\ loop.last <= Len(mailbox[loop.rec.box].items)
          /\ loop.rec.cursor = IF loop.step = "acking" THEN loop.item
                                                       ELSE loop.item - 1
    /\ loop.step \in WithPrior => loop.prior # None
    /\ loop.step \in WithCommand => Item.kind = "command"
    /\ loop.step \in WithResult => loop.result # None
    /\ loop.step = "advancing" =>
          Settled(mailbox, receipts, loop.rec.box, loop.item)

\* What is durable at each step of a command: no record of it before
\* RecordProcessed, one from then on, and never with a chunk's result.
StepsAreDurable ==
    /\ loop.step \in {"applying", "recording"} => processed[Item.cmd] = None
    /\ loop.step = "cleaning" => processed[Item.cmd] # None
    /\ loop.step \in WithResult \ {"answering"} => loop.result # "chunk"
    /\ \A c \in Commands : processed[c] # None => processed[c].result # "chunk"

\* A reference waits for its command until the result is recorded.
BlobsWait ==
    /\ ReferencesOutliveUse
    /\ \A e \in Envelopes : admitted[e] # None => e \in Sent

\* Every result on its way to a receipt, and every receipt, that says done is
\* about an executed command.
DoneIsApplied ==
    /\ \A r \in receipts : r.result = "done" => applied[r.cmd] # None
    /\ \A e \in Sent : admitted[e] = "done" => applied[ItemAt(e).cmd] # None
    /\ \A c \in Commands :
          processed[c] # None /\ processed[c].result = "done" =>
              applied[c] # None
    /\ loop.step \in WithResult /\ loop.result = "done" =>
          applied[Item.cmd] # None

\* An execution without a record is about to get one, or the service stopped
\* before it did.
ExecutionsAreFollowed ==
    \A c \in Commands :
        applied[c] # None /\ processed[c] = None =>
            \/ c \in unrecorded
            \/ loop.step = "recording" /\ Item.cmd = c

Undisturbed == revokes = 0 /\ Len(mailbox) <= 1

RejectedFor(c) == processed[c] # None /\ processed[c].result = "rejected"

\* Not executed, or executed, left unrecorded and overtaken by its Version.
Excused(c) == applied[c] = None \/ c \in unrecorded \cap stale

\* In one undisturbed pairing a rejection is recorded before it is told, and
\* a recorded rejection excludes the execution, but for the one excuse.
RejectedIsRecorded ==
    Undisturbed =>
        /\ \A r \in receipts : r.result = "rejected" => RejectedFor(r.cmd)
        /\ \A e \in Sent :
              admitted[e] = "rejected" => RejectedFor(ItemAt(e).cmd)
        /\ \A c \in Commands : RejectedFor(c) => Excused(c)
        /\ loop.result = "rejected" =>
              /\ loop.step = "recording" => Excused(Item.cmd)
              /\ loop.step \in {"cleaning", "admitting", "answering"} =>
                    RejectedFor(Item.cmd)

SyncInv ==
    /\ TypeOK /\ MemoryOK
    /\ BoxesFit /\ CopiesFit /\ Named /\ PairingFits /\ LoopFits
    /\ StepsAreDurable /\ BlobsWait /\ DoneIsApplied /\ RejectedIsRecorded
    /\ ExecutionsAreFollowed
    /\ OneGrantPerSession

-----------------------------------------------------------------------------
(* Facts about the values *)

\* A nonempty set of naturals has a least element.
LEMMA Least ==
    ASSUME NEW S \in SUBSET Nat, S # {}
    PROVE  \E n \in S : \A m \in S : n <= m
  <1> DEFINE R == {ss \in Nat \X Nat : ss[1] < ss[2]}
  <1>1. IsWellFoundedOn(R, Nat)
    BY NatLessThanWellFounded, Zenon DEF OpToRel
  <1>2. \A x, y \in Nat : x < y => <<x, y>> \in R
    OBVIOUS
  <1> HIDE DEF R
  <1>3. PICK n \in S : \A m \in S : ~(<<m, n>> \in R)
    BY <1>1, WFMin, Zenon
  <1>4. \A m \in S : ~(m < n)
    BY <1>2, <1>3, Zenon
  <1> QED
    BY <1>4

\* The replay window keeps numbers.
LEMMA ObserveType ==
    ASSUME NEW e \in Envelopes, replay \in [floor : Nat, seen : SUBSET Nat]
    PROVE  Observe(e) \in [floor : Nat, seen : SUBSET Nat]
  <1> DEFINE seen == replay.seen \cup {Sequence(e)}
             oldest == CHOOSE n \in seen : \A m \in seen : n <= m
  <1>1. Sequence(e) \in Nat
    <2>1. e[1] - 1 \in Nat /\ e[2] \in Nat /\ MaxSends \in Nat
      BY ConstantsAssumption DEF Envelopes, Boxes
    <2>2. \A m, n \in Nat : m * n \in Nat
      OBVIOUS
    <2>3. (e[1] - 1) * MaxSends \in Nat
      BY <2>1, <2>2
    <2> QED
      BY <2>1, <2>3 DEF Sequence
  <1>2. seen \in SUBSET Nat /\ seen # {}
    BY <1>1
  <1>3. oldest \in Nat
    BY <1>2, Least
  <1>4. Observe(e) = IF Cardinality(seen) <= Window
                     THEN [replay EXCEPT !.seen = seen]
                     ELSE [floor |-> IF oldest > replay.floor
                                     THEN oldest ELSE replay.floor,
                           seen |-> seen \ {oldest}]
    BY DEF Observe
  <1> HIDE DEF seen, oldest
  <1> QED
    BY <1>2, <1>3, <1>4

\* What the types say of a mailbox.
LEMMA BoxFacts ==
    ASSUME TypeOK
    PROVE  /\ Len(mailbox) \in Nat /\ DOMAIN mailbox = 1 .. Len(mailbox)
           /\ \A b \in DOMAIN mailbox :
                 /\ mailbox[b] \in Mailbox
                 /\ mailbox[b].items \in Seq(Envelope)
                 /\ Len(mailbox[b].items) \in Nat
                 /\ DOMAIN mailbox[b].items = 1 .. Len(mailbox[b].items)
                 /\ \A k \in DOMAIN mailbox[b].items :
                       mailbox[b].items[k] \in Envelope
                 /\ mailbox[b].acked \in Nat /\ mailbox[b].expired \in Nat
  <1>1. mailbox \in Seq(Mailbox)
    BY DEF TypeOK
  <1>2. /\ Len(mailbox) \in Nat /\ DOMAIN mailbox = 1 .. Len(mailbox)
        /\ \A b \in DOMAIN mailbox : mailbox[b] \in Mailbox
    BY <1>1, LenProperties, ElementOfSeq
  <1>3. ASSUME NEW b \in DOMAIN mailbox
        PROVE  /\ mailbox[b].items \in Seq(Envelope)
               /\ mailbox[b].acked \in Nat /\ mailbox[b].expired \in Nat
    BY <1>2, ConstantsAssumption DEF Mailbox
  <1>4. ASSUME NEW b \in DOMAIN mailbox
        PROVE  /\ Len(mailbox[b].items) \in Nat
               /\ DOMAIN mailbox[b].items = 1 .. Len(mailbox[b].items)
               /\ \A k \in DOMAIN mailbox[b].items :
                     mailbox[b].items[k] \in Envelope
    BY <1>3, LenProperties, ElementOfSeq
  <1> QED
    BY <1>2, <1>3, <1>4

\* The envelope in hand is one that the phone sent to a mailbox of the Mac.
LEMMA InHand ==
    ASSUME SyncInv, loop.step \in WithItem
    PROVE  /\ loop.rec \in Device /\ loop.rec.box \in DOMAIN mailbox
           /\ loop.item \in DOMAIN mailbox[loop.rec.box].items
           /\ Here \in Envelopes /\ Here \in Sent
           /\ Here[1] = loop.rec.box /\ Here[2] = loop.item
           /\ ItemAt(Here) = Item
           /\ Item \in Envelope /\ Item.cmd \in Commands /\ Item.cap \in Boxes
           /\ Item.cap \in DOMAIN mailbox
           /\ device \in Device
  <1> USE DEF SyncInv
  <1>1. loop.rec \in Device
    BY DEF LoopFits, MemoryOK, WithItem
  <1>2. loop.rec.box \in DOMAIN mailbox
    BY <1>1, AbsenceAssumption DEF CopiesFit, Fits
  <1>3. loop.item \in 1 .. Len(mailbox[loop.rec.box].items)
    BY <1>2, BoxFacts DEF LoopFits, MemoryOK
  <1>4. loop.item \in DOMAIN mailbox[loop.rec.box].items
    BY <1>2, <1>3, BoxFacts
  <1>5. /\ Item \in Envelope /\ Item.cmd \in Commands /\ Item.cap \in Boxes
        /\ Item.cap \in DOMAIN mailbox
    BY <1>2, <1>4, BoxFacts DEF Item, Envelope, BoxesFit, BoxFits
  <1>6. Here \in Envelopes /\ Here[1] = loop.rec.box /\ Here[2] = loop.item
    <2>1. loop.rec.box \in Boxes
      BY <1>1 DEF Device
    <2>2. loop.item \in 1 .. MaxSends
      BY <1>2, <1>3, BoxFacts, ConstantsAssumption DEF BoxesFit, BoxFits
    <2> QED
      BY <2>1, <2>2 DEF Here, Envelopes
  <1>7. Here \in Sent /\ ItemAt(Here) = Item
    BY <1>2, <1>4, <1>6 DEF Sent, ItemAt, Item
  <1>8. device \in Device
    BY <1>2, BoxFacts DEF PairingFits, TypeOK
  <1> QED
    BY <1>1, <1>2, <1>4, <1>5, <1>6, <1>7, <1>8

-----------------------------------------------------------------------------
(* How the mailboxes grow *)

BoxesGrow(old, new) ==
    /\ DOMAIN old \subseteq DOMAIN new
    /\ \A b \in DOMAIN old :
          /\ new[b].session = old[b].session
          /\ old[b].expired <= new[b].expired
          /\ Len(old[b].items) <= Len(new[b].items)
          /\ \A k \in DOMAIN old[b].items : new[b].items[k] = old[b].items[k]

\* What every step keeps: mailboxes and envelopes, receipts and the number of
\* revocations.
Grows ==
    /\ BoxesGrow(mailbox, mailbox')
    /\ receipts \subseteq receipts'
    /\ revokes <= revokes'

\* A settled envelope stays settled.
LEMMA SettledStays ==
    ASSUME NEW old \in Seq(Mailbox), NEW new \in Seq(Mailbox),
           BoxesGrow(old, new), NEW told, NEW more, told \subseteq more,
           NEW b \in DOMAIN old, NEW k \in DOMAIN old[b].items,
           Settled(old, told, b, k)
    PROVE  Settled(new, more, b, k)
  <1>1. old[b] \in Mailbox /\ new[b] \in Mailbox
    BY LenProperties, ElementOfSeq DEF BoxesGrow
  <1>2. old[b].expired \in Int /\ new[b].expired \in Int /\ k \in Int
    <2>1. old[b].items \in Seq(Envelope)
      BY <1>1 DEF Mailbox
    <2>2. k \in Int
      BY <2>1, LenProperties
    <2> QED
      BY <1>1, <2>2, ConstantsAssumption DEF Mailbox
  <1>3. old[b].expired <= new[b].expired /\ new[b].items[k] = old[b].items[k]
    BY DEF BoxesGrow
  <1> QED
    BY <1>2, <1>3 DEF Settled

\* A copy of the device record stays sound, however old it becomes.
LEMMA FitsStays ==
    ASSUME NEW old \in Seq(Mailbox), NEW new \in Seq(Mailbox),
           BoxesGrow(old, new), NEW told, NEW more, told \subseteq more,
           NEW m \in Nat, NEW n \in Nat, m <= n,
           NEW d \in Device, Fits(d, old, told, m)
    PROVE  Fits(d, new, more, n)
  <1>1. d.box \in DOMAIN old /\ d.box \in DOMAIN new
    BY DEF Fits, BoxesGrow
  <1>2. old[d.box] \in Mailbox /\ new[d.box] \in Mailbox
    BY <1>1, LenProperties, ElementOfSeq
  <1>3. /\ old[d.box].items \in Seq(Envelope)
        /\ new[d.box].items \in Seq(Envelope)
    BY <1>2 DEF Mailbox
  <1>4. /\ Len(old[d.box].items) \in Nat /\ Len(new[d.box].items) \in Nat
        /\ DOMAIN old[d.box].items = 1 .. Len(old[d.box].items)
    BY <1>3, LenProperties
  <1>5. d.cursor \in Nat /\ d.epoch \in Nat /\ d.grant \in Nat
    BY ConstantsAssumption DEF Device
  <1>6. \A k \in 1 .. d.cursor : k \in DOMAIN old[d.box].items
    BY <1>4, <1>5 DEF Fits
  <1>7. \A k \in 1 .. d.cursor : Settled(new, more, d.box, k)
    BY <1>1, <1>6, SettledStays DEF Fits
  <1>8. /\ d.session = new[d.box].session
        /\ d.cursor <= Len(new[d.box].items)
    BY <1>1, <1>4, <1>5 DEF Fits, BoxesGrow
  <1>9. /\ d.epoch <= n /\ d.grant <= n
        /\ d.revoked => n > 0
    BY <1>5 DEF Fits
  <1> QED
    BY <1>1, <1>7, <1>8, <1>9 DEF Fits

\* One mailbox is replaced by a version of it with more envelopes.
LEMMA BoxEdited ==
    ASSUME TypeOK, NEW b \in DOMAIN mailbox, NEW v \in Mailbox,
           mailbox' = [mailbox EXCEPT ![b] = v],
           v.session = mailbox[b].session,
           mailbox[b].expired <= v.expired,
           Len(mailbox[b].items) <= Len(v.items),
           \A k \in DOMAIN mailbox[b].items : v.items[k] = mailbox[b].items[k]
    PROVE  /\ mailbox' \in Seq(Mailbox) /\ Len(mailbox') = Len(mailbox)
           /\ DOMAIN mailbox' = DOMAIN mailbox
           /\ mailbox'[b] = v
           /\ \A c \in DOMAIN mailbox \ {b} : mailbox'[c] = mailbox[c]
           /\ BoxesGrow(mailbox, mailbox')
  <1>1. mailbox \in Seq(Mailbox) /\ b \in 1 .. Len(mailbox)
    BY BoxFacts DEF TypeOK
  <1>2. /\ mailbox' \in Seq(Mailbox) /\ Len(mailbox') = Len(mailbox)
        /\ \A c \in 1 .. Len(mailbox) :
              mailbox'[c] = IF c = b THEN v ELSE mailbox[c]
    BY <1>1, ExceptSeq
  <1>3. DOMAIN mailbox' = DOMAIN mailbox /\ DOMAIN mailbox = 1 .. Len(mailbox)
    BY <1>2, BoxFacts
  <1>4. /\ mailbox'[b] = v
        /\ \A c \in DOMAIN mailbox \ {b} : mailbox'[c] = mailbox[c]
    BY <1>1, <1>2, <1>3
  <1>5. \A c \in DOMAIN mailbox :
           mailbox[c].expired <= mailbox[c].expired
           /\ Len(mailbox[c].items) <= Len(mailbox[c].items)
    BY BoxFacts
  <1>6. BoxesGrow(mailbox, mailbox')
    BY <1>3, <1>4, <1>5 DEF BoxesGrow
  <1> QED
    BY <1>2, <1>3, <1>4, <1>6

\* Nothing happens to the mailboxes.
LEMMA BoxesSame ==
    ASSUME TypeOK, mailbox' = mailbox
    PROVE  mailbox' \in Seq(Mailbox) /\ BoxesGrow(mailbox, mailbox')
  <1>1. \A c \in DOMAIN mailbox :
           mailbox[c].expired <= mailbox[c].expired
           /\ Len(mailbox[c].items) <= Len(mailbox[c].items)
    BY BoxFacts
  <1> QED
    BY <1>1 DEF BoxesGrow, TypeOK

-----------------------------------------------------------------------------
(* The steps that change no file but outbox and projection and no mailbox *)

PairingTalk ==
    \E s \in Sessions :
        \/ CreatePairingSession(s) \/ CancelPairingSession(s)
        \/ ExpireInvitation(s) \/ CompletePairing(s) \/ PhoneResponds(s)
        \/ \E w \in Pollers : PollPairingSession(w, s)

PairingDelivery ==
    UploadAcceptance \/ UploadSnapshot \/ FinishPairing \/ FailPairing

Publishing ==
    \/ LoadDevice \/ FailReconcile
    \/ CompareProjection \/ UploadChanges \/ StoreProjection \/ FailPublish

WorkspaceMoves ==
    \/ \E x \in Changes : WorkspaceChanges(x)
    \/ \E c \in Commands : VersionLands(c)

Quiet ==
    \/ PairingTalk \/ PairingDelivery \/ Publishing \/ FailRevoke \/ Crash
    \/ WorkspaceMoves
    \/ UNCHANGED vars

Handling ==
    \/ RepeatEnvelope \/ AdmitChunk \/ OpenCommand \/ ApplyCommand
    \/ RecordProcessed \/ CleanupReferences \/ AdmitCommand \/ PublishReceipt
    \/ AdvanceCursor

Boxing ==
    \/ GrantCapability \/ CloseMailboxes \/ FetchPage \/ AcknowledgeItem
    \/ \E c \in Commands, kind \in {"chunk", "command"} : PhoneSend(c, kind)
    \/ \E b \in Boxes : ExpireEnvelope(b)

\* Every step is one of these.
LEMMA StepGroups ==
    ASSUME [Next]_vars PROVE Quiet \/ Handling \/ Boxing \/ Revoke
  BY DEF Next, Pairing, CompletionStep, Revocation, Environment, Reconcile,
         Quiet, Handling, Boxing, PairingTalk, PairingDelivery, Publishing,
         WorkspaceMoves

\* A quiet step leaves the reconciliation where it is, or without an envelope.
LEMMA QuietFacts ==
    ASSUME MemoryOK, Quiet
    PROVE  /\ UNCHANGED <<device, admitted, processed, blob, applied, mailbox,
                          signed, receipts, revokes>>
           /\ loop' = loop \/ loop'.step \notin WithItem
  <1> USE DEF files, store, pairings, phone, received, lineage, history
  <1>1. CASE PairingTalk
    BY <1>1 DEF PairingTalk, CreatePairingSession, CancelPairingSession,
       ExpireInvitation, CompletePairing, PhoneResponds, PollPairingSession
  <1>2. CASE PairingDelivery
    BY <1>2 DEF PairingDelivery, UploadAcceptance, UploadSnapshot,
       FinishPairing, FailPairing
  <1>3. CASE Publishing
    <2>1. {"idle", "fetching", "publishing", "uploading", "projecting"}
             \cap WithItem = {}
      BY DEF WithItem, WithRecord
    <2>2. CASE LoadDevice
      BY <2>1, <2>2 DEF LoadDevice, LoopIdle
    <2>3. CASE FailReconcile
      BY <2>1, <2>3 DEF FailReconcile, LoopIdle
    <2>4. CASE CompareProjection
      <3>1. \/ loop' = LoopIdle
            \/ loop' = [LoopIdle EXCEPT !.step = "uploading", !.rec = device,
                                        !.base = projection,
                                        !.view = workspace]
        BY <2>4, Zenon DEF CompareProjection
      <3>2. loop'.step \in {"idle", "uploading"}
        <4>1. CASE loop' = LoopIdle
          BY <4>1 DEF LoopIdle
        <4>2. CASE loop' = [LoopIdle EXCEPT !.step = "uploading",
                                !.rec = device, !.base = projection,
                                !.view = workspace]
          BY <4>2, Zenon DEF LoopIdle
        <4> QED BY <3>1, <4>1, <4>2
      <3>3. UNCHANGED <<files, mailbox, phone, received, history>>
        BY <2>4, Zenon DEF CompareProjection
      <3> QED
        BY <2>1, <3>2, <3>3
    <2>5. CASE UploadChanges
      BY <2>1, <2>5 DEF UploadChanges, MemoryOK
    <2>6. CASE StoreProjection
      BY <2>1, <2>6 DEF StoreProjection, LoopIdle
    <2>7. CASE FailPublish
      BY <2>1, <2>7 DEF FailPublish, LoopIdle
    <2> QED
      BY <1>3, <2>2, <2>3, <2>4, <2>5, <2>6, <2>7 DEF Publishing
  <1>4. CASE FailRevoke
    BY <1>4 DEF FailRevoke
  <1>5. CASE Crash
    BY <1>5 DEF Crash, LoopIdle, WithItem, WithRecord
  <1>6. CASE WorkspaceMoves
    BY <1>6 DEF WorkspaceMoves, WorkspaceChanges, VersionLands
  <1>7. CASE UNCHANGED vars
    BY <1>7 DEF vars
  <1> QED
    BY <1>1, <1>2, <1>3, <1>4, <1>5, <1>6, <1>7 DEF Quiet

\* Handling an envelope leaves the mailboxes alone, and receipts only come.
LEMMA HandlingFacts ==
    ASSUME Handling
    PROVE  /\ UNCHANGED <<mailbox, signed, phoneBox, acceptance, pairing,
                          revoker, revokes, workspace, projection, phoneView>>
           /\ receipts \subseteq receipts'
  BY DEF Handling, RepeatEnvelope, AdmitChunk, OpenCommand, ApplyCommand,
         RecordProcessed, CleanupReferences, AdmitCommand, PublishReceipt,
         AdvanceCursor, files, store, pairings, phone, received, history

\* Work on the mailboxes leaves the inbox, the journal and receipts alone.
LEMMA BoxingFacts ==
    ASSUME Boxing
    PROVE  UNCHANGED <<admitted, processed, blob, applied, acceptance,
                       receipts, phoneBox, revokes, workspace, projection,
                       phoneView,
                       session, pending, named, replay>>
  BY DEF Boxing, GrantCapability, CloseMailboxes, FetchPage, AcknowledgeItem,
         PhoneSend, ExpireEnvelope, files, store, pairings, phone, received,
         history


-----------------------------------------------------------------------------
(* The mailboxes *)

\* A mailbox that is not touched still fits.
LEMMA BoxStays ==
    ASSUME SyncInv, mailbox' \in Seq(Mailbox), BoxesGrow(mailbox, mailbox'),
           receipts \subseteq receipts',
           NEW b \in DOMAIN mailbox, mailbox'[b] = mailbox[b]
    PROVE  BoxFits(b, mailbox', receipts')
  <1>1. TypeOK /\ BoxFits(b, mailbox, receipts) /\ mailbox \in Seq(Mailbox)
    BY DEF SyncInv, BoxesFit, TypeOK
  <1>2. \A k \in 1 .. mailbox[b].acked : k \in DOMAIN mailbox[b].items
    BY <1>1, BoxFacts DEF BoxFits
  <1>3. \A k \in 1 .. mailbox[b].acked : Settled(mailbox', receipts', b, k)
    BY <1>1, <1>2, SettledStays DEF BoxFits
  <1>4. DOMAIN mailbox \subseteq DOMAIN mailbox'
    BY DEF BoxesGrow
  <1> QED
    BY <1>1, <1>3, <1>4 DEF BoxFits

\* One mailbox is edited and what it newly acknowledges is settled.
LEMMA BoxEditFits ==
    ASSUME SyncInv, receipts \subseteq receipts',
           NEW b \in DOMAIN mailbox, NEW v \in Mailbox,
           mailbox' = [mailbox EXCEPT ![b] = v],
           v.session = mailbox[b].session,
           mailbox[b].expired <= v.expired,
           Len(mailbox[b].items) <= Len(v.items),
           \A k \in DOMAIN mailbox[b].items : v.items[k] = mailbox[b].items[k],
           Len(v.items) <= MaxSends, v.expired <= Len(v.items),
           v.acked <= Len(mailbox[b].items),
           \A k \in 1 .. v.acked : Settled(mailbox, receipts, b, k),
           \A k \in DOMAIN v.items : v.items[k].cap \in DOMAIN mailbox
    PROVE  /\ mailbox' \in Seq(Mailbox) /\ BoxesGrow(mailbox, mailbox')
           /\ Len(mailbox') = Len(mailbox)
           /\ BoxesFit'
  <1>1. TypeOK /\ mailbox \in Seq(Mailbox) /\ BoxesFit
    BY DEF SyncInv, TypeOK
  <1>2. /\ mailbox' \in Seq(Mailbox) /\ Len(mailbox') = Len(mailbox)
        /\ DOMAIN mailbox' = DOMAIN mailbox
        /\ mailbox'[b] = v
        /\ \A c \in DOMAIN mailbox \ {b} : mailbox'[c] = mailbox[c]
        /\ BoxesGrow(mailbox, mailbox')
    BY <1>1, BoxEdited
  <1>3. v.items \in Seq(Envelope) /\ v.acked \in Nat
    BY ConstantsAssumption DEF Mailbox
  <1>4. /\ Len(mailbox[b].items) \in Nat /\ Len(v.items) \in Nat
        /\ DOMAIN mailbox[b].items = 1 .. Len(mailbox[b].items)
    BY <1>1, <1>3, BoxFacts, LenProperties
  <1>5. \A k \in 1 .. v.acked : k \in DOMAIN mailbox[b].items
    BY <1>3, <1>4
  <1>6. \A k \in 1 .. v.acked : Settled(mailbox', receipts', b, k)
    BY <1>1, <1>2, <1>5, SettledStays
  <1>7. v.acked <= Len(v.items)
    BY <1>3, <1>4
  <1>8. BoxFits(b, mailbox', receipts')
    BY <1>2, <1>6, <1>7 DEF BoxFits
  <1>9. \A c \in DOMAIN mailbox \ {b} : BoxFits(c, mailbox', receipts')
    BY <1>2, BoxStays
  <1>10. BoxesFit'
    BY <1>1, <1>2, <1>8, <1>9 DEF BoxesFit
  <1> QED
    BY <1>2, <1>10

\* No mailbox is touched.
LEMMA BoxesRest ==
    ASSUME SyncInv, mailbox' = mailbox, receipts \subseteq receipts'
    PROVE  /\ mailbox' \in Seq(Mailbox) /\ BoxesGrow(mailbox, mailbox')
           /\ BoxesFit'
  <1>1. mailbox' \in Seq(Mailbox) /\ BoxesGrow(mailbox, mailbox')
    BY BoxesSame DEF SyncInv
  <1>2. \A b \in DOMAIN mailbox : BoxFits(b, mailbox', receipts')
    BY <1>1, BoxStays
  <1> QED
    BY <1>1, <1>2 DEF BoxesFit, SyncInv

\* A record that fits may be acknowledged: what the relay is told to forget
\* is settled.
LEMMA AcknowledgeFits ==
    ASSUME SyncInv, receipts' = receipts,
           NEW d \in Device, Fits(d, mailbox, receipts, revokes),
           Acknowledge(d)
    PROVE  /\ mailbox' \in Seq(Mailbox) /\ BoxesGrow(mailbox, mailbox')
           /\ Len(mailbox') = Len(mailbox)
           /\ BoxesFit'
  <1> DEFINE old == mailbox[d.box]
             acked == IF d.cursor > old.acked THEN d.cursor ELSE old.acked
             v == [old EXCEPT !.acked = acked]
  <1>1. TypeOK /\ d.box \in DOMAIN mailbox /\ BoxFits(d.box, mailbox, receipts)
    BY DEF SyncInv, BoxesFit, Fits
  <1>2. old \in Mailbox /\ old.acked \in Nat /\ old.expired \in Nat
        /\ Len(old.items) \in Nat
    BY <1>1, BoxFacts
  <1>3. d.cursor \in 0 .. MaxSends /\ MaxSends \in Nat
    BY ConstantsAssumption DEF Device
  <1>4. acked \in 0 .. MaxSends
    BY <1>2, <1>3 DEF Mailbox
  <1>5. /\ acked <= Len(old.items)
        /\ \A k \in 1 .. acked : Settled(mailbox, receipts, d.box, k)
    BY <1>1, <1>2, <1>3 DEF Fits, BoxFits
  <1>6. mailbox' = [mailbox EXCEPT ![d.box] = v]
    BY DEF Acknowledge
  <1> HIDE DEF acked
  <1>7. /\ v \in Mailbox /\ v.session = old.session /\ v.items = old.items
        /\ v.expired = old.expired /\ v.acked = acked
    BY <1>2, <1>4 DEF Mailbox
  <1>8. old.expired <= v.expired /\ Len(old.items) <= Len(v.items)
    BY <1>2, <1>7
  <1>9. /\ Len(v.items) <= MaxSends /\ v.expired <= Len(v.items)
        /\ \A k \in DOMAIN v.items : v.items[k].cap \in DOMAIN mailbox
        /\ \A k \in DOMAIN old.items : v.items[k] = old.items[k]
    BY <1>1, <1>7 DEF BoxFits
  <1>10. v.acked <= Len(old.items)
         /\ \A k \in 1 .. v.acked : Settled(mailbox, receipts, d.box, k)
    BY <1>5, <1>7
  <1> HIDE DEF v
  <1> QED
    BY <1>1, <1>6, <1>7, <1>8, <1>9, <1>10, BoxEditFits

\* A cursor moved to the end of the expired prefix has passed nothing that
\* was kept and not answered.
LEMMA ResetFits ==
    ASSUME SyncInv, NEW d \in Device, Fits(d, mailbox, receipts, revokes)
    PROVE  /\ [d EXCEPT !.cursor = mailbox[d.box].expired] \in Device
           /\ Fits([d EXCEPT !.cursor = mailbox[d.box].expired],
                   mailbox, receipts, revokes)
  <1> DEFINE n == mailbox[d.box].expired
             e == [d EXCEPT !.cursor = n]
  <1>1. d.box \in DOMAIN mailbox /\ TypeOK /\ BoxesFit
    BY DEF Fits, SyncInv
  <1>2. n \in 0 .. MaxSends /\ n \in Nat
    BY <1>1, BoxFacts, ConstantsAssumption DEF Mailbox
  <1>3. n <= Len(mailbox[d.box].items)
    BY <1>1 DEF BoxesFit, BoxFits
  <1>4. \A k \in 1 .. n : Settled(mailbox, receipts, d.box, k)
    BY <1>2 DEF Settled
  <1> HIDE DEF n
  <1>5. /\ e \in Device
        /\ e.box = d.box /\ e.session = d.session /\ e.cursor = n
        /\ e.epoch = d.epoch /\ e.grant = d.grant /\ e.revoked = d.revoked
    BY <1>2 DEF Device
  <1> HIDE DEF e
  <1>6. Fits(e, mailbox, receipts, revokes)
    BY <1>1, <1>3, <1>4, <1>5 DEF Fits
  <1> QED
    BY <1>5, <1>6 DEF e, n

\* The record in hand is a copy.
LEMMA RecordFits ==
    ASSUME SyncInv, loop.step \in WithRecord
    PROVE  loop.rec \in Device /\ Fits(loop.rec, mailbox, receipts, revokes)
  BY DEF SyncInv, MemoryOK, CopiesFit, LoopFits

\* GrantCapability adds a mailbox without envelopes.
LEMMA GrantBoxes ==
    ASSUME SyncInv, receipts' = receipts, NEW s \in Sessions,
           Len(mailbox) < MaxBoxes,
           mailbox' = Append(mailbox, [session |-> s, items |-> <<>>,
                                       acked |-> 0, expired |-> 0,
                                       closed |-> FALSE])
    PROVE  /\ mailbox' \in Seq(Mailbox) /\ BoxesGrow(mailbox, mailbox')
           /\ Len(mailbox') = Len(mailbox) + 1
           /\ DOMAIN mailbox' = 1 .. Len(mailbox) + 1
           /\ mailbox'[Len(mailbox) + 1] =
                 [session |-> s, items |-> <<>>, acked |-> 0, expired |-> 0,
                  closed |-> FALSE]
           /\ \A b \in DOMAIN mailbox : mailbox'[b] = mailbox[b]
           /\ BoxesFit'
  <1> DEFINE new == [session |-> s, items |-> <<>>, acked |-> 0, expired |-> 0,
                     closed |-> FALSE]
             n == Len(mailbox) + 1
  <1>1. TypeOK /\ mailbox \in Seq(Mailbox) /\ BoxesFit
    BY DEF SyncInv, TypeOK
  <1>2. new \in Mailbox
    <2>1. <<>> \in Seq(Envelope)
      OBVIOUS
    <2> QED
      BY <2>1, ConstantsAssumption DEF Mailbox
  <1>3. new.items = <<>> /\ new.acked = 0 /\ new.expired = 0
    OBVIOUS
  <1> HIDE DEF new
  <1>4. /\ mailbox' \in Seq(Mailbox) /\ Len(mailbox') = n
        /\ \A b \in 1 .. Len(mailbox) : mailbox'[b] = mailbox[b]
        /\ mailbox'[n] = new
    BY <1>1, <1>2, AppendProperties DEF new
  <1>5. /\ Len(mailbox) \in Nat /\ DOMAIN mailbox = 1 .. Len(mailbox)
        /\ DOMAIN mailbox' = 1 .. n
    BY <1>1, <1>4, BoxFacts, LenProperties
  <1>6. \A c \in DOMAIN mailbox :
           mailbox[c].expired <= mailbox[c].expired
           /\ Len(mailbox[c].items) <= Len(mailbox[c].items)
    BY <1>1, BoxFacts
  <1>7. BoxesGrow(mailbox, mailbox')
    BY <1>4, <1>5, <1>6 DEF BoxesGrow
  <1>8. \A b \in DOMAIN mailbox : BoxFits(b, mailbox', receipts')
    BY <1>4, <1>5, <1>7, BoxStays
  <1>9. BoxFits(n, mailbox', receipts')
    <2>1. Len(<<>>) = 0 /\ DOMAIN <<>> = {} /\ MaxSends \in Nat
      BY ConstantsAssumption
    <2> QED
      BY <1>3, <1>4, <2>1 DEF BoxFits
  <1>10. BoxesFit'
    <2>1. \A b \in DOMAIN mailbox' : b \in DOMAIN mailbox \/ b = n
      BY <1>5
    <2>2. Len(mailbox') <= MaxBoxes
      BY <1>4, <1>5, ConstantsAssumption
    <2> QED
      BY <1>8, <1>9, <2>1, <2>2 DEF BoxesFit
  <1> QED
    BY <1>4, <1>5, <1>7, <1>10 DEF new

\* Closing a mailbox keeps its envelopes and what it acknowledged.
LEMMA CloseBoxes ==
    ASSUME SyncInv, CloseMailboxes
    PROVE  /\ mailbox' \in Seq(Mailbox) /\ BoxesGrow(mailbox, mailbox')
           /\ Len(mailbox') = Len(mailbox)
           /\ BoxesFit'
  <1> DEFINE b == revoker.box
             old == mailbox[b]
             v == [old EXCEPT !.closed = TRUE]
  <1>1. /\ TypeOK /\ b \in DOMAIN mailbox /\ BoxFits(b, mailbox, receipts)
        /\ receipts' = receipts /\ mailbox' = [mailbox EXCEPT ![b] = v]
    BY DEF CloseMailboxes, SyncInv, CopiesFit, Fits, BoxesFit, received
  <1>2. old \in Mailbox /\ old.expired \in Nat /\ Len(old.items) \in Nat
    BY <1>1, BoxFacts
  <1> HIDE DEF b, old
  <1>3. /\ v \in Mailbox /\ v.session = old.session /\ v.items = old.items
        /\ v.expired = old.expired /\ v.acked = old.acked
    BY <1>2 DEF Mailbox
  <1>4. old.expired <= v.expired /\ Len(old.items) <= Len(v.items)
    BY <1>2, <1>3
  <1>5. /\ Len(v.items) <= MaxSends /\ v.expired <= Len(v.items)
        /\ \A k \in DOMAIN v.items : v.items[k].cap \in DOMAIN mailbox
        /\ \A k \in DOMAIN old.items : v.items[k] = old.items[k]
        /\ v.acked <= Len(old.items)
        /\ \A k \in 1 .. v.acked : Settled(mailbox, receipts, b, k)
    BY <1>1, <1>3 DEF BoxFits, old
  <1> HIDE DEF v
  <1> QED
    BY <1>1, <1>3, <1>4, <1>5, BoxEditFits DEF old

\* What the relay's retention drops counts as settled.
LEMMA ExpireBoxes ==
    ASSUME SyncInv, NEW b \in Boxes, ExpireEnvelope(b)
    PROVE  /\ mailbox' \in Seq(Mailbox) /\ BoxesGrow(mailbox, mailbox')
           /\ Len(mailbox') = Len(mailbox)
           /\ BoxesFit'
  <1> DEFINE old == mailbox[b]
             v == [old EXCEPT !.expired = @ + 1]
  <1>1. /\ TypeOK /\ b \in DOMAIN mailbox /\ BoxFits(b, mailbox, receipts)
        /\ receipts' = receipts /\ mailbox' = [mailbox EXCEPT ![b] = v]
        /\ old.expired < Len(old.items)
    BY DEF ExpireEnvelope, SyncInv, BoxesFit, received
  <1>2. old \in Mailbox /\ old.expired \in Nat /\ Len(old.items) \in Nat
    BY <1>1, BoxFacts
  <1>3. Len(old.items) <= MaxSends /\ MaxSends \in Nat
    BY <1>1, ConstantsAssumption DEF BoxFits
  <1> HIDE DEF old
  <1>4. old.expired + 1 \in 0 .. MaxSends
    BY <1>1, <1>2, <1>3
  <1>5. /\ v \in Mailbox /\ v.session = old.session /\ v.items = old.items
        /\ v.expired = old.expired + 1 /\ v.acked = old.acked
    BY <1>2, <1>4 DEF Mailbox
  <1>6. /\ old.expired <= v.expired /\ Len(old.items) <= Len(v.items)
        /\ v.expired <= Len(v.items)
    BY <1>1, <1>2, <1>5
  <1>7. /\ Len(v.items) <= MaxSends
        /\ \A k \in DOMAIN v.items : v.items[k].cap \in DOMAIN mailbox
        /\ \A k \in DOMAIN old.items : v.items[k] = old.items[k]
        /\ v.acked <= Len(old.items)
        /\ \A k \in 1 .. v.acked : Settled(mailbox, receipts, b, k)
    BY <1>1, <1>5 DEF BoxFits, old
  <1> HIDE DEF v
  <1> QED
    BY <1>1, <1>5, <1>6, <1>7, BoxEditFits DEF old

\* PhoneSend adds one envelope, sealed for a capability that was granted.
LEMMA SendBoxes ==
    ASSUME SyncInv, NEW c \in Commands, NEW kind \in {"chunk", "command"},
           PhoneSend(c, kind)
    PROVE  /\ mailbox' \in Seq(Mailbox) /\ BoxesGrow(mailbox, mailbox')
           /\ Len(mailbox') = Len(mailbox)
           /\ BoxesFit'
  <1> DEFINE b == phoneBox
             old == mailbox[b]
             cap == IF signed[c] = None THEN phoneBox ELSE signed[c]
             item == [cmd |-> c, kind |-> kind, cap |-> cap]
             v == [old EXCEPT !.items = Append(@, item)]
  <1>1. /\ TypeOK /\ receipts' = receipts
        /\ mailbox' = [mailbox EXCEPT ![b] = v]
        /\ b # None /\ Len(old.items) < MaxSends
    BY DEF PhoneSend, SyncInv, received
  <1>2. b \in DOMAIN mailbox /\ cap \in DOMAIN mailbox
    BY <1>1 DEF SyncInv, Named
  <1>3. BoxFits(b, mailbox, receipts) /\ Len(mailbox) <= MaxBoxes
    BY <1>2 DEF SyncInv, BoxesFit
  <1>4. /\ old \in Mailbox /\ old.expired \in Nat /\ Len(old.items) \in Nat
        /\ old.items \in Seq(Envelope)
        /\ DOMAIN old.items = 1 .. Len(old.items)
    BY <1>1, <1>2, BoxFacts
  <1>5. cap \in Boxes
    BY <1>1, <1>2, <1>3, BoxFacts, ConstantsAssumption DEF Boxes
  <1> HIDE DEF cap, old
  <1>6. item \in Envelope /\ item.cap = cap
    BY <1>5 DEF Envelope
  <1> HIDE DEF item
  <1>7. /\ Append(old.items, item) \in Seq(Envelope)
        /\ Len(Append(old.items, item)) = Len(old.items) + 1
        /\ \A k \in 1 .. Len(old.items) :
              Append(old.items, item)[k] = old.items[k]
        /\ Append(old.items, item)[Len(old.items) + 1] = item
        /\ DOMAIN Append(old.items, item) = 1 .. Len(old.items) + 1
    BY <1>4, <1>6, AppendProperties, LenProperties
  <1>8. /\ v \in Mailbox /\ v.session = old.session
        /\ v.items = Append(old.items, item)
        /\ v.expired = old.expired /\ v.acked = old.acked
    BY <1>4, <1>7 DEF Mailbox
  <1> HIDE DEF v
  <1>9. /\ old.expired <= v.expired /\ Len(old.items) <= Len(v.items)
        /\ Len(v.items) <= MaxSends
        /\ v.expired <= Len(v.items)
    <2>1. old.expired <= Len(old.items) /\ MaxSends \in Nat
      BY <1>3, ConstantsAssumption DEF BoxFits, old
    <2> QED
      BY <1>1, <1>4, <1>7, <1>8, <2>1
  <1>10. \A k \in DOMAIN old.items : v.items[k] = old.items[k]
    BY <1>4, <1>7, <1>8
  <1>11. /\ v.acked <= Len(old.items)
         /\ \A k \in 1 .. v.acked : Settled(mailbox, receipts, b, k)
    BY <1>3, <1>8 DEF BoxFits, old
  <1>12. \A k \in DOMAIN v.items : v.items[k].cap \in DOMAIN mailbox
    <2> SUFFICES ASSUME NEW k \in DOMAIN v.items
                 PROVE  v.items[k].cap \in DOMAIN mailbox
      OBVIOUS
    <2>1. k \in 1 .. Len(old.items) \/ k = Len(old.items) + 1
      BY <1>4, <1>7, <1>8
    <2>2. CASE k \in 1 .. Len(old.items)
      BY <1>3, <1>4, <1>10, <2>2 DEF BoxFits, old
    <2>3. CASE k = Len(old.items) + 1
      BY <1>2, <1>6, <1>7, <1>8, <2>3
    <2> QED
      BY <2>1, <2>2, <2>3
  <1> HIDE DEF b
  <1> QED
    BY <1>1, <1>2, <1>8, <1>9, <1>10, <1>11, <1>12, BoxEditFits DEF old

\* FetchPage acknowledges up to the cursor of the record it holds.
LEMMA FetchBoxes ==
    ASSUME SyncInv, FetchPage
    PROVE  /\ mailbox' \in Seq(Mailbox) /\ BoxesGrow(mailbox, mailbox')
           /\ Len(mailbox') = Len(mailbox)
           /\ BoxesFit'
  <1> DEFINE reset == [loop.rec EXCEPT
                         !.cursor = mailbox[loop.rec.box].expired]
  <1>1. /\ loop.step = "fetching" /\ receipts' = receipts
        /\ Acknowledge(reset) \/ Acknowledge(loop.rec)
    BY DEF FetchPage, received
  <1>2. loop.rec \in Device /\ Fits(loop.rec, mailbox, receipts, revokes)
    BY <1>1, RecordFits DEF WithRecord, LoopSteps
  <1>3. reset \in Device /\ Fits(reset, mailbox, receipts, revokes)
    BY <1>2, ResetFits
  <1> HIDE DEF reset
  <1> QED
    BY <1>1, <1>2, <1>3, AcknowledgeFits

\* AcknowledgeItem acknowledges the envelope the cursor has passed.
LEMMA AcknowledgeBoxes ==
    ASSUME SyncInv, AcknowledgeItem
    PROVE  /\ mailbox' \in Seq(Mailbox) /\ BoxesGrow(mailbox, mailbox')
           /\ Len(mailbox') = Len(mailbox)
           /\ BoxesFit'
  <1>1. /\ loop.step = "acking" /\ receipts' = receipts
        /\ Acknowledge(loop.rec)
    BY DEF AcknowledgeItem, received
  <1>2. loop.rec \in Device /\ Fits(loop.rec, mailbox, receipts, revokes)
    BY <1>1, RecordFits DEF WithRecord, LoopSteps
  <1> QED
    BY <1>1, <1>2, AcknowledgeFits

\* No step takes a mailbox, an envelope, a receipt or a revocation back, and
\* what the relay was told to forget stays settled.
LEMMA BoxesStep ==
    ASSUME SyncInv, [Next]_vars
    PROVE  mailbox' \in Seq(Mailbox) /\ Grows /\ BoxesFit'
  <1>1. revokes \in Nat
    BY ConstantsAssumption DEF SyncInv, MemoryOK
  <1>2. CASE Quiet
    <2>1. UNCHANGED <<mailbox, receipts, revokes>>
      BY <1>2, QuietFacts DEF SyncInv
    <2> QED
      BY <1>1, <2>1, BoxesRest DEF Grows
  <1>3. CASE Handling
    <2>1. UNCHANGED <<mailbox, revokes>> /\ receipts \subseteq receipts'
      BY <1>3, HandlingFacts
    <2> QED
      BY <1>1, <2>1, BoxesRest DEF Grows
  <1>4. CASE Revoke
    <2>1. /\ UNCHANGED <<mailbox, receipts>>
          /\ revokes' = revokes \/ revokes' = revokes + 1
      BY <1>4 DEF Revoke, received
    <2> QED
      BY <1>1, <2>1, BoxesRest DEF Grows
  <1>5. CASE Boxing
    <2>1. UNCHANGED <<receipts, revokes>>
      BY <1>5, BoxingFacts
    <2>2. CASE GrantCapability
      <3>1. pairing.session \in Sessions
        BY <2>2 DEF GrantCapability, SyncInv, PairingFits
      <3>2. \/ mailbox' = mailbox
            \/ /\ Len(mailbox) < MaxBoxes
               /\ mailbox' = Append(mailbox,
                               [session |-> pairing.session, items |-> <<>>,
                                acked |-> 0, expired |-> 0, closed |-> FALSE])
        BY <2>2 DEF GrantCapability
      <3> QED
        BY <1>1, <2>1, <3>1, <3>2, BoxesRest, GrantBoxes DEF Grows
    <2>3. CASE CloseMailboxes
      BY <1>1, <2>1, <2>3, CloseBoxes DEF Grows
    <2>4. CASE FetchPage
      BY <1>1, <2>1, <2>4, FetchBoxes DEF Grows
    <2>5. CASE AcknowledgeItem
      BY <1>1, <2>1, <2>5, AcknowledgeBoxes DEF Grows
    <2>6. CASE \E c \in Commands, kind \in {"chunk", "command"} :
                  PhoneSend(c, kind)
      BY <1>1, <2>1, <2>6, SendBoxes DEF Grows
    <2>7. CASE \E b \in Boxes : ExpireEnvelope(b)
      BY <1>1, <2>1, <2>7, ExpireBoxes DEF Grows
    <2> QED
      BY <1>5, <2>2, <2>3, <2>4, <2>5, <2>6, <2>7 DEF Boxing
  <1> QED
    BY <1>2, <1>3, <1>4, <1>5, StepGroups

\* Only a grant changes the number of mailboxes.
LEMMA SameBoxes ==
    ASSUME SyncInv, [Next]_vars, ~GrantCapability
    PROVE  Len(mailbox') = Len(mailbox)
  <1>1. CASE Quiet \/ Handling \/ Revoke
    BY <1>1, QuietFacts, HandlingFacts DEF Revoke, SyncInv
  <1>2. CASE Boxing
    BY <1>2, CloseBoxes, FetchBoxes, AcknowledgeBoxes, SendBoxes, ExpireBoxes
       DEF Boxing
  <1> QED
    BY <1>1, <1>2, StepGroups

\* A mailbox that exists, and an envelope that was sent, stay what they are.
LEMMA SentStays ==
    ASSUME SyncInv, [Next]_vars
    PROVE  /\ DOMAIN mailbox \subseteq DOMAIN mailbox'
           /\ \A e \in Sent :
                 e \in Sent' /\ mailbox'[e[1]].items[e[2]] = ItemAt(e)
           /\ \A b \in DOMAIN mailbox : \A k \in DOMAIN mailbox[b].items :
                 mailbox'[b].items[k] = mailbox[b].items[k]
  <1>1. mailbox' \in Seq(Mailbox) /\ BoxesGrow(mailbox, mailbox')
    BY BoxesStep DEF Grows
  <1>2. DOMAIN mailbox \subseteq DOMAIN mailbox'
    BY <1>1 DEF BoxesGrow
  <1>3. ASSUME NEW b \in DOMAIN mailbox
        PROVE  DOMAIN mailbox[b].items \subseteq DOMAIN mailbox'[b].items
    <2>1. mailbox'[b] \in Mailbox
      BY <1>1, <1>2, LenProperties, ElementOfSeq
    <2>2. mailbox'[b].items \in Seq(Envelope)
      BY <2>1 DEF Mailbox
    <2>3. /\ Len(mailbox'[b].items) \in Nat
          /\ DOMAIN mailbox'[b].items = 1 .. Len(mailbox'[b].items)
      BY <2>2, LenProperties
    <2>4. /\ Len(mailbox[b].items) \in Nat
          /\ DOMAIN mailbox[b].items = 1 .. Len(mailbox[b].items)
      BY BoxFacts DEF SyncInv
    <2>5. Len(mailbox[b].items) <= Len(mailbox'[b].items)
      BY <1>1 DEF BoxesGrow
    <2> QED
      BY <2>3, <2>4, <2>5
  <1>4. \A e \in Sent : e \in Sent'
    BY <1>2, <1>3 DEF Sent
  <1>5. \A b \in DOMAIN mailbox : \A k \in DOMAIN mailbox[b].items :
           mailbox'[b].items[k] = mailbox[b].items[k]
    BY <1>1 DEF BoxesGrow
  <1>6. \A e \in Sent : mailbox'[e[1]].items[e[2]] = ItemAt(e)
    BY <1>5 DEF Sent, ItemAt
  <1> QED
    BY <1>2, <1>4, <1>5, <1>6

-----------------------------------------------------------------------------
(* The copies of the device record and the reconciliation's own state *)

\* Revocations are counted and bounded.
LEMMA RevokesCount ==
    ASSUME SyncInv, [Next]_vars
    PROVE  revokes \in Nat /\ revokes' \in 0 .. MaxRevokes /\ revokes' \in Nat
  <1>1. revokes \in 0 .. MaxRevokes /\ MaxRevokes \in Nat
    BY ConstantsAssumption DEF SyncInv, MemoryOK
  <1>2. \/ revokes' = revokes
        \/ revokes < MaxRevokes /\ revokes' = revokes + 1
    <2>1. CASE Quiet \/ Handling \/ Boxing
      BY <2>1, QuietFacts, HandlingFacts, BoxingFacts DEF SyncInv
    <2>2. CASE Revoke
      BY <2>2 DEF Revoke
    <2> QED
      BY <2>1, <2>2, StepGroups
  <1> QED
    BY <1>1, <1>2

\* No record, or one that fits.
Copy(d, boxes, told, count) ==
    d = None \/ (d \in Device /\ Fits(d, boxes, told, count))

\* A copy that fits before a step fits after it.
LEMMA CopyStays ==
    ASSUME SyncInv, [Next]_vars, NEW d, Copy(d, mailbox, receipts, revokes)
    PROVE  Copy(d, mailbox', receipts', revokes')
  <1>1. mailbox \in Seq(Mailbox)
    BY DEF SyncInv, TypeOK
  <1>2. /\ mailbox' \in Seq(Mailbox) /\ BoxesGrow(mailbox, mailbox')
        /\ receipts \subseteq receipts' /\ revokes <= revokes'
        /\ revokes \in Nat /\ revokes' \in Nat
    BY BoxesStep, RevokesCount DEF Grows
  <1>3. CASE d = None
    BY <1>3 DEF Copy
  <1>4. CASE d # None
    BY <1>1, <1>2, <1>4, FitsStays DEF Copy
  <1> QED
    BY <1>3, <1>4

\* The invariant, said of each copy.
LEMMA OldCopies ==
    ASSUME SyncInv
    PROVE  \A d \in {device, revoker, loop.rec, loop.prior, pairing.seen} :
              Copy(d, mailbox, receipts, revokes)
  <1>1. \A d \in {device, revoker, loop.rec, loop.prior, pairing.seen} :
           d \in Device \cup {None}
    BY DEF SyncInv, TypeOK, MemoryOK
  <1> QED
    BY <1>1 DEF SyncInv, CopiesFit, Copy

\* Every copy that exists before a step would fit after it.
LEMMA CopiesStay ==
    ASSUME SyncInv, [Next]_vars
    PROVE  \A d \in {device, revoker, loop.rec, loop.prior, pairing.seen} :
              Copy(d, mailbox', receipts', revokes')
  BY OldCopies, CopyStays

\* An envelope keeps its place and its contents, and stays settled.
LEMMA EnvelopeStays ==
    ASSUME SyncInv, [Next]_vars, NEW b \in DOMAIN mailbox,
           NEW k \in DOMAIN mailbox[b].items
    PROVE  /\ b \in DOMAIN mailbox'
           /\ mailbox'[b].items[k] = mailbox[b].items[k]
           /\ Len(mailbox[b].items) \in Nat /\ Len(mailbox'[b].items) \in Nat
           /\ Len(mailbox[b].items) <= Len(mailbox'[b].items)
           /\ Settled(mailbox, receipts, b, k) =>
                 Settled(mailbox', receipts', b, k)
  <1>1. /\ mailbox' \in Seq(Mailbox) /\ BoxesGrow(mailbox, mailbox')
        /\ receipts \subseteq receipts'
    BY BoxesStep DEF Grows
  <1>2. mailbox \in Seq(Mailbox) /\ TypeOK
    BY DEF SyncInv, TypeOK
  <1>3. b \in DOMAIN mailbox'
    BY <1>1 DEF BoxesGrow
  <1>4. Len(mailbox[b].items) \in Nat
    BY <1>2, BoxFacts
  <1>5. Len(mailbox'[b].items) \in Nat
    <2>1. mailbox'[b] \in Mailbox
      BY <1>1, <1>3, LenProperties, ElementOfSeq
    <2>2. mailbox'[b].items \in Seq(Envelope)
      BY <2>1 DEF Mailbox
    <2> QED
      BY <2>2, LenProperties
  <1>6. /\ mailbox'[b].items[k] = mailbox[b].items[k]
        /\ Len(mailbox[b].items) <= Len(mailbox'[b].items)
    BY <1>1 DEF BoxesGrow
  <1>7. Settled(mailbox, receipts, b, k) => Settled(mailbox', receipts', b, k)
    BY <1>1, <1>2, SettledStays
  <1> QED
    BY <1>3, <1>4, <1>5, <1>6, <1>7

LoopType ==
    [step : LoopSteps, rec : Device \cup {None},
     prior : Device \cup {None}, item : 0 .. MaxSends,
     last : 0 .. MaxSends, result : Results \cup {None},
     base : (SUBSET Changes) \cup {None}, view : SUBSET Changes]

\* What a pass of the reconciliation starts from and comes back to.
LEMMA IdleLoops ==
    ASSUME NEW at \in LoopSteps, NEW rec \in Device \cup {None},
           NEW base \in (SUBSET Changes) \cup {None},
           NEW view \in SUBSET Changes
    PROVE  LET l == [step |-> at, rec |-> rec, prior |-> None, item |-> 0,
                     last |-> 0, result |-> None, base |-> base, view |-> view]
           IN  /\ l \in LoopType
               /\ l.step = at /\ l.rec = rec /\ l.prior = None
  BY ConstantsAssumption DEF LoopType

\* Where the reconciliation was, it still is when another step is taken.
LEMMA LoopFitsStays ==
    ASSUME SyncInv, [Next]_vars, loop' = loop
    PROVE  LoopFits'
  <1>1. LoopFits
    BY DEF SyncInv
  <1>2. CASE loop.step \notin WithItem
    <2>1. /\ loop.step \notin WithPrior /\ loop.step \notin WithCommand
          /\ loop.step \notin WithResult /\ loop.step # "advancing"
      BY <1>2 DEF WithPrior, WithCommand, WithResult, WithItem, WithRecord,
                  LoopSteps
    <2> QED
      BY <1>1, <1>2, <2>1 DEF LoopFits
  <1>3. CASE loop.step \in WithItem
    <2> DEFINE b == loop.rec.box
               k == loop.item
    <2>1. b \in DOMAIN mailbox /\ k \in DOMAIN mailbox[b].items
      BY <1>3, InHand
    <2>2. /\ mailbox'[b].items[k] = mailbox[b].items[k]
          /\ Len(mailbox[b].items) \in Nat /\ Len(mailbox'[b].items) \in Nat
          /\ Len(mailbox[b].items) <= Len(mailbox'[b].items)
          /\ Settled(mailbox, receipts, b, k) =>
                Settled(mailbox', receipts', b, k)
      BY <2>1, EnvelopeStays
    <2>3. loop.last \in Int
      BY ConstantsAssumption DEF SyncInv, MemoryOK
    <2>4. Item' = Item
      BY <2>2 DEF Item
    <2>5. loop.last <= Len(mailbox'[b].items)
      <3>1. loop.last <= Len(mailbox[b].items)
        BY <1>1, <1>3 DEF LoopFits
      <3> QED
        BY <2>2, <2>3, <3>1
    <2> QED
      BY <1>1, <2>2, <2>4, <2>5 DEF LoopFits
  <1> QED
    BY <1>2, <1>3

LoopSound ==
    /\ loop \in LoopType /\ LoopFits
    /\ Copy(loop.rec, mailbox, receipts, revokes)
    /\ Copy(loop.prior, mailbox, receipts, revokes)

\* A step that leaves the reconciliation without an envelope in hand.
LEMMA RestingLoop ==
    ASSUME SyncInv, [Next]_vars,
           NEW at \in {"idle", "publishing", "fetching", "uploading",
                         "projecting"},
           NEW rec \in {None, device, loop.rec},
           at \in WithRecord => rec # None,
           NEW base \in (SUBSET Changes) \cup {None},
           NEW view \in SUBSET Changes,
           loop' = [step |-> at, rec |-> rec, prior |-> None, item |-> 0,
                    last |-> 0, result |-> None, base |-> base, view |-> view]
    PROVE  LoopSound'
  <1>1. at \in LoopSteps /\ rec \in Device \cup {None}
    BY DEF LoopSteps, SyncInv, TypeOK, MemoryOK
  <1>2. /\ loop' \in LoopType
        /\ loop'.step = at /\ loop'.rec = rec /\ loop'.prior = None
    BY <1>1, IdleLoops
  <1>3. /\ Copy(loop'.rec, mailbox', receipts', revokes')
        /\ Copy(loop'.prior, mailbox', receipts', revokes')
    BY <1>2, CopiesStay DEF Copy
  <1>4. /\ at \notin WithItem /\ at \notin WithPrior
        /\ at \notin WithCommand /\ at \notin WithResult
        /\ at # "advancing"
    BY DEF WithPrior, WithCommand, WithResult, WithItem, WithRecord, LoopSteps
  <1>5. LoopFits'
    BY <1>2, <1>4 DEF LoopFits
  <1> QED
    BY <1>2, <1>3, <1>5 DEF LoopSound, LoopType

\* A step on the envelope in hand that keeps it in hand.
LEMMA HandlingLoop ==
    ASSUME SyncInv, [Next]_vars, mailbox' = mailbox, loop' \in LoopType,
           loop.step \in WithItem \ {"acking"},
           loop'.step \in WithItem \ {"acking"},
           loop'.rec = loop.rec, loop'.item = loop.item,
           loop'.last = loop.last,
           loop'.prior \in {None, device, loop.prior},
           loop'.step \in WithPrior => loop'.prior # None,
           loop'.step \in WithCommand => Item.kind = "command",
           loop'.step \in WithResult => loop'.result # None,
           loop'.step = "advancing" =>
              Settled(mailbox', receipts', loop.rec.box, loop.item)
    PROVE  LoopSound'
  <1>1. LoopFits /\ loop.step \in WithRecord
    BY DEF SyncInv, WithItem
  <1>2. /\ Copy(loop'.rec, mailbox', receipts', revokes')
        /\ Copy(loop'.prior, mailbox', receipts', revokes')
    BY CopiesStay DEF Copy
  <1>3. Item' = Item
    BY DEF Item
  <1>4. /\ loop'.rec # None
        /\ loop'.item \in 1 .. loop'.last
        /\ loop'.last <= Len(mailbox'[loop'.rec.box].items)
        /\ loop'.rec.cursor = loop'.item - 1
    BY <1>1 DEF LoopFits
  <1>5. LoopFits'
    BY <1>3, <1>4 DEF LoopFits
  <1> QED
    BY <1>2, <1>5 DEF LoopSound, LoopType

\* A pass begins with the device record.
LEMMA LoadLoop ==
    ASSUME SyncInv, [Next]_vars, LoadDevice PROVE LoopSound'
  <1>1. /\ device # None
        /\ loop' = [LoopIdle EXCEPT !.step = "fetching", !.rec = device]
    BY Zenon DEF LoadDevice
  <1>2. loop' = [step |-> "fetching", rec |-> device, prior |-> None,
                 item |-> 0, last |-> 0, result |-> None,
                 base |-> None, view |-> {}]
    BY <1>1, Zenon DEF LoopIdle
  <1>3. None \in (SUBSET Changes) \cup {None} /\ {} \in SUBSET Changes
    OBVIOUS
  <1> QED
    BY <1>1, <1>2, <1>3, RestingLoop, Zenon

\* A pass ends, or fails, and the publication of changes comes next.
LEMMA PublishLoop ==
    ASSUME SyncInv, [Next]_vars,
           loop' = [LoopIdle EXCEPT !.step = "publishing"]
    PROVE  LoopSound'
  <1>1. loop' = [step |-> "publishing", rec |-> None, prior |-> None,
                 item |-> 0, last |-> 0, result |-> None,
                 base |-> None, view |-> {}]
    BY Zenon DEF LoopIdle
  <1>2. "publishing" \notin WithRecord
    BY DEF WithRecord
  <1>3. None \in (SUBSET Changes) \cup {None} /\ {} \in SUBSET Changes
    OBVIOUS
  <1> QED
    BY <1>1, <1>2, <1>3, RestingLoop, Zenon

\* The reconciliation rests.
LEMMA IdleLoop ==
    ASSUME SyncInv, [Next]_vars, loop' = LoopIdle
    PROVE  LoopSound'
  <1>1. "idle" \notin WithRecord
    BY DEF WithRecord
  <1> QED
    BY <1>1, RestingLoop DEF LoopIdle

\* The publication of changes begins or has nothing to do.
LEMMA CompareLoop ==
    ASSUME SyncInv, [Next]_vars, CompareProjection PROVE LoopSound'
  <1>1. CASE loop' = LoopIdle
    BY <1>1, IdleLoop
  <1>2. CASE /\ device # None
             /\ loop' = [LoopIdle EXCEPT !.step = "uploading", !.rec = device,
                                         !.base = projection,
                                         !.view = workspace]
    <2>1. loop' = [step |-> "uploading", rec |-> device, prior |-> None,
                   item |-> 0, last |-> 0, result |-> None,
                   base |-> projection, view |-> workspace]
      BY <1>2, Zenon DEF LoopIdle
    <2>2. /\ projection \in (SUBSET Changes) \cup {None}
          /\ workspace \in SUBSET Changes
      BY DEF SyncInv, TypeOK
    <2> QED
      BY <1>2, <2>1, <2>2, RestingLoop
  <1> QED
    BY <1>1, <1>2, Zenon DEF CompareProjection

\* The upload of changes is followed by the projection.
LEMMA UploadLoop ==
    ASSUME SyncInv, [Next]_vars, UploadChanges PROVE LoopSound'
  <1>1. loop.step = "uploading" /\ loop' = [loop EXCEPT !.step = "projecting"]
    BY DEF UploadChanges
  <1>2. loop \in LoopType
    BY DEF SyncInv, MemoryOK, LoopType
  <1>3. /\ loop' \in LoopType /\ loop'.step = "projecting"
        /\ loop'.rec = loop.rec /\ loop'.prior = loop.prior
    BY <1>1, <1>2 DEF LoopType, LoopSteps
  <1>4. loop.rec # None
    BY <1>1 DEF SyncInv, LoopFits, WithRecord, LoopSteps
  <1>5. LoopFits'
    BY <1>3, <1>4 DEF LoopFits, WithPrior, WithCommand, WithResult, WithItem,
                      WithRecord, LoopSteps
  <1> QED
    BY <1>3, <1>5, CopiesStay DEF LoopSound, LoopType

\* A page begins right after the cursor.
LEMMA FetchLoop ==
    ASSUME SyncInv, [Next]_vars, FetchPage PROVE LoopSound'
  <1> DEFINE d == loop.rec
             box == mailbox[d.box]
             reset == [d EXCEPT !.cursor = box.expired]
             next == d.cursor + 1
  <1>1. loop.step = "fetching"
    BY DEF FetchPage
  <1>2. d \in Device /\ Fits(d, mailbox, receipts, revokes)
    BY <1>1, RecordFits DEF WithRecord, LoopSteps
  <1>3. loop \in LoopType
    BY DEF SyncInv, MemoryOK, LoopType
  <1>4. CASE loop' = [loop EXCEPT !.rec = reset]
    <2>1. reset \in Device /\ Fits(reset, mailbox, receipts, revokes)
      BY <1>2, ResetFits
    <2>2. Copy(reset, mailbox', receipts', revokes')
      BY <2>1, CopyStays DEF Copy
    <2> HIDE DEF reset
    <2>3. /\ loop' \in LoopType /\ loop'.step = "fetching"
          /\ loop'.rec = reset /\ loop'.prior = loop.prior
      BY <1>1, <1>3, <1>4, <2>1 DEF LoopType
    <2>4. LoopFits'
      BY <2>1, <2>3, AbsenceAssumption DEF LoopFits, WithPrior, WithCommand,
         WithResult, WithItem, WithRecord
    <2> QED
      BY <2>2, <2>3, <2>4, CopiesStay DEF LoopSound, LoopType
  <1>5. CASE /\ next <= Len(box.items)
             /\ loop' = [loop EXCEPT !.step = "opening", !.item = next,
                                     !.last = Len(box.items)]
    <2>1. d.box \in DOMAIN mailbox /\ TypeOK
      BY <1>2 DEF Fits, SyncInv
    <2>2. /\ Len(box.items) \in Nat /\ DOMAIN box.items = 1 .. Len(box.items)
          /\ Len(box.items) <= MaxSends
      BY <2>1, BoxFacts DEF SyncInv, BoxesFit, BoxFits
    <2>3. d.cursor \in Nat /\ MaxSends \in Nat
      BY <1>2, ConstantsAssumption DEF Device
    <2>4. /\ next \in 0 .. MaxSends /\ Len(box.items) \in 0 .. MaxSends
          /\ next \in 1 .. Len(box.items) /\ d.cursor = next - 1
      BY <1>5, <2>2, <2>3
    <2>5. /\ Len(mailbox'[d.box].items) \in Nat
          /\ Len(box.items) <= Len(mailbox'[d.box].items)
      BY <2>1, <2>2, <2>4, EnvelopeStays
    <2> HIDE DEF next
    <2>6. /\ loop' \in LoopType /\ loop'.step = "opening"
          /\ loop'.rec = d /\ loop'.prior = loop.prior
          /\ loop'.item = next /\ loop'.last = Len(box.items)
      BY <1>3, <1>5, <2>4 DEF LoopType, LoopSteps
    <2>7. d # None
      BY <1>2, AbsenceAssumption
    <2>8. LoopFits'
      BY <2>4, <2>5, <2>6, <2>7 DEF LoopFits, WithPrior, WithCommand,
         WithResult
    <2> QED
      BY <2>6, <2>8, CopiesStay DEF LoopSound, LoopType
  <1>6. CASE loop' = [LoopIdle EXCEPT !.step = "publishing"]
    BY <1>6, PublishLoop
  <1> QED
    BY <1>4, <1>5, <1>6 DEF FetchPage

\* After an acknowledgement comes the next envelope of the page or the end.
LEMMA AcknowledgeLoop ==
    ASSUME SyncInv, [Next]_vars, AcknowledgeItem PROVE LoopSound'
  <1> DEFINE d == loop.rec
  <1>1. loop.step = "acking" /\ loop.step \in WithItem
    BY DEF AcknowledgeItem, WithItem, WithRecord, LoopSteps
  <1>2. CASE /\ loop.item < loop.last
             /\ loop' = [loop EXCEPT !.step = "opening", !.item = @ + 1]
    <2>1. /\ loop.item \in 1 .. loop.last
          /\ loop.last <= Len(mailbox[d.box].items)
          /\ d.cursor = loop.item /\ loop \in LoopType
      BY <1>1 DEF SyncInv, LoopFits, MemoryOK, LoopType
    <2>2. loop.last \in 0 .. MaxSends /\ MaxSends \in Nat
      BY <2>1, ConstantsAssumption DEF LoopType
    <2>3. /\ loop.item + 1 \in 0 .. MaxSends
          /\ loop.item + 1 \in 1 .. loop.last
          /\ d.cursor = (loop.item + 1) - 1
      BY <1>2, <2>1, <2>2
    <2>4. d \in Device /\ d.box \in DOMAIN mailbox
          /\ loop.item \in DOMAIN mailbox[d.box].items
      BY <1>1, InHand
    <2>5. /\ Len(mailbox[d.box].items) \in Nat
          /\ Len(mailbox'[d.box].items) \in Nat
          /\ Len(mailbox[d.box].items) <= Len(mailbox'[d.box].items)
      BY <2>4, EnvelopeStays
    <2>6. loop.last <= Len(mailbox'[d.box].items)
      <3>1. loop.last \in Int /\ loop.last <= Len(mailbox[d.box].items)
        BY <2>1, <2>2
      <3> QED
        BY <2>5, <3>1
    <2>7. /\ loop' \in LoopType /\ loop'.step = "opening"
          /\ loop'.rec = d /\ loop'.prior = loop.prior
          /\ loop'.item = loop.item + 1 /\ loop'.last = loop.last
      BY <1>2, <2>1, <2>3 DEF LoopType, LoopSteps
    <2>8. d # None
      BY <2>4, AbsenceAssumption
    <2>9. LoopFits'
      BY <2>3, <2>6, <2>7, <2>8 DEF LoopFits, WithPrior, WithCommand,
         WithResult
    <2> QED
      BY <2>7, <2>9, CopiesStay DEF LoopSound, LoopType
  <1>3. CASE loop' = [LoopIdle EXCEPT !.step = "publishing"]
    BY <1>3, PublishLoop
  <1> QED
    BY <1>2, <1>3 DEF AcknowledgeItem

\* The cursor passes the envelope in hand: it is settled, like those before.
LEMMA AdvanceFits ==
    ASSUME SyncInv, loop.step = "advancing"
    PROVE  /\ [loop.rec EXCEPT !.cursor = loop.item] \in Device
           /\ Fits([loop.rec EXCEPT !.cursor = loop.item],
                   mailbox, receipts, revokes)
  <1> DEFINE d == loop.rec
             e == [d EXCEPT !.cursor = loop.item]
  <1>1. loop.step \in WithItem /\ loop.step \in WithRecord
    BY DEF WithItem, WithRecord, LoopSteps
  <1>2. d \in Device /\ Fits(d, mailbox, receipts, revokes)
    BY <1>1, RecordFits
  <1>3. /\ loop.item \in 1 .. loop.last
        /\ loop.last <= Len(mailbox[d.box].items)
        /\ d.cursor = loop.item - 1
        /\ Settled(mailbox, receipts, d.box, loop.item)
    BY <1>1 DEF SyncInv, LoopFits
  <1>4. /\ loop.item \in 0 .. MaxSends /\ loop.last \in 0 .. MaxSends
        /\ MaxSends \in Nat
    BY ConstantsAssumption DEF SyncInv, MemoryOK
  <1>5. Len(mailbox[d.box].items) \in Nat
    BY <1>2, BoxFacts DEF Fits, SyncInv
  <1>6. /\ e \in Device /\ e.cursor = loop.item
        /\ e.box = d.box /\ e.session = d.session
        /\ e.epoch = d.epoch /\ e.grant = d.grant /\ e.revoked = d.revoked
    BY <1>2, <1>4 DEF Device
  <1>7. loop.item <= Len(mailbox[d.box].items)
    BY <1>3, <1>4, <1>5
  <1>8. \A k \in 1 .. loop.item : k \in 1 .. d.cursor \/ k = loop.item
    BY <1>3, <1>4
  <1>9. \A k \in 1 .. loop.item : Settled(mailbox, receipts, d.box, k)
    BY <1>2, <1>3, <1>8 DEF Fits
  <1> HIDE DEF e, d
  <1>10. Fits(e, mailbox, receipts, revokes)
    BY <1>2, <1>6, <1>7, <1>9 DEF Fits
  <1> QED
    BY <1>6, <1>10 DEF e, d

\* The record in hand gets the new cursor.
LEMMA AdvanceLoop ==
    ASSUME SyncInv, [Next]_vars, AdvanceCursor PROVE LoopSound'
  <1> DEFINE e == [loop.rec EXCEPT !.cursor = loop.item]
  <1>1. /\ loop.step = "advancing" /\ mailbox' = mailbox
        /\ loop' = [loop EXCEPT !.step = "acking", !.rec = e, !.result = None]
    BY DEF AdvanceCursor
  <1>2. e \in Device /\ Fits(e, mailbox, receipts, revokes)
    BY <1>1, AdvanceFits
  <1>3. Copy(e, mailbox', receipts', revokes')
    BY <1>2, CopyStays DEF Copy
  <1>4. e.box = loop.rec.box /\ e.cursor = loop.item
    <2>1. loop.rec \in Device
      BY <1>1, InHand DEF WithItem, WithRecord, LoopSteps
    <2> QED
      BY <2>1 DEF Device
  <1> HIDE DEF e
  <1>5. loop \in LoopType /\ LoopFits
    BY DEF SyncInv, MemoryOK, LoopType
  <1>6. /\ loop' \in LoopType /\ loop'.step = "acking"
        /\ loop'.rec = e /\ loop'.prior = loop.prior
        /\ loop'.item = loop.item /\ loop'.last = loop.last
    BY <1>1, <1>2, <1>5 DEF LoopType, LoopSteps
  <1>7. /\ loop.item \in 1 .. loop.last
        /\ loop.last <= Len(mailbox[loop.rec.box].items)
    BY <1>1, <1>5 DEF LoopFits, WithItem, WithRecord, LoopSteps
  <1>8. e # None
    BY <1>2, AbsenceAssumption
  <1>9. LoopFits'
    BY <1>1, <1>4, <1>6, <1>7, <1>8 DEF LoopFits, WithPrior, WithCommand,
         WithResult
  <1> QED
    BY <1>3, <1>6, <1>9, CopiesStay DEF LoopSound, LoopType

\* The steps on an envelope in hand.
LEMMA HandledLoop ==
    ASSUME SyncInv, [Next]_vars, Handling, ~AdvanceCursor PROVE LoopSound'
  <1>1. mailbox' = mailbox /\ receipts \subseteq receipts'
    BY HandlingFacts
  <1>2. loop \in LoopType /\ LoopFits
    BY DEF SyncInv, MemoryOK, LoopType
  <1> DEFINE OnEnvelope == {"opening"} \cup WithCommand
  <1>3. /\ OnEnvelope \subseteq WithItem \ {"acking"}
        /\ "advancing" \in WithItem \ {"acking"}
    BY DEF WithCommand, WithPrior, WithItem, WithRecord, LoopSteps
  <1>4. /\ OnEnvelope \subseteq LoopSteps /\ "advancing" \in LoopSteps
        /\ "advancing" \notin WithCommand
    BY DEF WithCommand, WithPrior, LoopSteps
  <1>5. /\ WithPrior \subseteq WithCommand /\ WithResult \subseteq WithCommand
        /\ "applying" \notin WithResult /\ "answering" \notin WithPrior
        /\ "advancing" \notin WithPrior
    BY DEF WithPrior, WithCommand, WithResult
  <1>6. Results \subseteq Results \cup {None} /\ None \notin Results
    BY AbsenceAssumption
  <1>7. device \in Device \cup {None}
    BY DEF SyncInv, TypeOK
  <1>8. CASE RepeatEnvelope
    <2>1. /\ loop.step = "opening" /\ admitted[Here] # None
          /\ loop' = [loop EXCEPT !.result = admitted[Here],
                        !.step = IF Item.kind = "chunk" THEN "advancing"
                                                        ELSE "answering"]
      BY <1>8 DEF RepeatEnvelope
    <2>2. /\ Here \in Envelopes /\ Item \in Envelope
          /\ Item = mailbox[loop.rec.box].items[loop.item]
      BY <1>3, <2>1, InHand DEF Item
    <2>3. admitted[Here] \in Results
      BY <2>1, <2>2 DEF SyncInv, TypeOK
    <2>4. CASE Item.kind = "chunk"
      <3>1. Settled(mailbox', receipts', loop.rec.box, loop.item)
        BY <1>1, <2>2, <2>4 DEF Settled
      <3>2. /\ loop' \in LoopType /\ loop'.step = "advancing"
            /\ loop'.rec = loop.rec /\ loop'.item = loop.item
            /\ loop'.last = loop.last /\ loop'.prior = loop.prior
            /\ loop'.result = admitted[Here]
        BY <1>2, <1>4, <2>1, <2>3, <2>4 DEF LoopType
      <3> QED
        BY <1>1, <1>3, <1>4, <1>5, <2>1, <3>1, <3>2, HandlingLoop
    <2>5. CASE Item.kind # "chunk"
      <3>1. Item.kind = "command"
        BY <2>2, <2>5 DEF Envelope
      <3>2. /\ loop' \in LoopType /\ loop'.step = "answering"
            /\ loop'.rec = loop.rec /\ loop'.item = loop.item
            /\ loop'.last = loop.last /\ loop'.prior = loop.prior
            /\ loop'.result = admitted[Here]
        BY <1>2, <2>1, <2>3, <2>5 DEF LoopType, LoopSteps
      <3>3. "answering" \in OnEnvelope
        BY DEF WithCommand
      <3> QED
        BY <1>1, <1>3, <1>5, <2>1, <3>1, <3>2, <3>3, HandlingLoop
    <2> QED
      BY <2>4, <2>5
  <1>9. CASE AdmitChunk
    <2>1. /\ loop.step = "opening" /\ Item.kind = "chunk"
          /\ loop' = [loop EXCEPT !.step = "advancing", !.result = "chunk"]
      BY <1>9 DEF AdmitChunk, Opens
    <2>2. /\ loop' \in LoopType /\ loop'.step = "advancing"
          /\ loop'.rec = loop.rec /\ loop'.item = loop.item
          /\ loop'.last = loop.last /\ loop'.prior = loop.prior
      BY <1>2, <1>4, <2>1 DEF LoopType, Results
    <2>3. Settled(mailbox', receipts', loop.rec.box, loop.item)
      BY <1>1, <2>1 DEF Settled, Item
    <2>4. "advancing" \notin WithResult
      BY <1>4, <1>5
    <2> QED
      BY <1>1, <1>3, <1>4, <1>5, <2>1, <2>2, <2>3, <2>4, HandlingLoop
  <1>10. CASE OpenCommand
    <2>1. /\ loop.step = "opening" /\ Item.kind = "command"
          /\ \/ loop' = [loop EXCEPT !.prior = device, !.step = "admitting",
                                     !.result = "rejected"]
             \/ /\ processed[Item.cmd] # None
                /\ loop' = [loop EXCEPT !.prior = device, !.step = "admitting",
                                        !.result = processed[Item.cmd].result]
             \/ loop' = [loop EXCEPT !.prior = device, !.step = "applying"]
      BY <1>10 DEF OpenCommand, Opens
    <2>2. device \in Device /\ Item.cmd \in Commands
      BY <1>3, <2>1, InHand
    <2>3. processed[Item.cmd] # None => processed[Item.cmd].result \in Results
      BY <2>2 DEF SyncInv, TypeOK
    <2>4. PICK result \in Results :
             \/ loop' = [loop EXCEPT !.prior = device, !.step = "admitting",
                                     !.result = result]
             \/ loop' = [loop EXCEPT !.prior = device, !.step = "applying"]
      <3>1. "rejected" \in Results
        BY DEF Results
      <3> QED
        BY <2>1, <2>3, <3>1
    <2>5. /\ loop' \in LoopType
          /\ \/ loop'.step = "admitting" /\ loop'.result = result
             \/ loop'.step = "applying"
          /\ loop'.rec = loop.rec /\ loop'.item = loop.item
          /\ loop'.last = loop.last /\ loop'.prior = device
      BY <1>2, <1>7, <2>4 DEF LoopType, LoopSteps
    <2>6. "admitting" \in WithCommand /\ "applying" \in WithCommand
      BY DEF WithCommand, WithPrior
    <2>7. device # None /\ result # None
      BY <2>2, <1>6, AbsenceAssumption
    <2> QED
      BY <1>1, <1>3, <1>4, <1>5, <2>1, <2>5, <2>6, <2>7, HandlingLoop
  <1>11. CASE ApplyCommand
    <2>1. PICK result \in {"done", "rejected"} :
             /\ loop.step = "applying"
             /\ loop' = [loop EXCEPT !.step = "recording", !.result = result]
      BY <1>11 DEF ApplyCommand
    <2>2. result \in Results
      BY DEF Results
    <2>3. /\ loop' \in LoopType /\ loop'.step = "recording"
          /\ loop'.rec = loop.rec /\ loop'.item = loop.item
          /\ loop'.last = loop.last /\ loop'.prior = loop.prior
          /\ loop'.result = result
      BY <1>2, <2>1, <2>2 DEF LoopType, LoopSteps
    <2>4. /\ "recording" \in WithCommand /\ "applying" \in WithCommand
          /\ "applying" \in WithPrior
      BY DEF WithCommand, WithPrior
    <2>5. loop.prior # None /\ Item.kind = "command"
      BY <1>2, <2>1, <2>4 DEF LoopFits
    <2> QED
      BY <1>1, <1>3, <1>4, <1>6, <2>1, <2>2, <2>3, <2>4, <2>5, HandlingLoop
  <1>12. CASE RecordProcessed \/ CleanupReferences
    <2>1. PICK s \in {"cleaning", "admitting"} :
             /\ loop.step \in {"recording", "cleaning"}
             /\ loop' = [loop EXCEPT !.step = s]
      BY <1>12 DEF RecordProcessed, CleanupReferences
    <2>2. /\ loop' \in LoopType /\ loop'.step = s
          /\ loop'.rec = loop.rec /\ loop'.item = loop.item
          /\ loop'.last = loop.last /\ loop'.prior = loop.prior
          /\ loop'.result = loop.result
      BY <1>2, <2>1 DEF LoopType, LoopSteps
    <2>3. /\ s \in WithCommand /\ loop.step \in WithCommand
          /\ loop.step \in WithPrior /\ loop.step \in WithResult
      BY <2>1 DEF WithCommand, WithPrior, WithResult
    <2>4. loop.prior # None /\ Item.kind = "command" /\ loop.result # None
      BY <1>2, <2>3 DEF LoopFits
    <2> QED
      BY <1>1, <1>3, <1>4, <2>1, <2>2, <2>3, <2>4, HandlingLoop
  <1>13. CASE AdmitCommand
    <2>1. /\ loop.step = "admitting"
          /\ loop' = [loop EXCEPT !.step = "answering", !.prior = None]
      BY <1>13 DEF AdmitCommand
    <2>2. /\ loop' \in LoopType /\ loop'.step = "answering"
          /\ loop'.rec = loop.rec /\ loop'.item = loop.item
          /\ loop'.last = loop.last /\ loop'.prior = None
          /\ loop'.result = loop.result
      BY <1>2, <2>1 DEF LoopType, LoopSteps
    <2>3. /\ "answering" \in WithCommand /\ "admitting" \in WithCommand
          /\ "admitting" \in WithResult
      BY DEF WithCommand, WithPrior, WithResult
    <2>4. Item.kind = "command" /\ loop.result # None
      BY <1>2, <2>1, <2>3 DEF LoopFits
    <2> QED
      BY <1>1, <1>3, <1>4, <1>5, <2>1, <2>2, <2>3, <2>4, HandlingLoop
  <1>14. CASE PublishReceipt
    <2> DEFINE r == [cmd |-> Item.cmd, box |-> loop.rec.box,
                     result |-> loop.result]
    <2>1. /\ loop.step = "answering" /\ r \in receipts'
          /\ loop' = [loop EXCEPT !.step = "advancing"]
      BY <1>14 DEF PublishReceipt
    <2>2. /\ loop' \in LoopType /\ loop'.step = "advancing"
          /\ loop'.rec = loop.rec /\ loop'.item = loop.item
          /\ loop'.last = loop.last /\ loop'.prior = loop.prior
      BY <1>2, <1>4, <2>1 DEF LoopType
    <2>3. r.cmd = Item.cmd /\ r.box = loop.rec.box
      OBVIOUS
    <2> HIDE DEF r
    <2>4. Settled(mailbox', receipts', loop.rec.box, loop.item)
      BY <1>1, <2>1, <2>3 DEF Settled, Item
    <2>5. "answering" \in WithCommand /\ "advancing" \notin WithResult
      BY <1>4, <1>5 DEF WithCommand
    <2> QED
      BY <1>1, <1>3, <1>4, <1>5, <2>1, <2>2, <2>4, <2>5, HandlingLoop
  <1> QED
    BY <1>8, <1>9, <1>10, <1>11, <1>12, <1>13, <1>14 DEF Handling

\* Every step leaves the reconciliation in a state its steps expect.
LEMMA LoopStep ==
    ASSUME SyncInv, [Next]_vars PROVE LoopSound'
  <1>1. CASE loop' = loop
    <2>1. loop' \in LoopType
      BY <1>1 DEF SyncInv, MemoryOK, LoopType
    <2>2. /\ Copy(loop'.rec, mailbox', receipts', revokes')
          /\ Copy(loop'.prior, mailbox', receipts', revokes')
      BY <1>1, CopiesStay
    <2> QED
      BY <1>1, <2>1, <2>2, LoopFitsStays DEF LoopSound, LoopType
  <1>2. CASE Handling
    BY <1>2, HandledLoop, AdvanceLoop
  <1>3. CASE FetchPage \/ AcknowledgeItem
    BY <1>3, FetchLoop, AcknowledgeLoop
  <1>4. CASE LoadDevice \/ CompareProjection \/ UploadChanges
    BY <1>4, LoadLoop, CompareLoop, UploadLoop
  <1>5. CASE FailReconcile
    BY <1>5, PublishLoop DEF FailReconcile
  <1>6. CASE StoreProjection \/ FailPublish \/ Crash
    BY <1>6, IdleLoop DEF StoreProjection, FailPublish, Crash
  <1>7. CASE PairingTalk \/ PairingDelivery
    <2>1. loop' = loop
      BY <1>7 DEF PairingTalk, CreatePairingSession, CancelPairingSession,
         ExpireInvitation, CompletePairing, PhoneResponds, PollPairingSession,
         PairingDelivery, UploadAcceptance, UploadSnapshot, FinishPairing,
         FailPairing
    <2> QED
      BY <1>1, <2>1
  <1>8. CASE FailRevoke \/ Revoke \/ CloseMailboxes \/ GrantCapability
    <2>1. loop' = loop
      BY <1>8 DEF FailRevoke, Revoke, CloseMailboxes, GrantCapability
    <2> QED
      BY <1>1, <2>1
  <1>9. CASE \/ WorkspaceMoves
             \/ \E c \in Commands, kind \in {"chunk", "command"} :
                   PhoneSend(c, kind)
             \/ \E b \in Boxes : ExpireEnvelope(b)
             \/ UNCHANGED vars
    <2>1. loop' = loop
      BY <1>9 DEF WorkspaceMoves, WorkspaceChanges, VersionLands, PhoneSend, ExpireEnvelope, vars
    <2> QED
      BY <1>1, <2>1
  <1> QED
    BY <1>2, <1>3, <1>4, <1>5, <1>6, <1>7, <1>8, <1>9, StepGroups
       DEF Quiet, Publishing, Boxing

-----------------------------------------------------------------------------
(* The device record and the pairing in progress *)

\* A fresh grant is a record that fits the mailbox created with it.
LEMMA GrantFits ==
    ASSUME SyncInv, [Next]_vars, GrantCapability,
           ~IsRetry(pairing.seen, pairing.session)
    PROVE  /\ device' \in Device
           /\ Fits(device', mailbox', receipts', revokes')
           /\ Len(mailbox') = Len(mailbox) + 1
  <1> DEFINE s == pairing.session
             epoch == IF pairing.seen = None THEN 0 ELSE pairing.seen.epoch
             n == Len(mailbox) + 1
  <1>1. /\ pairing.step = "granting" /\ Len(mailbox) < MaxBoxes
        /\ receipts' = receipts /\ revokes' = revokes
        /\ mailbox' = Append(mailbox, [session |-> s, items |-> <<>>,
                                       acked |-> 0, expired |-> 0,
                                       closed |-> FALSE])
        /\ device' = [box |-> n, session |-> s, cursor |-> 0,
                      revoked |-> FALSE, epoch |-> epoch,
                      grant |-> epoch, closed |-> FALSE]
    BY DEF GrantCapability, received, history
  <1>2. s \in Sessions
    BY <1>1 DEF SyncInv, PairingFits
  <1>3. revokes \in 0 .. MaxRevokes /\ MaxRevokes \in Nat /\ MaxSends \in Nat
        /\ MaxBoxes \in Nat /\ Len(mailbox) \in Nat
    BY ConstantsAssumption, BoxFacts DEF SyncInv, MemoryOK
  <1>4. epoch \in 0 .. MaxRevokes /\ epoch <= revokes
    <2>1. CASE pairing.seen = None
      BY <1>3, <2>1
    <2>2. CASE pairing.seen # None
      <3>1. Copy(pairing.seen, mailbox, receipts, revokes)
        BY OldCopies
      <3>2. pairing.seen \in Device /\ pairing.seen.epoch <= revokes
        BY <2>2, <3>1 DEF Copy, Fits
      <3> QED
        BY <2>2, <3>2 DEF Device
    <2> QED
      BY <2>1, <2>2
  <1> HIDE DEF s, epoch
  <1>5. /\ DOMAIN mailbox' = 1 .. n /\ Len(mailbox') = n
        /\ mailbox'[n] = [session |-> s, items |-> <<>>, acked |-> 0,
                          expired |-> 0, closed |-> FALSE]
    BY <1>1, <1>2, GrantBoxes
  <1>6. n \in Boxes /\ n \in DOMAIN mailbox'
    BY <1>1, <1>3, <1>5 DEF Boxes
  <1>7. mailbox'[n].session = s /\ mailbox'[n].items = <<>>
    BY <1>5
  <1> HIDE DEF n
  <1>8. /\ device' \in Device
        /\ device'.box = n /\ device'.session = s /\ device'.cursor = 0
        /\ device'.epoch = epoch /\ device'.grant = epoch
        /\ device'.revoked = FALSE
    BY <1>1, <1>2, <1>3, <1>4, <1>6 DEF Device
  <1>9. /\ 0 <= Len(<<>>)
        /\ \A k \in 1 .. 0 : Settled(mailbox', receipts', n, k)
    OBVIOUS
  <1>10. Fits(device', mailbox', receipts', revokes')
    BY <1>1, <1>4, <1>6, <1>7, <1>8, <1>9 DEF Fits
  <1> QED
    BY <1>5, <1>8, <1>10 DEF n

\* A revocation raises the epoch with the number of revocations.
LEMMA RevokeFits ==
    ASSUME SyncInv, [Next]_vars, Revoke
    PROVE  /\ device' \in Device
           /\ Fits(device', mailbox', receipts', revokes')
  <1>1. device \in Device /\ Copy(device, mailbox', receipts', revokes')
    BY CopiesStay DEF Revoke, SyncInv, TypeOK
  <1>2. Fits(device, mailbox', receipts', revokes')
    BY <1>1, AbsenceAssumption DEF Copy
  <1>3. CASE device' = device
    BY <1>1, <1>2, <1>3
  <1>4. CASE /\ revokes < MaxRevokes /\ revokes' = revokes + 1
             /\ device' = [device EXCEPT !.revoked = TRUE, !.epoch = @ + 1]
    <2>1. Fits(device, mailbox, receipts, revokes)
      BY <1>1, OldCopies, AbsenceAssumption DEF Copy
    <2>2. /\ revokes \in Nat /\ device.epoch \in Nat /\ MaxRevokes \in Nat
          /\ device.epoch <= revokes
      BY <1>1, <2>1, ConstantsAssumption DEF SyncInv, MemoryOK, Device, Fits
    <2>3. device.epoch + 1 \in 0 .. MaxRevokes /\ device.epoch + 1 <= revokes'
          /\ revokes' > 0
      BY <1>4, <2>2
    <2>4. /\ device' \in Device
          /\ device'.box = device.box /\ device'.session = device.session
          /\ device'.cursor = device.cursor /\ device'.grant = device.grant
          /\ device'.epoch = device.epoch + 1
      BY <1>1, <1>4, <2>3 DEF Device
    <2>5. Fits(device', mailbox', receipts', revokes')
      BY <1>2, <2>3, <2>4 DEF Fits
    <2> QED
      BY <2>4, <2>5
  <1> QED
    BY <1>3, <1>4 DEF Revoke

\* A copy with the mailbox marked closed fits as well as the copy.
LEMMA CloseFits ==
    ASSUME SyncInv, [Next]_vars, CloseMailboxes
    PROVE  /\ device' \in Device
           /\ Fits(device', mailbox', receipts', revokes')
  <1>1. /\ revoker \in Device /\ device' = [revoker EXCEPT !.closed = TRUE]
        /\ revoker # None
    BY DEF CloseMailboxes, SyncInv, MemoryOK
  <1>2. Fits(revoker, mailbox', receipts', revokes')
    BY <1>1, CopiesStay DEF Copy
  <1>3. /\ device' \in Device
        /\ device'.box = revoker.box /\ device'.session = revoker.session
        /\ device'.cursor = revoker.cursor /\ device'.grant = revoker.grant
        /\ device'.epoch = revoker.epoch /\ device'.revoked = revoker.revoked
    BY <1>1 DEF Device
  <1> QED
    BY <1>2, <1>3 DEF Fits

\* Whatever record a step writes, it fits.
LEMMA DeviceStep ==
    ASSUME SyncInv, [Next]_vars
    PROVE  /\ Copy(device', mailbox', receipts', revokes')
           /\ device' = None <=> Len(mailbox') = 0
  <1> DEFINE Written == /\ device' \in Device
                        /\ Fits(device', mailbox', receipts', revokes')
             Untouched == device' = device /\ Len(mailbox') = Len(mailbox)
  <1>1. Written \/ Untouched
    <2>1. CASE Quiet
      BY <2>1, QuietFacts DEF SyncInv
    <2>2. CASE Revoke
      BY <2>2, RevokeFits
    <2>3. CASE Handling
      <3>1. mailbox' = mailbox
        BY <2>3, HandlingFacts
      <3>2. CASE AdmitCommand
        <4>1. device' = loop.prior /\ loop.prior # None
          BY <3>2 DEF AdmitCommand, SyncInv, LoopFits, WithPrior
        <4> QED
          BY <4>1, CopiesStay DEF Copy
      <3>3. CASE AdvanceCursor
        <4>1. /\ device' = [loop.rec EXCEPT !.cursor = loop.item]
              /\ loop.step = "advancing"
          BY <3>3 DEF AdvanceCursor
        <4>2. device' \in Device /\ Fits(device', mailbox, receipts, revokes)
          BY <4>1, AdvanceFits
        <4>3. Copy(device', mailbox', receipts', revokes')
          <5>1. ASSUME NEW d, d = device'
                PROVE  Copy(d, mailbox', receipts', revokes')
            BY <4>2, <5>1, CopyStays DEF Copy
          <5> QED
            BY <5>1
        <4> QED
          BY <4>2, <4>3, AbsenceAssumption DEF Copy
      <3>4. CASE ~AdmitCommand /\ ~AdvanceCursor
        <4>1. device' = device
          BY <2>3, <3>4 DEF Handling, RepeatEnvelope, AdmitChunk, OpenCommand,
             ApplyCommand, RecordProcessed, CleanupReferences, PublishReceipt,
             files
        <4> QED
          BY <3>1, <4>1
      <3> QED
        BY <3>2, <3>3, <3>4
    <2>4. CASE GrantCapability
      <3>1. CASE IsRetry(pairing.seen, pairing.session)
        BY <2>4, <3>1 DEF GrantCapability
      <3>2. CASE ~IsRetry(pairing.seen, pairing.session)
        BY <2>4, <3>2, GrantFits
      <3> QED
        BY <3>1, <3>2
    <2>5. CASE CloseMailboxes
      BY <2>5, CloseFits
    <2>6. CASE FetchPage
      <3> DEFINE reset == [loop.rec EXCEPT
                             !.cursor = mailbox[loop.rec.box].expired]
      <3>1. loop.step = "fetching" /\ (device' = device \/ device' = reset)
        BY <2>6 DEF FetchPage
      <3>2. loop.rec \in Device /\ Fits(loop.rec, mailbox, receipts, revokes)
        BY <3>1, RecordFits DEF WithRecord, LoopSteps
      <3>3. reset \in Device /\ Fits(reset, mailbox, receipts, revokes)
        BY <3>2, ResetFits
      <3>4. Copy(reset, mailbox', receipts', revokes')
        BY <3>3, CopyStays DEF Copy
      <3> HIDE DEF reset
      <3>5. Len(mailbox') = Len(mailbox)
        BY <2>6, FetchBoxes
      <3> QED
        BY <3>1, <3>3, <3>4, <3>5, AbsenceAssumption DEF Copy
    <2>7. CASE AcknowledgeItem
      BY <2>7, AcknowledgeBoxes DEF AcknowledgeItem, files
    <2>8. CASE \E c \in Commands, kind \in {"chunk", "command"} :
                  PhoneSend(c, kind)
      BY <2>8, SendBoxes DEF PhoneSend, files
    <2>9. CASE \E b \in Boxes : ExpireEnvelope(b)
      BY <2>9, ExpireBoxes DEF ExpireEnvelope, files
    <2> QED
      BY <2>1, <2>2, <2>3, <2>4, <2>5, <2>6, <2>7, <2>8, <2>9, StepGroups
         DEF Boxing
  <1>2. CASE Written
    <2>1. device'.box \in DOMAIN mailbox'
      BY <1>2 DEF Fits
    <2>2. mailbox' \in Seq(Mailbox)
      BY BoxesStep
    <2>3. Len(mailbox') # 0
      BY <2>1, <2>2, LenProperties
    <2> QED
      BY <1>2, <2>3, AbsenceAssumption DEF Copy
  <1>3. CASE Untouched
    <2>1. Copy(device', mailbox', receipts', revokes')
      BY <1>3, CopiesStay
    <2> QED
      BY <1>3, <2>1 DEF SyncInv, PairingFits
  <1> QED
    BY <1>1, <1>2, <1>3

\* The revocation's copy is the record it read or wrote.
LEMMA RevokerStep ==
    ASSUME SyncInv, [Next]_vars
    PROVE  Copy(revoker', mailbox', receipts', revokes')
  <1>1. revoker' \in {None, device', revoker}
    <2>1. CASE Revoke \/ CloseMailboxes \/ FailRevoke \/ Crash
      BY <2>1 DEF Revoke, CloseMailboxes, FailRevoke, Crash
    <2>2. CASE Handling
      BY <2>2, HandlingFacts
    <2>3. CASE PairingTalk \/ PairingDelivery
      BY <2>3 DEF PairingTalk, CreatePairingSession, CancelPairingSession,
         ExpireInvitation, CompletePairing, PhoneResponds, PollPairingSession,
         PairingDelivery, UploadAcceptance, UploadSnapshot, FinishPairing,
         FailPairing
    <2>4. CASE Publishing
      BY <2>4, Zenon DEF Publishing, LoadDevice, FailReconcile,
         CompareProjection, UploadChanges, StoreProjection, FailPublish
    <2>5. CASE \/ GrantCapability \/ FetchPage \/ AcknowledgeItem
               \/ \E c \in Commands, kind \in {"chunk", "command"} :
                     PhoneSend(c, kind)
               \/ \E b \in Boxes : ExpireEnvelope(b)
      BY <2>5 DEF GrantCapability, FetchPage, AcknowledgeItem, PhoneSend,
         ExpireEnvelope
    <2>6. CASE \/ WorkspaceMoves
               \/ UNCHANGED vars
      BY <2>6 DEF WorkspaceMoves, WorkspaceChanges, VersionLands, vars
    <2> QED
      BY <2>1, <2>2, <2>3, <2>4, <2>5, <2>6, StepGroups DEF Quiet, Boxing
  <1> QED
    BY <1>1, DeviceStep, CopiesStay DEF Copy

PairingType ==
    [who : {"loop", "studio", None}, step : PairingSteps,
     session : Sessions \cup {None}, seen : Device \cup {None},
     view : SUBSET Changes]

\* What is true of a pairing in progress, besides the device record.
PairingSound ==
    /\ pairing \in PairingType
    /\ Copy(pairing.seen, mailbox, receipts, revokes)
    /\ pairing.step # "idle" => pairing.session \in Sessions
    /\ pairing.step = "granting" /\ pairing.seen = None => Len(mailbox) = 0
    /\ pairing.step \in {"accepting", "uploading"} => pairing.seen # None

\* The invariant, said of the pairing in progress.
LEMMA PairingIsSound ==
    ASSUME SyncInv PROVE PairingSound
  BY OldCopies DEF SyncInv, MemoryOK, PairingFits, PairingSound, PairingType

\* A completion begins with the device record as it is.
LEMMA BeginPairing ==
    ASSUME SyncInv, [Next]_vars, mailbox' = mailbox,
           NEW w \in {"loop", "studio"}, NEW s \in Sessions, BeginFinish(w, s)
    PROVE  PairingSound'
  <1>1. pairing' = [who |-> w, step |-> "granting", session |-> s,
                    seen |-> device, view |-> {}]
    BY Zenon DEF BeginFinish, PairingIdle
  <1>2. device \in Device \cup {None} /\ (device = None => Len(mailbox) = 0)
    BY DEF SyncInv, TypeOK, PairingFits
  <1>3. /\ pairing' \in PairingType
        /\ pairing'.step = "granting" /\ pairing'.session = s
        /\ pairing'.seen = device
    BY <1>1, <1>2 DEF PairingType, PairingSteps
  <1>4. Copy(device, mailbox', receipts', revokes')
    BY CopiesStay
  <1> QED
    BY <1>2, <1>3, <1>4 DEF PairingSound, PairingType

\* A completion ends.
LEMMA EndPairing ==
    ASSUME SyncInv, [Next]_vars, pairing' = PairingIdle
    PROVE  PairingSound'
  <1>1. /\ pairing' \in PairingType /\ pairing'.step = "idle"
        /\ pairing'.seen = None
    BY DEF PairingIdle, PairingType, PairingSteps
  <1> QED
    BY <1>1 DEF PairingSound, PairingType, Copy

\* A grant, or the recognition of an earlier one, leaves a record to accept
\* with.
LEMMA GrantPairing ==
    ASSUME SyncInv, [Next]_vars, GrantCapability
    PROVE  PairingSound'
  <1> DEFINE new == IF IsRetry(pairing.seen, pairing.session)
                    THEN pairing.seen ELSE device'
  <1>1. /\ pairing.step = "granting"
        /\ pairing' = [pairing EXCEPT !.step = "accepting", !.seen = new]
    BY DEF GrantCapability
  <1>2. new \in Device /\ Copy(new, mailbox', receipts', revokes')
    <2>1. CASE IsRetry(pairing.seen, pairing.session)
      <3>1. pairing.seen \in Device
        BY <2>1 DEF IsRetry, SyncInv, MemoryOK
      <3> QED
        BY <2>1, <3>1, CopiesStay
    <2>2. CASE ~IsRetry(pairing.seen, pairing.session)
      BY <2>2, GrantFits DEF Copy
    <2> QED
      BY <2>1, <2>2
  <1> HIDE DEF new
  <1>3. PairingSound
    BY PairingIsSound
  <1>4. /\ pairing' \in PairingType
        /\ pairing'.step = "accepting" /\ pairing'.session = pairing.session
        /\ pairing'.seen = new
    BY <1>1, <1>2, <1>3 DEF PairingSound, PairingType, PairingSteps
  <1>5. pairing.session \in Sessions /\ new # None
    BY <1>1, <1>2, <1>3, AbsenceAssumption DEF PairingSound
  <1> QED
    BY <1>2, <1>4, <1>5 DEF PairingSound, PairingType

\* The uploads of a completion keep session and record.
LEMMA UploadPairing ==
    ASSUME SyncInv, [Next]_vars, UploadAcceptance \/ UploadSnapshot
    PROVE  PairingSound'
  <1>1. PairingSound
    BY PairingIsSound
  <1>2. PICK at \in {"uploading", "projecting"}, view \in SUBSET Changes :
           /\ pairing.step \in {"accepting", "uploading"}
           /\ pairing' = [pairing EXCEPT !.step = at, !.view = view]
    <2>1. CASE UploadAcceptance
      <3>1. workspace \in SUBSET Changes
        BY DEF SyncInv, TypeOK
      <3> QED
        BY <2>1, <3>1 DEF UploadAcceptance
    <2>2. CASE UploadSnapshot
      <3>1. /\ pairing.step = "uploading"
            /\ pairing' = [pairing EXCEPT !.step = "projecting"]
            /\ pairing.view \in SUBSET Changes
        BY <1>1, <2>2 DEF UploadSnapshot, PairingSound, PairingType
      <3>2. pairing' = [pairing EXCEPT !.step = "projecting",
                                       !.view = pairing.view]
        BY <1>1, <3>1 DEF PairingSound, PairingType
      <3> QED
        BY <3>1, <3>2
    <2> QED
      BY <2>1, <2>2
  <1>3. /\ pairing' \in PairingType
        /\ pairing'.step = at /\ pairing'.session = pairing.session
        /\ pairing'.seen = pairing.seen
    BY <1>1, <1>2 DEF PairingSound, PairingType, PairingSteps
  <1>4. pairing.session \in Sessions /\ pairing.seen # None
    BY <1>1, <1>2 DEF PairingSound
  <1>5. Copy(pairing.seen, mailbox', receipts', revokes')
    BY CopiesStay
  <1> QED
    BY <1>3, <1>4, <1>5 DEF PairingSound, PairingType

\* Every step leaves a sound pairing.
LEMMA PairingStep ==
    ASSUME SyncInv, [Next]_vars
    PROVE  PairingSound'
  <1>1. CASE pairing' = pairing
    <2>1. PairingSound /\ Copy(pairing.seen, mailbox', receipts', revokes')
      BY PairingIsSound, CopiesStay
    <2>2. CASE pairing.step = "granting"
      <3>1. ~GrantCapability
        BY <1>1, <2>1, <2>2 DEF GrantCapability, PairingSound, PairingType
      <3>2. Len(mailbox') = Len(mailbox)
        BY <3>1, SameBoxes
      <3> QED
        BY <1>1, <2>1, <3>2 DEF PairingSound, PairingType
    <2>3. CASE pairing.step # "granting"
      BY <1>1, <2>1, <2>3 DEF PairingSound, PairingType
    <2> QED
      BY <2>2, <2>3
  <1>2. CASE PairingTalk
    <2>1. CASE \E s \in Sessions :
                  \/ CreatePairingSession(s) \/ CancelPairingSession(s)
                  \/ ExpireInvitation(s) \/ PhoneResponds(s)
      <3>1. pairing' = pairing
        BY <2>1 DEF CreatePairingSession, CancelPairingSession,
           ExpireInvitation, PhoneResponds, pairings
      <3> QED
        BY <1>1, <3>1
    <2>2. CASE \E s \in Sessions :
                  \/ CompletePairing(s)
                  \/ \E w \in Pollers : PollPairingSession(w, s)
      <3>1. PICK s \in Sessions, w \in {"loop", "studio"} :
               mailbox' = mailbox /\ BeginFinish(w, s)
        BY <2>2, ConstantsAssumption, Zenon
           DEF CompletePairing, PollPairingSession
      <3> QED
        BY <3>1, BeginPairing
    <2> QED
      BY <1>2, <2>1, <2>2 DEF PairingTalk
  <1>3. CASE PairingDelivery
    BY <1>3, UploadPairing, EndPairing
       DEF PairingDelivery, FinishPairing, FailPairing
  <1>4. CASE Crash
    BY <1>4, EndPairing DEF Crash
  <1>5. CASE GrantCapability
    BY <1>5, GrantPairing
  <1>6. CASE Handling \/ FailRevoke \/ Revoke \/ CloseMailboxes
    <2>1. pairing' = pairing
      BY <1>6, HandlingFacts DEF FailRevoke, Revoke, CloseMailboxes, pairings
    <2> QED
      BY <1>1, <2>1
  <1>7. CASE Publishing
    <2>1. pairing' = pairing
      BY <1>7, Zenon DEF Publishing, LoadDevice, FailReconcile,
         CompareProjection, UploadChanges, StoreProjection, FailPublish,
         pairings
    <2> QED
      BY <1>1, <2>1
  <1>8. CASE \/ FetchPage \/ AcknowledgeItem
             \/ \E c \in Commands, kind \in {"chunk", "command"} :
                   PhoneSend(c, kind)
             \/ \E b \in Boxes : ExpireEnvelope(b)
    <2>1. pairing' = pairing
      BY <1>8 DEF FetchPage, AcknowledgeItem, PhoneSend, ExpireEnvelope,
         pairings
    <2> QED
      BY <1>1, <2>1
  <1>9. CASE \/ WorkspaceMoves
             \/ UNCHANGED vars
    <2>1. pairing' = pairing
      BY <1>9 DEF WorkspaceMoves, WorkspaceChanges, VersionLands, vars, pairings
    <2> QED
      BY <1>1, <2>1
  <1> QED
    BY <1>2, <1>3, <1>4, <1>5, <1>6, <1>7, <1>8, <1>9, StepGroups
       DEF Quiet, Boxing

-----------------------------------------------------------------------------
(* Types of the files and of the phone's state, and the mailboxes they name *)

\* Created mailboxes have names.
LEMMA BoxNames ==
    ASSUME SyncInv PROVE DOMAIN mailbox \subseteq Boxes
  BY BoxFacts, ConstantsAssumption DEF SyncInv, BoxesFit, Boxes

\* The results the application and the inbox keep.
LEMMA InboxTypes ==
    ASSUME SyncInv, [Next]_vars
    PROVE  /\ admitted' \in [Envelopes -> Results \cup {None}]
           /\ processed' \in [Commands ->
                                [cap : Boxes, result : Results] \cup {None}]
           /\ applied' \in [Commands -> Boxes \cup {None}]
           /\ blob' \subseteq Commands
           /\ receipts' \subseteq
                 [cmd : Commands, box : Boxes, result : Results]
           /\ \A c \in Commands :
                 /\ applied'[c] \in DOMAIN mailbox \cup {None}
                 /\ processed'[c] # None =>
                       processed'[c].cap \in DOMAIN mailbox
  <1>1. /\ admitted \in [Envelopes -> Results \cup {None}]
        /\ processed \in [Commands ->
                             [cap : Boxes, result : Results] \cup {None}]
        /\ applied \in [Commands -> Boxes \cup {None}]
        /\ blob \subseteq Commands
        /\ receipts \subseteq [cmd : Commands, box : Boxes, result : Results]
    BY DEF SyncInv, TypeOK
  <1>2. \A c \in Commands :
           /\ applied[c] \in DOMAIN mailbox \cup {None}
           /\ processed[c] # None => processed[c].cap \in DOMAIN mailbox
    BY DEF SyncInv, Named
  <1>3. CASE Quiet \/ Boxing \/ Revoke
    <2>1. UNCHANGED <<admitted, processed, applied, blob, receipts>>
      BY <1>3, QuietFacts, BoxingFacts DEF SyncInv, Revoke, store, received
    <2> QED
      BY <1>1, <1>2, <2>1
  <1>4. ASSUME Handling
        PROVE  /\ loop.rec \in Device /\ Here \in Envelopes
               /\ Item.cmd \in Commands /\ Item.cap \in Boxes
               /\ Item.cap \in DOMAIN mailbox
    <2>1. loop.step \in WithItem
      BY <1>4 DEF Handling, RepeatEnvelope, AdmitChunk, OpenCommand, Opens,
         ApplyCommand, RecordProcessed, CleanupReferences, AdmitCommand,
         PublishReceipt, AdvanceCursor, WithItem, WithRecord, LoopSteps
    <2> QED
      BY <2>1, InHand
  <1>5. loop.result \in Results \cup {None}
    BY DEF SyncInv, MemoryOK
  <1>6. \A c \in Commands : RemoveConsumedReference(c) =>
           /\ admitted' \in [Envelopes -> Results \cup {None}]
           /\ blob' \subseteq Commands
    BY <1>1 DEF RemoveConsumedReference
  <1>7. CASE RepeatEnvelope \/ AdvanceCursor
    <2>1. UNCHANGED <<admitted, processed, applied, blob, receipts>>
      BY <1>7 DEF RepeatEnvelope, AdvanceCursor, files, store, received
    <2> QED
      BY <1>1, <1>2, <2>1
  <1>8. CASE AdmitChunk
    <2>1. /\ blob' = blob \cup {Item.cmd}
          /\ admitted' = [admitted EXCEPT ![Here] = "chunk"]
          /\ UNCHANGED <<processed, applied, receipts>>
      BY <1>8 DEF AdmitChunk, received
    <2> QED
      BY <1>1, <1>2, <1>4, <1>8, <2>1 DEF Handling, Results
  <1>9. CASE OpenCommand
    <2>1. /\ \/ RemoveConsumedReference(Item.cmd)
             \/ UNCHANGED <<blob, admitted>>
          /\ UNCHANGED <<processed, applied, receipts>>
      BY <1>9 DEF OpenCommand, received
    <2> QED
      BY <1>1, <1>2, <1>4, <1>6, <1>9, <2>1 DEF Handling
  <1>10. CASE ApplyCommand
    <2>1. /\ \/ applied' = [applied EXCEPT ![Item.cmd] = Item.cap]
             \/ UNCHANGED applied
          /\ UNCHANGED <<admitted, processed, blob, receipts>>
      BY <1>10 DEF ApplyCommand, ApplicationResult, received
    <2> QED
      BY <1>1, <1>2, <1>4, <1>10, <2>1 DEF Handling
  <1>11. CASE RecordProcessed
    <2> DEFINE p == [cap |-> Item.cap, result |-> loop.result]
    <2>1. /\ processed' = [processed EXCEPT ![Item.cmd] = p]
          /\ UNCHANGED <<admitted, applied, blob, receipts>>
          /\ loop.result # None
      BY <1>11 DEF RecordProcessed, received, SyncInv, LoopFits, WithResult,
                   WithCommand, WithPrior
    <2>2. p \in [cap : Boxes, result : Results] /\ p.cap = Item.cap
      BY <1>4, <1>5, <1>11, <2>1 DEF Handling
    <2> HIDE DEF p
    <2>3. /\ processed' \in [Commands ->
                               [cap : Boxes, result : Results] \cup {None}]
          /\ \A c \in Commands :
                processed'[c] = processed[c] \/ processed'[c] = p
      BY <1>1, <2>1, <2>2
    <2>4. p.cap \in DOMAIN mailbox
      BY <1>4, <1>11, <2>2 DEF Handling
    <2> QED
      BY <1>1, <1>2, <2>1, <2>3, <2>4
  <1>12. CASE CleanupReferences
    <2>1. /\ RemoveConsumedReference(Item.cmd)
          /\ UNCHANGED <<processed, applied, receipts>>
      BY <1>12 DEF CleanupReferences, received
    <2> QED
      BY <1>1, <1>2, <1>4, <1>6, <1>12, <2>1 DEF Handling
  <1>13. CASE AdmitCommand
    <2>1. /\ admitted' = [admitted EXCEPT ![Here] = loop.result]
          /\ UNCHANGED <<processed, applied, blob, receipts>>
      BY <1>13 DEF AdmitCommand, received
    <2> QED
      BY <1>1, <1>2, <1>5, <2>1
  <1>14. CASE PublishReceipt
    <2>1. /\ receipts' = receipts \cup
                {[cmd |-> Item.cmd, box |-> loop.rec.box,
                  result |-> loop.result]}
          /\ UNCHANGED <<admitted, processed, applied, blob>>
          /\ loop.result # None
      BY <1>14 DEF PublishReceipt, files, SyncInv, LoopFits, WithResult,
                   WithCommand
    <2>2. loop.rec.box \in Boxes
      BY <1>4, <1>14 DEF Handling, Device
    <2> QED
      BY <1>1, <1>2, <1>4, <1>5, <1>14, <2>1, <2>2 DEF Handling
  <1> QED
    BY <1>3, <1>7, <1>8, <1>9, <1>10, <1>11, <1>12, <1>13, <1>14, StepGroups
       DEF Handling

\* What the phone was given and what it signed.
LEMMA PhoneTypes ==
    ASSUME SyncInv, [Next]_vars
    PROVE  /\ acceptance' \in [Sessions -> Boxes \cup {None}]
           /\ signed' \in [Commands -> Boxes \cup {None}]
           /\ phoneBox' \in DOMAIN mailbox \cup {None}
           /\ \A s \in Sessions : acceptance'[s] \in DOMAIN mailbox \cup {None}
           /\ \A c \in Commands : signed'[c] \in DOMAIN mailbox \cup {None}
  <1>1. /\ acceptance \in [Sessions -> Boxes \cup {None}]
        /\ signed \in [Commands -> Boxes \cup {None}]
    BY DEF SyncInv, TypeOK
  <1>2. /\ phoneBox \in DOMAIN mailbox \cup {None}
        /\ \A s \in Sessions : acceptance[s] \in DOMAIN mailbox \cup {None}
        /\ \A c \in Commands : signed[c] \in DOMAIN mailbox \cup {None}
    BY DEF SyncInv, Named
  <1>3. DOMAIN mailbox \subseteq Boxes
    BY BoxNames
  <1>4. CASE UNCHANGED <<acceptance, signed, phoneBox>>
    BY <1>1, <1>2, <1>4
  <1>5. CASE UploadAcceptance
    <2> DEFINE s == pairing.session
               box == IF acceptance[s] = None THEN pairing.seen.box
                                              ELSE acceptance[s]
    <2>1. /\ acceptance' = [acceptance EXCEPT ![s] = box] /\ phoneBox' = box
          /\ UNCHANGED signed /\ pairing.step = "accepting"
      BY <1>5 DEF UploadAcceptance
    <2>2. s \in Sessions /\ pairing.seen # None
      BY <2>1 DEF SyncInv, PairingFits
    <2>3. pairing.seen.box \in DOMAIN mailbox
      BY <2>2, OldCopies DEF Copy, Fits
    <2>4. box \in DOMAIN mailbox
      BY <1>2, <2>2, <2>3
    <2> HIDE DEF box
    <2> QED
      BY <1>1, <1>2, <1>3, <2>1, <2>2, <2>4
  <1>6. CASE \E c \in Commands, kind \in {"chunk", "command"} :
                PhoneSend(c, kind)
    <2>1. PICK c \in Commands, kind \in {"chunk", "command"} :
             PhoneSend(c, kind)
      BY <1>6
    <2> DEFINE cap == IF signed[c] = None THEN phoneBox ELSE signed[c]
    <2>2. /\ phoneBox # None /\ signed' = [signed EXCEPT ![c] = cap]
          /\ UNCHANGED <<acceptance, phoneBox>>
      BY <2>1 DEF PhoneSend, files
    <2>3. cap \in DOMAIN mailbox
      BY <1>2, <2>2
    <2> HIDE DEF cap
    <2> QED
      BY <1>1, <1>2, <1>3, <2>2, <2>3
  <1>7. CASE Handling \/ Revoke \/ PairingTalk
    <2>1. UNCHANGED <<acceptance, signed, phoneBox>>
      BY <1>7, HandlingFacts DEF Revoke, PairingTalk, CreatePairingSession,
         CancelPairingSession, ExpireInvitation, CompletePairing,
         PhoneResponds, PollPairingSession, files, store, phone
    <2> QED
      BY <1>4, <2>1
  <1>8. CASE UploadSnapshot \/ FinishPairing \/ FailPairing
    <2>1. UNCHANGED <<acceptance, signed, phoneBox>>
      BY <1>8 DEF UploadSnapshot, FinishPairing, FailPairing, files, phone
    <2> QED
      BY <1>4, <2>1
  <1>9. CASE Publishing
    <2>1. UNCHANGED <<acceptance, signed, phoneBox>>
      BY <1>9, Zenon DEF Publishing, LoadDevice, FailReconcile,
         CompareProjection, UploadChanges, StoreProjection, FailPublish,
         files, phone
    <2> QED
      BY <1>4, <2>1
  <1>10. CASE \/ FailRevoke \/ Crash \/ UNCHANGED vars
              \/ WorkspaceMoves
    <2>1. UNCHANGED <<acceptance, signed, phoneBox>>
      BY <1>10 DEF FailRevoke, Crash, WorkspaceMoves, WorkspaceChanges, VersionLands, vars, files, phone
    <2> QED
      BY <1>4, <2>1
  <1>11. CASE \/ GrantCapability \/ CloseMailboxes \/ FetchPage
              \/ AcknowledgeItem \/ \E b \in Boxes : ExpireEnvelope(b)
    <2>1. UNCHANGED <<acceptance, signed, phoneBox>>
      BY <1>11 DEF GrantCapability, CloseMailboxes, FetchPage, AcknowledgeItem,
         ExpireEnvelope, files, store, phone
    <2> QED
      BY <1>4, <2>1
  <1> QED
    BY <1>5, <1>6, <1>7, <1>8, <1>9, <1>10, <1>11, StepGroups
       DEF Quiet, Boxing, PairingDelivery

\* Sessions stay in their states.
LEMMA SessionTypes ==
    ASSUME SyncInv, [Next]_vars
    PROVE  /\ session' \in [Sessions -> SessionStates]
           /\ pending' \subseteq Sessions /\ named' \subseteq Sessions
  <1>1. /\ session \in [Sessions -> SessionStates]
        /\ pending \subseteq Sessions /\ named \subseteq Sessions
    BY DEF SyncInv, TypeOK
  <1>2. CASE UNCHANGED <<session, pending, named>>
    BY <1>1, <1>2
  <1>3. CASE PairingTalk
    <2>1. PICK s \in Sessions :
             /\ \/ session' = session
                \/ \E v \in SessionStates :
                      session' = [session EXCEPT ![s] = v]
             /\ pending' = pending \/ pending' = pending \cup {s}
             /\ named' = named
      BY <1>3, Zenon DEF PairingTalk, CreatePairingSession,
         CancelPairingSession, ExpireInvitation, CompletePairing,
         PhoneResponds, PollPairingSession, Consume, SessionStates, pairings
    <2> QED
      BY <1>1, <2>1
  <1>4. CASE FinishPairing
    <2>1. /\ UNCHANGED <<session, pending>>
          /\ named' = named \cup {pairing.session}
          /\ pairing.session \in Sessions
      BY <1>4 DEF FinishPairing, SyncInv, PairingFits
    <2> QED
      BY <1>1, <2>1
  <1>5. CASE Crash
    BY <1>5, <1>1 DEF Crash, SessionStates
  <1>6. CASE UploadAcceptance \/ UploadSnapshot \/ FailPairing
    BY <1>2, <1>6 DEF UploadAcceptance, UploadSnapshot, FailPairing
  <1>7. CASE Publishing
    <2>1. UNCHANGED <<session, pending, named>>
      BY <1>7, Zenon DEF Publishing, LoadDevice, FailReconcile,
         CompareProjection, UploadChanges, StoreProjection, FailPublish,
         pairings
    <2> QED
      BY <1>2, <2>1
  <1>8. CASE \/ FailRevoke \/ Revoke \/ UNCHANGED vars
             \/ WorkspaceMoves
    BY <1>2, <1>8 DEF FailRevoke, Revoke, WorkspaceMoves, WorkspaceChanges, VersionLands, vars, pairings
  <1>9. CASE Boxing
    BY <1>2, <1>9, BoxingFacts
  <1>10. CASE Handling
    BY <1>2, <1>10 DEF Handling, RepeatEnvelope, AdmitChunk, OpenCommand,
       ApplyCommand, RecordProcessed, CleanupReferences, AdmitCommand,
       PublishReceipt, AdvanceCursor, pairings
  <1> QED
    BY <1>3, <1>4, <1>5, <1>6, <1>7, <1>8, <1>9, <1>10, StepGroups
       DEF Quiet, PairingDelivery

\* Workspace, projection and the phone's view are sets of changes.
LEMMA ViewTypes ==
    ASSUME SyncInv, [Next]_vars
    PROVE  /\ projection' \in (SUBSET Changes) \cup {None}
           /\ workspace' \subseteq Changes /\ phoneView' \subseteq Changes
  <1>1. /\ projection \in (SUBSET Changes) \cup {None}
        /\ workspace \subseteq Changes /\ phoneView \subseteq Changes
        /\ loop.view \subseteq Changes /\ pairing.view \subseteq Changes
    BY DEF SyncInv, TypeOK, MemoryOK
  <1>2. CASE UNCHANGED <<projection, workspace, phoneView>>
    BY <1>1, <1>2
  <1>3. CASE PairingTalk
    BY <1>2, <1>3 DEF PairingTalk, CreatePairingSession,
       CancelPairingSession, ExpireInvitation, CompletePairing,
       PhoneResponds, PollPairingSession, files, received
  <1>4. CASE UploadAcceptance \/ FailPairing
    BY <1>2, <1>4 DEF UploadAcceptance, FailPairing, files, received
  <1>5. CASE UploadSnapshot
    BY <1>1, <1>5 DEF UploadSnapshot, files
  <1>6. CASE FinishPairing
    BY <1>1, <1>6 DEF FinishPairing, received
  <1>7. CASE UploadChanges
    BY <1>1, <1>7 DEF UploadChanges, files
  <1>8. CASE StoreProjection
    BY <1>1, <1>8 DEF StoreProjection, received
  <1>9. CASE LoadDevice \/ FailReconcile \/ CompareProjection \/ FailPublish
    <2>1. UNCHANGED <<projection, workspace, phoneView>>
      BY <1>9, Zenon DEF LoadDevice, FailReconcile, CompareProjection,
         FailPublish, files, received
    <2> QED
      BY <1>2, <2>1
  <1>10. CASE WorkspaceMoves
    BY <1>1, <1>10 DEF WorkspaceMoves, WorkspaceChanges, VersionLands, files, received
  <1>11. CASE FailRevoke \/ Revoke \/ Crash \/ UNCHANGED vars
    BY <1>2, <1>11 DEF FailRevoke, Revoke, Crash, vars, files, store, received
  <1>12. CASE Boxing \/ Handling
    BY <1>2, <1>12, BoxingFacts, HandlingFacts
  <1> QED
    BY <1>3, <1>4, <1>5, <1>6, <1>7, <1>8, <1>9, <1>10, <1>11, <1>12,
       StepGroups DEF Quiet, PairingDelivery, Publishing

\* The replay window stays a floor and a set of numbers.
LEMMA ReplayType ==
    ASSUME SyncInv, [Next]_vars
    PROVE  replay' \in [floor : Nat, seen : SUBSET Nat]
  <1>1. replay \in [floor : Nat, seen : SUBSET Nat]
    BY DEF SyncInv, TypeOK
  <1>2. CASE UNCHANGED replay
    BY <1>1, <1>2
  <1>3. CASE AdmitChunk \/ AdmitCommand
    <2>1. replay' = Observe(Here) /\ loop.step \in {"opening", "admitting"}
      BY <1>3 DEF AdmitChunk, AdmitCommand, Opens
    <2>2. Here \in Envelopes
      BY <2>1, InHand DEF WithItem, WithRecord, LoopSteps
    <2> QED
      BY <1>1, <2>1, <2>2, ObserveType
  <1>4. CASE Crash
    BY <1>4 DEF Crash, EmptyWindow
  <1>5. CASE PairingTalk
    BY <1>2, <1>5 DEF PairingTalk, CreatePairingSession,
       CancelPairingSession, ExpireInvitation, CompletePairing,
       PhoneResponds, PollPairingSession
  <1>6. CASE PairingDelivery
    BY <1>2, <1>6 DEF PairingDelivery, UploadAcceptance, UploadSnapshot,
       FinishPairing, FailPairing
  <1>7. CASE Publishing
    <2>1. UNCHANGED replay
      BY <1>7, Zenon DEF Publishing, LoadDevice, FailReconcile,
         CompareProjection, UploadChanges, StoreProjection, FailPublish
    <2> QED
      BY <1>2, <2>1
  <1>8. CASE \/ FailRevoke \/ Revoke \/ UNCHANGED vars
             \/ WorkspaceMoves
    BY <1>2, <1>8 DEF FailRevoke, Revoke, WorkspaceMoves, WorkspaceChanges, VersionLands, vars
  <1>9. CASE Boxing
    BY <1>2, <1>9, BoxingFacts
  <1>10. CASE \/ RepeatEnvelope \/ OpenCommand \/ ApplyCommand
              \/ RecordProcessed \/ CleanupReferences \/ PublishReceipt
              \/ AdvanceCursor
    BY <1>2, <1>10 DEF RepeatEnvelope, OpenCommand, ApplyCommand,
       RecordProcessed, CleanupReferences, PublishReceipt, AdvanceCursor
  <1> QED
    BY <1>3, <1>4, <1>5, <1>6, <1>7, <1>8, <1>9, <1>10, StepGroups
       DEF Quiet, Handling

\* What was executed without a record, and what a Version overtook, only grows.
LEMMA LineageStep ==
    ASSUME SyncInv, [Next]_vars
    PROVE  /\ stale \subseteq stale' /\ stale' \subseteq Commands
           /\ unrecorded \subseteq unrecorded' /\ unrecorded' \subseteq Commands
  <1>1. stale \subseteq Commands /\ unrecorded \subseteq Commands
    BY DEF SyncInv, TypeOK
  <1>2. CASE UNCHANGED lineage
    BY <1>1, <1>2 DEF lineage
  <1>3. CASE FailReconcile \/ Crash
    <2>1. UNCHANGED stale /\ LeaveUnrecorded
      BY <1>3 DEF FailReconcile, Crash
    <2> QED
      BY <1>1, <2>1 DEF LeaveUnrecorded
  <1>4. CASE WorkspaceMoves
    <2>1. \/ UNCHANGED lineage
          \/ /\ UNCHANGED unrecorded
             /\ \E c \in Commands : stale' = stale \cup {c}
      BY <1>4 DEF WorkspaceMoves, WorkspaceChanges, VersionLands, history
    <2> QED
      BY <1>1, <1>2, <2>1
  <1>5. CASE PairingTalk
    <2>1. UNCHANGED lineage
      BY <1>5 DEF PairingTalk, CreatePairingSession, CancelPairingSession,
         ExpireInvitation, CompletePairing, PhoneResponds,
         PollPairingSession, history
    <2> QED
      BY <1>2, <2>1
  <1>6. CASE PairingDelivery
    <2>1. UNCHANGED lineage
      BY <1>6 DEF PairingDelivery, UploadAcceptance, UploadSnapshot,
         FinishPairing, FailPairing, history
    <2> QED
      BY <1>2, <2>1
  <1>7. CASE \/ LoadDevice \/ CompareProjection \/ UploadChanges
             \/ StoreProjection \/ FailPublish
    <2>1. UNCHANGED lineage
      BY <1>7, Zenon DEF LoadDevice, CompareProjection, UploadChanges,
         StoreProjection, FailPublish, history
    <2> QED
      BY <1>2, <2>1
  <1>8. CASE FailRevoke \/ Revoke \/ UNCHANGED vars
    <2>1. UNCHANGED lineage
      BY <1>8 DEF FailRevoke, Revoke, vars, history
    <2> QED
      BY <1>2, <2>1
  <1>9. CASE Boxing
    <2>1. UNCHANGED lineage
      BY <1>9 DEF Boxing, GrantCapability, CloseMailboxes, FetchPage,
         AcknowledgeItem, PhoneSend, ExpireEnvelope, history
    <2> QED
      BY <1>2, <2>1
  <1>10. CASE Handling
    <2>1. UNCHANGED lineage
      BY <1>10 DEF Handling, RepeatEnvelope, AdmitChunk, OpenCommand,
         ApplyCommand, RecordProcessed, CleanupReferences, AdmitCommand,
         PublishReceipt, AdvanceCursor, history
    <2> QED
      BY <1>2, <2>1
  <1> QED
    BY <1>3, <1>4, <1>5, <1>6, <1>7, <1>8, <1>9, <1>10, StepGroups
       DEF Quiet, Publishing

\* The parts of the invariant that do not speak of results.
LEMMA StructureStep ==
    ASSUME SyncInv, [Next]_vars
    PROVE  /\ TypeOK' /\ MemoryOK' /\ BoxesFit' /\ CopiesFit' /\ Named'
           /\ PairingFits' /\ LoopFits'
  <1>1. /\ Copy(device', mailbox', receipts', revokes')
        /\ Copy(revoker', mailbox', receipts', revokes')
        /\ LoopSound' /\ PairingSound'
    BY DeviceStep, RevokerStep, LoopStep, PairingStep
  <1>2. mailbox' \in Seq(Mailbox) /\ BoxesFit'
    BY BoxesStep
  <1>3. /\ DOMAIN mailbox \subseteq DOMAIN mailbox'
        /\ DOMAIN mailbox \subseteq Boxes
    BY SentStays, BoxNames
  <1>4. CopiesFit'
    BY <1>1 DEF LoopSound, PairingSound, Copy, CopiesFit
  <1>5. Named'
    BY <1>3, PhoneTypes, InboxTypes DEF Named
  <1>6. PairingFits'
    BY <1>1, DeviceStep DEF PairingSound, PairingFits
  <1>7. MemoryOK'
    <2>1. loop' \in LoopType /\ pairing' \in PairingType
      BY <1>1 DEF LoopSound, PairingSound, LoopType, PairingType
    <2>2. revoker' \in Device \cup {None} /\ revokes' \in 0 .. MaxRevokes
      BY <1>1, RevokesCount DEF Copy
    <2> QED
      BY <2>1, <2>2 DEF MemoryOK, LoopType, PairingType
  <1>8. TypeOK'
    <2>1. device' \in Device \cup {None} /\ phoneBox' \in Boxes \cup {None}
      BY <1>1, <1>3, PhoneTypes DEF Copy
    <2> QED
      BY <1>2, <2>1, PhoneTypes, InboxTypes, SessionTypes, ViewTypes,
         ReplayType, LineageStep DEF TypeOK
  <1> QED
    BY <1>1, <1>2, <1>4, <1>5, <1>6, <1>7, <1>8 DEF LoopSound

-----------------------------------------------------------------------------
(* What is durable *)

\* A step that is not the handling of an envelope changes no result, and
\* leaves the command in hand or puts it down.
LEMMA RestFacts ==
    ASSUME SyncInv, [Next]_vars, ~Handling
    PROVE  /\ UNCHANGED <<admitted, processed, blob, applied, receipts>>
           /\ \/ loop'.step \notin WithCommand
              \/ loop' = loop /\ loop.step \in WithCommand /\ Item' = Item
  <1>1. UNCHANGED <<admitted, processed, blob, applied, receipts>>
    BY QuietFacts, BoxingFacts, StepGroups DEF SyncInv, Revoke, store, received
  <1>2. WithCommand \subseteq WithItem
    BY DEF WithCommand, WithPrior, WithItem, WithRecord, LoopSteps
  <1>3. CASE loop' = loop
    <2>1. CASE loop.step \in WithCommand
      <3>1. /\ loop.rec.box \in DOMAIN mailbox
            /\ loop.item \in DOMAIN mailbox[loop.rec.box].items
        BY <1>2, <2>1, InHand
      <3>2. Item' = Item
        BY <1>3, <3>1, EnvelopeStays DEF Item
      <3> QED
        BY <1>1, <1>3, <2>1, <3>2
    <2>2. CASE loop.step \notin WithCommand
      BY <1>1, <1>3, <2>2
    <2> QED
      BY <2>1, <2>2
  <1>4. CASE loop' # loop
    <2>1. loop'.step \notin WithCommand
      <3>1. CASE Quiet
        BY <1>2, <1>4, <3>1, QuietFacts DEF SyncInv
      <3>2. loop \in LoopType
        BY DEF SyncInv, MemoryOK, LoopType
      <3>3. {"fetching", "opening", "publishing"} \cap WithCommand = {}
        BY DEF WithCommand, WithPrior
      <3>4. [LoopIdle EXCEPT !.step = "publishing"].step = "publishing"
        BY DEF LoopIdle
      <3>5. CASE FetchPage
        <4> DEFINE reset == [loop.rec EXCEPT
                               !.cursor = mailbox[loop.rec.box].expired]
        <4>1. /\ loop.step = "fetching"
              /\ \/ loop' = [loop EXCEPT !.rec = reset]
                 \/ loop' = [loop EXCEPT !.step = "opening",
                               !.item = loop.rec.cursor + 1,
                               !.last = Len(mailbox[loop.rec.box].items)]
                 \/ loop' = [LoopIdle EXCEPT !.step = "publishing"]
          BY <3>5 DEF FetchPage
        <4> HIDE DEF reset
        <4>2. loop'.step \in {"fetching", "opening", "publishing"}
          BY <3>2, <3>4, <4>1 DEF LoopType
        <4> QED
          BY <3>3, <4>2
      <3>6. CASE AcknowledgeItem
        <4>1. \/ loop' = [loop EXCEPT !.step = "opening", !.item = @ + 1]
              \/ loop' = [LoopIdle EXCEPT !.step = "publishing"]
          BY <3>6 DEF AcknowledgeItem
        <4>2. loop'.step \in {"opening", "publishing"}
          BY <3>2, <3>4, <4>1 DEF LoopType
        <4> QED
          BY <3>3, <4>2
      <3>7. CASE \/ Revoke \/ CloseMailboxes \/ GrantCapability
                 \/ \E c \in Commands, kind \in {"chunk", "command"} :
                       PhoneSend(c, kind)
                 \/ \E b \in Boxes : ExpireEnvelope(b)
        BY <1>4, <3>7 DEF Revoke, CloseMailboxes, GrantCapability, PhoneSend,
           ExpireEnvelope
      <3> QED
        BY <3>1, <3>5, <3>6, <3>7, StepGroups DEF Boxing
    <2> QED
      BY <1>1, <2>1
  <1> QED
    BY <1>3, <1>4

\* Handling an envelope leaves the envelopes what they are.
LEMMA HandlingHand ==
    ASSUME SyncInv, Handling
    PROVE  /\ mailbox' = mailbox /\ Sent' = Sent
           /\ \A e \in Envelopes : ItemAt(e)' = ItemAt(e)
           /\ loop \in LoopType /\ loop.step \in WithItem
           /\ Here \in Sent /\ Here \in Envelopes /\ ItemAt(Here) = Item
           /\ Item \in Envelope /\ Item.cmd \in Commands /\ Item.cap \in Boxes
           /\ Item.cap \in DOMAIN mailbox
  <1>1. mailbox' = mailbox
    BY HandlingFacts
  <1>2. Sent' = Sent /\ \A e \in Envelopes : ItemAt(e)' = ItemAt(e)
    BY <1>1 DEF Sent, ItemAt
  <1>3. loop.step \in WithItem
    BY DEF Handling, RepeatEnvelope, AdmitChunk, OpenCommand, Opens,
       ApplyCommand, RecordProcessed, CleanupReferences, AdmitCommand,
       PublishReceipt, AdvanceCursor, WithItem, WithRecord, LoopSteps
  <1>4. loop \in LoopType
    BY DEF SyncInv, MemoryOK, LoopType
  <1> QED
    BY <1>1, <1>2, <1>3, <1>4, InHand

\* How each step on a command moves the reconciliation.
LEMMA HandlingMoves ==
    ASSUME SyncInv, Handling
    PROVE  /\ RepeatEnvelope =>
                 /\ loop'.step \in {"answering", "advancing"}
                 /\ loop'.result = admitted[Here]
           /\ AdmitChunk => loop'.step = "advancing"
           /\ OpenCommand => loop'.step \in {"admitting", "applying"}
           /\ ApplyCommand =>
                 /\ loop'.step = "recording"
                 /\ loop'.result \in {"done", "rejected"}
           /\ RecordProcessed =>
                 loop'.step = "cleaning" /\ loop'.result = loop.result
           /\ CleanupReferences =>
                 loop'.step = "admitting" /\ loop'.result = loop.result
           /\ AdmitCommand =>
                 loop'.step = "answering" /\ loop'.result = loop.result
           /\ PublishReceipt => loop'.step = "advancing"
           /\ AdvanceCursor => loop'.step = "acking"
           /\ ~AdvanceCursor => Item' = Item
  <1>1. loop \in LoopType /\ mailbox' = mailbox
    BY HandlingHand
  <1>2. RepeatEnvelope =>
           /\ loop'.step \in {"answering", "advancing"}
           /\ loop'.result = admitted[Here] /\ Item' = Item
    BY <1>1 DEF RepeatEnvelope, LoopType, Item
  <1>3. AdmitChunk => loop'.step = "advancing" /\ Item' = Item
    BY <1>1 DEF AdmitChunk, LoopType, Item
  <1>4. OpenCommand => loop'.step \in {"admitting", "applying"} /\ Item' = Item
    <2> SUFFICES ASSUME OpenCommand
                 PROVE  /\ loop'.step \in {"admitting", "applying"}
                        /\ Item' = Item
      OBVIOUS
    <2>1. \/ \E r : loop' = [loop EXCEPT !.prior = device,
                                         !.step = "admitting", !.result = r]
          \/ loop' = [loop EXCEPT !.prior = device, !.step = "applying"]
      BY DEF OpenCommand
    <2> QED
      BY <1>1, <2>1 DEF LoopType, Item
  <1>5. ApplyCommand => /\ loop'.step = "recording" /\ Item' = Item
                        /\ loop'.result \in {"done", "rejected"}
    <2> SUFFICES ASSUME ApplyCommand
                 PROVE  /\ loop'.step = "recording" /\ Item' = Item
                        /\ loop'.result \in {"done", "rejected"}
      OBVIOUS
    <2>1. \E r \in {"done", "rejected"} :
             loop' = [loop EXCEPT !.step = "recording", !.result = r]
      BY DEF ApplyCommand
    <2> QED
      BY <1>1, <2>1 DEF LoopType, Item
  <1>6. RecordProcessed => /\ loop'.step = "cleaning" /\ Item' = Item
                           /\ loop'.result = loop.result
    BY <1>1 DEF RecordProcessed, LoopType, Item
  <1>7. CleanupReferences => /\ loop'.step = "admitting" /\ Item' = Item
                             /\ loop'.result = loop.result
    BY <1>1 DEF CleanupReferences, LoopType, Item
  <1>8. AdmitCommand => /\ loop'.step = "answering" /\ Item' = Item
                        /\ loop'.result = loop.result
    BY <1>1 DEF AdmitCommand, LoopType, Item
  <1>9. PublishReceipt => loop'.step = "advancing" /\ Item' = Item
    BY <1>1 DEF PublishReceipt, LoopType, Item
  <1>10. AdvanceCursor => loop'.step = "acking"
    BY <1>1 DEF AdvanceCursor, LoopType
  <1> QED
    BY <1>2, <1>3, <1>4, <1>5, <1>6, <1>7, <1>8, <1>9, <1>10 DEF Handling

\* A command's record is written by RecordProcessed and by nothing else.
LEMMA DurableStep ==
    ASSUME SyncInv, [Next]_vars PROVE StepsAreDurable'
  <1>1. StepsAreDurable
    BY DEF SyncInv
  <1>2. {"applying", "recording", "cleaning"} \cup WithResult
           \subseteq WithCommand
    BY DEF WithCommand, WithPrior, WithResult
  <1>3. CASE ~Handling
    BY <1>1, <1>2, <1>3, RestFacts DEF StepsAreDurable
  <1>4. CASE Handling
    <2>1. loop \in LoopType /\ Item.cmd \in Commands /\ Item.cap \in Boxes
      BY <1>4, HandlingHand
    <2>2. \A c \in Commands :
             processed[c] # None => processed[c].result # "chunk"
      BY <1>1 DEF StepsAreDurable
    <2>3. CASE OpenCommand
      <3>1. loop'.step \in {"admitting", "applying"} /\ Item' = Item
        BY <1>4, <2>3, HandlingMoves DEF OpenCommand, AdvanceCursor, Opens
      <3>2. processed' = processed
        BY <2>3 DEF OpenCommand
      <3>3. /\ loop'.step = "applying" => processed[Item.cmd] = None
            /\ loop'.step = "admitting" => loop'.result # "chunk"
        <4>1. \/ /\ processed[Item.cmd] = None
                 /\ loop' = [loop EXCEPT !.prior = device, !.step = "applying"]
              \/ \E r : /\ r # "chunk"
                        /\ loop' = [loop EXCEPT !.prior = device,
                                      !.step = "admitting", !.result = r]
          BY <2>1, <2>2, <2>3 DEF OpenCommand
        <4> QED
          BY <2>1, <4>1 DEF LoopType
      <3>4. "applying" \notin WithResult
        BY DEF WithResult
      <3> QED
        BY <2>2, <3>1, <3>2, <3>3, <3>4 DEF StepsAreDurable
    <2>4. CASE ApplyCommand
      <3>1. /\ loop.step = "applying" /\ processed' = processed
            /\ loop'.step = "recording" /\ Item' = Item
            /\ loop'.result \in {"done", "rejected"}
        BY <1>4, <2>4, HandlingMoves DEF ApplyCommand, AdvanceCursor
      <3> QED
        BY <1>1, <3>1 DEF StepsAreDurable
    <2>5. CASE RecordProcessed
      <3> DEFINE p == [cap |-> Item.cap, result |-> loop.result]
      <3>1. /\ loop'.step = "cleaning" /\ loop'.result = loop.result
            /\ Item' = Item
            /\ processed' = [processed EXCEPT ![Item.cmd] = p]
            /\ loop.step = "recording"
        BY <1>4, <2>5, HandlingMoves DEF RecordProcessed, AdvanceCursor
      <3>2. loop.step \in WithResult \ {"answering"}
        BY <3>1 DEF WithResult, WithCommand, WithPrior
      <3>3. /\ processed \in [Commands ->
                               [cap : Boxes, result : Results] \cup {None}]
            /\ loop.result \in Results /\ loop.result # "chunk"
        BY <1>1, <3>2 DEF SyncInv, TypeOK, MemoryOK, LoopFits, StepsAreDurable
      <3>4. p # None /\ p.result = loop.result
        BY <2>1, <3>3, AbsenceAssumption
      <3> HIDE DEF p
      <3>5. \A c \in Commands :
               processed'[c] = IF c = Item.cmd THEN p ELSE processed[c]
        BY <3>1, <3>3
      <3> QED
        BY <2>1, <2>2, <3>1, <3>3, <3>4, <3>5 DEF StepsAreDurable
    <2>6. CASE CleanupReferences
      <3>1. /\ loop.step = "cleaning" /\ processed' = processed
            /\ loop'.step = "admitting" /\ loop'.result = loop.result
        BY <1>4, <2>6, HandlingMoves DEF CleanupReferences
      <3>2. loop.step \in WithResult \ {"answering"}
        BY <3>1 DEF WithResult, WithCommand, WithPrior
      <3> QED
        BY <1>1, <3>1, <3>2 DEF StepsAreDurable
    <2>7. CASE \/ RepeatEnvelope \/ AdmitChunk \/ AdmitCommand
               \/ PublishReceipt \/ AdvanceCursor
      <3>1. loop'.step \in {"answering", "advancing", "acking"}
        BY <1>4, <2>7, HandlingMoves
      <3>2. loop'.step \notin WithResult \ {"answering"}
        BY <3>1 DEF WithResult, WithCommand, WithPrior
      <3>3. processed' = processed
        BY <2>7 DEF RepeatEnvelope, AdmitChunk, AdmitCommand, PublishReceipt,
           AdvanceCursor, files, store
      <3> QED
        BY <2>2, <3>1, <3>2, <3>3 DEF StepsAreDurable
    <2> QED
      BY <1>4, <2>3, <2>4, <2>5, <2>6, <2>7 DEF Handling
  <1> QED
    BY <1>3, <1>4

\* A blob goes together with the admissions of its chunks, and only when the
\* result of its command is recorded.
LEMMA BlobsStep ==
    ASSUME SyncInv, [Next]_vars PROVE BlobsWait'
  <1>1. /\ \A e \in Sent : admitted[e] = "chunk" => ItemAt(e).cmd \in blob
        /\ \A e \in Envelopes : admitted[e] # None => e \in Sent
        /\ \A c \in References :
              applied[c] # None /\ processed[c] = None => c \in blob
    BY DEF SyncInv, BlobsWait, ReferencesOutliveUse
  <1>2. /\ admitted \in [Envelopes -> Results \cup {None}]
        /\ processed \in [Commands ->
                            [cap : Boxes, result : Results] \cup {None}]
        /\ applied \in [Commands -> Boxes \cup {None}]
        /\ References \subseteq Commands /\ Sent \subseteq Envelopes
    BY ConstantsAssumption DEF SyncInv, TypeOK, Sent
  <1>3. None # "chunk"
    BY AbsenceAssumption DEF Results
  <1>4. CASE ~Handling
    <2>1. UNCHANGED <<admitted, processed, blob, applied>>
      BY <1>4, RestFacts
    <2>2. \A e \in Sent : e \in Sent' /\ mailbox'[e[1]].items[e[2]] = ItemAt(e)
      BY SentStays
    <2>3. \A e \in Sent' : e \in Envelopes
      BY DEF Sent
    <2>4. ReferencesOutliveUse'
      <3> SUFFICES ASSUME NEW e \in Sent', admitted[e] = "chunk"
                   PROVE  ItemAt(e)'.cmd \in blob
        BY <1>1, <2>1 DEF ReferencesOutliveUse
      <3>1. e \in Sent
        BY <1>1, <1>3, <2>3
      <3> QED
        BY <1>1, <2>2, <3>1 DEF ItemAt
    <2> QED
      BY <1>1, <2>1, <2>2, <2>4 DEF BlobsWait
  <1>5. ASSUME Handling,
               \A e \in Envelopes :
                  /\ admitted'[e] # None => e \in Sent
                  /\ admitted'[e] = "chunk" => ItemAt(e).cmd \in blob',
               \A c \in References :
                  applied'[c] # None /\ processed'[c] = None => c \in blob'
        PROVE  BlobsWait'
    <2>1. Sent' = Sent /\ \A e \in Envelopes : ItemAt(e)' = ItemAt(e)
      BY <1>5, HandlingHand
    <2> QED
      BY <1>2, <1>5, <2>1 DEF BlobsWait, ReferencesOutliveUse
  <1>6. ASSUME NEW c \in Commands, processed[c] # None,
               RemoveConsumedReference(c), UNCHANGED <<processed, applied>>,
               Handling
        PROVE  BlobsWait'
    <2>1. /\ blob' = blob \ {c}
          /\ admitted' = [e \in Envelopes |->
                            IF admitted[e] = "chunk" /\ ItemAt(e).cmd = c
                            THEN None ELSE admitted[e]]
      BY <1>6 DEF RemoveConsumedReference, ItemAt
    <2>2. \A e \in Envelopes :
             /\ admitted'[e] # None => e \in Sent
             /\ admitted'[e] = "chunk" => ItemAt(e).cmd \in blob'
      BY <1>1, <1>3, <2>1
    <2>3. \A d \in References :
             applied'[d] # None /\ processed'[d] = None => d \in blob'
      BY <1>1, <1>6, <2>1
    <2> QED
      BY <1>5, <1>6, <2>2, <2>3
  <1>7. CASE Handling
    <2>1. /\ Here \in Sent /\ Here \in Envelopes /\ ItemAt(Here) = Item
          /\ Item.cmd \in Commands
      BY <1>7, HandlingHand
    <2>2. \A e \in Envelopes :
             /\ admitted[e] # None => e \in Sent
             /\ admitted[e] = "chunk" => ItemAt(e).cmd \in blob
      BY <1>1, <1>3
    <2>3. CASE RepeatEnvelope \/ PublishReceipt \/ AdvanceCursor
      <3>1. UNCHANGED <<admitted, processed, blob, applied>>
        BY <2>3 DEF RepeatEnvelope, PublishReceipt, AdvanceCursor, files, store
      <3> QED
        BY <1>1, <1>5, <1>7, <2>2, <3>1
    <2>4. CASE AdmitChunk
      <3>1. /\ blob' = blob \cup {Item.cmd} /\ UNCHANGED <<processed, applied>>
            /\ admitted' = [admitted EXCEPT ![Here] = "chunk"]
        BY <2>4 DEF AdmitChunk
      <3>2. \A e \in Envelopes :
               /\ admitted'[e] # None => e \in Sent
               /\ admitted'[e] = "chunk" => ItemAt(e).cmd \in blob'
        BY <1>2, <2>1, <2>2, <3>1
      <3> QED
        BY <1>1, <1>5, <1>7, <3>1, <3>2
    <2>5. CASE OpenCommand
      <3>1. /\ UNCHANGED <<processed, applied>>
            /\ \/ UNCHANGED <<blob, admitted>>
               \/ /\ processed[Item.cmd] # None
                  /\ RemoveConsumedReference(Item.cmd)
        BY <2>5 DEF OpenCommand
      <3>2. CASE UNCHANGED <<blob, admitted>>
        BY <1>1, <1>5, <1>7, <2>2, <3>1, <3>2
      <3>3. CASE /\ processed[Item.cmd] # None
                 /\ RemoveConsumedReference(Item.cmd)
        BY <1>6, <1>7, <2>1, <3>1, <3>3
      <3> QED
        BY <3>1, <3>2, <3>3
    <2>6. CASE ApplyCommand
      <3>1. /\ UNCHANGED <<processed, admitted, blob>>
            /\ \/ UNCHANGED applied
               \/ /\ Item.cmd \in References => Item.cmd \in blob
                  /\ applied' = [applied EXCEPT ![Item.cmd] = Item.cap]
        BY <2>6 DEF ApplyCommand, ApplicationResult, Admissible
      <3>2. \A d \in References :
               applied'[d] # None /\ processed'[d] = None => d \in blob'
        BY <1>1, <1>2, <3>1
      <3> QED
        BY <1>5, <1>7, <2>2, <3>1, <3>2
    <2>7. CASE RecordProcessed
      <3>1. /\ UNCHANGED <<applied, admitted, blob>>
            /\ processed' = [processed EXCEPT ![Item.cmd] =
                               [cap |-> Item.cap, result |-> loop.result]]
            /\ loop.step = "recording"
        BY <2>7 DEF RecordProcessed
      <3>2. processed[Item.cmd] = None
        BY <3>1 DEF SyncInv, StepsAreDurable
      <3>3. \A d \in References :
               applied'[d] # None /\ processed'[d] = None => d \in blob'
        BY <1>1, <1>2, <3>1, <3>2
      <3> QED
        BY <1>5, <1>7, <2>2, <3>1, <3>3
    <2>8. CASE CleanupReferences
      <3>1. /\ RemoveConsumedReference(Item.cmd) /\ loop.step = "cleaning"
            /\ UNCHANGED <<processed, applied>>
        BY <2>8 DEF CleanupReferences
      <3>2. processed[Item.cmd] # None
        BY <3>1 DEF SyncInv, StepsAreDurable
      <3> QED
        BY <1>6, <1>7, <2>1, <3>1, <3>2
    <2>9. CASE AdmitCommand
      <3>1. /\ UNCHANGED <<processed, applied, blob>>
            /\ admitted' = [admitted EXCEPT ![Here] = loop.result]
            /\ loop.step = "admitting"
        BY <2>9 DEF AdmitCommand
      <3>2. loop.result # "chunk"
        BY <3>1 DEF SyncInv, StepsAreDurable, WithResult, WithCommand,
                    WithPrior
      <3>3. \A e \in Envelopes :
               /\ admitted'[e] # None => e \in Sent
               /\ admitted'[e] = "chunk" => ItemAt(e).cmd \in blob'
        BY <1>2, <2>1, <2>2, <3>1, <3>2
      <3> QED
        BY <1>1, <1>5, <1>7, <3>1, <3>3
    <2> QED
      BY <1>7, <2>3, <2>4, <2>5, <2>6, <2>7, <2>8, <2>9 DEF Handling
  <1> QED
    BY <1>4, <1>7

-----------------------------------------------------------------------------
(* The results that are told *)

\* What the handling of an envelope may change: the admission of the envelope
\* in hand, the result of the command in hand, a receipt of it, an execution.
LEMMA HandlingResults ==
    ASSUME SyncInv, [Next]_vars, Handling
    PROVE  /\ \A e \in Envelopes :
                 \/ admitted'[e] \in {admitted[e], None, "chunk"}
                 \/ /\ e = Here /\ loop.step = "admitting"
                    /\ admitted'[e] = loop.result
           /\ \A c \in Commands :
                 \/ processed'[c] = processed[c]
                 \/ /\ c = Item.cmd /\ loop.step = "recording"
                    /\ processed[c] = None /\ processed'[c] # None
                    /\ processed'[c].result = loop.result
           /\ \A r \in receipts' :
                 \/ r \in receipts
                 \/ /\ loop.step = "answering" /\ r.cmd = Item.cmd
                    /\ r.result = loop.result
           /\ \A c \in Commands :
                 \/ applied'[c] = applied[c]
                 \/ /\ c = Item.cmd /\ ApplyCommand /\ loop'.result = "done"
                    /\ applied[c] = None /\ applied'[c] # None
  <1>1. /\ admitted \in [Envelopes -> Results \cup {None}]
        /\ processed \in [Commands ->
                            [cap : Boxes, result : Results] \cup {None}]
        /\ applied \in [Commands -> Boxes \cup {None}]
        /\ loop.result \in Results \cup {None}
    BY DEF SyncInv, TypeOK, MemoryOK
  <1>2. /\ Here \in Envelopes /\ Item.cmd \in Commands /\ Item.cap \in Boxes
        /\ loop \in LoopType
    BY HandlingHand
  <1>3. \A c : RemoveConsumedReference(c) =>
           \A e \in Envelopes : admitted'[e] \in {admitted[e], None}
    BY <1>1 DEF RemoveConsumedReference
  <1>4. CASE RepeatEnvelope \/ AdvanceCursor
    BY <1>4 DEF RepeatEnvelope, AdvanceCursor, files, store, received
  <1>5. CASE AdmitChunk
    <2>1. /\ admitted' = [admitted EXCEPT ![Here] = "chunk"]
          /\ UNCHANGED <<processed, applied, receipts>>
      BY <1>5 DEF AdmitChunk, received
    <2> QED
      BY <1>1, <2>1
  <1>6. CASE OpenCommand
    <2>1. /\ RemoveConsumedReference(Item.cmd) \/ UNCHANGED admitted
          /\ UNCHANGED <<processed, applied, receipts>>
      BY <1>6 DEF OpenCommand, received
    <2> QED
      BY <1>3, <2>1
  <1>7. CASE ApplyCommand
    <2>1. \/ UNCHANGED applied
          \/ /\ applied[Item.cmd] = None
             /\ loop' = [loop EXCEPT !.step = "recording", !.result = "done"]
             /\ applied' = [applied EXCEPT ![Item.cmd] = Item.cap]
      BY <1>7 DEF ApplyCommand, ApplicationResult
    <2>2. UNCHANGED <<admitted, processed, receipts>>
      BY <1>7 DEF ApplyCommand, received
    <2>3. Item.cap # None
      BY <1>2, ConstantsAssumption DEF Boxes
    <2>4. \A c \in Commands :
             \/ applied'[c] = applied[c]
             \/ /\ c = Item.cmd /\ ApplyCommand /\ loop'.result = "done"
                /\ applied[c] = None /\ applied'[c] # None
      BY <1>1, <1>2, <1>7, <2>1, <2>3 DEF LoopType
    <2> QED
      BY <2>2, <2>4
  <1>8. CASE RecordProcessed
    <2> DEFINE p == [cap |-> Item.cap, result |-> loop.result]
    <2>1. /\ processed' = [processed EXCEPT ![Item.cmd] = p]
          /\ loop.step = "recording"
          /\ UNCHANGED <<admitted, applied, receipts>>
      BY <1>8 DEF RecordProcessed, received
    <2>2. processed[Item.cmd] = None /\ loop.result # None
      BY <2>1 DEF SyncInv, StepsAreDurable, LoopFits, WithResult, WithCommand,
                  WithPrior
    <2>3. p # None /\ p.result = loop.result
      BY <1>1, <1>2, <2>2, AbsenceAssumption
    <2> HIDE DEF p
    <2>4. \A c \in Commands :
             \/ processed'[c] = processed[c]
             \/ c = Item.cmd /\ processed'[c] = p
      BY <1>1, <2>1
    <2> QED
      BY <2>1, <2>2, <2>3, <2>4
  <1>9. CASE CleanupReferences
    <2>1. /\ RemoveConsumedReference(Item.cmd)
          /\ UNCHANGED <<processed, applied, receipts>>
      BY <1>9 DEF CleanupReferences, received
    <2> QED
      BY <1>3, <2>1
  <1>10. CASE AdmitCommand
    <2>1. /\ admitted' = [admitted EXCEPT ![Here] = loop.result]
          /\ loop.step = "admitting"
          /\ UNCHANGED <<processed, applied, receipts>>
      BY <1>10 DEF AdmitCommand, received
    <2> QED
      BY <1>1, <2>1
  <1>11. CASE PublishReceipt
    <2>1. /\ receipts' = receipts \cup
                {[cmd |-> Item.cmd, box |-> loop.rec.box,
                  result |-> loop.result]}
          /\ loop.step = "answering"
          /\ UNCHANGED <<admitted, processed, applied>>
      BY <1>11 DEF PublishReceipt, files
    <2> QED
      BY <2>1
  <1> QED
    BY <1>4, <1>5, <1>6, <1>7, <1>8, <1>9, <1>10, <1>11 DEF Handling

\* Nothing takes an execution or a recorded result back.
LEMMA RecordsStay ==
    ASSUME SyncInv, [Next]_vars, NEW c \in Commands
    PROVE  /\ applied[c] # None => applied'[c] # None
           /\ processed[c] # None => processed'[c] = processed[c]
  BY RestFacts, HandlingResults

\* A step that tells no result and admits nothing new finds admissions of
\* envelopes that were sent before.
LEMMA AdmittedWasSent ==
    ASSUME SyncInv, [Next]_vars, ~Handling, NEW e \in Sent',
           admitted'[e] # None
    PROVE  e \in Sent /\ ItemAt(e)' = ItemAt(e) /\ admitted'[e] = admitted[e]
  <1>1. admitted' = admitted /\ e \in Envelopes
    BY RestFacts DEF Sent
  <1>2. e \in Sent
    BY <1>1 DEF SyncInv, BlobsWait
  <1> QED
    BY <1>1, <1>2, SentStays DEF ItemAt

\* A result that says done comes from an execution, at every place it is kept.
LEMMA DoneStep ==
    ASSUME SyncInv, [Next]_vars PROVE DoneIsApplied'
  <1>1. DoneIsApplied
    BY DEF SyncInv
  <1>2. None # "done"
    BY AbsenceAssumption DEF Results
  <1>3. /\ receipts' \subseteq [cmd : Commands, box : Boxes, result : Results]
        /\ receipts \subseteq [cmd : Commands, box : Boxes, result : Results]
    BY InboxTypes DEF SyncInv, TypeOK
  <1>4. \A c \in Commands : applied[c] # None => applied'[c] # None
    BY RecordsStay
  <1>5. CASE ~Handling
    <2>1. UNCHANGED <<admitted, processed, applied, receipts>>
      BY <1>5, RestFacts
    <2>2. \A e \in Sent' :
             admitted'[e] = "done" => applied'[ItemAt(e)'.cmd] # None
      BY <1>1, <1>2, <1>5, <2>1, AdmittedWasSent DEF DoneIsApplied
    <2>3. loop'.step \in WithResult /\ loop'.result = "done" =>
             applied'[Item'.cmd] # None
      <3>1. WithResult \subseteq WithCommand
        BY DEF WithResult
      <3> QED
        BY <1>1, <1>5, <2>1, <3>1, RestFacts DEF DoneIsApplied
    <2> QED
      BY <1>1, <2>1, <2>2, <2>3 DEF DoneIsApplied
  <1>6. CASE Handling
    <2>1. /\ Here \in Sent /\ Here \in Envelopes /\ ItemAt(Here) = Item
          /\ Item.cmd \in Commands
          /\ loop \in LoopType /\ loop.step \in WithItem
          /\ Sent' = Sent /\ \A e \in Envelopes : ItemAt(e)' = ItemAt(e)
      BY <1>6, HandlingHand
    <2>2. {"recording", "cleaning", "admitting", "answering"} = WithResult
      BY DEF WithResult, WithCommand, WithPrior
    <2>3. \A r \in receipts' : r.result = "done" => applied'[r.cmd] # None
      BY <1>1, <1>3, <1>4, <1>6, <2>1, <2>2, HandlingResults DEF DoneIsApplied
    <2>4. \A e \in Sent :
             admitted'[e] = "done" => applied'[ItemAt(e).cmd] # None
      <3> SUFFICES ASSUME NEW e \in Sent, admitted'[e] = "done"
                   PROVE  applied'[ItemAt(e).cmd] # None
        OBVIOUS
      <3>1. e \in Envelopes /\ ItemAt(e).cmd \in Commands
        BY BoxFacts DEF Sent, ItemAt, SyncInv, Envelope
      <3>2. \/ admitted[e] = "done"
            \/ e = Here /\ loop.step = "admitting" /\ loop.result = "done"
        BY <1>2, <1>6, <3>1, HandlingResults
      <3>3. applied[ItemAt(e).cmd] # None
        BY <1>1, <2>1, <2>2, <3>2 DEF DoneIsApplied
      <3> QED
        BY <1>4, <3>1, <3>3
    <2>5. \A c \in Commands :
             processed'[c] # None /\ processed'[c].result = "done" =>
                 applied'[c] # None
      BY <1>1, <1>4, <1>6, <2>2, HandlingResults DEF DoneIsApplied
    <2>6. loop'.step \in WithResult /\ loop'.result = "done" =>
             applied'[Item'.cmd] # None
      <3>1. CASE RepeatEnvelope
        <4>1. loop'.result = admitted[Here] /\ Item' = Item
          BY <1>6, <3>1, HandlingMoves DEF RepeatEnvelope, AdvanceCursor
        <4> QED
          BY <1>1, <1>4, <2>1, <4>1 DEF DoneIsApplied
      <3>2. CASE OpenCommand
        <4>1. /\ Item' = Item
              /\ \/ loop' = [loop EXCEPT !.prior = device,
                               !.step = "admitting", !.result = "rejected"]
                 \/ /\ processed[Item.cmd] # None
                    /\ loop' = [loop EXCEPT !.prior = device,
                                  !.step = "admitting",
                                  !.result = processed[Item.cmd].result]
                 \/ loop' = [loop EXCEPT !.prior = device, !.step = "applying"]
          BY <1>6, <3>2, HandlingMoves DEF OpenCommand, Opens, AdvanceCursor
        <4>2. loop'.step \in WithResult /\ loop'.result = "done" =>
                 /\ processed[Item.cmd] # None
                 /\ processed[Item.cmd].result = "done"
          BY <2>1, <2>2, <4>1 DEF LoopType
        <4> QED
          BY <1>1, <1>4, <2>1, <4>1, <4>2 DEF DoneIsApplied
      <3>3. CASE ApplyCommand
        <4>1. loop.step = "applying" /\ Item' = Item
          BY <1>6, <3>3, HandlingMoves DEF ApplyCommand, AdvanceCursor
        <4>2. PICK r \in {"done", "rejected"} :
                 /\ loop' = [loop EXCEPT !.step = "recording", !.result = r]
                 /\ \/ ApplicationResult(Item.cmd, Item.cap, r)
                    \/ r = "rejected" /\ UNCHANGED applied
          BY <3>3 DEF ApplyCommand
        <4>3. loop'.result = r
          BY <2>1, <4>2 DEF LoopType
        <4>4. Item.cap # None /\ applied \in [Commands -> Boxes \cup {None}]
          BY <1>6, HandlingHand, ConstantsAssumption DEF Boxes, SyncInv, TypeOK
        <4>5. r = "done" => applied'[Item.cmd] # None
          BY <2>1, <4>2, <4>4 DEF ApplicationResult
        <4> QED
          BY <4>1, <4>3, <4>5
      <3>4. CASE RecordProcessed \/ CleanupReferences \/ AdmitCommand
        <4>1. /\ loop'.result = loop.result /\ Item' = Item
              /\ loop.step \in WithResult
          BY <1>6, <2>2, <3>4, HandlingMoves
             DEF RecordProcessed, CleanupReferences, AdmitCommand,
                 AdvanceCursor
        <4> QED
          BY <1>1, <1>4, <2>1, <4>1 DEF DoneIsApplied
      <3>5. CASE AdmitChunk \/ PublishReceipt \/ AdvanceCursor
        BY <1>6, <2>2, <3>5, HandlingMoves
      <3> QED
        BY <1>6, <3>1, <3>2, <3>3, <3>4, <3>5 DEF Handling
    <2> QED
      BY <2>1, <2>3, <2>4, <2>5, <2>6 DEF DoneIsApplied, Sent
  <1> QED
    BY <1>5, <1>6

\* An execution whose record is not written at once is remembered.
LEMMA FollowedStep ==
    ASSUME SyncInv, [Next]_vars PROVE ExecutionsAreFollowed'
  <1>1. ExecutionsAreFollowed
    BY DEF SyncInv
  <1>2. unrecorded \subseteq unrecorded'
    BY LineageStep
  <1>3. CASE FailReconcile \/ Crash
    <2>1. LeaveUnrecorded /\ UNCHANGED <<applied, processed>>
      BY <1>3 DEF FailReconcile, Crash, files
    <2> QED
      BY <2>1 DEF LeaveUnrecorded, ExecutionsAreFollowed
  <1>4. CASE ~Handling /\ ~FailReconcile /\ ~Crash
    <2>1. UNCHANGED <<applied, processed>>
      BY <1>4, RestFacts
    <2>2. loop.step = "recording" => loop' = loop
      <3> SUFFICES ASSUME loop.step = "recording" PROVE loop' = loop
        OBVIOUS
      <3>1. CASE PairingTalk
        BY <3>1 DEF PairingTalk, CreatePairingSession, CancelPairingSession,
           ExpireInvitation, CompletePairing, PhoneResponds,
           PollPairingSession
      <3>2. CASE PairingDelivery
        BY <3>2 DEF PairingDelivery, UploadAcceptance, UploadSnapshot,
           FinishPairing, FailPairing
      <3>3. CASE \/ LoadDevice \/ CompareProjection \/ UploadChanges
                 \/ StoreProjection \/ FailPublish
        BY <3>3, Zenon DEF LoadDevice, CompareProjection, UploadChanges,
           StoreProjection, FailPublish
      <3>4. CASE FailRevoke \/ Revoke \/ WorkspaceMoves \/ UNCHANGED vars
        BY <3>4 DEF FailRevoke, Revoke, WorkspaceMoves, WorkspaceChanges,
           VersionLands, vars
      <3>5. CASE Boxing
        BY <3>5 DEF Boxing, GrantCapability, CloseMailboxes, FetchPage,
           AcknowledgeItem, PhoneSend, ExpireEnvelope
      <3> QED
        BY <1>4, <3>1, <3>2, <3>3, <3>4, <3>5, StepGroups
           DEF Quiet, Publishing
    <2>3. loop.step = "recording" => loop'.step = "recording" /\ Item' = Item
      BY <1>4, <2>2, RestFacts DEF WithCommand, WithPrior
    <2> QED
      BY <1>1, <1>2, <2>1, <2>3 DEF ExecutionsAreFollowed
  <1>5. CASE Handling
    <2>1. Item.cmd \in Commands
      BY <1>5, HandlingHand
    <2>2. CASE ApplyCommand
      <3>1. /\ loop.step = "applying" /\ loop'.step = "recording"
            /\ Item' = Item
        BY <1>5, <2>2, HandlingMoves DEF ApplyCommand, AdvanceCursor
      <3>2. \A c \in Commands :
               /\ c = Item.cmd \/ applied'[c] = applied[c]
               /\ processed'[c] = processed[c]
        BY <1>5, <3>1, HandlingResults
      <3> QED
        BY <1>1, <1>2, <3>1, <3>2 DEF ExecutionsAreFollowed
    <2>3. CASE RecordProcessed
      <3>1. /\ loop.step = "recording" /\ UNCHANGED applied
            /\ loop'.step = "cleaning" /\ Item' = Item
        BY <1>5, <2>3, HandlingMoves DEF RecordProcessed, AdvanceCursor
      <3>2. processed'[Item.cmd] # None
        BY <3>1, DurableStep DEF StepsAreDurable
      <3>3. \A c \in Commands : processed'[c] = None => processed[c] = None
        BY RecordsStay
      <3> QED
        BY <1>1, <1>2, <3>1, <3>2, <3>3 DEF ExecutionsAreFollowed
    <2>4. CASE ~ApplyCommand /\ ~RecordProcessed
      <3>1. loop.step # "recording"
        BY <1>5, <2>4 DEF Handling, RepeatEnvelope, AdmitChunk, OpenCommand,
           Opens, CleanupReferences, AdmitCommand, PublishReceipt,
           AdvanceCursor
      <3>2. \A c \in Commands :
               applied'[c] = applied[c] /\ processed'[c] = processed[c]
        BY <1>5, <2>4, <3>1, HandlingResults
      <3> QED
        BY <1>1, <1>2, <3>1, <3>2 DEF ExecutionsAreFollowed
    <2> QED
      BY <2>2, <2>3, <2>4
  <1> QED
    BY <1>3, <1>4, <1>5

\* Mailboxes are never removed.
LEMMA BoxesCount ==
    ASSUME SyncInv, [Next]_vars
    PROVE  Len(mailbox) \in Nat /\ Len(mailbox) <= Len(mailbox')
  <1>1. Len(mailbox) \in Nat
    BY BoxFacts DEF SyncInv
  <1>2. CASE GrantCapability
    <2>1. CASE IsRetry(pairing.seen, pairing.session)
      BY <1>1, <1>2, <2>1 DEF GrantCapability
    <2>2. CASE ~IsRetry(pairing.seen, pairing.session)
      BY <1>1, <1>2, <2>2, GrantFits
    <2> QED
      BY <2>1, <2>2
  <1>3. CASE ~GrantCapability
    BY <1>1, <1>3, SameBoxes
  <1> QED
    BY <1>1, <1>2, <1>3

\* In one undisturbed pairing there is one capability, it is granted, and it
\* is the one every command and record names.
LEMMA OneCapability ==
    ASSUME SyncInv, Undisturbed, loop.step \in WithItem
    PROVE  /\ Item.cap = 1 /\ Authorized(1)
           /\ \A c \in Commands :
                 /\ applied[c] \in {1, None}
                 /\ processed[c] # None => processed[c].cap = 1
  <1>1. /\ Item.cap \in DOMAIN mailbox /\ device \in Device
        /\ loop.rec.box \in DOMAIN mailbox
    BY InHand
  <1>2. DOMAIN mailbox = 1 .. Len(mailbox) /\ Len(mailbox) \in Nat
    BY BoxFacts DEF SyncInv
  <1>3. DOMAIN mailbox = {1}
    BY <1>1, <1>2 DEF Undisturbed
  <1>4. \A c \in Commands :
           /\ applied[c] \in {1, None}
           /\ processed[c] # None => processed[c].cap = 1
    BY <1>3 DEF SyncInv, Named
  <1>5. Fits(device, mailbox, receipts, revokes)
    BY <1>1, AbsenceAssumption DEF SyncInv, CopiesFit
  <1>6. device.box = 1
    BY <1>3, <1>5 DEF Fits
  <1>7. device.epoch = 0 /\ device.grant = 0
    <2>1. device.epoch \in Nat /\ device.grant \in Nat
      BY <1>1, ConstantsAssumption DEF Device
    <2> QED
      BY <1>5, <2>1 DEF Fits, Undisturbed
  <1>8. ~device.revoked
    <2>1. ~(revokes > 0)
      BY DEF Undisturbed
    <2> QED
      BY <1>5, <2>1, Zenon DEF Fits
  <1>9. device # None
    BY <1>1, AbsenceAssumption
  <1>10. Authorized(1)
    BY <1>6, <1>7, <1>8, <1>9, Zenon DEF Authorized
  <1> QED
    BY <1>1, <1>3, <1>4, <1>10

\* Undisturbed, a rejection reaches a receipt through the command's record.
LEMMA RejectedStep ==
    ASSUME SyncInv, [Next]_vars PROVE RejectedIsRecorded'
  <1> SUFFICES ASSUME Undisturbed' PROVE RejectedIsRecorded'
    BY DEF RejectedIsRecorded
  <1>1. Undisturbed
    <2>1. revokes \in Nat /\ revokes <= revokes' /\ revokes' = 0
      BY RevokesCount, BoxesStep DEF Grows, Undisturbed
    <2>2. /\ Len(mailbox) \in Nat /\ Len(mailbox) <= Len(mailbox')
          /\ Len(mailbox') <= 1
      BY BoxesCount DEF Undisturbed
    <2>3. Len(mailbox') \in Nat
      BY BoxesStep, LenProperties
    <2> QED
      BY <2>1, <2>2, <2>3 DEF Undisturbed
  <1>2. /\ \A r \in receipts : r.result = "rejected" => RejectedFor(r.cmd)
        /\ \A e \in Sent :
              admitted[e] = "rejected" => RejectedFor(ItemAt(e).cmd)
        /\ \A c \in Commands : RejectedFor(c) => Excused(c)
        /\ loop.result = "rejected" =>
              /\ loop.step = "recording" => Excused(Item.cmd)
              /\ loop.step \in {"cleaning", "admitting", "answering"} =>
                    RejectedFor(Item.cmd)
    BY <1>1 DEF SyncInv, RejectedIsRecorded
  <1>3. None # "rejected"
    BY AbsenceAssumption DEF Results
  <1>4. /\ receipts' \subseteq [cmd : Commands, box : Boxes, result : Results]
        /\ receipts \subseteq [cmd : Commands, box : Boxes, result : Results]
    BY InboxTypes DEF SyncInv, TypeOK
  <1>5. \A c \in Commands : RejectedFor(c) => RejectedFor(c)'
    BY RecordsStay DEF RejectedFor
  <1>6. \A e \in Sent : e \in Envelopes /\ ItemAt(e).cmd \in Commands
    BY BoxFacts DEF Sent, ItemAt, SyncInv, Envelope
  <1>7. \A c \in Commands :
           applied'[c] = applied[c] /\ Excused(c) => Excused(c)'
    BY LineageStep DEF Excused
  <1>8. CASE ~Handling
    <2>1. UNCHANGED <<admitted, processed, applied, receipts>>
      BY <1>8, RestFacts
    <2>2. Item.cmd \in Commands \/ loop.step \notin WithCommand
      <3>1. WithCommand \subseteq WithItem
        BY DEF WithCommand, WithPrior, WithItem, WithRecord, LoopSteps
      <3> QED
        BY <3>1, InHand
    <2>3. \A e \in Sent' :
             admitted'[e] = "rejected" => RejectedFor(ItemAt(e).cmd)'
      <3> SUFFICES ASSUME NEW e \in Sent', admitted'[e] = "rejected"
                   PROVE  RejectedFor(ItemAt(e).cmd)'
        OBVIOUS
      <3>1. e \in Sent /\ ItemAt(e)' = ItemAt(e) /\ admitted[e] = "rejected"
        BY <1>3, <1>8, AdmittedWasSent
      <3> QED
        BY <1>2, <2>1, <3>1 DEF RejectedFor
    <2>4. loop'.result = "rejected" =>
             /\ loop'.step = "recording" => Excused(Item.cmd)'
             /\ loop'.step \in {"cleaning", "admitting", "answering"} =>
                   RejectedFor(Item.cmd)'
      <3>1. {"recording", "cleaning", "admitting", "answering"}
               \subseteq WithCommand
        BY DEF WithCommand, WithPrior
      <3>2. \/ loop'.step \notin WithCommand
            \/ /\ loop' = loop /\ Item' = Item
               /\ loop.step \in WithCommand
        BY <1>8, RestFacts
      <3>3. CASE loop'.step \notin WithCommand
        BY <3>1, <3>3
      <3>4. CASE /\ loop' = loop /\ Item' = Item
                 /\ loop.step \in WithCommand
        <4>1. Excused(Item.cmd) => Excused(Item.cmd)'
          BY <1>7, <2>1, <2>2, <3>4 DEF Excused
        <4> QED
          BY <1>2, <2>1, <3>4, <4>1 DEF RejectedFor
      <3> QED
        BY <3>2, <3>3, <3>4
    <2>5. \A c \in Commands : RejectedFor(c)' => Excused(c)'
      BY <1>2, <1>7, <2>1 DEF RejectedFor
    <2> QED
      BY <1>2, <2>1, <2>3, <2>4, <2>5 DEF RejectedIsRecorded, RejectedFor
  <1>9. CASE Handling
    <2>1. /\ Here \in Sent /\ Here \in Envelopes /\ ItemAt(Here) = Item
          /\ Item.cmd \in Commands
          /\ loop \in LoopType /\ loop.step \in WithItem
          /\ Sent' = Sent /\ \A e \in Envelopes : ItemAt(e)' = ItemAt(e)
      BY <1>9, HandlingHand
    <2>2. /\ Item.cap = 1 /\ Authorized(1)
          /\ \A c \in Commands :
                /\ applied[c] \in {1, None}
                /\ processed[c] # None => processed[c].cap = 1
      BY <1>1, <2>1, OneCapability
    <2>3. \A r \in receipts' : r.result = "rejected" => RejectedFor(r.cmd)'
      BY <1>2, <1>4, <1>5, <1>9, <2>1, HandlingResults
    <2>4. \A e \in Sent :
             admitted'[e] = "rejected" => RejectedFor(ItemAt(e).cmd)'
      <3> SUFFICES ASSUME NEW e \in Sent, admitted'[e] = "rejected"
                   PROVE  RejectedFor(ItemAt(e).cmd)'
        OBVIOUS
      <3>1. \/ admitted[e] = "rejected"
            \/ e = Here /\ loop.step = "admitting" /\ loop.result = "rejected"
        BY <1>3, <1>6, <1>9, HandlingResults
      <3>2. RejectedFor(ItemAt(e).cmd)
        BY <1>2, <2>1, <3>1
      <3>3. ItemAt(e)' = ItemAt(e)
        BY <1>6, <2>1
      <3> QED
        BY <1>5, <1>6, <3>2, <3>3 DEF RejectedFor
    <2>5. \A c \in Commands : RejectedFor(c)' => Excused(c)'
      <3> SUFFICES ASSUME NEW c \in Commands, RejectedFor(c)'
                   PROVE  Excused(c)'
        OBVIOUS
      <3>1. CASE RejectedFor(c)
        <4>1. Excused(c) /\ processed[c] # None
          BY <1>2, <3>1 DEF RejectedFor
        <4>2. ~(c = Item.cmd /\ ApplyCommand)
          BY <4>1 DEF ApplyCommand, SyncInv, StepsAreDurable
        <4> QED
          BY <1>9, <1>7, <4>1, <4>2, HandlingResults
      <3>2. CASE ~RejectedFor(c)
        <4>1. /\ c = Item.cmd /\ loop.step = "recording"
              /\ loop.result = "rejected"
          BY <1>9, <3>2, HandlingResults DEF RejectedFor
        <4>2. Excused(c)
          BY <1>2, <4>1
        <4>3. ~ApplyCommand
          BY <4>1 DEF ApplyCommand
        <4> QED
          BY <1>9, <1>7, <4>2, <4>3, HandlingResults
      <3> QED
        BY <3>1, <3>2
    <2>6. loop'.result = "rejected" =>
             /\ loop'.step = "recording" => Excused(Item.cmd)'
             /\ loop'.step \in {"cleaning", "admitting", "answering"} =>
                   RejectedFor(Item.cmd)'
      <3>1. CASE RepeatEnvelope
        <4>1. /\ loop'.result = admitted[Here] /\ Item' = Item
              /\ loop'.step # "recording" /\ processed' = processed
          BY <1>9, <3>1, HandlingMoves DEF RepeatEnvelope, AdvanceCursor, files
        <4> QED
          BY <1>2, <2>1, <4>1 DEF RejectedFor
      <3>2. CASE OpenCommand
        <4>1. /\ Item' = Item /\ processed' = processed
              /\ loop'.step # "recording"
          BY <1>9, <3>2, HandlingMoves DEF OpenCommand, Opens, AdvanceCursor
        <4>2. \/ ~Authorized(Item.cap)
              \/ /\ processed[Item.cmd] # None
                 /\ processed[Item.cmd].cap # Item.cap
              \/ /\ processed[Item.cmd] # None
                 /\ loop' = [loop EXCEPT !.prior = device,
                               !.step = "admitting",
                               !.result = processed[Item.cmd].result]
              \/ loop' = [loop EXCEPT !.prior = device, !.step = "applying"]
          BY <3>2 DEF OpenCommand
        <4>3. \/ /\ processed[Item.cmd] # None
                 /\ loop' = [loop EXCEPT !.prior = device,
                               !.step = "admitting",
                               !.result = processed[Item.cmd].result]
              \/ loop' = [loop EXCEPT !.prior = device, !.step = "applying"]
          BY <2>1, <2>2, <4>2
        <4>4. \/ /\ processed[Item.cmd] # None
                 /\ loop'.result = processed[Item.cmd].result
              \/ loop'.step = "applying"
          BY <2>1, <4>3 DEF LoopType
        <4> QED
          BY <4>1, <4>4 DEF RejectedFor
      <3>3. CASE ApplyCommand
        <4>1. /\ loop.step = "applying" /\ Item' = Item
              /\ loop'.step = "recording"
          BY <1>9, <3>3, HandlingMoves DEF ApplyCommand, AdvanceCursor
        <4>2. PICK r \in {"done", "rejected"} :
                 /\ loop' = [loop EXCEPT !.step = "recording", !.result = r]
                 /\ IF Admissible(Item.cmd, Item.cap)
                    THEN ApplicationResult(Item.cmd, Item.cap, r)
                    ELSE r = "rejected" /\ UNCHANGED applied
          BY <3>3 DEF ApplyCommand
        <4>3. loop'.result = r
          BY <2>1, <4>2 DEF LoopType
        <4>4. processed[Item.cmd] = None
          BY <4>1 DEF SyncInv, StepsAreDurable
        <4>5. CASE Admissible(Item.cmd, Item.cap)
          <5>1. ApplicationResult(Item.cmd, Item.cap, r)
            BY <4>2, <4>5
          <5>2. r = "rejected" => applied'[Item.cmd] = None
            BY <2>1, <2>2, <5>1 DEF ApplicationResult
          <5> QED
            BY <4>1, <4>3, <5>2 DEF Excused
        <4>6. CASE ~Admissible(Item.cmd, Item.cap)
          <5>1. UNCHANGED applied
            BY <4>2, <4>6
          <5>2. \/ Item.cmd \in stale
                \/ Item.cmd \in References /\ Item.cmd \notin blob
            BY <2>2, <4>6 DEF Admissible
          <5>3. applied[Item.cmd] # None => Item.cmd \in unrecorded
            BY <2>1, <4>1, <4>4 DEF SyncInv, ExecutionsAreFollowed
          <5>4. CASE Item.cmd \in stale
            <6>1. Excused(Item.cmd)
              BY <5>3, <5>4 DEF Excused
            <6>2. Excused(Item.cmd)'
              BY <1>7, <2>1, <4>1, <5>1, <6>1 DEF Excused
            <6> QED
              BY <4>1, <6>2
          <5>5. CASE Item.cmd \in References /\ Item.cmd \notin blob
            <6>1. applied[Item.cmd] = None
              BY <4>4, <5>5 DEF SyncInv, BlobsWait, ReferencesOutliveUse
            <6> QED
              BY <4>1, <5>1, <6>1 DEF Excused
          <5> QED
            BY <5>2, <5>4, <5>5
        <4> QED
          BY <4>5, <4>6
      <3>4. CASE RecordProcessed
        <4>1. /\ loop'.result = loop.result /\ Item' = Item
              /\ loop'.step = "cleaning" /\ loop.step = "recording"
              /\ processed' = [processed EXCEPT ![Item.cmd] =
                                 [cap |-> Item.cap, result |-> loop.result]]
          BY <1>9, <3>4, HandlingMoves DEF RecordProcessed, AdvanceCursor
        <4>2. /\ processed'[Item.cmd] =
                    [cap |-> Item.cap, result |-> loop.result]
              /\ processed[Item.cmd] = None
          BY <2>1, <4>1 DEF SyncInv, TypeOK, StepsAreDurable
        <4>3. processed'[Item.cmd] # None
          BY <4>1, DurableStep DEF StepsAreDurable
        <4> QED
          BY <4>1, <4>2, <4>3 DEF RejectedFor
      <3>5. CASE CleanupReferences \/ AdmitCommand
        <4>1. /\ loop'.result = loop.result /\ Item' = Item
              /\ loop.step \in {"cleaning", "admitting"}
              /\ loop'.step # "recording"
          BY <1>9, <3>5, HandlingMoves
             DEF CleanupReferences, AdmitCommand, AdvanceCursor
        <4>2. loop'.result = "rejected" => RejectedFor(Item.cmd)
          BY <1>2, <4>1
        <4>3. RejectedFor(Item.cmd) => RejectedFor(Item.cmd)'
          BY <1>5, <2>1, <4>1 DEF RejectedFor
        <4> QED
          BY <4>1, <4>2, <4>3
      <3>6. CASE AdmitChunk \/ PublishReceipt \/ AdvanceCursor
        BY <1>9, <3>6, HandlingMoves
      <3> QED
        BY <1>9, <3>1, <3>2, <3>3, <3>4, <3>5, <3>6 DEF Handling
    <2>7. \A e \in Sent' :
             admitted'[e] = "rejected" => RejectedFor(ItemAt(e).cmd)'
      BY <2>1, <2>4
    <2> QED
      BY <2>3, <2>5, <2>6, <2>7 DEF RejectedIsRecorded
  <1> QED
    BY <1>8, <1>9

-----------------------------------------------------------------------------
(* One grant per session *)

\* A completion that sees no other session's grant and no revocation is a
\* retry.
LEMMA GrantsStep ==
    ASSUME SyncInv, [Next]_vars PROVE OneGrantPerSession'
  <1>1. OneGrantPerSession
    BY DEF SyncInv
  <1>2. /\ Len(mailbox) \in Nat /\ DOMAIN mailbox = 1 .. Len(mailbox)
        /\ revokes \in Nat /\ revokes' \in Nat /\ revokes <= revokes'
        /\ mailbox' \in Seq(Mailbox)
    BY BoxFacts, RevokesCount, BoxesStep DEF SyncInv, Grows
  <1>3. \A b \in DOMAIN mailbox : mailbox'[b].session = mailbox[b].session
    BY BoxesStep DEF Grows, BoxesGrow
  <1>4. DOMAIN mailbox' = 1 .. Len(mailbox')
    BY <1>2, LenProperties
  <1>5. ASSUME NEW a \in DOMAIN mailbox, NEW b \in DOMAIN mailbox, a < b,
               mailbox'[a].session = mailbox'[b].session
        PROVE  \/ revokes' > 0
               \/ \E c \in 1 .. b - 1 :
                     mailbox'[c].session # mailbox'[b].session
    <2>1. mailbox[a].session = mailbox[b].session
      BY <1>3, <1>5
    <2>2. \/ revokes > 0
          \/ \E c \in 1 .. b - 1 : mailbox[c].session # mailbox[b].session
      BY <1>1, <1>5, <2>1 DEF OneGrantPerSession
    <2>3. \A c \in 1 .. b - 1 : c \in DOMAIN mailbox
      BY <1>2
    <2> QED
      BY <1>2, <1>3, <2>2, <2>3
  <1>6. CASE Len(mailbox') = Len(mailbox)
    BY <1>2, <1>4, <1>5, <1>6 DEF OneGrantPerSession
  <1>7. CASE Len(mailbox') # Len(mailbox)
    <2> DEFINE s == pairing.session
               n == Len(mailbox) + 1
    <2>1. GrantCapability
      BY <1>7, SameBoxes
    <2>2. ~IsRetry(pairing.seen, s)
      BY <1>7, <2>1 DEF GrantCapability
    <2>3. /\ pairing.step = "granting" /\ Len(mailbox) < MaxBoxes
          /\ receipts' = receipts
          /\ mailbox' = Append(mailbox, [session |-> s, items |-> <<>>,
                                         acked |-> 0, expired |-> 0,
                                         closed |-> FALSE])
      BY <2>1, <2>2 DEF GrantCapability, received
    <2>4. s \in Sessions
      BY <2>3 DEF SyncInv, PairingFits
    <2>5. /\ Len(mailbox') = n
          /\ mailbox'[n] = [session |-> s, items |-> <<>>, acked |-> 0,
                            expired |-> 0, closed |-> FALSE]
      BY <2>3, <2>4, GrantBoxes
    <2>6. mailbox'[n].session = s
      BY <2>5
    <2>7. ASSUME NEW a \in DOMAIN mailbox, revokes' = 0
          PROVE  \E c \in DOMAIN mailbox : mailbox[c].session # s
      <3>1. pairing.seen # None
        BY <1>2, <2>3, <2>7 DEF SyncInv, PairingFits
      <3>2. Fits(pairing.seen, mailbox, receipts, revokes)
        BY <3>1 DEF SyncInv, CopiesFit
      <3>3. ~(revokes > 0)
        BY <1>2, <2>7
      <3>4. ~pairing.seen.revoked
        BY <3>2, <3>3, Zenon DEF Fits
      <3>5. pairing.seen.session # s
        BY <2>2, <3>1, <3>4, Zenon DEF IsRetry
      <3>6. /\ pairing.seen.box \in DOMAIN mailbox
            /\ pairing.seen.session = mailbox[pairing.seen.box].session
        BY <3>2 DEF Fits
      <3> QED
        BY <3>5, <3>6
    <2>8. ASSUME NEW a \in DOMAIN mailbox', NEW b \in DOMAIN mailbox', a < b,
                 mailbox'[a].session = mailbox'[b].session
          PROVE  \/ revokes' > 0
                 \/ \E c \in 1 .. b - 1 :
                       mailbox'[c].session # mailbox'[b].session
      <3>1. a \in DOMAIN mailbox /\ (b \in DOMAIN mailbox \/ b = n)
        BY <1>2, <1>4, <2>5, <2>8
      <3>2. CASE b \in DOMAIN mailbox
        BY <1>5, <2>8, <3>1, <3>2
      <3>3. CASE b = n /\ revokes' = 0
        <4>1. PICK c \in DOMAIN mailbox : mailbox[c].session # s
          BY <2>7, <3>1, <3>3
        <4>2. c \in 1 .. b - 1
          BY <1>2, <3>3, <4>1
        <4> QED
          BY <1>3, <2>6, <3>3, <4>1, <4>2
      <3>4. CASE revokes' # 0
        BY <1>2, <3>4
      <3> QED
        BY <3>1, <3>2, <3>3, <3>4
    <2> QED
      BY <2>8 DEF OneGrantPerSession
  <1> QED
    BY <1>6, <1>7

-----------------------------------------------------------------------------
(* The invariant and its consequences *)

\* The invariant holds initially.
LEMMA SyncInit ==
    ASSUME Init PROVE SyncInv
  <1> USE DEF Init
  <1>1. TypeOK
    <2>1. replay \in [floor : Nat, seen : SUBSET Nat]
      BY DEF EmptyWindow
    <2>2. mailbox \in Seq(Mailbox)
      OBVIOUS
    <2> QED
      BY <2>1, <2>2 DEF TypeOK, SessionStates
  <1>2. /\ loop \in LoopType /\ loop.step = "idle" /\ loop.rec = None
        /\ loop.prior = None
    BY ConstantsAssumption DEF LoopIdle, LoopType, LoopSteps
  <1>3. /\ pairing \in PairingType /\ pairing.step = "idle"
        /\ pairing.seen = None
    BY DEF PairingIdle, PairingType, PairingSteps
  <1>4. MemoryOK
    BY <1>2, <1>3, ConstantsAssumption DEF MemoryOK, LoopType, PairingType
  <1>5. Len(mailbox) = 0 /\ DOMAIN mailbox = {} /\ Sent = {}
    BY DEF Sent
  <1>6. BoxesFit /\ CopiesFit /\ Named /\ OneGrantPerSession
    BY <1>2, <1>3, <1>5, ConstantsAssumption
       DEF BoxesFit, CopiesFit, Named, OneGrantPerSession
  <1>7. PairingFits
    BY <1>3, <1>5 DEF PairingFits
  <1>8. LoopFits /\ StepsAreDurable
    <2>1. "idle" \notin WithRecord \cup WithItem \cup WithPrior
                        \cup WithCommand \cup WithResult
      BY DEF WithRecord, WithItem, WithPrior, WithCommand, WithResult
    <2> QED
      BY <1>2, <2>1 DEF LoopFits, StepsAreDurable
  <1>9. BlobsWait
    BY <1>5, ConstantsAssumption DEF BlobsWait, ReferencesOutliveUse
  <1>10. DoneIsApplied /\ RejectedIsRecorded
    <2>1. "idle" \notin WithResult
      BY DEF WithResult, WithCommand, WithPrior
    <2> QED
      BY <1>2, <1>5, <2>1 DEF DoneIsApplied, RejectedIsRecorded, RejectedFor
  <1>11. ExecutionsAreFollowed
    BY DEF ExecutionsAreFollowed
  <1> QED
    BY <1>1, <1>4, <1>6, <1>7, <1>8, <1>9, <1>10, <1>11 DEF SyncInv

\* The invariant is inductive.
LEMMA SyncStep ==
    ASSUME SyncInv, [Next]_vars PROVE SyncInv'
  BY StructureStep, DurableStep, BlobsStep, DoneStep, RejectedStep, GrantsStep,
     FollowedStep DEF SyncInv

\* What is acknowledged is settled, hence answered.
LEMMA SyncAnswers ==
    ASSUME SyncInv PROVE AckedIsAnswered
  <1>1. TypeOK
    BY DEF SyncInv
  <1> SUFFICES ASSUME NEW e \in Sent, Acked(e), Kept(e),
                      ItemAt(e).kind = "command"
               PROVE  \E r \in receipts : r.cmd = ItemAt(e).cmd /\ r.box = e[1]
    BY <1>1 DEF AckedIsAnswered
  <1>2. e[1] \in DOMAIN mailbox /\ e[2] \in DOMAIN mailbox[e[1]].items
    BY DEF Sent
  <1>3. e[2] \in Nat \ {0} /\ mailbox[e[1]].acked \in Nat
        /\ mailbox[e[1]].expired \in Nat
    BY <1>1, <1>2, BoxFacts
  <1>4. e[2] \in 1 .. mailbox[e[1]].acked /\ mailbox[e[1]].expired < e[2]
    BY <1>3 DEF Acked, Kept
  <1>5. Settled(mailbox, receipts, e[1], e[2])
    BY <1>2, <1>4 DEF SyncInv, BoxesFit, BoxFits
  <1> QED
    BY <1>4, <1>5 DEF Settled, ItemAt

\* What receipts say is true.
LEMMA SyncTruth ==
    ASSUME SyncInv PROVE ReceiptsAreTrue
  <1> SUFFICES ASSUME NEW r \in receipts
               PROVE  /\ r.result = "done" => applied[r.cmd] # None
                      /\ r.result = "rejected" /\ revokes = 0
                         /\ Len(mailbox) = 1 => Excused(r.cmd)
    BY DEF ReceiptsAreTrue, Excused
  <1>1. r.cmd \in Commands
    BY DEF SyncInv, TypeOK
  <1>2. r.result = "done" => applied[r.cmd] # None
    BY DEF SyncInv, DoneIsApplied
  <1>3. revokes = 0 /\ Len(mailbox) = 1 => Undisturbed
    BY DEF Undisturbed
  <1>4. Undisturbed /\ r.result = "rejected" => Excused(r.cmd)
    BY <1>1 DEF SyncInv, RejectedIsRecorded
  <1> QED
    BY <1>2, <1>3, <1>4

\* The companion's invariant holds: every copy of the device record that a
\* handler may write back, however old (AdvanceCursor, AdmitCommand,
\* CloseMailboxes), names a mailbox of its session and has a cursor below
\* which everything is settled.
THEOREM SyncIsInvariant == Spec => []SyncInv
  <1>1. Init => SyncInv
    BY SyncInit
  <1>2. SyncInv /\ [Next]_vars => SyncInv'
    BY SyncStep
  <1> QED
    BY <1>1, <1>2, PTL DEF Spec

\* What the relay may forget is answered: whatever failed, restarted, was
\* revoked or paired again between a command's execution, its receipt, the
\* stored cursor and the acknowledgement (reconcile_relay_once), a command the
\* relay was told to drop has a receipt in the mailbox of its pairing.
THEOREM AcknowledgedAreAnswered == Spec => []AckedIsAnswered
  <1>1. SyncInv => AckedIsAnswered
    BY SyncAnswers
  <1> QED
    BY <1>1, SyncIsInvariant, PTL

\* A completed receipt is of an executed command, and in one undisturbed
\* pairing no executed command is reported as rejected, but one whose record
\* a stop prevented and whose own Version replaced its base before the retry
\* (process_command, process_command_uncached).
THEOREM ReceiptsTellTheTruth == Spec => []ReceiptsAreTrue
  <1>1. SyncInv => ReceiptsAreTrue
    BY SyncTruth
  <1> QED
    BY <1>1, SyncIsInvariant, PTL

\* A reference blob outlives the execution that used it until the result is
\* recorded, so a command repeated after a crash finds it, and while a chunk
\* counts as admitted its blob is there (remove_consumed_reference_blob).
THEOREM AdmittedReferencesStay == Spec => []ReferencesOutliveUse
  <1>1. SyncInv => ReferencesOutliveUse
    BY DEF SyncInv, BlobsWait
  <1> QED
    BY <1>1, SyncIsInvariant, PTL

\* However many sessions are open and whoever polls them, a session gets a
\* second mailbox only after a revocation or another session's grant
\* (pairing_operations, finish_pairing).
THEOREM SessionsGrantOnce == Spec => []OneGrantPerSession
  <1>1. SyncInv => OneGrantPerSession
    BY DEF SyncInv
  <1> QED
    BY <1>1, SyncIsInvariant, PTL
=============================================================================
