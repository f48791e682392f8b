------------------------ MODULE VersionLedgerProofs ------------------------
(***************************************************************************)
(* Proofs about recordings, readers and retirements of one Shot, for every *)
(* number of processes, Versions and deaths: a completed Version is the    *)
(* signed one, and it stays where it is as long as no stored head leaves   *)
(* out two Versions.                                                       *)
(***************************************************************************)
EXTENDS VersionLedger, FiniteSetTheorems, TLAPS

\* What a process that loads the record does next.
OutsideSteps == {"idle", "seen", "retiring"}
Locked == Steps \ {"seen", "retiring"}

\* A recorder that has begun holds the app lock; an outsider only loads,
\* reads and retires.
Holds(p) ==
    /\ p \in Recorders => /\ proc[p].step # "idle" => lock = p
                          /\ proc[p].step \in Locked
                          /\ proc[p].then \in Locked \ {"loading", "recovering"}
    /\ p \in Outsiders => /\ proc[p].step \in OutsideSteps \cup {"loading", "recovering"}
                          /\ proc[p].then \in OutsideSteps

\* The step a process is at, or that its load leads to.
Ahead(p) == IF proc[p].step \in {"loading", "recovering"} THEN proc[p].then ELSE proc[p].step

Reserved == {"parenting", "snapshotting", "accepting", "appending", "finalizing",
             "marking", "heading", "restoring", "aligning", "checkout"}
Copied == Reserved \ {"parenting", "snapshotting"}

\* What a recorder knows about its directory, and a replay about the next one.
Owns(p) ==
    /\ proc[p].step = "recovering" => proc[p].rec + 1 \in Numbers
    /\ Ahead(p) \in Reserved => proc[p].number \in Numbers
    /\ Ahead(p) \in Copied => content[proc[p].number] # None

\* Between the signed acceptance and the marker the lineage ends with the
\* snapshot.
Accepted(p) ==
    Ahead(p) \in {"finalizing", "marking"}
        => /\ proc[p].number = Len(lineage)
           /\ lineage[proc[p].number] = content[proc[p].number]

Local(p) == Holds(p) /\ Owns(p) /\ Accepted(p)

IInv == SealedIsSigned /\ \A p \in Processes : Local(p)

\* No more Versions are complete than there are numbers.
LEMMA TopBound == dir \in [Numbers -> {"absent", "open", "complete"}] => Top \in 0 .. MaxVersions
  <1> SUFFICES ASSUME dir \in [Numbers -> {"absent", "open", "complete"}]
               PROVE  Top \in 0 .. MaxVersions
    OBVIOUS
  <1> DEFINE S == {n \in Numbers : dir[n] = "complete"}
  <1>1. IsFiniteSet(Numbers) /\ Cardinality(Numbers) = MaxVersions
    BY FS_Interval, ConstantsAssumption DEF Numbers
  <1>2. S \in SUBSET Numbers
    OBVIOUS
  <1>3. IsFiniteSet(S) /\ Cardinality(S) <= MaxVersions
    BY <1>1, <1>2, FS_Subset
  <1> QED
    BY <1>3, FS_CardinalityType, ConstantsAssumption DEF Top

\* A created Shot satisfies the invariant.
LEMMA InitIInv == Init => IInv
  BY ConstantsAssumption
     DEF Init, IInv, Local, Holds, Owns, Accepted, SealedIsSigned, TypeOK, Idle, Steps,
         Locked, OutsideSteps, Ahead, Reserved, Copied, Processes, Numbers, Heads

\* The entries of proc, and what a step of p leaves alone.
Entries == [step : Steps, then : Steps, rec : Heads, number : Heads, previous : Heads,
            digest : Contents \cup {None}]
Others(p) == \A q \in Processes : q # p => proc'[q] = proc[q]

\* A step of p replaces its entry.
LEMMA EntryReplaced ==
    ASSUME proc \in [Processes -> Entries], NEW p \in Processes, NEW r \in Entries,
           proc' = [proc EXCEPT ![p] = r]
    PROVE  proc' \in [Processes -> Entries] /\ Others(p) /\ proc'[p] = r
  BY DEF Others

LEMMA IdleFacts ==
    ASSUME proc \in [Processes -> Entries], NEW p \in Processes,
           proc' = [proc EXCEPT ![p] = Idle]
    PROVE  proc' \in [Processes -> Entries] /\ Others(p) /\ proc'[p] = Idle
  <1>1. "idle" \in Steps /\ 0 \in Heads
    BY ConstantsAssumption DEF Steps, Heads
  <1>2. Idle \in Entries
    BY <1>1 DEF Idle, Entries
  <1> QED
    BY <1>2, EntryReplaced

LEMMA GotoFacts ==
    ASSUME proc \in [Processes -> Entries], NEW p \in Processes, NEW s \in Steps,
           Goto(p, s)
    PROVE  /\ proc' \in [Processes -> Entries]
           /\ Others(p)
           /\ proc'[p].step = s /\ proc'[p].then = "idle" /\ proc'[p].rec = 0
           /\ proc'[p].number = proc[p].number
           /\ proc'[p].digest = proc[p].digest
  <1> DEFINE r == [proc[p] EXCEPT !.step = s, !.then = "idle", !.rec = 0]
  <1>1. "idle" \in Steps /\ 0 \in Heads
    BY ConstantsAssumption DEF Steps, Heads
  <1>2. /\ r \in Entries /\ r.step = s /\ r.then = "idle" /\ r.rec = 0
        /\ r.number = proc[p].number /\ r.digest = proc[p].digest
    BY <1>1 DEF Entries
  <1>3. proc' = [proc EXCEPT ![p] = r]
    BY DEF Goto
  <1> HIDE DEF r
  <1> QED
    BY <1>2, <1>3, EntryReplaced

LEMMA LoadFacts ==
    ASSUME proc \in [Processes -> Entries], NEW p \in Processes, NEW s \in Steps,
           proc' = Load(p, s)
    PROVE  /\ proc' \in [Processes -> Entries]
           /\ Others(p)
           /\ proc'[p].step = "loading" /\ proc'[p].then = s /\ proc'[p].rec = 0
           /\ proc'[p].number = proc[p].number
           /\ proc'[p].digest = proc[p].digest
  <1> DEFINE r == [proc[p] EXCEPT !.step = "loading", !.then = s, !.rec = 0]
  <1>1. "loading" \in Steps /\ 0 \in Heads
    BY ConstantsAssumption DEF Steps, Heads
  <1>2. /\ r \in Entries /\ r.step = "loading" /\ r.then = s /\ r.rec = 0
        /\ r.number = proc[p].number /\ r.digest = proc[p].digest
    BY <1>1 DEF Entries
  <1>3. proc' = [proc EXCEPT ![p] = r]
    BY DEF Load
  <1> HIDE DEF r
  <1> QED
    BY <1>2, <1>3, EntryReplaced

\* The entry of a process after load_app has read the record, after the replay,
\* and after each step of record_locked that does more than move on.
LEMMA ReadFacts ==
    ASSUME TypeOK, proc \in [Processes -> Entries], NEW p \in Processes, ReadRecord(p)
    PROVE  /\ proc' \in [Processes -> Entries] /\ Others(p)
           /\ proc'[p].step = (IF Complete(head + 1) THEN "recovering" ELSE proc[p].then)
           /\ proc'[p].then = proc[p].then /\ proc'[p].rec = head
           /\ proc'[p].number = proc[p].number
  <1> DEFINE s == IF Complete(head + 1) THEN "recovering" ELSE proc[p].then
             r == [proc[p] EXCEPT !.rec = head, !.step = s]
  <1>1. /\ "recovering" \in Steps /\ proc[p].then \in Steps /\ proc[p] \in Entries
        /\ head \in Heads
    BY DEF TypeOK, Entries, Steps
  <1>2. s \in Steps
    BY <1>1
  <1>3. proc' = [proc EXCEPT ![p] = r]
    BY DEF ReadRecord
  <1> HIDE DEF s
  <1>4. /\ r \in Entries /\ r.step = s /\ r.then = proc[p].then
        /\ r.rec = head /\ r.number = proc[p].number
    BY <1>1, <1>2 DEF Entries
  <1> HIDE DEF r
  <1>5. /\ proc' \in [Processes -> Entries] /\ Others(p)
        /\ proc'[p].step = s /\ proc'[p].then = proc[p].then /\ proc'[p].rec = head
        /\ proc'[p].number = proc[p].number
    BY <1>3, <1>4, EntryReplaced
  <1> QED
    BY <1>5 DEF s

LEMMA RecoverFacts ==
    ASSUME proc \in [Processes -> Entries], NEW p \in Processes, RecoverHead(p),
           proc[p].rec + 1 \in Numbers
    PROVE  /\ proc' \in [Processes -> Entries] /\ Others(p)
           /\ proc'[p].step = proc[p].then /\ proc'[p].then = proc[p].then
           /\ proc'[p].rec = proc[p].rec + 1 /\ proc'[p].number = proc[p].number
  <1> DEFINE h == proc[p].rec + 1
             r == [proc[p] EXCEPT !.rec = h, !.step = proc[p].then]
  <1>1. proc[p].then \in Steps /\ proc[p] \in Entries /\ h \in Heads
    BY ConstantsAssumption DEF Entries, Numbers, Heads
  <1>2. proc' = [proc EXCEPT ![p] = r]
    BY DEF RecoverHead
  <1> HIDE DEF h
  <1>3. /\ r \in Entries /\ r.step = proc[p].then /\ r.then = proc[p].then
        /\ r.rec = h /\ r.number = proc[p].number
    BY <1>1 DEF Entries
  <1> HIDE DEF r
  <1>4. /\ proc' \in [Processes -> Entries] /\ Others(p)
        /\ proc'[p].step = proc[p].then /\ proc'[p].then = proc[p].then
        /\ proc'[p].rec = h /\ proc'[p].number = proc[p].number
    BY <1>2, <1>3, EntryReplaced
  <1> QED
    BY <1>4 DEF h

LEMMA CompareFacts ==
    ASSUME TypeOK, proc \in [Processes -> Entries], NEW p \in Processes, CompareTree(p)
    PROVE  /\ proc' \in [Processes -> Entries] /\ Others(p)
           /\ \/ lock' = None /\ proc'[p] = Idle
              \/ /\ lock' = lock /\ proc'[p].step = "loading" /\ proc'[p].then = "reserving"
                 /\ proc'[p].rec = 0
  <1> USE ConstantsAssumption DEF CompareTree, At
  <1>1. CASE proc' = [proc EXCEPT ![p] = Idle] /\ lock' = None
    BY <1>1, IdleFacts
  <1>2. CASE UNCHANGED lock /\ proc' = [Load(p, "reserving") EXCEPT
                                          ![p].previous = proc[p].rec,
                                          ![p].digest = working]
    <2> DEFINE r == [proc[p] EXCEPT !.step = "loading", !.then = "reserving", !.rec = 0,
                                    !.previous = proc[p].rec, !.digest = working]
    <2>1. "loading" \in Steps /\ "reserving" \in Steps /\ 0 \in Heads /\ working \in Contents
      BY DEF Steps, Heads, TypeOK
    <2>2. /\ r \in Entries /\ r.step = "loading" /\ r.then = "reserving" /\ r.rec = 0
      BY <2>1 DEF Entries
    <2>3. proc' = [proc EXCEPT ![p] = r]
      BY <1>2 DEF Load
    <2> HIDE DEF r
    <2> QED
      BY <1>2, <2>2, <2>3, EntryReplaced
  <1> QED
    BY <1>1, <1>2

LEMMA ReserveFacts ==
    ASSUME TypeOK, proc \in [Processes -> Entries], NEW p \in Processes, Reserve(p)
    PROVE  /\ proc' \in [Processes -> Entries] /\ Others(p)
           /\ proc'[p].step = "parenting" /\ proc'[p].then = proc[p].then
           /\ proc'[p].rec = proc[p].rec /\ proc'[p].number = proc[p].rec + 1
  <1> USE ConstantsAssumption DEF Reserve, At
  <1> DEFINE r == [proc[p] EXCEPT !.number = proc[p].rec + 1, !.step = "parenting"]
  <1>1. "parenting" \in Steps /\ proc[p].rec + 1 \in Heads
    BY DEF Steps, Heads, Numbers
  <1>2. /\ r \in Entries /\ r.step = "parenting" /\ r.then = proc[p].then
        /\ r.rec = proc[p].rec /\ r.number = proc[p].rec + 1
    BY <1>1 DEF Entries
  <1>3. proc' = [proc EXCEPT ![p] = r]
    OBVIOUS
  <1> HIDE DEF r
  <1> QED
    BY <1>2, <1>3, EntryReplaced

LEMMA ParentFacts ==
    ASSUME TypeOK, proc \in [Processes -> Entries], NEW p \in Processes, WriteParent(p)
    PROVE  /\ proc' \in [Processes -> Entries] /\ Others(p)
           /\ proc'[p].step = "snapshotting" /\ proc'[p].then = "idle"
           /\ proc'[p].rec = 0 /\ proc'[p].number = proc[p].number
  <1> USE ConstantsAssumption DEF WriteParent, At
  <1> DEFINE r == [proc[p] EXCEPT !.step = "snapshotting", !.rec = 0, !.previous = 0,
                                  !.then = "idle"]
  <1>1. "snapshotting" \in Steps /\ "idle" \in Steps /\ 0 \in Heads
    BY DEF Steps, Heads
  <1>2. /\ r \in Entries /\ r.step = "snapshotting" /\ r.then = "idle"
        /\ r.rec = 0 /\ r.number = proc[p].number
    BY <1>1 DEF Entries
  <1>3. proc' = [proc EXCEPT ![p] = r]
    OBVIOUS
  <1> HIDE DEF r
  <1> QED
    BY <1>2, <1>3, EntryReplaced

LEMMA AlignFacts ==
    ASSUME TypeOK, proc \in [Processes -> Entries], NEW p \in Processes, AlignTree(p)
    PROVE  /\ proc' \in [Processes -> Entries] /\ Others(p)
           /\ \/ lock' = None /\ proc'[p] = Idle
              \/ /\ lock' = lock /\ proc'[p].step = "checkout" /\ proc'[p].then = "idle"
                 /\ proc'[p].rec = 0 /\ proc'[p].number = proc[p].number
  <1> USE ConstantsAssumption DEF AlignTree, At
  <1>1. CASE proc' = [proc EXCEPT ![p] = Idle] /\ lock' = None
    BY <1>1, IdleFacts
  <1>2. CASE Goto(p, "checkout") /\ UNCHANGED lock
    <2>1. "checkout" \in Steps
      BY DEF Steps
    <2> QED
      BY <1>2, <2>1, GotoFacts
  <1> QED
    BY <1>1, <1>2

\* Whoever does not hold the app lock is idle or outside, and whoever does
\* something else than load, read or retire holds it.
LEMMA Holder ==
    ASSUME IInv, NEW p \in Processes
    PROVE  /\ lock # p => Ahead(p) \in OutsideSteps
           /\ Ahead(p) \notin OutsideSteps => lock = p /\ p \in Recorders /\ p \notin Outsiders
  BY ConstantsAssumption DEF IInv, Local, Holds, Ahead, OutsideSteps, Processes

\* A step of p leaves the others as they are: it changes nothing that they
\* share, or they do not hold the lock.
LEMMA OtherProcesses ==
    ASSUME IInv, NEW p \in Processes, Others(p),
           \/ UNCHANGED <<lock, content, lineage>>
           \/ lock \in {p, None} /\ lock' \in {p, None}
    PROVE  \A q \in Processes : q # p => Local(q)'
  <1> SUFFICES ASSUME NEW q \in Processes, q # p PROVE Local(q)'
    OBVIOUS
  <1>1. proc'[q] = proc[q] /\ Ahead(q)' = Ahead(q) /\ Local(q)
    BY DEF Others, Ahead, IInv
  <1>2. CASE UNCHANGED <<lock, content, lineage>>
    BY <1>1, <1>2 DEF Local, Holds, Owns, Accepted, Ahead
  <1>3. CASE lock \in {p, None} /\ lock' \in {p, None}
    <2>1. lock # q
      BY <1>3, ConstantsAssumption DEF Processes
    <2>2. Ahead(q)' \in OutsideSteps /\ (proc[q].step = "idle" \/ q \in Outsiders)
      BY <1>1, <2>1, Holder DEF Local, Holds, Processes
    <2> QED
      BY <1>1, <2>2, ConstantsAssumption
         DEF Local, Holds, Owns, Accepted, OutsideSteps, Reserved, Copied
  <1> QED
    BY <1>2, <1>3

\* Each step preserves the invariant.
LEMMA StepIInv == IInv /\ [Next]_vars => IInv'
  <1> SUFFICES ASSUME IInv, [Next]_vars PROVE IInv'
    OBVIOUS
  <1> USE ConstantsAssumption
  <1>1. /\ Top \in 0 .. MaxVersions
        /\ proc \in [Processes -> Entries]
        /\ TypeOK
        /\ \A p \in Processes : Local(p)
    BY TopBound DEF IInv, SealedIsSigned, TypeOK, Entries
  <1>2. ASSUME NEW p \in Processes, ReadRecord(p)
        PROVE  IInv'
    <2>1. /\ proc' \in [Processes -> Entries] /\ Others(p)
          /\ proc'[p].step = (IF Complete(head + 1) THEN "recovering" ELSE proc[p].then)
          /\ proc'[p].then = proc[p].then /\ proc'[p].rec = head
          /\ proc'[p].number = proc[p].number
      BY <1>1, <1>2, ReadFacts
    <2> USE <1>2 DEF ReadRecord, At, disk, history
    <2>2. TypeOK'
      BY <1>1, <2>1 DEF TypeOK, Entries, Numbers, Heads, Local, Owns, Ahead, Reserved, Copied
    <2>3. Local(p)'
      BY <1>1, <2>1
         DEF TypeOK, Complete, Local, Holds, Owns, Accepted, Ahead, Locked, OutsideSteps, Reserved, Copied, Processes, Steps
    <2>4. \A q \in Processes : q # p => Local(q)'
      BY <2>1, OtherProcesses DEF IInv
    <2>5. SealedIsSigned'
      BY <1>1, <2>2 DEF IInv, SealedIsSigned, TypeOK, Local, Accepted, Ahead
    <2> QED
      BY <2>3, <2>4, <2>5 DEF IInv
  <1>3. ASSUME NEW p \in Processes, RecoverHead(p)
        PROVE  IInv'
    <2>1. proc[p].rec + 1 \in Numbers
      BY <1>1, <1>3 DEF RecoverHead, At, Local, Owns
    <2>2. /\ proc' \in [Processes -> Entries] /\ Others(p)
          /\ proc'[p].step = proc[p].then /\ proc'[p].then = proc[p].then
          /\ proc'[p].rec = proc[p].rec + 1 /\ proc'[p].number = proc[p].number
      BY <1>1, <1>3, <2>1, RecoverFacts
    <2> USE <1>3 DEF RecoverHead, At, disk, history, WriteRecord
    <2>3. TypeOK'
      BY <1>1, <2>2 DEF TypeOK, Entries, Numbers, Heads, Local, Owns, Ahead, Reserved, Copied
    <2>4. Local(p)'
      BY <1>1, <2>2
         DEF TypeOK, Complete, Local, Holds, Owns, Accepted, Ahead, Locked, OutsideSteps, Reserved, Copied, Processes, Steps
    <2>5. \A q \in Processes : q # p => Local(q)'
      BY <2>2, OtherProcesses DEF IInv
    <2>6. SealedIsSigned'
      BY <1>1, <2>3 DEF IInv, SealedIsSigned, TypeOK, Local, Accepted, Ahead
    <2> QED
      BY <2>4, <2>5, <2>6 DEF IInv
  <1>4. ASSUME NEW p \in Processes, LockApp(p)
        PROVE  IInv'
    <2> USE <1>4 DEF LockApp, At, disk, history
    <2>1. proc' = Load(p, "comparing") /\ "comparing" \in Steps
      BY DEF Steps
    <2>2. /\ proc' \in [Processes -> Entries] /\ Others(p)
          /\ proc'[p].step = "loading" /\ proc'[p].then = "comparing" /\ proc'[p].rec = 0
          /\ proc'[p].number = proc[p].number
      BY <1>1, <2>1, LoadFacts
    <2>3. TypeOK'
      BY <1>1, <2>2 DEF TypeOK, Entries, Numbers, Heads, Local, Owns, Ahead, Reserved, Copied
    <2>4. Local(p)'
      BY <1>1, <2>2
         DEF TypeOK, Complete, Local, Holds, Owns, Accepted, Ahead, Locked, OutsideSteps, Reserved, Copied, Processes, Steps
    <2>5. \A q \in Processes : q # p => Local(q)'
      BY <2>2, OtherProcesses DEF IInv
    <2>6. SealedIsSigned'
      BY <1>1, <2>3 DEF IInv, SealedIsSigned, TypeOK, Local, Accepted, Ahead
    <2> QED
      BY <2>4, <2>5, <2>6 DEF IInv
  <1>5. ASSUME NEW p \in Processes, CompareTree(p)
        PROVE  IInv'
    <2>1. /\ proc' \in [Processes -> Entries] /\ Others(p)
          /\ \/ lock' = None /\ proc'[p] = Idle
             \/ /\ lock' = lock /\ proc'[p].step = "loading" /\ proc'[p].then = "reserving"
                /\ proc'[p].rec = 0
      BY <1>1, <1>5, CompareFacts
    <2> USE <1>5 DEF CompareTree, At, disk, history
    <2>2. lock = p /\ p \in Recorders /\ p \notin Outsiders
      BY Holder DEF Ahead, OutsideSteps
    <2>3. TypeOK'
      BY <1>1, <2>2, <2>1 DEF TypeOK, Entries, Numbers, Heads, Local, Owns, Ahead, Reserved, Copied
    <2>4. Local(p)'
      BY <1>1, <2>2, <2>1
         DEF TypeOK, Complete, Local, Holds, Owns, Accepted, Ahead, Locked, OutsideSteps, Reserved, Copied, Processes, Steps, Idle
    <2>5. \A q \in Processes : q # p => Local(q)'
      BY <2>2, <2>1, OtherProcesses DEF IInv
    <2>6. SealedIsSigned'
      BY <1>1, <2>3 DEF IInv, SealedIsSigned, TypeOK, Local, Accepted, Ahead
    <2> QED
      BY <2>4, <2>5, <2>6 DEF IInv
  <1>6. ASSUME NEW p \in Processes, Reserve(p)
        PROVE  IInv'
    <2>1. /\ proc' \in [Processes -> Entries] /\ Others(p)
          /\ proc'[p].step = "parenting" /\ proc'[p].then = proc[p].then
          /\ proc'[p].rec = proc[p].rec /\ proc'[p].number = proc[p].rec + 1
      BY <1>1, <1>6, ReserveFacts
    <2> USE <1>6 DEF Reserve, At, disk, history
    <2>2. lock = p /\ p \in Recorders /\ p \notin Outsiders
      BY Holder DEF Ahead, OutsideSteps
    <2>3. TypeOK'
      BY <1>1, <2>2, <2>1 DEF TypeOK, Entries, Numbers, Heads, Local, Owns, Ahead, Reserved, Copied
    <2>4. Local(p)'
      BY <1>1, <2>2, <2>1
         DEF TypeOK, Complete, Local, Holds, Owns, Accepted, Ahead, Locked, OutsideSteps, Reserved, Copied, Processes, Steps
    <2>5. \A q \in Processes : q # p => Local(q)'
      BY <2>2, <2>1, OtherProcesses DEF IInv
    <2>6. SealedIsSigned'
      BY <1>1, <2>3 DEF IInv, SealedIsSigned, TypeOK, Local, Accepted, Ahead
    <2> QED
      BY <2>4, <2>5, <2>6 DEF IInv
  <1>7. ASSUME NEW p \in Processes, WriteParent(p)
        PROVE  IInv'
    <2>1. /\ proc' \in [Processes -> Entries] /\ Others(p)
          /\ proc'[p].step = "snapshotting" /\ proc'[p].then = "idle"
          /\ proc'[p].rec = 0 /\ proc'[p].number = proc[p].number
      BY <1>1, <1>7, ParentFacts
    <2> USE <1>7 DEF WriteParent, At, disk, history, WriteRecord
    <2>2. lock = p /\ p \in Recorders /\ p \notin Outsiders
      BY Holder DEF Ahead, OutsideSteps
    <2>3. TypeOK'
      BY <1>1, <2>2, <2>1 DEF TypeOK, Entries, Numbers, Heads, Local, Owns, Ahead, Reserved, Copied
    <2>4. Local(p)'
      BY <1>1, <2>2, <2>1
         DEF TypeOK, Complete, Local, Holds, Owns, Accepted, Ahead, Locked, OutsideSteps, Reserved, Copied, Processes, Steps
    <2>5. \A q \in Processes : q # p => Local(q)'
      BY <2>2, <2>1, OtherProcesses DEF IInv
    <2>6. SealedIsSigned'
      BY <1>1, <2>3 DEF IInv, SealedIsSigned, TypeOK, Local, Accepted, Ahead
    <2> QED
      BY <2>4, <2>5, <2>6 DEF IInv
  <1>8. ASSUME NEW p \in Processes, Snapshot(p)
        PROVE  IInv'
    <2> USE <1>8 DEF Snapshot, At, disk, history, Writable
    <2>1. lock = p /\ p \in Recorders /\ p \notin Outsiders
      BY Holder DEF Ahead, OutsideSteps
    <2>2. Goto(p, "accepting") /\ "accepting" \in Steps
      BY DEF Steps
    <2>3. /\ proc' \in [Processes -> Entries] /\ Others(p)
          /\ proc'[p].step = "accepting" /\ proc'[p].then = "idle" /\ proc'[p].rec = 0
          /\ proc'[p].number = proc[p].number
      BY <1>1, <2>2, GotoFacts
    <2>4. TypeOK'
      BY <1>1, <2>1, <2>3 DEF TypeOK, Entries, Numbers, Heads, Local, Owns, Ahead, Reserved, Copied
    <2>5. Local(p)'
      BY <1>1, <2>1, <2>3
         DEF TypeOK, Complete, Local, Holds, Owns, Accepted, Ahead, Locked, OutsideSteps, Reserved, Copied, Processes, Steps
    <2>6. \A q \in Processes : q # p => Local(q)'
      BY <2>1, <2>3, OtherProcesses DEF IInv
    <2>7. SealedIsSigned'
      BY <1>1, <2>4 DEF IInv, SealedIsSigned, TypeOK, Local, Accepted, Ahead
    <2> QED
      BY <2>5, <2>6, <2>7 DEF IInv
  <1>9. ASSUME NEW p \in Processes, GatesAccept(p)
        PROVE  IInv'
    <2> USE <1>9 DEF GatesAccept, At, disk, history
    <2>1. lock = p /\ p \in Recorders /\ p \notin Outsiders
      BY Holder DEF Ahead, OutsideSteps
    <2>2. Goto(p, "appending") /\ "appending" \in Steps
      BY DEF Steps
    <2>3. /\ proc' \in [Processes -> Entries] /\ Others(p)
          /\ proc'[p].step = "appending" /\ proc'[p].then = "idle" /\ proc'[p].rec = 0
          /\ proc'[p].number = proc[p].number
      BY <1>1, <2>2, GotoFacts
    <2>4. TypeOK'
      BY <1>1, <2>1, <2>3 DEF TypeOK, Entries, Numbers, Heads, Local, Owns, Ahead, Reserved, Copied
    <2>5. Local(p)'
      BY <1>1, <2>1, <2>3
         DEF TypeOK, Complete, Local, Holds, Owns, Accepted, Ahead, Locked, OutsideSteps, Reserved, Copied, Processes, Steps
    <2>6. \A q \in Processes : q # p => Local(q)'
      BY <2>1, <2>3, OtherProcesses DEF IInv
    <2>7. SealedIsSigned'
      BY <1>1, <2>4 DEF IInv, SealedIsSigned, TypeOK, Local, Accepted, Ahead
    <2> QED
      BY <2>5, <2>6, <2>7 DEF IInv
  <1>10. ASSUME NEW p \in Processes, AppendLineage(p)
        PROVE  IInv'
    <2> USE <1>10 DEF AppendLineage, At, disk, history
    <2>1. lock = p /\ p \in Recorders /\ p \notin Outsiders
      BY Holder DEF Ahead, OutsideSteps
    <2>2. Goto(p, "finalizing") /\ "finalizing" \in Steps
      BY DEF Steps
    <2>3. /\ proc' \in [Processes -> Entries] /\ Others(p)
          /\ proc'[p].step = "finalizing" /\ proc'[p].then = "idle" /\ proc'[p].rec = 0
          /\ proc'[p].number = proc[p].number
      BY <1>1, <2>2, GotoFacts
    <2>4. TypeOK'
      BY <1>1, <2>1, <2>3 DEF TypeOK, Entries, Numbers, Heads, Local, Owns, Ahead, Reserved, Copied
    <2>5. Local(p)'
      BY <1>1, <2>1, <2>3
         DEF TypeOK, Complete, Local, Holds, Owns, Accepted, Ahead, Locked, OutsideSteps, Reserved, Copied, Processes, Steps
    <2>6. \A q \in Processes : q # p => Local(q)'
      BY <2>1, <2>3, OtherProcesses DEF IInv
    <2>7. SealedIsSigned'
      <3>1. lineage \in Seq(Contents \cup {None}) /\ content[proc[p].number] \in Contents \cup {None}
        BY <1>1 DEF TypeOK, Local, Owns, Ahead, Reserved, Copied
      <3>2. /\ Len(lineage') = Len(lineage) + 1
            /\ \A n \in 1 .. Len(lineage) : lineage'[n] = lineage[n]
        BY <3>1
      <3> QED
        BY <2>4, <3>1, <3>2 DEF IInv, SealedIsSigned, Numbers
    <2> QED
      BY <2>5, <2>6, <2>7 DEF IInv
  <1>11. ASSUME NEW p \in Processes, Finalize(p)
        PROVE  IInv'
    <2> USE <1>11 DEF Finalize, At, disk, history
    <2>1. lock = p /\ p \in Recorders /\ p \notin Outsiders
      BY Holder DEF Ahead, OutsideSteps
    <2>2. proc' = Load(p, "marking") /\ "marking" \in Steps
      BY DEF Steps
    <2>3. /\ proc' \in [Processes -> Entries] /\ Others(p)
          /\ proc'[p].step = "loading" /\ proc'[p].then = "marking" /\ proc'[p].rec = 0
          /\ proc'[p].number = proc[p].number
      BY <1>1, <2>2, LoadFacts
    <2>4. TypeOK'
      BY <1>1, <2>1, <2>3 DEF TypeOK, Entries, Numbers, Heads, Local, Owns, Ahead, Reserved, Copied
    <2>5. Local(p)'
      BY <1>1, <2>1, <2>3
         DEF TypeOK, Complete, Local, Holds, Owns, Accepted, Ahead, Locked, OutsideSteps, Reserved, Copied, Processes, Steps
    <2>6. \A q \in Processes : q # p => Local(q)'
      BY <2>1, <2>3, OtherProcesses DEF IInv
    <2>7. SealedIsSigned'
      BY <1>1, <2>4 DEF IInv, SealedIsSigned, TypeOK, Local, Accepted, Ahead
    <2> QED
      BY <2>5, <2>6, <2>7 DEF IInv
  <1>12. ASSUME NEW p \in Processes, PublishMarker(p)
        PROVE  IInv'
    <2> USE <1>12 DEF PublishMarker, At, disk, history, Writable
    <2>1. lock = p /\ p \in Recorders /\ p \notin Outsiders
      BY Holder DEF Ahead, OutsideSteps
    <2>2. Goto(p, "heading") /\ "heading" \in Steps
      BY DEF Steps
    <2>3. /\ proc' \in [Processes -> Entries] /\ Others(p)
          /\ proc'[p].step = "heading" /\ proc'[p].then = "idle" /\ proc'[p].rec = 0
          /\ proc'[p].number = proc[p].number
      BY <1>1, <2>2, GotoFacts
    <2>4. TypeOK'
      BY <1>1, <2>1, <2>3 DEF TypeOK, Entries, Numbers, Heads, Local, Owns, Ahead, Reserved, Copied
    <2>5. Local(p)'
      BY <1>1, <2>1, <2>3
         DEF TypeOK, Complete, Local, Holds, Owns, Accepted, Ahead, Locked, OutsideSteps, Reserved, Copied, Processes, Steps
    <2>6. \A q \in Processes : q # p => Local(q)'
      BY <2>1, <2>3, OtherProcesses DEF IInv
    <2>7. SealedIsSigned'
      BY <1>1, <2>4 DEF IInv, SealedIsSigned, TypeOK, Local, Accepted, Ahead
    <2> QED
      BY <2>5, <2>6, <2>7 DEF IInv
  <1>13. ASSUME NEW p \in Processes, MoveHead(p)
        PROVE  IInv'
    <2> USE <1>13 DEF MoveHead, At, disk, history, WriteRecord
    <2>1. lock = p /\ p \in Recorders /\ p \notin Outsiders
      BY Holder DEF Ahead, OutsideSteps
    <2>2. proc' = Load(p, "restoring") /\ "restoring" \in Steps
      BY DEF Steps
    <2>3. /\ proc' \in [Processes -> Entries] /\ Others(p)
          /\ proc'[p].step = "loading" /\ proc'[p].then = "restoring" /\ proc'[p].rec = 0
          /\ proc'[p].number = proc[p].number
      BY <1>1, <2>2, LoadFacts
    <2>4. TypeOK'
      BY <1>1, <2>1, <2>3 DEF TypeOK, Entries, Numbers, Heads, Local, Owns, Ahead, Reserved, Copied
    <2>5. Local(p)'
      BY <1>1, <2>1, <2>3
         DEF TypeOK, Complete, Local, Holds, Owns, Accepted, Ahead, Locked, OutsideSteps, Reserved, Copied, Processes, Steps
    <2>6. \A q \in Processes : q # p => Local(q)'
      BY <2>1, <2>3, OtherProcesses DEF IInv
    <2>7. SealedIsSigned'
      BY <1>1, <2>4 DEF IInv, SealedIsSigned, TypeOK, Local, Accepted, Ahead
    <2> QED
      BY <2>5, <2>6, <2>7 DEF IInv
  <1>14. ASSUME NEW p \in Processes, Unretire(p)
        PROVE  IInv'
    <2> USE <1>14 DEF Unretire, At, disk, history, WriteRecord
    <2>1. lock = p /\ p \in Recorders /\ p \notin Outsiders
      BY Holder DEF Ahead, OutsideSteps
    <2>2. Goto(p, "aligning") /\ "aligning" \in Steps
      BY DEF Steps
    <2>3. /\ proc' \in [Processes -> Entries] /\ Others(p)
          /\ proc'[p].step = "aligning" /\ proc'[p].then = "idle" /\ proc'[p].rec = 0
          /\ proc'[p].number = proc[p].number
      BY <1>1, <2>2, GotoFacts
    <2>4. TypeOK'
      BY <1>1, <2>1, <2>3 DEF TypeOK, Entries, Numbers, Heads, Local, Owns, Ahead, Reserved, Copied
    <2>5. Local(p)'
      BY <1>1, <2>1, <2>3
         DEF TypeOK, Complete, Local, Holds, Owns, Accepted, Ahead, Locked, OutsideSteps, Reserved, Copied, Processes, Steps
    <2>6. \A q \in Processes : q # p => Local(q)'
      BY <2>1, <2>3, OtherProcesses DEF IInv
    <2>7. SealedIsSigned'
      BY <1>1, <2>4 DEF IInv, SealedIsSigned, TypeOK, Local, Accepted, Ahead
    <2> QED
      BY <2>5, <2>6, <2>7 DEF IInv
  <1>15. ASSUME NEW p \in Processes, AlignTree(p)
        PROVE  IInv'
    <2>1. /\ proc' \in [Processes -> Entries] /\ Others(p)
          /\ \/ lock' = None /\ proc'[p] = Idle
             \/ /\ lock' = lock /\ proc'[p].step = "checkout" /\ proc'[p].then = "idle"
                /\ proc'[p].rec = 0 /\ proc'[p].number = proc[p].number
      BY <1>1, <1>15, AlignFacts
    <2> USE <1>15 DEF AlignTree, At, disk, history
    <2>2. lock = p /\ p \in Recorders /\ p \notin Outsiders
      BY Holder DEF Ahead, OutsideSteps
    <2>3. TypeOK'
      BY <1>1, <2>2, <2>1 DEF TypeOK, Entries, Numbers, Heads, Local, Owns, Ahead, Reserved, Copied
    <2>4. Local(p)'
      BY <1>1, <2>2, <2>1
         DEF TypeOK, Complete, Local, Holds, Owns, Accepted, Ahead, Locked, OutsideSteps, Reserved, Copied, Processes, Steps, Idle
    <2>5. \A q \in Processes : q # p => Local(q)'
      BY <2>2, <2>1, OtherProcesses DEF IInv
    <2>6. SealedIsSigned'
      BY <1>1, <2>3 DEF IInv, SealedIsSigned, TypeOK, Local, Accepted, Ahead
    <2> QED
      BY <2>4, <2>5, <2>6 DEF IInv
  <1>16. ASSUME NEW p \in Processes, CheckoutTree(p)
        PROVE  IInv'
    <2> USE <1>16 DEF CheckoutTree, At, disk, history
    <2>1. lock = p /\ p \in Recorders /\ p \notin Outsiders
      BY Holder DEF Ahead, OutsideSteps
    <2>2. proc' \in [Processes -> Entries] /\ Others(p) /\ proc'[p] = Idle
      BY <1>1, IdleFacts
    <2>3. TypeOK'
      BY <1>1, <2>1, <2>2 DEF TypeOK, Entries, Numbers, Heads, Local, Owns, Ahead, Reserved, Copied
    <2>4. Local(p)'
      BY <1>1, <2>1, <2>2
         DEF TypeOK, Complete, Local, Holds, Owns, Accepted, Ahead, Locked, OutsideSteps, Reserved, Copied, Processes, Steps, Idle
    <2>5. \A q \in Processes : q # p => Local(q)'
      BY <2>1, <2>2, OtherProcesses DEF IInv
    <2>6. SealedIsSigned'
      BY <1>1, <2>3 DEF IInv, SealedIsSigned, TypeOK, Local, Accepted, Ahead
    <2> QED
      BY <2>4, <2>5, <2>6 DEF IInv
  <1>17. ASSUME NEW p \in Processes, BeginRead(p)
        PROVE  IInv'
    <2> USE <1>17 DEF BeginRead, At, disk, history
    <2>1. proc' = Load(p, "seen") /\ "seen" \in Steps
      BY DEF Steps
    <2>2. /\ proc' \in [Processes -> Entries] /\ Others(p)
          /\ proc'[p].step = "loading" /\ proc'[p].then = "seen" /\ proc'[p].rec = 0
          /\ proc'[p].number = proc[p].number
      BY <1>1, <2>1, LoadFacts
    <2>3. TypeOK'
      BY <1>1, <2>2 DEF TypeOK, Entries, Numbers, Heads, Local, Owns, Ahead, Reserved, Copied
    <2>4. Local(p)'
      BY <1>1, <2>2
         DEF TypeOK, Complete, Local, Holds, Owns, Accepted, Ahead, Locked, OutsideSteps, Reserved, Copied, Processes, Steps
    <2>5. \A q \in Processes : q # p => Local(q)'
      BY <2>2, OtherProcesses DEF IInv
    <2>6. SealedIsSigned'
      BY <1>1, <2>3 DEF IInv, SealedIsSigned, TypeOK, Local, Accepted, Ahead
    <2> QED
      BY <2>4, <2>5, <2>6 DEF IInv
  <1>18. ASSUME NEW p \in Processes, EndRead(p)
        PROVE  IInv'
    <2> USE <1>18 DEF EndRead, At, disk, history
    <2>1. proc' \in [Processes -> Entries] /\ Others(p) /\ proc'[p] = Idle
      BY <1>1, IdleFacts
    <2>2. TypeOK'
      BY <1>1, <2>1 DEF TypeOK, Entries, Numbers, Heads, Local, Owns, Ahead, Reserved, Copied
    <2>3. Local(p)'
      BY <1>1, <2>1
         DEF TypeOK, Complete, Local, Holds, Owns, Accepted, Ahead, Locked, OutsideSteps, Reserved, Copied, Processes, Steps, Idle
    <2>4. \A q \in Processes : q # p => Local(q)'
      BY <2>1, OtherProcesses DEF IInv
    <2>5. SealedIsSigned'
      BY <1>1, <2>2 DEF IInv, SealedIsSigned, TypeOK, Local, Accepted, Ahead
    <2> QED
      BY <2>3, <2>4, <2>5 DEF IInv
  <1>19. ASSUME NEW p \in Processes, BeginRetire(p)
        PROVE  IInv'
    <2> USE <1>19 DEF BeginRetire, At, disk, history
    <2>1. proc' = Load(p, "retiring") /\ "retiring" \in Steps
      BY DEF Steps
    <2>2. /\ proc' \in [Processes -> Entries] /\ Others(p)
          /\ proc'[p].step = "loading" /\ proc'[p].then = "retiring" /\ proc'[p].rec = 0
          /\ proc'[p].number = proc[p].number
      BY <1>1, <2>1, LoadFacts
    <2>3. TypeOK'
      BY <1>1, <2>2 DEF TypeOK, Entries, Numbers, Heads, Local, Owns, Ahead, Reserved, Copied
    <2>4. Local(p)'
      BY <1>1, <2>2
         DEF TypeOK, Complete, Local, Holds, Owns, Accepted, Ahead, Locked, OutsideSteps, Reserved, Copied, Processes, Steps
    <2>5. \A q \in Processes : q # p => Local(q)'
      BY <2>2, OtherProcesses DEF IInv
    <2>6. SealedIsSigned'
      BY <1>1, <2>3 DEF IInv, SealedIsSigned, TypeOK, Local, Accepted, Ahead
    <2> QED
      BY <2>4, <2>5, <2>6 DEF IInv
  <1>20. ASSUME NEW p \in Processes, SetRetired(p)
        PROVE  IInv'
    <2> USE <1>20 DEF SetRetired, At, disk, history, WriteRecord
    <2>1. proc' \in [Processes -> Entries] /\ Others(p) /\ proc'[p] = Idle
      BY <1>1, IdleFacts
    <2>2. TypeOK'
      BY <1>1, <2>1 DEF TypeOK, Entries, Numbers, Heads, Local, Owns, Ahead, Reserved, Copied
    <2>3. Local(p)'
      BY <1>1, <2>1
         DEF TypeOK, Complete, Local, Holds, Owns, Accepted, Ahead, Locked, OutsideSteps, Reserved, Copied, Processes, Steps, Idle
    <2>4. \A q \in Processes : q # p => Local(q)'
      BY <2>1, OtherProcesses DEF IInv
    <2>5. SealedIsSigned'
      BY <1>1, <2>2 DEF IInv, SealedIsSigned, TypeOK, Local, Accepted, Ahead
    <2> QED
      BY <2>3, <2>4, <2>5 DEF IInv
  <1>21. ASSUME NEW p \in Processes, Abort(p)
        PROVE  IInv'
    <2> USE <1>21 DEF Abort, At, disk, history
    <2>1. proc' \in [Processes -> Entries] /\ Others(p) /\ proc'[p] = Idle
      BY <1>1, IdleFacts
    <2>2. TypeOK'
      BY <1>1, <2>1 DEF TypeOK, Entries, Numbers, Heads, Local, Owns, Ahead, Reserved, Copied
    <2>3. Local(p)'
      BY <1>1, <2>1
         DEF TypeOK, Complete, Local, Holds, Owns, Accepted, Ahead, Locked, OutsideSteps, Reserved, Copied, Processes, Steps, Idle
    <2>4. \A q \in Processes : q # p => Local(q)'
      BY <2>1, OtherProcesses DEF IInv
    <2>5. SealedIsSigned'
      BY <1>1, <2>2 DEF IInv, SealedIsSigned, TypeOK, Local, Accepted, Ahead
    <2> QED
      BY <2>3, <2>4, <2>5 DEF IInv
  <1>22. ASSUME NEW p \in Processes, Crash(p)
        PROVE  IInv'
    <2> USE <1>22 DEF Crash, At, disk, history
    <2>1. proc' \in [Processes -> Entries] /\ Others(p) /\ proc'[p] = Idle
      BY <1>1, IdleFacts
    <2>2. TypeOK'
      BY <1>1, <2>1 DEF TypeOK, Entries, Numbers, Heads, Local, Owns, Ahead, Reserved, Copied
    <2>3. Local(p)'
      BY <1>1, <2>1
         DEF TypeOK, Complete, Local, Holds, Owns, Accepted, Ahead, Locked, OutsideSteps, Reserved, Copied, Processes, Steps, Idle
    <2>4. \A q \in Processes : q # p => Local(q)'
      BY <2>1, OtherProcesses DEF IInv
    <2>5. SealedIsSigned'
      BY <1>1, <2>2 DEF IInv, SealedIsSigned, TypeOK, Local, Accepted, Ahead
    <2> QED
      BY <2>3, <2>4, <2>5 DEF IInv
  <1>23. ASSUME NEW x \in Contents, OwnerEdits(x)
         PROVE  IInv'
    BY <1>23 DEF OwnerEdits, history, IInv, Local, Holds, Owns, Accepted, SealedIsSigned,
                 TypeOK, Ahead
  <1>24. CASE UNCHANGED vars
    BY <1>24 DEF vars, disk, history, IInv, Local, Holds, Owns, Accepted, SealedIsSigned,
                 TypeOK, Ahead
  <1> QED
    BY <1>2, <1>3, <1>4, <1>5, <1>6, <1>7, <1>8, <1>9, <1>10, <1>11, <1>12,
       <1>13, <1>14, <1>15, <1>16, <1>17, <1>18, <1>19, <1>20, <1>21, <1>22, <1>23, <1>24
    DEF Next, Loading, Recording, Outside

\* THEOREM 1.  What a completed Version holds is what the signed acceptance in
\* the lineage names, however recordings, loads, retirements and deaths
\* interleave (record_accepted_materialization before finalize_evolution).
THEOREM VersionsAreSigned == Spec => []SealedIsSigned
  <1>1. IInv => SealedIsSigned
    BY DEF IInv
  <1> QED
    BY <1>1, InitIInv, StepIInv, PTL DEF Spec

-----------------------------------------------------------------------------
(* Completed Versions stay *)

\* The steps before the marker that rely on the head being at most one behind.
Trusting == {"comparing", "reserving", "parenting", "snapshotting", "accepting",
             "appending", "finalizing", "marking"}
Loadable == {"comparing", "reserving", "marking", "restoring", "seen", "retiring"}

\* The complete Versions are the first ones.
Prefix == \A n \in Numbers : dir[n] = "complete" <=> n <= Top

\* A Version once sealed is there, with its tree.
Stays == \A n \in Numbers :
            sealed[n] # None => dir[n] = "complete" /\ content[n] = sealed[n]

\* What the record a process loaded says of the complete Versions.  The record
\* loaded before the directory is reserved is the second one under the lock:
\* each load makes good one missing Version, and two may be missing.
Follows(p) ==
    /\ proc[p].rec <= Top
    /\ proc[p].step \in {"loading", "recovering"} => proc[p].then \in Loadable
    /\ proc[p].step = "recovering" => /\ proc[p].rec + 1 <= Top
                                      /\ proc[p].then = "reserving" => proc[p].rec + 1 = Top
    /\ proc[p].step \in Trusting => Top - head <= 1
    /\ Ahead(p) \in {"reserving", "marking"} => Top - head <= 1
    /\ proc[p].step \in {"reserving", "parenting"} => proc[p].rec = Top
    /\ Ahead(p) \in Trusting \cap Reserved => proc[p].number = Top + 1
    /\ Ahead(p) \in Reserved \ Trusting => proc[p].number <= Top

\* As long as no stored head left out two Versions, the head is at most two
\* behind: one left out by a stored record, one by a marker without a head.
Keeps ==
    behind < 2 => /\ Prefix /\ Stays
                  /\ head <= Top /\ Top - head <= 2
                  /\ \A p \in Processes : Follows(p)

\* The number of complete Versions changes with the markers only.
LEMMA TopSame ==
    ASSUME \A n \in Numbers : dir'[n] = "complete" <=> dir[n] = "complete"
    PROVE  Top' = Top
  <1>1. {n \in Numbers : dir[n] = "complete"}' = {n \in Numbers : dir[n] = "complete"}
    OBVIOUS
  <1> QED
    BY <1>1 DEF Top

LEMMA TopGrows ==
    ASSUME TypeOK, NEW n \in Numbers, dir[n] # "complete",
           dir' = [dir EXCEPT ![n] = "complete"]
    PROVE  Top' = Top + 1
  <1> DEFINE S == {k \in Numbers : dir[k] = "complete"}
  <1>1. IsFiniteSet(Numbers)
    BY FS_Interval, ConstantsAssumption DEF Numbers
  <1>2. IsFiniteSet(S) /\ n \notin S
    BY <1>1, FS_Subset
  <1>3. {k \in Numbers : dir'[k] = "complete"} = S \cup {n}
    BY DEF TypeOK
  <1> QED
    BY <1>2, <1>3, FS_AddElement DEF Top

\* A step of p leaves what the others rely on: the number of complete Versions
\* and a head not further behind, or p is the one that holds the lock.
LEMMA OtherFollow ==
    ASSUME IInv, NEW p \in Processes, Others(p), Top \in Nat, Top' \in Nat, head' \in Nat,
           \A q \in Processes : Follows(q),
           \/ Top' = Top /\ (head' = head \/ Top' - head' <= 1)
           \/ lock = p /\ Top' = Top + 1
    PROVE  \A q \in Processes : q # p => Follows(q)'
  <1> SUFFICES ASSUME NEW q \in Processes, q # p PROVE Follows(q)'
    OBVIOUS
  <1>1. proc'[q] = proc[q] /\ Ahead(q)' = Ahead(q) /\ Follows(q) /\ proc[q].rec \in Nat
    BY ConstantsAssumption DEF Others, Ahead, IInv, SealedIsSigned, TypeOK, Heads
  <1>2. CASE Top' = Top /\ (head' = head \/ Top' - head' <= 1)
    BY <1>1, <1>2 DEF Follows
  <1>3. CASE lock = p /\ Top' = Top + 1
    <2>1. Ahead(q) \in OutsideSteps
      BY <1>3, Holder
    <2>2. /\ proc[q].step \notin Trusting /\ Ahead(q) \notin Reserved
          /\ Ahead(q) \notin {"reserving", "marking"}
          /\ proc[q].step \notin {"reserving", "parenting"}
          /\ (proc[q].step = "recovering" => proc[q].then # "reserving")
      BY <2>1 DEF Ahead, OutsideSteps, Trusting, Reserved
    <2>3. /\ proc[q].rec <= Top' /\ (proc[q].step = "recovering" => proc[q].rec + 1 <= Top')
          /\ (proc[q].step \in {"loading", "recovering"} => proc[q].then \in Loadable)
      BY <1>1, <1>3 DEF Follows
    <2> QED
      BY <1>1, <2>2, <2>3 DEF Follows
  <1> QED
    BY <1>2, <1>3

LEMMA InitKeeps == Init => Keeps
  <1> SUFFICES ASSUME Init PROVE Keeps
    OBVIOUS
  <1>1. {n \in Numbers : dir[n] = "complete"} = {}
    BY DEF Init
  <1>2. Top = 0
    BY <1>1, FS_EmptySet DEF Top
  <1> QED
    BY <1>2 DEF Init, Keeps, Prefix, Stays, Follows, Ahead, Idle, Trusting, Reserved, Numbers

\* Each step keeps the completed Versions.
LEMMA StepKeeps == IInv /\ Keeps /\ [Next]_vars => Keeps'
  <1> SUFFICES ASSUME IInv, Keeps, [Next]_vars, behind' < 2
               PROVE  /\ Prefix' /\ Stays'
                      /\ head' <= Top' /\ Top' - head' <= 2
                      /\ \A q \in Processes : Follows(q)'
    BY DEF Keeps
  <1> USE ConstantsAssumption
  <1>1. /\ Top \in Nat /\ Top \in 0 .. MaxVersions
        /\ proc \in [Processes -> Entries]
        /\ TypeOK
        /\ head \in Nat /\ behind \in Nat
        /\ \A p \in Processes : Local(p) /\ proc[p].rec \in Nat /\ proc[p].number \in Nat
    BY TopBound DEF IInv, SealedIsSigned, TypeOK, Entries, Heads
  <1>2. ASSUME NEW p \in Processes, ReadRecord(p)
        PROVE  Keeps'
    <2>1. /\ proc' \in [Processes -> Entries] /\ Others(p)
          /\ proc'[p].step = (IF Complete(head + 1) THEN "recovering" ELSE proc[p].then)
          /\ proc'[p].then = proc[p].then /\ proc'[p].rec = head
          /\ proc'[p].number = proc[p].number
      BY <1>1, <1>2, ReadFacts
    <2> USE <1>2 DEF ReadRecord, At, disk, history
    <2>2. /\ Prefix /\ Stays /\ head <= Top /\ Top - head <= 2
          /\ \A q \in Processes : Follows(q)
      BY <1>1 DEF Keeps
    <2>3. Top' = Top
      BY TopSame
    <2>4. Prefix' /\ Stays'
      BY <1>1, <2>2, <2>3 DEF Prefix, Stays, TypeOK, Numbers
    <2>5. head' \in Nat /\ head' <= Top' /\ Top' - head' <= 2 /\ head' = head
      BY <1>1, <2>2, <2>3 DEF Follows, Ahead, Trusting, Reserved, Loadable
    <2>6. Follows(p)'
      BY <1>1, <2>1, <2>2, <2>3, <2>5
         DEF Follows, Ahead, Trusting, Reserved, Loadable, Complete, Prefix, Numbers
    <2>7. \A q \in Processes : q # p => Follows(q)'
      BY <1>1, <2>1, <2>2, <2>3, <2>5, OtherFollow
    <2> QED
      BY <2>4, <2>5, <2>6, <2>7 DEF Keeps
  <1>3. ASSUME NEW p \in Processes, RecoverHead(p)
        PROVE  Keeps'
    <2>1. proc[p].rec + 1 \in Numbers
      BY <1>1, <1>3 DEF RecoverHead, At, Local, Owns
    <2>2. /\ proc' \in [Processes -> Entries] /\ Others(p)
          /\ proc'[p].step = proc[p].then /\ proc'[p].then = proc[p].then
          /\ proc'[p].rec = proc[p].rec + 1 /\ proc'[p].number = proc[p].number
      BY <1>1, <1>3, <2>1, RecoverFacts
    <2> USE <1>3 DEF RecoverHead, At, disk, history, WriteRecord
    <2>3. /\ Prefix /\ Stays /\ head <= Top /\ Top - head <= 2
          /\ \A q \in Processes : Follows(q)
      BY <1>1 DEF Keeps
    <2>4. Top' = Top
      BY TopSame
    <2>5. Prefix' /\ Stays'
      BY <1>1, <2>3, <2>4 DEF Prefix, Stays, TypeOK, Numbers
    <2>6. head' \in Nat /\ head' <= Top' /\ Top' - head' <= 2 /\ Top' - head' <= 1
      BY <1>1, <2>3, <2>4 DEF Follows, Ahead, Trusting, Reserved, Loadable
    <2>7. Follows(p)'
      BY <1>1, <2>2, <2>3, <2>4, <2>6
         DEF Follows, Ahead, Trusting, Reserved, Loadable
    <2>8. \A q \in Processes : q # p => Follows(q)'
      BY <1>1, <2>2, <2>3, <2>4, <2>6, OtherFollow
    <2> QED
      BY <2>5, <2>6, <2>7, <2>8 DEF Keeps
  <1>4. ASSUME NEW p \in Processes, LockApp(p)
        PROVE  Keeps'
    <2> USE <1>4 DEF LockApp, At, disk, history
    <2>1. proc' = Load(p, "comparing") /\ "comparing" \in Steps
      BY DEF Steps
    <2>2. /\ proc' \in [Processes -> Entries] /\ Others(p)
          /\ proc'[p].step = "loading" /\ proc'[p].then = "comparing" /\ proc'[p].rec = 0
          /\ proc'[p].number = proc[p].number
      BY <1>1, <2>1, LoadFacts
    <2>3. /\ Prefix /\ Stays /\ head <= Top /\ Top - head <= 2
          /\ \A q \in Processes : Follows(q)
      BY <1>1 DEF Keeps
    <2>4. Top' = Top
      BY TopSame
    <2>5. Prefix' /\ Stays'
      BY <1>1, <2>3, <2>4 DEF Prefix, Stays, TypeOK, Numbers
    <2>6. head' \in Nat /\ head' <= Top' /\ Top' - head' <= 2 /\ head' = head
      BY <1>1, <2>3, <2>4 DEF Follows, Ahead, Trusting, Reserved, Loadable
    <2>7. Follows(p)'
      BY <1>1, <2>2, <2>3, <2>4, <2>6
         DEF Follows, Ahead, Trusting, Reserved, Loadable
    <2>8. \A q \in Processes : q # p => Follows(q)'
      BY <1>1, <2>2, <2>3, <2>4, <2>6, OtherFollow
    <2> QED
      BY <2>5, <2>6, <2>7, <2>8 DEF Keeps
  <1>5. ASSUME NEW p \in Processes, CompareTree(p)
        PROVE  Keeps'
    <2>1. /\ proc' \in [Processes -> Entries] /\ Others(p)
          /\ \/ lock' = None /\ proc'[p] = Idle
             \/ /\ lock' = lock /\ proc'[p].step = "loading" /\ proc'[p].then = "reserving"
                /\ proc'[p].rec = 0
      BY <1>1, <1>5, CompareFacts
    <2> USE <1>5 DEF CompareTree, At, disk, history
    <2>2. /\ Prefix /\ Stays /\ head <= Top /\ Top - head <= 2
          /\ \A q \in Processes : Follows(q)
      BY <1>1 DEF Keeps
    <2>3. Top' = Top
      BY TopSame
    <2>4. Prefix' /\ Stays'
      BY <1>1, <2>2, <2>3 DEF Prefix, Stays, TypeOK, Numbers
    <2>5. head' \in Nat /\ head' <= Top' /\ Top' - head' <= 2 /\ head' = head
      BY <1>1, <2>2, <2>3 DEF Follows, Ahead, Trusting, Reserved, Loadable
    <2>6. Follows(p)'
      BY <1>1, <2>1, <2>2, <2>3, <2>5
         DEF Follows, Ahead, Trusting, Reserved, Loadable, Idle
    <2>7. \A q \in Processes : q # p => Follows(q)'
      BY <1>1, <2>1, <2>2, <2>3, <2>5, OtherFollow
    <2> QED
      BY <2>4, <2>5, <2>6, <2>7 DEF Keeps
  <1>6. ASSUME NEW p \in Processes, Reserve(p)
        PROVE  Keeps'
    <2>1. /\ proc' \in [Processes -> Entries] /\ Others(p)
          /\ proc'[p].step = "parenting" /\ proc'[p].then = proc[p].then
          /\ proc'[p].rec = proc[p].rec /\ proc'[p].number = proc[p].rec + 1
      BY <1>1, <1>6, ReserveFacts
    <2> USE <1>6 DEF Reserve, At, disk, history
    <2>2. /\ Prefix /\ Stays /\ head <= Top /\ Top - head <= 2
          /\ \A q \in Processes : Follows(q)
      BY <1>1 DEF Keeps
    <2>3. proc[p].rec + 1 = Top + 1
      BY <1>1, <2>2 DEF Follows
    <2>4. Top' = Top
      BY <1>1, <2>2, <2>3, TopSame DEF Prefix, TypeOK
    <2>5. Prefix' /\ Stays'
      BY <1>1, <2>3, <2>2, <2>4 DEF Prefix, Stays, TypeOK, Numbers
    <2>6. head' \in Nat /\ head' <= Top' /\ Top' - head' <= 2 /\ head' = head
      BY <1>1, <2>3, <2>2, <2>4 DEF Follows, Ahead, Trusting, Reserved, Loadable
    <2>7. Follows(p)'
      BY <1>1, <2>3, <2>1, <2>2, <2>4, <2>6
         DEF Follows, Ahead, Trusting, Reserved, Loadable
    <2>8. \A q \in Processes : q # p => Follows(q)'
      BY <1>1, <2>1, <2>2, <2>4, <2>6, OtherFollow
    <2> QED
      BY <2>5, <2>6, <2>7, <2>8 DEF Keeps
  <1>7. ASSUME NEW p \in Processes, WriteParent(p)
        PROVE  Keeps'
    <2>1. /\ proc' \in [Processes -> Entries] /\ Others(p)
          /\ proc'[p].step = "snapshotting" /\ proc'[p].then = "idle"
          /\ proc'[p].rec = 0 /\ proc'[p].number = proc[p].number
      BY <1>1, <1>7, ParentFacts
    <2> USE <1>7 DEF WriteParent, At, disk, history, WriteRecord
    <2>2. /\ Prefix /\ Stays /\ head <= Top /\ Top - head <= 2
          /\ \A q \in Processes : Follows(q)
      BY <1>1 DEF Keeps
    <2>3. Top' = Top
      BY TopSame
    <2>4. Prefix' /\ Stays'
      BY <1>1, <2>2, <2>3 DEF Prefix, Stays, TypeOK, Numbers
    <2>5. head' \in Nat /\ head' <= Top' /\ Top' - head' <= 2 /\ (head' = head \/ Top' - head' <= 1)
      BY <1>1, <2>2, <2>3 DEF Follows, Ahead, Trusting, Reserved, Loadable
    <2>6. Follows(p)'
      BY <1>1, <2>1, <2>2, <2>3, <2>5
         DEF Follows, Ahead, Trusting, Reserved, Loadable
    <2>7. \A q \in Processes : q # p => Follows(q)'
      BY <1>1, <2>1, <2>2, <2>3, <2>5, OtherFollow
    <2> QED
      BY <2>4, <2>5, <2>6, <2>7 DEF Keeps
  <1>8. ASSUME NEW p \in Processes, Snapshot(p)
        PROVE  Keeps'
    <2> USE <1>8 DEF Snapshot, At, disk, history, Writable
    <2>1. Goto(p, "accepting") /\ "accepting" \in Steps
      BY DEF Steps
    <2>2. /\ proc' \in [Processes -> Entries] /\ Others(p)
          /\ proc'[p].step = "accepting" /\ proc'[p].then = "idle" /\ proc'[p].rec = 0
          /\ proc'[p].number = proc[p].number
      BY <1>1, <2>1, GotoFacts
    <2>3. /\ Prefix /\ Stays /\ head <= Top /\ Top - head <= 2
          /\ \A q \in Processes : Follows(q)
      BY <1>1 DEF Keeps
    <2>4. proc[p].number \in Numbers /\ proc[p].number = Top + 1
      BY <1>1, <2>3 DEF Local, Owns, Follows, Ahead, Trusting, Reserved
    <2>5. Top' = Top
      BY TopSame
    <2>6. Prefix' /\ Stays'
      BY <1>1, <2>4, <2>3, <2>5 DEF Prefix, Stays, TypeOK, Numbers
    <2>7. head' \in Nat /\ head' <= Top' /\ Top' - head' <= 2 /\ head' = head
      BY <1>1, <2>4, <2>3, <2>5 DEF Follows, Ahead, Trusting, Reserved, Loadable
    <2>8. Follows(p)'
      BY <1>1, <2>4, <2>2, <2>3, <2>5, <2>7
         DEF Follows, Ahead, Trusting, Reserved, Loadable
    <2>9. \A q \in Processes : q # p => Follows(q)'
      BY <1>1, <2>2, <2>3, <2>5, <2>7, OtherFollow
    <2> QED
      BY <2>6, <2>7, <2>8, <2>9 DEF Keeps
  <1>9. ASSUME NEW p \in Processes, GatesAccept(p)
        PROVE  Keeps'
    <2> USE <1>9 DEF GatesAccept, At, disk, history
    <2>1. Goto(p, "appending") /\ "appending" \in Steps
      BY DEF Steps
    <2>2. /\ proc' \in [Processes -> Entries] /\ Others(p)
          /\ proc'[p].step = "appending" /\ proc'[p].then = "idle" /\ proc'[p].rec = 0
          /\ proc'[p].number = proc[p].number
      BY <1>1, <2>1, GotoFacts
    <2>3. /\ Prefix /\ Stays /\ head <= Top /\ Top - head <= 2
          /\ \A q \in Processes : Follows(q)
      BY <1>1 DEF Keeps
    <2>4. Top' = Top
      BY TopSame
    <2>5. Prefix' /\ Stays'
      BY <1>1, <2>3, <2>4 DEF Prefix, Stays, TypeOK, Numbers
    <2>6. head' \in Nat /\ head' <= Top' /\ Top' - head' <= 2 /\ head' = head
      BY <1>1, <2>3, <2>4 DEF Follows, Ahead, Trusting, Reserved, Loadable
    <2>7. Follows(p)'
      BY <1>1, <2>2, <2>3, <2>4, <2>6
         DEF Follows, Ahead, Trusting, Reserved, Loadable
    <2>8. \A q \in Processes : q # p => Follows(q)'
      BY <1>1, <2>2, <2>3, <2>4, <2>6, OtherFollow
    <2> QED
      BY <2>5, <2>6, <2>7, <2>8 DEF Keeps
  <1>10. ASSUME NEW p \in Processes, AppendLineage(p)
        PROVE  Keeps'
    <2> USE <1>10 DEF AppendLineage, At, disk, history
    <2>1. Goto(p, "finalizing") /\ "finalizing" \in Steps
      BY DEF Steps
    <2>2. /\ proc' \in [Processes -> Entries] /\ Others(p)
          /\ proc'[p].step = "finalizing" /\ proc'[p].then = "idle" /\ proc'[p].rec = 0
          /\ proc'[p].number = proc[p].number
      BY <1>1, <2>1, GotoFacts
    <2>3. /\ Prefix /\ Stays /\ head <= Top /\ Top - head <= 2
          /\ \A q \in Processes : Follows(q)
      BY <1>1 DEF Keeps
    <2>4. Top' = Top
      BY TopSame
    <2>5. Prefix' /\ Stays'
      BY <1>1, <2>3, <2>4 DEF Prefix, Stays, TypeOK, Numbers
    <2>6. head' \in Nat /\ head' <= Top' /\ Top' - head' <= 2 /\ head' = head
      BY <1>1, <2>3, <2>4 DEF Follows, Ahead, Trusting, Reserved, Loadable
    <2>7. Follows(p)'
      BY <1>1, <2>2, <2>3, <2>4, <2>6
         DEF Follows, Ahead, Trusting, Reserved, Loadable
    <2>8. \A q \in Processes : q # p => Follows(q)'
      BY <1>1, <2>2, <2>3, <2>4, <2>6, OtherFollow
    <2> QED
      BY <2>5, <2>6, <2>7, <2>8 DEF Keeps
  <1>11. ASSUME NEW p \in Processes, Finalize(p)
        PROVE  Keeps'
    <2> USE <1>11 DEF Finalize, At, disk, history
    <2>1. proc' = Load(p, "marking") /\ "marking" \in Steps
      BY DEF Steps
    <2>2. /\ proc' \in [Processes -> Entries] /\ Others(p)
          /\ proc'[p].step = "loading" /\ proc'[p].then = "marking" /\ proc'[p].rec = 0
          /\ proc'[p].number = proc[p].number
      BY <1>1, <2>1, LoadFacts
    <2>3. /\ Prefix /\ Stays /\ head <= Top /\ Top - head <= 2
          /\ \A q \in Processes : Follows(q)
      BY <1>1 DEF Keeps
    <2>4. Top' = Top
      BY TopSame
    <2>5. Prefix' /\ Stays'
      BY <1>1, <2>3, <2>4 DEF Prefix, Stays, TypeOK, Numbers
    <2>6. head' \in Nat /\ head' <= Top' /\ Top' - head' <= 2 /\ head' = head
      BY <1>1, <2>3, <2>4 DEF Follows, Ahead, Trusting, Reserved, Loadable
    <2>7. Follows(p)'
      BY <1>1, <2>2, <2>3, <2>4, <2>6
         DEF Follows, Ahead, Trusting, Reserved, Loadable
    <2>8. \A q \in Processes : q # p => Follows(q)'
      BY <1>1, <2>2, <2>3, <2>4, <2>6, OtherFollow
    <2> QED
      BY <2>5, <2>6, <2>7, <2>8 DEF Keeps
  <1>12. ASSUME NEW p \in Processes, PublishMarker(p)
        PROVE  Keeps'
    <2> USE <1>12 DEF PublishMarker, At, disk, history, Writable
    <2>1. lock = p /\ p \in Recorders /\ p \notin Outsiders
      BY Holder DEF Ahead, OutsideSteps
    <2>2. Goto(p, "heading") /\ "heading" \in Steps
      BY DEF Steps
    <2>3. /\ proc' \in [Processes -> Entries] /\ Others(p)
          /\ proc'[p].step = "heading" /\ proc'[p].then = "idle" /\ proc'[p].rec = 0
          /\ proc'[p].number = proc[p].number
      BY <1>1, <2>2, GotoFacts
    <2>4. /\ Prefix /\ Stays /\ head <= Top /\ Top - head <= 2
          /\ \A q \in Processes : Follows(q)
      BY <1>1 DEF Keeps
    <2>5. proc[p].number \in Numbers /\ proc[p].number = Top + 1
      BY <1>1, <2>4 DEF Local, Owns, Follows, Ahead, Trusting, Reserved
    <2>6. Top' = Top + 1
      BY <1>1, <2>5, TopGrows
    <2>7. Prefix' /\ Stays'
      BY <1>1, <2>5, <2>4, <2>6 DEF Prefix, Stays, TypeOK, Numbers
    <2>8. head' \in Nat /\ head' <= Top' /\ Top' - head' <= 2 /\ head' = head
      BY <1>1, <2>5, <2>4, <2>6 DEF Follows, Ahead, Trusting, Reserved, Loadable
    <2>9. Follows(p)'
      BY <1>1, <2>5, <2>3, <2>4, <2>6, <2>8
         DEF Follows, Ahead, Trusting, Reserved, Loadable
    <2>10. \A q \in Processes : q # p => Follows(q)'
      BY <1>1, <2>1, <2>3, <2>4, <2>6, <2>8, OtherFollow
    <2> QED
      BY <2>7, <2>8, <2>9, <2>10 DEF Keeps
  <1>13. ASSUME NEW p \in Processes, MoveHead(p)
        PROVE  Keeps'
    <2> USE <1>13 DEF MoveHead, At, disk, history, WriteRecord
    <2>1. proc' = Load(p, "restoring") /\ "restoring" \in Steps
      BY DEF Steps
    <2>2. /\ proc' \in [Processes -> Entries] /\ Others(p)
          /\ proc'[p].step = "loading" /\ proc'[p].then = "restoring" /\ proc'[p].rec = 0
          /\ proc'[p].number = proc[p].number
      BY <1>1, <2>1, LoadFacts
    <2>3. /\ Prefix /\ Stays /\ head <= Top /\ Top - head <= 2
          /\ \A q \in Processes : Follows(q)
      BY <1>1 DEF Keeps
    <2>4. Top' = Top
      BY TopSame
    <2>5. Prefix' /\ Stays'
      BY <1>1, <2>3, <2>4 DEF Prefix, Stays, TypeOK, Numbers
    <2>6. head' \in Nat /\ head' <= Top' /\ Top' - head' <= 2 /\ Top' - head' <= 1
      BY <1>1, <2>3, <2>4 DEF Follows, Ahead, Trusting, Reserved, Loadable
    <2>7. Follows(p)'
      BY <1>1, <2>2, <2>3, <2>4, <2>6
         DEF Follows, Ahead, Trusting, Reserved, Loadable
    <2>8. \A q \in Processes : q # p => Follows(q)'
      BY <1>1, <2>2, <2>3, <2>4, <2>6, OtherFollow
    <2> QED
      BY <2>5, <2>6, <2>7, <2>8 DEF Keeps
  <1>14. ASSUME NEW p \in Processes, Unretire(p)
        PROVE  Keeps'
    <2> USE <1>14 DEF Unretire, At, disk, history, WriteRecord
    <2>1. Goto(p, "aligning") /\ "aligning" \in Steps
      BY DEF Steps
    <2>2. /\ proc' \in [Processes -> Entries] /\ Others(p)
          /\ proc'[p].step = "aligning" /\ proc'[p].then = "idle" /\ proc'[p].rec = 0
          /\ proc'[p].number = proc[p].number
      BY <1>1, <2>1, GotoFacts
    <2>3. /\ Prefix /\ Stays /\ head <= Top /\ Top - head <= 2
          /\ \A q \in Processes : Follows(q)
      BY <1>1 DEF Keeps
    <2>4. Top' = Top
      BY TopSame
    <2>5. Prefix' /\ Stays'
      BY <1>1, <2>3, <2>4 DEF Prefix, Stays, TypeOK, Numbers
    <2>6. head' \in Nat /\ head' <= Top' /\ Top' - head' <= 2 /\ Top' - head' <= 1
      BY <1>1, <2>3, <2>4 DEF Follows, Ahead, Trusting, Reserved, Loadable
    <2>7. Follows(p)'
      BY <1>1, <2>2, <2>3, <2>4, <2>6
         DEF Follows, Ahead, Trusting, Reserved, Loadable
    <2>8. \A q \in Processes : q # p => Follows(q)'
      BY <1>1, <2>2, <2>3, <2>4, <2>6, OtherFollow
    <2> QED
      BY <2>5, <2>6, <2>7, <2>8 DEF Keeps
  <1>15. ASSUME NEW p \in Processes, AlignTree(p)
        PROVE  Keeps'
    <2>1. /\ proc' \in [Processes -> Entries] /\ Others(p)
          /\ \/ lock' = None /\ proc'[p] = Idle
             \/ /\ lock' = lock /\ proc'[p].step = "checkout" /\ proc'[p].then = "idle"
                /\ proc'[p].rec = 0 /\ proc'[p].number = proc[p].number
      BY <1>1, <1>15, AlignFacts
    <2> USE <1>15 DEF AlignTree, At, disk, history
    <2>2. /\ Prefix /\ Stays /\ head <= Top /\ Top - head <= 2
          /\ \A q \in Processes : Follows(q)
      BY <1>1 DEF Keeps
    <2>3. Top' = Top
      BY TopSame
    <2>4. Prefix' /\ Stays'
      BY <1>1, <2>2, <2>3 DEF Prefix, Stays, TypeOK, Numbers
    <2>5. head' \in Nat /\ head' <= Top' /\ Top' - head' <= 2 /\ head' = head
      BY <1>1, <2>2, <2>3 DEF Follows, Ahead, Trusting, Reserved, Loadable
    <2>6. Follows(p)'
      BY <1>1, <2>1, <2>2, <2>3, <2>5
         DEF Follows, Ahead, Trusting, Reserved, Loadable, Idle
    <2>7. \A q \in Processes : q # p => Follows(q)'
      BY <1>1, <2>1, <2>2, <2>3, <2>5, OtherFollow
    <2> QED
      BY <2>4, <2>5, <2>6, <2>7 DEF Keeps
  <1>16. ASSUME NEW p \in Processes, CheckoutTree(p)
        PROVE  Keeps'
    <2> USE <1>16 DEF CheckoutTree, At, disk, history
    <2>1. proc' \in [Processes -> Entries] /\ Others(p) /\ proc'[p] = Idle
      BY <1>1, IdleFacts
    <2>2. /\ Prefix /\ Stays /\ head <= Top /\ Top - head <= 2
          /\ \A q \in Processes : Follows(q)
      BY <1>1 DEF Keeps
    <2>3. Top' = Top
      BY TopSame
    <2>4. Prefix' /\ Stays'
      BY <1>1, <2>2, <2>3 DEF Prefix, Stays, TypeOK, Numbers
    <2>5. head' \in Nat /\ head' <= Top' /\ Top' - head' <= 2 /\ head' = head
      BY <1>1, <2>2, <2>3 DEF Follows, Ahead, Trusting, Reserved, Loadable
    <2>6. Follows(p)'
      BY <1>1, <2>1, <2>2, <2>3, <2>5
         DEF Follows, Ahead, Trusting, Reserved, Loadable, Idle
    <2>7. \A q \in Processes : q # p => Follows(q)'
      BY <1>1, <2>1, <2>2, <2>3, <2>5, OtherFollow
    <2> QED
      BY <2>4, <2>5, <2>6, <2>7 DEF Keeps
  <1>17. ASSUME NEW p \in Processes, BeginRead(p)
        PROVE  Keeps'
    <2> USE <1>17 DEF BeginRead, At, disk, history
    <2>1. proc' = Load(p, "seen") /\ "seen" \in Steps
      BY DEF Steps
    <2>2. /\ proc' \in [Processes -> Entries] /\ Others(p)
          /\ proc'[p].step = "loading" /\ proc'[p].then = "seen" /\ proc'[p].rec = 0
          /\ proc'[p].number = proc[p].number
      BY <1>1, <2>1, LoadFacts
    <2>3. /\ Prefix /\ Stays /\ head <= Top /\ Top - head <= 2
          /\ \A q \in Processes : Follows(q)
      BY <1>1 DEF Keeps
    <2>4. Top' = Top
      BY TopSame
    <2>5. Prefix' /\ Stays'
      BY <1>1, <2>3, <2>4 DEF Prefix, Stays, TypeOK, Numbers
    <2>6. head' \in Nat /\ head' <= Top' /\ Top' - head' <= 2 /\ head' = head
      BY <1>1, <2>3, <2>4 DEF Follows, Ahead, Trusting, Reserved, Loadable
    <2>7. Follows(p)'
      BY <1>1, <2>2, <2>3, <2>4, <2>6
         DEF Follows, Ahead, Trusting, Reserved, Loadable
    <2>8. \A q \in Processes : q # p => Follows(q)'
      BY <1>1, <2>2, <2>3, <2>4, <2>6, OtherFollow
    <2> QED
      BY <2>5, <2>6, <2>7, <2>8 DEF Keeps
  <1>18. ASSUME NEW p \in Processes, EndRead(p)
        PROVE  Keeps'
    <2> USE <1>18 DEF EndRead, At, disk, history
    <2>1. proc' \in [Processes -> Entries] /\ Others(p) /\ proc'[p] = Idle
      BY <1>1, IdleFacts
    <2>2. /\ Prefix /\ Stays /\ head <= Top /\ Top - head <= 2
          /\ \A q \in Processes : Follows(q)
      BY <1>1 DEF Keeps
    <2>3. Top' = Top
      BY TopSame
    <2>4. Prefix' /\ Stays'
      BY <1>1, <2>2, <2>3 DEF Prefix, Stays, TypeOK, Numbers
    <2>5. head' \in Nat /\ head' <= Top' /\ Top' - head' <= 2 /\ head' = head
      BY <1>1, <2>2, <2>3 DEF Follows, Ahead, Trusting, Reserved, Loadable
    <2>6. Follows(p)'
      BY <1>1, <2>1, <2>2, <2>3, <2>5
         DEF Follows, Ahead, Trusting, Reserved, Loadable, Idle
    <2>7. \A q \in Processes : q # p => Follows(q)'
      BY <1>1, <2>1, <2>2, <2>3, <2>5, OtherFollow
    <2> QED
      BY <2>4, <2>5, <2>6, <2>7 DEF Keeps
  <1>19. ASSUME NEW p \in Processes, BeginRetire(p)
        PROVE  Keeps'
    <2> USE <1>19 DEF BeginRetire, At, disk, history
    <2>1. proc' = Load(p, "retiring") /\ "retiring" \in Steps
      BY DEF Steps
    <2>2. /\ proc' \in [Processes -> Entries] /\ Others(p)
          /\ proc'[p].step = "loading" /\ proc'[p].then = "retiring" /\ proc'[p].rec = 0
          /\ proc'[p].number = proc[p].number
      BY <1>1, <2>1, LoadFacts
    <2>3. /\ Prefix /\ Stays /\ head <= Top /\ Top - head <= 2
          /\ \A q \in Processes : Follows(q)
      BY <1>1 DEF Keeps
    <2>4. Top' = Top
      BY TopSame
    <2>5. Prefix' /\ Stays'
      BY <1>1, <2>3, <2>4 DEF Prefix, Stays, TypeOK, Numbers
    <2>6. head' \in Nat /\ head' <= Top' /\ Top' - head' <= 2 /\ head' = head
      BY <1>1, <2>3, <2>4 DEF Follows, Ahead, Trusting, Reserved, Loadable
    <2>7. Follows(p)'
      BY <1>1, <2>2, <2>3, <2>4, <2>6
         DEF Follows, Ahead, Trusting, Reserved, Loadable
    <2>8. \A q \in Processes : q # p => Follows(q)'
      BY <1>1, <2>2, <2>3, <2>4, <2>6, OtherFollow
    <2> QED
      BY <2>5, <2>6, <2>7, <2>8 DEF Keeps
  <1>20. ASSUME NEW p \in Processes, SetRetired(p)
        PROVE  Keeps'
    <2> USE <1>20 DEF SetRetired, At, disk, history, WriteRecord
    <2>1. proc' \in [Processes -> Entries] /\ Others(p) /\ proc'[p] = Idle
      BY <1>1, IdleFacts
    <2>2. /\ Prefix /\ Stays /\ head <= Top /\ Top - head <= 2
          /\ \A q \in Processes : Follows(q)
      BY <1>1 DEF Keeps
    <2>3. Top' = Top
      BY TopSame
    <2>4. Prefix' /\ Stays'
      BY <1>1, <2>2, <2>3 DEF Prefix, Stays, TypeOK, Numbers
    <2>5. head' \in Nat /\ head' <= Top' /\ Top' - head' <= 2 /\ Top' - head' <= 1
      BY <1>1, <2>2, <2>3 DEF Follows, Ahead, Trusting, Reserved, Loadable
    <2>6. Follows(p)'
      BY <1>1, <2>1, <2>2, <2>3, <2>5
         DEF Follows, Ahead, Trusting, Reserved, Loadable, Idle
    <2>7. \A q \in Processes : q # p => Follows(q)'
      BY <1>1, <2>1, <2>2, <2>3, <2>5, OtherFollow
    <2> QED
      BY <2>4, <2>5, <2>6, <2>7 DEF Keeps
  <1>21. ASSUME NEW p \in Processes, Abort(p)
        PROVE  Keeps'
    <2> USE <1>21 DEF Abort, At, disk, history
    <2>1. proc' \in [Processes -> Entries] /\ Others(p) /\ proc'[p] = Idle
      BY <1>1, IdleFacts
    <2>2. /\ Prefix /\ Stays /\ head <= Top /\ Top - head <= 2
          /\ \A q \in Processes : Follows(q)
      BY <1>1 DEF Keeps
    <2>3. Top' = Top
      BY TopSame
    <2>4. Prefix' /\ Stays'
      BY <1>1, <2>2, <2>3 DEF Prefix, Stays, TypeOK, Numbers
    <2>5. head' \in Nat /\ head' <= Top' /\ Top' - head' <= 2 /\ head' = head
      BY <1>1, <2>2, <2>3 DEF Follows, Ahead, Trusting, Reserved, Loadable
    <2>6. Follows(p)'
      BY <1>1, <2>1, <2>2, <2>3, <2>5
         DEF Follows, Ahead, Trusting, Reserved, Loadable, Idle
    <2>7. \A q \in Processes : q # p => Follows(q)'
      BY <1>1, <2>1, <2>2, <2>3, <2>5, OtherFollow
    <2> QED
      BY <2>4, <2>5, <2>6, <2>7 DEF Keeps
  <1>22. ASSUME NEW p \in Processes, Crash(p)
        PROVE  Keeps'
    <2> USE <1>22 DEF Crash, At, disk, history
    <2>1. proc' \in [Processes -> Entries] /\ Others(p) /\ proc'[p] = Idle
      BY <1>1, IdleFacts
    <2>2. /\ Prefix /\ Stays /\ head <= Top /\ Top - head <= 2
          /\ \A q \in Processes : Follows(q)
      BY <1>1 DEF Keeps
    <2>3. Top' = Top
      BY TopSame
    <2>4. Prefix' /\ Stays'
      BY <1>1, <2>2, <2>3 DEF Prefix, Stays, TypeOK, Numbers
    <2>5. head' \in Nat /\ head' <= Top' /\ Top' - head' <= 2 /\ head' = head
      BY <1>1, <2>2, <2>3 DEF Follows, Ahead, Trusting, Reserved, Loadable
    <2>6. Follows(p)'
      BY <1>1, <2>1, <2>2, <2>3, <2>5
         DEF Follows, Ahead, Trusting, Reserved, Loadable, Idle
    <2>7. \A q \in Processes : q # p => Follows(q)'
      BY <1>1, <2>1, <2>2, <2>3, <2>5, OtherFollow
    <2> QED
      BY <2>4, <2>5, <2>6, <2>7 DEF Keeps
  <1>23. ASSUME NEW x \in Contents, OwnerEdits(x)
         PROVE  Keeps'
    <2>1. Top' = Top
      BY <1>23, TopSame DEF OwnerEdits
    <2> QED
      BY <1>23, <2>1 DEF OwnerEdits, history, Keeps, Prefix, Stays, Follows, Ahead
  <1>24. ASSUME UNCHANGED vars PROVE Keeps'
    <2>1. Top' = Top
      BY <1>24, TopSame DEF vars, disk
    <2> QED
      BY <1>24, <2>1 DEF vars, disk, history, Keeps, Prefix, Stays, Follows, Ahead
  <1>25. Keeps'
    BY <1>2, <1>3, <1>4, <1>5, <1>6, <1>7, <1>8, <1>9, <1>10, <1>11, <1>12,
       <1>13, <1>14, <1>15, <1>16, <1>17, <1>18, <1>19, <1>20, <1>21, <1>22, <1>23, <1>24
    DEF Next, Loading, Recording, Outside
  <1> QED
    BY <1>25 DEF Keeps

\* THEOREM 2.  As long as no stored head left out two Versions, every completed
\* Version keeps its number and its tree, and the head names a complete one, so
\* that load_app never refuses the Shot.
THEOREM VersionsStay == Spec => []CompleteStays
  <1>1. IInv /\ Keeps => CompleteStays
    BY ConstantsAssumption
       DEF Keeps, Prefix, Stays, CompleteStays, Complete, IInv, SealedIsSigned, TypeOK,
           Numbers, Heads, Top
  <1> QED
    BY <1>1, InitIInv, StepIInv, InitKeeps, StepKeeps, PTL DEF Spec

=============================================================================
