------------------------- MODULE LivingProjectProofs -------------------------
(***************************************************************************)
(* Proofs about adopted projects, for every number of commands, tasks,      *)
(* retries, adoptions and stops: the harness edits the owner's source at    *)
(* most once for a request, and no stale copy of a record makes an          *)
(* evolution look further than it is.                                       *)
(***************************************************************************)
EXTENDS LivingProject, SequenceTheorems, TLAPS

-----------------------------------------------------------------------------
(* What the processes may still have to write *)

FailOps == {Op("fail", "Failed"), Op("save", None)}
StartOps == {Op(k, s) : k \in {"move", "link"}, s \in {"Received", "Working"}}
PacketOps == {Op(k, "Working") : k \in {"move", "link"}}
EditOps ==
    FailOps \cup {Op("note", None), Op("built", None), Op("move", "Building"), Op("link", "Building")}
DeliverOps ==
    FailOps \cup {Op("note", None), Op("built", None), Op("try", None)}
            \cup {Op(k, s) : k \in {"move", "link"}, s \in Waiting \cup {"Installing"}}
ReportOps == {Op(k, s) : k \in {"move", "link"}, s \in {"Installed", "Completed"}}
Ops == StartOps \cup EditOps \cup DeliverOps \cup ReportOps

Links == [link : Evolutions \cup {None}]
Steps == [at : Labels, evo : Evolutions \cup {None}, todo : Seq(Ops),
          copy : {None} \cup Records \cup Links]

\* What a record claims is true of the evolution.
Earned(e, record) ==
    /\ record.status \in Waiting \cup {"Installing", "Installed", "Completed"} => record.built
    /\ record.status \in {"Installed", "Completed"} => e \in delivered

\* The loop has this evolution in hand.
Retried(e) == proc["loop"].at # "idle" /\ proc["loop"].evo = e

\* A process that has read a record will write it with its next update.
Copies(q) == proc[q].copy # None
Holds(q) ==
    Copies(q) => /\ proc[q].todo # <<>>
                 /\ IF OnEvolution(Next1(q))
                    THEN /\ proc[q].copy \in Records
                         /\ runs[proc[q].evo] = 0 => ~ proc[q].copy.built
                    ELSE Next1(q).kind = "save" /\ proc[q].copy \in Links

\* A copy that is not about to be marked as failed.
Live(q) == Copies(q) /\ OnEvolution(Next1(q)) /\ Next1(q).kind # "fail"

Resting(q) ==
    /\ proc[q].at = "idle" \/ (proc[q].at = "lock" /\ q # "loop")
    /\ proc[q].todo = <<>> /\ proc[q].copy = None

\* A task that failed, or finished, has nothing but that to record.
GivenUp(q) == proc[q].at = "finish" /\ proc[q].todo \in Seq(FailOps)

\* Before the harness: the task holds the lock and is the first to run it.
Starting(q) ==
    /\ proc[q].at \in {"start", "packet"}
    /\ proc[q].todo \in Seq(StartOps)
    /\ exec = q /\ runs[proc[q].evo] = 0
    /\ proc[q].at = "packet"
          => /\ proc[q].todo \in Seq(PacketOps)
             /\ \/ proc[q].todo # <<>> /\ Next1(q).kind = "move"
                \/ evolution[proc[q].evo].status \in {"Working", "Failed"}

\* From the harness to the signed app: only this task and failures write.
Editing(q) ==
    /\ proc[q].at \in {"harness", "tests", "build", "inventory", "finish"}
    /\ proc[q].todo \in Seq(EditOps)
    /\ exec = q /\ runs[proc[q].evo] = 1
    /\ ~ Retried(proc[q].evo)
    /\ proc[q].at = "inventory"
          => proc[q].todo # <<>> /\ Next1(q).kind = "built" /\ proc[q].todo \in Seq(DeliverOps)
    /\ evolution[proc[q].evo].status \in {"Working", "Building", "Failed"}
    /\ Live(q) => proc[q].copy.status \in {"Working", "Building", "Failed"}

\* From the signed app on: whoever writes keeps the build.
Delivering(q) ==
    /\ proc[q].at \in {"inventory", "install", "finish"}
    /\ proc[q].todo \in Seq(DeliverOps \cup ReportOps)
    /\ proc[q].todo \in Seq(DeliverOps) \/ proc[q].evo \in delivered
    /\ runs[proc[q].evo] = 1
    /\ evolution[proc[q].evo].built \/ evolution[proc[q].evo].status = "Failed"
    /\ Live(q) => /\ proc[q].copy.status \notin Resumable \cup {"absent"}
                  /\ proc[q].copy.built \/ proc[q].copy.status = "Failed"
                  /\ Next1(q).kind = "move" => proc[q].copy.built
                  /\ Earned(proc[q].evo, proc[q].copy)

Stage(q) ==
    \/ Resting(q)
    \/ q = "loop" /\ Delivering(q)
    \/ q # "loop" /\ GivenUp(q)
    \/ q # "loop" /\ Starting(q)
    \/ q # "loop" /\ Editing(q)
    \/ q # "loop" /\ Delivering(q) /\ exec = q

Staged(q) ==
    /\ proc[q].at # "idle" => proc[q].evo \in Evolutions
    /\ Holds(q)
    /\ Len(proc[q].todo) <= 7
    /\ Stage(q)

\* The adopter only carries the link.
Adopting ==
    /\ proc["adopter"].at \in {"idle", "adopting"}
    /\ proc["adopter"].todo = <<>>
    /\ proc["adopter"].at = "adopting" => proc["adopter"].copy \in Links

\* What is on disk and how often the harness ran.
Honest(e) ==
    /\ Earned(e, evolution[e])
    /\ \/ /\ runs[e] = 0
          /\ evolution[e].status \in {"absent", "Queued", "Received", "Working", "Failed"}
          /\ ~ evolution[e].built
       \/ runs[e] = 1 /\ evolution[e].status \notin Resumable \cup {"absent"}

Typed ==
    /\ evolution \in [Evolutions -> Records]
    /\ index \subseteq Evolutions
    /\ latest \in Evolutions \cup {None}
    /\ exec \in Tasks \cup {None}
    /\ proc \in [Processes -> Steps]
    /\ service \in {"up", "down"}
    /\ delivered \subseteq Evolutions
    /\ answered \subseteq Evolutions
    /\ submits \in [Evolutions -> 0 .. MaxSubmits]
    /\ passes \in 0 .. MaxPasses
    /\ adoptions \in 0 .. MaxAdoptions
    /\ crashes \in 0 .. MaxCrashes
    /\ runs \in [Evolutions -> Nat]

IInv ==
    /\ Typed
    /\ \A e \in Evolutions : Honest(e)
    /\ \A q \in Tasks \cup {"loop"} : Staged(q)
    /\ Adopting
    /\ service = "down" => \A q \in Processes : proc[q].at = "idle"

-----------------------------------------------------------------------------
(* Updates *)

LEMMA OpFacts ==
    /\ \A op \in FailOps : \/ op.kind = "fail" /\ op.to = "Failed"
                           \/ op.kind = "save"
    /\ \A op \in StartOps : op.kind \in {"move", "link"} /\ op.to \in {"Received", "Working"}
    /\ \A op \in PacketOps : op.kind \in {"move", "link"} /\ op.to = "Working"
    /\ \A op \in EditOps : \/ op.kind = "fail" /\ op.to = "Failed"
                           \/ op.kind \in {"save", "note", "built"}
                           \/ op.kind \in {"move", "link"} /\ op.to = "Building"
    /\ \A op \in DeliverOps : \/ op.kind = "fail" /\ op.to = "Failed"
                              \/ op.kind \in {"save", "note", "built", "try"}
                              \/ /\ op.kind \in {"move", "link"}
                                 /\ op.to \in Waiting \cup {"Installing"}
    /\ \A op \in ReportOps : op.kind \in {"move", "link"} /\ op.to \in {"Installed", "Completed"}
  BY DEF FailOps, StartOps, PacketOps, EditOps, DeliverOps, ReportOps, Op

\* The sequences of updates that the code writes.
LEMMA PlanFacts ==
    /\ <<>> \in Seq(FailOps) /\ Fail \in Seq(FailOps) /\ Save \in Seq(FailOps)
    /\ Len(<<>>) = 0 /\ Len(Fail) = 2 /\ Len(Save) = 1
    /\ Set("Received") \in Seq(StartOps) /\ Set("Working") \in Seq(StartOps)
    /\ Set("Working") \in Seq(PacketOps)
    /\ Set("Building") \in Seq(EditOps) /\ Note \in Seq(EditOps) /\ Built \in Seq(EditOps)
    /\ Len(Note) = 1 /\ Len(Built) = 1 /\ Len(Try) = 1
    /\ Note \in Seq(DeliverOps) /\ Try \in Seq(DeliverOps) /\ Built \in Seq(DeliverOps)
    /\ Built # <<>> /\ Head(Built) = Op("built", None)
    /\ \A s \in Waiting \cup {"Installing"} : Set(s) \in Seq(DeliverOps)
    /\ \A s \in {"Installed", "Completed"} : Set(s) \in Seq(ReportOps)
  BY DEF Fail, Save, Set, Note, Built, Try, FailOps, StartOps, PacketOps, EditOps, DeliverOps, ReportOps

LEMMA SetFacts ==
    ASSUME NEW s
    PROVE  Len(Set(s)) = 2 /\ Len(Set(s)) <= 7 /\ Set(s) # <<>> /\ Head(Set(s)) = Op("move", s)
  BY DEF Set

LEMMA Widen ==
    ASSUME NEW S, NEW R, S \subseteq R
    PROVE  Seq(S) \subseteq Seq(R)
  BY SeqMonotonic

LEMMA OpSets ==
    /\ FailOps \subseteq EditOps /\ FailOps \subseteq DeliverOps
    /\ Seq(FailOps) \subseteq Seq(EditOps) /\ Seq(FailOps) \subseteq Seq(DeliverOps)
    /\ Seq(DeliverOps) \subseteq Seq(DeliverOps \cup ReportOps)
    /\ Seq(ReportOps) \subseteq Seq(DeliverOps \cup ReportOps)
    /\ Seq(StartOps) \subseteq Seq(Ops) /\ Seq(EditOps) \subseteq Seq(Ops)
    /\ Seq(DeliverOps \cup ReportOps) \subseteq Seq(Ops)
    /\ Seq(FailOps) \subseteq Seq(Ops)
  <1>1. FailOps \subseteq EditOps /\ FailOps \subseteq DeliverOps
    BY DEF EditOps, DeliverOps
  <1>2. /\ StartOps \subseteq Ops /\ EditOps \subseteq Ops /\ DeliverOps \cup ReportOps \subseteq Ops
        /\ FailOps \subseteq Ops
    BY <1>1 DEF Ops
  <1> QED
    BY <1>1, <1>2, Widen

\* A process goes on with the evolution it has in hand, with nothing read yet.
GoesOn(p) ==
    /\ proc' \in [Processes -> Steps]
    /\ \A q \in Processes : q # p => proc'[q] = proc[q]
    /\ proc'[p].evo = proc[p].evo /\ proc'[p].copy = None

LEMMA GoFacts ==
    ASSUME Typed, NEW p \in Processes, NEW todo \in Seq(Ops), NEW label \in Labels,
           Go(p, todo, label)
    PROVE  GoesOn(p) /\ proc'[p].at = label /\ proc'[p].todo = todo
  <1> DEFINE n == [proc[p] EXCEPT !.todo = todo, !.at = label, !.copy = None]
  <1>1. proc \in [Processes -> Steps] /\ proc[p] \in Steps
    BY DEF Typed
  <1>2. proc' = [proc EXCEPT ![p] = n]
    BY DEF Go
  <1>3. /\ n \in Steps /\ n.at = label /\ n.todo = todo /\ n.evo = proc[p].evo /\ n.copy = None
    BY <1>1 DEF Steps
  <1> HIDE DEF n
  <1> QED
    BY <1>1, <1>2, <1>3 DEF GoesOn

LEMMA CopyFacts ==
    ASSUME Typed, NEW p \in Processes, NEW c \in {None} \cup Records \cup Links,
           proc' = [proc EXCEPT ![p].copy = c]
    PROVE  /\ proc' \in [Processes -> Steps]
           /\ \A q \in Processes : q # p => proc'[q] = proc[q]
           /\ proc'[p].at = proc[p].at /\ proc'[p].todo = proc[p].todo
           /\ proc'[p].evo = proc[p].evo /\ proc'[p].copy = c
  <1> DEFINE n == [proc[p] EXCEPT !.copy = c]
  <1>1. proc \in [Processes -> Steps] /\ proc[p] \in Steps
    BY DEF Typed
  <1>2. proc' = [proc EXCEPT ![p] = n]
    OBVIOUS
  <1>3. /\ n \in Steps /\ n.at = proc[p].at /\ n.todo = proc[p].todo /\ n.evo = proc[p].evo
        /\ n.copy = c
    BY <1>1 DEF Steps
  <1> HIDE DEF n
  <1> QED
    BY <1>1, <1>2, <1>3

LEMMA IdleType == Idle \in Steps
  <1>1. "idle" \in Labels /\ <<>> \in Seq(Ops)
    BY DEF Labels
  <1> QED
    BY <1>1 DEF Idle, Steps

\* A process at a label, with nothing to write.
LEMMA FreshFacts ==
    ASSUME Typed, NEW p \in Processes, NEW label \in Labels, NEW e \in Evolutions \cup {None},
           proc' = [proc EXCEPT ![p] = [Idle EXCEPT !.at = label, !.evo = e]]
    PROVE  /\ proc' \in [Processes -> Steps]
           /\ \A q \in Processes : q # p => proc'[q] = proc[q]
           /\ proc'[p].at = label /\ proc'[p].todo = <<>>
           /\ proc'[p].evo = e /\ proc'[p].copy = None
  <1> DEFINE n == [Idle EXCEPT !.at = label, !.evo = e]
  <1>1. proc \in [Processes -> Steps]
    BY DEF Typed
  <1>2. proc' = [proc EXCEPT ![p] = n]
    OBVIOUS
  <1>3. n.at = label /\ n.todo = <<>> /\ n.evo = e /\ n.copy = None
    BY DEF Idle
  <1>4. n \in Steps
    BY IdleType DEF Steps
  <1> HIDE DEF n
  <1> QED
    BY <1>1, <1>2, <1>3, <1>4

LEMMA IdleFacts ==
    ASSUME Typed, NEW p \in Processes, proc' = [proc EXCEPT ![p] = Idle]
    PROVE  /\ proc' \in [Processes -> Steps]
           /\ \A q \in Processes : q # p => proc'[q] = proc[q]
           /\ proc'[p].at = "idle" /\ proc'[p].todo = <<>> /\ proc'[p].copy = None
           /\ proc'[p].evo = None
  <1>1. Idle.at = "idle" /\ Idle.todo = <<>> /\ Idle.copy = None /\ Idle.evo = None
    BY DEF Idle
  <1> QED
    BY <1>1, IdleType DEF Typed

-----------------------------------------------------------------------------
(* A process while another one steps *)

\* What a step may do to the evolution that another process has in hand.
Harmless(q) ==
    LET e == proc[q].evo
    IN  \/ evolution'[e] = evolution[e]
        \/ evolution'[e].status = "Failed"
        \/ evolution'[e].built /\ ~ Starting(q) /\ ~ Editing(q)
        \/ /\ Starting(q) => evolution[e].status \notin {"Working", "Failed"}
           /\ ~ Editing(q) /\ ~ (Delivering(q) /\ (q = "loop" \/ exec = q))

LEMMA Aside ==
    ASSUME NEW q \in Tasks \cup {"loop"}, Staged(q), Harmless(q),
           proc'[q] = proc[q],
           q # "loop" /\ exec = q => exec' = q,
           delivered \subseteq delivered',
           proc[q].evo \in Evolutions =>
              \/ runs'[proc[q].evo] = runs[proc[q].evo]
              \/ runs[proc[q].evo] = 0 /\ runs'[proc[q].evo] = 1 /\ exec # q,
           Editing(q) /\ Retried(proc[q].evo)' => Retried(proc[q].evo)
    PROVE  Staged(q)'
  <1> DEFINE e == proc[q].evo
  <1>1. Holds(q)' /\ (Live(q)' <=> Live(q)) /\ Next1(q)' = Next1(q)
    <2>1. Next1(q)' = Next1(q)
      BY DEF Next1
    <2>2. Copies(q) => e \in Evolutions
      BY DEF Staged, Stage, Resting, Copies, Delivering, GivenUp, Starting, Editing
    <2> QED
      BY <2>1, <2>2 DEF Staged, Stage, Holds, Copies, Live, OnEvolution
  <1>2. CASE Resting(q)
    BY <1>1, <1>2 DEF Staged, Stage, Resting
  <1>3. CASE q # "loop" /\ GivenUp(q)
    BY <1>1, <1>3 DEF Staged, Stage, GivenUp
  <1>4. CASE q # "loop" /\ Starting(q)
    <2>1. e \in Evolutions /\ exec = q
      BY <1>4 DEF Staged, Stage, Starting
    <2>2. runs'[e] = 0 /\ exec' = q
      BY <1>4, <2>1 DEF Starting
    <2>3. \/ evolution'[e] = evolution[e] \/ evolution'[e].status = "Failed"
          \/ evolution[e].status \notin {"Working", "Failed"}
      BY <1>4 DEF Harmless
    <2>4. Starting(q)'
      BY <1>1, <1>4, <2>2, <2>3 DEF Starting
    <2> QED
      BY <1>1, <1>4, <2>4 DEF Staged, Stage
  <1>5. CASE q # "loop" /\ Editing(q)
    <2>1. e \in Evolutions /\ exec = q
      BY <1>5 DEF Staged, Stage, Editing
    <2>2. runs'[e] = 1 /\ exec' = q
      BY <1>5, <2>1 DEF Editing
    <2>3. evolution'[e] = evolution[e] \/ evolution'[e].status = "Failed"
      BY <1>5 DEF Harmless
    <2>4. Editing(q)'
      BY <1>1, <1>5, <2>2, <2>3 DEF Editing
    <2> QED
      BY <1>1, <1>5, <2>4 DEF Staged, Stage
  <1>6. ASSUME Delivering(q), q = "loop" \/ exec = q PROVE Delivering(q)'
    <2>1. e \in Evolutions
      BY <1>6 DEF Staged, Stage, Delivering
    <2>2. runs'[e] = 1
      BY <1>6, <2>1 DEF Delivering
    <2>3. evolution'[e].built \/ evolution'[e].status = "Failed"
      BY <1>6 DEF Harmless, Delivering
    <2>4. e \in delivered => e \in delivered'
      OBVIOUS
    <2> QED
      BY <1>1, <1>6, <2>2, <2>3, <2>4 DEF Delivering, Earned
  <1>7. CASE Delivering(q) /\ (q = "loop" \/ exec = q)
    BY <1>1, <1>6, <1>7 DEF Staged, Stage
  <1> QED
    BY <1>2, <1>3, <1>4, <1>5, <1>7 DEF Staged, Stage

\* A step of one process, of the sender or of recovery.
LEMMA StepKeeps ==
    ASSUME IInv, Typed', service' = "up", Adopting',
           NEW p \in Processes, p # "adopter" => Staged(p)',
           \A q \in Processes : q # p => proc'[q] = proc[q],
           \A q \in Tasks : q # p /\ exec = q => exec' = q,
           delivered \subseteq delivered',
           \A e \in Evolutions : Honest(e)',
           \A e \in Evolutions : \/ runs'[e] = runs[e]
                                 \/ runs[e] = 0 /\ runs'[e] = 1 /\ exec = p,
           \A q \in Tasks \cup {"loop"} : q # p => Harmless(q),
           \A q \in Tasks : q # p /\ Editing(q) /\ Retried(proc[q].evo)' => Retried(proc[q].evo)
    PROVE  IInv'
  <1>1. ASSUME NEW q \in Tasks \cup {"loop"} PROVE Staged(q)'
    <2>1. CASE q = p
      BY <1>1, <2>1, ConstantsAssumption
    <2>2. CASE q # p
      <3>1. Staged(q) /\ q \in Processes
        BY DEF IInv, Processes
      <3>2. Editing(q) /\ Retried(proc[q].evo)' => Retried(proc[q].evo)
        <4>1. CASE q \in Tasks
          BY <2>2, <4>1
        <4>2. CASE q = "loop"
          BY <2>2, <3>1, <4>2, ConstantsAssumption DEF Retried
        <4> QED
          BY <4>1, <4>2
      <3> QED
        BY <2>2, <3>1, <3>2, Aside
    <2> QED
      BY <2>1, <2>2
  <1> QED
    BY <1>1 DEF IInv

\* What is on disk stays honest while the harness does not start.
LEMMA HonestKept ==
    ASSUME NEW e \in Evolutions, Honest(e), evolution'[e] = evolution[e], runs'[e] = runs[e],
           delivered \subseteq delivered'
    PROVE  Honest(e)'
  BY DEF Honest, Earned

\* A step that leaves the evolutions and the harness alone.
LEMMA QuietKeeps ==
    ASSUME IInv, Typed', service' = "up", Adopting', UNCHANGED <<evolution, runs>>,
           NEW p \in Processes, p # "adopter" => Staged(p)',
           \A q \in Processes : q # p => proc'[q] = proc[q],
           \A q \in Tasks : q # p /\ exec = q => exec' = q,
           delivered \subseteq delivered',
           \A q \in Tasks : q # p /\ Editing(q) /\ Retried(proc[q].evo)' => Retried(proc[q].evo)
    PROVE  IInv'
  <1>1. \A e \in Evolutions : Honest(e)'
    BY HonestKept DEF IInv
  <1>2. \A q : Harmless(q)
    BY DEF Harmless
  <1> QED
    BY <1>1, <1>2, StepKeeps

-----------------------------------------------------------------------------
(* The control of the task and of the loop *)

LEMMA TypedStep ==
    ASSUME Typed, proc' \in [Processes -> Steps], exec' \in Tasks \cup {None},
           delivered' \subseteq Evolutions, UNCHANGED <<disk, service, answered, counters, runs>>
    PROVE  Typed'
  BY DEF Typed, disk, counters

\* A process goes on at a label.
LEMMA GoKeeps ==
    ASSUME IInv, service = "up", NEW p \in Tasks \cup {"loop"}, proc[p].at # "idle",
           GoesOn(p), Len(proc'[p].todo) <= 7, Stage(p)',
           UNCHANGED <<disk, service, answered, counters, runs>>,
           delivered \subseteq delivered', delivered' \subseteq Evolutions,
           exec' \in Tasks \cup {None},
           \A q \in Tasks : q # p /\ exec = q => exec' = q
    PROVE  IInv'
  <1>1. Typed /\ p \in Processes /\ p # "adopter" /\ "adopter" \in Processes
    BY ConstantsAssumption DEF IInv, Processes
  <1>2. Typed'
    BY <1>1, TypedStep DEF GoesOn
  <1>3. Staged(p)'
    BY DEF IInv, Staged, Holds, Copies, GoesOn
  <1>4. Adopting'
    BY <1>1 DEF IInv, Adopting, GoesOn
  <1>5. \A q \in Tasks : q # p /\ Editing(q) /\ Retried(proc[q].evo)' => Retried(proc[q].evo)
    BY <1>1 DEF Retried, Processes, GoesOn
  <1>6. UNCHANGED <<evolution, runs>> /\ service' = "up"
    BY DEF disk
  <1>7. \A q \in Processes : q # p => proc'[q] = proc[q]
    BY DEF GoesOn
  <1> QED
    BY <1>1, <1>2, <1>3, <1>4, <1>5, <1>6, <1>7, QuietKeeps

\* spawn_evolution gives the lock back and records the failure.
LEMMA ErrorKeeps ==
    ASSUME IInv, service = "up", NEW t \in Tasks, proc[t].at # "idle", TaskError(t),
           UNCHANGED <<disk, service, answered, counters, runs>>,
           delivered \subseteq delivered', delivered' \subseteq Evolutions
    PROVE  IInv'
  <1>1. /\ Fail \in Seq(Ops) /\ Fail \in Seq(FailOps) /\ Len(Fail) <= 7
        /\ "finish" \in Labels
    BY PlanFacts, OpSets DEF Labels
  <1>2. GoesOn(t) /\ proc'[t].at = "finish" /\ proc'[t].todo = Fail
    BY <1>1, GoFacts DEF TaskError, IInv, Processes
  <1>3. /\ exec' \in Tasks \cup {None}
        /\ \A q \in Tasks : q # t /\ exec = q => exec' = q
    BY DEF TaskError, IInv, Typed
  <1>4. Stage(t)'
    BY <1>1, <1>2, ConstantsAssumption DEF Stage, GivenUp
  <1> QED
    BY <1>1, <1>2, <1>3, <1>4, GoKeeps

\* A process goes back to rest.
LEMMA RestKeeps ==
    ASSUME IInv, service = "up", NEW p \in Tasks \cup {"loop"}, proc' = [proc EXCEPT ![p] = Idle],
           UNCHANGED <<disk, service, delivered, answered, counters, runs>>,
           exec' \in Tasks \cup {None},
           \A q \in Tasks : q # p /\ exec = q => exec' = q
    PROVE  IInv'
  <1>1. Typed /\ p \in Processes /\ p # "adopter" /\ "adopter" \in Processes
    BY ConstantsAssumption DEF IInv, Processes
  <1>2. /\ proc' \in [Processes -> Steps]
        /\ \A q \in Processes : q # p => proc'[q] = proc[q]
        /\ proc'[p].at = "idle" /\ proc'[p].todo = <<>> /\ proc'[p].copy = None
    BY <1>1, IdleFacts
  <1>3. Typed'
    BY <1>1, <1>2, TypedStep DEF Typed
  <1>4. Staged(p)'
    <2>1. Resting(p)' /\ Holds(p)'
      BY <1>2 DEF Resting, Holds, Copies
    <2>2. Len(proc'[p].todo) <= 7
      BY <1>2, PlanFacts
    <2> QED
      BY <1>2, <2>1, <2>2 DEF Staged, Stage
  <1>5. Adopting'
    BY <1>1, <1>2 DEF IInv, Adopting
  <1>6. \A q \in Tasks : q # p /\ Editing(q) /\ Retried(proc[q].evo)' => Retried(proc[q].evo)
    BY <1>1, <1>2 DEF Retried, Processes
  <1>7. UNCHANGED <<evolution, runs>> /\ service' = "up" /\ delivered \subseteq delivered'
    BY DEF disk
  <1> QED
    BY <1>1, <1>2, <1>3, <1>4, <1>5, <1>6, <1>7, QuietKeeps

\* An error of either.
LEMMA AnyErrorKeeps ==
    ASSUME IInv, service = "up", NEW p \in Tasks \cup {"loop"}, proc[p].at # "idle", Error(p),
           UNCHANGED <<disk, service, delivered, answered, counters, runs>>
    PROVE  IInv'
  <1>1. delivered' \subseteq Evolutions /\ exec \in Tasks \cup {None}
    BY DEF IInv, Typed
  <1>2. CASE p \in Tasks /\ TaskError(p)
    BY <1>1, <1>2, ErrorKeeps
  <1>3. CASE p = "loop" /\ proc' = [proc EXCEPT ![p] = Idle] /\ UNCHANGED exec
    BY <1>1, <1>3, RestKeeps
  <1> QED
    BY <1>2, <1>3 DEF Error

-----------------------------------------------------------------------------
(* run_evolution *)

\* What a process that is at a label may rely on.
LEMMA AtFacts ==
    ASSUME IInv, NEW p \in Tasks \cup {"loop"}, NEW label, At(p, label), label # "idle"
    PROVE  /\ service = "up" /\ proc[p].at = label /\ proc[p].todo = <<>> /\ proc[p].at # "idle"
           /\ p \in Processes /\ Typed /\ Stage(p) /\ proc[p].evo \in Evolutions
           /\ exec \in Tasks \cup {None} /\ delivered \subseteq Evolutions
           /\ p \in Tasks => p # "loop"
  BY ConstantsAssumption DEF At, IInv, Staged, Typed, Processes

LEMMA TakeLockKeeps ==
    ASSUME IInv, NEW t \in Tasks, TakeLock(t)
    PROVE  IInv'
  <1> DEFINE e == proc[t].evo
  <1>1. At(t, "lock") /\ exec = None
    BY DEF TakeLock
  <1>2. /\ service = "up" /\ proc[t].at = "lock" /\ e \in Evolutions /\ Typed /\ t \in Processes
        /\ proc[t].at # "idle" /\ t # "loop" /\ delivered \subseteq Evolutions
    BY <1>1, AtFacts
  <1>3. UNCHANGED <<disk, service, delivered, answered, counters, runs>>
    BY DEF TakeLock, ElseSame
  <1>4. ASSUME evolution[e].status \in Resumable, exec' = t, GoesOn(t),
               proc'[t].at = "start", proc'[t].todo \in Seq(StartOps), Len(proc'[t].todo) <= 7
        PROVE  IInv'
    <2>1. runs[e] = 0
      BY <1>2, <1>4 DEF IInv, Honest
    <2>2. Stage(t)'
      BY <1>2, <1>3, <1>4, <2>1 DEF Stage, Starting, GoesOn
    <2>3. /\ exec' \in Tasks \cup {None}
          /\ \A q \in Tasks : q # t /\ exec = q => exec' = q
      BY <1>1, <1>4, ConstantsAssumption
    <2> QED
      BY <1>2, <1>3, <1>4, <2>2, <2>3, GoKeeps
  <1>5. CASE /\ evolution[e].status = "Queued" /\ exec' = t
             /\ Go(t, Set("Received"), "start")
    <2>1. /\ Set("Received") \in Seq(StartOps) /\ Set("Received") \in Seq(Ops)
          /\ Len(Set("Received")) <= 7 /\ "start" \in Labels
      BY PlanFacts, SetFacts, OpSets DEF Labels
    <2>2. GoesOn(t) /\ proc'[t].at = "start" /\ proc'[t].todo = Set("Received")
      BY <1>2, <1>5, <2>1, GoFacts
    <2>3. Len(proc'[t].todo) <= 7
      BY <2>1, <2>2
    <2> QED
      BY <1>4, <1>5, <2>1, <2>2, <2>3 DEF Resumable
  <1>6. CASE /\ evolution[e].status = "Received" /\ exec' = t
             /\ Go(t, <<>>, "start")
    <2>1. <<>> \in Seq(StartOps) /\ <<>> \in Seq(Ops) /\ Len(<<>>) <= 7 /\ "start" \in Labels
      BY DEF Labels
    <2>2. GoesOn(t) /\ proc'[t].at = "start" /\ proc'[t].todo = <<>>
      BY <1>2, <1>6, <2>1, GoFacts
    <2> QED
      BY <1>4, <1>6, <2>1, <2>2 DEF Resumable
  <1>7. CASE TaskError(t)
    BY <1>2, <1>3, <1>7, ErrorKeeps
  <1> QED
    BY <1>5, <1>6, <1>7 DEF TakeLock

LEMMA StartKeeps ==
    ASSUME IInv, NEW t \in Tasks, Start(t)
    PROVE  IInv'
  <1> DEFINE e == proc[t].evo
  <1>1. At(t, "start")
    BY DEF Start
  <1>2. /\ service = "up" /\ proc[t].at = "start" /\ e \in Evolutions /\ Typed /\ t \in Processes
        /\ proc[t].at # "idle" /\ t # "loop" /\ delivered \subseteq Evolutions /\ Stage(t)
        /\ exec \in Tasks \cup {None}
    BY <1>1, AtFacts
  <1>3. UNCHANGED <<disk, service, delivered, answered, counters, runs>>
    BY DEF Start, ElseSame
  <1>4. Starting(t)
    BY <1>2 DEF Stage, Resting, GivenUp, Editing, Delivering
  <1>5. ASSUME Go(t, Set("Working"), "packet"), UNCHANGED exec PROVE IInv'
    <2>1. /\ Set("Working") \in Seq(StartOps) /\ Set("Working") \in Seq(Ops)
          /\ Len(Set("Working")) <= 7 /\ "packet" \in Labels
          /\ Set("Working") \in Seq(PacketOps)
      BY PlanFacts, SetFacts, OpSets DEF Labels
    <2>2. Set("Working") # <<>> /\ Head(Set("Working")) = Op("move", "Working")
      BY SetFacts
    <2>3. GoesOn(t) /\ proc'[t].at = "packet" /\ proc'[t].todo = Set("Working")
      BY <1>2, <1>5, <2>1, GoFacts
    <2>4. Starting(t)'
      BY <1>3, <1>4, <1>5, <2>1, <2>2, <2>3 DEF Starting, Next1, Op, GoesOn
    <2>5. Stage(t)'
      BY <1>2, <2>4 DEF Stage
    <2>6. Len(proc'[t].todo) <= 7
      BY <2>1, <2>3
    <2> QED
      BY <1>2, <1>3, <1>5, <2>3, <2>5, <2>6, GoKeeps
  <1>6. CASE TaskError(t)
    BY <1>2, <1>3, <1>6, ErrorKeeps
  <1> QED
    BY <1>5, <1>6 DEF Start

\* The harness starts for the first time: nobody else had the evolution in hand.
LEMMA StartHarnessKeeps ==
    ASSUME IInv, NEW t \in Tasks, StartHarness(t)
    PROVE  IInv'
  <1>1. PICK e : e = proc[t].evo
    OBVIOUS
  <1>2. At(t, "packet")
    BY DEF StartHarness
  <1>3. /\ service = "up" /\ proc[t].at = "packet" /\ e \in Evolutions /\ Typed /\ t \in Processes
        /\ proc[t].at # "idle" /\ t # "loop" /\ delivered \subseteq Evolutions /\ Stage(t)
        /\ exec \in Tasks \cup {None} /\ proc[t].todo = <<>>
    BY <1>1, <1>2, AtFacts
  <1>4. UNCHANGED <<disk, service, delivered, answered, counters>>
    BY DEF StartHarness
  <1>5. Starting(t)
    BY <1>3 DEF Stage, Resting, GivenUp, Editing, Delivering
  <1>6. ASSUME Go(t, <<>>, "harness"), runs' = [runs EXCEPT ![e] = @ + 1], UNCHANGED exec
        PROVE  IInv'
    <2>1. <<>> \in Seq(Ops) /\ <<>> \in Seq(EditOps) /\ "harness" \in Labels /\ Len(<<>>) = 0
      BY PlanFacts, OpSets DEF Labels
    <2>2. /\ proc' \in [Processes -> Steps]
          /\ \A q \in Processes : q # t => proc'[q] = proc[q]
          /\ proc'[t].at = "harness" /\ proc'[t].todo = <<>> /\ proc'[t].evo = e
          /\ proc'[t].copy = None
      BY <1>1, <1>3, <1>6, <2>1, GoFacts DEF GoesOn
    <2>3. /\ runs[e] = 0 /\ exec = t /\ evolution[e].status \in {"Working", "Failed"}
      BY <1>1, <1>3, <1>5 DEF Starting
    <2>4. /\ runs' \in [Evolutions -> Nat] /\ runs'[e] = 1
          /\ \A x \in Evolutions : x # e => runs'[x] = runs[x]
      BY <1>3, <1>6, <2>3 DEF Typed
    <2>5. Typed'
      BY <1>3, <1>4, <1>6, <2>2, <2>4 DEF Typed, disk, counters
    <2>6. "loop" \in Processes /\ "adopter" \in Processes /\ "adopter" # t
      BY <1>3, ConstantsAssumption DEF Processes
    <2>7. ~ Retried(e)
      <3>1. Staged("loop")
        BY DEF IInv
      <3> QED
        BY <2>3, <3>1 DEF Retried, Staged, Stage, Resting, Delivering, Starting, Editing
    <2>8. Staged(t)'
      <3>1. ~ Retried(e)'
        BY <1>3, <2>2, <2>6, <2>7 DEF Retried
      <3>2. Editing(t)'
        BY <1>4, <1>6, <2>1, <2>2, <2>3, <2>4, <3>1 DEF Editing, Live, Copies, disk
      <3>3. Holds(t)'
        BY <2>2 DEF Holds, Copies
      <3>4. Len(proc'[t].todo) <= 7
        BY <2>1, <2>2
      <3> QED
        BY <1>3, <2>2, <3>2, <3>3, <3>4 DEF Staged, Stage
    <2>9. \A x \in Evolutions : Honest(x)'
      <3>1. Honest(e)'
        BY <1>3, <1>4, <2>3, <2>4 DEF IInv, Honest, Earned, disk, Resumable
      <3>2. ASSUME NEW x \in Evolutions, x # e PROVE Honest(x)'
        BY <1>4, <2>4, <3>2, HonestKept DEF IInv, disk
      <3> QED
        BY <3>1, <3>2
    <2>10. Adopting'
      BY <2>2, <2>6 DEF IInv, Adopting
    <2>11. \A q : Harmless(q)
      BY <1>4 DEF Harmless, disk
    <2>12. \A q \in Tasks : q # t /\ Editing(q) /\ Retried(proc[q].evo)' => Retried(proc[q].evo)
      BY <1>3, <2>2, <2>6 DEF Retried, Processes
    <2> QED
      BY <1>3, <1>4, <1>6, <2>2, <2>3, <2>4, <2>5, <2>8, <2>9, <2>10, <2>11, <2>12, StepKeeps
  <1>7. CASE TaskError(t) /\ UNCHANGED runs
    BY <1>3, <1>4, <1>7, ErrorKeeps
  <1> QED
    BY <1>1, <1>6, <1>7 DEF StartHarness

LEMMA Joined ==
    ASSUME NEW S, NEW s \in Seq(S), NEW r \in Seq(S)
    PROVE  s \o r \in Seq(S) /\ Len(s \o r) = Len(s) + Len(r)
  BY ConcatProperties, Zenon

LEMMA HeadJoined ==
    ASSUME NEW S, NEW s \in Seq(S), NEW r \in Seq(S), s # <<>>
    PROVE  s \o r # <<>> /\ Head(s \o r) = Head(s)
  <1>1. /\ s \o r \in Seq(S) /\ Len(s \o r) = Len(s) + Len(r)
        /\ \A i \in 1 .. Len(s) + Len(r) :
              (s \o r)[i] = IF i <= Len(s) THEN s[i] ELSE r[i - Len(s)]
    BY ConcatProperties, Zenon
  <1>2. Len(s) \in Nat \ {0} /\ Len(r) \in Nat
    OBVIOUS
  <1>3. (s \o r)[1] = s[1]
    BY <1>1, <1>2
  <1>4. PICK q : q = s \o r
    OBVIOUS
  <1>5. q \in Seq(S) /\ Len(q) # 0 /\ q[1] = s[1]
    BY <1>1, <1>2, <1>3, <1>4
  <1>6. q # <<>> /\ Head(q) = Head(s)
    BY <1>5
  <1> QED
    BY <1>4, <1>6

\* The longer sequences of updates.
LEMMA PlanTypes ==
    /\ Note \o Set("Building") \in Seq(EditOps) /\ Len(Note \o Set("Building")) <= 7
    /\ Note \o Fail \in Seq(EditOps) /\ Len(Note \o Fail) <= 7
    /\ Built \o Save \in Seq(EditOps) /\ Len(Built \o Save) <= 7
    /\ Built \o Save # <<>> /\ Head(Built \o Save) = Op("built", None)
    /\ Built \o Save \in Seq(DeliverOps)
    /\ ReadyToInstall \in Seq(DeliverOps) /\ Len(ReadyToInstall) <= 7
    /\ WaitingForUser \in Seq(DeliverOps) /\ Len(WaitingForUser) <= 7
    /\ Set("Installing") \in Seq(DeliverOps) /\ Len(Set("Installing")) <= 7
    /\ Try \o ReadyToInstall \in Seq(DeliverOps) /\ Len(Try \o ReadyToInstall) <= 7
    /\ Try \o Fail \in Seq(DeliverOps) /\ Len(Try \o Fail) <= 7
    /\ CompleteInstallation \in Seq(DeliverOps \cup ReportOps) /\ Len(CompleteInstallation) <= 7
  <1>1. PICK note, built, try, fail, save, building, ready, user, installing, installed, completed :
           /\ note = Note /\ built = Built /\ try = Try /\ fail = Fail /\ save = Save
           /\ building = Set("Building") /\ ready = Set("ReadyToInstall")
           /\ user = Set("WaitingForUserAction") /\ installing = Set("Installing")
           /\ installed = Set("Installed") /\ completed = Set("Completed")
    OBVIOUS
  <1>2. /\ note \in Seq(EditOps) /\ built \in Seq(EditOps) /\ building \in Seq(EditOps)
        /\ fail \in Seq(EditOps) /\ save \in Seq(EditOps)
    BY <1>1, PlanFacts, OpSets
  <1>3. /\ note \in Seq(DeliverOps) /\ try \in Seq(DeliverOps) /\ ready \in Seq(DeliverOps)
        /\ user \in Seq(DeliverOps) /\ installing \in Seq(DeliverOps)
        /\ fail \in Seq(DeliverOps) /\ save \in Seq(DeliverOps) /\ built \in Seq(DeliverOps)
    BY <1>1, PlanFacts, OpSets DEF Waiting
  <1>4. /\ Len(note) = 1 /\ Len(built) = 1 /\ Len(try) = 1 /\ Len(fail) = 2 /\ Len(save) = 1
        /\ built # <<>> /\ Head(built) = Op("built", None)
    BY <1>1, PlanFacts
  <1>5. /\ Len(building) = 2 /\ Len(ready) = 2 /\ Len(user) = 2 /\ Len(installing) = 2
        /\ Len(installed) = 2 /\ Len(completed) = 2
    BY <1>1, SetFacts
  <1>6. note \o building \in Seq(EditOps) /\ Len(note \o building) <= 7
    <2>1. /\ note \o building \in Seq(EditOps) /\ Len(note \o building) = Len(note) + Len(building)
      BY <1>2, <1>4, <1>5, Joined, Zenon
    <2> QED
      BY <1>2, <1>4, <1>5, <2>1
  <1>7. note \o fail \in Seq(EditOps) /\ Len(note \o fail) <= 7
    <2>1. /\ note \o fail \in Seq(EditOps) /\ Len(note \o fail) = Len(note) + Len(fail)
      BY <1>2, <1>4, Joined, Zenon
    <2> QED
      BY <1>2, <1>4, <2>1
  <1>8. /\ built \o save \in Seq(EditOps) /\ built \o save \in Seq(DeliverOps)
        /\ Len(built \o save) <= 7
    <2>1. /\ built \o save \in Seq(EditOps) /\ Len(built \o save) = Len(built) + Len(save)
          /\ built \o save \in Seq(DeliverOps) /\ Len(built \o save) = Len(built) + Len(save)
      BY <1>2, <1>3, <1>4, Joined, Zenon
    <2> QED
      BY <1>2, <1>3, <1>4, <2>1
  <1>9. built \o save # <<>> /\ Head(built \o save) = Op("built", None)
    BY <1>2, <1>4, HeadJoined
  <1>10. /\ ready \o note \in Seq(DeliverOps) /\ Len(ready \o note) = 3
         /\ user \o note \in Seq(DeliverOps) /\ Len(user \o note) = 3
    <2>1. /\ ready \o note \in Seq(DeliverOps) /\ Len(ready \o note) = Len(ready) + Len(note)
          /\ user \o note \in Seq(DeliverOps) /\ Len(user \o note) = Len(user) + Len(note)
      BY <1>3, <1>4, <1>5, Joined, Zenon
    <2> QED
      BY <1>3, <1>4, <1>5, <2>1
  <1>11. PICK waits : waits = ready \o note
    OBVIOUS
  <1>12. try \o waits \in Seq(DeliverOps) /\ Len(try \o waits) <= 7
    <2>1. /\ try \o waits \in Seq(DeliverOps) /\ Len(try \o waits) = Len(try) + Len(waits)
      BY <1>3, <1>4, <1>10, <1>11, Joined, Zenon
    <2> QED
      BY <1>3, <1>4, <1>10, <1>11, <2>1
  <1>13. try \o fail \in Seq(DeliverOps) /\ Len(try \o fail) <= 7
    <2>1. /\ try \o fail \in Seq(DeliverOps) /\ Len(try \o fail) = Len(try) + Len(fail)
      BY <1>3, <1>4, Joined, Zenon
    <2> QED
      BY <1>3, <1>4, <2>1
  <1>14. /\ CompleteInstallation \in Seq(DeliverOps \cup ReportOps)
         /\ Len(CompleteInstallation) <= 7
    <2>1. PICK S : S = DeliverOps \cup ReportOps
      OBVIOUS
    <2>2. /\ try \in Seq(S) /\ note \in Seq(S) /\ save \in Seq(S)
          /\ installed \in Seq(S) /\ completed \in Seq(S)
      BY <1>1, <1>3, <2>1, PlanFacts, OpSets
    <2>3. PICK a : a = try \o installed
      OBVIOUS
    <2>4. a \in Seq(S) /\ Len(a) = 3
      <3>1. /\ try \o installed \in Seq(S) /\ Len(try \o installed) = Len(try) + Len(installed)
        BY <1>4, <1>5, <2>2, Joined, Zenon
      <3> QED
        BY <1>4, <1>5, <2>2, <3>1, <2>3
    <2>5. PICK b : b = a \o save
      OBVIOUS
    <2>6. b \in Seq(S) /\ Len(b) = 4
      <3>1. /\ a \o save \in Seq(S) /\ Len(a \o save) = Len(a) + Len(save)
        BY <1>4, <2>2, <2>4, Joined, Zenon
      <3> QED
        BY <1>4, <2>2, <2>4, <3>1, <2>5
    <2>7. PICK c : c = b \o note
      OBVIOUS
    <2>8. c \in Seq(S) /\ Len(c) = 5
      <3>1. /\ b \o note \in Seq(S) /\ Len(b \o note) = Len(b) + Len(note)
        BY <1>4, <2>2, <2>6, Joined, Zenon
      <3> QED
        BY <1>4, <2>2, <2>6, <3>1, <2>7
    <2>9. PICK d : d = c \o completed
      OBVIOUS
    <2>10. d \in Seq(S) /\ Len(d) = 7
      <3>1. /\ c \o completed \in Seq(S) /\ Len(c \o completed) = Len(c) + Len(completed)
        BY <1>5, <2>2, <2>8, Joined, Zenon
      <3> QED
        BY <1>5, <2>2, <2>8, <3>1, <2>9
    <2>11. CompleteInstallation = d
      BY <1>1, <2>3, <2>5, <2>7, <2>9, Zenon DEF CompleteInstallation
    <2>12. Len(d) <= 7
      BY <2>10
    <2> QED
      BY <2>1, <2>10, <2>11, <2>12
  <1>15. ReadyToInstall = waits /\ WaitingForUser = user \o note /\ Len(waits) <= 7
         /\ Len(user \o note) <= 7 /\ Len(installing) <= 7
    BY <1>1, <1>5, <1>10, <1>11 DEF ReadyToInstall, WaitingForUser
  <1> QED
    BY <1>1, <1>3, <1>6, <1>7, <1>8, <1>9, <1>10, <1>11, <1>12, <1>13, <1>14, <1>15, Zenon

\* The task goes on between the harness and the signed app.
LEMMA EditKeeps ==
    ASSUME IInv, NEW t \in Tasks, service = "up", Editing(t), proc[t].at # "idle",
           NEW todo \in Seq(EditOps), Len(todo) <= 7,
           NEW label \in {"tests", "build", "inventory", "finish"},
           label = "inventory"
              => todo # <<>> /\ Head(todo).kind = "built" /\ todo \in Seq(DeliverOps),
           Go(t, todo, label),
           UNCHANGED <<exec, disk, service, delivered, answered, counters, runs>>
    PROVE  IInv'
  <1>1. Typed /\ t \in Processes /\ t # "loop" /\ "loop" \in Processes
    BY ConstantsAssumption DEF IInv, Processes
  <1>2. todo \in Seq(Ops) /\ label \in Labels
    BY OpSets DEF Labels
  <1>3. GoesOn(t) /\ proc'[t].at = label /\ proc'[t].todo = todo
    BY <1>1, <1>2, GoFacts
  <1>4. Retried(proc[t].evo)' <=> Retried(proc[t].evo)
    BY <1>1, <1>3 DEF Retried, GoesOn
  <1>5. Editing(t)'
    BY <1>3, <1>4 DEF Editing, Live, Copies, Next1, GoesOn, disk
  <1>6. Stage(t)'
    BY <1>1, <1>5 DEF Stage
  <1>7. exec' \in Tasks \cup {None} /\ delivered \subseteq Evolutions
    BY <1>1 DEF Typed
  <1> QED
    BY <1>3, <1>6, <1>7, GoKeeps

\* A process goes on from the signed app.
LEMMA DeliverKeeps ==
    ASSUME IInv, NEW p \in Tasks \cup {"loop"}, service = "up", Delivering(p), proc[p].at # "idle",
           p # "loop" => exec = p,
           NEW todo \in Seq(DeliverOps \cup ReportOps), Len(todo) <= 7,
           todo \in Seq(DeliverOps) \/ proc[p].evo \in delivered',
           NEW label \in {"install", "finish"}, Go(p, todo, label),
           UNCHANGED <<exec, disk, service, answered, counters, runs>>,
           delivered \subseteq delivered', delivered' \subseteq Evolutions
    PROVE  IInv'
  <1>1. Typed /\ p \in Processes
    BY DEF IInv, Processes
  <1>2. todo \in Seq(Ops) /\ label \in Labels
    BY OpSets DEF Labels
  <1>3. GoesOn(p) /\ proc'[p].at = label /\ proc'[p].todo = todo
    BY <1>1, <1>2, GoFacts
  <1>4. Delivering(p)'
    BY <1>3 DEF Delivering, Live, Copies, GoesOn, disk
  <1>5. Stage(p)'
    BY <1>4 DEF Stage
  <1>6. exec' \in Tasks \cup {None} /\ \A q \in Tasks : exec = q => exec' = q
    BY <1>1 DEF Typed
  <1> QED
    BY <1>3, <1>5, <1>6, GoKeeps

\* A task at one of these labels is between the harness and the signed app.
LEMMA EditingAt ==
    ASSUME IInv, NEW t \in Tasks, NEW label \in {"harness", "tests", "build"}, At(t, label)
    PROVE  Editing(t)
  <1>1. t # "loop" /\ Stage(t) /\ proc[t].at = label
    BY AtFacts
  <1> QED
    BY <1>1 DEF Stage, Resting, GivenUp, Starting, Delivering

LEMMA RunHarnessKeeps ==
    ASSUME IInv, NEW t \in Tasks, RunHarness(t)
    PROVE  IInv'
  <1>1. At(t, "harness") /\ UNCHANGED <<disk, service, delivered, answered, counters, runs>>
    BY DEF RunHarness, ElseSame
  <1>2. service = "up" /\ proc[t].at # "idle" /\ delivered \subseteq Evolutions /\ Editing(t)
    BY <1>1, AtFacts, EditingAt
  <1>3. CASE Go(t, Note \o Set("Building"), "tests") /\ UNCHANGED exec
    BY <1>1, <1>2, <1>3, PlanTypes, EditKeeps
  <1>4. CASE TaskError(t)
    BY <1>1, <1>2, <1>4, ErrorKeeps
  <1> QED
    BY <1>3, <1>4 DEF RunHarness

LEMMA RunTestsKeeps ==
    ASSUME IInv, NEW t \in Tasks, RunTests(t)
    PROVE  IInv'
  <1>1. /\ At(t, "tests") /\ UNCHANGED <<disk, service, delivered, answered, counters, runs>>
        /\ UNCHANGED exec
    BY DEF RunTests, ElseSame
  <1>2. service = "up" /\ proc[t].at # "idle" /\ delivered \subseteq Evolutions /\ Editing(t)
    BY <1>1, AtFacts, EditingAt
  <1>3. CASE Go(t, Note \o Set("Building"), "build")
    BY <1>1, <1>2, <1>3, PlanTypes, EditKeeps
  <1>4. CASE Go(t, Note \o Fail, "finish")
    BY <1>1, <1>2, <1>4, PlanTypes, EditKeeps
  <1> QED
    BY <1>3, <1>4 DEF RunTests

LEMMA BuildKeeps ==
    ASSUME IInv, NEW t \in Tasks, Build(t)
    PROVE  IInv'
  <1>1. /\ At(t, "build") /\ UNCHANGED <<disk, service, delivered, answered, counters, runs>>
        /\ UNCHANGED exec
    BY DEF Build, ElseSame
  <1>2. service = "up" /\ proc[t].at # "idle" /\ delivered \subseteq Evolutions /\ Editing(t)
    BY <1>1, AtFacts, EditingAt
  <1>3. CASE Go(t, Built \o Save, "inventory")
    <2>1. Head(Built \o Save).kind = "built"
      BY PlanTypes DEF Op
    <2> QED
      BY <1>1, <1>2, <1>3, <2>1, PlanTypes, EditKeeps
  <1>4. CASE Go(t, Note \o Fail, "finish")
    BY <1>1, <1>2, <1>4, PlanTypes, EditKeeps
  <1> QED
    BY <1>3, <1>4 DEF Build

\* A process at one of these labels has a signed app.
LEMMA DeliveringAt ==
    ASSUME IInv, NEW p \in Tasks \cup {"loop"}, NEW label \in {"inventory", "install"}, At(p, label)
    PROVE  Delivering(p) /\ (p # "loop" => exec = p)
  <1>1. Stage(p) /\ proc[p].at = label /\ proc[p].todo = <<>>
    BY AtFacts
  <1> QED
    BY <1>1 DEF Stage, Resting, GivenUp, Starting, Editing

LEMMA InventoryKeeps ==
    ASSUME IInv, NEW p \in Tasks \cup {"loop"}, Inventory(p)
    PROVE  IInv'
  <1>1. At(p, "inventory") /\ UNCHANGED <<disk, service, delivered, answered, counters, runs>>
    BY DEF Inventory, ElseSame
  <1>2. /\ service = "up" /\ proc[p].at # "idle" /\ delivered \subseteq Evolutions
        /\ Delivering(p) /\ (p # "loop" => exec = p)
    BY <1>1, AtFacts, DeliveringAt
  <1>3. ASSUME NEW todo \in Seq(DeliverOps), Len(todo) <= 7, NEW label \in {"install", "finish"},
               Go(p, todo, label), UNCHANGED exec
        PROVE  IInv'
    <2>1. todo \in Seq(DeliverOps \cup ReportOps)
      BY OpSets
    <2> QED
      BY <1>1, <1>2, <1>3, <2>1, DeliverKeeps
  <1>4. CASE Go(p, Set("Installing"), "install") /\ UNCHANGED exec
    BY <1>3, <1>4, PlanTypes
  <1>5. CASE Go(p, ReadyToInstall, "finish") /\ UNCHANGED exec
    BY <1>3, <1>5, PlanTypes
  <1>6. CASE Go(p, WaitingForUser, "finish") /\ UNCHANGED exec
    BY <1>3, <1>6, PlanTypes
  <1>7. CASE Error(p)
    BY <1>1, <1>2, <1>7, AnyErrorKeeps
  <1> QED
    BY <1>4, <1>5, <1>6, <1>7 DEF Inventory

LEMMA InstallKeeps ==
    ASSUME IInv, NEW p \in Tasks \cup {"loop"}, Install(p)
    PROVE  IInv'
  <1>1. At(p, "install") /\ UNCHANGED <<exec, disk, service, answered, counters, runs>>
    BY DEF Install
  <1>2. /\ service = "up" /\ proc[p].at # "idle" /\ delivered \subseteq Evolutions
        /\ Delivering(p) /\ (p # "loop" => exec = p) /\ proc[p].evo \in Evolutions
    BY <1>1, AtFacts, DeliveringAt
  <1>3. CASE /\ delivered' = delivered \cup {proc[p].evo}
             /\ Go(p, CompleteInstallation, "finish")
    BY <1>1, <1>2, <1>3, PlanTypes, DeliverKeeps
  <1>4. ASSUME NEW todo \in Seq(DeliverOps), Len(todo) <= 7, Go(p, todo, "finish"),
               UNCHANGED delivered
        PROVE  IInv'
    <2>1. todo \in Seq(DeliverOps \cup ReportOps)
      BY OpSets
    <2> QED
      BY <1>1, <1>2, <1>4, <2>1, DeliverKeeps
  <1>5. CASE Go(p, Try \o ReadyToInstall, "finish") /\ UNCHANGED delivered
    BY <1>4, <1>5, PlanTypes
  <1>6. CASE Go(p, Try \o Fail, "finish") /\ UNCHANGED delivered
    BY <1>4, <1>6, PlanTypes
  <1> QED
    BY <1>3, <1>5, <1>6 DEF Install

LEMMA TimeoutKeeps ==
    ASSUME IInv, NEW t \in Tasks, Timeout(t)
    PROVE  IInv'
  <1>1. PICK label \in {"harness", "tests", "build", "inventory", "install"} : At(t, label)
    BY DEF Timeout
  <1>2. /\ service = "up" /\ proc[t].at # "idle" /\ delivered \subseteq Evolutions
        /\ proc[t].evo \in Evolutions
    BY <1>1, AtFacts
  <1>3. /\ TaskError(t) /\ UNCHANGED <<disk, service, answered, counters, runs>>
        /\ delivered' = delivered \/ delivered' = delivered \cup {proc[t].evo}
    BY DEF Timeout
  <1> QED
    BY <1>2, <1>3, ErrorKeeps

LEMMA FinishKeeps ==
    ASSUME IInv, NEW p \in Tasks \cup {"loop"}, Finish(p)
    PROVE  IInv'
  <1>1. /\ At(p, "finish") /\ UNCHANGED <<disk, service, delivered, answered, counters, runs>>
        /\ exec' = (IF exec = p THEN None ELSE exec) /\ proc' = [proc EXCEPT ![p] = Idle]
    BY DEF Finish, ElseSame
  <1>2. service = "up" /\ exec \in Tasks \cup {None}
    BY <1>1, AtFacts
  <1> QED
    BY <1>1, <1>2, RestKeeps

-----------------------------------------------------------------------------
(* Reading and writing records *)

LEMMA FailedIsFinal == \A s \in Statuses : TransitionAllowed("Failed", s) => s = "Failed"
  BY DEF TransitionAllowed, Successors, Statuses, Final, Waiting

\* A process with something to write.
LEMMA BusyFacts ==
    ASSUME IInv, NEW p \in Processes, service = "up", proc[p].todo # <<>>
    PROVE  /\ Typed /\ p \in Tasks \cup {"loop"} /\ Staged(p) /\ proc[p].evo \in Evolutions
           /\ proc[p].at # "idle" /\ ~ Resting(p) /\ proc[p].at \in Labels
           /\ proc[p].todo \in Seq(Ops)
           /\ exec \in Tasks \cup {None} /\ delivered \subseteq Evolutions
           /\ p \in Tasks => p # "loop" /\ "adopter" # p
  <1>1. p \in Tasks \cup {"loop"}
    BY DEF IInv, Adopting, Processes
  <1>2. Staged(p) /\ Typed
    BY <1>1 DEF IInv
  <1>3. proc[p] \in Steps
    BY <1>2 DEF Typed
  <1>4. ~ Resting(p)
    BY DEF Resting
  <1>5. proc[p].at # "idle"
    BY <1>2, <1>4 DEF Staged, Stage, Delivering, GivenUp, Starting, Editing
  <1> QED
    BY <1>1, <1>2, <1>3, <1>4, <1>5, ConstantsAssumption DEF Staged, Typed, Steps

\* The next update is one that the stage allows.
LEMMA NextFacts ==
    ASSUME NEW p, proc[p].todo # <<>>
    PROVE  \A S : proc[p].todo \in Seq(S)
              => /\ Next1(p) \in S /\ Tail(proc[p].todo) \in Seq(S)
                 /\ Len(Tail(proc[p].todo)) <= Len(proc[p].todo)
  <1> SUFFICES ASSUME NEW S, proc[p].todo \in Seq(S)
               PROVE  /\ Next1(p) \in S /\ Tail(proc[p].todo) \in Seq(S)
                      /\ Len(Tail(proc[p].todo)) <= Len(proc[p].todo)
    OBVIOUS
  <1>1. PICK s : s = proc[p].todo
    OBVIOUS
  <1>2. /\ Head(s) \in S /\ Tail(s) \in Seq(S) /\ Len(Tail(s)) = Len(s) - 1 /\ Len(s) \in Nat
    BY <1>1, HeadTailProperties
  <1> QED
    BY <1>1, <1>2 DEF Next1

LEMMA ReadEvolutionKeeps ==
    ASSUME IInv, NEW p \in Processes, ReadEvolution(p)
    PROVE  IInv'
  <1>1. PICK e : e = proc[p].evo
    OBVIOUS
  <1>2. /\ service = "up" /\ proc[p].todo # <<>> /\ proc[p].copy = None
        /\ OnEvolution(Next1(p))
        /\ UNCHANGED <<disk, service, delivered, answered, counters, runs>>
    BY DEF ReadEvolution, Reading
  <1>3. /\ Typed /\ p \in Tasks \cup {"loop"} /\ Staged(p) /\ e \in Evolutions
        /\ proc[p].at # "idle" /\ ~ Resting(p) /\ proc[p].at \in Labels
        /\ proc[p].todo \in Seq(Ops)
        /\ exec \in Tasks \cup {None} /\ delivered \subseteq Evolutions
        /\ p # "adopter"
    BY <1>1, <1>2, BusyFacts, ConstantsAssumption
  <1>4. PICK seen : seen = evolution[e]
    OBVIOUS
  <1>5. seen \in Records /\ Honest(e) /\ evolution'[e] = seen
    BY <1>2, <1>3, <1>4 DEF IInv, Typed, disk
  <1>6. ASSUME Next1(p).kind = "move" => TransitionAllowed(seen.status, Next1(p).to),
               proc' = [proc EXCEPT ![p].copy = seen], UNCHANGED exec
        PROVE  IInv'
    <2>1. /\ proc' \in [Processes -> Steps]
          /\ \A q \in Processes : q # p => proc'[q] = proc[q]
          /\ proc'[p].at = proc[p].at /\ proc'[p].todo = proc[p].todo
          /\ proc'[p].evo = e /\ proc'[p].copy = seen
      BY <1>1, <1>3, <1>5, <1>6, CopyFacts
    <2>2. Typed'
      BY <1>2, <1>3, <1>6, <2>1, TypedStep
    <2>3. Next1(p)' = Next1(p) /\ "loop" \in Processes
      BY <2>1 DEF Next1, Processes
    <2>4. Retried(e)' <=> Retried(e)
      BY <1>1, <2>1, <2>3 DEF Retried
    <2>5. Holds(p)'
      BY <1>2, <1>4, <1>5, <2>1, <2>3 DEF Holds, Honest, OnEvolution
    <2>6. ASSUME Starting(p) PROVE Starting(p)'
      BY <1>1, <1>2, <1>6, <2>1, <2>3, <2>6 DEF Starting, disk
    <2>7. ASSUME Editing(p) PROVE Editing(p)'
      BY <1>1, <1>2, <1>4, <1>5, <1>6, <2>1, <2>3, <2>4, <2>7 DEF Editing, disk, Retried
    <2>8. ASSUME Delivering(p) PROVE Delivering(p)'
      <3>1. /\ seen.status \notin Resumable \cup {"absent"} /\ Earned(e, seen)
            /\ seen.built \/ seen.status = "Failed"
        BY <1>1, <1>4, <1>5, <2>8 DEF Delivering, Honest
      <3>2. ASSUME Next1(p).kind = "move" PROVE seen.built
        <4>1. Next1(p).to \in Waiting \cup {"Installing", "Installed", "Completed"}
          BY <1>2, <2>8, <3>2, NextFacts, OpFacts DEF Delivering
        <4>2. Next1(p).to \in Statuses /\ Next1(p).to # "Failed"
          BY <4>1 DEF Statuses, Waiting
        <4> QED
          BY <1>6, <3>1, <3>2, <4>2, FailedIsFinal
      <3> QED
        BY <1>1, <1>2, <1>4, <1>5, <2>1, <2>3, <2>8, <3>1, <3>2 DEF Delivering, Earned, disk
    <2>9. Stage(p)'
      BY <1>3, <1>6, <2>1, <2>6, <2>7, <2>8 DEF Staged, Stage, GivenUp
    <2>10. Staged(p)'
      BY <1>1, <1>3, <2>1, <2>5, <2>9 DEF Staged
    <2>11. Adopting'
      BY <1>3, <2>1 DEF IInv, Adopting, Processes
    <2>12. \A q \in Tasks : q # p /\ Editing(q) /\ Retried(proc[q].evo)' => Retried(proc[q].evo)
      BY <1>1, <2>1, <2>3 DEF Retried, Processes
    <2> QED
      BY <1>2, <1>3, <1>6, <2>1, <2>2, <2>10, <2>11, <2>12, QuietKeeps DEF disk
  <1>7. CASE Error(p)
    BY <1>2, <1>3, <1>7, AnyErrorKeeps
  <1>8. ASSUME Next1(p).kind = "fail", seen.status = "Completed", Go(p, <<>>, proc[p].at),
               UNCHANGED exec
        PROVE  IInv'
    <2>1. PICK label : label = proc[p].at
      OBVIOUS
    <2>2. <<>> \in Seq(Ops) /\ Len(<<>>) <= 7 /\ \A S : <<>> \in Seq(S)
      OBVIOUS
    <2>3. GoesOn(p) /\ proc'[p].at = proc[p].at /\ proc'[p].todo = <<>>
      BY <1>3, <1>8, <2>1, <2>2, GoFacts
    <2>4. ~ Starting(p)
      BY <1>2, <1>8, NextFacts, OpFacts DEF Starting
    <2>5. ~ Editing(p)
      BY <1>1, <1>4, <1>8 DEF Editing
    <2>6. ASSUME Delivering(p) PROVE Delivering(p)'
      BY <1>1, <1>2, <1>4, <1>5, <2>2, <2>3, <2>6 DEF Delivering, GoesOn, Live, Copies, disk
    <2>7. Stage(p)'
      BY <1>3, <1>8, <2>2, <2>3, <2>4, <2>5, <2>6 DEF Staged, Stage, GivenUp
    <2> QED
      BY <1>2, <1>3, <1>8, <2>2, <2>3, <2>7, GoKeeps
  <1> QED
    BY <1>1, <1>4, <1>6, <1>7, <1>8 DEF ReadEvolution

\* What a write puts on disk.
LEMMA UpdateFacts ==
    ASSUME NEW c \in Records, NEW op,
           \/ op.kind = "move" /\ op.to \in Statuses
           \/ op.kind = "fail" /\ op.to = "Failed"
           \/ op.kind \in {"built", "try", "note"},
           UpdatedEvolution(c, op).tries <= MaxTries
    PROVE  /\ UpdatedEvolution(c, op) \in Records
           /\ op.kind \in {"move", "fail"}
                => /\ UpdatedEvolution(c, op).status = op.to
                   /\ UpdatedEvolution(c, op).built = c.built
           /\ op.kind \notin {"move", "fail"}
                => /\ UpdatedEvolution(c, op).status = c.status
                   /\ UpdatedEvolution(c, op).built = c.built \/ UpdatedEvolution(c, op).built = TRUE
           /\ op.kind = "built" => UpdatedEvolution(c, op).built
  <1>1. /\ c.status \in Statuses \cup {"absent"} /\ c.built \in BOOLEAN /\ c.tries \in 0 .. MaxTries
        /\ MaxTries \in Nat /\ "Failed" \in Statuses
    BY ConstantsAssumption DEF Records, Statuses
  <1>2. CASE op.kind = "move"
    <2>1. UpdatedEvolution(c, op) = [c EXCEPT !.status = op.to]
      BY <1>2 DEF UpdatedEvolution
    <2> QED
      BY <1>2, <2>1 DEF Records
  <1>3. CASE op.kind = "fail"
    <2>1. UpdatedEvolution(c, op) = [c EXCEPT !.status = op.to]
      BY <1>3 DEF UpdatedEvolution
    <2>2. op.to \in Statuses
      BY <1>1, <1>3
    <2> QED
      BY <1>3, <2>1, <2>2 DEF Records
  <1>4. CASE op.kind = "built"
    <2>1. UpdatedEvolution(c, op) = [c EXCEPT !.built = TRUE]
      BY <1>4 DEF UpdatedEvolution
    <2> QED
      BY <1>4, <2>1 DEF Records
  <1>5. CASE op.kind = "try"
    <2>1. PICK n : n = c.tries + 1
      OBVIOUS
    <2>2. UpdatedEvolution(c, op) = [c EXCEPT !.tries = n]
      BY <1>5, <2>1 DEF UpdatedEvolution
    <2>3. n <= MaxTries
      BY <2>2 DEF Records
    <2>4. n \in 0 .. MaxTries
      BY <1>1, <2>1, <2>3
    <2> QED
      BY <1>5, <2>2, <2>4 DEF Records
  <1>6. CASE op.kind = "note"
    <2>1. UpdatedEvolution(c, op) = c
      BY <1>6 DEF UpdatedEvolution
    <2> QED
      BY <1>6, <2>1
  <1> QED
    BY <1>2, <1>3, <1>4, <1>5, <1>6

LEMMA WriteEvolutionKeeps ==
    ASSUME IInv, NEW p \in Processes, WriteEvolution(p)
    PROVE  IInv'
  <1>1. PICK e, op, c, label :
           e = proc[p].evo /\ op = Next1(p) /\ c = proc[p].copy /\ label = proc[p].at
    OBVIOUS
  <1>2. /\ service = "up" /\ proc[p].todo # <<>> /\ c # None
        /\ OnEvolution(op)
        /\ UNCHANGED <<index, latest, service, delivered, answered, counters, runs>>
    BY <1>1 DEF WriteEvolution, Writing
  <1>3. /\ Typed /\ p \in Tasks \cup {"loop"} /\ Staged(p) /\ e \in Evolutions
        /\ label # "idle" /\ ~ Resting(p) /\ label \in Labels
        /\ proc[p].todo \in Seq(Ops)
        /\ exec \in Tasks \cup {None} /\ delivered \subseteq Evolutions
        /\ p # "adopter" /\ "loop" \in Processes /\ "adopter" \in Processes
    BY <1>1, <1>2, BusyFacts, ConstantsAssumption DEF Processes
  <1>4. c \in Records /\ Copies(p) /\ (runs[e] = 0 => ~ c.built)
    BY <1>1, <1>2, <1>3 DEF Staged, Holds, Copies
  <1>5. PICK new : new = UpdatedEvolution(c, op)
    OBVIOUS
  <1>6. ASSUME new.tries > MaxTries, Error(p), UNCHANGED evolution PROVE IInv'
    BY <1>1, <1>2, <1>3, <1>6, AnyErrorKeeps DEF disk
  <1>7. ASSUME new.tries <= MaxTries, evolution' = [evolution EXCEPT ![e] = new],
               Go(p, Tail(proc[p].todo), label), UNCHANGED exec
        PROVE  IInv'
    <2>1. PICK todo : todo = Tail(proc[p].todo)
      OBVIOUS
    <2>2. /\ \A S : proc[p].todo \in Seq(S) => op \in S /\ todo \in Seq(S)
          /\ todo \in Seq(Ops) /\ Len(todo) <= 7
      <3>1. /\ \A S : proc[p].todo \in Seq(S) => op \in S /\ todo \in Seq(S)
            /\ Len(todo) <= Len(proc[p].todo) /\ Len(proc[p].todo) \in Nat /\ Len(todo) \in Nat
        BY <1>1, <1>2, <1>3, <2>1, NextFacts
      <3> QED
        BY <1>3, <3>1 DEF Staged
    <2>3. /\ GoesOn(p) /\ proc'[p].at = label /\ proc'[p].todo = todo /\ proc'[p].evo = e
          /\ proc'[p].copy = None /\ \A q \in Processes : q # p => proc'[q] = proc[q]
      BY <1>1, <1>3, <1>7, <2>1, <2>2, GoFacts DEF GoesOn
    <2>4. op \in Ops /\ op \in FailOps \cup StartOps \cup EditOps \cup DeliverOps \cup ReportOps
      BY <1>3, <2>2 DEF Ops
    <2>5. \/ op.kind = "move" /\ op.to \in Statuses
          \/ op.kind = "fail" /\ op.to = "Failed"
          \/ op.kind \in {"built", "try", "note"}
      BY <1>2, <2>4, OpFacts DEF OnEvolution, Statuses, Waiting
    <2>6. /\ new \in Records
          /\ op.kind \in {"move", "fail"} => new.status = op.to /\ new.built = c.built
          /\ op.kind \notin {"move", "fail"}
               => new.status = c.status /\ (new.built = c.built \/ new.built = TRUE)
          /\ op.kind = "built" => new.built
      BY <1>4, <1>5, <1>7, <2>5, UpdateFacts
    <2>7. /\ evolution'[e] = new
          /\ \A x \in Evolutions : x # e => evolution'[x] = evolution[x]
      BY <1>3, <1>7 DEF Typed
    <2>8. Typed'
      BY <1>2, <1>3, <1>7, <2>3, <2>6 DEF Typed, GoesOn, counters
    <2>9. Holds(p)' /\ ~ Live(p)' /\ (Retried(e)' <=> Retried(e))
      BY <1>1, <1>3, <2>3 DEF Holds, Copies, Live, Retried
    <2>10. Adopting'
      BY <1>3, <2>3 DEF IInv, Adopting
    <2>11. \A q \in Tasks : q # p /\ Editing(q) /\ Retried(proc[q].evo)' => Retried(proc[q].evo)
      BY <1>1, <1>3, <2>3 DEF Retried, Processes
    <2>12. ASSUME Honest(e)', Stage(p)',
                  \A q \in Tasks \cup {"loop"} : q # p /\ proc[q].evo = e => Harmless(q)
           PROVE  IInv'
      <3>1. Staged(p)'
        BY <1>3, <2>2, <2>3, <2>9, <2>12 DEF Staged
      <3>2. ASSUME NEW x \in Evolutions PROVE Honest(x)'
        <4>1. CASE x = e
          BY <2>12, <4>1
        <4>2. CASE x # e
          BY <1>2, <2>7, <4>2, HonestKept DEF IInv
        <4> QED
          BY <4>1, <4>2
      <3>3. ASSUME NEW q \in Tasks \cup {"loop"}, q # p PROVE Harmless(q)
        <4>1. CASE proc[q].evo = e
          BY <2>12, <3>3, <4>1
        <4>2. CASE proc[q].evo # e /\ proc[q].evo \in Evolutions
          BY <2>7, <4>2 DEF Harmless
        <4>3. CASE proc[q].evo \notin Evolutions
          <5>1. Staged(q)
            BY DEF IInv
          <5> QED
            BY <4>3, <5>1 DEF Staged, Harmless, Starting, Editing, Delivering
        <4> QED
          BY <4>1, <4>2, <4>3
      <3> QED
        BY <1>2, <1>3, <1>7, <2>3, <2>8, <2>10, <2>11, <3>1, <3>2, <3>3, StepKeeps
    <2>13. CASE p # "loop" /\ GivenUp(p)
      <3>1. op.kind = "fail" /\ op.to = "Failed" /\ todo \in Seq(FailOps)
        BY <1>2, <2>2, <2>13, OpFacts DEF GivenUp, OnEvolution
      <3>2. new.status = "Failed" /\ (runs[e] = 0 => ~ new.built) /\ "Failed" \notin Resumable
        BY <1>4, <2>6, <3>1 DEF Resumable
      <3>3. runs[e] \in {0, 1}
        BY <1>3 DEF IInv, Honest
      <3>4. Honest(e)'
        BY <1>2, <2>7, <3>2, <3>3 DEF Honest, Earned, Waiting
      <3>5. Stage(p)'
        BY <1>1, <2>3, <2>13, <3>1 DEF Stage, GivenUp
      <3>6. \A q \in Tasks \cup {"loop"} : q # p /\ proc[q].evo = e => Harmless(q)
        BY <2>7, <3>2 DEF Harmless
      <3> QED
        BY <2>12, <3>4, <3>5, <3>6
    <2>14. CASE p # "loop" /\ Starting(p)
      <3>1. /\ op.kind = "move" /\ op.to \in {"Received", "Working"} /\ todo \in Seq(StartOps)
            /\ runs[e] = 0 /\ exec = p /\ label \in {"start", "packet"}
            /\ label = "packet" => op.to = "Working" /\ todo \in Seq(PacketOps)
        BY <1>1, <1>2, <2>2, <2>14, OpFacts DEF Starting, OnEvolution
      <3>2. new.status = op.to /\ ~ new.built
        BY <1>4, <2>6, <3>1
      <3>3. Honest(e)'
        BY <1>2, <2>7, <3>1, <3>2 DEF Honest, Earned, Waiting
      <3>4. Starting(p)'
        BY <1>2, <1>7, <2>3, <2>7, <3>1, <3>2 DEF Starting
      <3>5. Stage(p)'
        BY <2>14, <3>4 DEF Stage
      <3>6. ASSUME NEW q \in Tasks \cup {"loop"}, q # p, proc[q].evo = e PROVE Harmless(q)
        BY <3>1, <3>6 DEF Harmless, Starting, Editing, Delivering
      <3> QED
        BY <2>12, <3>3, <3>5, <3>6
    <2>15. CASE p # "loop" /\ Editing(p)
      <3>1. /\ op \in EditOps /\ todo \in Seq(EditOps) /\ exec = p /\ runs[e] = 1 /\ ~ Retried(e)
            /\ label \in {"harness", "tests", "build", "inventory", "finish"}
            /\ label = "inventory" => op.kind = "built" /\ todo \in Seq(DeliverOps)
            /\ op.kind # "fail" => c.status \in {"Working", "Building", "Failed"}
        BY <1>1, <1>2, <1>4, <2>2, <2>15 DEF Editing, Live
      <3>2. new.status \in {"Working", "Building", "Failed"}
        BY <1>2, <2>6, <3>1, OpFacts DEF OnEvolution
      <3>3. Honest(e)'
        BY <1>2, <2>7, <3>1, <3>2 DEF Honest, Earned, Waiting, Resumable
      <3>4. Stage(p)'
        <4>1. CASE label = "inventory"
          <5>1. todo \in Seq(DeliverOps \cup ReportOps) /\ todo \in Seq(DeliverOps) /\ new.built
            BY <2>6, <3>1, <4>1, OpSets
          <5>2. Delivering(p)'
            BY <1>2, <2>3, <2>7, <2>9, <3>1, <4>1, <5>1 DEF Delivering
          <5> QED
            BY <1>7, <2>15, <3>1, <5>2 DEF Stage
        <4>2. CASE label # "inventory"
          <5>1. ~ Retried(proc[p].evo)'
            BY <2>3, <2>9, <3>1 DEF Retried
          <5>2. Editing(p)'
            BY <1>2, <1>7, <2>3, <2>7, <2>9, <3>1, <3>2, <4>2, <5>1 DEF Editing
          <5> QED
            BY <2>15, <5>2 DEF Stage
        <4> QED
          BY <4>1, <4>2
      <3>5. ASSUME NEW q \in Tasks \cup {"loop"}, q # p, proc[q].evo = e PROVE Harmless(q)
        <4>1. q = "loop" => ~ Delivering(q)
          BY <3>1, <3>5 DEF Retried, Delivering
        <4> QED
          BY <3>1, <3>5, <4>1 DEF Harmless, Starting, Editing
      <3> QED
        BY <2>12, <3>3, <3>4, <3>5
    <2>16. CASE Delivering(p) /\ (p = "loop" \/ exec = p)
      <3>1. /\ op \in DeliverOps \cup ReportOps /\ todo \in Seq(DeliverOps \cup ReportOps)
            /\ (op \in DeliverOps /\ todo \in Seq(DeliverOps)) \/ e \in delivered
            /\ runs[e] = 1 /\ label \in {"inventory", "install", "finish"}
        BY <1>1, <2>2, <2>16 DEF Delivering
      <3>2. op.kind # "fail"
               => /\ c.status \notin Resumable \cup {"absent"} /\ Earned(e, c)
                  /\ c.built \/ c.status = "Failed"
                  /\ op.kind = "move" => c.built
        BY <1>1, <1>2, <1>4, <2>16 DEF Delivering, Live
      <3>3. /\ new.built \/ new.status = "Failed"
            /\ new.status \notin Resumable \cup {"absent"}
            /\ Earned(e, new)
        <4>1. CASE op.kind = "fail"
          BY <2>5, <2>6, <4>1 DEF Earned, Waiting, Resumable
        <4>2. CASE op.kind = "move"
          <5>1. new.built /\ new.status = op.to
            BY <2>6, <3>2, <4>2
          <5>2. /\ op.to \in Waiting \cup {"Installing", "Installed", "Completed"}
                /\ op.to \in {"Installed", "Completed"} => e \in delivered
            BY <3>1, <4>2, OpFacts DEF Waiting
          <5> QED
            BY <5>1, <5>2 DEF Earned, Resumable, Waiting
        <4>3. CASE op.kind \notin {"move", "fail"}
          BY <2>6, <3>2, <4>3 DEF Earned
        <4> QED
          BY <4>1, <4>2, <4>3
      <3>4. Honest(e)'
        BY <1>2, <2>7, <3>1, <3>3 DEF Honest, Earned
      <3>5. Delivering(p)'
        BY <1>2, <2>3, <2>7, <2>9, <3>1, <3>3 DEF Delivering
      <3>6. Stage(p)'
        BY <1>7, <2>16, <3>5 DEF Stage
      <3>7. ASSUME NEW q \in Tasks \cup {"loop"}, q # p, proc[q].evo = e PROVE Harmless(q)
        <4>1. ~ Starting(q)
          BY <3>1, <3>7 DEF Starting
        <4>2. ~ Editing(q)
          BY <1>1, <1>3, <2>16, <3>7 DEF Editing, Retried
        <4> QED
          BY <2>7, <3>3, <3>7, <4>1, <4>2 DEF Harmless
      <3> QED
        BY <2>12, <3>4, <3>6, <3>7
    <2> QED
      BY <1>3, <2>13, <2>14, <2>15, <2>16 DEF Staged, Stage
  <1> QED
    BY <1>1, <1>5, <1>6, <1>7 DEF WriteEvolution


LEMMA ReadProjectKeeps ==
    ASSUME IInv, NEW p \in Processes, ReadProject(p)
    PROVE  IInv'
  <1>1. PICK e, c : e = proc[p].evo /\ c = [link |-> latest]
    OBVIOUS
  <1>2. /\ service = "up" /\ proc[p].todo # <<>> /\ proc[p].copy = None
        /\ Next1(p).kind = "save"
        /\ proc' = [proc EXCEPT ![p].copy = c]
        /\ UNCHANGED <<disk, exec, service, delivered, answered, counters, runs>>
    BY <1>1 DEF ReadProject, Reading
  <1>3. /\ Typed /\ p \in Tasks \cup {"loop"} /\ Staged(p) /\ e \in Evolutions
        /\ proc[p].at # "idle" /\ ~ Resting(p) /\ proc[p].at \in Labels
        /\ proc[p].todo \in Seq(Ops)
        /\ exec \in Tasks \cup {None} /\ delivered \subseteq Evolutions
        /\ p # "adopter" /\ "loop" \in Processes /\ "adopter" \in Processes
    BY <1>1, <1>2, BusyFacts, ConstantsAssumption DEF Processes
  <1>4. c \in Links
    BY <1>1, <1>3 DEF Typed, Links
  <1>5. /\ proc' \in [Processes -> Steps]
        /\ \A q \in Processes : q # p => proc'[q] = proc[q]
        /\ proc'[p].at = proc[p].at /\ proc'[p].todo = proc[p].todo
        /\ proc'[p].evo = e /\ proc'[p].copy = c
    BY <1>1, <1>2, <1>3, <1>4, CopyFacts
  <1>6. Typed'
    BY <1>2, <1>3, <1>5, TypedStep
  <1>7. Next1(p)' = Next1(p)
    BY <1>5 DEF Next1
  <1>8. Retried(e)' <=> Retried(e)
    BY <1>1, <1>3, <1>5 DEF Retried
  <1>9. ~ OnEvolution(Next1(p)')
    BY <1>2, <1>7 DEF OnEvolution
  <1>10. ~ Live(p)' /\ Holds(p)'
    BY <1>2, <1>4, <1>5, <1>7, <1>9 DEF Live, Holds, Copies
  <1>11. ASSUME Starting(p) PROVE Starting(p)'
    BY <1>1, <1>2, <1>5, <1>7, <1>11 DEF Starting, disk
  <1>12. ASSUME Editing(p) PROVE Editing(p)'
    BY <1>1, <1>2, <1>5, <1>7, <1>8, <1>10, <1>12 DEF Editing, disk, Retried
  <1>13. ASSUME Delivering(p) PROVE Delivering(p)'
    BY <1>1, <1>2, <1>5, <1>7, <1>10, <1>13 DEF Delivering, disk
  <1>14. Stage(p)'
    BY <1>2, <1>3, <1>5, <1>11, <1>12, <1>13 DEF Staged, Stage, GivenUp
  <1>15. Staged(p)'
    BY <1>1, <1>3, <1>5, <1>10, <1>14 DEF Staged
  <1>16. Adopting'
    BY <1>3, <1>5 DEF IInv, Adopting
  <1>17. \A q \in Tasks : q # p /\ Editing(q) /\ Retried(proc[q].evo)' => Retried(proc[q].evo)
    BY <1>1, <1>3, <1>5 DEF Retried, Processes
  <1>18. UNCHANGED <<evolution, runs>> /\ service' = "up" /\ delivered \subseteq delivered'
    BY <1>2 DEF disk
  <1> QED
    BY <1>2, <1>3, <1>5, <1>6, <1>15, <1>16, <1>17, <1>18, QuietKeeps

LEMMA WriteProjectKeeps ==
    ASSUME IInv, NEW p \in Processes, WriteProject(p)
    PROVE  IInv'
  <1>1. PICK e, op, todo, label :
           /\ e = proc[p].evo /\ op = Next1(p) /\ todo = Tail(proc[p].todo)
           /\ label = proc[p].at
    OBVIOUS
  <1>2. /\ service = "up" /\ proc[p].todo # <<>>
        /\ \/ op.kind = "save" /\ proc[p].copy # None /\ latest' = proc[p].copy.link
           \/ op.kind = "link" /\ latest' = e
        /\ Go(p, todo, label)
        /\ UNCHANGED <<evolution, index, exec, service, delivered, answered, counters, runs>>
    BY <1>1 DEF WriteProject, Reading, Writing
  <1>3. /\ Typed /\ p \in Tasks \cup {"loop"} /\ Staged(p) /\ e \in Evolutions
        /\ label # "idle" /\ ~ Resting(p) /\ label \in Labels
        /\ proc[p].todo \in Seq(Ops)
        /\ exec \in Tasks \cup {None} /\ delivered \subseteq Evolutions
        /\ p # "adopter" /\ "loop" \in Processes /\ "adopter" \in Processes
    BY <1>1, <1>2, BusyFacts, ConstantsAssumption DEF Processes
  <1>4. latest' \in Evolutions \cup {None}
    <2>1. CASE op.kind = "save" /\ proc[p].copy # None /\ latest' = proc[p].copy.link
      <3>1. proc[p].copy \in Links
        BY <1>1, <1>3, <2>1 DEF Staged, Holds, Copies, OnEvolution
      <3> QED
        BY <2>1, <3>1 DEF Links
    <2> QED
      BY <1>2, <1>3, <2>1
  <1>5. /\ \A S : proc[p].todo \in Seq(S) => op \in S /\ todo \in Seq(S)
        /\ todo \in Seq(Ops) /\ Len(todo) <= 7
    <2>1. /\ \A S : proc[p].todo \in Seq(S) => op \in S /\ todo \in Seq(S)
          /\ Len(todo) <= Len(proc[p].todo) /\ Len(proc[p].todo) \in Nat /\ Len(todo) \in Nat
      BY <1>1, <1>2, <1>3, NextFacts
    <2> QED
      BY <1>3, <2>1 DEF Staged
  <1>6. /\ GoesOn(p) /\ proc'[p].at = label /\ proc'[p].todo = todo /\ proc'[p].evo = e
        /\ proc'[p].copy = None /\ \A q \in Processes : q # p => proc'[q] = proc[q]
    <2>1. Go(p, todo, label)
      BY <1>2
    <2>2. GoesOn(p) /\ proc'[p].at = label /\ proc'[p].todo = todo
      BY <1>3, <1>5, <2>1, GoFacts
    <2> QED
      BY <1>1, <2>2 DEF GoesOn
  <1>7. Typed'
    BY <1>2, <1>3, <1>4, <1>6 DEF Typed, GoesOn, counters
  <1>8. Holds(p)' /\ ~ Live(p)' /\ (Retried(e)' <=> Retried(e))
    BY <1>1, <1>3, <1>6 DEF Holds, Copies, Live, Retried
  <1>9. ASSUME Starting(p) PROVE Starting(p)'
    BY <1>1, <1>2, <1>5, <1>6, <1>9 DEF Starting
  <1>10. ASSUME Editing(p) PROVE Editing(p)'
    <2>1. label # "inventory"
      BY <1>1, <1>2, <1>10 DEF Editing
    <2>2. ~ Retried(proc[p].evo)'
      BY <1>1, <1>6, <1>8, <1>10 DEF Editing, Retried
    <2> QED
      BY <1>1, <1>2, <1>5, <1>6, <1>8, <1>10, <2>1, <2>2 DEF Editing
  <1>11. ASSUME Delivering(p) PROVE Delivering(p)'
    BY <1>1, <1>2, <1>5, <1>6, <1>8, <1>11 DEF Delivering
  <1>12. Stage(p)'
    BY <1>1, <1>2, <1>3, <1>5, <1>6, <1>9, <1>10, <1>11 DEF Staged, Stage, GivenUp
  <1>13. Staged(p)'
    BY <1>3, <1>5, <1>6, <1>8, <1>12 DEF Staged
  <1>14. Adopting'
    BY <1>3, <1>6 DEF IInv, Adopting
  <1>15. \A q \in Tasks : q # p /\ Editing(q) /\ Retried(proc[q].evo)' => Retried(proc[q].evo)
    BY <1>1, <1>3, <1>6 DEF Retried, Processes
  <1>16. UNCHANGED <<evolution, runs>> /\ service' = "up" /\ delivered \subseteq delivered'
    BY <1>2
  <1> QED
    BY <1>2, <1>3, <1>6, <1>7, <1>13, <1>14, <1>15, <1>16, QuietKeeps

-----------------------------------------------------------------------------
(* The reconciliation loop and re-adoption *)

\* The loop takes up a saved build, which no task is still editing.
LEMMA RetryReadyKeeps ==
    ASSUME IInv, RetryReady
    PROVE  IInv'
  <1>1. PICK e : e = latest
    OBVIOUS
  <1>2. /\ service = "up" /\ e # None /\ evolution[e].status \in Waiting /\ evolution[e].built
        /\ passes < MaxPasses /\ passes' = passes + 1
        /\ proc' = [proc EXCEPT !["loop"] = [Idle EXCEPT !.at = "inventory", !.evo = e]]
        /\ UNCHANGED <<disk, exec, service, delivered, answered, submits, adoptions, crashes, runs>>
    BY <1>1 DEF RetryReady, At
  <1>3. /\ Typed /\ e \in Evolutions /\ "loop" \in Processes /\ "adopter" \in Processes
        /\ "loop" \notin Tasks /\ "inventory" \in Labels
    BY <1>1, <1>2, ConstantsAssumption DEF IInv, Typed, Processes, Labels
  <1>4. /\ proc' \in [Processes -> Steps]
        /\ \A q \in Processes : q # "loop" => proc'[q] = proc[q]
        /\ proc'["loop"].at = "inventory" /\ proc'["loop"].todo = <<>>
        /\ proc'["loop"].evo = e /\ proc'["loop"].copy = None
    BY <1>2, <1>3, FreshFacts
  <1>5. passes' \in 0 .. MaxPasses
    BY <1>2, <1>3, ConstantsAssumption DEF Typed
  <1>6. Typed'
    BY <1>2, <1>3, <1>4, <1>5 DEF Typed, disk
  <1>7. evolution[e].status \notin {"Working", "Building", "Failed", "absent", "Queued", "Received"}
    BY <1>2 DEF Waiting
  <1>8. runs[e] = 1
    BY <1>3, <1>7 DEF IInv, Honest
  <1>9. <<>> \in Seq(DeliverOps) /\ <<>> \in Seq(DeliverOps \cup ReportOps) /\ Len(<<>>) <= 7
    OBVIOUS
  <1>10. Delivering("loop")'
    BY <1>2, <1>4, <1>8, <1>9 DEF Delivering, Live, Copies, disk
  <1>11. Staged("loop")'
    <2>1. Stage("loop")'
      BY <1>10 DEF Stage
    <2>2. Holds("loop")'
      BY <1>4 DEF Holds, Copies
    <2>3. Len(proc'["loop"].todo) <= 7
      BY <1>4, <1>9
    <2> QED
      BY <1>3, <1>4, <2>1, <2>2, <2>3 DEF Staged
  <1>12. Adopting'
    BY <1>3, <1>4 DEF IInv, Adopting
  <1>13. ASSUME NEW q \in Tasks, Editing(q), Retried(proc[q].evo)' PROVE FALSE
    <2>1. proc'[q] = proc[q]
      BY <1>3, <1>4 DEF Processes
    <2>2. proc[q].evo = e
      BY <1>4, <1>13, <2>1 DEF Retried
    <2> QED
      BY <1>7, <1>13, <2>2 DEF Editing
  <1>14. \A q \in Tasks : q # "loop" /\ Editing(q) /\ Retried(proc[q].evo)' => Retried(proc[q].evo)
    BY <1>13
  <1>15. UNCHANGED <<evolution, runs>> /\ service' = "up" /\ delivered \subseteq delivered'
    BY <1>2 DEF disk
  <1>16. \A q \in Tasks : q # "loop" /\ exec = q => exec' = q
    BY <1>2
  <1> QED
    BY <1>3, <1>4, <1>6, <1>11, <1>12, <1>14, <1>15, <1>16, QuietKeeps

LEMMA AdoptKeeps ==
    ASSUME IInv, Adopt
    PROVE  IInv'
  <1>1. /\ Typed /\ "loop" \in Processes /\ "adopter" \in Processes /\ "adopter" \notin Tasks
        /\ "adopting" \in Labels /\ proc \in [Processes -> Steps] /\ proc["adopter"] \in Steps
        /\ Adopting /\ latest \in Evolutions \cup {None}
    BY ConstantsAssumption DEF IInv, Typed, Processes, Labels
  <1>2. ASSUME Typed', service' = "up", Adopting', UNCHANGED <<evolution, exec, runs, delivered>>,
               \A q \in Processes : q # "adopter" => proc'[q] = proc[q]
        PROVE  IInv'
    <2>1. \A q \in Tasks : q # "adopter" /\ Editing(q) /\ Retried(proc[q].evo)'
                              => Retried(proc[q].evo)
      BY <1>1, <1>2 DEF Retried, Processes
    <2>2. \A q \in Tasks : q # "adopter" /\ exec = q => exec' = q
      BY <1>2
    <2> QED
      BY <1>1, <1>2, <2>1, <2>2, QuietKeeps
  <1>3. ASSUME BeginAdoption PROVE IInv'
    <2>1. PICK c : c = [link |-> latest]
      OBVIOUS
    <2>2. /\ service = "up" /\ adoptions < MaxAdoptions /\ adoptions' = adoptions + 1
          /\ proc' = [proc EXCEPT !["adopter"].at = "adopting", !["adopter"].copy = c]
          /\ UNCHANGED <<disk, exec, service, delivered, answered, submits, passes, crashes, runs>>
      BY <1>3, <2>1 DEF BeginAdoption, At
    <2>3. c \in Links
      BY <1>1, <2>1 DEF Links
    <2>4. PICK n : n = [proc["adopter"] EXCEPT !.at = "adopting", !.copy = c]
      OBVIOUS
    <2>5. proc' = [proc EXCEPT !["adopter"] = n]
      BY <2>2, <2>4
    <2>6. n \in Steps /\ n.at = "adopting" /\ n.todo = proc["adopter"].todo /\ n.copy = c
      BY <1>1, <2>3, <2>4 DEF Steps
    <2>7. /\ proc' \in [Processes -> Steps] /\ proc'["adopter"] = n
          /\ \A q \in Processes : q # "adopter" => proc'[q] = proc[q]
      BY <1>1, <2>5, <2>6
    <2>8. adoptions' \in 0 .. MaxAdoptions
      BY <1>1, <2>2, ConstantsAssumption DEF Typed
    <2>9. Typed'
      BY <1>1, <2>2, <2>7, <2>8 DEF Typed, disk
    <2>10. Adopting'
      BY <1>1, <2>3, <2>6, <2>7 DEF Adopting
    <2> QED
      BY <1>2, <2>2, <2>7, <2>9, <2>10 DEF disk
  <1>4. ASSUME NEW next, StoreAdopted(next) PROVE IInv'
    <2>1. /\ service = "up" /\ proc["adopter"].at = "adopting"
          /\ latest' = proc["adopter"].copy.link
          /\ proc' = [proc EXCEPT !["adopter"] = IF next = "idle" THEN Idle ELSE proc["adopter"]]
          /\ UNCHANGED <<evolution, index, exec, service, delivered, answered, counters, runs>>
      BY <1>1, <1>4 DEF StoreAdopted, At
    <2>2. latest' \in Evolutions \cup {None}
      BY <1>1, <2>1 DEF Adopting, Links
    <2>3. PICK n : n = IF next = "idle" THEN Idle ELSE proc["adopter"]
      OBVIOUS
    <2>4. n \in Steps /\ (n = proc["adopter"] \/ (n.at = "idle" /\ n.todo = <<>>))
      BY <1>1, <2>3, IdleType DEF Idle
    <2>5. /\ proc' \in [Processes -> Steps] /\ proc'["adopter"] = n
          /\ \A q \in Processes : q # "adopter" => proc'[q] = proc[q]
      BY <1>1, <2>1, <2>3, <2>4
    <2>6. Typed'
      BY <1>1, <2>1, <2>2, <2>5 DEF Typed, counters
    <2>7. Adopting'
      BY <1>1, <2>4, <2>5 DEF Adopting
    <2> QED
      BY <1>2, <2>1, <2>5, <2>6, <2>7
  <1> QED
    BY <1>3, <1>4 DEF Adopt


-----------------------------------------------------------------------------
(* Submission *)

\* A task in a free slot waits for the lock.
LEMMA SpawnFacts ==
    ASSUME Typed, NEW e \in Evolutions, Spawn(e)
    PROVE  \E t \in Tasks :
              /\ t \in Processes /\ t # "adopter" /\ t # "loop" /\ proc[t].at = "idle"
              /\ proc' \in [Processes -> Steps]
              /\ \A q \in Processes : q # t => proc'[q] = proc[q]
              /\ proc'[t].at = "lock" /\ proc'[t].todo = <<>>
              /\ proc'[t].evo = e /\ proc'[t].copy = None
  <1>1. PICK t \in Tasks : /\ proc[t].at = "idle"
                           /\ proc' = [proc EXCEPT ![t] = [Idle EXCEPT !.at = "lock", !.evo = e]]
    BY DEF Spawn
  <1>2. t \in Processes /\ t # "adopter" /\ t # "loop" /\ "lock" \in Labels
    BY ConstantsAssumption DEF Processes, Labels
  <1>3. /\ proc' \in [Processes -> Steps]
        /\ \A q \in Processes : q # t => proc'[q] = proc[q]
        /\ proc'[t].at = "lock" /\ proc'[t].todo = <<>>
        /\ proc'[t].evo = e /\ proc'[t].copy = None
    BY <1>1, <1>2, FreshFacts
  <1> QED
    BY <1>1, <1>2, <1>3

LEMMA LockStaged ==
    ASSUME NEW t, t # "loop", proc'[t].at = "lock", proc'[t].todo = <<>>,
           proc'[t].copy = None, proc'[t].evo \in Evolutions
    PROVE  Staged(t)'
  <1>1. Resting(t)' /\ Holds(t)'
    BY DEF Resting, Holds, Copies
  <1>2. Len(proc'[t].todo) <= 7
    BY PlanFacts
  <1> QED
    BY <1>1, <1>2 DEF Staged, Stage

LEMMA SendFacts ==
    ASSUME Typed, NEW e \in Evolutions, Send(e)
    PROVE  service = "up" /\ submits' \in [Evolutions -> 0 .. MaxSubmits]
  <1>1. PICK n : n = IF e \in answered THEN submits[e] + 1 ELSE submits[e]
    OBVIOUS
  <1>2. submits' = [submits EXCEPT ![e] = n]
    BY <1>1 DEF Send
  <1>3. n \in 0 .. MaxSubmits
    BY <1>1, ConstantsAssumption DEF Send, Typed
  <1> QED
    BY <1>2, <1>3 DEF Send, Typed

\* A step that spawns a task, or none, for an evolution that nobody may be editing.
LEMMA SpawnKeeps ==
    ASSUME IInv, Typed', service' = "up", UNCHANGED <<runs, delivered, exec>>,
           UNCHANGED proc \/ \E e \in Evolutions : Spawn(e),
           \A e \in Evolutions : Honest(e)',
           \A q \in Tasks \cup {"loop"} : Harmless(q)
    PROVE  IInv'
  <1>1. /\ Typed /\ "adopter" \in Processes /\ "loop" \in Processes /\ Adopting
        /\ "adopter" \notin Tasks /\ "loop" \notin Tasks
    BY ConstantsAssumption DEF IInv, Processes
  <1>2. ASSUME NEW p \in Processes, p # "loop", p # "adopter" => Staged(p)',
               \A q \in Processes : q # p => proc'[q] = proc[q],
               p = "adopter" => UNCHANGED proc
        PROVE  IInv'
    <2>1. Adopting'
      BY <1>1, <1>2 DEF Adopting
    <2>2. \A q \in Tasks : q # p /\ exec = q => exec' = q
      OBVIOUS
    <2>3. \A q \in Tasks : q # p /\ Editing(q) /\ Retried(proc[q].evo)' => Retried(proc[q].evo)
      BY <1>1, <1>2 DEF Retried, Processes
    <2>4. \A e \in Evolutions : runs'[e] = runs[e]
      OBVIOUS
    <2>5. \A q \in Tasks \cup {"loop"} : q # p => Harmless(q)
      OBVIOUS
    <2> QED
      BY <1>2, <2>1, <2>2, <2>3, <2>4, <2>5, StepKeeps
  <1>3. CASE UNCHANGED proc
    BY <1>1, <1>2, <1>3
  <1>4. ASSUME NEW e \in Evolutions, Spawn(e) PROVE IInv'
    <2>1. PICK t \in Tasks :
              /\ t \in Processes /\ t # "adopter" /\ t # "loop"
              /\ \A q \in Processes : q # t => proc'[q] = proc[q]
              /\ proc'[t].at = "lock" /\ proc'[t].todo = <<>>
              /\ proc'[t].evo = e /\ proc'[t].copy = None
      BY <1>1, <1>4, SpawnFacts
    <2>2. Staged(t)'
      BY <2>1, LockStaged
    <2> QED
      BY <1>2, <2>1, <2>2
  <1> QED
    BY <1>3, <1>4

LEMMA ProcTyped ==
    ASSUME Typed, UNCHANGED proc \/ \E e \in Evolutions : Spawn(e)
    PROVE  proc' \in [Processes -> Steps]
  <1>1. ASSUME NEW e \in Evolutions, Spawn(e) PROVE proc' \in [Processes -> Steps]
    BY <1>1, SpawnFacts
  <1> QED
    BY <1>1 DEF Typed

\* A step of the sender or of recovery that leaves the evolutions alone.
LEMMA QuietSpawnKeeps ==
    ASSUME IInv, Typed', service' = "up", UNCHANGED <<evolution, runs, delivered, exec>>,
           UNCHANGED proc \/ \E e \in Evolutions : Spawn(e)
    PROVE  IInv'
  <1>1. \A e \in Evolutions : Honest(e)'
    BY HonestKept DEF IInv
  <1>2. \A q \in Tasks \cup {"loop"} : Harmless(q)
    BY DEF Harmless
  <1> QED
    BY <1>1, <1>2, SpawnKeeps

LEMMA SubmitKeeps ==
    ASSUME IInv, NEW e \in Evolutions, Submit(e)
    PROVE  IInv'
  <1>1. Typed
    BY DEF IInv
  <1>2. ASSUME SubmitAgain(e) PROVE IInv'
    <2>1. /\ Send(e) /\ index' = index \cup {e} /\ latest' = RepairedLink(e)
          /\ answered' = answered \cup {e}
          /\ UNCHANGED <<evolution, exec, service, delivered, passes, adoptions, crashes, runs>>
          /\ UNCHANGED proc \/ Spawn(e)
      BY <1>2 DEF SubmitAgain
    <2>2. proc' \in [Processes -> Steps]
      BY <1>1, <2>1, ProcTyped
    <2>3. service = "up" /\ submits' \in [Evolutions -> 0 .. MaxSubmits]
      BY <1>1, <2>1, SendFacts
    <2>4. latest' \in Evolutions \cup {None} /\ index' \subseteq Evolutions /\ answered' \subseteq Evolutions
      BY <1>1, <2>1 DEF Typed, RepairedLink
    <2>5. Typed'
      BY <1>1, <2>1, <2>2, <2>3, <2>4 DEF Typed
    <2> QED
      BY <2>1, <2>3, <2>5, QuietSpawnKeeps
  <1>3. ASSUME SubmitRefused(e) PROVE IInv'
    <2>1. /\ Send(e) /\ answered' = answered \cup {e}
          /\ UNCHANGED <<disk, exec, proc, service, delivered, passes, adoptions, crashes, runs>>
      BY <1>3 DEF SubmitRefused
    <2>2. service = "up" /\ submits' \in [Evolutions -> 0 .. MaxSubmits]
      BY <1>1, <2>1, SendFacts
    <2>3. answered' \subseteq Evolutions
      BY <1>1, <2>1 DEF Typed
    <2>4. Typed'
      BY <1>1, <2>1, <2>2, <2>3 DEF Typed, disk
    <2> QED
      BY <2>1, <2>2, <2>4, QuietSpawnKeeps DEF disk
  <1>4. ASSUME SubmitNew(e) PROVE IInv'
    <2>1. /\ Send(e) /\ evolution[e].status = "absent" /\ Spawn(e)
          /\ answered' = answered \cup {e}
          /\ evolution' = [evolution EXCEPT ![e] = Fresh]
          /\ index' = index \cup {e} /\ latest' = e
          /\ UNCHANGED <<exec, service, delivered, passes, adoptions, crashes, runs>>
      BY <1>4 DEF SubmitNew, Recorded, Create
    <2>2. proc' \in [Processes -> Steps]
      BY <1>1, <2>1, ProcTyped
    <2>3. service = "up" /\ submits' \in [Evolutions -> 0 .. MaxSubmits]
      BY <1>1, <2>1, SendFacts
    <2>4. Fresh \in Records /\ Fresh.status = "Queued" /\ ~ Fresh.built
      BY ConstantsAssumption DEF Fresh, Records, Statuses
    <2>5. /\ evolution' \in [Evolutions -> Records] /\ evolution'[e] = Fresh
          /\ \A x \in Evolutions : x # e => evolution'[x] = evolution[x]
      BY <1>1, <2>1, <2>4 DEF Typed
    <2>6. /\ latest' \in Evolutions \cup {None} /\ index' \subseteq Evolutions
          /\ answered' \subseteq Evolutions
      BY <1>1, <2>1 DEF Typed
    <2>7. Typed'
      BY <1>1, <2>1, <2>2, <2>3, <2>5, <2>6 DEF Typed
    <2>8. runs[e] = 0
      BY <2>1 DEF IInv, Honest
    <2>9. ASSUME NEW x \in Evolutions PROVE Honest(x)'
      <3>1. CASE x = e
        BY <2>1, <2>4, <2>5, <2>8, <3>1 DEF Honest, Earned, Waiting
      <3>2. CASE x # e
        BY <2>1, <2>5, <3>2, HonestKept DEF IInv
      <3> QED
        BY <3>1, <3>2
    <2>10. ASSUME NEW q \in Tasks \cup {"loop"} PROVE Harmless(q)
      <3>1. CASE proc[q].evo = e
        BY <2>1, <2>8, <3>1 DEF Harmless, Editing, Delivering
      <3>2. CASE proc[q].evo # e /\ proc[q].evo \in Evolutions
        BY <2>5, <3>2 DEF Harmless
      <3>3. CASE proc[q].evo \notin Evolutions
        <4>1. Staged(q)
          BY DEF IInv
        <4> QED
          BY <3>3, <4>1 DEF Staged, Harmless, Starting, Editing, Delivering
      <3> QED
        BY <3>1, <3>2, <3>3
    <2> QED
      BY <2>1, <2>3, <2>7, <2>9, <2>10, SpawnKeeps
  <1> QED
    BY <1>2, <1>3, <1>4 DEF Submit

-----------------------------------------------------------------------------
(* The service stops and recovers *)

LEMMA StopKeeps ==
    ASSUME Typed', proc' = [p \in Processes |-> Idle], \A e \in Evolutions : Honest(e)'
    PROVE  IInv'
  <1>1. \A p \in Processes : proc'[p] = Idle
    OBVIOUS
  <1>2. Idle.at = "idle" /\ Idle.todo = <<>> /\ Idle.copy = None
    BY DEF Idle
  <1>3. ASSUME NEW q \in Tasks \cup {"loop"} PROVE Staged(q)'
    <2>1. proc'[q].at = "idle" /\ proc'[q].todo = <<>> /\ proc'[q].copy = None
      BY <1>1, <1>2 DEF Processes
    <2>2. Resting(q)' /\ Holds(q)'
      BY <2>1 DEF Resting, Holds, Copies
    <2>3. Len(proc'[q].todo) <= 7
      BY <2>1, PlanFacts
    <2> QED
      BY <2>1, <2>2, <2>3 DEF Staged, Stage
  <1>4. Adopting'
    BY <1>1, <1>2 DEF Adopting, Processes
  <1>5. \A q \in Processes : proc'[q].at = "idle"
    BY <1>1, <1>2
  <1> QED
    BY <1>3, <1>4, <1>5 DEF IInv

LEMMA StopTyped ==
    ASSUME Typed, Stop
    PROVE  /\ crashes' \in 0 .. MaxCrashes /\ service' = "down" /\ exec' = None
           /\ proc' = [p \in Processes |-> Idle] /\ proc' \in [Processes -> Steps]
  <1>1. crashes' \in 0 .. MaxCrashes
    BY ConstantsAssumption DEF Stop, Typed
  <1> QED
    BY <1>1, IdleType DEF Stop

LEMMA CrashKeeps ==
    ASSUME IInv, Crash
    PROVE  IInv'
  <1>1. /\ Typed /\ Stop
        /\ UNCHANGED <<disk, delivered, answered, submits, passes, adoptions, runs>>
    BY DEF IInv, Crash
  <1>2. Typed'
    BY <1>1, StopTyped DEF Typed, disk
  <1>3. \A e \in Evolutions : Honest(e)'
    BY <1>1, HonestKept DEF IInv, disk
  <1> QED
    BY <1>1, <1>2, <1>3, StopTyped, StopKeeps

LEMMA CrashInSubmitKeeps ==
    ASSUME IInv, NEW e \in Evolutions, NEW files \in 0 .. 3, CrashInSubmit(e, files)
    PROVE  IInv'
  <1>1. /\ Typed /\ Stop /\ Send(e) /\ evolution[e].status = "absent"
        /\ evolution' = [evolution EXCEPT ![e] = Fresh] \/ evolution' = evolution
        /\ index' \subseteq index \cup {e} /\ latest' \in {e, latest}
        /\ answered' = answered \ {e}
        /\ UNCHANGED <<delivered, passes, adoptions, runs>>
    BY DEF IInv, CrashInSubmit, Recorded, Create
  <1>2. Fresh \in Records /\ Fresh.status = "Queued" /\ ~ Fresh.built
    BY ConstantsAssumption DEF Fresh, Records, Statuses
  <1>3. /\ evolution' \in [Evolutions -> Records]
        /\ evolution'[e] = evolution[e] \/ evolution'[e] = Fresh
        /\ \A x \in Evolutions : x # e => evolution'[x] = evolution[x]
    BY <1>1, <1>2 DEF Typed
  <1>4. submits' \in [Evolutions -> 0 .. MaxSubmits]
    BY <1>1, SendFacts
  <1>5. /\ latest' \in Evolutions \cup {None} /\ index' \subseteq Evolutions
        /\ answered' \subseteq Evolutions
    BY <1>1 DEF Typed
  <1>6. Typed'
    BY <1>1, <1>3, <1>4, <1>5, StopTyped DEF Typed
  <1>7. runs[e] = 0
    BY <1>1 DEF IInv, Honest
  <1>8. ASSUME NEW x \in Evolutions PROVE Honest(x)'
    <2>1. CASE evolution'[x] = evolution[x]
      BY <1>1, <2>1, HonestKept DEF IInv
    <2>2. CASE x = e /\ evolution'[x] = Fresh
      BY <1>1, <1>2, <1>7, <2>2 DEF Honest, Earned, Waiting
    <2> QED
      BY <1>3, <2>1, <2>2
  <1> QED
    BY <1>1, <1>6, <1>8, StopTyped, StopKeeps

LEMMA RecoverKeeps ==
    ASSUME IInv, RecoverInterrupted
    PROVE  IInv'
  <1>1. /\ Typed /\ service = "down" /\ service' = "up"
        /\ UNCHANGED <<index, latest, exec, delivered, answered, counters, runs>>
    BY DEF IInv, RecoverInterrupted
  <1>2. ASSUME Linked, evolution[latest].status \in Interrupted, UNCHANGED proc,
               evolution' = [evolution EXCEPT ![latest].status =
                                IF evolution[latest].built THEN "ReadyToInstall" ELSE "Failed"]
        PROVE  IInv'
    <2>1. PICK e, s, n : /\ e = latest
                         /\ s = IF evolution[e].built THEN "ReadyToInstall" ELSE "Failed"
                         /\ n = [evolution[e] EXCEPT !.status = s]
      OBVIOUS
    <2>2. e \in Evolutions /\ evolution[e] \in Records /\ s \in Statuses
      BY <1>1, <1>2, <2>1 DEF Linked, Typed, Statuses
    <2>3. n \in Records /\ n.status = s /\ n.built = evolution[e].built
      BY <2>1, <2>2 DEF Records
    <2>4. evolution' = [evolution EXCEPT ![e] = n]
      BY <1>2, <2>1
    <2>5. /\ evolution' \in [Evolutions -> Records] /\ evolution'[e] = n
          /\ \A x \in Evolutions : x # e => evolution'[x] = evolution[x]
      BY <1>1, <2>2, <2>3, <2>4 DEF Typed
    <2>6. Typed'
      BY <1>1, <1>2, <2>5 DEF Typed, counters
    <2>7. ASSUME NEW x \in Evolutions PROVE Honest(x)'
      <3>1. CASE x # e
        BY <1>1, <2>5, <3>1, HonestKept DEF IInv
      <3>2. CASE x = e
        <4>1. Honest(e) /\ (evolution[e].built => runs[e] = 1)
          BY <2>2 DEF IInv, Honest
        <4>2. /\ n.status \notin {"Installed", "Completed"}
              /\ n.status \notin Resumable \cup {"absent"}
              /\ n.status \in Waiting \cup {"Installing", "Installed", "Completed"} => n.built
              /\ ~ n.built => n.status = "Failed"
          BY <2>1, <2>3 DEF Waiting, Resumable
        <4> QED
          BY <1>1, <2>3, <2>5, <3>2, <4>1, <4>2 DEF Honest, Earned
      <3> QED
        BY <3>1, <3>2
    <2>8. ASSUME NEW q \in Tasks \cup {"loop"} PROVE Harmless(q)
      <3>1. proc[q].at = "idle"
        BY <1>1 DEF IInv, Processes
      <3> QED
        BY <3>1 DEF Harmless, Starting, Editing, Delivering
    <2> QED
      BY <1>1, <1>2, <2>6, <2>7, <2>8, SpawnKeeps
  <1>3. ASSUME Linked, Spawn(latest), UNCHANGED evolution PROVE IInv'
    <2>1. latest \in Evolutions
      BY <1>1, <1>3 DEF Linked, Typed
    <2>2. \E e \in Evolutions : Spawn(e)
      BY <1>3, <2>1
    <2>3. proc' \in [Processes -> Steps]
      BY <1>1, <2>2, ProcTyped
    <2>4. Typed'
      BY <1>1, <1>3, <2>3 DEF Typed, counters
    <2> QED
      BY <1>1, <1>3, <2>2, <2>4, QuietSpawnKeeps
  <1>4. ASSUME UNCHANGED <<evolution, proc>> PROVE IInv'
    <2>1. Typed'
      BY <1>1, <1>4 DEF Typed, counters
    <2> QED
      BY <1>1, <1>4, <2>1, QuietSpawnKeeps
  <1> QED
    BY <1>2, <1>3, <1>4 DEF RecoverInterrupted

-----------------------------------------------------------------------------
(* The specification *)

LEMMA InitIInv == Init => IInv
  <1> SUFFICES ASSUME Init PROVE IInv
    OBVIOUS
  <1>1. Absent \in Records /\ Absent.status = "absent" /\ ~ Absent.built
    BY ConstantsAssumption DEF Absent, Records, Statuses
  <1>2. Idle.at = "idle" /\ Idle.todo = <<>> /\ Idle.copy = None
    BY DEF Idle
  <1>3. \A q \in Processes : proc[q] = Idle
    BY DEF Init
  <1>4. Typed
    BY <1>1, IdleType, ConstantsAssumption DEF Init, Typed
  <1>5. \A e \in Evolutions : Honest(e)
    BY <1>1 DEF Init, Honest, Earned, Waiting
  <1>6. ASSUME NEW q \in Tasks \cup {"loop"} PROVE Staged(q)
    <2>1. proc[q].at = "idle" /\ proc[q].todo = <<>> /\ proc[q].copy = None
      BY <1>2, <1>3 DEF Processes
    <2>2. Resting(q) /\ Holds(q)
      BY <2>1 DEF Resting, Holds, Copies
    <2>3. Len(proc[q].todo) <= 7
      BY <2>1, PlanFacts
    <2> QED
      BY <2>1, <2>2, <2>3 DEF Staged, Stage
  <1>7. Adopting
    BY <1>2, <1>3 DEF Adopting, Processes
  <1>8. service = "up"
    BY DEF Init
  <1> QED
    BY <1>4, <1>5, <1>6, <1>7, <1>8 DEF IInv

LEMMA StutterKeeps ==
    ASSUME IInv, UNCHANGED vars
    PROVE  IInv'
  BY DEF IInv, vars, disk, counters, Typed, Honest, Earned, Staged, Stage, Holds, Copies, Next1,
         Resting, GivenUp, Starting, Editing, Delivering, Live, Retried, Adopting

LEMMA StepIInv ==
    ASSUME IInv, [Next]_vars
    PROVE  IInv'
  <1>1. CASE \E e \in Evolutions : Submit(e)
    BY <1>1, SubmitKeeps
  <1>2. CASE \E p \in Processes : Update(p)
    BY <1>2, ReadEvolutionKeeps, WriteEvolutionKeeps, ReadProjectKeeps, WriteProjectKeeps DEF Update
  <1>3. CASE \E t \in Tasks : Run(t) \/ Timeout(t)
    BY <1>3, TakeLockKeeps, StartKeeps, StartHarnessKeeps, RunHarnessKeeps, RunTestsKeeps, BuildKeeps,
       InventoryKeeps, InstallKeeps, FinishKeeps, TimeoutKeeps DEF Run
  <1>4. CASE Retry
    <2>1. "loop" \in Tasks \cup {"loop"}
      OBVIOUS
    <2> QED
      BY <1>4, <2>1, RetryReadyKeeps, InventoryKeeps, InstallKeeps, FinishKeeps DEF Retry
  <1>5. CASE Adopt
    BY <1>5, AdoptKeeps
  <1>6. CASE Crash
    BY <1>6, CrashKeeps
  <1>7. CASE \E e \in Evolutions, files \in 0 .. 3 : CrashInSubmit(e, files)
    BY <1>7, CrashInSubmitKeeps
  <1>8. CASE RecoverInterrupted
    BY <1>8, RecoverKeeps
  <1>9. CASE UNCHANGED vars
    BY <1>9, StutterKeeps
  <1> QED
    BY <1>1, <1>2, <1>3, <1>4, <1>5, <1>6, <1>7, <1>8, <1>9 DEF Next

LEMMA AlwaysIInv == Spec => []IInv
  <1>1. IInv /\ [Next]_vars => IInv'
    BY StepIInv
  <1> QED
    BY <1>1, InitIInv, PTL DEF Spec

\* The harness edits the owner's source at most once for a request, however
\* often the command was repeated, its task spawned or the service restarted:
\* run_evolution reads the status again once it has execution_lock, and nothing
\* puts an evolution back into the queue.
THEOREM EditsOnce == Spec => []HarnessRunsOnce
  <1>1. IInv => HarnessRunsOnce
    <2> SUFFICES ASSUME IInv PROVE HarnessRunsOnce
      OBVIOUS
    <2>1. Typed
      BY DEF IInv
    <2>2. \A e \in Evolutions : runs[e] <= 1
      BY <2>1 DEF IInv, Honest
    <2>3. ASSUME NEW p \in Processes
          PROVE  /\ proc[p].at \in Labels
                 /\ proc[p].evo \in Evolutions \cup {None}
                 /\ proc[p].copy \in {None} \cup Records \cup [link : Evolutions \cup {None}]
                 /\ Len(proc[p].todo) <= 7
      <3>1. proc[p] \in Steps
        BY <2>1 DEF Typed
      <3>2. Len(proc[p].todo) <= 7
        <4>1. CASE p \in Tasks \cup {"loop"}
          BY <4>1 DEF IInv, Staged
        <4>2. CASE p = "adopter"
          BY <4>2, PlanFacts DEF IInv, Adopting
        <4> QED
          BY <4>1, <4>2 DEF Processes
      <3> QED
        BY <3>1, <3>2 DEF Steps, Links
    <2>4. TypeOK
      BY <2>1, <2>3 DEF Typed, TypeOK
    <2> QED
      BY <2>2, <2>4 DEF HarnessRunsOnce
  <1> QED
    BY <1>1, AlwaysIInv, PTL

\* An evolution that waits for the phone or was installed has a verified build,
\* and one reported installed or completed reached the phone, although
\* replace_evolution writes back whole copies that other processes have
\* overtaken and recover_interrupted rewrites the status after a stop.
THEOREM StatusesAreEarned == Spec => []StatusIsEarned
  <1>1. IInv => StatusIsEarned
    BY DEF IInv, Honest, Earned, StatusIsEarned
  <1> QED
    BY <1>1, AlwaysIInv, PTL

=============================================================================
