------------------------- MODULE ShotCommandsProofs -------------------------
(***************************************************************************)
(* Proofs about the application service's evolution commands, for every    *)
(* set of commands and with stops of the service and of the runners at     *)
(* every step, the preparation of an execution included: its answers agree *)
(* with the execution records unless a cancel raced, and an instruction    *)
(* lands at most once unless the cleanup behind its seal did not happen,   *)
(* however commands overlap; and, when commands come one after another and *)
(* no cancel races, a command evolves the exact base its sender saw and    *)
(* completes only when its own instruction landed.                         *)
(***************************************************************************)
EXTENDS ShotCommands, TLAPS

\* A handler knows how far the execution of its command is prepared.
HandlerOwnsPreparation ==
    \A c \in Commands :
        /\ pc[c] # "idle" => status[c] # None
        /\ pc[c] \in {"checking", "evolving", "staging", "preparing",
                      "creating", "writing", "receipt"}
              => status[c].receipt = None
        /\ pc[c] = "creating" => exec[c] = "absent"
        /\ pc[c] = "writing" => exec[c] = "torn"
        /\ pc[c] = "receipt" => HasRecord(c)

\* Only an execution in flight has a runner, unless a cancel raced with it, and
\* only a command with a receipt has a monitor.
MonitorFollowsReceipt ==
    \A c \in Commands :
        /\ run[c] # "off" => HasRecord(c) /\ (exec[c] = "in_flight" \/ c \in raced)
        /\ monitor[c] => status[c] # None /\ status[c].receipt # None

\* `shot cancel` and a completion belong to an execution with a record, and a
\* completion is there exactly when the phase is final, unless a cancel raced.
CompletionFollowsRecord ==
    \A c \in Commands :
        /\ cancel[c] # "none" \/ done[c] # "none" => HasRecord(c)
        /\ c \notin raced /\ exec[c] \in FinalPhases => done[c] = exec[c]
        /\ c \notin raced /\ exec[c] \notin FinalPhases => done[c] = "none"

IInv == TypeOK /\ HandlerOwnsPreparation /\ MonitorFollowsReceipt
            /\ CompletionFollowsRecord /\ OutcomesAgree

\* What a transition of the journal does to a status record.
LEMMA TransitionFacts ==
    ASSUME NEW s \in Statuses, NEW next \in CommandStates,
           NEW receipt \in Receipts \cup {None},
           NEW reason \in Reasons \cup {None}
    PROVE  LET t == NextStatus(s, next, receipt, reason)
           IN  /\ t \in Statuses
               /\ t # None
               /\ t.state = next
               /\ s.receipt # None => t.receipt = s.receipt
               /\ s.receipt = None => t.receipt = receipt
               /\ reason # None => t.reason = reason
  BY NoneAssumption, CommandsAssumption DEF NextStatus, Statuses, CommandStates

\* The chosen receipt and reason are values of their sets.
LEMMA Chosen == Receipt \in Receipts /\ Reason \in Reasons
                    /\ Receipt # None /\ Reason # None
  BY CommandsAssumption, NoneAssumption DEF Receipt, Reason

\* The state of an existing status is a command state.
LEMMA StatusFields ==
    ASSUME NEW s \in Statuses
    PROVE  s.state \in CommandStates /\ s.receipt \in Receipts \cup {None}
               /\ s # None
  BY CommandsAssumption DEF Statuses

\* Nothing is admitted, prepared or monitored in the beginning.
LEMMA InitIInv == Init => IInv
  <1> SUFFICES ASSUME Init PROVE IInv
    OBVIOUS
  <1> USE DEF Init
  <1>1. TypeOK
    BY CommandsAssumption
       DEF TypeOK, HandlerSteps, RunSteps, CancelSteps, ActivePhases,
           FinalPhases
  <1>2. HandlerOwnsPreparation
    BY DEF HandlerOwnsPreparation
  <1>3. MonitorFollowsReceipt
    BY DEF MonitorFollowsReceipt
  <1>4. OutcomesAgree
    BY Zenon DEF OutcomesAgree
  <1>5. CompletionFollowsRecord
    BY DEF CompletionFollowsRecord, FinalPhases
  <1> QED BY <1>1, <1>2, <1>3, <1>4, <1>5 DEF IInv

\* Each action preserves the strengthened invariant.
LEMMA StepIInv == IInv /\ [Next]_vars => IInv'
  <1> SUFFICES ASSUME IInv, [Next]_vars PROVE IInv'
    OBVIOUS
  <1> USE CommandsAssumption
  <1> USE DEF IInv, TypeOK, HandlerOwnsPreparation, MonitorFollowsReceipt,
              CompletionFollowsRecord, OutcomesAgree, HandlerSteps, RunSteps,
              CancelSteps, ActivePhases, FinalPhases, HasRecord, Goto, handlers,
              ends, records, working
  <1>1. ASSUME NEW c \in Commands, NEW b \in 0..MaxVersions, Submit(c, b)
        PROVE  IInv'
    <2>1. InitialStatus \in Statuses /\ InitialStatus.receipt = None
      BY DEF InitialStatus, Statuses, CommandStates
    <2>2. TypeOK'
      BY SMTT(30), <1>1, <2>1 DEF Submit
    <2>3. HandlerOwnsPreparation'
      BY <1>1, <2>1 DEF Submit
    <2>4. MonitorFollowsReceipt'
      BY <1>1, <2>1 DEF Submit
    <2>5. OutcomesAgree'
      BY <1>1, <2>1 DEF Submit
    <2>6. CompletionFollowsRecord'
      BY <1>1, <2>1 DEF Submit
    <2> QED BY <2>2, <2>3, <2>4, <2>5, <2>6
  <1>2. ASSUME NEW c \in Commands, Retry(c) PROVE IInv'
    BY <1>2 DEF Retry, Open
  <1>3. ASSUME NEW c \in Commands, ReplayReceipt(c) PROVE IInv'
    <2>1. TypeOK'
      BY <1>3 DEF ReplayReceipt, Open
    <2>2. HandlerOwnsPreparation'
      BY <1>3 DEF ReplayReceipt, Open
    <2>3. MonitorFollowsReceipt'
      BY <1>3 DEF ReplayReceipt, Open
    <2>4. OutcomesAgree'
      BY <1>3 DEF ReplayReceipt, Open
    <2>5. CompletionFollowsRecord'
      BY <1>3 DEF ReplayReceipt, Open
    <2> QED BY <2>1, <2>2, <2>3, <2>4, <2>5
  <1>4. ASSUME NEW c \in Commands, LockEvolve(c) PROVE IInv'
    BY <1>4 DEF LockEvolve
  <1>5. ASSUME NEW c \in Commands, StageEvolve(c) PROVE IInv'
    BY <1>5 DEF StageEvolve
  <1>6. ASSUME NEW c \in Commands, PrepareExecution(c) PROVE IInv'
    BY <1>6 DEF PrepareExecution
  <1>7. ASSUME NEW c \in Commands, RefusePreparation(c) PROVE IInv'
    BY <1>7 DEF RefusePreparation
  <1>8. ASSUME NEW c \in Commands, MakeDirectory(c) PROVE IInv'
    BY <1>8 DEF MakeDirectory
  <1>9. ASSUME NEW c \in Commands, WriteRecord(c) PROVE IInv'
    BY <1>9 DEF WriteRecord
  <1>10. ASSUME NEW c \in Commands, StartExecution(c) PROVE IInv'
    <2>1. TypeOK'
      BY <1>10 DEF StartExecution
    <2>2. HandlerOwnsPreparation'
      BY <1>10 DEF StartExecution
    <2>3. MonitorFollowsReceipt'
      BY <1>10 DEF StartExecution
    <2>4. OutcomesAgree'
      BY <1>10 DEF StartExecution, Terminal
    <2>5. CompletionFollowsRecord'
      BY <1>10 DEF StartExecution
    <2> QED BY <2>1, <2>2, <2>3, <2>4, <2>5
  <1>11. ASSUME NEW c \in Commands, HarnessEdits(c) PROVE IInv'
    BY <1>11 DEF HarnessEdits
  <1>12. ASSUME NEW c \in Commands, BeginRecording(c) PROVE IInv'
    <2>1. TypeOK'
      BY <1>12 DEF BeginRecording
    <2>2. HandlerOwnsPreparation'
      BY <1>12 DEF BeginRecording
    <2>3. MonitorFollowsReceipt'
      BY <1>12 DEF BeginRecording
    <2>4. CompletionFollowsRecord'
      <3>1. /\ exec' = [exec EXCEPT ![c] = "in_flight"] /\ UNCHANGED <<done, cancel, raced>>
            /\ HasRecord(c) /\ (c \notin raced => exec[c] = "in_flight")
        BY <1>12 DEF BeginRecording
      <3>2. exec \in [Commands -> {"absent", "torn"} \cup ActivePhases \cup FinalPhases]
        OBVIOUS
      <3> QED
        BY ONLY CompletionFollowsRecord, <3>1, <3>2
           DEF CompletionFollowsRecord, HasRecord, FinalPhases, ActivePhases
    <2>5. OutcomesAgree'
      BY <1>12 DEF BeginRecording, Terminal
    <2> QED BY <2>1, <2>2, <2>3, <2>4, <2>5
  <1>13. ASSUME NEW c \in Commands, RecordingFails(c) PROVE IInv'
    <2>1. TypeOK'
      BY <1>13 DEF RecordingFails
    <2>2. HandlerOwnsPreparation'
      BY <1>13 DEF RecordingFails
    <2>3. MonitorFollowsReceipt'
      BY <1>13 DEF RecordingFails
    <2>4. CompletionFollowsRecord'
      BY <1>13 DEF RecordingFails
    <2>5. OutcomesAgree'
      BY <1>13 DEF RecordingFails, Terminal
    <2> QED BY <2>1, <2>2, <2>3, <2>4, <2>5
  <1>14. ASSUME NEW c \in Commands, Seal(c) PROVE IInv'
    <2>1. TypeOK'
      BY <1>14 DEF Seal
    <2>2. HandlerOwnsPreparation'
      BY <1>14 DEF Seal
    <2>3. MonitorFollowsReceipt'
      BY <1>14 DEF Seal
    <2>4. CompletionFollowsRecord'
      BY <1>14 DEF Seal
    <2>5. OutcomesAgree'
      BY <1>14 DEF Seal, Terminal
    <2> QED BY <2>1, <2>2, <2>3, <2>4, <2>5
  <1>15. ASSUME NEW c \in Commands, AwaitDevice(c) PROVE IInv'
    <2>1. TypeOK'
      BY <1>15 DEF AwaitDevice
    <2>2. HandlerOwnsPreparation'
      BY <1>15 DEF AwaitDevice
    <2>3. MonitorFollowsReceipt'
      BY <1>15 DEF AwaitDevice
    <2>4. CompletionFollowsRecord'
      BY <1>15 DEF AwaitDevice
    <2>5. OutcomesAgree'
      BY <1>15 DEF AwaitDevice, Terminal
    <2> QED BY <2>1, <2>2, <2>3, <2>4, <2>5
  <1>16. ASSUME NEW c \in Commands, Complete(c) PROVE IInv'
    <2>1. TypeOK'
      BY <1>16 DEF Complete, Outcome, Publish
    <2>2. HandlerOwnsPreparation'
      BY <1>16 DEF Complete, Outcome, Publish
    <2>3. MonitorFollowsReceipt'
      BY <1>16 DEF Complete, Outcome, Publish
    <2>4. CompletionFollowsRecord'
      BY <1>16 DEF Complete, Outcome, Publish
    <2>5. OutcomesAgree'
      <3>1. c \notin raced => exec[c] = "in_flight" /\ done[c] = "none"
        BY <1>16 DEF Complete
      <3>2. /\ exec'[c] \in FinalPhases /\ status' = status /\ raced' = raced
            /\ \A d \in Commands : d # c => exec'[d] = exec[d] /\ done'[d] = done[d]
        BY <1>16 DEF Complete, Outcome, Publish
      <3>3. c \notin raced /\ status[c] # None /\ status[c].receipt # None
               /\ Terminal(status[c].state)
               => status[c].state = "failed" /\ status[c].reason = Unreconciled
        BY <3>1 DEF Terminal
      <3> QED
        BY <3>2, <3>3
    <2> QED BY <2>1, <2>2, <2>3, <2>4, <2>5
  <1>17. ASSUME NEW c \in Commands, CancelSignal(c) PROVE IInv'
    <2>1. TypeOK'
      BY <1>17 DEF CancelSignal, CancelStarts, RunnerDies
    <2>2. HandlerOwnsPreparation'
      BY <1>17 DEF CancelSignal, CancelStarts, RunnerDies
    <2>3. MonitorFollowsReceipt'
      BY <1>17 DEF CancelSignal, CancelStarts, RunnerDies
    <2>4. CompletionFollowsRecord'
      BY <1>17 DEF CancelSignal, CancelStarts, RunnerDies
    <2>5. OutcomesAgree'
      BY <1>17 DEF CancelSignal, CancelStarts, RunnerDies, Terminal
    <2> QED BY <2>1, <2>2, <2>3, <2>4, <2>5
  <1>18. ASSUME NEW c \in Commands, FinalizeAbandoned(c) PROVE IInv'
    <2>1. TypeOK'
      BY <1>18 DEF FinalizeAbandoned, Outcome, Publish
    <2>2. HandlerOwnsPreparation'
      BY <1>18 DEF FinalizeAbandoned, Outcome, Publish
    <2>3. MonitorFollowsReceipt'
      BY <1>18 DEF FinalizeAbandoned, Outcome, Publish
    <2>4. CompletionFollowsRecord'
      BY <1>18 DEF FinalizeAbandoned, Outcome, Publish
    <2>5. OutcomesAgree'
      BY <1>18 DEF FinalizeAbandoned, Outcome, Publish, Terminal
    <2> QED BY <2>1, <2>2, <2>3, <2>4, <2>5
  <1>19. ASSUME NEW c \in Commands, KillRunner(c) PROVE IInv'
    <2>1. TypeOK'
      BY <1>19 DEF KillRunner, RunnerDies
    <2>2. HandlerOwnsPreparation'
      BY <1>19 DEF KillRunner, RunnerDies
    <2>3. MonitorFollowsReceipt'
      BY <1>19 DEF KillRunner, RunnerDies
    <2>4. CompletionFollowsRecord'
      BY <1>19 DEF KillRunner, RunnerDies
    <2>5. OutcomesAgree'
      BY <1>19 DEF KillRunner, RunnerDies, Terminal
    <2> QED BY <2>1, <2>2, <2>3, <2>4, <2>5
  <1>30. ASSUME NEW c \in Commands, PreparationFails(c) PROVE IInv'
    <2>1. TypeOK'
      BY <1>30 DEF PreparationFails
    <2>2. HandlerOwnsPreparation'
      BY <1>30 DEF PreparationFails
    <2>3. MonitorFollowsReceipt'
      BY <1>30 DEF PreparationFails
    <2>4. CompletionFollowsRecord'
      BY <1>30 DEF PreparationFails
    <2>5. OutcomesAgree'
      BY <1>30 DEF PreparationFails, Terminal
    <2> QED BY <2>1, <2>2, <2>3, <2>4, <2>5
  <1>31. ASSUME NEW c \in Commands, FinishSeal(c) PROVE IInv'
    <2>1. TypeOK'
      BY <1>31 DEF FinishSeal
    <2>2. HandlerOwnsPreparation'
      BY <1>31 DEF FinishSeal
    <2>3. MonitorFollowsReceipt'
      BY <1>31 DEF FinishSeal
    <2>4. CompletionFollowsRecord'
      BY <1>31 DEF FinishSeal
    <2>5. OutcomesAgree'
      BY <1>31 DEF FinishSeal, Terminal
    <2> QED BY <2>1, <2>2, <2>3, <2>4, <2>5
  <1>32. ASSUME NEW c \in Commands, FinishSealFails(c) PROVE IInv'
    <2>1. TypeOK'
      BY <1>32 DEF FinishSealFails
    <2>2. HandlerOwnsPreparation'
      BY <1>32 DEF FinishSealFails
    <2>3. MonitorFollowsReceipt'
      BY <1>32 DEF FinishSealFails
    <2>4. CompletionFollowsRecord'
      BY <1>32 DEF FinishSealFails
    <2>5. OutcomesAgree'
      BY <1>32 DEF FinishSealFails, Terminal
    <2> QED BY <2>1, <2>2, <2>3, <2>4, <2>5
  <1>33. ASSUME NEW c \in Commands, CancelCheck(c) PROVE IInv'
    <2>1. TypeOK'
      BY <1>33 DEF CancelCheck, CancelStarts, Outcome
    <2>2. HandlerOwnsPreparation'
      BY <1>33 DEF CancelCheck, CancelStarts, Outcome
    <2>3. MonitorFollowsReceipt'
      BY <1>33 DEF CancelCheck, CancelStarts, Outcome
    <2>4. CompletionFollowsRecord'
      BY <1>33 DEF CancelCheck, CancelStarts, Outcome
    <2>5. OutcomesAgree'
      BY <1>33 DEF CancelCheck, CancelStarts, Outcome, Terminal
    <2> QED BY <2>1, <2>2, <2>3, <2>4, <2>5
  <1>34. ASSUME NEW c \in Commands, CancelWrite(c) PROVE IInv'
    <2>1. TypeOK'
      BY <1>34 DEF CancelWrite, Publish
    <2>2. HandlerOwnsPreparation'
      BY <1>34 DEF CancelWrite, Publish
    <2>3. MonitorFollowsReceipt'
      BY <1>34 DEF CancelWrite, Publish
    <2>4. CompletionFollowsRecord'
      BY <1>34 DEF CancelWrite, Publish
    <2>5. OutcomesAgree'
      BY <1>34 DEF CancelWrite, Publish, Terminal
    <2> QED BY <2>1, <2>2, <2>3, <2>4, <2>5
  <1>20. ASSUME NEW c \in Commands, Resume(c) PROVE IInv'
    <2>1. CASE status' = status
      <3>1. TypeOK'
        <4>1. \E step \in HandlerSteps : pc' = [pc EXCEPT ![c] = step]
          BY <1>20 DEF Resume
        <4>2. UNCHANGED <<status, base, monitor, records, run, consumed, history, working, lock, lease,
                          crashes>>
          BY <1>20, <2>1 DEF Resume
        <4> QED
          BY <4>1, <4>2
      <3>2. HandlerOwnsPreparation'
        BY <1>20, <2>1 DEF Resume
      <3>3. MonitorFollowsReceipt'
        BY <1>20, <2>1 DEF Resume
      <3>4. OutcomesAgree'
        BY <1>20, <2>1 DEF Resume
      <3>5. CompletionFollowsRecord'
        BY <1>20, <2>1 DEF Resume
      <3> QED BY <3>1, <3>2, <3>3, <3>4, <3>5
    <2>2. CASE Transition(c, "validated", None, None)
                 /\ Goto(c, "checking") /\ status[c].state = "received"
      <3>1. status[c] \in Statuses /\ status[c].receipt = None
        BY <1>20 DEF Resume
      <3>2. /\ status' = [status EXCEPT ![c] =
                    NextStatus(status[c], "validated", None, None)]
            /\ "validated" \in CommandStates
        BY <2>2 DEF Transition, CommandStates
      <3>3. LET t == NextStatus(status[c], "validated", None, None)
            IN  t \in Statuses /\ t # None /\ t.receipt = None
        BY ONLY <3>1, CommandsAssumption
           DEF NextStatus, Statuses, CommandStates
      <3>4. PICK t \in Statuses : /\ status' = [status EXCEPT ![c] = t]
                                 /\ t # None /\ t.receipt = None
        BY <3>2, <3>3
      <3>5. TypeOK'
        BY <1>20, <2>2, <3>1, <3>4 DEF Resume
      <3>6. HandlerOwnsPreparation'
        BY <1>20, <2>2, <3>1, <3>4 DEF Resume
      <3>7. MonitorFollowsReceipt'
        BY <1>20, <2>2, <3>1, <3>4 DEF Resume
      <3>8. OutcomesAgree'
        BY <1>20, <2>2, <3>1, <3>4 DEF Resume
      <3>9. CompletionFollowsRecord'
        BY <1>20, <2>2, <3>1, <3>4 DEF Resume
      <3> QED BY <3>5, <3>6, <3>7, <3>8, <3>9
    <2> QED BY <1>20, <2>1, <2>2 DEF Resume
  <1>21. ASSUME NEW c \in Commands, Reject(c) PROVE IInv'
    <2>1. status[c] \in Statuses /\ status[c].receipt = None
      BY <1>21 DEF Reject
    <2>2. /\ status' = [status EXCEPT ![c] =
                  NextStatus(status[c], "rejected", None, Reason)]
          /\ "rejected" \in CommandStates
      BY <1>21 DEF Reject, Transition, CommandStates
    <2>3. LET t == NextStatus(status[c], "rejected", None, Reason)
          IN  t \in Statuses /\ t # None /\ t.receipt = None
      BY ONLY <2>1, Chosen, CommandsAssumption
         DEF NextStatus, Statuses, CommandStates
    <2>4. PICK t \in Statuses : /\ status' = [status EXCEPT ![c] = t]
                               /\ t # None /\ t.receipt = None
      BY <2>2, <2>3
    <2>5. TypeOK'
      BY <1>21, <2>1, <2>4 DEF Reject
    <2>6. HandlerOwnsPreparation'
      BY <1>21, <2>1, <2>4 DEF Reject
    <2>7. MonitorFollowsReceipt'
      BY <1>21, <2>1, <2>4 DEF Reject
    <2>8. OutcomesAgree'
      BY <1>21, <2>1, <2>4 DEF Reject
    <2>9. CompletionFollowsRecord'
      BY <1>21, <2>1, <2>4 DEF Reject
    <2> QED BY <2>5, <2>6, <2>7, <2>8, <2>9
  <1>22. ASSUME NEW c \in Commands, Accept(c) PROVE IInv'
    <2>1. status[c] \in Statuses /\ status[c].receipt = None
      BY <1>22 DEF Accept
    <2>2. /\ status' = [status EXCEPT ![c] =
                  NextStatus(status[c], "accepted", None, None)]
          /\ "accepted" \in CommandStates
      BY <1>22 DEF Accept, Transition, CommandStates
    <2>3. LET t == NextStatus(status[c], "accepted", None, None)
          IN  t \in Statuses /\ t # None /\ t.receipt = None
      BY ONLY <2>1, Chosen, CommandsAssumption
         DEF NextStatus, Statuses, CommandStates
    <2>4. PICK t \in Statuses : /\ status' = [status EXCEPT ![c] = t]
                               /\ t # None /\ t.receipt = None
      BY <2>2, <2>3
    <2>5. TypeOK'
      BY <1>22, <2>1, <2>4 DEF Accept
    <2>6. HandlerOwnsPreparation'
      BY <1>22, <2>1, <2>4 DEF Accept
    <2>7. MonitorFollowsReceipt'
      BY <1>22, <2>1, <2>4 DEF Accept
    <2>8. OutcomesAgree'
      BY <1>22, <2>1, <2>4 DEF Accept
    <2>9. CompletionFollowsRecord'
      BY <1>22, <2>1, <2>4 DEF Accept
    <2> QED BY <2>5, <2>6, <2>7, <2>8, <2>9
  <1>23. ASSUME NEW c \in Commands, FailEvolve(c) PROVE IInv'
    <2>1. status[c] \in Statuses /\ status[c].receipt = None
      BY <1>23 DEF FailEvolve
    <2>2. /\ status' = [status EXCEPT ![c] =
                  NextStatus(status[c], "failed", None, Reason)]
          /\ "failed" \in CommandStates
      BY <1>23 DEF FailEvolve, Transition, CommandStates
    <2>3. LET t == NextStatus(status[c], "failed", None, Reason)
          IN  t \in Statuses /\ t # None /\ t.receipt = None
      BY ONLY <2>1, Chosen, CommandsAssumption
         DEF NextStatus, Statuses, CommandStates
    <2>4. PICK t \in Statuses : /\ status' = [status EXCEPT ![c] = t]
                               /\ t # None /\ t.receipt = None
      BY <2>2, <2>3
    <2>5. TypeOK'
      BY <1>23, <2>1, <2>4 DEF FailEvolve
    <2>6. HandlerOwnsPreparation'
      BY <1>23, <2>1, <2>4 DEF FailEvolve
    <2>7. MonitorFollowsReceipt'
      BY <1>23, <2>1, <2>4 DEF FailEvolve
    <2>8. OutcomesAgree'
      BY <1>23, <2>1, <2>4 DEF FailEvolve
    <2>9. CompletionFollowsRecord'
      BY <1>23, <2>1, <2>4 DEF FailEvolve
    <2> QED BY <2>5, <2>6, <2>7, <2>8, <2>9
  <1>24. ASSUME NEW c \in Commands, PublishReceipt(c) PROVE IInv'
    <2>1. status[c] \in Statuses /\ status[c].receipt = None
      BY <1>24 DEF PublishReceipt
    <2>2. /\ status' = [status EXCEPT ![c] =
                  NextStatus(status[c], "running", Receipt, None)]
          /\ "running" \in CommandStates
      BY <1>24 DEF PublishReceipt, Transition, CommandStates
    <2>3. LET t == NextStatus(status[c], "running", Receipt, None)
          IN  t \in Statuses /\ t # None /\ t.receipt # None
                               /\ ~Terminal(t.state)
      <3>1. LET t == NextStatus(status[c], "running", Receipt, None)
            IN  /\ t \in Statuses /\ t # None /\ t.state = "running"
                /\ t.receipt = Receipt
        BY ONLY <2>1, Chosen, CommandsAssumption
         DEF NextStatus, Statuses, CommandStates
      <3> QED BY <3>1, Chosen DEF Terminal
    <2>4. PICK t \in Statuses : /\ status' = [status EXCEPT ![c] = t]
                               /\ t # None /\ t.receipt # None
                               /\ ~Terminal(t.state)
      BY <2>2, <2>3
    <2>5. TypeOK'
      BY <1>24, <2>1, <2>4 DEF PublishReceipt
    <2>6. HandlerOwnsPreparation'
      BY <1>24, <2>1, <2>4 DEF PublishReceipt
    <2>7. MonitorFollowsReceipt'
      BY <1>24, <2>1, <2>4 DEF PublishReceipt
    <2>8. OutcomesAgree'
      BY <1>24, <2>1, <2>4 DEF PublishReceipt
    <2>9. CompletionFollowsRecord'
      BY <1>24, <2>1, <2>4 DEF PublishReceipt
    <2> QED BY <2>5, <2>6, <2>7, <2>8, <2>9
  <1>25. ASSUME NEW c \in Commands, Project(c) PROVE IInv'
    <2>1. PICK next \in {"running", "waiting_for_device"} :
                Transition(c, next, None, None)
      BY <1>25 DEF Project
    <2>2. status[c] \in Statuses /\ status[c].receipt # None
      BY <1>25 DEF Project
    <2>3. /\ status' = [status EXCEPT ![c] =
                  NextStatus(status[c], next, None, None)]
          /\ next \in CommandStates
      BY <2>1 DEF Transition, CommandStates
    <2>4. LET t == NextStatus(status[c], next, None, None)
          IN  t \in Statuses /\ t # None /\ t.receipt # None
                  /\ ~Terminal(t.state)
      BY <2>2, <2>3, TransitionFacts, NoneAssumption DEF Terminal
    <2>5. PICK t \in Statuses : /\ status' = [status EXCEPT ![c] = t]
                               /\ t # None /\ t.receipt # None
                               /\ ~Terminal(t.state)
      BY <2>3, <2>4
    <2>6. TypeOK'
      BY <1>25, <2>2, <2>5 DEF Project
    <2>7. HandlerOwnsPreparation'
      BY <1>25, <2>2, <2>5 DEF Project
    <2>8. MonitorFollowsReceipt'
      BY <1>25, <2>2, <2>5 DEF Project
    <2>9. OutcomesAgree'
      BY <1>25, <2>2, <2>5 DEF Project
    <2>10. CompletionFollowsRecord'
      BY <1>25, <2>2, <2>5 DEF Project
    <2> QED BY <2>6, <2>7, <2>8, <2>9, <2>10
  <1>26. ASSUME NEW c \in Commands, Reconcile(c) PROVE IInv'
    <2>1. CASE status' = status
      BY <1>26, <2>1 DEF Reconcile
    <2>2. CASE status' # status
      <3>1. PICK reason \in Reasons \cup {None} :
                  Transition(c, done[c], None, reason)
        BY <1>26, <2>2, Chosen DEF Reconcile
      <3>2. status[c] \in Statuses /\ status[c].receipt # None
        BY <1>26 DEF Reconcile
      <3>3. /\ status' = [status EXCEPT ![c] =
                    NextStatus(status[c], done[c], None, reason)]
            /\ done[c] \in CommandStates
        BY <1>26, <3>1 DEF Transition, Reconcile, CommandStates
      <3>4. LET t == NextStatus(status[c], done[c], None, reason)
            IN  t \in Statuses /\ t # None /\ t.receipt # None
                    /\ t.state = done[c]
        BY <3>2, <3>3, TransitionFacts, NoneAssumption
      <3>5. PICK t \in Statuses : /\ status' = [status EXCEPT ![c] = t]
                                 /\ t # None /\ t.receipt # None
                                 /\ t.state = done[c]
        BY <3>3, <3>4
      <3>6. TypeOK'
        BY <1>26, <3>2, <3>5 DEF Reconcile
      <3>7. HandlerOwnsPreparation'
        BY <1>26, <3>2, <3>5 DEF Reconcile
      <3>8. MonitorFollowsReceipt'
        BY <1>26, <3>2, <3>5 DEF Reconcile
      <3>9. OutcomesAgree'
        BY <1>26, <3>2, <3>5 DEF Reconcile
      <3>10. CompletionFollowsRecord'
        BY <1>26, <3>2, <3>5 DEF Reconcile
      <3> QED BY <3>6, <3>7, <3>8, <3>9, <3>10
    <2> QED BY <2>1, <2>2
  <1>27. ASSUME NEW c \in Commands, GiveUp(c) PROVE IInv'
    <2>1. PICK others \in BOOLEAN : monitor' = [monitor EXCEPT ![c] = others]
      BY <1>27 DEF GiveUp
    <2>2. status[c] \in Statuses /\ status[c].receipt # None
      BY <1>27 DEF GiveUp
    <2>3. CASE status' = status
      <3>1. TypeOK'
        BY <1>27, <2>1, <2>3 DEF GiveUp
      <3>2. HandlerOwnsPreparation'
        BY <1>27, <2>3 DEF GiveUp
      <3>3. MonitorFollowsReceipt'
        BY <1>27, <2>1, <2>2, <2>3 DEF GiveUp
      <3>4. OutcomesAgree'
        BY <1>27, <2>3 DEF GiveUp
      <3>5. CompletionFollowsRecord'
        BY <1>27, <2>3 DEF GiveUp
      <3> QED BY <3>1, <3>2, <3>3, <3>4, <3>5
    <2>4. CASE Transition(c, "failed", None, Unreconciled)
      <3>1. /\ status' = [status EXCEPT ![c] =
                    NextStatus(status[c], "failed", None, Unreconciled)]
            /\ "failed" \in CommandStates /\ Unreconciled \in Reasons
            /\ Unreconciled # None
        BY <2>4, NoneAssumption DEF Transition, CommandStates
      <3>2. LET t == NextStatus(status[c], "failed", None, Unreconciled)
            IN  t \in Statuses /\ t # None /\ t.receipt # None
                    /\ t.state = "failed" /\ t.reason = Unreconciled
        BY <2>2, <3>1, TransitionFacts, NoneAssumption
      <3>3. PICK t \in Statuses : /\ status' = [status EXCEPT ![c] = t]
                                 /\ t # None /\ t.receipt # None
                                 /\ t.state = "failed"
                                 /\ t.reason = Unreconciled
        BY <3>1, <3>2
      <3>4. TypeOK'
        BY <1>27, <2>1, <3>3 DEF GiveUp
      <3>5. HandlerOwnsPreparation'
        BY <1>27, <2>2, <3>3 DEF GiveUp
      <3>6. MonitorFollowsReceipt'
        BY <1>27, <2>1, <2>2, <3>3 DEF GiveUp
      <3>7. OutcomesAgree'
        BY <1>27, <2>2, <3>3 DEF GiveUp
      <3>8. CompletionFollowsRecord'
        BY <1>27, <2>2, <3>3 DEF GiveUp
      <3> QED BY <3>4, <3>5, <3>6, <3>7, <3>8
    <2> QED BY <1>27, <2>3, <2>4 DEF GiveUp
  <1>28. ASSUME StopService PROVE IInv'
    BY <1>28 DEF StopService
  <1>29. CASE UNCHANGED vars
    BY <1>29 DEF vars
  <1> QED BY <1>1, <1>2, <1>3, <1>4, <1>5, <1>6, <1>7, <1>8, <1>9, <1>10,
         <1>11, <1>12, <1>13, <1>14, <1>15, <1>16, <1>17, <1>18, <1>19,
         <1>20, <1>21, <1>22, <1>23, <1>24, <1>25, <1>26, <1>27, <1>28, <1>29,
         <1>30, <1>31, <1>32, <1>33, <1>34
     DEF Next, Handle, Execute, Monitor, CancelStep, Fault

\* The journal, the records, the ledger and the processes keep their types.
THEOREM TypeCorrect == Spec => []TypeOK
  <1>1. IInv => TypeOK
    BY DEF IInv
  <1> QED BY <1>1, InitIInv, StepIInv, PTL DEF Spec

\* evolve_shot, recover_commands and the monitor never publish a receipt for an
\* execution that does not exist, nor an outcome that differs from the
\* completion of that execution unless the monitor gave up and says so or a
\* cancel wrote over the record or beside a runner, however commands overlap and
\* wherever the service stops.
THEOREM AnswersAgree == Spec => []OutcomesAgree
  <1>1. IInv => OutcomesAgree
    BY DEF IInv
  <1> QED BY <1>1, InitIInv, StepIInv, PTL DEF Spec

-----------------------------------------------------------------------------
(* Every instruction lands at most once *)

Accepted == {"evolving", "staging", "preparing", "creating", "writing", "receipt"}

\* What the holder of the app lock and a handler know: the recorder has read the
\* instruction that is pending, the base is the latest Version while an
\* instruction is staged, and a command without a record is not yet under way.
HandlersKnow ==
    \A c \in Commands :
        /\ run[c] \in {"recording", "sealed"} => lock = c /\ consumed[c] = staged
        /\ pc[c] = "staging" => lock = c /\ Len(history) = base[c]
        /\ pc[c] \in {"checking", "evolving", "staging", "preparing"} => ~HasRecord(c)
        /\ pc[c] = "checking" => status[c].state \in {"validated", "accepted"}
        /\ pc[c] \in Accepted => status[c].state = "accepted"
        /\ HasRecord(c) => status[c] # None /\ status[c].state \notin {"received", "validated"}
        /\ status[c] # None /\ status[c].state \in {"running", "waiting_for_device", "completed"}
              => status[c].receipt # None

\* A pending instruction has not landed unless its recording is being finished or
\* was not, and a landed one is of a Version after the base of its command.
Landing ==
    /\ staged # None => /\ status[staged] # None /\ base[staged] <= Len(history)
                        /\ \/ \A i \in DOMAIN history : history[i] # staged
                           \/ staged \in leftover
                           \/ \E c \in Commands : run[c] = "sealed"
    /\ \A i \in DOMAIN history :
          history[i] # None => status[history[i]] # None /\ base[history[i]] < i
    /\ LandsOnce

\* A step that publishes a status of one command.
Becomes(c, states) ==
    /\ status[c] # None /\ status'[c] # None /\ status'[c].state \in states
    /\ status[c].receipt # None => status'[c].receipt # None
    /\ \A d \in Commands : d # c => status'[d] = status[d]

\* A transition of the journal publishes the status of its command only.
LEMMA Moved ==
    ASSUME IInv, NEW c \in Commands, status[c] # None, NEW next \in CommandStates,
           NEW receipt \in Receipts \cup {None}, NEW reason \in Reasons \cup {None},
           Transition(c, next, receipt, reason)
    PROVE  /\ Becomes(c, {next})
           /\ status[c].receipt = None => status'[c].receipt = receipt
  <1>1. status \in [Commands -> Statuses \cup {None}] /\ status[c] \in Statuses
    BY DEF IInv, TypeOK
  <1>2. PICK t : t = NextStatus(status[c], next, receipt, reason)
    OBVIOUS
  <1>3. status' = [status EXCEPT ![c] = t]
    BY <1>2 DEF Transition
  <1>4. /\ t # None /\ t.state = next
        /\ status[c].receipt # None => t.receipt = status[c].receipt
        /\ status[c].receipt = None => t.receipt = receipt
    BY <1>1, <1>2, TransitionFacts
  <1> QED
    BY <1>1, <1>3, <1>4 DEF Becomes

\* The status of a command moves only at the hands of its handler or monitor.
LEMMA StatusMoves ==
    ASSUME IInv, NEW c \in Commands
    PROVE  /\ Resume(c) => \/ status' = status /\ status[c].state # "received"
                           \/ Becomes(c, {"validated"}) /\ status[c].state = "received"
                                 /\ Goto(c, "checking")
           /\ Reject(c) => Becomes(c, {"rejected"})
           /\ Accept(c) => Becomes(c, {"accepted"})
           /\ FailEvolve(c) => Becomes(c, {"failed"})
           /\ PublishReceipt(c) => Becomes(c, {"running"}) /\ status'[c].receipt # None
           /\ Project(c) => Becomes(c, {"running", "waiting_for_device"}) /\ status[c].receipt # None
           /\ Reconcile(c) => \/ status' = status
                              \/ Becomes(c, {done[c]}) /\ status[c].receipt # None
           /\ GiveUp(c) => \/ status' = status
                           \/ Becomes(c, {"failed"}) /\ status[c].receipt # None
  <1>1. /\ \A x \in {"validated", "rejected", "accepted", "failed", "running", "waiting_for_device"} :
              x \in CommandStates
        /\ \A x \in FinalPhases : x \in CommandStates
    BY DEF CommandStates, FinalPhases
  <1>2. /\ Receipt \in Receipts \cup {None} /\ Receipt # None /\ Reason \in Reasons \cup {None}
        /\ Unreconciled \in Reasons \cup {None} /\ None \in Receipts \cup {None}
        /\ None \in Reasons \cup {None}
    BY Chosen, CommandsAssumption
  <1>3. /\ pc[c] # "idle" => status[c] # None
        /\ monitor[c] => status[c] # None /\ status[c].receipt # None
        /\ pc[c] = "receipt" => status[c].receipt = None
    BY DEF IInv, HandlerOwnsPreparation, MonitorFollowsReceipt
  <1>4. ASSUME Resume(c)
        PROVE  \/ status' = status /\ status[c].state # "received"
               \/ Becomes(c, {"validated"}) /\ status[c].state = "received" /\ Goto(c, "checking")
    <2>1. status[c] # None
      BY <1>3, <1>4 DEF Resume
    <2>2. CASE Transition(c, "validated", None, None) /\ status[c].state = "received" /\ Goto(c, "checking")
      BY <1>1, <1>2, <2>1, <2>2, Moved
    <2> QED
      BY <1>4, <2>2 DEF Resume, Terminal
  <1>5. ASSUME Reject(c) PROVE Becomes(c, {"rejected"})
    <2>1. status[c] # None /\ Transition(c, "rejected", None, Reason)
      BY <1>3, <1>5 DEF Reject
    <2> QED
      BY <1>1, <1>2, <2>1, Moved
  <1>6. ASSUME Accept(c) PROVE Becomes(c, {"accepted"})
    <2>1. status[c] # None /\ Transition(c, "accepted", None, None)
      BY <1>3, <1>6 DEF Accept
    <2> QED
      BY <1>1, <1>2, <2>1, Moved
  <1>7. ASSUME FailEvolve(c) PROVE Becomes(c, {"failed"})
    <2>1. status[c] # None /\ Transition(c, "failed", None, Reason)
      BY <1>3, <1>7 DEF FailEvolve
    <2> QED
      BY <1>1, <1>2, <2>1, Moved
  <1>8. ASSUME PublishReceipt(c) PROVE Becomes(c, {"running"}) /\ status'[c].receipt # None
    <2>1. status[c] # None /\ status[c].receipt = None /\ Transition(c, "running", Receipt, None)
      BY <1>3, <1>8 DEF PublishReceipt
    <2> QED
      BY <1>1, <1>2, <2>1, Moved
  <1>9. ASSUME Project(c)
        PROVE  Becomes(c, {"running", "waiting_for_device"}) /\ status[c].receipt # None
    <2>1. status[c] # None /\ status[c].receipt # None
      BY <1>3, <1>9 DEF Project
    <2>2. PICK next \in {"running", "waiting_for_device"} : Transition(c, next, None, None)
      BY <1>9 DEF Project
    <2>3. Becomes(c, {next})
      BY <1>1, <1>2, <2>1, <2>2, Moved
    <2> QED
      BY <2>1, <2>3 DEF Becomes
  <1>10. ASSUME Reconcile(c)
         PROVE  status' = status \/ (Becomes(c, {done[c]}) /\ status[c].receipt # None)
    <2>1. status[c] # None /\ status[c].receipt # None /\ done[c] \in CommandStates
      BY <1>1, <1>3, <1>10 DEF Reconcile, IInv, TypeOK
    <2>2. CASE \E reason \in Reasons \cup {None} : Transition(c, done[c], None, reason)
      BY <1>2, <2>1, <2>2, Moved
    <2> QED
      BY <1>2, <1>10, <2>2 DEF Reconcile
  <1>11. ASSUME GiveUp(c)
         PROVE  status' = status \/ (Becomes(c, {"failed"}) /\ status[c].receipt # None)
    <2>1. status[c] # None /\ status[c].receipt # None
      BY <1>3, <1>11 DEF GiveUp
    <2>2. CASE Transition(c, "failed", None, Unreconciled)
      BY <1>1, <1>2, <2>1, <2>2, Moved
    <2> QED
      BY <1>11, <2>2 DEF GiveUp
  <1> QED
    BY <1>4, <1>5, <1>6, <1>7, <1>8, <1>9, <1>10, <1>11

\* Each action preserves what the handlers and the recorder know.
LEMMA StepHandlersKnow == IInv /\ HandlersKnow /\ [Next]_vars => HandlersKnow'
  <1> SUFFICES ASSUME IInv, HandlersKnow, [Next]_vars PROVE HandlersKnow'
    OBVIOUS
  <1>1. /\ pc \in [Commands -> HandlerSteps] /\ run \in [Commands -> RunSteps]
        /\ exec \in [Commands -> {"absent", "torn"} \cup ActivePhases \cup FinalPhases]
        /\ base \in [Commands -> Nat] /\ consumed \in [Commands -> Commands \cup {None}]
        /\ status \in [Commands -> Statuses \cup {None}]
        /\ monitor \in [Commands -> BOOLEAN]
    BY DEF IInv, TypeOK
  <1>2. /\ \A c \in Commands : pc[c] # "idle" => status[c] # None
        /\ \A c \in Commands : pc[c] \in Accepted \cup {"checking"} => status[c].receipt = None
        /\ \A c \in Commands : pc[c] = "creating" => exec[c] = "absent"
        /\ \A c \in Commands : pc[c] = "writing" => exec[c] = "torn"
        /\ \A c \in Commands : run[c] # "off" \/ cancel[c] # "none" => HasRecord(c)
        /\ \A c \in Commands : monitor[c] => status[c] # None /\ status[c].receipt # None
    BY DEF IInv, HandlerOwnsPreparation, MonitorFollowsReceipt, CompletionFollowsRecord, Accepted
  <1>3. None \notin Commands
    BY CommandsAssumption
  <1> USE DEF HandlersKnow, HasRecord, Accepted, Goto, handlers, ends, records, working
  <1>4. ASSUME NEW c \in Commands, NEW b \in 0..MaxVersions, Submit(c, b) PROVE HandlersKnow'
    <2>1. InitialStatus.state = "received"
      BY DEF InitialStatus
    <2>2. status'[c].state = "received" /\ \A d \in Commands : d # c => status'[d] = status[d]
      BY <1>1, <1>4, <2>1 DEF Submit
    <2>3. ~HasRecord(c) /\ pc[c] = "idle"
      BY <1>4 DEF Submit
    <2> QED
      BY <1>1, <1>2, <1>4, <2>2, <2>3 DEF Submit
  <1>5. ASSUME NEW c \in Commands, Retry(c) PROVE HandlersKnow'
    BY <1>1, <1>5 DEF Retry
  <1>6. ASSUME NEW c \in Commands, ReplayReceipt(c) PROVE HandlersKnow'
    BY <1>1, <1>6 DEF ReplayReceipt
  <1>7. ASSUME NEW c \in Commands, Resume(c) PROVE HandlersKnow'
    <2>1. CASE status' = status /\ status[c].state # "received"
      <3>1. pc[c] = "loaded" /\ UNCHANGED <<base, exec, run, consumed, history, staged, lock>>
        BY <1>7 DEF Resume
      <3>2. CASE status[c].state \in {"validated", "accepted"} /\ ~HasRecord(c) /\ Goto(c, "checking")
        BY <1>1, <2>1, <3>1, <3>2
      <3>3. CASE status[c].state = "accepted" /\ Goto(c, "receipt")
        BY <1>1, <2>1, <3>1, <3>3
      <3>4. CASE Goto(c, "idle")
        BY <1>1, <2>1, <3>1, <3>4
      <3>5. status[c].state = "validated" => ~HasRecord(c)
        OBVIOUS
      <3> QED
        BY <1>7, <2>1, <3>2, <3>3, <3>4, <3>5 DEF Resume
    <2>2. CASE Becomes(c, {"validated"}) /\ status[c].state = "received" /\ Goto(c, "checking")
      BY <1>1, <1>2, <1>7, <2>2 DEF Resume, Becomes
    <2> QED
      BY <1>7, <2>1, <2>2, StatusMoves
  <1>8. ASSUME NEW c \in Commands, Reject(c) PROVE HandlersKnow'
    <2>1. Becomes(c, {"rejected"})
      BY <1>8, StatusMoves
    <2> QED
      BY <1>1, <1>8, <2>1 DEF Reject, Becomes
  <1>9. ASSUME NEW c \in Commands, Accept(c) PROVE HandlersKnow'
    <2>1. Becomes(c, {"accepted"})
      BY <1>9, StatusMoves
    <2> QED
      BY <1>1, <1>9, <2>1 DEF Accept, Becomes
  <1>10. ASSUME NEW c \in Commands, LockEvolve(c) PROVE HandlersKnow'
    BY <1>1, <1>3, <1>10 DEF LockEvolve
  <1>11. ASSUME NEW c \in Commands, FailEvolve(c) PROVE HandlersKnow'
    <2>1. Becomes(c, {"failed"})
      BY <1>11, StatusMoves
    <2>2. \A d \in Commands : lock = d /\ d # c => lock' = d
      BY <1>1, <1>3, <1>11 DEF FailEvolve
    <2>3. run[c] = "off"
      BY <1>1, <1>2, <1>11 DEF FailEvolve
    <2> QED
      BY <1>1, <1>11, <2>1, <2>2, <2>3 DEF FailEvolve, Becomes
  <1>12. ASSUME NEW c \in Commands, StageEvolve(c) PROVE HandlersKnow'
    <2>1. \A d \in Commands : run[d] \notin {"recording", "sealed"} /\ (d # c => pc[d] # "staging")
      BY <1>1, <1>2, <1>12 DEF StageEvolve
    <2> QED
      BY <1>1, <1>12, <2>1 DEF StageEvolve
  <1>13. ASSUME NEW c \in Commands, PrepareExecution(c) PROVE HandlersKnow'
    BY <1>1, <1>13 DEF PrepareExecution
  <1>14. ASSUME NEW c \in Commands, RefusePreparation(c) PROVE HandlersKnow'
    BY <1>1, <1>14 DEF RefusePreparation
  <1>15. ASSUME NEW c \in Commands, MakeDirectory(c) PROVE HandlersKnow'
    BY <1>1, <1>15 DEF MakeDirectory
  <1>16. ASSUME NEW c \in Commands, WriteRecord(c) PROVE HandlersKnow'
    BY <1>1, <1>2, <1>16 DEF WriteRecord
  <1>17. ASSUME NEW c \in Commands, PublishReceipt(c) PROVE HandlersKnow'
    <2>1. Becomes(c, {"running"}) /\ status'[c].receipt # None
      BY <1>17, StatusMoves
    <2> QED
      BY <1>1, <1>17, <2>1 DEF PublishReceipt, Becomes
  <1>18. ASSUME NEW c \in Commands, StartExecution(c) PROVE HandlersKnow'
    BY <1>1, <1>18 DEF StartExecution
  <1>19. ASSUME NEW c \in Commands, HarnessEdits(c) PROVE HandlersKnow'
    BY <1>1, <1>19 DEF HarnessEdits
  <1>20. ASSUME NEW c \in Commands, BeginRecording(c) PROVE HandlersKnow'
    <2>1. HasRecord(c) /\ HasRecord(c)'
      BY <1>1, <1>2, <1>20 DEF BeginRecording
    <2>2. \A d \in Commands : pc[d] # "staging" /\ run[d] \notin {"recording", "sealed"}
      BY <1>3, <1>20 DEF BeginRecording
    <2> QED
      BY <1>1, <1>3, <1>20, <2>1, <2>2 DEF BeginRecording
  <1>21. ASSUME NEW c \in Commands, RecordingFails(c) PROVE HandlersKnow'
    <2>1. pc[c] # "staging"
      BY <1>1, <1>2, <1>21 DEF RecordingFails
    <2>2. \A d \in Commands : lock = d /\ d # c => lock' = d
      BY <1>1, <1>3, <1>21 DEF RecordingFails
    <2> QED
      BY <1>1, <1>21, <2>1, <2>2 DEF RecordingFails
  <1>22. ASSUME NEW c \in Commands, Seal(c) PROVE HandlersKnow'
    <2>1. \A d \in Commands : pc[d] # "staging" /\ (d # c => run[d] \notin {"recording", "sealed"})
      BY <1>1, <1>2, <1>22 DEF Seal
    <2> QED
      BY <1>1, <1>22, <2>1 DEF Seal
  <1>23. ASSUME NEW c \in Commands, AwaitDevice(c) PROVE HandlersKnow'
    <2>1. \A d \in Commands : pc[d] # "staging" /\ (d # c => run[d] \notin {"recording", "sealed"})
      BY <1>1, <1>2, <1>23 DEF AwaitDevice
    <2> QED
      BY <1>1, <1>2, <1>23, <2>1 DEF AwaitDevice
  <1>24. ASSUME NEW c \in Commands, Complete(c) PROVE HandlersKnow'
    <2>1. HasRecord(c) /\ HasRecord(c)'
      BY <1>1, <1>2, <1>24 DEF Complete, Publish, Outcome
    <2> QED
      BY <1>1, <1>24, <2>1 DEF Complete, Publish
  <1>25. ASSUME NEW c \in Commands, CancelSignal(c) \/ KillRunner(c) PROVE HandlersKnow'
    <2>1. pc[c] # "staging" /\ RunnerDies(c)
      BY <1>1, <1>2, <1>25 DEF CancelSignal, CancelStarts, KillRunner
    <2>2. \A d \in Commands : lock = d /\ d # c => lock' = d
      BY <1>1, <1>2, <1>3, <2>1 DEF RunnerDies
    <2> QED
      BY <1>1, <1>25, <2>1, <2>2 DEF CancelSignal, KillRunner, RunnerDies
  <1>26. ASSUME NEW c \in Commands, FinalizeAbandoned(c) PROVE HandlersKnow'
    <2>1. HasRecord(c) /\ HasRecord(c)'
      BY <1>1, <1>26 DEF FinalizeAbandoned, Publish, Outcome
    <2> QED
      BY <1>1, <1>26, <2>1 DEF FinalizeAbandoned, Publish
  <1>27. ASSUME NEW c \in Commands, Project(c) PROVE HandlersKnow'
    <2>1. Becomes(c, {"running", "waiting_for_device"}) /\ status[c].receipt # None
      BY <1>27, StatusMoves
    <2> QED
      BY <1>1, <1>2, <1>27, <2>1 DEF Project, Becomes
  <1>28. ASSUME NEW c \in Commands, Reconcile(c) PROVE HandlersKnow'
    <2>1. CASE status' = status
      BY <1>28, <2>1 DEF Reconcile
    <2>2. CASE Becomes(c, {done[c]}) /\ status[c].receipt # None
      <3>1. done[c] \in FinalPhases
        BY <1>28 DEF Reconcile, IInv, TypeOK
      <3> QED
        BY <1>1, <1>2, <1>28, <2>2, <3>1 DEF Reconcile, Becomes, FinalPhases
    <2> QED
      BY <1>28, <2>1, <2>2, StatusMoves
  <1>29. ASSUME NEW c \in Commands, GiveUp(c) PROVE HandlersKnow'
    <2>1. CASE status' = status
      BY <1>29, <2>1 DEF GiveUp
    <2>2. CASE Becomes(c, {"failed"}) /\ status[c].receipt # None
      BY <1>1, <1>2, <1>29, <2>2 DEF GiveUp, Becomes
    <2> QED
      BY <1>29, <2>1, <2>2, StatusMoves
  <1>30. ASSUME StopService PROVE HandlersKnow'
    <2>1. ASSUME NEW c \in Commands, run[c] \in {"recording", "sealed"} PROVE lock' = c
      <3>1. lock = c /\ HasRecord(c)
        BY <1>2, <2>1
      <3>2. \A d \in Commands : pc[d] = "staging" => d = c
        BY <3>1
      <3>3. pc[c] # "staging"
        BY <3>1
      <3> QED
        BY <1>30, <3>1, <3>2, <3>3 DEF StopService
    <2> QED
      BY <1>1, <1>30, <2>1 DEF StopService
  <1>31. ASSUME NEW c \in Commands, FinishSeal(c) \/ FinishSealFails(c) PROVE HandlersKnow'
    <2>1. \A d \in Commands : pc[d] # "staging" /\ (d # c => run[d] \notin {"recording", "sealed"})
      BY <1>1, <1>2, <1>31 DEF FinishSeal, FinishSealFails
    <2> QED
      BY <1>1, <1>31, <2>1 DEF FinishSeal, FinishSealFails
  <1>33. ASSUME NEW c \in Commands, PreparationFails(c) \/ CancelCheck(c) PROVE HandlersKnow'
    BY <1>1, <1>33 DEF PreparationFails, CancelCheck
  <1>34. ASSUME NEW c \in Commands, CancelWrite(c) PROVE HandlersKnow'
    <2>1. HasRecord(c) /\ HasRecord(c)'
      BY <1>1, <1>2, <1>34 DEF CancelWrite, Publish
    <2> QED
      BY <1>1, <1>34, <2>1 DEF CancelWrite, Publish
  <1>32. CASE UNCHANGED vars
    BY <1>32 DEF vars
  <1> QED
    BY <1>4, <1>5, <1>6, <1>7, <1>8, <1>9, <1>10, <1>11, <1>12, <1>13, <1>14, <1>15, <1>16, <1>17,
       <1>18, <1>19, <1>20, <1>21, <1>22, <1>23, <1>24, <1>25, <1>26, <1>27, <1>28, <1>29, <1>30,
       <1>31, <1>32, <1>33, <1>34 DEF Next, Handle, Execute, Monitor, CancelStep, Fault

\* A command once admitted stays admitted, on the base it was submitted with.
LEMMA StatusStays ==
    ASSUME IInv, [Next]_vars, NEW c \in Commands, status[c] # None
    PROVE  status'[c] # None /\ base'[c] = base[c]
  <1>1. base \in [Commands -> Nat] /\ status \in [Commands -> Statuses \cup {None}]
    BY DEF IInv, TypeOK
  <1>2. ASSUME NEW d \in Commands, NEW b \in 0..MaxVersions, Submit(d, b)
        PROVE  status'[c] # None /\ base'[c] = base[c]
    BY <1>1, <1>2 DEF Submit
  <1>3. ASSUME NEW d \in Commands, NEW states, Becomes(d, states) PROVE status'[c] # None
    BY <1>3 DEF Becomes
  <1>4. ASSUME NEW d \in Commands,
               \/ Resume(d) \/ Reject(d) \/ Accept(d) \/ FailEvolve(d) \/ PublishReceipt(d)
               \/ Project(d) \/ Reconcile(d) \/ GiveUp(d)
        PROVE  status'[c] # None /\ base'[c] = base[c]
    <2>1. status' = status \/ \E states : Becomes(d, states)
      BY <1>4, StatusMoves
    <2>2. base' = base
      BY <1>4 DEF Resume, Reject, Accept, FailEvolve, PublishReceipt, Project, Reconcile, GiveUp,
                  handlers
    <2> QED
      BY <1>3, <2>1, <2>2
  <1>5. ASSUME NEW d \in Commands,
               \/ Retry(d) \/ ReplayReceipt(d) \/ LockEvolve(d) \/ StageEvolve(d)
               \/ PrepareExecution(d) \/ RefusePreparation(d) \/ MakeDirectory(d) \/ WriteRecord(d)
        PROVE  status' = status /\ base' = base
    BY <1>5 DEF Retry, ReplayReceipt, LockEvolve, StageEvolve, PrepareExecution,
                RefusePreparation, MakeDirectory, WriteRecord
  <1>6. ASSUME NEW d \in Commands,
               \/ Execute(d) \/ FinalizeAbandoned(d) \/ HarnessEdits(d) \/ CancelStep(d) \/ Fault(d)
        PROVE  status' = status /\ base' = base
    BY <1>6 DEF Execute, StartExecution, BeginRecording, RecordingFails, Seal, FinishSeal, AwaitDevice,
                Complete, FinalizeAbandoned, HarnessEdits, CancelStep, CancelSignal, CancelCheck,
                CancelWrite, Fault, PreparationFails, FinishSealFails, KillRunner, handlers
  <1>7. CASE StopService \/ UNCHANGED vars
    BY <1>7 DEF StopService, vars, handlers
  <1> QED
    BY <1>2, <1>4, <1>5, <1>6, <1>7 DEF Next, Handle, Monitor

\* An instruction becomes pending in stage_evolution_inputs, and only a recording
\* consumes it.
LEMMA StepLanding == IInv /\ HandlersKnow /\ Landing /\ [Next]_vars => Landing'
  <1> SUFFICES ASSUME IInv, HandlersKnow, Landing, [Next]_vars PROVE Landing'
    OBVIOUS
  <1>1. /\ history \in Seq(Commands \cup {None}) /\ staged \in Commands \cup {None}
        /\ base \in [Commands -> Nat] /\ None \notin Commands
    BY CommandsAssumption DEF IInv, TypeOK
  <1>2. \A d \in Commands : status[d] # None => status'[d] # None /\ base'[d] = base[d]
    BY StatusStays
  <1>3. CASE /\ history' = history /\ staged' = staged /\ leftover' = leftover
             /\ \A d \in Commands : run[d] = "sealed" => run'[d] = "sealed"
    BY <1>1, <1>2, <1>3 DEF Landing, LandsOnce
  <1>4. ASSUME NEW c \in Commands, StageEvolve(c) PROVE Landing'
    <2>1. staged' = c /\ history' = history /\ base' = base /\ status' = status /\ leftover' = leftover
      BY <1>4 DEF StageEvolve
    <2>2. status[c] # None /\ Len(history) = base[c]
      BY <1>4 DEF StageEvolve, IInv, HandlerOwnsPreparation, HandlersKnow
    <2>3. \A i \in DOMAIN history : history[i] # c
      BY <1>1, <2>2 DEF Landing
    <2> QED
      BY <1>1, <2>1, <2>2, <2>3 DEF Landing, LandsOnce
  <1>5. ASSUME NEW c \in Commands, Seal(c) PROVE Landing'
    <2>1. /\ staged' = staged /\ history' = Append(history, staged) /\ base' = base /\ status' = status
          /\ leftover' = leftover
      BY <1>5 DEF Seal, HandlersKnow, handlers, working
    <2>6. run'[c] = "sealed" /\ \A d \in Commands : run[d] # "sealed"
      <3>1. run \in [Commands -> RunSteps] /\ run[c] = "recording" /\ lock = c
        BY <1>5 DEF Seal, IInv, TypeOK, HandlersKnow
      <3>2. \A d \in Commands : run[d] = "sealed" => lock = d
        BY DEF HandlersKnow
      <3> QED
        BY <1>5, <3>1, <3>2 DEF Seal
    <2>2. /\ DOMAIN history' = 1..Len(history) + 1 /\ DOMAIN history = 1..Len(history)
          /\ Len(history) \in Nat
          /\ \A i \in DOMAIN history : history'[i] = history[i] /\ history[i] \in Commands \cup {None}
          /\ history'[Len(history) + 1] = staged
      BY <1>1, <2>1
    <2>3. \A i \in DOMAIN history' : i \in DOMAIN history \/ i = Len(history) + 1
      BY <2>2
    <2>4. ASSUME NEW i \in DOMAIN history', history'[i] # None
          PROVE  status[history'[i]] # None /\ base[history'[i]] < i
      <3>1. CASE i \in DOMAIN history
        BY <2>2, <2>4, <3>1 DEF Landing
      <3>2. CASE i = Len(history) + 1
        BY <1>1, <2>2, <2>4, <3>2 DEF Landing
      <3> QED
        BY <2>3, <3>1, <3>2
    <2>5. ASSUME NEW i \in DOMAIN history', NEW j \in DOMAIN history',
                 history'[i] = history'[j], history'[i] \notin {None} \cup leftover
          PROVE  i = j
      <3>1. CASE i \in DOMAIN history /\ j \in DOMAIN history
        BY <2>2, <2>5, <3>1 DEF Landing, LandsOnce
      <3>2. CASE i = Len(history) + 1 \/ j = Len(history) + 1
        BY <2>2, <2>3, <2>5, <2>6, <3>2 DEF Landing
      <3> QED
        BY <2>3, <3>1, <3>2
    <2>7. staged # None => status[staged] # None /\ base[staged] <= Len(history')
      BY <1>1, <2>1, <2>2 DEF Landing
    <2> QED
      BY <2>1, <2>4, <2>5, <2>6, <2>7 DEF Landing, LandsOnce
  <1>6. ASSUME NEW c \in Commands,
               FinishSeal(c) \/ FinishSealFails(c) \/ CancelSignal(c) \/ KillRunner(c)
        PROVE  Landing'
    <2>1. history' = history /\ run \in [Commands -> RunSteps]
      BY <1>6 DEF FinishSeal, FinishSealFails, CancelSignal, KillRunner, IInv, TypeOK
    <2>2. \/ staged' = staged /\ leftover' = leftover \cup {staged}
          \/ staged' = None /\ leftover' = leftover
          \/ /\ staged' = staged /\ leftover' = leftover
             /\ \A d \in Commands : run[d] = "sealed" => run'[d] = "sealed"
      BY <1>6, <2>1 DEF FinishSeal, FinishSealFails, CancelSignal, KillRunner, RunnerDies, HandlersKnow
    <2> QED
      BY <1>1, <1>2, <2>1, <2>2 DEF Landing, LandsOnce
  <1> DEFINE Still == /\ history' = history /\ staged' = staged /\ leftover' = leftover
                      /\ \A d \in Commands : run[d] = "sealed" => run'[d] = "sealed"
  <1>10. run \in [Commands -> RunSteps]
    BY DEF IInv, TypeOK
  <1>7. ASSUME NEW c \in Commands, Handle(c) PROVE StageEvolve(c) \/ Still
    BY <1>7 DEF Handle, ReplayReceipt, Resume, Reject, Accept, LockEvolve, FailEvolve,
                PrepareExecution, RefusePreparation, MakeDirectory, WriteRecord, PublishReceipt, working
  <1>8. ASSUME NEW c \in Commands, Execute(c) PROVE Seal(c) \/ FinishSeal(c) \/ Still
    BY <1>8, <1>10 DEF Execute, StartExecution, BeginRecording, RecordingFails, AwaitDevice, Complete,
                       working
  <1>9. ASSUME NEW c \in Commands,
               \/ \E b \in 0..MaxVersions : Submit(c, b)
               \/ Retry(c) \/ Monitor(c) \/ HarnessEdits(c)
               \/ CancelCheck(c) \/ CancelWrite(c) \/ PreparationFails(c)
        PROVE  Still
    BY <1>9 DEF Submit, Retry, Monitor, FinalizeAbandoned, Project, Reconcile, GiveUp, HarnessEdits,
                CancelCheck, CancelWrite, PreparationFails, working
  <1>11. StopService \/ UNCHANGED vars => Still
    BY DEF StopService, vars, working
  <1> QED
    BY <1>3, <1>4, <1>5, <1>6, <1>7, <1>8, <1>9, <1>11 DEF Next, CancelStep, Fault

\* Nothing is admitted, locked or pending in the beginning.
LEMMA InitKnows == Init => HandlersKnow /\ Landing
  BY DEF Init, HandlersKnow, Landing, LandsOnce, HasRecord, Accepted

\* record_and_deliver never seals one intention as two accepted Versions unless
\* it stopped or failed between sealing it and clearing it, however commands
\* overlap, are retried and are cancelled, and wherever the service stops.
THEOREM InstructionsLandOnce == Spec => []LandsOnce
  <1>1. Init => IInv /\ HandlersKnow /\ Landing
    BY InitIInv, InitKnows
  <1>2. IInv /\ HandlersKnow /\ Landing /\ [Next]_vars => (IInv /\ HandlersKnow /\ Landing)'
    BY StepIInv, StepHandlersKnow, StepLanding
  <1>3. Landing => LandsOnce
    BY DEF Landing
  <1> QED BY <1>1, <1>2, <1>3, PTL DEF Spec

-----------------------------------------------------------------------------
(* Commands one after another *)

Preparing == {"preparing", "creating", "writing"}

\* The instruction of an active execution is pending on its base, or has just
\* landed as the next Version.
Pending(c) ==
    \/ Len(history) = base[c] /\ staged = c /\ run[c] # "sealed"
    \/ /\ exec[c] = "in_flight" /\ run[c] \in {"sealed", "judging", "off"}
       /\ Len(history) = base[c] + 1 /\ history[base[c] + 1] = c

\* The Version after the base of c is c's own.
Landed(c) == base[c] + 1 \in DOMAIN history /\ history[base[c] + 1] = c

\* When no command is submitted beside an open one, no monitor gives up and no
\* cancel has raced: one
\* command is open, only its execution is active, and what is staged, packaged,
\* claimed and sealed is its own.
InTurn ==
    /\ \A c, d \in Commands : Open(c) /\ Open(d) => c = d
    /\ \A c \in Commands :
        /\ exec[c] \in ActivePhases => Open(c) /\ Pending(c)
        /\ pc[c] \in Preparing => Len(history) = base[c] /\ staged = c /\ package = c
        /\ HasRecord(c) \/ pc[c] \in {"creating", "writing"}
              => ordinal[c] = base[c] + 1 /\ intent[c] = c
        /\ exec[c] = "completed" \/ cancel[c] = "completed" => Landed(c)

\* Steps that leave the ledger, the working files and the records alone.
LEMMA KeepsTurn ==
    ASSUME InTurn, UNCHANGED <<history, staged, package, base, exec, ordinal, intent, cancel>>,
           \A d \in Commands : Open(d)' => Open(d),
           \A d \in Commands : exec[d] \in ActivePhases => Open(d)',
           \A d \in Commands : pc'[d] \in Preparing => pc'[d] = pc[d],
           \A d \in Commands : \/ run'[d] = run[d] \/ run'[d] \in {"judging", "off"}
                               \/ run[d] = "harness" /\ run'[d] # "sealed"
    PROVE  InTurn'
  <1>1. \A c, d \in Commands : Open(c)' /\ Open(d)' => c = d
    BY DEF InTurn
  <1>2. ASSUME NEW c \in Commands, exec[c] \in ActivePhases PROVE Pending(c)'
    BY <1>2 DEF InTurn, Pending
  <1> QED
    BY <1>1, <1>2 DEF InTurn, Landed, HasRecord, Preparing

\* While a handler prepares its execution, its command is open and no execution
\* of the Shot is active.
LEMMA PreparerIsAlone ==
    ASSUME IInv, HandlersKnow, InTurn, NEW c \in Commands,
           pc[c] \in {"staging"} \cup Preparing
    PROVE  /\ Open(c) /\ ~HasRecord(c)
           /\ \A d \in Commands : exec[d] \notin ActivePhases
           /\ \A d \in Commands : d # c => pc[d] \notin {"staging"} \cup Preparing
  <1>1. \A d \in Commands : pc[d] \in {"staging"} \cup Preparing => Open(d) /\ ~HasRecord(d)
    BY DEF IInv, HandlerOwnsPreparation, HandlersKnow, Accepted, Preparing, Open, Terminal, HasRecord
  <1>2. \A d \in Commands : exec[d] \in ActivePhases => Open(d) /\ HasRecord(d)
    BY DEF InTurn, HasRecord, ActivePhases
  <1> QED
    BY <1>1, <1>2 DEF InTurn

\* While an execution is active, no handler prepares one and no other is active.
LEMMA ActiveIsAlone ==
    ASSUME IInv, HandlersKnow, InTurn, NEW c \in Commands, exec[c] \in ActivePhases
    PROVE  /\ Open(c) /\ HasRecord(c) /\ Pending(c)
           /\ \A d \in Commands : pc[d] \notin Preparing
           /\ \A d \in Commands : d # c => exec[d] \notin ActivePhases
  BY PreparerIsAlone DEF InTurn, HasRecord, ActivePhases

\* accepted_validation finds the Version of an active execution only when its own
\* instruction has landed.
LEMMA OutcomeLands ==
    ASSUME IInv, HandlersKnow, InTurn, NEW c \in Commands, exec[c] \in ActivePhases,
           NEW otherwise \in {"failed", "cancelled"}
    PROVE  /\ Outcome(c, otherwise) \in FinalPhases
           /\ Outcome(c, otherwise) = "completed" => Landed(c)
  <1>1. base \in [Commands -> Nat] /\ history \in Seq(Commands \cup {None})
    BY DEF IInv, TypeOK
  <1>2. Pending(c) /\ ordinal[c] = base[c] + 1
    BY ActiveIsAlone DEF InTurn
  <1>3. /\ Outcome(c, otherwise) \in FinalPhases
        /\ Outcome(c, otherwise) = "completed" => Len(history) >= ordinal[c]
    BY DEF Outcome, FinalPhases
  <1> QED
    BY <1>1, <1>2, <1>3 DEF Pending, Landed

\* An execution that ends completes only when its instruction has landed.
LEMMA EndsInTurn ==
    ASSUME IInv, HandlersKnow, InTurn, NEW c \in Commands, exec[c] \in ActivePhases,
           NEW outcome \in FinalPhases, outcome = "completed" => Landed(c),
           exec' = [exec EXCEPT ![c] = outcome],
           \A d \in Commands : cancel'[d] = "completed" => cancel[d] = "completed",
           UNCHANGED <<status, pc, base, history, staged, package, ordinal, intent>>
    PROVE  InTurn'
  <1>1. exec \in [Commands -> {"absent", "torn"} \cup ActivePhases \cup FinalPhases]
    BY DEF IInv, TypeOK
  <1>2. /\ Pending(c) /\ \A d \in Commands : d # c => exec[d] \notin ActivePhases
        /\ \A d \in Commands : pc[d] \notin Preparing
    BY ActiveIsAlone
  <1>3. ordinal[c] = base[c] + 1 /\ intent[c] = c
    BY ActiveIsAlone DEF InTurn
  <1>4. exec'[c] = outcome /\ outcome \notin ActivePhases
    BY <1>1 DEF FinalPhases, ActivePhases
  <1>5. \A d \in Commands : Landed(d)' = Landed(d)
    BY DEF Landed
  <1>6. \A d \in Commands : d # c => exec'[d] = exec[d]
    BY <1>1
  <1>7. \A d \in Commands : exec'[d] \notin ActivePhases
    BY <1>2, <1>4, <1>6
  <1>8. \A d \in Commands : Open(d)' = Open(d)
    BY DEF Open
  <1>9. \A d \in Commands : exec'[d] = "completed" \/ cancel'[d] = "completed" => Landed(d)'
    BY <1>4, <1>5, <1>6 DEF InTurn
  <1>10. \A d \in Commands : HasRecord(d)' => ordinal[d] = base[d] + 1 /\ intent[d] = d
    BY <1>3, <1>6 DEF InTurn, HasRecord
  <1> QED
    BY <1>2, <1>7, <1>8, <1>9, <1>10 DEF InTurn, Preparing

\* A step that publishes a status opens no command.
LEMMA OpensNone ==
    ASSUME NEW c \in Commands, NEW states, Becomes(c, states), Open(c)
    PROVE  \A d \in Commands : Open(d)' => Open(d)
  BY DEF Becomes, Open

\* A step that publishes a status closes only its own command.
LEMMA ClosesOwn ==
    ASSUME NEW c \in Commands, NEW states, Becomes(c, states)
    PROVE  \A d \in Commands : d # c /\ Open(d) => Open(d)'
  BY DEF Becomes, Open

\* Each action keeps the commands in turn.
LEMMA StepInTurn ==
    ASSUME Overlap = FALSE, MonitorErrors = FALSE, IInv, HandlersKnow, InTurn, [Next]_vars,
           raced = {}, raced' = {}
    PROVE  InTurn'
  <1>1. /\ pc \in [Commands -> HandlerSteps] /\ run \in [Commands -> RunSteps]
        /\ exec \in [Commands -> {"absent", "torn"} \cup ActivePhases \cup FinalPhases]
        /\ base \in [Commands -> Nat] /\ ordinal \in [Commands -> Nat]
        /\ intent \in [Commands -> Commands \cup {None}]
        /\ status \in [Commands -> Statuses \cup {None}]
        /\ history \in Seq(Commands \cup {None})
        /\ cancel \in [Commands -> CancelSteps]
    BY DEF IInv, TypeOK
  <1>2. \A d \in Commands : exec[d] \in ActivePhases => Open(d) /\ HasRecord(d)
    BY DEF InTurn, HasRecord, ActivePhases
  <1>3. /\ \A d \in Commands : run[d] # "off" => exec[d] = "in_flight" /\ exec[d] \in ActivePhases
        /\ \A d \in Commands : HasRecord(d) /\ done[d] = "none" => exec[d] \in ActivePhases
    BY <1>1 DEF IInv, MonitorFollowsReceipt, CompletionFollowsRecord, ActivePhases, FinalPhases, HasRecord
  <1> USE DEF Goto, handlers, ends, records, working
  <1>4. ASSUME status' = status PROVE \A d \in Commands : Open(d)' = Open(d)
    BY <1>4 DEF Open
  (* evolve_shot *)
  <1>5. ASSUME NEW c \in Commands, NEW b \in 0..MaxVersions, Submit(c, b) PROVE InTurn'
    <2>1. ~HasRecord(c) /\ exec' = exec /\ \A d \in Commands : ~Open(d)
      BY <1>5 DEF Submit, HandlersKnow
    <2>2. \A d \in Commands : d # c => ~Open(d)' /\ base'[d] = base[d] /\ pc'[d] = pc[d]
      BY <1>1, <1>5, <2>1 DEF Submit, Open
    <2>3. pc'[c] = "loaded" /\ UNCHANGED <<history, staged, package, ordinal, intent, cancel>>
      BY <1>1, <1>5 DEF Submit
    <2>4. \A d \in Commands : exec'[d] \notin ActivePhases
      BY <1>2, <2>1
    <2>5. cancel[c] = "none" /\ exec[c] # "completed"
      BY <2>1 DEF IInv, CompletionFollowsRecord, HasRecord
    <2> QED
      BY <2>1, <2>2, <2>3, <2>4, <2>5 DEF InTurn, Landed, HasRecord, Preparing
  <1>6. ASSUME NEW c \in Commands, \/ Retry(c) \/ ReplayReceipt(c) \/ LockEvolve(c)
                                 \/ RefusePreparation(c) \/ PreparationFails(c)
        PROVE  InTurn'
    <2>1. /\ UNCHANGED <<history, staged, package, base, exec, ordinal, intent, cancel, run, status>>
          /\ \E step \in {"loaded", "idle", "staging"} : pc' = [pc EXCEPT ![c] = step]
      BY <1>6 DEF Retry, ReplayReceipt, LockEvolve, RefusePreparation, PreparationFails
    <2>2. \A d \in Commands : pc'[d] \in Preparing => pc'[d] = pc[d]
      BY <1>1, <2>1 DEF Preparing
    <2> QED
      BY <1>2, <1>4, <2>1, <2>2, KeepsTurn
  <1>7. ASSUME NEW c \in Commands, Resume(c) PROVE InTurn'
    <2>1. /\ UNCHANGED <<history, staged, package, base, exec, ordinal, intent, cancel, run>>
          /\ \E step \in {"checking", "receipt", "idle"} : pc' = [pc EXCEPT ![c] = step]
      BY <1>7 DEF Resume
    <2>2. \A d \in Commands : pc'[d] \in Preparing => pc'[d] = pc[d]
      BY <1>1, <2>1 DEF Preparing
    <2>3. CASE status' = status
      BY <1>2, <1>4, <2>1, <2>2, <2>3, KeepsTurn
    <2>4. CASE Becomes(c, {"validated"}) /\ status[c].state = "received"
      <3>1. Open(c) /\ Open(c)'
        BY <2>4 DEF Becomes, Open, Terminal
      <3> QED
        BY <1>2, <2>1, <2>2, <2>4, <3>1, OpensNone, ClosesOwn, KeepsTurn
    <2> QED
      BY <1>7, <2>3, <2>4, StatusMoves
  <1>8. ASSUME NEW c \in Commands, Reject(c) \/ FailEvolve(c) PROVE InTurn'
    <2>1. /\ UNCHANGED <<history, staged, package, base, exec, ordinal, intent, cancel, run>>
          /\ pc' = [pc EXCEPT ![c] = "idle"]
      BY <1>8 DEF Reject, FailEvolve
    <2>2. \E states : Becomes(c, states)
      BY <1>8, StatusMoves
    <2>3. Open(c)
      BY <1>8, <2>2 DEF Reject, FailEvolve, HandlersKnow, Accepted, Open, Terminal, Becomes
    <2>4. ~HasRecord(c)
      BY <1>8, <2>2 DEF Reject, FailEvolve, HandlersKnow, Becomes
    <2>5. \A d \in Commands : pc'[d] \in Preparing => pc'[d] = pc[d]
      BY <1>1, <2>1 DEF Preparing
    <2> QED
      BY <1>2, <2>1, <2>2, <2>3, <2>4, <2>5, OpensNone, ClosesOwn, KeepsTurn
  <1>9. ASSUME NEW c \in Commands, Accept(c) \/ PublishReceipt(c) PROVE InTurn'
    <2>1. /\ UNCHANGED <<history, staged, package, base, exec, ordinal, intent, cancel, run>>
          /\ \E step \in {"evolving", "idle"} : pc' = [pc EXCEPT ![c] = step]
      BY <1>9 DEF Accept, PublishReceipt
    <2>2. Becomes(c, {"accepted"}) \/ Becomes(c, {"running"})
      BY <1>9, StatusMoves
    <2>3. Open(c) /\ Open(c)'
      BY <1>9, <2>2 DEF Accept, PublishReceipt, HandlersKnow, Accepted, Open, Terminal, Becomes
    <2>4. \A d \in Commands : pc'[d] \in Preparing => pc'[d] = pc[d]
      BY <1>1, <2>1 DEF Preparing
    <2> QED
      BY <1>2, <2>1, <2>2, <2>3, <2>4, OpensNone, ClosesOwn, KeepsTurn
  <1>10. ASSUME NEW c \in Commands, StageEvolve(c) PROVE InTurn'
    <2>1. /\ UNCHANGED <<history, base, exec, ordinal, intent, cancel, run, status>>
          /\ pc' = [pc EXCEPT ![c] = "preparing"] /\ staged' = c /\ package' = c
          /\ pc[c] = "staging" /\ Len(history) = base[c]
      BY <1>10 DEF StageEvolve, HandlersKnow
    <2>2. /\ \A d \in Commands : exec[d] \notin ActivePhases
          /\ \A d \in Commands : d # c => pc[d] \notin Preparing
      BY <2>1, PreparerIsAlone
    <2>3. /\ pc'[c] = "preparing"
          /\ \A d \in Commands : d # c => pc'[d] = pc[d]
      BY <1>1, <2>1
    <2> QED
      BY <1>4, <2>1, <2>2, <2>3 DEF InTurn, Landed, HasRecord, Preparing
  <1>11. ASSUME NEW c \in Commands, PrepareExecution(c) PROVE InTurn'
    <2>1. /\ UNCHANGED <<history, base, exec, staged, package, cancel, run, status>>
          /\ pc' = [pc EXCEPT ![c] = "creating"] /\ pc[c] = "preparing"
          /\ Len(history) = base[c] /\ staged = c /\ package = c
      BY <1>11 DEF PrepareExecution, InTurn, Preparing
    <2>2. /\ \A d \in Commands : exec[d] \notin ActivePhases
          /\ \A d \in Commands : d # c => pc[d] \notin Preparing
      BY <2>1, PreparerIsAlone DEF Preparing
    <2>3. /\ pc'[c] = "creating" /\ ordinal'[c] = base[c] + 1 /\ intent'[c] = c
          /\ \A d \in Commands : d # c => pc'[d] = pc[d] /\ ordinal'[d] = ordinal[d] /\ intent'[d] = intent[d]
      BY <1>1, <1>11, <2>1 DEF PrepareExecution
    <2> QED
      BY <1>4, <2>1, <2>2, <2>3 DEF InTurn, Landed, HasRecord, Preparing
  <1>12. ASSUME NEW c \in Commands, MakeDirectory(c) PROVE InTurn'
    <2>1. /\ UNCHANGED <<history, base, ordinal, intent, cancel, staged, package, run, status>>
          /\ pc' = [pc EXCEPT ![c] = "writing"] /\ pc[c] = "creating"
          /\ exec' = [exec EXCEPT ![c] = "torn"]
      BY <1>12 DEF MakeDirectory
    <2>2. \A d \in Commands : exec[d] \notin ActivePhases
      BY <2>1, PreparerIsAlone DEF Preparing
    <2>3. /\ pc'[c] = "writing" /\ exec'[c] = "torn" /\ exec'[c] \notin ActivePhases
          /\ \A d \in Commands : d # c => pc'[d] = pc[d] /\ exec'[d] = exec[d]
      BY <1>1, <2>1 DEF ActivePhases
    <2>4. \A d \in Commands : exec'[d] \notin ActivePhases
      BY <2>2, <2>3
    <2> QED
      BY <1>4, <2>1, <2>3, <2>4 DEF InTurn, Landed, HasRecord, Preparing
  <1>13. ASSUME NEW c \in Commands, WriteRecord(c) PROVE InTurn'
    <2>1. /\ UNCHANGED <<history, base, ordinal, intent, cancel, staged, package, run, status>>
          /\ pc' = [pc EXCEPT ![c] = "receipt"] /\ pc[c] = "writing"
          /\ exec' = [exec EXCEPT ![c] = "prepared"]
      BY <1>13 DEF WriteRecord
    <2>2. Open(c) /\ \A d \in Commands : exec[d] \notin ActivePhases
      BY <2>1, PreparerIsAlone DEF Preparing
    <2>3. /\ pc'[c] = "receipt" /\ exec'[c] = "prepared"
          /\ \A d \in Commands : d # c => pc'[d] = pc[d] /\ exec'[d] = exec[d]
      BY <1>1, <2>1
    <2>5. run[c] = "off"
      BY <2>1 DEF IInv, MonitorFollowsReceipt, HandlerOwnsPreparation, HasRecord
    <2>4. Pending(c)'
      BY <2>1, <2>5 DEF InTurn, Preparing, Pending
    <2> QED
      BY <1>4, <2>1, <2>2, <2>3, <2>4 DEF InTurn, Landed, HasRecord, Preparing
  (* the execution *)
  <1>14. ASSUME NEW c \in Commands, NEW phase \in {"in_flight", "waiting_for_device"}, exec[c] \in ActivePhases,
                exec' = [exec EXCEPT ![c] = phase], Len(history) = base[c], staged = c, run'[c] # "sealed",
                UNCHANGED <<status, pc, history, base, ordinal, intent, cancel, staged, package>>
         PROVE  InTurn'
    <2>1. /\ Open(c) /\ HasRecord(c)
          /\ \A d \in Commands : d # c => exec[d] \notin ActivePhases
          /\ \A d \in Commands : pc[d] \notin Preparing
      BY <1>14, ActiveIsAlone
    <2>2. /\ exec'[c] = phase /\ phase # "completed"
          /\ \A d \in Commands : d # c => exec'[d] = exec[d]
      BY <1>1, <1>14
    <2>3. Pending(c)'
      BY <1>14 DEF Pending
    <2> QED
      BY <1>4, <1>14, <2>1, <2>2, <2>3 DEF InTurn, Landed, HasRecord, Preparing
  <1>15. ASSUME NEW c \in Commands, StartExecution(c) PROVE InTurn'
    <2>1. exec[c] \in ActivePhases /\ exec[c] # "in_flight"
      BY <1>15 DEF StartExecution, ActivePhases
    <2>2. Len(history) = base[c] /\ staged = c /\ run'[c] # "sealed"
      BY <1>1, <1>15, <2>1 DEF InTurn, Pending, StartExecution
    <2> QED
      BY <1>14, <1>15, <2>1, <2>2 DEF StartExecution
  <1>16. ASSUME NEW c \in Commands, AwaitDevice(c) \/ BeginRecording(c) PROVE InTurn'
    <2>1. exec[c] \in ActivePhases /\ run[c] \in {"harness", "recording"}
      BY <1>3, <1>16 DEF AwaitDevice, BeginRecording
    <2>2. Len(history) = base[c] /\ staged = c
      BY <2>1 DEF InTurn, Pending
    <2>3. run'[c] # "sealed"
      BY <1>1, <1>16 DEF AwaitDevice, BeginRecording
    <2> QED
      BY <1>14, <1>16, <2>1, <2>2, <2>3 DEF AwaitDevice, BeginRecording
  <1>17. ASSUME NEW c \in Commands, HarnessEdits(c) \/ RecordingFails(c) \/ KillRunner(c)
         PROVE  InTurn'
    <2>1. UNCHANGED <<history, staged, package, base, exec, ordinal, intent, cancel, pc, status>>
      BY <1>17 DEF HarnessEdits, RecordingFails, KillRunner
    <2>2. \A d \in Commands : run'[d] = run[d] \/ run'[d] \in {"judging", "off"}
      BY <1>1, <1>17 DEF HarnessEdits, RecordingFails, KillRunner, RunnerDies
    <2> QED
      BY <1>2, <1>4, <2>1, <2>2, KeepsTurn
  <1>18. ASSUME NEW c \in Commands, Seal(c) PROVE InTurn'
    <2>1. /\ run[c] = "recording" /\ run' = [run EXCEPT ![c] = "sealed"]
          /\ history' = Append(history, staged)
          /\ UNCHANGED <<package, staged, base, exec, ordinal, intent, cancel, pc, status>>
      BY <1>18 DEF Seal, HandlersKnow
    <2>2. exec[c] = "in_flight" /\ exec[c] \in ActivePhases
      BY <1>3, <2>1
    <2>3. /\ Open(c) /\ Pending(c)
          /\ \A d \in Commands : d # c => exec[d] \notin ActivePhases
          /\ \A d \in Commands : pc[d] \notin Preparing
      BY <2>2, ActiveIsAlone
    <2>4. Len(history) = base[c] /\ staged = c
      BY <2>1, <2>3 DEF Pending
    <2>5. /\ Len(history') = base[c] + 1 /\ history'[base[c] + 1] = c
          /\ \A i \in DOMAIN history : i \in DOMAIN history' /\ history'[i] = history[i]
      BY <1>1, <2>1, <2>4
    <2>6. Pending(c)'
      BY <1>1, <2>1, <2>2, <2>5 DEF Pending
    <2>7. \A d \in Commands : Landed(d) => Landed(d)'
      BY <2>1, <2>5 DEF Landed
    <2> QED
      BY <1>4, <2>1, <2>3, <2>6, <2>7 DEF InTurn, HasRecord, Preparing
  <1>26. ASSUME NEW c \in Commands, FinishSeal(c) \/ FinishSealFails(c) PROVE InTurn'
    <2>1. /\ run[c] = "sealed" /\ run' = [run EXCEPT ![c] = "judging"]
          /\ UNCHANGED <<history, package, base, exec, ordinal, intent, cancel, pc, status>>
      BY <1>26 DEF FinishSeal, FinishSealFails
    <2>2. /\ Open(c) /\ Pending(c)
          /\ \A d \in Commands : d # c => exec[d] \notin ActivePhases
          /\ \A d \in Commands : pc[d] \notin Preparing
      BY <1>3, <2>1, ActiveIsAlone
    <2>3. Pending(c)'
      BY <1>1, <2>1, <2>2 DEF Pending
    <2> QED
      BY <1>4, <2>1, <2>2, <2>3 DEF InTurn, Landed, HasRecord, Preparing
  <1>19. ASSUME NEW c \in Commands, Complete(c) \/ FinalizeAbandoned(c) PROVE InTurn'
    <2>1. exec[c] \in ActivePhases
      BY <1>3, <1>19 DEF Complete, FinalizeAbandoned, ActivePhases
    <2>2. exec' = [exec EXCEPT ![c] = Outcome(c, "failed")]
      BY <1>19 DEF Complete, FinalizeAbandoned, Publish
    <2>3. UNCHANGED <<status, pc, base, history, staged, package, ordinal, intent, cancel>>
      BY <1>19 DEF Complete, FinalizeAbandoned
    <2>4. /\ Outcome(c, "failed") \in FinalPhases
          /\ Outcome(c, "failed") = "completed" => Landed(c)
      BY <2>1, OutcomeLands
    <2> QED
      BY <2>1, <2>2, <2>3, <2>4, EndsInTurn
  (* shot cancel *)
  <1>20. ASSUME NEW c \in Commands, CancelSignal(c) PROVE InTurn'
    <2>1. /\ UNCHANGED <<history, staged, package, base, exec, ordinal, intent, pc, status>>
          /\ run' = [run EXCEPT ![c] = "off"] /\ cancel' = [cancel EXCEPT ![c] = "signalled"]
      BY <1>20 DEF CancelSignal, RunnerDies
    <2>2. \A d \in Commands : exec[d] \in ActivePhases => Pending(d)'
      BY <1>1, <2>1 DEF InTurn, Pending
    <2>3. \A d \in Commands : cancel'[d] = "completed" => cancel[d] = "completed"
      BY <1>1, <2>1
    <2> QED
      BY <1>4, <2>1, <2>2, <2>3 DEF InTurn, Landed, HasRecord, Preparing
  <1>27. ASSUME NEW c \in Commands, CancelCheck(c) PROVE InTurn'
    <2>1. UNCHANGED <<history, staged, package, base, exec, ordinal, intent, pc, run, status>>
      BY <1>27 DEF CancelCheck
    <2>2. \A d \in Commands : d # c => cancel'[d] = cancel[d]
      BY <1>1, <1>27 DEF CancelCheck
    <2>3. ASSUME cancel'[c] = "completed" PROVE Landed(c)
      <3>1. HasRecord(c)
        BY <1>27 DEF CancelCheck, CancelStarts, IInv, CompletionFollowsRecord
      <3>2. done[c] = "none" /\ Outcome(c, "cancelled") = "completed"
        BY <1>1, <1>27, <2>3 DEF CancelCheck
      <3> QED
        BY <1>3, <3>1, <3>2, OutcomeLands
    <2>4. \A d \in Commands : cancel'[d] = "completed" => Landed(d)
      BY <2>2, <2>3 DEF InTurn
    <2> QED
      BY <1>4, <2>1, <2>4 DEF InTurn, Landed, Pending, HasRecord, Preparing
  <1>28. ASSUME NEW c \in Commands, CancelWrite(c) PROVE InTurn'
    <2>1. /\ cancel[c] \in {"completed", "cancelled"} /\ exec' = [exec EXCEPT ![c] = cancel[c]]
          /\ cancel' = [cancel EXCEPT ![c] = "none"]
          /\ UNCHANGED <<status, pc, base, history, staged, package, ordinal, intent>>
      BY <1>28 DEF CancelWrite, Publish
    <2>2. done[c] = "none"
      BY <1>28 DEF CancelWrite
    <2>3. exec[c] \in ActivePhases
      BY <1>3, <2>1, <2>2 DEF IInv, CompletionFollowsRecord
    <2>4. cancel[c] \in FinalPhases /\ (cancel[c] = "completed" => Landed(c))
      BY <2>1 DEF InTurn, FinalPhases
    <2>5. \A d \in Commands : cancel'[d] = "completed" => cancel[d] = "completed"
      BY <1>1, <2>1
    <2> QED
      BY <2>1, <2>3, <2>4, <2>5, EndsInTurn
  (* reconcile_execution_status *)
  <1>21. ASSUME NEW c \in Commands, Project(c) PROVE InTurn'
    <2>1. UNCHANGED <<history, staged, package, base, exec, ordinal, intent, cancel, pc, run>>
      BY <1>21 DEF Project
    <2>2. Becomes(c, {"running", "waiting_for_device"})
      BY <1>21, StatusMoves
    <2>3. Open(c) /\ Open(c)'
      BY <1>21, <2>2 DEF Project, Becomes, Open, Terminal
    <2> QED
      BY <1>2, <2>1, <2>2, <2>3, OpensNone, ClosesOwn, KeepsTurn
  <1>22. ASSUME NEW c \in Commands, Reconcile(c) PROVE InTurn'
    <2>1. UNCHANGED <<history, staged, package, base, exec, ordinal, intent, cancel, pc, run>>
      BY <1>22 DEF Reconcile
    <2>2. CASE status' = status
      BY <1>2, <1>4, <2>1, <2>2, KeepsTurn
    <2>3. CASE Becomes(c, {done[c]}) /\ status' # status
      <3>1. exec[c] \notin ActivePhases
        BY <1>22 DEF Reconcile, IInv, CompletionFollowsRecord, FinalPhases, ActivePhases
      <3>2. Open(c)
        BY <1>22, <2>3 DEF Reconcile, Becomes, Open
      <3> QED
        BY <1>2, <2>1, <2>3, <3>1, <3>2, OpensNone, ClosesOwn, KeepsTurn
    <2> QED
      BY <1>22, <2>2, <2>3, StatusMoves
  <1>23. ASSUME NEW c \in Commands, GiveUp(c) PROVE InTurn'
    BY <1>23 DEF GiveUp, Contradicts, IInv, CompletionFollowsRecord, FinalPhases
  <1>24. CASE StopService
    <2>1. UNCHANGED <<history, staged, package, base, exec, ordinal, intent, cancel, run, status>>
      BY <1>24 DEF StopService
    <2>2. \A d \in Commands : pc'[d] = "idle"
      BY <1>24 DEF StopService
    <2> QED
      BY <1>2, <1>4, <2>1, <2>2, KeepsTurn DEF Preparing
  <1>25. CASE UNCHANGED vars
    <2>1. UNCHANGED <<history, staged, package, base, exec, ordinal, intent, cancel, pc, run, status>>
      BY <1>25 DEF vars
    <2> QED
      BY <1>2, <1>4, <2>1, KeepsTurn
  <1> QED
    BY <1>5, <1>6, <1>7, <1>8, <1>9, <1>10, <1>11, <1>12, <1>13, <1>15, <1>16, <1>17, <1>18, <1>19,
       <1>20, <1>21, <1>22, <1>23, <1>24, <1>25, <1>26, <1>27, <1>28
       DEF Next, Handle, Execute, Monitor, CancelStep, Fault

\* A cancel that raced stays on record.
LEMMA RacedStays == [Next]_vars => raced \subseteq raced'
  <1> SUFFICES ASSUME [Next]_vars PROVE raced \subseteq raced'
    OBVIOUS
  <1> USE DEF ends, records
  <1>1. ASSUME NEW c \in Commands, CancelStep(c) \/ Fault(c) \/ HarnessEdits(c) PROVE raced \subseteq raced'
    BY <1>1 DEF CancelStep, CancelSignal, CancelCheck, CancelWrite, Fault, PreparationFails,
                FinishSealFails, KillRunner, HarnessEdits
  <1>2. ASSUME NEW c \in Commands, Handle(c) PROVE raced' = raced
    BY <1>2 DEF Handle, ReplayReceipt, Resume, Reject, Accept, LockEvolve, FailEvolve, StageEvolve,
                PrepareExecution, RefusePreparation, MakeDirectory, WriteRecord, PublishReceipt
  <1>3. ASSUME NEW c \in Commands, Execute(c) \/ Monitor(c) PROVE raced' = raced
    BY <1>3 DEF Execute, StartExecution, BeginRecording, RecordingFails, Seal, FinishSeal, AwaitDevice,
                Complete, Monitor, FinalizeAbandoned, Project, Reconcile, GiveUp
  <1>4. ASSUME NEW c \in Commands, Retry(c) \/ \E b \in 0..MaxVersions : Submit(c, b) PROVE raced' = raced
    BY <1>4 DEF Retry, Submit
  <1>5. StopService \/ UNCHANGED vars => raced' = raced
    BY DEF StopService, vars
  <1> QED
    BY <1>1, <1>2, <1>3, <1>4, <1>5 DEF Next

\* What holds in every state when commands come one after another.
LEMMA AlwaysInTurn ==
    ASSUME Overlap = FALSE, MonitorErrors = FALSE
    PROVE  Spec => [](IInv /\ HandlersKnow /\ (raced = {} => InTurn))
  <1>1. Init => IInv /\ HandlersKnow
    BY InitIInv, InitKnows
  <1>2. Init => InTurn
    BY DEF Init, InTurn, HasRecord, Preparing, ActivePhases, Open
  <1>3. IInv /\ HandlersKnow /\ (raced = {} => InTurn) /\ [Next]_vars
           => (IInv /\ HandlersKnow /\ (raced = {} => InTurn))'
    <2> SUFFICES ASSUME IInv, HandlersKnow, raced = {} => InTurn, [Next]_vars
                 PROVE  (IInv /\ HandlersKnow /\ (raced = {} => InTurn))'
      OBVIOUS
    <2>1. IInv' /\ HandlersKnow'
      BY StepIInv, StepHandlersKnow
    <2>2. raced' = {} => raced = {}
      BY RacedStays
    <2>3. raced' = {} => InTurn'
      BY <2>2, StepInTurn
    <2> QED BY <2>1, <2>3
  <1> QED BY <1>1, <1>2, <1>3, PTL DEF Spec

\* A status that says running or completed was published with the receipt of an
\* execution record.
LEMMA AnsweredHasRecord ==
    ASSUME IInv, HandlersKnow, raced = {}, NEW c \in Commands,
           StateOf(c) \in {"running", "completed"}
    PROVE  HasRecord(c) /\ (StateOf(c) = "completed" => exec[c] = "completed")
  <1>1. status[c] # None /\ StateOf(c) = status[c].state
    <2>1. CASE status[c] = None
      BY <2>1, CommandsAssumption DEF StateOf, CommandStates
    <2> QED BY <2>1 DEF StateOf
  <1>2. status[c].receipt # None
    BY <1>1 DEF HandlersKnow
  <1>3. HasRecord(c) /\ (StateOf(c) = "completed" => done[c] = "completed")
    BY <1>1, <1>2 DEF IInv, OutcomesAgree, Terminal
  <1> QED
    BY <1>3 DEF IInv, CompletionFollowsRecord

\* evolve_shot binds a command's execution to the exact Version its sender saw and
\* to its own intention, when commands of a Shot are submitted one after another,
\* no monitor gives up and no cancel has raced, wherever the service or a runner
\* stops.
THEOREM BasesAreExact ==
    ASSUME Overlap = FALSE, MonitorErrors = FALSE PROVE Spec => []ExactBase
  <1>1. IInv /\ HandlersKnow /\ (raced = {} => InTurn) => ExactBase
    BY AnsweredHasRecord DEF InTurn, ExactBase
  <1> QED BY <1>1, AlwaysInTurn, PTL

\* Under the same conditions a command that reconcile_execution_status reports as
\* completed has landed: the Version its execution claims is its own instruction.
THEOREM CompletionsAreOwn ==
    ASSUME Overlap = FALSE, MonitorErrors = FALSE PROVE Spec => []CompletedIsOwn
  <1>1. IInv /\ HandlersKnow /\ (raced = {} => InTurn) => CompletedIsOwn
    <2> SUFFICES ASSUME IInv, HandlersKnow, raced = {}, InTurn, NEW c \in Commands,
                        StateOf(c) = "completed"
                 PROVE  ordinal[c] \in DOMAIN history /\ history[ordinal[c]] = c
      BY DEF CompletedIsOwn
    <2>1. HasRecord(c) /\ exec[c] = "completed"
      BY AnsweredHasRecord
    <2> QED
      BY <2>1 DEF InTurn, Landed
  <1> QED BY <1>1, AlwaysInTurn, PTL

=============================================================================
