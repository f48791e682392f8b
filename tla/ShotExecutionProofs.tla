------------------------ MODULE ShotExecutionProofs ------------------------
(***************************************************************************)
(* Proofs about one durable execution, for every number of runners,        *)
(* supervisors and cancellers and every bound.  Run by hand, cancelled,    *)
(* killed, restarted or suspended at any step: at most one process tree    *)
(* works on it, expensive work happens under the factory lease, and it is  *)
(* called completed only when a Version was accepted.  Supervised, with    *)
(* processes and the Mac dying and steps failing anywhere: it implements   *)
(* the safety part of ExecutionPromise and its records agree; final means  *)
(* quiet unless a step failed beside a live harness.                       *)
(***************************************************************************)
EXTENDS ShotExecution, TLAPS

\* A process on its way to a completion record knows the outcome it writes.
OutcomeIsChosen ==
    \A a \in Actors : pc[a] \in CompletionSteps => verdict[a] \in Final

\* run.claim is a lock: a working runner has its descriptor open, only a runner
\* at work or completing has, an open descriptor (its own, or inherited by its
\* harness) means that its claim is held, and a probing supervisor holds the
\* claim itself.
ClaimIsLock ==
    /\ \A r \in Runners : Working(r) => r \in owns
    /\ \A r \in Runners : r \in owns => Working(r) \/ pc[r] \in CompletionSteps
    /\ \A r \in Runners : r \in owns \cup harness => claim = r
    /\ \A s \in Supervisors :
            pc[s] \in {"probing_live", "probing_dead"} => claim = s

\* A runner does not have the lease before it takes it, and has it right after.
LeaseIsTaken ==
    /\ LeaseCoversExpensiveWork
    /\ \A r \in Runners :
            /\ pc[r] \in {"loading", "claiming", "claimed", "leasing"} => lease # r
            /\ pc[r] \in {"leased", "reacquired"} => lease = r

\* Whoever is about to write completed has seen an accepted Version.
CompletionIsJustified ==
    /\ CompletedMeansAccepted
    /\ \A a \in Actors : verdict[a] = "completed" => versions > 0

TypeInv == TypeOK /\ OutcomeIsChosen
ClaimInv == TypeInv /\ ClaimIsLock
LeaseInv == TypeInv /\ LeaseIsTaken
AcceptInv == TypeInv /\ CompletionIsJustified

\* Every action keeps the types and a chosen outcome.
LEMMA StepType == TypeInv /\ [Next]_vars => TypeInv'
  <1> SUFFICES ASSUME TypeInv, [Next]_vars PROVE TypeInv'
    OBVIOUS
  <1> USE ExecutionAssumption
  <1> USE DEF TypeInv, TypeOK, OutcomeIsChosen, Actors, Phases, Final,
              RunnerSteps, SupervisorSteps, CancelSteps, CompletionSteps,
              vars, files, locks, history, bounds
  <1>1. ASSUME NEW r \in Runners, ManualRun(r) PROVE TypeInv'
    BY <1>1 DEF ManualRun, Born, Spawnable, Goto
  <1>2. ASSUME NEW r \in Runners, Load(r) PROVE TypeInv'
    BY <1>2 DEF Load, Goto
  <1>3. ASSUME NEW r \in Runners, Claim(r) PROVE TypeInv'
    BY <1>3 DEF Claim, Goto
  <1>4. ASSUME NEW r \in Runners, LoseClaim(r) PROVE TypeInv'
    BY <1>4 DEF LoseClaim, Goto
  <1>5. ASSUME NEW r \in Runners, EnterRun(r) PROVE TypeInv'
    BY <1>5 DEF EnterRun, Goto
  <1>6. ASSUME NEW r \in Runners, RefuseRun(r) PROVE TypeInv'
    BY <1>6 DEF RefuseRun, Goto, ReleaseClaim
  <1>7. ASSUME NEW r \in Runners, TakeLease(r) PROVE TypeInv'
    BY <1>7 DEF TakeLease, Goto
  <1>8. ASSUME NEW r \in Runners, BeginExecution(r) PROVE TypeInv'
    BY <1>8 DEF BeginExecution, Goto, UpdatePhase, Append
  <1>9. ASSUME NEW r \in Runners, SpawnHarness(r) PROVE TypeInv'
    BY <1>9 DEF SpawnHarness, Goto
  <1>10. ASSUME NEW r \in Runners, RecordHarness(r) PROVE TypeInv'
    BY <1>10 DEF RecordHarness, Goto, UpdatePhase, Append
  <1>11. ASSUME NEW r \in Runners, HarnessExits(r) PROVE TypeInv'
    BY <1>11 DEF HarnessExits
  <1>12. ASSUME NEW r \in Runners, HarnessSucceeded(r) PROVE TypeInv'
    BY <1>12 DEF HarnessSucceeded, Goto, UpdatePhase, Append
  <1>13. ASSUME NEW r \in Runners, NEW reason \in {"failed", "cancelled"},
                HarnessFailed(r, reason)
         PROVE  TypeInv'
    BY <1>13 DEF HarnessFailed, Goto
  <1>14. ASSUME NEW r \in Runners, GatesAccept(r) PROVE TypeInv'
    BY <1>14 DEF GatesAccept, Goto
  <1>15. ASSUME NEW r \in Runners, GatesRefuse(r) PROVE TypeInv'
    BY <1>15 DEF GatesRefuse, Goto
  <1>16. ASSUME NEW r \in Runners, Repair(r) PROVE TypeInv'
    BY <1>16 DEF Repair, Goto
  <1>17. ASSUME NEW r \in Runners, DeviceMissing(r) PROVE TypeInv'
    BY <1>17 DEF DeviceMissing, Goto, UpdatePhase, Append, ReleaseLease
  <1>18. ASSUME NEW r \in Runners, DeviceArrives(r) PROVE TypeInv'
    BY <1>18 DEF DeviceArrives, Goto
  <1>19. ASSUME NEW r \in Runners, ResumeDelivery(r) PROVE TypeInv'
    BY <1>19 DEF ResumeDelivery, Goto, UpdatePhase, Append
  <1>20. ASSUME NEW r \in Runners, KillRunner(r) PROVE TypeInv'
    BY <1>20 DEF KillRunner, Goto, ReleaseClaim, ReleaseLease, Fault
  <1>21. ASSUME NEW r \in Runners, StepFails(r) PROVE TypeInv'
    BY <1>21 DEF StepFails, Goto, ReleaseClaim, ReleaseLease, Fault
  <1>22. ASSUME NEW a \in Actors, Judge(a) PROVE TypeInv'
    BY <1>22 DEF Judge, Goto
  <1>23. ASSUME NEW a \in Actors, JudgeUnreadable(a) PROVE TypeInv'
    BY <1>23 DEF JudgeUnreadable, Goto, Fault
  <1>24. ASSUME NEW a \in Actors, Validate(a) PROVE TypeInv'
    BY <1>24 DEF Validate, Goto, UpdatePhase, Append
  <1>25. ASSUME NEW a \in Actors, PublishCompletion(a) PROVE TypeInv'
    BY <1>25 DEF PublishCompletion, Goto
  <1>26. ASSUME NEW a \in Actors, FinalizePhase(a) PROVE TypeInv'
    BY <1>26 DEF FinalizePhase, Goto
  <1>27. ASSUME NEW a \in Actors, Conclude(a) PROVE TypeInv'
    BY <1>27 DEF Conclude, Goto, Append, ReleaseClaim, ReleaseLease
  <1>28. ASSUME NEW a \in Actors, FinalizeStalled(a) PROVE TypeInv'
    BY <1>28 DEF FinalizeStalled, Goto
  <1>29. ASSUME NEW a \in Actors, ReconcileCompletion(a) PROVE TypeInv'
    BY <1>29 DEF ReconcileCompletion, Goto
  <1>30. ASSUME NEW a \in Actors, LeaveStalled(a) PROVE TypeInv'
    BY <1>30 DEF LeaveStalled, Goto, Return
  <1>31. ASSUME NEW s \in Supervisors, LockLauncher(s) PROVE TypeInv'
    BY <1>31 DEF LockLauncher, Goto
  <1>32. ASSUME NEW s \in Supervisors, ObserveClaimed(s) PROVE TypeInv'
    BY <1>32 DEF ObserveClaimed, Goto, Return
  <1>33. ASSUME NEW s \in Supervisors, ProbeClaim(s) PROVE TypeInv'
    BY <1>33 DEF ProbeClaim, Goto
  <1>34. ASSUME NEW s \in Supervisors, Dispose(s) PROVE TypeInv'
    BY <1>34 DEF Dispose, Goto, Return
  <1>35. ASSUME NEW s \in Supervisors, PrepareLaunch(s) PROVE TypeInv'
    BY <1>35 DEF PrepareLaunch, Goto, UpdatePhase, Append
  <1>36. ASSUME NEW s \in Supervisors, NEW r \in Runners, SpawnRunner(s, r)
         PROVE  TypeInv'
    BY <1>36 DEF SpawnRunner, Born, Spawnable
  <1>37. ASSUME NEW s \in Supervisors, HandOver(s) PROVE TypeInv'
    BY <1>37 DEF HandOver, Goto, Return
  <1>38. ASSUME NEW s \in Supervisors, FailHandOver(s) PROVE TypeInv'
    <2>1. /\ spawned[s] \in Runners \cup {None}
          /\ pc' = [pc EXCEPT ![s] = "idle", ![spawned[s]] = "off"]
          /\ verdict' = [verdict EXCEPT ![spawned[s]] = None]
      BY <1>38 DEF FailHandOver
    <2>2. pc' \in [Actors -> RunnerSteps \cup SupervisorSteps \cup CancelSteps
                               \cup CompletionSteps]
      BY <2>1
    <2>3. verdict' \in [Actors -> Final \cup {None}]
      BY <2>1
    <2>4. TypeOK'
      BY <1>38, <2>2, <2>3 DEF FailHandOver, UpdatePhase, Append,
         ReleaseClaim, ReleaseLease
    <2>5. ASSUME NEW a \in Actors, pc'[a] \in CompletionSteps
          PROVE  verdict'[a] \in Final
      <3>1. a # s /\ a # spawned[s]
        BY <2>1, <2>5
      <3> QED BY <2>1, <2>5, <3>1
    <2> QED BY <2>4, <2>5
  <1>39. ASSUME NEW s \in Supervisors, KillSupervisor(s) PROVE TypeInv'
    BY <1>39 DEF KillSupervisor, Goto, Return, Fault
  <1>40. ASSUME NEW k \in Cancellers, CancelLiveRunner(k) PROVE TypeInv'
    BY <1>40 DEF CancelLiveRunner, Goto, RecordedRunnerIsAlive, Alive
  <1>41. ASSUME NEW k \in Cancellers, CancelInPlace(k) PROVE TypeInv'
    BY <1>41 DEF CancelInPlace, Goto
  <1>42. ASSUME NEW k \in Cancellers, CancelRefused(k) PROVE TypeInv'
    BY <1>42 DEF CancelRefused
  <1>43. ASSUME NEW k \in Cancellers, Signal(k) PROVE TypeInv'
    <2>1. /\ spawned[k] \in Runners \cup {None}
          /\ pc' = [pc EXCEPT ![k] = "signalled", ![spawned[k]] = "off"]
          /\ verdict' = [verdict EXCEPT ![spawned[k]] = None]
      BY <1>43 DEF Signal
    <2>2. pc' \in [Actors -> RunnerSteps \cup SupervisorSteps \cup CancelSteps
                               \cup CompletionSteps]
      BY <2>1
    <2>3. verdict' \in [Actors -> Final \cup {None}]
      BY <2>1
    <2>4. TypeOK'
      BY <1>43, <2>2, <2>3 DEF Signal, ReleaseClaim, ReleaseLease
    <2>5. ASSUME NEW a \in Actors, pc'[a] \in CompletionSteps
          PROVE  verdict'[a] \in Final
      <3>1. a # k /\ a # spawned[k]
        BY <2>1, <2>5
      <3> QED BY <2>1, <2>5, <3>1
    <2> QED BY <2>4, <2>5
  <1>44. ASSUME NEW k \in Cancellers, SignalLate(k) PROVE TypeInv'
    BY <1>44 DEF SignalLate, Goto
  <1>45. ASSUME NEW k \in Cancellers, CancelStopped(k) PROVE TypeInv'
    BY <1>45 DEF CancelStopped, Goto
  <1>46. ASSUME RestartMac PROVE TypeInv'
    BY <1>46 DEF RestartMac, Fault
  <1>47. ASSUME OtherTakesLease PROVE TypeInv'
    BY <1>47 DEF OtherTakesLease
  <1>48. ASSUME OtherReleasesLease PROVE TypeInv'
    BY <1>48 DEF OtherReleasesLease
  <1>50. ASSUME NEW r \in Runners, WaitFails(r) PROVE TypeInv'
    BY <1>50 DEF WaitFails, Goto, Fault
  <1>51. ASSUME NEW a \in Actors, JudgeUnverified(a) PROVE TypeInv'
    BY <1>51 DEF JudgeUnverified, Goto, Return, Fault
  <1>49. CASE UNCHANGED vars
    BY <1>49
  <1> HIDE DEF TypeInv, TypeOK, OutcomeIsChosen, Actors, Phases, Final,
               RunnerSteps, SupervisorSteps, CancelSteps, CompletionSteps,
               vars, files, locks, history, bounds
  <1> QED BY <1>1, <1>2, <1>3, <1>4, <1>5, <1>6, <1>7, <1>8, <1>9, <1>10,
         <1>11, <1>12, <1>13, <1>14, <1>15, <1>16, <1>17, <1>18, <1>19, <1>20,
         <1>21, <1>22, <1>23, <1>24, <1>25, <1>26, <1>27, <1>28, <1>29, <1>30,
         <1>31, <1>32, <1>33, <1>34, <1>35, <1>36, <1>37, <1>38, <1>39, <1>40,
         <1>41, <1>42, <1>43, <1>44, <1>45, <1>46, <1>47, <1>48, <1>49, <1>50,
         <1>51
     DEF Next, RunnerStep, CompletionStep, SupervisorStep, CancelStep, FaultStep

\* Every action keeps run.claim a lock.
LEMMA StepClaim == ClaimInv /\ [Next]_vars => ClaimIsLock'
  <1> SUFFICES ASSUME ClaimInv, [Next]_vars PROVE ClaimIsLock'
    OBVIOUS
  <1> USE ExecutionAssumption
  <1> USE DEF ClaimInv, ClaimIsLock, TypeInv, TypeOK, Actors, Working,
              CompletionSteps, vars, files, locks, history, bounds
  <1>1. ASSUME NEW r \in Runners, ManualRun(r) PROVE ClaimIsLock'
    BY <1>1 DEF ManualRun, Born, Spawnable, Goto
  <1>2. ASSUME NEW r \in Runners, Load(r) PROVE ClaimIsLock'
    BY <1>2 DEF Load, Goto
  <1>3. ASSUME NEW r \in Runners, Claim(r) PROVE ClaimIsLock'
    BY <1>3 DEF Claim, Goto
  <1>4. ASSUME NEW r \in Runners, LoseClaim(r) PROVE ClaimIsLock'
    BY <1>4 DEF LoseClaim, Goto
  <1>5. ASSUME NEW r \in Runners, EnterRun(r) PROVE ClaimIsLock'
    BY <1>5 DEF EnterRun, Goto
  <1>6. ASSUME NEW r \in Runners, RefuseRun(r) PROVE ClaimIsLock'
    BY <1>6 DEF RefuseRun, Goto, ReleaseClaim
  <1>7. ASSUME NEW r \in Runners, TakeLease(r) PROVE ClaimIsLock'
    BY <1>7 DEF TakeLease, Goto
  <1>8. ASSUME NEW r \in Runners, BeginExecution(r) PROVE ClaimIsLock'
    BY <1>8 DEF BeginExecution, Goto, UpdatePhase, Append
  <1>9. ASSUME NEW r \in Runners, SpawnHarness(r) PROVE ClaimIsLock'
    BY <1>9 DEF SpawnHarness, Goto
  <1>10. ASSUME NEW r \in Runners, RecordHarness(r) PROVE ClaimIsLock'
    BY <1>10 DEF RecordHarness, Goto, UpdatePhase, Append
  <1>11. ASSUME NEW r \in Runners, HarnessExits(r) PROVE ClaimIsLock'
    BY <1>11 DEF HarnessExits
  <1>12. ASSUME NEW r \in Runners, HarnessSucceeded(r) PROVE ClaimIsLock'
    BY <1>12 DEF HarnessSucceeded, Goto, UpdatePhase, Append
  <1>13. ASSUME NEW r \in Runners, NEW reason \in {"failed", "cancelled"},
                HarnessFailed(r, reason)
         PROVE  ClaimIsLock'
    BY <1>13 DEF HarnessFailed, Goto
  <1>14. ASSUME NEW r \in Runners, GatesAccept(r) PROVE ClaimIsLock'
    BY <1>14 DEF GatesAccept, Goto
  <1>15. ASSUME NEW r \in Runners, GatesRefuse(r) PROVE ClaimIsLock'
    BY <1>15 DEF GatesRefuse, Goto
  <1>16. ASSUME NEW r \in Runners, Repair(r) PROVE ClaimIsLock'
    BY <1>16 DEF Repair, Goto
  <1>17. ASSUME NEW r \in Runners, DeviceMissing(r) PROVE ClaimIsLock'
    BY <1>17 DEF DeviceMissing, Goto, UpdatePhase, Append, ReleaseLease
  <1>18. ASSUME NEW r \in Runners, DeviceArrives(r) PROVE ClaimIsLock'
    BY <1>18 DEF DeviceArrives, Goto
  <1>19. ASSUME NEW r \in Runners, ResumeDelivery(r) PROVE ClaimIsLock'
    BY <1>19 DEF ResumeDelivery, Goto, UpdatePhase, Append
  <1>20. ASSUME NEW r \in Runners, KillRunner(r) PROVE ClaimIsLock'
    BY <1>20 DEF KillRunner, Goto, ReleaseClaim, ReleaseLease, Fault
  <1>21. ASSUME NEW r \in Runners, StepFails(r) PROVE ClaimIsLock'
    BY <1>21 DEF StepFails, Goto, ReleaseClaim, ReleaseLease, Fault
  <1>22. ASSUME NEW a \in Actors, Judge(a) PROVE ClaimIsLock'
    BY <1>22 DEF Judge, Goto
  <1>23. ASSUME NEW a \in Actors, JudgeUnreadable(a) PROVE ClaimIsLock'
    BY <1>23 DEF JudgeUnreadable, Goto, Fault
  <1>24. ASSUME NEW a \in Actors, Validate(a) PROVE ClaimIsLock'
    BY <1>24 DEF Validate, Goto, UpdatePhase, Append
  <1>25. ASSUME NEW a \in Actors, PublishCompletion(a) PROVE ClaimIsLock'
    BY <1>25 DEF PublishCompletion, Goto
  <1>26. ASSUME NEW a \in Actors, FinalizePhase(a) PROVE ClaimIsLock'
    BY <1>26 DEF FinalizePhase, Goto
  <1>27. ASSUME NEW a \in Actors, Conclude(a) PROVE ClaimIsLock'
    BY <1>27 DEF Conclude, Goto, Append, ReleaseClaim, ReleaseLease
  <1>28. ASSUME NEW a \in Actors, FinalizeStalled(a) PROVE ClaimIsLock'
    BY <1>28 DEF FinalizeStalled, Goto
  <1>29. ASSUME NEW a \in Actors, ReconcileCompletion(a) PROVE ClaimIsLock'
    BY <1>29 DEF ReconcileCompletion, Goto
  <1>30. ASSUME NEW a \in Actors, LeaveStalled(a) PROVE ClaimIsLock'
    BY <1>30 DEF LeaveStalled, Goto, Return
  <1>31. ASSUME NEW s \in Supervisors, LockLauncher(s) PROVE ClaimIsLock'
    BY <1>31 DEF LockLauncher, Goto
  <1>32. ASSUME NEW s \in Supervisors, ObserveClaimed(s) PROVE ClaimIsLock'
    BY <1>32 DEF ObserveClaimed, Goto, Return
  <1>33. ASSUME NEW s \in Supervisors, ProbeClaim(s) PROVE ClaimIsLock'
    BY <1>33 DEF ProbeClaim, Goto
  <1>34. ASSUME NEW s \in Supervisors, Dispose(s) PROVE ClaimIsLock'
    BY <1>34 DEF Dispose, Goto, Return
  <1>35. ASSUME NEW s \in Supervisors, PrepareLaunch(s) PROVE ClaimIsLock'
    BY <1>35 DEF PrepareLaunch, Goto, UpdatePhase, Append
  <1>36. ASSUME NEW s \in Supervisors, NEW r \in Runners, SpawnRunner(s, r)
         PROVE  ClaimIsLock'
    BY <1>36 DEF SpawnRunner, Born, Spawnable
  <1>37. ASSUME NEW s \in Supervisors, HandOver(s) PROVE ClaimIsLock'
    BY <1>37 DEF HandOver, Goto, Return
  <1>38. ASSUME NEW s \in Supervisors, FailHandOver(s) PROVE ClaimIsLock'
    BY <1>38 DEF FailHandOver, UpdatePhase, Append, ReleaseClaim, ReleaseLease
  <1>39. ASSUME NEW s \in Supervisors, KillSupervisor(s) PROVE ClaimIsLock'
    BY <1>39 DEF KillSupervisor, Goto, Return, Fault
  <1>40. ASSUME NEW k \in Cancellers, CancelLiveRunner(k) PROVE ClaimIsLock'
    BY <1>40 DEF CancelLiveRunner, Goto, RecordedRunnerIsAlive, Alive
  <1>41. ASSUME NEW k \in Cancellers, CancelInPlace(k) PROVE ClaimIsLock'
    BY <1>41 DEF CancelInPlace, Goto
  <1>42. ASSUME NEW k \in Cancellers, CancelRefused(k) PROVE ClaimIsLock'
    BY <1>42 DEF CancelRefused
  <1>43. ASSUME NEW k \in Cancellers, Signal(k) PROVE ClaimIsLock'
    BY <1>43 DEF Signal, ReleaseClaim, ReleaseLease
  <1>44. ASSUME NEW k \in Cancellers, SignalLate(k) PROVE ClaimIsLock'
    BY <1>44 DEF SignalLate, Goto
  <1>45. ASSUME NEW k \in Cancellers, CancelStopped(k) PROVE ClaimIsLock'
    BY <1>45 DEF CancelStopped, Goto
  <1>46. ASSUME RestartMac PROVE ClaimIsLock'
    BY <1>46 DEF RestartMac, Fault
  <1>47. ASSUME OtherTakesLease PROVE ClaimIsLock'
    BY <1>47 DEF OtherTakesLease
  <1>48. ASSUME OtherReleasesLease PROVE ClaimIsLock'
    BY <1>48 DEF OtherReleasesLease
  <1>50. ASSUME NEW r \in Runners, WaitFails(r) PROVE ClaimIsLock'
    BY <1>50 DEF WaitFails, Goto, Fault
  <1>51. ASSUME NEW a \in Actors, JudgeUnverified(a) PROVE ClaimIsLock'
    BY <1>51 DEF JudgeUnverified, Goto, Return, Fault
  <1>49. CASE UNCHANGED vars
    BY <1>49
  <1> HIDE DEF ClaimInv, ClaimIsLock, TypeInv, TypeOK, Actors, Working,
               CompletionSteps, vars, files, locks, history, bounds
  <1> QED BY <1>1, <1>2, <1>3, <1>4, <1>5, <1>6, <1>7, <1>8, <1>9, <1>10,
         <1>11, <1>12, <1>13, <1>14, <1>15, <1>16, <1>17, <1>18, <1>19, <1>20,
         <1>21, <1>22, <1>23, <1>24, <1>25, <1>26, <1>27, <1>28, <1>29, <1>30,
         <1>31, <1>32, <1>33, <1>34, <1>35, <1>36, <1>37, <1>38, <1>39, <1>40,
         <1>41, <1>42, <1>43, <1>44, <1>45, <1>46, <1>47, <1>48, <1>49, <1>50,
         <1>51
     DEF Next, RunnerStep, CompletionStep, SupervisorStep, CancelStep, FaultStep

\* Every action keeps the factory lease with the runner that needs it.
LEMMA StepLease == LeaseInv /\ [Next]_vars => LeaseIsTaken'
  <1> SUFFICES ASSUME LeaseInv, [Next]_vars PROVE LeaseIsTaken'
    OBVIOUS
  <1> USE ExecutionAssumption
  <1> USE DEF LeaseInv, LeaseIsTaken, LeaseCoversExpensiveWork, ExpensiveWork,
              TypeInv, TypeOK, Actors, CompletionSteps, vars, files, locks, history, bounds
  <1>1. ASSUME NEW r \in Runners, ManualRun(r) PROVE LeaseIsTaken'
    BY <1>1 DEF ManualRun, Born, Spawnable, Goto
  <1>2. ASSUME NEW r \in Runners, Load(r) PROVE LeaseIsTaken'
    BY <1>2 DEF Load, Goto
  <1>3. ASSUME NEW r \in Runners, Claim(r) PROVE LeaseIsTaken'
    BY <1>3 DEF Claim, Goto
  <1>4. ASSUME NEW r \in Runners, LoseClaim(r) PROVE LeaseIsTaken'
    BY <1>4 DEF LoseClaim, Goto
  <1>5. ASSUME NEW r \in Runners, EnterRun(r) PROVE LeaseIsTaken'
    BY <1>5 DEF EnterRun, Goto
  <1>6. ASSUME NEW r \in Runners, RefuseRun(r) PROVE LeaseIsTaken'
    BY <1>6 DEF RefuseRun, Goto, ReleaseClaim
  <1>7. ASSUME NEW r \in Runners, TakeLease(r) PROVE LeaseIsTaken'
    BY <1>7 DEF TakeLease, Goto
  <1>8. ASSUME NEW r \in Runners, BeginExecution(r) PROVE LeaseIsTaken'
    <2>1. /\ pc[r] = "leased" /\ pc' = [pc EXCEPT ![r] = "spawning"]
          /\ UNCHANGED <<lease, unleased, passes>>
      BY <1>8 DEF BeginExecution, Goto
    <2>2. lease = r
      BY <2>1
    <2> QED BY <2>1, <2>2
  <1>9. ASSUME NEW r \in Runners, SpawnHarness(r) PROVE LeaseIsTaken'
    BY <1>9 DEF SpawnHarness, Goto
  <1>10. ASSUME NEW r \in Runners, RecordHarness(r) PROVE LeaseIsTaken'
    BY <1>10 DEF RecordHarness, Goto, UpdatePhase, Append
  <1>11. ASSUME NEW r \in Runners, HarnessExits(r) PROVE LeaseIsTaken'
    BY <1>11 DEF HarnessExits
  <1>12. ASSUME NEW r \in Runners, HarnessSucceeded(r) PROVE LeaseIsTaken'
    BY <1>12 DEF HarnessSucceeded, Goto, UpdatePhase, Append
  <1>13. ASSUME NEW r \in Runners, NEW reason \in {"failed", "cancelled"},
                HarnessFailed(r, reason)
         PROVE  LeaseIsTaken'
    BY <1>13 DEF HarnessFailed, Goto
  <1>14. ASSUME NEW r \in Runners, GatesAccept(r) PROVE LeaseIsTaken'
    BY <1>14 DEF GatesAccept, Goto
  <1>15. ASSUME NEW r \in Runners, GatesRefuse(r) PROVE LeaseIsTaken'
    BY <1>15 DEF GatesRefuse, Goto
  <1>16. ASSUME NEW r \in Runners, Repair(r) PROVE LeaseIsTaken'
    BY <1>16 DEF Repair, Goto
  <1>17. ASSUME NEW r \in Runners, DeviceMissing(r) PROVE LeaseIsTaken'
    BY <1>17 DEF DeviceMissing, Goto, UpdatePhase, Append, ReleaseLease
  <1>18. ASSUME NEW r \in Runners, DeviceArrives(r) PROVE LeaseIsTaken'
    BY <1>18 DEF DeviceArrives, Goto
  <1>19. ASSUME NEW r \in Runners, ResumeDelivery(r) PROVE LeaseIsTaken'
    BY <1>19 DEF ResumeDelivery, Goto, UpdatePhase, Append
  <1>20. ASSUME NEW r \in Runners, KillRunner(r) PROVE LeaseIsTaken'
    BY <1>20 DEF KillRunner, Goto, ReleaseClaim, ReleaseLease, Fault
  <1>21. ASSUME NEW r \in Runners, StepFails(r) PROVE LeaseIsTaken'
    BY <1>21 DEF StepFails, Goto, ReleaseClaim, ReleaseLease, Fault
  <1>22. ASSUME NEW a \in Actors, Judge(a) PROVE LeaseIsTaken'
    BY <1>22 DEF Judge, Goto
  <1>23. ASSUME NEW a \in Actors, JudgeUnreadable(a) PROVE LeaseIsTaken'
    BY <1>23 DEF JudgeUnreadable, Goto, Fault
  <1>24. ASSUME NEW a \in Actors, Validate(a) PROVE LeaseIsTaken'
    BY <1>24 DEF Validate, Goto, UpdatePhase, Append
  <1>25. ASSUME NEW a \in Actors, PublishCompletion(a) PROVE LeaseIsTaken'
    BY <1>25 DEF PublishCompletion, Goto
  <1>26. ASSUME NEW a \in Actors, FinalizePhase(a) PROVE LeaseIsTaken'
    BY <1>26 DEF FinalizePhase, Goto
  <1>27. ASSUME NEW a \in Actors, Conclude(a) PROVE LeaseIsTaken'
    BY <1>27 DEF Conclude, Goto, Append, ReleaseClaim, ReleaseLease
  <1>28. ASSUME NEW a \in Actors, FinalizeStalled(a) PROVE LeaseIsTaken'
    BY <1>28 DEF FinalizeStalled, Goto
  <1>29. ASSUME NEW a \in Actors, ReconcileCompletion(a) PROVE LeaseIsTaken'
    BY <1>29 DEF ReconcileCompletion, Goto
  <1>30. ASSUME NEW a \in Actors, LeaveStalled(a) PROVE LeaseIsTaken'
    BY <1>30 DEF LeaveStalled, Goto, Return
  <1>31. ASSUME NEW s \in Supervisors, LockLauncher(s) PROVE LeaseIsTaken'
    BY <1>31 DEF LockLauncher, Goto
  <1>32. ASSUME NEW s \in Supervisors, ObserveClaimed(s) PROVE LeaseIsTaken'
    BY <1>32 DEF ObserveClaimed, Goto, Return
  <1>33. ASSUME NEW s \in Supervisors, ProbeClaim(s) PROVE LeaseIsTaken'
    BY <1>33 DEF ProbeClaim, Goto
  <1>34. ASSUME NEW s \in Supervisors, Dispose(s) PROVE LeaseIsTaken'
    BY <1>34 DEF Dispose, Goto, Return
  <1>35. ASSUME NEW s \in Supervisors, PrepareLaunch(s) PROVE LeaseIsTaken'
    BY <1>35 DEF PrepareLaunch, Goto, UpdatePhase, Append
  <1>36. ASSUME NEW s \in Supervisors, NEW r \in Runners, SpawnRunner(s, r)
         PROVE  LeaseIsTaken'
    BY <1>36 DEF SpawnRunner, Born, Spawnable
  <1>37. ASSUME NEW s \in Supervisors, HandOver(s) PROVE LeaseIsTaken'
    BY <1>37 DEF HandOver, Goto, Return
  <1>38. ASSUME NEW s \in Supervisors, FailHandOver(s) PROVE LeaseIsTaken'
    BY <1>38 DEF FailHandOver, UpdatePhase, Append, ReleaseClaim, ReleaseLease
  <1>39. ASSUME NEW s \in Supervisors, KillSupervisor(s) PROVE LeaseIsTaken'
    BY <1>39 DEF KillSupervisor, Goto, Return, Fault
  <1>40. ASSUME NEW k \in Cancellers, CancelLiveRunner(k) PROVE LeaseIsTaken'
    BY <1>40 DEF CancelLiveRunner, Goto, RecordedRunnerIsAlive, Alive
  <1>41. ASSUME NEW k \in Cancellers, CancelInPlace(k) PROVE LeaseIsTaken'
    BY <1>41 DEF CancelInPlace, Goto
  <1>42. ASSUME NEW k \in Cancellers, CancelRefused(k) PROVE LeaseIsTaken'
    BY <1>42 DEF CancelRefused
  <1>43. ASSUME NEW k \in Cancellers, Signal(k) PROVE LeaseIsTaken'
    BY <1>43 DEF Signal, ReleaseClaim, ReleaseLease
  <1>44. ASSUME NEW k \in Cancellers, SignalLate(k) PROVE LeaseIsTaken'
    BY <1>44 DEF SignalLate, Goto
  <1>45. ASSUME NEW k \in Cancellers, CancelStopped(k) PROVE LeaseIsTaken'
    BY <1>45 DEF CancelStopped, Goto
  <1>46. ASSUME RestartMac PROVE LeaseIsTaken'
    BY <1>46 DEF RestartMac, Fault
  <1>47. ASSUME OtherTakesLease PROVE LeaseIsTaken'
    BY <1>47 DEF OtherTakesLease
  <1>48. ASSUME OtherReleasesLease PROVE LeaseIsTaken'
    BY <1>48 DEF OtherReleasesLease
  <1>50. ASSUME NEW r \in Runners, WaitFails(r) PROVE LeaseIsTaken'
    BY <1>50 DEF WaitFails, Goto, Fault
  <1>51. ASSUME NEW a \in Actors, JudgeUnverified(a) PROVE LeaseIsTaken'
    BY <1>51 DEF JudgeUnverified, Goto, Return, Fault
  <1>49. CASE UNCHANGED vars
    BY <1>49
  <1> HIDE DEF LeaseInv, LeaseIsTaken, LeaseCoversExpensiveWork, ExpensiveWork,
               TypeInv, TypeOK, Actors, CompletionSteps, vars, files, locks, history, bounds
  <1> QED BY <1>1, <1>2, <1>3, <1>4, <1>5, <1>6, <1>7, <1>8, <1>9, <1>10,
         <1>11, <1>12, <1>13, <1>14, <1>15, <1>16, <1>17, <1>18, <1>19, <1>20,
         <1>21, <1>22, <1>23, <1>24, <1>25, <1>26, <1>27, <1>28, <1>29, <1>30,
         <1>31, <1>32, <1>33, <1>34, <1>35, <1>36, <1>37, <1>38, <1>39, <1>40,
         <1>41, <1>42, <1>43, <1>44, <1>45, <1>46, <1>47, <1>48, <1>49, <1>50,
         <1>51
     DEF Next, RunnerStep, CompletionStep, SupervisorStep, CancelStep, FaultStep

\* Every action keeps completed outcomes justified by the ledger.
LEMMA StepAccept == AcceptInv /\ [Next]_vars => CompletionIsJustified'
  <1> SUFFICES ASSUME AcceptInv, [Next]_vars PROVE CompletionIsJustified'
    OBVIOUS
  <1> USE ExecutionAssumption
  <1> USE DEF AcceptInv, CompletionIsJustified, CompletedMeansAccepted,
              TypeInv, TypeOK, OutcomeIsChosen, Actors, CompletionSteps,
              Final, vars, files, locks, history, bounds
  <1>1. ASSUME NEW r \in Runners, ManualRun(r) PROVE CompletionIsJustified'
    BY <1>1 DEF ManualRun, Born, Spawnable, Goto
  <1>2. ASSUME NEW r \in Runners, Load(r) PROVE CompletionIsJustified'
    BY <1>2 DEF Load, Goto
  <1>3. ASSUME NEW r \in Runners, Claim(r) PROVE CompletionIsJustified'
    BY <1>3 DEF Claim, Goto
  <1>4. ASSUME NEW r \in Runners, LoseClaim(r) PROVE CompletionIsJustified'
    BY <1>4 DEF LoseClaim, Goto
  <1>5. ASSUME NEW r \in Runners, EnterRun(r) PROVE CompletionIsJustified'
    BY <1>5 DEF EnterRun, Goto
  <1>6. ASSUME NEW r \in Runners, RefuseRun(r) PROVE CompletionIsJustified'
    BY <1>6 DEF RefuseRun, Goto, ReleaseClaim
  <1>7. ASSUME NEW r \in Runners, TakeLease(r) PROVE CompletionIsJustified'
    BY <1>7 DEF TakeLease, Goto
  <1>8. ASSUME NEW r \in Runners, BeginExecution(r)
        PROVE  CompletionIsJustified'
    BY <1>8 DEF BeginExecution, Goto, UpdatePhase, Append
  <1>9. ASSUME NEW r \in Runners, SpawnHarness(r) PROVE CompletionIsJustified'
    BY <1>9 DEF SpawnHarness, Goto
  <1>10. ASSUME NEW r \in Runners, RecordHarness(r)
         PROVE  CompletionIsJustified'
    BY <1>10 DEF RecordHarness, Goto, UpdatePhase, Append
  <1>11. ASSUME NEW r \in Runners, HarnessExits(r) PROVE CompletionIsJustified'
    BY <1>11 DEF HarnessExits
  <1>12. ASSUME NEW r \in Runners, HarnessSucceeded(r)
         PROVE  CompletionIsJustified'
    BY <1>12 DEF HarnessSucceeded, Goto, UpdatePhase, Append
  <1>13. ASSUME NEW r \in Runners, NEW reason \in {"failed", "cancelled"},
                HarnessFailed(r, reason)
         PROVE  CompletionIsJustified'
    BY <1>13 DEF HarnessFailed, Goto
  <1>14. ASSUME NEW r \in Runners, GatesAccept(r) PROVE CompletionIsJustified'
    BY <1>14 DEF GatesAccept, Goto
  <1>15. ASSUME NEW r \in Runners, GatesRefuse(r) PROVE CompletionIsJustified'
    BY <1>15 DEF GatesRefuse, Goto
  <1>16. ASSUME NEW r \in Runners, Repair(r) PROVE CompletionIsJustified'
    BY <1>16 DEF Repair, Goto
  <1>17. ASSUME NEW r \in Runners, DeviceMissing(r)
         PROVE  CompletionIsJustified'
    BY <1>17 DEF DeviceMissing, Goto, UpdatePhase, Append, ReleaseLease
  <1>18. ASSUME NEW r \in Runners, DeviceArrives(r)
         PROVE  CompletionIsJustified'
    BY <1>18 DEF DeviceArrives, Goto
  <1>19. ASSUME NEW r \in Runners, ResumeDelivery(r)
         PROVE  CompletionIsJustified'
    BY <1>19 DEF ResumeDelivery, Goto, UpdatePhase, Append
  <1>20. ASSUME NEW r \in Runners, KillRunner(r) PROVE CompletionIsJustified'
    BY <1>20 DEF KillRunner, Goto, ReleaseClaim, ReleaseLease, Fault
  <1>21. ASSUME NEW r \in Runners, StepFails(r) PROVE CompletionIsJustified'
    BY <1>21 DEF StepFails, Goto, ReleaseClaim, ReleaseLease, Fault
  <1>22. ASSUME NEW a \in Actors, Judge(a) PROVE CompletionIsJustified'
    BY <1>22 DEF Judge, Goto
  <1>23. ASSUME NEW a \in Actors, JudgeUnreadable(a)
         PROVE  CompletionIsJustified'
    BY <1>23 DEF JudgeUnreadable, Goto, Fault
  <1>24. ASSUME NEW a \in Actors, Validate(a) PROVE CompletionIsJustified'
    BY <1>24 DEF Validate, Goto, UpdatePhase, Append
  <1>25. ASSUME NEW a \in Actors, PublishCompletion(a)
         PROVE  CompletionIsJustified'
    BY <1>25 DEF PublishCompletion, Goto
  <1>26. ASSUME NEW a \in Actors, FinalizePhase(a) PROVE CompletionIsJustified'
    BY <1>26 DEF FinalizePhase, Goto
  <1>27. ASSUME NEW a \in Actors, Conclude(a) PROVE CompletionIsJustified'
    BY <1>27 DEF Conclude, Goto, Append, ReleaseClaim, ReleaseLease
  <1>28. ASSUME NEW a \in Actors, FinalizeStalled(a)
         PROVE  CompletionIsJustified'
    BY <1>28 DEF FinalizeStalled, Goto
  <1>29. ASSUME NEW a \in Actors, ReconcileCompletion(a)
         PROVE  CompletionIsJustified'
    BY <1>29 DEF ReconcileCompletion, Goto
  <1>30. ASSUME NEW a \in Actors, LeaveStalled(a) PROVE CompletionIsJustified'
    BY <1>30 DEF LeaveStalled, Goto, Return
  <1>31. ASSUME NEW s \in Supervisors, LockLauncher(s)
         PROVE  CompletionIsJustified'
    BY <1>31 DEF LockLauncher, Goto
  <1>32. ASSUME NEW s \in Supervisors, ObserveClaimed(s)
         PROVE  CompletionIsJustified'
    BY <1>32 DEF ObserveClaimed, Goto, Return
  <1>33. ASSUME NEW s \in Supervisors, ProbeClaim(s)
         PROVE  CompletionIsJustified'
    BY <1>33 DEF ProbeClaim, Goto
  <1>34. ASSUME NEW s \in Supervisors, Dispose(s) PROVE CompletionIsJustified'
    BY <1>34 DEF Dispose, Goto, Return
  <1>35. ASSUME NEW s \in Supervisors, PrepareLaunch(s)
         PROVE  CompletionIsJustified'
    BY <1>35 DEF PrepareLaunch, Goto, UpdatePhase, Append
  <1>36. ASSUME NEW s \in Supervisors, NEW r \in Runners, SpawnRunner(s, r)
         PROVE  CompletionIsJustified'
    BY <1>36 DEF SpawnRunner, Born, Spawnable
  <1>37. ASSUME NEW s \in Supervisors, HandOver(s) PROVE CompletionIsJustified'
    BY <1>37 DEF HandOver, Goto, Return
  <1>38. ASSUME NEW s \in Supervisors, FailHandOver(s)
         PROVE  CompletionIsJustified'
    BY <1>38 DEF FailHandOver, UpdatePhase, Append, ReleaseClaim, ReleaseLease
  <1>39. ASSUME NEW s \in Supervisors, KillSupervisor(s)
         PROVE  CompletionIsJustified'
    BY <1>39 DEF KillSupervisor, Goto, Return, Fault
  <1>40. ASSUME NEW k \in Cancellers, CancelLiveRunner(k)
         PROVE  CompletionIsJustified'
    BY <1>40 DEF CancelLiveRunner, Goto, RecordedRunnerIsAlive, Alive
  <1>41. ASSUME NEW k \in Cancellers, CancelInPlace(k)
         PROVE  CompletionIsJustified'
    BY <1>41 DEF CancelInPlace, Goto
  <1>42. ASSUME NEW k \in Cancellers, CancelRefused(k)
         PROVE  CompletionIsJustified'
    BY <1>42 DEF CancelRefused
  <1>43. ASSUME NEW k \in Cancellers, Signal(k) PROVE CompletionIsJustified'
    BY <1>43 DEF Signal, ReleaseClaim, ReleaseLease
  <1>44. ASSUME NEW k \in Cancellers, SignalLate(k)
         PROVE  CompletionIsJustified'
    BY <1>44 DEF SignalLate, Goto
  <1>45. ASSUME NEW k \in Cancellers, CancelStopped(k)
         PROVE  CompletionIsJustified'
    BY <1>45 DEF CancelStopped, Goto
  <1>46. ASSUME RestartMac PROVE CompletionIsJustified'
    BY <1>46 DEF RestartMac, Fault
  <1>47. ASSUME OtherTakesLease PROVE CompletionIsJustified'
    BY <1>47 DEF OtherTakesLease
  <1>48. ASSUME OtherReleasesLease PROVE CompletionIsJustified'
    BY <1>48 DEF OtherReleasesLease
  <1>50. ASSUME NEW r \in Runners, WaitFails(r) PROVE CompletionIsJustified'
    BY <1>50 DEF WaitFails, Goto, Fault
  <1>51. ASSUME NEW a \in Actors, JudgeUnverified(a) PROVE CompletionIsJustified'
    BY <1>51 DEF JudgeUnverified, Goto, Return, Fault
  <1>49. CASE UNCHANGED vars
    BY <1>49
  <1> HIDE DEF AcceptInv, CompletionIsJustified, CompletedMeansAccepted,
               TypeInv, TypeOK, OutcomeIsChosen, Actors, CompletionSteps,
               Final, vars, files, locks, history, bounds
  <1> QED BY <1>1, <1>2, <1>3, <1>4, <1>5, <1>6, <1>7, <1>8, <1>9, <1>10,
         <1>11, <1>12, <1>13, <1>14, <1>15, <1>16, <1>17, <1>18, <1>19, <1>20,
         <1>21, <1>22, <1>23, <1>24, <1>25, <1>26, <1>27, <1>28, <1>29, <1>30,
         <1>31, <1>32, <1>33, <1>34, <1>35, <1>36, <1>37, <1>38, <1>39, <1>40,
         <1>41, <1>42, <1>43, <1>44, <1>45, <1>46, <1>47, <1>48, <1>49, <1>50,
         <1>51
     DEF Next, RunnerStep, CompletionStep, SupervisorStep, CancelStep, FaultStep

\* The prepared execution satisfies every part of the invariant.
LEMMA InitInv == Init => TypeInv /\ ClaimIsLock /\ LeaseIsTaken
                                 /\ CompletionIsJustified
  BY ExecutionAssumption
     DEF Init, TypeInv, TypeOK, OutcomeIsChosen, ClaimIsLock, LeaseIsTaken,
         LeaseCoversExpensiveWork, ExpensiveWork, CompletionIsJustified,
         CompletedMeansAccepted, Working, Actors, Phases, Final, RunnerSteps,
         SupervisorSteps, CancelSteps, CompletionSteps

\* Every file, lock and process variable keeps its type, and no process is on
\* its way to a completion record without an outcome to write.
THEOREM TypeCorrect == Spec => []TypeOK
  <1>1. Init => TypeInv
    BY InitInv
  <1>2. TypeInv /\ [Next]_vars => TypeInv'
    BY StepType
  <1>3. TypeInv => TypeOK
    BY DEF TypeInv
  <1> QED BY <1>1, <1>2, <1>3, PTL DEF Spec

\* At most one process tree ever works on the execution: claim_execution_runner
\* excludes other runners, supervisors' probes and orphaned harnesses, whatever
\* is killed or started by hand.
THEOREM ClaimExcludes == Spec => []OneProcessTree
  <1>1. Init => ClaimInv
    BY InitInv DEF ClaimInv
  <1>2. ClaimInv /\ [Next]_vars => ClaimInv'
    BY StepType, StepClaim DEF ClaimInv
  <1>3. ClaimInv => OneProcessTree
    BY DEF ClaimInv, ClaimIsLock, OneProcessTree, TypeInv, TypeOK
  <1> QED BY <1>1, <1>2, <1>3, PTL DEF Spec

\* Harness and gates happen only under the factory lease, but for the repair
\* after a wait for the phone that ended in an error (run_shot), and a runner
\* that waits for the phone never keeps the lease.
THEOREM LeaseCovers == Spec => []LeaseCoversExpensiveWork
  <1>1. Init => LeaseInv
    BY InitInv DEF LeaseInv
  <1>2. LeaseInv /\ [Next]_vars => LeaseInv'
    BY StepType, StepLease DEF LeaseInv
  <1>3. LeaseInv => LeaseCoversExpensiveWork
    BY DEF LeaseInv, LeaseIsTaken
  <1> QED BY <1>1, <1>2, <1>3, PTL DEF Spec

\* complete_execution and reconcile_published_completion never call an
\* execution completed without an accepted Version, in any interleaving of
\* runners, supervisors and cancellers and with any of the modelled faults.
THEOREM CompletionIsHonest == Spec => []CompletedMeansAccepted
  <1>1. Init => AcceptInv
    BY InitInv DEF AcceptInv
  <1>2. AcceptInv /\ [Next]_vars => AcceptInv'
    BY StepType, StepAccept DEF AcceptInv
  <1>3. AcceptInv => CompletedMeansAccepted
    BY DEF AcceptInv, CompletionIsJustified
  <1> QED BY <1>1, <1>2, <1>3, PTL DEF Spec

-----------------------------------------------------------------------------
(* Supervised executions *)

\* Nobody cancels or starts a runner by hand; processes die and steps of a runner
\* fail, but no supervisor is suspended between two reads or killed during
\* hand-over, and a finalizer can read the ledger and verify what it holds.
Supervised ==
    /\ Cancellers = {} /\ Manual = FALSE
    /\ Faults \subseteq {"runner", "service", "mac", "io", "device"}

\* No step of a runner fails: a runner reports its error only after its harness.
StepsSucceed == "io" \notin Faults

Startable == {"prepared", "runner_started", "waiting_for_device"}

\* Steps of a supervisor that has found no live runner.
Lonely == {"probing_dead", "launching", "spawning_runner", "stalled"} \cup CompletionSteps

\* Launching is exclusive: whoever supervises holds runner.lock, a live runner is
\* in runner.pid or in the hands of its launcher, and a supervisor that goes on
\* without a live runner is right about that.
Launching ==
    /\ \A s \in Supervisors : pc[s] # "idle" => launcher = s
    /\ \A s \in Supervisors : pc[s] = "handing_over" =>
            spawned[s] \in Runners /\ pidFile \in {None, spawned[s]}
    /\ \A r \in Runners : pc[r] # "off" =>
            pidFile = r \/ \E s \in Supervisors : pc[s] = "handing_over" /\ spawned[s] = r
    /\ \A s \in Supervisors :
            pc[s] \in Lonely => harness = {} /\ \A r \in Runners : pc[r] = "off"

\* A supervisor acts on the phase that execution.json still has.
SupervisorReads(s) ==
    /\ pc[s] \in {"probing_dead", "launching"} => seen[s] = phase
    /\ pc[s] = "launching" => phase \in Startable
    /\ pc[s] = "spawning_runner" =>
          phase \in {"runner_started", "waiting_for_device"} /\ pidFile = None
    /\ pc[s] = "stalled" => phase \in {"in_flight", "validation_completed"}

\* So does a runner, which is started only to begin or to resume a delivery.
RunnerReads(r) ==
    /\ pc[r] \in {"loading", "claiming", "claimed"}
          => phase \in {"runner_started", "waiting_for_device"}
    /\ pc[r] \in {"claiming", "claimed", "leasing", "leased"} => seen[r] = phase
    /\ pc[r] \in {"leasing", "leased"} => phase \in {"runner_started", "waiting_for_device"}
    /\ pc[r] = "resuming" => seen[r] = phase
    /\ pc[r] \in {"spawning", "spawned"} => phase \in {"in_flight", "waiting_for_device"}
    /\ pc[r] \in {"harness", "gates"} => phase = "in_flight"
    /\ pc[r] \in {"resuming", "awaiting_device", "reacquiring", "reacquired"}
          => phase = "waiting_for_device"
    /\ StepsSucceed => pc[r] # "stalled"

\* What a runner at work can rely on: nothing is accepted or completed yet, and
\* its own passes are those of the execution unless it resumed a delivery.  It
\* completes under its claim and without a harness unless a step failed.
Drives(r) ==
    /\ StepsSucceed /\ pc[r] \in CompletionSteps => r \in owns
    /\ StepsSucceed /\ r \in harness => pc[r] \in {"off", "spawned", "harness"}
    /\ Working(r) => versions = 0 /\ completion = None
    /\ pc[r] # "off" => passes[r] \in {0, invocations}
    /\ pc[r] = "spawning" => passes[r] = invocations /\ invocations < 2
    /\ pc[r] \in {"spawned", "harness"} => passes[r] = invocations
    /\ pc[r] \in {"spawned", "harness", "gates"} => invocations > 0

\* A process that completes the execution judges as the ledger does and publishes
\* the only completion.
Finishes(a) ==
    /\ pc[a] \in {"completing", "judged"} =>
          phase \notin Final /\ completion = None
    /\ pc[a] = "completing" => verdict[a] \in {"failed", "cancelled"}
    /\ pc[a] = "validated" => phase = "validation_completed" /\ completion = None
    /\ pc[a] \in {"judged", "validated", "published", "finalized"}
          => (verdict[a] = "completed") = (versions > 0)
    /\ pc[a] \in {"published", "finalized"} => completion = verdict[a]
    /\ pc[a] = "published" => phase \in {"validation_completed", verdict[a]}
    /\ pc[a] = "finalized" => phase = verdict[a]

Reading == (\A s \in Supervisors : SupervisorReads(s)) /\ (\A r \in Runners : RunnerReads(r))
Driving == \A r \in Runners : Drives(r)
Finishing == \A a \in Actors : Finishes(a)
Attending == Reading /\ Driving /\ Finishing

\* What the files tell about the passes, the Version and the outcome.
Telling ==
    /\ invocations <= 2 /\ versions <= 1
    /\ versions > 0 => invocations > 0
    /\ phase \in {"prepared", "runner_started"} => invocations = 0
    /\ phase = "waiting_for_device" => invocations > 0
    /\ phase \in Startable => versions = 0 /\ completion = None
    /\ phase = "in_flight" => completion = None
    /\ phase \in Final => completion = phase
    /\ StepsSucceed /\ phase \in Final => harness = {}
    /\ completion # None => (completion = "completed") = (versions > 0)

\* The event journal: a final event tells the final phase, whoever finalizes
\* found it open, and it stays open under a final phase only because a process
\* died or failed, or while one is about to append.
Journalled ==
    /\ log # "open" => phase \in Final /\ log = phase
    /\ \A a \in Actors : pc[a] \in {"published", "finalized"} => log = "open"
    /\ phase \in Final /\ log = "open" =>
          faults > 0 \/ \E a \in Actors : pc[a] = "finalized"

SupervisedInv ==
    ClaimInv /\ Launching /\ Reading /\ Driving /\ Finishing /\ Telling /\ Journalled

\* The processes are of different kinds, and one is no canceller.
LEMMA Kinds ==
    ASSUME Supervised
    PROVE  /\ Actors = Runners \cup Supervisors
           /\ \A r \in Runners : r \notin Supervisors /\ r # None
           /\ \A s \in Supervisors : s \notin Runners /\ s # None
  BY ExecutionAssumption DEF Supervised, Actors

\* While a runner lives there is no other one, and no supervisor goes on without
\* a runner.
LEMMA OneRunner ==
    ASSUME Supervised, Launching, NEW r \in Runners, pc[r] # "off"
    PROVE  /\ \A q \in Runners : q # r => pc[q] = "off"
           /\ \A s \in Supervisors : pc[s] \notin Lonely
  BY Kinds DEF Launching

\* runner.lock admits one supervisor.
LEMMA OneSupervisor ==
    ASSUME Launching, NEW s \in Supervisors, pc[s] # "idle"
    PROVE  \A t \in Supervisors : t # s => pc[t] = "idle"
  BY DEF Launching

\* Steps of a live runner leave the launching alone.
LEMMA RunnerKeepsLaunching ==
    ASSUME Supervised, TypeOK, Launching, NEW r \in Runners, pc[r] # "off", NEW step,
           pc' = [pc EXCEPT ![r] = step], UNCHANGED <<launcher, spawned, pidFile>>
    PROVE  Launching'
  <1>1. \A s \in Supervisors : pc'[s] = pc[s] /\ pc[s] \notin Lonely
    BY Kinds, OneRunner DEF TypeOK
  <1>2. \A q \in Runners : q # r => pc'[q] = pc[q]
    BY Kinds DEF TypeOK
  <1> QED
    BY <1>1, <1>2 DEF Launching

\* So do the steps of a supervisor that goes on without a runner.
LEMMA LonelyKeepsLaunching ==
    ASSUME Supervised, TypeOK, Launching, NEW s \in Supervisors, pc[s] \in Lonely,
           NEW step \in Lonely,
           pc' = [pc EXCEPT ![s] = step], UNCHANGED <<launcher, spawned, harness>>
    PROVE  Launching'
  <1>1. pc[s] # "idle" /\ step # "handing_over"
    BY DEF Lonely, CompletionSteps
  <1>2. pc'[s] = step /\ \A a \in Actors : a # s => pc'[a] = pc[a]
    BY Kinds DEF TypeOK
  <1>3. \A t \in Supervisors : t # s => pc'[t] = "idle"
    BY <1>1, <1>2, OneSupervisor, Kinds
  <1>4. harness = {} /\ launcher = s /\ \A r \in Runners : pc[r] = "off"
    BY <1>1 DEF Launching
  <1>5. \A r \in Runners : pc'[r] = "off"
    BY <1>2, <1>4, Kinds
  <1>6. "idle" # "handing_over" /\ "idle" \notin Lonely
    BY DEF Lonely, CompletionSteps
  <1> QED
    BY <1>1, <1>2, <1>3, <1>4, <1>5, <1>6 DEF Launching

\* A supervisor that returns gives runner.lock back.
LEMMA ReturnKeepsLaunching ==
    ASSUME Supervised, TypeOK, Launching, NEW s \in Supervisors, pc[s] # "idle",
           pc' = [pc EXCEPT ![s] = "idle"],
           \/ pidFile' = pidFile /\ pc[s] # "handing_over"
           \/ pc[s] \in Lonely
           \/ pc[s] = "handing_over" /\ pidFile' = spawned[s]
    PROVE  Launching'
  <1>1. pc'[s] = "idle" /\ \A a \in Actors : a # s => pc'[a] = pc[a]
    BY Kinds DEF TypeOK
  <1>2. \A t \in Supervisors : pc'[t] = "idle"
    BY <1>1, OneSupervisor, Kinds
  <1>3. "idle" # "handing_over" /\ "idle" \notin Lonely /\ "handing_over" \notin Lonely
    BY DEF Lonely, CompletionSteps
  <1>4. ASSUME NEW r \in Runners, pc'[r] # "off" PROVE pidFile' = r
    <2>1. pc[r] # "off"
      BY <1>1, <1>4, Kinds
    <2>2. pc[s] \notin Lonely
      BY <2>1, OneRunner
    <2>3. pidFile = r \/ \E t \in Supervisors : pc[t] = "handing_over" /\ spawned[t] = r
      BY <2>1 DEF Launching
    <2>4. \A t \in Supervisors : pc[t] = "handing_over" => t = s
      BY <1>3, OneSupervisor
    <2>5. pc[s] = "handing_over" /\ pidFile = r => spawned[s] = r
      BY Kinds DEF Launching
    <2> QED
      BY <2>2, <2>3, <2>4, <2>5
  <1> QED
    BY <1>2, <1>3, <1>4 DEF Launching

\* What the supervised executions exclude of the next-state relation.
LEMMA SupervisedNext ==
    ASSUME Supervised, TypeInv, Launching, Reading, Next
    PROVE  \/ \E r \in Runners :
                \/ Load(r) \/ Claim(r) \/ LoseClaim(r) \/ EnterRun(r)
                \/ TakeLease(r) \/ BeginExecution(r) \/ SpawnHarness(r) \/ RecordHarness(r)
                \/ HarnessSucceeded(r)
                \/ \E reason \in {"failed", "cancelled"} : HarnessFailed(r, reason)
                \/ GatesAccept(r) \/ GatesRefuse(r) \/ Repair(r) \/ DeviceMissing(r)
                \/ DeviceArrives(r) \/ ResumeDelivery(r) \/ HarnessExits(r) \/ KillRunner(r)
                \/ StepFails(r) \/ WaitFails(r)
           \/ \E a \in Runners \cup Supervisors :
                \/ Judge(a) \/ Validate(a) \/ PublishCompletion(a) \/ FinalizePhase(a) \/ Conclude(a)
                \/ FinalizeStalled(a) \/ ReconcileCompletion(a) \/ LeaveStalled(a)
           \/ \E s \in Supervisors :
                \/ LockLauncher(s) \/ ObserveClaimed(s) \/ ProbeClaim(s) \/ Dispose(s)
                \/ PrepareLaunch(s) \/ (\E r \in Runners : SpawnRunner(s, r)) \/ HandOver(s)
                \/ KillSupervisor(s)
           \/ RestartMac \/ OtherTakesLease \/ OtherReleasesLease
  <1>1. \A r \in Runners : pc[r] = "claimed" => seen[r] \notin {"in_flight"} \cup Final
    BY DEF Reading, RunnerReads, Final
  <1>2. \A r \in Runners : pc[r] = "claimed" => pidFile \in {None, r}
    BY OneRunner, Kinds DEF Launching
  <1>3. \A r \in Runners : ~RefuseRun(r) /\ ~ManualRun(r)
    BY <1>1, <1>2 DEF RefuseRun, ManualRun, Supervised
  <1>5. \A a \in Actors : ~JudgeUnreadable(a) /\ ~JudgeUnverified(a)
    BY DEF JudgeUnreadable, JudgeUnverified, Fault, Supervised
  <1>6. \A s \in Supervisors : ~FailHandOver(s)
    BY DEF Launching, FailHandOver
  <1>7. \A k \in Cancellers : ~CancelStep(k)
    BY DEF Supervised
  <1>8. \A a \in Actors : a \in Runners \cup Supervisors
    BY Kinds
  <1>9. CASE \E r \in Runners : RunnerStep(r) \/ HarnessExits(r) \/ ManualRun(r)
    BY <1>3, <1>9 DEF RunnerStep
  <1>10. CASE \E a \in Actors : CompletionStep(a)
    BY <1>5, <1>8, <1>10 DEF CompletionStep
  <1>11. CASE \E s \in Supervisors : SupervisorStep(s)
    BY <1>6, <1>11 DEF SupervisorStep
  <1>12. CASE FaultStep
    BY <1>12 DEF FaultStep
  <1> QED
    BY <1>7, <1>9, <1>10, <1>11, <1>12 DEF Next

\* Every step of a supervised execution keeps launching exclusive.
LEMMA StepLaunching ==
    ASSUME Supervised, SupervisedInv, [Next]_vars
    PROVE  Launching'
  <1>1. TypeOK /\ TypeInv /\ Launching /\ Reading /\ ClaimIsLock /\ Driving
    BY DEF SupervisedInv, ClaimInv, TypeInv
  <1>2. /\ pc \in [Actors -> RunnerSteps \cup SupervisorSteps \cup CancelSteps \cup CompletionSteps]
        /\ spawned \in [Supervisors \cup Cancellers -> Runners \cup {None}]
    BY <1>1 DEF TypeOK
  <1> USE DEF files, locks, history, bounds, Goto
  <1>3. ASSUME NEW r \in Runners,
               \/ Load(r) \/ Claim(r) \/ LoseClaim(r) \/ TakeLease(r) \/ BeginExecution(r)
               \/ SpawnHarness(r) \/ RecordHarness(r) \/ HarnessSucceeded(r)
               \/ (\E reason \in {"failed", "cancelled"} : HarnessFailed(r, reason))
               \/ GatesAccept(r) \/ GatesRefuse(r) \/ Repair(r) \/ DeviceMissing(r)
               \/ DeviceArrives(r) \/ ResumeDelivery(r) \/ KillRunner(r) \/ StepFails(r)
               \/ WaitFails(r)
        PROVE  Launching'
    <2>1. pc[r] # "off"
      BY <1>1, <1>3 DEF Load, Claim, LoseClaim, TakeLease, BeginExecution, SpawnHarness, RecordHarness,
                  HarnessSucceeded, HarnessFailed, GatesAccept, GatesRefuse, Repair, DeviceMissing,
                  DeviceArrives, ResumeDelivery, KillRunner, StepFails, WaitFails, Alive, ClaimIsLock,
                  Working, CompletionSteps
    <2>2. \E step : pc' = [pc EXCEPT ![r] = step]
      BY <1>3 DEF Load, Claim, LoseClaim, TakeLease, BeginExecution, SpawnHarness, RecordHarness,
                  HarnessSucceeded, HarnessFailed, GatesAccept, GatesRefuse, Repair, DeviceMissing,
                  DeviceArrives, ResumeDelivery, KillRunner, StepFails, WaitFails
    <2>3. UNCHANGED <<launcher, spawned, pidFile>>
      BY <1>3 DEF Load, Claim, LoseClaim, TakeLease, BeginExecution, SpawnHarness, RecordHarness,
                  HarnessSucceeded, HarnessFailed, GatesAccept, GatesRefuse, Repair, DeviceMissing,
                  DeviceArrives, ResumeDelivery, KillRunner, StepFails, WaitFails
    <2> QED
      BY <1>1, <2>1, <2>2, <2>3, RunnerKeepsLaunching
  <1>4. ASSUME NEW r \in Runners, EnterRun(r) PROVE Launching'
    <2>1. pc[r] # "off" /\ pidFile \in {None, r} /\ pidFile' = r /\ UNCHANGED <<launcher, spawned>>
      BY <1>4 DEF EnterRun
    <2>2. \A q \in Runners : q # r => pc'[q] = "off"
      BY <1>1, <1>2, <1>4, <2>1, OneRunner, Kinds DEF EnterRun
    <2>3. \A s \in Supervisors : pc'[s] = pc[s] /\ pc[s] \notin Lonely
      BY <1>1, <1>2, <1>4, <2>1, OneRunner, Kinds DEF EnterRun
    <2>4. ASSUME NEW s \in Supervisors, pc[s] = "handing_over" PROVE spawned[s] = r
      <3>1. pidFile = r \/ \E t \in Supervisors : pc[t] = "handing_over" /\ spawned[t] = r
        BY <1>1, <2>1 DEF Launching
      <3>2. \A t \in Supervisors : pc[t] = "handing_over" => t = s
        BY <1>1, <2>4, OneSupervisor
      <3> QED
        BY <1>1, <2>4, <3>1, <3>2, Kinds DEF Launching
    <2> QED
      BY <1>1, <2>1, <2>2, <2>3, <2>4 DEF Launching
  <1>5. ASSUME NEW r \in Runners, HarnessExits(r) PROVE Launching'
    BY <1>1, <1>5 DEF HarnessExits, Launching
  <1>6. ASSUME NEW a \in Runners \cup Supervisors,
               \/ Judge(a) \/ Validate(a) \/ PublishCompletion(a) \/ FinalizePhase(a)
               \/ FinalizeStalled(a) \/ ReconcileCompletion(a)
        PROVE  Launching'
    <2>1. /\ \E step \in CompletionSteps : pc' = [pc EXCEPT ![a] = step]
          /\ UNCHANGED <<launcher, spawned, pidFile, harness>>
          /\ pc[a] \in CompletionSteps \cup {"stalled"} /\ pc[a] # "off"
      BY <1>6 DEF Judge, Validate, PublishCompletion, FinalizePhase, FinalizeStalled,
                  ReconcileCompletion, CompletionSteps
    <2>2. CASE a \in Runners
      BY <1>1, <2>1, <2>2, RunnerKeepsLaunching
    <2>3. CASE a \in Supervisors
      BY <1>1, <2>1, <2>3, LonelyKeepsLaunching DEF Lonely
    <2> QED
      BY <2>2, <2>3
  <1>7. ASSUME NEW r \in Runners, Conclude(r) \/ LeaveStalled(r) PROVE Launching'
    <2>1. pc[r] # "off" /\ pc'[r] = "off" /\ \A a \in Actors : a # r => pc'[a] = pc[a]
      BY <1>2, <1>7, Kinds DEF Conclude, LeaveStalled, Return
    <2>2. \A q \in Runners : pc'[q] = "off"
      BY <1>1, <2>1, OneRunner, Kinds
    <2>3. \A s \in Supervisors : pc'[s] = pc[s] /\ pc[s] \notin Lonely
      BY <1>1, <2>1, OneRunner, Kinds
    <2>4. launcher' = launcher /\ pidFile' \in {pidFile, None}
      <3>1. r # launcher /\ r \notin Cancellers
        BY <1>1, Kinds DEF TypeOK, Supervised
      <3> QED BY <1>7, <3>1 DEF Conclude, LeaveStalled, Return
    <2>5. \A s \in Supervisors : spawned'[s] = spawned[s]
      BY <1>2, <1>7, Kinds DEF Conclude, LeaveStalled
    <2> QED
      BY <1>1, <2>2, <2>3, <2>4, <2>5 DEF Launching
  <1>8. ASSUME NEW s \in Supervisors,
               \/ Conclude(s) \/ LeaveStalled(s) \/ ObserveClaimed(s) \/ HandOver(s)
               \/ KillSupervisor(s)
        PROVE  Launching'
    <2>1. pc' = [pc EXCEPT ![s] = "idle"] /\ pc[s] # "idle"
      BY <1>8, Kinds DEF Conclude, LeaveStalled, ObserveClaimed, HandOver, KillSupervisor, Return
    <2>2. \/ pidFile' = pidFile /\ pc[s] # "handing_over"
          \/ pc[s] \in Lonely
          \/ pc[s] = "handing_over" /\ pidFile' = spawned[s]
      BY <1>8 DEF Conclude, LeaveStalled, ObserveClaimed, HandOver, KillSupervisor, Lonely,
                  CompletionSteps, Fault, Supervised
    <2> QED
      BY <1>1, <2>1, <2>2, ReturnKeepsLaunching
  <1>9. ASSUME NEW s \in Supervisors, PrepareLaunch(s) PROVE Launching'
    <2>1. /\ \E step \in Lonely : pc' = [pc EXCEPT ![s] = step]
          /\ UNCHANGED <<launcher, spawned, harness>>
          /\ pc[s] \in Lonely
      BY <1>9 DEF PrepareLaunch, Lonely
    <2> QED
      BY <1>1, <2>1, LonelyKeepsLaunching
  <1>10. ASSUME NEW s \in Supervisors, LockLauncher(s) PROVE Launching'
    <2>1. pc[s] = "idle" /\ pc'[s] = "locked" /\ \A a \in Actors : a # s => pc'[a] = pc[a]
      BY <1>2, <1>10, Kinds DEF LockLauncher
    <2>2. \A t \in Supervisors : pc[t] = "idle"
      BY <1>1, <1>10, Kinds DEF Launching, LockLauncher
    <2>3. \A t \in Supervisors : pc'[t] \notin Lonely /\ pc'[t] # "handing_over" /\ pc[t] # "handing_over"
      BY <2>1, <2>2, Kinds DEF Lonely, CompletionSteps
    <2>4. \A r \in Runners : pc'[r] = pc[r]
      BY <2>1, Kinds
    <2>5. launcher' = s /\ pidFile' = pidFile
      BY <1>10 DEF LockLauncher
    <2>6. \A t \in Supervisors : pc'[t] # "idle" => t = s
      BY <2>1, <2>2, Kinds
    <2> QED
      BY <1>1, <2>3, <2>4, <2>5, <2>6 DEF Launching
  <1>11. ASSUME NEW s \in Supervisors, ProbeClaim(s) PROVE Launching'
    <2>1. /\ pc[s] = "locked" /\ \A a \in Actors : a # s => pc'[a] = pc[a]
          /\ pc'[s] = IF RecordedRunnerIsAlive THEN "probing_live" ELSE "probing_dead"
          /\ UNCHANGED <<launcher, spawned, pidFile, harness>>
      BY <1>2, <1>11, Kinds DEF ProbeClaim
    <2>2. launcher = s /\ \A t \in Supervisors : t # s => pc'[t] = "idle" /\ pc[t] = "idle"
      BY <1>1, <2>1, OneSupervisor, Kinds DEF Launching
    <2>3. \A r \in Runners : pc'[r] = pc[r]
      BY <2>1, Kinds
    <2>4. \A r \in Runners : pc[r] # "off" => pidFile = r
      BY <1>1, <2>1, <2>2 DEF Launching
    <2>5. harness = {}
      BY <1>1, <1>11, Kinds DEF ProbeClaim, ClaimIsLock, TypeOK
    <2>6. ~RecordedRunnerIsAlive => \A r \in Runners : pc[r] = "off"
      BY <2>4, Kinds DEF RecordedRunnerIsAlive, Alive
    <2>7. "idle" \notin Lonely /\ "probing_live" \notin Lonely
      BY DEF Lonely, CompletionSteps
    <2>8. pc'[s] # "handing_over" /\ (pc'[s] \in Lonely => ~RecordedRunnerIsAlive)
      BY <2>1, <2>7
    <2> QED
      BY <2>1, <2>2, <2>3, <2>4, <2>5, <2>6, <2>7, <2>8 DEF Launching
  <1>12. ASSUME NEW s \in Supervisors, Dispose(s) PROVE Launching'
    <2>1. CASE pc' = [pc EXCEPT ![s] = "idle"]
      BY <1>1, <1>12, <2>1, ReturnKeepsLaunching DEF Dispose
    <2>2. CASE pc[s] = "probing_dead" /\ UNCHANGED launcher
                 /\ \E step \in {"launching", "stalled"} : pc' = [pc EXCEPT ![s] = step]
      BY <1>1, <1>12, <2>2, LonelyKeepsLaunching DEF Dispose, Lonely
    <2> QED
      BY <1>12, <2>1, <2>2, Kinds DEF Dispose, Return
  <1>13. ASSUME NEW s \in Supervisors, NEW r \in Runners, SpawnRunner(s, r) PROVE Launching'
    <2>1. /\ pc[s] = "spawning_runner" /\ pc'[s] = "handing_over" /\ pc'[r] = "loading"
          /\ \A a \in Actors : a # s /\ a # r => pc'[a] = pc[a]
          /\ spawned'[s] = r /\ UNCHANGED <<launcher, pidFile, harness>>
      BY <1>2, <1>13, Kinds DEF SpawnRunner
    <2>2. launcher = s /\ \A t \in Supervisors : t # s => pc'[t] = "idle"
      BY <1>1, <2>1, OneSupervisor, Kinds DEF Launching
    <2>3. \A q \in Runners : q # r => pc'[q] = "off"
      BY <1>1, <2>1, Kinds DEF Launching, Lonely
    <2>4. "idle" \notin Lonely /\ "handing_over" \notin Lonely /\ "idle" # "handing_over"
      BY DEF Lonely, CompletionSteps
    <2>5. pidFile = None
      BY <1>1, <2>1 DEF Reading, SupervisorReads
    <2> QED
      BY <2>1, <2>2, <2>3, <2>4, <2>5 DEF Launching
  <1>14. CASE RestartMac
    <2>1. \A r \in Runners : pc'[r] = "off"
      BY <1>14, Kinds DEF RestartMac
    <2>2. \A s \in Supervisors : pc'[s] = "idle"
      BY <1>14, Kinds DEF RestartMac
    <2>3. "idle" \notin Lonely
      BY DEF Lonely, CompletionSteps
    <2> QED
      BY <2>1, <2>2, <2>3 DEF Launching
  <1>15. CASE OtherTakesLease \/ OtherReleasesLease \/ UNCHANGED vars
    BY <1>1, <1>15 DEF OtherTakesLease, OtherReleasesLease, vars, Launching
  <1> QED
    BY <1>1, <1>3, <1>4, <1>5, <1>6, <1>7, <1>8, <1>9, <1>10, <1>11, <1>12, <1>13, <1>14, <1>15,
       SupervisedNext

\* While a runner moves, only its own knowledge matters.
LEMMA RunnerAttends ==
    ASSUME Supervised, TypeOK, Launching, NEW r \in Runners, pc[r] # "off", NEW step,
           pc' = [pc EXCEPT ![r] = step],
           RunnerReads(r)', Drives(r)', Finishes(r)'
    PROVE  Attending'
  <1>1. \A q \in Runners : q # r => pc'[q] = "off"
    BY OneRunner, Kinds DEF TypeOK
  <1>2. \A s \in Supervisors : pc'[s] \notin Lonely
    BY OneRunner, Kinds DEF TypeOK
  <1>3. \A q \in Runners : q # r => RunnerReads(q)' /\ Drives(q)' /\ Finishes(q)'
    BY <1>1 DEF RunnerReads, Drives, Finishes, Working, CompletionSteps
  <1>4. \A s \in Supervisors : SupervisorReads(s)' /\ Finishes(s)'
    BY <1>2 DEF SupervisorReads, Finishes, Lonely, CompletionSteps
  <1> QED
    BY <1>3, <1>4, Kinds DEF Attending, Reading, Driving, Finishing

\* While a supervisor moves without a runner, only its own knowledge matters.
LEMMA LonelyAttends ==
    ASSUME Supervised, TypeOK, Launching, NEW s \in Supervisors, pc[s] \in Lonely, NEW step,
           pc' = [pc EXCEPT ![s] = step],
           SupervisorReads(s)', Finishes(s)'
    PROVE  Attending'
  <1>1. pc[s] # "idle"
    BY DEF Lonely, CompletionSteps
  <1>2. \A t \in Supervisors : t # s => pc'[t] = "idle"
    BY <1>1, OneSupervisor, Kinds DEF TypeOK
  <1>3. \A r \in Runners : pc'[r] = "off"
    BY Kinds DEF TypeOK, Launching
  <1>4. \A r \in Runners : RunnerReads(r)' /\ Drives(r)' /\ Finishes(r)'
    BY <1>3 DEF RunnerReads, Drives, Finishes, Working, CompletionSteps
  <1>5. \A t \in Supervisors : t # s => SupervisorReads(t)' /\ Finishes(t)'
    BY <1>2 DEF SupervisorReads, Finishes
  <1> QED
    BY <1>4, <1>5, Kinds DEF Attending, Reading, Driving, Finishing

\* A supervisor beside a live runner changes nothing that the runner relies on.
LEMMA ObserverAttends ==
    ASSUME Supervised, TypeOK, Launching, Attending, NEW s \in Supervisors, NEW step,
           \A t \in Supervisors : t # s => pc[t] = "idle",
           pc' = [pc EXCEPT ![s] = step],
           UNCHANGED <<phase, completion, versions, owns, harness, passes, invocations>>,
           \A a \in Actors : a # s => seen'[a] = seen[a] /\ verdict'[a] = verdict[a],
           SupervisorReads(s)', Finishes(s)'
    PROVE  Attending'
  <1>1. \A t \in Supervisors : t # s => pc'[t] = "idle"
    BY Kinds DEF TypeOK
  <1>2. \A r \in Runners : pc'[r] = pc[r] /\ seen'[r] = seen[r] /\ verdict'[r] = verdict[r]
    BY Kinds DEF TypeOK
  <1>3. \A r \in Runners : RunnerReads(r)' /\ Drives(r)' /\ Finishes(r)'
    <2> TAKE r \in Runners
    <2>1. RunnerReads(r) /\ Drives(r) /\ Finishes(r)
      BY Kinds DEF Attending, Reading, Driving, Finishing
    <2>2. RunnerReads(r)'
      BY <1>2, <2>1 DEF RunnerReads
    <2>3. Drives(r)'
      BY <1>2, <2>1 DEF Drives, Working
    <2>4. Finishes(r)'
      BY <1>2, <2>1 DEF Finishes
    <2> QED
      BY <2>2, <2>3, <2>4
  <1>4. \A t \in Supervisors : t # s => SupervisorReads(t)' /\ Finishes(t)'
    BY <1>1 DEF SupervisorReads, Finishes
  <1> QED
    BY <1>3, <1>4, Kinds DEF Attending, Reading, Driving, Finishing

\* Every step of a supervised execution keeps what the processes rely on.
LEMMA StepAttending ==
    ASSUME Supervised, SupervisedInv, [Next]_vars
    PROVE  Attending'
  <1>1. TypeOK /\ TypeInv /\ ClaimIsLock /\ Launching /\ Reading /\ Attending /\ Telling
    BY DEF SupervisedInv, ClaimInv, TypeInv, Attending
  <1>2. /\ pc \in [Actors -> RunnerSteps \cup SupervisorSteps \cup CancelSteps \cup CompletionSteps]
        /\ seen \in [Actors -> Phases] /\ verdict \in [Actors -> Final \cup {None}]
        /\ passes \in [Runners -> Nat] /\ invocations \in Nat /\ versions \in Nat
    BY <1>1 DEF TypeOK
  <1>3. \A r \in Runners : r \in Actors /\ RunnerReads(r) /\ Drives(r) /\ Finishes(r)
    BY <1>1, Kinds DEF Attending, Reading, Driving, Finishing
  <1>4. \A s \in Supervisors : s \in Actors /\ SupervisorReads(s) /\ Finishes(s)
    BY <1>1, Kinds DEF Attending, Reading, Finishing
  <1>5. /\ \A r \in Runners : Working(r) => r \in owns
        /\ phase \in {"runner_started", "waiting_for_device"} => versions = 0 /\ completion = None
        /\ phase = "runner_started" => invocations = 0
        /\ phase = "waiting_for_device" => invocations > 0
    BY <1>1 DEF ClaimIsLock, Telling, Startable
  <1> USE DEF files, locks, history, bounds, Goto
  <1>6. ASSUME NEW r \in Runners, Load(r) PROVE Attending'
    <2>1. pc[r] = "loading" /\ pc' = [pc EXCEPT ![r] = "claiming"] /\ pc'[r] = "claiming"
      BY <1>2, <1>3, <1>6 DEF Load
    <2>2. RunnerReads(r)' /\ Drives(r)' /\ Finishes(r)'
      BY <1>2, <1>3, <1>5, <1>6, <2>1
         DEF Load, RunnerReads, Drives, Finishes, Working, CompletionSteps
    <2> QED
      BY <1>1, <2>1, <2>2, RunnerAttends
  <1>7. ASSUME NEW r \in Runners, Claim(r) PROVE Attending'
    <2>1. pc[r] = "claiming" /\ pc' = [pc EXCEPT ![r] = "claimed"] /\ pc'[r] = "claimed"
      BY <1>2, <1>3, <1>7 DEF Claim
    <2>2. RunnerReads(r)' /\ Drives(r)' /\ Finishes(r)'
      BY <1>2, <1>3, <1>5, <1>7, <2>1
         DEF Claim, RunnerReads, Drives, Finishes, Working, CompletionSteps
    <2> QED
      BY <1>1, <2>1, <2>2, RunnerAttends
  <1>8. ASSUME NEW r \in Runners, LoseClaim(r) PROVE Attending'
    <2>1. pc[r] = "claiming" /\ pc' = [pc EXCEPT ![r] = "off"] /\ pc'[r] = "off"
      BY <1>2, <1>3, <1>8 DEF LoseClaim
    <2>2. RunnerReads(r)' /\ Drives(r)' /\ Finishes(r)'
      BY <1>2, <1>3, <1>5, <1>8, <2>1
         DEF LoseClaim, RunnerReads, Drives, Finishes, Working, CompletionSteps
    <2> QED
      BY <1>1, <2>1, <2>2, RunnerAttends
  <1>9. ASSUME NEW r \in Runners, BeginExecution(r) PROVE Attending'
    <2>1. pc[r] = "leased" /\ pc' = [pc EXCEPT ![r] = "spawning"] /\ pc'[r] = "spawning"
      BY <1>2, <1>3, <1>9 DEF BeginExecution
    <2>2. RunnerReads(r)' /\ Drives(r)' /\ Finishes(r)'
      BY <1>2, <1>3, <1>5, <1>9, <2>1
         DEF BeginExecution, RunnerReads, Drives, Finishes, Working, CompletionSteps, UpdatePhase
    <2> QED
      BY <1>1, <2>1, <2>2, RunnerAttends
  <1>10. ASSUME NEW r \in Runners, SpawnHarness(r) PROVE Attending'
    <2>1. pc[r] = "spawning" /\ pc' = [pc EXCEPT ![r] = "spawned"] /\ pc'[r] = "spawned"
      BY <1>2, <1>3, <1>10 DEF SpawnHarness
    <2>2. RunnerReads(r)' /\ Drives(r)' /\ Finishes(r)'
      BY <1>2, <1>3, <1>5, <1>10, <2>1
         DEF SpawnHarness, RunnerReads, Drives, Finishes, Working, CompletionSteps
    <2> QED
      BY <1>1, <2>1, <2>2, RunnerAttends
  <1>11. ASSUME NEW r \in Runners, RecordHarness(r) PROVE Attending'
    <2>1. pc[r] = "spawned" /\ pc' = [pc EXCEPT ![r] = "harness"] /\ pc'[r] = "harness"
      BY <1>2, <1>3, <1>11 DEF RecordHarness
    <2>2. RunnerReads(r)' /\ Drives(r)' /\ Finishes(r)'
      BY <1>2, <1>3, <1>5, <1>11, <2>1
         DEF RecordHarness, RunnerReads, Drives, Finishes, Working, CompletionSteps, UpdatePhase
    <2> QED
      BY <1>1, <2>1, <2>2, RunnerAttends
  <1>12. ASSUME NEW r \in Runners, HarnessSucceeded(r) PROVE Attending'
    <2>1. pc[r] = "harness" /\ pc' = [pc EXCEPT ![r] = "gates"] /\ pc'[r] = "gates"
      BY <1>2, <1>3, <1>12 DEF HarnessSucceeded
    <2>2. RunnerReads(r)' /\ Drives(r)' /\ Finishes(r)'
      BY <1>2, <1>3, <1>5, <1>12, <2>1
         DEF HarnessSucceeded, RunnerReads, Drives, Finishes, Working, CompletionSteps, UpdatePhase
    <2> QED
      BY <1>1, <2>1, <2>2, RunnerAttends
  <1>13. ASSUME NEW r \in Runners, NEW reason \in {"failed", "cancelled"}, HarnessFailed(r, reason)
         PROVE  Attending'
    <2>1. pc[r] = "harness" /\ pc' = [pc EXCEPT ![r] = "completing"] /\ pc'[r] = "completing"
      BY <1>2, <1>3, <1>13 DEF HarnessFailed
    <2>2. RunnerReads(r)' /\ Drives(r)' /\ Finishes(r)'
      BY <1>2, <1>3, <1>5, <1>13, <2>1
         DEF HarnessFailed, RunnerReads, Drives, Finishes, Working, CompletionSteps, Final
    <2> QED
      BY <1>1, <2>1, <2>2, RunnerAttends
  <1>14. ASSUME NEW r \in Runners, GatesAccept(r) PROVE Attending'
    <2>1. pc[r] = "gates" /\ pc' = [pc EXCEPT ![r] = "completing"] /\ pc'[r] = "completing"
      BY <1>2, <1>3, <1>14 DEF GatesAccept
    <2>2. RunnerReads(r)' /\ Drives(r)' /\ Finishes(r)'
      BY <1>2, <1>3, <1>5, <1>14, <2>1
         DEF GatesAccept, RunnerReads, Drives, Finishes, Working, CompletionSteps, Final
    <2> QED
      BY <1>1, <2>1, <2>2, RunnerAttends
  <1>15. ASSUME NEW r \in Runners, GatesRefuse(r) PROVE Attending'
    <2>1. pc[r] = "gates" /\ pc' = [pc EXCEPT ![r] = "completing"] /\ pc'[r] = "completing"
      BY <1>2, <1>3, <1>15 DEF GatesRefuse
    <2>2. RunnerReads(r)' /\ Drives(r)' /\ Finishes(r)'
      BY <1>2, <1>3, <1>5, <1>15, <2>1
         DEF GatesRefuse, RunnerReads, Drives, Finishes, Working, CompletionSteps, Final
    <2> QED
      BY <1>1, <2>1, <2>2, RunnerAttends
  <1>16. ASSUME NEW r \in Runners, Repair(r) PROVE Attending'
    <2>1. pc[r] = "gates" /\ pc' = [pc EXCEPT ![r] = "spawning"] /\ pc'[r] = "spawning"
      BY <1>2, <1>3, <1>16 DEF Repair
    <2>2. RunnerReads(r)' /\ Drives(r)' /\ Finishes(r)'
      BY <1>2, <1>3, <1>5, <1>16, <2>1
         DEF Repair, RunnerReads, Drives, Finishes, Working, CompletionSteps
    <2> QED
      BY <1>1, <2>1, <2>2, RunnerAttends
  <1>17. ASSUME NEW r \in Runners, DeviceMissing(r) PROVE Attending'
    <2>1. pc[r] = "gates" /\ pc' = [pc EXCEPT ![r] = "awaiting_device"] /\ pc'[r] = "awaiting_device"
      BY <1>2, <1>3, <1>17 DEF DeviceMissing
    <2>2. RunnerReads(r)' /\ Drives(r)' /\ Finishes(r)'
      BY <1>2, <1>3, <1>5, <1>17, <2>1
         DEF DeviceMissing, RunnerReads, Drives, Finishes, Working, CompletionSteps, UpdatePhase
    <2> QED
      BY <1>1, <2>1, <2>2, RunnerAttends
  <1>18. ASSUME NEW r \in Runners, DeviceArrives(r) PROVE Attending'
    <2>1. PICK step \in {"leasing", "reacquiring"} :
            /\ pc[r] = (IF step = "leasing" THEN "resuming" ELSE "awaiting_device")
            /\ pc' = [pc EXCEPT ![r] = step] /\ pc'[r] = step
      BY <1>2, <1>3, <1>18 DEF DeviceArrives
    <2>2. RunnerReads(r)' /\ Drives(r)' /\ Finishes(r)'
      BY <1>2, <1>3, <1>5, <1>18, <2>1
         DEF DeviceArrives, RunnerReads, Drives, Finishes, Working, CompletionSteps
    <2> QED
      BY <1>1, <2>1, <2>2, RunnerAttends
  <1>19. ASSUME NEW r \in Runners, ResumeDelivery(r) PROVE Attending'
    <2>1. pc[r] \in {"leased", "reacquired"} /\ pc' = [pc EXCEPT ![r] = "gates"] /\ pc'[r] = "gates"
      BY <1>2, <1>3, <1>19 DEF ResumeDelivery
    <2>2. versions = 0 /\ completion = None /\ invocations > 0
      BY <1>3, <1>5, <1>19, <2>1 DEF ResumeDelivery, RunnerReads, Drives, Working
    <2>3. RunnerReads(r)' /\ Drives(r)' /\ Finishes(r)'
      BY <1>2, <1>3, <1>19, <2>1, <2>2
         DEF ResumeDelivery, RunnerReads, Drives, Finishes, Working, CompletionSteps, UpdatePhase
    <2> QED
      BY <1>1, <2>1, <2>3, RunnerAttends
  <1>20. ASSUME NEW r \in Runners, EnterRun(r) PROVE Attending'
    <2>1. CASE seen[r] = "waiting_for_device"
      <3>1. pc[r] = "claimed" /\ pc' = [pc EXCEPT ![r] = "resuming"] /\ pc'[r] = "resuming"
        BY <1>2, <1>3, <1>20, <2>1 DEF EnterRun
      <3>2. RunnerReads(r)' /\ Drives(r)' /\ Finishes(r)'
        BY <1>2, <1>3, <1>20, <2>1, <3>1
           DEF EnterRun, RunnerReads, Drives, Finishes, Working, CompletionSteps
      <3> QED
        BY <1>1, <3>1, <3>2, RunnerAttends
    <2>2. CASE seen[r] # "waiting_for_device"
      <3>1. pc[r] = "claimed" /\ pc' = [pc EXCEPT ![r] = "leasing"] /\ pc'[r] = "leasing"
        BY <1>2, <1>3, <1>20, <2>2 DEF EnterRun
      <3>2. RunnerReads(r)' /\ Drives(r)' /\ Finishes(r)'
        BY <1>2, <1>3, <1>20, <2>2, <3>1
           DEF EnterRun, RunnerReads, Drives, Finishes, Working, CompletionSteps
      <3> QED
        BY <1>1, <3>1, <3>2, RunnerAttends
    <2> QED
      BY <2>1, <2>2
  <1>21. ASSUME NEW r \in Runners, TakeLease(r) PROVE Attending'
    <2>1. PICK step \in {"leased", "reacquired"} :
            /\ pc[r] = (IF step = "leased" THEN "leasing" ELSE "reacquiring")
            /\ pc' = [pc EXCEPT ![r] = step] /\ pc'[r] = step
      BY <1>2, <1>3, <1>21 DEF TakeLease
    <2>2. RunnerReads(r)' /\ Drives(r)' /\ Finishes(r)'
      BY <1>2, <1>3, <1>21, <2>1
         DEF TakeLease, RunnerReads, Drives, Finishes, Working, CompletionSteps
    <2> QED
      BY <1>1, <2>1, <2>2, RunnerAttends
  <1>22. ASSUME NEW r \in Runners, KillRunner(r) PROVE Attending'
    <2>1. pc[r] # "off" /\ pc' = [pc EXCEPT ![r] = "off"] /\ pc'[r] = "off"
      BY <1>2, <1>3, <1>22 DEF KillRunner, Alive
    <2>2. RunnerReads(r)' /\ Drives(r)' /\ Finishes(r)'
      BY <2>1 DEF RunnerReads, Drives, Finishes, Working, CompletionSteps
    <2> QED
      BY <1>1, <2>1, <2>2, RunnerAttends
  <1>23. ASSUME NEW r \in Runners, HarnessExits(r) PROVE Attending'
    <2>1. UNCHANGED <<pc, seen, phase, pidFile, versions, completion, passes, invocations, owns, verdict>>
      BY <1>23 DEF HarnessExits
    <2>2. \A q \in harness' : q \in harness
      BY <1>23 DEF HarnessExits
    <2>3. Reading' /\ Finishing'
      BY <1>1, <2>1 DEF Attending, Reading, Finishing, SupervisorReads, RunnerReads, Finishes
    <2>4. Driving'
      BY <1>1, <2>1, <2>2 DEF Attending, Driving, Drives, Working
    <2> QED
      BY <2>3, <2>4 DEF Attending
  <1>24. ASSUME NEW a \in Runners \cup Supervisors, Judge(a) PROVE Attending'
    <2>1. pc[a] = "completing" /\ pc' = [pc EXCEPT ![a] = "judged"] /\ pc'[a] = "judged"
      BY <1>2, <1>3, <1>4, <1>24 DEF Judge
    <2>2. Finishes(a)'
      BY <1>2, <1>3, <1>4, <1>24, <2>1 DEF Judge, Finishes
    <2>3. CASE a \in Runners
      <3>1. RunnerReads(a)' /\ Drives(a)'
        BY <1>2, <1>3, <1>24, <2>1, <2>3 DEF Judge, RunnerReads, Drives, Working, CompletionSteps
      <3> QED
        BY <1>1, <2>1, <2>2, <2>3, <3>1, RunnerAttends
    <2>4. CASE a \in Supervisors
      <3>1. SupervisorReads(a)' /\ pc[a] \in Lonely
        BY <2>1 DEF SupervisorReads, Lonely, CompletionSteps
      <3> QED
        BY <1>1, <2>1, <2>2, <2>4, <3>1, LonelyAttends
    <2> QED
      BY <2>3, <2>4
  <1>25. ASSUME NEW a \in Runners \cup Supervisors, Validate(a) PROVE Attending'
    <2>1. pc[a] = "judged" /\ pc' = [pc EXCEPT ![a] = "validated"] /\ pc'[a] = "validated"
      BY <1>2, <1>3, <1>4, <1>25 DEF Validate
    <2>2. Finishes(a)'
      BY <1>2, <1>3, <1>4, <1>25, <2>1 DEF Validate, Finishes, UpdatePhase
    <2>3. CASE a \in Runners
      <3>1. RunnerReads(a)' /\ Drives(a)'
        BY <1>2, <1>3, <1>25, <2>1, <2>3 DEF Validate, RunnerReads, Drives, Working, CompletionSteps
      <3> QED
        BY <1>1, <2>1, <2>2, <2>3, <3>1, RunnerAttends
    <2>4. CASE a \in Supervisors
      <3>1. SupervisorReads(a)' /\ pc[a] \in Lonely
        BY <2>1 DEF SupervisorReads, Lonely, CompletionSteps
      <3> QED
        BY <1>1, <2>1, <2>2, <2>4, <3>1, LonelyAttends
    <2> QED
      BY <2>3, <2>4
  <1>26. ASSUME NEW a \in Runners \cup Supervisors, PublishCompletion(a) PROVE Attending'
    <2>1. pc[a] = "validated" /\ pc' = [pc EXCEPT ![a] = "published"] /\ pc'[a] = "published"
      BY <1>2, <1>3, <1>4, <1>26 DEF PublishCompletion
    <2>2. Finishes(a)'
      BY <1>2, <1>3, <1>4, <1>26, <2>1 DEF PublishCompletion, Finishes
    <2>3. CASE a \in Runners
      <3>1. RunnerReads(a)' /\ Drives(a)'
        BY <1>2, <1>3, <1>26, <2>1, <2>3
           DEF PublishCompletion, RunnerReads, Drives, Working, CompletionSteps
      <3> QED
        BY <1>1, <2>1, <2>2, <2>3, <3>1, RunnerAttends
    <2>4. CASE a \in Supervisors
      <3>1. SupervisorReads(a)' /\ pc[a] \in Lonely
        BY <2>1 DEF SupervisorReads, Lonely, CompletionSteps
      <3> QED
        BY <1>1, <2>1, <2>2, <2>4, <3>1, LonelyAttends
    <2> QED
      BY <2>3, <2>4
  <1>27. ASSUME NEW a \in Runners \cup Supervisors, FinalizePhase(a) PROVE Attending'
    <2>1. pc[a] = "published" /\ pc' = [pc EXCEPT ![a] = "finalized"] /\ pc'[a] = "finalized"
      BY <1>2, <1>3, <1>4, <1>27 DEF FinalizePhase
    <2>2. Finishes(a)'
      BY <1>2, <1>3, <1>4, <1>27, <2>1 DEF FinalizePhase, Finishes
    <2>3. CASE a \in Runners
      <3>1. RunnerReads(a)' /\ Drives(a)'
        BY <1>2, <1>3, <1>27, <2>1, <2>3
           DEF FinalizePhase, RunnerReads, Drives, Working, CompletionSteps
      <3> QED
        BY <1>1, <2>1, <2>2, <2>3, <3>1, RunnerAttends
    <2>4. CASE a \in Supervisors
      <3>1. SupervisorReads(a)' /\ pc[a] \in Lonely
        BY <2>1 DEF SupervisorReads, Lonely, CompletionSteps
      <3> QED
        BY <1>1, <2>1, <2>2, <2>4, <3>1, LonelyAttends
    <2> QED
      BY <2>3, <2>4
  <1>28. ASSUME NEW a \in Runners \cup Supervisors, Conclude(a) PROVE Attending'
    <2>1. CASE a \in Runners
      <3>1. pc[a] # "off" /\ pc' = [pc EXCEPT ![a] = "off"] /\ pc'[a] = "off"
        BY <1>2, <1>3, <1>28, <2>1 DEF Conclude
      <3>2. RunnerReads(a)' /\ Drives(a)' /\ Finishes(a)'
        BY <3>1 DEF RunnerReads, Drives, Finishes, Working, CompletionSteps
      <3> QED
        BY <1>1, <2>1, <3>1, <3>2, RunnerAttends
    <2>2. CASE a \in Supervisors
      <3>1. pc[a] \in Lonely /\ pc' = [pc EXCEPT ![a] = "idle"] /\ pc'[a] = "idle"
        BY <1>2, <1>4, <1>28, <2>2, Kinds DEF Conclude, Lonely, CompletionSteps
      <3>2. SupervisorReads(a)' /\ Finishes(a)'
        BY <3>1 DEF SupervisorReads, Finishes
      <3> QED
        BY <1>1, <2>2, <3>1, <3>2, LonelyAttends
    <2> QED
      BY <2>1, <2>2
  <1>29. ASSUME NEW a \in Runners \cup Supervisors, FinalizeStalled(a) PROVE Attending'
    <2>1. pc[a] = "stalled" /\ pc' = [pc EXCEPT ![a] = "completing"] /\ pc'[a] = "completing"
      BY <1>2, <1>3, <1>4, <1>29 DEF FinalizeStalled
    <2>2. Finishes(a)'
      BY <1>2, <1>3, <1>4, <1>29, <2>1 DEF FinalizeStalled, Finishes
    <2>3. CASE a \in Runners
      <3>1. RunnerReads(a)' /\ Drives(a)'
        BY <1>2, <1>3, <1>29, <2>1, <2>3
           DEF FinalizeStalled, RunnerReads, Drives, Working, CompletionSteps
      <3> QED
        BY <1>1, <2>1, <2>2, <2>3, <3>1, RunnerAttends
    <2>4. CASE a \in Supervisors
      <3>1. SupervisorReads(a)' /\ pc[a] \in Lonely
        BY <2>1 DEF SupervisorReads, Lonely
      <3> QED
        BY <1>1, <2>1, <2>2, <2>4, <3>1, LonelyAttends
    <2> QED
      BY <2>3, <2>4
  <1>30. ASSUME NEW a \in Runners \cup Supervisors, ReconcileCompletion(a) PROVE Attending'
    <2>1. pc[a] = "stalled" /\ pc' = [pc EXCEPT ![a] = "published"] /\ pc'[a] = "published"
      BY <1>2, <1>3, <1>4, <1>30 DEF ReconcileCompletion
    <2>2. phase \in {"validation_completed", completion} /\ (completion = "completed") = (versions > 0)
      BY <1>1, <1>30 DEF ReconcileCompletion, Telling, TypeOK, Phases, Startable
    <2>3. Finishes(a)'
      BY <1>2, <1>3, <1>4, <1>30, <2>1, <2>2 DEF ReconcileCompletion, Finishes
    <2>4. CASE a \in Runners
      <3>1. RunnerReads(a)' /\ Drives(a)'
        BY <1>2, <1>3, <1>30, <2>1, <2>4
           DEF ReconcileCompletion, RunnerReads, Drives, Working, CompletionSteps
      <3> QED
        BY <1>1, <2>1, <2>3, <2>4, <3>1, RunnerAttends
    <2>5. CASE a \in Supervisors
      <3>1. SupervisorReads(a)' /\ pc[a] \in Lonely
        BY <2>1 DEF SupervisorReads, Lonely
      <3> QED
        BY <1>1, <2>1, <2>3, <2>5, <3>1, LonelyAttends
    <2> QED
      BY <2>4, <2>5
  <1>31. ASSUME NEW a \in Runners \cup Supervisors, LeaveStalled(a) PROVE Attending'
    <2>1. CASE a \in Runners
      <3>1. pc[a] # "off" /\ pc' = [pc EXCEPT ![a] = "off"] /\ pc'[a] = "off"
        BY <1>2, <1>3, <1>31, <2>1 DEF LeaveStalled, Return
      <3>2. RunnerReads(a)' /\ Drives(a)' /\ Finishes(a)'
        BY <3>1 DEF RunnerReads, Drives, Finishes, Working, CompletionSteps
      <3> QED
        BY <1>1, <2>1, <3>1, <3>2, RunnerAttends
    <2>2. CASE a \in Supervisors
      <3>1. pc[a] \in Lonely /\ pc' = [pc EXCEPT ![a] = "idle"] /\ pc'[a] = "idle"
        BY <1>2, <1>4, <1>31, <2>2, Kinds DEF LeaveStalled, Return, Lonely
      <3>2. SupervisorReads(a)' /\ Finishes(a)'
        BY <3>1 DEF SupervisorReads, Finishes
      <3> QED
        BY <1>1, <2>2, <3>1, <3>2, LonelyAttends
    <2> QED
      BY <2>1, <2>2
  <1>32. ASSUME NEW s \in Supervisors, LockLauncher(s) PROVE Attending'
    <2>1. pc' = [pc EXCEPT ![s] = "locked"] /\ pc'[s] = "locked"
      BY <1>2, <1>4, <1>32 DEF LockLauncher
    <2>2. \A t \in Supervisors : pc[t] = "idle"
      BY <1>1, <1>32, Kinds DEF Launching, LockLauncher
    <2>3. \A a \in Actors : a # s => seen'[a] = seen[a] /\ verdict'[a] = verdict[a]
      BY <1>2, <1>4, <1>32 DEF LockLauncher
    <2>4. SupervisorReads(s)' /\ Finishes(s)'
      BY <2>1 DEF SupervisorReads, Finishes
    <2>5. UNCHANGED <<phase, completion, versions, owns, harness, passes, invocations>>
      BY <1>32 DEF LockLauncher
    <2> QED
      BY <1>1, <2>1, <2>2, <2>3, <2>4, <2>5, ObserverAttends
  <1>33. ASSUME NEW s \in Supervisors, ObserveClaimed(s) \/ HandOver(s) \/ KillSupervisor(s)
         PROVE  Attending'
    <2>1. pc[s] # "idle" /\ pc' = [pc EXCEPT ![s] = "idle"] /\ pc'[s] = "idle"
      BY <1>2, <1>4, <1>33, Kinds DEF ObserveClaimed, HandOver, KillSupervisor, Return
    <2>2. \A t \in Supervisors : t # s => pc[t] = "idle"
      BY <1>1, <2>1, OneSupervisor
    <2>3. \A a \in Actors : a # s => seen'[a] = seen[a] /\ verdict'[a] = verdict[a]
      BY <1>2, <1>4, <1>33 DEF ObserveClaimed, HandOver, KillSupervisor
    <2>4. SupervisorReads(s)' /\ Finishes(s)'
      BY <2>1 DEF SupervisorReads, Finishes
    <2>5. UNCHANGED <<phase, completion, versions, owns, harness, passes, invocations>>
      BY <1>33 DEF ObserveClaimed, HandOver, KillSupervisor
    <2> QED
      BY <1>1, <2>1, <2>2, <2>3, <2>4, <2>5, ObserverAttends
  <1>34. ASSUME NEW s \in Supervisors, ProbeClaim(s) PROVE Attending'
    <2>1. PICK step \in {"probing_live", "probing_dead"} :
            pc[s] # "idle" /\ pc' = [pc EXCEPT ![s] = step] /\ pc'[s] = step
      BY <1>2, <1>4, <1>34 DEF ProbeClaim
    <2>2. \A t \in Supervisors : t # s => pc[t] = "idle"
      BY <1>1, <2>1, OneSupervisor
    <2>3. /\ \A a \in Actors : a # s => seen'[a] = seen[a] /\ verdict'[a] = verdict[a]
          /\ seen'[s] = phase
      BY <1>2, <1>4, <1>34 DEF ProbeClaim, Supervised
    <2>4. UNCHANGED <<phase, completion, versions, owns, harness, passes, invocations>>
      BY <1>34 DEF ProbeClaim
    <2>5. SupervisorReads(s)' /\ Finishes(s)'
      BY <2>1, <2>3, <2>4 DEF SupervisorReads, Finishes
    <2> QED
      BY <1>1, <2>1, <2>2, <2>3, <2>4, <2>5, ObserverAttends
  <1>35. ASSUME NEW s \in Supervisors, Dispose(s) PROVE Attending'
    <2>1. /\ UNCHANGED <<phase, completion, versions, owns, harness, passes, invocations, seen, verdict>>
          /\ pc[s] # "idle"
      BY <1>35 DEF Dispose
    <2>2. \A t \in Supervisors : t # s => pc[t] = "idle"
      BY <1>1, <2>1, OneSupervisor
    <2>3. CASE pc' = [pc EXCEPT ![s] = "idle"]
      <3>1. pc'[s] = "idle"
        BY <1>2, <1>4, <2>3
      <3>2. SupervisorReads(s)' /\ Finishes(s)'
        BY <3>1 DEF SupervisorReads, Finishes
      <3> QED
        BY <1>1, <2>1, <2>2, <2>3, <3>2, ObserverAttends
    <2>4. CASE pc[s] = "probing_dead" /\ seen[s] \in Startable /\ pc' = [pc EXCEPT ![s] = "launching"]
      <3>1. pc'[s] = "launching" /\ pc[s] \in Lonely
        BY <1>2, <1>4, <2>4 DEF Lonely
      <3>2. SupervisorReads(s)' /\ Finishes(s)'
        BY <1>4, <2>1, <2>4, <3>1 DEF SupervisorReads, Finishes
      <3> QED
        BY <1>1, <2>4, <3>1, <3>2, LonelyAttends
    <2>5. CASE /\ pc[s] = "probing_dead" /\ seen[s] \in {"in_flight", "validation_completed"}
               /\ pc' = [pc EXCEPT ![s] = "stalled"]
      <3>1. pc'[s] = "stalled" /\ pc[s] \in Lonely
        BY <1>2, <1>4, <2>5 DEF Lonely
      <3>2. SupervisorReads(s)' /\ Finishes(s)'
        BY <1>4, <2>1, <2>5, <3>1 DEF SupervisorReads, Finishes
      <3> QED
        BY <1>1, <2>5, <3>1, <3>2, LonelyAttends
    <2> QED
      BY <1>35, <2>3, <2>4, <2>5, Kinds DEF Dispose, Return, Startable
  <1>36. ASSUME NEW s \in Supervisors, PrepareLaunch(s) PROVE Attending'
    <2>1. pc[s] = "launching" /\ pc' = [pc EXCEPT ![s] = "spawning_runner"] /\ pc'[s] = "spawning_runner"
      BY <1>2, <1>4, <1>36 DEF PrepareLaunch
    <2>2. phase' \in {"runner_started", "waiting_for_device"} /\ pidFile' = None
      BY <1>4, <1>36, <2>1 DEF PrepareLaunch, UpdatePhase, SupervisorReads
    <2>3. SupervisorReads(s)' /\ Finishes(s)' /\ pc[s] \in Lonely
      BY <2>1, <2>2 DEF SupervisorReads, Finishes, Lonely
    <2> QED
      BY <1>1, <2>1, <2>3, LonelyAttends
  <1>37. ASSUME NEW s \in Supervisors, NEW r \in Runners, SpawnRunner(s, r) PROVE Attending'
    <2>1. /\ pc[s] = "spawning_runner" /\ pc'[s] = "handing_over" /\ pc'[r] = "loading"
          /\ \A a \in Actors : a # s /\ a # r => pc'[a] = pc[a]
          /\ UNCHANGED <<phase, harness, seen, verdict, invocations, versions, completion, owns>>
      BY <1>2, <1>3, <1>4, <1>37, Kinds DEF SpawnRunner
    <2>2. r \notin harness /\ passes'[r] = 0
      BY <1>2, <1>37 DEF SpawnRunner, Born, Spawnable
    <2>3. \A t \in Supervisors : t # s => pc'[t] = "idle"
      BY <1>1, <1>4, <2>1, OneSupervisor, Kinds
    <2>4. \A q \in Runners : q # r => pc'[q] = "off"
      BY <1>1, <1>3, <2>1, Kinds DEF Launching, Lonely
    <2>5. \A t \in Supervisors : SupervisorReads(t)' /\ Finishes(t)'
      BY <2>1, <2>3 DEF SupervisorReads, Finishes
    <2>6. \A q \in Runners : q # r => RunnerReads(q)' /\ Drives(q)' /\ Finishes(q)'
      BY <2>4 DEF RunnerReads, Drives, Finishes, Working, CompletionSteps
    <2>7. RunnerReads(r)' /\ Drives(r)' /\ Finishes(r)'
      BY <1>4, <2>1, <2>2
         DEF SupervisorReads, RunnerReads, Drives, Finishes, Working, CompletionSteps
    <2> QED
      BY <2>5, <2>6, <2>7, Kinds DEF Attending, Reading, Driving, Finishing
  <1>38. CASE RestartMac
    <2>1. \A r \in Runners : pc'[r] = "off"
      BY <1>38, Kinds DEF RestartMac
    <2>2. \A s \in Supervisors : pc'[s] = "idle"
      BY <1>38, Kinds DEF RestartMac
    <2>3. \A r \in Runners : RunnerReads(r)' /\ Drives(r)' /\ Finishes(r)'
      BY <2>1 DEF RunnerReads, Drives, Finishes, Working, CompletionSteps
    <2>4. \A s \in Supervisors : SupervisorReads(s)' /\ Finishes(s)'
      BY <2>2 DEF SupervisorReads, Finishes
    <2> QED
      BY <2>3, <2>4, Kinds DEF Attending, Reading, Driving, Finishing
  <1>39. CASE OtherTakesLease \/ OtherReleasesLease \/ UNCHANGED vars
    <2>1. UNCHANGED <<pc, seen, phase, pidFile, versions, completion, passes, invocations, owns, harness,
                      verdict>>
      BY <1>39 DEF OtherTakesLease, OtherReleasesLease, vars
    <2>2. Reading' /\ Finishing'
      BY <1>1, <2>1 DEF Attending, Reading, Finishing, SupervisorReads, RunnerReads, Finishes
    <2>3. Driving'
      BY <1>1, <2>1 DEF Attending, Driving, Drives, Working
    <2> QED
      BY <2>2, <2>3 DEF Attending
  <1>40. ASSUME NEW r \in Runners, StepFails(r) PROVE Attending'
    <2>1. pc[r] # "off" /\ pc' = [pc EXCEPT ![r] = "stalled"] /\ pc'[r] = "stalled"
      BY <1>1, <1>2, <1>3, <1>40 DEF StepFails, ClaimIsLock, Working, CompletionSteps
    <2>2. ~StepsSucceed /\ UNCHANGED <<passes, invocations>>
      BY <1>40 DEF StepFails, Fault, StepsSucceed
    <2>3. RunnerReads(r)' /\ Drives(r)' /\ Finishes(r)'
      BY <1>3, <2>1, <2>2 DEF RunnerReads, Drives, Finishes, Working, CompletionSteps
    <2> QED
      BY <1>1, <2>1, <2>3, RunnerAttends
  <1>41. ASSUME NEW r \in Runners, WaitFails(r) PROVE Attending'
    <2>1. CASE pc'= [pc EXCEPT ![r] = "spawning"] /\ pc[r] = "awaiting_device" /\ passes[r] = 1
      <3>1. pc'[r] = "spawning" /\ UNCHANGED <<phase, seen, versions, completion, passes, invocations,
                                               owns, harness>>
        BY <1>2, <1>3, <1>41, <2>1 DEF WaitFails
      <3>2. RunnerReads(r)' /\ Drives(r)' /\ Finishes(r)'
        BY <1>2, <1>3, <1>5, <2>1, <3>1
           DEF RunnerReads, Drives, Finishes, Working, CompletionSteps
      <3> QED
        BY <1>1, <2>1, <3>2, RunnerAttends
    <2>2. CASE /\ pc' = [pc EXCEPT ![r] = "completing"]
               /\ pc[r] \in {"awaiting_device", "reacquiring", "reacquired"}
               /\ verdict' = [verdict EXCEPT ![r] = "failed"]
      <3>1. /\ pc'[r] = "completing" /\ verdict'[r] = "failed"
            /\ UNCHANGED <<phase, seen, versions, completion, passes, invocations, owns, harness>>
        BY <1>2, <1>3, <1>41, <2>2 DEF WaitFails
      <3>2. RunnerReads(r)' /\ Drives(r)' /\ Finishes(r)'
        BY <1>2, <1>3, <1>5, <2>2, <3>1
           DEF RunnerReads, Drives, Finishes, Working, CompletionSteps, Final
      <3> QED
        BY <1>1, <2>2, <3>2, RunnerAttends
    <2> QED
      BY <1>41, <2>1, <2>2 DEF WaitFails
  <1> QED
    BY <1>1, <1>6, <1>7, <1>8, <1>9, <1>10, <1>11, <1>12, <1>13, <1>14, <1>15, <1>16, <1>17,
       <1>18, <1>19, <1>20, <1>21, <1>22, <1>23, <1>24, <1>25, <1>26, <1>27, <1>28, <1>29, <1>30,
       <1>31, <1>32, <1>33, <1>34, <1>35, <1>36, <1>37, <1>38, <1>39, <1>40, <1>41, SupervisedNext

\* Every step of a supervised execution keeps the files telling the truth.
LEMMA StepTelling ==
    ASSUME Supervised, SupervisedInv, [Next]_vars
    PROVE  Telling'
  <1>1. TypeOK /\ TypeInv /\ OutcomeIsChosen /\ ClaimIsLock /\ Launching /\ Reading /\ Telling
    BY DEF SupervisedInv, ClaimInv, TypeInv
  <1>2. /\ invocations \in Nat /\ versions \in Nat /\ completion \in Final \cup {None}
        /\ phase \in Phases /\ passes \in [Runners -> Nat]
    BY <1>1 DEF TypeOK
  <1>3. \A r \in Runners : r \in Actors /\ RunnerReads(r) /\ Drives(r) /\ Finishes(r)
    BY Kinds DEF SupervisedInv, Reading, Driving, Finishing
  <1>4. \A s \in Supervisors : s \in Actors /\ SupervisorReads(s) /\ Finishes(s)
    BY Kinds DEF SupervisedInv, Reading, Finishing
  <1>5. None \notin Final
    BY ExecutionAssumption DEF Final
  <1> USE DEF files, locks, history, bounds
  <1>6. CASE UNCHANGED <<invocations, versions, phase, completion, harness>>
    BY <1>1, <1>6 DEF Telling
  <1>7. ASSUME NEW r \in Runners,
               BeginExecution(r) \/ RecordHarness(r) \/ HarnessSucceeded(r) \/ ResumeDelivery(r)
        PROVE  Telling'
    <2>1. phase' = "in_flight" /\ UNCHANGED <<invocations, versions, completion, harness>>
      BY <1>7 DEF BeginExecution, RecordHarness, HarnessSucceeded, ResumeDelivery, UpdatePhase
    <2>2. versions = 0 /\ completion = None
      BY <1>3, <1>7
         DEF BeginExecution, RecordHarness, HarnessSucceeded, ResumeDelivery, Drives, Working
    <2> QED
      BY <1>1, <2>1, <2>2 DEF Telling, Startable, Final
  <1>8. ASSUME NEW r \in Runners, SpawnHarness(r) PROVE Telling'
    <2>1. /\ phase \in {"in_flight", "waiting_for_device"}
          /\ invocations < 2 /\ invocations' = invocations + 1
          /\ versions = 0 /\ completion = None /\ UNCHANGED <<phase, versions, completion>>
      BY <1>3, <1>8 DEF SpawnHarness, RunnerReads, Drives, Working
    <2> QED
      BY <1>2, <2>1 DEF Telling, Startable, Final
  <1>9. ASSUME NEW r \in Runners, GatesAccept(r) PROVE Telling'
    <2>1. /\ phase = "in_flight" /\ invocations > 0 /\ versions = 0 /\ versions' = versions + 1
          /\ completion = None /\ UNCHANGED <<phase, invocations, completion>>
      BY <1>3, <1>9 DEF GatesAccept, RunnerReads, Drives, Working
    <2> QED
      BY <1>1, <1>2, <2>1 DEF Telling, Startable, Final
  <1>10. ASSUME NEW r \in Runners, DeviceMissing(r) PROVE Telling'
    <2>1. /\ phase' = "waiting_for_device" /\ invocations > 0 /\ versions = 0 /\ completion = None
          /\ UNCHANGED <<invocations, versions, completion, harness>>
      BY <1>3, <1>10 DEF DeviceMissing, UpdatePhase, Drives, Working
    <2> QED
      BY <1>1, <1>2, <2>1 DEF Telling, Startable, Final
  <1>11. ASSUME NEW r \in Runners, HarnessExits(r) PROVE Telling'
    BY <1>1, <1>11 DEF HarnessExits, Telling
  <1>12. ASSUME NEW a \in Runners \cup Supervisors, Validate(a) PROVE Telling'
    <2>1. phase' = "validation_completed" /\ UNCHANGED <<invocations, versions, completion, harness>>
      BY <1>12 DEF Validate, UpdatePhase
    <2> QED
      BY <1>1, <2>1 DEF Telling, Startable, Final
  <1>13. ASSUME NEW a \in Runners \cup Supervisors, PublishCompletion(a) PROVE Telling'
    <2>1. /\ phase = "validation_completed" /\ completion' = verdict[a]
          /\ (verdict[a] = "completed") = (versions > 0)
          /\ UNCHANGED <<invocations, versions, phase>>
      BY <1>3, <1>4, <1>13 DEF PublishCompletion, Finishes
    <2> QED
      BY <1>1, <2>1 DEF Telling, Startable, Final
  <1>14. ASSUME NEW a \in Runners \cup Supervisors, FinalizePhase(a) PROVE Telling'
    <2>1. /\ pc[a] = "published" /\ phase' = verdict[a] /\ completion = verdict[a]
          /\ (verdict[a] = "completed") = (versions > 0)
          /\ UNCHANGED <<invocations, versions, completion, harness>>
      BY <1>3, <1>4, <1>14 DEF FinalizePhase, Finishes
    <2>2. verdict[a] \in Final
      BY <1>1, <1>3, <1>4, <2>1 DEF OutcomeIsChosen, CompletionSteps
    <2>3. StepsSucceed => harness = {}
      <3>1. CASE a \in Supervisors
        BY <1>1, <2>1, <3>1 DEF Launching, Lonely, CompletionSteps
      <3>2. CASE a \in Runners
        <4>1. StepsSucceed => a \in owns /\ a \notin harness
          BY <1>3, <2>1, <3>2 DEF Drives, CompletionSteps
        <4>2. StepsSucceed => \A q \in Runners : q \notin harness
          BY <1>1, <3>2, <4>1 DEF ClaimIsLock
        <4> QED
          BY <1>1, <4>2 DEF TypeOK
      <3> QED
        BY <3>1, <3>2
    <2> QED
      BY <1>1, <2>1, <2>2, <2>3 DEF Telling, Startable, Final
  <1>15. ASSUME NEW s \in Supervisors, PrepareLaunch(s) PROVE Telling'
    <2>1. UNCHANGED <<invocations, versions, completion, harness>> /\ pc[s] = "launching"
      BY <1>15 DEF PrepareLaunch
    <2>2. seen[s] = phase /\ phase \in Startable
      BY <1>4, <2>1 DEF SupervisorReads
    <2>3. CASE phase = "waiting_for_device"
      BY <1>1, <1>15, <2>1, <2>2, <2>3 DEF PrepareLaunch, Telling
    <2>4. CASE phase # "waiting_for_device"
      <3>1. phase' = "runner_started" /\ phase \in {"prepared", "runner_started"}
        BY <1>15, <2>2, <2>4 DEF PrepareLaunch, UpdatePhase, Startable
      <3> QED
        BY <1>1, <2>1, <2>2, <3>1 DEF Telling, Startable, Final
    <2> QED
      BY <2>3, <2>4
  <1>16. CASE RestartMac
    BY <1>1, <1>16 DEF RestartMac, Telling
  <1>17. ASSUME NEW r \in Runners,
                \/ Load(r) \/ Claim(r) \/ LoseClaim(r) \/ EnterRun(r) \/ TakeLease(r)
                \/ (\E reason \in {"failed", "cancelled"} : HarnessFailed(r, reason))
                \/ GatesRefuse(r) \/ Repair(r) \/ DeviceArrives(r) \/ KillRunner(r) \/ StepFails(r)
                \/ WaitFails(r)
         PROVE  UNCHANGED <<invocations, versions, phase, completion, harness>>
    BY <1>17 DEF Load, Claim, LoseClaim, EnterRun, TakeLease, HarnessFailed, GatesRefuse, Repair,
                 DeviceArrives, KillRunner, StepFails, WaitFails
  <1>18. ASSUME NEW a \in Runners \cup Supervisors,
                \/ Judge(a) \/ Conclude(a)
                \/ FinalizeStalled(a) \/ ReconcileCompletion(a) \/ LeaveStalled(a)
         PROVE  UNCHANGED <<invocations, versions, phase, completion, harness>>
    BY <1>18 DEF Judge, Conclude, FinalizeStalled, ReconcileCompletion, LeaveStalled
  <1>19. ASSUME NEW s \in Supervisors,
                \/ LockLauncher(s) \/ ObserveClaimed(s) \/ ProbeClaim(s) \/ Dispose(s) \/ HandOver(s) \/ KillSupervisor(s)
                \/ \E r \in Runners : SpawnRunner(s, r)
         PROVE  UNCHANGED <<invocations, versions, phase, completion, harness>>
    BY <1>19 DEF LockLauncher, ObserveClaimed, ProbeClaim, Dispose, HandOver, KillSupervisor, SpawnRunner
  <1>20. OtherTakesLease \/ OtherReleasesLease \/ UNCHANGED vars
            => UNCHANGED <<invocations, versions, phase, completion, harness>>
    BY DEF OtherTakesLease, OtherReleasesLease, vars
  <1> QED
    BY <1>1, <1>6, <1>7, <1>8, <1>9, <1>10, <1>11, <1>12, <1>13, <1>14, <1>15, <1>16, <1>17, <1>18,
       <1>19, <1>20, SupervisedNext

\* Steps that leave phase and journal alone, and are no way past a missing final
\* event but a fault.
LEMMA JournalKept ==
    ASSUME TypeOK, Journalled, UNCHANGED <<phase, log>>,
           \A a \in Actors : pc'[a] \in {"published", "finalized"} => pc[a] = pc'[a],
           \/ faults' = faults /\ \A a \in Actors : pc[a] = "finalized" => pc'[a] = "finalized"
           \/ faults' = faults + 1
    PROVE  Journalled'
  BY DEF Journalled, TypeOK

\* Every step of a supervised execution keeps the journal in agreement.
LEMMA StepJournalled ==
    ASSUME Supervised, SupervisedInv, [Next]_vars
    PROVE  Journalled'
  <1>1. /\ TypeOK /\ TypeInv /\ OutcomeIsChosen /\ ClaimIsLock /\ Launching /\ Reading /\ Telling
        /\ Journalled
    BY DEF SupervisedInv, ClaimInv, TypeInv
  <1>2. /\ pc \in [Actors -> RunnerSteps \cup SupervisorSteps \cup CancelSteps \cup CompletionSteps]
        /\ faults \in Nat /\ phase \in Phases /\ log \in {"open", "torn"} \cup Final
    BY <1>1 DEF TypeOK
  <1>3. \A r \in Runners : r \in Actors /\ RunnerReads(r) /\ Drives(r) /\ Finishes(r)
    BY Kinds DEF SupervisedInv, Reading, Driving, Finishing
  <1>4. \A s \in Supervisors : s \in Actors /\ SupervisorReads(s) /\ Finishes(s)
    BY Kinds DEF SupervisedInv, Reading, Finishing
  <1> USE DEF files, locks, history, bounds, Goto
  <1>5. ASSUME phase \notin Final, phase' \notin Final, log' = Append(phase') PROVE Journalled'
    BY <1>1, <1>5 DEF Journalled, Append
  <1>6. ASSUME NEW r \in Runners,
               \/ BeginExecution(r) \/ RecordHarness(r) \/ HarnessSucceeded(r) \/ ResumeDelivery(r)
               \/ DeviceMissing(r)
        PROVE  Journalled'
    <2>1. phase' \in {"in_flight", "waiting_for_device"} /\ log' = Append(phase')
      BY <1>6 DEF BeginExecution, RecordHarness, HarnessSucceeded, ResumeDelivery, DeviceMissing,
                  UpdatePhase
    <2>2. phase \notin Final
      BY <1>3, <1>6 DEF BeginExecution, RecordHarness, HarnessSucceeded, ResumeDelivery, DeviceMissing,
                        RunnerReads, Final
    <2> QED
      BY <1>5, <2>1, <2>2 DEF Final
  <1>7. ASSUME NEW a \in Runners \cup Supervisors, Validate(a) PROVE Journalled'
    <2>1. phase \notin Final /\ phase' = "validation_completed" /\ log' = Append(phase')
      BY <1>3, <1>4, <1>7 DEF Validate, UpdatePhase, Finishes
    <2> QED
      BY <1>5, <2>1 DEF Final
  <1>8. ASSUME NEW s \in Supervisors, PrepareLaunch(s) PROVE Journalled'
    <2>1. CASE seen[s] = "waiting_for_device"
      <3>1. UNCHANGED <<phase, log, faults>> /\ pc[s] = "launching" /\ pc'[s] = "spawning_runner"
        BY <1>2, <1>4, <1>8, <2>1 DEF PrepareLaunch
      <3>2. \A a \in Actors : a # s => pc'[a] = pc[a]
        BY <1>2, <1>8 DEF PrepareLaunch
      <3> QED
        BY <1>1, <3>1, <3>2, JournalKept
    <2>2. CASE seen[s] # "waiting_for_device"
      <3>1. phase' = "runner_started" /\ log' = Append(phase') /\ phase \notin Final
        BY <1>4, <1>8, <2>2 DEF PrepareLaunch, UpdatePhase, SupervisorReads, Startable, Final
      <3> QED
        BY <1>5, <3>1 DEF Final
    <2> QED
      BY <2>1, <2>2
  <1>9. ASSUME NEW a \in Runners \cup Supervisors, PublishCompletion(a) PROVE Journalled'
    <2>1. phase = "validation_completed" /\ UNCHANGED <<phase, log>>
      BY <1>3, <1>4, <1>9 DEF PublishCompletion, Finishes
    <2> QED
      BY <1>1, <2>1 DEF Journalled, Final
  <1>10. ASSUME NEW a \in Runners \cup Supervisors, FinalizePhase(a) PROVE Journalled'
    <2>1. a \in Actors /\ pc[a] = "published" /\ pc'[a] = "finalized" /\ UNCHANGED log
      BY <1>2, <1>3, <1>4, <1>10 DEF FinalizePhase
    <2> QED
      BY <1>1, <2>1 DEF Journalled
  <1>11. ASSUME NEW a \in Runners \cup Supervisors, ReconcileCompletion(a) PROVE Journalled'
    <2>1. a \in Actors /\ pc[a] = "stalled" /\ log = "open" /\ UNCHANGED <<phase, log, faults>>
      BY <1>3, <1>4, <1>11 DEF ReconcileCompletion
    <2>2. \A b \in Actors : pc[b] = "finalized" => pc'[b] = "finalized"
      BY <1>2, <1>11, <2>1 DEF ReconcileCompletion
    <2> QED
      BY <1>1, <2>1, <2>2 DEF Journalled
  <1>12. ASSUME NEW a \in Runners \cup Supervisors, Conclude(a) PROVE Journalled'
    <2>1. a \in Actors /\ pc[a] = "finalized" /\ pc'[a] \in {"off", "idle"} /\ UNCHANGED phase
      BY <1>2, <1>3, <1>4, <1>12 DEF Conclude
    <2>2. phase = verdict[a] /\ verdict[a] \in Final /\ log = "open"
      BY <1>1, <1>3, <1>4, <2>1 DEF Finishes, OutcomeIsChosen, CompletionSteps, Journalled
    <2>3. log' = phase
      BY <1>12, <2>2 DEF Conclude, Append
    <2>4. log' # "open"
      BY <2>2, <2>3 DEF Final
    <2>5. \A b \in Actors : b # a => pc[b] \notin {"published", "finalized"} /\ pc'[b] = pc[b]
      <3>1. \A b \in Actors : b # a => pc'[b] = pc[b]
        BY <1>2, <1>12 DEF Conclude
      <3>2. CASE a \in Runners
        <4>1. \A q \in Runners : q # a => pc[q] = "off"
          BY <1>1, <2>1, <3>2, OneRunner
        <4>2. \A t \in Supervisors : pc[t] \notin {"published", "finalized"}
          BY <1>1, <2>1, <3>2, OneRunner DEF Lonely, CompletionSteps
        <4> QED
          BY <3>1, <4>1, <4>2, Kinds
      <3>3. CASE a \in Supervisors
        <4>1. \A t \in Supervisors : t # a => pc[t] = "idle"
          BY <1>1, <2>1, <3>3, OneSupervisor
        <4>2. \A q \in Runners : pc[q] = "off"
          BY <1>1, <2>1, <3>3 DEF Launching, Lonely, CompletionSteps
        <4> QED
          BY <3>1, <4>1, <4>2, Kinds
      <3> QED
        BY <3>2, <3>3
    <2> QED
      BY <2>1, <2>2, <2>3, <2>4, <2>5 DEF Journalled
  <1>13. ASSUME NEW r \in Runners,
                \/ Load(r) \/ Claim(r) \/ EnterRun(r) \/ TakeLease(r) \/ SpawnHarness(r)
                \/ (\E reason \in {"failed", "cancelled"} : HarnessFailed(r, reason))
                \/ GatesAccept(r) \/ GatesRefuse(r) \/ Repair(r) \/ DeviceArrives(r)
         PROVE  Journalled'
    <2>1. /\ UNCHANGED <<phase, log, faults>> /\ pc[r] # "finalized"
          /\ \E step : pc' = [pc EXCEPT ![r] = step] /\ step \notin {"published", "finalized"}
      BY <1>13 DEF Load, Claim, EnterRun, TakeLease, SpawnHarness, HarnessFailed, GatesAccept,
                   GatesRefuse, Repair, DeviceArrives
    <2> QED
      BY <1>1, <1>2, <1>3, <2>1, JournalKept
  <1>14. ASSUME NEW r \in Runners, LoseClaim(r) \/ KillRunner(r) \/ StepFails(r) \/ WaitFails(r)
         PROVE  Journalled'
    <2>1. /\ UNCHANGED <<phase, log>>
          /\ \E step : pc' = [pc EXCEPT ![r] = step] /\ step \notin {"published", "finalized"}
          /\ \/ faults' = faults /\ pc[r] # "finalized"
             \/ faults' = faults + 1
      BY <1>14 DEF LoseClaim, KillRunner, StepFails, WaitFails, Fault
    <2> QED
      BY <1>1, <1>2, <1>3, <2>1, JournalKept
  <1>15. ASSUME NEW a \in Runners \cup Supervisors,
                Judge(a) \/ FinalizeStalled(a) \/ LeaveStalled(a)
         PROVE  Journalled'
    <2>1. /\ UNCHANGED <<phase, log, faults>> /\ pc[a] # "finalized" /\ a \in Actors
          /\ \E step : pc' = [pc EXCEPT ![a] = step] /\ step \notin {"published", "finalized"}
      BY <1>3, <1>4, <1>15 DEF Judge, FinalizeStalled, LeaveStalled, Return
    <2> QED
      BY <1>1, <1>2, <2>1, JournalKept
  <1>16. ASSUME NEW s \in Supervisors,
                \/ LockLauncher(s) \/ ObserveClaimed(s) \/ ProbeClaim(s) \/ Dispose(s) \/ HandOver(s)
                \/ KillSupervisor(s)
         PROVE  Journalled'
    <2>1. /\ UNCHANGED <<phase, log>>
          /\ \E step : pc' = [pc EXCEPT ![s] = step] /\ step \notin {"published", "finalized"}
          /\ \/ faults' = faults /\ pc[s] # "finalized"
             \/ faults' = faults + 1
      BY <1>16 DEF LockLauncher, ObserveClaimed, ProbeClaim, Dispose, HandOver, KillSupervisor, Return,
                   Fault
    <2> QED
      BY <1>1, <1>2, <1>4, <2>1, JournalKept
  <1>17. ASSUME NEW s \in Supervisors, NEW r \in Runners, SpawnRunner(s, r) PROVE Journalled'
    <2>1. /\ UNCHANGED <<phase, log, faults>> /\ pc[s] = "spawning_runner" /\ pc[r] = "off"
          /\ pc' = [pc EXCEPT ![s] = "handing_over", ![r] = "loading"]
      BY <1>17 DEF SpawnRunner, Born, Spawnable
    <2> QED
      BY <1>1, <1>2, <1>3, <1>4, <2>1, JournalKept
  <1>18. CASE RestartMac
    <2>1. UNCHANGED <<phase, log>> /\ faults' = faults + 1
      BY <1>18 DEF RestartMac, Fault
    <2>2. \A a \in Actors : pc'[a] \in {"off", "idle"}
      BY <1>18 DEF RestartMac
    <2> QED
      BY <1>1, <2>1, <2>2, JournalKept
  <1>19. CASE \/ OtherTakesLease \/ OtherReleasesLease \/ UNCHANGED vars
             \/ \E r \in Runners : HarnessExits(r)
    BY <1>1, <1>19 DEF OtherTakesLease, OtherReleasesLease, HarnessExits, vars, Journalled
  <1> QED
    BY <1>1, <1>6, <1>7, <1>8, <1>9, <1>10, <1>11, <1>12, <1>13, <1>14, <1>15, <1>16, <1>17, <1>18,
       <1>19, SupervisedNext

\* A prepared execution has no process yet, and its files tell so.
LEMMA InitSupervised ==
    ASSUME Supervised, Init
    PROVE  SupervisedInv
  <1>1. ClaimInv
    BY InitInv DEF ClaimInv
  <1>2. /\ \A r \in Runners : pc[r] = "off"
        /\ \A s \in Supervisors : pc[s] = "idle"
    BY Kinds DEF Init
  <1>3. Launching
    BY <1>2 DEF Launching, Lonely, CompletionSteps
  <1>4. \A r \in Runners : RunnerReads(r) /\ Drives(r) /\ Finishes(r)
    BY <1>2 DEF RunnerReads, Drives, Finishes, Working, CompletionSteps
  <1>5. \A s \in Supervisors : SupervisorReads(s) /\ Finishes(s)
    BY <1>2 DEF SupervisorReads, Finishes
  <1>6. Telling
    BY DEF Init, Telling, Startable, Final
  <1>7. Journalled
    BY <1>2, Kinds DEF Init, Journalled, Final
  <1> QED
    BY <1>1, <1>3, <1>4, <1>5, <1>6, <1>7, Kinds DEF SupervisedInv, Reading, Driving, Finishing

\* The invariant of supervised executions.
LEMMA AlwaysSupervised ==
    ASSUME Supervised
    PROVE  Spec => []SupervisedInv
  <1>1. Init => SupervisedInv
    BY InitSupervised
  <1>2. SupervisedInv /\ [Next]_vars => SupervisedInv'
    <2> SUFFICES ASSUME SupervisedInv, [Next]_vars PROVE SupervisedInv'
      OBVIOUS
    <2>1. ClaimInv'
      BY StepType, StepClaim DEF SupervisedInv, ClaimInv
    <2>2. Launching' /\ Attending' /\ Telling' /\ Journalled'
      BY StepLaunching, StepAttending, StepTelling, StepJournalled
    <2> QED
      BY <2>1, <2>2 DEF SupervisedInv, Attending
  <1> QED BY <1>1, <1>2, PTL DEF Spec

\* complete_execution and reconcile_published_completion leave a supervised
\* execution whose completion, phase and ledger tell the same outcome, whichever
\* dying runner or supervisor, failing step or restart of the Mac interrupted
\* them.  The event journal tells that outcome too, or after such a fault none.
THEOREM FilesAgree ==
    ASSUME Supervised PROVE Spec => []RecordsAgree
  <1>1. SupervisedInv => RecordsAgree
    BY DEF SupervisedInv, ClaimInv, TypeInv, TypeOK, Telling, Journalled, RecordsAgree, Settled
  <1> QED BY <1>1, AlwaysSupervised, PTL

\* When a supervised execution is final and the next one may be prepared, no
\* harness of any runner, dead or alive, is still at work on the Shot: unless a
\* step of run_shot failed, which reports its error beside a live harness.
THEOREM FinalIsQuiet ==
    ASSUME Supervised, StepsSucceed PROVE Spec => []FinalMeansQuiet
  <1>1. SupervisedInv => FinalMeansQuiet
    BY DEF SupervisedInv, Telling, FinalMeansQuiet
  <1> QED BY <1>1, AlwaysSupervised, PTL

\* Each step of a supervised execution is a pass, the acceptance of its Version,
\* the decision of its outcome, or invisible to its sender.
LEMMA PromisedStep ==
    ASSUME Supervised, SupervisedInv, [Next]_vars
    PROVE  [Promise!Next]_(Promise!vars)
  <1>1. TypeInv /\ OutcomeIsChosen /\ Launching /\ Reading
    BY DEF SupervisedInv, ClaimInv, TypeInv
  <1>2. /\ invocations \in Nat /\ versions \in Nat /\ versions <= 1
    BY DEF SupervisedInv, ClaimInv, TypeInv, TypeOK, Telling
  <1>3. \A r \in Runners : r \in Actors /\ RunnerReads(r) /\ Drives(r) /\ Finishes(r)
    BY Kinds DEF SupervisedInv, Reading, Driving, Finishing
  <1>4. \A s \in Supervisors : s \in Actors /\ SupervisorReads(s) /\ Finishes(s)
    BY Kinds DEF SupervisedInv, Reading, Finishing
  <1> USE DEF files, locks, history, bounds
  <1>5. CASE UNCHANGED <<invocations, versions, completion>>
    BY <1>5 DEF Promise!vars
  <1>6. ASSUME NEW r \in Runners, SpawnHarness(r) PROVE Promise!Work
    BY <1>3, <1>6 DEF SpawnHarness, Drives, Working, Promise!Work
  <1>7. ASSUME NEW r \in Runners, GatesAccept(r) PROVE Promise!Accept
    BY <1>3, <1>7 DEF GatesAccept, Drives, Working, Promise!Accept
  <1>8. ASSUME NEW a \in Runners \cup Supervisors, PublishCompletion(a) PROVE Promise!Decide
    <2>1. /\ completion = None /\ completion' = verdict[a] /\ UNCHANGED <<invocations, versions>>
          /\ (verdict[a] = "completed") = (versions > 0) /\ pc[a] = "validated"
      BY <1>3, <1>4, <1>8 DEF PublishCompletion, Finishes
    <2>2. verdict[a] \in {"completed", "failed", "cancelled"}
      BY <1>1, <1>3, <1>4, <2>1 DEF OutcomeIsChosen, CompletionSteps, Final
    <2>3. versions = 1 \/ versions = 0
      BY <1>2
    <2> QED
      BY <2>1, <2>2, <2>3 DEF Promise!Decide
  <1>9. ASSUME NEW r \in Runners,
               \/ Load(r) \/ Claim(r) \/ LoseClaim(r) \/ EnterRun(r) \/ TakeLease(r)
               \/ BeginExecution(r) \/ RecordHarness(r) \/ HarnessSucceeded(r)
               \/ (\E reason \in {"failed", "cancelled"} : HarnessFailed(r, reason))
               \/ GatesRefuse(r) \/ Repair(r) \/ DeviceMissing(r) \/ DeviceArrives(r)
               \/ ResumeDelivery(r) \/ HarnessExits(r) \/ KillRunner(r) \/ StepFails(r)
               \/ WaitFails(r)
        PROVE  UNCHANGED <<invocations, versions, completion>>
    BY <1>9 DEF Load, Claim, LoseClaim, EnterRun, TakeLease, BeginExecution, RecordHarness,
                HarnessSucceeded, HarnessFailed, GatesRefuse, Repair, DeviceMissing, DeviceArrives,
                ResumeDelivery, HarnessExits, KillRunner, StepFails, WaitFails
  <1>10. ASSUME NEW a \in Runners \cup Supervisors,
                \/ Judge(a) \/ Validate(a) \/ FinalizePhase(a) \/ Conclude(a)
                \/ FinalizeStalled(a) \/ ReconcileCompletion(a) \/ LeaveStalled(a)
         PROVE  UNCHANGED <<invocations, versions, completion>>
    BY <1>10 DEF Judge, Validate, FinalizePhase, Conclude, FinalizeStalled, ReconcileCompletion,
                 LeaveStalled
  <1>11. ASSUME NEW s \in Supervisors,
                \/ LockLauncher(s) \/ ObserveClaimed(s) \/ ProbeClaim(s) \/ Dispose(s) \/ PrepareLaunch(s) \/ HandOver(s)
                \/ KillSupervisor(s) \/ \E r \in Runners : SpawnRunner(s, r)
         PROVE  UNCHANGED <<invocations, versions, completion>>
    BY <1>11 DEF LockLauncher, ObserveClaimed, ProbeClaim, Dispose, PrepareLaunch, HandOver, KillSupervisor, SpawnRunner
  <1>12. RestartMac \/ OtherTakesLease \/ OtherReleasesLease \/ UNCHANGED vars
            => UNCHANGED <<invocations, versions, completion>>
    BY DEF RestartMac, OtherTakesLease, OtherReleasesLease, vars
  <1> QED
    BY <1>1, <1>5, <1>6, <1>7, <1>8, <1>9, <1>10, <1>11, <1>12, SupervisedNext DEF Promise!Next

\* run_shot, ensure_background_runner and finalize_stalled_execution implement the
\* safety of the promise: one pass and at most one repair, at most one accepted
\* Version, and one published outcome that agrees with it.
THEOREM KeepsPromise ==
    ASSUME Supervised PROVE Spec => Promise!Init /\ [][Promise!Next]_(Promise!vars)
  <1>1. Init => Promise!Init
    BY DEF Init, Promise!Init
  <1>2. SupervisedInv /\ [Next]_vars => [Promise!Next]_(Promise!vars)
    BY PromisedStep
  <1> QED BY <1>1, <1>2, AlwaysSupervised, PTL DEF Spec

=============================================================================
