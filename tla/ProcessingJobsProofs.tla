------------------------ MODULE ProcessingJobsProofs ------------------------
(***************************************************************************)
(* Theorems about ProcessingJobs, for every set of workers, jobs, images   *)
(* and handlers, every attempt budget and every set of disturbances.       *)
(* Each safety theorem rests on one inductive invariant; the steps of Next *)
(* are taken in the order of the module.                                   *)
(***************************************************************************)
EXTENDS ProcessingJobs, TLAPS

\* A leased row has had an attempt counted: the claim takes both, and the
\* shutdown that gives the attempt back gives the lease back too.
OwnedIsCounted == \A j \in Jobs : owner[j] # None => attempts[j] > 0

\* An execution past its first read knows which key it will write.
WorkHasKey == \A s \in Slots : pc[s] \notin {"idle", "claimed", "clear"} => keyAttempt[s] > 0

\* A replacement in progress can still be promoted within the bound.
ReplacingHasRoom == \A i \in Images : image[i].replacing => image[i].revision < MaxRevisions

TypeInv == TypeOK /\ OwnedIsCounted /\ WorkHasKey /\ ReplacingHasRoom

LEMMA SlotFields ==
  ASSUME NEW s \in Slots
  PROVE  s[1] \in Workers /\ s[2] \in Jobs /\ s[3] \in 1 .. MaxAttempts
         /\ s = <<s[1], s[2], s[3]>>
  BY DEF Slots

LEMMA SlotsApart ==
  ASSUME NEW s \in Slots, NEW t \in Slots, s[1] = t[1], s[2] = t[2], s[3] = t[3]
  PROVE  s = t
  BY SlotFields

\* The key an execution writes is a key of the model.
LEMMA KeyOfType ==
  ASSUME TypeInv, NEW s \in Slots, keyAttempt[s] > 0
  PROVE  KeyOf(s) \in OutputKeys
  <1>1. keyAttempt[s] \in 0 .. MaxAttempts
    BY DEF TypeInv, TypeOK, QueueTypeOK
  <1>2. keyAttempt[s] \in 1 .. MaxAttempts
    BY <1>1, QueueAssumption DEF QueueAssumption
  <1> QED BY <1>2, SlotFields DEF KeyOf, OutputKeys

LEMMA TypeInit == Init => TypeInv
  <1> SUFFICES ASSUME Init PROVE TypeInv OBVIOUS
  <1> USE QueueAssumption, JobsAssumption
  <1>1. QueueTypeOK
    BY DEF Init, QueueInit, QueueTypeOK, QueueAssumption, JobStatus, ActiveStatus,
           RunningStatus, WorkerMode, LoopStep, ExecStep
  <1>2. NoRow \in Row
    BY DEF NoRow, Row, JobsAssumption
  <1>3. NoRequest \in Request
    BY <1>2 DEF NoRequest, Request, RequestStep
  <1>4. TypeOK
    BY <1>1, <1>2, <1>3 DEF Init, TypeOK, JobsAssumption, QueueAssumption,
       DerivativeStatus, ImageStatus
  <1>5. OwnedIsCounted /\ WorkHasKey /\ ReplacingHasRoom
    BY <1>4 DEF Init, QueueInit, OwnedIsCounted, WorkHasKey, ReplacingHasRoom
  <1> QED BY <1>4, <1>5 DEF TypeInv

-----------------------------------------------------------------------------
(* Steps of the queue *)

\* What OnQueue leaves alone keeps its type.
LEMMA OnQueueTypes ==
  ASSUME TypeInv, OnQueue, QueueTypeOK', OwnedIsCounted', WorkHasKey'
  PROVE  TypeInv'
  <1>1. previous' \in [Slots -> OutputKeys \cup {None}]
    BY DEF TypeInv, TypeOK, OnQueue
  <1>2. TypeOK'
    BY <1>1 DEF TypeInv, TypeOK, OnQueue, jobVars, fileVars, quotaVars, OutputKeys
  <1>3. ReplacingHasRoom'
    BY DEF TypeInv, ReplacingHasRoom, OnQueue
  <1> QED BY <1>2, <1>3 DEF TypeInv

\* The facts about the queue that its steps need and must keep.
QueueInv == QueueTypeOK /\ OwnedIsCounted /\ WorkHasKey

LEMMA QueueTypeStep ==
  ASSUME QueueInv, QueueNext
  PROVE  QueueInv'
  <1> USE QueueAssumption DEF QueueAssumption, QueueInv, QueueTypeOK, leaseVars,
          workerVars, execVars
  <1>1. ASSUME NEW w \in Workers, SelectExpiredLeases(w) PROVE QueueInv'
    <2>1. QueueTypeOK'
      BY <1>1 DEF SelectExpiredLeases, LoopStep
    <2> QED BY <1>1, <2>1 DEF SelectExpiredLeases, OwnedIsCounted, WorkHasKey
  <1>2. ASSUME NEW w \in Workers, RequeueExpiredLeases(w) PROVE QueueInv'
    <2>1. QueueTypeOK'
      BY <1>2 DEF RequeueExpiredLeases, Requeued, LoopStep, JobStatus, ActiveStatus
    <2> QED BY <1>2, <2>1 DEF RequeueExpiredLeases, Requeued, OwnedIsCounted, WorkHasKey
  \* What the UPDATE of a claim does, whether or not executions start.
  <1>c. ASSUME NEW w \in Workers, NEW claimed \in SUBSET Claimable, Claim(w, claimed),
               pc' \in [Slots -> ExecStep], inFlight' \in [Workers -> SUBSET Jobs],
               \A s \in Slots : pc'[s] \in {pc[s], "claimed"}
        PROVE  QueueInv'
    <2>1. /\ status' = [j \in Jobs |-> IF j \in claimed THEN "processing" ELSE status[j]]
          /\ attempts' = [j \in Jobs |->
                            IF j \in claimed THEN attempts[j] + 1 ELSE attempts[j]]
          /\ owner' = [j \in Jobs |-> IF j \in claimed THEN w ELSE owner[j]]
          /\ lapsed' = [j \in Jobs |-> IF j \in claimed THEN FALSE ELSE lapsed[j]]
          /\ loop' = [loop EXCEPT ![w] = "poll"]
          /\ UNCHANGED <<mode, selected, keyAttempt, stops>>
      BY <1>c DEF Claim
    <2>2. claimed \subseteq Jobs /\ \A j \in claimed : attempts[j] < MaxAttempts
      BY <1>c DEF Claimable
    <2>4. attempts' \in [Jobs -> 0 .. MaxAttempts]
      BY <2>1, <2>2
    <2>5. status' \in [Jobs -> JobStatus]
      BY <2>1 DEF JobStatus, ActiveStatus, RunningStatus
    <2>6. owner' \in [Jobs -> Workers \cup {None}] /\ lapsed' \in [Jobs -> BOOLEAN]
          /\ loop' \in [Workers -> LoopStep]
      BY <2>1, <2>2 DEF LoopStep
    <2>7. OwnedIsCounted'
      BY <2>1, <2>2, <2>4 DEF OwnedIsCounted
    <2>8. WorkHasKey'
      BY <1>c, <2>1 DEF WorkHasKey
    <2> QED BY <1>c, <2>1, <2>4, <2>5, <2>6, <2>7, <2>8
  <1>3. ASSUME NEW w \in Workers, ClaimQueuedJobs(w) \/ ClaimIsLost(w) PROVE QueueInv'
    <2>1. CASE ClaimQueuedJobs(w)
      <3>1. PICK claimed \in SUBSET Claimable :
              /\ Claim(w, claimed)
              /\ pc' = [s \in Slots |->
                          IF s[1] = w /\ s[2] \in claimed /\ s[3] = attempts[s[2]] + 1
                          THEN "claimed" ELSE pc[s]]
              /\ inFlight' = [inFlight EXCEPT ![w] = @ \cup claimed]
        BY <2>1 DEF ClaimQueuedJobs
      <3>2. pc' \in [Slots -> ExecStep] /\ \A s \in Slots : pc'[s] \in {pc[s], "claimed"}
        BY <3>1 DEF ExecStep
      <3>3. inFlight' \in [Workers -> SUBSET Jobs]
        BY <3>1 DEF Claimable
      <3> QED BY <3>1, <3>2, <3>3, <1>c
    <2>2. CASE ClaimIsLost(w)
      BY <2>2, <1>c DEF ClaimIsLost
    <2> QED BY <1>3, <2>1, <2>2
  <1>4. ASSUME NEW w \in Workers, LoopFails(w) PROVE QueueInv'
    <2>1. QueueTypeOK'
      BY <1>4 DEF LoopFails, LoopStep
    <2> QED BY <1>4, <2>1 DEF LoopFails, OwnedIsCounted, WorkHasKey
  <1>5. ASSUME NEW w \in Workers, Gone(w), UNCHANGED leaseVars, stops' \in Nat
        PROVE  QueueInv'
    <2>1. QueueTypeOK'
      BY <1>5 DEF Gone, WorkerMode, LoopStep, ExecStep
    <2> QED BY <1>5, <2>1 DEF Gone, OwnedIsCounted, WorkHasKey
  <1>6. ASSUME NEW w \in Workers, WorkerCrashes(w) PROVE QueueInv'
    BY <1>5, <1>6 DEF WorkerCrashes
  <1>7. ASSUME NEW w \in Workers, ShutdownWorker(w) PROVE QueueInv'
    <2>1. QueueTypeOK'
      BY <1>7 DEF ShutdownWorker, WorkerMode
    <2> QED BY <1>7, <2>1 DEF ShutdownWorker, OwnedIsCounted, WorkHasKey
  <1>8. ASSUME NEW w \in Workers, ReleaseInFlightLeases(w) PROVE QueueInv'
    <2> DEFINE held == {j \in inFlight[w] : owner[j] = w /\ status[j] \in RunningStatus}
    <2>1. /\ Requeued(held)
          /\ attempts' = [j \in Jobs |-> IF j \in held /\ attempts[j] > 0
                                         THEN attempts[j] - 1 ELSE attempts[j]]
          /\ mode' = [mode EXCEPT ![w] = "released"]
          /\ UNCHANGED <<execVars, loop, selected, inFlight, stops>>
      BY <1>8 DEF ReleaseInFlightLeases
    <2> HIDE DEF held
    <2>2. attempts' \in [Jobs -> 0 .. MaxAttempts]
      <3> SUFFICES ASSUME NEW j \in Jobs, attempts[j] > 0
                   PROVE  attempts[j] - 1 \in 0 .. MaxAttempts
        BY <2>1
      <3> QED OBVIOUS
    <2>3. status' \in [Jobs -> JobStatus] /\ owner' \in [Jobs -> Workers \cup {None}]
          /\ lapsed' \in [Jobs -> BOOLEAN]
      BY <2>1 DEF Requeued, JobStatus, ActiveStatus
    <2>4. mode' \in [Workers -> WorkerMode]
      BY <2>1 DEF WorkerMode
    <2>5. QueueTypeOK'
      BY <2>1, <2>2, <2>3, <2>4
    <2>6. OwnedIsCounted'
      BY <2>1 DEF Requeued, OwnedIsCounted
    <2> QED BY <2>1, <2>5, <2>6 DEF WorkHasKey
  <1>9. ASSUME NEW w \in Workers, WorkerExits(w) PROVE QueueInv'
    BY <1>5, <1>9 DEF WorkerExits
  <1>10. ASSUME NEW w \in Workers, WorkerRestarts(w) PROVE QueueInv'
    <2>1. QueueTypeOK'
      BY <1>10 DEF WorkerRestarts, WorkerMode
    <2> QED BY <1>10, <2>1 DEF WorkerRestarts, OwnedIsCounted, WorkHasKey
  <1>11. ASSUME NEW w \in Workers, NEW j \in Jobs, HeartbeatLeasedJob(w, j) PROVE QueueInv'
    BY <1>11 DEF HeartbeatLeasedJob, OwnedIsCounted, WorkHasKey
  <1>12. ASSUME NEW j \in Jobs, LeaseLapses(j) PROVE QueueInv'
    BY <1>12 DEF LeaseLapses, OwnedIsCounted, WorkHasKey
  <1>13. ASSUME NEW s \in Slots, FinishExecution(s) PROVE QueueInv'
    <2>1. s[1] \in Workers /\ s[2] \in Jobs
      BY SlotFields
    <2>2. owner' \in [Jobs -> Workers \cup {None}] /\ lapsed' \in [Jobs -> BOOLEAN]
      BY <1>13, <2>1 DEF FinishExecution
    <2>3. pc' \in [Slots -> ExecStep] /\ keyAttempt' \in [Slots -> 0 .. MaxAttempts]
      BY <1>13 DEF FinishExecution, ExecStep
    <2>4. inFlight' \in [Workers -> SUBSET Jobs]
      BY <1>13, <2>1 DEF FinishExecution
    <2>5. QueueTypeOK'
      BY <1>13, <2>2, <2>3, <2>4 DEF FinishExecution
    <2> QED BY <1>13, <2>1, <2>5 DEF FinishExecution, OwnedIsCounted, WorkHasKey
  <1> QED BY <1>1, <1>2, <1>3, <1>4, <1>6, <1>7, <1>8, <1>9, <1>10, <1>11, <1>12, <1>13
          DEF QueueNext

-----------------------------------------------------------------------------
(* Steps of an execution *)

LEMMA WriteStatusType ==
  ASSUME QueueTypeOK, NEW j, NEW st \in JobStatus, WriteStatus(j, st)
  PROVE  status' \in [Jobs -> JobStatus] /\ UNCHANGED <<attempts, owner, lapsed>>
  BY DEF WriteStatus, QueueTypeOK

\* An execution that moves on with the key it has keeps the queue's facts.
LEMMA GotoKeeps ==
  ASSUME QueueInv, NEW s \in Slots, NEW step \in ExecStep, Goto(s, step),
         UNCHANGED <<attempts, owner, lapsed, workerVars, keyAttempt>>,
         status' \in [Jobs -> JobStatus],
         step = "clear" \/ keyAttempt[s] > 0
  PROVE  QueueInv'
  <1>1. QueueTypeOK'
    BY DEF QueueInv, QueueTypeOK, Goto, workerVars
  <1>2. OwnedIsCounted' /\ WorkHasKey'
    BY DEF QueueInv, QueueTypeOK, Goto, OwnedIsCounted, WorkHasKey
  <1> QED BY <1>1, <1>2 DEF QueueInv

\* The types of this module's variables after a step of an execution, which
\* writes no row, image or request.
LEMMA SagaTypes ==
  ASSUME TypeInv, QueueInv', UNCHANGED <<row, image, request>>,
         output' \in [Jobs -> 0 .. MaxAttempts],
         previous' \in [Slots -> OutputKeys \cup {None}],
         derivative' \in [OutputKeys -> DerivativeStatus],
         objects' \in SUBSET OutputKeys, reserved' \in Nat, generated' \in Nat
  PROVE  TypeInv'
  BY DEF TypeInv, TypeOK, QueueInv, ReplacingHasRoom, OutputKeys

LEMMA SizesAreNat ==
  /\ MaxRevisions \in Nat /\ SourceSize \in Nat /\ OutputSize \in Nat
  BY JobsAssumption DEF JobsAssumption

LEMMA MinusType ==
  ASSUME NEW x \in Nat, NEW n \in Nat
  PROVE  Minus(x, n) \in Nat
  BY DEF Minus

LEMMA ExecutionTypeStep ==
  ASSUME TypeInv, NEW s \in Slots, ExecuteProcessingJob(s)
  PROVE  TypeInv'
  <1> USE QueueAssumption, JobsAssumption DEF QueueAssumption, JobsAssumption
  <1>q. QueueInv /\ QueueTypeOK
    BY DEF TypeInv, TypeOK, QueueInv
  <1>t. /\ output \in [Jobs -> 0 .. MaxAttempts]
        /\ previous \in [Slots -> OutputKeys \cup {None}]
        /\ derivative \in [OutputKeys -> DerivativeStatus]
        /\ objects \in SUBSET OutputKeys
        /\ reserved \in Nat /\ generated \in Nat
        /\ keyAttempt[s] \in 0 .. MaxAttempts
        /\ status \in [Jobs -> JobStatus]
    BY DEF TypeInv, TypeOK, QueueTypeOK
  <1>w. pc[s] \notin {"idle", "claimed", "clear"} =>
          keyAttempt[s] > 0 /\ KeyOf(s) \in OutputKeys
    BY KeyOfType DEF TypeInv, WorkHasKey
  <1>j. s[1] \in Workers /\ s[2] \in Jobs
    BY SlotFields
  <1>m. /\ SourceSize \in Nat /\ OutputSize \in Nat
        /\ Minus(reserved, SourceSize) \in Nat
    BY <1>t, SizesAreNat, MinusType
  <1>1. ASSUME BeginExecution(s) PROVE TypeInv'
    <2>1. QueueTypeOK'
      BY <1>1, <1>q, <1>j DEF BeginExecution, QueueTypeOK, leaseVars, workerVars, Goto, ExecStep
    <2>2. OwnedIsCounted'
      BY <1>1, <1>q DEF BeginExecution, QueueInv, OwnedIsCounted, leaseVars
    <2>3. WorkHasKey'
      <3>1. CASE owner[s[2]] = s[1] /\ status[s[2]] \in RunningStatus
        <4>1. attempts[s[2]] > 0
          BY <3>1, <1>q, <1>j DEF QueueInv, OwnedIsCounted
        <4> QED BY <4>1, <3>1, <1>1, <1>q
                DEF BeginExecution, WorkHasKey, QueueInv, QueueTypeOK, Goto
      <3>2. CASE ~(owner[s[2]] = s[1] /\ status[s[2]] \in RunningStatus)
        BY <3>2, <1>1, <1>q DEF BeginExecution, WorkHasKey, QueueInv, QueueTypeOK, Goto
      <3> QED BY <3>1, <3>2
    <2> QED BY <2>1, <2>2, <2>3, <1>1, <1>t, SagaTypes
            DEF BeginExecution, sagaVars, jobVars, fileVars, quotaVars, QueueInv
  <1>2. ASSUME CheckImage(s) PROVE TypeInv'
    <2>1. /\ pc[s] = "check"
          /\ \/ Goto(s, "unreserve") \/ Goto(s, "unreserve_stale") \/ Goto(s, "work")
          /\ UNCHANGED <<leaseVars, workerVars, keyAttempt, sagaVars>>
      BY <1>2 DEF CheckImage
    <2>2. QueueInv'
      BY <2>1, <1>q, <1>t, <1>w, GotoKeeps DEF leaseVars, ExecStep
    <2> QED BY <2>1, <2>2, <1>t, SagaTypes DEF sagaVars, jobVars, fileVars, quotaVars
  <1>3. ASSUME TransformSource(s) PROVE TypeInv'
    <2>1. QueueInv'
      BY <1>3, <1>q, <1>t, <1>w, WriteStatusType, GotoKeeps
         DEF TransformSource, ExecStep, JobStatus, ActiveStatus, RunningStatus
    <2> QED BY <1>3, <2>1, <1>t, SagaTypes
            DEF TransformSource, sagaVars, jobVars, fileVars, quotaVars
  <1>4. ASSUME TransformFails(s) PROVE TypeInv'
    <2>1. QueueInv'
      BY <1>4, <1>q, <1>t, <1>w, GotoKeeps DEF TransformFails, leaseVars, ExecStep
    <2> QED BY <1>4, <2>1, <1>t, SagaTypes
            DEF TransformFails, sagaVars, jobVars, fileVars, quotaVars
  <1>5. ASSUME PutOutput(s) PROVE TypeInv'
    <2>1. QueueInv'
      BY <1>5, <1>q, <1>t, <1>w, GotoKeeps DEF PutOutput, leaseVars, ExecStep
    <2>2. objects' \in SUBSET OutputKeys
      BY <1>5, <1>t, <1>w DEF PutOutput
    <2> QED BY <1>5, <2>1, <2>2, <1>t, SagaTypes DEF PutOutput, jobVars, quotaVars
  <1>21. ASSUME ReportOutput(s) PROVE TypeInv'
    <2>1. QueueInv'
      BY <1>21, <1>q, <1>t, <1>w, WriteStatusType, GotoKeeps
         DEF ReportOutput, ExecStep, JobStatus, ActiveStatus, RunningStatus
    <2> QED BY <1>21, <2>1, <1>t, SagaTypes
            DEF ReportOutput, sagaVars, jobVars, fileVars, quotaVars
  <1>6. ASSUME PutFails(s) PROVE TypeInv'
    <2>1. QueueInv'
      BY <1>6, <1>q, <1>t, <1>w, GotoKeeps DEF PutFails, leaseVars, ExecStep
    <2>2. objects' \in SUBSET OutputKeys
      BY <1>6, <1>t, <1>w DEF PutFails
    <2> QED BY <1>6, <2>1, <2>2, <1>t, SagaTypes DEF PutFails, jobVars, quotaVars
  <1>7. ASSUME VerifyOutput(s) PROVE TypeInv'
    <2>1. /\ pc[s] = "verify"
          /\ \/ Goto(s, "cleanup") \/ Goto(s, "drop") \/ Goto(s, "retire")
          /\ UNCHANGED <<leaseVars, workerVars, keyAttempt, sagaVars>>
      BY <1>7 DEF VerifyOutput
    <2>2. QueueInv'
      BY <2>1, <1>q, <1>t, <1>w, GotoKeeps DEF leaseVars, ExecStep
    <2> QED BY <2>1, <2>2, <1>t, SagaTypes DEF sagaVars, jobVars, fileVars, quotaVars
  <1>8. ASSUME FindPrevious(s) PROVE TypeInv'
    <2>1. /\ pc[s] = "retire"
          /\ Goto(s, "insert") \/ Goto(s, "demote")
          /\ previous' = previous \/ \E k \in OutputKeys : previous' = [previous EXCEPT ![s] = k]
          /\ UNCHANGED <<leaseVars, workerVars, keyAttempt, jobVars, fileVars, image,
                         quotaVars, request>>
      BY <1>8 DEF FindPrevious, ActiveFor
    <2>2. QueueInv'
      BY <2>1, <1>q, <1>t, <1>w, GotoKeeps DEF leaseVars, ExecStep
    <2> QED BY <2>1, <2>2, <1>t, SagaTypes DEF jobVars, fileVars, quotaVars
  <1>9. ASSUME RetirePrevious(s) PROVE TypeInv'
    <2>1. QueueInv'
      BY <1>9, <1>q, <1>t, <1>w, GotoKeeps DEF RetirePrevious, leaseVars, ExecStep
    <2>2. derivative' \in [OutputKeys -> DerivativeStatus]
      BY <1>9, <1>t DEF RetirePrevious, DerivativeStatus
    <2> QED BY <1>9, <2>1, <2>2, <1>t, SagaTypes DEF RetirePrevious, jobVars, quotaVars
  <1>10. ASSUME InsertDerivative(s) PROVE TypeInv'
    <2>1. QueueInv'
      BY <1>10, <1>q, <1>t, <1>w, GotoKeeps DEF InsertDerivative, leaseVars, ExecStep
    <2>2. derivative' \in [OutputKeys -> DerivativeStatus]
      BY <1>10, <1>t DEF InsertDerivative, DerivativeStatus
    <2> QED BY <1>10, <2>1, <2>2, <1>t, SagaTypes DEF InsertDerivative, jobVars, quotaVars
  <1>11. ASSUME CompleteJob(s) PROVE TypeInv'
    <2>1. QueueInv'
      BY <1>11, <1>q, <1>t, <1>w, WriteStatusType, GotoKeeps
         DEF CompleteJob, ExecStep, JobStatus
    <2> QED BY <1>11, <2>1, <1>t, SagaTypes DEF CompleteJob, fileVars, quotaVars
  <1>12. ASSUME CreditOutput(s) PROVE TypeInv'
    <2>1. QueueInv'
      BY <1>12, <1>q, <1>t, <1>w, GotoKeeps DEF CreditOutput, leaseVars, ExecStep
    <2>2. reserved' \in Nat /\ generated' \in Nat
      BY <1>12, <1>t, <1>m DEF CreditOutput, quotaVars
    <2> QED BY <1>12, <2>1, <2>2, <1>t, SagaTypes DEF CreditOutput, jobVars, fileVars
  <1>13. ASSUME RecordUsage(s) PROVE TypeInv'
    <2>1. QueueInv'
      BY <1>13, <1>q, <1>t, GotoKeeps DEF RecordUsage, leaseVars, ExecStep
    <2> QED BY <1>13, <2>1, <1>t, SagaTypes
            DEF RecordUsage, sagaVars, jobVars, fileVars, quotaVars
  <1>14. ASSUME ThrowWithOutput(s) PROVE TypeInv'
    <2>1. QueueInv'
      BY <1>14, <1>q, <1>t, <1>w, GotoKeeps DEF ThrowWithOutput, leaseVars, ExecStep
    <2> QED BY <1>14, <2>1, <1>t, SagaTypes DEF ThrowWithOutput, jobVars, fileVars, quotaVars
  <1>15. ASSUME ThrowOut(s) PROVE TypeInv'
    <2>1. QueueTypeOK'
      BY <1>15, <1>q, <1>j DEF ThrowOut, AbandonExecution, QueueTypeOK, leaseVars, ExecStep
    <2>2. QueueInv'
      BY <1>15, <2>1, <1>q
         DEF ThrowOut, AbandonExecution, QueueInv, QueueTypeOK, OwnedIsCounted, WorkHasKey,
             leaseVars
    <2> QED BY <1>15, <2>2, <1>t, SagaTypes
            DEF ThrowOut, sagaVars, jobVars, fileVars, quotaVars
  <1>16. ASSUME CleanupOutput(s) PROVE TypeInv'
    <2>1. QueueInv'
      BY <1>16, <1>q, <1>t, <1>w, GotoKeeps DEF CleanupOutput, leaseVars, ExecStep
    <2> QED BY <1>16, <2>1, <1>t, SagaTypes DEF CleanupOutput, jobVars, quotaVars
  <1>17. ASSUME CleanupFails(s) PROVE TypeInv'
    <2>1. QueueInv'
      BY <1>17, <1>q, <1>t, <1>w, GotoKeeps DEF CleanupFails, leaseVars, ExecStep
    <2> QED BY <1>17, <2>1, <1>t, SagaTypes DEF CleanupFails, jobVars, quotaVars
  <1>22. ASSUME RecordCleanupFailed(s) PROVE TypeInv'
    <2>1. QueueInv'
      BY <1>22, <1>q, <1>t, WriteStatusType, GotoKeeps
         DEF RecordCleanupFailed, ExecStep, JobStatus
    <2> QED BY <1>22, <2>1, <1>t, SagaTypes DEF RecordCleanupFailed, fileVars, quotaVars
  <1>18. ASSUME DropOutput(s) PROVE TypeInv'
    <2>1. QueueInv'
      BY <1>18, <1>q, <1>t, <1>w, GotoKeeps DEF DropOutput, leaseVars, ExecStep
    <2> QED BY <1>18, <2>1, <1>t, SagaTypes DEF DropOutput, jobVars, quotaVars
  <1>19. ASSUME ReleaseReservation(s) PROVE TypeInv'
    <2>1. QueueInv'
      BY <1>19, <1>q, <1>t, <1>w, GotoKeeps DEF ReleaseReservation, leaseVars, ExecStep
    <2>2. reserved' \in Nat
      BY <1>19, <1>t, <1>m DEF ReleaseReservation, BumpReserved
    <2> QED BY <1>19, <2>1, <2>2, <1>t, SagaTypes DEF ReleaseReservation, jobVars, fileVars
  <1>20. ASSUME FailJob(s) PROVE TypeInv'
    <2>1. QueueInv'
      BY <1>20, <1>q, <1>t, WriteStatusType, GotoKeeps DEF FailJob, ExecStep, JobStatus
    <2> QED BY <1>20, <2>1, <1>t, SagaTypes
            DEF FailJob, sagaVars, jobVars, fileVars, quotaVars
  <1> QED BY <1>1, <1>2, <1>3, <1>4, <1>5, <1>6, <1>7, <1>8, <1>9, <1>10, <1>11, <1>12,
             <1>13, <1>14, <1>15, <1>16, <1>17, <1>18, <1>19, <1>20, <1>21, <1>22
          DEF ExecuteProcessingJob

-----------------------------------------------------------------------------
(* Steps of the web handlers *)

LEMMA NoRequestType == NoRow \in Row /\ NoRequest \in Request
  <1> USE JobsAssumption DEF JobsAssumption
  <1>1. MaxRevisions \in Nat
    BY SizesAreNat
  <1>2. NoRow \in Row
    BY <1>1 DEF NoRow, Row
  <1> QED BY <1>2 DEF NoRequest, Request, RequestStep

LEMMA BecomeType ==
  ASSUME request \in [Handlers -> Request], NEW h \in Handlers, NEW r \in Request,
         Become(h, r)
  PROVE  request' \in [Handlers -> Request]
  BY DEF Become

LEMMA StepType ==
  ASSUME request \in [Handlers -> Request], NEW h \in Handlers, NEW step \in RequestStep,
         Step(h, step)
  PROVE  request' \in [Handlers -> Request]
  BY DEF Step, Request

LEMMA DoneType ==
  ASSUME request \in [Handlers -> Request], NEW h \in Handlers, Done(h)
  PROVE  request' \in [Handlers -> Request]
  BY NoRequestType, BecomeType DEF Done

LEMMA ForImageType ==
  ASSUME NEW i \in Images, NEW step \in RequestStep
  PROVE  ForImage(i, step) \in Request
  <1>1. ForImage(i, step) = [NoRequest EXCEPT !.step = step,
                                              !.row = [NoRow EXCEPT !.image = i]]
    BY DEF ForImage, NoRequest
  <1>2. [NoRow EXCEPT !.image = i] \in Row
    BY NoRequestType DEF Row
  <1> QED BY <1>1, <1>2, NoRequestType DEF Request

\* A step that leaves the queue alone keeps the queue's facts.
LEMMA QueueStutters ==
  ASSUME QueueInv, UNCHANGED queueVars
  PROVE  QueueInv'
  BY DEF QueueInv, QueueTypeOK, OwnedIsCounted, WorkHasKey, queueVars, leaseVars,
         workerVars, execVars, Live

\* A handler that writes rows of the job table, without taking a lease.
LEMMA RowsWritten ==
  ASSUME QueueInv, status' \in [Jobs -> JobStatus], lapsed' \in [Jobs -> BOOLEAN],
         owner' \in [Jobs -> Workers \cup {None}],
         \A j \in Jobs : owner'[j] # None => owner[j] # None,
         UNCHANGED <<attempts, workerVars, execVars>>
  PROVE  QueueInv'
  <1>1. QueueTypeOK'
    BY DEF QueueInv, QueueTypeOK, workerVars, execVars
  <1>2. OwnedIsCounted' /\ WorkHasKey'
    BY DEF QueueInv, OwnedIsCounted, WorkHasKey, execVars
  <1> QED BY <1>1, <1>2 DEF QueueInv

\* The types of this module's variables after a step of a handler.
LEMMA HandlerTypes ==
  ASSUME TypeInv, QueueInv', UNCHANGED previous,
         row' \in [Jobs -> Row],
         output' \in [Jobs -> 0 .. MaxAttempts],
         derivative' \in [OutputKeys -> DerivativeStatus],
         objects' \in SUBSET OutputKeys, reserved' \in Nat, generated' \in Nat,
         image' \in [Images -> [revision : 0 .. MaxRevisions, status : ImageStatus,
                                replacing : BOOLEAN]],
         ReplacingHasRoom',
         request' \in [Handlers -> Request]
  PROVE  TypeInv'
  BY DEF TypeInv, TypeOK, QueueInv, OutputKeys

LEMMA HandlerTypeStep ==
  ASSUME TypeInv, NEW h \in Handlers, HandlerStep(h) \/ UserStep(h)
  PROVE  TypeInv'
  <1>q. QueueInv
    BY DEF TypeInv, TypeOK, QueueInv
  <1>t. /\ row \in [Jobs -> Row]
        /\ output \in [Jobs -> 0 .. MaxAttempts]
        /\ derivative \in [OutputKeys -> DerivativeStatus]
        /\ objects \in SUBSET OutputKeys
        /\ reserved \in Nat /\ generated \in Nat
        /\ image \in [Images -> [revision : 0 .. MaxRevisions, status : ImageStatus,
                                 replacing : BOOLEAN]]
        /\ request \in [Handlers -> Request]
        /\ status \in [Jobs -> JobStatus] /\ lapsed \in [Jobs -> BOOLEAN]
        /\ owner \in [Jobs -> Workers \cup {None}]
        /\ attempts \in [Jobs -> 0 .. MaxAttempts]
    BY DEF TypeInv, TypeOK, QueueTypeOK
  <1>i. UNCHANGED image => ReplacingHasRoom'
    BY DEF TypeInv, ReplacingHasRoom
  <1>m. /\ Minus(reserved, SourceSize) \in Nat /\ reserved + SourceSize \in Nat
        /\ Minus(generated, OutputSize) \in Nat
    <2>1. reserved \in Nat /\ generated \in Nat /\ SourceSize \in Nat /\ OutputSize \in Nat
      BY <1>t, SizesAreNat
    <2>2. reserved + SourceSize \in Nat
      BY <2>1
    <2> QED BY <2>1, <2>2, MinusType
  <1>r. request[h] \in Request
    BY <1>t
  \* A step that only moves the request.
  <1>o. ASSUME OnlyRequest, request' \in [Handlers -> Request] PROVE TypeInv'
    <2>1. QueueInv'
      BY <1>o, <1>q, QueueStutters DEF OnlyRequest
    <2> QED BY <2>1, <1>o, <1>t, <1>i, HandlerTypes
            DEF OnlyRequest, jobVars, fileVars, quotaVars
  \* A step that writes no job.
  <1>k. ASSUME KeepsJobs,
               derivative' \in [OutputKeys -> DerivativeStatus],
               objects' \in SUBSET OutputKeys, reserved' \in Nat, generated' \in Nat,
               image' \in [Images -> [revision : 0 .. MaxRevisions, status : ImageStatus,
                                      replacing : BOOLEAN]],
               ReplacingHasRoom', request' \in [Handlers -> Request]
        PROVE  TypeInv'
    <2>1. QueueInv'
      BY <1>k, <1>q, QueueStutters DEF KeepsJobs
    <2> QED BY <2>1, <1>k, <1>t, HandlerTypes DEF KeepsJobs, jobVars
  \* A step that writes rows of the job table.
  <1>s. ASSUME StatusOnly, QueueInv', row' \in [Jobs -> Row],
               output' \in [Jobs -> 0 .. MaxAttempts],
               request' \in [Handlers -> Request]
        PROVE  TypeInv'
    BY <1>s, <1>t, <1>i, HandlerTypes DEF StatusOnly, fileVars, quotaVars
  <1>1. ASSUME NEW i \in Images, NEW v \in Variants, NEW k \in Keys \cup {None},
               CheckCreate(h, i, v, k)
        PROVE  TypeInv'
    <2> DEFINE new == [image |-> i, variant |-> v, source |-> image[i].revision, key |-> k]
               r == [NoRequest EXCEPT !.step = "create_reserve", !.row = new]
    <2>1. new \in Row
      BY <1>t DEF Row
    <2>2. r \in Request
      BY <2>1, NoRequestType DEF Request, RequestStep
    <2>3. Become(h, r) /\ OnlyRequest
      BY <1>1 DEF CheckCreate
    <2> HIDE DEF r
    <2> QED BY <2>2, <2>3, <1>t, <1>o, BecomeType
  <1>2. ASSUME ReserveForCreate(h) PROVE TypeInv'
    <2>1. request' \in [Handlers -> Request]
      BY <1>2, <1>t, StepType, DoneType DEF ReserveForCreate, RequestStep
    <2>2. reserved' \in Nat
      BY <1>2, <1>t, <1>m DEF ReserveForCreate
    <2> QED BY <1>2, <2>1, <2>2, <1>t, <1>i, <1>k DEF ReserveForCreate, fileVars
  <1>3. ASSUME InsertJob(h) PROVE TypeInv'
    <2>1. PICK j \in FreshIds : /\ WriteStatus(j, "queued")
                                /\ row' = [row EXCEPT ![j] = request[h].row]
      BY <1>3 DEF InsertJob
    <2>2. status' \in [Jobs -> JobStatus] /\ UNCHANGED <<attempts, owner, lapsed>>
      BY <2>1, <1>q, WriteStatusType DEF QueueInv, JobStatus, ActiveStatus
    <2>3. QueueInv'
      BY <1>3, <2>2, <1>q, <1>t, RowsWritten DEF InsertJob, StatusOnly
    <2>4. row' \in [Jobs -> Row]
      BY <2>1, <1>t, <1>r DEF Request
    <2> QED BY <1>3, <2>3, <2>4, <1>t, <1>s, DoneType DEF InsertJob
  <1>4. ASSUME InsertJobFails(h) PROVE TypeInv'
    <2>1. reserved' \in Nat
      BY <1>4, <1>t, <1>m DEF InsertJobFails, BumpReserved
    <2> QED BY <1>4, <2>1, <1>t, <1>i, <1>k, DoneType DEF InsertJobFails, fileVars
  <1>5. ASSUME NEW j \in Jobs, CheckCancel(h, j) PROVE TypeInv'
    <2>1. [NoRequest EXCEPT !.step = "cancel_write", !.job = j] \in Request
      BY NoRequestType DEF Request, RequestStep
    <2> QED BY <1>5, <2>1, <1>t, <1>o, BecomeType DEF CheckCancel
  <1>6. ASSUME WriteCancelled(h) PROVE TypeInv'
    <2>1. status' \in [Jobs -> JobStatus] /\ UNCHANGED <<attempts, owner, lapsed>>
      BY <1>6, <1>q, WriteStatusType DEF WriteCancelled, QueueInv, JobStatus
    <2>2. QueueInv'
      BY <1>6, <2>1, <1>q, <1>t, RowsWritten DEF WriteCancelled, StatusOnly
    <2>3. request' \in [Handlers -> Request]
      BY <1>6, <1>t, StepType DEF WriteCancelled, RequestStep
    <2> QED BY <1>6, <2>2, <2>3, <1>t, <1>s DEF WriteCancelled, jobVars
  <1>7. ASSUME ReleaseCancelled(h) PROVE TypeInv'
    <2>1. reserved' \in Nat
      BY <1>7, <1>t, <1>m DEF ReleaseCancelled, BumpReserved
    <2> QED BY <1>7, <2>1, <1>t, <1>i, <1>k, DoneType DEF ReleaseCancelled, fileVars
  <1>8. ASSUME NEW j \in Jobs, CheckRetry(h, j) PROVE TypeInv'
    <2>1. [NoRequest EXCEPT !.step = "retry_write", !.job = j] \in Request
      BY NoRequestType DEF Request, RequestStep
    <2> QED BY <1>8, <2>1, <1>t, <1>o, BecomeType DEF CheckRetry
  <1>9. ASSUME WriteRetried(h) PROVE TypeInv'
    <2>1. QueueInv'
      <3>1. /\ status' \in [Jobs -> JobStatus] /\ lapsed' \in [Jobs -> BOOLEAN]
            /\ owner' \in [Jobs -> Workers \cup {None}]
            /\ \A j \in Jobs : owner'[j] # None => owner[j] # None
        BY <1>9, <1>t DEF WriteRetried, Requeued, JobStatus, ActiveStatus
      <3> QED BY <1>9, <3>1, <1>q, RowsWritten DEF WriteRetried, StatusOnly
    <2>2. request' \in [Handlers -> Request]
      BY <1>9, <1>t, StepType DEF WriteRetried, RequestStep
    <2>3. 0 \in 0 .. MaxAttempts
      BY QueueAssumption DEF QueueAssumption
    <2>4. output' \in [Jobs -> 0 .. MaxAttempts]
      BY <1>9, <2>3, <1>t DEF WriteRetried
    <2> QED BY <1>9, <2>1, <2>2, <2>4, <1>t, <1>s DEF WriteRetried
  <1>10. ASSUME ReserveRetried(h) PROVE TypeInv'
    <2>1. reserved' \in Nat
      BY <1>10, <1>t, <1>m DEF ReserveRetried, BumpReserved
    <2> QED BY <1>10, <2>1, <1>t, <1>i, <1>k, DoneType DEF ReserveRetried, fileVars
  <1>11. ASSUME NEW i \in Images, AcquireDeletion(h, i) PROVE TypeInv'
    <2>1. request' \in [Handlers -> Request]
      BY <1>11, <1>t, ForImageType, BecomeType DEF AcquireDeletion, RequestStep
    <2>2. image' \in [Images -> [revision : 0 .. MaxRevisions, status : ImageStatus,
                                 replacing : BOOLEAN]]
      BY <1>11, <1>t DEF AcquireDeletion, ImageStatus
    <2>3. ReplacingHasRoom'
      BY <1>11, <1>t DEF AcquireDeletion, TypeInv, ReplacingHasRoom
    <2> QED BY <1>11, <2>1, <2>2, <2>3, <1>t, <1>k DEF AcquireDeletion, fileVars, quotaVars
  <1>12. ASSUME StaleDeletedJobs(h) \/ StaleReplacedJobs(h) PROVE TypeInv'
    <2>1. /\ MarkActiveJobsStale(request[h].row.image)
          /\ Step(h, "delete_list") \/ Step(h, "replace_derivatives")
          /\ StatusOnly /\ UNCHANGED jobVars
      BY <1>12 DEF StaleDeletedJobs, StaleReplacedJobs
    <2>2. status' \in [Jobs -> JobStatus] /\ UNCHANGED <<attempts, owner, lapsed>>
      BY <2>1, <1>t DEF MarkActiveJobsStale, JobStatus
    <2>3. QueueInv'
      BY <2>1, <2>2, <1>q, <1>t, RowsWritten DEF StatusOnly
    <2>4. request' \in [Handlers -> Request]
      BY <2>1, <1>t, StepType DEF RequestStep
    <2> QED BY <2>1, <2>3, <2>4, <1>t, <1>s DEF jobVars
  <1>13. ASSUME ListDerivatives(h) PROVE TypeInv'
    <2>1. PICK ks \in SUBSET OutputKeys :
            Become(h, [request[h] EXCEPT !.step = "delete_next", !.todo = ks]) /\ OnlyRequest
      BY <1>13 DEF ListDerivatives
    <2>2. [request[h] EXCEPT !.step = "delete_next", !.todo = ks] \in Request
      BY <1>r DEF Request, RequestStep
    <2> QED BY <2>1, <2>2, <1>t, <1>o, BecomeType
  <1>14. ASSUME PendDerivative(h) PROVE TypeInv'
    <2>1. PICK k \in request[h].todo :
            /\ derivative' = [derivative EXCEPT ![k] = "cleanup_pending"]
            /\ Become(h, [request[h] EXCEPT !.step = "delete_object", !.current = k,
                                            !.todo = @ \ {k}])
      BY <1>14 DEF PendDerivative
    <2>2. k \in OutputKeys
      BY <1>r DEF Request
    <2>3. [request[h] EXCEPT !.step = "delete_object", !.current = k, !.todo = @ \ {k}]
            \in Request
      BY <1>r, <2>2 DEF Request, RequestStep
    <2>4. request' \in [Handlers -> Request]
      BY <2>1, <2>3, <1>t, BecomeType
    <2>5. derivative' \in [OutputKeys -> DerivativeStatus]
      BY <2>1, <1>t DEF DerivativeStatus
    <2> QED BY <1>14, <2>4, <2>5, <1>t, <1>i, <1>k DEF PendDerivative, quotaVars
  <1>15. ASSUME DeleteDerivative(h) PROVE TypeInv'
    <2>1. request' \in [Handlers -> Request]
      BY <1>15, <1>t, StepType DEF DeleteDerivative, RequestStep
    <2>2. objects' \in SUBSET OutputKeys
      BY <1>15, <1>t DEF DeleteDerivative
    <2> QED BY <1>15, <2>1, <2>2, <1>t, <1>i, <1>k DEF DeleteDerivative, quotaVars
  <1>20. ASSUME RecordDeletion(h) PROVE TypeInv'
    <2>1. PICK st \in {"deleted", "cleanup_failed"},
               step \in {"delete_uncharge", "delete_next"} :
            /\ derivative' = [derivative EXCEPT ![request[h].current] = st]
            /\ Become(h, [request[h] EXCEPT !.step = step, !.current = None])
      BY <1>20 DEF RecordDeletion
    <2>2. [request[h] EXCEPT !.step = step, !.current = None] \in Request
      BY <1>r DEF Request, RequestStep
    <2>3. request' \in [Handlers -> Request]
      BY <2>1, <2>2, <1>t, BecomeType
    <2>4. derivative' \in [OutputKeys -> DerivativeStatus]
      BY <2>1, <1>t DEF DerivativeStatus
    <2> QED BY <1>20, <2>3, <2>4, <1>t, <1>i, <1>k DEF RecordDeletion, quotaVars
  <1>16. ASSUME UnchargeDerivative(h) PROVE TypeInv'
    <2>1. request' \in [Handlers -> Request]
      BY <1>16, <1>t, StepType DEF UnchargeDerivative, RequestStep
    <2>2. generated' \in Nat
      BY <1>16, <1>t, <1>m DEF UnchargeDerivative
    <2> QED BY <1>16, <2>1, <2>2, <1>t, <1>i, <1>k DEF UnchargeDerivative, fileVars
  <1>17. ASSUME DeletionInvalidated(h) \/ HandlerDies(h) PROVE TypeInv'
    BY <1>17, <1>t, <1>o, DoneType DEF DeletionInvalidated, HandlerDies
  <1>18. ASSUME NEW i \in Images, BeginReplacement(h, i) PROVE TypeInv'
    <2>1. request' \in [Handlers -> Request]
      BY <1>18, <1>t, ForImageType, BecomeType DEF BeginReplacement, RequestStep
    <2>2. image' \in [Images -> [revision : 0 .. MaxRevisions, status : ImageStatus,
                                 replacing : BOOLEAN]]
      BY <1>18, <1>t DEF BeginReplacement, ImageStatus
    <2>3. ReplacingHasRoom'
      BY <1>18, <1>t DEF BeginReplacement, TypeInv, ReplacingHasRoom
    <2> QED BY <1>18, <2>1, <2>2, <2>3, <1>t, <1>k DEF BeginReplacement, fileVars, quotaVars
  <1>19. ASSUME StaleReplacedDerivatives(h) PROVE TypeInv'
    <2>1. derivative' \in [OutputKeys -> DerivativeStatus]
      BY <1>19, <1>t DEF StaleReplacedDerivatives, DerivativeStatus
    <2> QED BY <1>19, <2>1, <1>t, <1>i, <1>k, DoneType
            DEF StaleReplacedDerivatives, quotaVars
  <1> QED BY <1>1, <1>2, <1>3, <1>4, <1>5, <1>6, <1>7, <1>8, <1>9, <1>10, <1>11, <1>12,
             <1>13, <1>14, <1>15, <1>16, <1>17, <1>18, <1>19, <1>20
          DEF HandlerStep, UserStep

LEMMA EndReplacementTypes ==
  ASSUME TypeInv, NEW i \in Images, EndReplacement(i)
  PROVE  TypeInv'
  <1>1. QueueInv'
    BY QueueStutters DEF EndReplacement, KeepsJobs, TypeInv, TypeOK, QueueInv
  <1>2. PICK revision \in {image[i].revision, image[i].revision + 1} :
          image' = [image EXCEPT ![i] = [revision |-> revision,
                                         status |-> "ready_for_processing",
                                         replacing |-> FALSE]]
    BY DEF EndReplacement
  <1>3. revision \in 0 .. MaxRevisions
    BY SizesAreNat DEF TypeInv, TypeOK, ReplacingHasRoom, EndReplacement
  <1>4. image' \in [Images -> [revision : 0 .. MaxRevisions, status : ImageStatus,
                               replacing : BOOLEAN]]
    BY <1>2, <1>3 DEF TypeInv, TypeOK, ImageStatus
  <1>5. ReplacingHasRoom'
    BY <1>2 DEF TypeInv, TypeOK, ReplacingHasRoom
  <1> QED BY <1>1, <1>4, <1>5, HandlerTypes
          DEF TypeInv, TypeOK, EndReplacement, KeepsJobs, jobVars, fileVars, quotaVars

LEMMA TypeStep == TypeInv /\ [Next]_vars => TypeInv'
  <1> SUFFICES ASSUME TypeInv, [Next]_vars PROVE TypeInv'
    OBVIOUS
  <1>q. QueueInv
    BY DEF TypeInv, TypeOK, QueueInv
  <1>1. ASSUME QueueNext, OnQueue PROVE TypeInv'
    BY <1>1, <1>q, QueueTypeStep, OnQueueTypes DEF QueueInv
  <1>2. CASE UNCHANGED vars
    <2>1. QueueInv'
      BY <1>2, <1>q, QueueStutters DEF vars
    <2>2. ReplacingHasRoom'
      BY <1>2 DEF TypeInv, ReplacingHasRoom, vars, sagaVars
    <2> QED BY <1>2, <2>1, <2>2, HandlerTypes
            DEF TypeInv, TypeOK, vars, sagaVars, jobVars, fileVars, quotaVars
  <1> QED BY <1>1, <1>2, ExecutionTypeStep, HandlerTypeStep, EndReplacementTypes DEF Next

\* Every variable keeps its type: in particular no execution is ever asked to
\* write a key outside its job's attempts, and no counter goes below zero.
THEOREM TypesHold == Spec => []TypeOK
  <1>1. TypeInv => TypeOK
    BY DEF TypeInv
  <1> QED BY <1>1, TypeInit, TypeStep, PTL DEF Spec
=============================================================================
