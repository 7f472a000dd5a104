----------------------- MODULE ProcessingClaimsProofs -----------------------
(***************************************************************************)
(* ProcessingJobs: the claims of the queue, the outputs of completed jobs, *)
(* and the refinement of AttemptTickets by the queue, for any number of    *)
(* workers and jobs, whatever stalls, crashes, shuts down or is retried.   *)
(***************************************************************************)
EXTENDS ProcessingJobsProofs

-----------------------------------------------------------------------------
(* The inductive invariant *)

Serving(s) == Live(s) /\ InService(s[1])
Writing(s) == Begun(s) /\ InService(s[1])
HeldByOther(s) == owner[s[2]] \notin {None, s[1]}

IdleHasNoKey == \A s \in Slots : ~Live(s) => keyAttempt[s] = 0

\* A claim's number has been counted; and once another worker has the lease,
\* another attempt has been counted since, which that worker may give back.
ClaimsCounted ==
  \A s \in Slots : Serving(s) =>
    /\ s[3] <= attempts[s[2]]
    /\ HeldByOther(s) => s[3] < attempts[s[2]]

ClaimsApart ==
  \A s, t \in Slots :
    Serving(s) /\ Serving(t) /\ s[2] = t[2] /\ s[3] = t[3] => s = t

\* The same of the attempt an execution read when it began, which is later
\* than its claim when it began after a requeue and another claim.
KeysCounted ==
  \A s \in Slots : Writing(s) =>
    /\ keyAttempt[s] <= attempts[s[2]]
    /\ HeldByOther(s) => keyAttempt[s] < attempts[s[2]]

KeysApart ==
  \A s, t \in Slots :
    Writing(s) /\ Writing(t) /\ s[2] = t[2] /\ s[1] # t[1] => keyAttempt[s] # keyAttempt[t]

ClaimInv == IdleHasNoKey /\ ClaimsCounted /\ ClaimsApart /\ KeysCounted /\ KeysApart

\* pc = "complete" follows the insert of the derivative.
CompletingHasDerivative ==
  \A s \in Slots : pc[s] = "complete" => derivative[KeyOf(s)] # "none"

OutputInv == CompletingHasDerivative /\ CompletedHasDerivative

-----------------------------------------------------------------------------
(* Steps that take no claim and give none back *)

\* No attempt is counted or given back, a lease is at most lost, and every
\* execution keeps its key until it is gone.
Quiet ==
  /\ UNCHANGED attempts
  /\ \A j \in Jobs : owner'[j] \in {owner[j], None}
  /\ \A s \in Slots :
       \/ ~Live(s)' /\ keyAttempt'[s] = 0
       \/ /\ Live(s)' <=> Live(s)
          /\ keyAttempt'[s] = keyAttempt[s]
          /\ InService(s[1])' => InService(s[1])

LEMMA QuietKeepsClaims ==
  ASSUME TypeInv, ClaimInv, Quiet
  PROVE  ClaimInv'
  <1>1. \A s \in Slots : Serving(s)' => Serving(s)
    BY DEF Quiet, Serving
  <1>2. \A s \in Slots : Writing(s)' => Writing(s) /\ keyAttempt'[s] = keyAttempt[s]
    BY DEF Quiet, Writing, Begun
  <1>3. \A s \in Slots : HeldByOther(s)' => HeldByOther(s)
    BY SlotFields DEF Quiet, HeldByOther
  <1>4. UNCHANGED attempts
    BY DEF Quiet
  <1>5. IdleHasNoKey'
    BY DEF Quiet, ClaimInv, IdleHasNoKey
  <1>6. ClaimsCounted' /\ ClaimsApart'
    BY <1>1, <1>3, <1>4 DEF ClaimInv, ClaimsCounted, ClaimsApart
  <1>7. KeysCounted' /\ KeysApart'
    BY <1>2, <1>3, <1>4 DEF ClaimInv, KeysCounted, KeysApart
  <1> QED BY <1>5, <1>6, <1>7 DEF ClaimInv

\* An execution that only moves on is quiet.
LEMMA GotoIsQuiet ==
  ASSUME TypeInv, NEW s \in Slots, Live(s), NEW step \in ExecStep \ {"idle"}, Goto(s, step),
         UNCHANGED <<attempts, owner, mode, keyAttempt>>
  PROVE  Quiet
  <1>1. pc' = [pc EXCEPT ![s] = step] /\ pc \in [Slots -> ExecStep]
    BY DEF Goto, TypeInv, TypeOK, QueueTypeOK
  <1>2. \A t \in Slots : Live(t)' <=> Live(t)
    BY <1>1 DEF Live
  <1> QED BY <1>2 DEF Quiet, InService

\* Every step of an execution is quiet, but the one that reads its attempt.
LEMMA ExecutionIsQuiet ==
  ASSUME TypeInv, ClaimInv, NEW s \in Slots, ExecuteProcessingJob(s), ~BeginExecution(s)
  PROVE  Quiet
  <1>1. CASE ThrowOut(s)
    <2>1. /\ pc' = [pc EXCEPT ![s] = "idle"]
          /\ keyAttempt' = [keyAttempt EXCEPT ![s] = 0]
          /\ UNCHANGED <<attempts, owner, mode>>
      BY <1>1 DEF ThrowOut, AbandonExecution, leaseVars
    <2>2. pc \in [Slots -> ExecStep] /\ keyAttempt \in [Slots -> 0 .. MaxAttempts]
      BY DEF TypeInv, TypeOK, QueueTypeOK
    <2> QED BY <2>1, <2>2 DEF Quiet, Live, InService
  <1>2. CASE ~ThrowOut(s)
    <2>1. /\ pc[s] # "idle"
          /\ UNCHANGED <<attempts, owner, mode, keyAttempt>>
      BY <1>2 DEF ExecuteProcessingJob, CheckImage, TransformSource, TransformFails, PutOutput,
         PutFails, VerifyOutput, FindPrevious, RetirePrevious, InsertDerivative, CompleteJob,
         CreditOutput, RecordUsage, ThrowWithOutput, CleanupOutput, CleanupFails, DropOutput,
         RecordCleanupFailed, ReportOutput, ReleaseReservation, FailJob, WriteStatus, leaseVars, workerVars
    <2>2. \E step \in ExecStep \ {"idle"} : Goto(s, step)
      BY <1>2 DEF ExecuteProcessingJob, CheckImage, TransformSource, TransformFails, PutOutput,
         PutFails, VerifyOutput, FindPrevious, RetirePrevious, InsertDerivative, CompleteJob,
         CreditOutput, RecordUsage, ThrowWithOutput, CleanupOutput, CleanupFails, DropOutput,
         RecordCleanupFailed, ReportOutput, ReleaseReservation, FailJob, ExecStep
    <2> QED BY <2>1, <2>2, GotoIsQuiet DEF Live
  <1> QED BY <1>1, <1>2

\* The web handlers take no claims.
LEMMA HandlerIsQuiet ==
  ASSUME TypeInv, NEW h \in Handlers, HandlerStep(h) \/ UserStep(h)
  PROVE  Quiet
  <1>1. UNCHANGED <<attempts, workerVars, execVars>>
        /\ (UNCHANGED owner \/ \E ids \in SUBSET Jobs : Requeued(ids))
    <2>1. CASE WriteRetried(h)
      <3>1. Requeued({request[h].job} \cap Jobs)
        BY <2>1 DEF WriteRetried, Requeued
      <3> QED BY <2>1, <3>1 DEF WriteRetried, StatusOnly
    <2>2. CASE ~WriteRetried(h)
      BY <2>2 DEF HandlerStep, UserStep, CheckCreate, ReserveForCreate, InsertJob,
         InsertJobFails, CheckCancel, WriteCancelled, ReleaseCancelled, CheckRetry,
         ReserveRetried, AcquireDeletion, StaleDeletedJobs, ListDerivatives, PendDerivative,
         DeleteDerivative, RecordDeletion, UnchargeDerivative, DeletionInvalidated, BeginReplacement,
         StaleReplacedJobs, StaleReplacedDerivatives, HandlerDies, OnlyRequest, KeepsJobs,
         StatusOnly, WriteStatus, MarkActiveJobsStale, queueVars, leaseVars
    <2> QED BY <2>1, <2>2
  <1>2. \A j \in Jobs : owner'[j] \in {owner[j], None}
    BY <1>1 DEF Requeued
  <1>3. \A s \in Slots : (Live(s)' <=> Live(s)) /\ (InService(s[1])' <=> InService(s[1]))
    BY <1>1 DEF Live, InService, workerVars, execVars
  <1> QED BY <1>1, <1>2, <1>3 DEF Quiet, execVars

\* The process of a worker is gone, or its loop or a lease moves.
LEMMA QueueIsQuiet ==
  ASSUME TypeInv, ClaimInv, QueueNext,
         \A w \in Workers :
           ~ClaimQueuedJobs(w) /\ ~ClaimIsLost(w) /\ ~ReleaseInFlightLeases(w)
  PROVE  Quiet
  <1>t. /\ pc \in [Slots -> ExecStep] /\ keyAttempt \in [Slots -> 0 .. MaxAttempts]
        /\ mode \in [Workers -> WorkerMode]
        /\ owner \in [Jobs -> Workers \cup {None}]
    BY DEF TypeInv, TypeOK, QueueTypeOK
  <1>1. ASSUME NEW w \in Workers, Gone(w), UNCHANGED leaseVars PROVE Quiet
    <2>1. \A s \in Slots : IF s[1] = w THEN ~Live(s)' /\ keyAttempt'[s] = 0
                           ELSE (Live(s)' <=> Live(s)) /\ keyAttempt'[s] = keyAttempt[s]
      BY <1>1 DEF Gone, Live
    <2>2. \A s \in Slots : s[1] # w => (InService(s[1])' <=> InService(s[1]))
      BY <1>1, <1>t, SlotFields DEF Gone, InService
    <2> QED BY <1>1, <2>1, <2>2 DEF Quiet, leaseVars
  <1>2. ASSUME NEW w \in Workers, WorkerCrashes(w) \/ WorkerExits(w) PROVE Quiet
    BY <1>1, <1>2 DEF WorkerCrashes, WorkerExits
  <1>3. ASSUME UNCHANGED <<attempts, pc, keyAttempt>>,
               \A j \in Jobs : owner'[j] \in {owner[j], None},
               \A w \in Workers : InService(w)' => InService(w)
        PROVE  Quiet
    BY <1>3, SlotFields DEF Quiet, Live
  <1>4. ASSUME NEW w \in Workers,
               SelectExpiredLeases(w) \/ LoopFails(w) \/ ShutdownWorker(w)
        PROVE  Quiet
    BY <1>3, <1>4, <1>t
       DEF SelectExpiredLeases, LoopFails, ShutdownWorker, leaseVars, execVars, InService
  <1>5. ASSUME NEW w \in Workers, WorkerRestarts(w) PROVE Quiet
    <2>1. \A v \in Workers : InService(v)' => InService(v)
      BY <1>5, <1>t DEF WorkerRestarts, InService
    <2> QED BY <1>3, <1>5, <2>1 DEF WorkerRestarts, leaseVars, execVars
  <1>6. ASSUME NEW w \in Workers, RequeueExpiredLeases(w) PROVE Quiet
    BY <1>3, <1>6 DEF RequeueExpiredLeases, Requeued, execVars, InService
  <1>7. ASSUME NEW w \in Workers, NEW j \in Jobs, HeartbeatLeasedJob(w, j) PROVE Quiet
    BY <1>3, <1>7 DEF HeartbeatLeasedJob, workerVars, execVars, InService
  <1>8. ASSUME NEW j \in Jobs, LeaseLapses(j) PROVE Quiet
    BY <1>3, <1>8 DEF LeaseLapses, workerVars, execVars, InService
  <1>9. ASSUME NEW s \in Slots, FinishExecution(s) PROVE Quiet
    <2>1. \A t \in Slots : IF t = s THEN ~Live(t)' /\ keyAttempt'[t] = 0
                           ELSE (Live(t)' <=> Live(t)) /\ keyAttempt'[t] = keyAttempt[t]
      BY <1>9, <1>t DEF FinishExecution, Live
    <2>2. \A j \in Jobs : owner'[j] \in {owner[j], None}
      BY <1>9, <1>t DEF FinishExecution
    <2> QED BY <1>9, <2>1, <2>2 DEF FinishExecution, Quiet, InService
  <1> QED BY <1>2, <1>4, <1>5, <1>6, <1>7, <1>8, <1>9 DEF QueueNext

-----------------------------------------------------------------------------
(* The three steps that move attempts *)

\* A claim numbers its execution above every number in use, and takes the
\* lease from nobody.
LEMMA ClaimKeepsClaims ==
  ASSUME TypeInv, ClaimInv, NEW w \in Workers, ClaimQueuedJobs(w) \/ ClaimIsLost(w)
  PROVE  ClaimInv'
  <1> DEFINE Numbered(s, claimed) ==
               s[1] = w /\ s[2] \in claimed /\ s[3] = attempts[s[2]] + 1
  <1>0. PICK claimed \in SUBSET Claimable, begun \in BOOLEAN :
          /\ Claim(w, claimed)
          /\ \A s \in Slots : pc'[s] = IF begun /\ Numbered(s, claimed)
                                      THEN "claimed" ELSE pc[s]
    <2>1. CASE ClaimQueuedJobs(w)
      BY <2>1 DEF ClaimQueuedJobs
    <2>2. CASE ClaimIsLost(w)
      BY <2>2 DEF ClaimIsLost
    <2> QED BY <2>1, <2>2
  <1>1. /\ attempts' = [j \in Jobs |->
                          IF j \in claimed THEN attempts[j] + 1 ELSE attempts[j]]
        /\ owner' = [j \in Jobs |-> IF j \in claimed THEN w ELSE owner[j]]
    BY <1>0 DEF Claim
  <1>2. UNCHANGED <<mode, keyAttempt>> /\ InService(w)
    BY <1>0 DEF Claim, InService
  <1>t. /\ attempts \in [Jobs -> 0 .. MaxAttempts]
        /\ pc \in [Slots -> ExecStep] /\ keyAttempt \in [Slots -> 0 .. MaxAttempts]
    BY DEF TypeInv, TypeOK, QueueTypeOK
  <1>n. \A j \in Jobs : attempts[j] \in Nat
    BY <1>t, QueueAssumption DEF QueueAssumption
  <1>m. \A s \in Slots : keyAttempt[s] \in Nat /\ s[3] \in Nat /\ s[2] \in Jobs /\ s[1] \in Workers
    BY <1>t, SlotFields, QueueAssumption DEF QueueAssumption
  <1> DEFINE Started(s) == begun /\ Numbered(s, claimed)
  <1>3. \A s \in Slots : Started(s) => ~Live(s) /\ keyAttempt[s] = 0
    <2> SUFFICES ASSUME NEW s \in Slots, Started(s), Live(s) PROVE FALSE
      BY DEF ClaimInv, IdleHasNoKey
    <2>1. s[3] <= attempts[s[2]]
      BY <1>2 DEF ClaimInv, ClaimsCounted, Serving
    <2> QED BY <2>1, <1>n, <1>m
  <1>4. \A s \in Slots : Serving(s)' <=> Serving(s) \/ Started(s)
    BY <1>0, <1>2 DEF Serving, Live, InService
  <1>5. \A s \in Slots : Writing(s)' <=> Writing(s)
    BY <1>0, <1>2, <1>3, <1>m DEF Writing, Begun, Live, InService
  <1>6. \A j \in Jobs : attempts'[j] = IF j \in claimed THEN attempts[j] + 1 ELSE attempts[j]
    BY <1>1
  <1>7. \A s \in Slots : s[2] \notin claimed => (HeldByOther(s)' <=> HeldByOther(s))
    BY <1>1, <1>m DEF HeldByOther
  <1>8. IdleHasNoKey'
    BY <1>0, <1>2 DEF ClaimInv, IdleHasNoKey, Live
  <1>9. ClaimsCounted'
    <2> SUFFICES ASSUME NEW s \in Slots, Serving(s)'
                 PROVE  /\ s[3] <= attempts'[s[2]]
                        /\ HeldByOther(s)' => s[3] < attempts'[s[2]]
      BY DEF ClaimsCounted
    <2>1. CASE Started(s)
      <3>1. ~HeldByOther(s)'
        BY <2>1, <1>1, <1>m DEF HeldByOther
      <3> QED BY <2>1, <3>1, <1>6, <1>n, <1>m
    <2>2. CASE ~Started(s)
      <3>1. s[3] <= attempts[s[2]] /\ (HeldByOther(s) => s[3] < attempts[s[2]])
        BY <2>2, <1>4 DEF ClaimInv, ClaimsCounted
      <3>2. CASE s[2] \in claimed
        <4>1. attempts'[s[2]] = attempts[s[2]] + 1
          BY <3>2, <1>6, <1>m
        <4> QED BY <4>1, <3>1, <1>n, <1>m
      <3>3. CASE s[2] \notin claimed
        BY <3>1, <3>3, <1>6, <1>7, <1>m
      <3> QED BY <3>2, <3>3
    <2> QED BY <2>1, <2>2
  <1>10. ClaimsApart'
    <2>1. ASSUME NEW s \in Slots, NEW t \in Slots, Started(s), Serving(t), s[2] = t[2]
          PROVE  s[3] # t[3]
      <3>1. t[3] <= attempts[t[2]]
        BY <2>1 DEF ClaimInv, ClaimsCounted
      <3> QED BY <2>1, <3>1, <1>n, <1>m
    <2>2. ASSUME NEW s \in Slots, NEW t \in Slots, Started(s), Started(t), s[2] = t[2]
          PROVE  s = t
      BY <2>2, SlotsApart
    <2> QED BY <1>4, <2>1, <2>2 DEF ClaimInv, ClaimsApart
  <1>11. KeysCounted'
    <2> SUFFICES ASSUME NEW s \in Slots, Writing(s)'
                 PROVE  /\ keyAttempt[s] <= attempts'[s[2]]
                        /\ HeldByOther(s)' => keyAttempt[s] < attempts'[s[2]]
      BY <1>2 DEF KeysCounted
    <2>1. keyAttempt[s] <= attempts[s[2]] /\ (HeldByOther(s) => keyAttempt[s] < attempts[s[2]])
      BY <1>5 DEF ClaimInv, KeysCounted
    <2>2. CASE s[2] \in claimed
      <3>1. attempts'[s[2]] = attempts[s[2]] + 1
        BY <2>2, <1>6, <1>m
      <3> QED BY <3>1, <2>1, <1>n, <1>m
    <2>3. CASE s[2] \notin claimed
      BY <2>1, <2>3, <1>6, <1>7, <1>m
    <2> QED BY <2>2, <2>3
  <1>12. KeysApart'
    BY <1>2, <1>5 DEF ClaimInv, KeysApart
  <1> QED BY <1>8, <1>9, <1>10, <1>11, <1>12 DEF ClaimInv

\* An execution begins only under its own lease: the executions of other
\* workers have read an earlier attempt.
LEMMA BeginKeepsClaims ==
  ASSUME TypeInv, ClaimInv, NEW s \in Slots, BeginExecution(s)
  PROVE  ClaimInv'
  <1>t. /\ attempts \in [Jobs -> 0 .. MaxAttempts]
        /\ pc \in [Slots -> ExecStep] /\ keyAttempt \in [Slots -> 0 .. MaxAttempts]
    BY DEF TypeInv, TypeOK, QueueTypeOK
  <1>1. UNCHANGED <<attempts, owner, mode>>
    BY DEF BeginExecution, leaseVars, workerVars
  <1>2. CASE ~(owner[s[2]] = s[1] /\ status[s[2]] \in RunningStatus)
    <2>1. Goto(s, "clear") /\ UNCHANGED keyAttempt /\ Live(s)
      BY <1>2 DEF BeginExecution, Live
    <2> QED BY <2>1, <1>1, GotoIsQuiet, QuietKeepsClaims DEF ExecStep
  <1>3. CASE owner[s[2]] = s[1] /\ status[s[2]] \in RunningStatus
    <2>1. /\ pc[s] = "claimed" /\ pc' = [pc EXCEPT ![s] = "check"]
          /\ keyAttempt' = [keyAttempt EXCEPT ![s] = attempts[s[2]]]
      BY <1>3 DEF BeginExecution, Goto
    <2>2. \A t \in Slots : (Live(t)' <=> Live(t)) /\ (InService(t[1])' <=> InService(t[1]))
      BY <2>1, <1>1, <1>t DEF Live, InService
    <2>3. \A t \in Slots : (HeldByOther(t)' <=> HeldByOther(t)) /\ (Serving(t)' <=> Serving(t))
      BY <1>1, <2>2 DEF HeldByOther, Serving
    <2>4. \A t \in Slots : t # s => /\ keyAttempt'[t] = keyAttempt[t]
                                    /\ Writing(t)' <=> Writing(t)
      BY <2>1, <2>2 DEF Writing, Begun
    <2>5. keyAttempt'[s] = attempts[s[2]] /\ ~HeldByOther(s)
      BY <2>1, <1>3, <1>t DEF HeldByOther
    <2>6. IdleHasNoKey'
      BY <2>1, <2>2, <2>4 DEF ClaimInv, IdleHasNoKey, Live
    <2>7. ClaimsCounted' /\ ClaimsApart'
      BY <1>1, <2>3 DEF ClaimInv, ClaimsCounted, ClaimsApart
    <2>8. KeysCounted'
      <3>1. attempts[s[2]] <= attempts[s[2]]
        BY <1>t, SlotFields, QueueAssumption DEF QueueAssumption
      <3> QED BY <1>1, <2>3, <2>4, <2>5, <3>1 DEF ClaimInv, KeysCounted
    <2>9. ASSUME NEW t \in Slots, Writing(t), s[2] = t[2], s[1] # t[1]
          PROVE  keyAttempt[t] # attempts[s[2]]
      <3>1. HeldByOther(t)
        BY <1>3, <2>9, SlotFields, QueueAssumption DEF HeldByOther, QueueAssumption
      <3>2. keyAttempt[t] < attempts[s[2]]
        BY <3>1, <2>9 DEF ClaimInv, KeysCounted
      <3>3. keyAttempt[t] \in Nat /\ attempts[s[2]] \in Nat
        BY <1>t, SlotFields, QueueAssumption DEF QueueAssumption
      <3> QED BY <3>2, <3>3
    <2>10. KeysApart'
      BY <2>4, <2>5, <2>9 DEF ClaimInv, KeysApart
    <2> QED BY <2>6, <2>7, <2>8, <2>10 DEF ClaimInv
  <1> QED BY <1>2, <1>3

\* A shutdown gives back attempts of jobs it holds itself, on which every
\* other worker's claim is an earlier one.
LEMMA ReleaseKeepsClaims ==
  ASSUME TypeInv, ClaimInv, NEW w \in Workers, ReleaseInFlightLeases(w)
  PROVE  ClaimInv'
  <1> DEFINE held == {j \in inFlight[w] : owner[j] = w /\ status[j] \in RunningStatus}
  <1>t. /\ attempts \in [Jobs -> 0 .. MaxAttempts]
        /\ keyAttempt \in [Slots -> 0 .. MaxAttempts] /\ mode \in [Workers -> WorkerMode]
    BY DEF TypeInv, TypeOK, QueueTypeOK
  <1>1. /\ Requeued(held)
        /\ attempts' = [j \in Jobs |-> IF j \in held /\ attempts[j] > 0
                                       THEN attempts[j] - 1 ELSE attempts[j]]
        /\ mode' = [mode EXCEPT ![w] = "released"]
        /\ UNCHANGED <<pc, keyAttempt>>
    BY DEF ReleaseInFlightLeases, execVars
  <1>2. \A j \in held : owner[j] = w
    OBVIOUS
  <1> HIDE DEF held
  <1>3. ~InService(w)' /\ \A v \in Workers : InService(v)' => InService(v)
    BY <1>1, <1>t DEF InService
  <1>m. \A s \in Slots : /\ s[1] \in Workers /\ s[2] \in Jobs /\ s[3] \in Nat
                         /\ attempts[s[2]] \in Nat /\ keyAttempt[s] \in Nat
    BY <1>t, SlotFields, QueueAssumption DEF QueueAssumption
  <1>4. \A s \in Slots : /\ Serving(s)' => Serving(s) /\ s[1] # w
                         /\ Writing(s)' => Writing(s) /\ s[1] # w
    BY <1>1, <1>3, <1>m DEF Serving, Writing, Begun, Live
  <1>5. \A s \in Slots : s[1] # w /\ s[2] \in held => HeldByOther(s) /\ ~HeldByOther(s)'
    BY <1>1, <1>2, <1>m, QueueAssumption DEF HeldByOther, Requeued, QueueAssumption
  <1>6. \A s \in Slots : s[2] \notin held =>
          (HeldByOther(s)' <=> HeldByOther(s)) /\ attempts'[s[2]] = attempts[s[2]]
    BY <1>1, <1>m DEF HeldByOther, Requeued
  <1>7. ASSUME NEW s \in Slots, s[2] \in held, NEW n \in Nat, n < attempts[s[2]]
        PROVE  n <= attempts'[s[2]]
    BY <1>1, <1>7, <1>m
  <1>8. IdleHasNoKey'
    BY <1>1 DEF ClaimInv, IdleHasNoKey, Live
  <1>9. ClaimsCounted'
    BY <1>4, <1>5, <1>6, <1>7, <1>m DEF ClaimInv, ClaimsCounted
  <1>10. ClaimsApart'
    BY <1>4 DEF ClaimInv, ClaimsApart
  <1>11. KeysCounted'
    BY <1>1, <1>4, <1>5, <1>6, <1>7, <1>m DEF ClaimInv, KeysCounted
  <1>12. KeysApart'
    BY <1>1, <1>4 DEF ClaimInv, KeysApart
  <1> QED BY <1>8, <1>9, <1>10, <1>11, <1>12 DEF ClaimInv

-----------------------------------------------------------------------------
(* Claims and keys are apart in every behaviour *)

LEMMA ClaimInit == Init => ClaimInv
  BY DEF Init, QueueInit, ClaimInv, IdleHasNoKey, ClaimsCounted, ClaimsApart, KeysCounted,
         KeysApart, Serving, Writing, Begun, Live

LEMMA ClaimStep == TypeInv /\ ClaimInv /\ [Next]_vars => ClaimInv'
  <1> SUFFICES ASSUME TypeInv, ClaimInv, [Next]_vars PROVE ClaimInv'
    OBVIOUS
  <1>1. CASE QueueNext
    BY <1>1, ClaimKeepsClaims, ReleaseKeepsClaims, QueueIsQuiet, QuietKeepsClaims
  <1>2. ASSUME NEW s \in Slots, ExecuteProcessingJob(s) PROVE ClaimInv'
    BY <1>2, BeginKeepsClaims, ExecutionIsQuiet, QuietKeepsClaims
  <1>3. ASSUME NEW h \in Handlers, HandlerStep(h) \/ UserStep(h) PROVE ClaimInv'
    BY <1>3, HandlerIsQuiet, QuietKeepsClaims
  <1>4. ASSUME UNCHANGED queueVars PROVE ClaimInv'
    <2>1. Quiet
      BY <1>4 DEF Quiet, queueVars, leaseVars, workerVars, execVars, Live, InService
    <2> QED BY <2>1, QuietKeepsClaims
  <1>5. ASSUME NEW i \in Images, EndReplacement(i) PROVE ClaimInv'
    BY <1>4, <1>5 DEF EndReplacement, KeepsJobs
  <1> QED BY <1>1, <1>2, <1>3, <1>4, <1>5 DEF Next, vars

LEMMA ClaimInvHolds == Spec => [](TypeInv /\ ClaimInv)
  BY TypeInit, TypeStep, ClaimInit, ClaimStep, PTL DEF Spec

\* Whatever stalls, crashes, is requeued or is released, no attempt of a job
\* is held by two executions of workers in service.
THEOREM ClaimsHold == Spec => []ClaimsDistinct
  <1>1. ClaimInv => ClaimsDistinct
    BY DEF ClaimInv, ClaimsCounted, ClaimsApart, Serving, ClaimsDistinct
  <1> QED BY <1>1, ClaimInvHolds, PTL

\* Two workers in service never write the same output object, even while one
\* of them does not know that it has lost its lease.
THEOREM WritersHold == Spec => []WritersDisjoint
  <1>1. ASSUME TypeInv, ClaimInv PROVE WritersDisjoint
    <2> SUFFICES ASSUME NEW s \in Slots, NEW t \in Slots, Begun(s), Begun(t), s[2] = t[2],
                        s[1] # t[1], InService(s[1]), InService(t[1])
                 PROVE  KeyOf(s) # KeyOf(t)
      BY DEF WritersDisjoint
    <2>1. keyAttempt[s] # keyAttempt[t]
      BY <1>1 DEF ClaimInv, KeysApart, Writing
    <2> QED BY <2>1 DEF KeyOf
  <1> QED BY <1>1, ClaimInvHolds, PTL

-----------------------------------------------------------------------------
(* A completed job has a derivative *)

\* No derivative row disappears, no job completes, and no execution gets as
\* far as completing.
NothingCompletes ==
  /\ \A k \in OutputKeys : derivative'[k] = "none" => derivative[k] = "none"
  /\ \A j \in Jobs : status'[j] = "completed" =>
       status[j] = "completed" /\ output'[j] = output[j]
  /\ \A s \in Slots : pc'[s] = "complete" =>
       pc[s] = "complete" /\ keyAttempt'[s] = keyAttempt[s]

LEMMA NothingCompletesKeeps ==
  ASSUME TypeInv, OutputInv, NothingCompletes
  PROVE  OutputInv'
  <1>1. CompletingHasDerivative'
    <2> SUFFICES ASSUME NEW s \in Slots, pc'[s] = "complete"
                 PROVE  derivative'[KeyOf(s)'] # "none"
      BY DEF CompletingHasDerivative
    <2>1. pc[s] = "complete" /\ KeyOf(s)' = KeyOf(s)
      BY DEF NothingCompletes, KeyOf
    <2>2. KeyOf(s) \in OutputKeys
      BY <2>1, KeyOfType DEF TypeInv, WorkHasKey
    <2> QED BY <2>1, <2>2 DEF OutputInv, CompletingHasDerivative, NothingCompletes
  <1>2. CompletedHasDerivative'
    <2> SUFFICES ASSUME NEW j \in Jobs, status'[j] = "completed"
                 PROVE  output'[j] > 0 /\ derivative'[<<j, output'[j]>>] # "none"
      BY DEF CompletedHasDerivative
    <2>1. /\ output[j] > 0 /\ derivative[<<j, output[j]>>] # "none"
          /\ output'[j] = output[j]
      BY DEF OutputInv, CompletedHasDerivative, NothingCompletes
    <2>2. output[j] \in 1 .. MaxAttempts
      BY <2>1, QueueAssumption DEF TypeInv, TypeOK, QueueAssumption
    <2>3. <<j, output[j]>> \in OutputKeys
      BY <2>2 DEF OutputKeys
    <2> QED BY <2>1, <2>3 DEF NothingCompletes
  <1> QED BY <1>1, <1>2 DEF OutputInv

LEMMA QueueCompletesNothing ==
  ASSUME TypeInv, QueueNext, OnQueue
  PROVE  NothingCompletes
  <1>t. /\ status \in [Jobs -> JobStatus]
        /\ pc \in [Slots -> ExecStep] /\ keyAttempt \in [Slots -> 0 .. MaxAttempts]
    BY DEF TypeInv, TypeOK, QueueTypeOK
  <1>1. UNCHANGED <<output, derivative>>
    BY DEF OnQueue, jobVars, fileVars
  <1>2. \A j \in Jobs : status'[j] \in {status[j], "queued", "processing"}
    BY ZenonT(60), <1>t DEF QueueNext, SelectExpiredLeases, RequeueExpiredLeases, ClaimQueuedJobs, ClaimIsLost,
       Claim, LoopFails,
       WorkerCrashes, ShutdownWorker, ReleaseInFlightLeases, WorkerExits, WorkerRestarts,
       HeartbeatLeasedJob, LeaseLapses, FinishExecution, Requeued, leaseVars
  <1>3. ASSUME NEW s \in Slots
        PROVE  (pc'[s] = pc[s] /\ keyAttempt'[s] = keyAttempt[s]) \/ pc'[s] \in {"idle", "claimed"}
    BY <1>t DEF QueueNext, SelectExpiredLeases, RequeueExpiredLeases, ClaimQueuedJobs, ClaimIsLost,
       Claim, LoopFails,
       WorkerCrashes, ShutdownWorker, ReleaseInFlightLeases, WorkerExits, WorkerRestarts,
       HeartbeatLeasedJob, LeaseLapses, FinishExecution, Gone, execVars
  <1> QED BY <1>1, <1>2, <1>3 DEF NothingCompletes

\* Only the insert leads to completion, and only the status write completes.
LEMMA ExecutionCompletesNothing ==
  ASSUME TypeInv, NEW s \in Slots, ExecuteProcessingJob(s), ~InsertDerivative(s), ~CompleteJob(s)
  PROVE  NothingCompletes
  <1>t. /\ status \in [Jobs -> JobStatus] /\ output \in [Jobs -> 0 .. MaxAttempts]
        /\ derivative \in [OutputKeys -> DerivativeStatus]
        /\ pc \in [Slots -> ExecStep] /\ keyAttempt \in [Slots -> 0 .. MaxAttempts]
    BY DEF TypeInv, TypeOK, QueueTypeOK
  <1>1. \A k \in OutputKeys : derivative'[k] = "none" => derivative[k] = "none"
    BY <1>t DEF ExecuteProcessingJob, BeginExecution, CheckImage, TransformSource,
       TransformFails, PutOutput, PutFails, VerifyOutput, FindPrevious, RetirePrevious,
       CreditOutput, RecordUsage, ThrowWithOutput, ThrowOut, CleanupOutput, CleanupFails,
       RecordCleanupFailed, ReportOutput, DropOutput, ReleaseReservation, FailJob, sagaVars, fileVars
  <1>2. \A j \in Jobs : status'[j] = "completed" =>
          status[j] = "completed" /\ output'[j] = output[j]
    BY <1>t DEF ExecuteProcessingJob, BeginExecution, CheckImage, TransformSource,
       TransformFails, PutOutput, PutFails, VerifyOutput, FindPrevious, RetirePrevious,
       CreditOutput, RecordUsage, ThrowWithOutput, ThrowOut, AbandonExecution, CleanupOutput,
       CleanupFails, RecordCleanupFailed, ReportOutput, DropOutput, ReleaseReservation, FailJob, WriteStatus, sagaVars, jobVars,
       leaseVars
  <1>3. \A r \in Slots : pc'[r] = "complete" =>
          pc[r] = "complete" /\ keyAttempt'[r] = keyAttempt[r]
    BY <1>t DEF ExecuteProcessingJob, BeginExecution, CheckImage, TransformSource,
       TransformFails, PutOutput, PutFails, VerifyOutput, FindPrevious, RetirePrevious,
       CreditOutput, RecordUsage, ThrowWithOutput, ThrowOut, AbandonExecution, CleanupOutput,
       CleanupFails, RecordCleanupFailed, ReportOutput, DropOutput, ReleaseReservation, FailJob, Goto
  <1> QED BY <1>1, <1>2, <1>3 DEF NothingCompletes

LEMMA HandlersCompleteNothing ==
  ASSUME TypeInv, NEW h \in Handlers, HandlerStep(h) \/ UserStep(h)
  PROVE  NothingCompletes
  <1>t. /\ status \in [Jobs -> JobStatus] /\ output \in [Jobs -> 0 .. MaxAttempts]
        /\ derivative \in [OutputKeys -> DerivativeStatus]
    BY DEF TypeInv, TypeOK, QueueTypeOK
  <1>1. \A k \in OutputKeys : derivative'[k] = "none" => derivative[k] = "none"
    BY <1>t DEF HandlerStep, UserStep, CheckCreate, ReserveForCreate, InsertJob,
       InsertJobFails, CheckCancel, WriteCancelled, ReleaseCancelled, CheckRetry, WriteRetried,
       ReserveRetried, AcquireDeletion, StaleDeletedJobs, ListDerivatives, PendDerivative,
       DeleteDerivative, RecordDeletion, UnchargeDerivative, DeletionInvalidated, BeginReplacement,
       StaleReplacedJobs, StaleReplacedDerivatives, HandlerDies, OnlyRequest, StatusOnly,
       fileVars
  <1>2. \A j \in Jobs : status'[j] = "completed" =>
          status[j] = "completed" /\ output'[j] = output[j]
    BY ZenonT(60), <1>t DEF HandlerStep, UserStep, CheckCreate, ReserveForCreate, InsertJob,
       InsertJobFails, CheckCancel, WriteCancelled, ReleaseCancelled, CheckRetry, WriteRetried,
       ReserveRetried, AcquireDeletion, StaleDeletedJobs, ListDerivatives, PendDerivative,
       DeleteDerivative, RecordDeletion, UnchargeDerivative, DeletionInvalidated, BeginReplacement,
       StaleReplacedJobs, StaleReplacedDerivatives, HandlerDies, OnlyRequest, KeepsJobs,
       WriteStatus, Requeued, MarkActiveJobsStale, queueVars, leaseVars, jobVars
  <1>3. UNCHANGED <<pc, keyAttempt>>
    BY DEF HandlerStep, UserStep, CheckCreate, ReserveForCreate, InsertJob,
       InsertJobFails, CheckCancel, WriteCancelled, ReleaseCancelled, CheckRetry, WriteRetried,
       ReserveRetried, AcquireDeletion, StaleDeletedJobs, ListDerivatives, PendDerivative,
       DeleteDerivative, RecordDeletion, UnchargeDerivative, DeletionInvalidated, BeginReplacement,
       StaleReplacedJobs, StaleReplacedDerivatives, HandlerDies, OnlyRequest, KeepsJobs,
       StatusOnly, queueVars, execVars
  <1> QED BY <1>1, <1>2, <1>3 DEF NothingCompletes

LEMMA InsertKeepsOutput ==
  ASSUME TypeInv, OutputInv, NEW s \in Slots, InsertDerivative(s)
  PROVE  OutputInv'
  <1>t. derivative \in [OutputKeys -> DerivativeStatus] /\ pc \in [Slots -> ExecStep]
    BY DEF TypeInv, TypeOK, QueueTypeOK
  <1>1. KeyOf(s) \in OutputKeys
    BY KeyOfType DEF InsertDerivative, TypeInv, WorkHasKey
  <1>2. \A k \in OutputKeys : derivative'[k] = "none" => derivative[k] = "none"
    BY <1>t DEF InsertDerivative
  <1>3. UNCHANGED <<keyAttempt, status, output>>
    BY DEF InsertDerivative, leaseVars, jobVars
  <1>4. CASE Goto(s, "cleanup")
    <2>1. NothingCompletes
      BY <1>2, <1>3, <1>4, <1>t DEF NothingCompletes, Goto
    <2> QED BY <2>1, NothingCompletesKeeps
  <1>5. CASE derivative' = [derivative EXCEPT ![KeyOf(s)] = "active"] /\ Goto(s, "complete")
    <2>1. CompletingHasDerivative'
      <3> SUFFICES ASSUME NEW r \in Slots, pc'[r] = "complete"
                   PROVE  derivative'[KeyOf(r)'] # "none"
        BY DEF CompletingHasDerivative
      <3>1. KeyOf(r)' = KeyOf(r)
        BY <1>3 DEF KeyOf
      <3>2. CASE r = s
        BY <3>1, <3>2, <1>1, <1>5, <1>t
      <3>3. CASE r # s
        <4>1. pc[r] = "complete"
          BY <3>3, <1>5, <1>t DEF Goto
        <4>2. KeyOf(r) \in OutputKeys
          BY <4>1, KeyOfType DEF TypeInv, WorkHasKey
        <4> QED BY <3>1, <4>1, <4>2, <1>2 DEF OutputInv, CompletingHasDerivative
      <3> QED BY <3>2, <3>3
    <2>2. CompletedHasDerivative'
      BY <1>1, <1>3, <1>5, <1>t DEF OutputInv, CompletedHasDerivative
    <2> QED BY <2>1, <2>2 DEF OutputInv
  <1> QED BY <1>4, <1>5 DEF InsertDerivative

LEMMA CompleteKeepsOutput ==
  ASSUME TypeInv, OutputInv, NEW s \in Slots, CompleteJob(s)
  PROVE  OutputInv'
  <1>t. /\ status \in [Jobs -> JobStatus] /\ output \in [Jobs -> 0 .. MaxAttempts]
        /\ pc \in [Slots -> ExecStep]
    BY DEF TypeInv, TypeOK, QueueTypeOK
  <1>1. /\ pc[s] = "complete" /\ Goto(s, "credit")
        /\ status' = [status EXCEPT ![s[2]] = "completed"]
        /\ output' = [output EXCEPT ![s[2]] = keyAttempt[s]]
        /\ UNCHANGED <<keyAttempt, derivative>>
    BY DEF CompleteJob, WriteStatus, fileVars
  <1>2. keyAttempt[s] > 0 /\ derivative[<<s[2], keyAttempt[s]>>] # "none"
    BY <1>1 DEF TypeInv, WorkHasKey, OutputInv, CompletingHasDerivative, KeyOf
  <1>3. CompletingHasDerivative'
    BY <1>1, <1>t DEF OutputInv, CompletingHasDerivative, Goto, KeyOf
  <1>4. CompletedHasDerivative'
    <2> SUFFICES ASSUME NEW j \in Jobs, status'[j] = "completed"
                 PROVE  output'[j] > 0 /\ derivative'[<<j, output'[j]>>] # "none"
      BY DEF CompletedHasDerivative
    <2>1. CASE j = s[2]
      BY <2>1, <1>1, <1>2, <1>t
    <2>2. CASE j # s[2]
      BY <2>2, <1>1, <1>t DEF OutputInv, CompletedHasDerivative
    <2> QED BY <2>1, <2>2
  <1> QED BY <1>3, <1>4 DEF OutputInv

LEMMA OutputInit == Init => OutputInv
  BY DEF Init, QueueInit, OutputInv, CompletingHasDerivative, CompletedHasDerivative

LEMMA OutputStep == TypeInv /\ OutputInv /\ [Next]_vars => OutputInv'
  <1> SUFFICES ASSUME TypeInv, OutputInv, [Next]_vars PROVE OutputInv'
    OBVIOUS
  <1>1. ASSUME UNCHANGED <<status, pc, keyAttempt, output, derivative>> PROVE OutputInv'
    <2>1. NothingCompletes
      BY <1>1 DEF NothingCompletes
    <2> QED BY <2>1, NothingCompletesKeeps
  <1>2. ASSUME NEW i \in Images, EndReplacement(i) PROVE OutputInv'
    BY <1>1, <1>2 DEF EndReplacement, KeepsJobs, queueVars, leaseVars, execVars, jobVars, fileVars
  <1>3. CASE UNCHANGED vars
    BY <1>1, <1>3 DEF vars, queueVars, leaseVars, execVars, sagaVars, jobVars, fileVars
  <1> QED BY <1>2, <1>3, NothingCompletesKeeps, QueueCompletesNothing,
             ExecutionCompletesNothing, InsertKeepsOutput, CompleteKeepsOutput,
             HandlersCompleteNothing
          DEF Next

\* However many executions of a job race to its row, a job that is completed
\* names an attempt whose derivative was inserted.
THEOREM CompletedHasDerivativeHolds == Spec => []CompletedHasDerivative
  <1>1. OutputInv => CompletedHasDerivative
    BY DEF OutputInv
  <1> QED BY <1>1, TypeInit, TypeStep, OutputInit, OutputStep, PTL DEF Spec

-----------------------------------------------------------------------------
(* The queue hands out attempts as AttemptTickets says *)

Held == {s \in Slots : Serving(s)}

LEMMA TicketsInit == Init => Tickets!Init
  <1> SUFFICES ASSUME Init PROVE Tickets!Init
    OBVIOUS
  <1>1. attempts = [j \in Jobs |-> 0] /\ \A s \in Slots : ~Live(s)
    BY DEF Init, QueueInit, Live
  <1> QED BY <1>1 DEF Tickets!Init

\* A step that takes no claim gives no ticket: it may end executions.
LEMMA QuietDiscards ==
  ASSUME Quiet
  PROVE  \E T \in SUBSET Held : Tickets!Discard(T)
  <1>1. \A s \in Slots : Serving(s)' => Serving(s)
    BY DEF Quiet, Serving
  <1>2. Held' = Held \ (Held \ Held')
    BY <1>1 DEF Held
  <1>3. UNCHANGED attempts
    BY DEF Quiet
  <1>4. Tickets!Discard(Held \ Held')
    BY <1>2, <1>3 DEF Tickets!Discard, Held, Serving
  <1> QED BY <1>4

\* The read of an execution's attempt gives and takes nothing.
LEMMA BeginDiscardsNothing ==
  ASSUME TypeInv, NEW s \in Slots, BeginExecution(s)
  PROVE  Tickets!Discard({})
  <1>1. pc[s] = "claimed" /\ pc' \in {[pc EXCEPT ![s] = "check"], [pc EXCEPT ![s] = "clear"]}
        /\ UNCHANGED <<attempts, mode>>
    BY DEF BeginExecution, Goto, leaseVars, workerVars
  <1>2. \A t \in Slots : Serving(t)' <=> Serving(t)
    BY <1>1 DEF Serving, Live, InService, TypeInv, TypeOK, QueueTypeOK
  <1>3. Held' = Held
    BY <1>2 DEF Held
  <1> QED BY <1>1, <1>3 DEF Tickets!Discard, Held, Serving

\* A claim issues the next ticket of each row it claims, which nobody holds;
\* a claim that is lost issues them too.
LEMMA ClaimIssues ==
  ASSUME TypeInv, ClaimInv, NEW w \in Workers, ClaimQueuedJobs(w) \/ ClaimIsLost(w)
  PROVE  \E S \in SUBSET Jobs : Tickets!Issue(w, S)
  <1>0. PICK claimed \in SUBSET Claimable, begun \in BOOLEAN :
          /\ Claim(w, claimed)
          /\ \A s \in Slots : pc'[s] =
               IF begun /\ s[1] = w /\ s[2] \in claimed /\ s[3] = attempts[s[2]] + 1
               THEN "claimed" ELSE pc[s]
    <2>1. CASE ClaimQueuedJobs(w)
      BY <2>1 DEF ClaimQueuedJobs
    <2>2. CASE ClaimIsLost(w)
      BY <2>2 DEF ClaimIsLost
    <2> QED BY <2>1, <2>2
  <1> DEFINE new == {<<w, j, attempts[j] + 1>> : j \in claimed}
  <1>1. /\ attempts' = [j \in Jobs |->
                          IF j \in claimed THEN attempts[j] + 1 ELSE attempts[j]]
        /\ UNCHANGED mode /\ mode[w] # "released"
    BY <1>0 DEF Claim
  <1>2. \A j \in claimed : attempts[j] < MaxAttempts
    BY DEF Claimable
  <1>3. \A s \in Slots : Serving(s) => s[3] <= attempts[s[2]]
    BY DEF ClaimInv, ClaimsCounted
  <1>4. new \in SUBSET Slots
    BY <1>2, QueueAssumption DEF Claimable, Slots, TypeInv, TypeOK, QueueTypeOK, QueueAssumption
  <1>5. \A s \in Slots : s \in new <=> s[1] = w /\ s[2] \in claimed /\ s[3] = attempts[s[2]] + 1
    BY SlotFields
  <1>6. \A s \in Slots : Serving(s)' <=> Serving(s) \/ (begun /\ s \in new)
    BY <1>0, <1>1, <1>5, SlotFields DEF Serving, Live, InService
  <1>7. Held' \in {Held, Held \cup new}
    BY <1>4, <1>6 DEF Held
  <1>8. Tickets!Issue(w, claimed)
    BY <1>1, <1>2, <1>3, <1>7 DEF Tickets!Issue, Held, Serving
  <1> QED BY <1>8 DEF Claimable

\* The shutdown gives back the last ticket of each row it still has the lease
\* of; any other worker in service holds an earlier one.
LEMMA ReleaseGivesBack ==
  ASSUME TypeInv, ClaimInv, NEW w \in Workers, ReleaseInFlightLeases(w)
  PROVE  \E S \in SUBSET Jobs : Tickets!GiveBack(w, S)
  <1> DEFINE rows == {j \in inFlight[w] : owner[j] = w /\ status[j] \in RunningStatus}
             given == {j \in rows : attempts[j] > 0}
  <1>t. /\ mode \in [Workers -> WorkerMode] /\ inFlight[w] \subseteq Jobs
        /\ attempts \in [Jobs -> 0 .. MaxAttempts]
    BY DEF TypeInv, TypeOK, QueueTypeOK
  <1>1. /\ attempts' = [j \in Jobs |-> IF j \in rows /\ attempts[j] > 0
                                      THEN attempts[j] - 1 ELSE attempts[j]]
        /\ mode' = [mode EXCEPT ![w] = "released"]
        /\ UNCHANGED pc
    BY DEF ReleaseInFlightLeases, execVars
  <1>2. \A s \in Slots : Serving(s)' <=> Serving(s) /\ s[1] # w
    BY <1>1, <1>t, SlotFields DEF Serving, Live, InService
  <1>3. Held' = Held \ {s \in Held : s[1] = w}
    BY <1>2 DEF Held
  <1>4. \A j \in given : attempts[j] > 0 /\ ~\E s \in Held : s[1] # w /\ s[2] = j /\ s[3] = attempts[j]
    <2> SUFFICES ASSUME NEW j \in given, NEW s \in Slots, Serving(s), s[1] # w, s[2] = j
                 PROVE  s[3] # attempts[j]
      BY DEF Held
    <2>1. HeldByOther(s)
      BY QueueAssumption DEF HeldByOther, QueueAssumption
    <2>2. s[3] < attempts[j]
      BY <2>1 DEF ClaimInv, ClaimsCounted
    <2> QED BY <2>2, <1>t, SlotFields, QueueAssumption DEF QueueAssumption
  <1>5. attempts' = [j \in Jobs |-> IF j \in given THEN attempts[j] - 1 ELSE attempts[j]]
    BY <1>1
  <1>6. given \in SUBSET Jobs
    BY <1>t
  <1> HIDE DEF rows, given
  <1>7. Tickets!GiveBack(w, given)
    BY <1>3, <1>4, <1>5 DEF Tickets!GiveBack, Tickets!HeldByOthers, Tickets!Holds, Held, Serving
  <1> QED BY <1>6, <1>7

LEMMA TicketsStep ==
  TypeInv /\ ClaimInv /\ [Next]_vars => Tickets!Next \/ UNCHANGED <<attempts, Held>>
  <1> SUFFICES ASSUME TypeInv, ClaimInv, [Next]_vars
               PROVE  Tickets!Next \/ UNCHANGED <<attempts, Held>>
    OBVIOUS
  <1>1. ASSUME \E T \in SUBSET Held : Tickets!Discard(T) PROVE Tickets!Next
    BY <1>1 DEF Tickets!Next, Held, Serving
  <1>2. CASE QueueNext
    BY <1>1, <1>2, ClaimIssues, ReleaseGivesBack, QueueIsQuiet, QuietDiscards DEF Tickets!Next
  <1>3. ASSUME NEW s \in Slots, ExecuteProcessingJob(s) PROVE Tickets!Next
    BY <1>1, <1>3, BeginDiscardsNothing, ExecutionIsQuiet, QuietDiscards
  <1>4. ASSUME NEW h \in Handlers, HandlerStep(h) \/ UserStep(h) PROVE Tickets!Next
    BY <1>1, <1>4, HandlerIsQuiet, QuietDiscards
  <1>5. ASSUME UNCHANGED queueVars PROVE UNCHANGED <<attempts, Held>>
    BY <1>5 DEF queueVars, leaseVars, workerVars, execVars, Held, Serving, Live, InService
  <1>6. ASSUME NEW i \in Images, EndReplacement(i) PROVE UNCHANGED <<attempts, Held>>
    BY <1>5, <1>6 DEF EndReplacement, KeepsJobs
  <1> QED BY <1>2, <1>3, <1>4, <1>5, <1>6 DEF Next, vars

\* claimQueuedJobs, recoverExpiredLeases and releaseInFlightLeasesOnShutdown
\* implement AttemptTickets, for any number of workers and jobs and whatever
\* the saga around them does: attempt n of a job is issued to one worker, is
\* not issued again while that worker holds it, and is handed back only if
\* nobody else holds it.
THEOREM TicketsHold == Spec => TicketsImplemented
  <1>1. UNCHANGED <<attempts, Held>> => UNCHANGED <<attempts, {s \in Slots : Live(s) /\ InService(s[1])}>>
    BY DEF Held, Serving
  <1>2. TypeInv /\ ClaimInv /\ [Next]_vars
          => [Tickets!Next]_<<attempts, {s \in Slots : Live(s) /\ InService(s[1])}>>
    BY <1>1, TicketsStep
  <1> QED BY <1>2, TicketsInit, ClaimInvHolds, PTL DEF Spec, TicketsImplemented, Tickets!Spec
=============================================================================
