----------------------- MODULE ProcessingOutputsProofs -----------------------
(***************************************************************************)
(* ProcessingJobs: the outputs of executions, from their PUT to the charge *)
(* of the project, for any number of workers, jobs, images and handlers.   *)
(* Each theorem names the disturbances it excludes, and why, above the     *)
(* hypothesis it uses.                                                     *)
(***************************************************************************)
EXTENDS ProcessingClaimsProofs, FiniteSetTheorems

-----------------------------------------------------------------------------
(* The charge of generated bytes *)

\* Without deletions: a derivative that is deleted is taken off the charge in
\* a later statement, and the credit of its output may come after both.
NoDeletions == "delete" \notin Events

Deletes == {"delete_jobs", "delete_list", "delete_next", "delete_object", "delete_done",
            "delete_failed", "delete_uncharge"}

NothingDeleted ==
  /\ \A h \in Handlers : request[h].step \notin Deletes
  /\ \A k \in OutputKeys : derivative[k] # "deleted"

\* pc = "demote" follows the read that found a derivative.
PreviousInserted ==
  \A s \in Slots : pc[s] = "demote" =>
    previous[s] \in OutputKeys /\ derivative[previous[s]] # "none"

Inserted == {k \in OutputKeys : derivative[k] # "none"}

\* An execution that has inserted its derivative and not yet credited it.
Owing(s) == pc[s] \in {"complete", "credit"}
Owed == {k \in OutputKeys : \E s \in Slots : Owing(s) /\ KeyOf(s) = k}

OwedInserted == \A s \in Slots : Owing(s) => derivative[KeyOf(s)] # "none"
OwedApart == \A s, t \in Slots : Owing(s) /\ Owing(t) /\ KeyOf(s) = KeyOf(t) => s = t

\* The charge is covered by the derivatives that no execution has yet to credit.
ChargeCovered ==
  /\ IsFiniteSet(Inserted)
  /\ generated <= OutputSize * Cardinality(Inserted \ Owed)

ChargeInv == NothingDeleted /\ PreviousInserted /\ OwedInserted /\ OwedApart /\ ChargeCovered

LEMMA TimesMonotone ==
  ASSUME NEW a \in Nat, NEW m \in Nat, NEW n \in Nat, m <= n
  PROVE  a * m <= a * n
  <1>1. n - m \in Nat /\ n = m + (n - m)
    OBVIOUS
  <1>2. ASSUME NEW d \in Nat PROVE a * (m + d) = a * m + a * d /\ a * d >= 0
    OBVIOUS
  <1> QED BY <1>1, <1>2

\* A step that inserts and credits nothing.
NothingCredited ==
  /\ generated' = generated
  /\ \A k \in OutputKeys : derivative'[k] = "none" <=> derivative[k] = "none"
  /\ \A s \in Slots : Owing(s)' => Owing(s) /\ keyAttempt'[s] = keyAttempt[s]

\* What becomes of the bound when the credited derivatives only grow.
LEMMA CoverGrows ==
  ASSUME TypeInv, ChargeCovered, generated' = generated, IsFiniteSet(Inserted'),
         Inserted \ Owed \subseteq Inserted' \ Owed'
  PROVE  ChargeCovered'
  <1>1. IsFiniteSet(Inserted' \ Owed')
    BY FS_Subset
  <1>2. IsFiniteSet(Inserted \ Owed) /\ Cardinality(Inserted \ Owed) <= Cardinality(Inserted' \ Owed')
    BY <1>1, FS_Subset
  <1>3. Cardinality(Inserted \ Owed) \in Nat /\ Cardinality(Inserted' \ Owed') \in Nat
    BY <1>1, <1>2, FS_CardinalityType
  <1>4. ASSUME NEW m \in Nat, NEW n \in Nat, m <= n, generated <= OutputSize * m
        PROVE  generated' <= OutputSize * n
    <2>1. OutputSize * m <= OutputSize * n
      BY <1>4, SizesAreNat, TimesMonotone
    <2>2. generated \in Nat /\ OutputSize * m \in Nat /\ OutputSize * n \in Nat
      BY SizesAreNat DEF TypeInv, TypeOK
    <2> QED BY <1>4, <2>1, <2>2
  <1> QED BY <1>2, <1>3, <1>4 DEF ChargeCovered

LEMMA NothingCreditedKeeps ==
  ASSUME TypeInv, OwedInserted, OwedApart, ChargeCovered, NothingCredited
  PROVE  OwedInserted' /\ OwedApart' /\ ChargeCovered'
  <1>1. \A s \in Slots : Owing(s)' => Owing(s) /\ KeyOf(s)' = KeyOf(s)
    BY DEF NothingCredited, KeyOf
  <1>2. \A s \in Slots : Owing(s) => KeyOf(s) \in OutputKeys
    BY KeyOfType DEF Owing, TypeInv, WorkHasKey
  <1>3. OwedInserted'
    BY <1>1, <1>2 DEF OwedInserted, NothingCredited
  <1>4. OwedApart'
    BY <1>1 DEF OwedApart
  <1>5. Inserted' = Inserted
    BY DEF NothingCredited, Inserted, OutputKeys
  <1>6. Owed' \subseteq Owed
    <2> SUFFICES ASSUME NEW k \in OutputKeys, NEW s \in Slots, Owing(s)', KeyOf(s)' = k
                 PROVE  k \in Owed
      BY DEF Owed, OutputKeys
    <2> QED BY <1>1 DEF Owed
  <1>7. generated' = generated
    BY DEF NothingCredited
  <1> QED BY <1>3, <1>4, <1>5, <1>6, <1>7, CoverGrows DEF ChargeCovered

\* What a web request may become when nothing is deleted.
LEMMA RequestsWithoutDeletion ==
  ASSUME NoDeletions, TypeInv, NothingDeleted, NEW h \in Handlers, HandlerStep(h) \/ UserStep(h)
  PROVE  \A g \in Handlers : request'[g].step \notin Deletes
  <1>t. request \in [Handlers -> Request]
    BY DEF TypeInv, TypeOK
  <1>0. request[h].step \notin Deletes
    BY DEF NothingDeleted
  <1>1. ASSUME NEW r, Become(h, r), r.step \notin Deletes
        PROVE  \A g \in Handlers : request'[g].step \notin Deletes
    BY <1>1, <1>t DEF Become, NothingDeleted
  <1>2. ASSUME NEW st, Step(h, st), st \notin Deletes
        PROVE  \A g \in Handlers : request'[g].step \notin Deletes
    BY <1>2, <1>t DEF Step, NothingDeleted, Request
  <1>3. ASSUME Done(h) PROVE \A g \in Handlers : request'[g].step \notin Deletes
    BY <1>1, <1>3 DEF Done, NoRequest, Deletes
  <1>4. ASSUME NEW i \in Images, NEW v \in Variants, NEW k \in Keys \cup {None},
               CheckCreate(h, i, v, k)
        PROVE  \A g \in Handlers : request'[g].step \notin Deletes
    <2>1. PICK new : Become(h, [NoRequest EXCEPT !.step = "create_reserve", !.row = new])
      BY <1>4 DEF CheckCreate
    <2>2. [NoRequest EXCEPT !.step = "create_reserve", !.row = new].step = "create_reserve"
      BY DEF NoRequest
    <2> QED BY <2>1, <2>2, <1>1 DEF Deletes
  <1>5. ASSUME NEW j \in Jobs, CheckCancel(h, j) \/ CheckRetry(h, j)
        PROVE  \A g \in Handlers : request'[g].step \notin Deletes
    <2>1. PICK st \in {"cancel_write", "retry_write"} :
            Become(h, [NoRequest EXCEPT !.step = st, !.job = j])
      BY <1>5 DEF CheckCancel, CheckRetry
    <2>2. [NoRequest EXCEPT !.step = st, !.job = j].step = st
      BY DEF NoRequest
    <2> QED BY <2>1, <2>2, <1>1 DEF Deletes
  <1>6. ASSUME NEW i \in Images, BeginReplacement(h, i)
        PROVE  \A g \in Handlers : request'[g].step \notin Deletes
    <2>1. ForImage(i, "replace_jobs").step = "replace_jobs"
      BY DEF ForImage, NoRequest
    <2> QED BY <2>1, <1>1, <1>6 DEF BeginReplacement, Deletes
  <1>7. ASSUME HandlerStep(h) PROVE \A g \in Handlers : request'[g].step \notin Deletes
    <2>1. CASE ListDerivatives(h) \/ PendDerivative(h) \/ DeleteDerivative(h) \/ RecordDeletion(h)
               \/ UnchargeDerivative(h) \/ StaleDeletedJobs(h)
      BY <2>1, <1>0 DEF ListDerivatives, PendDerivative, DeleteDerivative, RecordDeletion,
         UnchargeDerivative, StaleDeletedJobs, At, Deletes
    <2>2. CASE ReserveForCreate(h) \/ WriteCancelled(h) \/ WriteRetried(h) \/ StaleReplacedJobs(h)
      <3>1. Done(h) \/ \E st \in {"create_insert", "cancel_release", "retry_reserve",
                                 "replace_derivatives"} : Step(h, st)
        BY <2>2 DEF ReserveForCreate, WriteCancelled, WriteRetried, StaleReplacedJobs
      <3> QED BY <3>1, <1>2, <1>3 DEF Deletes
    <2>3. CASE InsertJob(h) \/ InsertJobFails(h) \/ ReleaseCancelled(h) \/ ReserveRetried(h)
               \/ DeletionInvalidated(h) \/ StaleReplacedDerivatives(h) \/ HandlerDies(h)
      <3>1. Done(h)
        BY <2>3 DEF InsertJob, InsertJobFails, ReleaseCancelled, ReserveRetried,
           DeletionInvalidated, StaleReplacedDerivatives, HandlerDies
      <3> QED BY <3>1, <1>3
    <2> QED BY <1>7, <2>1, <2>2, <2>3 DEF HandlerStep
  <1>8. ASSUME NEW i \in Images, AcquireDeletion(h, i) PROVE FALSE
    BY <1>8 DEF AcquireDeletion, NoDeletions
  <1> QED BY <1>4, <1>5, <1>6, <1>7, <1>8 DEF UserStep

\* The handlers charge and insert nothing, and give nothing back.
LEMMA HandlerCreditsNothing ==
  ASSUME NoDeletions, TypeInv, NothingDeleted, NEW h \in Handlers, HandlerStep(h) \/ UserStep(h)
  PROVE  NothingCredited /\ NothingDeleted' /\ UNCHANGED <<previous, pc>>
  <1>t. derivative \in [OutputKeys -> DerivativeStatus]
    BY DEF TypeInv, TypeOK
  <1>0. request[h].step \notin Deletes
    BY DEF NothingDeleted
  <1>1. ~ListDerivatives(h) /\ ~PendDerivative(h) /\ ~DeleteDerivative(h) /\ ~RecordDeletion(h)
        /\ ~UnchargeDerivative(h) /\ ~StaleDeletedJobs(h) /\ ~(\E i \in Images : AcquireDeletion(h, i))
    BY <1>0 DEF ListDerivatives, PendDerivative, DeleteDerivative, RecordDeletion, NoDeletions,
       UnchargeDerivative, StaleDeletedJobs, AcquireDeletion, At, Deletes
  <1>2. /\ UNCHANGED <<generated, pc, keyAttempt, previous>>
        /\ \A k \in OutputKeys :
             derivative'[k] = derivative[k] \/ (derivative[k] = "active" /\ derivative'[k] = "stale")
    BY <1>1, <1>t DEF HandlerStep, UserStep, CheckCreate, ReserveForCreate, InsertJob,
       InsertJobFails, CheckCancel, WriteCancelled, ReleaseCancelled, CheckRetry, WriteRetried,
       ReserveRetried, DeletionInvalidated, BeginReplacement,
       StaleReplacedJobs, StaleReplacedDerivatives, HandlerDies, OnlyRequest, KeepsJobs,
       StatusOnly, fileVars, quotaVars, queueVars, execVars
  <1>3. NothingCredited
    BY <1>2 DEF NothingCredited, Owing
  <1>4. \A k \in OutputKeys : derivative'[k] # "deleted"
    BY <1>2 DEF NothingDeleted
  <1>5. \A g \in Handlers : request'[g].step \notin Deletes
    BY RequestsWithoutDeletion
  <1> QED BY <1>2, <1>3, <1>4, <1>5 DEF NothingDeleted, OutputKeys

\* Every step of an execution but the insert and the credit.
LEMMA ExecutionCreditsNothing ==
  ASSUME TypeInv, NothingDeleted, PreviousInserted, NEW s \in Slots, ExecuteProcessingJob(s),
         ~InsertDerivative(s), ~CreditOutput(s)
  PROVE  NothingCredited /\ NothingDeleted' /\ PreviousInserted'
  <1>t. /\ derivative \in [OutputKeys -> DerivativeStatus]
        /\ previous \in [Slots -> OutputKeys \cup {None}]
        /\ pc \in [Slots -> ExecStep] /\ keyAttempt \in [Slots -> 0 .. MaxAttempts]
    BY DEF TypeInv, TypeOK, QueueTypeOK
  <1>1. UNCHANGED <<generated, request>>
    BY DEF ExecuteProcessingJob, BeginExecution, CheckImage, TransformSource,
       TransformFails, PutOutput, PutFails, VerifyOutput, FindPrevious, RetirePrevious,
       CompleteJob, RecordUsage, ThrowWithOutput, ThrowOut, CleanupOutput, CleanupFails,
       RecordCleanupFailed, ReportOutput, DropOutput, ReleaseReservation, FailJob, sagaVars,
       quotaVars
  <1>2. \A k \in OutputKeys :
          \/ derivative'[k] = derivative[k]
          \/ derivative[k] # "none" /\ derivative'[k] = "stale"
    <2>1. CASE RetirePrevious(s)
      BY <1>t, <2>1 DEF RetirePrevious, PreviousInserted
    <2>2. CASE ~RetirePrevious(s)
      BY <2>2 DEF ExecuteProcessingJob, BeginExecution, CheckImage, TransformSource,
         TransformFails, PutOutput, PutFails, VerifyOutput, FindPrevious,
         CompleteJob, RecordUsage, ThrowWithOutput, ThrowOut, CleanupOutput, CleanupFails,
         RecordCleanupFailed, ReportOutput, DropOutput, ReleaseReservation, FailJob, sagaVars,
         fileVars
    <2> QED BY <2>1, <2>2
  <1>3. \A r \in Slots : Owing(r)' => Owing(r) /\ keyAttempt'[r] = keyAttempt[r]
    BY <1>t DEF ExecuteProcessingJob, BeginExecution, CheckImage, TransformSource,
       TransformFails, PutOutput, PutFails, VerifyOutput, FindPrevious, RetirePrevious,
       CompleteJob, RecordUsage, ThrowWithOutput, ThrowOut, AbandonExecution, CleanupOutput,
       CleanupFails, RecordCleanupFailed, ReportOutput, DropOutput, ReleaseReservation, FailJob,
       Goto, Owing
  <1>4. \A r \in Slots : pc'[r] = "demote" =>
          previous'[r] \in OutputKeys /\ derivative[previous'[r]] # "none"
    <2>1. CASE FindPrevious(s)
      BY <1>t, <2>1 DEF FindPrevious, ActiveFor, PreviousInserted, Goto
    <2>2. CASE ~FindPrevious(s)
      <3>1. \A r \in Slots : pc'[r] = "demote" => pc[r] = "demote" /\ previous'[r] = previous[r]
        BY <1>t, <2>2 DEF ExecuteProcessingJob, BeginExecution, CheckImage, TransformSource,
           TransformFails, PutOutput, PutFails, VerifyOutput, RetirePrevious,
           CompleteJob, RecordUsage, ThrowWithOutput, ThrowOut, CleanupOutput, CleanupFails,
           RecordCleanupFailed, ReportOutput, DropOutput, ReleaseReservation, FailJob, sagaVars,
           AbandonExecution, Goto
      <3> QED BY <3>1 DEF PreviousInserted
    <2> QED BY <2>1, <2>2
  <1>5. PreviousInserted'
    BY <1>2, <1>4 DEF PreviousInserted
  <1>6. NothingDeleted'
    BY <1>1, <1>2 DEF NothingDeleted, OutputKeys
  <1> QED BY <1>1, <1>2, <1>3, <1>5, <1>6 DEF NothingCredited

LEMMA QueueCreditsNothing ==
  ASSUME TypeInv, NothingDeleted, PreviousInserted, QueueNext, OnQueue
  PROVE  NothingCredited /\ NothingDeleted' /\ PreviousInserted'
  <1>t. /\ pc \in [Slots -> ExecStep] /\ keyAttempt \in [Slots -> 0 .. MaxAttempts]
        /\ previous \in [Slots -> OutputKeys \cup {None}]
    BY DEF TypeInv, TypeOK, QueueTypeOK
  <1>1. UNCHANGED <<generated, derivative, request>>
        /\ \A s \in Slots : pc'[s] # "idle" => previous'[s] = previous[s]
    BY DEF OnQueue, fileVars, quotaVars
  <1>2. ASSUME NEW s \in Slots
        PROVE  (pc'[s] = pc[s] /\ keyAttempt'[s] = keyAttempt[s]) \/ pc'[s] \in {"idle", "claimed"}
    BY ZenonT(60), <1>t DEF QueueNext, SelectExpiredLeases, RequeueExpiredLeases, ClaimQueuedJobs, ClaimIsLost,
       Claim, LoopFails,
       WorkerCrashes, ShutdownWorker, ReleaseInFlightLeases, WorkerExits, WorkerRestarts,
       HeartbeatLeasedJob, LeaseLapses, FinishExecution, Gone, execVars
  <1>3. NothingCredited
    BY <1>1, <1>2 DEF NothingCredited, Owing
  <1>4. PreviousInserted'
    BY <1>1, <1>2 DEF PreviousInserted, OutputKeys
  <1> QED BY <1>1, <1>3, <1>4 DEF NothingDeleted

LEMMA InsertKeepsCharge ==
  ASSUME TypeInv, ChargeInv, NEW s \in Slots, InsertDerivative(s)
  PROVE  ChargeInv'
  <1> USE DEF ChargeInv
  <1> DEFINE k == KeyOf(s)
  <1>t. derivative \in [OutputKeys -> DerivativeStatus] /\ pc \in [Slots -> ExecStep]
    BY DEF TypeInv, TypeOK, QueueTypeOK
  <1>1. k \in OutputKeys /\ pc[s] = "insert"
    BY KeyOfType DEF InsertDerivative, TypeInv, WorkHasKey
  <1>2. UNCHANGED <<keyAttempt, generated, request, previous>>
    BY DEF InsertDerivative, quotaVars
  <1>3. NothingDeleted' /\ PreviousInserted'
    <2>1. \A l \in OutputKeys : derivative'[l] = derivative[l] \/ derivative'[l] = "active"
      BY <1>t DEF InsertDerivative
    <2>2. \A r \in Slots : pc'[r] = "demote" => pc[r] = "demote"
      BY <1>t DEF InsertDerivative, Goto
    <2> QED BY <1>2, <2>1, <2>2 DEF NothingDeleted, PreviousInserted, OutputKeys
  <1>4. CASE derivative[k] # "none"
    <2>1. UNCHANGED derivative /\ Goto(s, "cleanup")
      BY <1>4 DEF InsertDerivative
    <2>2. NothingCredited
      BY <1>2, <1>t, <2>1 DEF NothingCredited, Owing, Goto
    <2> QED BY <1>3, <2>2, NothingCreditedKeeps
  <1>5. CASE derivative[k] = "none"
    <2>1. derivative' = [derivative EXCEPT ![k] = "active"] /\ Goto(s, "complete")
      BY <1>5 DEF InsertDerivative
    <2>2. \A r \in Slots : Owing(r)' <=> Owing(r) \/ r = s
      BY <1>1, <1>t, <2>1 DEF Owing, Goto
    <2>3. \A r \in Slots : KeyOf(r)' = KeyOf(r)
      BY <1>2 DEF KeyOf
    <2>4. \A r \in Slots : Owing(r) => KeyOf(r) \in OutputKeys /\ KeyOf(r) # k
      BY <1>5, KeyOfType DEF OwedInserted, Owing, TypeInv, WorkHasKey
    <2>5. \A l \in OutputKeys : derivative'[l] = IF l = k THEN "active" ELSE derivative[l]
      BY <1>t, <2>1
    <2>6. OwedInserted'
      BY <1>1, <2>2, <2>3, <2>4, <2>5 DEF OwedInserted
    <2>7. OwedApart'
      BY <2>2, <2>3, <2>4 DEF OwedApart
    <2>8. Inserted' = Inserted \cup {k}
      BY <1>1, <2>5 DEF Inserted, OutputKeys
    <2>9. Owed' = Owed \cup {k}
      BY <1>1, <2>2, <2>3 DEF Owed, OutputKeys
    <2>10. IsFiniteSet(Inserted')
      BY <2>8, FS_AddElement DEF ChargeCovered
    <2>11. Inserted \ Owed \subseteq Inserted' \ Owed'
      BY <1>5, <2>8, <2>9 DEF Inserted
    <2> QED BY <1>2, <1>3, <2>6, <2>7, <2>10, <2>11, CoverGrows
  <1> QED BY <1>4, <1>5

\* The credit: the key of the execution is owed by no other.
LEMMA CreditKeepsCharge ==
  ASSUME TypeInv, ChargeInv, NEW s \in Slots, CreditOutput(s)
  PROVE  ChargeInv'
  <1> USE DEF ChargeInv
  <1> DEFINE k == KeyOf(s)
  <1>t. pc \in [Slots -> ExecStep]
    BY DEF TypeInv, TypeOK, QueueTypeOK
  <1>1. /\ pc[s] = "credit" /\ Goto(s, "usage")
        /\ UNCHANGED <<keyAttempt, derivative, request, previous>>
    BY DEF CreditOutput, fileVars
  <1>2. k \in OutputKeys /\ k \in Inserted /\ Owing(s)
    BY <1>1, KeyOfType DEF TypeInv, WorkHasKey, OwedInserted, Owing, Inserted
  <1>3. \A r \in Slots : Owing(r)' <=> Owing(r) /\ r # s
    BY <1>1, <1>t DEF Owing, Goto
  <1>4. \A r \in Slots : KeyOf(r)' = KeyOf(r)
    BY <1>1 DEF KeyOf
  <1>5. NothingDeleted' /\ PreviousInserted'
    BY <1>1, <1>t DEF NothingDeleted, PreviousInserted, Goto, OutputKeys
  <1>6. OwedInserted' /\ OwedApart'
    BY <1>1, <1>3, <1>4 DEF OwedInserted, OwedApart
  <1>7. Inserted' = Inserted
    BY <1>1 DEF Inserted, OutputKeys
  <1>8. Owed' = Owed \ {k}
    BY <1>2, <1>3, <1>4 DEF Owed, OwedApart, OutputKeys
  <1>9. k \in Owed
    BY <1>2 DEF Owed
  <1>10. CASE UNCHANGED generated
    BY <1>5, <1>6, <1>7, <1>8, <1>10, CoverGrows DEF ChargeCovered
  <1>11. CASE generated' = generated + OutputSize
    <2> DEFINE S == Inserted \ Owed
    <2>1. Inserted' \ Owed' = S \cup {k} /\ k \notin S
      BY <1>2, <1>7, <1>8, <1>9
    <2>2. IsFiniteSet(S)
      BY FS_Subset DEF ChargeCovered
    <2>3. Cardinality(S \cup {k}) = Cardinality(S) + 1 /\ Cardinality(S) \in Nat
      BY <2>1, <2>2, FS_AddElement, FS_CardinalityType
    <2>4. ASSUME NEW m \in Nat, generated <= OutputSize * m
          PROVE  generated' <= OutputSize * (m + 1)
      <3>1. OutputSize * (m + 1) = OutputSize * m + OutputSize /\ OutputSize * m \in Nat
        BY SizesAreNat
      <3> QED BY <1>11, <2>4, <3>1, SizesAreNat DEF TypeInv, TypeOK
    <2> HIDE DEF S
    <2>5. generated' <= OutputSize * (Cardinality(S) + 1)
      BY <2>3, <2>4 DEF ChargeCovered, S
    <2>6. ChargeCovered'
      BY <1>7, <2>1, <2>3, <2>5 DEF ChargeCovered
    <2> QED BY <1>5, <1>6, <2>6
  <1>12. UNCHANGED generated \/ generated' = generated + OutputSize
    BY DEF CreditOutput, quotaVars
  <1> QED BY <1>10, <1>11, <1>12

LEMMA ChargeInit == Init => ChargeInv
  <1> SUFFICES ASSUME Init PROVE ChargeInv
    OBVIOUS
  <1>1. Inserted = {}
    BY DEF Init, Inserted
  <1>2. IsFiniteSet(Inserted \ Owed) /\ Cardinality(Inserted \ Owed) = 0 /\ IsFiniteSet(Inserted)
    BY <1>1, FS_EmptySet
  <1>3. ChargeCovered
    BY <1>2, SizesAreNat DEF Init, ChargeCovered
  <1> QED BY <1>3 DEF Init, QueueInit, ChargeInv, NothingDeleted, PreviousInserted, OwedInserted,
             OwedApart, Owing, NoRequest, Deletes

LEMMA ChargeStep ==
  NoDeletions /\ TypeInv /\ ChargeInv /\ [Next]_vars => ChargeInv'
  <1> SUFFICES ASSUME NoDeletions, TypeInv, ChargeInv, [Next]_vars PROVE ChargeInv'
    OBVIOUS
  <1>1. ASSUME NothingCredited, NothingDeleted', PreviousInserted' PROVE ChargeInv'
    BY <1>1, NothingCreditedKeeps DEF ChargeInv
  <1>2. CASE QueueNext /\ OnQueue
    BY <1>1, <1>2, QueueCreditsNothing DEF ChargeInv
  <1>3. ASSUME NEW s \in Slots, ExecuteProcessingJob(s) PROVE ChargeInv'
    BY <1>1, <1>3, ExecutionCreditsNothing, InsertKeepsCharge, CreditKeepsCharge DEF ChargeInv
  <1>4. ASSUME NEW h \in Handlers, HandlerStep(h) \/ UserStep(h) PROVE ChargeInv'
    <2>1. NothingCredited /\ NothingDeleted' /\ UNCHANGED <<previous, pc>>
      BY <1>4, HandlerCreditsNothing DEF ChargeInv
    <2>2. PreviousInserted'
      BY <2>1 DEF ChargeInv, PreviousInserted, NothingCredited, OutputKeys
    <2> QED BY <1>1, <2>1, <2>2
  <1>5. ASSUME UNCHANGED <<generated, derivative, request, previous, pc, keyAttempt>>
        PROVE  ChargeInv'
    BY <1>1, <1>5 DEF NothingCredited, Owing, ChargeInv, NothingDeleted, PreviousInserted, OutputKeys
  <1>6. ASSUME NEW i \in Images, EndReplacement(i) PROVE ChargeInv'
    BY <1>5, <1>6 DEF EndReplacement, KeepsJobs, fileVars, quotaVars, queueVars, execVars
  <1>7. CASE UNCHANGED vars
    BY <1>5, <1>7 DEF vars, sagaVars, fileVars, quotaVars, queueVars, execVars
  <1> QED BY <1>2, <1>3, <1>4, <1>6, <1>7 DEF Next

\* executeProcessingJob credits each output once: as long as no image is
\* deleted, the project is never charged for more than the derivatives it has,
\* whatever crashes, stalls, fails, is retried or replaced.
THEOREM NeverOverchargedHolds == NoDeletions /\ Spec => []NeverOvercharged
  <1>1. TypeInv /\ ChargeInv => NeverOvercharged
    <2> SUFFICES ASSUME TypeInv, ChargeInv PROVE NeverOvercharged
      OBVIOUS
    <2>1. {k \in OutputKeys : derivative[k] \notin {"none", "deleted"}} = Inserted
      BY DEF ChargeInv, NothingDeleted, Inserted
    <2>2. /\ IsFiniteSet(Inserted) /\ IsFiniteSet(Inserted \ Owed)
          /\ Cardinality(Inserted \ Owed) <= Cardinality(Inserted)
      BY FS_Subset DEF ChargeInv, ChargeCovered
    <2>3. Cardinality(Inserted \ Owed) \in Nat /\ Cardinality(Inserted) \in Nat
      BY <2>2, FS_CardinalityType
    <2>4. ASSUME NEW m \in Nat, NEW n \in Nat, m <= n, generated <= OutputSize * m
          PROVE  generated <= OutputSize * n
      <3>1. OutputSize * m <= OutputSize * n
        BY <2>4, SizesAreNat, TimesMonotone
      <3>2. generated \in Nat /\ OutputSize * m \in Nat /\ OutputSize * n \in Nat
        BY SizesAreNat DEF TypeInv, TypeOK
      <3> QED BY <2>4, <3>1, <3>2
    <2>5. generated <= OutputSize * Cardinality(Inserted \ Owed)
      BY DEF ChargeInv, ChargeCovered
    <2>6. generated <= OutputSize * Cardinality(Inserted)
      BY <2>2, <2>3, <2>4, <2>5
    <2> QED BY <2>1, <2>6 DEF NeverOvercharged
  <1>2. NoDeletions /\ Spec => []ChargeInv
    <2> SUFFICES ASSUME NoDeletions PROVE Spec => []ChargeInv
      OBVIOUS
    <2>1. TypeInv /\ ChargeInv /\ [Next]_vars => ChargeInv'
      BY ChargeStep
    <2> QED BY TypeInit, TypeStep, ChargeInit, <2>1, PTL DEF Spec
  <1>3. NoDeletions /\ Spec => []TypeInv
    BY TypeInit, TypeStep, PTL DEF Spec
  <1> QED BY <1>1, <1>2, <1>3, PTL

-----------------------------------------------------------------------------
(* The objects in R2 *)

\* Without the loss of a worker's memory and without failures of R2: a crash
\* between the PUT and the insert, a release at the drain deadline, or a
\* deletion that fails leave an object that only the reconciliation finds.
NoLosses == Events \cap {"crash", "shutdown", "storage"} = {}

AllRunning == \A w \in Workers : mode[w] = "running"

\* An execution between its PUT and its insert or its cleanup.
Holding(s) == pc[s] \in {"report", "verify", "retire", "demote", "insert", "cleanup", "drop"}

ObjectsHeld ==
  \A k \in objects : derivative[k] # "none" \/ \E s \in Slots : Holding(s) /\ KeyOf(s) = k

HoldInv == AllRunning /\ ObjectsHeld

\* A holder keeps its key, or it has deleted its object or inserted its row.
LEMMA HoldersKeep ==
  ASSUME TypeInv, ObjectsHeld, objects' \subseteq objects,
         \A k \in OutputKeys : derivative[k] # "none" => derivative'[k] # "none",
         \A s \in Slots : Holding(s) =>
           \/ Holding(s)' /\ keyAttempt'[s] = keyAttempt[s]
           \/ KeyOf(s) \notin objects'
           \/ derivative'[KeyOf(s)] # "none"
  PROVE  ObjectsHeld'
  <1> SUFFICES ASSUME NEW k \in objects', derivative'[k] = "none"
               PROVE  \E s \in Slots : Holding(s)' /\ KeyOf(s)' = k
    BY DEF ObjectsHeld
  <1>1. k \in objects /\ k \in OutputKeys
    BY DEF TypeInv, TypeOK
  <1>2. PICK s \in Slots : Holding(s) /\ KeyOf(s) = k
    BY <1>1 DEF ObjectsHeld
  <1>3. Holding(s)' /\ keyAttempt'[s] = keyAttempt[s]
    BY <1>2
  <1>4. KeyOf(s)' = k
    BY <1>2, <1>3 DEF KeyOf
  <1> QED BY <1>3, <1>4

LEMMA ExecutionKeepsHeld ==
  ASSUME NoLosses, TypeInv, HoldInv, NEW s \in Slots, ExecuteProcessingJob(s)
  PROVE  HoldInv'
  <1> USE DEF HoldInv
  <1>t. /\ derivative \in [OutputKeys -> DerivativeStatus] /\ objects \subseteq OutputKeys
        /\ pc \in [Slots -> ExecStep] /\ keyAttempt \in [Slots -> 0 .. MaxAttempts]
        /\ previous \in [Slots -> OutputKeys \cup {None}]
    BY DEF TypeInv, TypeOK, QueueTypeOK
  <1>0. UNCHANGED mode
    BY DEF ExecuteProcessingJob, BeginExecution, CheckImage, TransformSource,
       TransformFails, PutOutput, PutFails, VerifyOutput, FindPrevious, RetirePrevious,
       InsertDerivative, CreditOutput, AbandonExecution,
       CompleteJob, RecordUsage, ThrowWithOutput, ThrowOut, CleanupOutput, CleanupFails,
       RecordCleanupFailed, ReportOutput, DropOutput, ReleaseReservation, FailJob, workerVars
  <1>1. AllRunning'
    BY <1>0 DEF AllRunning
  <1>2. ~PutFails(s) /\ ~CleanupFails(s)
    BY DEF NoLosses, PutFails, CleanupFails
  <1>3. ASSUME NEW step \in ExecStep, Goto(s, step), UNCHANGED keyAttempt
        PROVE  /\ \A r \in Slots : KeyOf(r)' = KeyOf(r)
               /\ \A r \in Slots : r # s => (Holding(r)' <=> Holding(r))
               /\ pc'[s] = step
    BY <1>3, <1>t DEF Goto, KeyOf, Holding
  <1>4. CASE PutOutput(s)
    <2>1. /\ objects' = objects \cup {KeyOf(s)} /\ UNCHANGED <<derivative, keyAttempt>>
          /\ Goto(s, "report") /\ ~Holding(s)
      BY <1>4 DEF PutOutput, Holding
    <2>2. Holding(s)' /\ \A r \in Slots : KeyOf(r)' = KeyOf(r) /\ (Holding(r) => Holding(r)')
      BY <1>3, <2>1 DEF Holding, ExecStep
    <2> QED BY <1>1, <2>1, <2>2 DEF ObjectsHeld
  <1>5. CASE InsertDerivative(s)
    <2>1. KeyOf(s) \in OutputKeys
      BY <1>5, KeyOfType DEF InsertDerivative, TypeInv, WorkHasKey
    <2>2. /\ UNCHANGED <<objects, keyAttempt>>
          /\ \/ Goto(s, "complete") /\ derivative' = [derivative EXCEPT ![KeyOf(s)] = "active"]
             \/ Goto(s, "cleanup") /\ UNCHANGED derivative
      BY <1>5 DEF InsertDerivative
    <2>3. /\ \A r \in Slots : r # s => (Holding(r)' <=> Holding(r))
          /\ Holding(s)' \/ derivative'[KeyOf(s)] # "none"
          /\ \A k \in OutputKeys : derivative[k] # "none" => derivative'[k] # "none"
      BY <1>3, <2>1, <2>2, <1>t DEF Holding, ExecStep
    <2> QED BY <1>1, <2>2, <2>3, HoldersKeep
  <1>6. CASE CleanupOutput(s) \/ DropOutput(s)
    <2>1. /\ objects' = objects \ {KeyOf(s)} /\ UNCHANGED <<derivative, keyAttempt>>
          /\ Goto(s, "unreserve") \/ Goto(s, "outdated")
      BY <1>6 DEF CleanupOutput, DropOutput, NoLosses
    <2>2. \A r \in Slots : r # s => (Holding(r)' <=> Holding(r))
      BY <1>3, <2>1 DEF ExecStep
    <2> QED BY <1>1, <2>1, <2>2, HoldersKeep
  <1>7. CASE ~PutOutput(s) /\ ~InsertDerivative(s) /\ ~CleanupOutput(s) /\ ~DropOutput(s)
    <2>1. UNCHANGED objects
      BY <1>2, <1>7 DEF ExecuteProcessingJob, BeginExecution, CheckImage, TransformSource,
       TransformFails, VerifyOutput, FindPrevious, RetirePrevious, CreditOutput,
       CompleteJob, RecordUsage, ThrowWithOutput, ThrowOut,
       RecordCleanupFailed, ReportOutput, ReleaseReservation, FailJob, sagaVars, fileVars
    <2>2. \A k \in OutputKeys : derivative'[k] = derivative[k] \/ derivative'[k] = "stale"
      BY <1>2, <1>7, <1>t DEF ExecuteProcessingJob, BeginExecution, CheckImage, TransformSource,
       TransformFails, VerifyOutput, FindPrevious, RetirePrevious, CreditOutput,
       CompleteJob, RecordUsage, ThrowWithOutput, ThrowOut,
       RecordCleanupFailed, ReportOutput, ReleaseReservation, FailJob, sagaVars, fileVars
    <2>3. \A r \in Slots : Holding(r) => Holding(r)' /\ keyAttempt'[r] = keyAttempt[r]
      BY <1>2, <1>7, <1>t DEF ExecuteProcessingJob, BeginExecution, CheckImage, TransformSource,
       TransformFails, VerifyOutput, FindPrevious, RetirePrevious, CreditOutput,
       CompleteJob, RecordUsage, ThrowWithOutput, ThrowOut, AbandonExecution,
       RecordCleanupFailed, ReportOutput, ReleaseReservation, FailJob, Goto, Holding
    <2> QED BY <1>1, <2>1, <2>2, <2>3, HoldersKeep
  <1> QED BY <1>4, <1>5, <1>6, <1>7

\* No process goes away: only an execution that is done is forgotten.
LEMMA QueueKeepsHeld ==
  ASSUME NoLosses, TypeInv, ClaimInv, HoldInv, QueueNext, OnQueue
  PROVE  HoldInv'
  <1> USE DEF HoldInv
  <1>t. /\ pc \in [Slots -> ExecStep] /\ keyAttempt \in [Slots -> 0 .. MaxAttempts]
        /\ mode \in [Workers -> WorkerMode] /\ attempts \in [Jobs -> 0 .. MaxAttempts]
    BY DEF TypeInv, TypeOK, QueueTypeOK
  <1>1. ASSUME NEW w \in Workers
        PROVE  /\ ~WorkerCrashes(w) /\ ~ShutdownWorker(w) /\ ~ReleaseInFlightLeases(w)
               /\ ~WorkerExits(w) /\ ~WorkerRestarts(w)
    BY DEF NoLosses, AllRunning, WorkerCrashes, ShutdownWorker, ReleaseInFlightLeases, WorkerExits,
       WorkerRestarts
  <1>2. AllRunning'
    BY <1>1 DEF QueueNext, AllRunning, SelectExpiredLeases, RequeueExpiredLeases, ClaimQueuedJobs,
       ClaimIsLost, Claim, LoopFails, HeartbeatLeasedJob, LeaseLapses, FinishExecution, workerVars
  <1>3. ASSUME NEW w \in Workers, ClaimQueuedJobs(w)
        PROVE  \A s \in Slots : Holding(s) => pc'[s] = pc[s] /\ keyAttempt'[s] = keyAttempt[s]
    <2>1. PICK claimed \in SUBSET Claimable :
            /\ pc' = [s \in Slots |->
                        IF s[1] = w /\ s[2] \in claimed /\ s[3] = attempts[s[2]] + 1
                        THEN "claimed" ELSE pc[s]]
            /\ UNCHANGED keyAttempt
      BY <1>3 DEF ClaimQueuedJobs, Claim
    <2>2. ASSUME NEW s \in Slots, Holding(s) PROVE s[3] # attempts[s[2]] + 1
      <3>1. s[3] <= attempts[s[2]]
        BY <2>2, SlotFields DEF ClaimInv, ClaimsCounted, Serving, Live, InService, AllRunning, Holding
      <3>2. s[3] \in Nat /\ attempts[s[2]] \in Nat
        BY <1>t, SlotFields, QueueAssumption DEF QueueAssumption
      <3> QED BY <3>1, <3>2
    <2> QED BY <2>1, <2>2
  <1>4. ASSUME NEW s \in Slots, Holding(s)
        PROVE  pc'[s] = pc[s] /\ keyAttempt'[s] = keyAttempt[s]
    <2>1. CASE \E w \in Workers : ClaimQueuedJobs(w)
      BY <1>3, <1>4, <2>1
    <2>2. CASE \E r \in Slots : FinishExecution(r)
      BY <1>4, <1>t, <2>2 DEF FinishExecution, Holding
    <2>3. CASE UNCHANGED <<pc, keyAttempt>>
      BY <2>3
    <2> QED BY <1>1, <2>1, <2>2, <2>3 DEF QueueNext, SelectExpiredLeases, RequeueExpiredLeases,
       ClaimIsLost, Claim, LoopFails, HeartbeatLeasedJob, LeaseLapses, execVars
  <1>5. UNCHANGED <<objects, derivative>>
    BY DEF OnQueue, fileVars
  <1>6. \A s \in Slots : Holding(s) => Holding(s)' /\ keyAttempt'[s] = keyAttempt[s]
    BY <1>4 DEF Holding
  <1> QED BY <1>2, <1>5, <1>6, HoldersKeep

\* The handlers delete objects only of derivatives, and remove no row.
LEMMA HandlerKeepsHeld ==
  ASSUME TypeInv, HoldInv, NEW h \in Handlers, HandlerStep(h) \/ UserStep(h)
  PROVE  HoldInv'
  <1> USE DEF HoldInv
  <1>t. derivative \in [OutputKeys -> DerivativeStatus]
    BY DEF TypeInv, TypeOK
  <1>1. UNCHANGED <<mode, pc, keyAttempt>> /\ objects' \subseteq objects
    BY DEF HandlerStep, UserStep, CheckCreate, ReserveForCreate, InsertJob, AcquireDeletion,
       InsertJobFails, CheckCancel, WriteCancelled, ReleaseCancelled, CheckRetry, WriteRetried,
       ReserveRetried, StaleDeletedJobs, ListDerivatives, PendDerivative, DeleteDerivative,
       RecordDeletion, UnchargeDerivative, DeletionInvalidated, BeginReplacement,
       StaleReplacedJobs, StaleReplacedDerivatives, HandlerDies, OnlyRequest, KeepsJobs,
       StatusOnly, fileVars, queueVars, workerVars, execVars
  <1>2. \A k \in OutputKeys :
          derivative'[k] = derivative[k]
            \/ derivative'[k] \in {"stale", "cleanup_pending", "cleanup_failed", "deleted"}
    BY <1>t DEF HandlerStep, UserStep, CheckCreate, ReserveForCreate, InsertJob, AcquireDeletion,
       InsertJobFails, CheckCancel, WriteCancelled, ReleaseCancelled, CheckRetry, WriteRetried,
       ReserveRetried, StaleDeletedJobs, ListDerivatives, PendDerivative, DeleteDerivative,
       RecordDeletion, UnchargeDerivative, DeletionInvalidated, BeginReplacement,
       StaleReplacedJobs, StaleReplacedDerivatives, HandlerDies, OnlyRequest, KeepsJobs,
       StatusOnly, fileVars
  <1>3. AllRunning'
    BY <1>1 DEF AllRunning
  <1>4. \A s \in Slots : Holding(s) => Holding(s)' /\ keyAttempt'[s] = keyAttempt[s]
    BY <1>1 DEF Holding
  <1> QED BY <1>1, <1>2, <1>3, <1>4, HoldersKeep

LEMMA HoldStep ==
  NoLosses /\ TypeInv /\ ClaimInv /\ HoldInv /\ [Next]_vars => HoldInv'
  <1> SUFFICES ASSUME NoLosses, TypeInv, ClaimInv, HoldInv, [Next]_vars PROVE HoldInv'
    OBVIOUS
  <1>1. ASSUME UNCHANGED <<mode, objects, derivative, pc, keyAttempt>> PROVE HoldInv'
    BY <1>1, HoldersKeep DEF HoldInv, AllRunning, Holding
  <1>2. ASSUME NEW i \in Images, EndReplacement(i) PROVE HoldInv'
    BY <1>1, <1>2 DEF EndReplacement, KeepsJobs, fileVars, queueVars, workerVars, execVars
  <1>3. CASE UNCHANGED vars
    BY <1>1, <1>3 DEF vars, sagaVars, fileVars, queueVars, workerVars, execVars
  <1> QED BY <1>2, <1>3, QueueKeepsHeld, ExecutionKeepsHeld, HandlerKeepsHeld DEF Next

\* Every object is named by a derivative or held by an execution, whatever
\* stalls, is replaced, cancelled, retried or deleted, and whichever statement
\* of PostgreSQL fails, as long as no worker dies and R2 answers.
THEOREM ObjectsOwnedHolds == NoLosses /\ Spec => []ObjectsOwned
  <1> SUFFICES ASSUME NoLosses PROVE Spec => []ObjectsOwned
    OBVIOUS
  <1>1. TypeInv /\ HoldInv => ObjectsOwned
    BY DEF HoldInv, ObjectsHeld, ObjectsOwned, Holding, Begun, Live, TypeInv, WorkHasKey
  <1>2. Init => HoldInv
    BY DEF Init, QueueInit, HoldInv, AllRunning, ObjectsHeld
  <1>3. TypeInv /\ ClaimInv /\ HoldInv /\ [Next]_vars => HoldInv'
    BY HoldStep
  <1> QED BY <1>1, <1>2, <1>3, ClaimInvHolds, PTL DEF Spec

-----------------------------------------------------------------------------
(* One execution at work *)

\* What keeps a job to one execution at work.  Two workers may both select an
\* expired row, and the second requeues it by id when the first already runs
\* it again; two handlers may do the same with a retry.  A stalled worker, a
\* cancellation or a replacement lets the lease of a running execution lapse;
\* a failing statement sends an execution past its insert to the cleanup.
OneWorker  == \A v, w \in Workers : v = w
OneHandler == \A g, h \in Handlers : g = h
Calm ==
  /\ OneWorker
  /\ Events \cap {"stall", "db", "cancel", "replace"} = {}
  /\ "retry" \in Events => OneHandler

Deleted(j)  == image[ImageOf(j)].status = "deleted"
Working(s)  == pc[s] \notin {"idle", "clear"}
Credited(s) == pc[s] \in {"credit", "usage"}
\* Past the second look at the image.
Verified(s) == pc[s] \in {"retire", "demote", "insert", "complete", "credit", "usage"}

\* Only executions that will find the image deleted may be at work on the job.
Free(j) == \A s \in Slots : s[2] = j => ~Verified(s) /\ (Working(s) => Deleted(j))

Unreplaced == \A i \in Images : ~image[i].replacing

Existing ==
  /\ \A j \in Jobs : status[j] # "absent" => ImageOf(j) \in Images
  /\ \A s \in Slots : Working(s) => status[s[2]] # "absent"

\* What a request has read and still relies on.
Fits(h) ==
  /\ request[h].step \notin {"replace_jobs", "replace_derivatives", "cancel_write",
                             "cancel_release"}
  /\ request[h].step \in {"create_reserve", "create_insert"} => request[h].row.image \in Images
  /\ request[h].step = "delete_jobs" =>
       /\ request[h].row.image \in Images
       /\ image[request[h].row.image].status = "deleted"
  /\ request[h].step = "retry_write" =>
       /\ "retry" \in Events /\ request[h].job \in Jobs
       /\ status[request[h].job] \notin {"absent", "completed"}
       /\ Free(request[h].job)
       /\ ~Deleted(request[h].job) => status[request[h].job] \in {"failed", "cleanup_failed"}
RequestsFit == \A h \in Handlers : Fits(h)

\* The same of the rows that the worker is about to requeue.
SelectedFit ==
  \A w \in Workers, j \in Jobs : j \in selected[w] /\ InService(w) =>
    /\ loop[w] = "requeue"
    /\ status[j] \notin {"absent", "completed"}
    /\ Free(j)
    /\ ~Deleted(j) => status[j] \in RunningStatus

Sole ==
  \A s, t \in Slots :
    Working(s) /\ Working(t) /\ s[2] = t[2] /\ (Verified(s) \/ ~Deleted(s[2])) => s = t

\* The row of an execution at work shows it, unless the image is deleted or
\* the worker has given the row back and is about to exit.
Shown(s) == status[s[2]] \in RunningStatus \/ (status[s[2]] = "queued" /\ ~InService(s[1]))
Leased ==
  \A s \in Slots : Working(s) /\ ~Credited(s) =>
    /\ ~Deleted(s[2]) => Shown(s)
    /\ Verified(s) => Shown(s) \/ status[s[2]] = "stale"
    /\ (Verified(s) \/ ~Deleted(s[2])) /\ status[s[2]] \in RunningStatus => ~lapsed[s[2]]

Finished == \A s \in Slots : Working(s) => (Credited(s) <=> status[s[2]] = "completed")

CalmInv == Unreplaced /\ Existing /\ RequestsFit /\ SelectedFit /\ Sole /\ Leased /\ Finished

\* A row that waits to be claimed has no lease.
QueuedUnleased ==
  \A j \in Jobs : status[j] \in {"absent", "queued"} => owner[j] = None /\ ~lapsed[j]

LEMMA QueuedUnleasedStep ==
  TypeInv /\ QueuedUnleased /\ [Next]_vars => QueuedUnleased'
  <1> SUFFICES ASSUME TypeInv, QueuedUnleased, [Next]_vars PROVE QueuedUnleased'
    OBVIOUS
  <1>t. /\ status \in [Jobs -> JobStatus] /\ lapsed \in [Jobs -> BOOLEAN]
        /\ owner \in [Jobs -> Workers \cup {None}]
    BY DEF TypeInv, TypeOK, QueueTypeOK
  <1>1. CASE QueueNext
    <2>1. CASE \E w \in Workers : RequeueExpiredLeases(w) \/ ReleaseInFlightLeases(w)
      BY ZenonT(60), <2>1 DEF RequeueExpiredLeases, ReleaseInFlightLeases, Requeued, QueuedUnleased
    <2>2. CASE \E w \in Workers : ClaimQueuedJobs(w) \/ ClaimIsLost(w)
      <3>1. PICK w \in Workers, claimed \in SUBSET Claimable : Claim(w, claimed)
        BY <2>2 DEF ClaimQueuedJobs, ClaimIsLost
      <3> QED BY <3>1 DEF Claim, QueuedUnleased
    <2>3. CASE \E w \in Workers, j \in Jobs : HeartbeatLeasedJob(w, j)
      BY <1>t, <2>3 DEF HeartbeatLeasedJob, QueuedUnleased
    <2>4. CASE \E j \in Jobs : LeaseLapses(j)
      BY <1>t, <2>4 DEF LeaseLapses, QueuedUnleased
    <2>5. CASE \E s \in Slots : FinishExecution(s)
      BY <1>t, <2>5, SlotFields DEF FinishExecution, QueuedUnleased
    <2>6. CASE UNCHANGED leaseVars
      BY <2>6 DEF leaseVars, QueuedUnleased
    <2> QED BY <1>1, <2>1, <2>2, <2>3, <2>4, <2>5, <2>6 DEF QueueNext, SelectExpiredLeases,
       LoopFails, WorkerCrashes, ShutdownWorker, WorkerExits, WorkerRestarts
  <1>2. ASSUME NEW s \in Slots, ExecuteProcessingJob(s) PROVE QueuedUnleased'
    <2>1. /\ UNCHANGED <<owner, lapsed>>
          /\ \A j \in Jobs : status'[j] = status[j] \/ status'[j] \notin {"absent", "queued"}
      BY <1>t, <1>2 DEF ExecuteProcessingJob, BeginExecution, CheckImage, TransformSource,
         TransformFails, PutOutput, PutFails, ReportOutput, VerifyOutput, FindPrevious,
         RetirePrevious, InsertDerivative, CompleteJob, CreditOutput, RecordUsage,
         ThrowWithOutput, ThrowOut, AbandonExecution, CleanupOutput, CleanupFails,
         RecordCleanupFailed, DropOutput, ReleaseReservation, FailJob, WriteStatus, leaseVars
    <2> QED BY <2>1 DEF QueuedUnleased
  <1>3. ASSUME NEW h \in Handlers, HandlerStep(h) \/ UserStep(h) PROVE QueuedUnleased'
    <2>1. CASE InsertJob(h)
      <3>1. PICK j \in FreshIds : WriteStatus(j, "queued")
        BY <2>1 DEF InsertJob
      <3> QED BY <1>t, <3>1 DEF WriteStatus, FreshIds, QueuedUnleased
    <2>2. CASE WriteRetried(h)
      BY <2>2 DEF WriteRetried, Requeued, QueuedUnleased
    <2>3. CASE ~InsertJob(h) /\ ~WriteRetried(h)
      <3>1. /\ UNCHANGED <<owner, lapsed>>
            /\ \A j \in Jobs : status'[j] = status[j] \/ status'[j] \notin {"absent", "queued"}
        BY <1>t, <1>3, <2>3 DEF HandlerStep, UserStep, CheckCreate, ReserveForCreate,
           InsertJobFails, CheckCancel, WriteCancelled, ReleaseCancelled, CheckRetry,
           ReserveRetried, AcquireDeletion, StaleDeletedJobs, ListDerivatives, PendDerivative,
           DeleteDerivative, RecordDeletion, UnchargeDerivative, DeletionInvalidated,
           BeginReplacement, StaleReplacedJobs, StaleReplacedDerivatives, HandlerDies,
           OnlyRequest, KeepsJobs, MarkActiveJobsStale, WriteStatus, queueVars, leaseVars
      <3> QED BY <3>1 DEF QueuedUnleased
    <2> QED BY <2>1, <2>2, <2>3
  <1>4. CASE (\E i \in Images : EndReplacement(i)) \/ UNCHANGED vars
    BY <1>4 DEF EndReplacement, KeepsJobs, vars, queueVars, leaseVars, QueuedUnleased
  <1> QED BY <1>1, <1>2, <1>3, <1>4 DEF Next

LEMMA IdleRowIsFree ==
  ASSUME CalmInv, NEW j \in Jobs,
         \/ status[j] \in {"failed", "cleanup_failed"}
         \/ status[j] = "queued" /\ \A w \in Workers : InService(w)
         \/ status[j] \in RunningStatus /\ lapsed[j]
  PROVE  Free(j)
  BY SlotFields DEF CalmInv, Free, Leased, Shown, Finished, RunningStatus, Working, Verified,
     Credited

\* An execution moves on, and the row keeps its status.
LEMMA MoveKeepsCalm ==
  ASSUME TypeInv, CalmInv, NEW s \in Slots, NEW step \in ExecStep \ {"idle"}, Goto(s, step),
         Working(s),
         UNCHANGED <<status, owner, lapsed, mode, loop, selected, image, row, request>>,
         Verified(s)' => Verified(s) \/ ~Deleted(s[2]),
         step # "clear" => (Credited(s)' <=> Credited(s))
  PROVE  CalmInv'
  <1> USE DEF CalmInv
  <1>1. /\ \A t \in Slots : Working(t)' => Working(t)
        /\ \A t \in Slots : t # s => (Verified(t)' <=> Verified(t)) /\ (Credited(t)' <=> Credited(t))
        /\ Working(s)' <=> step # "clear"
    BY DEF TypeInv, TypeOK, QueueTypeOK, Goto, Working, Verified, Credited
  <1>2. \A j \in Jobs : Deleted(j)' <=> Deleted(j)
    BY DEF Deleted, ImageOf
  <1>3. \A j \in Jobs : Free(j) => Free(j)'
    BY <1>1, <1>2 DEF Free
  <1>4. Unreplaced' /\ Existing'
    BY <1>1 DEF Unreplaced, Existing, ImageOf
  <1>5. RequestsFit' /\ SelectedFit'
    BY <1>2, <1>3 DEF RequestsFit, Fits, SelectedFit, InService
  <1>6. Sole'
    BY <1>1, <1>2, SlotFields DEF Sole
  <1>7. Leased' /\ Finished'
    BY <1>1, <1>2, SlotFields DEF Leased, Shown, InService, Finished, Credited, Verified
  <1> QED BY <1>4, <1>5, <1>6, <1>7

\* An execution that is not past the second look writes its row.
LEMMA WriteKeepsCalm ==
  ASSUME TypeInv, QueuedUnleased, CalmInv, NEW s \in Slots,
         NEW step \in ExecStep \ {"idle"}, Goto(s, step),
         NEW st \in JobStatus \ {"absent", "completed"}, WriteStatus(s[2], st), Working(s),
         UNCHANGED <<mode, loop, selected, image, row, request>>,
         ~Verified(s), ~Verified(s)', step # "clear" => st \in RunningStatus
  PROVE  CalmInv'
  <1> USE DEF CalmInv
  <1>1. /\ \A t \in Slots : Working(t)' => Working(t)
        /\ \A t \in Slots : (Verified(t)' <=> Verified(t)) /\ (Credited(t)' <=> Credited(t))
        /\ Working(s)' <=> step # "clear"
    BY DEF TypeInv, TypeOK, QueueTypeOK, Goto, Working, Verified, Credited
  <1>2. \A j \in Jobs : Deleted(j)' <=> Deleted(j)
    BY DEF Deleted, ImageOf
  <1>3. \A j \in Jobs : Free(j) => Free(j)'
    BY <1>1, <1>2 DEF Free
  <1>s. /\ \A j \in Jobs : status'[j] = IF j = s[2] THEN st ELSE status[j]
        /\ UNCHANGED <<owner, lapsed>>
    BY SlotFields DEF WriteStatus, TypeInv, TypeOK, QueueTypeOK
  <1>f. Free(s[2]) => Deleted(s[2])
    BY DEF Free
  <1>o. \A t \in Slots : Working(t) /\ t[2] = s[2] /\ t # s => Deleted(s[2]) /\ ~Verified(t)
    BY DEF Sole
  <1>4. Unreplaced' /\ Existing'
    BY <1>1, <1>s, SlotFields DEF Unreplaced, Existing, ImageOf
  <1>5. SelectedFit'
    BY <1>2, <1>3, <1>s, <1>f DEF SelectedFit, InService
  <1>6. RequestsFit'
    BY <1>2, <1>3, <1>s, <1>f DEF RequestsFit, Fits
  <1>7. Sole'
    BY <1>1, <1>2, SlotFields DEF Sole
  <1>8. Leased'
    <2> SUFFICES ASSUME NEW t \in Slots, Working(t)', ~Credited(t)'
                 PROVE  /\ ~Deleted(t[2])' => Shown(t)'
                        /\ Verified(t)' => Shown(t)' \/ status'[t[2]] = "stale"
                        /\ (Verified(t)' \/ ~Deleted(t[2])') /\ status'[t[2]] \in RunningStatus
                             => ~lapsed'[t[2]]
      BY DEF Leased
    <2>1. CASE t = s
      BY <1>1, <1>2, <1>s, <2>1, SlotFields DEF Leased, Shown, QueuedUnleased
    <2>2. CASE t # s /\ t[2] = s[2]
      BY <1>1, <1>2, <1>o, <2>2, SlotFields
    <2>3. CASE t[2] # s[2]
      BY <1>1, <1>2, <1>s, <2>3, SlotFields DEF Leased, Shown, InService
    <2> QED BY <2>1, <2>2, <2>3
  <1>9. Finished'
    BY <1>1, <1>s, <1>o, SlotFields DEF Finished, Verified, Credited
  <1> QED BY <1>4, <1>5, <1>6, <1>7, <1>8, <1>9

\* The job of an execution past its insert is completed.
LEMMA CompleteKeepsCalm ==
  ASSUME TypeInv, CalmInv, NEW s \in Slots, CompleteJob(s)
  PROVE  CalmInv'
  <1> USE DEF CalmInv
  <1>0. /\ pc[s] = "complete" /\ Goto(s, "credit") /\ WriteStatus(s[2], "completed")
        /\ UNCHANGED <<mode, loop, selected, image, row, request>>
    BY DEF CompleteJob, workerVars
  <1>1. /\ \A t \in Slots : Working(t)' <=> Working(t)
        /\ \A t \in Slots : Verified(t)' <=> Verified(t)
        /\ \A t \in Slots : t # s => (Credited(t)' <=> Credited(t))
        /\ Working(s) /\ Verified(s) /\ Credited(s)'
    BY <1>0 DEF TypeInv, TypeOK, QueueTypeOK, Goto, Working, Verified, Credited
  <1>2. \A j \in Jobs : Deleted(j)' <=> Deleted(j)
    BY <1>0 DEF Deleted, ImageOf
  <1>3. \A j \in Jobs : Free(j) => Free(j)' /\ j # s[2]
    BY <1>1, <1>2 DEF Free
  <1>s. /\ \A j \in Jobs : status'[j] = IF j = s[2] THEN "completed" ELSE status[j]
        /\ UNCHANGED <<owner, lapsed>>
    BY <1>0, SlotFields DEF WriteStatus, TypeInv, TypeOK, QueueTypeOK
  <1>o. \A t \in Slots : Working(t) /\ t[2] = s[2] => t = s
    BY <1>1 DEF Sole
  <1>4. Unreplaced' /\ Existing'
    BY <1>0, <1>1, <1>s, SlotFields DEF Unreplaced, Existing, ImageOf
  <1>5. SelectedFit'
    BY <1>0, <1>2, <1>3, <1>s DEF SelectedFit, InService
  <1>6. RequestsFit'
    BY <1>0, <1>2, <1>3, <1>s DEF RequestsFit, Fits
  <1>7. Sole'
    BY <1>1, <1>2, SlotFields DEF Sole
  <1>8. Leased'
    BY <1>0, <1>1, <1>2, <1>s, <1>o, SlotFields DEF Leased, Shown, InService
  <1>9. Finished'
    BY <1>1, <1>s, <1>o, SlotFields DEF Finished
  <1> QED BY <1>4, <1>5, <1>6, <1>7, <1>8, <1>9

LEMMA ExecutionKeepsCalm ==
  ASSUME Calm, TypeInv, QueuedUnleased, CalmInv, NEW s \in Slots, ExecuteProcessingJob(s)
  PROVE  CalmInv'
  <1>t. pc \in [Slots -> ExecStep]
    BY DEF TypeInv, TypeOK, QueueTypeOK
  <1>0. ~ThrowOut(s)
    BY DEF Calm, ThrowOut
  \* The steps that write the row.
  <1>1. CASE TransformSource(s)
    BY <1>1, WriteKeepsCalm DEF TransformSource, Goto, TypeInv, TypeOK, QueueTypeOK, Working,
       Verified, workerVars, sagaVars, jobVars, ExecStep, JobStatus, ActiveStatus, RunningStatus
  <1>2. CASE ReportOutput(s)
    BY <1>2, WriteKeepsCalm DEF ReportOutput, Goto, TypeInv, TypeOK, QueueTypeOK, Working,
       Verified, workerVars, sagaVars, jobVars, ExecStep, JobStatus, ActiveStatus, RunningStatus
  <1>3. CASE RecordCleanupFailed(s)
    BY <1>3, WriteKeepsCalm DEF RecordCleanupFailed, Goto, TypeInv, TypeOK, QueueTypeOK, Working,
       Verified, workerVars, ExecStep, JobStatus
  <1>4. CASE FailJob(s)
    <2>1. PICK st \in {"failed", "stale"} : WriteStatus(s[2], st)
      BY <1>4 DEF FailJob
    <2>2. /\ pc[s] \in {"fail", "stale", "outdated"} /\ Goto(s, "clear")
          /\ UNCHANGED <<mode, loop, selected, image, row, request>>
      BY <1>4 DEF FailJob, workerVars, sagaVars, jobVars
    <2>3. Working(s) /\ ~Verified(s) /\ ~Verified(s)'
      BY <1>t, <2>2 DEF Goto, Working, Verified
    <2> QED BY <2>1, <2>2, <2>3, WriteKeepsCalm DEF ExecStep, JobStatus
  \* The steps that leave it alone.
  <1>5. CASE ~TransformSource(s) /\ ~ReportOutput(s) /\ ~RecordCleanupFailed(s) /\ ~FailJob(s)
             /\ ~CompleteJob(s)
    <2>1. UNCHANGED <<status, owner, lapsed, mode, loop, selected, image, row, request>>
      BY <1>0, <1>5 DEF ExecuteProcessingJob, BeginExecution, CheckImage,
       TransformFails, PutOutput, PutFails, VerifyOutput, FindPrevious, RetirePrevious,
       InsertDerivative, CreditOutput, RecordUsage, ThrowWithOutput, CleanupOutput, CleanupFails,
       DropOutput, ReleaseReservation, sagaVars, jobVars, leaseVars, workerVars
    <2>2. CASE VerifyOutput(s)
      <3>1. PICK step \in {"cleanup", "drop", "retire"} :
              Goto(s, step) /\ (step = "retire" => ~Deleted(s[2])) /\ pc[s] = "verify"
        BY <2>2 DEF VerifyOutput, Deleted
      <3>2. /\ Working(s) /\ ~Credited(s) /\ ~Credited(s)'
            /\ Verified(s)' => ~Deleted(s[2])
        BY <1>t, <3>1 DEF Goto, Working, Verified, Credited
      <3> QED BY <2>1, <3>1, <3>2, MoveKeepsCalm DEF ExecStep
    <2>3. CASE CreditOutput(s) \/ RecordUsage(s)
      <3>1. PICK step \in {"usage", "clear"} : Goto(s, step) /\ pc[s] \in {"credit", "usage"}
        BY <2>3 DEF CreditOutput, RecordUsage
      <3>2. Working(s) /\ Verified(s) /\ Credited(s) /\ (step # "clear" => Credited(s)')
        BY <1>t, <3>1 DEF Goto, Working, Verified, Credited
      <3> QED BY <2>1, <3>1, <3>2, MoveKeepsCalm DEF ExecStep
    <2>4. CASE FindPrevious(s) \/ RetirePrevious(s) \/ InsertDerivative(s)
      <3>1. PICK step \in {"insert", "demote", "complete", "cleanup"} :
              Goto(s, step) /\ pc[s] \in {"retire", "demote", "insert"}
        BY <2>4 DEF FindPrevious, RetirePrevious, InsertDerivative
      <3>2. Working(s) /\ Verified(s) /\ ~Credited(s) /\ ~Credited(s)'
        BY <1>t, <3>1 DEF Goto, Working, Verified, Credited
      <3> QED BY <2>1, <3>1, <3>2, MoveKeepsCalm DEF ExecStep
    <2>5. CASE ~VerifyOutput(s) /\ ~CreditOutput(s) /\ ~RecordUsage(s) /\ ~FindPrevious(s)
               /\ ~RetirePrevious(s) /\ ~InsertDerivative(s)
      <3>1. PICK step \in {"check", "clear", "unreserve", "unreserve_stale", "work", "report",
                           "cleanup", "unclean", "outdated", "fail", "stale"} :
              /\ Goto(s, step)
              /\ pc[s] \in {"claimed", "check", "work", "put", "verify", "cleanup", "drop",
                            "unreserve", "unreserve_stale"}
        BY <1>0, <1>5, <2>5 DEF ExecuteProcessingJob, BeginExecution, CheckImage,
           TransformFails, PutOutput, PutFails, ThrowWithOutput, CleanupOutput, CleanupFails,
           DropOutput, ReleaseReservation, Calm
      <3>2. Working(s) /\ ~Credited(s) /\ ~Credited(s)' /\ ~Verified(s)'
        BY <1>t, <3>1 DEF Goto, Working, Verified, Credited
      <3> QED BY <2>1, <3>1, <3>2, MoveKeepsCalm DEF ExecStep
    <2> QED BY <2>2, <2>3, <2>4, <2>5
  <1> QED BY <1>1, <1>2, <1>3, <1>4, <1>5, CompleteKeepsCalm

\* A step of the queue that starts no execution, writes no status and selects nothing.
LEMMA QuietQueueKeepsCalm ==
  ASSUME TypeInv, CalmInv, UNCHANGED <<status, image, row, request>>,
         \A s \in Slots : pc'[s] = pc[s] \/ pc'[s] = "idle",
         \A w \in Workers, j \in Jobs :
           j \in selected'[w] /\ InService(w)' =>
             j \in selected[w] /\ InService(w) /\ loop'[w] = loop[w],
         \A s \in Slots : Working(s)' /\ InService(s[1])' => InService(s[1]),
         \A s \in Slots : Working(s)' /\ lapsed'[s[2]] /\ status[s[2]] \in RunningStatus
                            => lapsed[s[2]]
  PROVE  CalmInv'
  <1> USE DEF CalmInv
  <1>1. /\ \A t \in Slots : Working(t)' => Working(t) /\ (Credited(t)' <=> Credited(t))
        /\ \A t \in Slots : Verified(t)' => Verified(t)
    BY DEF Working, Verified, Credited
  <1>2. \A j \in Jobs : Deleted(j)' <=> Deleted(j)
    BY DEF Deleted, ImageOf
  <1>3. \A j \in Jobs : Free(j) => Free(j)'
    BY <1>1, <1>2 DEF Free
  <1>4. Unreplaced' /\ Existing'
    BY <1>1 DEF Unreplaced, Existing, ImageOf
  <1>5. RequestsFit' /\ SelectedFit'
    BY <1>2, <1>3 DEF RequestsFit, Fits, SelectedFit
  <1>6. Sole'
    BY <1>1, <1>2, SlotFields DEF Sole
  <1>7. Leased' /\ Finished'
    BY <1>1, <1>2, SlotFields DEF Leased, Shown, Finished
  <1> QED BY <1>4, <1>5, <1>6, <1>7

LEMMA RequeueKeepsCalm ==
  ASSUME Calm, TypeInv, CalmInv, OnQueue, NEW w \in Workers, RequeueExpiredLeases(w)
  PROVE  CalmInv'
  <1> USE DEF CalmInv
  <1>0. /\ \A v \in Workers : v = w
        /\ UNCHANGED <<pc, mode, image, row, request>>
        /\ selected'[w] = {} /\ InService(w)
    BY DEF Calm, OneWorker, RequeueExpiredLeases, OnQueue, execVars, jobVars, TypeInv, TypeOK,
       QueueTypeOK, InService
  <1>s. /\ \A j \in Jobs : status'[j] = IF j \in selected[w] THEN "queued" ELSE status[j]
        /\ \A j \in Jobs : lapsed'[j] = IF j \in selected[w] THEN FALSE ELSE lapsed[j]
    BY DEF RequeueExpiredLeases, Requeued
  <1>1. \A t \in Slots : /\ Working(t)' <=> Working(t)
                         /\ Verified(t)' <=> Verified(t)
                         /\ Credited(t)' <=> Credited(t)
    BY <1>0 DEF Working, Verified, Credited
  <1>2. \A j \in Jobs : (Deleted(j)' <=> Deleted(j)) /\ (Free(j) <=> Free(j)')
    BY <1>0, <1>1 DEF Deleted, ImageOf, Free
  <1>f. \A t \in Slots : t[2] \in selected[w] =>
          ~Verified(t) /\ ~Credited(t) /\ (Working(t) => Deleted(t[2]))
    BY <1>0, SlotFields DEF SelectedFit, Free, Verified, Credited
  <1>3. Unreplaced' /\ SelectedFit'
    BY <1>0 DEF Unreplaced, SelectedFit
  <1>4. Existing'
    BY <1>0, <1>1, <1>s, SlotFields DEF Existing, ImageOf, SelectedFit
  <1>5. RequestsFit'
    <2>1. \A j \in Jobs : status'[j] \in {status[j], "queued"}
                            /\ (~Deleted(j) /\ status'[j] # status[j] => status[j] \in RunningStatus)
      BY <1>0, <1>s DEF SelectedFit
    <2> QED BY <1>0, <1>2, <2>1 DEF RequestsFit, Fits, RunningStatus
  <1>6. Sole'
    BY <1>1, <1>2, SlotFields DEF Sole
  <1>7. Leased' /\ Finished'
    BY <1>0, <1>1, <1>2, <1>s, <1>f, SlotFields DEF Leased, Shown, InService, Finished
  <1> QED BY <1>3, <1>4, <1>5, <1>6, <1>7

\* A claim starts an execution of a job that has none, or of a deleted image.
LEMMA ClaimKeepsCalm ==
  ASSUME Calm, TypeInv, ClaimInv, CalmInv, OnQueue, NEW w \in Workers, ClaimQueuedJobs(w)
  PROVE  CalmInv'
  <1> USE DEF CalmInv
  <1>t. attempts \in [Jobs -> 0 .. MaxAttempts] /\ pc \in [Slots -> ExecStep]
    BY DEF TypeInv, TypeOK, QueueTypeOK
  <1>0. /\ \A v \in Workers : v = w
        /\ UNCHANGED <<mode, selected, image, row, request>>
        /\ InService(w)
    BY DEF Calm, OneWorker, ClaimQueuedJobs, Claim, OnQueue, jobVars, InService
  <1> DEFINE New(s, claimed) == s[1] = w /\ s[2] \in claimed /\ s[3] = attempts[s[2]] + 1
  <1>d. PICK claimed \in SUBSET Claimable :
          /\ Claim(w, claimed)
          /\ pc' = [s \in Slots |->
                      IF s[1] = w /\ s[2] \in claimed /\ s[3] = attempts[s[2]] + 1
                      THEN "claimed" ELSE pc[s]]
    BY DEF ClaimQueuedJobs
  <1>c. /\ loop[w] = "claim"
        /\ \A j \in Jobs : status'[j] = IF j \in claimed THEN "processing" ELSE status[j]
        /\ \A j \in Jobs : lapsed'[j] = IF j \in claimed THEN FALSE ELSE lapsed[j]
        /\ \A s \in Slots : pc'[s] = IF New(s, claimed) THEN "claimed" ELSE pc[s]
    BY <1>d DEF Claim
  <1>q. \A j \in claimed : status[j] = "queued" /\ Free(j) /\ j \in Jobs
    BY <1>0, IdleRowIsFree DEF Claimable
  <1>n. \A s \in Slots : New(s, claimed) => pc[s] = "idle"
    <2> SUFFICES ASSUME NEW s \in Slots, New(s, claimed), pc[s] # "idle" PROVE FALSE
      OBVIOUS
    <2>1. s[3] <= attempts[s[2]]
      BY <1>0, SlotFields DEF ClaimInv, ClaimsCounted, Serving, Live
    <2>2. s[3] \in Nat /\ attempts[s[2]] \in Nat
      BY <1>t, SlotFields, QueueAssumption DEF QueueAssumption
    <2> QED BY <2>1, <2>2
  <1>u. \A s, t \in Slots : New(s, claimed) /\ New(t, claimed) /\ s[2] = t[2] => s = t
    BY SlotsApart
  <1> HIDE DEF New
  <1>w. \A s \in Slots : New(s, claimed) => s[2] \in claimed
    BY DEF New
  <1>1. \A t \in Slots : /\ Working(t)' <=> Working(t) \/ New(t, claimed)
                         /\ Verified(t)' <=> Verified(t)
                         /\ Credited(t)' <=> Credited(t)
    BY <1>c, <1>n DEF Working, Verified, Credited
  <1>2. \A j \in Jobs : (Deleted(j)' <=> Deleted(j))
    BY <1>0 DEF Deleted, ImageOf
  <1>f. \A j \in Jobs : Free(j) /\ (j \in claimed => Deleted(j)) => Free(j)'
    BY <1>1, <1>2, <1>w DEF Free
  <1>p. \A t \in Slots : t[2] \in claimed => ~Verified(t) /\ ~Credited(t) /\ (Working(t) => Deleted(t[2]))
    BY <1>q DEF Free, Verified, Credited
  <1>3. Unreplaced' /\ SelectedFit'
    BY <1>0, <1>c DEF Unreplaced, SelectedFit
  <1>4. Existing'
    BY <1>0, <1>1, <1>c, <1>q, <1>w, SlotFields DEF Existing, ImageOf
  <1>5. RequestsFit'
    <2>1. \A j \in Jobs : /\ status'[j] \in {status[j], "processing"}
                          /\ status'[j] # status[j] => status[j] = "queued" /\ j \in claimed
                          /\ j \in claimed => status[j] = "queued"
      BY <1>c, <1>q
    <2>2. ASSUME NEW h \in Handlers PROVE Fits(h)'
      <3>1. Fits(h)
        BY DEF RequestsFit
      <3> QED BY <1>0, <1>2, <1>f, <2>1, <3>1 DEF Fits
    <2> QED BY <2>2 DEF RequestsFit
  <1>6. Sole'
    BY <1>1, <1>2, <1>p, <1>u, <1>w, SlotFields DEF Sole
  <1>7. Leased' /\ Finished'
    BY <1>0, <1>1, <1>2, <1>c, <1>p, <1>w, SlotFields
       DEF Leased, Shown, InService, Finished, RunningStatus
  <1> QED BY <1>3, <1>4, <1>5, <1>6, <1>7

\* Jobs in flight are given back while their executions run on.
LEMMA ReleaseKeepsCalm ==
  ASSUME Calm, TypeInv, CalmInv, OnQueue, NEW w \in Workers, ReleaseInFlightLeases(w)
  PROVE  CalmInv'
  <1> USE DEF CalmInv
  <1>0. /\ \A v \in Workers : v = w
        /\ UNCHANGED <<pc, image, row, request>>
        /\ InService(w) /\ ~InService(w)'
    BY DEF Calm, OneWorker, ReleaseInFlightLeases, OnQueue, execVars, jobVars, TypeInv, TypeOK,
       QueueTypeOK, InService
  <1>s. \A j \in Jobs : \/ status'[j] = status[j] /\ lapsed'[j] = lapsed[j]
                        \/ status[j] \in RunningStatus /\ status'[j] = "queued"
    BY DEF ReleaseInFlightLeases, Requeued
  <1>1. \A t \in Slots : /\ Working(t)' <=> Working(t)
                         /\ Verified(t)' <=> Verified(t)
                         /\ Credited(t)' <=> Credited(t)
    BY <1>0 DEF Working, Verified, Credited
  <1>2. \A j \in Jobs : (Deleted(j)' <=> Deleted(j)) /\ (Free(j) <=> Free(j)')
    BY <1>0, <1>1 DEF Deleted, ImageOf, Free
  <1>3. Unreplaced' /\ SelectedFit' /\ Sole'
    BY <1>0, <1>1, <1>2, SlotFields DEF Unreplaced, SelectedFit, Sole
  <1>4. Existing'
    BY <1>0, <1>1, <1>s, SlotFields DEF Existing, ImageOf, RunningStatus
  <1>5. RequestsFit'
    BY <1>0, <1>2, <1>s DEF RequestsFit, Fits, RunningStatus
  <1>6. Leased' /\ Finished'
    BY <1>0, <1>1, <1>2, <1>s, SlotFields DEF Leased, Shown, Finished, RunningStatus
  <1> QED BY <1>3, <1>4, <1>5, <1>6

LEMMA QueueKeepsCalm ==
  ASSUME Calm, TypeInv, ClaimInv, CalmInv, QueueNext, OnQueue
  PROVE  CalmInv'
  <1> USE DEF CalmInv
  <1>t. /\ pc \in [Slots -> ExecStep] /\ mode \in [Workers -> WorkerMode]
        /\ loop \in [Workers -> LoopStep] /\ selected \in [Workers -> SUBSET Jobs]
        /\ owner \in [Jobs -> Workers \cup {None}] /\ lapsed \in [Jobs -> BOOLEAN]
    BY DEF TypeInv, TypeOK, QueueTypeOK
  <1>0. UNCHANGED <<image, row, request>> /\ \A v, w \in Workers : v = w
    BY DEF OnQueue, jobVars, Calm, OneWorker
  <1>x. ASSUME NEW w \in Workers
        PROVE  ~ClaimIsLost(w) /\ ~LoopFails(w)
    BY DEF Calm, ClaimIsLost, LoopFails
  <1>1. ASSUME NEW w \in Workers, SelectExpiredLeases(w) PROVE CalmInv'
    <2>1. /\ UNCHANGED <<status, lapsed, pc, mode>>
          /\ \A j \in selected'[w] : status[j] \in RunningStatus /\ lapsed[j] /\ j \in Jobs
          /\ selected'[w] # {} => loop'[w] = "requeue"
      BY <1>1, <1>t DEF SelectExpiredLeases, leaseVars, execVars
    <2>2. /\ \A t \in Slots : /\ Working(t)' <=> Working(t)
                              /\ Verified(t)' <=> Verified(t)
                              /\ Credited(t)' <=> Credited(t)
          /\ \A j \in Jobs : Deleted(j)' <=> Deleted(j)
      BY <1>0, <2>1 DEF Working, Verified, Credited, Deleted, ImageOf
    <2>3. \A j \in Jobs : Free(j)' <=> Free(j)
      BY <2>2 DEF Free
    <2>4. SelectedFit'
      BY <1>0, <2>1, <2>2, <2>3, IdleRowIsFree DEF SelectedFit, RunningStatus
    <2>5. Unreplaced' /\ Existing' /\ Sole' /\ Leased' /\ Finished'
      BY <1>0, <2>1, <2>2, SlotFields DEF Unreplaced, Existing, ImageOf, Sole, Leased, Shown,
         InService, Finished
    <2>6. RequestsFit'
      BY <1>0, <2>1, <2>2, <2>3 DEF RequestsFit, Fits
    <2> QED BY <2>4, <2>5, <2>6
  <1>2. ASSUME NEW w \in Workers, WorkerCrashes(w) \/ WorkerExits(w) PROVE CalmInv'
    <2>1. /\ UNCHANGED <<status, lapsed>> /\ selected'[w] = {}
          /\ \A s \in Slots : pc'[s] = "idle"
      BY <1>0, <1>2, <1>t, SlotFields DEF WorkerCrashes, WorkerExits, Gone, leaseVars
    <2> QED BY <1>0, <2>1, QuietQueueKeepsCalm DEF Working
  <1>3. ASSUME NEW w \in Workers, WorkerRestarts(w) \/ ShutdownWorker(w) PROVE CalmInv'
    <2>1. UNCHANGED <<status, lapsed, pc, loop, selected>> /\ InService(w)
      BY <1>3 DEF WorkerRestarts, ShutdownWorker, leaseVars, execVars, InService
    <2> QED BY <1>0, <2>1, QuietQueueKeepsCalm, SlotFields DEF Working
  <1>4. ASSUME NEW w \in Workers, NEW j \in Jobs, HeartbeatLeasedJob(w, j) PROVE CalmInv'
    BY <1>0, <1>4, <1>t, QuietQueueKeepsCalm
       DEF HeartbeatLeasedJob, workerVars, execVars, InService, Working
  <1>5. ASSUME NEW j \in Jobs, LeaseLapses(j) PROVE CalmInv'
    <2>1. UNCHANGED <<status, mode, loop, selected, pc>>
          /\ \A k \in Jobs : lapsed'[k] = IF k = j THEN TRUE ELSE lapsed[k]
      BY <1>5, <1>t DEF LeaseLapses, workerVars, execVars
    <2>2. ASSUME NEW s \in Slots, Working(s), s[2] = j, status[j] \in RunningStatus PROVE FALSE
      <3>1. s[1] = owner[j]
        BY <1>0, <1>5, <1>t, SlotFields DEF LeaseLapses
      <3>2. Beats(owner[j], j)
        BY <2>2, <3>1 DEF Beats, Live, Working
      <3> QED BY <1>5, <2>2, <3>2 DEF LeaseLapses, Calm
    <2>3. \A s \in Slots : Working(s)' /\ lapsed'[s[2]] /\ status[s[2]] \in RunningStatus => lapsed[s[2]]
      BY <2>1, <2>2, SlotFields DEF Working
    <2> QED BY <1>0, <2>1, <2>3, QuietQueueKeepsCalm DEF InService, Working
  <1>6. ASSUME NEW s \in Slots, FinishExecution(s) PROVE CalmInv'
    <2>1. /\ UNCHANGED <<status, mode, loop, selected>>
          /\ \A t \in Slots : pc'[t] = pc[t] \/ pc'[t] = "idle"
          /\ \A j \in Jobs : lapsed'[j] => lapsed[j]
      BY <1>6, <1>t DEF FinishExecution
    <2> QED BY <1>0, <2>1, SlotFields, QuietQueueKeepsCalm DEF InService, Working
  <1> QED BY <1>x, <1>1, <1>2, <1>3, <1>4, <1>5, <1>6, RequeueKeepsCalm, ClaimKeepsCalm,
             ReleaseKeepsCalm DEF QueueNext

\* A handler that leaves the rows of the job table alone.
LEMMA RequestKeepsCalm ==
  ASSUME TypeInv, CalmInv, NEW h \in Handlers,
         UNCHANGED <<status, lapsed, pc, mode, loop, selected, row>>,
         \A i \in Images : image'[i].replacing = image[i].replacing
                             /\ (image[i].status = "deleted" => image'[i].status = "deleted"),
         \A g \in Handlers : g # h => request'[g] = request[g],
         request'[h].step \notin {"replace_jobs", "replace_derivatives", "cancel_write",
                                  "cancel_release"},
         request'[h].step \in {"create_reserve", "create_insert"} => request'[h].row.image \in Images,
         request'[h].step = "delete_jobs" =>
           /\ request'[h].row.image \in Images
           /\ image'[request'[h].row.image].status = "deleted",
         request'[h].step = "retry_write" =>
           /\ "retry" \in Events /\ request'[h].job \in Jobs
           /\ status[request'[h].job] \in {"failed", "cleanup_failed"}
  PROVE  CalmInv'
  <1> USE DEF CalmInv
  <1>1. \A t \in Slots : /\ Working(t)' <=> Working(t)
                         /\ Verified(t)' <=> Verified(t)
                         /\ Credited(t)' <=> Credited(t)
    BY DEF Working, Verified, Credited
  <1>2. \A j \in Jobs : status[j] # "absent" /\ Deleted(j) => Deleted(j)'
    BY DEF Deleted, ImageOf, Existing
  <1>3. \A j \in Jobs : status[j] # "absent" /\ Free(j) => Free(j)'
    BY <1>1, <1>2 DEF Free
  <1>4. Unreplaced' /\ Existing' /\ Finished'
    BY <1>1, SlotFields DEF Unreplaced, Existing, ImageOf, Finished
  <1>5. SelectedFit'
    BY <1>2, <1>3 DEF SelectedFit, InService
  <1>6. Sole'
    BY <1>1, <1>2, SlotFields DEF Sole, Existing
  <1>7. Leased'
    BY <1>1, <1>2, SlotFields DEF Leased, Shown, InService, Existing
  <1>8. ASSUME NEW g \in Handlers PROVE Fits(g)'
    <2>1. CASE g # h
      <3>1. Fits(g) /\ request'[g] = request[g]
        BY <2>1 DEF RequestsFit
      <3> QED BY <1>2, <1>3, <3>1 DEF Fits
    <2>2. CASE g = h
      <3>1. \A j \in Jobs : status[j] \in {"failed", "cleanup_failed"} => Free(j)'
        BY <1>3, IdleRowIsFree
      <3> QED BY <2>2, <3>1 DEF Fits
    <2> QED BY <2>1, <2>2
  <1> QED BY <1>4, <1>5, <1>6, <1>7, <1>8 DEF RequestsFit

LEMMA RequestFields ==
  ASSUME TypeInv, NEW h \in Handlers
  PROVE  /\ \A r : Become(h, r) => request'[h] = r /\ \A g \in Handlers : g # h => request'[g] = request[g]
         /\ \A st : Step(h, st) =>
              /\ request'[h].step = st /\ request'[h].row = request[h].row
              /\ request'[h].job = request[h].job /\ request'[h].current = request[h].current
              /\ request'[h].todo = request[h].todo
              /\ \A g \in Handlers : g # h => request'[g] = request[g]
         /\ Done(h) => request'[h].step = "idle" /\ \A g \in Handlers : g # h => request'[g] = request[g]
  BY DEF TypeInv, TypeOK, Request, Become, Step, Done, NoRequest

\* The jobs of a deleted image become stale.
LEMMA StaleKeepsCalm ==
  ASSUME TypeInv, CalmInv, NEW h \in Handlers, StaleDeletedJobs(h)
  PROVE  CalmInv'
  <1> USE DEF CalmInv
  <1> DEFINE i == request[h].row.image
  <1>0. /\ UNCHANGED <<lapsed, pc, mode, loop, selected, row, image>>
        /\ request'[h].step = "delete_list" /\ \A g \in Handlers : g # h => request'[g] = request[g]
    BY RequestFields DEF StaleDeletedJobs, StatusOnly, MarkActiveJobsStale, workerVars, execVars, jobVars
  <1>i. image[i].status = "deleted"
    BY DEF StaleDeletedJobs, At, RequestsFit, Fits
  <1>s. \A j \in Jobs : \/ status'[j] = status[j]
                        \/ Deleted(j) /\ status[j] \in ActiveStatus /\ status'[j] = "stale"
    BY <1>i DEF StaleDeletedJobs, MarkActiveJobsStale, Deleted
  <1>1. /\ \A t \in Slots : /\ Working(t)' <=> Working(t)
                            /\ Verified(t)' <=> Verified(t)
                            /\ Credited(t)' <=> Credited(t)
        /\ \A j \in Jobs : Deleted(j)' <=> Deleted(j)
    BY <1>0 DEF Working, Verified, Credited, Deleted, ImageOf
  <1>2. \A j \in Jobs : Free(j)' <=> Free(j)
    BY <1>1 DEF Free
  <1>3. \A j \in Jobs : /\ (status'[j] = "absent") <=> (status[j] = "absent")
                        /\ (status'[j] = "completed") <=> (status[j] = "completed")
                        /\ status'[j] \in RunningStatus => status[j] \in RunningStatus
    BY <1>s DEF ActiveStatus, RunningStatus
  <1>4. Unreplaced' /\ Existing' /\ Sole' /\ Finished'
    BY <1>0, <1>1, <1>3, SlotFields DEF Unreplaced, Existing, ImageOf, Sole, Finished
  <1>5. SelectedFit'
    BY <1>0, <1>1, <1>2, <1>3, <1>s DEF SelectedFit, InService
  <1>6. Leased'
    BY <1>0, <1>1, <1>3, <1>s, SlotFields DEF Leased, Shown, InService
  <1>7. ASSUME NEW g \in Handlers PROVE Fits(g)'
    BY <1>0, <1>1, <1>2, <1>3, <1>s DEF Fits, RequestsFit
  <1> QED BY <1>4, <1>5, <1>6, <1>7 DEF RequestsFit

LEMMA RetryKeepsCalm ==
  ASSUME Calm, TypeInv, CalmInv, NEW h \in Handlers, WriteRetried(h)
  PROVE  CalmInv'
  <1> USE DEF CalmInv
  <1> DEFINE k == request[h].job
  <1>0. /\ UNCHANGED <<pc, mode, loop, selected, row, image>>
        /\ request'[h].step = "retry_reserve"
    BY RequestFields DEF WriteRetried, StatusOnly, workerVars, execVars
  <1>r. /\ k \in Jobs /\ status[k] \notin {"absent", "completed"} /\ Free(k)
        /\ ~Deleted(k) => status[k] \in {"failed", "cleanup_failed"}
        /\ \A g \in Handlers : g = h
    BY DEF WriteRetried, At, RequestsFit, Fits, Calm, OneHandler
  <1>s. /\ \A j \in Jobs : status'[j] = IF j = k THEN "queued" ELSE status[j]
        /\ \A j \in Jobs : lapsed'[j] = IF j = k THEN FALSE ELSE lapsed[j]
    BY DEF WriteRetried, Requeued
  <1> HIDE DEF k
  <1>1. /\ \A t \in Slots : /\ Working(t)' <=> Working(t)
                            /\ Verified(t)' <=> Verified(t)
                            /\ Credited(t)' <=> Credited(t)
        /\ \A j \in Jobs : Deleted(j)' <=> Deleted(j)
    BY <1>0 DEF Working, Verified, Credited, Deleted, ImageOf
  <1>2. \A j \in Jobs : Free(j)' <=> Free(j)
    BY <1>1 DEF Free
  <1>f. \A t \in Slots : t[2] = k => ~Verified(t) /\ ~Credited(t) /\ (Working(t) => Deleted(k))
    BY <1>r DEF Free, Verified, Credited
  <1>3. Unreplaced' /\ Existing' /\ Sole'
    BY <1>0, <1>1, <1>s, <1>r, SlotFields DEF Unreplaced, Existing, ImageOf, Sole
  <1>4. SelectedFit'
    BY <1>0, <1>1, <1>2, <1>s, <1>r DEF SelectedFit, InService, RunningStatus
  <1>5. Leased' /\ Finished'
    BY <1>0, <1>1, <1>s, <1>f, SlotFields DEF Leased, Shown, InService, Finished
  <1>6. RequestsFit'
    BY <1>0, <1>r DEF RequestsFit, Fits
  <1> QED BY <1>3, <1>4, <1>5, <1>6

LEMMA InsertJobKeepsCalm ==
  ASSUME TypeInv, CalmInv, NEW h \in Handlers, InsertJob(h)
  PROVE  CalmInv'
  <1> USE DEF CalmInv
  <1>j. PICK j \in FreshIds : WriteStatus(j, "queued") /\ row' = [row EXCEPT ![j] = request[h].row]
    BY DEF InsertJob
  <1>0. /\ UNCHANGED <<lapsed, pc, mode, loop, selected, image>>
        /\ request'[h].step = "idle" /\ \A g \in Handlers : g # h => request'[g] = request[g]
    BY <1>j, RequestFields DEF InsertJob, StatusOnly, WriteStatus, workerVars, execVars
  <1>a. j \in Jobs /\ status[j] = "absent" /\ request[h].row.image \in Images
    BY DEF FreshIds, InsertJob, At, RequestsFit, Fits
  <1>s. \A k \in Jobs : /\ status'[k] = IF k = j THEN "queued" ELSE status[k]
                        /\ k # j => row'[k] = row[k]
    BY <1>j DEF WriteStatus, TypeInv, TypeOK, QueueTypeOK
  <1>i. row'[j].image \in Images
    BY <1>j, <1>a DEF TypeInv, TypeOK
  <1>1. \A t \in Slots : /\ Working(t)' <=> Working(t)
                         /\ Verified(t)' <=> Verified(t)
                         /\ Credited(t)' <=> Credited(t)
    BY <1>0 DEF Working, Verified, Credited
  <1>2. \A k \in Jobs : k # j => (Deleted(k)' <=> Deleted(k)) /\ (Free(k)' <=> Free(k))
    BY <1>0, <1>1, <1>s DEF Free, Deleted, ImageOf
  <1>3. \A t \in Slots : Working(t) => t[2] # j
    BY <1>a DEF Existing
  <1>4. Unreplaced' /\ Existing'
    BY <1>0, <1>1, <1>3, <1>s, <1>i, SlotFields DEF Unreplaced, Existing, ImageOf
  <1>5. SelectedFit'
    BY <1>0, <1>2, <1>s, <1>a DEF SelectedFit, InService
  <1>6. Sole' /\ Finished'
    BY <1>1, <1>2, <1>3, <1>s, SlotFields DEF Sole, Finished
  <1>7. Leased'
    BY <1>0, <1>1, <1>2, <1>3, <1>s, SlotFields DEF Leased, Shown, InService
  <1>8. ASSUME NEW g \in Handlers PROVE Fits(g)'
    BY <1>0, <1>2, <1>s, <1>a DEF Fits, RequestsFit
  <1> QED BY <1>4, <1>5, <1>6, <1>7, <1>8 DEF RequestsFit

LEMMA HandlerKeepsCalm ==
  ASSUME Calm, TypeInv, CalmInv, NEW h \in Handlers, HandlerStep(h) \/ UserStep(h)
  PROVE  CalmInv'
  <1>t. request \in [Handlers -> Request]
        /\ image \in [Images -> [revision : 0 .. MaxRevisions, status : ImageStatus,
                                 replacing : BOOLEAN]]
    BY DEF TypeInv, TypeOK
  <1>f. Fits(h)
    BY DEF CalmInv, RequestsFit
  <1>x. /\ ~WriteCancelled(h) /\ ~ReleaseCancelled(h) /\ ~StaleReplacedJobs(h)
        /\ ~StaleReplacedDerivatives(h)
    BY <1>f DEF Fits, WriteCancelled, ReleaseCancelled, StaleReplacedJobs,
       StaleReplacedDerivatives, At
  \* Steps with neither a row nor an image in them.
  <1>r. ASSUME UNCHANGED <<queueVars, row, image>>,
               \A g \in Handlers : g # h => request'[g] = request[g],
               \/ request'[h].step \in {"idle", "delete_list", "delete_next", "delete_object",
                                        "delete_done", "delete_failed", "delete_uncharge"}
               \/ request'[h].step \in {"create_reserve", "create_insert"}
                    /\ request'[h].row.image \in Images
        PROVE  CalmInv'
    BY <1>r, RequestKeepsCalm DEF queueVars, leaseVars, workerVars, execVars
  <1>1. ASSUME NEW i \in Images, NEW v \in Variants, NEW k \in Keys \cup {None},
               CheckCreate(h, i, v, k)
        PROVE  CalmInv'
    <2>1. PICK new : new.image = i /\ Become(h, [NoRequest EXCEPT !.step = "create_reserve", !.row = new])
      BY <1>1 DEF CheckCreate
    <2>2. /\ [NoRequest EXCEPT !.step = "create_reserve", !.row = new].step = "create_reserve"
          /\ [NoRequest EXCEPT !.step = "create_reserve", !.row = new].row = new
      BY DEF NoRequest
    <2>3. /\ request'[h].step = "create_reserve" /\ request'[h].row.image = i
          /\ \A g \in Handlers : g # h => request'[g] = request[g]
      BY <2>1, <2>2, RequestFields
    <2> QED BY <1>1, <1>r, <2>3 DEF CheckCreate, OnlyRequest, jobVars
  <1>2. CASE ReserveForCreate(h)
    BY <1>2, <1>r, <1>f, RequestFields DEF ReserveForCreate, KeepsJobs, jobVars, Fits, At
  <1>3. CASE InsertJobFails(h) \/ ReserveRetried(h) \/ DeletionInvalidated(h) \/ HandlerDies(h)
    BY <1>3, <1>r, RequestFields DEF InsertJobFails, ReserveRetried, DeletionInvalidated,
       HandlerDies, KeepsJobs, OnlyRequest, jobVars
  <1>4. CASE DeleteDerivative(h) \/ UnchargeDerivative(h)
    BY <1>4, <1>r, RequestFields DEF DeleteDerivative, UnchargeDerivative, KeepsJobs, jobVars
  <1>5. CASE ListDerivatives(h)
    <2>1. PICK ks : Become(h, [request[h] EXCEPT !.step = "delete_next", !.todo = ks])
      BY <1>5 DEF ListDerivatives
    <2>2. [request[h] EXCEPT !.step = "delete_next", !.todo = ks].step = "delete_next"
      BY <1>t DEF Request
    <2> QED BY <1>5, <1>r, <2>1, <2>2, RequestFields DEF ListDerivatives, OnlyRequest, jobVars
  <1>6. CASE PendDerivative(h)
    <2>1. PICK k, ks : Become(h, [request[h] EXCEPT !.step = "delete_object", !.current = k,
                                                   !.todo = ks])
      BY <1>6 DEF PendDerivative
    <2>2. [request[h] EXCEPT !.step = "delete_object", !.current = k, !.todo = ks].step
            = "delete_object"
      BY <1>t DEF Request
    <2> QED BY <1>6, <1>r, <2>1, <2>2, RequestFields DEF PendDerivative, KeepsJobs, jobVars
  <1>7. CASE RecordDeletion(h)
    <2>1. PICK st \in {"delete_uncharge", "delete_next"} :
            Become(h, [request[h] EXCEPT !.step = st, !.current = None])
      BY <1>7 DEF RecordDeletion
    <2>2. [request[h] EXCEPT !.step = st, !.current = None].step = st
      BY <1>t DEF Request
    <2> QED BY <1>7, <1>r, <2>1, <2>2, RequestFields DEF RecordDeletion, KeepsJobs, jobVars
  <1>8. ASSUME NEW j \in Jobs, CheckRetry(h, j) PROVE CalmInv'
    <2>1. /\ [NoRequest EXCEPT !.step = "retry_write", !.job = j].step = "retry_write"
          /\ [NoRequest EXCEPT !.step = "retry_write", !.job = j].job = j
      BY DEF NoRequest
    <2>2. /\ request'[h].step = "retry_write" /\ request'[h].job = j
          /\ \A g \in Handlers : g # h => request'[g] = request[g]
      BY <1>8, <2>1, RequestFields DEF CheckRetry
    <2> QED BY <1>8, <2>2, RequestKeepsCalm
            DEF CheckRetry, OnlyRequest, queueVars, leaseVars, workerVars, execVars, jobVars
  <1>9. ASSUME NEW i \in Images, AcquireDeletion(h, i) PROVE CalmInv'
    <2>1. ForImage(i, "delete_jobs").step = "delete_jobs" /\ ForImage(i, "delete_jobs").row.image = i
      BY DEF ForImage, NoRequest, NoRow
    <2>2. /\ request'[h].step = "delete_jobs" /\ request'[h].row.image = i
          /\ \A g \in Handlers : g # h => request'[g] = request[g]
      BY <1>9, <2>1, RequestFields DEF AcquireDeletion
    <2>3. /\ \A k \in Images : image'[k].replacing = image[k].replacing
                                 /\ (image[k].status = "deleted" => image'[k].status = "deleted")
          /\ image'[i].status = "deleted"
      BY <1>9, <1>t DEF AcquireDeletion
    <2> QED BY <1>9, <2>2, <2>3, RequestKeepsCalm
            DEF AcquireDeletion, KeepsJobs, queueVars, leaseVars, workerVars, execVars, jobVars
  <1>10. ~(\E j \in Jobs : CheckCancel(h, j)) /\ ~(\E i \in Images : BeginReplacement(h, i))
    BY DEF Calm, CheckCancel, BeginReplacement
  <1> QED BY <1>x, <1>1, <1>2, <1>3, <1>4, <1>5, <1>6, <1>7, <1>8, <1>9, <1>10,
             StaleKeepsCalm, RetryKeepsCalm, InsertJobKeepsCalm DEF HandlerStep, UserStep

LEMMA CalmInit == Init => QueuedUnleased /\ CalmInv
  BY DEF Init, QueueInit, QueuedUnleased, CalmInv, Unreplaced, Existing, RequestsFit, Fits, NoRequest,
     SelectedFit, Sole, Leased, Finished, Working

LEMMA CalmStep ==
  Calm /\ TypeInv /\ ClaimInv /\ QueuedUnleased /\ CalmInv /\ [Next]_vars => CalmInv'
  <1> SUFFICES ASSUME Calm, TypeInv, ClaimInv, QueuedUnleased, CalmInv, [Next]_vars PROVE CalmInv'
    OBVIOUS
  <1>1. CASE UNCHANGED vars
    BY <1>1, QuietQueueKeepsCalm
       DEF vars, sagaVars, jobVars, queueVars, leaseVars, workerVars, execVars, CalmInv, InService, Working
  <1>2. ASSUME NEW i \in Images PROVE ~EndReplacement(i)
    BY DEF EndReplacement, CalmInv, Unreplaced
  <1> QED BY <1>1, <1>2, QueueKeepsCalm, ExecutionKeepsCalm, HandlerKeepsCalm DEF Next

LEMMA CalmInvHolds == Calm /\ Spec => [](TypeInv /\ ClaimInv /\ CalmInv)
  <1> SUFFICES ASSUME Calm PROVE Spec => [](TypeInv /\ ClaimInv /\ CalmInv)
    OBVIOUS
  <1>1. TypeInv /\ ClaimInv /\ QueuedUnleased /\ CalmInv /\ [Next]_vars => CalmInv'
    BY CalmStep
  <1> QED BY <1>1, ClaimInvHolds, CalmInit, QueuedUnleasedStep, PTL DEF Spec

\* One execution at a time is at work on a job whose image is not deleted,
\* across crashes, requeues, restarts and retries, under Calm.
THEOREM SoleWriterHolds == Calm /\ Spec => []SoleWriter
  <1>1. CalmInv => SoleWriter
    BY DEF CalmInv, Sole, SoleWriter, Begun, Live, Working, Deleted
  <1> QED BY <1>1, CalmInvHolds, PTL

LEMMA CompletedStays ==
  ASSUME Calm, TypeInv, CalmInv, [Next]_vars, NEW j \in Jobs, status[j] = "completed"
  PROVE  status'[j] = "completed"
  <1> USE DEF CalmInv
  <1>t. status \in [Jobs -> JobStatus] /\ pc \in [Slots -> ExecStep]
    BY DEF TypeInv, TypeOK, QueueTypeOK
  <1>1. ASSUME QueueNext PROVE status'[j] = "completed"
    <2>1. ASSUME NEW w \in Workers, RequeueExpiredLeases(w) PROVE status'[j] = "completed"
      BY <2>1 DEF RequeueExpiredLeases, Requeued, SelectedFit, InService
    <2>2. ASSUME NEW w \in Workers, ClaimQueuedJobs(w) \/ ClaimIsLost(w)
          PROVE  status'[j] = "completed"
      <3>1. PICK claimed \in SUBSET Claimable : Claim(w, claimed)
        BY <2>2 DEF ClaimQueuedJobs, ClaimIsLost
      <3> QED BY <3>1 DEF Claim, Claimable
    <2>3. ASSUME NEW w \in Workers, ReleaseInFlightLeases(w) PROVE status'[j] = "completed"
      BY <2>3 DEF ReleaseInFlightLeases, Requeued, RunningStatus
    <2>4. CASE UNCHANGED status
      BY <2>4
    <2> QED BY <1>1, <2>1, <2>2, <2>3, <2>4 DEF QueueNext, SelectExpiredLeases, LoopFails,
       WorkerCrashes, ShutdownWorker, WorkerExits, WorkerRestarts, HeartbeatLeasedJob, LeaseLapses,
       FinishExecution, leaseVars
  <1>2. ASSUME NEW s \in Slots, ExecuteProcessingJob(s) PROVE status'[j] = "completed"
    <2>1. ASSUME NEW st, WriteStatus(s[2], st), pc[s] \notin {"idle", "clear", "credit", "usage"}
          PROVE  status'[j] = "completed"
      <3>1. s[2] # j
        BY <2>1 DEF Finished, Working, Credited
      <3> QED BY <1>t, <2>1, <3>1 DEF WriteStatus
    <2>2. CASE CompleteJob(s)
      BY <2>1, <2>2 DEF CompleteJob
    <2>3. CASE TransformSource(s) \/ ReportOutput(s) \/ RecordCleanupFailed(s)
      BY <2>1, <2>3 DEF TransformSource, ReportOutput, RecordCleanupFailed
    <2>4. CASE FailJob(s)
      BY <2>1, <2>4 DEF FailJob
    <2>5. CASE UNCHANGED status
      BY <2>5
    <2> QED BY <1>2, <2>2, <2>3, <2>4, <2>5 DEF ExecuteProcessingJob, BeginExecution, CheckImage,
       TransformFails, PutOutput, PutFails, VerifyOutput, FindPrevious, RetirePrevious,
       InsertDerivative, CreditOutput, RecordUsage, ThrowWithOutput, ThrowOut, AbandonExecution,
       CleanupOutput, CleanupFails, DropOutput, ReleaseReservation, leaseVars
  <1>3. ASSUME NEW h \in Handlers, HandlerStep(h) \/ UserStep(h) PROVE status'[j] = "completed"
    <2>1. CASE WriteRetried(h)
      BY <2>1 DEF WriteRetried, At, Requeued, RequestsFit, Fits
    <2>2. CASE InsertJob(h)
      BY <1>t, <2>2 DEF InsertJob, FreshIds, WriteStatus
    <2>3. CASE StaleDeletedJobs(h) \/ StaleReplacedJobs(h)
      BY <2>3 DEF StaleDeletedJobs, StaleReplacedJobs, MarkActiveJobsStale, ActiveStatus, RunningStatus
    <2>4. ~WriteCancelled(h)
      BY DEF WriteCancelled, At, RequestsFit, Fits
    <2>5. CASE UNCHANGED status
      BY <2>5
    <2> QED BY <1>3, <2>1, <2>2, <2>3, <2>4, <2>5 DEF HandlerStep, UserStep, CheckCreate,
       ReserveForCreate, InsertJobFails, CheckCancel, ReleaseCancelled, CheckRetry,
       ReserveRetried, AcquireDeletion, ListDerivatives, PendDerivative, DeleteDerivative,
       RecordDeletion, UnchargeDerivative, DeletionInvalidated, BeginReplacement,
       StaleReplacedDerivatives, HandlerDies, OnlyRequest, KeepsJobs, queueVars, leaseVars
  <1>4. ASSUME NEW i \in Images, EndReplacement(i) PROVE status'[j] = "completed"
    BY <1>4 DEF EndReplacement, KeepsJobs, queueVars, leaseVars
  <1>5. CASE UNCHANGED vars
    BY <1>5 DEF vars, queueVars, leaseVars
  <1> QED BY <1>1, <1>2, <1>3, <1>4, <1>5 DEF Next

\* A completed job stays completed, though no writer of the row looks at its
\* status: whoever still relies on an old read of it is gone, under Calm.
THEOREM CompletedIsFinalHolds == Calm /\ Spec => CompletedIsFinal
  <1> SUFFICES ASSUME Calm PROVE Spec => CompletedIsFinal
    OBVIOUS
  <1>1. TypeInv /\ CalmInv /\ [Next]_vars
          => [\A j \in Jobs : status[j] = "completed" => status'[j] = "completed"]_vars
    BY CompletedStays
  <1> QED BY <1>1, CalmInvHolds, PTL DEF Spec, CompletedIsFinal

-----------------------------------------------------------------------------
(* The object of an active derivative *)

\* The key of an execution up to its insert is new to the derivatives.
Fresh(s) == pc[s] \notin {"idle", "claimed", "complete", "credit", "usage", "clear"}
KeysFresh == \A s \in Slots : Fresh(s) => derivative[KeyOf(s)] = "none"

\* So is the key it is going to read, because every claim counts an attempt.
ClaimsFresh == \A s \in Slots : pc[s] = "claimed" => derivative[<<s[2], attempts[s[2]]>>] = "none"
DerivativesCounted == \A k \in OutputKeys : derivative[k] # "none" => k[2] <= attempts[k[1]]

Inserting(s) == pc[s] \in {"retire", "demote", "insert"}
PutThere == \A s \in Slots : Inserting(s) => KeyOf(s) \in objects

\* A deletion takes objects of derivatives that it has marked, only.
Lists   == {"delete_next", "delete_object", "delete_done", "delete_failed", "delete_uncharge"}
Marks   == {"delete_object", "delete_done", "delete_failed"}
Marked(h) ==
  /\ request[h].step \in Lists => \A k \in request[h].todo : derivative[k] # "none"
  /\ request[h].step \in Marks =>
       /\ request[h].current \in OutputKeys
       /\ derivative[request[h].current] \notin {"none", "active"}
DeletionsMarked == \A h \in Handlers : Marked(h)

StoreInv == /\ KeysFresh /\ ClaimsFresh /\ DerivativesCounted /\ PutThere /\ DeletionsMarked
            /\ PreviousInserted /\ ActiveHasObject

\* Every worker is in service, so that no attempt in use is given back: a
\* released worker's attempt numbers a second execution, and a second key.
Up == \A w \in Workers : mode[w] \in {"running", "down"}

\* Rows of derivatives are marked, none is inserted.
OnlyMarks ==
  \A k \in OutputKeys :
    derivative'[k] = derivative[k]
      \/ (derivative[k] # "none" /\ derivative'[k] \notin {"none", "active"})

LEMMA KeyOfFresh ==
  ASSUME TypeInv, ClaimInv, Up, NEW s \in Slots
  PROVE  /\ Fresh(s) => KeyOf(s) \in OutputKeys /\ keyAttempt[s] <= attempts[s[2]]
         /\ pc[s] = "claimed" => <<s[2], attempts[s[2]]>> \in OutputKeys
  <1>1. ASSUME Fresh(s) PROVE KeyOf(s) \in OutputKeys /\ keyAttempt[s] <= attempts[s[2]]
    <2>1. keyAttempt[s] > 0 /\ Begun(s) /\ InService(s[1])
      BY <1>1, SlotFields DEF Fresh, TypeInv, WorkHasKey, Begun, Live, InService, Up
    <2> QED BY <2>1, KeyOfType DEF ClaimInv, KeysCounted, Writing
  <1>2. ASSUME pc[s] = "claimed" PROVE <<s[2], attempts[s[2]]>> \in OutputKeys
    <2>1. s[3] <= attempts[s[2]]
      BY <1>2, SlotFields DEF ClaimInv, ClaimsCounted, Serving, Live, InService, Up
    <2>2. attempts[s[2]] \in 0 .. MaxAttempts /\ s[3] \in 1 .. MaxAttempts /\ s[2] \in Jobs
      BY SlotFields DEF TypeInv, TypeOK, QueueTypeOK
    <2>3. attempts[s[2]] \in 1 .. MaxAttempts
      BY <2>1, <2>2, QueueAssumption DEF QueueAssumption
    <2> QED BY <2>2, <2>3 DEF OutputKeys
  <1> QED BY <1>1, <1>2

\* A step that inserts no row and takes no object that is in use.
LEMMA MarksKeepStore ==
  ASSUME TypeInv, ClaimInv, Up, StoreInv, OnlyMarks, UNCHANGED attempts,
         \A s \in Slots : Fresh(s)' =>
           \/ Fresh(s) /\ keyAttempt'[s] = keyAttempt[s]
           \/ pc[s] = "claimed" /\ keyAttempt'[s] = attempts[s[2]],
         \A s \in Slots : pc'[s] = "claimed" => pc[s] = "claimed",
         \A s \in Slots : Inserting(s)' =>
           /\ keyAttempt'[s] = keyAttempt[s] /\ Fresh(s)
           /\ Inserting(s) \/ KeyOf(s) \in objects
           /\ KeyOf(s) \in objects => KeyOf(s) \in objects',
         \A k \in OutputKeys : derivative[k] = "active" /\ k \in objects => k \in objects',
         PreviousInserted', DeletionsMarked'
  PROVE  StoreInv'
  <1> USE DEF StoreInv
  <1>1. KeysFresh'
    <2> SUFFICES ASSUME NEW s \in Slots, Fresh(s)' PROVE derivative'[KeyOf(s)'] = "none"
      BY DEF KeysFresh, KeyOf
    <2>1. CASE Fresh(s) /\ keyAttempt'[s] = keyAttempt[s]
      <3>1. KeyOf(s)' = KeyOf(s)
        BY <2>1 DEF KeyOf
      <3> QED BY ZenonT(60), <2>1, <3>1, KeyOfFresh DEF KeysFresh, OnlyMarks
    <2>2. CASE pc[s] = "claimed" /\ keyAttempt'[s] = attempts[s[2]]
      <3>1. KeyOf(s)' = <<s[2], attempts[s[2]]>>
        BY <2>2 DEF KeyOf
      <3> QED BY <2>2, <3>1, KeyOfFresh DEF ClaimsFresh, OnlyMarks
    <2> QED BY <2>1, <2>2
  <1>2. ClaimsFresh'
    BY KeyOfFresh DEF ClaimsFresh, OnlyMarks
  <1>3. DerivativesCounted'
    BY DEF DerivativesCounted, OnlyMarks, OutputKeys
  <1>4. PutThere'
    <2> SUFFICES ASSUME NEW s \in Slots, Inserting(s)' PROVE KeyOf(s)' \in objects'
      BY DEF PutThere
    <2>1. KeyOf(s)' = KeyOf(s)
      BY DEF KeyOf
    <2> QED BY <2>1 DEF PutThere
  <1>5. ActiveHasObject'
    BY DEF ActiveHasObject, OnlyMarks, OutputKeys
  <1> QED BY <1>1, <1>2, <1>3, <1>4, <1>5

\* The insert: no other execution is at work on the job, so the key is its own.
LEMMA InsertKeepsStore ==
  ASSUME TypeInv, ClaimInv, Up, CalmInv, StoreInv, NEW s \in Slots, InsertDerivative(s)
  PROVE  StoreInv'
  <1> USE DEF StoreInv
  <1> DEFINE k == KeyOf(s)
  <1>t. derivative \in [OutputKeys -> DerivativeStatus] /\ pc \in [Slots -> ExecStep]
    BY DEF TypeInv, TypeOK, QueueTypeOK
  <1>0. /\ pc[s] = "insert" /\ Working(s) /\ Verified(s) /\ Fresh(s) /\ Inserting(s)
    BY DEF InsertDerivative, Working, Verified, Fresh, Inserting
  <1>1. /\ k \in OutputKeys /\ keyAttempt[s] <= attempts[s[2]]
        /\ derivative[k] = "none" /\ k \in objects
    BY <1>0, KeyOfFresh DEF KeysFresh, PutThere
  <1>2. /\ derivative' = [derivative EXCEPT ![k] = "active"] /\ Goto(s, "complete")
        /\ UNCHANGED <<attempts, keyAttempt, objects, request, previous>>
    BY <1>1 DEF InsertDerivative, leaseVars
  <1>3. \A l \in OutputKeys : derivative'[l] = IF l = k THEN "active" ELSE derivative[l]
    BY <1>t, <1>2
  <1>4. \A t \in Slots : /\ t # s => pc'[t] = pc[t]
                         /\ KeyOf(t)' = KeyOf(t)
    BY <1>t, <1>2 DEF Goto, KeyOf
  <1>s. pc'[s] = "complete"
    BY <1>t, <1>2 DEF Goto
  <1>o. \A t \in Slots : Working(t) /\ t[2] = s[2] => t = s
    BY <1>0 DEF CalmInv, Sole
  <1>5. KeysFresh'
    <2> SUFFICES ASSUME NEW t \in Slots, Fresh(t)' PROVE derivative'[KeyOf(t)] = "none"
      BY <1>4 DEF KeysFresh
    <2>1. t # s /\ Fresh(t)
      BY <1>4, <1>s DEF Fresh
    <2>2. t[2] # s[2]
      BY <1>o, <2>1 DEF Fresh, Working
    <2>3. KeyOf(t) # k /\ KeyOf(t) \in OutputKeys
      BY <2>1, <2>2, KeyOfFresh DEF KeyOf
    <2> QED BY <1>3, <2>1, <2>3 DEF KeysFresh
  <1>6. ClaimsFresh'
    <2> SUFFICES ASSUME NEW t \in Slots, pc'[t] = "claimed"
                 PROVE  derivative'[<<t[2], attempts[t[2]]>>] = "none"
      BY <1>2 DEF ClaimsFresh
    <2>1. t # s /\ pc[t] = "claimed"
      BY <1>4, <1>s
    <2>2. t[2] # s[2]
      BY <1>o, <2>1 DEF Working
    <2>3. <<t[2], attempts[t[2]]>> # k /\ <<t[2], attempts[t[2]]>> \in OutputKeys
      BY <2>1, <2>2, KeyOfFresh DEF KeyOf
    <2> QED BY <1>3, <2>1, <2>3 DEF ClaimsFresh
  <1>7. DerivativesCounted'
    <2>1. k[1] = s[2] /\ k[2] = keyAttempt[s]
      BY DEF KeyOf
    <2> QED BY <1>1, <1>2, <1>3, <2>1 DEF DerivativesCounted, OutputKeys
  <1>8. PutThere' /\ PreviousInserted'
    BY <1>2, <1>3, <1>4, <1>s DEF PutThere, Inserting, PreviousInserted
  <1>9. DeletionsMarked'
    <2>1. \A h \in Handlers : request[h].todo \subseteq OutputKeys
      BY DEF TypeInv, TypeOK, Request
    <2> QED BY <1>1, <1>2, <1>3, <2>1 DEF DeletionsMarked, Marked
  <1>10. ActiveHasObject'
    BY <1>1, <1>2, <1>3 DEF ActiveHasObject, OutputKeys
  <1> QED BY <1>5, <1>6, <1>7, <1>8, <1>9, <1>10

LEMMA ExecutionKeepsStore ==
  ASSUME Calm, TypeInv, ClaimInv, Up, CalmInv, StoreInv, NEW s \in Slots, ExecuteProcessingJob(s)
  PROVE  StoreInv'
  <1> USE DEF StoreInv
  <1>t. /\ derivative \in [OutputKeys -> DerivativeStatus] /\ pc \in [Slots -> ExecStep]
        /\ keyAttempt \in [Slots -> 0 .. MaxAttempts]
        /\ previous \in [Slots -> OutputKeys \cup {None}]
    BY DEF TypeInv, TypeOK, QueueTypeOK
  <1>1. CASE InsertDerivative(s)
    BY <1>1, InsertKeepsStore
  <1> SUFFICES ASSUME ~InsertDerivative(s) PROVE StoreInv'
    BY <1>1
  <1>0. ~ThrowOut(s)
    BY DEF Calm, ThrowOut
  <1>2. UNCHANGED <<attempts, request>>
    BY <1>0 DEF ExecuteProcessingJob, BeginExecution, CheckImage, TransformSource, TransformFails,
       PutOutput, PutFails, VerifyOutput, FindPrevious, RetirePrevious, CompleteJob, CreditOutput,
       RecordUsage, ThrowWithOutput, CleanupOutput, CleanupFails, RecordCleanupFailed,
       ReportOutput, DropOutput, ReleaseReservation, FailJob, WriteStatus, leaseVars, sagaVars
  <1>3. OnlyMarks
    <2>1. CASE RetirePrevious(s)
      BY <1>t, <2>1 DEF RetirePrevious, PreviousInserted, OnlyMarks
    <2>2. CASE ~RetirePrevious(s)
      BY <1>0, <2>2 DEF OnlyMarks, ExecuteProcessingJob, BeginExecution, CheckImage, TransformSource,
       TransformFails, PutOutput, PutFails, VerifyOutput, FindPrevious, CompleteJob, CreditOutput,
       RecordUsage, ThrowWithOutput, CleanupOutput, CleanupFails, RecordCleanupFailed,
       ReportOutput, DropOutput, ReleaseReservation, FailJob, fileVars, sagaVars
    <2> QED BY <2>1, <2>2
  <1>4. \A r \in Slots : r # s => pc'[r] = pc[r] /\ keyAttempt'[r] = keyAttempt[r]
    BY <1>0, <1>t DEF ExecuteProcessingJob, BeginExecution, CheckImage, TransformSource,
       TransformFails, PutOutput, PutFails, VerifyOutput, FindPrevious, RetirePrevious, CompleteJob,
       CreditOutput, RecordUsage, ThrowWithOutput, CleanupOutput, CleanupFails,
       RecordCleanupFailed, ReportOutput, DropOutput, ReleaseReservation, FailJob, Goto
  <1>5. /\ Fresh(s)' => \/ Fresh(s) /\ keyAttempt'[s] = keyAttempt[s]
                        \/ pc[s] = "claimed" /\ keyAttempt'[s] = attempts[s[2]]
        /\ pc'[s] # "claimed"
    <2>1. CASE BeginExecution(s)
      BY <1>t, <2>1 DEF BeginExecution, Goto, Fresh
    <2>2. CASE ~BeginExecution(s)
      <3>1. UNCHANGED keyAttempt
        BY <1>0, <2>2 DEF ExecuteProcessingJob, CheckImage, TransformSource,
           TransformFails, PutOutput, PutFails, VerifyOutput, FindPrevious, RetirePrevious,
           CompleteJob, CreditOutput, RecordUsage, ThrowWithOutput, CleanupOutput, CleanupFails,
           RecordCleanupFailed, ReportOutput, DropOutput, ReleaseReservation, FailJob
      <3>2. pc'[s] # "claimed" /\ (Fresh(s)' => Fresh(s))
        BY <1>0, <1>t, <2>2 DEF ExecuteProcessingJob, CheckImage, TransformSource,
           TransformFails, PutOutput, PutFails, VerifyOutput, FindPrevious, RetirePrevious,
           CompleteJob, CreditOutput, RecordUsage, ThrowWithOutput, CleanupOutput, CleanupFails,
           RecordCleanupFailed, ReportOutput, DropOutput, ReleaseReservation, FailJob, Goto,
           Fresh, Calm
      <3> QED BY <3>1, <3>2
    <2> QED BY <2>1, <2>2
  <1>6. Inserting(s)' => /\ keyAttempt'[s] = keyAttempt[s] /\ Fresh(s) /\ UNCHANGED objects
                         /\ Inserting(s) \/ KeyOf(s) \in objects
    BY <1>0, <1>t DEF ExecuteProcessingJob, BeginExecution, CheckImage, TransformSource,
       TransformFails, PutOutput, PutFails, VerifyOutput, FindPrevious, RetirePrevious, CompleteJob,
       CreditOutput, RecordUsage, ThrowWithOutput, CleanupOutput, CleanupFails, fileVars, sagaVars,
       RecordCleanupFailed, ReportOutput, DropOutput, ReleaseReservation, FailJob, Goto, Fresh,
       Inserting
  <1>7. \/ objects \subseteq objects'
        \/ /\ objects \ {KeyOf(s)} \subseteq objects' /\ Fresh(s)
           /\ pc[s] \in {"cleanup", "drop"}
    BY <1>0 DEF ExecuteProcessingJob, BeginExecution, CheckImage, TransformSource,
       TransformFails, PutOutput, PutFails, VerifyOutput, FindPrevious, RetirePrevious, CompleteJob,
       CreditOutput, RecordUsage, ThrowWithOutput, CleanupOutput, CleanupFails, fileVars, sagaVars,
       RecordCleanupFailed, ReportOutput, DropOutput, ReleaseReservation, FailJob, Fresh
  <1>8. \A r \in Slots : r # s /\ Inserting(r) /\ pc[s] \in {"cleanup", "drop"} => KeyOf(r) # KeyOf(s)
    BY DEF CalmInv, Sole, Working, Verified, Inserting, KeyOf
  <1>9. \A k \in OutputKeys : derivative[k] = "active" /\ k \in objects => k \in objects'
    BY <1>7, KeyOfFresh DEF KeysFresh
  <1>10. \A r \in Slots : Inserting(r)' =>
           /\ keyAttempt'[r] = keyAttempt[r] /\ Fresh(r)
           /\ Inserting(r) \/ KeyOf(r) \in objects
           /\ KeyOf(r) \in objects => KeyOf(r) \in objects'
    <2> SUFFICES ASSUME NEW r \in Slots, Inserting(r)', r # s
                 PROVE  /\ keyAttempt'[r] = keyAttempt[r] /\ Fresh(r) /\ Inserting(r)
                        /\ KeyOf(r) \in objects => KeyOf(r) \in objects'
      BY <1>6
    <2>1. keyAttempt'[r] = keyAttempt[r] /\ Fresh(r) /\ Inserting(r)
      BY <1>4 DEF Inserting, Fresh
    <2> QED BY <1>7, <1>8, <2>1
  <1>11. PreviousInserted'
    <2>1. \A r \in Slots : pc'[r] = "demote" =>
            previous'[r] \in OutputKeys /\ derivative[previous'[r]] # "none"
      <3>1. CASE FindPrevious(s)
        BY <1>t, <3>1 DEF FindPrevious, ActiveFor, PreviousInserted, Goto
      <3>2. CASE ~FindPrevious(s)
        <4>1. \A r \in Slots : pc'[r] = "demote" => pc[r] = "demote" /\ previous'[r] = previous[r]
          BY <1>0, <1>t, <3>2 DEF ExecuteProcessingJob, BeginExecution, CheckImage, TransformSource,
             TransformFails, PutOutput, PutFails, VerifyOutput, RetirePrevious, CompleteJob,
             CreditOutput, RecordUsage, ThrowWithOutput, CleanupOutput, CleanupFails,
             RecordCleanupFailed, ReportOutput, DropOutput, ReleaseReservation, FailJob, sagaVars,
             Goto
        <4> QED BY <4>1 DEF PreviousInserted
      <3> QED BY <3>1, <3>2
    <2> QED BY <1>3, <2>1 DEF PreviousInserted, OnlyMarks
  <1>12. DeletionsMarked'
    <2>1. \A h \in Handlers : request[h].todo \subseteq OutputKeys
      BY DEF TypeInv, TypeOK, Request
    <2> QED BY <1>2, <1>3, <2>1 DEF DeletionsMarked, Marked, OnlyMarks
  <1>13. \A r \in Slots : Fresh(r)' =>
           \/ Fresh(r) /\ keyAttempt'[r] = keyAttempt[r]
           \/ pc[r] = "claimed" /\ keyAttempt'[r] = attempts[r[2]]
    BY <1>4, <1>5 DEF Fresh
  <1>14. \A r \in Slots : pc'[r] = "claimed" => pc[r] = "claimed"
    BY <1>4, <1>5
  <1> QED BY <1>2, <1>3, <1>9, <1>10, <1>11, <1>12, <1>13, <1>14, MarksKeepStore

LEMMA QueueKeepsStore ==
  ASSUME Calm, TypeInv, ClaimInv, Up, CalmInv, StoreInv, QueueNext, OnQueue
  PROVE  StoreInv'
  <1> USE DEF StoreInv
  <1>t. /\ pc \in [Slots -> ExecStep] /\ keyAttempt \in [Slots -> 0 .. MaxAttempts]
        /\ attempts \in [Jobs -> 0 .. MaxAttempts]
    BY DEF TypeInv, TypeOK, QueueTypeOK
  <1>0. /\ UNCHANGED <<derivative, objects, request>>
        /\ \A s \in Slots : pc'[s] # "idle" => previous'[s] = previous[s]
    BY DEF OnQueue, fileVars
  <1>1. PreviousInserted' /\ DeletionsMarked' /\ OnlyMarks
    <2>1. \A s \in Slots : pc'[s] = "demote" => pc[s] = "demote"
      BY <1>t DEF QueueNext, SelectExpiredLeases, RequeueExpiredLeases, ClaimQueuedJobs, ClaimIsLost,
         Claim, LoopFails, WorkerCrashes, ShutdownWorker, ReleaseInFlightLeases, WorkerExits,
         WorkerRestarts, HeartbeatLeasedJob, LeaseLapses, FinishExecution, Gone, execVars
    <2> QED BY <1>0, <2>1 DEF PreviousInserted, DeletionsMarked, Marked, OnlyMarks, OutputKeys
  <1>2. CASE \A w \in Workers : ~ClaimQueuedJobs(w)
    <2>1. \A s \in Slots : (pc'[s] = pc[s] /\ keyAttempt'[s] = keyAttempt[s]) \/ pc'[s] = "idle"
      BY <1>2, <1>t DEF QueueNext, SelectExpiredLeases, RequeueExpiredLeases, ClaimIsLost,
         Claim, LoopFails, WorkerCrashes, ShutdownWorker, ReleaseInFlightLeases, WorkerExits,
         WorkerRestarts, HeartbeatLeasedJob, LeaseLapses, FinishExecution, Gone, execVars
    <2>2. ASSUME NEW w \in Workers PROVE ~ClaimIsLost(w) /\ ~ReleaseInFlightLeases(w)
      BY DEF Calm, ClaimIsLost, ReleaseInFlightLeases, Up
    <2>3. UNCHANGED attempts
      BY <1>2, <2>2 DEF QueueNext, SelectExpiredLeases, RequeueExpiredLeases,
         LoopFails, WorkerCrashes, ShutdownWorker, WorkerExits,
         WorkerRestarts, HeartbeatLeasedJob, LeaseLapses, FinishExecution, leaseVars
    <2>4. /\ \A s \in Slots : Fresh(s)' => Fresh(s) /\ keyAttempt'[s] = keyAttempt[s]
          /\ \A s \in Slots : Inserting(s)' => /\ keyAttempt'[s] = keyAttempt[s] /\ Fresh(s)
                                               /\ Inserting(s)
      BY <2>1 DEF Fresh, Inserting
    <2> QED BY <1>0, <1>1, <2>1, <2>3, <2>4, MarksKeepStore
  <1>3. ASSUME NEW w \in Workers, ClaimQueuedJobs(w) PROVE StoreInv'
    <2>1. PICK claimed \in SUBSET Claimable :
            /\ Claim(w, claimed)
            /\ pc' = [s \in Slots |->
                        IF s[1] = w /\ s[2] \in claimed /\ s[3] = attempts[s[2]] + 1
                        THEN "claimed" ELSE pc[s]]
      BY <1>3 DEF ClaimQueuedJobs
    <2>2. /\ \A j \in Jobs : attempts'[j] = IF j \in claimed THEN attempts[j] + 1 ELSE attempts[j]
          /\ UNCHANGED keyAttempt
      BY <2>1 DEF Claim
    <2>3. \A s \in Slots : pc'[s] = pc[s] \/ (pc'[s] = "claimed" /\ s[2] \in claimed)
      BY <2>1
    <2>n. \A j \in Jobs : attempts[j] \in Nat /\ attempts'[j] \in {attempts[j], attempts[j] + 1}
      BY <1>t, <2>2, QueueAssumption DEF QueueAssumption
    <2>4. DerivativesCounted'
      <3> SUFFICES ASSUME NEW k \in OutputKeys, derivative[k] # "none" PROVE k[2] <= attempts'[k[1]]
        BY <1>0 DEF DerivativesCounted, OutputKeys
      <3>1. k[2] <= attempts[k[1]] /\ k[1] \in Jobs /\ k[2] \in 1 .. MaxAttempts
        BY DEF DerivativesCounted, OutputKeys
      <3> QED BY <2>n, <3>1, QueueAssumption DEF QueueAssumption
    <2>5. ClaimsFresh'
      <3> SUFFICES ASSUME NEW s \in Slots, pc'[s] = "claimed"
                   PROVE  derivative[<<s[2], attempts'[s[2]]>>] = "none"
        BY <1>0 DEF ClaimsFresh
      <3>1. CASE s[2] \in claimed
        <4> DEFINE k == <<s[2], attempts[s[2]] + 1>>
        <4>1. attempts[s[2]] + 1 \in 1 .. MaxAttempts /\ s[2] \in Jobs
          BY <1>t, <2>1, <3>1, SlotFields, QueueAssumption DEF Claimable, QueueAssumption
        <4>2. k \in OutputKeys /\ k[1] = s[2] /\ k[2] = attempts[s[2]] + 1
          BY <4>1 DEF OutputKeys
        <4>3. ~(k[2] <= attempts[k[1]])
          BY <2>n, <4>1, <4>2
        <4> QED BY <2>2, <3>1, <4>1, <4>2, <4>3 DEF DerivativesCounted
      <3>2. CASE s[2] \notin claimed
        BY <2>2, <2>3, <3>2, SlotFields DEF ClaimsFresh
      <3> QED BY <3>1, <3>2
    <2>6. KeysFresh' /\ PutThere'
      <3>1. \A s \in Slots : /\ Fresh(s)' => Fresh(s)
                             /\ Inserting(s)' => Inserting(s)
                             /\ KeyOf(s)' = KeyOf(s)
        BY <2>2, <2>3 DEF Fresh, Inserting, KeyOf
      <3> QED BY <1>0, <3>1 DEF KeysFresh, PutThere
    <2>7. ActiveHasObject'
      BY <1>0 DEF ActiveHasObject, OutputKeys
    <2> QED BY <1>1, <2>4, <2>5, <2>6, <2>7
  <1> QED BY <1>2, <1>3

\* Among the handlers only a deletion takes an object, of a marked derivative.
LEMMA HandlerKeepsStore ==
  ASSUME Calm, TypeInv, ClaimInv, Up, CalmInv, StoreInv, NEW h \in Handlers,
         HandlerStep(h) \/ UserStep(h)
  PROVE  StoreInv'
  <1> USE DEF StoreInv
  <1>t. /\ derivative \in [OutputKeys -> DerivativeStatus] /\ request \in [Handlers -> Request]
        /\ request[h].todo \subseteq OutputKeys
    BY DEF TypeInv, TypeOK, Request
  <1>m. Marked(h)
    BY DEF DeletionsMarked
  <1>x. /\ ~WriteCancelled(h) /\ ~ReleaseCancelled(h) /\ ~StaleReplacedJobs(h)
        /\ ~StaleReplacedDerivatives(h) /\ ~(\E j \in Jobs : CheckCancel(h, j))
        /\ ~(\E i \in Images : BeginReplacement(h, i))
    BY DEF Calm, CalmInv, RequestsFit, Fits, WriteCancelled, ReleaseCancelled, StaleReplacedJobs,
       StaleReplacedDerivatives, CheckCancel, BeginReplacement, At
  <1>1. UNCHANGED <<attempts, pc, keyAttempt, previous>>
    BY DEF HandlerStep, UserStep, CheckCreate, ReserveForCreate, InsertJob, AcquireDeletion,
       InsertJobFails, CheckCancel, WriteCancelled, ReleaseCancelled, CheckRetry, WriteRetried,
       ReserveRetried, StaleDeletedJobs, ListDerivatives, PendDerivative, DeleteDerivative,
       RecordDeletion, UnchargeDerivative, DeletionInvalidated, BeginReplacement,
       StaleReplacedJobs, StaleReplacedDerivatives, HandlerDies, OnlyRequest, KeepsJobs,
       StatusOnly, WriteStatus, MarkActiveJobsStale, queueVars, leaseVars, execVars
  <1>2. CASE ~PendDerivative(h) /\ ~DeleteDerivative(h) /\ ~RecordDeletion(h)
    <2>1. UNCHANGED <<derivative, objects>>
      BY <1>2, <1>x DEF HandlerStep, UserStep, CheckCreate, ReserveForCreate, InsertJob,
         AcquireDeletion, InsertJobFails, CheckRetry, WriteRetried,
         ReserveRetried, StaleDeletedJobs, ListDerivatives, UnchargeDerivative,
         DeletionInvalidated, HandlerDies, OnlyRequest, KeepsJobs, StatusOnly, fileVars
    <2>2. /\ \A g \in Handlers : g # h => request'[g] = request[g]
          /\ request'[h].step \in Lists => \A k \in request'[h].todo : derivative[k] # "none"
          /\ request'[h].step \notin Marks
      <3>1. CASE ListDerivatives(h)
        <4> DEFINE ks == {k \in OutputKeys : ImageOfKey(k) = request[h].row.image
                            /\ derivative[k] \in {"active", "cleanup_pending", "cleanup_failed"}}
                   r == [request[h] EXCEPT !.step = "delete_next", !.todo = ks]
        <4>1. Become(h, r)
          BY <3>1 DEF ListDerivatives
        <4>2. r.step = "delete_next" /\ r.todo = ks
          BY <1>t DEF Request
        <4> HIDE DEF r
        <4> QED BY <4>1, <4>2, RequestFields DEF Marks
      <3>2. CASE UnchargeDerivative(h)
        BY <3>2, <1>m, RequestFields DEF UnchargeDerivative, At, Marked, Lists, Marks
      <3>3. CASE ReserveForCreate(h) \/ WriteRetried(h) \/ StaleDeletedJobs(h)
        <4>1. Done(h) \/ \E st \in {"create_insert", "retry_reserve", "delete_list"} : Step(h, st)
          BY <3>3 DEF ReserveForCreate, WriteRetried, StaleDeletedJobs
        <4> QED BY <4>1, RequestFields DEF Lists, Marks
      <3>4. CASE InsertJob(h) \/ InsertJobFails(h) \/ ReserveRetried(h) \/ DeletionInvalidated(h)
                 \/ HandlerDies(h)
        BY <3>4, RequestFields DEF InsertJob, InsertJobFails, ReserveRetried, DeletionInvalidated,
           HandlerDies, Lists, Marks
      <3>5. ASSUME NEW i \in Images, NEW v \in Variants, NEW k \in Keys \cup {None},
                   CheckCreate(h, i, v, k)
            PROVE  /\ request'[h].step = "create_reserve"
                   /\ \A g \in Handlers : g # h => request'[g] = request[g]
        <4>1. PICK new : Become(h, [NoRequest EXCEPT !.step = "create_reserve", !.row = new])
          BY <3>5 DEF CheckCreate
        <4>2. [NoRequest EXCEPT !.step = "create_reserve", !.row = new].step = "create_reserve"
          BY DEF NoRequest
        <4> QED BY ZenonT(60), <4>1, <4>2, RequestFields
      <3>6. ASSUME NEW j \in Jobs, CheckRetry(h, j)
            PROVE  /\ request'[h].step = "retry_write"
                   /\ \A g \in Handlers : g # h => request'[g] = request[g]
        <4>1. [NoRequest EXCEPT !.step = "retry_write", !.job = j].step = "retry_write"
          BY DEF NoRequest
        <4> QED BY <3>6, <4>1, RequestFields DEF CheckRetry
      <3>7. ASSUME NEW i \in Images, AcquireDeletion(h, i)
            PROVE  /\ request'[h].step = "delete_jobs"
                   /\ \A g \in Handlers : g # h => request'[g] = request[g]
        <4>1. ForImage(i, "delete_jobs").step = "delete_jobs"
          BY DEF ForImage, NoRequest
        <4> QED BY <3>7, <4>1, RequestFields DEF AcquireDeletion
      <3> QED BY <1>2, <1>x, <3>1, <3>2, <3>3, <3>4, <3>5, <3>6, <3>7
              DEF HandlerStep, UserStep, Lists, Marks
    <2>3. DeletionsMarked'
      BY <2>1, <2>2 DEF DeletionsMarked, Marked
    <2>4. PreviousInserted' /\ OnlyMarks
      BY <1>1, <2>1 DEF PreviousInserted, OnlyMarks, OutputKeys
    <2> QED BY <1>1, <2>1, <2>3, <2>4, MarksKeepStore DEF Fresh, Inserting, PutThere
  <1>3. CASE PendDerivative(h)
    <2>1. PICK k \in request[h].todo :
            /\ derivative' = [derivative EXCEPT ![k] = "cleanup_pending"]
            /\ Become(h, [request[h] EXCEPT !.step = "delete_object", !.current = k,
                                            !.todo = @ \ {k}])
      BY <1>3 DEF PendDerivative
    <2> DEFINE r == [request[h] EXCEPT !.step = "delete_object", !.current = k, !.todo = @ \ {k}]
    <2>2. r.step = "delete_object" /\ r.current = k /\ r.todo = request[h].todo \ {k}
      BY <1>t DEF Request
    <2>3. Become(h, r)
      BY <2>1
    <2> HIDE DEF r
    <2>4. /\ request'[h].step = "delete_object" /\ request'[h].current = k
          /\ request'[h].todo = request[h].todo \ {k}
          /\ \A g \in Handlers : g # h => request'[g] = request[g]
      BY <2>2, <2>3, RequestFields
    <2>5. /\ k \in OutputKeys /\ derivative[k] # "none"
          /\ \A l \in OutputKeys : derivative'[l] = IF l = k THEN "cleanup_pending" ELSE derivative[l]
      BY <1>3, <1>m, <1>t, <2>1 DEF PendDerivative, At, Marked, Lists
    <2>6. OnlyMarks
      BY <2>5 DEF OnlyMarks
    <2>7. DeletionsMarked'
      <3>1. \A l \in request[h].todo : derivative[l] # "none" /\ l \in OutputKeys
        BY <1>3, <1>m, <1>t DEF PendDerivative, At, Marked, Lists
      <3>2. Marked(h)'
        BY <2>4, <2>5, <3>1 DEF Marked
      <3>3. \A g \in Handlers : request[g].todo \subseteq OutputKeys
        BY DEF TypeInv, TypeOK, Request
      <3>4. \A g \in Handlers : g # h => Marked(g)'
        BY <2>4, <2>6, <3>3 DEF DeletionsMarked, Marked, OnlyMarks
      <3> QED BY <3>2, <3>4 DEF DeletionsMarked
    <2>8. PreviousInserted'
      BY <1>1, <2>6 DEF PreviousInserted, OnlyMarks
    <2>9. UNCHANGED objects
      BY <1>3 DEF PendDerivative
    <2> QED BY <1>1, <2>6, <2>7, <2>8, <2>9, MarksKeepStore DEF Fresh, Inserting, PutThere
  <1>4. CASE DeleteDerivative(h)
    <2> DEFINE k == request[h].current
    <2>1. /\ k \in OutputKeys /\ derivative[k] \notin {"none", "active"}
          /\ \A l \in request[h].todo : derivative[l] # "none"
      BY <1>4, <1>m DEF DeleteDerivative, At, Marked, Lists, Marks
    <2>2. objects \ {k} \subseteq objects' /\ UNCHANGED derivative
      BY <1>4 DEF DeleteDerivative
    <2>3. /\ request'[h].current = k /\ request'[h].todo = request[h].todo
          /\ \A g \in Handlers : g # h => request'[g] = request[g]
      BY <1>4, RequestFields DEF DeleteDerivative
    <2>4. DeletionsMarked'
      BY <2>1, <2>2, <2>3 DEF DeletionsMarked, Marked
    <2>5. PreviousInserted' /\ OnlyMarks
      BY <1>1, <2>2 DEF PreviousInserted, OnlyMarks, OutputKeys
    <2>6. \A s \in Slots : Inserting(s) => KeyOf(s) # k /\ Fresh(s)
      BY <2>1 DEF KeysFresh, Fresh, Inserting
    <2>7. \A l \in OutputKeys : derivative[l] = "active" => l # k
      BY <2>1
    <2> HIDE DEF k
    <2> QED BY <1>1, <2>2, <2>4, <2>5, <2>6, <2>7, MarksKeepStore DEF Fresh, Inserting, PutThere
  <1>5. CASE RecordDeletion(h)
    <2>1. PICK st \in {"deleted", "cleanup_failed"}, step \in {"delete_uncharge", "delete_next"} :
            /\ derivative' = [derivative EXCEPT ![request[h].current] = st]
            /\ Become(h, [request[h] EXCEPT !.step = step, !.current = None])
            /\ UNCHANGED objects
      BY <1>5 DEF RecordDeletion
    <2> DEFINE r == [request[h] EXCEPT !.step = step, !.current = None]
    <2>2. r.step = step /\ r.todo = request[h].todo
      BY <1>t DEF Request
    <2>3. Become(h, r)
      BY <2>1
    <2> HIDE DEF r
    <2>4. /\ request'[h].step = step /\ request'[h].todo = request[h].todo
          /\ \A g \in Handlers : g # h => request'[g] = request[g]
      BY <2>2, <2>3, RequestFields
    <2>5. /\ request[h].current \in OutputKeys /\ derivative[request[h].current] \notin {"none", "active"}
          /\ \A l \in request[h].todo : derivative[l] # "none"
      BY <1>5, <1>m DEF RecordDeletion, At, Marked, Lists, Marks
    <2>6. OnlyMarks
      BY <1>t, <2>1, <2>5 DEF OnlyMarks
    <2>7. DeletionsMarked'
      <3>1. \A g \in Handlers : request[g].todo \subseteq OutputKeys
        BY DEF TypeInv, TypeOK, Request
      <3>2. Marked(h)'
        BY <2>4, <2>5, <2>6, <3>1 DEF Marked, OnlyMarks, Marks
      <3>3. \A g \in Handlers : g # h => Marked(g)'
        BY <2>4, <2>6, <3>1 DEF DeletionsMarked, Marked, OnlyMarks
      <3> QED BY <3>2, <3>3 DEF DeletionsMarked
    <2>8. PreviousInserted'
      BY <1>1, <2>6 DEF PreviousInserted, OnlyMarks
    <2> QED BY <1>1, <2>1, <2>6, <2>7, <2>8, MarksKeepStore DEF Fresh, Inserting, PutThere
  <1> QED BY <1>2, <1>3, <1>4, <1>5

LEMMA UpHolds == "shutdown" \notin Events /\ Spec => []Up
  <1> SUFFICES ASSUME "shutdown" \notin Events PROVE Spec => []Up
    OBVIOUS
  <1>1. Init => Up
    BY DEF Init, QueueInit, Up
  <1>2. TypeInv /\ Up /\ [Next]_vars => Up'
    <2> SUFFICES ASSUME TypeInv, Up, [Next]_vars PROVE Up'
      OBVIOUS
    <2>t. mode \in [Workers -> WorkerMode]
      BY DEF TypeInv, TypeOK, QueueTypeOK
    <2>1. CASE QueueNext
      <3>1. ASSUME NEW w \in Workers PROVE ~ShutdownWorker(w) /\ ~ReleaseInFlightLeases(w)
        BY DEF ShutdownWorker, ReleaseInFlightLeases, Up
      <3>2. \A w \in Workers : mode'[w] \in {mode[w], "running", "down"}
        BY <2>t, <2>1, <3>1 DEF QueueNext, SelectExpiredLeases, RequeueExpiredLeases,
           ClaimQueuedJobs, ClaimIsLost, Claim, LoopFails, WorkerCrashes, WorkerExits,
           WorkerRestarts, HeartbeatLeasedJob, LeaseLapses, FinishExecution, Gone, workerVars
      <3> QED BY <3>2 DEF Up
    <2>2. CASE ~QueueNext
      <3>1. ASSUME NEW s \in Slots, ExecuteProcessingJob(s) PROVE UNCHANGED mode
        BY <3>1 DEF ExecuteProcessingJob, BeginExecution, CheckImage, TransformSource,
           TransformFails, PutOutput, PutFails, VerifyOutput, FindPrevious, RetirePrevious,
           InsertDerivative, CompleteJob, CreditOutput, RecordUsage, ThrowWithOutput, ThrowOut,
           AbandonExecution, CleanupOutput, CleanupFails, RecordCleanupFailed, ReportOutput,
           DropOutput, ReleaseReservation, FailJob, workerVars
      <3>2. ASSUME NEW h \in Handlers, HandlerStep(h) \/ UserStep(h) PROVE UNCHANGED mode
        BY <3>2 DEF HandlerStep, UserStep, CheckCreate,
           ReserveForCreate, InsertJob, AcquireDeletion, InsertJobFails, CheckCancel,
           WriteCancelled, ReleaseCancelled, CheckRetry, WriteRetried, ReserveRetried,
           StaleDeletedJobs, ListDerivatives, PendDerivative, DeleteDerivative, RecordDeletion,
           UnchargeDerivative, DeletionInvalidated, BeginReplacement, StaleReplacedJobs,
           StaleReplacedDerivatives, HandlerDies, OnlyRequest, KeepsJobs, StatusOnly,
           MarkActiveJobsStale, WriteStatus, queueVars, workerVars
      <3>3. CASE (\E i \in Images : EndReplacement(i)) \/ UNCHANGED vars
        BY <3>3 DEF EndReplacement, KeepsJobs, vars, queueVars, workerVars, Up
      <3> QED BY <2>2, <3>1, <3>2, <3>3 DEF Next, Up
    <2> QED BY <2>1, <2>2
  <1> QED BY <1>1, <1>2, ClaimInvHolds, PTL DEF Spec

LEMMA StoreInit == Init => StoreInv
  BY DEF Init, QueueInit, StoreInv, KeysFresh, ClaimsFresh, DerivativesCounted, PutThere,
     DeletionsMarked, Marked, PreviousInserted, ActiveHasObject, NoRequest, Lists, Marks, Fresh,
     Inserting

LEMMA StoreStep ==
  Calm /\ TypeInv /\ ClaimInv /\ Up /\ CalmInv /\ StoreInv /\ [Next]_vars => StoreInv'
  <1> SUFFICES ASSUME Calm, TypeInv, ClaimInv, Up, CalmInv, StoreInv, [Next]_vars PROVE StoreInv'
    OBVIOUS
  <1>1. CASE UNCHANGED vars
    <2>1. UNCHANGED <<derivative, objects, pc, keyAttempt, attempts, request, previous>>
      BY <1>1 DEF vars, sagaVars, fileVars, queueVars, leaseVars, execVars
    <2>2. PreviousInserted' /\ DeletionsMarked' /\ OnlyMarks
      BY <2>1 DEF StoreInv, PreviousInserted, DeletionsMarked, Marked, OnlyMarks, OutputKeys
    <2> QED BY <2>1, <2>2, MarksKeepStore DEF StoreInv, Fresh, Inserting, PutThere
  <1>2. ASSUME NEW i \in Images PROVE ~EndReplacement(i)
    BY DEF EndReplacement, CalmInv, Unreplaced
  <1> QED BY <1>1, <1>2, QueueKeepsStore, ExecutionKeepsStore, HandlerKeepsStore DEF Next

LEMMA StoreInvHolds == Calm /\ "shutdown" \notin Events /\ Spec => []StoreInv
  <1> SUFFICES ASSUME Calm, "shutdown" \notin Events PROVE Spec => []StoreInv
    OBVIOUS
  <1>1. TypeInv /\ ClaimInv /\ Up /\ CalmInv /\ StoreInv /\ [Next]_vars => StoreInv'
    BY StoreStep
  <1> QED BY <1>1, CalmInvHolds, UpHolds, StoreInit, PTL DEF Spec

\* A derivative offered to users has its object in R2, whatever crashes, is
\* retried or deleted and whichever call of R2 fails,
\* under Calm and without shutdowns.
THEOREM ActiveHasObjectHolds == Calm /\ "shutdown" \notin Events /\ Spec => []ActiveHasObject
  <1>1. StoreInv => ActiveHasObject
    BY DEF StoreInv
  <1> QED BY <1>1, StoreInvHolds, PTL

-----------------------------------------------------------------------------
(* One active derivative per target *)

\* A create looks at the jobs and derivatives of its target and inserts a job
\* two statements later; a retry does not look.  Only when creates follow one
\* another and nothing is retried has a target one job that may still insert.
Serial == Calm /\ OneHandler /\ "retry" \notin Events

\* The job may still insert a derivative.
Busy(j) ==
  \/ status[j] \in ActiveStatus /\ ~Deleted(j)
  \/ \E s \in Slots : s[2] = j /\ Verified(s) /\ ~Credited(s)

Creates == {"create_reserve", "create_insert"}

TargetsApart ==
  \A j, k \in Jobs : Busy(j) /\ Busy(k) /\ SameTarget(row[j], row[k]) => j = k

\* What a create has seen stays so until it inserts its job.
CreateAlone ==
  \A h \in Handlers, j \in Jobs :
    request[h].step \in Creates /\ Busy(j) => ~SameTarget(row[j], request[h].row)

\* What an execution has seen of the derivatives of its target stays so.
Cleared ==
  \A s \in Slots :
    /\ pc[s] = "insert" => ActiveFor(row[s[2]]) = {}
    /\ pc[s] = "demote" => ActiveFor(row[s[2]]) \subseteq {previous[s]}

ActiveExist == \A k \in OutputKeys : derivative[k] = "active" => status[k[1]] # "absent"

ApartInv == TargetsApart /\ CreateAlone /\ Cleared /\ ActiveExist /\ OneActive

LEMMA ShownIsBusy ==
  ASSUME CalmInv, NEW s \in Slots, Working(s), ~Credited(s), ~Deleted(s[2])
  PROVE  status[s[2]] \in ActiveStatus
  BY DEF CalmInv, Leased, Shown, ActiveStatus

\* A step after which no more jobs are busy and no more derivatives active.
LEMMA QuietKeepsApart ==
  ASSUME TypeInv, ApartInv, UNCHANGED row,
         \A j \in Jobs : Busy(j)' => Busy(j),
         \A j \in Jobs : status[j] # "absent" => status'[j] # "absent",
         \A k \in OutputKeys : derivative'[k] = "active" => derivative[k] = "active",
         \A h \in Handlers : request'[h].step \in Creates =>
           request[h].step \in Creates /\ request'[h].row = request[h].row,
         \A s \in Slots :
           /\ pc'[s] = "insert" => pc[s] = "insert"
           /\ pc'[s] = "demote" => pc[s] = "demote" /\ previous'[s] = previous[s]
  PROVE  ApartInv'
  <1> USE DEF ApartInv
  <1>1. TargetsApart' /\ CreateAlone'
    BY DEF TargetsApart, CreateAlone
  <1>2. Cleared'
    BY DEF Cleared, ActiveFor
  <1>3. ActiveExist' /\ OneActive'
    BY DEF ActiveExist, OneActive, OutputKeys
  <1> QED BY <1>1, <1>2, <1>3

LEMMA QueueKeepsApart ==
  ASSUME Calm, TypeInv, CalmInv, ApartInv, QueueNext, OnQueue
  PROVE  ApartInv'
  <1> USE DEF CalmInv
  <1>t. /\ pc \in [Slots -> ExecStep] /\ status \in [Jobs -> JobStatus]
    BY DEF TypeInv, TypeOK, QueueTypeOK
  <1>0. /\ UNCHANGED <<row, derivative, image, request>>
        /\ \A s \in Slots : pc'[s] # "idle" => previous'[s] = previous[s]
    BY DEF OnQueue, jobVars, fileVars
  <1>1. \A s \in Slots : pc'[s] = pc[s] \/ pc'[s] \in {"idle", "claimed"}
    BY <1>t DEF QueueNext, SelectExpiredLeases, RequeueExpiredLeases, ClaimQueuedJobs, ClaimIsLost,
       Claim, LoopFails, WorkerCrashes, ShutdownWorker, ReleaseInFlightLeases, WorkerExits,
       WorkerRestarts, HeartbeatLeasedJob, LeaseLapses, FinishExecution, Gone, execVars
  <1>2. \A j \in Jobs : \/ status'[j] = status[j]
                        \/ /\ status'[j] # "absent" /\ status[j] # "absent"
                           /\ status[j] \in ActiveStatus \/ Deleted(j)
    <2>1. CASE \E w \in Workers : RequeueExpiredLeases(w)
      BY <2>1 DEF RequeueExpiredLeases, Requeued, SelectedFit, InService, ActiveStatus
    <2>2. CASE \E w \in Workers : ClaimQueuedJobs(w) \/ ClaimIsLost(w)
      <3>1. PICK w \in Workers, claimed \in SUBSET Claimable : Claim(w, claimed)
        BY <2>2 DEF ClaimQueuedJobs, ClaimIsLost
      <3> QED BY <3>1 DEF Claim, Claimable, ActiveStatus
    <2>3. CASE \E w \in Workers : ReleaseInFlightLeases(w)
      BY <2>3 DEF ReleaseInFlightLeases, Requeued, RunningStatus, ActiveStatus
    <2>4. CASE UNCHANGED status
      BY <2>4
    <2> QED BY <2>1, <2>2, <2>3, <2>4 DEF QueueNext, SelectExpiredLeases, LoopFails,
       WorkerCrashes, ShutdownWorker, WorkerExits, WorkerRestarts, HeartbeatLeasedJob, LeaseLapses,
       FinishExecution, leaseVars
  <1>3. \A j \in Jobs : Deleted(j)' <=> Deleted(j)
    BY <1>0 DEF Deleted, ImageOf
  <1>4. \A j \in Jobs : Busy(j)' => Busy(j)
    BY <1>1, <1>2, <1>3 DEF Busy, Verified, Credited
  <1> QED BY <1>0, <1>1, <1>2, <1>4, QuietKeepsApart

LEMMA ExecutionKeepsApart ==
  ASSUME Calm, TypeInv, ClaimInv, CalmInv, ApartInv, NEW s \in Slots, ExecuteProcessingJob(s)
  PROVE  ApartInv'
  <1> USE DEF CalmInv
  <1> DEFINE k == KeyOf(s)
  <1>t. /\ pc \in [Slots -> ExecStep] /\ status \in [Jobs -> JobStatus]
        /\ derivative \in [OutputKeys -> DerivativeStatus]
        /\ previous \in [Slots -> OutputKeys \cup {None}]
    BY DEF TypeInv, TypeOK, QueueTypeOK
  <1>x. ~ThrowOut(s)
    BY DEF Calm, ThrowOut
  <1>0. UNCHANGED <<row, image, request>>
    BY <1>x DEF ExecuteProcessingJob, BeginExecution, CheckImage, TransformSource, TransformFails,
       PutOutput, PutFails, ReportOutput, VerifyOutput, FindPrevious, RetirePrevious,
       InsertDerivative, CompleteJob, CreditOutput, RecordUsage, ThrowWithOutput, CleanupOutput,
       CleanupFails, RecordCleanupFailed, DropOutput, ReleaseReservation, FailJob, jobVars, sagaVars
  <1>1. \A t \in Slots : t # s => pc'[t] = pc[t] /\ previous'[t] = previous[t]
    BY <1>t, <1>x DEF ExecuteProcessingJob, BeginExecution, CheckImage, TransformSource,
       TransformFails, PutOutput, PutFails, ReportOutput, VerifyOutput, FindPrevious,
       RetirePrevious, InsertDerivative, CompleteJob, CreditOutput, RecordUsage, ThrowWithOutput,
       CleanupOutput, CleanupFails, RecordCleanupFailed, DropOutput, ReleaseReservation, FailJob,
       Goto, sagaVars
  <1>2. /\ Verified(s)' /\ ~Credited(s)' => /\ Working(s) /\ ~Credited(s)
                                            /\ Verified(s) \/ ~Deleted(s[2])
        /\ Working(s)
    BY <1>t, <1>x DEF ExecuteProcessingJob, BeginExecution, CheckImage, TransformSource,
       TransformFails, PutOutput, PutFails, ReportOutput, VerifyOutput, FindPrevious,
       RetirePrevious, InsertDerivative, CompleteJob, CreditOutput, RecordUsage, ThrowWithOutput,
       CleanupOutput, CleanupFails, RecordCleanupFailed, DropOutput, ReleaseReservation, FailJob,
       Goto, Working, Verified, Credited, Deleted
  <1>3. \A j \in Jobs : \/ status'[j] = status[j]
                        \/ /\ j = s[2] /\ status'[j] # "absent"
                           /\ status'[j] \in ActiveStatus => ~Credited(s)
    BY <1>t, <1>x, SlotFields DEF ExecuteProcessingJob, BeginExecution, CheckImage,
       TransformSource, TransformFails, PutOutput, PutFails, ReportOutput, VerifyOutput,
       FindPrevious, RetirePrevious, InsertDerivative, CompleteJob, CreditOutput, RecordUsage,
       ThrowWithOutput, CleanupOutput, CleanupFails, RecordCleanupFailed, DropOutput,
       ReleaseReservation, FailJob, WriteStatus, leaseVars, Credited, ActiveStatus, RunningStatus
  <1>4. \A j \in Jobs : Deleted(j)' <=> Deleted(j)
    BY <1>0 DEF Deleted, ImageOf
  <1>5. \A j \in Jobs : Busy(j)' => Busy(j)
    <2> SUFFICES ASSUME NEW j \in Jobs, Busy(j)' PROVE Busy(j)
      OBVIOUS
    <2>1. CASE status'[j] \in ActiveStatus /\ ~Deleted(j)
      BY <1>2, <1>3, <2>1, ShownIsBusy DEF Busy
    <2>2. CASE \E t \in Slots : t[2] = j /\ Verified(t)' /\ ~Credited(t)'
      <3>1. PICK t \in Slots : t[2] = j /\ Verified(t)' /\ ~Credited(t)'
        BY <2>2
      <3>2. CASE t = s
        BY <1>2, <3>1, <3>2, ShownIsBusy DEF Busy
      <3>3. CASE t # s
        BY <1>1, <3>1, <3>3 DEF Busy, Verified, Credited
      <3> QED BY <3>2, <3>3
    <2> QED BY <1>4, <2>1, <2>2 DEF Busy
  <1>6. \A j \in Jobs : status[j] # "absent" => status'[j] # "absent"
    BY <1>3
  \* The steps between the look for the previous derivative and the insert.
  <1>7. CASE FindPrevious(s)
    <2>1. /\ pc[s] = "retire" /\ UNCHANGED derivative
          /\ pc'[s] = "insert" => ActiveFor(row[s[2]]) = {}
          /\ pc'[s] = "demote" => previous'[s] \in ActiveFor(row[s[2]])
      BY <1>t, <1>7 DEF FindPrevious, Goto, fileVars
    <2>2. pc'[s] = "demote" => ActiveFor(row[s[2]]) \subseteq {previous'[s]}
      BY <2>1 DEF ApartInv, OneActive, ActiveFor, SameTarget
    <2>3. Cleared'
      <3>1. \A t \in Slots : ActiveFor(row[t[2]])' = ActiveFor(row[t[2]])
        BY <1>0, <2>1 DEF ActiveFor
      <3> QED BY <1>1, <2>1, <2>2, <3>1 DEF ApartInv, Cleared
    <2> QED BY <1>0, <1>5, <1>6, <2>1, <2>3
            DEF ApartInv, TargetsApart, CreateAlone, ActiveExist, OneActive, OutputKeys
  <1>8. CASE RetirePrevious(s)
    <2>1. /\ pc[s] = "demote" /\ pc'[s] = "insert"
          /\ \A l \in OutputKeys :
               derivative'[l] = IF l = previous[s] THEN "stale" ELSE derivative[l]
      BY <1>t, <1>8 DEF RetirePrevious, Goto
    <2>2. \A l \in OutputKeys : derivative'[l] = "active" =>
            derivative[l] = "active" /\ l # previous[s]
      BY <2>1
    <2>3. Cleared'
      BY <1>0, <1>1, <2>1, <2>2 DEF ApartInv, Cleared, ActiveFor
    <2> QED BY <1>0, <1>5, <1>6, <2>2, <2>3
            DEF ApartInv, TargetsApart, CreateAlone, ActiveExist, OneActive, OutputKeys
  <1>9. CASE InsertDerivative(s) /\ derivative[k] = "none"
    <2>1. /\ pc[s] = "insert" /\ pc'[s] \notin {"insert", "demote"}
          /\ \A l \in OutputKeys : derivative'[l] \in {derivative[l], "active"}
          /\ \A l \in OutputKeys : derivative'[l] # derivative[l] => l = k
      BY <1>t, <1>9 DEF InsertDerivative, Goto
    <2>2. /\ k[1] = s[2] /\ s[2] \in Jobs
          /\ status[s[2]] # "absent" /\ Verified(s) /\ ~Credited(s)
      BY <1>2, <2>1, SlotFields DEF KeyOf, Existing, Verified, Credited
    <2>o. \A t \in Slots : Verified(t) /\ ~Credited(t) /\ SameTarget(row[t[2]], row[s[2]]) => t = s
      <3> SUFFICES ASSUME NEW t \in Slots, Verified(t), ~Credited(t),
                          SameTarget(row[t[2]], row[s[2]])
                   PROVE  t = s
        OBVIOUS
      <3>1. Busy(t[2]) /\ Busy(s[2]) /\ t[2] \in Jobs
        BY <2>2, SlotFields DEF Busy
      <3>2. t[2] = s[2]
        BY <2>2, <3>1 DEF ApartInv, TargetsApart
      <3> QED BY <2>2, <3>2 DEF Sole, Working, Verified
    <2>3. Cleared'
      <3> SUFFICES ASSUME NEW t \in Slots, pc'[t] \in {"insert", "demote"}
                   PROVE  /\ pc'[t] = "insert" => ActiveFor(row[t[2]])' = {}
                          /\ pc'[t] = "demote" => ActiveFor(row[t[2]])' \subseteq {previous'[t]}
        BY DEF Cleared
      <3>1. t # s /\ pc'[t] = pc[t] /\ previous'[t] = previous[t] /\ Verified(t) /\ ~Credited(t)
        BY <1>1, <2>1 DEF Verified, Credited
      <3>2. ~SameTarget(row[s[2]], row[t[2]])
        BY <2>o, <3>1 DEF SameTarget
      <3>3. ActiveFor(row[t[2]])' \subseteq ActiveFor(row[t[2]])
        BY <1>0, <2>1, <2>2, <3>2 DEF ActiveFor
      <3> QED BY <3>1, <3>3 DEF ApartInv, Cleared
    <2>4. OneActive'
      <3>1. ActiveFor(row[s[2]]) = {}
        BY <2>1 DEF ApartInv, Cleared
      <3> SUFFICES ASSUME NEW l \in OutputKeys, NEW m \in OutputKeys,
                          derivative'[l] = "active", derivative'[m] = "active",
                          SameTarget(row[l[1]], row[m[1]])
                   PROVE  l = m
        BY <1>0 DEF OneActive
      <3>2. CASE derivative[l] = "active" /\ derivative[m] = "active"
        BY <3>2 DEF ApartInv, OneActive
      <3>3. CASE derivative[l] # "active" /\ derivative[m] = "active"
        BY <2>1, <2>2, <3>1, <3>3 DEF ActiveFor, SameTarget
      <3>4. CASE derivative[l] = "active" /\ derivative[m] # "active"
        BY <2>1, <2>2, <3>1, <3>4 DEF ActiveFor, SameTarget
      <3>5. CASE derivative[l] # "active" /\ derivative[m] # "active"
        BY <2>1, <3>5
      <3> QED BY <3>2, <3>3, <3>4, <3>5
    <2>5. ActiveExist'
      BY <1>6, <2>1, <2>2 DEF ApartInv, ActiveExist, OutputKeys
    <2> QED BY <1>0, <1>5, <2>3, <2>4, <2>5 DEF ApartInv, TargetsApart, CreateAlone
  <1>10. CASE ~FindPrevious(s) /\ ~RetirePrevious(s)
              /\ ~(InsertDerivative(s) /\ derivative[k] = "none")
    <2>1. UNCHANGED derivative
      BY <1>x, <1>10 DEF ExecuteProcessingJob, BeginExecution, CheckImage, TransformSource,
         TransformFails, PutOutput, PutFails, ReportOutput, VerifyOutput, InsertDerivative,
         CompleteJob, CreditOutput, RecordUsage, ThrowWithOutput, CleanupOutput, CleanupFails,
         RecordCleanupFailed, DropOutput, ReleaseReservation, FailJob, fileVars, sagaVars
    <2>2. pc'[s] \notin {"insert", "demote"}
      BY <1>t, <1>x, <1>10 DEF ExecuteProcessingJob, BeginExecution, CheckImage, TransformSource,
         TransformFails, PutOutput, PutFails, ReportOutput, VerifyOutput, InsertDerivative,
         CompleteJob, CreditOutput, RecordUsage, ThrowWithOutput, CleanupOutput, CleanupFails,
         RecordCleanupFailed, DropOutput, ReleaseReservation, FailJob, Goto
    <2> QED BY <1>0, <1>1, <1>5, <1>6, <2>1, <2>2, QuietKeepsApart
  <1> QED BY <1>7, <1>8, <1>9, <1>10

LEMMA InsertJobKeepsApart ==
  ASSUME Serial, TypeInv, CalmInv, ApartInv, NEW h \in Handlers, InsertJob(h)
  PROVE  ApartInv'
  <1> USE DEF CalmInv, ApartInv
  <1>j. PICK j \in FreshIds : WriteStatus(j, "queued") /\ row' = [row EXCEPT ![j] = request[h].row]
    BY DEF InsertJob
  <1>a. /\ j \in Jobs /\ status[j] = "absent" /\ request[h].step \in Creates
        /\ \A g \in Handlers : g = h
    BY DEF FreshIds, InsertJob, At, Creates, Serial, OneHandler
  <1>0. /\ UNCHANGED <<pc, previous, derivative, image>> /\ request'[h].step = "idle"
    BY RequestFields DEF InsertJob, StatusOnly, execVars, fileVars
  <1>s. /\ \A i \in Jobs : status'[i] = IF i = j THEN "queued" ELSE status[i]
        /\ \A i \in Jobs : row'[i] = IF i = j THEN request[h].row ELSE row[i]
    BY <1>j DEF WriteStatus, TypeInv, TypeOK, QueueTypeOK
  <1>1. \A i \in Jobs : i # j => (Busy(i)' => Busy(i))
    BY <1>0, <1>s DEF Busy, Verified, Credited, Deleted, ImageOf
  <1>2. \A s \in Slots : Working(s) => s[2] \in Jobs /\ s[2] # j
    BY <1>a, SlotFields DEF Existing
  <1>3. \A k \in OutputKeys : k[1] \in Jobs /\ (derivative[k] = "active" => k[1] # j)
    BY <1>a DEF ActiveExist, OutputKeys
  <1>4. TargetsApart'
    <2>1. \A i \in Jobs : i # j /\ Busy(i)' => ~SameTarget(row'[i], row'[j])
      BY <1>1, <1>a, <1>s DEF CreateAlone
    <2> QED BY <1>1, <1>s, <2>1 DEF TargetsApart, SameTarget
  <1>5. CreateAlone'
    BY <1>0, <1>a DEF CreateAlone, Creates
  <1>6. Cleared'
    <2> SUFFICES ASSUME NEW s \in Slots, pc[s] \in {"insert", "demote"}
                 PROVE  ActiveFor(row[s[2]])' \subseteq ActiveFor(row[s[2]])
      BY <1>0 DEF Cleared
    <2>1. row'[s[2]] = row[s[2]]
      BY <1>2, <1>s DEF Working
    <2> QED BY <1>0, <1>3, <1>s, <2>1 DEF ActiveFor
  <1>7. ActiveExist' /\ OneActive'
    BY <1>0, <1>3, <1>s DEF ActiveExist, OneActive, OutputKeys
  <1> QED BY <1>4, <1>5, <1>6, <1>7

\* A create has read every busy job of its target: the image is not deleted, so
\* the rows of the jobs show it.
LEMMA CheckCreateKeepsApart ==
  ASSUME TypeInv, CalmInv, ApartInv, NEW h \in Handlers,
         NEW i \in Images, NEW v \in Variants, NEW key \in Keys \cup {None},
         CheckCreate(h, i, v, key)
  PROVE  ApartInv'
  <1> USE DEF ApartInv
  <1> DEFINE new == [image |-> i, variant |-> v, source |-> image[i].revision, key |-> key]
             r   == [NoRequest EXCEPT !.step = "create_reserve", !.row = new]
  <1>1. /\ image[i].status = "ready_for_processing"
        /\ \A j \in Jobs : status[j] \in ActiveStatus => ~SameTarget(row[j], new)
        /\ Become(h, r)
        /\ UNCHANGED <<status, pc, previous, row, derivative, image>>
    BY DEF CheckCreate, OnlyRequest, queueVars, leaseVars, execVars, jobVars, fileVars
  <1>2. new.image = i
    OBVIOUS
  <1>3. r.row = new
    BY DEF NoRequest
  <1> HIDE DEF new, r
  <1>4. request'[h].row = new /\ \A g \in Handlers : g # h => request'[g] = request[g]
    BY <1>1, <1>3, RequestFields
  <1>5. \A j \in Jobs : Busy(j)' <=> Busy(j)
    BY <1>1 DEF Busy, Verified, Credited, Deleted, ImageOf
  <1>6. ASSUME NEW j \in Jobs, Busy(j), SameTarget(row[j], new) PROVE FALSE
    <2>1. ~Deleted(j)
      BY <1>1, <1>2, <1>6 DEF Deleted, ImageOf, SameTarget
    <2>2. status[j] \in ActiveStatus
      BY <1>6, <2>1, ShownIsBusy DEF Busy, Verified, Working
    <2> QED BY <1>1, <1>6, <2>2
  <1>7. CreateAlone'
    BY <1>1, <1>4, <1>5, <1>6 DEF CreateAlone
  <1> QED BY <1>1, <1>5, <1>7 DEF TargetsApart, Cleared, ActiveFor,
             ActiveExist, OneActive, OutputKeys

LEMMA HandlerKeepsApart ==
  ASSUME Serial, TypeInv, CalmInv, ApartInv, NEW h \in Handlers, HandlerStep(h) \/ UserStep(h)
  PROVE  ApartInv'
  <1>t. /\ derivative \in [OutputKeys -> DerivativeStatus] /\ request \in [Handlers -> Request]
        /\ image \in [Images -> [revision : 0 .. MaxRevisions, status : ImageStatus,
                                 replacing : BOOLEAN]]
    BY DEF TypeInv, TypeOK
  <1>f. Fits(h)
    BY DEF CalmInv, RequestsFit
  <1>x. /\ ~WriteCancelled(h) /\ ~ReleaseCancelled(h) /\ ~StaleReplacedJobs(h)
        /\ ~StaleReplacedDerivatives(h) /\ ~WriteRetried(h)
        /\ ~(\E j \in Jobs : CheckCancel(h, j) \/ CheckRetry(h, j))
        /\ ~(\E i \in Images : BeginReplacement(h, i))
    BY <1>f DEF Fits, WriteCancelled, ReleaseCancelled, StaleReplacedJobs,
       StaleReplacedDerivatives, WriteRetried, At, Serial, Calm, CheckCancel, CheckRetry,
       BeginReplacement
  <1>1. CASE InsertJob(h)
    BY <1>1, InsertJobKeepsApart
  <1>2. CASE \E i \in Images, v \in Variants, key \in Keys \cup {None} : CheckCreate(h, i, v, key)
    BY <1>2, CheckCreateKeepsApart
  <1>3. CASE ~InsertJob(h)
             /\ ~(\E i \in Images, v \in Variants, key \in Keys \cup {None} : CheckCreate(h, i, v, key))
    <2>1. UNCHANGED <<row, pc, previous>>
      BY <1>x, <1>3 DEF HandlerStep, UserStep, ReserveForCreate, AcquireDeletion,
         InsertJobFails, ReserveRetried, StaleDeletedJobs, ListDerivatives, PendDerivative,
         DeleteDerivative, RecordDeletion, UnchargeDerivative, DeletionInvalidated, HandlerDies,
         OnlyRequest, KeepsJobs, StatusOnly, queueVars, execVars, jobVars
    <2>2. \A j \in Jobs : \/ status'[j] = status[j]
                          \/ status[j] \in ActiveStatus /\ status'[j] = "stale"
      BY <1>x, <1>3 DEF HandlerStep, UserStep, ReserveForCreate, AcquireDeletion,
         InsertJobFails, ReserveRetried, StaleDeletedJobs, ListDerivatives, PendDerivative,
         DeleteDerivative, RecordDeletion, UnchargeDerivative, DeletionInvalidated, HandlerDies,
         OnlyRequest, KeepsJobs, MarkActiveJobsStale, queueVars, leaseVars
    <2>3. \A i \in Images : image[i].status = "deleted" => image'[i].status = "deleted"
      BY <1>t, <1>x, <1>3 DEF HandlerStep, UserStep, ReserveForCreate, AcquireDeletion,
         InsertJobFails, ReserveRetried, StaleDeletedJobs, ListDerivatives, PendDerivative,
         DeleteDerivative, RecordDeletion, UnchargeDerivative, DeletionInvalidated, HandlerDies,
         OnlyRequest, KeepsJobs, StatusOnly
    <2>4. \A j \in Jobs : Busy(j)' => Busy(j)
      <3>1. \A j \in Jobs : status[j] # "absent" /\ Deleted(j) => Deleted(j)'
        BY <2>1, <2>3 DEF Deleted, ImageOf, CalmInv, Existing
      <3> QED BY <2>1, <2>2, <3>1 DEF Busy, Verified, Credited, ActiveStatus, RunningStatus
    <2>5. \A j \in Jobs : status[j] # "absent" => status'[j] # "absent"
      BY <2>2
    <2>6. \A k \in OutputKeys : derivative'[k] = "active" => derivative[k] = "active"
      BY <1>t, <1>x, <1>3 DEF HandlerStep, UserStep, ReserveForCreate, AcquireDeletion,
         InsertJobFails, ReserveRetried, StaleDeletedJobs, ListDerivatives, PendDerivative,
         DeleteDerivative, RecordDeletion, UnchargeDerivative, DeletionInvalidated, HandlerDies,
         OnlyRequest, KeepsJobs, StatusOnly, fileVars
    <2>7. \A g \in Handlers : request'[g].step \in Creates =>
            request[g].step \in Creates /\ request'[g].row = request[g].row
      <3>1. CASE ReserveForCreate(h)
        BY <3>1, RequestFields DEF ReserveForCreate, At, Creates
      <3>2. CASE ~ReserveForCreate(h)
        <4>1. /\ request'[h].step \notin Creates
              /\ \A g \in Handlers : g # h => request'[g] = request[g]
          <5>1. CASE InsertJobFails(h) \/ ReserveRetried(h) \/ DeletionInvalidated(h) \/ HandlerDies(h)
            BY <5>1, RequestFields DEF InsertJobFails, ReserveRetried, DeletionInvalidated,
               HandlerDies, Creates
          <5>2. CASE StaleDeletedJobs(h) \/ DeleteDerivative(h) \/ UnchargeDerivative(h)
            BY <5>2, RequestFields DEF StaleDeletedJobs, DeleteDerivative, UnchargeDerivative, Creates
          <5>3. ASSUME NEW st \in RequestStep \ Creates, NEW r, r.step = st, Become(h, r)
                PROVE  /\ request'[h].step \notin Creates
                       /\ \A g \in Handlers : g # h => request'[g] = request[g]
            BY <5>3, RequestFields
          <5>4. CASE ListDerivatives(h) \/ PendDerivative(h) \/ RecordDeletion(h)
            <6>0. PICK st \in {"delete_next", "delete_object", "delete_uncharge"} : \E c, ks :
                    \/ Become(h, [request[h] EXCEPT !.step = st, !.todo = ks])
                    \/ Become(h, [request[h] EXCEPT !.step = st, !.current = c])
                    \/ Become(h, [request[h] EXCEPT !.step = st, !.current = c, !.todo = ks])
              BY <5>4 DEF ListDerivatives, PendDerivative, RecordDeletion
            <6>1. PICK c, ks :
                    \/ Become(h, [request[h] EXCEPT !.step = st, !.todo = ks])
                    \/ Become(h, [request[h] EXCEPT !.step = st, !.current = c])
                    \/ Become(h, [request[h] EXCEPT !.step = st, !.current = c, !.todo = ks])
              BY <6>0
            <6>2. /\ [request[h] EXCEPT !.step = st, !.todo = ks].step = st
                  /\ [request[h] EXCEPT !.step = st, !.current = c].step = st
                  /\ [request[h] EXCEPT !.step = st, !.current = c, !.todo = ks].step = st
              BY <1>t DEF Request
            <6> QED BY <6>1, <6>2, <5>3 DEF RequestStep, Creates
          <5>5. ASSUME NEW i \in Images, AcquireDeletion(h, i)
                PROVE  /\ request'[h].step \notin Creates
                       /\ \A g \in Handlers : g # h => request'[g] = request[g]
            <6>1. ForImage(i, "delete_jobs").step = "delete_jobs"
              BY DEF ForImage, NoRequest
            <6> QED BY <5>5, <6>1, RequestFields DEF AcquireDeletion, Creates
          <5> QED BY <1>x, <1>3, <3>2, <5>1, <5>2, <5>4, <5>5 DEF HandlerStep, UserStep
        <4> QED BY <4>1
      <3> QED BY <3>1, <3>2
    <2> QED BY <2>1, <2>4, <2>5, <2>6, <2>7, QuietKeepsApart
  <1> QED BY <1>1, <1>2, <1>3

LEMMA ApartInit == Init => ApartInv
  BY DEF Init, QueueInit, ApartInv, TargetsApart, Busy, ActiveStatus, RunningStatus, Verified,
     CreateAlone, Creates, NoRequest, Cleared, ActiveExist, OneActive

LEMMA ApartStep ==
  Serial /\ TypeInv /\ ClaimInv /\ CalmInv /\ ApartInv /\ [Next]_vars => ApartInv'
  <1> SUFFICES ASSUME Serial, TypeInv, ClaimInv, CalmInv, ApartInv, [Next]_vars PROVE ApartInv'
    OBVIOUS
  <1>1. CASE UNCHANGED vars
    <2>1. UNCHANGED <<derivative, pc, status, row, image, request, previous>>
      BY <1>1 DEF vars, sagaVars, jobVars, fileVars, queueVars, leaseVars, execVars
    <2>2. \A j \in Jobs : Busy(j)' => Busy(j)
      BY <2>1 DEF Busy, Verified, Credited, Deleted, ImageOf
    <2> QED BY <2>1, <2>2, QuietKeepsApart
  <1>2. ASSUME NEW i \in Images PROVE ~EndReplacement(i)
    BY DEF EndReplacement, CalmInv, Unreplaced
  <1> QED BY <1>1, <1>2, QueueKeepsApart, ExecutionKeepsApart, HandlerKeepsApart DEF Next, Serial

\* An image never has two active derivatives of the same operation and preset,
\* also when an execution crashed after its insert and its job ran again, if
\* creates follow one another and nothing is retried.
THEOREM OneActiveHolds == Serial /\ Spec => []OneActive
  <1> SUFFICES ASSUME Serial PROVE Spec => []OneActive
    OBVIOUS
  <1>1. TypeInv /\ ClaimInv /\ CalmInv /\ ApartInv /\ [Next]_vars => ApartInv'
    BY ApartStep
  <1>2. ApartInv => OneActive
    BY DEF ApartInv
  <1>3. Spec => [](TypeInv /\ ClaimInv /\ CalmInv)
    BY CalmInvHolds DEF Serial
  <1> QED BY <1>1, <1>2, <1>3, ApartInit, PTL DEF Spec
=============================================================================
