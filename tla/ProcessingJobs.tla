--------------------------- MODULE ProcessingJobs ---------------------------
(***************************************************************************)
(* The processing jobs of one project: src/server/images/                  *)
(* processing-service.ts over processing-queries.ts, on the lease queue of *)
(* module ProcessingQueue.  Web handlers create, cancel and retry jobs and *)
(* invalidate them when an image is deleted or replaced; executions turn   *)
(* an original into a derivative through a saga over PostgreSQL and R2.    *)
(* One action is one statement (or one R2 call) together with the pure     *)
(* reads that gate it, so every other process may step in between.         *)
(***************************************************************************)
EXTENDS ProcessingQueue

CONSTANTS
  Images,        \* images of the project
  Variants,      \* (operation, preset) pairs
  Keys,          \* idempotency keys clients send
  Handlers,      \* web requests in progress at a time
  MaxRevisions,  \* bound: revisions (storage keys) an image goes through
  MaxActive,     \* MAX_ACTIVE_JOBS_PER_PROJECT
  SourceSize,    \* bytes reserved for a job, min(sourceBytes, MAX_OUTPUT_BYTES)
  OutputSize,    \* bytes of a derivative
  MaxGenerated   \* maxGeneratedStorageBytes of the plan

ASSUME JobsAssumption ==
  /\ {MaxRevisions, MaxActive, SourceSize, OutputSize, MaxGenerated} \subseteq Nat
  /\ None \notin Jobs \cup Images \cup Variants \cup Keys

VARIABLES
  row,         \* what insertProcessingJob wrote and nothing changes
  output,      \* processing_jobs.output_storage_key, as its attempt, 0 for null
  previous,    \* the derivative an execution found active for its target
  derivative,  \* image_derivatives.status by storage key, "none" before the insert
  objects,     \* derivative objects in R2
  image,       \* images: current revision, status, open replacement
  reserved,    \* project_quota_state.reserved_generated_bytes
  generated,   \* project_quota_state.generated_output_bytes
  request      \* the web handlers in progress

jobVars   == <<row, output>>
fileVars  == <<derivative, objects>>
quotaVars == <<reserved, generated>>
sagaVars  == <<jobVars, fileVars, quotaVars, previous, image, request>>
vars      == <<queueVars, sagaVars>>

\* buildDerivativeStorageKey: the path holds the job id and the attempt.
OutputKeys == Jobs \X (1 .. MaxAttempts)
KeyOf(s) == <<s[2], keyAttempt[s]>>

DerivativeStatus == {"none", "active", "stale", "cleanup_pending",
                     "cleanup_failed", "deleted"}
ImageStatus == {"ready_for_processing", "validated", "deleted"}
RequestStep == {"idle", "create_reserve", "create_insert", "cancel_write",
                "cancel_release", "retry_write", "retry_reserve", "delete_jobs",
                "delete_list", "delete_next", "delete_object", "delete_done",
                "delete_failed", "delete_uncharge", "replace_jobs",
                "replace_derivatives"}

Row == [image : Images \cup {None}, variant : Variants \cup {None},
        source : 0 .. MaxRevisions, key : Keys \cup {None}]
NoRow == [image |-> None, variant |-> None, source |-> 0, key |-> None]
Request == [step : RequestStep, job : Jobs \cup {None}, row : Row,
            current : OutputKeys \cup {None}, todo : SUBSET OutputKeys]
NoRequest == [step |-> "idle", job |-> None, row |-> NoRow,
              current |-> None, todo |-> {}]

ImageOf(j) == row[j].image
ImageOfKey(k) == row[k[1]].image
SameTarget(r1, r2) == r1.image = r2.image /\ r1.variant = r2.variant

\* Every variable keeps its type; the counters stay natural numbers because
\* bumpQuotaState clamps them.
TypeOK ==
  /\ QueueTypeOK
  /\ row \in [Jobs -> Row]
  /\ output \in [Jobs -> 0 .. MaxAttempts]
  /\ previous \in [Slots -> OutputKeys \cup {None}]
  /\ derivative \in [OutputKeys -> DerivativeStatus]
  /\ objects \in SUBSET OutputKeys
  /\ image \in [Images -> [revision : 0 .. MaxRevisions, status : ImageStatus,
                           replacing : BOOLEAN]]
  /\ reserved \in Nat
  /\ generated \in Nat
  /\ request \in [Handlers -> Request]

Init ==
  /\ QueueInit
  /\ row = [j \in Jobs |-> NoRow]
  /\ output = [j \in Jobs |-> 0]
  /\ previous = [s \in Slots |-> None]
  /\ derivative = [k \in OutputKeys |-> "none"]
  /\ objects = {}
  /\ image = [i \in Images |-> [revision |-> 0, status |-> "ready_for_processing",
                                replacing |-> FALSE]]
  /\ reserved = 0
  /\ generated = 0
  /\ request = [h \in Handlers |-> NoRequest]

-----------------------------------------------------------------------------
(* Row and counter updates *)

\* Mutant of Minus: the counters are not clamped at zero.
MinusUnclamped(x, n) == IF x = 0 THEN 0 - n ELSE x - n

\* bumpQuotaState subtracts with GREATEST(0, x - n).
Minus(x, n) == IF x >= n THEN x - n ELSE 0

\* One bumpQuotaState whose callers ignore a failure.
BumpReserved(n) ==
  \/ reserved' = n
  \/ "db" \in Events /\ UNCHANGED reserved

\* updateProcessingJob writes by id alone: no status and no lease guard.
WriteStatus(j, st) ==
  /\ status' = [status EXCEPT ![j] = st]
  /\ UNCHANGED <<attempts, owner, lapsed>>

Goto(s, step) == pc' = [pc EXCEPT ![s] = step]

\* markActiveJobsStaleForImage: one UPDATE over the image's active jobs.
MarkActiveJobsStale(i) ==
  /\ status' = [j \in Jobs |-> IF ImageOf(j) = i /\ status[j] \in ActiveStatus
                               THEN "stale" ELSE status[j]]
  /\ UNCHANGED <<attempts, owner, lapsed>>

-----------------------------------------------------------------------------
(* Executions: executeProcessingJob with alreadyClaimed *)

\* Mutant of BeginExecution: the lease is not looked at again.
BeginUnchecked(s) ==
  /\ pc[s] = "claimed"
  /\ Goto(s, "check")
  /\ keyAttempt' = [keyAttempt EXCEPT ![s] = attempts[s[2]]]
  /\ UNCHANGED <<leaseVars, workerVars, sagaVars>>

\* Mutant of BeginExecution: every attempt writes the same key.
BeginWithOneKey(s) ==
  /\ pc[s] = "claimed"
  /\ IF owner[s[2]] = s[1] /\ status[s[2]] \in RunningStatus
     THEN Goto(s, "check") /\ keyAttempt' = [keyAttempt EXCEPT ![s] = 1]
     ELSE Goto(s, "clear") /\ UNCHANGED keyAttempt
  /\ UNCHANGED <<leaseVars, workerVars, sagaVars>>

\* The job row is read again: an execution that lost its claim gives up.
BeginExecution(s) ==
  LET j == s[2]
  IN /\ pc[s] = "claimed"
     /\ IF owner[j] = s[1] /\ status[j] \in RunningStatus
        THEN /\ Goto(s, "check")
             /\ keyAttempt' = [keyAttempt EXCEPT ![s] = attempts[j]]
        ELSE Goto(s, "clear") /\ UNCHANGED keyAttempt
     /\ UNCHANGED <<leaseVars, workerVars, sagaVars>>

SourceIsCurrent(j) == image[ImageOf(j)].revision = row[j].source

\* The image and its open replacement are read before the work begins.
CheckImage(s) ==
  LET img == image[ImageOf(s[2])]
      ready == SourceIsCurrent(s[2]) /\ img.status = "ready_for_processing"
                 /\ ~img.replacing
  IN /\ pc[s] = "check"
     /\ \/ img.status = "deleted" /\ Goto(s, "unreserve")
        \/ img.status # "deleted" /\ ~ready /\ Goto(s, "unreserve_stale")
        \/ ready /\ Goto(s, "work")
     /\ UNCHANGED <<leaseVars, workerVars, keyAttempt, sagaVars>>

\* Read the original, transform it, and say so in the row.
TransformSource(s) ==
  /\ pc[s] = "work"
  /\ WriteStatus(s[2], "uploading_output")
  /\ Goto(s, "put")
  /\ UNCHANGED <<workerVars, keyAttempt, sagaVars>>

\* The original is gone, R2 is unavailable, the transform or the status write
\* throws: there is no output object yet.
TransformFails(s) ==
  /\ pc[s] = "work"
  /\ \/ Events \cap {"storage", "db"} # {}
     \/ image[ImageOf(s[2])].status = "deleted"
     \/ ~SourceIsCurrent(s[2])
  /\ Goto(s, "unreserve")
  /\ UNCHANGED <<leaseVars, workerVars, keyAttempt, sagaVars>>

\* PUT the output object.
PutOutput(s) ==
  /\ pc[s] = "put"
  /\ objects' = objects \cup {KeyOf(s)}
  /\ Goto(s, "report")
  /\ UNCHANGED <<leaseVars, workerVars, keyAttempt, jobVars, previous, derivative,
                 image, quotaVars, request>>

\* The PUT throws; the object may be stored all the same.
PutFails(s) ==
  /\ "storage" \in Events
  /\ pc[s] = "put"
  /\ objects' \in {objects, objects \cup {KeyOf(s)}}
  /\ Goto(s, "cleanup")
  /\ UNCHANGED <<leaseVars, workerVars, keyAttempt, jobVars, previous, derivative,
                 image, quotaVars, request>>

ReportOutput(s) ==
  /\ pc[s] = "report"
  /\ WriteStatus(s[2], "verifying_output")
  /\ Goto(s, "verify")
  /\ UNCHANGED <<workerVars, keyAttempt, sagaVars>>

\* HeadObject, then the image is read again.
VerifyOutput(s) ==
  LET current == SourceIsCurrent(s[2]) /\ image[ImageOf(s[2])].status # "deleted"
  IN /\ pc[s] = "verify"
     /\ \/ KeyOf(s) \notin objects /\ Goto(s, "cleanup")
        \/ KeyOf(s) \in objects /\ ~current /\ Goto(s, "drop")
        \/ KeyOf(s) \in objects /\ current /\ Goto(s, "retire")
     /\ UNCHANGED <<leaseVars, workerVars, keyAttempt, sagaVars>>

ActiveFor(r) == {k \in OutputKeys : derivative[k] = "active" /\ SameTarget(row[k[1]], r)}

\* Mutant of FindPrevious: the previous derivative is not looked for.
FindNothing(s) ==
  /\ pc[s] = "retire"
  /\ Goto(s, "insert")
  /\ UNCHANGED <<leaseVars, workerVars, keyAttempt, sagaVars>>

\* Mutant of FindPrevious: the job is completed before its derivative exists.
FindAfterCompletion(s) ==
  /\ pc[s] = "retire"
  /\ Goto(s, "complete")
  /\ UNCHANGED <<leaseVars, workerVars, keyAttempt, sagaVars>>

\* getActiveDerivativeForImage reads one row (LIMIT 1).
FindPrevious(s) ==
  LET found == ActiveFor(row[s[2]])
  IN /\ pc[s] = "retire"
     /\ \/ found = {} /\ Goto(s, "insert") /\ UNCHANGED previous
        \/ /\ \E k \in found : previous' = [previous EXCEPT ![s] = k]
           /\ Goto(s, "demote")
     /\ UNCHANGED <<leaseVars, workerVars, keyAttempt, jobVars, fileVars, image,
                    quotaVars, request>>

\* The row found becomes stale, whatever it has become meanwhile.
RetirePrevious(s) ==
  /\ pc[s] = "demote"
  /\ derivative' = [derivative EXCEPT ![previous[s]] = "stale"]
  /\ previous' = [previous EXCEPT ![s] = None]
  /\ Goto(s, "insert")
  /\ UNCHANGED <<leaseVars, workerVars, keyAttempt, jobVars, objects, image,
                 quotaVars, request>>

\* insertDerivative: image_derivatives.storage_key is unique.
InsertDerivative(s) ==
  /\ pc[s] = "insert"
  /\ \/ /\ derivative[KeyOf(s)] = "none"
        /\ derivative' = [derivative EXCEPT ![KeyOf(s)] = "active"]
        /\ Goto(s, "complete")
     \/ /\ derivative[KeyOf(s)] # "none"
        /\ Goto(s, "cleanup") /\ UNCHANGED derivative
  /\ UNCHANGED <<leaseVars, workerVars, keyAttempt, jobVars, previous, objects,
                 image, quotaVars, request>>

CompleteJob(s) ==
  /\ pc[s] = "complete"
  /\ WriteStatus(s[2], "completed")
  /\ output' = [output EXCEPT ![s[2]] = keyAttempt[s]]
  /\ Goto(s, "credit")
  /\ UNCHANGED <<workerVars, keyAttempt, row, previous, fileVars, image,
                 quotaVars, request>>

\* Mutant of CreditOutput: the reserved bytes are credited, not the output's.
CreditReserved(s) ==
  /\ pc[s] = "credit"
  /\ reserved' = Minus(reserved, SourceSize)
  /\ generated' = generated + SourceSize
  /\ Goto(s, "usage")
  /\ UNCHANGED <<leaseVars, workerVars, keyAttempt, jobVars, previous, fileVars,
                 image, request>>

\* The reservation becomes generated bytes, in one UPDATE whose failure is
\* only logged.
CreditOutput(s) ==
  /\ pc[s] = "credit"
  /\ \/ /\ reserved' = Minus(reserved, SourceSize)
        /\ generated' = generated + OutputSize
     \/ "db" \in Events /\ UNCHANGED quotaVars
  /\ Goto(s, "usage")
  /\ UNCHANGED <<leaseVars, workerVars, keyAttempt, jobVars, previous, fileVars,
                 image, request>>

RecordUsage(s) ==
  /\ pc[s] = "usage"
  /\ Goto(s, "clear")
  /\ UNCHANGED <<leaseVars, workerVars, keyAttempt, sagaVars>>

\* Inside the try block a call throws after the output key is known.
ThrowWithOutput(s) ==
  /\ \/ /\ "db" \in Events
        /\ pc[s] \in {"report", "verify", "retire", "demote", "insert", "complete",
                      "usage", "outdated"}
     \/ "storage" \in Events /\ pc[s] = "verify"
  /\ previous' = [previous EXCEPT ![s] = None]
  /\ Goto(s, "cleanup")
  /\ UNCHANGED <<leaseVars, workerVars, keyAttempt, jobVars, fileVars, image,
                 quotaVars, request>>

\* A statement before the try block, in the catch block or after it throws.
ThrowOut(s) ==
  /\ "db" \in Events
  /\ pc[s] \in {"claimed", "check", "unclean", "fail", "stale", "clear"}
  /\ AbandonExecution(s)
  /\ UNCHANGED sagaVars

\* The catch block: the exact output key is deleted and verified absent.
CleanupOutput(s) ==
  /\ pc[s] = "cleanup"
  /\ objects' = objects \ {KeyOf(s)}
  /\ Goto(s, "unreserve")
  /\ UNCHANGED <<leaseVars, workerVars, keyAttempt, jobVars, previous, derivative,
                 image, quotaVars, request>>

\* The deletion throws, or could not be verified.
CleanupFails(s) ==
  /\ "storage" \in Events
  /\ pc[s] = "cleanup"
  /\ objects' \in {objects, objects \ {KeyOf(s)}}
  /\ Goto(s, "unclean")
  /\ UNCHANGED <<leaseVars, workerVars, keyAttempt, jobVars, previous, derivative,
                 image, quotaVars, request>>

\* The row keeps the key, and its reservation is not given back.
RecordCleanupFailed(s) ==
  /\ pc[s] = "unclean"
  /\ WriteStatus(s[2], "cleanup_failed")
  /\ output' = [output EXCEPT ![s[2]] = keyAttempt[s]]
  /\ Goto(s, "clear")
  /\ UNCHANGED <<workerVars, keyAttempt, row, previous, fileVars, image,
                 quotaVars, request>>

\* Mutant of DropOutput: the output of an outdated execution is left behind.
DropNothing(s) ==
  /\ pc[s] = "drop"
  /\ Goto(s, "outdated")
  /\ UNCHANGED <<leaseVars, workerVars, keyAttempt, sagaVars>>

\* The source changed under the work: cleanupKey's result is not looked at,
\* and the reservation is not given back.
DropOutput(s) ==
  /\ pc[s] = "drop"
  /\ \/ objects' = objects \ {KeyOf(s)}
     \/ "storage" \in Events /\ UNCHANGED objects
  /\ Goto(s, "outdated")
  /\ UNCHANGED <<leaseVars, workerVars, keyAttempt, jobVars, previous, derivative,
                 image, quotaVars, request>>

ReleaseReservation(s) ==
  /\ \/ pc[s] = "unreserve" /\ Goto(s, "fail")
     \/ pc[s] = "unreserve_stale" /\ Goto(s, "stale")
  /\ BumpReserved(Minus(reserved, SourceSize))
  /\ UNCHANGED <<leaseVars, workerVars, keyAttempt, jobVars, previous, fileVars,
                 image, generated, request>>

FailJob(s) ==
  /\ \/ pc[s] = "fail" /\ WriteStatus(s[2], "failed")
     \/ pc[s] \in {"stale", "outdated"} /\ WriteStatus(s[2], "stale")
  /\ Goto(s, "clear")
  /\ UNCHANGED <<workerVars, keyAttempt, sagaVars>>

ExecuteProcessingJob(s) ==
  \/ BeginExecution(s)
  \/ CheckImage(s)
  \/ TransformSource(s)
  \/ TransformFails(s)
  \/ PutOutput(s)
  \/ PutFails(s)
  \/ ReportOutput(s)
  \/ VerifyOutput(s)
  \/ FindPrevious(s)
  \/ RetirePrevious(s)
  \/ InsertDerivative(s)
  \/ CompleteJob(s)
  \/ CreditOutput(s)
  \/ RecordUsage(s)
  \/ ThrowWithOutput(s)
  \/ ThrowOut(s)
  \/ CleanupOutput(s)
  \/ CleanupFails(s)
  \/ RecordCleanupFailed(s)
  \/ DropOutput(s)
  \/ ReleaseReservation(s)
  \/ FailJob(s)

-----------------------------------------------------------------------------
(* Web handlers *)

Idle(h) == request[h].step = "idle"
At(h, step) == request[h].step = step
Become(h, r) == request' = [request EXCEPT ![h] = r]
Step(h, step) == request' = [request EXCEPT ![h].step = step]
Done(h) == Become(h, NoRequest)

OnlyRequest == UNCHANGED <<queueVars, jobVars, fileVars, quotaVars, previous, image>>
KeepsJobs   == UNCHANGED <<queueVars, jobVars, previous>>
StatusOnly  == UNCHANGED <<workerVars, execVars, fileVars, quotaVars, previous, image>>

\* Ids are fresh in the code: here each create in progress keeps one back.
FreshIds == {j \in Jobs : status[j] = "absent"}
Creating == {h \in Handlers : request[h].step \in {"create_reserve", "create_insert"}}

\* createProcessingJob up to its first write: every check is a plain read.
CheckCreate(h, i, v, k) ==
  LET new == [image |-> i, variant |-> v, source |-> image[i].revision, key |-> k]
  IN /\ Idle(h)
     /\ Cardinality(Creating) < Cardinality(FreshIds)
     /\ k = None \/ \A j \in Jobs : row[j].key # k
     /\ image[i].status = "ready_for_processing" /\ ~image[i].replacing
     /\ \A j \in Jobs : status[j] \in ActiveStatus => ~SameTarget(row[j], new)
     /\ ActiveFor(new) = {}
     /\ Cardinality({j \in Jobs : status[j] \in ActiveStatus}) < MaxActive
     /\ generated + reserved + SourceSize <= MaxGenerated
     /\ Become(h, [NoRequest EXCEPT !.step = "create_reserve", !.row = new])
     /\ OnlyRequest

ReserveForCreate(h) ==
  /\ At(h, "create_reserve")
  /\ \/ reserved' = reserved + SourceSize /\ Step(h, "create_insert")
     \/ "db" \in Events /\ UNCHANGED reserved /\ Done(h)
  /\ KeepsJobs /\ UNCHANGED <<fileVars, image, generated>>

KeyTaken(h) == request[h].row.key # None /\ \E j \in Jobs : row[j].key = request[h].row.key

InsertJob(h) ==
  /\ At(h, "create_insert") /\ ~KeyTaken(h)
  /\ \E j \in FreshIds :
       /\ WriteStatus(j, "queued")
       /\ row' = [row EXCEPT ![j] = request[h].row]
  /\ Done(h)
  /\ StatusOnly /\ UNCHANGED output

\* The insert throws (the idempotency key is unique): the bytes go back.
InsertJobFails(h) ==
  /\ At(h, "create_insert")
  /\ KeyTaken(h) \/ "db" \in Events
  /\ BumpReserved(Minus(reserved, SourceSize))
  /\ Done(h)
  /\ KeepsJobs /\ UNCHANGED <<fileVars, image, generated>>

\* cancelQueuedProcessingJob: the status is read, then written by id.
CheckCancel(h, j) ==
  /\ "cancel" \in Events
  /\ Idle(h) /\ status[j] = "queued"
  /\ Become(h, [NoRequest EXCEPT !.step = "cancel_write", !.job = j])
  /\ OnlyRequest

WriteCancelled(h) ==
  /\ At(h, "cancel_write")
  /\ WriteStatus(request[h].job, "cancelled")
  /\ Step(h, "cancel_release")
  /\ StatusOnly /\ UNCHANGED jobVars

ReleaseCancelled(h) ==
  /\ At(h, "cancel_release")
  /\ BumpReserved(Minus(reserved, SourceSize))
  /\ Done(h)
  /\ KeepsJobs /\ UNCHANGED <<fileVars, image, generated>>

\* retryProcessingJob: the status and the attempts are read, then written by id.
CheckRetry(h, j) ==
  /\ "retry" \in Events
  /\ Idle(h) /\ status[j] \in {"failed", "cleanup_failed"} /\ attempts[j] < MaxAttempts
  /\ Become(h, [NoRequest EXCEPT !.step = "retry_write", !.job = j])
  /\ OnlyRequest

WriteRetried(h) ==
  /\ At(h, "retry_write")
  /\ Requeued({request[h].job})
  /\ output' = [output EXCEPT ![request[h].job] = 0]
  /\ Step(h, "retry_reserve")
  /\ StatusOnly /\ UNCHANGED <<attempts, row>>

ReserveRetried(h) ==
  /\ At(h, "retry_reserve")
  /\ BumpReserved(reserved + SourceSize)
  /\ Done(h)
  /\ KeepsJobs /\ UNCHANGED <<fileVars, image, generated>>

-----------------------------------------------------------------------------
(* Image deletion and replacement, as far as the jobs see them *)

ForImage(i, step) == [NoRequest EXCEPT !.step = step, !.row.image = i]

\* acquireImageDeletion, then onImageDeletionInvalidateProcessing.
AcquireDeletion(h, i) ==
  /\ "delete" \in Events
  /\ Idle(h) /\ image[i].status # "deleted" /\ ~image[i].replacing
  /\ image' = [image EXCEPT ![i].status = "deleted"]
  /\ Become(h, ForImage(i, "delete_jobs"))
  /\ KeepsJobs /\ UNCHANGED <<fileVars, quotaVars>>

StaleDeletedJobs(h) ==
  /\ At(h, "delete_jobs")
  /\ MarkActiveJobsStale(request[h].row.image)
  /\ Step(h, "delete_list")
  /\ StatusOnly /\ UNCHANGED jobVars

\* listActiveDerivativesForImage
ListDerivatives(h) ==
  /\ At(h, "delete_list")
  /\ Become(h, [request[h] EXCEPT !.step = "delete_next", !.todo =
       {k \in OutputKeys : ImageOfKey(k) = request[h].row.image
          /\ derivative[k] \in {"active", "cleanup_pending", "cleanup_failed"}}])
  /\ OnlyRequest

\* The next listed derivative becomes cleanup_pending, by its id.
PendDerivative(h) ==
  /\ At(h, "delete_next")
  /\ \E k \in request[h].todo :
       /\ derivative' = [derivative EXCEPT ![k] = "cleanup_pending"]
       /\ Become(h, [request[h] EXCEPT !.step = "delete_object", !.current = k,
                                       !.todo = @ \ {k}])
  /\ KeepsJobs /\ UNCHANGED <<objects, quotaVars, image>>

\* Its exact key is deleted and verified absent, or that fails.
DeleteDerivative(h) ==
  LET k == request[h].current
  IN /\ At(h, "delete_object")
     /\ \/ objects' = objects \ {k} /\ Step(h, "delete_done")
        \/ /\ "storage" \in Events
           /\ objects' \in {objects, objects \ {k}}
           /\ Step(h, "delete_failed")
     /\ KeepsJobs /\ UNCHANGED <<derivative, quotaVars, image>>

RecordDeletion(h) ==
  LET Record(st, step) ==
        /\ derivative' = [derivative EXCEPT ![request[h].current] = st]
        /\ Become(h, [request[h] EXCEPT !.step = step, !.current = None])
  IN /\ \/ At(h, "delete_done") /\ Record("deleted", "delete_uncharge")
        \/ At(h, "delete_failed") /\ Record("cleanup_failed", "delete_next")
     /\ KeepsJobs /\ UNCHANGED <<objects, quotaVars, image>>

UnchargeDerivative(h) ==
  /\ At(h, "delete_uncharge")
  /\ \/ generated' = Minus(generated, OutputSize)
     \/ "db" \in Events /\ UNCHANGED generated
  /\ Step(h, "delete_next")
  /\ KeepsJobs /\ UNCHANGED <<fileVars, image, reserved>>

DeletionInvalidated(h) ==
  /\ At(h, "delete_next") /\ request[h].todo = {}
  /\ Done(h)
  /\ OnlyRequest

\* The replacement row is inserted and the image demoted, then
\* onReplacementInvalidateProcessing.
BeginReplacement(h, i) ==
  /\ "replace" \in Events
  /\ Idle(h) /\ image[i].status # "deleted" /\ ~image[i].replacing
  /\ image[i].revision < MaxRevisions
  /\ image' = [image EXCEPT ![i].replacing = TRUE, ![i].status = "validated"]
  /\ Become(h, ForImage(i, "replace_jobs"))
  /\ KeepsJobs /\ UNCHANGED <<fileVars, quotaVars>>

StaleReplacedJobs(h) ==
  /\ At(h, "replace_jobs")
  /\ MarkActiveJobsStale(request[h].row.image)
  /\ Step(h, "replace_derivatives")
  /\ StatusOnly /\ UNCHANGED jobVars

\* markDerivativesStaleForImage: the generated bytes stay charged.
StaleReplacedDerivatives(h) ==
  /\ At(h, "replace_derivatives")
  /\ derivative' = [k \in OutputKeys |->
                      IF ImageOfKey(k) = request[h].row.image /\ derivative[k] = "active"
                      THEN "stale" ELSE derivative[k]]
  /\ Done(h)
  /\ KeepsJobs /\ UNCHANGED <<objects, quotaVars, image>>

\* The replacement is promoted or cancelled, once the begin call has
\* returned its id; the image is then ready again.
EndReplacement(i) ==
  /\ image[i].replacing
  /\ \A h \in Handlers : request[h].row.image = i =>
       request[h].step \notin {"replace_jobs", "replace_derivatives"}
  /\ \E revision \in {image[i].revision, image[i].revision + 1} :
       image' = [image EXCEPT ![i] = [revision |-> revision,
                                      status |-> "ready_for_processing",
                                      replacing |-> FALSE]]
  /\ KeepsJobs /\ UNCHANGED <<fileVars, quotaVars, request>>

\* A web process dies, or a statement throws, in the middle of a request.
HandlerDies(h) ==
  /\ Events \cap {"webcrash", "db"} # {}
  /\ ~Idle(h)
  /\ Done(h)
  /\ OnlyRequest

HandlerStep(h) ==
  \/ ReserveForCreate(h)
  \/ InsertJob(h)
  \/ InsertJobFails(h)
  \/ WriteCancelled(h)
  \/ ReleaseCancelled(h)
  \/ WriteRetried(h)
  \/ ReserveRetried(h)
  \/ StaleDeletedJobs(h)
  \/ ListDerivatives(h)
  \/ PendDerivative(h)
  \/ DeleteDerivative(h)
  \/ RecordDeletion(h)
  \/ UnchargeDerivative(h)
  \/ DeletionInvalidated(h)
  \/ StaleReplacedJobs(h)
  \/ StaleReplacedDerivatives(h)
  \/ HandlerDies(h)

UserStep(h) ==
  \/ \E i \in Images, v \in Variants, k \in Keys \cup {None} : CheckCreate(h, i, v, k)
  \/ \E j \in Jobs : CheckCancel(h, j) \/ CheckRetry(h, j)
  \/ \E i \in Images : AcquireDeletion(h, i) \/ BeginReplacement(h, i)

-----------------------------------------------------------------------------
(* Specification *)

\* What a step of the queue does to this module's variables: an execution
\* that is gone has forgotten what it read.
OnQueue ==
  /\ previous' = [s \in Slots |-> IF pc'[s] = "idle" THEN None ELSE previous[s]]
  /\ UNCHANGED <<jobVars, fileVars, quotaVars, image, request>>

Next ==
  \/ QueueNext /\ OnQueue
  \/ \E s \in Slots : ExecuteProcessingJob(s)
  \/ \E h \in Handlers : HandlerStep(h) \/ UserStep(h)
  \/ \E i \in Images : EndReplacement(i)

Spec == Init /\ [][Next]_vars

WorkerLoop(w) ==
  /\ SelectExpiredLeases(w) \/ RequeueExpiredLeases(w) \/ ClaimQueuedJobs(w)
  /\ OnQueue

\* The lease of a row whose owner no longer beats runs out.
LeaseRunsOut(j) == ~Beats(owner[j], j) /\ LeaseLapses(j) /\ OnQueue

ExecutionStep(s) == ExecuteProcessingJob(s) \/ (FinishExecution(s) /\ OnQueue)

\* The worker polls for ever, an execution runs on until it returns (every R2
\* call and every transform ends or throws), and time passes.  Nothing is
\* assumed of users, of crashes or of a restart.
LiveSpec ==
  /\ Spec
  /\ \A w \in Workers : WF_vars(WorkerLoop(w))
  /\ \A s \in Slots : WF_vars(ExecutionStep(s))
  /\ \A j \in Jobs : WF_vars(LeaseRunsOut(j))

-----------------------------------------------------------------------------
(* Properties *)

InService(w) == mode[w] # "released"
Begun(s) == Live(s) /\ keyAttempt[s] > 0

\* claimQueuedJobs, "multiple workers never claim the same row": at any time
\* the executions of a job hold different attempts of its budget, none beyond
\* those counted in attempt_count, whatever stalls, crashes and is requeued.
\* (A released worker has given its attempts back and is about to exit.)
ClaimsDistinct ==
  \A s, t \in Slots :
    /\ Live(s) /\ InService(s[1]) => s[3] <= attempts[s[2]]
    /\ Live(s) /\ Live(t) /\ InService(s[1]) /\ InService(t[1])
         /\ s[2] = t[2] /\ s[3] = t[3] => s = t

\* buildDerivativeStorageKey: two workers in service never write the same
\* output object, even when both of them execute the same job because one has
\* lost its lease without noticing.
WritersDisjoint ==
  \A s, t \in Slots :
    Begun(s) /\ Begun(t) /\ s[2] = t[2] /\ s[1] # t[1]
      /\ InService(s[1]) /\ InService(t[1]) => KeyOf(s) # KeyOf(t)

\* executeProcessingJob: without stalls a job has one execution at work at a
\* time, across crashes, requeues and retries, as long as its
\* image is not deleted (a stale job is not renewed by its heartbeats, and the
\* execution that revives it has then lost its lease).
SoleWriter ==
  \A s, t \in Slots :
    Begun(s) /\ Begun(t) /\ pc[s] # "clear" /\ pc[t] # "clear" /\ s[2] = t[2]
      /\ image[ImageOf(s[2])].status # "deleted" => s = t

\* executeProcessingJob retires the previous derivative: an image has one
\* active derivative per operation and preset, also when an execution crashed
\* after its insert and the job ran again.
OneActive ==
  \A k, l \in OutputKeys :
    derivative[k] = "active" /\ derivative[l] = "active"
      /\ SameTarget(row[k[1]], row[l[1]]) => k = l

\* executeProcessingJob: a completed job names an output, and the derivative
\* row of that output was inserted, whichever execution wrote last.
CompletedHasDerivative ==
  \A j \in Jobs : status[j] = "completed" =>
    output[j] > 0 /\ derivative[<<j, output[j]>>] # "none"

\* The saga's order, PUT before the insert and cleanup_pending before the
\* DELETE: a derivative offered to users has its object in R2.
ActiveHasObject == \A k \in OutputKeys : derivative[k] = "active" => k \in objects

\* ARCHITECTURE.md:221, "failure cleans exact derivative key; cleanup_failed
\* recoverable": every object is named by a derivative or a job, or an
\* execution still holds its key; nothing else would ever delete it.
ObjectsOwned ==
  \A k \in objects :
    \/ derivative[k] # "none"
    \/ output[k[1]] = k[2]
    \/ \E s \in Slots : Begun(s) /\ KeyOf(s) = k

\* executeProcessingJob credits an output once: the project is never charged
\* for more than the derivatives it has.
NeverOvercharged ==
  generated <= OutputSize *
    Cardinality({k \in OutputKeys : derivative[k] \notin {"none", "deleted"}})

\* executeProcessingJob and recoverExpiredLeases: a completed job stays
\* completed, though both write without looking at the status.
CompletedIsFinal ==
  [][\A j \in Jobs : status[j] = "completed" => status'[j] = "completed"]_vars

\* A created job ends, also when a worker dies on it: it reaches a terminal
\* status, or it waits with its budget spent for the reconciliation script.
JobSettles ==
  \A j \in Jobs :
    status[j] \in ActiveStatus ~>
      status[j] \notin ActiveStatus \/ (status[j] = "queued" /\ attempts[j] = MaxAttempts)

\* claimQueuedJobs, recoverExpiredLeases and releaseInFlightLeasesOnShutdown
\* together hand out a job's attempts as AttemptTickets says: whatever stalls,
\* expires, crashes or shuts down, an attempt in a worker's hands is not given
\* to another.
Tickets == INSTANCE AttemptTickets WITH
             issued <- attempts,
             held <- {s \in Slots : Live(s) /\ InService(s[1])}
TicketsImplemented == Tickets!Spec
=============================================================================
