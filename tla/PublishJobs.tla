------------------------------ MODULE PublishJobs ------------------------------
(***************************************************************************)
(* Publishing one image to WordPress, Shopify or Webflow: the publish jobs *)
(* of publish-service.ts, the bulk parent of bulk.ts and the reconcile     *)
(* script of reconcile.ts, which the three connectors under src/server     *)
(* have with the same control and different remote calls, and the worker   *)
(* of scripts/processing-worker.ts that executes the jobs.                 *)
(*                                                                         *)
(* One action is one statement on the database or one call of the remote   *)
(* site, with the pure reads that gate it.  The status a connector writes  *)
(* while it transfers the file (uploading_media; creating_asset,           *)
(* uploading_asset, verifying_asset) is "uploading" here; updating_metadata*)
(* and updating_cms_item are "updating"; verifying_remote and              *)
(* verifying_cms_item are "verifying".                                     *)
(***************************************************************************)
EXTENDS Naturals, FiniteSets

CONSTANTS
  Platforms,    \* the connectors to look at: "wordpress", "shopify", "webflow"
  Jobs,         \* publish jobs that can be created
  Children,     \* those of them that the bulk publish creates
  Workers,      \* worker processes
  Parallel,     \* executions a worker has in flight at most
  Requests,     \* web requests in progress at a time
  Scripts,      \* runs of the reconcile script in progress at a time
  None,         \* no job, no owner
  MaxAttempts,  \* WORDPRESS_PUBLISH_MAX_ATTEMPTS_DEFAULT
  MaxOps,       \* bound: user requests and changes of the image in a behaviour
  MaxFaults,    \* bound: faults in a behaviour
  Faults        \* "crash", "remote", "db", "stall"

ASSUME PublishAssumption ==
  /\ Platforms \subseteq {"wordpress", "shopify", "webflow"}
  /\ IsFiniteSet(Jobs) /\ Children \subseteq Jobs /\ None \notin Jobs \cup Workers
  /\ Scripts \cap Requests = {}
  /\ {Parallel, MaxAttempts} \subseteq Nat \ {0}
  /\ {MaxOps, MaxFaults} \subseteq Nat
  /\ Faults \subseteq {"crash", "remote", "db", "stall"}

VARIABLES
  platform,    \* the connector
  connection,  \* the connection's status
  image,       \* the image: revision of its original, those its approved metadata
               \* and its active derivative were made from, and whether it is deleted
  job,         \* the publish jobs' rows
  bulk,        \* the bulk job's row: its status and its counters
  mapping,     \* media mappings: for a source, the job and asset they name
  made,        \* number of assets the remote site made for each job
  exec,        \* the worker's executions
  req,         \* where each request and script is
  overslept,   \* history: jobs whose lease was requeued under an execution that
               \* had already read its row
  ops,         \* user requests so far
  faults       \* faults so far

world == <<connection, image>>
site == <<mapping, made>>
vars == <<platform, world, job, bulk, site, exec, req, overslept, ops, faults>>

Revisions == 1 .. 2
Sources == {"original", "derivative"} \X Revisions
NoSource == <<"original", 0>>
Slots == Workers \X (1 .. Parallel)
Tasks == Requests \cup Scripts

TransferStatus == {"validating", "uploading", "updating", "verifying"}
RetryableStatus == {"failed", "partially_completed", "stale"}
Terminal == RetryableStatus \cup {"completed", "cancelled"}
JobStatus == {"none", "queued", "leased"} \cup TransferStatus \cup Terminal
BulkFinal == {"completed", "partially_completed", "failed", "cancelled"}
BulkStatus == {"none", "queued", "running"} \cup BulkFinal

Steps == {"idle", "begin", "validating", "check", "uploading", "upload", "send", "inspect", "record",
          "updating", "update", "verifying", "verify", "find", "map", "finish", "fail", "late"}

NoExec == [job |-> None, step |-> "idle", attempts |-> 0, remote |-> 0,
           soft |-> FALSE, err |-> "none", found |-> FALSE]
Zero == [pending |-> 0, running |-> 0, completed |-> 0, failed |-> 0, cancelled |-> 0]
NoTask == [step |-> "idle", job |-> None, todo |-> {}, counts |-> Zero]

Init ==
  /\ platform \in Platforms
  /\ connection = "active"
  /\ image = [rev |-> 1, approved |-> 1, derived |-> 1, deleted |-> FALSE]
  /\ job = [j \in Jobs |-> [status |-> "none", owner |-> None, attempts |-> 0,
                            remote |-> 0, source |-> NoSource]]
  /\ bulk = [status |-> "none", counts |-> Zero]
  /\ mapping = [s \in Sources |-> [job |-> None, remote |-> 0]]
  /\ made = [j \in Jobs |-> 0]
  /\ exec = [s \in Slots |-> NoExec]
  /\ req = [p \in Tasks |-> NoTask]
  /\ overslept = {} /\ ops = 0 /\ faults = 0

-----------------------------------------------------------------------------
(* Rows, executions and requests *)

At(s, step) == exec[s].step = step
Go(s, step) == exec' = [exec EXCEPT ![s].step = step]
End(s) == exec' = [exec EXCEPT ![s] = NoExec]
Job(s) == job[exec[s].job]
SetStatus(j, st) == job' = [job EXCEPT ![j].status = st]
Release(j, st) == job' = [job EXCEPT ![j].status = st, ![j].owner = None]

Does(p, step) == req[p].step = step
Move(p, step) == req' = [req EXCEPT ![p].step = step]
Done(p) == req' = [req EXCEPT ![p] = NoTask]
Ask(p, task) == Does(p, "idle") /\ ops < MaxOps /\ ops' = ops + 1 /\ req' = [req EXCEPT ![p] = task]

Fault(f) == f \in Faults /\ faults < MaxFaults /\ faults' = faults + 1
NoFault == faults' = faults

-----------------------------------------------------------------------------
(* Creating jobs: createPublishJob, singly and from createBulkPublishJob.  *)
(* A lost insert of an idempotency key that another request has just taken *)
(* leaves the rows as the early return for a known key does; so does a     *)
(* change of the image between the checks and the insert, which a          *)
(* validating execution meets as it meets any later change.                *)

ImageSource == <<"original", image.rev>>

Eligible(kind) ==
  /\ connection = "active" /\ ~image.deleted
  /\ image.approved = image.rev
  /\ kind = "derivative" => image.derived = image.rev

Inserted(j, kind) ==
  [job EXCEPT ![j].status = "queued", ![j].source = <<kind, image.rev>>]

CreateJob(p, j, kind) ==
  /\ p \in Requests /\ j \in Jobs \ Children
  /\ job[j].status = "none" /\ Eligible(kind)
  /\ Ask(p, NoTask)
  /\ job' = Inserted(j, kind)
  /\ UNCHANGED <<platform, overslept, world, bulk, site, exec, faults>>

CreateBulk(p) ==
  /\ p \in Requests /\ bulk.status = "none" /\ Children # {}
  /\ Ask(p, [NoTask EXCEPT !.step = "create", !.todo = Children])
  /\ bulk' = [status |-> "queued", counts |-> [Zero EXCEPT !.pending = Cardinality(Children)]]
  /\ UNCHANGED <<platform, overslept, world, job, site, exec, faults>>

\* The loop's next item; one that is not eligible is skipped.
CreateChild(p, j, kind) ==
  /\ Does(p, "create") /\ j \in req[p].todo
  /\ job' = IF Eligible(kind) THEN Inserted(j, kind) ELSE job
  /\ req' = [req EXCEPT ![p].todo = @ \ {j}]
  /\ UNCHANGED <<platform, overslept, world, bulk, site, exec, ops, faults>>

ChildrenCreated(p) ==
  /\ Does(p, "create") /\ req[p].todo = {}
  /\ Move(p, "recount")
  /\ UNCHANGED <<platform, overslept, world, job, bulk, site, exec, ops, faults>>

-----------------------------------------------------------------------------
(* The bulk row: recountBulkJob and cancelBulkPublishJob                   *)

\* Mutant of Count: the jobs are not those of this bulk job.
CountAll(statuses) == Cardinality({j \in Jobs : job[j].status \in statuses})

Count(statuses) == Cardinality({j \in Children : job[j].status \in statuses})
Recounted ==
  [pending   |-> Count({"queued", "leased"}),
   running   |-> Count(TransferStatus),
   completed |-> Count({"completed", "partially_completed"}),
   failed    |-> Count({"failed"}),
   cancelled |-> Count({"cancelled", "stale"})]

Rollup(c) ==
  CASE c.pending + c.running > 0 -> "running"
    [] c.pending + c.running = 0 /\ c.completed > 0 /\ c.failed + c.cancelled = 0 -> "completed"
    [] c.pending + c.running = 0 /\ c.completed > 0 /\ c.failed + c.cancelled > 0 -> "partially_completed"
    [] c.pending + c.running + c.completed = 0 /\ c.failed > 0 -> "failed"
    [] OTHER -> "cancelled"

ReadChildren(p) ==
  /\ Does(p, "recount")
  /\ req' = [req EXCEPT ![p].step = "rollup", ![p].counts = Recounted]
  /\ UNCHANGED <<platform, overslept, world, job, bulk, site, exec, ops, faults>>

WriteBulk(p) ==
  /\ Does(p, "rollup")
  /\ bulk' = [status |-> Rollup(req[p].counts), counts |-> req[p].counts]
  /\ Done(p)
  /\ UNCHANGED <<platform, overslept, world, job, site, exec, ops, faults>>

\* The row's cancelRequested is set first; nothing reads it.
CancelBulk(p) ==
  /\ p \in Requests /\ bulk.status # "none"
  /\ Ask(p, [NoTask EXCEPT !.step = "sweep"])
  /\ UNCHANGED <<platform, overslept, world, job, bulk, site, exec, faults>>

CancelQueued(p) ==
  /\ Does(p, "sweep")
  /\ job' = [j \in Jobs |-> IF j \in Children /\ job[j].status = "queued"
                          THEN [job[j] EXCEPT !.status = "cancelled"] ELSE job[j]]
  /\ Move(p, "recount")
  /\ UNCHANGED <<platform, overslept, world, bulk, site, exec, ops, faults>>

-----------------------------------------------------------------------------
(* retryPublishJob: the row is read, then written whatever it has become   *)

RetryJob(p, j) ==
  /\ p \in Requests /\ job[j].status \in RetryableStatus
  /\ Ask(p, [NoTask EXCEPT !.step = "retry", !.job = j])
  /\ UNCHANGED <<platform, overslept, world, job, bulk, site, exec, faults>>

WriteRetry(p) ==
  /\ Does(p, "retry")
  /\ job' = [job EXCEPT ![req[p].job].status = "queued", ![req[p].job].owner = None,
                       ![req[p].job].attempts = 0]
  /\ Done(p)
  /\ UNCHANGED <<platform, overslept, world, bulk, site, exec, ops, faults>>

-----------------------------------------------------------------------------
(* Claims, leases and the reconcile script                                 *)

Claim(s, j) ==
  /\ At(s, "idle")
  /\ job[j].status = "queued" /\ job[j].attempts < MaxAttempts
  /\ job' = [job EXCEPT ![j].status = "leased", ![j].owner = s[1], ![j].attempts = @ + 1]
  /\ exec' = [exec EXCEPT ![s].job = j, ![s].step = "begin"]
  /\ UNCHANGED <<platform, overslept, world, bulk, site, req, ops, faults>>

\* Mutant of RecoverExpired: the lease is cleared and the status is left.
RecoverLeaseOnly(j) ==
  /\ job[j].status = "leased" /\ job[j].owner # None /\ ~\E s \in Slots : exec[s].job = j
  /\ Release(j, "leased")
  /\ NoFault
  /\ UNCHANGED <<platform, overslept, world, bulk, site, exec, req, ops>>

Owners(j) == {s \in Slots : exec[s].job = j /\ s[1] = job[j].owner}

\* Nothing renews a lease: one that expires under its execution is a stall.
\* The execution may have read its row by then: the row is "leased" until
\* the execution's first write, which looks at nothing.
RecoverExpired(j) ==
  /\ job[j].status = "leased"
  /\ IF Owners(j) = {} THEN NoFault ELSE Fault("stall")
  /\ overslept' = IF \A s \in Owners(j) : At(s, "begin") THEN overslept ELSE overslept \cup {j}
  /\ Release(j, "queued")
  /\ UNCHANGED <<platform, world, bulk, site, exec, req, ops>>

\* Queued for 24 hours since it was created.
MarkStale(j) ==
  /\ job[j].status = "queued"
  /\ SetStatus(j, "stale")
  /\ UNCHANGED <<platform, overslept, world, bulk, site, exec, req, ops, faults>>

ReconcileBulk(p) ==
  /\ p \in Scripts /\ Does(p, "idle") /\ bulk.status = "running"
  /\ Move(p, "recount")
  /\ UNCHANGED <<platform, overslept, world, job, bulk, site, exec, ops, faults>>

-----------------------------------------------------------------------------
(* One execution: the saga of executeWordpressPublishJob, its Shopify and  *)
(* Webflow counterparts, and handleJobFailure                              *)

\* Mutant of Begin: the row read back is not compared with the claim.
BeginUnchecked(s) ==
  /\ At(s, "begin")
  /\ exec' = [exec EXCEPT ![s].step = "validating", ![s].attempts = Job(s).attempts,
                         ![s].remote = Job(s).remote]
  /\ UNCHANGED <<platform, overslept, world, job, bulk, site, req, ops, faults>>

Begin(s) ==
  /\ At(s, "begin")
  /\ IF Job(s).status = "leased" /\ Job(s).owner = s[1]
     THEN exec' = [exec EXCEPT ![s].step = "validating", ![s].attempts = Job(s).attempts,
                             ![s].remote = Job(s).remote]
     ELSE End(s)
  /\ UNCHANGED <<platform, overslept, world, job, bulk, site, req, ops, faults>>

\* setStatus, which looks at nothing, and the step after it.
Enter(s, step, st, next) ==
  /\ At(s, step)
  /\ SetStatus(exec[s].job, st)
  /\ Go(s, next)
  /\ UNCHANGED <<platform, overslept, world, bulk, site, req, ops, faults>>

Fails(s, err) == exec' = [exec EXCEPT ![s].step = "fail", ![s].err = err]

\* A job made from a derivative keeps the derivative's key as its source
\* revision: compared with the image's key, it is always out of date.
Refusal(s) ==
  CASE connection # "active" -> "retry"
    [] connection = "active" /\ (image.deleted \/ Job(s).source # ImageSource
                                 \/ image.approved # image.rev) -> "final"
    [] OTHER -> "none"

\* The rows it reads only ever go from good to bad after the connection is
\* read, so reading them at one moment refuses what reading them in turn would.
CheckFreshness(s) ==
  /\ At(s, "check")
  /\ IF Refusal(s) # "none" THEN Fails(s, Refusal(s))
     ELSE IF exec[s].remote = 0 THEN Go(s, "uploading") ELSE Go(s, "updating")
  /\ UNCHANGED <<platform, overslept, world, job, bulk, site, req, ops, faults>>

\* The stored object may be gone with the revision it belonged to.
SourceGone(s) ==
  /\ At(s, "upload") /\ (image.deleted \/ Job(s).source # ImageSource)
  /\ Fails(s, "retry")
  /\ UNCHANGED <<platform, overslept, world, job, bulk, site, req, ops, faults>>

Made(j) == made' = [made EXCEPT ![j] = @ + 1]

\* Webflow's asset exists from this call on, and still has to get its bytes.
\* The call may take effect although its answer is lost.
UploadAsset(s) ==
  /\ At(s, "upload")
  /\ \/ /\ Made(exec[s].job) /\ NoFault
        /\ exec' = [exec EXCEPT ![s].remote = made'[exec[s].job],
                               ![s].step = IF platform = "webflow" THEN "send" ELSE "record"]
     \/ Fault("remote") /\ Made(exec[s].job) /\ Fails(s, "retry")
     \/ Fault("remote") /\ UNCHANGED made /\ \E err \in {"retry", "final"} : Fails(s, err)
  /\ UNCHANGED <<platform, overslept, world, job, bulk, mapping, req, ops>>

\* uploadAssetBinary, then getAsset, of Webflow, each with the setStatus
\* before it.
SendBytes(s) ==
  /\ At(s, "send")
  /\ SetStatus(exec[s].job, "uploading")
  /\ \/ Go(s, "inspect") /\ NoFault
     \/ Fails(s, "retry") /\ Fault("remote")
  /\ UNCHANGED <<platform, overslept, world, bulk, site, req, ops>>

InspectAsset(s) ==
  /\ At(s, "inspect")
  /\ SetStatus(exec[s].job, "uploading")
  /\ \/ Go(s, "record") /\ NoFault
     \/ Fails(s, "retry") /\ Fault("remote")
  /\ UNCHANGED <<platform, overslept, world, bulk, site, req, ops>>

\* Mutant of RecordAsset: the asset's id waits for the job's last write.
RecordNothing(s) ==
  /\ At(s, "record")
  /\ Go(s, "updating")
  /\ UNCHANGED <<platform, overslept, world, job, bulk, site, req, ops, faults>>

RecordAsset(s) ==
  /\ At(s, "record")
  /\ job' = [job EXCEPT ![exec[s].job].remote = exec[s].remote]
  /\ Go(s, "updating")
  /\ UNCHANGED <<platform, overslept, world, bulk, site, req, ops, faults>>

\* updateMedia, updateProductImageAlt (only if the upload has not set the
\* text), patchCollectionItem; getMedia, getProductImage, getCollectionItem.
\* Their failures are noted and do not stop the saga.
Call(s, step, next) ==
  /\ At(s, step)
  /\ \/ Go(s, next) /\ NoFault
     \/ exec' = [exec EXCEPT ![s].step = next, ![s].soft = TRUE] /\ Fault("remote")
  /\ UNCHANGED <<platform, overslept, world, job, bulk, site, req, ops>>

\* Mutant of FindMapping: after a soft failure the mapping is left out.
FindUnlessSoft(s) ==
  /\ At(s, "find")
  /\ exec' = [exec EXCEPT ![s].step = IF exec[s].soft THEN "finish" ELSE "map",
                         ![s].found = mapping[Job(s).source].job # None]
  /\ UNCHANGED <<platform, overslept, world, job, bulk, site, req, ops, faults>>

FindMapping(s) ==
  /\ At(s, "find")
  /\ exec' = [exec EXCEPT ![s].step = "map", ![s].found = mapping[Job(s).source].job # None]
  /\ UNCHANGED <<platform, overslept, world, job, bulk, site, req, ops, faults>>

\* An insert that finds the source mapped meanwhile is refused by the unique index.
WriteMapping(s) ==
  /\ At(s, "map")
  /\ IF ~exec[s].found /\ mapping[Job(s).source].job # None
     THEN mapping' = mapping /\ Fails(s, "retry")
     ELSE /\ mapping' = [mapping EXCEPT ![Job(s).source] = [job |-> exec[s].job, remote |-> exec[s].remote]]
          /\ Go(s, "finish")
  /\ UNCHANGED <<platform, overslept, world, job, bulk, made, req, ops, faults>>

\* finalizeJob, then the audit entry.  If that fails the saga has failed, with
\* its job already over.
Finish(s) ==
  /\ At(s, "finish")
  /\ Release(exec[s].job, IF exec[s].soft THEN "partially_completed" ELSE "completed")
  /\ \/ End(s) /\ NoFault
     \/ exec' = [exec EXCEPT ![s].step = "late", ![s].err = "retry"] /\ Fault("db")
  /\ UNCHANGED <<platform, overslept, world, bulk, site, req, ops>>

\* handleJobFailure
HandleFailure(s) ==
  /\ exec[s].step \in {"fail", "late"}
  /\ Release(exec[s].job, IF exec[s].err = "retry" /\ exec[s].attempts < MaxAttempts
                          THEN "queued" ELSE "failed")
  /\ End(s)
  /\ UNCHANGED <<platform, overslept, world, bulk, site, req, ops, faults>>

Statements == {"validating", "check", "uploading", "upload", "record", "updating", "verifying",
               "find", "map", "finish"}

\* A statement of the saga fails: INTERNAL_ERROR, which is retryable.
StatementFails(s) ==
  /\ exec[s].step \in Statements
  /\ Fails(s, "retry") /\ Fault("db")
  /\ UNCHANGED <<platform, overslept, world, job, bulk, site, req, ops>>

\* A failure outside the saga's try ends the execution.
ExecutionLost(s) ==
  /\ exec[s].step \in {"begin", "fail", "late"}
  /\ End(s) /\ Fault("db")
  /\ UNCHANGED <<platform, overslept, world, job, bulk, site, req, ops>>

Execute(s) ==
  \/ Begin(s) \/ Enter(s, "validating", "validating", "check") \/ CheckFreshness(s)
  \/ Enter(s, "uploading", "uploading", "upload") \/ SourceGone(s) \/ UploadAsset(s)
  \/ SendBytes(s) \/ InspectAsset(s) \/ RecordAsset(s)
  \/ Enter(s, "updating", "updating", "update") \/ Call(s, "update", "verifying")
  \/ Enter(s, "verifying", "verifying", "verify") \/ Call(s, "verify", "find")
  \/ FindMapping(s) \/ WriteMapping(s) \/ Finish(s) \/ HandleFailure(s)

-----------------------------------------------------------------------------
(* Faults of processes, and what else happens to the image and connection  *)

WorkerCrashes(w) ==
  /\ \E s \in Slots : s[1] = w /\ ~At(s, "idle")
  /\ exec' = [s \in Slots |-> IF s[1] = w THEN NoExec ELSE exec[s]]
  /\ Fault("crash")
  /\ UNCHANGED <<platform, overslept, world, job, bulk, site, req, ops>>

RequestCrashes(p) ==
  /\ ~Does(p, "idle")
  /\ Done(p) /\ Fault("crash")
  /\ UNCHANGED <<platform, overslept, world, job, bulk, site, exec, ops>>

\* A replacement's promotion, a processing run, an approval, a deletion.
ImageChanges ==
  /\ image' \in {[image EXCEPT !.rev = 2], [image EXCEPT !.derived = image.rev],
                [image EXCEPT !.approved = image.rev], [image EXCEPT !.deleted = TRUE]}
  /\ image' # image /\ ~image.deleted
  /\ ops < MaxOps /\ ops' = ops + 1
  /\ UNCHANGED <<platform, overslept, connection, job, bulk, site, exec, req, faults>>

\* disableConnection, enableConnection
ConnectionToggled ==
  /\ connection' = IF connection = "active" THEN "disabled" ELSE "active"
  /\ ops < MaxOps /\ ops' = ops + 1
  /\ UNCHANGED <<platform, overslept, image, job, bulk, site, exec, req, faults>>

-----------------------------------------------------------------------------
Respond(p) ==
  \/ \E j \in Jobs, kind \in {"original", "derivative"} : CreateChild(p, j, kind)
  \/ ChildrenCreated(p) \/ ReadChildren(p) \/ WriteBulk(p) \/ CancelQueued(p) \/ WriteRetry(p)

Next ==
  \/ \E p \in Tasks : Respond(p) \/ RequestCrashes(p) \/ ReconcileBulk(p)
  \/ \E p \in Tasks : CreateBulk(p) \/ CancelBulk(p)
  \/ \E p \in Tasks, j \in Jobs : RetryJob(p, j)
  \/ \E p \in Tasks, j \in Jobs, kind \in {"original", "derivative"} : CreateJob(p, j, kind)
  \/ \E s \in Slots, j \in Jobs : Claim(s, j)
  \/ \E j \in Jobs : RecoverExpired(j) \/ MarkStale(j)
  \/ \E s \in Slots : Execute(s) \/ StatementFails(s) \/ ExecutionLost(s)
  \/ \E w \in Workers : WorkerCrashes(w)
  \/ ImageChanges \/ ConnectionToggled

Spec == Init /\ [][Next]_vars

(* Requests and executions go on; the workers poll for queued jobs and     *)
(* expired leases, and the reconcile script is run again and again.        *)
Fairness ==
  /\ \A s \in Slots : WF_vars(Execute(s))
  /\ \A j \in Jobs : WF_vars(\E s \in Slots : Claim(s, j))
  /\ \A j \in Jobs : WF_vars(RecoverExpired(j) \/ MarkStale(j))
  /\ \A p \in Requests : WF_vars(Respond(p))
  /\ \A p \in Scripts : WF_vars(Respond(p) \/ ReconcileBulk(p))

FairSpec == Spec /\ Fairness

-----------------------------------------------------------------------------
TypeOK ==
  /\ platform \in Platforms /\ connection \in {"active", "disabled"}
  /\ image \in [rev : Revisions, approved : Revisions, derived : Revisions, deleted : BOOLEAN]
  /\ job \in [Jobs -> [status : JobStatus, owner : Workers \cup {None}, attempts : 0 .. MaxAttempts,
                      remote : Nat, source : Sources \cup {NoSource}]]
  /\ bulk \in [status : BulkStatus, counts : [DOMAIN Zero -> 0 .. Cardinality(Children)]]
  /\ mapping \in [Sources -> [job : Jobs \cup {None}, remote : Nat]]
  /\ made \in [Jobs -> Nat]
  /\ exec \in [Slots -> [job : Jobs \cup {None}, step : Steps, attempts : 0 .. MaxAttempts, remote : Nat,
                        soft : BOOLEAN, err : {"none", "retry", "final"}, found : BOOLEAN]]
  /\ overslept \subseteq Jobs /\ ops \in 0 .. MaxOps /\ faults \in 0 .. MaxFaults

Working(s) == exec[s].step \notin {"idle", "begin", "late"}

\* No other execution of its job works while this one does.
Alone(s) == \A t \in Slots \ {s} : Working(t) => exec[t].job # exec[s].job

(* No two executions of a job work at the same time, and none works on a   *)
(* job that is queued again or over: the claim, the check that follows it, *)
(* the lease recovery, retries, cancellations and the stale sweep leave    *)
(* the unconditional writes of the saga to one writer.  Excepted is a job  *)
(* whose lease once expired between an execution's read of the row and its *)
(* first write.                                                            *)
SoleExecution ==
  \A s \in Slots : Working(s) /\ exec[s].job \notin overslept =>
    /\ Job(s).status \in {"leased"} \cup TransferStatus
    /\ Alone(s)

(* Every asset the site has beyond the one the job records is the work of  *)
(* a fault, or of an execution that is about to record it.                 *)
DuplicatesExplained ==
  \A j \in Jobs :
    LET recorded == IF job[j].remote > 0 THEN 1 ELSE 0
        unrecorded == {s \in Slots : exec[s].job = j /\ exec[s].step \in {"send", "inspect", "record"}}
    IN made[j] - recorded <= faults + Cardinality(unrecorded)

(* A published job has an asset and its source is mapped; a mapping names  *)
(* the asset its job records, unless the job's lease once expired between  *)
(* an execution's read of the row and its first write.                     *)
MappingsAgree ==
  /\ \A j \in Jobs : job[j].status \in {"completed", "partially_completed"} =>
       job[j].remote > 0 /\ mapping[job[j].source].job # None
  /\ \A k \in Sources : mapping[k].job \notin overslept \cup {None} =>
       mapping[k].remote = job[mapping[k].job].remote

Abandoned(j) == job[j].status \in TransferStatus /\ ~\E s \in Slots : exec[s].job = j

(* Whatever comes over it, a job reaches an end again and again, or is     *)
(* abandoned by an execution that died in the middle: no lost lease and no *)
(* failure parks it. And a bulk publish does not stay running when its     *)
(* jobs are over, although it is recounted at three points only.           *)
PublishingSettles ==
  /\ \A j \in Jobs : []<>(job[j].status \in {"none"} \cup Terminal \/ Abandoned(j))
  /\ []<>(bulk.status = "running" => \E j \in Children : job[j].status \notin Terminal \cup {"none"})
=============================================================================
