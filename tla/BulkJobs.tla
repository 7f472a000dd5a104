------------------------------ MODULE BulkJobs ------------------------------
(***************************************************************************)
(* One bulk job of src/server/images/bulk-service.ts: a row with           *)
(* denormalised counters over one item per image, and under each item one  *)
(* child processing job that the workers execute (ProcessingJobs models    *)
(* that execution; here a child is only its status and its lease owner).   *)
(* Requests, the workers' terminal callbacks (bulk-queue-sync.ts) and the  *)
(* reconcile script change the rows step by step, and every one of them    *)
(* recounts the items: it reads them and the row, and writes in a later step.*)
(***************************************************************************)
EXTENDS Naturals, FiniteSets

CONSTANTS
  Images,       \* the images selected, one item each
  Requests,     \* request handlers that may be in progress together
  Workers,      \* worker executions that may be in progress together
  Reconcilers,  \* runs of the reconcile script that may be in progress together
  None,         \* no owner
  Concurrency,  \* BULK_MAX_CONCURRENCY
  MaxAttempts,  \* MAX_PROCESSING_ATTEMPTS
  MaxOps,       \* bound: user requests in a behaviour
  MaxFaults,    \* bound: faults in a behaviour
  Faults        \* "crash", "expire", "refuse", "delete", "replace"

ASSUME BulkAssumption ==
  /\ IsFiniteSet(Images) /\ Images # {}
  /\ Concurrency \in Nat \ {0} /\ MaxAttempts \in Nat \ {0}
  /\ MaxOps \in Nat /\ MaxFaults \in Nat
  /\ Faults \subseteq {"crash", "expire", "refuse", "delete", "replace"}
  /\ None \notin Workers
  /\ Requests \cap Workers = {} /\ Requests \cap Reconcilers = {} /\ Workers \cap Reconcilers = {}
  /\ (Requests \cup Workers \cup Reconcilers) \cap (Requests \X Images) = {}

VARIABLES
  bulk,      \* the row of bulk_jobs
  aged,      \* its updatedAt is more than BULK_STALE_RUNNING_MS ago
  item,      \* bulk_job_items.status
  linked,    \* bulk_job_items.processingJobId is set
  ready,     \* the image is ready
  job,       \* processing_jobs.status of the child
  owner,     \* its lease owner
  attempts,  \* its attempt count
  at,        \* where each task is
  seen,      \* per flow, the item's processingJobId in the run's selection
  work,      \* per worker, the image it executes and then the status it reports
  rc,        \* per task, its recount in progress
  scan,      \* what the reconcile script read
  ops,       \* user requests so far
  faults,    \* faults so far
  quiet      \* history: a cancel has swept the items and no retry has begun since

rows == <<bulk, aged, item, linked>>
jobs == <<ready, job, owner, attempts>>
vars == <<rows, jobs, at, seen, work, rc, scan, ops, faults, quiet>>

ItemStatus == {"pending", "running", "completed", "failed", "skipped", "cancelled", "stale"}
BulkTerminal == {"completed", "partially_completed", "failed", "cancelled"}
BulkStatus == {"none", "validating", "queued", "running"} \cup BulkTerminal
JobStatus == {"none", "queued", "processing", "completed", "failed", "stale", "cancelled"}

Flows == Requests \X Images
Tasks == Requests \cup Flows \cup Workers \cup Reconcilers

CountNames == {"pending", "running", "completed", "failed", "skipped", "cancelled"}
Zero == [c \in CountNames |-> 0]

(* The counters of a set of items; a stale item counts as cancelled. *)
Counts(it) ==
  [c \in CountNames |->
     Cardinality({i \in DOMAIN it :
       it[i] = c \/ (c = "cancelled" /\ it[i] = "stale")})]

(* The status the row gets from its counters. *)
FinalizeBulkStatus(c, total, cancelRequested) ==
  CASE c["pending"] > 0 \/ c["running"] > 0 -> "running"
    [] cancelRequested /\ c["completed"] = 0 /\ c["failed"] = 0
         /\ c["pending"] + c["running"] = 0 -> "cancelled"
    [] OTHER ->
         IF c["completed"] > 0
         THEN IF c["failed"] > 0 \/ c["cancelled"] > 0 THEN "partially_completed" ELSE "completed"
         ELSE IF c["failed"] > 0
         THEN IF c["cancelled"] > 0 \/ c["skipped"] > 0 THEN "partially_completed" ELSE "failed"
         ELSE IF c["cancelled"] = 0 /\ c["skipped"] = total /\ total > 0 THEN "completed" ELSE "failed"

Recount0 == [step |-> "none", counts |-> Zero, cancel |-> FALSE]
Scan0 == [status |-> "none", aged |-> FALSE, counts |-> Zero]
Idle0 == [image |-> None, report |-> "none"]

Items == DOMAIN item   \* the items inserted so far

Init ==
  /\ bulk = [status |-> "none", counts |-> Zero, cancel |-> FALSE]
  /\ aged = FALSE
  /\ item = <<>>
  /\ linked = [i \in Images |-> FALSE]
  /\ ready \in [Images -> BOOLEAN]
  /\ job = [i \in Images |-> "none"]
  /\ owner = [i \in Images |-> None]
  /\ attempts = [i \in Images |-> 0]
  /\ at = [t \in Tasks |-> "idle"]
  /\ seen = [f \in Flows |-> FALSE]
  /\ work = [w \in Workers |-> Idle0]
  /\ rc = [t \in Tasks |-> Recount0]
  /\ scan = [k \in Reconcilers |-> Scan0]
  /\ ops = 0 /\ faults = 0
  /\ quiet = FALSE

(***************************************************************************)
(* Helpers: a task moves on, and starts a recount before its next step.    *)
(***************************************************************************)
Ready(t, pc) == at[t] = pc /\ rc[t].step = "none"
Goto(t, pc) == at' = [at EXCEPT ![t] = pc]
BeginRecount(t) == rc' = [rc EXCEPT ![t].step = "read"]
NoRecount == rc' = rc
WriteBulk(b) == bulk' = b /\ aged' = FALSE
SetItems(S, s) == item' = [i \in Items |-> IF i \in S THEN s ELSE item[i]]
PendingItems == {i \in Items : item[i] = "pending"}
Fault(f) == f \in Faults /\ faults < MaxFaults /\ faults' = faults + 1

(***************************************************************************)
(* recountBulkJob, by whichever task calls it. The two reads are one step: *)
(* whoever changes an item or the flag between them recounts afterwards.   *)
(***************************************************************************)
RecountRead(t) ==
  /\ rc[t].step = "read"
  /\ rc' = [rc EXCEPT ![t] = [step |-> "write", counts |-> Counts(item), cancel |-> bulk.cancel]]
  /\ UNCHANGED <<rows, jobs, at, seen, work, scan, ops, faults, quiet>>

RecountWrite(t) ==
  /\ rc[t].step = "write"
  /\ WriteBulk([bulk EXCEPT !.counts = rc[t].counts,
                            !.status = FinalizeBulkStatus(rc[t].counts, Cardinality(Images), rc[t].cancel)])
  /\ rc' = [rc EXCEPT ![t] = Recount0]
  /\ UNCHANGED <<item, linked, jobs, at, seen, work, scan, ops, faults, quiet>>

(***************************************************************************)
(* Requests.                                                               *)
(***************************************************************************)
Free(r) == Ready(r, "idle") /\ \A i \in Images : Ready(<<r, i>>, "idle")
BeginOp(r) == Free(r) /\ ops < MaxOps /\ ops' = ops + 1
Exists == bulk.status # "none"

(* createBulkJob: the row, with the counters it expects; then the items;   *)
(* then the status.                                                        *)
CreateBulk(r) ==
  /\ BeginOp(r) /\ ~Exists
  /\ LET ok == {i \in Images : ready[i]} IN
       WriteBulk([bulk EXCEPT !.status = "validating",
                              !.counts = [Zero EXCEPT !["pending"] = Cardinality(ok),
                                                      !["skipped"] = Cardinality(Images \ ok)]])
  /\ seen' = [f \in Flows |-> IF f[1] = r THEN ready[f[2]] ELSE seen[f]]
  /\ Goto(r, "insertItems")
  /\ UNCHANGED <<item, linked, jobs, work, rc, scan, faults, quiet>>

InsertItems(r) ==
  /\ Ready(r, "insertItems")
  /\ item' = [i \in Images |-> IF seen[<<r, i>>] THEN "pending" ELSE "skipped"]
  /\ seen' = [f \in Flows |-> IF f[1] = r THEN FALSE ELSE seen[f]]
  /\ Goto(r, "queueBulk")
  /\ UNCHANGED <<bulk, aged, linked, jobs, work, rc, scan, ops, faults, quiet>>

QueueBulk(r) ==
  /\ Ready(r, "queueBulk")
  /\ WriteBulk([bulk EXCEPT !.status = "queued"])
  /\ Goto(r, "idle")
  /\ UNCHANGED <<item, linked, jobs, seen, work, rc, scan, ops, faults, quiet>>

(* runBulkJob takes the row, selects the pending items, handles each and   *)
(* recounts once more.                                                     *)
StartRun(r) ==
  /\ \/ BeginOp(r) /\ Exists
     \/ Ready(r, "start") /\ ops' = ops
  /\ IF bulk.status \in {"queued", "partially_completed", "failed", "running"}
     THEN WriteBulk([bulk EXCEPT !.status = "running"]) /\ Goto(r, "select")
     ELSE UNCHANGED <<bulk, aged>> /\ Goto(r, "idle")   \* BULK_JOB_CONFLICT
  /\ UNCHANGED <<item, linked, jobs, seen, work, rc, scan, faults, quiet>>

SelectPending(r) ==
  /\ Ready(r, "select")
  /\ seen' = [f \in Flows |-> IF f[1] = r /\ f[2] \in PendingItems THEN linked[f[2]] ELSE seen[f]]
  /\ at' = [t \in Tasks |-> IF t = r THEN "flows"
                            ELSE IF t \in {r} \X PendingItems THEN "todo" ELSE at[t]]
  /\ UNCHANGED <<rows, jobs, work, rc, scan, ops, faults, quiet>>

FinishRun(r) ==
  /\ Ready(r, "flows")
  /\ \A i \in Images : Ready(<<r, i>>, "idle")
  /\ Goto(r, "idle") /\ BeginRecount(r)
  /\ UNCHANGED <<rows, jobs, seen, work, scan, ops, faults, quiet>>

(* cancelBulkJob raises the flag, then cancels what is pending.            *)
RequestCancel(r) ==
  /\ BeginOp(r) /\ Exists
  /\ WriteBulk([bulk EXCEPT !.cancel = TRUE])
  /\ Goto(r, "sweep")
  /\ UNCHANGED <<item, linked, jobs, seen, work, rc, scan, faults, quiet>>

CancelPending(r) ==
  /\ Ready(r, "sweep")
  /\ SetItems(PendingItems, "cancelled")
  /\ quiet' = TRUE
  /\ Goto(r, "idle") /\ BeginRecount(r)
  /\ UNCHANGED <<bulk, aged, linked, jobs, seen, work, scan, ops, faults>>

(* retryFailedBulkItems makes the failed items pending, clears the flag    *)
(* and runs the job.                                                       *)
ResetFailed(r) ==
  /\ BeginOp(r) /\ Exists
  /\ SetItems({i \in Items : item[i] = "failed"}, "pending")
  /\ quiet' = FALSE
  /\ Goto(r, "requeueBulk")
  /\ UNCHANGED <<bulk, aged, linked, jobs, seen, work, rc, scan, faults>>

RequeueBulk(r) ==
  /\ Ready(r, "requeueBulk")
  /\ WriteBulk([bulk EXCEPT !.cancel = FALSE, !.status = "queued"])
  /\ Goto(r, "start")
  /\ UNCHANGED <<item, linked, jobs, seen, work, rc, scan, ops, faults, quiet>>

(***************************************************************************)
(* processOneItem, a flow per item, Concurrency of them at a time.         *)
(***************************************************************************)
Active(r) == {i \in Images : at[<<r, i>>] \notin {"idle", "todo"} \/ rc[<<r, i>>].step # "none"}

\* Mutant of CheckCancelled: the flag is read once, when the run starts.
CheckNothing(r, i) ==
  LET f == <<r, i>> IN
  /\ Ready(f, "todo") /\ Cardinality(Active(r)) < Concurrency
  /\ Goto(f, "acquire")
  /\ UNCHANGED <<rows, jobs, seen, work, rc, scan, ops, faults, quiet>>

CheckCancelled(r, i) ==
  LET f == <<r, i>> IN
  /\ Ready(f, "todo") /\ Cardinality(Active(r)) < Concurrency
  /\ IF bulk.cancel
     THEN /\ SetItems({i} \cap PendingItems, "cancelled")
          /\ Goto(f, "idle") /\ BeginRecount(f)
     ELSE item' = item /\ Goto(f, "acquire") /\ NoRecount
  /\ UNCHANGED <<bulk, aged, linked, jobs, seen, work, scan, ops, faults, quiet>>

AcquireItem(r, i) ==
  LET f == <<r, i>> IN
  /\ Ready(f, "acquire")
  /\ SetItems({i} \cap PendingItems, "running")
  /\ IF i \notin PendingItems
     THEN Goto(f, "idle") /\ BeginRecount(f)
     ELSE Goto(f, IF seen[f] THEN "requeue" ELSE "create") /\ NoRecount
  /\ UNCHANGED <<bulk, aged, linked, jobs, seen, work, scan, ops, faults, quiet>>

(* createProcessingJob under the key of the bulk job and the image: an     *)
(* existing job is returned as it is; a refusal either skips or fails.     *)
CreateChild(r, i) ==
  LET f == <<r, i>> IN
  /\ Ready(f, "create")
  /\ \/ job[i] # "none" /\ Goto(f, IF job[i] = "completed" THEN "adopt" ELSE "link")
        /\ faults' = faults
     \/ job[i] = "none" /\ ~ready[i] /\ Goto(f, "skip") /\ faults' = faults
     \/ job[i] = "none" /\ ready[i] /\ Fault("refuse") /\ (Goto(f, "skip") \/ Goto(f, "fail"))
     \/ job[i] = "none" /\ ready[i] /\ Goto(f, "insert") /\ faults' = faults
  /\ UNCHANGED <<rows, jobs, seen, work, rc, scan, ops, quiet>>

InsertChild(r, i) ==
  LET f == <<r, i>> IN
  /\ Ready(f, "insert")
  /\ IF job[i] = "none"
     THEN job' = [job EXCEPT ![i] = "queued"] /\ Goto(f, "link")
     ELSE job' = job /\ Goto(f, "skip")            \* PROCESSING_JOB_CONFLICT
  /\ UNCHANGED <<rows, ready, owner, attempts, seen, work, rc, scan, ops, faults, quiet>>

(* The retry of an item requeues its child whatever became of its bytes    *)
(* and its attempts.                                                       *)
RequeueChild(r, i) ==
  LET f == <<r, i>> IN
  /\ Ready(f, "requeue")
  /\ IF job[i] \in {"failed", "queued"}
     THEN job' = [job EXCEPT ![i] = "queued"] /\ owner' = [owner EXCEPT ![i] = None]
     ELSE UNCHANGED <<job, owner>>
  /\ Goto(f, "link")
  /\ UNCHANGED <<rows, ready, attempts, seen, work, rc, scan, ops, faults, quiet>>

(* The last write of the flow, by the item's id alone, and its recount.    *)
Outcome == [skip |-> "skipped", fail |-> "failed", adopt |-> "completed", link |-> "running"]

SettleItem(r, i) ==
  LET f == <<r, i>> IN
  /\ at[f] \in DOMAIN Outcome /\ rc[f].step = "none"
  /\ SetItems({i}, Outcome[at[f]])
  /\ linked' = [linked EXCEPT ![i] = @ \/ at[f] \in {"adopt", "link"}]
  /\ Goto(f, "idle") /\ BeginRecount(f)
  /\ seen' = [seen EXCEPT ![f] = FALSE]
  /\ UNCHANGED <<bulk, aged, jobs, work, scan, ops, faults, quiet>>

(***************************************************************************)
(* The image is deleted or replaced: it stops being ready, its active jobs *)
(* become stale, and its pending items are withdrawn.                      *)
(***************************************************************************)
LoseImage(r, i) ==
  /\ Free(r) /\ ready[i]
  /\ \E kind \in {"delete", "replace"} : Fault(kind) /\ Goto(<<r, i>>, kind)
  /\ ready' = [ready EXCEPT ![i] = FALSE]
  /\ UNCHANGED <<rows, job, owner, attempts, seen, work, rc, scan, ops, quiet>>

StaleJobs(r, i) ==
  LET f == <<r, i>> IN
  /\ at[f] \in {"delete", "replace"}
  /\ job' = [job EXCEPT ![i] = IF @ \in {"queued", "processing"} THEN "stale" ELSE @]
  /\ Goto(f, IF at[f] = "delete" THEN "withdraw" ELSE "outdate")
  /\ UNCHANGED <<rows, ready, owner, attempts, seen, work, rc, scan, ops, faults, quiet>>

(* onImageInvalidateBulkItems *)
InvalidateItem(r, i) ==
  LET f == <<r, i>> IN
  /\ at[f] \in {"withdraw", "outdate"}
  /\ SetItems({i} \cap PendingItems, IF at[f] = "withdraw" THEN "cancelled" ELSE "stale")
  /\ Goto(f, "idle")
  /\ IF i \in PendingItems THEN BeginRecount(f) ELSE NoRecount
  /\ UNCHANGED <<bulk, aged, linked, jobs, seen, work, scan, ops, faults, quiet>>

(* The user acts on the child itself: cancelQueuedProcessingJob and        *)
(* retryProcessingJob report nothing to the bulk job.                      *)
UserCancelsChild(i) ==
  /\ job[i] = "queued" /\ ops < MaxOps /\ ops' = ops + 1
  /\ job' = [job EXCEPT ![i] = "cancelled"]
  /\ UNCHANGED <<rows, ready, owner, attempts, at, seen, work, rc, scan, faults, quiet>>

UserRetriesChild(i) ==
  /\ job[i] = "failed" /\ attempts[i] < MaxAttempts
  /\ ops < MaxOps /\ ops' = ops + 1
  /\ job' = [job EXCEPT ![i] = "queued"] /\ owner' = [owner EXCEPT ![i] = None]
  /\ UNCHANGED <<rows, ready, attempts, at, seen, work, rc, scan, faults, quiet>>

(***************************************************************************)
(* Workers: claim, execute, report.                                        *)
(***************************************************************************)
\* Mutant of ClaimChild: the attempts are not looked at.
ClaimAnyQueued(w, i) ==
  /\ Ready(w, "idle") /\ job[i] = "queued"
  /\ job' = [job EXCEPT ![i] = "processing"]
  /\ owner' = [owner EXCEPT ![i] = w]
  /\ attempts' = [attempts EXCEPT ![i] = @ + 1]
  /\ work' = [work EXCEPT ![w] = [image |-> i, report |-> "none"]]
  /\ Goto(w, "execute")
  /\ UNCHANGED <<rows, ready, seen, rc, scan, ops, faults, quiet>>

ClaimChild(w, i) ==
  /\ Ready(w, "idle")
  /\ job[i] = "queued" /\ attempts[i] < MaxAttempts
  /\ job' = [job EXCEPT ![i] = "processing"]
  /\ owner' = [owner EXCEPT ![i] = w]
  /\ attempts' = [attempts EXCEPT ![i] = @ + 1]
  /\ work' = [work EXCEPT ![w] = [image |-> i, report |-> "none"]]
  /\ Goto(w, "execute")
  /\ UNCHANGED <<rows, ready, seen, rc, scan, ops, faults, quiet>>

Holds(w, i) == work[w].image = i /\ at[w] = "execute"

\* Mutant of FinishChild: the execution that lost its claim reports its own result.
FinishBlindly(w, i) ==
  /\ Holds(w, i)
  /\ \E s \in {"completed", "failed"} :
       /\ IF job[i] = "processing" /\ owner[i] = w
          THEN job' = [job EXCEPT ![i] = s] /\ owner' = [owner EXCEPT ![i] = None]
          ELSE UNCHANGED <<job, owner>>
       /\ work' = [work EXCEPT ![w].report = s]
  /\ Goto(w, "report")
  /\ UNCHANGED <<rows, ready, attempts, seen, rc, scan, ops, faults, quiet>>

(* The execution that lost its claim reports "failed" all the same.        *)
FinishChild(w, i) ==
  /\ Holds(w, i)
  /\ \E s \in {"completed", "failed"} :
       /\ IF job[i] = "processing" /\ owner[i] = w
          THEN job' = [job EXCEPT ![i] = s] /\ owner' = [owner EXCEPT ![i] = None]
          ELSE s = "failed" /\ UNCHANGED <<job, owner>>
       /\ work' = [work EXCEPT ![w].report = s]
  /\ Goto(w, "report")
  /\ UNCHANGED <<rows, ready, attempts, seen, rc, scan, ops, faults, quiet>>

(* onProcessingJobTerminalForBulk finds the item by the child it records.  *)
ReportChild(w) ==
  LET i == work[w].image IN
  /\ at[w] = "report"
  /\ IF i \in Items /\ linked[i]
     THEN SetItems({i}, work[w].report) /\ BeginRecount(w)
     ELSE item' = item /\ NoRecount
  /\ work' = [work EXCEPT ![w] = Idle0]
  /\ Goto(w, "idle")
  /\ UNCHANGED <<bulk, aged, linked, jobs, seen, scan, ops, faults, quiet>>

(* A lease runs out when its worker died, or when its worker stalls.       *)
RecoverLease(i) ==
  /\ job[i] = "processing"
  /\ IF \E w \in Workers : owner[i] = w /\ Holds(w, i)
     THEN Fault("expire")
     ELSE faults' = faults
  /\ job' = [job EXCEPT ![i] = "queued"] /\ owner' = [owner EXCEPT ![i] = None]
  /\ UNCHANGED <<rows, ready, attempts, at, seen, work, rc, scan, ops, quiet>>

(***************************************************************************)
(* reconcileProjectBulkJobs, on the row and the items it read.             *)
(***************************************************************************)
Age ==
  /\ Exists /\ ~aged /\ Reconcilers # {}
  /\ aged' = TRUE
  /\ UNCHANGED <<bulk, item, linked, jobs, at, seen, work, rc, scan, ops, faults, quiet>>

ReconcileRow(k) ==
  /\ Ready(k, "idle") /\ Exists
  /\ scan' = [scan EXCEPT ![k] = [status |-> bulk.status, aged |-> aged, counts |-> bulk.counts]]
  /\ Goto(k, "items")
  /\ UNCHANGED <<rows, jobs, seen, work, rc, ops, faults, quiet>>

\* Mutant of ReconcileItems: only the number of items is compared.
ReconcileTotals(k) ==
  /\ Ready(k, "items")
  /\ IF Cardinality(Items) # Cardinality(Images) THEN BeginRecount(k) ELSE NoRecount
  /\ scan' = [scan EXCEPT ![k].counts = Counts(item)]
  /\ Goto(k, "verdict")
  /\ UNCHANGED <<rows, jobs, seen, work, ops, faults, quiet>>

ReconcileItems(k) ==
  /\ Ready(k, "items")
  /\ IF Counts(item) # scan[k].counts \/ Cardinality(Items) # Cardinality(Images)
     THEN BeginRecount(k)
     ELSE NoRecount
  /\ scan' = [scan EXCEPT ![k].counts = Counts(item)]
  /\ Goto(k, "verdict")
  /\ UNCHANGED <<rows, jobs, seen, work, ops, faults, quiet>>

\* Mutant of Abandoned: a row is abandoned only when nothing is pending or running.
AbandonedIdle(k) ==
  scan[k].status = "running" /\ scan[k].aged /\ scan[k].counts["running"] = 0

Abandoned(k) == scan[k].status = "running" /\ scan[k].aged
StaleQueued(k) ==
  scan[k].status = "queued" /\ scan[k].counts["pending"] + scan[k].counts["running"] = 0

ReconcileVerdict(k) ==
  /\ Ready(k, "verdict")
  /\ IF Abandoned(k) THEN SetItems({i \in Items : item[i] = "running"}, "failed") ELSE item' = item
  /\ IF Abandoned(k) \/ StaleQueued(k) THEN BeginRecount(k) ELSE NoRecount
  /\ scan' = [scan EXCEPT ![k] = Scan0]
  /\ Goto(k, "idle")
  /\ UNCHANGED <<bulk, aged, linked, jobs, seen, work, ops, faults, quiet>>

(***************************************************************************)
(* A server process or a worker dies; its tasks are gone.                  *)
(***************************************************************************)
Die(S) ==
  /\ at' = [t \in Tasks |-> IF t \in S THEN "idle" ELSE at[t]]
  /\ rc' = [t \in Tasks |-> IF t \in S THEN Recount0 ELSE rc[t]]

CrashRequest(r) ==
  /\ ~Free(r) /\ Fault("crash")
  /\ Die({r} \cup ({r} \X Images))
  /\ seen' = [f \in Flows |-> IF f[1] = r THEN FALSE ELSE seen[f]]
  /\ UNCHANGED <<rows, jobs, work, scan, ops, quiet>>

CrashWorker(w) ==
  /\ ~Ready(w, "idle") /\ Fault("crash")
  /\ Die({w})
  /\ work' = [work EXCEPT ![w] = Idle0]
  /\ UNCHANGED <<rows, jobs, seen, scan, ops, quiet>>

-----------------------------------------------------------------------------
Recount(t) == RecountRead(t) \/ RecountWrite(t)

RequestStep(r) ==
  \/ InsertItems(r) \/ QueueBulk(r) \/ (at[r] = "start" /\ StartRun(r)) \/ SelectPending(r)
  \/ FinishRun(r) \/ CancelPending(r) \/ RequeueBulk(r)

FlowStep(r, i) ==
  \/ CheckCancelled(r, i) \/ AcquireItem(r, i) \/ CreateChild(r, i) \/ InsertChild(r, i)
  \/ RequeueChild(r, i) \/ SettleItem(r, i) \/ StaleJobs(r, i) \/ InvalidateItem(r, i)

Reconcile(k) == ReconcileRow(k) \/ ReconcileItems(k) \/ ReconcileVerdict(k)

Next ==
  \/ \E t \in Tasks : Recount(t)
  \/ \E r \in Requests :
       \/ CreateBulk(r) \/ StartRun(r) \/ RequestCancel(r) \/ ResetFailed(r)
       \/ RequestStep(r) \/ CrashRequest(r)
       \/ \E i \in Images : FlowStep(r, i) \/ LoseImage(r, i)
  \/ \E w \in Workers :
       \/ ReportChild(w) \/ CrashWorker(w)
       \/ \E i \in Images : ClaimChild(w, i) \/ FinishChild(w, i)
  \/ \E i \in Images : UserCancelsChild(i) \/ UserRetriesChild(i) \/ RecoverLease(i)
  \/ Age
  \/ \E k \in Reconcilers : Reconcile(k)

Spec == Init /\ [][Next]_vars

Fairness ==
  /\ \A t \in Tasks : WF_vars(Recount(t))
  /\ \A r \in Requests : WF_vars(RequestStep(r))
  /\ \A r \in Requests, i \in Images : WF_vars(FlowStep(r, i))
  /\ \A w \in Workers : WF_vars(ReportChild(w) \/ \E i \in Images : FinishChild(w, i) \/ ClaimChild(w, i))
  /\ WF_vars(Age) /\ \A k \in Reconcilers : WF_vars(Reconcile(k))

FairSpec == Spec /\ Fairness

-----------------------------------------------------------------------------
TypeOK ==
  /\ bulk \in [status : BulkStatus, counts : [CountNames -> 0..Cardinality(Images)], cancel : BOOLEAN]
  /\ aged \in BOOLEAN
  /\ \E S \in {{}, Images} : item \in [S -> ItemStatus]
  /\ linked \in [Images -> BOOLEAN] /\ ready \in [Images -> BOOLEAN]
  /\ job \in [Images -> JobStatus]
  /\ owner \in [Images -> Workers \cup {None}]
  /\ attempts \in [Images -> 0..MaxAttempts]
  /\ DOMAIN at = Tasks /\ DOMAIN rc = Tasks
  /\ seen \in [Flows -> BOOLEAN]
  /\ work \in [Workers -> [image : Images \cup {None}, report : {"none", "completed", "failed"}]]
  /\ ops \in 0..MaxOps /\ faults \in 0..MaxFaults /\ quiet \in BOOLEAN

(* An item the user sees as completed has a completed child: neither a     *)
(* late report, nor an adopted job, nor the order of the flow's writes     *)
(* shows success for work that was not done.                               *)
CompletedIsTrue == \A i \in Items : item[i] = "completed" => job[i] = "completed"

(* Once cancelBulkJob has swept the items, and until a retry, no item is   *)
(* begun: not by a run that checked the flag before it was raised, nor     *)
(* when the cancel fell between the creation of the row and of its items.  *)
NoStartAfterCancel ==
  [][quiet => \A i \in Items : ~(item[i] = "pending" /\ item'[i] = "running")]_vars

(* Once requests have ended, and with the reconcile script run again and   *)
(* again, the row ends up showing its items' counts, and says that it runs *)
(* or has ended accordingly, however the recounts overtook each other.     *)
OpenItems == {i \in Items : item[i] \in {"pending", "running"}}
RowTrue ==
  item # <<>> =>
    /\ bulk.counts = Counts(item)
    /\ bulk.status = "running" => OpenItems # {}
    /\ bulk.status \in BulkTerminal => OpenItems = {}
CountersConverge == <>[]RowTrue

(* An item does not stay running for ever over a child that will never     *)
(* report: lost callbacks, stale children and dead requests all end. Only  *)
(* a retry that died before it ran the job again leaves the row "queued",  *)
(* where the script does not look for running items.                       *)
ItemsSettle ==
  \A i \in Images : []<>(i \in Items => item[i] # "running" \/ bulk.status = "queued")
=============================================================================
