--------------------------- MODULE MetadataBatch ---------------------------
(***************************************************************************)
(* One batch of AI metadata of src/server/images/: the batch and its       *)
(* items (ai-metadata-batch-service.ts), under each item a generation and  *)
(* its processing job, created by two inserts, which a worker executes     *)
(* (ai-metadata-service.ts), the review of the drafts, the text approved   *)
(* for the image, and the image itself, which may be replaced or deleted   *)
(* meanwhile. Almost every write goes by the row's id alone, so each read  *)
(* and each write of a request is a step of its own.                       *)
(* Left out: the usage counters, the events, generations outside a batch.  *)
(***************************************************************************)
EXTENDS Naturals, FiniteSets

CONSTANTS
  Images,       \* the images selected, one item each
  Runners,      \* handlers of create and run in progress together
  Requests,     \* handlers of cancel and retry in progress together
  Workers,      \* executions in progress together
  Reviewers,    \* review requests in progress together
  Scripts,      \* the reconcile scripts run again and again
  None,         \* no owner, no image
  MaxAttempts,  \* maxAttempts of the processing job
  MaxTries,     \* max_attempts of the generation
  MaxRevisions, \* bound: sources an image may have
  MaxOps,       \* bound: requests, those that lose an image included
  MaxFaults,    \* bound: faults
  Faults        \* what may go wrong or happen: the names in the assumption

ASSUME MetadataAssumption ==
  /\ IsFiniteSet(Images) /\ Images # {}
  /\ {MaxAttempts, MaxTries, MaxRevisions} \subseteq Nat \ {0}
  /\ {MaxOps, MaxFaults} \subseteq Nat
  /\ Faults \subseteq {"crash", "expire", "refuse", "db", "delete", "replace"}
  /\ None \notin Workers \cup Images /\ Scripts \subseteq {"jobs", "generations", "batches"}
  /\ Runners \cap Requests = {} /\ Workers \cap (Runners \cup Requests) = {}
  /\ Reviewers \cap (Runners \cup Requests \cup Workers) = {}
  /\ Images \cap (Runners \cup Requests \cup Workers \cup Reviewers) = {}
  /\ (Runners \X Images) \cap (Runners \cup Requests \cup Workers \cup Reviewers \cup Images) = {}

VARIABLES
  image,     \* the image: its source, an open replacement, whether it is gone
  gen,       \* metadata_generations, one per image and batch
  job,       \* processing_jobs, the generation's
  torn,      \* history: the job was taken or rewritten between two writes of somebody,
             \* or stale when the invalidation of its generation was cut short
  approved,  \* image_metadata_approved: the text, 0 for none
  item,      \* ai_metadata_batch_items.status
  linked,    \* ai_metadata_batch_items.generationId is set
  batch,     \* the row of ai_metadata_batches
  at,        \* where each task is
  cur,       \* per task, the image it handles
  plan,      \* per request, the items it still has to handle, with their status
  seen,      \* per task, what it read
  ops, faults

rows == <<item, linked, batch>>
gens == <<gen, job, torn, approved>>
counters == <<ops, faults>>
vars == <<image, gens, rows, at, cur, plan, seen, counters>>

ActiveGen == {"queued", "generating", "validating_output"}
Editable == {"draft", "reviewed"}
GenStatus == {"none", "approved", "rejected", "failed", "cancelled", "stale"} \cup ActiveGen \cup Editable
ItemStatus == {"pending", "queued", "running", "draft", "reviewed", "approved", "rejected",
               "failed", "cancelled", "stale", "skipped"}
JobStatus == {"none", "queued", "processing", "completed", "failed", "stale", "cancelled"}
ActiveBatch == {"queued", "running", "cancelling"}
TerminalBatch == {"completed", "partially_completed", "failed", "cancelled"}

Flows == Runners \X Images
Tasks == Runners \cup Flows \cup Requests \cup Workers \cup Reviewers \cup Images

\* Mutant of Mapped: the status that validates the output is forgotten.
MappedGenerating(s) == IF s = "generating" THEN "running" ELSE s

(* generationStatusToItemStatus *)
Mapped(s) == IF s \in {"generating", "validating_output"} THEN "running" ELSE s

Tally(it) == [s \in ItemStatus |-> Cardinality({i \in Images : it[i] = s})]

(* finalizeBatchStatus, whose eligibleCount is the number of items enqueued. *)
FinalizeBatchStatus(n, eligible, cancelRequested) ==
  LET success == n["draft"] + n["reviewed"] + n["approved"]
      terminalFail == n["failed"] + n["cancelled"] + n["stale"]
  IN IF n["pending"] + n["queued"] + n["running"] > 0
     THEN IF cancelRequested THEN "cancelling" ELSE "running"
     ELSE IF success > 0
     THEN IF terminalFail + n["rejected"] > 0 THEN "partially_completed" ELSE "completed"
     ELSE IF cancelRequested THEN "cancelled"
     ELSE IF n["skipped"] # eligible /\ terminalFail > 0 /\ n["skipped"] > 0
     THEN "partially_completed" ELSE "failed"

Seen0 == [status |-> "none", revision |-> 0, text |-> 0]

Init ==
  /\ image = [i \in Images |-> [revision |-> 1, open |-> FALSE, gone |-> FALSE]]
  /\ gen = [i \in Images |-> [status |-> "none", revision |-> 0, tries |-> 0, text |-> 0]]
  /\ job = [i \in Images |-> [status |-> "none", attempts |-> 0, owner |-> None]]
  /\ torn = [i \in Images |-> FALSE]
  /\ approved = [i \in Images |-> 0]
  /\ item = [i \in Images |-> "pending"] /\ linked = [i \in Images |-> FALSE]
  /\ batch = [status |-> "none", cancel |-> FALSE, eligible |-> 0]
  /\ at = [t \in Tasks |-> "idle"] /\ cur = [t \in Tasks |-> None]
  /\ plan = [r \in Requests |-> {}]
  /\ seen = [t \in Tasks |-> Seen0]
  /\ ops = 0 /\ faults = 0

(***************************************************************************)
(* Helpers.                                                                *)
(***************************************************************************)
Goto(t, pc) == at' = [at EXCEPT ![t] = pc]
SetItem(i, s) == item' = [item EXCEPT ![i] = s]
SetGen(i, s) == gen' = [gen EXCEPT ![i].status = s]
SetJob(i, s) == job' = [job EXCEPT ![i].status = s]
FreeJob(i, s) == job' = [job EXCEPT ![i].status = s, ![i].owner = None]
Fault(f) == f \in Faults /\ faults < MaxFaults /\ faults' = faults + 1
Exists == batch.status # "none"
Usable(i) == ~image[i].gone /\ ~image[i].open
HalfQueued(i) ==   \* the job is queued, its generation's row is not written yet
  \/ \E r \in Runners : at[<<r, i>>] = "insertGen"
  \/ \E r \in Requests : at[r] = "retryGen" /\ cur[r] = i
Holds(w, i) == cur[w] = i /\ at[w] # "idle"
Unsettled(i) == HalfQueued(i) \/ \E w \in Workers : Holds(w, i)
SameSource(i) == ~image[i].gone /\ image[i].revision = gen[i].revision

\* Mutant of Recounted: a batch that is over stays as it is.
RecountedOpen(it, b) ==
  IF b.status \in TerminalBatch THEN b
  ELSE [b EXCEPT !.status = FinalizeBatchStatus(Tally(it), b.eligible, b.cancel)]

(***************************************************************************)
(* recountAiMetadataBatch, on the items as they are written. Its counters  *)
(* are left out, and its reads and its write are one step: how recounts    *)
(* overtake each other is the same as in BulkJobs, and the script recounts *)
(* every batch, whatever its status.                                       *)
(***************************************************************************)
Recounted(it, b) ==
  [b EXCEPT !.status = FinalizeBatchStatus(Tally(it), b.eligible, b.cancel)]

(* syncAiMetadataBatchItemFromGeneration finds the item by its generation, *)
(* reads the generation, and writes the item, whatever it says by then.    *)
SyncRead(t) ==
  /\ at[t] = "sync"
  /\ IF linked[cur[t]]
     THEN /\ seen' = [seen EXCEPT ![t].status = Mapped(gen[cur[t]].status)]
          /\ Goto(t, "syncItem")
     ELSE seen' = seen /\ Goto(t, "leave")
  /\ UNCHANGED <<image, gens, rows, cur, plan, counters>>

SyncItem(t) ==
  /\ at[t] = "syncItem"
  /\ SetItem(cur[t], seen[t].status)
  /\ batch' = Recounted(item', batch)
  /\ Goto(t, "leave")
  /\ UNCHANGED <<image, gens, linked, cur, plan, seen, counters>>

Leave(t) ==
  /\ at[t] = "leave"
  /\ t \in Workers => job[cur[t]].owner # t     \* clearLease first
  /\ Goto(t, "idle")
  /\ cur' = [cur EXCEPT ![t] = None] /\ seen' = [seen EXCEPT ![t] = Seen0]
  /\ UNCHANGED <<image, gens, rows, plan, counters>>

(***************************************************************************)
(* createAiMetadataBatch and runAiMetadataBatch.                           *)
(***************************************************************************)
BeginOp(r) == at[r] = "idle" /\ ops < MaxOps /\ ops' = ops + 1

CreateBatch(r) ==
  /\ BeginOp(r) /\ ~Exists
  /\ \E i \in Images : Usable(i)
  /\ item' = [i \in Images |-> IF Usable(i) THEN "pending" ELSE "failed"]
  /\ batch' = [batch EXCEPT !.status = "queued",
                            !.eligible = Cardinality({i \in Images : Usable(i)})]
  /\ Goto(r, "start")
  /\ UNCHANGED <<image, gens, linked, cur, plan, seen, faults>>

StartRun(r) ==
  /\ \/ BeginOp(r) /\ Exists
     \/ at[r] = "start" /\ ops' = ops
  /\ IF batch.status \in {"queued", "running", "partially_completed"}
     THEN batch' = [batch EXCEPT !.status = "running"] /\ Goto(r, "select")
     ELSE batch' = batch /\ Goto(r, "idle")                 \* AI_BATCH_CONFLICT
  /\ UNCHANGED <<image, gens, item, linked, cur, plan, seen, faults>>

SelectPending(r) ==
  /\ at[r] = "select"
  /\ at' = [t \in Tasks |->
              IF t = r THEN "flows"
              ELSE IF \E i \in Images : t = <<r, i>> /\ item[i] = "pending" THEN "todo" ELSE at[t]]
  /\ UNCHANGED <<image, gens, rows, cur, plan, seen, counters>>

FinishRun(r) ==
  /\ at[r] = "flows" /\ \A i \in Images : at[<<r, i>>] = "idle"
  /\ Goto(r, "idle") /\ batch' = Recounted(item, batch)
  /\ UNCHANGED <<image, gens, item, linked, cur, plan, seen, counters>>

(***************************************************************************)
(* enqueueOneBatchItem, and createMetadataGeneration under it.             *)
(***************************************************************************)
CheckCancelled(r, i) ==
  LET f == <<r, i>> IN
  /\ at[f] = "todo"
  /\ IF batch.cancel
     THEN /\ IF item[i] = "pending" THEN SetItem(i, "cancelled") ELSE item' = item
          /\ Goto(f, "idle")
     ELSE item' = item /\ Goto(f, "acquire")
  /\ UNCHANGED <<image, gens, linked, batch, cur, plan, seen, counters>>

AcquireItem(r, i) ==
  LET f == <<r, i>> IN
  /\ at[f] = "acquire"
  /\ IF item[i] = "pending"
     THEN SetItem(i, "queued") /\ Goto(f, "check")
     ELSE item' = item /\ Goto(f, "idle")
  /\ UNCHANGED <<image, gens, linked, batch, cur, plan, seen, counters>>

(* The checks read the image and the generations; the inserts come later.  *)
CheckGeneration(r, i) ==
  LET f == <<r, i>> IN
  /\ at[f] = "check"
  /\ \/ ~Usable(i) /\ Goto(f, "skip") /\ UNCHANGED <<seen, faults>>
     \/ Usable(i) /\ Fault("refuse") /\ (Goto(f, "skip") \/ Goto(f, "fail")) /\ seen' = seen
     \/ Usable(i) /\ Goto(f, "insertJob")
        /\ seen' = [seen EXCEPT ![f].revision = image[i].revision] /\ faults' = faults
  /\ UNCHANGED <<image, gens, rows, cur, plan, ops>>

InsertJob(r, i) ==
  LET f == <<r, i>> IN
  /\ at[f] = "insertJob"
  /\ SetJob(i, "queued")
  /\ Goto(f, "insertGen")
  /\ UNCHANGED <<image, gen, torn, approved, rows, cur, plan, seen, counters>>

InsertGeneration(r, i) ==
  LET f == <<r, i>> IN
  /\ at[f] = "insertGen"
  /\ gen' = [gen EXCEPT ![i].status = "queued", ![i].revision = seen[f].revision]
  /\ Goto(f, "link")
  /\ UNCHANGED <<image, job, torn, approved, rows, cur, plan, seen, counters>>

(* The last write of the flow, by the item's id alone.                     *)
Outcome == [skip |-> "skipped", fail |-> "failed", link |-> "queued"]
SettleItem(r, i) ==
  LET f == <<r, i>> IN
  /\ at[f] \in DOMAIN Outcome
  /\ SetItem(i, Outcome[at[f]])
  /\ linked' = [linked EXCEPT ![i] = @ \/ at[f] = "link"]
  /\ Goto(f, "idle") /\ seen' = [seen EXCEPT ![f] = Seen0]
  /\ UNCHANGED <<image, gens, batch, cur, plan, counters>>

(***************************************************************************)
(* cancelAiMetadataBatch: raise the flag, select the items, and one after  *)
(* the other cancel the pending ones and, through                          *)
(* cancelQueuedMetadataGeneration, the queued ones.                        *)
(***************************************************************************)
RequestCancel(r) ==
  /\ BeginOp(r) /\ batch.status \in ActiveBatch
  /\ batch' = [batch EXCEPT !.cancel = TRUE, !.status = "cancelling"]
  /\ Goto(r, "selectQueued")
  /\ UNCHANGED <<image, gens, item, linked, cur, plan, seen, faults>>

SelectQueued(r) ==
  /\ at[r] = "selectQueued"
  /\ plan' = [plan EXCEPT ![r] =
       {p \in Images \X {"pending", "queued"} : item[p[1]] = p[2] /\ (p[2] = "queued" => linked[p[1]])}]
  /\ Goto(r, "cancel")
  /\ UNCHANGED <<image, gens, rows, cur, seen, counters>>

(* An item is treated as it was when it was selected; a generation that is *)
(* not queued any more is left alone, its item is cancelled all the same.  *)
CancelNext(r, i, s) ==
  /\ at[r] = "cancel" /\ <<i, s>> \in plan[r]
  /\ plan' = [plan EXCEPT ![r] = @ \ {<<i, s>>}] /\ cur' = [cur EXCEPT ![r] = i]
  /\ Goto(r, IF s = "queued" /\ gen[i].status = "queued" THEN "cancelGen" ELSE "cancelItem")
  /\ UNCHANGED <<image, gens, rows, seen, counters>>

CancelGeneration(r) ==
  /\ at[r] = "cancelGen" /\ SetGen(cur[r], "cancelled") /\ Goto(r, "cancelJob")
  /\ UNCHANGED <<image, job, torn, approved, rows, cur, plan, seen, counters>>

CancelJob(r) ==
  /\ at[r] = "cancelJob" /\ SetJob(cur[r], "cancelled") /\ Goto(r, "cancelItem")
  /\ torn' = [torn EXCEPT ![cur[r]] = @ \/ Unsettled(cur[r]) \/ gen[cur[r]].status \in ActiveGen]
  /\ UNCHANGED <<image, gen, approved, rows, cur, plan, seen, counters>>

CancelItem(r) ==
  /\ at[r] = "cancelItem" /\ SetItem(cur[r], "cancelled")
  /\ Goto(r, "cancel") /\ cur' = [cur EXCEPT ![r] = None]
  /\ UNCHANGED <<image, gens, linked, batch, plan, seen, counters>>

FinishCancel(r) ==
  /\ at[r] = "cancel" /\ plan[r] = {}
  /\ Goto(r, "idle") /\ batch' = Recounted(item, batch)
  /\ UNCHANGED <<image, gens, item, linked, cur, plan, seen, counters>>

(***************************************************************************)
(* retryFailedAiMetadataBatchItems and retryFailedMetadataGeneration. One  *)
(* such request at a time: two of them would requeue what the first has    *)
(* already brought to a draft.                                             *)
(***************************************************************************)
Retrying == {r \in Requests : at[r] \in {"retry", "retryJob", "retryGen", "retryItem", "retryBatch"}}

RequestRetry(r) ==
  /\ BeginOp(r) /\ Exists /\ Retrying = {}
  /\ plan' = [plan EXCEPT ![r] = {p \in Images \X {"failed"} : item[p[1]] = p[2] /\ linked[p[1]]}]
  /\ Goto(r, "retry")
  /\ UNCHANGED <<image, gens, rows, cur, seen, faults>>

RetryNext(r, i) ==
  /\ at[r] = "retry" /\ <<i, "failed">> \in plan[r]
  /\ plan' = [plan EXCEPT ![r] = @ \ {<<i, "failed">>}] /\ cur' = [cur EXCEPT ![r] = i]
  /\ IF gen[i].status = "failed" /\ gen[i].tries < MaxTries /\ SameSource(i)
     THEN Goto(r, "retryJob") ELSE at' = at
  /\ UNCHANGED <<image, gens, rows, seen, counters>>

RetryJob(r) ==
  /\ at[r] = "retryJob" /\ FreeJob(cur[r], "queued") /\ Goto(r, "retryGen")
  /\ torn' = [torn EXCEPT ![cur[r]] = @ \/ \E w \in Workers : Holds(w, cur[r])]
  /\ UNCHANGED <<image, gen, approved, rows, cur, plan, seen, counters>>

RetryGeneration(r) ==
  /\ at[r] = "retryGen" /\ Goto(r, "retryItem")
  /\ gen' = [gen EXCEPT ![cur[r]].status = "queued", ![cur[r]].tries = @ + 1]
  /\ UNCHANGED <<image, job, torn, approved, rows, cur, plan, seen, counters>>

RetryItem(r) ==
  /\ at[r] = "retryItem" /\ SetItem(cur[r], "queued")
  /\ seen' = [seen EXCEPT ![r].status = "retried"] /\ Goto(r, "retry")
  /\ UNCHANGED <<image, gens, linked, batch, cur, plan, counters>>

FinishRetry(r) ==
  /\ at[r] = "retry" /\ plan[r] = {}
  /\ batch' = Recounted(item, [batch EXCEPT !.cancel = @ /\ seen[r].status # "retried"])
  /\ Goto(r, "idle")
  /\ cur' = [cur EXCEPT ![r] = None] /\ seen' = [seen EXCEPT ![r] = Seen0]
  /\ UNCHANGED <<image, gens, item, linked, plan, counters>>

(***************************************************************************)
(* Workers: claimQueuedJobs, then executeProcessingJob, which hands a      *)
(* metadata job to executeMetadataGenerationJob, then clearLease.          *)
(***************************************************************************)
ClaimJob(w, i) ==
  /\ at[w] = "idle"
  /\ job[i].status = "queued" /\ job[i].attempts < MaxAttempts
  /\ job' = [job EXCEPT ![i] = [status |-> "processing", attempts |-> @.attempts + 1, owner |-> w]]
  /\ torn' = [torn EXCEPT ![i] = @ \/ HalfQueued(i)]
  /\ cur' = [cur EXCEPT ![w] = i] /\ Goto(w, "begin")
  /\ UNCHANGED <<image, gen, approved, rows, plan, seen, counters>>

\* What becomes of a generation that is to be executed.
Verdict(i) ==
  IF image[i].gone THEN "failGen"
  ELSE IF image[i].revision # gen[i].revision THEN "staleGen"
  ELSE IF image[i].open THEN "outdateGen" ELSE "generate"

\* Mutant of BeginExecution: the generation's status is not looked at.
BeginRegardless(w) ==
  LET i == cur[w] IN
  /\ at[w] = "begin"
  /\ Goto(w, IF job[i].status = "processing" /\ job[i].owner = w THEN Verdict(i) ELSE "leave")
  /\ UNCHANGED <<image, gens, rows, cur, plan, seen, counters>>

(* What the execution reads decides what it does. A generation that is not *)
(* there, or already done, or invalid, leaves the job as it is.            *)
BeginExecution(w) ==
  LET i == cur[w] IN
  /\ at[w] = "begin"
  /\ Goto(w, IF /\ job[i].status = "processing" /\ job[i].owner = w
                /\ gen[i].status \in ActiveGen \cup {"failed", "rejected"}
             THEN Verdict(i) ELSE "leave")
  /\ UNCHANGED <<image, gens, rows, cur, plan, seen, counters>>

(* The execution's writes of the generation, each by its id alone.         *)
WriteGeneration(w) ==
  LET i == cur[w] IN
  /\ \/ at[w] = "failGen" /\ SetGen(i, "failed") /\ Goto(w, "failJob") /\ faults' = faults
     \/ at[w] = "staleGen" /\ SetGen(i, "stale") /\ Goto(w, "staleJob") /\ faults' = faults
     \/ at[w] = "outdateGen" /\ SetGen(i, "stale") /\ Goto(w, "sync") /\ faults' = faults
     \/ at[w] = "generate" /\ SetGen(i, "generating") /\ Goto(w, "fetch") /\ faults' = faults
     \/ at[w] = "fetch" /\ SetGen(i, "validating_output") /\ Goto(w, "call") /\ faults' = faults
     \/ at[w] = "call" /\ Goto(w, "completeJob") /\ faults' = faults
        /\ gen' = [gen EXCEPT ![i].status = "draft", ![i].text = @ + 1]
     \/ at[w] \in {"fetch", "call"} /\ Fault("refuse") /\ gen' = gen
        /\ (Goto(w, "failGen") \/ Goto(w, IF job[i].attempts < MaxAttempts THEN "requeueGen" ELSE "failGen"))
     \/ at[w] = "requeueGen" /\ SetGen(i, "queued") /\ Goto(w, "requeueJob") /\ faults' = faults
  /\ UNCHANGED <<image, job, torn, approved, rows, cur, plan, seen, ops>>

(* Its writes of the job, by the id as well.                               *)
WriteJob(w) ==
  LET i == cur[w] IN
  /\ \/ at[w] = "completeJob" /\ FreeJob(i, "completed") /\ Goto(w, "sync")
     \/ at[w] = "failJob" /\ FreeJob(i, "failed") /\ Goto(w, "sync")
     \/ at[w] = "staleJob" /\ SetJob(i, "stale") /\ Goto(w, "sync")
     \/ at[w] = "requeueJob" /\ FreeJob(i, "queued") /\ Goto(w, "leave")
  /\ UNCHANGED <<image, gen, torn, approved, rows, cur, plan, seen, counters>>

(* clearLease takes the lease away and leaves the status: it runs beside   *)
(* the item's synchronisation, which nobody waits for.                     *)
ClearLease(w) ==
  LET i == cur[w] IN
  /\ at[w] \in {"sync", "syncItem", "leave"} /\ job[i].owner = w
  /\ FreeJob(i, job[i].status)
  /\ UNCHANGED <<image, gen, torn, approved, rows, at, cur, plan, seen, counters>>

\* Mutant of RecoverLease: the lease is cleared and the job not requeued.
RecoverOwnerOnly(i) ==
  /\ job[i].status = "processing" /\ job[i].owner # None
  /\ IF Holds(job[i].owner, i) THEN Fault("expire") ELSE faults' = faults
  /\ FreeJob(i, job[i].status)
  /\ UNCHANGED <<image, gen, torn, approved, rows, at, cur, plan, seen, ops>>

(* A lease runs out when its worker died, or when its worker stalls; a     *)
(* "processing" row without a lease is not looked at.                      *)
RecoverLease(i) ==
  /\ job[i].status = "processing" /\ job[i].owner # None
  /\ IF Holds(job[i].owner, i) THEN Fault("expire") ELSE faults' = faults
  /\ FreeJob(i, "queued")
  /\ UNCHANGED <<image, gen, torn, approved, rows, at, cur, plan, seen, ops>>

CrashWorker(w) ==
  /\ at[w] # "idle" /\ Fault("crash")
  /\ Goto(w, "idle")
  /\ cur' = [cur EXCEPT ![w] = None] /\ seen' = [seen EXCEPT ![w] = Seen0]
  /\ UNCHANGED <<image, gens, rows, plan, ops>>

(***************************************************************************)
(* Review: saveMetadataEdits, approveMetadataGeneration and                *)
(* rejectMetadataGeneration read the generation and the image, then write. *)
(***************************************************************************)
BeginReview(v, i) ==
  /\ BeginOp(v) /\ gen[i].status \in Editable
  /\ \/ SameSource(i) /\ (Goto(v, "save") \/ Goto(v, "approve"))
     \/ Goto(v, "reject")
  /\ cur' = [cur EXCEPT ![v] = i]
  /\ seen' = [seen EXCEPT ![v].text = gen[i].text]
  /\ UNCHANGED <<image, gens, rows, plan, faults>>

SaveEdits(v) ==
  /\ at[v] = "save"
  /\ gen' = [gen EXCEPT ![cur[v]].status = "reviewed", ![cur[v]].text = @ + 1]
  /\ Goto(v, "leave")
  /\ UNCHANGED <<image, job, torn, approved, rows, cur, plan, seen, counters>>

ApproveText(v) ==
  /\ at[v] = "approve"
  /\ approved' = [approved EXCEPT ![cur[v]] = seen[v].text]
  /\ Goto(v, "approveGen")
  /\ UNCHANGED <<image, gen, job, torn, rows, cur, plan, seen, counters>>

(* A bulk review synchronises the items afterwards, a single one does not. *)
CloseReview(v) ==
  /\ \/ at[v] = "approveGen" /\ SetGen(cur[v], "approved")
     \/ at[v] = "reject" /\ SetGen(cur[v], "rejected")
  /\ Goto(v, "sync") \/ Goto(v, "leave")
  /\ UNCHANGED <<image, job, torn, approved, rows, cur, plan, seen, counters>>

(***************************************************************************)
(* The image is replaced or deleted. Its jobs become stale, its            *)
(* generations and their jobs are invalidated, then its items.             *)
(***************************************************************************)
LoseImage(i) ==
  /\ BeginOp(i) /\ Usable(i)
  /\ \/ "delete" \in Faults /\ image' = [image EXCEPT ![i].gone = TRUE]
     \/ "replace" \in Faults /\ image[i].revision < MaxRevisions
        /\ image' = [image EXCEPT ![i].open = TRUE]
  /\ Goto(i, "jobs")
  /\ UNCHANGED <<gens, rows, cur, plan, seen, faults>>

EndReplacement(i) ==
  /\ at[i] = "idle" /\ image[i].open
  /\ \E n \in {0, 1} : image' = [image EXCEPT ![i].open = FALSE, ![i].revision = @ + n]
  /\ UNCHANGED <<gens, rows, at, cur, plan, seen, counters>>

Invalid(i) == IF image[i].gone THEN "cancelled" ELSE "stale"

InvalidateJobs(i) ==
  /\ \/ at[i] = "jobs" /\ Goto(i, "gens")
     \/ at[i] = "metaJobs" /\ Goto(i, "items")
  /\ IF job[i].status \in {"queued", "processing"}
     THEN SetJob(i, IF at[i] = "jobs" THEN "stale" ELSE Invalid(i))
     ELSE job' = job
  /\ torn' = [torn EXCEPT ![i] = @ \/ Unsettled(i) \/ (at[i] = "metaJobs" /\ gen[i].status \in ActiveGen)]
  /\ UNCHANGED <<image, gen, approved, rows, cur, plan, seen, counters>>

InvalidateGenerations(i) ==
  /\ at[i] = "gens" /\ Goto(i, "metaJobs")
  /\ IF gen[i].status \in ActiveGen \cup Editable THEN SetGen(i, Invalid(i)) ELSE gen' = gen
  /\ UNCHANGED <<image, job, torn, approved, rows, cur, plan, seen, counters>>

\* The generation is left active over a job that is stale already.
CutShort(i) == at[i] = "gens" /\ gen[i].status \in ActiveGen

(* Both calls, that of the jobs and that of the metadata, swallow what     *)
(* they throw: a failed statement ends its own call only.                  *)
InvalidationFails(i) ==
  /\ Fault("db")
  /\ \/ at[i] = "jobs" /\ Goto(i, "gens")
     \/ at[i] \in {"gens", "metaJobs", "items"} /\ Goto(i, "idle")
  /\ torn' = [torn EXCEPT ![i] = @ \/ CutShort(i)]
  /\ UNCHANGED <<image, gen, job, approved, rows, cur, plan, seen, ops>>

(* onImageInvalidateAiBatchItems *)
InvalidateItems(i) ==
  /\ at[i] = "items" /\ Goto(i, "idle")
  /\ IF item[i] \in {"pending", "queued", "running"} /\ Exists
     THEN SetItem(i, Invalid(i)) /\ batch' = Recounted(item', batch)
     ELSE UNCHANGED <<item, batch>>
  /\ UNCHANGED <<image, gens, linked, cur, plan, seen, counters>>

(***************************************************************************)
(* The reconcile scripts. reconcileProjectProcessing ends the jobs nobody  *)
(* works on: a job in progress that has had no sign of life for a quarter  *)
(* of an hour and has no lease to recover, and a job queued for half an    *)
(* hour, which is one no worker may claim as long as workers run.          *)
(***************************************************************************)
ReconcileJob(i) ==
  /\ "jobs" \in Scripts
  /\ \/ job[i].status = "processing" /\ job[i].owner = None
        /\ ~(\E w \in Workers : Holds(w, i)) /\ SetJob(i, "failed")
     \/ job[i].status = "queued" /\ job[i].attempts = MaxAttempts /\ SetJob(i, "stale")
  /\ UNCHANGED <<image, gen, torn, approved, rows, at, cur, plan, seen, counters>>

\* Nobody works on the generation, and as long as workers run nobody will.
Abandoned(i) ==
  /\ ~(\E w \in Workers : Holds(w, i))
  /\ job[i].status = "queued" => job[i].attempts = MaxAttempts
  /\ job[i].status = "processing" => job[i].owner = None

\* Mutant of ReconcileGeneration: only what has been begun is looked at.
ReconcileBegun(i) ==
  /\ "generations" \in Scripts
  /\ gen[i].status \in {"generating", "validating_output"} /\ Abandoned(i)
  /\ SetGen(i, "failed")
  /\ UNCHANGED <<image, job, torn, approved, rows, at, cur, plan, seen, counters>>

(* reconcile-ai-metadata.ts: a generation in progress that nobody has      *)
(* written for half an hour has failed.                                    *)
ReconcileGeneration(i) ==
  /\ "generations" \in Scripts
  /\ gen[i].status \in ActiveGen /\ Abandoned(i)
  /\ SetGen(i, "failed")
  /\ UNCHANGED <<image, job, torn, approved, rows, at, cur, plan, seen, counters>>

(* reconcileAiMetadataBatches: an item of an active batch that differs     *)
(* from its generation is synchronised; every batch is recounted.          *)
ReconcileItem(i) ==
  /\ "batches" \in Scripts /\ batch.status \in ActiveBatch
  /\ linked[i] /\ item[i] # Mapped(gen[i].status)
  /\ SetItem(i, Mapped(gen[i].status))
  /\ batch' = Recounted(item', batch)
  /\ UNCHANGED <<image, gens, linked, at, cur, plan, seen, counters>>

ReconcileBatch ==
  /\ "batches" \in Scripts /\ Exists
  /\ batch' = Recounted(item, batch)
  /\ UNCHANGED <<image, gens, item, linked, at, cur, plan, seen, counters>>

(***************************************************************************)
(* A server that stops ends the request it serves where it is: a run with  *)
(* its flows, a cancel or a retry, a review, the loss of an image.         *)
(***************************************************************************)
Served(t) == {t} \cup {f \in Flows : f[1] = t}

RequestDies(t) ==
  /\ at[t] # "idle" /\ Fault("crash")
  /\ at' = [u \in Tasks |-> IF u \in Served(t) THEN "idle" ELSE at[u]]
  /\ cur' = [cur EXCEPT ![t] = None]
  /\ seen' = [u \in Tasks |-> IF u \in Served(t) THEN Seen0 ELSE seen[u]]
  /\ plan' = [r \in Requests |-> IF r = t THEN {} ELSE plan[r]]
  /\ torn' = [i \in Images |-> torn[i] \/ (i = t /\ CutShort(i))]
  /\ UNCHANGED <<image, gen, job, approved, rows, ops>>

-----------------------------------------------------------------------------
Synchronise(t) == SyncRead(t) \/ SyncItem(t) \/ Leave(t)

RunStep(r) == (at[r] = "start" /\ StartRun(r)) \/ SelectPending(r) \/ FinishRun(r)

RequestStep(r) ==
  \/ SelectQueued(r) \/ CancelGeneration(r) \/ CancelJob(r) \/ CancelItem(r) \/ FinishCancel(r)
  \/ RetryJob(r) \/ RetryGeneration(r) \/ RetryItem(r) \/ FinishRetry(r)
  \/ \E i \in Images : RetryNext(r, i) \/ \E s \in {"pending", "queued"} : CancelNext(r, i, s)

FlowStep(r, i) ==
  \/ CheckCancelled(r, i) \/ AcquireItem(r, i) \/ CheckGeneration(r, i)
  \/ InsertJob(r, i) \/ InsertGeneration(r, i) \/ SettleItem(r, i)

Execute(w) == BeginExecution(w) \/ WriteGeneration(w) \/ WriteJob(w) \/ ClearLease(w)
ReviewStep(v) == SaveEdits(v) \/ ApproveText(v) \/ CloseReview(v)
Invalidate(i) == InvalidateJobs(i) \/ InvalidateGenerations(i) \/ InvalidateItems(i)

Next ==
  \/ \E t \in Workers \cup Reviewers : Synchronise(t)
  \/ \E r \in Runners :
       CreateBatch(r) \/ StartRun(r) \/ RunStep(r) \/ \E i \in Images : FlowStep(r, i)
  \/ \E r \in Requests : RequestCancel(r) \/ RequestRetry(r) \/ RequestStep(r)
  \/ \E w \in Workers :
       \/ Execute(w) \/ CrashWorker(w)
       \/ \E i \in Images : ClaimJob(w, i)
  \/ \E v \in Reviewers : ReviewStep(v) \/ \E i \in Images : BeginReview(v, i)
  \/ \E i \in Images :
       \/ LoseImage(i) \/ EndReplacement(i) \/ Invalidate(i) \/ InvalidationFails(i)
       \/ RecoverLease(i) \/ ReconcileJob(i) \/ ReconcileGeneration(i) \/ ReconcileItem(i)
  \/ \E t \in Runners \cup Requests \cup Reviewers \cup Images : RequestDies(t)
  \/ ReconcileBatch

Spec == Init /\ [][Next]_vars

Fairness ==
  /\ \A t \in Workers \cup Reviewers : WF_vars(Synchronise(t))
  /\ \A r \in Runners : WF_vars(RunStep(r)) /\ \A i \in Images : WF_vars(FlowStep(r, i))
  /\ \A r \in Requests : WF_vars(RequestStep(r))
  /\ \A w \in Workers : WF_vars(Execute(w))
  /\ \A i \in Images : SF_vars(\E w \in Workers : ClaimJob(w, i))
  /\ \A v \in Reviewers : WF_vars(ReviewStep(v))
  /\ \A i \in Images :
       /\ WF_vars(Invalidate(i)) /\ WF_vars(RecoverLease(i))
       /\ WF_vars(ReconcileJob(i)) /\ WF_vars(ReconcileGeneration(i)) /\ WF_vars(ReconcileItem(i))
  /\ WF_vars(ReconcileBatch)

FairSpec == Spec /\ Fairness

-----------------------------------------------------------------------------
TypeOK ==
  /\ image \in [Images -> [revision : 1..MaxRevisions, open : BOOLEAN, gone : BOOLEAN]]
  /\ \A i \in Images :
       /\ gen[i].status \in GenStatus /\ gen[i].revision \in 0..image[i].revision
       /\ gen[i].tries \in 0..MaxTries
       /\ gen[i].text \in 0..(MaxAttempts + MaxOps) /\ approved[i] \in 0..gen[i].text
  /\ job \in [Images -> [status : JobStatus, attempts : 0..MaxAttempts, owner : Workers \cup {None}]]
  /\ torn \in [Images -> BOOLEAN]
  /\ item \in [Images -> ItemStatus] /\ linked \in [Images -> BOOLEAN]
  /\ batch.status \in {"none"} \cup ActiveBatch \cup TerminalBatch
  /\ DOMAIN at = Tasks
  /\ cur \in [Tasks -> Images \cup {None}]

(* While a generation counts as approved, the text approved for the image  *)
(* is the one the generation shows: no execution that a crash repeats      *)
(* writes over it. With one reviewer at a time, no lease that runs out     *)
(* under a live worker, and no crash of an attempt that repeats a failed   *)
(* one: otherwise the two texts differ.                                    *)
ApprovedAgrees == \A i \in Images : gen[i].status = "approved" => approved[i] = gen[i].text

(* The rows of a generation and of its job keep step. A generation in      *)
(* progress that no worker holds, and none can take up any more, has used  *)
(* its attempts up, or its job was taken or rewritten between two writes   *)
(* of somebody, or stale when its invalidation was cut short.              *)
OrphansExplained ==
  \A i \in Images :
    gen[i].status \in ActiveGen /\ Abandoned(i) /\ at[i] # "gens"
      => job[i].attempts = MaxAttempts \/ torn[i]

(* Given the scripts, a generation and its job end: a generation in        *)
(* progress holds its image back from the next one.                        *)
WorkEnds ==
  \A i \in Images :
    []<>(job[i].status \notin {"queued", "processing"}) /\ []<>(gen[i].status \notin ActiveGen)

(* In the end the batch shows its items, and as long as it is open they    *)
(* show their generations, however its callbacks overtook each other.      *)
BatchTrue ==
  Exists =>
    /\ batch.status = FinalizeBatchStatus(Tally(item), batch.eligible, batch.cancel)
    /\ batch.status \in ActiveBatch =>
         \A i \in Images : linked[i] => item[i] = Mapped(gen[i].status)
BatchTellsTruth == <>[]BatchTrue
=============================================================================
