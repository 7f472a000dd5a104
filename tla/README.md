# ImgPilot in TLA+

ImgPilot is a Next.js application in which users upload images into projects,
transform them in background jobs, and deliver the results. PostgreSQL holds all
coordination state, Cloudflare R2 holds the bytes, and there is no broker: worker
processes poll tables and claim rows with leases. No transaction spans PostgreSQL
and R2, and few transactions span two statements. Almost every operation is a
**saga**: a sequence of single statements and R2 calls with other requests,
workers, failures and crashes in between. This directory models those sagas.

All paths below are relative to the repository; `images/` abbreviates
`src/server/images/`.

## 1. Inventory

| Component | Code | State | Operations | Interacts with | What is hard | What makes it correct |
| --- | --- | --- | --- | --- | --- | --- |
| Lease queue and worker | `images/queue-service.ts`, `images/queue-policy.ts`, `scripts/processing-worker.ts` | `processing_jobs` status, attempt_count, lease_owner, lease_expires_at; in memory: inFlight, shuttingDown | claim, heartbeat, recover expired leases, clear lease, shutdown release | processing jobs, bulk jobs (terminal callback) | stalls longer than a lease, select-then-update requeue, shutdown while executions run | no attempt is executed twice; every job settles |
| Processing jobs | `images/processing-service.ts`, `processing-queries.ts`, `processing-policy.ts` | `processing_jobs`, `image_derivatives`, R2 derivative objects | create, execute, cancel, retry, invalidate on deletion and replacement | queue, quota, images, R2 | writes by id without status or lease guard; R2 and PostgreSQL out of step | an active derivative has its object and is alone for its target; no object is lost; no key reused |
| Quota counters | `images/quota-service.ts`, `quota-queries.ts`, `quota-policy.ts` | `project_quota_state`, `quota_reservations` | reserve, consume, release, charge, uncharge, reconcile | uploads, deletions, replacements, jobs | clamped decrements, best-effort calls, reservations that expire | reserved and active counters cover what exists |
| Upload | `images/upload-service.ts`, `queries.ts` | `images.status`, upload_expires_at, R2 original | authorize a batch, confirm | quota, R2, browser | confirm races confirm, deletion and expiry | a confirmed image is charged once |
| Deletion | `images/delete-service.ts`, `delete-queries.ts`, `recovery-service.ts` | `images` status, deleted_at | delete, retry, recover | quota, jobs, bulk, R2 | crash between hide, R2 delete and final mark; concurrent retries | one cleanup at a time; a hidden image ends up deleted; its bytes count until gone |
| Replacement | `images/replace-service.ts`, `replace-queries.ts` | `image_replacements`, revision | begin, confirm, validate, promote, cancel, old cleanup | quota, jobs, R2 | promotion against cancel and deletion | exactly one current original; both keys cleaned up |
| Validation, readiness | `images/validation-service.ts`, `ready-service.ts` | `images.status`, validation claim | claim, validate, promote to ready | replacement, jobs | evaluation on a stale read | a ready image was validated in this revision |
| Processing reconciliation | `images/processing-reconcile.ts` | none (script) | fail stuck jobs, recount bytes | jobs, quota | absolute writes from several reads | repairs and never damages |
| Bulk jobs | `images/bulk-service.ts`, `bulk-queue-sync.ts` | `bulk_jobs`, items, counters | create, run, terminal callback, recount, cancel, retry, invalidate, reconcile | jobs | recounted counters written by concurrent callbacks; writes by item id | a completed item has a completed child; nothing begins after a cancel; counters match items; an item ends |
| AI metadata | `images/ai-metadata-*.ts`, `metadata-review-service.ts`, `scripts/reconcile-ai-metadata.ts` | `metadata_generations`, `image_metadata_approved`, batches and items | generate, batch, review, cancel, retry, reconcile | queue, provider, deletion, replacement | a job and its generation are two rows written one after the other by id | approved text is what the generation shows; work ends; the batch shows it |
| Export packages | `images/export-service.ts` | `export_jobs` | stubs at this commit | queue | - | - |
| Webhook delivery | `src/server/webhooks/*` | deliveries, endpoint failure count | enqueue, claim, deliver, retry, suspend | endpoints | late result after a lost lease; lost increments | at least once, with bounded attempts |
| Public API | `src/server/api/*` | idempotency rows, keys, rate buckets | begin, complete, replay | services | two requests on one expired key | one effect per key |
| Publishing | `src/server/{wordpress,shopify,webflow}/*` | publish jobs, bulk rows, mappings, remote assets | create, bulk, claim, execute, retry, cancel, recover, reconcile | worker, images, approved metadata, remote sites | remote effect before the local mark; writes by id | one execution per job; each extra asset has a fault behind it; mappings name what was published |
| Guest tools, cleanup | `src/server/guest/*`, `src/server/ops/*` | sessions, cleanup items | upload, process, expire, clean | R2 | crash while an item is in progress | every guest object goes |
| Billing | `src/server/billing/*` | subscriptions, usage, Stripe events | usage, webhooks | quota limits | duplicate events | an event counts once |
| Workflows, organizations, collaboration, auth, admin, analytics, UI | `src/server/*`, `src/app` | rows and views | CRUD | - | little or none | access rules |

`PROJECT.json` lists the same components with their status, and the hazards of
the code at their lines.

## 2. Modules

| Module | What it is |
| --- | --- |
| `ProcessingQueue` | the lease queue and the worker loop; one action per statement |
| `AttemptTickets` | what the queue promises of attempts, as an abstract specification |
| `ProcessingJobs` | the job saga on that queue (EXTENDS it and conjoins its actions); implements `AttemptTickets` |
| `UploadQuota` | originals from authorization to deletion, and the upload counters |
| `ImageReplacement` | the replacement of an original, with validation, readiness, deletion and recovery |
| `BulkJobs` | a bulk job over its items and their child jobs |
| `MetadataBatch` | a batch of AI metadata: items, generations, jobs, review |
| `PublishJobs` | publish jobs and bulk publishes of the three connectors |
| `MCProcessingJobs`, `MCUploadQuota`, `MCBulkJobs`, `MCImageReplacement`, `MCMetadataBatch`, `MCPublishJobs` | instances for TLC, with symmetry where it is sound |
| `ProcessingJobsProofs`, `ProcessingClaimsProofs`, `ProcessingOutputsProofs` | theorems about `ProcessingJobs`: types; claims and the refinement of `AttemptTickets`; outputs, objects and charges |
| `UploadQuotaProofs`, `ImageReplacementProofs`, `BulkJobsProofs`, `MetadataBatchProofs`, `PublishJobsProofs` | theorems about the other modules (section 4) |

Definitions next to the one they vary, with a comment that begins with
"Mutant of", are plausible bugs of the code; they take no part in any
specification and show that the properties can fail.

*Granularity.* In every module one action is one SQL statement, one transaction or one
R2 or remote call, with the pure reads that gate it merged into it. Where the code reads
and later writes without a guard, these are two actions. Exceptions are named below.

*Faults* are switched on by a constant (`Events` or `Faults`) and limited by a bound, so
that each run says what it assumes. A statement that throws outside every try block ends
the request, which is the same step as a crash of its process. Where the code catches it and goes on
(`.catch` after a best-effort call), so does the model.

### ProcessingQueue, ProcessingJobs and AttemptTickets

`FinishExecution` takes `clearLease`, the bulk notification and the `finally` block
together; nothing else merges two statements.

*Time.* `lapsed[j]` says that `lease_expires_at` is in the past. A lease lapses
when nobody beats for it, or, under `"stall"`, although somebody does.

*Identity of an execution.* A worker may run the same job twice, once under a
claim it has lost. Executions are therefore slots `<<worker, job, attempt>>`, by
the attempt number their claim took. `keyAttempt` is what the execution itself
later reads from the row, which the code uses in the output key: the two may
differ, and `WritersDisjoint` is about that.

*Claim.* `claimQueuedJobs` orders by `created_at` and takes up to
the free slots; the model claims any nonempty set of that size or smaller, which
includes every order of creation.

*Executions* follow `executeProcessingJob` in its order: begin (row read again),
check, work, PUT, report, verify, retire the previous derivative, insert, complete, credit,
usage; and the catch block: cleanup, drop, unreserve, fail; then clear.

*Requests* hold at most what the handler's local variables hold. `AcquireDeletion`,
`BeginReplacement` and `EndReplacement` stand for the image's own sagas as far as
jobs see them; `UploadQuota` and `ImageReplacement` have those in detail.

*Refinement.* `AttemptTickets` knows neither rows nor leases: attempt n of a job is a
ticket that is issued to one worker, is not issued again while that worker holds it, and
may be handed back only if nobody else holds it. `TicketsImplemented` maps the tickets issued to
`attempt_count` and the tickets held to the live executions of workers in service
(running, or draining before the shutdown release), and says that every step of
`ProcessingJobs` is a step of `AttemptTickets` or leaves both alone.

Left out: metadata jobs (in `MetadataBatch`), preview URLs, the bulk retry path,
`recoverDeadWorkers` (its table is read by no decision), and the worker's other queues
(publishing is in `PublishJobs`).

### UploadQuota

State: `images` rows, `quota_reservations` status, `project_quota_state`
counters, the R2 original of each image, and the requests in progress.
"uploaded" stands for all statuses that may follow it (validating, validated,
ready): nothing here tells them apart. Size 0 is an object that confirming rejects
(empty, oversized, or of another type). The declared size is one constant,
the real one a member of `Sizes`, because the presigned PUT does not bind its length.
The URL is taken to expire with the row's `upload_expires_at`. A request is one of `authorizeProjectUploads`,
`confirmProjectUpload`, `deleteOwnedImage` and `retryDeletionCleanup`; the process
`Script` is `recoverImageLifecycle`. `Events` switch on expiry, rejected files, R2 and
PostgreSQL failures, deletion, recovery and crashes.

Left out: reservations of replacements (in `ImageReplacement`), the quota
reconciliation, and what a deletion does to jobs and bulk items (in `ProcessingJobs` and `BulkJobs`).

### ImageReplacement

One image whose first original was validated, its replacements, and the requests and
scripts that work on them. A storage key is the replacement that brought it, or `Original`.

| Actions | Code |
| --- | --- |
| `BeginReplacement` .. `SignUpload`, `ReleaseReservation` | `beginOwnedImageReplacement`: insert, reserve, demote, mark, sign; the catch |
| `UploadCandidate`, `Expire` | the browser's PUT, as long as the URL lives; time |
| `ConfirmReplacement` .. `MarkReplacementUploaded`, `RejectCandidate` | `confirmOwnedReplacementUpload` |
| `AcquireReplacementValidation` .. `MarkReplacementValidated`, `MarkReplacementFailed` | `validateOwnedReplacement` |
| `ReadForPromotion`, `ReadImage`, `CommitPromotion`, `ChargePromotion` | `promoteOwnedReplacement`; the transaction's two reads, of the candidate and of the image, and its guarded writes are three steps: by default PostgreSQL gives each statement a snapshot of its own |
| `RetryOldStorageCleanup` .. `MarkOldStorageCleanupFailed` | the old object's cleanup, within the promotion or by a retry |
| `AcquireCancellation` .. `MarkCancelCleanupFailed` | `cancelOwnedReplacement` |
| `AcquireImageValidation` .. `MarkImageValidationFailed` | `validateOwnedImage` |
| `ValidateAgain`, `EvaluateReady`, `MarkImageReady`, `DemoteInvalidReady` | `evaluateAndPromoteReady` |
| `BeginDeletion`, `AcquireImageDeletion`, `EraseOriginal` | the deletion, as far as it decides about this image |
| `RecoverOld`, `SelectCandidate`, `CancelSelected`, `ReconcileReady` | `recoverImageLifecycle`, `reconcileProjectReady`, row by row |

Abstractions: every file is one unit of the quota, since confirming refuses a size other than the
declared one; the outcome of a decoding is a choice; the statuses of an image whose deletion
is under way are one status, "deleted". `skewed` is a history variable: some promotion has read its image after
another request had promoted, cancelled or failed the candidate it had read as validated. The row and the image that
`RetryOldStorageCleanup` compares are read in one step: as long as nothing is skewed a row's old key is never the image's again, and the
comparison says the same at any time.

### BulkJobs

One bulk job: its row with counters, one item per image, one child per item, of which only
status, lease owner and attempts are kept. Requests (`createBulkJob`, `runBulkJob`, `cancelBulkJob`,
`retryFailedBulkItems`), the flows of a run (`processOneItem`, `Concurrency` at a time), workers with their
terminal callback, the loss of an image and `reconcileProjectBulkJobs` change the rows; each recount reads
in one step and writes in another. The two reads of a recount are one step: whoever changes an item or
the flag between them recounts afterwards. Left out: `createProcessingJob`'s adoption of another
job's completed derivative, and downloads.

### MetadataBatch

One batch, per image one generation and one job, the text approved for the image, and the
image's source. The job and the generation are inserted, requeued, cancelled and invalidated
by two statements each, and executions write both by id; every such statement is an action. Texts are
numbers, a new one per execution or edit. Recounts are one step here (how they overtake each other is
the question of `BulkJobs`). The loss of an image is the request that deletes it or begins to replace it: its jobs become stale
(`InvalidateJobs`), then in another call its generations and their jobs (`InvalidateGenerations`), then its items; each call swallows
what it throws (`InvalidationFails`), and the request, like every other one, may die between two statements (`RequestDies`; a
run dies with its flows). `Scripts` says which of the three reconcile scripts are run: "jobs" (`processing-reconcile.ts`),
"generations" (`scripts/reconcile-ai-metadata.ts`) and "batches" (`ai-metadata-batch-reconcile.ts`). The second selects and updates in
one step here: it selects what nobody has written for 30 minutes and no worker can take up, so that only a cancel or an invalidation
could fall in between, to be overwritten by "failed". `torn` is a history variable: the job was taken or
rewritten between two writes of somebody, or was stale already when the invalidation of its generation was cut short; this is when the two
rows may stay out of step for ever.
Left out: usage counters and events, generations outside a batch, prompts and quality rules; the provider
call succeeds or fails. An exception in another handler ends it, which is the same as its death.

### PublishJobs

The three connectors have the same control, with other remote calls; `platform` says which one
is looked at. WordPress and Shopify make the asset in one call, Webflow in three (`UploadAsset`, `SendBytes`,
`InspectAsset`), and only then its id is stored (`RecordAsset`). Statuses that differ in name only are
one status (the module's head lists them); Webflow's two status writes between its calls go with the
call they precede. Leases are not renewed by the code: `RecoverExpired` may take any row that is still "leased", whether its execution is
gone, or, as a stall, has not read its row yet, or has read it and not written its status, the write that
ends the lease and looks at nothing. `overslept` is a history variable, the jobs to which the last of the three happened.
`made` counts the assets at the remote site.
Left out: connections beyond enabled and disabled, usage counters, webhooks and audit entries, except
that the audit entry after `finalizeJob` can fail, and with it a finished execution (`Finish`, step "late").

## 3. Runs

| Run | Instance | Question |
| --- | --- | --- |
| `JobsClaims` | 2 workers of 1 slot, 1 job, 2 attempts, 1 stop, {crash, restart, shutdown, stall, cancel} | does a worker that lost its lease, or gave it back, ever share an attempt or a key with one in service? is the queue an `AttemptTickets`? |
| `JobsCrash` | 1 worker, 1 job, 3 attempts, 2 stops, {crash, restart, retry, storage, delete} | do crashes between any two statements, followed by restarts and retries, leave derivatives without objects, two active ones, overlapping executions? |
| `JobsReplace` | 1 worker of 2 slots, 1 job, 2 attempts, {stall, replace, db, webcrash} | is an object lost, or the project overcharged, when statements throw and a stalled execution races a replacement? |
| `JobsSettle` | `LiveSpec`, 2 workers, 2 jobs of different variants, 2 attempts, 1 crash | does every job settle? |
| `Uploads` | 2 images, 2 requests, real size 2 for a declared 1, limits 2 images and 3 bytes, 1 crash, everything but recover | do the counters cover what exists, and is cleanup exclusive? |
| `Replacements` | 2 replacements, 2 requests, 1 fault of any kind | does the image show a validated object that no cleanup is about to delete, unless a promotion's two reads were skewed; are reservations counted once; are verdicts about the object examined; does a deleted image stay deleted? |
| `ReplacementsSettle` | `FairSpec`, 1 replacement, 1 request, the scripts, 2 faults | do old objects go, abandoned candidates free their image, wrongly ready images get demoted? |
| `VPromote` | 1 replacement, 1 request, the script, no fault | section 5: `ActiveObjectKept` |
| `Bulk` | 2 items, 2 requests, 1 worker, 3 user requests, 1 fault | is a completed item true, and does a cancel stop what has not begun? |
| `BulkSettles` | `FairSpec`, 1 item, 1 request, 1 worker, the script, 3 user requests, 1 crash or lost lease | do the row and its items come to rest, and agree? |
| `Metadata` | `FairSpec`, 1 image, 1 runner, 1 cancel or retry at a time, 1 worker, 1 review, 2 sources, the three scripts, 3 requests in all, 1 fault, among them the death of a request and a failing statement of the invalidation | does approved text stay the generation's, is a generation left over explained, does work end, does the batch tell the truth? |
| `Publishes` | `FairSpec`, WordPress and Webflow, 2 jobs of which one in a bulk publish, 2 workers of 1 execution, 2 attempts, 2 user requests or changes, 1 fault | one execution per job and true mappings, but for a job whose execution overslept its lease; explained duplicates; do jobs and bulk rows settle? |

*Why the bounds suffice.* Each hazard needs at most two actors on one
row (a stale execution and its successor, two confirms, a promotion and
a cancellation, a retry and the recovery) or two rows on one counter. Two attempts separate "the same attempt"
from "the next one"; a third (`JobsCrash`) allows a retry after a crash and
a restart. One fault per behaviour reaches every program
point, two allow a crash of the recovery. The upload limits are such that
one batch of two fills the slots and a file larger than declared reaches
the byte limit. `MaxRevisions` 1 allows the one replacement that makes a job stale.
`MaxGenerated` is above what a job reserves, so that creates reach the counters. Every bound appears in a
guard or in a pool of ids.

A worker of two slots may run the same job twice, under a claim it lost and the one that followed
it. `JobsClaims` and `Publishes` give their workers one: what they ask is about different workers. The code's
own number is three for processing jobs, and `JobsSettle` has two jobs for two slots.

*Deadlock.* The processing runs check it: a worker always polls. The others
do not: their ids are used up and users stop.

*Fairness.* Nothing is assumed of users, restarts, crashes or remote sites.

- `LiveSpec` of `ProcessingJobs`: weak fairness of the polling loop (`while`
  with a sleep), of each execution (each call returns or throws) and of a lease
  running out when nobody renews it.
- `FairSpec` of `BulkJobs`, `MetadataBatch`, `PublishJobs`, `ImageReplacement`: weak fairness of requests and executions
  in progress, of the workers' polling and of time. In `MetadataBatch` the claim of a queued job is strongly fair: the
  worker, which does other work in between, comes back to it before the script gives it up after 30 minutes.
- The scripts (`reconcileProjectBulkJobs`, `recoverImageLifecycle`, the reconcile scripts of metadata and publishing) are
  assumed to be run again and again and to reach each row. The code does not schedule
  them (ARCHITECTURE.md says so): these liveness properties say what the scripts achieve when they are run.

*What the liveness properties leave out.* `JobSettles` holds for two workers of
which one may crash and not return, and fails with three (section 5). `PublishingSettles` excepts a job whose execution died
after its first write: nothing takes it up again. `ItemsSettle` excepts a row left "queued" by a retry that died.
`WorkEnds` has no exception, since the script
`reconcile-ai-metadata.ts` fails the generations in progress that nobody will take up; `OrphansExplained` says what it can find: the attempts of the job are used up, or the pair is torn. `AbandonedEnds` says
that a candidate abandoned before its validation does not block its image; one that is "validating" or
"validated" is not looked at by the script.

## 4. Proofs

Every invariant that a passing run checks, every action property and the refinement are theorems. The run
shows each one on a small instance, the theorem for every value of the constants.

*Assumptions on constants* (`QueueAssumption`, `JobsAssumption`, `UploadAssumption`, `ReplacementAssumption`,
`BulkAssumption`, `MetadataAssumption`, `PublishAssumption`): bounds are naturals, pools of ids are finite where they
are counted, `None` and `Script` are fresh (`None` is no storage key of `ImageReplacement`), and names of requests,
workers, runners and reviewers that share a variable are disjoint. TLC evaluates them in the runs.

*Hypotheses of theorems.* Where the code does not keep a promise under everything that may happen (section 5), the theorem
names what it excludes, and only that: for each conjunct TLC gave a behaviour that breaks the property without it.

| Hypothesis | Without it |
| --- | --- |
| `NoDeletions` (`NeverOvercharged`) | a deleted derivative leaves the charge in a later statement, and the credit of its output may come after both |
| `NoLosses`: no crash, shutdown or R2 failure (`ObjectsOwned`) | a worker dies between its PUT and its insert, or a deletion in R2 fails, and nobody knows the object |
| `Calm` (`SoleWriter`, `CompletedIsFinal`): one worker process, retries by one handler, no stall, cancellation, replacement or failing statement | two workers select one expired row and the second requeues it when the first runs it again; two retries do the same; the others let the lease of a running execution lapse, or send one past its insert to the cleanup |
| `Calm` and no shutdown (`ActiveHasObject`) | an attempt handed back at the drain deadline is counted again, and a failing second execution deletes the key the first one made active |
| `Serial`: `Calm`, one handler, no retry (`OneActive`) | two creates, or a create and a retry, look at a target before either has written |
| `AtMostTwoRequests` (`NoStartAfterCancel`) | a creation between its row and its items, a retry that is about to clear the flag, and a cancel: the flag goes, the sweep finds nothing, and the run begins the items |
| `OneAtATime` (`SoleExecution`, `MappingsAgree`, `DuplicatesExplained`): one request at a time; slots of one, or no lease that expires under its execution; no remote failure together with a failing audit entry | two retries read the same failed job, and the second requeues it while it executes; a worker claims the job again in another slot and begins both; a job that ended partially completed is retried, and requeued by the old execution whose audit entry failed |
| `Steady` (`ApprovedAgrees`): one reviewer; no lease that runs out under a live worker; no run of the script that fails generations; no crash together with a failed attempt | an edit, or another execution's text, comes between reading the draft and approving it; after a failed attempt, or a generation that the script failed, the retry requeues the job, its next worker drafts and dies, a review begins, the retry goes on to requeue the generation, and the job is executed again under the review |
| no `Expiring` (`OrphansExplained`): no lease that runs out under a live worker | the stalled worker goes on to set the generation to "generating" over the draft of its successor, whose job is completed, and dies |

Two properties have an exception of their own, in the definition: a promotion whose two reads were skewed (`CleanupSparesActive`) and a
job whose execution overslept its lease (`SoleExecution`, `MappingsAgree`). The exceptions name a step of the code and not a configuration; TLC refutes the properties
without them (section 5), and the theorems say that nothing else breaks them. `DuplicatesExplained` needs no
exception in the run, where a stall is itself a fault that explains one more asset; its theorem holds until the first
job is overslept.

*ProcessingJobs.*

- `TypesHold`. `TypeOK` is not inductive: the shutdown
  release subtracts an attempt, an execution computes its key from what it read, a promotion
  counts a revision. `TypeInv` adds that a leased row has an attempt counted (`OwnedIsCounted`),
  that work in progress has an attempt for its key (`WorkHasKey`), and that a replacement is
  open only while the revision bound allows one more (`ReplacingHasRoom`).
- `ClaimsHold`, `WritersHold`. Neither `ClaimsDistinct` nor `WritersDisjoint` is
  inductive: a fresh claim could meet an old one with the same number. `ClaimInv` adds that a
  claim's number, and the number an execution read, are at most the attempts counted, and
  strictly below them once another worker has the lease, which may give one back
  (`ClaimsCounted`, `KeysCounted`), and that idle slots hold no key (`IdleHasNoKey`).
- `TicketsHold`: `TicketsImplemented`, step by step from the same invariant. A claim issues the next ticket, the shutdown release
  hands back the last ones, an execution that ends or a process that dies drops its own; every other action leaves
  both `attempts` and the live slots alone.
- `CompletedHasDerivativeHolds`. `OutputInv` carries the insert of the derivative
  along the execution's program counter to the completion that names it.
- `NeverOverchargedHolds`. `ChargeInv` covers the charge by the inserted derivatives less those that an execution has still
  to credit, and lets no two executions owe one key; the property alone would let both credit one output.
- `ObjectsOwnedHolds`. `HoldInv` says that an object without a derivative belongs to an execution between its PUT and its
  insert or cleanup; it needs `ClaimInv`, since the cleanup of one must not touch the object of another.
- `SoleWriterHolds`, `CompletedIsFinalHolds`. The code's writes are by id: what makes them safe is that nobody else is at work. `CalmInv`
  says so of executions (`Sole`), of the row an execution works on (`Leased`: it shows it, and its lease has not lapsed,
  so nothing requeues or claims it), of the end (`Finished`), and of what a handler or a script has read (`RequestsFit`, `SelectedFit`).
- `ActiveHasObjectHolds`. `StoreInv` adds that keys of later attempts are unused (`KeysFresh`, `ClaimsFresh`), that an execution past its PUT
  has its object (`PutThere`), and that a deletion in R2 follows the mark on the row (`DeletionsMarked`).
- `OneActiveHolds`. `ApartInv`: of two jobs with one target at most one may still insert (`TargetsApart`), and an execution that inserts has
  cleared its target (`Cleared`).

*UploadQuota.*

- `UploadTypesHold`. The counters stay natural because each update is clamped;
  `SubjectKnown` adds that a request past its start works on an existing id.
- `CleanupIsExclusive`. `markStorageDeleting` lets a request in from two statuses only; the
  invariant says that an image under cleanup is in neither, since it is hidden
  (so it cannot be acquired again, even after a late confirm made it "uploaded")
  and since only the request that cleans it up can fail it. Most steps are dealt
  with by one lemma about steps that neither enter a cleanup nor a deletion status.
- `SlotsExactHolds`. `DeletersHide` says that every step of a deletion works on a hidden image, so that the
  subtractions of deletions happen only where the property no longer speaks.
- `ActiveCoveredHolds`. `activeOriginalBytes` is compared with a sum over the images, while confirming and deleting move single terms of it, in
  another step than the row. The invariant says that the counter can be shared out: there is a share per image
  (`Backs`) that covers a visible image's size, the size a confirmation is about to write, and what a
  deletion is about to take off; and likewise a set of images counted (`Counts`). Consuming a reservation adds to one share, charging a deletion takes
  from one that nobody else will take from (`OneCharge`); every other step satisfies `KeepsShares`, under which the
  old shares still do. The facts about sums (`SizesTake`, `SizesCovered`, `SizesChange`) need induction over a finite
  set. The library's induction theorems take an operator as a parameter; instead the proofs look at a smallest counterexample, which
  `SmallestSubset` provides from the well-foundedness of strict subsets.

*ImageReplacement.*

- `ReplacementTypesHold`. `PlaceInv` adds what each request knows of its candidate (`RequestsFit`), that a new id is fresh everywhere
  (`NewIdsApart`), that a promoted row has an old key (`PromotedHasOld`) and that rows and reservations go together (`RowsReserved`).
- `CleanupSparesActiveHolds`. `KeyInv` orders the keys: a candidate whose key the image, a row's old key or a request remembers is promoted or
  closed (`RememberedIsApproved`); and, as long as no promotion's reads were skewed, a promotion that can still commit brings a key nobody
  remembers (`PromotionsAreNew`), and the old keys, in rows and in cleanups, are past (`OldIsPast`, `CleanupIsPast`).
- `ShowsValidatedHolds` (`SoundInv`), `VerdictHolds` (`VerdictsOnOriginal`: a validation of the image is of its first object, until a replacement demotes it),
  `DeletedStaysHolds` (every write of the image is conditional on a status a deleted image has not), `ReservedExactHolds`.

*BulkJobs.* `BulkTypesHold` bounds the counters a recount carries from its read to its write. `CompletedIsTrueHolds`: `DoneInv` says of every
flow about to adopt its child, and of every worker about to report one completed, that the child is completed.
`NoStartAfterCancelHolds`: `CancelInv` says that once the sweep is over no flow has passed the check of the flag with an item that is still
pending (`PendingUnbegun`), that the flag is up unless no item is pending and none is about to be inserted (`FlagUp`), and that row, items
and flows come in the order of the creation.

*MetadataBatch.* `MetadataTypesHold`: `BaseInv` and `BoundsInv`; that texts stay within their bound is an accounting argument (`TextsPaid`: each text was paid for
by an attempt or a review). `ApprovedAgreesHolds`: an execution writes the generation by id, so that it must not be at work, nor be able to be claimed,
while a reviewer is. `AgreeInv` says so of executions (`EngagedOwns`), of a retry between its two writes (`RetriedIdle`) and of reviews (`ReviewedIdle`,
`ReviewedText`); `StartInv` brings the order in which a flow inserts the job and the generation. A dying request disturbs neither: it takes tasks away and writes no row
(`DeathKeeps`). `OrphansExplainedHolds`: a generation in progress whose job is not torn has that job queued or leased (`InStep`). `OrphanInv` makes it inductive: the
job is inserted once and before its generation (`JobNew`), nobody works on a pair whose second row is still to be written (`HalfHeld`), who has still to write the job
owns its lease (`WritersOwn`), and the lease is given up only after the generation has ended or the job is queued again (`OverEnded`).

*PublishJobs.* `PublishTypesHold` (`TypeInv`). `PublishInv` adds, of the jobs no execution of which overslept its lease (`Lone`), that an execution has its job to itself (`Own`, `HoldApart`), that executions
which fail after the completing write have different jobs (`LateApart`), that requests in progress still describe their job (`RowInv`), and that mappings and assets follow
the steps of an execution (`MapsRight`, `PublishedMapped`, `MadeCounted`), from which come `SoleExecutionHolds`, `MappingsAgreeHolds` and
`DuplicatesExplainedHolds`.

Only model-checked: the liveness properties (`JobSettles`, `PublishingSettles`, `CountersConverge`, `ItemsSettle`, `WorkEnds`, `BatchTellsTruth`,
`OldObjectsGo`, `AbandonedEnds`, `ReadySettles`): they rest on fairness, and ENABLED is beyond the prover. `ActiveObjectKept` is false (section 5).

## 5. Where code and documentation disagree

`VPromote` / `ActiveObjectKept`. `promoteReplacementInTransaction` (`images/replace-queries.ts`:420) updates the image and then the
replacement. If the compare-and-set on the replacement fails, it returns a conflict, and returning commits: the image has moved
to the candidate's key. What made it fail is a cancellation, which goes on to delete that object. The comment
on the recovery script, one of those that cancel, says it never deletes the active key (`images/recovery-service.ts`:36).

Seen while modelling, without a run of their own. Jobs and queue:

- Two surviving workers select the same expired job (`queue-service.ts`:252, an update by id); the late requeue
  of one unclaims the other's new claim; the superseded execution then clears the lease, and the job
  runs for ever without one. ARCHITECTURE.md:264 says "expired leases requeue safely". It takes three workers.
- A retry between `failJob` and `clearLease`, claimed by the same worker, loses its lease the same way.
- The shutdown release gives the attempt back while the execution still runs (`queue-service.ts`:350): the next claim
  writes the same key, which README.md:202 calls new.
- An execution that read the image before its deletion inserts an active derivative after the deletion has listed
  them (`processing-service.ts`:550).
- `cancelQueuedProcessingJob` reads the status and writes by id (`processing-service.ts`:725): a job claimed in between is
  cancelled while it runs, though README.md:206 says "queued only".
- A retry requeues before it reserves, ignores a refusal and makes none of the checks of a create;
  `MAX_ACTIVE_JOBS_PER_IMAGE` is read nowhere.
- A retry of a `cleanup_failed` job forgets the key of the object left behind.
- A database error after `insertDerivative` makes a completed job failed and deletes the object
  of a derivative that stays active.
- A worker that stalls on a job before beginning it and claims it again may write one key twice.
- After a cancel or a deletion the heartbeat no longer renews; an execution that revives the row runs
  beside its successor.

Uploads, deletion, replacement:

- The promotion reads the candidate and then the image in two plain SELECTs (`replace-queries.ts`:312, 338). A request that
  has read its candidate as validated stalls; another one promotes the candidate, then a later candidate, and begins to delete the first one's
  object. The stalled request now reads the later key, its update conditional on that key succeeds, and the failed compare-and-set on the
  replacement commits: the image shows the object that is being deleted. ARCHITECTURE.md:391 says of that cleanup "never delete active
  key"; `retryOldStorageCleanup` compares the keys once, before it marks the row. TLC finds it with two candidates, two requests and no fault,
  when `ActiveKeySpared` is the invariant.
- Deleting a pending upload subtracts cleanup bytes that were never added (`delete-service.ts`:68), eating another image's.
- An image whose request died in `storage_deleting` is refused by every retry (`delete-queries.ts`:123), though the
  recovery selects it for one.
- After a failed authorization the slot is released, and released again when the image is deleted.
- A confirm that dies between consuming and marking is refused when repeated: the object is
  deleted, the active count stays. Of two concurrent confirms the second marks the image failed and deletes its
  object; for a replacement, possibly after it was promoted.
- `markImageUploaded` writes by id: an image whose deletion is in progress, or done, becomes
  uploaded, hidden, and is never cleaned up.
- Consuming checks the default limit, not the plan's. An expired reservation keeps its slot and bytes until its image is deleted.
- A candidate that is "validating" or "validated" is never taken for abandoned; one whose confirm expired becomes
  failed, may still be validated, and can never be promoted.
- A late PUT brings the object of a cancelled or cleaned candidate back; cancelling a pending candidate leaves its
  reservation; a cancellation repeated after a crash takes the candidate's bytes off twice.

Bulk jobs and metadata:

- The last write of a retried item is unconditional: it sets an item whose child has completed back to running, below the
  comment that completed items are never touched. A callback that arrives before the item is linked is lost until the script fails the item.
- A retry that dies after the reset leaves a "queued" row with running items, and a creation that dies
  after the items leaves "validating"; the script repairs neither. It compares counters and not the status.
- A child that is cancelled, deleted or made stale while queued reports nothing to its item.
- A metadata job claimed between its insert and its generation's (`ai-metadata-service.ts`:280) ends without one, and the
  generation then stays queued; so does one whose retry finds its job's attempts used up. A queued
  generation blocks its image (`AI_GENERATION_CONFLICT`).
- A deletion or a replacement makes the image's jobs stale in one call and its generations in a second one, and swallows what either throws
  (`delete-service.ts`:164 and 177): when the second fails or the request dies in between, the generation stays queued over a stale job. Only
  `scripts/reconcile-ai-metadata.ts` ends it.
- A run that dies between taking an item and linking its generation leaves the item "queued" without a generation: nothing looks at it again, and the batch stays "running".
- Executions return early on an invalidated generation and leave their job "processing", without a lease, to the reconcile script;
  their unconditional writes bring a cancelled or invalidated generation back. A rejected generation that a crash executes again becomes a draft.
- Cancelling marks items cancelled whose generation runs on and later shows as a draft. The runner's death leaves a batch "queued".
- Two reviews of one generation at a time break `ApprovedAgrees`; so does a stalled worker, and so does a retry whose job is claimed between its two writes by
  a worker that drafts a text and dies. `Metadata` has one reviewer, one retry and one fault, and no stall.
- So does the script that fails generations, between a retry's two writes, with two faults or three attempts; `Metadata`, which runs it, has fewer.

Publishing:

- A job made from a derivative stores the derivative's key as `sourceRevisionKey` and compares it with the
  image's (`publish-service.ts`:109 and 452): it always fails.
- An execution looks at its lease when it reads the row (`wordpress/publish-service.ts`:425); its first write (441) and all that follow go by
  the id, and the recovery (598) requeues any row that is "leased" and expired, also between the two. A second worker begins, the first one goes on, and
  both publish; if the second records its asset last and the first one maps its own, job and mapping name different assets. The comment on the
  function (419) says "Idempotent w.r.t. lease ownership". TLC finds it with one job, two workers and a stall, when `SoleExecution` has no exception.
- `recoverExpired*Leases` requeues "leased" only: a crash after the first status write strands the job for ever,
  and `retryPublishJob` refuses it. The shutdown release knows processing jobs only.
- `retryPublishJob` reads, then writes by id: two retries at once can requeue a job that is executing again. With two faults
  a failing audit entry does the same to a job retried after a partial completion. `Publishes` has one request at a time and one fault.
- `cancelRequested` is never read: a child that was executing when its bulk publish was cancelled is retried and published.
- A job requeued with its attempts used up waits 24 hours to become stale. A missing source object is retried as an internal error.
- Webflow stores its asset's id after three calls: each failure in between leaves an asset behind.

## 6. Plan

1. Theorems: the safety part of the liveness properties, which is that no state is a dead end (what a stuck row
   waits for is always enabled), and `CountersConverge` once no request is in progress.
2. `WebhookDelivery`: leases, backoff, endpoint suspension; an instance of `AttemptTickets` too.
3. `ApiIdempotency` and `GuestCleanup`: two small protocols on rows.
4. `ProcessingReconcile` with the quota reconciliation, on top of the counters.
5. Billing's monthly usage and Stripe events.

Not modelled, and not planned: components of read-only queries, CRUD, UI, image transforms and generated migrations; they
have no protocol. Exports and parts of Cloudinary and workflows are stubs at this commit.
