--------------------------- MODULE ProcessingQueue ---------------------------
(***************************************************************************)
(* The lease queue on the table processing_jobs, as the worker processes   *)
(* drive it: src/server/images/queue-service.ts and the loop of            *)
(* scripts/processing-worker.ts.  A row is claimed by one atomic UPDATE    *)
(* over FOR UPDATE SKIP LOCKED; the claim takes one of the job's attempts, *)
(* a lease and a heartbeat.  What a claimed execution then does to the row *)
(* is module ProcessingJobs, which conjoins the actions below with its own *)
(* variables.                                                              *)
(*                                                                         *)
(* Time is abstract: `lapsed[j]` says that lease_expires_at is in the      *)
(* past.  Each execution is identified by the claim that started it, the   *)
(* slot <<worker, job, attempt number given by the claim>>.                *)
(***************************************************************************)
EXTENDS Naturals, FiniteSets

CONSTANTS
  Workers,      \* worker processes, by worker id (WORKER_ID survives a restart)
  Jobs,         \* pool of processing job ids
  None,         \* the SQL null
  MaxAttempts,  \* MAX_PROCESSING_ATTEMPTS
  Parallel,     \* QUEUE_WORKER_PARALLEL_JOBS
  MaxStops,     \* bound: crashes and shutdowns in a behaviour
  Events        \* which disturbances may happen in a behaviour

AllEvents ==
  { "crash",     \* a worker process dies
    "restart",   \* a stopped worker process is started again
    "shutdown",  \* a worker process gets SIGTERM
    "stall",     \* a live worker misses its heartbeats for a whole lease TTL
    "cancel",    \* a user cancels a queued job
    "retry",     \* a user retries a failed job
    "delete",    \* a user deletes an image
    "replace",   \* a user replaces an image
    "storage",   \* an R2 call or a transform fails
    "db",        \* a PostgreSQL statement fails
    "webcrash" } \* a web handler dies between two statements

ASSUME QueueAssumption ==
  /\ MaxAttempts \in Nat \ {0}
  /\ Parallel \in Nat \ {0}
  /\ MaxStops \in Nat
  /\ Events \subseteq AllEvents
  /\ None \notin Workers

VARIABLES
  status,      \* processing_jobs.status, "absent" before the insert
  attempts,    \* processing_jobs.attempt_count
  owner,       \* processing_jobs.lease_owner
  lapsed,      \* processing_jobs.lease_expires_at < now()
  mode,        \* life of a worker process
  loop,        \* where the worker's main loop is
  selected,    \* ids read by recoverExpiredLeases, not yet requeued
  inFlight,    \* the worker's in-memory set of job ids
  pc,          \* where each execution is, "idle" when there is none
  keyAttempt,  \* attempt number an execution read when it began, 0 before
  stops        \* crashes and shutdowns so far

leaseVars  == <<status, attempts, owner, lapsed>>
workerVars == <<mode, loop, selected, inFlight, stops>>
execVars   == <<pc, keyAttempt>>
queueVars  == <<leaseVars, workerVars, execVars>>

RunningStatus == {"processing", "uploading_output", "verifying_output"}
ActiveStatus  == RunningStatus \cup {"queued"}
JobStatus == ActiveStatus \cup
  {"absent", "completed", "failed", "cancelled", "stale", "cleanup_failed"}

Slots == Workers \X Jobs \X (1 .. MaxAttempts)

WorkerMode == {"running", "draining", "released", "down"}
LoopStep   == {"poll", "requeue", "claim"}
ExecStep   == {"idle", "claimed", "check", "work", "put", "report", "verify",
               "retire", "demote", "insert", "complete", "credit", "usage",
               "cleanup", "unclean", "drop", "outdated", "unreserve", "fail",
               "unreserve_stale", "stale", "clear"}

Live(s) == pc[s] # "idle"

\* A heartbeat timer runs for every execution of a live process.
Beats(w, j) == \E s \in Slots : s[1] = w /\ s[2] = j /\ Live(s)

QueueTypeOK ==
  /\ status \in [Jobs -> JobStatus]
  /\ attempts \in [Jobs -> 0 .. MaxAttempts]
  /\ owner \in [Jobs -> Workers \cup {None}]
  /\ lapsed \in [Jobs -> BOOLEAN]
  /\ mode \in [Workers -> WorkerMode]
  /\ loop \in [Workers -> LoopStep]
  /\ selected \in [Workers -> SUBSET Jobs]
  /\ inFlight \in [Workers -> SUBSET Jobs]
  /\ pc \in [Slots -> ExecStep]
  /\ keyAttempt \in [Slots -> 0 .. MaxAttempts]
  /\ stops \in Nat

QueueInit ==
  /\ status = [j \in Jobs |-> "absent"]
  /\ attempts = [j \in Jobs |-> 0]
  /\ owner = [j \in Jobs |-> None]
  /\ lapsed = [j \in Jobs |-> FALSE]
  /\ mode = [w \in Workers |-> "running"]
  /\ loop = [w \in Workers |-> "poll"]
  /\ selected = [w \in Workers |-> {}]
  /\ inFlight = [w \in Workers |-> {}]
  /\ pc = [s \in Slots |-> "idle"]
  /\ keyAttempt = [s \in Slots |-> 0]
  /\ stops = 0

-----------------------------------------------------------------------------
(* Row updates shared by the actions *)

\* The rows of `ids` become queued and lose their lease.
Requeued(ids) ==
  /\ status' = [j \in Jobs |-> IF j \in ids THEN "queued" ELSE status[j]]
  /\ owner' = [j \in Jobs |-> IF j \in ids THEN None ELSE owner[j]]
  /\ lapsed' = [j \in Jobs |-> IF j \in ids THEN FALSE ELSE lapsed[j]]

-----------------------------------------------------------------------------
(* One iteration of the worker loop: recover expired leases, then claim *)

\* Mutant of SelectExpiredLeases: the expiry is not compared with now().
SelectLeased(w) ==
  /\ mode[w] = "running" /\ loop[w] = "poll"
  /\ selected' = [selected EXCEPT ![w] =
       {j \in Jobs : status[j] \in RunningStatus /\ owner[j] # None}]
  /\ loop' = [loop EXCEPT ![w] = "requeue"]
  /\ UNCHANGED <<leaseVars, execVars, mode, inFlight, stops>>

\* Mutant of SelectExpiredLeases: the status is not looked at.
SelectAnyStatus(w) ==
  /\ mode[w] = "running" /\ loop[w] = "poll"
  /\ selected' = [selected EXCEPT ![w] = {j \in Jobs : owner[j] # None /\ lapsed[j]}]
  /\ loop' = [loop EXCEPT ![w] = "requeue"]
  /\ UNCHANGED <<leaseVars, execVars, mode, inFlight, stops>>

\* recoverExpiredLeases, first statement: select the expired rows.
SelectExpiredLeases(w) ==
  /\ mode[w] = "running" /\ loop[w] = "poll"
  /\ LET expired == {j \in Jobs : status[j] \in RunningStatus
                                    /\ owner[j] # None /\ lapsed[j]}
     IN /\ selected' = [selected EXCEPT ![w] = expired]
        /\ loop' = [loop EXCEPT ![w] = IF expired = {} THEN "claim" ELSE "requeue"]
  /\ UNCHANGED <<leaseVars, execVars, mode, inFlight, stops>>

\* Mutant of RequeueExpiredLeases: the attempt is given back as on a shutdown.
RequeueRefunded(w) ==
  /\ mode[w] \in {"running", "draining"} /\ loop[w] = "requeue"
  /\ Requeued(selected[w])
  /\ attempts' = [j \in Jobs |-> IF j \in selected[w] /\ attempts[j] > 0
                                 THEN attempts[j] - 1 ELSE attempts[j]]
  /\ selected' = [selected EXCEPT ![w] = {}]
  /\ loop' = [loop EXCEPT ![w] = "claim"]
  /\ UNCHANGED <<execVars, mode, inFlight, stops>>

\* Mutant of RequeueExpiredLeases: the lease goes but the status stays.
RequeueLeaseOnly(w) ==
  /\ mode[w] \in {"running", "draining"} /\ loop[w] = "requeue"
  /\ owner' = [j \in Jobs |-> IF j \in selected[w] THEN None ELSE owner[j]]
  /\ lapsed' = [j \in Jobs |-> IF j \in selected[w] THEN FALSE ELSE lapsed[j]]
  /\ selected' = [selected EXCEPT ![w] = {}]
  /\ loop' = [loop EXCEPT ![w] = "claim"]
  /\ UNCHANGED <<execVars, status, attempts, mode, inFlight, stops>>

\* recoverExpiredLeases, second statement: requeue the selected ids.  The
\* WHERE clause names the ids and nothing else.
RequeueExpiredLeases(w) ==
  /\ mode[w] \in {"running", "draining"} /\ loop[w] = "requeue"
  /\ Requeued(selected[w])
  /\ selected' = [selected EXCEPT ![w] = {}]
  /\ loop' = [loop EXCEPT ![w] = "claim"]
  /\ UNCHANGED <<execVars, attempts, mode, inFlight, stops>>

Claimable == {j \in Jobs : status[j] = "queued" /\ attempts[j] < MaxAttempts}

\* claimQueuedJobs: one UPDATE gives the rows a lease and an attempt.  Rows
\* locked by another claim are skipped, so any of the claimable rows may be
\* taken, but never none of them while the worker has a free slot.
Claim(w, claimed) ==
  /\ mode[w] \in {"running", "draining"} /\ loop[w] = "claim"
  /\ Cardinality(claimed) + Cardinality(inFlight[w]) <= Parallel \/ claimed = {}
  /\ claimed = {} => Claimable = {} \/ Cardinality(inFlight[w]) >= Parallel
  /\ status' = [j \in Jobs |-> IF j \in claimed THEN "processing" ELSE status[j]]
  /\ attempts' = [j \in Jobs |-> IF j \in claimed THEN attempts[j] + 1 ELSE attempts[j]]
  /\ owner' = [j \in Jobs |-> IF j \in claimed THEN w ELSE owner[j]]
  /\ lapsed' = [j \in Jobs |-> IF j \in claimed THEN FALSE ELSE lapsed[j]]
  /\ loop' = [loop EXCEPT ![w] = "poll"]
  /\ UNCHANGED <<mode, selected, keyAttempt, stops>>

\* The loop starts an execution for every claimed row.
ClaimQueuedJobs(w) ==
  \E claimed \in SUBSET Claimable :
    /\ Claim(w, claimed)
    /\ pc' = [s \in Slots |->
                IF s[1] = w /\ s[2] \in claimed /\ s[3] = attempts[s[2]] + 1
                THEN "claimed" ELSE pc[s]]
    /\ inFlight' = [inFlight EXCEPT ![w] = @ \cup claimed]

\* The worker's own heartbeat, written before claimQueuedJobs returns, throws:
\* the rows are claimed and nobody works on them.
ClaimIsLost(w) ==
  /\ "db" \in Events
  /\ \E claimed \in SUBSET Claimable \ {{}} : Claim(w, claimed)
  /\ UNCHANGED <<pc, inFlight>>

\* An exception in the iteration is caught and logged: the loop polls again.
LoopFails(w) ==
  /\ "db" \in Events
  /\ mode[w] \in {"running", "draining"} /\ loop[w] # "poll"
  /\ loop' = [loop EXCEPT ![w] = "poll"]
  /\ selected' = [selected EXCEPT ![w] = {}]
  /\ UNCHANGED <<leaseVars, execVars, mode, inFlight, stops>>

-----------------------------------------------------------------------------
(* Leases and time *)

\* heartbeatLeasedJob: renews only a running row leased to this worker.
HeartbeatLeasedJob(w, j) ==
  /\ Beats(w, j)
  /\ owner[j] = w /\ status[j] \in RunningStatus /\ lapsed[j]
  /\ lapsed' = [lapsed EXCEPT ![j] = FALSE]
  /\ UNCHANGED <<status, attempts, owner, workerVars, execVars>>

\* The lease TTL passes without a renewal: nobody beats, the beats do not
\* match the row (it is not running), or the live worker stalls.
LeaseLapses(j) ==
  /\ owner[j] # None /\ ~lapsed[j]
  /\ \/ "stall" \in Events
     \/ status[j] \notin RunningStatus
     \/ ~Beats(owner[j], j)
  /\ lapsed' = [lapsed EXCEPT ![j] = TRUE]
  /\ UNCHANGED <<status, attempts, owner, workerVars, execVars>>

\* processClaimedJob after executeProcessingJob: clearLease, then the finally
\* block of the worker loop.
FinishExecution(s) ==
  LET w == s[1]
      j == s[2]
  IN /\ pc[s] = "clear"
     /\ owner' = [owner EXCEPT ![j] = IF @ = w THEN None ELSE @]
     /\ lapsed' = [lapsed EXCEPT ![j] = IF owner[j] = w THEN FALSE ELSE @]
     /\ pc' = [pc EXCEPT ![s] = "idle"]
     /\ keyAttempt' = [keyAttempt EXCEPT ![s] = 0]
     /\ inFlight' = [inFlight EXCEPT ![w] = @ \ {j}]
     /\ UNCHANGED <<status, attempts, mode, loop, selected, stops>>

\* An exception leaves executeProcessingJob: only the finally block runs.
AbandonExecution(s) ==
  /\ Live(s)
  /\ pc' = [pc EXCEPT ![s] = "idle"]
  /\ keyAttempt' = [keyAttempt EXCEPT ![s] = 0]
  /\ inFlight' = [inFlight EXCEPT ![s[1]] = @ \ {s[2]}]
  /\ UNCHANGED <<leaseVars, mode, loop, selected, stops>>

-----------------------------------------------------------------------------
(* The life of a worker process *)

\* The process is gone, and its executions and memory with it.
Gone(w) ==
  /\ mode' = [mode EXCEPT ![w] = "down"]
  /\ loop' = [loop EXCEPT ![w] = "poll"]
  /\ selected' = [selected EXCEPT ![w] = {}]
  /\ inFlight' = [inFlight EXCEPT ![w] = {}]
  /\ pc' = [s \in Slots |-> IF s[1] = w THEN "idle" ELSE pc[s]]
  /\ keyAttempt' = [s \in Slots |-> IF s[1] = w THEN 0 ELSE keyAttempt[s]]

WorkerCrashes(w) ==
  /\ "crash" \in Events /\ stops < MaxStops
  /\ mode[w] # "down"
  /\ Gone(w)
  /\ stops' = stops + 1
  /\ UNCHANGED leaseVars

\* SIGTERM: the flag is set, the iteration in progress may still finish.
ShutdownWorker(w) ==
  /\ "shutdown" \in Events /\ stops < MaxStops
  /\ mode[w] = "running"
  /\ mode' = [mode EXCEPT ![w] = "draining"]
  /\ stops' = stops + 1
  /\ UNCHANGED <<leaseVars, execVars, loop, selected, inFlight>>

\* Mutant of ReleaseInFlightLeases: the attempts of all jobs in flight are given
\* back, also of those whose lease went to another worker.
ReleaseAllInFlight(w) ==
  /\ mode[w] = "draining" /\ inFlight[w] # {}
  /\ Requeued({j \in inFlight[w] : owner[j] = w /\ status[j] \in RunningStatus})
  /\ attempts' = [j \in Jobs |-> IF j \in inFlight[w] /\ attempts[j] > 0
                                 THEN attempts[j] - 1 ELSE attempts[j]]
  /\ mode' = [mode EXCEPT ![w] = "released"]
  /\ UNCHANGED <<execVars, loop, selected, inFlight, stops>>

\* The drain deadline passes: releaseInFlightLeasesOnShutdown.  The
\* executions keep running until the process exits.
ReleaseInFlightLeases(w) ==
  /\ mode[w] = "draining" /\ inFlight[w] # {}
  /\ LET held == {j \in inFlight[w] : owner[j] = w /\ status[j] \in RunningStatus}
     IN /\ Requeued(held)
        /\ attempts' = [j \in Jobs |-> IF j \in held /\ attempts[j] > 0
                                       THEN attempts[j] - 1 ELSE attempts[j]]
  /\ mode' = [mode EXCEPT ![w] = "released"]
  /\ UNCHANGED <<execVars, loop, selected, inFlight, stops>>

\* markWorkerStopped and process.exit.
WorkerExits(w) ==
  /\ mode[w] = "released" \/ (mode[w] = "draining" /\ inFlight[w] = {})
  /\ Gone(w)
  /\ UNCHANGED <<leaseVars, stops>>

WorkerRestarts(w) ==
  /\ "restart" \in Events
  /\ mode[w] = "down"
  /\ mode' = [mode EXCEPT ![w] = "running"]
  /\ UNCHANGED <<leaseVars, execVars, loop, selected, inFlight, stops>>

QueueNext ==
  \/ \E w \in Workers :
       \/ SelectExpiredLeases(w)
       \/ RequeueExpiredLeases(w)
       \/ ClaimQueuedJobs(w)
       \/ ClaimIsLost(w)
       \/ LoopFails(w)
       \/ WorkerCrashes(w)
       \/ ShutdownWorker(w)
       \/ ReleaseInFlightLeases(w)
       \/ WorkerExits(w)
       \/ WorkerRestarts(w)
  \/ \E w \in Workers, j \in Jobs : HeartbeatLeasedJob(w, j)
  \/ \E j \in Jobs : LeaseLapses(j)
  \/ \E s \in Slots : FinishExecution(s)
=============================================================================
