--------------------------- MODULE PublishJobsProofs ---------------------------
(***************************************************************************)
(* PublishJobs: the rows, mappings and executions of publish jobs, for any *)
(* number of jobs, workers and scripts, on every connector.                *)
(***************************************************************************)
EXTENDS PublishJobs, FiniteSetTheorems, TLAPS

-----------------------------------------------------------------------------
(* The steps, by who takes them *)

Kinds == {"original", "derivative"}

TaskAction(p) ==
  \/ Respond(p) \/ RequestCrashes(p) \/ ReconcileBulk(p) \/ CreateBulk(p) \/ CancelBulk(p)
  \/ \E j \in Jobs : RetryJob(p, j)
  \/ \E j \in Jobs, kind \in Kinds : CreateJob(p, j, kind)

SweepAction(j) == RecoverExpired(j) \/ MarkStale(j)
ExecAction(s) == Execute(s) \/ StatementFails(s) \/ ExecutionLost(s)

LEMMA NextCases ==
  ASSUME [Next]_vars
  PROVE  \/ \E p \in Tasks : TaskAction(p)
         \/ \E s \in Slots, j \in Jobs : Claim(s, j)
         \/ \E j \in Jobs : SweepAction(j)
         \/ \E s \in Slots : ExecAction(s)
         \/ \E w \in Workers : WorkerCrashes(w)
         \/ ImageChanges \/ ConnectionToggled
         \/ UNCHANGED vars
  BY DEF Next, TaskAction, SweepAction, ExecAction, Kinds

-----------------------------------------------------------------------------
(* Types *)

Counters == DOMAIN Zero
CountRange == [Counters -> 0 .. Cardinality(Children)]
JobRow == [status : JobStatus, owner : Workers \cup {None}, attempts : 0 .. MaxAttempts,
           remote : Nat, source : Sources \cup {NoSource}]
Execution == [job : Jobs \cup {None}, step : Steps, attempts : 0 .. MaxAttempts, remote : Nat,
              soft : BOOLEAN, err : {"none", "retry", "final"}, found : BOOLEAN]
TaskSteps == {"idle", "create", "recount", "rollup", "sweep", "retry"}
Task == [step : TaskSteps, job : Jobs \cup {None}, todo : SUBSET Children, counts : CountRange]

\* An execution has a job that was created.
ExecsHaveJobs ==
  \A s \in Slots : exec[s].step # "idle" => exec[s].job \in Jobs /\ Job(s).status # "none"

TypeInv == TypeOK /\ req \in [Tasks -> Task] /\ ExecsHaveJobs

LEMMA CountsFit ==
  /\ Cardinality(Children) \in Nat
  /\ \A S \in SUBSET Children : Cardinality(S) \in 0 .. Cardinality(Children)
  <1>1. IsFiniteSet(Children)
    BY FS_Subset, PublishAssumption DEF PublishAssumption
  <1>2. Cardinality(Children) \in Nat
    BY <1>1, FS_CardinalityType
  <1>3. ASSUME NEW S \in SUBSET Children PROVE Cardinality(S) \in 0 .. Cardinality(Children)
    BY <1>1, <1>2, <1>3, FS_Subset, FS_CardinalityType
  <1> QED BY <1>2, <1>3

LEMMA CountersAre ==
  /\ Counters = {"pending", "running", "completed", "failed", "cancelled"}
  /\ Zero \in CountRange
  BY CountsFit DEF Counters, Zero, CountRange

LEMMA RecountFits == Recounted \in CountRange
  <1>1. \A st : Count(st) \in 0 .. Cardinality(Children)
    BY CountsFit DEF Count
  <1> QED BY <1>1, CountersAre DEF Recounted, CountRange

LEMMA NoExecFits == NoExec \in Execution
  BY PublishAssumption DEF PublishAssumption, NoExec, Execution, Steps

LEMMA NoTaskFits == NoTask \in Task
  BY CountersAre DEF NoTask, Task, TaskSteps

LEMMA TypeInit == Init => TypeInv
  <1> SUFFICES ASSUME Init PROVE TypeInv
    OBVIOUS
  <1>1. platform \in Platforms /\ connection \in {"active", "disabled"}
    BY DEF Init
  <1>2. image \in [rev : Revisions, approved : Revisions, derived : Revisions, deleted : BOOLEAN]
    BY DEF Init, Revisions
  <1>3. job \in [Jobs -> JobRow]
    BY PublishAssumption DEF PublishAssumption, Init, JobRow, JobStatus
  <1>4. bulk \in [status : BulkStatus, counts : CountRange]
    BY CountersAre DEF Init, BulkStatus
  <1>5. mapping \in [Sources -> [job : Jobs \cup {None}, remote : Nat]] /\ made \in [Jobs -> Nat]
    BY DEF Init
  <1>6. exec \in [Slots -> Execution] /\ req \in [Tasks -> Task]
    BY NoExecFits, NoTaskFits DEF Init
  <1>7. overslept \subseteq Jobs /\ ops \in 0 .. MaxOps /\ faults \in 0 .. MaxFaults
    BY PublishAssumption DEF PublishAssumption, Init
  <1>8. ExecsHaveJobs
    BY DEF Init, ExecsHaveJobs, NoExec
  <1> QED BY <1>1, <1>2, <1>3, <1>4, <1>5, <1>6, <1>7, <1>8
          DEF TypeInv, TypeOK, JobRow, Execution, CountRange, Counters

LEMMA Rows ==
  ASSUME TypeInv
  PROVE  /\ job \in [Jobs -> JobRow] /\ exec \in [Slots -> Execution] /\ req \in [Tasks -> Task]
         /\ bulk \in [status : BulkStatus, counts : CountRange]
         /\ mapping \in [Sources -> [job : Jobs \cup {None}, remote : Nat]] /\ made \in [Jobs -> Nat]
  BY DEF TypeInv, TypeOK, JobRow, Execution, CountRange, Counters

\* What a step that writes the row of one job may do to it.
Writes(j) ==
  /\ job' \in [Jobs -> JobRow]
  /\ \A k \in Jobs \ {j} : job'[k] = job[k]
  /\ job'[j].source = job[j].source

LEMMA SetWrites ==
  ASSUME TypeInv, NEW j \in Jobs, NEW st \in JobStatus, SetStatus(j, st)
  PROVE  Writes(j) /\ job'[j] = [job[j] EXCEPT !.status = st]
  <1>1. job' = [job EXCEPT ![j] = [job[j] EXCEPT !.status = st]]
    BY Rows DEF SetStatus
  <1>2. [job[j] EXCEPT !.status = st] \in JobRow
    BY Rows DEF JobRow
  <1> QED BY <1>1, <1>2, Rows DEF Writes, JobRow

LEMMA ReleaseWrites ==
  ASSUME TypeInv, NEW j \in Jobs, NEW st \in JobStatus, Release(j, st)
  PROVE  Writes(j) /\ job'[j] = [job[j] EXCEPT !.status = st, !.owner = None]
  <1>1. job' = [job EXCEPT ![j] = [job[j] EXCEPT !.status = st, !.owner = None]]
    BY Rows DEF Release
  <1>2. [job[j] EXCEPT !.status = st, !.owner = None] \in JobRow
    BY Rows DEF JobRow
  <1> QED BY <1>1, <1>2, Rows DEF Writes, JobRow

\* What a step of one execution may do: the job it has is its own until it ends.
ExecMoves(s) ==
  /\ exec' \in [Slots -> Execution]
  /\ \A t \in Slots \ {s} : exec'[t] = exec[t]
  /\ exec'[s] = NoExec \/ exec'[s].job = exec[s].job

LEMMA StepMoves ==
  ASSUME TypeInv, NEW s \in Slots,
         \/ End(s)
         \/ \E e \in Execution : e.job = exec[s].job /\ exec' = [exec EXCEPT ![s] = e]
  PROVE  ExecMoves(s)
  BY Rows, NoExecFits DEF End, ExecMoves

LEMMA GoMoves ==
  ASSUME TypeInv, NEW s \in Slots, NEW step \in Steps, Go(s, step)
  PROVE  ExecMoves(s) /\ exec'[s] = [exec[s] EXCEPT !.step = step]
  <1>1. [exec[s] EXCEPT !.step = step] \in Execution /\ exec' = [exec EXCEPT ![s] = [exec[s] EXCEPT !.step = step]]
    BY Rows DEF Go, Execution
  <1> QED BY <1>1, Rows DEF ExecMoves, Execution

LEMMA FailMoves ==
  ASSUME TypeInv, NEW s \in Slots, NEW err \in {"retry", "final"}, Fails(s, err)
  PROVE  ExecMoves(s) /\ exec'[s] = [exec[s] EXCEPT !.step = "fail", !.err = err]
  <1>1. /\ [exec[s] EXCEPT !.step = "fail", !.err = err] \in Execution
        /\ exec' = [exec EXCEPT ![s] = [exec[s] EXCEPT !.step = "fail", !.err = err]]
    BY Rows DEF Fails, Execution, Steps
  <1>2. /\ exec'[s] = [exec[s] EXCEPT !.step = "fail", !.err = err]
        /\ \A t \in Slots \ {s} : exec'[t] = exec[t]
    BY <1>1, Rows
  <1>3. exec'[s].job = exec[s].job /\ exec'[s].remote = exec[s].remote
    BY <1>2, Rows DEF Execution
  <1> QED BY <1>1, <1>2, <1>3, Rows, SMTT(30) DEF ExecMoves, Execution

LEMMA ExecutionMoves ==
  ASSUME TypeInv, NEW s \in Slots, ExecAction(s)
  PROVE  ExecMoves(s) /\ exec[s].step # "idle" /\ exec[s].job \in Jobs
  <1>1. exec[s].step # "idle"
    BY DEF ExecAction, Execute, Begin, Enter, CheckFreshness, SourceGone, UploadAsset, SendBytes,
           InspectAsset,
       RecordAsset, Call, FindMapping, WriteMapping, Finish, HandleFailure, StatementFails,
       ExecutionLost, At, Statements
  <1>2. exec[s].job \in Jobs
    BY <1>1 DEF TypeInv, ExecsHaveJobs
  <1>3. exec[s] \in Execution /\ job[exec[s].job] \in JobRow
    BY <1>2, Rows
  <1> SUFFICES ExecMoves(s)
    BY <1>1, <1>2
  <1>s. ASSUME NEW e \in Execution, e.job = exec[s].job, exec' = [exec EXCEPT ![s] = e]
        PROVE  ExecMoves(s)
    BY <1>s, StepMoves
  <1>e. End(s) => ExecMoves(s)
    BY StepMoves
  <1>4. CASE Begin(s)
    <2>1. [exec[s] EXCEPT !.step = "validating", !.attempts = Job(s).attempts, !.remote = Job(s).remote]
            \in Execution
      BY <1>3 DEF Execution, JobRow, Steps, Job
    <2>2. \/ End(s)
          \/ exec' = [exec EXCEPT ![s] = [exec[s] EXCEPT !.step = "validating", !.attempts = Job(s).attempts,
                                                        !.remote = Job(s).remote]]
      BY <1>4, Rows DEF Begin
    <2>3. [exec[s] EXCEPT !.step = "validating", !.attempts = Job(s).attempts, !.remote = Job(s).remote].job
            = exec[s].job
      BY <1>3 DEF Execution
    <2> QED BY <1>s, <1>e, <2>1, <2>2, <2>3
  <1>5. CASE CheckFreshness(s)
    <2>1. Refusal(s) \in {"none", "retry", "final"}
      BY DEF Refusal
    <2>2. ASSUME NEW step \in {"uploading", "updating"}, Go(s, step) PROVE ExecMoves(s)
      BY <2>2, GoMoves DEF Steps
    <2>3. ASSUME Refusal(s) # "none", Fails(s, Refusal(s)) PROVE ExecMoves(s)
      BY <2>1, <2>3, FailMoves
    <2> QED BY <1>5, <2>2, <2>3 DEF CheckFreshness
  <1>6. CASE UploadAsset(s)
    <2>1. ASSUME Made(exec[s].job),
                 exec' = [exec EXCEPT ![s].remote = made'[exec[s].job],
                                     ![s].step = IF platform = "webflow" THEN "send" ELSE "record"]
          PROVE  ExecMoves(s)
      <3>1. made'[exec[s].job] \in Nat
        BY <1>2, <2>1, Rows DEF Made
      <3>2. [exec[s] EXCEPT !.remote = made'[exec[s].job],
                            !.step = IF platform = "webflow" THEN "send" ELSE "record"] \in Execution
        BY <1>3, <3>1 DEF Execution, Steps
      <3>3. exec' = [exec EXCEPT ![s] = [exec[s] EXCEPT !.remote = made'[exec[s].job],
                                                       !.step = IF platform = "webflow" THEN "send" ELSE "record"]]
        BY <2>1, Rows
      <3>4. [exec[s] EXCEPT !.remote = made'[exec[s].job],
                            !.step = IF platform = "webflow" THEN "send" ELSE "record"].job = exec[s].job
        BY <1>3 DEF Execution
      <3> QED BY <1>s, <3>2, <3>3, <3>4
    <2>2. ASSUME NEW err \in {"retry", "final"}, Fails(s, err) PROVE ExecMoves(s)
      BY <2>2, FailMoves
    <2> QED BY <1>6, <2>1, <2>2 DEF UploadAsset
  <1>7. ASSUME NEW step, NEW next \in Steps, Call(s, step, next) PROVE ExecMoves(s)
    <2>1. [exec[s] EXCEPT !.step = next, !.soft = TRUE] \in Execution
      BY <1>3 DEF Execution
    <2>2. \/ Go(s, next)
          \/ exec' = [exec EXCEPT ![s] = [exec[s] EXCEPT !.step = next, !.soft = TRUE]]
      BY <1>7, Rows DEF Call
    <2>3. [exec[s] EXCEPT !.step = next, !.soft = TRUE].job = exec[s].job
      BY <1>3 DEF Execution
    <2> QED BY <1>s, <2>1, <2>2, <2>3, GoMoves
  <1>8. CASE FindMapping(s)
    <2>1. [exec[s] EXCEPT !.step = "map", !.found = mapping[Job(s).source].job # None] \in Execution
      BY <1>3 DEF Execution, Steps
    <2>2. exec' = [exec EXCEPT ![s] = [exec[s] EXCEPT !.step = "map",
                                                     !.found = mapping[Job(s).source].job # None]]
      BY <1>8, Rows DEF FindMapping
    <2>3. [exec[s] EXCEPT !.step = "map", !.found = mapping[Job(s).source].job # None].job = exec[s].job
      BY <1>3 DEF Execution
    <2> QED BY <1>s, <2>1, <2>2, <2>3
  <1>9. CASE Finish(s)
    <2>1. [exec[s] EXCEPT !.step = "late", !.err = "retry"] \in Execution
      BY <1>3 DEF Execution, Steps
    <2>2. End(s) \/ exec' = [exec EXCEPT ![s] = [exec[s] EXCEPT !.step = "late", !.err = "retry"]]
      BY <1>9, Rows DEF Finish
    <2>3. [exec[s] EXCEPT !.step = "late", !.err = "retry"].job = exec[s].job
      BY <1>3 DEF Execution
    <2> QED BY <1>s, <1>e, <2>1, <2>2, <2>3
  <1>10. ASSUME NEW step, NEW st, NEW next \in Steps, Enter(s, step, st, next) PROVE ExecMoves(s)
    BY <1>10, GoMoves DEF Enter
  <1>11. CASE SourceGone(s) \/ SendBytes(s) \/ InspectAsset(s) \/ RecordAsset(s) \/ WriteMapping(s)
               \/ HandleFailure(s) \/ StatementFails(s) \/ ExecutionLost(s)
    <2>1. ASSUME NEW step \in {"inspect", "record", "updating", "finish"}, Go(s, step) PROVE ExecMoves(s)
      BY <2>1, GoMoves DEF Steps
    <2>2. Fails(s, "retry") => ExecMoves(s)
      BY FailMoves
    <2> QED BY <1>11, <1>e, <2>1, <2>2 DEF SourceGone, SendBytes, InspectAsset, RecordAsset, WriteMapping,
       HandleFailure, StatementFails, ExecutionLost
  <1> QED BY <1>4, <1>5, <1>6, <1>7, <1>8, <1>9, <1>10, <1>11 DEF ExecAction, Execute, Steps

LEMMA ExecutionWrites ==
  ASSUME TypeInv, NEW s \in Slots, ExecAction(s)
  PROVE  Writes(exec[s].job) /\ job'[exec[s].job].status # "none"
  <1> DEFINE j == exec[s].job
  <1>1. j \in Jobs /\ job[j].status # "none" /\ job[j] \in JobRow /\ exec[s] \in Execution
    BY ExecutionMoves, Rows DEF TypeInv, ExecsHaveJobs, Job
  <1>2. job' = job => Writes(j) /\ job'[j].status # "none"
    BY <1>1, Rows DEF Writes
  <1>3. ASSUME NEW st \in JobStatus \ {"none"}, SetStatus(j, st) \/ Release(j, st)
        PROVE  Writes(j) /\ job'[j].status # "none"
    <2>0. st \in JobStatus /\ st # "none" /\ j \in Jobs
      BY <1>1, <1>3
    <2>1. CASE SetStatus(j, st)
      <3>1. Writes(j) /\ job'[j] = [job[j] EXCEPT !.status = st]
        BY <2>0, <2>1, SetWrites
      <3> QED BY <1>1, <2>0, <3>1 DEF JobRow
    <2>2. CASE Release(j, st)
      <3>1. Writes(j) /\ job'[j] = [job[j] EXCEPT !.status = st, !.owner = None]
        BY <2>0, <2>2, ReleaseWrites
      <3> QED BY <1>1, <2>0, <3>1 DEF JobRow
    <2> QED BY <1>3, <2>1, <2>2
  <1>4. CASE RecordAsset(s)
    <2>1. [job[j] EXCEPT !.remote = exec[s].remote] \in JobRow
      BY <1>1 DEF JobRow, Execution
    <2> QED BY <1>1, <1>4, <2>1, Rows DEF RecordAsset, Writes, JobRow
  <1>5. ASSUME NEW step, NEW st \in TransferStatus, NEW next, Enter(s, step, st, next)
        PROVE  Writes(j) /\ job'[j].status # "none"
    BY <1>3, <1>5 DEF Enter, TransferStatus, JobStatus
  <1>6. CASE SendBytes(s) \/ InspectAsset(s) \/ Finish(s) \/ HandleFailure(s)
    BY <1>3, <1>6 DEF SendBytes, InspectAsset, Finish, HandleFailure, TransferStatus, JobStatus, Terminal,
       RetryableStatus
  <1> QED BY <1>2, <1>4, <1>5, <1>6 DEF ExecAction, Execute, Begin, CheckFreshness, SourceGone, UploadAsset,
     Call, FindMapping, WriteMapping, StatementFails, ExecutionLost, TransferStatus

\* A job that was created stays so.
Lasts == \A j \in Jobs : job[j].status # "none" => job'[j].status # "none"

LEMMA InsertedRow ==
  ASSUME TypeInv, NEW j \in Jobs, NEW kind \in Kinds, job' = Inserted(j, kind)
  PROVE  /\ job' \in [Jobs -> JobRow] /\ Lasts
         /\ \A k \in Jobs \ {j} : job'[k] = job[k]
         /\ job'[j] = [job[j] EXCEPT !.status = "queued", !.source = <<kind, image.rev>>]
         /\ <<kind, image.rev>> \in Sources
  <1>1. <<kind, image.rev>> \in Sources
    BY DEF TypeInv, TypeOK, Sources, Kinds
  <1>2. [job[j] EXCEPT !.status = "queued", !.source = <<kind, image.rev>>] \in JobRow
    BY <1>1, Rows DEF JobRow, JobStatus
  <1>3. job' = [job EXCEPT ![j] = [job[j] EXCEPT !.status = "queued", !.source = <<kind, image.rev>>]]
    BY Rows DEF Inserted
  <1> QED BY <1>1, <1>2, <1>3, Rows DEF Lasts, JobRow

LEMMA BoundsFit ==
  /\ MaxAttempts \in Nat /\ MaxOps \in Nat /\ MaxFaults \in Nat
  /\ 0 \in 0 .. MaxAttempts
  <1>1. MaxAttempts \in Nat /\ MaxOps \in Nat /\ MaxFaults \in Nat
    BY PublishAssumption DEF PublishAssumption
  <1> QED BY <1>1

LEMMA RetriedRow ==
  ASSUME TypeInv, NEW p \in Tasks, WriteRetry(p)
  PROVE  /\ job' \in [Jobs -> JobRow] /\ Lasts
         /\ \A k \in Jobs \ {req[p].job} : job'[k] = job[k]
         /\ req[p].job \in Jobs =>
              job'[req[p].job] = [job[req[p].job] EXCEPT !.status = "queued", !.owner = None, !.attempts = 0]
  <1> DEFINE j == req[p].job
  <1>1. CASE j \in Jobs
    <2>1. [job[j] EXCEPT !.status = "queued", !.owner = None, !.attempts = 0] \in JobRow
      BY ZenonT(60), <1>1, Rows, BoundsFit DEF JobRow, JobStatus
    <2>2. job' = [job EXCEPT ![j] = [job[j] EXCEPT !.status = "queued", !.owner = None, !.attempts = 0]]
      BY <1>1, Rows DEF WriteRetry
    <2> QED BY <1>1, <2>1, <2>2, Rows DEF Lasts, JobRow
  <1>2. CASE j \notin Jobs
    <2>1. job' = job
      BY <1>2, Rows DEF WriteRetry
    <2> QED BY <1>2, <2>1, Rows DEF Lasts
  <1> QED BY <1>1, <1>2

LEMMA CancelledRow ==
  ASSUME TypeInv, NEW p \in Tasks, CancelQueued(p)
  PROVE  /\ job' \in [Jobs -> JobRow] /\ Lasts
         /\ \A j \in Jobs : \/ job'[j] = job[j]
                            \/ job[j].status = "queued" /\ job'[j] = [job[j] EXCEPT !.status = "cancelled"]
  <1>1. ASSUME NEW j \in Jobs PROVE [job[j] EXCEPT !.status = "cancelled"] \in JobRow
    BY <1>1, Rows DEF JobRow, JobStatus, Terminal
  <1>2. \A j \in Jobs : job'[j] = IF j \in Children /\ job[j].status = "queued"
                                  THEN [job[j] EXCEPT !.status = "cancelled"] ELSE job[j]
    BY DEF CancelQueued
  <1>3. job' \in [Jobs -> JobRow]
    BY <1>1, Rows DEF CancelQueued
  <1> QED BY <1>1, <1>2, <1>3, Rows DEF Lasts, JobRow

LEMMA TaskRows ==
  ASSUME TypeInv, NEW p \in Tasks, TaskAction(p)
  PROVE  job' \in [Jobs -> JobRow] /\ Lasts
  <1>1. job' = job => job' \in [Jobs -> JobRow] /\ Lasts
    BY Rows DEF Lasts
  <1>2. ASSUME NEW j \in Jobs, NEW kind \in Kinds, CreateChild(p, j, kind) \/ CreateJob(p, j, kind)
        PROVE  job' \in [Jobs -> JobRow] /\ Lasts
    BY <1>1, <1>2, InsertedRow DEF CreateChild, CreateJob
  <1> QED BY <1>1, <1>2, RetriedRow, CancelledRow
          DEF Kinds, TaskAction, Respond, ChildrenCreated, ReadChildren, WriteBulk,
              RequestCrashes, ReconcileBulk, CreateBulk, CancelBulk, RetryJob

LEMMA TaskTypes ==
  ASSUME TypeInv, NEW p \in Tasks, TaskAction(p)
  PROVE  /\ req' \in [Tasks -> Task]
         /\ \A q \in Tasks \ {p} : req'[q] = req[q]
         /\ bulk' \in [status : BulkStatus, counts : CountRange]
         /\ ops' \in 0 .. MaxOps /\ faults' \in 0 .. MaxFaults
         /\ UNCHANGED <<platform, overslept, world, site, exec>>
  <1>0. /\ ops \in 0 .. MaxOps /\ faults \in 0 .. MaxFaults /\ MaxOps \in Nat /\ MaxFaults \in Nat
        /\ req[p] \in Task
    BY Rows, PublishAssumption DEF PublishAssumption, TypeInv, TypeOK
  <1>1. ops' \in 0 .. MaxOps
    <2>1. ASSUME NEW t, Ask(p, t) PROVE ops' \in 0 .. MaxOps
      BY <1>0, <2>1 DEF Ask
    <2>2. CASE CreateBulk(p) \/ CancelBulk(p) \/ (\E j \in Jobs : RetryJob(p, j))
               \/ (\E j \in Jobs, kind \in Kinds : CreateJob(p, j, kind))
      BY <2>1, <2>2 DEF CreateBulk, CancelBulk, RetryJob, CreateJob
    <2>3. CASE Respond(p) \/ RequestCrashes(p) \/ ReconcileBulk(p)
      BY <1>0, <2>3 DEF Respond, CreateChild, ChildrenCreated, ReadChildren, WriteBulk, CancelQueued,
                        WriteRetry, RequestCrashes, ReconcileBulk
    <2> QED BY <2>2, <2>3 DEF TaskAction
  <1>2. faults' \in 0 .. MaxFaults
    <2>1. RequestCrashes(p) => faults' \in 0 .. MaxFaults
      BY <1>0 DEF RequestCrashes, Fault
    <2>2. ~RequestCrashes(p) => faults' = faults
      BY DEF TaskAction, Respond, CreateChild, ChildrenCreated, ReadChildren, WriteBulk, CancelQueued,
             WriteRetry, ReconcileBulk, CreateBulk, CancelBulk, RetryJob, CreateJob
    <2> QED BY <1>0, <2>1, <2>2
  <1>3. UNCHANGED <<platform, overslept, world, site, exec>>
    BY DEF TaskAction, Respond, CreateChild, ChildrenCreated, ReadChildren, WriteBulk, CancelQueued,
           WriteRetry,
       RequestCrashes, ReconcileBulk, CreateBulk, CancelBulk, RetryJob, CreateJob
  <1>4. bulk' \in [status : BulkStatus, counts : CountRange]
    <2>1. CASE CreateBulk(p)
      <3>1. [Zero EXCEPT !.pending = Cardinality(Children)] \in CountRange
        BY CountersAre, CountsFit DEF CountRange
      <3> QED BY <2>1, <3>1 DEF CreateBulk, BulkStatus
    <2>2. CASE WriteBulk(p)
      <3>1. \A c : Rollup(c) \in BulkStatus
        BY DEF Rollup, BulkStatus, BulkFinal
      <3> QED BY <1>0, <2>2, <3>1 DEF WriteBulk, Task
    <2>3. CASE ~CreateBulk(p) /\ ~WriteBulk(p)
      BY <2>3, Rows DEF TaskAction, Respond, CreateChild, ChildrenCreated, ReadChildren, CancelQueued,
                        WriteRetry,
       RequestCrashes, ReconcileBulk, CancelBulk, RetryJob, CreateJob
    <2> QED BY <2>1, <2>2, <2>3
  <1>5. req' \in [Tasks -> Task] /\ \A q \in Tasks \ {p} : req'[q] = req[q]
    <2> DEFINE Moved == req' \in [Tasks -> Task] /\ \A q \in Tasks \ {p} : req'[q] = req[q]
    <2>1. ASSUME NEW t \in Task, req' = [req EXCEPT ![p] = t] PROVE Moved
      BY <2>1, Rows
    <2>2. ASSUME NEW step \in TaskSteps, Move(p, step) PROVE Moved
      BY <1>0, <2>2, Rows DEF Move, Task
    <2>3. Done(p) => Moved
      BY <2>1, NoTaskFits DEF Done
    <2>4. ASSUME NEW t \in Task, Ask(p, t) PROVE Moved
      BY <2>1, <2>4 DEF Ask
    <2>5. ASSUME NEW j \in Jobs, NEW kind \in Kinds, CreateChild(p, j, kind) PROVE Moved
      BY <1>0, <2>5, Rows DEF CreateChild, Task
    <2>6. CASE ReadChildren(p)
      BY <1>0, <2>6, RecountFits, Rows DEF ReadChildren, Task, TaskSteps
    <2>7. CASE CreateBulk(p) \/ CancelBulk(p) \/ (\E j \in Jobs : RetryJob(p, j))
               \/ (\E j \in Jobs, kind \in Kinds : CreateJob(p, j, kind))
      <3>1. [NoTask EXCEPT !.step = "create", !.todo = Children] \in Task
        BY NoTaskFits DEF Task, TaskSteps, NoTask
      <3>2. [NoTask EXCEPT !.step = "sweep"] \in Task
        BY NoTaskFits DEF Task, TaskSteps, NoTask
      <3>3. \A j \in Jobs : [NoTask EXCEPT !.step = "retry", !.job = j] \in Task
        BY NoTaskFits DEF Task, TaskSteps, NoTask
      <3> QED BY <2>4, <2>7, <3>1, <3>2, <3>3, NoTaskFits DEF CreateBulk, CancelBulk, RetryJob, CreateJob
    <2>8. CASE ChildrenCreated(p) \/ WriteBulk(p) \/ CancelQueued(p) \/ WriteRetry(p)
               \/ RequestCrashes(p) \/ ReconcileBulk(p)
      BY <2>2, <2>3, <2>8 DEF ChildrenCreated, WriteBulk, CancelQueued, WriteRetry, RequestCrashes,
         ReconcileBulk, TaskSteps
    <2> QED BY <2>5, <2>6, <2>7, <2>8 DEF TaskAction, Respond, Kinds
  <1> QED BY <1>1, <1>2, <1>3, <1>4, <1>5

LEMMA ClaimTypes ==
  ASSUME TypeInv, NEW s \in Slots, NEW j \in Jobs, Claim(s, j)
  PROVE  /\ Writes(j) /\ exec' \in [Slots -> Execution]
         /\ \A t \in Slots \ {s} : exec'[t] = exec[t]
         /\ exec'[s] = [exec[s] EXCEPT !.job = j, !.step = "begin"]
         /\ job'[j] = [job[j] EXCEPT !.status = "leased", !.owner = s[1], !.attempts = @ + 1]
         /\ UNCHANGED <<platform, overslept, world, bulk, site, req, ops, faults>>
  <1>1. s[1] \in Workers
    BY DEF Slots
  <1>2. [job[j] EXCEPT !.status = "leased", !.owner = s[1], !.attempts = @ + 1] \in JobRow
    BY <1>1, Rows, PublishAssumption DEF PublishAssumption, Claim, JobRow, JobStatus
  <1>3. job' = [job EXCEPT ![j] = [job[j] EXCEPT !.status = "leased", !.owner = s[1], !.attempts = @ + 1]]
    BY Rows DEF Claim
  <1>4. Writes(j) /\ job'[j] = [job[j] EXCEPT !.status = "leased", !.owner = s[1], !.attempts = @ + 1]
    BY <1>2, <1>3, Rows DEF Writes, JobRow
  <1>5. [exec[s] EXCEPT !.job = j, !.step = "begin"] \in Execution
    BY ZenonT(60), Rows DEF Execution, Steps
  <1>6. exec' = [exec EXCEPT ![s] = [exec[s] EXCEPT !.job = j, !.step = "begin"]]
    BY Rows DEF Claim
  <1> QED BY <1>4, <1>5, <1>6, Rows DEF Claim

LEMMA SweepWrites ==
  ASSUME TypeInv, NEW j \in Jobs, SweepAction(j)
  PROVE  /\ Writes(j)
         /\ \/ /\ job[j].status = "leased" /\ job'[j] = [job[j] EXCEPT !.status = "queued", !.owner = None]
               /\ RecoverExpired(j)
            \/ job[j].status = "queued" /\ job'[j] = [job[j] EXCEPT !.status = "stale"]
         /\ UNCHANGED <<platform, world, bulk, site, exec, req, ops>>
         /\ overslept' \in {overslept, overslept \cup {j}}
         /\ faults' \in {faults, faults + 1} /\ (faults' # faults => faults < MaxFaults)
  <1>1. CASE RecoverExpired(j)
    BY <1>1, ReleaseWrites DEF RecoverExpired, JobStatus, NoFault, Fault
  <1>2. CASE MarkStale(j)
    BY <1>2, SetWrites DEF MarkStale, JobStatus, Terminal, RetryableStatus
  <1> QED BY <1>1, <1>2 DEF SweepAction

LEMMA ExecutionSite ==
  ASSUME TypeInv, NEW s \in Slots, ExecAction(s)
  PROVE  /\ mapping' \in [Sources -> [job : Jobs \cup {None}, remote : Nat]] /\ made' \in [Jobs -> Nat]
         /\ UNCHANGED <<platform, overslept, world, bulk, req, ops>>
         /\ faults' \in {faults, faults + 1} /\ (faults' # faults => faults < MaxFaults)
  <1>0. exec[s].job \in Jobs /\ exec[s] \in Execution
    BY ExecutionMoves, Rows
  <1>1. mapping' \in [Sources -> [job : Jobs \cup {None}, remote : Nat]]
    <2>1. CASE WriteMapping(s)
      BY <1>0, <2>1, Rows DEF WriteMapping, Execution
    <2>2. CASE ~WriteMapping(s)
      BY <2>2, Rows DEF ExecAction, Execute, Begin, Enter, CheckFreshness, SourceGone, UploadAsset, SendBytes,
         InspectAsset, RecordAsset, Call, FindMapping, Finish, HandleFailure, StatementFails,
         ExecutionLost, site
    <2> QED BY <2>1, <2>2
  <1>2. made' \in [Jobs -> Nat]
    BY <1>0, Rows DEF ExecAction, Execute, Begin, Enter, CheckFreshness, SourceGone, UploadAsset,
                      SendBytes, InspectAsset,
       RecordAsset, Call, FindMapping, WriteMapping, Finish, HandleFailure, StatementFails, ExecutionLost,
       site, Made
  <1>3. UNCHANGED <<platform, overslept, world, bulk, req, ops>>
    BY DEF ExecAction, Execute, Begin, Enter, CheckFreshness, SourceGone, UploadAsset, SendBytes,
           InspectAsset,
       RecordAsset, Call, FindMapping, WriteMapping, Finish, HandleFailure, StatementFails, ExecutionLost
  <1>4. faults' \in {faults, faults + 1} /\ (faults' # faults => faults < MaxFaults)
    BY DEF ExecAction, Execute, Begin, Enter, CheckFreshness, SourceGone, UploadAsset, SendBytes,
           InspectAsset,
       RecordAsset, Call, FindMapping, WriteMapping, Finish, HandleFailure, StatementFails, ExecutionLost,
       Fault, NoFault
  <1> QED BY <1>1, <1>2, <1>3, <1>4

LEMMA CrashTypes ==
  ASSUME TypeInv, NEW w \in Workers, WorkerCrashes(w)
  PROVE  /\ exec' \in [Slots -> Execution]
         /\ \A s \in Slots : exec'[s] = IF s[1] = w THEN NoExec ELSE exec[s]
         /\ UNCHANGED <<platform, overslept, world, job, bulk, site, req, ops>>
         /\ faults' = faults + 1 /\ faults < MaxFaults
  BY Rows, NoExecFits DEF WorkerCrashes, Fault

LEMMA TypeStep ==
  ASSUME TypeInv, [Next]_vars
  PROVE  TypeInv'
  <1> DEFINE RowsTyped == /\ job' \in [Jobs -> JobRow] /\ exec' \in [Slots -> Execution] /\ req' \in [Tasks -> Task]
                          /\ bulk' \in [status : BulkStatus, counts : CountRange]
                          /\ mapping' \in [Sources -> [job : Jobs \cup {None}, remote : Nat]]
                          /\ made' \in [Jobs -> Nat]
             WorldTyped == /\ platform' \in Platforms /\ connection' \in {"active", "disabled"}
                           /\ image' \in [rev : Revisions, approved : Revisions, derived : Revisions,
                                          deleted : BOOLEAN]
                           /\ overslept' \subseteq Jobs
                           /\ ops' \in 0 .. MaxOps /\ faults' \in 0 .. MaxFaults
  <1>0. /\ platform \in Platforms /\ connection \in {"active", "disabled"}
        /\ image \in [rev : Revisions, approved : Revisions, derived : Revisions, deleted : BOOLEAN]
        /\ overslept \subseteq Jobs
        /\ ops \in 0 .. MaxOps /\ faults \in 0 .. MaxFaults /\ MaxOps \in Nat /\ MaxFaults \in Nat
    BY PublishAssumption DEF PublishAssumption, TypeInv, TypeOK
  <1>q. RowsTyped /\ WorldTyped /\ ExecsHaveJobs' => TypeInv'
    BY DEF TypeInv, TypeOK, JobRow, Execution, CountRange, Counters
  <1>l. ASSUME Lasts, \A s \in Slots : exec'[s] \in {exec[s], NoExec} PROVE ExecsHaveJobs'
    BY <1>l DEF TypeInv, ExecsHaveJobs, Lasts, NoExec, Job
  <1>1. ASSUME NEW p \in Tasks, TaskAction(p) PROVE TypeInv'
    BY <1>0, <1>1, <1>l, <1>q, Rows, TaskRows, TaskTypes DEF world, site
  <1>w. ASSUME NEW j \in Jobs, Writes(j), job'[j].status # "none" PROVE job' \in [Jobs -> JobRow] /\ Lasts
    BY <1>w DEF Writes, Lasts
  <1>f. ASSUME faults' \in {faults, faults + 1}, faults' # faults => faults < MaxFaults
        PROVE  faults' \in 0 .. MaxFaults
    BY <1>0, <1>f
  <1>2. ASSUME NEW s \in Slots, NEW j \in Jobs, Claim(s, j) PROVE TypeInv'
    <2>0. /\ Writes(j) /\ exec' \in [Slots -> Execution]
          /\ \A t \in Slots \ {s} : exec'[t] = exec[t]
          /\ exec'[s] = [exec[s] EXCEPT !.job = j, !.step = "begin"]
          /\ job'[j] = [job[j] EXCEPT !.status = "leased", !.owner = s[1], !.attempts = @ + 1]
          /\ UNCHANGED <<platform, overslept, world, bulk, site, req, ops, faults>>
      BY <1>2, ClaimTypes
    <2>r. job[j] \in JobRow /\ exec[s] \in Execution
      BY Rows
    <2>1. job'[j].status = "leased" /\ exec'[s].job = j
      BY <2>0, <2>r DEF JobRow, Execution
    <2>2. Lasts
      BY <1>w, <2>0, <2>1
    <2>3. ASSUME NEW t \in Slots, exec'[t].step # "idle"
          PROVE  exec'[t].job \in Jobs /\ job'[exec'[t].job].status # "none"
      <3>1. CASE t = s
        BY <2>1, <3>1
      <3>2. CASE t # s
        BY <2>0, <2>2, <2>3, <3>2 DEF TypeInv, ExecsHaveJobs, Lasts, Job
      <3> QED BY <3>1, <3>2
    <2>4. ExecsHaveJobs'
      BY <2>3 DEF ExecsHaveJobs, Job
    <2>5. RowsTyped
      BY <2>0, Rows DEF site, Writes
    <2>6. WorldTyped
      BY <1>0, <2>0 DEF world
    <2> QED BY <1>q, <2>4, <2>5, <2>6
  <1>3. ASSUME NEW j \in Jobs, SweepAction(j) PROVE TypeInv'
    <2>0. /\ Writes(j) /\ UNCHANGED <<platform, world, bulk, site, exec, req, ops>>
          /\ overslept' \in {overslept, overslept \cup {j}}
          /\ faults' \in {faults, faults + 1} /\ (faults' # faults => faults < MaxFaults)
      BY <1>3, SweepWrites
    <2>r. job[j] \in JobRow
      BY Rows
    <2>1. job'[j].status # "none"
      <3>1. CASE job[j].status = "leased" /\ job'[j] = [job[j] EXCEPT !.status = "queued", !.owner = None]
        BY <2>r, <3>1 DEF JobRow
      <3>2. CASE job[j].status = "queued" /\ job'[j] = [job[j] EXCEPT !.status = "stale"]
        BY <2>r, <3>2 DEF JobRow
      <3> QED BY <1>3, <3>1, <3>2, SweepWrites
    <2>2. Lasts
      BY <1>w, <2>0, <2>1
    <2>3. RowsTyped
      BY <2>0, Rows DEF site, Writes
    <2>4. WorldTyped
      BY <1>0, <1>f, <2>0 DEF world
    <2>5. ExecsHaveJobs'
      BY <1>l, <2>0, <2>2
    <2> QED BY <1>q, <2>3, <2>4, <2>5
  <1>4. ASSUME NEW s \in Slots, ExecAction(s) PROVE TypeInv'
    <2>1. Lasts
      BY <1>4, <1>w, ExecutionMoves, ExecutionWrites
    <2>2. ExecsHaveJobs'
      BY <1>4, <2>1, ExecutionMoves DEF TypeInv, ExecsHaveJobs, Lasts, Job, ExecMoves, NoExec
    <2> QED BY <1>0, <1>4, <1>q, <2>2, ExecutionMoves, ExecutionWrites, ExecutionSite, Rows
            DEF world, Writes, ExecMoves
  <1>5. ASSUME NEW w \in Workers, WorkerCrashes(w) PROVE TypeInv'
    BY <1>0, <1>5, <1>l, <1>q, CrashTypes, Rows DEF world, site, Lasts
  <1>6. CASE ImageChanges \/ ConnectionToggled
    <2>1. WorldTyped
      <3>1. CASE ConnectionToggled
        <4>1. ops' \in 0 .. MaxOps
          BY <1>0, <3>1 DEF ConnectionToggled
        <4>2. /\ connection' \in {"active", "disabled"}
              /\ UNCHANGED <<platform, overslept, image, faults>>
          BY <1>0, <3>1 DEF ConnectionToggled
        <4> QED BY <1>0, <4>1, <4>2
      <3>2. CASE ImageChanges
        <4>1. ops' \in 0 .. MaxOps
          BY <1>0, <3>2 DEF ImageChanges
        <4>2. image' \in [rev : Revisions, approved : Revisions, derived : Revisions, deleted : BOOLEAN]
          <5> DEFINE Image == [rev : Revisions, approved : Revisions, derived : Revisions, deleted : BOOLEAN]
          <5>1. 2 \in Revisions /\ image \in Image /\ image.rev \in Revisions
            BY <1>0 DEF Revisions
          <5>2. /\ [image EXCEPT !.rev = 2] \in Image /\ [image EXCEPT !.derived = image.rev] \in Image
                /\ [image EXCEPT !.approved = image.rev] \in Image /\ [image EXCEPT !.deleted = TRUE] \in Image
            BY <5>1
          <5> QED BY <3>2, <5>2 DEF ImageChanges
        <4>3. UNCHANGED <<platform, overslept, connection, faults>>
          BY <3>2 DEF ImageChanges
        <4> QED BY <1>0, <4>1, <4>2, <4>3
      <3> QED BY <1>6, <3>1, <3>2
    <2>2. UNCHANGED <<job, exec, req, bulk, site>>
      BY <1>6 DEF ImageChanges, ConnectionToggled
    <2> QED BY <1>l, <1>q, <2>1, <2>2, Rows DEF site, Lasts
  <1>7. CASE UNCHANGED vars
    BY <1>0, <1>7, <1>l, <1>q, Rows DEF vars, world, site, Lasts
  <1> QED BY <1>1, <1>2, <1>3, <1>4, <1>5, <1>6, <1>7, NextCases

\* The rows, executions and requests of publishing keep their types on every
\* connector: attempts stay within their bound and the counters within the children.
THEOREM PublishTypesHold == Spec => []TypeOK
  <1>1. TypeInv => TypeOK
    BY DEF TypeInv
  <1> QED BY <1>1, TypeInit, TypeStep, PTL DEF Spec

-----------------------------------------------------------------------------
(* One execution at a time                                                 *)

\* What the results below need.  Two requests could both read a failed job and
\* the second would requeue it under the first one's execution; a lease that
\* expires before its execution begins could be claimed again by another slot of
\* the same worker; and a job that ends partially completed, whose audit entry
\* fails, could be retried and then requeued by the execution that failed.
OneAtATime ==
  /\ \A p, q \in Requests : p = q
  /\ Parallel = 1 \/ "stall" \notin Faults
  /\ MaxFaults <= 1 \/ "remote" \notin Faults \/ "db" \notin Faults

WorkStatus == {"leased"} \cup TransferStatus
Published == {"completed", "partially_completed"}
Recorded == {"updating", "update", "verifying", "verify", "find", "map", "finish"}
Unrecorded == {"send", "inspect", "record"}

\* An execution that writes its job's row without looking: it works, or it has
\* the lease and is about to.
Holds(s) == Working(s) \/ (At(s, "begin") /\ "stall" \notin Faults)

\* A job that no execution has slept on: its row has one writer at a time.
Lone(j) == j \notin overslept

\* What an execution of a lone job relies on: the row is its own while it works,
\* and the asset it carries is the one the row records.
OwnRow(s) ==
  /\ Holds(s) => Job(s).status \in WorkStatus /\ Job(s).owner = s[1]
  /\ At(s, "late") => Job(s).status = "completed"
  /\ exec[s].step \in {"validating", "check"} => exec[s].remote = Job(s).remote
  /\ exec[s].step \in {"uploading", "upload"} \cup Unrecorded => Job(s).remote = 0
  /\ exec[s].step \in Recorded => exec[s].remote = Job(s).remote

\* What any execution relies on: its soft failures were faults, it has an asset
\* once it has made or read one, and then its job records one.
Own(s) ==
  /\ exec[s].soft => "remote" \in Faults /\ faults >= 1
  /\ exec[s].step \in {"validating", "check"} /\ exec[s].remote > 0 => Job(s).remote > 0
  /\ exec[s].step \in Unrecorded \cup Recorded => exec[s].remote > 0
  /\ exec[s].step \in Recorded => Job(s).remote > 0
  /\ At(s, "finish") => mapping[Job(s).source].job # None
  /\ Lone(exec[s].job) => OwnRow(s)

\* Executions that hold a lone job hold different ones, and so do those that end late.
HoldApart ==
  \A s, t \in Slots : s # t /\ Holds(s) /\ Holds(t) /\ Lone(exec[s].job) => exec[s].job # exec[t].job
LateApart ==
  \A s, t \in Slots : s # t /\ At(s, "late") /\ At(t, "late") /\ Lone(exec[s].job) => exec[s].job # exec[t].job

SourcesSet == \A j \in Jobs : job[j].status # "none" => job[j].source \in Sources

\* The children a bulk publish has yet to create are not there, and nobody else creates them.
TodoNew ==
  /\ bulk.status = "none" => \A j \in Children : job[j].status = "none"
  /\ \A p \in Tasks : req[p].todo # {} => bulk.status # "none"
  /\ \A p \in Tasks : \A j \in req[p].todo : job[j].status = "none"
  /\ \A p, q \in Tasks : p # q => req[p].todo \cap req[q].todo = {}

\* A retry's job is still over, if it is lone; only a request retries.
RetriesOver ==
  \A p \in Tasks : Does(p, "retry") =>
    /\ p \in Requests /\ req[p].job \in Jobs /\ job[req[p].job].status # "none"
    /\ Lone(req[p].job) => job[req[p].job].status \in RetryableStatus

\* A mapping names the asset that its job records, if the job is lone.
MapsRight ==
  \A k \in Sources : mapping[k].job # None /\ Lone(mapping[k].job) =>
    mapping[k].remote > 0 /\ mapping[k].remote = job[mapping[k].job].remote

PublishedMapped ==
  \A j \in Jobs : job[j].status \in Published => job[j].remote > 0 /\ mapping[job[j].source].job # None

\* DuplicatesExplained of a lone job: at most one execution has an asset to record.
Kept(j) == IF job[j].remote > 0 THEN 1 ELSE 0
Carried(j) == IF \E s \in Slots : exec[s].job = j /\ exec[s].step \in Unrecorded THEN 1 ELSE 0
MadeCounted == \A j \in Jobs : Lone(j) => made[j] <= faults + Kept(j) + Carried(j)

RowInv == SourcesSet /\ TodoNew /\ RetriesOver
SoleInv == (\A s \in Slots : Own(s)) /\ HoldApart /\ LateApart
AssetInv == MapsRight /\ PublishedMapped /\ MadeCounted
PublishInv == TypeInv /\ RowInv /\ SoleInv /\ AssetInv

LEMMA PublishInit == Init => PublishInv
  <1> SUFFICES ASSUME Init PROVE PublishInv
    OBVIOUS
  <1>1. RowInv
    <2>1. \A p \in Tasks : req[p].step = "idle" /\ req[p].todo = {}
      BY DEF Init, NoTask
    <2>2. \A j \in Jobs : job[j].status = "none"
      BY DEF Init
    <2>3. TodoNew
      BY <2>1, <2>2, PublishAssumption DEF PublishAssumption, TodoNew
    <2> QED BY <2>1, <2>2, <2>3 DEF RowInv, SourcesSet, RetriesOver, Does
  <1>2. SoleInv
    BY DEF Init, SoleInv, Own, OwnRow, Holds, Working, HoldApart, LateApart, At, NoExec, Unrecorded, Recorded
  <1>3. AssetInv
    BY DEF Init, AssetInv, MapsRight, PublishedMapped, MadeCounted, Kept, Carried, Published, NoExec,
           Unrecorded
  <1> QED BY <1>1, <1>2, <1>3, TypeInit DEF PublishInv

-----------------------------------------------------------------------------
(* What the steps leave alone                                              *)

LEMMA CreatedNew ==
  ASSUME TypeInv, TodoNew, NEW p \in Tasks, NEW j \in Jobs, NEW kind \in Kinds,
         CreateChild(p, j, kind) \/ CreateJob(p, j, kind)
  PROVE  /\ job[j].status = "none"
         /\ \A k \in Jobs \ {j} : job'[k] = job[k]
         /\ \/ job'[j] = job[j]
            \/ job'[j].status = "queued" /\ job'[j].source \in Sources /\ job'[j].remote = job[j].remote
  <1>1. job[j].status = "none"
    BY DEF TodoNew, CreateChild, CreateJob
  <1>2. CASE job' = Inserted(j, kind)
    <2>1. /\ \A k \in Jobs \ {j} : job'[k] = job[k]
          /\ job'[j] = [job[j] EXCEPT !.status = "queued", !.source = <<kind, image.rev>>]
          /\ <<kind, image.rev>> \in Sources
      BY <1>2, InsertedRow
    <2>2. job[j] \in JobRow
      BY Rows
    <2>3. job'[j].status = "queued" /\ job'[j].source = <<kind, image.rev>> /\ job'[j].remote = job[j].remote
      BY <2>1, <2>2 DEF JobRow
    <2> QED BY <1>1, <2>1, <2>3
  <1>3. CASE job' = job
    BY <1>1, <1>3
  <1> QED BY <1>2, <1>3 DEF CreateChild, CreateJob

\* What a request or the script may do to a row: insert it, retry it when it is
\* over (or has been, if it is not lone), cancel it when it is queued.
TaskRow(j) ==
  \/ job'[j] = job[j]
  \/ /\ job[j].status = "none" /\ job'[j].status = "queued"
     /\ job'[j].source \in Sources /\ job'[j].remote = job[j].remote
  \/ /\ job[j].status \in RetryableStatus \cup {"queued"} \/ (~Lone(j) /\ job[j].status # "none")
     /\ job'[j].status \in {"queued", "cancelled"}
     /\ job'[j].source = job[j].source /\ job'[j].remote = job[j].remote

LEMMA TaskKeeps ==
  ASSUME TypeInv, RowInv, NEW p \in Tasks, TaskAction(p)
  PROVE  \A j \in Jobs : TaskRow(j)
  <1>1. job' = job => \A j \in Jobs : TaskRow(j)
    BY DEF TaskRow
  <1>2. ASSUME NEW i \in Jobs, NEW kind \in Kinds, CreateChild(p, i, kind) \/ CreateJob(p, i, kind)
        PROVE  \A j \in Jobs : TaskRow(j)
    BY <1>2, CreatedNew DEF RowInv, TaskRow
  <1>3. CASE WriteRetry(p)
    <2>1. /\ req[p].job \in Jobs /\ job[req[p].job].status # "none"
          /\ Lone(req[p].job) => job[req[p].job].status \in RetryableStatus
      BY <1>3 DEF RowInv, RetriesOver, WriteRetry
    <2>2. job'[req[p].job] = [job[req[p].job] EXCEPT !.status = "queued", !.owner = None, !.attempts = 0]
      BY <1>3, <2>1, RetriedRow
    <2>3. TaskRow(req[p].job)
      BY <2>1, <2>2, Rows DEF TaskRow, JobRow
    <2>4. \A j \in Jobs \ {req[p].job} : TaskRow(j)
      BY <1>3, RetriedRow DEF TaskRow
    <2> QED BY <2>3, <2>4
  <1>4. CASE CancelQueued(p)
    <2>1. ASSUME NEW j \in Jobs, job[j].status = "queued", job'[j] = [job[j] EXCEPT !.status = "cancelled"]
          PROVE  TaskRow(j)
      BY <2>1, Rows DEF TaskRow, JobRow
    <2> QED BY <1>4, <2>1, CancelledRow DEF TaskRow
  <1> QED BY <1>1, <1>2, <1>3, <1>4
          DEF Kinds, TaskAction, Respond, ChildrenCreated, ReadChildren, WriteBulk,
              RequestCrashes, ReconcileBulk, CreateBulk, CancelBulk, RetryJob

\* Of the jobs that are over, only a retry touches one.
LEMMA TaskKeepsOver ==
  ASSUME TypeInv, RowInv, NEW p \in Tasks, TaskAction(p), ~WriteRetry(p),
         NEW j \in Jobs, job[j].status \in RetryableStatus
  PROVE  job'[j] = job[j]
  <1>0. job[j].status # "none" /\ job[j].status # "queued"
    BY DEF RetryableStatus
  <1>1. ASSUME NEW i \in Jobs, NEW kind \in Kinds, CreateChild(p, i, kind) \/ CreateJob(p, i, kind)
        PROVE  job'[j] = job[j]
    BY <1>0, <1>1, CreatedNew DEF RowInv
  <1>2. CancelQueued(p) => job'[j] = job[j]
    BY <1>0, CancelledRow
  <1>3. job' = job => job'[j] = job[j]
    OBVIOUS
  <1> QED BY <1>1, <1>2, <1>3
          DEF Kinds, TaskAction, Respond, ChildrenCreated, ReadChildren, WriteBulk,
              RequestCrashes, ReconcileBulk, CreateBulk, CancelBulk, RetryJob

\* A step on a row by anyone else than a request or the script.
WorkRow(j) == job'[j].source = job[j].source /\ (job[j].status = "none" => job'[j].status = "none")

LEMMA WorkKeeps ==
  ASSUME TypeInv,
         \/ \E s \in Slots, j \in Jobs : Claim(s, j)
         \/ \E j \in Jobs : SweepAction(j)
         \/ \E s \in Slots : ExecAction(s)
  PROVE  \A j \in Jobs : WorkRow(j)
  <1>w. ASSUME NEW i \in Jobs, Writes(i), job[i].status # "none" PROVE \A j \in Jobs : WorkRow(j)
    BY <1>w DEF Writes, WorkRow
  <1>1. ASSUME NEW s \in Slots, NEW i \in Jobs, Claim(s, i) PROVE \A j \in Jobs : WorkRow(j)
    <2>1. job[i].status # "none"
      BY <1>1 DEF Claim
    <2> QED BY <1>1, <1>w, <2>1, ClaimTypes
  <1>2. ASSUME NEW i \in Jobs, SweepAction(i) PROVE \A j \in Jobs : WorkRow(j)
    <2>1. job[i].status # "none"
      BY <1>2, SweepWrites
    <2> QED BY <1>2, <1>w, <2>1, SweepWrites
  <1>3. ASSUME NEW s \in Slots, ExecAction(s) PROVE \A j \in Jobs : WorkRow(j)
    <2>1. exec[s].job \in Jobs /\ job[exec[s].job].status # "none"
      BY <1>3, ExecutionMoves DEF TypeInv, ExecsHaveJobs, Job
    <2> QED BY <1>3, <1>w, <2>1, ExecutionWrites
  <1> QED BY <1>1, <1>2, <1>3

LEMMA WorkLasts ==
  ASSUME TypeInv,
         \/ \E s \in Slots, j \in Jobs : Claim(s, j)
         \/ \E j \in Jobs : SweepAction(j)
         \/ \E s \in Slots : ExecAction(s)
  PROVE  Lasts
  <1>w. ASSUME NEW j \in Jobs, Writes(j), job'[j].status # "none" PROVE Lasts
    BY <1>w DEF Writes, Lasts
  <1>1. ASSUME NEW s \in Slots, NEW j \in Jobs, Claim(s, j) PROVE Lasts
    <2>1. job'[j] = [job[j] EXCEPT !.status = "leased", !.owner = s[1], !.attempts = @ + 1] /\ Writes(j)
      BY <1>1, ClaimTypes
    <2>2. job'[j].status = "leased"
      BY <2>1, Rows DEF JobRow
    <2> QED BY <1>w, <2>1, <2>2
  <1>2. ASSUME NEW j \in Jobs, SweepAction(j) PROVE Lasts
    <2>1. /\ Writes(j)
          /\ \/ job'[j] = [job[j] EXCEPT !.status = "queued", !.owner = None]
             \/ job'[j] = [job[j] EXCEPT !.status = "stale"]
      BY <1>2, SweepWrites
    <2>2. job'[j].status \in {"queued", "stale"}
      BY <2>1, Rows DEF JobRow
    <2> QED BY <1>w, <2>1, <2>2
  <1>3. ASSUME NEW s \in Slots, ExecAction(s) PROVE Lasts
    BY <1>3, <1>w, ExecutionMoves, ExecutionWrites
  <1> QED BY <1>1, <1>2, <1>3

\* An execution that writes a row holds it or ends late.
LEMMA ExecutionKeeps ==
  ASSUME TypeInv, NEW s \in Slots, ExecAction(s)
  PROVE  job' = job \/ Working(s) \/ At(s, "late")
  <1>1. CASE At(s, "begin")
    BY <1>1 DEF ExecAction, Execute, Begin, Enter, CheckFreshness, SourceGone, UploadAsset, SendBytes,
                InspectAsset,
       RecordAsset, Call, FindMapping, WriteMapping, Finish, HandleFailure, StatementFails,
       ExecutionLost, At, Statements
  <1> QED BY <1>1, ExecutionMoves DEF Working, At

LEMMA HeldIsBusy ==
  ASSUME TypeInv, SoleInv, NEW s \in Slots, Working(s) \/ At(s, "late")
  PROVE  /\ exec[s].job \in Jobs
         /\ Lone(exec[s].job) => job[exec[s].job].status \in WorkStatus \cup {"completed"}
  BY DEF TypeInv, ExecsHaveJobs, SoleInv, Own, OwnRow, Holds, Working, At, Job

LEMMA WorkKeepsOver ==
  ASSUME TypeInv, SoleInv,
         \/ \E s \in Slots, j \in Jobs : Claim(s, j)
         \/ \E j \in Jobs : SweepAction(j)
         \/ \E s \in Slots : ExecAction(s),
         NEW j \in Jobs, Lone(j), job[j].status \in RetryableStatus
  PROVE  job'[j] = job[j]
  <1>0. job[j].status \notin WorkStatus \cup {"completed", "queued"}
    BY DEF RetryableStatus, WorkStatus, TransferStatus
  <1>1. ASSUME NEW s \in Slots, NEW i \in Jobs, Claim(s, i) PROVE job'[j] = job[j]
    <2>1. job[i].status = "queued"
      BY <1>1 DEF Claim
    <2>2. j # i /\ Writes(i)
      BY <1>0, <1>1, <2>1, ClaimTypes
    <2> QED BY <2>2 DEF Writes
  <1>2. ASSUME NEW i \in Jobs, SweepAction(i) PROVE job'[j] = job[j]
    <2>1. job[i].status \in {"queued", "leased"} /\ Writes(i)
      BY <1>2, SweepWrites
    <2> QED BY <1>0, <2>1 DEF Writes, WorkStatus
  <1>3. ASSUME NEW s \in Slots, ExecAction(s) PROVE job'[j] = job[j]
    <2>1. CASE job' = job
      BY <2>1
    <2>2. CASE Working(s) \/ At(s, "late")
      BY <1>0, <1>3, <2>2, HeldIsBusy, ExecutionWrites DEF Writes
    <2> QED BY <1>3, <2>1, <2>2, ExecutionKeeps
  <1> QED BY <1>1, <1>2, <1>3

-----------------------------------------------------------------------------
(* The rows that requests write                                            *)

LEMMA TaskSources ==
  ASSUME TypeInv, RowInv, NEW p \in Tasks, TaskAction(p)
  PROVE  SourcesSet'
  BY TaskKeeps DEF TaskRow, RowInv, SourcesSet, RetryableStatus

\* How a request's own record moves, where it neither starts a bulk publish nor creates a child.
LEMMA TaskRecord ==
  ASSUME TypeInv, NEW p \in Tasks, TaskAction(p), ~CreateBulk(p)
  PROVE  \/ \E j \in Jobs, kind \in Kinds : CreateChild(p, j, kind)
         \/ /\ req'[p].todo \subseteq req[p].todo
            /\ req'[p].step = "retry" => \E j \in Jobs : RetryJob(p, j)
  <1> DEFINE Goal == /\ req'[p].todo \subseteq req[p].todo
                     /\ req'[p].step = "retry" => \E j \in Jobs : RetryJob(p, j)
  <1>0. req \in [Tasks -> Task] /\ req[p] \in Task
    BY Rows
  <1>1. ASSUME NEW step \in TaskSteps \ {"retry"}, Move(p, step) PROVE Goal
    <2>1. req' = [req EXCEPT ![p] = [req[p] EXCEPT !.step = step]]
      BY <1>0, <1>1 DEF Move
    <2>2. req'[p] = [req[p] EXCEPT !.step = step]
      BY <1>0, <2>1
    <2>3. req'[p].todo = req[p].todo /\ req'[p].step = step
      BY <1>0, <2>2 DEF Task
    <2> QED BY <1>1, <2>3
  <1>2. Done(p) => Goal
    BY <1>0 DEF Done, NoTask
  <1>3. ASSUME NEW t, t.todo = {}, t.step # "retry", Ask(p, t) PROVE Goal
    BY <1>0, <1>3 DEF Ask
  <1>4. ASSUME NEW j \in Jobs, RetryJob(p, j) PROVE Goal
    BY <1>0, <1>4 DEF RetryJob, Ask, NoTask
  <1>5. CASE ReadChildren(p)
    <2>1. req' = [req EXCEPT ![p] = [req[p] EXCEPT !.step = "rollup", !.counts = Recounted]]
      BY <1>0, <1>5 DEF ReadChildren
    <2>2. req'[p] = [req[p] EXCEPT !.step = "rollup", !.counts = Recounted]
      BY <1>0, <2>1
    <2> QED BY <1>0, <2>2 DEF Task
  <1>6. CASE CancelBulk(p)
    BY <1>3, <1>6 DEF CancelBulk, NoTask
  <1>7. ASSUME NEW j \in Jobs, NEW kind \in Kinds, CreateJob(p, j, kind) PROVE Goal
    BY <1>3, <1>7 DEF CreateJob, NoTask
  <1>8. CASE ChildrenCreated(p) \/ WriteBulk(p) \/ CancelQueued(p) \/ WriteRetry(p)
             \/ RequestCrashes(p) \/ ReconcileBulk(p)
    BY <1>1, <1>2, <1>8 DEF ChildrenCreated, WriteBulk, CancelQueued, WriteRetry, RequestCrashes,
       ReconcileBulk, TaskSteps
  <1> QED BY <1>4, <1>5, <1>6, <1>7, <1>8 DEF TaskAction, Respond, Kinds

\* Only a child's creation, under a bulk row, inserts a child.
LEMMA TaskTodo ==
  ASSUME TypeInv, RowInv, NEW p \in Tasks, TaskAction(p)
  PROVE  TodoNew'
  <1> USE DEF RowInv
  <1>1. CASE CreateBulk(p)
    <2>1. \A q \in Tasks : req[q].todo = {}
      BY <1>1 DEF CreateBulk, TodoNew
    <2>2. req' = [req EXCEPT ![p] = [NoTask EXCEPT !.step = "create", !.todo = Children]] /\ job' = job
          /\ bulk'.status = "queued" /\ \A j \in Children : job[j].status = "none"
      BY <1>1 DEF CreateBulk, Ask, TodoNew
    <2>3. req'[p].todo = Children /\ \A q \in Tasks \ {p} : req'[q].todo = {}
      BY <2>1, <2>2, Rows DEF NoTask
    <2> QED BY <2>2, <2>3 DEF TodoNew
  <1>2. ASSUME NEW j \in Jobs, NEW kind \in Kinds, CreateChild(p, j, kind) PROVE TodoNew'
    <2>1. /\ req'[p].todo = req[p].todo \ {j} /\ j \in req[p].todo /\ bulk' = bulk
          /\ \A q \in Tasks \ {p} : req'[q] = req[q]
      BY <1>2, Rows DEF CreateChild, Task
    <2>2. \A k \in Jobs \ {j} : job'[k] = job[k]
      BY <1>2, CreatedNew
    <2>3. req[p].todo # {} /\ bulk.status # "none"
      BY <2>1 DEF TodoNew
    <2>4. \A q \in Tasks : req'[q].todo \subseteq req[q].todo /\ j \notin req'[q].todo /\ req[q].todo \subseteq Jobs
      <3>1. \A q \in Tasks \ {p} : j \notin req[q].todo
        BY <2>1 DEF TodoNew
      <3>2. \A q \in Tasks : req[q].todo \subseteq Jobs
        BY Rows, PublishAssumption DEF PublishAssumption, Task
      <3> QED BY <2>1, <3>1, <3>2
    <2>5. \A q \in Tasks : \A k \in req'[q].todo : job'[k].status = "none"
      BY <2>2, <2>4 DEF TodoNew
    <2>6. \A q, r \in Tasks : q # r => req'[q].todo \cap req'[r].todo = {}
      BY <2>4 DEF TodoNew
    <2>7. bulk'.status # "none"
      BY <2>1, <2>3
    <2> QED BY <2>5, <2>6, <2>7 DEF TodoNew
  <1>3. ASSUME ~CreateBulk(p), \A j \in Jobs, kind \in Kinds : ~CreateChild(p, j, kind) PROVE TodoNew'
    <2>1. \A q \in Tasks : req'[q].todo \subseteq req[q].todo
      <3>1. req'[p].todo \subseteq req[p].todo
        BY <1>3, TaskRecord
      <3> QED BY <3>1, TaskTypes
    <2>2. \A j \in Jobs : job[j].status = "none" /\ job'[j].status # "none" => j \notin Children
      <3>1. ASSUME NEW i \in Jobs, NEW kind \in Kinds, CreateJob(p, i, kind)
            PROVE  \A j \in Jobs : job[j].status = "none" /\ job'[j].status # "none" => j \notin Children
        BY <3>1, CreatedNew DEF CreateJob
      <3>2. ASSUME \A i \in Jobs, kind \in Kinds : ~CreateJob(p, i, kind), NEW j \in Jobs,
                   job[j].status = "none"
            PROVE  job'[j].status = "none"
        <4>1. WriteRetry(p) => job'[j] = job[j]
          BY <3>2, RetriedRow DEF RetriesOver, WriteRetry
        <4>2. CancelQueued(p) => job'[j] = job[j]
          BY <3>2, CancelledRow
        <4>3. job' = job => job'[j] = job[j]
          OBVIOUS
        <4> QED BY <1>3, <3>2, <4>1, <4>2, <4>3
                DEF Kinds, TaskAction, Respond, ChildrenCreated, ReadChildren, WriteBulk,
                    RequestCrashes, ReconcileBulk, CreateBulk, CancelBulk, RetryJob
      <3> QED BY <3>1, <3>2
    <2>3. bulk'.status = "none" => bulk.status = "none"
      <3>1. \A c : Rollup(c) # "none"
        BY DEF Rollup
      <3>2. WriteBulk(p) => bulk'.status # "none"
        BY <3>1 DEF WriteBulk
      <3>3. ~WriteBulk(p) => bulk' = bulk
        BY <1>3 DEF TaskAction, Respond, CreateChild, ChildrenCreated, ReadChildren, CancelQueued, WriteRetry,
           RequestCrashes, ReconcileBulk, CancelBulk, RetryJob, CreateJob, Kinds
      <3> QED BY <3>2, <3>3
    <2>4. bulk.status # "none" => bulk'.status # "none"
      BY <2>3, <1>3 DEF TaskAction, Respond, CreateChild, ChildrenCreated, ReadChildren, CancelQueued,
                        WriteRetry,
           RequestCrashes, ReconcileBulk, CancelBulk, RetryJob, CreateJob, Kinds, WriteBulk, Rollup
    <2>5. \A q \in Tasks : req[q].todo \subseteq Children /\ Children \subseteq Jobs
      BY Rows, PublishAssumption DEF PublishAssumption, Task
    <2>6. \A q \in Tasks : \A j \in req'[q].todo : job'[j].status = "none"
      BY <2>1, <2>2, <2>5 DEF TodoNew
    <2>7. bulk'.status = "none" => \A j \in Children : job'[j].status = "none"
      BY <2>2, <2>3, <2>5 DEF TodoNew
    <2>8. \A q \in Tasks : req'[q].todo # {} => bulk'.status # "none"
      BY <2>1, <2>4 DEF TodoNew
    <2>9. \A q, r \in Tasks : q # r => req'[q].todo \cap req'[r].todo = {}
      BY <2>1 DEF TodoNew
    <2> QED BY <2>6, <2>7, <2>8, <2>9 DEF TodoNew
  <1> QED BY <1>1, <1>2, <1>3

LEMMA TaskRetries ==
  ASSUME OneAtATime, TypeInv, RowInv, NEW p \in Tasks, TaskAction(p)
  PROVE  RetriesOver'
  <1>0. overslept' = overslept
    BY TaskTypes
  <1> SUFFICES ASSUME NEW q \in Tasks, req'[q].step = "retry"
               PROVE  /\ q \in Requests /\ req'[q].job \in Jobs /\ job'[req'[q].job].status # "none"
                      /\ Lone(req'[q].job) => job'[req'[q].job].status \in RetryableStatus
    BY <1>0 DEF RetriesOver, Does, Lone
  <1>1. CASE \E j \in Jobs : q = p /\ RetryJob(p, j)
    <2>1. PICK j \in Jobs : q = p /\ RetryJob(p, j)
      BY <1>1
    <2>2. req'[p].job = j /\ p \in Requests /\ job' = job /\ job[j].status \in RetryableStatus
      BY <2>1, Rows DEF RetryJob, Ask, NoTask
    <2> QED BY <2>1, <2>2 DEF RetryableStatus
  <1>2. CASE ~\E j \in Jobs : q = p /\ RetryJob(p, j)
    <2>1. q # p
      <3> SUFFICES ASSUME q = p PROVE FALSE
        OBVIOUS
      <3>1. ~CreateBulk(p)
        BY Rows DEF CreateBulk, Ask, NoTask
      <3>2. \A j \in Jobs, kind \in Kinds : ~CreateChild(p, j, kind)
        <4> SUFFICES ASSUME NEW j \in Jobs, NEW kind \in Kinds, CreateChild(p, j, kind) PROVE FALSE
          OBVIOUS
        <4>1. req' = [req EXCEPT ![p] = [req[p] EXCEPT !.todo = @ \ {j}]] /\ req[p].step = "create"
          BY Rows DEF CreateChild, Does
        <4>2. req'[p].step = "create"
          BY <4>1, Rows DEF Task
        <4> QED BY <4>2
      <3> QED BY <1>2, <3>1, <3>2, TaskRecord
    <2>2. req'[q] = req[q]
      BY <2>1, TaskTypes
    <2>3. /\ q \in Requests /\ req[q].job \in Jobs /\ job[req[q].job].status # "none"
          /\ Lone(req[q].job) => job[req[q].job].status \in RetryableStatus
      BY <2>2 DEF RowInv, RetriesOver, Does
    <2>4. ~WriteRetry(p)
      BY <2>1, <2>3 DEF OneAtATime, RowInv, RetriesOver, WriteRetry
    <2> QED BY <2>2, <2>3, <2>4, TaskKeepsOver, TaskRows DEF Lasts
  <1> QED BY <1>1, <1>2

-----------------------------------------------------------------------------
(* Executions hold their jobs                                              *)

Busy(s) == Holds(s) \/ At(s, "late")

LEMMA BusyJob ==
  ASSUME TypeInv, SoleInv, NEW s \in Slots, Busy(s)
  PROVE  /\ exec[s].job \in Jobs
         /\ Lone(exec[s].job) =>
              /\ job[exec[s].job].status \in WorkStatus \cup {"completed"}
              /\ Holds(s) => job[exec[s].job].status \in WorkStatus /\ job[exec[s].job].owner = s[1]
              /\ At(s, "late") => job[exec[s].job].status = "completed"
  BY DEF TypeInv, ExecsHaveJobs, SoleInv, Own, OwnRow, Busy, Holds, Working, At, Job

\* Nobody but its own execution writes the row of a lone job that is held.
LEMMA TaskSpares ==
  ASSUME TypeInv, RowInv, SoleInv, NEW p \in Tasks, TaskAction(p), NEW s \in Slots, Busy(s), Lone(exec[s].job)
  PROVE  job'[exec[s].job] = job[exec[s].job]
  <1>1. /\ exec[s].job \in Jobs
        /\ job[exec[s].job].status \notin RetryableStatus \cup {"queued", "none"}
    BY BusyJob DEF WorkStatus, TransferStatus, RetryableStatus
  <1> QED BY <1>1, TaskKeeps DEF TaskRow

LEMMA ClaimSpares ==
  ASSUME TypeInv, SoleInv, NEW t \in Slots, NEW j \in Jobs, Claim(t, j), NEW s \in Slots, Busy(s), Lone(exec[s].job)
  PROVE  exec[s].job # j /\ job'[exec[s].job] = job[exec[s].job]
  <1>1. exec[s].job \in Jobs /\ job[exec[s].job].status # "queued"
    BY BusyJob DEF WorkStatus, TransferStatus
  <1>2. exec[s].job # j
    BY <1>1 DEF Claim
  <1>3. Writes(j)
    BY ClaimTypes
  <1> QED BY <1>1, <1>2, <1>3 DEF Writes

LEMMA OneSlot ==
  ASSUME OneAtATime, "stall" \in Faults, NEW s \in Slots, NEW t \in Slots, s[1] = t[1]
  PROVE  s = t
  <1>1. Parallel = 1
    BY DEF OneAtATime
  <1> QED BY <1>1 DEF Slots

LEMMA SweepSpares ==
  ASSUME TypeInv, SoleInv, NEW j \in Jobs, SweepAction(j), NEW s \in Slots, Busy(s), Lone(exec[s].job)'
  PROVE  job'[exec[s].job] = job[exec[s].job]
  <1>l. Lone(exec[s].job)
    <2>1. exec'[s] = exec[s] /\ overslept \subseteq overslept'
      BY SweepWrites
    <2> QED BY <2>1 DEF Lone
  <1>0. exec[s].job \in Jobs /\ job[exec[s].job].status \in WorkStatus \cup {"completed"}
    BY <1>l, BusyJob
  <1> SUFFICES exec[s].job # j
    BY <1>0, SweepWrites DEF Writes
  <1>1. CASE job[j].status = "queued"
    BY <1>0, <1>1 DEF WorkStatus, TransferStatus
  <1>2. CASE RecoverExpired(j)
    <2> SUFFICES ASSUME exec[s].job = j PROVE FALSE
      OBVIOUS
    <2>1. job[j].status = "leased" /\ Holds(s) /\ job[j].owner = s[1]
      BY <1>2, <1>l, BusyJob DEF RecoverExpired, Busy
    <2>2. s \in Owners(j)
      BY <2>1 DEF Owners
    <2>3. "stall" \in Faults /\ ~At(s, "begin")
      BY <1>2, <2>1, <2>2 DEF RecoverExpired, Fault, Holds, Working, At
    <2>4. j \in overslept'
      BY <1>2, <2>2, <2>3 DEF RecoverExpired
    <2>5. exec' = exec
      BY <1>2 DEF RecoverExpired
    <2> QED BY <2>4, <2>5 DEF Lone
  <1> QED BY <1>1, <1>2, SweepWrites

LEMMA ExecutionSpares ==
  ASSUME TypeInv, SoleInv, NEW t \in Slots, ExecAction(t), NEW s \in Slots \ {t}, Busy(s), Lone(exec[s].job)
  PROVE  job'[exec[s].job] = job[exec[s].job]
  <1>1. CASE job' = job
    BY <1>1
  <1>2. CASE exec[s].job # exec[t].job
    BY <1>2, BusyJob, ExecutionMoves, ExecutionWrites DEF Writes
  <1>3. CASE exec[s].job = exec[t].job /\ (Working(t) \/ At(t, "late"))
    <2>1. Busy(t)
      BY <1>3 DEF Busy, Holds
    <2>2. Holds(s) => ~Holds(t)
      BY <1>3 DEF SoleInv, HoldApart
    <2>3. At(s, "late") => ~At(t, "late")
      BY <1>3 DEF SoleInv, LateApart
    <2>4. (Holds(s) \/ At(s, "late")) /\ (Holds(t) \/ At(t, "late"))
      BY <2>1 DEF Busy
    <2>5. "completed" \notin WorkStatus
      BY DEF WorkStatus, TransferStatus
    <2> QED BY <1>3, <2>1, <2>2, <2>3, <2>4, <2>5, BusyJob
  <1> QED BY <1>1, <1>2, <1>3, ExecutionKeeps

\* What most steps leave of a row as the assets and mappings see it.
Quiet(j) ==
  /\ job'[j].remote = job[j].remote
  /\ job'[j].status \in Published => job[j].status \in Published /\ job'[j].source = job[j].source

\* A step of an execution on its row that neither records an asset nor publishes.
LEMMA ExecutionQuiet ==
  ASSUME TypeInv, NEW s \in Slots, ExecAction(s), ~RecordAsset(s), ~Finish(s)
  PROVE  \A j \in Jobs : Quiet(j)
  <1> DEFINE j == exec[s].job
  <1>0. j \in Jobs /\ job[j] \in JobRow
    BY ExecutionMoves, Rows
  <1>1. job' = job => \A k \in Jobs : Quiet(k)
    BY DEF Quiet
  <1>2. ASSUME NEW st \in JobStatus \ Published, SetStatus(j, st) PROVE \A k \in Jobs : Quiet(k)
    <2>1. Writes(j) /\ job'[j] = [job[j] EXCEPT !.status = st]
      BY <1>0, <1>2, SetWrites
    <2>2. Quiet(j)
      BY <1>0, <1>2, <2>1 DEF Quiet, JobRow
    <2> QED BY <2>1, <2>2 DEF Writes, Quiet
  <1>3. ASSUME NEW st \in {"queued", "failed"}, Release(j, st) PROVE \A k \in Jobs : Quiet(k)
    <2>0. st \in JobStatus /\ st \notin Published
      BY DEF JobStatus, Terminal, RetryableStatus, Published
    <2>1. Writes(j) /\ job'[j] = [job[j] EXCEPT !.status = st, !.owner = None]
      BY <1>0, <1>3, <2>0, ReleaseWrites
    <2>2. Quiet(j)
      BY <1>0, <2>0, <2>1 DEF Quiet, JobRow
    <2> QED BY <2>1, <2>2 DEF Writes, Quiet
  <1>4. TransferStatus \subseteq JobStatus \ Published
    BY DEF TransferStatus, JobStatus, Published
  <1>5. ASSUME NEW step, NEW st \in TransferStatus, NEW next, Enter(s, step, st, next)
        PROVE  \A k \in Jobs : Quiet(k)
    BY <1>2, <1>4, <1>5 DEF Enter
  <1>6. CASE SendBytes(s) \/ InspectAsset(s)
    BY <1>2, <1>4, <1>6 DEF SendBytes, InspectAsset, TransferStatus
  <1>7. CASE HandleFailure(s)
    BY <1>3, <1>7 DEF HandleFailure
  <1> QED BY <1>1, <1>5, <1>6, <1>7 DEF ExecAction, Execute, Begin, CheckFreshness, SourceGone, UploadAsset,
     Call, FindMapping, WriteMapping, StatementFails, ExecutionLost, TransferStatus

\* A job that was created keeps its source, and an asset once it records one.
Endures(j) ==
  job[j].status # "none" =>
    job'[j].source = job[j].source /\ (job[j].remote > 0 => job'[j].remote > 0)

LEMMA TaskEndures ==
  ASSUME TypeInv, RowInv, NEW p \in Tasks, TaskAction(p)
  PROVE  \A j \in Jobs : Endures(j)
  BY TaskKeeps DEF TaskRow, Endures

LEMMA ClaimEndures ==
  ASSUME TypeInv, NEW s \in Slots, NEW i \in Jobs, Claim(s, i)
  PROVE  \A j \in Jobs : Endures(j)
  <1>1. job'[i] = [job[i] EXCEPT !.status = "leased", !.owner = s[1], !.attempts = @ + 1] /\ Writes(i)
    BY ClaimTypes
  <1>2. job'[i].remote = job[i].remote
    BY <1>1, Rows DEF JobRow
  <1> QED BY <1>1, <1>2 DEF Writes, Endures

LEMMA SweepEndures ==
  ASSUME TypeInv, NEW i \in Jobs, SweepAction(i)
  PROVE  \A j \in Jobs : Endures(j)
  <1>1. /\ Writes(i)
        /\ \/ job'[i] = [job[i] EXCEPT !.status = "queued", !.owner = None]
           \/ job'[i] = [job[i] EXCEPT !.status = "stale"]
    BY SweepWrites
  <1>r. job[i] \in JobRow
    BY Rows
  <1>2. job'[i].remote = job[i].remote
    BY <1>1, <1>r DEF JobRow
  <1> QED BY <1>1, <1>2 DEF Writes, Endures

LEMMA ExecutionEndures ==
  ASSUME TypeInv, SoleInv, NEW s \in Slots, ExecAction(s)
  PROVE  \A j \in Jobs : Endures(j)
  <1> DEFINE i == exec[s].job
  <1>0. i \in Jobs /\ job[i] \in JobRow /\ Writes(i) /\ Own(s)
    BY ExecutionMoves, ExecutionWrites, Rows DEF SoleInv
  <1>1. ASSUME job[i].remote > 0 => job'[i].remote > 0 PROVE \A j \in Jobs : Endures(j)
    BY <1>0, <1>1 DEF Writes, Endures
  <1>2. CASE RecordAsset(s)
    <2>1. job'[i] = [job[i] EXCEPT !.remote = exec[s].remote] /\ exec[s].remote > 0
      BY <1>0, <1>2, Rows DEF RecordAsset, Own, At, Unrecorded
    <2>2. job'[i].remote > 0
      BY <1>0, <2>1 DEF JobRow
    <2> QED BY <1>1, <2>2
  <1>3. CASE Finish(s)
    <2>1. \E st \in JobStatus : Release(i, st)
      BY <1>3 DEF Finish, JobStatus, Terminal, RetryableStatus
    <2>2. \E st \in JobStatus : job'[i] = [job[i] EXCEPT !.status = st, !.owner = None]
      BY <1>0, <2>1, ReleaseWrites
    <2>3. job'[i].remote = job[i].remote
      BY <1>0, <2>2 DEF JobRow
    <2> QED BY <1>1, <2>3
  <1>4. CASE ~RecordAsset(s) /\ ~Finish(s)
    BY <1>0, <1>1, <1>4, ExecutionQuiet DEF Quiet
  <1> QED BY <1>2, <1>3, <1>4

\* An execution that somebody else's step leaves alone.
LEMMA OwnKept ==
  ASSUME TypeInv, SourcesSet, NEW s \in Slots, Own(s), exec'[s] = exec[s],
         overslept \subseteq overslept',
         Busy(s) /\ Lone(exec[s].job)' => job'[exec[s].job] = job[exec[s].job],
         \A j \in Jobs : Endures(j),
         faults' \in {faults, faults + 1},
         \A k \in Sources : mapping[k].job # None => mapping'[k].job # None
  PROVE  Own(s)'
  <1>1. faults \in Nat
    BY BoundsFit DEF TypeInv, TypeOK
  <1>2. ASSUME exec[s].step # "idle"
        PROVE  /\ exec[s].job \in Jobs /\ Job(s).status # "none" /\ Job(s).source \in Sources
               /\ (Job(s).source)' = Job(s).source /\ (Job(s).remote > 0 => (Job(s).remote)' > 0)
    BY <1>2 DEF TypeInv, ExecsHaveJobs, SourcesSet, Job, Endures
  <1>3. exec[s].step \in {"validating", "check"} \cup Unrecorded \cup Recorded => exec[s].step # "idle"
    BY DEF Unrecorded, Recorded
  <1>4. /\ exec'[s].soft => "remote" \in Faults /\ faults' >= 1
        /\ exec'[s].step \in {"validating", "check"} /\ exec'[s].remote > 0 => (Job(s).remote)' > 0
        /\ exec'[s].step \in Unrecorded \cup Recorded => exec'[s].remote > 0
        /\ exec'[s].step \in Recorded => (Job(s).remote)' > 0
        /\ At(s, "finish")' => mapping'[(Job(s).source)'].job # None
    BY <1>1, <1>2, <1>3 DEF Own, At, Recorded
  <1>5. ASSUME Lone(exec[s].job)' PROVE OwnRow(s)'
    <2>0. OwnRow(s)
      BY <1>5 DEF Own, Lone
    <2>1. CASE ~Busy(s)
      <3>1. exec[s].step \notin {"validating", "check", "uploading", "upload"} \cup Unrecorded \cup Recorded
        BY <2>1 DEF Busy, Holds, Working, Unrecorded, Recorded
      <3> QED BY <2>1, <3>1 DEF OwnRow, Busy, Holds, Working, At
    <2>2. CASE Busy(s)
      <3>1. job'[exec[s].job] = job[exec[s].job]
        BY <1>5, <2>2
      <3> QED BY <2>0, <3>1 DEF OwnRow, Holds, Working, At, Job
    <2> QED BY <2>1, <2>2
  <1> QED BY <1>4, <1>5 DEF Own, Job, Lone

LEMMA OwnEnds ==
  ASSUME NEW s \in Slots, exec'[s] = NoExec
  PROVE  Own(s)' /\ ~Holds(s)' /\ ~At(s, "late")'
  BY DEF Own, OwnRow, Holds, Working, At, NoExec, Unrecorded, Recorded

\* A step by which no execution starts to hold a job.
LEMMA SoleKept ==
  ASSUME TypeInv, SoleInv, \A s \in Slots : Own(s)', overslept \subseteq overslept',
         \A s \in Slots : exec'[s] \in {exec[s], NoExec}
  PROVE  SoleInv'
  <1>1. \A s \in Slots : Holds(s)' \/ At(s, "late")' => exec'[s] = exec[s]
    BY OwnEnds
  <1>2. HoldApart'
    BY <1>1 DEF SoleInv, HoldApart, Holds, Working, At, Lone
  <1>3. LateApart'
    BY <1>1 DEF SoleInv, LateApart, At, Lone
  <1> QED BY <1>2, <1>3 DEF SoleInv

\* The row of an execution that works is its own after a step, if its job is lone.
Owned(s) ==
  Lone(exec[s].job) => job'[exec[s].job].status \in WorkStatus /\ job'[exec[s].job].owner = s[1]

\* What the row has to tell an execution at a step.
Tells(s, step, carried) ==
  LET r == job'[exec[s].job].remote IN
    /\ step \in {"validating", "check"} /\ carried > 0 => r > 0
    /\ step \in Unrecorded \cup Recorded => carried > 0
    /\ step \in Recorded => r > 0
    /\ Lone(exec[s].job) =>
         /\ step \in {"validating", "check"} \cup Recorded => carried = r
         /\ step \in {"uploading", "upload"} \cup Unrecorded => r = 0

\* What is left to show of an execution that works, once its row is known to be its own.
LEMMA OwnMoves ==
  ASSUME TypeInv, NEW s \in Slots, Own(s), Working(s), overslept' = overslept,
         exec'[s].job = exec[s].job, Owned(s),
         exec'[s].step # "late",
         faults' \in {faults, faults + 1},
         exec'[s].soft => exec[s].soft \/ ("remote" \in Faults /\ faults' = faults + 1),
         Tells(s, exec'[s].step, exec'[s].remote),
         exec'[s].step = "finish" => mapping'[job'[exec[s].job].source].job # None
  PROVE  Own(s)'
  <1>1. faults \in Nat
    BY BoundsFit DEF TypeInv, TypeOK
  <1>2. exec'[s].soft => "remote" \in Faults /\ faults' >= 1
    BY <1>1 DEF Own
  <1>3. Lone(exec[s].job)' => OwnRow(s)'
    BY DEF OwnRow, Owned, Tells, Lone, Job, At
  <1> QED BY <1>2, <1>3 DEF Own, Tells, Job, At

LEMMA OwnFails ==
  ASSUME TypeInv, NEW s \in Slots, Own(s), Working(s), overslept' = overslept,
         NEW err \in {"retry", "final"}, Fails(s, err),
         Owned(s), faults' \in {faults, faults + 1}
  PROVE  Own(s)'
  <1>1. exec'[s] = [exec[s] EXCEPT !.step = "fail", !.err = err] /\ exec[s] \in Execution
    BY FailMoves, Rows
  <1>2. exec'[s].step = "fail" /\ exec'[s].job = exec[s].job /\ exec'[s].soft = exec[s].soft
    BY <1>1 DEF Execution
  <1>3. Tells(s, exec'[s].step, exec'[s].remote)
    BY <1>2 DEF Tells, Unrecorded, Recorded
  <1> QED BY <1>2, <1>3, OwnMoves

LEMMA OwnGoes ==
  ASSUME TypeInv, NEW s \in Slots, Own(s), Working(s), overslept' = overslept,
         NEW step \in Steps \ {"late", "finish"}, Go(s, step),
         Owned(s), faults' \in {faults, faults + 1}, Tells(s, step, exec[s].remote)
  PROVE  Own(s)'
  <1>1. exec'[s] = [exec[s] EXCEPT !.step = step] /\ exec[s] \in Execution
    BY GoMoves, Rows
  <1>2. /\ exec'[s].step = step /\ exec'[s].job = exec[s].job /\ exec'[s].soft = exec[s].soft
        /\ exec'[s].remote = exec[s].remote
    BY <1>1 DEF Execution
  <1> QED BY <1>2, OwnMoves

LEMMA WorkStep ==
  ASSUME OneAtATime, TypeInv, SourcesSet, SoleInv, NEW s \in Slots, ExecAction(s), Working(s)
  PROVE  Own(s)'
  <1> DEFINE j == exec[s].job
  <1>0. /\ j \in Jobs /\ job[j] \in JobRow /\ exec[s] \in Execution /\ Own(s)
        /\ job[j].status # "none"
        /\ Lone(j) => job[j].status \in WorkStatus /\ job[j].owner = s[1]
    BY ExecutionMoves, Rows DEF SoleInv, Own, OwnRow, Holds, Job, TypeInv, ExecsHaveJobs
  <1>f. faults' \in {faults, faults + 1} /\ overslept' = overslept
    BY ExecutionSite
  <1>k. job' = job => Owned(s)
    BY <1>0 DEF Owned
  <1>s. ASSUME NEW st \in TransferStatus, SetStatus(j, st)
        PROVE  /\ Owned(s)
               /\ job'[j].remote = job[j].remote /\ job'[j].source = job[j].source
    <2>1. st \in JobStatus /\ st \in WorkStatus
      BY DEF JobStatus, WorkStatus
    <2>2. job'[j] = [job[j] EXCEPT !.status = st]
      BY <1>0, <1>s, <2>1, SetWrites
    <2> QED BY <1>0, <2>1, <2>2 DEF JobRow, Owned
  <1>1. ASSUME NEW err \in {"retry", "final"}, Fails(s, err),
               job' = job \/ \E st \in TransferStatus : SetStatus(j, st)
        PROVE  Own(s)'
    BY <1>0, <1>1, <1>f, <1>k, <1>s, OwnFails
  <1>2. ASSUME NEW step, NEW st \in TransferStatus, NEW next \in {"check", "upload", "update", "verify"},
               Enter(s, step, st, next),
               <<step, next>> \in {<<"validating", "check">>, <<"uploading", "upload">>,
                                  <<"updating", "update">>, <<"verifying", "verify">>}
        PROVE  Own(s)'
    <2>1. Go(s, next) /\ SetStatus(j, st) /\ At(s, step)
      BY <1>2 DEF Enter
    <2>2. next \in Steps \ {"late", "finish"}
      BY DEF Steps
    <2>3. Tells(s, next, exec[s].remote)
      BY <1>0, <1>2, <1>s, <2>1 DEF Tells, Own, OwnRow, Job, At, Unrecorded, Recorded
    <2> QED BY <1>0, <1>f, <1>s, <2>1, <2>2, <2>3, OwnGoes
  <1>3. CASE CheckFreshness(s)
    <2>0. At(s, "check") /\ job' = job
      BY <1>3 DEF CheckFreshness
    <2>1. Refusal(s) \in {"none", "retry", "final"}
      BY DEF Refusal
    <2>2. ASSUME Go(s, "uploading"), exec[s].remote = 0 PROVE Own(s)'
      <3>1. "uploading" \in Steps \ {"late", "finish"} /\ "uploading" \notin Unrecorded \cup Recorded
        BY DEF Steps, Unrecorded, Recorded
      <3>2. Tells(s, "uploading", exec[s].remote)
        BY <1>0, <2>0, <2>2, <3>1 DEF Tells, Own, OwnRow, Job, At
      <3> QED BY <1>0, <1>f, <1>k, <2>0, <2>2, <3>1, <3>2, OwnGoes
    <2>3. ASSUME Go(s, "updating"), exec[s].remote # 0 PROVE Own(s)'
      <3>1. "updating" \in Steps \ {"late", "finish"} /\ "updating" \notin Unrecorded
        BY DEF Steps, Unrecorded
      <3>2. Tells(s, "updating", exec[s].remote)
        BY <1>0, <2>0, <2>3, <3>1 DEF Tells, Own, OwnRow, Job, At, Execution
      <3> QED BY <1>0, <1>f, <1>k, <2>0, <2>3, <3>1, <3>2, OwnGoes
    <2> QED BY <1>1, <1>3, <2>0, <2>1, <2>2, <2>3 DEF CheckFreshness
  <1>4. CASE UploadAsset(s)
    <2>0. At(s, "upload") /\ job' = job /\ (Lone(j) => job[j].remote = 0)
      BY <1>0, <1>4 DEF UploadAsset, Own, OwnRow, At, Job
    <2>1. ASSUME Made(j),
                 exec' = [exec EXCEPT ![s].remote = made'[j],
                                     ![s].step = IF platform = "webflow" THEN "send" ELSE "record"]
          PROVE  Own(s)'
      <3>1. made'[j] \in Nat /\ made'[j] > 0
        BY <1>0, <2>1, Rows DEF Made
      <3>2. exec'[s] = [exec[s] EXCEPT !.remote = made'[j],
                                       !.step = IF platform = "webflow" THEN "send" ELSE "record"]
        BY <2>1, Rows
      <3>3. /\ exec'[s].remote > 0 /\ exec'[s].step \in {"send", "record"} /\ exec'[s].job = j
            /\ exec'[s].soft = exec[s].soft
        BY <1>0, <3>1, <3>2 DEF Execution
      <3>4. Tells(s, exec'[s].step, exec'[s].remote)
        BY <2>0, <3>3 DEF Tells, Recorded
      <3> QED BY <1>0, <1>f, <1>k, <2>0, <3>3, <3>4, OwnMoves
    <2> QED BY <1>1, <1>4, <2>0, <2>1 DEF UploadAsset
  <1>5. CASE SendBytes(s) \/ InspectAsset(s)
    <2>1. ASSUME NEW step \in {"inspect", "record"}, Go(s, step), SetStatus(j, "uploading"),
                 At(s, "send") \/ At(s, "inspect")
          PROVE  Own(s)'
      <3>1. step \in Steps \ {"late", "finish"} /\ step \notin Recorded /\ "uploading" \in TransferStatus
        BY DEF Steps, Recorded, TransferStatus
      <3>2. Tells(s, step, exec[s].remote)
        BY <1>0, <1>s, <2>1, <3>1 DEF Tells, Own, OwnRow, Job, At, Unrecorded
      <3> QED BY <1>0, <1>f, <1>s, <2>1, <3>1, <3>2, OwnGoes
    <2>2. "uploading" \in TransferStatus
      BY DEF TransferStatus
    <2> QED BY <1>1, <1>5, <2>1, <2>2 DEF SendBytes, InspectAsset
  <1>6. CASE RecordAsset(s)
    <2>0. At(s, "record") /\ Go(s, "updating")
      BY <1>6 DEF RecordAsset
    <2>1. job'[j] = [job[j] EXCEPT !.remote = exec[s].remote]
      BY <1>0, <1>6, Rows DEF RecordAsset
    <2>2. job'[j].remote = exec[s].remote /\ Owned(s)
      BY <1>0, <2>1 DEF JobRow, Owned
    <2>3. exec[s].remote > 0
      BY <1>0, <2>0 DEF Own, At, Unrecorded
    <2>4. "updating" \in Steps \ {"late", "finish"} /\ "updating" \notin Unrecorded
      BY DEF Steps, Unrecorded
    <2>5. Tells(s, "updating", exec[s].remote)
      BY <2>2, <2>3, <2>4 DEF Tells
    <2> QED BY <1>0, <1>f, <2>0, <2>2, <2>4, <2>5, OwnGoes
  <1>7. ASSUME NEW step \in {"update", "verify"}, NEW next \in {"verifying", "find"}, Call(s, step, next)
        PROVE  Own(s)'
    <2>0. At(s, step) /\ job' = job /\ next # "late" /\ next # "finish" /\ next \in Steps
      BY <1>7 DEF Call, Steps
    <2>t. Tells(s, next, exec[s].remote)
      BY <1>0, <2>0 DEF Tells, Own, OwnRow, At, Job, Recorded, Unrecorded
    <2>1. CASE Go(s, next)
      BY <1>0, <1>f, <1>k, <2>0, <2>t, <2>1, OwnGoes
    <2>2. CASE exec' = [exec EXCEPT ![s].step = next, ![s].soft = TRUE] /\ Fault("remote")
      <3>1. exec'[s] = [exec[s] EXCEPT !.step = next, !.soft = TRUE]
        BY <2>2, Rows
      <3>2. exec'[s].step = next /\ exec'[s].job = j /\ exec'[s].remote = exec[s].remote
        BY <1>0, <3>1 DEF Execution
      <3>3. "remote" \in Faults /\ faults' = faults + 1
        BY <2>2 DEF Fault
      <3> QED BY <1>0, <1>f, <1>k, <2>0, <2>t, <3>2, <3>3, OwnMoves
    <2> QED BY <1>7, <2>1, <2>2 DEF Call
  <1>8. CASE FindMapping(s)
    <2>0. At(s, "find") /\ job' = job
      BY <1>8 DEF FindMapping
    <2>t. Tells(s, "map", exec[s].remote)
      BY <1>0, <2>0 DEF Tells, Own, OwnRow, At, Job, Recorded, Unrecorded
    <2>1. exec'[s] = [exec[s] EXCEPT !.step = "map", !.found = mapping[Job(s).source].job # None]
      BY <1>8, Rows DEF FindMapping
    <2>2. exec'[s].step = "map" /\ exec'[s].job = j /\ exec'[s].remote = exec[s].remote /\ exec'[s].soft = exec[s].soft
      BY <1>0, <2>1 DEF Execution
    <2> QED BY <1>0, <1>f, <1>k, <2>0, <2>t, <2>2, OwnMoves
  <1>9. CASE WriteMapping(s)
    <2>0. At(s, "map") /\ job' = job
      BY <1>9 DEF WriteMapping
    <2>t. Tells(s, "finish", exec[s].remote)
      BY <1>0, <2>0 DEF Tells, Own, OwnRow, At, Job, Recorded, Unrecorded
    <2>1. ASSUME mapping' = [mapping EXCEPT ![Job(s).source] = [job |-> exec[s].job, remote |-> exec[s].remote]],
                 Go(s, "finish")
          PROVE  Own(s)'
      <3>1. job[j].source \in Sources
        BY <1>0 DEF SourcesSet
      <3>2. mapping'[job'[j].source].job = j /\ j # None
        BY <1>0, <2>0, <2>1, <3>1, Rows, PublishAssumption DEF PublishAssumption, Job
      <3>3. exec'[s] = [exec[s] EXCEPT !.step = "finish"]
        BY <2>1, GoMoves DEF Steps
      <3>4. exec'[s].step = "finish" /\ exec'[s].job = j /\ exec'[s].remote = exec[s].remote
            /\ exec'[s].soft = exec[s].soft
        BY <1>0, <3>3 DEF Execution
      <3> QED BY <1>0, <1>f, <1>k, <2>0, <2>t, <3>2, <3>4, OwnMoves
    <2> QED BY <1>1, <1>9, <2>0, <2>1 DEF WriteMapping
  <1>10. CASE Finish(s)
    <2>1. CASE exec' = [exec EXCEPT ![s].step = "late", ![s].err = "retry"] /\ Fault("db")
      <3>1. exec'[s] = [exec[s] EXCEPT !.step = "late", !.err = "retry"]
        BY <2>1, Rows
      <3>2. exec'[s].step = "late" /\ exec'[s].job = j /\ exec'[s].soft = exec[s].soft
        BY <1>0, <3>1 DEF Execution
      <3>3. ~exec[s].soft
        BY <1>0, <2>1, BoundsFit DEF Own, Fault, OneAtATime, TypeInv, TypeOK
      <3>4. job'[j] = [job[j] EXCEPT !.status = "completed", !.owner = None]
        BY <1>0, <1>10, <3>3, ReleaseWrites DEF Finish, JobStatus, Terminal
      <3>5. job'[j].status = "completed"
        BY <1>0, <3>4 DEF JobRow
      <3> QED BY <3>2, <3>3, <3>5 DEF Own, OwnRow, Holds, Working, At, Job, Unrecorded, Recorded
    <2>2. CASE End(s)
      BY <2>2, OwnEnds, Rows DEF End
    <2> QED BY <1>10, <2>1, <2>2 DEF Finish
  <1>11. CASE HandleFailure(s) \/ ExecutionLost(s)
    <2>1. exec'[s] = NoExec
      BY <1>11, Rows DEF HandleFailure, ExecutionLost, End
    <2> QED BY <2>1, OwnEnds
  <1>12. CASE SourceGone(s) \/ StatementFails(s)
    BY <1>1, <1>12 DEF SourceGone, StatementFails
  <1>13. ~Begin(s)
    BY DEF Begin, At, Working
  <1>14. /\ Enter(s, "validating", "validating", "check") => Own(s)'
         /\ Enter(s, "uploading", "uploading", "upload") => Own(s)'
         /\ Enter(s, "updating", "updating", "update") => Own(s)'
         /\ Enter(s, "verifying", "verifying", "verify") => Own(s)'
    <2>1. /\ "validating" \in TransferStatus /\ "uploading" \in TransferStatus
          /\ "updating" \in TransferStatus /\ "verifying" \in TransferStatus
      BY DEF TransferStatus
    <2>2. Enter(s, "validating", "validating", "check") => Own(s)'
      BY <1>2, <2>1
    <2>3. Enter(s, "uploading", "uploading", "upload") => Own(s)'
      BY <1>2, <2>1
    <2>4. Enter(s, "updating", "updating", "update") => Own(s)'
      BY <1>2, <2>1
    <2>5. Enter(s, "verifying", "verifying", "verify") => Own(s)'
      BY <1>2, <2>1
    <2> QED BY <2>2, <2>3, <2>4, <2>5
  <1>15. Call(s, "update", "verifying") \/ Call(s, "verify", "find") => Own(s)'
    BY <1>7
  <1> QED BY <1>3, <1>4, <1>5, <1>6, <1>8, <1>9, <1>10, <1>11, <1>12, <1>13, <1>14, <1>15
          DEF ExecAction, Execute

\* The executions' side of a step of one of them.
LEMMA ExecutionSole ==
  ASSUME OneAtATime, TypeInv, SourcesSet, SoleInv, NEW s \in Slots, ExecAction(s)
  PROVE  SoleInv'
  <1> DEFINE Began == At(s, "begin") /\ "stall" \in Faults /\ job[exec[s].job].owner = s[1]
  <1>0. /\ exec[s].job \in Jobs /\ exec[s] \in Execution /\ ExecMoves(s) /\ Own(s)
        /\ \A t \in Slots \ {s} : exec'[t] = exec[t]
        /\ overslept' = overslept
    BY ExecutionMoves, ExecutionSite, Rows DEF SoleInv, ExecMoves
  <1>1. Own(s)' /\ (Holds(s)' => Holds(s) \/ Began) /\ (At(s, "late")' => Holds(s))
    <2>1. CASE Working(s)
      BY <2>1, WorkStep DEF Holds
    <2>2. CASE exec'[s] = NoExec
      BY <2>2, OwnEnds
    <2>3. CASE At(s, "begin") /\ exec'[s] # NoExec
      <3>1. /\ Job(s).status = "leased" /\ Job(s).owner = s[1] /\ job' = job
            /\ exec'[s] = [exec[s] EXCEPT !.step = "validating", !.attempts = Job(s).attempts,
                                          !.remote = Job(s).remote]
            /\ faults' = faults
        BY <2>3, Rows DEF ExecAction, Execute, Begin, Enter, CheckFreshness, SourceGone, UploadAsset,
                          SendBytes, InspectAsset,
       RecordAsset, Call, FindMapping, WriteMapping, Finish, HandleFailure, StatementFails,
       ExecutionLost, At, Statements, End
      <3>2. exec'[s].step = "validating" /\ exec'[s].job = exec[s].job /\ exec'[s].soft = exec[s].soft
            /\ exec'[s].remote = job[exec[s].job].remote
        BY <1>0, <3>1 DEF Execution, Job
      <3>3. Own(s)'
        BY <1>0, <3>1, <3>2 DEF Own, OwnRow, Job, At, WorkStatus, Unrecorded, Recorded
      <3> QED BY <2>3, <3>1, <3>2, <3>3 DEF Holds, At, Job
    <2>4. CASE At(s, "late")
      <3>1. exec'[s] = NoExec
        BY <2>4, Rows DEF ExecAction, Execute, Begin, Enter, CheckFreshness, SourceGone, UploadAsset,
                          SendBytes, InspectAsset,
       RecordAsset, Call, FindMapping, WriteMapping, Finish, HandleFailure, StatementFails,
       ExecutionLost, At, Statements, End
      <3> QED BY <3>1, OwnEnds
    <2> QED BY <2>1, <2>2, <2>3, <2>4, ExecutionMoves DEF Working, At
  <1>2. \A k \in Sources : mapping[k].job # None => mapping'[k].job # None
    <2>1. CASE WriteMapping(s)
      <3>1. Job(s).source \in Sources
        BY <1>0, <2>1 DEF SourcesSet, TypeInv, ExecsHaveJobs, Job, WriteMapping, At
      <3> QED BY <1>0, <2>1, <3>1, Rows, PublishAssumption DEF PublishAssumption, WriteMapping
    <2>2. CASE ~WriteMapping(s)
      BY <2>2, Rows DEF ExecAction, Execute, Begin, Enter, CheckFreshness, SourceGone, UploadAsset, SendBytes,
         InspectAsset, RecordAsset, Call, FindMapping, Finish, HandleFailure, StatementFails,
         ExecutionLost, site
    <2> QED BY <2>1, <2>2
  <1>3. \A t \in Slots \ {s} : Own(t)'
    BY <1>0, <1>2, ExecutionSpares, ExecutionEndures, ExecutionSite, OwnKept DEF SoleInv, Lone
  <1>4. HoldApart'
    <2> SUFFICES ASSUME NEW t \in Slots \ {s}, Holds(s)', Holds(t)', exec'[s].job = exec'[t].job,
                        Lone(exec[t].job)
                 PROVE  FALSE
      BY <1>0 DEF SoleInv, HoldApart, Holds, Working, At, Lone
    <2>1. exec'[s].job = exec[s].job /\ exec'[t] = exec[t] /\ Holds(t)
      BY <1>0 DEF ExecMoves, NoExec, Holds, Working, At
    <2>2. CASE Holds(s)
      BY <2>1, <2>2 DEF SoleInv, HoldApart
    <2>3. CASE Began
      <3>1. t[1] = s[1]
        BY <2>1, <2>3 DEF SoleInv, Own, OwnRow, Job
      <3> QED BY <2>3, <3>1, OneSlot
    <2> QED BY <1>1, <2>2, <2>3
  <1>5. LateApart'
    <2> SUFFICES ASSUME NEW t \in Slots \ {s}, At(s, "late")', At(t, "late")', exec'[s].job = exec'[t].job,
                        Lone(exec[t].job)
                 PROVE  FALSE
      BY <1>0 DEF SoleInv, LateApart, At, Lone
    <2>1. exec'[s].job = exec[s].job /\ exec'[t] = exec[t] /\ At(t, "late")
      BY <1>0 DEF ExecMoves, NoExec, At
    <2>2. Job(s).status \in WorkStatus /\ Job(t).status = "completed"
      BY <1>1, <2>1 DEF SoleInv, Own, OwnRow
    <2> QED BY <2>1, <2>2 DEF Job, WorkStatus, TransferStatus
  <1> QED BY <1>1, <1>3, <1>4, <1>5 DEF SoleInv

LEMMA ClaimSole ==
  ASSUME TypeInv, SourcesSet, SoleInv, NEW s \in Slots, NEW j \in Jobs, Claim(s, j)
  PROVE  SoleInv'
  <1>0. /\ exec[s] \in Execution /\ job[j] \in JobRow /\ Own(s) /\ At(s, "idle") /\ job[j].status = "queued"
        /\ \A t \in Slots \ {s} : exec'[t] = exec[t]
        /\ exec'[s] = [exec[s] EXCEPT !.job = j, !.step = "begin"]
        /\ job'[j] = [job[j] EXCEPT !.status = "leased", !.owner = s[1], !.attempts = @ + 1]
        /\ mapping' = mapping /\ faults' = faults /\ overslept' = overslept
    BY ClaimTypes, Rows DEF SoleInv, Claim, site
  <1>1. /\ exec'[s].job = j /\ exec'[s].step = "begin" /\ exec'[s].soft = exec[s].soft
        /\ job'[j].status = "leased" /\ job'[j].owner = s[1]
    BY <1>0 DEF Execution, JobRow
  <1>2. Own(s)'
    BY <1>0, <1>1 DEF Own, OwnRow, Holds, Working, At, Job, WorkStatus, Unrecorded, Recorded
  <1>3. \A t \in Slots \ {s} : Own(t)'
    BY <1>0, ClaimSpares, ClaimEndures, OwnKept DEF SoleInv, Lone
  <1>4. HoldApart'
    <2>0. \A t \in Slots \ {s} : Holds(t)' => Holds(t)
      BY <1>0 DEF Holds, Working, At
    <2>f. \A t, u \in Slots \ {s} :
            t # u /\ Holds(t)' /\ Holds(u)' /\ Lone(exec'[t].job) => exec'[t].job # exec'[u].job
      BY <1>0, <2>0 DEF SoleInv, HoldApart
    <2> SUFFICES ASSUME NEW t \in Slots \ {s}, Holds(s)', Holds(t)', Lone(exec[t].job)
                 PROVE  exec'[s].job # exec'[t].job
      BY <1>0, <2>f DEF HoldApart, Lone
    <2>1. exec'[t] = exec[t] /\ Holds(t)
      BY <1>0 DEF Holds, Working, At
    <2> QED BY <1>1, <2>1, ClaimSpares DEF Busy
  <1>5. LateApart'
    <2>1. \A t \in Slots : At(t, "late")' => t # s
      BY <1>1 DEF At
    <2> QED BY <1>0, <2>1 DEF SoleInv, LateApart, At, Lone
  <1> QED BY <1>2, <1>3, <1>4, <1>5 DEF SoleInv

LEMMA SoleStep ==
  ASSUME OneAtATime, TypeInv, RowInv, SoleInv, [Next]_vars
  PROVE  SoleInv'
  <1>0. faults \in Nat /\ SourcesSet /\ \A s \in Slots : Own(s)
    BY BoundsFit DEF TypeInv, TypeOK, SoleInv, RowInv
  <1>1. ASSUME NEW p \in Tasks, TaskAction(p) PROVE SoleInv'
    <2>1. exec' = exec /\ mapping' = mapping /\ overslept' = overslept
      BY <1>1, TaskTypes DEF site
    <2>2. faults' \in {faults, faults + 1}
      BY <1>1 DEF TaskAction, Respond, CreateChild, ChildrenCreated, ReadChildren, WriteBulk,
                  CancelQueued, WriteRetry,
       RequestCrashes, ReconcileBulk, CreateBulk, CancelBulk, RetryJob, CreateJob, Fault
    <2>3. \A s \in Slots : Own(s)'
      BY <1>0, <1>1, <2>1, <2>2, TaskSpares, TaskEndures, OwnKept DEF Lone
    <2> QED BY <2>1, <2>3, SoleKept
  <1>2. ASSUME NEW j \in Jobs, SweepAction(j) PROVE SoleInv'
    <2>1. exec' = exec /\ mapping' = mapping /\ faults' \in {faults, faults + 1} /\ overslept \subseteq overslept'
      BY <1>2, SweepWrites DEF site
    <2>2. \A s \in Slots : Own(s)'
      BY <1>0, <1>2, <2>1, SweepSpares, SweepEndures, OwnKept
    <2> QED BY <2>1, <2>2, SoleKept
  <1>3. ASSUME NEW w \in Workers, WorkerCrashes(w) PROVE SoleInv'
    <2>1. /\ \A s \in Slots : exec'[s] \in {exec[s], NoExec}
          /\ job' = job /\ mapping' = mapping /\ faults' = faults + 1 /\ overslept' = overslept
      BY <1>3, CrashTypes DEF site
    <2>2. \A s \in Slots : Own(s)'
      BY <1>0, <2>1, OwnKept, OwnEnds DEF Endures
    <2> QED BY <2>1, <2>2, SoleKept
  <1>4. CASE ImageChanges \/ ConnectionToggled \/ UNCHANGED vars
    <2>1. exec' = exec /\ job' = job /\ mapping' = mapping /\ faults' = faults /\ overslept' = overslept
      BY <1>4 DEF ImageChanges, ConnectionToggled, vars, site
    <2>2. \A s \in Slots : Own(s)'
      BY <1>0, <2>1, OwnKept DEF Endures
    <2> QED BY <2>1, <2>2, SoleKept
  <1> QED BY <1>1, <1>2, <1>3, <1>4, ClaimSole, ExecutionSole, NextCases DEF RowInv

LEMMA RowStep ==
  ASSUME OneAtATime, TypeInv, RowInv, SoleInv, [Next]_vars
  PROVE  RowInv'
  <1>1. ASSUME NEW p \in Tasks, TaskAction(p) PROVE RowInv'
    BY <1>1, TaskSources, TaskTodo, TaskRetries DEF RowInv
  <1>2. ASSUME bulk' = bulk, req' = req, overslept \subseteq overslept', \A j \in Jobs : WorkRow(j),
               Lasts, \A j \in Jobs : Lone(j) /\ job[j].status \in RetryableStatus => job'[j] = job[j]
        PROVE  RowInv'
    <2>1. SourcesSet'
      BY <1>2 DEF RowInv, SourcesSet, WorkRow
    <2>2. TodoNew'
      <3>1. Children \subseteq Jobs /\ \A p \in Tasks : req[p].todo \subseteq Jobs
        BY Rows, PublishAssumption DEF PublishAssumption, Task
      <3> QED BY <1>2, <3>1 DEF RowInv, TodoNew, WorkRow
    <2>3. RetriesOver'
      BY <1>2 DEF RowInv, RetriesOver, Does, Lasts, Lone
    <2> QED BY <2>1, <2>2, <2>3 DEF RowInv
  <1>3. CASE \/ \E s \in Slots, j \in Jobs : Claim(s, j)
             \/ \E j \in Jobs : SweepAction(j)
             \/ \E s \in Slots : ExecAction(s)
    <2>1. bulk' = bulk /\ req' = req /\ overslept \subseteq overslept'
      BY <1>3, ClaimTypes, SweepWrites, ExecutionSite
    <2> QED BY <1>2, <1>3, <2>1, WorkKeeps, WorkLasts, WorkKeepsOver
  <1>4. CASE \/ \E w \in Workers : WorkerCrashes(w)
             \/ ImageChanges \/ ConnectionToggled \/ UNCHANGED vars
    <2>1. bulk' = bulk /\ req' = req /\ job' = job /\ overslept' = overslept
      BY <1>4 DEF WorkerCrashes, ImageChanges, ConnectionToggled, vars
    <2> QED BY <1>2, <2>1 DEF WorkRow, Lasts
  <1> QED BY <1>1, <1>3, <1>4, NextCases

-----------------------------------------------------------------------------
(* Assets and mappings                                                     *)

LEMMA AssetKept ==
  ASSUME TypeInv, AssetInv, mapping' = mapping, made' = made, \A j \in Jobs : Quiet(j),
         overslept \subseteq overslept',
         faults' \in {faults, faults + 1},
         faults' = faults =>
           \A s \in Slots : exec[s].step \in Unrecorded =>
             exec'[s].job = exec[s].job /\ exec'[s].step \in Unrecorded
  PROVE  AssetInv'
  <1>0. faults \in Nat /\ made \in [Jobs -> Nat]
    BY BoundsFit, Rows DEF TypeInv, TypeOK
  <1>1. MapsRight'
    BY Rows, PublishAssumption DEF PublishAssumption, AssetInv, MapsRight, Quiet, Lone
  <1>2. PublishedMapped'
    BY DEF AssetInv, PublishedMapped, Quiet
  <1>3. ASSUME NEW j \in Jobs, Lone(j)' PROVE made'[j] <= faults' + Kept(j)' + Carried(j)'
    <2>1. Kept(j)' = Kept(j) /\ Kept(j) \in {0, 1}
      BY DEF Quiet, Kept
    <2>2. Carried(j) \in {0, 1} /\ Carried(j)' \in {0, 1}
      BY DEF Carried
    <2>3. made[j] <= faults + Kept(j) + Carried(j)
      BY <1>3 DEF AssetInv, MadeCounted, Lone
    <2>4. CASE faults' = faults
      <3>1. Carried(j) <= Carried(j)'
        BY <2>4 DEF Carried
      <3> QED BY <1>0, <2>1, <2>2, <2>3, <2>4, <3>1
    <2>5. CASE faults' = faults + 1
      BY <1>0, <2>1, <2>2, <2>3, <2>5
    <2> QED BY <2>4, <2>5
  <1> QED BY <1>1, <1>2, <1>3 DEF AssetInv, MadeCounted

LEMMA TaskAssets ==
  ASSUME TypeInv, RowInv, AssetInv, NEW p \in Tasks, TaskAction(p)
  PROVE  AssetInv'
  <1>1. \A j \in Jobs : Quiet(j)
    BY TaskKeeps DEF TaskRow, Quiet, Published
  <1>2. mapping' = mapping /\ made' = made /\ exec' = exec /\ overslept' = overslept
    BY TaskTypes DEF site
  <1>3. faults' \in {faults, faults + 1}
    BY DEF TaskAction, Respond, CreateChild, ChildrenCreated, ReadChildren, WriteBulk, CancelQueued,
           WriteRetry,
       RequestCrashes, ReconcileBulk, CreateBulk, CancelBulk, RetryJob, CreateJob, Fault
  <1> QED BY <1>1, <1>2, <1>3, AssetKept

LEMMA ClaimAssets ==
  ASSUME TypeInv, AssetInv, NEW s \in Slots, NEW j \in Jobs, Claim(s, j)
  PROVE  AssetInv'
  <1>1. /\ job[j] \in JobRow /\ Writes(j) /\ At(s, "idle")
        /\ job'[j] = [job[j] EXCEPT !.status = "leased", !.owner = s[1], !.attempts = @ + 1]
        /\ mapping' = mapping /\ made' = made /\ faults' = faults /\ overslept' = overslept
        /\ \A t \in Slots \ {s} : exec'[t] = exec[t]
    BY ClaimTypes, Rows DEF Claim, site
  <1>2. Quiet(j)
    BY <1>1 DEF Quiet, JobRow, Published
  <1>3. \A k \in Jobs : Quiet(k)
    BY <1>1, <1>2 DEF Writes, Quiet
  <1>4. \A t \in Slots : exec[t].step \in Unrecorded => t # s
    BY <1>1 DEF At, Unrecorded
  <1> QED BY <1>1, <1>3, <1>4, AssetKept

LEMMA SweepAssets ==
  ASSUME TypeInv, AssetInv, NEW j \in Jobs, SweepAction(j)
  PROVE  AssetInv'
  <1>1. /\ job[j] \in JobRow /\ Writes(j) /\ mapping' = mapping /\ made' = made /\ exec' = exec
        /\ faults' \in {faults, faults + 1} /\ overslept \subseteq overslept'
    BY SweepWrites, Rows DEF site
  <1>2. CASE job'[j] = [job[j] EXCEPT !.status = "queued", !.owner = None]
    <2>1. Quiet(j)
      BY <1>1, <1>2 DEF Quiet, JobRow, Published
    <2> QED BY <1>1, <2>1, AssetKept DEF Writes, Quiet
  <1>3. CASE job'[j] = [job[j] EXCEPT !.status = "stale"]
    <2>1. Quiet(j)
      BY <1>1, <1>3 DEF Quiet, JobRow, Published
    <2> QED BY <1>1, <2>1, AssetKept DEF Writes, Quiet
  <1> QED BY <1>2, <1>3, SweepWrites

\* An execution that works on a lone job would be the one to carry its unrecorded asset.
LEMMA CarriedAlone ==
  ASSUME TypeInv, SoleInv, NEW s \in Slots, Working(s), exec[s].step \notin Unrecorded, Lone(exec[s].job)
  PROVE  Carried(exec[s].job) = 0
  <1> SUFFICES ASSUME NEW t \in Slots, exec[t].job = exec[s].job, exec[t].step \in Unrecorded
               PROVE  FALSE
    BY DEF Carried
  <1>1. Holds(t) /\ Holds(s) /\ t # s
    BY DEF Holds, Working, Unrecorded
  <1> QED BY <1>1 DEF SoleInv, HoldApart

LEMMA ExecutionSetting ==
  ASSUME TypeInv, SoleInv, NEW s \in Slots, ExecAction(s)
  PROVE  /\ exec[s].job \in Jobs /\ job[exec[s].job] \in JobRow /\ exec[s] \in Execution /\ Own(s)
         /\ faults \in Nat /\ faults' \in {faults, faults + 1} /\ made \in [Jobs -> Nat]
         /\ \A t \in Slots \ {s} : exec'[t] = exec[t]
         /\ overslept' = overslept
  <1>1. exec[s].job \in Jobs /\ ExecMoves(s)
    BY ExecutionMoves
  <1>2. faults \in Nat
    BY BoundsFit DEF TypeInv, TypeOK
  <1>3. faults' \in {faults, faults + 1} /\ overslept' = overslept
    BY ExecutionSite
  <1>4. Own(s)
    BY DEF SoleInv
  <1> QED BY <1>1, <1>2, <1>3, <1>4, Rows DEF ExecMoves

LEMMA UploadAssets ==
  ASSUME TypeInv, SoleInv, AssetInv, NEW s \in Slots, UploadAsset(s)
  PROVE  AssetInv'
  <1> DEFINE j == exec[s].job
  <1>a. ExecAction(s)
    BY DEF ExecAction, Execute
  <1>b. At(s, "upload") /\ Working(s) /\ job' = job /\ mapping' = mapping
    BY DEF UploadAsset, At, Working
  <1>0. /\ j \in Jobs /\ job[j] \in JobRow /\ exec[s] \in Execution /\ At(s, "upload") /\ Working(s)
        /\ job' = job /\ mapping' = mapping /\ faults \in Nat /\ made \in [Jobs -> Nat]
        /\ overslept' = overslept
        /\ \A t \in Slots \ {s} : exec'[t] = exec[t]
    BY <1>a, <1>b, ExecutionSetting
  <1>1. (Lone(j) => Carried(j) = 0) /\ \A t \in Slots : exec[t].step \in Unrecorded => t # s
    BY <1>0, CarriedAlone DEF At, Unrecorded
  <1>2. MapsRight' /\ PublishedMapped'
    BY <1>0 DEF AssetInv, MapsRight, PublishedMapped, Lone
  <1>3. ASSUME NEW k \in Jobs PROVE Kept(k)' = Kept(k) /\ Kept(k) \in {0, 1} /\ Carried(k) \in {0, 1}
                                    /\ Carried(k)' \in {0, 1} /\ Carried(k) <= Carried(k)'
                                    /\ (Lone(k) => made[k] <= faults + Kept(k) + Carried(k))
    BY <1>0, <1>1 DEF Kept, Carried, AssetInv, MadeCounted
  <1>4. CASE /\ Made(j) /\ NoFault
             /\ exec' = [exec EXCEPT ![s].remote = made'[j],
                                    ![s].step = IF platform = "webflow" THEN "send" ELSE "record"]
    <2>1. exec'[s] = [exec[s] EXCEPT !.remote = made'[j],
                                     !.step = IF platform = "webflow" THEN "send" ELSE "record"]
      BY <1>4, Rows
    <2>2. exec'[s].job = j /\ exec'[s].step \in Unrecorded
      BY <1>0, <2>1 DEF Execution, Unrecorded
    <2>3. \A k \in Jobs : k = j => Carried(k)' = 1
      BY <2>2 DEF Carried
    <2>4. faults' = faults /\ made'[j] = made[j] + 1 /\ \A k \in Jobs \ {j} : made'[k] = made[k]
      BY <1>0, <1>4 DEF Made, NoFault
    <2>5. ASSUME NEW k \in Jobs, Lone(k) PROVE made'[k] <= faults' + Kept(k)' + Carried(k)'
      <3>1. CASE k = j
        <4>1. Carried(k) = 0 /\ Carried(k)' = 1 /\ made'[k] = made[k] + 1 /\ made[k] \in Nat
          BY <1>0, <1>1, <2>3, <2>4, <2>5, <3>1
        <4>2. made[k] <= faults + Kept(k) + Carried(k) /\ Kept(k)' = Kept(k) /\ Kept(k) \in {0, 1}
          BY <1>3, <2>5
        <4> QED BY <1>0, <2>4, <4>1, <4>2
      <3>2. CASE k # j
        BY <1>0, <1>3, <2>4, <2>5, <3>2
      <3> QED BY <3>1, <3>2
    <2> QED BY <1>0, <1>2, <2>5 DEF AssetInv, MadeCounted, Lone
  <1>5. CASE Fault("remote") /\ Made(j)
    <2>1. faults' = faults + 1 /\ made'[j] = made[j] + 1 /\ \A k \in Jobs \ {j} : made'[k] = made[k]
      BY <1>0, <1>5 DEF Made, Fault
    <2>2. ASSUME NEW k \in Jobs, Lone(k) PROVE made'[k] <= faults' + Kept(k)' + Carried(k)'
      <3>1. made[k] \in Nat /\ made'[k] <= made[k] + 1
        BY <1>0, <2>1
      <3> QED BY <1>0, <1>3, <2>1, <2>2, <3>1
    <2> QED BY <1>0, <1>2, <2>2 DEF AssetInv, MadeCounted, Lone
  <1>6. CASE Fault("remote") /\ UNCHANGED made
    BY <1>0, <1>6, AssetKept DEF Fault, Quiet
  <1> QED BY <1>4, <1>5, <1>6 DEF UploadAsset

LEMMA RecordAssets ==
  ASSUME TypeInv, SoleInv, AssetInv, NEW s \in Slots, RecordAsset(s)
  PROVE  AssetInv'
  <1> DEFINE j == exec[s].job
  <1>0. /\ j \in Jobs /\ job[j] \in JobRow /\ exec[s] \in Execution /\ At(s, "record") /\ Own(s) /\ Holds(s)
        /\ mapping' = mapping /\ faults' = faults /\ made' = made /\ faults \in Nat
        /\ made \in [Jobs -> Nat] /\ ExecAction(s) /\ overslept' = overslept
        /\ \A t \in Slots \ {s} : exec'[t] = exec[t]
    <2>1. ExecAction(s)
      BY DEF ExecAction, Execute
    <2>2. At(s, "record") /\ Holds(s) /\ mapping' = mapping /\ faults' = faults /\ made' = made
      BY DEF RecordAsset, At, Working, Holds, site
    <2> QED BY <2>1, <2>2, ExecutionSetting
  <1>1. exec[s].remote > 0 /\ (Lone(j) => job[j].remote = 0)
    BY <1>0 DEF Own, OwnRow, Job, At, Unrecorded
  <1>2. job'[j] = [job[j] EXCEPT !.remote = exec[s].remote]
    BY <1>0, Rows DEF RecordAsset
  <1>3. /\ job'[j].remote > 0 /\ job'[j].status = job[j].status /\ job'[j].source = job[j].source
        /\ \A k \in Jobs \ {j} : job'[k] = job[k]
    BY <1>0, <1>1, <1>2, ExecutionWrites DEF JobRow, Writes
  <1>4. MapsRight'
    <2>1. \A k \in Sources : Lone(j) => mapping[k].job # j
      BY <1>0, <1>1, PublishAssumption DEF PublishAssumption, AssetInv, MapsRight
    <2>2. \A k \in Sources : mapping[k].job \in Jobs \cup {None}
      BY Rows
    <2> QED BY <1>0, <1>3, <2>1, <2>2 DEF AssetInv, MapsRight, Lone
  <1>5. PublishedMapped'
    BY <1>0, <1>3 DEF AssetInv, PublishedMapped
  <1>6. ASSUME NEW k \in Jobs, Lone(k) PROVE made'[k] <= faults' + Kept(k)' + Carried(k)'
    <2>1. made[k] \in Nat /\ made[k] <= faults + Kept(k) + Carried(k) /\ Carried(k) \in {0, 1} /\ Carried(k)' \in {0, 1}
      BY <1>0, <1>6 DEF AssetInv, MadeCounted, Carried
    <2>2. CASE k = j
      <3>1. Kept(k) = 0 /\ Kept(k)' = 1
        BY <1>1, <1>3, <1>6, <2>2 DEF Kept
      <3> QED BY <1>0, <2>1, <3>1
    <2>3. CASE k # j
      <3>1. Kept(k)' = Kept(k) /\ Kept(k) \in {0, 1}
        BY <1>3, <2>3 DEF Kept
      <3>2. Carried(k) <= Carried(k)'
        BY <1>0, <2>3 DEF Carried
      <3> QED BY <1>0, <2>1, <3>1, <3>2
    <2> QED BY <2>2, <2>3
  <1> QED BY <1>0, <1>4, <1>5, <1>6 DEF AssetInv, MadeCounted, Lone

LEMMA MappingAssets ==
  ASSUME TypeInv, SourcesSet, SoleInv, AssetInv, NEW s \in Slots, WriteMapping(s)
  PROVE  AssetInv'
  <1> DEFINE j == exec[s].job
  <1>0. /\ j \in Jobs /\ exec[s] \in Execution /\ At(s, "map") /\ Own(s)
        /\ job' = job /\ faults' = faults /\ made' = made /\ faults \in Nat /\ ExecAction(s)
        /\ overslept' = overslept
        /\ \A t \in Slots \ {s} : exec'[t] = exec[t]
    <2>1. ExecAction(s)
      BY DEF ExecAction, Execute
    <2>2. At(s, "map") /\ job' = job /\ faults' = faults /\ made' = made
      BY DEF WriteMapping, At
    <2> QED BY <2>1, <2>2, ExecutionSetting
  <1>1. exec[s].remote > 0 /\ (Lone(j) => exec[s].remote = job[j].remote)
    BY <1>0 DEF Own, OwnRow, Job, At, Recorded
  <1>2. \A t \in Slots : exec[t].step \in Unrecorded => t # s
    BY <1>0 DEF At, Unrecorded
  <1>3. CASE mapping' = mapping
    BY <1>0, <1>2, <1>3, AssetKept DEF Quiet
  <1>4. CASE mapping' = [mapping EXCEPT ![Job(s).source] = [job |-> exec[s].job, remote |-> exec[s].remote]]
    <2>1. Job(s).source \in Sources /\ j # None
      BY <1>0, PublishAssumption DEF PublishAssumption, SourcesSet, TypeInv, ExecsHaveJobs, Job, At
    <2>2. /\ mapping'[Job(s).source] = [job |-> j, remote |-> exec[s].remote]
          /\ \A k \in Sources \ {Job(s).source} : mapping'[k] = mapping[k]
      BY <1>4, <2>1, Rows
    <2>3. MapsRight'
      BY <1>0, <1>1, <2>2 DEF AssetInv, MapsRight, Lone
    <2>4. PublishedMapped'
      <3>1. \A k \in Jobs : job[k].source \in Sources \/ job[k].status = "none"
        BY DEF SourcesSet
      <3>2. "none" \notin Published
        BY DEF Published
      <3> QED BY <1>0, <2>1, <2>2, <3>1, <3>2 DEF AssetInv, PublishedMapped
    <2>5. MadeCounted'
      <3> SUFFICES ASSUME NEW k \in Jobs, Lone(k) PROVE made'[k] <= faults' + Kept(k)' + Carried(k)'
        BY <1>0 DEF MadeCounted, Lone
      <3>1. Kept(k)' = Kept(k) /\ Kept(k) \in {0, 1} /\ Carried(k) \in {0, 1} /\ Carried(k)' \in {0, 1}
        BY <1>0 DEF Kept, Carried
      <3>2. Carried(k) <= Carried(k)'
        BY <1>0, <1>2 DEF Carried
      <3>3. made[k] \in Nat /\ made[k] <= faults + Kept(k) + Carried(k)
        BY Rows DEF AssetInv, MadeCounted
      <3> QED BY <1>0, <3>1, <3>2, <3>3
    <2> QED BY <2>3, <2>4, <2>5 DEF AssetInv
  <1> QED BY <1>3, <1>4 DEF WriteMapping

LEMMA FinishAssets ==
  ASSUME TypeInv, SoleInv, AssetInv, NEW s \in Slots, Finish(s)
  PROVE  AssetInv'
  <1> DEFINE j == exec[s].job
             st == IF exec[s].soft THEN "partially_completed" ELSE "completed"
  <1>0. /\ j \in Jobs /\ job[j] \in JobRow /\ At(s, "finish") /\ Own(s)
        /\ mapping' = mapping /\ made' = made /\ faults \in Nat /\ ExecAction(s)
        /\ faults' \in {faults, faults + 1} /\ overslept' = overslept
        /\ \A t \in Slots \ {s} : exec'[t] = exec[t]
    <2>1. ExecAction(s)
      BY DEF ExecAction, Execute
    <2>2. At(s, "finish") /\ mapping' = mapping /\ made' = made
      BY DEF Finish, At, site
    <2> QED BY <2>1, <2>2, ExecutionSetting
  <1>1. job[j].remote > 0 /\ mapping[job[j].source].job # None
    BY <1>0 DEF Own, Job, At, Recorded
  <1>2. \A t \in Slots : exec[t].step \in Unrecorded => t # s
    BY <1>0 DEF At, Unrecorded
  <1>3. Writes(j) /\ job'[j] = [job[j] EXCEPT !.status = st, !.owner = None]
    BY <1>0, ReleaseWrites DEF Finish, JobStatus, Terminal, RetryableStatus
  <1>4. job'[j].remote = job[j].remote /\ job'[j].source = job[j].source /\ \A k \in Jobs \ {j} : job'[k] = job[k]
    BY <1>0, <1>3 DEF JobRow, Writes
  <1>5. \A k \in Jobs : job'[k].remote = job[k].remote
    BY <1>4
  <1>6. MapsRight'
    BY <1>0, <1>5, Rows DEF AssetInv, MapsRight, Lone
  <1>7. PublishedMapped'
    BY <1>0, <1>1, <1>4 DEF AssetInv, PublishedMapped
  <1>8. ASSUME NEW k \in Jobs, Lone(k) PROVE made'[k] <= faults' + Kept(k)' + Carried(k)'
    <2>1. Kept(k)' = Kept(k) /\ Kept(k) \in {0, 1} /\ Carried(k) \in {0, 1} /\ Carried(k)' \in {0, 1}
      BY <1>5 DEF Kept, Carried
    <2>2. Carried(k) <= Carried(k)'
      BY <1>0, <1>2 DEF Carried
    <2>3. made[k] \in Nat /\ made[k] <= faults + Kept(k) + Carried(k)
      BY <1>8, Rows DEF AssetInv, MadeCounted
    <2> QED BY <1>0, <2>1, <2>2, <2>3
  <1> QED BY <1>0, <1>6, <1>7, <1>8 DEF AssetInv, MadeCounted, Lone

LEMMA ExecutionAssets ==
  ASSUME TypeInv, RowInv, SoleInv, AssetInv, NEW s \in Slots, ExecAction(s)
  PROVE  AssetInv'
  <1>1. CASE UploadAsset(s) \/ RecordAsset(s) \/ WriteMapping(s) \/ Finish(s)
    BY <1>1, UploadAssets, RecordAssets, MappingAssets, FinishAssets DEF RowInv
  <1>2. CASE ~UploadAsset(s) /\ ~RecordAsset(s) /\ ~WriteMapping(s) /\ ~Finish(s)
    <2>1. mapping' = mapping /\ made' = made
      BY <1>2 DEF ExecAction, Execute, Begin, Enter, CheckFreshness, SourceGone, SendBytes, InspectAsset,
         Call, FindMapping, HandleFailure, StatementFails, ExecutionLost, site
    <2>2. \A j \in Jobs : Quiet(j)
      BY <1>2, ExecutionQuiet
    <2>3. ASSUME faults' = faults, exec[s].step \in Unrecorded
          PROVE  exec'[s].job = exec[s].job /\ exec'[s].step \in Unrecorded
      <3>1. ASSUME NEW step \in {"inspect", "record"}, Go(s, step)
            PROVE  exec'[s].job = exec[s].job /\ exec'[s].step \in Unrecorded
        <4>1. step \in Steps /\ step \in Unrecorded
          BY DEF Steps, Unrecorded
        <4>2. exec'[s] = [exec[s] EXCEPT !.step = step]
          BY <3>1, <4>1, GoMoves
        <4> QED BY <4>1, <4>2, Rows DEF Execution
      <3>2. faults + 1 # faults
        BY BoundsFit DEF TypeInv, TypeOK
      <3> QED BY <1>2, <2>3, <3>1, <3>2
              DEF ExecAction, Execute, Begin, Enter, CheckFreshness, SourceGone, SendBytes, InspectAsset,
         Call, FindMapping, HandleFailure, StatementFails, ExecutionLost, Statements, At, Unrecorded, Fault
    <2> QED BY <2>1, <2>2, <2>3, AssetKept, ExecutionSetting
  <1> QED BY <1>1, <1>2

LEMMA AssetStep ==
  ASSUME TypeInv, RowInv, SoleInv, AssetInv, [Next]_vars
  PROVE  AssetInv'
  <1>1. ASSUME NEW w \in Workers, WorkerCrashes(w) PROVE AssetInv'
    <2>1. /\ job' = job /\ mapping' = mapping /\ made' = made /\ overslept' = overslept
          /\ faults' = faults + 1 /\ faults + 1 # faults
      BY <1>1, CrashTypes, BoundsFit DEF site, TypeInv, TypeOK
    <2> QED BY <2>1, AssetKept DEF Quiet
  <1>2. CASE ImageChanges \/ ConnectionToggled \/ UNCHANGED vars
    <2>1. /\ job' = job /\ mapping' = mapping /\ made' = made /\ faults' = faults /\ exec' = exec
          /\ overslept' = overslept
      BY <1>2 DEF ImageChanges, ConnectionToggled, vars, site
    <2> QED BY <2>1, AssetKept DEF Quiet
  <1> QED BY <1>1, <1>2, TaskAssets, ClaimAssets, SweepAssets, ExecutionAssets, NextCases

LEMMA PublishInvHolds == OneAtATime /\ Spec => []PublishInv
  <1>1. OneAtATime /\ PublishInv /\ [Next]_vars => PublishInv'
    BY TypeStep, RowStep, SoleStep, AssetStep DEF PublishInv
  <1>2. ASSUME OneAtATime PROVE Spec => []PublishInv
    <2>1. PublishInv /\ [Next]_vars => PublishInv'
      BY <1>1, <1>2
    <2> QED BY <2>1, PublishInit, PTL DEF Spec
  <1> QED BY <1>2

\* No two executions of a job work at the same time, and none works on a job that
\* is queued again or over, unless its lease once expired between an execution's
\* read of the row and its first write, when requests come one at a time, no lease
\* of a worker with several slots expires, and a failed remote call and a failed
\* audit entry are not both to be had: the unconditional writes of the saga have
\* one writer.
THEOREM SoleExecutionHolds == OneAtATime /\ Spec => []SoleExecution
  <1>1. PublishInv => SoleExecution
    <2> SUFFICES ASSUME PublishInv, NEW s \in Slots, Working(s), exec[s].job \notin overslept
                 PROVE  Job(s).status \in {"leased"} \cup TransferStatus /\ Alone(s)
      BY DEF SoleExecution
    <2>1. Holds(s) /\ Job(s).status \in WorkStatus
      BY DEF PublishInv, SoleInv, Own, OwnRow, Holds, Lone
    <2>2. Alone(s)
      BY DEF PublishInv, SoleInv, HoldApart, Holds, Lone, Alone
    <2> QED BY <2>1, <2>2 DEF WorkStatus
  <1> QED BY <1>1, PublishInvHolds, PTL

\* A published job has an asset and its source is mapped, and a mapping names the
\* asset that its job records, with the same exception and under the same conditions.
THEOREM MappingsAgreeHolds == OneAtATime /\ Spec => []MappingsAgree
  <1>1. PublishInv => MappingsAgree
    BY DEF PublishInv, AssetInv, PublishedMapped, MapsRight, MappingsAgree, Published, Lone
  <1> QED BY <1>1, PublishInvHolds, PTL

Carriers(j) == {s \in Slots : exec[s].job = j /\ exec[s].step \in Unrecorded}

\* While no lease has expired between an execution's read of the row and its first
\* write, every asset the site has beyond the one its job records is the work of a
\* fault or of an execution that is about to record it, under the same conditions:
\* no retry uploads again an asset that was recorded.
THEOREM DuplicatesExplainedHolds == OneAtATime /\ Spec => [](overslept = {} => DuplicatesExplained)
  <1>1. ASSUME PublishInv, overslept = {} PROVE DuplicatesExplained
    <2> SUFFICES ASSUME NEW j \in Jobs PROVE made[j] - Kept(j) <= faults + Cardinality(Carriers(j))
      BY DEF DuplicatesExplained, Kept, Carriers, Unrecorded
    <2>1. /\ made[j] \in Nat /\ faults \in Nat /\ Kept(j) \in {0, 1}
          /\ made[j] <= faults + Kept(j) + Carried(j)
      BY <1>1, Rows, BoundsFit DEF PublishInv, TypeInv, TypeOK, Kept, AssetInv, MadeCounted, Lone
    <2>2. CASE Carriers(j) = {}
      <3>1. Cardinality(Carriers(j)) = 0 /\ Carried(j) = 0
        BY <2>2, FS_EmptySet DEF Carriers, Carried
      <3> QED BY <2>1, <3>1
    <2>3. CASE Carriers(j) # {}
      <3>1. PICK s \in Slots : s \in Carriers(j)
        BY <2>3 DEF Carriers
      <3>2. \A t \in Carriers(j) : Holds(t)
        BY DEF Carriers, Holds, Working, Unrecorded
      <3>3. Carriers(j) = {s}
        BY <1>1, <3>1, <3>2 DEF PublishInv, SoleInv, HoldApart, Carriers, Lone
      <3>4. Cardinality(Carriers(j)) = 1 /\ Carried(j) = 1
        BY <3>1, <3>3, FS_Singleton DEF Carriers, Carried
      <3> QED BY <2>1, <3>4
    <2> QED BY <2>2, <2>3
  <1>2. PublishInv => (overslept = {} => DuplicatesExplained)
    BY <1>1
  <1> QED BY <1>2, PublishInvHolds, PTL
=============================================================================
