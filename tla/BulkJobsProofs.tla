---------------------------- MODULE BulkJobsProofs ----------------------------
(***************************************************************************)
(* BulkJobs: the items of one bulk job and the child jobs under them, for  *)
(* any number of images, workers and scripts.                              *)
(***************************************************************************)
EXTENDS BulkJobs, FiniteSetTheorems, TLAPS

-----------------------------------------------------------------------------
(* The steps, by who takes them *)

RequestAction(r) ==
  \/ CreateBulk(r) \/ InsertItems(r) \/ QueueBulk(r) \/ StartRun(r) \/ SelectPending(r) \/ FinishRun(r)
  \/ RequestCancel(r) \/ CancelPending(r) \/ ResetFailed(r) \/ RequeueBulk(r) \/ CrashRequest(r)

FlowAction(r, i) ==
  \/ CheckCancelled(r, i) \/ AcquireItem(r, i) \/ CreateChild(r, i) \/ InsertChild(r, i)
  \/ RequeueChild(r, i) \/ SettleItem(r, i) \/ LoseImage(r, i) \/ StaleJobs(r, i) \/ InvalidateItem(r, i)

ChildAction(i) == UserCancelsChild(i) \/ UserRetriesChild(i) \/ RecoverLease(i)

WorkerAction(w) ==
  ReportChild(w) \/ CrashWorker(w) \/ \E i \in Images : ClaimChild(w, i) \/ FinishChild(w, i)

-----------------------------------------------------------------------------
(* Types *)

CountRange == [CountNames -> 0 .. Cardinality(Images)]
RecountType == [step : {"none", "read", "write"}, counts : CountRange, cancel : BOOLEAN]

\* What the counters of a recount in progress and the reports of an
\* execution that has ended can be.
TypeInv ==
  /\ TypeOK
  /\ rc \in [Tasks -> RecountType]
  /\ \A w \in Workers : at[w] = "report" => work[w].report \in {"completed", "failed"}

LEMMA ImagesCounted ==
  /\ Cardinality(Images) \in Nat
  /\ \A S \in SUBSET Images : Cardinality(S) \in 0 .. Cardinality(Images)
  <1>1. IsFiniteSet(Images)
    BY BulkAssumption DEF BulkAssumption
  <1>2. Cardinality(Images) \in Nat
    BY <1>1, FS_CardinalityType
  <1>3. ASSUME NEW S \in SUBSET Images PROVE Cardinality(S) \in 0 .. Cardinality(Images)
    BY <1>1, <1>2, <1>3, FS_Subset, FS_CardinalityType
  <1> QED BY <1>2, <1>3

LEMMA CountsInRange ==
  ASSUME NEW S \in {{}, Images}, NEW it \in [S -> ItemStatus]
  PROVE  Counts(it) \in CountRange
  <1>1. \A c \in CountNames :
          {i \in DOMAIN it : it[i] = c \/ (c = "cancelled" /\ it[i] = "stale")} \in SUBSET Images
    OBVIOUS
  <1> QED BY <1>1, ImagesCounted DEF Counts, CountRange

LEMMA ZeroInRange == Zero \in CountRange
  BY ImagesCounted DEF Zero, CountRange

LEMMA FinalizedIsStatus ==
  ASSUME NEW c, NEW total, NEW cancelled
  PROVE  FinalizeBulkStatus(c, total, cancelled) \in BulkStatus \ {"none"}
  BY DEF FinalizeBulkStatus, BulkStatus, BulkTerminal

LEMMA TypeInit == Init => TypeInv
  <1> SUFFICES ASSUME Init PROVE TypeInv
    OBVIOUS
  <1>1. item \in [{} -> ItemStatus]
    BY DEF Init
  <1>2. rc \in [Tasks -> RecountType]
    BY ZeroInRange DEF Init, Recount0, RecountType
  <1>3. \A w \in Workers : at[w] = "idle"
    BY DEF Init, Tasks
  <1>4. bulk \in [status : BulkStatus, counts : CountRange, cancel : BOOLEAN]
    BY ZeroInRange DEF Init, BulkStatus
  <1>5. work \in [Workers -> [image : Images \cup {None}, report : {"none", "completed", "failed"}]]
    BY DEF Init, Idle0
  <1>6. /\ attempts \in [Images -> 0 .. MaxAttempts] /\ ops \in 0 .. MaxOps /\ faults \in 0 .. MaxFaults
    BY BulkAssumption DEF BulkAssumption, Init
  <1>7. /\ aged \in BOOLEAN /\ quiet \in BOOLEAN /\ linked \in [Images -> BOOLEAN] /\ ready \in [Images -> BOOLEAN]
        /\ job \in [Images -> JobStatus] /\ owner \in [Images -> Workers \cup {None}]
        /\ DOMAIN at = Tasks /\ DOMAIN rc = Tasks /\ seen \in [Flows -> BOOLEAN]
    BY DEF Init, JobStatus
  <1> QED BY <1>1, <1>2, <1>3, <1>4, <1>5, <1>6, <1>7 DEF TypeInv, TypeOK, CountRange

\* Next without its groups: what a step can be.
LEMMA NextCases ==
  ASSUME [Next]_vars
  PROVE  \/ \E t \in Tasks : RecountRead(t) \/ RecountWrite(t)
         \/ \E r \in Requests : RequestAction(r)
         \/ \E r \in Requests, i \in Images : FlowAction(r, i)
         \/ \E i \in Images : ChildAction(i)
         \/ \E w \in Workers : WorkerAction(w)
         \/ Age
         \/ \E k \in Reconcilers : Reconcile(k)
         \/ UNCHANGED vars
  BY DEF Next, Recount, RequestStep, RequestAction, FlowStep, FlowAction, ChildAction, WorkerAction

ItemsAreTyped == \E S \in {{}, Images} : item \in [S -> ItemStatus]

LEMMA ItemsTyped ==
  ASSUME TypeInv, [Next]_vars
  PROVE  ItemsAreTyped'
  <1>0. ItemsAreTyped
    BY DEF TypeInv, TypeOK, ItemsAreTyped
  <1>1. ASSUME NEW S, NEW s \in ItemStatus, SetItems(S, s) PROVE ItemsAreTyped'
    BY <1>0, <1>1 DEF SetItems, Items, ItemsAreTyped
  <1>2. ASSUME NEW r \in Requests, InsertItems(r) PROVE ItemsAreTyped'
    BY <1>2 DEF InsertItems, ItemStatus, ItemsAreTyped
  <1>3. ASSUME NEW r \in Requests, RequestAction(r) PROVE item' = item \/ ItemsAreTyped'
    BY <1>1, <1>2, <1>3 DEF RequestAction, CreateBulk, QueueBulk, StartRun, SelectPending,
       FinishRun, RequestCancel, CancelPending, ResetFailed, RequeueBulk, CrashRequest, rows, ItemStatus
  <1>4. ASSUME NEW r \in Requests, NEW i \in Images, FlowAction(r, i) PROVE item' = item \/ ItemsAreTyped'
    <2>1. at[<<r, i>>] \in DOMAIN Outcome => Outcome[at[<<r, i>>]] \in ItemStatus
      BY DEF Outcome, ItemStatus
    <2> QED BY <1>1, <1>4, <2>1 DEF FlowAction, CheckCancelled, AcquireItem, CreateChild, InsertChild,
       RequeueChild, SettleItem, LoseImage, StaleJobs, InvalidateItem, rows, ItemStatus
  <1>5. ASSUME NEW w \in Workers, WorkerAction(w) PROVE item' = item \/ ItemsAreTyped'
    <2>1. at[w] = "report" => work[w].report \in ItemStatus
      BY DEF TypeInv, ItemStatus
    <2> QED BY <1>1, <1>5, <2>1 DEF WorkerAction, ReportChild, CrashWorker, ClaimChild, FinishChild, rows
  <1>6. ASSUME NEW k \in Reconcilers, Reconcile(k) PROVE item' = item \/ ItemsAreTyped'
    <2>1. "failed" \in ItemStatus
      BY DEF ItemStatus
    <2> QED BY <1>1, <1>6, <2>1 DEF Reconcile, ReconcileRow, ReconcileItems, ReconcileVerdict, rows
  <1>7. item' = item => ItemsAreTyped'
    BY <1>0 DEF ItemsAreTyped
  <1>8. ASSUME NEW i \in Images, ChildAction(i) PROVE item' = item
    BY <1>8 DEF ChildAction, UserCancelsChild, UserRetriesChild, RecoverLease, rows
  <1> QED BY <1>3, <1>4, <1>5, <1>6, <1>7, <1>8, NextCases DEF RecountRead, RecountWrite, Age, vars, rows

LEMMA BulkTyped ==
  ASSUME TypeInv, [Next]_vars
  PROVE  /\ bulk' \in [status : BulkStatus, counts : CountRange, cancel : BOOLEAN]
         /\ aged' \in BOOLEAN
  <1> DEFINE Row == [status : BulkStatus, counts : CountRange, cancel : BOOLEAN]
  <1>0. bulk \in Row /\ aged \in BOOLEAN
    BY DEF TypeInv, TypeOK, CountRange
  <1>1. ASSUME NEW b \in Row, WriteBulk(b) PROVE bulk' \in Row /\ aged' \in BOOLEAN
    BY <1>1 DEF WriteBulk
  <1>2. ASSUME NEW st \in BulkStatus, WriteBulk([bulk EXCEPT !.status = st])
        PROVE  bulk' \in Row /\ aged' \in BOOLEAN
    BY <1>0, <1>1, <1>2
  <1>3. ASSUME NEW t \in Tasks, RecountWrite(t) PROVE bulk' \in Row /\ aged' \in BOOLEAN
    BY <1>0, <1>1, <1>3, FinalizedIsStatus DEF RecountWrite, TypeInv, RecountType
  <1>4. ASSUME NEW r \in Requests, CreateBulk(r) PROVE bulk' \in Row /\ aged' \in BOOLEAN
    <2> DEFINE ok == {i \in Images : ready[i]}
               c == [Zero EXCEPT !["pending"] = Cardinality(ok), !["skipped"] = Cardinality(Images \ ok)]
    <2>1. c \in CountRange
      BY ZeroInRange, ImagesCounted DEF CountRange
    <2>2. WriteBulk([bulk EXCEPT !.status = "validating", !.counts = c])
      BY <1>4 DEF CreateBulk
    <2>3. [bulk EXCEPT !.status = "validating", !.counts = c] \in Row
      BY <1>0, <2>1 DEF BulkStatus
    <2> QED BY <1>1, <2>2, <2>3
  <1>5. ASSUME NEW r \in Requests, RequestCancel(r) \/ RequeueBulk(r) PROVE bulk' \in Row /\ aged' \in BOOLEAN
    BY <1>0, <1>1, <1>5 DEF RequestCancel, RequeueBulk, BulkStatus
  <1>6. ASSUME NEW r \in Requests, QueueBulk(r) \/ StartRun(r) PROVE bulk' \in Row /\ aged' \in BOOLEAN
    BY <1>0, <1>2, <1>6 DEF QueueBulk, StartRun, BulkStatus
  <1>7. ASSUME NEW r \in Requests, RequestAction(r), ~CreateBulk(r), ~RequestCancel(r), ~RequeueBulk(r),
               ~QueueBulk(r), ~StartRun(r)
        PROVE  UNCHANGED <<bulk, aged>>
    BY <1>7 DEF RequestAction, CreateBulk, InsertItems, QueueBulk, StartRun, SelectPending,
       FinishRun, RequestCancel, CancelPending, ResetFailed, RequeueBulk, CrashRequest, rows
  <1>8. ASSUME NEW r \in Requests, NEW i \in Images, FlowAction(r, i) PROVE UNCHANGED <<bulk, aged>>
    BY <1>8 DEF FlowAction, CheckCancelled, AcquireItem, CreateChild, InsertChild,
       RequeueChild, SettleItem, LoseImage, StaleJobs, InvalidateItem, rows
  <1>9. ASSUME NEW w \in Workers, WorkerAction(w) PROVE UNCHANGED <<bulk, aged>>
    BY <1>9 DEF WorkerAction, ReportChild, CrashWorker, ClaimChild, FinishChild, rows
  <1>10. ASSUME NEW i \in Images, ChildAction(i) PROVE UNCHANGED <<bulk, aged>>
    BY <1>10 DEF ChildAction, UserCancelsChild, UserRetriesChild, RecoverLease, rows
  <1>11. ASSUME NEW k \in Reconcilers, Reconcile(k) PROVE UNCHANGED <<bulk, aged>>
    BY <1>11 DEF Reconcile, ReconcileRow, ReconcileItems, ReconcileVerdict, rows
  <1> QED BY <1>0, <1>3, <1>4, <1>5, <1>6, <1>7, <1>8, <1>9, <1>10, <1>11, NextCases DEF RecountRead, Age, vars, rows

LEMMA ChildrenTyped ==
  ASSUME TypeInv, [Next]_vars
  PROVE  /\ linked' \in [Images -> BOOLEAN] /\ ready' \in [Images -> BOOLEAN]
         /\ job' \in [Images -> JobStatus]
         /\ owner' \in [Images -> Workers \cup {None}]
         /\ attempts' \in [Images -> 0 .. MaxAttempts]
         /\ seen' \in [Flows -> BOOLEAN]
  <1> DEFINE Typed == /\ linked' \in [Images -> BOOLEAN] /\ ready' \in [Images -> BOOLEAN]
                      /\ job' \in [Images -> JobStatus]
                      /\ owner' \in [Images -> Workers \cup {None}]
                      /\ attempts' \in [Images -> 0 .. MaxAttempts]
                      /\ seen' \in [Flows -> BOOLEAN]
  <1>0. /\ linked \in [Images -> BOOLEAN] /\ ready \in [Images -> BOOLEAN]
        /\ job \in [Images -> JobStatus]
        /\ owner \in [Images -> Workers \cup {None}]
        /\ attempts \in [Images -> 0 .. MaxAttempts]
        /\ seen \in [Flows -> BOOLEAN]
    BY DEF TypeInv, TypeOK
  <1>1. ASSUME NEW r \in Requests, RequestAction(r) PROVE Typed
    <2>1. UNCHANGED <<linked, jobs>>
      BY <1>1 DEF RequestAction, CreateBulk, InsertItems, QueueBulk, StartRun, SelectPending,
       FinishRun, RequestCancel, CancelPending, ResetFailed, RequeueBulk, CrashRequest, rows, jobs
    <2>2. seen' \in [Flows -> BOOLEAN]
      BY ZenonT(60), <1>0, <1>1 DEF RequestAction, CreateBulk, InsertItems, QueueBulk, StartRun, SelectPending,
       FinishRun, RequestCancel, CancelPending, ResetFailed, RequeueBulk, CrashRequest, Flows
    <2> QED BY <1>0, <2>1, <2>2 DEF jobs
  <1>2. ASSUME NEW r \in Requests, NEW i \in Images, FlowAction(r, i) PROVE Typed
    <2>1. UNCHANGED attempts
      BY <1>2 DEF FlowAction, CheckCancelled, AcquireItem, CreateChild, InsertChild,
       RequeueChild, SettleItem, LoseImage, StaleJobs, InvalidateItem, jobs
    <2>2. linked' \in [Images -> BOOLEAN] /\ ready' \in [Images -> BOOLEAN]
      BY <1>0, <1>2 DEF FlowAction, CheckCancelled, AcquireItem, CreateChild, InsertChild,
       RequeueChild, SettleItem, LoseImage, StaleJobs, InvalidateItem, rows, jobs
    <2>3. job' \in [Images -> JobStatus]
      BY <1>0, <1>2 DEF FlowAction, CheckCancelled, AcquireItem, CreateChild, InsertChild,
       RequeueChild, SettleItem, LoseImage, StaleJobs, InvalidateItem, jobs, JobStatus
    <2>4. owner' \in [Images -> Workers \cup {None}]
      BY <1>0, <1>2 DEF FlowAction, CheckCancelled, AcquireItem, CreateChild, InsertChild,
       RequeueChild, SettleItem, LoseImage, StaleJobs, InvalidateItem, jobs
    <2>5. seen' \in [Flows -> BOOLEAN]
      BY <1>0, <1>2 DEF FlowAction, CheckCancelled, AcquireItem, CreateChild, InsertChild,
       RequeueChild, SettleItem, LoseImage, StaleJobs, InvalidateItem
    <2> QED BY <1>0, <2>1, <2>2, <2>3, <2>4, <2>5
  <1>3. ASSUME NEW i \in Images, ChildAction(i) PROVE Typed
    BY <1>0, <1>3 DEF ChildAction, UserCancelsChild, UserRetriesChild, RecoverLease, rows, JobStatus
  <1>4. ASSUME NEW w \in Workers, WorkerAction(w) PROVE Typed
    <2>1. UNCHANGED <<linked, ready, seen>>
      BY <1>4 DEF WorkerAction, ReportChild, CrashWorker, ClaimChild, FinishChild, rows, jobs
    <2>2. job' \in [Images -> JobStatus] /\ owner' \in [Images -> Workers \cup {None}]
      BY <1>0, <1>4 DEF WorkerAction, ReportChild, CrashWorker, ClaimChild, FinishChild, jobs, JobStatus
    <2>3. attempts' \in [Images -> 0 .. MaxAttempts]
      BY <1>0, <1>4, BulkAssumption DEF BulkAssumption, WorkerAction, ReportChild, CrashWorker, ClaimChild, FinishChild, jobs
    <2> QED BY <1>0, <2>1, <2>2, <2>3
  <1>5. ASSUME UNCHANGED <<linked, jobs, seen>> PROVE Typed
    BY <1>0, <1>5 DEF jobs
  <1>6. ASSUME NEW k \in Reconcilers, Reconcile(k) PROVE UNCHANGED <<linked, jobs, seen>>
    BY <1>6 DEF Reconcile, ReconcileRow, ReconcileItems, ReconcileVerdict, rows
  <1> QED BY <1>1, <1>2, <1>3, <1>4, <1>5, <1>6, NextCases DEF RecountRead, RecountWrite, Age, vars, rows

LEMMA RecountsTyped ==
  ASSUME TypeInv, [Next]_vars
  PROVE  DOMAIN at' = Tasks /\ rc' \in [Tasks -> RecountType]
  <1>0. DOMAIN at = Tasks /\ rc \in [Tasks -> RecountType]
    BY DEF TypeInv, TypeOK
  <1>1. ASSUME NEW t \in Tasks, BeginRecount(t) PROVE rc' \in [Tasks -> RecountType]
    BY <1>0, <1>1 DEF BeginRecount, RecountType
  <1>2. ASSUME NEW t, NEW pc, Goto(t, pc) PROVE DOMAIN at' = Tasks
    BY <1>0, <1>2 DEF Goto
  <1>3. ASSUME NEW S, Die(S) PROVE DOMAIN at' = Tasks /\ rc' \in [Tasks -> RecountType]
    BY <1>0, <1>3, ZeroInRange DEF Die, Recount0, RecountType
  <1>4. ASSUME NEW r \in Requests, RequestAction(r) PROVE DOMAIN at' = Tasks /\ rc' \in [Tasks -> RecountType]
    <2>1. r \in Tasks
      BY DEF Tasks
    <2>2. CASE SelectPending(r)
      BY <1>0, <2>2 DEF SelectPending
    <2> QED BY <1>0, <1>1, <1>2, <1>3, <1>4, <2>1, <2>2 DEF RequestAction, CreateBulk, InsertItems, QueueBulk, StartRun,
       FinishRun, RequestCancel, CancelPending, ResetFailed, RequeueBulk, CrashRequest
  <1>5. ASSUME NEW r \in Requests, NEW i \in Images, FlowAction(r, i)
        PROVE  DOMAIN at' = Tasks /\ rc' \in [Tasks -> RecountType]
    <2>1. <<r, i>> \in Tasks
      BY DEF Tasks, Flows
    <2> QED BY <1>0, <1>1, <1>2, <1>5, <2>1 DEF FlowAction, CheckCancelled, AcquireItem, CreateChild, InsertChild,
       RequeueChild, SettleItem, LoseImage, StaleJobs, InvalidateItem, NoRecount
  <1>6. ASSUME NEW w \in Workers, WorkerAction(w) PROVE DOMAIN at' = Tasks /\ rc' \in [Tasks -> RecountType]
    <2>1. w \in Tasks
      BY DEF Tasks
    <2> QED BY <1>0, <1>1, <1>2, <1>3, <1>6, <2>1 DEF WorkerAction, ReportChild, CrashWorker, ClaimChild, FinishChild, NoRecount
  <1>7. ASSUME NEW k \in Reconcilers, Reconcile(k) PROVE DOMAIN at' = Tasks /\ rc' \in [Tasks -> RecountType]
    <2>1. k \in Tasks
      BY DEF Tasks
    <2> QED BY <1>0, <1>1, <1>2, <1>7, <2>1 DEF Reconcile, ReconcileRow, ReconcileItems, ReconcileVerdict, NoRecount
  <1>8. ASSUME NEW t \in Tasks, RecountRead(t) \/ RecountWrite(t)
        PROVE  DOMAIN at' = Tasks /\ rc' \in [Tasks -> RecountType]
    <2>1. Counts(item) \in CountRange /\ bulk.cancel \in BOOLEAN
      BY CountsInRange DEF TypeInv, TypeOK
    <2>2. Recount0 \in RecountType
      BY ZeroInRange DEF Recount0, RecountType
    <2>3. [step |-> "write", counts |-> Counts(item), cancel |-> bulk.cancel] \in RecountType
      BY <2>1 DEF RecountType
    <2> QED BY <1>0, <1>8, <2>2, <2>3 DEF RecountRead, RecountWrite
  <1>9. ASSUME NEW i \in Images, ChildAction(i) PROVE UNCHANGED <<at, rc>>
    BY <1>9 DEF ChildAction, UserCancelsChild, UserRetriesChild, RecoverLease
  <1> QED BY <1>0, <1>4, <1>5, <1>6, <1>7, <1>8, <1>9, NextCases DEF Age, vars

LEMMA WorkTyped ==
  ASSUME TypeInv, [Next]_vars
  PROVE  /\ work' \in [Workers -> [image : Images \cup {None}, report : {"none", "completed", "failed"}]]
         /\ \A w \in Workers : at'[w] = "report" => work'[w].report \in {"completed", "failed"}
  <1>0. /\ work \in [Workers -> [image : Images \cup {None}, report : {"none", "completed", "failed"}]]
        /\ \A w \in Workers : at[w] = "report" => work[w].report \in {"completed", "failed"}
        /\ DOMAIN at = Tasks
    BY DEF TypeInv, TypeOK
  <1>1. ASSUME NEW w \in Workers, WorkerAction(w)
        PROVE  /\ work' \in [Workers -> [image : Images \cup {None}, report : {"none", "completed", "failed"}]]
               /\ at'[w] = "report" => work'[w].report \in {"completed", "failed"}
               /\ \A v \in Workers \ {w} : at'[v] = at[v] /\ work'[v] = work[v]
    <2>1. \A v \in Workers : v \in Tasks
      BY DEF Tasks
    <2>2. work' \in [Workers -> [image : Images \cup {None}, report : {"none", "completed", "failed"}]]
      BY <1>0, <1>1 DEF WorkerAction, ReportChild, CrashWorker, ClaimChild, FinishChild, Idle0
    <2>3. at'[w] = "report" => work'[w].report \in {"completed", "failed"}
      BY <1>0, <1>1, <2>1 DEF WorkerAction, ReportChild, CrashWorker, ClaimChild, FinishChild, Goto, Die
    <2>4. \A v \in Workers \ {w} : at'[v] = at[v] /\ work'[v] = work[v]
      BY <1>0, <1>1, <2>1 DEF WorkerAction, ReportChild, CrashWorker, ClaimChild, FinishChild, Goto, Die
    <2> QED BY <2>2, <2>3, <2>4
  <1>2. ASSUME NEW r \in Requests, RequestAction(r) \/ \E i \in Images : FlowAction(r, i)
        PROVE  work' = work /\ \A w \in Workers : at'[w] = at[w]
    <2>1. \A w \in Workers : w \in Tasks /\ w # r /\ w \notin {r} \X Images
      BY BulkAssumption DEF BulkAssumption, Tasks
    <2>2. CASE RequestAction(r)
      <3>1. work' = work
        BY <2>2 DEF RequestAction, CreateBulk, InsertItems, QueueBulk, StartRun, SelectPending,
       FinishRun, RequestCancel, CancelPending, ResetFailed, RequeueBulk, CrashRequest
      <3>2. ASSUME NEW pc, Goto(r, pc) PROVE \A w \in Workers : at'[w] = at[w]
        BY <1>0, <2>1, <3>2 DEF Goto
      <3>3. CASE SelectPending(r) \/ CrashRequest(r)
        <4>1. PendingItems \subseteq Images
          BY DEF PendingItems, Items, TypeInv, TypeOK
        <4>2. \A w \in Workers : w \notin {r} \X PendingItems
          BY <2>1, <4>1
        <4>3. CASE SelectPending(r)
          BY <1>0, <2>1, <4>2, <4>3 DEF SelectPending
        <4>4. CASE CrashRequest(r)
          BY <1>0, <2>1, <4>4 DEF CrashRequest, Die
        <4> QED BY <3>3, <4>3, <4>4
      <3>4. CASE ~SelectPending(r) /\ ~CrashRequest(r)
        BY <2>2, <3>2, <3>4 DEF RequestAction, CreateBulk, InsertItems, QueueBulk, StartRun, SelectPending,
       FinishRun, RequestCancel, CancelPending, ResetFailed, RequeueBulk, CrashRequest
      <3> QED BY <3>1, <3>3, <3>4
    <2>3. ASSUME NEW i \in Images, FlowAction(r, i) PROVE work' = work /\ \A w \in Workers : at'[w] = at[w]
      <3>1. \A w \in Workers : w # <<r, i>>
        BY <2>1
      <3> QED BY <1>0, <2>1, <2>3, <3>1 DEF FlowAction, CheckCancelled, AcquireItem, CreateChild, InsertChild,
       RequeueChild, SettleItem, LoseImage, StaleJobs, InvalidateItem, Goto
    <2> QED BY <1>2, <2>2, <2>3
  <1>3. ASSUME NEW k \in Reconcilers, Reconcile(k)
        PROVE  work' = work /\ \A w \in Workers : at'[w] = at[w]
    BY <1>0, <1>3, BulkAssumption DEF BulkAssumption, Tasks, Reconcile, ReconcileRow, ReconcileItems, ReconcileVerdict, Goto
  <1>4. ASSUME NEW i \in Images, ChildAction(i) PROVE UNCHANGED <<at, work>>
    BY <1>4 DEF ChildAction, UserCancelsChild, UserRetriesChild, RecoverLease
  <1> QED BY <1>0, <1>1, <1>2, <1>3, <1>4, NextCases DEF RecountRead, RecountWrite, Age, Tasks, vars

LEMMA BoundsTyped ==
  ASSUME TypeInv, [Next]_vars
  PROVE  ops' \in 0 .. MaxOps /\ faults' \in 0 .. MaxFaults /\ quiet' \in BOOLEAN
  <1>0. /\ ops \in 0 .. MaxOps /\ faults \in 0 .. MaxFaults /\ quiet \in BOOLEAN
        /\ MaxOps \in Nat /\ MaxFaults \in Nat
    BY BulkAssumption DEF BulkAssumption, TypeInv, TypeOK
  <1> DEFINE Bounded == ops' \in 0 .. MaxOps /\ faults' \in 0 .. MaxFaults /\ quiet' \in BOOLEAN
  <1>1. ASSUME NEW r \in Requests, RequestAction(r) PROVE Bounded
    <2>1. BeginOp(r) => ops' \in 0 .. MaxOps
      BY <1>0 DEF BeginOp
    <2>2. CASE CrashRequest(r)
      BY <1>0, <2>2 DEF CrashRequest, Fault
    <2>3. CASE RequestAction(r) /\ ~CrashRequest(r)
      <3>1. ops' \in 0 .. MaxOps
        BY <1>0, <2>1, <2>3 DEF RequestAction, CreateBulk, InsertItems, QueueBulk, StartRun, SelectPending,
       FinishRun, RequestCancel, CancelPending, ResetFailed, RequeueBulk, CrashRequest
      <3>2. faults' = faults /\ quiet' \in BOOLEAN
        BY <1>0, <2>3 DEF RequestAction, CreateBulk, InsertItems, QueueBulk, StartRun, SelectPending,
       FinishRun, RequestCancel, CancelPending, ResetFailed, RequeueBulk, CrashRequest
      <3> QED BY <1>0, <3>1, <3>2
    <2> QED BY <1>1, <2>2, <2>3
  <1>2. ASSUME NEW r \in Requests, NEW i \in Images, FlowAction(r, i) PROVE Bounded
    BY <1>0, <1>2 DEF FlowAction, CheckCancelled, AcquireItem, CreateChild, InsertChild,
       RequeueChild, SettleItem, LoseImage, StaleJobs, InvalidateItem, Fault
  <1>3. ASSUME NEW i \in Images, ChildAction(i) PROVE Bounded
    BY <1>0, <1>3 DEF ChildAction, UserCancelsChild, UserRetriesChild, RecoverLease, Fault
  <1>4. ASSUME NEW w \in Workers, WorkerAction(w) PROVE Bounded
    BY <1>0, <1>4 DEF WorkerAction, ReportChild, CrashWorker, ClaimChild, FinishChild, Fault
  <1>5. ASSUME NEW k \in Reconcilers, Reconcile(k) PROVE Bounded
    BY <1>0, <1>5 DEF Reconcile, ReconcileRow, ReconcileItems, ReconcileVerdict
  <1> QED BY <1>0, <1>1, <1>2, <1>3, <1>4, <1>5, NextCases DEF RecountRead, RecountWrite, Age, vars

LEMMA TypeStep == TypeInv /\ [Next]_vars => TypeInv'
  BY ItemsTyped, BulkTyped, ChildrenTyped, RecountsTyped, WorkTyped, BoundsTyped
  DEF TypeInv, TypeOK, ItemsAreTyped, CountRange

\* The rows of a bulk job keep their types: no order of recounts, reports and
\* retries leaves counters beyond the items there are, or attempts beyond the bound.
THEOREM BulkTypesHold == Spec => []TypeOK
  <1>1. TypeInv => TypeOK
    BY DEF TypeInv
  <1> QED BY <1>1, TypeInit, TypeStep, PTL DEF Spec

-----------------------------------------------------------------------------
(* Completed items *)

\* Whoever is about to show an item as completed has seen its child completed,
\* and a completed child is never touched again.
DoneInv ==
  /\ CompletedIsTrue
  /\ \A r \in Requests, i \in Images : at[<<r, i>>] = "adopt" => job[i] = "completed"
  /\ \A w \in Workers, i \in Images :
       work[w].image = i /\ work[w].report = "completed" => job[i] = "completed"

\* A request or a flow touches no other task.
LEMMA RequestTasks ==
  ASSUME TypeInv, NEW r \in Requests, RequestAction(r)
  PROVE  /\ \A t \in Tasks \ ({r} \cup ({r} \X Images)) : at'[t] = at[t]
         /\ \A i \in Images : at'[<<r, i>>] \in {at[<<r, i>>], "idle", "todo"}
         /\ r \in Tasks /\ \A i \in Images : r # <<r, i>>
  <1>0. DOMAIN at = Tasks
    BY DEF TypeInv, TypeOK
  <1>1. r \in Tasks /\ \A i \in Images : r # <<r, i>> /\ <<r, i>> \in Tasks
    BY BulkAssumption DEF BulkAssumption, Tasks, Flows
  <1>2. ASSUME NEW pc, Goto(r, pc)
        PROVE  \A t \in Tasks \ {r} : at'[t] = at[t]
    BY <1>0, <1>2 DEF Goto
  <1>3. CASE SelectPending(r)
    <2>1. PendingItems \subseteq Images
      BY DEF PendingItems, Items, TypeInv, TypeOK
    <2>2. \A t \in Tasks \ ({r} \cup ({r} \X Images)) : t \notin {r} \X PendingItems
      BY <2>1
    <2>3. \A t \in Tasks : at'[t] = IF t = r THEN "flows" ELSE IF t \in {r} \X PendingItems THEN "todo" ELSE at[t]
      BY <1>3 DEF SelectPending
    <2> QED BY <1>1, <2>2, <2>3
  <1>4. CASE CrashRequest(r)
    <2>1. \A t \in Tasks : at'[t] = IF t \in {r} \cup ({r} \X Images) THEN "idle" ELSE at[t]
      BY <1>4 DEF CrashRequest, Die
    <2>2. \A i \in Images : <<r, i>> \in {r} \X Images
      OBVIOUS
    <2>3. \A i \in Images : at'[<<r, i>>] = "idle"
      BY <1>1, <2>1, <2>2
    <2> QED BY <1>1, <1>3, <2>1, <2>3
  <1>5. CASE ~SelectPending(r) /\ ~CrashRequest(r)
    <2>1. \E pc : Goto(r, pc)
      BY <1>5 DEF RequestAction, CreateBulk, InsertItems, QueueBulk, StartRun, SelectPending,
       FinishRun, RequestCancel, CancelPending, ResetFailed, RequeueBulk, CrashRequest
    <2> QED BY <1>1, <1>2, <1>5, <2>1
  <1> QED BY <1>3, <1>4, <1>5

LEMMA FlowTasks ==
  ASSUME TypeInv, NEW r \in Requests, NEW i \in Images, FlowAction(r, i)
  PROVE  /\ \A t \in Tasks \ {<<r, i>>} : at'[t] = at[t]
         /\ <<r, i>> \in Tasks
  <1>0. DOMAIN at = Tasks /\ <<r, i>> \in Tasks
    BY DEF TypeInv, TypeOK, Tasks, Flows
  <1>1. \E pc : Goto(<<r, i>>, pc)
    BY DEF FlowAction, CheckCancelled, AcquireItem, CreateChild, InsertChild,
       RequeueChild, SettleItem, LoseImage, StaleJobs, InvalidateItem
  <1> QED BY <1>0, <1>1 DEF Goto

LEMMA OtherTasks ==
  ASSUME TypeInv, [Next]_vars,
         ~\E r \in Requests : RequestAction(r) \/ \E i \in Images : FlowAction(r, i)
  PROVE  \A t \in Requests \cup Flows : at'[t] = at[t]
  <1>0. DOMAIN at = Tasks
    BY DEF TypeInv, TypeOK
  <1>1. \A t \in Requests \cup Flows : t \in Tasks /\ t \notin Workers /\ t \notin Reconcilers
    BY BulkAssumption DEF BulkAssumption, Tasks, Flows
  <1>2. ASSUME NEW w \in Workers, WorkerAction(w) PROVE \A t \in Tasks \ {w} : at'[t] = at[t]
    BY <1>0, <1>2 DEF WorkerAction, ReportChild, CrashWorker, ClaimChild, FinishChild, Goto, Die
  <1>3. ASSUME NEW k \in Reconcilers, Reconcile(k) PROVE \A t \in Tasks \ {k} : at'[t] = at[t]
    BY <1>0, <1>3 DEF Reconcile, ReconcileRow, ReconcileItems, ReconcileVerdict, Goto
  <1>4. ASSUME NEW i \in Images, ChildAction(i) PROVE at' = at
    BY <1>4 DEF ChildAction, UserCancelsChild, UserRetriesChild, RecoverLease
  <1> QED BY <1>1, <1>2, <1>3, <1>4, NextCases DEF RecountRead, RecountWrite, Age, vars

LEMMA CompletedStays ==
  ASSUME TypeInv, [Next]_vars, NEW i \in Images, job[i] = "completed"
  PROVE  job'[i] = "completed"
  <1>0. job \in [Images -> JobStatus]
    BY DEF TypeInv, TypeOK
  <1>1. ASSUME NEW r \in Requests, RequestAction(r) PROVE job' = job
    BY <1>1 DEF RequestAction, CreateBulk, InsertItems, QueueBulk, StartRun, SelectPending,
       FinishRun, RequestCancel, CancelPending, ResetFailed, RequeueBulk, CrashRequest, jobs
  <1>2. ASSUME NEW r \in Requests, NEW j \in Images, FlowAction(r, j) PROVE job'[i] = "completed"
    BY <1>0, <1>2 DEF FlowAction, CheckCancelled, AcquireItem, CreateChild, InsertChild,
       RequeueChild, SettleItem, LoseImage, StaleJobs, InvalidateItem, jobs
  <1>3. ASSUME NEW j \in Images, ChildAction(j) PROVE job'[i] = "completed"
    BY <1>0, <1>3 DEF ChildAction, UserCancelsChild, UserRetriesChild, RecoverLease
  <1>4. ASSUME NEW w \in Workers, WorkerAction(w) PROVE job'[i] = "completed"
    BY <1>0, <1>4 DEF WorkerAction, ReportChild, CrashWorker, ClaimChild, FinishChild, jobs
  <1>5. ASSUME NEW k \in Reconcilers, Reconcile(k) PROVE job' = job
    BY <1>5 DEF Reconcile, ReconcileRow, ReconcileItems, ReconcileVerdict, jobs
  <1> QED BY <1>1, <1>2, <1>3, <1>4, <1>5, NextCases DEF RecountRead, RecountWrite, Age, vars, jobs

LEMMA DoneInit == Init => DoneInv
  BY DEF Init, DoneInv, CompletedIsTrue, Items, Idle0, Tasks, Flows

\* An item is marked completed only for a child that is.
ShowsDone ==
  \A i \in Items' : item'[i] = "completed" =>
    job[i] = "completed" \/ (i \in Items /\ item[i] = "completed")

LEMMA SetOthers ==
  ASSUME NEW S, NEW s, s # "completed", SetItems(S, s)
  PROVE  ShowsDone
  BY DEF SetItems, ShowsDone, Items

LEMMA SetOne ==
  ASSUME NEW i, NEW s, s = "completed" => job[i] = "completed", SetItems({i}, s)
  PROVE  ShowsDone
  <1> SUFFICES ASSUME NEW j \in Items', item'[j] = "completed"
               PROVE  job[j] = "completed" \/ (j \in Items /\ item[j] = "completed")
    BY DEF ShowsDone
  <1>1. j \in Items /\ item'[j] = IF j = i THEN s ELSE item[j]
    BY DEF SetItems, Items
  <1>2. CASE j = i
    BY <1>1, <1>2
  <1>3. CASE j # i
    BY <1>1, <1>3
  <1> QED BY <1>2, <1>3

LEMMA ItemsDone ==
  ASSUME TypeInv, DoneInv, [Next]_vars
  PROVE  ShowsDone
  <1>0. item' = item => ShowsDone
    BY DEF ShowsDone, Items
  <1>1. ASSUME NEW r \in Requests, RequestAction(r) PROVE ShowsDone
    <2>1. InsertItems(r) => ShowsDone
      BY DEF InsertItems, ShowsDone, Items
    <2> QED BY <1>0, <1>1, <2>1, SetOthers DEF RequestAction, CreateBulk, QueueBulk, StartRun, SelectPending,
       FinishRun, RequestCancel, CancelPending, ResetFailed, RequeueBulk, CrashRequest, rows
  <1>2. ASSUME NEW r \in Requests, NEW i \in Images, FlowAction(r, i) PROVE ShowsDone
    <2>1. CASE SettleItem(r, i)
      <3>1. at[<<r, i>>] \in DOMAIN Outcome /\ SetItems({i}, Outcome[at[<<r, i>>]])
        BY <2>1 DEF SettleItem
      <3>2. CASE at[<<r, i>>] = "adopt"
        <4>1. job[i] = "completed"
          BY <3>2 DEF DoneInv
        <4> QED BY <3>1, <4>1, SetOne
      <3>3. CASE at[<<r, i>>] # "adopt"
        <4>1. Outcome[at[<<r, i>>]] # "completed"
          BY <3>1, <3>3 DEF Outcome
        <4> QED BY <3>1, <4>1, SetOthers
      <3> QED BY <3>2, <3>3
    <2> QED BY <1>0, <1>2, <2>1, SetOthers DEF FlowAction, CheckCancelled, AcquireItem, CreateChild, InsertChild,
       RequeueChild, LoseImage, StaleJobs, InvalidateItem, rows
  <1>3. ASSUME NEW w \in Workers, WorkerAction(w) PROVE ShowsDone
    <2>1. CASE ReportChild(w) /\ item' # item
      <3> DEFINE i == work[w].image
      <3>1. i \in Items /\ SetItems({i}, work[w].report)
        BY <2>1 DEF ReportChild
      <3>2. i \in Images
        BY <3>1 DEF Items, TypeInv, TypeOK
      <3>3. work[w].report = "completed" => job[i] = "completed"
        BY <3>2 DEF DoneInv
      <3> QED BY <3>1, <3>3, SetOne
    <2> QED BY <1>0, <1>3, <2>1 DEF WorkerAction, CrashWorker, ClaimChild, FinishChild, rows
  <1>4. ASSUME NEW k \in Reconcilers, Reconcile(k) PROVE ShowsDone
    BY <1>0, <1>4, SetOthers DEF Reconcile, ReconcileRow, ReconcileItems, ReconcileVerdict, rows
  <1>5. ASSUME NEW i \in Images, ChildAction(i) PROVE item' = item
    BY <1>5 DEF ChildAction, UserCancelsChild, UserRetriesChild, RecoverLease, rows
  <1> QED BY <1>0, <1>1, <1>2, <1>3, <1>4, <1>5, NextCases DEF RecountRead, RecountWrite, Age, vars, rows

LEMMA DoneStep ==
  ASSUME TypeInv, DoneInv, [Next]_vars
  PROVE  DoneInv'
  <1>1. CompletedIsTrue'
    <2>1. TypeInv'
      BY TypeStep
    <2>2. Items' \subseteq Images
      BY <2>1 DEF TypeInv, TypeOK, Items
    <2> QED BY <2>2, ItemsDone, CompletedStays DEF ShowsDone, DoneInv, CompletedIsTrue
  <1>2. ASSUME NEW r \in Requests, NEW i \in Images, at'[<<r, i>>] = "adopt" PROVE job'[i] = "completed"
    <2>1. CASE at[<<r, i>>] = "adopt"
      BY <2>1, CompletedStays DEF DoneInv
    <2>2. CASE at[<<r, i>>] # "adopt"
      <3>1. <<r, i>> \in Tasks /\ <<r, i>> \in Flows
        BY DEF Tasks, Flows
      <3>2. ASSUME NEW q \in Requests, RequestAction(q) PROVE FALSE
        <4>1. <<r, i>> # q
          BY BulkAssumption DEF BulkAssumption
        <4>2. at'[<<r, i>>] \in {at[<<r, i>>], "idle", "todo"}
          BY <3>1, <3>2, <4>1, RequestTasks
        <4> QED BY <1>2, <2>2, <4>2
      <3>3. ASSUME NEW q \in Requests, NEW j \in Images, FlowAction(q, j) PROVE job[i] = "completed"
        <4>1. q = r /\ j = i
          BY <1>2, <2>2, <3>1, <3>3, FlowTasks
        <4> QED BY <1>2, <2>2, <3>1, <3>3, <4>1 DEF FlowAction, CheckCancelled, AcquireItem, CreateChild, InsertChild,
       RequeueChild, SettleItem, LoseImage, StaleJobs, InvalidateItem,
                   Goto, TypeInv, TypeOK
      <3> QED BY <1>2, <2>2, <3>1, <3>2, <3>3, OtherTasks, CompletedStays
    <2> QED BY <2>1, <2>2
  <1>3. ASSUME NEW w \in Workers, NEW i \in Images, work'[w].image = i, work'[w].report = "completed"
        PROVE  job'[i] = "completed"
    <2>1. CASE work'[w] = work[w]
      BY <1>3, <2>1, CompletedStays DEF DoneInv
    <2>2. CASE work'[w] # work[w]
      <3>1. ASSUME NEW r \in Requests, RequestAction(r) \/ \E j \in Images : FlowAction(r, j) PROVE work' = work
        BY <3>1 DEF RequestAction, CreateBulk, InsertItems, QueueBulk, StartRun, SelectPending,
       FinishRun, RequestCancel, CancelPending, ResetFailed, RequeueBulk, CrashRequest,
           FlowAction, CheckCancelled, AcquireItem, CreateChild, InsertChild,
       RequeueChild, SettleItem, LoseImage, StaleJobs, InvalidateItem
      <3>2. PICK v \in Workers : WorkerAction(v)
        BY <2>2, <3>1, NextCases DEF RecountRead, RecountWrite, Age, vars, ChildAction, UserCancelsChild, UserRetriesChild, RecoverLease,
           Reconcile, ReconcileRow, ReconcileItems, ReconcileVerdict
      <3>3. \E j \in Images : FinishChild(v, j) /\ v = w
        BY <1>3, <2>2, <3>2 DEF WorkerAction, ReportChild, CrashWorker, ClaimChild, FinishChild, Idle0, TypeInv, TypeOK
      <3>4. PICK j \in Images : FinishChild(w, j)
        BY <3>3
      <3>5. j = i
        BY <1>3, <3>4 DEF FinishChild, Holds, TypeInv, TypeOK
      <3> QED BY <1>3, <3>4, <3>5 DEF FinishChild, TypeInv, TypeOK
    <2> QED BY <2>1, <2>2
  <1> QED BY <1>1, <1>2, <1>3 DEF DoneInv

\* An item is shown as completed only over a completed child: neither a late
\* report nor an adopted job nor a recount shows success for work not done.
THEOREM CompletedIsTrueHolds == Spec => []CompletedIsTrue
  <1>1. DoneInv => CompletedIsTrue
    BY DEF DoneInv
  <1> QED BY <1>1, TypeInit, TypeStep, DoneInit, DoneStep, PTL DEF Spec

-----------------------------------------------------------------------------
(* Nothing starts after a cancel *)

\* With a third request a retry of no items and a cancel can cross the creation
\* of the items: the retry clears the flag before the sweep finds nothing.
AtMostTwoRequests == \A a, b, c \in Requests : a = b \/ b = c \/ a = c

ItemSteps == {"todo", "acquire", "requeue", "create", "insert", "link", "skip", "fail", "adopt"}
Inserting == \E r \in Requests : at[r] = "insertItems"
Sweeping == \E r \in Requests : at[r] = "sweep"
Requeueing == \E r \in Requests : at[r] = "requeueBulk"

RowFirst == Items # {} \/ quiet \/ Inserting \/ Sweeping \/ Requeueing => Exists
InsertedOnce ==
  /\ Inserting => Items = {}
  /\ \A r, q \in Requests : at[r] = "insertItems" /\ at[q] = "insertItems" => q = r
FlowsHaveItems == \A r \in Requests, i \in Images : at[<<r, i>>] \in ItemSteps => Items # {}

\* Items that may still become pending, or are, leave the flag up.
FlagUp ==
  /\ Inserting /\ Sweeping => bulk.cancel
  /\ quiet /\ Requeueing => PendingItems = {} /\ ~Inserting
  /\ quiet => bulk.cancel \/ (PendingItems = {} /\ ~Inserting)

\* No flow has passed the check of the flag with an item that is pending.
PendingUnbegun ==
  \A r \in Requests, i \in Images :
    quiet /\ i \in PendingItems => at[<<r, i>>] \notin ItemSteps \ {"todo"}

CancelInv == RowFirst /\ InsertedOnce /\ FlowsHaveItems /\ FlagUp /\ PendingUnbegun

LEMMA CancelInit == Init => CancelInv
  <1> SUFFICES ASSUME Init PROVE CancelInv
    OBVIOUS
  <1>1. ~Inserting /\ ~Sweeping /\ ~Requeueing /\ ~quiet /\ Items = {}
    BY DEF Init, Tasks, Inserting, Sweeping, Requeueing, Items
  <1>2. \A r \in Requests, i \in Images : at[<<r, i>>] = "idle"
    BY DEF Init, Tasks, Flows
  <1> QED BY <1>1, <1>2 DEF CancelInv, RowFirst, InsertedOnce, FlowsHaveItems, FlagUp, PendingUnbegun,
                            Inserting, ItemSteps

\* A step that makes no item pending and leaves the flag and the row alone.
Calm ==
  /\ bulk'.cancel = bulk.cancel /\ (Exists => Exists') /\ quiet' = quiet
  /\ Items' = Items /\ PendingItems' \subseteq PendingItems

LEMMA SetCalmly ==
  ASSUME NEW S, NEW s, s # "pending", SetItems(S, s)
  PROVE  Items' = Items /\ PendingItems' \subseteq PendingItems
  BY DEF SetItems, Items, PendingItems

LEMMA CalmStep ==
  ASSUME TypeInv, [Next]_vars, ~\E r \in Requests : RequestAction(r)
  PROVE  Calm
  <1> DEFINE SameItems == Items' = Items /\ PendingItems' \subseteq PendingItems
  <1>0. item' = item => SameItems
    BY DEF Items, PendingItems
  <1>1. ASSUME NEW t \in Tasks, RecountRead(t) \/ RecountWrite(t) PROVE Calm
    <2>1. item' = item /\ quiet' = quiet
      BY <1>1 DEF RecountRead, RecountWrite, rows
    <2>2. bulk'.cancel = bulk.cancel /\ (Exists => Exists')
      <3>1. CASE RecountRead(t)
        BY <3>1 DEF RecountRead, rows, Exists
      <3>2. CASE RecountWrite(t)
        BY <3>2, FinalizedIsStatus DEF RecountWrite, WriteBulk, Exists, TypeInv, TypeOK
      <3> QED BY <1>1, <3>1, <3>2
    <2> QED BY <1>0, <2>1, <2>2 DEF Calm
  <1>2. ASSUME UNCHANGED <<bulk, quiet>>, SameItems PROVE Calm
    BY <1>2 DEF Calm, Exists
  <1>3. ASSUME NEW r \in Requests, NEW i \in Images, FlowAction(r, i) PROVE Calm
    <2>1. at[<<r, i>>] \in DOMAIN Outcome => Outcome[at[<<r, i>>]] # "pending"
      BY DEF Outcome
    <2>2. SameItems
      BY <1>0, <1>3, <2>1, SetCalmly DEF FlowAction, CheckCancelled, AcquireItem, CreateChild, InsertChild,
       RequeueChild, SettleItem, LoseImage, StaleJobs, InvalidateItem, rows
    <2>3. UNCHANGED <<bulk, quiet>>
      BY <1>3 DEF FlowAction, CheckCancelled, AcquireItem, CreateChild, InsertChild,
       RequeueChild, SettleItem, LoseImage, StaleJobs, InvalidateItem, rows
    <2> QED BY <1>2, <2>2, <2>3
  <1>4. ASSUME NEW w \in Workers, WorkerAction(w) PROVE Calm
    <2>1. at[w] = "report" => work[w].report # "pending"
      BY DEF TypeInv
    <2>2. SameItems
      BY <1>0, <1>4, <2>1, SetCalmly DEF WorkerAction, ReportChild, CrashWorker, ClaimChild, FinishChild, rows
    <2>3. UNCHANGED <<bulk, quiet>>
      BY <1>4 DEF WorkerAction, ReportChild, CrashWorker, ClaimChild, FinishChild, rows
    <2> QED BY <1>2, <2>2, <2>3
  <1>5. ASSUME NEW k \in Reconcilers, Reconcile(k) PROVE Calm
    <2>1. SameItems
      BY <1>0, <1>5, SetCalmly DEF Reconcile, ReconcileRow, ReconcileItems, ReconcileVerdict, rows
    <2>2. UNCHANGED <<bulk, quiet>>
      BY <1>5 DEF Reconcile, ReconcileRow, ReconcileItems, ReconcileVerdict, rows
    <2> QED BY <1>2, <2>1, <2>2
  <1>6. ASSUME NEW i \in Images, ChildAction(i) PROVE UNCHANGED <<bulk, item, quiet>>
    BY <1>6 DEF ChildAction, UserCancelsChild, UserRetriesChild, RecoverLease, rows
  <1>7. Age => UNCHANGED <<bulk, item, quiet>>
    BY DEF Age
  <1> QED BY <1>0, <1>1, <1>2, <1>3, <1>4, <1>5, <1>6, <1>7, NextCases DEF vars, rows

\* A flow comes past the check of the flag only where the flag is down.
LEMMA FlowGoesOn ==
  ASSUME TypeInv, NEW r \in Requests, NEW i \in Images, FlowAction(r, i), at'[<<r, i>>] \in ItemSteps
  PROVE  /\ at[<<r, i>>] \in ItemSteps
         /\ at'[<<r, i>>] # "todo"
         /\ at[<<r, i>>] = "todo" => ~bulk.cancel
  <1>0. DOMAIN at = Tasks /\ <<r, i>> \in Tasks
    BY DEF TypeInv, TypeOK, Tasks, Flows
  <1>1. ASSUME NEW pc, Goto(<<r, i>>, pc) PROVE at'[<<r, i>>] = pc
    BY <1>0, <1>1 DEF Goto
  <1> QED BY <1>1 DEF FlowAction, CheckCancelled, AcquireItem, CreateChild, InsertChild,
       RequeueChild, SettleItem, LoseImage, StaleJobs, InvalidateItem, Ready, ItemSteps, Outcome

LEMMA CalmKeepsCancel ==
  ASSUME TypeInv, CancelInv, [Next]_vars, ~\E r \in Requests : RequestAction(r)
  PROVE  CancelInv'
  <1>0. Calm
    BY CalmStep
  <1>f. \A r \in Requests, i \in Images : <<r, i>> \in Flows
    BY DEF Flows
  <1>d. \A r, q \in Requests, i \in Images : r \in Tasks /\ <<q, i>> \in Tasks /\ r # <<q, i>>
    BY BulkAssumption DEF BulkAssumption, Tasks, Flows
  <1>1. \A r \in Requests : at'[r] = at[r]
    <2>1. ASSUME NEW q \in Requests, NEW i \in Images, FlowAction(q, i) PROVE \A r \in Requests : at'[r] = at[r]
      BY <1>d, <2>1, FlowTasks
    <2> QED BY <2>1, OtherTasks
  <1>2. \A r \in Requests, i \in Images :
          at'[<<r, i>>] \in ItemSteps =>
            \/ at'[<<r, i>>] = at[<<r, i>>]
            \/ /\ at[<<r, i>>] \in ItemSteps
               /\ at[<<r, i>>] = "todo" => ~bulk.cancel
    <2> SUFFICES ASSUME NEW r \in Requests, NEW i \in Images, at'[<<r, i>>] \in ItemSteps,
                        at'[<<r, i>>] # at[<<r, i>>]
                 PROVE  at[<<r, i>>] \in ItemSteps /\ (at[<<r, i>>] = "todo" => ~bulk.cancel)
      OBVIOUS
    <2>1. \E q \in Requests, j \in Images : FlowAction(q, j)
      BY <1>f, OtherTasks
    <2>2. PICK q \in Requests, j \in Images : FlowAction(q, j)
      BY <2>1
    <2>3. q = r /\ j = i
      BY <1>d, <2>2, FlowTasks
    <2> QED BY <2>2, <2>3, FlowGoesOn
  <1>3. (Inserting' <=> Inserting) /\ (Sweeping' <=> Sweeping) /\ (Requeueing' <=> Requeueing)
    BY <1>1 DEF Inserting, Sweeping, Requeueing
  <1>4. RowFirst' /\ InsertedOnce' /\ FlagUp'
    BY <1>0, <1>1, <1>3 DEF CancelInv, RowFirst, InsertedOnce, FlagUp, Calm
  <1>5. FlowsHaveItems'
    BY <1>0, <1>2 DEF CancelInv, FlowsHaveItems, Calm
  <1>6. PendingUnbegun'
    <2> SUFFICES ASSUME NEW r \in Requests, NEW i \in Images, quiet', i \in PendingItems',
                        at'[<<r, i>>] \in ItemSteps \ {"todo"}
                 PROVE  FALSE
      BY DEF PendingUnbegun
    <2>1. quiet /\ i \in PendingItems
      BY <1>0 DEF Calm
    <2>2. at[<<r, i>>] \notin ItemSteps \ {"todo"} /\ bulk.cancel
      BY <2>1 DEF CancelInv, PendingUnbegun, FlagUp
    <2> QED BY <1>2, <2>2
  <1> QED BY <1>4, <1>5, <1>6 DEF CancelInv

\* What a request's own step does to the tasks.
LEMMA RequestFrames ==
  ASSUME TypeInv, NEW r \in Requests, RequestAction(r)
  PROVE  /\ \A q \in Requests \ {r} : at'[q] = at[q]
         /\ \A q \in Requests, i \in Images :
              at'[<<q, i>>] \in {at[<<q, i>>], "idle"} \/ (at'[<<q, i>>] = "todo" /\ SelectPending(r))
  <1>1. \A q \in Requests \ {r} : at'[q] = at[q]
    <2>1. \A q \in Requests \ {r} : q \in Tasks /\ q \notin {r} \cup ({r} \X Images)
      BY BulkAssumption DEF BulkAssumption, Tasks
    <2> QED BY <2>1, RequestTasks
  <1>2. ASSUME NEW q \in Requests, NEW i \in Images
        PROVE  at'[<<q, i>>] \in {at[<<q, i>>], "idle"} \/ (at'[<<q, i>>] = "todo" /\ SelectPending(r))
    <2>0. DOMAIN at = Tasks /\ <<q, i>> \in Tasks /\ r # <<q, i>>
      BY BulkAssumption DEF BulkAssumption, TypeInv, TypeOK, Tasks, Flows
    <2>1. CASE SelectPending(r)
      BY <2>0, <2>1 DEF SelectPending
    <2>2. CASE CrashRequest(r)
      BY <2>0, <2>2 DEF CrashRequest, Die
    <2>3. CASE ~SelectPending(r) /\ ~CrashRequest(r)
      <3>1. ASSUME NEW pc, Goto(r, pc) PROVE at'[<<q, i>>] = at[<<q, i>>]
        BY <2>0, <3>1 DEF Goto
      <3> QED BY <2>3, <3>1 DEF RequestAction, CreateBulk, InsertItems, QueueBulk, StartRun, SelectPending,
       FinishRun, RequestCancel, CancelPending, ResetFailed, RequeueBulk, CrashRequest
    <2> QED BY <2>1, <2>2, <2>3
  <1> QED BY <1>1, <1>2

LEMMA RequestKeepsFlows ==
  ASSUME TypeInv, CancelInv, NEW r \in Requests, RequestAction(r)
  PROVE  FlowsHaveItems' /\ PendingUnbegun'
  <1>1. Items # {} => Items' # {}
    <2>1. ASSUME NEW S, NEW s, SetItems(S, s) PROVE Items' = Items
      BY <2>1 DEF SetItems, Items
    <2>2. item' = item => Items' = Items
      BY DEF Items
    <2>3. InsertItems(r) => Items' = Images
      BY DEF InsertItems, Items
    <2> QED BY <2>1, <2>2, <2>3, BulkAssumption DEF BulkAssumption, RequestAction, CreateBulk, QueueBulk, StartRun,
       SelectPending, FinishRun, RequestCancel, CancelPending, ResetFailed, RequeueBulk, CrashRequest, rows
  <1>2. FlowsHaveItems'
    <2> SUFFICES ASSUME NEW q \in Requests, NEW i \in Images, at'[<<q, i>>] \in ItemSteps PROVE Items' # {}
      BY DEF FlowsHaveItems
    <2>1. CASE at'[<<q, i>>] = at[<<q, i>>]
      BY <1>1, <2>1 DEF CancelInv, FlowsHaveItems
    <2>2. CASE at'[<<q, i>>] # at[<<q, i>>]
      <3>1. SelectPending(r)
        BY <2>2, RequestFrames DEF ItemSteps
      <3>2. at' = [t \in Tasks |-> IF t = r THEN "flows"
                                   ELSE IF t \in {r} \X PendingItems THEN "todo" ELSE at[t]]
        BY <3>1 DEF SelectPending
      <3>3. <<q, i>> \in Tasks /\ <<q, i>> # r
        BY BulkAssumption DEF BulkAssumption, Tasks, Flows
      <3>4. i \in PendingItems
        BY <2>2, <3>2, <3>3
      <3> QED BY <1>1, <3>4 DEF PendingItems
    <2> QED BY <2>1, <2>2
  <1>3. PendingUnbegun'
    <2> SUFFICES ASSUME NEW q \in Requests, NEW i \in Images, quiet', i \in PendingItems',
                        at'[<<q, i>>] \in ItemSteps \ {"todo"}
                 PROVE  FALSE
      BY DEF PendingUnbegun
    <2>1. at[<<q, i>>] \in ItemSteps \ {"todo"}
      BY RequestFrames DEF ItemSteps
    <2>2. CASE InsertItems(r)
      BY <2>1, <2>2 DEF InsertItems, Ready, Inserting, CancelInv, FlowsHaveItems, InsertedOnce
    <2>3. CASE CancelPending(r)
      BY <2>3 DEF CancelPending, SetItems, PendingItems, Items
    <2>4. CASE ResetFailed(r)
      BY <2>4 DEF ResetFailed
    <2>5. CASE ~InsertItems(r) /\ ~CancelPending(r) /\ ~ResetFailed(r)
      <3>1. UNCHANGED <<item, quiet>>
        BY <2>5 DEF RequestAction, CreateBulk, QueueBulk, StartRun,
       SelectPending, FinishRun, RequestCancel, RequeueBulk, CrashRequest, rows
      <3> QED BY <2>1, <3>1 DEF PendingItems, Items, CancelInv, PendingUnbegun
    <2> QED BY <2>2, <2>3, <2>4, <2>5
  <1> QED BY <1>2, <1>3

LEMMA RequestKeepsFlag ==
  ASSUME AtMostTwoRequests, TypeInv, CancelInv, NEW r \in Requests, RequestAction(r)
  PROVE  RowFirst' /\ InsertedOnce' /\ FlagUp'
  <1> USE DEF CancelInv, RowFirst, InsertedOnce, FlagUp, Inserting, Sweeping, Requeueing, Exists
  <1>0. DOMAIN at = Tasks /\ r \in Tasks /\ \A q \in Requests \ {r} : at'[q] = at[q]
    BY RequestFrames DEF TypeInv, TypeOK, Tasks
  <1>b. bulk = [status |-> bulk.status, counts |-> bulk.counts, cancel |-> bulk.cancel]
    BY DEF TypeInv, TypeOK
  <1>g. ASSUME NEW pc, Goto(r, pc) PROVE at'[r] = pc
    BY <1>0, <1>g DEF Goto
  <1>s. ASSUME NEW S, NEW s, SetItems(S, s) PROVE Items' = Items /\ (s # "pending" => PendingItems' \subseteq PendingItems)
    BY <1>s DEF SetItems, Items, PendingItems
  <1>i. item' = item => Items' = Items /\ PendingItems' = PendingItems
    BY DEF Items, PendingItems
  <1>1. CASE CreateBulk(r)
    <2>1. ~Exists /\ at'[r] = "insertItems" /\ UNCHANGED <<item, quiet>> /\ bulk'.status = "validating"
      BY <1>1, <1>b, <1>g DEF CreateBulk, WriteBulk
    <2> QED BY <1>0, <1>i, <2>1
  <1>2. CASE InsertItems(r)
    <2>1. at[r] = "insertItems" /\ at'[r] = "queueBulk" /\ UNCHANGED <<bulk, quiet>>
      BY <1>2, <1>g DEF InsertItems, Ready
    <2> QED BY <1>0, <2>1
  <1>3. CASE QueueBulk(r)
    <2>1. at'[r] = "idle" /\ UNCHANGED <<item, quiet>> /\ bulk'.status = "queued" /\ bulk'.cancel = bulk.cancel
      BY <1>3, <1>b, <1>g DEF QueueBulk, WriteBulk
    <2> QED BY <1>0, <1>i, <2>1
  <1>4. CASE StartRun(r)
    <2>1. /\ at'[r] \in {"select", "idle"} /\ UNCHANGED <<item, quiet>> /\ bulk'.cancel = bulk.cancel
          /\ bulk'.status \in {bulk.status, "running"}
      BY <1>4, <1>b, <1>g DEF StartRun, WriteBulk
    <2> QED BY <1>0, <1>i, <2>1
  <1>5. CASE SelectPending(r) \/ FinishRun(r)
    <2>1. at'[r] \in {"flows", "idle"} /\ UNCHANGED <<item, quiet, bulk>>
      BY <1>0, <1>5, <1>g DEF SelectPending, FinishRun, rows
    <2> QED BY <1>0, <1>i, <2>1
  <1>6. CASE RequestCancel(r)
    <2>1. /\ at'[r] = "sweep" /\ UNCHANGED <<item, quiet>> /\ bulk'.cancel = TRUE
          /\ bulk'.status = bulk.status /\ Exists
      BY <1>6, <1>b, <1>g DEF RequestCancel, WriteBulk
    <2> QED BY <1>0, <1>i, <2>1
  <1>7. CASE CancelPending(r)
    <2>1. at[r] = "sweep" /\ at'[r] = "idle" /\ bulk' = bulk /\ Items' = Items /\ PendingItems' = {}
      <3>1. SetItems(PendingItems, "cancelled")
        BY <1>7 DEF CancelPending
      <3>2. Items' = Items /\ PendingItems' = {}
        BY <3>1 DEF SetItems, Items, PendingItems
      <3> QED BY <1>7, <1>g, <3>2 DEF CancelPending, Ready
    <2>2. ~(Inserting' /\ Requeueing')
      <3> SUFFICES ASSUME NEW q \in Requests, NEW p \in Requests, at'[q] = "insertItems", at'[p] = "requeueBulk"
                   PROVE  FALSE
        OBVIOUS
      <3>1. q # r /\ p # r /\ p # q
        BY <2>1
      <3> QED BY <3>1 DEF AtMostTwoRequests
    <2> QED BY <1>0, <2>1, <2>2
  <1>8. CASE ResetFailed(r)
    <2>1. at'[r] = "requeueBulk" /\ quiet' = FALSE /\ bulk' = bulk /\ Items' = Items /\ Exists
      BY <1>8, <1>g, <1>s DEF ResetFailed
    <2> QED BY <1>0, <2>1
  <1>9. CASE RequeueBulk(r)
    <2>1. at[r] = "requeueBulk" /\ at'[r] = "start" /\ UNCHANGED <<item, quiet>> /\ bulk'.status = "queued"
      BY <1>9, <1>b, <1>g DEF RequeueBulk, WriteBulk, Ready
    <2>2. ~(Inserting' /\ Sweeping')
      <3> SUFFICES ASSUME NEW q \in Requests, NEW p \in Requests, at'[q] = "insertItems", at'[p] = "sweep"
                   PROVE  FALSE
        OBVIOUS
      <3>1. q # r /\ p # r /\ p # q
        BY <2>1
      <3> QED BY <3>1 DEF AtMostTwoRequests
    <2> QED BY <1>0, <1>i, <2>1, <2>2
  <1>10. CASE CrashRequest(r)
    <2>1. at'[r] = "idle" /\ UNCHANGED <<item, quiet, bulk>>
      BY <1>0, <1>10 DEF CrashRequest, Die, rows
    <2> QED BY <1>0, <1>i, <2>1
  <1> QED BY <1>1, <1>2, <1>3, <1>4, <1>5, <1>6, <1>7, <1>8, <1>9, <1>10 DEF RequestAction

LEMMA CancelStep ==
  ASSUME AtMostTwoRequests, TypeInv, CancelInv, [Next]_vars
  PROVE  CancelInv'
  BY CalmKeepsCancel, RequestKeepsFlows, RequestKeepsFlag DEF CancelInv

LEMMA NothingStarts ==
  ASSUME TypeInv, CancelInv, [Next]_vars, quiet, NEW i \in Items, item[i] = "pending"
  PROVE  item'[i] # "running"
  <1>0. i \in Images /\ i \in PendingItems
    BY DEF TypeInv, TypeOK, Items, PendingItems
  <1>1. ASSUME NEW S, NEW s, s # "running" \/ i \notin S, SetItems(S, s) PROVE item'[i] # "running"
    BY <1>1 DEF SetItems
  <1>2. ASSUME NEW r \in Requests, RequestAction(r) PROVE item'[i] # "running"
    <2>1. InsertItems(r) => item'[i] # "running"
      BY <1>0 DEF InsertItems
    <2> QED BY <1>1, <1>2, <2>1 DEF RequestAction, CreateBulk, QueueBulk, StartRun,
       SelectPending, FinishRun, RequestCancel, CancelPending, ResetFailed, RequeueBulk, CrashRequest, rows
  <1>3. ASSUME NEW r \in Requests, NEW j \in Images, FlowAction(r, j) PROVE item'[i] # "running"
    <2>1. CASE AcquireItem(r, j)
      <3>1. j # i
        BY <1>0, <2>1 DEF AcquireItem, Ready, CancelInv, PendingUnbegun, ItemSteps
      <3>2. SetItems({j} \cap PendingItems, "running")
        BY <2>1 DEF AcquireItem
      <3> QED BY <1>1, <3>1, <3>2
    <2>2. CASE SettleItem(r, j)
      <3>1. j # i
        BY <1>0, <2>2 DEF SettleItem, Outcome, CancelInv, PendingUnbegun, ItemSteps
      <3>2. SetItems({j}, Outcome[at[<<r, j>>]])
        BY <2>2 DEF SettleItem
      <3> QED BY <1>1, <3>1, <3>2
    <2> QED BY <1>1, <1>3, <2>1, <2>2 DEF FlowAction, CheckCancelled, CreateChild, InsertChild,
       RequeueChild, LoseImage, StaleJobs, InvalidateItem, rows
  <1>4. ASSUME NEW w \in Workers, WorkerAction(w) PROVE item'[i] # "running"
    <2>1. at[w] = "report" => work[w].report # "running"
      BY DEF TypeInv
    <2> QED BY <1>1, <1>4, <2>1 DEF WorkerAction, ReportChild, CrashWorker, ClaimChild, FinishChild, rows
  <1>5. ASSUME NEW k \in Reconcilers, Reconcile(k) PROVE item'[i] # "running"
    BY <1>1, <1>5 DEF Reconcile, ReconcileRow, ReconcileItems, ReconcileVerdict, rows
  <1>6. ASSUME NEW j \in Images, ChildAction(j) PROVE item' = item
    BY <1>6 DEF ChildAction, UserCancelsChild, UserRetriesChild, RecoverLease, rows
  <1> QED BY <1>2, <1>3, <1>4, <1>5, <1>6, NextCases DEF RecountRead, RecountWrite, Age, vars, rows

\* Once a cancel has swept the items, and until a retry, no run that was under
\* way begins another, as long as there are never three requests at once.
THEOREM NoStartAfterCancelHolds == AtMostTwoRequests /\ Spec => NoStartAfterCancel
  <1> SUFFICES ASSUME AtMostTwoRequests PROVE Spec => NoStartAfterCancel
    OBVIOUS
  <1>1. TypeInv /\ CancelInv /\ [Next]_vars
          => [quiet => \A i \in Items : ~(item[i] = "pending" /\ item'[i] = "running")]_vars
    BY NothingStarts
  <1>2. TypeInv /\ CancelInv /\ [Next]_vars => CancelInv'
    BY CancelStep
  <1> QED BY <1>1, <1>2, TypeInit, TypeStep, CancelInit, PTL DEF Spec, NoStartAfterCancel
=============================================================================
