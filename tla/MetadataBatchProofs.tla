------------------------- MODULE MetadataBatchProofs -------------------------
(***************************************************************************)
(* MetadataBatch: the generations of one batch, their jobs and the texts   *)
(* approved, for any number of images, runners, requests and workers.      *)
(***************************************************************************)
EXTENDS MetadataBatch, FiniteSetTheorems, TLAPS

-----------------------------------------------------------------------------
(* The steps, by who takes them *)

RunnerAction(r) == CreateBatch(r) \/ StartRun(r) \/ SelectPending(r) \/ FinishRun(r)

RequestAction(r) ==
  \/ RequestCancel(r) \/ SelectQueued(r) \/ CancelGeneration(r) \/ CancelJob(r) \/ CancelItem(r) \/ FinishCancel(r)
  \/ RequestRetry(r) \/ RetryJob(r) \/ RetryGeneration(r) \/ RetryItem(r) \/ FinishRetry(r)
  \/ \E i \in Images : RetryNext(r, i) \/ \E s \in {"pending", "queued"} : CancelNext(r, i, s)

WorkerAction(w) == Execute(w) \/ CrashWorker(w) \/ \E i \in Images : ClaimJob(w, i)
ReviewAction(v) == ReviewStep(v) \/ \E i \in Images : BeginReview(v, i)
ImageAction(i) == LoseImage(i) \/ EndReplacement(i) \/ Invalidate(i) \/ InvalidationFails(i)
ScriptAction(i) == RecoverLease(i) \/ ReconcileJob(i) \/ ReconcileGeneration(i) \/ ReconcileItem(i)
Mortals == Runners \cup Requests \cup Reviewers \cup Images

LEMMA NextCases ==
  ASSUME [Next]_vars
  PROVE  \/ \E t \in Workers \cup Reviewers : Synchronise(t)
         \/ \E r \in Runners : RunnerAction(r)
         \/ \E r \in Runners, i \in Images : FlowStep(r, i)
         \/ \E r \in Requests : RequestAction(r)
         \/ \E w \in Workers : WorkerAction(w)
         \/ \E v \in Reviewers : ReviewAction(v)
         \/ \E i \in Images : ImageAction(i)
         \/ \E i \in Images : ScriptAction(i)
         \/ \E t \in Mortals : RequestDies(t)
         \/ ReconcileBatch
         \/ UNCHANGED vars
  BY DEF Next, RunStep, RequestStep, RunnerAction, RequestAction, WorkerAction, ReviewAction, ImageAction, ScriptAction, Mortals

LEMMA Kinds ==
  /\ Tasks = Runners \cup Flows \cup Requests \cup Workers \cup Reviewers \cup Images
  /\ Runners \cap Requests = {} /\ Workers \cap (Runners \cup Requests) = {}
  /\ Reviewers \cap (Runners \cup Requests \cup Workers) = {}
  /\ Images \cap (Runners \cup Requests \cup Workers \cup Reviewers) = {}
  /\ Flows \cap (Runners \cup Requests \cup Workers \cup Reviewers \cup Images) = {}
  /\ \A r \in Runners, i \in Images : <<r, i>> \in Flows
  BY MetadataAssumption DEF MetadataAssumption, Tasks, Flows

-----------------------------------------------------------------------------
(* Types, and where each kind of task can be *)

ImageRow == [revision : 1 .. MaxRevisions, open : BOOLEAN, gone : BOOLEAN]
GenRow == [status : GenStatus, revision : Nat, tries : Nat, text : Nat]
JobRow == [status : JobStatus, attempts : 0 .. MaxAttempts, owner : Workers \cup {None}]
BatchRow == [status : {"none"} \cup ActiveBatch \cup TerminalBatch, cancel : BOOLEAN, eligible : Nat]
Reading == [status : ItemStatus \cup {"none", "retried"}, revision : Nat, text : Nat]

Typed ==
  /\ image \in [Images -> ImageRow] /\ gen \in [Images -> GenRow] /\ job \in [Images -> JobRow]
  /\ torn \in [Images -> BOOLEAN] /\ approved \in [Images -> Nat]
  /\ item \in [Images -> ItemStatus] /\ linked \in [Images -> BOOLEAN] /\ batch \in BatchRow
  /\ DOMAIN at = Tasks /\ cur \in [Tasks -> Images \cup {None}] /\ seen \in [Tasks -> Reading]
  /\ ops \in 0 .. MaxOps /\ faults \in 0 .. MaxFaults

Syncing == {"sync", "syncItem", "leave"}
WorkerLabels ==
  {"idle", "begin", "generate", "fetch", "call", "completeJob", "failGen", "failJob", "staleGen",
   "staleJob", "outdateGen", "requeueGen", "requeueJob"} \cup Syncing
ReviewLabels == {"idle", "save", "approve", "approveGen", "reject"} \cup Syncing
RunnerLabels == {"idle", "start", "select", "flows"}
AtItem == {"cancelGen", "cancelJob", "cancelItem", "retryJob", "retryGen", "retryItem"}
RequestLabels == {"idle", "selectQueued", "cancel", "retry"} \cup AtItem
FlowLabels == {"idle", "todo", "acquire", "check", "insertJob", "insertGen", "skip", "fail", "link"}
ImageLabels == {"idle", "jobs", "gens", "metaJobs", "items"}

\* Where task t can be, with image c in hand, having read status s.
Place(t, pc, c, s) ==
  /\ t \in Workers => pc \in WorkerLabels
  /\ t \in Reviewers => pc \in ReviewLabels
  /\ t \in Workers \cup Reviewers =>
       (pc # "idle" => c \in Images) /\ (pc = "syncItem" => s \in ItemStatus \ {"pending"})
  /\ t \in Runners => pc \in RunnerLabels
  /\ t \in Requests => pc \in RequestLabels /\ (pc \in AtItem => c \in Images)
  /\ t \in Flows => pc \in FlowLabels
  /\ t \in Images => pc \in ImageLabels

Placed == \A t \in Tasks : Place(t, at[t], cur[t], seen[t].status)

\* An item is linked to a generation that exists.
Linked ==
  /\ \A i \in Images : linked[i] => gen[i].status # "none"
  /\ \A r \in Runners, i \in Images : at[<<r, i>>] = "link" => gen[i].status # "none"

\* A replacement is open only while the bound has room for one more source.
Room == \A i \in Images : image[i].open => image[i].revision < MaxRevisions

BaseInv == Typed /\ Placed /\ Linked /\ Room

\* Only task t moves.
Moves(t) ==
  /\ DOMAIN at' = Tasks /\ cur' \in [Tasks -> Images \cup {None}] /\ seen' \in [Tasks -> Reading]
  /\ \A u \in Tasks \ {t} : at'[u] = at[u] /\ cur'[u] = cur[u] /\ seen'[u] = seen[u]

\* A task stays where it is, with what it has in hand.
Stays(t) == at'[t] = at[t] /\ cur'[t] = cur[t] /\ seen'[t] = seen[t]

LEMMA MoverStays ==
  ASSUME NEW t \in Tasks, NEW u \in Tasks \ {t}, Moves(t)
  PROVE  Stays(u)
  BY DEF Moves, Stays

LEMMA GotoMoves ==
  ASSUME BaseInv, NEW t \in Tasks, NEW pc, Goto(t, pc)
  PROVE  at'[t] = pc /\ DOMAIN at' = Tasks /\ \A u \in Tasks \ {t} : at'[u] = at[u]
  BY DEF BaseInv, Typed, Goto

LEMMA MappedIsStatus ==
  ASSUME NEW s \in GenStatus \ {"none"}
  PROVE  Mapped(s) \in ItemStatus \ {"pending"}
  BY DEF GenStatus, ActiveGen, Editable, ItemStatus, Mapped

LEMMA Seen0Fits == Seen0 \in Reading /\ Seen0.status = "none"
  BY DEF Seen0, Reading

LEMMA RecountFits ==
  ASSUME NEW it, NEW b \in BatchRow
  PROVE  Recounted(it, b) \in BatchRow /\ Recounted(it, b).status # "none"
  <1>1. FinalizeBatchStatus(Tally(it), b.eligible, b.cancel) \in ActiveBatch \cup TerminalBatch
    BY DEF FinalizeBatchStatus, ActiveBatch, TerminalBatch
  <1>2. "none" \notin ActiveBatch \cup TerminalBatch
    BY DEF ActiveBatch, TerminalBatch
  <1> QED BY <1>1, <1>2 DEF Recounted, BatchRow

LEMMA BaseInit == Init => BaseInv
  <1> SUFFICES ASSUME Init PROVE BaseInv
    OBVIOUS
  <1>1. image \in [Images -> ImageRow]
    BY MetadataAssumption DEF MetadataAssumption, Init, ImageRow
  <1>2. gen \in [Images -> GenRow] /\ job \in [Images -> JobRow]
    BY MetadataAssumption DEF MetadataAssumption, Init, GenRow, JobRow, GenStatus, JobStatus
  <1>3. /\ torn \in [Images -> BOOLEAN] /\ approved \in [Images -> Nat]
        /\ item \in [Images -> ItemStatus] /\ linked \in [Images -> BOOLEAN] /\ batch \in BatchRow
    BY DEF Init, ItemStatus, BatchRow
  <1>4. DOMAIN at = Tasks /\ cur \in [Tasks -> Images \cup {None}] /\ seen \in [Tasks -> Reading]
    BY Seen0Fits DEF Init
  <1>5. ops \in 0 .. MaxOps /\ faults \in 0 .. MaxFaults
    BY MetadataAssumption DEF MetadataAssumption, Init
  <1>6. Placed
    BY DEF Init, Placed, Place, WorkerLabels, ReviewLabels, RunnerLabels, RequestLabels, FlowLabels, ImageLabels, AtItem
  <1>7. Linked
    BY Kinds DEF Init, Linked
  <1>8. Room
    BY DEF Init, Room
  <1> QED BY <1>1, <1>2, <1>3, <1>4, <1>5, <1>6, <1>7, <1>8 DEF BaseInv, Typed

LEMMA SynchroniseMoves ==
  ASSUME BaseInv, NEW t \in Workers \cup Reviewers, Synchronise(t)
  PROVE  Moves(t) /\ Place(t, at'[t], cur'[t], seen'[t].status)
  <1>1. t \in Tasks /\ Place(t, at[t], cur[t], seen[t].status)
    BY Kinds DEF BaseInv, Placed
  <1>2. ASSUME SyncRead(t) PROVE Moves(t) /\ Place(t, at'[t], cur'[t], seen'[t].status)
    <2>1. cur[t] \in Images
      BY <1>1, <1>2 DEF SyncRead, Place
    <2>2. linked[cur[t]] => Mapped(gen[cur[t]].status) \in ItemStatus \ {"pending"}
      BY <2>1, MappedIsStatus DEF BaseInv, Linked, Typed, GenRow
    <2>3. at'[t] \in {"syncItem", "leave"} /\ DOMAIN at' = Tasks /\ \A u \in Tasks \ {t} : at'[u] = at[u]
      BY <1>1, <1>2, GotoMoves DEF SyncRead
    <2>4. /\ seen' \in [Tasks -> Reading] /\ \A u \in Tasks \ {t} : seen'[u] = seen[u]
          /\ at'[t] = "syncItem" => seen'[t].status \in ItemStatus \ {"pending"}
      <3>1. CASE linked[cur[t]]
        BY <1>1, <1>2, <2>2, <3>1 DEF SyncRead, BaseInv, Typed, Reading
      <3>2. CASE ~linked[cur[t]]
        <4>1. seen' = seen /\ at'[t] = "leave"
          BY <1>1, <1>2, <3>2, GotoMoves DEF SyncRead
        <4> QED BY <4>1 DEF BaseInv, Typed
      <3> QED BY <3>1, <3>2
    <2>5. cur' = cur
      BY <1>2 DEF SyncRead
    <2> QED BY <1>1, <2>1, <2>3, <2>4, <2>5, Kinds DEF Moves, Place, BaseInv, Typed, WorkerLabels, ReviewLabels, Syncing
  <1>3. ASSUME SyncItem(t) PROVE Moves(t) /\ Place(t, at'[t], cur'[t], seen'[t].status)
    <2>1. at'[t] = "leave" /\ DOMAIN at' = Tasks /\ \A u \in Tasks \ {t} : at'[u] = at[u]
      BY <1>1, <1>3, GotoMoves DEF SyncItem
    <2>2. cur' = cur /\ seen' = seen /\ at[t] # "idle"
      BY <1>3 DEF SyncItem
    <2> QED BY <1>1, <2>1, <2>2, Kinds DEF Moves, Place, BaseInv, Typed, WorkerLabels, ReviewLabels, Syncing
  <1>4. ASSUME Leave(t) PROVE Moves(t) /\ Place(t, at'[t], cur'[t], seen'[t].status)
    <2>1. at'[t] = "idle" /\ DOMAIN at' = Tasks /\ \A u \in Tasks \ {t} : at'[u] = at[u]
      BY <1>1, <1>4, GotoMoves DEF Leave
    <2>2. cur' = [cur EXCEPT ![t] = None] /\ seen' = [seen EXCEPT ![t] = Seen0]
      BY <1>4 DEF Leave
    <2>3. Moves(t)
      BY <1>1, <2>1, <2>2, Seen0Fits DEF Moves, BaseInv, Typed
    <2> QED BY <1>1, <2>1, <2>3, Kinds DEF Place, WorkerLabels, ReviewLabels
  <1> QED BY <1>2, <1>3, <1>4 DEF Synchronise

LEMMA RunnerMoves ==
  ASSUME BaseInv, NEW r \in Runners, RunnerAction(r)
  PROVE  /\ DOMAIN at' = Tasks /\ UNCHANGED <<cur, seen>> /\ at'[r] \in RunnerLabels
         /\ \A t \in Tasks \ {r} :
              at'[t] = at[t] \/ \E i \in Images : t = <<r, i>> /\ item[i] = "pending" /\ at'[t] = "todo"
  <1>1. r \in Tasks
    BY Kinds
  <1>2. CASE SelectPending(r)
    BY <1>1, <1>2 DEF SelectPending, RunnerLabels
  <1>3. CASE CreateBatch(r) \/ StartRun(r) \/ FinishRun(r)
    <2>1. PICK pc \in RunnerLabels : Goto(r, pc)
      BY <1>3 DEF CreateBatch, StartRun, FinishRun, RunnerLabels
    <2> QED BY <1>1, <1>3, <2>1, GotoMoves DEF CreateBatch, StartRun, FinishRun
  <1> QED BY <1>2, <1>3 DEF RunnerAction, SelectPending, CreateBatch, StartRun, FinishRun

LEMMA FlowMoves ==
  ASSUME BaseInv, NEW r \in Runners, NEW i \in Images, FlowStep(r, i)
  PROVE  Moves(<<r, i>>) /\ at'[<<r, i>>] \in FlowLabels /\ cur' = cur
  <1> DEFINE f == <<r, i>>
  <1>1. f \in Tasks
    BY Kinds
  <1>2. PICK pc \in FlowLabels : Goto(f, pc)
    BY DEF FlowStep, CheckCancelled, AcquireItem, CheckGeneration, InsertJob, InsertGeneration, SettleItem, FlowLabels
  <1>3. cur' = cur
    BY DEF FlowStep, CheckCancelled, AcquireItem, CheckGeneration, InsertJob, InsertGeneration, SettleItem
  <1>4. seen' \in [Tasks -> Reading] /\ \A u \in Tasks \ {f} : seen'[u] = seen[u]
    <2>1. image[i].revision \in Nat
      BY DEF BaseInv, Typed, ImageRow
    <2> HIDE DEF f
    <2>2. \/ seen' = seen
          \/ seen' = [seen EXCEPT ![f].revision = image[i].revision]
          \/ seen' = [seen EXCEPT ![f] = Seen0]
      BY DEF FlowStep, CheckCancelled, AcquireItem, CheckGeneration, InsertJob, InsertGeneration, SettleItem, f
    <2> QED BY <1>1, <2>1, <2>2, Seen0Fits DEF BaseInv, Typed, Reading
  <1> QED BY <1>1, <1>2, <1>3, <1>4, GotoMoves DEF Moves, BaseInv, Typed

LEMMA RequestMoves ==
  ASSUME BaseInv, NEW r \in Requests, RequestAction(r)
  PROVE  Moves(r) /\ Place(r, at'[r], cur'[r], seen'[r].status)
  <1>1. r \in Tasks /\ Place(r, at[r], cur[r], seen[r].status)
    BY Kinds DEF BaseInv, Placed
  <1>2. seen' \in [Tasks -> Reading] /\ \A u \in Tasks \ {r} : seen'[u] = seen[u]
    <2>1. \/ seen' = seen
          \/ seen' = [seen EXCEPT ![r].status = "retried"]
          \/ seen' = [seen EXCEPT ![r] = Seen0]
      BY DEF RequestAction, RequestCancel, SelectQueued, CancelGeneration, CancelJob, CancelItem, FinishCancel,
         RequestRetry, RetryNext, RetryJob, RetryGeneration, RetryItem, FinishRetry, CancelNext
    <2> QED BY <1>1, <2>1, Seen0Fits DEF BaseInv, Typed, Reading
  <1>3. \/ cur' = cur
        \/ cur' = [cur EXCEPT ![r] = None] /\ (Goto(r, "cancel") \/ Goto(r, "idle"))
        \/ \E i \in Images : cur' = [cur EXCEPT ![r] = i]
    BY DEF RequestAction, RequestCancel, SelectQueued, CancelGeneration, CancelJob, CancelItem, FinishCancel,
         RequestRetry, RetryNext, RetryJob, RetryGeneration, RetryItem, FinishRetry, CancelNext
  <1>4. DOMAIN at' = Tasks /\ \A u \in Tasks \ {r} : at'[u] = at[u]
    <2>1. at' = at \/ \E pc \in RequestLabels : Goto(r, pc)
      BY DEF RequestAction, RequestCancel, SelectQueued, CancelGeneration, CancelJob, CancelItem, FinishCancel,
         RequestRetry, RetryNext, RetryJob, RetryGeneration, RetryItem, FinishRetry, CancelNext, RequestLabels, AtItem
    <2> QED BY <1>1, <2>1, GotoMoves DEF BaseInv, Typed
  <1>5. /\ at'[r] \in RequestLabels
        /\ at'[r] \in AtItem => at[r] \in AtItem \/ \E i \in Images : cur'[r] = i
    <2>1. ASSUME NEW pc, Goto(r, pc) PROVE at'[r] = pc
      BY <1>1, <2>1, GotoMoves
    <2>2. CASE \E i \in Images : RetryNext(r, i) \/ \E s \in {"pending", "queued"} : CancelNext(r, i, s)
      <3>1. at'[r] \in RequestLabels
        BY <2>1, <2>2 DEF RetryNext, CancelNext, RequestLabels, AtItem
      <3>2. \E i \in Images : cur'[r] = i
        BY <1>1, <2>2 DEF RetryNext, CancelNext, BaseInv, Typed
      <3> QED BY <3>1, <3>2
    <2>3. CASE ~\E i \in Images : RetryNext(r, i) \/ \E s \in {"pending", "queued"} : CancelNext(r, i, s)
      BY <2>1, <2>3 DEF RequestAction, RequestCancel, SelectQueued, CancelGeneration, CancelJob, CancelItem, FinishCancel,
         RequestRetry, RetryJob, RetryGeneration, RetryItem, FinishRetry, RequestLabels, AtItem
    <2> QED BY <2>2, <2>3
  <1>6. cur' \in [Tasks -> Images \cup {None}] /\ \A u \in Tasks \ {r} : cur'[u] = cur[u]
    BY <1>1, <1>3 DEF BaseInv, Typed
  <1>7. at'[r] \in AtItem => cur'[r] \in Images
    <2>1. CASE cur' = cur
      BY <1>1, <1>5, <2>1 DEF Place
    <2>2. CASE Goto(r, "cancel") \/ Goto(r, "idle")
      BY <1>1, <2>2, GotoMoves DEF AtItem
    <2>3. CASE \E i \in Images : cur' = [cur EXCEPT ![r] = i]
      BY <1>1, <2>3 DEF BaseInv, Typed
    <2> QED BY <1>3, <2>1, <2>2, <2>3
  <1> QED BY <1>1, <1>2, <1>4, <1>5, <1>6, <1>7, Kinds DEF Moves, Place

LEMMA WorkerMoves ==
  ASSUME BaseInv, NEW w \in Workers, WorkerAction(w)
  PROVE  Moves(w) /\ Place(w, at'[w], cur'[w], seen'[w].status)
  <1>1. w \in Tasks /\ Place(w, at[w], cur[w], seen[w].status)
    BY Kinds DEF BaseInv, Placed
  <1>2. \/ cur' = cur /\ seen' = seen
        \/ cur' = [cur EXCEPT ![w] = None] /\ seen' = [seen EXCEPT ![w] = Seen0] /\ Goto(w, "idle")
        \/ (\E i \in Images : cur' = [cur EXCEPT ![w] = i]) /\ seen' = seen /\ Goto(w, "begin")
    BY DEF WorkerAction, Execute, BeginExecution, WriteGeneration, WriteJob, ClearLease, CrashWorker, ClaimJob
  <1>3. \/ at' = at
        \/ \E pc \in WorkerLabels \ {"idle", "syncItem"} : at[w] # "idle" /\ Goto(w, pc)
        \/ \E i \in Images : ClaimJob(w, i)
        \/ Goto(w, "idle")
    <2>1. CASE BeginExecution(w)
      <3>1. Verdict(cur[w]) \in WorkerLabels \ {"idle", "syncItem"}
        BY DEF Verdict, WorkerLabels, Syncing
      <3>2. "leave" \in WorkerLabels \ {"idle", "syncItem"}
        BY DEF WorkerLabels, Syncing
      <3>3. (Goto(w, Verdict(cur[w])) \/ Goto(w, "leave")) /\ at[w] # "idle"
        BY <2>1 DEF BeginExecution
      <3> QED BY <3>1, <3>2, <3>3
    <2>2. CASE ~BeginExecution(w)
      BY <2>2 DEF WorkerAction, Execute, WriteGeneration, WriteJob, ClearLease, CrashWorker, WorkerLabels, Syncing
    <2> QED BY <2>1, <2>2
  <1>4. DOMAIN at' = Tasks /\ \A u \in Tasks \ {w} : at'[u] = at[u]
    BY <1>1, <1>3, GotoMoves DEF BaseInv, Typed, ClaimJob
  <1>5. Moves(w)
    BY <1>1, <1>2, <1>4, Seen0Fits DEF Moves, BaseInv, Typed
  <1>6. \A pc : Goto(w, pc) => at'[w] = pc
    BY <1>1, GotoMoves
  <1>7. /\ at'[w] \in WorkerLabels
        /\ at'[w] # "idle" => cur'[w] \in Images
        /\ at'[w] = "syncItem" => at[w] = "syncItem" /\ seen' = seen
    <2>1. CASE \E i \in Images : ClaimJob(w, i)
      BY <1>1, <1>6, <2>1 DEF ClaimJob, WorkerLabels, BaseInv, Typed
    <2>2. CASE Goto(w, "idle")
      BY <1>6, <2>2 DEF WorkerLabels
    <2>3. CASE at'[w] # "idle" /\ ~\E i \in Images : ClaimJob(w, i)
      <3>1. cur' = cur /\ seen' = seen
        BY <1>2, <1>6, <2>3 DEF WorkerAction, Execute, BeginExecution, WriteGeneration, WriteJob, ClearLease, CrashWorker
      <3>2. at[w] # "idle" /\ (at' = at \/ at'[w] \in WorkerLabels \ {"idle", "syncItem"})
        BY <1>3, <1>6, <2>3
      <3> QED BY <1>1, <3>1, <3>2 DEF Place
    <2> QED BY <1>1, <1>3, <1>6, <2>1, <2>2, <2>3 DEF Place
  <1> QED BY <1>1, <1>5, <1>7, Kinds DEF Place

LEMMA ReviewMoves ==
  ASSUME BaseInv, NEW v \in Reviewers, ReviewAction(v)
  PROVE  Moves(v) /\ Place(v, at'[v], cur'[v], seen'[v].status)
  <1>1. v \in Tasks /\ Place(v, at[v], cur[v], seen[v].status)
    BY Kinds DEF BaseInv, Placed
  <1>2. PICK pc \in ReviewLabels \ {"idle", "syncItem"} : Goto(v, pc)
    BY DEF ReviewAction, ReviewStep, SaveEdits, ApproveText, CloseReview, BeginReview, ReviewLabels, Syncing
  <1>3. CASE \E i \in Images : BeginReview(v, i)
    <2>1. PICK i \in Images : BeginReview(v, i)
      BY <1>3
    <2>2. cur' = [cur EXCEPT ![v] = i] /\ seen' = [seen EXCEPT ![v].text = gen[i].text] /\ gen[i].text \in Nat
      BY <2>1 DEF BeginReview, BaseInv, Typed, GenRow
    <2>3. Moves(v)
      BY <1>1, <1>2, <2>2, GotoMoves DEF Moves, BaseInv, Typed, Reading
    <2> QED BY <1>1, <1>2, <2>2, <2>3, GotoMoves, Kinds DEF Place, BaseInv, Typed
  <1>4. CASE ReviewStep(v)
    <2>1. cur' = cur /\ seen' = seen /\ at[v] # "idle"
      BY <1>4 DEF ReviewStep, SaveEdits, ApproveText, CloseReview
    <2> QED BY <1>1, <1>2, <2>1, GotoMoves, Kinds DEF Place, Moves, BaseInv, Typed
  <1> QED BY <1>3, <1>4 DEF ReviewAction

LEMMA ImageMoves ==
  ASSUME BaseInv, NEW i \in Images, ImageAction(i)
  PROVE  Moves(i) /\ at'[i] \in ImageLabels /\ UNCHANGED <<cur, seen>>
  <1>1. i \in Tasks /\ at[i] \in ImageLabels
    BY Kinds DEF BaseInv, Placed, Place
  <1>2. UNCHANGED <<cur, seen>>
    BY DEF ImageAction, LoseImage, EndReplacement, Invalidate, InvalidationFails, InvalidateJobs, InvalidateGenerations, InvalidateItems
  <1>3. at' = at \/ \E pc \in ImageLabels : Goto(i, pc)
    BY DEF ImageAction, LoseImage, EndReplacement, Invalidate, InvalidationFails, InvalidateJobs, InvalidateGenerations,
       InvalidateItems, ImageLabels
  <1> QED BY <1>1, <1>2, <1>3, GotoMoves DEF Moves, BaseInv, Typed

LEMMA DeathKeeps ==
  ASSUME NEW t, RequestDies(t)
  PROVE  UNCHANGED <<image, gen, job, approved, item, linked, batch, ops>> /\ Fault("crash")
  BY DEF RequestDies, rows

\* Who dies, or is served by who dies, is idle; the others stay.
LEMMA Dying ==
  ASSUME BaseInv, NEW t \in Mortals, RequestDies(t)
  PROVE  /\ DOMAIN at' = Tasks /\ cur' \in [Tasks -> Images \cup {None}] /\ seen' \in [Tasks -> Reading]
         /\ \A u \in Tasks : Stays(u) \/ (u \notin Workers /\ at'[u] = "idle")
  <1>1. /\ t \in Tasks \ Workers /\ Served(t) = {t} \cup {f \in Flows : f[1] = t}
        /\ Flows \cap Workers = {}
    BY Kinds DEF Mortals, Served
  <1>2. \A u \in Served(t) : u \notin Workers
    BY <1>1
  <1>3. /\ at' = [u \in Tasks |-> IF u \in Served(t) THEN "idle" ELSE at[u]]
        /\ cur' = [cur EXCEPT ![t] = None]
        /\ seen' = [u \in Tasks |-> IF u \in Served(t) THEN Seen0 ELSE seen[u]]
    BY DEF RequestDies
  <1>4. DOMAIN at' = Tasks /\ cur' \in [Tasks -> Images \cup {None}] /\ seen' \in [Tasks -> Reading]
    BY <1>1, <1>3, Seen0Fits DEF BaseInv, Typed
  <1>5. ASSUME NEW u \in Tasks PROVE Stays(u) \/ (u \notin Workers /\ at'[u] = "idle")
    <2>1. CASE u \in Served(t)
      BY <1>2, <1>3, <2>1
    <2>2. CASE u \notin Served(t)
      BY <1>1, <1>3, <2>2 DEF Stays, BaseInv, Typed
    <2> QED BY <2>1, <2>2
  <1> QED BY <1>4, <1>5

LEMMA OthersStay ==
  ASSUME \/ \E i \in Images : ScriptAction(i)
         \/ ReconcileBatch \/ UNCHANGED vars
  PROVE  UNCHANGED <<at, cur, seen>>
  BY DEF ScriptAction, RecoverLease, ReconcileJob, ReconcileGeneration, ReconcileItem, ReconcileBatch, vars

LEMMA PlacedKept ==
  ASSUME BaseInv, [Next]_vars
  PROVE  /\ Placed' /\ DOMAIN at' = Tasks
         /\ cur' \in [Tasks -> Images \cup {None}] /\ seen' \in [Tasks -> Reading]
  <1>0. Placed /\ DOMAIN at = Tasks /\ cur \in [Tasks -> Images \cup {None}] /\ seen \in [Tasks -> Reading]
    BY DEF BaseInv, Typed
  <1>1. ASSUME NEW t \in Tasks, Moves(t), Place(t, at'[t], cur'[t], seen'[t].status)
        PROVE  Placed' /\ DOMAIN at' = Tasks /\ cur' \in [Tasks -> Images \cup {None}] /\ seen' \in [Tasks -> Reading]
    BY <1>0, <1>1 DEF Moves, Placed
  <1>2. ASSUME NEW t \in Workers \cup Reviewers, Synchronise(t) PROVE t \in Tasks /\ Moves(t) /\ Place(t, at'[t], cur'[t], seen'[t].status)
    BY <1>2, SynchroniseMoves, Kinds
  <1>3. ASSUME NEW r \in Runners, RunnerAction(r)
        PROVE  Placed' /\ DOMAIN at' = Tasks /\ cur' \in [Tasks -> Images \cup {None}] /\ seen' \in [Tasks -> Reading]
    <2>1. ASSUME NEW t \in Tasks PROVE Place(t, at'[t], cur'[t], seen'[t].status)
      <3>1. Place(t, at[t], cur[t], seen[t].status)
        BY <1>0 DEF Placed
      <3>2. CASE t = r
        BY <1>3, <3>2, RunnerMoves, Kinds DEF Place
      <3>3. CASE \E i \in Images : t = <<r, i>> /\ at'[t] = "todo"
        BY <3>3, Kinds DEF Place, FlowLabels
      <3> QED BY <1>3, <3>1, <3>2, <3>3, RunnerMoves
    <2> QED BY <1>0, <1>3, <2>1, RunnerMoves DEF Placed
  <1>4. ASSUME NEW r \in Runners, NEW i \in Images, FlowStep(r, i)
        PROVE  <<r, i>> \in Tasks /\ Moves(<<r, i>>) /\ Place(<<r, i>>, at'[<<r, i>>], cur'[<<r, i>>], seen'[<<r, i>>].status)
    BY <1>4, FlowMoves, Kinds DEF Place
  <1>5. ASSUME NEW r \in Requests, RequestAction(r) PROVE r \in Tasks /\ Moves(r) /\ Place(r, at'[r], cur'[r], seen'[r].status)
    BY <1>5, RequestMoves, Kinds
  <1>6. ASSUME NEW w \in Workers, WorkerAction(w) PROVE w \in Tasks /\ Moves(w) /\ Place(w, at'[w], cur'[w], seen'[w].status)
    BY <1>6, WorkerMoves, Kinds
  <1>7. ASSUME NEW v \in Reviewers, ReviewAction(v) PROVE v \in Tasks /\ Moves(v) /\ Place(v, at'[v], cur'[v], seen'[v].status)
    BY <1>7, ReviewMoves, Kinds
  <1>8. ASSUME NEW i \in Images, ImageAction(i) PROVE i \in Tasks /\ Moves(i) /\ Place(i, at'[i], cur'[i], seen'[i].status)
    BY <1>8, ImageMoves, Kinds DEF Place
  <1>9. ASSUME UNCHANGED <<at, cur, seen>>
        PROVE  Placed' /\ DOMAIN at' = Tasks /\ cur' \in [Tasks -> Images \cup {None}] /\ seen' \in [Tasks -> Reading]
    BY <1>0, <1>9 DEF Placed
  <1>10. ASSUME NEW t \in Mortals, RequestDies(t)
         PROVE  Placed' /\ DOMAIN at' = Tasks /\ cur' \in [Tasks -> Images \cup {None}] /\ seen' \in [Tasks -> Reading]
    <2>1. ASSUME NEW u \in Tasks PROVE Place(u, at'[u], cur'[u], seen'[u].status)
      <3>1. CASE Stays(u)
        BY <1>0, <3>1 DEF Stays, Placed
      <3>2. CASE u \notin Workers /\ at'[u] = "idle"
        BY <3>2, Kinds DEF Place, ReviewLabels, RunnerLabels, RequestLabels, FlowLabels, ImageLabels, AtItem
      <3> QED BY <1>10, <3>1, <3>2, Dying
    <2> QED BY <1>10, <2>1, Dying DEF Placed
  <1> QED BY <1>1, <1>2, <1>3, <1>4, <1>5, <1>6, <1>7, <1>8, <1>9, <1>10, OthersStay, NextCases

-----------------------------------------------------------------------------
(* What a step writes *)

Drafted(w) ==
  /\ at[w] = "call" /\ at'[w] = "completeJob"
  /\ gen' = [gen EXCEPT ![cur[w]].status = "draft", ![cur[w]].text = @ + 1]

\* The statements that write a generation.
GenWrites ==
  \/ gen' = gen
  \/ \E i \in Images, s \in GenStatus \ {"none"} : SetGen(i, s)
  \/ \E r \in Runners, i \in Images : InsertGeneration(r, i)
  \/ \E r \in Requests : RetryGeneration(r) /\ cur[r] \in Images
  \/ \E w \in Workers : Drafted(w) /\ cur[w] \in Images
  \/ \E v \in Reviewers : SaveEdits(v) /\ cur[v] \in Images

LEMMA HandsFull ==
  ASSUME BaseInv
  PROVE  /\ \A t \in Workers \cup Reviewers : at[t] # "idle" => cur[t] \in Images
         /\ \A r \in Requests : at[r] \in AtItem => cur[r] \in Images
  BY Kinds DEF BaseInv, Placed, Place

LEMMA StatusNames ==
  /\ ActiveGen \subseteq GenStatus \ {"none"} /\ Editable \subseteq GenStatus \ {"none"}
  /\ {"approved", "rejected", "failed", "cancelled", "stale"} \subseteq GenStatus \ {"none"}
  BY DEF GenStatus, ActiveGen, Editable

LEMMA GenIsWritten ==
  ASSUME BaseInv, [Next]_vars
  PROVE  GenWrites
  <1>1. ASSUME NEW r \in Requests, RequestAction(r) PROVE GenWrites
    <2>1. ASSUME CancelGeneration(r) PROVE GenWrites
      BY <2>1, HandsFull, StatusNames DEF CancelGeneration, GenWrites, AtItem
    <2>2. ASSUME RetryGeneration(r) PROVE GenWrites
      BY <2>2, HandsFull DEF RetryGeneration, GenWrites, AtItem
    <2> QED BY <1>1, <2>1, <2>2 DEF RequestAction, RequestCancel, SelectQueued, CancelJob, CancelItem, FinishCancel,
         RequestRetry, RetryNext, RetryJob, RetryItem, FinishRetry, CancelNext, gens, GenWrites
  <1>2. ASSUME NEW w \in Workers, WorkerAction(w) PROVE GenWrites
    <2>1. ASSUME WriteGeneration(w) PROVE GenWrites
      <3>1. cur[w] \in Images /\ w \in Tasks
        BY <2>1, HandsFull, Kinds DEF WriteGeneration
      <3>2. \A s \in {"generating", "validating_output", "queued", "failed", "stale"} : s \in GenStatus \ {"none"}
        BY DEF GenStatus, ActiveGen
      <3>3. Goto(w, "completeJob") => at'[w] = "completeJob"
        BY <3>1, GotoMoves
      <3> QED BY <2>1, <3>1, <3>2, <3>3 DEF WriteGeneration, GenWrites, Drafted
    <2> QED BY <1>2, <2>1 DEF WorkerAction, Execute, BeginExecution, WriteJob, ClearLease, CrashWorker, ClaimJob, gens, GenWrites
  <1>3. ASSUME NEW v \in Reviewers, ReviewAction(v) PROVE GenWrites
    <2>1. ASSUME SaveEdits(v) PROVE GenWrites
      BY <2>1, HandsFull DEF SaveEdits, GenWrites
    <2>2. ASSUME CloseReview(v) PROVE GenWrites
      BY <2>2, HandsFull, StatusNames DEF CloseReview, GenWrites
    <2> QED BY <1>3, <2>1, <2>2 DEF ReviewAction, ReviewStep, ApproveText, BeginReview, gens, GenWrites
  <1>4. ASSUME NEW i \in Images, ImageAction(i) PROVE GenWrites
    BY <1>4, StatusNames DEF ImageAction, LoseImage, EndReplacement, Invalidate, InvalidationFails, InvalidateJobs, InvalidateGenerations,
       InvalidateItems, Invalid, gens, GenWrites
  <1>5. ASSUME NEW r \in Runners, NEW i \in Images, FlowStep(r, i) PROVE GenWrites
    BY <1>5 DEF FlowStep, CheckCancelled, AcquireItem, CheckGeneration, InsertJob, SettleItem, gens, GenWrites
  <1>6. ASSUME NEW r \in Runners, RunnerAction(r) PROVE gen' = gen
    BY <1>6 DEF RunnerAction, SelectPending, CreateBatch, StartRun, FinishRun, gens
  <1>7. ASSUME NEW t \in Workers \cup Reviewers, Synchronise(t) PROVE gen' = gen
    BY <1>7 DEF Synchronise, SyncRead, SyncItem, Leave, gens
  <1>8. ASSUME NEW i \in Images, ScriptAction(i) PROVE GenWrites
    BY <1>8, StatusNames DEF ScriptAction, RecoverLease, ReconcileJob, ReconcileGeneration, ReconcileItem, gens, GenWrites
  <1> QED BY <1>1, <1>2, <1>3, <1>4, <1>5, <1>6, <1>7, <1>8, DeathKeeps, NextCases DEF ReconcileBatch, vars, gens, GenWrites

\* A generation keeps its type; it is never forgotten, and its text only grows.
LEMMA GenKept ==
  ASSUME BaseInv, GenWrites
  PROVE  /\ gen' \in [Images -> GenRow]
         /\ \A i \in Images : /\ gen[i].status # "none" => gen'[i].status # "none"
                              /\ gen'[i].text >= gen[i].text
  <1>0. gen \in [Images -> GenRow]
    BY DEF BaseInv, Typed
  <1>1. ASSUME NEW i \in Images, NEW s \in GenStatus \ {"none"}, SetGen(i, s)
        PROVE  /\ gen' \in [Images -> GenRow]
               /\ \A j \in Images : (gen[j].status # "none" => gen'[j].status # "none") /\ gen'[j].text >= gen[j].text
    BY <1>0, <1>1 DEF SetGen, GenRow
  <1>2. ASSUME NEW i \in Images, NEW n \in Nat, gen' = [gen EXCEPT ![i].status = "queued", ![i].revision = n]
        PROVE  /\ gen' \in [Images -> GenRow]
               /\ \A j \in Images : (gen[j].status # "none" => gen'[j].status # "none") /\ gen'[j].text >= gen[j].text
    <2>1. "queued" \in GenStatus \ {"none"}
      BY DEF GenStatus, ActiveGen
    <2>2. gen' \in [Images -> GenRow]
      BY <1>0, <1>2, <2>1 DEF GenRow
    <2>3. \A j \in Images : gen'[j].text = gen[j].text /\ (gen'[j].status = gen[j].status \/ gen'[j].status = "queued")
      BY <1>0, <1>2 DEF GenRow
    <2>4. \A j \in Images : gen[j].text \in Nat
      BY <1>0 DEF GenRow
    <2> QED BY <2>2, <2>3, <2>4
  <1>3. ASSUME NEW i \in Images, gen' = [gen EXCEPT ![i].status = "queued", ![i].tries = @ + 1]
        PROVE  /\ gen' \in [Images -> GenRow]
               /\ \A j \in Images : (gen[j].status # "none" => gen'[j].status # "none") /\ gen'[j].text >= gen[j].text
    BY <1>0, <1>3, StatusNames DEF GenRow, ActiveGen
  <1>4. ASSUME NEW i \in Images, NEW s \in Editable, gen' = [gen EXCEPT ![i].status = s, ![i].text = @ + 1]
        PROVE  /\ gen' \in [Images -> GenRow]
               /\ \A j \in Images : (gen[j].status # "none" => gen'[j].status # "none") /\ gen'[j].text >= gen[j].text
    BY <1>0, <1>4, StatusNames DEF GenRow
  <1>5. ASSUME gen' = gen
        PROVE  /\ gen' \in [Images -> GenRow]
               /\ \A j \in Images : (gen[j].status # "none" => gen'[j].status # "none") /\ gen'[j].text >= gen[j].text
    BY <1>0, <1>5 DEF GenRow
  <1>6. \A r \in Runners, i \in Images : seen[<<r, i>>].revision \in Nat
    BY Kinds DEF BaseInv, Typed, Reading
  <1> QED BY <1>1, <1>2, <1>3, <1>4, <1>5, <1>6 DEF GenWrites, InsertGeneration, RetryGeneration, Drafted, SaveEdits, Editable

\* The statements that write a job.
JobWrites ==
  \/ job' = job
  \/ \E i \in Images, s \in JobStatus : SetJob(i, s) \/ FreeJob(i, s)
  \/ \E w \in Workers, i \in Images : ClaimJob(w, i)

LEMMA JobIsWritten ==
  ASSUME BaseInv, [Next]_vars
  PROVE  JobWrites
  <1>0. \A s \in {"queued", "processing", "completed", "failed", "stale", "cancelled"} : s \in JobStatus
    BY DEF JobStatus
  <1>1. ASSUME NEW r \in Requests, RequestAction(r) PROVE JobWrites
    <2>1. ASSUME CancelJob(r) \/ RetryJob(r) PROVE JobWrites
      BY <1>0, <2>1, HandsFull DEF CancelJob, RetryJob, JobWrites, AtItem
    <2> QED BY <1>1, <2>1 DEF RequestAction, RequestCancel, SelectQueued, CancelGeneration, CancelItem, FinishCancel,
         RequestRetry, RetryNext, RetryGeneration, RetryItem, FinishRetry, CancelNext, gens, JobWrites
  <1>2. ASSUME NEW w \in Workers, WorkerAction(w) PROVE JobWrites
    <2>1. ASSUME WriteJob(w) PROVE JobWrites
      <3>1. cur[w] \in Images
        BY <2>1, HandsFull DEF WriteJob
      <3> QED BY <1>0, <2>1, <3>1 DEF WriteJob, JobWrites
    <2>2. ASSUME ClearLease(w) PROVE JobWrites
      <3>1. cur[w] \in Images
        BY <2>2, HandsFull DEF ClearLease
      <3>2. job[cur[w]].status \in JobStatus
        BY <3>1 DEF BaseInv, Typed, JobRow
      <3> QED BY <2>2, <3>1, <3>2 DEF ClearLease, JobWrites
    <2> QED BY <1>2, <2>1, <2>2 DEF WorkerAction, Execute, BeginExecution, WriteGeneration, CrashWorker, gens, JobWrites
  <1>3. ASSUME NEW v \in Reviewers, ReviewAction(v) PROVE job' = job
    BY <1>3 DEF ReviewAction, ReviewStep, SaveEdits, ApproveText, CloseReview, BeginReview, gens
  <1>4. ASSUME NEW i \in Images, ImageAction(i) PROVE JobWrites
    BY <1>0, <1>4 DEF ImageAction, LoseImage, EndReplacement, Invalidate, InvalidationFails, InvalidateJobs, InvalidateGenerations,
       InvalidateItems, Invalid, gens, JobWrites
  <1>5. ASSUME NEW r \in Runners, NEW i \in Images, FlowStep(r, i) PROVE JobWrites
    BY <1>0, <1>5 DEF FlowStep, CheckCancelled, AcquireItem, CheckGeneration, InsertJob, InsertGeneration, SettleItem,
       gens, JobWrites
  <1>6. ASSUME NEW r \in Runners, RunnerAction(r) PROVE job' = job
    BY <1>6 DEF RunnerAction, SelectPending, CreateBatch, StartRun, FinishRun, gens
  <1>7. ASSUME NEW t \in Workers \cup Reviewers, Synchronise(t) PROVE job' = job
    BY <1>7 DEF Synchronise, SyncRead, SyncItem, Leave, gens
  <1>8. ASSUME NEW i \in Images, ScriptAction(i) PROVE JobWrites
    BY <1>0, <1>8 DEF ScriptAction, RecoverLease, ReconcileJob, ReconcileGeneration, ReconcileItem, gens, JobWrites
  <1> QED BY <1>1, <1>2, <1>3, <1>4, <1>5, <1>6, <1>7, <1>8, DeathKeeps, NextCases DEF ReconcileBatch, vars, gens, JobWrites

\* A job keeps its type, and only a claim counts an attempt.
LEMMA JobKept ==
  ASSUME BaseInv, JobWrites
  PROVE  /\ job' \in [Images -> JobRow]
         /\ \A i \in Images : job'[i].attempts = job[i].attempts \/ \E w \in Workers : ClaimJob(w, i)
         /\ \A i \in Images : job'[i].attempts >= job[i].attempts
  <1>0. job \in [Images -> JobRow] /\ \A i \in Images : job[i].attempts \in Nat
    BY MetadataAssumption DEF MetadataAssumption, BaseInv, Typed, JobRow
  <1>1. ASSUME NEW i \in Images, NEW s \in JobStatus, SetJob(i, s) \/ FreeJob(i, s)
        PROVE  job' \in [Images -> JobRow] /\ \A j \in Images : job'[j].attempts = job[j].attempts
    BY <1>0, <1>1 DEF SetJob, FreeJob, JobRow
  <1>2. ASSUME NEW w \in Workers, NEW i \in Images, ClaimJob(w, i)
        PROVE  /\ job' \in [Images -> JobRow] /\ job'[i].attempts = job[i].attempts + 1
               /\ \A j \in Images \ {i} : job'[j].attempts = job[j].attempts
    <2>1. job[i].attempts + 1 \in 0 .. MaxAttempts
      BY <1>0, <1>2, MetadataAssumption DEF MetadataAssumption, ClaimJob
    <2> QED BY <1>0, <1>2, <2>1 DEF ClaimJob, JobRow, JobStatus
  <1>3. CASE job' = job
    BY <1>0, <1>3 DEF JobRow
  <1>4. CASE \E i \in Images, s \in JobStatus : SetJob(i, s) \/ FreeJob(i, s)
    <2>1. job' \in [Images -> JobRow] /\ \A j \in Images : job'[j].attempts = job[j].attempts
      BY <1>1, <1>4
    <2> QED BY <1>0, <2>1
  <1>5. CASE \E w \in Workers, i \in Images : ClaimJob(w, i)
    <2>1. PICK w \in Workers, i \in Images : ClaimJob(w, i)
      BY <1>5
    <2>2. /\ job' \in [Images -> JobRow] /\ job'[i].attempts = job[i].attempts + 1
          /\ \A j \in Images \ {i} : job'[j].attempts = job[j].attempts
      BY <1>2, <2>1
    <2>3. \A j \in Images : job'[j].attempts = job[j].attempts \/ ClaimJob(w, j)
      BY <2>1, <2>2
    <2> QED BY <1>0, <2>2, <2>3
  <1> QED BY <1>3, <1>4, <1>5 DEF JobWrites

\* The statements that write an item.
ItemWrites ==
  \/ item' = item
  \/ \E r \in Runners : CreateBatch(r)
  \/ \E i \in Images, s \in ItemStatus \ {"pending"} : SetItem(i, s)

LEMMA ItemIsWritten ==
  ASSUME BaseInv, [Next]_vars
  PROVE  ItemWrites
  <1>0. \A s \in {"queued", "cancelled", "stale", "skipped", "failed"} : s \in ItemStatus \ {"pending"}
    BY DEF ItemStatus
  <1>1. ASSUME NEW r \in Requests, RequestAction(r) PROVE ItemWrites
    <2>1. ASSUME CancelItem(r) \/ RetryItem(r) PROVE ItemWrites
      BY <1>0, <2>1, HandsFull DEF CancelItem, RetryItem, ItemWrites, AtItem
    <2> QED BY <1>1, <2>1 DEF RequestAction, RequestCancel, SelectQueued, CancelGeneration, CancelJob, FinishCancel,
         RequestRetry, RetryNext, RetryJob, RetryGeneration, FinishRetry, CancelNext, rows, ItemWrites
  <1>2. ASSUME NEW w \in Workers, WorkerAction(w) PROVE item' = item
    BY <1>2 DEF WorkerAction, Execute, BeginExecution, WriteGeneration, WriteJob, ClearLease, ClaimJob, CrashWorker, rows
  <1>3. ASSUME NEW v \in Reviewers, ReviewAction(v) PROVE item' = item
    BY <1>3 DEF ReviewAction, ReviewStep, SaveEdits, ApproveText, CloseReview, BeginReview, rows
  <1>4. ASSUME NEW i \in Images, ImageAction(i) PROVE ItemWrites
    BY <1>0, <1>4 DEF ImageAction, LoseImage, EndReplacement, Invalidate, InvalidationFails, InvalidateJobs, InvalidateGenerations,
       InvalidateItems, Invalid, rows, ItemWrites
  <1>5. ASSUME NEW r \in Runners, NEW i \in Images, FlowStep(r, i) PROVE ItemWrites
    <2>1. at[<<r, i>>] \in DOMAIN Outcome => Outcome[at[<<r, i>>]] \in ItemStatus \ {"pending"}
      BY <1>0 DEF Outcome
    <2> QED BY <1>0, <1>5, <2>1 DEF FlowStep, CheckCancelled, AcquireItem, CheckGeneration, InsertJob, InsertGeneration,
       SettleItem, rows, ItemWrites
  <1>6. ASSUME NEW r \in Runners, RunnerAction(r) PROVE ItemWrites
    BY <1>6 DEF RunnerAction, SelectPending, StartRun, FinishRun, rows, ItemWrites
  <1>7. ASSUME NEW t \in Workers \cup Reviewers, Synchronise(t) PROVE ItemWrites
    <2>1. ASSUME SyncItem(t) PROVE cur[t] \in Images /\ seen[t].status \in ItemStatus \ {"pending"}
      BY <2>1, Kinds DEF SyncItem, BaseInv, Placed, Place
    <2> QED BY <1>7, <2>1 DEF Synchronise, SyncRead, SyncItem, Leave, rows, ItemWrites
  <1>8. ASSUME NEW i \in Images, ScriptAction(i) PROVE ItemWrites
    <2>1. linked[i] => Mapped(gen[i].status) \in ItemStatus \ {"pending"}
      BY MappedIsStatus DEF BaseInv, Linked, Typed, GenRow
    <2> QED BY <1>8, <2>1 DEF ScriptAction, RecoverLease, ReconcileJob, ReconcileGeneration, ReconcileItem, rows, ItemWrites
  <1> QED BY <1>1, <1>2, <1>3, <1>4, <1>5, <1>6, <1>7, <1>8, DeathKeeps, NextCases DEF ReconcileBatch, vars, rows, ItemWrites

\* Once the batch is created no item becomes pending again.
LEMMA ItemKept ==
  ASSUME BaseInv, ItemWrites
  PROVE  /\ item' \in [Images -> ItemStatus]
         /\ Exists => \A i \in Images : item'[i] = "pending" => item[i] = "pending"
  <1>0. item \in [Images -> ItemStatus]
    BY DEF BaseInv, Typed
  <1>1. ASSUME NEW r \in Runners, CreateBatch(r) PROVE item' \in [Images -> ItemStatus] /\ ~Exists
    BY <1>1 DEF CreateBatch, ItemStatus
  <1>2. ASSUME NEW i \in Images, NEW s \in ItemStatus \ {"pending"}, SetItem(i, s)
        PROVE  item' \in [Images -> ItemStatus] /\ \A j \in Images : item'[j] = "pending" => item[j] = "pending"
    BY <1>0, <1>2 DEF SetItem
  <1> QED BY <1>0, <1>1, <1>2 DEF ItemWrites

LEMMA BatchKept ==
  ASSUME BaseInv, [Next]_vars
  PROVE  batch' \in BatchRow /\ (Exists => Exists')
  <1>0. batch \in BatchRow
    BY DEF BaseInv, Typed
  <1>1. ASSUME NEW it, NEW b \in BatchRow, batch' = Recounted(it, b) PROVE batch' \in BatchRow /\ Exists'
    BY <1>1, RecountFits DEF Exists
  <1>2. ASSUME batch' = batch PROVE batch' \in BatchRow /\ (Exists => Exists')
    BY <1>0, <1>2 DEF Exists
  <1>3. ASSUME NEW s \in ActiveBatch \cup TerminalBatch, NEW c \in BOOLEAN, NEW n \in Nat,
               batch' = [batch EXCEPT !.status = s, !.cancel = c, !.eligible = n]
        PROVE  batch' \in BatchRow /\ Exists'
    BY <1>0, <1>3 DEF Exists, BatchRow, ActiveBatch, TerminalBatch
  <1>4. ASSUME NEW r \in Runners, RunnerAction(r) PROVE batch' \in BatchRow /\ (Exists => Exists')
    <2>1. Cardinality({i \in Images : Usable(i)}) \in Nat
      BY FS_Subset, FS_CardinalityType, MetadataAssumption DEF MetadataAssumption
    <2>2. ASSUME CreateBatch(r) PROVE batch' \in BatchRow /\ Exists'
      <3>1. batch' = [batch EXCEPT !.status = "queued", !.cancel = batch.cancel,
                                   !.eligible = Cardinality({i \in Images : Usable(i)})]
        BY <1>0, <2>2 DEF CreateBatch, BatchRow
      <3>2. batch.cancel \in BOOLEAN /\ "queued" \in ActiveBatch
        BY <1>0 DEF BatchRow, ActiveBatch
      <3> QED BY <1>3, <2>1, <3>1, <3>2
    <2>3. ASSUME batch' = [batch EXCEPT !.status = "running"] PROVE batch' \in BatchRow /\ Exists'
      BY <1>0, <2>3 DEF BatchRow, Exists, ActiveBatch
    <2> QED BY <1>0, <1>1, <1>2, <1>4, <2>2, <2>3 DEF RunnerAction, StartRun, SelectPending, FinishRun, rows
  <1>5. ASSUME NEW r \in Requests, RequestAction(r) PROVE batch' \in BatchRow /\ (Exists => Exists')
    <2>1. ASSUME RequestCancel(r) PROVE batch' \in BatchRow /\ Exists'
      BY <1>0, <2>1 DEF RequestCancel, BatchRow, Exists, ActiveBatch
    <2>2. ASSUME FinishRetry(r) PROVE batch' \in BatchRow /\ Exists'
      <3>1. [batch EXCEPT !.cancel = @ /\ seen[r].status # "retried"] \in BatchRow
        BY <1>0 DEF BatchRow
      <3> QED BY <1>1, <2>2, <3>1 DEF FinishRetry
    <2> QED BY <1>0, <1>1, <1>2, <1>5, <2>1, <2>2 DEF RequestAction, SelectQueued, CancelGeneration, CancelJob, CancelItem,
         FinishCancel, RequestRetry, RetryNext, RetryJob, RetryGeneration, RetryItem, CancelNext, rows
  <1>6. ASSUME NEW w \in Workers, WorkerAction(w) PROVE batch' = batch
    BY <1>6 DEF WorkerAction, Execute, BeginExecution, WriteGeneration, WriteJob, ClearLease, ClaimJob, CrashWorker, rows
  <1>7. ASSUME NEW v \in Reviewers, ReviewAction(v) PROVE batch' = batch
    BY <1>7 DEF ReviewAction, ReviewStep, SaveEdits, ApproveText, CloseReview, BeginReview, rows
  <1>8. ASSUME NEW i \in Images, ImageAction(i) PROVE batch' = batch \/ batch' = Recounted(item', batch)
    BY <1>8 DEF ImageAction, LoseImage, EndReplacement, Invalidate, InvalidationFails, InvalidateJobs, InvalidateGenerations, InvalidateItems, rows
  <1>9. ASSUME NEW r \in Runners, NEW i \in Images, FlowStep(r, i) PROVE batch' = batch
    BY <1>9 DEF FlowStep, CheckCancelled, AcquireItem, CheckGeneration, InsertJob, InsertGeneration, SettleItem, rows
  <1>10. ASSUME NEW t \in Workers \cup Reviewers, Synchronise(t) PROVE batch' = batch \/ batch' = Recounted(item', batch)
    BY <1>10 DEF Synchronise, SyncRead, SyncItem, Leave, rows
  <1>11. ASSUME NEW i \in Images, ScriptAction(i) PROVE batch' = batch \/ batch' = Recounted(item', batch)
    BY <1>11 DEF ScriptAction, RecoverLease, ReconcileJob, ReconcileGeneration, ReconcileItem, rows
  <1> QED BY <1>0, <1>1, <1>2, <1>4, <1>5, <1>6, <1>7, <1>8, <1>9, <1>10, <1>11, DeathKeeps, NextCases DEF ReconcileBatch, vars, rows

LEMMA ImageWritten ==
  ASSUME [Next]_vars
  PROVE  image' = image \/ \E i \in Images : LoseImage(i) \/ EndReplacement(i)
  <1>1. ASSUME NEW r \in Requests, RequestAction(r) PROVE image' = image
    BY <1>1 DEF RequestAction, RequestCancel, SelectQueued, CancelGeneration, CancelJob, CancelItem, FinishCancel,
       RequestRetry, RetryNext, RetryJob, RetryGeneration, RetryItem, FinishRetry, CancelNext
  <1>2. ASSUME NEW w \in Workers, WorkerAction(w) PROVE image' = image
    BY <1>2 DEF WorkerAction, Execute, BeginExecution, WriteGeneration, WriteJob, ClearLease, ClaimJob, CrashWorker
  <1>3. ASSUME NEW v \in Reviewers, ReviewAction(v) PROVE image' = image
    BY <1>3 DEF ReviewAction, ReviewStep, SaveEdits, ApproveText, CloseReview, BeginReview
  <1>4. ASSUME NEW i \in Images, ImageAction(i) PROVE image' = image \/ LoseImage(i) \/ EndReplacement(i)
    BY <1>4 DEF ImageAction, Invalidate, InvalidationFails, InvalidateJobs, InvalidateGenerations, InvalidateItems
  <1>5. ASSUME NEW r \in Runners, NEW i \in Images, FlowStep(r, i) PROVE image' = image
    BY <1>5 DEF FlowStep, CheckCancelled, AcquireItem, CheckGeneration, InsertJob, InsertGeneration, SettleItem
  <1>6. ASSUME NEW r \in Runners, RunnerAction(r) PROVE image' = image
    BY <1>6 DEF RunnerAction, SelectPending, CreateBatch, StartRun, FinishRun
  <1>7. ASSUME NEW t \in Workers \cup Reviewers, Synchronise(t) PROVE image' = image
    BY <1>7 DEF Synchronise, SyncRead, SyncItem, Leave
  <1>8. ASSUME NEW i \in Images, ScriptAction(i) PROVE image' = image
    BY <1>8 DEF ScriptAction, RecoverLease, ReconcileJob, ReconcileGeneration, ReconcileItem
  <1> QED BY <1>1, <1>2, <1>3, <1>4, <1>5, <1>6, <1>7, <1>8, DeathKeeps, NextCases DEF ReconcileBatch, vars

LEMMA ImageKept ==
  ASSUME BaseInv, [Next]_vars
  PROVE  /\ image' \in [Images -> ImageRow] /\ Room'
         /\ \A i \in Images : image'[i].revision >= image[i].revision
  <1>0. image \in [Images -> ImageRow] /\ Room /\ MaxRevisions \in Nat
    BY MetadataAssumption DEF MetadataAssumption, BaseInv, Typed
  <1>1. ASSUME NEW i \in Images, LoseImage(i)
        PROVE  image' \in [Images -> ImageRow] /\ Room' /\ \A j \in Images : image'[j].revision >= image[j].revision
    <2>1. \/ image' = [image EXCEPT ![i].gone = TRUE]
          \/ image[i].revision < MaxRevisions /\ image' = [image EXCEPT ![i].open = TRUE]
      BY <1>1 DEF LoseImage
    <2>2. \A j \in Images : image'[j].revision = image[j].revision /\ image[j].revision \in Nat
      BY <1>0, <2>1 DEF ImageRow
    <2>3. image' \in [Images -> ImageRow]
      BY <1>0, <2>1 DEF ImageRow
    <2>4. Room'
      BY <1>0, <2>1 DEF ImageRow, Room
    <2> QED BY <2>2, <2>3, <2>4
  <1>2. ASSUME NEW i \in Images, EndReplacement(i)
        PROVE  image' \in [Images -> ImageRow] /\ Room' /\ \A j \in Images : image'[j].revision >= image[j].revision
    <2>1. PICK n \in {0, 1} : image' = [image EXCEPT ![i].open = FALSE, ![i].revision = @ + n]
      BY <1>2 DEF EndReplacement
    <2>2. image[i].revision < MaxRevisions
      BY <1>0, <1>2 DEF EndReplacement, Room
    <2> DEFINE row == [image[i] EXCEPT !.open = FALSE, !.revision = @ + n]
    <2>3. image' = [image EXCEPT ![i] = row]
      BY <1>0, <2>1 DEF ImageRow
    <2>4. row \in ImageRow /\ row.revision >= image[i].revision /\ row.open = FALSE
      <3> DEFINE m == image[i].revision + n
      <3>1. image[i] \in ImageRow
        BY <1>0
      <3>2. m \in 1 .. MaxRevisions /\ m >= image[i].revision
        BY <1>0, <2>2, <3>1 DEF ImageRow
      <3> HIDE DEF m
      <3>3. row = [image[i] EXCEPT !.open = FALSE, !.revision = m]
        BY DEF m
      <3> HIDE DEF row
      <3>4. row \in ImageRow /\ row.open = FALSE /\ row.revision = m
        BY <3>1, <3>2, <3>3 DEF ImageRow
      <3> QED BY <3>2, <3>4
    <2> HIDE DEF row
    <2>5. image' \in [Images -> ImageRow]
      BY <1>0, <2>3, <2>4
    <2>6. image'[i] = row /\ \A j \in Images \ {i} : image'[j] = image[j]
      BY <1>0, <2>3
    <2>7. \A j \in Images : image[j].revision >= image[j].revision
      BY <1>0 DEF ImageRow
    <2> QED BY <1>0, <2>4, <2>5, <2>6, <2>7 DEF Room
  <1>4. CASE image' = image
    BY <1>0, <1>4 DEF Room, ImageRow
  <1> QED BY <1>1, <1>2, <1>4, ImageWritten

LEMMA CountersKept ==
  ASSUME BaseInv, [Next]_vars
  PROVE  /\ ops' \in 0 .. MaxOps /\ faults' \in 0 .. MaxFaults
         /\ ops' >= ops /\ faults' >= faults
         /\ faults' # faults => faults < MaxFaults /\ faults' = faults + 1
  <1>0. ops \in 0 .. MaxOps /\ faults \in 0 .. MaxFaults /\ MaxOps \in Nat /\ MaxFaults \in Nat
    BY MetadataAssumption DEF MetadataAssumption, BaseInv, Typed
  <1>1. ops' = ops \/ (ops < MaxOps /\ ops' = ops + 1)
    <2>0. \A t : BeginOp(t) => ops < MaxOps /\ ops' = ops + 1
      BY DEF BeginOp
    <2>1. ASSUME NEW r \in Requests, RequestAction(r) PROVE ops' = ops \/ (ops < MaxOps /\ ops' = ops + 1)
      BY <2>0, <2>1 DEF RequestAction, RequestCancel, SelectQueued, CancelGeneration, CancelJob, CancelItem, FinishCancel,
         RequestRetry, RetryNext, RetryJob, RetryGeneration, RetryItem, FinishRetry, CancelNext, counters
    <2>2. ASSUME NEW w \in Workers, WorkerAction(w) PROVE ops' = ops
      BY <2>2 DEF WorkerAction, Execute, BeginExecution, WriteGeneration, WriteJob, ClearLease, ClaimJob, CrashWorker, counters
    <2>3. ASSUME NEW v \in Reviewers, ReviewAction(v) PROVE ops' = ops \/ (ops < MaxOps /\ ops' = ops + 1)
      BY <2>0, <2>3 DEF ReviewAction, ReviewStep, SaveEdits, ApproveText, CloseReview, BeginReview, counters
    <2>4. ASSUME NEW i \in Images, ImageAction(i) PROVE ops' = ops \/ (ops < MaxOps /\ ops' = ops + 1)
      BY <2>0, <2>4 DEF ImageAction, LoseImage, EndReplacement, Invalidate, InvalidationFails, InvalidateJobs,
         InvalidateGenerations, InvalidateItems, counters
    <2>5. ASSUME NEW r \in Runners, NEW i \in Images, FlowStep(r, i) PROVE ops' = ops
      BY <2>5 DEF FlowStep, CheckCancelled, AcquireItem, CheckGeneration, InsertJob, InsertGeneration, SettleItem, counters
    <2>6. ASSUME NEW r \in Runners, RunnerAction(r) PROVE ops' = ops \/ (ops < MaxOps /\ ops' = ops + 1)
      BY <2>0, <2>6 DEF RunnerAction, SelectPending, CreateBatch, StartRun, FinishRun, counters
    <2>7. ASSUME NEW t \in Workers \cup Reviewers, Synchronise(t) PROVE ops' = ops
      BY <2>7 DEF Synchronise, SyncRead, SyncItem, Leave, counters
    <2>8. ASSUME NEW i \in Images, ScriptAction(i) PROVE ops' = ops
      BY <2>8 DEF ScriptAction, RecoverLease, ReconcileJob, ReconcileGeneration, ReconcileItem, counters
    <2> QED BY <2>1, <2>2, <2>3, <2>4, <2>5, <2>6, <2>7, <2>8, DeathKeeps, NextCases DEF ReconcileBatch, vars, counters
  <1>2. faults' = faults \/ (faults < MaxFaults /\ faults' = faults + 1)
    <2>0. \A f : Fault(f) => faults < MaxFaults /\ faults' = faults + 1
      BY DEF Fault
    <2>1. ASSUME NEW r \in Requests, RequestAction(r) PROVE faults' = faults
      BY <2>1 DEF RequestAction, RequestCancel, SelectQueued, CancelGeneration, CancelJob, CancelItem, FinishCancel,
         RequestRetry, RetryNext, RetryJob, RetryGeneration, RetryItem, FinishRetry, CancelNext, counters
    <2>2. ASSUME NEW w \in Workers, WorkerAction(w) PROVE faults' = faults \/ (faults < MaxFaults /\ faults' = faults + 1)
      BY <2>0, <2>2 DEF WorkerAction, Execute, BeginExecution, WriteGeneration, WriteJob, ClearLease, ClaimJob, CrashWorker, counters
    <2>3. ASSUME NEW v \in Reviewers, ReviewAction(v) PROVE faults' = faults
      BY <2>3 DEF ReviewAction, ReviewStep, SaveEdits, ApproveText, CloseReview, BeginReview, counters
    <2>4. ASSUME NEW i \in Images, ImageAction(i) PROVE faults' = faults \/ (faults < MaxFaults /\ faults' = faults + 1)
      BY <2>0, <2>4 DEF ImageAction, LoseImage, EndReplacement, Invalidate, InvalidationFails, InvalidateJobs, InvalidateGenerations, InvalidateItems, counters
    <2>5. ASSUME NEW r \in Runners, NEW i \in Images, FlowStep(r, i) PROVE faults' = faults \/ (faults < MaxFaults /\ faults' = faults + 1)
      BY <2>0, <2>5 DEF FlowStep, CheckCancelled, AcquireItem, CheckGeneration, InsertJob, InsertGeneration, SettleItem, counters
    <2>6. ASSUME NEW r \in Runners, RunnerAction(r) PROVE faults' = faults
      BY <2>6 DEF RunnerAction, SelectPending, CreateBatch, StartRun, FinishRun, counters
    <2>7. ASSUME NEW t \in Workers \cup Reviewers, Synchronise(t) PROVE faults' = faults
      BY <2>7 DEF Synchronise, SyncRead, SyncItem, Leave, counters
    <2>8. ASSUME NEW i \in Images, ScriptAction(i) PROVE faults' = faults \/ (faults < MaxFaults /\ faults' = faults + 1)
      BY <2>0, <2>8 DEF ScriptAction, RecoverLease, ReconcileJob, ReconcileGeneration, ReconcileItem, counters
    <2> QED BY <2>0, <2>1, <2>2, <2>3, <2>4, <2>5, <2>6, <2>7, <2>8, DeathKeeps, NextCases DEF ReconcileBatch, vars, counters
  <1>3. ops' \in 0 .. MaxOps /\ ops' >= ops
    BY <1>0, <1>1
  <1>4. faults' \in 0 .. MaxFaults /\ faults' >= faults
    BY <1>0, <1>2
  <1> QED BY <1>1, <1>2, <1>3, <1>4

\* The writes that make a job torn.
LEMMA TornActs ==
  ASSUME BaseInv, [Next]_vars, torn' # torn
  PROVE  \/ \E i \in Images, b \in BOOLEAN : torn' = [torn EXCEPT ![i] = @ \/ b]
         \/ \E t \in Mortals : RequestDies(t)
  <1>0. ~UNCHANGED gens
    BY DEF gens
  <1> DEFINE Tears(i) == \E b \in BOOLEAN : torn' = [torn EXCEPT ![i] = @ \/ b]
  <1>1. ASSUME NEW i \in Images, NEW b, torn' = [torn EXCEPT ![i] = @ \/ b] PROVE Tears(i)
    <2>1. CASE b
      BY <1>1, <2>1
    <2>2. CASE ~b
      BY <1>1, <2>2
    <2> QED BY <2>1, <2>2
  <1> HIDE DEF Tears
  <1>2. ASSUME NEW r \in Requests, RequestAction(r) PROVE \E i \in Images : Tears(i)
    <2>1. CASE CancelJob(r)
      <3>1. cur[r] \in Images
        BY <2>1, HandsFull DEF CancelJob, AtItem
      <3> QED BY <1>1, <2>1, <3>1 DEF CancelJob
    <2>2. CASE RetryJob(r)
      <3>1. cur[r] \in Images
        BY <2>2, HandsFull DEF RetryJob, AtItem
      <3> QED BY <1>1, <2>2, <3>1 DEF RetryJob
    <2> QED BY <1>0, <1>2, <2>1, <2>2 DEF RequestAction, RequestCancel, SelectQueued, CancelGeneration, CancelItem, FinishCancel,
         RequestRetry, RetryNext, RetryGeneration, RetryItem, FinishRetry, CancelNext, gens
  <1>3. ASSUME NEW w \in Workers, WorkerAction(w) PROVE \E i \in Images : Tears(i)
    <2>1. ASSUME NEW i \in Images, ClaimJob(w, i) PROVE Tears(i)
      BY <1>1, <2>1 DEF ClaimJob
    <2> QED BY <1>0, <1>3, <2>1 DEF WorkerAction, Execute, BeginExecution, WriteGeneration, WriteJob, ClearLease, CrashWorker, gens
  <1>4. ASSUME NEW v \in Reviewers, ReviewAction(v) PROVE FALSE
    BY <1>0, <1>4 DEF ReviewAction, ReviewStep, SaveEdits, ApproveText, CloseReview, BeginReview, gens
  <1>5. ASSUME NEW i \in Images, ImageAction(i) PROVE Tears(i)
    <2>1. CASE InvalidateJobs(i)
      BY <1>1, <2>1 DEF InvalidateJobs
    <2>2. CASE InvalidationFails(i)
      BY <1>1, <2>2 DEF InvalidationFails
    <2> QED BY <1>0, <1>5, <2>1, <2>2 DEF ImageAction, LoseImage, EndReplacement, Invalidate, InvalidateGenerations, InvalidateItems, gens
  <1>6. ASSUME NEW r \in Runners, NEW i \in Images, FlowStep(r, i) PROVE FALSE
    BY <1>0, <1>6 DEF FlowStep, CheckCancelled, AcquireItem, CheckGeneration, InsertJob, InsertGeneration, SettleItem, gens
  <1>7. ASSUME NEW r \in Runners, RunnerAction(r) PROVE FALSE
    BY <1>0, <1>7 DEF RunnerAction, SelectPending, CreateBatch, StartRun, FinishRun, gens
  <1>8. ASSUME NEW t \in Workers \cup Reviewers, Synchronise(t) PROVE FALSE
    BY <1>0, <1>8 DEF Synchronise, SyncRead, SyncItem, Leave, gens
  <1>9. ASSUME NEW i \in Images, ScriptAction(i) PROVE FALSE
    BY <1>0, <1>9 DEF ScriptAction, RecoverLease, ReconcileJob, ReconcileGeneration, ReconcileItem, gens
  <1>10. ~ReconcileBatch /\ ~UNCHANGED vars
    BY <1>0 DEF ReconcileBatch, vars
  <1>11. (\E i \in Images : Tears(i)) \/ \E t \in Mortals : RequestDies(t)
    BY <1>2, <1>3, <1>4, <1>5, <1>6, <1>7, <1>8, <1>9, <1>10, NextCases
  <1> QED BY <1>11 DEF Tears

LEMMA HistoryKept ==
  ASSUME BaseInv, [Next]_vars
  PROVE  /\ torn' \in [Images -> BOOLEAN] /\ linked' \in [Images -> BOOLEAN] /\ approved' \in [Images -> Nat]
         /\ approved' # approved =>
              \E v \in Reviewers : /\ ApproveText(v) /\ cur[v] \in Images
                                   /\ approved' = [approved EXCEPT ![cur[v]] = seen[v].text]
         /\ linked' # linked =>
              \E r \in Runners, i \in Images : at[<<r, i>>] = "link" /\ linked' = [linked EXCEPT ![i] = TRUE]
  <1>0. torn \in [Images -> BOOLEAN] /\ linked \in [Images -> BOOLEAN] /\ approved \in [Images -> Nat]
    BY DEF BaseInv, Typed
  <1>1. torn' = torn \/ (\E i \in Images, b \in BOOLEAN : torn' = [torn EXCEPT ![i] = @ \/ b]) \/ \E t \in Mortals : RequestDies(t)
    BY TornActs
  <1>2. approved' = approved \/ \E v \in Reviewers : /\ ApproveText(v) /\ cur[v] \in Images
                                                     /\ approved' = [approved EXCEPT ![cur[v]] = seen[v].text]
    <2>1. ASSUME NEW r \in Requests, RequestAction(r) PROVE approved' = approved
      BY <2>1 DEF RequestAction, RequestCancel, SelectQueued, CancelGeneration, CancelJob, CancelItem, FinishCancel,
         RequestRetry, RetryNext, RetryJob, RetryGeneration, RetryItem, FinishRetry, CancelNext, gens
    <2>2. ASSUME NEW w \in Workers, WorkerAction(w) PROVE approved' = approved
      BY <2>2 DEF WorkerAction, Execute, BeginExecution, WriteGeneration, WriteJob, ClearLease, ClaimJob, CrashWorker, gens
    <2>3. ASSUME NEW v \in Reviewers, ReviewAction(v), ~ApproveText(v) PROVE approved' = approved
      BY <2>3 DEF ReviewAction, ReviewStep, SaveEdits, CloseReview, BeginReview, gens
    <2>4. ASSUME NEW i \in Images, ImageAction(i) PROVE approved' = approved
      BY <2>4 DEF ImageAction, LoseImage, EndReplacement, Invalidate, InvalidationFails, InvalidateJobs, InvalidateGenerations, InvalidateItems, gens
    <2>5. ASSUME NEW r \in Runners, NEW i \in Images, FlowStep(r, i) PROVE approved' = approved
      BY <2>5 DEF FlowStep, CheckCancelled, AcquireItem, CheckGeneration, InsertJob, InsertGeneration, SettleItem, gens
    <2>6. ASSUME NEW r \in Runners, RunnerAction(r) PROVE approved' = approved
      BY <2>6 DEF RunnerAction, SelectPending, CreateBatch, StartRun, FinishRun, gens
    <2>7. ASSUME NEW t \in Workers \cup Reviewers, Synchronise(t) PROVE approved' = approved
      BY <2>7 DEF Synchronise, SyncRead, SyncItem, Leave, gens
    <2>8. ASSUME NEW i \in Images, ScriptAction(i) PROVE approved' = approved
      BY <2>8 DEF ScriptAction, RecoverLease, ReconcileJob, ReconcileGeneration, ReconcileItem, gens
    <2>9. ASSUME NEW v \in Reviewers, ApproveText(v)
          PROVE  cur[v] \in Images /\ approved' = [approved EXCEPT ![cur[v]] = seen[v].text]
      BY <2>9, HandsFull DEF ApproveText
    <2> QED BY <2>1, <2>2, <2>3, <2>4, <2>5, <2>6, <2>7, <2>8, <2>9, DeathKeeps, NextCases DEF ReconcileBatch, vars, gens
  <1>3. linked' = linked \/ \E r \in Runners, i \in Images : at[<<r, i>>] = "link" /\ linked' = [linked EXCEPT ![i] = TRUE]
    <2>1. ASSUME NEW r \in Requests, RequestAction(r) PROVE linked' = linked
      BY <2>1 DEF RequestAction, RequestCancel, SelectQueued, CancelGeneration, CancelJob, CancelItem, FinishCancel,
         RequestRetry, RetryNext, RetryJob, RetryGeneration, RetryItem, FinishRetry, CancelNext, rows
    <2>2. ASSUME NEW w \in Workers, WorkerAction(w) PROVE linked' = linked
      BY <2>2 DEF WorkerAction, Execute, BeginExecution, WriteGeneration, WriteJob, ClearLease, ClaimJob, CrashWorker, rows
    <2>3. ASSUME NEW v \in Reviewers, ReviewAction(v) PROVE linked' = linked
      BY <2>3 DEF ReviewAction, ReviewStep, SaveEdits, ApproveText, CloseReview, BeginReview, rows
    <2>4. ASSUME NEW i \in Images, ImageAction(i) PROVE linked' = linked
      BY <2>4 DEF ImageAction, LoseImage, EndReplacement, Invalidate, InvalidationFails, InvalidateJobs, InvalidateGenerations, InvalidateItems, rows
    <2>5. ASSUME NEW r \in Runners, NEW i \in Images, FlowStep(r, i)
          PROVE  linked' = linked \/ (at[<<r, i>>] = "link" /\ linked' = [linked EXCEPT ![i] = TRUE])
      <3>1. CASE SettleItem(r, i)
        <4>1. linked' = [linked EXCEPT ![i] = linked[i] \/ at[<<r, i>>] = "link"]
          BY <1>0, <3>1 DEF SettleItem
        <4>2. CASE at[<<r, i>>] = "link"
          BY <1>0, <4>1, <4>2
        <4>3. CASE at[<<r, i>>] # "link"
          BY <1>0, <4>1, <4>3
        <4> QED BY <4>2, <4>3
      <3> QED BY <2>5, <3>1 DEF FlowStep, CheckCancelled, AcquireItem, CheckGeneration, InsertJob, InsertGeneration, rows
    <2>6. ASSUME NEW r \in Runners, RunnerAction(r) PROVE linked' = linked
      BY <2>6 DEF RunnerAction, SelectPending, CreateBatch, StartRun, FinishRun, rows
    <2>7. ASSUME NEW t \in Workers \cup Reviewers, Synchronise(t) PROVE linked' = linked
      BY <2>7 DEF Synchronise, SyncRead, SyncItem, Leave, rows
    <2>8. ASSUME NEW i \in Images, ScriptAction(i) PROVE linked' = linked
      BY <2>8 DEF ScriptAction, RecoverLease, ReconcileJob, ReconcileGeneration, ReconcileItem, rows
    <2> QED BY <2>1, <2>2, <2>3, <2>4, <2>5, <2>6, <2>7, <2>8, DeathKeeps, NextCases DEF ReconcileBatch, vars, rows
  <1>4. torn' \in [Images -> BOOLEAN]
    <2>1. ASSUME NEW t \in Mortals, RequestDies(t) PROVE torn' \in [Images -> BOOLEAN]
      <3>1. torn' = [i \in Images |-> torn[i] \/ (i = t /\ CutShort(i))]
        BY <2>1 DEF RequestDies
      <3>2. \A i \in Images : (torn[i] \/ (i = t /\ CutShort(i))) \in BOOLEAN
        OBVIOUS
      <3> QED BY <3>1, <3>2
    <2> QED BY <1>0, <1>1, <2>1
  <1>5. linked' \in [Images -> BOOLEAN]
    BY <1>0, <1>3
  <1>6. approved' \in [Images -> Nat]
    <2>1. \A v \in Reviewers : seen[v].text \in Nat
      BY Kinds DEF BaseInv, Typed, Reading
    <2> QED BY <1>0, <1>2, <2>1
  <1> QED BY <1>2, <1>3, <1>4, <1>5, <1>6

-----------------------------------------------------------------------------
(* Who moves: a task stays where it is, it takes its own step, or it dies *)

LEMMA RequestMover ==
  ASSUME BaseInv, [Next]_vars, NEW r \in Requests
  PROVE  Stays(r) \/ RequestAction(r) \/ (at'[r] = "idle" /\ \E t \in Mortals : RequestDies(t))
  <1>0. r \in Tasks
    BY Kinds
  <1>1. ASSUME NEW t \in Tasks \ {r}, Moves(t) PROVE Stays(r)
    BY <1>0, <1>1, MoverStays
  <1>2. ASSUME NEW t \in Workers \cup Reviewers, Synchronise(t) PROVE Stays(r)
    BY <1>1, <1>2, SynchroniseMoves, Kinds
  <1>3. ASSUME NEW s \in Runners, RunnerAction(s) PROVE Stays(r)
    BY <1>0, <1>3, RunnerMoves, Kinds DEF Stays
  <1>4. ASSUME NEW s \in Runners, NEW i \in Images, FlowStep(s, i) PROVE Stays(r)
    BY <1>1, <1>4, FlowMoves, Kinds
  <1>5. ASSUME NEW s \in Requests, RequestAction(s), s # r PROVE Stays(r)
    BY <1>1, <1>5, RequestMoves, Kinds
  <1>6. ASSUME NEW w \in Workers, WorkerAction(w) PROVE Stays(r)
    BY <1>1, <1>6, WorkerMoves, Kinds
  <1>7. ASSUME NEW v \in Reviewers, ReviewAction(v) PROVE Stays(r)
    BY <1>1, <1>7, ReviewMoves, Kinds
  <1>8. ASSUME NEW i \in Images, ImageAction(i) PROVE Stays(r)
    BY <1>1, <1>8, ImageMoves, Kinds
  <1>9. ASSUME NEW t \in Mortals, RequestDies(t) PROVE at'[r] = "idle" \/ Stays(r)
    BY <1>0, <1>9, Dying
  <1> QED BY <1>2, <1>3, <1>4, <1>5, <1>6, <1>7, <1>8, <1>9, OthersStay, NextCases DEF Stays

LEMMA WorkerMover ==
  ASSUME BaseInv, [Next]_vars, NEW w \in Workers
  PROVE  Stays(w) \/ WorkerAction(w) \/ Synchronise(w)
  <1>0. w \in Tasks
    BY Kinds
  <1>1. ASSUME NEW t \in Tasks \ {w}, Moves(t) PROVE Stays(w)
    BY <1>0, <1>1, MoverStays
  <1>2. ASSUME NEW t \in Workers \cup Reviewers, Synchronise(t), t # w PROVE Stays(w)
    BY <1>1, <1>2, SynchroniseMoves, Kinds
  <1>3. ASSUME NEW s \in Runners, RunnerAction(s) PROVE Stays(w)
    BY <1>0, <1>3, RunnerMoves, Kinds DEF Stays
  <1>4. ASSUME NEW s \in Runners, NEW i \in Images, FlowStep(s, i) PROVE Stays(w)
    BY <1>1, <1>4, FlowMoves, Kinds
  <1>5. ASSUME NEW s \in Requests, RequestAction(s) PROVE Stays(w)
    BY <1>1, <1>5, RequestMoves, Kinds
  <1>6. ASSUME NEW u \in Workers, WorkerAction(u), u # w PROVE Stays(w)
    BY <1>1, <1>6, WorkerMoves, Kinds
  <1>7. ASSUME NEW v \in Reviewers, ReviewAction(v) PROVE Stays(w)
    BY <1>1, <1>7, ReviewMoves, Kinds
  <1>8. ASSUME NEW i \in Images, ImageAction(i) PROVE Stays(w)
    BY <1>1, <1>8, ImageMoves, Kinds
  <1>9. ASSUME NEW t \in Mortals, RequestDies(t) PROVE Stays(w)
    BY <1>0, <1>9, Dying
  <1> QED BY <1>2, <1>3, <1>4, <1>5, <1>6, <1>7, <1>8, <1>9, OthersStay, NextCases DEF Stays

LEMMA ReviewMover ==
  ASSUME BaseInv, [Next]_vars, NEW v \in Reviewers
  PROVE  at'[v] = "idle" \/ Stays(v) \/ ReviewAction(v) \/ Synchronise(v)
  <1>0. v \in Tasks
    BY Kinds
  <1>1. ASSUME NEW t \in Tasks \ {v}, Moves(t) PROVE Stays(v)
    BY <1>0, <1>1, MoverStays
  <1>2. ASSUME NEW t \in Workers \cup Reviewers, Synchronise(t), t # v PROVE Stays(v)
    BY <1>1, <1>2, SynchroniseMoves, Kinds
  <1>3. ASSUME NEW s \in Runners, RunnerAction(s) PROVE Stays(v)
    BY <1>0, <1>3, RunnerMoves, Kinds DEF Stays
  <1>4. ASSUME NEW s \in Runners, NEW i \in Images, FlowStep(s, i) PROVE Stays(v)
    BY <1>1, <1>4, FlowMoves, Kinds
  <1>5. ASSUME NEW s \in Requests, RequestAction(s) PROVE Stays(v)
    BY <1>1, <1>5, RequestMoves, Kinds
  <1>6. ASSUME NEW u \in Workers, WorkerAction(u) PROVE Stays(v)
    BY <1>1, <1>6, WorkerMoves, Kinds
  <1>7. ASSUME NEW u \in Reviewers, ReviewAction(u), u # v PROVE Stays(v)
    BY <1>1, <1>7, ReviewMoves, Kinds
  <1>8. ASSUME NEW i \in Images, ImageAction(i) PROVE Stays(v)
    BY <1>1, <1>8, ImageMoves, Kinds
  <1>9. ASSUME NEW t \in Mortals, RequestDies(t) PROVE at'[v] = "idle" \/ Stays(v)
    BY <1>0, <1>9, Dying
  <1> QED BY <1>2, <1>3, <1>4, <1>5, <1>6, <1>7, <1>8, <1>9, OthersStay, NextCases DEF Stays

LEMMA FlowMover ==
  ASSUME BaseInv, [Next]_vars, NEW r \in Runners, NEW i \in Images
  PROVE  \/ at'[<<r, i>>] = "idle" /\ \E t \in Mortals : RequestDies(t)
         \/ Stays(<<r, i>>)
         \/ FlowStep(r, i)
         \/ RunnerAction(r) /\ item[i] = "pending" /\ at'[<<r, i>>] = "todo" /\ seen'[<<r, i>>] = seen[<<r, i>>]
  <1> DEFINE f == <<r, i>>
  <1>0. f \in Tasks /\ f \in Flows
    BY Kinds
  <1>1. ASSUME NEW t \in Tasks \ {f}, Moves(t) PROVE Stays(f)
    BY <1>0, <1>1, MoverStays
  <1>2. ASSUME NEW t \in Workers \cup Reviewers, Synchronise(t) PROVE Stays(f)
    BY <1>0, <1>1, <1>2, SynchroniseMoves, Kinds
  <1>3. ASSUME NEW s \in Runners, RunnerAction(s)
        PROVE  Stays(f) \/ (s = r /\ item[i] = "pending" /\ at'[f] = "todo" /\ seen'[f] = seen[f])
    <2>1. f # s /\ UNCHANGED <<cur, seen>>
      BY <1>0, <1>3, RunnerMoves, Kinds
    <2>2. at'[f] = at[f] \/ \E j \in Images : f = <<s, j>> /\ item[j] = "pending" /\ at'[f] = "todo"
      BY <1>0, <1>3, <2>1, RunnerMoves
    <2> QED BY <2>1, <2>2 DEF Stays
  <1>4. ASSUME NEW s \in Runners, NEW j \in Images, FlowStep(s, j) PROVE Stays(f) \/ (s = r /\ j = i)
    <2>1. CASE <<s, j>> # f
      BY <1>0, <1>1, <1>4, <2>1, FlowMoves, Kinds
    <2>2. CASE <<s, j>> = f
      BY <2>2
    <2> QED BY <2>1, <2>2
  <1>5. ASSUME NEW s \in Requests, RequestAction(s) PROVE Stays(f)
    BY <1>0, <1>1, <1>5, RequestMoves, Kinds
  <1>6. ASSUME NEW u \in Workers, WorkerAction(u) PROVE Stays(f)
    BY <1>0, <1>1, <1>6, WorkerMoves, Kinds
  <1>7. ASSUME NEW u \in Reviewers, ReviewAction(u) PROVE Stays(f)
    BY <1>0, <1>1, <1>7, ReviewMoves, Kinds
  <1>8. ASSUME NEW j \in Images, ImageAction(j) PROVE Stays(f)
    BY <1>0, <1>1, <1>8, ImageMoves, Kinds
  <1>9. UNCHANGED <<at, cur, seen>> => Stays(f)
    BY DEF Stays
  <1>10. ASSUME NEW t \in Mortals, RequestDies(t) PROVE at'[f] = "idle" \/ Stays(f)
    BY <1>0, <1>10, Dying
  <1> QED BY <1>2, <1>3, <1>4, <1>5, <1>6, <1>7, <1>8, <1>9, <1>10, OthersStay, NextCases

LEMMA LinkedKept ==
  ASSUME BaseInv, [Next]_vars
  PROVE  Linked'
  <1>1. \A i \in Images : gen[i].status # "none" => gen'[i].status # "none"
    BY GenIsWritten, GenKept
  <1>2. ASSUME NEW i \in Images, linked'[i] PROVE gen'[i].status # "none"
    <2>1. linked[i] \/ \E r \in Runners : at[<<r, i>>] = "link"
      BY <1>2, HistoryKept DEF BaseInv, Typed
    <2> QED BY <1>1, <2>1 DEF BaseInv, Linked
  <1>3. ASSUME NEW r \in Runners, NEW i \in Images, at'[<<r, i>>] = "link" PROVE gen'[i].status # "none"
    <2>1. CASE at[<<r, i>>] = "link"
      BY <1>1, <2>1 DEF BaseInv, Linked
    <2>2. CASE at[<<r, i>>] # "link"
      <3>1. FlowStep(r, i)
        BY <1>3, <2>2, FlowMover DEF Stays
      <3>2. \A pc : Goto(<<r, i>>, pc) => pc = "link"
        BY <1>3, GotoMoves, Kinds
      <3>3. InsertGeneration(r, i)
        BY <3>1, <3>2 DEF FlowStep, CheckCancelled, AcquireItem, CheckGeneration, InsertJob, SettleItem
      <3>4. gen'[i].status = "queued"
        BY <3>3 DEF InsertGeneration, BaseInv, Typed, GenRow
      <3> QED BY <3>4
    <2> QED BY <2>1, <2>2
  <1> QED BY <1>2, <1>3 DEF Linked

LEMMA BaseNext ==
  ASSUME BaseInv, [Next]_vars
  PROVE  BaseInv'
  <1>1. image' \in [Images -> ImageRow] /\ Room'
    BY ImageKept
  <1>2. gen' \in [Images -> GenRow] /\ job' \in [Images -> JobRow]
    BY GenIsWritten, GenKept, JobIsWritten, JobKept
  <1>3. item' \in [Images -> ItemStatus] /\ batch' \in BatchRow
    BY ItemIsWritten, ItemKept, BatchKept
  <1> QED BY <1>1, <1>2, <1>3, PlacedKept, HistoryKept, CountersKept, LinkedKept DEF BaseInv, Typed

-----------------------------------------------------------------------------
(* Bounds: revisions, retries and texts *)

\* A generation is about a source its image has, or had.
RevisionsKnown ==
  \A i \in Images :
    /\ gen[i].revision <= image[i].revision
    /\ \A r \in Runners : seen[<<r, i>>].revision <= image[i].revision

Retry == {"retry", "retryJob", "retryGen", "retryItem"}
OneRetry == \A r, s \in Requests : at[r] \in Retry /\ at[s] \in Retry => r = s
TriesLeft ==
  /\ \A i \in Images : gen[i].tries <= MaxTries
  /\ \A r \in Requests : at[r] \in {"retryJob", "retryGen"} => gen[cur[r]].tries < MaxTries

\* An execution, or an edit, that will write a text of image i.
Writing(t, i) == cur[t] = i /\ at[t] \in {"begin", "generate", "fetch", "call", "save"}
Writers(i) == {t \in Workers \cup Reviewers : Writing(t, i)}

\* Each text is paid for by an attempt of the job or by a request, a review.
TextsPaid ==
  \A i \in Images :
    /\ IsFiniteSet(Writers(i))
    /\ gen[i].text + Cardinality(Writers(i)) <= job[i].attempts + ops

\* What a reviewer read, and what is approved, are texts the generation had.
TextsHad ==
  /\ \A v \in Reviewers : at[v] # "idle" => seen[v].text <= gen[cur[v]].text
  /\ \A i \in Images : approved[i] <= gen[i].text

BoundsInv == BaseInv /\ RevisionsKnown /\ OneRetry /\ TriesLeft /\ TextsPaid /\ TextsHad

LEMMA NumbersAre ==
  ASSUME BaseInv
  PROVE  /\ \A i \in Images : /\ gen[i].revision \in Nat /\ gen[i].tries \in Nat /\ gen[i].text \in Nat
                              /\ image[i].revision \in Nat /\ approved[i] \in Nat
                              /\ job[i].attempts \in Nat /\ job[i].attempts <= MaxAttempts
         /\ \A t \in Tasks : seen[t].revision \in Nat /\ seen[t].text \in Nat
         /\ ops \in Nat /\ ops <= MaxOps
         /\ {MaxAttempts, MaxTries, MaxRevisions, MaxOps, MaxFaults} \subseteq Nat
  BY MetadataAssumption DEF MetadataAssumption, BaseInv, Typed, GenRow, ImageRow, JobRow, Reading

LEMMA BoundsInit == Init => BoundsInv
  <1> SUFFICES ASSUME Init PROVE BoundsInv
    OBVIOUS
  <1>1. BaseInv
    BY BaseInit
  <1>2. RevisionsKnown
    BY Kinds DEF Init, RevisionsKnown, Seen0
  <1>3. OneRetry
    BY Kinds DEF Init, OneRetry, Retry
  <1>4. TriesLeft
    BY Kinds, NumbersAre, <1>1 DEF Init, TriesLeft
  <1>5. TextsPaid
    <2>1. ASSUME NEW i \in Images PROVE Writers(i) = {}
      BY Kinds DEF Init, Writers, Writing
    <2>2. IsFiniteSet({}) /\ Cardinality({}) = 0
      BY FS_EmptySet
    <2>3. \A i \in Images : gen[i].text = 0 /\ job[i].attempts = 0 /\ ops = 0
      BY DEF Init
    <2>4. \A i \in Images : IsFiniteSet(Writers(i)) /\ Cardinality(Writers(i)) = 0
      BY <2>1, <2>2
    <2> QED BY <2>3, <2>4 DEF TextsPaid
  <1>6. TextsHad
    BY Kinds DEF Init, TextsHad
  <1> QED BY <1>1, <1>2, <1>3, <1>4, <1>5, <1>6 DEF BoundsInv

LEMMA RevisionsKept ==
  ASSUME BoundsInv, [Next]_vars
  PROVE  RevisionsKnown'
  <1>0. BaseInv /\ RevisionsKnown /\ BaseInv'
    BY BaseNext DEF BoundsInv
  <1>1. \A i \in Images : image'[i].revision >= image[i].revision /\ image'[i].revision \in Nat
    BY <1>0, ImageKept DEF ImageRow
  <1>2. ASSUME NEW i \in Images PROVE gen'[i].revision = gen[i].revision \/ \E r \in Runners : gen'[i].revision = seen[<<r, i>>].revision
    <2>1. CASE gen' = gen
      BY <2>1
    <2>2. ASSUME NEW j \in Images, NEW s \in GenStatus, SetGen(j, s) PROVE gen'[i].revision = gen[i].revision
      BY <1>0, <2>2 DEF SetGen, BaseInv, Typed, GenRow
    <2>3. ASSUME NEW r \in Runners, NEW j \in Images, InsertGeneration(r, j)
          PROVE  gen'[i].revision = gen[i].revision \/ gen'[i].revision = seen[<<r, i>>].revision
      BY <1>0, <2>3 DEF InsertGeneration, BaseInv, Typed, GenRow
    <2>4. ASSUME NEW r \in Requests, RetryGeneration(r) PROVE gen'[i].revision = gen[i].revision
      BY <1>0, <2>4 DEF RetryGeneration, BaseInv, Typed, GenRow
    <2>5. ASSUME NEW w \in Workers, Drafted(w) PROVE gen'[i].revision = gen[i].revision
      BY <1>0, <2>5 DEF Drafted, BaseInv, Typed, GenRow
    <2>6. ASSUME NEW v \in Reviewers, SaveEdits(v) PROVE gen'[i].revision = gen[i].revision
      BY <1>0, <2>6 DEF SaveEdits, BaseInv, Typed, GenRow
    <2> QED BY <1>0, <2>1, <2>2, <2>3, <2>4, <2>5, <2>6, GenIsWritten DEF GenWrites
  <1>3. ASSUME NEW i \in Images, NEW r \in Runners PROVE seen'[<<r, i>>].revision <= image'[i].revision
    <2> DEFINE f == <<r, i>>
    <2>0. f \in Tasks /\ seen[f].revision \in Nat /\ image[i].revision \in Nat /\ seen[f].revision <= image[i].revision
      BY <1>0, Kinds, NumbersAre DEF RevisionsKnown
    <2>1. seen'[f] = seen[f] \/ FlowStep(r, i) \/ seen'[f].revision = 0
      <3>1. ASSUME NEW t \in Mortals, RequestDies(t) PROVE seen'[f] = seen[f] \/ seen'[f].revision = 0
        BY <2>0, <3>1 DEF RequestDies, Seen0
      <3> QED BY <1>0, <3>1, FlowMover DEF Stays
    <2>2. ASSUME FlowStep(r, i) PROVE seen'[f].revision \in {seen[f].revision, image[i].revision, 0}
      BY <1>0, <2>0, <2>2 DEF FlowStep, CheckCancelled, AcquireItem, CheckGeneration, InsertJob, InsertGeneration,
         SettleItem, Seen0, BaseInv, Typed, Reading
    <2>3. seen'[f].revision \in {seen[f].revision, image[i].revision, 0}
      BY <2>1, <2>2
    <2> QED BY <1>1, <2>0, <2>3
  <1>4. ASSUME NEW i \in Images PROVE gen'[i].revision <= image'[i].revision
    <2>1. gen[i].revision \in Nat /\ image[i].revision \in Nat /\ \A r \in Runners : seen[<<r, i>>].revision \in Nat
      BY <1>0, Kinds, NumbersAre
    <2>2. gen'[i].revision \in Nat /\ gen'[i].revision <= image[i].revision
      BY <1>0, <1>2, <2>1 DEF RevisionsKnown
    <2>3. image'[i].revision >= image[i].revision /\ image'[i].revision \in Nat
      BY <1>1
    <2> QED BY <2>1, <2>2, <2>3
  <1> QED BY <1>3, <1>4 DEF RevisionsKnown

\* A request retries from the moment it finds that nobody else does.
LEMMA RetryStep ==
  ASSUME BaseInv, NEW r \in Requests, RequestAction(r)
  PROVE  /\ at'[r] \in Retry /\ at[r] \notin Retry => \A s \in Requests : at[s] \notin Retry
         /\ at'[r] = "retryJob" => at[r] = "retry" /\ \E i \in Images : RetryNext(r, i) /\ cur'[r] = i
                                                                     /\ gen[i].status = "failed" /\ gen[i].tries < MaxTries
         /\ at'[r] = "retryGen" => RetryJob(r) /\ at[r] = "retryJob" /\ cur'[r] = cur[r]
  <1>1. r \in Tasks
    BY Kinds
  <1>2. \A pc : Goto(r, pc) => at'[r] = pc
    BY <1>1, GotoMoves
  <1>3. CASE \E i \in Images : RetryNext(r, i)
    BY <1>1, <1>2, <1>3 DEF RetryNext, Retry, BaseInv, Typed
  <1>4. CASE RequestRetry(r)
    <2>1. \A s \in Requests : at[s] \notin Retry
      BY <1>4 DEF RequestRetry, Retrying, Retry
    <2> QED BY <1>2, <1>4, <2>1 DEF RequestRetry
  <1>5. CASE RetryJob(r)
    BY <1>2, <1>5 DEF RetryJob, Retry
  <1>6. CASE ~(\E i \in Images : RetryNext(r, i)) /\ ~RequestRetry(r) /\ ~RetryJob(r)
    BY <1>2, <1>6 DEF RequestAction, RequestCancel, SelectQueued, CancelGeneration, CancelJob, CancelItem, FinishCancel,
         RetryGeneration, RetryItem, FinishRetry, CancelNext, Retry
  <1> QED BY <1>3, <1>4, <1>5, <1>6

LEMMA OneRetryKept ==
  ASSUME BoundsInv, [Next]_vars
  PROVE  OneRetry'
  <1>0. BaseInv /\ OneRetry
    BY DEF BoundsInv
  <1>1. ASSUME NEW r \in Requests, NEW s \in Requests, at'[r] \in Retry, at'[s] \in Retry, r # s PROVE FALSE
    <2>1. ASSUME NEW q \in Requests, at'[q] \in Retry PROVE at[q] \in Retry \/ (RequestAction(q) /\ \A p \in Requests : at[p] \notin Retry)
      <3>1. at'[q] # "idle"
        BY <2>1 DEF Retry
      <3> QED BY <1>0, <2>1, <3>1, RequestMover, RetryStep DEF Stays
    <2>2. ASSUME RequestAction(r), RequestAction(s) PROVE FALSE
      <3>1. at'[s] = at[s] /\ at'[r] = at[r]
        BY <1>0, <1>1, <2>2, RequestMoves, Kinds DEF Moves
      <3> QED BY <1>0, <1>1, <2>2, <3>1, RetryStep DEF OneRetry
    <2> QED BY <1>0, <1>1, <2>1, <2>2 DEF OneRetry
  <1> QED BY <1>1 DEF OneRetry

LEMMA TriesKept ==
  ASSUME BoundsInv, [Next]_vars
  PROVE  TriesLeft'
  <1>0. BaseInv /\ OneRetry /\ TriesLeft /\ BaseInv'
    BY BaseNext DEF BoundsInv
  <1>1. ASSUME NEW i \in Images
        PROVE  gen'[i].tries = gen[i].tries
               \/ \E r \in Requests : RetryGeneration(r) /\ cur[r] = i /\ gen'[i].tries = gen[i].tries + 1
    <2>2. ASSUME NEW j \in Images, NEW s \in GenStatus, SetGen(j, s) PROVE gen'[i].tries = gen[i].tries
      BY <1>0, <2>2 DEF SetGen, BaseInv, Typed, GenRow
    <2>3. ASSUME NEW r \in Runners, NEW j \in Images, InsertGeneration(r, j) PROVE gen'[i].tries = gen[i].tries
      BY <1>0, <2>3 DEF InsertGeneration, BaseInv, Typed, GenRow
    <2>4. ASSUME NEW r \in Requests, RetryGeneration(r)
          PROVE  gen'[i].tries = gen[i].tries \/ (cur[r] = i /\ gen'[i].tries = gen[i].tries + 1)
      BY <1>0, <2>4 DEF RetryGeneration, BaseInv, Typed, GenRow
    <2>5. ASSUME NEW w \in Workers, Drafted(w) PROVE gen'[i].tries = gen[i].tries
      BY <1>0, <2>5 DEF Drafted, BaseInv, Typed, GenRow
    <2>6. ASSUME NEW v \in Reviewers, SaveEdits(v) PROVE gen'[i].tries = gen[i].tries
      BY <1>0, <2>6 DEF SaveEdits, BaseInv, Typed, GenRow
    <2> QED BY <1>0, <2>2, <2>3, <2>4, <2>5, <2>6, GenIsWritten DEF GenWrites
  <1>2. ASSUME NEW i \in Images PROVE gen'[i].tries <= MaxTries
    <2>1. gen[i].tries \in Nat /\ MaxTries \in Nat
      BY <1>0, NumbersAre
    <2>2. \A r \in Requests : RetryGeneration(r) /\ cur[r] = i => gen[i].tries < MaxTries
      BY <1>0 DEF TriesLeft, RetryGeneration
    <2>3. gen'[i].tries = gen[i].tries \/ (gen[i].tries < MaxTries /\ gen'[i].tries = gen[i].tries + 1)
      BY <1>1, <2>2
    <2>4. gen[i].tries <= MaxTries
      BY <1>0 DEF TriesLeft
    <2> QED BY <2>1, <2>3, <2>4
  <1>3. ASSUME NEW r \in Requests, at'[r] \in {"retryJob", "retryGen"} PROVE gen'[cur'[r]].tries < MaxTries
    <2>1. cur'[r] \in Images /\ gen[cur'[r]].tries < MaxTries
      <3>1. CASE Stays(r)
        BY <1>0, <1>3, <3>1, HandsFull DEF Stays, TriesLeft, AtItem
      <3>2. CASE RequestAction(r) /\ at'[r] = "retryJob"
        BY <1>0, <3>2, RetryStep
      <3>3. CASE RequestAction(r) /\ at'[r] = "retryGen"
        BY <1>0, <3>3, RetryStep, HandsFull DEF TriesLeft, AtItem
      <3> QED BY <1>0, <1>3, <3>1, <3>2, <3>3, RequestMover
    <2>2. ASSUME NEW s \in Requests, RetryGeneration(s) PROVE FALSE
      <3>1. at[s] = "retryGen" /\ at'[s] = "retryItem" /\ RequestAction(s)
        BY <1>0, <2>2, GotoMoves, Kinds DEF RetryGeneration, RequestAction
      <3>2. s # r
        BY <1>3, <3>1
      <3>3. at'[r] = at[r]
        BY <1>0, <3>1, <3>2, RequestMoves, Kinds DEF Moves
      <3> QED BY <1>0, <1>3, <3>1, <3>2, <3>3 DEF OneRetry, Retry
    <2> QED BY <1>1, <2>1, <2>2
  <1> QED BY <1>2, <1>3 DEF TriesLeft

LEMMA TextsHadKept ==
  ASSUME BoundsInv, [Next]_vars
  PROVE  TextsHad'
  <1>0. BaseInv /\ TextsHad /\ BaseInv'
    BY BaseNext DEF BoundsInv
  <1>1. \A i \in Images : gen'[i].text >= gen[i].text /\ gen'[i].text \in Nat /\ gen[i].text \in Nat
    BY <1>0, GenIsWritten, GenKept, NumbersAre DEF GenRow
  <1>2. ASSUME NEW v \in Reviewers, at'[v] # "idle" PROVE seen'[v].text <= gen'[cur'[v]].text
    <2>0. v \in Tasks /\ seen[v].text \in Nat
      BY <1>0, Kinds, NumbersAre
    <2>1. CASE \E i \in Images : BeginReview(v, i)
      <3>1. PICK i \in Images : BeginReview(v, i)
        BY <2>1
      <3>2. cur'[v] = i /\ seen'[v].text = gen[i].text /\ gen' = gen
        BY <1>0, <2>0, <3>1 DEF BeginReview, gens, BaseInv, Typed, Reading
      <3> QED BY <1>1, <3>2
    <2>2. CASE ~\E i \in Images : BeginReview(v, i)
      <3>1. at[v] # "idle" /\ cur'[v] = cur[v] /\ seen'[v].text = seen[v].text
        <4>1. CASE Stays(v)
          BY <1>2, <4>1 DEF Stays
        <4>2. CASE ReviewStep(v)
          BY <4>2 DEF ReviewStep, SaveEdits, ApproveText, CloseReview
        <4>3. CASE Synchronise(v)
          <5>1. ~Leave(v)
            BY <1>0, <1>2, <2>0, GotoMoves DEF Leave
          <5>2. cur' = cur /\ at[v] # "idle"
            BY <4>3, <5>1 DEF Synchronise, SyncRead, SyncItem
          <5>3. seen' = seen \/ seen' = [seen EXCEPT ![v].status = Mapped(gen[cur[v]].status)]
            BY <4>3, <5>1 DEF Synchronise, SyncRead, SyncItem
          <5> QED BY <1>0, <2>0, <5>2, <5>3 DEF BaseInv, Typed, Reading
        <4> QED BY <1>0, <1>2, <2>2, <4>1, <4>2, <4>3, ReviewMover DEF ReviewAction
      <3>2. cur[v] \in Images /\ seen[v].text <= gen[cur[v]].text
        BY <1>0, <3>1, HandsFull DEF TextsHad
      <3> QED BY <1>1, <2>0, <3>1, <3>2
    <2> QED BY <2>1, <2>2
  <1>3. ASSUME NEW i \in Images PROVE approved'[i] <= gen'[i].text
    <2>1. approved[i] <= gen[i].text /\ approved[i] \in Nat
      BY <1>0, NumbersAre DEF TextsHad
    <2>2. CASE approved'[i] = approved[i]
      BY <1>1, <2>1, <2>2
    <2>3. CASE approved'[i] # approved[i]
      <3>1. PICK v \in Reviewers : /\ ApproveText(v) /\ cur[v] \in Images
                                   /\ approved' = [approved EXCEPT ![cur[v]] = seen[v].text]
        BY <1>0, <2>3, HistoryKept
      <3>2. cur[v] = i /\ approved'[i] = seen[v].text
        BY <1>0, <2>3, <3>1 DEF BaseInv, Typed
      <3>3. at[v] # "idle" /\ seen[v].text \in Nat
        BY <1>0, <3>1, Kinds, NumbersAre DEF ApproveText
      <3>4. seen[v].text <= gen[i].text
        BY <1>0, <3>2, <3>3 DEF TextsHad
      <3> QED BY <1>1, <3>2, <3>3, <3>4
    <2> QED BY <2>2, <2>3
  <1> QED BY <1>2, <1>3 DEF TextsHad

\* Only a claim or a new review starts to write.
LEMMA WritersEnter ==
  ASSUME BaseInv, [Next]_vars, NEW i \in Images, NEW t \in Writers(i)', t \notin Writers(i)
  PROVE  /\ t \in Tasks /\ Moves(t) /\ gen' = gen
         /\ (t \in Workers /\ ClaimJob(t, i)) \/ (t \in Reviewers /\ BeginReview(t, i))
  <1>0. t \in Workers \cup Reviewers /\ t \in Tasks /\ cur'[t] = i
        /\ at'[t] \in {"begin", "generate", "fetch", "call", "save"} /\ ~Writing(t, i)
    BY Kinds DEF Writers, Writing
  <1>1. \A pc : Goto(t, pc) => at'[t] = pc
    BY <1>0, GotoMoves
  <1>2. ~Stays(t)
    BY <1>0 DEF Stays, Writing
  <1>3. ASSUME Synchronise(t) PROVE FALSE
    BY <1>0, <1>1, <1>3 DEF Synchronise, SyncRead, SyncItem, Leave
  <1>4. CASE t \in Workers
    <2>1. WorkerAction(t)
      BY <1>2, <1>3, <1>4, WorkerMover
    <2>2. Moves(t)
      BY <1>4, <2>1, WorkerMoves
    <2>3. ASSUME Execute(t) PROVE FALSE
      <3>1. cur'[t] = cur[t]
        BY <2>3 DEF Execute, BeginExecution, WriteGeneration, WriteJob, ClearLease
      <3>2. at[t] \notin {"begin", "generate", "fetch", "call", "save"}
        BY <1>0, <3>1 DEF Writing
      <3> QED BY <1>0, <1>1, <2>3, <3>2 DEF Execute, BeginExecution, WriteGeneration, WriteJob, ClearLease
    <2>4. ~CrashWorker(t)
      BY <1>0, <1>1 DEF CrashWorker
    <2>5. PICK j \in Images : ClaimJob(t, j)
      BY <2>1, <2>3, <2>4 DEF WorkerAction
    <2>6. j = i /\ gen' = gen
      BY <1>0, <2>5 DEF ClaimJob, BaseInv, Typed
    <2> QED BY <1>0, <1>4, <2>2, <2>5, <2>6
  <1>5. CASE t \in Reviewers
    <2>1. ReviewAction(t)
      BY <1>0, <1>2, <1>3, <1>5, ReviewMover
    <2>2. Moves(t)
      BY <1>5, <2>1, ReviewMoves
    <2>3. ASSUME ReviewStep(t) PROVE FALSE
      BY <1>0, <1>1, <2>3 DEF ReviewStep, SaveEdits, ApproveText, CloseReview
    <2>4. PICK j \in Images : BeginReview(t, j)
      BY <2>1, <2>3 DEF ReviewAction
    <2>5. j = i /\ gen' = gen
      BY <1>0, <2>4 DEF BeginReview, BaseInv, Typed, gens
    <2> QED BY <1>0, <1>5, <2>2, <2>4, <2>5
  <1> QED BY <1>0, <1>4, <1>5

\* Only who was writing adds a text, and has then written.
LEMMA TextWritten ==
  ASSUME BaseInv, [Next]_vars, NEW i \in Images, gen'[i].text # gen[i].text
  PROVE  /\ gen'[i].text = gen[i].text + 1
         /\ \E t \in Writers(i) : t \notin Writers(i)' /\ Moves(t) /\
              \/ t \in Workers /\ Drafted(t)
              \/ t \in Reviewers /\ SaveEdits(t)
  <1>2. ASSUME NEW j \in Images, NEW s \in GenStatus, SetGen(j, s) PROVE FALSE
    BY <1>2 DEF SetGen, BaseInv, Typed, GenRow
  <1>3. ASSUME NEW r \in Runners, NEW j \in Images, InsertGeneration(r, j) PROVE FALSE
    BY <1>3 DEF InsertGeneration, BaseInv, Typed, GenRow
  <1>4. ASSUME NEW r \in Requests, RetryGeneration(r) PROVE FALSE
    BY <1>4 DEF RetryGeneration, BaseInv, Typed, GenRow
  <1>5. ASSUME NEW w \in Workers, Drafted(w)
        PROVE  /\ gen'[i].text = gen[i].text + 1
               /\ w \in Writers(i) /\ w \notin Writers(i)' /\ Moves(w)
    <2>1. cur[w] = i /\ gen'[i].text = gen[i].text + 1
      BY <1>5 DEF Drafted, BaseInv, Typed, GenRow
    <2>2. WorkerAction(w) \/ Synchronise(w)
      BY <1>5, WorkerMover DEF Stays, Drafted
    <2>3. Moves(w)
      BY <2>2, WorkerMoves, SynchroniseMoves
    <2> QED BY <1>5, <2>1, <2>3 DEF Drafted, Writers, Writing
  <1>6. ASSUME NEW v \in Reviewers, SaveEdits(v)
        PROVE  /\ gen'[i].text = gen[i].text + 1
               /\ v \in Writers(i) /\ v \notin Writers(i)' /\ Moves(v)
    <2>1. cur[v] = i /\ gen'[i].text = gen[i].text + 1
      BY <1>6 DEF SaveEdits, BaseInv, Typed, GenRow
    <2>2. Moves(v) /\ at'[v] = "leave"
      BY <1>6, ReviewMoves, GotoMoves, Kinds DEF SaveEdits, ReviewAction, ReviewStep
    <2> QED BY <1>6, <2>1, <2>2 DEF SaveEdits, Writers, Writing
  <1> QED BY <1>2, <1>3, <1>4, <1>5, <1>6, GenIsWritten DEF GenWrites

LEMMA TextsPaidKept ==
  ASSUME BoundsInv, [Next]_vars
  PROVE  TextsPaid'
  <1>0. BaseInv /\ TextsPaid /\ BaseInv'
    BY BaseNext DEF BoundsInv
  <1> SUFFICES ASSUME NEW i \in Images
               PROVE  /\ IsFiniteSet(Writers(i)')
                      /\ gen'[i].text + Cardinality(Writers(i)') <= job'[i].attempts + ops'
    BY DEF TextsPaid
  <1>1. /\ IsFiniteSet(Writers(i)) /\ Cardinality(Writers(i)) \in Nat
        /\ gen[i].text + Cardinality(Writers(i)) <= job[i].attempts + ops
    BY <1>0, FS_CardinalityType DEF TextsPaid
  <1>2. /\ gen[i].text \in Nat /\ gen'[i].text \in Nat /\ job[i].attempts \in Nat /\ job'[i].attempts \in Nat
        /\ ops \in Nat /\ ops' \in Nat
        /\ job'[i].attempts >= job[i].attempts /\ ops' >= ops
    <2>1. gen'[i].text \in Nat /\ gen[i].text \in Nat /\ job[i].attempts \in Nat /\ ops \in Nat
      BY <1>0, NumbersAre, GenIsWritten, GenKept DEF GenRow
    <2>2. job'[i].attempts \in Nat /\ job'[i].attempts >= job[i].attempts
      BY <1>0, JobIsWritten, JobKept, NumbersAre DEF JobRow
    <2>3. ops' \in Nat /\ ops' >= ops
      BY <1>0, CountersKept
    <2> QED BY <2>1, <2>2, <2>3
  <1>3. CASE \E t \in Writers(i)' : t \notin Writers(i)
    <2>1. PICK t \in Writers(i)' : t \notin Writers(i)
      BY <1>3
    <2>2. /\ t \in Tasks /\ Moves(t) /\ gen' = gen
          /\ (t \in Workers /\ ClaimJob(t, i)) \/ (t \in Reviewers /\ BeginReview(t, i))
      BY <1>0, <2>1, WritersEnter
    <2>3. Writers(i)' \subseteq Writers(i) \cup {t}
      <3>1. ASSUME NEW u \in Writers(i)', u # t PROVE u \in Writers(i)
        BY <2>2, <3>1, Kinds DEF Writers, Writing, Moves
      <3> QED BY <3>1
    <2>4. IsFiniteSet(Writers(i) \cup {t}) /\ Cardinality(Writers(i) \cup {t}) = Cardinality(Writers(i)) + 1
      BY <1>1, <2>1, FS_AddElement
    <2>5. IsFiniteSet(Writers(i)') /\ Cardinality(Writers(i)') <= Cardinality(Writers(i)) + 1 /\ Cardinality(Writers(i)') \in Nat
      BY <2>3, <2>4, FS_Subset, FS_CardinalityType
    <2>6. job'[i].attempts + ops' >= job[i].attempts + ops + 1
      <3>1. CASE t \in Workers /\ ClaimJob(t, i)
        <4>1. job'[i].attempts = job[i].attempts + 1
          BY <1>0, <3>1 DEF ClaimJob, BaseInv, Typed
        <4> QED BY <1>2, <4>1
      <3>2. CASE t \in Reviewers /\ BeginReview(t, i)
        <4>1. ops' = ops + 1
          BY <3>2 DEF BeginReview, BeginOp
        <4> QED BY <1>2, <4>1
      <3> QED BY <2>2, <3>1, <3>2
    <2> QED BY <1>1, <1>2, <2>2, <2>5, <2>6
  <1>4. CASE ~\E t \in Writers(i)' : t \notin Writers(i)
    <2>1. Writers(i)' \subseteq Writers(i)
      BY <1>4
    <2>2. CASE gen'[i].text = gen[i].text
      <3>1. IsFiniteSet(Writers(i)') /\ Cardinality(Writers(i)') <= Cardinality(Writers(i)) /\ Cardinality(Writers(i)') \in Nat
        BY <1>1, <2>1, FS_Subset, FS_CardinalityType
      <3> QED BY <1>1, <1>2, <2>2, <3>1
    <2>3. CASE gen'[i].text # gen[i].text
      <3>1. PICK t \in Writers(i) : t \notin Writers(i)' /\ gen'[i].text = gen[i].text + 1
        BY <1>0, <2>3, TextWritten
      <3>2. IsFiniteSet(Writers(i) \ {t}) /\ Cardinality(Writers(i) \ {t}) = Cardinality(Writers(i)) - 1
        BY <1>1, <3>1, FS_RemoveElement
      <3>3. Writers(i)' \subseteq Writers(i) \ {t}
        BY <2>1, <3>1
      <3>4. IsFiniteSet(Writers(i)') /\ Cardinality(Writers(i)') <= Cardinality(Writers(i)) - 1 /\ Cardinality(Writers(i)') \in Nat
        BY <3>2, <3>3, FS_Subset, FS_CardinalityType
      <3> QED BY <1>1, <1>2, <3>1, <3>4
    <2> QED BY <2>2, <2>3
  <1> QED BY <1>3, <1>4

LEMMA BoundsNext ==
  ASSUME BoundsInv, [Next]_vars
  PROVE  BoundsInv'
  BY BaseNext, RevisionsKept, OneRetryKept, TriesKept, TextsPaidKept, TextsHadKept DEF BoundsInv

\* Every row, task and text keeps its type: a generation never claims a
\* source its image has not had nor more tries than it was given, and each
\* of its texts belongs to an attempt of its job or to a review.
THEOREM MetadataTypesHold == Spec => []TypeOK
  <1>1. ASSUME BoundsInv PROVE TypeOK
    <2>0. BaseInv
      BY <1>1 DEF BoundsInv
    <2>1. ASSUME NEW i \in Images
          PROVE  /\ gen[i].status \in GenStatus /\ gen[i].revision \in 0 .. image[i].revision
                 /\ gen[i].tries \in 0 .. MaxTries
                 /\ gen[i].text \in 0 .. (MaxAttempts + MaxOps) /\ approved[i] \in 0 .. gen[i].text
      <3>1. gen[i].status \in GenStatus
        BY <2>0 DEF BaseInv, Typed, GenRow
      <3>2. gen[i].revision \in 0 .. image[i].revision /\ gen[i].tries \in 0 .. MaxTries /\ approved[i] \in 0 .. gen[i].text
        BY <1>1, <2>0, NumbersAre DEF BoundsInv, RevisionsKnown, TriesLeft, TextsHad
      <3>3. Cardinality(Writers(i)) \in Nat /\ gen[i].text + Cardinality(Writers(i)) <= job[i].attempts + ops
        BY <1>1, FS_CardinalityType DEF BoundsInv, TextsPaid
      <3>4. gen[i].text \in 0 .. (MaxAttempts + MaxOps)
        BY <2>0, <3>3, NumbersAre
      <3> QED BY <3>1, <3>2, <3>4
    <2> QED BY <2>0, <2>1 DEF TypeOK, BaseInv, Typed, ImageRow, JobRow, BatchRow
  <1> QED BY <1>1, BoundsInit, BoundsNext, PTL DEF Spec

-----------------------------------------------------------------------------
(* A generation is inserted once, before anybody works on it *)

EngagedAt == {"generate", "fetch", "call", "failGen", "staleGen", "outdateGen", "requeueGen", "requeueJob"}
ReviewingAt == {"save", "approve", "approveGen", "reject"}
Taken == {"check", "insertJob", "insertGen", "skip", "fail", "link"}

\* Before the batch there are neither flows nor generations.
Begun ==
  /\ ~Exists => \A t \in Runners \cup Flows : at[t] = "idle"
  /\ ~Exists => \A i \in Images : gen[i].status = "none"

\* Who works on a generation has found it.
WorkKnown ==
  /\ \A w \in Workers : at[w] \in EngagedAt => gen[cur[w]].status # "none"
  /\ \A v \in Reviewers : at[v] \in ReviewingAt => gen[cur[v]].status # "none"
  /\ \A r \in Requests : at[r] \in {"cancelGen", "retryJob", "retryGen"} => gen[cur[r]].status # "none"

\* At most one flow takes an item, and the generation is inserted by it.
FlowsApart ==
  \A i \in Images :
    /\ item[i] = "pending" => gen[i].status = "none" /\ \A r \in Runners : at[<<r, i>>] \notin Taken
    /\ \A r \in Runners : at[<<r, i>>] \in {"check", "insertJob", "insertGen"} => gen[i].status = "none"
    /\ \A r, s \in Runners : at[<<r, i>>] \in Taken /\ at[<<s, i>>] \in Taken => r = s

StartInv == BoundsInv /\ Begun /\ WorkKnown /\ FlowsApart

LEMMA StartInit == Init => StartInv
  <1> SUFFICES ASSUME Init PROVE StartInv
    OBVIOUS
  <1>1. Begun
    BY Kinds DEF Init, Begun
  <1>2. WorkKnown
    BY Kinds DEF Init, WorkKnown, EngagedAt, ReviewingAt
  <1>3. FlowsApart
    BY Kinds DEF Init, FlowsApart, Taken
  <1> QED BY <1>1, <1>2, <1>3, BoundsInit DEF StartInv

\* An execution engages when it finds its job and a generation to work on.
LEMMA Engages ==
  ASSUME BaseInv, [Next]_vars, NEW w \in Workers, at'[w] \in EngagedAt
  PROVE  /\ cur'[w] = cur[w] /\ cur[w] \in Images
         /\ \/ at[w] \in EngagedAt
            \/ /\ BeginExecution(w) /\ at[w] = "begin"
               /\ job[cur[w]].status = "processing" /\ job[cur[w]].owner = w
               /\ gen[cur[w]].status \in ActiveGen \cup {"failed", "rejected"}
  <1>0. w \in Tasks
    BY Kinds
  <1>1. \A pc : Goto(w, pc) => at'[w] = pc
    BY <1>0, GotoMoves
  <1>2. CASE Stays(w)
    BY <1>2, HandsFull DEF Stays, EngagedAt
  <1>3. ASSUME Synchronise(w) PROVE FALSE
    BY <1>1, <1>3 DEF Synchronise, SyncRead, SyncItem, Leave, EngagedAt
  <1>4. CASE WorkerAction(w)
    <2>1. Execute(w)
      BY <1>1, <1>4 DEF WorkerAction, CrashWorker, ClaimJob, EngagedAt
    <2>2. cur' = cur /\ at[w] # "idle"
      BY <2>1 DEF Execute, BeginExecution, WriteGeneration, WriteJob, ClearLease
    <2>3. CASE BeginExecution(w)
      <3>1. at[w] = "begin"
        BY <2>3 DEF BeginExecution
      <3>2. \/ /\ job[cur[w]].status = "processing" /\ job[cur[w]].owner = w
               /\ gen[cur[w]].status \in ActiveGen \cup {"failed", "rejected"}
            \/ Goto(w, "leave")
        BY <2>3 DEF BeginExecution
      <3>3. at'[w] # "leave"
        BY DEF EngagedAt
      <3> QED BY <1>1, <2>2, <2>3, <3>1, <3>2, <3>3, HandsFull
    <2>4. CASE ~BeginExecution(w)
      BY <1>1, <2>1, <2>2, <2>4, HandsFull DEF Execute, WriteGeneration, WriteJob, ClearLease, EngagedAt
    <2> QED BY <2>3, <2>4
  <1> QED BY <1>2, <1>3, <1>4, WorkerMover

\* A review begins on a text that can still be edited.
LEMMA Reviews ==
  ASSUME BaseInv, [Next]_vars, NEW v \in Reviewers, at'[v] \in ReviewingAt
  PROVE  /\ cur'[v] \in Images
         /\ \/ at[v] \in ReviewingAt /\ cur'[v] = cur[v] /\ seen'[v] = seen[v]
            \/ BeginReview(v, cur'[v]) /\ at'[v] # "approveGen" /\ seen'[v].text = gen[cur'[v]].text
  <1>0. v \in Tasks
    BY Kinds
  <1>1. \A pc : Goto(v, pc) => at'[v] = pc
    BY <1>0, GotoMoves
  <1>2. CASE Stays(v)
    BY <1>2, HandsFull DEF Stays, ReviewingAt
  <1>3. ASSUME Synchronise(v) PROVE FALSE
    BY <1>1, <1>3 DEF Synchronise, SyncRead, SyncItem, Leave, ReviewingAt
  <1>4. CASE ReviewStep(v)
    BY <1>1, <1>4, HandsFull DEF ReviewStep, SaveEdits, ApproveText, CloseReview, ReviewingAt
  <1>6. at'[v] # "idle"
    BY DEF ReviewingAt
  <1>5. CASE \E i \in Images : BeginReview(v, i)
    <2>1. PICK i \in Images : BeginReview(v, i)
      BY <1>5
    <2>2. cur'[v] = i /\ seen'[v].text = gen[i].text
      BY <1>0, <2>1 DEF BeginReview, BaseInv, Typed, Reading
    <2>3. at'[v] # "approveGen"
      BY <1>1, <2>1 DEF BeginReview
    <2> QED BY <2>1, <2>2, <2>3
  <1> QED BY <1>2, <1>3, <1>4, <1>5, <1>6, ReviewMover DEF ReviewAction

LEMMA WorkKnownKept ==
  ASSUME StartInv, [Next]_vars
  PROVE  WorkKnown'
  <1>0. BaseInv /\ WorkKnown
    BY DEF StartInv, BoundsInv
  <1>1. \A i \in Images : gen[i].status # "none" => gen'[i].status # "none"
    BY <1>0, GenIsWritten, GenKept
  <1>2. "none" \notin ActiveGen \cup Editable \cup {"failed", "rejected"}
    BY DEF ActiveGen, Editable
  <1>3. ASSUME NEW w \in Workers, at'[w] \in EngagedAt PROVE gen'[cur'[w]].status # "none"
    BY <1>0, <1>1, <1>2, <1>3, Engages DEF WorkKnown
  <1>4. ASSUME NEW v \in Reviewers, at'[v] \in ReviewingAt PROVE gen'[cur'[v]].status # "none"
    <2>1. cur'[v] \in Images /\ gen[cur'[v]].status # "none"
      BY <1>0, <1>2, <1>4, Reviews DEF WorkKnown, BeginReview
    <2> QED BY <1>1, <2>1
  <1>5. ASSUME NEW r \in Requests, at'[r] \in {"cancelGen", "retryJob", "retryGen"} PROVE gen'[cur'[r]].status # "none"
    <2>0. r \in Tasks
      BY Kinds
    <2>1. cur'[r] \in Images /\ gen[cur'[r]].status # "none"
      <3>1. CASE Stays(r)
        BY <1>0, <1>5, <3>1, HandsFull DEF Stays, WorkKnown, AtItem
      <3>2. CASE RequestAction(r) /\ at'[r] = "retryJob"
        BY <1>0, <3>2, RetryStep
      <3>3. CASE RequestAction(r) /\ at'[r] = "retryGen"
        BY <1>0, <3>3, RetryStep, HandsFull DEF WorkKnown, AtItem
      <3>4. CASE RequestAction(r) /\ at'[r] = "cancelGen"
        <4>1. \A pc : Goto(r, pc) => at'[r] = pc
          BY <1>0, <2>0, GotoMoves
        <4>2. ASSUME NEW i \in Images, RetryNext(r, i) PROVE FALSE
          BY <3>4, <4>1, <4>2 DEF RetryNext
        <4>3. PICK i \in Images, s \in {"pending", "queued"} : CancelNext(r, i, s)
          BY <3>4, <4>1, <4>2 DEF RequestAction, RequestCancel, SelectQueued, CancelGeneration, CancelJob, CancelItem,
             FinishCancel, RequestRetry, RetryJob, RetryGeneration, RetryItem, FinishRetry
        <4>4. cur'[r] = i /\ gen[i].status = "queued"
          BY <1>0, <2>0, <3>4, <4>1, <4>3 DEF CancelNext, BaseInv, Typed
        <4> QED BY <4>4
      <3> QED BY <1>0, <1>5, <3>1, <3>2, <3>3, <3>4, RequestMover
    <2> QED BY <1>1, <2>1
  <1> QED BY <1>3, <1>4, <1>5 DEF WorkKnown

\* The only way a generation comes to be.
LEMMA GenInserted ==
  ASSUME BaseInv, WorkKnown, [Next]_vars, NEW i \in Images, gen[i].status = "none", gen'[i].status # "none"
  PROVE  \E r \in Runners : InsertGeneration(r, i)
  <1>1. ASSUME NEW r \in Runners, NEW j \in Images, InsertGeneration(r, j) PROVE j = i
    BY <1>1 DEF InsertGeneration, BaseInv, Typed, GenRow
  <1>2. ASSUME NEW j \in Images, NEW s, SetGen(j, s) PROVE j = i
    BY <1>2 DEF SetGen, BaseInv, Typed, GenRow
  <1>3. ASSUME NEW w \in Workers, Drafted(w) PROVE FALSE
    <2>1. cur[w] = i /\ at[w] = "call"
      BY <1>3 DEF Drafted, BaseInv, Typed, GenRow
    <2> QED BY <2>1 DEF WorkKnown, EngagedAt
  <1>4. ASSUME NEW w \in Workers, WriteGeneration(w) PROVE FALSE
    <2>1. cur[w] \in Images /\ gen[cur[w]].status # "none"
      BY <1>4, HandsFull DEF WorkKnown, EngagedAt, WriteGeneration
    <2>2. cur[w] # i
      BY <2>1
    <2>3. gen' = gen \/ \E s : SetGen(cur[w], s) \/ gen' = [gen EXCEPT ![cur[w]].status = "draft", ![cur[w]].text = @ + 1]
      BY <1>4 DEF WriteGeneration
    <2> QED BY <2>1, <2>2, <2>3 DEF SetGen, BaseInv, Typed, GenRow
  <1>5. ASSUME NEW v \in Reviewers, SaveEdits(v) \/ CloseReview(v) PROVE FALSE
    <2>1. cur[v] \in Images /\ gen[cur[v]].status # "none"
      BY <1>5, HandsFull DEF WorkKnown, ReviewingAt, SaveEdits, CloseReview
    <2>2. cur[v] # i
      BY <2>1
    <2> QED BY <1>5, <2>1, <2>2 DEF SaveEdits, CloseReview, SetGen, BaseInv, Typed, GenRow
  <1>6. ASSUME NEW r \in Requests, CancelGeneration(r) \/ RetryGeneration(r) PROVE FALSE
    <2>1. cur[r] \in Images /\ gen[cur[r]].status # "none"
      BY <1>6, HandsFull DEF WorkKnown, AtItem, CancelGeneration, RetryGeneration
    <2>2. cur[r] # i
      BY <2>1
    <2> QED BY <1>6, <2>1, <2>2 DEF CancelGeneration, RetryGeneration, SetGen, BaseInv, Typed, GenRow
  <1>7. ASSUME NEW j \in Images, InvalidateGenerations(j) PROVE FALSE
    <2>1. j = i
      BY <1>2, <1>7 DEF InvalidateGenerations
    <2> QED BY <1>7, <2>1 DEF InvalidateGenerations, ActiveGen, Editable
  <1>8. gen' # gen
    OBVIOUS
  <1>9. ASSUME NEW t \in Workers \cup Reviewers, Synchronise(t) PROVE FALSE
    BY <1>8, <1>9 DEF Synchronise, SyncRead, SyncItem, Leave, gens
  <1>10. ASSUME NEW r \in Runners, RunnerAction(r) PROVE FALSE
    BY <1>8, <1>10 DEF RunnerAction, SelectPending, CreateBatch, StartRun, FinishRun, gens
  <1>11. ASSUME NEW r \in Runners, NEW j \in Images, FlowStep(r, j) PROVE InsertGeneration(r, i)
    BY <1>1, <1>8, <1>11 DEF FlowStep, CheckCancelled, AcquireItem, CheckGeneration, InsertJob, SettleItem, gens
  <1>12. ASSUME NEW r \in Requests, RequestAction(r) PROVE FALSE
    BY <1>6, <1>8, <1>12 DEF RequestAction, RequestCancel, SelectQueued, CancelJob, CancelItem, FinishCancel,
         RequestRetry, RetryNext, RetryJob, RetryItem, FinishRetry, CancelNext, gens
  <1>13. ASSUME NEW w \in Workers, WorkerAction(w) PROVE FALSE
    BY <1>4, <1>8, <1>13 DEF WorkerAction, Execute, BeginExecution, WriteJob, ClearLease, CrashWorker, ClaimJob, gens
  <1>14. ASSUME NEW v \in Reviewers, ReviewAction(v) PROVE FALSE
    BY <1>5, <1>8, <1>14 DEF ReviewAction, ReviewStep, ApproveText, BeginReview, gens
  <1>15. ASSUME NEW j \in Images, ImageAction(j) PROVE FALSE
    BY <1>7, <1>8, <1>15 DEF ImageAction, LoseImage, EndReplacement, Invalidate, InvalidationFails, InvalidateJobs, InvalidateItems, gens
  <1>16. ASSUME NEW j \in Images, ScriptAction(j) PROVE FALSE
    <2>1. ASSUME ReconcileGeneration(j) PROVE FALSE
      <3>1. j = i
        BY <1>2, <2>1 DEF ReconcileGeneration
      <3> QED BY <2>1, <3>1 DEF ReconcileGeneration, ActiveGen
    <2> QED BY <1>8, <1>16, <2>1 DEF ScriptAction, RecoverLease, ReconcileJob, ReconcileItem, gens
  <1>17. ~ReconcileBatch /\ ~UNCHANGED vars /\ ~\E t \in Mortals : RequestDies(t)
    BY <1>8, DeathKeeps DEF ReconcileBatch, vars, gens
  <1> QED BY <1>9, <1>10, <1>11, <1>12, <1>13, <1>14, <1>15, <1>16, <1>17, NextCases

LEMMA BegunKept ==
  ASSUME StartInv, [Next]_vars
  PROVE  Begun'
  <1>0. BaseInv /\ Begun /\ WorkKnown
    BY DEF StartInv, BoundsInv
  <1> SUFFICES ASSUME ~Exists'
               PROVE  (\A t \in Runners \cup Flows : at'[t] = "idle") /\ (\A i \in Images : gen'[i].status = "none")
    BY DEF Begun, Exists
  <1>1. ~Exists
    BY <1>0, BatchKept
  <1>2. (\A t \in Runners \cup Flows : at[t] = "idle") /\ (\A i \in Images : gen[i].status = "none")
    BY <1>0, <1>1 DEF Begun
  <1>3. ASSUME NEW r \in Runners, RunnerAction(r) PROVE FALSE
    <2>1. at[r] = "idle"
      BY <1>2
    <2>2. ASSUME CreateBatch(r) PROVE Exists'
      BY <1>0, <2>2 DEF CreateBatch, Exists, BaseInv, Typed, BatchRow
    <2> QED BY <1>1, <1>3, <2>1, <2>2 DEF RunnerAction, StartRun, SelectPending, FinishRun
  <1>4. ASSUME NEW r \in Runners, NEW i \in Images, FlowStep(r, i) PROVE FALSE
    <2>1. at[<<r, i>>] = "idle"
      BY <1>2, Kinds
    <2> QED BY <1>4, <2>1 DEF FlowStep, CheckCancelled, AcquireItem, CheckGeneration, InsertJob, InsertGeneration,
         SettleItem, Outcome
  <1>5. ASSUME NEW i \in Images PROVE gen'[i].status = "none"
    BY <1>0, <1>2, <1>4, <1>5, GenInserted DEF FlowStep
  <1>6. ASSUME NEW r \in Runners PROVE at'[r] = "idle"
    <2>0. r \in Tasks
      BY Kinds
    <2>1. ASSUME NEW t \in Tasks \ {r}, Moves(t) PROVE Stays(r)
      BY <2>0, <2>1, MoverStays
    <2>2. ASSUME NEW t \in Workers \cup Reviewers, Synchronise(t) PROVE Stays(r)
      BY <1>0, <2>1, <2>2, SynchroniseMoves, Kinds
    <2>3. ASSUME NEW s \in Requests, RequestAction(s) PROVE Stays(r)
      BY <1>0, <2>1, <2>3, RequestMoves, Kinds
    <2>4. ASSUME NEW u \in Workers, WorkerAction(u) PROVE Stays(r)
      BY <1>0, <2>1, <2>4, WorkerMoves, Kinds
    <2>5. ASSUME NEW u \in Reviewers, ReviewAction(u) PROVE Stays(r)
      BY <1>0, <2>1, <2>5, ReviewMoves, Kinds
    <2>6. ASSUME NEW j \in Images, ImageAction(j) PROVE Stays(r)
      BY <1>0, <2>1, <2>6, ImageMoves, Kinds
    <2>7. ASSUME NEW t \in Mortals, RequestDies(t) PROVE at'[r] = "idle" \/ Stays(r)
      BY <1>0, <2>0, <2>7, Dying
    <2> QED BY <1>2, <1>3, <1>4, <2>2, <2>3, <2>4, <2>5, <2>6, <2>7, OthersStay, NextCases DEF Stays
  <1>7. ASSUME NEW f \in Flows PROVE at'[f] = "idle"
    <2>1. PICK r \in Runners, i \in Images : f = <<r, i>>
      BY DEF Flows
    <2> QED BY <1>0, <1>2, <1>3, <1>4, <2>1, FlowMover DEF Stays
  <1> QED BY <1>5, <1>6, <1>7

\* A flow takes an item that was pending, and which then is not.
LEMMA Takes ==
  ASSUME BaseInv, [Next]_vars, NEW r \in Runners, NEW i \in Images, at'[<<r, i>>] \in Taken
  PROVE  \/ at[<<r, i>>] \in Taken
         \/ /\ item[i] = "pending" /\ item'[i] = "queued" /\ at'[<<r, i>>] = "check" /\ FlowStep(r, i) /\ gen' = gen
  <1> DEFINE f == <<r, i>>
  <1>0. f \in Tasks
    BY Kinds
  <1>1. \A pc : Goto(f, pc) => at'[f] = pc
    BY <1>0, GotoMoves
  <1>2. CASE Stays(f)
    BY <1>2 DEF Stays
  <1>3. CASE at'[f] = "todo"
    BY <1>3 DEF Taken
  <1>4. CASE AcquireItem(r, i)
    BY <1>1, <1>4 DEF AcquireItem, SetItem, Taken, BaseInv, Typed, gens, FlowStep
  <1>5. CASE FlowStep(r, i) /\ ~AcquireItem(r, i)
    BY <1>1, <1>5 DEF FlowStep, CheckCancelled, CheckGeneration, InsertJob, InsertGeneration, SettleItem, Outcome, Taken
  <1>6. at'[f] # "idle"
    BY DEF Taken
  <1> QED BY <1>2, <1>3, <1>4, <1>5, <1>6, FlowMover

LEMMA FlowsApartKept ==
  ASSUME StartInv, [Next]_vars
  PROVE  FlowsApart'
  <1>0. BaseInv /\ Begun /\ WorkKnown /\ FlowsApart
    BY DEF StartInv, BoundsInv
  <1> SUFFICES ASSUME NEW i \in Images
               PROVE  /\ item'[i] = "pending" => gen'[i].status = "none" /\ \A r \in Runners : at'[<<r, i>>] \notin Taken
                      /\ \A r \in Runners : at'[<<r, i>>] \in {"check", "insertJob", "insertGen"} => gen'[i].status = "none"
                      /\ \A r, s \in Runners : at'[<<r, i>>] \in Taken /\ at'[<<s, i>>] \in Taken => r = s
    BY DEF FlowsApart
  <1>1. ASSUME NEW r \in Runners, NEW s \in Runners, FlowStep(s, i), r # s PROVE at'[<<r, i>>] = at[<<r, i>>]
    <2>1. <<r, i>> # <<s, i>> /\ <<r, i>> \in Tasks
      BY <1>1, Kinds
    <2> QED BY <1>0, <1>1, <2>1, FlowMoves DEF Moves
  <1>2. ASSUME NEW r \in Runners, NEW s \in Runners, at'[<<r, i>>] \in Taken, at'[<<s, i>>] \in Taken, r # s PROVE FALSE
    BY <1>0, <1>1, <1>2, Takes DEF FlowsApart
  <1>3. ASSUME NEW r \in Runners, at'[<<r, i>>] \in {"check", "insertJob", "insertGen"} PROVE gen'[i].status = "none"
    <2> DEFINE f == <<r, i>>
    <2>0. f \in Tasks
      BY Kinds
    <2>1. \A pc : Goto(f, pc) => at'[f] = pc
      BY <1>0, <2>0, GotoMoves
    <2>2. gen[i].status = "none" /\ (at[f] \in Taken \/ gen' = gen)
      <3>1. CASE Stays(f)
        BY <1>0, <1>3, <3>1 DEF FlowsApart, Stays, Taken
      <3>2. CASE item[i] = "pending" /\ gen' = gen
        BY <1>0, <3>2 DEF FlowsApart
      <3>3. CASE FlowStep(r, i) /\ at[f] \in Taken
        <4>1. at[f] \in {"check", "insertJob", "insertGen"}
          BY <1>3, <2>1, <3>3 DEF FlowStep, CheckCancelled, AcquireItem, CheckGeneration, InsertJob, InsertGeneration,
             SettleItem, Outcome, Taken
        <4> QED BY <1>0, <3>3, <4>1 DEF FlowsApart
      <3> QED BY <1>0, <1>3, <3>1, <3>2, <3>3, Takes, FlowMover DEF Taken
    <2>3. ASSUME NEW s \in Runners, InsertGeneration(s, i) PROVE FALSE
      <3>0. <<s, i>> \in Tasks
        BY Kinds
      <3>1. at[<<s, i>>] = "insertGen" /\ at'[<<s, i>>] = "link" /\ gen'[i].status = "queued"
        BY <1>0, <2>3, <3>0, GotoMoves DEF InsertGeneration, BaseInv, Typed, GenRow
      <3>2. at[f] \in Taken
        BY <2>2, <3>1
      <3>3. r = s
        BY <1>0, <3>1, <3>2 DEF FlowsApart, Taken
      <3> QED BY <1>3, <3>1, <3>3
    <2> QED BY <1>0, <2>2, <2>3, GenInserted
  <1>4. ASSUME item'[i] = "pending" PROVE gen'[i].status = "none" /\ \A r \in Runners : at'[<<r, i>>] \notin Taken
    <2>1. CASE \E s \in Runners : CreateBatch(s)
      <3>1. PICK s \in Runners : CreateBatch(s)
        BY <2>1
      <3>2. ~Exists /\ gen' = gen /\ RunnerAction(s)
        BY <3>1 DEF CreateBatch, gens, RunnerAction
      <3>3. gen[i].status = "none" /\ \A r \in Runners : at[<<r, i>>] = "idle"
        BY <1>0, <3>2, Kinds DEF Begun
      <3>4. ASSUME NEW r \in Runners, at'[<<r, i>>] \in Taken PROVE FALSE
        BY <1>0, <3>2, <3>3, <3>4, RunnerMoves, Kinds DEF Taken
      <3> QED BY <3>2, <3>3, <3>4
    <2>2. CASE ~\E s \in Runners : CreateBatch(s)
      <3>1. item[i] = "pending"
        <4>1. ASSUME NEW j \in Images, NEW s \in ItemStatus \ {"pending"}, SetItem(j, s) PROVE item[i] = "pending"
          BY <1>0, <1>4, <4>1 DEF SetItem, BaseInv, Typed
        <4> QED BY <1>0, <1>4, <2>2, <4>1, ItemIsWritten DEF ItemWrites
      <3>2. gen[i].status = "none" /\ \A r \in Runners : at[<<r, i>>] \notin Taken
        BY <1>0, <3>1 DEF FlowsApart
      <3>3. ASSUME NEW r \in Runners, InsertGeneration(r, i) PROVE FALSE
        BY <3>2, <3>3 DEF InsertGeneration, Taken
      <3> QED BY <1>0, <1>4, <3>2, <3>3, GenInserted, Takes
    <2> QED BY <2>1, <2>2
  <1> QED BY <1>2, <1>3, <1>4

LEMMA StartNext ==
  ASSUME StartInv, [Next]_vars
  PROVE  StartInv'
  BY BoundsNext, BegunKept, WorkKnownKept, FlowsApartKept DEF StartInv

-----------------------------------------------------------------------------
(* The approved text: what must not happen together *)

\* One reviewer, no lease that expires under a live worker, no generation
\* failed by the script, and either no crash, or no attempt that fails, or
\* one fault at most.
Steady ==
  /\ \A u, v \in Reviewers : u = v
  /\ "expire" \notin Faults /\ "generations" \notin Scripts
  /\ "crash" \notin Faults \/ "refuse" \notin Faults \/ MaxFaults <= 1

Engaged(w, i) == cur[w] = i /\ at[w] \in EngagedAt
NoneEngaged(i) == \A w \in Workers : ~Engaged(w, i)
Reviewing(i) == \E v \in Reviewers : cur[v] = i /\ at[v] \in ReviewingAt
On(i, S) == \E r \in Requests : at[r] \in S /\ cur[r] = i

\* Nobody is about to begin on the job of image i, nor can claim it.
Idle(i) ==
  /\ job[i].status # "queued"
  /\ job[i].status = "processing" =>
       job[i].owner = None \/ (job[i].owner \in Workers /\ Holds(job[i].owner, i) /\ at[job[i].owner] # "begin")

FailingAt == {"failGen", "failJob", "requeueGen", "requeueJob"}
NoFail(i) ==   \* but for the loss of its image, after which nothing is retried
  /\ image[i].gone \/ gen[i].status # "failed"
  /\ image[i].gone \/ \A w \in Workers : cur[w] = i => at[w] \notin FailingAt
  /\ ~On(i, {"retryJob", "retryGen"})
CanFail == "refuse" \in Faults
Unfailed == faults = 0 \/ ~CanFail
Spent(i) == NoFail(i) /\ (~CanFail \/ faults >= MaxFaults)

\* An engaged execution is alone, and its job is in its hands or done.
EngagedOwns ==
  \A w \in Workers, i \in Images : Engaged(w, i) =>
    /\ job[i].status # "queued" /\ (job[i].status = "processing" => job[i].owner = w)
    /\ \A u \in Workers : Engaged(u, i) => u = w

\* Nothing fails without a fault, or the loss of its image.
FailsByFault == \A i \in Images : Unfailed => NoFail(i)

\* What has failed, or is retried, is worked on by nobody.
RetriedIdle ==
  \A i \in Images :
    /\ (gen[i].status = "failed" /\ ~image[i].gone /\ ~On(i, {"retryGen"})) => NoneEngaged(i) /\ Idle(i)
    /\ On(i, {"retryJob"}) => NoneEngaged(i) /\ Idle(i) /\ gen[i].status \notin Editable /\ ~Reviewing(i)

\* What is reviewed is worked on by nobody, and nobody takes it up again.
ReviewedIdle ==
  \A i \in Images : Reviewing(i) \/ gen[i].status \in Editable =>
    /\ NoneEngaged(i) /\ gen[i].status \notin {"none", "failed", "rejected"}
    /\ Unfailed => gen[i].status \notin ActiveGen
    /\ Idle(i) \/ (Spent(i) /\ gen[i].status \notin ActiveGen)

\* The text a reviewer is about to approve is the one that is there.
ReviewedText ==
  \A v \in Reviewers :
    /\ at[v] = "approve" => seen[v].text = gen[cur[v]].text
    /\ at[v] = "approveGen" => approved[cur[v]] = gen[cur[v]].text

AgreeInv ==
  /\ StartInv /\ EngagedOwns /\ FailsByFault /\ RetriedIdle /\ ReviewedIdle /\ ReviewedText
  /\ ApprovedAgrees

LEMMA AgreeInit == Init => AgreeInv
  <1> SUFFICES ASSUME Init PROVE AgreeInv
    OBVIOUS
  <1>1. /\ \A t \in Workers \cup Reviewers \cup Requests : at[t] = "idle"
        /\ \A i \in Images : gen[i].status = "none" /\ ~image[i].gone
    BY Kinds DEF Init
  <1>2. "idle" \notin EngagedAt \cup ReviewingAt \cup FailingAt \cup {"approve", "approveGen", "retryJob", "retryGen"}
    BY DEF EngagedAt, ReviewingAt, FailingAt
  <1>3. EngagedOwns /\ RetriedIdle
    BY <1>1, <1>2 DEF EngagedOwns, RetriedIdle, Engaged, On
  <1>4. FailsByFault
    BY <1>1, <1>2 DEF FailsByFault, NoFail, On
  <1>5. ReviewedIdle /\ ReviewedText /\ ApprovedAgrees
    BY <1>1, <1>2 DEF ReviewedIdle, ReviewedText, ApprovedAgrees, Reviewing, Editable
  <1> QED BY <1>3, <1>4, <1>5, StartInit DEF AgreeInv

\* Whose write a changed generation is.
LEMMA GenActs ==
  ASSUME BaseInv, [Next]_vars, NEW i \in Images, gen'[i] # gen[i]
  PROVE  \/ \E r \in Runners : InsertGeneration(r, i)
         \/ \E r \in Requests : RetryGeneration(r) /\ cur[r] = i
         \/ \E w \in Workers : WriteGeneration(w) /\ cur[w] = i
         \/ \E v \in Reviewers : (SaveEdits(v) \/ CloseReview(v)) /\ cur[v] = i
         \/ gen'[i].status \in {"cancelled", "stale"}
         \/ ReconcileGeneration(i) /\ gen'[i].status = "failed"
  <1> DEFINE Goal == \/ \E r \in Runners : InsertGeneration(r, i)
                     \/ \E r \in Requests : RetryGeneration(r) /\ cur[r] = i
                     \/ \E w \in Workers : WriteGeneration(w) /\ cur[w] = i
                     \/ \E v \in Reviewers : (SaveEdits(v) \/ CloseReview(v)) /\ cur[v] = i
                     \/ gen'[i].status \in {"cancelled", "stale"}
                     \/ ReconcileGeneration(i) /\ gen'[i].status = "failed"
  <1> SUFFICES Goal
    OBVIOUS
  <1>0. gen' # gen
    OBVIOUS
  <1>1. ASSUME NEW r \in Runners, NEW j \in Images, InsertGeneration(r, j) PROVE Goal
    <2>1. j = i
      BY <1>1 DEF InsertGeneration, BaseInv, Typed
    <2> QED BY <1>1, <2>1
  <1>2. ASSUME NEW j, NEW s, SetGen(j, s) PROVE j = i /\ gen'[i].status = s
    BY <1>2 DEF SetGen, BaseInv, Typed, GenRow
  <1>3. ASSUME NEW w \in Workers, WriteGeneration(w) PROVE Goal
    <2>1. gen' = gen \/ (\E s : SetGen(cur[w], s)) \/ gen' = [gen EXCEPT ![cur[w]].status = "draft", ![cur[w]].text = @ + 1]
      BY <1>3 DEF WriteGeneration
    <2>2. cur[w] = i
      BY <1>0, <1>2, <2>1 DEF BaseInv, Typed
    <2> QED BY <1>3, <2>2
  <1>4. ASSUME NEW v \in Reviewers, SaveEdits(v) PROVE Goal
    <2>1. cur[v] = i
      BY <1>4 DEF SaveEdits, BaseInv, Typed
    <2> QED BY <1>4, <2>1
  <1>5. ASSUME NEW v \in Reviewers, CloseReview(v) PROVE Goal
    <2>1. cur[v] = i
      BY <1>2, <1>5 DEF CloseReview
    <2> QED BY <1>5, <2>1
  <1>6. ASSUME NEW r \in Requests, CancelGeneration(r) PROVE Goal
    BY <1>2, <1>6 DEF CancelGeneration
  <1>7. ASSUME NEW r \in Requests, RetryGeneration(r) PROVE Goal
    <2>1. cur[r] = i
      BY <1>7 DEF RetryGeneration, BaseInv, Typed
    <2> QED BY <1>7, <2>1
  <1>8. ASSUME NEW j \in Images, InvalidateGenerations(j) PROVE Goal
    <2>1. SetGen(j, Invalid(j)) /\ Invalid(j) \in {"cancelled", "stale"}
      BY <1>0, <1>8 DEF InvalidateGenerations, Invalid
    <2> QED BY <1>2, <2>1
  <1>9. ASSUME NEW t \in Workers \cup Reviewers, Synchronise(t) PROVE FALSE
    BY <1>0, <1>9 DEF Synchronise, SyncRead, SyncItem, Leave, gens
  <1>10. ASSUME NEW r \in Runners, RunnerAction(r) PROVE FALSE
    BY <1>0, <1>10 DEF RunnerAction, SelectPending, CreateBatch, StartRun, FinishRun, gens
  <1>11. ASSUME NEW r \in Runners, NEW j \in Images, FlowStep(r, j) PROVE Goal
    BY <1>0, <1>1, <1>11 DEF FlowStep, CheckCancelled, AcquireItem, CheckGeneration, InsertJob, SettleItem, gens
  <1>12. ASSUME NEW r \in Requests, RequestAction(r) PROVE Goal
    BY <1>0, <1>6, <1>7, <1>12 DEF RequestAction, RequestCancel, SelectQueued, CancelJob, CancelItem, FinishCancel,
         RequestRetry, RetryNext, RetryJob, RetryItem, FinishRetry, CancelNext, gens
  <1>13. ASSUME NEW w \in Workers, WorkerAction(w) PROVE Goal
    BY <1>0, <1>3, <1>13 DEF WorkerAction, Execute, BeginExecution, WriteJob, ClearLease, CrashWorker, ClaimJob, gens
  <1>14. ASSUME NEW v \in Reviewers, ReviewAction(v) PROVE Goal
    BY <1>0, <1>4, <1>5, <1>14 DEF ReviewAction, ReviewStep, ApproveText, BeginReview, gens
  <1>15. ASSUME NEW j \in Images, ImageAction(j) PROVE Goal
    BY <1>0, <1>8, <1>15 DEF ImageAction, LoseImage, EndReplacement, Invalidate, InvalidationFails, InvalidateJobs, InvalidateItems, gens
  <1>16. ASSUME NEW j \in Images, ScriptAction(j) PROVE Goal
    <2>1. ReconcileGeneration(j)
      BY <1>0, <1>16 DEF ScriptAction, RecoverLease, ReconcileJob, ReconcileItem, gens
    <2>2. j = i /\ gen'[i].status = "failed"
      BY <1>2, <2>1 DEF ReconcileGeneration
    <2> QED BY <2>1, <2>2
  <1>17. ~ReconcileBatch /\ ~UNCHANGED vars /\ ~\E t \in Mortals : RequestDies(t)
    BY <1>0, DeathKeeps DEF ReconcileBatch, vars, gens
  <1> HIDE DEF Goal
  <1> QED BY <1>9, <1>10, <1>11, <1>12, <1>13, <1>14, <1>15, <1>16, <1>17, NextCases

LEMMA GenStep ==
  ASSUME Steady, BaseInv, [Next]_vars, NEW i \in Images, gen'[i] # gen[i]
  PROVE  \/ \E r \in Runners : InsertGeneration(r, i)
         \/ \E r \in Requests : RetryGeneration(r) /\ cur[r] = i
         \/ \E w \in Workers : WriteGeneration(w) /\ cur[w] = i
         \/ \E v \in Reviewers : (SaveEdits(v) \/ CloseReview(v)) /\ cur[v] = i
         \/ gen'[i].status \in {"cancelled", "stale"}
  BY GenActs DEF Steady, ReconcileGeneration

\* Whose write a changed job is.
LEMMA JobActs ==
  ASSUME BaseInv, [Next]_vars, NEW i \in Images, job'[i] # job[i]
  PROVE  \/ \E w \in Workers : ClaimJob(w, i)
         \/ \E w \in Workers : (ClearLease(w) \/ WriteJob(w)) /\ cur[w] = i
         \/ \E r \in Runners : InsertJob(r, i)
         \/ \E r \in Requests : (RetryJob(r) \/ CancelJob(r)) /\ cur[r] = i
         \/ RecoverLease(i) \/ ReconcileJob(i) \/ InvalidateJobs(i)
  <1> DEFINE Goal == \/ \E w \in Workers : ClaimJob(w, i)
                     \/ \E w \in Workers : (ClearLease(w) \/ WriteJob(w)) /\ cur[w] = i
                     \/ \E r \in Runners : InsertJob(r, i)
                     \/ \E r \in Requests : (RetryJob(r) \/ CancelJob(r)) /\ cur[r] = i
                     \/ RecoverLease(i) \/ ReconcileJob(i) \/ InvalidateJobs(i)
  <1> SUFFICES Goal
    OBVIOUS
  <1>0. job' # job
    OBVIOUS
  <1>1. ASSUME NEW j, NEW s, SetJob(j, s) \/ FreeJob(j, s) PROVE j = i
    BY <1>1 DEF SetJob, FreeJob, BaseInv, Typed
  <1>2. ASSUME NEW r \in Runners, NEW j \in Images, InsertJob(r, j) PROVE Goal
    <2>1. j = i
      BY <1>1, <1>2 DEF InsertJob
    <2> QED BY <1>2, <2>1
  <1>3. ASSUME NEW r \in Requests, RetryJob(r) \/ CancelJob(r) PROVE Goal
    <2>1. cur[r] = i
      BY <1>1, <1>3 DEF RetryJob, CancelJob
    <2> QED BY <1>3, <2>1
  <1>4. ASSUME NEW w \in Workers, NEW j \in Images, ClaimJob(w, j) PROVE Goal
    <2>1. j = i
      BY <1>4 DEF ClaimJob, BaseInv, Typed
    <2> QED BY <1>4, <2>1
  <1>5. ASSUME NEW w \in Workers, WriteJob(w) \/ ClearLease(w) PROVE Goal
    <2>1. \E s : SetJob(cur[w], s) \/ FreeJob(cur[w], s)
      BY <1>5 DEF WriteJob, ClearLease
    <2>2. cur[w] = i
      BY <1>1, <2>1
    <2> QED BY <1>5, <2>2
  <1>6. ASSUME NEW j \in Images, RecoverLease(j) \/ ReconcileJob(j) \/ InvalidateJobs(j) PROVE Goal
    <2>1. \E s : SetJob(j, s) \/ FreeJob(j, s)
      BY <1>0, <1>6 DEF RecoverLease, ReconcileJob, InvalidateJobs
    <2>2. j = i
      BY <1>1, <2>1
    <2> QED BY <1>6, <2>2
  <1>7. ASSUME NEW t \in Workers \cup Reviewers, Synchronise(t) PROVE FALSE
    BY <1>0, <1>7 DEF Synchronise, SyncRead, SyncItem, Leave, gens
  <1>8. ASSUME NEW r \in Runners, RunnerAction(r) PROVE FALSE
    BY <1>0, <1>8 DEF RunnerAction, SelectPending, CreateBatch, StartRun, FinishRun, gens
  <1>9. ASSUME NEW r \in Runners, NEW j \in Images, FlowStep(r, j) PROVE Goal
    BY <1>0, <1>2, <1>9 DEF FlowStep, CheckCancelled, AcquireItem, CheckGeneration, InsertGeneration, SettleItem, gens
  <1>10. ASSUME NEW r \in Requests, RequestAction(r) PROVE Goal
    BY <1>0, <1>3, <1>10 DEF RequestAction, RequestCancel, SelectQueued, CancelGeneration, CancelItem, FinishCancel,
         RequestRetry, RetryNext, RetryGeneration, RetryItem, FinishRetry, CancelNext, gens
  <1>11. ASSUME NEW w \in Workers, WorkerAction(w) PROVE Goal
    BY <1>0, <1>4, <1>5, <1>11 DEF WorkerAction, Execute, BeginExecution, WriteGeneration, CrashWorker, gens
  <1>12. ASSUME NEW v \in Reviewers, ReviewAction(v) PROVE FALSE
    BY <1>0, <1>12 DEF ReviewAction, ReviewStep, SaveEdits, ApproveText, CloseReview, BeginReview, gens
  <1>13. ASSUME NEW j \in Images, ImageAction(j) PROVE Goal
    BY <1>0, <1>6, <1>13 DEF ImageAction, LoseImage, EndReplacement, Invalidate, InvalidationFails, InvalidateGenerations, InvalidateItems, gens
  <1>14. ASSUME NEW j \in Images, ScriptAction(j) PROVE Goal
    BY <1>0, <1>6, <1>14 DEF ScriptAction, ReconcileGeneration, ReconcileItem, gens
  <1>15. ~ReconcileBatch /\ ~UNCHANGED vars /\ ~\E t \in Mortals : RequestDies(t)
    BY <1>0, DeathKeeps DEF ReconcileBatch, vars, gens
  <1> HIDE DEF Goal
  <1> QED BY <1>7, <1>8, <1>9, <1>10, <1>11, <1>12, <1>13, <1>14, <1>15, NextCases

\* It ends, it is claimed or left, or it is queued again.
LEMMA JobStep ==
  ASSUME BaseInv, [Next]_vars, NEW i \in Images, job'[i] # job[i]
  PROVE  \/ \E w \in Workers : ClaimJob(w, i)
         \/ \E w \in Workers : ClearLease(w) /\ cur[w] = i
         \/ \E r \in Runners : InsertJob(r, i)
         \/ \E r \in Requests : RetryJob(r) /\ cur[r] = i
         \/ \E w \in Workers : WriteJob(w) /\ cur[w] = i /\ at[w] = "requeueJob"
         \/ RecoverLease(i)
         \/ job'[i].status \notin {"queued", "processing"}
  <1>1. ASSUME NEW s, SetJob(i, s) \/ FreeJob(i, s) PROVE job'[i].status = s
    BY <1>1 DEF SetJob, FreeJob, BaseInv, Typed, JobRow
  <1>2. ASSUME NEW r \in Requests, CancelJob(r), cur[r] = i PROVE job'[i].status = "cancelled"
    BY <1>1, <1>2 DEF CancelJob
  <1>3. ASSUME NEW w \in Workers, WriteJob(w), cur[w] = i, at[w] # "requeueJob"
        PROVE  job'[i].status \in {"completed", "failed", "stale"}
    BY <1>1, <1>3 DEF WriteJob
  <1>4. ASSUME ReconcileJob(i) \/ InvalidateJobs(i) PROVE job'[i].status \in {"failed", "stale", "cancelled"}
    BY <1>1, <1>4 DEF ReconcileJob, InvalidateJobs, Invalid
  <1> QED BY <1>2, <1>3, <1>4, JobActs

LEMMA CrashNames ==
  /\ "begin" \notin EngagedAt /\ "idle" \notin EngagedAt /\ EngagedAt \cap Syncing = {}
  /\ \A w \in Workers : w # None
  BY MetadataAssumption DEF MetadataAssumption, EngagedAt, Syncing

\* The owner of a lease keeps its job until it has cleared the lease, or dies.
LEMMA OwnerHolds ==
  ASSUME BaseInv, [Next]_vars, NEW i \in Images, NEW w \in Workers,
         job[i].owner = w, Holds(w, i), at[w] # "begin"
  PROVE  (Holds(w, i) /\ at[w] # "begin")' \/ CrashWorker(w)
  <1>0. w \in Tasks
    BY Kinds
  <1>1. \A pc : Goto(w, pc) => at'[w] = pc
    BY <1>0, GotoMoves
  <1>2. CASE Stays(w)
    BY <1>2 DEF Stays, Holds
  <1>3. CASE Synchronise(w)
    BY <1>1, <1>3 DEF Synchronise, SyncRead, SyncItem, Leave, Holds
  <1>4. CASE Execute(w)
    <2>1. cur' = cur
      BY <1>4 DEF Execute, BeginExecution, WriteGeneration, WriteJob, ClearLease
    <2>2. at'[w] \notin {"idle", "begin"}
      BY <1>1, <1>4 DEF Execute, BeginExecution, WriteGeneration, WriteJob, ClearLease, Holds
    <2> QED BY <2>1, <2>2 DEF Holds
  <1>5. ASSUME NEW j \in Images, ClaimJob(w, j) PROVE FALSE
    BY <1>5 DEF ClaimJob, Holds
  <1> QED BY <1>2, <1>3, <1>4, <1>5, WorkerMover DEF WorkerAction

\* Nobody takes up an image that is idle, and it stays so, unless its owner
\* dies or a retry queues its job.
LEMMA IdleKept ==
  ASSUME Steady, BaseInv, WorkKnown, FlowsApart, [Next]_vars, NEW i \in Images,
         Idle(i), NoneEngaged(i), gen[i].status # "none",
         ~\E r \in Requests : RetryJob(r) /\ cur[r] = i
  PROVE  NoneEngaged(i)' /\ (Idle(i)' \/ \E w \in Workers : CrashWorker(w))
  <1>1. ASSUME NEW w \in Workers, Engaged(w, i)' PROVE FALSE
    <2>1. cur[w] = i /\ at[w] = "begin" /\ job[i].status = "processing" /\ job[i].owner = w
      BY <1>1, Engages DEF Engaged, NoneEngaged
    <2> QED BY <2>1, CrashNames DEF Idle
  <1>2. ASSUME job'[i] = job[i] PROVE Idle(i)' \/ \E w \in Workers : CrashWorker(w)
    <2>1. CASE job[i].status = "processing" /\ job[i].owner # None
      <3>1. PICK w \in Workers : job[i].owner = w /\ Holds(w, i) /\ at[w] # "begin"
        BY <2>1 DEF Idle
      <3>2. job'[i].owner = w /\ job'[i].status = "processing"
        BY <1>2, <2>1, <3>1
      <3>3. (Holds(w, i) /\ at[w] # "begin")' \/ CrashWorker(w)
        BY <3>1, <3>2, OwnerHolds
      <3> QED BY <3>1, <3>2, <3>3 DEF Idle
    <2> QED BY <1>2, <2>1 DEF Idle
  <1>3. ASSUME job'[i] # job[i] PROVE Idle(i)'
    <2>1. ASSUME NEW w \in Workers, ClaimJob(w, i) PROVE FALSE
      BY <2>1 DEF ClaimJob, Idle
    <2>2. ASSUME NEW w \in Workers, ClearLease(w), cur[w] = i PROVE Idle(i)'
      <3>1. FreeJob(i, job[i].status)
        BY <2>2 DEF ClearLease
      <3>2. job'[i].status = job[i].status /\ job'[i].owner = None
        BY <3>1 DEF FreeJob, BaseInv, Typed, JobRow
      <3> QED BY <3>2 DEF Idle
    <2>3. ASSUME NEW r \in Runners, InsertJob(r, i) PROVE FALSE
      BY <2>3 DEF InsertJob, FlowsApart
    <2>4. ASSUME NEW w \in Workers, cur[w] = i, at[w] = "requeueJob" PROVE FALSE
      BY <2>4 DEF NoneEngaged, Engaged, EngagedAt
    <2>5. ASSUME RecoverLease(i) PROVE FALSE
      BY <2>5 DEF RecoverLease, Idle, Fault, Steady
    <2> QED BY <1>3, <2>1, <2>2, <2>3, <2>4, <2>5, JobStep DEF Idle
  <1> QED BY <1>1, <1>2, <1>3 DEF NoneEngaged

LEMMA EngagedKept ==
  ASSUME Steady, AgreeInv, [Next]_vars
  PROVE  EngagedOwns'
  <1>0. BaseInv /\ WorkKnown /\ FlowsApart /\ EngagedOwns /\ RetriedIdle
    BY DEF AgreeInv, StartInv, BoundsInv
  <1>1. ASSUME NEW w \in Workers, NEW i \in Images, Engaged(w, i)'
        PROVE  cur[w] = i /\ (Engaged(w, i) \/ (BeginExecution(w) /\ job[i].status = "processing" /\ job[i].owner = w))
    BY <1>0, <1>1, Engages DEF Engaged
  <1>2. ASSUME NEW w \in Workers, NEW i \in Images, Engaged(w, i)', NEW u \in Workers, Engaged(u, i)', u # w PROVE FALSE
    <2>1. /\ Engaged(w, i) \/ (job[i].status = "processing" /\ job[i].owner = w)
          /\ Engaged(u, i) \/ (job[i].status = "processing" /\ job[i].owner = u)
      BY <1>1, <1>2
    <2> QED BY <1>0, <1>2, <2>1 DEF EngagedOwns
  <1>3. ASSUME NEW w \in Workers, NEW i \in Images, Engaged(w, i)'
        PROVE  job'[i].status # "queued" /\ (job'[i].status = "processing" => job'[i].owner = w)
    <2>1. CASE BeginExecution(w) /\ job[i].status = "processing" /\ job[i].owner = w
      <3>1. job' = job
        BY <2>1 DEF BeginExecution, gens
      <3> QED BY <2>1, <3>1
    <2>2. CASE Engaged(w, i)
      <3>1. /\ job[i].status # "queued" /\ (job[i].status = "processing" => job[i].owner = w)
            /\ \A u \in Workers : Engaged(u, i) => u = w
            /\ gen[i].status # "none"
        BY <1>0, <2>2 DEF EngagedOwns, WorkKnown, Engaged
      <3>2. ASSUME NEW u \in Workers, ClaimJob(u, i) PROVE FALSE
        BY <3>1, <3>2 DEF ClaimJob
      <3>3. ASSUME NEW u \in Workers, ClearLease(u), cur[u] = i PROVE job'[i].status = job[i].status /\ job[i].owner # w
        <4>1. FreeJob(i, job[i].status) /\ job[i].owner = u /\ at[u] \in Syncing
          BY <3>3 DEF ClearLease, Syncing
        <4>2. job'[i].status = job[i].status
          BY <1>0, <4>1 DEF FreeJob, BaseInv, Typed, JobRow
        <4> QED BY <2>2, <4>1, <4>2, CrashNames DEF Engaged
      <3>4. ASSUME NEW r \in Runners, InsertJob(r, i) PROVE FALSE
        BY <1>0, <3>1, <3>4 DEF InsertJob, FlowsApart
      <3>5. ASSUME NEW r \in Requests, RetryJob(r), cur[r] = i PROVE FALSE
        BY <1>0, <2>2, <3>5 DEF RetryJob, RetriedIdle, NoneEngaged, On
      <3>6. ASSUME NEW u \in Workers, WriteJob(u), cur[u] = i, at[u] = "requeueJob" PROVE FALSE
        <4>1. u = w
          BY <3>1, <3>6 DEF Engaged, EngagedAt
        <4>2. at'[w] = "leave"
          BY <1>0, <3>6, <4>1, GotoMoves, Kinds DEF WriteJob
        <4> QED BY <1>3, <4>2 DEF Engaged, EngagedAt
      <3>7. ASSUME RecoverLease(i) PROVE FALSE
        <4>1. job[i].owner = w
          BY <3>1, <3>7 DEF RecoverLease
        <4> QED BY <2>2, <3>7, <4>1, CrashNames DEF RecoverLease, Holds, Engaged, Fault, Steady
      <3> QED BY <1>0, <3>1, <3>2, <3>3, <3>4, <3>5, <3>6, <3>7, JobStep
    <2> QED BY <1>1, <1>3, <2>1, <2>2
  <1> QED BY <1>2, <1>3 DEF EngagedOwns

\* What is gone stays gone.
LEMMA ImageGone ==
  ASSUME BaseInv, [Next]_vars, NEW i \in Images, ~image'[i].gone
  PROVE  ~image[i].gone
  <1>1. image \in [Images -> ImageRow]
    BY DEF BaseInv, Typed
  <1>2. ASSUME NEW j \in Images, LoseImage(j) PROVE ~image[i].gone
    BY <1>1, <1>2 DEF LoseImage, ImageRow
  <1>3. ASSUME NEW j \in Images, EndReplacement(j) PROVE ~image[i].gone
    <2>1. PICK n \in {0, 1} : image' = [image EXCEPT ![j].open = FALSE, ![j].revision = @ + n]
      BY <1>3 DEF EndReplacement
    <2> QED BY <1>1, <2>1 DEF ImageRow
  <1> QED BY <1>2, <1>3, ImageWritten

\* A generation comes to fail by a refusal, or by the loss of its image.
LEMMA NoFailKept ==
  ASSUME Steady, BaseInv, [Next]_vars, NEW i \in Images, NoFail(i), ~Fault("refuse")
  PROVE  NoFail(i)'
  <1>0. ~image'[i].gone => ~image[i].gone
    BY ImageGone
  <1>1. ASSUME ~image[i].gone PROVE gen'[i].status # "failed"
    <2>1. ASSUME NEW r \in Runners, InsertGeneration(r, i) PROVE gen'[i].status # "failed"
      BY <2>1 DEF InsertGeneration, BaseInv, Typed, GenRow
    <2>2. ASSUME NEW r \in Requests, RetryGeneration(r), cur[r] = i PROVE FALSE
      BY <2>2 DEF RetryGeneration, NoFail, On
    <2>3. ASSUME NEW w \in Workers, WriteGeneration(w), cur[w] = i PROVE gen'[i].status # "failed"
      <3>1. at[w] # "failGen"
        BY <1>1, <2>3 DEF NoFail, FailingAt
      <3>2. \/ gen' = gen
            \/ \E s \in {"stale", "generating", "validating_output", "queued"} : SetGen(i, s)
            \/ gen' = [gen EXCEPT ![i].status = "draft", ![i].text = @ + 1]
        BY <2>3, <3>1 DEF WriteGeneration
      <3> QED BY <1>1, <3>2 DEF SetGen, NoFail, BaseInv, Typed, GenRow
    <2>4. ASSUME NEW v \in Reviewers, SaveEdits(v) \/ CloseReview(v), cur[v] = i PROVE gen'[i].status # "failed"
      BY <2>4 DEF SaveEdits, CloseReview, SetGen, BaseInv, Typed, GenRow
    <2> QED BY <1>1, <2>1, <2>2, <2>3, <2>4, GenStep DEF NoFail
  <1>3. ASSUME ~image[i].gone, NEW w \in Workers, cur'[w] = i, at'[w] \in FailingAt PROVE FALSE
    <2>0. w \in Tasks
      BY Kinds
    <2>1. \A pc : Goto(w, pc) => at'[w] = pc
      BY <2>0, GotoMoves
    <2>2. ~Stays(w)
      BY <1>3 DEF Stays, NoFail
    <2>3. ASSUME Synchronise(w) PROVE FALSE
      BY <1>3, <2>1, <2>3 DEF Synchronise, SyncRead, SyncItem, Leave, FailingAt
    <2>4. ASSUME Execute(w) PROVE FALSE
      <3>1. cur[w] = i /\ at[w] \notin FailingAt
        BY <1>3, <2>4 DEF Execute, BeginExecution, WriteGeneration, WriteJob, ClearLease, NoFail
      <3>2. ASSUME BeginExecution(w) PROVE FALSE
        <4>1. Verdict(i) \in {"staleGen", "outdateGen", "generate"}
          BY <1>3 DEF Verdict
        <4>2. at'[w] \in {"staleGen", "outdateGen", "generate", "leave"}
          BY <2>1, <3>1, <3>2, <4>1 DEF BeginExecution
        <4> QED BY <1>3, <4>2 DEF FailingAt
      <3> QED BY <1>3, <2>1, <2>4, <3>1, <3>2 DEF Execute, WriteGeneration, WriteJob, ClearLease, FailingAt
    <2>5. ASSUME CrashWorker(w) \/ \E j \in Images : ClaimJob(w, j) PROVE FALSE
      BY <1>3, <2>1, <2>5 DEF CrashWorker, ClaimJob, FailingAt
    <2> QED BY <2>2, <2>3, <2>4, <2>5, WorkerMover DEF WorkerAction
  <1>4. ASSUME NEW r \in Requests, cur'[r] = i, at'[r] \in {"retryJob", "retryGen"} PROVE FALSE
    <2>1. ~Stays(r)
      BY <1>4 DEF Stays, NoFail, On
    <2>2. RequestAction(r)
      BY <1>4, <2>1, RequestMover
    <2>3. ASSUME NEW j \in Images, RetryNext(r, j), gen[j].status = "failed", cur'[r] = j, at'[r] = "retryJob" PROVE FALSE
      <3>1. j = i /\ gen[i].status = "failed" /\ image[i].gone
        BY <1>4, <2>3 DEF NoFail
      <3>2. Goto(r, "retryJob") \/ at' = at
        BY <2>3 DEF RetryNext
      <3>3. at' = at
        BY <2>3, <3>1 DEF RetryNext, SameSource
      <3> QED BY <2>3, <3>3 DEF RetryNext
    <2> QED BY <1>4, <2>2, <2>3, RetryStep DEF NoFail, On
  <1> QED BY <1>0, <1>1, <1>3, <1>4 DEF NoFail, On

LEMMA FailsKept ==
  ASSUME Steady, BaseInv, FailsByFault, [Next]_vars
  PROVE  FailsByFault'
  <1>0. faults \in Nat /\ faults' \in Nat /\ faults' >= faults
    BY CountersKept DEF BaseInv, Typed
  <1> SUFFICES ASSUME NEW i \in Images, Unfailed' PROVE NoFail(i)'
    BY DEF FailsByFault
  <1>1. Unfailed /\ ~Fault("refuse")
    BY <1>0 DEF Unfailed, CanFail, Fault
  <1> QED BY <1>1, NoFailKept DEF FailsByFault

\* Somebody dies only before anything has failed, and then nothing will.
LEMMA Deaths ==
  ASSUME Steady, BaseInv, Fault("crash")
  PROVE  Unfailed /\ (~CanFail \/ faults' >= MaxFaults)
  <1>1. faults \in Nat /\ MaxFaults \in Nat /\ faults < MaxFaults /\ faults' = faults + 1 /\ "crash" \in Faults
    BY MetadataAssumption DEF MetadataAssumption, BaseInv, Typed, Fault
  <1>2. CASE ~CanFail
    BY <1>2 DEF Unfailed
  <1>3. CASE MaxFaults <= 1
    BY <1>1, <1>3 DEF Unfailed
  <1> QED BY <1>1, <1>2, <1>3 DEF Steady, CanFail

LEMMA Crashes ==
  ASSUME Steady, BaseInv, NEW w \in Workers, CrashWorker(w)
  PROVE  /\ Unfailed /\ (~CanFail \/ faults' >= MaxFaults)
         /\ UNCHANGED <<image, gen, job>> /\ \A t \in Tasks \ {w} : at'[t] = at[t] /\ cur'[t] = cur[t]
  <1>1. UNCHANGED <<image, gen, job>> /\ Fault("crash")
    BY DEF CrashWorker, gens
  <1>2. Moves(w)
    BY WorkerMoves DEF WorkerAction
  <1> QED BY <1>1, <1>2, Deaths DEF Moves

\* What was not reviewed is reviewed after an execution has drafted it.
LEMMA ReviewEnters ==
  ASSUME Steady, BaseInv, [Next]_vars, NEW i \in Images, (Reviewing(i) \/ gen[i].status \in Editable)'
  PROVE  \/ Reviewing(i) \/ gen[i].status \in Editable
         \/ \E w \in Workers : /\ WriteGeneration(w) /\ Engaged(w, i) /\ at'[w] = "completeJob"
                               /\ gen'[i].status = "draft"
  <1>1. ASSUME Reviewing(i)' PROVE Reviewing(i) \/ gen[i].status \in Editable
    <2>1. PICK v \in Reviewers : cur'[v] = i /\ at'[v] \in ReviewingAt
      BY <1>1 DEF Reviewing
    <2> QED BY <2>1, Reviews DEF Reviewing, BeginReview
  <1>2. ASSUME gen'[i].status \in Editable, gen'[i] # gen[i]
        PROVE  \/ Reviewing(i)
               \/ \E w \in Workers : /\ WriteGeneration(w) /\ Engaged(w, i) /\ at'[w] = "completeJob"
                                     /\ gen'[i].status = "draft"
    <2>1. ASSUME NEW r \in Runners, InsertGeneration(r, i) PROVE FALSE
      BY <1>2, <2>1 DEF InsertGeneration, BaseInv, Typed, GenRow, Editable
    <2>2. ASSUME NEW r \in Requests, RetryGeneration(r), cur[r] = i PROVE FALSE
      BY <1>2, <2>2 DEF RetryGeneration, BaseInv, Typed, GenRow, Editable
    <2>3. ASSUME NEW w \in Workers, WriteGeneration(w), cur[w] = i
          PROVE  Engaged(w, i) /\ at'[w] = "completeJob" /\ gen'[i].status = "draft"
      <3>1. at[w] \in EngagedAt
        BY <2>3 DEF WriteGeneration, EngagedAt
      <3>2. \/ \E s \in {"failed", "stale", "generating", "validating_output", "queued"} : SetGen(i, s)
            \/ gen' = gen
            \/ gen' = [gen EXCEPT ![i].status = "draft", ![i].text = @ + 1] /\ Goto(w, "completeJob")
        BY <2>3 DEF WriteGeneration
      <3>3. gen' = [gen EXCEPT ![i].status = "draft", ![i].text = @ + 1] /\ Goto(w, "completeJob")
        BY <1>2, <3>2 DEF SetGen, BaseInv, Typed, GenRow, Editable
      <3>4. gen'[i].status = "draft"
        BY <3>3 DEF BaseInv, Typed, GenRow
      <3> QED BY <2>3, <3>1, <3>3, <3>4, GotoMoves, Kinds DEF Engaged
    <2>4. ASSUME NEW v \in Reviewers, SaveEdits(v) \/ CloseReview(v), cur[v] = i PROVE Reviewing(i)
      BY <2>4 DEF SaveEdits, CloseReview, Reviewing, ReviewingAt
    <2> QED BY <1>2, <2>1, <2>2, <2>3, <2>4, GenStep DEF Editable
  <1> QED BY <1>1, <1>2

LEMMA RetriedKept ==
  ASSUME Steady, AgreeInv, [Next]_vars
  PROVE  RetriedIdle'
  <1>0. /\ BaseInv /\ WorkKnown /\ FlowsApart /\ EngagedOwns /\ RetriedIdle /\ FailsByFault /\ ReviewedIdle /\ OneRetry
    BY DEF AgreeInv, StartInv, BoundsInv
  <1>1. ASSUME NEW i \in Images, gen'[i].status = "failed", ~image'[i].gone, ~On(i, {"retryGen"})' PROVE NoneEngaged(i)' /\ Idle(i)'
    <2>0. ~image[i].gone
      BY <1>0, <1>1, ImageGone
    <2>1. CASE gen[i].status # "failed"
      <3>1. PICK w \in Workers : WriteGeneration(w) /\ cur[w] = i /\ at[w] = "failGen" /\ Goto(w, "failJob")
        <4>1. ASSUME NEW r \in Runners, InsertGeneration(r, i) PROVE FALSE
          BY <1>0, <1>1, <4>1 DEF InsertGeneration, BaseInv, Typed, GenRow
        <4>2. ASSUME NEW r \in Requests, RetryGeneration(r), cur[r] = i PROVE FALSE
          BY <1>0, <1>1, <4>2 DEF RetryGeneration, BaseInv, Typed, GenRow
        <4>3. ASSUME NEW v \in Reviewers, SaveEdits(v) \/ CloseReview(v), cur[v] = i PROVE FALSE
          BY <1>0, <1>1, <4>3 DEF SaveEdits, CloseReview, SetGen, BaseInv, Typed, GenRow
        <4>4. PICK w \in Workers : WriteGeneration(w) /\ cur[w] = i
          BY <1>0, <1>1, <2>1, <4>1, <4>2, <4>3, GenStep
        <4>5. \/ at[w] = "failGen" /\ Goto(w, "failJob")
              \/ \E s \in {"stale", "generating", "validating_output", "queued"} : SetGen(i, s)
              \/ gen' = gen
              \/ gen' = [gen EXCEPT ![i].status = "draft", ![i].text = @ + 1]
          BY <4>4 DEF WriteGeneration
        <4>6. at[w] = "failGen" /\ Goto(w, "failJob")
          BY <1>0, <1>1, <2>1, <4>5 DEF SetGen, BaseInv, Typed, GenRow
        <4> QED BY <4>4, <4>6
      <3>2. at'[w] = "failJob" /\ cur' = cur /\ job' = job /\ Engaged(w, i)
        BY <1>0, <3>1, GotoMoves, Kinds DEF WriteGeneration, Engaged, EngagedAt
      <3>3. ASSUME NEW u \in Workers, Engaged(u, i)' PROVE FALSE
        <4>1. ~BeginExecution(u)
          BY <1>1, <2>1 DEF BeginExecution, gens
        <4>2. Engaged(u, i)
          BY <1>0, <3>3, <4>1, Engages DEF Engaged
        <4>3. u = w
          BY <1>0, <3>2, <4>2 DEF EngagedOwns
        <4> QED BY <3>2, <3>3, <4>3 DEF Engaged, EngagedAt
      <3>4. Idle(i)'
        <4>1. job'[i].status # "queued" /\ (job'[i].status = "processing" => job'[i].owner = w)
          BY <1>0, <3>2 DEF EngagedOwns
        <4>2. Holds(w, i)' /\ at'[w] # "begin"
          BY <3>1, <3>2 DEF Holds
        <4> QED BY <4>1, <4>2 DEF Idle
      <3> QED BY <3>3, <3>4 DEF NoneEngaged
    <2>2. CASE gen[i].status = "failed"
      <3>1. ASSUME NEW r \in Requests, at[r] = "retryGen", cur[r] = i PROVE FALSE
        <4>1. ~Stays(r)
          BY <1>1, <3>1 DEF Stays, On
        <4>2. RequestAction(r)
          <5>1. ASSUME NEW t \in Mortals, RequestDies(t) PROVE FALSE
            BY <1>0, <2>0, <2>2, <5>1, DeathKeeps, Deaths DEF FailsByFault, NoFail
          <5> QED BY <1>0, <4>1, <5>1, RequestMover
        <4>3. RetryGeneration(r)
          BY <3>1, <4>2 DEF RequestAction, RequestCancel, SelectQueued, CancelGeneration, CancelJob, CancelItem, FinishCancel,
             RequestRetry, RetryNext, RetryJob, RetryItem, FinishRetry, CancelNext, BeginOp
        <4> QED BY <1>0, <1>1, <3>1, <4>3 DEF RetryGeneration, BaseInv, Typed, GenRow
      <3>2. NoneEngaged(i) /\ Idle(i)
        BY <1>0, <2>0, <2>2, <3>1 DEF RetriedIdle, On
      <3>3. ASSUME NEW r \in Requests, RetryJob(r), cur[r] = i PROVE FALSE
        BY <1>0, <1>1, <3>3, GotoMoves, Kinds DEF RetryJob, On
      <3>4. ASSUME NEW w \in Workers, CrashWorker(w) PROVE FALSE
        BY <1>0, <2>0, <2>2, <3>4, Crashes DEF FailsByFault, NoFail
      <3> QED BY <1>0, <2>2, <3>2, <3>3, <3>4, IdleKept
    <2> QED BY <2>1, <2>2
  <1>2. ASSUME NEW i \in Images, On(i, {"retryJob"})'
        PROVE  NoneEngaged(i)' /\ Idle(i)' /\ gen'[i].status \notin Editable /\ ~Reviewing(i)'
    <2>1. PICK r \in Requests : at'[r] = "retryJob" /\ cur'[r] = i
      BY <1>2 DEF On
    <2>2. CASE Stays(r)
      <3>1. at[r] = "retryJob" /\ cur[r] = i
        BY <2>1, <2>2 DEF Stays
      <3>2. NoneEngaged(i) /\ Idle(i) /\ gen[i].status \notin Editable /\ ~Reviewing(i) /\ gen[i].status # "none"
        BY <1>0, <3>1 DEF RetriedIdle, On, WorkKnown
      <3>3. ASSUME NEW s \in Requests, RetryJob(s), cur[s] = i PROVE FALSE
        <4>1. s = r
          BY <1>0, <3>1, <3>3 DEF OneRetry, Retry, RetryJob
        <4> QED BY <1>0, <2>1, <3>3, <4>1, GotoMoves, Kinds DEF RetryJob
      <3>4. ASSUME NEW w \in Workers, CrashWorker(w) PROVE FALSE
        BY <1>0, <3>1, <3>4, Crashes DEF FailsByFault, NoFail, On
      <3>5. NoneEngaged(i)' /\ Idle(i)'
        BY <1>0, <3>2, <3>3, <3>4, IdleKept
      <3>6. ~(Reviewing(i) \/ gen[i].status \in Editable)'
        BY <1>0, <3>2, ReviewEnters DEF NoneEngaged
      <3> QED BY <3>5, <3>6
    <2>3. CASE RequestAction(r)
      <3>1. PICK j \in Images : RetryNext(r, j) /\ cur'[r] = j /\ gen[j].status = "failed" /\ at[r] = "retry"
        BY <1>0, <2>1, <2>3, RetryStep
      <3>2. RetryNext(r, i) /\ gen[i].status = "failed" /\ gen' = gen /\ job' = job
        BY <2>1, <3>1 DEF RetryNext, gens
      <3>3. ~On(i, {"retryGen"})
        BY <1>0, <3>1 DEF On, OneRetry, Retry
      <3>8. ~image[i].gone
        BY <2>1, <3>1, <3>2 DEF RetryNext, SameSource
      <3>4. NoneEngaged(i) /\ Idle(i) /\ gen[i].status \notin Editable /\ ~Reviewing(i)
        BY <1>0, <3>2, <3>3, <3>8 DEF RetriedIdle, ReviewedIdle, Editable
      <3>5. \A t \in Workers \cup Reviewers : at'[t] = at[t] /\ cur'[t] = cur[t]
        BY <1>0, <2>3, RequestMoves, Kinds DEF Moves
      <3>6. NoneEngaged(i)' /\ ~Reviewing(i)'
        BY <3>4, <3>5 DEF NoneEngaged, Engaged, Reviewing
      <3>7. Idle(i)'
        BY <3>2, <3>4, <3>5 DEF Idle, Holds
      <3> QED BY <3>2, <3>4, <3>6, <3>7
    <2> QED BY <1>0, <2>1, <2>2, <2>3, RequestMover
  <1> QED BY <1>1, <1>2 DEF RetriedIdle

\* A generation becomes one to execute by its insert, by a retry, or by an
\* execution; it fails by an execution, and is rejected by a review.
LEMMA GenTurns ==
  ASSUME Steady, BaseInv, [Next]_vars, NEW i \in Images, NoneEngaged(i), gen[i].status # "none"
  PROVE  /\ gen'[i].status \in ActiveGen =>
              \/ gen[i].status \in ActiveGen \/ On(i, {"retryGen"}) \/ \E r \in Runners : InsertGeneration(r, i)
         /\ gen'[i].status = "failed" => gen[i].status = "failed"
         /\ gen'[i].status = "rejected" =>
              \/ gen[i].status = "rejected"
              \/ \E v \in Reviewers : at[v] = "reject" /\ at'[v] \notin ReviewingAt
         /\ gen'[i].text # gen[i].text =>
              \E v \in Reviewers : SaveEdits(v) /\ at'[v] = "leave" /\ gen'[i].status = "reviewed"
         /\ gen'[i].status = "approved" =>
              \/ gen[i].status = "approved"
              \/ \E v \in Reviewers : cur[v] = i /\ at[v] = "approveGen" /\ approved' = approved
  <1>1. ASSUME NEW w \in Workers, WriteGeneration(w), cur[w] = i PROVE FALSE
    BY <1>1 DEF WriteGeneration, NoneEngaged, Engaged, EngagedAt
  <1>2. ASSUME NEW r \in Runners, InsertGeneration(r, i)
        PROVE  gen'[i].status = "queued" /\ gen'[i].text = gen[i].text
    BY <1>2 DEF InsertGeneration, BaseInv, Typed, GenRow
  <1>3. ASSUME NEW r \in Requests, RetryGeneration(r), cur[r] = i
        PROVE  gen'[i].status = "queued" /\ gen'[i].text = gen[i].text /\ On(i, {"retryGen"})
    BY <1>3 DEF RetryGeneration, BaseInv, Typed, GenRow, On
  <1>4. ASSUME NEW v \in Reviewers, SaveEdits(v), cur[v] = i PROVE gen'[i].status = "reviewed" /\ at'[v] = "leave"
    BY <1>4, GotoMoves, Kinds DEF SaveEdits, BaseInv, Typed, GenRow
  <1>5. ASSUME NEW v \in Reviewers, CloseReview(v), cur[v] = i
        PROVE  /\ gen'[i].text = gen[i].text /\ approved' = approved /\ at'[v] \in {"sync", "leave"}
               /\ \/ at[v] = "approveGen" /\ gen'[i].status = "approved"
                  \/ at[v] = "reject" /\ gen'[i].status = "rejected"
    BY <1>5, GotoMoves, Kinds DEF CloseReview, SetGen, BaseInv, Typed, GenRow
  <1>6. {"cancelled", "stale", "approved", "rejected", "reviewed", "failed"} \cap ActiveGen = {} /\ {"sync", "leave"} \cap ReviewingAt = {}
    BY DEF ActiveGen, ReviewingAt
  <1>7. ASSUME gen'[i].text # gen[i].text PROVE \E v \in Reviewers : SaveEdits(v) /\ cur[v] = i
    <2>1. ASSUME NEW w \in Workers, w \in Writers(i), Drafted(w) PROVE FALSE
      BY <2>1 DEF Drafted, Writers, Writing, NoneEngaged, Engaged, EngagedAt
    <2> QED BY <1>7, <2>1, TextWritten DEF Writers, Writing
  <1>8. gen'[i] = gen[i] \/ gen'[i] # gen[i]
    OBVIOUS
  <1> QED BY <1>1, <1>2, <1>3, <1>4, <1>5, <1>6, <1>7, <1>8, GenStep

LEMMA ReviewedKept ==
  ASSUME Steady, AgreeInv, [Next]_vars
  PROVE  ReviewedIdle'
  <1>0. /\ BaseInv /\ WorkKnown /\ FlowsApart /\ EngagedOwns /\ RetriedIdle /\ FailsByFault /\ ReviewedIdle
    BY DEF AgreeInv, StartInv, BoundsInv
  <1>1. faults \in Nat /\ faults' \in Nat /\ faults' >= faults /\ MaxFaults \in Nat
    BY <1>0, CountersKept, MetadataAssumption DEF MetadataAssumption, BaseInv, Typed
  <1> SUFFICES ASSUME NEW i \in Images, (Reviewing(i) \/ gen[i].status \in Editable)'
               PROVE  /\ NoneEngaged(i)' /\ gen'[i].status \notin {"none", "failed", "rejected"}
                      /\ Unfailed' => gen'[i].status \notin ActiveGen
                      /\ Idle(i)' \/ (Spent(i)' /\ gen'[i].status \notin ActiveGen)
    BY DEF ReviewedIdle
  <1>2. CASE \E w \in Workers : WriteGeneration(w) /\ Engaged(w, i) /\ at'[w] = "completeJob" /\ gen'[i].status = "draft"
    <2>1. PICK w \in Workers : WriteGeneration(w) /\ Engaged(w, i) /\ at'[w] = "completeJob" /\ gen'[i].status = "draft"
      BY <1>2
    <2>2. cur' = cur /\ job' = job
      BY <2>1 DEF WriteGeneration
    <2>3. \A u \in Tasks \ {w} : at'[u] = at[u]
      BY <1>0, <2>1, WorkerMoves DEF WorkerAction, Execute, Moves
    <2>4. ASSUME NEW u \in Workers, Engaged(u, i)' PROVE FALSE
      <3>1. u # w
        BY <2>1, <2>4 DEF Engaged, EngagedAt
      <3>2. Engaged(u, i)
        BY <2>2, <2>3, <2>4, <3>1, Kinds DEF Engaged
      <3> QED BY <1>0, <2>1, <3>1, <3>2 DEF EngagedOwns
    <2>5. Idle(i)'
      <3>1. job'[i].status # "queued" /\ (job'[i].status = "processing" => job'[i].owner = w)
        BY <1>0, <2>1, <2>2 DEF EngagedOwns
      <3>2. Holds(w, i)' /\ at'[w] # "begin"
        BY <2>1, <2>2 DEF Holds, Engaged
      <3> QED BY <3>1, <3>2 DEF Idle
    <2>6. "draft" \notin ActiveGen
      BY DEF ActiveGen
    <2> QED BY <2>1, <2>4, <2>5, <2>6 DEF NoneEngaged
  <1>3. CASE Reviewing(i) \/ gen[i].status \in Editable
    <2>1. /\ NoneEngaged(i) /\ gen[i].status \notin {"none", "failed", "rejected"}
          /\ Unfailed => gen[i].status \notin ActiveGen
          /\ Idle(i) \/ (Spent(i) /\ gen[i].status \notin ActiveGen)
      BY <1>0, <1>3 DEF ReviewedIdle
    <2>2. ASSUME NEW r \in Runners, InsertGeneration(r, i) PROVE FALSE
      BY <1>0, <2>1, <2>2 DEF InsertGeneration, FlowsApart
    <2>3. ASSUME NEW r \in Requests, RetryJob(r), cur[r] = i PROVE FALSE
      BY <1>0, <1>3, <2>3 DEF RetryJob, RetriedIdle, On
    <2>4. ASSUME NEW w \in Workers, Engaged(w, i)' PROVE FALSE
      <3>1. BeginExecution(w) /\ at[w] = "begin" /\ cur[w] = i /\ job[i].status = "processing" /\ job[i].owner = w
            /\ gen[i].status \in ActiveGen \cup {"failed", "rejected"}
        BY <1>0, <2>1, <2>4, Engages DEF Engaged, NoneEngaged
      <3>2. Idle(i)
        BY <2>1, <3>1
      <3> QED BY <3>1, <3>2, CrashNames DEF Idle
    <2>5. gen'[i].status \notin {"none", "failed", "rejected"}
      <3>1. gen'[i].status # "none"
        BY <1>0, <2>1, GenIsWritten, GenKept
      <3>2. gen'[i].status # "failed"
        BY <1>0, <2>1, GenTurns
      <3>3. ASSUME gen'[i].status = "rejected" PROVE FALSE
        <4>1. PICK v \in Reviewers : at[v] = "reject" /\ at'[v] \notin ReviewingAt
          BY <1>0, <2>1, <3>3, GenTurns
        <4>2. ~Reviewing(i)'
          BY <4>1 DEF Reviewing, Steady
        <4> QED BY <3>3, <4>2 DEF Editable
      <3> QED BY <3>1, <3>2, <3>3
    <2>6. ASSUME gen[i].status \notin ActiveGen, ~On(i, {"retryGen"}) PROVE gen'[i].status \notin ActiveGen
      BY <1>0, <2>1, <2>2, <2>6, GenTurns
    <2>7. ASSUME Unfailed' PROVE gen'[i].status \notin ActiveGen
      <3>1. Unfailed
        BY <1>1, <2>7 DEF Unfailed, CanFail
      <3>2. ~On(i, {"retryGen"})
        BY <1>0, <3>1 DEF FailsByFault, NoFail, On
      <3> QED BY <2>1, <2>6, <3>1, <3>2
    <2>8. CASE Spent(i) /\ gen[i].status \notin ActiveGen
      <3>1. NoFail(i) /\ ~Fault("refuse")
        BY <1>1, <2>8 DEF Spent, CanFail, Fault
      <3>2. NoFail(i)' /\ ~On(i, {"retryGen"})
        BY <1>0, <3>1, NoFailKept DEF NoFail, On
      <3>3. Spent(i)'
        BY <1>1, <2>8, <3>2 DEF Spent, CanFail
      <3> QED BY <2>4, <2>5, <2>6, <2>7, <2>8, <3>2, <3>3 DEF NoneEngaged
    <2>9. CASE Idle(i)
      <3>1. ASSUME NEW w \in Workers, CrashWorker(w) PROVE Spent(i)' /\ gen'[i].status \notin ActiveGen
        <4>1. /\ Unfailed /\ (~CanFail \/ faults' >= MaxFaults) /\ UNCHANGED <<image, gen, job>>
              /\ \A t \in Tasks \ {w} : at'[t] = at[t] /\ cur'[t] = cur[t]
          BY <1>0, <3>1, Crashes
        <4>2. NoFail(i) /\ at'[w] = "idle"
          BY <1>0, <3>1, <4>1, GotoMoves, Kinds DEF FailsByFault, CrashWorker
        <4>3. NoFail(i)'
          BY <4>1, <4>2, Kinds DEF NoFail, On, FailingAt
        <4> QED BY <2>1, <4>1, <4>3 DEF Spent, CanFail
      <3>2. Idle(i)' \/ (Spent(i)' /\ gen'[i].status \notin ActiveGen)
        BY <1>0, <2>1, <2>3, <2>9, <3>1, IdleKept
      <3> QED BY <2>4, <2>5, <2>7, <3>2 DEF NoneEngaged
    <2> QED BY <2>1, <2>8, <2>9
  <1> QED BY <1>0, <1>2, <1>3, ReviewEnters


LEMMA TextKept ==
  ASSUME Steady, AgreeInv, [Next]_vars
  PROVE  ReviewedText' /\ ApprovedAgrees'
  <1>0. BaseInv /\ WorkKnown /\ ReviewedIdle /\ ReviewedText /\ ApprovedAgrees
    BY DEF AgreeInv, StartInv, BoundsInv
  <1>1. ASSUME NEW v \in Reviewers, at'[v] \in {"approve", "approveGen"}
        PROVE  /\ at'[v] = "approve" => seen'[v].text = gen'[cur'[v]].text
               /\ at'[v] = "approveGen" => approved'[cur'[v]] = gen'[cur'[v]].text
    <2>1. at'[v] \in ReviewingAt
      BY <1>1 DEF ReviewingAt
    <2>2. CASE BeginReview(v, cur'[v]) /\ at'[v] # "approveGen" /\ seen'[v].text = gen[cur'[v]].text
      BY <1>1, <2>2 DEF BeginReview, gens
    <2>3. CASE at[v] \in ReviewingAt /\ cur'[v] = cur[v] /\ seen'[v] = seen[v]
      <3> DEFINE i == cur[v]
      <3>1. i \in Images /\ Reviewing(i)
        BY <1>0, <2>3, HandsFull DEF ReviewingAt, Reviewing
      <3>2. NoneEngaged(i) /\ gen[i].status # "none"
        BY <1>0, <3>1 DEF ReviewedIdle
      <3>3. ASSUME NEW u \in Reviewers, at'[u] = "leave" PROVE FALSE
        BY <1>1, <3>3 DEF Steady
      <3>4. gen'[i].text = gen[i].text
        BY <1>0, <3>1, <3>2, <3>3, GenTurns
      <3>5. CASE ApproveText(v)
        <4>1. approved'[i] = seen[v].text /\ at[v] = "approve" /\ at'[v] = "approveGen"
          BY <1>0, <3>1, <3>5, GotoMoves, Kinds DEF ApproveText, BaseInv, Typed
        <4> QED BY <1>0, <2>3, <3>4, <4>1 DEF ReviewedText
      <3>6. CASE ~ApproveText(v)
        <4>1. at'[v] = at[v]
          <5>1. \A pc : Goto(v, pc) => at'[v] = pc
            BY <1>0, GotoMoves, Kinds
          <5>2. ASSUME Synchronise(v) PROVE FALSE
            BY <1>1, <5>1, <5>2 DEF Synchronise, SyncRead, SyncItem, Leave
          <5>3. ASSUME ReviewStep(v) PROVE FALSE
            BY <1>1, <3>6, <5>1, <5>3 DEF ReviewStep, SaveEdits, CloseReview
          <5>4. ASSUME NEW j \in Images, BeginReview(v, j) PROVE FALSE
            BY <2>3, <5>4 DEF BeginReview, BeginOp, ReviewingAt
          <5>5. at'[v] # "idle"
            BY <1>1
          <5>6. ~ReviewAction(v) /\ ~Synchronise(v)
            BY <5>2, <5>3, <5>4 DEF ReviewAction
          <5> QED BY <1>0, <5>5, <5>6, ReviewMover DEF Stays
        <4>2. approved' = approved
          <5>1. ASSUME NEW u \in Reviewers, ApproveText(u) PROVE FALSE
            BY <3>6, <5>1 DEF Steady
          <5> QED BY <1>0, <5>1, HistoryKept
        <4> QED BY <1>0, <2>3, <3>4, <4>1, <4>2 DEF ReviewedText
      <3> QED BY <3>5, <3>6
    <2> QED BY <1>0, <2>1, <2>2, <2>3, Reviews
  <1>2. ASSUME NEW i \in Images, gen'[i].status = "approved" PROVE approved'[i] = gen'[i].text
    <2>1. CASE gen'[i] = gen[i]
      <3>1. approved[i] = gen[i].text
        BY <1>0, <1>2, <2>1 DEF ApprovedAgrees
      <3>2. ASSUME NEW v \in Reviewers, ApproveText(v), cur[v] = i PROVE seen[v].text = gen[i].text
        BY <1>0, <3>2 DEF ApproveText, ReviewedText
      <3> QED BY <1>0, <2>1, <3>1, <3>2, HistoryKept DEF BaseInv, Typed
    <2>2. CASE gen'[i] # gen[i]
      <3>1. ASSUME NEW r \in Runners, InsertGeneration(r, i) PROVE FALSE
        BY <1>0, <1>2, <3>1 DEF InsertGeneration, BaseInv, Typed, GenRow
      <3>2. ASSUME NEW r \in Requests, RetryGeneration(r), cur[r] = i PROVE FALSE
        BY <1>0, <1>2, <3>2 DEF RetryGeneration, BaseInv, Typed, GenRow
      <3>3. ASSUME NEW w \in Workers, WriteGeneration(w), cur[w] = i PROVE FALSE
        <4>1. \/ \E s \in {"failed", "stale", "generating", "validating_output", "queued"} : SetGen(i, s)
              \/ gen' = gen
              \/ gen' = [gen EXCEPT ![i].status = "draft", ![i].text = @ + 1]
          BY <3>3 DEF WriteGeneration
        <4> QED BY <1>0, <1>2, <2>2, <4>1 DEF SetGen, BaseInv, Typed, GenRow
      <3>4. ASSUME NEW v \in Reviewers, SaveEdits(v), cur[v] = i PROVE FALSE
        BY <1>0, <1>2, <3>4 DEF SaveEdits, BaseInv, Typed, GenRow
      <3>5. ASSUME NEW v \in Reviewers, CloseReview(v), cur[v] = i PROVE approved'[i] = gen'[i].text
        <4>1. at[v] = "approveGen" /\ gen'[i].text = gen[i].text /\ approved' = approved
          BY <1>0, <1>2, <3>5 DEF CloseReview, SetGen, BaseInv, Typed, GenRow
        <4> QED BY <1>0, <3>5, <4>1 DEF ReviewedText
      <3> QED BY <1>0, <1>2, <2>2, <3>1, <3>2, <3>3, <3>4, <3>5, GenStep
    <2> QED BY <2>1, <2>2
  <1> QED BY <1>1, <1>2 DEF ReviewedText, ApprovedAgrees

LEMMA AgreeNext ==
  ASSUME Steady, AgreeInv, [Next]_vars
  PROVE  AgreeInv'
  <1>1. BaseInv /\ FailsByFault
    BY DEF AgreeInv, StartInv, BoundsInv
  <1> QED BY <1>1, StartNext, EngagedKept, FailsKept, RetriedKept, ReviewedKept, TextKept DEF AgreeInv

\* A generation that counts as approved shows the text that was approved for
\* its image, for any number of images, workers, runners and requests: no
\* execution comes between a reviewer's reading of the draft and the two
\* writes of the approval, whichever requests and workers die on the way. It
\* takes Steady: a second reviewer edits the draft between them; a worker
\* whose lease has expired drafts another text; and after a failed attempt, or
\* what the script takes for one, a retry, which rewrites the job and then the
\* generation, makes one of a draft whose worker died, or of a generation
\* whose retry died, to be executed again.
THEOREM ApprovedAgreesHolds == Steady /\ Spec => []ApprovedAgrees
  <1> SUFFICES ASSUME Steady PROVE Spec => []ApprovedAgrees
    OBVIOUS
  <1>1. Init => AgreeInv
    BY AgreeInit
  <1>2. AgreeInv /\ [Next]_vars => AgreeInv'
    BY AgreeNext
  <1>3. AgreeInv => ApprovedAgrees
    BY DEF AgreeInv
  <1> QED BY <1>1, <1>2, <1>3, PTL DEF Spec
-----------------------------------------------------------------------------
(* The rows of a generation and of its job keep step *)

WritingAt == {"begin", "completeJob", "failJob", "staleJob"} \cup EngagedAt
OverAt == {"completeJob", "failJob", "staleJob"} \cup Syncing

\* A job is inserted once, under a batch, when its item is taken.
JobNew ==
  \A i \in Images : job[i].status # "none" =>
    Exists /\ item[i] # "pending" /\ \A r \in Runners : at[<<r, i>>] \notin {"check", "insertJob"}

\* Who writes a job has found it.
JobKnown ==
  /\ \A w \in Workers : at[w] # "idle" => job[cur[w]].status # "none"
  /\ \A r \in Requests : at[r] = "cancelJob" => gen[cur[r]].status # "none"

\* While the generation's row is still to be written nobody works on it.
HalfHeld ==
  \A i \in Images : ~torn[i] /\ HalfQueued(i) =>
    /\ \A w \in Workers : ~Holds(w, i)
    /\ job[i].status = "queued" \/ job[i].attempts = MaxAttempts

\* Who still has to write the job has its lease.
WritersOwn ==
  \A i \in Images, w \in Workers : ~torn[i] /\ cur[w] = i /\ at[w] \in WritingAt =>
    job[i].status = "processing" /\ job[i].owner = w

\* The lease is given up after the generation has ended, or is queued again.
OverEnded ==
  \A i \in Images, w \in Workers : ~torn[i] /\ cur[w] = i /\ at[w] \in OverAt /\ job[i].owner = w =>
    gen[i].status \notin ActiveGen

\* A generation in progress has a job that is queued, or leased.
InStep ==
  \A i \in Images : ~torn[i] /\ gen[i].status \in ActiveGen /\ at[i] # "gens" =>
    \/ job[i].status = "queued" \/ job[i].attempts = MaxAttempts
    \/ job[i].status = "processing" /\ job[i].owner # None

OrphanInv == StartInv /\ JobNew /\ JobKnown /\ HalfHeld /\ WritersOwn /\ OverEnded /\ InStep

LEMMA OrphanInit == Init => OrphanInv
  <1> SUFFICES ASSUME Init PROVE OrphanInv
    OBVIOUS
  <1>1. /\ \A t \in Workers \cup Requests : at[t] = "idle"
        /\ \A i \in Images : gen[i].status = "none" /\ job[i].status = "none"
        /\ \A r \in Runners, i \in Images : at[<<r, i>>] = "idle"
    BY Kinds DEF Init
  <1>2. "idle" \notin WritingAt \cup OverAt /\ "none" \notin ActiveGen
    BY DEF WritingAt, OverAt, EngagedAt, Syncing, ActiveGen
  <1>3. JobNew /\ JobKnown
    BY <1>1 DEF JobNew, JobKnown
  <1>4. HalfHeld
    BY <1>1 DEF HalfHeld, HalfQueued
  <1>5. WritersOwn /\ OverEnded /\ InStep
    BY <1>1, <1>2 DEF WritersOwn, OverEnded, InStep
  <1> QED BY <1>3, <1>4, <1>5, StartInit DEF OrphanInv

\* What is not torn was not, and nothing came between its two writes.
LEMMA Untorn ==
  ASSUME BaseInv, [Next]_vars, NEW i \in Images, ~torn'[i]
  PROVE  /\ ~torn[i]
         /\ \A w \in Workers : ClaimJob(w, i) => ~HalfQueued(i)
         /\ \A r \in Requests : RetryJob(r) /\ cur[r] = i => \A w \in Workers : ~Holds(w, i)
         /\ \A r \in Requests : CancelJob(r) /\ cur[r] = i => ~Unsettled(i) /\ gen[i].status \notin ActiveGen
         /\ InvalidateJobs(i) => ~Unsettled(i) /\ (at[i] = "jobs" \/ gen[i].status \notin ActiveGen)
         /\ InvalidationFails(i) \/ RequestDies(i) => ~CutShort(i)
  <1>0. torn \in [Images -> BOOLEAN]
    BY DEF BaseInv, Typed
  <1>1. ASSUME NEW j \in Images, NEW b, torn' = [torn EXCEPT ![j] = @ \/ b] PROVE ~torn[i] /\ (j = i => ~b)
    BY <1>0, <1>1
  <1>2. ~torn[i]
    <2>1. CASE torn' = torn
      BY <2>1
    <2>2. ASSUME NEW t \in Mortals, RequestDies(t) PROVE ~torn[i]
      BY <2>2 DEF RequestDies
    <2>3. CASE torn' # torn
      BY <1>1, <2>2, <2>3, TornActs
    <2> QED BY <2>1, <2>3
  <1>3. ASSUME NEW w \in Workers, ClaimJob(w, i) PROVE ~HalfQueued(i)
    BY <1>1, <1>3 DEF ClaimJob
  <1>4. ASSUME NEW r \in Requests, RetryJob(r), cur[r] = i PROVE \A w \in Workers : ~Holds(w, i)
    BY <1>1, <1>4 DEF RetryJob
  <1>5. ASSUME NEW r \in Requests, CancelJob(r), cur[r] = i PROVE ~Unsettled(i) /\ gen[i].status \notin ActiveGen
    BY <1>1, <1>5 DEF CancelJob
  <1>6. ASSUME InvalidateJobs(i) PROVE ~Unsettled(i) /\ (at[i] = "jobs" \/ gen[i].status \notin ActiveGen)
    <2>1. ~(Unsettled(i) \/ (at[i] = "metaJobs" /\ gen[i].status \in ActiveGen))
      BY <1>1, <1>6 DEF InvalidateJobs
    <2> QED BY <1>6, <2>1 DEF InvalidateJobs
  <1>7. ASSUME InvalidationFails(i) PROVE ~CutShort(i)
    BY <1>1, <1>7 DEF InvalidationFails
  <1>8. ASSUME RequestDies(i) PROVE ~CutShort(i)
    BY <1>8 DEF RequestDies
  <1> QED BY <1>2, <1>3, <1>4, <1>5, <1>6, <1>7, <1>8

\* A worker takes a job in hand by claiming it.
LEMMA HoldEnters ==
  ASSUME BaseInv, [Next]_vars, NEW i \in Images, NEW w \in Workers, Holds(w, i)'
  PROVE  Holds(w, i) \/ ClaimJob(w, i)
  <1>0. w \in Tasks
    BY Kinds
  <1>1. \A pc : Goto(w, pc) => at'[w] = pc
    BY <1>0, GotoMoves
  <1>2. CASE Stays(w)
    BY <1>2 DEF Stays, Holds
  <1>3. CASE Synchronise(w)
    BY <1>1, <1>3 DEF Synchronise, SyncRead, SyncItem, Leave, Holds
  <1>4. CASE Execute(w)
    BY <1>4 DEF Execute, BeginExecution, WriteGeneration, WriteJob, ClearLease, Holds
  <1>5. ASSUME CrashWorker(w) PROVE FALSE
    BY <1>1, <1>5 DEF CrashWorker, Holds
  <1>6. ASSUME NEW j \in Images, ClaimJob(w, j) PROVE ClaimJob(w, i)
    <2>1. cur'[w] = j
      BY <1>0, <1>6 DEF ClaimJob, BaseInv, Typed
    <2> QED BY <1>6, <2>1 DEF Holds
  <1> QED BY <1>2, <1>3, <1>4, <1>5, <1>6, WorkerMover DEF WorkerAction

\* Where an execution that writes its job comes from.
LEMMA WriterEnters ==
  ASSUME BaseInv, [Next]_vars, NEW i \in Images, NEW w \in Workers, cur'[w] = i, at'[w] \in WritingAt
  PROVE  (cur[w] = i /\ at[w] \in WritingAt) \/ ClaimJob(w, i)
  <1>0. w \in Tasks
    BY Kinds
  <1>1. \A pc : Goto(w, pc) => at'[w] = pc
    BY <1>0, GotoMoves
  <1>2. CASE Stays(w)
    BY <1>2 DEF Stays
  <1>3. ASSUME Synchronise(w) PROVE FALSE
    BY <1>1, <1>3 DEF Synchronise, SyncRead, SyncItem, Leave, WritingAt, EngagedAt
  <1>4. ASSUME Execute(w), at[w] \notin WritingAt PROVE FALSE
    BY <1>1, <1>4 DEF Execute, BeginExecution, WriteGeneration, WriteJob, ClearLease, WritingAt, EngagedAt
  <1>5. ASSUME Execute(w) PROVE cur[w] = i
    BY <1>5 DEF Execute, BeginExecution, WriteGeneration, WriteJob, ClearLease
  <1>6. ASSUME CrashWorker(w) PROVE FALSE
    BY <1>1, <1>6 DEF CrashWorker, WritingAt, EngagedAt
  <1>7. ASSUME NEW j \in Images, ClaimJob(w, j) PROVE ClaimJob(w, i)
    <2>1. cur'[w] = j
      BY <1>0, <1>7 DEF ClaimJob, BaseInv, Typed
    <2> QED BY <1>7, <2>1
  <1> QED BY <1>2, <1>3, <1>4, <1>5, <1>6, <1>7, WorkerMover DEF WorkerAction

\* An execution is over when it has ended the generation or put the job back,
\* or when there is nothing for it to do.
LEMMA OverEnters ==
  ASSUME BaseInv, [Next]_vars, NEW i \in Images, NEW w \in Workers, cur'[w] = i, at'[w] \in OverAt
  PROVE  /\ cur[w] = i
         /\ \/ at[w] \in OverAt
            \/ at[w] = "begin" /\ gen' = gen
               /\ (job[i].status = "processing" /\ job[i].owner = w => gen[i].status \notin ActiveGen)
            \/ gen'[i].status \notin ActiveGen
            \/ job'[i].owner = None
  <1>0. w \in Tasks /\ gen \in [Images -> GenRow] /\ job \in [Images -> JobRow]
    BY Kinds DEF BaseInv, Typed
  <1>1. \A pc : Goto(w, pc) => at'[w] = pc
    BY <1>0, GotoMoves
  <1>2. CASE Stays(w)
    BY <1>2 DEF Stays
  <1>3. CASE Synchronise(w)
    BY <1>1, <1>3 DEF Synchronise, SyncRead, SyncItem, Leave, OverAt, Syncing
  <1>4. CASE BeginExecution(w)
    <2>1. cur[w] = i /\ at[w] = "begin" /\ gen' = gen
      BY <1>4 DEF BeginExecution, gens
    <2>2. ASSUME job[i].status = "processing", job[i].owner = w, gen[i].status \in ActiveGen PROVE FALSE
      <3>1. at'[w] = Verdict(i)
        BY <1>1, <1>4, <2>1, <2>2 DEF BeginExecution
      <3> QED BY <3>1 DEF Verdict, OverAt, Syncing
    <2> QED BY <2>1, <2>2
  <1>5. CASE WriteGeneration(w)
    <2>1. cur[w] = i
      BY <1>5 DEF WriteGeneration
    <2>2. \/ SetGen(i, "failed") \/ SetGen(i, "stale")
          \/ gen' = [gen EXCEPT ![i].status = "draft", ![i].text = @ + 1]
      BY <1>1, <1>5, <2>1 DEF WriteGeneration, OverAt, Syncing
    <2>3. gen'[i].status \in {"failed", "stale", "draft"}
      BY <1>0, <2>2 DEF SetGen, GenRow
    <2> QED BY <2>1, <2>3 DEF ActiveGen
  <1>6. CASE WriteJob(w)
    <2>1. cur[w] = i
      BY <1>6 DEF WriteJob
    <2>2. CASE at[w] = "requeueJob"
      <3>1. FreeJob(i, "queued")
        BY <1>6, <2>1, <2>2 DEF WriteJob
      <3>2. job'[i].owner = None
        BY <1>0, <3>1 DEF FreeJob, JobRow
      <3> QED BY <2>1, <3>2
    <2>3. CASE at[w] # "requeueJob"
      BY <1>6, <2>1, <2>3 DEF WriteJob, OverAt
    <2> QED BY <2>2, <2>3
  <1>7. CASE ClearLease(w)
    BY <1>7 DEF ClearLease, OverAt, Syncing
  <1>8. ASSUME CrashWorker(w) \/ \E j \in Images : ClaimJob(w, j) PROVE FALSE
    BY <1>1, <1>8 DEF CrashWorker, ClaimJob, OverAt, Syncing
  <1> QED BY <1>2, <1>3, <1>4, <1>5, <1>6, <1>7, <1>8, WorkerMover DEF WorkerAction, Execute

\* A generation is half queued from the insert, or the retry, of its job.
LEMMA HalfEnters ==
  ASSUME BaseInv, [Next]_vars, NEW i \in Images, HalfQueued(i)'
  PROVE  \/ HalfQueued(i)
         \/ \E r \in Runners : InsertJob(r, i)
         \/ \E r \in Requests : RetryJob(r) /\ cur[r] = i
  <1>1. ASSUME NEW r \in Runners, at'[<<r, i>>] = "insertGen" PROVE at[<<r, i>>] = "insertGen" \/ InsertJob(r, i)
    <2>1. \A pc : Goto(<<r, i>>, pc) => at'[<<r, i>>] = pc
      BY GotoMoves, Kinds
    <2>2. ASSUME FlowStep(r, i) PROVE InsertJob(r, i)
      BY <1>1, <2>1, <2>2 DEF FlowStep, CheckCancelled, AcquireItem, CheckGeneration, InsertGeneration, SettleItem
    <2> QED BY <1>1, <2>2, FlowMover DEF Stays
  <1>2. ASSUME NEW r \in Requests, at'[r] = "retryGen", cur'[r] = i PROVE (at[r] = "retryGen" \/ RetryJob(r)) /\ cur[r] = i
    BY <1>2, RequestMover, RetryStep DEF Stays
  <1> QED BY <1>1, <1>2 DEF HalfQueued

\* A generation comes to be in progress by one of four writes.
LEMMA GenRevives ==
  ASSUME BaseInv, [Next]_vars, NEW i \in Images, gen[i].status \notin ActiveGen, gen'[i].status \in ActiveGen
  PROVE  /\ job' = job
         /\ HalfQueued(i) \/ \E w \in Workers : cur[w] = i /\ at[w] \in EngagedAt
  <1>1. ASSUME NEW r \in Runners, InsertGeneration(r, i) PROVE job' = job /\ HalfQueued(i)
    BY <1>1 DEF InsertGeneration, HalfQueued
  <1>2. ASSUME NEW r \in Requests, RetryGeneration(r), cur[r] = i PROVE job' = job /\ HalfQueued(i)
    BY <1>2 DEF RetryGeneration, HalfQueued
  <1>3. ASSUME NEW w \in Workers, WriteGeneration(w), cur[w] = i PROVE job' = job /\ at[w] \in EngagedAt
    BY <1>3 DEF WriteGeneration, EngagedAt
  <1>4. ASSUME NEW v \in Reviewers, SaveEdits(v) \/ CloseReview(v), cur[v] = i PROVE FALSE
    <2>1. gen'[i].status \in {"reviewed", "approved", "rejected"}
      BY <1>4 DEF SaveEdits, CloseReview, SetGen, BaseInv, Typed, GenRow
    <2> QED BY <2>1 DEF ActiveGen
  <1>5. gen'[i] # gen[i] /\ gen'[i].status \notin {"cancelled", "stale", "failed"}
    BY DEF ActiveGen
  <1> QED BY <1>1, <1>2, <1>3, <1>4, <1>5, GenActs

\* The invalidation gets past its generations by the write, a failure or a death.
LEMMA GensLeft ==
  ASSUME BaseInv, [Next]_vars, NEW i \in Images, at[i] = "gens", at'[i] # "gens"
  PROVE  InvalidateGenerations(i) \/ InvalidationFails(i) \/ RequestDies(i)
  <1>0. i \in Tasks
    BY Kinds
  <1>1. ASSUME NEW t \in Tasks \ {i}, Moves(t) PROVE FALSE
    BY <1>0, <1>1, MoverStays DEF Stays
  <1>2. ASSUME NEW t \in Workers \cup Reviewers, Synchronise(t) PROVE FALSE
    BY <1>1, <1>2, SynchroniseMoves, Kinds
  <1>3. ASSUME NEW s \in Runners, RunnerAction(s) PROVE FALSE
    BY <1>0, <1>3, RunnerMoves, Kinds
  <1>4. ASSUME NEW s \in Runners, NEW j \in Images, FlowStep(s, j) PROVE FALSE
    BY <1>1, <1>4, FlowMoves, Kinds
  <1>5. ASSUME NEW s \in Requests, RequestAction(s) PROVE FALSE
    BY <1>1, <1>5, RequestMoves, Kinds
  <1>6. ASSUME NEW u \in Workers, WorkerAction(u) PROVE FALSE
    BY <1>1, <1>6, WorkerMoves, Kinds
  <1>7. ASSUME NEW v \in Reviewers, ReviewAction(v) PROVE FALSE
    BY <1>1, <1>7, ReviewMoves, Kinds
  <1>8. ASSUME NEW j \in Images, ImageAction(j) PROVE InvalidateGenerations(i) \/ InvalidationFails(i)
    <2>1. j = i
      BY <1>1, <1>8, ImageMoves, Kinds
    <2> QED BY <1>8, <2>1 DEF ImageAction, LoseImage, BeginOp, EndReplacement, Invalidate, InvalidateJobs, InvalidateItems
  <1>9. ASSUME NEW t \in Mortals, RequestDies(t) PROVE t = i
    <2>1. i \notin Flows /\ at' = [u \in Tasks |-> IF u \in Served(t) THEN "idle" ELSE at[u]]
      BY <1>9, Kinds DEF RequestDies
    <2>2. i \in Served(t)
      BY <1>0, <2>1
    <2> QED BY <2>1, <2>2 DEF Served
  <1> QED BY <1>2, <1>3, <1>4, <1>5, <1>6, <1>7, <1>8, <1>9, OthersStay, NextCases

LEMMA JobWritten ==
  ASSUME BaseInv, NEW i \in Images, NEW s, SetJob(i, s) \/ FreeJob(i, s)
  PROVE  job'[i].status = s /\ (SetJob(i, s) => job'[i].owner = job[i].owner)
  BY DEF SetJob, FreeJob, BaseInv, Typed, JobRow

\* A job is never forgotten; it is inserted, or is that of a known generation.
LEMMA JobBegins ==
  ASSUME StartInv, JobKnown, [Next]_vars, NEW i \in Images
  PROVE  /\ job[i].status # "none" => job'[i].status # "none"
         /\ job[i].status = "none" /\ job'[i].status # "none" =>
              gen[i].status # "none" \/ \E r \in Runners : InsertJob(r, i)
  <1>0. BaseInv /\ WorkKnown
    BY DEF StartInv, BoundsInv
  <1>1. ASSUME job'[i] # job[i]
        PROVE  /\ job[i].status # "none" => job'[i].status # "none"
               /\ job[i].status # "none" \/ gen[i].status # "none" \/ \E r \in Runners : InsertJob(r, i)
    <2>1. ASSUME NEW w \in Workers, ClaimJob(w, i) PROVE job[i].status # "none" /\ job'[i].status # "none"
      BY <1>0, <2>1 DEF ClaimJob, BaseInv, Typed
    <2>2. ASSUME NEW w \in Workers, ClearLease(w) \/ WriteJob(w), cur[w] = i PROVE job[i].status # "none" /\ job'[i].status # "none"
      <3>1. job[i].status # "none"
        BY <2>2 DEF JobKnown, ClearLease, WriteJob
      <3>2. \E s \in {"completed", "failed", "stale", "queued", job[i].status} : SetJob(i, s) \/ FreeJob(i, s)
        BY <2>2 DEF ClearLease, WriteJob
      <3> QED BY <1>0, <3>1, <3>2, JobWritten
    <2>3. ASSUME NEW r \in Runners, InsertJob(r, i) PROVE job'[i].status # "none"
      BY <1>0, <2>3, JobWritten DEF InsertJob
    <2>4. ASSUME NEW r \in Requests, RetryJob(r) \/ CancelJob(r), cur[r] = i PROVE gen[i].status # "none" /\ job'[i].status # "none"
      <3>1. gen[i].status # "none"
        BY <1>0, <2>4 DEF WorkKnown, JobKnown, RetryJob, CancelJob
      <3>2. \E s \in {"queued", "cancelled"} : SetJob(i, s) \/ FreeJob(i, s)
        BY <2>4 DEF RetryJob, CancelJob
      <3> QED BY <1>0, <3>1, <3>2, JobWritten
    <2>5. ASSUME RecoverLease(i) \/ ReconcileJob(i) \/ InvalidateJobs(i) PROVE job[i].status # "none" /\ job'[i].status # "none"
      <3>1. job[i].status # "none" /\ \E s \in {"queued", "failed", "stale", "cancelled"} : SetJob(i, s) \/ FreeJob(i, s)
        BY <1>1, <2>5 DEF RecoverLease, ReconcileJob, InvalidateJobs, Invalid
      <3> QED BY <1>0, <3>1, JobWritten
    <2> QED BY <1>0, <1>1, <2>1, <2>2, <2>3, <2>4, <2>5, JobActs
  <1> QED BY <1>1

LEMMA JobNewKept ==
  ASSUME StartInv, JobNew, JobKnown, [Next]_vars
  PROVE  JobNew'
  <1>0. BaseInv /\ Begun /\ FlowsApart
    BY DEF StartInv, BoundsInv
  <1> SUFFICES ASSUME NEW i \in Images, job'[i].status # "none"
               PROVE  Exists' /\ item'[i] # "pending" /\ \A r \in Runners : at'[<<r, i>>] \notin {"check", "insertJob"}
    BY DEF JobNew
  <1>1. ASSUME NEW r \in Runners, InsertJob(r, i)
        PROVE  Exists /\ item[i] # "pending" /\ \A s \in Runners \ {r} : at[<<s, i>>] \notin {"check", "insertJob"}
    <2>1. at[<<r, i>>] = "insertJob" /\ <<r, i>> \in Flows
      BY <1>1, Kinds DEF InsertJob
    <2> QED BY <1>0, <2>1 DEF Begun, FlowsApart, Taken
  <1>2. ASSUME NEW r \in Runners, at'[<<r, i>>] \in {"check", "insertJob"}
        PROVE  item[i] = "pending" \/ (at[<<r, i>>] \in {"check", "insertJob"} /\ ~InsertJob(r, i))
    <2>0. \A pc : Goto(<<r, i>>, pc) => at'[<<r, i>>] = pc
      BY <1>0, GotoMoves, Kinds
    <2>1. CASE Stays(<<r, i>>)
      BY <1>2, <2>0, <2>1 DEF Stays, InsertJob
    <2>2. CASE FlowStep(r, i)
      BY <1>2, <2>0, <2>2 DEF FlowStep, CheckCancelled, AcquireItem, CheckGeneration, InsertJob, InsertGeneration, SettleItem
    <2> QED BY <1>0, <1>2, <2>1, <2>2, FlowMover
  <1>3. Exists /\ item[i] # "pending"
    BY <1>0, <1>1, JobBegins DEF JobNew, Begun, FlowsApart
  <1>4. ASSUME NEW r \in Runners PROVE at'[<<r, i>>] \notin {"check", "insertJob"}
    <2>1. CASE \E s \in Runners : InsertJob(s, i)
      BY <1>1, <1>2, <1>3, <2>1
    <2>2. CASE ~\E s \in Runners : InsertJob(s, i)
      <3>1. job[i].status # "none" \/ gen[i].status # "none"
        BY <2>2, JobBegins
      <3> QED BY <1>0, <1>2, <1>3, <3>1 DEF JobNew, FlowsApart
    <2> QED BY <2>1, <2>2
  <1>5. item'[i] # "pending"
    BY <1>0, <1>3, ItemIsWritten, ItemKept
  <1> QED BY <1>0, <1>3, <1>4, <1>5, BatchKept

LEMMA JobKnownKept ==
  ASSUME StartInv, JobKnown, [Next]_vars
  PROVE  JobKnown'
  <1>0. BaseInv /\ WorkKnown
    BY DEF StartInv, BoundsInv
  <1>1. ASSUME NEW w \in Workers, at'[w] # "idle" PROVE job'[cur'[w]].status # "none"
    <2>1. cur'[w] \in Images
      BY <1>0, <1>1, BaseNext, Kinds DEF BaseInv, Placed, Place
    <2>2. Holds(w, cur'[w]) \/ ClaimJob(w, cur'[w])
      BY <1>0, <1>1, <2>1, HoldEnters DEF Holds
    <2>3. job[cur'[w]].status # "none"
      BY <2>2 DEF Holds, JobKnown, ClaimJob
    <2> QED BY <2>1, <2>3, JobBegins
  <1>2. ASSUME NEW r \in Requests, at'[r] = "cancelJob" PROVE gen'[cur'[r]].status # "none"
    <2>1. \A pc : Goto(r, pc) => at'[r] = pc
      BY <1>0, GotoMoves, Kinds
    <2>2. at[r] \in {"cancelGen", "cancelJob"} /\ cur'[r] = cur[r]
      <3>1. CASE Stays(r)
        BY <1>2, <3>1 DEF Stays
      <3>2. CASE RequestAction(r)
        <4>1. ASSUME NEW i \in Images, RetryNext(r, i) PROVE FALSE
          BY <1>2, <2>1, <4>1 DEF RetryNext
        <4>2. CancelGeneration(r)
          BY <1>2, <2>1, <3>2, <4>1 DEF RequestAction, RequestCancel, SelectQueued, CancelJob, CancelItem, FinishCancel,
             RequestRetry, RetryJob, RetryGeneration, RetryItem, FinishRetry, CancelNext
        <4> QED BY <4>2 DEF CancelGeneration
      <3> QED BY <1>0, <1>2, <3>1, <3>2, RequestMover
    <2>3. gen[cur[r]].status # "none" /\ cur[r] \in Images
      BY <1>0, <2>2, HandsFull DEF WorkKnown, JobKnown, AtItem
    <2> QED BY <1>0, <2>2, <2>3, GenIsWritten, GenKept
  <1> QED BY <1>1, <1>2 DEF JobKnown

LEMMA HalfKept ==
  ASSUME OrphanInv, [Next]_vars
  PROVE  HalfHeld'
  <1>0. BaseInv /\ JobNew /\ JobKnown /\ HalfHeld
    BY DEF OrphanInv, StartInv, BoundsInv
  <1> SUFFICES ASSUME NEW i \in Images, ~torn'[i], HalfQueued(i)'
               PROVE  (\A w \in Workers : ~Holds(w, i)') /\ (job'[i].status = "queued" \/ job'[i].attempts = MaxAttempts)
    BY DEF HalfHeld
  <1>1. ~torn[i]
    BY <1>0, Untorn
  <1>2. ASSUME NEW r \in Runners, InsertJob(r, i) PROVE job'[i].status = "queued" /\ \A w \in Workers : ~Holds(w, i)
    <2>1. job[i].status = "none"
      BY <1>0, <1>2 DEF JobNew, InsertJob
    <2>2. job'[i].status = "queued"
      BY <1>0, <1>2, JobWritten DEF InsertJob
    <2> QED BY <1>0, <2>1, <2>2 DEF Holds, JobKnown
  <1>3. ASSUME NEW r \in Requests, RetryJob(r), cur[r] = i PROVE job'[i].status = "queued" /\ \A w \in Workers : ~Holds(w, i)
    BY <1>0, <1>3, JobWritten, Untorn DEF RetryJob
  <1>4. ASSUME NEW w \in Workers, ClaimJob(w, i) PROVE job'[i].status = "processing" /\ ~HalfQueued(i)
    BY <1>0, <1>4, Untorn DEF ClaimJob, BaseInv, Typed
  <1>5. HalfQueued(i) => \A w \in Workers : ~Holds(w, i)
    BY <1>0, <1>1 DEF HalfHeld
  <1>6. ASSUME NEW w \in Workers, Holds(w, i)' PROVE FALSE
    <2>1. ~Holds(w, i)
      BY <1>0, <1>2, <1>3, <1>5, HalfEnters
    <2>2. ClaimJob(w, i)
      BY <1>0, <1>6, <2>1, HoldEnters
    <2> QED BY <1>0, <1>2, <1>3, <1>4, <2>2, HalfEnters
  <1>7. ASSUME HalfQueued(i) PROVE job'[i].status = "queued" \/ job'[i].attempts = MaxAttempts
    <2>1. job[i].status = "queued" \/ job[i].attempts = MaxAttempts
      BY <1>0, <1>1, <1>7 DEF HalfHeld
    <2>2. job[i].attempts = MaxAttempts => job'[i].attempts = MaxAttempts
      BY <1>0, JobIsWritten, JobKept, MetadataAssumption DEF MetadataAssumption, JobRow
    <2>3. ASSUME job'[i] # job[i] PROVE job'[i].status = "queued" \/ job[i].attempts = MaxAttempts
      <3>1. ASSUME NEW w \in Workers, ClearLease(w) \/ WriteJob(w), cur[w] = i PROVE FALSE
        BY <1>5, <1>7, <3>1 DEF ClearLease, WriteJob, Holds
      <3>2. ASSUME NEW r \in Requests, CancelJob(r), cur[r] = i PROVE FALSE
        BY <1>0, <1>7, <3>2, Untorn DEF Unsettled
      <3>3. ASSUME InvalidateJobs(i) PROVE FALSE
        BY <1>0, <1>7, <3>3, Untorn DEF Unsettled
      <3>4. ASSUME RecoverLease(i) PROVE job'[i].status = "queued"
        BY <1>0, <3>4, JobWritten DEF RecoverLease
      <3>5. ASSUME ReconcileJob(i) PROVE job[i].attempts = MaxAttempts
        BY <2>1, <3>5 DEF ReconcileJob
      <3> QED BY <1>0, <1>2, <1>3, <1>4, <1>7, <2>3, <3>1, <3>2, <3>3, <3>4, <3>5, JobActs
    <2> QED BY <2>1, <2>2, <2>3
  <1> QED BY <1>0, <1>2, <1>3, <1>6, <1>7, HalfEnters

\* No lease expires under a worker that lives.
Expiring == "expire" \in Faults

LEMMA RecoverFrees ==
  ASSUME ~Expiring, NEW i \in Images, RecoverLease(i)
  PROVE  ~Holds(job[i].owner, i)
  BY DEF Expiring, RecoverLease, Fault

\* An execution that still writes its job has the job to itself.
LEMMA OwnJobKept ==
  ASSUME ~Expiring, OrphanInv, [Next]_vars, NEW i \in Images, NEW w \in Workers,
         ~torn'[i], cur[w] = i, at[w] \in WritingAt, job'[i] # job[i]
  PROVE  WriteJob(w)
  <1>0. BaseInv /\ JobNew /\ WritersOwn /\ Holds(w, i) /\ ~torn[i]
    BY Untorn DEF OrphanInv, StartInv, BoundsInv, WritingAt, EngagedAt, Holds
  <1>1. job[i].status = "processing" /\ job[i].owner = w /\ w # None
    BY <1>0, MetadataAssumption DEF WritersOwn, MetadataAssumption
  <1>2. ASSUME NEW u \in Workers, ClearLease(u), cur[u] = i PROVE FALSE
    BY <1>1, <1>2 DEF ClearLease, WritingAt, EngagedAt
  <1>3. ASSUME NEW u \in Workers, WriteJob(u), cur[u] = i PROVE u = w
    <2>1. at[u] \in WritingAt
      BY <1>3 DEF WriteJob, WritingAt, EngagedAt
    <2> QED BY <1>0, <1>1, <1>3, <2>1 DEF WritersOwn
  <1>4. ASSUME NEW u \in Workers, ClaimJob(u, i) PROVE FALSE
    BY <1>1, <1>4 DEF ClaimJob
  <1>5. ASSUME NEW r \in Runners, InsertJob(r, i) PROVE FALSE
    BY <1>0, <1>1, <1>5 DEF JobNew, InsertJob
  <1>6. ASSUME NEW r \in Requests, RetryJob(r) \/ CancelJob(r), cur[r] = i PROVE FALSE
    BY <1>0, <1>6, Untorn DEF Unsettled
  <1>7. ASSUME RecoverLease(i) PROVE FALSE
    BY <1>0, <1>1, <1>7, RecoverFrees
  <1>8. ASSUME ReconcileJob(i) PROVE FALSE
    BY <1>1, <1>8 DEF ReconcileJob
  <1>9. ASSUME InvalidateJobs(i) PROVE FALSE
    BY <1>0, <1>9, Untorn DEF Unsettled
  <1> QED BY <1>0, <1>2, <1>3, <1>4, <1>5, <1>6, <1>7, <1>8, <1>9, JobActs

LEMMA WritersKept ==
  ASSUME ~Expiring, OrphanInv, [Next]_vars
  PROVE  WritersOwn'
  <1>0. BaseInv /\ WritersOwn
    BY DEF OrphanInv, StartInv, BoundsInv
  <1> SUFFICES ASSUME NEW i \in Images, NEW w \in Workers, ~torn'[i], cur'[w] = i, at'[w] \in WritingAt
               PROVE  job'[i].status = "processing" /\ job'[i].owner = w
    BY DEF WritersOwn
  <1>1. CASE ClaimJob(w, i)
    BY <1>0, <1>1 DEF ClaimJob, BaseInv, Typed
  <1>2. CASE ~ClaimJob(w, i)
    <2>1. cur[w] = i /\ at[w] \in WritingAt /\ ~torn[i]
      BY <1>0, <1>2, WriterEnters, Untorn
    <2>2. ASSUME WriteJob(w) PROVE FALSE
      <3>1. \A pc : Goto(w, pc) => at'[w] = pc
        BY <1>0, GotoMoves, Kinds
      <3> QED BY <2>2, <3>1 DEF WriteJob, WritingAt, EngagedAt
    <2>3. job'[i] = job[i]
      BY <2>1, <2>2, OwnJobKept
    <2> QED BY <1>0, <2>1, <2>3 DEF WritersOwn
  <1> QED BY <1>1, <1>2

LEMMA OverKept ==
  ASSUME ~Expiring, OrphanInv, [Next]_vars
  PROVE  OverEnded'
  <1>0. BaseInv /\ WritersOwn /\ OverEnded /\ HalfHeld
    BY DEF OrphanInv, StartInv, BoundsInv
  <1> SUFFICES ASSUME NEW i \in Images, NEW w \in Workers, ~torn'[i], cur'[w] = i, at'[w] \in OverAt, job'[i].owner = w
               PROVE  gen'[i].status \notin ActiveGen
    BY DEF OverEnded
  <1>1. cur[w] = i /\ ~torn[i] /\ w # None
    BY <1>0, OverEnters, Untorn, MetadataAssumption DEF MetadataAssumption
  <1>2. CASE at[w] \in OverAt
    <2>1. Holds(w, i) /\ at[w] \notin EngagedAt \cup {"idle"}
      BY <1>1, <1>2 DEF Holds, OverAt, Syncing, EngagedAt
    <2>2. job[i].owner = w
      <3>1. ASSUME NEW u \in Workers, ClaimJob(u, i) PROVE FALSE
        <4>1. u = w /\ at[u] = "idle"
          BY <1>0, <3>1 DEF ClaimJob, BaseInv, Typed
        <4> QED BY <2>1, <4>1
      <3>2. \A s : SetJob(i, s) => job'[i].owner = job[i].owner
        BY <1>0, JobWritten
      <3>3. \A s : ~FreeJob(i, s)
        BY <1>0, <1>1 DEF FreeJob, BaseInv, Typed, JobRow
      <3>4. ASSUME NEW u \in Workers, ClearLease(u) \/ WriteJob(u), cur[u] = i PROVE \E s : SetJob(i, s)
        BY <3>3, <3>4 DEF ClearLease, WriteJob
      <3>5. ASSUME NEW r \in Runners, InsertJob(r, i) PROVE \E s : SetJob(i, s)
        BY <3>5 DEF InsertJob
      <3>6. ASSUME NEW r \in Requests, RetryJob(r) \/ CancelJob(r), cur[r] = i PROVE \E s : SetJob(i, s)
        BY <3>3, <3>6 DEF RetryJob, CancelJob
      <3>7. ASSUME RecoverLease(i) \/ ReconcileJob(i) \/ InvalidateJobs(i), job'[i] # job[i] PROVE \E s : SetJob(i, s)
        BY <3>3, <3>7 DEF RecoverLease, ReconcileJob, InvalidateJobs
      <3>8. job'[i].owner = job[i].owner
        BY <1>0, <3>1, <3>2, <3>4, <3>5, <3>6, <3>7, JobActs
      <3> QED BY <3>8
    <2>3. gen[i].status \notin ActiveGen
      BY <1>0, <1>1, <1>2, <2>2 DEF OverEnded
    <2>4. ASSUME gen'[i].status \in ActiveGen PROVE FALSE
      <3>1. HalfQueued(i) \/ \E u \in Workers : cur[u] = i /\ at[u] \in EngagedAt
        BY <1>0, <2>3, <2>4, GenRevives
      <3>2. ASSUME NEW u \in Workers, cur[u] = i, at[u] \in EngagedAt PROVE FALSE
        BY <1>0, <1>1, <2>1, <2>2, <3>2 DEF WritersOwn, WritingAt
      <3> QED BY <1>0, <1>1, <2>1, <3>1, <3>2 DEF HalfHeld
    <2> QED BY <2>4
  <1>3. CASE at[w] = "begin" /\ gen' = gen /\ (job[i].status = "processing" /\ job[i].owner = w => gen[i].status \notin ActiveGen)
    BY <1>0, <1>1, <1>3 DEF WritersOwn, WritingAt
  <1> QED BY <1>0, <1>1, <1>2, <1>3, OverEnters

LEMMA StepKept ==
  ASSUME ~Expiring, OrphanInv, [Next]_vars
  PROVE  InStep'
  <1>0. BaseInv /\ HalfHeld /\ WritersOwn /\ OverEnded /\ InStep
    BY DEF OrphanInv, StartInv, BoundsInv
  <1> SUFFICES ASSUME NEW i \in Images, ~torn'[i], gen'[i].status \in ActiveGen, at'[i] # "gens", job'[i].attempts # MaxAttempts
               PROVE  job'[i].status = "queued" \/ (job'[i].status = "processing" /\ job'[i].owner # None)
    BY DEF InStep
  <1>1. job[i].attempts # MaxAttempts
    BY <1>0, JobIsWritten, JobKept, MetadataAssumption DEF MetadataAssumption, JobRow
  <1>2. ~torn[i] /\ \A w \in Workers : w # None
    BY <1>0, Untorn, MetadataAssumption DEF MetadataAssumption
  <1>3. CASE gen[i].status \notin ActiveGen
    <2>1. job' = job /\ (HalfQueued(i) \/ \E w \in Workers : cur[w] = i /\ at[w] \in EngagedAt)
      BY <1>0, <1>3, GenRevives
    <2>2. HalfQueued(i) => job[i].status = "queued"
      BY <1>0, <1>1, <1>2 DEF HalfHeld
    <2>3. ASSUME NEW w \in Workers, cur[w] = i, at[w] \in EngagedAt PROVE job[i].status = "processing" /\ job[i].owner # None
      BY <1>0, <1>2, <2>3 DEF WritersOwn, WritingAt
    <2> QED BY <2>1, <2>2, <2>3
  <1>4. CASE gen[i].status \in ActiveGen
    <2>1. at[i] # "gens"
      <3>1. ASSUME at[i] = "gens", InvalidateGenerations(i) PROVE FALSE
        <4>1. gen'[i].status \in {"cancelled", "stale"}
          BY <1>0, <1>4, <3>1 DEF InvalidateGenerations, Invalid, SetGen, BaseInv, Typed, GenRow
        <4> QED BY <4>1 DEF ActiveGen
      <3>2. ASSUME at[i] = "gens", InvalidationFails(i) \/ RequestDies(i) PROVE FALSE
        BY <1>0, <1>4, <3>2, Untorn DEF CutShort
      <3> QED BY <1>0, <3>1, <3>2, GensLeft
    <2>2. job[i].status = "queued" \/ (job[i].status = "processing" /\ job[i].owner # None)
      BY <1>0, <1>1, <1>2, <1>4, <2>1 DEF InStep
    <2>3. ASSUME job'[i] # job[i]
          PROVE  job'[i].status = "queued" \/ (job'[i].status = "processing" /\ job'[i].owner # None)
      <3>1. ASSUME NEW w \in Workers, ClaimJob(w, i) PROVE job'[i].status = "processing" /\ job'[i].owner # None
        BY <1>0, <1>2, <3>1 DEF ClaimJob, BaseInv, Typed
      <3>2. ASSUME NEW w \in Workers, ClearLease(w), cur[w] = i PROVE FALSE
        BY <1>0, <1>2, <1>4, <3>2 DEF ClearLease, OverEnded, OverAt, Syncing
      <3>3. ASSUME NEW w \in Workers, WriteJob(w), cur[w] = i PROVE job'[i].status = "queued"
        <4>1. at[w] = "requeueJob"
          BY <1>0, <1>2, <1>4, <3>3 DEF WriteJob, WritersOwn, WritingAt, OverEnded, OverAt
        <4> QED BY <1>0, <3>3, <4>1, JobWritten DEF WriteJob
      <3>4. ASSUME NEW r \in Runners, InsertJob(r, i) PROVE job'[i].status = "queued"
        BY <1>0, <3>4, JobWritten DEF InsertJob
      <3>5. ASSUME NEW r \in Requests, RetryJob(r), cur[r] = i PROVE job'[i].status = "queued"
        BY <1>0, <3>5, JobWritten DEF RetryJob
      <3>6. ASSUME NEW r \in Requests, CancelJob(r), cur[r] = i PROVE FALSE
        BY <1>0, <1>4, <3>6, Untorn
      <3>7. ASSUME RecoverLease(i) PROVE job'[i].status = "queued"
        BY <1>0, <3>7, JobWritten DEF RecoverLease
      <3>8. ASSUME ReconcileJob(i) PROVE FALSE
        BY <1>1, <2>2, <3>8 DEF ReconcileJob
      <3>9. ASSUME InvalidateJobs(i) PROVE FALSE
        <4>1. at[i] = "jobs"
          BY <1>0, <1>4, <3>9, Untorn
        <4>2. at'[i] = "gens"
          BY <1>0, <3>9, <4>1, GotoMoves, Kinds DEF InvalidateJobs
        <4> QED BY <4>2
      <3> QED BY <1>0, <2>3, <3>1, <3>2, <3>3, <3>4, <3>5, <3>6, <3>7, <3>8, <3>9, JobActs
    <2> QED BY <2>2, <2>3
  <1> QED BY <1>3, <1>4

\* A generation that is left behind in progress is explained, for any number
\* of images, workers, runners, requests and reviewers, whoever dies and
\* whichever statement of an invalidation fails: its job has used its
\* attempts up, or something came between two writes of somebody. It takes
\* that no lease expires under a worker that lives: such a worker ends the
\* job that another works on, and leaves that other's generation behind.
THEOREM OrphansExplainedHolds == ~Expiring /\ Spec => []OrphansExplained
  <1> SUFFICES ASSUME ~Expiring PROVE Spec => []OrphansExplained
    OBVIOUS
  <1>1. Init => OrphanInv
    BY OrphanInit
  <1>2. OrphanInv /\ [Next]_vars => OrphanInv'
    <2> SUFFICES ASSUME OrphanInv, [Next]_vars PROVE OrphanInv'
      OBVIOUS
    <2> QED BY StartNext, JobNewKept, JobKnownKept, HalfKept, WritersKept, OverKept, StepKept DEF OrphanInv
  <1>3. OrphanInv => OrphansExplained
    BY DEF OrphanInv, InStep, OrphansExplained, Abandoned
  <1> QED BY <1>1, <1>2, <1>3, PTL DEF Spec
=============================================================================
