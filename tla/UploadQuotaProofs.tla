-------------------------- MODULE UploadQuotaProofs --------------------------
(***************************************************************************)
(* Theorems about UploadQuota, for every set of images and of requests,    *)
(* every size and limit, and every set of disturbances: types, exclusive   *)
(* cleanups, reserved slots, and active counters that cover what exists.   *)
(***************************************************************************)
EXTENDS UploadQuota, FiniteSetTheorems, WellFoundedInduction, TLAPS

\* A request past its authorization works on one image.
SubjectKnown ==
  \A p \in Processes : request[p].step \notin {"idle", "insert"} => Subject(p) \in Images

TypeInv == TypeOK /\ SubjectKnown

LEMMA NoRequestType == NoRequest \in Request
  BY DEF NoRequest, Request, RequestStep

LEMMA TypeInit == Init => TypeInv
  <1> SUFFICES ASSUME Init PROVE TypeInv
    OBVIOUS
  <1>1. TypeOK
    BY NoRequestType, UploadAssumption DEF Init, TypeOK, ImageStatus, ReservationStatus,
       UploadAssumption
  <1>2. SubjectKnown
    BY DEF Init, SubjectKnown, NoRequest
  <1> QED BY <1>1, <1>2 DEF TypeInv

\* bumpQuotaState clamps: whatever is subtracted, the counters are naturals.
LEMMA BumpType ==
  ASSUME TypeInv, NEW delta \in [Counters -> Int], Bump(delta)
  PROVE  quota' \in [Counters -> Nat]
  <1>1. quota \in [Counters -> Nat]
    BY DEF TypeInv, TypeOK
  <1>2. \A c \in Counters : quota[c] \in Nat /\ delta[c] \in Int
    BY <1>1
  <1> QED BY <1>2 DEF Bump

LEMMA ReservedType ==
  ASSUME NEW n \in Int
  PROVE  Reserved(n) \in [Counters -> Int] /\ NoDelta \in [Counters -> Int]
  BY UploadAssumption DEF Reserved, NoDelta, Counters, UploadAssumption

\* Two counters set to integers leave a delta one.
LEMMA ActiveDeltaType ==
  ASSUME NEW d \in [Counters -> Int], NEW n \in Int, NEW m \in Int
  PROVE  [d EXCEPT !["activeImageCount"] = n, !["activeOriginalBytes"] = m]
           \in [Counters -> Int]
  OBVIOUS

\* What onDeleteAcquired and onDeleteCleanupSuccess add.
LEMMA CleanupDeltaType ==
  ASSUME NEW n \in Int
  PROVE  /\ [NoDelta EXCEPT !["activeImageCount"] = -1, !["activeOriginalBytes"] = -n,
                            !["cleanupPendingBytes"] = n] \in [Counters -> Int]
         /\ [NoDelta EXCEPT !["cleanupPendingBytes"] = -n] \in [Counters -> Int]
  <1> DEFINE m == -n
             one == -1
  <1>1. NoDelta \in [Counters -> Int] /\ m \in Int /\ one \in Int
    BY DEF NoDelta
  <1> HIDE DEF m, one
  <1>2. [NoDelta EXCEPT !["activeImageCount"] = one, !["activeOriginalBytes"] = m,
                        !["cleanupPendingBytes"] = n] \in [Counters -> Int]
    BY <1>1
  <1>3. [NoDelta EXCEPT !["cleanupPendingBytes"] = m] \in [Counters -> Int]
    BY <1>1
  <1> QED BY <1>2, <1>3 DEF m, one

\* A request moves on to a well-formed one.
LEMMA BecomeType ==
  ASSUME TypeInv, NEW p \in Processes, NEW r \in Request, Become(p, r),
         r.step \notin {"idle", "insert"} => r.image \in Images
  PROVE  request' \in [Processes -> Request] /\ SubjectKnown'
  BY DEF TypeInv, TypeOK, SubjectKnown, Subject, Become

LEMMA GotoType ==
  ASSUME TypeInv, NEW p \in Processes, NEW step \in RequestStep, Goto(p, step),
         step \notin {"idle", "insert"} => Subject(p) \in Images
  PROVE  request' \in [Processes -> Request] /\ SubjectKnown'
  <1>1. request[p] \in Request
    BY DEF TypeInv, TypeOK
  <1>2. [request[p] EXCEPT !.step = step] \in Request
    BY <1>1 DEF Request
  <1>3. Become(p, [request[p] EXCEPT !.step = step])
    BY <1>1 DEF Goto, Become, TypeInv, TypeOK, Request
  <1> QED BY <1>2, <1>3, BecomeType, <1>1 DEF Request, Subject

LEMMA DoneType ==
  ASSUME TypeInv, NEW p \in Processes, Done(p)
  PROVE  request' \in [Processes -> Request] /\ SubjectKnown'
  BY BecomeType, NoRequestType DEF Done, NoRequest

\* A request that starts on image i.
LEMMA StartType ==
  ASSUME TypeInv, NEW p \in Processes, NEW i \in Images, NEW step \in RequestStep,
         NEW size \in Sizes \cup {0},
         Become(p, [NoRequest EXCEPT !.step = step, !.image = i, !.size = size])
  PROVE  request' \in [Processes -> Request] /\ SubjectKnown'
  <1> DEFINE r == [NoRequest EXCEPT !.step = step, !.image = i, !.size = size]
  <1>1. r \in Request /\ r.image = i
    BY DEF NoRequest, Request
  <1> HIDE DEF r
  <1> QED BY <1>1, BecomeType DEF r

LEMMA ReleaseType ==
  ASSUME TypeInv, NEW i \in Images, Release(i)
  PROVE  reservation' \in [Images -> ReservationStatus] /\ quota' \in [Counters -> Nat]
  <1>1. CASE UNCHANGED <<reservation, quota>>
    BY <1>1 DEF TypeInv, TypeOK
  <1>2. CASE SetReservation(i, "cancelled") /\ Bump(Reserved(-1))
    <2>1. quota' \in [Counters -> Nat]
      BY <1>2, BumpType, ReservedType
    <2> QED BY <1>2, <2>1 DEF SetReservation, TypeInv, TypeOK, ReservationStatus
  <1> QED BY <1>1, <1>2 DEF Release

\* The size of an image or of a request.
LEMMA SizeIsNat ==
  ASSUME TypeInv
  PROVE  /\ \A p \in Processes : request[p].size \in Sizes \cup {0} /\ request[p].size \in Nat
         /\ \A i \in Images : image[i].size \in Sizes \cup {0} /\ image[i].size \in Nat
         /\ \A i \in Images : TrustedBytes(i) \in Nat
  <1>1. \A p \in Processes : request[p].size \in Sizes \cup {0}
    BY DEF TypeInv, TypeOK, Request
  <1>2. \A i \in Images : image[i].size \in Sizes \cup {0}
    BY DEF TypeInv, TypeOK
  <1>3. Sizes \cup {0} \subseteq Nat /\ DeclaredSize \in Nat
    BY UploadAssumption DEF UploadAssumption
  <1> QED BY <1>1, <1>2, <1>3 DEF TrustedBytes

LEMMA SetStatusType ==
  ASSUME TypeInv, NEW i \in Images, NEW st \in ImageStatus, SetStatus(i, st)
  PROVE  image' \in [Images -> [status : ImageStatus, hidden : BOOLEAN, size : Sizes \cup {0}]]
  BY DEF TypeInv, TypeOK, SetStatus

\* A process at a step that names it works on an image.
LEMMA SubjectType ==
  ASSUME TypeInv, NEW p \in Processes
  PROVE  /\ request[p] \in Request
         /\ request[p].step \notin {"idle", "insert"} => Subject(p) \in Images
  BY DEF TypeInv, TypeOK, SubjectKnown

\* Authorizing
LEMMA AuthorizeTypeStep ==
  ASSUME TypeInv, NEW p \in Processes,
         \/ \E batch \in SUBSET FreshIds \ {{}} : ReserveNewUploads(p, batch)
         \/ InsertPendingImage(p) \/ CreateUploadTarget(p) \/ ReleaseUnauthorized(p)
         \/ MarkUnauthorized(p) \/ AuthorizeReturns(p)
  PROVE  TypeInv'
  <1> USE SubjectType DEF TypeInv, TypeOK, At
  <1>1. ASSUME NEW batch \in SUBSET FreshIds \ {{}}, ReserveNewUploads(p, batch)
        PROVE  TypeInv'
    <2>1. batch \subseteq Images /\ IsFiniteSet(batch)
      BY FS_Subset, UploadAssumption DEF FreshIds, UploadAssumption
    <2>2. Cardinality(batch) \in Int
      BY <2>1, FS_CardinalityType
    <2>3. quota' \in [Counters -> Nat]
      BY <1>1, <2>2, BumpType, ReservedType DEF ReserveNewUploads
    <2> DEFINE r == [NoRequest EXCEPT !.step = "insert", !.todo = batch]
    <2>4. r \in Request /\ r.step = "insert"
      BY <2>1 DEF NoRequest, Request, RequestStep
    <2> HIDE DEF r
    <2>5. request' \in [Processes -> Request] /\ SubjectKnown'
      BY <1>1, <2>4, BecomeType DEF ReserveNewUploads, r
    <2> QED BY <1>1, <2>3, <2>5 DEF ReserveNewUploads, OnlyQuota, ReservationStatus
  <1>2. CASE InsertPendingImage(p)
    <2>1. PICK i \in request[p].todo :
            \/ /\ SetStatus(i, "pending_upload")
               /\ Become(p, [request[p] EXCEPT !.step = "sign", !.image = i,
                                               !.todo = @ \ {i}])
            \/ /\ UNCHANGED image
               /\ Become(p, [request[p] EXCEPT !.step = "release", !.image = i,
                                               !.todo = @ \ {i}])
      BY <1>2 DEF InsertPendingImage
    <2>2. i \in Images
      BY <2>1 DEF Request
    <2>3. image' \in [Images -> [status : ImageStatus, hidden : BOOLEAN, size : Sizes \cup {0}]]
      BY <2>1, <2>2, SetStatusType DEF ImageStatus, DeletableStatus
    <2> DEFINE r(step) == [request[p] EXCEPT !.step = step, !.image = i, !.todo = @ \ {i}]
    <2>4. /\ r("sign") \in Request /\ r("sign").image = i
          /\ r("release") \in Request /\ r("release").image = i
      BY <2>2 DEF Request, RequestStep
    <2>5. Become(p, r("sign")) \/ Become(p, r("release"))
      BY <2>1
    <2> HIDE DEF r
    <2>6. request' \in [Processes -> Request] /\ SubjectKnown'
      BY <2>2, <2>4, <2>5, BecomeType
    <2> QED BY <1>2, <2>3, <2>6 DEF InsertPendingImage, OnlyImage
  <1>3. CASE CreateUploadTarget(p)
    <2>1. request' \in [Processes -> Request] /\ SubjectKnown'
      BY <1>3, GotoType DEF CreateUploadTarget, RequestStep
    <2> QED BY <1>3, <2>1 DEF CreateUploadTarget
  <1>4. CASE ReleaseUnauthorized(p)
    <2>1. request' \in [Processes -> Request] /\ SubjectKnown'
      BY <1>4, GotoType DEF ReleaseUnauthorized, RequestStep
    <2> QED BY <1>4, <2>1, ReleaseType DEF ReleaseUnauthorized, OnlyQuota
  <1>5. CASE MarkUnauthorized(p)
    <2>1. request' \in [Processes -> Request] /\ SubjectKnown'
      BY <1>5, GotoType DEF MarkUnauthorized, RequestStep
    <2>2. image' \in [Images -> [status : ImageStatus, hidden : BOOLEAN, size : Sizes \cup {0}]]
      BY <1>5, SetStatusType DEF MarkUnauthorized, ImageStatus, DeletableStatus
    <2> QED BY <1>5, <2>1, <2>2 DEF MarkUnauthorized, OnlyImage
  <1>6. CASE AuthorizeReturns(p)
    BY <1>6, DoneType DEF AuthorizeReturns, OnlyRequest
  <1> QED BY <1>1, <1>2, <1>3, <1>4, <1>5, <1>6

\* Uploading, expiring and confirming
LEMMA ConfirmTypeStep ==
  ASSUME TypeInv, NEW p \in Processes,
         \/ \E i \in Images : UploadOriginal(i) \/ Expire(i) \/ CheckConfirm(p, i)
         \/ ReadObjectMetadata(p) \/ ConsumeNewUploadReservation(p) \/ MarkImageUploaded(p)
         \/ MarkImageUploadFailed(p) \/ DropRejectedObject(p)
  PROVE  TypeInv'
  <1> USE SubjectType DEF TypeInv, TypeOK, At
  <1>1. ASSUME NEW i \in Images, UploadOriginal(i) PROVE TypeInv'
    BY <1>1 DEF UploadOriginal, OnlyObject, SubjectKnown, Subject
  <1>2. ASSUME NEW i \in Images, Expire(i) PROVE TypeInv'
    BY <1>2 DEF Expire, SubjectKnown, Subject
  <1>3. ASSUME NEW i \in Images, CheckConfirm(p, i) PROVE TypeInv'
    <2> DEFINE step == IF expired[i] THEN "fail" ELSE "head"
               r == [NoRequest EXCEPT !.step = step, !.image = i]
    <2>1. r \in Request /\ r.image = i
      BY DEF NoRequest, Request, RequestStep
    <2>2. Become(p, r)
      BY <1>3 DEF CheckConfirm, Start
    <2> HIDE DEF r
    <2>3. request' \in [Processes -> Request] /\ SubjectKnown'
      BY <2>1, <2>2, BecomeType
    <2> QED BY <1>3, <2>3 DEF CheckConfirm, OnlyRequest
  <1>4. CASE ReadObjectMetadata(p)
    <2> DEFINE size == original[Subject(p)]
               r == [request[p] EXCEPT !.step = "consume", !.size = size]
    <2>1. \/ Goto(p, "fail") \/ Goto(p, "reject")
          \/ size > 0 /\ Become(p, r)
      BY <1>4 DEF ReadObjectMetadata
    <2>2. ASSUME size > 0 PROVE r \in Request /\ r.image = Subject(p)
      <3>1. size \in Sizes
        BY <1>4, <2>2 DEF ReadObjectMetadata, Gone
      <3> QED BY <3>1 DEF Request, RequestStep, Subject
    <2> HIDE DEF r
    <2>3. request' \in [Processes -> Request] /\ SubjectKnown'
      BY <1>4, <2>1, <2>2, GotoType, BecomeType DEF ReadObjectMetadata, RequestStep
    <2> QED BY <1>4, <2>3 DEF ReadObjectMetadata, OnlyRequest
  <1>5. CASE ConsumeNewUploadReservation(p)
    <2> DEFINE delta == [Reserved(-1) EXCEPT !["activeImageCount"] = 1,
                                             !["activeOriginalBytes"] = request[p].size]
    <2>1. delta \in [Counters -> Int]
      <3>1. Reserved(-1) \in [Counters -> Int]
        BY ReservedType
      <3>2. request[p].size \in Int
        BY SizeIsNat
      <3> QED BY <3>1, <3>2, ActiveDeltaType
    <2>2. /\ Goto(p, "reject") \/ Goto(p, "upload")
          /\ \/ UNCHANGED quota
             \/ Bump(delta)
          /\ \/ UNCHANGED reservation
             \/ SetReservation(Subject(p), "expired")
             \/ SetReservation(Subject(p), "consumed")
      BY <1>5 DEF ConsumeNewUploadReservation
    <2> HIDE DEF delta
    <2>3. quota' \in [Counters -> Nat]
      BY <2>1, <2>2, BumpType
    <2>4. request' \in [Processes -> Request] /\ SubjectKnown'
      BY <1>5, <2>2, GotoType DEF ConsumeNewUploadReservation, RequestStep
    <2>5. reservation' \in [Images -> ReservationStatus]
      BY <2>2 DEF SetReservation, ReservationStatus
    <2> QED BY <1>5, <2>3, <2>4, <2>5 DEF ConsumeNewUploadReservation, OnlyQuota
  <1>6. CASE MarkImageUploaded(p)
    <2>1. request' \in [Processes -> Request] /\ SubjectKnown'
      BY <1>6, GotoType, DoneType DEF MarkImageUploaded, RequestStep
    <2>2. image' \in [Images -> [status : ImageStatus, hidden : BOOLEAN, size : Sizes \cup {0}]]
      BY <1>6, SizeIsNat DEF MarkImageUploaded, ImageStatus, DeletableStatus
    <2> QED BY <1>6, <2>1, <2>2 DEF MarkImageUploaded, OnlyImage
  <1>7. CASE MarkImageUploadFailed(p)
    <2>1. request' \in [Processes -> Request] /\ SubjectKnown'
      BY <1>7, GotoType, DoneType DEF MarkImageUploadFailed, RequestStep
    <2>2. image' \in [Images -> [status : ImageStatus, hidden : BOOLEAN, size : Sizes \cup {0}]]
      BY <1>7, SetStatusType DEF MarkImageUploadFailed, ImageStatus, DeletableStatus
    <2> QED BY <1>7, <2>1, <2>2 DEF MarkImageUploadFailed, OnlyImage
  <1>8. CASE DropRejectedObject(p)
    BY <1>8, DoneType DEF DropRejectedObject, OnlyObject
  <1> QED BY <1>1, <1>2, <1>3, <1>4, <1>5, <1>6, <1>7, <1>8

\* Deleting an image
LEMMA DeleteTypeStep ==
  ASSUME TypeInv, NEW p \in Processes,
         \/ \E i \in Images : AcquireImageDeletion(p, i) \/ RetryDeletionCleanup(p, i)
         \/ ChargeCleanup(p) \/ FindPendingReservation(p) \/ ReleasePending(p)
         \/ ReleasePendingSlot(p) \/ MarkStorageDeleting(p) \/ DeleteOriginal(p)
         \/ VerifyAbsent(p) \/ MarkImageDeletedComplete(p) \/ UnchargeCleanup(p)
         \/ MarkDeletionFailed(p) \/ RequestDies(p)
  PROVE  TypeInv'
  <1> USE SubjectType DEF TypeInv, TypeOK, At
  <1>1. ASSUME NEW i \in Images, AcquireImageDeletion(p, i) PROVE TypeInv'
    <2>1. request' \in [Processes -> Request] /\ SubjectKnown'
      BY <1>1, StartType, SizeIsNat DEF AcquireImageDeletion, RequestStep
    <2>2. image' \in [Images -> [status : ImageStatus, hidden : BOOLEAN, size : Sizes \cup {0}]]
      <3> DEFINE row == [image[i] EXCEPT !.status = "deletion_pending", !.hidden = TRUE]
      <3>1. row \in [status : ImageStatus, hidden : BOOLEAN, size : Sizes \cup {0}]
        BY DEF ImageStatus, DeletingStatus
      <3>2. image' = [image EXCEPT ![i] = row]
        BY <1>1 DEF AcquireImageDeletion
      <3> HIDE DEF row
      <3> QED BY <3>1, <3>2
    <2> QED BY <1>1, <2>1, <2>2 DEF AcquireImageDeletion, OnlyImage
  <1>2. ASSUME NEW i \in Images, RetryDeletionCleanup(p, i) PROVE TypeInv'
    <2>1. [NoRequest EXCEPT !.step = "delete_mark", !.image = i] \in Request
      BY DEF NoRequest, Request, RequestStep
    <2>2. [NoRequest EXCEPT !.step = "delete_mark", !.image = i].image = i
      BY DEF NoRequest
    <2>3. request' \in [Processes -> Request] /\ SubjectKnown'
      BY <1>2, <2>1, <2>2, BecomeType DEF RetryDeletionCleanup, Start
    <2> QED BY <1>2, <2>3 DEF RetryDeletionCleanup, OnlyRequest
  <1>3. CASE ChargeCleanup(p)
    <2> DEFINE delta == [NoDelta EXCEPT !["activeImageCount"] = -1,
                                        !["activeOriginalBytes"] = -request[p].size,
                                        !["cleanupPendingBytes"] = request[p].size]
    <2>1. delta \in [Counters -> Int]
      <3>1. request[p].size \in Int
        BY SizeIsNat
      <3> QED BY <3>1, CleanupDeltaType
    <2>2. Bump(delta) \/ UNCHANGED quota
      BY <1>3 DEF ChargeCleanup
    <2> HIDE DEF delta
    <2>3. quota' \in [Counters -> Nat]
      BY <2>1, <2>2, BumpType
    <2>4. request' \in [Processes -> Request] /\ SubjectKnown'
      BY <1>3, GotoType DEF ChargeCleanup, RequestStep
    <2> QED BY <1>3, <2>3, <2>4 DEF ChargeCleanup, OnlyQuota
  <1>4. CASE FindPendingReservation(p)
    <2>1. Goto(p, "delete_release") \/ Goto(p, "delete_slot")
      BY <1>4 DEF FindPendingReservation
    <2>2. request' \in [Processes -> Request] /\ SubjectKnown'
      BY <1>4, <2>1, GotoType DEF FindPendingReservation, RequestStep
    <2> QED BY <1>4, <2>2 DEF FindPendingReservation, OnlyRequest
  <1>5. CASE ReleasePending(p)
    <2>1. request' \in [Processes -> Request] /\ SubjectKnown'
      BY <1>5, GotoType DEF ReleasePending, RequestStep
    <2> QED BY <1>5, <2>1, ReleaseType DEF ReleasePending, OnlyQuota
  <1>6. CASE ReleasePendingSlot(p)
    <2>1. request' \in [Processes -> Request] /\ SubjectKnown'
      BY <1>6, GotoType DEF ReleasePendingSlot, RequestStep
    <2>2. quota' \in [Counters -> Nat]
      BY <1>6, BumpType, ReservedType DEF ReleasePendingSlot
    <2> QED BY <1>6, <2>1, <2>2 DEF ReleasePendingSlot, OnlyQuota
  <1>7. CASE MarkStorageDeleting(p)
    <2>1. request' \in [Processes -> Request] /\ SubjectKnown'
      BY <1>7, GotoType, DoneType DEF MarkStorageDeleting, RequestStep, CleanupStep
    <2>2. image' \in [Images -> [status : ImageStatus, hidden : BOOLEAN, size : Sizes \cup {0}]]
      BY <1>7, SetStatusType DEF MarkStorageDeleting, ImageStatus, DeletingStatus
    <2> QED BY <1>7, <2>1, <2>2 DEF MarkStorageDeleting, OnlyImage
  <1>8. CASE DeleteOriginal(p)
    <2>1. request' \in [Processes -> Request] /\ SubjectKnown'
      BY <1>8, GotoType DEF DeleteOriginal, RequestStep, CleanupStep
    <2> QED BY <1>8, <2>1 DEF DeleteOriginal, OnlyObject
  <1>9. CASE VerifyAbsent(p)
    <2>1. request' \in [Processes -> Request] /\ SubjectKnown'
      BY <1>9, GotoType DEF VerifyAbsent, RequestStep, CleanupStep
    <2> QED BY <1>9, <2>1 DEF VerifyAbsent, OnlyRequest
  <1>10. CASE MarkImageDeletedComplete(p)
    <2>1. request' \in [Processes -> Request] /\ SubjectKnown'
      BY <1>10, GotoType DEF MarkImageDeletedComplete, RequestStep, CleanupStep
    <2>2. image' \in [Images -> [status : ImageStatus, hidden : BOOLEAN, size : Sizes \cup {0}]]
      BY <1>10 DEF MarkImageDeletedComplete, ImageStatus
    <2> QED BY <1>10, <2>1, <2>2 DEF MarkImageDeletedComplete, OnlyImage
  <1>11. CASE UnchargeCleanup(p)
    <2> DEFINE delta == [NoDelta EXCEPT !["cleanupPendingBytes"] = -TrustedBytes(Subject(p))]
    <2>1. delta \in [Counters -> Int]
      <3>1. Subject(p) \in Images
        BY <1>11 DEF UnchargeCleanup
      <3>2. TrustedBytes(Subject(p)) \in Int
        BY <3>1, SizeIsNat
      <3> QED BY <3>2, CleanupDeltaType
    <2>2. Bump(delta) \/ UNCHANGED quota
      BY <1>11 DEF UnchargeCleanup
    <2> HIDE DEF delta
    <2>3. quota' \in [Counters -> Nat]
      BY <2>1, <2>2, BumpType
    <2> QED BY <1>11, <2>3, DoneType DEF UnchargeCleanup, OnlyQuota
  <1>12. CASE MarkDeletionFailed(p)
    <2>1. image' \in [Images -> [status : ImageStatus, hidden : BOOLEAN, size : Sizes \cup {0}]]
      BY <1>12 DEF MarkDeletionFailed, ImageStatus, DeletingStatus
    <2> QED BY <1>12, <2>1, DoneType DEF MarkDeletionFailed, OnlyImage
  <1>13. CASE RequestDies(p)
    BY <1>13, DoneType, UploadAssumption DEF RequestDies, UploadAssumption
  <1> QED BY <1>1, <1>2, <1>3, <1>4, <1>5, <1>6, <1>7, <1>8, <1>9, <1>10, <1>11, <1>12, <1>13

LEMMA TypeStep == TypeInv /\ [Next]_vars => TypeInv'
  <1> SUFFICES ASSUME TypeInv, [Next]_vars PROVE TypeInv'
    OBVIOUS
  <1>1. CASE UNCHANGED vars
    BY <1>1 DEF vars, TypeInv, TypeOK, SubjectKnown, Subject
  <1>2. CASE Next
    <2>1. ASSUME NEW h \in Handlers,
                 \/ \E batch \in SUBSET FreshIds \ {{}} : ReserveNewUploads(h, batch)
                 \/ \E i \in Images : CheckConfirm(h, i) \/ AcquireImageDeletion(h, i)
          PROVE  TypeInv'
      BY <2>1, AuthorizeTypeStep, ConfirmTypeStep, DeleteTypeStep DEF Processes
    <2>2. ASSUME NEW i \in Images, UploadOriginal(i) \/ Expire(i)
          PROVE  TypeInv'
      BY <2>2, ConfirmTypeStep DEF Processes
    <2>3. ASSUME NEW p \in Processes, NEW i \in Images, RetryDeletionCleanup(p, i)
          PROVE  TypeInv'
      BY <2>3, DeleteTypeStep
    <2>4. ASSUME NEW p \in Processes, Continue(p) \/ RequestDies(p)
          PROVE  TypeInv'
      BY <2>4, AuthorizeTypeStep, ConfirmTypeStep, DeleteTypeStep DEF Continue
    <2> QED BY <1>2, <2>1, <2>2, <2>3, <2>4 DEF Next
  <1> QED BY <1>1, <1>2

\* The counters of a project are natural numbers and every row, object and
\* request keeps its type, whatever fails, expires or dies.
THEOREM UploadTypesHold == Spec => []TypeOK
  <1>1. Spec => []TypeInv
    BY TypeInit, TypeStep, PTL DEF Spec
  <1>2. TypeInv => TypeOK
    BY DEF TypeInv
  <1> QED BY <1>1, <1>2, PTL

-----------------------------------------------------------------------------
(* One cleanup at a time.  markStorageDeleting lets a request in from       *)
(* deletion_pending or deletion_failed only, so what has to be shown is     *)
(* that an image under cleanup is in neither: it is hidden, hence cannot be *)
(* acquired again, and only the request cleaning it up can fail it.         *)

DeletingIsHidden ==
  \A i \in Images : image[i].status \in DeletingStatus => image[i].hidden

CleanedIsClosed ==
  \A p \in Processes : request[p].step \in CleanupStep =>
    /\ image[Subject(p)].hidden
    /\ image[Subject(p)].status \notin {"deletion_pending", "deletion_failed"}

ExclusiveInv == TypeInv /\ DeletingIsHidden /\ CleanedIsClosed /\ CleanupExclusive

\* No image is shown or hidden, and none enters a deletion status.
KeepsImages ==
  \A i \in Images :
    /\ image'[i].hidden = image[i].hidden
    /\ image'[i].status = image[i].status \/ image'[i].status \notin DeletingStatus

\* Nobody cleans up who did not before.
KeepsRequests ==
  \A p \in Processes :
    request'[p].step \in CleanupStep =>
      request[p].step \in CleanupStep /\ request'[p].image = request[p].image

LEMMA MildStep ==
  ASSUME ExclusiveInv, TypeInv', KeepsImages, KeepsRequests
  PROVE  ExclusiveInv'
  <1> USE DEF KeepsImages, KeepsRequests
  <1>1. DeletingIsHidden'
    BY DEF ExclusiveInv, DeletingIsHidden
  <1>2. CleanedIsClosed'
    <2> SUFFICES ASSUME NEW p \in Processes, request'[p].step \in CleanupStep
                 PROVE  /\ image'[request'[p].image].hidden
                        /\ image'[request'[p].image].status
                              \notin {"deletion_pending", "deletion_failed"}
      BY DEF CleanedIsClosed, Subject
    <2>1. request[p].step \in CleanupStep /\ request'[p].image = request[p].image
      OBVIOUS
    <2>2. request[p].image \in Images
      BY <2>1 DEF ExclusiveInv, TypeInv, SubjectKnown, Subject, CleanupStep
    <2> QED BY <2>1, <2>2 DEF ExclusiveInv, CleanedIsClosed, Subject, DeletingStatus
  <1>3. CleanupExclusive'
    BY DEF ExclusiveInv, CleanupExclusive, Subject
  <1> QED BY <1>1, <1>2, <1>3 DEF ExclusiveInv

LEMMA BecomeKeeps ==
  ASSUME TypeInv, NEW p \in Processes, NEW r, r.step \notin CleanupStep, Become(p, r)
  PROVE  KeepsRequests
  BY DEF TypeInv, TypeOK, Become, KeepsRequests

LEMMA DoneKeeps ==
  ASSUME TypeInv, NEW p \in Processes, Done(p)
  PROVE  KeepsRequests
  BY BecomeKeeps DEF Done, NoRequest, CleanupStep

LEMMA GotoKeeps ==
  ASSUME TypeInv, NEW p \in Processes, NEW step, Goto(p, step),
         step \in CleanupStep => request[p].step \in CleanupStep
  PROVE  KeepsRequests
  <1>1. request \in [Processes -> Request]
    BY DEF TypeInv, TypeOK
  <1> QED BY <1>1 DEF Goto, Request, KeepsRequests

LEMMA SetStatusKeeps ==
  ASSUME TypeInv, NEW i \in Images, NEW st, st \notin DeletingStatus, SetStatus(i, st)
  PROVE  KeepsImages
  BY DEF TypeInv, TypeOK, SetStatus, KeepsImages

\* Authorizing, uploading and confirming never touch a deletion.
LEMMA UploadKeeps ==
  ASSUME TypeInv, NEW p \in Processes,
         \/ \E batch \in SUBSET FreshIds \ {{}} : ReserveNewUploads(p, batch)
         \/ InsertPendingImage(p) \/ CreateUploadTarget(p) \/ ReleaseUnauthorized(p)
         \/ MarkUnauthorized(p) \/ AuthorizeReturns(p)
         \/ \E i \in Images : UploadOriginal(i) \/ Expire(i) \/ CheckConfirm(p, i)
         \/ ReadObjectMetadata(p) \/ ConsumeNewUploadReservation(p) \/ MarkImageUploaded(p)
         \/ MarkImageUploadFailed(p) \/ DropRejectedObject(p)
  PROVE  KeepsImages /\ KeepsRequests
  <1> USE SubjectType DEF At
  <1>1. UNCHANGED image => KeepsImages
    BY DEF KeepsImages
  <1>2. UNCHANGED request => KeepsRequests
    BY DEF KeepsRequests
  <1>3. ASSUME NEW batch \in SUBSET FreshIds \ {{}}, ReserveNewUploads(p, batch)
        PROVE  KeepsImages /\ KeepsRequests
    <2> DEFINE r == [NoRequest EXCEPT !.step = "insert", !.todo = batch]
    <2>1. r.step \notin CleanupStep
      BY DEF NoRequest, CleanupStep
    <2>2. Become(p, r) /\ UNCHANGED image
      BY <1>3 DEF ReserveNewUploads, OnlyQuota
    <2> HIDE DEF r
    <2> QED BY <2>1, <2>2, <1>1, BecomeKeeps
  <1>4. CASE InsertPendingImage(p)
    <2>1. PICK i \in request[p].todo :
            \/ /\ SetStatus(i, "pending_upload")
               /\ Become(p, [request[p] EXCEPT !.step = "sign", !.image = i,
                                               !.todo = @ \ {i}])
            \/ /\ UNCHANGED image
               /\ Become(p, [request[p] EXCEPT !.step = "release", !.image = i,
                                               !.todo = @ \ {i}])
      BY <1>4 DEF InsertPendingImage
    <2> DEFINE r(step) == [request[p] EXCEPT !.step = step, !.image = i, !.todo = @ \ {i}]
    <2>2. i \in Images /\ r("sign").step \notin CleanupStep
                      /\ r("release").step \notin CleanupStep
      BY DEF Request, CleanupStep
    <2>3. Become(p, r("sign")) \/ Become(p, r("release"))
      BY <2>1
    <2> HIDE DEF r
    <2>4. KeepsImages
      BY <1>1, <2>1, <2>2, SetStatusKeeps DEF DeletingStatus
    <2>5. KeepsRequests
      BY <2>2, <2>3, BecomeKeeps
    <2> QED BY <2>4, <2>5
  <1>5. CASE CreateUploadTarget(p)
    BY <1>1, <1>5, GotoKeeps DEF CreateUploadTarget, CleanupStep
  <1>6. CASE ReleaseUnauthorized(p)
    BY <1>1, <1>6, GotoKeeps DEF ReleaseUnauthorized, OnlyQuota, CleanupStep
  <1>7. CASE MarkUnauthorized(p)
    <2>1. KeepsImages
      BY <1>1, <1>7, SetStatusKeeps DEF MarkUnauthorized, DeletingStatus
    <2> QED BY <1>7, <2>1, GotoKeeps DEF MarkUnauthorized, CleanupStep
  <1>8. CASE AuthorizeReturns(p)
    BY <1>1, <1>8, DoneKeeps DEF AuthorizeReturns, OnlyRequest
  <1>9. ASSUME NEW i \in Images, UploadOriginal(i) \/ Expire(i)
        PROVE  KeepsImages /\ KeepsRequests
    BY <1>1, <1>2, <1>9 DEF UploadOriginal, Expire, OnlyObject
  <1>10. ASSUME NEW i \in Images, CheckConfirm(p, i)
         PROVE  KeepsImages /\ KeepsRequests
    <2> DEFINE r == [NoRequest EXCEPT !.step = IF expired[i] THEN "fail" ELSE "head", !.image = i]
    <2>1. r.step \notin CleanupStep
      BY DEF NoRequest, CleanupStep
    <2>2. Become(p, r) /\ UNCHANGED image
      BY <1>10 DEF CheckConfirm, Start, OnlyRequest
    <2> HIDE DEF r
    <2> QED BY <2>1, <2>2, <1>1, BecomeKeeps
  <1>11. CASE ReadObjectMetadata(p)
    <2> DEFINE r == [request[p] EXCEPT !.step = "consume", !.size = original[Subject(p)]]
    <2>1. r.step \notin CleanupStep
      BY DEF Request, CleanupStep
    <2>2. Goto(p, "fail") \/ Goto(p, "reject") \/ Become(p, r)
      BY <1>11 DEF ReadObjectMetadata
    <2> HIDE DEF r
    <2>3. KeepsRequests
      BY <2>1, <2>2, BecomeKeeps, GotoKeeps DEF CleanupStep
    <2> QED BY <1>1, <1>11, <2>3 DEF ReadObjectMetadata, OnlyRequest
  <1>12. CASE ConsumeNewUploadReservation(p)
    <2>1. Goto(p, "reject") \/ Goto(p, "upload")
      BY <1>12 DEF ConsumeNewUploadReservation
    <2> QED BY <1>1, <1>12, <2>1, GotoKeeps
            DEF ConsumeNewUploadReservation, OnlyQuota, CleanupStep
  <1>13. CASE MarkImageUploaded(p)
    <2>1. KeepsImages
      BY <1>1, <1>13 DEF MarkImageUploaded, KeepsImages, TypeInv, TypeOK, DeletingStatus
    <2>2. KeepsRequests
      BY <1>13, GotoKeeps, DoneKeeps DEF MarkImageUploaded, CleanupStep
    <2> QED BY <2>1, <2>2
  <1>14. CASE MarkImageUploadFailed(p)
    <2>1. KeepsImages
      BY <1>1, <1>14, SetStatusKeeps DEF MarkImageUploadFailed, DeletingStatus
    <2>2. KeepsRequests
      BY <1>14, GotoKeeps, DoneKeeps DEF MarkImageUploadFailed, CleanupStep
    <2> QED BY <2>1, <2>2
  <1>15. CASE DropRejectedObject(p)
    BY <1>1, <1>15, DoneKeeps DEF DropRejectedObject, OnlyObject
  <1> QED BY <1>3, <1>4, <1>5, <1>6, <1>7, <1>8, <1>9, <1>10, <1>11, <1>12, <1>13, <1>14, <1>15

\* The steps of a deletion outside its entry, its acquisition and its failure.
LEMMA DeletionKeeps ==
  ASSUME TypeInv, NEW p \in Processes,
         \/ \E i \in Images : RetryDeletionCleanup(p, i)
         \/ ChargeCleanup(p) \/ FindPendingReservation(p) \/ ReleasePending(p)
         \/ ReleasePendingSlot(p) \/ DeleteOriginal(p) \/ VerifyAbsent(p)
         \/ MarkImageDeletedComplete(p) \/ UnchargeCleanup(p) \/ RequestDies(p)
  PROVE  KeepsImages /\ KeepsRequests
  <1> USE SubjectType DEF At
  <1>1. UNCHANGED image => KeepsImages
    BY DEF KeepsImages
  <1>2. ASSUME NEW i \in Images, RetryDeletionCleanup(p, i)
        PROVE  KeepsImages /\ KeepsRequests
    <2> DEFINE r == [NoRequest EXCEPT !.step = "delete_mark", !.image = i]
    <2>1. r.step \notin CleanupStep
      BY DEF NoRequest, CleanupStep
    <2>2. Become(p, r) /\ UNCHANGED image
      BY <1>2 DEF RetryDeletionCleanup, Start, OnlyRequest
    <2> HIDE DEF r
    <2> QED BY <2>1, <2>2, <1>1, BecomeKeeps
  <1>3. CASE ChargeCleanup(p)
    BY <1>1, <1>3, GotoKeeps DEF ChargeCleanup, OnlyQuota, CleanupStep
  <1>4. CASE FindPendingReservation(p)
    <2>1. Goto(p, "delete_release") \/ Goto(p, "delete_slot")
      BY <1>4 DEF FindPendingReservation
    <2> QED BY <1>1, <1>4, <2>1, GotoKeeps DEF FindPendingReservation, OnlyRequest, CleanupStep
  <1>5. CASE ReleasePending(p)
    BY <1>1, <1>5, GotoKeeps DEF ReleasePending, OnlyQuota, CleanupStep
  <1>6. CASE ReleasePendingSlot(p)
    BY <1>1, <1>6, GotoKeeps DEF ReleasePendingSlot, OnlyQuota, CleanupStep
  <1>7. CASE DeleteOriginal(p)
    BY <1>1, <1>7, GotoKeeps DEF DeleteOriginal, OnlyObject, CleanupStep
  <1>8. CASE VerifyAbsent(p)
    BY <1>1, <1>8, GotoKeeps DEF VerifyAbsent, OnlyRequest, CleanupStep
  <1>9. CASE MarkImageDeletedComplete(p)
    <2>1. KeepsImages
      BY <1>1, <1>9 DEF MarkImageDeletedComplete, KeepsImages, TypeInv, TypeOK, DeletingStatus
    <2>2. KeepsRequests
      BY <1>9, GotoKeeps DEF MarkImageDeletedComplete, CleanupStep
    <2> QED BY <2>1, <2>2
  <1>10. CASE UnchargeCleanup(p)
    BY <1>1, <1>10, DoneKeeps DEF UnchargeCleanup, OnlyQuota
  <1>11. CASE RequestDies(p)
    BY <1>1, <1>11, DoneKeeps DEF RequestDies
  <1> QED BY <1>2, <1>3, <1>4, <1>5, <1>6, <1>7, <1>8, <1>9, <1>10, <1>11

\* An image is acquired while it is visible: nobody is cleaning it up.
LEMMA AcquireExclusive ==
  ASSUME ExclusiveInv, TypeInv', NEW p \in Processes, NEW i \in Images,
         AcquireImageDeletion(p, i)
  PROVE  ExclusiveInv'
  <1> USE DEF ExclusiveInv, TypeInv, TypeOK
  <1> DEFINE r == [NoRequest EXCEPT !.step = "delete_quota", !.image = i, !.size = image[i].size]
  <1>1. r.step \notin CleanupStep /\ Become(p, r)
    BY DEF AcquireImageDeletion, NoRequest, CleanupStep
  <1> HIDE DEF r
  <1>2. KeepsRequests
    BY <1>1, BecomeKeeps
  <1>3. /\ image'[i].hidden
        /\ \A j \in Images \ {i} : image'[j] = image[j]
    BY DEF AcquireImageDeletion
  <1>4. ~image[i].hidden
    BY DEF AcquireImageDeletion
  <1>5. DeletingIsHidden'
    BY <1>3 DEF DeletingIsHidden
  <1>6. CleanedIsClosed'
    <2> SUFFICES ASSUME NEW q \in Processes, request'[q].step \in CleanupStep
                 PROVE  /\ image'[request'[q].image].hidden
                        /\ image'[request'[q].image].status
                              \notin {"deletion_pending", "deletion_failed"}
      BY DEF CleanedIsClosed, Subject
    <2>1. request[q].step \in CleanupStep /\ request'[q].image = request[q].image
      BY <1>2 DEF KeepsRequests
    <2>2. request[q].image \in Images /\ request[q].image # i
      BY <1>4, <2>1 DEF SubjectKnown, Subject, CleanupStep, CleanedIsClosed
    <2> QED BY <1>3, <2>1, <2>2 DEF CleanedIsClosed, Subject
  <1>7. CleanupExclusive'
    BY <1>2 DEF KeepsRequests, CleanupExclusive, Subject
  <1> QED BY <1>5, <1>6, <1>7

\* The conditional UPDATE of markStorageDeleting lets one request in.
LEMMA MarkExclusive ==
  ASSUME ExclusiveInv, TypeInv', NEW p \in Processes, MarkStorageDeleting(p)
  PROVE  ExclusiveInv'
  <1> USE DEF ExclusiveInv, TypeInv, TypeOK
  <1> DEFINE i == Subject(p)
  <1>1. i \in Images /\ request[p] \in Request
    BY SubjectType DEF MarkStorageDeleting, At
  <1>2. CASE image[i].status \in {"deletion_pending", "deletion_failed"}
    <2>1. SetStatus(i, "storage_deleting") /\ Goto(p, "delete_object")
      BY <1>2 DEF MarkStorageDeleting
    <2>2. image[i].hidden
      BY <1>1, <1>2 DEF DeletingIsHidden, DeletingStatus
    <2>3. \A q \in Processes : request[q].step \in CleanupStep => Subject(q) # i
      BY <1>2 DEF CleanedIsClosed
    <2>4. /\ image'[i].status = "storage_deleting" /\ image'[i].hidden
          /\ \A j \in Images \ {i} : image'[j] = image[j]
      BY <1>1, <2>1, <2>2 DEF SetStatus
    <2>5. /\ request'[p].image = i
          /\ \A q \in Processes \ {p} : request'[q] = request[q]
      BY <1>1, <2>1 DEF Goto, Subject, Request
    <2>6. DeletingIsHidden'
      BY <2>4 DEF DeletingIsHidden
    <2>7. CleanedIsClosed'
      <3> SUFFICES ASSUME NEW q \in Processes, request'[q].step \in CleanupStep
                   PROVE  /\ image'[request'[q].image].hidden
                          /\ image'[request'[q].image].status
                                \notin {"deletion_pending", "deletion_failed"}
        BY DEF CleanedIsClosed, Subject
      <3>1. CASE q = p
        BY <2>4, <2>5, <3>1
      <3>2. CASE q # p
        <4>1. /\ request'[q] = request[q]
              /\ request[q].image \in Images \ {i}
          BY <2>3, <2>5, <3>2 DEF SubjectKnown, Subject, CleanupStep
        <4> QED BY <2>4, <4>1 DEF CleanedIsClosed, Subject
      <3> QED BY <3>1, <3>2
    <2>8. CleanupExclusive'
      BY <2>3, <2>5 DEF CleanupExclusive, Subject
    <2> QED BY <2>6, <2>7, <2>8
  <1>3. CASE image[i].status \notin {"deletion_pending", "deletion_failed"}
    <2>1. UNCHANGED image /\ Done(p)
      BY <1>3 DEF MarkStorageDeleting
    <2>2. KeepsImages /\ KeepsRequests
      BY <2>1, DoneKeeps DEF KeepsImages
    <2> QED BY <2>2, MildStep
  <1> QED BY <1>2, <1>3

\* Only the request that cleans an image up fails its deletion, and leaves.
LEMMA FailExclusive ==
  ASSUME ExclusiveInv, TypeInv', NEW p \in Processes, MarkDeletionFailed(p)
  PROVE  ExclusiveInv'
  <1> USE DEF ExclusiveInv, TypeInv, TypeOK
  <1> DEFINE i == Subject(p)
  <1>1. i \in Images /\ request[p].step \in CleanupStep
    BY SubjectType DEF MarkDeletionFailed, At, CleanupStep
  <1>2. request' = [request EXCEPT ![p] = NoRequest]
    BY DEF MarkDeletionFailed, Done, Become
  <1>3. \A q \in Processes :
          request'[q].step \in CleanupStep =>
            /\ request'[q] = request[q]
            /\ request[q].image \in Images \ {i}
    BY <1>1, <1>2 DEF NoRequest, CleanupStep, CleanupExclusive, Subject, SubjectKnown
  <1>4. /\ \A j \in Images : image'[j].hidden = image[j].hidden
        /\ \A j \in Images \ {i} : image'[j] = image[j]
        /\ image'[i].status \in DeletingStatus => image[i].status \in DeletingStatus
    BY <1>1 DEF MarkDeletionFailed, DeletingStatus
  <1>5. DeletingIsHidden'
    BY <1>4 DEF DeletingIsHidden
  <1>6. CleanedIsClosed'
    BY <1>3, <1>4 DEF CleanedIsClosed, Subject
  <1>7. CleanupExclusive'
    BY <1>3 DEF CleanupExclusive, Subject
  <1> QED BY <1>5, <1>6, <1>7

LEMMA ExclusiveInit == Init => ExclusiveInv
  <1> SUFFICES ASSUME Init PROVE ExclusiveInv
    OBVIOUS
  <1>1. \A p \in Processes : request[p].step \notin CleanupStep
    BY DEF Init, NoRequest, CleanupStep
  <1>2. DeletingIsHidden
    BY DEF Init, DeletingIsHidden, DeletingStatus
  <1> QED BY <1>1, <1>2, TypeInit DEF ExclusiveInv, CleanedIsClosed, CleanupExclusive

LEMMA ExclusiveStep == ExclusiveInv /\ [Next]_vars => ExclusiveInv'
  <1> SUFFICES ASSUME ExclusiveInv, [Next]_vars PROVE ExclusiveInv'
    OBVIOUS
  <1>1. TypeInv /\ TypeInv'
    BY TypeStep DEF ExclusiveInv
  <1>2. CASE UNCHANGED vars
    BY <1>1, <1>2, MildStep DEF vars, KeepsImages, KeepsRequests
  <1>3. CASE Next
    <2>1. ASSUME NEW h \in Handlers,
                 \/ \E batch \in SUBSET FreshIds \ {{}} : ReserveNewUploads(h, batch)
                 \/ \E i \in Images : CheckConfirm(h, i) \/ AcquireImageDeletion(h, i)
          PROVE  ExclusiveInv'
      BY <1>1, <2>1, UploadKeeps, AcquireExclusive, MildStep DEF Processes
    <2>2. ASSUME NEW i \in Images, UploadOriginal(i) \/ Expire(i)
          PROVE  ExclusiveInv'
      BY <1>1, <2>2, UploadKeeps, MildStep DEF Processes
    <2>3. ASSUME NEW p \in Processes, NEW i \in Images, RetryDeletionCleanup(p, i)
          PROVE  ExclusiveInv'
      BY <1>1, <2>3, DeletionKeeps, MildStep
    <2>4. ASSUME NEW p \in Processes, Continue(p) \/ RequestDies(p)
          PROVE  ExclusiveInv'
      <3>1. CASE MarkStorageDeleting(p)
        BY <1>1, <3>1, MarkExclusive
      <3>2. CASE MarkDeletionFailed(p)
        BY <1>1, <3>2, FailExclusive
      <3>3. CASE ~MarkStorageDeleting(p) /\ ~MarkDeletionFailed(p)
        BY <1>1, <2>4, <3>3, UploadKeeps, DeletionKeeps, MildStep DEF Continue
      <3> QED BY <3>1, <3>2, <3>3
    <2> QED BY <1>3, <2>1, <2>2, <2>3, <2>4 DEF Next
  <1> QED BY <1>2, <1>3

\* A deletion, its retries and the recovery script never clean up the same
\* image at the same time, for any number of them.
THEOREM CleanupIsExclusive == Spec => []CleanupExclusive
  <1>1. Spec => []ExclusiveInv
    BY ExclusiveInit, ExclusiveStep, PTL DEF Spec
  <1>2. ExclusiveInv => CleanupExclusive
    BY DEF ExclusiveInv
  <1> QED BY <1>1, <1>2, PTL

-----------------------------------------------------------------------------
(* The reserved counters.  As long as nothing is hidden no deletion is     *)
(* under way, so every change of a reservation comes with its counters.    *)

DeleteStep == {"delete_quota", "delete_release", "delete_slot", "delete_mark",
               "delete_uncharge"} \cup CleanupStep

DeletersHide == \A p \in Processes : request[p].step \in DeleteStep => image[Subject(p)].hidden

\* Nothing hidden is shown again, and whoever starts to delete an image has hidden it.
KeepsDeleters ==
  /\ \A i \in Images : image[i].hidden => image'[i].hidden
  /\ \A p \in Processes :
       request'[p].step \in DeleteStep =>
         \/ request[p].step \in DeleteStep /\ request'[p].image = request[p].image
         \/ request'[p].image \in Images /\ image'[request'[p].image].hidden

LEMMA DeletersKept ==
  ASSUME TypeInv, DeletersHide, KeepsDeleters
  PROVE  DeletersHide'
  <1>1. \A p \in Processes : request[p].step \in DeleteStep => Subject(p) \in Images
    BY DEF TypeInv, SubjectKnown, DeleteStep, CleanupStep
  <1> QED BY <1>1 DEF DeletersHide, KeepsDeleters, Subject

LEMMA BecomeKeepsDeleters ==
  ASSUME TypeInv, NEW p \in Processes, NEW r, Become(p, r),
         \A i \in Images : image[i].hidden => image'[i].hidden,
         r.step \in DeleteStep =>
           \/ request[p].step \in DeleteStep /\ r.image = request[p].image
           \/ r.image \in Images /\ image'[r.image].hidden
  PROVE  KeepsDeleters
  BY DEF TypeInv, TypeOK, Become, KeepsDeleters

LEMMA DoneKeepsDeleters ==
  ASSUME TypeInv, NEW p \in Processes, Done(p),
         \A i \in Images : image[i].hidden => image'[i].hidden
  PROVE  KeepsDeleters
  BY BecomeKeepsDeleters DEF Done, NoRequest, DeleteStep, CleanupStep

LEMMA GotoKeepsDeleters ==
  ASSUME TypeInv, NEW p \in Processes, NEW step, Goto(p, step),
         step \in DeleteStep => request[p].step \in DeleteStep,
         \A i \in Images : image[i].hidden => image'[i].hidden
  PROVE  KeepsDeleters
  <1>1. request \in [Processes -> Request]
    BY DEF TypeInv, TypeOK
  <1> QED BY <1>1 DEF Goto, Request, KeepsDeleters

LEMMA SetStatusHides ==
  ASSUME TypeInv, NEW i \in Images, NEW st, SetStatus(i, st)
  PROVE  \A j \in Images : image'[j].hidden = image[j].hidden
  BY DEF TypeInv, TypeOK, SetStatus

LEMMA AuthorizeKeepsDeleters ==
  ASSUME TypeInv, NEW p \in Processes,
         \/ \E batch \in SUBSET FreshIds \ {{}} : ReserveNewUploads(p, batch)
         \/ InsertPendingImage(p) \/ CreateUploadTarget(p) \/ ReleaseUnauthorized(p)
         \/ MarkUnauthorized(p) \/ AuthorizeReturns(p)
  PROVE  KeepsDeleters
  <1> USE SubjectType DEF At
  <1>3. ASSUME NEW batch \in SUBSET FreshIds \ {{}}, ReserveNewUploads(p, batch)
        PROVE  KeepsDeleters
    <2> DEFINE r == [NoRequest EXCEPT !.step = "insert", !.todo = batch]
    <2>1. r.step \notin DeleteStep
      BY DEF NoRequest, DeleteStep, CleanupStep
    <2>2. Become(p, r) /\ UNCHANGED image
      BY <1>3 DEF ReserveNewUploads, OnlyQuota
    <2> HIDE DEF r
    <2> QED BY <2>1, <2>2, BecomeKeepsDeleters
  <1>4. CASE InsertPendingImage(p)
    <2>1. PICK i \in request[p].todo :
            \/ /\ SetStatus(i, "pending_upload")
               /\ Become(p, [request[p] EXCEPT !.step = "sign", !.image = i,
                                               !.todo = @ \ {i}])
            \/ /\ UNCHANGED image
               /\ Become(p, [request[p] EXCEPT !.step = "release", !.image = i,
                                               !.todo = @ \ {i}])
      BY <1>4 DEF InsertPendingImage
    <2> DEFINE r(step) == [request[p] EXCEPT !.step = step, !.image = i, !.todo = @ \ {i}]
    <2>2. i \in Images /\ r("sign").step \notin DeleteStep /\ r("release").step \notin DeleteStep
      BY DEF Request, DeleteStep, CleanupStep
    <2>3. Become(p, r("sign")) \/ Become(p, r("release"))
      BY <2>1
    <2> HIDE DEF r
    <2>4. \A j \in Images : image[j].hidden => image'[j].hidden
      BY <2>1, <2>2, SetStatusHides
    <2> QED BY <2>2, <2>3, <2>4, BecomeKeepsDeleters
  <1>5. CASE CreateUploadTarget(p)
    BY <1>5, GotoKeepsDeleters DEF CreateUploadTarget, DeleteStep, CleanupStep
  <1>6. CASE ReleaseUnauthorized(p)
    BY <1>6, GotoKeepsDeleters DEF ReleaseUnauthorized, OnlyQuota, DeleteStep, CleanupStep
  <1>7. CASE MarkUnauthorized(p)
    <2>1. \A j \in Images : image[j].hidden => image'[j].hidden
      BY <1>7, SetStatusHides DEF MarkUnauthorized
    <2> QED BY <1>7, <2>1, GotoKeepsDeleters DEF MarkUnauthorized, DeleteStep, CleanupStep
  <1>8. CASE AuthorizeReturns(p)
    BY <1>8, DoneKeepsDeleters DEF AuthorizeReturns, OnlyRequest
  <1> QED BY <1>3, <1>4, <1>5, <1>6, <1>7, <1>8

LEMMA ConfirmKeepsDeleters ==
  ASSUME TypeInv, NEW p \in Processes,
         \/ \E i \in Images : UploadOriginal(i) \/ Expire(i) \/ CheckConfirm(p, i)
         \/ ReadObjectMetadata(p) \/ ConsumeNewUploadReservation(p) \/ MarkImageUploaded(p)
         \/ MarkImageUploadFailed(p) \/ DropRejectedObject(p)
  PROVE  KeepsDeleters
  <1> USE SubjectType DEF At
  <1>9. ASSUME NEW i \in Images, UploadOriginal(i) \/ Expire(i)
        PROVE  KeepsDeleters
    BY <1>9 DEF UploadOriginal, Expire, OnlyObject, KeepsDeleters
  <1>10. ASSUME NEW i \in Images, CheckConfirm(p, i)
         PROVE  KeepsDeleters
    <2> DEFINE r == [NoRequest EXCEPT !.step = IF expired[i] THEN "fail" ELSE "head", !.image = i]
    <2>1. r.step \notin DeleteStep
      BY DEF NoRequest, DeleteStep, CleanupStep
    <2>2. Become(p, r) /\ UNCHANGED image
      BY <1>10 DEF CheckConfirm, Start, OnlyRequest
    <2> HIDE DEF r
    <2> QED BY <2>1, <2>2, BecomeKeepsDeleters
  <1>11. CASE ReadObjectMetadata(p)
    <2> DEFINE r == [request[p] EXCEPT !.step = "consume", !.size = original[Subject(p)]]
    <2>1. r.step \notin DeleteStep
      BY DEF Request, DeleteStep, CleanupStep
    <2>2. (Goto(p, "fail") \/ Goto(p, "reject") \/ Become(p, r)) /\ UNCHANGED image
      BY <1>11 DEF ReadObjectMetadata, OnlyRequest
    <2> HIDE DEF r
    <2> QED BY <2>1, <2>2, BecomeKeepsDeleters, GotoKeepsDeleters DEF DeleteStep, CleanupStep
  <1>12. CASE ConsumeNewUploadReservation(p)
    <2>1. (Goto(p, "reject") \/ Goto(p, "upload")) /\ UNCHANGED image
      BY <1>12 DEF ConsumeNewUploadReservation, OnlyQuota
    <2> QED BY <2>1, GotoKeepsDeleters DEF DeleteStep, CleanupStep
  <1>13. CASE MarkImageUploaded(p)
    <2>1. \A j \in Images : image[j].hidden => image'[j].hidden
      BY <1>13 DEF MarkImageUploaded, TypeInv, TypeOK
    <2> QED BY <1>13, <2>1, GotoKeepsDeleters, DoneKeepsDeleters
            DEF MarkImageUploaded, DeleteStep, CleanupStep
  <1>14. CASE MarkImageUploadFailed(p)
    <2>1. \A j \in Images : image[j].hidden => image'[j].hidden
      BY <1>14, SetStatusHides DEF MarkImageUploadFailed
    <2> QED BY <1>14, <2>1, GotoKeepsDeleters, DoneKeepsDeleters
            DEF MarkImageUploadFailed, DeleteStep, CleanupStep
  <1>15. CASE DropRejectedObject(p)
    BY <1>15, DoneKeepsDeleters DEF DropRejectedObject, OnlyObject
  <1> QED BY <1>9, <1>10, <1>11, <1>12, <1>13, <1>14, <1>15

LEMMA DeleteKeepsDeleters ==
  ASSUME TypeInv, DeletingIsHidden, NEW p \in Processes,
         \/ \E i \in Images : AcquireImageDeletion(p, i) \/ RetryDeletionCleanup(p, i)
         \/ ChargeCleanup(p) \/ FindPendingReservation(p) \/ ReleasePending(p)
         \/ ReleasePendingSlot(p) \/ MarkStorageDeleting(p) \/ DeleteOriginal(p)
         \/ VerifyAbsent(p) \/ MarkImageDeletedComplete(p) \/ UnchargeCleanup(p)
         \/ MarkDeletionFailed(p) \/ RequestDies(p)
  PROVE  KeepsDeleters
  <1> USE SubjectType DEF At
  <1>1. ASSUME NEW i \in Images, AcquireImageDeletion(p, i) PROVE KeepsDeleters
    <2> DEFINE r == [NoRequest EXCEPT !.step = "delete_quota", !.image = i, !.size = image[i].size]
    <2>1. r.image = i /\ Become(p, r)
      BY <1>1 DEF AcquireImageDeletion, NoRequest
    <2> HIDE DEF r
    <2>2. image'[i].hidden /\ \A j \in Images \ {i} : image'[j] = image[j]
      BY <1>1 DEF AcquireImageDeletion, TypeInv, TypeOK
    <2> QED BY <2>1, <2>2, BecomeKeepsDeleters
  <1>2. ASSUME NEW i \in Images, RetryDeletionCleanup(p, i) PROVE KeepsDeleters
    <2> DEFINE r == [NoRequest EXCEPT !.step = "delete_mark", !.image = i]
    <2>1. r.image = i /\ Become(p, r) /\ UNCHANGED image /\ image[i].hidden
      BY <1>2 DEF RetryDeletionCleanup, Start, OnlyRequest, NoRequest, DeletingIsHidden
    <2> HIDE DEF r
    <2> QED BY <2>1, BecomeKeepsDeleters
  <1>3. CASE ChargeCleanup(p)
    BY <1>3, GotoKeepsDeleters DEF ChargeCleanup, OnlyQuota, DeleteStep
  <1>4. CASE FindPendingReservation(p)
    <2>1. Goto(p, "delete_release") \/ Goto(p, "delete_slot")
      BY <1>4 DEF FindPendingReservation
    <2> QED BY <1>4, <2>1, GotoKeepsDeleters DEF FindPendingReservation, OnlyRequest, DeleteStep
  <1>5. CASE ReleasePending(p)
    BY <1>5, GotoKeepsDeleters DEF ReleasePending, OnlyQuota, DeleteStep
  <1>6. CASE ReleasePendingSlot(p)
    BY <1>6, GotoKeepsDeleters DEF ReleasePendingSlot, OnlyQuota, DeleteStep
  <1>7. CASE DeleteOriginal(p)
    BY <1>7, GotoKeepsDeleters DEF DeleteOriginal, OnlyObject, DeleteStep, CleanupStep
  <1>8. CASE VerifyAbsent(p)
    BY <1>8, GotoKeepsDeleters DEF VerifyAbsent, OnlyRequest, DeleteStep, CleanupStep
  <1>9. CASE MarkImageDeletedComplete(p)
    <2>1. \A j \in Images : image[j].hidden => image'[j].hidden
      BY <1>9 DEF MarkImageDeletedComplete, TypeInv, TypeOK
    <2> QED BY <1>9, <2>1, GotoKeepsDeleters DEF MarkImageDeletedComplete, DeleteStep, CleanupStep
  <1>10. CASE UnchargeCleanup(p)
    BY <1>10, DoneKeepsDeleters DEF UnchargeCleanup, OnlyQuota
  <1>11. CASE RequestDies(p)
    BY <1>11, DoneKeepsDeleters DEF RequestDies
  <1>12. CASE MarkStorageDeleting(p)
    <2>1. \A j \in Images : image[j].hidden => image'[j].hidden
      BY <1>12, SetStatusHides DEF MarkStorageDeleting
    <2> QED BY <1>12, <2>1, GotoKeepsDeleters, DoneKeepsDeleters
            DEF MarkStorageDeleting, DeleteStep, CleanupStep
  <1>13. CASE MarkDeletionFailed(p)
    <2>1. \A j \in Images : image[j].hidden => image'[j].hidden
      BY <1>13 DEF MarkDeletionFailed, TypeInv, TypeOK
    <2> QED BY <1>13, <2>1, DoneKeepsDeleters DEF MarkDeletionFailed
  <1> QED BY <1>1, <1>2, <1>3, <1>4, <1>5, <1>6, <1>7, <1>8, <1>9, <1>10, <1>11, <1>12, <1>13

LEMMA DeletersStep ==
  ASSUME ExclusiveInv, [Next]_vars
  PROVE  KeepsDeleters
  <1>1. TypeInv /\ DeletingIsHidden
    BY DEF ExclusiveInv
  <1>2. CASE UNCHANGED vars
    BY <1>2 DEF vars, KeepsDeleters
  <1>3. ASSUME NEW h \in Handlers,
               \/ \E batch \in SUBSET FreshIds \ {{}} : ReserveNewUploads(h, batch)
               \/ \E i \in Images : CheckConfirm(h, i) \/ AcquireImageDeletion(h, i)
        PROVE  KeepsDeleters
    BY <1>1, <1>3, AuthorizeKeepsDeleters, ConfirmKeepsDeleters, DeleteKeepsDeleters DEF Processes
  <1>4. ASSUME NEW i \in Images, UploadOriginal(i) \/ Expire(i)
        PROVE  KeepsDeleters
    BY <1>1, <1>4, ConfirmKeepsDeleters DEF Processes
  <1>5. ASSUME NEW p \in Processes, NEW i \in Images, RetryDeletionCleanup(p, i)
        PROVE  KeepsDeleters
    BY <1>1, <1>5, DeleteKeepsDeleters
  <1>6. ASSUME NEW p \in Processes, Continue(p) \/ RequestDies(p)
        PROVE  KeepsDeleters
    BY <1>1, <1>6, AuthorizeKeepsDeleters, ConfirmKeepsDeleters, DeleteKeepsDeleters DEF Continue
  <1> QED BY <1>2, <1>3, <1>4, <1>5, <1>6 DEF Next

Open == {i \in Images : reservation[i] \in {"reserved", "expired"}}
ReservedAre(n) ==
  /\ quota["reservedImageSlots"] = n
  /\ quota["reservedUploadBytes"] = DeclaredSize * n
NothingHidden == \A i \in Images : ~image[i].hidden

LEMMA SlotsExactIs == SlotsExact <=> (NothingHidden => ReservedAre(Cardinality(Open)))
  BY DEF SlotsExact, NothingHidden, ReservedAre, Open

LEMMA SubsetsCount ==
  ASSUME NEW S \in SUBSET Images
  PROVE  IsFiniteSet(S) /\ Cardinality(S) \in Nat
  BY UploadAssumption, FS_Subset, FS_CardinalityType DEF UploadAssumption

\* What a change of the reserved counters leaves of the five.
LEMMA BumpReserved ==
  ASSUME TypeInv, NEW n \in Int, Bump(Reserved(n))
  PROVE  LET slots == quota["reservedImageSlots"] + n
             bytes == quota["reservedUploadBytes"] + n * DeclaredSize
         IN /\ quota'["reservedImageSlots"] = IF slots >= 0 THEN slots ELSE 0
            /\ quota'["reservedUploadBytes"] = IF bytes >= 0 THEN bytes ELSE 0
            /\ quota'["activeImageCount"] = quota["activeImageCount"]
  <1>1. /\ Reserved(n)["reservedImageSlots"] = n
        /\ Reserved(n)["reservedUploadBytes"] = n * DeclaredSize
        /\ Reserved(n)["activeImageCount"] = 0
    BY DEF Reserved, NoDelta, Counters
  <1>2. quota["activeImageCount"] \in Nat
    BY DEF TypeInv, TypeOK, Counters
  <1> HIDE DEF Reserved
  <1> QED BY <1>1, <1>2 DEF Bump, Counters

\* One reservation more or less, in the counters.
LEMMA ReservedMoves ==
  ASSUME TypeInv, NEW n \in Nat, ReservedAre(n), NEW m \in Int, n + m >= 0, Bump(Reserved(m))
  PROVE  ReservedAre(n + m)'
  <1>1. DeclaredSize \in Nat
    BY UploadAssumption DEF UploadAssumption
  <1>2. /\ DeclaredSize * n + m * DeclaredSize = DeclaredSize * (n + m)
        /\ DeclaredSize * (n + m) >= 0
    BY <1>1
  <1> QED BY <1>2, BumpReserved DEF ReservedAre

LEMMA OpenKept ==
  ASSUME NothingHidden' => NothingHidden, SlotsExact, Open' = Open,
         quota'["reservedImageSlots"] = quota["reservedImageSlots"],
         quota'["reservedUploadBytes"] = quota["reservedUploadBytes"]
  PROVE  SlotsExact'
  <1>1. NothingHidden' => ReservedAre(Cardinality(Open))'
    BY SlotsExactIs DEF ReservedAre
  <1> QED BY <1>1, SlotsExactIs DEF SlotsExact, NothingHidden, ReservedAre, Open

LEMMA DisjointCount ==
  ASSUME NEW S \in SUBSET Images, NEW T \in SUBSET Images, S \cap T = {}
  PROVE  Cardinality(S \cup T) = Cardinality(S) + Cardinality(T)
  <1>1. IsFiniteSet(S) /\ IsFiniteSet(T) /\ Cardinality(S) \in Nat /\ Cardinality(T) \in Nat
    BY SubsetsCount
  <1>2. Cardinality(S \cup T) = Cardinality(S) + Cardinality(T) - Cardinality(S \cap T)
    BY <1>1, FS_Union
  <1>3. Cardinality(S \cap T) = 0
    BY FS_EmptySet
  <1> QED BY <1>1, <1>2, <1>3

LEMMA ReserveSlots ==
  ASSUME TypeInv, SlotsExact, NEW p \in Processes, NEW batch \in SUBSET FreshIds,
         ReserveNewUploads(p, batch)
  PROVE  SlotsExact'
  <1>1. batch \in SUBSET Images /\ Open \in SUBSET Images
    BY DEF FreshIds, Open
  <1>2. reservation' = [i \in Images |-> IF i \in batch THEN "reserved" ELSE reservation[i]]
    BY DEF ReserveNewUploads
  <1>3. Open' = Open \cup batch /\ Open \cap batch = {}
    BY <1>2 DEF FreshIds, Open
  <1>4. Cardinality(Open') = Cardinality(Open) + Cardinality(batch)
    BY <1>1, <1>3, DisjointCount
  <1>5. image' = image /\ Bump(Reserved(Cardinality(batch)))
    BY DEF ReserveNewUploads, OnlyQuota
  <1> SUFFICES ASSUME NothingHidden PROVE ReservedAre(Cardinality(Open))'
    BY <1>5 DEF SlotsExact, NothingHidden, ReservedAre, Open
  <1>6. ReservedAre(Cardinality(Open))
    BY SlotsExactIs
  <1>7. ASSUME NEW n \in Nat, NEW m \in Nat, n = Cardinality(Open), m = Cardinality(batch)
        PROVE  ReservedAre(n + m)'
    BY <1>5, <1>6, <1>7, ReservedMoves
  <1> QED BY <1>1, <1>4, <1>7, SubsetsCount DEF ReservedAre

LEMMA ReleaseSlots ==
  ASSUME TypeInv, SlotsExact, NEW i \in Images, reservation[i] = "reserved",
         \E st \in {"cancelled", "consumed"} : SetReservation(i, st),
         quota'["reservedImageSlots"] = IF quota["reservedImageSlots"] >= 1
                                        THEN quota["reservedImageSlots"] - 1 ELSE 0,
         quota'["reservedUploadBytes"] = IF quota["reservedUploadBytes"] >= DeclaredSize
                                         THEN quota["reservedUploadBytes"] - DeclaredSize ELSE 0,
         NothingHidden' => NothingHidden
  PROVE  SlotsExact'
  <1>1. Open \in SUBSET Images /\ i \in Open /\ Open' = Open \ {i}
    BY DEF SetReservation, Open, TypeInv, TypeOK
  <1>2. /\ Cardinality(Open') = Cardinality(Open) - 1
        /\ Cardinality(Open) \in Nat /\ Cardinality(Open') \in Nat
    BY <1>1, SubsetsCount, FS_RemoveElement
  <1> SUFFICES ASSUME NothingHidden PROVE ReservedAre(Cardinality(Open))'
    BY DEF SlotsExact, NothingHidden, ReservedAre, Open
  <1>3. ReservedAre(Cardinality(Open))
    BY SlotsExactIs
  <1>4. DeclaredSize \in Nat
    BY UploadAssumption DEF UploadAssumption
  <1>5. ASSUME NEW n \in Nat, n + 1 = Cardinality(Open), n = Cardinality(Open')
        PROVE  /\ quota'["reservedImageSlots"] = n
               /\ quota'["reservedUploadBytes"] = DeclaredSize * n
    <2>1. DeclaredSize * (n + 1) = DeclaredSize * n + DeclaredSize /\ DeclaredSize * n >= 0
      BY <1>4
    <2>2. /\ quota["reservedImageSlots"] = n + 1
          /\ quota["reservedUploadBytes"] = DeclaredSize * (n + 1)
      BY <1>3, <1>5 DEF ReservedAre
    <2>3. DeclaredSize * n \in Nat
      BY <1>4
    <2> QED BY <1>4, <2>1, <2>2, <2>3
  <1> QED BY <1>2, <1>5 DEF ReservedAre

\* Giving a reservation back, as the other paths of a deletion do.
LEMMA ReleaseKeepsSlots ==
  ASSUME TypeInv, SlotsExact, NEW i \in Images, Release(i), NothingHidden' => NothingHidden
  PROVE  SlotsExact'
  <1>1. CASE UNCHANGED <<reservation, quota>>
    BY <1>1, OpenKept DEF Open
  <1>2. CASE reservation[i] = "reserved" /\ SetReservation(i, "cancelled") /\ Bump(Reserved(-1))
    <2>1. /\ quota["reservedImageSlots"] \in Nat /\ quota["reservedUploadBytes"] \in Nat
          /\ DeclaredSize \in Nat
      BY UploadAssumption DEF UploadAssumption, TypeInv, TypeOK, Counters
    <2>2. /\ quota'["reservedImageSlots"] = IF quota["reservedImageSlots"] >= 1
                                            THEN quota["reservedImageSlots"] - 1 ELSE 0
          /\ quota'["reservedUploadBytes"] = IF quota["reservedUploadBytes"] >= DeclaredSize
                                             THEN quota["reservedUploadBytes"] - DeclaredSize ELSE 0
      BY <1>2, <2>1, BumpReserved
    <2> QED BY <1>2, <2>2, ReleaseSlots
  <1> QED BY <1>1, <1>2 DEF Release

\* Consuming one turns it into active bytes; an expired one keeps its slot.
LEMMA ConsumeKeepsSlots ==
  ASSUME TypeInv, SlotsExact, NEW p \in Processes, ConsumeNewUploadReservation(p)
  PROVE  SlotsExact'
  <1> DEFINE i == Subject(p)
             delta == [Reserved(-1) EXCEPT !["activeImageCount"] = 1,
                                           !["activeOriginalBytes"] = request[p].size]
  <1>1. i \in Images /\ image' = image
    BY SubjectType DEF ConsumeNewUploadReservation, OnlyQuota, At
  <1>2. NothingHidden' => NothingHidden
    BY <1>1 DEF NothingHidden
  <1>3. CASE UNCHANGED <<reservation, quota>>
    BY <1>2, <1>3, OpenKept DEF Open
  <1>4. CASE reservation[i] = "reserved" /\ SetReservation(i, "expired") /\ UNCHANGED quota
    <2>1. Open' = Open
      BY <1>1, <1>4 DEF SetReservation, Open, TypeInv, TypeOK
    <2> QED BY <1>2, <1>4, <2>1, OpenKept
  <1>5. CASE reservation[i] = "reserved" /\ SetReservation(i, "consumed") /\ Bump(delta)
    <2>1. delta["reservedImageSlots"] = -1 /\ delta["reservedUploadBytes"] = (-1) * DeclaredSize
      BY DEF Reserved, NoDelta, Counters
    <2>2. DeclaredSize \in Nat /\ quota["reservedImageSlots"] \in Nat
          /\ quota["reservedUploadBytes"] \in Nat
      BY UploadAssumption DEF UploadAssumption, TypeInv, TypeOK, Counters
    <2> HIDE DEF delta
    <2>3. /\ quota'["reservedImageSlots"] =
               IF quota["reservedImageSlots"] + delta["reservedImageSlots"] >= 0
               THEN quota["reservedImageSlots"] + delta["reservedImageSlots"] ELSE 0
          /\ quota'["reservedUploadBytes"] =
               IF quota["reservedUploadBytes"] + delta["reservedUploadBytes"] >= 0
               THEN quota["reservedUploadBytes"] + delta["reservedUploadBytes"] ELSE 0
      BY <1>5 DEF Bump, Counters
    <2>4. /\ quota'["reservedImageSlots"] = IF quota["reservedImageSlots"] >= 1
                                            THEN quota["reservedImageSlots"] - 1 ELSE 0
          /\ quota'["reservedUploadBytes"] = IF quota["reservedUploadBytes"] >= DeclaredSize
                                             THEN quota["reservedUploadBytes"] - DeclaredSize ELSE 0
      BY <2>1, <2>2, <2>3
    <2> QED BY <1>1, <1>2, <1>5, <2>4, ReleaseSlots
  <1>6. \/ UNCHANGED <<reservation, quota>>
        \/ reservation[i] = "reserved" /\ SetReservation(i, "expired") /\ UNCHANGED quota
        \/ reservation[i] = "reserved" /\ SetReservation(i, "consumed") /\ Bump(delta)
    BY DEF ConsumeNewUploadReservation
  <1> QED BY <1>3, <1>4, <1>5, <1>6

\* The actions that leave reservations and counters alone.
LEMMA QuietKeepsSlots ==
  ASSUME SlotsExact, UNCHANGED <<reservation, quota>>, NothingHidden' => NothingHidden
  PROVE  SlotsExact'
  BY OpenKept DEF Open

SlotInv == ExclusiveInv /\ DeletersHide /\ SlotsExact

LEMMA SlotsStep ==
  ASSUME SlotInv, [Next]_vars
  PROVE  SlotsExact'
  <1> USE DEF SlotInv
  <1>1. TypeInv
    BY DEF ExclusiveInv
  <1>2. NothingHidden' => NothingHidden
    BY DeletersStep DEF KeepsDeleters, NothingHidden
  <1>3. ASSUME NEW h \in Handlers, NEW batch \in SUBSET FreshIds, ReserveNewUploads(h, batch)
        PROVE  SlotsExact'
    BY <1>1, <1>3, ReserveSlots DEF Processes
  <1>4. ASSUME NEW p \in Processes, ReleaseUnauthorized(p) \/ ReleasePending(p)
        PROVE  SlotsExact'
    <2>1. Subject(p) \in Images /\ Release(Subject(p))
      BY <1>1, <1>4, SubjectType DEF ReleaseUnauthorized, ReleasePending, At
    <2> QED BY <1>1, <1>2, <2>1, ReleaseKeepsSlots
  <1>5. ASSUME NEW p \in Processes, ConsumeNewUploadReservation(p)
        PROVE  SlotsExact'
    BY <1>1, <1>5, ConsumeKeepsSlots
  <1>6. ASSUME NEW p \in Processes,
               ChargeCleanup(p) \/ ReleasePendingSlot(p) \/ UnchargeCleanup(p)
        PROVE  SlotsExact'
    <2>1. request[p].step \in DeleteStep
      BY <1>6 DEF ChargeCleanup, ReleasePendingSlot, UnchargeCleanup, At, DeleteStep
    <2>2. Subject(p) \in Images /\ image[Subject(p)].hidden
      BY <1>1, <2>1 DEF DeletersHide, TypeInv, SubjectKnown, DeleteStep, CleanupStep
    <2>3. ~NothingHidden'
      BY <1>2, <2>2 DEF NothingHidden
    <2> QED BY <2>3 DEF SlotsExact, NothingHidden
  <1>7. CASE UNCHANGED <<reservation, quota>>
    BY <1>2, <1>7, QuietKeepsSlots
  <1>8. ASSUME NEW h \in Handlers, NEW i \in Images,
               CheckConfirm(h, i) \/ AcquireImageDeletion(h, i)
        PROVE  UNCHANGED <<reservation, quota>>
    BY <1>8 DEF CheckConfirm, AcquireImageDeletion, OnlyRequest, OnlyImage
  <1>9. ASSUME NEW i \in Images,
               \/ UploadOriginal(i) \/ Expire(i)
               \/ \E p \in Processes : RetryDeletionCleanup(p, i)
        PROVE  UNCHANGED <<reservation, quota>>
    BY <1>9 DEF UploadOriginal, Expire, RetryDeletionCleanup, OnlyRequest, OnlyObject
  <1>10. ASSUME NEW p \in Processes, Continue(p) \/ RequestDies(p),
                ~(ReleaseUnauthorized(p) \/ ReleasePending(p)), ~ConsumeNewUploadReservation(p),
                ~(ChargeCleanup(p) \/ ReleasePendingSlot(p) \/ UnchargeCleanup(p))
         PROVE  UNCHANGED <<reservation, quota>>
    BY <1>10 DEF Continue, RequestDies, InsertPendingImage, CreateUploadTarget, MarkUnauthorized,
       AuthorizeReturns, ReadObjectMetadata, MarkImageUploaded, MarkImageUploadFailed,
       DropRejectedObject, FindPendingReservation, MarkStorageDeleting, DeleteOriginal,
       VerifyAbsent, MarkImageDeletedComplete, MarkDeletionFailed, OnlyImage, OnlyRequest,
       OnlyObject
  <1>11. ASSUME NEW p \in Processes, Continue(p) \/ RequestDies(p)
         PROVE  SlotsExact'
    BY <1>4, <1>5, <1>6, <1>7, <1>10, <1>11
  <1>12. CASE UNCHANGED vars
    BY <1>7, <1>12 DEF vars
  <1> QED BY <1>3, <1>7, <1>8, <1>9, <1>11, <1>12 DEF Next

LEMMA SlotInit == Init => SlotInv
  <1> SUFFICES ASSUME Init PROVE SlotInv
    OBVIOUS
  <1>1. DeletersHide
    BY DEF Init, NoRequest, DeletersHide, DeleteStep, CleanupStep
  <1>2. Open = {} /\ quota = [c \in Counters |-> 0]
    BY DEF Init, Open
  <1>3. Cardinality(Open) = 0 /\ DeclaredSize \in Nat
    BY <1>2, FS_EmptySet, UploadAssumption DEF UploadAssumption
  <1>4. ReservedAre(Cardinality(Open))
    BY <1>2, <1>3 DEF ReservedAre, Counters
  <1> QED BY <1>1, <1>4, SlotsExactIs, ExclusiveInit DEF SlotInv

\* As long as nothing has been deleted, the reserved slots and bytes are
\* exactly those of the reservations still open, for every number of uploads
\* authorized, confirmed, expired, failed and abandoned at the same time.
THEOREM SlotsExactHolds == Spec => []SlotsExact
  <1>1. SlotInv /\ [Next]_vars => SlotInv'
    BY ExclusiveStep, DeletersStep, DeletersKept, SlotsStep DEF SlotInv, ExclusiveInv
  <1>2. Spec => []SlotInv
    BY SlotInit, <1>1, PTL DEF Spec
  <1>3. SlotInv => SlotsExact
    BY DEF SlotInv
  <1> QED BY <1>2, <1>3, PTL
-----------------------------------------------------------------------------
(* Sums of sizes over a finite set.  Facts about every finite set are       *)
(* proved by contradiction: among the sets that break one there is a        *)
(* smallest, because the strict subsets of a finite set are well-founded,   *)
(* and taking an element out of it gives the contradiction.                 *)

SizesOf(r, S) == MapThenSumSet(LAMBDA i : r[i].size, S)
OneOf(s) == CHOOSE x \in s : TRUE

\* The function MapThenSumSet chooses.
Sums(r, S, g) ==
  g = [s \in SUBSET S |->
         IF s = {} THEN 0 ELSE LET x == CHOOSE x \in s : TRUE IN r[x].size + g[s \ {x}]]

LEMMA OneOfIsIn ==
  ASSUME NEW s, s # {}
  PROVE  OneOf(s) \in s
  BY DEF OneOf

\* One step of such a function.
LEMMA SumsAre ==
  ASSUME NEW r, NEW S, NEW g, Sums(r, S, g), NEW s \in SUBSET S
  PROVE  g[s] = IF s = {} THEN 0 ELSE r[OneOf(s)].size + g[s \ {OneOf(s)}]
  BY DEF Sums, OneOf

LEMMA SizesAre ==
  ASSUME NEW r, NEW S
  PROVE  SizesOf(r, S) = (CHOOSE g : Sums(r, S, g))[S]
  BY DEF SizesOf, Sums, MapThenSumSet, MapThenFoldSet

\* A set of subsets of a finite set has a member that contains no other: a
\* proof by induction over the set looks at a smallest counterexample.
LEMMA SmallestSubset ==
  ASSUME NEW S, IsFiniteSet(S), NEW B \in SUBSET SUBSET S, B # {}
  PROVE  \E s \in B : \A t \in B : t \subseteq s => t = s
  <1> DEFINE R == StrictSubsetOrdering(S)
  <1>1. IsWellFoundedOn(R, FiniteSubsetsOf(S))
    BY FS_StrictSubsetOrderingWellFounded
  <1>2. B \subseteq FiniteSubsetsOf(S)
    BY FS_FiniteSubsetsOfFinite
  <1>3. PICK s \in B : \A t \in B : ~(<<t, s>> \in R)
    <2> HIDE DEF R
    <2> QED BY <1>1, <1>2, WFMin
  <1>4. ASSUME NEW t \in B, t \subseteq s PROVE t = s
    BY <1>3, <1>4 DEF StrictSubsetOrdering
  <1> QED BY <1>4

\* Two of them agree where both are defined.
LEMMA SumsAgree ==
  ASSUME NEW r, NEW S, IsFiniteSet(S), NEW T \in SUBSET S,
         NEW g, Sums(r, S, g), NEW h, Sums(r, T, h)
  PROVE  \A t \in SUBSET T : g[t] = h[t]
  <1> DEFINE B == {t \in SUBSET T : g[t] # h[t]}
  <1> SUFFICES ASSUME B # {} PROVE FALSE
    OBVIOUS
  <1>1. IsFiniteSet(T) /\ B \in SUBSET SUBSET T
    BY FS_Subset
  <1>2. PICK s \in B : \A t \in B : t \subseteq s => t = s
    <2> HIDE DEF B
    <2> QED BY <1>1, SmallestSubset
  <1>3. s \in SUBSET T /\ s \in SUBSET S /\ g[s] # h[s]
    BY <1>2
  <1> HIDE DEF B
  <1>4. s # {}
    BY <1>3, SumsAre
  <1>5. OneOf(s) \in s /\ s \ {OneOf(s)} # s /\ s \ {OneOf(s)} \in SUBSET T
    BY <1>3, <1>4, OneOfIsIn
  <1>6. g[s \ {OneOf(s)}] = h[s \ {OneOf(s)}]
    BY <1>2, <1>5 DEF B
  <1> QED BY <1>3, <1>4, <1>6, SumsAre

\* There is one for every finite set.
LEMMA SumsExist ==
  ASSUME NEW r, NEW S, IsFiniteSet(S)
  PROVE  \E g : Sums(r, S, g)
  <1> DEFINE B == {t \in SUBSET S : ~\E g : Sums(r, t, g)}
  <1> SUFFICES ASSUME B # {} PROVE FALSE
    OBVIOUS
  <1>0. B \in SUBSET SUBSET S
    OBVIOUS
  <1>1. PICK s \in B : \A t \in B : t \subseteq s => t = s
    <2> HIDE DEF B
    <2> QED BY <1>0, SmallestSubset
  <1>2. s \in SUBSET S /\ IsFiniteSet(s) /\ ~\E g : Sums(r, s, g)
    BY <1>1, FS_Subset
  <1>3. \A t \in SUBSET s : t # s => \E g : Sums(r, t, g)
    BY <1>1, <1>2
  <1> HIDE DEF B
  <1> DEFINE G(t) == CHOOSE g : Sums(r, t, g)
             Rest(t) == t \ {OneOf(t)}
             h == [t \in SUBSET s |-> IF t = {} THEN 0 ELSE r[OneOf(t)].size + G(Rest(t))[Rest(t)]]
  <1>4. \A t \in SUBSET s : t # s => Sums(r, t, G(t))
    BY <1>3
  <1>5. ASSUME NEW t \in SUBSET s, t # {}
        PROVE  OneOf(t) \in t /\ Rest(t) \in SUBSET s /\ Rest(t) # s
    BY <1>5, OneOfIsIn
  <1>6. ASSUME NEW t \in SUBSET s, t # {} PROVE h[Rest(t)] = G(Rest(t))[Rest(t)]
    <2> DEFINE u == Rest(t)
    <2>1. u \in SUBSET s /\ u # s /\ Sums(r, u, G(u))
      BY <1>4, <1>5, <1>6
    <2> HIDE DEF u, Rest, G
    <2>2. CASE u = {}
      <3>1. G(u)[u] = 0
        BY <2>1, <2>2, SumsAre
      <3> QED BY <2>1, <2>2, <3>1 DEF u
    <2>3. CASE u # {}
      <3>1. OneOf(u) \in u /\ Rest(u) \in SUBSET u /\ Rest(u) \in SUBSET s /\ Rest(u) # s
        BY <1>5, <2>1, <2>3, OneOfIsIn DEF Rest
      <3>2. Sums(r, Rest(u), G(Rest(u)))
        BY <1>4, <3>1
      <3>3. IsFiniteSet(u)
        BY <1>2, <2>1, FS_Subset
      <3>4. G(u)[Rest(u)] = G(Rest(u))[Rest(u)]
        BY <2>1, <3>1, <3>2, <3>3, SumsAgree
      <3>5. G(u)[u] = r[OneOf(u)].size + G(u)[Rest(u)]
        BY <2>1, <2>3, SumsAre DEF Rest
      <3>6. h[u] = r[OneOf(u)].size + G(Rest(u))[Rest(u)]
        BY <2>1, <2>3
      <3> QED BY <3>4, <3>5, <3>6 DEF u
    <2> QED BY <2>2, <2>3
  <1>7. Sums(r, s, h)
    <2> HIDE DEF G
    <2>1. \A t \in SUBSET s : t # {} => h[t \ {OneOf(t)}] = G(Rest(t))[Rest(t)]
      BY <1>6
    <2>2. h = [t \in SUBSET s |-> IF t = {} THEN 0 ELSE r[OneOf(t)].size + h[t \ {OneOf(t)}]]
      BY <2>1
    <2> HIDE DEF h
    <2> QED BY <2>2 DEF Sums, OneOf
  <1> QED BY <1>2, <1>7

\* A sum over a finite set, one element first.
LEMMA SizesStep ==
  ASSUME NEW r, NEW S, IsFiniteSet(S)
  PROVE  SizesOf(r, S) = IF S = {} THEN 0 ELSE r[OneOf(S)].size + SizesOf(r, S \ {OneOf(S)})
  <1> DEFINE g == CHOOSE f : Sums(r, S, f)
             T == S \ {OneOf(S)}
             h == CHOOSE f : Sums(r, T, f)
  <1>1. IsFiniteSet(T)
    BY FS_Subset
  <1>2. Sums(r, S, g) /\ Sums(r, T, h)
    BY <1>1, SumsExist
  <1>3. SizesOf(r, S) = g[S] /\ SizesOf(r, T) = h[T]
    BY SizesAre
  <1>4. T \in SUBSET S
    OBVIOUS
  <1> HIDE DEF g, h
  <1>5. g[T] = h[T]
    <2> HIDE DEF T
    <2> QED BY <1>2, <1>4, SumsAgree
  <1>6. g[S] = IF S = {} THEN 0 ELSE r[OneOf(S)].size + g[T]
    BY <1>2, SumsAre
  <1> QED BY <1>3, <1>5, <1>6

\* A sum of natural numbers is one.
LEMMA SizesNatural ==
  ASSUME NEW r, NEW S, IsFiniteSet(S), \A i \in S : r[i].size \in Nat
  PROVE  SizesOf(r, S) \in Nat
  <1> DEFINE B == {t \in SUBSET S : SizesOf(r, t) \notin Nat}
  <1> SUFFICES ASSUME B # {} PROVE FALSE
    OBVIOUS
  <1>1. B \in SUBSET SUBSET S
    OBVIOUS
  <1>2. PICK t \in B : \A u \in B : u \subseteq t => u = t
    <2> HIDE DEF B
    <2> QED BY <1>1, SmallestSubset
  <1>3. t \in SUBSET S /\ IsFiniteSet(t) /\ SizesOf(r, t) \notin Nat
    BY <1>2, FS_Subset
  <1>4. t # {} /\ SizesOf(r, t) = r[OneOf(t)].size + SizesOf(r, t \ {OneOf(t)})
    <2>1. SizesOf(r, t) = IF t = {} THEN 0 ELSE r[OneOf(t)].size + SizesOf(r, t \ {OneOf(t)})
      BY <1>3, SizesStep
    <2> HIDE DEF B
    <2> QED BY <1>3, <2>1
  <1>5. OneOf(t) \in t
    BY <1>4, OneOfIsIn
  <1>6. SizesOf(r, t \ {OneOf(t)}) \in Nat
    <2>1. t \ {OneOf(t)} \notin B
      <3> HIDE DEF B
      <3> QED BY <1>2, <1>5
    <2> QED BY <1>3, <2>1
  <1>7. r[OneOf(t)].size \in Nat
    BY <1>3, <1>5
  <1> HIDE DEF B
  <1> QED BY <1>3, <1>4, <1>6, <1>7

\* Any element may be taken first.
LEMMA SizesTake ==
  ASSUME NEW r, NEW S, IsFiniteSet(S), \A i \in S : r[i].size \in Nat
  PROVE  \A x \in S : SizesOf(r, S) = r[x].size + SizesOf(r, S \ {x})
  <1> DEFINE Any(t) == \A x \in t : SizesOf(r, t) = r[x].size + SizesOf(r, t \ {x})
             B == {t \in SUBSET S : ~Any(t)}
  <1> SUFFICES ASSUME B # {} PROVE FALSE
    OBVIOUS
  <1> HIDE DEF Any
  <1>1. B \in SUBSET SUBSET S
    OBVIOUS
  <1>2. PICK t \in B : \A u \in B : u \subseteq t => u = t
    <2> HIDE DEF B
    <2> QED BY <1>1, SmallestSubset
  <1>3. t \in SUBSET S /\ IsFiniteSet(t) /\ ~Any(t)
    BY <1>2, FS_Subset
  <1>4. \A u \in SUBSET S : u \subseteq t /\ u # t => Any(u)
    BY <1>2
  <1> HIDE DEF B
  <1>5. ASSUME NEW x \in t PROVE SizesOf(r, t) = r[x].size + SizesOf(r, t \ {x})
    <2>1. PICK y : y = OneOf(t)
      OBVIOUS
    <2>2. y \in t /\ SizesOf(r, t) = r[y].size + SizesOf(r, t \ {y})
      <3>1. t # {}
        BY <1>5
      <3> QED BY <1>3, <2>1, <3>1, OneOfIsIn, SizesStep
    <2>3. CASE x = y
      BY <2>2, <2>3
    <2>4. CASE x # y
      <3>1. x \in t \ {y} /\ t \ {y} \in SUBSET S /\ t \ {y} # t
        BY <1>3, <1>5, <2>2, <2>4
      <3>2. y \in t \ {x} /\ t \ {x} \in SUBSET S /\ t \ {x} # t
        BY <1>3, <1>5, <2>2, <2>4
      <3>3. SizesOf(r, t \ {y}) = r[x].size + SizesOf(r, (t \ {y}) \ {x})
        BY <1>4, <3>1 DEF Any
      <3>4. SizesOf(r, t \ {x}) = r[y].size + SizesOf(r, (t \ {x}) \ {y})
        BY <1>4, <3>2 DEF Any
      <3>5. (t \ {x}) \ {y} = (t \ {y}) \ {x}
        OBVIOUS
      <3>6. PICK u : u = (t \ {x}) \ {y}
        OBVIOUS
      <3>7. SizesOf(r, u) \in Nat
        <4>1. IsFiniteSet(u) /\ \A i \in u : r[i].size \in Nat
          BY <1>3, <3>6, FS_Subset
        <4> QED BY <4>1, SizesNatural
      <3>8. r[x].size \in Nat /\ r[y].size \in Nat
        BY <1>3, <1>5, <2>2
      <3> QED BY <2>2, <3>3, <3>4, <3>5, <3>6, <3>7, <3>8
    <2> QED BY <2>3, <2>4
  <1> QED BY <1>3, <1>5 DEF Any

\* Fewer and smaller elements have a smaller sum.
LEMMA SizesCovered ==
  ASSUME NEW r, NEW q, NEW S, IsFiniteSet(S), NEW T \in SUBSET S,
         \A i \in S : q[i].size \in Nat,
         \A i \in T : r[i].size \in Nat /\ r[i].size <= q[i].size
  PROVE  SizesOf(r, T) <= SizesOf(q, S)
  <1> DEFINE Fits(t) == SizesOf(r, t \cap T) <= SizesOf(q, t)
             B == {t \in SUBSET S : ~Fits(t)}
  <1> SUFFICES ASSUME B # {} PROVE FALSE
    <2>1. Fits(S)
      OBVIOUS
    <2>2. S \cap T = T
      OBVIOUS
    <2> QED BY <2>1, <2>2
  <1> HIDE DEF Fits
  <1>1. B \in SUBSET SUBSET S
    OBVIOUS
  <1>2. PICK t \in B : \A u \in B : u \subseteq t => u = t
    <2> HIDE DEF B
    <2> QED BY <1>1, SmallestSubset
  <1>3. t \in SUBSET S /\ IsFiniteSet(t) /\ ~Fits(t)
    BY <1>2, FS_Subset
  <1>4. \A u \in SUBSET S : u \subseteq t /\ u # t => Fits(u)
    BY <1>2
  <1> HIDE DEF B
  <1>5. CASE t = {}
    <2>1. SizesOf(r, {}) = 0 /\ SizesOf(q, {}) = 0
      BY FS_EmptySet, SizesStep
    <2>2. t \cap T = {}
      BY <1>5
    <2> QED BY <1>3, <1>5, <2>1, <2>2 DEF Fits
  <1>6. CASE t # {}
    <2>1. PICK x \in t : TRUE
      BY <1>6
    <2>2. PICK u : u = t \ {x}
      OBVIOUS
    <2>3. u \in SUBSET S /\ u \subseteq t /\ u # t /\ IsFiniteSet(u)
      BY <1>3, <2>1, <2>2, FS_Subset
    <2>4. PICK v, w : v = t \cap T /\ w = u \cap T
      OBVIOUS
    <2>5. SizesOf(r, w) <= SizesOf(q, u)
      BY <1>4, <2>3, <2>4 DEF Fits
    <2>6. SizesOf(q, t) = q[x].size + SizesOf(q, u) /\ q[x].size \in Nat
      <3>1. \A i \in t : q[i].size \in Nat
        BY <1>3
      <3> QED BY <1>3, <2>1, <2>2, <3>1, SizesTake
    <2>7. SizesOf(q, u) \in Nat
      <3>1. \A i \in u : q[i].size \in Nat
        BY <2>3
      <3> QED BY <2>3, <3>1, SizesNatural
    <2>8. IsFiniteSet(v) /\ IsFiniteSet(w) /\ \A i \in v \cup w : r[i].size \in Nat
      BY <1>3, <2>3, <2>4, FS_Subset
    <2>9. SizesOf(r, w) \in Nat
      BY <2>8, SizesNatural
    <2>10. SizesOf(r, v) <= q[x].size + SizesOf(r, w)
      <3>1. CASE x \in T
        <4>1. v \ {x} = w /\ x \in v
          BY <2>1, <2>2, <2>4, <3>1
        <4>2. SizesOf(r, v) = r[x].size + SizesOf(r, v \ {x})
          BY <2>8, <4>1, SizesTake
        <4>3. SizesOf(r, v) = r[x].size + SizesOf(r, w)
          BY <4>1, <4>2
        <4>4. r[x].size \in Nat /\ r[x].size <= q[x].size
          BY <3>1
        <4> QED BY <2>6, <2>9, <4>3, <4>4
      <3>2. CASE x \notin T
        <4>1. v = w
          BY <2>2, <2>4, <3>2
        <4> QED BY <2>6, <2>9, <4>1
      <3> QED BY <3>1, <3>2
    <2>11. SizesOf(r, v) \in Nat
      BY <2>8, SizesNatural
    <2>12. SizesOf(r, v) <= SizesOf(q, t)
      BY <2>5, <2>6, <2>7, <2>9, <2>10, <2>11
    <2> QED BY <1>3, <2>4, <2>12 DEF Fits
  <1> QED BY <1>5, <1>6

\* A sum changes as its one element that changes.
LEMMA SizesChange ==
  ASSUME NEW r, NEW q, NEW S, IsFiniteSet(S), NEW x \in S,
         \A i \in S : r[i].size \in Nat /\ q[i].size \in Nat,
         \A i \in S \ {x} : q[i].size <= r[i].size
  PROVE  SizesOf(q, S) + r[x].size <= SizesOf(r, S) + q[x].size
  <1>1. IsFiniteSet(S \ {x})
    BY FS_Subset
  <1>2. PICK T : T = S \ {x}
    OBVIOUS
  <1>3. SizesOf(q, T) <= SizesOf(r, T)
    BY <1>1, <1>2, SizesCovered
  <1>4. SizesOf(q, S) = q[x].size + SizesOf(q, T) /\ SizesOf(r, S) = r[x].size + SizesOf(r, T)
    BY <1>2, SizesTake
  <1>5. SizesOf(q, T) \in Nat /\ SizesOf(r, T) \in Nat
    BY <1>1, <1>2, SizesNatural
  <1>6. r[x].size \in Nat /\ q[x].size \in Nat
    OBVIOUS
  <1> QED BY <1>3, <1>4, <1>5, <1>6

\* A sum of zeros is zero.
LEMMA SizesZero ==
  ASSUME NEW r, NEW S, IsFiniteSet(S), \A i \in S : r[i].size = 0
  PROVE  SizesOf(r, S) = 0
  <1> DEFINE B == {t \in SUBSET S : SizesOf(r, t) # 0}
  <1> SUFFICES ASSUME B # {} PROVE FALSE
    OBVIOUS
  <1>1. B \in SUBSET SUBSET S
    OBVIOUS
  <1>2. PICK t \in B : \A u \in B : u \subseteq t => u = t
    <2> HIDE DEF B
    <2> QED BY <1>1, SmallestSubset
  <1>3. t \in SUBSET S /\ IsFiniteSet(t) /\ SizesOf(r, t) # 0
    BY <1>2, FS_Subset
  <1>4. SizesOf(r, t) = IF t = {} THEN 0 ELSE r[OneOf(t)].size + SizesOf(r, t \ {OneOf(t)})
    BY <1>3, SizesStep
  <1>5. t # {} /\ OneOf(t) \in t
    BY <1>3, <1>4, OneOfIsIn
  <1>6. t \ {OneOf(t)} \notin B
    <2> HIDE DEF B
    <2> QED BY <1>2, <1>5
  <1>7. SizesOf(r, t \ {OneOf(t)}) = 0
    BY <1>3, <1>6
  <1>8. r[OneOf(t)].size = 0
    BY <1>3, <1>5
  <1> HIDE DEF B
  <1> QED BY <1>3, <1>4, <1>5, <1>7, <1>8

-----------------------------------------------------------------------------
(* ActiveCovered: the active counters can be shared out among the images,   *)
(* each visible one getting its bytes, each confirmation about to write its *)
(* size and each deletion about to be charged what they stand for.          *)

\* Only a consumed reservation gives an image its size.
ConfirmedIsConsumed ==
  /\ \A p \in Processes : At(p, "upload") => reservation[Subject(p)] = "consumed"
  /\ \A i \in Images : image[i].size > 0 => reservation[i] = "consumed"

\* One request charges the deletion of an image.
OneCharge ==
  \A p, q \in Processes :
    At(p, "delete_quota") /\ At(q, "delete_quota") /\ Subject(p) = Subject(q) => p = q

Charges(p) == At(p, "delete_quota") /\ request[p].size > 0

\* Shares of activeOriginalBytes ...
Backs(owed) ==
  /\ SizesOf(owed, Images) <= quota["activeOriginalBytes"]
  /\ \A i \in Images : image[i].hidden \/ image[i].size <= owed[i].size
  /\ \A p \in Processes :
       (At(p, "upload") /\ ~image[Subject(p)].hidden) \/ Charges(p)
         => request[p].size <= owed[Subject(p)].size

\* ... and the images activeImageCount counts.
Counts(C) ==
  /\ Cardinality(C) <= quota["activeImageCount"]
  /\ \A i \in Images : ~image[i].hidden /\ reservation[i] = "consumed" => i \in C
  /\ \A p \in Processes : Charges(p) => Subject(p) \in C

Shares == [Images -> [size : Nat]]
BytesBacked == \E owed \in Shares : Backs(owed)
ImagesCounted == \E C \in SUBSET Images : Counts(C)

ActiveInv ==
  /\ ExclusiveInv
  /\ DeletersHide
  /\ ConfirmedIsConsumed
  /\ OneCharge
  /\ BytesBacked
  /\ ImagesCounted

LEMMA ActiveIsCovered == ActiveInv => ActiveCovered
  <1> SUFFICES ASSUME ActiveInv PROVE ActiveCovered
    OBVIOUS
  <1> DEFINE visible == {i \in Images : ~image[i].hidden}
             consumed == {i \in visible : reservation[i] = "consumed"}
  <1>1. TypeInv /\ IsFiniteSet(Images)
    BY UploadAssumption DEF ActiveInv, ExclusiveInv, UploadAssumption
  <1>2. PICK owed \in Shares : Backs(owed)
    BY DEF ActiveInv, BytesBacked
  <1>3. PICK C \in SUBSET Images : Counts(C)
    BY DEF ActiveInv, ImagesCounted
  <1>4. /\ quota["activeImageCount"] \in Nat /\ quota["activeOriginalBytes"] \in Nat
    BY <1>1 DEF TypeInv, TypeOK, Counters
  <1>5. quota["activeImageCount"] >= Cardinality(consumed)
    <2>1. consumed \in SUBSET C
      BY <1>3 DEF Counts
    <2>2. Cardinality(consumed) <= Cardinality(C) /\ Cardinality(C) \in Nat
          /\ Cardinality(consumed) \in Nat
      BY <2>1, SubsetsCount, FS_Subset
    <2>3. Cardinality(C) <= quota["activeImageCount"]
      BY <1>3 DEF Counts
    <2> HIDE DEF consumed
    <2> QED BY <1>4, <2>2, <2>3
  <1>6. quota["activeOriginalBytes"] >= SizesOf(image, visible)
    <2>1. /\ \A i \in Images : owed[i].size \in Nat
          /\ \A i \in visible : image[i].size \in Nat /\ image[i].size <= owed[i].size
      BY <1>1, <1>2, SizeIsNat DEF Shares, Backs
    <2>2. SizesOf(image, visible) <= SizesOf(owed, Images)
      <3> HIDE DEF visible
      <3>1. visible \in SUBSET Images
        BY DEF visible
      <3> QED BY <1>1, <2>1, <3>1, SizesCovered
    <2>3. SizesOf(owed, Images) \in Nat /\ SizesOf(image, visible) \in Nat
      <3>1. IsFiniteSet(visible)
        BY <1>1, FS_Subset
      <3> HIDE DEF visible
      <3> QED BY <1>1, <2>1, <3>1, SizesNatural
    <2>4. SizesOf(owed, Images) <= quota["activeOriginalBytes"]
      BY <1>2 DEF Backs
    <2> HIDE DEF visible
    <2> QED BY <1>4, <2>2, <2>3, <2>4
  <1> QED BY <1>5, <1>6 DEF ActiveCovered, SizesOf

LEMMA ActiveInit == Init => ActiveInv
  <1> SUFFICES ASSUME Init PROVE ActiveInv
    OBVIOUS
  <1>1. ExclusiveInv /\ DeletersHide
    BY SlotInit DEF SlotInv
  <1>2. ConfirmedIsConsumed /\ OneCharge
    BY DEF Init, NoRequest, ConfirmedIsConsumed, OneCharge, At
  <1>3. \A p \in Processes : ~At(p, "upload") /\ ~Charges(p)
    BY DEF Init, NoRequest, Charges, At
  <1>4. BytesBacked
    <2> DEFINE owed == [i \in Images |-> [size |-> 0]]
    <2>1. SizesOf(owed, Images) <= 0
      <3>1. IsFiniteSet(Images)
        BY UploadAssumption DEF UploadAssumption
      <3>2. \A i \in Images : owed[i].size = 0
        OBVIOUS
      <3> HIDE DEF owed
      <3> QED BY <3>1, <3>2, SizesZero
    <2> QED BY <1>3, <2>1 DEF Init, Counters, Backs, BytesBacked, Shares
  <1>5. ImagesCounted
    <2>1. Counts({})
      BY <1>3, FS_EmptySet DEF Init, Counters, Counts
    <2> QED BY <2>1 DEF ImagesCounted
  <1> QED BY <1>1, <1>2, <1>4, <1>5 DEF ActiveInv

\* What most steps leave: a reservation is consumed and a confirmation gets to
\* its upload nowhere else, and the active counters lose nothing.
SizesKept ==
  \A i \in Images :
    /\ image[i].hidden => image'[i].hidden
    /\ \/ image'[i].size = image[i].size
       \/ \E p \in Processes : At(p, "upload") /\ Subject(p) = i
                                 /\ image'[i].size = request[p].size

ConsumedKept ==
  \A i \in Images : reservation'[i] = "consumed" <=> reservation[i] = "consumed"

RequestsKept ==
  \A p \in Processes :
    /\ request'[p].step = "upload" => request'[p] = request[p]
    /\ request'[p].step = "delete_quota" =>
         \/ request'[p] = request[p]
         \/ /\ ~image[request'[p].image].hidden
            /\ request'[p].image \in Images
            /\ request'[p].size = image[request'[p].image].size
            /\ \A q \in Processes \ {p} : request'[q] = request[q]

CountersKept ==
  /\ quota'["activeImageCount"] >= quota["activeImageCount"]
  /\ quota'["activeOriginalBytes"] >= quota["activeOriginalBytes"]

KeepsShares == SizesKept /\ ConsumedKept /\ RequestsKept /\ CountersKept

LEMMA ConfirmedKept ==
  ASSUME TypeInv, ConfirmedIsConsumed, KeepsShares
  PROVE  ConfirmedIsConsumed'
  <1>1. \A p \in Processes : At(p, "upload") => Subject(p) \in Images
    BY SubjectType DEF At
  <1>2. ASSUME NEW p \in Processes, At(p, "upload")' PROVE (reservation[Subject(p)] = "consumed")'
    <2>1. request'[p] = request[p] /\ At(p, "upload")
      BY <1>2 DEF KeepsShares, RequestsKept, At
    <2>2. reservation[Subject(p)] = "consumed" /\ Subject(p) \in Images
      BY <1>1, <2>1 DEF ConfirmedIsConsumed
    <2> QED BY <2>1, <2>2 DEF KeepsShares, ConsumedKept, Subject
  <1>3. ASSUME NEW i \in Images, image'[i].size > 0 PROVE reservation'[i] = "consumed"
    <2>1. reservation[i] = "consumed"
      BY <1>3 DEF KeepsShares, SizesKept, ConfirmedIsConsumed
    <2> QED BY <2>1 DEF KeepsShares, ConsumedKept
  <1> QED BY <1>2, <1>3 DEF ConfirmedIsConsumed

LEMMA OneChargeKept ==
  ASSUME TypeInv, DeletersHide, OneCharge, KeepsShares
  PROVE  OneCharge'
  <1> SUFFICES ASSUME NEW p \in Processes, NEW q \in Processes, p # q,
                      request'[p].step = "delete_quota", request'[q].step = "delete_quota",
                      request'[p].image = request'[q].image
               PROVE  FALSE
    BY DEF OneCharge, At, Subject
  <1>1. ~(request'[p] = request[p] /\ request'[q] = request[q])
    BY DEF OneCharge, At, Subject
  <1>2. ASSUME NEW r \in Processes, NEW s \in Processes, r # s, request'[r] # request[r],
               request'[r].step = "delete_quota", request'[s].step = "delete_quota",
               request'[r].image = request'[s].image
        PROVE  FALSE
    <2>1. /\ ~image[request'[r].image].hidden
          /\ request'[s] = request[s]
      BY <1>2 DEF KeepsShares, RequestsKept
    <2>2. image[request[s].image].hidden
      BY <1>2, <2>1 DEF DeletersHide, DeleteStep, Subject
    <2> QED BY <1>2, <2>1, <2>2
  <1> QED BY <1>1, <1>2

LEMMA BacksKept ==
  ASSUME TypeInv, TypeInv', DeletersHide, KeepsShares, BytesBacked
  PROVE  BytesBacked'
  <1>1. PICK owed \in Shares : Backs(owed)
    BY DEF BytesBacked
  <1>2. SizesOf(owed, Images) <= quota'["activeOriginalBytes"]
    <2>1. IsFiniteSet(Images) /\ \A i \in Images : owed[i].size \in Nat
      BY UploadAssumption DEF UploadAssumption, Shares
    <2>2. SizesOf(owed, Images) \in Nat
      BY <2>1, SizesNatural
    <2>3. /\ SizesOf(owed, Images) <= quota["activeOriginalBytes"]
          /\ quota["activeOriginalBytes"] \in Nat
          /\ quota'["activeOriginalBytes"] >= quota["activeOriginalBytes"]
          /\ quota'["activeOriginalBytes"] \in Nat
      BY <1>1 DEF Backs, TypeInv, TypeOK, Counters, KeepsShares, CountersKept
    <2> QED BY <2>2, <2>3
  <1>3. ASSUME NEW i \in Images, ~image'[i].hidden PROVE image'[i].size <= owed[i].size
    <2>1. ~image[i].hidden
      BY <1>3 DEF KeepsShares, SizesKept
    <2>2. CASE image'[i].size = image[i].size
      BY <1>1, <2>1, <2>2 DEF Backs
    <2>3. ASSUME NEW p \in Processes, At(p, "upload"), Subject(p) = i,
                 image'[i].size = request[p].size
          PROVE  image'[i].size <= owed[i].size
      BY <1>1, <2>1, <2>3 DEF Backs
    <2> QED BY <2>2, <2>3 DEF KeepsShares, SizesKept
  <1>4. ASSUME NEW p \in Processes, (At(p, "upload") /\ ~image[Subject(p)].hidden)'
        PROVE  (request[p].size <= owed[Subject(p)].size)'
    <2>1. request'[p] = request[p] /\ At(p, "upload")
      BY <1>4 DEF KeepsShares, RequestsKept, At
    <2>2. Subject(p) \in Images
      BY <2>1, SubjectType DEF At
    <2>3. ~image[Subject(p)].hidden
      BY <1>4, <2>1, <2>2 DEF KeepsShares, SizesKept, Subject
    <2>4. request[p].size <= owed[Subject(p)].size
      BY <1>1, <2>1, <2>3 DEF Backs
    <2> QED BY <2>1, <2>4 DEF Subject
  <1>5. ASSUME NEW p \in Processes, Charges(p)'
        PROVE  (request[p].size <= owed[Subject(p)].size)'
    <2>1. CASE request'[p] = request[p]
      <3>1. Charges(p)
        BY <1>5, <2>1 DEF Charges, At
      <3>2. request[p].size <= owed[Subject(p)].size
        BY <1>1, <3>1 DEF Backs
      <3> QED BY <2>1, <3>2 DEF Subject
    <2>2. CASE request'[p] # request[p]
      <3>1. /\ ~image[request'[p].image].hidden /\ request'[p].image \in Images
            /\ request'[p].size = image[request'[p].image].size
        BY <1>5, <2>2 DEF KeepsShares, RequestsKept, Charges, At
      <3>2. image[request'[p].image].size <= owed[request'[p].image].size
        BY <1>1, <3>1 DEF Backs
      <3> QED BY <3>1, <3>2 DEF Subject
    <2> QED BY <2>1, <2>2
  <1>6. Backs(owed)'
    BY <1>2, <1>3, <1>4, <1>5 DEF Backs
  <1> QED BY <1>6 DEF BytesBacked, Shares

LEMMA CountsKept ==
  ASSUME TypeInv, TypeInv', DeletersHide, ConfirmedIsConsumed, KeepsShares, ImagesCounted
  PROVE  ImagesCounted'
  <1>1. PICK C \in SUBSET Images : Counts(C)
    BY DEF ImagesCounted
  <1>2. Cardinality(C) <= quota'["activeImageCount"]
    <2>1. Cardinality(C) \in Nat /\ Cardinality(C) <= quota["activeImageCount"]
          /\ quota["activeImageCount"] \in Nat
          /\ quota'["activeImageCount"] >= quota["activeImageCount"]
          /\ quota'["activeImageCount"] \in Nat
      BY <1>1, SubsetsCount DEF Counts, TypeInv, TypeOK, Counters, KeepsShares, CountersKept
    <2> QED BY <2>1
  <1>3. ASSUME NEW i \in Images, ~image'[i].hidden, reservation'[i] = "consumed" PROVE i \in C
    BY <1>1, <1>3 DEF Counts, KeepsShares, SizesKept, ConsumedKept
  <1>4. ASSUME NEW p \in Processes, Charges(p)' PROVE (Subject(p) \in C)'
    <2>1. CASE request'[p] = request[p]
      BY <1>1, <1>4, <2>1 DEF Counts, Charges, At, Subject
    <2>2. CASE request'[p] # request[p]
      <3>1. /\ ~image[request'[p].image].hidden /\ request'[p].image \in Images
            /\ request'[p].size = image[request'[p].image].size /\ request'[p].size > 0
        BY <1>4, <2>2 DEF KeepsShares, RequestsKept, Charges, At
      <3>2. reservation[request'[p].image] = "consumed"
        BY <3>1 DEF ConfirmedIsConsumed
      <3>3. request'[p].image \in C
        BY <1>1, <3>1, <3>2 DEF Counts
      <3> QED BY <3>3 DEF Subject
    <2> QED BY <2>1, <2>2
  <1>5. Counts(C)'
    BY <1>2, <1>3, <1>4 DEF Counts
  <1> QED BY <1>5 DEF ImagesCounted


-----------------------------------------------------------------------------
(* The steps that leave the shares as they are *)

LEMMA StatusKeepsSizes ==
  ASSUME TypeInv, NEW i \in Images, NEW st, SetStatus(i, st)
  PROVE  SizesKept
  BY DEF TypeInv, TypeOK, SetStatus, SizesKept

LEMMA BecomeKeepsRequests ==
  ASSUME TypeInv, NEW p \in Processes, NEW r, Become(p, r),
         r.step \notin {"upload", "delete_quota"}
  PROVE  RequestsKept
  BY DEF TypeInv, TypeOK, Become, RequestsKept

LEMMA DoneKeepsRequests ==
  ASSUME TypeInv, NEW p \in Processes, Done(p)
  PROVE  RequestsKept
  BY BecomeKeepsRequests DEF Done, NoRequest

LEMMA GotoKeepsRequests ==
  ASSUME TypeInv, NEW p \in Processes, NEW step, Goto(p, step),
         step \notin {"upload", "delete_quota"}
  PROVE  RequestsKept
  <1>1. request \in [Processes -> Request]
    BY DEF TypeInv, TypeOK
  <1> QED BY <1>1 DEF Goto, Request, RequestsKept

LEMMA BumpKeepsCounters ==
  ASSUME TypeInv, NEW d, Bump(d), d["activeImageCount"] = 0, d["activeOriginalBytes"] = 0
  PROVE  CountersKept
  <1>1. quota["activeImageCount"] \in Nat /\ quota["activeOriginalBytes"] \in Nat
    BY DEF TypeInv, TypeOK, Counters
  <1>2. /\ quota'["activeImageCount"] = quota["activeImageCount"]
        /\ quota'["activeOriginalBytes"] = quota["activeOriginalBytes"]
    BY <1>1 DEF Bump, Counters
  <1> QED BY <1>1, <1>2 DEF CountersKept

LEMMA ReservedKeepsCounters ==
  ASSUME TypeInv, NEW n, Bump(Reserved(n))
  PROVE  CountersKept
  <1>1. Reserved(n)["activeImageCount"] = 0 /\ Reserved(n)["activeOriginalBytes"] = 0
    BY DEF Reserved, NoDelta, Counters
  <1> HIDE DEF Reserved
  <1> QED BY <1>1, BumpKeepsCounters

LEMMA SameKeepsShares ==
  ASSUME TypeInv
  PROVE  /\ image' = image => SizesKept
         /\ reservation' = reservation => ConsumedKept
         /\ request' = request => RequestsKept
         /\ quota' = quota => CountersKept
  <1>1. quota["activeImageCount"] \in Nat /\ quota["activeOriginalBytes"] \in Nat
    BY DEF TypeInv, TypeOK, Counters
  <1> QED BY <1>1 DEF SizesKept, ConsumedKept, RequestsKept, CountersKept

LEMMA ReleaseKeepsShares ==
  ASSUME TypeInv, NEW i \in Images, Release(i)
  PROVE  ConsumedKept /\ CountersKept
  <1>1. CASE UNCHANGED <<reservation, quota>>
    BY <1>1, SameKeepsShares
  <1>2. CASE reservation[i] = "reserved" /\ SetReservation(i, "cancelled") /\ Bump(Reserved(-1))
    <2>1. ConsumedKept
      BY <1>2 DEF SetReservation, ConsumedKept, TypeInv, TypeOK
    <2> QED BY <1>2, <2>1, ReservedKeepsCounters
  <1> QED BY <1>1, <1>2 DEF Release

LEMMA AuthorizeKeepsShares ==
  ASSUME TypeInv, NEW p \in Processes,
         \/ \E batch \in SUBSET FreshIds \ {{}} : ReserveNewUploads(p, batch)
         \/ InsertPendingImage(p) \/ CreateUploadTarget(p) \/ ReleaseUnauthorized(p)
         \/ MarkUnauthorized(p) \/ AuthorizeReturns(p)
  PROVE  KeepsShares
  <1> USE SubjectType, SameKeepsShares DEF At, KeepsShares
  <1>1. ASSUME NEW batch \in SUBSET FreshIds \ {{}}, ReserveNewUploads(p, batch)
        PROVE  KeepsShares
    <2> DEFINE r == [NoRequest EXCEPT !.step = "insert", !.todo = batch]
    <2>1. r.step \notin {"upload", "delete_quota"}
      BY DEF NoRequest
    <2>2. Become(p, r) /\ image' = image
      BY <1>1 DEF ReserveNewUploads, OnlyQuota
    <2> HIDE DEF r
    <2>3. RequestsKept /\ SizesKept
      BY <2>1, <2>2, BecomeKeepsRequests
    <2>4. ConsumedKept
      BY <1>1 DEF ReserveNewUploads, FreshIds, ConsumedKept
    <2>5. CountersKept
      BY <1>1, ReservedKeepsCounters DEF ReserveNewUploads
    <2> QED BY <2>3, <2>4, <2>5
  <1>2. CASE InsertPendingImage(p)
    <2>1. PICK i \in request[p].todo :
            \/ /\ SetStatus(i, "pending_upload")
               /\ Become(p, [request[p] EXCEPT !.step = "sign", !.image = i,
                                               !.todo = @ \ {i}])
            \/ /\ UNCHANGED image
               /\ Become(p, [request[p] EXCEPT !.step = "release", !.image = i,
                                               !.todo = @ \ {i}])
      BY <1>2 DEF InsertPendingImage
    <2> DEFINE r(step) == [request[p] EXCEPT !.step = step, !.image = i, !.todo = @ \ {i}]
    <2>2. i \in Images /\ r("sign").step = "sign" /\ r("release").step = "release"
      BY DEF Request
    <2>3. Become(p, r("sign")) \/ Become(p, r("release"))
      BY <2>1
    <2> HIDE DEF r
    <2>4. SizesKept
      BY <2>1, <2>2, StatusKeepsSizes
    <2>5. RequestsKept
      BY <2>2, <2>3, BecomeKeepsRequests
    <2> QED BY <1>2, <2>4, <2>5 DEF InsertPendingImage, OnlyImage
  <1>3. CASE CreateUploadTarget(p)
    <2>1. RequestsKept
      BY <1>3, GotoKeepsRequests DEF CreateUploadTarget
    <2> QED BY <1>3, <2>1 DEF CreateUploadTarget
  <1>4. CASE ReleaseUnauthorized(p)
    <2>1. RequestsKept
      BY <1>4, GotoKeepsRequests DEF ReleaseUnauthorized
    <2> QED BY <1>4, <2>1, ReleaseKeepsShares DEF ReleaseUnauthorized, OnlyQuota
  <1>5. CASE MarkUnauthorized(p)
    <2>1. RequestsKept
      BY <1>5, GotoKeepsRequests DEF MarkUnauthorized
    <2>2. SizesKept
      BY <1>5, StatusKeepsSizes DEF MarkUnauthorized
    <2> QED BY <1>5, <2>1, <2>2 DEF MarkUnauthorized, OnlyImage
  <1>6. CASE AuthorizeReturns(p)
    BY <1>6, DoneKeepsRequests DEF AuthorizeReturns, OnlyRequest
  <1> QED BY <1>1, <1>2, <1>3, <1>4, <1>5, <1>6

LEMMA ConfirmKeepsShares ==
  ASSUME TypeInv, NEW p \in Processes,
         \/ \E i \in Images : UploadOriginal(i) \/ Expire(i) \/ CheckConfirm(p, i)
         \/ ReadObjectMetadata(p) \/ MarkImageUploaded(p)
         \/ MarkImageUploadFailed(p) \/ DropRejectedObject(p)
  PROVE  KeepsShares
  <1> USE SubjectType, SameKeepsShares DEF At, KeepsShares
  <1>1. ASSUME NEW i \in Images, UploadOriginal(i) \/ Expire(i)
        PROVE  KeepsShares
    <2>1. UNCHANGED <<image, quota, request>> /\ reservation' = reservation
      BY <1>1 DEF UploadOriginal, Expire, OnlyObject
    <2> QED BY <2>1
  <1>2. ASSUME NEW i \in Images, CheckConfirm(p, i)
        PROVE  KeepsShares
    <2> DEFINE r == [NoRequest EXCEPT !.step = IF expired[i] THEN "fail" ELSE "head", !.image = i]
    <2>1. r.step \notin {"upload", "delete_quota"}
      BY DEF NoRequest
    <2>2. Become(p, r) /\ UNCHANGED <<image, reservation, quota>>
      BY <1>2 DEF CheckConfirm, Start, OnlyRequest
    <2> HIDE DEF r
    <2> QED BY <2>1, <2>2, BecomeKeepsRequests
  <1>3. CASE ReadObjectMetadata(p)
    <2> DEFINE r == [request[p] EXCEPT !.step = "consume", !.size = original[Subject(p)]]
    <2>1. r.step = "consume"
      BY DEF Request
    <2>2. (Goto(p, "fail") \/ Goto(p, "reject") \/ Become(p, r))
          /\ UNCHANGED <<image, reservation, quota>>
      BY <1>3 DEF ReadObjectMetadata, OnlyRequest
    <2> HIDE DEF r
    <2> QED BY <2>1, <2>2, BecomeKeepsRequests, GotoKeepsRequests
  <1>4. CASE MarkImageUploaded(p)
    <2>1. SizesKept
      BY <1>4 DEF MarkImageUploaded, TypeInv, TypeOK, SizesKept
    <2>2. RequestsKept
      BY <1>4, GotoKeepsRequests, DoneKeepsRequests DEF MarkImageUploaded
    <2> QED BY <1>4, <2>1, <2>2 DEF MarkImageUploaded, OnlyImage
  <1>5. CASE MarkImageUploadFailed(p)
    <2>1. SizesKept
      BY <1>5, StatusKeepsSizes DEF MarkImageUploadFailed
    <2>2. RequestsKept
      BY <1>5, GotoKeepsRequests, DoneKeepsRequests DEF MarkImageUploadFailed
    <2> QED BY <1>5, <2>1, <2>2 DEF MarkImageUploadFailed, OnlyImage
  <1>6. CASE DropRejectedObject(p)
    <2>1. RequestsKept
      BY <1>6, DoneKeepsRequests DEF DropRejectedObject
    <2> QED BY <1>6, <2>1 DEF DropRejectedObject, OnlyObject
  <1> QED BY <1>1, <1>2, <1>3, <1>4, <1>5, <1>6

LEMMA DeleteKeepsShares ==
  ASSUME TypeInv, NEW p \in Processes,
         \/ \E i \in Images : AcquireImageDeletion(p, i) \/ RetryDeletionCleanup(p, i)
         \/ FindPendingReservation(p) \/ ReleasePending(p)
         \/ ReleasePendingSlot(p) \/ MarkStorageDeleting(p) \/ DeleteOriginal(p)
         \/ VerifyAbsent(p) \/ MarkImageDeletedComplete(p) \/ UnchargeCleanup(p)
         \/ MarkDeletionFailed(p) \/ RequestDies(p)
  PROVE  KeepsShares
  <1> USE SubjectType, SameKeepsShares DEF At, KeepsShares
  <1>1. ASSUME NEW i \in Images, AcquireImageDeletion(p, i) PROVE KeepsShares
    <2> DEFINE r == [NoRequest EXCEPT !.step = "delete_quota", !.image = i, !.size = image[i].size]
    <2>1. r.image = i /\ r.size = image[i].size /\ r.step = "delete_quota" /\ Become(p, r)
          /\ ~image[i].hidden
      BY <1>1 DEF AcquireImageDeletion, NoRequest
    <2> HIDE DEF r
    <2>2. RequestsKept
      BY <2>1 DEF RequestsKept, Become, TypeInv, TypeOK
    <2>3. SizesKept
      BY <1>1 DEF AcquireImageDeletion, SizesKept, TypeInv, TypeOK
    <2> QED BY <1>1, <2>2, <2>3 DEF AcquireImageDeletion, OnlyImage
  <1>2. ASSUME NEW i \in Images, RetryDeletionCleanup(p, i) PROVE KeepsShares
    <2> DEFINE r == [NoRequest EXCEPT !.step = "delete_mark", !.image = i]
    <2>1. r.step = "delete_mark" /\ Become(p, r) /\ UNCHANGED <<image, reservation, quota>>
      BY <1>2 DEF RetryDeletionCleanup, Start, OnlyRequest, NoRequest
    <2> HIDE DEF r
    <2> QED BY <2>1, BecomeKeepsRequests
  <1>3. CASE FindPendingReservation(p)
    <2>1. Goto(p, "delete_release") \/ Goto(p, "delete_slot")
      BY <1>3 DEF FindPendingReservation
    <2> QED BY <1>3, <2>1, GotoKeepsRequests DEF FindPendingReservation, OnlyRequest
  <1>4. CASE ReleasePending(p)
    <2>1. RequestsKept
      BY <1>4, GotoKeepsRequests DEF ReleasePending
    <2> QED BY <1>4, <2>1, ReleaseKeepsShares DEF ReleasePending, OnlyQuota
  <1>5. CASE ReleasePendingSlot(p)
    <2>1. RequestsKept
      BY <1>5, GotoKeepsRequests DEF ReleasePendingSlot
    <2>2. CountersKept
      BY <1>5, ReservedKeepsCounters DEF ReleasePendingSlot
    <2> QED BY <1>5, <2>1, <2>2 DEF ReleasePendingSlot, OnlyQuota
  <1>6. CASE MarkStorageDeleting(p)
    <2>1. SizesKept
      BY <1>6, StatusKeepsSizes DEF MarkStorageDeleting
    <2>2. RequestsKept
      BY <1>6, GotoKeepsRequests, DoneKeepsRequests DEF MarkStorageDeleting
    <2> QED BY <1>6, <2>1, <2>2 DEF MarkStorageDeleting, OnlyImage
  <1>7. CASE DeleteOriginal(p)
    <2>1. RequestsKept
      BY <1>7, GotoKeepsRequests DEF DeleteOriginal
    <2> QED BY <1>7, <2>1 DEF DeleteOriginal, OnlyObject
  <1>8. CASE VerifyAbsent(p)
    <2>1. RequestsKept
      BY <1>8, GotoKeepsRequests DEF VerifyAbsent
    <2> QED BY <1>8, <2>1 DEF VerifyAbsent, OnlyRequest
  <1>9. CASE MarkImageDeletedComplete(p)
    <2>1. SizesKept
      BY <1>9 DEF MarkImageDeletedComplete, SizesKept, TypeInv, TypeOK
    <2>2. RequestsKept
      BY <1>9, GotoKeepsRequests DEF MarkImageDeletedComplete
    <2> QED BY <1>9, <2>1, <2>2 DEF MarkImageDeletedComplete, OnlyImage
  <1>10. CASE UnchargeCleanup(p)
    <2>1. RequestsKept
      BY <1>10, DoneKeepsRequests DEF UnchargeCleanup
    <2>2. CountersKept
      <3> DEFINE d == [NoDelta EXCEPT !["cleanupPendingBytes"] = -TrustedBytes(Subject(p))]
      <3>1. d["activeImageCount"] = 0 /\ d["activeOriginalBytes"] = 0
        BY DEF NoDelta, Counters
      <3>2. Bump(d) \/ UNCHANGED quota
        BY <1>10 DEF UnchargeCleanup
      <3> HIDE DEF d
      <3> QED BY <3>1, <3>2, BumpKeepsCounters
    <2> QED BY <1>10, <2>1, <2>2 DEF UnchargeCleanup, OnlyQuota
  <1>11. CASE MarkDeletionFailed(p)
    <2>1. SizesKept
      BY <1>11 DEF MarkDeletionFailed, SizesKept, TypeInv, TypeOK
    <2>2. RequestsKept
      BY <1>11, DoneKeepsRequests DEF MarkDeletionFailed
    <2> QED BY <1>11, <2>1, <2>2 DEF MarkDeletionFailed, OnlyImage
  <1>12. CASE RequestDies(p)
    <2>1. RequestsKept
      BY <1>12, DoneKeepsRequests DEF RequestDies
    <2> QED BY <1>12, <2>1 DEF RequestDies
  <1> QED BY <1>1, <1>2, <1>3, <1>4, <1>5, <1>6, <1>7, <1>8, <1>9, <1>10, <1>11, <1>12

-----------------------------------------------------------------------------
(* Consuming a reservation adds to the shares of its image, charging a       *)
(* deletion takes from them.                                                *)

\* consumeNewUploadReservation, when it finds a row it may consume.
Consumes(p) ==
  /\ At(p, "consume")
  /\ reservation[Subject(p)] = "reserved"
  /\ SetReservation(Subject(p), "consumed")
  /\ Bump([Reserved(-1) EXCEPT !["activeImageCount"] = 1,
                               !["activeOriginalBytes"] = request[p].size])
  /\ Goto(p, "upload")
  /\ OnlyQuota

LEMMA ConsumeCases ==
  ASSUME TypeInv, NEW p \in Processes, ConsumeNewUploadReservation(p), ~Consumes(p)
  PROVE  KeepsShares
  <1>1. Subject(p) \in Images
    BY SubjectType DEF ConsumeNewUploadReservation, At
  <1>2. Goto(p, "reject") /\ UNCHANGED <<image, quota>>
        /\ (reservation' = reservation
              \/ (reservation[Subject(p)] = "reserved" /\ SetReservation(Subject(p), "expired")))
    BY DEF ConsumeNewUploadReservation, Consumes, OnlyQuota
  <1>3. ConsumedKept
    BY <1>1, <1>2 DEF SetReservation, ConsumedKept, TypeInv, TypeOK
  <1> QED BY <1>2, <1>3, GotoKeepsRequests, SameKeepsShares DEF KeepsShares

LEMMA ConsumeCounters ==
  ASSUME TypeInv, NEW p \in Processes, Consumes(p)
  PROVE  /\ quota'["activeImageCount"] = quota["activeImageCount"] + 1
         /\ quota'["activeOriginalBytes"] = quota["activeOriginalBytes"] + request[p].size
  <1> DEFINE d == [Reserved(-1) EXCEPT !["activeImageCount"] = 1,
                                       !["activeOriginalBytes"] = request[p].size]
  <1>1. d["activeImageCount"] = 1 /\ d["activeOriginalBytes"] = request[p].size
    BY DEF Reserved, NoDelta, Counters
  <1>2. Bump(d)
    BY DEF Consumes
  <1>3. /\ request[p].size \in Nat /\ quota["activeImageCount"] \in Nat
        /\ quota["activeOriginalBytes"] \in Nat
    BY SizeIsNat DEF TypeInv, TypeOK, Counters
  <1> HIDE DEF d
  <1> QED BY <1>1, <1>2, <1>3 DEF Bump, Counters

LEMMA ConsumeShares ==
  ASSUME TypeInv, DeletersHide, ConfirmedIsConsumed, OneCharge, BytesBacked, ImagesCounted,
         NEW p \in Processes, Consumes(p)
  PROVE  ConfirmedIsConsumed' /\ OneCharge' /\ BytesBacked' /\ ImagesCounted'
  <1> DEFINE i == Subject(p)
             n == request[p].size
  <1>1. i \in Images /\ n \in Nat /\ image' = image
    BY SubjectType, SizeIsNat DEF Consumes, At, OnlyQuota
  <1>2. /\ request'[p].image = i /\ request'[p].size = n /\ request'[p].step = "upload"
        /\ \A q \in Processes \ {p} : request'[q] = request[q]
    <2>1. request \in [Processes -> Request]
      BY DEF TypeInv, TypeOK
    <2> QED BY <2>1 DEF Consumes, Goto, Request, Subject
  <1>3. /\ reservation'[i] = "consumed"
        /\ \A j \in Images \ {i} : reservation'[j] = reservation[j]
    BY <1>1 DEF Consumes, SetReservation, TypeInv, TypeOK
  <1>4. \A q \in Processes : /\ request'[q].step = "delete_quota" => request'[q] = request[q]
                             /\ Charges(q)' => Charges(q) /\ request'[q] = request[q]
    BY <1>2 DEF Charges, At
  <1>5. \A q \in Processes : At(q, "upload") => Subject(q) \in Images
    BY SubjectType DEF At
  <1> HIDE DEF i, n
  <1>6. ConfirmedIsConsumed'
    <2>1. ASSUME NEW q \in Processes, At(q, "upload")' PROVE (reservation[Subject(q)] = "consumed")'
      BY <1>1, <1>2, <1>3, <1>5, <2>1 DEF ConfirmedIsConsumed, At, Subject
    <2>2. ASSUME NEW j \in Images, image'[j].size > 0 PROVE reservation'[j] = "consumed"
      BY <1>1, <1>3, <2>2 DEF ConfirmedIsConsumed
    <2> QED BY <2>1, <2>2 DEF ConfirmedIsConsumed
  <1>7. OneCharge'
    BY <1>4 DEF OneCharge, At, Subject
  <1>8. BytesBacked'
    <2>1. PICK owed \in Shares : Backs(owed)
      BY DEF BytesBacked
    <2>2. owed[i] \in [size : Nat] /\ \A j \in Images : owed[j].size \in Nat
      BY <1>1, <2>1 DEF Shares
    <2>3. PICK more : more = [owed EXCEPT ![i] = [size |-> owed[i].size + n]]
      OBVIOUS
    <2>4. /\ more \in Shares /\ more[i].size = owed[i].size + n
          /\ \A j \in Images \ {i} : more[j].size = owed[j].size
          /\ \A j \in Images : more[j].size \in Nat /\ owed[j].size <= more[j].size
      BY <1>1, <2>1, <2>2, <2>3 DEF Shares
    <2>5. SizesOf(more, Images) <= quota'["activeOriginalBytes"]
      <3>1. IsFiniteSet(Images) /\ \A j \in Images \ {i} : more[j].size <= owed[j].size
        BY <2>2, <2>4, UploadAssumption DEF UploadAssumption
      <3>2. SizesOf(more, Images) + owed[i].size <= SizesOf(owed, Images) + more[i].size
        BY <1>1, <2>2, <2>4, <3>1, SizesChange
      <3>3. SizesOf(more, Images) \in Nat /\ SizesOf(owed, Images) \in Nat
        BY <2>2, <2>4, <3>1, SizesNatural
      <3>4. /\ SizesOf(owed, Images) <= quota["activeOriginalBytes"]
            /\ quota["activeOriginalBytes"] \in Nat
            /\ quota'["activeOriginalBytes"] = quota["activeOriginalBytes"] + n
        BY <2>1, ConsumeCounters DEF Backs, TypeInv, TypeOK, Counters, n
      <3> QED BY <1>1, <2>2, <2>4, <3>2, <3>3, <3>4
    <2>6. \A j \in Images : image'[j].hidden \/ image'[j].size <= more[j].size
      <3>1. \A j \in Images : image[j].size \in Nat
        BY SizeIsNat
      <3>2. \A j \in Images : image[j].hidden \/ image[j].size <= owed[j].size
        BY <2>1 DEF Backs
      <3> QED BY <1>1, <2>2, <2>4, <3>1, <3>2
    <2>7. ASSUME NEW q \in Processes,
                 ((At(q, "upload") /\ ~image[Subject(q)].hidden) \/ Charges(q))'
          PROVE  (request[q].size <= more[Subject(q)].size)'
      <3>1. CASE q = p
        BY <1>1, <1>2, <2>2, <2>4, <3>1 DEF Subject
      <3>2. CASE q # p
        <4>1. request'[q] = request[q] /\ request[q].size \in Nat
          BY <1>2, <3>2, SizeIsNat
        <4>2. (At(q, "upload") /\ ~image[Subject(q)].hidden) \/ Charges(q)
          BY <1>1, <2>7, <4>1 DEF At, Charges, Subject
        <4>3. Subject(q) \in Images /\ request[q].size <= owed[Subject(q)].size
          BY <2>1, <4>2, SubjectType DEF Backs, At, Charges
        <4>4. request[q].size <= more[Subject(q)].size
          BY <2>2, <2>4, <4>1, <4>3
        <4> QED BY <4>1, <4>4 DEF Subject
      <3> QED BY <3>1, <3>2
    <2>8. Backs(more)'
      BY <2>5, <2>6, <2>7 DEF Backs
    <2> QED BY <2>4, <2>8 DEF BytesBacked, Shares
  <1>9. ImagesCounted'
    <2>1. PICK C \in SUBSET Images : Counts(C)
      BY DEF ImagesCounted
    <2>2. Cardinality(C \cup {i}) <= quota'["activeImageCount"]
      <3>1. /\ IsFiniteSet(C) /\ Cardinality(C) \in Nat
            /\ Cardinality(C \cup {i}) = IF i \in C THEN Cardinality(C) ELSE Cardinality(C) + 1
        BY SubsetsCount, FS_AddElement
      <3>2. /\ Cardinality(C) <= quota["activeImageCount"] /\ quota["activeImageCount"] \in Nat
            /\ quota'["activeImageCount"] = quota["activeImageCount"] + 1
        BY <2>1, ConsumeCounters DEF Counts, TypeInv, TypeOK, Counters
      <3> QED BY <3>1, <3>2
    <2>3. PICK D : D = C \cup {i}
      OBVIOUS
    <2>4. \A j \in Images : ~image'[j].hidden /\ reservation'[j] = "consumed" => j \in D
      BY <2>3, <1>1, <1>3, <2>1 DEF Counts
    <2>5. \A q \in Processes : Charges(q)' => (Subject(q) \in D)'
      BY <2>3, <1>4, <2>1 DEF Counts, Subject
    <2>6. Counts(D)'
      BY <2>2, <2>3, <2>4, <2>5 DEF Counts
    <2> QED BY <1>1, <2>3, <2>6 DEF ImagesCounted
  <1> QED BY <1>6, <1>7, <1>8, <1>9

\* onDeleteAcquired, when its transaction commits.
ChargesCounters(p) ==
  Bump([NoDelta EXCEPT !["activeImageCount"] = -1, !["activeOriginalBytes"] = -request[p].size,
                       !["cleanupPendingBytes"] = request[p].size])

LEMMA UnchargedKeepsShares ==
  ASSUME TypeInv, NEW p \in Processes, ChargeCleanup(p), ~ChargesCounters(p)
  PROVE  KeepsShares
  <1>1. /\ UNCHANGED <<image, reservation, quota>>
        /\ Goto(p, "delete_mark")
    BY DEF ChargeCleanup, ChargesCounters, OnlyQuota
  <1> QED BY <1>1, GotoKeepsRequests, SameKeepsShares DEF KeepsShares

LEMMA ChargeCounters ==
  ASSUME TypeInv, NEW p \in Processes, ChargesCounters(p)
  PROVE  /\ quota'["activeImageCount"] >= quota["activeImageCount"] - 1
         /\ quota'["activeOriginalBytes"] >= quota["activeOriginalBytes"] - request[p].size
         /\ quota'["activeImageCount"] \in Nat /\ quota'["activeOriginalBytes"] \in Nat
  <1> DEFINE m == -request[p].size
             one == -1
  <1>1. /\ m \in Int /\ one \in Int /\ quota["activeImageCount"] \in Nat
        /\ quota["activeOriginalBytes"] \in Nat
        /\ request[p].size \in Nat
    BY SizeIsNat DEF TypeInv, TypeOK, Counters
  <1>2. PICK d : d = [NoDelta EXCEPT !["activeImageCount"] = one, !["activeOriginalBytes"] = m,
                                     !["cleanupPendingBytes"] = request[p].size]
    OBVIOUS
  <1>3. Bump(d)
    BY <1>2 DEF ChargesCounters
  <1>4. d["activeImageCount"] = one /\ d["activeOriginalBytes"] = m
    <2> HIDE DEF one, m
    <2> QED BY <1>2 DEF NoDelta, Counters
  <1> QED BY <1>1, <1>3, <1>4 DEF Bump, Counters

LEMMA ChargeShares ==
  ASSUME TypeInv, DeletersHide, ConfirmedIsConsumed, OneCharge, BytesBacked, ImagesCounted,
         NEW p \in Processes, ChargeCleanup(p), ChargesCounters(p)
  PROVE  ConfirmedIsConsumed' /\ OneCharge' /\ BytesBacked' /\ ImagesCounted'
  <1> DEFINE i == Subject(p)
             n == request[p].size
  <1>1. /\ i \in Images /\ n \in Nat /\ UNCHANGED <<image, reservation>>
        /\ image[i].hidden /\ Charges(p)
    BY SubjectType, SizeIsNat
       DEF ChargeCleanup, At, OnlyQuota, DeletersHide, DeleteStep, Charges
  <1>2. /\ request'[p].step = "delete_mark"
        /\ \A q \in Processes \ {p} : request'[q] = request[q]
    <2>1. request \in [Processes -> Request]
      BY DEF TypeInv, TypeOK
    <2> QED BY <2>1 DEF ChargeCleanup, Goto, Request
  <1>3. \A q \in Processes : request'[q].step \in {"upload", "delete_quota"} =>
          q # p /\ request'[q] = request[q]
    BY <1>2
  <1>4. \A q \in Processes :
          /\ Charges(q)' => q # p /\ Charges(q) /\ request'[q] = request[q] /\ Subject(q) # i
          /\ At(q, "upload")' => At(q, "upload") /\ request'[q] = request[q]
    BY <1>1, <1>3 DEF Charges, At, OneCharge
  <1>5. \A q \in Processes : Charges(q) \/ At(q, "upload") => Subject(q) \in Images
    BY SubjectType DEF At, Charges
  <1> HIDE DEF i, n
  <1>6. ConfirmedIsConsumed'
    BY <1>1, <1>4 DEF ConfirmedIsConsumed, Subject
  <1>7. OneCharge'
    BY <1>3 DEF OneCharge, At, Subject
  <1>8. BytesBacked'
    <2>1. PICK owed \in Shares : Backs(owed)
      BY DEF BytesBacked
    <2>2. n <= owed[i].size
      BY <1>1, <2>1 DEF Backs, i, n
    <2>3. owed[i] \in [size : Nat] /\ \A j \in Images : owed[j].size \in Nat
      BY <1>1, <2>1 DEF Shares
    <2>4. PICK less : less = [owed EXCEPT ![i] = [size |-> owed[i].size - n]]
      OBVIOUS
    <2>5. /\ less \in Shares /\ less[i].size = owed[i].size - n
          /\ \A j \in Images \ {i} : less[j].size = owed[j].size
          /\ \A j \in Images : less[j].size \in Nat
      BY <1>1, <2>1, <2>2, <2>3, <2>4 DEF Shares
    <2>6. SizesOf(less, Images) <= quota'["activeOriginalBytes"]
      <3>1. IsFiniteSet(Images) /\ \A j \in Images \ {i} : less[j].size <= owed[j].size
        BY <2>3, <2>5, UploadAssumption DEF UploadAssumption
      <3>2. SizesOf(less, Images) + owed[i].size <= SizesOf(owed, Images) + less[i].size
        BY <1>1, <2>3, <2>5, <3>1, SizesChange
      <3>3. SizesOf(less, Images) \in Nat /\ SizesOf(owed, Images) \in Nat
        BY <2>3, <2>5, <3>1, SizesNatural
      <3>4. /\ SizesOf(owed, Images) <= quota["activeOriginalBytes"]
            /\ quota["activeOriginalBytes"] \in Nat /\ quota'["activeOriginalBytes"] \in Nat
            /\ quota'["activeOriginalBytes"] >= quota["activeOriginalBytes"] - n
        BY <2>1, ChargeCounters DEF Backs, TypeInv, TypeOK, Counters, n
      <3> QED BY <1>1, <2>3, <2>5, <3>2, <3>3, <3>4
    <2>7. \A j \in Images : image'[j].hidden \/ image'[j].size <= less[j].size
      BY <1>1, <2>1, <2>5 DEF Backs
    <2>8. ASSUME NEW q \in Processes,
                 ((At(q, "upload") /\ ~image[Subject(q)].hidden) \/ Charges(q))'
          PROVE  (request[q].size <= less[Subject(q)].size)'
      <3>1. request'[q] = request[q]
        BY <1>4, <2>8
      <3>2. (At(q, "upload") /\ ~image[Subject(q)].hidden) \/ (Charges(q) /\ Subject(q) # i)
        BY <1>1, <1>4, <2>8, <3>1 DEF Subject
      <3>3. Subject(q) \in Images \ {i}
        BY <1>1, <1>5, <3>2
      <3>4. request[q].size <= owed[Subject(q)].size
        BY <2>1, <3>2 DEF Backs
      <3>5. request[q].size <= less[Subject(q)].size
        BY <2>5, <3>3, <3>4
      <3> QED BY <3>1, <3>5 DEF Subject
    <2>9. Backs(less)'
      BY <2>6, <2>7, <2>8 DEF Backs
    <2> QED BY <2>5, <2>9 DEF BytesBacked, Shares
  <1>9. ImagesCounted'
    <2>1. PICK C \in SUBSET Images : Counts(C)
      BY DEF ImagesCounted
    <2>2. i \in C
      BY <1>1, <2>1 DEF Counts, i
    <2>3. Cardinality(C \ {i}) <= quota'["activeImageCount"]
      <3>1. /\ Cardinality(C) \in Nat /\ Cardinality(C \ {i}) = Cardinality(C) - 1
        BY <2>2, SubsetsCount, FS_RemoveElement
      <3>2. /\ Cardinality(C) <= quota["activeImageCount"] /\ quota["activeImageCount"] \in Nat
            /\ quota'["activeImageCount"] >= quota["activeImageCount"] - 1
            /\ quota'["activeImageCount"] \in Nat
        BY <2>1, ChargeCounters DEF Counts, TypeInv, TypeOK, Counters
      <3> QED BY <3>1, <3>2
    <2>4. PICK D : D = C \ {i}
      OBVIOUS
    <2>5. \A j \in Images : ~image'[j].hidden /\ reservation'[j] = "consumed" => j \in D
      BY <1>1, <2>1, <2>4 DEF Counts
    <2>6. ASSUME NEW q \in Processes, Charges(q)' PROVE (Subject(q) \in D)'
      <3>1. Charges(q) /\ request'[q] = request[q] /\ Subject(q) # i
        BY <1>4, <2>6
      <3>2. Subject(q) \in D
        BY <2>1, <2>4, <3>1 DEF Counts
      <3> QED BY <3>1, <3>2 DEF Subject
    <2>7. Counts(D)'
      BY <2>3, <2>4, <2>5, <2>6 DEF Counts
    <2> QED BY <2>4, <2>7 DEF ImagesCounted
  <1> QED BY <1>6, <1>7, <1>8, <1>9

LEMMA ActiveStep ==
  ASSUME ActiveInv, [Next]_vars
  PROVE  ConfirmedIsConsumed' /\ OneCharge' /\ BytesBacked' /\ ImagesCounted'
  <1>1. TypeInv /\ TypeInv'
    BY TypeStep DEF ActiveInv, ExclusiveInv
  <1>2. ASSUME KeepsShares
        PROVE  ConfirmedIsConsumed' /\ OneCharge' /\ BytesBacked' /\ ImagesCounted'
    BY <1>1, <1>2, ConfirmedKept, OneChargeKept, BacksKept, CountsKept DEF ActiveInv
  <1>3. CASE UNCHANGED vars
    BY <1>1, <1>2, <1>3, SameKeepsShares DEF vars, KeepsShares
  <1>4. ASSUME NEW h \in Handlers,
               \/ \E batch \in SUBSET FreshIds \ {{}} : ReserveNewUploads(h, batch)
               \/ \E i \in Images : CheckConfirm(h, i) \/ AcquireImageDeletion(h, i)
        PROVE  KeepsShares
    BY <1>1, <1>4, AuthorizeKeepsShares, ConfirmKeepsShares, DeleteKeepsShares DEF Processes
  <1>5. ASSUME NEW i \in Images, UploadOriginal(i) \/ Expire(i)
        PROVE  KeepsShares
    BY <1>1, <1>5, ConfirmKeepsShares DEF Processes
  <1>6. ASSUME NEW p \in Processes, NEW i \in Images, RetryDeletionCleanup(p, i)
        PROVE  KeepsShares
    BY <1>1, <1>6, DeleteKeepsShares
  <1>7. ASSUME NEW p \in Processes, Continue(p) \/ RequestDies(p),
               ~(Consumes(p) /\ ConsumeNewUploadReservation(p)),
               ~(ChargeCleanup(p) /\ ChargesCounters(p))
        PROVE  KeepsShares
    BY <1>1, <1>7, AuthorizeKeepsShares, ConfirmKeepsShares, DeleteKeepsShares, ConsumeCases,
       UnchargedKeepsShares DEF Continue
  <1>8. ASSUME NEW p \in Processes, Consumes(p) \/ (ChargeCleanup(p) /\ ChargesCounters(p))
        PROVE  ConfirmedIsConsumed' /\ OneCharge' /\ BytesBacked' /\ ImagesCounted'
    BY <1>1, <1>8, ConsumeShares, ChargeShares DEF ActiveInv
  <1> QED BY <1>2, <1>3, <1>4, <1>5, <1>6, <1>7, <1>8 DEF Next

\* The active counters cover every image users see confirmed, and the bytes
\* of its original, for every number of images, of requests that confirm,
\* delete and retry them, of failures and of crashes.
THEOREM ActiveCoveredHolds == Spec => []ActiveCovered
  <1>1. ActiveInv /\ [Next]_vars => ActiveInv'
    <2> SUFFICES ASSUME ActiveInv, [Next]_vars PROVE ActiveInv'
      OBVIOUS
    <2>1. ExclusiveInv /\ DeletersHide
      BY DEF ActiveInv
    <2>2. ExclusiveInv'
      BY <2>1, ExclusiveStep
    <2>3. DeletersHide'
      BY <2>1, DeletersStep, DeletersKept DEF ExclusiveInv
    <2> QED BY <2>2, <2>3, ActiveStep DEF ActiveInv
  <1>2. Spec => []ActiveInv
    BY ActiveInit, <1>1, PTL DEF Spec
  <1> QED BY <1>2, ActiveIsCovered, PTL
=============================================================================
