----------------------------- MODULE UploadQuota -----------------------------
(***************************************************************************)
(* The originals of one project from authorization to deletion, and the    *)
(* quota counters that follow them: upload-service.ts, delete-service.ts   *)
(* and quota-service.ts of src/server/images over their query modules.     *)
(* Authorizing reserves image slots and declared bytes, confirming turns a *)
(* reservation into active bytes of the size R2 reports, deleting moves    *)
(* active bytes to cleanup-pending ones until the original is gone.        *)
(*                                                                         *)
(* One action is one statement, one transaction (they lock the project's   *)
(* quota row) or one R2 call, with the pure reads that gate it.  "uploaded"*)
(* stands for the statuses that follow it (validating, validated, ...).    *)
(***************************************************************************)
EXTENDS Integers, FiniteSets, FiniteSetsExt

CONSTANTS
  Images,        \* pool of image ids; an original's storage key holds its id
  Handlers,      \* web requests in progress at a time
  Script,        \* the run of recoverImageLifecycle
  None,
  DeclaredSize,  \* bytes a browser declares for a file
  Sizes,         \* bytes its original turns out to have
  MaxImages,     \* maxImagesPerProject of the plan
  MaxBytes,      \* maxProjectStorageBytes of the plan
  DefaultBytes,  \* MAX_PROJECT_STORAGE_BYTES, the limit when none is passed
  MaxCrashes,    \* bound: requests that die in a behaviour
  Events         \* which disturbances may happen in a behaviour

AllEvents ==
  { "expire",    \* the upload URL and the reservation expire
    "reject",    \* a browser uploads an empty, oversized or mistyped file
    "storage",   \* an R2 call or the signing of an upload URL fails
    "db",        \* a PostgreSQL statement or transaction fails
    "delete",    \* a user deletes an image
    "recover",   \* the recovery script is run
    "crash" }    \* a web handler or the script dies between two steps

ASSUME UploadAssumption ==
  /\ {DeclaredSize, MaxImages, MaxBytes, DefaultBytes, MaxCrashes} \subseteq Nat
  /\ Sizes \subseteq Nat \ {0}
  /\ IsFiniteSet(Images)
  /\ Events \subseteq AllEvents
  /\ None \notin Images
  /\ Script \notin Handlers

VARIABLES
  image,        \* images: status ("absent" before the insert), deleted_at, storage_size_bytes
  reservation,  \* quota_reservations.status of the image's new_upload, "none" before it
  expired,      \* upload_expires_at, and the reservation's expires_at, < now()
  signed,       \* images for which a browser holds a presigned PUT
  original,     \* size of the original in R2: Gone, or 0 for one confirm rejects
  quota,        \* project_quota_state
  request,      \* the handlers and the script in progress
  crashes       \* requests that died so far

vars == <<image, reservation, expired, signed, original, quota, request, crashes>>

Gone == -1
Processes == Handlers \cup {Script}

DeletingStatus == {"deletion_pending", "storage_deleting", "deletion_failed"}
DeletableStatus == {"pending_upload", "uploaded", "upload_failed"}
ImageStatus == {"absent", "deleted"} \cup DeletableStatus \cup DeletingStatus
ReservationStatus == {"none", "reserved", "consumed", "expired", "cancelled"}
Counters == {"activeImageCount", "reservedImageSlots", "activeOriginalBytes",
             "reservedUploadBytes", "cleanupPendingBytes"}
CleanupStep == {"delete_object", "delete_verify", "delete_complete", "delete_failed"}
RequestStep ==
  {"idle", "insert", "sign", "release", "unauthorize", "head", "consume", "upload",
   "fail", "reject", "drop", "delete_quota", "delete_release", "delete_slot",
   "delete_mark", "delete_uncharge"} \cup CleanupStep

Request == [step : RequestStep, image : Images \cup {None}, size : Sizes \cup {0},
            todo : SUBSET Images]
NoRequest == [step |-> "idle", image |-> None, size |-> 0, todo |-> {}]

\* Every variable keeps its type: the counters stay natural numbers because
\* bumpQuotaState clamps them, and computeEffectiveUsageBytes never throws.
TypeOK ==
  /\ image \in [Images -> [status : ImageStatus, hidden : BOOLEAN, size : Sizes \cup {0}]]
  /\ reservation \in [Images -> ReservationStatus]
  /\ expired \in [Images -> BOOLEAN]
  /\ signed \in SUBSET Images
  /\ original \in [Images -> Sizes \cup {Gone, 0}]
  /\ quota \in [Counters -> Nat]
  /\ request \in [Processes -> Request]
  /\ crashes \in 0 .. MaxCrashes

Init ==
  /\ image = [i \in Images |-> [status |-> "absent", hidden |-> FALSE, size |-> 0]]
  /\ reservation = [i \in Images |-> "none"]
  /\ expired = [i \in Images |-> FALSE]
  /\ signed = {}
  /\ original = [i \in Images |-> Gone]
  /\ quota = [c \in Counters |-> 0]
  /\ request = [p \in Processes |-> NoRequest]
  /\ crashes = 0

-----------------------------------------------------------------------------
(* Row and counter updates *)

NoDelta == [c \in Counters |-> 0]

\* Mutant of Bump: the counters are not clamped at zero.
BumpUnclamped(delta) == quota' = [c \in Counters |-> quota[c] + delta[c]]

\* bumpQuotaState: each counter becomes GREATEST(0, counter + delta).
Bump(delta) ==
  quota' = [c \in Counters |-> IF quota[c] + delta[c] >= 0 THEN quota[c] + delta[c] ELSE 0]

Reserved(n) == [NoDelta EXCEPT !["reservedImageSlots"] = n,
                               !["reservedUploadBytes"] = n * DeclaredSize]

\* computeEffectiveUsageBytes; replacement candidates are another module's.
EffectiveUsage == quota["activeOriginalBytes"] + quota["reservedUploadBytes"]
                    + quota["cleanupPendingBytes"]

SetStatus(i, st) == image' = [image EXCEPT ![i].status = st]
SetReservation(i, st) == reservation' = [reservation EXCEPT ![i] = st]

\* trustedImageBytes
TrustedBytes(i) == IF image[i].size > 0 THEN image[i].size ELSE DeclaredSize

At(p, step) == request[p].step = step
Subject(p) == request[p].image
Become(p, r) == request' = [request EXCEPT ![p] = r]
Goto(p, step) == request' = [request EXCEPT ![p].step = step]
Done(p) == Become(p, NoRequest)
Start(p, step, i) == At(p, "idle") /\ Become(p, [NoRequest EXCEPT !.step = step, !.image = i])

OnlyRequest == UNCHANGED <<image, reservation, expired, signed, original, quota, crashes>>
OnlyImage   == UNCHANGED <<reservation, expired, signed, original, quota, crashes>>
OnlyQuota   == UNCHANGED <<image, expired, signed, original, crashes>>
OnlyObject  == UNCHANGED <<image, reservation, expired, signed, quota, crashes>>

-----------------------------------------------------------------------------
(* authorizeProjectUploads *)

\* reserveNewUploads: one transaction checks the limits and reserves a slot
\* and the declared bytes for every file of the batch, or refuses them all.
ReserveNewUploads(p, batch) ==
  /\ At(p, "idle")
  /\ quota["activeImageCount"] + quota["reservedImageSlots"] + Cardinality(batch) <= MaxImages
  /\ EffectiveUsage + Cardinality(batch) * DeclaredSize <= MaxBytes
  /\ reservation' = [i \in Images |-> IF i \in batch THEN "reserved" ELSE reservation[i]]
  /\ Bump(Reserved(Cardinality(batch)))
  /\ Become(p, [NoRequest EXCEPT !.step = "insert", !.todo = batch])
  /\ OnlyQuota

InsertPendingImage(p) ==
  /\ At(p, "insert")
  /\ \E i \in request[p].todo :
       LET Take(step) == Become(p, [request[p] EXCEPT !.step = step, !.image = i,
                                                      !.todo = @ \ {i}])
       IN \/ SetStatus(i, "pending_upload") /\ Take("sign")
          \/ "db" \in Events /\ UNCHANGED image /\ Take("release")
  /\ OnlyImage

\* createUploadTarget: the browser gets its presigned PUT.
CreateUploadTarget(p) ==
  /\ At(p, "sign")
  /\ \/ signed' = signed \cup {Subject(p)} /\ Goto(p, "insert")
     \/ "storage" \in Events /\ UNCHANGED signed /\ Goto(p, "release")
  /\ UNCHANGED <<image, reservation, expired, original, quota, crashes>>

\* releaseReservation: a transaction that acts on a reserved row only.
Release(i) ==
  \/ /\ reservation[i] = "reserved"
     /\ SetReservation(i, "cancelled")
     /\ Bump(Reserved(-1))
  \/ /\ reservation[i] # "reserved" \/ "db" \in Events
     /\ UNCHANGED <<reservation, quota>>

ReleaseUnauthorized(p) ==
  /\ At(p, "release")
  /\ Release(Subject(p))
  /\ Goto(p, "unauthorize")
  /\ OnlyQuota

\* markImageUploadFailed, if the insert had succeeded.
MarkUnauthorized(p) ==
  /\ At(p, "unauthorize")
  /\ \/ image[Subject(p)].status # "absent" /\ SetStatus(Subject(p), "upload_failed")
     \/ /\ image[Subject(p)].status = "absent" \/ "db" \in Events
        /\ UNCHANGED image
  /\ Goto(p, "insert")
  /\ OnlyImage

AuthorizeReturns(p) ==
  /\ At(p, "insert") /\ request[p].todo = {}
  /\ Done(p)
  /\ OnlyRequest

-----------------------------------------------------------------------------
(* The browser and the clock *)

\* A presigned PUT may be used until it expires, more than once.
UploadOriginal(i) ==
  /\ i \in signed /\ ~expired[i]
  /\ \E size \in Sizes \cup (IF "reject" \in Events THEN {0} ELSE {}) :
       original' = [original EXCEPT ![i] = size]
  /\ OnlyObject /\ UNCHANGED request

Expire(i) ==
  /\ "expire" \in Events
  /\ reservation[i] # "none" /\ ~expired[i]
  /\ expired' = [expired EXCEPT ![i] = TRUE]
  /\ UNCHANGED <<image, reservation, signed, original, quota, request, crashes>>

-----------------------------------------------------------------------------
(* confirmProjectUpload *)

\* The image is read once: only a pending upload goes on, an expired one is
\* failed at once.
CheckConfirm(p, i) ==
  /\ image[i].status = "pending_upload" /\ ~image[i].hidden
  /\ Start(p, IF expired[i] THEN "fail" ELSE "head", i)
  /\ OnlyRequest

\* readObjectMetadata and the checks of the object.
ReadObjectMetadata(p) ==
  LET size == original[Subject(p)]
  IN /\ At(p, "head")
     /\ \/ size = Gone /\ Goto(p, "fail")
        \/ size = 0 /\ Goto(p, "reject")
        \/ size > 0 /\ Become(p, [request[p] EXCEPT !.step = "consume", !.size = size])
        \/ "storage" \in Events /\ Goto(p, "fail")
     /\ OnlyRequest

\* Mutant of ConsumeNewUploadReservation: the reservation's status and its
\* expiry are not looked at.
ConsumeAnyStatus(p) ==
  /\ At(p, "consume")
  /\ SetReservation(Subject(p), "consumed")
  /\ Bump([Reserved(-1) EXCEPT !["activeImageCount"] = 1,
                               !["activeOriginalBytes"] = request[p].size])
  /\ Goto(p, "upload")
  /\ OnlyQuota

\* consumeNewUploadReservation: one transaction.  It looks for a row still
\* reserved; an expired one is marked without giving its counters back.
ConsumeNewUploadReservation(p) ==
  LET i     == Subject(p)
      delta == request[p].size - DeclaredSize
      fits  == delta <= 0 \/ EffectiveUsage + delta <= DefaultBytes
      Refused == UNCHANGED <<reservation, quota>> /\ Goto(p, "reject")
  IN /\ At(p, "consume")
     /\ \/ reservation[i] # "reserved" /\ Refused
        \/ /\ reservation[i] = "reserved" /\ expired[i]
           /\ SetReservation(i, "expired")
           /\ UNCHANGED quota /\ Goto(p, "reject")
        \/ reservation[i] = "reserved" /\ ~expired[i] /\ ~fits /\ Refused
        \/ /\ reservation[i] = "reserved" /\ ~expired[i] /\ fits
           /\ SetReservation(i, "consumed")
           /\ Bump([Reserved(-1) EXCEPT !["activeImageCount"] = 1,
                                        !["activeOriginalBytes"] = request[p].size])
           /\ Goto(p, "upload")
        \/ "db" \in Events /\ Refused
     /\ OnlyQuota

\* markImageUploaded: by id, whatever the image has become.
MarkImageUploaded(p) ==
  /\ At(p, "upload")
  /\ \/ /\ image' = [image EXCEPT ![Subject(p)].status = "uploaded",
                                  ![Subject(p)].size = request[p].size]
        /\ Done(p)
     \/ "db" \in Events /\ UNCHANGED image /\ Goto(p, "fail")
  /\ OnlyImage

\* markImageUploadFailed: by id.  The object of a rejected upload is deleted,
\* unless the statement throws: the catch block marks the image and returns.
MarkImageUploadFailed(p) ==
  /\ \/ /\ SetStatus(Subject(p), "upload_failed")
        /\ \/ At(p, "fail") /\ Done(p)
           \/ At(p, "reject") /\ Goto(p, "drop")
     \/ "db" \in Events /\ At(p, "reject") /\ UNCHANGED image /\ Goto(p, "fail")
  /\ OnlyImage

DropRejectedObject(p) ==
  /\ At(p, "drop")
  /\ \/ original' = [original EXCEPT ![Subject(p)] = Gone]
     \/ "storage" \in Events /\ UNCHANGED original
  /\ Done(p)
  /\ OnlyObject

-----------------------------------------------------------------------------
(* deleteOwnedImage and retryDeletionCleanup *)

\* Mutant of AcquireImageDeletion: the image is hidden by its id alone.
AcquireUnguarded(p, i) ==
  /\ "delete" \in Events
  /\ image[i].status \in DeletableStatus \cup {"deletion_pending"}
  /\ image' = [image EXCEPT ![i].status = "deletion_pending", ![i].hidden = TRUE]
  /\ At(p, "idle")
  /\ Become(p, [NoRequest EXCEPT !.step = "delete_quota", !.image = i, !.size = image[i].size])
  /\ OnlyImage

\* acquireImageDeletion: a conditional UPDATE hides the image.  The row it
\* returns tells a pending upload from a confirmed one.
AcquireImageDeletion(p, i) ==
  /\ "delete" \in Events
  /\ image[i].status \in DeletableStatus /\ ~image[i].hidden
  /\ image' = [image EXCEPT ![i].status = "deletion_pending", ![i].hidden = TRUE]
  /\ At(p, "idle")
  /\ Become(p, [NoRequest EXCEPT !.step = "delete_quota", !.image = i, !.size = image[i].size])
  /\ OnlyImage

\* onImageDeletionAcquired for a confirmed image: onDeleteAcquired.
ChargeCleanup(p) ==
  /\ At(p, "delete_quota") /\ request[p].size > 0
  /\ \/ Bump([NoDelta EXCEPT !["activeImageCount"] = -1,
                             !["activeOriginalBytes"] = -request[p].size,
                             !["cleanupPendingBytes"] = request[p].size])
     \/ "db" \in Events /\ UNCHANGED quota
  /\ Goto(p, "delete_mark")
  /\ OnlyQuota /\ UNCHANGED reservation

\* onImageDeletionAcquired for a pending one looks for its reservation first.
FindPendingReservation(p) ==
  /\ At(p, "delete_quota") /\ request[p].size = 0
  /\ Goto(p, IF reservation[Subject(p)] = "reserved" THEN "delete_release" ELSE "delete_slot")
  /\ OnlyRequest

\* releaseReservation
ReleasePending(p) ==
  /\ At(p, "delete_release")
  /\ Release(Subject(p))
  /\ Goto(p, "delete_mark")
  /\ OnlyQuota

\* With no reservation to release the slot is given back all the same.
ReleasePendingSlot(p) ==
  /\ At(p, "delete_slot")
  /\ Bump(Reserved(-1)) \/ ("db" \in Events /\ UNCHANGED quota)
  /\ Goto(p, "delete_mark")
  /\ OnlyQuota /\ UNCHANGED reservation

\* retryDeletionCleanup, for the user or the recovery script.  The script takes
\* deletions older than STALE_DELETION_MS: a slow request may still be at it.
RetryDeletionCleanup(p, i) ==
  /\ p = Script => "recover" \in Events
  /\ image[i].status \in DeletingStatus
  /\ Start(p, "delete_mark", i)
  /\ OnlyRequest

\* Mutant of MarkStorageDeleting: a deletion in progress is taken over.
MarkTakenOver(p) ==
  /\ At(p, "delete_mark")
  /\ IF image[Subject(p)].status \in DeletingStatus
     THEN SetStatus(Subject(p), "storage_deleting") /\ Goto(p, "delete_object")
     ELSE UNCHANGED image /\ Done(p)
  /\ OnlyImage

\* markStorageDeleting: a conditional UPDATE; the loser returns.
MarkStorageDeleting(p) ==
  /\ At(p, "delete_mark")
  /\ IF image[Subject(p)].status \in {"deletion_pending", "deletion_failed"}
     THEN SetStatus(Subject(p), "storage_deleting") /\ Goto(p, "delete_object")
     ELSE UNCHANGED image /\ Done(p)
  /\ OnlyImage

DeleteOriginal(p) ==
  /\ At(p, "delete_object")
  /\ \/ original' = [original EXCEPT ![Subject(p)] = Gone] /\ Goto(p, "delete_verify")
     \/ "storage" \in Events /\ UNCHANGED original /\ Goto(p, "delete_failed")
  /\ OnlyObject

\* objectExists
VerifyAbsent(p) ==
  /\ At(p, "delete_verify")
  /\ \/ original[Subject(p)] = Gone /\ Goto(p, "delete_complete")
     \/ /\ original[Subject(p)] # Gone \/ "storage" \in Events
        /\ Goto(p, "delete_failed")
  /\ OnlyRequest

\* markImageDeletedComplete: conditional, but its result is not looked at.
MarkImageDeletedComplete(p) ==
  LET i == Subject(p)
  IN /\ At(p, "delete_complete")
     /\ \/ /\ image' = [image EXCEPT ![i].status =
                          IF @ \in DeletingStatus THEN "deleted" ELSE @]
           /\ Goto(p, "delete_uncharge")
        \/ "db" \in Events /\ UNCHANGED image /\ Goto(p, "delete_failed")
     /\ OnlyImage

\* onDeleteCleanupSuccess, for pending uploads as for confirmed ones.
UnchargeCleanup(p) ==
  /\ At(p, "delete_uncharge")
  /\ \/ Bump([NoDelta EXCEPT !["cleanupPendingBytes"] = -TrustedBytes(Subject(p))])
     \/ "db" \in Events /\ UNCHANGED quota
  /\ Done(p)
  /\ OnlyQuota /\ UNCHANGED reservation

MarkDeletionFailed(p) ==
  LET i == Subject(p)
  IN /\ At(p, "delete_failed")
     /\ image' = [image EXCEPT ![i].status =
                    IF @ \in DeletingStatus THEN "deletion_failed" ELSE @]
     /\ Done(p)
     /\ OnlyImage

-----------------------------------------------------------------------------
(* Specification *)

\* A request dies, or a statement outside every try block throws.
RequestDies(p) ==
  /\ "crash" \in Events /\ crashes < MaxCrashes
  /\ ~At(p, "idle")
  /\ crashes' = crashes + 1
  /\ Done(p)
  /\ UNCHANGED <<image, reservation, expired, signed, original, quota>>

Continue(p) ==
  \/ InsertPendingImage(p)
  \/ CreateUploadTarget(p)
  \/ ReleaseUnauthorized(p)
  \/ MarkUnauthorized(p)
  \/ AuthorizeReturns(p)
  \/ ReadObjectMetadata(p)
  \/ ConsumeNewUploadReservation(p)
  \/ MarkImageUploaded(p)
  \/ MarkImageUploadFailed(p)
  \/ DropRejectedObject(p)
  \/ ChargeCleanup(p)
  \/ FindPendingReservation(p)
  \/ ReleasePending(p)
  \/ ReleasePendingSlot(p)
  \/ MarkStorageDeleting(p)
  \/ DeleteOriginal(p)
  \/ VerifyAbsent(p)
  \/ MarkImageDeletedComplete(p)
  \/ UnchargeCleanup(p)
  \/ MarkDeletionFailed(p)

FreshIds == {i \in Images : reservation[i] = "none"}

Next ==
  \/ \E h \in Handlers :
       \/ \E batch \in SUBSET FreshIds \ {{}} : ReserveNewUploads(h, batch)
       \/ \E i \in Images :
            CheckConfirm(h, i) \/ AcquireImageDeletion(h, i)
  \/ \E i \in Images :
       \/ UploadOriginal(i)
       \/ Expire(i)
       \/ \E p \in Processes : RetryDeletionCleanup(p, i)
  \/ \E p \in Processes : Continue(p) \/ RequestDies(p)

Spec == Init /\ [][Next]_vars

-----------------------------------------------------------------------------
(* Properties *)

\* consumeNewUploadReservation and onDeleteAcquired: the active counters cover
\* every image that users see confirmed, and its bytes, whatever expires,
\* fails, dies or is confirmed, deleted and retried at the same time.
ActiveCovered ==
  LET visible == {i \in Images : ~image[i].hidden}
  IN /\ quota["activeImageCount"] >=
          Cardinality({i \in visible : reservation[i] = "consumed"})
     /\ quota["activeOriginalBytes"] >= MapThenSumSet(LAMBDA i : image[i].size, visible)

\* reserveNewUploads, consumeNewUploadReservation and releaseReservation: as
\* long as nothing has been deleted, the slots and bytes reserved are exactly
\* those of the reservations still open; one found expired when it was to be
\* consumed keeps them until its image is deleted.
SlotsExact ==
  (\A i \in Images : ~image[i].hidden) =>
    LET open == {i \in Images : reservation[i] \in {"reserved", "expired"}}
    IN /\ quota["reservedImageSlots"] = Cardinality(open)
       /\ quota["reservedUploadBytes"] = DeclaredSize * Cardinality(open)

\* markStorageDeleting: the request, its retries and the recovery script
\* never clean up the same image at the same time.
CleanupExclusive ==
  \A p, q \in Processes :
    request[p].step \in CleanupStep /\ request[q].step \in CleanupStep
      /\ Subject(p) = Subject(q) => p = q
=============================================================================
