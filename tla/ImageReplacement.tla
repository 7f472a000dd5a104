--------------------------- MODULE ImageReplacement ---------------------------
(***************************************************************************)
(* The replacement of one image's original, with the validation of the     *)
(* image, its readiness and its deletion: replace-service.ts,              *)
(* validation-service.ts, ready-service.ts, delete-service.ts and          *)
(* recovery-service.ts of src/server/images over their query modules.      *)
(* A candidate is uploaded under a key of its own, confirmed, validated    *)
(* and promoted onto the image's row; then the old object is deleted.  A   *)
(* candidate that is cancelled loses its object.                           *)
(*                                                                         *)
(* One action is one statement, one transaction or one R2 call, with the   *)
(* pure reads that gate it.  Every file is one unit of the quota: confirm  *)
(* refuses a candidate of another size than declared.                      *)
(***************************************************************************)
EXTENDS Integers, FiniteSets

CONSTANTS
  Replacements,  \* ids of replacements; a candidate's storage key holds its id
  Original,      \* the storage key of the image's first original
  Requests,      \* web requests in progress at a time
  Scripts,       \* runs of the recovery and reconcile scripts, one row at a time
  None,          \* no replacement
  MaxFaults,     \* bound: faults in a behaviour
  Faults         \* "crash", "storage", "db", "stale", "delete"

ASSUME ReplacementAssumption ==
  /\ IsFiniteSet(Replacements)
  /\ Original \notin Replacements /\ None \notin Replacements \cup {Original}
  /\ Scripts \cap Requests = {}
  /\ MaxFaults \in Nat
  /\ Faults \subseteq {"crash", "storage", "db", "stale", "delete"}

VARIABLES
  image,        \* images: status and storage_key
  repl,         \* image_replacements: status, old_storage_key, whether new_byte_size and
                \* candidate_deleted_at are set
  reservation,  \* quota_reservations.status of the candidate
  quota,        \* project_quota_state, as far as replacements move it
  object,       \* the objects in R2
  signed,       \* candidates with a presigned PUT
  expired,      \* upload_expires_at, and the reservation's expires_at, < now()
  req,          \* where each request is, its replacement and the key it read
  sound,        \* history: candidates a validation has passed
  skewed,       \* history: a promotion read the image when its candidate, which it had
                \* read before as validated, was so no longer
  faults        \* faults so far

rows == <<image, repl>>
money == <<reservation, quota>>
store == <<object, signed, expired>>
history == <<sound, skewed>>
vars == <<rows, money, store, req, history, faults>>

Keys == Replacements \cup {Original}
Processes == Requests \cup Scripts

ImageStatus == {"uploaded", "validating", "validated", "validation_failed", "ready", "deleted"}
Replaceable == {"validated", "validation_failed", "ready"}
UnconfirmedStatus == {"pending", "uploading"}
FailableStatus == {"pending", "uploading", "uploaded", "validating", "failed"}
CancellableStatus == FailableStatus \cup {"validated"}
OpenStatus == CancellableStatus \cup {"cancel_cleanup_failed"}
OldStatus == {"promoted", "old_storage_deleting", "old_storage_cleanup_failed"}
ReplStatus == OpenStatus \cup OldStatus \cup {"none", "complete", "cancelled"}

AbandonedStatus == {"pending", "uploading", "uploaded", "failed"}
AnyOpen == \E r \in Replacements : repl[r].status \in OpenStatus

Steps ==
  {"idle", "reserve", "insert", "demote", "uploading", "sign", "release",
   "head", "consume", "uploaded", "reject", "fail", "inspect", "approve",
   "readImage", "promote", "charge", "oldMark", "oldDelete", "oldComplete", "oldUncharge", "oldFailed",
   "cancel", "drop", "dropped", "uncharge", "undropped",
   "examine", "valid", "invalid", "readyRead", "ready", "unready", "hide", "erase"}

NoRequest == [step |-> "idle", r |-> None, key |-> Original]

Init ==
  /\ image = [status |-> "uploaded", key |-> Original]
  /\ repl = [r \in Replacements |-> [status |-> "none", old |-> None,
                               sized |-> FALSE, dropped |-> FALSE]]
  /\ reservation = [r \in Replacements |-> "none"]
  /\ quota = [reserved |-> 0, candidate |-> 0, cleanup |-> 0]
  /\ object = {Original}
  /\ signed = {} /\ expired = {}
  /\ req = [p \in Processes |-> NoRequest]
  /\ sound = {} /\ skewed = FALSE
  /\ faults = 0

-----------------------------------------------------------------------------
(* Requests and rows *)

At(p, step) == req[p].step = step
Goto(p, step) == req' = [req EXCEPT ![p].step = step]
Done(p) == req' = [req EXCEPT ![p] = NoRequest]
Start(p, step, r) == At(p, "idle") /\ req' = [req EXCEPT ![p] = [NoRequest EXCEPT !.step = step, !.r = r]]
Fault(f) == f \in Faults /\ faults < MaxFaults /\ faults' = faults + 1
NoFault == faults' = faults

SetRepl(r, st) == repl' = [repl EXCEPT ![r].status = st]
CasRepl(r, from, st) == IF repl[r].status \in from THEN SetRepl(r, st) ELSE repl' = repl
CasImage(from, st) == image' = IF image.status \in from THEN [image EXCEPT !.status = st] ELSE image

\* Mutant of Bump: the counters are not clamped at zero.
BumpUnclamped(delta) == quota' = [c \in DOMAIN quota |-> quota[c] + delta[c]]

\* bumpQuotaState: each counter becomes GREATEST(0, counter + delta).
Bump(delta) ==
  quota' = [c \in DOMAIN quota |-> IF quota[c] + delta[c] >= 0 THEN quota[c] + delta[c] ELSE 0]
Delta(reserved, candidate, cleanup) ==
  [reserved |-> reserved, candidate |-> candidate, cleanup |-> cleanup]

-----------------------------------------------------------------------------
(* beginOwnedImageReplacement *)

BeginReplacement(p, r) ==
  /\ reservation[r] = "none" /\ \A q \in Processes : req[q].r # r   \* a fresh id
  /\ image.status \in Replaceable /\ ~AnyOpen
  /\ Start(p, "reserve", r)
  /\ UNCHANGED <<rows, money, store, history, faults>>

ReserveReplacement(p) ==
  /\ At(p, "reserve")
  /\ \/ /\ reservation' = [reservation EXCEPT ![req[p].r] = "reserved"]
        /\ Bump(Delta(1, 0, 0))
        /\ Goto(p, "insert")
     \/ UNCHANGED money /\ Done(p)                        \* refused by the quota
  /\ UNCHANGED <<rows, store, history, faults>>

\* The unique index allows one open replacement per image.
InsertCandidate(p) ==
  /\ At(p, "insert")
  /\ IF AnyOpen
     THEN repl' = repl /\ Goto(p, "release")
     ELSE SetRepl(req[p].r, "pending") /\ Goto(p, "demote")
  /\ UNCHANGED <<image, money, store, history, faults>>

ReleaseReservation(p) ==
  /\ At(p, "release")
  /\ \/ /\ IF reservation[req[p].r] = "reserved"
           THEN /\ reservation' = [reservation EXCEPT ![req[p].r] = "cancelled"]
                /\ Bump(Delta(-1, 0, 0))
           ELSE UNCHANGED money
        /\ NoFault
     \/ Fault("db") /\ UNCHANGED money                    \* logged, and lost
  /\ Done(p)
  /\ UNCHANGED <<rows, store, history>>

\* With it the image's jobs, bulk items and metadata are withdrawn.
DemoteReady(p) ==
  /\ At(p, "demote")
  /\ \/ CasImage({"ready"}, "validated") /\ NoFault
     \/ Fault("db") /\ image' = image                     \* logged, and lost
  /\ Goto(p, "uploading")
  /\ UNCHANGED <<repl, money, store, history>>

MarkReplacementUploading(p) ==
  /\ At(p, "uploading")
  /\ CasRepl(req[p].r, UnconfirmedStatus, "uploading")
  /\ Goto(p, "sign")
  /\ UNCHANGED <<image, money, store, history, faults>>

SignUpload(p) ==
  /\ At(p, "sign")
  /\ \/ signed' = signed \cup {req[p].r} /\ Done(p) /\ NoFault
     \/ Fault("storage") /\ signed' = signed /\ Goto(p, "release")
  /\ UNCHANGED <<rows, money, object, expired, history>>

(* The browser's PUT, as often as it likes until the URL expires. *)
UploadCandidate(r) ==
  /\ r \in signed \ expired
  /\ object' = object \cup {r}
  /\ UNCHANGED <<rows, money, signed, expired, req, history, faults>>

Expire(r) ==
  /\ reservation[r] # "none" /\ r \notin expired
  /\ expired' = expired \cup {r}
  /\ UNCHANGED <<rows, money, object, signed, req, history, faults>>

-----------------------------------------------------------------------------
(* confirmOwnedReplacementUpload *)

ConfirmReplacement(p, r) ==
  /\ repl[r].status \in UnconfirmedStatus
  /\ Start(p, IF r \in expired THEN "fail" ELSE "head", r)
  /\ UNCHANGED <<rows, money, store, history, faults>>

\* A file of another size than declared is rejected.
HeadCandidate(p) ==
  /\ At(p, "head")
  /\ \/ req[p].r \in object /\ (Goto(p, "consume") \/ Goto(p, "reject"))
     \/ req[p].r \notin object /\ Done(p)
  /\ UNCHANGED <<rows, money, store, history, faults>>

\* Mutant of ConsumeReplacementReservation: the reservation's status is not looked at.
ConsumeAgain(p) ==
  LET r == req[p].r IN
  /\ At(p, "consume")
  /\ IF r \notin expired
     THEN /\ reservation' = [reservation EXCEPT ![r] = "consumed"]
          /\ Bump(Delta(-1, 1, 0))
          /\ Goto(p, "uploaded")
     ELSE /\ reservation' = [reservation EXCEPT ![r] = IF @ = "reserved" THEN "expired" ELSE @]
          /\ quota' = quota
          /\ Goto(p, "reject")
  /\ UNCHANGED <<rows, store, history, faults>>

\* A reservation found expired keeps its bytes.
ConsumeReplacementReservation(p) ==
  LET r == req[p].r IN
  /\ At(p, "consume")
  /\ IF reservation[r] = "reserved" /\ r \notin expired
     THEN /\ reservation' = [reservation EXCEPT ![r] = "consumed"]
          /\ Bump(Delta(-1, 1, 0))
          /\ Goto(p, "uploaded")
     ELSE /\ reservation' = [reservation EXCEPT ![r] = IF @ = "reserved" THEN "expired" ELSE @]
          /\ quota' = quota
          /\ Goto(p, "reject")
  /\ UNCHANGED <<rows, store, history, faults>>

MarkReplacementUploaded(p) ==
  /\ At(p, "uploaded")
  /\ repl' = IF repl[req[p].r].status \in UnconfirmedStatus \cup {"uploaded"}
             THEN [repl EXCEPT ![req[p].r].status = "uploaded", ![req[p].r].sized = TRUE]
             ELSE repl
  /\ Done(p)
  /\ UNCHANGED <<image, money, store, history, faults>>

RejectCandidate(p) ==
  /\ At(p, "reject")
  /\ \/ object' = object \ {req[p].r} /\ NoFault
     \/ Fault("storage") /\ object' = object
  /\ Goto(p, "fail")
  /\ UNCHANGED <<rows, money, signed, expired, history>>

MarkReplacementFailed(p) ==
  /\ At(p, "fail")
  /\ CasRepl(req[p].r, FailableStatus, "failed")
  /\ Done(p)
  /\ UNCHANGED <<image, money, store, history, faults>>

-----------------------------------------------------------------------------
(* validateOwnedReplacement *)

AcquireReplacementValidation(p, r) ==
  /\ image.status # "deleted"
  /\ repl[r].status \in {"uploaded", "failed"}
  /\ Start(p, "inspect", r)
  /\ SetRepl(r, "validating")
  /\ UNCHANGED <<image, money, store, history, faults>>

InspectCandidate(p) ==
  /\ At(p, "inspect")
  /\ \/ req[p].r \in object /\ Goto(p, "approve") /\ NoFault
     \/ Goto(p, "fail") /\ NoFault                        \* absent, or not what it claims to be
  /\ UNCHANGED <<rows, money, store, history>>

MarkReplacementValidated(p) ==
  LET r == req[p].r IN
  /\ At(p, "approve")
  /\ CasRepl(r, {"validating"}, "validated")
  /\ sound' = sound \cup {r}
  /\ Done(p)
  /\ UNCHANGED <<image, money, store, skewed, faults>>

-----------------------------------------------------------------------------
(* promoteOwnedReplacement *)

\* Mutant of ReadForPromotion: a confirmed candidate will do.
ReadConfirmed(p, r) ==
  /\ repl[r].status \in {"uploaded", "validated"} /\ repl[r].sized
  /\ Start(p, "readImage", r)
  /\ UNCHANGED <<rows, money, store, history, faults>>

ReadForPromotion(p, r) ==
  /\ repl[r].status = "validated" /\ repl[r].sized
  /\ Start(p, "readImage", r)
  /\ UNCHANGED <<rows, money, store, history, faults>>

\* The transaction's second read sees what others have committed since the first.
ReadImage(p) ==
  LET r == req[p].r IN
  /\ At(p, "readImage")
  /\ IF image.status \in Replaceable /\ image.key # r
     THEN /\ req' = [req EXCEPT ![p].step = "promote", ![p].key = image.key]
          /\ skewed' = (skewed \/ repl[r].status # "validated")
     ELSE Done(p) /\ skewed' = skewed                    \* not_found, conflict
  /\ UNCHANGED <<rows, money, store, sound, faults>>

\* Mutant of CommitPromotion: the image's update does not look at deleted_at.
CommitOnKeyAlone(p) ==
  LET r == req[p].r IN
  /\ At(p, "promote")
  /\ IF image.key = req[p].key
     THEN /\ image' = [status |-> "validated", key |-> r]
          /\ IF repl[r].status = "validated"
             THEN repl' = [repl EXCEPT ![r].status = "promoted", ![r].old = req[p].key] /\ Goto(p, "charge")
             ELSE repl' = repl /\ Done(p)
     ELSE UNCHANGED rows /\ Done(p)
  /\ UNCHANGED <<money, store, history, faults>>

\* Mutant of CommitPromotion: the image's update is not tied to the key read.
CommitOverAnyKey(p) ==
  LET r == req[p].r IN
  /\ At(p, "promote")
  /\ IF image.status # "deleted"
     THEN /\ image' = [status |-> "validated", key |-> r]
          /\ IF repl[r].status = "validated"
             THEN repl' = [repl EXCEPT ![r].status = "promoted", ![r].old = req[p].key] /\ Goto(p, "charge")
             ELSE repl' = repl /\ Done(p)
     ELSE UNCHANGED rows /\ Done(p)
  /\ UNCHANGED <<money, store, history, faults>>

\* The transaction returns, and so commits, even when only the image's
\* update found its row.
CommitPromotion(p) ==
  LET r == req[p].r IN
  /\ At(p, "promote")
  /\ IF image.key = req[p].key /\ image.status # "deleted"
     THEN /\ image' = [status |-> "validated", key |-> r]
          /\ IF repl[r].status = "validated"
             THEN repl' = [repl EXCEPT ![r].status = "promoted", ![r].old = req[p].key] /\ Goto(p, "charge")
             ELSE repl' = repl /\ Done(p)
     ELSE UNCHANGED rows /\ Done(p)
  /\ UNCHANGED <<money, store, history, faults>>

ChargePromotion(p) ==
  /\ At(p, "charge")
  /\ \/ Bump(Delta(0, -1, 1)) /\ NoFault
     \/ Fault("db") /\ quota' = quota                     \* logged, and lost
  /\ Goto(p, "readyRead")
  /\ UNCHANGED <<rows, reservation, store, history>>

-----------------------------------------------------------------------------
(* cleanupOldObject, after a promotion or by retryOldStorageCleanup *)

RetryOldStorageCleanup(p, r) ==
  /\ At(p, "idle")
  /\ repl[r].status \in OldStatus /\ repl[r].old # image.key
  /\ req' = [req EXCEPT ![p] = [step |-> "oldMark", r |-> r, key |-> repl[r].old]]
  /\ UNCHANGED <<rows, money, store, history, faults>>

MarkOldStorageDeleting(p) ==
  /\ At(p, "oldMark")
  /\ CasRepl(req[p].r, OldStatus, "old_storage_deleting")
  /\ Goto(p, "oldDelete")
  /\ UNCHANGED <<image, money, store, history, faults>>

DeleteOldObject(p) ==
  /\ At(p, "oldDelete")
  /\ \/ object' = object \ {req[p].key} /\ Goto(p, "oldComplete") /\ NoFault
     \/ Fault("storage") /\ object' = object /\ Goto(p, "oldFailed")
  /\ UNCHANGED <<rows, money, signed, expired, history>>

MarkReplacementComplete(p) ==
  /\ At(p, "oldComplete")
  /\ CasRepl(req[p].r, OldStatus, "complete")
  /\ Goto(p, "oldUncharge")
  /\ UNCHANGED <<image, money, store, history, faults>>

\* Whether or not the row was still to be completed.
UnchargeOldObject(p) ==
  /\ At(p, "oldUncharge")
  /\ \/ Bump(Delta(0, 0, -1)) /\ NoFault
     \/ Fault("db") /\ quota' = quota
  /\ Done(p)
  /\ UNCHANGED <<rows, reservation, store, history>>

\* By the row's id alone.
MarkOldStorageCleanupFailed(p) ==
  /\ At(p, "oldFailed")
  /\ SetRepl(req[p].r, "old_storage_cleanup_failed")
  /\ Done(p)
  /\ UNCHANGED <<image, money, store, history, faults>>

-----------------------------------------------------------------------------
(* cancelOwnedReplacement: the status it looks at afterwards is the one it *)
(* has just written, so it never releases a reservation.                   *)

Cancellable(r) ==
  \/ repl[r].status \in CancellableStatus \cup {"cancel_cleanup_failed"}
  \/ repl[r].status = "cancelled" /\ ~repl[r].dropped
Cancel(r) == CasRepl(r, CancellableStatus, "cancelled")

AcquireCancellation(p, r) ==
  /\ Cancellable(r) /\ Cancel(r)
  /\ Start(p, "drop", r)
  /\ UNCHANGED <<image, money, store, history, faults>>

DeleteCandidate(p) ==
  /\ At(p, "drop")
  /\ \/ object' = object \ {req[p].r} /\ Goto(p, "dropped") /\ NoFault
     \/ Fault("storage") /\ object' = object /\ Goto(p, "undropped")
  /\ UNCHANGED <<rows, money, signed, expired, history>>

MarkCandidateDeleted(p) ==
  /\ At(p, "dropped")
  /\ repl' = [repl EXCEPT ![req[p].r].status = "cancelled", ![req[p].r].dropped = TRUE]
  /\ Goto(p, "uncharge")
  /\ UNCHANGED <<image, money, store, history, faults>>

UnchargeCandidate(p) ==
  /\ At(p, "uncharge")
  /\ \/ Bump(Delta(0, -1, 0)) /\ NoFault
     \/ Fault("db") /\ quota' = quota
  /\ Done(p)
  /\ UNCHANGED <<rows, reservation, store, history>>

\* The status is an open one: the index refuses it when another candidate
\* is open, and the request fails.
MarkCancelCleanupFailed(p) ==
  LET r == req[p].r IN
  /\ At(p, "undropped")
  /\ IF \E s \in Replacements \ {r} : repl[s].status \in OpenStatus
     THEN repl' = repl
     ELSE SetRepl(r, "cancel_cleanup_failed")
  /\ Done(p)
  /\ UNCHANGED <<image, money, store, history, faults>>

-----------------------------------------------------------------------------
(* validateOwnedImage and evaluateAndPromoteReady *)

AcquireImageValidation(p) ==
  /\ At(p, "idle")
  /\ \/ image.status \in {"uploaded", "validation_failed"} /\ NoFault
     \/ image.status = "validating" /\ Fault("stale")      \* after STALE_VALIDATING_MS
  /\ image' = [image EXCEPT !.status = "validating"]
  /\ req' = [req EXCEPT ![p] = [step |-> "examine", r |-> None, key |-> image.key]]
  /\ UNCHANGED <<repl, money, store, history>>

ValidateAgain(p) ==
  /\ image.status \in {"validated", "ready"}
  /\ Start(p, "readyRead", None)
  /\ UNCHANGED <<rows, money, store, history, faults>>

ExamineImage(p) ==
  /\ At(p, "examine")
  /\ \/ req[p].key \in object /\ Goto(p, "valid")
     \/ Goto(p, "invalid")
  /\ UNCHANGED <<rows, money, store, history, faults>>

\* Mutant of MarkImageValidated: the verdict does not depend on the status.
MarkValidatedAnyway(p) ==
  /\ At(p, "valid")
  /\ CasImage(ImageStatus \ {"deleted"}, "validated")
  /\ Goto(p, "readyRead")
  /\ UNCHANGED <<repl, money, store, history, faults>>

MarkImageValidated(p) ==
  /\ At(p, "valid")
  /\ CasImage({"validating"}, "validated")
  /\ IF image.status = "validating" THEN Goto(p, "readyRead") ELSE Done(p)
  /\ UNCHANGED <<repl, money, store, history, faults>>

MarkImageValidationFailed(p) ==
  /\ At(p, "invalid")
  /\ CasImage({"validating"}, "validation_failed")
  /\ Done(p)
  /\ UNCHANGED <<repl, money, store, history, faults>>

\* After a promotion the cleanup of the old object follows.
AfterReady(p) == IF req[p].r = None THEN Done(p) ELSE Goto(p, "oldMark")

EvaluateReady(p) ==
  /\ At(p, "readyRead")
  /\ \/ image.status = "validated" /\ ~AnyOpen /\ Goto(p, "ready")
     \/ image.status = "ready" /\ AnyOpen /\ Goto(p, "unready")
     \/ /\ ~(image.status = "validated" /\ ~AnyOpen) /\ ~(image.status = "ready" /\ AnyOpen)
        /\ AfterReady(p)
  /\ UNCHANGED <<rows, money, store, history, faults>>

MarkImageReady(p) ==
  /\ At(p, "ready")
  /\ CasImage({"validated"}, "ready")
  /\ AfterReady(p)
  /\ UNCHANGED <<repl, money, store, history, faults>>

DemoteInvalidReady(p) ==
  /\ At(p, "unready")
  /\ CasImage({"ready"}, "validated")
  /\ AfterReady(p)
  /\ UNCHANGED <<repl, money, store, history, faults>>

-----------------------------------------------------------------------------
(* deleteOwnedImage; UploadQuota has the steps of its cleanup and retry.    *)

BeginDeletion(p) ==
  /\ Fault("delete")
  /\ image.status # "deleted" /\ ~AnyOpen
  /\ Start(p, "hide", None)
  /\ UNCHANGED <<rows, money, store, history>>

AcquireImageDeletion(p) ==
  /\ At(p, "hide")
  /\ IF image.status # "deleted"
     THEN /\ image' = [image EXCEPT !.status = "deleted"]
          /\ req' = [req EXCEPT ![p] = [step |-> "erase", r |-> None, key |-> image.key]]
     ELSE image' = image /\ Done(p)
  /\ UNCHANGED <<repl, money, store, history, faults>>

EraseOriginal(p) ==
  /\ At(p, "erase")
  /\ object' = object \ {req[p].key}
  /\ Done(p)
  /\ UNCHANGED <<rows, money, signed, expired, history, faults>>

-----------------------------------------------------------------------------
(* recoverImageLifecycle and the reconciliation of readiness, row by row *)

\* Mutant of RecoverOld: only the rows whose cleanup has failed are selected.
RecoverFailedOnly(p, r) ==
  repl[r].status = "old_storage_cleanup_failed" /\ RetryOldStorageCleanup(p, r)

RecoverOld(p, r) == RetryOldStorageCleanup(p, r)

\* Mutant of SelectCandidate: only cancellations that failed are taken up.
SelectFailedCancel(p, r) ==
  /\ repl[r].status = "cancel_cleanup_failed"
  /\ Start(p, "cancel", r)
  /\ UNCHANGED <<rows, money, store, history, faults>>

\* Cancellations to retry, and candidates untouched for STALE_REPLACEMENT_MS,
\* which is longer than an upload URL lives; each is cancelled some time
\* after the script has listed it.
SelectCandidate(p, r) ==
  /\ \/ repl[r].status \in AbandonedStatus /\ r \in expired
     \/ repl[r].status = "cancel_cleanup_failed"
  /\ Start(p, "cancel", r)
  /\ UNCHANGED <<rows, money, store, history, faults>>

CancelSelected(p) ==
  /\ At(p, "cancel")
  /\ IF Cancellable(req[p].r)
     THEN Cancel(req[p].r) /\ Goto(p, "drop")
     ELSE repl' = repl /\ Done(p)
  /\ UNCHANGED <<image, money, store, history, faults>>

\* Mutant of ReconcileReady: only validated images are scanned.
ReconcileValidated(p) == image.status = "validated" /\ ValidateAgain(p)

ReconcileReady(p) == ValidateAgain(p)

Crash(p) ==
  /\ ~At(p, "idle") /\ Fault("crash")
  /\ Done(p)
  /\ UNCHANGED <<rows, money, store, history>>

-----------------------------------------------------------------------------
Begin(p, r) ==
  \/ BeginReplacement(p, r) \/ ConfirmReplacement(p, r) \/ AcquireReplacementValidation(p, r)
  \/ ReadForPromotion(p, r) \/ RetryOldStorageCleanup(p, r) \/ AcquireCancellation(p, r)

BeginOnImage(p) == AcquireImageValidation(p) \/ ValidateAgain(p) \/ BeginDeletion(p)

Continue(p) ==
  \/ ReserveReplacement(p) \/ InsertCandidate(p) \/ ReleaseReservation(p) \/ DemoteReady(p)
  \/ MarkReplacementUploading(p) \/ SignUpload(p)
  \/ HeadCandidate(p) \/ ConsumeReplacementReservation(p) \/ MarkReplacementUploaded(p)
  \/ RejectCandidate(p) \/ MarkReplacementFailed(p)
  \/ InspectCandidate(p) \/ MarkReplacementValidated(p)
  \/ ReadImage(p) \/ CommitPromotion(p) \/ ChargePromotion(p)
  \/ MarkOldStorageDeleting(p) \/ DeleteOldObject(p) \/ MarkReplacementComplete(p)
  \/ UnchargeOldObject(p) \/ MarkOldStorageCleanupFailed(p)
  \/ CancelSelected(p) \/ DeleteCandidate(p) \/ MarkCandidateDeleted(p) \/ UnchargeCandidate(p)
  \/ MarkCancelCleanupFailed(p)
  \/ ExamineImage(p) \/ MarkImageValidated(p) \/ MarkImageValidationFailed(p)
  \/ EvaluateReady(p) \/ MarkImageReady(p) \/ DemoteInvalidReady(p)
  \/ AcquireImageDeletion(p) \/ EraseOriginal(p)

Recover(p) == ReconcileReady(p) \/ \E r \in Replacements : RecoverOld(p, r) \/ SelectCandidate(p, r)

Next ==
  \/ \E r \in Replacements : UploadCandidate(r) \/ Expire(r)
  \/ \E p \in Requests : BeginOnImage(p) \/ \E r \in Replacements : Begin(p, r)
  \/ \E p \in Scripts : Recover(p)
  \/ \E p \in Processes : Continue(p) \/ Crash(p)

Spec == Init /\ [][Next]_vars

(* Handlers go on, and every run of the scripts comes to every row.        *)
Fairness ==
  /\ \A r \in Replacements : WF_vars(Expire(r))
  /\ \A p \in Processes : WF_vars(Continue(p))
  /\ \A p \in Scripts : SF_vars(ReconcileReady(p))
  /\ \A p \in Scripts, r \in Replacements : SF_vars(RecoverOld(p, r)) /\ SF_vars(SelectCandidate(p, r))

FairSpec == Spec /\ Fairness

-----------------------------------------------------------------------------
TypeOK ==
  /\ image \in [status : ImageStatus, key : Keys]
  /\ repl \in [Replacements -> [status : ReplStatus, old : Keys \cup {None},
                             sized : BOOLEAN, dropped : BOOLEAN]]
  /\ reservation \in [Replacements -> {"none", "reserved", "consumed", "expired", "cancelled"}]
  /\ quota \in [{"reserved", "candidate", "cleanup"} -> Nat]
  /\ object \subseteq Keys /\ signed \subseteq Replacements /\ expired \subseteq Replacements
  /\ req \in [Processes -> [step : Steps, r : Replacements \cup {None}, key : Keys]]
  /\ sound \subseteq Replacements /\ skewed \in BOOLEAN
  /\ faults \in 0 .. MaxFaults

(* The image shows its first original or a candidate whose validation      *)
(* passed, whatever confirms, rejections and cancellations cross it.       *)
ShowsValidated == image.key \in sound \cup {Original}

(* A cleanup that is about to delete an old object does not hold the key   *)
(* the image has now, however long ago it read its rows.                   *)
ActiveKeySpared ==
  \A p \in Processes : At(p, "oldMark") \/ At(p, "oldDelete") => req[p].key # image.key

(* What the code keeps of it: the promotion's two reads are what breaks it *)
(* (a later replacement in between hands the candidate's key to a cleanup),*)
(* and no order of promotions, crashes, retries and scripts besides.       *)
CleanupSparesActive == skewed \/ ActiveKeySpared

(* The reserved bytes are those of the reservations not yet consumed or    *)
(* released: no order of confirms and releases counts one twice.           *)
ReservedExact ==
  quota.reserved = Cardinality({r \in Replacements : reservation[r] \in {"reserved", "expired"}})

(* The verdict of an image's validation is about the object it has: a      *)
(* promotion in between makes the verdict void.                            *)
VerdictOnItsObject ==
  [][\A p \in Processes :
       req[p].step \in {"valid", "invalid"} /\ req'[p] # req[p] /\ image' # image
         => req[p].key = image.key]_vars

(* A deleted image stays deleted, with the key its cleanup works on: no    *)
(* promotion, verdict or readiness that read it before brings it back.     *)
DeletedStays == [][image.status = "deleted" => image' = image]_vars

(* The object of the image that users see is not deleted.                  *)
ActiveObjectKept == image.status # "deleted" => image.key \in object

(* Every old object's cleanup is completed in the end, whoever died.       *)
OldObjectsGo == \A r \in Replacements : repl[r].status \in OldStatus ~> repl[r].status = "complete"

(* An abandoned candidate does not keep its image from being replaced or   *)
(* deleted for ever.                                                       *)
AbandonedEnds == \A r \in Replacements : []<>(repl[r].status \notin AbandonedStatus \cup {"cancel_cleanup_failed"})

(* An image that is ready while a replacement is open is demoted.          *)
ReadySettles == []<>~(image.status = "ready" /\ AnyOpen)
=============================================================================
