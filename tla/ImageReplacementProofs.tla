----------------------- MODULE ImageReplacementProofs -----------------------
(***************************************************************************)
(* ImageReplacement: the promotions, cleanups, verdicts and reservations   *)
(* of one image, for any number of candidates, requests and scripts,       *)
(* whatever crashes, fails, goes stale or is deleted.                      *)
(***************************************************************************)
EXTENDS ImageReplacement, FiniteSetTheorems, TLAPS

-----------------------------------------------------------------------------
(* The inductive invariant *)

ClosedStatus == {"cancelled", "cancel_cleanup_failed"}
PromotedStatus == OldStatus \cup {"complete"}
\* What a candidate that was once validated can be.
ApprovedStatus == {"validated"} \cup ClosedStatus \cup PromotedStatus

CandidateSteps ==
  {"reserve", "insert", "demote", "uploading", "sign", "release", "head", "consume", "uploaded",
   "reject", "fail", "inspect", "approve", "readImage", "promote", "charge",
   "cancel"}
PromotionSteps == {"readImage", "promote"}
CancelSteps == {"drop", "dropped", "uncharge", "undropped"}
CleanupSteps == {"charge", "oldMark", "oldDelete", "oldComplete", "oldUncharge", "oldFailed"}
ReadySteps == {"readyRead", "ready", "unready"}
VerdictSteps == {"examine", "valid", "invalid"}
CleaningUp(rq) == rq.step \in CleanupSteps \/ (rq.step \in ReadySteps /\ rq.r # None)

\* What the row of a request's candidate is, by where the request is.
Fits(rq) ==
  /\ rq.step \in CandidateSteps \cup CancelSteps => rq.r \in Replacements
  /\ rq.step \in {"reserve", "insert"} => repl[rq.r].status = "none"
  /\ rq.step = "reserve" => reservation[rq.r] = "none"
  /\ rq.step = "insert" => reservation[rq.r] # "none"
  /\ rq.step \in CancelSteps => repl[rq.r].status \in ClosedStatus
  /\ CleaningUp(rq) => rq.r \in Replacements /\ repl[rq.r].status \in PromotedStatus
  /\ rq.step \in PromotionSteps => repl[rq.r].status \in ApprovedStatus
  /\ rq.step \in VerdictSteps => rq.r = None

RequestsFit == \A p \in Processes : Fits(req[p])

\* A begin call is alone with the id it has made up until its row is inserted.
NewIdsApart ==
  \A p, q \in Processes :
    p # q /\ req[p].step \in {"reserve", "insert"} => req[q].r # req[p].r

\* A promoted row names the key it replaced.
PromotedHasOld == \A r \in Replacements : repl[r].status \in PromotedStatus => repl[r].old \in Keys

\* A candidate's bytes are reserved before its row is inserted.
RowsReserved == \A r \in Replacements : reservation[r] = "none" => repl[r].status = "none"

PlaceInv == TypeOK /\ RequestsFit /\ NewIdsApart /\ PromotedHasOld /\ RowsReserved

\* The keys that are, or have been, the image's and are still remembered.
Remembered(k) ==
  \/ image.key = k
  \/ \E p \in Processes : req[p].key = k
  \/ \E r \in Replacements : repl[r].old = k

RememberedIsApproved ==
  \A r \in Replacements : Remembered(r) => repl[r].status \in ClosedStatus \cup PromotedStatus

\* A promotion that can still commit brings a key the image never had.
PromotionsAreNew ==
  \A p \in Processes : At(p, "promote") /\ req[p].key = image.key => ~Remembered(req[p].r)

\* The image never returns to a key that was replaced.
OldIsPast == \A r \in Replacements : repl[r].old # image.key
CleanupIsPast == \A p \in Processes : CleaningUp(req[p]) => req[p].key # image.key

\* A promotion whose candidate was promoted between its two reads breaks these.
KeysAreNew == PromotionsAreNew /\ OldIsPast /\ CleanupIsPast

KeyInv == RememberedIsApproved /\ (skewed \/ KeysAreNew)

\* Only the first original is ever validated as the image's own.
VerdictsOnOriginal ==
  /\ image.status \in {"uploaded", "validating", "validation_failed"} => image.key = Original
  /\ \A p \in Processes : req[p].step \in VerdictSteps => req[p].key = Original

SoundInv ==
  /\ \A r \in Replacements : repl[r].status = "validated" => r \in sound
  /\ \A p \in Processes : req[p].step \in PromotionSteps => req[p].r \in sound
  /\ ShowsValidated

-----------------------------------------------------------------------------
(* Types *)

Place == [step : Steps, r : Replacements \cup {None}, key : Keys]

\* A request that moves, starts or ends stays a request; the others stand still.
Moves(p) ==
  /\ req' \in [Processes -> Place]
  /\ \A q \in Processes \ {p} : req'[q] = req[q]

LEMMA MovesOn ==
  ASSUME TypeOK, NEW p \in Processes,
         \/ Done(p)
         \/ \E step \in Steps : Goto(p, step)
         \/ \E step \in Steps, r \in Replacements \cup {None} : Start(p, step, r)
         \/ \E new \in Place : req' = [req EXCEPT ![p] = new]
  PROVE  Moves(p)
  <1>1. req \in [Processes -> Place]
    BY DEF TypeOK, Place
  <1>2. NoRequest \in Place
    BY DEF NoRequest, Place, Steps, Keys
  <1>3. CASE Done(p)
    BY <1>1, <1>2, <1>3 DEF Done, Moves
  <1>4. ASSUME NEW step \in Steps, Goto(p, step) PROVE Moves(p)
    BY <1>1, <1>4 DEF Goto, Moves, Place
  <1>5. ASSUME NEW step \in Steps, NEW r \in Replacements \cup {None}, Start(p, step, r)
        PROVE  Moves(p)
    BY <1>1, <1>2, <1>5 DEF Start, Moves, Place
  <1>6. ASSUME NEW new \in Place, req' = [req EXCEPT ![p] = new] PROVE Moves(p)
    BY <1>1, <1>6 DEF Moves
  <1> QED BY <1>3, <1>4, <1>5, <1>6

\* A request that goes on keeps its candidate and its key, or forgets them; a
\* promotion and a deletion take the image's key.
LEMMA ContinueMoves ==
  ASSUME TypeOK, NEW p \in Processes, Continue(p)
  PROVE  /\ Moves(p)
         /\ \/ req'[p].r = req[p].r /\ req'[p].key = req[p].key
            \/ req'[p].r = req[p].r /\ req'[p].key = image.key /\ req'[p].step = "promote"
            \/ req'[p].r = None /\ req'[p].key \in {Original, image.key}
               /\ req'[p].step \in {"idle", "erase"}
  <1>t. req \in [Processes -> Place]
    BY DEF TypeOK, Place
  <1>1. CASE AcquireImageDeletion(p)
    <2>1. [step |-> "erase", r |-> None, key |-> image.key] \in Place
      BY DEF Place, Steps, TypeOK
    <2> QED BY <1>1, <1>t, <2>1, MovesOn DEF AcquireImageDeletion, Done, NoRequest
  <1>3. CASE ReadImage(p)
    <2> DEFINE new == [req[p] EXCEPT !.step = "promote", !.key = image.key]
    <2>1. new \in Place /\ new.step = "promote" /\ new.r = req[p].r /\ new.key = image.key
      <3>1. req[p] \in Place /\ image.key \in Keys /\ "promote" \in Steps
        BY <1>t DEF Steps, TypeOK
      <3> QED BY <3>1 DEF Place
    <2>2. CASE req' = [req EXCEPT ![p].step = "promote", ![p].key = image.key]
      <3>1. req' = [req EXCEPT ![p] = new]
        BY <1>t, <2>2 DEF Place
      <3>2. req'[p] = new
        BY <1>t, <3>1
      <3> HIDE DEF new
      <3> QED BY <2>1, <3>1, <3>2, MovesOn
    <2>3. CASE Done(p)
      BY <1>t, <2>3, MovesOn DEF Done, NoRequest
    <2> QED BY <1>3, <2>2, <2>3 DEF ReadImage
  <1>2. CASE ~AcquireImageDeletion(p) /\ ~ReadImage(p)
    <2>1. Done(p) \/ \E step \in Steps : Goto(p, step)
      BY <1>2 DEF Continue, ReserveReplacement, InsertCandidate, ReleaseReservation, DemoteReady,
       MarkReplacementUploading, SignUpload, HeadCandidate, ConsumeReplacementReservation,
       MarkReplacementUploaded, RejectCandidate, MarkReplacementFailed, InspectCandidate,
       MarkReplacementValidated, ReadImage, CommitPromotion, ChargePromotion, MarkOldStorageDeleting,
       DeleteOldObject, MarkReplacementComplete, UnchargeOldObject, MarkOldStorageCleanupFailed,
       CancelSelected, DeleteCandidate, MarkCandidateDeleted, UnchargeCandidate,
       MarkCancelCleanupFailed, ExamineImage, MarkImageValidated, MarkImageValidationFailed,
       EvaluateReady, MarkImageReady, DemoteInvalidReady, EraseOriginal, AcquireImageDeletion,
         AfterReady, Steps
    <2>2. CASE Done(p)
      BY <1>t, <2>2, MovesOn DEF Done, NoRequest
    <2>3. ASSUME NEW step \in Steps, Goto(p, step) PROVE req'[p].r = req[p].r /\ req'[p].key = req[p].key
      BY <1>t, <2>3 DEF Goto, Place
    <2> QED BY <2>1, <2>2, <2>3, MovesOn
  <1> QED BY <1>1, <1>2, <1>3

Row == [status : ReplStatus, old : Keys \cup {None}, sized : BOOLEAN, dropped : BOOLEAN]
Reservation == {"none", "reserved", "consumed", "expired", "cancelled"}

\* The first step of a request or of a script on a row.
BeginAny(p) ==
  BeginOnImage(p) \/ \E r \in Replacements : Begin(p, r) \/ SelectCandidate(p, r)

LEMMA BeginMoves ==
  ASSUME PlaceInv, NEW p \in Processes, BeginAny(p)
  PROVE  Moves(p)
  <1>2. ASSUME NEW r \in Replacements, RetryOldStorageCleanup(p, r) PROVE Moves(p)
    <2>1. [step |-> "oldMark", r |-> r, key |-> repl[r].old] \in Place
      BY <1>2 DEF RetryOldStorageCleanup, Place, Steps, PlaceInv, PromotedHasOld, PromotedStatus
    <2> QED BY <1>2, <2>1, MovesOn DEF RetryOldStorageCleanup, PlaceInv
  <1>3. CASE AcquireImageValidation(p)
    <2>1. [step |-> "examine", r |-> None, key |-> image.key] \in Place
      BY DEF Place, Steps, PlaceInv, TypeOK
    <2> QED BY <1>3, <2>1, MovesOn DEF AcquireImageValidation, PlaceInv
  <1>4. ASSUME \E step \in Steps, r \in Replacements \cup {None} : Start(p, step, r)
        PROVE  Moves(p)
    BY <1>4, MovesOn DEF PlaceInv
  <1>5. CASE ValidateAgain(p) \/ BeginDeletion(p)
    BY <1>4, <1>5 DEF ValidateAgain, BeginDeletion, Steps
  <1>6. ASSUME NEW r \in Replacements,
               BeginReplacement(p, r) \/ ConfirmReplacement(p, r) \/ AcquireReplacementValidation(p, r)
                 \/ ReadForPromotion(p, r) \/ AcquireCancellation(p, r) \/ SelectCandidate(p, r)
        PROVE  Moves(p)
    BY <1>4, <1>6 DEF BeginReplacement, ConfirmReplacement, AcquireReplacementValidation,
       ReadForPromotion, AcquireCancellation, SelectCandidate, Steps
  <1> QED BY <1>2, <1>3, <1>5, <1>6 DEF BeginAny, BeginOnImage, Begin

LEMMA BumpTypes ==
  ASSUME TypeOK, NEW a \in Int, NEW b \in Int, NEW c \in Int, Bump(Delta(a, b, c))
  PROVE  quota' \in [{"reserved", "candidate", "cleanup"} -> Nat]
  BY DEF TypeOK, Bump, Delta

\* A row that was approved, cancelled or promoted goes no way back.
Evolves(old, new) ==
  /\ old.status \in ClosedStatus => new.status \in ClosedStatus
  /\ old.status \in PromotedStatus => new.status \in PromotedStatus /\ new.old = old.old
  /\ old.status \in ApprovedStatus => new.status \in ApprovedStatus
  /\ new.status \in PromotedStatus => new.old \in Keys
  /\ new.status = "validated" => old.status \in {"validated", "validating"}

RowEvolves(r) ==
  \/ repl' = repl
  \/ /\ r \in Replacements
     /\ \E new \in Row : Evolves(repl[r], new) /\ repl' = [repl EXCEPT ![r] = new]

\* A status write is one of four kinds.
LEMMA StatusEvolves ==
  ASSUME PlaceInv, NEW r \in Replacements, NEW st \in ReplStatus, SetRepl(r, st),
         \/ repl[r].status \notin ApprovedStatus /\ st \notin PromotedStatus \cup {"validated"}
         \/ repl[r].status = "validating" /\ st = "validated"
         \/ repl[r].status \notin PromotedStatus /\ st \in ClosedStatus
         \/ repl[r].status \in PromotedStatus /\ st \in PromotedStatus
  PROVE  RowEvolves(r)
  <1> DEFINE new == [repl[r] EXCEPT !.status = st]
  <1>1. repl[r] \in Row
    BY DEF PlaceInv, TypeOK, Row
  <1>2. new \in Row /\ new.status = st /\ new.old = repl[r].old
    BY <1>1 DEF Row
  <1>3. repl' = [repl EXCEPT ![r] = new]
    BY DEF SetRepl
  <1>4. Evolves(repl[r], new)
    BY <1>2 DEF Evolves, PlaceInv, PromotedHasOld, ApprovedStatus, ClosedStatus, PromotedStatus, OldStatus
  <1> QED BY <1>2, <1>3, <1>4 DEF RowEvolves

LEMMA ContinueEvolves ==
  ASSUME PlaceInv, NEW p \in Processes, Continue(p)
  PROVE  RowEvolves(req[p].r)
  <1> DEFINE r == req[p].r
  <1>f. Fits(req[p])
    BY DEF PlaceInv, RequestsFit
  <1>t. r \in Replacements => repl[r] \in Row
    BY DEF PlaceInv, TypeOK, Row
  <1> USE DEF ReplStatus, OpenStatus, CancellableStatus, FailableStatus, OldStatus, UnconfirmedStatus,
          ApprovedStatus, ClosedStatus, PromotedStatus, CandidateSteps, CancelSteps, CleanupSteps, At
  <1>1. CASE InsertCandidate(p)
    BY <1>1, <1>f, StatusEvolves DEF InsertCandidate, Fits, RowEvolves
  <1>2. CASE MarkReplacementUploading(p)
    BY <1>2, <1>f, StatusEvolves DEF MarkReplacementUploading, CasRepl, Fits, RowEvolves
  <1>3. CASE MarkReplacementUploaded(p)
    <2> DEFINE new == [repl[r] EXCEPT !.status = "uploaded", !.sized = TRUE]
    <2>1. CASE repl[r].status \in UnconfirmedStatus \cup {"uploaded"}
      <3>1. r \in Replacements
        BY <1>3, <1>f DEF MarkReplacementUploaded, Fits
      <3>2. new \in Row /\ new.status = "uploaded"
        BY <3>1, <1>t DEF Row
      <3>3. repl' = [repl EXCEPT ![r] = new]
        BY <1>3, <2>1, <3>1, <1>t DEF MarkReplacementUploaded, PlaceInv, TypeOK
      <3>4. Evolves(repl[r], new)
        BY <2>1, <3>2 DEF Evolves
      <3> QED BY <3>1, <3>2, <3>3, <3>4 DEF RowEvolves
    <2>2. CASE repl[r].status \notin UnconfirmedStatus \cup {"uploaded"}
      BY <1>3, <2>2 DEF MarkReplacementUploaded, RowEvolves
    <2> QED BY <2>1, <2>2
  <1>4. CASE MarkReplacementFailed(p)
    BY <1>4, <1>f, StatusEvolves DEF MarkReplacementFailed, CasRepl, Fits, RowEvolves
  <1>5. CASE MarkReplacementValidated(p)
    BY <1>5, <1>f, StatusEvolves DEF MarkReplacementValidated, CasRepl, Fits, RowEvolves
  <1>6. CASE CommitPromotion(p)
    <2> DEFINE new == [repl[r] EXCEPT !.status = "promoted", !.old = req[p].key]
    <2>1. CASE repl[r].status = "validated" /\ repl' # repl
      <3>1. r \in Replacements /\ req[p].key \in Keys
        BY <1>6, <1>f DEF CommitPromotion, Fits, PlaceInv, TypeOK
      <3>2. new \in Row /\ new.status = "promoted" /\ new.old = req[p].key
        BY <3>1, <1>t DEF Row
      <3>3. repl' = [repl EXCEPT ![r] = new]
        BY <1>6, <2>1, <3>1, <1>t DEF CommitPromotion, PlaceInv, TypeOK, rows
      <3>4. Evolves(repl[r], new)
        BY <2>1, <3>1, <3>2 DEF Evolves
      <3> QED BY <3>1, <3>2, <3>3, <3>4 DEF RowEvolves
    <2>2. CASE repl[r].status # "validated"
      BY <1>6, <2>2 DEF CommitPromotion, RowEvolves, rows
    <2> QED BY <2>1, <2>2 DEF RowEvolves
  <1>7. CASE MarkOldStorageDeleting(p)
    BY <1>7, <1>f, StatusEvolves DEF MarkOldStorageDeleting, CasRepl, Fits, CleaningUp, RowEvolves
  <1>8. CASE MarkReplacementComplete(p)
    BY <1>8, <1>f, StatusEvolves DEF MarkReplacementComplete, CasRepl, Fits, CleaningUp, RowEvolves
  <1>9. CASE MarkOldStorageCleanupFailed(p)
    BY <1>9, <1>f, StatusEvolves DEF MarkOldStorageCleanupFailed, Fits, CleaningUp
  <1>10. CASE CancelSelected(p)
    BY <1>10, <1>f, StatusEvolves DEF CancelSelected, Cancel, CasRepl, Fits, RowEvolves
  <1>11. CASE MarkCandidateDeleted(p)
    <2> DEFINE new == [repl[r] EXCEPT !.status = "cancelled", !.dropped = TRUE]
    <2>1. r \in Replacements /\ repl[r].status \in ClosedStatus
      BY <1>11, <1>f DEF MarkCandidateDeleted, Fits
    <2>2. new \in Row /\ new.status = "cancelled"
      BY <2>1, <1>t DEF Row
    <2>3. repl' = [repl EXCEPT ![r] = new]
      BY <1>11, <2>1, <1>t DEF MarkCandidateDeleted, PlaceInv, TypeOK
    <2>4. Evolves(repl[r], new)
      BY <2>1, <2>2 DEF Evolves
    <2> QED BY <2>1, <2>2, <2>3, <2>4 DEF RowEvolves
  <1>12. CASE MarkCancelCleanupFailed(p)
    BY <1>12, <1>f, StatusEvolves DEF MarkCancelCleanupFailed, Fits, RowEvolves
  <1>13. CASE UNCHANGED repl
    BY <1>13 DEF RowEvolves
  <1> QED BY <1>1, <1>2, <1>3, <1>4, <1>5, <1>6, <1>7, <1>8, <1>9, <1>10, <1>11, <1>12, <1>13
          DEF Continue, ReserveReplacement, ReleaseReservation, DemoteReady, SignUpload, HeadCandidate,
       ConsumeReplacementReservation, RejectCandidate, InspectCandidate, ReadImage, ChargePromotion,
       DeleteOldObject, UnchargeOldObject, DeleteCandidate, UnchargeCandidate, ExamineImage,
       MarkImageValidated, MarkImageValidationFailed, EvaluateReady, MarkImageReady,
       DemoteInvalidReady, EraseOriginal, AcquireImageDeletion, rows

LEMMA BeginEvolves ==
  ASSUME PlaceInv, NEW p \in Processes, BeginAny(p)
  PROVE  \E r \in Replacements \cup {None} : RowEvolves(r) /\ (repl' # repl => req'[p].r = r)
  <1>t. req \in [Processes -> Place]
    BY DEF PlaceInv, TypeOK, Place
  <1>1. ASSUME NEW r \in Replacements, AcquireReplacementValidation(p, r) \/ AcquireCancellation(p, r)
        PROVE  RowEvolves(r) /\ req'[p].r = r
    <2>1. req'[p].r = r
      BY <1>1, <1>t DEF AcquireReplacementValidation, AcquireCancellation, Start, NoRequest
    <2>2. RowEvolves(r)
      BY <1>1, StatusEvolves DEF AcquireReplacementValidation, AcquireCancellation, Cancel, CasRepl, RowEvolves,
         ReplStatus, OpenStatus, CancellableStatus, FailableStatus, OldStatus, ApprovedStatus, ClosedStatus, PromotedStatus
    <2> QED BY <2>1, <2>2
  <1>2. CASE UNCHANGED repl
    BY <1>2 DEF RowEvolves
  <1> QED BY <1>1, <1>2
       DEF BeginAny, BeginOnImage, Begin, BeginReplacement, ConfirmReplacement, ReadForPromotion,
       RetryOldStorageCleanup, SelectCandidate, AcquireImageValidation, ValidateAgain, BeginDeletion, rows

LEMMA EvolvedRows ==
  ASSUME PlaceInv, NEW r, RowEvolves(r)
  PROVE  /\ repl' \in [Replacements -> Row]
         /\ \A x \in Replacements : Evolves(repl[x], repl'[x])
         /\ \A x \in Replacements : x # r => repl'[x] = repl[x]
  <1>1. \A x \in Replacements : Evolves(repl[x], repl[x])
    BY DEF Evolves, PlaceInv, PromotedHasOld
  <1>2. repl \in [Replacements -> Row]
    BY DEF PlaceInv, TypeOK, Row
  <1> QED BY <1>1, <1>2 DEF RowEvolves

LEMMA ContinueTypes ==
  ASSUME PlaceInv, NEW p \in Processes, Continue(p)
  PROVE  TypeOK'
  <1>1. req' \in [Processes -> Place]
    BY ContinueMoves DEF Moves, PlaceInv
  <1>2. repl' \in [Replacements -> Row]
    BY ContinueEvolves, EvolvedRows
  <1>3. image' \in [status : ImageStatus, key : Keys]
    BY DEF PlaceInv, TypeOK, RequestsFit, Fits, CandidateSteps, Keys, Continue, ReserveReplacement, InsertCandidate, ReleaseReservation, DemoteReady,
       MarkReplacementUploading, SignUpload, HeadCandidate, ConsumeReplacementReservation,
       MarkReplacementUploaded, RejectCandidate, MarkReplacementFailed, InspectCandidate,
       MarkReplacementValidated, ReadImage, CommitPromotion, ChargePromotion, MarkOldStorageDeleting,
       DeleteOldObject, MarkReplacementComplete, UnchargeOldObject, MarkOldStorageCleanupFailed,
       CancelSelected, DeleteCandidate, MarkCandidateDeleted, UnchargeCandidate,
       MarkCancelCleanupFailed, ExamineImage, MarkImageValidated, MarkImageValidationFailed,
       EvaluateReady, MarkImageReady, DemoteInvalidReady, EraseOriginal, AcquireImageDeletion,
       rows, CasImage, ImageStatus, At
  <1>4. reservation' \in [Replacements -> Reservation]
    BY DEF PlaceInv, TypeOK, Reservation, Continue, ReserveReplacement, InsertCandidate, ReleaseReservation, DemoteReady,
       MarkReplacementUploading, SignUpload, HeadCandidate, ConsumeReplacementReservation,
       MarkReplacementUploaded, RejectCandidate, MarkReplacementFailed, InspectCandidate,
       MarkReplacementValidated, ReadImage, CommitPromotion, ChargePromotion, MarkOldStorageDeleting,
       DeleteOldObject, MarkReplacementComplete, UnchargeOldObject, MarkOldStorageCleanupFailed,
       CancelSelected, DeleteCandidate, MarkCandidateDeleted, UnchargeCandidate,
       MarkCancelCleanupFailed, ExamineImage, MarkImageValidated, MarkImageValidationFailed,
       EvaluateReady, MarkImageReady, DemoteInvalidReady, EraseOriginal, AcquireImageDeletion,
       money
  <1>5. quota' = quota \/ \E a, b, c \in Int : Bump(Delta(a, b, c))
    BY DEF Continue, ReserveReplacement, InsertCandidate, ReleaseReservation, DemoteReady,
       MarkReplacementUploading, SignUpload, HeadCandidate, ConsumeReplacementReservation,
       MarkReplacementUploaded, RejectCandidate, MarkReplacementFailed, InspectCandidate,
       MarkReplacementValidated, ReadImage, CommitPromotion, ChargePromotion, MarkOldStorageDeleting,
       DeleteOldObject, MarkReplacementComplete, UnchargeOldObject, MarkOldStorageCleanupFailed,
       CancelSelected, DeleteCandidate, MarkCandidateDeleted, UnchargeCandidate,
       MarkCancelCleanupFailed, ExamineImage, MarkImageValidated, MarkImageValidationFailed,
       EvaluateReady, MarkImageReady, DemoteInvalidReady, EraseOriginal, AcquireImageDeletion,
       money
  <1>6. quota' \in [{"reserved", "candidate", "cleanup"} -> Nat]
    BY <1>5, BumpTypes DEF PlaceInv, TypeOK
  <1>7. object' \subseteq Keys /\ expired' \subseteq Replacements
    BY DEF PlaceInv, TypeOK, Continue, ReserveReplacement, InsertCandidate, ReleaseReservation, DemoteReady,
       MarkReplacementUploading, SignUpload, HeadCandidate, ConsumeReplacementReservation,
       MarkReplacementUploaded, RejectCandidate, MarkReplacementFailed, InspectCandidate,
       MarkReplacementValidated, ReadImage, CommitPromotion, ChargePromotion, MarkOldStorageDeleting,
       DeleteOldObject, MarkReplacementComplete, UnchargeOldObject, MarkOldStorageCleanupFailed,
       CancelSelected, DeleteCandidate, MarkCandidateDeleted, UnchargeCandidate,
       MarkCancelCleanupFailed, ExamineImage, MarkImageValidated, MarkImageValidationFailed,
       EvaluateReady, MarkImageReady, DemoteInvalidReady, EraseOriginal, AcquireImageDeletion,
       store
  <1>8. signed' \subseteq Replacements /\ sound' \subseteq Replacements /\ skewed' \in BOOLEAN
    BY DEF PlaceInv, TypeOK, RequestsFit, Fits, CandidateSteps, At, Continue, ReserveReplacement, InsertCandidate, ReleaseReservation, DemoteReady,
       MarkReplacementUploading, SignUpload, HeadCandidate, ConsumeReplacementReservation,
       MarkReplacementUploaded, RejectCandidate, MarkReplacementFailed, InspectCandidate,
       MarkReplacementValidated, ReadImage, CommitPromotion, ChargePromotion, MarkOldStorageDeleting,
       DeleteOldObject, MarkReplacementComplete, UnchargeOldObject, MarkOldStorageCleanupFailed,
       CancelSelected, DeleteCandidate, MarkCandidateDeleted, UnchargeCandidate,
       MarkCancelCleanupFailed, ExamineImage, MarkImageValidated, MarkImageValidationFailed,
       EvaluateReady, MarkImageReady, DemoteInvalidReady, EraseOriginal, AcquireImageDeletion,
       store, history
  <1>9. faults' \in 0 .. MaxFaults
    BY ReplacementAssumption DEF ReplacementAssumption, PlaceInv, TypeOK, Fault, NoFault, Continue, ReserveReplacement, InsertCandidate, ReleaseReservation, DemoteReady,
       MarkReplacementUploading, SignUpload, HeadCandidate, ConsumeReplacementReservation,
       MarkReplacementUploaded, RejectCandidate, MarkReplacementFailed, InspectCandidate,
       MarkReplacementValidated, ReadImage, CommitPromotion, ChargePromotion, MarkOldStorageDeleting,
       DeleteOldObject, MarkReplacementComplete, UnchargeOldObject, MarkOldStorageCleanupFailed,
       CancelSelected, DeleteCandidate, MarkCandidateDeleted, UnchargeCandidate,
       MarkCancelCleanupFailed, ExamineImage, MarkImageValidated, MarkImageValidationFailed,
       EvaluateReady, MarkImageReady, DemoteInvalidReady, EraseOriginal, AcquireImageDeletion
  <1> QED BY <1>1, <1>2, <1>3, <1>4, <1>6, <1>7, <1>8, <1>9 DEF TypeOK, Place, Row, Reservation

LEMMA BeginTypes ==
  ASSUME PlaceInv, NEW p \in Processes, BeginAny(p)
  PROVE  TypeOK'
  <1>1. req' \in [Processes -> Place]
    BY BeginMoves DEF Moves
  <1>2. image' \in [status : ImageStatus, key : Keys]
    BY DEF PlaceInv, TypeOK, BeginAny, BeginOnImage, Begin, BeginReplacement, ConfirmReplacement, AcquireReplacementValidation,
       ReadForPromotion, RetryOldStorageCleanup, AcquireCancellation, SelectCandidate,
       AcquireImageValidation, ValidateAgain, BeginDeletion, rows, ImageStatus
  <1>5. repl' \in [Replacements -> Row]
    BY BeginEvolves, EvolvedRows
  <1>3. faults' \in 0 .. MaxFaults
    BY ReplacementAssumption DEF ReplacementAssumption, PlaceInv, TypeOK, Fault, NoFault,
       BeginAny, BeginOnImage, Begin, BeginReplacement, ConfirmReplacement, AcquireReplacementValidation,
       ReadForPromotion, RetryOldStorageCleanup, AcquireCancellation, SelectCandidate,
       AcquireImageValidation, ValidateAgain, BeginDeletion
  <1>4. UNCHANGED <<money, store, history>>
    BY DEF BeginAny, BeginOnImage, Begin, BeginReplacement, ConfirmReplacement, AcquireReplacementValidation,
       ReadForPromotion, RetryOldStorageCleanup, AcquireCancellation, SelectCandidate,
       AcquireImageValidation, ValidateAgain, BeginDeletion
  <1> QED BY <1>1, <1>2, <1>3, <1>4, <1>5 DEF PlaceInv, TypeOK, Place, Row, money, store, history

-----------------------------------------------------------------------------
(* Where requests are *)

\* Only the request that made an id up writes its row or reservation first.
LeavesNew(p) ==
  \A r \in Replacements : r # req[p].r =>
    /\ repl[r].status = "none" => repl'[r].status = "none"
    /\ reservation[r] = "none" <=> reservation'[r] = "none"

LEMMA PlacesKept ==
  ASSUME PlaceInv, TypeOK', NEW p \in Processes, Moves(p), LeavesNew(p), Fits(req[p])',
         \A r \in Replacements : Evolves(repl[r], repl'[r]), RowsReserved',
         \A q \in Processes \ {p} :
           req'[p].step \in {"reserve", "insert"} \/ req[q].step \in {"reserve", "insert"}
             => req'[p].r # req[q].r
  PROVE  PlaceInv'
  <1>1. ASSUME NEW q \in Processes \ {p} PROVE Fits(req[q])'
    <2>1. req'[q] = req[q] /\ Fits(req[q])
      BY <1>1 DEF Moves, PlaceInv, RequestsFit
    <2>2. req[q].step \in {"reserve", "insert"} => req[q].r # req[p].r
      BY <1>1 DEF PlaceInv, NewIdsApart
    <2> QED BY <2>1, <2>2
            DEF Fits, CleaningUp, CandidateSteps, PromotionSteps, CancelSteps, VerdictSteps, Evolves, LeavesNew
  <1>2. RequestsFit'
    BY <1>1 DEF RequestsFit
  <1>3. NewIdsApart'
    BY DEF NewIdsApart, PlaceInv, Moves
  <1>4. PromotedHasOld'
    BY DEF PromotedHasOld, Evolves
  <1> QED BY <1>2, <1>3, <1>4 DEF PlaceInv


LEMMA ContinueLeavesNew ==
  ASSUME PlaceInv, NEW p \in Processes, Continue(p)
  PROVE  LeavesNew(p)
  <1>1. \A r \in Replacements : r # req[p].r => repl'[r] = repl[r]
    BY ContinueEvolves, EvolvedRows
  <1>2. \A r \in Replacements : r # req[p].r => reservation'[r] = reservation[r]
    BY DEF PlaceInv, TypeOK, Continue, ReserveReplacement, InsertCandidate, ReleaseReservation, DemoteReady,
       MarkReplacementUploading, SignUpload, HeadCandidate, ConsumeReplacementReservation,
       MarkReplacementUploaded, RejectCandidate, MarkReplacementFailed, InspectCandidate,
       MarkReplacementValidated, ReadImage, CommitPromotion, ChargePromotion, MarkOldStorageDeleting,
       DeleteOldObject, MarkReplacementComplete, UnchargeOldObject, MarkOldStorageCleanupFailed,
       CancelSelected, DeleteCandidate, MarkCandidateDeleted, UnchargeCandidate,
       MarkCancelCleanupFailed, ExamineImage, MarkImageValidated, MarkImageValidationFailed,
       EvaluateReady, MarkImageReady, DemoteInvalidReady, EraseOriginal, AcquireImageDeletion,
       money
  <1> QED BY <1>1, <1>2 DEF LeavesNew

\* Where a continued request comes to, its row is as that place wants it.
LEMMA ContinueFits ==
  ASSUME PlaceInv, NEW p \in Processes, Continue(p)
  PROVE  Fits(req[p])' /\ (req'[p].step \in {"reserve", "insert"} => At(p, "reserve") /\ req'[p].r = req[p].r)
  <1>t. req \in [Processes -> Place] /\ req' \in [Processes -> Place]
    BY ContinueMoves DEF PlaceInv, TypeOK, Place, Moves
  <1>f. Fits(req[p])
    BY DEF PlaceInv, RequestsFit
  <1>e. req[p].r \in Replacements => Evolves(repl[req[p].r], repl'[req[p].r])
    BY ContinueEvolves, EvolvedRows
  <1>n. ReplacementAssumption /\ NoRequest.step = "idle" /\ NoRequest.r = None
    BY ReplacementAssumption DEF NoRequest
  <1> USE DEF CandidateSteps, PromotionSteps, CancelSteps, CleanupSteps, ReadySteps, CleaningUp, At
  <1>d. CASE Done(p)
    BY <1>d, <1>t, <1>n DEF Done, Fits
  <1>g. ASSUME NEW step, Goto(p, step)
        PROVE  req'[p].step = step /\ req'[p].r = req[p].r
    BY <1>g, <1>t DEF Goto, Place
  <1>1. CASE ReserveReplacement(p)
    <2>1. CASE Goto(p, "insert")
      <3>1. repl' = repl /\ reservation'[req[p].r] # "none"
        BY <1>1, <1>f, <2>1, <1>t, <1>n DEF ReserveReplacement, Fits, rows, PlaceInv, TypeOK, Goto, Done, money, Place
      <3> QED BY <1>1, <1>g, <1>f, <2>1, <3>1 DEF ReserveReplacement, Fits, VerdictSteps
    <2>2. CASE ~Goto(p, "insert")
      BY <1>1, <1>d, <2>2 DEF ReserveReplacement
    <2> QED BY <2>1, <2>2
  <1>2. CASE CommitPromotion(p)
    <2>1. CASE Goto(p, "charge")
      <3>1. repl'[req[p].r].status \in PromotedStatus
        BY <1>2, <1>f, <1>t, <2>1, <1>g DEF CommitPromotion, Fits, PlaceInv, TypeOK, PromotedStatus, OldStatus, Done, NoRequest
      <3>2. req[p].r \in Replacements
        BY <1>2, <1>f DEF CommitPromotion, Fits
      <3> QED BY <1>g, <2>1, <3>1, <3>2 DEF Fits, VerdictSteps
    <2>2. CASE ~Goto(p, "charge")
      BY <1>2, <1>d, <2>2 DEF CommitPromotion
    <2> QED BY <2>1, <2>2
  <1>3. CASE CancelSelected(p)
    <2>1. CASE Cancellable(req[p].r)
      <3>1. req[p].r \in Replacements
        BY <1>3, <1>f DEF CancelSelected, Fits
      <3>2. repl'[req[p].r].status \in ClosedStatus
        BY <1>3, <2>1, <3>1 DEF CancelSelected, Cancel, CasRepl, SetRepl, PlaceInv, TypeOK, Cancellable, ClosedStatus
      <3>3. Goto(p, "drop")
        BY <1>3, <2>1 DEF CancelSelected
      <3> QED BY <1>g, <3>1, <3>2, <3>3 DEF Fits, VerdictSteps
    <2>2. CASE ~Cancellable(req[p].r)
      BY <1>3, <1>d, <2>2 DEF CancelSelected
    <2> QED BY <2>1, <2>2
  <1>4. CASE AcquireImageDeletion(p)
    BY <1>4, <1>d, <1>t, <1>n DEF AcquireImageDeletion, Fits
  <1>5. ASSUME req[p].step \in CandidateSteps \ PromotionSteps,
               NEW step \in CandidateSteps \ (PromotionSteps \cup {"reserve", "insert", "charge"}), Goto(p, step)
        PROVE  Fits(req[p])' /\ req'[p].step \notin {"reserve", "insert"}
    BY <1>5, <1>f, <1>g DEF Fits, VerdictSteps
  <1>6. ASSUME req[p].step \in CancelSteps, NEW step \in CancelSteps, Goto(p, step)
        PROVE  Fits(req[p])' /\ req'[p].step \notin {"reserve", "insert"}
    BY <1>6, <1>e, <1>f, <1>g DEF Fits, Evolves, VerdictSteps
  <1>7. ASSUME CleaningUp(req[p]), NEW step \in (CleanupSteps \ {"charge"}) \cup ReadySteps, Goto(p, step)
        PROVE  Fits(req[p])' /\ req'[p].step \notin {"reserve", "insert"}
    BY <1>7, <1>e, <1>f, <1>g DEF Fits, Evolves, VerdictSteps
  <1>8. ASSUME req[p].r = None, NEW step \in VerdictSteps \cup ReadySteps, Goto(p, step)
        PROVE  Fits(req[p])' /\ req'[p].step \notin {"reserve", "insert"}
    BY <1>8, <1>g DEF Fits, VerdictSteps
  <1>a. CASE InsertCandidate(p) \/ ReleaseReservation(p) \/ DemoteReady(p) \/ MarkReplacementUploading(p)
               \/ SignUpload(p) \/ HeadCandidate(p) \/ ConsumeReplacementReservation(p)
               \/ MarkReplacementUploaded(p) \/ RejectCandidate(p) \/ MarkReplacementFailed(p)
               \/ InspectCandidate(p) \/ MarkReplacementValidated(p)
    <2>1. req[p].step \in CandidateSteps \ PromotionSteps
      BY <1>a DEF InsertCandidate, ReleaseReservation, DemoteReady, MarkReplacementUploading,
         SignUpload, HeadCandidate, ConsumeReplacementReservation, MarkReplacementUploaded, RejectCandidate,
         MarkReplacementFailed, InspectCandidate, MarkReplacementValidated
    <2>2. Done(p) \/ \E step \in CandidateSteps \ (PromotionSteps \cup {"reserve", "insert", "charge"}) : Goto(p, step)
      BY <1>a DEF InsertCandidate, ReleaseReservation, DemoteReady, MarkReplacementUploading,
         SignUpload, HeadCandidate, ConsumeReplacementReservation, MarkReplacementUploaded, RejectCandidate,
         MarkReplacementFailed, InspectCandidate, MarkReplacementValidated
    <2> QED BY <2>1, <2>2, <1>5, <1>d
  <1>b. CASE DeleteCandidate(p) \/ MarkCandidateDeleted(p) \/ UnchargeCandidate(p) \/ MarkCancelCleanupFailed(p)
    <2>1. req[p].step \in CancelSteps /\ (Done(p) \/ \E step \in CancelSteps : Goto(p, step))
      BY <1>b DEF DeleteCandidate, MarkCandidateDeleted, UnchargeCandidate, MarkCancelCleanupFailed
    <2> QED BY <2>1, <1>6, <1>d
  <1>c. CASE ChargePromotion(p) \/ MarkOldStorageDeleting(p) \/ DeleteOldObject(p)
               \/ MarkReplacementComplete(p) \/ UnchargeOldObject(p) \/ MarkOldStorageCleanupFailed(p)
    <2>1. CleaningUp(req[p]) /\ (Done(p) \/ \E step \in (CleanupSteps \ {"charge"}) \cup ReadySteps : Goto(p, step))
      BY <1>c DEF ChargePromotion, MarkOldStorageDeleting, DeleteOldObject, MarkReplacementComplete,
         UnchargeOldObject, MarkOldStorageCleanupFailed
    <2> QED BY <2>1, <1>7, <1>d
  <1>h. CASE ExamineImage(p) \/ MarkImageValidated(p) \/ MarkImageValidationFailed(p)
    <2>1. req[p].r = None
      BY <1>h, <1>f DEF ExamineImage, MarkImageValidated, MarkImageValidationFailed, Fits, VerdictSteps
    <2>2. Done(p) \/ \E step \in VerdictSteps \cup ReadySteps : Goto(p, step)
      BY <1>h DEF ExamineImage, MarkImageValidated, MarkImageValidationFailed, VerdictSteps
    <2> QED BY <2>1, <2>2, <1>8, <1>d
  <1>i. CASE EvaluateReady(p) \/ MarkImageReady(p) \/ DemoteInvalidReady(p)
    <2>1. Done(p) \/ (req[p].r = None /\ \E step \in ReadySteps : Goto(p, step))
            \/ (CleaningUp(req[p]) /\ \E step \in (CleanupSteps \ {"charge"}) \cup ReadySteps : Goto(p, step))
      BY <1>i DEF EvaluateReady, MarkImageReady, DemoteInvalidReady, AfterReady
    <2> QED BY <2>1, <1>7, <1>8, <1>d
  <1>j. CASE EraseOriginal(p)
    BY <1>j, <1>d DEF EraseOriginal
  <1>k. CASE ReadImage(p)
    <2>1. CASE req' = [req EXCEPT ![p].step = "promote", ![p].key = image.key]
      <3>1. req'[p].step = "promote" /\ req'[p].r = req[p].r /\ repl' = repl
        BY <1>k, <1>t, <2>1 DEF ReadImage, Place, rows
      <3> QED BY <1>k, <1>f, <3>1 DEF ReadImage, Fits, VerdictSteps
    <2> QED BY <1>k, <1>d, <2>1 DEF ReadImage
  <1> QED BY <1>k, <1>1, <1>2, <1>3, <1>4, <1>a, <1>b, <1>c, <1>h, <1>i, <1>j DEF Continue

\* A row appears only by its insert.
LEMMA ContinueReserves ==
  ASSUME PlaceInv, NEW p \in Processes, Continue(p)
  PROVE  RowsReserved'
  <1>f. Fits(req[p])
    BY DEF PlaceInv, RequestsFit
  <1>1. \A r \in Replacements : reservation'[r] = "none" => reservation[r] = "none"
    BY DEF PlaceInv, TypeOK, Continue, ReserveReplacement, InsertCandidate, ReleaseReservation, DemoteReady,
       MarkReplacementUploading, SignUpload, HeadCandidate, ConsumeReplacementReservation,
       MarkReplacementUploaded, RejectCandidate, MarkReplacementFailed, InspectCandidate,
       MarkReplacementValidated, ReadImage, CommitPromotion, ChargePromotion, MarkOldStorageDeleting,
       DeleteOldObject, MarkReplacementComplete, UnchargeOldObject, MarkOldStorageCleanupFailed,
       CancelSelected, DeleteCandidate, MarkCandidateDeleted, UnchargeCandidate,
       MarkCancelCleanupFailed, ExamineImage, MarkImageValidated, MarkImageValidationFailed,
       EvaluateReady, MarkImageReady, DemoteInvalidReady, EraseOriginal, AcquireImageDeletion,
       money
  <1>2. ASSUME NEW r \in Replacements, repl[r].status = "none", reservation[r] = "none"
        PROVE  repl'[r].status = "none"
    BY <1>f, <1>2 DEF PlaceInv, TypeOK, Fits, CandidateSteps, CancelSteps, CleaningUp, CleanupSteps, PromotedStatus,
       ClosedStatus, At, Continue, ReserveReplacement, InsertCandidate, ReleaseReservation, DemoteReady,
       MarkReplacementUploading, SignUpload, HeadCandidate, ConsumeReplacementReservation,
       MarkReplacementUploaded, RejectCandidate, MarkReplacementFailed, InspectCandidate,
       MarkReplacementValidated, ReadImage, CommitPromotion, ChargePromotion, MarkOldStorageDeleting,
       DeleteOldObject, MarkReplacementComplete, UnchargeOldObject, MarkOldStorageCleanupFailed,
       CancelSelected, DeleteCandidate, MarkCandidateDeleted, UnchargeCandidate,
       MarkCancelCleanupFailed, ExamineImage, MarkImageValidated, MarkImageValidationFailed,
       EvaluateReady, MarkImageReady, DemoteInvalidReady, EraseOriginal, AcquireImageDeletion,
       rows, CasRepl, SetRepl, Cancel, UnconfirmedStatus, FailableStatus, CancellableStatus, OldStatus
  <1> QED BY <1>1, <1>2 DEF RowsReserved, PlaceInv

LEMMA BeginFits ==
  ASSUME PlaceInv, NEW p \in Processes, BeginAny(p)
  PROVE  /\ Fits(req[p])' /\ LeavesNew(p) /\ RowsReserved'
         /\ \A q \in Processes \ {p} :
              req'[p].step \in {"reserve", "insert"} \/ req[q].step \in {"reserve", "insert"}
                => req'[p].r # req[q].r
  <1>t. req \in [Processes -> Place]
    BY DEF PlaceInv, TypeOK, Place
  <1>f. \A q \in Processes : req[q].step \in {"reserve", "insert"} =>
          req[q].r \in Replacements /\ repl[req[q].r].status = "none"
    BY DEF PlaceInv, RequestsFit, Fits, CandidateSteps
  <1>m. UNCHANGED money
    BY DEF BeginAny, BeginOnImage, Begin, BeginReplacement, ConfirmReplacement, AcquireReplacementValidation,
       ReadForPromotion, RetryOldStorageCleanup, AcquireCancellation, SelectCandidate,
       AcquireImageValidation, ValidateAgain, BeginDeletion
  <1> USE DEF CandidateSteps, PromotionSteps, CancelSteps, CleanupSteps, ReadySteps, VerdictSteps, CleaningUp, At
  <1>s. ASSUME NEW step, NEW r, Start(p, step, r)
        PROVE  req'[p].step = step /\ req'[p].r = r
    BY <1>s, <1>t DEF Start, NoRequest
  <1>1. CASE BeginOnImage(p)
    <2>1. req'[p].step \in {"examine", "readyRead", "hide"} /\ req'[p].r = None /\ repl' = repl
      BY <1>1, <1>s, <1>t DEF BeginOnImage, AcquireImageValidation, ValidateAgain, BeginDeletion, rows
    <2> QED BY <2>1, <1>f, <1>m, ReplacementAssumption DEF Fits, LeavesNew, money, ReplacementAssumption,
          PlaceInv, RowsReserved
  <1>2. ASSUME NEW r \in Replacements, BeginReplacement(p, r)
        PROVE  /\ Fits(req[p])' /\ LeavesNew(p)
               /\ req'[p].r = r /\ \A q \in Processes : req[q].r # r
    <2>1. req'[p].step = "reserve" /\ req'[p].r = r /\ repl' = repl
      BY <1>2, <1>s DEF BeginReplacement, rows
    <2>2. repl[r].status = "none" /\ reservation[r] = "none"
      BY <1>2 DEF BeginReplacement, PlaceInv, RowsReserved
    <2> QED BY <1>2, <2>1, <2>2, <1>m DEF BeginReplacement, Fits, LeavesNew, money
  \* The other begins are on rows that are there.
  <1>3. ASSUME NEW r \in Replacements, repl[r].status # "none", req'[p].r = r,
               req'[p].step \notin {"reserve", "insert"},
               \A x \in Replacements : repl[x].status = "none" <=> repl'[x].status = "none"
        PROVE  /\ LeavesNew(p)
               /\ \A q \in Processes : req[q].step \in {"reserve", "insert"} => r # req[q].r
    BY <1>3, <1>f, <1>m DEF LeavesNew, money
  <1>4. ASSUME NEW r \in Replacements, ConfirmReplacement(p, r) \/ SelectCandidate(p, r)
        PROVE  /\ repl[r].status # "none" /\ repl' = repl
               /\ req'[p].r = r /\ req'[p].step \in {"fail", "head", "cancel"}
    BY <1>4, <1>s DEF ConfirmReplacement, SelectCandidate, UnconfirmedStatus, AbandonedStatus, rows
  <1>5. ASSUME NEW r \in Replacements, AcquireReplacementValidation(p, r)
        PROVE  /\ repl[r].status # "none" /\ req'[p].r = r /\ req'[p].step = "inspect"
               /\ \A x \in Replacements : repl[x].status = "none" <=> repl'[x].status = "none"
    BY <1>5, <1>s DEF AcquireReplacementValidation, SetRepl, PlaceInv, TypeOK
  <1>6. ASSUME NEW r \in Replacements, AcquireCancellation(p, r)
        PROVE  /\ repl[r].status # "none" /\ req'[p].r = r /\ req'[p].step = "drop"
               /\ repl'[r].status \in ClosedStatus
               /\ \A x \in Replacements : repl[x].status = "none" <=> repl'[x].status = "none"
    BY <1>6, <1>s DEF AcquireCancellation, Cancellable, Cancel, CasRepl, SetRepl, CancellableStatus, FailableStatus, ClosedStatus, PlaceInv, TypeOK
  <1>7. ASSUME NEW r \in Replacements, ReadForPromotion(p, r)
        PROVE  /\ repl[r].status = "validated" /\ req'[p].r = r /\ req'[p].step = "readImage" /\ repl' = repl
    BY <1>7, <1>s DEF ReadForPromotion, rows
  <1>8. ASSUME NEW r \in Replacements, RetryOldStorageCleanup(p, r)
        PROVE  /\ repl[r].status \in OldStatus /\ req'[p].r = r /\ req'[p].step = "oldMark" /\ repl' = repl
    BY <1>8, <1>t DEF RetryOldStorageCleanup, rows
  <1>9. ASSUME NEW r \in Replacements, Begin(p, r) \/ SelectCandidate(p, r), ~BeginReplacement(p, r)
        PROVE  /\ Fits(req[p])'
               /\ repl[r].status # "none" /\ req'[p].r = r /\ req'[p].step \notin {"reserve", "insert"}
               /\ \A x \in Replacements : repl[x].status = "none" <=> repl'[x].status = "none"
    <2>1. CASE ReadForPromotion(p, r)
      BY <1>7, <2>1 DEF Fits, ApprovedStatus
    <2>2. CASE RetryOldStorageCleanup(p, r)
      BY <1>8, <2>2 DEF Fits, PromotedStatus, OldStatus
    <2>3. CASE ConfirmReplacement(p, r) \/ SelectCandidate(p, r)
      BY <1>4, <2>3 DEF Fits
    <2>4. CASE AcquireReplacementValidation(p, r)
      BY <1>5, <2>4 DEF Fits
    <2>5. CASE AcquireCancellation(p, r)
      BY <1>6, <2>5 DEF Fits
    <2> QED BY <1>9, <2>1, <2>2, <2>3, <2>4, <2>5 DEF Begin
  <1>10. \A x \in Replacements : repl[x].status = "none" => repl'[x].status = "none"
    BY <1>1, <1>2, <1>9 DEF BeginAny, Begin, BeginReplacement, BeginOnImage, AcquireImageValidation,
       ValidateAgain, BeginDeletion, rows
  <1>11. RowsReserved'
    BY <1>10, <1>m DEF RowsReserved, PlaceInv, money
  <1> QED BY <1>1, <1>2, <1>3, <1>9, <1>11 DEF BeginAny, Begin

LEMMA PlaceInit == Init => PlaceInv
  <1> SUFFICES ASSUME Init PROVE PlaceInv
    OBVIOUS
  <1>1. TypeOK
    <2>1. NoRequest \in Place /\ [status |-> "none", old |-> None, sized |-> FALSE, dropped |-> FALSE] \in Row
      BY DEF NoRequest, Place, Row, Steps, Keys, ReplStatus
    <2>2. req \in [Processes -> Place] /\ repl \in [Replacements -> Row]
      BY <2>1 DEF Init
    <2>3. image \in [status : ImageStatus, key : Keys] /\ faults \in 0 .. MaxFaults
      BY ReplacementAssumption DEF Init, ReplacementAssumption, ImageStatus, Keys
    <2>4. skewed \in BOOLEAN
      BY DEF Init
    <2>5. /\ reservation \in [Replacements -> Reservation] /\ sound \subseteq Replacements
          /\ quota \in [{"reserved", "candidate", "cleanup"} -> Nat]
      BY DEF Init, Reservation
    <2>6. object \subseteq Keys /\ signed \subseteq Replacements /\ expired \subseteq Replacements
      BY DEF Init, Keys
    <2> QED BY <2>2, <2>3, <2>4, <2>5, <2>6 DEF TypeOK, Place, Row, Reservation
  <1>2. RequestsFit /\ NewIdsApart
    BY DEF Init, RequestsFit, NewIdsApart, Fits, NoRequest, CandidateSteps, PromotionSteps, CancelSteps, CleaningUp,
       CleanupSteps, ReadySteps, VerdictSteps
  <1>3. PromotedHasOld /\ RowsReserved
    BY DEF Init, PromotedHasOld, RowsReserved, PromotedStatus, OldStatus
  <1> QED BY <1>1, <1>2, <1>3 DEF PlaceInv

\* A script's recovery is a begin on the row or on the image.
LEMMA NextCases ==
  ASSUME [Next]_vars
  PROVE  \/ \E r \in Replacements : UploadCandidate(r) \/ Expire(r)
         \/ \E p \in Processes : BeginAny(p) \/ Continue(p) \/ Crash(p)
         \/ UNCHANGED vars
  BY DEF Next, Recover, ReconcileReady, RecoverOld, BeginAny, BeginOnImage, Begin, Processes

LEMMA PlaceStep ==
  ASSUME PlaceInv, [Next]_vars
  PROVE  PlaceInv'
  <1>1. ASSUME NEW p \in Processes, BeginAny(p) PROVE PlaceInv'
    <2>1. \A r \in Replacements : Evolves(repl[r], repl'[r])
      BY <1>1, BeginEvolves, EvolvedRows
    <2> QED BY <1>1, <2>1, BeginTypes, BeginMoves, BeginFits, PlacesKept
  <1>2. ASSUME NEW p \in Processes, Continue(p) PROVE PlaceInv'
    <2>1. \A r \in Replacements : Evolves(repl[r], repl'[r])
      BY <1>2, ContinueEvolves, EvolvedRows
    <2>2. Moves(p) /\ Fits(req[p])' /\ LeavesNew(p) /\ RowsReserved' /\ TypeOK'
      BY <1>2, ContinueMoves, ContinueFits, ContinueLeavesNew, ContinueReserves, ContinueTypes DEF PlaceInv
    <2>3. ASSUME NEW q \in Processes \ {p},
                 req'[p].step \in {"reserve", "insert"} \/ req[q].step \in {"reserve", "insert"}
          PROVE  req'[p].r # req[q].r
      <3>1. req'[p].step \in {"reserve", "insert"} => At(p, "reserve") /\ req'[p].r = req[p].r
        BY <1>2, ContinueFits
      <3>2. req[q].step \in {"reserve", "insert"} => req[q].r # req[p].r
        BY <2>3 DEF PlaceInv, NewIdsApart
      <3>3. req'[p].r \in {req[p].r, None}
        BY <1>2, ContinueMoves DEF PlaceInv
      <3>4. req[q].step \in {"reserve", "insert"} => req[q].r # None
        BY ReplacementAssumption DEF ReplacementAssumption, PlaceInv, RequestsFit, Fits, CandidateSteps
      <3> QED BY <2>3, <3>1, <3>2, <3>3, <3>4 DEF PlaceInv, NewIdsApart, At
    <2> QED BY <2>1, <2>2, <2>3, PlacesKept
  <1>3. ASSUME NEW p \in Processes, Crash(p) PROVE PlaceInv'
    <2>1. Moves(p) /\ UNCHANGED <<rows, money, store, history>> /\ faults' \in 0 .. MaxFaults /\ Done(p)
      BY <1>3, MovesOn, ReplacementAssumption DEF Crash, Fault, PlaceInv, TypeOK, ReplacementAssumption
    <2>2. TypeOK'
      BY <2>1 DEF PlaceInv, TypeOK, Moves, Place, rows, money, store, history
    <2>3. req'[p].step = "idle" /\ req'[p].r = None
      BY <2>1 DEF Done, NoRequest, PlaceInv, TypeOK
    <2>4. Fits(req[p])'
      BY <2>3 DEF Fits, CandidateSteps, PromotionSteps, CancelSteps, CleaningUp, CleanupSteps, ReadySteps, VerdictSteps
    <2>5. \A q \in Processes \ {p} : req[q].step \in {"reserve", "insert"} => req[q].r # None
      BY ReplacementAssumption DEF ReplacementAssumption, PlaceInv, RequestsFit, Fits, CandidateSteps
    <2>6. LeavesNew(p) /\ RowsReserved' /\ \A r \in Replacements : Evolves(repl[r], repl'[r])
      BY <2>1 DEF LeavesNew, RowsReserved, Evolves, PlaceInv, PromotedHasOld, rows, money
    <2> QED BY <2>1, <2>2, <2>3, <2>4, <2>5, <2>6, PlacesKept
  <1>4. ASSUME UNCHANGED <<rows, money, req, history, faults>>, object' \subseteq Keys,
               signed' \subseteq Replacements, expired' \subseteq Replacements
        PROVE  PlaceInv'
    BY <1>4 DEF PlaceInv, TypeOK, RequestsFit, Fits, CleaningUp, NewIdsApart, PromotedHasOld, RowsReserved,
       rows, money, history
  <1>5. ASSUME NEW r \in Replacements, UploadCandidate(r) \/ Expire(r) PROVE PlaceInv'
    BY <1>4, <1>5 DEF UploadCandidate, Expire, PlaceInv, TypeOK, Keys
  <1>6. CASE UNCHANGED vars
    BY <1>4, <1>6 DEF vars, store, PlaceInv, TypeOK
  <1> QED BY <1>1, <1>2, <1>3, <1>5, <1>6, NextCases

LEMMA PlaceHolds == Spec => []PlaceInv
  BY PlaceInit, PlaceStep, PTL DEF Spec

\* The rows, counters, objects and requests of a replacement keep their types.
THEOREM ReplacementTypesHold == Spec => []TypeOK
  <1>1. PlaceInv => TypeOK
    BY DEF PlaceInv
  <1> QED BY <1>1, PlaceHolds, PTL

-----------------------------------------------------------------------------
(* Keys *)

\* A step that promotes nothing: the image keeps its key and rows keep their
\* old ones; a request that comes to hold a key has read it now, a promotion
\* with its candidate still validated unless its reads are skewed.
PromotesNothing(p) ==
  /\ image'.key = image.key
  /\ \A r \in Replacements : repl'[r].old = repl[r].old
  /\ Remembered(req'[p].key) \/ req'[p].key = Original
  /\ skewed => skewed'
  /\ At(p, "promote")' => req'[p] = req[p] \/ repl[req'[p].r].status = "validated" \/ skewed'
  /\ CleaningUp(req'[p]) =>
       \/ CleaningUp(req[p]) /\ req'[p].key = req[p].key
       \/ \E r \in Replacements : req'[p].key = repl[r].old

LEMMA PromotesNothingKeeps ==
  ASSUME PlaceInv, PlaceInv', KeyInv, NEW p \in Processes, Moves(p), PromotesNothing(p),
         \A r \in Replacements : Evolves(repl[r], repl'[r])
  PROVE  KeyInv'
  <1>n. Original \notin Replacements /\ None \notin Keys
    BY ReplacementAssumption DEF ReplacementAssumption, Keys
  <1>1. \A k : Remembered(k)' => Remembered(k) \/ k = Original
    BY DEF Remembered, PromotesNothing, Moves
  <1>2. RememberedIsApproved'
    BY <1>1, <1>n DEF KeyInv, RememberedIsApproved, Evolves
  <1> SUFFICES ASSUME ~skewed' PROVE KeysAreNew'
    BY <1>2 DEF KeyInv
  <1>s. KeysAreNew
    BY DEF KeyInv, PromotesNothing
  <1>3. PromotionsAreNew'
    <2> SUFFICES ASSUME NEW q \in Processes, req'[q].step = "promote", req'[q].key = image'.key
                 PROVE  ~Remembered(req[q].r)'
      BY DEF PromotionsAreNew, At
    <2>1. req'[q].r \in Replacements
      BY DEF PlaceInv, RequestsFit, Fits, CandidateSteps
    <2>2. CASE req'[q] = req[q]
      BY <1>s, <2>1, <2>2, <1>1, <1>n DEF KeysAreNew, PromotionsAreNew, PromotesNothing, At
    <2>3. CASE req'[q] # req[q]
      <3>1. repl[req'[q].r].status = "validated"
        BY <2>3 DEF PromotesNothing, Moves, At
      <3> QED BY <3>1, <2>1, <1>1, <1>n DEF KeyInv, RememberedIsApproved, ClosedStatus, PromotedStatus, OldStatus
    <2> QED BY <2>2, <2>3
  <1>4. OldIsPast'
    BY <1>s DEF KeysAreNew, OldIsPast, PromotesNothing
  <1>5. CleanupIsPast'
    BY <1>s DEF KeysAreNew, CleanupIsPast, OldIsPast, PromotesNothing, Moves
  <1> QED BY <1>3, <1>4, <1>5 DEF KeysAreNew

\* The promotion: unless its reads are skewed, the key it brings was remembered
\* nowhere, so that every request and every row still points at another one.
LEMMA CommitKeepsKeys ==
  ASSUME PlaceInv, PlaceInv', KeyInv, NEW p \in Processes, CommitPromotion(p),
         image.key = req[p].key, image.status # "deleted"
  PROVE  KeyInv'
  <1> DEFINE r == req[p].r
  <1>n. Original \notin Replacements /\ None \notin Keys
    BY ReplacementAssumption DEF ReplacementAssumption, Keys
  <1>0. /\ At(p, "promote") /\ req[p].key = image.key /\ image'.key = r
        /\ r \in Replacements /\ repl[r].status \in ApprovedStatus
        /\ image' = [status |-> "validated", key |-> r]
    BY DEF CommitPromotion, rows, PlaceInv, RequestsFit, Fits, CandidateSteps, PromotionSteps, At
  <1>2. \A q \in Processes : req'[q].key \in {req[q].key, image.key, Original}
    <2>1. Continue(p)
      BY DEF Continue
    <2> QED BY <2>1, ContinueMoves DEF Moves, PlaceInv
  <1>4. \A x \in Replacements : repl'[x].old \in {repl[x].old, image.key}
    <2>1. repl' = repl \/ repl' = [repl EXCEPT ![r].status = "promoted", ![r].old = image.key]
      BY <1>0 DEF CommitPromotion, rows
    <2>2. repl \in [Replacements -> Row]
      BY DEF PlaceInv, TypeOK, Row
    <2> QED BY <1>0, <2>1, <2>2 DEF Row
  <1>6. \A x \in Replacements : Evolves(repl[x], repl'[x])
    <2>1. Continue(p)
      BY DEF Continue
    <2> QED BY <2>1, ContinueEvolves, EvolvedRows
  <1>7. repl'[r].status \in ClosedStatus \cup PromotedStatus
    <2>1. CASE repl[r].status = "validated"
      BY <1>0, <2>1 DEF CommitPromotion, PlaceInv, TypeOK, PromotedStatus, OldStatus, rows
    <2>2. CASE repl[r].status # "validated"
      BY <1>0, <1>6, <2>2 DEF ApprovedStatus, Evolves
    <2> QED BY <2>1, <2>2
  <1>8. RememberedIsApproved'
    <2> SUFFICES ASSUME NEW k \in Replacements, Remembered(k)'
                 PROVE  repl'[k].status \in ClosedStatus \cup PromotedStatus
      BY DEF RememberedIsApproved
    <2>1. CASE k = r
      BY <2>1, <1>7
    <2>2. CASE k # r
      <3>1. Remembered(k)
        BY <2>2, <1>0, <1>2, <1>4, <1>n DEF Remembered
      <3> QED BY <3>1, <1>6 DEF KeyInv, RememberedIsApproved, Evolves
    <2> QED BY <2>1, <2>2
  <1> SUFFICES ASSUME ~skewed' PROVE KeysAreNew'
    BY <1>8 DEF KeyInv
  <1>1. ~Remembered(r)
    BY <1>0 DEF KeyInv, KeysAreNew, PromotionsAreNew, CommitPromotion, history
  <1>3. \A q \in Processes : req'[q].key # r
    BY <1>0, <1>1, <1>2, <1>n DEF Remembered
  <1>5. \A x \in Replacements : repl'[x].old # r
    BY <1>0, <1>1, <1>4 DEF Remembered
  <1>9. PromotionsAreNew'
    BY <1>0, <1>3 DEF PromotionsAreNew
  <1>10. OldIsPast' /\ CleanupIsPast'
    BY <1>0, <1>3, <1>5 DEF OldIsPast, CleanupIsPast
  <1> QED BY <1>9, <1>10 DEF KeysAreNew

LEMMA StatusKeepsOld ==
  ASSUME PlaceInv, NEW r, NEW st, SetRepl(r, st), NEW x \in Replacements
  PROVE  repl'[x].old = repl[x].old
  <1>1. repl \in [Replacements -> Row]
    BY DEF PlaceInv, TypeOK, Row
  <1>2. repl'[x] = IF x = r THEN [repl[x] EXCEPT !.status = st] ELSE repl[x]
    BY <1>1 DEF SetRepl
  <1>3. repl[x] \in Row
    BY <1>1
  <1> QED BY <1>2, <1>3 DEF Row

\* A promotion starts with the read of its row, and comes to write by the read
\* of its image.
LEMMA ContinuePromoting ==
  ASSUME PlaceInv, NEW p \in Processes, Continue(p)
  PROVE  /\ ~At(p, "readImage")'
         /\ At(p, "promote")' => ReadImage(p) /\ req'[p].r = req[p].r
  <1>t. req \in [Processes -> Place] /\ req' \in [Processes -> Place]
    BY ContinueMoves DEF PlaceInv, TypeOK, Place, Moves
  <1>1. CASE ReadImage(p)
    BY <1>1, <1>t DEF ReadImage, At, Place, Done, NoRequest
  <1>2. CASE ~ReadImage(p)
    <2>1. req'[p].step \notin {"readImage", "promote"}
      BY <1>2, <1>t DEF At, Place, Continue, ReserveReplacement, InsertCandidate, ReleaseReservation, DemoteReady,
       MarkReplacementUploading, SignUpload, HeadCandidate, ConsumeReplacementReservation,
       MarkReplacementUploaded, RejectCandidate, MarkReplacementFailed, InspectCandidate,
       MarkReplacementValidated, CommitPromotion, ChargePromotion, MarkOldStorageDeleting,
       DeleteOldObject, MarkReplacementComplete, UnchargeOldObject, MarkOldStorageCleanupFailed,
       CancelSelected, DeleteCandidate, MarkCandidateDeleted, UnchargeCandidate,
       MarkCancelCleanupFailed, ExamineImage, MarkImageValidated, MarkImageValidationFailed,
       EvaluateReady, MarkImageReady, DemoteInvalidReady, EraseOriginal, AcquireImageDeletion,
       Goto, Done, NoRequest, AfterReady
    <2> QED BY <2>1 DEF At
  <1> QED BY <1>1, <1>2

LEMMA ContinuePromotesNothing ==
  ASSUME PlaceInv, NEW p \in Processes, Continue(p),
         ~(CommitPromotion(p) /\ image.key = req[p].key /\ image.status # "deleted")
  PROVE  PromotesNothing(p)
  <1>f. Fits(req[p])
    BY DEF PlaceInv, RequestsFit
  <1>t. req \in [Processes -> Place] /\ req' \in [Processes -> Place]
    BY ContinueMoves DEF PlaceInv, TypeOK, Place, Moves
  <1>1. image'.key = image.key
    BY DEF PlaceInv, TypeOK, Continue, ReserveReplacement, InsertCandidate, ReleaseReservation, DemoteReady,
       MarkReplacementUploading, SignUpload, HeadCandidate, ConsumeReplacementReservation,
       MarkReplacementUploaded, RejectCandidate, MarkReplacementFailed, InspectCandidate,
       MarkReplacementValidated, ReadImage, CommitPromotion, ChargePromotion, MarkOldStorageDeleting,
       DeleteOldObject, MarkReplacementComplete, UnchargeOldObject, MarkOldStorageCleanupFailed,
       CancelSelected, DeleteCandidate, MarkCandidateDeleted, UnchargeCandidate,
       MarkCancelCleanupFailed, ExamineImage, MarkImageValidated, MarkImageValidationFailed,
       EvaluateReady, MarkImageReady, DemoteInvalidReady, EraseOriginal, AcquireImageDeletion,
       rows, CasImage
  <1>2. \A r \in Replacements : repl'[r].old = repl[r].old
    <2>1. \/ repl' = repl \/ \E st : SetRepl(req[p].r, st)
          \/ MarkReplacementUploaded(p) \/ MarkCandidateDeleted(p)
      BY DEF Continue, ReserveReplacement, InsertCandidate, ReleaseReservation, DemoteReady,
       MarkReplacementUploading, SignUpload, HeadCandidate, ConsumeReplacementReservation,
       MarkReplacementUploaded, RejectCandidate, MarkReplacementFailed, InspectCandidate,
       MarkReplacementValidated, ReadImage, CommitPromotion, ChargePromotion, MarkOldStorageDeleting,
       DeleteOldObject, MarkReplacementComplete, UnchargeOldObject, MarkOldStorageCleanupFailed,
       CancelSelected, DeleteCandidate, MarkCandidateDeleted, UnchargeCandidate,
       MarkCancelCleanupFailed, ExamineImage, MarkImageValidated, MarkImageValidationFailed,
       EvaluateReady, MarkImageReady, DemoteInvalidReady, EraseOriginal, AcquireImageDeletion,
         rows, CasRepl, Cancel
    <2>2. CASE MarkReplacementUploaded(p)
      BY <2>2 DEF MarkReplacementUploaded, PlaceInv, TypeOK
    <2>3. CASE MarkCandidateDeleted(p)
      BY <2>3 DEF MarkCandidateDeleted, PlaceInv, TypeOK
    <2> QED BY <2>1, <2>2, <2>3, StatusKeepsOld
  <1>3. Remembered(req'[p].key) \/ req'[p].key = Original
    BY ContinueMoves DEF Remembered, PlaceInv
  <1>4. skewed => skewed'
    BY DEF Continue, ReserveReplacement, InsertCandidate, ReleaseReservation, DemoteReady,
       MarkReplacementUploading, SignUpload, HeadCandidate, ConsumeReplacementReservation,
       MarkReplacementUploaded, RejectCandidate, MarkReplacementFailed, InspectCandidate,
       MarkReplacementValidated, ReadImage, CommitPromotion, ChargePromotion, MarkOldStorageDeleting,
       DeleteOldObject, MarkReplacementComplete, UnchargeOldObject, MarkOldStorageCleanupFailed,
       CancelSelected, DeleteCandidate, MarkCandidateDeleted, UnchargeCandidate,
       MarkCancelCleanupFailed, ExamineImage, MarkImageValidated, MarkImageValidationFailed,
       EvaluateReady, MarkImageReady, DemoteInvalidReady, EraseOriginal, AcquireImageDeletion, history
  <1>7. At(p, "promote")' => repl[req'[p].r].status = "validated" \/ skewed'
    <2>1. ASSUME ReadImage(p), At(p, "promote")', ~skewed' PROVE repl[req[p].r].status = "validated"
      <3>1. ~Done(p)
        BY <1>t, <2>1 DEF Done, NoRequest, At
      <3> QED BY <2>1, <3>1 DEF ReadImage
    <2> QED BY <2>1, ContinuePromoting
  <1>5. CleaningUp(req'[p]) => CleaningUp(req[p]) /\ req'[p].key = req[p].key
    <2>1. ASSUME NEW step \in Steps, Goto(p, step)
          PROVE  req'[p].key = req[p].key /\ req'[p].step = step /\ req'[p].r = req[p].r
      BY <2>1, <1>t DEF Goto, Place
    <2>2. CASE Done(p)
      BY <2>2, <1>t DEF Done, NoRequest, CleaningUp, CleanupSteps, ReadySteps
    <2>3. CASE \E step \in Steps \ (CleanupSteps \cup ReadySteps) : Goto(p, step)
      BY <2>1, <2>3 DEF CleaningUp
    <2>4. CASE CleaningUp(req[p]) /\ \E step \in Steps : Goto(p, step)
      BY <2>1, <2>4
    <2>5. CASE req[p].r = None /\ \E step \in ReadySteps : Goto(p, step)
      BY <2>1, <2>5 DEF CleaningUp, ReadySteps, CleanupSteps, Steps
    <2>6. CASE AcquireImageDeletion(p) /\ ~Done(p)
      BY <2>6, <1>t DEF AcquireImageDeletion, CleaningUp, CleanupSteps, ReadySteps
    <2>7. CASE CommitPromotion(p)
      BY <2>2, <2>7 DEF CommitPromotion
    <2>8. CASE ReadImage(p)
      <3>1. Done(p) \/ req'[p].step = "promote"
        BY <2>8, <1>t DEF ReadImage, Place
      <3> QED BY <2>2, <3>1 DEF CleaningUp, CleanupSteps, ReadySteps
    <2> QED BY <1>f, <2>2, <2>3, <2>4, <2>5, <2>6, <2>7, <2>8
            DEF Continue, ReserveReplacement, InsertCandidate, ReleaseReservation, DemoteReady,
       MarkReplacementUploading, SignUpload, HeadCandidate, ConsumeReplacementReservation,
       MarkReplacementUploaded, RejectCandidate, MarkReplacementFailed, InspectCandidate,
       MarkReplacementValidated, CommitPromotion, ChargePromotion, MarkOldStorageDeleting,
       DeleteOldObject, MarkReplacementComplete, UnchargeOldObject, MarkOldStorageCleanupFailed,
       CancelSelected, DeleteCandidate, MarkCandidateDeleted, UnchargeCandidate,
       MarkCancelCleanupFailed, ExamineImage, MarkImageValidated, MarkImageValidationFailed,
       EvaluateReady, MarkImageReady, DemoteInvalidReady, EraseOriginal, AcquireImageDeletion,
       AfterReady, CleaningUp, CleanupSteps, ReadySteps, Steps, Fits, VerdictSteps, At
  <1> QED BY <1>1, <1>2, <1>3, <1>4, <1>5, <1>7 DEF PromotesNothing

LEMMA BeginPromotesNothing ==
  ASSUME PlaceInv, NEW p \in Processes, BeginAny(p)
  PROVE  PromotesNothing(p)
  <1>t. req \in [Processes -> Place]
    BY DEF PlaceInv, TypeOK, Place
  <1>s. ASSUME NEW step, NEW r, Start(p, step, r)
        PROVE  req'[p].step = step /\ req'[p].r = r /\ req'[p].key = Original
    BY <1>s, <1>t DEF Start, NoRequest
  <1>1. image'.key = image.key /\ \A r \in Replacements : repl'[r].old = repl[r].old
    <2>1. image'.key = image.key
      BY DEF PlaceInv, TypeOK, BeginAny, BeginOnImage, Begin, BeginReplacement, ConfirmReplacement, AcquireReplacementValidation,
       ReadForPromotion, RetryOldStorageCleanup, AcquireCancellation, SelectCandidate,
       AcquireImageValidation, ValidateAgain, BeginDeletion,
         rows
    <2>2. repl' = repl \/ \E r, st : SetRepl(r, st)
      BY DEF BeginAny, BeginOnImage, Begin, BeginReplacement, ConfirmReplacement, AcquireReplacementValidation,
       ReadForPromotion, RetryOldStorageCleanup, AcquireCancellation, SelectCandidate,
       AcquireImageValidation, ValidateAgain, BeginDeletion,
         rows, Cancel, CasRepl
    <2> QED BY <2>1, <2>2, StatusKeepsOld
  <1>2. skewed' = skewed
    BY DEF BeginAny, BeginOnImage, Begin, BeginReplacement, ConfirmReplacement, AcquireReplacementValidation,
       ReadForPromotion, RetryOldStorageCleanup, AcquireCancellation, SelectCandidate,
       AcquireImageValidation, ValidateAgain, BeginDeletion, history
  <1>3. ASSUME NEW r \in Replacements, RetryOldStorageCleanup(p, r) PROVE PromotesNothing(p)
    <2>1. req'[p].step = "oldMark" /\ req'[p].key = repl[r].old
      BY <1>3, <1>t DEF RetryOldStorageCleanup
    <2> QED BY <1>1, <1>2, <2>1 DEF PromotesNothing, Remembered, At
  <1>4. CASE AcquireImageValidation(p)
    <2>1. req'[p].step = "examine" /\ req'[p].key = image.key
      BY <1>4, <1>t DEF AcquireImageValidation
    <2> QED BY <1>1, <1>2, <2>1 DEF PromotesNothing, Remembered, At, CleaningUp, CleanupSteps, ReadySteps
  <1>5. ASSUME NEW step, NEW r, Start(p, step, r), step \notin CleanupSteps \cup {"promote"},
               step \in ReadySteps => r = None
        PROVE  PromotesNothing(p)
    BY <1>1, <1>2, <1>5, <1>s DEF PromotesNothing, At, CleaningUp
  <1>6. CASE ValidateAgain(p) \/ BeginDeletion(p)
    BY <1>5, <1>6 DEF ValidateAgain, BeginDeletion, CleanupSteps, ReadySteps
  <1>7. ASSUME NEW r \in Replacements,
               BeginReplacement(p, r) \/ ConfirmReplacement(p, r) \/ AcquireReplacementValidation(p, r)
                 \/ ReadForPromotion(p, r) \/ AcquireCancellation(p, r) \/ SelectCandidate(p, r)
        PROVE  PromotesNothing(p)
    BY <1>5, <1>7 DEF BeginReplacement, ConfirmReplacement, AcquireReplacementValidation,
       ReadForPromotion, AcquireCancellation, SelectCandidate, CleanupSteps, ReadySteps
  <1> QED BY <1>3, <1>4, <1>6, <1>7 DEF BeginAny, BeginOnImage, Begin

LEMMA KeyInit == Init => KeyInv
  BY ReplacementAssumption DEF ReplacementAssumption, Init, KeyInv, RememberedIsApproved, Remembered,
     KeysAreNew, PromotionsAreNew, OldIsPast, CleanupIsPast, CleaningUp, NoRequest, At, CleanupSteps, ReadySteps

LEMMA KeyStep ==
  ASSUME PlaceInv, KeyInv, [Next]_vars
  PROVE  KeyInv'
  <1>0. PlaceInv'
    BY PlaceStep
  <1>1. ASSUME NEW p \in Processes, BeginAny(p) PROVE KeyInv'
    <2>1. \A r \in Replacements : Evolves(repl[r], repl'[r])
      BY <1>1, BeginEvolves, EvolvedRows
    <2> QED BY <1>0, <1>1, <2>1, BeginMoves, BeginPromotesNothing, PromotesNothingKeeps
  <1>2. ASSUME NEW p \in Processes, Continue(p) PROVE KeyInv'
    <2>1. \A r \in Replacements : Evolves(repl[r], repl'[r])
      BY <1>2, ContinueEvolves, EvolvedRows
    <2>2. Moves(p)
      BY <1>2, ContinueMoves DEF PlaceInv
    <2> QED BY <1>0, <1>2, <2>1, <2>2, ContinuePromotesNothing, PromotesNothingKeeps, CommitKeepsKeys
  <1>3. ASSUME UNCHANGED <<rows, history>>, \A q \in Processes : req'[q] \in {req[q], NoRequest}
        PROVE  KeyInv'
    <2>1. \A k \in Keys : Remembered(k)' => Remembered(k) \/ k = Original
      BY <1>3 DEF Remembered, rows, NoRequest
    <2>2. \A q \in Processes : At(q, "promote")' => req'[q] = req[q] /\ req[q].r \in Replacements
      BY <1>3, <1>0 DEF At, NoRequest, PlaceInv, RequestsFit, Fits, CandidateSteps, PromotionSteps
    <2>3. \A q \in Processes : CleaningUp(req'[q]) => req'[q] = req[q]
      BY <1>3 DEF CleaningUp, NoRequest, CleanupSteps, ReadySteps
    <2> QED BY <1>3, <2>1, <2>2, <2>3, ReplacementAssumption
            DEF KeyInv, KeysAreNew, RememberedIsApproved, PromotionsAreNew, OldIsPast, CleanupIsPast, At,
                rows, history, Keys, ReplacementAssumption
  <1>4. ASSUME NEW p \in Processes, Crash(p) PROVE KeyInv'
    BY <1>3, <1>4 DEF Crash, Done, PlaceInv, TypeOK
  <1>5. ASSUME NEW r \in Replacements, UploadCandidate(r) \/ Expire(r) PROVE KeyInv'
    BY <1>3, <1>5 DEF UploadCandidate, Expire
  <1>6. CASE UNCHANGED vars
    BY <1>3, <1>6 DEF vars
  <1> QED BY <1>1, <1>2, <1>4, <1>5, <1>6, NextCases

\* Up to the first promotion that reads its image after its candidate was
\* promoted or cancelled, the cleanup of an old object never holds the key of
\* the object users see, whatever promotions, retries and scripts crossed it
\* since it read its row.
THEOREM CleanupSparesActiveHolds == Spec => []CleanupSparesActive
  <1>1. KeyInv => CleanupSparesActive
    BY DEF KeyInv, KeysAreNew, CleanupIsPast, CleanupSparesActive, ActiveKeySpared, CleaningUp, CleanupSteps, At
  <1> QED BY <1>1, PlaceInit, PlaceStep, KeyInit, KeyStep, PTL DEF Spec

-----------------------------------------------------------------------------
(* Validated candidates *)

LEMMA SoundInit == Init => SoundInv
  BY DEF Init, SoundInv, ShowsValidated, NoRequest, PromotionSteps

\* A row becomes validated only with the candidate's validation.
LEMMA ContinueSound ==
  ASSUME PlaceInv, NEW p \in Processes, Continue(p)
  PROVE  /\ sound \subseteq sound'
         /\ \A r \in Replacements : repl'[r].status = "validated" => repl[r].status = "validated" \/ r \in sound'
         /\ image'.key \in {image.key, req[p].r}
         /\ image'.key # image.key => At(p, "promote")
  <1>1. sound \subseteq sound'
    BY DEF Continue, ReserveReplacement, InsertCandidate, ReleaseReservation, DemoteReady,
       MarkReplacementUploading, SignUpload, HeadCandidate, ConsumeReplacementReservation,
       MarkReplacementUploaded, RejectCandidate, MarkReplacementFailed, InspectCandidate,
       MarkReplacementValidated, ReadImage, CommitPromotion, ChargePromotion, MarkOldStorageDeleting,
       DeleteOldObject, MarkReplacementComplete, UnchargeOldObject, MarkOldStorageCleanupFailed,
       CancelSelected, DeleteCandidate, MarkCandidateDeleted, UnchargeCandidate,
       MarkCancelCleanupFailed, ExamineImage, MarkImageValidated, MarkImageValidationFailed,
       EvaluateReady, MarkImageReady, DemoteInvalidReady, EraseOriginal, AcquireImageDeletion, history
  <1>2. ASSUME NEW r \in Replacements
        PROVE  repl'[r].status = "validated" => repl[r].status = "validated" \/ r \in sound'
    <2>1. CASE MarkReplacementValidated(p)
      BY <2>1 DEF MarkReplacementValidated, CasRepl, SetRepl, PlaceInv, TypeOK
    <2>2. \/ repl' = repl \/ \E st \in ReplStatus \ {"validated"} : SetRepl(req[p].r, st)
          \/ MarkReplacementUploaded(p) \/ MarkCandidateDeleted(p) \/ CommitPromotion(p)
          \/ MarkReplacementValidated(p)
      BY DEF Continue, ReserveReplacement, InsertCandidate, ReleaseReservation, DemoteReady,
       MarkReplacementUploading, SignUpload, HeadCandidate, ConsumeReplacementReservation,
       MarkReplacementUploaded, RejectCandidate, MarkReplacementFailed, InspectCandidate,
       MarkReplacementValidated, ReadImage, CommitPromotion, ChargePromotion, MarkOldStorageDeleting,
       DeleteOldObject, MarkReplacementComplete, UnchargeOldObject, MarkOldStorageCleanupFailed,
       CancelSelected, DeleteCandidate, MarkCandidateDeleted, UnchargeCandidate,
       MarkCancelCleanupFailed, ExamineImage, MarkImageValidated, MarkImageValidationFailed,
       EvaluateReady, MarkImageReady, DemoteInvalidReady, EraseOriginal, AcquireImageDeletion,
         rows, CasRepl, Cancel, ReplStatus, OpenStatus, CancellableStatus, FailableStatus, OldStatus
    <2>3. CASE \E st \in ReplStatus \ {"validated"} : SetRepl(req[p].r, st)
      BY <2>3 DEF SetRepl, PlaceInv, TypeOK
    <2>4. CASE MarkReplacementUploaded(p)
      BY <2>4 DEF MarkReplacementUploaded, PlaceInv, TypeOK
    <2>5. CASE MarkCandidateDeleted(p)
      BY <2>5 DEF MarkCandidateDeleted, PlaceInv, TypeOK
    <2>6. CASE CommitPromotion(p)
      BY <2>6 DEF CommitPromotion, PlaceInv, TypeOK, rows
    <2> QED BY <2>1, <2>2, <2>3, <2>4, <2>5, <2>6
  <1>3. image'.key \in {image.key, req[p].r} /\ (image'.key # image.key => At(p, "promote"))
    BY DEF PlaceInv, TypeOK, Continue, ReserveReplacement, InsertCandidate, ReleaseReservation, DemoteReady,
       MarkReplacementUploading, SignUpload, HeadCandidate, ConsumeReplacementReservation,
       MarkReplacementUploaded, RejectCandidate, MarkReplacementFailed, InspectCandidate,
       MarkReplacementValidated, ReadImage, CommitPromotion, ChargePromotion, MarkOldStorageDeleting,
       DeleteOldObject, MarkReplacementComplete, UnchargeOldObject, MarkOldStorageCleanupFailed,
       CancelSelected, DeleteCandidate, MarkCandidateDeleted, UnchargeCandidate,
       MarkCancelCleanupFailed, ExamineImage, MarkImageValidated, MarkImageValidationFailed,
       EvaluateReady, MarkImageReady, DemoteInvalidReady, EraseOriginal, AcquireImageDeletion,
       rows, CasImage
  <1> QED BY <1>1, <1>2, <1>3

LEMMA BeginSound ==
  ASSUME PlaceInv, NEW p \in Processes, BeginAny(p)
  PROVE  /\ sound' = sound /\ image'.key = image.key
         /\ \A r \in Replacements : repl'[r].status = "validated" => repl[r].status = "validated"
         /\ req'[p].step \in PromotionSteps => req'[p].r \in Replacements /\ repl[req'[p].r].status = "validated"
  <1>t. req \in [Processes -> Place]
    BY DEF PlaceInv, TypeOK, Place
  <1>1. sound' = sound
    BY DEF BeginAny, BeginOnImage, Begin, BeginReplacement, ConfirmReplacement, AcquireReplacementValidation,
       ReadForPromotion, RetryOldStorageCleanup, AcquireCancellation, SelectCandidate,
       AcquireImageValidation, ValidateAgain, BeginDeletion, history
  <1>2. image'.key = image.key
    BY BeginPromotesNothing DEF PromotesNothing
  <1>3. ASSUME NEW r \in Replacements
        PROVE  repl'[r].status = "validated" => repl[r].status = "validated"
    BY DEF PlaceInv, TypeOK, BeginAny, BeginOnImage, Begin, BeginReplacement, ConfirmReplacement, AcquireReplacementValidation,
       ReadForPromotion, RetryOldStorageCleanup, AcquireCancellation, SelectCandidate,
       AcquireImageValidation, ValidateAgain, BeginDeletion,
       rows, Cancel, CasRepl, SetRepl
  <1>s. ASSUME NEW step, NEW r, Start(p, step, r)
        PROVE  req'[p].step = step
    BY <1>s, <1>t DEF Start, NoRequest
  <1>r. ASSUME NEW r \in Replacements, ReadForPromotion(p, r)
        PROVE  req'[p].r = r /\ repl[r].status = "validated"
    BY <1>r, <1>t DEF ReadForPromotion, Start, NoRequest
  <1>o. ASSUME NEW r \in Replacements, RetryOldStorageCleanup(p, r) PROVE req'[p].step = "oldMark"
    BY <1>o, <1>t DEF RetryOldStorageCleanup
  <1>v. ASSUME AcquireImageValidation(p) PROVE req'[p].step = "examine"
    BY <1>v, <1>t DEF AcquireImageValidation
  <1>4. req'[p].step \in PromotionSteps => req'[p].r \in Replacements /\ repl[req'[p].r].status = "validated"
    <2>1. ASSUME NEW r \in Replacements, Begin(p, r), ~ReadForPromotion(p, r) PROVE req'[p].step \notin PromotionSteps
      BY <2>1, <1>s, <1>o DEF Begin, BeginReplacement, ConfirmReplacement, AcquireReplacementValidation, AcquireCancellation, PromotionSteps
    <2>2. ASSUME NEW r \in Replacements, SelectCandidate(p, r) PROVE req'[p].step \notin PromotionSteps
      BY <2>2, <1>s DEF SelectCandidate, PromotionSteps
    <2>3. ASSUME BeginOnImage(p) PROVE req'[p].step \notin PromotionSteps
      BY <2>3, <1>s, <1>v DEF BeginOnImage, ValidateAgain, BeginDeletion, PromotionSteps
    <2> QED BY <1>r, <2>1, <2>2, <2>3 DEF BeginAny
  <1> QED BY <1>1, <1>2, <1>3, <1>4

LEMMA SoundStep ==
  ASSUME PlaceInv, SoundInv, [Next]_vars
  PROVE  SoundInv'
  <1>1. ASSUME NEW p \in Processes, BeginAny(p) PROVE SoundInv'
    BY <1>1, BeginSound, BeginMoves DEF SoundInv, ShowsValidated, Moves
  <1>2. ASSUME NEW p \in Processes, Continue(p) PROVE SoundInv'
    <2>1. Moves(p)
      BY <1>2, ContinueMoves DEF PlaceInv
    <2>2. req'[p].step \in PromotionSteps => req[p].step \in PromotionSteps /\ req'[p].r = req[p].r
      BY <1>2, ContinuePromoting DEF PromotionSteps, ReadImage, At
    <2> QED BY <1>2, <2>1, <2>2, ContinueSound DEF SoundInv, ShowsValidated, Moves, PromotionSteps, At
  <1>3. ASSUME UNCHANGED <<rows, history>>, \A q \in Processes : req'[q] \in {req[q], NoRequest} PROVE SoundInv'
    BY <1>3 DEF SoundInv, ShowsValidated, PromotionSteps, NoRequest, rows, history
  <1>4. ASSUME NEW p \in Processes, Crash(p) PROVE SoundInv'
    BY <1>3, <1>4 DEF Crash, Done, PlaceInv, TypeOK
  <1>5. ASSUME NEW r \in Replacements, UploadCandidate(r) \/ Expire(r) PROVE SoundInv'
    BY <1>3, <1>5 DEF UploadCandidate, Expire
  <1>6. CASE UNCHANGED vars
    BY <1>3, <1>6 DEF vars
  <1> QED BY <1>1, <1>2, <1>4, <1>5, <1>6, NextCases

\* No order of confirms, validations, cancellations and promotions shows a
\* candidate that no validation has passed.
THEOREM ShowsValidatedHolds == Spec => []ShowsValidated
  <1>1. SoundInv => ShowsValidated
    BY DEF SoundInv
  <1> QED BY <1>1, PlaceInit, PlaceStep, SoundInit, SoundStep, PTL DEF Spec

-----------------------------------------------------------------------------
(* Verdicts and deletion *)

LEMMA VerdictInit == Init => VerdictsOnOriginal
  BY DEF Init, VerdictsOnOriginal, NoRequest

UnvalidatedStatus == {"uploaded", "validating", "validation_failed"}

LEMMA ContinueVerdicts ==
  ASSUME PlaceInv, VerdictsOnOriginal, NEW p \in Processes, Continue(p)
  PROVE  VerdictsOnOriginal'
  <1>1. image'.status \in UnvalidatedStatus => image.status \in UnvalidatedStatus /\ image'.key = image.key
    BY DEF UnvalidatedStatus, PlaceInv, TypeOK, Continue, ReserveReplacement, InsertCandidate, ReleaseReservation, DemoteReady,
       MarkReplacementUploading, SignUpload, HeadCandidate, ConsumeReplacementReservation,
       MarkReplacementUploaded, RejectCandidate, MarkReplacementFailed, InspectCandidate,
       MarkReplacementValidated, ReadImage, CommitPromotion, ChargePromotion, MarkOldStorageDeleting,
       DeleteOldObject, MarkReplacementComplete, UnchargeOldObject, MarkOldStorageCleanupFailed,
       CancelSelected, DeleteCandidate, MarkCandidateDeleted, UnchargeCandidate,
       MarkCancelCleanupFailed, ExamineImage, MarkImageValidated, MarkImageValidationFailed,
       EvaluateReady, MarkImageReady, DemoteInvalidReady, EraseOriginal, AcquireImageDeletion,
       rows, CasImage
  <1>2. req'[p].step \in VerdictSteps => req[p].step \in VerdictSteps /\ req'[p].key = req[p].key
    BY DEF VerdictSteps, At, PlaceInv, TypeOK, Continue, ReserveReplacement, InsertCandidate, ReleaseReservation, DemoteReady,
       MarkReplacementUploading, SignUpload, HeadCandidate, ConsumeReplacementReservation,
       MarkReplacementUploaded, RejectCandidate, MarkReplacementFailed, InspectCandidate,
       MarkReplacementValidated, ReadImage, CommitPromotion, ChargePromotion, MarkOldStorageDeleting,
       DeleteOldObject, MarkReplacementComplete, UnchargeOldObject, MarkOldStorageCleanupFailed,
       CancelSelected, DeleteCandidate, MarkCandidateDeleted, UnchargeCandidate,
       MarkCancelCleanupFailed, ExamineImage, MarkImageValidated, MarkImageValidationFailed,
       EvaluateReady, MarkImageReady, DemoteInvalidReady, EraseOriginal, AcquireImageDeletion,
       Goto, Done, NoRequest, AfterReady
  <1>3. Moves(p)
    BY ContinueMoves DEF PlaceInv
  <1> QED BY <1>1, <1>2, <1>3 DEF VerdictsOnOriginal, Moves, UnvalidatedStatus

LEMMA BeginVerdicts ==
  ASSUME PlaceInv, VerdictsOnOriginal, NEW p \in Processes, BeginAny(p)
  PROVE  VerdictsOnOriginal'
  <1>1. image'.status \in UnvalidatedStatus => image.status \in UnvalidatedStatus /\ image'.key = image.key
    BY DEF UnvalidatedStatus, PlaceInv, TypeOK, BeginAny, BeginOnImage, Begin, BeginReplacement, ConfirmReplacement, AcquireReplacementValidation,
       ReadForPromotion, RetryOldStorageCleanup, AcquireCancellation, SelectCandidate,
       AcquireImageValidation, ValidateAgain, BeginDeletion,
       rows
  <1>t. req \in [Processes -> Place]
    BY DEF PlaceInv, TypeOK, Place
  <1>s. ASSUME NEW step, NEW r, Start(p, step, r)
        PROVE  req'[p].step = step
    BY <1>s, <1>t DEF Start, NoRequest
  <1>2. req'[p].step \in VerdictSteps => image.status \in UnvalidatedStatus /\ req'[p].key = image.key
    <2>1. ASSUME NEW r \in Replacements, RetryOldStorageCleanup(p, r)
          PROVE  req'[p].step \notin VerdictSteps
      BY <2>1, <1>t DEF RetryOldStorageCleanup, VerdictSteps
    <2>2. ASSUME NEW r \in Replacements, Begin(p, r) \/ SelectCandidate(p, r)
          PROVE  req'[p].step \notin VerdictSteps
      BY <2>1, <2>2, <1>s DEF Begin, BeginReplacement, ConfirmReplacement, AcquireReplacementValidation,
         ReadForPromotion, AcquireCancellation, SelectCandidate, VerdictSteps
    <2>3. ASSUME ValidateAgain(p) \/ BeginDeletion(p) PROVE req'[p].step \notin VerdictSteps
      BY <2>3, <1>s DEF ValidateAgain, BeginDeletion, VerdictSteps
    <2>4. ASSUME AcquireImageValidation(p)
          PROVE  image.status \in UnvalidatedStatus /\ req'[p].key = image.key
      BY <2>4, <1>t DEF AcquireImageValidation, UnvalidatedStatus
    <2> QED BY <2>2, <2>3, <2>4 DEF BeginAny, BeginOnImage
  <1>3. Moves(p)
    BY BeginMoves
  <1> QED BY <1>1, <1>2, <1>3 DEF VerdictsOnOriginal, Moves, UnvalidatedStatus

LEMMA VerdictStep ==
  ASSUME PlaceInv, VerdictsOnOriginal, [Next]_vars
  PROVE  VerdictsOnOriginal'
  <1>3. ASSUME UNCHANGED rows, \A q \in Processes : req'[q] \in {req[q], NoRequest} PROVE VerdictsOnOriginal'
    BY <1>3 DEF VerdictsOnOriginal, NoRequest, rows, VerdictSteps
  <1>4. ASSUME NEW p \in Processes, Crash(p) PROVE VerdictsOnOriginal'
    BY <1>3, <1>4 DEF Crash, Done, PlaceInv, TypeOK
  <1>5. ASSUME NEW r \in Replacements, UploadCandidate(r) \/ Expire(r) PROVE VerdictsOnOriginal'
    BY <1>3, <1>5 DEF UploadCandidate, Expire
  <1>6. CASE UNCHANGED vars
    BY <1>3, <1>6 DEF vars
  <1> QED BY BeginVerdicts, ContinueVerdicts, <1>4, <1>5, <1>6, NextCases

\* Only the request's own step moves it, and only its verdict on the original
\* it examined, while that is being validated, reaches the image.
LEMMA VerdictActs ==
  ASSUME PlaceInv, VerdictsOnOriginal, [Next]_vars, NEW p \in Processes,
         req[p].step \in {"valid", "invalid"}, req'[p] # req[p], image' # image
  PROVE  req[p].key = image.key
  <1>1. req[p].key = Original
    BY DEF VerdictsOnOriginal, VerdictSteps
  <1>2. ASSUME NEW q \in Processes, BeginAny(q) \/ Continue(q) \/ Crash(q) PROVE q = p
    BY <1>2, BeginMoves, ContinueMoves DEF Moves, Crash, Done, PlaceInv, TypeOK
  <1>3. ~BeginAny(p)
    BY DEF BeginAny, BeginOnImage, Begin, BeginReplacement, ConfirmReplacement, AcquireReplacementValidation,
       ReadForPromotion, RetryOldStorageCleanup, AcquireCancellation, SelectCandidate,
       AcquireImageValidation, ValidateAgain, BeginDeletion,
       Start, At
  <1>4. image.status = "validating" \/ ~Continue(p)
    BY DEF At, Continue, ReserveReplacement, InsertCandidate, ReleaseReservation, DemoteReady,
       MarkReplacementUploading, SignUpload, HeadCandidate, ConsumeReplacementReservation,
       MarkReplacementUploaded, RejectCandidate, MarkReplacementFailed, InspectCandidate,
       MarkReplacementValidated, ReadImage, CommitPromotion, ChargePromotion, MarkOldStorageDeleting,
       DeleteOldObject, MarkReplacementComplete, UnchargeOldObject, MarkOldStorageCleanupFailed,
       CancelSelected, DeleteCandidate, MarkCandidateDeleted, UnchargeCandidate,
       MarkCancelCleanupFailed, ExamineImage, MarkImageValidated, MarkImageValidationFailed,
       EvaluateReady, MarkImageReady, DemoteInvalidReady, EraseOriginal, AcquireImageDeletion,
       CasImage
  <1>5. Continue(p)
    <2>1. ~\E r \in Replacements : UploadCandidate(r) \/ Expire(r)
      BY DEF UploadCandidate, Expire
    <2>2. ~Crash(p) /\ ~UNCHANGED vars
      BY DEF Crash, vars, rows
    <2> QED BY <1>2, <1>3, <2>1, <2>2, NextCases
  <1> QED BY <1>1, <1>4, <1>5 DEF VerdictsOnOriginal

\* A validation of the image that writes its verdict writes it on the object it
\* examined, whatever was begun, promoted or deleted while it was decoding.
THEOREM VerdictHolds == Spec => VerdictOnItsObject
  <1>1. PlaceInv /\ VerdictsOnOriginal /\ [Next]_vars
          => [\A p \in Processes :
                req[p].step \in {"valid", "invalid"} /\ req'[p] # req[p] /\ image' # image
                  => req[p].key = image.key]_vars
    BY VerdictActs
  <1> QED BY <1>1, PlaceInit, PlaceStep, VerdictInit, VerdictStep, PTL DEF Spec, VerdictOnItsObject

\* Nothing that read the image before it was deleted brings it back.
THEOREM DeletedStaysHolds == Spec => DeletedStays
  <1>1. ASSUME [Next]_vars, image.status = "deleted" PROVE image' = image
    <2>1. ASSUME NEW p \in Processes, BeginAny(p) PROVE image' = image
      BY <1>1, <2>1 DEF BeginAny, BeginOnImage, Begin, BeginReplacement, ConfirmReplacement, AcquireReplacementValidation,
       ReadForPromotion, RetryOldStorageCleanup, AcquireCancellation, SelectCandidate,
       AcquireImageValidation, ValidateAgain, BeginDeletion,
         rows
    <2>2. ASSUME NEW p \in Processes, Continue(p) PROVE image' = image
      BY <1>1, <2>2 DEF Continue, ReserveReplacement, InsertCandidate, ReleaseReservation, DemoteReady,
       MarkReplacementUploading, SignUpload, HeadCandidate, ConsumeReplacementReservation,
       MarkReplacementUploaded, RejectCandidate, MarkReplacementFailed, InspectCandidate,
       MarkReplacementValidated, ReadImage, CommitPromotion, ChargePromotion, MarkOldStorageDeleting,
       DeleteOldObject, MarkReplacementComplete, UnchargeOldObject, MarkOldStorageCleanupFailed,
       CancelSelected, DeleteCandidate, MarkCandidateDeleted, UnchargeCandidate,
       MarkCancelCleanupFailed, ExamineImage, MarkImageValidated, MarkImageValidationFailed,
       EvaluateReady, MarkImageReady, DemoteInvalidReady, EraseOriginal, AcquireImageDeletion,
         rows, CasImage, ImageStatus
    <2> QED BY <1>1, <2>1, <2>2, NextCases DEF Crash, UploadCandidate, Expire, vars, rows
  <1>2. [Next]_vars => [image.status = "deleted" => image' = image]_vars
    BY <1>1
  <1> QED BY <1>2, PTL DEF Spec, DeletedStays

-----------------------------------------------------------------------------
(* Reserved bytes *)

HeldBy(res) == {r \in Replacements : res[r] \in {"reserved", "expired"}}

LEMMA HeldIsFinite ==
  ASSUME NEW res
  PROVE  IsFiniteSet(HeldBy(res)) /\ Cardinality(HeldBy(res)) \in Nat
  <1>1. IsFiniteSet(Replacements) /\ HeldBy(res) \subseteq Replacements
    BY ReplacementAssumption DEF ReplacementAssumption, HeldBy
  <1> QED BY <1>1, FS_Subset, FS_CardinalityType

\* A delta that does not go below zero is added in full.
LEMMA BumpReserved ==
  ASSUME TypeOK, NEW i \in Int, NEW j \in Int, NEW k \in Int, Bump(Delta(i, j, k)), quota.reserved + i >= 0
  PROVE  quota'.reserved = quota.reserved + i
  BY DEF TypeOK, Bump, Delta

\* A reservation is taken or given back with its bytes.
LEMMA HoldOne ==
  ASSUME TypeOK, ReservedExact, NEW r \in Replacements, reservation[r] = "none",
         reservation' = [reservation EXCEPT ![r] = "reserved"], Bump(Delta(1, 0, 0))
  PROVE  ReservedExact'
  <1>1. HeldBy(reservation') = HeldBy(reservation) \cup {r} /\ r \notin HeldBy(reservation)
    BY DEF HeldBy, TypeOK
  <1>2. quota'.reserved = quota.reserved + 1
    BY BumpReserved DEF TypeOK
  <1>3. Cardinality(HeldBy(reservation')) = Cardinality(HeldBy(reservation)) + 1
    BY <1>1, HeldIsFinite, FS_AddElement
  <1> QED BY <1>2, <1>3 DEF ReservedExact, HeldBy

LEMMA LetGoOne ==
  ASSUME TypeOK, ReservedExact, NEW r \in Replacements, reservation[r] = "reserved",
         NEW st \in {"cancelled", "consumed"}, reservation' = [reservation EXCEPT ![r] = st],
         NEW i \in {0, 1}, Bump(Delta(-1, i, 0))
  PROVE  ReservedExact'
  <1>1. HeldBy(reservation') = HeldBy(reservation) \ {r} /\ r \in HeldBy(reservation)
    BY DEF HeldBy, TypeOK
  <1>2. Cardinality(HeldBy(reservation')) = Cardinality(HeldBy(reservation)) - 1
    BY <1>1, HeldIsFinite, FS_RemoveElement
  <1>3. Cardinality(HeldBy(reservation)) >= 1
    BY <1>2, HeldIsFinite
  <1>4. quota'.reserved = quota.reserved - 1
    <2>1. quota.reserved >= 1
      BY <1>3 DEF ReservedExact, HeldBy
    <2> QED BY <2>1, BumpReserved DEF TypeOK
  <1> QED BY <1>2, <1>4 DEF ReservedExact, HeldBy

\* Bytes that move between the other counters leave the reserved ones alone.
LEMMA HoldNone ==
  ASSUME TypeOK, ReservedExact, HeldBy(reservation') = HeldBy(reservation),
         quota' = quota \/ \E i, j \in {-1, 0, 1} : Bump(Delta(0, i, j))
  PROVE  ReservedExact'
  <1>1. quota.reserved \in Nat
    BY DEF TypeOK
  <1>2. ASSUME NEW i \in {-1, 0, 1}, NEW j \in {-1, 0, 1}, Bump(Delta(0, i, j))
        PROVE  quota'.reserved = quota.reserved
    BY <1>1, <1>2, BumpReserved
  <1>3. quota'.reserved = quota.reserved
    BY <1>2
  <1> QED BY <1>3 DEF ReservedExact, HeldBy

LEMMA ContinueReserved ==
  ASSUME PlaceInv, ReservedExact, NEW p \in Processes, Continue(p)
  PROVE  ReservedExact'
  <1>f. Fits(req[p])
    BY DEF PlaceInv, RequestsFit
  <1>r. req[p].step \in CandidateSteps => req[p].r \in Replacements
    BY <1>f DEF Fits
  <1>1. CASE ReserveReplacement(p)
    BY <1>1, <1>f, <1>r, HoldOne, HoldNone DEF ReserveReplacement, Fits, At, CandidateSteps, money, PlaceInv
  <1>2. CASE ReleaseReservation(p)
    BY <1>2, <1>r, LetGoOne, HoldNone DEF ReleaseReservation, At, CandidateSteps, money, PlaceInv
  <1>3. CASE ConsumeReplacementReservation(p)
    <2>1. CASE reservation[req[p].r] = "reserved" /\ req[p].r \notin expired
      BY <1>3, <1>r, <2>1, LetGoOne DEF ConsumeReplacementReservation, At, CandidateSteps, PlaceInv
    <2>2. CASE ~(reservation[req[p].r] = "reserved" /\ req[p].r \notin expired)
      <3>1. HeldBy(reservation') = HeldBy(reservation) /\ quota' = quota
        BY <1>3, <2>2 DEF ConsumeReplacementReservation, HeldBy, PlaceInv, TypeOK
      <3> QED BY <3>1, HoldNone DEF PlaceInv
    <2> QED BY <2>1, <2>2
  <1>4. CASE ChargePromotion(p) \/ UnchargeOldObject(p) \/ UnchargeCandidate(p)
    BY <1>4, HoldNone DEF ChargePromotion, UnchargeOldObject, UnchargeCandidate, PlaceInv
  <1>5. CASE /\ ~ReserveReplacement(p) /\ ~ReleaseReservation(p) /\ ~ConsumeReplacementReservation(p)
             /\ ~ChargePromotion(p) /\ ~UnchargeOldObject(p) /\ ~UnchargeCandidate(p)
    <2>1. UNCHANGED money
      BY <1>5 DEF Continue, ReserveReplacement, InsertCandidate, ReleaseReservation, DemoteReady,
       MarkReplacementUploading, SignUpload, HeadCandidate, ConsumeReplacementReservation,
       MarkReplacementUploaded, RejectCandidate, MarkReplacementFailed, InspectCandidate,
       MarkReplacementValidated, ReadImage, CommitPromotion, ChargePromotion, MarkOldStorageDeleting,
       DeleteOldObject, MarkReplacementComplete, UnchargeOldObject, MarkOldStorageCleanupFailed,
       CancelSelected, DeleteCandidate, MarkCandidateDeleted, UnchargeCandidate,
       MarkCancelCleanupFailed, ExamineImage, MarkImageValidated, MarkImageValidationFailed,
       EvaluateReady, MarkImageReady, DemoteInvalidReady, EraseOriginal, AcquireImageDeletion
    <2> QED BY <2>1 DEF money, ReservedExact
  <1> QED BY <1>1, <1>2, <1>3, <1>4, <1>5

LEMMA ReservedInit == Init => ReservedExact
  <1> SUFFICES ASSUME Init PROVE ReservedExact
    OBVIOUS
  <1>1. {r \in Replacements : reservation[r] \in {"reserved", "expired"}} = {}
    BY DEF Init
  <1> QED BY <1>1, FS_EmptySet DEF Init, ReservedExact

LEMMA ReservedStep ==
  ASSUME PlaceInv, ReservedExact, [Next]_vars
  PROVE  ReservedExact'
  <1>1. ASSUME NEW p \in Processes, BeginAny(p) PROVE UNCHANGED money
    BY <1>1 DEF BeginAny, BeginOnImage, Begin, BeginReplacement, ConfirmReplacement, AcquireReplacementValidation,
       ReadForPromotion, RetryOldStorageCleanup, AcquireCancellation, SelectCandidate,
       AcquireImageValidation, ValidateAgain, BeginDeletion
  <1>2. UNCHANGED money => ReservedExact'
    BY DEF money, ReservedExact
  <1> QED BY <1>1, <1>2, ContinueReserved, NextCases DEF Crash, UploadCandidate, Expire, vars

\* No order of confirms, releases and expiries counts a candidate's bytes twice
\* or gives them back twice: the counter is what the reservations say.
THEOREM ReservedExactHolds == Spec => []ReservedExact
  BY PlaceInit, PlaceStep, ReservedInit, ReservedStep, PTL DEF Spec
=============================================================================
