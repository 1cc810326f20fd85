------------------------------- MODULE Documents -------------------------------
(***************************************************************************)
(* One document (modules/documents): uploaded, read by a language model,   *)
(* and reviewed by people when that is not sure enough.  An upload is a    *)
(* file and two transactions with the reading between them; a review reads *)
(* the status before the transaction that decides, and reviews overlap.    *)
(*                                                                         *)
(* The contents are "none", "read" or "corrected".  MaxReviews and         *)
(* MaxDocumentFaults are bounds.                                           *)
(***************************************************************************)
EXTENDS Integers, Sequences

CONSTANTS Reviewers, MaxReviews, MaxDocumentFaults

ASSUME DocumentsAssumption == {MaxReviews, MaxDocumentFaults} \subseteq Nat

VARIABLES
  extractable,  \* isExtractable of the document's type
  document,     \* its row: reviewStatus, reviewedBy, extractedData
  upload,       \* the upload request: the step, and what the reading gave
  review,       \* review[r]: "quiet", or "decides" once the status was read
  documentLog,  \* document.extracted and document.approved events, in order
  reviews,
  shared,       \* history: two reviews were under way at once
  documentFaults

documentVars ==
  <<extractable, document, upload, review, documentLog, reviews, shared, documentFaults>>

NoDocument == [status |-> "none", by |-> "nobody", data |-> "none"]
Readings == {"sure", "doubtful", "nothing"}

DocumentsInit ==
  /\ extractable \in BOOLEAN
  /\ document = NoDocument
  /\ upload = [pc |-> "store", reading |-> "nothing"]
  /\ review = [r \in Reviewers |-> "quiet"]
  /\ documentLog = <<>>
  /\ reviews = 0
  /\ shared = FALSE
  /\ documentFaults = 0

-----------------------------------------------------------------------------
(* Upload.                                                                  *)

\* The file, then the row with its document.uploaded.
StoreDocument ==
  /\ upload.pc = "store"
  /\ document' = [document EXCEPT !.status = "PENDING_EXTRACTION"]
  /\ upload' = [upload EXCEPT !.pc = IF extractable THEN "read" ELSE "settle"]
  /\ UNCHANGED <<extractable, review, documentLog, reviews, shared, documentFaults>>

\* extract: no key, a file of another kind, a refusal or an error give nothing.
ReadDocument ==
  /\ upload.pc = "read"
  /\ \E reading \in Readings : upload' = [pc |-> "settle", reading |-> reading]
  /\ UNCHANGED <<extractable, document, review, documentLog, reviews, shared, documentFaults>>

SettleUpload ==
  /\ upload.pc = "settle"
  /\ document' =
       [status |-> IF upload.reading = "sure" THEN "APPROVED" ELSE "PENDING_REVIEW",
        by |-> IF upload.reading = "sure" THEN "auto" ELSE document.by,
        data |-> IF upload.reading = "nothing" THEN "none" ELSE "read"]
  /\ documentLog' = IF upload.reading = "nothing" THEN documentLog
                    ELSE Append(documentLog, [type |-> "document.extracted", by |-> "extraction"])
  /\ upload' = [upload EXCEPT !.pc = "done"]
  /\ UNCHANGED <<extractable, review, reviews, shared, documentFaults>>

\* A statement fails, or the process ends; nothing takes the upload up again.
UploadFails ==
  /\ upload.pc \in {"store", "read", "settle"} /\ documentFaults < MaxDocumentFaults
  /\ upload' = [upload EXCEPT !.pc = "failed"]
  /\ documentFaults' = documentFaults + 1
  /\ UNCHANGED <<extractable, document, review, documentLog, reviews, shared>>

-----------------------------------------------------------------------------
(* Review.                                                                  *)

\* A plausible bug: the status is not looked at.
StartReviewUnchecked(r) ==
  /\ review[r] = "quiet" /\ reviews < MaxReviews
  /\ document.status # "none"
  /\ reviews' = reviews + 1
  /\ review' = [review EXCEPT ![r] = "decides"]
  /\ shared' = (shared \/ \E q \in Reviewers : review[q] # "quiet")
  /\ UNCHANGED <<extractable, document, upload, documentLog, documentFaults>>

StartReview(r) ==
  /\ review[r] = "quiet" /\ reviews < MaxReviews
  /\ document.status = "PENDING_REVIEW"
  /\ reviews' = reviews + 1
  /\ review' = [review EXCEPT ![r] = "decides"]
  /\ shared' = (shared \/ \E q \in Reviewers : review[q] # "quiet")
  /\ UNCHANGED <<extractable, document, upload, documentLog, documentFaults>>

\* The row is updated by id, whatever its status is by then.
Decide(r, decision, corrects) ==
  /\ review[r] = "decides"
  /\ document' = [status |-> decision, by |-> r,
                  data |-> IF corrects THEN "corrected" ELSE document.data]
  /\ documentLog' = IF decision = "REJECTED" THEN documentLog
                    ELSE Append(documentLog, [type |-> "document.approved", by |-> r])
  /\ review' = [review EXCEPT ![r] = "quiet"]
  /\ UNCHANGED <<extractable, upload, reviews, shared, documentFaults>>

ReviewFails(r) ==
  /\ review[r] = "decides" /\ documentFaults < MaxDocumentFaults
  /\ review' = [review EXCEPT ![r] = "quiet"]
  /\ documentFaults' = documentFaults + 1
  /\ UNCHANGED <<extractable, document, upload, documentLog, reviews, shared>>

DocumentsNext ==
  \/ StoreDocument \/ ReadDocument \/ SettleUpload \/ UploadFails
  \/ \E r \in Reviewers :
       \/ StartReview(r) \/ ReviewFails(r)
       \/ \E decision \in {"APPROVED", "REJECTED"}, corrects \in BOOLEAN :
            Decide(r, decision, corrects)

DocumentsSpec == DocumentsInit /\ [][DocumentsNext]_documentVars

-----------------------------------------------------------------------------
(* Properties.                                                              *)

Approvals == {i \in DOMAIN documentLog : documentLog[i].type = "document.approved"}

\* Nothing is approved but by a sure reading or a reviewer on the log, and unless
\* reviews overlapped the log holds no approval the row contradicts: one decides,
\* and that stands.  No document is left where nobody can review it, unless its
\* upload failed.
DocumentSettled ==
  /\ document.status = "APPROVED" =>
       \/ document.by = "auto" /\ upload.reading = "sure" /\ document.data = "read"
       \/ \E i \in Approvals : documentLog[i].by = document.by
  /\ \/ shared
     \/ Approvals = {}
     \/ \E i \in Approvals : Approvals = {i} /\ document.status = "APPROVED"
                             /\ document.by = documentLog[i].by
  /\ document.status = "PENDING_EXTRACTION" => upload.pc # "done"
=============================================================================
