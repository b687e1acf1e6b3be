------------------------------- MODULE Catalog -------------------------------
(***************************************************************************)
(* The reason catalog (domain/reasons.py): every code a check can emit,    *)
(* grouped by what it does to the decision.  The message templates are     *)
(* left out; a reason is its code.                                         *)
(***************************************************************************)

RejectCodes ==
    { "AADHAAR_PRINT_CONTRADICTS_QR",
      "AGE_BELOW_MIN_CONFIRMED", "AGE_ABOVE_MAX_CONFIRMED" }

\* Codes that carry an Action for the participant, by that action.
RetakeIdCodes ==
    { "IMAGE_BLURRY", "IMAGE_GLARE", "IMAGE_TOO_SMALL", "DOCUMENT_NOT_FOUND",
      "PDF_UNREADABLE", "IMAGE_UNREADABLE", "FIELDS_UNREADABLE",
      "AADHAAR_QR_REQUIRED",
      "PASS_INVALID", "PASS_EXPIRED", "PASS_LEVEL_TOO_LOW", "PASS_NOT_ACCEPTED",
      "AADHAAR_APP_INVALID", "AADHAAR_APP_CLAIM_MISSING" }
RetakeSelfieCodes ==
    { "SELFIE_SPOOF_SUSPECTED", "SELFIE_REQUIRED", "SELFIE_NO_FACE" }
UploadCodes ==
    { "SCREEN_RECAPTURE", "DOC_TYPE_NOT_ACCEPTED",
      "STUDENT_PROOF_REQUIRED", "COLLEGE_ID_EXPIRED" }
ActionCodes == RetakeIdCodes \cup RetakeSelfieCodes \cup UploadCodes

DuplicateCodes ==
    { "DUPLICATE_ID_OTHER_IDENTITY", "DUPLICATE_IMAGE",
      "DUPLICATE_FACE_OTHER_IDENTITY", "DUPLICATE_LATER_REGISTRATION",
      "DEVICE_SHARED_BY_MANY" }
ReviewCodes ==
    DuplicateCodes \cup
    { "DOC_TYPE_UNKNOWN", "ID_NUMBER_INVALID", "PAN_NOT_INDIVIDUAL",
      "DOB_IMPLAUSIBLE", "AADHAAR_QR_MISSING_AFTER_RETAKE",
      "AADHAAR_QR_SIGNATURE_INVALID", "AADHAAR_PHOTO_MISMATCH_QR",
      "AADHAAR_PRINT_QR_MISMATCH", "TAMPER_SUSPECTED_FIELD",
      "EDITING_SOFTWARE_METADATA", "TEXT_GEOMETRY_ANOMALY",
      "DUPLICATE_INDEX_UNAVAILABLE", "NAME_PARTIAL_MATCH", "NAME_MISMATCH",
      "DOB_MISMATCH_FORM", "SELFIE_MISMATCH", "AGE_OUT_OF_RANGE_UNCONFIRMED",
      "AGE_UNKNOWN", "AGE_BOUNDARY_UNCERTAIN", "PASS_REVOKED",
      "PASS_SUBJECT_MISMATCH", "CHECK_ERROR", "LEVEL_BELOW_EVENT_MINIMUM" }
PenaltyCodes ==
    { "LOW_OCR_CONFIDENCE", "PAN_SURNAME_INITIAL_MISMATCH",
      "INSTITUTION_NOT_RECOGNISED", "SELFIE_NOT_LIVE_CAPTURE",
      "COLLEGE_ID_VALIDITY_UNKNOWN" }
InfoCodes ==
    { "ID_NUMBER_VALID", "ID_NUMBER_MASKED", "AADHAAR_QR_VERIFIED",
      "AADHAAR_QR_NOT_FOUND", "AADHAAR_QR_LEGACY_UNSIGNED",
      "AADHAAR_QR_CERT_MISSING", "AADHAAR_QR_UNREADABLE", "SAME_PERSON_KNOWN",
      "NAME_MATCH", "EMAIL_DOMAIN_MATCHES_INSTITUTION",
      "VERIFIED_COLLEGE_EMAIL", "SELFIE_MATCH", "SELFIE_NO_REFERENCE",
      "AGE_ELIGIBLE", "MINOR_GUARDIAN_CONSENT", "PASS_ACCEPTED",
      "AADHAAR_APP_VERIFIED" }

Codes == RejectCodes \cup ActionCodes \cup ReviewCodes \cup PenaltyCodes \cup InfoCodes

Effect(code) ==
    IF code \in RejectCodes THEN "reject"
    ELSE IF code \in ActionCodes THEN "action"
    ELSE IF code \in ReviewCodes THEN "review"
    ELSE IF code \in PenaltyCodes THEN "penalty"
    ELSE "info"

\* Flags a reason sets on the verification.
Flagged(codes) ==
    { flag \in {"duplicate_suspected", "guardian_consent_required"} :
        \/ flag = "duplicate_suspected" /\ codes \cap DuplicateCodes # {}
        \/ flag = "guardian_consent_required" /\ "MINOR_GUARDIAN_CONSENT" \in codes }
==============================================================================
