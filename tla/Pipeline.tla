------------------------------ MODULE Pipeline -------------------------------
(***************************************************************************)
(* One registration on the document path: every attempt sends a form and a *)
(* photo of an ID, runs the stages of checks (pipeline/orchestrator.py,    *)
(* pipeline/checks/) over a shared context, and is decided by decide().    *)
(* The checks of a stage run concurrently, the stages in order.            *)
(*                                                                         *)
(* A submission is what the engines would read off it: OCR, QR decoding,   *)
(* face and pixel engines are left out.  A date is a year and a day of it. *)
(* Codes that change neither status nor decision (the college e-mail, the  *)
(* institution registry) are left out.                                     *)
(***************************************************************************)
EXTENDS Decision, Sequences

CONSTANTS
    Submissions,             \* what the attempts may send
    Policies,                \* the events' rules
    Today,                   \* the day of the attempts
    None,                    \* an absent value
    CertificatesAvailable,   \* a UIDAI certificate is installed
    FacesAvailable,          \* the face models are installed
    MaxAttempts              \* bound: attempts of the registration

Checks == { "quality", "extract", "aadhaar_qr", "document_rules", "tamper",
            "duplicates", "identity", "selfie", "eligibility" }

DocTypes == {"aadhaar", "pan", "college_id", "unknown"}
Names == {"none", "mismatch", "partial", "match"}      \* compared with the form's name
QrCodes == {"none", "legacy", "bad_signature", "signed"}
Sources == {"none", "ocr", "qr_signed"}
Ages == Nat \cup {None}
Dates == [year : Nat, day : 1 .. 366]
Before(a, b) == a.year < b.year \/ (a.year = b.year /\ a.day < b.day)
Readings == {"absent", "low", "fair", "high"}          \* confidence of a read date
TamperCodes == {"EDITING_SOFTWARE_METADATA", "TAMPER_SUSPECTED_FIELD",
                "TEXT_GEOMETRY_ANOMALY", "SCREEN_RECAPTURE"}

Submission ==
    [ image  : {"unreadable", "defective", "clear"},
      text   : BOOLEAN,                  \* OCR read lines
      doc    : DocTypes,                 \* as classified from the text
      name   : Names,                    \* as read by OCR
      dob    : Dates \cup {None},
      year   : Ages,                     \* printed instead of a full date of birth
      reading : Readings,
      number : {"valid", "invalid", "masked", "not_individual", "other_surname"},
      institution : BOOLEAN,
      valid_until : Dates \cup {None},
      qr     : QrCodes,
      qr_name : Names,
      qr_dob : Dates \cup {None},
      qr_year : Ages,
      qr_differs : SUBSET {"name", "number", "photo"},   \* signed data against the print
      form_dob : Dates \cup {None},
      account : BOOLEAN,                 \* sent with a subject_id
      signs  : SUBSET TamperCodes,
      known  : Known,                    \* what the duplicates check finds
      selfie : {"none", "no_face", "spoof", "no_reference", "mismatch", "match"},
      live   : BOOLEAN,                  \* the selfie is a camera capture
      raises : SUBSET Checks ]           \* checks that raise an exception

Policy ==
    [ event : Dates, min_age : Ages, max_age : Ages, student_only : BOOLEAN, accepted : SUBSET DocTypes,
      require_selfie : BOOLEAN, min_level : EvidenceLevels,
      require_aadhaar_qr : BOOLEAN, guardian_consent_under : Nat,
      accept_passes : BOOLEAN, issue_passes : BOOLEAN ]

ASSUME SubmissionsAssumption ==
    \A s \in Submissions :
        /\ s \in Submission
        /\ s.dob = None <=> s.reading = "absent"
        /\ s.dob # None => s.year = None
        /\ ~s.text => s.doc = "unknown" /\ s.name = "none" /\ s.dob = None /\ s.year = None
        /\ s.qr_dob # None => s.qr_year = s.qr_dob.year
ASSUME PoliciesAssumption ==
    /\ Policies \subseteq Policy
    /\ \A p \in Policies : p.min_age # None /\ p.max_age # None => p.min_age <= p.max_age
ASSUME EnvironmentAssumption ==
    /\ Today \in Dates /\ None \notin Nat \cup Dates
    /\ CertificatesAvailable \in BOOLEAN /\ FacesAvailable \in BOOLEAN
    /\ MaxAttempts \in Nat

VARIABLES
    policy,    \* of the event
    attempt,   \* verifications saved for this registration (count_attempts)
    sub,       \* the last submission, None before the first
    stage,     \* index into Stages, 0 between attempts
    pending,   \* checks of the stage still running
    ctx,       \* the shared context: artefacts and fields
    results,   \* ctx.results
    outcome    \* of the last finished attempt

vars == <<policy, attempt, sub, stage, pending, ctx, results, outcome>>

Stages ==
    << {"quality"}, {"extract"}, {"aadhaar_qr"},
       {"document_rules", "tamper", "duplicates", "identity", "selfie"}, {"eligibility"} >>

\* VerificationContext before any check ran.
Empty == [ image |-> FALSE, qr |-> "none", doc |-> "unknown", name |-> "none",
           dob |-> None, year |-> None, source |-> "none", reading |-> "absent",
           valid_until |-> None ]
Contexts ==
    [ image : BOOLEAN, qr : QrCodes, doc : DocTypes, name : Names,
      dob : Dates \cup {None}, year : Ages, source : Sources, reading : Readings,
      valid_until : Dates \cup {None} ]

When(condition, code) == IF condition THEN {code} ELSE {}
Ran(status, codes) == result(status, codes, UNUSABLE)

------------------------------------------------------------------------------
\* quality: a failure means a retake.
quality(s) ==
    IF s.image = "clear" THEN Ran("pass", {})
    ELSE Ran("fail", {IF s.image = "unreadable" THEN "IMAGE_UNREADABLE" ELSE "IMAGE_BLURRY"})

\* The QR's UIDAI signature verified (qr_certificate is set).
Certified(c) == c.qr = "signed" /\ CertificatesAvailable

\* extract: classification, fields and the gaps filled from the signed QR.
Extracted(s, c) ==
    LET doc == IF s.doc = "unknown" /\ s.qr # "none" THEN "aadhaar" ELSE s.doc
        read == [ c EXCEPT !.qr = s.qr, !.doc = doc, !.name = s.name, !.dob = s.dob, !.year = s.year,
                           !.reading = s.reading, !.valid_until = s.valid_until,
                           !.source = IF s.dob # None \/ s.year # None THEN "ocr" ELSE "none" ]
        undated == s.dob = None /\ s.year = None /\ (s.qr_dob # None \/ s.qr_year # None)
        named == [ read EXCEPT !.name = IF @ = "none" THEN s.qr_name ELSE @ ]
    IN  IF ~Certified(read) THEN read
        ELSE IF undated THEN [ named EXCEPT !.dob = s.qr_dob, !.year = s.qr_year, !.source = "qr_signed" ]
        ELSE named

\* extract, on the context it has just filled.
extract(s, c) ==
    LET undated == c.dob = None /\ c.year = None
        missing == c.name = "none" \/ (IF c.doc = "college_id" THEN ~s.institution ELSE undated)
    IN  IF ~c.image THEN Ran("skipped", {})
        ELSE IF ~s.text /\ c.qr = "none" THEN Ran("fail", {"FIELDS_UNREADABLE"})
        ELSE Ran(IF c.doc # "unknown" /\ ~missing THEN "pass" ELSE "fail",
                 When(c.doc = "unknown", "DOC_TYPE_UNKNOWN")
                   \cup When(missing, "FIELDS_UNREADABLE")
                   \cup When(s.reading = "low", "LOW_OCR_CONFIDENCE"))

AgeRule(p) == p.min_age # None \/ p.max_age # None

\* aadhaar_qr: the signed date of birth against the printed one.
DobDiffers(s, c) ==
    c.source = "ocr" /\ c.dob # None /\ s.qr_dob # None /\ c.dob # s.qr_dob
YearDiffers(s, c) ==
    LET printed == IF c.dob # None THEN c.dob.year ELSE c.year
    IN  c.source = "ocr" /\ printed # None /\ s.qr_year # None /\ printed # s.qr_year

\* A misread would not also match the form.
Contradiction(s, c) == DobDiffers(s, c) /\ s.form_dob = c.dob

QrFindings(s, c) ==
    LET mismatch == \/ (DobDiffers(s, c) \/ YearDiffers(s, c)) /\ ~Contradiction(s, c)
                    \/ s.qr_differs \cap {"name", "number"} # {}
    IN  When(Contradiction(s, c), "AADHAAR_PRINT_CONTRADICTS_QR")
      \cup When(mismatch, "AADHAAR_PRINT_QR_MISMATCH")
      \cup When("photo" \in s.qr_differs /\ FacesAvailable, "AADHAAR_PHOTO_MISMATCH_QR")

\* Mutant: the participant is asked again and again.
MissingQr_AskAgain(attempts) == {"AADHAAR_QR_REQUIRED"}

MissingQr(attempts) ==
    {IF attempts > 0 THEN "AADHAAR_QR_MISSING_AFTER_RETAKE" ELSE "AADHAAR_QR_REQUIRED"}

aadhaar_qr(s, c, p, attempts) ==
    IF c.qr = "none" THEN
        IF c.doc # "aadhaar" THEN Ran("skipped", {})
        ELSE IF p.require_aadhaar_qr /\ AgeRule(p)
        THEN Ran("fail", MissingQr(attempts))
        ELSE Ran("skipped", {"AADHAAR_QR_NOT_FOUND"})
    ELSE IF c.qr = "legacy" THEN Ran("skipped", {"AADHAAR_QR_LEGACY_UNSIGNED"})
    ELSE IF ~CertificatesAvailable THEN Ran("skipped", {"AADHAAR_QR_CERT_MISSING"})
    ELSE IF ~Certified(c) THEN Ran("warn", {"AADHAAR_QR_SIGNATURE_INVALID"})
    ELSE IF QrFindings(s, c) = {} THEN Ran("pass", {"AADHAAR_QR_VERIFIED"})
    ELSE Ran(IF Contradiction(s, c) THEN "fail" ELSE "warn", QrFindings(s, c))

\* Signed data that agrees with the card becomes the authoritative source.
Upgraded(s, c) ==
    IF Certified(c) /\ QrFindings(s, c) = {}
    THEN [ c EXCEPT !.source = "qr_signed",
                    !.dob  = IF s.qr_dob # None THEN s.qr_dob ELSE @,
                    !.year = IF s.qr_dob # None THEN None ELSE @ ]
    ELSE c

\* document_rules: the number's format by document type, and the date of birth.
NumberCodes(doc, number) ==
    IF doc = "college_id" THEN {}
    ELSE IF number = "invalid" THEN {"ID_NUMBER_INVALID"}
    ELSE IF number = "masked" THEN {IF doc = "aadhaar" THEN "ID_NUMBER_MASKED" ELSE "ID_NUMBER_INVALID"}
    ELSE {"ID_NUMBER_VALID"}
           \cup When(doc = "pan" /\ number = "not_individual", "PAN_NOT_INDIVIDUAL")
           \cup When(doc = "pan" /\ number = "other_surname", "PAN_SURNAME_INITIAL_MISMATCH")

document_rules(s, c) ==
    LET implausible == c.dob # None /\ (Before(Today, c.dob) \/ ~Before([year |-> 1900, day |-> 1], c.dob))
        codes == NumberCodes(c.doc, s.number) \cup When(implausible, "DOB_IMPLAUSIBLE")
    IN  IF c.doc = "unknown" THEN Ran("skipped", {})
        ELSE Ran(IF codes \cap ReviewCodes # {} THEN "warn" ELSE "pass", codes)

tamper(s, c) ==
    IF ~c.image THEN Ran("skipped", {}) ELSE Ran(IF s.signs # {} THEN "warn" ELSE "pass", s.signs)

\* identity: the better of the printed and the signed name, and the form's date of birth.
BestName(s, c) ==
    LET scores == {c.name} \cup IF Certified(c) THEN {s.qr_name} ELSE {}
    IN  IF "match" \in scores THEN "match" ELSE IF "partial" \in scores THEN "partial" ELSE "mismatch"

\* Mutant: only the years are compared.
DobConflict_Year(s, c) ==
    /\ s.form_dob # None
    /\ s.form_dob.year # IF c.dob # None THEN c.dob.year ELSE IF c.year # None THEN c.year ELSE s.form_dob.year

DobConflict(s, c) ==
    /\ s.form_dob # None
    /\ IF c.dob # None THEN s.form_dob # c.dob ELSE c.year # None /\ s.form_dob.year # c.year
identity(s, c) ==
    LET code == [match |-> "NAME_MATCH", partial |-> "NAME_PARTIAL_MATCH", mismatch |-> "NAME_MISMATCH"]
    IN  IF c.name = "none" THEN Ran("skipped", {})
        ELSE Ran(IF BestName(s, c) = "match" /\ ~DobConflict(s, c) THEN "pass" ELSE "warn",
                 {code[BestName(s, c)]} \cup When(DobConflict(s, c), "DOB_MISMATCH_FORM"))

\* Mutant: an uploaded selfie passes as a captured one.
SelfieStatus_AnySource(s) == "pass"

SelfieStatus(s) == IF s.live THEN "pass" ELSE "warn"
selfie(s, p) ==
    LET source == When(~s.live, "SELFIE_NOT_LIVE_CAPTURE")
    IN  IF s.selfie = "none"
        THEN IF p.require_selfie THEN Ran("fail", {"SELFIE_REQUIRED"}) ELSE Ran("skipped", {})
        ELSE IF ~FacesAvailable THEN Ran("error", {})
        ELSE IF s.selfie = "no_face" THEN Ran("fail", {"SELFIE_NO_FACE"})
        ELSE IF s.selfie = "spoof" THEN Ran("fail", {"SELFIE_SPOOF_SUSPECTED"})
        ELSE IF s.selfie = "no_reference" THEN Ran("skipped", {"SELFIE_NO_REFERENCE"} \cup source)
        ELSE IF s.selfie = "mismatch" THEN Ran("warn", {"SELFIE_MISMATCH"} \cup source)
        ELSE Ran(SelfieStatus(s), {"SELFIE_MATCH"} \cup source)

------------------------------------------------------------------------------
\* eligibility: the age on the event's day, the document and the student rules.
age_on(dob, on) == on.year - dob.year - (IF on.day < dob.day THEN 1 ELSE 0)

\* The ages the evidence leaves possible; none when no date was read.
PossibleAges(c, p) ==
    IF c.dob # None THEN {age_on(c.dob, p.event)}
    ELSE IF c.year # None THEN {p.event.year - c.year - 1, p.event.year - c.year}
    ELSE {}

\* Mutant: somebody one year short is let in.
within_OffByOne(age, p) ==
    /\ p.min_age # None => age >= p.min_age - 1
    /\ p.max_age # None => age <= p.max_age

within(age, p) ==
    /\ p.min_age # None => age >= p.min_age
    /\ p.max_age # None => age <= p.max_age

\* _dob_confirmed: hard evidence about the date of birth.
dob_confirmed(s, c) ==
    \/ c.source = "qr_signed"
    \/ c.source = "ocr" /\ c.reading = "high" /\ s.form_dob = c.dob

AgeCodes(s, c, p) ==
    LET ages == PossibleAges(c, p)
        inside == { age \in ages : within(age, p) }
    IN  IF ages = {} THEN When(AgeRule(p), "AGE_UNKNOWN")
        ELSE When(Min(ages) < p.guardian_consent_under, "MINOR_GUARDIAN_CONSENT")
          \cup IF ~AgeRule(p) THEN {}
               ELSE IF inside = ages THEN When(c.dob # None, "AGE_ELIGIBLE")
               ELSE IF inside # {} THEN {"AGE_BOUNDARY_UNCERTAIN"}
               ELSE IF ~dob_confirmed(s, c) THEN {"AGE_OUT_OF_RANGE_UNCONFIRMED"}
               ELSE IF p.min_age # None /\ Max(ages) < p.min_age THEN {"AGE_BELOW_MIN_CONFIRMED"}
               ELSE {"AGE_ABOVE_MAX_CONFIRMED"}

\* Mutant: a card counts as valid when it is so today.
StudentCodes_Today(c, p) ==
    IF c.doc # "college_id" THEN {"STUDENT_PROOF_REQUIRED"}
    ELSE IF c.valid_until = None THEN {"COLLEGE_ID_VALIDITY_UNKNOWN"}
    ELSE When(Before(c.valid_until, Today), "COLLEGE_ID_EXPIRED")

StudentCodes(c, p) ==
    IF c.doc # "college_id" THEN {"STUDENT_PROOF_REQUIRED"}
    ELSE IF c.valid_until = None THEN {"COLLEGE_ID_VALIDITY_UNKNOWN"}
    ELSE When(Before(c.valid_until, p.event), "COLLEGE_ID_EXPIRED")

eligibility(s, c, p) ==
    LET age == AgeCodes(s, c, p)
        codes == age \cup When(c.doc \notin p.accepted \cup {"unknown"}, "DOC_TYPE_NOT_ACCEPTED")
                     \cup IF p.student_only THEN StudentCodes(c, p) ELSE {}
    IN  Ran(IF age \cap RejectCodes # {} THEN "fail" ELSE "pass", codes)

------------------------------------------------------------------------------
TypeOK ==
    /\ policy \in Policies
    /\ attempt \in 0 .. MaxAttempts
    /\ sub # None => sub \in Submission
    /\ stage \in 0 .. Len(Stages)
    /\ pending \subseteq (IF stage = 0 THEN {} ELSE Stages[stage])
    /\ ctx \in Contexts
    /\ DOMAIN results \subseteq Checks
    /\ \A check \in DOMAIN results : results[check] \in CheckResults

NoOutcome == [decision |-> "none", level |-> UNUSABLE, reasons |-> {}, actions |-> {}, flags |-> {}]
NoResults == [check \in {} |-> Ran("skipped", {})]

Init ==
    /\ policy \in Policies
    /\ attempt = 0 /\ sub = None /\ stage = 0 /\ pending = {}
    /\ ctx = Empty /\ results = NoResults /\ outcome = NoOutcome

\* verify_document: a fresh context, which knows how many attempts were saved before.
Submit(s) ==
    /\ stage = 0 /\ attempt < MaxAttempts
    /\ sub' = s /\ ctx' = Empty /\ results' = NoResults
    /\ stage' = 1 /\ pending' = Stages[1] /\ outcome' = NoOutcome
    /\ UNCHANGED <<policy, attempt>>

\* The context a check leaves behind.
Left(check) ==
    IF check = "quality" THEN [ctx EXCEPT !.image = sub.image # "unreadable"]
    ELSE IF check = "extract" /\ ctx.image THEN Extracted(sub, ctx)
    ELSE IF check = "aadhaar_qr" THEN Upgraded(sub, ctx)
    ELSE ctx

ResultOf(check) ==
    CASE check = "quality"        -> quality(sub)
      [] check = "extract"        -> extract(sub, Left(check))
      [] check = "aadhaar_qr"     -> aadhaar_qr(sub, ctx, policy, attempt)
      [] check = "document_rules" -> document_rules(sub, ctx)
      [] check = "tamper"         -> tamper(sub, ctx)
      [] check = "duplicates"     -> sub.known
      [] check = "identity"       -> identity(sub, ctx)
      [] check = "selfie"         -> selfie(sub, policy)
      [] check = "eligibility"    -> eligibility(sub, ctx, policy)

\* _run_one: the check runs to its end.
RunCheck(check) ==
    /\ check \in pending /\ check \notin sub.raises
    /\ ctx' = Left(check)
    /\ results' = With(results, check, ResultOf(check))
    /\ pending' = pending \ {check}
    /\ UNCHANGED <<policy, attempt, sub, stage, outcome>>

\* Mutant: a check that raised is skipped.
Raised_Skipped == Ran("skipped", {})

Raised == Ran("error", {})

\* What a thread of extract has stored of the QR when it is seen from elsewhere:
\* the code is stored before the certificate that makes it a signed one.
StoredQr == {sub.qr} \cup IF sub.qr = "signed" THEN {"bad_signature"} ELSE {}

\* _run_one: the check raises.  The engines it ran before may have left artefacts,
\* but it has not reached the assignment of ctx.fields.
CheckRaises(check) ==
    /\ check \in pending /\ check \in sub.raises
    /\ \/ UNCHANGED ctx
       \/ check = "quality" /\ ctx' = [ctx EXCEPT !.image = sub.image # "unreadable"]
       \/ check = "extract" /\ ctx.image /\ \E qr \in StoredQr : ctx' = [ctx EXCEPT !.qr = qr]
    /\ results' = With(results, check, Raised)
    /\ pending' = pending \ {check}
    /\ UNCHANGED <<policy, attempt, sub, stage, outcome>>

\* gather() ends with the first exception: when OCR raised, the thread that reads the
\* QR goes on beside the later stages.
LateQr ==
    /\ stage # 0 /\ ctx.image /\ ctx.qr # sub.qr
    /\ "extract" \in sub.raises /\ "extract" \in DOMAIN results
    /\ \E qr \in StoredQr \ {ctx.qr} : ctx' = [ctx EXCEPT !.qr = qr]
    /\ UNCHANGED <<policy, attempt, sub, stage, pending, results, outcome>>

\* An unusable image is not worth OCR.
StopsHere ==
    \/ stage = Len(Stages)
    \/ "quality" \in DOMAIN results /\ results["quality"].status = "fail"

NextStage ==
    /\ stage # 0 /\ pending = {} /\ ~StopsHere
    /\ stage' = stage + 1 /\ pending' = Stages[stage + 1]
    /\ UNCHANGED <<policy, attempt, sub, ctx, results, outcome>>

\* _finalise: decide and save.
Decide ==
    /\ stage # 0 /\ pending = {} /\ StopsHere
    /\ outcome' = decide(results, policy.min_level)
    /\ attempt' = attempt + 1
    /\ stage' = 0
    /\ UNCHANGED <<policy, sub, pending, ctx, results>>

\* The steps of an attempt in progress.
Working == (\E check \in Checks : RunCheck(check) \/ CheckRaises(check)) \/ LateQr \/ NextStage

Next == (\E s \in Submissions : Submit(s)) \/ Working \/ Decide

Spec == Init /\ [][Next]_vars

------------------------------------------------------------------------------
(* Properties of a decided attempt *)
Decided(decision) == stage = 0 /\ outcome.decision = decision
SignedDob == sub.qr = "signed" /\ CertificatesAvailable /\ sub.qr_dob # None
OfAge(dob, p) ==
    /\ p.min_age # None => age_on(dob, p.event) >= p.min_age
    /\ p.max_age # None => age_on(dob, p.event) <= p.max_age

\* Every date of birth that the evidence of the last attempt leaves possible, the
\* signed one first, is one the event admits.
AgeShown(p) ==
    /\ SignedDob => OfAge(sub.qr_dob, p)
    /\ sub.dob # None => OfAge(sub.dob, p)
    /\ sub.year # None /\ ~SignedDob =>
           \A day \in {1, 366} : OfAge([year |-> sub.year, day |-> day], p)
    /\ \/ SignedDob \/ sub.dob # None \/ sub.year # None
       \/ sub.qr = "signed" /\ sub.qr_year # None

\* A check that raised stands in the way of a verification, and so does an
\* unusable image: LEVEL_REQUIREMENTS count checks that ran and passed only.
BrokenCheckNeverVerifies ==
    Decided("verified") => sub.raises = {} /\ sub.image = "clear"

\* "Only a live camera capture can reach L4" (selfie.py:15), and only beside a
\* signed QR that agrees with the card.
PresentIsLive ==
    stage = 0 /\ outcome.level = PRESENT =>
        sub.live /\ sub.selfie = "match" /\ sub.qr = "signed" /\ sub.qr_differs = {}

\* Every date of birth a verified person gave or showed is the same one.
VerifiedDatesAgree ==
    Decided("verified") =>
        /\ sub.form_dob # None /\ sub.dob # None => sub.form_dob = sub.dob
        /\ sub.form_dob # None /\ SignedDob => sub.form_dob = sub.qr_dob
        /\ sub.dob # None /\ SignedDob => sub.dob = sub.qr_dob

\* "ask once, then hand to a person" (aadhaar_qr.py:42): where the rules want the
\* QR, an Aadhaar on which no QR was found is asked for it on the first attempt only, and no
\* number of attempts verifies it.
QrIsAskedForOnce ==
    stage = 0 /\ sub # None =>
        /\ "AADHAAR_QR_REQUIRED" \in outcome.reasons => attempt = 1
        /\ policy.require_aadhaar_qr /\ AgeRule(policy) /\ sub.doc = "aadhaar" /\ sub.qr = "none" =>
               /\ outcome.decision # "verified"
               /\ attempt > 1 /\ sub.raises = {} /\ outcome.actions = {} =>
                      outcome.decision \in {"needs_review", "not_eligible"}
==============================================================================
