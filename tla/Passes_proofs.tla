---------------------------- MODULE Passes_proofs ----------------------------
(***************************************************************************)
(* Proofs about an attempt on the document path and the pass it earns, for *)
(* every submission, policy and use of a pass.                             *)
(*                                                                         *)
(* An attempt is fresh, at work or ended, and its evidence is in order:    *)
(* each verdict so far is Judged by the submission alone, whatever the     *)
(* order of the checks. If no check raises and the image is clear, the     *)
(* shared context holds exactly what the checks so far leave in it, so the *)
(* verdicts are those of the check on the submission; in any case what the *)
(* context takes for signed was signed. The pass holds the claims of the   *)
(* ended attempt. The properties then follow from what the verdicts say    *)
(* and the lemmas about the decision.                                      *)
(***************************************************************************)
EXTENDS Passes, Decision_proofs

------------------------------------------------------------------------------
(* What the checks may find *)

\* The codes of the checks by their effect (domain/reasons.py).
LEMMA ActionFindings ==
    { "IMAGE_UNREADABLE", "IMAGE_BLURRY", "FIELDS_UNREADABLE", "AADHAAR_QR_REQUIRED",
      "SELFIE_REQUIRED", "SELFIE_NO_FACE", "SELFIE_SPOOF_SUSPECTED", "SCREEN_RECAPTURE",
      "DOC_TYPE_NOT_ACCEPTED", "STUDENT_PROOF_REQUIRED", "COLLEGE_ID_EXPIRED", "PASS_INVALID",
      "PASS_EXPIRED", "PASS_LEVEL_TOO_LOW", "PASS_NOT_ACCEPTED" } \subseteq ActionCodes
BY DEF ActionCodes, RetakeIdCodes, RetakeSelfieCodes, UploadCodes

LEMMA ReviewFindings ==
    /\ { "DOC_TYPE_UNKNOWN", "ID_NUMBER_INVALID", "PAN_NOT_INDIVIDUAL", "DOB_IMPLAUSIBLE",
         "AADHAAR_QR_MISSING_AFTER_RETAKE", "AADHAAR_QR_SIGNATURE_INVALID",
         "AADHAAR_PHOTO_MISMATCH_QR", "AADHAAR_PRINT_QR_MISMATCH", "TAMPER_SUSPECTED_FIELD",
         "EDITING_SOFTWARE_METADATA", "TEXT_GEOMETRY_ANOMALY", "DUPLICATE_INDEX_UNAVAILABLE",
         "NAME_PARTIAL_MATCH", "NAME_MISMATCH", "DOB_MISMATCH_FORM", "SELFIE_MISMATCH",
         "AGE_OUT_OF_RANGE_UNCONFIRMED", "AGE_UNKNOWN", "AGE_BOUNDARY_UNCERTAIN",
         "PASS_REVOKED", "PASS_SUBJECT_MISMATCH", "CHECK_ERROR" } \subseteq ReviewCodes
    /\ DuplicateCodes \subseteq ReviewCodes
BY DEF ReviewCodes

LEMMA MildFindings ==
    { "LOW_OCR_CONFIDENCE", "PAN_SURNAME_INITIAL_MISMATCH", "SELFIE_NOT_LIVE_CAPTURE",
      "COLLEGE_ID_VALIDITY_UNKNOWN", "ID_NUMBER_VALID", "ID_NUMBER_MASKED",
      "AADHAAR_QR_VERIFIED", "AADHAAR_QR_NOT_FOUND", "AADHAAR_QR_LEGACY_UNSIGNED",
      "AADHAAR_QR_CERT_MISSING", "SAME_PERSON_KNOWN", "NAME_MATCH", "SELFIE_MATCH",
      "SELFIE_NO_REFERENCE", "AGE_ELIGIBLE", "MINOR_GUARDIAN_CONSENT", "PASS_ACCEPTED" }
    \subseteq PenaltyCodes \cup InfoCodes
BY DEF PenaltyCodes, InfoCodes

\* A result that no check may go beyond: typed, without a level of its own.
Sane(r) == r \in CheckResults /\ r.grants = UNUSABLE

\* A result that keeps an attempt from being verified.
Blocks(r) == \E code \in r.codes : code \in RejectCodes \cup ActionCodes \cup ReviewCodes

\* ... and that neither rejects nor asks for the QR.
Harmless(r) == r.codes \cap RejectCodes = {} /\ "AADHAAR_QR_REQUIRED" \notin r.codes

LEMMA RanIsSane ==
    ASSUME NEW status \in CheckStatuses, NEW codes \in SUBSET Codes
    PROVE  /\ Sane(Ran(status, codes))
           /\ Ran(status, codes).status = status /\ Ran(status, codes).codes = codes
<1>1. Ran(status, codes) \in CheckResults
  BY ResultType, NoLevel DEF Ran
<1> QED BY <1>1 DEF Sane, Ran, result

LEMMA KnownIsHarmless ==
    ASSUME NEW k \in Known
    PROVE  Sane(k) /\ Harmless(k)
<1>1. {"DUPLICATE_INDEX_UNAVAILABLE", "SAME_PERSON_KNOWN"} \cup DuplicateCodes \subseteq Codes
  BY ReviewFindings, MildFindings DEF Codes
<1>2. k \in CheckResults
  BY <1>1, NoLevel DEF Known, CheckResults, CheckStatuses
<1>3. /\ {"DUPLICATE_INDEX_UNAVAILABLE", "SAME_PERSON_KNOWN"} \cap RejectCodes = {}
      /\ DuplicateCodes \cap RejectCodes = {}
      /\ "AADHAAR_QR_REQUIRED" \notin DuplicateCodes
  BY DEF RejectCodes, DuplicateCodes
<1> QED BY <1>2, <1>3 DEF Sane, Harmless, Known

LEMMA QualityResult ==
    ASSUME NEW s \in Submission
    PROVE  /\ Sane(quality(s)) /\ Harmless(quality(s))
           /\ quality(s).status = "fail" <=> s.image # "clear"
           /\ s.image # "clear" => Blocks(quality(s))
<1>1. s.image \in {"unreadable", "defective", "clear"}
  BY DEF Submission
<1>2. {} \in SUBSET Codes /\ {"IMAGE_UNREADABLE"} \in SUBSET Codes /\ {"IMAGE_BLURRY"} \in SUBSET Codes
  BY ActionFindings DEF Codes
<1>3. "pass" \in CheckStatuses /\ "fail" \in CheckStatuses
  BY DEF CheckStatuses
<1>4. CASE s.image = "clear"
  BY <1>2, <1>3, <1>4, RanIsSane DEF quality, Harmless
<1>5. CASE s.image = "unreadable"
  <2>1. quality(s) = Ran("fail", {"IMAGE_UNREADABLE"})
    BY <1>5 DEF quality
  <2>2. "IMAGE_UNREADABLE" \notin RejectCodes
    BY DEF RejectCodes
  <2> QED BY <1>2, <1>3, <1>5, <2>1, <2>2, RanIsSane, ActionFindings DEF Harmless, Blocks
<1>6. CASE s.image = "defective"
  <2>1. quality(s) = Ran("fail", {"IMAGE_BLURRY"})
    BY <1>6 DEF quality
  <2>2. "IMAGE_BLURRY" \notin RejectCodes
    BY DEF RejectCodes
  <2> QED BY <1>2, <1>3, <1>6, <2>1, <2>2, RanIsSane, ActionFindings DEF Harmless, Blocks
<1> QED BY <1>1, <1>4, <1>5, <1>6

LEMMA ExtractResult ==
    ASSUME NEW s \in Submission, NEW c \in Contexts
    PROVE  /\ Sane(extract(s, c)) /\ Harmless(extract(s, c))
           /\ c.image /\ c.name = "none" => "FIELDS_UNREADABLE" \in extract(s, c).codes
<1> DEFINE missing == c.name = "none" \/ (IF c.doc = "college_id" THEN ~s.institution
                                          ELSE c.dob = None /\ c.year = None)
           codes == When(c.doc = "unknown", "DOC_TYPE_UNKNOWN") \cup When(missing, "FIELDS_UNREADABLE")
                      \cup When(s.reading = "low", "LOW_OCR_CONFIDENCE")
<1>1. codes \in SUBSET Codes /\ {} \in SUBSET Codes /\ {"FIELDS_UNREADABLE"} \in SUBSET Codes
  BY ActionFindings, ReviewFindings, MildFindings DEF Codes, When
<1>2. codes \cap RejectCodes = {} /\ {"FIELDS_UNREADABLE"} \cap RejectCodes = {}
  BY DEF When, RejectCodes
<1>3. "AADHAAR_QR_REQUIRED" \notin codes
  BY DEF When
<1>4. c.name = "none" => "FIELDS_UNREADABLE" \in codes
  BY DEF When
<1>5. \/ extract(s, c) = Ran("skipped", {}) /\ ~c.image
      \/ extract(s, c) = Ran("fail", {"FIELDS_UNREADABLE"})
      \/ extract(s, c) = Ran("pass", codes)
      \/ extract(s, c) = Ran("fail", codes)
  BY DEF extract
<1>6. "pass" \in CheckStatuses /\ "fail" \in CheckStatuses /\ "skipped" \in CheckStatuses
  BY DEF CheckStatuses
<1> HIDE DEF codes
<1>7. CASE extract(s, c) = Ran("skipped", {}) /\ ~c.image
  BY <1>1, <1>6, <1>7, RanIsSane DEF Harmless
<1>8. CASE extract(s, c) = Ran("fail", {"FIELDS_UNREADABLE"})
  BY <1>1, <1>2, <1>6, <1>8, RanIsSane DEF Harmless
<1>9. CASE extract(s, c) = Ran("pass", codes)
  BY <1>1, <1>2, <1>3, <1>4, <1>6, <1>9, RanIsSane DEF Harmless
<1>10. CASE extract(s, c) = Ran("fail", codes)
  BY <1>1, <1>2, <1>3, <1>4, <1>6, <1>10, RanIsSane DEF Harmless
<1> QED BY <1>5, <1>7, <1>8, <1>9, <1>10

\* The finding for a missing QR asks or hands over, and asks on the first attempt only.
LEMMA MissingQrFinding ==
    ASSUME NEW n
    PROVE  /\ MissingQr(n) \in SUBSET Codes /\ MissingQr(n) \cap RejectCodes = {}
           /\ \E code \in MissingQr(n) : code \in ActionCodes \cup ReviewCodes
           /\ "AADHAAR_QR_REQUIRED" \in MissingQr(n) => ~(n > 0)
<1>1. "AADHAAR_QR_REQUIRED" \in ActionCodes /\ "AADHAAR_QR_MISSING_AFTER_RETAKE" \in ReviewCodes
  BY ActionFindings, ReviewFindings
<1>2. {"AADHAAR_QR_REQUIRED", "AADHAAR_QR_MISSING_AFTER_RETAKE"} \cap RejectCodes = {}
  BY DEF RejectCodes
<1> QED BY <1>1, <1>2 DEF MissingQr, Codes

LEMMA QrFindingCodes ==
    ASSUME NEW s, NEW c
    PROVE  /\ QrFindings(s, c) \in SUBSET Codes
           /\ "AADHAAR_QR_REQUIRED" \notin QrFindings(s, c)
           /\ QrFindings(s, c) \cap RejectCodes # {} => Contradiction(s, c)
           /\ \A code \in QrFindings(s, c) : code \in RejectCodes \cup ReviewCodes
<1>1. /\ "AADHAAR_PRINT_CONTRADICTS_QR" \in RejectCodes
      /\ {"AADHAAR_PRINT_QR_MISMATCH", "AADHAAR_PHOTO_MISMATCH_QR"} \cap RejectCodes = {}
  BY DEF RejectCodes
<1>2. {"AADHAAR_PRINT_QR_MISMATCH", "AADHAAR_PHOTO_MISMATCH_QR"} \subseteq ReviewCodes
  BY ReviewFindings
<1>3. QrFindings(s, c) \subseteq When(Contradiction(s, c), "AADHAAR_PRINT_CONTRADICTS_QR")
        \cup {"AADHAAR_PRINT_QR_MISMATCH", "AADHAAR_PHOTO_MISMATCH_QR"}
  BY DEF QrFindings, When
<1> QED BY <1>1, <1>2, <1>3 DEF When, Codes

LEMMA AadhaarQrResult ==
    ASSUME NEW s, NEW c, NEW p, NEW n
    PROVE  LET r == aadhaar_qr(s, c, p, n) IN
           /\ Sane(r)
           /\ r.codes \cap RejectCodes # {} => Certified(c) /\ Contradiction(s, c)
           /\ "AADHAAR_QR_REQUIRED" \in r.codes => ~(n > 0)
           /\ r.status = "pass" => Certified(c) /\ QrFindings(s, c) = {}
           /\ Certified(c) /\ QrFindings(s, c) # {} => Blocks(r)
           /\ c.qr = "none" /\ c.doc = "aadhaar" /\ p.require_aadhaar_qr /\ AgeRule(p) => Blocks(r)
<1> DEFINE r == aadhaar_qr(s, c, p, n)
           Single == { "AADHAAR_QR_NOT_FOUND", "AADHAAR_QR_LEGACY_UNSIGNED", "AADHAAR_QR_CERT_MISSING",
                       "AADHAAR_QR_SIGNATURE_INVALID", "AADHAAR_QR_VERIFIED" }
<1>1. /\ Single \subseteq Codes /\ {} \in SUBSET Codes
      /\ {"skipped", "warn", "pass", "fail"} \subseteq CheckStatuses
  BY ReviewFindings, MildFindings DEF Codes, CheckStatuses
<1>2. Single \cap RejectCodes = {} /\ "AADHAAR_QR_REQUIRED" \notin Single
  BY DEF RejectCodes
<1>3. CASE c.qr = "none" /\ c.doc # "aadhaar"
  <2>1. r = Ran("skipped", {}) /\ ~Certified(c)
    BY <1>3 DEF aadhaar_qr, Certified
  <2> QED BY <1>1, <1>3, <2>1, RanIsSane
<1>4. CASE c.qr = "none" /\ c.doc = "aadhaar" /\ p.require_aadhaar_qr /\ AgeRule(p)
  <2>1. r = Ran("fail", MissingQr(n)) /\ ~Certified(c)
    BY <1>4 DEF aadhaar_qr, Certified
  <2>2. Sane(r) /\ r.status = "fail" /\ r.codes = MissingQr(n)
    BY <1>1, <2>1, MissingQrFinding, RanIsSane
  <2> QED BY <2>1, <2>2, MissingQrFinding DEF Blocks
<1>5. CASE c.qr = "none" /\ c.doc = "aadhaar" /\ ~(p.require_aadhaar_qr /\ AgeRule(p))
  <2>1. r = Ran("skipped", {"AADHAAR_QR_NOT_FOUND"}) /\ ~Certified(c)
    BY <1>5 DEF aadhaar_qr, Certified
  <2>2. Sane(r) /\ r.status = "skipped" /\ r.codes = {"AADHAAR_QR_NOT_FOUND"}
    BY <1>1, <2>1, RanIsSane
  <2> QED BY <1>2, <1>5, <2>1, <2>2
<1>6. CASE c.qr # "none" /\ ~Certified(c)
  <2>1. PICK code \in Single, status \in {"skipped", "warn"} : r = Ran(status, {code})
    BY <1>6 DEF aadhaar_qr
  <2>2. Sane(r) /\ r.status = status /\ r.codes = {code}
    BY <1>1, <2>1, RanIsSane
  <2> QED BY <1>2, <1>6, <2>2
<1>7. CASE Certified(c) /\ QrFindings(s, c) = {}
  <2>1. r = Ran("pass", {"AADHAAR_QR_VERIFIED"}) /\ c.qr # "none"
    BY <1>7 DEF aadhaar_qr, Certified
  <2>2. Sane(r) /\ r.status = "pass" /\ r.codes = {"AADHAAR_QR_VERIFIED"}
    BY <1>1, <2>1, RanIsSane
  <2> QED BY <1>2, <1>7, <2>1, <2>2
<1>8. CASE Certified(c) /\ QrFindings(s, c) # {}
  <2>1. PICK status \in {"fail", "warn"} : r = Ran(status, QrFindings(s, c)) /\ c.qr # "none"
    BY <1>8 DEF aadhaar_qr, Certified
  <2>2. Sane(r) /\ r.status = status /\ r.codes = QrFindings(s, c)
    BY <1>1, <2>1, QrFindingCodes, RanIsSane
  <2> QED BY <1>8, <2>1, <2>2, QrFindingCodes DEF Blocks
<1> QED BY <1>3, <1>4, <1>5, <1>6, <1>7, <1>8

LEMMA DocumentRulesResult ==
    ASSUME NEW s, NEW c
    PROVE  Sane(document_rules(s, c)) /\ Harmless(document_rules(s, c))
<1> DEFINE implausible == c.dob # None /\ (Before(Today, c.dob) \/ ~Before([year |-> 1900, day |-> 1], c.dob))
           codes == NumberCodes(c.doc, s.number) \cup When(implausible, "DOB_IMPLAUSIBLE")
           All == { "ID_NUMBER_INVALID", "ID_NUMBER_MASKED", "ID_NUMBER_VALID", "PAN_NOT_INDIVIDUAL",
                    "PAN_SURNAME_INITIAL_MISMATCH", "DOB_IMPLAUSIBLE" }
<1>1. codes \subseteq All
  BY DEF NumberCodes, When
<1>2. /\ All \subseteq Codes /\ {} \in SUBSET Codes
      /\ {"skipped", "warn", "pass"} \subseteq CheckStatuses
  BY ReviewFindings, MildFindings DEF Codes, CheckStatuses
<1>3. All \cap RejectCodes = {} /\ "AADHAAR_QR_REQUIRED" \notin All
  BY DEF RejectCodes
<1>4. PICK status \in {"skipped", "warn", "pass"}, found \in {{}, codes} :
          document_rules(s, c) = Ran(status, found)
  BY DEF document_rules
<1> HIDE DEF codes, All
<1>5. found \subseteq All
  BY <1>1, <1>4
<1> QED BY <1>2, <1>3, <1>4, <1>5, RanIsSane DEF Harmless

LEMMA TamperResult ==
    ASSUME NEW s \in Submission, NEW c
    PROVE  Sane(tamper(s, c)) /\ Harmless(tamper(s, c))
<1>1. /\ TamperCodes \subseteq Codes /\ {} \in SUBSET Codes
      /\ {"skipped", "warn", "pass"} \subseteq CheckStatuses
  BY ActionFindings, ReviewFindings DEF TamperCodes, Codes, CheckStatuses
<1>2. TamperCodes \cap RejectCodes = {} /\ "AADHAAR_QR_REQUIRED" \notin TamperCodes
  BY DEF TamperCodes, RejectCodes
<1>3. PICK status \in {"skipped", "warn", "pass"}, found \in {{}, s.signs} : tamper(s, c) = Ran(status, found)
  BY DEF tamper
<1>4. found \subseteq TamperCodes
  BY <1>3 DEF Submission
<1> QED BY <1>1, <1>2, <1>3, <1>4, RanIsSane DEF Harmless

\* identity, of a submission or of the use of a pass.
LEMMA IdentityResult ==
    ASSUME NEW s, NEW c
    PROVE  LET r == identity(s, c) IN
           /\ Sane(r) /\ Harmless(r)
           /\ c.name # "none" /\ (BestName(s, c) # "match" \/ DobConflict(s, c)) => Blocks(r)
<1> DEFINE r == identity(s, c)
           code == [match |-> "NAME_MATCH", partial |-> "NAME_PARTIAL_MATCH", mismatch |-> "NAME_MISMATCH"]
           named == code[BestName(s, c)]
           codes == {named} \cup When(DobConflict(s, c), "DOB_MISMATCH_FORM")
           All == {"NAME_MATCH", "NAME_PARTIAL_MATCH", "NAME_MISMATCH", "DOB_MISMATCH_FORM"}
<1>1. BestName(s, c) \in {"match", "partial", "mismatch"}
  BY DEF BestName
<1>2. /\ named \in {"NAME_MATCH", "NAME_PARTIAL_MATCH", "NAME_MISMATCH"}
      /\ BestName(s, c) # "match" => named \in {"NAME_PARTIAL_MATCH", "NAME_MISMATCH"}
  BY <1>1
<1> HIDE DEF named
<1>3. codes \subseteq All
  BY <1>2 DEF When
<1>4. /\ All \subseteq Codes /\ {} \in SUBSET Codes
      /\ {"skipped", "warn", "pass"} \subseteq CheckStatuses
  BY ReviewFindings, MildFindings DEF Codes, CheckStatuses
<1>5. All \cap RejectCodes = {} /\ "AADHAAR_QR_REQUIRED" \notin All
  BY DEF RejectCodes
<1>6. CASE c.name = "none"
  <2>1. r = Ran("skipped", {})
    BY <1>6 DEF identity
  <2> QED BY <1>4, <1>6, <2>1, RanIsSane DEF Harmless
<1>7. CASE c.name # "none"
  <2>1. PICK status \in {"warn", "pass"} : r = Ran(status, codes)
    BY <1>7 DEF identity, named
  <2>2. Sane(r) /\ r.codes = codes
    BY <1>3, <1>4, <2>1, RanIsSane
  <2>3. BestName(s, c) # "match" \/ DobConflict(s, c) => \E x \in codes : x \in ReviewCodes
    BY <1>2, ReviewFindings DEF When
  <2> QED BY <1>3, <1>5, <2>2, <2>3 DEF Harmless, Blocks
<1> QED BY <1>6, <1>7

LEMMA SelfieResult ==
    ASSUME NEW s \in Submission, NEW p
    PROVE  LET r == selfie(s, p) IN
           /\ Sane(r) /\ Harmless(r)
           /\ r.status = "pass" => s.live /\ s.selfie = "match" /\ FacesAvailable
<1> DEFINE r == selfie(s, p)
           All == { "SELFIE_NOT_LIVE_CAPTURE", "SELFIE_REQUIRED", "SELFIE_NO_FACE", "SELFIE_SPOOF_SUSPECTED",
                    "SELFIE_NO_REFERENCE", "SELFIE_MISMATCH", "SELFIE_MATCH" }
<1>1. s.selfie \in {"none", "no_face", "spoof", "no_reference", "mismatch", "match"}
  BY DEF Submission
<1>2. /\ All \subseteq Codes
      /\ {"skipped", "warn", "pass", "fail", "error"} \subseteq CheckStatuses
  BY ActionFindings, ReviewFindings, MildFindings DEF Codes, CheckStatuses
<1>3. All \cap RejectCodes = {} /\ "AADHAAR_QR_REQUIRED" \notin All
  BY DEF RejectCodes
<1>4. \E status \in {"skipped", "warn", "pass", "fail", "error"}, codes \in SUBSET All :
          /\ r = Ran(status, codes)
          /\ status = "pass" => s.live /\ s.selfie = "match" /\ FacesAvailable
  <2>1. CASE s.selfie = "none" /\ p.require_selfie
    <3>1. r = Ran("fail", {"SELFIE_REQUIRED"})  BY <2>1 DEF selfie
    <3> QED BY <3>1
  <2>2. CASE s.selfie = "none" /\ ~p.require_selfie
    <3>1. r = Ran("skipped", {})  BY <2>2 DEF selfie
    <3> QED BY <3>1
  <2>3. CASE s.selfie # "none" /\ ~FacesAvailable
    <3>1. r = Ran("error", {})  BY <2>3 DEF selfie
    <3> QED BY <3>1
  <2>4. CASE s.selfie = "no_face" /\ FacesAvailable
    <3>1. r = Ran("fail", {"SELFIE_NO_FACE"})  BY <2>4 DEF selfie
    <3> QED BY <3>1
  <2>5. CASE s.selfie = "spoof" /\ FacesAvailable
    <3>1. r = Ran("fail", {"SELFIE_SPOOF_SUSPECTED"})  BY <2>5 DEF selfie
    <3> QED BY <3>1
  <2>6. CASE s.selfie = "no_reference" /\ FacesAvailable
    <3>1. r = Ran("skipped", {"SELFIE_NO_REFERENCE"} \cup When(~s.live, "SELFIE_NOT_LIVE_CAPTURE"))
      BY <2>6 DEF selfie
    <3> QED BY <3>1 DEF When
  <2>7. CASE s.selfie = "mismatch" /\ FacesAvailable
    <3>1. r = Ran("warn", {"SELFIE_MISMATCH"} \cup When(~s.live, "SELFIE_NOT_LIVE_CAPTURE"))
      BY <2>7 DEF selfie
    <3> QED BY <3>1 DEF When
  <2>8. CASE s.selfie = "match" /\ FacesAvailable
    <3>1. r = Ran(SelfieStatus(s), {"SELFIE_MATCH"} \cup When(~s.live, "SELFIE_NOT_LIVE_CAPTURE"))
      BY <2>8 DEF selfie
    <3>2. SelfieStatus(s) \in {"pass", "warn"} /\ (SelfieStatus(s) = "pass" => s.live)
      BY DEF SelfieStatus
    <3> QED BY <2>8, <3>1, <3>2 DEF When
  <2> QED BY <1>1, <2>1, <2>2, <2>3, <2>4, <2>5, <2>6, <2>7, <2>8
<1>5. PICK status \in {"skipped", "warn", "pass", "fail", "error"}, codes \in SUBSET All :
          /\ r = Ran(status, codes)
          /\ status = "pass" => s.live /\ s.selfie = "match" /\ FacesAvailable
  BY <1>4
<1>6. Sane(r) /\ r.status = status /\ r.codes = codes
  BY <1>2, <1>5, RanIsSane
<1> QED BY <1>3, <1>5, <1>6 DEF Harmless

LEMMA QrAgrees ==
    ASSUME NEW s, NEW c, QrFindings(s, c) = {}
    PROVE  /\ ~DobDiffers(s, c)
           /\ s.qr_differs \cap {"name", "number"} = {}
           /\ FacesAvailable => "photo" \notin s.qr_differs
<1>1. ~Contradiction(s, c) /\ (FacesAvailable => "photo" \notin s.qr_differs)
  BY DEF QrFindings, When
<1>2. ~((DobDiffers(s, c) \/ YearDiffers(s, c)) /\ ~Contradiction(s, c))
  BY DEF QrFindings, When
<1>3. s.qr_differs \cap {"name", "number"} = {}
  BY DEF QrFindings, When
<1> QED BY <1>1, <1>2, <1>3

\* What the ages that the evidence leaves possible lead to (eligibility.py:42).
LEMMA AgeFindings ==
    ASSUME NEW s, NEW c, NEW p
    PROVE  LET codes == AgeCodes(s, c, p)
               ages == PossibleAges(c, p)
           IN  /\ codes \in SUBSET Codes /\ "AADHAAR_QR_REQUIRED" \notin codes
               /\ codes \cap RejectCodes # {} => dob_confirmed(s, c) /\ \E age \in ages : ~within(age, p)
               /\ AgeRule(p) /\ codes \cap (RejectCodes \cup ReviewCodes) = {} =>
                      ages # {} /\ \A age \in ages : within(age, p)
<1> DEFINE codes == AgeCodes(s, c, p)
           ages == PossibleAges(c, p)
           inside == { age \in ages : within(age, p) }
           Mild == {"MINOR_GUARDIAN_CONSENT", "AGE_ELIGIBLE"}
           Doubt == {"AGE_UNKNOWN", "AGE_BOUNDARY_UNCERTAIN", "AGE_OUT_OF_RANGE_UNCONFIRMED"}
           Out == {"AGE_BELOW_MIN_CONFIRMED", "AGE_ABOVE_MAX_CONFIRMED"}
<1>1. Doubt \subseteq ReviewCodes /\ Mild \subseteq PenaltyCodes \cup InfoCodes
  BY ReviewFindings, MildFindings
<1>2. Out \subseteq RejectCodes /\ (Mild \cup Doubt) \cap RejectCodes = {}
  BY DEF RejectCodes
<1>3. "AADHAAR_QR_REQUIRED" \notin Mild \cup Doubt \cup Out
  OBVIOUS
<1> HIDE DEF ages
<1>4. CASE ages = {}
  <2>1. codes = When(AgeRule(p), "AGE_UNKNOWN")
    BY <1>4 DEF AgeCodes, ages
  <2> QED BY <1>1, <1>2, <2>1 DEF When, Codes
<1>5. CASE ages # {} /\ ~AgeRule(p)
  <2>1. codes \subseteq Mild
    BY <1>5 DEF AgeCodes, ages, When
  <2> QED BY <1>1, <1>2, <1>3, <1>5, <2>1 DEF Codes
<1>6. CASE ages # {} /\ AgeRule(p) /\ inside = ages
  <2>1. codes \subseteq Mild
    BY <1>6 DEF AgeCodes, ages, When
  <2>2. \A age \in ages : within(age, p)
    BY <1>6
  <2> QED BY <1>1, <1>2, <1>3, <1>6, <2>1, <2>2 DEF Codes, ages
<1>7. CASE ages # {} /\ AgeRule(p) /\ inside # ages /\ (inside # {} \/ ~dob_confirmed(s, c))
  <2>1. PICK code \in Doubt : codes = When(Min(ages) < p.guardian_consent_under, "MINOR_GUARDIAN_CONSENT") \cup {code}
    BY <1>7 DEF AgeCodes, ages
  <2>2. codes \subseteq Mild \cup Doubt /\ code \in codes
    BY <2>1 DEF When
  <2> QED BY <1>1, <1>2, <1>3, <2>2 DEF Codes
<1>8. CASE ages # {} /\ AgeRule(p) /\ inside # ages /\ inside = {} /\ dob_confirmed(s, c)
  <2>1. PICK code \in Out : codes = When(Min(ages) < p.guardian_consent_under, "MINOR_GUARDIAN_CONSENT") \cup {code}
    BY <1>8 DEF AgeCodes, ages
  <2>2. codes \subseteq Mild \cup Out /\ code \in codes
    BY <2>1 DEF When
  <2>3. \E age \in ages : ~within(age, p)
    BY <1>8
  <2> QED BY <1>1, <1>2, <1>3, <1>8, <2>2, <2>3 DEF Codes, ages
<1> QED BY <1>4, <1>5, <1>6, <1>7, <1>8

\* eligibility, of a submission or of the use of a pass.
LEMMA EligibilityResult ==
    ASSUME NEW s, NEW c, NEW p
    PROVE  LET r == eligibility(s, c, p)
               ages == PossibleAges(c, p)
           IN  /\ Sane(r) /\ "AADHAAR_QR_REQUIRED" \notin r.codes
               /\ r.codes \cap RejectCodes # {} => dob_confirmed(s, c) /\ \E age \in ages : ~within(age, p)
               /\ ~Blocks(r) /\ AgeRule(p) => ages # {} /\ \A age \in ages : within(age, p)
               /\ ~Blocks(r) /\ p.student_only =>
                      /\ c.doc = "college_id"
                      /\ c.valid_until # None => ~Before(c.valid_until, p.event)
<1> DEFINE r == eligibility(s, c, p)
           age == AgeCodes(s, c, p)
           accept == When(c.doc \notin p.accepted \cup {"unknown"}, "DOC_TYPE_NOT_ACCEPTED")
           student == IF p.student_only THEN StudentCodes(c, p) ELSE {}
           Others == { "DOC_TYPE_NOT_ACCEPTED", "STUDENT_PROOF_REQUIRED", "COLLEGE_ID_VALIDITY_UNKNOWN",
                       "COLLEGE_ID_EXPIRED" }
<1>1. Others \subseteq Codes /\ {"STUDENT_PROOF_REQUIRED", "COLLEGE_ID_EXPIRED"} \subseteq ActionCodes
  BY ActionFindings, MildFindings DEF Codes
<1>2. Others \cap RejectCodes = {} /\ "AADHAAR_QR_REQUIRED" \notin Others
  BY DEF RejectCodes
<1>3. accept \cup student \subseteq Others
  BY DEF StudentCodes, When
<1>4. PICK status \in {"pass", "fail"} : r = Ran(status, age \cup accept \cup student)
  BY DEF eligibility
<1>5. {"pass", "fail"} \subseteq CheckStatuses
  BY DEF CheckStatuses
<1>6. ASSUME p.student_only,
             ~(c.doc = "college_id" /\ (c.valid_until # None => ~Before(c.valid_until, p.event)))
      PROVE  \E code \in student : code \in ActionCodes
  BY <1>1, <1>6 DEF StudentCodes, When
<1> HIDE DEF age, accept, student, Others
<1>7. age \in SUBSET Codes /\ "AADHAAR_QR_REQUIRED" \notin age
  BY AgeFindings DEF age
<1>8. age \cup accept \cup student \in SUBSET Codes
  BY <1>1, <1>3, <1>7
<1>9. Sane(r) /\ r.codes = age \cup accept \cup student
  BY <1>4, <1>5, <1>8, RanIsSane
<1>10. r.codes \cap RejectCodes # {} => age \cap RejectCodes # {}
  BY <1>2, <1>3, <1>9
<1>11. ~Blocks(r) => age \cap (RejectCodes \cup ReviewCodes) = {}
  BY <1>9 DEF Blocks
<1>12. ~Blocks(r) => \A code \in student : code \notin ActionCodes
  BY <1>9 DEF Blocks
<1>13. "AADHAAR_QR_REQUIRED" \notin r.codes
  BY <1>2, <1>3, <1>7, <1>9
<1> QED BY <1>6, <1>9, <1>10, <1>11, <1>12, <1>13, AgeFindings DEF age

------------------------------------------------------------------------------
(* The context that the checks share *)

Photographed == [Empty EXCEPT !.image = TRUE]
Read(s) == Extracted(s, Photographed)
Complete(s) == Upgraded(s, Read(s))

LEMMA SubmissionTypes ==
    ASSUME NEW s \in Submission
    PROVE  /\ s.image \in {"unreadable", "defective", "clear"} /\ s.doc \in DocTypes
           /\ s.name \in Names /\ s.dob \in Dates \cup {None} /\ s.year \in Ages
           /\ s.reading \in Readings /\ s.valid_until \in Dates \cup {None}
           /\ s.qr \in QrCodes /\ s.qr_name \in Names /\ s.qr_dob \in Dates \cup {None}
           /\ s.qr_year \in Ages /\ s.qr_differs \in SUBSET {"name", "number", "photo"}
           /\ s.form_dob \in Dates \cup {None} /\ s.known \in Known
           /\ s.raises \in SUBSET Checks
BY DEF Submission

LEMMA EmptyType == Empty \in Contexts /\ Photographed \in Contexts
<1>1. Empty \in Contexts
  BY DEF Empty, Contexts, QrCodes, DocTypes, Names, Ages, Sources, Readings
<1> QED BY <1>1 DEF Photographed, Contexts

\* extract leaves a context of the right type, with a signed date only from a signed QR.
LEMMA ExtractedContext ==
    ASSUME NEW s \in Submission, NEW c \in Contexts
    PROVE  LET d == Extracted(s, c) IN
           /\ d \in Contexts
           /\ d.image = c.image /\ d.qr = s.qr /\ d.valid_until = s.valid_until
           /\ d.doc = IF s.doc = "unknown" /\ s.qr # "none" THEN "aadhaar" ELSE s.doc
           /\ d.source = "qr_signed" => s.qr = "signed" /\ d.dob = s.qr_dob
           /\ s.dob # None => d.dob = s.dob /\ d.source = "ocr"
           /\ s.dob = None /\ s.year # None => d.dob = None /\ d.year = s.year
           /\ s.dob = None /\ s.year = None => d.dob \in {None, s.qr_dob} /\ d.year \in {None, s.qr_year}
           /\ d.dob # None => s.dob # None \/ (s.qr = "signed" /\ CertificatesAvailable)
           /\ d.dob = None /\ d.year # None => s.year # None \/ (s.qr = "signed" /\ s.qr_year # None)
           /\ s.qr = "signed" /\ CertificatesAvailable /\ s.dob = None /\ s.year = None =>
                  d.dob = s.qr_dob /\ d.year = s.qr_year
<1> DEFINE doc == IF s.doc = "unknown" /\ s.qr # "none" THEN "aadhaar" ELSE s.doc
           source == IF s.dob # None \/ s.year # None THEN "ocr" ELSE "none"
           read == [ c EXCEPT !.qr = s.qr, !.doc = doc, !.name = s.name, !.dob = s.dob, !.year = s.year,
                              !.reading = s.reading, !.valid_until = s.valid_until, !.source = source ]
           undated == s.dob = None /\ s.year = None /\ (s.qr_dob # None \/ s.qr_year # None)
           named == [ read EXCEPT !.name = IF @ = "none" THEN s.qr_name ELSE @ ]
           signed == [ named EXCEPT !.dob = s.qr_dob, !.year = s.qr_year, !.source = "qr_signed" ]
<1>1. doc \in DocTypes /\ source \in Sources /\ source # "qr_signed"
  BY SubmissionTypes DEF DocTypes, Sources
<1> HIDE DEF doc, source
<1>2. /\ read \in Contexts /\ read.image = c.image /\ read.qr = s.qr
      /\ read.valid_until = s.valid_until /\ read.doc = doc /\ read.source = source
      /\ read.dob = s.dob /\ read.year = s.year
  BY <1>1, SubmissionTypes DEF Contexts
<1> HIDE DEF read
<1>3. /\ named \in Contexts /\ named.image = read.image /\ named.qr = read.qr
      /\ named.valid_until = read.valid_until /\ named.doc = read.doc /\ named.source = read.source
      /\ named.dob = read.dob /\ named.year = read.year
  BY <1>2, SubmissionTypes DEF Contexts
<1> HIDE DEF named
<1>4. /\ signed \in Contexts /\ signed.image = named.image /\ signed.qr = named.qr
      /\ signed.valid_until = named.valid_until /\ signed.doc = named.doc
      /\ signed.source = "qr_signed" /\ signed.dob = s.qr_dob /\ signed.year = s.qr_year
  BY <1>3, SubmissionTypes DEF Contexts, Sources
<1> HIDE DEF signed, undated
<1>5. Certified(read) <=> s.qr = "signed" /\ CertificatesAvailable
  BY <1>2 DEF Certified
<1>6. Extracted(s, c) = IF ~Certified(read) THEN read ELSE IF undated THEN signed ELSE named
  BY DEF Extracted, read, doc, source, named, signed, undated
<1>7. CASE ~Certified(read)
  BY <1>1, <1>2, <1>5, <1>6, <1>7 DEF doc, source
<1>8. CASE Certified(read) /\ undated
  BY <1>1, <1>2, <1>3, <1>4, <1>5, <1>6, <1>8 DEF doc, source, undated
<1>9. CASE Certified(read) /\ ~undated
  BY <1>1, <1>2, <1>3, <1>5, <1>6, <1>9 DEF doc, source, undated
<1> QED BY <1>7, <1>8, <1>9

\* What the context says of the QR and the date of birth is what the QR says.
SignedRight(s, c) ==
    /\ c.qr = "signed" => s.qr = "signed"
    /\ c.source = "qr_signed" => s.qr = "signed" /\ (s.qr_dob # None => c.dob = s.qr_dob)

LEMMA UpgradedContext ==
    ASSUME NEW s \in Submission, NEW c \in Contexts
    PROVE  LET d == Upgraded(s, c) IN
           /\ d \in Contexts
           /\ d.image = c.image /\ d.qr = c.qr /\ d.doc = c.doc /\ d.name = c.name
           /\ d.valid_until = c.valid_until /\ d.reading = c.reading
           /\ d.dob = IF Certified(c) /\ QrFindings(s, c) = {} /\ s.qr_dob # None THEN s.qr_dob ELSE c.dob
           /\ d.year = IF Certified(c) /\ QrFindings(s, c) = {} /\ s.qr_dob # None THEN None ELSE c.year
           /\ d.source = IF Certified(c) /\ QrFindings(s, c) = {} THEN "qr_signed" ELSE c.source
<1>1. "qr_signed" \in Sources /\ None \in Ages /\ s.qr_dob \in Dates \cup {None}
  BY SubmissionTypes DEF Sources, Ages
<1>2. CASE ~(Certified(c) /\ QrFindings(s, c) = {})
  <2>1. Upgraded(s, c) = c
    BY <1>2 DEF Upgraded
  <2> QED BY <1>2, <2>1
<1>3. CASE Certified(c) /\ QrFindings(s, c) = {} /\ s.qr_dob # None
  <2>1. Upgraded(s, c) = [ c EXCEPT !.source = "qr_signed", !.dob = s.qr_dob, !.year = None ]
    BY <1>3 DEF Upgraded
  <2> QED BY <1>1, <1>3, <2>1 DEF Contexts
<1>4. CASE Certified(c) /\ QrFindings(s, c) = {} /\ s.qr_dob = None
  <2>1. Upgraded(s, c) = [ c EXCEPT !.source = "qr_signed", !.dob = @, !.year = @ ]
    BY <1>4 DEF Upgraded
  <2> QED BY <1>1, <1>4, <2>1 DEF Contexts
<1> QED BY <1>2, <1>3, <1>4

LEMMA ExtractedRight ==
    ASSUME NEW s \in Submission, NEW c \in Contexts
    PROVE  SignedRight(s, Extracted(s, c))
BY ExtractedContext DEF SignedRight

LEMMA UpgradedRight ==
    ASSUME NEW s \in Submission, NEW c \in Contexts, SignedRight(s, c)
    PROVE  SignedRight(s, Upgraded(s, c))
BY UpgradedContext DEF SignedRight, Certified

\* The QR is UIDAI's word on the date of birth.
SignedDate(s) == s.qr = "signed" /\ CertificatesAvailable /\ s.qr_dob # None

\* The context of an attempt in which nothing was found against the QR holds every
\* date the card shows.
LEMMA CompleteContext ==
    ASSUME NEW s \in Submissions,
           Certified(Read(s)) => QrFindings(s, Read(s)) = {}
    PROVE  LET c == Complete(s) IN
           /\ c \in Contexts /\ c.image /\ SignedRight(s, c)
           /\ c.name = Read(s).name /\ c.qr = s.qr /\ c.valid_until = s.valid_until
           /\ c.doc = IF s.doc = "unknown" /\ s.qr # "none" THEN "aadhaar" ELSE s.doc
           /\ SignedDate(s) => c.dob = s.qr_dob
           /\ s.dob # None => c.dob = s.dob
           /\ s.year # None /\ ~SignedDate(s) => c.dob = None /\ c.year = s.year
           /\ c.dob # None \/ c.year # None =>
                  SignedDate(s) \/ s.dob # None \/ s.year # None \/ (s.qr = "signed" /\ s.qr_year # None)
<1> DEFINE r == Read(s)
           c == Complete(s)
<1>1. s \in Submission /\ (s.dob # None => s.year = None)
  BY SubmissionsAssumption
<1>2. r \in Contexts /\ SignedRight(s, r) /\ r.image
  <2>1. Photographed \in Contexts /\ Photographed.image
    BY EmptyType DEF Photographed, Empty
  <2> QED BY <1>1, <2>1, ExtractedContext, ExtractedRight DEF Read
<1>3. /\ r.qr = s.qr /\ r.valid_until = s.valid_until
      /\ r.doc = IF s.doc = "unknown" /\ s.qr # "none" THEN "aadhaar" ELSE s.doc
      /\ s.dob # None => r.dob = s.dob /\ r.source = "ocr"
      /\ s.dob = None /\ s.year # None => r.dob = None /\ r.year = s.year
      /\ r.dob # None => s.dob # None \/ (s.qr = "signed" /\ CertificatesAvailable /\ r.dob = s.qr_dob)
      /\ r.dob = None /\ r.year # None => s.year # None \/ (s.qr = "signed" /\ s.qr_year # None)
  BY <1>1, EmptyType, ExtractedContext DEF Read
<1>4. Certified(r) <=> s.qr = "signed" /\ CertificatesAvailable
  BY <1>3 DEF Certified
<1>5. /\ c \in Contexts /\ c.image /\ SignedRight(s, c)
      /\ c.name = r.name /\ c.qr = r.qr /\ c.valid_until = r.valid_until /\ c.doc = r.doc
      /\ c.dob = IF SignedDate(s) THEN s.qr_dob ELSE r.dob
      /\ c.year = IF SignedDate(s) THEN None ELSE r.year
  BY <1>1, <1>2, <1>4, UpgradedContext, UpgradedRight DEF Complete, SignedDate
<1>6. SignedDate(s) /\ s.dob # None => s.dob = s.qr_dob
  <2> SUFFICES ASSUME SignedDate(s), s.dob # None PROVE s.dob = s.qr_dob
    OBVIOUS
  <2>1. ~DobDiffers(s, r)
    BY <1>4, QrAgrees DEF SignedDate
  <2> QED BY <1>3, <2>1 DEF DobDiffers, SignedDate
<1> HIDE DEF r, c
<1> QED
  <2>1. /\ SignedDate(s) => c.dob = s.qr_dob
        /\ s.dob # None => c.dob = s.dob
        /\ s.year # None /\ ~SignedDate(s) => c.dob = None /\ c.year = s.year
    BY <1>1, <1>3, <1>5, <1>6
  <2>2. c.dob # None \/ c.year # None =>
            SignedDate(s) \/ s.dob # None \/ s.year # None \/ (s.qr = "signed" /\ s.qr_year # None)
    BY <1>3, <1>5 DEF SignedDate
  <2> QED BY <1>3, <1>5, <2>1, <2>2 DEF r, c

------------------------------------------------------------------------------
(* The invariant of an attempt *)

\* The form and the signed QR (if any) give one date of birth, which the rules admit.
Honest(s, p) ==
    s.form_dob # None /\ OfAge(s.form_dob, p) /\ (s.qr = "signed" => s.qr_dob = s.form_dob)

\* Nothing goes wrong in the attempt but what the checks find.
Clean(s) == s.raises = {} /\ s.image = "clear"

\* The context of a clean attempt, by the checks that have run.
CleanContext(s, done) ==
    IF "aadhaar_qr" \in done THEN Complete(s)
    ELSE IF "extract" \in done THEN Read(s)
    ELSE IF "quality" \in done THEN Photographed ELSE Empty

\* The verdicts of a clean attempt that a verification rests on.
CleanVerdict(check, r, s, p, n) ==
    /\ check = "extract" => r = extract(s, Read(s))
    /\ check = "aadhaar_qr" => r = aadhaar_qr(s, Read(s), p, n)
    /\ check = "identity" => r = identity(s, Complete(s))
    /\ check = "eligibility" => r = eligibility(s, Complete(s), p)

\* What any verdict, of a check that ran or raised, owes to the submission.
Judged(check, r, s, p, n) ==
    /\ Sane(r)
    /\ check \in s.raises => r.status = "error"
    /\ r.codes \cap RejectCodes # {} => ~Honest(s, p)
    /\ "AADHAAR_QR_REQUIRED" \in r.codes => n = 0
    /\ check = "quality" /\ check \notin s.raises => r = quality(s)
    /\ check = "selfie" /\ r.status = "pass" => s.live /\ s.selfie = "match" /\ FacesAvailable
    /\ check = "aadhaar_qr" /\ r.status = "pass" =>
           /\ s.qr = "signed" /\ s.qr_differs \cap {"name", "number"} = {}
           /\ FacesAvailable => "photo" \notin s.qr_differs
    /\ Clean(s) => CleanVerdict(check, r, s, p, n)

Earlier(n) == { check \in Checks : \E i \in 1 .. Len(Stages) : i < n /\ check \in Stages[i] }

\* The number of attempts saved before this one.
Tries == IF stage = 0 THEN attempt - 1 ELSE attempt

Fresh ==
    /\ stage = 0 /\ attempt = 0 /\ sub = None /\ pending = {}
    /\ ctx = Empty /\ results = NoResults /\ outcome = NoOutcome

AtWork ==
    /\ stage \in 1 .. Len(Stages) /\ attempt < MaxAttempts /\ pending \subseteq Stages[stage]
    /\ DOMAIN results = Earlier(stage) \cup (Stages[stage] \ pending)

Ended ==
    /\ stage = 0 /\ attempt > 0 /\ pending = {}
    /\ outcome = decide(results, policy.min_level)
    /\ \/ DOMAIN results = Checks
       \/ "quality" \in DOMAIN results /\ results["quality"].status = "fail"

Evidence ==
    /\ sub \in Submissions /\ DOMAIN results \subseteq Checks
    /\ \A check \in DOMAIN results : Judged(check, results[check], sub, policy, Tries)
    /\ SignedRight(sub, ctx)
    /\ Clean(sub) => ctx = CleanContext(sub, DOMAIN results)

AttemptInv ==
    /\ policy \in Policies /\ attempt \in 0 .. MaxAttempts /\ ctx \in Contexts
    /\ Fresh \/ ((AtWork \/ Ended) /\ Evidence)

\* A pass says what the attempt that earned it found, and a use of it was decided by that.
PassInv ==
    /\ AttemptInv
    /\ pass # None => Ended /\ Evidence /\ EarnsPass(sub, policy, outcome) /\ pass = Claims(ctx, outcome)
    /\ visit # None =>
           /\ pass # None /\ visit.policy \in Policies /\ visit.use \in Uses
           /\ visit.outcome = decide(PassLedger(visit.use, visit.policy), visit.policy.min_level)

\* On hard evidence of the date the form gives, an age the rules admit is within them.
LEMMA ConfirmedAge ==
    ASSUME NEW s, NEW c, NEW p, dob_confirmed(s, c),
           s.form_dob # None, OfAge(s.form_dob, p),
           c.source = "qr_signed" => c.dob = s.form_dob
    PROVE  \A age \in PossibleAges(c, p) : within(age, p)
<1>1. c.dob = s.form_dob
  BY DEF dob_confirmed
<1>2. PossibleAges(c, p) = {age_on(s.form_dob, p.event)}
  BY <1>1 DEF PossibleAges
<1> QED BY <1>2 DEF within, OfAge

LEMMA RaisedIsSane == Sane(Raised) /\ Harmless(Raised) /\ Raised.status = "error"
<1>1. {} \in SUBSET Codes /\ "error" \in CheckStatuses
  BY DEF CheckStatuses
<1> QED BY <1>1, RanIsSane DEF Raised, Harmless

\* Every verdict is the one the invariant asks for: the checks that are harmless, ...
LEMMA HarmlessVerdict ==
    ASSUME NEW s \in Submissions, NEW p, NEW n, NEW r, Sane(r), Harmless(r),
           NEW check \in {"duplicates", "document_rules", "tamper"}, check \notin s.raises
    PROVE  Judged(check, r, s, p, n)
BY DEF Judged, Harmless, CleanVerdict

LEMMA RaisedVerdict ==
    ASSUME NEW s \in Submissions, NEW p, NEW n, NEW check \in s.raises
    PROVE  Judged(check, Raised, s, p, n)
<1>1. ~Clean(s)
  BY DEF Clean
<1> QED BY <1>1, RaisedIsSane DEF Judged, Harmless

LEMMA QualityVerdict ==
    ASSUME NEW s \in Submissions, NEW p, NEW n, "quality" \notin s.raises
    PROVE  Judged("quality", quality(s), s, p, n)
<1>1. s \in Submission
  BY SubmissionsAssumption
<1> QED BY <1>1, QualityResult DEF Judged, Harmless, CleanVerdict

LEMMA ExtractVerdict ==
    ASSUME NEW s \in Submissions, NEW p, NEW n, NEW c \in Contexts, "extract" \notin s.raises,
           Clean(s) => c = Read(s)
    PROVE  Judged("extract", extract(s, c), s, p, n)
<1>1. s \in Submission
  BY SubmissionsAssumption
<1>2. Sane(extract(s, c)) /\ Harmless(extract(s, c))
  BY <1>1, ExtractResult
<1> QED BY <1>2 DEF Judged, Harmless, CleanVerdict

LEMMA SelfieVerdict ==
    ASSUME NEW s \in Submissions, NEW p, NEW n, "selfie" \notin s.raises
    PROVE  Judged("selfie", selfie(s, p), s, p, n)
<1>1. s \in Submission
  BY SubmissionsAssumption
<1> QED BY <1>1, SelfieResult DEF Judged, Harmless, CleanVerdict

LEMMA IdentityVerdict ==
    ASSUME NEW s \in Submissions, NEW p, NEW n, NEW c, "identity" \notin s.raises,
           Clean(s) => c = Complete(s)
    PROVE  Judged("identity", identity(s, c), s, p, n)
<1>1. Sane(identity(s, c)) /\ Harmless(identity(s, c))
  BY IdentityResult
<1> QED BY <1>1 DEF Judged, Harmless, CleanVerdict

\* ... the one that may find a contradiction with the signed data, ...
LEMMA AadhaarQrVerdict ==
    ASSUME NEW s \in Submissions, NEW p, NEW n \in Nat, NEW c, "aadhaar_qr" \notin s.raises,
           SignedRight(s, c), Clean(s) => c = Read(s)
    PROVE  Judged("aadhaar_qr", aadhaar_qr(s, c, p, n), s, p, n)
<1> DEFINE r == aadhaar_qr(s, c, p, n)
<1>1. /\ Sane(r)
      /\ r.codes \cap RejectCodes # {} => Certified(c) /\ Contradiction(s, c)
      /\ "AADHAAR_QR_REQUIRED" \in r.codes => ~(n > 0)
      /\ r.status = "pass" => Certified(c) /\ QrFindings(s, c) = {}
  BY AadhaarQrResult
<1>2. Certified(c) => s.qr = "signed"
  BY DEF Certified, SignedRight
<1>3. Contradiction(s, c) => s.form_dob # s.qr_dob
  BY DEF Contradiction, DobDiffers
<1>4. QrFindings(s, c) = {} =>
          s.qr_differs \cap {"name", "number"} = {} /\ (FacesAvailable => "photo" \notin s.qr_differs)
  BY QrAgrees
<1>5. Clean(s) => CleanVerdict("aadhaar_qr", r, s, p, n)
  BY DEF CleanVerdict
<1> HIDE DEF r
<1> QED BY <1>1, <1>2, <1>3, <1>4, <1>5 DEF Judged, Honest, r

\* ... and the one that may find somebody out of range.
LEMMA EligibilityVerdict ==
    ASSUME NEW s \in Submissions, NEW p, NEW n, NEW c, "eligibility" \notin s.raises,
           SignedRight(s, c), Clean(s) => c = Complete(s)
    PROVE  Judged("eligibility", eligibility(s, c, p), s, p, n)
<1> DEFINE r == eligibility(s, c, p)
<1>1. /\ Sane(r) /\ "AADHAAR_QR_REQUIRED" \notin r.codes
      /\ r.codes \cap RejectCodes # {} => dob_confirmed(s, c) /\ \E age \in PossibleAges(c, p) : ~within(age, p)
  BY EligibilityResult
<1>2. Honest(s, p) => (c.source = "qr_signed" => c.dob = s.form_dob)
  BY DEF Honest, SignedRight
<1>3. Honest(s, p) => ~(r.codes \cap RejectCodes # {})
  BY <1>1, <1>2, ConfirmedAge DEF Honest
<1>4. Clean(s) => CleanVerdict("eligibility", r, s, p, n)
  BY DEF CleanVerdict
<1> HIDE DEF r
<1> QED BY <1>1, <1>3, <1>4 DEF Judged, r

LEMMA StageList ==
    /\ Len(Stages) = 5 /\ Stages[1] = {"quality"} /\ Stages[2] = {"extract"} /\ Stages[3] = {"aadhaar_qr"}
    /\ Stages[4] = {"document_rules", "tamper", "duplicates", "identity", "selfie"}
    /\ Stages[5] = {"eligibility"}
BY DEF Stages

\* What was done before each stage.
LEMMA EarlierList ==
    /\ Earlier(1) = {} /\ Earlier(2) = {"quality"} /\ Earlier(3) = {"quality", "extract"}
    /\ Earlier(4) = {"quality", "extract", "aadhaar_qr"}
    /\ Earlier(5) = Earlier(4) \cup Stages[4]
    /\ Earlier(5) \cup Stages[5] = Checks
<1>1. Earlier(1) = {}
  BY StageList DEF Earlier
<1>2. Earlier(2) = {"quality"}
  BY StageList DEF Earlier, Checks
<1>3. Earlier(3) = {"quality", "extract"}
  BY StageList DEF Earlier, Checks
<1>4. Earlier(4) = {"quality", "extract", "aadhaar_qr"}
  BY StageList DEF Earlier, Checks
<1>5. Earlier(5) = Earlier(4) \cup Stages[4]
  BY StageList DEF Earlier, Checks
<1>6. Earlier(5) \cup Stages[5] = Checks
  BY <1>4, <1>5, StageList DEF Checks
<1> QED BY <1>1, <1>2, <1>3, <1>4, <1>5, <1>6

LEMMA NextIsEarlier ==
    ASSUME NEW n \in 1 .. 4
    PROVE  Earlier(n + 1) = Earlier(n) \cup Stages[n]
<1>1. CASE n = 1  BY <1>1, EarlierList, StageList
<1>2. CASE n = 2  BY <1>2, EarlierList, StageList
<1>3. CASE n = 3  BY <1>3, EarlierList, StageList
<1>4. CASE n = 4  BY <1>4, EarlierList, StageList
<1> QED BY <1>1, <1>2, <1>3, <1>4

\* A check that is running has not run, and those of the earlier stages have.
LEMMA Running ==
    ASSUME AtWork, NEW check \in pending
    PROVE  /\ check \in Checks \ DOMAIN results
           /\ check = "quality" => DOMAIN results = {}
           /\ check = "extract" => DOMAIN results = {"quality"}
           /\ check = "aadhaar_qr" => DOMAIN results = {"quality", "extract"}
           /\ check \notin {"quality", "extract", "aadhaar_qr"} => "aadhaar_qr" \in DOMAIN results
           /\ DOMAIN results \cup {check} = Earlier(stage) \cup (Stages[stage] \ (pending \ {check}))
<1>1. stage \in {1, 2, 3, 4, 5}
  BY StageList DEF AtWork
<1>2. check \in Stages[stage] /\ DOMAIN results = Earlier(stage) \cup (Stages[stage] \ pending)
  BY DEF AtWork
<1>3. DOMAIN results \cup {check} = Earlier(stage) \cup (Stages[stage] \ (pending \ {check}))
  BY <1>2
<1>4. CASE stage = 1  BY <1>2, <1>3, <1>4, StageList, EarlierList DEF Checks
<1>5. CASE stage = 2  BY <1>2, <1>3, <1>5, StageList, EarlierList DEF Checks
<1>6. CASE stage = 3  BY <1>2, <1>3, <1>6, StageList, EarlierList DEF Checks
<1>7. CASE stage = 4  BY <1>2, <1>3, <1>7, StageList, EarlierList DEF Checks
<1>8. CASE stage = 5  BY <1>2, <1>3, <1>8, StageList, EarlierList DEF Checks
<1> QED BY <1>1, <1>4, <1>5, <1>6, <1>7, <1>8

\* A check leaves a right context, and in a clean attempt the one that is known.
LEMMA LeftContext ==
    ASSUME AtWork, Evidence, ctx \in Contexts, NEW check \in pending
    PROVE  /\ Left(check) \in Contexts /\ SignedRight(sub, Left(check))
           /\ Clean(sub) => Left(check) = CleanContext(sub, DOMAIN results \cup {check})
<1>1. sub \in Submission
  BY SubmissionsAssumption DEF Evidence
<1>2. SignedRight(sub, ctx) /\ (Clean(sub) => ctx = CleanContext(sub, DOMAIN results))
  BY DEF Evidence
<1>3. CASE check = "quality"
  <2>1. Left(check) = [ctx EXCEPT !.image = sub.image # "unreadable"]
    BY <1>3 DEF Left
  <2>2. Left(check) \in Contexts /\ SignedRight(sub, Left(check))
    BY <1>2, <2>1 DEF Contexts, SignedRight
  <2>3. DOMAIN results = {}
    BY <1>3, Running
  <2>4. Clean(sub) => Left(check) = Photographed
    BY <1>2, <2>1, <2>3 DEF Clean, CleanContext, Photographed, Empty
  <2> QED BY <1>3, <2>2, <2>3, <2>4 DEF CleanContext
<1>4. CASE check = "extract"
  <2>1. DOMAIN results = {"quality"}
    BY <1>4, Running
  <2>2. Clean(sub) => ctx = Photographed
    BY <1>2, <2>1 DEF CleanContext
  <2>3. CASE ctx.image
    <3>1. Left(check) = Extracted(sub, ctx)
      BY <1>4, <2>3 DEF Left
    <3> QED BY <1>1, <1>4, <2>1, <2>2, <3>1, ExtractedContext, ExtractedRight DEF CleanContext, Read
  <2>4. CASE ~ctx.image
    <3>1. Left(check) = ctx
      BY <1>4, <2>4 DEF Left
    <3>2. ~Clean(sub)
      BY <2>2, <2>4 DEF Photographed, Empty
    <3> QED BY <1>2, <3>1, <3>2
  <2> QED BY <2>3, <2>4
<1>5. CASE check = "aadhaar_qr"
  <2>1. DOMAIN results = {"quality", "extract"}
    BY <1>5, Running
  <2>2. Clean(sub) => ctx = Read(sub)
    BY <1>2, <2>1 DEF CleanContext
  <2>3. Left(check) = Upgraded(sub, ctx)
    BY <1>5 DEF Left
  <2> QED BY <1>1, <1>2, <1>5, <2>2, <2>3, UpgradedContext, UpgradedRight DEF CleanContext, Complete
<1>6. CASE check \notin {"quality", "extract", "aadhaar_qr"}
  <2>1. "aadhaar_qr" \in DOMAIN results
    BY <1>6, Running
  <2>2. Left(check) = ctx
    BY <1>6 DEF Left
  <2> QED BY <1>2, <2>1, <2>2 DEF CleanContext
<1> QED BY <1>3, <1>4, <1>5, <1>6

\* A check that runs finds what the invariant asks of its verdict.
LEMMA VerdictIsJudged ==
    ASSUME AtWork, Evidence, ctx \in Contexts, attempt \in Nat,
           NEW check \in pending, check \notin sub.raises
    PROVE  Judged(check, ResultOf(check), sub, policy, attempt)
<1>1. sub \in Submissions /\ sub \in Submission /\ sub.known \in Known
  BY SubmissionsAssumption, SubmissionTypes DEF Evidence
<1>2. SignedRight(sub, ctx)
  BY DEF Evidence
<1>3. Left(check) \in Contexts /\ (Clean(sub) => Left(check) = CleanContext(sub, DOMAIN results \cup {check}))
  BY LeftContext
<1>4. Clean(sub) => ctx = CleanContext(sub, DOMAIN results)
  BY DEF Evidence
<1>5. check \notin {"quality", "extract", "aadhaar_qr"} => (Clean(sub) => ctx = Complete(sub))
  BY <1>4, Running DEF CleanContext
<1>6. CASE check = "quality"
  BY <1>1, <1>6, QualityVerdict DEF ResultOf
<1>7. CASE check = "extract"
  <2>1. DOMAIN results = {"quality"}
    BY <1>7, Running
  <2>2. Clean(sub) => Left(check) = Read(sub)
    BY <1>3, <1>7, <2>1 DEF CleanContext
  <2>3. ResultOf(check) = extract(sub, Left(check))
    BY <1>7 DEF ResultOf
  <2> QED BY <1>1, <1>3, <1>7, <2>2, <2>3, ExtractVerdict
<1>8. CASE check = "aadhaar_qr"
  <2>1. DOMAIN results = {"quality", "extract"}
    BY <1>8, Running
  <2>2. Clean(sub) => ctx = Read(sub)
    BY <1>4, <2>1 DEF CleanContext
  <2>3. ResultOf(check) = aadhaar_qr(sub, ctx, policy, attempt)
    BY <1>8 DEF ResultOf
  <2> QED BY <1>1, <1>2, <1>8, <2>2, <2>3, AadhaarQrVerdict
<1>9. CASE check = "document_rules"
  <2>1. ResultOf(check) = document_rules(sub, ctx)
    BY <1>9 DEF ResultOf
  <2> QED BY <1>1, <1>9, <2>1, DocumentRulesResult, HarmlessVerdict
<1>10. CASE check = "tamper"
  <2>1. ResultOf(check) = tamper(sub, ctx)
    BY <1>10 DEF ResultOf
  <2> QED BY <1>1, <1>10, <2>1, TamperResult, HarmlessVerdict
<1>11. CASE check = "duplicates"
  <2>1. ResultOf(check) = sub.known
    BY <1>11 DEF ResultOf
  <2> QED BY <1>1, <1>11, <2>1, KnownIsHarmless, HarmlessVerdict
<1>12. CASE check = "identity"
  <2>1. ResultOf(check) = identity(sub, ctx)
    BY <1>12 DEF ResultOf
  <2> QED BY <1>1, <1>5, <1>12, <2>1, IdentityVerdict
<1>13. CASE check = "selfie"
  <2>1. ResultOf(check) = selfie(sub, policy)
    BY <1>13 DEF ResultOf
  <2> QED BY <1>1, <1>13, <2>1, SelfieVerdict
<1>14. CASE check = "eligibility"
  <2>1. ResultOf(check) = eligibility(sub, ctx, policy)
    BY <1>14 DEF ResultOf
  <2> QED BY <1>1, <1>2, <1>5, <1>14, <2>1, EligibilityVerdict
<1>15. check \in Checks
  BY Running
<1> QED BY <1>6, <1>7, <1>8, <1>9, <1>10, <1>11, <1>12, <1>13, <1>14, <1>15 DEF Checks

\* What an attempt in progress owes stays owed when one more verdict is in.
LEMMA VerdictStep ==
    ASSUME AtWork, Evidence, NEW check \in pending, NEW r, NEW c,
           Judged(check, r, sub, policy, attempt), SignedRight(sub, c),
           Clean(sub) => c = CleanContext(sub, DOMAIN results \cup {check}),
           results' = With(results, check, r), ctx' = c, pending' = pending \ {check},
           UNCHANGED <<policy, attempt, sub, stage, outcome>>
    PROVE  AtWork' /\ Evidence'
<1>1. stage # 0 /\ Tries = attempt /\ Tries' = attempt
  BY StageList DEF AtWork, Tries
<1>2. /\ DOMAIN results' = DOMAIN results \cup {check} /\ results'[check] = r
      /\ \A name \in DOMAIN results : name # check => results'[name] = results[name]
  BY DEF With
<1>3. AtWork'
  <2>1. DOMAIN results \cup {check} = Earlier(stage) \cup (Stages[stage] \ (pending \ {check}))
    BY Running
  <2>2. pending' \subseteq Stages[stage] /\ stage \in 1 .. Len(Stages) /\ attempt < MaxAttempts
    BY DEF AtWork
  <2> QED BY <1>2, <2>1, <2>2 DEF AtWork
<1>4. Evidence'
  <2>1. check \in Checks \ DOMAIN results /\ DOMAIN results \subseteq Checks
    BY Running DEF Evidence
  <2>2. ASSUME NEW name \in DOMAIN results'
        PROVE  Judged(name, results'[name], sub, policy, attempt)
    <3>1. CASE name = check
      BY <1>2, <3>1
    <3>2. CASE name # check
      <4>1. name \in DOMAIN results /\ results'[name] = results[name]
        BY <1>2, <3>2
      <4> QED BY <1>1, <4>1 DEF Evidence
    <3> QED BY <3>1, <3>2
  <2>3. sub \in Submissions
    BY DEF Evidence
  <2> QED BY <1>1, <1>2, <2>1, <2>2, <2>3 DEF Evidence
<1> QED BY <1>3, <1>4

LEMMA SubmitStep ==
    ASSUME AttemptInv, NEW s \in Submissions, Submit(s)
    PROVE  AttemptInv'
<1>1. /\ policy' = policy /\ attempt' = attempt /\ attempt < MaxAttempts /\ sub' = s /\ ctx' = Empty
      /\ results' = NoResults /\ stage' = 1 /\ pending' = Stages[1]
  BY DEF Submit
<1>2. policy \in Policies /\ attempt \in 0 .. MaxAttempts
  BY DEF AttemptInv
<1>3. DOMAIN NoResults = {}
  BY DEF NoResults
<1>4. AtWork'
  BY <1>1, <1>3, StageList, EarlierList DEF AtWork
<1>5. SignedRight(s, Empty)
  BY DEF SignedRight, Empty
<1>6. CleanContext(s, {}) = Empty
  BY DEF CleanContext
<1>7. Evidence'
  BY <1>1, <1>3, <1>5, <1>6 DEF Evidence
<1> QED BY <1>1, <1>2, <1>4, <1>7, EmptyType DEF AttemptInv

\* Nothing runs between two attempts.
LEMMA BusyIsAtWork ==
    ASSUME AttemptInv, stage # 0
    PROVE  AtWork /\ Evidence /\ ctx \in Contexts /\ attempt \in Nat /\ sub \in Submission
<1>1. AtWork /\ Evidence
  BY DEF AttemptInv, Fresh, Ended
<1> QED BY <1>1, SubmissionsAssumption, EnvironmentAssumption DEF AttemptInv, Evidence

LEMMA RunCheckStep ==
    ASSUME AttemptInv, NEW check \in Checks, RunCheck(check)
    PROVE  AttemptInv'
<1>1. stage # 0
  BY DEF RunCheck, AttemptInv, Fresh, Ended, AtWork, StageList
<1>2. AtWork /\ Evidence /\ ctx \in Contexts /\ attempt \in Nat
  BY <1>1, BusyIsAtWork
<1>3. check \in pending /\ check \notin sub.raises
  BY DEF RunCheck
<1>4. Judged(check, ResultOf(check), sub, policy, attempt)
  BY <1>2, <1>3, VerdictIsJudged
<1>5. /\ Left(check) \in Contexts /\ SignedRight(sub, Left(check))
      /\ Clean(sub) => Left(check) = CleanContext(sub, DOMAIN results \cup {check})
  BY <1>2, <1>3, LeftContext
<1>6. /\ ctx' = Left(check) /\ results' = With(results, check, ResultOf(check))
      /\ pending' = pending \ {check} /\ UNCHANGED <<policy, attempt, sub, stage, outcome>>
  BY DEF RunCheck
<1>7. AtWork' /\ Evidence'
  BY <1>2, <1>3, <1>4, <1>5, <1>6, VerdictStep
<1> QED BY <1>5, <1>6, <1>7 DEF AttemptInv

\* What a check that raises has stored of the QR is no more than there is.
LEMMA StoredContext ==
    ASSUME NEW c \in Contexts, sub \in Submission, SignedRight(sub, c), NEW qr \in StoredQr
    PROVE  [c EXCEPT !.qr = qr] \in Contexts /\ SignedRight(sub, [c EXCEPT !.qr = qr])
<1>1. qr \in QrCodes /\ (qr = "signed" => sub.qr = "signed")
  BY SubmissionTypes DEF StoredQr, QrCodes
<1> QED BY <1>1 DEF Contexts, SignedRight

LEMMA CheckRaisesStep ==
    ASSUME AttemptInv, NEW check \in Checks, CheckRaises(check)
    PROVE  AttemptInv'
<1>1. stage # 0
  BY DEF CheckRaises, AttemptInv, Fresh, Ended, AtWork, StageList
<1>2. AtWork /\ Evidence /\ ctx \in Contexts /\ attempt \in Nat /\ sub \in Submission
  BY <1>1, BusyIsAtWork
<1>3. check \in pending /\ check \in sub.raises /\ sub \in Submissions /\ SignedRight(sub, ctx)
  BY <1>2 DEF CheckRaises, Evidence
<1>4. ~Clean(sub)
  BY <1>3 DEF Clean
<1>5. Judged(check, Raised, sub, policy, attempt)
  BY <1>3, RaisedVerdict
<1>6. ctx' \in Contexts /\ SignedRight(sub, ctx')
  <2>1. \/ ctx' = ctx
        \/ ctx' = [ctx EXCEPT !.image = sub.image # "unreadable"]
        \/ \E qr \in StoredQr : ctx' = [ctx EXCEPT !.qr = qr]
    BY DEF CheckRaises
  <2>2. CASE ctx' = ctx
    BY <1>2, <1>3, <2>2
  <2>3. CASE ctx' = [ctx EXCEPT !.image = sub.image # "unreadable"]
    BY <1>2, <1>3, <2>3 DEF Contexts, SignedRight
  <2>4. CASE \E qr \in StoredQr : ctx' = [ctx EXCEPT !.qr = qr]
    BY <1>2, <1>3, <2>4, StoredContext
  <2> QED BY <2>1, <2>2, <2>3, <2>4
<1>7. /\ results' = With(results, check, Raised) /\ pending' = pending \ {check}
      /\ UNCHANGED <<policy, attempt, sub, stage, outcome>>
  BY DEF CheckRaises
<1>8. PICK c : c = ctx'
  OBVIOUS
<1>9. AtWork' /\ Evidence'
  BY <1>2, <1>3, <1>4, <1>5, <1>6, <1>7, <1>8, VerdictStep
<1> QED BY <1>6, <1>7, <1>9 DEF AttemptInv

LEMMA LateQrStep ==
    ASSUME AttemptInv, LateQr
    PROVE  AttemptInv'
<1>1. stage # 0 /\ "extract" \in sub.raises /\ UNCHANGED <<policy, attempt, sub, stage, pending, results, outcome>>
  BY DEF LateQr
<1>2. AtWork /\ Evidence /\ ctx \in Contexts /\ sub \in Submission
  BY <1>1, BusyIsAtWork
<1>3. PICK qr \in StoredQr : ctx' = [ctx EXCEPT !.qr = qr]
  BY DEF LateQr
<1>4. ctx' \in Contexts /\ SignedRight(sub, ctx')
  BY <1>2, <1>3, StoredContext DEF Evidence
<1>5. ~Clean(sub)
  BY <1>1 DEF Clean
<1>6. AtWork' /\ Evidence'
  BY <1>1, <1>2, <1>4, <1>5 DEF AtWork, Evidence, Tries
<1> QED BY <1>1, <1>4, <1>6 DEF AttemptInv

LEMMA NextStageStep ==
    ASSUME AttemptInv, NextStage
    PROVE  AttemptInv'
<1>1. /\ stage # 0 /\ stage # Len(Stages) /\ pending = {} /\ stage' = stage + 1 /\ pending' = Stages[stage + 1]
      /\ UNCHANGED <<policy, attempt, sub, ctx, results, outcome>>
  BY DEF NextStage, StopsHere
<1>2. AtWork /\ Evidence
  BY <1>1, BusyIsAtWork
<1>3. stage \in 1 .. 4
  BY <1>1, <1>2, StageList DEF AtWork
<1>4. AtWork'
  BY <1>1, <1>2, <1>3, StageList, NextIsEarlier DEF AtWork
<1>5. Tries' = Tries
  BY <1>1, <1>3 DEF Tries
<1>6. Evidence'
  BY <1>1, <1>2, <1>5 DEF Evidence
<1> QED BY <1>1, <1>4, <1>6 DEF AttemptInv

LEMMA DecideStep ==
    ASSUME AttemptInv, Decide
    PROVE  AttemptInv' /\ Ended' /\ Evidence'
<1>1. /\ stage # 0 /\ pending = {} /\ StopsHere /\ outcome' = decide(results, policy.min_level)
      /\ attempt' = attempt + 1 /\ stage' = 0 /\ UNCHANGED <<policy, sub, pending, ctx, results>>
  BY DEF Decide
<1>2. AtWork /\ Evidence /\ attempt \in Nat
  BY <1>1, BusyIsAtWork
<1>3. \/ DOMAIN results = Checks
      \/ "quality" \in DOMAIN results /\ results["quality"].status = "fail"
  <2>1. stage = 5 => DOMAIN results = Checks
    BY <1>1, <1>2, EarlierList DEF AtWork
  <2> QED BY <1>1, <2>1, StageList DEF StopsHere
<1>4. attempt' \in 0 .. MaxAttempts /\ attempt' > 0 /\ Tries' = Tries
  BY <1>1, <1>2, EnvironmentAssumption DEF AtWork, Tries
<1>5. Ended'
  BY <1>1, <1>3, <1>4 DEF Ended
<1>6. Evidence'
  BY <1>1, <1>2, <1>4 DEF Evidence
<1> QED BY <1>1, <1>4, <1>5, <1>6 DEF AttemptInv

LEMMA WorkingStep ==
    ASSUME AttemptInv, Working
    PROVE  AttemptInv'
BY RunCheckStep, CheckRaisesStep, LateQrStep, NextStageStep DEF Working

LEMMA AttemptStart == ASSUME Init PROVE AttemptInv
BY EmptyType, EnvironmentAssumption DEF Init, AttemptInv, Fresh

------------------------------------------------------------------------------
(* The invariant holds *)

LEMMA WorkingIsBusy == ASSUME AttemptInv, Working PROVE stage # 0
<1>1. ASSUME NEW check \in pending PROVE stage # 0
  BY <1>1, StageList DEF AttemptInv, Fresh, Ended, AtWork
<1> QED BY <1>1 DEF Working, RunCheck, CheckRaises, LateQr, NextStage

\* No pass is at hand while an attempt is in progress.
LEMMA BusyHasNoPass == ASSUME PassInv, stage # 0 PROVE pass = None /\ visit = None
BY DEF PassInv, Ended

LEMMA PassStart == ASSUME PassInit PROVE PassInv
BY AttemptStart DEF PassInit, PassInv

\* The invariant is about the state only.
LEMMA PassStutter == ASSUME PassInv, UNCHANGED passVars PROVE PassInv'
<1> USE DEF passVars, vars
<1>1. AttemptInv'
  BY DEF PassInv, AttemptInv, Fresh, AtWork, Ended, Evidence, Tries
<1>2. Ended /\ Evidence => Ended' /\ Evidence'
  BY DEF Ended, Evidence, Tries
<1>3. EarnsPass(sub, policy, outcome)' = EarnsPass(sub, policy, outcome) /\ Claims(ctx, outcome)' = Claims(ctx, outcome)
  OBVIOUS
<1>4. PassLedger(visit.use, visit.policy)' = PassLedger(visit.use, visit.policy)
  BY DEF PassLedger, check_pass, PassFields
<1> QED BY <1>1, <1>2, <1>3, <1>4 DEF PassInv

LEMMA SubmitAgainStep == ASSUME PassInv, SubmitAgain PROVE PassInv'
<1>1. PICK s \in Submissions : Submit(s)
  BY DEF SubmitAgain
<1>2. AttemptInv'
  BY <1>1, SubmitStep DEF PassInv
<1> QED BY <1>2 DEF SubmitAgain, PassInv

LEMMA ContinueStep == ASSUME PassInv, Continue PROVE PassInv'
<1>1. AttemptInv /\ Working
  BY DEF PassInv, Continue
<1>2. AttemptInv' /\ pass = None /\ visit = None
  BY <1>1, WorkingStep, WorkingIsBusy, BusyHasNoPass
<1> QED BY <1>2 DEF Continue, PassInv

LEMMA DecideAndIssueStep == ASSUME PassInv, DecideAndIssue PROVE PassInv'
<1>1. AttemptInv /\ Decide
  BY DEF PassInv, DecideAndIssue
<1>2. AttemptInv' /\ Ended' /\ Evidence'
  BY <1>1, DecideStep
<1>3. visit = None
  BY <1>1, BusyHasNoPass DEF Decide
<1>4. sub' = sub /\ policy' = policy /\ ctx' = ctx
  BY <1>1 DEF Decide
<1> QED BY <1>2, <1>3, <1>4 DEF DecideAndIssue, PassInv

LEMMA UsePassStep ==
    ASSUME PassInv, NEW u \in Uses, NEW p \in Policies, UsePass(u, p)
    PROVE  PassInv'
<1>1. /\ pass # None /\ UNCHANGED <<policy, attempt, sub, stage, pending, ctx, results, outcome, pass>>
      /\ visit' = [policy |-> p, use |-> u, outcome |-> decide(PassLedger(u, p), p.min_level)]
  BY DEF UsePass, vars
<1>2. AttemptInv' /\ Ended' /\ Evidence'
  BY <1>1 DEF PassInv, AttemptInv, Fresh, AtWork, Ended, Evidence, Tries
<1>3. EarnsPass(sub, policy, outcome)' /\ pass' = Claims(ctx, outcome)'
  BY <1>1 DEF PassInv
<1>4. visit'.use = u /\ visit'.policy = p /\ visit'.outcome = decide(PassLedger(u, p), p.min_level)
  BY <1>1
<1>5. PassLedger(visit.use, visit.policy)' = PassLedger(u, p)
  BY <1>1, <1>4 DEF PassLedger, check_pass, PassFields
<1> QED BY <1>1, <1>2, <1>3, <1>4, <1>5 DEF PassInv

\* The invariant of an attempt and its pass, for every submission, policy and use.
THEOREM PassInvariant == PassSpec => []PassInv
<1>1. PassInit => PassInv
  BY PassStart
<1>2. PassInv /\ [PassNext]_passVars => PassInv'
  BY PassStutter, SubmitAgainStep, ContinueStep, DecideAndIssueStep, UsePassStep DEF PassNext
<1> QED BY <1>1, <1>2, PTL DEF PassSpec

------------------------------------------------------------------------------
(* Types *)

LEMMA EvidenceLedger == ASSUME Evidence PROVE Ledger(results)
BY DEF Evidence, Judged, Sane, Ledger

LEMMA AttemptTyped == ASSUME AttemptInv PROVE TypeOK
<1>1. policy \in Policies /\ attempt \in 0 .. MaxAttempts /\ ctx \in Contexts
  BY DEF AttemptInv
<1>2. CASE Fresh
  <2>1. DOMAIN results = {}
    BY <1>2 DEF Fresh, NoResults
  <2> QED BY <1>1, <1>2, <2>1, StageList DEF TypeOK, Fresh
<1>3. CASE (AtWork \/ Ended) /\ Evidence
  <2>1. sub \in Submission /\ DOMAIN results \subseteq Checks
    BY <1>3, SubmissionsAssumption DEF Evidence
  <2>2. \A check \in DOMAIN results : results[check] \in CheckResults
    BY <1>3, EvidenceLedger DEF Ledger
  <2>3. /\ stage \in 0 .. Len(Stages)
        /\ pending \subseteq IF stage = 0 THEN {} ELSE Stages[stage]
    BY <1>3, StageList DEF AtWork, Ended
  <2> QED BY <1>1, <2>1, <2>2, <2>3 DEF TypeOK
<1> QED BY <1>2, <1>3 DEF AttemptInv

LEMMA ExpiryType == ASSUME NEW c \in Contexts PROVE Expiry(c) \in Dates
<1>1. [Today EXCEPT !.year = @ + YearsValid] \in Dates
  BY EnvironmentAssumption, ValidityAssumption DEF Dates
<1>2. c.valid_until \in Dates \cup {None}
  BY DEF Contexts
<1> QED BY <1>1, <1>2 DEF Expiry

LEMMA ClaimsType ==
    ASSUME NEW c \in Contexts, NEW o, o.level \in EvidenceLevels
    PROVE  Claims(c, o) \in PassClaims
<1>1. c.doc \in DocTypes /\ c.dob \in Dates \cup {None} /\ c.year \in Ages /\ c.valid_until \in Dates \cup {None}
  BY DEF Contexts
<1> QED BY <1>1, ExpiryType DEF Claims, PassClaims

LEMMA OutcomeLevel ==
    ASSUME NEW ledger, Ledger(ledger), NEW minLevel
    PROVE  decide(ledger, minLevel).level \in EvidenceLevels
BY LevelType DEF decide

LEMMA PassTyped == ASSUME PassInv PROVE PassTypeOK
<1>1. TypeOK
  BY AttemptTyped DEF PassInv
<1>2. pass \in PassClaims \cup {None}
  <2> SUFFICES ASSUME pass # None PROVE pass \in PassClaims
    OBVIOUS
  <2>1. Evidence /\ Ended /\ pass = Claims(ctx, outcome) /\ ctx \in Contexts
    BY DEF PassInv, AttemptInv
  <2>2. outcome.level \in EvidenceLevels
    BY <2>1, EvidenceLedger, OutcomeLevel DEF Ended
  <2> QED BY <2>1, <2>2, ClaimsType
<1> QED BY <1>1, <1>2 DEF PassTypeOK, PassInv

\* Every variable of an attempt (context.py:38, orchestrator.py:24) and every claim
\* of a pass (passes.py:56) has its type.
THEOREM PassTypesCorrect == PassSpec => []PassTypeOK
<1>1. PassInv => PassTypeOK
  BY PassTyped
<1> QED BY <1>1, PassInvariant, PTL

------------------------------------------------------------------------------
(* What a decided attempt owes *)

\* A verified attempt ran all checks, none found anything in its way.
LEMMA VerifiedAttempt ==
    ASSUME AttemptInv, Decided("verified")
    PROVE  /\ Ended /\ Evidence /\ Clean(sub) /\ DOMAIN results = Checks
           /\ \A check \in Checks : ~Blocks(results[check])
<1>1. Ended /\ Evidence
  BY DEF AttemptInv, Decided, Fresh, AtWork, NoOutcome
<1>2. decide(results, policy.min_level).decision = "verified"
  BY <1>1 DEF Ended, Decided
<1>3. \A code \in decide(results, policy.min_level).reasons : code \notin RejectCodes \cup ActionCodes \cup ReviewCodes
  BY <1>2, VerifiedHasNoBlocker
<1>4. \A check \in DOMAIN results : ~Blocks(results[check])
  BY <1>3, FoundIsReason DEF Blocks
<1>5. \A check \in DOMAIN results : results[check].status # "error"
  <2> SUFFICES ASSUME NEW check \in DOMAIN results, results[check].status = "error" PROVE FALSE
    OBVIOUS
  <2>1. "CHECK_ERROR" \in collect_reasons(results)
    BY DEF collect_reasons
  <2>2. "CHECK_ERROR" \in decide(results, policy.min_level).reasons
    BY <2>1 DEF decide, Reasons
  <2> QED BY <1>3, <2>2, ReviewFindings
<1>6. \A check \in DOMAIN results : Judged(check, results[check], sub, policy, Tries)
  BY <1>1 DEF Evidence
<1>7. \A check \in DOMAIN results : check \notin sub.raises
  BY <1>5, <1>6 DEF Judged
<1>8. sub \in Submission
  BY <1>1, SubmissionsAssumption DEF Evidence
<1>9. "quality" \in DOMAIN results => results["quality"] = quality(sub)
  BY <1>6, <1>7 DEF Judged
<1>10. "quality" \in DOMAIN results /\ sub.image = "clear"
  <2>1. "quality" \in DOMAIN results
    BY <1>1 DEF Ended, Checks
  <2> QED BY <1>4, <1>8, <1>9, <2>1, QualityResult
<1>11. DOMAIN results = Checks
  BY <1>1, <1>8, <1>9, <1>10, QualityResult DEF Ended
<1>12. sub.raises = {}
  BY <1>7, <1>8, <1>11, SubmissionTypes
<1> QED BY <1>1, <1>4, <1>10, <1>11, <1>12 DEF Clean

\* A check that raised, or an unusable image, keeps an attempt from being verified
\* (orchestrator.py:39, decision.py:26).
THEOREM BrokenCheckStops == PassSpec => []BrokenCheckNeverVerifies
<1>1. PassInv => BrokenCheckNeverVerifies
  BY VerifiedAttempt DEF PassInv, BrokenCheckNeverVerifies, Clean
<1> QED BY <1>1, PassInvariant, PTL

\* ... with the context that holds every date of the card, ...
LEMMA VerifiedContext ==
    ASSUME AttemptInv, Decided("verified")
    PROVE  /\ sub \in Submissions /\ ctx = Complete(sub)
           /\ Certified(Read(sub)) => QrFindings(sub, Read(sub)) = {}
           /\ ctx.name # "none"
<1>1. Evidence /\ Clean(sub) /\ DOMAIN results = Checks
  BY VerifiedAttempt
<1>2. \A check \in Checks : ~Blocks(results[check]) /\ CleanVerdict(check, results[check], sub, policy, Tries)
  BY <1>1, VerifiedAttempt DEF Evidence, Judged
<1>3. sub \in Submissions /\ sub \in Submission
  BY <1>1, SubmissionsAssumption DEF Evidence
<1>4. ctx = Complete(sub)
  BY <1>1 DEF Evidence, CleanContext, Checks
<1>5. "aadhaar_qr" \in Checks /\ "extract" \in Checks
  BY DEF Checks
<1>6. results["aadhaar_qr"] = aadhaar_qr(sub, Read(sub), policy, Tries) /\ ~Blocks(results["aadhaar_qr"])
  BY <1>2, <1>5 DEF CleanVerdict
<1>7. Certified(Read(sub)) => QrFindings(sub, Read(sub)) = {}
  BY <1>6, AadhaarQrResult
<1>8. results["extract"] = extract(sub, Read(sub)) /\ ~Blocks(results["extract"])
  BY <1>2, <1>5 DEF CleanVerdict
<1>9. Photographed \in Contexts /\ Photographed.image
  BY EmptyType DEF Photographed, Empty
<1>10. Read(sub) \in Contexts /\ Read(sub).image
  BY <1>3, <1>9, ExtractedContext DEF Read
<1>11. Read(sub).name # "none"
  <2>1. "FIELDS_UNREADABLE" \in ActionCodes
    BY ActionFindings
  <2> QED BY <1>3, <1>8, <1>10, <2>1, ExtractResult DEF Blocks
<1> QED BY <1>3, <1>4, <1>7, <1>11, CompleteContext

\* ... which neither the form nor the rules contradict.
LEMMA VerifiedFacts ==
    ASSUME AttemptInv, Decided("verified")
    PROVE  /\ ~DobConflict(sub, ctx)
           /\ AgeRule(policy) =>
                  PossibleAges(ctx, policy) # {} /\ \A age \in PossibleAges(ctx, policy) : within(age, policy)
           /\ policy.student_only =>
                  ctx.doc = "college_id" /\ (ctx.valid_until # None => ~Before(ctx.valid_until, policy.event))
<1>1. \A check \in Checks : ~Blocks(results[check]) /\ CleanVerdict(check, results[check], sub, policy, Tries)
  BY VerifiedAttempt DEF Evidence, Judged
<1>2. "identity" \in Checks /\ "eligibility" \in Checks
  BY DEF Checks
<1>3. ctx = Complete(sub) /\ ctx.name # "none"
  BY VerifiedContext
<1>4. results["identity"] = identity(sub, ctx) /\ ~Blocks(results["identity"])
  BY <1>1, <1>2, <1>3 DEF CleanVerdict
<1>5. results["eligibility"] = eligibility(sub, ctx, policy) /\ ~Blocks(results["eligibility"])
  BY <1>1, <1>2, <1>3 DEF CleanVerdict
<1>6. ~DobConflict(sub, ctx)
  BY <1>3, <1>4, IdentityResult
<1>7. LET r == eligibility(sub, ctx, policy) IN
      /\ ~Blocks(r) /\ AgeRule(policy) =>
             PossibleAges(ctx, policy) # {} /\ \A age \in PossibleAges(ctx, policy) : within(age, policy)
      /\ ~Blocks(r) /\ policy.student_only =>
             ctx.doc = "college_id" /\ (ctx.valid_until # None => ~Before(ctx.valid_until, policy.event))
  BY EligibilityResult
<1> QED BY <1>5, <1>6, <1>7

\* The dates of the context are those of the card and of its signed QR.
LEMMA VerifiedDates ==
    ASSUME AttemptInv, Decided("verified")
    PROVE  /\ SignedDob => ctx.dob = sub.qr_dob
           /\ sub.dob # None => ctx.dob = sub.dob
           /\ sub.year # None /\ ~SignedDob => ctx.dob = None /\ ctx.year = sub.year
           /\ ctx.dob # None \/ ctx.year # None =>
                  \/ SignedDob \/ sub.dob # None \/ sub.year # None
                  \/ sub.qr = "signed" /\ sub.qr_year # None
           /\ ctx.valid_until = sub.valid_until /\ SignedRight(sub, ctx)
           /\ ctx.doc = IF sub.doc = "unknown" /\ sub.qr # "none" THEN "aadhaar" ELSE sub.doc
BY VerifiedContext, CompleteContext DEF SignedDob, SignedDate

\* A verified attempt has one date of birth in the form, on the card and in the signed
\* QR (identity.py, aadhaar_qr.py:90).
THEOREM DatesAgree == PassSpec => []VerifiedDatesAgree
<1>1. ASSUME AttemptInv, Decided("verified")
      PROVE  /\ sub.form_dob # None /\ sub.dob # None => sub.form_dob = sub.dob
             /\ sub.form_dob # None /\ SignedDob => sub.form_dob = sub.qr_dob
             /\ sub.dob # None /\ SignedDob => sub.dob = sub.qr_dob
  <2>1. sub.form_dob # None /\ ctx.dob # None => sub.form_dob = ctx.dob
    BY <1>1, VerifiedFacts DEF DobConflict
  <2>2. (SignedDob => ctx.dob = sub.qr_dob) /\ (sub.dob # None => ctx.dob = sub.dob)
    BY <1>1, VerifiedDates
  <2> QED BY <2>1, <2>2 DEF SignedDob
<1>2. PassInv => VerifiedDatesAgree
  BY <1>1 DEF PassInv, VerifiedDatesAgree
<1> QED BY <1>2, PassInvariant, PTL

\* With only a year printed, the age on the day is one of two.
LEMMA YearGivesTwoAges ==
    ASSUME NEW y \in Nat, NEW p \in Policy, NEW day \in Nat
    PROVE  age_on([year |-> y, day |-> day], p.event) \in {p.event.year - y - 1, p.event.year - y}
<1>1. p.event.year \in Nat /\ p.event.day \in Nat
  BY DEF Policy, Dates
<1> QED BY <1>1 DEF age_on

\* Rules that every possible age meets are met by every date the card leaves possible.
LEMMA AgesShown ==
    ASSUME AttemptInv, Decided("verified"), NEW p \in Policies,
           NEW c, c.dob = ctx.dob, c.year = ctx.year,
           PossibleAges(c, p) # {}, \A age \in PossibleAges(c, p) : within(age, p)
    PROVE  AgeShown(p)
<1>1. sub \in Submission /\ p \in Policy
  BY VerifiedContext, SubmissionsAssumption, PoliciesAssumption
<1>2. ctx.dob # None => OfAge(ctx.dob, p)
  BY DEF PossibleAges, within, OfAge
<1>3. (SignedDob => OfAge(sub.qr_dob, p)) /\ (sub.dob # None => OfAge(sub.dob, p))
  BY <1>2, VerifiedDates DEF SignedDob
<1>4. ASSUME sub.year # None, ~SignedDob, NEW day \in {1, 366}
      PROVE  OfAge([year |-> sub.year, day |-> day], p)
  <2>1. ctx.dob = None /\ ctx.year = sub.year
    BY <1>4, VerifiedDates
  <2>2. PossibleAges(c, p) = {p.event.year - sub.year - 1, p.event.year - sub.year}
    BY <1>4, <2>1 DEF PossibleAges
  <2>3. sub.year \in Nat
    BY <1>1, <1>4, SubmissionTypes DEF Ages
  <2>4. age_on([year |-> sub.year, day |-> day], p.event) \in PossibleAges(c, p)
    BY <1>1, <1>4, <2>2, <2>3, YearGivesTwoAges
  <2> QED BY <2>4 DEF within, OfAge
<1>5. ctx.dob # None \/ ctx.year # None
  BY DEF PossibleAges
<1> QED BY <1>3, <1>4, <1>5, VerifiedDates DEF AgeShown

\* A decision that is none is no verdict of an attempt that ended.
LEMMA EndedAttempt ==
    ASSUME AttemptInv, stage = 0, sub # None
    PROVE  Ended /\ Evidence /\ outcome = decide(results, policy.min_level)
BY DEF AttemptInv, Fresh, AtWork, Ended

\* The level PRESENT was reached by checks that passed: nothing grants it.
LEMMA PresentAttempt ==
    ASSUME AttemptInv, stage = 0, outcome.level = PRESENT
    PROVE  sub.live /\ sub.selfie = "match" /\ sub.qr = "signed" /\ sub.qr_differs = {}
<1>1. Ended /\ Evidence
  BY DEF AttemptInv, Fresh, AtWork, NoOutcome, UNUSABLE, PRESENT
<1>2. evidence_level(results) = PRESENT
  BY <1>1 DEF Ended, decide
<1>3. GrantedLevels(results) \subseteq {UNUSABLE}
  BY <1>1 DEF Evidence, Judged, Sane, GrantedLevels
<1> DEFINE levels == {UNUSABLE} \cup ReachedLevels(results) \cup GrantedLevels(results)
<1>4. levels \subseteq EvidenceLevels /\ UNUSABLE \in levels
  BY <1>3, NoLevel DEF ReachedLevels, EvidenceLevels, READ, UNUSABLE, PRESENT
<1>5. Max(levels) = PRESENT
  BY <1>2 DEF evidence_level, UNUSABLE, PRESENT
<1>6. PRESENT \in levels
  <2> HIDE DEF levels
  <2> QED BY <1>4, <1>5, MaxLevel
<1>7. PRESENT \in ReachedLevels(results)
  BY <1>3, <1>6 DEF UNUSABLE, PRESENT
<1>8. passed(results, "aadhaar_qr") /\ passed(results, "selfie")
  BY <1>7 DEF ReachedLevels, LevelRequirements, READ, PRESENT
<1>9. /\ Judged("aadhaar_qr", results["aadhaar_qr"], sub, policy, Tries)
      /\ Judged("selfie", results["selfie"], sub, policy, Tries)
  BY <1>1, <1>8 DEF Evidence, passed
<1>10. sub \in Submission
  BY <1>1, SubmissionsAssumption DEF Evidence
<1> QED BY <1>8, <1>9, <1>10, SubmissionTypes DEF Judged, passed

\* L4 is for a live capture beside a signed QR that agrees with the card (selfie.py:15,
\* LEVEL_REQUIREMENTS, decision.py:30).
THEOREM PresentNeedsLife == PassSpec => []PresentIsLive
<1>1. AttemptInv => PresentIsLive
  BY PresentAttempt DEF PresentIsLive
<1>2. PassInv => PresentIsLive
  BY <1>1 DEF PassInv
<1> QED BY <1>2, PassInvariant, PTL

\* A missing QR asks once and never verifies.
LEMMA MissingQrAttempt ==
    ASSUME AttemptInv, stage = 0, sub # None
    PROVE  /\ "AADHAAR_QR_REQUIRED" \in outcome.reasons => attempt = 1
           /\ policy.require_aadhaar_qr /\ AgeRule(policy) /\ sub.doc = "aadhaar" /\ sub.qr = "none" =>
                  /\ outcome.decision # "verified"
                  /\ attempt > 1 /\ sub.raises = {} /\ outcome.actions = {} =>
                         outcome.decision \in {"needs_review", "not_eligible"}
<1>1. Ended /\ Evidence /\ outcome = decide(results, policy.min_level)
  BY EndedAttempt
<1>2. ASSUME "AADHAAR_QR_REQUIRED" \in outcome.reasons
      PROVE  attempt = 1
  <2>1. "AADHAAR_QR_REQUIRED" \in Reasons(results, policy.min_level)
    BY <1>1, <1>2 DEF decide
  <2>2. "AADHAAR_QR_REQUIRED" \in collect_reasons(results)
    BY <2>1 DEF Reasons
  <2>3. PICK check \in DOMAIN results : "AADHAAR_QR_REQUIRED" \in results[check].codes
    BY <2>2 DEF collect_reasons
  <2>4. Tries = 0
    BY <1>1, <2>3 DEF Evidence, Judged
  <2> QED BY <2>4, EnvironmentAssumption DEF Tries, AttemptInv
<1>3. ASSUME policy.require_aadhaar_qr, AgeRule(policy), sub.doc = "aadhaar", sub.qr = "none"
      PROVE  outcome.decision # "verified"
  <2> SUFFICES ASSUME outcome.decision = "verified" PROVE FALSE
    OBVIOUS
  <2>1. Decided("verified")
    BY DEF Decided
  <2>2. "aadhaar_qr" \in Checks
    BY DEF Checks
  <2>3. Judged("aadhaar_qr", results["aadhaar_qr"], sub, policy, Tries)
    BY <2>1, <2>2, VerifiedAttempt DEF Evidence
  <2>4. ~Blocks(results["aadhaar_qr"]) /\ Clean(sub)
    BY <2>1, <2>2, VerifiedAttempt
  <2>5. results["aadhaar_qr"] = aadhaar_qr(sub, Read(sub), policy, Tries)
    BY <2>3, <2>4 DEF Judged, CleanVerdict
  <2>6. sub \in Submission /\ Photographed \in Contexts
    BY <1>1, SubmissionsAssumption, EmptyType DEF Evidence
  <2>7. Read(sub).qr = "none" /\ Read(sub).doc = "aadhaar"
    BY <1>3, <2>6, ExtractedContext DEF Read
  <2>8. Blocks(aadhaar_qr(sub, Read(sub), policy, Tries))
    BY <1>3, <2>7, AadhaarQrResult
  <2> QED BY <2>4, <2>5, <2>8
<1>4. ASSUME outcome.actions = {}
      PROVE  outcome.decision # "action_required"
  <2> DEFINE codes == Reasons(results, policy.min_level)
  <2>1. outcome.decision = DecisionFor(codes) /\ outcome.actions = ActionsFor(codes)
    BY <1>1 DEF decide
  <2> HIDE DEF codes
  <2> SUFFICES ASSUME DecisionFor(codes) = "action_required" PROVE FALSE
    BY <2>1
  <2>2. ~Blocking(codes, "reject") /\ Blocking(codes, "action")
    BY DEF DecisionFor
  <2>3. PICK code \in codes : Effect(code) = "action"
    BY <2>2 DEF Blocking
  <2>4. code \in ActionCodes
    BY <2>3 DEF Effect
  <2> QED BY <1>4, <2>1, <2>2, <2>3, <2>4 DEF ActionsFor
<1>5. outcome.decision \in Decisions
  BY <1>1, DecisionType DEF decide
<1> QED BY <1>2, <1>3, <1>4, <1>5 DEF Decisions

\* The QR is asked for on the first attempt only, and where the rules want it none is
\* verified without (aadhaar_qr.py:42).
THEOREM QrAskedOnce == PassSpec => []QrIsAskedForOnce
<1>1. AttemptInv => QrIsAskedForOnce
  BY MissingQrAttempt DEF QrIsAskedForOnce
<1>2. PassInv => QrIsAskedForOnce
  BY <1>1 DEF PassInv
<1> QED BY <1>2, PassInvariant, PTL

------------------------------------------------------------------------------
(* What a use of a pass owes *)

\* A pass in hand was earned by a verified attempt.
LEMMA EarnedPass ==
    ASSUME PassInv, pass # None
    PROVE  /\ Ended /\ Evidence /\ Decided("verified") /\ pass = Claims(ctx, outcome)
           /\ "duplicate_suspected" \notin outcome.flags /\ pass \in PassClaims
<1>1. Ended /\ Evidence /\ EarnsPass(sub, policy, outcome) /\ pass = Claims(ctx, outcome)
  BY DEF PassInv
<1> QED BY <1>1, PassTyped DEF Ended, EarnsPass, Decided, PassTypeOK

\* check_pass accepts a pass with all that it asks for, or objects.
LEMMA CheckPassResult ==
    ASSUME pass \in PassClaims, NEW u, NEW p \in Policies
    PROVE  LET r == check_pass(u, p) IN
           /\ r \in CheckResults /\ Harmless(r)
           /\ r.status # "pass" => Blocks(r) /\ r.grants = UNUSABLE
           /\ r.status = "pass" =>
                  /\ u.token \notin {"forged", "other_account"} /\ ~Before(pass.expires, u.on) /\ ~u.revoked
                  /\ pass.level >= p.min_level /\ r.grants = pass.level
<1> DEFINE r == check_pass(u, p)
           Objections == {"PASS_NOT_ACCEPTED", "PASS_INVALID", "PASS_SUBJECT_MISMATCH", "PASS_EXPIRED",
                          "PASS_REVOKED", "PASS_LEVEL_TOO_LOW"}
<1>1. pass.level \in EvidenceLevels /\ p.min_level \in EvidenceLevels
  BY PoliciesAssumption DEF PassClaims, Policy
<1>2. /\ Objections \subseteq ActionCodes \cup ReviewCodes /\ Objections \subseteq Codes
      /\ {"PASS_ACCEPTED"} \subseteq Codes
  BY ActionFindings, ReviewFindings, MildFindings DEF Codes
<1>3. /\ (Objections \cup {"PASS_ACCEPTED"}) \cap RejectCodes = {}
      /\ "AADHAAR_QR_REQUIRED" \notin Objections \cup {"PASS_ACCEPTED"}
  BY DEF RejectCodes
<1>4. {"pass", "warn", "fail"} \subseteq CheckStatuses
  BY DEF CheckStatuses
<1>5. \/ \E status \in {"warn", "fail"}, code \in Objections : r = Ran(status, {code})
      \/ /\ r = result("pass", {"PASS_ACCEPTED"}, pass.level)
         /\ u.token \notin {"forged", "other_account"} /\ ~Before(pass.expires, u.on) /\ ~u.revoked
         /\ ~(pass.level < p.min_level)
  BY DEF check_pass
<1>6. CASE \E status \in {"warn", "fail"}, code \in Objections : r = Ran(status, {code})
  <2>1. PICK status \in {"warn", "fail"}, code \in Objections : r = Ran(status, {code})
    BY <1>6
  <2>2. Sane(r) /\ r.status = status /\ r.codes = {code}
    BY <1>2, <1>4, <2>1, RanIsSane
  <2> QED BY <1>2, <1>3, <2>1, <2>2 DEF Sane, Harmless, Blocks
<1>7. CASE /\ r = result("pass", {"PASS_ACCEPTED"}, pass.level)
           /\ u.token \notin {"forged", "other_account"} /\ ~Before(pass.expires, u.on) /\ ~u.revoked
           /\ ~(pass.level < p.min_level)
  <2>1. r \in CheckResults
    BY <1>1, <1>2, <1>4, <1>7, ResultType
  <2>2. r.status = "pass" /\ r.codes = {"PASS_ACCEPTED"} /\ r.grants = pass.level
    BY <1>7 DEF result
  <2>3. pass.level >= p.min_level
    BY <1>1, <1>7 DEF EvidenceLevels, UNUSABLE, PRESENT
  <2> QED BY <1>3, <1>7, <2>1, <2>2, <2>3 DEF Harmless
<1> QED BY <1>5, <1>6, <1>7

\* The ledger of a use: the objection alone, or what follows an accepted pass.
LEMMA LedgerOfUse ==
    ASSUME NEW u, NEW p
    PROVE  LET L == PassLedger(u, p)
               first == check_pass(u, p)
           IN  /\ "pass" \in DOMAIN L /\ L["pass"] = first
               /\ first.status # "pass" => DOMAIN L = {"pass"}
               /\ first.status = "pass" =>
                      /\ DOMAIN L = {"pass", "identity", "eligibility"}
                      /\ L["identity"] = identity(u, PassFields(u))
                      /\ L["eligibility"] = eligibility(u, PassFields(u), p)
<1> DEFINE L == PassLedger(u, p)
           first == check_pass(u, p)
           named == identity(u, PassFields(u))
           aged == eligibility(u, PassFields(u), p)
           One == With(NoResults, "pass", first)
           Two == With(One, "identity", named)
           Three == With(Two, "eligibility", aged)
<1>1. L = IF first.status # "pass" THEN One ELSE Three
  BY DEF PassLedger
<1> HIDE DEF first, named, aged
<1>2. DOMAIN One = {"pass"} /\ One["pass"] = first
  BY DEF With, NoResults
<1> HIDE DEF One
<1>3. DOMAIN Two = {"pass", "identity"} /\ Two["pass"] = first /\ Two["identity"] = named
  BY <1>2 DEF With
<1> HIDE DEF Two
<1>4. /\ DOMAIN Three = {"pass", "identity", "eligibility"} /\ Three["pass"] = first
      /\ Three["identity"] = named /\ Three["eligibility"] = aged
  BY <1>3 DEF With
<1> HIDE DEF Three, L
<1> QED BY <1>1, <1>2, <1>4 DEF L, first, named, aged

\* What is known of the person when a pass is used is what the attempt knew.
LEMMA FieldsOfPass ==
    ASSUME PassInv, pass # None, NEW u \in Uses
    PROVE  LET c == PassFields(u) IN
           /\ c.name = u.name /\ c.name # "none" /\ c.qr = "none"
           /\ c.dob = ctx.dob /\ c.year = ctx.year
           /\ c.source = "qr_signed" <=> ctx.source = "qr_signed"
           /\ c.doc = "college_id" => ctx.doc = "college_id" /\ c.valid_until = ctx.valid_until
<1>1. pass = Claims(ctx, outcome)
  BY DEF PassInv
<1>2. u.name \in Names \ {"none"}
  BY UsesAssumption DEF Use
<1> QED BY <1>1, <1>2 DEF PassFields, Claims, Empty

\* A use shows no level but the one of the pass.
LEMMA LevelOfUse ==
    ASSUME pass \in PassClaims, NEW u, NEW p \in Policies
    PROVE  evidence_level(PassLedger(u, p)) \in {UNUSABLE, pass.level}
<1> DEFINE L == PassLedger(u, p)
           levels == {UNUSABLE} \cup ReachedLevels(L) \cup GrantedLevels(L)
<1>1. "extract" \notin DOMAIN L /\ "quality" \notin DOMAIN L
  BY LedgerOfUse
<1>2. ReachedLevels(L) = {}
  BY <1>1 DEF ReachedLevels, LevelRequirements, passed, READ, PRESENT
<1>3. ASSUME NEW name \in DOMAIN L PROVE L[name].grants \in {UNUSABLE, pass.level}
  <2>1. CASE name = "pass"
    BY <2>1, LedgerOfUse, CheckPassResult
  <2>2. CASE name # "pass"
    <3>1. name \in {"identity", "eligibility"} /\ check_pass(u, p).status = "pass"
      BY <2>2, LedgerOfUse
    <3>2. L[name] = identity(u, PassFields(u)) \/ L[name] = eligibility(u, PassFields(u), p)
      BY <3>1, LedgerOfUse
    <3>3. Sane(identity(u, PassFields(u))) /\ Sane(eligibility(u, PassFields(u), p))
      BY IdentityResult, EligibilityResult
    <3> QED BY <3>2, <3>3 DEF Sane
  <2> QED BY <2>1, <2>2
<1>4. GrantedLevels(L) \subseteq {UNUSABLE, pass.level}
  BY <1>3 DEF GrantedLevels
<1>5. pass.level \in EvidenceLevels
  BY DEF PassClaims
<1>6. levels \in SUBSET EvidenceLevels /\ UNUSABLE \in levels
  BY <1>2, <1>4, <1>5, NoLevel
<1>7. evidence_level(L) = Max(levels)
  BY <1>1 DEF evidence_level
<1> HIDE DEF levels
<1>8. Max(levels) \in levels
  BY <1>6, MaxLevel
<1> QED BY <1>2, <1>4, <1>7, <1>8 DEF levels

LEMMA UseFacts ==
    ASSUME PassInv, visit # None
    PROVE  /\ pass # None /\ visit.policy \in Policies /\ visit.use \in Uses
           /\ visit.outcome = decide(PassLedger(visit.use, visit.policy), visit.policy.min_level)
BY DEF PassInv

\* A use that is verified had its pass accepted, and nothing found in its way after.
LEMMA VerifiedUse ==
    ASSUME PassInv, Visited("verified")
    PROVE  LET u == visit.use
               p == visit.policy
           IN  /\ check_pass(u, p).status = "pass"
               /\ ~Blocks(identity(u, PassFields(u))) /\ ~Blocks(eligibility(u, PassFields(u), p))
<1> DEFINE u == visit.use
           p == visit.policy
           L == PassLedger(u, p)
<1>1. pass \in PassClaims /\ p \in Policies /\ visit.outcome = decide(L, p.min_level)
  BY UseFacts, EarnedPass DEF Visited
<1>2. decide(L, p.min_level).decision = "verified"
  BY <1>1 DEF Visited
<1> HIDE DEF u, p, L
<1>3. \A code \in decide(L, p.min_level).reasons : code \notin RejectCodes \cup ActionCodes \cup ReviewCodes
  BY <1>2, VerifiedHasNoBlocker
<1>4. \A name \in DOMAIN L : ~Blocks(L[name])
  BY <1>3, FoundIsReason DEF Blocks
<1>5. "pass" \in DOMAIN L /\ L["pass"] = check_pass(u, p)
  BY LedgerOfUse DEF L
<1>6. check_pass(u, p).status = "pass"
  BY <1>1, <1>4, <1>5, CheckPassResult
<1>7. /\ DOMAIN L = {"pass", "identity", "eligibility"}
      /\ L["identity"] = identity(u, PassFields(u))
      /\ L["eligibility"] = eligibility(u, PassFields(u), p)
  BY <1>6, LedgerOfUse DEF L
<1> QED BY <1>4, <1>6, <1>7 DEF u, p

\* ... so its fields meet the rules of the event.
LEMMA VerifiedUseFacts ==
    ASSUME PassInv, Visited("verified")
    PROVE  LET c == PassFields(visit.use)
               p == visit.policy
           IN  /\ AgeRule(p) => PossibleAges(c, p) # {} /\ \A age \in PossibleAges(c, p) : within(age, p)
               /\ p.student_only =>
                      c.doc = "college_id" /\ (c.valid_until # None => ~Before(c.valid_until, p.event))
               /\ BestName(visit.use, c) = "match"
<1>1. visit # None
  BY DEF Visited
<1>2. PassFields(visit.use).name # "none"
  BY <1>1, UseFacts, FieldsOfPass
<1> QED BY <1>2, VerifiedUse, EligibilityResult, IdentityResult

\* Nobody honest is rejected, with a card ...
LEMMA HonestAttempt ==
    ASSUME AttemptInv, Decided("not_eligible")
    PROVE  ~Honest(sub, policy)
<1>1. Ended /\ Evidence
  BY DEF AttemptInv, Decided, Fresh, AtWork, NoOutcome
<1>2. decide(results, policy.min_level).decision = "not_eligible"
  BY <1>1 DEF Ended, Decided
<1>3. PICK name \in DOMAIN results : results[name].codes \cap RejectCodes # {}
  BY <1>2, RejectedHasReason
<1> QED BY <1>1, <1>3 DEF Evidence, Judged

\* ... or with the pass it earned: only eligibility could, and on the dates of the card.
LEMMA HonestUse ==
    ASSUME PassInv, Visited("not_eligible"),
           visit.use.form_dob # None, OfAge(visit.use.form_dob, visit.policy),
           SignedAs(visit.use.form_dob)
    PROVE  FALSE
<1> DEFINE u == visit.use
           p == visit.policy
           c == PassFields(u)
           L == PassLedger(u, p)
<1>1. /\ pass \in PassClaims /\ p \in Policies /\ u \in Uses /\ pass # None
      /\ decide(L, p.min_level).decision = "not_eligible"
  BY UseFacts, EarnedPass DEF Visited
<1>2. PICK name \in DOMAIN L : L[name].codes \cap RejectCodes # {}
  BY <1>1, RejectedHasReason
<1>3. L["pass"] = check_pass(u, p) /\ Harmless(check_pass(u, p))
  BY <1>1, LedgerOfUse, CheckPassResult
<1>4. name # "pass"
  BY <1>2, <1>3 DEF Harmless
<1>5. /\ name \in {"identity", "eligibility"}
      /\ L["identity"] = identity(u, c) /\ L["eligibility"] = eligibility(u, c, p)
  BY <1>4, LedgerOfUse
<1>6. Harmless(identity(u, c))
  BY IdentityResult
<1>7. eligibility(u, c, p).codes \cap RejectCodes # {}
  BY <1>2, <1>5, <1>6 DEF Harmless
<1>8. dob_confirmed(u, c) /\ \E age \in PossibleAges(c, p) : ~within(age, p)
  BY <1>7, EligibilityResult
<1>9. c.source = "qr_signed" => c.dob = u.form_dob
  <2>1. SignedRight(sub, ctx)
    BY <1>1, EarnedPass DEF Evidence
  <2>2. c.dob = ctx.dob /\ (c.source = "qr_signed" <=> ctx.source = "qr_signed")
    BY <1>1, FieldsOfPass
  <2> QED BY <2>1, <2>2 DEF SignedRight, SignedAs
<1>10. \A age \in PossibleAges(c, p) : within(age, p)
  BY <1>8, <1>9, ConfirmedAge
<1> QED BY <1>8, <1>10

\* Nobody whose form and signed QR give one admissible date of birth is rejected
\* (eligibility.py:120, aadhaar_qr.py:90), in an attempt or when its pass is used.
THEOREM HonestStand == PassSpec => []HonestNeverRejected
<1>1. ASSUME PassInv PROVE HonestNeverRejected
  <2>1. Decided("not_eligible") =>
            ~(sub.form_dob # None /\ OfAge(sub.form_dob, policy) /\ SignedAs(sub.form_dob))
    BY <1>1, HonestAttempt DEF PassInv, Honest, SignedAs
  <2>2. Visited("not_eligible") =>
            ~(visit.use.form_dob # None /\ OfAge(visit.use.form_dob, visit.policy) /\ SignedAs(visit.use.form_dob))
    BY <1>1, HonestUse
  <2> QED BY <2>1, <2>2 DEF HonestNeverRejected
<1> QED BY <1>1, PassInvariant, PTL

\* Whoever is verified for an event with an age rule is of age on its day by every date
\* that the card leaves possible (eligibility.py:42), with the card or its pass.
THEOREM OfAgeWhenVerified == PassSpec => []VerifiedIsOfAge
<1>1. ASSUME PassInv PROVE VerifiedIsOfAge
  <2>1. ASSUME Decided("verified"), AgeRule(policy) PROVE AgeShown(policy)
    <3>1. AttemptInv /\ policy \in Policies
      BY <1>1 DEF PassInv, AttemptInv
    <3>2. PossibleAges(ctx, policy) # {} /\ \A age \in PossibleAges(ctx, policy) : within(age, policy)
      BY <2>1, <3>1, VerifiedFacts
    <3> QED BY <2>1, <3>1, <3>2, AgesShown
  <2>2. ASSUME Visited("verified"), AgeRule(visit.policy) PROVE AgeShown(visit.policy)
    <3> DEFINE p == visit.policy
               c == PassFields(visit.use)
    <3>1. pass # None /\ p \in Policies /\ visit.use \in Uses
      BY <1>1, <2>2, UseFacts DEF Visited
    <3>2. AttemptInv /\ Decided("verified")
      BY <1>1, <3>1, EarnedPass DEF PassInv
    <3>3. c.dob = ctx.dob /\ c.year = ctx.year
      BY <1>1, <3>1, FieldsOfPass
    <3>4. PossibleAges(c, p) # {} /\ \A age \in PossibleAges(c, p) : within(age, p)
      BY <1>1, <2>2, VerifiedUseFacts
    <3> HIDE DEF p, c
    <3>5. AgeShown(p)
      BY <3>1, <3>2, <3>3, <3>4, AgesShown
    <3> QED BY <3>5 DEF p
  <2> QED BY <2>1, <2>2 DEF VerifiedIsOfAge
<1> QED BY <1>1, PassInvariant, PTL

\* A day is not before another that is not before a third.
LEMMA BeforeOrder ==
    ASSUME NEW a \in Dates, NEW b \in Dates, NEW c \in Dates, ~Before(a, b), ~Before(b, c)
    PROVE  ~Before(a, c)
<1>1. /\ a.year \in Int /\ b.year \in Int /\ c.year \in Int
      /\ a.day \in Int /\ b.day \in Int /\ c.day \in Int
  BY DEF Dates
<1> QED BY <1>1 DEF Before

\* The end of a college ID bounds the pass earned with it (passes.py:56).
LEMMA ExpiresWithCard ==
    ASSUME NEW c \in Contexts, c.doc = "college_id", c.valid_until # None,
           NEW on \in Dates, ~Before(Expiry(c), on)
    PROVE  ~Before(c.valid_until, on)
<1> DEFINE year == [Today EXCEPT !.year = @ + YearsValid]
<1>1. c.valid_until \in Dates /\ year \in Dates
  BY EnvironmentAssumption, ValidityAssumption DEF Contexts, Dates
<1>2. Expiry(c) = IF Before(c.valid_until, year) THEN c.valid_until ELSE year
  BY DEF Expiry
<1> HIDE DEF year
<1>3. CASE Before(c.valid_until, year)
  BY <1>2, <1>3
<1>4. CASE ~Before(c.valid_until, year)
  <2>1. ~Before(year, on)
    BY <1>2, <1>4
  <2> QED BY <1>1, <1>4, <2>1, BeforeOrder
<1> QED BY <1>3, <1>4

\* Whoever is verified for an event for students showed a college ID that is not known
\* to end before its day (eligibility.py:103), and no pass made from it outlives it.
THEOREM StudentsWhenVerified == PassSpec => []StudentOnTheDay
<1>1. ASSUME PassInv PROVE StudentOnTheDay
  <2>1. ASSUME Decided("verified"), policy.student_only
        PROVE  sub.doc = "college_id" /\ (sub.valid_until # None => ~Before(sub.valid_until, policy.event))
    <3>1. AttemptInv
      BY <1>1 DEF PassInv
    <3> QED BY <2>1, <3>1, VerifiedFacts, VerifiedDates
  <2>2. ASSUME Visited("verified")
        PROVE  /\ pass # None /\ visit.use \in Uses /\ AttemptInv /\ Decided("verified") /\ ctx \in Contexts
               /\ pass.expires = Expiry(ctx)
    <3>1. pass # None /\ visit.use \in Uses /\ AttemptInv
      BY <1>1, <2>2, UseFacts DEF Visited, PassInv
    <3> QED BY <1>1, <3>1, EarnedPass DEF AttemptInv, Claims
  <2>3. ASSUME Visited("verified"), visit.policy.student_only
        PROVE  sub.doc = "college_id" /\ (sub.valid_until # None => ~Before(sub.valid_until, visit.policy.event))
    <3> DEFINE c == PassFields(visit.use)
    <3>1. c.doc = "college_id" /\ (c.valid_until # None => ~Before(c.valid_until, visit.policy.event))
      BY <1>1, <2>3, VerifiedUseFacts
    <3>2. ctx.doc = "college_id" /\ c.valid_until = ctx.valid_until
      BY <1>1, <2>2, <2>3, <3>1, FieldsOfPass
    <3> QED BY <2>2, <2>3, <3>1, <3>2, VerifiedDates
  <2>4. ASSUME Visited("verified"), sub.doc = "college_id", sub.valid_until # None
        PROVE  ~Before(sub.valid_until, visit.use.on)
    <3>1. ctx.doc = "college_id" /\ ctx.valid_until = sub.valid_until
      BY <2>2, <2>4, VerifiedDates
    <3>2. ~Before(pass.expires, visit.use.on)
      BY <1>1, <2>4, UseFacts, EarnedPass, VerifiedUse, CheckPassResult DEF Visited
    <3>3. visit.use.on \in Dates
      BY <2>2, <2>4, UsesAssumption DEF Use
    <3> QED BY <2>2, <2>4, <3>1, <3>2, <3>3, ExpiresWithCard
  <2> QED BY <2>1, <2>3, <2>4 DEF StudentOnTheDay
<1> QED BY <1>1, PassInvariant, PTL

\* A pass proves no more than the attempt that earned it (service.py:257, passes.py:56).
THEOREM PassIsNoMore == PassSpec => []PassAddsNothing
<1>1. ASSUME PassInv, visit # None
      PROVE  /\ visit.outcome.level <= outcome.level
             /\ Visited("verified") =>
                    /\ outcome.decision = "verified" /\ "duplicate_suspected" \notin outcome.flags
                    /\ outcome.level >= visit.policy.min_level
                    /\ visit.use.token = "good" /\ ~visit.use.revoked /\ visit.use.name = "match"
  <2>1. /\ pass # None /\ visit.policy \in Policies /\ visit.use \in Uses
        /\ visit.outcome = decide(PassLedger(visit.use, visit.policy), visit.policy.min_level)
    BY <1>1, UseFacts
  <2>2. /\ Decided("verified") /\ "duplicate_suspected" \notin outcome.flags
        /\ pass.level = outcome.level /\ pass \in PassClaims
    BY <1>1, <2>1, EarnedPass DEF Claims
  <2>3. visit.outcome.level \in {UNUSABLE, pass.level}
    BY <2>1, <2>2, LevelOfUse DEF decide
  <2>4. visit.outcome.level <= outcome.level
    BY <2>2, <2>3 DEF PassClaims, EvidenceLevels, UNUSABLE, PRESENT
  <2>5. ASSUME Visited("verified")
        PROVE  /\ outcome.level >= visit.policy.min_level
               /\ visit.use.token = "good" /\ ~visit.use.revoked /\ visit.use.name = "match"
    <3>1. check_pass(visit.use, visit.policy).status = "pass"
      BY <1>1, <2>5, VerifiedUse
    <3>2. /\ visit.use.token \notin {"forged", "other_account"} /\ ~visit.use.revoked
          /\ pass.level >= visit.policy.min_level
      BY <2>1, <2>2, <3>1, CheckPassResult
    <3>3. visit.use.token \in Tokens /\ visit.use.name \in Names
      BY <2>1, UsesAssumption DEF Use
    <3>4. PassFields(visit.use).qr = "none" /\ PassFields(visit.use).name = visit.use.name
      BY <1>1, <2>1, FieldsOfPass
    <3>5. visit.use.name = "match"
      BY <1>1, <2>5, <3>4, VerifiedUseFacts DEF BestName, Certified
    <3> QED BY <2>2, <3>2, <3>3, <3>5 DEF Tokens
  <2> QED BY <2>2, <2>4, <2>5 DEF Decided
<1>2. PassInv => PassAddsNothing
  BY <1>1 DEF PassAddsNothing
<1> QED BY <1>2, PassInvariant, PTL

------------------------------------------------------------------------------
(* What an attempt hands to the service *)

\* Inductive beside PassInv: a stage is only left with a usable image, and an attempt ends
\* with the quality check or with all nine.
HandInv ==
    /\ results = [name \in DOMAIN results |-> results[name]]
    /\ "duplicates" \in DOMAIN results => results["duplicates"] \in Known
    /\ stage > 1 => results["quality"].status # "fail"
    /\ stage = 0 /\ sub # None => UnusableImage(results) \/ DOMAIN results = Checks

LEMMA RaisedIsKnown == Raised \in Known
BY DEF Raised, Ran, result, Known

LEMMA QualityWasJudged ==
    ASSUME AtWork, stage > 1
    PROVE  "quality" \in DOMAIN results
<1>1. stage \in {2, 3, 4, 5}
  BY StageList DEF AtWork
<1> QED BY <1>1, EarlierList DEF AtWork

\* One more verdict leaves the others as they are.
LEMMA HandedOneMore ==
    ASSUME AttemptInv, HandInv, stage # 0, NEW check \in pending, NEW r,
           check = "duplicates" => r \in Known,
           results' = With(results, check, r), UNCHANGED <<stage, sub>>
    PROVE  HandInv'
<1>1. AtWork
  BY BusyIsAtWork
<1>2. /\ DOMAIN results' = DOMAIN results \cup {check} /\ results'[check] = r
      /\ \A name \in DOMAIN results : name # check => results'[name] = results[name]
      /\ results' = [name \in DOMAIN results' |-> results'[name]]
  BY DEF With
<1>3. check \notin DOMAIN results
  BY <1>1, Running
<1>4. "duplicates" \in DOMAIN results' => results'["duplicates"] \in Known
  BY <1>2 DEF HandInv
<1>5. stage' > 1 => results'["quality"].status # "fail"
  BY <1>1, <1>2, <1>3, QualityWasJudged DEF HandInv
<1> QED BY <1>2, <1>4, <1>5 DEF HandInv

LEMMA HandedRunCheck ==
    ASSUME AttemptInv, HandInv, NEW check \in Checks, RunCheck(check) \/ CheckRaises(check)
    PROVE  HandInv'
<1>1. stage # 0 /\ check \in pending
  BY StageList DEF RunCheck, CheckRaises, AttemptInv, Fresh, Ended, AtWork
<1>2. sub \in Submission
  BY <1>1, BusyIsAtWork
<1>3. UNCHANGED <<stage, sub>>
  BY DEF RunCheck, CheckRaises
<1>4. CASE RunCheck(check)
  <2>1. results' = With(results, check, ResultOf(check))
    BY <1>4 DEF RunCheck
  <2>2. check = "duplicates" => ResultOf(check) = sub.known
    BY DEF ResultOf
  <2>3. check = "duplicates" => ResultOf(check) \in Known
    BY <1>2, <2>2, SubmissionTypes
  <2> QED BY <1>1, <1>3, <2>1, <2>3, HandedOneMore
<1>5. CASE CheckRaises(check)
  <2>1. results' = With(results, check, Raised)
    BY <1>5 DEF CheckRaises
  <2> QED BY <1>1, <1>3, <2>1, RaisedIsKnown, HandedOneMore
<1> QED BY <1>4, <1>5

LEMMA HandedNextStage ==
    ASSUME AttemptInv, HandInv, NextStage
    PROVE  HandInv'
<1>1. /\ stage # 0 /\ ~StopsHere /\ pending = {} /\ stage' = stage + 1 /\ UNCHANGED <<sub, results>>
  BY DEF NextStage
<1>2. AtWork /\ stage \in 1 .. 5
  BY <1>1, BusyIsAtWork, StageList DEF AtWork
<1>3. "quality" \in DOMAIN results
  <2>1. stage = 1 => "quality" \in DOMAIN results
    BY <1>1, <1>2, StageList DEF AtWork
  <2> QED BY <1>2, <2>1, QualityWasJudged
<1>4. results["quality"].status # "fail"
  BY <1>1, <1>3 DEF StopsHere
<1> QED BY <1>1, <1>2, <1>4 DEF HandInv

LEMMA HandedDecide ==
    ASSUME AttemptInv, HandInv, Decide
    PROVE  HandInv'
<1>1. /\ stage # 0 /\ StopsHere /\ pending = {} /\ stage' = 0 /\ UNCHANGED <<sub, results>>
  BY DEF Decide
<1>2. AtWork /\ Evidence /\ sub \in Submission /\ stage \in 1 .. 5
  BY <1>1, BusyIsAtWork, StageList DEF AtWork
<1>3. CASE stage = 5
  <2>1. DOMAIN results = Checks
    BY <1>1, <1>2, <1>3, EarlierList DEF AtWork
  <2> QED BY <1>1, <2>1 DEF HandInv
<1>4. CASE stage # 5
  <2>1. "quality" \in DOMAIN results /\ results["quality"].status = "fail"
    BY <1>1, <1>4, StageList DEF StopsHere
  <2>2. stage = 1
    BY <1>2, <2>1 DEF HandInv
  <2>3. DOMAIN results = {"quality"}
    BY <1>1, <1>2, <2>2, StageList, EarlierList DEF AtWork
  <2>4. Judged("quality", results["quality"], sub, policy, Tries)
    BY <1>2, <2>1 DEF Evidence
  <2>5. results["quality"] = quality(sub) /\ results["quality"].grants = UNUSABLE
    BY <2>1, <2>4 DEF Judged, Sane
  <2>6. results["quality"].codes \in {{"IMAGE_UNREADABLE"}, {"IMAGE_BLURRY"}}
    <3>1. sub.image # "clear"
      BY <1>2, <2>1, <2>5, QualityResult
    <3> QED BY <2>5, <3>1 DEF quality, Ran, result
  <2>7. UnusableImage(results)
    BY <2>1, <2>3, <2>5, <2>6 DEF UnusableImage
  <2> QED BY <1>1, <2>7 DEF HandInv
<1> QED BY <1>3, <1>4

LEMMA HandedSubmit ==
    ASSUME HandInv, NEW s \in Submissions, Submit(s)
    PROVE  HandInv'
<1>1. results' = NoResults /\ stage' = 1
  BY DEF Submit
<1>2. DOMAIN NoResults = {} /\ NoResults = [name \in DOMAIN NoResults |-> NoResults[name]]
  BY DEF NoResults
<1> QED BY <1>1, <1>2 DEF HandInv

LEMMA HandedStart == ASSUME Init PROVE HandInv
<1>1. DOMAIN NoResults = {} /\ NoResults = [name \in DOMAIN NoResults |-> NoResults[name]]
  BY DEF NoResults
<1> QED BY <1>1 DEF Init, HandInv

LEMMA HandedSame ==
    ASSUME HandInv, UNCHANGED <<results, stage, sub>>
    PROVE  HandInv'
BY DEF HandInv, UnusableImage

LEMMA HandedStep ==
    ASSUME PassInv, HandInv, [PassNext]_passVars
    PROVE  HandInv'
<1>1. AttemptInv
  BY DEF PassInv
<1>2. CASE SubmitAgain
  BY <1>2, HandedSubmit DEF SubmitAgain
<1>3. CASE Continue
  <2>1. ASSUME LateQr PROVE HandInv'
    BY <2>1, HandedSame DEF LateQr
  <2> QED BY <1>1, <1>3, <2>1, HandedRunCheck, HandedNextStage DEF Continue, Working
<1>4. CASE DecideAndIssue
  BY <1>1, <1>4, HandedDecide DEF DecideAndIssue
<1>5. ASSUME NEW u \in Uses, NEW p \in Policies, UsePass(u, p) PROVE HandInv'
  BY <1>5, HandedSame DEF UsePass, vars
<1>6. CASE UNCHANGED passVars
  BY <1>6, HandedSame DEF passVars, vars
<1> QED BY <1>2, <1>3, <1>4, <1>5, <1>6 DEF PassNext

\* An attempt ends with a ledger the service takes (pipeline/service.py, verify_document):
\* of types that decide() expects, the quality check alone if it failed and otherwise all nine checks,
\* with a finding of the duplicates check among them; and that ledger is what was decided.
AttemptIsHandedOver ==
    stage = 0 /\ sub # None =>
        Handed(results) /\ outcome = decide(results, policy.min_level)

THEOREM AttemptsAreHandedOver == PassSpec => []AttemptIsHandedOver
<1>1. PassInit => HandInv
  BY HandedStart DEF PassInit
<1>2. PassInv /\ HandInv /\ [PassNext]_passVars => HandInv'
  BY HandedStep
<1>3. PassInv /\ HandInv => AttemptIsHandedOver
  <2> SUFFICES ASSUME PassInv, HandInv, stage = 0, sub # None
               PROVE  Handed(results) /\ outcome = decide(results, policy.min_level)
    BY DEF AttemptIsHandedOver
  <2>1. Ended /\ Evidence
    BY StageList DEF PassInv, AttemptInv, Fresh, AtWork
  <2>2. Ledger(results)
    BY <2>1, EvidenceLedger
  <2>3. ASSUME DOMAIN results = Checks PROVE Handed(results)
    <3>1. results["duplicates"] \in Known /\ "duplicates" \in DOMAIN results
      BY <2>3 DEF HandInv, Checks
    <3>2. results = With(results, "duplicates", results["duplicates"])
      <4>1. DOMAIN results \cup {"duplicates"} = DOMAIN results
        BY <3>1
      <4>2. results = [name \in DOMAIN results |-> results[name]]
        BY DEF HandInv
      <4> QED BY <4>1, <4>2 DEF With
    <3> QED BY <2>2, <3>1, <3>2 DEF Handed
  <2>4. UnusableImage(results) \/ DOMAIN results = Checks
    BY DEF HandInv
  <2>5. outcome = decide(results, policy.min_level)
    BY <2>1 DEF Ended
  <2> QED BY <2>2, <2>3, <2>4, <2>5 DEF Handed
<1> QED BY <1>1, <1>2, <1>3, PassInvariant, PTL DEF PassSpec

\* A use of a pass is decided on what the service takes for it (pipeline/service.py,
\* verify_pass): the pass check alone, or, when it accepts the pass for the level of the
\* attempt that earned it, beside typed results of the two others.
PassIsHandedOver ==
    visit # None =>
        \E check \in CheckResults : \E others :
            /\ Ledger(others)
            /\ IF check.status = "pass" THEN check = result("pass", {"PASS_ACCEPTED"}, outcome.level)
               ELSE check.grants = UNUSABLE /\ DOMAIN others = {}
            /\ visit.outcome = decide(With(others, "pass", check), visit.policy.min_level)

LEMMA PassCheckType ==
    ASSUME pass \in PassClaims, NEW u, NEW p
    PROVE  LET check == check_pass(u, p) IN
           /\ check \in CheckResults
           /\ IF check.status = "pass" THEN check = result("pass", {"PASS_ACCEPTED"}, pass.level)
              ELSE check.grants = UNUSABLE
<1>1. { "PASS_NOT_ACCEPTED", "PASS_INVALID", "PASS_SUBJECT_MISMATCH", "PASS_EXPIRED", "PASS_REVOKED",
        "PASS_LEVEL_TOO_LOW", "PASS_ACCEPTED" } \subseteq Codes
  BY ActionFindings, ReviewFindings, MildFindings DEF Codes
<1>2. {"pass", "warn", "fail"} \subseteq CheckStatuses
  BY DEF CheckStatuses
<1>3. pass.level \in EvidenceLevels
  BY DEF PassClaims
<1>4. check_pass(u, p) \in CheckResults
  BY <1>1, <1>2, <1>3, ResultType, NoLevel DEF check_pass, Ran
<1> QED BY <1>4 DEF check_pass, Ran, result

LEMMA UsedLedger ==
    ASSUME pass \in PassClaims, NEW u, NEW p
    PROVE  \E check \in CheckResults : \E others :
               /\ Ledger(others)
               /\ IF check.status = "pass" THEN check = result("pass", {"PASS_ACCEPTED"}, pass.level)
                  ELSE check.grants = UNUSABLE /\ DOMAIN others = {}
               /\ PassLedger(u, p) = With(others, "pass", check)
<1> DEFINE first == check_pass(u, p)
           id    == identity(u, PassFields(u))
           el    == eligibility(u, PassFields(u), p)
<1>1. /\ first \in CheckResults
      /\ IF first.status = "pass" THEN first = result("pass", {"PASS_ACCEPTED"}, pass.level)
         ELSE first.grants = UNUSABLE
  BY PassCheckType
<1>2. id \in CheckResults /\ el \in CheckResults
  BY IdentityResult, EligibilityResult DEF Sane
<1>3. Ledger(NoResults) /\ DOMAIN NoResults = {}
  BY DEF Ledger, NoResults
<1> HIDE DEF first, id, el
<1>4. CASE first.status # "pass"
  <2>1. PassLedger(u, p) = With(NoResults, "pass", first)
    BY <1>4 DEF PassLedger, first
  <2> QED BY <1>1, <1>3, <2>1
<1>5. CASE first.status = "pass"
  <2> DEFINE others == With(With(NoResults, "identity", id), "eligibility", el)
  <2>1. PassLedger(u, p) = With(With(With(NoResults, "pass", first), "identity", id), "eligibility", el)
    BY <1>5 DEF PassLedger, first, id, el
  <2>2. Ledger(others)
    BY <1>2, <1>3, WithLedger
  <2>3. With(With(With(NoResults, "pass", first), "identity", id), "eligibility", el)
            = With(others, "pass", first)
    BY <1>3 DEF With
  <2> QED BY <1>1, <1>5, <2>1, <2>2, <2>3
<1> QED BY <1>4, <1>5

THEOREM PassesAreHandedOver == PassSpec => []PassIsHandedOver
<1>1. PassInv => PassIsHandedOver
  <2> SUFFICES ASSUME PassInv, visit # None PROVE PassIsHandedOver
    BY DEF PassIsHandedOver
  <2>1. pass \in PassClaims
    BY PassTyped DEF PassTypeOK, PassInv
  <2>2. visit.outcome = decide(PassLedger(visit.use, visit.policy), visit.policy.min_level)
    BY DEF PassInv
  <2>3. pass.level = outcome.level
    BY DEF PassInv, Claims
  <2> QED BY <2>1, <2>2, <2>3, UsedLedger DEF PassIsHandedOver
<1> QED BY <1>1, PassInvariant, PTL
==============================================================================
