--------------------------- MODULE Decision_proofs ---------------------------
(***************************************************************************)
(* Facts about the decision engine that hold for every ledger and every    *)
(* minimum level, cited by the proofs about the ways into it.              *)
(***************************************************************************)
EXTENDS Decision, TLAPS

Ledger(results) == \A name \in DOMAIN results : results[name] \in CheckResults

\* The quality check alone, and it failed: the image is unreadable or has a defect.
UnusableImage(results) ==
    /\ DOMAIN results = {"quality"}
    /\ results["quality"].status = "fail" /\ results["quality"].grants = UNUSABLE
    /\ results["quality"].codes \in {{"IMAGE_UNREADABLE"}, {"IMAGE_BLURRY"}}

\* What the document path hands to _finalise (pipeline/service.py): an unusable image, or
\* what the other checks found together with a finding of the duplicates check.
Handed(results) ==
    /\ Ledger(results)
    /\ \/ UnusableImage(results)
       \/ \E others, finding : /\ Ledger(others) /\ finding \in Known
                              /\ results = With(others, "duplicates", finding)

\* The largest of a set of levels exists.
LEMMA MaxLevel ==
    ASSUME NEW S \in SUBSET EvidenceLevels, UNUSABLE \in S
    PROVE  Max(S) \in S /\ \A l \in S : l <= Max(S)
<1> DEFINE Greatest(x) == x \in S /\ \A y \in S : x >= y
<1>1. \E x \in S : \A y \in S : x >= y
  <2>1. CASE 4 \in S  BY <2>1 DEF EvidenceLevels, UNUSABLE, PRESENT
  <2>2. CASE 4 \notin S /\ 3 \in S  BY <2>2 DEF EvidenceLevels, UNUSABLE, PRESENT
  <2>3. CASE 4 \notin S /\ 3 \notin S /\ 2 \in S  BY <2>3 DEF EvidenceLevels, UNUSABLE, PRESENT
  <2>4. CASE 4 \notin S /\ 3 \notin S /\ 2 \notin S /\ 1 \in S
    BY <2>4 DEF EvidenceLevels, UNUSABLE, PRESENT
  <2>5. CASE 4 \notin S /\ 3 \notin S /\ 2 \notin S /\ 1 \notin S
    BY <2>5 DEF EvidenceLevels, UNUSABLE, PRESENT
  <2> QED BY <2>1, <2>2, <2>3, <2>4, <2>5
<1>2. Max(S) \in S /\ \A y \in S : Max(S) >= y
  BY <1>1 DEF Max
<1> QED BY <1>2 DEF EvidenceLevels, UNUSABLE, PRESENT

LEMMA LevelType ==
    ASSUME NEW results, Ledger(results)
    PROVE  evidence_level(results) \in EvidenceLevels
<1> DEFINE S == {UNUSABLE} \cup ReachedLevels(results) \cup GrantedLevels(results)
<1>1. ReachedLevels(results) \subseteq EvidenceLevels
  BY DEF ReachedLevels, EvidenceLevels, READ, UNUSABLE, PRESENT
<1>2. GrantedLevels(results) \subseteq EvidenceLevels
  BY DEF GrantedLevels, Ledger, CheckResults
<1>3. S \in SUBSET EvidenceLevels /\ UNUSABLE \in S
  BY <1>1, <1>2 DEF EvidenceLevels, UNUSABLE, PRESENT
<1>4. Max(S) \in EvidenceLevels
  BY <1>3, MaxLevel
<1> QED BY <1>4 DEF evidence_level, EvidenceLevels, UNUSABLE, PRESENT

\* A VERIFIED outcome has the minimum level and no reason that blocks it.
LEMMA VerifiedMeansClear ==
    ASSUME NEW codes, DecisionFor(codes) = "verified"
    PROVE  /\ ~Blocking(codes, "reject")
           /\ ~Blocking(codes, "action")
           /\ ~Blocking(codes, "review")
BY DEF DecisionFor

LEMMA DecisionType ==
    ASSUME NEW codes
    PROVE  DecisionFor(codes) \in Decisions
BY DEF DecisionFor, Decisions

\* Suspicion of a duplicate, or too little evidence, is a reason for review.
LEMMA ReviewEffect ==
    ASSUME NEW code \in DuplicateCodes \cup {"LEVEL_BELOW_EVENT_MINIMUM"}
    PROVE  Effect(code) = "review"
<1>1. code \in ReviewCodes
  BY DEF ReviewCodes
<1>2. code \notin RejectCodes
  BY DEF DuplicateCodes, RejectCodes
<1>3. code \notin RetakeIdCodes
  BY DEF DuplicateCodes, RetakeIdCodes
<1>4. code \notin RetakeSelfieCodes \cup UploadCodes
  BY DEF DuplicateCodes, RetakeSelfieCodes, UploadCodes
<1> QED BY <1>1, <1>2, <1>3, <1>4 DEF Effect, ActionCodes

LEMMA WithLedger ==
    ASSUME NEW ledger, Ledger(ledger), NEW check, NEW res \in CheckResults
    PROVE  Ledger(With(ledger, check, res))
BY DEF Ledger, With

\* A result built from known codes is a check result.
LEMMA ResultType ==
    ASSUME NEW status \in CheckStatuses, NEW codes \in SUBSET Codes, NEW grants \in EvidenceLevels
    PROVE  result(status, codes, grants) \in CheckResults
BY DEF result, CheckResults

LEMMA NoLevel == UNUSABLE \in EvidenceLevels
BY DEF UNUSABLE, EvidenceLevels, PRESENT

\* The reasons of a decision contain what every check of the ledger found.
LEMMA FoundIsReason ==
    ASSUME NEW results, NEW minLevel, NEW name \in DOMAIN results
    PROVE  results[name].codes \subseteq decide(results, minLevel).reasons
<1>1. results[name].codes \subseteq collect_reasons(results)
  BY DEF collect_reasons
<1>2. collect_reasons(results) \subseteq Reasons(results, minLevel)
  BY DEF Reasons
<1> QED BY <1>1, <1>2 DEF decide

\* A VERIFIED outcome has no reason that rejects, asks for an action or asks for a review.
LEMMA VerifiedHasNoBlocker ==
    ASSUME NEW results, NEW minLevel, decide(results, minLevel).decision = "verified",
           NEW code \in decide(results, minLevel).reasons
    PROVE  code \notin RejectCodes \cup ActionCodes \cup ReviewCodes
<1>1. DecisionFor(Reasons(results, minLevel)) = "verified" /\ code \in Reasons(results, minLevel)
  BY DEF decide
<1>2. Effect(code) # "reject" /\ Effect(code) # "action" /\ Effect(code) # "review"
  BY <1>1, VerifiedMeansClear DEF Blocking
<1> QED BY <1>2 DEF Effect

\* A rejection has a reason that rejects, found by some check.
LEMMA RejectedHasReason ==
    ASSUME NEW results, NEW minLevel, decide(results, minLevel).decision = "not_eligible"
    PROVE  \E name \in DOMAIN results : results[name].codes \cap RejectCodes # {}
<1>1. Blocking(Reasons(results, minLevel), "reject")
  BY DEF decide, DecisionFor
<1>2. PICK code \in Reasons(results, minLevel) : Effect(code) = "reject"
  BY <1>1 DEF Blocking
<1>3. code \in RejectCodes
  BY <1>2 DEF Effect
<1>4. code # "LEVEL_BELOW_EVENT_MINIMUM" /\ code # "CHECK_ERROR"
  BY <1>3 DEF RejectCodes
<1>5. code \in collect_reasons(results)
  BY <1>2, <1>4 DEF Reasons
<1>6. code \in UNION { results[name].codes : name \in DOMAIN results }
  BY <1>4, <1>5 DEF collect_reasons
<1>7. PICK name \in DOMAIN results : code \in results[name].codes
  BY <1>6
<1> QED BY <1>3, <1>7

------------------------------------------------------------------------------
(* An unusable image *)

\* An unusable image asks for a retake, proves nothing and raises no flag, whatever its
\* defect and whatever the event's minimum (decision.py:26): one defect stands for all.
LEMMA UnusableAsksForRetake ==
    ASSUME NEW results, UnusableImage(results), NEW minLevel
    PROVE  LET outcome == decide(results, minLevel) IN
           /\ outcome.decision = "action_required"
           /\ outcome.level = UNUSABLE
           /\ outcome.flags = {}
<1> DEFINE codes == results["quality"].codes
<1>1. /\ DOMAIN results = {"quality"} /\ results["quality"].status = "fail"
      /\ codes \in {{"IMAGE_UNREADABLE"}, {"IMAGE_BLURRY"}}
  BY DEF UnusableImage
<1>2. \A code \in codes : Effect(code) = "action"
  <2>1. {"IMAGE_UNREADABLE", "IMAGE_BLURRY"} \subseteq ActionCodes
    BY DEF ActionCodes, RetakeIdCodes
  <2>2. {"IMAGE_UNREADABLE", "IMAGE_BLURRY"} \cap RejectCodes = {}
    BY DEF RejectCodes
  <2> QED BY <1>1, <2>1, <2>2 DEF Effect
<1>3. collect_reasons(results) = codes
  BY <1>1 DEF collect_reasons
<1>4. Blocking(codes, "action") /\ ~Blocking(codes, "reject")
  BY <1>1, <1>2 DEF Blocking
<1>5. Reasons(results, minLevel) = codes
  BY <1>3, <1>4 DEF Reasons
<1>6. DecisionFor(codes) = "action_required"
  BY <1>4 DEF DecisionFor
<1>7. evidence_level(results) = UNUSABLE
  BY <1>1 DEF evidence_level
<1>8. Flagged(codes) = {}
  <2>1. codes \cap DuplicateCodes = {} /\ "MINOR_GUARDIAN_CONSENT" \notin codes
    BY <1>1 DEF DuplicateCodes
  <2> QED BY <2>1 DEF Flagged
<1> HIDE DEF codes
<1> QED BY <1>5, <1>6, <1>7, <1>8 DEF decide
==============================================================================
