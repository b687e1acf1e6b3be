------------------------------ MODULE Decision -------------------------------
(***************************************************************************)
(* The decision engine (domain/decision.py): a pure function from the      *)
(* evidence ledger of one verification and the event's minimum level to a  *)
(* decision.  A ledger is a function from the names of the checks that ran *)
(* to their results; a result is a status, a set of reason codes and the   *)
(* level the check grants (UNUSABLE when its details hold no grants_level).*)
(* The confidence number is left out.                                      *)
(***************************************************************************)
EXTENDS Catalog, Integers, FiniteSetsExt

Decisions == {"verified", "needs_review", "action_required", "not_eligible"}
CheckStatuses == {"pass", "warn", "fail", "skipped", "error"}

UNUSABLE   == 0
READ       == 1
CONSISTENT == 2
PROVEN     == 3
PRESENT    == 4
EvidenceLevels == UNUSABLE .. PRESENT

CheckResults == [status : CheckStatuses, codes : SUBSET Codes, grants : EvidenceLevels]

\* What the duplicates check may find: it rejects nobody, asks for nothing and proves nothing.
Known == [ status : {"pass", "warn", "error"}, grants : {UNUSABLE},
           codes : SUBSET (DuplicateCodes \cup {"DUPLICATE_INDEX_UNAVAILABLE", "SAME_PERSON_KNOWN"}) ]

result(status, codes, grants) == [status |-> status, codes |-> codes, grants |-> grants]

\* A ledger completed with the result of one more check.
With(ledger, check, res) ==
    [ name \in DOMAIN ledger \cup {check} |-> IF name = check THEN res ELSE ledger[name] ]

\* LEVEL_REQUIREMENTS: the checks that must PASS for each level from READ up to be reached.
LevelRequirements ==
    << {"extract"}, {"document_rules", "identity", "duplicates"}, {"aadhaar_qr"}, {"selfie"} >>

passed(results, name) == name \in DOMAIN results /\ results[name].status = "pass"

\* The loop over LEVEL_REQUIREMENTS stops at the first level not reached.
ReachedLevels(results) ==
    { level \in READ .. PRESENT :
        \A below \in READ .. level :
            \A name \in LevelRequirements[below] : passed(results, name) }

\* Evidence that arrives already proven counts only beside a passed identity check.
GrantedLevels(results) ==
    IF passed(results, "identity")
    THEN { results[name].grants : name \in { n \in DOMAIN results : passed(results, n) } }
    ELSE {}

evidence_level(results) ==
    IF "quality" \in DOMAIN results /\ results["quality"].status = "fail"
    THEN UNUSABLE
    ELSE Max({UNUSABLE} \cup ReachedLevels(results) \cup GrantedLevels(results))

collect_reasons(results) ==
    (UNION { results[name].codes : name \in DOMAIN results })
      \cup IF \E name \in DOMAIN results : results[name].status = "error"
           THEN {"CHECK_ERROR"} ELSE {}

Blocking(codes, effect) == \E code \in codes : Effect(code) = effect

Reasons(results, minLevel) ==
    LET collected == collect_reasons(results)
        tooLow == /\ evidence_level(results) < minLevel
                  /\ ~ Blocking(collected, "reject")
                  /\ ~ Blocking(collected, "action")
    IN  collected \cup IF tooLow THEN {"LEVEL_BELOW_EVENT_MINIMUM"} ELSE {}

DecisionFor(codes) ==
    IF Blocking(codes, "reject") THEN "not_eligible"
    ELSE IF Blocking(codes, "action") THEN "action_required"
    ELSE IF Blocking(codes, "review") THEN "needs_review"
    ELSE "verified"

\* What the participant is asked to do: nothing when the decision is a rejection.
ActionsFor(codes) == IF Blocking(codes, "reject") THEN {} ELSE codes \cap ActionCodes

decide(results, minLevel) ==
    LET codes == Reasons(results, minLevel)
    IN  [ decision |-> DecisionFor(codes),
          level    |-> evidence_level(results),
          reasons  |-> codes,
          actions  |-> ActionsFor(codes),
          flags    |-> Flagged(codes) ]
==============================================================================
