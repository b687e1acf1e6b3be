--------------------- MODULE VerificationService_proofs ----------------------
(***************************************************************************)
(* Theorems about VerificationService, for any set of calls and any        *)
(* ledgers the checks may produce: first the inductive invariant and what  *)
(* a step may do to a row (RowStep), a pass (PassStep), an image           *)
(* (BlobsStep) and the indexes (IndexStep).  Then the safety properties:   *)
(* each follows from those, strengthened by what the handler in progress   *)
(* still owes: the rest of a save or an erasure (Fresh, Erasing), a        *)
(* webhook or an audit entry (OwesHook, OwesCreated, ...), the conflicts   *)
(* it has not flagged yet (Marked).  Then the refinement: the service      *)
(* implements DecisionRecord, step by step.                                *)
(***************************************************************************)
EXTENDS VerificationService, Decision_proofs, FiniteSetTheorems

\* The row of an outcome is well typed, fresh, and VERIFIED only when earned.
LEMMA OutcomeRow ==
    ASSUME NEW results, Ledger(results), NEW minLevel \in EvidenceLevels
    PROVE  LET row == RowFor(decide(results, minLevel)) IN
           /\ row \in Row
           /\ row.decision \in Decisions /\ row.decision = row.automated
           /\ row.review = "none" /\ ~row.flagged /\ ~row.erased
           /\ row.decision = "verified" => row.level >= minLevel /\ ~row.duplicate
<1> DEFINE codes == Reasons(results, minLevel)
           row   == RowFor(decide(results, minLevel))
<1>1. evidence_level(results) \in EvidenceLevels
  BY LevelType
<1>2. DecisionFor(codes) \in Decisions
  BY DecisionType
<1>3. row = [NoRow EXCEPT !.decision = DecisionFor(codes), !.automated = DecisionFor(codes),
                          !.level = evidence_level(results),
                          !.duplicate = "duplicate_suspected" \in Flagged(codes)]
  BY DEF RowFor, decide
<1>4. /\ row.decision = DecisionFor(codes) /\ row.automated = DecisionFor(codes)
      /\ row.level = evidence_level(results)
      /\ row.duplicate = ("duplicate_suspected" \in Flagged(codes))
      /\ row.review = "none" /\ row.flagged = FALSE /\ row.erased = FALSE
  BY <1>3 DEF NoRow
<1>5. row \in Row
  <2>1. row = [ decision |-> row.decision, automated |-> row.automated, level |-> row.level,
                duplicate |-> row.duplicate, flagged |-> row.flagged, review |-> row.review,
                erased |-> row.erased ]
    BY <1>3 DEF NoRow
  <2>2. row.duplicate \in BOOLEAN
    BY <1>4
  <2> HIDE DEF row
  <2> QED BY <2>1, <2>2, <1>1, <1>2, <1>4 DEF Row
<1>6. ASSUME DecisionFor(codes) = "verified"
      PROVE  evidence_level(results) >= minLevel /\ "duplicate_suspected" \notin Flagged(codes)
  <2>1. ~Blocking(codes, "reject") /\ ~Blocking(codes, "action") /\ ~Blocking(codes, "review")
    BY <1>6, VerifiedMeansClear
  <2>2. "LEVEL_BELOW_EVENT_MINIMUM" \notin codes
    BY <2>1, ReviewEffect DEF Blocking
  <2>3. codes \cap DuplicateCodes = {}
    BY <2>1, ReviewEffect DEF Blocking
  <2>4. collect_reasons(results) \subseteq codes
    BY DEF Reasons
  <2>5. ~Blocking(collect_reasons(results), "reject") /\ ~Blocking(collect_reasons(results), "action")
    BY <2>1, <2>4 DEF Blocking
  <2>6. ~(evidence_level(results) < minLevel)
    BY <2>2, <2>5 DEF Reasons
  <2>7. evidence_level(results) >= minLevel
    BY <2>6, <1>1 DEF EvidenceLevels, UNUSABLE, PRESENT
  <2>8. "duplicate_suspected" \notin Flagged(codes)
    BY <2>3 DEF Flagged
  <2> QED BY <2>7, <2>8
<1> QED BY <1>2, <1>4, <1>5, <1>6

------------------------------------------------------------------------------
(* The ledgers a handler decides on *)

LEMMA CodesKnown ==
    /\ DuplicateCodes \subseteq Codes
    /\ {"SAME_PERSON_KNOWN", "DUPLICATE_INDEX_UNAVAILABLE", "IMAGE_BLURRY",
        "PASS_NOT_ACCEPTED", "PASS_INVALID", "PASS_SUBJECT_MISMATCH", "PASS_EXPIRED",
        "PASS_REVOKED", "PASS_LEVEL_TOO_LOW", "PASS_ACCEPTED"} \subseteq Codes
<1>1. DuplicateCodes \subseteq Codes
  BY DEF Codes, ReviewCodes
<1>2. "SAME_PERSON_KNOWN" \in Codes /\ "PASS_ACCEPTED" \in Codes
  BY DEF Codes, InfoCodes
<1>3. {"DUPLICATE_INDEX_UNAVAILABLE", "PASS_REVOKED", "PASS_SUBJECT_MISMATCH"} \subseteq Codes
  BY DEF Codes, ReviewCodes
<1>4. {"IMAGE_BLURRY", "PASS_NOT_ACCEPTED", "PASS_INVALID", "PASS_EXPIRED",
       "PASS_LEVEL_TOO_LOW"} \subseteq Codes
  BY DEF Codes, ActionCodes, RetakeIdCodes
<1> QED BY <1>1, <1>2, <1>3, <1>4

LEMMA DuplicatesType ==
    ASSUME NEW c \in Calls
    PROVE  DuplicatesResult(c) \in CheckResults
<1>1. DuplicateFindings(c) \in SUBSET Codes
  BY CodesKnown DEF DuplicateFindings
<1>2. {"SAME_PERSON_KNOWN"} \in SUBSET Codes /\ {} \in SUBSET Codes
  BY CodesKnown
<1>3. "warn" \in CheckStatuses /\ "pass" \in CheckStatuses
  BY DEF CheckStatuses
<1> QED BY <1>1, <1>2, <1>3, ResultType, NoLevel DEF DuplicatesResult

LEMMA DocumentLedger ==
    ASSUME TypeOK, NEW c \in Documents, NEW results \in DocumentResults(c)
    PROVE  Ledger(results)
<1>1. c \in Calls
  BY DEF Calls
<1>2. CASE evidence[c].duplicates.status = "skipped"
  <2>1. results = Unusable
    BY <1>2 DEF DocumentResults
  <2>2. result("fail", {"IMAGE_BLURRY"}, UNUSABLE) \in CheckResults
    <3>1. "fail" \in CheckStatuses /\ {"IMAGE_BLURRY"} \in SUBSET Codes
      BY CodesKnown DEF CheckStatuses
    <3> QED BY <3>1, ResultType, NoLevel
  <2> QED BY <2>1, <2>2 DEF Unusable, Ledger
<1>3. CASE evidence[c].duplicates.status # "skipped"
  <2>1. PICK ledger \in Ledgers[c] : results = With(ledger, "duplicates", evidence[c].duplicates)
    BY <1>3 DEF DocumentResults
  <2>2. Ledger(ledger)
    BY <1>1, LedgersAssumption DEF Ledger
  <2>3. evidence[c].duplicates \in CheckResults
    BY <1>1 DEF TypeOK
  <2> QED BY <2>1, <2>2, <2>3, WithLedger
<1> QED BY <1>2, <1>3

LEMMA PassLedger ==
    ASSUME TypeOK, NEW c \in PassCalls, NEW token \in Tokens, NEW ledger \in Ledgers[c]
    PROVE  LET check == PassResults(c, Request[c].pass, token)
               others == IF check.status = "pass" THEN ledger ELSE <<>>
           IN  Ledger(With(others, "pass", check))
<1> DEFINE check == PassResults(c, Request[c].pass, token)
           others == IF check.status = "pass" THEN ledger ELSE <<>>
<1>1. c \in Calls /\ Request[c].pass \in Calls
  BY RequestAssumption DEF Calls
<1>2. rows[Request[c].pass].level \in EvidenceLevels
  BY <1>1 DEF TypeOK, Row
<1>3. check \in CheckResults
  <2>1. {"fail", "warn", "pass"} \subseteq CheckStatuses
    BY DEF CheckStatuses
  <2> QED BY <1>2, <2>1, CodesKnown, ResultType, NoLevel DEF PassResults
<1>4. Ledger(ledger) /\ Ledger(<<>>)
  BY <1>1, LedgersAssumption DEF Ledger
<1>5. Ledger(others)
  BY <1>4
<1> HIDE DEF check, others
<1>6. Ledger(With(others, "pass", check))
  BY <1>3, <1>5, WithLedger
<1> QED BY <1>6 DEF check, others

------------------------------------------------------------------------------
(* The invariant *)

\* A handler works on a verification that has its row.
LoopRows ==
    /\ loop.step # "idle" => Exists(loop.call)
    /\ loop.step \in {"revoke", "report"} => Exists(loop.other)

\* A call that has not been decided yet has no row.
NotYetRow ==
    \A c \in Calls : phase[c] \in {"new", "queued", "checking", "checked"} => ~Exists(c)

\* A verification without a row has no pass.
PassHasRow == \A v \in Calls : ~Exists(v) => passes[v] = "none"

Inv == TypeOK /\ LoopRows /\ NotYetRow /\ PassHasRow

\* What decide() may put into a new row.
NewRow(row, minLevel) ==
    /\ row \in Row
    /\ row.decision \in Decisions /\ row.decision = row.automated
    /\ row.review = "none" /\ ~row.flagged /\ ~row.erased
    /\ row.decision = "verified" => row.level >= minLevel /\ ~row.duplicate

Inserted(c) ==
    \E row \in Row :
        NewRow(row, Request[c].policy.min) /\ rows' = [rows EXCEPT ![c] = row]

\* Deciding a document inserts a new row.
LEMMA DocumentInserts ==
    ASSUME TypeOK, NEW c \in Documents, FinaliseDocument(c)
    PROVE  Inserted(c)
<1>1. Request[c].policy.min \in EvidenceLevels
  BY RequestAssumption DEF Calls, Policies
<1>2. PICK results \in DocumentResults(c) :
          rows' = [rows EXCEPT ![c] = RowFor(decide(results, Request[c].policy.min))]
  BY DEF FinaliseDocument
<1>3. NewRow(RowFor(decide(results, Request[c].policy.min)), Request[c].policy.min)
  BY <1>1, DocumentLedger, OutcomeRow DEF NewRow
<1> QED BY <1>2, <1>3 DEF Inserted, NewRow

\* Verifying with a pass inserts a new row, unless the key answers with an old one.
LEMMA PassInserts ==
    ASSUME TypeOK, NEW c \in PassCalls, VerifyWithPass(c), ~KeyTaken(c)
    PROVE  Inserted(c)
<1>1. Request[c].policy.min \in EvidenceLevels
  BY RequestAssumption DEF Calls, Policies
<1>2. PICK token \in Tokens, ledger \in Ledgers[c] :
          LET check == PassResults(c, Request[c].pass, token)
              others == IF check.status = "pass" THEN ledger ELSE <<>>
          IN rows' = [rows EXCEPT ![c] =
                         RowFor(decide(With(others, "pass", check), Request[c].policy.min))]
  BY DEF VerifyWithPass
<1> DEFINE check == PassResults(c, Request[c].pass, token)
           others == IF check.status = "pass" THEN ledger ELSE <<>>
           row == RowFor(decide(With(others, "pass", check), Request[c].policy.min))
<1>3. Ledger(With(others, "pass", check))
  BY PassLedger
<1>4. NewRow(row, Request[c].policy.min)
  BY <1>1, <1>3, OutcomeRow DEF NewRow
<1> QED BY <1>2, <1>4 DEF Inserted, NewRow

------------------------------------------------------------------------------
(* Type correctness *)

\* The updates of a row keep its type.
LEMMA RowUpdates ==
    ASSUME NEW row \in Row
    PROVE  /\ FlaggedRow(row) \in Row
           /\ [row EXCEPT !.erased = TRUE] \in Row
           /\ \A action \in ReviewActions :
                 [row EXCEPT !.review = action, !.decision = ReviewDecisions[action]] \in Row
<1>1. FlaggedRow(row) \in Row
  <2>1. "needs_review" \in Decisions \cup {"none"}
    BY DEF Decisions
  <2> QED BY <2>1 DEF FlaggedRow, Row
<1>2. [row EXCEPT !.erased = TRUE] \in Row
  BY DEF Row
<1>3. ASSUME NEW action \in ReviewActions
      PROVE  [row EXCEPT !.review = action, !.decision = ReviewDecisions[action]] \in Row
  <2>1. ReviewDecisions[action] \in Decisions \cup {"none"}
    BY DEF ReviewActions, ReviewDecisions, Decisions
  <2>2. action \in ReviewActions \cup {"none"}
    OBVIOUS
  <2> QED BY <2>1, <2>2 DEF Row
<1> QED BY <1>1, <1>2, <1>3

\* The state before any call is well typed.
LEMMA TypeInit == Init => TypeOK
<1> SUFFICES ASSUME Init PROVE TypeOK
  OBVIOUS
<1>1. NoRow \in Row
  BY NoLevel DEF NoRow, Row
<1>2. NotRun \in CheckResults
  <2>1. "skipped" \in CheckStatuses
    BY DEF CheckStatuses
  <2> QED BY <2>1, ResultType, NoLevel DEF NotRun
<1> QED BY <1>1, <1>2, SettingsAssumption
       DEF Init, TypeOK, LoopOK, Phases, ClientStates, PassStates, Idle, Steps

\* Every step of a document's submission keeps the types.
LEMMA TypeDocument ==
    ASSUME TypeOK, NEW c \in Documents, DocumentStep(c)
    PROVE  TypeOK'
<1> USE DEF store, LoopOK
<1>0. c \in Calls
  BY DEF Calls
<1>1. CASE Submit(c)
  BY <1>0, <1>1 DEF TypeOK, Submit, Phases, InFlight, ClientStates
<1>2. CASE SyncTimeout(c)
  BY <1>0, <1>2 DEF TypeOK, SyncTimeout, ClientStates
<1>3. CASE Start(c)
  BY <1>0, <1>3 DEF TypeOK, Start, Phases, InFlight
<1>4. CASE ReadIndex(c)
  <2>1. DuplicatesResult(c) \in CheckResults
    BY <1>0, DuplicatesType
  <2>2. result("error", {"DUPLICATE_INDEX_UNAVAILABLE"}, UNUSABLE) \in CheckResults
    <3>1. "error" \in CheckStatuses /\ {"DUPLICATE_INDEX_UNAVAILABLE"} \in SUBSET Codes
      BY CodesKnown DEF CheckStatuses
    <3> QED BY <3>1, ResultType, NoLevel
  <2>3. IdConflicts(c) \cup ImageConflicts(c) \cup FaceConflicts(c) \in SUBSET Calls
    BY DEF TypeOK, IdConflicts, ImageConflicts, FaceConflicts
  <2>4. evidence' \in [Calls -> [duplicates : CheckResults, conflicts : SUBSET Calls]]
    <3>1. CASE evidence' = [evidence EXCEPT ![c] =
                  [ duplicates |-> DuplicatesResult(c),
                    conflicts  |-> IdConflicts(c) \cup ImageConflicts(c) \cup FaceConflicts(c) ]]
      BY <1>0, <2>1, <2>3, <3>1 DEF TypeOK
    <3>2. CASE evidence' = [evidence EXCEPT ![c].duplicates =
                  result("error", {"DUPLICATE_INDEX_UNAVAILABLE"}, UNUSABLE)]
      BY <1>0, <2>2, <3>2 DEF TypeOK
    <3> QED BY <1>4, <3>1, <3>2 DEF ReadIndex
  <2> QED BY <1>0, <1>4, <2>4 DEF ReadIndex, TypeOK, Phases, InFlight
<1>5. CASE StopAtQuality(c)
  BY <1>0, <1>5 DEF TypeOK, StopAtQuality, Phases, InFlight
<1>6. CASE FinaliseDocument(c)
  <2>1. rows' \in [Calls -> Row]
    BY <1>6, DocumentInserts DEF Inserted, TypeOK
  <2>2. evidence[c].conflicts \in SUBSET Calls
    BY <1>0 DEF TypeOK
  <2> QED BY <1>0, <1>6, <2>1, <2>2
       DEF FinaliseDocument, TypeOK, Phases, InFlight, Steps, FinaliseSteps
<1>7. CASE FinaliseRejected(c)
  BY <1>0, <1>7 DEF TypeOK, FinaliseRejected, Phases, ClientStates
<1> QED BY <1>1, <1>2, <1>3, <1>4, <1>5, <1>6, <1>7 DEF DocumentStep

\* Every statement of _finalise after the insert keeps the types.
LEMMA TypeFinalise ==
    ASSUME TypeOK, LoopRows, FinaliseStep
    PROVE  TypeOK'
<1> USE DEF store, At, Go
<1>1. CASE SaveBlobs
  <2>1. LoopOK'
    BY <1>1 DEF TypeOK, SaveBlobs, LoopOK, Steps, FinaliseSteps
  <2>2. loop.call \in Calls
    BY <1>1 DEF TypeOK, LoopOK, SaveBlobs
  <2> QED BY <1>1, <2>1, <2>2 DEF TypeOK, SaveBlobs
<1>2. CASE Index
  <2>1. LoopOK'
    BY <1>2 DEF TypeOK, Index, LoopOK, Steps, FinaliseSteps
  <2>2. loop.call \in Calls
    BY <1>2 DEF TypeOK, LoopOK, Index
  <2> QED BY <1>2, <2>1, <2>2 DEF TypeOK, Index
<1>3. CASE AuditCreated
  <2>1. LoopOK'
    BY <1>3 DEF TypeOK, AuditCreated, LoopOK, Steps, FinaliseSteps
  <2>2. loop.call \in Calls
    BY <1>3 DEF TypeOK, LoopOK, AuditCreated
  <2>3. trail' \subseteq Events \X Calls
    BY <1>3, <2>2 DEF TypeOK, AuditCreated, Events
  <2> QED BY <1>3, <2>1, <2>3 DEF TypeOK, AuditCreated
<1>4. CASE IssuePass
  <2>1. LoopOK'
    BY <1>4 DEF TypeOK, IssuePass, LoopOK, Steps, FinaliseSteps
  <2>2. passes' \in [Calls -> PassStates]
    BY <1>4 DEF TypeOK, IssuePass, PassStates
  <2>3. loop.call \in Calls
    BY <1>4 DEF TypeOK, LoopOK, IssuePass
  <2>4. trail' \subseteq Events \X Calls
    BY <1>4, <2>3 DEF TypeOK, IssuePass, Events
  <2> QED BY <1>4, <2>1, <2>2, <2>4 DEF TypeOK, IssuePass
<1>5. CASE Notify
  <2>1. loop.call \in Calls /\ rows[loop.call].decision \in Decisions
    BY <1>5 DEF Notify, LoopRows, Exists, TypeOK, LoopOK, Row
  <2>2. LoopOK'
    BY <1>5 DEF TypeOK, Notify, LoopOK, Steps, FinaliseSteps
  <2>3. outbox' \subseteq Hooks \X Calls \X Decisions
    BY <1>5, <2>1 DEF Notify, TypeOK, Hooks
  <2> QED BY <1>5, <2>2, <2>3 DEF Notify, TypeOK
<1>6. ASSUME NEW other \in Calls, FlagConflict(other) PROVE TypeOK'
  <2>1. FlaggedRow(rows[other]) \in Row
    BY RowUpdates DEF TypeOK
  <2>2. rows' \in [Calls -> Row]
    BY <1>6, <2>1 DEF FlagConflict, TypeOK
  <2>3. LoopOK'
    <3>1. CASE loop' = [loop EXCEPT !.todo = @ \ {other}]
      BY <1>6, <3>1 DEF TypeOK, LoopOK
    <3>2. CASE loop' = [loop EXCEPT !.step = "revoke", !.other = other, !.todo = @ \ {other}]
      BY <1>6, <3>2 DEF FlagConflict, TypeOK, LoopOK, Steps, FinaliseSteps
    <3> QED BY <1>6, <3>1, <3>2 DEF FlagConflict
  <2> QED BY <1>6, <2>2, <2>3 DEF FlagConflict, TypeOK
<1>7. CASE RevokeFlagged
  <2>1. LoopOK'
    BY <1>7 DEF TypeOK, RevokeFlagged, LoopOK, Steps, FinaliseSteps
  <2>2. loop.other \in Calls
    BY <1>7 DEF TypeOK, LoopOK, RevokeFlagged
  <2>3. passes' \in [Calls -> PassStates]
    BY <1>7 DEF TypeOK, RevokeFlagged, Revoked, PassStates
  <2>4. trail' \subseteq Events \X Calls
    BY <1>7, <2>2 DEF TypeOK, RevokeFlagged, RevocationEntry, Events
  <2> QED BY <1>7, <2>1, <2>3, <2>4 DEF TypeOK, RevokeFlagged
<1>8. CASE ReportFlagged
  <2>1. loop.other \in Calls /\ rows[loop.other].decision \in Decisions
    BY <1>8 DEF ReportFlagged, LoopRows, Exists, TypeOK, LoopOK, Row
  <2>2. LoopOK'
    BY <1>8 DEF ReportFlagged, TypeOK, LoopOK, Steps, FinaliseSteps
  <2>3. trail' \subseteq Events \X Calls
    BY <1>8, <2>1 DEF TypeOK, ReportFlagged, Events
  <2>4. outbox' \subseteq Hooks \X Calls \X Decisions
    BY <1>8, <2>1 DEF ReportFlagged, TypeOK, Hooks
  <2> QED BY <1>8, <2>2, <2>3, <2>4 DEF ReportFlagged, TypeOK
<1>9. CASE Return
  <2>1. LoopOK'
    BY <1>9 DEF Return, Idle, LoopOK, Steps
  <2> QED BY <1>9, <2>1 DEF TypeOK, Return, Phases, ClientStates
<1> QED BY <1>1, <1>2, <1>3, <1>4, <1>5, <1>6, <1>7, <1>8, <1>9 DEF FinaliseStep

\* So does everything people, the sweeper and a crash do.
LEMMA TypeReview ==
    ASSUME TypeOK, LoopRows, ReviewStep
    PROVE  TypeOK'
<1> USE DEF store, At, Go, Steps, ReviewSteps
<1>1. CASE AuditReview
  <2>1. LoopOK'
    BY <1>1 DEF TypeOK, LoopOK, AuditReview
  <2>2. loop.call \in Calls
    BY <1>1 DEF TypeOK, LoopOK, AuditReview
  <2>3. trail' \subseteq Events \X Calls
    BY <1>1, <2>2 DEF TypeOK, AuditReview, Events
  <2> QED BY <1>1, <2>1, <2>3 DEF TypeOK, AuditReview
<1>2. CASE DeleteReviewedImages
  BY <1>2 DEF TypeOK, LoopOK, DeleteReviewedImages, Events
<1>3. CASE NotifyReview
  <2>1. loop.call \in Calls /\ rows[loop.call].decision \in Decisions
    BY <1>3 DEF NotifyReview, LoopRows, Exists, TypeOK, LoopOK, Row
  <2> QED BY <1>3, <2>1 DEF NotifyReview, TypeOK, LoopOK, Hooks, Idle
<1> QED BY <1>1, <1>2, <1>3 DEF ReviewStep

LEMMA TypeErase ==
    ASSUME TypeOK, EraseStep
    PROVE  TypeOK'
<1> USE DEF store, At, Go, LoopOK, Steps, EraseLocked
<1>1. CASE EraseFaces
  BY <1>1 DEF TypeOK, EraseFaces
<1>2. CASE EraseIndex
  BY <1>2 DEF TypeOK, EraseIndex
<1>3. CASE EraseRow
  <2>1. [rows[loop.call] EXCEPT !.erased = TRUE] \in Row
    BY <1>3, RowUpdates DEF EraseRow, TypeOK
  <2>2. rows' \in [Calls -> Row]
    BY <1>3, <2>1 DEF EraseRow, TypeOK
  <2> QED BY <1>3, <2>2 DEF TypeOK, EraseRow
<1>4. CASE ErasePasses
  <2>1. LoopOK'
    BY <1>4 DEF TypeOK, LoopOK, ErasePasses
  <2>2. loop.call \in Calls
    BY <1>4 DEF TypeOK, LoopOK, ErasePasses
  <2>3. passes' \in [Calls -> PassStates]
    BY <1>4 DEF TypeOK, ErasePasses, Revoked, PassStates
  <2>4. trail' \subseteq Events \X Calls
    BY <1>4, <2>2 DEF TypeOK, ErasePasses, RevocationEntry, Events
  <2> QED BY <1>4, <2>1, <2>3, <2>4 DEF TypeOK, ErasePasses
<1>5. CASE AuditErased
  BY <1>5 DEF TypeOK, AuditErased, Events, Idle
<1> QED BY <1>1, <1>2, <1>3, <1>4, <1>5 DEF EraseStep

\* Every step keeps the types.
LEMMA TypeStep ==
    ASSUME TypeOK, LoopRows, [Next]_vars
    PROVE  TypeOK'
<1>1. ASSUME NEW c \in Documents, DocumentStep(c) PROVE TypeOK'
  BY <1>1, TypeDocument
<1>2. ASSUME NEW c \in PassCalls, VerifyWithPass(c) PROVE TypeOK'
  <2>1. c \in Calls
    BY DEF Calls
  <2>2. rows' \in [Calls -> Row]
    <3>1. CASE KeyTaken(c)
      BY <1>2, <3>1 DEF VerifyWithPass, TypeOK
    <3>2. CASE ~KeyTaken(c)
      BY <1>2, <3>2, PassInserts DEF Inserted, TypeOK
    <3> QED BY <3>1, <3>2
  <2>3. LoopOK'
    BY <1>2, <2>1 DEF VerifyWithPass, TypeOK, LoopOK, Steps, FinaliseSteps
  <2>4. phase' \in [Calls -> Phases] /\ client' \in [Calls -> ClientStates]
    <3>1. \E new \in {"answered", "saving"} : phase' = [phase EXCEPT ![c] = new]
      BY <1>2 DEF VerifyWithPass
    <3>2. \E new \in {"existing", "waiting"} : client' = [client EXCEPT ![c] = new]
      BY <1>2 DEF VerifyWithPass
    <3> QED BY <2>1, <3>1, <3>2 DEF TypeOK, Phases, InFlight, ClientStates
  <2>5. UNCHANGED <<evidence, index, faces, blobs, passes, trail, outbox, operations, crashes>>
    BY <1>2 DEF VerifyWithPass
  <2> QED BY <2>2, <2>3, <2>4, <2>5 DEF TypeOK
<1>3. CASE FinaliseStep
  BY <1>3, TypeFinalise
<1>4. CASE ReviewStep
  BY <1>4, TypeReview
<1>5. CASE EraseStep
  BY <1>5, TypeErase
<1>6. ASSUME NEW v \in Calls, NEW action \in ReviewActions, Review(v, action) PROVE TypeOK'
  <2>1. [rows[v] EXCEPT !.review = action, !.decision = ReviewDecisions[action]] \in Row
    BY RowUpdates DEF TypeOK
  <2>2. rows' \in [Calls -> Row]
    BY <1>6, <2>1 DEF Review, TypeOK
  <2>3. LoopOK'
    BY <1>6 DEF Review, LoopOK, Steps, ReviewSteps, Idle
  <2> QED BY <1>6, <2>2, <2>3, SettingsAssumption DEF Review, Operate, TypeOK
<1>7. ASSUME NEW v \in Calls, RevokePass(v) PROVE TypeOK'
  BY <1>7, SettingsAssumption
     DEF RevokePass, Operate, TypeOK, LoopOK, Revoked, RevocationEntry, Events, PassStates
<1>8. ASSUME NEW v \in Calls, Erase(v) PROVE TypeOK'
  <2>1. LoopOK'
    BY <1>8 DEF Erase, LoopOK, Steps, EraseLocked, Idle
  <2> QED BY <1>8, <2>1, SettingsAssumption DEF Erase, Operate, TypeOK
<1>9. ASSUME NEW v \in Calls, Purge(v) PROVE TypeOK'
  BY <1>9 DEF Purge, TypeOK, LoopOK, Events
<1>10. CASE Crash
  BY <1>10, SettingsAssumption
     DEF Crash, TypeOK, LoopOK, store, Phases, ClientStates, Idle, Steps
<1>11. CASE UNCHANGED vars
  BY <1>11 DEF vars, TypeOK, LoopOK
<1> QED BY <1>1, <1>2, <1>3, <1>4, <1>5, <1>6, <1>7, <1>8, <1>9, <1>10, <1>11 DEF Next

------------------------------------------------------------------------------
(* What a step may do to a row *)

Decides(v) ==
    \/ v \in Documents /\ FinaliseDocument(v)
    \/ v \in PassCalls /\ VerifyWithPass(v) /\ ~KeyTaken(v)

Reviewed(row, action) == [row EXCEPT !.review = action, !.decision = ReviewDecisions[action]]

RowChange(v) ==
    \/ rows'[v] = rows[v]
    \/ Decides(v) /\ NewRow(rows'[v], Request[v].policy.min)
    \/ FlagConflict(v) /\ ~rows[v].flagged /\ Exists(v) /\ rows'[v] = FlaggedRow(rows[v])
    \/ \E action \in ReviewActions :
           Review(v, action) /\ Exists(v) /\ rows'[v] = Reviewed(rows[v], action)
    \/ EraseRow /\ v = loop.call /\ rows'[v] = [rows[v] EXCEPT !.erased = TRUE]

\* A row is inserted by its own call, flagged, reviewed or redacted, and nothing else.
LEMMA RowStep ==
    ASSUME TypeOK, [Next]_vars, NEW v \in Calls
    PROVE  RowChange(v)
<1> USE DEF store
<1>1. ASSUME NEW c \in Documents, DocumentStep(c) PROVE RowChange(v)
  <2>1. CASE UNCHANGED rows
    BY <2>1 DEF RowChange
  <2>2. CASE FinaliseDocument(c)
    <3>1. Inserted(c)
      BY <2>2, DocumentInserts
    <3>2. c \in Calls
      BY DEF Calls
    <3>3. CASE c = v
      BY <2>2, <3>1, <3>2, <3>3 DEF Inserted, RowChange, Decides, TypeOK
    <3>4. CASE c # v
      BY <3>1, <3>4 DEF Inserted, RowChange, TypeOK
    <3> QED BY <3>3, <3>4
  <2>3. FinaliseDocument(c) \/ UNCHANGED rows
    BY <1>1 DEF DocumentStep, Submit, SyncTimeout, Start, ReadIndex, StopAtQuality, FinaliseRejected
  <2> QED BY <2>1, <2>2, <2>3
<1>2. ASSUME NEW c \in PassCalls, VerifyWithPass(c) PROVE RowChange(v)
  <2>1. CASE KeyTaken(c)
    BY <1>2, <2>1 DEF VerifyWithPass, RowChange
  <2>2. CASE ~KeyTaken(c)
    <3>1. Inserted(c)
      BY <1>2, <2>2, PassInserts
    <3>2. c \in Calls
      BY DEF Calls
    <3>3. CASE c = v
      BY <1>2, <2>2, <3>1, <3>2, <3>3 DEF Inserted, RowChange, Decides, TypeOK
    <3>4. CASE c # v
      BY <3>1, <3>4 DEF Inserted, RowChange, TypeOK
    <3> QED BY <3>3, <3>4
  <2> QED BY <2>1, <2>2
<1>3. ASSUME NEW other \in Calls, FlagConflict(other) PROVE RowChange(v)
  <2>1. CASE UNCHANGED rows
    BY <2>1 DEF RowChange
  <2>2. CASE Exists(other) /\ ~rows[other].flagged /\ rows' = [rows EXCEPT ![other] = FlaggedRow(@)]
    BY <1>3, <2>2 DEF RowChange, TypeOK
  <2> QED BY <1>3, <2>1, <2>2 DEF FlagConflict
<1>4. ASSUME NEW other \in Calls, NEW action \in ReviewActions, Review(other, action)
      PROVE  RowChange(v)
  BY <1>4 DEF Review, RowChange, Reviewed, TypeOK
<1>5. CASE EraseRow
  BY <1>5 DEF EraseRow, RowChange, TypeOK
<1>6. CASE UNCHANGED rows
  BY <1>6 DEF RowChange
<1>7. FinaliseStep => UNCHANGED rows \/ \E other \in Calls : FlagConflict(other)
  BY DEF FinaliseStep, SaveBlobs, Index, AuditCreated, IssuePass, Notify, RevokeFlagged,
         ReportFlagged, Return
<1>8. ReviewStep => UNCHANGED rows
  BY DEF ReviewStep, AuditReview, DeleteReviewedImages, NotifyReview
<1>9. EraseStep => UNCHANGED rows \/ EraseRow
  BY DEF EraseStep, EraseFaces, EraseIndex, ErasePasses, AuditErased
<1>10. \A other \in Calls : RevokePass(other) \/ Erase(other) \/ Purge(other) => UNCHANGED rows
  BY DEF RevokePass, Erase, Purge
<1>11. Crash \/ UNCHANGED vars => UNCHANGED rows
  BY DEF Crash, vars
<1> QED BY <1>1, <1>2, <1>3, <1>4, <1>5, <1>6, <1>7, <1>8, <1>9, <1>10, <1>11 DEF Next

\* A row that exists goes on existing.
LEMMA RowStays ==
    ASSUME TypeOK, [Next]_vars, NEW v \in Calls, Exists(v)
    PROVE  Exists(v)'
<1>1. RowChange(v) /\ rows[v] \in Row
  BY RowStep DEF TypeOK
<1>2. \A action \in ReviewActions : ReviewDecisions[action] # "none"
  BY DEF ReviewActions, ReviewDecisions
<1>3. CASE rows'[v] = rows[v]
  BY <1>3 DEF Exists
<1>4. CASE NewRow(rows'[v], Request[v].policy.min)
  BY <1>4 DEF NewRow, Exists, Decisions
<1>5. CASE rows'[v] = FlaggedRow(rows[v])
  BY <1>1, <1>5 DEF FlaggedRow, Exists, Row
<1>6. ASSUME NEW action \in ReviewActions, rows'[v] = Reviewed(rows[v], action)
      PROVE  Exists(v)'
  BY <1>1, <1>2, <1>6 DEF Reviewed, Exists, Row
<1>7. CASE rows'[v] = [rows[v] EXCEPT !.erased = TRUE]
  BY <1>1, <1>7 DEF Exists, Row
<1> QED BY <1>1, <1>3, <1>4, <1>5, <1>6, <1>7 DEF RowChange

------------------------------------------------------------------------------
(* The invariant is inductive *)

LEMMA InvInit == Init => Inv
<1> SUFFICES ASSUME Init PROVE Inv
  OBVIOUS
<1>1. TypeOK
  BY TypeInit
<1>2. LoopRows
  BY DEF Init, LoopRows, Idle
<1>3. NotYetRow /\ PassHasRow
  BY DEF Init, NotYetRow, PassHasRow, Exists, NoRow
<1> QED BY <1>1, <1>2, <1>3 DEF Inv

\* Only FlagConflict starts to work on another verification, one that has its row.
LEMMA LoopRowsStep ==
    ASSUME Inv, [Next]_vars
    PROVE  LoopRows'
<1> USE DEF store, Inv
<1>0. \A v \in Calls : Exists(v) => Exists(v)'
  BY RowStays
<1>1. ASSUME UNCHANGED loop PROVE LoopRows'
  BY <1>0, <1>1 DEF LoopRows, TypeOK, LoopOK
<1>2. ASSUME NEW c \in Documents, FinaliseDocument(c) PROVE LoopRows'
  <2>1. c \in Calls /\ Inserted(c)
    BY <1>2, DocumentInserts DEF Calls
  <2>2. Exists(c)'
    BY <2>1 DEF Inserted, NewRow, Exists, TypeOK, Decisions
  <2> QED BY <1>2, <2>2 DEF FinaliseDocument, LoopRows
<1>3. ASSUME NEW c \in PassCalls, VerifyWithPass(c), ~KeyTaken(c) PROVE LoopRows'
  <2>1. c \in Calls /\ Inserted(c)
    BY <1>3, PassInserts DEF Calls
  <2>2. Exists(c)'
    BY <2>1 DEF Inserted, NewRow, Exists, TypeOK, Decisions
  <2>3. loop' = [step |-> "index", call |-> c, other |-> Nobody, todo |-> {}]
    BY <1>3 DEF VerifyWithPass
  <2> QED BY <2>2, <2>3 DEF LoopRows
<1>4. ASSUME NEW step \in Steps \ {"revoke", "report"}, loop.step # "idle",
             loop' = [loop EXCEPT !.step = step]
      PROVE  LoopRows'
  BY <1>0, <1>4 DEF LoopRows, TypeOK, LoopOK
<1>5. ASSUME NEW other \in Calls, FlagConflict(other) PROVE LoopRows'
  <2>1. loop.call \in Calls /\ Exists(loop.call)
    BY <1>5 DEF FlagConflict, At, LoopRows, TypeOK, LoopOK
  <2>2. CASE loop' = [loop EXCEPT !.todo = @ \ {other}]
    BY <1>0, <1>5, <2>1, <2>2 DEF FlagConflict, At, LoopRows, TypeOK, LoopOK
  <2>3. CASE Exists(other) /\
             loop' = [loop EXCEPT !.step = "revoke", !.other = other, !.todo = @ \ {other}]
    BY <1>0, <2>1, <2>3 DEF LoopRows, TypeOK, LoopOK
  <2> QED BY <1>5, <2>2, <2>3 DEF FlagConflict
<1>6. CASE RevokeFlagged
  BY <1>0, <1>6 DEF RevokeFlagged, At, Go, LoopRows, TypeOK, LoopOK
<1>7. CASE ReportFlagged
  BY <1>0, <1>7 DEF ReportFlagged, At, LoopRows, TypeOK, LoopOK
<1>8. ASSUME NEW v \in Calls, Exists(v), NEW step \in Steps \ {"revoke", "report"},
             loop' = [Idle EXCEPT !.step = step, !.call = v]
      PROVE  LoopRows'
  BY <1>0, <1>8 DEF Idle, LoopRows
<1>9. ASSUME loop' = Idle PROVE LoopRows'
  BY <1>9 DEF Idle, LoopRows
<1>10. ASSUME NEW c \in Documents, DocumentStep(c) PROVE LoopRows'
  BY <1>1, <1>2, <1>10
     DEF DocumentStep, Submit, SyncTimeout, Start, ReadIndex, StopAtQuality, FinaliseRejected
<1>11. ASSUME NEW c \in PassCalls, VerifyWithPass(c) PROVE LoopRows'
  BY <1>1, <1>3, <1>11 DEF VerifyWithPass
<1>12. ASSUME FinaliseStep PROVE LoopRows'
  <2>1. {"index", "audit", "pass", "notify", "flag"} \subseteq Steps \ {"revoke", "report"}
    BY DEF Steps, FinaliseSteps
  <2> QED BY <1>4, <1>5, <1>6, <1>7, <1>9, <1>12, <2>1
       DEF FinaliseStep, SaveBlobs, Index, AuditCreated, IssuePass, Notify, Return, At, Go
<1>13. ASSUME ReviewStep PROVE LoopRows'
  <2>1. {"review_images", "review_notify"} \subseteq Steps \ {"revoke", "report"}
    BY DEF Steps, ReviewSteps
  <2> QED BY <1>4, <1>9, <1>13, <2>1
       DEF ReviewStep, AuditReview, DeleteReviewedImages, NotifyReview, At, Go
<1>14. ASSUME EraseStep PROVE LoopRows'
  <2>1. {"erase_index", "erase_row", "erase_passes", "erase_audit"} \subseteq
            Steps \ {"revoke", "report"}
    BY DEF Steps, EraseLocked
  <2> QED BY <1>4, <1>9, <1>14, <2>1
       DEF EraseStep, EraseFaces, EraseIndex, EraseRow, ErasePasses, AuditErased, At, Go
<1>15. ASSUME NEW v \in Calls, NEW action \in ReviewActions, Review(v, action) PROVE LoopRows'
  BY <1>8, <1>15 DEF Review, Steps, ReviewSteps
<1>16. ASSUME NEW v \in Calls, Erase(v) PROVE LoopRows'
  BY <1>8, <1>16 DEF Erase, Steps, EraseLocked
<1>17. ASSUME NEW v \in Calls, RevokePass(v) \/ Purge(v) PROVE LoopRows'
  BY <1>1, <1>17 DEF RevokePass, Purge
<1>18. CASE Crash
  BY <1>9, <1>18 DEF Crash
<1>19. CASE UNCHANGED vars
  BY <1>1, <1>19 DEF vars
<1> QED BY <1>10, <1>11, <1>12, <1>13, <1>14, <1>15, <1>16, <1>17, <1>18, <1>19 DEF Next

\* A row appears only as its call starts to be saved.
LEMMA NotYetRowStep ==
    ASSUME Inv, [Next]_vars
    PROVE  NotYetRow'
<1> USE DEF store, Inv
<1> DEFINE NotYet == {"new", "queued", "checking", "checked"}
<1> SUFFICES ASSUME NEW c \in Calls, phase'[c] \in NotYet PROVE ~Exists(c)'
  BY DEF NotYetRow
<1>1. phase[c] \in NotYet
  <2>1. ASSUME NEW d \in Calls, NEW new \in Phases, phase' = [phase EXCEPT ![d] = new],
               phase[d] \in NotYet \/ new \notin NotYet
        PROVE  phase[c] \in NotYet
    BY <2>1 DEF TypeOK
  <2>2. CASE UNCHANGED phase
    BY <2>2
  <2>3. ASSUME NEW d \in Documents, DocumentStep(d) PROVE phase[c] \in NotYet
    <3>1. d \in Calls
      BY DEF Calls
    <3> QED BY <2>1, <2>2, <2>3, <3>1
         DEF DocumentStep, Submit, SyncTimeout, Start, ReadIndex, StopAtQuality,
             FinaliseDocument, FinaliseRejected, Phases, InFlight
  <2>4. ASSUME NEW d \in PassCalls, VerifyWithPass(d) PROVE phase[c] \in NotYet
    <3>1. d \in Calls
      BY DEF Calls
    <3> QED BY <2>1, <2>4, <3>1 DEF VerifyWithPass, Phases, InFlight
  <2>5. CASE FinaliseStep
    <3>1. CASE Return
      BY <3>1 DEF Return, TypeOK, LoopOK, At
    <3> QED BY <2>2, <2>5, <3>1
         DEF FinaliseStep, SaveBlobs, Index, AuditCreated, IssuePass, Notify, FlagConflict,
             RevokeFlagged, ReportFlagged
  <2>6. CASE ReviewStep \/ EraseStep
    BY <2>2, <2>6
       DEF ReviewStep, AuditReview, DeleteReviewedImages, NotifyReview,
           EraseStep, EraseFaces, EraseIndex, EraseRow, ErasePasses, AuditErased
  <2>7. ASSUME NEW v \in Calls,
               \/ \E action \in ReviewActions : Review(v, action)
               \/ RevokePass(v) \/ Erase(v) \/ Purge(v)
        PROVE  phase[c] \in NotYet
    BY <2>2, <2>7 DEF Review, RevokePass, Erase, Purge
  <2>8. CASE Crash
    BY <2>8 DEF Crash
  <2>9. CASE UNCHANGED vars
    BY <2>2, <2>9 DEF vars
  <2> QED BY <2>3, <2>4, <2>5, <2>6, <2>7, <2>8, <2>9 DEF Next
<1>2. ~Exists(c)
  BY <1>1 DEF NotYetRow
<1>3. ~Decides(c)
  BY DEF Decides, FinaliseDocument, VerifyWithPass, TypeOK
<1>4. ~(EraseRow /\ c = loop.call)
  BY <1>2 DEF EraseRow, At, LoopRows
<1>5. rows'[c] = rows[c]
  BY <1>2, <1>3, <1>4, RowStep DEF RowChange
<1> QED BY <1>2, <1>5 DEF Exists

\* A pass is issued for the verification the loop is saving, which has its row.
LEMMA PassHasRowStep ==
    ASSUME Inv, [Next]_vars
    PROVE  PassHasRow'
<1> USE DEF store, Inv
<1> SUFFICES ASSUME NEW v \in Calls, ~Exists(v)' PROVE passes'[v] = "none"
  BY DEF PassHasRow
<1>1. ~Exists(v)
  BY RowStays
<1>2. passes[v] = "none"
  BY <1>1 DEF PassHasRow
<1>3. CASE UNCHANGED passes
  BY <1>2, <1>3
<1>4. CASE IssuePass
  <2>1. loop.call # v
    BY <1>1, <1>4 DEF IssuePass, At, LoopRows
  <2> QED BY <1>2, <1>4, <2>1 DEF IssuePass, TypeOK
<1>5. ASSUME NEW w, passes' = Revoked(w) PROVE passes'[v] = "none"
  BY <1>2, <1>5 DEF Revoked, TypeOK
<1>6. ASSUME NEW c \in Documents, DocumentStep(c) PROVE passes'[v] = "none"
  BY <1>3, <1>6
     DEF DocumentStep, Submit, SyncTimeout, Start, ReadIndex, StopAtQuality,
         FinaliseDocument, FinaliseRejected
<1>7. ASSUME NEW c \in PassCalls, VerifyWithPass(c) PROVE passes'[v] = "none"
  BY <1>3, <1>7 DEF VerifyWithPass
<1>8. CASE FinaliseStep
  BY <1>3, <1>4, <1>5, <1>8
     DEF FinaliseStep, SaveBlobs, Index, AuditCreated, Notify, FlagConflict,
         RevokeFlagged, ReportFlagged, Return
<1>9. CASE ReviewStep \/ EraseStep
  BY <1>3, <1>5, <1>9
     DEF ReviewStep, AuditReview, DeleteReviewedImages, NotifyReview,
         EraseStep, EraseFaces, EraseIndex, EraseRow, ErasePasses, AuditErased
<1>10. ASSUME NEW w \in Calls,
              \/ \E action \in ReviewActions : Review(w, action)
              \/ RevokePass(w) \/ Erase(w) \/ Purge(w)
       PROVE  passes'[v] = "none"
  BY <1>3, <1>5, <1>10 DEF Review, RevokePass, Erase, Purge
<1>11. CASE Crash \/ UNCHANGED vars
  BY <1>3, <1>11 DEF Crash, vars
<1> QED BY <1>6, <1>7, <1>8, <1>9, <1>10, <1>11 DEF Next

\* The invariant holds in every reachable state.
THEOREM Invariance == Spec => []Inv
<1>1. Init => Inv
  BY InvInit
<1>2. Inv /\ [Next]_vars => Inv'
  BY TypeStep, LoopRowsStep, NotYetRowStep, PassHasRowStep DEF Inv
<1> QED BY <1>1, <1>2, PTL DEF Spec

\* Every reachable state is well typed: no handler ever works on, announces or
\* revokes a verification that is not there.
THEOREM TypeCorrectness == Spec => []TypeOK
<1>1. Inv => TypeOK
  BY DEF Inv
<1> QED BY <1>1, Invariance, PTL

------------------------------------------------------------------------------
(* A person's decision *)

LEMMA HumanStep ==
    ASSUME Inv, HumanDecisionStands, [Next]_vars
    PROVE  HumanDecisionStands'
<1> SUFFICES ASSUME NEW v \in Calls, rows'[v].review # "none"
             PROVE  rows'[v].decision = ReviewDecisions[rows'[v].review]
  BY DEF HumanDecisionStands
<1>1. RowChange(v) /\ rows[v] \in Row
  BY RowStep DEF Inv, TypeOK
<1>2. rows[v].review # "none" => rows[v].decision = ReviewDecisions[rows[v].review]
  BY DEF HumanDecisionStands
<1>3. CASE rows'[v] = rows[v]
  BY <1>2, <1>3
<1>4. CASE NewRow(rows'[v], Request[v].policy.min)
  BY <1>4 DEF NewRow
<1>5. CASE rows'[v] = FlaggedRow(rows[v])
  BY <1>1, <1>2, <1>5 DEF FlaggedRow, Row
<1>6. ASSUME NEW action \in ReviewActions, rows'[v] = Reviewed(rows[v], action)
      PROVE  rows'[v].decision = ReviewDecisions[rows'[v].review]
  BY <1>1, <1>6 DEF Reviewed, Row
<1>7. CASE rows'[v] = [rows[v] EXCEPT !.erased = TRUE]
  BY <1>1, <1>2, <1>7 DEF Row
<1> QED BY <1>1, <1>3, <1>4, <1>5, <1>6, <1>7 DEF RowChange

\* No step of the machine, whatever the interleaving or crash, changes what a
\* person decided (service.py:327, sqlite.py:267-273).
THEOREM PersonsDecisionStands == Spec => []HumanDecisionStands
<1>1. Init => HumanDecisionStands
  BY DEF Init, HumanDecisionStands, NoRow
<1>2. Inv /\ HumanDecisionStands /\ [Next]_vars => HumanDecisionStands'
  BY HumanStep
<1> QED BY <1>1, <1>2, Invariance, PTL DEF Spec

------------------------------------------------------------------------------
(* An automatic VERIFIED *)

LEMMA EarnedStep ==
    ASSUME Inv, VerifiedIsEarned, [Next]_vars
    PROVE  VerifiedIsEarned'
<1> DEFINE Earned(row, v) ==
        row.decision = "verified" /\ row.review = "none" =>
            row.level >= Request[v].policy.min /\ ~row.duplicate /\ ~row.flagged
<1> SUFFICES ASSUME NEW v \in Calls PROVE Earned(rows'[v], v)
  BY DEF VerifiedIsEarned
<1>1. RowChange(v) /\ rows[v] \in Row
  BY RowStep DEF Inv, TypeOK
<1>2. Earned(rows[v], v)
  BY DEF VerifiedIsEarned
<1>3. CASE rows'[v] = rows[v]
  BY <1>2, <1>3
<1>4. CASE NewRow(rows'[v], Request[v].policy.min)
  BY <1>4 DEF NewRow
<1>5. CASE rows'[v] = FlaggedRow(rows[v])
  <2>1. ~(rows'[v].decision = "verified" /\ rows'[v].review = "none")
    BY <1>1, <1>5 DEF FlaggedRow, Row
  <2> QED BY <2>1
<1>6. ASSUME NEW action \in ReviewActions, rows'[v] = Reviewed(rows[v], action)
      PROVE  Earned(rows'[v], v)
  <2>1. action # "none"
    BY DEF ReviewActions, ReviewDecisions
  <2>2. rows'[v].review # "none"
    BY <1>1, <1>6, <2>1 DEF Reviewed, Row
  <2> QED BY <2>2
<1>7. CASE rows'[v] = [rows[v] EXCEPT !.erased = TRUE]
  BY <1>1, <1>2, <1>7 DEF Row
<1> QED BY <1>1, <1>3, <1>4, <1>5, <1>6, <1>7 DEF RowChange

\* Whatever the checks report and however the handlers interleave, an automatic
\* VERIFIED reaches the event's minimum level and is under no suspicion
\* (decision.py:78-105, service.py:327-328).
THEOREM VerifiedWasEarned == Spec => []VerifiedIsEarned
<1>1. Init => VerifiedIsEarned
  BY DEF Init, VerifiedIsEarned, NoRow
<1>2. Inv /\ VerifiedIsEarned /\ [Next]_vars => VerifiedIsEarned'
  BY EarnedStep
<1> QED BY <1>1, <1>2, Invariance, PTL DEF Spec

------------------------------------------------------------------------------
(* Idempotency keys *)

LEMMA KeyStep ==
    ASSUME Inv, OneVerificationPerKey, [Next]_vars
    PROVE  OneVerificationPerKey'
<1> DEFINE SameKey(v, w) == Request[v].key # NoKey /\ Request[v].key = Request[w].key
<1> SUFFICES ASSUME NEW v \in Calls, NEW w \in Calls,
                    Exists(v)', Exists(w)', SameKey(v, w), v # w
             PROVE  FALSE
  BY DEF OneVerificationPerKey
<1>1. \A x \in Calls : Exists(x)' => Exists(x) \/ Decides(x)
  <2> SUFFICES ASSUME NEW x \in Calls, ~Exists(x), ~Decides(x) PROVE ~Exists(x)'
    OBVIOUS
  <2>1. ~(EraseRow /\ x = loop.call)
    BY DEF EraseRow, At, Inv, LoopRows
  <2>2. rows'[x] = rows[x]
    BY <2>1, RowStep DEF RowChange, Inv
  <2> QED BY <2>2 DEF Exists
<1>2. \A x \in Calls : Decides(x) => ~KeyTaken(x)
  BY DEF Decides, FinaliseDocument
<1>3. \A x, y \in Calls : Decides(x) /\ Decides(y) => x = y
  <2> SUFFICES ASSUME NEW x \in Calls, NEW y \in Calls, Decides(x), Decides(y) PROVE x = y
    OBVIOUS
  <2>1. loop'.call = x
    BY DEF Decides, FinaliseDocument, VerifyWithPass
  <2>2. loop'.call = y
    BY DEF Decides, FinaliseDocument, VerifyWithPass
  <2> QED BY <2>1, <2>2
<1>4. CASE Exists(v) /\ Exists(w)
  BY <1>4 DEF OneVerificationPerKey
<1>5. CASE Decides(v) /\ Exists(w)
  BY <1>2, <1>5 DEF KeyTaken
<1>6. CASE Exists(v) /\ Decides(w)
  BY <1>2, <1>6 DEF KeyTaken
<1>7. CASE Decides(v) /\ Decides(w)
  BY <1>3, <1>7
<1> QED BY <1>1, <1>4, <1>5, <1>6, <1>7

\* However many calls carry one idempotency key, and in whatever order they reach
\* the store, one of them has a row (sqlite.py:42, routes.py:110-112).
THEOREM KeyNamesOneVerification == Spec => []OneVerificationPerKey
<1>1. Init => OneVerificationPerKey
  BY DEF Init, OneVerificationPerKey, Exists, NoRow
<1>2. Inv /\ OneVerificationPerKey /\ [Next]_vars => OneVerificationPerKey'
  BY KeyStep
<1> QED BY <1>1, <1>2, Invariance, PTL DEF Spec

------------------------------------------------------------------------------
(* The verification the loop is saving, and the one it is erasing *)

Saving == loop.step \in {"blobs", "index", "audit", "pass"}

\* Until _finalise has passed the point where it may issue a pass, nobody else has
\* touched the row it inserted.
Fresh ==
    Saving =>
        /\ rows[loop.call].review = "none"
        /\ ~rows[loop.call].flagged /\ ~rows[loop.call].erased
        /\ rows[loop.call].decision = rows[loop.call].automated
        /\ passes[loop.call] = "none"

\* What Store.erase has deleted so far stays deleted while it goes on.
Erasing ==
    /\ loop.step \in EraseLocked => loop.call \notin blobs
    /\ loop.step \in EraseLocked \ {"erase_faces"} => loop.call \notin faces
    /\ loop.step \in EraseLocked \ {"erase_faces", "erase_index"} => loop.call \notin index

\* While the loop is saving, no row and no pass changes before the pass is decided on.
LEMMA SavingIsUndisturbed ==
    ASSUME Inv, Saving, [Next]_vars
    PROVE  rows' = rows /\ (passes' = passes \/ IssuePass)
<1> USE DEF store, Saving
<1>1. ASSUME NEW c \in Documents, DocumentStep(c) PROVE rows' = rows /\ passes' = passes
  BY <1>1 DEF DocumentStep, Submit, SyncTimeout, Start, ReadIndex, StopAtQuality,
              FinaliseDocument, FinaliseRejected, LoopFree
<1>2. \A c \in PassCalls : ~VerifyWithPass(c)
  BY DEF VerifyWithPass, LoopFree
<1>3. ASSUME FinaliseStep PROVE rows' = rows /\ (passes' = passes \/ IssuePass)
  BY <1>3 DEF FinaliseStep, SaveBlobs, Index, AuditCreated, IssuePass, Notify, FlagConflict,
              RevokeFlagged, ReportFlagged, Return, At
<1>4. ~ReviewStep /\ ~EraseStep
  BY DEF ReviewStep, AuditReview, DeleteReviewedImages, NotifyReview,
         EraseStep, EraseFaces, EraseIndex, EraseRow, ErasePasses, AuditErased, At
<1>5. \A v \in Calls : /\ \A action \in ReviewActions : ~Review(v, action)
                      /\ ~RevokePass(v) /\ ~Erase(v)
  BY DEF Review, RevokePass, Erase, Operate, LoopFree
<1>6. \A v \in Calls : Purge(v) => rows' = rows /\ passes' = passes
  BY DEF Purge
<1>7. Crash \/ UNCHANGED vars => rows' = rows /\ passes' = passes
  BY DEF Crash, vars
<1> QED BY <1>1, <1>2, <1>3, <1>4, <1>5, <1>6, <1>7 DEF Next

\* A step leaves the loop saving what it was saving, or has just inserted a row.
LEMMA SavingStep ==
    ASSUME Inv, [Next]_vars, Saving'
    PROVE  \/ Saving /\ loop'.call = loop.call /\ ~IssuePass
           \/ \E c \in Calls : Decides(c) /\ loop'.call = c /\ passes' = passes
<1> USE DEF store, Saving, Inv
<1>1. ASSUME NEW c \in Documents, DocumentStep(c), ~FinaliseDocument(c)
      PROVE  loop' = loop /\ ~IssuePass
  BY <1>1 DEF DocumentStep, Submit, SyncTimeout, Start, ReadIndex, StopAtQuality,
              FinaliseRejected, IssuePass, At, LoopFree, Go, TypeOK, LoopOK
<1>2. ASSUME NEW c \in Documents, FinaliseDocument(c)
      PROVE  c \in Calls /\ Decides(c) /\ loop'.call = c /\ passes' = passes
  BY <1>2 DEF FinaliseDocument, Decides, Calls
<1>3. ASSUME NEW c \in PassCalls, VerifyWithPass(c), ~KeyTaken(c)
      PROVE  c \in Calls /\ Decides(c) /\ loop'.call = c /\ passes' = passes
  BY <1>3 DEF VerifyWithPass, Decides, Calls
<1>4. ASSUME NEW c \in PassCalls, VerifyWithPass(c), KeyTaken(c) PROVE FALSE
  BY <1>4 DEF VerifyWithPass, LoopFree
<1>5. ASSUME FinaliseStep PROVE Saving /\ loop'.call = loop.call /\ ~IssuePass
  <2> USE DEF At, Go, Idle, TypeOK, LoopOK
  <2>1. CASE SaveBlobs \/ Index \/ AuditCreated
    BY <2>1 DEF SaveBlobs, Index, AuditCreated, IssuePass
  <2>2. ~IssuePass /\ ~Notify /\ ~RevokeFlagged
    BY DEF IssuePass, Notify, RevokeFlagged
  <2>3. ~ReportFlagged /\ ~Return
    <3>1. ReportFlagged => loop'.step = "flag"
      BY DEF ReportFlagged
    <3>2. Return => loop'.step = "idle"
      BY DEF Return
    <3> QED BY <3>1, <3>2
  <2>4. \A other \in Calls : ~FlagConflict(other)
    BY DEF FlagConflict
  <2> QED BY <1>5, <2>1, <2>2, <2>3, <2>4 DEF FinaliseStep
<1>6. ~ReviewStep
  BY DEF ReviewStep, AuditReview, DeleteReviewedImages, NotifyReview, At, Go, Idle, TypeOK, LoopOK
<1>7. ~EraseStep
  BY DEF EraseStep, EraseFaces, EraseIndex, EraseRow, ErasePasses, AuditErased, At, Go, Idle,
         TypeOK, LoopOK
<1>8. \A v \in Calls : (\A action \in ReviewActions : ~Review(v, action)) /\ ~Erase(v)
  BY DEF Review, Erase, Idle
<1>9. \A v \in Calls : ~RevokePass(v)
  BY DEF RevokePass, Operate, LoopFree
<1>10. ASSUME NEW v \in Calls, Purge(v) PROVE loop' = loop /\ ~IssuePass
  BY <1>10 DEF Purge, IssuePass, At, Go, TypeOK, LoopOK
<1>11. ~Crash
  BY DEF Crash, Idle
<1>12. ASSUME UNCHANGED vars PROVE loop' = loop /\ ~IssuePass
  BY <1>12 DEF vars, IssuePass, At, Go, TypeOK, LoopOK
<1> QED BY <1>1, <1>2, <1>3, <1>4, <1>5, <1>6, <1>7, <1>8, <1>9, <1>10, <1>11, <1>12 DEF Next

LEMMA FreshStep ==
    ASSUME Inv, Fresh, [Next]_vars
    PROVE  Fresh'
<1> SUFFICES ASSUME Saving'
             PROVE  /\ rows'[loop'.call].review = "none"
                    /\ ~rows'[loop'.call].flagged /\ ~rows'[loop'.call].erased
                    /\ rows'[loop'.call].decision = rows'[loop'.call].automated
                    /\ passes'[loop'.call] = "none"
  BY DEF Fresh
<1>1. CASE Saving /\ loop'.call = loop.call /\ ~IssuePass
  BY <1>1, SavingIsUndisturbed DEF Fresh
<1>2. ASSUME NEW c \in Calls, Decides(c), loop'.call = c, passes' = passes
      PROVE  /\ rows'[c].review = "none" /\ ~rows'[c].flagged /\ ~rows'[c].erased
             /\ rows'[c].decision = rows'[c].automated
             /\ passes'[c] = "none"
  <2>1. passes[c] = "none"
    BY <1>2 DEF Decides, FinaliseDocument, VerifyWithPass, Inv, NotYetRow, PassHasRow
  <2>2. Inserted(c)
    BY <1>2, DocumentInserts, PassInserts DEF Decides, Inv
  <2> QED BY <1>2, <2>1, <2>2 DEF Inserted, NewRow, Inv, TypeOK
<1> QED BY <1>1, <1>2, SavingStep

LEMMA ErasingStep ==
    ASSUME Inv, Erasing, [Next]_vars
    PROVE  Erasing'
<1> USE DEF store, Inv, TypeOK, LoopOK, EraseLocked
<1>1. ASSUME loop'.step \notin EraseLocked PROVE Erasing'
  BY <1>1 DEF Erasing
<1>2. ASSUME UNCHANGED loop, blobs' \subseteq blobs, faces' \subseteq faces, index' \subseteq index
      PROVE  Erasing'
  BY <1>2 DEF Erasing
<1>3. ASSUME NEW c \in Documents, DocumentStep(c) PROVE Erasing'
  <2>1. CASE FinaliseDocument(c)
    BY <1>1, <2>1 DEF FinaliseDocument
  <2>2. CASE ~FinaliseDocument(c)
    BY <1>2, <1>3, <2>2
       DEF DocumentStep, Submit, SyncTimeout, Start, ReadIndex, StopAtQuality, FinaliseRejected
  <2> QED BY <2>1, <2>2
<1>4. ASSUME NEW c \in PassCalls, VerifyWithPass(c) PROVE Erasing'
  <2>1. loop'.step \notin EraseLocked
    BY <1>4 DEF VerifyWithPass, LoopFree
  <2> QED BY <1>1, <2>1
<1>5. CASE FinaliseStep
  <2>1. loop'.step \notin EraseLocked
    <3>1. CASE SaveBlobs \/ Index \/ AuditCreated \/ IssuePass \/ Notify \/ RevokeFlagged
      BY <3>1 DEF SaveBlobs, Index, AuditCreated, IssuePass, Notify, RevokeFlagged, Go
    <3>2. ReportFlagged => loop'.step = "flag"
      BY DEF ReportFlagged
    <3>3. Return => loop'.step = "idle"
      BY DEF Return, Idle
    <3>4. ASSUME NEW other \in Calls, FlagConflict(other) PROVE loop'.step \in {"flag", "revoke"}
      BY <3>4 DEF FlagConflict, At
    <3> QED BY <1>5, <3>1, <3>2, <3>3, <3>4 DEF FinaliseStep
  <2> QED BY <1>1, <2>1
<1>6. CASE ReviewStep
  <2>1. loop'.step \notin EraseLocked
    BY <1>6 DEF ReviewStep, AuditReview, DeleteReviewedImages, NotifyReview, Go, Idle
  <2> QED BY <1>1, <2>1
<1>7. CASE EraseFaces
  BY <1>7 DEF EraseFaces, At, Go, Erasing
<1>8. CASE EraseIndex
  BY <1>8 DEF EraseIndex, At, Go, Erasing
<1>9. CASE EraseRow
  BY <1>9 DEF EraseRow, At, Go, Erasing
<1>10. CASE ErasePasses \/ AuditErased
  BY <1>1, <1>10 DEF ErasePasses, AuditErased, At, Go, Idle
<1>11. ASSUME NEW v \in Calls, NEW action \in ReviewActions, Review(v, action) PROVE Erasing'
  BY <1>1, <1>11 DEF Review, Idle
<1>12. ASSUME NEW v \in Calls, Erase(v) PROVE Erasing'
  BY <1>12 DEF Erase, Erasing, Idle
<1>13. ASSUME NEW v \in Calls, RevokePass(v) \/ Purge(v) PROVE Erasing'
  BY <1>2, <1>13 DEF RevokePass, Purge
<1>14. CASE Crash
  BY <1>1, <1>14 DEF Crash, Idle
<1>15. CASE UNCHANGED vars
  BY <1>2, <1>15 DEF vars
<1> QED BY <1>3, <1>4, <1>5, <1>6, <1>7, <1>8, <1>9, <1>10, <1>11, <1>12, <1>13, <1>14, <1>15
     DEF Next, EraseStep

LEMMA FreshAndErasing == Spec => [](Fresh /\ Erasing)
<1>1. Init => Fresh /\ Erasing
  BY DEF Init, Fresh, Saving, Erasing, EraseLocked, Idle
<1>2. Inv /\ Fresh /\ Erasing /\ [Next]_vars => Fresh' /\ Erasing'
  BY FreshStep, ErasingStep
<1> QED BY <1>1, <1>2, Invariance, PTL DEF Spec

------------------------------------------------------------------------------
(* Erasure *)

LEMMA ErasureStep ==
    ASSUME Inv, Fresh, Erasing, ErasedLeavesNothing, [Next]_vars
    PROVE  ErasedLeavesNothing'
<1> USE DEF store, Inv
<1> SUFFICES ASSUME NEW v \in Calls, rows'[v].erased
             PROVE  v \notin blobs' \cup faces' \cup index'
  BY DEF ErasedLeavesNothing
<1>1. CASE EraseRow /\ v = loop.call
  BY <1>1 DEF EraseRow, At, Erasing, EraseLocked
<1>2. CASE ~(EraseRow /\ v = loop.call)
  <2>1. rows[v].erased
    <3>1. RowChange(v) /\ rows[v] \in Row
      BY RowStep DEF TypeOK
    <3>2. CASE rows'[v] = rows[v]
      BY <3>2
    <3>3. CASE NewRow(rows'[v], Request[v].policy.min)
      BY <3>3 DEF NewRow
    <3>4. CASE rows'[v] = FlaggedRow(rows[v])
      BY <3>1, <3>4 DEF FlaggedRow, Row
    <3>5. ASSUME NEW action \in ReviewActions, rows'[v] = Reviewed(rows[v], action)
          PROVE  rows[v].erased
      BY <3>1, <3>5 DEF Reviewed, Row
    <3> QED BY <1>2, <3>1, <3>2, <3>3, <3>4, <3>5 DEF RowChange
  <2>2. v \notin blobs \cup faces \cup index
    BY <2>1 DEF ErasedLeavesNothing
  <2>3. ASSUME SaveBlobs \/ Index PROVE v # loop.call
    BY <2>1, <2>3 DEF SaveBlobs, Index, At, Fresh, Saving
  <2>4. ASSUME blobs' \subseteq blobs, faces' \subseteq faces, index' \subseteq index
        PROVE  v \notin blobs' \cup faces' \cup index'
    BY <2>2, <2>4
  <2>5. CASE SaveBlobs \/ Index
    BY <2>2, <2>3, <2>5 DEF SaveBlobs, Index
  <2>6. ASSUME NEW c \in Documents, DocumentStep(c) PROVE v \notin blobs' \cup faces' \cup index'
    BY <2>4, <2>6
       DEF DocumentStep, Submit, SyncTimeout, Start, ReadIndex, StopAtQuality,
           FinaliseDocument, FinaliseRejected
  <2>7. ASSUME NEW c \in PassCalls, VerifyWithPass(c) PROVE v \notin blobs' \cup faces' \cup index'
    BY <2>4, <2>7 DEF VerifyWithPass
  <2>8. CASE FinaliseStep
    BY <2>4, <2>5, <2>8
       DEF FinaliseStep, AuditCreated, IssuePass, Notify, FlagConflict, RevokeFlagged,
           ReportFlagged, Return
  <2>9. CASE ReviewStep \/ EraseStep
    BY <2>4, <2>9
       DEF ReviewStep, AuditReview, DeleteReviewedImages, NotifyReview,
           EraseStep, EraseFaces, EraseIndex, EraseRow, ErasePasses, AuditErased
  <2>10. ASSUME NEW w \in Calls,
                \/ \E action \in ReviewActions : Review(w, action)
                \/ RevokePass(w) \/ Erase(w) \/ Purge(w)
         PROVE  v \notin blobs' \cup faces' \cup index'
    BY <2>4, <2>10 DEF Review, RevokePass, Erase, Purge
  <2>11. CASE Crash \/ UNCHANGED vars
    BY <2>4, <2>11 DEF Crash, vars
  <2> QED BY <2>6, <2>7, <2>8, <2>9, <2>10, <2>11 DEF Next
<1> QED BY <1>1, <1>2

\* An erased verification keeps no image, face or index entry, with the sweeper,
\* other handlers and crashes between the statements of Store.erase (sqlite.py:291-311).
THEOREM ErasureIsComplete == Spec => []ErasedLeavesNothing
<1>1. Init => ErasedLeavesNothing
  BY DEF Init, ErasedLeavesNothing, NoRow
<1>2. Inv /\ Fresh /\ Erasing /\ ErasedLeavesNothing /\ [Next]_vars => ErasedLeavesNothing'
  BY ErasureStep
<1> QED BY <1>1, <1>2, Invariance, FreshAndErasing, PTL DEF Spec

------------------------------------------------------------------------------
(* Passes *)

\* What a step may do to the pass of a verification.
LEMMA PassStep ==
    ASSUME Inv, Fresh, [Next]_vars, NEW v \in Calls
    PROVE  \/ passes'[v] = passes[v]
           \/ passes[v] = "active" /\ passes'[v] = "revoked"
           \/ /\ IssuePass /\ v = loop.call /\ EarnsPass(v)
              /\ passes[v] = "none" /\ passes'[v] = "active"
<1> USE DEF store
<1> DEFINE Goal == \/ passes'[v] = passes[v]
                   \/ passes[v] = "active" /\ passes'[v] = "revoked"
                   \/ /\ IssuePass /\ v = loop.call /\ EarnsPass(v)
                      /\ passes[v] = "none" /\ passes'[v] = "active"
<1> SUFFICES Goal
  OBVIOUS
<1>1. ASSUME UNCHANGED passes PROVE Goal
  BY <1>1
<1>2. ASSUME NEW w, passes' = Revoked(w) PROVE Goal
  BY <1>2 DEF Revoked, Inv, TypeOK
<1>3. CASE IssuePass
  BY <1>3 DEF IssuePass, At, Fresh, Saving, Inv, TypeOK
<1> HIDE DEF Goal
<1>4. ASSUME NEW c \in Documents, DocumentStep(c) PROVE Goal
  BY <1>1, <1>4
     DEF DocumentStep, Submit, SyncTimeout, Start, ReadIndex, StopAtQuality,
         FinaliseDocument, FinaliseRejected
<1>5. ASSUME NEW c \in PassCalls, VerifyWithPass(c) PROVE Goal
  BY <1>1, <1>5 DEF VerifyWithPass
<1>6. CASE FinaliseStep
  BY <1>1, <1>2, <1>3, <1>6
     DEF FinaliseStep, SaveBlobs, Index, AuditCreated, Notify, FlagConflict,
         RevokeFlagged, ReportFlagged, Return
<1>7. CASE ReviewStep \/ EraseStep
  <2>1. CASE ErasePasses
    <3>1. passes' = Revoked(loop.call)
      BY <2>1 DEF ErasePasses
    <3> QED BY <1>2, <3>1
  <2>2. CASE ReviewStep
    BY <1>1, <2>2 DEF ReviewStep, AuditReview, DeleteReviewedImages, NotifyReview
  <2>3. CASE EraseFaces \/ EraseIndex \/ EraseRow \/ AuditErased
    BY <1>1, <2>3 DEF EraseFaces, EraseIndex, EraseRow, AuditErased
  <2> QED BY <1>7, <2>1, <2>2, <2>3 DEF EraseStep
<1>8. ASSUME NEW w \in Calls,
             \/ \E action \in ReviewActions : Review(w, action)
             \/ RevokePass(w) \/ Erase(w) \/ Purge(w)
      PROVE  Goal
  BY <1>1, <1>2, <1>8 DEF Review, RevokePass, Erase, Purge
<1>9. CASE Crash \/ UNCHANGED vars
  BY <1>1, <1>9 DEF Crash, vars
<1> QED BY <1>4, <1>5, <1>6, <1>7, <1>8, <1>9 DEF Next

\* The loop leaves the point between marking and revoking only by revoking, or by a crash.
LEMMA RevokeIsNext ==
    ASSUME Inv, [Next]_vars, loop.step = "revoke"
    PROVE  RevokeFlagged \/ loop' = loop \/ Crash
<1> USE DEF store
<1>1. ASSUME NEW c \in Documents, DocumentStep(c) PROVE loop' = loop
  BY <1>1 DEF DocumentStep, Submit, SyncTimeout, Start, ReadIndex, StopAtQuality,
              FinaliseDocument, FinaliseRejected, LoopFree
<1>2. \A c \in PassCalls : ~VerifyWithPass(c)
  BY DEF VerifyWithPass, LoopFree
<1>3. FinaliseStep => RevokeFlagged
  BY DEF FinaliseStep, SaveBlobs, Index, AuditCreated, IssuePass, Notify, FlagConflict,
         ReportFlagged, Return, At
<1>4. ~ReviewStep /\ ~EraseStep
  BY DEF ReviewStep, AuditReview, DeleteReviewedImages, NotifyReview,
         EraseStep, EraseFaces, EraseIndex, EraseRow, ErasePasses, AuditErased, At
<1>5. \A v \in Calls : /\ \A action \in ReviewActions : ~Review(v, action)
                      /\ ~RevokePass(v) /\ ~Erase(v)
  BY DEF Review, RevokePass, Erase, Operate, LoopFree
<1>6. \A v \in Calls : Purge(v) => loop' = loop
  BY DEF Purge
<1> QED BY <1>1, <1>2, <1>3, <1>4, <1>5, <1>6 DEF Next, vars

LEMMA CrashesGrow ==
    ASSUME Inv, [Next]_vars, crashes' = 0
    PROVE  crashes = 0 /\ ~Crash
<1> USE DEF store
<1>1. ~Crash
  BY SettingsAssumption DEF Crash, Inv, TypeOK
<1>2. Next /\ ~Crash => UNCHANGED crashes
  BY DEF Next, DocumentStep, Submit, SyncTimeout, Start, ReadIndex, StopAtQuality,
         FinaliseDocument, FinaliseRejected, VerifyWithPass,
         FinaliseStep, SaveBlobs, Index, AuditCreated, IssuePass, Notify, FlagConflict,
         RevokeFlagged, ReportFlagged, Return,
         ReviewStep, AuditReview, DeleteReviewedImages, NotifyReview,
         EraseStep, EraseFaces, EraseIndex, EraseRow, ErasePasses, AuditErased,
         Review, RevokePass, Erase, Purge
<1> QED BY <1>1, <1>2 DEF vars

LEMMA FlaggedStep ==
    ASSUME Inv, Fresh, FlaggedPassIsDead, [Next]_vars
    PROVE  FlaggedPassIsDead'
<1> USE DEF Inv
<1> SUFFICES ASSUME NEW v \in Calls, crashes' = 0, rows'[v].duplicate,
                    ~(loop'.step = "revoke" /\ loop'.other = v), passes'[v] = "active"
             PROVE  FALSE
  BY DEF FlaggedPassIsDead, At
<1>1. crashes = 0 /\ ~Crash
  BY CrashesGrow
<1>2. ~IssuePass
  <2> SUFFICES ASSUME IssuePass PROVE FALSE
    OBVIOUS
  <2>1. Saving /\ rows' = rows /\ loop.step = "pass"
    BY DEF IssuePass, At, Saving, store
  <2>2. CASE v = loop.call
    <3>1. passes[v] = "none"
      BY <2>1, <2>2 DEF Fresh
    <3>2. EarnsPass(v)
      BY <3>1, PassStep
    <3> QED BY <3>2, <2>1 DEF EarnsPass
  <2>3. CASE v # loop.call
    <3>1. passes[v] = "active"
      BY <2>3, PassStep
    <3> QED BY <1>1, <2>1, <3>1 DEF FlaggedPassIsDead, At
  <2> QED BY <2>2, <2>3
<1>3. passes[v] = "active"
  BY <1>2, PassStep
<1>4. Exists(v)
  BY <1>3 DEF PassHasRow
<1>5. CASE rows[v].duplicate
  <2>1. loop.step = "revoke" /\ loop.other = v
    BY <1>1, <1>3, <1>5 DEF FlaggedPassIsDead, At
  <2>2. RevokeFlagged
    <3>1. RevokeFlagged \/ loop' = loop
      BY <1>1, <2>1, RevokeIsNext
    <3> QED BY <2>1, <3>1
  <2>3. passes' = Revoked(v)
    BY <2>1, <2>2 DEF RevokeFlagged
  <2> QED BY <2>3 DEF Revoked, TypeOK
<1>6. CASE ~rows[v].duplicate
  <2>1. RowChange(v) /\ rows[v] \in Row
    BY RowStep DEF TypeOK
  <2>2. ~Decides(v)
    BY <1>4 DEF Decides, FinaliseDocument, VerifyWithPass, NotYetRow, Calls
  <2>3. rows'[v] # rows[v]
    BY <1>6
  <2>4. \A action \in ReviewActions : rows'[v] # Reviewed(rows[v], action)
    BY <1>6, <2>1 DEF Reviewed, Row
  <2>5. rows'[v] # [rows[v] EXCEPT !.erased = TRUE]
    BY <1>6, <2>1 DEF Row
  <2>6. FlagConflict(v) /\ rows'[v] # rows[v]
    BY <2>1, <2>2, <2>3, <2>4, <2>5 DEF RowChange
  <2>7. loop'.step = "revoke" /\ loop'.other = v
    BY <2>6 DEF FlagConflict, TypeOK, LoopOK
  <2> QED BY <2>7
<1> QED BY <1>5, <1>6

\* Without a crash, a verification under duplicate suspicion has no active pass once
\* _flag_conflict is past its revocation, and never gets one (service.py:257-274, 330-331).
THEOREM FlaggedPassesDie == Spec => []FlaggedPassIsDead
<1>1. Init => FlaggedPassIsDead
  BY DEF Init, FlaggedPassIsDead, NoRow
<1>2. Inv /\ Fresh /\ FlaggedPassIsDead /\ [Next]_vars => FlaggedPassIsDead'
  BY FlaggedStep
<1> QED BY <1>1, <1>2, Invariance, FreshAndErasing, PTL DEF Spec
------------------------------------------------------------------------------
(* What the trail and the platform are still owed *)

\* Nothing is taken out of the trail or the outbox.
LEMMA TracesGrow ==
    ASSUME [Next]_vars
    PROVE  trail \subseteq trail' /\ outbox \subseteq outbox'
<1> USE DEF store
<1> DEFINE Goal == trail \subseteq trail' /\ outbox \subseteq outbox'
<1>1. ASSUME NEW c \in Documents, DocumentStep(c) PROVE Goal
  BY <1>1 DEF DocumentStep, Submit, SyncTimeout, Start, ReadIndex, StopAtQuality,
              FinaliseDocument, FinaliseRejected
<1>2. ASSUME NEW c \in PassCalls, VerifyWithPass(c) PROVE Goal
  BY <1>2 DEF VerifyWithPass
<1>3. CASE FinaliseStep
  <2>1. CASE SaveBlobs \/ Index \/ Notify \/ Return
    BY <2>1 DEF SaveBlobs, Index, Notify, Return
  <2>3. ASSUME NEW other \in Calls, FlagConflict(other) PROVE Goal
    BY <2>3 DEF FlagConflict
  <2>2. CASE AuditCreated \/ IssuePass \/ RevokeFlagged \/ ReportFlagged
    BY <2>2 DEF AuditCreated, IssuePass, RevokeFlagged, ReportFlagged
  <2> QED BY <1>3, <2>1, <2>2, <2>3 DEF FinaliseStep
<1>4. CASE ReviewStep \/ EraseStep
  BY <1>4 DEF ReviewStep, AuditReview, DeleteReviewedImages, NotifyReview,
              EraseStep, EraseFaces, EraseIndex, EraseRow, ErasePasses, AuditErased
<1>5. ASSUME NEW v \in Calls,
             \/ \E action \in ReviewActions : Review(v, action)
             \/ RevokePass(v) \/ Erase(v) \/ Purge(v)
      PROVE  Goal
  BY <1>5 DEF Review, RevokePass, Erase, Purge
<1>6. CASE Crash \/ UNCHANGED vars
  BY <1>6 DEF Crash, vars
<1> QED BY <1>1, <1>2, <1>3, <1>4, <1>5, <1>6 DEF Next

\* While a handler is in progress, only its own next statement touches the record.
LEMMA BusyStep ==
    ASSUME [Next]_vars, ~LoopFree, ~Crash
    PROVE  FinaliseStep \/ ReviewStep \/ EraseStep \/ UNCHANGED <<loop, rows>>
<1> USE DEF store
<1>1. ASSUME NEW c \in Documents, DocumentStep(c) PROVE UNCHANGED <<loop, rows>>
  BY <1>1 DEF DocumentStep, Submit, SyncTimeout, Start, ReadIndex, StopAtQuality,
              FinaliseDocument, FinaliseRejected
<1>2. \A c \in PassCalls : ~VerifyWithPass(c)
  BY DEF VerifyWithPass
<1>3. \A v \in Calls : /\ \A action \in ReviewActions : ~Review(v, action)
                      /\ ~RevokePass(v) /\ ~Erase(v)
  BY DEF Review, RevokePass, Erase, Operate
<1>4. \A v \in Calls : Purge(v) => UNCHANGED <<loop, rows>>
  BY DEF Purge
<1>5. UNCHANGED vars => UNCHANGED <<loop, rows>>
  BY DEF vars
<1> QED BY <1>1, <1>2, <1>3, <1>4, <1>5 DEF Next

\* The loop is going to announce the decision of v, or to write the named entry about it.
Works(v, steps) == loop.call = v /\ loop.step \in steps
Flagging(v) == loop.other = v /\ loop.step \in {"revoke", "report"}
OwesHook(v) ==
    Works(v, {"blobs", "index", "audit", "pass", "notify"} \cup ReviewSteps) \/ Flagging(v)
OwesCreated(v) == Works(v, {"blobs", "index", "audit"})
OwesReviewed(v) == Works(v, {"review_audit"})
OwesErased(v) == Works(v, {"erase_passes", "erase_audit"})

Told(v) == \E event \in Hooks : <<event, v, rows[v].decision>> \in outbox

\* What is owed is still owed after a step, or is in the trail and the outbox.
LEMMA OwedStep ==
    ASSUME TypeOK, [Next]_vars, ~Crash, NEW v \in Calls
    PROVE  /\ OwesHook(v) => OwesHook(v)' \/ Told(v)'
           /\ OwesCreated(v) => OwesCreated(v)' \/ <<"created", v>> \in trail'
           /\ Flagging(v) => Flagging(v)' \/ <<"flagged", v>> \in trail'
           /\ OwesReviewed(v) => OwesReviewed(v)' \/ <<"reviewed", v>> \in trail'
           /\ OwesErased(v) => OwesErased(v)' \/ <<"erased", v>> \in trail'
<1> USE DEF TypeOK, LoopOK, At, Go, store, ReviewSteps, OwesHook, OwesCreated, OwesReviewed,
            OwesErased, Works, Flagging
<1> DEFINE Goal ==
           /\ OwesHook(v) => OwesHook(v)' \/ Told(v)'
           /\ OwesCreated(v) => OwesCreated(v)' \/ <<"created", v>> \in trail'
           /\ Flagging(v) => Flagging(v)' \/ <<"flagged", v>> \in trail'
           /\ OwesReviewed(v) => OwesReviewed(v)' \/ <<"reviewed", v>> \in trail'
           /\ OwesErased(v) => OwesErased(v)' \/ <<"erased", v>> \in trail'
<1> SUFFICES Goal
  OBVIOUS
<1>1. ASSUME UNCHANGED <<loop, rows>> PROVE Goal
  BY <1>1
<1>2. CASE LoopFree
  BY <1>2 DEF LoopFree
<1>3. CASE SaveBlobs
  BY <1>3 DEF SaveBlobs
<1>4. CASE Index
  BY <1>4 DEF Index
<1>5. CASE AuditCreated
  BY <1>5 DEF AuditCreated
<1>6. CASE IssuePass
  BY <1>6 DEF IssuePass
<1>7. CASE Notify
  <2>1. loop.call = v => Told(v)'
    BY <1>7 DEF Notify, Told, Hooks
  <2> QED BY <1>7, <2>1 DEF Notify
<1>8. ASSUME NEW other \in Calls, FlagConflict(other) PROVE Goal
  BY <1>8 DEF FlagConflict
<1>9. CASE RevokeFlagged
  BY <1>9 DEF RevokeFlagged
<1>10. CASE ReportFlagged
  <2>1. loop.other = v => Told(v)' /\ <<"flagged", v>> \in trail'
    BY <1>10 DEF ReportFlagged, Told, Hooks
  <2> QED BY <1>10, <2>1 DEF ReportFlagged
<1>11. CASE Return
  BY <1>11 DEF Return
<1>12. CASE AuditReview
  BY <1>12 DEF AuditReview
<1>13. CASE DeleteReviewedImages
  BY <1>13 DEF DeleteReviewedImages
<1>14. CASE NotifyReview
  <2>1. loop.call = v => Told(v)'
    BY <1>14 DEF NotifyReview, Told, Hooks
  <2> QED BY <1>14, <2>1 DEF NotifyReview
<1>15. CASE EraseStep
  BY <1>15 DEF EraseStep, EraseFaces, EraseIndex, EraseRow, ErasePasses, AuditErased
<1> HIDE DEF Goal, TypeOK, LoopOK, At, Go, store, OwesHook, OwesCreated, OwesReviewed,
             OwesErased, Works, Flagging
<1>16. CASE FinaliseStep
  BY <1>3, <1>4, <1>5, <1>6, <1>7, <1>8, <1>9, <1>10, <1>11, <1>16 DEF FinaliseStep
<1>17. CASE ReviewStep
  BY <1>12, <1>13, <1>14, <1>17 DEF ReviewStep
<1> QED BY <1>1, <1>2, <1>15, <1>16, <1>17, BusyStep

------------------------------------------------------------------------------
(* Announcements *)

\* Every decision has been announced, or the handler that changed it is about to.
Announced == crashes = 0 => \A v \in Calls : Exists(v) => Told(v) \/ OwesHook(v)

LEMMA AnnouncedStep ==
    ASSUME Inv, Announced, [Next]_vars
    PROVE  Announced'
<1> USE DEF Inv
<1> SUFFICES ASSUME NEW v \in Calls, crashes' = 0, Exists(v)' PROVE Told(v)' \/ OwesHook(v)'
  BY DEF Announced
<1>1. crashes = 0 /\ ~Crash
  BY CrashesGrow
<1>2. RowChange(v) /\ rows[v] \in Row
  BY RowStep DEF TypeOK
<1>3. ASSUME Exists(v), rows'[v].decision = rows[v].decision PROVE Told(v)' \/ OwesHook(v)'
  <2>1. CASE Told(v)
    BY <1>3, <2>1, TracesGrow DEF Told
  <2>2. CASE OwesHook(v)
    BY <1>1, <2>2, OwedStep
  <2> QED BY <1>1, <1>3, <2>1, <2>2 DEF Announced
<1>4. CASE rows'[v] = rows[v]
  BY <1>3, <1>4 DEF Exists
<1>5. CASE Decides(v)
  BY <1>5 DEF Decides, FinaliseDocument, VerifyWithPass, OwesHook, Works
<1>6. CASE FlagConflict(v) /\ rows'[v] # rows[v]
  BY <1>6 DEF FlagConflict, TypeOK, LoopOK, OwesHook, Flagging
<1>7. ASSUME NEW action \in ReviewActions, Review(v, action) PROVE OwesHook(v)'
  BY <1>7 DEF Review, Idle, OwesHook, Works, ReviewSteps
<1>8. CASE EraseRow /\ v = loop.call /\ rows'[v] = [rows[v] EXCEPT !.erased = TRUE]
  <2>1. Exists(v) /\ rows'[v].decision = rows[v].decision
    BY <1>2, <1>8 DEF EraseRow, At, LoopRows, Row
  <2> QED BY <1>3, <2>1
<1> QED BY <1>2, <1>4, <1>5, <1>6, <1>7, <1>8 DEF RowChange

\* Without a crash, the platform has been told the current decision of every
\* verification whenever no handler is in progress (service.py:211, 338, routes.py:225).
THEOREM DecisionsAreAnnounced == Spec => []DecisionAnnounced
<1>1. Init => Announced
  BY DEF Init, Announced, Exists, NoRow
<1>2. Inv /\ Announced /\ [Next]_vars => Announced'
  BY AnnouncedStep
<1>3. Announced => DecisionAnnounced
  BY DEF Announced, DecisionAnnounced, Told, LoopFree, OwesHook, Works, Flagging, ReviewSteps
<1> QED BY <1>1, <1>2, <1>3, Invariance, PTL DEF Spec

------------------------------------------------------------------------------
(* The audit trail *)

\* Whatever happened to a verification is in the trail, or is about to be.
RowAudited(v) ==
    /\ Exists(v) => <<"created", v>> \in trail \/ OwesCreated(v)
    /\ rows[v].flagged => <<"flagged", v>> \in trail \/ Flagging(v)
    /\ rows[v].review # "none" => <<"reviewed", v>> \in trail \/ OwesReviewed(v)
    /\ rows[v].erased => <<"erased", v>> \in trail \/ OwesErased(v)
PassAudited(v) ==
    /\ passes[v] # "none" => <<"issued", v>> \in trail
    /\ passes[v] = "revoked" => <<"revoked", v>> \in trail
Audited == crashes = 0 => \A v \in Calls : RowAudited(v) /\ PassAudited(v)

\* A pass is issued, and revoked, together with its entry.
LEMMA PassEntries ==
    ASSUME Inv, Fresh, [Next]_vars, NEW v \in Calls
    PROVE  /\ passes[v] = "none" /\ passes'[v] # "none" => <<"issued", v>> \in trail'
           /\ passes[v] = "active" /\ passes'[v] = "revoked" => <<"revoked", v>> \in trail'
<1> USE DEF store
<1> DEFINE Issued == passes[v] = "none" /\ passes'[v] # "none" => <<"issued", v>> \in trail'
           Dead == passes[v] = "active" /\ passes'[v] = "revoked" => <<"revoked", v>> \in trail'
<1>1. Issued
  <2> SUFFICES ASSUME passes[v] = "none", passes'[v] # "none" PROVE <<"issued", v>> \in trail'
    OBVIOUS
  <2>1. IssuePass /\ v = loop.call /\ EarnsPass(v)
    BY PassStep
  <2> QED BY <2>1 DEF IssuePass
<1>2. Dead
  <2> SUFFICES ASSUME passes[v] = "active", passes'[v] = "revoked"
               PROVE  <<"revoked", v>> \in trail'
    OBVIOUS
  <2>1. ASSUME NEW w, passes' = Revoked(w), trail' = trail \cup RevocationEntry(w)
        PROVE  <<"revoked", v>> \in trail'
    BY <2>1 DEF Revoked, RevocationEntry, Inv, TypeOK
  <2>2. passes' # passes
    OBVIOUS
  <2>3. ~IssuePass
    BY DEF IssuePass, Inv, TypeOK
  <2>4. \A c \in Documents : ~DocumentStep(c)
    BY <2>2 DEF DocumentStep, Submit, SyncTimeout, Start, ReadIndex, StopAtQuality,
                FinaliseDocument, FinaliseRejected
  <2>5. \A c \in PassCalls : ~VerifyWithPass(c)
    BY <2>2 DEF VerifyWithPass
  <2>6. FinaliseStep => RevokeFlagged
    <3>1. ~SaveBlobs /\ ~Index /\ ~AuditCreated /\ ~Notify /\ ~ReportFlagged /\ ~Return
      BY <2>2 DEF SaveBlobs, Index, AuditCreated, Notify, ReportFlagged, Return
    <3>2. \A other \in Calls : ~FlagConflict(other)
      BY <2>2 DEF FlagConflict
    <3> QED BY <2>3, <3>1, <3>2 DEF FinaliseStep
  <2>7. ~ReviewStep /\ (EraseStep => ErasePasses)
    BY <2>2 DEF ReviewStep, AuditReview, DeleteReviewedImages, NotifyReview,
                EraseStep, EraseFaces, EraseIndex, EraseRow, AuditErased
  <2>8. \A w \in Calls : /\ \A action \in ReviewActions : ~Review(w, action)
                        /\ ~Erase(w) /\ ~Purge(w)
    BY <2>2 DEF Review, Erase, Purge
  <2>9. ~Crash /\ ~(UNCHANGED vars)
    BY <2>2 DEF Crash, vars
  <2>10. RevokeFlagged \/ ErasePasses \/ \E w \in Calls : RevokePass(w)
    BY <2>4, <2>5, <2>6, <2>7, <2>8, <2>9 DEF Next
  <2> QED BY <2>1, <2>10 DEF RevokeFlagged, ErasePasses, RevokePass
<1> QED BY <1>1, <1>2

LEMMA AuditedStep ==
    ASSUME Inv, Fresh, Audited, [Next]_vars
    PROVE  Audited'
<1> SUFFICES ASSUME NEW v \in Calls, crashes' = 0 PROVE RowAudited(v)' /\ PassAudited(v)'
  BY DEF Audited
<1> USE DEF Inv
<1>1. crashes = 0 /\ ~Crash
  BY CrashesGrow
<1>0. RowAudited(v) /\ PassAudited(v) /\ ~Crash
  BY <1>1 DEF Audited
<1>2. RowChange(v) /\ rows[v] \in Row
  BY RowStep DEF TypeOK
<1>3. ASSUME Exists(v) PROVE <<"created", v>> \in trail' \/ OwesCreated(v)'
  BY <1>0, <1>3, TracesGrow, OwedStep DEF RowAudited
<1>4. ASSUME rows[v].flagged PROVE <<"flagged", v>> \in trail' \/ Flagging(v)'
  BY <1>0, <1>4, TracesGrow, OwedStep DEF RowAudited
<1>5. ASSUME rows[v].review # "none" PROVE <<"reviewed", v>> \in trail' \/ OwesReviewed(v)'
  BY <1>0, <1>5, TracesGrow, OwedStep DEF RowAudited
<1>6. ASSUME rows[v].erased PROVE <<"erased", v>> \in trail' \/ OwesErased(v)'
  BY <1>0, <1>6, TracesGrow, OwedStep DEF RowAudited
<1>7. PassAudited(v)'
  <2>1. passes'[v] # "none" => <<"issued", v>> \in trail'
    BY <1>0, TracesGrow, PassEntries DEF PassAudited
  <2>2. passes'[v] = "revoked" => <<"revoked", v>> \in trail'
    BY <1>0, TracesGrow, PassEntries, PassStep DEF PassAudited
  <2> QED BY <2>1, <2>2 DEF PassAudited
<1>8. RowAudited(v)'
  <2>1. CASE rows'[v] = rows[v]
    BY <1>3, <1>4, <1>5, <1>6, <2>1 DEF Exists, RowAudited
  <2>2. CASE Decides(v) /\ NewRow(rows'[v], Request[v].policy.min)
    <3>1. OwesCreated(v)'
      BY <2>2 DEF Decides, FinaliseDocument, VerifyWithPass, OwesCreated, Works
    <3> QED BY <2>2, <3>1 DEF NewRow, RowAudited
  <2>3. CASE FlagConflict(v) /\ ~rows[v].flagged /\ Exists(v) /\ rows'[v] = FlaggedRow(rows[v])
    <3>1. Flagging(v)'
      BY <1>2, <2>3 DEF FlagConflict, TypeOK, LoopOK, Flagging
    <3>2. rows'[v].review = rows[v].review /\ rows'[v].erased = rows[v].erased
      BY <1>2, <2>3 DEF FlaggedRow, Row
    <3> QED BY <1>3, <1>5, <1>6, <2>3, <3>1, <3>2 DEF RowAudited
  <2>4. ASSUME NEW action \in ReviewActions, Review(v, action), Exists(v),
               rows'[v] = Reviewed(rows[v], action)
        PROVE  RowAudited(v)'
    <3>1. OwesReviewed(v)'
      BY <2>4 DEF Review, Idle, OwesReviewed, Works
    <3>2. rows'[v].flagged = rows[v].flagged /\ rows'[v].erased = rows[v].erased
      BY <1>2, <2>4 DEF Reviewed, Row
    <3> QED BY <1>3, <1>4, <1>6, <2>4, <3>1, <3>2 DEF RowAudited
  <2>5. CASE EraseRow /\ v = loop.call /\ rows'[v] = [rows[v] EXCEPT !.erased = TRUE]
    <3>1. OwesErased(v)' /\ Exists(v)
      BY <2>5 DEF EraseRow, At, Go, OwesErased, Works, LoopRows, TypeOK, LoopOK
    <3>2. rows'[v].flagged = rows[v].flagged /\ rows'[v].review = rows[v].review
      BY <1>2, <2>5 DEF Row
    <3> QED BY <1>3, <1>4, <1>5, <3>1, <3>2 DEF RowAudited
  <2> QED BY <1>2, <2>1, <2>2, <2>3, <2>4, <2>5 DEF RowChange
<1> QED BY <1>7, <1>8

\* Without a crash, every creation, flag, review, erasure, pass and revocation is in
\* the audit trail whenever no handler is in progress, in any interleaving of handlers,
\* threads and people (service.py:193-208, 271-273, 331-337, routes.py:220-224,
\* sqlite.py:274-279, 310).
THEOREM TrailIsComplete == Spec => []AuditComplete
<1>1. Init => Audited
  BY DEF Init, Audited, RowAudited, PassAudited, Exists, NoRow
<1>2. Inv /\ Fresh /\ Audited /\ [Next]_vars => Audited'
  BY AuditedStep
<1>3. Audited => AuditComplete
  <2> SUFFICES ASSUME Audited, LoopFree, crashes = 0, NEW v \in Calls
               PROVE  /\ Exists(v) => <<"created", v>> \in trail
                      /\ rows[v].flagged => <<"flagged", v>> \in trail
                      /\ rows[v].review # "none" => <<"reviewed", v>> \in trail
                      /\ rows[v].erased => <<"erased", v>> \in trail
                      /\ passes[v] # "none" => <<"issued", v>> \in trail
                      /\ passes[v] = "revoked" => <<"revoked", v>> \in trail
    BY Zenon DEF AuditComplete
  <2>1. ~OwesCreated(v) /\ ~Flagging(v) /\ ~OwesReviewed(v) /\ ~OwesErased(v)
    BY DEF LoopFree, OwesCreated, OwesReviewed, OwesErased, Works, Flagging
  <2>2. RowAudited(v) /\ PassAudited(v)
    BY DEF Audited
  <2> QED BY <2>1, <2>2 DEF RowAudited, PassAudited
<1> QED BY <1>1, <1>2, <1>3, Invariance, FreshAndErasing, PTL DEF Spec

------------------------------------------------------------------------------
(* Kept images *)

\* A kept image belongs to a verification sent to a person, who has not decided, or
\* whose decision is being saved.
Awaiting(v) ==
    /\ Exists(v) /\ rows[v].automated = "needs_review"
    /\ rows[v].review = "none" \/ Works(v, {"review_audit", "review_images"})
ImagesAwait == ImageStorage = "review_only" /\ crashes = 0 => \A v \in blobs : Awaiting(v)

\* An image is stored by the statement after the insert, and by nothing else.
LEMMA BlobsStep ==
    ASSUME [Next]_vars
    PROVE  \/ blobs' \subseteq blobs
           \/ SaveBlobs /\ blobs' = blobs \cup {loop.call} /\ KeepImages(rows[loop.call])
<1> USE DEF store
<1> DEFINE Goal == \/ blobs' \subseteq blobs
                   \/ SaveBlobs /\ blobs' = blobs \cup {loop.call} /\ KeepImages(rows[loop.call])
<1> SUFFICES Goal
  OBVIOUS
<1>1. ASSUME NEW c \in Documents, DocumentStep(c) PROVE Goal
  BY <1>1 DEF DocumentStep, Submit, SyncTimeout, Start, ReadIndex, StopAtQuality,
              FinaliseDocument, FinaliseRejected
<1>2. ASSUME NEW c \in PassCalls, VerifyWithPass(c) PROVE Goal
  BY <1>2 DEF VerifyWithPass
<1>3. CASE SaveBlobs
  BY <1>3 DEF SaveBlobs
<1>4. CASE Index \/ Notify \/ Return \/ AuditCreated \/ IssuePass \/ RevokeFlagged \/ ReportFlagged
  BY <1>4 DEF Index, Notify, Return, AuditCreated, IssuePass, RevokeFlagged, ReportFlagged
<1>5. ASSUME NEW other \in Calls, FlagConflict(other) PROVE Goal
  BY <1>5 DEF FlagConflict
<1>6. CASE ReviewStep \/ EraseStep
  BY <1>6 DEF ReviewStep, AuditReview, DeleteReviewedImages, NotifyReview,
              EraseStep, EraseFaces, EraseIndex, EraseRow, ErasePasses, AuditErased
<1>7. ASSUME NEW v \in Calls,
             \/ \E action \in ReviewActions : Review(v, action)
             \/ RevokePass(v) \/ Erase(v) \/ Purge(v)
      PROVE  Goal
  BY <1>7 DEF Review, RevokePass, Erase, Purge
<1>8. CASE Crash \/ UNCHANGED vars
  BY <1>8 DEF Crash, vars
<1> HIDE DEF Goal
<1> QED BY <1>1, <1>2, <1>3, <1>4, <1>5, <1>6, <1>7, <1>8 DEF Next, FinaliseStep

\* A review in progress reaches the statement that deletes the images, and takes them.
LEMMA ReviewTakesImages ==
    ASSUME TypeOK, [Next]_vars, ~Crash, ImageStorage = "review_only", NEW v \in blobs',
           v \in blobs, Works(v, {"review_audit", "review_images"})
    PROVE  Works(v, {"review_audit", "review_images"})'
<1> USE DEF Works, At, Go
<1>1. CASE UNCHANGED <<loop, rows>>
  BY <1>1
<1>2. CASE ReviewStep
  BY <1>2 DEF ReviewStep, AuditReview, DeleteReviewedImages, NotifyReview, TypeOK, LoopOK
<1>3. ~EraseStep
  BY DEF EraseStep, EraseFaces, EraseIndex, EraseRow, ErasePasses, AuditErased
<1>4. ~FinaliseStep
  BY DEF FinaliseStep, SaveBlobs, Index, AuditCreated, IssuePass, Notify, FlagConflict,
         RevokeFlagged, ReportFlagged, Return
<1> QED BY <1>1, <1>2, <1>3, <1>4, BusyStep DEF LoopFree

LEMMA ImagesStep ==
    ASSUME Inv, Fresh, ImagesAwait, [Next]_vars
    PROVE  ImagesAwait'
<1> SUFFICES ASSUME ImageStorage = "review_only", crashes' = 0, NEW v \in blobs'
             PROVE  Awaiting(v)'
  BY DEF ImagesAwait
<1> USE DEF Inv
<1>1. crashes = 0 /\ ~Crash
  BY CrashesGrow
<1>2. CASE v \notin blobs
  <2>1. SaveBlobs /\ v = loop.call /\ KeepImages(rows[v])
    BY <1>2, BlobsStep
  <2>2. rows' = rows /\ Saving /\ Exists(v)
    BY <2>1 DEF SaveBlobs, At, Saving, LoopRows
  <2>3. rows[v].automated = "needs_review" /\ rows[v].review = "none"
    BY <2>1, <2>2 DEF KeepImages, Fresh
  <2> QED BY <2>2, <2>3 DEF Awaiting, Exists
<1>3. CASE v \in blobs
  <2>1. Awaiting(v)
    BY <1>1, <1>3 DEF ImagesAwait
  <2>2. v \in Calls
    BY <1>3 DEF TypeOK
  <2>3. RowChange(v) /\ rows[v] \in Row /\ Exists(v)'
    BY <2>1, <2>2, RowStep, RowStays DEF TypeOK, Awaiting
  <2>4. ASSUME rows'[v].automated = rows[v].automated, rows'[v].review = rows[v].review
        PROVE  Awaiting(v)'
    BY <1>1, <1>3, <2>1, <2>3, <2>4, ReviewTakesImages DEF Awaiting
  <2>5. CASE rows'[v] = rows[v]
    BY <2>4, <2>5
  <2>6. ~Decides(v)
    BY <2>1 DEF Awaiting, Decides, FinaliseDocument, VerifyWithPass, NotYetRow, Calls
  <2>7. CASE rows'[v] = FlaggedRow(rows[v])
    BY <2>3, <2>4, <2>7 DEF FlaggedRow, Row
  <2>8. ASSUME NEW action \in ReviewActions, Review(v, action), rows'[v] = Reviewed(rows[v], action)
        PROVE  Awaiting(v)'
    <3>1. rows'[v].automated = rows[v].automated
      BY <2>3, <2>8 DEF Reviewed, Row
    <3>2. Works(v, {"review_audit", "review_images"})'
      BY <2>8 DEF Review, Idle, Works
    <3> QED BY <2>1, <2>3, <3>1, <3>2 DEF Awaiting
  <2>9. CASE rows'[v] = [rows[v] EXCEPT !.erased = TRUE]
    BY <2>3, <2>4, <2>9 DEF Row
  <2> QED BY <2>3, <2>5, <2>6, <2>7, <2>8, <2>9 DEF RowChange
<1> QED BY <1>2, <1>3

\* Under review_only and without a crash, whenever no handler is in progress, an image
\* is kept only for a verification that waits for a person (service.py:188-191, 231-233,
\* routes.py:220-224).
THEOREM ImagesAwaitReview == Spec => []KeptImagesAwaitReview
<1>1. Init => ImagesAwait
  BY DEF Init, ImagesAwait
<1>2. Inv /\ Fresh /\ ImagesAwait /\ [Next]_vars => ImagesAwait'
  BY ImagesStep
<1>3. ImagesAwait => KeptImagesAwaitReview
  BY DEF ImagesAwait, KeptImagesAwaitReview, Awaiting, Works, LoopFree
<1> QED BY <1>1, <1>2, <1>3, Invariance, FreshAndErasing, PTL DEF Spec

------------------------------------------------------------------------------
(* Verification with a pass *)

\* The pass of an erased verification is dead, or is the next thing Store.erase revokes.
ErasedPassIsDead ==
    crashes = 0 =>
        \A v \in Calls : rows[v].erased /\ passes[v] = "active" => Works(v, {"erase_passes"})

LEMMA ErasedPassStep ==
    ASSUME Inv, Fresh, ErasedPassIsDead, [Next]_vars
    PROVE  ErasedPassIsDead'
<1> SUFFICES ASSUME NEW v \in Calls, crashes' = 0, rows'[v].erased, passes'[v] = "active"
             PROVE  Works(v, {"erase_passes"})'
  BY DEF ErasedPassIsDead
<1> USE DEF Inv
<1>1. crashes = 0 /\ ~Crash
  BY CrashesGrow
<1>2. RowChange(v) /\ rows[v] \in Row
  BY RowStep DEF TypeOK
<1>3. CASE IssuePass /\ v = loop.call
  BY <1>3 DEF IssuePass, At, Fresh, Saving
<1>4. CASE passes[v] = "active" /\ rows[v].erased
  <2>1. Works(v, {"erase_passes"})
    BY <1>1, <1>4 DEF ErasedPassIsDead
  <2>2. ~FinaliseStep /\ ~ReviewStep
    BY <2>1 DEF Works, At, FinaliseStep, SaveBlobs, Index, AuditCreated, IssuePass, Notify,
                FlagConflict, RevokeFlagged, ReportFlagged, Return,
                ReviewStep, AuditReview, DeleteReviewedImages, NotifyReview
  <2>3. ~EraseStep
    <3>1. EraseStep => ErasePasses
      BY <2>1 DEF Works, At, EraseStep, EraseFaces, EraseIndex, EraseRow, AuditErased
    <3>2. ~ErasePasses
      BY <1>4, <2>1 DEF ErasePasses, Revoked, Works, TypeOK
    <3> QED BY <3>1, <3>2
  <2> QED BY <1>1, <2>1, <2>2, <2>3, BusyStep DEF LoopFree, Works
<1>5. CASE passes[v] = "active" /\ ~rows[v].erased
  <2>1. Exists(v)
    BY <1>5 DEF PassHasRow
  <2>2. ~Decides(v)
    BY <2>1 DEF Decides, FinaliseDocument, VerifyWithPass, NotYetRow, Calls
  <2>3. rows'[v] # FlaggedRow(rows[v])
    BY <1>2, <1>5 DEF FlaggedRow, Row
  <2>4. \A action \in ReviewActions : rows'[v] # Reviewed(rows[v], action)
    BY <1>2, <1>5 DEF Reviewed, Row
  <2>5. EraseRow /\ v = loop.call
    BY <1>2, <1>5, <2>2, <2>3, <2>4 DEF RowChange
  <2> QED BY <2>5 DEF EraseRow, At, Go, Works, TypeOK, LoopOK
<1> QED BY <1>3, <1>4, <1>5, PassStep DEF TypeOK

\* A pass that is refused leaves a reason that keeps the decision from VERIFIED.
LEMMA RefusedPassBlocks ==
    ASSUME NEW c \in PassCalls, NEW token \in Tokens, NEW ledger, NEW minLevel,
           passes[Request[c].pass] # "active"
    PROVE  LET check == PassResults(c, Request[c].pass, token)
               others == IF check.status = "pass" THEN ledger ELSE <<>>
           IN  decide(With(others, "pass", check), minLevel).decision # "verified"
<1> DEFINE check == PassResults(c, Request[c].pass, token)
           others == IF check.status = "pass" THEN ledger ELSE <<>>
           results == With(others, "pass", check)
<1>1. check.codes \cap (ActionCodes \cup ReviewCodes) # {}
  <2>1. {"PASS_NOT_ACCEPTED", "PASS_INVALID", "PASS_EXPIRED"} \subseteq ActionCodes
    BY DEF ActionCodes, RetakeIdCodes
  <2>2. {"PASS_SUBJECT_MISMATCH", "PASS_REVOKED"} \subseteq ReviewCodes
    BY DEF ReviewCodes
  <2> QED BY <2>1, <2>2 DEF PassResults, result
<1> HIDE DEF check
<1>2. "pass" \in DOMAIN results /\ results["pass"] = check
  BY DEF With
<1> HIDE DEF results
<1>3. check.codes \subseteq decide(results, minLevel).reasons
  BY <1>2, FoundIsReason
<1>4. decide(results, minLevel).decision # "verified"
  BY <1>1, <1>3, VerifiedHasNoBlocker
<1> QED BY <1>4 DEF results, check

\* Without a crash, no pass of an erased or suspected registration verifies another one,
\* and a revoked pass never does, crash or not (service.py:276-289).
THEOREM LivePassesVerify == Spec => PassVerifiesOnlyWhileLive
<1> DEFINE Live(c) ==
        LET source == Request[c].pass IN
        /\ passes[source] = "active"
        /\ crashes = 0 => ~rows[source].duplicate /\ ~rows[source].erased
<1>1. ASSUME Inv, FlaggedPassIsDead, ErasedPassIsDead, [Next]_vars,
             NEW c \in PassCalls, ~Exists(c), rows'[c].decision = "verified"
      PROVE  Live(c)
  <2> DEFINE source == Request[c].pass
  <2>1. c \in Calls /\ source \in Calls
    BY RequestAssumption DEF Calls
  <2>2. RowChange(c) /\ rows[c] \in Row
    BY <1>1, <2>1, RowStep DEF Inv, TypeOK
  <2>3. rows'[c] # rows[c] /\ ~(EraseRow /\ c = loop.call)
    BY <1>1 DEF Exists, EraseRow, At, Inv, LoopRows
  <2>4. VerifyWithPass(c) /\ ~KeyTaken(c)
    BY <1>1, <2>1, <2>2, <2>3, CallsAssumption DEF RowChange, Decides
  <2>5. passes[source] = "active"
    <3> SUFFICES ASSUME passes[source] # "active" PROVE FALSE
      OBVIOUS
    <3>1. PICK token \in Tokens, ledger \in Ledgers[c] :
              LET check == PassResults(c, Request[c].pass, token)
                  others == IF check.status = "pass" THEN ledger ELSE <<>>
              IN rows' = [rows EXCEPT ![c] =
                             RowFor(decide(With(others, "pass", check), Request[c].policy.min))]
      BY <2>4 DEF VerifyWithPass
    <3> DEFINE check == PassResults(c, Request[c].pass, token)
               others == IF check.status = "pass" THEN ledger ELSE <<>>
               outcome == decide(With(others, "pass", check), Request[c].policy.min)
    <3>2. outcome.decision # "verified"
      BY RefusedPassBlocks
    <3>3. rows'[c] = RowFor(outcome)
      BY <1>1, <2>1, <3>1 DEF Inv, TypeOK
    <3> HIDE DEF outcome
    <3> QED BY <1>1, <3>2, <3>3 DEF RowFor, NoRow
  <2>6. LoopFree
    BY <2>4 DEF VerifyWithPass
  <2>7. crashes = 0 => ~rows[source].duplicate
    BY <1>1, <2>1, <2>5, <2>6 DEF FlaggedPassIsDead, LoopFree, At
  <2>8. crashes = 0 => ~rows[source].erased
    BY <1>1, <2>1, <2>5, <2>6 DEF ErasedPassIsDead, LoopFree, Works
  <2> QED BY <2>5, <2>7, <2>8
<1>2. Init => ErasedPassIsDead
  BY DEF Init, ErasedPassIsDead, NoRow
<1>3. Inv /\ Fresh /\ ErasedPassIsDead /\ [Next]_vars => ErasedPassIsDead'
  BY ErasedPassStep
<1>4. Spec => []ErasedPassIsDead
  BY <1>2, <1>3, Invariance, FreshAndErasing, PTL DEF Spec
<1>5. Inv /\ FlaggedPassIsDead /\ ErasedPassIsDead /\ [Next]_vars =>
        [\A c \in PassCalls : ~Exists(c) /\ rows'[c].decision = "verified" => Live(c)]_vars
  BY <1>1
<1> QED BY <1>4, <1>5, Invariance, FlaggedPassesDie, PTL DEF Spec, PassVerifiesOnlyWhileLive

------------------------------------------------------------------------------
(* Conflicts *)

\* The verification being finalised is the one its worker holds.
SavesOwn == loop.step \in FinaliseSteps => phase[loop.call] = "saving"

\* The index has been read for no call but a document whose checks have ended.
Unread ==
    \A c \in Calls :
        c \in PassCalls \/ phase[c] \in {"new", "queued", "checking"} =>
            evidence[c].duplicates = NotRun

FlaggedIsSuspect == \A v \in Calls : rows[v].flagged => rows[v].duplicate
IndexedExists == \A v \in index \cup faces : Exists(v)

LEMMA SavesOwnStep ==
    ASSUME TypeOK, SavesOwn, [Next]_vars
    PROVE  SavesOwn'
<1> USE DEF store, TypeOK, LoopOK, FinaliseSteps
<1>1. ASSUME UNCHANGED <<phase, loop>> PROVE SavesOwn'
  BY <1>1 DEF SavesOwn
<1>2. ASSUME loop'.step \notin FinaliseSteps PROVE SavesOwn'
  BY <1>2 DEF SavesOwn
<1>3. ASSUME UNCHANGED phase, loop'.call = loop.call, loop.step \in FinaliseSteps PROVE SavesOwn'
  BY <1>3 DEF SavesOwn
<1>4. ASSUME NEW c \in Documents, DocumentStep(c) PROVE SavesOwn'
  <2>1. CASE FinaliseDocument(c)
    BY <2>1 DEF FinaliseDocument, SavesOwn, Calls
  <2>2. CASE ReadIndex(c) \/ StopAtQuality(c)
    BY <2>2 DEF ReadIndex, StopAtQuality, SavesOwn, Calls
  <2>3. CASE Submit(c) \/ SyncTimeout(c) \/ Start(c) \/ FinaliseRejected(c)
    BY <1>2, <2>3 DEF Submit, SyncTimeout, Start, FinaliseRejected, LoopFree
  <2> QED BY <1>4, <2>1, <2>2, <2>3 DEF DocumentStep
<1>5. ASSUME NEW c \in PassCalls, VerifyWithPass(c) PROVE SavesOwn'
  <2>1. CASE KeyTaken(c)
    BY <1>2, <1>5, <2>1 DEF VerifyWithPass, LoopFree
  <2>2. CASE ~KeyTaken(c)
    BY <1>5, <2>2 DEF VerifyWithPass, SavesOwn, Calls
  <2> QED BY <2>1, <2>2
<1>6. CASE FinaliseStep
  <2>1. CASE SaveBlobs \/ Index \/ AuditCreated \/ IssuePass
    BY <1>3, <2>1 DEF SaveBlobs, Index, AuditCreated, IssuePass, At, Go
  <2>2. CASE Notify \/ RevokeFlagged \/ ReportFlagged
    BY <1>3, <2>2 DEF Notify, RevokeFlagged, ReportFlagged, At, Go
  <2>3. ASSUME NEW other \in Calls, FlagConflict(other) PROVE SavesOwn'
    BY <1>3, <2>3 DEF FlagConflict, At
  <2>4. CASE Return
    BY <1>2, <2>4 DEF Return, Idle
  <2> QED BY <1>6, <2>1, <2>2, <2>3, <2>4 DEF FinaliseStep
<1>7. CASE ReviewStep
  BY <1>2, <1>7 DEF ReviewStep, AuditReview, DeleteReviewedImages, NotifyReview, Go, Idle
<1>8. CASE EraseStep
  BY <1>2, <1>8 DEF EraseStep, EraseFaces, EraseIndex, EraseRow, ErasePasses, AuditErased, Go, Idle
<1>9. ASSUME NEW v \in Calls, Erase(v) \/ \E action \in ReviewActions : Review(v, action)
      PROVE  SavesOwn'
  BY <1>2, <1>9 DEF Review, Erase, Idle
<1>10. ASSUME NEW v \in Calls, RevokePass(v) \/ Purge(v) PROVE SavesOwn'
  BY <1>1, <1>10 DEF RevokePass, Purge
<1>11. CASE Crash
  BY <1>2, <1>11 DEF Crash, Idle
<1>12. CASE UNCHANGED vars
  BY <1>1, <1>12 DEF vars
<1> HIDE DEF store, TypeOK, LoopOK, FinaliseSteps
<1> QED BY <1>4, <1>5, <1>6, <1>7, <1>8, <1>9, <1>10, <1>11, <1>12 DEF Next

\* Only the duplicates check of a call changes what is known of it.
LEMMA EvidenceStep ==
    ASSUME TypeOK, [Next]_vars, NEW c \in Calls
    PROVE  evidence'[c] = evidence[c] \/ (c \in Documents /\ ReadIndex(c))
<1> USE DEF store
<1>1. ASSUME UNCHANGED evidence PROVE evidence'[c] = evidence[c]
  BY <1>1
<1>2. ASSUME NEW d \in Documents, DocumentStep(d) PROVE UNCHANGED evidence \/ ReadIndex(d)
  BY <1>2 DEF DocumentStep, Submit, SyncTimeout, Start, StopAtQuality,
              FinaliseDocument, FinaliseRejected
<1>3. ASSUME NEW d \in Documents, ReadIndex(d), d # c PROVE evidence'[c] = evidence[c]
  BY <1>3 DEF ReadIndex, TypeOK
<1>4. ASSUME NEW d \in PassCalls, VerifyWithPass(d) PROVE UNCHANGED evidence
  BY <1>4 DEF VerifyWithPass
<1>5. CASE FinaliseStep
  <2>1. CASE SaveBlobs \/ Index \/ Notify \/ Return
    BY <2>1 DEF SaveBlobs, Index, Notify, Return
  <2>2. CASE AuditCreated \/ IssuePass \/ RevokeFlagged \/ ReportFlagged
    BY <2>2 DEF AuditCreated, IssuePass, RevokeFlagged, ReportFlagged
  <2>3. ASSUME NEW other \in Calls, FlagConflict(other) PROVE UNCHANGED evidence
    BY <2>3 DEF FlagConflict
  <2> QED BY <1>5, <2>1, <2>2, <2>3 DEF FinaliseStep
<1>6. ReviewStep \/ EraseStep => UNCHANGED evidence
  BY DEF ReviewStep, AuditReview, DeleteReviewedImages, NotifyReview,
         EraseStep, EraseFaces, EraseIndex, EraseRow, ErasePasses, AuditErased
<1>7. \A v \in Calls : \/ \E action \in ReviewActions : Review(v, action)
                      \/ RevokePass(v) \/ Erase(v) \/ Purge(v)
                      => UNCHANGED evidence
  BY DEF Review, RevokePass, Erase, Purge
<1>8. Crash \/ UNCHANGED vars => UNCHANGED evidence
  BY DEF Crash, vars
<1> QED BY <1>1, <1>2, <1>3, <1>4, <1>5, <1>6, <1>7, <1>8 DEF Next

\* Only _index adds to the two indexes.
LEMMA IndexStep ==
    ASSUME [Next]_vars
    PROVE  Index \/ (index' \subseteq index /\ faces' \subseteq faces)
<1> USE DEF store
<1> DEFINE Goal == Index \/ (index' \subseteq index /\ faces' \subseteq faces)
<1> SUFFICES Goal
  OBVIOUS
<1>1. ASSUME NEW d \in Documents, DocumentStep(d) PROVE Goal
  BY <1>1 DEF DocumentStep, Submit, SyncTimeout, Start, ReadIndex, StopAtQuality,
              FinaliseDocument, FinaliseRejected
<1>2. ASSUME NEW d \in PassCalls, VerifyWithPass(d) PROVE Goal
  BY <1>2 DEF VerifyWithPass
<1>3. CASE FinaliseStep
  <2>1. CASE SaveBlobs \/ Notify \/ Return
    BY <2>1 DEF SaveBlobs, Notify, Return
  <2>2. CASE AuditCreated \/ IssuePass \/ RevokeFlagged \/ ReportFlagged
    BY <2>2 DEF AuditCreated, IssuePass, RevokeFlagged, ReportFlagged
  <2>3. ASSUME NEW other \in Calls, FlagConflict(other) PROVE Goal
    BY <2>3 DEF FlagConflict
  <2> QED BY <1>3, <2>1, <2>2, <2>3 DEF FinaliseStep
<1>4. CASE ReviewStep \/ EraseStep
  BY <1>4 DEF ReviewStep, AuditReview, DeleteReviewedImages, NotifyReview,
              EraseStep, EraseFaces, EraseIndex, EraseRow, ErasePasses, AuditErased
<1>5. ASSUME NEW v \in Calls,
             \/ \E action \in ReviewActions : Review(v, action)
             \/ RevokePass(v) \/ Erase(v) \/ Purge(v)
      PROVE  Goal
  BY <1>5 DEF Review, RevokePass, Erase, Purge
<1>6. CASE Crash \/ UNCHANGED vars
  BY <1>6 DEF Crash, vars
<1> HIDE DEF Goal
<1> QED BY <1>1, <1>2, <1>3, <1>4, <1>5, <1>6 DEF Next

\* A call comes to a phase before the decision only from the one before.
LEMMA PhaseStep ==
    ASSUME TypeOK, [Next]_vars, NEW c \in Calls
    PROVE  \/ phase'[c] = phase[c]
           \/ phase'[c] \in {"queued", "checking"} /\ phase[c] \in {"new", "queued"}
           \/ phase'[c] = "checked" /\ c \in Documents /\ (ReadIndex(c) \/ StopAtQuality(c))
           \/ phase'[c] \notin {"new", "queued", "checking", "checked"}
<1> USE DEF store
<1> DEFINE Goal ==
           \/ phase'[c] = phase[c]
           \/ phase'[c] \in {"queued", "checking"} /\ phase[c] \in {"new", "queued"}
           \/ phase'[c] = "checked" /\ c \in Documents /\ (ReadIndex(c) \/ StopAtQuality(c))
           \/ phase'[c] \notin {"new", "queued", "checking", "checked"}
<1> SUFFICES Goal
  OBVIOUS
<1>1. ASSUME UNCHANGED phase PROVE Goal
  BY <1>1
<1>2. ASSUME NEW d, NEW new \in {"answered", "saving", "failed", "done"},
             phase' = [phase EXCEPT ![d] = new]
      PROVE  Goal
  BY <1>2 DEF TypeOK
<1>3. ASSUME NEW d \in Documents, DocumentStep(d) PROVE Goal
  <2>1. CASE Submit(d) \/ Start(d)
    BY <2>1 DEF Submit, Start, TypeOK
  <2>2. CASE SyncTimeout(d)
    BY <1>1, <2>2 DEF SyncTimeout
  <2>3. CASE ReadIndex(d) \/ StopAtQuality(d)
    <3>1. phase' = [phase EXCEPT ![d] = "checked"]
      BY <2>3 DEF ReadIndex, StopAtQuality
    <3>2. CASE d = c
      BY <2>3, <3>1, <3>2 DEF TypeOK
    <3>3. CASE d # c
      BY <3>1, <3>3 DEF TypeOK
    <3> QED BY <3>2, <3>3
  <2>4. CASE FinaliseDocument(d)
    BY <1>2, <2>4 DEF FinaliseDocument
  <2>5. CASE FinaliseRejected(d)
    BY <1>2, <2>5 DEF FinaliseRejected
  <2> QED BY <1>3, <2>1, <2>2, <2>3, <2>4, <2>5 DEF DocumentStep
<1>4. ASSUME NEW d \in PassCalls, VerifyWithPass(d) PROVE Goal
  BY <1>4 DEF VerifyWithPass, TypeOK
<1>5. CASE FinaliseStep
  <2>1. CASE Return
    BY <1>2, <2>1 DEF Return
  <2>2. CASE SaveBlobs \/ Index \/ Notify \/ AuditCreated \/ IssuePass \/ RevokeFlagged
         \/ ReportFlagged
    BY <1>1, <2>2
       DEF SaveBlobs, Index, Notify, AuditCreated, IssuePass, RevokeFlagged, ReportFlagged
  <2>3. ASSUME NEW other \in Calls, FlagConflict(other) PROVE Goal
    BY <1>1, <2>3 DEF FlagConflict
  <2> QED BY <1>5, <2>1, <2>2, <2>3 DEF FinaliseStep
<1>6. CASE ReviewStep \/ EraseStep
  BY <1>1, <1>6 DEF ReviewStep, AuditReview, DeleteReviewedImages, NotifyReview,
                    EraseStep, EraseFaces, EraseIndex, EraseRow, ErasePasses, AuditErased
<1>7. ASSUME NEW v \in Calls,
             \/ \E action \in ReviewActions : Review(v, action)
             \/ RevokePass(v) \/ Erase(v) \/ Purge(v)
      PROVE  Goal
  BY <1>1, <1>7 DEF Review, RevokePass, Erase, Purge
<1>8. CASE Crash
  BY <1>8 DEF Crash, TypeOK
<1>9. CASE UNCHANGED vars
  BY <1>1, <1>9 DEF vars
<1> HIDE DEF Goal
<1> QED BY <1>3, <1>4, <1>5, <1>6, <1>7, <1>8, <1>9 DEF Next

LEMMA UnreadStep ==
    ASSUME TypeOK, Unread, [Next]_vars
    PROVE  Unread'
<1> SUFFICES ASSUME NEW c \in Calls,
                    c \in PassCalls \/ phase'[c] \in {"new", "queued", "checking"}
             PROVE  evidence'[c].duplicates = NotRun
  BY DEF Unread
<1>1. c \in PassCalls \/ phase[c] \in {"new", "queued", "checking"}
  BY PhaseStep
<1>2. evidence[c].duplicates = NotRun
  BY <1>1 DEF Unread
<1>3. ASSUME c \in Documents, ReadIndex(c) PROVE FALSE
  BY <1>3, CallsAssumption DEF ReadIndex, TypeOK
<1> QED BY <1>2, <1>3, EvidenceStep

\* Suspicion, once there, stays.
LEMMA SuspicionStays ==
    ASSUME Inv, [Next]_vars, NEW v \in Calls, Exists(v), rows[v].duplicate
    PROVE  rows'[v].duplicate
<1>1. RowChange(v) /\ rows[v] \in Row
  BY RowStep DEF Inv, TypeOK
<1>2. ~Decides(v)
  BY DEF Decides, FinaliseDocument, VerifyWithPass, Inv, NotYetRow, Calls
<1>3. \A action \in ReviewActions : Reviewed(rows[v], action).duplicate = rows[v].duplicate
  BY <1>1 DEF Reviewed, Row
<1>4. FlaggedRow(rows[v]).duplicate
  BY <1>1 DEF FlaggedRow, Row
<1>5. [rows[v] EXCEPT !.erased = TRUE].duplicate = rows[v].duplicate
  BY <1>1 DEF Row
<1> QED BY <1>1, <1>2, <1>3, <1>4, <1>5 DEF RowChange

LEMMA FlaggedIsSuspectStep ==
    ASSUME Inv, FlaggedIsSuspect, [Next]_vars
    PROVE  FlaggedIsSuspect'
<1> SUFFICES ASSUME NEW v \in Calls, rows'[v].flagged PROVE rows'[v].duplicate
  BY DEF FlaggedIsSuspect
<1>1. RowChange(v) /\ rows[v] \in Row
  BY RowStep DEF Inv, TypeOK
<1>2. rows[v].flagged => rows[v].duplicate
  BY DEF FlaggedIsSuspect
<1>3. \A action \in ReviewActions : /\ Reviewed(rows[v], action).duplicate = rows[v].duplicate
                                   /\ Reviewed(rows[v], action).flagged = rows[v].flagged
  BY <1>1 DEF Reviewed, Row
<1>4. FlaggedRow(rows[v]).duplicate
  BY <1>1 DEF FlaggedRow, Row
<1>5. /\ [rows[v] EXCEPT !.erased = TRUE].duplicate = rows[v].duplicate
      /\ [rows[v] EXCEPT !.erased = TRUE].flagged = rows[v].flagged
  BY <1>1 DEF Row
<1> QED BY <1>1, <1>2, <1>3, <1>4, <1>5 DEF RowChange, NewRow

LEMMA IndexedExistsStep ==
    ASSUME Inv, IndexedExists, [Next]_vars
    PROVE  IndexedExists'
<1> SUFFICES ASSUME NEW v \in (index \cup faces)' PROVE Exists(v)'
  BY DEF IndexedExists
<1>1. CASE v \in index \cup faces
  BY <1>1, RowStays DEF IndexedExists, Inv, TypeOK
<1>2. CASE v \notin index \cup faces
  <2>1. Index /\ v = loop.call
    BY <1>2, IndexStep DEF Index
  <2>2. Exists(v) /\ rows' = rows
    BY <2>1 DEF Index, At, Inv, LoopRows
  <2> QED BY <2>2 DEF Exists
<1> QED BY <1>1, <1>2

Ran(c) == evidence[c].duplicates.status \in {"pass", "warn"}

\* What the duplicates check of c looks for, before c is in an index itself.
Related(c, w) ==
    /\ OtherPerson(c, w)
    /\ SharesId(c, w) \/ SharesFact(c, w, "image") \/ (SharesFact(c, w, "face") /\ w \in faces)

\* Two registrations that conflict if both are indexed, and a document that has read the index
\* and is not in it yet.  Conflicting documents are apart when they are never both there.
MayConflict(c, d) ==
    /\ OtherPerson(c, d)
    /\ SharesId(c, d) \/ SharesFact(c, d, "image") \/ SharesFact(c, d, "face")
Unseen(c) ==
    /\ Ran(c)
    /\ phase[c] = "checked" \/ (loop.step \in {"blobs", "index"} /\ loop.call = c)
Apart == \A c, d \in Documents : MayConflict(c, d) => ~(Unseen(c) /\ Unseen(d))

\* A document whose checks have ended knows every conflict that is in the index.
CheckedKnows ==
    \A c \in Documents :
        phase[c] = "checked" /\ Ran(c) =>
            /\ \A w \in index : Related(c, w) => w \in evidence[c].conflicts
            /\ evidence[c].conflicts # {} =>
                   evidence[c].duplicates.codes \cap DuplicateCodes # {}

\* So does the handler that is about to put it into the index, and the row says so.
SavedKnows ==
    loop.step \in {"blobs", "index"} /\ loop.call \in Documents /\ Ran(loop.call) =>
        /\ \A w \in index : Related(loop.call, w) => w \in loop.todo
        /\ loop.todo # {} => rows[loop.call].duplicate

\* Both sides of a conflict are suspected, or the handler is about to flag them.
Marked(v) == rows[v].duplicate \/ (loop.step \in FinaliseSteps /\ v \in loop.todo)
ConflictsMarked ==
    crashes = 0 => \A v, w \in index : Conflicting(v, w) => Marked(v) /\ Marked(w)

\* While a document waits for its decision, none it conflicts with is indexed.
LEMMA IndexKeepsOut ==
    ASSUME Inv, Apart, Unread, [Next]_vars, NEW c \in Documents, phase[c] = "checked", Ran(c),
           NEW w \in index', Related(c, w)'
    PROVE  w \in index /\ Related(c, w)
<1> USE DEF Inv
<1>1. CASE index' \subseteq index /\ faces' \subseteq faces
  BY <1>1 DEF Related
<1>2. CASE Index
  <2>1. PICK d : d = loop.call
    OBVIOUS
  <2>2. d \in Calls /\ index' \subseteq index \cup {d} /\ faces' \subseteq faces \cup {d}
    BY <1>2, <2>1 DEF Index, At, TypeOK, LoopOK
  <2>3. ~Ran(d) => index' = index /\ faces' = faces
    BY <1>2, <2>1 DEF Index, Ran
  <2>4. CASE w = d /\ Ran(d)
    <3>1. d \in Documents
      BY <2>2, <2>4 DEF Unread, Ran, NotRun, result, Calls
    <3>2. MayConflict(c, d)
      BY <2>4 DEF Related, MayConflict
    <3>3. Unseen(c) /\ Unseen(d)
      BY <1>2, <2>1, <2>4 DEF Unseen, Index, At
    <3> QED BY <3>1, <3>2, <3>3 DEF Apart
  <2>5. CASE w # d
    BY <2>2, <2>5 DEF Related
  <2>6. CASE ~Ran(d)
    BY <2>3, <2>6 DEF Related
  <2> QED BY <2>4, <2>5, <2>6
<1> QED BY <1>1, <1>2, IndexStep

\* Reading the index finds what is related, and says so in its codes.
LEMMA ReadFinds ==
    ASSUME TypeOK, NEW c \in Documents, ReadIndex(c), Ran(c)'
    PROVE  /\ \A w \in index : Related(c, w) => w \in evidence'[c].conflicts
           /\ evidence'[c].conflicts # {} =>
                  evidence'[c].duplicates.codes \cap DuplicateCodes # {}
<1>1. c \in Calls
  BY DEF Calls
<1> DEFINE found == IdConflicts(c) \cup ImageConflicts(c) \cup FaceConflicts(c)
           new == [duplicates |-> DuplicatesResult(c), conflicts |-> found]
<1>2. evidence' = [evidence EXCEPT ![c] = new]
  <2>1. ASSUME evidence' = [evidence EXCEPT ![c].duplicates =
                   result("error", {"DUPLICATE_INDEX_UNAVAILABLE"}, UNUSABLE)]
        PROVE  FALSE
    <3>1. evidence'[c].duplicates = result("error", {"DUPLICATE_INDEX_UNAVAILABLE"}, UNUSABLE)
      BY <1>1, <2>1 DEF TypeOK
    <3>2. evidence'[c].duplicates.status = "error"
      BY <3>1 DEF result
    <3> QED BY <3>2 DEF Ran
  <2> QED BY <2>1 DEF ReadIndex
<1>3. evidence'[c].duplicates = DuplicatesResult(c) /\ evidence'[c].conflicts = found
  BY <1>1, <1>2 DEF TypeOK
<1>4. ASSUME NEW w \in index, Related(c, w) PROVE w \in found
  <2>1. CASE SharesId(c, w) \/ SharesFact(c, w, "image")
    BY <1>4, <2>1 DEF Related, IdConflicts, ImageConflicts
  <2>2. CASE ~SharesId(c, w) /\ SharesFact(c, w, "face") /\ w \in faces
    BY <1>4, <2>2 DEF Related, FaceConflicts
  <2> QED BY <1>4, <2>1, <2>2 DEF Related
<1>5. ASSUME found # {} PROVE DuplicatesResult(c).codes \cap DuplicateCodes # {}
  <2>1. DuplicateFindings(c) # {}
    <3>1. {"DUPLICATE_ID_OTHER_IDENTITY", "DUPLICATE_IMAGE", "DUPLICATE_FACE_OTHER_IDENTITY"}
             \subseteq DuplicateCodes
      BY DEF DuplicateCodes
    <3> QED BY <1>5, <3>1 DEF DuplicateFindings
  <2>2. DuplicatesResult(c).codes = DuplicateFindings(c)
    BY <2>1 DEF DuplicatesResult, result
  <2>3. DuplicateFindings(c) \subseteq DuplicateCodes
    BY DEF DuplicateFindings
  <2> QED BY <2>1, <2>2, <2>3
<1> HIDE DEF found
<1> QED BY <1>3, <1>4, <1>5

LEMMA CheckedStep ==
    ASSUME Inv, Apart, Unread, CheckedKnows, [Next]_vars
    PROVE  CheckedKnows'
<1> SUFFICES ASSUME NEW c \in Documents, phase'[c] = "checked", Ran(c)'
             PROVE  /\ \A w \in index' : Related(c, w)' => w \in evidence'[c].conflicts
                    /\ evidence'[c].conflicts # {} =>
                           evidence'[c].duplicates.codes \cap DuplicateCodes # {}
  BY DEF CheckedKnows
<1> USE DEF Inv
<1>0. c \in Calls
  BY DEF Calls
<1>1. CASE ReadIndex(c)
  <2>1. index' = index /\ faces' = faces
    BY <1>1 DEF ReadIndex, store
  <2>2. \A w : Related(c, w)' => Related(c, w)
    BY <2>1 DEF Related
  <2> QED BY <1>1, <2>1, <2>2, ReadFinds
<1>2. CASE StopAtQuality(c)
  <2>1. evidence'[c] = evidence[c] /\ evidence[c].duplicates = NotRun
    BY <1>0, <1>2 DEF StopAtQuality, Unread
  <2> QED BY <2>1 DEF Ran, NotRun, result
<1>3. CASE phase[c] = "checked" /\ ~ReadIndex(c)
  <2>1. evidence'[c] = evidence[c]
    BY <1>0, <1>3, EvidenceStep
  <2>2. Ran(c)
    BY <2>1 DEF Ran
  <2>3. \A w \in index' : Related(c, w)' => w \in index /\ Related(c, w)
    BY <1>3, <2>2, IndexKeepsOut
  <2> QED BY <1>3, <2>1, <2>2, <2>3 DEF CheckedKnows
<1> QED BY <1>0, <1>1, <1>2, <1>3, PhaseStep

\* A duplicate the check found is in the flags of the row.
LEMMA DuplicateIsFlagged ==
    ASSUME TypeOK, NEW c \in Documents, FinaliseDocument(c), Ran(c),
           evidence[c].duplicates.codes \cap DuplicateCodes # {}
    PROVE  rows'[c].duplicate
<1>1. c \in Calls
  BY DEF Calls
<1>2. PICK results \in DocumentResults(c) :
          rows' = [rows EXCEPT ![c] = RowFor(decide(results, Request[c].policy.min))]
  BY DEF FinaliseDocument
<1>3. PICK ledger \in Ledgers[c] : results = With(ledger, "duplicates", evidence[c].duplicates)
  BY DEF DocumentResults, Ran
<1>4. "duplicates" \in DOMAIN results /\ results["duplicates"] = evidence[c].duplicates
  BY <1>3 DEF With
<1> DEFINE outcome == decide(results, Request[c].policy.min)
<1>5. evidence[c].duplicates.codes \subseteq outcome.reasons
  BY <1>4, FoundIsReason
<1>6. outcome.flags = Flagged(outcome.reasons)
  BY DEF decide
<1> HIDE DEF outcome
<1>7. "duplicate_suspected" \in outcome.flags
  BY <1>5, <1>6 DEF Flagged
<1>8. rows'[c] = RowFor(outcome)
  BY <1>1, <1>2 DEF TypeOK, outcome
<1> QED BY <1>7, <1>8 DEF RowFor, NoRow

LEMMA SavedStep ==
    ASSUME Inv, SavesOwn, CheckedKnows, SavedKnows, [Next]_vars
    PROVE  SavedKnows'
<1> USE DEF Inv
<1> SUFFICES ASSUME NEW c \in Documents, loop'.step \in {"blobs", "index"}, loop'.call = c,
                    Ran(c)'
             PROVE  /\ \A w \in index' : Related(c, w)' => w \in loop'.todo
                    /\ loop'.todo # {} => rows'[c].duplicate
  BY DEF SavedKnows, Ran, Related
<1>1. CASE Saving /\ loop.call = c
  <2>1. c \in Calls /\ phase[c] = "saving"
    BY <1>1 DEF Calls, SavesOwn, Saving, FinaliseSteps
  <2>2. ~Crash /\ ~LoopFree
    BY <1>1 DEF Crash, Idle, LoopFree, Saving
  <2>3. SaveBlobs \/ UNCHANGED <<loop, rows>>
    <3>1. ~ReviewStep /\ ~EraseStep
      BY <1>1 DEF Saving, At, ReviewStep, AuditReview, DeleteReviewedImages, NotifyReview,
                  EraseStep, EraseFaces, EraseIndex, EraseRow, ErasePasses, AuditErased
    <3>2. ~Index /\ ~AuditCreated /\ ~IssuePass
      BY DEF Index, AuditCreated, IssuePass, Go, TypeOK, LoopOK
    <3>3. ~Notify /\ ~RevokeFlagged /\ ~ReportFlagged /\ ~Return
      BY <1>1 DEF Saving, At, Notify, RevokeFlagged, ReportFlagged, Return
    <3>4. \A other \in Calls : ~FlagConflict(other)
      BY <1>1 DEF Saving, At, FlagConflict
    <3> QED BY <2>2, <3>1, <3>2, <3>3, <3>4, BusyStep DEF FinaliseStep
  <2>4. loop.step \in {"blobs", "index"} /\ loop'.todo = loop.todo /\ rows' = rows
    BY <2>3 DEF SaveBlobs, At, Go, TypeOK, LoopOK
  <2>5. evidence'[c] = evidence[c]
    BY <2>1, EvidenceStep DEF ReadIndex
  <2>6. index' \subseteq index /\ faces' \subseteq faces
    <3>1. ~Index
      BY <2>4 DEF Index, Go, TypeOK, LoopOK
    <3> QED BY <3>1, IndexStep
  <2>7. \A w : Related(c, w)' => Related(c, w)
    BY <2>6 DEF Related
  <2>8. Ran(c)
    BY <1>1, <2>5 DEF Ran
  <2> QED BY <1>1, <2>4, <2>6, <2>7, <2>8 DEF SavedKnows, Related
<1>2. CASE Decides(c)
  <2>1. FinaliseDocument(c) /\ c \in Documents
    BY <1>2, CallsAssumption DEF Decides
  <2>2. /\ phase[c] = "checked" /\ loop'.todo = evidence[c].conflicts
        /\ index' = index /\ faces' = faces /\ evidence' = evidence
    BY <2>1 DEF FinaliseDocument
  <2>3. Ran(c)
    BY <1>2, <2>2 DEF Ran
  <2>4. \A w : Related(c, w)' => Related(c, w)
    BY <2>2 DEF Related
  <2> QED BY <2>1, <2>2, <2>3, <2>4, DuplicateIsFlagged DEF CheckedKnows
<1>3. Saving'
  BY DEF Saving
<1> QED BY <1>1, <1>2, <1>3, SavingStep

LEMMA MarkedStays ==
    ASSUME Inv, FlaggedIsSuspect, [Next]_vars, ~Crash, NEW v \in Calls, Exists(v), Marked(v)
    PROVE  Marked(v)'
<1> USE DEF Inv
<1>1. CASE rows[v].duplicate
  BY <1>1, SuspicionStays DEF Marked
<1>2. CASE loop.step \in FinaliseSteps /\ v \in loop.todo /\ ~rows[v].duplicate
  <2>1. ~LoopFree /\ ~ReviewStep /\ ~EraseStep
    BY <1>2 DEF FinaliseSteps, At, LoopFree, ReviewStep, AuditReview, DeleteReviewedImages,
                NotifyReview, EraseStep, EraseFaces, EraseIndex, EraseRow, ErasePasses, AuditErased
  <2>2. ASSUME loop'.step \in FinaliseSteps, loop'.todo = loop.todo PROVE Marked(v)'
    BY <1>2, <2>2 DEF Marked
  <2>3. CASE SaveBlobs \/ Index \/ AuditCreated \/ IssuePass
    BY <2>2, <2>3 DEF SaveBlobs, Index, AuditCreated, IssuePass, Go, FinaliseSteps, TypeOK, LoopOK
  <2>4. CASE Notify \/ RevokeFlagged \/ ReportFlagged
    BY <2>2, <2>4 DEF Notify, RevokeFlagged, ReportFlagged, Go, FinaliseSteps, TypeOK, LoopOK
  <2>5. ~Return
    BY <1>2 DEF Return
  <2>6. ASSUME NEW other \in Calls, FlagConflict(other), other # v PROVE Marked(v)'
    <3>1. loop'.step \in FinaliseSteps /\ v \in loop'.todo
      <4>1. /\ loop.step = "flag"
            /\ \/ loop' = [loop EXCEPT !.todo = @ \ {other}]
               \/ loop' = [loop EXCEPT !.step = "revoke", !.other = other, !.todo = @ \ {other}]
        BY <2>6 DEF FlagConflict, At
      <4>2. loop'.step \in {"flag", "revoke"} /\ loop'.todo = loop.todo \ {other}
        BY <4>1 DEF TypeOK, LoopOK
      <4> QED BY <1>2, <2>6, <4>2 DEF FinaliseSteps
    <3> QED BY <3>1 DEF Marked
  <2>7. CASE FlagConflict(v)
    <3>1. ~rows[v].flagged
      BY <1>2 DEF FlaggedIsSuspect
    <3>2. rows'[v] = FlaggedRow(rows[v]) /\ rows[v] \in Row
      BY <2>7, <3>1 DEF FlagConflict, TypeOK
    <3> QED BY <3>2 DEF FlaggedRow, Row, Marked
  <2>8. CASE UNCHANGED <<loop, rows>>
    BY <1>2, <2>2, <2>8
  <2> QED BY <2>1, <2>3, <2>4, <2>5, <2>6, <2>7, <2>8, BusyStep DEF FinaliseStep
<1> QED BY <1>1, <1>2 DEF Marked

LEMMA MarkedStep ==
    ASSUME Inv, FlaggedIsSuspect, IndexedExists, Unread, SavedKnows, ConflictsMarked, [Next]_vars
    PROVE  ConflictsMarked'
<1> USE DEF Inv
<1> SUFFICES ASSUME crashes' = 0, NEW v \in index', NEW w \in index', Conflicting(v, w)'
             PROVE  Marked(v)' /\ Marked(w)'
  BY DEF ConflictsMarked
<1>1. crashes = 0 /\ ~Crash
  BY CrashesGrow
<1>2. \A x \in index : x \in Calls /\ Exists(x)
  BY DEF IndexedExists, TypeOK
<1>3. ASSUME v \in index, w \in index, Conflicting(v, w) PROVE Marked(v)' /\ Marked(w)'
  BY <1>1, <1>2, <1>3, MarkedStays DEF ConflictsMarked
<1>4. CASE index' \subseteq index /\ faces' \subseteq faces
  <2>1. Conflicting(v, w)
    BY <1>4 DEF Conflicting
  <2> QED BY <1>3, <1>4, <2>1
<1>5. CASE Index /\ Ran(loop.call)
  <2>0. PICK c : c = loop.call
    OBVIOUS
  <2>1. /\ c \in Calls /\ rows' = rows /\ loop'.todo = loop.todo /\ loop'.step \in FinaliseSteps
        /\ loop.step = "index" /\ index' = index \cup {c} /\ faces' \subseteq faces \cup {c}
    BY <1>5, <2>0 DEF Index, At, Go, Ran, FinaliseSteps, TypeOK, LoopOK
  <2>2. c \in Documents
    BY <1>5, <2>0, <2>1 DEF Unread, Ran, NotRun, result, Calls
  <2>3. ASSUME NEW x \in index', Conflicting(c, x)' PROVE Marked(c)' /\ Marked(x)'
    <3>1. x # c
      BY <2>3 DEF Conflicting, OtherPerson, OtherRegistration
    <3>2. x \in index /\ Related(c, x)
      BY <2>1, <2>3, <3>1 DEF Conflicting, Related
    <3>3. x \in loop.todo /\ rows[c].duplicate
      BY <1>5, <2>0, <2>1, <2>2, <3>2 DEF SavedKnows
    <3> QED BY <2>1, <3>3 DEF Marked
  <2>4. CASE v = c
    BY <2>3, <2>4
  <2>5. CASE w = c
    <3>1. Conflicting(c, v)'
      BY <2>5 DEF Conflicting, OtherPerson, OtherRegistration, SharesId, SharesFact
    <3> QED BY <2>3, <2>5, <3>1
  <2>6. CASE v # c /\ w # c
    <3>1. v \in index /\ w \in index /\ Conflicting(v, w)
      BY <2>1, <2>6 DEF Conflicting
    <3> QED BY <1>3, <3>1
  <2> QED BY <2>4, <2>5, <2>6
<1>6. CASE Index /\ ~Ran(loop.call)
  BY <1>4, <1>6 DEF Index, Ran
<1> QED BY <1>4, <1>5, <1>6, IndexStep

\* Of any number of registrations on any number of workers, a conflict is missed only by two
\* checks that overlap: as long as no two documents that conflict have both read the index with
\* neither in it, two that share an ID, an image or a face are both under suspicion whenever no
\* handler is in progress (duplicates.py:29-70, service.py:192, 212-213, 313-338).
THEOREM OnlyOverlapHidesConflict == Spec /\ []Apart => []ConflictFlaggedOnBothSides
<1> DEFINE Watched == /\ SavesOwn /\ Unread /\ FlaggedIsSuspect /\ IndexedExists
                      /\ CheckedKnows /\ SavedKnows /\ ConflictsMarked
<1>1. Init => Watched
  <2> SUFFICES ASSUME Init PROVE Watched
    OBVIOUS
  <2>1. SavesOwn /\ Unread
    BY DEF Init, SavesOwn, FinaliseSteps, Idle, Unread, Calls
  <2>2. FlaggedIsSuspect /\ IndexedExists /\ ConflictsMarked
    BY DEF Init, FlaggedIsSuspect, IndexedExists, ConflictsMarked, NoRow
  <2>3. CheckedKnows /\ SavedKnows
    BY DEF Init, CheckedKnows, SavedKnows, Idle, Calls
  <2> QED BY <2>1, <2>2, <2>3
<1>2. Inv /\ Apart /\ Watched /\ [Next]_vars => Watched'
  BY SavesOwnStep, UnreadStep, FlaggedIsSuspectStep, IndexedExistsStep, CheckedStep,
     SavedStep, MarkedStep DEF Inv
<1>3. Watched => ConflictFlaggedOnBothSides
  BY DEF ConflictsMarked, ConflictFlaggedOnBothSides, Marked, LoopFree, FinaliseSteps
<1> QED BY <1>1, <1>2, <1>3, Invariance, PTL DEF Spec

\* What a check found is in its codes, and is a verification that is there.
FoundIsThere ==
    \A v \in Documents : evidence[v].conflicts # {} =>
        /\ phase[v] \notin {"new", "queued", "checking"}
        /\ Ran(v) /\ evidence[v].duplicates.codes \cap DuplicateCodes # {}
        /\ \A w \in evidence[v].conflicts : w \in Calls /\ Exists(w)

\* A conflict that was found marks both sides, or the handler is about to flag the other.
FoundIsMarked ==
    crashes = 0 =>
        \A v \in Documents : \A w \in evidence[v].conflicts :
            Exists(v) => rows[v].duplicate /\ Marked(w)

LEMMA FoundIsThereStep ==
    ASSUME Inv, FoundIsThere, IndexedExists, [Next]_vars
    PROVE  FoundIsThere'
<1> USE DEF Inv
<1> SUFFICES ASSUME NEW v \in Documents, evidence'[v].conflicts # {}
             PROVE  /\ phase'[v] \notin {"new", "queued", "checking"}
                    /\ Ran(v)' /\ evidence'[v].duplicates.codes \cap DuplicateCodes # {}
                    /\ \A w \in evidence'[v].conflicts : w \in Calls /\ Exists(w)'
  BY DEF FoundIsThere
<1>0. v \in Calls
  BY DEF Calls
<1>1. CASE evidence'[v] = evidence[v]
  <2>1. /\ phase[v] \notin {"new", "queued", "checking"} /\ Ran(v)
        /\ evidence[v].duplicates.codes \cap DuplicateCodes # {}
        /\ \A w \in evidence[v].conflicts : w \in Calls /\ Exists(w)
    BY <1>1 DEF FoundIsThere
  <2>2. phase'[v] \notin {"new", "queued", "checking"}
    BY <1>0, <2>1, PhaseStep
  <2>3. \A w \in evidence[v].conflicts : Exists(w)'
    BY <2>1, RowStays
  <2> QED BY <1>1, <2>1, <2>2, <2>3 DEF Ran
<1>2. CASE ReadIndex(v)
  <2>1. phase[v] = "checking" /\ phase'[v] = "checked" /\ rows' = rows
    BY <1>0, <1>2 DEF ReadIndex, TypeOK, store
  <2>2. evidence[v].conflicts = {}
    BY <2>1 DEF FoundIsThere
  <2> DEFINE found == IdConflicts(v) \cup ImageConflicts(v) \cup FaceConflicts(v)
             new == [duplicates |-> DuplicatesResult(v), conflicts |-> found]
             broken == result("error", {"DUPLICATE_INDEX_UNAVAILABLE"}, UNUSABLE)
  <2>3. evidence' = [evidence EXCEPT ![v] = new] \/ evidence' = [evidence EXCEPT ![v].duplicates = broken]
    BY <1>2 DEF ReadIndex
  <2>4. evidence' # [evidence EXCEPT ![v].duplicates = broken]
    <3> HIDE DEF broken
    <3> QED BY <1>0, <2>2 DEF TypeOK
  <2>5. evidence'[v].duplicates = DuplicatesResult(v) /\ evidence'[v].conflicts = found
    <3> HIDE DEF found
    <3> QED BY <1>0, <2>3, <2>4 DEF TypeOK
  <2>6. DuplicatesResult(v).status \in {"pass", "warn"}
    BY DEF DuplicatesResult, result
  <2>7. Ran(v)'
    BY <2>5, <2>6 DEF Ran
  <2>8. found \subseteq index \cup faces
    BY DEF IdConflicts, ImageConflicts, FaceConflicts
  <2>9. \A w \in found : w \in Calls /\ Exists(w)'
    BY <2>1, <2>8 DEF IndexedExists, TypeOK, Exists
  <2> QED BY <1>2, <2>1, <2>5, <2>7, <2>9, ReadFinds
<1> QED BY <1>0, <1>1, <1>2, EvidenceStep

LEMMA FoundIsMarkedStep ==
    ASSUME Inv, FlaggedIsSuspect, FoundIsThere, FoundIsMarked, [Next]_vars
    PROVE  FoundIsMarked'
<1> USE DEF Inv
<1> SUFFICES ASSUME crashes' = 0, NEW v \in Documents, NEW w \in evidence'[v].conflicts, Exists(v)'
             PROVE  rows'[v].duplicate /\ Marked(w)'
  BY DEF FoundIsMarked
<1>0. v \in Calls
  BY DEF Calls
<1>1. crashes = 0 /\ ~Crash
  BY CrashesGrow
<1>2. CASE Exists(v)
  <2>1. ~ReadIndex(v)
    BY <1>0, <1>2 DEF ReadIndex, NotYetRow
  <2>2. w \in evidence[v].conflicts
    BY <1>0, <2>1, EvidenceStep
  <2>3. rows[v].duplicate /\ Marked(w) /\ w \in Calls /\ Exists(w)
    BY <1>1, <1>2, <2>2 DEF FoundIsMarked, FoundIsThere
  <2> QED BY <1>0, <1>1, <1>2, <2>3, SuspicionStays, MarkedStays
<1>3. CASE ~Exists(v)
  <2>1. RowChange(v)
    BY <1>0, RowStep
  <2>2. ~(EraseRow /\ v = loop.call)
    BY <1>3 DEF EraseRow, At, LoopRows
  <2>3. Decides(v)
    BY <1>3, <2>1, <2>2 DEF RowChange, Exists
  <2>4. FinaliseDocument(v)
    BY <2>3, CallsAssumption DEF Decides
  <2>5. evidence' = evidence /\ loop'.step = "blobs" /\ loop'.todo = evidence[v].conflicts
    BY <2>4 DEF FinaliseDocument
  <2>6. Ran(v) /\ evidence[v].duplicates.codes \cap DuplicateCodes # {}
    BY <2>5 DEF FoundIsThere
  <2> QED BY <2>4, <2>5, <2>6, DuplicateIsFlagged DEF Marked, FinaliseSteps
<1> QED BY <1>2, <1>3

\* On any number of workers, a conflict that a check found marks both registrations by the
\* time its handler is done, whatever happened to the other in between (duplicates.py:106,
\* service.py:212-213, 313-338).
THEOREM FoundConflictsMarkBoth == Spec => []FoundConflictMarksBoth
<1> DEFINE Watched == /\ Unread /\ FlaggedIsSuspect /\ IndexedExists
                      /\ FoundIsThere /\ FoundIsMarked
<1>1. Init => Watched
  BY DEF Init, Unread, Calls, FlaggedIsSuspect, IndexedExists, NoRow, FoundIsThere, FoundIsMarked
<1>2. Inv /\ Watched /\ [Next]_vars => Watched'
  BY UnreadStep, FlaggedIsSuspectStep, IndexedExistsStep, FoundIsThereStep, FoundIsMarkedStep DEF Inv
<1>3. Watched => FoundConflictMarksBoth
  BY DEF FoundIsMarked, FoundConflictMarksBoth, Marked, LoopFree, FinaliseSteps
<1> QED BY <1>1, <1>2, <1>3, Invariance, PTL DEF Spec

------------------------------------------------------------------------------
(* The refinement: VerificationService implements DecisionRecord.  Every step of a
   handler, a thread or a crash is one step of the record's promise, or changes
   neither the record nor the pass. *)

(* A verification that is not there has a blank row *)

BlankRows == \A v \in Calls : ~Exists(v) => rows[v] = NoRow

LEMMA BlankRowsStep ==
    ASSUME Inv, BlankRows, [Next]_vars
    PROVE  BlankRows'
<1> SUFFICES ASSUME NEW v \in Calls, ~Exists(v)' PROVE rows'[v] = NoRow
  BY DEF BlankRows
<1>1. ~Exists(v)
  BY RowStays DEF Inv
<1>2. rows[v] = NoRow
  BY <1>1 DEF BlankRows
<1>3. RowChange(v)
  BY RowStep DEF Inv
<1>4. ~NewRow(rows'[v], Request[v].policy.min)
  BY DEF NewRow, Exists, Decisions
<1>5. ~(EraseRow /\ v = loop.call)
  BY <1>1 DEF EraseRow, At, Inv, LoopRows
<1> QED BY <1>1, <1>2, <1>3, <1>4, <1>5 DEF RowChange

LEMMA RowsStartBlank == Spec => []BlankRows
<1>1. Init => BlankRows
  BY DEF Init, BlankRows
<1>2. Inv /\ BlankRows /\ [Next]_vars => BlankRows'
  BY BlankRowsStep
<1> QED BY <1>1, <1>2, Invariance, PTL DEF Spec

------------------------------------------------------------------------------
(* The steps that change a row *)

\* Replacing one row replaces what is kept of it.
LEMMA KeptUpdate ==
    ASSUME NEW v \in Calls, NEW row, rows \in [Calls -> Row], rows' = [rows EXCEPT ![v] = row]
    PROVE  KeptRows' = [KeptRows EXCEPT ![v] = Kept(row)]
BY DEF KeptRows

Entry(decision, flagged, person, erased) ==
    [decision |-> decision, flagged |-> flagged, person |-> person, erased |-> erased]

\* What is kept of a row, by whether a person has decided.
LEMMA KeptEntry ==
    ASSUME NEW row, NEW flagged, NEW erased, row.flagged = flagged, row.erased = erased
    PROVE  /\ row.review = "none" => Kept(row) = Entry(row.decision, flagged, FALSE, erased)
           /\ row.review # "none" => Kept(row) = Entry(row.decision, flagged, TRUE, erased)
<1>1. CASE row.review = "none"
  BY <1>1 DEF Kept, Entry
<1>2. CASE row.review # "none"
  BY <1>2 DEF Kept, Entry
<1> QED BY <1>1, <1>2

\* Two rows that agree on all that is kept but one field.
LEMMA KeptDecision ==
    ASSUME NEW row, NEW after, after.flagged = row.flagged, after.erased = row.erased,
           after.review = row.review
    PROVE  Kept(after) = [Kept(row) EXCEPT !.decision = after.decision]
<1> DEFINE person == row.review # "none"
<1>1. Kept(row) = [ decision |-> row.decision, flagged |-> row.flagged,
                    person |-> person, erased |-> row.erased ]
  BY DEF Kept
<1>2. Kept(after) = [ decision |-> after.decision, flagged |-> row.flagged,
                      person |-> person, erased |-> row.erased ]
  BY DEF Kept
<1> HIDE DEF person
<1> QED BY <1>1, <1>2

LEMMA KeptErased ==
    ASSUME NEW row, NEW after, after.decision = row.decision, after.flagged = row.flagged,
           after.review = row.review
    PROVE  Kept(after) = [Kept(row) EXCEPT !.erased = after.erased]
<1> DEFINE person == row.review # "none"
<1>1. Kept(row) = [ decision |-> row.decision, flagged |-> row.flagged,
                    person |-> person, erased |-> row.erased ]
  BY DEF Kept
<1>2. Kept(after) = [ decision |-> row.decision, flagged |-> row.flagged,
                      person |-> person, erased |-> after.erased ]
  BY DEF Kept
<1> HIDE DEF person
<1> QED BY <1>1, <1>2

LEMMA BlankEntry ==
    /\ Record!Blank = Entry("none", FALSE, FALSE, FALSE)
    /\ Kept(NoRow) = Record!Blank
<1>1. Record!Blank = Entry("none", FALSE, FALSE, FALSE)
  BY DEF Record!Blank, Entry
<1>2. /\ NoRow.flagged = FALSE /\ NoRow.erased = FALSE
      /\ NoRow.review = "none" /\ NoRow.decision = "none"
  BY DEF NoRow
<1>3. Kept(NoRow) = Entry("none", FALSE, FALSE, FALSE)
  BY <1>2, KeptEntry
<1> QED BY <1>1, <1>3

LEMMA DecideRefines ==
    ASSUME Inv, BlankRows, NEW c \in Calls, Decides(c), passes' = passes
    PROVE  Record!Decide(c)
<1>1. PICK row \in Row : NewRow(row, Request[c].policy.min) /\ rows' = [rows EXCEPT ![c] = row]
  BY DocumentInserts, PassInserts DEF Decides, Inserted, Inv
<1>2. ~Exists(c)
  BY DEF Decides, FinaliseDocument, VerifyWithPass, Inv, TypeOK, NotYetRow
<1>3. KeptRows[c] = Kept(NoRow)
  BY <1>2 DEF BlankRows, KeptRows
<1>4. Kept(row) = [KeptRows[c] EXCEPT !.decision = row.decision]
  <2>1. row.flagged = FALSE /\ row.erased = FALSE /\ row.review = "none"
    BY <1>1 DEF NewRow, Row
  <2>2. row.flagged = NoRow.flagged /\ row.erased = NoRow.erased /\ row.review = NoRow.review
    BY <2>1 DEF NoRow
  <2>3. Kept(row) = [Kept(NoRow) EXCEPT !.decision = row.decision]
    BY <2>2, KeptDecision
  <2> QED BY <1>3, <2>3
<1>5. KeptRows' = [KeptRows EXCEPT ![c].decision = row.decision]
  BY <1>1, <1>4, KeptUpdate DEF Inv, TypeOK
<1>6. KeptRows[c].decision = "none"
  BY <1>3 DEF Kept, NoRow
<1> QED BY <1>1, <1>5, <1>6 DEF Record!Decide, Record!Decided, NewRow

LEMMA FlagRefines ==
    ASSUME Inv, NEW v \in Calls, Exists(v), ~rows[v].flagged,
           rows' = [rows EXCEPT ![v] = FlaggedRow(rows[v])], passes' = passes
    PROVE  Record!Flag(v)
<1> DEFINE row == rows[v]
           decision == IF row.review = "none" /\ row.decision = "verified"
                       THEN "needs_review" ELSE row.decision
<1>1. row \in Row /\ KeptRows[v] = Kept(row)
  BY DEF Inv, TypeOK, KeptRows
<1>2. Kept(FlaggedRow(row)) = [ decision |-> decision, flagged |-> TRUE,
                                person |-> row.review # "none", erased |-> row.erased ]
  BY <1>1 DEF Kept, FlaggedRow, Row
<1>3. KeptRows' = [KeptRows EXCEPT ![v] = Kept(FlaggedRow(row))]
  BY KeptUpdate DEF Inv, TypeOK
<1>4. KeptRows' = [KeptRows EXCEPT ![v].flagged = TRUE,
                                   ![v].decision = IF ~KeptRows[v].person /\ @ = "verified"
                                                   THEN "needs_review" ELSE @]
  BY <1>1, <1>2, <1>3 DEF Kept, KeptRows
<1>5. KeptRows[v].decision # "none" /\ ~KeptRows[v].flagged
  BY <1>1 DEF Kept, Exists
<1> QED BY <1>4, <1>5 DEF Record!Flag, Record!Decided

LEMMA RuleRefines ==
    ASSUME Inv, NEW v \in Calls, NEW action \in ReviewActions, Exists(v),
           rows' = [rows EXCEPT ![v] = Reviewed(rows[v], action)], passes' = passes
    PROVE  Record!Rule(v)
<1> DEFINE row == rows[v]
           decision == ReviewDecisions[action]
<1>1. row \in Row /\ KeptRows[v] = Kept(row)
  BY DEF Inv, TypeOK, KeptRows
<1>2. decision \in {"verified", "not_eligible", "action_required"} /\ action # "none"
  BY DEF ReviewActions, ReviewDecisions
<1>3. Kept(Reviewed(row, action)) = [ decision |-> decision, flagged |-> row.flagged,
                                      person |-> TRUE, erased |-> row.erased ]
  BY <1>1, <1>2 DEF Kept, Reviewed, Row
<1>4. KeptRows' = [KeptRows EXCEPT ![v] = Kept(Reviewed(row, action))]
  BY KeptUpdate DEF Inv, TypeOK
<1>5. KeptRows' = [KeptRows EXCEPT ![v].decision = decision, ![v].person = TRUE]
  BY <1>1, <1>3, <1>4 DEF Kept, KeptRows
<1>6. KeptRows[v].decision # "none"
  BY <1>1 DEF Kept, Exists
<1> QED BY <1>2, <1>5, <1>6 DEF Record!Rule, Record!Decided

LEMMA RedactRefines ==
    ASSUME Inv, EraseRow
    PROVE  Record!Redact(loop.call)
<1> DEFINE v == loop.call
           row == rows[v]
<1>0. v \in Calls /\ Exists(v) /\ rows' = [rows EXCEPT ![v] = [row EXCEPT !.erased = TRUE]]
  BY DEF EraseRow, At, Inv, LoopRows, TypeOK, LoopOK
<1>1. row \in Row /\ KeptRows[v] = Kept(row)
  BY <1>0 DEF Inv, TypeOK, KeptRows
<1>2. Kept([row EXCEPT !.erased = TRUE]) = [Kept(row) EXCEPT !.erased = TRUE]
  <2> DEFINE after == [row EXCEPT !.erased = TRUE]
  <2>1. /\ after.decision = row.decision /\ after.flagged = row.flagged
        /\ after.review = row.review /\ after.erased = TRUE
    BY <1>1 DEF Row
  <2>2. Kept(after) = [Kept(row) EXCEPT !.erased = after.erased]
    BY <2>1, KeptErased
  <2> QED BY <2>1, <2>2
<1>3. KeptRows' = [KeptRows EXCEPT ![v] = Kept([row EXCEPT !.erased = TRUE])]
  BY <1>0, KeptUpdate DEF Inv, TypeOK
<1>4. KeptRows' = [KeptRows EXCEPT ![v].erased = TRUE]
  BY <1>1, <1>2, <1>3
<1>5. KeptRows[v].decision # "none"
  BY <1>0, <1>1 DEF Kept, Exists
<1>6. passes' = passes
  BY DEF EraseRow
<1> QED BY <1>4, <1>5, <1>6 DEF Record!Redact, Record!Decided

------------------------------------------------------------------------------
(* Every step *)

\* A step that keeps the rows changes at most the pass of one verification.
LEMMA PassRefines ==
    ASSUME Inv, Fresh, [Next]_vars, rows' = rows
    PROVE  [Record!Next]_<<KeptRows, passes>>
<1> USE DEF store
<1>0. KeptRows' = KeptRows
  BY DEF KeptRows
<1>1. ASSUME passes' = passes PROVE [Record!Next]_<<KeptRows, passes>>
  BY <1>0, <1>1
<1>2. ASSUME NEW v \in Calls, passes' = Revoked(v) PROVE [Record!Next]_<<KeptRows, passes>>
  <2>1. CASE passes[v] = "active"
    <3>1. passes' = [passes EXCEPT ![v] = "revoked"]
      BY <1>2, <2>1 DEF Revoked
    <3>2. Record!Revoke(v)
      BY <1>0, <2>1, <3>1 DEF Record!Revoke
    <3> QED BY <3>2 DEF Record!Next
  <2>2. CASE passes[v] # "active"
    <3>1. passes' = passes
      BY <1>2, <2>2 DEF Revoked, Inv, TypeOK
    <3> QED BY <1>1, <3>1
  <2> QED BY <2>1, <2>2
<1>3. ASSUME IssuePass PROVE [Record!Next]_<<KeptRows, passes>>
  <2> DEFINE c == loop.call
  <2>1. CASE ~EarnsPass(c)
    BY <1>1, <1>3, <2>1 DEF IssuePass
  <2>2. CASE EarnsPass(c)
    <3>1. c \in Calls /\ passes' = [passes EXCEPT ![c] = "active"] /\ passes[c] = "none"
      BY <1>3, <2>2 DEF IssuePass, At, Fresh, Saving, Inv, TypeOK, LoopOK
    <3>2. /\ rows[c].decision = "verified" /\ rows[c].review = "none"
          /\ rows[c].flagged = FALSE /\ rows[c].erased = FALSE
      BY <1>3, <2>2, <3>1 DEF IssuePass, EarnsPass, At, Fresh, Saving, Inv, TypeOK, Row
    <3>3. KeptRows[c] = [Record!Blank EXCEPT !.decision = "verified"]
      <4>1. /\ rows[c].flagged = NoRow.flagged /\ rows[c].erased = NoRow.erased
            /\ rows[c].review = NoRow.review
        BY <3>2 DEF NoRow
      <4>2. Kept(rows[c]) = [Kept(NoRow) EXCEPT !.decision = rows[c].decision]
        BY <4>1, KeptDecision
      <4> QED BY <3>1, <3>2, <4>2, BlankEntry DEF KeptRows
    <3>4. Record!Issue(c)
      BY <1>0, <3>1, <3>3 DEF Record!Issue
    <3> QED BY <3>1, <3>4 DEF Record!Next
  <2> QED BY <2>1, <2>2
<1> HIDE DEF store
<1> DEFINE Goal == [Record!Next]_<<KeptRows, passes>>
<1> SUFFICES Goal
  OBVIOUS
<1> HIDE DEF Goal
<1>4. \A v \in Calls : passes' = Revoked(v) => Goal
  BY <1>2 DEF Goal
<1>5. passes' = passes \/ IssuePass => Goal
  BY <1>1, <1>3 DEF Goal
<1>6. ASSUME NEW c \in Documents, DocumentStep(c) PROVE Goal
  BY <1>5, <1>6
     DEF store, DocumentStep, Submit, SyncTimeout, Start, ReadIndex, StopAtQuality,
         FinaliseDocument, FinaliseRejected
<1>7. ASSUME NEW c \in PassCalls, VerifyWithPass(c) PROVE Goal
  BY <1>5, <1>7 DEF VerifyWithPass
<1>8. CASE FinaliseStep
  <2>1. RevokeFlagged => loop.other \in Calls /\ passes' = Revoked(loop.other)
    BY DEF RevokeFlagged, At, Inv, TypeOK, LoopOK
  <2>2. ~RevokeFlagged => passes' = passes \/ IssuePass
    BY <1>8 DEF store, FinaliseStep, SaveBlobs, Index, AuditCreated, Notify, FlagConflict,
                ReportFlagged, Return
  <2> QED BY <1>4, <1>5, <2>1, <2>2
<1>9. CASE ReviewStep
  BY <1>5, <1>9 DEF store, ReviewStep, AuditReview, DeleteReviewedImages, NotifyReview
<1>10. CASE EraseStep
  <2>1. ErasePasses => loop.call \in Calls /\ passes' = Revoked(loop.call)
    BY DEF ErasePasses, At, Inv, TypeOK, LoopOK
  <2>2. ~ErasePasses => passes' = passes
    BY <1>10 DEF EraseStep, EraseFaces, EraseIndex, EraseRow, AuditErased
  <2> QED BY <1>4, <1>5, <2>1, <2>2
<1>11. ASSUME NEW w \in Calls,
              \/ \E action \in ReviewActions : Review(w, action)
              \/ RevokePass(w) \/ Erase(w) \/ Purge(w)
       PROVE  Goal
  BY <1>4, <1>5, <1>11 DEF Review, RevokePass, Erase, Purge
<1>12. CASE Crash \/ UNCHANGED vars
  BY <1>5, <1>12 DEF Crash, vars, store
<1> QED BY <1>6, <1>7, <1>8, <1>9, <1>10, <1>11, <1>12 DEF Next

LEMMA StepRefines ==
    ASSUME Inv, Fresh, BlankRows, [Next]_vars
    PROVE  [Record!Next]_<<KeptRows, passes>>
<1> DEFINE Goal == [Record!Next]_<<KeptRows, passes>>
<1> SUFFICES Goal
  OBVIOUS
<1>1. rows' = rows => Goal
  BY PassRefines
<1>2. ASSUME NEW c \in Calls, Decides(c) PROVE Goal
  <2>1. passes' = passes
    BY <1>2 DEF Decides, FinaliseDocument, VerifyWithPass
  <2>2. Record!Decide(c)
    BY <1>2, <2>1, DecideRefines
  <2> QED BY <2>2 DEF Record!Next
<1>3. ASSUME NEW v \in Calls, FlagConflict(v), rows' # rows PROVE Goal
  <2>1. Exists(v) /\ ~rows[v].flagged /\ rows' = [rows EXCEPT ![v] = FlaggedRow(rows[v])]
        /\ passes' = passes
    BY <1>3 DEF FlagConflict
  <2>2. Record!Flag(v)
    BY <2>1, FlagRefines
  <2> QED BY <2>2 DEF Record!Next
<1>4. ASSUME NEW v \in Calls, NEW action \in ReviewActions, Review(v, action) PROVE Goal
  <2>1. Exists(v) /\ rows' = [rows EXCEPT ![v] = Reviewed(rows[v], action)] /\ passes' = passes
    BY <1>4 DEF Review, Reviewed
  <2>2. Record!Rule(v)
    BY <2>1, RuleRefines
  <2> QED BY <2>2 DEF Record!Next
<1>5. ASSUME EraseRow PROVE Goal
  <2>1. Record!Redact(loop.call) /\ loop.call \in Calls
    BY <1>5, RedactRefines DEF EraseRow, At, Inv, TypeOK, LoopOK
  <2> QED BY <2>1 DEF Record!Next
<1> HIDE DEF Goal
<1>6. ASSUME NEW c \in Documents, DocumentStep(c) PROVE Goal
  <2>1. c \in Calls /\ (FinaliseDocument(c) => Decides(c))
    BY DEF Calls, Decides
  <2>2. ~FinaliseDocument(c) => rows' = rows
    BY <1>6 DEF store, DocumentStep, Submit, SyncTimeout, Start, ReadIndex, StopAtQuality,
                FinaliseRejected
  <2> QED BY <1>1, <1>2, <2>1, <2>2
<1>7. ASSUME NEW c \in PassCalls, VerifyWithPass(c) PROVE Goal
  <2>1. c \in Calls /\ (~KeyTaken(c) => Decides(c))
    BY <1>7 DEF Calls, Decides
  <2>2. KeyTaken(c) => rows' = rows
    BY <1>7 DEF VerifyWithPass
  <2> QED BY <1>1, <1>2, <2>1, <2>2
<1>8. CASE FinaliseStep
  BY <1>1, <1>3, <1>8
     DEF store, FinaliseStep, SaveBlobs, Index, AuditCreated, IssuePass, Notify,
         RevokeFlagged, ReportFlagged, Return
<1>9. CASE ReviewStep
  BY <1>1, <1>9 DEF store, ReviewStep, AuditReview, DeleteReviewedImages, NotifyReview
<1>10. CASE EraseStep
  BY <1>1, <1>5, <1>10 DEF EraseStep, EraseFaces, EraseIndex, ErasePasses, AuditErased
<1>11. ASSUME NEW w \in Calls,
              \/ \E action \in ReviewActions : Review(w, action)
              \/ RevokePass(w) \/ Erase(w) \/ Purge(w)
       PROVE  Goal
  BY <1>1, <1>4, <1>11 DEF RevokePass, Erase, Purge
<1>12. CASE Crash \/ UNCHANGED vars
  BY <1>1, <1>12 DEF Crash, vars, store
<1> QED BY <1>6, <1>7, <1>8, <1>9, <1>10, <1>11, <1>12 DEF Next

\* The rows of the store and the passes behave as DecisionRecord promises, for any
\* number of calls, workers, operations and crashes.
THEOREM RecordIsKept == Spec => KeepsRecord
<1>1. Init => Record!Init
  BY BlankEntry DEF Init, Record!Init, KeptRows
<1>2. Inv /\ Fresh /\ BlankRows /\ [Next]_vars => [Record!Next]_<<KeptRows, passes>>
  BY StepRefines
<1> QED BY <1>1, <1>2, Invariance, FreshAndErasing, RowsStartBlank, PTL
     DEF Spec, KeepsRecord, Record!Spec

------------------------------------------------------------------------------
(* What the service and the document path know of each other *)

LEMMA DuplicatesFinding ==
    ASSUME NEW c
    PROVE  /\ DuplicatesResult(c) \in Known
           /\ result("error", {"DUPLICATE_INDEX_UNAVAILABLE"}, UNUSABLE) \in Known
<1>1. DuplicateFindings(c) \subseteq DuplicateCodes
  BY DEF DuplicateFindings
<1> QED BY <1>1 DEF DuplicatesResult, result, Known

FindingsKnown == \A c \in Calls : evidence[c].duplicates \in Known \cup {NotRun}

\* The duplicates check finds nothing but what the model of the document path assumes of it
\* (Known, in the constant Submissions of Pipeline): it rejects nobody, asks for nothing and
\* grants no level (checks/duplicates.py), for any calls, however they interleave.
THEOREM DuplicatesAreKnown == Spec => []FindingsKnown
<1>1. Init => FindingsKnown
  BY DEF Init, FindingsKnown
<1>2. TypeOK /\ FindingsKnown /\ [Next]_vars => FindingsKnown'
  <2> SUFFICES ASSUME TypeOK, FindingsKnown, [Next]_vars, NEW c \in Calls
               PROVE  evidence'[c].duplicates \in Known \cup {NotRun}
    BY DEF FindingsKnown
  <2>1. CASE evidence'[c] = evidence[c]
    BY <2>1 DEF FindingsKnown
  <2>2. CASE c \in Documents /\ ReadIndex(c)
    <3>1. \/ evidence'[c].duplicates = DuplicatesResult(c)
          \/ evidence'[c].duplicates = result("error", {"DUPLICATE_INDEX_UNAVAILABLE"}, UNUSABLE)
      BY <2>2 DEF ReadIndex, TypeOK
    <3> QED BY <3>1, DuplicatesFinding
  <2> QED BY <2>1, <2>2, EvidenceStep
<1> QED BY <1>1, <1>2, TypeCorrectness, PTL DEF Spec

\* Every ledger the service may save a document with has the shape of one that the document
\* path hands over ...
THEOREM DocumentsAreHanded ==
    Spec => [](\A c \in Documents : \A results \in DocumentResults(c) : Handed(results))
<1> DEFINE Taken == \A c \in Documents : \A results \in DocumentResults(c) : Handed(results)
<1>1. TypeOK /\ FindingsKnown => Taken
  <2> SUFFICES ASSUME TypeOK, FindingsKnown, NEW c \in Documents, NEW results \in DocumentResults(c)
               PROVE  Handed(results)
    OBVIOUS
  <2>1. Ledger(results)
    BY DocumentLedger
  <2>2. CASE evidence[c].duplicates.status = "skipped"
    <3>1. results = Unusable
      BY <2>2 DEF DocumentResults
    <3>2. UnusableImage(results)
      BY <3>1 DEF Unusable, UnusableImage, result
    <3> QED BY <2>1, <3>2 DEF Handed
  <2>3. CASE evidence[c].duplicates.status # "skipped"
    <3>1. PICK others \in Ledgers[c] : results = With(others, "duplicates", evidence[c].duplicates)
      BY <2>3 DEF DocumentResults
    <3>2. Ledger(others) /\ c \in Calls
      BY LedgersAssumption DEF Ledger, Calls
    <3>3. evidence[c].duplicates \in Known
      BY <2>3, <3>2 DEF FindingsKnown, NotRun, result
    <3> QED BY <2>1, <3>1, <3>2, <3>3 DEF Handed
  <2> QED BY <2>2, <2>3
<1> HIDE DEF Taken
<1>2. Spec => []Taken
  BY <1>1, TypeCorrectness, DuplicatesAreKnown, PTL
<1> QED BY <1>2 DEF Taken

\* ... and the two findings it keeps one of stand for the others: a row is the same for every
\* defect of the image, ...
LEMMA DefectsAreOne ==
    ASSUME NEW results, UnusableImage(results), NEW minLevel
    PROVE  RowFor(decide(results, minLevel)) = RowFor(decide(Unusable, minLevel))
<1>1. UnusableImage(Unusable)
  BY DEF Unusable, UnusableImage, result
<1> DEFINE a == decide(results, minLevel)
           b == decide(Unusable, minLevel)
<1>2. a.decision = b.decision /\ a.level = b.level /\ a.flags = b.flags
  BY <1>1, UnusableAsksForRetake
<1> QED BY <1>2 DEF RowFor

\* ... and for a duplicates check that raised (orchestrator.py, _run_one) as for one that
\* could not read the index.
LEMMA BrokenFindingsAreOne ==
    ASSUME NEW others, NEW minLevel
    PROVE  LET raised == With(others, "duplicates", result("error", {}, UNUSABLE))
               unread == With(others, "duplicates",
                              result("error", {"DUPLICATE_INDEX_UNAVAILABLE"}, UNUSABLE))
           IN  RowFor(decide(raised, minLevel)) = RowFor(decide(unread, minLevel))
<1> DEFINE none   == result("error", {}, UNUSABLE)
           one    == result("error", {"DUPLICATE_INDEX_UNAVAILABLE"}, UNUSABLE)
           raised == With(others, "duplicates", none)
           unread == With(others, "duplicates", one)
           before == collect_reasons(raised)
           after  == collect_reasons(unread)
<1>1. /\ none.status = "error" /\ none.codes = {} /\ none.grants = UNUSABLE
      /\ one.status = "error" /\ one.codes = {"DUPLICATE_INDEX_UNAVAILABLE"} /\ one.grants = UNUSABLE
  BY DEF result
<1> HIDE DEF none, one
<1>2. /\ DOMAIN raised = DOMAIN unread /\ "duplicates" \in DOMAIN raised
      /\ raised["duplicates"] = none /\ unread["duplicates"] = one
      /\ \A name \in DOMAIN raised : name # "duplicates" => raised[name] = unread[name]
  BY DEF With
<1> HIDE DEF raised, unread
<1>3. /\ \A name \in DOMAIN raised :
             raised[name].status = unread[name].status /\ raised[name].grants = unread[name].grants
  BY <1>1, <1>2
<1>4. evidence_level(raised) = evidence_level(unread)
  <2>1. \A name : passed(raised, name) <=> passed(unread, name)
    BY <1>2, <1>3 DEF passed
  <2>2. ReachedLevels(raised) = ReachedLevels(unread)
    BY <2>1 DEF ReachedLevels
  <2>3. GrantedLevels(raised) = GrantedLevels(unread)
    <3>1. { n \in DOMAIN raised : passed(raised, n) } = { n \in DOMAIN unread : passed(unread, n) }
      BY <1>2, <2>1
    <3> DEFINE S == { n \in DOMAIN raised : passed(raised, n) }
    <3>2. { raised[n].grants : n \in S } = { unread[n].grants : n \in S }
      BY <1>3
    <3> QED BY <2>1, <3>1, <3>2 DEF GrantedLevels
  <2>4. ("quality" \in DOMAIN raised /\ raised["quality"].status = "fail")
        <=> ("quality" \in DOMAIN unread /\ unread["quality"].status = "fail")
    BY <1>2, <1>3
  <2> QED BY <2>2, <2>3, <2>4 DEF evidence_level
<1>5. "CHECK_ERROR" \in before /\ after = before \cup {"DUPLICATE_INDEX_UNAVAILABLE"}
  BY <1>1, <1>2, <1>3 DEF collect_reasons
<1>6. Effect("CHECK_ERROR") = "review" /\ Effect("DUPLICATE_INDEX_UNAVAILABLE") = "review"
  <2>1. {"CHECK_ERROR", "DUPLICATE_INDEX_UNAVAILABLE"} \subseteq ReviewCodes
    BY DEF ReviewCodes
  <2>2. {"CHECK_ERROR", "DUPLICATE_INDEX_UNAVAILABLE"} \cap (RejectCodes \cup ActionCodes) = {}
    BY DEF RejectCodes, ActionCodes, RetakeIdCodes, RetakeSelfieCodes, UploadCodes
  <2> QED BY <2>1, <2>2 DEF Effect
<1>7. "DUPLICATE_INDEX_UNAVAILABLE" \notin DuplicateCodes
  BY DEF DuplicateCodes
<1> HIDE DEF before, after
<1>8. \A effect : Blocking(before, effect) <=> Blocking(after, effect)
  BY <1>5, <1>6 DEF Blocking
<1>9. Reasons(unread, minLevel) = Reasons(raised, minLevel) \cup {"DUPLICATE_INDEX_UNAVAILABLE"}
      /\ "CHECK_ERROR" \in Reasons(raised, minLevel)
  BY <1>4, <1>5, <1>8 DEF Reasons, before, after
<1> DEFINE r == Reasons(raised, minLevel)
           u == Reasons(unread, minLevel)
<1>10. DecisionFor(r) = DecisionFor(u)
  <2>1. \A effect : Blocking(r, effect) <=> Blocking(u, effect)
    BY <1>6, <1>9 DEF Blocking
  <2> QED BY <2>1 DEF DecisionFor
<1>11. Flagged(r) = Flagged(u)
  <2>1. /\ r \cap DuplicateCodes # {} <=> u \cap DuplicateCodes # {}
        /\ "MINOR_GUARDIAN_CONSENT" \in r <=> "MINOR_GUARDIAN_CONSENT" \in u
    BY <1>7, <1>9
  <2> QED BY <2>1 DEF Flagged
<1> DEFINE a == decide(raised, minLevel)
           b == decide(unread, minLevel)
<1>12. a.decision = b.decision /\ a.level = b.level /\ a.flags = b.flags
  BY <1>4, <1>10, <1>11 DEF decide
<1> HIDE DEF a, b
<1>13. RowFor(a) = RowFor(b)
  BY <1>12 DEF RowFor
<1> QED BY <1>13 DEF a, b, raised, unread, none, one
==============================================================================
