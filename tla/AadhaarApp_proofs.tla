-------------------------- MODULE AadhaarApp_proofs --------------------------
(***************************************************************************)
(* Proofs about the Aadhaar App sessions, for any sessions, processes,     *)
(* residents, rules and bounds.  The first part is about sessions: an      *)
(* inductive invariant ties what a handler carries and what a session      *)
(* names to the table of verifications.  The second part is about what is  *)
(* decided: it follows from the checks and the decision engine alone, for  *)
(* every presentation of the right type.                                   *)
(***************************************************************************)
EXTENDS AadhaarApp, Decision_proofs

Right(made) == made.valid => verify_presentation(made.presentation, made.session)

\* What was judged valid answered the session it was judged for.
MadeRight ==
    /\ \A h \in Processes : callback[h].step = "received" => Right(callback[h].made)
    /\ \A v \in DOMAIN verifications : Right(verifications[v])

\* A handler about to close a session has saved its verification.
SavedRight ==
    \A h \in Processes : callback[h].step = "saved" =>
        callback[h].verification \in DOMAIN verifications

\* A closed session names a verification made for it, and tells how it ended.
Linked ==
    \A s \in Sessions : session[s].status \in Closed =>
        /\ session[s].verification \in DOMAIN verifications
        /\ verifications[session[s].verification].session = s
        /\ session[s].status = ClosedAs(verifications[session[s].verification].valid)

Inv == TypeOK /\ MadeRight /\ SavedRight /\ Linked /\ AcceptedAnswerStands

------------------------------------------------------------------------------
(* The inductive invariant *)

LEMMA InitInv == Init => Inv
<1> SUFFICES ASSUME Init PROVE Inv
  OBVIOUS
<1>1. TypeOK
  <2>1. resident \in [Sessions -> Resident] /\ \A s \in Sessions : resident[s] \in Residents[s]
    BY ResidentsAssumption DEF Init
  <2>2. session \in [Sessions -> [ status : {"none", "pending", "purged"} \cup Closed,
                                   verification : VerificationIds \cup {None} ]]
    BY DEF Init, NoSession
  <2>3. callback \in [Processes -> Callbacks]
    BY DEF Init, Callbacks
  <2>4. verifications \in Seq(Verification) /\ Len(verifications) <= MaxVerifications
    BY BoundsAssumption DEF Init
  <2>5. policy \in Policies /\ published \in 0 .. MaxPublished
    BY BoundsAssumption, RulesAssumption DEF Init
  <2> QED BY <2>1, <2>2, <2>3, <2>4, <2>5 DEF TypeOK, Init
<1>2. MadeRight /\ SavedRight
  BY DEF Init, MadeRight, SavedRight, Idle
<1>3. Linked /\ AcceptedAnswerStands
  BY DEF Init, Linked, AcceptedAnswerStands, NoSession, Closed
<1> QED BY <1>1, <1>2, <1>3 DEF Inv

\* A step that leaves handlers, verifications and answers alone, and closes no session.
LEMMA QuietStep ==
    ASSUME Inv, TypeOK', UNCHANGED <<callback, verifications, accepted>>,
           \A s \in Sessions : \/ session'[s] = session[s]
                               \/ session'[s].status = "purged"
                               \/ session[s].status = "none" /\ session'[s].status = "pending"
    PROVE  Inv'
<1>1. MadeRight' /\ SavedRight'
  BY DEF Inv, MadeRight, SavedRight
<1>2. Linked'
  BY DEF Inv, Linked, Closed
<1>3. AcceptedAnswerStands'
  BY DEF Inv, AcceptedAnswerStands, Closed
<1> QED BY <1>1, <1>2, <1>3 DEF Inv

LEMMA StartSessionInv ==
    ASSUME Inv, NEW s \in Sessions, StartSession(s)
    PROVE  Inv'
<1>1. session' = [session EXCEPT ![s] = [session[s] EXCEPT !.status = "pending"]]
  BY DEF StartSession, Inv, TypeOK
<1>2. /\ session[s] \in [status : {"none", "pending", "purged"} \cup Closed,
                         verification : VerificationIds \cup {None}]
      /\ session \in [Sessions -> [status : {"none", "pending", "purged"} \cup Closed,
                                   verification : VerificationIds \cup {None}]]
  BY DEF Inv, TypeOK
<1>3. /\ [session[s] EXCEPT !.status = "pending"] \in
           [status : {"none", "pending", "purged"} \cup Closed, verification : VerificationIds \cup {None}]
      /\ [session[s] EXCEPT !.status = "pending"].status = "pending"
  BY <1>2
<1>4. TypeOK'
  BY <1>1, <1>2, <1>3 DEF StartSession, Inv, TypeOK
<1>5. \A q \in Sessions : \/ session'[q] = session[q]
                          \/ session[q].status = "none" /\ session'[q].status = "pending"
  BY <1>1, <1>2, <1>3 DEF StartSession
<1> QED BY <1>4, <1>5, QuietStep DEF StartSession

LEMMA PresentInv ==
    ASSUME Inv, NEW s \in Sessions, Present(s)
    PROVE  Inv'
<1>1. PICK pr \in [ session : {s}, shared : SUBSET requested_claims(policy),
                    genuine : BOOLEAN, bound : BOOLEAN ] : sent' = sent \cup {pr}
  BY DEF Present
<1>2. requested_claims(policy) \subseteq Claims
  BY DEF requested_claims, Claims, AgeAbove, AgeThresholds
<1>3. pr \in Presentations
  BY <1>1, <1>2 DEF Presentations
<1>4. TypeOK'
  BY <1>1, <1>3 DEF Present, Inv, TypeOK
<1> QED BY <1>4, QuietStep DEF Present

LEMMA ReceiveInv ==
    ASSUME Inv, NEW h \in Processes, NEW s \in Sessions, NEW pr \in sent, Receive(h, s, pr)
    PROVE  Inv'
<1>1. PICK valid \in {verify_presentation(pr, s), FALSE} :
          callback' = [callback EXCEPT ![h] =
              [ step |-> "received",
                made |-> [session |-> s, presentation |-> pr, policy |-> policy, valid |-> valid] ]]
  BY DEF Receive
<1> DEFINE made == [session |-> s, presentation |-> pr, policy |-> policy, valid |-> valid]
           carried == [step |-> "received", made |-> made]
<1>2. pr \in Presentations /\ policy \in Policy
  BY RulesAssumption DEF Inv, TypeOK
<1>3. valid \in BOOLEAN
  BY <1>2 DEF verify_presentation, Presentations
<1>4. made \in Verification /\ (made.valid => verify_presentation(made.presentation, made.session))
  BY <1>1, <1>2, <1>3 DEF Verification
<1>5. Right(made)
  BY <1>4 DEF Right
<1> HIDE DEF made
<1>6. carried \in Callbacks /\ carried.step = "received" /\ carried.made = made
  BY <1>4 DEF Callbacks
<1>7. callback' = [callback EXCEPT ![h] = carried] /\ callback \in [Processes -> Callbacks]
  BY <1>1 DEF Inv, TypeOK, made
<1> HIDE DEF carried
<1>8. \A g \in Processes : callback'[g] = IF g = h THEN carried ELSE callback[g]
  BY <1>7
<1>9. TypeOK'
  BY <1>6, <1>7 DEF Receive, Inv, TypeOK
<1>10. MadeRight'
  BY <1>5, <1>6, <1>8 DEF Receive, Inv, MadeRight, Right
<1>11. SavedRight'
  BY <1>6, <1>8 DEF Receive, Inv, SavedRight
<1>12. Linked' /\ AcceptedAnswerStands'
  BY DEF Receive, Inv, Linked, AcceptedAnswerStands
<1> QED BY <1>9, <1>10, <1>11, <1>12 DEF Inv

LEMMA SaveInv ==
    ASSUME Inv, NEW h \in Processes, Save(h)
    PROVE  Inv'
<1> DEFINE made == callback[h].made
           id == Len(verifications) + 1
           carried == [step |-> "saved", verification |-> id]
<1>1. callback[h] \in Callbacks /\ callback[h].step = "received"
  BY DEF Save, Inv, TypeOK
<1>2. made \in Verification
  BY <1>1 DEF Callbacks, Idle
<1>3. Right(made)
  BY <1>1 DEF Inv, MadeRight
<1>4. verifications \in Seq(Verification) /\ verifications' = Append(verifications, made)
      /\ Len(verifications) < MaxVerifications /\ MaxVerifications \in Nat
  BY BoundsAssumption DEF Save, Inv, TypeOK
<1> HIDE DEF made
<1>5. /\ verifications' \in Seq(Verification) /\ Len(verifications') = id
      /\ DOMAIN verifications' = DOMAIN verifications \cup {id}
      /\ verifications'[id] = made
      /\ \A v \in DOMAIN verifications : verifications'[v] = verifications[v]
  BY <1>2, <1>4
<1>6. id \in VerificationIds /\ id \in DOMAIN verifications'
  BY <1>4, <1>5 DEF VerificationIds
<1>7. Len(verifications') <= MaxVerifications
  BY <1>4, <1>5
<1>8. callback' = [callback EXCEPT ![h] = carried] /\ callback \in [Processes -> Callbacks]
  BY DEF Save, Inv, TypeOK
<1> HIDE DEF id
<1>9. carried \in Callbacks /\ carried.step = "saved" /\ carried.verification = id
  BY <1>6 DEF Callbacks
<1> HIDE DEF carried
<1>10. \A g \in Processes : callback'[g] = IF g = h THEN carried ELSE callback[g]
  BY <1>8
<1>11. TypeOK'
  BY <1>5, <1>7, <1>8, <1>9 DEF Save, Inv, TypeOK
<1>12. MadeRight'
  <2>1. \A g \in Processes : callback'[g].step = "received" => Right(callback'[g].made)
    BY <1>9, <1>10 DEF Inv, MadeRight
  <2>2. \A v \in DOMAIN verifications' : Right(verifications'[v])
    BY <1>3, <1>5 DEF Inv, MadeRight
  <2> QED BY <2>1, <2>2 DEF MadeRight, Right
<1>13. SavedRight'
  BY <1>5, <1>6, <1>9, <1>10 DEF Inv, SavedRight
<1>14. Linked'
  BY <1>5 DEF Save, Inv, Linked
<1>15. AcceptedAnswerStands'
  BY DEF Save, Inv, AcceptedAnswerStands
<1> QED BY <1>11, <1>12, <1>13, <1>14, <1>15 DEF Inv

\* A handler that becomes idle disturbs nothing it carried.
LEMMA ToIdle ==
    ASSUME Inv, NEW h \in Processes, callback' = [callback EXCEPT ![h] = Idle], UNCHANGED verifications
    PROVE  callback' \in [Processes -> Callbacks] /\ MadeRight' /\ SavedRight'
<1>1. callback' \in [Processes -> Callbacks]
  BY DEF Inv, TypeOK, Callbacks
<1>2. \A g \in Processes : callback'[g] = IF g = h THEN Idle ELSE callback[g]
  BY DEF Inv, TypeOK
<1>3. MadeRight'
  BY <1>2 DEF Inv, MadeRight, Idle, Right
<1>4. SavedRight'
  BY <1>2 DEF Inv, SavedRight, Idle
<1> QED BY <1>1, <1>3, <1>4

LEMMA CompleteInv ==
    ASSUME Inv, NEW h \in Processes, Complete(h)
    PROVE  Inv'
<1> DEFINE v == callback[h].verification
           s == verifications[v].session
           closed == [status |-> ClosedAs(verifications[v].valid), verification |-> v]
<1>1. callback' \in [Processes -> Callbacks] /\ MadeRight' /\ SavedRight'
  BY ToIdle DEF Complete
<1>2. callback[h] \in Callbacks /\ callback[h].step = "saved"
  BY DEF Complete, Inv, TypeOK
<1>3. v \in VerificationIds /\ v \in DOMAIN verifications
  BY <1>2 DEF Callbacks, Idle, Inv, SavedRight
<1>4. verifications[v] \in Verification
  BY <1>3 DEF Inv, TypeOK
<1>5. s \in Sessions
  BY <1>4 DEF Verification
<1>6. CASE MayClose(s) /\ session' = [session EXCEPT ![s] = closed]
                       /\ accepted' = accepted \cup {<<s, v>>}
  <2>1. ClosedAs(verifications[v].valid) \in Closed
    BY DEF ClosedAs, Closed
  <2>2. /\ closed \in [status : {"none", "pending", "purged"} \cup Closed,
                       verification : VerificationIds \cup {None}]
        /\ closed.status \in Closed /\ closed.verification = v
        /\ closed.status = ClosedAs(verifications[v].valid)
    BY <1>3, <2>1
  <2> HIDE DEF closed
  <2>3. \A q \in Sessions : session'[q] = IF q = s THEN closed ELSE session[q]
    BY <1>6 DEF Inv, TypeOK
  <2>4. session' \in [Sessions -> [ status : {"none", "pending", "purged"} \cup Closed,
                                    verification : VerificationIds \cup {None} ]]
    BY <1>5, <1>6, <2>2 DEF Inv, TypeOK
  <2>5. accepted' \subseteq Sessions \X VerificationIds
    BY <1>3, <1>5, <1>6 DEF Inv, TypeOK
  <2>6. TypeOK'
    BY <1>1, <2>4, <2>5 DEF Complete, Inv, TypeOK
  <2>7. Linked'
    BY <1>3, <2>2, <2>3 DEF Complete, Inv, Linked
  <2>8. \A u \in VerificationIds : <<s, u>> \notin accepted
    BY <1>5, <1>6 DEF Inv, AcceptedAnswerStands, MayClose, Closed
  <2>9. AcceptedAnswerStands'
    <3> SUFFICES ASSUME NEW q \in Sessions, NEW u \in VerificationIds,
                        <<q, u>> \in accepted', session'[q].status # "purged"
                 PROVE  session'[q].status \in Closed /\ session'[q].verification = u
      BY DEF AcceptedAnswerStands
    <3>1. CASE q = s
      BY <1>6, <2>2, <2>3, <2>8, <3>1
    <3>2. CASE q # s
      BY <1>6, <2>3, <3>2 DEF Inv, AcceptedAnswerStands
    <3> QED BY <3>1, <3>2
  <2> QED BY <1>1, <2>6, <2>7, <2>9 DEF Inv
<1>7. CASE UNCHANGED <<session, accepted>>
  <2>1. TypeOK'
    BY <1>1, <1>7 DEF Complete, Inv, TypeOK
  <2>2. Linked' /\ AcceptedAnswerStands'
    BY <1>7 DEF Complete, Inv, Linked, AcceptedAnswerStands
  <2> QED BY <1>1, <2>1, <2>2 DEF Inv
<1> QED BY <1>6, <1>7 DEF Complete

LEMMA CrashInv ==
    ASSUME Inv, NEW h \in Processes, Crash(h)
    PROVE  Inv'
<1>1. callback' \in [Processes -> Callbacks] /\ MadeRight' /\ SavedRight'
  BY ToIdle DEF Crash
<1>2. TypeOK'
  BY <1>1 DEF Crash, Inv, TypeOK
<1>3. Linked' /\ AcceptedAnswerStands'
  BY DEF Crash, Inv, Linked, AcceptedAnswerStands
<1> QED BY <1>1, <1>2, <1>3 DEF Inv

LEMMA ExpireInv ==
    ASSUME Inv, NEW s \in Sessions, Expire(s)
    PROVE  Inv'
<1>1. TypeOK'
  BY DEF Expire, Inv, TypeOK
<1> QED BY <1>1, QuietStep DEF Expire

LEMMA PurgeSessionsInv ==
    ASSUME Inv, PurgeSessions
    PROVE  Inv'
<1> DEFINE gone == [status |-> "purged", verification |-> None]
<1>1. session' = [s \in Sessions |-> IF s \in expired THEN gone ELSE session[s]]
  BY DEF PurgeSessions
<1>2. gone.status = "purged" /\ gone \in [status : {"none", "pending", "purged"} \cup Closed,
                                          verification : VerificationIds \cup {None}]
  OBVIOUS
<1> HIDE DEF gone
<1>3. TypeOK'
  BY <1>1, <1>2 DEF PurgeSessions, Inv, TypeOK
<1>4. \A s \in Sessions : session'[s] = session[s] \/ session'[s].status = "purged"
  BY <1>1, <1>2
<1> QED BY <1>3, <1>4, QuietStep DEF PurgeSessions

LEMMA PublishInv ==
    ASSUME Inv, NEW p \in Policies, Publish(p)
    PROVE  Inv'
<1>1. TypeOK'
  BY BoundsAssumption DEF Publish, Inv, TypeOK
<1> QED BY <1>1, QuietStep DEF Publish

LEMMA NextInv == Inv /\ [Next]_vars => Inv'
<1> SUFFICES ASSUME Inv, [Next]_vars PROVE Inv'
  OBVIOUS
<1>1. CASE UNCHANGED vars
  <2>1. TypeOK'
    BY <1>1 DEF vars, Inv, TypeOK
  <2> QED BY <1>1, <2>1, QuietStep DEF vars
<1>2. ASSUME NEW s \in Sessions, StartSession(s) \/ Present(s) \/ Expire(s) PROVE Inv'
  BY <1>2, StartSessionInv, PresentInv, ExpireInv
<1>3. ASSUME NEW h \in Processes, NEW s \in Sessions, NEW pr \in sent, Receive(h, s, pr) PROVE Inv'
  BY <1>3, ReceiveInv
<1>4. ASSUME NEW h \in Processes, Save(h) \/ Complete(h) \/ Crash(h) PROVE Inv'
  BY <1>4, SaveInv, CompleteInv, CrashInv
<1>5. CASE PurgeSessions
  BY <1>5, PurgeSessionsInv
<1>6. ASSUME NEW p \in Policies, Publish(p) PROVE Inv'
  BY <1>6, PublishInv
<1> QED BY <1>1, <1>2, <1>3, <1>4, <1>5, <1>6 DEF Next

\* In every reachable state the tables, the handlers and the answers agree.
THEOREM SessionsInvariance == Spec => []Inv
<1> QED BY InitInv, NextInv, PTL DEF Spec

\* A callback that was answered 200 has closed its session for good (sqlite.py:471):
\* no other callback, from any process, changes what the session names.
THEOREM AcceptedAnswers == Spec => []AcceptedAnswerStands
<1>1. Inv => AcceptedAnswerStands
  BY DEF Inv
<1> QED BY <1>1, SessionsInvariance, PTL

------------------------------------------------------------------------------
(* What is decided *)

LEMMA MadeTypes ==
    ASSUME TypeOK, NEW made \in Made
    PROVE  /\ made \in Verification
           /\ Holder(made) \in Resident /\ Holder(made) \in Residents[made.presentation.session]
           /\ made.policy \in Policy
<1>1. made \in Verification
  BY DEF TypeOK, Made
<1>2. made.presentation \in Presentations /\ made.policy \in Policy
  BY <1>1 DEF Verification
<1>3. made.presentation.session \in Sessions
  BY <1>2 DEF Presentations
<1> QED BY <1>1, <1>2, <1>3 DEF TypeOK, Holder

\* A presentation that does not verify is answered with a request to try again.
LEMMA InvalidIsRetried ==
    ASSUME NEW minLevel
    PROVE  decide(Invalid, minLevel).decision = "action_required"
<1> DEFINE codes == {"AADHAAR_APP_INVALID"}
<1>1. DOMAIN Invalid = {"aadhaar_app"} /\ Invalid["aadhaar_app"].codes = codes
      /\ Invalid["aadhaar_app"].status = "fail"
  BY DEF Invalid, result
<1>2. collect_reasons(Invalid) = codes
  BY <1>1 DEF collect_reasons
<1>3. Effect("AADHAAR_APP_INVALID") = "action"
  BY DEF Effect, RejectCodes, ActionCodes, RetakeIdCodes
<1>4. Blocking(codes, "action") /\ ~Blocking(codes, "reject")
  BY <1>3 DEF Blocking
<1>5. Reasons(Invalid, minLevel) = codes
  BY <1>2, <1>4 DEF Reasons
<1>6. DecisionFor(codes) = "action_required"
  BY <1>4 DEF DecisionFor
<1> QED BY <1>5, <1>6 DEF decide

\* Whatever a check of a valid presentation finds is a reason of the outcome.
LEMMA ShownIsReason ==
    ASSUME NEW made, made.valid
    PROVE  LET shown == Shown(made.session, made.presentation, made.policy)
           IN  /\ DOMAIN shown = {"aadhaar_app", "identity", "eligibility"}
               /\ shown["aadhaar_app"].codes \subseteq Outcome(made).reasons
               /\ shown["identity"].codes \subseteq Outcome(made).reasons
               /\ shown["eligibility"].codes \subseteq Outcome(made).reasons
<1> DEFINE shown == Shown(made.session, made.presentation, made.policy)
<1>1. DOMAIN shown = {"aadhaar_app", "identity", "eligibility"}
  BY DEF Shown
<1>2. Outcome(made) = decide(shown, made.policy.min_level)
  BY DEF Outcome
<1> HIDE DEF shown
<1>3. \A name \in DOMAIN shown : shown[name].codes \subseteq decide(shown, made.policy.min_level).reasons
  BY FoundIsReason
<1>4. /\ shown["aadhaar_app"].codes \subseteq Outcome(made).reasons
      /\ shown["identity"].codes \subseteq Outcome(made).reasons
      /\ shown["eligibility"].codes \subseteq Outcome(made).reasons
  BY <1>1, <1>2, <1>3
<1> QED BY <1>1, <1>4 DEF shown

LEMMA Blockers ==
    /\ {"NAME_PARTIAL_MATCH", "NAME_MISMATCH", "AGE_UNKNOWN", "AGE_BOUNDARY_UNCERTAIN"}
           \subseteq ReviewCodes
    /\ {"AGE_BELOW_MIN_CONFIRMED", "AGE_ABOVE_MAX_CONFIRMED"} \subseteq RejectCodes
    /\ "AADHAAR_APP_CLAIM_MISSING" \in ActionCodes
<1>1. {"NAME_PARTIAL_MATCH", "NAME_MISMATCH", "AGE_UNKNOWN", "AGE_BOUNDARY_UNCERTAIN"} \subseteq ReviewCodes
  BY DEF ReviewCodes
<1>2. {"AGE_BELOW_MIN_CONFIRMED", "AGE_ABOVE_MAX_CONFIRMED"} \subseteq RejectCodes
  BY DEF RejectCodes
<1>3. "AADHAAR_APP_CLAIM_MISSING" \in ActionCodes
  BY DEF ActionCodes, RetakeIdCodes
<1> QED BY <1>1, <1>2, <1>3

\* Who is verified showed every claim the rules need, and no check found a blocker.
LEMMA VerifiedShown ==
    ASSUME NEW made, Outcome(made).decision = "verified"
    PROVE  LET shown == Shown(made.session, made.presentation, made.policy)
           IN  /\ made.valid
               /\ ~Lacks(made.policy, made.presentation.shared)
               /\ \A code \in shown["identity"].codes \cup shown["eligibility"].codes :
                      code \notin RejectCodes \cup ActionCodes \cup ReviewCodes
               /\ shown["eligibility"].codes \subseteq Outcome(made).reasons
<1> DEFINE shown == Shown(made.session, made.presentation, made.policy)
<1>1. made.valid
  BY InvalidIsRetried DEF Outcome
<1>2. Outcome(made) = decide(shown, made.policy.min_level)
  BY <1>1 DEF Outcome
<1>3. /\ shown["aadhaar_app"].codes \subseteq Outcome(made).reasons
      /\ shown["identity"].codes \subseteq Outcome(made).reasons
      /\ shown["eligibility"].codes \subseteq Outcome(made).reasons
  BY <1>1, ShownIsReason
<1>4. \A code \in Outcome(made).reasons : code \notin RejectCodes \cup ActionCodes \cup ReviewCodes
  BY <1>2, VerifiedHasNoBlocker
<1>5. "AADHAAR_APP_CLAIM_MISSING" \notin shown["aadhaar_app"].codes
  BY <1>3, <1>4, Blockers
<1>6. Lacks(made.policy, made.presentation.shared) =>
          shown["aadhaar_app"].codes = {"AADHAAR_APP_CLAIM_MISSING"}
  BY DEF Shown, result
<1>7. ~Lacks(made.policy, made.presentation.shared)
  BY <1>5, <1>6
<1> HIDE DEF shown
<1>8. \A code \in shown["identity"].codes \cup shown["eligibility"].codes :
          code \notin RejectCodes \cup ActionCodes \cup ReviewCodes
  BY <1>3, <1>4
<1> QED BY <1>1, <1>3, <1>7, <1>8 DEF shown

\* The findings of the two checks that judge the resident.
LEMMA Findings ==
    ASSUME NEW s, NEW pr, NEW p
    PROVE  LET shown == Shown(s, pr, p)
               name == IF pr.session = s THEN resident[pr.session].name ELSE "mismatch"
           IN  /\ AgeCodes(resident[pr.session], p, pr.shared) \subseteq shown["eligibility"].codes
               /\ shown["eligibility"].codes \subseteq
                      AgeCodes(resident[pr.session], p, pr.shared)
                        \cup {"DOC_TYPE_NOT_ACCEPTED", "STUDENT_PROOF_REQUIRED"}
               /\ ResidentName \in pr.shared =>
                      /\ name = "match" => "NAME_MATCH" \in shown["identity"].codes
                      /\ name = "partial" => "NAME_PARTIAL_MATCH" \in shown["identity"].codes
                      /\ name = "mismatch" => "NAME_MISMATCH" \in shown["identity"].codes
               /\ name \in {"match", "partial", "mismatch"} =>
                      shown["identity"].codes \subseteq
                          {"NAME_MATCH", "NAME_PARTIAL_MATCH", "NAME_MISMATCH", "DOB_MISMATCH_FORM"}
<1> DEFINE shown == Shown(s, pr, p)
           name == IF pr.session = s THEN resident[pr.session].name ELSE "mismatch"
           form_dob == IF pr.session = s \/ resident[s].form_dob = "none"
                       THEN resident[s].form_dob ELSE "differs"
<1>1. /\ shown["eligibility"] = eligibility(resident[pr.session], p, pr.shared)
      /\ shown["identity"] = identity(name, form_dob, pr.shared)
  BY DEF Shown
<1>2. eligibility(resident[pr.session], p, pr.shared).codes =
          AgeCodes(resident[pr.session], p, pr.shared)
            \cup When(~p.accepted, "DOC_TYPE_NOT_ACCEPTED")
            \cup When(p.student_only, "STUDENT_PROOF_REQUIRED")
  BY DEF eligibility, result
<1>3. /\ AgeCodes(resident[pr.session], p, pr.shared) \subseteq shown["eligibility"].codes
      /\ shown["eligibility"].codes \subseteq
             AgeCodes(resident[pr.session], p, pr.shared)
               \cup {"DOC_TYPE_NOT_ACCEPTED", "STUDENT_PROOF_REQUIRED"}
  BY <1>1, <1>2 DEF When
<1> HIDE DEF name, form_dob
<1>4. ResidentName \in pr.shared =>
          /\ name = "match" => "NAME_MATCH" \in identity(name, form_dob, pr.shared).codes
          /\ name = "partial" => "NAME_PARTIAL_MATCH" \in identity(name, form_dob, pr.shared).codes
          /\ name = "mismatch" => "NAME_MISMATCH" \in identity(name, form_dob, pr.shared).codes
  BY DEF identity, result
<1>5. name \in {"match", "partial", "mismatch"} =>
          identity(name, form_dob, pr.shared).codes \subseteq
              {"NAME_MATCH", "NAME_PARTIAL_MATCH", "NAME_MISMATCH", "DOB_MISMATCH_FORM"}
  BY DEF identity, result, When
<1> HIDE DEF shown
<1> QED BY <1>1, <1>3, <1>4, <1>5 DEF shown, name

\* The claims are different.
LEMMA DistinctClaims ==
    ASSUME NEW threshold
    PROVE  AgeAbove(threshold) # ResidentName /\ AgeAbove(threshold) # Dob
BY DEF AgeAbove, ResidentName, Dob

\* A finding about the age that does not block tells that the age is in range.
LEMMA AgeIsInRange ==
    ASSUME NEW r \in Resident, NEW p \in Policy, NEW shared, ~Lacks(p, shared),
           \A code \in AgeCodes(r, p, shared) : code \notin RejectCodes \cup ActionCodes \cup ReviewCodes
    PROVE  InRange(r.age, p)
<1>1. r.age \in Nat /\ p.min_age \in Ages /\ p.max_age \in Ages /\ r.birthday \in BOOLEAN
  BY DEF Resident, Policy
<1>2. CASE ~AgeRule(p)
  BY <1>2 DEF AgeRule, InRange
<1>3. CASE AgeRule(p) /\ Dob \in shared
  <2>1. ~InRange(r.age, p) => AgeCodes(r, p, shared) \cap RejectCodes # {}
    BY <1>3, Blockers DEF AgeCodes
  <2> QED BY <2>1
<1>4. CASE AgeRule(p) /\ Dob \notin shared
  <2>1. p.min_age = 18 /\ p.max_age = None /\ AgeAbove(18) \in shared
    BY <1>4 DEF Lacks
  <2>2. shared \ {ResidentName} # {}
    BY <2>1, DistinctClaims
  <2>3. AgeCodes(r, p, shared) = Attested(r, p, shared)
    BY <1>4, <2>2 DEF AgeCodes
  <2>4. ~Above(r, 18) => NotYetOfAge \subseteq AgeCodes(r, p, shared)
    BY <1>4, <2>1, <2>3 DEF Attested
  <2>5. Above(r, 18)
    BY <2>4, Blockers DEF NotYetOfAge
  <2>6. r.age >= 18
    BY <1>1, <2>5 DEF Above
  <2> QED BY <2>1, <2>6 DEF InRange
<1> QED BY <1>2, <1>3, <1>4

\* Nobody in range has a finding about the age that rejects.
LEMMA InRangeIsNotRejected ==
    ASSUME NEW s \in Sessions, NEW r \in Resident, r \in Residents[s], NEW p \in Policy, NEW shared,
           InRange(r.age, p)
    PROVE  AgeCodes(r, p, shared) \cap RejectCodes = {}
<1>1. r.age \in Nat /\ p.min_age \in Ages /\ p.max_age \in Ages /\ r.birthday \in BOOLEAN
  BY DEF Resident, Policy
<1>2. {"MINOR_GUARDIAN_CONSENT", "AGE_ELIGIBLE", "AGE_UNKNOWN", "AGE_BOUNDARY_UNCERTAIN"}
          \cap RejectCodes = {}
  BY DEF RejectCodes
<1>3. CASE Dob \in shared
  BY <1>2, <1>3 DEF AgeCodes, When
<1>4. Attested(r, p, shared) \cap RejectCodes = {}
  <2>1. Guardian(r, p, shared) \subseteq {"MINOR_GUARDIAN_CONSENT"}
    BY DEF Guardian, When
  <2>2. CASE ~(AgeRule(p) /\ p.max_age = None /\ AgeAbove(p.min_age) \in shared /\ ~Above(r, p.min_age))
    BY <1>2, <2>1, <2>2 DEF Attested
  <2>3. CASE AgeRule(p) /\ p.max_age = None /\ ~Above(r, p.min_age)
    <3>1. p.min_age # None /\ r.age >= p.min_age
      BY <2>3 DEF AgeRule, InRange
    <3>2. r.birthday
      BY <1>1, <2>3, <3>1 DEF Above, Ages
    <3>3. EventAhead
      BY <3>2, ResidentsAssumption
    <3>4. NotYetOfAge = {"AGE_BOUNDARY_UNCERTAIN"}
      BY <3>3 DEF NotYetOfAge
    <3>5. Attested(r, p, shared) \subseteq
              {"MINOR_GUARDIAN_CONSENT", "AGE_ELIGIBLE", "AGE_UNKNOWN", "AGE_BOUNDARY_UNCERTAIN"}
      BY <2>1, <3>4 DEF Attested
    <3> QED BY <1>2, <3>5
  <2> QED BY <2>2, <2>3
<1>5. CASE Dob \notin shared
  BY <1>2, <1>4, <1>5 DEF AgeCodes, When
<1> QED BY <1>3, <1>5

\* A closed session names a verification made for it; it is completed only by a
\* presentation the issuer signed and, if bound, made for this session, and one that
\* failed asks the participant to try again (routes.py:383-388).
THEOREM SessionsCloseByTheirOwn == Spec => []ClosedByItsOwn
<1>1. Inv => ClosedByItsOwn
  <2> SUFFICES ASSUME Inv, NEW s \in Sessions, session[s].status \in Closed
               PROVE  LET made == verifications[session[s].verification]
                      IN  /\ made.session = s
                          /\ session[s].status = "completed" =>
                                 made.presentation.genuine
                                   /\ (made.presentation.bound => made.presentation.session = s)
                          /\ session[s].status = "failed" => Outcome(made).decision = "action_required"
    BY DEF ClosedByItsOwn
  <2> DEFINE made == verifications[session[s].verification]
  <2>1. /\ session[s].verification \in DOMAIN verifications
        /\ made.session = s /\ session[s].status = ClosedAs(made.valid)
    BY DEF Inv, Linked
  <2>2. Right(made)
    BY <2>1 DEF Inv, MadeRight
  <2> HIDE DEF made
  <2>3. session[s].status = "completed" => made.valid
    BY <2>1 DEF ClosedAs
  <2>4. session[s].status = "failed" => ~made.valid
    BY <2>1 DEF ClosedAs
  <2>5. ~made.valid => Outcome(made).decision = "action_required"
    BY InvalidIsRetried DEF Outcome
  <2>6. made.valid => made.presentation.genuine
                        /\ (made.presentation.bound => made.presentation.session = s)
    BY <2>1, <2>2 DEF Right, verify_presentation
  <2> QED BY <2>1, <2>3, <2>4, <2>5, <2>6 DEF made
<1> QED BY <1>1, SessionsInvariance, PTL

\* Whoever the Aadhaar App path verifies is the person on the form, and of the age the
\* rules ask for on the event's day, for every presentation and every version of the rules.
THEOREM AppVerifiedAge == Spec => []AppVerifiedIsOfAge
<1>1. Inv => AppVerifiedIsOfAge
  <2> SUFFICES ASSUME Inv, NEW made \in Made, Outcome(made).decision = "verified"
               PROVE  /\ made.presentation.session = made.session
                      /\ Holder(made).name = "match"
                      /\ InRange(Holder(made).age, made.policy)
    BY DEF AppVerifiedIsOfAge
  <2> DEFINE s == made.session
             pr == made.presentation
             p == made.policy
             name == IF pr.session = s THEN resident[pr.session].name ELSE "mismatch"
             found == Shown(s, pr, p)["identity"].codes \cup Shown(s, pr, p)["eligibility"].codes
  <2>1. Holder(made) \in Resident /\ p \in Policy
    BY MadeTypes DEF Inv
  <2>2. /\ ~Lacks(p, pr.shared)
        /\ \A code \in found : code \notin RejectCodes \cup ActionCodes \cup ReviewCodes
    BY VerifiedShown
  <2>3. ResidentName \in pr.shared
    BY <2>2 DEF Lacks
  <2>4. /\ AgeCodes(Holder(made), p, pr.shared) \subseteq found
        /\ name = "partial" => "NAME_PARTIAL_MATCH" \in found
        /\ name = "mismatch" => "NAME_MISMATCH" \in found
    BY <2>3, Findings DEF Holder
  <2> HIDE DEF found
  <2>5. InRange(Holder(made).age, p)
    BY <2>1, <2>2, <2>4, AgeIsInRange
  <2>6. name # "partial" /\ name # "mismatch"
    BY <2>2, <2>4, Blockers
  <2>7. pr.session = s /\ Holder(made).name = "match"
    BY <2>1, <2>6 DEF Holder, Resident
  <2> QED BY <2>5, <2>7
<1> QED BY <1>1, SessionsInvariance, PTL

\* Nobody of the right age on the event's day is rejected on the Aadhaar App path, not
\* even one whose attestation of today still says no (eligibility.py:99-100).
THEOREM AppRejectsOnlyOutOfRange == Spec => []AppRejectsOutOfRange
<1>1. Inv => AppRejectsOutOfRange
  <2> SUFFICES ASSUME Inv, NEW made \in Made, InRange(Holder(made).age, made.policy),
                      Outcome(made).decision = "not_eligible"
               PROVE  FALSE
    BY DEF AppRejectsOutOfRange
  <2> DEFINE pr == made.presentation
             p == made.policy
             shown == Shown(made.session, pr, p)
  <2>1. /\ Holder(made) \in Resident /\ Holder(made) \in Residents[pr.session] /\ p \in Policy
        /\ pr.session \in Sessions
    BY MadeTypes DEF Inv, Verification, Presentations
  <2>2. made.valid
    BY InvalidIsRetried DEF Outcome
  <2>3. Outcome(made) = decide(shown, p.min_level)
    BY <2>2 DEF Outcome
  <2>4. DOMAIN shown = {"aadhaar_app", "identity", "eligibility"}
    BY <2>2, ShownIsReason
  <2>5. shown["aadhaar_app"].codes \subseteq {"AADHAAR_APP_CLAIM_MISSING", "AADHAAR_APP_VERIFIED"}
    BY DEF Shown, result
  <2>6. shown["identity"].codes \subseteq
            {"NAME_MATCH", "NAME_PARTIAL_MATCH", "NAME_MISMATCH", "DOB_MISMATCH_FORM"}
    BY <2>1, Findings DEF Resident, Holder
  <2>7. shown["eligibility"].codes \subseteq
            AgeCodes(Holder(made), p, pr.shared) \cup {"DOC_TYPE_NOT_ACCEPTED", "STUDENT_PROOF_REQUIRED"}
    BY Findings DEF Holder
  <2>8. AgeCodes(Holder(made), p, pr.shared) \cap RejectCodes = {}
    BY <2>1, InRangeIsNotRejected
  <2> HIDE DEF shown
  <2>9. PICK name \in DOMAIN shown : shown[name].codes \cap RejectCodes # {}
    BY <2>3, RejectedHasReason
  <2>10. CASE name = "aadhaar_app"
    BY <2>5, <2>9, <2>10 DEF RejectCodes
  <2>11. CASE name = "identity"
    BY <2>6, <2>9, <2>11 DEF RejectCodes
  <2>12. CASE name = "eligibility"
    <3>1. {"DOC_TYPE_NOT_ACCEPTED", "STUDENT_PROOF_REQUIRED"} \cap RejectCodes = {}
      BY DEF RejectCodes
    <3> QED BY <2>7, <2>8, <2>9, <2>12, <3>1
  <2> QED BY <2>4, <2>9, <2>10, <2>11, <2>12
<1> QED BY <1>1, SessionsInvariance, PTL

\* A minor who shared a date of birth, or an attestation for the age in question, is
\* never verified without being marked for guardian consent.
THEOREM AppMarksMinors == Spec => []SharedMinorIsMarked
<1>1. Inv => SharedMinorIsMarked
  <2> SUFFICES ASSUME Inv, NEW made \in Made,
                      Holder(made).age < made.policy.guardian_consent_under,
                      \/ Dob \in made.presentation.shared
                      \/ AgeAbove(made.policy.guardian_consent_under) \in made.presentation.shared,
                      Outcome(made).decision = "verified"
               PROVE  "MINOR_GUARDIAN_CONSENT" \in Outcome(made).reasons
    BY DEF SharedMinorIsMarked
  <2> DEFINE shared == made.presentation.shared
             under == made.policy.guardian_consent_under
  <2>1. Holder(made).age \in Nat /\ Holder(made).birthday \in BOOLEAN /\ under \in Nat
    BY MadeTypes DEF Inv, Resident, Policy
  <2>2. AgeCodes(Holder(made), made.policy, shared) \subseteq Outcome(made).reasons
    BY VerifiedShown, Findings DEF Holder
  <2>3. CASE Dob \in shared
    BY <2>2, <2>3 DEF AgeCodes, When
  <2>4. CASE Dob \notin shared
    <3>1. AgeAbove(under) \in shared /\ shared \ {ResidentName} # {}
      BY <2>4, DistinctClaims
    <3>2. ~Above(Holder(made), under)
      BY <2>1 DEF Above
    <3>3. "MINOR_GUARDIAN_CONSENT" \in Guardian(Holder(made), made.policy, shared)
      BY <3>1, <3>2 DEF Guardian, When
    <3>4. "MINOR_GUARDIAN_CONSENT" \in AgeCodes(Holder(made), made.policy, shared)
      BY <2>4, <3>1, <3>3 DEF AgeCodes, Attested
    <3> QED BY <2>2, <3>4
  <2> QED BY <2>3, <2>4
<1> QED BY <1>1, SessionsInvariance, PTL

\* What was found comes from a check of the presentation, or the engine added it.
LEMMA ReasonIsShown ==
    ASSUME NEW made, made.valid, NEW code \in Outcome(made).reasons,
           code \notin {"CHECK_ERROR", "LEVEL_BELOW_EVENT_MINIMUM"}
    PROVE  LET shown == Shown(made.session, made.presentation, made.policy)
           IN  code \in shown["aadhaar_app"].codes \cup shown["identity"].codes \cup shown["eligibility"].codes
<1> DEFINE shown == Shown(made.session, made.presentation, made.policy)
<1>1. DOMAIN shown = {"aadhaar_app", "identity", "eligibility"}
  BY DEF Shown
<1>2. Outcome(made) = decide(shown, made.policy.min_level)
  BY DEF Outcome
<1> HIDE DEF shown
<1>3. \E name \in DOMAIN shown : code \in shown[name].codes
  BY <1>2 DEF decide, Reasons, collect_reasons
<1> QED BY <1>1, <1>3 DEF shown

\* The rules whose attestation the request asks for and service.py:344 does not count.
Uncounted(p) == p.max_age = None /\ p.min_age \in AgeThresholds \ {18}

\* Who shares what the request asks for is not of unknown age, and lacks a claim only under
\* the rules whose attestation does not count.
LEMMA RequestIsEnough ==
    ASSUME NEW r \in Resident, NEW p \in Policy
    PROVE  /\ Lacks(p, requested_claims(p)) <=> Uncounted(p)
           /\ "AGE_UNKNOWN" \notin AgeCodes(r, p, requested_claims(p))
<1> DEFINE shared == requested_claims(p)
<1>1. ResidentName \in shared
  BY DEF requested_claims
<1>2. None \notin AgeThresholds /\ p.min_age \in Ages /\ p.max_age \in Ages
  BY RulesAssumption DEF Policy, AgeThresholds
<1>3. CASE ~AgeRule(p)
  <2>1. ~Lacks(p, shared) /\ ~Uncounted(p)
    BY <1>1, <1>2, <1>3 DEF Lacks, AgeRule, Uncounted
  <2>2. "AGE_UNKNOWN" \notin AgeCodes(r, p, shared)
    BY <1>3 DEF AgeCodes, Attested, Guardian, When
  <2> QED BY <2>1, <2>2
<1>4. CASE AgeRule(p) /\ p.min_age \in AgeThresholds /\ p.max_age = None
  <2>1. AgeAbove(p.min_age) \in shared /\ Dob \notin shared
    <3>1. shared \subseteq {ResidentName, AgeAbove(p.min_age), AgeAbove(18)}
      BY <1>4 DEF requested_claims
    <3>2. ResidentName # Dob
      BY DEF ResidentName, Dob
    <3> QED BY <1>4, <3>1, <3>2, DistinctClaims DEF requested_claims
  <2> HIDE DEF shared
  <2>2. ASSUME p.min_age = 18 PROVE Lacks(p, shared) <=> Uncounted(p)
    <3>1. ~Lacks(p, shared)
      BY <1>1, <1>4, <2>1, <2>2 DEF Lacks
    <3> QED BY <2>2, <3>1 DEF Uncounted
  <2>3. ASSUME p.min_age # 18 PROVE Lacks(p, shared) <=> Uncounted(p)
    <3>1. Lacks(p, shared)
      BY <1>4, <2>1, <2>3 DEF Lacks
    <3> QED BY <1>4, <2>3, <3>1 DEF Uncounted
  <2>4. "AGE_UNKNOWN" \notin Attested(r, p, shared)
    BY <1>4, <2>1 DEF Attested, Guardian, When, NotYetOfAge
  <2>5. shared \ {ResidentName} # {}
    BY <2>1, DistinctClaims
  <2>6. "AGE_UNKNOWN" \notin AgeCodes(r, p, shared)
    BY <2>1, <2>4, <2>5 DEF AgeCodes
  <2>7. Lacks(p, shared) <=> Uncounted(p)
    BY <2>2, <2>3
  <2> QED BY <2>6, <2>7 DEF shared
<1>5. CASE AgeRule(p) /\ ~(p.min_age \in AgeThresholds /\ p.max_age = None)
  <2>1. Dob \in shared /\ ~Uncounted(p)
    BY <1>5 DEF requested_claims, Uncounted
  <2> HIDE DEF shared
  <2>2. ~Lacks(p, shared)
    BY <1>1, <2>1 DEF Lacks
  <2>3. "AGE_UNKNOWN" \notin AgeCodes(r, p, shared)
    BY <2>1 DEF AgeCodes, When
  <2> QED BY <2>1, <2>2, <2>3 DEF shared
<1> QED BY <1>3, <1>4, <1>5

\* What becomes of who shares everything that was asked for: the age is never unknown, a claim
\* is missing exactly under minimum ages 50, 60 and 75, and under those nobody is verified.
AskedAndAnswered ==
    \A made \in Made :
        made.valid /\ made.presentation.shared = requested_claims(made.policy) =>
            /\ "AGE_UNKNOWN" \notin Outcome(made).reasons
            /\ "AADHAAR_APP_CLAIM_MISSING" \in Outcome(made).reasons <=> Uncounted(made.policy)
            /\ Uncounted(made.policy) => Outcome(made).decision # "verified"

\* "only what this event's rules need" (app_vc.py:75), for every rule: what the request asks
\* for is enough except under minimum ages 50, 60 and 75, where it asks for an attestation that
\* service.py:344 does not count, so that whoever shares all of it is told a claim is missing
\* and is never verified.
THEOREM AppAskedAndAnswered == Spec => []AskedAndAnswered
<1>1. Inv => AskedAndAnswered
  <2> SUFFICES ASSUME Inv, NEW made \in Made, made.valid,
                      made.presentation.shared = requested_claims(made.policy)
               PROVE  /\ "AGE_UNKNOWN" \notin Outcome(made).reasons
                      /\ "AADHAAR_APP_CLAIM_MISSING" \in Outcome(made).reasons <=> Uncounted(made.policy)
                      /\ Uncounted(made.policy) => Outcome(made).decision # "verified"
    BY DEF AskedAndAnswered
  <2> DEFINE pr == made.presentation
             p == made.policy
             shown == Shown(made.session, pr, p)
  <2>1. Holder(made) \in Resident /\ p \in Policy
    BY MadeTypes DEF Inv
  <2>2. /\ Lacks(p, pr.shared) <=> Uncounted(p)
        /\ "AGE_UNKNOWN" \notin AgeCodes(Holder(made), p, pr.shared)
    BY <2>1, RequestIsEnough
  <2>3. shown["aadhaar_app"].codes =
            {IF Lacks(p, pr.shared) THEN "AADHAAR_APP_CLAIM_MISSING" ELSE "AADHAAR_APP_VERIFIED"}
    BY DEF Shown, result
  <2>4. shown["identity"].codes \subseteq
            {"NAME_MATCH", "NAME_PARTIAL_MATCH", "NAME_MISMATCH", "DOB_MISMATCH_FORM"}
    BY <2>1, Findings DEF Resident, Holder
  <2>5. shown["eligibility"].codes \subseteq
            AgeCodes(Holder(made), p, pr.shared) \cup {"DOC_TYPE_NOT_ACCEPTED", "STUDENT_PROOF_REQUIRED"}
    BY Findings DEF Holder
  <2>6. "AADHAAR_APP_CLAIM_MISSING" \notin AgeCodes(Holder(made), p, pr.shared)
    BY DEF AgeCodes, Attested, Guardian, NotYetOfAge, When
  <2>7. \A code \in {"AADHAAR_APP_CLAIM_MISSING", "AGE_UNKNOWN"} : code \in Outcome(made).reasons =>
            code \in shown["aadhaar_app"].codes \cup shown["identity"].codes \cup shown["eligibility"].codes
    BY ReasonIsShown
  <2>8. shown["aadhaar_app"].codes \subseteq Outcome(made).reasons
    BY ShownIsReason
  <2>9. Outcome(made).decision = "verified" => ~Lacks(p, pr.shared)
    BY VerifiedShown
  <2> HIDE DEF pr, p, shown
  <2>10. "AGE_UNKNOWN" \notin Outcome(made).reasons
    BY <2>2, <2>3, <2>4, <2>5, <2>7
  <2>11. "AADHAAR_APP_CLAIM_MISSING" \in Outcome(made).reasons <=> Lacks(p, pr.shared)
    BY <2>3, <2>4, <2>5, <2>6, <2>7, <2>8
  <2> QED BY <2>2, <2>9, <2>10, <2>11 DEF p
<1> QED BY <1>1, SessionsInvariance, PTL
==============================================================================
