----------------------------- MODULE AadhaarApp ------------------------------
(***************************************************************************)
(* Verification with the Aadhaar App (api/routes.py, aadhaar/app_vc.py,    *)
(* Verifier.verify_aadhaar_app): a session is opened, the app fetches its  *)
(* request, the resident shares some of what it asks for, and the app      *)
(* posts the presentation to the callback, perhaps more than once and      *)
(* perhaps not where it belongs.  The handlers of several processes share  *)
(* the tables; each runs one callback at a time and commits statement by   *)
(* statement.                                                              *)
(*                                                                         *)
(* A resident is known by age on the event's day, by whether the birthday  *)
(* falls between today and that day, and by how the form compares with the *)
(* credential.  A form is about the person behind its session, and         *)
(* different people have different names and dates of birth.  The event is *)
(* not in the past.  Signatures do what they promise.                      *)
(***************************************************************************)
EXTENDS Decision, Sequences

CONSTANTS
    Sessions, Processes,
    Residents,          \* who may stand behind each session
    Policies,           \* versions of the event's rules
    FirstPolicies,      \* the versions in force at the start
    None,               \* an absent value
    EventAhead,         \* the event's day is after today
    MaxPresentations,   \* bound: presentations made
    MaxVerifications,   \* bound: verifications saved
    MaxPublished        \* bound: versions published

\* The thresholds of AGE_CLAIMS.
AgeThresholds == {18, 50, 60, 75}
ResidentName == <<"ResidentName", 0>>
Dob == <<"Dob", 0>>
AgeAbove(threshold) == <<"AgeAbove", threshold>>
Claims == {ResidentName, Dob} \cup { AgeAbove(threshold) : threshold \in AgeThresholds }

Resident ==
    [ name : {"match", "partial", "mismatch"}, age : Nat, birthday : BOOLEAN,
      form_dob : {"none", "same", "differs"} ]
Ages == Nat \cup {None}
Policy ==
    [ min_age : Ages, max_age : Ages, guardian_consent_under : Nat, student_only : BOOLEAN,
      accepted : BOOLEAN,          \* Aadhaar is an accepted document
      min_level : EvidenceLevels ]

ASSUME ResidentsAssumption ==
    /\ Residents \in [Sessions -> SUBSET Resident]
    /\ \A s \in Sessions : \A r \in Residents[s] : r.birthday => EventAhead /\ r.age > 0
ASSUME RulesAssumption ==
    /\ None \notin Nat /\ None \notin Sessions /\ EventAhead \in BOOLEAN
    /\ Policies \subseteq Policy /\ FirstPolicies \subseteq Policies
    /\ \A p \in Policies : p.min_age # None /\ p.max_age # None => p.min_age <= p.max_age
ASSUME BoundsAssumption ==
    /\ MaxPresentations \in Nat /\ MaxVerifications \in Nat
    /\ MaxPublished \in Nat

\* What the app posts: for whose request, what is disclosed, whether the issuer
\* signed it and whether the credential names a holder key.
Presentations ==
    [session : Sessions, shared : SUBSET Claims, genuine : BOOLEAN, bound : BOOLEAN]

\* A saved verification is known by what it was made from: its outcome follows.
Verification ==
    [session : Sessions, presentation : Presentations, policy : Policy, valid : BOOLEAN]
VerificationIds == 1 .. MaxVerifications

\* The handler of a process: between callbacks, with a decision to save, with a session to close.
Idle == [step |-> "idle"]
Callbacks ==
    {Idle}
      \cup [step : {"received"}, made : Verification]
      \cup [step : {"saved"}, verification : VerificationIds]

VARIABLES
    resident,        \* who stands behind each session
    policy,          \* the current version of the event's rules
    published,       \* versions published
    session,         \* table vc_sessions
    expired,         \* sessions past their expires_at
    sent,            \* presentations made
    callback,        \* what the handler of each process is about
    verifications,   \* table verifications
    accepted         \* callbacks answered 200: the session and the verification

vars == << resident, policy, published, session, expired, sent, callback,
           verifications, accepted >>

------------------------------------------------------------------------------
AgeRule(p) == p.min_age # None \/ p.max_age # None

requested_claims(p) ==
    LET age == IF p.min_age \in AgeThresholds /\ p.max_age = None THEN {AgeAbove(p.min_age)}
               ELSE IF AgeRule(p) THEN {Dob} ELSE {}
    IN  {ResidentName} \cup age
          \cup IF p.guardian_consent_under = 18 /\ Dob \notin age THEN {AgeAbove(18)} ELSE {}

\* _needed_claims and _has_claim.
Lacks(p, shared) ==
    \/ ResidentName \notin shared
    \/ /\ AgeRule(p) /\ Dob \notin shared
       /\ ~ (p.min_age = 18 /\ p.max_age = None /\ AgeAbove(18) \in shared)

\* Mutant: the nonce of the key binding is not compared.
verify_presentation_AnyNonce(pr, s) == pr.genuine

\* A bound credential must answer this session's nonce; an unbound one names none.
verify_presentation(pr, s) == pr.genuine /\ (pr.bound => pr.session = s)

Above(r, threshold) == r.age - (IF r.birthday THEN 1 ELSE 0) >= threshold

InRange(age, p) ==
    /\ p.min_age # None => age >= p.min_age
    /\ p.max_age # None => age <= p.max_age

When(condition, code) == IF condition THEN {code} ELSE {}

\* Mutants: who is not of age today is rejected, or let in; minors are not marked.
NotYetOfAge_Reject == {"AGE_BELOW_MIN_CONFIRMED"}
NotYetOfAge_LetIn == IF EventAhead THEN {"AGE_ELIGIBLE"} ELSE {"AGE_BELOW_MIN_CONFIRMED"}
Guardian_Unmarked(r, p, shared) == {}

\* An attestation speaks of today, the rules of the event's day.
NotYetOfAge == {IF EventAhead THEN "AGE_BOUNDARY_UNCERTAIN" ELSE "AGE_BELOW_MIN_CONFIRMED"}
Guardian(r, p, shared) ==
    LET under == p.guardian_consent_under
    IN  When(AgeAbove(under) \in shared /\ ~Above(r, under), "MINOR_GUARDIAN_CONSENT")
Attested(r, p, shared) ==
    Guardian(r, p, shared)
      \cup IF ~AgeRule(p) THEN {}
           ELSE IF p.max_age # None \/ AgeAbove(p.min_age) \notin shared THEN {"AGE_UNKNOWN"}
           ELSE IF Above(r, p.min_age) THEN {"AGE_ELIGIBLE"}
           ELSE NotYetOfAge

\* _age: a shared date of birth is signed, hence confirmed.
AgeCodes(r, p, shared) ==
    IF Dob \in shared THEN
        When(r.age < p.guardian_consent_under, "MINOR_GUARDIAN_CONSENT")
          \cup IF ~AgeRule(p) THEN {}
               ELSE IF InRange(r.age, p) THEN {"AGE_ELIGIBLE"}
               ELSE IF p.min_age # None /\ r.age < p.min_age THEN {"AGE_BELOW_MIN_CONFIRMED"}
               ELSE {"AGE_ABOVE_MAX_CONFIRMED"}
    ELSE IF shared \ {ResidentName} # {} THEN Attested(r, p, shared)
    ELSE When(AgeRule(p), "AGE_UNKNOWN")

eligibility(r, p, shared) ==
    LET age == AgeCodes(r, p, shared)
    IN  result(IF age \cap RejectCodes # {} THEN "fail" ELSE "pass",
               age \cup When(~p.accepted, "DOC_TYPE_NOT_ACCEPTED")
                   \cup When(p.student_only, "STUDENT_PROOF_REQUIRED"),
               UNUSABLE)

\* identity: the form of the registration against the credential.
identity(name, form_dob, shared) ==
    LET conflict == form_dob = "differs" /\ Dob \in shared
        code == [match |-> "NAME_MATCH", partial |-> "NAME_PARTIAL_MATCH", mismatch |-> "NAME_MISMATCH"]
    IN  IF ResidentName \notin shared THEN result("skipped", {}, UNUSABLE)
        ELSE result(IF name = "match" /\ ~conflict THEN "pass" ELSE "warn",
                    {code[name]} \cup When(conflict, "DOB_MISMATCH_FORM"), UNUSABLE)

Invalid == [check \in {"aadhaar_app"} |-> result("fail", {"AADHAAR_APP_INVALID"}, UNUSABLE)]
\* The claims of one resident for the session of one.
Shown(s, pr, p) ==
    LET r == resident[pr.session]
        own == pr.session = s
        app == IF Lacks(p, pr.shared)
               THEN result("fail", {"AADHAAR_APP_CLAIM_MISSING"}, UNUSABLE)
               ELSE result("pass", {"AADHAAR_APP_VERIFIED"}, IF pr.bound THEN PRESENT ELSE PROVEN)
        form_dob == IF own \/ resident[s].form_dob = "none" THEN resident[s].form_dob ELSE "differs"
    IN  [ aadhaar_app |-> app,
          identity    |-> identity(IF own THEN r.name ELSE "mismatch", form_dob, pr.shared),
          eligibility |-> eligibility(r, p, pr.shared) ]

\* verify_aadhaar_app: what is decided on the callback.
Outcome(made) ==
    decide(IF made.valid THEN Shown(made.session, made.presentation, made.policy) ELSE Invalid,
           made.policy.min_level)

------------------------------------------------------------------------------
Closed == {"completed", "failed"}
NoSession == [status |-> "none", verification |-> None]

TypeOK ==
    /\ resident \in [Sessions -> Resident] /\ \A s \in Sessions : resident[s] \in Residents[s]
    /\ policy \in Policies
    /\ published \in 0 .. MaxPublished
    /\ session \in [Sessions -> [ status : {"none", "pending", "purged"} \cup Closed,
                                  verification : VerificationIds \cup {None} ]]
    /\ expired \subseteq Sessions
    /\ sent \subseteq Presentations
    /\ callback \in [Processes -> Callbacks]
    /\ verifications \in Seq(Verification) /\ Len(verifications) <= MaxVerifications
    /\ accepted \subseteq Sessions \X VerificationIds

Init ==
    /\ resident \in { r \in [Sessions -> UNION { Residents[s] : s \in Sessions }] :
                        \A s \in Sessions : r[s] \in Residents[s] }
    /\ policy \in FirstPolicies /\ published = 0
    /\ session = [s \in Sessions |-> NoSession]
    /\ expired = {} /\ sent = {}
    /\ callback = [h \in Processes |-> Idle]
    /\ verifications = <<>> /\ accepted = {}

\* POST /v1/aadhaar-app/sessions
StartSession(s) ==
    /\ session[s].status = "none"
    /\ session' = [session EXCEPT ![s].status = "pending"]
    /\ UNCHANGED <<resident, policy, published, expired, sent, callback, verifications, accepted>>

Open(s) == session[s].status = "pending" /\ s \notin expired

\* The app fetches the signed request, and the resident shares all or part of what it
\* asks for, or something comes back that no issuer signed.
Present(s) ==
    /\ Open(s) /\ Cardinality(sent) < MaxPresentations
    /\ \E pr \in [ session : {s}, shared : SUBSET requested_claims(policy),
                  genuine : BOOLEAN, bound : BOOLEAN ] :
           /\ pr.genuine \/ (pr.shared = {} /\ ~pr.bound)
           /\ sent' = sent \cup {pr}
    /\ UNCHANGED <<resident, policy, published, session, expired, callback, verifications, accepted>>

\* The callback up to its decision; the credential or its binding may be too old by now.
Receive(h, s, pr) ==
    /\ callback[h] = Idle /\ Open(s)
    /\ \E valid \in {verify_presentation(pr, s), FALSE} :
           callback' = [callback EXCEPT ![h] =
               [ step |-> "received",
                 made |-> [session |-> s, presentation |-> pr, policy |-> policy, valid |-> valid] ]]
    /\ UNCHANGED <<resident, policy, published, session, expired, sent, verifications, accepted>>

\* verify_aadhaar_app: the verification is saved.
Save(h) ==
    /\ callback[h].step = "received" /\ Len(verifications) < MaxVerifications
    /\ verifications' = Append(verifications, callback[h].made)
    /\ callback' = [callback EXCEPT ![h] =
           [step |-> "saved", verification |-> Len(verifications) + 1]]
    /\ UNCHANGED <<resident, policy, published, session, expired, sent, accepted>>

\* Mutant: the update does not ask whether the session is still pending.
MayClose_Any(s) == session[s].status # "purged"

\* UPDATE ... WHERE status = 'pending'
MayClose(s) == session[s].status = "pending"

ClosedAs(valid) == IF valid THEN "completed" ELSE "failed"

\* complete_vc_session, and the answer: 200, or 409 when another callback was first.
Complete(h) ==
    /\ callback[h].step = "saved"
    /\ LET v == callback[h].verification
           s == verifications[v].session
       IN  \/ /\ MayClose(s)
              /\ session' = [session EXCEPT ![s] =
                     [status |-> ClosedAs(verifications[v].valid), verification |-> v]]
              /\ accepted' = accepted \cup {<<s, v>>}
           \/ ~MayClose(s) /\ UNCHANGED <<session, accepted>>
    /\ callback' = [callback EXCEPT ![h] = Idle]
    /\ UNCHANGED <<resident, policy, published, expired, sent, verifications>>

\* Ten minutes are over.
Expire(s) ==
    /\ session[s].status \in {"pending"} \cup Closed /\ s \notin expired
    /\ expired' = expired \cup {s}
    /\ UNCHANGED <<resident, policy, published, session, sent, callback, verifications, accepted>>

\* purge_expired: the sweeper deletes expired sessions, whatever their status.
PurgeSessions ==
    /\ \E s \in expired : session[s].status # "purged"
    /\ session' = [s \in Sessions |->
           IF s \in expired THEN [status |-> "purged", verification |-> None] ELSE session[s]]
    /\ UNCHANGED <<resident, policy, published, expired, sent, callback, verifications, accepted>>

\* The organiser publishes another version of the rules.
Publish(p) ==
    /\ published < MaxPublished /\ p # policy
    /\ policy' = p /\ published' = published + 1
    /\ UNCHANGED <<resident, session, expired, sent, callback, verifications, accepted>>

\* A process stops in the middle of a callback.
Crash(h) ==
    /\ callback[h] # Idle
    /\ callback' = [callback EXCEPT ![h] = Idle]
    /\ UNCHANGED <<resident, policy, published, session, expired, sent, verifications, accepted>>

Next ==
    \/ \E s \in Sessions : StartSession(s) \/ Present(s) \/ Expire(s)
    \/ \E h \in Processes : \/ \E s \in Sessions, pr \in sent : Receive(h, s, pr)
                            \/ Save(h) \/ Complete(h) \/ Crash(h)
    \/ PurgeSessions
    \/ \E p \in Policies : Publish(p)

Spec == Init /\ [][Next]_vars

------------------------------------------------------------------------------
(* Properties *)
Made == { verifications[v] : v \in DOMAIN verifications }
Holder(made) == resident[made.presentation.session]

\* A callback answered 200 has closed its session: as long as the session is known,
\* it names that verification and no other, however many callbacks race for it.
AcceptedAnswerStands ==
    \A s \in Sessions, v \in VerificationIds :
        <<s, v>> \in accepted /\ session[s].status # "purged" =>
            session[s].status \in Closed /\ session[s].verification = v

\* A closed session names a verification made from it, and is completed only by
\* a presentation that was signed and, if bound, made for this session.
ClosedByItsOwn ==
    \A s \in Sessions : session[s].status \in Closed =>
        LET made == verifications[session[s].verification]
        IN  /\ made.session = s
            /\ session[s].status = "completed" =>
                   made.presentation.genuine
                     /\ (made.presentation.bound => made.presentation.session = s)
            /\ session[s].status = "failed" => Outcome(made).decision = "action_required"

\* Whoever is verified is the person on the form and, on the event's day, of the age
\* the rules in force at the callback ask for, whatever version the request was made from.
AppVerifiedIsOfAge ==
    \A made \in Made :
        \/ /\ made.presentation.session = made.session
           /\ Holder(made).name = "match"
           /\ InRange(Holder(made).age, made.policy)
        \/ Outcome(made).decision # "verified"

\* Nobody of the right age on the event's day is rejected: an attestation speaks of
\* today, and a birthday may come before the event (eligibility.py:101).
AppRejectsOutOfRange ==
    \A made \in Made :
        InRange(Holder(made).age, made.policy) => Outcome(made).decision # "not_eligible"

\* A minor who shared a date of birth, or an attestation for the age in question,
\* is never verified without being marked for guardian consent.
SharedMinorIsMarked ==
    \A made \in Made :
        LET under == made.policy.guardian_consent_under
            shared == made.presentation.shared
        IN  Holder(made).age < under /\ (Dob \in shared \/ AgeAbove(under) \in shared) =>
                \/ Outcome(made).decision # "verified"
                \/ "MINOR_GUARDIAN_CONSENT" \in Outcome(made).reasons

(* What a comment says and the code does not do *)

\* "only what this event's rules need" (app_vc.py:75): who shares everything that was
\* asked for under the rules in force is not told that claims are missing, and is not asked
\* to show an age the request did not ask for.  Under minimum ages 50, 60 and 75 the request
\* asks for their attestation, and service.py:344 wants a date of birth.
AskedIsEnough ==
    \A made \in Made :
        made.valid /\ made.presentation.shared = requested_claims(made.policy) =>
            Outcome(made).reasons \cap {"AADHAAR_APP_CLAIM_MISSING", "AGE_UNKNOWN"} = {}
==============================================================================
