------------------------------- MODULE Passes --------------------------------
(***************************************************************************)
(* The Pehchaan Pass beside the document path that earns it: _finalise     *)
(* issues one for a verified attempt, verify_pass accepts it at another    *)
(* event.  A token carries claims, so what is checked there is what the    *)
(* claims say and no longer what the card showed.                          *)
(*                                                                         *)
(* The signature is assumed to do what it promises.  Revocation is a fact  *)
(* of the use (the passes table is in VerificationService).                *)
(***************************************************************************)
EXTENDS Pipeline

CONSTANTS
    Uses,          \* what a caller may send with a pass
    YearsValid     \* validity of a pass (pass_validity_days)

Tokens == {"good", "other_account", "forged"}

Use ==
    [ token : Tokens, revoked : BOOLEAN, on : Dates,
      form_dob : Dates \cup {None},
      name : Names \ {"none"} ]        \* of the form, compared with the pass

PassClaims ==
    [ level : EvidenceLevels, doc : DocTypes, dob : Dates \cup {None}, year : Ages,
      confirmed : BOOLEAN, student_until : Dates \cup {None}, expires : Dates ]

ASSUME UsesAssumption == Uses \subseteq Use /\ \A u \in Uses : ~Before(u.on, Today)
ASSUME ValidityAssumption == YearsValid \in Nat

VARIABLES
    pass,      \* claims of the pass the last attempt earned, None without
    visit      \* the use of that pass: [policy, use, outcome], None before

passVars == <<vars, pass, visit>>

\* Mutant: a verification under suspicion earns a pass.
EarnsPass_Suspected(s, p, o) ==
    s.account /\ p.issue_passes /\ o.level >= CONSISTENT /\ o.decision \in {"verified", "needs_review"}

\* _maybe_issue_pass
EarnsPass(s, p, o) ==
    /\ s.account /\ p.issue_passes
    /\ o.decision = "verified" /\ o.level >= CONSISTENT
    /\ "duplicate_suspected" \notin o.flags

\* A pass ends with the college ID it was earned with.
Expiry(c) ==
    LET year == [Today EXCEPT !.year = @ + YearsValid]
    IN  IF c.doc = "college_id" /\ c.valid_until # None /\ Before(c.valid_until, year)
        THEN c.valid_until ELSE year

\* issue: what of the fields goes into the token.
Claims(c, o) ==
    [ level |-> o.level, doc |-> c.doc, dob |-> c.dob, year |-> c.year,
      confirmed |-> c.source = "qr_signed",
      student_until |-> IF c.doc = "college_id" THEN c.valid_until ELSE None,
      expires |-> Expiry(c) ]

\* _check_pass, up to the fields: the first objection decides.
check_pass(u, p) ==
    IF ~p.accept_passes THEN Ran("fail", {"PASS_NOT_ACCEPTED"})
    ELSE IF u.token = "forged" THEN Ran("fail", {"PASS_INVALID"})
    ELSE IF u.token = "other_account" THEN Ran("warn", {"PASS_SUBJECT_MISMATCH"})
    ELSE IF Before(pass.expires, u.on) THEN Ran("fail", {"PASS_EXPIRED"})
    ELSE IF u.revoked THEN Ran("warn", {"PASS_REVOKED"})
    ELSE IF pass.level < p.min_level THEN Ran("fail", {"PASS_LEVEL_TOO_LOW"})
    ELSE result("pass", {"PASS_ACCEPTED"}, pass.level)

\* Mutant: every date in a token of ours counts as signed by UIDAI.
PassFields_Signed(u) ==
    [ Empty EXCEPT !.doc = IF pass.student_until # None THEN "college_id" ELSE pass.doc,
                   !.name = u.name, !.dob = pass.dob, !.year = pass.year,
                   !.source = "qr_signed", !.reading = "high", !.valid_until = pass.student_until ]

\* _check_pass: the fields of a pass that is accepted.
PassFields(u) ==
    [ Empty EXCEPT !.doc = IF pass.student_until # None THEN "college_id" ELSE pass.doc,
                   !.name = u.name, !.dob = pass.dob, !.year = pass.year,
                   !.source = IF pass.confirmed THEN "qr_signed" ELSE "ocr",
                   !.reading = "high", !.valid_until = pass.student_until ]

\* verify_pass: identity and eligibility follow a pass that is accepted.
PassLedger(u, p) ==
    LET first == check_pass(u, p)
    IN  IF first.status # "pass" THEN With(NoResults, "pass", first)
        ELSE With(With(With(NoResults, "pass", first), "identity", identity(u, PassFields(u))),
                  "eligibility", eligibility(u, PassFields(u), p))

------------------------------------------------------------------------------
PassInit == Init /\ pass = None /\ visit = None

\* The model follows the pass of the last attempt, and stops when it was used (a bound:
\* the pass path leaves nothing that an attempt reads).
SubmitAgain ==
    /\ stage = 0 /\ visit = None
    /\ \E s \in Submissions : Submit(s)
    /\ pass' = None /\ UNCHANGED visit

Continue == Working /\ UNCHANGED <<pass, visit>>

DecideAndIssue ==
    /\ Decide
    /\ pass' = IF EarnsPass(sub, policy, outcome') THEN Claims(ctx, outcome') ELSE None
    /\ UNCHANGED visit

\* verify_pass runs without a suspension; a pass itself earns no other.
UsePass(u, p) ==
    /\ stage = 0 /\ pass # None /\ visit = None
    /\ visit' = [policy |-> p, use |-> u, outcome |-> decide(PassLedger(u, p), p.min_level)]
    /\ UNCHANGED <<vars, pass>>

PassNext ==
    SubmitAgain \/ Continue \/ DecideAndIssue \/ \E u \in Uses, p \in Policies : UsePass(u, p)

PassSpec == PassInit /\ [][PassNext]_passVars

------------------------------------------------------------------------------
PassTypeOK ==
    /\ TypeOK
    /\ pass \in PassClaims \cup {None}
    /\ visit # None => visit.policy \in Policies /\ visit.use \in Uses /\ pass # None

Visited(decision) == visit # None /\ visit.outcome.decision = decision

\* What was signed about the person, if anything, is what the form says.
SignedAs(dob) == sub.qr = "signed" => sub.qr_dob = dob

\* A person whose form and signed QR (if any) give the same date of birth, one
\* the event admits, is never rejected, whatever OCR misread on the card, and
\* neither when the pass earned with that card is used at another event.
HonestNeverRejected ==
    /\ Decided("not_eligible") =>
           ~(sub.form_dob # None /\ OfAge(sub.form_dob, policy) /\ SignedAs(sub.form_dob))
    /\ Visited("not_eligible") =>
           LET dob == visit.use.form_dob
           IN  ~(dob # None /\ OfAge(dob, visit.policy) /\ SignedAs(dob))

\* Whoever is verified for an event with an age rule, with a card or with a pass
\* earned by it, is of age on that event's day by every date the card leaves possible.
VerifiedIsOfAge ==
    /\ Decided("verified") /\ AgeRule(policy) => AgeShown(policy)
    /\ Visited("verified") /\ AgeRule(visit.policy) => AgeShown(visit.policy)

\* Whoever is verified for an event for students showed a college ID, and one
\* that is not known to end before the event's day; a pass made from it is not
\* accepted after that end.
StudentOnTheDay ==
    LET student(p) == sub.doc = "college_id" /\ (sub.valid_until # None => ~Before(sub.valid_until, p.event))
    IN  /\ Decided("verified") /\ policy.student_only => student(policy)
        /\ Visited("verified") /\ visit.policy.student_only => student(visit.policy)
        /\ Visited("verified") /\ sub.doc = "college_id" /\ sub.valid_until # None =>
               ~Before(sub.valid_until, visit.use.on)

\* A pass proves no more than the attempt it was earned with: that attempt was verified
\* free of suspicion, reached the level the pass shows and the one the new event wants,
\* and the pass was used by its account, in time and unrevoked, under the same name.
PassAddsNothing ==
    visit # None =>
        /\ visit.outcome.level <= outcome.level
        /\ Visited("verified") =>
               /\ outcome.decision = "verified" /\ "duplicate_suspected" \notin outcome.flags
               /\ outcome.level >= visit.policy.min_level
               /\ visit.use.token = "good" /\ ~visit.use.revoked /\ visit.use.name = "match"

(* What a comment says and the code does not do *)

\* "A DOB is hard evidence only if it is UIDAI-signed, or read confidently AND
\* matching the form" (eligibility.py:121): an age is confirmed out of range, on
\* a card or on the pass earned with it, on such a date or signed year only.
ConfirmedOnHardEvidence ==
    LET confirmed(o) == o.reasons \cap {"AGE_BELOW_MIN_CONFIRMED", "AGE_ABOVE_MAX_CONFIRMED"} # {}
        hard(form) == IF ctx.dob = None THEN sub.qr = "signed"
                      ELSE (SignedDob /\ ctx.dob = sub.qr_dob) \/ (ctx.dob = form /\ sub.reading = "high")
    IN  /\ stage = 0 /\ confirmed(outcome) => hard(sub.form_dob)
        /\ visit # None /\ confirmed(visit.outcome) => hard(visit.use.form_dob)
==============================================================================
