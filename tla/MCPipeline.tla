----------------------------- MODULE MCPipeline ------------------------------
(***************************************************************************)
(* Small instances of Passes for TLC: dates of birth around an age limit   *)
(* on the card, in the QR and on the form, and one variation at a time of  *)
(* everything else, the use of a pass included.                            *)
(***************************************************************************)
EXTENDS Passes

EventDay == [year |-> 2026, day |-> 200]
Now      == [year |-> 2026, day |-> 100]
Soon     == [year |-> 2026, day |-> 150]     \* after the attempts, before the event
Later    == [year |-> 2027, day |-> 200]     \* the day of a later event
Adult  == [year |-> 2007, day |-> 150]       \* 19 on the event's day
Just18 == [year |-> 2008, day |-> 200]
Not18  == [year |-> 2008, day |-> 201]       \* 17: the birthday is a day later
BirthDates == {Adult, Just18, Not18}

Good ==
    [ image |-> "clear", text |-> TRUE, doc |-> "aadhaar", name |-> "match", dob |-> Just18,
      year |-> None, reading |-> "high", number |-> "valid", institution |-> FALSE,
      valid_until |-> None, qr |-> "signed", qr_name |-> "match", qr_dob |-> Just18,
      qr_year |-> 2008, qr_differs |-> {}, form_dob |-> Just18, account |-> TRUE, signs |-> {},
      known |-> Ran("pass", {}), selfie |-> "match", live |-> TRUE, raises |-> {} ]

\* Every combination of a printed, a signed and a typed date of birth.
Printed ==
    { [Good EXCEPT !.dob = d, !.reading = r] : d \in BirthDates, r \in {"low", "fair", "high"} }
      \cup { [Good EXCEPT !.dob = None, !.year = y, !.reading = "absent"] : y \in {None, 2007, 2008} }
Signed(s) ==
    { [s EXCEPT !.qr_dob = d, !.qr_year = d.year] : d \in BirthDates }
      \cup { [s EXCEPT !.qr = q, !.qr_dob = None, !.qr_year = None] : q \in {"none", "bad_signature"} }
Typed(s) == { [s EXCEPT !.form_dob = d] : d \in BirthDates \cup {None} }
Dated == UNION { UNION { Typed(t) : t \in Signed(s) } : s \in Printed }

\* The card has a full date, the signed QR only the year.
YearOnly ==
    UNION { Typed([s EXCEPT !.qr_dob = None, !.qr_year = y]) : s \in Printed, y \in {2007, 2008} }

Varied ==
    LET plain == [Good EXCEPT !.qr = "none", !.qr_dob = None, !.qr_year = None]
        college == [plain EXCEPT !.doc = "college_id", !.institution = TRUE, !.valid_until = Later]
        blank == [plain EXCEPT !.text = FALSE, !.doc = "unknown", !.name = "none", !.dob = None,
                               !.reading = "absent"]
    IN  {plain, college, blank, [blank EXCEPT !.qr = "legacy"]}
          \cup { [college EXCEPT !.valid_until = v, !.institution = i] :
                     v \in {None, Soon, EventDay}, i \in BOOLEAN }
          \cup { [plain EXCEPT !.doc = d, !.number = n] : d \in {"pan", "unknown", "aadhaar"},
                     n \in {"valid", "invalid", "masked", "not_individual", "other_surname"} }
          \cup { [Good EXCEPT !.image = i] : i \in {"unreadable", "defective"} }
          \cup { [Good EXCEPT !.name = n, !.qr_name = q] : n \in Names, q \in Names }
          \cup { [Good EXCEPT !.qr_differs = {d}] : d \in {"name", "number", "photo"} }
          \cup { [Good EXCEPT !.signs = {t}] : t \in TamperCodes }
          \cup { [Good EXCEPT !.known = k] :
                     k \in { Ran("warn", {"DUPLICATE_IMAGE"}),
                             Ran("error", {"DUPLICATE_INDEX_UNAVAILABLE"}) } }
          \cup { [Good EXCEPT !.selfie = f, !.live = l] : l \in BOOLEAN,
                     f \in {"none", "no_face", "spoof", "no_reference", "mismatch", "match"} }
          \cup { [Good EXCEPT !.raises = {check}] : check \in Checks }
          \cup { [Good EXCEPT !.raises = {check}, !.image = "unreadable"] : check \in Checks }

Adults ==
    [ event |-> EventDay, min_age |-> 18, max_age |-> None, student_only |-> FALSE,
      accepted |-> DocTypes \ {"unknown"}, require_selfie |-> FALSE, min_level |-> CONSISTENT,
      require_aadhaar_qr |-> TRUE, guardian_consent_under |-> 18,
      accept_passes |-> TRUE, issue_passes |-> TRUE ]
Minors == [Adults EXCEPT !.min_age = None, !.max_age = 17, !.require_aadhaar_qr = FALSE]
Students == [Adults EXCEPT !.min_age = None, !.student_only = TRUE, !.accepted = {"college_id", "pan"}]
Present == [Adults EXCEPT !.require_selfie = TRUE, !.min_level = PRESENT]
Anyone == [Adults EXCEPT !.min_age = None, !.accept_passes = FALSE]
NextYear == [Students EXCEPT !.event = Later, !.min_age = 19, !.issue_passes = FALSE]
AllPolicies == {Adults, Minors, Students, Present, Anyone, NextYear}
AllSubmissions == Dated \cup YearOnly \cup Varied \cup {[Good EXCEPT !.account = FALSE]}

\* The owner of the pass at either event, and one variation of everything else.
Owner == [token |-> "good", revoked |-> FALSE, on |-> Now, form_dob |-> Just18, name |-> "match"]
AllUses ==
    { [Owner EXCEPT !.form_dob = d] : d \in BirthDates \cup {None} }
      \cup { [Owner EXCEPT !.on = d] : d \in {Soon, EventDay, [EventDay EXCEPT !.day = @ + 1], Later} }
      \cup { [Owner EXCEPT !.token = t] : t \in Tokens }
      \cup { [Owner EXCEPT !.name = n] : n \in {"mismatch", "partial"} }
      \cup { [Owner EXCEPT !.revoked = TRUE] }

\* For the disagreement about hard evidence: adults and anyone.
TwoPolicies == {Adults, [Anyone EXCEPT !.accept_passes = TRUE]}
==============================================================================
