---------------------------- MODULE MCAadhaarApp -----------------------------
(***************************************************************************)
(* Small instances of AadhaarApp for TLC: residents around the limits,     *)
(* and rules that ask for nothing, an attestation or a date of birth.      *)
(***************************************************************************)
EXTENDS AadhaarApp, TLC

CONSTANTS s1, s2, h1, h2

Person(name, age, birthday, form_dob) ==
    [name |-> name, age |-> age, birthday |-> birthday, form_dob |-> form_dob]

\* s1: 18 by the event's day but not today; s2: 17 on the event's day.
SomeResidents ==
    [ s \in Sessions |->
        { IF s = s1 THEN Person("match", 18, TRUE, "same")
                    ELSE Person("match", 17, FALSE, "differs") } ]

Rules(min, max) ==
    [ min_age |-> min, max_age |-> max, guardian_consent_under |-> 18,
      student_only |-> FALSE, accepted |-> TRUE, min_level |-> CONSISTENT ]
Adults == Rules(18, None)
Minors == Rules(None, 17)
Anyone == Rules(None, None)
AllRules == {Adults, Minors, Anyone}
\* The request asks for a date of birth at first, for an attestation once the rules change.
OnlyMinors == {Minors}
\* An event for people of 60 and more, and one of 70 who registers.
OnlySeniors == {Rules(60, None)}
Grandparent == [ s \in Sessions |-> { Person("match", 70, FALSE, "same") } ]
Processes12 == Permutations(Processes)
==============================================================================
