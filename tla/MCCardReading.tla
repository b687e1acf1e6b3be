---------------------------- MODULE MCCardReading ----------------------------
(***************************************************************************)
(* Small instance of CardReading for TLC: every kind of card, printed in   *)
(* any order of its labelled fields, with the values beside or below their *)
(* labels; whole fields or single lines lost, so that a label is followed  *)
(* by the value of another; institutions, roll numbers and headers that    *)
(* pass for names; answers of Textract that are right, wrong or missing;   *)
(* and signed, unsigned, damaged and legacy QR codes.                      *)
(***************************************************************************)
EXTENDS CardReading

Name == <<65>>
Numbered(n) == [valid |-> TRUE, digits |-> <<n>>]
Nothing == [name |-> None, dob |-> None, year_of_birth |-> None, id_number |-> None,
            institution |-> None, valid_until |-> None]

Card(type, values) == [type |-> type, fields |-> values]

\* What Textract answers: what the card says, nothing, or something else.
Right(card) == [alias \in DOMAIN NoAnswers |-> card.fields[FieldOf[alias]]]
Wrong == [NAME |-> <<66>>, DOB |-> 1999, ID_NUMBER |-> Numbered(58), INSTITUTION |-> None, VALID_UNTIL |-> 2020]

Student == Card("COLLEGE_ID", [Nothing EXCEPT !.name = Name, !.dob = 2004, !.id_number = Numbered(49),
                                              !.institution = "institution", !.valid_until = 2027])
Driver == Card("DRIVING_LICENCE", [Nothing EXCEPT !.name = Name, !.dob = 2004, !.id_number = Numbered(50),
                                                  !.valid_until = 2035])
Voter == Card("VOTER_ID", [Nothing EXCEPT !.name = Name, !.dob = 2004, !.id_number = Numbered(51)])
Resident == Card("AADHAAR", [Nothing EXCEPT !.name = Name, !.dob = 2004, !.id_number = Numbered(52)])
YearOnly == Card("AADHAAR", [Nothing EXCEPT !.name = Name, !.year_of_birth = 2004, !.id_number = Numbered(52)])
Taxpayer == Card("PAN", [Nothing EXCEPT !.name = Name, !.dob = 2004, !.id_number = Numbered(53)])
Traveller(year) == Card("PASSPORT", [Nothing EXCEPT !.name = Name, !.dob = year, !.id_number = Numbered(54),
                                                    !.valid_until = 2030])

\* A field printed beside its label, or below it.
Line(label) == [Blank EXCEPT !.label = label]
PrintedAs(card, field, below) ==
    LET v == card.fields[field]
    IN  CASE field = "name" /\ below -> <<Line("name"), [Blank EXCEPT !.clean = v]>>
          [] field = "name" -> <<[Line("name") EXCEPT !.rest = TRUE, !.name = v]>>
          [] field = "dob" /\ below -> <<Line("dob"), [Blank EXCEPT !.date = v]>>
          [] field = "dob" -> <<[Line("dob") EXCEPT !.date = v]>>
          [] field = "valid_until" /\ below -> <<Line("valid"), [Blank EXCEPT !.month = v]>>
          [] field = "valid_until" -> <<[Line("valid") EXCEPT !.month = v]>>
          [] field = "institution" -> <<[Line("institution") EXCEPT !.clean = <<83>>]>>
          [] card.type = "COLLEGE_ID" -> <<[Line("roll") EXCEPT !.number = v, !.clean = <<85>>]>>
          [] OTHER -> <<[Blank EXCEPT !.number = v]>>

Printed(card) == { f \in DOMAIN card.fields : card.fields[f] # None }
Orders(set) == { order \in [1 .. Cardinality(set) -> set] : \A f \in set : \E i \in DOMAIN order : order[i] = f }
Layout(card, order, below) == FlattenSeq([i \in DOMAIN order |-> PrintedAs(card, order[i], order[i] \in below)])

Photo(card, lines, texts, answers) == [type |-> card.type, lines |-> lines, texts |-> texts, answers |-> answers]

Laid ==
    { Photo(card, Layout(card, order, below), <<>>, Right(card)) :
        <<card, order, below>> \in UNION { { card } \X Orders(Printed(card)) \X SUBSET {"name", "dob", "valid_until"} :
                                           card \in {Student, Driver, Voter} } }

\* Fields are lost whole, or single lines of fields whose values stand below their labels.
Lost ==
    UNION { { Photo(card, Layout(card, SelectSeq(order, LAMBDA f : f \notin lost), {}), <<>>, answers) :
                <<order, lost, answers>> \in Orders(Printed(card)) \X (SUBSET Printed(card)) \X {Right(card), NoAnswers, Wrong} } :
            card \in {Student, Driver} }
ValueLost ==
    UNION { UNION { { Photo(card, RemoveAt(lines, i), <<>>, answers) :
                        i \in { k \in DOMAIN lines : lines[k].label = "none" }, answers \in {Right(card), Wrong} } :
                    lines \in { Layout(card, order, {below}) :
                                   order \in Orders(Printed(card)), below \in {"name", "dob", "valid_until"} } } :
            card \in {Student, Driver} }

\* Aadhaar: the name without a label; the virtual ID, and a number that fails its check digit.
Other(digit, valid, height) == [Blank EXCEPT !.number = [valid |-> valid, digits |-> <<digit>>], !.height = height]
AadhaarLines(card) ==
    <<Line("header"), [Blank EXCEPT !.clean = Name],
      IF card = Resident THEN [Line("dob") EXCEPT !.date = 2004] ELSE [Line("yob") EXCEPT !.year = 2004],
      Line("gender"), Other(52, TRUE, 2)>>
Aadhaars ==
    UNION { { Photo(card, before \o AadhaarLines(card) \o <<[Line("vid") EXCEPT !.number = [valid |-> TRUE, digits |-> <<57>>]]>>,
                    <<>>, Right(card)) :
                before \in {<<>>, <<Other(56, FALSE, 3)>>, <<Other(56, TRUE, 1)>>} } : card \in {Resident, YearOnly} }

\* PAN: the name after the headers, of which OCR glues one together so that it passes for a name, the
\* father's name under it, the only date without a label.
Pans ==
    { Photo(Taxpayer, <<Line("header"), [Line("header") EXCEPT !.clean = header], [Blank EXCEPT !.clean = Name],
                        [Blank EXCEPT !.clean = <<66>>], [Blank EXCEPT !.date = 2004], Other(53, TRUE, 1)>>, <<>>, Right(Taxpayer)) :
        header \in {None, <<73>>} }

\* Passport: the two lines for machines, in any order with the date of expiry; the second holds no
\* date when its digits are read wrong and its check digits happen to fit.
Passports ==
    { Photo(Traveller(year), FlattenSeq([i \in 1 .. 3 |->
            CASE order[i] = 1 -> <<[Line("mrz1") EXCEPT !.name = Name]>>
              [] order[i] = 2 -> <<[Line("mrz2") EXCEPT !.number = Numbered(54),
                                                       !.year = IF year = None THEN None ELSE year % 100]>>
              [] OTHER -> PrintedAs(Traveller(year), "valid_until", TRUE)]), <<>>, answers) :
        <<year, order, answers>> \in {None, 1927, 1999, 2000, 2026} \X Orders({1, 2, 3}) \X {NoAnswers, Wrong} }

\* What is signed: versioned or not, with any status, a photo and hashes that hold any byte.
Bytes == {Qr!Delimiter, 65}
MCFields == <<"email_mobile_status", "reference_id", "name", "dob">>
Documents ==
    { d \in [version : {<<>>, <<Qr!LetterV, Qr!Digit(2)>>}, status : { <<Qr!Digit(n)>> : n \in 0 .. 3 } \cup {<<>>},
             reference : {<<>>, <<52>>}, born : {<<Qr!DateText(2004)>>, <<Qr!YearText(2004)>>, <<Qr!NoSuchDate>>},
             image : {<<>>, <<Qr!Delimiter, 65>>, <<65, Qr!Delimiter>>}, hash : Bytes, signature : Bytes, key : {"old", "new"}] :
        /\ d.version # <<>> => d.status = <<Qr!Digit(0)>>
        /\ d.key = "old" => d.hash = 65
        /\ d.reference = <<>> => d.born = <<Qr!DateText(2004)>> }
Texts(d) == (IF d.version = <<>> THEN <<>> ELSE <<d.version>>) \o <<d.status, d.reference, Name, d.born>>
              \o (IF d.version = <<>> THEN <<>> ELSE <<<<48>>>>)
Signing(d, texts, hashes) ==
    [key |-> d.key, hashes |-> hashes,
     payload |-> FlattenSeq([i \in DOMAIN texts |-> texts[i] \o <<Qr!Delimiter>>]) \o d.image
                   \o [i \in 1 .. hashes |-> d.hash] \o <<d.signature, IF d.key = "old" THEN 1 ELSE 2>>,
     ends |-> Tail(FoldLeft(LAMBDA ends, text : Append(ends, Last(ends) + Len(text) + 1), <<0>>, texts)),
     told |-> [name |-> Name, dob |-> IF d.born = <<Qr!DateText(2004)>> THEN 2004 ELSE None,
               year_of_birth |-> IF d.born = <<Qr!NoSuchDate>> THEN None ELSE 2004,
               last4 |-> Qr!OrNone(d.reference), photo |-> Qr!OrNone(d.image)]]
HashCount(d) == IF d.status = <<Qr!Digit(3)>> THEN 2 ELSE IF d.status \in {<<Qr!Digit(1)>>, <<Qr!Digit(2)>>} THEN 1 ELSE 0
MCIssued == { Signing(s[1], s[2], s[3]) : s \in { <<d, Texts(d), HashCount(d)>> : d \in Documents } }
MCCertificates == <<"new">>

Text(payload) == [xml |-> FALSE, payload |-> payload]
Old(born, yob) == [xml |-> TRUE, payload |-> <<>>,
                   attributes |-> [name |-> Name, dob |-> born, yob |-> yob, uid |-> <<52>>]]
Damaged(payload) == { [payload EXCEPT ![i] = b] : i \in DOMAIN payload, b \in Bytes } \cup {SubSeq(payload, 1, 3)}
Codes == { signed.payload : signed \in MCIssued }
Sample == { p \in Codes : p[1] = Qr!LetterV /\ Len(p) = 17 }

Scanned ==
    { Photo(YearOnly, AadhaarLines(YearOnly), <<Text(p)>>, NoAnswers) : p \in Codes }
        \cup { Photo(YearOnly, <<>>, <<Text(p)>>, NoAnswers) : p \in Codes }
        \cup { Photo(YearOnly, SelectSeq(AadhaarLines(YearOnly), LAMBDA l : l.label # "yob"), texts, answers) :
                 answers \in {NoAnswers, Wrong}, texts \in { <<Text(p)>> : p \in UNION { Damaged(q) : q \in Sample } }
                             \cup { <<Old(born, yob), Text(p)>> : born \in {<<>>, <<Qr!YearText(2004)>>}, yob \in {None, 2004}, p \in Sample }
                             \cup { <<Text(<<1>>), Text(p)>> : p \in Sample } }

MCPhotographs == Laid \cup Lost \cup ValueLost \cup Aadhaars \cup Pans \cup Passports \cup Scanned
==============================================================================
