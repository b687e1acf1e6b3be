----------------------------- MODULE CardPrint -------------------------------
(***************************************************************************)
(* External to the program: where a card of each kind has its values.      *)
(*                                                                         *)
(* Shown says which values stand on the lines that were read, where such a *)
(* card has that field: beside its label or on the line below or, on the   *)
(* kinds of card that print it without one, where it is printed            *)
(* (documents/parse.py:1-60 and the tests give the layouts).  A label      *)
(* whose value was lost has the value of the line that follows it, whoever *)
(* that belongs to: the lines cannot tell.                                 *)
(***************************************************************************)
EXTENDS CardText

FieldNames == {"name", "dob", "year_of_birth", "id_number", "institution", "valid_until"}
FieldOf == [NAME |-> "name", DOB |-> "dob", ID_NUMBER |-> "id_number",
            INSTITUTION |-> "institution", VALID_UNTIL |-> "valid_until"]

Valued(values) == values \ {None}
Uppermost(among) == { i \in among : \A j \in among : i <= j }
Clean(lines, i) == LineAt(lines, i).clean

\* After a label or alone below it; in a passport's line for machines; else, on an Aadhaar card the
\* nearest line above birth or gender, on a PAN card the first under the header, and else the tallest.
NamesShown(lines, type) ==
    LET anchors == UNION { Labels(lines, label) : label \in {"dob", "yob", "gender"} }
        labelled == { IF lines[i].rest THEN lines[i].name ELSE Clean(lines, i + 1) : i \in Labels(lines, "name") }
        machine == { lines[i].name : i \in IF type = "PASSPORT" THEN Uppermost(Labels(lines, "mrz1")) ELSE {} }
        near == { k \in DOMAIN lines : /\ type = "AADHAAR"
                                       /\ \E a \in anchors : /\ k \in a - 3 .. a - 1
                                                              /\ \A j \in k + 1 .. a - 1 : Clean(lines, j) = None }
        headed == { k \in DOMAIN lines : /\ type = "PAN" /\ lines[k].label # "header"
                                         /\ \E h \in Labels(lines, "header") :
                                                /\ h < k
                                                /\ \A j \in h + 1 .. k - 1 :
                                                       lines[j].label = "header" \/ Clean(lines, j) = None }
        tallest == { k \in DOMAIN lines : \A j \in DOMAIN lines :
                                             Clean(lines, j) # None => lines[j].height <= lines[k].height }
        alone(places) == Valued({ Clean(lines, i) : i \in places })
        named == Valued(labelled \cup machine)
    IN  IF named # {} THEN named
        ELSE IF alone(near \cup headed) # {} THEN alone(near \cup headed) ELSE alone(tallest)

\* The line for machines of a passport, when its check digits are right.
MachineLine(lines, type) ==
    IF type = "PASSPORT" THEN { i \in Uppermost(Labels(lines, "mrz2")) : lines[i].number.valid } ELSE {}

\* A date at its label, or in the line for machines as a year of the last hundred; a PAN card has a
\* date without a label.
BirthsShown(lines, type) ==
    LET labelled == { FirstOf(<<lines[i].date, LineAt(lines, i + 1).date>>) : i \in Labels(lines, "dob") }
        machine == { y \in ThisYear - 99 .. ThisYear : \E i \in MachineLine(lines, type) : lines[i].year = y % 100 }
        known == Valued(labelled \cup machine)
    IN  IF known = {} /\ type = "PAN" THEN Valued({ lines[i].date : i \in DOMAIN lines }) ELSE known

\* On an Aadhaar card the tallest of the valid numbers, or of all when none is, but not the virtual ID.
NumbersShown(lines, type) ==
    LET numbers == { i \in DOMAIN lines : lines[i].number # None }
        aadhaar == numbers \ Labels(lines, "vid")
        places == CASE type = "AADHAAR" ->
                         { k \in aadhaar : \A j \in aadhaar :
                               IF lines[j].number.valid = lines[k].number.valid THEN lines[j].height <= lines[k].height
                               ELSE lines[k].number.valid }
                    [] type \in {"PAN", "VOTER_ID"} -> { k \in numbers : lines[k].number.valid }
                    [] type = "DRIVING_LICENCE" -> numbers
                    [] type = "COLLEGE_ID" -> Labels(lines, "roll")
                    [] OTHER -> MachineLine(lines, type)
    IN  Valued({ lines[i].number : i \in places })

Shown(lines, type) ==
    LET valid == IF type \in {"COLLEGE_ID", "DRIVING_LICENCE", "PASSPORT", "UNKNOWN"} THEN Labels(lines, "valid") ELSE {}
        institution == IF type = "COLLEGE_ID" THEN Labels(lines, "institution") ELSE {}
        until(i) == FirstOf(<<lines[i].date, lines[i].month, LineAt(lines, i + 1).date, LineAt(lines, i + 1).month>>)
    IN  [name |-> NamesShown(lines, type),
         dob |-> BirthsShown(lines, type),
         year_of_birth |-> Valued({ lines[i].year : i \in Labels(lines, "yob") }),
         id_number |-> NumbersShown(lines, type),
         institution |-> Valued({ "institution" : i \in institution }),
         valid_until |-> Valued({ until(i) : i \in valid })]

\* What the OCR gives for each line.
Legible(lines) ==
    /\ lines \in Seq(Range(lines))
    /\ \A i \in DOMAIN lines :
           /\ lines[i].height \in Nat
           /\ lines[i].number # None => lines[i].number.valid \in BOOLEAN
           /\ lines[i].label = "mrz2" => lines[i].number # None /\ lines[i].year \in 0 .. 99 \cup {None}

\* A photograph is [type, lines, texts, answers]: the kind of card, what the OCR and the QR detector
\* find in it, and what Textract would answer, each right or wrong.
Photographed(photograph) ==
    LET texts == photograph.texts
    IN  /\ Legible(photograph.lines)
        /\ texts \in Seq(Range(texts))
        /\ \A i \in DOMAIN texts :
               texts[i].xml \in BOOLEAN /\ texts[i].payload \in Seq(Nat) /\ (texts[i].xml => texts[i].payload = <<>>)
==============================================================================
