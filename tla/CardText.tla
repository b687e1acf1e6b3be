------------------------------ MODULE CardText -------------------------------
(***************************************************************************)
(* What is read from the lines of a card (documents/parse.py): the labels, *)
(* the fallbacks of each kind of card, and the questions that are put to   *)
(* Textract for what is missing.                                           *)
(*                                                                         *)
(* A line is told by what the patterns find in it: its label, whether more *)
(* text follows the label, the name, date, month, year or number there or  *)
(* in the whole line, the name that the whole line would pass for (clean), *)
(* and its height.  A line with a label may pass for a name too: the words *)
(* that clean_name refuses lack SCHOOL, ACADEMY, USN and others.  Of a     *)
(* date only the year is kept.  Spelling, the repair of misread digits and *)
(* the confidences are left out, and so is the exception that letters in   *)
(* the birth date of a line for machines would raise.                      *)
(***************************************************************************)
EXTENDS Integers, SequencesExt

CONSTANTS
    ThisYear,        \* date.today().year
    None

ASSUME ThisYearAssumption == ThisYear \in 2000 .. 2099

Blank == [label |-> "none", rest |-> FALSE, name |-> None, date |-> None, month |-> None, year |-> None,
          number |-> None, clean |-> None, height |-> 1]

FirstOf(candidates) ==
    LET i == SelectInSeq(candidates, LAMBDA x : x # None) IN IF i = 0 THEN None ELSE candidates[i]

\* The first value that any line gives, in the order of the lines.
FirstIn(lines, At(_)) == FirstOf([i \in DOMAIN lines |-> At(i)])

Labels(lines, label) == { i \in DOMAIN lines : lines[i].label = label }

LineAt(lines, i) == IF i \in DOMAIN lines THEN lines[i] ELSE Blank

\* Among some lines the one that comes first in an order, the upper one of equals.
Best(lines, among, Above(_, _)) ==
    CHOOSE i \in among : \A j \in among : ~Above(lines[j], lines[i]) /\ (i <= j \/ Above(lines[i], lines[j]))

\* _labelled_name: after the label, or alone on the next line.
LabelledName(lines) ==
    FirstIn(lines, LAMBDA i : IF i \notin Labels(lines, "name") THEN None
                              ELSE IF lines[i].rest THEN lines[i].name ELSE LineAt(lines, i + 1).clean)

\* _name_near: up to three lines above the birth date or the gender, the nearest first.
NameNear(lines) ==
    LET anchors == UNION { Labels(lines, label) : label \in {"dob", "yob", "gender"} }
    IN  FirstIn(lines, LAMBDA i : IF i \notin anchors THEN None
                                  ELSE FirstOf([k \in 1 .. 3 |-> LineAt(lines, i - k).clean]))

\* _name_after_header
NameAfterHeader(lines) ==
    FirstIn(lines, LAMBDA i : IF lines[i].label # "header" /\ \E h \in Labels(lines, "header") : h < i
                              THEN lines[i].clean ELSE None)

\* _tallest_name
TallestName(lines) ==
    LET names == { i \in DOMAIN lines : lines[i].clean # None }
    IN  IF names = {} THEN None
        ELSE lines[Best(lines, names, LAMBDA a, b : a.height > b.height)].clean

\* Mutant: a label is read with its own line only.
DateAfter_SameLine(lines, label, month_year_ok) ==
    FirstIn(lines, LAMBDA i : IF i \notin Labels(lines, label) THEN None ELSE lines[i].date)

\* parse_date of the rest of a label's line, or of the next line.
DateAfter(lines, label, month_year_ok) ==
    LET parse_date(line) == FirstOf(<<line.date, IF month_year_ok THEN line.month ELSE None>>)
    IN  FirstIn(lines, LAMBDA i : IF i \notin Labels(lines, label) THEN None
                                  ELSE FirstOf(<<parse_date(lines[i]), parse_date(LineAt(lines, i + 1))>>))

\* _mrz: the first two lines of a passport for machines, the second with its check digits; its year
\* is None when the digits are no date.
MrzName(lines) ==
    LET i == SelectInSeq(lines, LAMBDA line : line.label = "mrz1") IN IF i = 0 THEN None ELSE lines[i].name
Mrz(lines) ==
    LET i == SelectInSeq(lines, LAMBDA line : line.label = "mrz2")
    IN  IF i # 0 /\ lines[i].number.valid THEN {i} ELSE {}

\* The century of a year of two digits: nobody is born in the future.
MrzYear(yy) == (IF yy > ThisYear % 100 THEN 1900 ELSE 2000) + yy

\* _dob
BirthDate(lines, type) ==
    FirstOf(<<IF type = "PASSPORT"
              THEN FirstIn(lines, LAMBDA i : IF i \in Mrz(lines) /\ lines[i].year # None THEN MrzYear(lines[i].year) ELSE None)
              ELSE None,
              DateAfter(lines, "dob", FALSE),
              IF type = "PAN" THEN FirstIn(lines, LAMBDA i : lines[i].date) ELSE None>>)

\* _aadhaar_number: valid before invalid, tall before small, never the virtual ID.
AadhaarNumber(lines) ==
    LET numbers == { i \in DOMAIN lines : lines[i].number # None /\ lines[i].label # "vid" }
    IN  IF numbers = {} THEN None
        ELSE lines[Best(lines, numbers,
                        LAMBDA a, b : IF a.number.valid # b.number.valid THEN a.number.valid ELSE a.height > b.height)].number

\* _aadhaar_number, _pattern_number, the licence's pattern, _college, _mrz
Number(lines, type) ==
    LET first(among) == FirstIn(lines, LAMBDA i : IF i \in among THEN lines[i].number ELSE None)
        numbered == { i \in DOMAIN lines : lines[i].number # None }
    IN  CASE type = "AADHAAR" -> AadhaarNumber(lines)
          [] type \in {"PAN", "VOTER_ID"} -> first({ i \in numbered : lines[i].number.valid })
          [] type = "DRIVING_LICENCE" -> first(numbered)
          [] type = "COLLEGE_ID" -> first(Labels(lines, "roll"))
          [] type = "PASSPORT" -> first(Mrz(lines))
          [] OTHER -> None

\* _validity, on the kinds of card that show one.
ValidUntil(lines, type) ==
    IF type \in {"COLLEGE_ID", "DRIVING_LICENCE", "PASSPORT", "UNKNOWN"} THEN DateAfter(lines, "valid", TRUE) ELSE None

\* The questions, none of them answered.
NoAnswers == [alias \in {"NAME", "DOB", "ID_NUMBER", "INSTITUTION", "VALID_UNTIL"} |-> None]

\* extract_fields: the first source that has a value keeps it; the queries come last.
extract_fields(lines, queries, type) ==
    LET dob == FirstOf(<<BirthDate(lines, type), queries.DOB>>)
        year == FirstIn(lines, LAMBDA i : IF lines[i].label = "yob" THEN lines[i].year ELSE None)
    IN  [name |-> FirstOf(<<IF type = "PASSPORT" THEN MrzName(lines) ELSE None, LabelledName(lines),
                            IF type = "AADHAAR" THEN NameNear(lines) ELSE None,
                            IF type = "PAN" THEN NameAfterHeader(lines) ELSE None,
                            TallestName(lines), queries.NAME>>),
         dob |-> dob,
         year_of_birth |-> IF dob = None THEN year ELSE None,
         id_number |-> FirstOf(<<Number(lines, type), queries.ID_NUMBER>>),
         institution |->
             FirstOf(<<IF type = "COLLEGE_ID" /\ Labels(lines, "institution") # {} THEN "institution" ELSE None,
                       queries.INSTITUTION>>),
         valid_until |-> FirstOf(<<ValidUntil(lines, type), queries.VALID_UNTIL>>)]

\* missing_queries
missing_queries(fields, type) ==
    { alias \in {"NAME", "ID_NUMBER"} \cup (IF type = "COLLEGE_ID" THEN {"INSTITUTION", "VALID_UNTIL"} ELSE {"DOB"}) :
        CASE alias = "NAME" -> fields.name = None
          [] alias = "DOB" -> fields.dob = None /\ fields.year_of_birth = None
          [] alias = "ID_NUMBER" -> fields.id_number = None
          [] alias = "INSTITUTION" -> fields.institution = None
          [] alias = "VALID_UNTIL" -> fields.valid_until = None }
==============================================================================
