------------------------------ MODULE SecureQr -------------------------------
(***************************************************************************)
(* The QR codes of Aadhaar (aadhaar/secure_qr.py): the layout of the signed *)
(* payload, the choice of the certificate, and the unsigned XML of old     *)
(* cards.                                                                  *)
(*                                                                         *)
(* A payload is a sequence of symbols.  A date or a year in a field is one *)
(* symbol, a hash and the signature are HashBytes and SignatureBytes long, *)
(* and Fields lists the fields that matter, in order.  Compression and     *)
(* character sets are left out.                                            *)
(***************************************************************************)
EXTENDS Integers, FiniteSets, SequencesExt

CONSTANTS
    Fields,            \* FIELDS, the names of the fields in order
    SignatureBytes,
    HashBytes,
    MinBody,           \* the shortest body
    None

Delimiter == 255
LetterV == 86
Digit(n) == 48 + n
Digits == { Digit(n) : n \in 0 .. 9 }

\* Symbols that stand for a text in a field: a full date, a date that no calendar has, a year.
DateText(year) == 10000 + year
NoSuchDate == 9999
YearText(year) == 20000 + year

\* _parse_dob: the date, of which only the year is told apart here, and the year.
ParseDob(text) ==
    IF Len(text) = 1 /\ text[1] > 20000 THEN [dob |-> None, year |-> text[1] - 20000]
    ELSE IF Len(text) = 1 /\ text[1] > 10000 THEN [dob |-> text[1] - 10000, year |-> text[1] - 10000]
    ELSE [dob |-> None, year |-> None]

OrNone(text) == IF text = <<>> THEN None ELSE text

\* Mutant: one hash, whoever gave a mobile number and an email address.
Hashes_One(status) == IF status \in {<<Digit(1)>>, <<Digit(2)>>, <<Digit(3)>>} THEN 1 ELSE 0

\* The hashes of mobile number and email address between photo and signature.
Hashes(status) ==
    IF status = <<Digit(3)>> THEN 2 ELSE IF status \in {<<Digit(1)>>, <<Digit(2)>>} THEN 1 ELSE 0

\* A marker in front tells the versions that have no hashes at the end.
Marked(data) == Len(data) >= 2 /\ data[1] = LetterV /\ data[2] \in Digits
Names(versioned) == IF versioned THEN <<"version">> \o Fields \o <<"mobile_last4">> ELSE Fields

\* The i-th delimiter, which ends the i-th field.
Delimiters(data) == { p \in DOMAIN data : data[p] = Delimiter }
End(data, i) == CHOOSE p \in Delimiters(data) : Cardinality({ q \in 1 .. p : data[q] = Delimiter }) = i
Start(data, i) == IF i = 1 THEN 1 ELSE End(data, i - 1) + 1

\* decode of a payload after decompression; None stands for SecureQrError.
DecodeSigned(data) ==
    LET names == Names(Marked(data))
        value(name) == LET i == CHOOSE k \in DOMAIN names : names[k] = name
                       IN  SubSeq(data, Start(data, i), End(data, i) - 1)
        body == Len(data) - SignatureBytes
        hashes == IF Marked(data) THEN 0 ELSE Hashes(value("email_mobile_status"))
        born == ParseDob(value("dob"))
    IN  IF body < MinBody \/ Cardinality(Delimiters(data)) < Len(names) THEN None
        ELSE [name |-> value("name"), dob |-> born.dob, year_of_birth |-> born.year,
              last4 |-> OrNone(value("reference_id")),
              photo |-> OrNone(SubSeq(data, Start(data, Len(names) + 1), body - HashBytes * hashes)),
              signed_data |-> SubSeq(data, 1, body), signature |-> SubSeq(data, body + 1, Len(data)),
              legacy_unsigned |-> FALSE]

\* _decode_legacy_xml: the attributes of the XML.
DecodeLegacy(xml) ==
    LET born == ParseDob(xml.dob)
    IN  [name |-> xml.name, dob |-> born.dob,
         year_of_birth |-> IF born.year = None THEN xml.yob ELSE born.year,
         last4 |-> OrNone(xml.uid), photo |-> None, signed_data |-> <<>>, signature |-> <<>>,
         legacy_unsigned |-> TRUE]

\* SecureQrData
Decoded ==
    [name : Seq(Nat), dob : Nat \cup {None}, year_of_birth : Nat \cup {None}, last4 : Seq(Nat) \cup {None},
     photo : Seq(Nat) \cup {None}, signed_data : Seq(Nat), signature : Seq(Nat), legacy_unsigned : BOOLEAN]

decode(text) == IF text.xml THEN DecodeLegacy(text.attributes) ELSE DecodeSigned(text.payload)

\* External: the text of a date of birth, and what it says.
SaysBorn(text, dob, year) ==
    \/ dob \in 1 .. 9999 /\ year = dob /\ text = <<DateText(dob)>>
    \/ dob = None /\ year \in 1 .. 9999 /\ text = <<YearText(year)>>
    \/ dob = None /\ year = None /\ (Len(text) = 1 => text[1] < DateText(0))

\* External: the owners of keys sign what the format says (secure_qr.py:3): the fields, each up
\* to its delimiter, the photo, a hash for each bit of the status, and the signature.
LaidOut(signed) ==
    LET data == signed.payload
        names == Names(Marked(data))
        body == Len(data) - SignatureBytes
        text == [i \in DOMAIN names |->
                    SubSeq(data, IF i = 1 THEN 1 ELSE signed.ends[i - 1] + 1, signed.ends[i] - 1)]
    IN  /\ data \in Seq(Nat) /\ body >= MinBody
        /\ DOMAIN signed.told = {"name", "dob", "year_of_birth", "last4", "photo"}
        /\ signed.ends \in [DOMAIN names -> 1 .. body]
        /\ \A i, k \in DOMAIN names : i < k => signed.ends[i] < signed.ends[k]
        /\ \A p \in 1 .. signed.ends[Len(names)] :
               data[p] = Delimiter <=> \E i \in DOMAIN names : signed.ends[i] = p
        /\ \A i \in DOMAIN names :
               /\ names[i] = "name" => signed.told.name = text[i]
               /\ names[i] = "reference_id" => signed.told.last4 = OrNone(text[i])
               /\ names[i] = "dob" => SaysBorn(text[i], signed.told.dob, signed.told.year_of_birth)
               /\ names[i] = "email_mobile_status" =>
                      LET status == IF \E n \in 1 .. 3 : ~Marked(data) /\ text[i] = <<Digit(n)>>
                                    THEN text[i][1] - Digit(0) ELSE 0
                      IN  signed.hashes = (status % 2) + (status \div 2)
        /\ signed.told.photo =
               OrNone(SubSeq(data, signed.ends[Len(names)] + 1, body - HashBytes * signed.hashes))

\* External: what a key's owner has signed.
Validates(key, signed_data, signature, issued) ==
    \E signed \in issued : signed.key = key /\ signed.payload = signed_data \o signature

\* verify: the first certificate of the directory that validates the signature, or None.
verify(qr, keys, issued) ==
    LET i == SelectInSeq(keys, LAMBDA key : Validates(key, qr.signed_data, qr.signature, issued))
    IN  IF i = 0 \/ qr.legacy_unsigned THEN None ELSE keys[i]
==============================================================================
