---------------------------- MODULE CardReading ------------------------------
(***************************************************************************)
(* How the extract check reads a card (ExtractCheck.run): the text and the *)
(* QR codes are read on two threads, Textract is asked for what the text   *)
(* lacks, and a signed QR code fills what is still missing.                *)
(*                                                                         *)
(* The lines that the OCR gives, what the QR detector finds and what       *)
(* Textract answers are inputs, right or wrong.  Left out: the kind of     *)
(* card is taken for recognised, and the gender is not followed.           *)
(***************************************************************************)
EXTENDS CardPrint, FiniteSets

CONSTANTS
    Fields, SignatureBytes, HashBytes, MinBody,      \* of the signed QR code
    Photographs,       \* inputs: [type, lines, texts, answers]
    Certificates,      \* the keys of uidai_certs, in the order of their files
    Issued,            \* external: what owners of keys have signed, [key, payload, told, ends, hashes]
    TextractQueries    \* whether Textract is there and asked

Qr == INSTANCE SecureQr

ASSUME FieldsAssumption ==
    /\ Fields \in Seq(Range(Fields)) /\ \A i, k \in DOMAIN Fields : Fields[i] = Fields[k] => i = k
    /\ {"email_mobile_status", "reference_id", "name", "dob"} \subseteq Range(Fields)
    /\ {"version", "mobile_last4"} \cap Range(Fields) = {}
ASSUME BytesAssumption == SignatureBytes \in Nat \ {0} /\ HashBytes \in Nat \ {0} /\ MinBody \in Nat
ASSUME CertificatesAssumption == Certificates \in Seq(Range(Certificates)) /\ ~Contains(Certificates, None)
ASSUME NoneAssumption == None \notin Nat \cup Seq(Nat) \cup Qr!Decoded
ASSUME IssuedAssumption ==
    \A signed \in Issued :
        /\ Qr!LaidOut(signed)
        /\ \A other \in Issued : other.payload = signed.payload => other.key = signed.key
ASSUME PhotographsAssumption == \A photograph \in Photographs : Photographed(photograph)

VARIABLES
    photo,     \* the photograph that is read
    read,      \* what is read: "text", "qr", and "answers" when Textract was asked
    fields,    \* ctx.fields, None before
    qr,        \* [data, certificate]: ctx.qr and ctx.qr_certificate, None without
    stage      \* "reading", "asking", "merging", "done"

readingVars == <<photo, read, fields, qr, stage>>

NoCode == [data |-> None, certificate |-> None]

ReadingInit ==
    /\ photo \in Photographs
    /\ read = {} /\ fields = None /\ qr = NoCode /\ stage = "reading"

\* _ocr, classify and extract_fields without questions.
ReadText ==
    /\ stage = "reading" /\ "text" \notin read
    /\ fields' = extract_fields(photo.lines, NoAnswers, photo.type)
    /\ read' = read \cup {"text"}
    /\ UNCHANGED <<photo, qr, stage>>

\* _read_qr: the first code that can be decoded.
CodeRead(texts) ==
    LET data == FirstOf([i \in DOMAIN texts |-> Qr!decode(texts[i])])
    IN  IF data = None THEN NoCode ELSE [data |-> data, certificate |-> Qr!verify(data, Certificates, Issued)]

ReadQr ==
    /\ stage = "reading" /\ "qr" \notin read
    /\ qr' = CodeRead(photo.texts)
    /\ read' = read \cup {"qr"}
    /\ UNCHANGED <<photo, fields, stage>>

\* asyncio.gather has both.
BothRead ==
    /\ stage = "reading" /\ read = {"text", "qr"}
    /\ stage' = IF TextractQueries /\ missing_queries(fields, photo.type) # {} THEN "asking" ELSE "merging"
    /\ UNCHANGED <<photo, read, fields, qr>>

\* Textract answers what it is asked.
Answered(wanted, answers) == [alias \in DOMAIN NoAnswers |-> IF alias \in wanted THEN answers[alias] ELSE None]

AskTextract ==
    /\ stage = "asking"
    /\ LET wanted == missing_queries(fields, photo.type)
       IN  fields' = extract_fields(photo.lines, Answered(wanted, photo.answers), photo.type)
    /\ stage' = "merging" /\ read' = read \cup {"answers"}
    /\ UNCHANGED <<photo, qr>>

\* A Textract outage must not block the participant.
TextractFails ==
    /\ stage = "asking" /\ stage' = "merging"
    /\ UNCHANGED <<photo, read, fields, qr>>

\* _merge_signed_qr: gaps are filled when a certificate has verified the code.
Merged(found, code) ==
    LET unborn == found.dob = None /\ found.year_of_birth = None
        data == code.data
    IN  IF data = None \/ code.certificate = None THEN found
        ELSE [found EXCEPT
                !.name = FirstOf(<<@, Qr!OrNone(data.name)>>),
                !.dob = IF unborn THEN data.dob ELSE @,
                !.year_of_birth = IF unborn THEN data.year_of_birth ELSE @,
                !.id_number = FirstOf(<<@, IF data.last4 = None THEN None
                                           ELSE [valid |-> TRUE, digits |-> data.last4]>>)]

MergeSignedQr ==
    /\ stage = "merging" /\ stage' = "done"
    /\ fields' = Merged(fields, qr)
    /\ UNCHANGED <<photo, read, qr>>

ReadingNext == ReadText \/ ReadQr \/ BothRead \/ AskTextract \/ TextractFails \/ MergeSignedQr

ReadingSpec == ReadingInit /\ [][ReadingNext]_readingVars

------------------------------------------------------------------------------
\* What Textract answered to the questions for a field that the lines left open, if it was asked.
Told(f) ==
    LET open == missing_queries(extract_fields(photo.lines, NoAnswers, photo.type), photo.type)
    IN  IF "answers" \in read THEN Valued({ photo.answers[alias] : alias \in { a \in open : FieldOf[a] = f } }) ELSE {}

\* What a verified QR code says of a field.
Signed(f) ==
    IF qr.certificate = None THEN {}
    ELSE CASE f = "name" -> Valued({Qr!OrNone(qr.data.name)})
           [] f \in {"dob", "year_of_birth"} -> Valued({qr.data[f]})
           [] f = "id_number" -> Valued({ [valid |-> TRUE, digits |-> last4] : last4 \in Valued({qr.data.last4}) })
           [] OTHER -> {}

\* The best evidence for a field: the lines before the answers, and a QR code only for what neither
\* gives, where a date or a year of birth is one thing.
Evidence(f) ==
    LET shown == Shown(photo.lines, photo.type)
        births == {"dob", "year_of_birth"}
        born == UNION { shown[g] \cup Told(g) : g \in births }
    IN  IF shown[f] # {} THEN shown[f]
        ELSE IF Told(f) # {} THEN Told(f)
        ELSE IF f \in births /\ born # {} THEN {} ELSE Signed(f)

\* Nothing is made up, nothing is lost and nothing weaker overrides what is better: every field
\* comes from its best evidence, whichever thread is first and whatever is answered, and is empty
\* only when there is none (or it is the year beside a date); one round of questions leaves no
\* gap that an answer could fill.
FieldsHaveEvidence ==
    stage = "done" =>
        /\ \A f \in DOMAIN fields :
               IF fields[f] # None THEN fields[f] \in Evidence(f)
               ELSE Evidence(f) = {} \/ (f = "year_of_birth" /\ fields.dob # None)
        /\ "answers" \in read => \A alias \in missing_queries(fields, photo.type) : photo.answers[alias] = None

\* A QR code that a certificate verifies says what the owner of that key signed, field by
\* field; what the owner of a loaded key signed is verified when it is the first code that
\* can be decoded; a damaged or unsigned code is never verified.
SignedQrIsFaithful ==
    stage = "done" =>
        /\ qr.certificate # None =>
               \E signed \in Issued :
                   /\ signed.key = qr.certificate
                   /\ \A f \in DOMAIN signed.told : qr.data[f] = signed.told[f]
        /\ \A signed \in { x \in Issued : photo.texts # <<>> /\ x.payload = photo.texts[1].payload } :
               Contains(Certificates, signed.key) => qr.certificate = signed.key
==============================================================================
