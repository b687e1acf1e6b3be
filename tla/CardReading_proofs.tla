------------------------- MODULE CardReading_proofs --------------------------
(***************************************************************************)
(* What the extract check gives for any photographs, answers and keys:    *)
(* every field its best evidence, whichever of the two threads is first    *)
(* (FieldsHaveEvidence), and of a signed QR code what the owner of the key *)
(* signed (SignedQrIsFaithful).                                            *)
(***************************************************************************)
EXTENDS CardReading, FiniteSetTheorems, SequenceTheorems, WellFoundedInduction, TLAPS

------------------------------------------------------------------------------
(* The first value of a list: FirstOf, FirstIn, SelectInSeq.               *)

\* A nonempty set of naturals has a least element, which is the one that Min chooses.
LEMMA LeastNatural ==
    ASSUME NEW T, T \subseteq Nat, T # {}
    PROVE  Min(T) \in T /\ \A y \in T : Min(T) <= y
<1>1. \E x \in T : \A y \in T : <<y, x>> \notin OpToRel(<, Nat)
  BY WFMin, NatLessThanWellFounded
<1>2. \E x \in T : \A y \in T : x <= y
  <2>1. PICK x \in T : \A y \in T : <<y, x>> \notin OpToRel(<, Nat)
    BY <1>1
  <2>2. ASSUME NEW y \in T, y < x PROVE FALSE
    <3>1. <<y, x>> \in Nat \X Nat /\ <<y, x>>[1] < <<y, x>>[2]
      BY <2>2
    <3>2. <<y, x>> \in OpToRel(<, Nat)
      BY <3>1 DEF OpToRel
    <3> QED
      BY <2>1, <3>2
  <2>3. \A y \in T : x <= y
    BY <2>2
  <2> QED
    BY <2>3
<1> QED
  BY <1>2 DEF Min

\* FirstOf gives the first value of a list, and None when the list has none.
LEMMA FirstOfFacts ==
    ASSUME NEW s, Len(s) \in Nat
    PROVE  \/ FirstOf(s) = None /\ \A i \in 1 .. Len(s) : s[i] = None
           \/ \E i \in 1 .. Len(s) :
                  FirstOf(s) = s[i] /\ s[i] # None /\ \A j \in 1 .. i - 1 : s[j] = None
<1> DEFINE I == { i \in 1 .. Len(s) : s[i] # None }
<1>1. FirstOf(s) = LET i == IF I # {} THEN Min(I) ELSE 0 IN IF i = 0 THEN None ELSE s[i]
  BY DEF FirstOf, SelectInSeq
<1>2. CASE I = {}
  BY <1>1, <1>2
<1>3. CASE I # {}
  <2>1. Min(I) \in I /\ \A y \in I : Min(I) <= y
    BY <1>3, LeastNatural
  <2>2. FirstOf(s) = s[Min(I)]
    BY <1>1, <1>3, <2>1
  <2>3. \A j \in 1 .. Min(I) - 1 : s[j] = None
    BY <2>1
  <2> QED
    BY <2>1, <2>2, <2>3
<1> QED
  BY <1>2, <1>3

\* The same for a list that is written as a function of the lines.
LEMMA FirstAmong ==
    ASSUME NEW n \in Nat, NEW s, s \in [1 .. n -> Range(s)]
    PROVE  \/ FirstOf(s) = None /\ \A i \in 1 .. n : s[i] = None
           \/ \E i \in 1 .. n : FirstOf(s) = s[i] /\ s[i] # None /\ \A j \in 1 .. i - 1 : s[j] = None
<1>1. s \in Seq(Range(s)) /\ Len(s) = n
  OBVIOUS
<1> QED
  BY <1>1, FirstOfFacts

\* Of two, the second is taken when the first is missing.
LEMMA FirstOfTwo ==
    ASSUME NEW a, NEW b
    PROVE  FirstOf(<<a, b>>) = IF a # None THEN a ELSE b
<1>1. Len(<<a, b>>) = 2 /\ <<a, b>>[1] = a /\ <<a, b>>[2] = b
  OBVIOUS
<1> QED
  BY <1>1, FirstOfFacts

------------------------------------------------------------------------------
(* The layout of a signed payload (secure_qr.py:62-99).                     *)

\* The fields of a payload, whichever its version: none twice, and the four that are followed.
LEMMA NamesFacts ==
    ASSUME NEW versioned \in BOOLEAN
    PROVE  LET names == Qr!Names(versioned)
           IN  /\ Len(names) \in Nat \ {0} /\ DOMAIN names = 1 .. Len(names)
               /\ \A i, k \in DOMAIN names : names[i] = names[k] => i = k
               /\ \A name \in {"email_mobile_status", "reference_id", "name", "dob"} :
                      \E i \in DOMAIN names : names[i] = name
<1> DEFINE S == Range(Fields) \cup {"version", "mobile_last4"}
<1> DEFINE names == Qr!Names(versioned)
<1>1. Fields \in Seq(S) /\ Len(Fields) \in Nat /\ DOMAIN Fields = 1 .. Len(Fields)
  BY FieldsAssumption, SeqMonotonic, LenProperties
<1>2. \A name \in {"email_mobile_status", "reference_id", "name", "dob"} :
          \E i \in 1 .. Len(Fields) : Fields[i] = name
  BY <1>1, FieldsAssumption DEF Range
<1>3. CASE ~versioned
  <2>1. names = Fields
    BY <1>3 DEF Qr!Names
  <2>2. \A i, k \in DOMAIN Fields : Fields[i] = Fields[k] => i = k
    BY FieldsAssumption
  <2> QED
    BY <1>1, <1>2, <2>1, <2>2
<1>4. CASE versioned
  <2> DEFINE n == Len(Fields)
  <2> DEFINE front == <<"version">> \o Fields
  <2>1. <<"version">> \in Seq(S) /\ Len(<<"version">>) = 1 /\ <<"mobile_last4">> \in Seq(S)
        /\ Len(<<"mobile_last4">>) = 1
    OBVIOUS
  <2>2. front \in Seq(S) /\ Len(front) = n + 1
        /\ \A i \in 1 .. n + 1 : front[i] = IF i = 1 THEN "version" ELSE Fields[i - 1]
    <3>1. front \in Seq(S) /\ Len(front) = 1 + n
          /\ \A i \in 1 .. 1 + n : front[i] = IF i <= 1 THEN <<"version">>[i] ELSE Fields[i - 1]
      BY <1>1, <2>1, ConcatProperties
    <3> QED
      BY <1>1, <3>1
  <2>3. names = front \o <<"mobile_last4">>
    BY <1>4 DEF Qr!Names
  <2>4. names \in Seq(S) /\ Len(names) = n + 2
        /\ \A i \in 1 .. n + 2 : names[i] = IF i <= n + 1 THEN front[i] ELSE <<"mobile_last4">>[i - (n + 1)]
    <3> HIDE DEF front, n
    <3>1. n \in Nat
      BY <1>1 DEF n
    <3>2. names \in Seq(S) /\ Len(names) = (n + 1) + 1
          /\ \A i \in 1 .. (n + 1) + 1 : names[i] = IF i <= n + 1 THEN front[i] ELSE <<"mobile_last4">>[i - (n + 1)]
      BY <2>1, <2>2, <2>3, ConcatProperties
    <3> QED
      BY <3>1, <3>2
  <2>5. \A i \in 1 .. n + 2 :
            names[i] = IF i = 1 THEN "version" ELSE IF i <= n + 1 THEN Fields[i - 1] ELSE "mobile_last4"
    BY <1>1, <2>2, <2>4
  <2>6. DOMAIN names = 1 .. n + 2
    BY <2>4, LenProperties
  <2>7. \A i \in 1 .. n : Fields[i] \notin {"version", "mobile_last4"}
    <3>1. \A i \in DOMAIN Fields : Fields[i] \in Range(Fields)
      BY DEF Range
    <3>2. \A x \in Range(Fields) : x \notin {"version", "mobile_last4"}
      BY FieldsAssumption
    <3> QED
      BY <1>1, <3>1, <3>2
  <2>8. \A i, k \in DOMAIN names : names[i] = names[k] => i = k
    <3> HIDE DEF names
    <3>1. \A i, k \in 1 .. n : Fields[i] = Fields[k] => i = k
      <4>1. \A i, k \in DOMAIN Fields : Fields[i] = Fields[k] => i = k
        BY FieldsAssumption
      <4> QED
        BY <1>1, <4>1
    <3> QED
      BY <1>1, <2>5, <2>6, <2>7, <3>1
  <2>9. \A name \in {"email_mobile_status", "reference_id", "name", "dob"} : \E i \in DOMAIN names : names[i] = name
    <3> HIDE DEF names
    <3> TAKE name \in {"email_mobile_status", "reference_id", "name", "dob"}
    <3>1. PICK i \in 1 .. n : Fields[i] = name
      BY <1>2
    <3>2. i + 1 \in 1 .. n + 2 /\ names[i + 1] = Fields[i]
      BY <1>1, <2>5
    <3> QED
      BY <2>6, <3>1, <3>2
  <2>10. Len(names) \in Nat \ {0} /\ DOMAIN names = 1 .. Len(names)
    BY <1>1, <2>4, <2>6
  <2> QED
    BY <2>8, <2>9, <2>10
<1> QED
  BY <1>3, <1>4

\* In a payload that is laid out as the format says, the i-th delimiter ends the i-th field.
LEMMA EndOfField ==
    ASSUME NEW signed, Qr!LaidOut(signed), NEW i \in DOMAIN Qr!Names(Qr!Marked(signed.payload))
    PROVE  LET data == signed.payload
               names == Qr!Names(Qr!Marked(data))
           IN  /\ Qr!End(data, i) = signed.ends[i]
               /\ Cardinality(Qr!Delimiters(data)) >= Len(names)
<1> DEFINE data == signed.payload
<1> DEFINE names == Qr!Names(Qr!Marked(data))
<1> DEFINE n == Len(names)
<1> DEFINE e == signed.ends
<1> DEFINE upTo(p) == { q \in 1 .. p : data[q] = Qr!Delimiter }
<1> DEFINE D == Qr!Delimiters(data)
<1>1. n \in Nat \ {0} /\ DOMAIN names = 1 .. n /\ i \in 1 .. n
  BY NamesFacts DEF Qr!Marked
<1>2. data \in Seq(Nat) /\ Len(data) \in Nat /\ DOMAIN data = 1 .. Len(data)
  BY LenProperties DEF Qr!LaidOut
<1>3. e \in [1 .. n -> 1 .. Len(data)]
  <2>1. Len(data) - SignatureBytes <= Len(data) /\ Len(data) - SignatureBytes \in Int
    BY <1>2, BytesAssumption
  <2>2. e \in [DOMAIN names -> 1 .. Len(data) - SignatureBytes]
    BY DEF Qr!LaidOut
  <2> HIDE DEF data, names, e
  <2> QED
    BY <1>1, <1>2, <2>1, <2>2
<1>4. \A j, k \in 1 .. n : j < k => e[j] < e[k]
  BY <1>1 DEF Qr!LaidOut
<1>5. \A p \in 1 .. e[n] : data[p] = Qr!Delimiter <=> \E k \in 1 .. n : e[k] = p
  BY <1>1 DEF Qr!LaidOut
<1>6. D = { p \in 1 .. Len(data) : data[p] = Qr!Delimiter }
  BY <1>2 DEF Qr!Delimiters
<1> HIDE DEF data, names, n, e, D
<1>7. ASSUME NEW k \in 1 .. n
      PROVE  e[k] \in D /\ IsFiniteSet(upTo(e[k])) /\ Cardinality(upTo(e[k])) = k
  <2>1. \A j \in 1 .. n : e[j] \in 1 .. e[n] /\ data[e[j]] = Qr!Delimiter
    <3> TAKE j \in 1 .. n
    <3>1. n \in 1 .. n /\ e[j] \in Nat \ {0} /\ e[n] \in Nat
      BY <1>1, <1>3
    <3>2. j = n \/ j < n
      BY <1>1
    <3>3. e[j] \in 1 .. e[n]
      BY <3>1, <3>2, <1>4
    <3> QED
      BY <3>3, <1>5
  <2> DEFINE f == [j \in 1 .. k |-> e[j]]
  <2>2. upTo(e[k]) = { e[j] : j \in 1 .. k }
    <3>1. ASSUME NEW q \in upTo(e[k]) PROVE q \in { e[j] : j \in 1 .. k }
      <4>1. q \in 1 .. e[n] /\ q <= e[k]
        BY <1>1, <1>3, <2>1, <3>1
      <4>2. PICK j \in 1 .. n : e[j] = q
        BY <1>5, <3>1, <4>1
      <4>3. ~(k < j)
        BY <1>1, <1>3, <1>4, <4>1, <4>2
      <4>4. j \in 1 .. k
        BY <1>1, <4>3
      <4> QED
        BY <4>2, <4>4
    <3>2. ASSUME NEW j \in 1 .. k PROVE e[j] \in upTo(e[k])
      <4>1. j \in 1 .. n /\ (j = k \/ j < k)
        BY <1>1
      <4>2. e[j] \in Nat \ {0} /\ e[k] \in Nat /\ e[j] <= e[k]
        BY <1>3, <1>4, <4>1
      <4> QED
        BY <2>1, <4>1, <4>2
    <3> QED
      BY <3>1, <3>2
  <2>3. f \in Bijection(1 .. k, upTo(e[k]))
    <3>1. \A a, b \in 1 .. k : f[a] = f[b] => a = b
      <4> TAKE a, b \in 1 .. k
      <4>1. a \in 1 .. n /\ b \in 1 .. n
        BY <1>1
      <4>2. e[a] \in Nat /\ e[b] \in Nat
        BY <1>3, <4>1
      <4>3. a = b \/ a < b \/ b < a
        BY <1>1
      <4> QED
        BY <1>4, <4>1, <4>2, <4>3
    <3>2. f \in [1 .. k -> upTo(e[k])]
      BY <2>2
    <3>3. \A q \in upTo(e[k]) : \E a \in 1 .. k : f[a] = q
      BY <2>2
    <3> HIDE DEF f, upTo
    <3> QED
      BY <3>1, <3>2, <3>3 DEF Bijection, Injection, Surjection, IsInjective
  <2>4. IsFiniteSet(1 .. k) /\ Cardinality(1 .. k) = k
    BY <1>1, FS_Interval
  <2>5. IsFiniteSet(upTo(e[k])) /\ Cardinality(upTo(e[k])) = Cardinality(1 .. k)
    BY <2>3, <2>4, FS_Bijection DEF ExistsBijection
  <2>6. e[k] \in D
    BY <1>3, <1>6, <2>1
  <2> QED
    BY <2>4, <2>5, <2>6
<1>8. ASSUME NEW p \in D, NEW q \in D, Cardinality(upTo(p)) = Cardinality(upTo(q))
      PROVE  ~(p < q)
  <2>1. SUFFICES ASSUME p < q PROVE FALSE
    OBVIOUS
  <2>2. p \in Nat /\ q \in Nat \ {0} /\ data[q] = Qr!Delimiter
    BY <1>6
  <2>3. upTo(p) \in SUBSET upTo(q) /\ q \in upTo(q) /\ q \notin upTo(p)
    BY <2>1, <2>2
  <2>4. IsFiniteSet(1 .. q) /\ upTo(q) \in SUBSET (1 .. q)
    BY <2>2, FS_Interval
  <2>5. IsFiniteSet(upTo(q))
    BY <2>4, FS_Subset
  <2>6. upTo(q) = upTo(p)
    BY <1>8, <2>3, <2>5, FS_Subset
  <2> QED
    BY <2>3, <2>6
<1>9. \A p \in D : Cardinality(upTo(p)) = i => p = e[i]
  <2> TAKE p \in D
  <2> HAVE Cardinality(upTo(p)) = i
  <2>1. e[i] \in D /\ Cardinality(upTo(e[i])) = i
    BY <1>1, <1>7
  <2>2. p \in Nat /\ e[i] \in Nat
    BY <1>6, <2>1
  <2>3. ~(p < e[i]) /\ ~(e[i] < p)
    BY <1>8, <2>1
  <2> QED
    BY <2>2, <2>3
<1>10. Qr!End(data, i) = e[i]
  <2>1. Qr!End(data, i) = CHOOSE p \in D : Cardinality(upTo(p)) = i
    BY DEF Qr!End, D, Qr!Cardinality, Cardinality
  <2>2. e[i] \in D /\ Cardinality(upTo(e[i])) = i
    BY <1>1, <1>7
  <2> HIDE DEF upTo
  <2> QED
    BY <1>9, <2>1, <2>2
<1>11. Cardinality(D) >= n
  <2>1. IsFiniteSet(D)
    <3>1. IsFiniteSet(1 .. Len(data)) /\ D \in SUBSET (1 .. Len(data))
      BY <1>2, <1>6, FS_Interval
    <3> QED
      BY <3>1, FS_Subset
  <2>2. n \in 1 .. n
    BY <1>1
  <2>3. Cardinality(upTo(e[n])) = n /\ e[n] \in 1 .. Len(data)
    BY <1>3, <1>7, <2>2
  <2>4. upTo(e[n]) \in SUBSET D
    BY <1>2, <1>6, <2>3
  <2> QED
    BY <2>1, <2>3, <2>4, FS_Subset
<1> QED
  BY <1>10, <1>11 DEF data, names, n, e, D

\* The text of a date of birth is read as it was meant: _parse_dob (secure_qr.py:102-112).
LEMMA BornAsTold ==
    ASSUME NEW text \in Seq(Nat), NEW dob, NEW year, Qr!SaysBorn(text, dob, year)
    PROVE  /\ Qr!ParseDob(text).dob = dob /\ Qr!ParseDob(text).year = year
           /\ dob \in Nat \cup {None} /\ year \in Nat \cup {None}
<1>1. CASE dob \in 1 .. 9999 /\ year = dob /\ text = <<Qr!DateText(dob)>>
  <2>1. Len(text) = 1 /\ text[1] = 10000 + dob
    BY <1>1 DEF Qr!DateText
  <2>2. ~(text[1] > 20000) /\ text[1] > 10000 /\ text[1] - 10000 = dob
    BY <1>1, <2>1
  <2>3. Qr!ParseDob(text) = [dob |-> dob, year |-> dob]
    BY <2>1, <2>2 DEF Qr!ParseDob
  <2> QED
    BY <1>1, <2>3
<1>2. CASE dob = None /\ year \in 1 .. 9999 /\ text = <<Qr!YearText(year)>>
  <2>1. Len(text) = 1 /\ text[1] = 20000 + year
    BY <1>2 DEF Qr!YearText
  <2>2. text[1] > 20000 /\ text[1] - 20000 = year
    BY <1>2, <2>1
  <2>3. Qr!ParseDob(text) = [dob |-> None, year |-> year]
    BY <2>1, <2>2 DEF Qr!ParseDob
  <2> QED
    BY <1>2, <2>3
<1>3. CASE dob = None /\ year = None /\ (Len(text) = 1 => text[1] < Qr!DateText(0))
  <2>1. Len(text) = 1 => text[1] \in Nat /\ text[1] < 10000
    <3>1. Qr!DateText(0) = 10000
      BY DEF Qr!DateText
    <3>2. Len(text) = 1 => 1 \in 1 .. Len(text)
      OBVIOUS
    <3>3. Len(text) = 1 => text[1] \in Nat
      BY <3>2, ElementOfSeq
    <3> QED
      BY <1>3, <3>1, <3>3
  <2>2. Len(text) = 1 => ~(text[1] > 20000) /\ ~(text[1] > 10000)
    BY <2>1
  <2>3. Qr!ParseDob(text) = [dob |-> None, year |-> None]
    BY <2>2 DEF Qr!ParseDob
  <2> QED
    BY <1>3, <2>3
<1> QED
  BY <1>1, <1>2, <1>3 DEF Qr!SaysBorn

\* What the owner of a key has signed is decoded as it was told, and its two parts are the payload.
LEMMA DecodedAsTold ==
    ASSUME NEW signed, Qr!LaidOut(signed)
    PROVE  LET data == Qr!DecodeSigned(signed.payload)
           IN  /\ data \in Qr!Decoded /\ data.legacy_unsigned = FALSE
               /\ \A f \in DOMAIN signed.told : data[f] = signed.told[f]
<1> DEFINE data == signed.payload
<1> DEFINE names == Qr!Names(Qr!Marked(data))
<1> DEFINE n == Len(names)
<1> DEFINE e == signed.ends
<1> DEFINE body == Len(data) - SignatureBytes
<1> DEFINE start(i) == IF i = 1 THEN 1 ELSE e[i - 1] + 1
<1> DEFINE text(i) == SubSeq(data, start(i), e[i] - 1)
<1> DEFINE at(name) == CHOOSE k \in DOMAIN names : names[k] = name
<1> DEFINE value(name) == SubSeq(data, Qr!Start(data, at(name)), Qr!End(data, at(name)) - 1)
<1> DEFINE told == signed.told
<1>1. n \in Nat \ {0} /\ DOMAIN names = 1 .. n
  BY NamesFacts DEF Qr!Marked
<1>2. data \in Seq(Nat) /\ Len(data) \in Nat /\ DOMAIN data = 1 .. Len(data) /\ body \in Int /\ body >= MinBody
      /\ body \in 0 .. Len(data)
  <2>1. data \in Seq(Nat) /\ body >= MinBody
    BY DEF Qr!LaidOut
  <2>2. Len(data) \in Nat /\ DOMAIN data = 1 .. Len(data)
    BY <2>1, LenProperties
  <2> QED
    BY <2>1, <2>2, BytesAssumption
<1>3. e \in [1 .. n -> 1 .. body]
  BY <1>1 DEF Qr!LaidOut
<1>4. \A i \in 1 .. n : /\ Qr!End(data, i) = e[i] /\ Cardinality(Qr!Delimiters(data)) >= n
                        /\ Qr!Start(data, i) = start(i)
  <2> TAKE i \in 1 .. n
  <2>1. Qr!End(data, i) = e[i] /\ Cardinality(Qr!Delimiters(data)) >= n
    BY <1>1, EndOfField
  <2>2. i # 1 => Qr!End(data, i - 1) = e[i - 1]
    <3>1. i # 1 => i - 1 \in 1 .. n
      BY <1>1
    <3> QED
      BY <1>1, <3>1, EndOfField
  <2> QED
    BY <2>1, <2>2 DEF Qr!Start
<1>5. \A name \in {"email_mobile_status", "reference_id", "name", "dob"} :
          at(name) \in 1 .. n /\ names[at(name)] = name /\ value(name) = text(at(name))
  <2> TAKE name \in {"email_mobile_status", "reference_id", "name", "dob"}
  <2>1. \E k \in DOMAIN names : names[k] = name
    BY NamesFacts DEF Qr!Marked
  <2>2. at(name) \in 1 .. n /\ names[at(name)] = name
    BY <1>1, <2>1
  <2> QED
    BY <1>4, <2>2
<1>6. \A i \in 1 .. n :
          /\ names[i] = "name" => told.name = text(i)
          /\ names[i] = "reference_id" => told.last4 = Qr!OrNone(text(i))
          /\ names[i] = "dob" => Qr!SaysBorn(text(i), told.dob, told.year_of_birth)
          /\ names[i] = "email_mobile_status" =>
                 LET status == IF \E m \in 1 .. 3 : ~Qr!Marked(data) /\ text(i) = <<Qr!Digit(m)>>
                               THEN text(i)[1] - Qr!Digit(0) ELSE 0
                 IN  signed.hashes = (status % 2) + (status \div 2)
  BY <1>1 DEF Qr!LaidOut
<1>7. /\ told.photo = Qr!OrNone(SubSeq(data, e[n] + 1, body - HashBytes * signed.hashes))
      /\ DOMAIN told = {"name", "dob", "year_of_birth", "last4", "photo"}
  BY DEF Qr!LaidOut
<1> DEFINE born == Qr!ParseDob(value("dob"))
<1> DEFINE hashes == IF Qr!Marked(data) THEN 0 ELSE Qr!Hashes(value("email_mobile_status"))
<1> DEFINE photo_ == Qr!OrNone(SubSeq(data, Qr!Start(data, n + 1), body - HashBytes * hashes))
<1>8. Qr!DecodeSigned(data) =
        IF body < MinBody \/ Cardinality(Qr!Delimiters(data)) < n THEN None
        ELSE [name |-> value("name"), dob |-> born.dob, year_of_birth |-> born.year,
              last4 |-> Qr!OrNone(value("reference_id")), photo |-> photo_,
              signed_data |-> SubSeq(data, 1, body), signature |-> SubSeq(data, body + 1, Len(data)),
              legacy_unsigned |-> FALSE]
  BY DEF Qr!DecodeSigned, Qr!Cardinality, Cardinality
<1> DEFINE t == text(at("dob"))
<1>9. \A i \in 1 .. n : text(i) \in Seq(Nat)
  <2> TAKE i \in 1 .. n
  <2>1. start(i) \in Nat \ {0} /\ e[i] - 1 \in Int /\ e[i] - 1 < Len(data) + 1
    <3> HIDE DEF n, e, data, body
    <3>1. e[i] \in 1 .. body /\ (i # 1 => e[i - 1] \in 1 .. body)
      BY <1>1, <1>3
    <3>2. start(i) \in Nat \ {0}
      BY <3>1
    <3>3. e[i] \in Int /\ e[i] <= body /\ body <= Len(data) /\ body \in Int /\ Len(data) \in Int
      BY <1>2, <3>1
    <3> QED
      BY <3>2, <3>3
  <2> HIDE DEF data, body, e, start
  <2>2. \A p \in start(i) .. e[i] - 1 : data[p] \in Nat
    <3>1. \A p \in start(i) .. e[i] - 1 : p \in 1 .. Len(data)
      BY <1>2, <2>1
    <3> QED
      BY <1>2, <3>1, ElementOfSeq
  <2> QED
    BY <2>1, <2>2, SubSeqProperties
<1>10. born.dob = told.dob /\ born.year = told.year_of_birth /\ told.dob \in Nat \cup {None}
       /\ told.year_of_birth \in Nat \cup {None}
  <2>1. value("dob") = t /\ Qr!SaysBorn(t, told.dob, told.year_of_birth) /\ t \in Seq(Nat)
    BY <1>5, <1>6, <1>9
  <2> HIDE DEF value, t, told
  <2> QED
    BY <2>1, BornAsTold
<1>11. hashes = signed.hashes /\ hashes \in {0, 1, 2}
  <2> DEFINE s == text(at("email_mobile_status"))
  <2> DEFINE status == IF \E m \in 1 .. 3 : ~Qr!Marked(data) /\ s = <<Qr!Digit(m)>> THEN s[1] - Qr!Digit(0) ELSE 0
  <2>1. value("email_mobile_status") = s /\ signed.hashes = (status % 2) + (status \div 2)
    BY <1>5, <1>6
  <2> HIDE DEF value, s, data
  <2>2. CASE Qr!Marked(data)
    BY <2>1, <2>2
  <2>3. CASE ~Qr!Marked(data) /\ \E m \in 1 .. 3 : s = <<Qr!Digit(m)>>
    <3>1. PICK m \in 1 .. 3 : s = <<Qr!Digit(m)>>
      BY <2>3
    <3>2. s[1] = 48 + m /\ status = m
      BY <2>3, <3>1 DEF Qr!Digit
    <3>3. Qr!Hashes(s) = IF m = 3 THEN 2 ELSE 1
      BY <3>1, <3>2 DEF Qr!Hashes, Qr!Digit
    <3>4. signed.hashes = IF m = 3 THEN 2 ELSE 1
      BY <2>1, <3>1, <3>2
    <3> QED
      BY <2>1, <2>3, <3>3, <3>4
  <2>4. CASE ~Qr!Marked(data) /\ ~\E m \in 1 .. 3 : s = <<Qr!Digit(m)>>
    BY <2>1, <2>4 DEF Qr!Hashes
  <2> QED
    BY <2>2, <2>3, <2>4
<1>12. photo_ = told.photo /\ photo_ \in Seq(Nat) \cup {None}
  <2>1. e[n] \in 1 .. body /\ Qr!Start(data, n + 1) = e[n] + 1
    BY <1>1, <1>3, <1>4 DEF Qr!Start
  <2>2. HashBytes * hashes \in Nat
    BY <1>11, BytesAssumption
  <2>3. photo_ = told.photo
    BY <1>7, <1>11, <2>1
  <2> DEFINE last == body - HashBytes * hashes
  <2>4. last \in Int /\ last <= Len(data) /\ e[n] + 1 \in Nat \ {0}
    BY <1>2, <2>1, <2>2
  <2> HIDE DEF data, body, e, n, hashes, last
  <2>5. \A p \in e[n] + 1 .. last : data[p] \in Nat
    BY <1>2, <2>4, ElementOfSeq
  <2>6. SubSeq(data, e[n] + 1, last) \in Seq(Nat)
    BY <2>4, <2>5, SubSeqProperties
  <2> QED
    BY <2>1, <2>3, <2>6 DEF Qr!OrNone, last
<1>13. SubSeq(data, 1, body) \in Seq(Nat) /\ SubSeq(data, body + 1, Len(data)) \in Seq(Nat)
  <2> HIDE DEF data, body
  <2>1. \A p \in 1 .. Len(data) : data[p] \in Nat
    BY <1>2, ElementOfSeq
  <2>2. /\ \A p \in 1 .. body : data[p] \in Nat
        /\ \A p \in body + 1 .. Len(data) : data[p] \in Nat
    BY <1>2, <2>1
  <2> QED
    BY <1>2, <2>2, SubSeqProperties
<1>14. /\ value("name") = told.name /\ value("name") \in Seq(Nat)
       /\ Qr!OrNone(value("reference_id")) = told.last4
       /\ Qr!OrNone(value("reference_id")) \in Seq(Nat) \cup {None}
  BY <1>5, <1>6, <1>9 DEF Qr!OrNone
<1>15. Cardinality(Qr!Delimiters(data)) >= n /\ ~(body < MinBody) /\ ~(Cardinality(Qr!Delimiters(data)) < n)
  <2>1. Cardinality(Qr!Delimiters(data)) >= n
    <3>1. n \in 1 .. n
      BY <1>1
    <3> HIDE DEF data, n, e, start
    <3> QED
      BY <1>4, <3>1
  <2>2. IsFiniteSet(1 .. Len(data)) /\ Qr!Delimiters(data) \in SUBSET (1 .. Len(data))
    BY <1>2, FS_Interval DEF Qr!Delimiters
  <2>3. Cardinality(Qr!Delimiters(data)) \in Nat
    BY <2>2, FS_Subset, FS_CardinalityType
  <2> QED
    BY <1>1, <1>2, <2>1, <2>3, BytesAssumption
<1> HIDE DEF data, names, n, e, body, start, text, at, value, told, born, hashes, photo_, t
<1>16. Qr!DecodeSigned(data) =
         [name |-> told.name, dob |-> told.dob, year_of_birth |-> told.year_of_birth, last4 |-> told.last4,
          photo |-> told.photo, signed_data |-> SubSeq(data, 1, body),
          signature |-> SubSeq(data, body + 1, Len(data)), legacy_unsigned |-> FALSE]
  BY <1>8, <1>10, <1>12, <1>14, <1>15
<1>17. Qr!DecodeSigned(data) \in Qr!Decoded
  BY <1>10, <1>12, <1>13, <1>14, <1>16 DEF Qr!Decoded
<1>18. \A f \in DOMAIN told : Qr!DecodeSigned(data)[f] = told[f]
  BY <1>7, <1>16
<1>19. Qr!DecodeSigned(data).legacy_unsigned = FALSE
  BY <1>16
<1> QED
  BY <1>17, <1>18, <1>19 DEF data, told

\* The certificate that is chosen is one of the directory that validates the signature, and one is
\* chosen when any does: CertificateStore.verify (secure_qr.py:165-175).
LEMMA CertificateFacts ==
    ASSUME NEW data, NEW key, key = Qr!verify(data, Certificates, Issued)
    PROVE  /\ key # None => ~data.legacy_unsigned /\ Qr!Validates(key, data.signed_data, data.signature, Issued)
           /\ ~data.legacy_unsigned =>
                  \A i \in DOMAIN Certificates :
                      Qr!Validates(Certificates[i], data.signed_data, data.signature, Issued) => key # None
<1> DEFINE valid(k) == Qr!Validates(k, data.signed_data, data.signature, Issued)
<1> DEFINE I == { i \in 1 .. Len(Certificates) : valid(Certificates[i]) }
<1>1. Len(Certificates) \in Nat /\ DOMAIN Certificates = 1 .. Len(Certificates)
      /\ \A i \in 1 .. Len(Certificates) : Certificates[i] # None
  <2>1. Len(Certificates) \in Nat /\ DOMAIN Certificates = 1 .. Len(Certificates)
    BY CertificatesAssumption, LenProperties
  <2> QED
    BY <2>1, CertificatesAssumption DEF Contains
<1>2. key = LET i == IF I # {} THEN Min(I) ELSE 0 IN IF i = 0 \/ data.legacy_unsigned THEN None ELSE Certificates[i]
  BY DEF Qr!verify, Qr!SelectInSeq, Qr!Min, Min
<1>3. I # {} => Min(I) \in I
  <2>1. I \subseteq Nat
    BY <1>1
  <2> HIDE DEF I
  <2> QED
    BY <2>1, LeastNatural
<1> HIDE DEF valid
<1>4. CASE I = {}
  <2>1. key = None
    BY <1>2, <1>4
  <2>2. \A i \in DOMAIN Certificates : ~valid(Certificates[i])
    BY <1>1, <1>4
  <2> QED
    BY <2>1, <2>2 DEF valid
<1>5. CASE I # {}
  <2>1. Min(I) \in 1 .. Len(Certificates) /\ valid(Certificates[Min(I)])
    BY <1>3, <1>5
  <2>2. Min(I) # 0 /\ Certificates[Min(I)] # None
    BY <1>1, <2>1
  <2>3. key = IF data.legacy_unsigned THEN None ELSE Certificates[Min(I)]
    BY <1>2, <1>5, <2>2
  <2>4. key # None => ~data.legacy_unsigned /\ valid(key)
    BY <2>1, <2>3
  <2>5. ~data.legacy_unsigned => key # None
    BY <2>2, <2>3
  <2> QED
    BY <2>4, <2>5 DEF valid
<1> QED
  BY <1>4, <1>5

\* Signed data and signature are the two parts of the payload.
LEMMA PartsOfPayload ==
    ASSUME NEW payload \in Seq(Nat), Qr!DecodeSigned(payload) # None
    PROVE  LET data == Qr!DecodeSigned(payload)
           IN  data.signed_data \o data.signature = payload /\ data.legacy_unsigned = FALSE
<1> DEFINE body == Len(payload) - SignatureBytes
<1> DEFINE data == Qr!DecodeSigned(payload)
<1>1. Len(payload) \in Nat
  BY LenProperties
<1>2. ~(body < MinBody)
  BY DEF Qr!DecodeSigned
<1>3. data.signed_data = SubSeq(payload, 1, body) /\ data.signature = SubSeq(payload, body + 1, Len(payload))
      /\ data.legacy_unsigned = FALSE
  BY DEF Qr!DecodeSigned
<1>4. body \in 0 .. Len(payload)
  BY <1>1, <1>2, BytesAssumption
<1>5. SubSeq(payload, 1, body) \o SubSeq(payload, body + 1, Len(payload)) = SubSeq(payload, 1, Len(payload))
  <2> HIDE DEF body
  <2>1. 1 \in 1 .. Len(payload) + 1 /\ body \in 1 - 1 .. Len(payload) /\ Len(payload) \in body .. Len(payload)
    BY <1>1, <1>4
  <2> QED
    BY <2>1, ConcatAdjacentSubSeq
<1> QED
  BY <1>3, <1>5, SubSeqFull

\* What CodeRead gives: the first code that can be decoded, and the certificate that verifies it.
LEMMA CodeReadFacts ==
    ASSUME NEW texts, texts \in Seq(Range(texts))
    PROVE  LET code == CodeRead(texts)
           IN  \/ code = NoCode /\ \A i \in DOMAIN texts : Qr!decode(texts[i]) = None
               \/ \E i \in DOMAIN texts :
                      /\ code.data = Qr!decode(texts[i]) /\ code.data # None
                      /\ \A j \in 1 .. i - 1 : Qr!decode(texts[j]) = None
                      /\ code.certificate = Qr!verify(code.data, Certificates, Issued)
<1> DEFINE s == [i \in DOMAIN texts |-> Qr!decode(texts[i])]
<1>1. Len(texts) \in Nat /\ DOMAIN texts = 1 .. Len(texts)
  BY LenProperties
<1>2. s \in [1 .. Len(texts) -> Range(s)]
  BY <1>1 DEF Range
<1>3. CodeRead(texts) = IF FirstOf(s) = None THEN NoCode
                        ELSE [data |-> FirstOf(s), certificate |-> Qr!verify(FirstOf(s), Certificates, Issued)]
  BY DEF CodeRead
<1>4. \A i \in 1 .. Len(texts) : s[i] = Qr!decode(texts[i])
  BY <1>1
<1> HIDE DEF s
<1>5. CASE FirstOf(s) = None /\ \A i \in 1 .. Len(texts) : s[i] = None
  BY <1>1, <1>3, <1>4, <1>5
<1>6. CASE \E i \in 1 .. Len(texts) : FirstOf(s) = s[i] /\ s[i] # None /\ \A j \in 1 .. i - 1 : s[j] = None
  <2>1. PICK i \in 1 .. Len(texts) : FirstOf(s) = s[i] /\ s[i] # None /\ \A j \in 1 .. i - 1 : s[j] = None
    BY <1>6
  <2>2. \A j \in 1 .. i - 1 : Qr!decode(texts[j]) = None
    BY <1>1, <1>4, <2>1
  <2> QED
    BY <1>1, <1>3, <1>4, <2>1, <2>2
<1> QED
  BY <1>1, <1>2, <1>5, <1>6, FirstAmong

\* What the extract check takes from the codes of a photograph: a certificate only for what the owner
\* of its key has signed, field by field, and always for what the owner of a loaded key has signed.
LEMMA CodeIsFaithful ==
    ASSUME NEW photograph \in Photographs
    PROVE  LET code == CodeRead(photograph.texts)
               texts == photograph.texts
           IN  /\ code.certificate # None =>
                      /\ code.data # None
                      /\ \E signed \in Issued : /\ signed.key = code.certificate
                                                /\ \A f \in DOMAIN signed.told : code.data[f] = signed.told[f]
               /\ \A signed \in { x \in Issued : texts # <<>> /\ x.payload = texts[1].payload } :
                      Contains(Certificates, signed.key) => code.certificate = signed.key
<1> DEFINE texts == photograph.texts
<1> DEFINE code == CodeRead(texts)
<1> DEFINE data == code.data
<1>1. /\ texts \in Seq(Range(texts))
      /\ \A i \in DOMAIN texts :
             texts[i].xml \in BOOLEAN /\ texts[i].payload \in Seq(Nat) /\ (texts[i].xml => texts[i].payload = <<>>)
  BY PhotographsAssumption DEF Photographed
<1>2. Len(texts) \in Nat /\ DOMAIN texts = 1 .. Len(texts)
  BY <1>1, LenProperties
<1>3. \/ code = NoCode /\ \A i \in DOMAIN texts : Qr!decode(texts[i]) = None
      \/ \E i \in DOMAIN texts :
             /\ data = Qr!decode(texts[i]) /\ data # None
             /\ \A j \in 1 .. i - 1 : Qr!decode(texts[j]) = None
             /\ code.certificate = Qr!verify(data, Certificates, Issued)
  BY <1>1, CodeReadFacts
<1>4. \A i \in DOMAIN texts :
          Qr!decode(texts[i]) = IF texts[i].xml THEN Qr!DecodeLegacy(texts[i].attributes)
                                ELSE Qr!DecodeSigned(texts[i].payload)
  BY DEF Qr!decode
<1>5. \A attributes : Qr!DecodeLegacy(attributes).legacy_unsigned = TRUE
  BY DEF Qr!DecodeLegacy
<1>6. \A signed \in Issued : Qr!LaidOut(signed) /\ signed.payload # <<>> /\ signed.payload \in Seq(Nat)
  <2> TAKE signed \in Issued
  <2>1. Qr!LaidOut(signed)
    BY IssuedAssumption
  <2> DEFINE n == Len(Qr!Names(Qr!Marked(signed.payload)))
  <2>2. /\ signed.payload \in Seq(Nat) /\ signed.ends \in [1 .. n -> 1 .. Len(signed.payload) - SignatureBytes]
        /\ n \in 1 .. n
    <3> DEFINE names == Qr!Names(Qr!Marked(signed.payload))
    <3>1. Len(names) \in Nat \ {0} /\ DOMAIN names = 1 .. Len(names)
      BY NamesFacts DEF Qr!Marked
    <3>2. signed.payload \in Seq(Nat) /\ signed.ends \in [DOMAIN names -> 1 .. Len(signed.payload) - SignatureBytes]
      BY <2>1 DEF Qr!LaidOut
    <3> HIDE DEF names
    <3>3. signed.ends \in [1 .. Len(names) -> 1 .. Len(signed.payload) - SignatureBytes] /\ Len(names) \in 1 .. Len(names)
      BY <3>1, <3>2
    <3> QED
      BY <3>2, <3>3 DEF names
  <2>3. Len(signed.payload) - SignatureBytes >= 1 /\ Len(signed.payload) \in Nat
    <3>1. Len(signed.payload) \in Nat
      BY <2>2, LenProperties
    <3>2. signed.ends[n] \in 1 .. Len(signed.payload) - SignatureBytes
      BY <2>2
    <3> QED
      BY <3>1, <3>2, BytesAssumption
  <2>4. signed.payload # <<>>
    BY <2>3, BytesAssumption, EmptySeq
  <2> QED
    BY <2>1, <2>2, <2>4
<1> HIDE DEF texts, code
<1>7. ASSUME code.certificate # None
      PROVE  /\ data # None
             /\ \E signed \in Issued : /\ signed.key = code.certificate
                                       /\ \A f \in DOMAIN signed.told : data[f] = signed.told[f]
  <2>1. PICK i \in DOMAIN texts :
            data = Qr!decode(texts[i]) /\ data # None /\ code.certificate = Qr!verify(data, Certificates, Issued)
    BY <1>3, <1>7 DEF NoCode
  <2>2. ~data.legacy_unsigned /\ Qr!Validates(code.certificate, data.signed_data, data.signature, Issued)
    BY <1>7, <2>1, CertificateFacts
  <2>3. ~texts[i].xml /\ data = Qr!DecodeSigned(texts[i].payload) /\ texts[i].payload \in Seq(Nat)
    BY <1>1, <1>4, <1>5, <2>1, <2>2
  <2>4. data.signed_data \o data.signature = texts[i].payload
    BY <2>1, <2>3, PartsOfPayload
  <2>5. PICK signed \in Issued : signed.key = code.certificate /\ signed.payload = texts[i].payload
    BY <2>2, <2>4 DEF Qr!Validates
  <2>6. \A f \in DOMAIN signed.told : data[f] = signed.told[f]
    BY <1>6, <2>3, <2>5, DecodedAsTold
  <2> QED
    BY <2>1, <2>5, <2>6
<1>8. ASSUME NEW signed \in Issued, texts # <<>>, signed.payload = texts[1].payload,
             NEW k \in 1 .. Len(Certificates), Certificates[k] = signed.key
      PROVE  code.certificate = signed.key
  <2>1. 1 \in DOMAIN texts
    BY <1>1, <1>2, <1>8, EmptySeq
  <2>2. ~texts[1].xml /\ texts[1].payload \in Seq(Nat) /\ Qr!decode(texts[1]) = Qr!DecodeSigned(signed.payload)
    BY <1>1, <1>4, <1>6, <1>8, <2>1
  <2>3. Qr!DecodeSigned(signed.payload) # None
    BY <1>6, DecodedAsTold, NoneAssumption
  <2>4. data = Qr!DecodeSigned(signed.payload) /\ code.certificate = Qr!verify(data, Certificates, Issued)
    <3>1. PICK i \in DOMAIN texts :
              /\ data = Qr!decode(texts[i]) /\ \A j \in 1 .. i - 1 : Qr!decode(texts[j]) = None
              /\ code.certificate = Qr!verify(data, Certificates, Issued)
      BY <1>3, <2>1, <2>2, <2>3
    <3>2. i = 1
      BY <1>2, <2>1, <2>2, <2>3, <3>1
    <3> QED
      BY <2>2, <3>1, <3>2
  <2>5. data.signed_data \o data.signature = signed.payload /\ ~data.legacy_unsigned
    BY <1>6, <2>3, <2>4, PartsOfPayload
  <2>6. Qr!Validates(Certificates[k], data.signed_data, data.signature, Issued)
    BY <1>8, <2>5 DEF Qr!Validates
  <2>7. k \in DOMAIN Certificates
    BY CertificatesAssumption, LenProperties
  <2>8. code.certificate # None /\ Qr!Validates(code.certificate, data.signed_data, data.signature, Issued)
    BY <2>4, <2>5, <2>6, <2>7, CertificateFacts
  <2>9. PICK other \in Issued : other.key = code.certificate /\ other.payload = signed.payload
    BY <2>5, <2>8 DEF Qr!Validates
  <2> QED
    BY <2>9, IssuedAssumption
<1> QED
  BY <1>7, <1>8 DEF texts, code, Contains

------------------------------------------------------------------------------
(* What the text of a card gives: each field a value that the lines show.   *)

\* A value that is taken from a set of shown values, and None only when nothing is shown.
Picks(v, shown) == \/ v = None /\ shown = {}
                   \/ v # None /\ v \in shown

\* One source after another: the second is asked when the first shows nothing.
LEMMA PicksEither ==
    ASSUME NEW a, NEW V, NEW b, NEW W, Picks(a, V), Picks(b, W)
    PROVE  Picks(IF a # None THEN a ELSE b, V \cup W)
BY DEF Picks

\* FirstIn over the lines: the first of the values that some of them show.
LEMMA PicksAmong ==
    ASSUME NEW n \in Nat, NEW s, s \in [1 .. n -> Range(s)], NEW A, A \subseteq 1 .. n,
           \A i \in 1 .. n : i \notin A => s[i] = None
    PROVE  Picks(FirstOf(s), Valued({ s[i] : i \in A }))
<1>1. CASE FirstOf(s) = None /\ \A i \in 1 .. n : s[i] = None
  <2>1. Valued({ s[i] : i \in A }) = {}
    BY <1>1 DEF Valued
  <2> QED
    BY <1>1, <2>1 DEF Picks
<1>2. CASE \E i \in 1 .. n : FirstOf(s) = s[i] /\ s[i] # None
  <2>1. PICK i \in A : FirstOf(s) = s[i] /\ s[i] # None
    BY <1>2
  <2>2. FirstOf(s) \in Valued({ s[j] : j \in A })
    BY <2>1 DEF Valued
  <2> QED
    BY <2>1, <2>2 DEF Picks
<1> QED
  BY <1>1, <1>2, FirstAmong

\* The value of the uppermost of some lines, when there is one.
LEMMA UppermostFacts ==
    ASSUME NEW A, A \subseteq Nat
    PROVE  Uppermost(A) = IF A = {} THEN {} ELSE {Min(A)}
<1>1. CASE A = {}
  BY <1>1 DEF Uppermost
<1>2. CASE A # {}
  <2>1. Min(A) \in A /\ \A y \in A : Min(A) <= y
    BY <1>2, LeastNatural
  <2>2. ASSUME NEW i \in A, \A j \in A : i <= j PROVE i = Min(A)
    <3>1. i \in Nat /\ Min(A) \in Nat /\ i <= Min(A) /\ Min(A) <= i
      BY <2>1, <2>2
    <3> QED
      BY <3>1
  <2> QED
    BY <1>2, <2>1, <2>2 DEF Uppermost
<1> QED
  BY <1>1, <1>2

\* A list of three values.
LEMMA FirstOfThree ==
    ASSUME NEW a, NEW b, NEW c
    PROVE  FirstOf(<<a, b, c>>) = IF a # None THEN a ELSE IF b # None THEN b ELSE c
<1> DEFINE s == <<a, b, c>>
<1>1. Len(s) = 3 /\ s[1] = a /\ s[2] = b /\ s[3] = c
  OBVIOUS
<1> HIDE DEF s
<1>2. \/ FirstOf(s) = None /\ \A i \in 1 .. 3 : s[i] = None
      \/ \E i \in 1 .. 3 : FirstOf(s) = s[i] /\ s[i] # None /\ \A j \in 1 .. i - 1 : s[j] = None
  BY <1>1, FirstOfFacts
<1>3. FirstOf(s) = IF a # None THEN a ELSE IF b # None THEN b ELSE c
  BY <1>1, <1>2
<1> QED
  BY <1>3 DEF s

\* A list of four values.
LEMMA FirstOfFour ==
    ASSUME NEW a, NEW b, NEW c, NEW d
    PROVE  FirstOf(<<a, b, c, d>>) = IF a # None THEN a ELSE IF b # None THEN b ELSE IF c # None THEN c ELSE d
<1> DEFINE s == <<a, b, c, d>>
<1>1. Len(s) = 4 /\ s[1] = a /\ s[2] = b /\ s[3] = c /\ s[4] = d
  OBVIOUS
<1> HIDE DEF s
<1>2. \/ FirstOf(s) = None /\ \A i \in 1 .. 4 : s[i] = None
      \/ \E i \in 1 .. 4 : FirstOf(s) = s[i] /\ s[i] # None /\ \A j \in 1 .. i - 1 : s[j] = None
  BY <1>1, FirstOfFacts
<1>3. FirstOf(s) = IF a # None THEN a ELSE IF b # None THEN b ELSE IF c # None THEN c ELSE d
  BY <1>1, <1>2
<1> QED
  BY <1>3 DEF s

\* A list of six values.
LEMMA FirstOfSix ==
    ASSUME NEW a, NEW b, NEW c, NEW d, NEW e, NEW f
    PROVE  FirstOf(<<a, b, c, d, e, f>>) =
             IF a # None THEN a ELSE IF b # None THEN b ELSE IF c # None THEN c
             ELSE IF d # None THEN d ELSE IF e # None THEN e ELSE f
<1> DEFINE s == <<a, b, c, d, e, f>>
<1>1. Len(s) = 6 /\ s[1] = a /\ s[2] = b /\ s[3] = c /\ s[4] = d /\ s[5] = e /\ s[6] = f
  OBVIOUS
<1> HIDE DEF s
<1>2. \/ FirstOf(s) = None /\ \A i \in 1 .. 6 : s[i] = None
      \/ \E i \in 1 .. 6 : FirstOf(s) = s[i] /\ s[i] # None /\ \A j \in 1 .. i - 1 : s[j] = None
  <2>1. Len(s) \in Nat
    BY <1>1
  <2>2. \/ FirstOf(s) = None /\ \A i \in 1 .. Len(s) : s[i] = None
        \/ \E i \in 1 .. Len(s) : FirstOf(s) = s[i] /\ s[i] # None /\ \A j \in 1 .. i - 1 : s[j] = None
    BY <2>1, FirstOfFacts
  <2> QED
    BY <1>1, <2>2
<1>3. \/ FirstOf(s) = None /\ \A i \in 1 .. 6 : s[i] = None
      \/ s[1] # None /\ FirstOf(s) = s[1]
      \/ s[1] = None /\ s[2] # None /\ FirstOf(s) = s[2]
      \/ s[1] = None /\ s[2] = None /\ s[3] # None /\ FirstOf(s) = s[3]
      \/ s[1] = None /\ s[2] = None /\ s[3] = None /\ s[4] # None /\ FirstOf(s) = s[4]
      \/ s[1] = None /\ s[2] = None /\ s[3] = None /\ s[4] = None /\ s[5] # None /\ FirstOf(s) = s[5]
      \/ s[1] = None /\ s[2] = None /\ s[3] = None /\ s[4] = None /\ s[5] = None /\ FirstOf(s) = s[6]
  BY <1>2
<1>4. \A i \in 1 .. 6 : i \in {1, 2, 3, 4, 5, 6}
  OBVIOUS
<1>5. FirstOf(s) = IF a # None THEN a ELSE IF b # None THEN b ELSE IF c # None THEN c
                   ELSE IF d # None THEN d ELSE IF e # None THEN e ELSE f
  BY <1>1, <1>3, <1>4
<1> QED
  BY <1>5 DEF s

\* The lines of a card are numbered from 1, and beyond them there is a blank one.
LEMMA LinesFacts ==
    ASSUME NEW lines, Legible(lines)
    PROVE  /\ Len(lines) \in Nat /\ DOMAIN lines = 1 .. Len(lines)
           /\ \A i \in 1 .. Len(lines) : LineAt(lines, i) = lines[i]
           /\ \A i : Clean(lines, i) # None => i \in 1 .. Len(lines)
           /\ \A label : Labels(lines, label) = { i \in 1 .. Len(lines) : lines[i].label = label }
<1>1. Len(lines) \in Nat /\ DOMAIN lines = 1 .. Len(lines)
  BY LenProperties DEF Legible
<1>2. \A i \in 1 .. Len(lines) : LineAt(lines, i) = lines[i]
  BY <1>1 DEF LineAt
<1>3. \A i : Clean(lines, i) # None => i \in 1 .. Len(lines)
  <2> TAKE i
  <2>1. CASE i \in 1 .. Len(lines)
    BY <2>1
  <2>2. CASE i \notin 1 .. Len(lines)
    <3>1. Blank.clean = None
      BY DEF Blank
    <3> QED
      BY <1>1, <2>2, <3>1 DEF Clean, LineAt
  <2> QED
    BY <2>1, <2>2
<1>4. \A label : Labels(lines, label) = { i \in 1 .. Len(lines) : lines[i].label = label }
  BY <1>1 DEF Labels
<1> QED
  BY <1>1, <1>2, <1>3, <1>4

\* _labelled_name (parse.py:146-156)
LEMMA LabelledNameIsShown ==
    ASSUME NEW lines, Legible(lines)
    PROVE  Picks(LabelledName(lines),
                 Valued({ IF lines[i].rest THEN lines[i].name ELSE Clean(lines, i + 1) : i \in Labels(lines, "name") }))
<1> DEFINE n == Len(lines)
<1> DEFINE A == Labels(lines, "name")
<1> DEFINE s == [i \in 1 .. n |-> IF i \notin A THEN None
                                  ELSE IF lines[i].rest THEN lines[i].name ELSE LineAt(lines, i + 1).clean]
<1>1. n \in Nat /\ DOMAIN lines = 1 .. n /\ A \subseteq 1 .. n
  BY LinesFacts
<1>2. LabelledName(lines) = FirstOf(s)
  BY <1>1 DEF LabelledName, FirstIn
<1>3. s \in [1 .. n -> Range(s)] /\ \A i \in 1 .. n : i \notin A => s[i] = None
  BY DEF Range
<1>4. { s[i] : i \in A } = { IF lines[i].rest THEN lines[i].name ELSE Clean(lines, i + 1) : i \in A }
  BY <1>1 DEF Clean
<1> HIDE DEF s, A, n
<1>5. Picks(FirstOf(s), Valued({ s[i] : i \in A }))
  BY <1>1, <1>3, PicksAmong
<1> QED
  BY <1>2, <1>4, <1>5 DEF A

\* _mrz: the first line of a passport for machines (parse.py:269-278)
LEMMA MrzNameIsShown ==
    ASSUME NEW lines, Legible(lines)
    PROVE  Picks(MrzName(lines), Valued({ lines[i].name : i \in Uppermost(Labels(lines, "mrz1")) }))
<1> DEFINE A == Labels(lines, "mrz1")
<1>1. Len(lines) \in Nat /\ A = { i \in 1 .. Len(lines) : lines[i].label = "mrz1" } /\ A \subseteq Nat \ {0}
  BY LinesFacts
<1>2. MrzName(lines) = LET i == IF A # {} THEN Min(A) ELSE 0 IN IF i = 0 THEN None ELSE lines[i].name
  BY <1>1 DEF MrzName, SelectInSeq
<1>3. Uppermost(A) = (IF A = {} THEN {} ELSE {Min(A)}) /\ (A # {} => Min(A) \in A)
  <2> HIDE DEF A
  <2> QED
    BY <1>1, UppermostFacts, LeastNatural
<1> HIDE DEF A
<1>4. CASE A = {}
  BY <1>2, <1>3, <1>4 DEF A, Picks, Valued
<1>5. CASE A # {}
  <2>1. MrzName(lines) = lines[Min(A)].name
    BY <1>1, <1>2, <1>3, <1>5
  <2>2. { lines[i].name : i \in Uppermost(A) } = {lines[Min(A)].name}
    BY <1>3, <1>5
  <2>3. Picks(MrzName(lines), Valued({lines[Min(A)].name}))
    BY <2>1 DEF Picks, Valued
  <2> QED
    BY <2>2, <2>3 DEF A
<1> QED
  BY <1>4, <1>5

\* _name_near (parse.py:159-166)
LEMMA NameNearIsShown ==
    ASSUME NEW lines, Legible(lines),
           NEW anchors, anchors = UNION { Labels(lines, label) : label \in {"dob", "yob", "gender"} },
           NEW near, near = { k \in DOMAIN lines : \E a \in anchors : /\ k \in a - 3 .. a - 1
                                                                       /\ \A j \in k + 1 .. a - 1 : Clean(lines, j) = None }
    PROVE  Picks(NameNear(lines), Valued({ Clean(lines, i) : i \in near }))
<1> DEFINE n == Len(lines)
<1> DEFINE above(i) == [k \in 1 .. 3 |-> LineAt(lines, i - k).clean]
<1> DEFINE s == [i \in 1 .. n |-> IF i \notin anchors THEN None ELSE FirstOf(above(i))]
<1>1. n \in Nat /\ DOMAIN lines = 1 .. n /\ anchors \subseteq 1 .. n
  BY LinesFacts
<1>2. NameNear(lines) = FirstOf(s)
  BY <1>1 DEF NameNear, FirstIn
<1>3. s \in [1 .. n -> Range(s)] /\ \A i \in 1 .. n : i \notin anchors => s[i] = None
  BY DEF Range
<1>4. \A i \in anchors : s[i] = FirstOf(above(i))
  BY <1>1
<1>5. \A i \in anchors : \/ FirstOf(above(i)) = None /\ \A k \in 1 .. 3 : Clean(lines, i - k) = None
                         \/ \E k \in 1 .. 3 : /\ FirstOf(above(i)) = Clean(lines, i - k) /\ Clean(lines, i - k) # None
                                              /\ \A j \in 1 .. k - 1 : Clean(lines, i - j) = None
  <2> TAKE i \in anchors
  <2>1. above(i) \in [1 .. 3 -> Range(above(i))] /\ \A k \in 1 .. 3 : above(i)[k] = Clean(lines, i - k)
    BY DEF Range, Clean
  <2> HIDE DEF above
  <2>2. \/ FirstOf(above(i)) = None /\ \A k \in 1 .. 3 : above(i)[k] = None
        \/ \E k \in 1 .. 3 : /\ FirstOf(above(i)) = above(i)[k] /\ above(i)[k] # None
                             /\ \A j \in 1 .. k - 1 : above(i)[j] = None
    BY <2>1, FirstAmong
  <2> QED
    BY <2>1, <2>2
<1> HIDE DEF s, above, n
<1>6. Picks(FirstOf(s), Valued({ s[i] : i \in anchors }))
  BY <1>1, <1>3, PicksAmong
<1>7. ASSUME NEW v \in Valued({ s[i] : i \in anchors }) PROVE v \in Valued({ Clean(lines, i) : i \in near })
  <2>1. PICK i \in anchors : v = FirstOf(above(i)) /\ v # None
    BY <1>4 DEF Valued
  <2>2. PICK k \in 1 .. 3 : /\ v = Clean(lines, i - k) /\ \A j \in 1 .. k - 1 : Clean(lines, i - j) = None
    BY <1>5, <2>1
  <2>3. i - k \in DOMAIN lines
    BY <1>1, <2>1, <2>2, LinesFacts DEF n
  <2>4. i - k \in i - 3 .. i - 1 /\ \A j \in (i - k) + 1 .. i - 1 : Clean(lines, j) = None
    <3>1. i \in Int
      BY <1>1
    <3>2. ASSUME NEW j \in (i - k) + 1 .. i - 1 PROVE Clean(lines, j) = None
      <4>1. i - j \in 1 .. k - 1 /\ i - (i - j) = j
        BY <3>1
      <4> QED
        BY <2>2, <4>1
    <3> QED
      BY <3>1, <3>2
  <2>5. i - k \in near
    BY <2>3, <2>4
  <2> QED
    BY <2>1, <2>2, <2>5 DEF Valued
<1>8. ASSUME NEW v \in Valued({ Clean(lines, i) : i \in near }) PROVE Valued({ s[i] : i \in anchors }) # {}
  <2>1. PICK p \in near : Clean(lines, p) # None
    BY DEF Valued
  <2>2. PICK a \in anchors : p \in a - 3 .. a - 1
    OBVIOUS
  <2>3. a \in Int /\ p \in Int /\ a - p \in 1 .. 3 /\ a - (a - p) = p
    BY <1>1, <2>2
  <2>4. s[a] # None
    BY <1>4, <1>5, <2>1, <2>3
  <2> QED
    BY <2>4 DEF Valued
<1> QED
  BY <1>2, <1>6, <1>7, <1>8 DEF Picks

\* _name_after_header (parse.py:169-177)
LEMMA NameAfterHeaderIsShown ==
    ASSUME NEW lines, Legible(lines),
           NEW headed, headed = { k \in DOMAIN lines :
                                    /\ lines[k].label # "header"
                                    /\ \E h \in Labels(lines, "header") :
                                           /\ h < k
                                           /\ \A j \in h + 1 .. k - 1 : lines[j].label = "header" \/ Clean(lines, j) = None }
    PROVE  Picks(NameAfterHeader(lines), Valued({ Clean(lines, i) : i \in headed }))
<1> DEFINE n == Len(lines)
<1> DEFINE below(i) == lines[i].label # "header" /\ \E h \in Labels(lines, "header") : h < i
<1> DEFINE s == [i \in 1 .. n |-> IF below(i) THEN lines[i].clean ELSE None]
<1>1. n \in Nat /\ DOMAIN lines = 1 .. n /\ Labels(lines, "header") \subseteq 1 .. n
  BY LinesFacts
<1>2. NameAfterHeader(lines) = FirstOf(s)
  BY <1>1 DEF NameAfterHeader, FirstIn
<1>3. s \in [1 .. n -> Range(s)]
  BY DEF Range
<1>4. \A i \in 1 .. n : s[i] = IF below(i) THEN Clean(lines, i) ELSE None
  BY LinesFacts DEF Clean
<1> HIDE DEF s, n
<1>5. \/ FirstOf(s) = None /\ \A i \in 1 .. n : s[i] = None
      \/ \E i \in 1 .. n : FirstOf(s) = s[i] /\ s[i] # None /\ \A j \in 1 .. i - 1 : s[j] = None
  BY <1>1, <1>3, FirstAmong
<1>6. CASE FirstOf(s) = None /\ \A i \in 1 .. n : s[i] = None
  <2>1. \A k \in headed : Clean(lines, k) = None
    BY <1>1, <1>4, <1>6
  <2> QED
    BY <1>2, <1>6, <2>1 DEF Picks, Valued
<1>7. CASE \E i \in 1 .. n : FirstOf(s) = s[i] /\ s[i] # None /\ \A j \in 1 .. i - 1 : s[j] = None
  <2>1. PICK i \in 1 .. n : FirstOf(s) = s[i] /\ s[i] # None /\ \A j \in 1 .. i - 1 : s[j] = None
    BY <1>7
  <2>2. below(i) /\ s[i] = Clean(lines, i)
    BY <1>4, <2>1
  <2>3. PICK h \in Labels(lines, "header") : h < i
    BY <2>2
  <2>4. ASSUME NEW j \in h + 1 .. i - 1 PROVE lines[j].label = "header" \/ Clean(lines, j) = None
    <3>1. j \in 1 .. n /\ j \in 1 .. i - 1 /\ h < j
      BY <1>1, <2>1, <2>3
    <3>2. SUFFICES ASSUME lines[j].label # "header" PROVE Clean(lines, j) = None
      OBVIOUS
    <3>3. below(j)
      BY <3>1, <3>2
    <3> QED
      BY <1>4, <2>1, <3>1, <3>3
  <2>5. i \in headed
    BY <1>1, <2>2, <2>3, <2>4
  <2>6. FirstOf(s) # None /\ FirstOf(s) \in Valued({ Clean(lines, k) : k \in headed })
    BY <2>1, <2>2, <2>5 DEF Valued
  <2> QED
    BY <1>2, <2>6 DEF Picks
<1> QED
  BY <1>5, <1>6, <1>7

\* An order of which line comes before which, that may leave lines equal.
Ordered(A, R) ==
    /\ \A x \in A : <<x, x>> \notin R
    /\ \A x, y, z \in A : <<x, y>> \in R /\ <<y, z>> \in R => <<x, z>> \in R
    /\ \A x, y, z \in A : <<x, z>> \in R => <<x, y>> \in R \/ <<y, z>> \in R

\* Best: among some lines there is one that comes first in such an order, the upper one of equals.
LEMMA FirstInOrder ==
    ASSUME NEW n \in Nat, NEW A, A \subseteq 1 .. n, A # {}, NEW R, Ordered(A, R)
    PROVE  \E i \in A : \A j \in A : <<j, i>> \notin R /\ (i <= j \/ <<i, j>> \in R)
<1> DEFINE Up(m) == { j \in A : j <= m }
<1> DEFINE First(i, m) == \A j \in Up(m) : <<j, i>> \notin R /\ (i <= j \/ <<i, j>> \in R)
<1> DEFINE T == { m \in Nat : Up(m) # {} /\ ~\E i \in Up(m) : First(i, m) }
<1>0. \A j \in A : j \in Nat /\ 1 <= j /\ j <= n
  OBVIOUS
<1>1. ASSUME T # {} PROVE FALSE
  <2> DEFINE m == Min(T)
  <2>1. m \in T /\ \A y \in T : m <= y
    BY <1>1, LeastNatural
  <2>2. m \in Nat /\ m # 0
    <3>1. Up(0) = {}
      <4>1. \A j \in A : ~(j <= 0)
        BY <1>0
      <4>2. \A j : j \notin Up(0)
        BY <4>1
      <4> HIDE DEF Up
      <4> QED
        BY <4>2
    <3>2. 0 \notin T
      BY <3>1
    <3> HIDE DEF m
    <3> QED
      BY <2>1, <3>2
  <2>3. Up(m) # {} /\ ~\E i \in Up(m) : First(i, m)
    BY <2>1
  <2>4. m - 1 \in Nat /\ m - 1 \notin T
    <3> HIDE DEF T, m
    <3>1. m - 1 \in Nat /\ ~(m <= m - 1)
      BY <2>2
    <3> QED
      BY <2>1, <3>1
  <2>5. Up(m - 1) = {} \/ \E i \in Up(m - 1) : First(i, m - 1)
    BY <2>4
  <2> HIDE DEF T, m
  <2>6. \A j \in A : j <= m <=> j = m \/ j <= m - 1
    BY <1>0, <2>2
  <2>7. m \in A
    <3>1. SUFFICES ASSUME m \notin A PROVE FALSE
      OBVIOUS
    <3>2. Up(m) = Up(m - 1)
      BY <2>6, <3>1
    <3> HIDE DEF Up
    <3> QED
      BY <2>3, <2>5, <3>2
  <2>8. Up(m) = Up(m - 1) \cup {m}
    BY <2>2, <2>6, <2>7
  <2>9. \A x \in A : <<x, x>> \notin R
    BY DEF Ordered
  <2>10. CASE Up(m - 1) = {}
    <3>1. Up(m) = {m} /\ m <= m /\ <<m, m>> \notin R
      BY <2>2, <2>7, <2>8, <2>9, <2>10
    <3> HIDE DEF Up
    <3>2. First(m, m)
      BY <3>1
    <3> QED
      BY <2>3, <3>1, <3>2
  <2>11. ASSUME NEW i \in Up(m - 1), First(i, m - 1) PROVE FALSE
    <3>1. i \in A /\ i <= m /\ i \in Up(m) /\ m \in Up(m) /\ \A j \in Up(m - 1) : j \in A
      BY <2>2, <2>7, <2>8
    <3>2. CASE <<m, i>> \in R
      <4>1. ASSUME NEW j \in Up(m - 1) PROVE <<j, m>> \notin R /\ <<m, j>> \in R
        <5>1. j \in A /\ <<j, i>> \notin R
          BY <2>11, <3>1
        <5> QED
          BY <2>7, <3>1, <3>2, <5>1 DEF Ordered
      <4>2. <<m, m>> \notin R /\ m <= m
        BY <2>2, <2>7, <2>9
      <4> HIDE DEF Up
      <4>3. First(m, m)
        BY <2>8, <4>1, <4>2
      <4> QED
        BY <2>3, <3>1, <4>3
    <3>3. CASE <<m, i>> \notin R
      <4> HIDE DEF Up
      <4>1. First(i, m)
        BY <2>8, <2>11, <3>1, <3>3
      <4> QED
        BY <2>3, <3>1, <4>1
    <3> QED
      BY <3>2, <3>3
  <2> QED
    BY <2>5, <2>10, <2>11
<1>2. Up(n) = A
  BY <1>0
<1>3. n \notin T
  BY <1>1
<1>4. \E i \in Up(n) : First(i, n)
  BY <1>2, <1>3
<1> QED
  BY <1>2, <1>4

\* _tallest_name (parse.py:180-184)
LEMMA TallestNameIsShown ==
    ASSUME NEW lines, Legible(lines),
           NEW tallest, tallest = { k \in DOMAIN lines : \A j \in DOMAIN lines :
                                      Clean(lines, j) # None => lines[j].height <= lines[k].height }
    PROVE  Picks(TallestName(lines), Valued({ Clean(lines, i) : i \in tallest }))
<1> DEFINE A == { i \in DOMAIN lines : lines[i].clean # None }
<1> DEFINE best == CHOOSE i \in A : \A j \in A :
                     ~(lines[j].height > lines[i].height) /\ (i <= j \/ lines[i].height > lines[j].height)
<1>1. Len(lines) \in Nat /\ A \subseteq 1 .. Len(lines) /\ \A i \in A : lines[i].height \in Nat
  BY LinesFacts DEF Legible
<1>2. TallestName(lines) = IF A = {} THEN None ELSE lines[best].clean
  BY DEF TallestName, Best
<1>3. \A i \in DOMAIN lines : Clean(lines, i) = lines[i].clean /\ lines[i].height \in Nat
  BY LinesFacts DEF Clean, Legible
<1>4. CASE A = {}
  <2>1. \A i \in DOMAIN lines : Clean(lines, i) = None
    BY <1>3, <1>4
  <2>2. Valued({ Clean(lines, i) : i \in tallest }) = {}
    BY <2>1 DEF Valued
  <2> QED
    BY <1>2, <1>4, <2>2 DEF Picks
<1>5. CASE A # {}
  <2> DEFINE R == { p \in A \X A : lines[p[1]].height > lines[p[2]].height }
  <2>1. \A x, y \in A : <<x, y>> \in R <=> lines[x].height > lines[y].height
    OBVIOUS
  <2> HIDE DEF A, R
  <2>2. \E i \in A : \A j \in A : <<j, i>> \notin R /\ (i <= j \/ <<i, j>> \in R)
    <3>1. \A x \in A : <<x, x>> \notin R
      BY <1>1, <2>1
    <3>2. \A x, y, z \in A : <<x, y>> \in R /\ <<y, z>> \in R => <<x, z>> \in R
      BY <1>1, <2>1
    <3>3. \A x, y, z \in A : <<x, z>> \in R => <<x, y>> \in R \/ <<y, z>> \in R
      BY <1>1, <2>1
    <3>4. Ordered(A, R)
      BY <3>1, <3>2, <3>3 DEF Ordered
    <3> QED
      BY <1>1, <1>5, <3>4, FirstInOrder
  <2>3. best \in A /\ \A j \in A : ~(lines[j].height > lines[best].height)
    BY <2>1, <2>2
  <2> HIDE DEF best
  <2>4. best \in tallest /\ lines[best].clean = Clean(lines, best) /\ Clean(lines, best) # None
    <3>1. best \in DOMAIN lines /\ lines[best].clean # None
      BY <2>3 DEF A
    <3>2. \A j \in DOMAIN lines : Clean(lines, j) # None => j \in A
      BY <1>3 DEF A
    <3>3. \A j \in DOMAIN lines : Clean(lines, j) # None => lines[j].height <= lines[best].height
      BY <1>3, <2>3, <3>1, <3>2
    <3> QED
      BY <1>3, <3>1, <3>3
  <2> QED
    BY <1>2, <1>5, <2>4 DEF Picks, Valued
<1> QED
  BY <1>4, <1>5

\* The answers of Textract only fill the gaps of what the lines gave: extract_fields (parse.py:77-127).
LEMMA AnswersFillGaps ==
    ASSUME NEW lines, NEW type, NEW queries
    PROVE  LET bare == extract_fields(lines, NoAnswers, type)
               found == extract_fields(lines, queries, type)
               filled(value, answer) == IF value # None THEN value ELSE answer
           IN  /\ DOMAIN found = FieldNames
               /\ found.name = filled(bare.name, queries.NAME)
               /\ found.dob = filled(bare.dob, queries.DOB)
               /\ found.year_of_birth = IF found.dob = None THEN bare.year_of_birth ELSE None
               /\ found.id_number = filled(bare.id_number, queries.ID_NUMBER)
               /\ found.institution = filled(bare.institution, queries.INSTITUTION)
               /\ found.valid_until = filled(bare.valid_until, queries.VALID_UNTIL)
<1> DEFINE a == IF type = "PASSPORT" THEN MrzName(lines) ELSE None
<1> DEFINE b == LabelledName(lines)
<1> DEFINE c == IF type = "AADHAAR" THEN NameNear(lines) ELSE None
<1> DEFINE d == IF type = "PAN" THEN NameAfterHeader(lines) ELSE None
<1> DEFINE e == TallestName(lines)
<1> DEFINE born == BirthDate(lines, type)
<1> DEFINE year == FirstIn(lines, LAMBDA i : IF lines[i].label = "yob" THEN lines[i].year ELSE None)
<1> DEFINE number == Number(lines, type)
<1> DEFINE place == IF type = "COLLEGE_ID" /\ Labels(lines, "institution") # {} THEN "institution" ELSE None
<1> DEFINE until == ValidUntil(lines, type)
<1> DEFINE filled(value, answer) == IF value # None THEN value ELSE answer
<1>1. ASSUME NEW q
      PROVE  /\ DOMAIN extract_fields(lines, q, type) = FieldNames
             /\ extract_fields(lines, q, type).name =
                  IF a # None THEN a ELSE IF b # None THEN b ELSE IF c # None THEN c ELSE IF d # None THEN d
                  ELSE IF e # None THEN e ELSE q.NAME
             /\ extract_fields(lines, q, type).dob = filled(born, q.DOB)
             /\ extract_fields(lines, q, type).year_of_birth = IF filled(born, q.DOB) = None THEN year ELSE None
             /\ extract_fields(lines, q, type).id_number = filled(number, q.ID_NUMBER)
             /\ extract_fields(lines, q, type).institution = filled(place, q.INSTITUTION)
             /\ extract_fields(lines, q, type).valid_until = filled(until, q.VALID_UNTIL)
  <2>1. extract_fields(lines, q, type) =
          [name |-> FirstOf(<<a, b, c, d, e, q.NAME>>), dob |-> FirstOf(<<born, q.DOB>>),
           year_of_birth |-> IF FirstOf(<<born, q.DOB>>) = None THEN year ELSE None,
           id_number |-> FirstOf(<<number, q.ID_NUMBER>>),
           institution |-> FirstOf(<<place, q.INSTITUTION>>),
           valid_until |-> FirstOf(<<until, q.VALID_UNTIL>>)]
    BY DEF extract_fields
  <2> HIDE DEF a, b, c, d, e, born, year, number, place, until
  <2>2. FirstOf(<<a, b, c, d, e, q.NAME>>) =
          IF a # None THEN a ELSE IF b # None THEN b ELSE IF c # None THEN c ELSE IF d # None THEN d
          ELSE IF e # None THEN e ELSE q.NAME
    BY FirstOfSix
  <2>3. /\ FirstOf(<<born, q.DOB>>) = filled(born, q.DOB)
        /\ FirstOf(<<number, q.ID_NUMBER>>) = filled(number, q.ID_NUMBER)
        /\ FirstOf(<<place, q.INSTITUTION>>) = filled(place, q.INSTITUTION)
        /\ FirstOf(<<until, q.VALID_UNTIL>>) = filled(until, q.VALID_UNTIL)
    BY FirstOfTwo
  <2> QED
    BY <2>1, <2>2, <2>3 DEF FieldNames
<1>2. \A alias \in {"NAME", "DOB", "ID_NUMBER", "INSTITUTION", "VALID_UNTIL"} : NoAnswers[alias] = None
  BY DEF NoAnswers
<1> HIDE DEF a, b, c, d, e, born, year, number, place, until
<1> QED
  BY <1>1, <1>2

\* The name: extract_fields without answers.
LEMMA NameIsShown ==
    ASSUME NEW lines, NEW type, Legible(lines)
    PROVE  Picks(extract_fields(lines, NoAnswers, type).name, Shown(lines, type).name)
<1> DEFINE a == IF type = "PASSPORT" THEN MrzName(lines) ELSE None
<1> DEFINE b == LabelledName(lines)
<1> DEFINE c == IF type = "AADHAAR" THEN NameNear(lines) ELSE None
<1> DEFINE d == IF type = "PAN" THEN NameAfterHeader(lines) ELSE None
<1> DEFINE e == TallestName(lines)
<1> DEFINE anchors == UNION { Labels(lines, label) : label \in {"dob", "yob", "gender"} }
<1> DEFINE labelled == { IF lines[i].rest THEN lines[i].name ELSE Clean(lines, i + 1) : i \in Labels(lines, "name") }
<1> DEFINE machine == { lines[i].name : i \in IF type = "PASSPORT" THEN Uppermost(Labels(lines, "mrz1")) ELSE {} }
<1> DEFINE near == { k \in DOMAIN lines : /\ type = "AADHAAR"
                                         /\ \E anchor \in anchors :
                                                /\ k \in anchor - 3 .. anchor - 1
                                                /\ \A j \in k + 1 .. anchor - 1 : Clean(lines, j) = None }
<1> DEFINE headed == { k \in DOMAIN lines : /\ type = "PAN" /\ lines[k].label # "header"
                                           /\ \E h \in Labels(lines, "header") :
                                                  /\ h < k
                                                  /\ \A j \in h + 1 .. k - 1 :
                                                         lines[j].label = "header" \/ Clean(lines, j) = None }
<1> DEFINE tallest == { k \in DOMAIN lines : \A j \in DOMAIN lines :
                                               Clean(lines, j) # None => lines[j].height <= lines[k].height }
<1> DEFINE alone(places) == Valued({ Clean(lines, i) : i \in places })
<1>1. extract_fields(lines, NoAnswers, type).name =
        IF a # None THEN a ELSE IF b # None THEN b ELSE IF c # None THEN c ELSE IF d # None THEN d ELSE e
  <2>1. extract_fields(lines, NoAnswers, type).name = FirstOf(<<a, b, c, d, e, None>>)
    BY DEF extract_fields, NoAnswers
  <2> HIDE DEF a, b, c, d, e
  <2> QED
    BY <2>1, FirstOfSix
<1>2. Shown(lines, type).name =
        IF Valued(labelled \cup machine) # {} THEN Valued(labelled \cup machine)
        ELSE IF alone(near \cup headed) # {} THEN alone(near \cup headed) ELSE alone(tallest)
  BY DEF Shown, NamesShown
<1>3. Picks(a, Valued(machine))
  <2>1. CASE type = "PASSPORT"
    BY <2>1, MrzNameIsShown
  <2>2. CASE type # "PASSPORT"
    BY <2>2 DEF Picks, Valued
  <2> QED
    BY <2>1, <2>2
<1>4. Picks(b, Valued(labelled))
  BY LabelledNameIsShown
<1>5. Picks(c, alone(near))
  <2>1. CASE type = "AADHAAR"
    <3>1. near = { k \in DOMAIN lines : \E anchor \in anchors :
                                          /\ k \in anchor - 3 .. anchor - 1
                                          /\ \A j \in k + 1 .. anchor - 1 : Clean(lines, j) = None }
      BY <2>1
    <3>2. Picks(NameNear(lines), Valued({ Clean(lines, i) : i \in near }))
      <4> HIDE DEF anchors, near
      <4> QED
        BY <3>1, NameNearIsShown DEF anchors
    <3> QED
      BY <2>1, <3>2
  <2>2. CASE type # "AADHAAR"
    BY <2>2 DEF Picks, Valued
  <2> QED
    BY <2>1, <2>2
<1>6. Picks(d, alone(headed))
  <2>1. CASE type = "PAN"
    <3>1. headed = { k \in DOMAIN lines : /\ lines[k].label # "header"
                                          /\ \E h \in Labels(lines, "header") :
                                                 /\ h < k
                                                 /\ \A j \in h + 1 .. k - 1 :
                                                        lines[j].label = "header" \/ Clean(lines, j) = None }
      BY <2>1
    <3>2. Picks(NameAfterHeader(lines), Valued({ Clean(lines, i) : i \in headed }))
      <4> HIDE DEF headed
      <4> QED
        BY <3>1, NameAfterHeaderIsShown
    <3> QED
      BY <2>1, <3>2
  <2>2. CASE type # "PAN"
    BY <2>2 DEF Picks, Valued
  <2> QED
    BY <2>1, <2>2
<1>7. Picks(e, alone(tallest))
  <2> HIDE DEF tallest
  <2>1. tallest = { k \in DOMAIN lines : \A j \in DOMAIN lines :
                                           Clean(lines, j) # None => lines[j].height <= lines[k].height }
    BY DEF tallest
  <2> QED
    BY <2>1, TallestNameIsShown
<1>8. Valued(labelled \cup machine) = Valued(machine) \cup Valued(labelled)
  <2> HIDE DEF labelled, machine
  <2> QED
    BY DEF Valued
<1>9. alone(near \cup headed) = alone(near) \cup alone(headed)
  <2> HIDE DEF near, headed
  <2> QED
    BY DEF Valued
<1> HIDE DEF a, b, c, d, e, anchors, labelled, machine, near, headed, tallest, alone
<1>10. Picks(IF a # None THEN a ELSE b, Valued(labelled \cup machine))
  BY <1>3, <1>4, <1>8, PicksEither
<1>11. Picks(IF c # None THEN c ELSE d, alone(near \cup headed))
  BY <1>5, <1>6, <1>9 DEF Picks
<1> QED
  BY <1>1, <1>2, <1>7, <1>10, <1>11 DEF Picks

\* _mrz: the second line for machines, with its check digits (parse.py:270-280)
LEMMA MrzIsMachineLine ==
    ASSUME NEW lines, Legible(lines)
    PROVE  /\ Mrz(lines) = { i \in Uppermost(Labels(lines, "mrz2")) : lines[i].number.valid }
           /\ \A i \in Mrz(lines) : i \in 1 .. Len(lines) /\ lines[i].number # None /\ lines[i].year \in 0 .. 99 \cup {None}
<1> DEFINE A == Labels(lines, "mrz2")
<1>1. Len(lines) \in Nat /\ A = { i \in 1 .. Len(lines) : lines[i].label = "mrz2" } /\ A \subseteq Nat \ {0}
  BY LinesFacts
<1>2. Mrz(lines) = LET i == IF A # {} THEN Min(A) ELSE 0 IN IF i # 0 /\ lines[i].number.valid THEN {i} ELSE {}
  BY <1>1 DEF Mrz, SelectInSeq
<1>3. Uppermost(A) = (IF A = {} THEN {} ELSE {Min(A)}) /\ (A # {} => Min(A) \in A)
  <2> HIDE DEF A
  <2> QED
    BY <1>1, UppermostFacts, LeastNatural
<1>4. \A i \in A : i \in 1 .. Len(lines) /\ lines[i].number # None /\ lines[i].year \in 0 .. 99 \cup {None}
  BY LinesFacts DEF Legible
<1> HIDE DEF A
<1>5. CASE A = {}
  BY <1>2, <1>3, <1>5 DEF A
<1>6. CASE A # {}
  <2>1. Min(A) \in A /\ Min(A) # 0
    BY <1>1, <1>3, <1>6
  <2>2. Mrz(lines) = IF lines[Min(A)].number.valid THEN {Min(A)} ELSE {}
    BY <1>2, <1>6, <2>1
  <2>3. Mrz(lines) = { i \in Uppermost(A) : lines[i].number.valid }
    BY <1>3, <1>6, <2>2
  <2>4. Mrz(lines) \subseteq A
    BY <2>1, <2>2
  <2> QED
    BY <1>4, <2>3, <2>4 DEF A
<1> QED
  BY <1>5, <1>6

\* The century of a year in the line for machines: the year of the last hundred that ends so (parse.py:281-286).
LEMMA CenturyOfMrz ==
    ASSUME NEW yy \in 0 .. 99
    PROVE  /\ MrzYear(yy) \in ThisYear - 99 .. ThisYear /\ yy = MrzYear(yy) % 100
           /\ \A y \in ThisYear - 99 .. ThisYear : yy = y % 100 => y = MrzYear(yy)
<1>1. ThisYear \in 2000 .. 2099
  BY ThisYearAssumption
<1>2. PICK t \in 0 .. 99 : ThisYear = 2000 + t
  <2>1. ThisYear - 2000 \in 0 .. 99 /\ ThisYear = 2000 + (ThisYear - 2000)
    BY <1>1
  <2> QED
    BY <2>1
<1>3. ThisYear % 100 = t
  BY <1>2
<1>4. MrzYear(yy) = IF yy > t THEN 1900 + yy ELSE 2000 + yy
  BY <1>3 DEF MrzYear
<1>5. CASE yy > t
  BY <1>2, <1>4, <1>5
<1>6. CASE ~(yy > t)
  BY <1>2, <1>4, <1>6
<1> QED
  BY <1>5, <1>6

\* Dates after a label, beside or below it: _dob and _validity (parse.py:194-200, 215-223)
LEMMA DateAfterIsShown ==
    ASSUME NEW lines, Legible(lines), NEW label, NEW month_year_ok \in BOOLEAN
    PROVE  Picks(DateAfter(lines, label, month_year_ok),
                 Valued({ IF month_year_ok
                          THEN FirstOf(<<lines[i].date, lines[i].month, LineAt(lines, i + 1).date, LineAt(lines, i + 1).month>>)
                          ELSE FirstOf(<<lines[i].date, LineAt(lines, i + 1).date>>) : i \in Labels(lines, label) }))
<1> DEFINE n == Len(lines)
<1> DEFINE A == Labels(lines, label)
<1> DEFINE parse(line) == FirstOf(<<line.date, IF month_year_ok THEN line.month ELSE None>>)
<1> DEFINE s == [i \in 1 .. n |-> IF i \notin A THEN None
                                  ELSE FirstOf(<<parse(lines[i]), parse(LineAt(lines, i + 1))>>)]
<1> DEFINE v(i) == IF month_year_ok
                   THEN FirstOf(<<lines[i].date, lines[i].month, LineAt(lines, i + 1).date, LineAt(lines, i + 1).month>>)
                   ELSE FirstOf(<<lines[i].date, LineAt(lines, i + 1).date>>)
<1>1. n \in Nat /\ DOMAIN lines = 1 .. n /\ A \subseteq 1 .. n
  BY LinesFacts
<1>2. DateAfter(lines, label, month_year_ok) = FirstOf(s)
  BY <1>1 DEF DateAfter, FirstIn
<1>3. s \in [1 .. n -> Range(s)] /\ \A i \in 1 .. n : i \notin A => s[i] = None
  BY DEF Range
<1>4. ASSUME NEW i \in A PROVE s[i] = v(i)
  <2> DEFINE one == lines[i]
  <2> DEFINE two == LineAt(lines, i + 1)
  <2>1. s[i] = FirstOf(<<parse(one), parse(two)>>)
    BY <1>1
  <2> HIDE DEF s, one, two
  <2>2. parse(one) = (IF one.date # None THEN one.date ELSE IF month_year_ok THEN one.month ELSE None)
        /\ parse(two) = (IF two.date # None THEN two.date ELSE IF month_year_ok THEN two.month ELSE None)
    BY FirstOfTwo
  <2>3. FirstOf(<<parse(one), parse(two)>>) = IF parse(one) # None THEN parse(one) ELSE parse(two)
    <3> HIDE DEF parse
    <3> QED
      BY FirstOfTwo
  <2>4. /\ FirstOf(<<one.date, one.month, two.date, two.month>>) =
             IF one.date # None THEN one.date ELSE IF one.month # None THEN one.month
             ELSE IF two.date # None THEN two.date ELSE two.month
        /\ FirstOf(<<one.date, two.date>>) = IF one.date # None THEN one.date ELSE two.date
    BY FirstOfFour, FirstOfTwo
  <2> HIDE DEF parse
  <2>5. s[i] = IF month_year_ok THEN FirstOf(<<one.date, one.month, two.date, two.month>>) ELSE FirstOf(<<one.date, two.date>>)
    BY <2>1, <2>2, <2>3, <2>4
  <2> QED
    BY <2>5 DEF one, two
<1> HIDE DEF s, A, n, v
<1>5. Picks(FirstOf(s), Valued({ s[i] : i \in A }))
  BY <1>1, <1>3, PicksAmong
<1>6. { s[i] : i \in A } = { v(i) : i \in A }
  BY <1>4
<1> QED
  BY <1>2, <1>5, <1>6 DEF A, v

\* The date of birth: _dob (parse.py:190-205)
LEMMA DobIsShown ==
    ASSUME NEW lines, NEW type, Legible(lines)
    PROVE  Picks(extract_fields(lines, NoAnswers, type).dob, Shown(lines, type).dob)
<1> DEFINE n == Len(lines)
<1> DEFINE M == MachineLine(lines, type)
<1> DEFINE s == [i \in 1 .. n |-> IF i \in Mrz(lines) /\ lines[i].year # None THEN MrzYear(lines[i].year) ELSE None]
<1> DEFINE t == [i \in 1 .. n |-> lines[i].date]
<1> DEFINE a == IF type = "PASSPORT" THEN FirstOf(s) ELSE None
<1> DEFINE b == DateAfter(lines, "dob", FALSE)
<1> DEFINE c == IF type = "PAN" THEN FirstOf(t) ELSE None
<1> DEFINE labelled == { FirstOf(<<lines[i].date, LineAt(lines, i + 1).date>>) : i \in Labels(lines, "dob") }
<1> DEFINE machine == { y \in ThisYear - 99 .. ThisYear : \E i \in M : lines[i].year = y % 100 }
<1> DEFINE dates == { lines[i].date : i \in DOMAIN lines }
<1>1. n \in Nat /\ DOMAIN lines = 1 .. n
  BY LinesFacts
<1>2. extract_fields(lines, NoAnswers, type).dob = IF a # None THEN a ELSE IF b # None THEN b ELSE c
  <2>1. BirthDate(lines, type) = FirstOf(<<a, b, c>>)
    BY <1>1 DEF BirthDate, FirstIn
  <2>2. extract_fields(lines, NoAnswers, type).dob = FirstOf(<<BirthDate(lines, type), None>>)
    BY DEF extract_fields, NoAnswers
  <2> HIDE DEF a, b, c
  <2>3. FirstOf(<<a, b, c>>) = IF a # None THEN a ELSE IF b # None THEN b ELSE c
    BY FirstOfThree
  <2>4. FirstOf(<<BirthDate(lines, type), None>>) = BirthDate(lines, type)
    BY FirstOfTwo
  <2> QED
    BY <2>1, <2>2, <2>3, <2>4
<1>3. Shown(lines, type).dob = IF Valued(labelled \cup machine) = {} /\ type = "PAN" THEN Valued(dates)
                               ELSE Valued(labelled \cup machine)
  BY DEF Shown, BirthsShown
<1>4. Picks(a, machine)
  <2>1. CASE type = "PASSPORT"
    <3>1. M = Mrz(lines) /\ \A i \in M : i \in 1 .. n /\ lines[i].year \in 0 .. 99 \cup {None}
      BY <2>1, MrzIsMachineLine DEF MachineLine
    <3>2. s \in [1 .. n -> Range(s)] /\ \A i \in 1 .. n : i \notin M => s[i] = None
      BY <3>1 DEF Range
    <3>3. \A i \in M : s[i] = IF lines[i].year # None THEN MrzYear(lines[i].year) ELSE None
      BY <3>1
    <3> HIDE DEF s, M, n
    <3>4. Picks(FirstOf(s), Valued({ s[i] : i \in M }))
      BY <1>1, <3>1, <3>2, PicksAmong
    <3>5. ASSUME NEW y PROVE y \in Valued({ s[i] : i \in M }) <=> y \in machine
      <4>1. ASSUME y \in Valued({ s[i] : i \in M }) PROVE y \in machine
        <5>1. PICK i \in M : y = MrzYear(lines[i].year) /\ lines[i].year # None
          BY <3>3, <4>1 DEF Valued
        <5>2. y \in ThisYear - 99 .. ThisYear /\ lines[i].year = y % 100
          BY <3>1, <5>1, CenturyOfMrz
        <5> QED
          BY <5>2
      <4>2. ASSUME y \in machine PROVE y \in Valued({ s[i] : i \in M })
        <5>1. PICK i \in M : y \in ThisYear - 99 .. ThisYear /\ lines[i].year = y % 100
          BY <4>2
        <5>2. y % 100 \in Nat
          BY <5>1, ThisYearAssumption
        <5>3. lines[i].year # None /\ y = MrzYear(lines[i].year) /\ y \in Nat
          <6>1. lines[i].year # None
            BY <5>1, <5>2, NoneAssumption
          <6> QED
            BY <3>1, <5>1, <6>1, CenturyOfMrz, ThisYearAssumption
        <5>4. y # None
          BY <5>3, NoneAssumption
        <5> QED
          BY <3>3, <5>3, <5>4 DEF Valued
      <4> QED
        BY <4>1, <4>2
    <3>6. Valued({ s[i] : i \in M }) = machine
      BY <3>5
    <3> QED
      BY <2>1, <3>4, <3>6
  <2>2. CASE type # "PASSPORT"
    <3>1. machine = {}
      BY <2>2 DEF MachineLine
    <3> QED
      BY <2>2, <3>1 DEF Picks
  <2> QED
    BY <2>1, <2>2
<1>5. Picks(b, Valued(labelled))
  BY DateAfterIsShown
<1>6. Picks(FirstOf(t), Valued(dates))
  <2>1. t \in [1 .. n -> Range(t)]
    BY DEF Range
  <2>2. dates = { t[i] : i \in 1 .. n }
    BY <1>1
  <2> HIDE DEF t, dates, n
  <2>3. Picks(FirstOf(t), Valued({ t[i] : i \in 1 .. n }))
    BY <1>1, <2>1, PicksAmong
  <2> QED
    BY <2>2, <2>3
<1>7. Valued(labelled \cup machine) = machine \cup Valued(labelled)
  <2>1. \A y \in machine : y # None
    <3>1. \A y \in ThisYear - 99 .. ThisYear : y \in Nat
      BY ThisYearAssumption
    <3> QED
      BY <3>1, NoneAssumption
  <2> HIDE DEF labelled, machine
  <2> QED
    BY <2>1 DEF Valued
<1> HIDE DEF s, t, b, labelled, machine, dates
<1>8. Picks(IF a # None THEN a ELSE b, Valued(labelled \cup machine))
  BY <1>4, <1>5, <1>7, PicksEither
<1> QED
  BY <1>2, <1>3, <1>6, <1>8 DEF Picks

\* The year that an Aadhaar card prints in place of a date (parse.py:190-205, 114-120)
LEMMA YearIsShown ==
    ASSUME NEW lines, NEW type, Legible(lines)
    PROVE  /\ extract_fields(lines, NoAnswers, type).dob = None =>
                  Picks(extract_fields(lines, NoAnswers, type).year_of_birth, Shown(lines, type).year_of_birth)
           /\ extract_fields(lines, NoAnswers, type).dob # None =>
                  extract_fields(lines, NoAnswers, type).year_of_birth = None
<1> DEFINE n == Len(lines)
<1> DEFINE A == Labels(lines, "yob")
<1> DEFINE s == [i \in 1 .. n |-> IF lines[i].label = "yob" THEN lines[i].year ELSE None]
<1>1. n \in Nat /\ DOMAIN lines = 1 .. n /\ A = { i \in 1 .. n : lines[i].label = "yob" }
  BY LinesFacts
<1>2. extract_fields(lines, NoAnswers, type).year_of_birth =
        IF extract_fields(lines, NoAnswers, type).dob = None THEN FirstOf(s) ELSE None
  BY <1>1 DEF extract_fields, FirstIn
<1>3. s \in [1 .. n -> Range(s)] /\ \A i \in 1 .. n : i \notin A => s[i] = None
  BY <1>1 DEF Range
<1>4. \A i \in A : s[i] = lines[i].year
  BY <1>1
<1>5. Shown(lines, type).year_of_birth = Valued({ lines[i].year : i \in A })
  BY DEF Shown
<1> HIDE DEF s, A, n
<1>6. Picks(FirstOf(s), Valued({ s[i] : i \in A }))
  BY <1>1, <1>3, PicksAmong
<1>7. { s[i] : i \in A } = { lines[i].year : i \in A }
  BY <1>4
<1> QED
  BY <1>2, <1>5, <1>6, <1>7

\* The first number on some of the lines: _pattern_number, the licence's pattern, _college, _mrz.
LEMMA FirstNumber ==
    ASSUME NEW lines, Legible(lines), NEW among, among \subseteq 1 .. Len(lines)
    PROVE  Picks(FirstIn(lines, LAMBDA i : IF i \in among THEN lines[i].number ELSE None),
                 Valued({ lines[i].number : i \in among }))
<1> DEFINE n == Len(lines)
<1> DEFINE s == [i \in 1 .. n |-> IF i \in among THEN lines[i].number ELSE None]
<1>1. n \in Nat /\ DOMAIN lines = 1 .. n
  BY LinesFacts
<1>2. FirstIn(lines, LAMBDA i : IF i \in among THEN lines[i].number ELSE None) = FirstOf(s)
  BY <1>1 DEF FirstIn
<1>3. s \in [1 .. n -> Range(s)] /\ \A i \in 1 .. n : i \notin among => s[i] = None
  BY DEF Range
<1>4. \A i \in among : s[i] = lines[i].number
  OBVIOUS
<1> HIDE DEF s
<1>5. Picks(FirstOf(s), Valued({ s[i] : i \in among }))
  BY <1>1, <1>3, PicksAmong
<1>6. { s[i] : i \in among } = { lines[i].number : i \in among }
  BY <1>4
<1> QED
  BY <1>2, <1>5, <1>6

\* _aadhaar_number (parse.py:229-242): valid before invalid, tall before small.
LEMMA AadhaarNumberIsShown ==
    ASSUME NEW lines, Legible(lines)
    PROVE  LET aadhaar == { i \in DOMAIN lines : lines[i].number # None } \ Labels(lines, "vid")
           IN  Picks(AadhaarNumber(lines),
                     Valued({ lines[k].number : k \in { k \in aadhaar : \A j \in aadhaar :
                                 IF lines[j].number.valid = lines[k].number.valid
                                 THEN lines[j].height <= lines[k].height ELSE lines[k].number.valid } }))
<1> DEFINE A == { i \in DOMAIN lines : lines[i].number # None /\ lines[i].label # "vid" }
<1> DEFINE Above(a, b) == IF a.number.valid # b.number.valid THEN a.number.valid ELSE a.height > b.height
<1> DEFINE best == CHOOSE i \in A : \A j \in A :
                     ~Above(lines[j], lines[i]) /\ (i <= j \/ Above(lines[i], lines[j]))
<1> DEFINE top == { k \in A : \A j \in A : IF lines[j].number.valid = lines[k].number.valid
                                           THEN lines[j].height <= lines[k].height ELSE lines[k].number.valid }
<1>1. Len(lines) \in Nat /\ A \subseteq 1 .. Len(lines)
      /\ \A i \in A : lines[i].height \in Nat /\ lines[i].number # None /\ lines[i].number.valid \in BOOLEAN
  BY LinesFacts DEF Legible
<1>2. AadhaarNumber(lines) = IF A = {} THEN None ELSE lines[best].number
  BY DEF AadhaarNumber, Best
<1>3. { i \in DOMAIN lines : lines[i].number # None } \ Labels(lines, "vid") = A
  BY DEF Labels
<1> HIDE DEF A
<1>4. CASE A = {}
  <2>1. Valued({ lines[k].number : k \in top }) = {}
    BY <1>4 DEF Valued
  <2> QED
    BY <1>2, <1>3, <1>4, <2>1 DEF Picks
<1>5. CASE A # {}
  <2> DEFINE R == { p \in A \X A : Above(lines[p[1]], lines[p[2]]) }
  <2>1. \A x, y \in A : <<x, y>> \in R <=> Above(lines[x], lines[y])
    OBVIOUS
  <2> HIDE DEF R
  <2>2. \E i \in A : \A j \in A : <<j, i>> \notin R /\ (i <= j \/ <<i, j>> \in R)
    <3>1. \A x \in A : <<x, x>> \notin R
      BY <1>1, <2>1
    <3>2. \A x, y, z \in A : <<x, y>> \in R /\ <<y, z>> \in R => <<x, z>> \in R
      BY <1>1, <2>1
    <3>3. \A x, y, z \in A : <<x, z>> \in R => <<x, y>> \in R \/ <<y, z>> \in R
      BY <1>1, <2>1
    <3>4. Ordered(A, R)
      BY <3>1, <3>2, <3>3 DEF Ordered
    <3> QED
      BY <1>1, <1>5, <3>4, FirstInOrder
  <2>3. best \in A /\ \A j \in A : ~Above(lines[j], lines[best])
    BY <2>1, <2>2
  <2> HIDE DEF best
  <2>4. best \in top
    BY <1>1, <2>3
  <2> HIDE DEF top
  <2>5. lines[best].number \in Valued({ lines[k].number : k \in top })
    BY <1>1, <2>3, <2>4 DEF Valued
  <2> QED
    BY <1>1, <1>2, <1>3, <1>5, <2>3, <2>5 DEF Picks, top
<1> QED
  BY <1>4, <1>5

\* The number of the card, of any kind: extract_fields without answers.
LEMMA NumberIsShown ==
    ASSUME NEW lines, NEW type, Legible(lines)
    PROVE  Picks(extract_fields(lines, NoAnswers, type).id_number, Shown(lines, type).id_number)
<1> DEFINE first(among) == FirstIn(lines, LAMBDA i : IF i \in among THEN lines[i].number ELSE None)
<1> DEFINE numbered == { i \in DOMAIN lines : lines[i].number # None }
<1> DEFINE aadhaar == numbered \ Labels(lines, "vid")
<1> DEFINE top == { k \in aadhaar : \A j \in aadhaar :
                      IF lines[j].number.valid = lines[k].number.valid
                      THEN lines[j].height <= lines[k].height ELSE lines[k].number.valid }
<1> DEFINE shown(places) == Valued({ lines[i].number : i \in places })
<1>1. extract_fields(lines, NoAnswers, type).id_number = Number(lines, type)
  BY FirstOfTwo DEF extract_fields, NoAnswers
<1>2. Shown(lines, type).id_number = NumbersShown(lines, type)
  BY DEF Shown
<1>3. Picks(Number(lines, type), NumbersShown(lines, type))
  <2>1. CASE type = "AADHAAR"
    <3>1. Number(lines, type) = AadhaarNumber(lines)
      BY <2>1 DEF Number
    <3>2. NumbersShown(lines, type) = shown(top)
      BY <2>1 DEF NumbersShown
    <3> QED
      BY <3>1, <3>2, AadhaarNumberIsShown
  <2>2. CASE type \in {"PAN", "VOTER_ID"}
    <3> DEFINE among == { k \in numbered : lines[k].number.valid }
    <3>1. Number(lines, type) = first(among)
      BY <2>2 DEF Number
    <3>2. NumbersShown(lines, type) = shown(among)
      BY <2>2 DEF NumbersShown
    <3>3. among \subseteq 1 .. Len(lines)
      BY LinesFacts
    <3> HIDE DEF among
    <3> QED
      BY <3>1, <3>2, <3>3, FirstNumber
  <2>3. CASE type = "DRIVING_LICENCE"
    <3>1. Number(lines, type) = first(numbered)
      BY <2>3 DEF Number
    <3>2. NumbersShown(lines, type) = shown(numbered)
      BY <2>3 DEF NumbersShown
    <3>3. numbered \subseteq 1 .. Len(lines)
      BY LinesFacts
    <3> HIDE DEF numbered
    <3> QED
      BY <3>1, <3>2, <3>3, FirstNumber
  <2>4. CASE type = "COLLEGE_ID"
    <3> DEFINE among == Labels(lines, "roll")
    <3>1. Number(lines, type) = first(among)
      BY <2>4 DEF Number
    <3>2. NumbersShown(lines, type) = shown(among)
      BY <2>4 DEF NumbersShown
    <3>3. among \subseteq 1 .. Len(lines)
      BY LinesFacts
    <3> HIDE DEF among
    <3> QED
      BY <3>1, <3>2, <3>3, FirstNumber
  <2>5. CASE type = "PASSPORT"
    <3> DEFINE among == Mrz(lines)
    <3>1. Number(lines, type) = first(among)
      BY <2>5 DEF Number
    <3>2. NumbersShown(lines, type) = shown(among)
      BY <2>5, MrzIsMachineLine DEF NumbersShown, MachineLine
    <3>3. among \subseteq 1 .. Len(lines)
      BY MrzIsMachineLine
    <3> HIDE DEF among
    <3> QED
      BY <3>1, <3>2, <3>3, FirstNumber
  <2>6. CASE type \notin {"AADHAAR", "PAN", "VOTER_ID", "DRIVING_LICENCE", "COLLEGE_ID", "PASSPORT"}
    <3>1. Number(lines, type) = None
      BY <2>6 DEF Number
    <3>2. NumbersShown(lines, type) = shown({})
      BY <2>6 DEF NumbersShown, MachineLine
    <3> QED
      BY <3>1, <3>2 DEF Picks, Valued
  <2> QED
    BY <2>1, <2>2, <2>3, <2>4, <2>5, <2>6
<1> QED
  BY <1>1, <1>2, <1>3

\* The institution and the validity: extract_fields without answers (parse.py:106-107, 215-223, 258-262).
LEMMA RestIsShown ==
    ASSUME NEW lines, NEW type, Legible(lines)
    PROVE  /\ Picks(extract_fields(lines, NoAnswers, type).institution, Shown(lines, type).institution)
           /\ Picks(extract_fields(lines, NoAnswers, type).valid_until, Shown(lines, type).valid_until)
<1>1. extract_fields(lines, NoAnswers, type).institution =
        IF type = "COLLEGE_ID" /\ Labels(lines, "institution") # {} THEN "institution" ELSE None
  BY FirstOfTwo DEF extract_fields, NoAnswers
<1>2. Shown(lines, type).institution =
        Valued({ "institution" : i \in IF type = "COLLEGE_ID" THEN Labels(lines, "institution") ELSE {} })
  BY DEF Shown
<1>3. extract_fields(lines, NoAnswers, type).valid_until = ValidUntil(lines, type)
  BY FirstOfTwo DEF extract_fields, NoAnswers
<1> DEFINE until(i) == FirstOf(<<lines[i].date, lines[i].month, LineAt(lines, i + 1).date, LineAt(lines, i + 1).month>>)
<1> DEFINE dated == type \in {"COLLEGE_ID", "DRIVING_LICENCE", "PASSPORT", "UNKNOWN"}
<1>4. Shown(lines, type).valid_until = Valued({ until(i) : i \in IF dated THEN Labels(lines, "valid") ELSE {} })
  BY DEF Shown
<1>5. ValidUntil(lines, type) = IF dated THEN DateAfter(lines, "valid", TRUE) ELSE None
  BY DEF ValidUntil
<1>6. Picks(DateAfter(lines, "valid", TRUE), Valued({ until(i) : i \in Labels(lines, "valid") }))
  BY DateAfterIsShown
<1> HIDE DEF until, dated
<1>7. Picks(ValidUntil(lines, type), Valued({ until(i) : i \in IF dated THEN Labels(lines, "valid") ELSE {} }))
  <2>1. CASE dated
    BY <1>5, <1>6, <2>1
  <2>2. CASE ~dated
    BY <1>5, <2>2 DEF Picks, Valued
  <2> QED
    BY <2>1, <2>2
<1> QED
  BY <1>1, <1>2, <1>3, <1>4, <1>7 DEF Picks, Valued

------------------------------------------------------------------------------
(* What the extract check gives of a photograph.                            *)

\* missing_queries (parse.py:312-317), question by question.
LEMMA MissingFacts ==
    ASSUME NEW found, NEW type, NEW alias
    PROVE  alias \in missing_queries(found, type) <=>
             \/ alias = "NAME" /\ found.name = None
             \/ alias = "ID_NUMBER" /\ found.id_number = None
             \/ alias = "INSTITUTION" /\ type = "COLLEGE_ID" /\ found.institution = None
             \/ alias = "VALID_UNTIL" /\ type = "COLLEGE_ID" /\ found.valid_until = None
             \/ alias = "DOB" /\ type # "COLLEGE_ID" /\ found.dob = None /\ found.year_of_birth = None
BY DEF missing_queries

\* Textract's answers to the questions that are put to it.
LEMMA AnsweredFacts ==
    ASSUME NEW wanted, NEW answers
    PROVE  \A alias \in {"NAME", "DOB", "ID_NUMBER", "INSTITUTION", "VALID_UNTIL"} :
               /\ NoAnswers[alias] = None
               /\ Answered(wanted, answers)[alias] = IF alias \in wanted THEN answers[alias] ELSE None
BY DEF NoAnswers, Answered

\* The lines alone give each field a value that stands where such a card has it, if one does.
LEMMA LinesAsShown ==
    ASSUME NEW lines, NEW type, Legible(lines)
    PROVE  LET bare == extract_fields(lines, NoAnswers, type)
               shown == Shown(lines, type)
           IN  /\ Picks(bare.name, shown.name) /\ Picks(bare.dob, shown.dob) /\ Picks(bare.id_number, shown.id_number)
               /\ Picks(bare.institution, shown.institution) /\ Picks(bare.valid_until, shown.valid_until)
               /\ bare.dob = None => Picks(bare.year_of_birth, shown.year_of_birth)
               /\ bare.dob # None => bare.year_of_birth = None
BY NameIsShown, DobIsShown, YearIsShown, NumberIsShown, RestIsShown

\* One value before another; and the best evidence of three kinds.
Filled(v, w) == IF v # None THEN v ELSE w
BestOf(shown, t, g) == IF shown # {} THEN shown ELSE IF Valued({t}) # {} THEN Valued({t}) ELSE Valued({g})

\* A field from three sources in turn: the value is the best evidence, and None only without any.
LEMMA ThreeSources ==
    ASSUME NEW b, NEW shown, Picks(b, shown), NEW t, NEW g
    PROVE  Picks(Filled(Filled(b, t), g), BestOf(shown, t, g))
<1>1. (Valued({t}) = IF t = None THEN {} ELSE {t}) /\ (Valued({g}) = IF g = None THEN {} ELSE {g})
  BY DEF Valued
<1> QED
  BY <1>1 DEF Picks, Filled, BestOf

\* The merge of a code (checks/extract.py:91-106): a value that was found stays, and a gap is filled
\* with what a certificate has verified.
LEMMA MergeFillsGaps ==
    ASSUME NEW found, DOMAIN found = FieldNames, NEW code, code.certificate # None => code.data # None
    PROVE  LET merged == Merged(found, code)
               verified == code.certificate # None
               unborn == found.dob = None /\ found.year_of_birth = None
               filled(v, w) == IF v # None THEN v ELSE w
           IN  /\ DOMAIN merged = FieldNames
               /\ merged.name = filled(found.name, IF verified THEN Qr!OrNone(code.data.name) ELSE None)
               /\ merged.dob = IF unborn /\ verified THEN code.data.dob ELSE found.dob
               /\ merged.year_of_birth = IF unborn /\ verified THEN code.data.year_of_birth ELSE found.year_of_birth
               /\ merged.id_number = filled(found.id_number, IF verified /\ code.data.last4 # None
                                                             THEN [valid |-> TRUE, digits |-> code.data.last4] ELSE None)
               /\ merged.institution = found.institution /\ merged.valid_until = found.valid_until
<1> DEFINE data == code.data
<1> DEFINE unborn == found.dob = None /\ found.year_of_birth = None
<1> DEFINE merged == Merged(found, code)
<1> DEFINE name == FirstOf(<<found.name, Qr!OrNone(data.name)>>)
<1> DEFINE four == IF data.last4 = None THEN None ELSE [valid |-> TRUE, digits |-> data.last4]
<1> DEFINE number == FirstOf(<<found.id_number, four>>)
<1>1. CASE code.certificate = None
  <2>1. merged = found
    BY <1>1 DEF Merged
  <2> QED
    BY <1>1, <2>1
<1>2. CASE code.certificate # None
  <2>1. merged = [found EXCEPT !.name = name, !.dob = IF unborn THEN data.dob ELSE @,
                               !.year_of_birth = IF unborn THEN data.year_of_birth ELSE @, !.id_number = number]
    BY <1>2 DEF Merged
  <2>2. name = IF found.name # None THEN found.name ELSE Qr!OrNone(data.name)
    BY FirstOfTwo
  <2>3. number = IF found.id_number # None THEN found.id_number ELSE four
    <3> HIDE DEF four
    <3> QED
      BY FirstOfTwo
  <2> HIDE DEF name, number, merged
  <2>4. /\ DOMAIN merged = FieldNames /\ merged.name = name /\ merged.id_number = number
        /\ merged.dob = (IF unborn THEN data.dob ELSE found.dob)
        /\ merged.year_of_birth = (IF unborn THEN data.year_of_birth ELSE found.year_of_birth)
        /\ merged.institution = found.institution /\ merged.valid_until = found.valid_until
    BY <2>1 DEF FieldNames
  <2> QED
    BY <1>2, <2>2, <2>3, <2>4 DEF merged
<1> QED
  BY <1>1, <1>2

\* What the lines give, with the answers once they are among what was read.
FoundIn(photograph, what) ==
    LET bare == extract_fields(photograph.lines, NoAnswers, photograph.type)
        wanted == missing_queries(bare, photograph.type)
    IN  IF "answers" \in what
        THEN extract_fields(photograph.lines, Answered(wanted, photograph.answers), photograph.type)
        ELSE bare

\* What the lines and the answers give: an answer counts when it was asked for.
LEMMA FoundFacts ==
    ASSUME NEW photograph \in Photographs, NEW what
    PROVE  LET bare == extract_fields(photograph.lines, NoAnswers, photograph.type)
               found == FoundIn(photograph, what)
               told(alias) == IF "answers" \in what /\ alias \in missing_queries(bare, photograph.type)
                              THEN photograph.answers[alias] ELSE None
               filled(v, w) == IF v # None THEN v ELSE w
           IN  /\ DOMAIN found = FieldNames
               /\ found.name = filled(bare.name, told("NAME"))
               /\ found.dob = filled(bare.dob, told("DOB"))
               /\ found.year_of_birth = IF found.dob = None THEN bare.year_of_birth ELSE None
               /\ found.id_number = filled(bare.id_number, told("ID_NUMBER"))
               /\ found.institution = filled(bare.institution, told("INSTITUTION"))
               /\ found.valid_until = filled(bare.valid_until, told("VALID_UNTIL"))
<1> DEFINE bare == extract_fields(photograph.lines, NoAnswers, photograph.type)
<1> DEFINE wanted == missing_queries(bare, photograph.type)
<1> DEFINE queries == IF "answers" \in what THEN Answered(wanted, photograph.answers) ELSE NoAnswers
<1> DEFINE found == extract_fields(photograph.lines, queries, photograph.type)
<1> DEFINE filled(v, w) == IF v # None THEN v ELSE w
<1>1. FoundIn(photograph, what) = found
  BY DEF FoundIn
<1>2. /\ DOMAIN found = FieldNames
      /\ found.name = filled(bare.name, queries.NAME)
      /\ found.dob = filled(bare.dob, queries.DOB)
      /\ found.year_of_birth = IF found.dob = None THEN bare.year_of_birth ELSE None
      /\ found.id_number = filled(bare.id_number, queries.ID_NUMBER)
      /\ found.institution = filled(bare.institution, queries.INSTITUTION)
      /\ found.valid_until = filled(bare.valid_until, queries.VALID_UNTIL)
  BY AnswersFillGaps
<1> HIDE DEF found, bare, wanted
<1>3. \A alias \in {"NAME", "DOB", "ID_NUMBER", "INSTITUTION", "VALID_UNTIL"} :
          queries[alias] = IF "answers" \in what /\ alias \in wanted THEN photograph.answers[alias] ELSE None
  BY AnsweredFacts
<1> HIDE DEF queries
<1> QED
  BY <1>1, <1>2, <1>3 DEF bare, wanted

\* What Textract told of each field: Told, question by question.
LEMMA ToldFacts ==
    LET open == missing_queries(extract_fields(photo.lines, NoAnswers, photo.type), photo.type)
        told(alias) == IF "answers" \in read /\ alias \in open THEN photo.answers[alias] ELSE None
    IN  /\ Told("name") = Valued({told("NAME")}) /\ Told("dob") = Valued({told("DOB")})
        /\ Told("id_number") = Valued({told("ID_NUMBER")}) /\ Told("institution") = Valued({told("INSTITUTION")})
        /\ Told("valid_until") = Valued({told("VALID_UNTIL")}) /\ Told("year_of_birth") = {}
<1> DEFINE open == missing_queries(extract_fields(photo.lines, NoAnswers, photo.type), photo.type)
<1>1. \A alias \in open : alias \in {"NAME", "DOB", "ID_NUMBER", "INSTITUTION", "VALID_UNTIL"}
  BY MissingFacts
<1>2. \A f : Told(f) = IF "answers" \in read
                       THEN Valued({ photo.answers[alias] : alias \in { a \in open : FieldOf[a] = f } }) ELSE {}
  BY DEF Told
<1>3. /\ FieldOf["NAME"] = "name" /\ FieldOf["DOB"] = "dob" /\ FieldOf["ID_NUMBER"] = "id_number"
      /\ FieldOf["INSTITUTION"] = "institution" /\ FieldOf["VALID_UNTIL"] = "valid_until"
  BY DEF FieldOf
<1> HIDE DEF open
<1>4. \A alias \in {"NAME", "DOB", "ID_NUMBER", "INSTITUTION", "VALID_UNTIL"} :
          { a \in open : FieldOf[a] = FieldOf[alias] } = IF alias \in open THEN {alias} ELSE {}
  BY <1>1, <1>3
<1>5. { a \in open : FieldOf[a] = "year_of_birth" } = {}
  BY <1>1, <1>3
<1>6. \A alias \in {"NAME", "DOB", "ID_NUMBER", "INSTITUTION", "VALID_UNTIL"} :
          Told(FieldOf[alias]) = Valued({ IF "answers" \in read /\ alias \in open THEN photo.answers[alias] ELSE None })
  BY <1>2, <1>4 DEF Valued
<1>7. Told("year_of_birth") = {}
  BY <1>2, <1>5 DEF Valued
<1> QED
  BY <1>3, <1>6, <1>7 DEF open

\* What each step leaves is a function of the photograph and of what was read, whichever of the two
\* threads is first: the inductive invariant of the extract check (checks/extract.py:44-106).
ReadingInv ==
    /\ photo \in Photographs
    /\ read \subseteq {"text", "qr", "answers"} /\ stage \in {"reading", "asking", "merging", "done"}
    /\ stage # "reading" => {"text", "qr"} \subseteq read
    /\ "answers" \in read => stage \in {"merging", "done"}
    /\ qr = IF "qr" \in read THEN CodeRead(photo.texts) ELSE NoCode
    /\ fields = LET found == FoundIn(photo, read)
                IN  IF "text" \notin read THEN None ELSE IF stage = "done" THEN Merged(found, qr) ELSE found

\* Every step of the extract check keeps it.
THEOREM ReadingInvariant == ReadingSpec => []ReadingInv
<1>1. ReadingInit => ReadingInv
  BY DEF ReadingInit, ReadingInv
<1>2. ReadingInv /\ [ReadingNext]_readingVars => ReadingInv'
  <2>0. \A a, what : FoundIn(a, what) = IF "answers" \in what THEN FoundIn(a, {"answers"}) ELSE FoundIn(a, {})
    BY DEF FoundIn
  <2> SUFFICES ASSUME ReadingInv, [ReadingNext]_readingVars PROVE ReadingInv'
    OBVIOUS
  <2> USE DEF ReadingInv
  <2>1. CASE ReadText
    <3>1. "text" \notin read /\ "answers" \notin read /\ "answers" \notin read' /\ stage' = "reading" /\ photo' = photo
      BY <2>1 DEF ReadText
    <3>2. fields' = FoundIn(photo, {})
      BY <2>1 DEF ReadText, FoundIn
    <3>3. qr' = qr /\ ("qr" \in read' <=> "qr" \in read) /\ "text" \in read' /\ read' \subseteq {"text", "qr", "answers"}
      BY <2>1 DEF ReadText
    <3> QED
      BY <2>0, <3>1, <3>2, <3>3
  <2>2. CASE ReadQr
    <3>1. /\ "qr" \in read' /\ stage = "reading" /\ stage' = stage /\ photo' = photo /\ fields' = fields
          /\ qr' = CodeRead(photo.texts) /\ read' \subseteq {"text", "qr", "answers"}
          /\ \A what \in {"text", "answers"} : what \in read' <=> what \in read
      BY <2>2 DEF ReadQr
    <3> QED
      BY <2>0, <3>1
  <2>3. CASE BothRead
    <3>1. /\ read = {"text", "qr"} /\ stage = "reading" /\ stage' \in {"asking", "merging"}
          /\ photo' = photo /\ read' = read /\ fields' = fields /\ qr' = qr
      BY <2>3 DEF BothRead
    <3> QED
      BY <2>0, <3>1
  <2>4. CASE AskTextract
    <3>1. fields = FoundIn(photo, {}) /\ "answers" \notin read /\ stage = "asking" /\ {"text", "qr"} \subseteq read
      BY <2>0, <2>4 DEF AskTextract
    <3>2. fields' = FoundIn(photo, {"answers"})
      BY <2>4, <3>1 DEF AskTextract, FoundIn
    <3>3. /\ stage' = "merging" /\ photo' = photo /\ qr' = qr /\ "answers" \in read'
          /\ {"text", "qr"} \subseteq read' /\ read' \subseteq {"text", "qr", "answers"}
      BY <2>4, <3>1 DEF AskTextract
    <3> QED
      BY <2>0, <3>1, <3>2, <3>3
  <2>5. CASE TextractFails
    <3>1. /\ stage = "asking" /\ stage' = "merging"
          /\ photo' = photo /\ read' = read /\ fields' = fields /\ qr' = qr
      BY <2>5 DEF TextractFails
    <3> QED
      BY <2>0, <3>1
  <2>6. CASE MergeSignedQr
    <3>1. /\ stage = "merging" /\ stage' = "done" /\ fields' = Merged(fields, qr)
          /\ photo' = photo /\ read' = read /\ qr' = qr
      BY <2>6 DEF MergeSignedQr
    <3> QED
      BY <2>0, <3>1
  <2>7. CASE UNCHANGED readingVars
    BY <2>7 DEF readingVars
  <2> QED
    BY <2>1, <2>2, <2>3, <2>4, <2>5, <2>6, <2>7 DEF ReadingNext
<1> QED
  BY <1>1, <1>2, PTL DEF ReadingSpec

\* FieldsHaveEvidence for any photographs: every field comes from its best evidence, the lines before the
\* answers before a verified QR code, and is empty only without any (checks/extract.py:44-106,
\* documents/parse.py:77-317).
THEOREM FieldsAreEvidenced == ReadingSpec => []FieldsHaveEvidence
<1>1. ReadingInv => FieldsHaveEvidence
  <2> SUFFICES ASSUME ReadingInv, stage = "done"
               PROVE  /\ \A f \in DOMAIN fields :
                             IF fields[f] # None THEN fields[f] \in Evidence(f)
                             ELSE Evidence(f) = {} \/ (f = "year_of_birth" /\ fields.dob # None)
                      /\ "answers" \in read =>
                             \A alias \in missing_queries(fields, photo.type) : photo.answers[alias] = None
    BY DEF FieldsHaveEvidence
  <2> DEFINE bare == extract_fields(photo.lines, NoAnswers, photo.type)
  <2> DEFINE open == missing_queries(bare, photo.type)
  <2> DEFINE shown == Shown(photo.lines, photo.type)
  <2> DEFINE found == FoundIn(photo, read)
  <2> DEFINE told(alias) == IF "answers" \in read /\ alias \in open THEN photo.answers[alias] ELSE None
  <2> DEFINE verified == qr.certificate # None
  <2> DEFINE name == IF verified THEN Qr!OrNone(qr.data.name) ELSE None
  <2> DEFINE number == IF verified /\ qr.data.last4 # None THEN [valid |-> TRUE, digits |-> qr.data.last4] ELSE None
  <2> DEFINE filled(v, w) == IF v # None THEN v ELSE w
  <2>1. photo \in Photographs /\ fields = Merged(found, qr) /\ qr = CodeRead(photo.texts)
    BY DEF ReadingInv
  <2>2. /\ Picks(bare.name, shown.name) /\ Picks(bare.dob, shown.dob) /\ Picks(bare.id_number, shown.id_number)
        /\ Picks(bare.institution, shown.institution) /\ Picks(bare.valid_until, shown.valid_until)
        /\ bare.dob = None => Picks(bare.year_of_birth, shown.year_of_birth)
        /\ bare.dob # None => bare.year_of_birth = None
    BY <2>1, PhotographsAssumption, LinesAsShown DEF Photographed
  <2>3. /\ DOMAIN found = FieldNames
        /\ found.name = filled(bare.name, told("NAME"))
        /\ found.dob = filled(bare.dob, told("DOB"))
        /\ found.year_of_birth = IF found.dob = None THEN bare.year_of_birth ELSE None
        /\ found.id_number = filled(bare.id_number, told("ID_NUMBER"))
        /\ found.institution = filled(bare.institution, told("INSTITUTION"))
        /\ found.valid_until = filled(bare.valid_until, told("VALID_UNTIL"))
    BY <2>1, FoundFacts
  <2>4. verified => qr.data # None
    BY <2>1, CodeIsFaithful
  <2> DEFINE unborn == found.dob = None /\ found.year_of_birth = None
  <2> HIDE DEF found
  <2>5. /\ DOMAIN fields = FieldNames
        /\ fields.name = filled(found.name, name)
        /\ fields.dob = (IF unborn /\ verified THEN qr.data.dob ELSE found.dob)
        /\ fields.year_of_birth = (IF unborn /\ verified THEN qr.data.year_of_birth ELSE found.year_of_birth)
        /\ fields.id_number = filled(found.id_number, number)
        /\ fields.institution = found.institution /\ fields.valid_until = found.valid_until
    <3> DEFINE merged == Merged(found, qr)
    <3>1. /\ DOMAIN merged = FieldNames
          /\ merged.name = filled(found.name, name)
          /\ merged.dob = (IF unborn /\ verified THEN qr.data.dob ELSE found.dob)
          /\ merged.year_of_birth = (IF unborn /\ verified THEN qr.data.year_of_birth ELSE found.year_of_birth)
          /\ merged.id_number = filled(found.id_number, number)
          /\ merged.institution = found.institution /\ merged.valid_until = found.valid_until
      BY <2>3, <2>4, MergeFillsGaps
    <3> QED
      BY <2>1, <3>1
  <2>6. /\ Told("name") = Valued({told("NAME")}) /\ Told("dob") = Valued({told("DOB")})
        /\ Told("id_number") = Valued({told("ID_NUMBER")}) /\ Told("institution") = Valued({told("INSTITUTION")})
        /\ Told("valid_until") = Valued({told("VALID_UNTIL")}) /\ Told("year_of_birth") = {}
    BY ToldFacts
  <2>7. /\ Signed("name") = Valued({name}) /\ Signed("id_number") = Valued({number})
        /\ Signed("institution") = Valued({None}) /\ Signed("valid_until") = Valued({None})
        /\ Signed("dob") = Valued({ IF verified THEN qr.data.dob ELSE None })
        /\ Signed("year_of_birth") = Valued({ IF verified THEN qr.data.year_of_birth ELSE None })
    <3>0. Valued({None}) = {}
      BY DEF Valued
    <3>1. CASE ~verified
      BY <3>0, <3>1 DEF Signed
    <3>2. CASE verified
      <4>1. /\ Signed("name") = Valued({Qr!OrNone(qr.data.name)})
            /\ Signed("dob") = Valued({qr.data.dob}) /\ Signed("year_of_birth") = Valued({qr.data.year_of_birth})
            /\ Signed("institution") = {} /\ Signed("valid_until") = {}
        BY <3>2 DEF Signed
      <4>2. Signed("id_number") = Valued({ [valid |-> TRUE, digits |-> last4] : last4 \in Valued({qr.data.last4}) })
        BY <3>2 DEF Signed
      <4>3. Signed("id_number") = Valued({number})
        <5>1. CASE qr.data.last4 = None
          BY <3>2, <4>2, <5>1 DEF Valued
        <5>2. CASE qr.data.last4 # None
          <6>1. { [valid |-> TRUE, digits |-> last4] : last4 \in Valued({qr.data.last4}) } = {number}
            BY <3>2, <5>2 DEF Valued
          <6> QED
            BY <4>2, <6>1
        <5> QED
          BY <5>1, <5>2
      <4> QED
        BY <3>0, <3>2, <4>1, <4>3
    <3> QED
      BY <3>1, <3>2
  <2>8. /\ \A f \in {"name", "id_number", "institution", "valid_until"} :
               Evidence(f) = IF shown[f] # {} THEN shown[f] ELSE IF Told(f) # {} THEN Told(f) ELSE Signed(f)
        /\ \A f \in {"dob", "year_of_birth"} :
               Evidence(f) = IF shown[f] # {} THEN shown[f] ELSE IF Told(f) # {} THEN Told(f)
                             ELSE IF shown.dob \cup Told("dob") \cup shown.year_of_birth \cup Told("year_of_birth") # {}
                                  THEN {} ELSE Signed(f)
    <3> DEFINE births == {"dob", "year_of_birth"}
    <3> DEFINE born == UNION { shown[g] \cup Told(g) : g \in births }
    <3>1. \A f : Evidence(f) = IF shown[f] # {} THEN shown[f] ELSE IF Told(f) # {} THEN Told(f)
                               ELSE IF f \in births /\ born # {} THEN {} ELSE Signed(f)
      BY DEF Evidence
    <3> HIDE DEF shown
    <3>2. born = shown.dob \cup Told("dob") \cup shown.year_of_birth \cup Told("year_of_birth")
      OBVIOUS
    <3> HIDE DEF born
    <3> QED
      BY <3>1, <3>2
  <2> HIDE DEF bare, open, shown, told, name, number, verified
  <2>9. /\ Picks(fields.name, Evidence("name")) /\ Picks(fields.id_number, Evidence("id_number"))
        /\ Picks(fields.institution, Evidence("institution")) /\ Picks(fields.valid_until, Evidence("valid_until"))
    <3>1. /\ Picks(Filled(Filled(bare.name, told("NAME")), name), BestOf(shown.name, told("NAME"), name))
          /\ Picks(Filled(Filled(bare.id_number, told("ID_NUMBER")), number), BestOf(shown.id_number, told("ID_NUMBER"), number))
          /\ Picks(Filled(Filled(bare.institution, told("INSTITUTION")), None), BestOf(shown.institution, told("INSTITUTION"), None))
          /\ Picks(Filled(Filled(bare.valid_until, told("VALID_UNTIL")), None), BestOf(shown.valid_until, told("VALID_UNTIL"), None))
      BY <2>2, ThreeSources
    <3>2. /\ Evidence("name") = BestOf(shown.name, told("NAME"), name)
          /\ Evidence("id_number") = BestOf(shown.id_number, told("ID_NUMBER"), number)
          /\ Evidence("institution") = BestOf(shown.institution, told("INSTITUTION"), None)
          /\ Evidence("valid_until") = BestOf(shown.valid_until, told("VALID_UNTIL"), None)
      BY <2>6, <2>7, <2>8 DEF BestOf
    <3>3. /\ fields.name = Filled(Filled(bare.name, told("NAME")), name)
          /\ fields.id_number = Filled(Filled(bare.id_number, told("ID_NUMBER")), number)
          /\ fields.institution = Filled(Filled(bare.institution, told("INSTITUTION")), None)
          /\ fields.valid_until = Filled(Filled(bare.valid_until, told("VALID_UNTIL")), None)
      BY <2>3, <2>5 DEF Filled
    <3> QED
      BY <3>1, <3>2, <3>3
  <2>10. /\ Picks(fields.dob, Evidence("dob"))
         /\ Picks(fields.year_of_birth, Evidence("year_of_birth"))
              \/ (fields.year_of_birth = None /\ fields.dob # None)
    <3>1. CASE found.dob # None
      <4>1. fields.dob = found.dob /\ fields.year_of_birth = None
        BY <2>3, <2>5, <3>1
      <4>2. Picks(found.dob, Evidence("dob"))
        BY <2>2, <2>3, <2>6, <2>8, <3>1 DEF Picks, Valued
      <4> QED
        BY <3>1, <4>1, <4>2
    <3>2. CASE found.dob = None /\ found.year_of_birth # None
      <4>1. /\ bare.dob = None /\ told("DOB") = None /\ found.year_of_birth = bare.year_of_birth
            /\ fields.dob = None /\ fields.year_of_birth = found.year_of_birth
        BY <2>3, <2>5, <3>2
      <4>2. shown.dob = {} /\ Told("dob") = {} /\ bare.year_of_birth \in shown.year_of_birth
        BY <2>2, <2>6, <3>2, <4>1 DEF Picks, Valued
      <4>3. Evidence("dob") = {} /\ Evidence("year_of_birth") = shown.year_of_birth
        BY <2>8, <4>2
      <4> QED
        BY <3>2, <4>1, <4>2, <4>3 DEF Picks
    <3>3. CASE found.dob = None /\ found.year_of_birth = None
      <4>1. /\ bare.dob = None /\ told("DOB") = None /\ bare.year_of_birth = None
            /\ fields.dob = (IF verified THEN qr.data.dob ELSE None)
            /\ fields.year_of_birth = (IF verified THEN qr.data.year_of_birth ELSE None)
        BY <2>3, <2>5, <3>3
      <4>2. shown.dob = {} /\ Told("dob") = {} /\ shown.year_of_birth = {} /\ Told("year_of_birth") = {}
        BY <2>2, <2>6, <4>1 DEF Picks, Valued
      <4>3. Evidence("dob") = Signed("dob") /\ Evidence("year_of_birth") = Signed("year_of_birth")
        BY <2>8, <4>2
      <4> QED
        BY <2>7, <4>1, <4>3 DEF Picks, Valued
    <3> QED
      BY <3>1, <3>2, <3>3
  <2>11. ASSUME "answers" \in read, NEW alias \in missing_queries(fields, photo.type)
         PROVE  photo.answers[alias] = None
    <3>1. alias \in open => told(alias) = photo.answers[alias]
      BY <2>11 DEF told
    <3>2. alias \in open
      BY <2>3, <2>5, <2>11, MissingFacts DEF open
    <3>3. told(alias) = None
      BY <2>3, <2>5, <2>11, MissingFacts
    <3> QED
      BY <3>1, <3>2, <3>3
  <2>12. \A f \in FieldNames :
             IF fields[f] # None THEN fields[f] \in Evidence(f)
             ELSE Evidence(f) = {} \/ (f = "year_of_birth" /\ fields.dob # None)
    BY <2>9, <2>10 DEF FieldNames, Picks
  <2> QED
    BY <2>5, <2>11, <2>12
<1> QED
  BY <1>1, ReadingInvariant, PTL

\* SignedQrIsFaithful for any codes and keys: a certificate only for what the owner of its key has signed,
\* field by field, and always for what the owner of a loaded key has signed (secure_qr.py:62-175).
THEOREM SignedCodesSpeakTrue == ReadingSpec => []SignedQrIsFaithful
<1>1. ReadingInv => SignedQrIsFaithful
  <2> SUFFICES ASSUME ReadingInv, stage = "done"
               PROVE  /\ qr.certificate # None =>
                             \E signed \in Issued :
                                 /\ signed.key = qr.certificate
                                 /\ \A f \in DOMAIN signed.told : qr.data[f] = signed.told[f]
                      /\ \A signed \in { x \in Issued : photo.texts # <<>> /\ x.payload = photo.texts[1].payload } :
                             Contains(Certificates, signed.key) => qr.certificate = signed.key
    BY DEF SignedQrIsFaithful
  <2>1. photo \in Photographs /\ qr = CodeRead(photo.texts)
    BY DEF ReadingInv
  <2> QED
    BY <2>1, CodeIsFaithful
<1> QED
  BY <1>1, ReadingInvariant, PTL
==============================================================================
