------------------------ MODULE MCVerificationService ------------------------
(***************************************************************************)
(* Small instances of VerificationService for TLC: a table of calls with   *)
(* what each carries, and a few ledgers that lead to every decision.       *)
(***************************************************************************)
EXTENDS VerificationService

CONSTANTS a, b, c3, p     \* calls: three documents, one use of a's pass
CONSTANTS retry           \* the key shared by the calls of a client that retries

Enforced == [min |-> CONSISTENT, enforced |-> TRUE, accept |-> TRUE, issue |-> TRUE]
Strict   == [Enforced EXCEPT !.min = PROVEN]

Call(registration, name, key, ids, image, face, source, policy) ==
    [ registration |-> registration, name |-> name, key |-> key, subject |-> "account",
      ids |-> ids, image |-> image, face |-> face, device |-> NoKey,
      pass |-> source, policy |-> policy ]

\* a and b show the same ID card under two names; c3 is a third person with a's face
\* on another card; p is a's owner registering elsewhere with the pass.
DuplicateCalls ==
    [ c \in Calls |->
        CASE c = a  -> Call("r1", "asha",  NoKey, {"id1"}, NoKey, "f1", Nobody, Enforced)
          [] c = b  -> Call("r2", "bilal", NoKey, {"id1"}, NoKey, NoKey, Nobody, Enforced)
          [] c = c3 -> Call("r3", "chen",  NoKey, {"id3"}, NoKey, "f1", Nobody, Enforced)
          [] c = p  -> Call("r4", "asha",  NoKey, {}, NoKey, NoKey, a, Enforced) ]

\* b is a's retry: the same registration, the same key.
RetryCalls ==
    [ c \in Calls |->
        CASE c = a  -> Call("r1", "asha", retry, {"id1"}, NoKey, NoKey, Nobody, Enforced)
          [] c = b  -> Call("r1", "asha", retry, {"id1"}, NoKey, NoKey, Nobody, Enforced)
          [] c = c3 -> Call("r3", "chen", NoKey, {"id1"}, "img", NoKey, Nobody, Enforced)
          [] c = p  -> Call("r4", "asha", retry, {}, NoKey, NoKey, a, Strict) ]

Ok == result("pass", {}, UNUSABLE)
Clean == [ name \in {"quality", "extract", "document_rules", "identity", "eligibility"} |-> Ok ]
TooYoung == [ Clean EXCEPT !["eligibility"] = result("fail", {"AGE_BELOW_MIN_CONFIRMED"}, UNUSABLE) ]
PassOk == [ name \in {"identity", "eligibility"} |-> Ok ]

CleanLedgers == [ c \in Calls |-> IF c \in PassCalls THEN {PassOk} ELSE {Clean} ]
AgedLedgers ==
    [ c \in Calls |-> CleanLedgers[c] \cup IF c = b THEN {TooYoung} ELSE {} ]
==============================================================================
