--------------------------- MODULE DecisionRecord ----------------------------
(***************************************************************************)
(* What the service promises about the record of one verification and its  *)
(* pass, whatever the order of handlers, threads and crashes: the machine  *)
(* decides once; a duplicate found later is marked once and takes an       *)
(* automatic VERIFIED back to a person; a person's decision is changed by  *)
(* people only; a pass is issued at most once, for an automatic VERIFIED   *)
(* that nothing speaks against, and a revoked pass never comes back.       *)
(***************************************************************************)
CONSTANTS Verifications, MachineDecisions, PersonDecisions

VARIABLES record, pass

Blank == [decision |-> "none", flagged |-> FALSE, person |-> FALSE, erased |-> FALSE]

Init ==
    /\ record = [v \in Verifications |-> Blank]
    /\ pass = [v \in Verifications |-> "none"]

Decided(v) == record[v].decision # "none"

Decide(v) ==
    /\ ~Decided(v)
    /\ \E decision \in MachineDecisions :
           record' = [record EXCEPT ![v].decision = decision]
    /\ UNCHANGED pass

Flag(v) ==
    /\ Decided(v) /\ ~record[v].flagged
    /\ record' = [record EXCEPT
           ![v].flagged = TRUE,
           ![v].decision = IF ~record[v].person /\ @ = "verified" THEN "needs_review" ELSE @]
    /\ UNCHANGED pass

Rule(v) ==
    /\ Decided(v)
    /\ \E decision \in PersonDecisions :
           record' = [record EXCEPT ![v].decision = decision, ![v].person = TRUE]
    /\ UNCHANGED pass

Redact(v) ==
    /\ Decided(v)
    /\ record' = [record EXCEPT ![v].erased = TRUE]
    /\ UNCHANGED pass

Issue(v) ==
    /\ pass[v] = "none"
    /\ record[v] = [Blank EXCEPT !.decision = "verified"]
    /\ pass' = [pass EXCEPT ![v] = "active"]
    /\ UNCHANGED record

Revoke(v) ==
    /\ pass[v] = "active"
    /\ pass' = [pass EXCEPT ![v] = "revoked"]
    /\ UNCHANGED record

\* A step that changes something is one of these; one that changes nothing is a stutter.
Next ==
    /\ <<record, pass>>' # <<record, pass>>
    /\ \E v \in Verifications :
           Decide(v) \/ Flag(v) \/ Rule(v) \/ Redact(v) \/ Issue(v) \/ Revoke(v)

Spec == Init /\ [][Next]_<<record, pass>>
==============================================================================
