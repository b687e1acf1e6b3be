---------------------------- MODULE PolicyStore ------------------------------
(***************************************************************************)
(* The rules of the events (table policies, put_policy, get_policy and     *)
(* list_policies in store/sqlite.py; the demo events that a process seeds  *)
(* when it starts, main.py).  A version is never changed, the newest is in *)
(* force, and the tenant of the newest owns the event.                     *)
(*                                                                         *)
(* Within a process put_policy is kept together by the lock; processes     *)
(* share the table only, and every statement commits alone.  Which rules   *)
(* a row holds is told by the process that put them.                       *)
(***************************************************************************)
EXTENDS Integers

CONSTANTS
    Events,
    Tenants,
    FirstTenant,     \* the first tenant of the key ring: owns the demo events
    Processes,
    MaxVersion,      \* bound: versions of an event
    Idle

ASSUME TenantsAssumption == FirstTenant \in Tenants
ASSUME VersionsAssumption == MaxVersion \in Nat

Rows == [event : Events, version : 1 .. MaxVersion, tenant : Tenants, by : Processes]
Publications ==
    [event : Events, tenant : Tenants, version : 0 .. MaxVersion, step : {"read", "insert", "audit"}]

ASSUME IdleAssumption == Idle \notin Publications

VARIABLES
    policies,      \* table policies: rows [event, version, tenant, by]
    publishing,    \* per process: the put_policy in progress, Idle between
    audited        \* policy.updated entries of the audit log

policyVars == <<policies, publishing, audited>>

Of(e) == { row \in policies : row.event = e }
Newest(e) == { row \in Of(e) : \A other \in Of(e) : other.version <= row.version }

\* (row["v"] or 0) + 1: the version after the newest.
Follows(v, e) == (Of(e) = {} /\ v = 1) \/ \E row \in Newest(e) : v = row.version + 1

\* get_policy(event_id, tenant): no row, or the newest if it is the tenant's.
get_policy(e, t) == { row \in Newest(e) : row.tenant = t }

PoliciesInit ==
    /\ policies = {}
    /\ publishing = [p \in Processes |-> Idle]
    /\ audited = {}

Publication(e, t, v, step) == [event |-> e, tenant |-> t, version |-> v, step |-> step]

Row(put, p) == [event |-> put.event, version |-> put.version, tenant |-> put.tenant, by |-> p]

\* put_policy: the newest version and its tenant are read.  An event of
\* another tenant is refused with 409.
ReadNewest(p, e, t) ==
    /\ \A row \in Newest(e) : row.tenant = t
    /\ \E v \in 1 .. MaxVersion :
           Follows(v, e) /\ publishing' = [publishing EXCEPT ![p] = Publication(e, t, v, "insert")]
    /\ UNCHANGED <<policies, audited>>

PutPolicy(p, e, t) == publishing[p] = Idle /\ ReadNewest(p, e, t)

\* A process that starts seeds the demo events that nobody has published.
SeedDemo(p, e) ==
    /\ publishing[p] = Idle /\ Of(e) = {}
    /\ publishing' = [publishing EXCEPT ![p] = Publication(e, FirstTenant, 0, "read")]
    /\ UNCHANGED <<policies, audited>>

PutDemo(p) ==
    /\ publishing[p] # Idle /\ publishing[p].step = "read"
    /\ ReadNewest(p, publishing[p].event, publishing[p].tenant)

\* Mutant: no primary key.
KeyFree_Always(e, v) == TRUE

\* PRIMARY KEY (event_id, version)
KeyFree(e, v) == \A row \in Of(e) : row.version # v

Insert(p) ==
    LET put == publishing[p]
    IN  /\ put # Idle /\ put.step = "insert" /\ KeyFree(put.event, put.version)
        /\ policies' = policies \cup {Row(put, p)}
        /\ publishing' = [publishing EXCEPT ![p] = Publication(put.event, put.tenant, put.version, "audit")]
        /\ UNCHANGED audited

\* Another process has inserted this version: IntegrityError, the call ends with 500.
\* A demo event that another tenant published in between ends with TenantConflictError.
Refused(p) ==
    LET put == publishing[p]
    IN  /\ put # Idle
        /\ \/ put.step = "insert" /\ ~KeyFree(put.event, put.version)
           \/ put.step = "read" /\ \E row \in Newest(put.event) : row.tenant # put.tenant
        /\ publishing' = [publishing EXCEPT ![p] = Idle]
        /\ UNCHANGED <<policies, audited>>

AuditUpdate(p) ==
    LET put == publishing[p]
    IN  /\ put # Idle /\ put.step = "audit"
        /\ audited' = audited \cup {Row(put, p)}
        /\ publishing' = [publishing EXCEPT ![p] = Idle]
        /\ UNCHANGED policies

\* The process ends between two statements.
StopPublishing(p) ==
    /\ publishing[p] # Idle
    /\ publishing' = [publishing EXCEPT ![p] = Idle]
    /\ UNCHANGED <<policies, audited>>

PoliciesNext ==
    \E p \in Processes :
        \/ \E e \in Events : SeedDemo(p, e) \/ \E t \in Tenants : PutPolicy(p, e, t)
        \/ PutDemo(p) \/ Insert(p) \/ Refused(p) \/ AuditUpdate(p) \/ StopPublishing(p)

PoliciesSpec == PoliciesInit /\ [][PoliciesNext]_policyVars

------------------------------------------------------------------------------
PoliciesTypeOK ==
    /\ policies \subseteq Rows
    /\ publishing \in [Processes -> Publications \cup {Idle}]
    /\ audited \subseteq Rows

\* However processes race, an event belongs to one tenant for good, has one set of
\* rules per version, and its versions have no gap; the audit log names no version
\* that does not exist.
PolicyHistory ==
    /\ \A row \in policies, other \in policies :
           row.event = other.event =>
               row.tenant = other.tenant /\ (row.version = other.version => row = other)
    /\ \A row \in policies : row.version > 1 =>
           \E other \in policies : other.event = row.event /\ other.version = row.version - 1
    /\ audited \subseteq policies
==============================================================================
