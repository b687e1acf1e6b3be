------------------------------ MODULE Gateway --------------------------------
(***************************************************************************)
(* What stands between a caller and the checks: the API key and its role   *)
(* (api/deps.py, security.py), the rate limit, and the rules of the event  *)
(* as create_verification and verify_with_pass read them (api/routes.py).   *)
(* Composes the token buckets of every process (RateLimiter) with the      *)
(* table of rules that the processes share (PolicyStore).                  *)
(*                                                                         *)
(* Left out: the idempotency key (VerificationService) and the queue's     *)
(* order (VerificationQueue); that the upload or the queue refuses a call  *)
(* is a choice.                                                            *)
(***************************************************************************)
EXTENDS RateLimiter, PolicyStore

CONSTANTS
    Principal      \* per call: [tenant, role, process, event]

Roles == {"platform", "reviewer", "admin"}

ASSUME PrincipalAssumption ==
    /\ Principal \in [Calls -> [tenant : Tenants, role : Roles, process : Processes, event : Events]]
    \* A bucket belongs to a key, hence to a tenant and a role, on one process.
    /\ \A c \in Calls, d \in Calls :
           KeyOf[c] = KeyOf[d] =>
               /\ Principal[c].process = Principal[d].process
               /\ Principal[c].tenant = Principal[d].tenant /\ Principal[c].role = Principal[d].role

VARIABLE
    call           \* per call: [state, seen, used]; seen is history: the rules in force when it arrived

gatewayVars == <<limiterVars, policyVars, call>>

\* ROLE_PERMISSIONS: who may submit.
MayVerify == {"platform", "admin"}

New == [state |-> "new", seen |-> {}, used |-> {}]
Gone == [state |-> "refused", seen |-> {}, used |-> {}]

GatewayInit ==
    /\ LimiterInit /\ PoliciesInit
    /\ call = [c \in Calls |-> New]

Refuse(c) == call' = [call EXCEPT ![c] = Gone]

\* authenticate, require(VERIFY): the call comes to the limiter.
Arrive(c) ==
    /\ call[c] = New /\ Principal[c].role \in MayVerify
    /\ ReadClock(c)
    /\ call' = [call EXCEPT ![c] = [state |-> "asking", seen |-> Newest(Principal[c].event), used |-> {}]]
    /\ UNCHANGED policyVars

\* require(VERIFY): 403 before the limiter is asked.
Forbid(c) ==
    /\ call[c] = New /\ Principal[c].role \notin MayVerify
    /\ Refuse(c)
    /\ UNCHANGED <<limiterVars, policyVars>>

Admit(c) ==
    /\ call[c].state = "asking" /\ Grant(c)
    /\ call' = [call EXCEPT ![c].state = "admitted"]
    /\ UNCHANGED policyVars

TooMany(c) == call[c].state = "asking" /\ Deny(c) /\ Refuse(c) /\ UNCHANGED policyVars

\* Mutant: the rules are those of the first version.
Rules_First(c) == { row \in Of(Principal[c].event) : row.version = 1 /\ row.tenant = Principal[c].tenant }

Rules(c) == get_policy(Principal[c].event, Principal[c].tenant)

\* _policy: the rules are kept for the job.
ReadRules(c) ==
    /\ call[c].state = "admitted" /\ Rules(c) # {}
    /\ call' = [call EXCEPT ![c].state = "queued", ![c].used = Rules(c)]
    /\ UNCHANGED <<limiterVars, policyVars>>

\* The upload was read meanwhile, and the job has waited in the queue.
Decide(c) ==
    /\ call[c].state = "queued"
    /\ call' = [call EXCEPT ![c].state = "decided"]
    /\ UNCHANGED <<limiterVars, policyVars>>

\* 422 for what was sent or without consent, 404 without rules of the caller's tenant; then
\* 413 or 415 for the files, and 429 from the queue.
Decline(c) ==
    /\ call[c].state \in {"admitted", "queued"}
    /\ Refuse(c)
    /\ UNCHANGED <<limiterVars, policyVars>>

\* The clock and the publications of the processes go on.
Others ==
    \/ (\E d \in Delays : Tick(d)) /\ UNCHANGED <<policyVars, call>>
    \/ PoliciesNext /\ UNCHANGED <<limiterVars, call>>

\* A process ends: its buckets, its calls and its publication are gone.
Crash(p) ==
    LET mine == { c \in Calls : Principal[c].process = p }
        open == { c \in mine : call[c].state \in {"asking", "admitted", "queued"} }
    IN  /\ open # {}
        /\ Forget({ KeyOf[c] : c \in mine }, mine)
        /\ StopPublishing(p) \/ (publishing[p] = Idle /\ UNCHANGED policyVars)
        /\ call' = [c \in Calls |-> IF c \in open THEN Gone ELSE call[c]]

GatewayNext ==
    \/ \E c \in Calls : \/ Arrive(c) \/ Forbid(c) \/ Admit(c) \/ TooMany(c)
                        \/ ReadRules(c) \/ Decide(c) \/ Decline(c)
    \/ Others
    \/ \E p \in Processes : Crash(p)

GatewaySpec == GatewayInit /\ [][GatewayNext]_gatewayVars

------------------------------------------------------------------------------
\* A call is decided by one set of rules: its own tenant's, of a version that was in force
\* between its arrival and now, although rules are published while it waits.
DecidedByRulesInForce ==
    \A c \in Calls :
        call[c].state = "decided" =>
            /\ Principal[c].role \in MayVerify
            /\ \E row \in policies :
                   /\ call[c].used = {row}
                   /\ row.event = Principal[c].event /\ row.tenant = Principal[c].tenant
                   /\ \A old \in call[c].seen : old.version <= row.version
==============================================================================
