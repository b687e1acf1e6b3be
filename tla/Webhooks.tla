------------------------------ MODULE Webhooks -------------------------------
(***************************************************************************)
(* The webhooks that tell the platform of decisions (webhooks.py).  Every  *)
(* change that is announced (service.py, routes.py) gets a task of its     *)
(* own with the result as it was at that moment; the task tries four times *)
(* with growing delays, each try with a timeout.  Tasks live in memory and *)
(* nothing waits for them when the process ends.                           *)
(*                                                                         *)
(* The platform is outside: it may take what it is sent or not, answer     *)
(* anything or nothing, and a request may reach it after the sender has    *)
(* given up waiting.  The client follows no redirect, so an address that   *)
(* has moved ends a delivery of which nothing was taken.  Signatures and   *)
(* the texts of events are left out, and so is the sender without an       *)
(* address, which sends nothing.                                           *)
(***************************************************************************)
EXTENDS Integers

CONSTANTS
    Verifications,
    MaxChanges       \* bound: announced changes of a verification

ASSUME ChangesAssumption == MaxChanges \in Nat

\* RETRY_DELAYS: a first attempt and one after each delay.
Attempts == 4
Events == Verifications \X (1 .. MaxChanges)
Answers == {"accepted", "redirected", "rejected", "broken"}     \* 2xx, 3xx, 4xx, 5xx

VARIABLES
    changes,    \* per verification: the changes announced so far
    task,       \* per event: [step, attempt, answer]
    taken,      \* external: how often the platform has taken each event
    late        \* external: requests of each event on the wire that nobody waits for

webhookVars == <<changes, task, taken, late>>

Task(step, attempt, answer) == [step |-> step, attempt |-> attempt, answer |-> answer]
Unsent == Task("unsent", 0, "none")

WebhooksInit ==
    /\ changes = [v \in Verifications |-> 0]
    /\ task = [e \in Events |-> Unsent]
    /\ taken = [e \in Events |-> 0] /\ late = [e \in Events |-> 0]

Pending(e) == task[e].step \in {"asleep", "posted", "answered"}

\* send(event, result), in the step of the event loop that changed the result.
Announce(v) ==
    /\ changes[v] < MaxChanges
    /\ changes' = [changes EXCEPT ![v] = @ + 1]
    /\ task' = [task EXCEPT ![<<v, changes[v] + 1>>] = Task("asleep", 1, "none")]
    /\ UNCHANGED <<taken, late>>

\* The delay is over and the request goes out.
Post(e) ==
    /\ task[e].step = "asleep"
    /\ task' = [task EXCEPT ![e].step = "posted"]
    /\ UNCHANGED <<changes, taken, late>>

\* External: the platform takes the event or not, and answers.
Platform(e, answer) ==
    /\ task[e].step = "posted"
    /\ task' = [task EXCEPT ![e].step = "answered", ![e].answer = answer]
    /\ \/ answer \in {"accepted", "broken"} /\ taken' = [taken EXCEPT ![e] = @ + 1]
       \/ answer # "accepted" /\ taken' = taken
    /\ UNCHANGED <<changes, late>>

\* External: a request that nobody waits for reaches the platform, or never does.
Straggler(e) ==
    /\ late[e] > 0
    /\ late' = [late EXCEPT ![e] = @ - 1]
    /\ taken' = [taken EXCEPT ![e] = @ + 1] \/ taken' = taken
    /\ UNCHANGED <<changes, task>>

\* response.status_code < 500
Final(answer) == answer # "broken"

\* Mutants: the attempts are not counted; one more than there are delays for.
Again_Forever(e) == Task("asleep", task[e].attempt, "none")
Again_OneMore(e) ==
    IF task[e].attempt <= Attempts THEN Task("asleep", task[e].attempt + 1, "none")
    ELSE Task("given_up", task[e].attempt, "none")

\* The next attempt, if one is left.
Again(e) ==
    IF task[e].attempt < Attempts THEN Task("asleep", task[e].attempt + 1, "none")
    ELSE Task("given_up", task[e].attempt, "none")

\* The answer has come back.
Heard(e) ==
    /\ task[e].step = "answered"
    /\ task' = [task EXCEPT ![e] = IF Final(task[e].answer) THEN [task[e] EXCEPT !.step = "done"] ELSE Again(e)]
    /\ UNCHANGED <<changes, taken, late>>

\* httpx.HTTPError: no connection, no answer in five seconds, or the answer is lost.
Unheard(e) ==
    /\ task[e].step \in {"posted", "answered"}
    /\ task' = [task EXCEPT ![e] = Again(e)]
    /\ late' = IF task[e].step = "posted" THEN [late EXCEPT ![e] = @ + 1] ELSE late
    /\ UNCHANGED <<changes, taken>>

\* The process ends, by order or by a crash: the tasks are gone.
ProcessEnds ==
    LET open == { e \in Events : Pending(e) }
    IN  /\ open # {}
        /\ task' = [e \in Events |-> IF e \in open THEN [task[e] EXCEPT !.step = "lost"] ELSE task[e]]
        /\ late' = [e \in Events |-> IF task[e].step = "posted" THEN late[e] + 1 ELSE late[e]]
        /\ UNCHANGED <<changes, taken>>

WebhooksNext ==
    \/ \E v \in Verifications : Announce(v)
    \/ \E e \in Events : \/ Post(e) \/ Heard(e) \/ Unheard(e) \/ Straggler(e)
                         \/ \E answer \in Answers : Platform(e, answer)
    \/ ProcessEnds

WebhooksSpec == WebhooksInit /\ [][WebhooksNext]_webhookVars

------------------------------------------------------------------------------
\* A retry repeats an event at most three times, whenever its requests arrive: an attempt that
\* was given up as unheard may still reach the platform after the next one, after the last
\* one, or after the process is gone, but what has arrived and what is still on the wire never
\* exceeds the four attempts of RETRY_DELAYS (webhooks.py:20, 55).
RepeatsAreBounded == \A e \in Events : taken[e] + late[e] <= Attempts

\* Every announced event comes to an end, whatever the platform answers and when it stays
\* silent: its sender has heard of it, has given up or is gone.
EveryEventEnds == \A e \in Events : Pending(e) ~> ~Pending(e)
==============================================================================
