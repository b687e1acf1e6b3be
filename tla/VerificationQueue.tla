-------------------------- MODULE VerificationQueue --------------------------
(***************************************************************************)
(* The bounded work queue of one process (pipeline/queue.py) and the calls *)
(* of POST /v1/verifications that wait on it (api/routes.py).  Everything  *)
(* here runs on one asyncio loop and each action is what happens between   *)
(* two awaits.  What a job does while it runs is VerificationService; here *)
(* it ends with a result or an exception.                                  *)
(***************************************************************************)
EXTENDS Integers, FiniteSets, SequencesExt

CONSTANTS
    Jobs,            \* the jobs ever submitted (a bound: each is submitted once)
    Workers,         \* Settings.workers
    Size,            \* Settings.queue_size
    MaxRemembered    \* MAX_REMEMBERED_JOBS

ASSUME QueueAssumption ==
    /\ IsFiniteSet(Jobs)
    /\ Workers \in Nat \ {0} /\ Size \in Nat \ {0} /\ MaxRemembered \in Nat \ {0}

VARIABLES
    state,     \* of each job, as it is
    waiting,   \* the jobs in asyncio.Queue, first in first out
    running,   \* the jobs held by a worker
    memory,    \* _jobs: what is remembered of the jobs, least recently updated first
    caller,    \* what the caller of each job has received
    stopped    \* stop() was called

vars == <<state, waiting, running, memory, caller, stopped>>

Ended == {"done", "failed"}
States == {"new", "refused", "queued", "running", "lost"} \cup Ended
Callers == {"none", "waits", "too_many", "accepted", "result", "error"}
Entries == [job : Jobs, status : {"queued", "running"} \cup Ended]

TypeOK ==
    /\ state \in [Jobs -> States]
    /\ waiting \in Seq(Jobs) /\ running \subseteq Jobs
    /\ memory \in Seq(Entries)
    /\ caller \in [Jobs -> Callers]
    /\ stopped \in BOOLEAN

Init ==
    /\ state = [j \in Jobs |-> "new"]
    /\ waiting = <<>> /\ running = {} /\ memory = <<>>
    /\ caller = [j \in Jobs |-> "none"]
    /\ stopped = FALSE

------------------------------------------------------------------------------
\* The job's entry, if it has one, moves to the end of the ordered dict.
Moved(j, status) ==
    Append(RemoveFirstMatch(memory, LAMBDA e : e.job = j), [job |-> j, status |-> status])

\* Mutant: the limit is taken for the number of entries before the new one.
_remember_TooFew(j, status) ==
    IF Len(Moved(j, status)) >= MaxRemembered THEN Tail(Moved(j, status)) ELSE Moved(j, status)

\* _remember: ... and the oldest is forgotten.
_remember(j, status) ==
    IF Len(Moved(j, status)) > MaxRemembered THEN Tail(Moved(j, status)) ELSE Moved(j, status)

\* Mutant: one more than maxsize is let in.
Full_OffByOne == Len(waiting) > Size

Full == Len(waiting) >= Size

\* submit, and what create_verification answers at once; sync callers stay.
Submit(j) ==
    /\ ~stopped /\ state[j] = "new" /\ ~Full
    /\ state' = [state EXCEPT ![j] = "queued"]
    /\ waiting' = Append(waiting, j)
    /\ memory' = _remember(j, "queued")
    /\ \E mode \in {"waits", "accepted"} : caller' = [caller EXCEPT ![j] = mode]
    /\ UNCHANGED <<running, stopped>>

\* QueueFullError: 429 with Retry-After.
Refuse(j) ==
    /\ ~stopped /\ state[j] = "new" /\ Full
    /\ state' = [state EXCEPT ![j] = "refused"]
    /\ caller' = [caller EXCEPT ![j] = "too_many"]
    /\ UNCHANGED <<waiting, running, memory, stopped>>

\* A worker that is free gets the first job.
Take ==
    /\ ~stopped /\ waiting # <<>> /\ Cardinality(running) < Workers
    /\ LET j == Head(waiting) IN
       /\ state' = [state EXCEPT ![j] = "running"]
       /\ running' = running \cup {j}
       /\ memory' = _remember(j, "running")
    /\ waiting' = Tail(waiting)
    /\ UNCHANGED <<caller, stopped>>

\* Mutant: a worker ends with the exception of its job.
Released_OnlyIfDone(j, status) == IF status = "done" THEN running \ {j} ELSE running

Released(j, status) == running \ {j}

\* task.run() returned or raised: remember it, set the future, free the worker.
Finish(j, status) ==
    /\ ~stopped /\ j \in running /\ state[j] = "running"
    /\ state' = [state EXCEPT ![j] = status]
    /\ memory' = _remember(j, status)
    /\ running' = Released(j, status)
    /\ UNCHANGED <<waiting, caller, stopped>>

\* The caller wakes on its future.
Answer(j) ==
    /\ caller[j] = "waits" /\ state[j] \in Ended
    /\ caller' = [caller EXCEPT ![j] = IF state[j] = "done" THEN "result" ELSE "error"]
    /\ UNCHANGED <<state, waiting, running, memory, stopped>>

\* Mutant: wait_for without shield, which cancels what it waits for.
Timeout_Cancels(j) ==
    /\ caller[j] = "waits"
    /\ caller' = [caller EXCEPT ![j] = "accepted"]
    /\ state' = [state EXCEPT ![j] = IF @ \in Ended THEN @ ELSE "lost"]
    /\ waiting' = SelectSeq(waiting, LAMBDA k : k # j)
    /\ running' = running \ {j}
    /\ UNCHANGED <<memory, stopped>>

\* wait_for gives up and answers 202; the shielded job goes on.
Timeout(j) ==
    /\ caller[j] = "waits" /\ ~stopped
    /\ caller' = [caller EXCEPT ![j] = "accepted"]
    /\ UNCHANGED <<state, waiting, running, memory, stopped>>

\* stop(): the workers are cancelled, and with the process go the jobs they held
\* and the jobs waiting; connections still open are dropped.
Stop ==
    /\ ~stopped /\ stopped' = TRUE
    /\ state' = [j \in Jobs |-> IF state[j] \in {"queued", "running"} THEN "lost" ELSE state[j]]
    /\ waiting' = <<>> /\ running' = {}
    /\ caller' = [j \in Jobs |->
           IF caller[j] = "waits" /\ state[j] \notin Ended THEN "error" ELSE caller[j]]
    /\ UNCHANGED memory

Next ==
    \/ \E j \in Jobs : Submit(j) \/ Refuse(j) \/ Answer(j) \/ Timeout(j)
    \/ \E j \in Jobs, status \in Ended : Finish(j, status)
    \/ Take \/ Stop

Spec == Init /\ [][Next]_vars

\* The loop serves ready tasks in turn, and every verification ends: its checks
\* are finite computations.  Timeouts and callers need not come.
Fairness ==
    /\ WF_vars(Take)
    /\ \A j \in Jobs : /\ WF_vars(Answer(j))
                       /\ WF_vars(\E status \in Ended : Finish(j, status))
FairSpec == Spec /\ Fairness

------------------------------------------------------------------------------
(* Properties *)

\* GET /v1/jobs/{id}: the remembered status of a job, if it is remembered.
Remembered(j) == \E i \in 1 .. Len(memory) : memory[i].job = j
Polled(j) == memory[CHOOSE i \in 1 .. Len(memory) : memory[i].job = j].status

\* "Each process runs at most `workers` verifications at a time and holds at
\* most `queue_size` waiting" (queue.py:3), and remembers a bounded number of
\* jobs, none of them twice.
Bounded ==
    /\ TypeOK
    /\ Cardinality(running) <= Workers /\ Len(waiting) <= Size
    /\ Len(memory) <= MaxRemembered
    /\ \A i, k \in 1 .. Len(memory) : memory[i].job = memory[k].job => i = k

\* A job that waits is never forgotten, however many pass it on their way out,
\* as long as the memory holds twice the queue and the workers.
WaitingIsRemembered ==
    MaxRemembered >= 2 * Size + Workers - 1 =>
        \A j \in Jobs : state[j] = "queued" => Remembered(j)

\* What a poll answers is what happened, and so is what a caller was answered.
ToldTruth ==
    ~stopped => \A j \in Jobs :
        /\ Remembered(j) => Polled(j) = state[j]
        /\ caller[j] = "result" => state[j] = "done"
        /\ caller[j] = "error" => state[j] = "failed"
        /\ caller[j] = "accepted" => state[j] \in {"queued", "running"} \cup Ended

\* Everyone is served: an accepted job ends, unless the process is stopped - a job
\* that fails does not take its worker with it, and a caller that stops waiting does
\* not stop the job - and no caller waits for ever, whatever happens.
EveryoneIsServed ==
    \A j \in Jobs :
        /\ state[j] = "queued" ~> state[j] \in Ended \/ stopped
        /\ caller[j] = "waits" ~> caller[j] # "waits"
==============================================================================
