-------------------------- MODULE EventLoop_proofs ---------------------------
(***************************************************************************)
(* Proofs about two components that live on the one event loop of a        *)
(* process: the work queue, for every number of jobs and workers and every *)
(* size, and the webhooks, for every number of announced changes.          *)
(*                                                                         *)
(* A job that waits is remembered because only the jobs that were ahead of *)
(* it when it was submitted, and those behind it, can pass its entry.      *)
(***************************************************************************)
EXTENDS VerificationQueue, Webhooks, SequenceTheorems, FiniteSetTheorems, TLAPS

------------------------------------------------------------------------------
(* Webhooks *)

TaskRecords ==
    [ step : {"unsent", "asleep", "posted", "answered", "done", "given_up", "lost"},
      attempt : 0 .. Attempts, answer : Answers \cup {"none"} ]

\* The attempts of a task that have come to an end, in an answer or without one.
Over(t) == IF t.step \in {"asleep", "posted"} THEN t.attempt - 1 ELSE t.attempt

\* Each attempt that is over has left at most one request that was taken or is still on the
\* wire.  What the sender heard is what the platform did; a delivery that ended well was
\* answered by something final, and one that was given up has used all its attempts.
EventOK(t, got, wire) ==
    /\ IF t.step = "unsent" THEN t.attempt = 0 ELSE t.attempt >= 1
    /\ t.step = "given_up" => t.attempt = Attempts
    /\ got + wire <= Over(t)
    /\ t.step \in {"answered", "done"} /\ t.answer = "accepted" => got > 0
    /\ t.step = "done" => Final(t.answer)

WebhookInv ==
    /\ changes \in [Verifications -> 0 .. MaxChanges]
    /\ task \in [Events -> TaskRecords]
    /\ taken \in [Events -> Nat] /\ late \in [Events -> Nat]
    /\ \A v \in Verifications : \A n \in 1 .. MaxChanges :
           n > changes[v] => task[<<v, n>>] = Unsent
    /\ \A e \in Events : EventOK(task[e], taken[e], late[e])

LEMMA WebhookStart == WebhooksInit => WebhookInv
<1> SUFFICES ASSUME WebhooksInit PROVE WebhookInv
  OBVIOUS
<1>1. Unsent \in TaskRecords
  BY DEF Unsent, Task, TaskRecords, Attempts
<1>2. EventOK(Unsent, 0, 0)
  BY DEF EventOK, Unsent, Task, Over
<1>3. \A v \in Verifications : \A n \in 1 .. MaxChanges : <<v, n>> \in Events
  BY DEF Events
<1> HIDE DEF Unsent
<1> QED BY <1>1, <1>2, <1>3, ChangesAssumption DEF WebhooksInit, WebhookInv

\* What happens to one announced event disturbs no other.
LEMMA EventStep ==
    ASSUME WebhookInv, NEW e \in Events, task[e].step # "unsent",
           NEW t \in TaskRecords, EventOK(t, taken'[e], late'[e]),
           changes' = changes, task' = [task EXCEPT ![e] = t],
           taken' \in [Events -> Nat], late' \in [Events -> Nat],
           \A x \in Events : x # e => taken'[x] = taken[x] /\ late'[x] = late[x]
    PROVE  WebhookInv'
<1>1. changes' \in [Verifications -> 0 .. MaxChanges] /\ task' \in [Events -> TaskRecords]
  BY DEF WebhookInv
<1>2. ASSUME NEW v \in Verifications, NEW n \in 1 .. MaxChanges, n > changes'[v]
      PROVE  task'[<<v, n>>] = Unsent'
  <2>1. task[<<v, n>>] = Unsent /\ Unsent.step = "unsent"
    BY <1>2 DEF WebhookInv, Unsent, Task
  <2>2. <<v, n>> # e
    BY <2>1
  <2>3. task'[<<v, n>>] = task[<<v, n>>]
    BY <2>2 DEF WebhookInv, Events
  <2> QED BY <2>1, <2>3 DEF Unsent, Task
<1>3. ASSUME NEW x \in Events PROVE EventOK(task'[x], taken'[x], late'[x])
  <2>1. CASE x = e
    BY <2>1 DEF WebhookInv
  <2>2. CASE x # e
    BY <2>2 DEF WebhookInv
  <2> QED BY <2>1, <2>2
<1> QED BY <1>1, <1>2, <1>3 DEF WebhookInv, EventOK, Over, Final

LEMMA AgainIsTask ==
    ASSUME NEW e \in Events, task[e] \in TaskRecords, task[e].attempt >= 1
    PROVE  /\ Again(e) \in TaskRecords /\ Again(e).attempt >= 1
           /\ Again(e).step \in {"asleep", "given_up"}
           /\ Again(e).step = "given_up" => Again(e).attempt = Attempts
           /\ Over(Again(e)) = task[e].attempt
BY DEF Again, Task, Attempts, TaskRecords, Over

LEMMA WebhookStep == WebhookInv /\ [WebhooksNext]_webhookVars => WebhookInv'
<1> SUFFICES ASSUME WebhookInv, [WebhooksNext]_webhookVars PROVE WebhookInv'
  OBVIOUS
<1>0. ASSUME NEW e \in Events
      PROVE  /\ task[e] \in TaskRecords /\ taken[e] \in Nat /\ late[e] \in Nat
             /\ EventOK(task[e], taken[e], late[e])
  BY DEF WebhookInv
<1>a. taken \in [Events -> Nat] /\ late \in [Events -> Nat]
  BY DEF WebhookInv
<1>1. ASSUME NEW v \in Verifications, Announce(v) PROVE WebhookInv'
  <2> DEFINE n == changes[v] + 1
             new == Task("asleep", 1, "none")
  <2>1. changes[v] \in 0 .. MaxChanges /\ n \in 1 .. MaxChanges
    BY <1>1, ChangesAssumption DEF WebhookInv, Announce
  <2>2. <<v, n>> \in Events /\ task[<<v, n>>] = Unsent
    BY <2>1 DEF Events, WebhookInv
  <2>3. taken[<<v, n>>] + late[<<v, n>>] <= 0
    BY <1>0, <2>2 DEF EventOK, Over, Unsent, Task
  <2>4. new \in TaskRecords /\ EventOK(new, taken[<<v, n>>], late[<<v, n>>])
    BY <2>3 DEF Task, TaskRecords, Attempts, EventOK, Over
  <2>5. /\ changes' = [changes EXCEPT ![v] = n] /\ task' = [task EXCEPT ![<<v, n>>] = new]
        /\ taken' = taken /\ late' = late
    BY <1>1 DEF Announce
  <2> HIDE DEF n, new
  <2>6. changes' \in [Verifications -> 0 .. MaxChanges] /\ task' \in [Events -> TaskRecords]
    <3>1. n \in 0 .. MaxChanges
      BY <2>1, ChangesAssumption
    <3> QED BY <2>4, <2>5, <3>1 DEF WebhookInv
  <2>7. ASSUME NEW w \in Verifications, NEW m \in 1 .. MaxChanges, m > changes'[w]
        PROVE  task'[<<w, m>>] = Unsent
    <3>1. m > changes[w] /\ <<w, m>> # <<v, n>>
      BY <2>1, <2>5, <2>7 DEF WebhookInv, n
    <3>2. <<w, m>> \in Events
      BY DEF Events
    <3> QED BY <2>5, <3>1, <3>2 DEF WebhookInv
  <2>8. ASSUME NEW x \in Events PROVE EventOK(task'[x], taken'[x], late'[x])
    BY <1>0, <2>4, <2>5 DEF WebhookInv
  <2> QED BY <2>5, <2>6, <2>7, <2>8 DEF WebhookInv, EventOK, Over, Final, Unsent, Task
<1>2. ASSUME NEW e \in Events, Post(e) PROVE WebhookInv'
  <2> DEFINE t == [task[e] EXCEPT !.step = "posted"]
  <2>1. task[e].step = "asleep" /\ task' = [task EXCEPT ![e] = t] /\ UNCHANGED <<changes, taken, late>>
    BY <1>2 DEF Post
  <2>2. t \in TaskRecords /\ EventOK(t, taken[e], late[e])
    BY <1>0, <2>1 DEF TaskRecords, EventOK, Over
  <2> HIDE DEF t
  <2> QED BY <1>a, <2>1, <2>2, EventStep
<1>3. ASSUME NEW e \in Events, NEW answer \in Answers, Platform(e, answer) PROVE WebhookInv'
  <2> DEFINE t == [task[e] EXCEPT !.step = "answered", !.answer = answer]
  <2>1. /\ task[e].step = "posted" /\ task' = [task EXCEPT ![e] = t] /\ UNCHANGED <<changes, late>>
        /\ \/ taken' = [taken EXCEPT ![e] = taken[e] + 1]
           \/ answer # "accepted" /\ taken' = taken
    BY <1>3 DEF Platform
  <2>2. t \in TaskRecords
    BY <1>0 DEF TaskRecords
  <2>3. /\ taken[e] \in Nat /\ late[e] \in Nat /\ t.attempt \in Nat /\ t.attempt >= 1
        /\ taken[e] + late[e] <= t.attempt - 1
        /\ t.step = "answered" /\ t.answer = answer
    BY <1>0, <2>1 DEF TaskRecords, EventOK, Over, Attempts
  <2> HIDE DEF t
  <2>4. /\ taken' \in [Events -> Nat] /\ late' \in [Events -> Nat]
        /\ \A x \in Events : x # e => taken'[x] = taken[x] /\ late'[x] = late[x]
        /\ late'[e] = late[e]
        /\ \/ taken'[e] = taken[e] + 1
           \/ taken'[e] = taken[e] /\ answer # "accepted"
    <3>1. CASE taken' = [taken EXCEPT ![e] = taken[e] + 1]
      BY <1>a, <2>1, <2>3, <3>1
    <3>2. CASE answer # "accepted" /\ taken' = taken
      BY <1>a, <2>1, <3>2
    <3> QED BY <2>1, <3>1, <3>2
  <2>5. EventOK(t, taken'[e], late'[e])
    BY <2>3, <2>4 DEF EventOK, Over
  <2> QED BY <2>1, <2>2, <2>4, <2>5, EventStep
<1>4. ASSUME NEW e \in Events, Heard(e) PROVE WebhookInv'
  <2>1. UNCHANGED <<changes, taken, late>> /\ task[e].step = "answered"
    BY <1>4 DEF Heard
  <2>2. CASE Final(task[e].answer)
    <3> DEFINE t == [task[e] EXCEPT !.step = "done"]
    <3>1. task' = [task EXCEPT ![e] = t]
      BY <1>4, <2>2 DEF Heard
    <3>2. t \in TaskRecords /\ EventOK(t, taken[e], late[e])
      BY <1>0, <2>1, <2>2 DEF TaskRecords, EventOK, Over
    <3> HIDE DEF t
    <3> QED BY <1>a, <2>1, <3>1, <3>2, EventStep
  <2>3. CASE ~Final(task[e].answer)
    <3>1. task' = [task EXCEPT ![e] = Again(e)]
      BY <1>4, <2>3 DEF Heard
    <3>2. Again(e) \in TaskRecords /\ EventOK(Again(e), taken[e], late[e])
      BY <1>0, <2>1, AgainIsTask DEF EventOK, Over
    <3> QED BY <1>a, <2>1, <3>1, <3>2, EventStep
  <2> QED BY <2>2, <2>3
<1>5. ASSUME NEW e \in Events, Unheard(e) PROVE WebhookInv'
  <2> DEFINE wire == IF task[e].step = "posted" THEN late[e] + 1 ELSE late[e]
  <2>1. /\ task[e].step \in {"posted", "answered"} /\ task' = [task EXCEPT ![e] = Again(e)]
        /\ UNCHANGED <<changes, taken>> /\ late' = [late EXCEPT ![e] = wire]
    BY <1>5 DEF Unheard, WebhookInv
  <2>2. /\ wire \in Nat /\ Again(e) \in TaskRecords
        /\ EventOK(Again(e), taken[e], wire)
    BY <1>0, <2>1, AgainIsTask DEF EventOK, Over, TaskRecords
  <2> HIDE DEF wire
  <2>3. /\ taken' \in [Events -> Nat] /\ late' \in [Events -> Nat] /\ late'[e] = wire
        /\ \A x \in Events : x # e => taken'[x] = taken[x] /\ late'[x] = late[x]
    BY <1>a, <2>1, <2>2
  <2> QED BY <2>1, <2>2, <2>3, EventStep
<1>6. ASSUME NEW e \in Events, Straggler(e) PROVE WebhookInv'
  <2>1. /\ late[e] > 0 /\ late' = [late EXCEPT ![e] = late[e] - 1] /\ UNCHANGED <<changes, task>>
        /\ taken' = [taken EXCEPT ![e] = taken[e] + 1] \/ taken' = taken
    BY <1>6 DEF Straggler
  <2>2. /\ late[e] \in Nat /\ taken[e] \in Nat /\ late[e] - 1 \in Nat
        /\ taken[e] + late[e] <= Over(task[e]) /\ Over(task[e]) \in Int
    BY <1>0, <2>1 DEF EventOK, Over, TaskRecords, Attempts
  <2>3. task[e].step # "unsent"
    BY <1>0, <2>1, <2>2 DEF EventOK, Over
  <2>4. task' = [task EXCEPT ![e] = task[e]]
    BY <2>1 DEF WebhookInv
  <2>5. /\ taken' \in [Events -> Nat] /\ late' \in [Events -> Nat] /\ late'[e] = late[e] - 1
        /\ \A x \in Events : x # e => taken'[x] = taken[x] /\ late'[x] = late[x]
        /\ taken'[e] = taken[e] + 1 \/ taken'[e] = taken[e]
    BY <1>a, <2>1, <2>2
  <2>6. EventOK(task[e], taken'[e], late'[e])
    BY <1>0, <2>2, <2>5 DEF EventOK
  <2> QED BY <1>0, <2>1, <2>3, <2>4, <2>5, <2>6, EventStep
<1>7. ASSUME ProcessEnds PROVE WebhookInv'
  <2> DEFINE lost(e) == [task[e] EXCEPT !.step = "lost"]
             wire(e) == IF task[e].step = "posted" THEN late[e] + 1 ELSE late[e]
  <2>1. /\ task' = [e \in Events |-> IF Pending(e) THEN lost(e) ELSE task[e]]
        /\ late' = [e \in Events |-> wire(e)] /\ UNCHANGED <<changes, taken>>
    BY <1>7 DEF ProcessEnds
  <2>2. ASSUME NEW e \in Events
        PROVE  /\ task'[e] \in TaskRecords /\ late'[e] \in Nat
               /\ EventOK(task'[e], taken'[e], late'[e])
    <3>1. CASE Pending(e)
      BY <1>0, <2>1, <3>1 DEF Pending, TaskRecords, EventOK, Over
    <3>2. CASE ~Pending(e)
      BY <1>0, <2>1, <3>2 DEF Pending
    <3> QED BY <3>1, <3>2
  <2>3. ASSUME NEW v \in Verifications, NEW n \in 1 .. MaxChanges, n > changes'[v]
        PROVE  task'[<<v, n>>] = Unsent
    <3>1. <<v, n>> \in Events /\ task[<<v, n>>] = Unsent /\ Unsent.step = "unsent"
      BY <2>1, <2>3 DEF WebhookInv, Events, Unsent, Task
    <3> QED BY <2>1, <3>1 DEF Pending
  <2>4. /\ task' \in [Events -> TaskRecords] /\ late' \in [Events -> Nat]
    BY <2>1, <2>2
  <2> QED BY <2>1, <2>2, <2>3, <2>4 DEF WebhookInv, EventOK, Over, Final, Unsent, Task
<1>8. CASE UNCHANGED webhookVars
  BY <1>8 DEF webhookVars, WebhookInv, EventOK, Over, Final, Unsent, Task
<1> QED BY <1>1, <1>2, <1>3, <1>4, <1>5, <1>6, <1>7, <1>8 DEF WebhooksNext

\* Every attempt leaves at most one request that was taken or is on the wire, a delivery that
\* ended well was taken, turned away or redirected, and one that was given up was tried four
\* times (webhooks.py:53-69).
THEOREM WebhookInvariant == WebhooksSpec => []WebhookInv
BY WebhookStart, WebhookStep, PTL DEF WebhooksSpec

\* For any number of announced changes, no event is taken more often than it was attempted,
\* however late its requests arrive (webhooks.py:20, 55).
THEOREM WebhookRepeatsBounded == WebhooksSpec => []RepeatsAreBounded
<1>1. WebhookInv => RepeatsAreBounded
  <2> SUFFICES ASSUME WebhookInv, NEW e \in Events PROVE taken[e] + late[e] <= Attempts
    BY DEF RepeatsAreBounded
  <2> QED BY DEF WebhookInv, EventOK, Over, TaskRecords, Attempts
<1> QED BY <1>1, WebhookInvariant, PTL

------------------------------------------------------------------------------
(* The memory of jobs *)

JobStatuses == {"queued", "running"} \cup Ended

\* No job has two entries.
OneEntry(m) == \A i, k \in 1 .. Len(m) : m[i].job = m[k].job => i = k

\* A job has an entry that none but the allowed jobs have passed.
Passable(m, x, allowed) ==
    \E i \in 1 .. Len(m) : m[i].job = x /\ \A k \in i + 1 .. Len(m) : m[k].job \in allowed

\* m is the memory after an update of job j, whose entry was at a place of it or nowhere.
Skip(at, k) == IF k < at THEN k ELSE k + 1
UpdatedAt(m, j, status, at) ==
    /\ m \in Seq(Entries)
    /\ Len(m) = IF at <= Len(memory) THEN Len(memory) ELSE Len(memory) + 1
    /\ m[Len(m)] = [job |-> j, status |-> status]
    /\ \A k \in 1 .. Len(m) - 1 : Skip(at, k) \in 1 .. Len(memory) /\ m[k] = memory[Skip(at, k)]
    /\ \A i \in 1 .. Len(memory) : memory[i].job = j <=> i = at

\* An update leaves the entries of the other jobs in their order and puts the new one last.
LEMMA MovedFacts ==
    ASSUME memory \in Seq(Entries), OneEntry(memory), NEW j \in Jobs, NEW status \in JobStatuses
    PROVE  \E at \in 1 .. Len(memory) + 1 : UpdatedAt(Moved(j, status), j, status, at)
<1> DEFINE entry == [job |-> j, status |-> status]
           others == RemoveFirstMatch(memory, LAMBDA e : e.job = j)
           u == Moved(j, status)
<1>1. entry \in Entries /\ Len(memory) \in Nat
  BY LenProperties DEF Entries, JobStatuses
<1>2. u = Append(others, entry)
  BY DEF Moved
<1>3. CASE \E i \in 1 .. Len(memory) : memory[i].job = j
  <2>1. PICK at \in 1 .. Len(memory) : memory[at].job = j
    BY <1>3
  <2>2. \A i \in 1 .. Len(memory) : memory[i].job = j <=> i = at
    BY <2>1 DEF OneEntry
  <2>3. SelectInSeq(memory, LAMBDA e : e.job = j) = at
    <3>1. { i \in 1 .. Len(memory) : memory[i].job = j } = {at}
      BY <2>2
    <3>2. Min({at}) = at
      BY DEF Min
    <3> QED BY <3>1, <3>2 DEF SelectInSeq
  <2>4. others = SubSeq(memory, 1, at - 1) \o SubSeq(memory, at + 1, Len(memory))
    BY <1>3, <2>3 DEF RemoveFirstMatch, RemoveAt
  <2> DEFINE front == SubSeq(memory, 1, at - 1)
             rear == SubSeq(memory, at + 1, Len(memory))
  <2>5. /\ front \in Seq(Entries) /\ Len(front) = at - 1
        /\ \A k \in 1 .. at - 1 : front[k] = memory[k]
    <3>1. \A i \in 1 .. at - 1 : memory[i] \in Entries
      BY <1>1, ElementOfSeq
    <3> QED BY <1>1, <3>1, SubSeqProperties
  <2>6. /\ rear \in Seq(Entries) /\ Len(rear) = Len(memory) - at
        /\ \A k \in 1 .. Len(memory) - at : rear[k] = memory[at + k]
    <3>1. \A i \in at + 1 .. Len(memory) : memory[i] \in Entries
      BY <1>1, ElementOfSeq
    <3>2. /\ rear \in Seq(Entries)
          /\ Len(rear) = IF at + 1 <= Len(memory) THEN Len(memory) - (at + 1) + 1 ELSE 0
          /\ \A k \in 1 .. Len(memory) - (at + 1) + 1 : rear[k] = memory[at + 1 + k - 1]
      BY <1>1, <3>1, SubSeqProperties
    <3> HIDE DEF rear
    <3> QED BY <1>1, <3>2
  <2> HIDE DEF front, rear, others, entry, u
  <2>7. /\ others \in Seq(Entries) /\ Len(others) = Len(memory) - 1
        /\ \A k \in 1 .. Len(memory) - 1 : others[k] = memory[Skip(at, k)]
    <3>1. /\ others \in Seq(Entries) /\ Len(others) = Len(front) + Len(rear)
          /\ \A k \in 1 .. Len(front) + Len(rear) :
                 others[k] = IF k <= Len(front) THEN front[k] ELSE rear[k - Len(front)]
      BY <2>4, <2>5, <2>6, ConcatProperties DEF front, rear
    <3>2. Len(front) + Len(rear) = Len(memory) - 1
      BY <1>1, <2>5, <2>6
    <3>3. \A k \in 1 .. Len(memory) - 1 : others[k] = IF k <= at - 1 THEN front[k] ELSE rear[k - (at - 1)]
      BY <2>5, <3>1, <3>2
    <3>4. ASSUME NEW k \in 1 .. Len(memory) - 1 PROVE others[k] = memory[Skip(at, k)]
      <4>1. CASE k < at
        BY <1>1, <2>5, <3>3, <4>1 DEF Skip
      <4>2. CASE ~(k < at)
        <5>1. others[k] = rear[k - (at - 1)] /\ k - (at - 1) \in 1 .. Len(memory) - at
          BY <1>1, <3>3, <4>2
        <5>2. rear[k - (at - 1)] = memory[at + (k - (at - 1))] /\ at + (k - (at - 1)) = k + 1
          BY <1>1, <2>6, <5>1
        <5> QED BY <4>2, <5>1, <5>2 DEF Skip
      <4> QED BY <4>1, <4>2
    <3> QED BY <3>1, <3>2, <3>4
  <2>8. /\ u \in Seq(Entries) /\ Len(u) = Len(memory) /\ u[Len(memory)] = entry
        /\ \A k \in 1 .. Len(memory) - 1 : u[k] = others[k]
    BY <1>1, <1>2, <2>7, AppendProperties
  <2>9. \A k \in 1 .. Len(memory) - 1 : Skip(at, k) \in 1 .. Len(memory)
    BY <1>1 DEF Skip
  <2>10. UpdatedAt(u, j, status, at)
    <3>1. u \in Seq(Entries) /\ Len(u) = Len(memory) /\ at <= Len(memory)
      BY <1>1, <2>8
    <3>2. u[Len(u)] = [job |-> j, status |-> status]
      BY <2>8, <3>1 DEF entry
    <3>3. ASSUME NEW k \in 1 .. Len(u) - 1
          PROVE  Skip(at, k) \in 1 .. Len(memory) /\ u[k] = memory[Skip(at, k)]
      <4>1. k \in 1 .. Len(memory) - 1
        BY <3>1
      <4> QED BY <2>7, <2>8, <2>9, <4>1
    <3> QED BY <2>2, <3>1, <3>2, <3>3 DEF UpdatedAt
  <2>11. at \in 1 .. Len(memory) + 1
    BY <1>1
  <2> QED BY <2>10, <2>11 DEF u
<1>4. CASE ~\E i \in 1 .. Len(memory) : memory[i].job = j
  <2>1. others = memory
    BY <1>4 DEF RemoveFirstMatch
  <2> HIDE DEF others, entry, u
  <2>2. /\ u \in Seq(Entries) /\ Len(u) = Len(memory) + 1 /\ u[Len(memory) + 1] = entry
        /\ \A k \in 1 .. Len(memory) : u[k] = memory[k]
    BY <1>1, <1>2, <2>1, AppendProperties
  <2>3. \A i \in 1 .. Len(memory) : memory[i].job = j <=> i = Len(memory) + 1
    BY <1>1, <1>4
  <2>4. \A k \in 1 .. Len(memory) : Skip(Len(memory) + 1, k) = k
    BY <1>1 DEF Skip
  <2>5. UpdatedAt(u, j, status, Len(memory) + 1)
    <3>1. u \in Seq(Entries) /\ Len(u) = Len(memory) + 1 /\ ~(Len(memory) + 1 <= Len(memory))
      BY <1>1, <2>2
    <3>2. u[Len(u)] = [job |-> j, status |-> status]
      BY <2>2, <3>1 DEF entry
    <3>3. ASSUME NEW k \in 1 .. Len(u) - 1
          PROVE  /\ Skip(Len(memory) + 1, k) \in 1 .. Len(memory)
                 /\ u[k] = memory[Skip(Len(memory) + 1, k)]
      <4>1. k \in 1 .. Len(memory)
        BY <1>1, <3>1
      <4> QED BY <2>2, <2>4, <4>1
    <3> QED BY <2>3, <3>1, <3>2, <3>3 DEF UpdatedAt
  <2>6. Len(memory) + 1 \in 1 .. Len(memory) + 1
    BY <1>1
  <2> QED BY <2>5, <2>6 DEF u
<1> QED BY <1>3, <1>4

\* Forgetting the oldest forgets no job that few enough others may pass.
LEMMA TailPassable ==
    ASSUME NEW u \in Seq(Entries), OneEntry(u), NEW x, NEW allowed, IsFiniteSet(allowed),
           Cardinality(allowed) < MaxRemembered, Len(u) = MaxRemembered + 1,
           Passable(u, x, allowed)
    PROVE  Passable(Tail(u), x, allowed)
<1>1. MaxRemembered \in Nat \ {0} /\ Cardinality(allowed) \in Nat
  BY QueueAssumption, FS_CardinalityType
<1>2. Len(Tail(u)) = Len(u) - 1 /\ \A k \in 1 .. Len(u) - 1 : Tail(u)[k] = u[k + 1]
  BY <1>1, HeadTailProperties, EmptySeq
<1>3. PICK i \in 1 .. Len(u) : u[i].job = x /\ \A k \in i + 1 .. Len(u) : u[k].job \in allowed
  BY DEF Passable
<1>4. CASE i # 1
  <2>1. i - 1 \in 1 .. Len(u) - 1 /\ Tail(u)[i - 1] = u[i]
    BY <1>1, <1>2, <1>4
  <2>2. \A k \in i .. Len(u) - 1 : Tail(u)[k].job \in allowed
    BY <1>1, <1>2, <1>3
  <2>3. \A k \in (i - 1) + 1 .. Len(Tail(u)) : Tail(u)[k].job \in allowed
    BY <1>1, <1>2, <2>2
  <2>4. i - 1 \in 1 .. Len(Tail(u)) /\ Tail(u)[i - 1].job = x
    BY <1>1, <1>2, <1>3, <2>1
  <2> QED BY <2>3, <2>4 DEF Passable
<1>5. CASE i = 1
  <2> DEFINE f == [k \in 2 .. Len(u) |-> u[k].job]
  <2>1. f \in [2 .. Len(u) -> allowed]
    BY <1>3, <1>5
  <2>2. IsFiniteSet(2 .. Len(u)) /\ Cardinality(2 .. Len(u)) = MaxRemembered
    BY <1>1, FS_Interval
  <2>3. \E k, l \in 2 .. Len(u) : k # l /\ f[k] = f[l]
    <3> HIDE DEF f
    <3>1. Cardinality(allowed) < Cardinality(2 .. Len(u))
      BY <2>2
    <3> QED BY <2>1, <2>2, <3>1, FS_PigeonHole
  <2>4. PICK k \in 2 .. Len(u), l \in 2 .. Len(u) : k # l /\ u[k].job = u[l].job
    BY <2>3
  <2>5. k \in 1 .. Len(u) /\ l \in 1 .. Len(u)
    BY <1>1
  <2> QED BY <2>4, <2>5 DEF OneEntry
<1> QED BY <1>4, <1>5

LEMMA UpdatedEntries ==
    ASSUME memory \in Seq(Entries), OneEntry(memory), NEW j \in Jobs, NEW status \in JobStatuses,
           NEW u, NEW at \in 1 .. Len(memory) + 1, UpdatedAt(u, j, status, at)
    PROVE  /\ Len(u) \in Nat \ {0} /\ OneEntry(u)
           /\ \A k \in 1 .. Len(u) :
                  \/ u[k] = [job |-> j, status |-> status]
                  \/ u[k].job # j /\ \E i \in 1 .. Len(memory) : u[k] = memory[i]
<1>1. Len(memory) \in Nat
  BY LenProperties
<1>2. Len(u) \in Nat \ {0}
  BY <1>1 DEF UpdatedAt
<1>3. ASSUME NEW k \in 1 .. Len(u) - 1
      PROVE  Skip(at, k) \in 1 .. Len(memory) /\ u[k] = memory[Skip(at, k)] /\ u[k].job # j
  <2>1. Skip(at, k) \in 1 .. Len(memory) /\ u[k] = memory[Skip(at, k)]
    BY DEF UpdatedAt
  <2>2. Skip(at, k) # at
    BY <1>1, <1>2 DEF Skip
  <2> QED BY <2>1, <2>2 DEF UpdatedAt
<1>4. u[Len(u)] = [job |-> j, status |-> status]
  BY DEF UpdatedAt
<1>5. ASSUME NEW k \in 1 .. Len(u), NEW l \in 1 .. Len(u), u[k].job = u[l].job
      PROVE  k = l
  <2>1. CASE k = Len(u) \/ l = Len(u)
    BY <1>2, <1>3, <1>4, <1>5, <2>1
  <2>2. CASE k # Len(u) /\ l # Len(u)
    <3>1. k \in 1 .. Len(u) - 1 /\ l \in 1 .. Len(u) - 1
      BY <1>2, <2>2
    <3>2. Skip(at, k) = Skip(at, l)
      BY <1>3, <1>5, <3>1 DEF OneEntry
    <3> QED BY <1>1, <1>2, <3>1, <3>2 DEF Skip
  <2> QED BY <2>1, <2>2
<1>6. ASSUME NEW k \in 1 .. Len(u)
      PROVE  \/ u[k] = [job |-> j, status |-> status]
             \/ u[k].job # j /\ \E i \in 1 .. Len(memory) : u[k] = memory[i]
  <2>1. CASE k = Len(u)
    BY <1>4, <2>1
  <2>2. CASE k # Len(u)
    <3>1. k \in 1 .. Len(u) - 1
      BY <1>2, <2>2
    <3> QED BY <1>3, <3>1
  <2> QED BY <2>1, <2>2
<1> QED BY <1>2, <1>5, <1>6 DEF OneEntry

\* Only the new entry passes the others.
LEMMA UpdatedPassable ==
    ASSUME memory \in Seq(Entries), OneEntry(memory), NEW j \in Jobs, NEW status \in JobStatuses,
           NEW u, NEW at \in 1 .. Len(memory) + 1, UpdatedAt(u, j, status, at),
           NEW x, x # j, NEW allowed, j \in allowed, Passable(memory, x, allowed)
    PROVE  Passable(u, x, allowed)
<1>1. Len(memory) \in Nat /\ Len(u) \in Nat \ {0}
  BY LenProperties, UpdatedEntries
<1>2. PICK i \in 1 .. Len(memory) :
          memory[i].job = x /\ \A k \in i + 1 .. Len(memory) : memory[k].job \in allowed
  BY DEF Passable
<1>3. i # at
  BY <1>2 DEF UpdatedAt
<1> DEFINE p == IF i < at THEN i ELSE i - 1
<1>4. p \in 1 .. Len(u) - 1 /\ Skip(at, p) = i
  BY <1>1, <1>3 DEF Skip, UpdatedAt
<1>5. u[p].job = x
  BY <1>2, <1>4 DEF UpdatedAt
<1>6. ASSUME NEW k \in p + 1 .. Len(u)
      PROVE  u[k].job \in allowed
  <2>1. CASE k = Len(u)
    BY <2>1 DEF UpdatedAt
  <2>2. CASE k # Len(u)
    <3>1. k \in 1 .. Len(u) - 1
      BY <1>1, <1>4, <2>2
    <3>2. Skip(at, k) \in 1 .. Len(memory) /\ u[k] = memory[Skip(at, k)]
      BY <3>1 DEF UpdatedAt
    <3>3. Skip(at, k) \in i + 1 .. Len(memory)
      BY <1>1, <1>3, <1>4, <3>1, <3>2 DEF Skip
    <3> QED BY <1>2, <3>2, <3>3
  <2> QED BY <2>1, <2>2
<1>7. p \in 1 .. Len(u)
  BY <1>1, <1>4
<1> HIDE DEF p
<1> QED BY <1>5, <1>6, <1>7 DEF Passable

LEMMA RememberFacts ==
    ASSUME memory \in Seq(Entries), OneEntry(memory), Len(memory) <= MaxRemembered,
           NEW j \in Jobs, NEW status \in JobStatuses
    PROVE  LET m == _remember(j, status) IN
           /\ m \in Seq(Entries) /\ OneEntry(m) /\ Len(m) <= MaxRemembered
           /\ \A k \in 1 .. Len(m) :
                  \/ m[k] = [job |-> j, status |-> status]
                  \/ m[k].job # j /\ \E i \in 1 .. Len(memory) : m[k] = memory[i]
           /\ \A allowed : Passable(m, j, allowed)
<1> DEFINE u == Moved(j, status)
           m == _remember(j, status)
<1>1. PICK at \in 1 .. Len(memory) + 1 : UpdatedAt(u, j, status, at)
  BY MovedFacts
<1>2. m = IF Len(u) > MaxRemembered THEN Tail(u) ELSE u
  BY DEF _remember
<1> HIDE DEF u, m
<1>3. /\ u \in Seq(Entries) /\ Len(u) \in Nat \ {0} /\ OneEntry(u)
      /\ u[Len(u)] = [job |-> j, status |-> status]
  <2>1. Len(u) \in Nat \ {0} /\ OneEntry(u)
    BY <1>1, UpdatedEntries
  <2> QED BY <1>1, <2>1 DEF UpdatedAt
<1>4. Len(u) <= MaxRemembered + 1 /\ MaxRemembered \in Nat \ {0}
  BY <1>1, QueueAssumption, LenProperties DEF UpdatedAt
<1>5. \A k \in 1 .. Len(u) :
          \/ u[k] = [job |-> j, status |-> status]
          \/ u[k].job # j /\ \E i \in 1 .. Len(memory) : u[k] = memory[i]
  BY <1>1, UpdatedEntries
<1>6. CASE m = u /\ Len(u) <= MaxRemembered
  <2>1. \A allowed : Passable(u, j, allowed)
    BY <1>3 DEF Passable
  <2> QED BY <1>3, <1>5, <1>6, <2>1 DEF m
<1>7. CASE m = Tail(u) /\ Len(u) > MaxRemembered
  <2>1. /\ m \in Seq(Entries) /\ Len(m) = Len(u) - 1
        /\ \A k \in 1 .. Len(u) - 1 : m[k] = u[k + 1]
    <3>1. u # <<>>
      BY <1>3
    <3> QED BY <1>3, <1>7, <3>1, HeadTailProperties
  <2>2. Len(m) = MaxRemembered /\ Len(u) = MaxRemembered + 1
    <3>1. Len(u) \in Nat /\ MaxRemembered \in Nat /\ Len(u) > MaxRemembered
      BY <1>3, <1>4, <1>7
    <3>2. Len(u) = MaxRemembered + 1
      BY <1>4, <3>1
    <3>3. Len(m) = Len(u) - 1
      BY <2>1
    <3> QED BY <3>1, <3>2, <3>3
  <2>3. \A k \in 1 .. Len(m) : k + 1 \in 1 .. Len(u) /\ m[k] = u[k + 1]
    BY <1>4, <2>1, <2>2
  <2>4. OneEntry(m)
    <3> SUFFICES ASSUME NEW k \in 1 .. Len(m), NEW l \in 1 .. Len(m), m[k].job = m[l].job
                 PROVE  k = l
      BY DEF OneEntry
    <3>1. k + 1 \in 1 .. Len(u) /\ l + 1 \in 1 .. Len(u) /\ u[k + 1].job = u[l + 1].job
      BY <2>3
    <3>2. k + 1 = l + 1
      BY <1>3, <3>1 DEF OneEntry
    <3> QED BY <1>4, <2>2, <3>2
  <2>5. m[Len(m)] = [job |-> j, status |-> status] /\ Len(m) \in Nat \ {0}
    BY <1>3, <1>4, <2>2, <2>3
  <2>6. \A allowed : Passable(m, j, allowed)
    BY <2>5 DEF Passable
  <2>7. \A k \in 1 .. Len(m) :
          \/ m[k] = [job |-> j, status |-> status]
          \/ m[k].job # j /\ \E i \in 1 .. Len(memory) : m[k] = memory[i]
    BY <1>5, <2>3
  <2> QED BY <1>4, <2>1, <2>2, <2>4, <2>6, <2>7 DEF m
<1> QED BY <1>2, <1>3, <1>4, <1>6, <1>7

\* A job that only few enough others may pass stays remembered.
LEMMA RememberPassable ==
    ASSUME memory \in Seq(Entries), OneEntry(memory), Len(memory) <= MaxRemembered,
           NEW j \in Jobs, NEW status \in JobStatuses,
           NEW x, x # j, NEW allowed, j \in allowed, Passable(memory, x, allowed),
           IsFiniteSet(allowed), Cardinality(allowed) < MaxRemembered
    PROVE  Passable(_remember(j, status), x, allowed)
<1> DEFINE u == Moved(j, status)
<1>1. PICK at \in 1 .. Len(memory) + 1 : UpdatedAt(u, j, status, at)
  BY MovedFacts
<1> HIDE DEF u
<1>2. u \in Seq(Entries) /\ Len(u) \in Nat \ {0} /\ OneEntry(u)
  <2>1. Len(u) \in Nat \ {0} /\ OneEntry(u)
    BY <1>1, UpdatedEntries
  <2> QED BY <1>1, <2>1 DEF UpdatedAt
<1>3. Len(u) <= MaxRemembered + 1 /\ MaxRemembered \in Nat \ {0}
  BY <1>1, QueueAssumption, LenProperties DEF UpdatedAt
<1>4. Passable(u, x, allowed)
  BY <1>1, UpdatedPassable
<1>5. Len(u) > MaxRemembered => Passable(Tail(u), x, allowed)
  BY <1>2, <1>3, <1>4, TailPassable
<1> QED BY <1>4, <1>5 DEF _remember, u

------------------------------------------------------------------------------
(* The work queue *)

\* The jobs at some places of the queue, and those behind a place of it.
Between(q, a, b) == { q[k] : k \in a .. b }
Behind(q, p) == Between(q, p + 1, Len(q))

\* The queue and the workers hold the jobs whose state says so, each once.
Held ==
    /\ \A k, l \in 1 .. Len(waiting) : waiting[k] = waiting[l] => k = l
    /\ \A j \in Jobs : state[j] = "queued" <=> \E k \in 1 .. Len(waiting) : waiting[k] = j
    /\ running = { j \in Jobs : state[j] = "running" }

\* While the process lives, its memory and its answers agree with the jobs.
Told ==
    ~stopped =>
        /\ \A i \in 1 .. Len(memory) : memory[i].status = state[memory[i].job]
        /\ \A j \in Jobs :
               /\ caller[j] = "result" => state[j] = "done"
               /\ caller[j] = "error" => state[j] = "failed"
               /\ caller[j] \in {"accepted", "waits"} => state[j] \in JobStatuses

\* The jobs that may have passed the entry of the job waiting at a place: those that
\* were ahead of it when it was submitted, and those behind it.
Ahead(p, ahead) ==
    /\ ahead \subseteq Jobs /\ running \subseteq ahead
    /\ \A k \in 1 .. p - 1 : waiting[k] \in ahead
    /\ Cardinality(ahead) <= Size - 1 + Workers
    /\ Passable(memory, waiting[p], ahead \cup Behind(waiting, p))

Order ==
    MaxRemembered >= 2 * Size + Workers - 1 =>
        \A p \in 1 .. Len(waiting) : \E ahead \in SUBSET Jobs : Ahead(p, ahead)

Sizes ==
    /\ Cardinality(running) <= Workers /\ Len(waiting) <= Size
    /\ Len(memory) <= MaxRemembered /\ OneEntry(memory)

QueueInv == TypeOK /\ Sizes /\ Held /\ Told /\ Order

LEMMA QueueStart == Init => QueueInv
<1> SUFFICES ASSUME Init PROVE QueueInv
  OBVIOUS
<1>1. Len(waiting) = 0 /\ Len(memory) = 0 /\ running = {} /\ waiting = <<>> /\ memory = <<>>
  BY DEF Init
<1>2. TypeOK
  BY <1>1, EmptySeq DEF Init, TypeOK, States, Callers
<1>3. Sizes
  <2>1. Cardinality(running) = 0
    BY <1>1, FS_EmptySet
  <2> QED BY <1>1, <2>1, QueueAssumption DEF Sizes, OneEntry
<1>4. Held
  BY <1>1 DEF Init, Held
<1>5. Told
  BY <1>1 DEF Init, Told
<1>6. Order
  BY <1>1 DEF Order
<1> QED BY <1>2, <1>3, <1>4, <1>5, <1>6 DEF QueueInv

\* A stretch of the queue holds no more jobs than places.
LEMMA BetweenFacts ==
    ASSUME NEW q \in Seq(Jobs), NEW a \in Nat \ {0}, NEW b \in Nat, b <= Len(q)
    PROVE  /\ Between(q, a, b) \in SUBSET Jobs /\ IsFiniteSet(Between(q, a, b))
           /\ Cardinality(Between(q, a, b)) \in Nat
           /\ Cardinality(Between(q, a, b)) <= IF a > b THEN 0 ELSE b - a + 1
<1>1. Len(q) \in Nat
  BY LenProperties
<1>2. \A k \in a .. b : k \in 1 .. Len(q) /\ q[k] \in Jobs
  BY <1>1, ElementOfSeq
<1> DEFINE f == [k \in a .. b |-> q[k]]
           places == a .. b
           held == Between(q, a, b)
<1>3. f \in Surjection(places, held)
  BY DEF Surjection, Between
<1>4. IsFiniteSet(places) /\ Cardinality(places) = IF a > b THEN 0 ELSE b - a + 1
  BY FS_Interval
<1>5. held \in SUBSET Jobs
  BY <1>2 DEF Between
<1> HIDE DEF f, places, held
<1>6. IsFiniteSet(held) /\ Cardinality(held) <= Cardinality(places)
  BY <1>3, <1>4, FS_Surjection
<1>7. Cardinality(held) \in Nat
  BY <1>6, FS_CardinalityType
<1> QED BY <1>4, <1>5, <1>6, <1>7 DEF held

\* Those that may pass a waiting job are too few to push it out of the memory.
LEMMA FewPass ==
    ASSUME NEW q \in Seq(Jobs), Len(q) <= Size, NEW p \in 1 .. Len(q),
           NEW ahead \in SUBSET Jobs, Cardinality(ahead) <= Size - 1 + Workers,
           MaxRemembered >= 2 * Size + Workers - 1
    PROVE  /\ IsFiniteSet(ahead \cup Behind(q, p))
           /\ Cardinality(ahead \cup Behind(q, p)) < MaxRemembered
<1>1. Len(q) \in Nat /\ Size \in Nat /\ Workers \in Nat /\ MaxRemembered \in Nat /\ p \in Nat \ {0}
  BY QueueAssumption, LenProperties
<1> DEFINE later == Behind(q, p)
<1>2. /\ IsFiniteSet(later) /\ Cardinality(later) \in Nat
      /\ Cardinality(later) <= IF p + 1 > Len(q) THEN 0 ELSE Len(q) - (p + 1) + 1
  <2>1. p + 1 \in Nat \ {0} /\ Len(q) <= Len(q)
    BY <1>1
  <2>2. PICK from \in Nat \ {0} : from = p + 1
    BY <2>1
  <2>3. /\ IsFiniteSet(Between(q, from, Len(q))) /\ Cardinality(Between(q, from, Len(q))) \in Nat
        /\ Cardinality(Between(q, from, Len(q))) <= IF from > Len(q) THEN 0 ELSE Len(q) - from + 1
    BY <1>1, <2>1, BetweenFacts
  <2> QED BY <2>2, <2>3 DEF Behind
<1>3. Cardinality(later) <= Size - 1
  <2>1. Size >= 1 /\ p <= Len(q) /\ p >= 1
    BY <1>1, QueueAssumption
  <2> HIDE DEF later
  <2> QED BY <1>1, <1>2, <2>1
<1> HIDE DEF later
<1>4. IsFiniteSet(ahead) /\ Cardinality(ahead) \in Nat
  BY QueueAssumption, FS_Subset, FS_CardinalityType
<1>5. /\ IsFiniteSet(ahead \cup later)
      /\ Cardinality(ahead \cup later) = Cardinality(ahead) + Cardinality(later)
                                         - Cardinality(ahead \cap later)
  BY <1>2, <1>4, FS_Union
<1>6. Cardinality(ahead \cap later) \in Nat
  BY <1>4, FS_Intersection, FS_CardinalityType
<1>7. Cardinality(ahead \cup later) < MaxRemembered
  BY <1>1, <1>2, <1>3, <1>4, <1>5, <1>6
<1> QED BY <1>5, <1>7 DEF later

LEMMA MorePass ==
    ASSUME NEW m, NEW x, NEW allowed, NEW more, allowed \subseteq more, Passable(m, x, allowed)
    PROVE  Passable(m, x, more)
BY DEF Passable

\* A job's update keeps the memory in step with the jobs.
LEMMA UpdateTold ==
    ASSUME TypeOK, Sizes, NEW j \in Jobs, NEW status \in JobStatuses,
           memory' = _remember(j, status), state' = [state EXCEPT ![j] = status]
    PROVE  /\ memory' \in Seq(Entries) /\ Len(memory') <= MaxRemembered /\ OneEntry(memory')
           /\ state' \in [Jobs -> States]
           /\ (\A i \in 1 .. Len(memory) : memory[i].status = state[memory[i].job])
                  => \A i \in 1 .. Len(memory') : memory'[i].status = state'[memory'[i].job]
<1>1. memory \in Seq(Entries) /\ state \in [Jobs -> States]
  BY DEF TypeOK
<1>2. PICK m : m = memory'
  OBVIOUS
<1>3. /\ m \in Seq(Entries) /\ Len(m) <= MaxRemembered /\ OneEntry(m)
      /\ \A k \in 1 .. Len(m) :
             \/ m[k] = [job |-> j, status |-> status]
             \/ m[k].job # j /\ \E i \in 1 .. Len(memory) : m[k] = memory[i]
  BY <1>1, <1>2, RememberFacts DEF Sizes
<1>4. state' \in [Jobs -> States]
  BY <1>1 DEF JobStatuses, States
<1>5. ASSUME \A i \in 1 .. Len(memory) : memory[i].status = state[memory[i].job],
             NEW k \in 1 .. Len(m)
      PROVE  m[k].status = state'[m[k].job]
  <2>1. CASE m[k] = [job |-> j, status |-> status]
    BY <1>1, <2>1
  <2>2. CASE m[k].job # j /\ \E i \in 1 .. Len(memory) : m[k] = memory[i]
    <3>1. PICK i \in 1 .. Len(memory) : m[k] = memory[i]
      BY <2>2
    <3>2. memory[i].job \in Jobs
      <4>1. memory[i] \in Entries
        BY <1>1, ElementOfSeq
      <4> QED BY <4>1 DEF Entries
    <3> QED BY <1>1, <1>5, <2>2, <3>1, <3>2
  <2> QED BY <1>3, <2>1, <2>2
<1> QED BY <1>2, <1>3, <1>4, <1>5

\* The update of a job that may pass a waiting one does not forget it.
LEMMA PassedBy ==
    ASSUME TypeOK, Sizes, NEW q \in Seq(Jobs), Len(q) <= Size, NEW p \in 1 .. Len(q),
           NEW ahead \in SUBSET Jobs, Cardinality(ahead) <= Size - 1 + Workers,
           MaxRemembered >= 2 * Size + Workers - 1,
           NEW j \in Jobs, NEW status \in JobStatuses, q[p] # j, j \in ahead \cup Behind(q, p),
           Passable(memory, q[p], ahead \cup Behind(q, p))
    PROVE  Passable(_remember(j, status), q[p], ahead \cup Behind(q, p))
<1> DEFINE allowed == ahead \cup Behind(q, p)
<1>1. IsFiniteSet(allowed) /\ Cardinality(allowed) < MaxRemembered
  BY FewPass
<1>2. j \in allowed /\ Passable(memory, q[p], allowed)
  OBVIOUS
<1> HIDE DEF allowed
<1>3. memory \in Seq(Entries) /\ OneEntry(memory) /\ Len(memory) <= MaxRemembered
  BY DEF TypeOK, Sizes
<1>4. PICK x : x = q[p]
  OBVIOUS
<1>5. Passable(_remember(j, status), x, allowed)
  BY <1>1, <1>2, <1>3, <1>4, RememberPassable
<1> QED BY <1>4, <1>5 DEF allowed

LEMMA SubmitKeeps ==
    ASSUME QueueInv, NEW j \in Jobs, Submit(j)
    PROVE  QueueInv'
<1>1. /\ ~stopped /\ state[j] = "new" /\ ~Full
      /\ state' = [state EXCEPT ![j] = "queued"] /\ waiting' = Append(waiting, j)
      /\ memory' = _remember(j, "queued") /\ running' = running /\ stopped' = stopped
      /\ \E mode \in {"waits", "accepted"} : caller' = [caller EXCEPT ![j] = mode]
  BY DEF Submit
<1>2. /\ TypeOK /\ Sizes /\ Held /\ Told /\ Order
      /\ state \in [Jobs -> States] /\ waiting \in Seq(Jobs) /\ running \subseteq Jobs
      /\ caller \in [Jobs -> Callers] /\ Size \in Nat /\ Workers \in Nat
  BY QueueAssumption DEF QueueInv, TypeOK
<1>3. "queued" \in JobStatuses
  BY DEF JobStatuses
<1>4. /\ memory' \in Seq(Entries) /\ Len(memory') <= MaxRemembered /\ OneEntry(memory')
      /\ state' \in [Jobs -> States]
      /\ (\A i \in 1 .. Len(memory) : memory[i].status = state[memory[i].job])
             => \A i \in 1 .. Len(memory') : memory'[i].status = state'[memory'[i].job]
  BY <1>1, <1>2, <1>3, UpdateTold
<1>5. Len(waiting) \in Nat /\ Len(waiting) < Size
  BY <1>1, <1>2, LenProperties DEF Full
<1>6. /\ waiting' \in Seq(Jobs) /\ Len(waiting') = Len(waiting) + 1
      /\ \A k \in 1 .. Len(waiting) : waiting'[k] = waiting[k]
      /\ waiting'[Len(waiting) + 1] = j
  BY <1>1, <1>2, AppendProperties
<1>7. \A k \in 1 .. Len(waiting) : waiting[k] # j /\ waiting[k] \in Jobs
  <2>1. \A k \in 1 .. Len(waiting) : waiting[k] \in Jobs
    BY <1>2, ElementOfSeq
  <2> QED BY <1>1, <1>2, <2>1 DEF Held
<1>8. TypeOK'
  <2>1. caller' \in [Jobs -> Callers]
    BY <1>1, <1>2 DEF Callers
  <2>2. running' \subseteq Jobs /\ stopped' \in BOOLEAN
    BY <1>1, <1>2 DEF TypeOK
  <2> QED BY <1>4, <1>6, <2>1, <2>2 DEF TypeOK
<1>9. Sizes'
  <2>1. Cardinality(running') <= Workers
    BY <1>1, <1>2 DEF Sizes
  <2>2. Len(waiting') <= Size
    BY <1>2, <1>5, <1>6
  <2> QED BY <1>4, <2>1, <2>2 DEF Sizes, OneEntry
<1>10. Held'
  <2>1. \A k, l \in 1 .. Len(waiting') : waiting'[k] = waiting'[l] => k = l
    <3>1. \A k \in 1 .. Len(waiting') : k \in 1 .. Len(waiting) \/ k = Len(waiting) + 1
      BY <1>5, <1>6
    <3> QED BY <1>2, <1>6, <1>7, <3>1 DEF Held
  <2>2. ASSUME NEW i \in Jobs
        PROVE  state'[i] = "queued" <=> \E k \in 1 .. Len(waiting') : waiting'[k] = i
    <3>1. CASE i = j
      <4>1. Len(waiting) + 1 \in 1 .. Len(waiting')
        BY <1>5, <1>6
      <4> QED BY <1>1, <1>2, <1>6, <3>1, <4>1
    <3>2. CASE i # j
      <4>1. state'[i] = state[i]
        BY <1>1, <1>2, <3>2
      <4>2. \A k \in 1 .. Len(waiting') : k \in 1 .. Len(waiting) \/ waiting'[k] = j
        BY <1>5, <1>6
      <4>3. \A k \in 1 .. Len(waiting) : k \in 1 .. Len(waiting')
        BY <1>5, <1>6
      <4>4. (\E k \in 1 .. Len(waiting') : waiting'[k] = i) <=> \E k \in 1 .. Len(waiting) : waiting[k] = i
        BY <1>6, <3>2, <4>2, <4>3
      <4> QED BY <1>2, <4>1, <4>4 DEF Held
    <3> QED BY <3>1, <3>2
  <2>3. running' = { i \in Jobs : state'[i] = "running" }
    BY <1>1, <1>2 DEF Held
  <2> QED BY <2>1, <2>2, <2>3 DEF Held
<1>11. Told'
  <2>1. ASSUME NEW i \in Jobs
        PROVE  /\ caller'[i] = "result" => state'[i] = "done"
               /\ caller'[i] = "error" => state'[i] = "failed"
               /\ caller'[i] \in {"accepted", "waits"} => state'[i] \in JobStatuses
    <3>1. CASE i = j
      BY <1>1, <1>2, <1>3, <3>1
    <3>2. CASE i # j
      <4>1. state'[i] = state[i] /\ caller'[i] = caller[i]
        BY <1>1, <1>2, <3>2
      <4> QED BY <1>1, <1>2, <4>1 DEF Told
    <3> QED BY <3>1, <3>2
  <2>2. \A i \in 1 .. Len(memory') : memory'[i].status = state'[memory'[i].job]
    BY <1>1, <1>2, <1>4 DEF Told
  <2> QED BY <2>1, <2>2 DEF Told
<1>12. ASSUME MaxRemembered >= 2 * Size + Workers - 1, NEW p \in 1 .. Len(waiting')
       PROVE  \E ahead \in SUBSET Jobs : Ahead(p, ahead)'
  <2>1. CASE p \in 1 .. Len(waiting)
    <3>1. PICK ahead \in SUBSET Jobs : Ahead(p, ahead)
      BY <1>2, <1>12, <2>1 DEF Order
    <3>2. Behind(waiting, p) \subseteq Behind(waiting', p) /\ j \in Behind(waiting', p)
      <4>1. \A k \in p + 1 .. Len(waiting) : k \in p + 1 .. Len(waiting') /\ waiting'[k] = waiting[k]
        BY <1>5, <1>6, <2>1
      <4>2. Len(waiting) + 1 \in p + 1 .. Len(waiting')
        BY <1>5, <1>6, <2>1
      <4> QED BY <1>6, <4>1, <4>2 DEF Behind, Between
    <3>3. waiting'[p] = waiting[p] /\ waiting'[p] # j
      BY <1>6, <1>7, <2>1
    <3>4. Passable(memory, waiting'[p], ahead \cup Behind(waiting', p))
      <4>1. Passable(memory, waiting'[p], ahead \cup Behind(waiting, p))
        BY <3>1, <3>3 DEF Ahead
      <4> QED BY <3>2, <4>1, MorePass
    <3>5. Passable(_remember(j, "queued"), waiting'[p], ahead \cup Behind(waiting', p))
      <4>1. Cardinality(ahead) <= Size - 1 + Workers
        BY <3>1 DEF Ahead
      <4>2. PICK q \in Seq(Jobs) : q = waiting'
        BY <1>6
      <4>3. Len(q) <= Size /\ p \in 1 .. Len(q)
        BY <1>2, <1>5, <1>6, <4>2
      <4> QED BY <1>2, <1>3, <1>12, <3>2, <3>3, <3>4, <4>1, <4>2, <4>3, PassedBy
    <3>6. \A k \in 1 .. p - 1 : waiting'[k] \in ahead
      <4>1. \A k \in 1 .. p - 1 : k \in 1 .. Len(waiting)
        BY <1>5, <2>1
      <4> QED BY <1>6, <3>1, <4>1 DEF Ahead
    <3>7. Ahead(p, ahead)'
      BY <1>1, <3>1, <3>5, <3>6 DEF Ahead, Passable, Behind, Between
    <3> QED BY <3>7
  <2>2. CASE p = Len(waiting) + 1
    <3> DEFINE before == Between(waiting, 1, Len(waiting))
               ahead == running \cup before
    <3>1. /\ before \in SUBSET Jobs /\ IsFiniteSet(before) /\ Cardinality(before) \in Nat
          /\ Cardinality(before) <= Len(waiting)
      <4>1. Cardinality(before) <= IF 1 > Len(waiting) THEN 0 ELSE Len(waiting) - 1 + 1
        BY <1>2, <1>5, BetweenFacts
      <4>2. before \in SUBSET Jobs /\ IsFiniteSet(before) /\ Cardinality(before) \in Nat
        BY <1>2, <1>5, BetweenFacts
      <4> HIDE DEF before
      <4> QED BY <1>5, <4>1, <4>2
    <3>2. IsFiniteSet(running) /\ Cardinality(running) \in Nat /\ Cardinality(running) <= Workers
      BY <1>2, QueueAssumption, FS_Subset, FS_CardinalityType DEF Sizes
    <3>3. \A k \in 1 .. p - 1 : waiting'[k] \in before
      BY <1>5, <1>6, <2>2 DEF Between
    <3> HIDE DEF before
    <3>4. /\ IsFiniteSet(ahead) /\ Cardinality(ahead) \in Nat
          /\ Cardinality(ahead) <= Size - 1 + Workers
      <4>1. /\ IsFiniteSet(running \cup before)
            /\ Cardinality(running \cup before) =
                   Cardinality(running) + Cardinality(before) - Cardinality(running \cap before)
        BY <3>1, <3>2, FS_Union
      <4>2. Cardinality(running \cap before) \in Nat
        BY <3>2, FS_Intersection, FS_CardinalityType
      <4>3. Size \in Nat /\ Workers \in Nat /\ Len(waiting) \in Nat /\ Len(waiting) <= Size - 1
        BY <1>2, <1>5
      <4>4. Cardinality(running \cup before) \in Nat
        BY <4>1, FS_CardinalityType
      <4>5. Cardinality(running \cup before) <= Cardinality(running) + Cardinality(before)
        BY <3>1, <3>2, <4>1, <4>2
      <4>6. Cardinality(running \cup before) <= Size - 1 + Workers
        BY <3>1, <3>2, <4>3, <4>4, <4>5
      <4> QED BY <4>1, <4>4, <4>6
    <3>5. Passable(memory', waiting'[p], ahead \cup Behind(waiting', p))
      <4>1. Passable(memory', j, ahead \cup Behind(waiting', p))
        BY <1>1, <1>2, <1>3, RememberFacts DEF Sizes, TypeOK
      <4> QED BY <1>6, <2>2, <4>1
    <3>6. ahead \in SUBSET Jobs /\ running' \subseteq ahead /\ \A k \in 1 .. p - 1 : waiting'[k] \in ahead
      BY <1>1, <1>2, <3>1, <3>3
    <3> HIDE DEF ahead
    <3>7. PICK c \in SUBSET Jobs : c = ahead
      BY <3>6
    <3>8. Ahead(p, c)'
      BY <3>4, <3>5, <3>6, <3>7 DEF Ahead, Passable, Behind, Between
    <3> QED BY <3>8
  <2> QED BY <1>5, <1>6, <2>1, <2>2
<1>13. Order'
  BY <1>12 DEF Order
<1> QED BY <1>8, <1>9, <1>10, <1>11, <1>13 DEF QueueInv

LEMMA TakeKeeps ==
    ASSUME QueueInv, Take
    PROVE  QueueInv'
<1> DEFINE j == Head(waiting)
<1>1. /\ ~stopped /\ waiting # <<>> /\ Cardinality(running) < Workers
      /\ state' = [state EXCEPT ![j] = "running"] /\ running' = running \cup {j}
      /\ memory' = _remember(j, "running") /\ waiting' = Tail(waiting)
      /\ caller' = caller /\ stopped' = stopped
  BY DEF Take
<1>2. /\ TypeOK /\ Sizes /\ Held /\ Told /\ Order
      /\ state \in [Jobs -> States] /\ waiting \in Seq(Jobs) /\ running \subseteq Jobs
      /\ Size \in Nat /\ Workers \in Nat
  BY QueueAssumption DEF QueueInv, TypeOK
<1>3. Len(waiting) \in Nat \ {0} /\ j \in Jobs /\ j = waiting[1]
  BY <1>1, <1>2, EmptySeq, HeadTailProperties
<1>4. PICK c \in Jobs : c = j
  BY <1>3
<1> HIDE DEF j
<1>5. "running" \in JobStatuses
  BY DEF JobStatuses
<1>6. /\ memory' \in Seq(Entries) /\ Len(memory') <= MaxRemembered /\ OneEntry(memory')
      /\ state' \in [Jobs -> States]
      /\ (\A i \in 1 .. Len(memory) : memory[i].status = state[memory[i].job])
             => \A i \in 1 .. Len(memory') : memory'[i].status = state'[memory'[i].job]
  BY <1>1, <1>2, <1>3, <1>5, UpdateTold
<1>7. /\ waiting' \in Seq(Jobs) /\ Len(waiting') = Len(waiting) - 1
      /\ \A k \in 1 .. Len(waiting) - 1 : waiting'[k] = waiting[k + 1]
  BY <1>1, <1>2, HeadTailProperties
<1>8. state[c] = "queued" /\ c = waiting[1]
  BY <1>2, <1>3, <1>4 DEF Held
<1>9. \A k \in 1 .. Len(waiting') : k + 1 \in 1 .. Len(waiting) /\ waiting'[k] = waiting[k + 1]
                                    /\ waiting'[k] # c
  <2>1. \A k \in 1 .. Len(waiting') : k + 1 \in 1 .. Len(waiting) /\ waiting'[k] = waiting[k + 1]
    BY <1>3, <1>7
  <2>2. 1 \in 1 .. Len(waiting) /\ \A k \in 1 .. Len(waiting') : k + 1 # 1
    BY <1>3, <1>7
  <2> QED BY <1>2, <1>8, <2>1, <2>2 DEF Held
<1>10. TypeOK'
  <2>1. running' \subseteq Jobs
    BY <1>1, <1>2, <1>3
  <2> QED BY <1>1, <1>2, <1>6, <1>7, <2>1 DEF TypeOK
<1>11. Sizes'
  <2>1. IsFiniteSet(running) /\ Cardinality(running) \in Nat
    BY <1>2, QueueAssumption, FS_Subset, FS_CardinalityType
  <2>2. Cardinality(running \cup {c}) <= Cardinality(running) + 1
    <3>1. Cardinality(running \cup {c}) =
              IF c \in running THEN Cardinality(running) ELSE Cardinality(running) + 1
      BY <2>1, FS_AddElement
    <3> QED BY <2>1, <3>1
  <2>3. IsFiniteSet(running \cup {c}) /\ Cardinality(running \cup {c}) \in Nat
    BY <2>1, FS_AddElement, FS_CardinalityType
  <2>4. Cardinality(running') <= Workers
    BY <1>1, <1>2, <1>4, <2>1, <2>2, <2>3
  <2>5. Len(waiting') <= Size
    BY <1>2, <1>3, <1>7 DEF Sizes
  <2> QED BY <1>6, <2>4, <2>5 DEF Sizes, OneEntry
<1>12. Held'
  <2>1. \A k, l \in 1 .. Len(waiting') : waiting'[k] = waiting'[l] => k = l
    <3>1. \A k, l \in 1 .. Len(waiting') : waiting'[k] = waiting'[l] => k + 1 = l + 1
      BY <1>2, <1>9 DEF Held
    <3> QED BY <1>3, <1>7, <3>1
  <2>2. ASSUME NEW i \in Jobs
        PROVE  state'[i] = "queued" <=> \E k \in 1 .. Len(waiting') : waiting'[k] = i
    <3>1. CASE i = c
      BY <1>1, <1>2, <1>4, <1>9, <3>1
    <3>2. CASE i # c
      <4>1. state'[i] = state[i]
        BY <1>1, <1>2, <1>4, <3>2
      <4>2. \A k \in 1 .. Len(waiting) : k = 1 \/ (k - 1 \in 1 .. Len(waiting') /\ (k - 1) + 1 = k)
        BY <1>3, <1>7
      <4>3. (\E k \in 1 .. Len(waiting') : waiting'[k] = i) <=> \E k \in 1 .. Len(waiting) : waiting[k] = i
        <5>1. ASSUME NEW k \in 1 .. Len(waiting), waiting[k] = i
              PROVE  \E l \in 1 .. Len(waiting') : waiting'[l] = i
          <6>1. k # 1
            BY <1>8, <3>2, <5>1
          <6>2. k - 1 \in 1 .. Len(waiting') /\ (k - 1) + 1 = k
            BY <4>2, <6>1
          <6>3. waiting'[k - 1] = waiting[(k - 1) + 1]
            BY <1>9, <6>2
          <6> QED BY <5>1, <6>2, <6>3
        <5> QED BY <1>9, <5>1
      <4> QED BY <1>2, <4>1, <4>3 DEF Held
    <3> QED BY <3>1, <3>2
  <2>3. running' = { i \in Jobs : state'[i] = "running" }
    BY <1>1, <1>2, <1>3 DEF Held
  <2> QED BY <2>1, <2>2, <2>3 DEF Held
<1>13. Told'
  <2>1. ASSUME NEW i \in Jobs
        PROVE  /\ caller'[i] = "result" => state'[i] = "done"
               /\ caller'[i] = "error" => state'[i] = "failed"
               /\ caller'[i] \in {"accepted", "waits"} => state'[i] \in JobStatuses
    <3>1. CASE i = c
      BY <1>1, <1>2, <1>4, <1>5, <1>8, <3>1 DEF Told
    <3>2. CASE i # c
      BY <1>1, <1>2, <1>4, <3>2 DEF Told
    <3> QED BY <3>1, <3>2
  <2>2. \A i \in 1 .. Len(memory') : memory'[i].status = state'[memory'[i].job]
    BY <1>1, <1>2, <1>6 DEF Told
  <2> QED BY <2>1, <2>2 DEF Told
<1>14. ASSUME MaxRemembered >= 2 * Size + Workers - 1, NEW p \in 1 .. Len(waiting')
       PROVE  \E ahead \in SUBSET Jobs : Ahead(p, ahead)'
  <2>1. PICK at \in 1 .. Len(waiting) : at = p + 1
    BY <1>9
  <2>2. PICK ahead \in SUBSET Jobs : Ahead(at, ahead)
    BY <1>2, <1>14 DEF Order
  <2>3. \A k \in 1 .. at - 1 : waiting[k] \in ahead
    BY <2>2 DEF Ahead
  <2>4. c \in ahead
    <3>1. 1 \in 1 .. at - 1
      BY <1>3, <1>7, <2>1
    <3> QED BY <1>8, <2>3, <3>1
  <2>5. \A k \in 1 .. p - 1 : waiting'[k] \in ahead
    <3>1. \A k \in 1 .. p - 1 : k \in 1 .. Len(waiting') /\ k + 1 \in 1 .. at - 1
      BY <1>3, <1>7, <2>1
    <3> QED BY <1>9, <2>3, <3>1
  <2>6. Behind(waiting', p) = Behind(waiting, at)
    <3>1. ASSUME NEW x PROVE x \in Behind(waiting', p) <=> x \in Behind(waiting, at)
      <4>1. \A k \in p + 1 .. Len(waiting') :
                k \in 1 .. Len(waiting') /\ k + 1 \in at + 1 .. Len(waiting)
        BY <1>3, <1>7, <2>1
      <4>2. \A k \in at + 1 .. Len(waiting) :
                /\ k - 1 \in p + 1 .. Len(waiting') /\ k - 1 \in 1 .. Len(waiting')
                /\ (k - 1) + 1 = k
        BY <1>3, <1>7, <2>1
      <4>3. ASSUME NEW k \in at + 1 .. Len(waiting)
            PROVE  \E l \in p + 1 .. Len(waiting') : waiting'[l] = waiting[k]
        <5>1. k - 1 \in p + 1 .. Len(waiting') /\ k - 1 \in 1 .. Len(waiting') /\ (k - 1) + 1 = k
          BY <4>2
        <5>2. waiting'[k - 1] = waiting[(k - 1) + 1]
          BY <1>9, <5>1
        <5> QED BY <5>1, <5>2
      <4>4. ASSUME NEW k \in p + 1 .. Len(waiting')
            PROVE  \E l \in at + 1 .. Len(waiting) : waiting'[k] = waiting[l]
        BY <1>9, <4>1
      <4>5. x \in Behind(waiting', p) <=> \E k \in p + 1 .. Len(waiting') : waiting'[k] = x
        BY DEF Behind, Between
      <4>6. x \in Behind(waiting, at) <=> \E k \in at + 1 .. Len(waiting) : waiting[k] = x
        BY DEF Behind, Between
      <4> QED BY <4>3, <4>4, <4>5, <4>6
    <3> QED BY <3>1
  <2>7. waiting'[p] = waiting[at] /\ waiting'[p] # c
    BY <1>9, <2>1
  <2>8. Passable(_remember(c, "running"), waiting'[p], ahead \cup Behind(waiting', p))
    <3>1. /\ Cardinality(ahead) <= Size - 1 + Workers
          /\ Passable(memory, waiting'[p], ahead \cup Behind(waiting', p))
      BY <2>2, <2>6, <2>7 DEF Ahead
    <3>2. PICK q \in Seq(Jobs) : q = waiting'
      BY <1>7
    <3>3. Len(q) <= Size /\ p \in 1 .. Len(q)
      BY <1>11, <3>2 DEF Sizes
    <3> QED BY <1>2, <1>5, <1>14, <2>4, <2>7, <3>1, <3>2, <3>3, PassedBy
  <2>9. Ahead(p, ahead)'
    BY <1>1, <1>4, <2>2, <2>4, <2>5, <2>8 DEF Ahead, Passable, Behind, Between
  <2> QED BY <2>9
<1>15. Order'
  BY <1>14 DEF Order
<1> QED BY <1>10, <1>11, <1>12, <1>13, <1>15 DEF QueueInv

LEMMA FinishKeeps ==
    ASSUME QueueInv, NEW j \in Jobs, NEW status \in Ended, Finish(j, status)
    PROVE  QueueInv'
<1>1. /\ ~stopped /\ j \in running /\ state[j] = "running"
      /\ state' = [state EXCEPT ![j] = status] /\ running' = running \ {j}
      /\ memory' = _remember(j, status) /\ waiting' = waiting
      /\ caller' = caller /\ stopped' = stopped
  BY DEF Finish, Released
<1>2. /\ TypeOK /\ Sizes /\ Held /\ Told /\ Order
      /\ state \in [Jobs -> States] /\ waiting \in Seq(Jobs) /\ running \subseteq Jobs
      /\ Size \in Nat /\ Workers \in Nat /\ Len(waiting) \in Nat /\ Len(waiting) <= Size
  BY QueueAssumption, LenProperties DEF QueueInv, TypeOK, Sizes
<1>3. status \in JobStatuses /\ status \notin {"queued", "running"}
  BY DEF JobStatuses, Ended
<1>4. /\ memory' \in Seq(Entries) /\ Len(memory') <= MaxRemembered /\ OneEntry(memory')
      /\ state' \in [Jobs -> States]
      /\ (\A i \in 1 .. Len(memory) : memory[i].status = state[memory[i].job])
             => \A i \in 1 .. Len(memory') : memory'[i].status = state'[memory'[i].job]
  BY <1>1, <1>2, <1>3, UpdateTold
<1>5. TypeOK'
  BY <1>1, <1>2, <1>4 DEF TypeOK
<1>6. Sizes'
  <2>1. IsFiniteSet(running) /\ Cardinality(running) \in Nat
    BY <1>2, QueueAssumption, FS_Subset, FS_CardinalityType
  <2>2. Cardinality(running \ {j}) = IF j \in running THEN Cardinality(running) - 1 ELSE Cardinality(running)
    BY <2>1, FS_RemoveElement
  <2>3. Cardinality(running) <= Workers
    BY <1>2 DEF Sizes
  <2>4. Cardinality(running') <= Workers
    BY <1>1, <1>2, <2>1, <2>2, <2>3
  <2> QED BY <1>1, <1>2, <1>4, <2>4 DEF Sizes, OneEntry
<1>7. Held'
  <2>1. \A i \in Jobs : state'[i] = "queued" <=> state[i] = "queued"
    BY <1>1, <1>2, <1>3
  <2>2. running' = { i \in Jobs : state'[i] = "running" }
    BY <1>1, <1>2, <1>3 DEF Held
  <2> QED BY <1>1, <1>2, <2>1, <2>2 DEF Held
<1>8. Told'
  <2>1. ASSUME NEW i \in Jobs
        PROVE  /\ caller'[i] = "result" => state'[i] = "done"
               /\ caller'[i] = "error" => state'[i] = "failed"
               /\ caller'[i] \in {"accepted", "waits"} => state'[i] \in JobStatuses
    <3>1. CASE i = j
      BY <1>1, <1>2, <1>3, <3>1 DEF Told
    <3>2. CASE i # j
      BY <1>1, <1>2, <3>2 DEF Told
    <3> QED BY <3>1, <3>2
  <2>2. \A i \in 1 .. Len(memory') : memory'[i].status = state'[memory'[i].job]
    BY <1>1, <1>2, <1>4 DEF Told
  <2> QED BY <2>1, <2>2 DEF Told
<1>9. ASSUME MaxRemembered >= 2 * Size + Workers - 1, NEW p \in 1 .. Len(waiting)
      PROVE  \E ahead \in SUBSET Jobs : Ahead(p, ahead)'
  <2>1. PICK ahead \in SUBSET Jobs : Ahead(p, ahead)
    BY <1>2, <1>9 DEF Order
  <2>2. waiting[p] # j
    <3>1. waiting[p] \in Jobs
      BY <1>2, ElementOfSeq
    <3> QED BY <1>1, <1>2, <3>1 DEF Held
  <2>3. j \in ahead /\ Cardinality(ahead) <= Size - 1 + Workers
        /\ Passable(memory, waiting[p], ahead \cup Behind(waiting, p))
    BY <1>1, <2>1 DEF Ahead
  <2>4. Passable(_remember(j, status), waiting[p], ahead \cup Behind(waiting, p))
    BY <1>2, <1>3, <1>9, <2>2, <2>3, PassedBy
  <2>5. Ahead(p, ahead)'
    BY <1>1, <2>1, <2>4 DEF Ahead, Passable, Behind, Between
  <2> QED BY <2>5
<1>10. Order'
  BY <1>1, <1>9 DEF Order
<1> QED BY <1>5, <1>6, <1>7, <1>8, <1>10 DEF QueueInv

\* A call that is refused, answered or given up on touches no queue.
LEMMA CallerKeeps ==
    ASSUME QueueInv, NEW j \in Jobs, Refuse(j) \/ Answer(j) \/ Timeout(j)
    PROVE  QueueInv'
<1>1. /\ waiting' = waiting /\ running' = running /\ memory' = memory /\ stopped' = stopped
      /\ \E s \in {"refused", state[j]}, c \in Callers :
             /\ state' = [state EXCEPT ![j] = s] /\ caller' = [caller EXCEPT ![j] = c]
             /\ s # state[j] => state[j] = "new" /\ c = "too_many"
             /\ ~stopped /\ c = "result" => s = "done"
             /\ ~stopped /\ c = "error" => s = "failed"
             /\ ~stopped /\ c \in {"accepted", "waits"} => caller[j] = "waits" /\ s = state[j]
  <2> state \in [Jobs -> States] /\ caller \in [Jobs -> Callers]
    BY DEF QueueInv, TypeOK
  <2>1. CASE Refuse(j)
    BY <2>1 DEF Refuse, Callers
  <2>2. CASE Answer(j)
    BY <2>2 DEF Answer, Callers, Ended
  <2>3. CASE Timeout(j)
    BY <2>3 DEF Timeout, Callers
  <2> QED BY <2>1, <2>2, <2>3
<1>2. PICK s \in {"refused", state[j]}, c \in Callers :
          /\ state' = [state EXCEPT ![j] = s] /\ caller' = [caller EXCEPT ![j] = c]
          /\ s # state[j] => state[j] = "new" /\ c = "too_many"
          /\ ~stopped /\ c = "result" => s = "done"
          /\ ~stopped /\ c = "error" => s = "failed"
          /\ ~stopped /\ c \in {"accepted", "waits"} => caller[j] = "waits" /\ s = state[j]
  BY <1>1
<1>3. /\ TypeOK /\ Sizes /\ Held /\ Told /\ Order
      /\ state \in [Jobs -> States] /\ caller \in [Jobs -> Callers]
  BY DEF QueueInv, TypeOK
<1>4. TypeOK'
  BY <1>1, <1>2, <1>3 DEF TypeOK, States
<1>5. \A i \in Jobs : state'[i] = state[i] \/ (i = j /\ state[i] = "new" /\ state'[i] = "refused")
  BY <1>2, <1>3
<1>6. Sizes'
  BY <1>1, <1>3 DEF Sizes, OneEntry
<1>7. Held'
  <2>1. \A i \in Jobs : /\ state'[i] = "queued" <=> state[i] = "queued"
                        /\ state'[i] = "running" <=> state[i] = "running"
    BY <1>5
  <2> QED BY <1>1, <1>3, <2>1 DEF Held
<1>8. Told'
  <2> SUFFICES ASSUME ~stopped PROVE Told'
    BY <1>1 DEF Told
  <2>1. ASSUME NEW i \in Jobs
        PROVE  /\ caller'[i] = "result" => state'[i] = "done"
               /\ caller'[i] = "error" => state'[i] = "failed"
               /\ caller'[i] \in {"accepted", "waits"} => state'[i] \in JobStatuses
    <3>1. CASE i = j
      BY <1>2, <1>3, <3>1 DEF Told
    <3>2. CASE i # j
      BY <1>2, <1>3, <3>2 DEF Told
    <3> QED BY <3>1, <3>2
  <2>2. ASSUME NEW i \in 1 .. Len(memory)
        PROVE  memory[i].status = state'[memory[i].job]
    <3>1. memory[i] \in Entries
      BY <1>3, ElementOfSeq DEF TypeOK
    <3>2. memory[i].job \in Jobs /\ memory[i].status # "new"
      BY <3>1 DEF Entries, Ended
    <3>3. memory[i].status = state[memory[i].job]
      BY <1>3 DEF Told
    <3> QED BY <1>5, <3>2, <3>3
  <2> QED BY <1>1, <2>1, <2>2 DEF Told
<1>9. Order'
  BY <1>1, <1>3 DEF Order, Ahead, Passable, Behind, Between
<1> QED BY <1>4, <1>6, <1>7, <1>8, <1>9 DEF QueueInv

LEMMA StopKeeps ==
    ASSUME QueueInv, Stop
    PROVE  QueueInv'
<1>1. /\ stopped' = TRUE /\ waiting' = <<>> /\ running' = {} /\ memory' = memory
      /\ state' = [j \in Jobs |-> IF state[j] \in {"queued", "running"} THEN "lost" ELSE state[j]]
      /\ caller' = [j \in Jobs |->
             IF caller[j] = "waits" /\ state[j] \notin Ended THEN "error" ELSE caller[j]]
  BY DEF Stop
<1>2. /\ TypeOK /\ Sizes /\ state \in [Jobs -> States] /\ caller \in [Jobs -> Callers]
      /\ Workers \in Nat /\ Size \in Nat
  BY QueueAssumption DEF QueueInv, TypeOK
<1>3. Len(waiting') = 0 /\ waiting' \in Seq(Jobs) /\ Cardinality(running') = 0
  BY <1>1, EmptySeq, FS_EmptySet
<1>4. TypeOK'
  <2>1. state' \in [Jobs -> States]
    BY <1>1, <1>2 DEF States
  <2>2. caller' \in [Jobs -> Callers]
    BY <1>1, <1>2 DEF Callers
  <2> QED BY <1>1, <1>2, <1>3, <2>1, <2>2 DEF TypeOK
<1>5. Sizes'
  BY <1>1, <1>2, <1>3 DEF Sizes, OneEntry
<1>6. Held'
  <2>1. \A j \in Jobs : state'[j] # "queued" /\ state'[j] # "running"
    BY <1>1, <1>2
  <2> QED BY <1>1, <1>3, <2>1 DEF Held
<1>7. Told' /\ Order'
  BY <1>1, <1>3 DEF Told, Order
<1> QED BY <1>4, <1>5, <1>6, <1>7 DEF QueueInv

\* The invariant of the work queue (queue.py:57).
THEOREM QueueInvariant == Spec => []QueueInv
<1>1. QueueInv /\ [Next]_vars => QueueInv'
  <2> SUFFICES ASSUME QueueInv, [Next]_vars PROVE QueueInv'
    OBVIOUS
  <2>1. CASE \E j \in Jobs : Submit(j)
    BY <2>1, SubmitKeeps
  <2>2. CASE \E j \in Jobs : Refuse(j) \/ Answer(j) \/ Timeout(j)
    BY <2>2, CallerKeeps
  <2>3. CASE \E j \in Jobs, status \in Ended : Finish(j, status)
    BY <2>3, FinishKeeps
  <2>4. CASE Take
    BY <2>4, TakeKeeps
  <2>5. CASE Stop
    BY <2>5, StopKeeps
  <2>6. CASE UNCHANGED vars
    <3>1. /\ state' = state /\ waiting' = waiting /\ running' = running /\ memory' = memory
          /\ caller' = caller /\ stopped' = stopped
      BY <2>6 DEF vars
    <3>2. TypeOK' /\ Sizes'
      BY <3>1 DEF QueueInv, TypeOK, Sizes, OneEntry
    <3>3. Held' /\ Told'
      <4>1. Held'
        BY <3>1 DEF QueueInv, Held
      <4>2. Told'
        BY <3>1 DEF QueueInv, Told
      <4> QED BY <4>1, <4>2
    <3>4. Order'
      <4>1. ASSUME NEW p, NEW ahead, Ahead(p, ahead) PROVE Ahead(p, ahead)'
        BY <3>1, <4>1 DEF Ahead, Passable, Behind, Between
      <4>2. Order
        BY DEF QueueInv
      <4> QED BY <3>1, <4>1, <4>2 DEF Order
    <3> QED BY <3>2, <3>3, <3>4 DEF QueueInv
  <2> QED BY <2>1, <2>2, <2>3, <2>4, <2>5, <2>6 DEF Next
<1> QED BY QueueStart, <1>1, PTL DEF Spec

\* Each process runs and holds what its settings say (queue.py:3), and remembers a
\* bounded number of jobs, none of them twice.
THEOREM QueueIsBounded == Spec => []Bounded
<1>1. QueueInv => Bounded
  BY DEF QueueInv, Sizes, OneEntry, Bounded
<1> QED BY <1>1, QueueInvariant, PTL

\* A job that waits is never forgotten (queue.py:97), if the memory holds twice the
\* queue and the workers.  MAX_REMEMBERED_JOBS is 10,000 and Settings asks for 401.
THEOREM WaitingIsPolled == Spec => []WaitingIsRemembered
<1>1. QueueInv => WaitingIsRemembered
  <2> SUFFICES ASSUME QueueInv, MaxRemembered >= 2 * Size + Workers - 1,
                      NEW j \in Jobs, state[j] = "queued"
               PROVE  Remembered(j)
    BY DEF WaitingIsRemembered
  <2>1. PICK p \in 1 .. Len(waiting) : waiting[p] = j
    BY DEF QueueInv, Held
  <2>2. PICK ahead \in SUBSET Jobs : Ahead(p, ahead)
    BY DEF QueueInv, Order
  <2> QED BY <2>1, <2>2 DEF Ahead, Passable, Remembered
<1> QED BY <1>1, QueueInvariant, PTL

\* What a poll answers (GET /v1/jobs/{id}) and what a caller was answered is true.
THEOREM CallersAreToldTruth == Spec => []ToldTruth
<1>1. QueueInv => ToldTruth
  <2> SUFFICES ASSUME QueueInv, ~stopped, NEW j \in Jobs
               PROVE  /\ Remembered(j) => Polled(j) = state[j]
                      /\ caller[j] = "result" => state[j] = "done"
                      /\ caller[j] = "error" => state[j] = "failed"
                      /\ caller[j] = "accepted" => state[j] \in {"queued", "running"} \cup Ended
    BY DEF ToldTruth
  <2>1. Told
    BY DEF QueueInv
  <2>2. Remembered(j) => Polled(j) = state[j]
    BY <2>1 DEF Told, Remembered, Polled
  <2> QED BY <2>1, <2>2 DEF Told, JobStatuses
<1> QED BY <1>1, QueueInvariant, PTL
==============================================================================
