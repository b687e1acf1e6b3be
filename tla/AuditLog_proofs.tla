--------------------------- MODULE AuditLog_proofs ---------------------------
(***************************************************************************)
(* The audit chain of one process is intact in every state, for any number *)
(* of threads, entries and crashes.                                        *)
(*                                                                         *)
(* The chain alone is not inductive: an entry hangs on the one before it   *)
(* because the hash its writer read was still the last one when it wrote.  *)
(* That holds because a thread past the read holds the lock.               *)
(*                                                                         *)
(* Then the composition with the webhooks: it implements both components,  *)
(* and nothing is announced that the log does not record.                  *)
(***************************************************************************)
EXTENDS Announcements, FiniteSetTheorems, TLAPS

LocksHeld == \A t \in Threads : doing[t] # "nothing" => lock[Process[t]] = t
ReadIsCurrent == \A t \in Threads : doing[t] = "read" => seen[t] = Head_

Inv == TypeOK /\ LocksHeld /\ ReadIsCurrent /\ ChainIntact

LEMMA ProcessType == \A t \in Threads : Process[t] \in Processes
  BY DEF Processes

\* What an inserted entry looks like.
LEMMA EntryType ==
    ASSUME NEW prev \in Hashes, NEW content \in Contents
    PROVE  [content |-> content, prev_hash |-> prev, hash |-> _chain_hash(prev, content)] \in Entry
  <1>1. _chain_hash(prev, content) \in Hashes
    BY DEF _chain_hash, Hashes
  <1> QED BY <1>1 DEF Entry

LEMMA HeadType == ASSUME TypeOK PROVE Head_ \in Hashes
  <1>1. CASE log = <<>> BY <1>1 DEF Head_, GENESIS, Hashes
  <1>2. CASE log # <<>>
    <2>1. Len(log) \in 1 .. Len(log) BY <1>2 DEF TypeOK
    <2>2. log[Len(log)] \in Entry BY <2>1 DEF TypeOK
    <2> QED BY <1>2, <2>2 DEF Head_, Entry
  <1> QED BY <1>1, <1>2

\* Types are kept by every step.
LEMMA TypeStep == ASSUME AuditAssumption, TypeOK, [Next]_vars PROVE TypeOK'
  <1> USE AuditAssumption, ProcessType
  <1>1. ASSUME NEW t \in Threads, Acquire(t) PROVE TypeOK'
    BY <1>1 DEF TypeOK, Acquire
  <1>2. ASSUME NEW t \in Threads, Read(t) PROVE TypeOK'
    BY <1>2, HeadType DEF TypeOK, Read
  <1>3. ASSUME NEW t \in Threads, NEW content \in Contents, Insert(t, content) PROVE TypeOK'
    <2>1. [content |-> content, prev_hash |-> seen[t], hash |-> _chain_hash(seen[t], content)] \in Entry
      BY EntryType DEF TypeOK
    <2> QED BY <1>3, <2>1 DEF TypeOK, Insert
  <1>4. ASSUME NEW p \in Processes, Crash(p) PROVE TypeOK'
    BY <1>4 DEF TypeOK, Crash
  <1>5. CASE UNCHANGED vars
    BY <1>5 DEF TypeOK, vars
  <1> QED BY <1>1, <1>2, <1>3, <1>4, <1>5 DEF Next

\* Of the threads of one process, only the holder of its lock is past the acquire.
LEMMA OneHolder ==
    ASSUME \A t, u \in Threads : Process[t] = Process[u], LocksHeld,
           NEW t \in Threads, NEW u \in Threads, doing[t] # "nothing", doing[u] # "nothing"
    PROVE  t = u
  BY DEF LocksHeld

LEMMA LockStep == ASSUME AuditAssumption, TypeOK, LocksHeld, [Next]_vars PROVE LocksHeld'
  <1> USE AuditAssumption, ProcessType
  <1>1. ASSUME NEW t \in Threads, Acquire(t) PROVE LocksHeld'
    BY <1>1 DEF TypeOK, Acquire, LocksHeld
  <1>2. ASSUME NEW t \in Threads, Read(t) PROVE LocksHeld'
    BY <1>2 DEF TypeOK, Read, LocksHeld
  <1>3. ASSUME NEW t \in Threads, NEW content \in Contents, Insert(t, content) PROVE LocksHeld'
    BY <1>3 DEF TypeOK, Insert, LocksHeld
  <1>4. ASSUME NEW p \in Processes, Crash(p) PROVE LocksHeld'
    BY <1>4 DEF TypeOK, Crash, LocksHeld
  <1>5. CASE UNCHANGED vars
    BY <1>5 DEF vars, LocksHeld
  <1> QED BY <1>1, <1>2, <1>3, <1>4, <1>5 DEF Next

LEMMA ReadStep ==
    ASSUME AuditAssumption, \A t, u \in Threads : Process[t] = Process[u],
           TypeOK, LocksHeld, ReadIsCurrent, [Next]_vars
    PROVE  ReadIsCurrent'
  <1>1. ASSUME NEW t \in Threads, Acquire(t) PROVE ReadIsCurrent'
    BY <1>1 DEF TypeOK, Acquire, ReadIsCurrent, Head_
  <1>2. ASSUME NEW t \in Threads, Read(t) PROVE ReadIsCurrent'
    BY <1>2 DEF TypeOK, Read, ReadIsCurrent, Head_
  <1>3. ASSUME NEW t \in Threads, NEW content \in Contents, Insert(t, content) PROVE ReadIsCurrent'
    <2>1. \A u \in Threads : doing'[u] = "nothing"
      BY <1>3, OneHolder DEF TypeOK, Insert
    <2> QED BY <2>1 DEF ReadIsCurrent
  <1>4. ASSUME NEW p \in Processes, Crash(p) PROVE ReadIsCurrent'
    BY <1>4 DEF TypeOK, Crash, ReadIsCurrent, Head_
  <1>5. CASE UNCHANGED vars
    BY <1>5 DEF vars, ReadIsCurrent, Head_
  <1> QED BY <1>1, <1>2, <1>3, <1>4, <1>5 DEF Next

LEMMA ChainStep ==
    ASSUME AuditAssumption, TypeOK, ReadIsCurrent, ChainIntact, [Next]_vars
    PROVE  ChainIntact'
  <1>1. CASE UNCHANGED log
    BY <1>1 DEF ChainIntact, Intact
  <1>2. ASSUME NEW t \in Threads, NEW content \in Contents, Insert(t, content) PROVE ChainIntact'
    <2> DEFINE entry == [content |-> content, prev_hash |-> seen[t], hash |-> _chain_hash(seen[t], content)]
    <2>1. entry \in Entry /\ log \in Seq(Entry)
      BY EntryType DEF TypeOK
    <2>2. log' = Append(log, entry)
      BY <1>2 DEF Insert
    <2>3. seen[t] = Head_
      BY <1>2 DEF Insert, ReadIsCurrent
    <2>4. entry.prev_hash = seen[t] /\ entry.hash = _chain_hash(seen[t], entry.content)
      OBVIOUS
    <2> HIDE DEF entry
    <2>5. Len(log') = Len(log) + 1 /\ Len(log) \in Nat
      BY <2>1, <2>2
    <2>6. \A i \in 1 .. Len(log) : log'[i] = log[i]
      BY <2>1, <2>2
    <2>7. log'[Len(log) + 1] = entry
      BY <2>1, <2>2
    <2>8. ASSUME NEW i \in 1 .. Len(log') PROVE Intact(i)'
      <3>1. CASE i \in 1 .. Len(log)
        <4>1. i = 1 \/ i - 1 \in 1 .. Len(log) BY <3>1, <2>5
        <4>2. Intact(i) BY <3>1 DEF ChainIntact
        <4> QED BY <3>1, <4>1, <4>2, <2>6 DEF Intact
      <3>2. CASE i = Len(log) + 1
        <4>1. Head_ = IF i = 1 THEN GENESIS ELSE log[i - 1].hash
          BY <3>2, <2>1, <2>5 DEF Head_
        <4>2. i # 1 => log'[i - 1] = log[i - 1]
          BY <3>2, <2>5, <2>6
        <4> QED BY <3>2, <4>1, <4>2, <2>3, <2>4, <2>7 DEF Intact
      <3> QED BY <3>1, <3>2, <2>5
    <2> QED BY <2>8 DEF ChainIntact
  <1>3. [Next]_vars => UNCHANGED log \/ \E t \in Threads, content \in Contents : Insert(t, content)
    BY DEF Next, vars, Acquire, Read, Crash
  <1> QED BY <1>1, <1>2, <1>3

\* With one process, verify_audit_chain answers "intact" in every state, whatever
\* the threads are doing and however often the process was restarted.
THEOREM OneProcessChainIsIntact ==
    ASSUME \A t, u \in Threads : Process[t] = Process[u]
    PROVE  Spec => []ChainIntact
  <1>1. Init => Inv
    BY AuditAssumption DEF Init, Inv, TypeOK, LocksHeld, ReadIsCurrent, ChainIntact, Hashes, GENESIS
  <1>2. Inv /\ [Next]_vars => Inv'
    BY AuditAssumption, TypeStep, LockStep, ReadStep, ChainStep DEF Inv
  <1>3. Inv => ChainIntact
    BY DEF Inv
  <1> QED BY <1>1, <1>2, <1>3, PTL DEF Spec

------------------------------------------------------------------------------
(* The log and the webhooks *)

\* Announcements implements both of its components: every step of it is a step of the log or
\* leaves the log alone, and the same of the webhooks (store/sqlite.py:490-500, webhooks.py:38-69).
THEOREM AnnouncementsAreBoth == AnnouncementsSpec => Spec /\ WebhooksSpec
  <1>1. AnnouncementsInit => Init /\ WebhooksInit
    BY DEF AnnouncementsInit
  <1>2. [AnnouncementsNext]_announcementVars => [Next]_vars /\ [WebhooksNext]_webhookVars
    <2> SUFFICES ASSUME [AnnouncementsNext]_announcementVars
                 PROVE  [Next]_vars /\ [WebhooksNext]_webhookVars
      OBVIOUS
    <2>1. ASSUME NEW v \in Verifications, Change(v) PROVE UNCHANGED vars /\ UNCHANGED webhookVars
      BY <2>1 DEF Change
    <2>2. CASE EnterAudit
      BY <2>2, LoopAssumption DEF EnterAudit, Next
    <2>3. CASE WriteEntry
      BY <2>3, LoopAssumption DEF WriteEntry, Next
    <2>4. CASE Tell
      BY <2>4 DEF Tell, MayTell, WebhooksNext
    <2>5. ASSUME NEW t \in Threads, EnterElsewhere(t) \/ ReadLast(t) \/ WriteElsewhere(t)
          PROVE  Next /\ UNCHANGED webhookVars
      BY <2>5 DEF EnterElsewhere, ReadLast, WriteElsewhere, Next
    <2>6. ASSUME NEW e \in Events, Deliver(e) \/ Settle(e) \/ Arrives(e)
          PROVE  WebhooksNext /\ UNCHANGED vars
      BY <2>6 DEF Deliver, Settle, Arrives, WebhooksNext
    <2>7. ASSUME NEW p \in Processes, Stop(p) PROVE Next /\ [WebhooksNext]_webhookVars
      BY <2>7 DEF Stop, Next, WebhooksNext
    <2>8. CASE UNCHANGED announcementVars
      BY <2>8 DEF announcementVars
    <2> QED BY <2>1, <2>2, <2>3, <2>4, <2>5, <2>6, <2>7, <2>8 DEF AnnouncementsNext
  <1> QED BY <1>1, <1>2, PTL DEF AnnouncementsSpec, Spec, WebhooksSpec

\* What the handler in progress has written and not yet announced.
Untold(v) == IF about = v /\ written THEN 1 ELSE 0

Recorded ==
    /\ TypeOK
    /\ changes \in [Verifications -> Nat]
    /\ \A v \in Verifications : Cardinality(EntriesOn(v)) >= changes[v] + Untold(v)

LEMMA EntriesCounted ==
    ASSUME TypeOK, NEW v
    PROVE  IsFiniteSet(EntriesOn(v)) /\ Cardinality(EntriesOn(v)) \in Nat
  <1>1. Len(log) \in Nat
    BY DEF TypeOK
  <1>2. IsFiniteSet(1 .. Len(log)) /\ EntriesOn(v) \in SUBSET (1 .. Len(log))
    BY <1>1, FS_Interval DEF EntriesOn
  <1> QED BY <1>2, FS_Subset, FS_CardinalityType

\* An entry is one more of its verification and leaves the others as they are.
LEMMA EntryAdds ==
    ASSUME TypeOK, NEW t \in Threads, NEW content \in Contents, Insert(t, content), NEW v
    PROVE  Cardinality(EntriesOn(v))' = Cardinality(EntriesOn(v)) + (IF content = v THEN 1 ELSE 0)
  <1> DEFINE entry == [content |-> content, prev_hash |-> seen[t], hash |-> _chain_hash(seen[t], content)]
  <1>1. entry \in Entry /\ entry.content = content
    BY EntryType DEF TypeOK
  <1>2. log' = Append(log, entry) /\ log \in Seq(Entry)
    BY DEF Insert, TypeOK
  <1> HIDE DEF entry
  <1>3. Len(log) \in Nat /\ Len(log') = Len(log) + 1
    BY <1>1, <1>2
  <1>4. \A i \in 1 .. Len(log) : log'[i] = log[i]
    BY <1>1, <1>2
  <1>5. log'[Len(log) + 1].content = content
    BY <1>1, <1>2
  <1>6. CASE content = v
    <2>1. EntriesOn(v)' = EntriesOn(v) \cup {Len(log) + 1}
      BY <1>3, <1>4, <1>5, <1>6 DEF EntriesOn
    <2>2. Len(log) + 1 \notin EntriesOn(v)
      BY <1>3 DEF EntriesOn
    <2> QED BY <1>6, <2>1, <2>2, EntriesCounted, FS_AddElement
  <1>7. CASE content # v
    <2>1. EntriesOn(v)' = EntriesOn(v)
      BY <1>3, <1>4, <1>5, <1>7 DEF EntriesOn
    <2> QED BY <1>7, <2>1, EntriesCounted
  <1> QED BY <1>6, <1>7

LEMMA RecordedStep ==
    ASSUME Recorded, [AnnouncementsNext]_announcementVars
    PROVE  Recorded'
  <1> USE LoopAssumption DEF Recorded
  <1>1. ASSUME [Next]_vars PROVE TypeOK'
    BY <1>1, TypeStep, AuditAssumption
  \* A step that adds no entry and announces nothing, and writes nothing off as told.
  <1>2. ASSUME TypeOK', log' = log, changes' = changes,
               \A v \in Verifications : Untold(v)' \in {0, Untold(v)}
        PROVE  Recorded'
    <2>1. ASSUME NEW v \in Verifications PROVE (Cardinality(EntriesOn(v)) >= changes[v] + Untold(v))'
      <3>1. EntriesOn(v)' = EntriesOn(v)
        BY <1>2 DEF EntriesOn
      <3>2. Untold(v) \in {0, 1} /\ Untold(v)' <= Untold(v)
        BY <1>2 DEF Untold
      <3> QED BY <1>2, <3>1, <3>2, EntriesCounted
    <2> QED BY <1>2, <2>1
  <1>3. ASSUME NEW v \in Verifications, Change(v) PROVE Recorded'
    <2>1. TypeOK' /\ log' = log /\ changes' = changes
      BY <1>1, <1>3 DEF Change, vars, webhookVars
    <2>2. \A w \in Verifications : Untold(w)' = 0
      BY <1>3 DEF Change, Untold
    <2> QED BY <1>2, <2>1, <2>2
  <1>4. ASSUME NEW t \in Threads, Acquire(t) \/ Read(t), UNCHANGED <<webhookVars, handler>>
        PROVE  Recorded'
    <2>1. TypeOK'
      BY <1>1, <1>4 DEF Next
    <2>2. log' = log /\ changes' = changes
      BY <1>4 DEF Acquire, Read, webhookVars
    <2>3. \A w \in Verifications : Untold(w)' = Untold(w)
      BY <1>4 DEF handler, Untold
    <2> QED BY <1>2, <2>1, <2>2, <2>3
  <1>5. CASE WriteEntry
    <2>1. Insert(loop, about) /\ loop \in Threads /\ about \in Contents
      BY <1>5 DEF WriteEntry
    <2>2. TypeOK'
      BY <1>1, <2>1 DEF Next
    <2>3. changes' = changes /\ about' = about /\ written' = TRUE /\ ~written
      BY <1>5 DEF WriteEntry, webhookVars
    <2>4. ASSUME NEW v \in Verifications PROVE (Cardinality(EntriesOn(v)) >= changes[v] + Untold(v))'
      <3>1. Cardinality(EntriesOn(v))' = Cardinality(EntriesOn(v)) + (IF about = v THEN 1 ELSE 0)
        BY <2>1, EntryAdds
      <3>2. Untold(v) = 0 /\ Untold(v)' = IF about = v THEN 1 ELSE 0
        BY <2>3 DEF Untold
      <3> QED BY <2>3, <3>1, <3>2, EntriesCounted
    <2> QED BY <2>2, <2>3, <2>4
  <1>6. CASE Tell
    <2>1. about \in Verifications /\ written /\ changes' = [changes EXCEPT ![about] = @ + 1]
      BY <1>6 DEF Tell, MayTell, Announce
    <2>2. UNCHANGED vars /\ written' = FALSE
      BY <1>6 DEF Tell
    <2>3. TypeOK' /\ log' = log
      BY <1>1, <2>2 DEF vars
    <2>4. ASSUME NEW v \in Verifications PROVE (Cardinality(EntriesOn(v)) >= changes[v] + Untold(v))'
      <3>1. EntriesOn(v)' = EntriesOn(v)
        BY <2>3 DEF EntriesOn
      <3>2. Untold(v)' = 0 /\ changes'[v] = changes[v] + Untold(v) /\ changes'[v] \in Nat
        BY <2>1, <2>2 DEF Untold
      <3> QED BY <3>1, <3>2, EntriesCounted
    <2> QED BY <2>1, <2>3, <2>4
  <1>7. ASSUME NEW t \in Threads, WriteElsewhere(t) PROVE Recorded'
    <2>1. PICK content \in Contents \ Verifications : Insert(t, content)
      BY <1>7 DEF WriteElsewhere
    <2>2. TypeOK'
      BY <1>1, <2>1 DEF Next
    <2>3. changes' = changes /\ about' = about /\ written' = written
      BY <1>7 DEF WriteElsewhere, webhookVars, handler
    <2>4. ASSUME NEW v \in Verifications PROVE (Cardinality(EntriesOn(v)) >= changes[v] + Untold(v))'
      <3>1. Cardinality(EntriesOn(v))' = Cardinality(EntriesOn(v))
        BY <2>1, EntryAdds, EntriesCounted
      <3>2. Untold(v)' = Untold(v)
        BY <2>3 DEF Untold
      <3> QED BY <2>3, <3>1, <3>2
    <2> QED BY <2>2, <2>3, <2>4
  <1>8. ASSUME NEW e \in Events, Deliver(e) \/ Settle(e) \/ Arrives(e) PROVE Recorded'
    <2>1. UNCHANGED vars /\ about' = about /\ written' = written
      BY <1>8 DEF Deliver, Settle, Arrives, handler
    <2>2. changes' = changes
      BY <1>8 DEF Deliver, Settle, Arrives, Post, Heard, Unheard, Straggler, Platform
    <2>3. \A w \in Verifications : Untold(w)' = Untold(w)
      BY <2>1 DEF Untold
    <2> QED BY <1>1, <1>2, <2>1, <2>2, <2>3 DEF vars
  <1>9. ASSUME NEW p \in Processes, Stop(p) PROVE Recorded'
    <2>1. TypeOK'
      BY <1>1, <1>9 DEF Next, Stop
    <2>2. log' = log /\ changes' = changes
      BY <1>9 DEF Stop, Crash, ProcessEnds, webhookVars
    <2>3. \A w \in Verifications : Untold(w)' \in {0, Untold(w)}
      BY <1>9 DEF Stop, handler, Untold
    <2> QED BY <1>2, <2>1, <2>2, <2>3
  <1>10. CASE UNCHANGED announcementVars
    <2>1. UNCHANGED vars /\ changes' = changes /\ about' = about /\ written' = written
      BY <1>10 DEF announcementVars, webhookVars, handler
    <2>2. \A w \in Verifications : Untold(w)' = Untold(w)
      BY <2>1 DEF Untold
    <2> QED BY <1>1, <1>2, <2>1, <2>2 DEF vars
  <1>11. CASE EnterAudit
    BY <1>4, <1>11 DEF EnterAudit
  <1>12. ASSUME NEW t \in Threads, EnterElsewhere(t) \/ ReadLast(t) PROVE Recorded'
    BY <1>4, <1>12 DEF EnterElsewhere, ReadLast
  <1> HIDE DEF Recorded
  <1> QED
    BY <1>3, <1>5, <1>6, <1>7, <1>8, <1>9, <1>10, <1>11, <1>12 DEF AnnouncementsNext

\* Whatever threads write and wherever processes stop, the platform hears of no decision that the
\* audit log lacks (service.py:193-211, 332-338; sqlite.py:274 before routes.py:225).
THEOREM AnnouncedIsRecorded == AnnouncementsSpec => []NothingUnrecorded
  <1>1. AnnouncementsInit => Recorded
    <2> SUFFICES ASSUME AnnouncementsInit PROVE Recorded
      OBVIOUS
    <2>1. TypeOK
      BY AuditAssumption DEF AnnouncementsInit, Init, TypeOK, Hashes, GENESIS
    <2>2. changes = [v \in Verifications |-> 0] /\ ~written
      BY DEF AnnouncementsInit, WebhooksInit
    <2> QED BY <2>1, <2>2, EntriesCounted DEF Recorded, Untold
  <1>2. Recorded => NothingUnrecorded
    <2> SUFFICES ASSUME Recorded, NEW v \in Verifications PROVE Cardinality(EntriesOn(v)) >= changes[v]
      BY DEF NothingUnrecorded
    <2>1. Untold(v) \in {0, 1} /\ changes[v] \in Nat /\ Cardinality(EntriesOn(v)) \in Nat
      BY EntriesCounted DEF Recorded, Untold
    <2> QED BY <2>1 DEF Recorded
  <1> QED BY <1>1, <1>2, RecordedStep, PTL DEF AnnouncementsSpec
==============================================================================
