------------------------------ MODULE AuditLog -------------------------------
(***************************************************************************)
(* The hash-chained audit log (store/sqlite.py): every thread of a process *)
(* (the asyncio loop, the retention sweeper, a check) may write an entry.  *)
(* audit() reads the last hash and inserts the next entry under the lock   *)
(* of its Store object, which the threads of one process share; processes  *)
(* share only the database.                                                *)
(*                                                                         *)
(* SHA-256 is taken to be injective: the hash of an entry stands for all   *)
(* that went into it, so it is the sequence of contents up to the entry.   *)
(***************************************************************************)
EXTENDS Integers, Sequences

CONSTANTS
    Threads,
    Process,       \* the process of each thread
    Contents,      \* event, verification and data of an entry
    Nobody,        \* holder of a free lock
    MaxEntries,    \* bound: entries ever written
    MaxCrashes     \* bound: crashes of a process

ASSUME AuditAssumption ==
    /\ Nobody \notin Threads
    /\ DOMAIN Process = Threads
    /\ MaxEntries \in Nat /\ MaxCrashes \in Nat

VARIABLES
    log,       \* table audit_log in the order of seq
    lock,      \* Store._lock of each process
    doing,     \* what each thread is about: nothing, or the step of audit() it has done
    seen,      \* the hash each thread read
    crashes

vars == <<log, lock, doing, seen, crashes>>

Processes == { Process[t] : t \in Threads }
GENESIS == <<>>

_chain_hash(prev, content) == Append(prev, content)

Hashes == Seq(Contents)
Entry == [content : Contents, prev_hash : Hashes, hash : Hashes]

TypeOK ==
    /\ log \in Seq(Entry)
    /\ lock \in [Processes -> Threads \cup {Nobody}]
    /\ doing \in [Threads -> {"nothing", "locked", "read"}]
    /\ seen \in [Threads -> Hashes]
    /\ crashes \in Nat

Init ==
    /\ log = <<>>
    /\ lock = [p \in Processes |-> Nobody]
    /\ doing = [t \in Threads |-> "nothing"]
    /\ seen = [t \in Threads |-> GENESIS]
    /\ crashes = 0

Head_ == IF log = <<>> THEN GENESIS ELSE log[Len(log)].hash

\* with self._lock
Acquire(t) ==
    /\ doing[t] = "nothing" /\ lock[Process[t]] = Nobody
    /\ lock' = [lock EXCEPT ![Process[t]] = t]
    /\ doing' = [doing EXCEPT ![t] = "locked"]
    /\ UNCHANGED <<log, seen, crashes>>

\* Mutant: the last hash is read before the lock is taken.
Read_Unlocked(t) ==
    /\ doing[t] = "locked"
    /\ seen' = [seen EXCEPT ![t] = Head_]
    /\ doing' = [doing EXCEPT ![t] = "read"]
    /\ lock' = [lock EXCEPT ![Process[t]] = Nobody]
    /\ UNCHANGED <<log, crashes>>

\* SELECT hash ... ORDER BY seq DESC LIMIT 1
Read(t) ==
    /\ doing[t] = "locked"
    /\ seen' = [seen EXCEPT ![t] = Head_]
    /\ doing' = [doing EXCEPT ![t] = "read"]
    /\ UNCHANGED <<log, lock, crashes>>

\* INSERT INTO audit_log, and the lock is released.
Insert(t, content) ==
    /\ doing[t] = "read" /\ Len(log) < MaxEntries
    /\ log' = Append(log, [ content   |-> content,
                            prev_hash |-> seen[t],
                            hash      |-> _chain_hash(seen[t], content) ])
    /\ lock' = [lock EXCEPT ![Process[t]] = Nobody]
    /\ doing' = [doing EXCEPT ![t] = "nothing"]
    /\ UNCHANGED <<seen, crashes>>

\* A process stops, wherever its threads are, and starts again.
Crash(p) ==
    /\ crashes < MaxCrashes /\ crashes' = crashes + 1
    /\ lock' = [lock EXCEPT ![p] = Nobody]
    /\ doing' = [t \in Threads |-> IF Process[t] = p THEN "nothing" ELSE doing[t]]
    /\ UNCHANGED <<log, seen>>

Next ==
    \/ \E t \in Threads : Acquire(t) \/ Read(t) \/ \E content \in Contents : Insert(t, content)
    \/ \E p \in Processes : Crash(p)

Spec == Init /\ [][Next]_vars

------------------------------------------------------------------------------
\* verify_audit_chain: each entry hangs on the one before it, and hashes to what it says.
Intact(i) ==
    /\ log[i].prev_hash = IF i = 1 THEN GENESIS ELSE log[i - 1].hash
    /\ log[i].hash = _chain_hash(log[i].prev_hash, log[i].content)

\* "Hash-chained, append-only audit log" (docs/SECURITY.md:19): verify_audit_chain
\* says intact in every state, whatever threads are writing or crashed in between.
ChainIntact == \A i \in 1 .. Len(log) : Intact(i)
==============================================================================
