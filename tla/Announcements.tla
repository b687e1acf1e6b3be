---------------------------- MODULE Announcements ----------------------------
(***************************************************************************)
(* How a change of a verification becomes known: the handler that has      *)
(* saved it writes its entry in the audit log and then sends the webhook,  *)
(* all in one step of the event loop (service.py, routes.py, webhooks.py,  *)
(* store/sqlite.py).  Composes AuditLog, of which the loop is one thread   *)
(* among others, with the deliveries of Webhooks, which the loop runs when *)
(* no handler is in progress and which end with its process.               *)
(*                                                                         *)
(* Left out: what is saved (VerificationService), and which other entries  *)
(* a handler writes (a pass, an image): those are like the entries of any  *)
(* other thread.                                                           *)
(***************************************************************************)
EXTENDS AuditLog, Webhooks, FiniteSets

CONSTANT loop     \* the thread of the event loop

ASSUME LoopAssumption ==
    /\ loop \in Threads
    /\ Verifications \subseteq Contents /\ Nobody \notin Verifications

VARIABLES
    about,      \* the verification that the handler in progress has changed
    written     \* whether its entry is in the log

handler == <<about, written>>
announcementVars == <<vars, webhookVars, handler>>

AnnouncementsInit ==
    /\ Init /\ WebhooksInit
    /\ about = Nobody /\ written = FALSE

LoopFree == about = Nobody

\* Bound: who has entered audit, or is about to, finds room in the log.
Writers == { t \in Threads : doing[t] # "nothing" \/ (t = loop /\ about \in Verifications /\ ~written) }
Room == Len(log) + Cardinality(Writers) < MaxEntries

\* A handler has saved a change of v.
Change(v) ==
    /\ LoopFree /\ Room /\ changes[v] < MaxChanges
    /\ about' = v /\ written' = FALSE
    /\ UNCHANGED <<vars, webhookVars>>

\* store.audit, called by the handler.
EnterAudit ==
    /\ about \in Verifications /\ ~written
    /\ Acquire(loop) /\ UNCHANGED <<webhookVars, handler>>
WriteEntry ==
    /\ about \in Verifications /\ ~written
    /\ Insert(loop, about) /\ written' = TRUE
    /\ UNCHANGED <<webhookVars, about>>

\* store.audit, called by another thread or for something that is not announced.
EnterElsewhere(t) ==
    /\ t # loop /\ Room
    /\ Acquire(t) /\ UNCHANGED <<webhookVars, handler>>
WriteElsewhere(t) ==
    /\ t # loop
    /\ \E content \in Contents \ Verifications : Insert(t, content)
    /\ UNCHANGED <<webhookVars, handler>>

ReadLast(t) == Read(t) /\ UNCHANGED <<webhookVars, handler>>

\* Mutant: the webhook is sent before the entry is written.
MayTell_Early == about \in Verifications /\ doing[loop] = "nothing"

\* The entry is written before send is called.
MayTell == about \in Verifications /\ written

\* webhooks.send, the last thing the handler does.
Tell ==
    /\ MayTell
    /\ Announce(about)
    /\ about' = Nobody /\ written' = FALSE
    /\ UNCHANGED vars

\* The tasks of the deliveries share the loop with the handlers.
Deliver(e) == LoopFree /\ Post(e) /\ UNCHANGED <<vars, handler>>
Settle(e) == LoopFree /\ (Heard(e) \/ Unheard(e)) /\ UNCHANGED <<vars, handler>>
Arrives(e) ==
    /\ Straggler(e) \/ \E answer \in Answers : Platform(e, answer)
    /\ UNCHANGED <<vars, handler>>

\* A process stops.  That of the loop takes its handler and all deliveries with it.
Stop(p) ==
    /\ Crash(p)
    /\ IF p # Process[loop] THEN UNCHANGED <<webhookVars, handler>>
       ELSE /\ about' = Nobody /\ written' = FALSE
            /\ IF \E e \in Events : Pending(e) THEN ProcessEnds ELSE UNCHANGED webhookVars

AnnouncementsNext ==
    \/ \E v \in Verifications : Change(v)
    \/ EnterAudit \/ WriteEntry \/ Tell
    \/ \E t \in Threads : EnterElsewhere(t) \/ ReadLast(t) \/ WriteElsewhere(t)
    \/ \E e \in Events : Deliver(e) \/ Settle(e) \/ Arrives(e)
    \/ \E p \in Processes : Stop(p)

\* A handler on the loop goes on, a thread in audit comes out of it, and the loop runs every
\* delivery; a request to a platform that stays silent times out.  The platform owes nothing.
AnnouncementsFairness ==
    /\ WF_announcementVars(EnterAudit \/ WriteEntry \/ Tell)
    /\ \A t \in Threads : WF_announcementVars(ReadLast(t) \/ WriteElsewhere(t))
    /\ \A e \in Events : WF_announcementVars(Deliver(e)) /\ WF_announcementVars(Settle(e))

AnnouncementsSpec ==
    AnnouncementsInit /\ [][AnnouncementsNext]_announcementVars /\ AnnouncementsFairness

------------------------------------------------------------------------------
\* The entries about a verification.
EntriesOn(v) == { i \in 1 .. Len(log) : log[i].content = v }

\* The platform never hears of a decision that the audit log lacks: wherever a process stops
\* and whatever other threads write, there are as many entries on a verification as changes
\* that were announced (service.py:193-211, 332-338; sqlite.py:274 before routes.py:225).
NothingUnrecorded == \A v \in Verifications : Cardinality(EntriesOn(v)) >= changes[v]
==============================================================================
