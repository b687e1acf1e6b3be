------------------------- MODULE VerificationService -------------------------
(***************************************************************************)
(* The verification service of one process: the API handlers, the worker   *)
(* tasks and Verifier._finalise run on one asyncio loop; the duplicates    *)
(* check reads the store from a thread, and the retention sweeper deletes  *)
(* from another thread.  Every SQL statement commits on its own, so a      *)
(* handler is a sequence of steps: between two of them no other handler    *)
(* runs (none of these handlers suspends there), but a thread may read or  *)
(* purge the store, and the process may crash.                             *)
(*                                                                         *)
(* A call is one HTTP submission; the verification it creates has the same *)
(* identity.  All calls belong to one tenant.                              *)
(***************************************************************************)
EXTENDS Decision

CONSTANTS
    Documents,   \* calls of POST /v1/verifications
    PassCalls,   \* calls of POST /v1/verifications/pass
    Request,     \* what each call carries, and its event's policy
    NoKey,       \* no Idempotency-Key header, no image hash, face, device or subject
    Nobody,      \* no verification: what the loop works on when it is free
    Ledgers,     \* results the checks other than duplicates may produce, per call
    ImageStorage,        \* Settings.image_storage
    Workers,             \* Settings.workers
    DeviceManyIdentities,
    MaxOperations,       \* bound: reviews, erasures and revocations by people
    MaxCrashes           \* bound: crashes of the process

Calls == Documents \cup PassCalls

Policies == [min : EvidenceLevels, enforced : BOOLEAN, accept : BOOLEAN, issue : BOOLEAN]

ASSUME CallsAssumption == Documents \cap PassCalls = {} /\ Nobody \notin Calls
ASSUME RequestAssumption ==
    \A c \in Calls :
        /\ DOMAIN Request[c] = {"registration", "name", "key", "subject", "ids", "image",
                                "face", "device", "pass", "policy"}
        /\ Request[c].policy \in Policies
        /\ c \in PassCalls => Request[c].pass \in Documents
ASSUME LedgersAssumption ==
    \A c \in Calls : \A ledger \in Ledgers[c] : \A name \in DOMAIN ledger : ledger[name] \in CheckResults
ASSUME SettingsAssumption ==
    /\ ImageStorage \in {"review_only", "all", "none"}
    /\ Workers \in Nat /\ DeviceManyIdentities \in Nat
    /\ MaxOperations \in Nat /\ MaxCrashes \in Nat

VARIABLES
    phase,      \* where each call is
    client,     \* what the caller of each call has received
    evidence,   \* result of the duplicates check, and the conflicts it found
    loop,       \* the handler the event loop is in the middle of
    rows,       \* table verifications
    index,      \* verifications in identity_index
    faces,      \* verifications in face_index
    blobs,      \* verifications with stored images
    passes,     \* the pass issued for each verification
    trail,      \* audit entries written: <<event, verification>>
    outbox,     \* webhooks scheduled: <<event, verification, decision>>
    operations, crashes

store == <<rows, index, faces, blobs, passes, trail>>
vars == <<phase, client, evidence, loop, rows, index, faces, blobs, passes,
          trail, outbox, operations, crashes>>

ReviewDecisions ==
    [approve |-> "verified", reject |-> "not_eligible", request_retake |-> "action_required"]
ReviewActions == DOMAIN ReviewDecisions

Row == [ decision  : Decisions \cup {"none"},
         automated : Decisions \cup {"none"},
         level     : EvidenceLevels,
         duplicate : BOOLEAN,      \* flags.duplicate_suspected
         flagged   : BOOLEAN,      \* has the reason DUPLICATE_LATER_REGISTRATION
         review    : ReviewActions \cup {"none"},
         erased    : BOOLEAN ]
NoRow == [ decision |-> "none", automated |-> "none", level |-> UNUSABLE, duplicate |-> FALSE,
           flagged |-> FALSE, review |-> "none", erased |-> FALSE ]

InFlight == {"queued", "checking", "checked", "saving"}
Phases == InFlight \cup {"new", "answered", "done", "failed", "lost"}
ClientStates == {"none", "waiting", "accepted", "result", "existing", "error"}
PassStates == {"none", "active", "revoked"}
FinaliseSteps == {"blobs", "index", "audit", "pass", "notify", "flag", "revoke", "report"}
ReviewSteps == {"review_audit", "review_images", "review_notify"}
EraseLocked == {"erase_faces", "erase_index", "erase_row", "erase_passes"}
Steps == FinaliseSteps \cup ReviewSteps \cup EraseLocked \cup {"erase_audit", "idle"}
Idle == [step |-> "idle", call |-> Nobody, other |-> Nobody, todo |-> {}]
NotRun == result("skipped", {}, UNUSABLE)
Events == {"created", "issued", "flagged", "revoked", "reviewed", "images_deleted", "erased", "purged"}
Hooks == {"completed", "shadow_completed", "flagged", "reviewed"}

LoopOK ==
    /\ loop \in [step : Steps, call : Calls \cup {Nobody},
                 other : Calls \cup {Nobody}, todo : SUBSET Calls]
    /\ loop.step # "idle" => loop.call \in Calls
    /\ loop.step \in {"revoke", "report"} => loop.other \in Calls

TypeOK ==
    /\ phase \in [Calls -> Phases]
    /\ client \in [Calls -> ClientStates]
    /\ evidence \in [Calls -> [duplicates : CheckResults, conflicts : SUBSET Calls]]
    /\ LoopOK
    /\ rows \in [Calls -> Row]
    /\ index \subseteq Calls /\ faces \subseteq Calls /\ blobs \subseteq Calls
    /\ passes \in [Calls -> PassStates]
    /\ trail \subseteq Events \X Calls
    /\ outbox \subseteq Hooks \X Calls \X Decisions
    /\ operations \in 0 .. MaxOperations
    /\ crashes \in 0 .. MaxCrashes

Init ==
    /\ phase = [c \in Calls |-> "new"]
    /\ client = [c \in Calls |-> "none"]
    /\ evidence = [c \in Calls |-> [duplicates |-> NotRun, conflicts |-> {}]]
    /\ loop = Idle
    /\ rows = [c \in Calls |-> NoRow]
    /\ index = {} /\ faces = {} /\ blobs = {}
    /\ passes = [c \in Calls |-> "none"]
    /\ trail = {} /\ outbox = {}
    /\ operations = 0 /\ crashes = 0

------------------------------------------------------------------------------
LoopFree == loop.step = "idle"
Exists(v) == rows[v].decision # "none"
Go(step) == loop' = [loop EXCEPT !.step = step]

\* Mutant: the key is looked up among verified registrations only.
KeyTaken_VerifiedOnly(c) ==
    /\ Request[c].key # NoKey
    /\ \E v \in Calls : rows[v].decision = "verified" /\ Request[v].key = Request[c].key

\* find_by_idempotency_key, and the UNIQUE (tenant, idempotency_key) constraint.
KeyTaken(c) ==
    /\ Request[c].key # NoKey
    /\ \E v \in Calls : Exists(v) /\ Request[v].key = Request[c].key

\* create_verification: answer an earlier verification with this key, or queue the job.  The
\* files are read between the two; a call that waits there waits here in the queue.
Submit(c) ==
    /\ LoopFree /\ phase[c] = "new"
    /\ \/ /\ KeyTaken(c)
          /\ phase' = [phase EXCEPT ![c] = "answered"]
          /\ client' = [client EXCEPT ![c] = "existing"]
       \/ /\ ~KeyTaken(c)
          /\ phase' = [phase EXCEPT ![c] = "queued"]
          /\ \E mode \in {"waiting", "accepted"} : client' = [client EXCEPT ![c] = mode]
    /\ UNCHANGED <<evidence, loop, store, outbox, operations, crashes>>

\* wait_for timed out: the caller gets 202 and the job goes on.
SyncTimeout(c) ==
    /\ LoopFree /\ client[c] = "waiting" /\ phase[c] \in InFlight
    /\ client' = [client EXCEPT ![c] = "accepted"]
    /\ UNCHANGED <<phase, evidence, loop, store, outbox, operations, crashes>>

\* A free worker takes a queued job and starts its checks.
Start(c) ==
    /\ LoopFree /\ phase[c] = "queued"
    /\ Cardinality({d \in Documents : phase[d] \in {"checking", "checked", "saving"}}) < Workers
    /\ phase' = [phase EXCEPT ![c] = "checking"]
    /\ UNCHANGED <<client, evidence, loop, store, outbox, operations, crashes>>

------------------------------------------------------------------------------
\* The duplicates check.  Equality of names stands for name_score >= APPROVE_AT.
OtherRegistration(c, v) == Request[v].registration # Request[c].registration
OtherPerson(c, v) == OtherRegistration(c, v) /\ Request[v].name # Request[c].name
SharesId(c, v) == Request[c].ids \cap Request[v].ids # {}
SharesFact(c, v, fact) == Request[c][fact] # NoKey /\ Request[v][fact] = Request[c][fact]

IdConflicts(c) == { v \in index : OtherPerson(c, v) /\ SharesId(c, v) }
ImageConflicts(c) == { v \in index : OtherPerson(c, v) /\ SharesFact(c, v, "image") }
FaceConflicts(c) == { v \in faces : OtherPerson(c, v) /\ SharesFact(c, v, "face") /\ ~SharesId(c, v) }
OthersOnDevice(c) ==
    { Request[v].name : v \in { v \in index : OtherPerson(c, v) /\ SharesFact(c, v, "device") } }

DuplicateFindings(c) ==
    { code \in DuplicateCodes :
        \/ code = "DUPLICATE_ID_OTHER_IDENTITY" /\ IdConflicts(c) # {}
        \/ code = "DUPLICATE_IMAGE" /\ ImageConflicts(c) # {}
        \/ code = "DUPLICATE_FACE_OTHER_IDENTITY" /\ FaceConflicts(c) # {}
        \/ /\ code = "DEVICE_SHARED_BY_MANY" /\ Request[c].device # NoKey
           /\ Cardinality(OthersOnDevice(c)) >= DeviceManyIdentities }

DuplicatesResult(c) ==
    LET known == \E v \in index : /\ OtherRegistration(c, v) /\ SharesId(c, v)
                                  /\ Request[v].name = Request[c].name
    IN  IF DuplicateFindings(c) # {}
        THEN result("warn", DuplicateFindings(c), UNUSABLE)
        ELSE result("pass", IF known THEN {"SAME_PERSON_KNOWN"} ELSE {}, UNUSABLE)

\* The index is read from a thread, whatever the loop is doing.  The four lookups are one
\* step: an entry that appears between two of them counts as seen by all or by none.
ReadIndex(c) ==
    /\ phase[c] = "checking"
    /\ phase' = [phase EXCEPT ![c] = "checked"]
    /\ \/ evidence' = [evidence EXCEPT ![c] =
              [ duplicates |-> DuplicatesResult(c),
                conflicts  |-> IdConflicts(c) \cup ImageConflicts(c) \cup FaceConflicts(c) ]]
       \/ evidence' = [evidence EXCEPT ![c].duplicates =
              result("error", {"DUPLICATE_INDEX_UNAVAILABLE"}, UNUSABLE)]
    /\ UNCHANGED <<client, loop, store, outbox, operations, crashes>>

\* The quality gate failed: no later check runs, so the index is not read.
StopAtQuality(c) ==
    /\ phase[c] = "checking"
    /\ phase' = [phase EXCEPT ![c] = "checked"]
    /\ UNCHANGED <<client, evidence, loop, store, outbox, operations, crashes>>

------------------------------------------------------------------------------
Unusable == [ name \in {"quality"} |-> result("fail", {"IMAGE_BLURRY"}, UNUSABLE) ]

DocumentResults(c) ==
    IF evidence[c].duplicates.status = "skipped"
    THEN {Unusable}
    ELSE { With(ledger, "duplicates", evidence[c].duplicates) : ledger \in Ledgers[c] }

\* Mutant: the decision is stored as the automated one only.
RowFor_AutomatedOnly(outcome) ==
    [ NoRow EXCEPT !.automated = outcome.decision,
                   !.level     = outcome.level,
                   !.duplicate = "duplicate_suspected" \in outcome.flags ]

\* The row save_verification inserts for the outcome of decide().
RowFor(outcome) ==
    [ NoRow EXCEPT !.decision  = outcome.decision,
                   !.automated = outcome.decision,
                   !.level     = outcome.level,
                   !.duplicate = "duplicate_suspected" \in outcome.flags ]

\* _finalise, first statement: decide and insert the row.
FinaliseDocument(c) ==
    /\ LoopFree /\ c \in Documents /\ phase[c] = "checked" /\ ~KeyTaken(c)
    /\ \E results \in DocumentResults(c) :
           rows' = [rows EXCEPT ![c] = RowFor(decide(results, Request[c].policy.min))]
    /\ phase' = [phase EXCEPT ![c] = "saving"]
    /\ loop' = [step |-> "blobs", call |-> c, other |-> Nobody, todo |-> evidence[c].conflicts]
    /\ UNCHANGED <<client, evidence, index, faces, blobs, passes, trail, outbox, operations, crashes>>

\* Mutant: the worker answers the caller but does not end the job.
FinaliseRejected_Hangs(c) ==
    /\ LoopFree /\ c \in Documents /\ phase[c] = "checked" /\ KeyTaken(c)
    /\ client' = [client EXCEPT ![c] = IF @ = "waiting" THEN "error" ELSE @]
    /\ UNCHANGED <<phase, evidence, loop, store, outbox, operations, crashes>>

\* The insert breaks UNIQUE (tenant, idempotency_key): the job fails with an internal error.
FinaliseRejected(c) ==
    /\ LoopFree /\ c \in Documents /\ phase[c] = "checked" /\ KeyTaken(c)
    /\ phase' = [phase EXCEPT ![c] = "failed"]
    /\ client' = [client EXCEPT ![c] = IF @ = "waiting" THEN "error" ELSE @]
    /\ UNCHANGED <<evidence, loop, store, outbox, operations, crashes>>

\* Mutant: a pass counts whether it was revoked or not.
PassResults_NoRevocation(c, presented, token) ==
    LET policy == Request[c].policy
        level == rows[presented].level
        refused(status, code) == result(status, {code}, UNUSABLE)
    IN  IF ~policy.accept THEN refused("fail", "PASS_NOT_ACCEPTED")
        ELSE IF token = "invalid" THEN refused("fail", "PASS_INVALID")
        ELSE IF Request[c].subject # Request[presented].subject
             THEN refused("warn", "PASS_SUBJECT_MISMATCH")
        ELSE IF token = "expired" THEN refused("fail", "PASS_EXPIRED")
        ELSE IF level < policy.min THEN refused("fail", "PASS_LEVEL_TOO_LOW")
        ELSE result("pass", {"PASS_ACCEPTED"}, level)

\* _check_pass: the token is the one issued for an earlier verification, unless it is invalid.
Tokens == {"valid", "expired", "invalid"}
PassResults(c, presented, token) ==
    LET policy == Request[c].policy
        level == rows[presented].level
        refused(status, code) == result(status, {code}, UNUSABLE)
    IN  IF ~policy.accept THEN refused("fail", "PASS_NOT_ACCEPTED")
        ELSE IF token = "invalid" THEN refused("fail", "PASS_INVALID")
        ELSE IF Request[c].subject # Request[presented].subject
             THEN refused("warn", "PASS_SUBJECT_MISMATCH")
        ELSE IF token = "expired" THEN refused("fail", "PASS_EXPIRED")
        ELSE IF passes[presented] # "active" THEN refused("warn", "PASS_REVOKED")
        ELSE IF level < policy.min THEN refused("fail", "PASS_LEVEL_TOO_LOW")
        ELSE result("pass", {"PASS_ACCEPTED"}, level)

\* verify_with_pass and verify_pass: no await suspends, so check, decide and insert are one step.
VerifyWithPass(c) ==
    LET presented == Request[c].pass IN
    /\ LoopFree /\ c \in PassCalls /\ phase[c] = "new"
    /\ passes[presented] # "none" /\ client[presented] = "result"
    /\ \/ /\ KeyTaken(c)
          /\ phase' = [phase EXCEPT ![c] = "answered"]
          /\ client' = [client EXCEPT ![c] = "existing"]
          /\ UNCHANGED <<loop, rows>>
       \/ /\ ~KeyTaken(c)
          /\ \E token \in Tokens, ledger \in Ledgers[c] :
               LET check == PassResults(c, presented, token)
                   others == IF check.status = "pass" THEN ledger ELSE <<>>
               IN rows' = [rows EXCEPT ![c] =
                              RowFor(decide(With(others, "pass", check), Request[c].policy.min))]
          /\ phase' = [phase EXCEPT ![c] = "saving"]
          /\ client' = [client EXCEPT ![c] = "waiting"]
          /\ loop' = [step |-> "index", call |-> c, other |-> Nobody, todo |-> {}]
    /\ UNCHANGED <<evidence, index, faces, blobs, passes, trail, outbox, operations, crashes>>

------------------------------------------------------------------------------
\* The rest of _finalise, statement by statement.
At(step) == loop.step = step

\* Mutant: images are kept for whatever was not verified.
KeepImages_Unverified(row) ==
    \/ ImageStorage = "all"
    \/ ImageStorage = "review_only" /\ row.decision # "verified"

KeepImages(row) ==
    \/ ImageStorage = "all"
    \/ ImageStorage = "review_only" /\ row.decision = "needs_review"

SaveBlobs ==
    /\ At("blobs") /\ Go("index")
    /\ blobs' = IF KeepImages(rows[loop.call]) THEN blobs \cup {loop.call} ELSE blobs
    /\ UNCHANGED <<phase, client, evidence, rows, index, faces, passes, trail, outbox, operations, crashes>>

\* _index: nothing when the duplicates check did not run or broke.
Index ==
    /\ At("index") /\ Go("audit")
    /\ LET c == loop.call
           ran == evidence[c].duplicates.status \in {"pass", "warn"}
       IN  /\ index' = IF ran THEN index \cup {c} ELSE index
           /\ faces' = IF ran /\ Request[c].face # NoKey THEN faces \cup {c} ELSE faces
    /\ UNCHANGED <<phase, client, evidence, rows, blobs, passes, trail, outbox, operations, crashes>>

AuditCreated ==
    /\ At("audit") /\ Go("pass")
    /\ trail' = trail \cup {<<"created", loop.call>>}
    /\ UNCHANGED <<phase, client, evidence, rows, index, faces, blobs, passes, outbox, operations, crashes>>

\* Mutant: the decision is not looked at.
EarnsPass_AnyDecision(c) ==
    /\ Request[c].subject # NoKey
    /\ c \notin PassCalls
    /\ Request[c].policy.issue
    /\ rows[c].level >= CONSISTENT

EarnsPass(c) ==
    /\ Request[c].subject # NoKey
    /\ c \notin PassCalls
    /\ Request[c].policy.issue
    /\ rows[c].decision = "verified"
    /\ rows[c].level >= CONSISTENT
    /\ ~rows[c].duplicate

\* _maybe_issue_pass and record_pass (the insert and its audit entry).
IssuePass ==
    /\ At("pass") /\ Go("notify")
    /\ LET c == loop.call IN
       \/ /\ EarnsPass(c)
          /\ passes' = [passes EXCEPT ![c] = "active"]
          /\ trail' = trail \cup {<<"issued", c>>}
       \/ ~EarnsPass(c) /\ UNCHANGED <<passes, trail>>
    /\ UNCHANGED <<phase, client, evidence, rows, index, faces, blobs, outbox, operations, crashes>>

Notify ==
    /\ At("notify") /\ Go("flag")
    /\ LET c == loop.call
           event == IF Request[c].policy.enforced THEN "completed" ELSE "shadow_completed"
       IN  outbox' = outbox \cup {<<event, c, rows[c].decision>>}
    /\ UNCHANGED <<phase, client, evidence, store, operations, crashes>>

\* Mutants: the flag is not set; the decision is left alone; a person's decision is not spared.
FlaggedRow_ReasonOnly(row) ==
    [ row EXCEPT !.flagged = TRUE,
                 !.decision = IF row.review = "none" /\ @ = "verified" THEN "needs_review" ELSE @ ]
FlaggedRow_KeepsDecision(row) == [row EXCEPT !.flagged = TRUE, !.duplicate = TRUE]
FlaggedRow_OverridesPerson(row) ==
    [ row EXCEPT !.flagged = TRUE, !.duplicate = TRUE,
                 !.decision = IF @ = "verified" THEN "needs_review" ELSE @ ]

\* _flag_conflict up to update_verification, for one of the conflicts.
FlaggedRow(row) ==
    [ row EXCEPT !.flagged = TRUE, !.duplicate = TRUE,
                 !.decision = IF row.review = "none" /\ @ = "verified" THEN "needs_review" ELSE @ ]

FlagConflict(other) ==
    /\ At("flag") /\ other \in loop.todo
    /\ \/ /\ ~Exists(other) \/ rows[other].flagged
          /\ loop' = [loop EXCEPT !.todo = @ \ {other}]
          /\ UNCHANGED rows
       \/ /\ Exists(other) /\ ~rows[other].flagged
          /\ rows' = [rows EXCEPT ![other] = FlaggedRow(@)]
          /\ loop' = [loop EXCEPT !.step = "revoke", !.other = other, !.todo = @ \ {other}]
    /\ UNCHANGED <<phase, client, evidence, index, faces, blobs, passes, trail, outbox, operations, crashes>>

\* Mutant: revocations leave no trace.
RevocationEntry_None(v) == {}

Revoked(v) == [passes EXCEPT ![v] = IF @ = "active" THEN "revoked" ELSE @]
RevocationEntry(v) == IF passes[v] = "active" THEN {<<"revoked", v>>} ELSE {}

\* Mutant: the passes of the new verification are revoked, not those of the flagged one.
RevokeFlagged_WrongOne ==
    /\ At("revoke") /\ Go("report")
    /\ passes' = Revoked(loop.call)
    /\ trail' = trail \cup RevocationEntry(loop.call)
    /\ UNCHANGED <<phase, client, evidence, rows, index, faces, blobs, outbox, operations, crashes>>

\* revoke_passes_for_verification of the flagged verification.
RevokeFlagged ==
    /\ At("revoke") /\ Go("report")
    /\ passes' = Revoked(loop.other)
    /\ trail' = trail \cup RevocationEntry(loop.other)
    /\ UNCHANGED <<phase, client, evidence, rows, index, faces, blobs, outbox, operations, crashes>>

\* Mutant: the platform is not told.
ReportFlagged_Silent ==
    /\ At("report")
    /\ loop' = [loop EXCEPT !.step = "flag", !.other = Nobody]
    /\ trail' = trail \cup {<<"flagged", loop.other>>}
    /\ UNCHANGED <<phase, client, evidence, rows, index, faces, blobs, passes, outbox, operations, crashes>>

ReportFlagged ==
    /\ At("report")
    /\ loop' = [loop EXCEPT !.step = "flag", !.other = Nobody]
    /\ trail' = trail \cup {<<"flagged", loop.other>>}
    /\ outbox' = outbox \cup {<<"flagged", loop.other, rows[loop.other].decision>>}
    /\ UNCHANGED <<phase, client, evidence, rows, index, faces, blobs, passes, operations, crashes>>

\* The result, with the pass token if one was issued, goes to a caller that still waits.
Return ==
    /\ At("flag") /\ loop.todo = {}
    /\ phase' = [phase EXCEPT ![loop.call] = "done"]
    /\ client' = [client EXCEPT ![loop.call] = IF @ = "waiting" THEN "result" ELSE @]
    /\ loop' = Idle
    /\ UNCHANGED <<evidence, store, outbox, operations, crashes>>

------------------------------------------------------------------------------
\* People: a reviewer decides, the platform revokes a pass, a participant asks for erasure.
Operate ==
    /\ LoopFree /\ operations < MaxOperations
    /\ operations' = operations + 1

\* review_verification; add_review takes any verification, reviewed before or not.
Review(v, action) ==
    /\ Operate /\ Exists(v)
    /\ rows' = [rows EXCEPT ![v].review = action, ![v].decision = ReviewDecisions[action]]
    /\ loop' = [Idle EXCEPT !.step = "review_audit", !.call = v]
    /\ UNCHANGED <<phase, client, evidence, index, faces, blobs, passes, trail, outbox, crashes>>

AuditReview ==
    /\ At("review_audit") /\ Go("review_images")
    /\ trail' = trail \cup {<<"reviewed", loop.call>>}
    /\ UNCHANGED <<phase, client, evidence, rows, index, faces, blobs, passes, outbox, operations, crashes>>

DeleteReviewedImages ==
    /\ At("review_images") /\ Go("review_notify")
    /\ \/ /\ ImageStorage = "review_only" /\ loop.call \in blobs
          /\ blobs' = blobs \ {loop.call}
          /\ trail' = trail \cup {<<"images_deleted", loop.call>>}
       \/ /\ ~(ImageStorage = "review_only" /\ loop.call \in blobs)
          /\ UNCHANGED <<blobs, trail>>
    /\ UNCHANGED <<phase, client, evidence, rows, index, faces, passes, outbox, operations, crashes>>

NotifyReview ==
    /\ At("review_notify") /\ loop' = Idle
    /\ outbox' = outbox \cup {<<"reviewed", loop.call, rows[loop.call].decision>>}
    /\ UNCHANGED <<phase, client, evidence, store, operations, crashes>>

RevokePass(v) ==
    /\ Operate /\ passes[v] = "active"
    /\ passes' = Revoked(v)
    /\ trail' = trail \cup RevocationEntry(v)
    /\ UNCHANGED <<phase, client, evidence, loop, rows, index, faces, blobs, outbox, crashes>>

\* Store.erase, statement by statement, under the store's lock up to the audit entry.
Erase(v) ==
    /\ Operate /\ Exists(v)
    /\ blobs' = blobs \ {v}
    /\ loop' = [Idle EXCEPT !.step = "erase_faces", !.call = v]
    /\ UNCHANGED <<phase, client, evidence, rows, index, faces, passes, trail, outbox, crashes>>

EraseFaces ==
    /\ At("erase_faces") /\ Go("erase_index")
    /\ faces' = faces \ {loop.call}
    /\ UNCHANGED <<phase, client, evidence, rows, index, blobs, passes, trail, outbox, operations, crashes>>

\* Mutant: the identity index is forgotten.
EraseIndex_Forgotten ==
    /\ At("erase_index") /\ Go("erase_row")
    /\ UNCHANGED <<phase, client, evidence, store, outbox, operations, crashes>>

EraseIndex ==
    /\ At("erase_index") /\ Go("erase_row")
    /\ index' = index \ {loop.call}
    /\ UNCHANGED <<phase, client, evidence, rows, faces, blobs, passes, trail, outbox, operations, crashes>>

EraseRow ==
    /\ At("erase_row") /\ Go("erase_passes")
    /\ rows' = [rows EXCEPT ![loop.call].erased = TRUE]
    /\ UNCHANGED <<phase, client, evidence, index, faces, blobs, passes, trail, outbox, operations, crashes>>

ErasePasses ==
    /\ At("erase_passes") /\ Go("erase_audit")
    /\ passes' = Revoked(loop.call)
    /\ trail' = trail \cup RevocationEntry(loop.call)
    /\ UNCHANGED <<phase, client, evidence, rows, index, faces, blobs, outbox, operations, crashes>>

AuditErased ==
    /\ At("erase_audit") /\ loop' = Idle
    /\ trail' = trail \cup {<<"erased", loop.call>>}
    /\ UNCHANGED <<phase, client, evidence, rows, index, faces, blobs, passes, outbox, operations, crashes>>

------------------------------------------------------------------------------
\* purge_expired, from the sweeper thread: images and face entries past the retention period.
Purge(v) ==
    /\ loop.step \notin EraseLocked
    /\ v \in blobs \cup faces
    /\ blobs' = blobs \ {v}
    /\ faces' = faces \ {v}
    /\ trail' = trail \cup {<<"purged", v>>}
    /\ UNCHANGED <<phase, client, evidence, loop, rows, index, passes, outbox, operations, crashes>>

\* The process stops: the queue, the running jobs and the handler in progress are gone.
Crash ==
    /\ crashes < MaxCrashes
    /\ crashes' = crashes + 1
    /\ phase' = [c \in Calls |-> IF phase[c] \in InFlight THEN "lost" ELSE phase[c]]
    /\ client' = [c \in Calls |-> IF client[c] = "waiting" THEN "error" ELSE client[c]]
    /\ loop' = Idle
    /\ UNCHANGED <<evidence, store, outbox, operations>>

FinaliseStep ==
    \/ SaveBlobs \/ Index \/ AuditCreated \/ IssuePass \/ Notify
    \/ \E other \in Calls : FlagConflict(other)
    \/ RevokeFlagged \/ ReportFlagged \/ Return
ReviewStep == AuditReview \/ DeleteReviewedImages \/ NotifyReview
EraseStep == EraseFaces \/ EraseIndex \/ EraseRow \/ ErasePasses \/ AuditErased

DocumentStep(c) ==
    \/ Submit(c) \/ SyncTimeout(c) \/ Start(c) \/ ReadIndex(c) \/ StopAtQuality(c)
    \/ FinaliseDocument(c) \/ FinaliseRejected(c)

Next ==
    \/ \E c \in Documents : DocumentStep(c)
    \/ \E c \in PassCalls : VerifyWithPass(c)
    \/ FinaliseStep \/ ReviewStep \/ EraseStep
    \/ \E v \in Calls : \/ \E action \in ReviewActions : Review(v, action)
                        \/ RevokePass(v) \/ Erase(v) \/ Purge(v)
    \/ Crash

Spec == Init /\ [][Next]_vars

\* Loop handlers and worker jobs always get their turn; people and crashes need not come.
Fairness ==
    /\ WF_vars(FinaliseStep) /\ WF_vars(ReviewStep) /\ WF_vars(EraseStep)
    /\ \A c \in Documents :
         /\ SF_vars(Start(c))
         /\ WF_vars(ReadIndex(c) \/ StopAtQuality(c))
         /\ SF_vars(FinaliseDocument(c) \/ FinaliseRejected(c))

FairSpec == Spec /\ Fairness

------------------------------------------------------------------------------
(* Properties *)

\* A reviewer's decision stands until a person changes it: a duplicate found
\* later marks the verification but does not move the decision (_flag_conflict
\* looks at other.review before it demotes).
HumanDecisionStands ==
    \A v \in Calls : rows[v].review # "none" => rows[v].decision = ReviewDecisions[rows[v].review]

\* An automatic VERIFIED has the event's minimum evidence and no duplicate
\* suspicion, neither its own nor one found later by another registration.
VerifiedIsEarned ==
    \A v \in Calls :
        rows[v].decision = "verified" /\ rows[v].review = "none" =>
            rows[v].level >= Request[v].policy.min /\ ~rows[v].duplicate /\ ~rows[v].flagged

\* While the process has not crashed, no active pass stands behind a
\* verification under duplicate suspicion, except between the two statements
\* of _flag_conflict that mark it and revoke its pass.
FlaggedPassIsDead ==
    crashes = 0 =>
        \A v \in Calls :
            rows[v].duplicate /\ ~(At("revoke") /\ loop.other = v) => passes[v] # "active"

\* Erasure is complete: a row marked erased has no image, no face and no index
\* entry, and nothing that was in flight puts one back, even across a crash.
ErasedLeavesNothing ==
    \A v \in Calls : rows[v].erased => v \notin blobs \cup faces \cup index

\* Under review_only, an image is kept only while its verification was sent to
\* a person who has not decided yet (and while the process has not crashed).
KeptImagesAwaitReview ==
    ImageStorage = "review_only" /\ crashes = 0 /\ LoopFree =>
        \A v \in blobs : rows[v].automated = "needs_review" /\ rows[v].review = "none"

\* An idempotency key names at most one verification, however many retries run
\* at the same time and whichever of them reaches the store first.
OneVerificationPerKey ==
    \A v, w \in Calls :
        Exists(v) /\ Exists(w) /\ Request[v].key # NoKey /\ Request[v].key = Request[w].key => v = w

\* A conflict that a check found marks both registrations by the time its handler is done,
\* whatever else happened to the other one since the index was read: reviewed, flagged by a
\* third, purged or erased.
FoundConflictMarksBoth ==
    LoopFree /\ crashes = 0 =>
        \A v \in Documents, w \in Calls :
            Exists(v) /\ w \in evidence[v].conflicts => rows[v].duplicate /\ rows[w].duplicate

\* The platform has been told the current decision of every verification: each
\* handler that changes a decision schedules a webhook with the new one.
DecisionAnnounced ==
    LoopFree /\ crashes = 0 =>
        \A v \in Calls : Exists(v) => \E event \in Hooks : <<event, v, rows[v].decision>> \in outbox

\* Nothing happens to a verification without an audit entry that says so.
AuditComplete ==
    LoopFree /\ crashes = 0 =>
        \A v \in Calls :
            /\ Exists(v) => <<"created", v>> \in trail
            /\ rows[v].flagged => <<"flagged", v>> \in trail
            /\ rows[v].review # "none" => <<"reviewed", v>> \in trail
            /\ rows[v].erased => <<"erased", v>> \in trail
            /\ passes[v] # "none" => <<"issued", v>> \in trail
            /\ passes[v] = "revoked" => <<"revoked", v>> \in trail

\* A pass verifies a registration only while it is active, and while the
\* verification it came from is neither erased nor under suspicion.
PassVerifiesOnlyWhileLive ==
    [][ \A c \in PassCalls :
          ~Exists(c) /\ rows'[c].decision = "verified" =>
              LET source == Request[c].pass IN
              /\ passes[source] = "active"
              /\ crashes = 0 => ~rows[source].duplicate /\ ~rows[source].erased ]_vars

\* What DecisionRecord sees of a row.
Kept(row) == [ decision |-> row.decision, flagged |-> row.flagged,
               person |-> row.review # "none", erased |-> row.erased ]
KeptRows == [v \in Calls |-> Kept(rows[v])]

\* The stored record and its pass keep the promise of DecisionRecord.
Record == INSTANCE DecisionRecord WITH
    Verifications <- Calls,
    MachineDecisions <- Decisions,
    PersonDecisions <- {"verified", "not_eligible", "action_required"},
    record <- KeptRows,
    pass <- passes
KeepsRecord == Record!Spec

\* Every accepted job ends: done, failed, or lost with the process.
EveryJobEnds == \A c \in Documents : phase[c] = "queued" ~> phase[c] \notin InFlight

(* What documents say and the code does not do *)

\* "Idempotency-Key makes retries safe" (docs/WALKTHROUGH.md:93): no job fails
\* because an earlier call with its key got to the store first.
RetryIsSafe == \A c \in Calls : phase[c] # "failed"

\* "Conflicts go to review for both registrations" (duplicates.py:29): two
\* indexed verifications of different registrations and names that share an ID,
\* an image or a face both carry the suspicion.
Conflicting(v, w) ==
    /\ OtherPerson(v, w)
    /\ \/ SharesId(v, w) \/ SharesFact(v, w, "image")
       \/ SharesFact(v, w, "face") /\ {v, w} \subseteq faces
ConflictFlaggedOnBothSides ==
    LoopFree /\ crashes = 0 =>
        \A v, w \in index : Conflicting(v, w) => rows[v].duplicate /\ rows[w].duplicate
==============================================================================
