# Verification of Pehchaan

Pehchaan verifies the identity and eligibility of people who register for an
event: a photo of an ID card (or an earlier pass, or the Aadhaar App) goes in, a
decision with reasons comes out, people review what the machine does not decide.
This directory holds TLA+ models of that service, TLC configurations that check
them on small instances, and TLAPS proofs for every instance.

Paths below are relative to `src/api/src/pehchaan/` unless they start with `docs/`.

## 1. Inventory

| component | state | operations | talks to |
|---|---|---|---|
| API (`api/routes.py`) | none of its own | submit, use a pass, poll a job, review, outcome, erase, revoke a pass, policies, Aadhaar App sessions | queue, verifier, store, webhooks |
| Work queue (`pipeline/queue.py`) | `asyncio.Queue`, workers, job memory | submit, worker loop, remember, stop | runs the verifier; futures wake the API |
| Verifier (`pipeline/service.py`) | per-call context | verify_document, verify_pass, verify_aadhaar_app, _finalise, _flag_conflict | checks, decision, store, passes, webhooks |
| Checks (`pipeline/checks/`, `orchestrator.py`) | shared `VerificationContext` | nine checks in five stages | engines; `duplicates` reads the store from a thread |
| Decision engine (`domain/decision.py`, `reasons.py`) | none | evidence_level, decide | - |
| Store (`store/sqlite.py`) | verifications, blobs, identity and face index, passes, sessions, policies, audit log | one committed statement at a time, a lock per process | SQLite file shared by processes |
| Passes (`passes.py`) | signing key | issue, verify | the passes table knows revocation |
| Webhooks (`webhooks.py`) | delivery tasks | send, deliver with three retries | the platform |
| Retention sweep (`main.py`) | - | purge_expired, hourly, in a thread | store |
| Keys and rate limits (`security.py`) | token buckets | allow | API |
| Card and QR reading (`documents/parse.py`, `aadhaar/secure_qr.py`, `checks/extract.py`) | the fields of one card | extract_fields, missing_queries, decode, verify, merge | OCR, Textract, certificates |
| OCR engines, faces, images | - | numerical code | checks |
| Copilot, web client, evaluation, demo | - | read, show, measure | API |

**What is hard.** Handlers and workers share one asyncio loop, so a handler is
atomic up to its next `await`; but the duplicates check and the sweeper run in
threads, every SQL statement commits alone, processes share the database only,
and any of it may stop at any point. Decisions are made from what was read before
(the duplicate index, the idempotency key, the number of attempts) and are
corrected afterwards (a duplicate found later, a reviewer, an erasure). A call may
end for its caller before its job ends. The checks pass each other fields of
different strength through one context. `PROJECT.json` lists these hazards by line.

**What makes each component correct.**

- *Service*: a person's decision stands; an automatic VERIFIED is backed by the
  event's minimum evidence and free of suspicion; registrations found in conflict are
  both marked; a marked verification has no live pass; erasure is complete; one
  verification per idempotency key; every decision is announced and audited.
- *Pipeline*: nobody honest is rejected, nobody out of range is verified, a check
  that could not run never counts as one that passed.
- *Queue*: bounded, no job lost or forgotten while it waits, polls tell the truth.
- *Audit log*: the chain verifies in every state.
- *Aadhaar App sessions*: a session is closed once, by an answer of its own; whoever is
  verified is of the right age on the event's day, and nobody of that age is rejected.
- *Pass path*: a pass proves no more than the attempt it was earned with, and rejects or admits
  nobody whom the card would not.
- *Card and QR reading*: every field comes from the best evidence there is for it, and is empty only without
  any, in whatever order the reads end; a code that a certificate vouches for is read as it was signed.
- *Webhooks*: nothing is announced that the audit log lacks; an event is repeated a bounded number of
  times; every delivery ends.
- *Rate limiter, policies*: a key never exceeds its rate; a version of the rules is one set of rules of
  one tenant; a call is decided by rules that were in force while it was under way.

## 2. Modules

`Catalog` and `Decision` are pure definitions used by `VerificationService`,
`Pipeline` and `AadhaarApp`. `DecisionRecord` is the abstract specification; `VerificationService`
instantiates it with a refinement mapping. Operators marked *Mutant* are plausible
bugs, used by no module: `PROJECT.json` names the property each of them breaks.

### Catalog, Decision
`domain/reasons.py` as sets of codes by effect, and `domain/decision.py`:
`evidence_level` (cumulative levels, then levels granted by a pass that passed together
with identity), `collect_reasons`, `decide`. Message texts and the confidence number
are left out: nothing depends on them.

### VerificationService
One process: API handlers, workers, `_finalise`, the sweeper.

| variable | code |
|---|---|
| `phase`, `client` | the job of a call, what its caller has received |
| `evidence` | `ctx.results["duplicates"]`, `ctx.conflicts` |
| `loop` | the handler the event loop is in the middle of, and its next statement |
| `rows` | table `verifications` |
| `index`, `faces`, `blobs`, `passes` | the tables of those names |
| `trail`, `outbox` | audit entries, webhooks scheduled |

A call of `POST /v1/verifications` goes `Submit`, `Start`, `ReadIndex` (in a thread:
enabled whatever the loop is doing) or `StopAtQuality`, then `FinaliseDocument`
and one action per statement of `_finalise`: `SaveBlobs`, `Index`, `AuditCreated`,
`IssuePass`, `Notify`, and for each conflict `FlagConflict`, `RevokeFlagged`,
`ReportFlagged`; `Return` ends the job. `SyncTimeout` is the 202 of a caller who
waited too long, `FinaliseRejected` the UNIQUE constraint on the key.
`VerifyWithPass` is the pass path up to its insert (no await in it suspends).
`Review`, `RevokePass` and `Erase` start the handlers of people, statement by statement.
`Purge` is the sweeper, kept out of `Store.erase` by the lock. `Crash` may happen in
every state: the loop and the jobs are gone, the tables stay.

Abstractions: one tenant; equality of names stands for `name_score >= APPROVE_AT`,
equality of hashes for similarity of images and faces; the four reads of the
duplicates check are one step, although each takes the lock of the store for itself
(`checks/duplicates.py:70`, `:81`, `:91`, `:99`): what another job saves between two of them is seen
by the later ones only; `Submit` looks the key up and queues the job in one step, although the files are
read in between (`api/routes.py:110`, `:124`), and that the queue is full is left to
`VerificationQueue`; inserting into the two indexes is one step;
recording or revoking a pass and its audit entry are one step; the results of the
other checks come from a set of ledgers; the order of the queue is left to
`VerificationQueue`. `verify_pass` runs two checks outside `_run_one`, so an exception
there is a 500 with nothing written: it is left out. Aadhaar App calls have a module of
their own; observed outcomes are left out.

### DecisionRecord
The promise of one record: the machine decides once, a duplicate marks once and
takes an automatic VERIFIED back to a person, only people change what people decided,
a pass is issued at most once and only for an automatic, unmarked, unerased VERIFIED,
and a revoked pass stays revoked. `KeepsRecord` says that `VerificationService` keeps it.

### Pipeline
One registration on the document path: attempts, stages, the shared context, the nine
checks, `decide`. `RunCheck` and `CheckRaises` are `_run_one`: the checks of a stage in any order,
each of which may raise after it has left part of its artefacts; `LateQr` is the QR
thread that outlives an exception of OCR; `NextStage` and `Decide` are `run_checks` and
`_finalise`. A submission is what the engines would read: a
date is a year and a day of it (leap days are not told apart);
names compare as match, partial or mismatch. Document types are Aadhaar, PAN,
college ID and unknown; the voter card, the passport and the licence, of which the rules check little more than
the number (`checks/document_rules.py:44-47`), are left out. `attempt` counts those on this path, where
`count_attempts` (`pipeline/service.py:79`) also counts those with a pass or the app. College
e-mail, institution registry and signed age attestations are left out; the duplicates
result is an input here (`Known`: any of the codes of that check, which rejects nobody and grants no
level) and computed in `VerificationService`.

### Passes
`Pipeline` with the pass that its attempt may earn: `DecideAndIssue` is `_finalise` with
`_maybe_issue_pass` and `PassAuthority.issue` (`Claims`, `Expiry`), `UsePass` is `verify_pass`: `check_pass`
with its objections in order, the fields rebuilt from the claims (`PassFields`), then the identity and
eligibility checks of `Pipeline` on those fields. A use says under which name, with which typed date of birth,
on which day and with what token it is made. The model follows the pass of the last attempt to one use.

### SecureQr, CardText, CardPrint, CardReading
What `Pipeline` takes as its input, one layer down. `CardText` is `documents/parse.py` over lines of which one
knows what the patterns find in them (label, name, date, number, height): labels with their value
beside or below, the fallbacks of each kind of card, the machine-readable zone of a passport, the questions
to Textract. `SecureQr` is the layout of the signed payload (fields, photo, hashes, signature), the choice of the
certificate, and the unsigned XML of old cards. `CardReading` composes both as `ExtractCheck.run` does:
`ReadText` and `ReadQr` on two threads, `BothRead`, `AskTextract` or `TextractFails`, `MergeSignedQr`.

What the lines of a photograph *show* of each field is not the program's, and is stated in `CardPrint` so that
properties can rest on it: a set of values (`Shown`), beside or below a label, in the line for machines, or where a card of
that kind prints it without a label. Nothing is assumed of what they show. Lines and values may be lost, in which
case the line below a label speaks for it (`documents/parse.py:198`); an institution, a roll number or a header
that `clean_name` lets pass is a name as good as any other; the answers to questions may be right, wrong or missing, and
a machine-readable zone may hold no birth year. `Shown` gives sets: which of several places the program tries first, and in
which line it stops, is for the proofs to compare. Only where a card labels nothing does it say which of the bare lines
counts, as the kind of card has it. `SecureQr!LaidOut` says what the owner of a key signs: fields up to their
delimiters, photo, hashes, signature. TLC evaluates both on every photograph and payload of the run. A zone whose
digits are no date raises outside the `try` (`documents/parse.py:281`): that exception, which ends the
check, is left out.

### RateLimiter, PolicyStore, Gateway
`RateLimiter` is the token bucket: `ReadClock` outside the lock, `Grant` and `Deny` inside, `Forget` for a process
that starts anew. Time and tokens are integers in units that make a minute's refill whole; rounding of
floats is left out, rounding of `Retry-After` is kept. `PolicyStore` is table `policies` among processes: the
read of the newest version, the insert under the primary key, the audit entry, and the seeding of the demo
events at start. `Gateway` composes them for a call: key and role, limiter, `_policy`, queue, decision; it may
be declined at each point, and processes end.

### Webhooks, Announcements
`Webhooks` is `WebhookSender`: one task per announced change, `Post`, the platform's answer, `Heard` or `Unheard`, up to
four attempts; a request may still arrive after its sender stopped waiting (`Straggler`), and `ProcessEnds` loses all
tasks. An answer may be a redirect, which `httpx` does not follow and `webhooks.py:65` takes for final: the delivery
ends and nothing was taken.

`Announcements` composes it with `AuditLog` on the event loop: a handler that has changed a verification (`Change`) writes
its entry (`EnterAudit`, `ReadLast`, `WriteEntry`) and then sends (`Tell`), without giving up the loop; other
threads write entries meanwhile, deliveries run when no handler does, and `Stop` ends a process anywhere.

### VerificationQueue
`pipeline/queue.py` with the calls that wait on it: the FIFO, the workers, `_remember` with
its eviction, `wait_for(shield(...))`, shutdown. `Finish` is a worker's whole iteration
after the job has ended. A job ends with a result or an exception.

### AadhaarApp
The OpenID4VP path: `api/routes.py` from the session to the callback, `aadhaar/app_vc.py`,
`Verifier.verify_aadhaar_app`.

| variable | code |
|---|---|
| `resident` | who stands behind each session, and what the form says |
| `policy`, `published` | the latest row of table `policies` |
| `session`, `expired` | table `vc_sessions`, and which rows are past `expires_at` |
| `sent` | presentations made by the app; any may be posted again, or elsewhere |
| `callback` | where the handler of each process is |
| `verifications` | what was saved, known by what it was made from |
| `accepted` | the callbacks answered 200 |

`StartSession`, `Present` (the app fetches its request, and shares all or part of it), then per
callback `Receive` (the session is looked up, the presentation verified, the rules read), `Save`
(the insert of `_finalise`) and `Complete` (`UPDATE ... WHERE status = 'pending'`, 200 or 409).
`Expire`, `PurgeSessions`, `Publish` and `Crash` come in between. `Outcome` is the decision:
`identity` and `eligibility` on signed claims, then `decide`. An attestation speaks of today, a rule of
the event's day: a resident has an age on that day and perhaps a birthday before it.
Signatures and digests are abstracted to whether the issuer signed it, and whether it names a
holder key that answers this session's nonce. A form is about the person behind its session. College e-mail
is left out (informative only), and so is what `_finalise` does after the insert.

### AuditLog
`Store.audit` among the threads of several processes: `Acquire`, `Read`, `Insert`,
`Crash`. SHA-256 is taken to be injective, so a hash is the sequence of contents it covers. Threads may belong to
one process (`OneProcess` in `MCAnnouncements`, the run) or to two (`TwoProcesses`, section 3).

## 3. Runs

| run | question | instance |
|---|---|---|
| `Service` | is a conflict that was found marked on both sides, do the passes of marked ones die, is VERIFIED earned, do people's decisions stand, is erasure complete, are images, webhooks, audit entries and passes consistent with the decisions, is the record's promise kept? | 2 documents in conflict, the second perhaps too young, and a use of the first one's pass, 2 workers, 2 operations, 1 crash; 2.5 million states |
| `Retry` | one verification per key; does every job end? | a call, its retry and a pass call with one key, 2 workers, 1 crash, fairness; 3 thousand states |
| `Pipeline` | who may be verified, who may not be rejected, with a card and with the pass it earned; is a QR asked for once? | `MCPipeline` on `Passes`: all combinations of printed, signed and typed dates of birth around the limit, one variation of everything else, 6 policies, 2 attempts, one use of the pass; 237 thousand states |
| `Queue` | are the bounds kept and the answers true, does every job end and every caller get an answer? | 4 jobs, 1 worker, queue of 1, memory of 2, fairness; 117 thousand states |
| `AadhaarApp` | does an accepted answer stand, is a session closed by its own answer, is the age right? | 2 sessions, 2 processes, 1 presentation shown any number of times to either session, 2 verifications, 3 versions of the rules of which one follows another, crashes without bound; 1.8 million states |
| `Gateway` | does the rate hold, is Retry-After enough, are versions one per number, which rules decide? | 2 calls of a key with a limit of 1 per minute and a call of a key without the permission, 2 processes and 2 tenants with one event, 2 versions, clock steps of 35 and 85 half seconds up to a minute; 977 thousand states |
| `Announcements` | does the chain verify, is all that was announced recorded, how often does the platform get an event, does every delivery end? | 2 changes of one verification, the loop and the sweeper, 2 entries, 1 crash, fairness; 183 thousand states |
| `CardReading` | does every field have its evidence, and is what was signed read as it was signed? | seven kinds of card in any order and layout, lines or values lost, a school that passes for a name, right, wrong and missing answers, codes of both versions with every status, whole, damaged, unsigned or second; 38 thousand states |

**Why the bounds are enough.** Two conflicting registrations are the smallest case of every
duplicate property (two accusers of one, or two conflicts of a job, are left to the theorems, which hold for any
number); two people's operations cover every pair (review and review again, review and
erase, revoke and flag). Two crashes add nothing to one, because what a crash leaves behind
is again a state between handlers. A job memory of `2*Size + Workers - 1` (`ExactMemory`) is the exact
limit of `WaitingIsRemembered`: with one less a waiting job is forgotten (the defaults, 10000
against 401, are far above). Dates: exactly at the limit, one day short and a year over
are the cases the arithmetic tells apart. Two sessions, two callbacks and one presentation are the smallest
case of a race and of an answer that does not belong; rules that ask for a date of birth, for an
attestation because of the age limit and for one because of guardian consent are the three requests there are.
Two changes of one verification let a crash lose one announcement and not the other, and two threads are the
smallest race for the last hash. A limit of one per minute makes every call after the first one late, and the two delays are odd
numbers of half seconds, so that `Retry-After` is rounded down as well as up. Two versions suffice for a call
that is overtaken by one. A QR payload has every field that the decoder looks at, fields and photo of up to two
bytes of which one may equal the delimiter. The invariants proved in section 5 hold at every size.

`CHECK_DEADLOCK FALSE` everywhere: calls, operations and crashes are finite in number, so a model ends
when all are spent.

**Runs that find a disagreement** between the code and what a document or comment says of it
(`findings` in `PROJECT.json` quotes the lines):

| run | what happens |
|---|---|
| `DuplicateRace` | on the two workers of the default, two registrations with the same face read the index before either is in it; both are verified, and neither goes to review |
| `AppAsks` | for a minimum age of 60 (50 and 75 are alike) the session asks for an attestation only, and whoever shares it is told that a claim is missing |
| `RetryRace` | a retry that arrives while the first call runs fails on the UNIQUE constraint instead of getting the first result |
| `HardEvidence` | a signed QR with a year only makes the printed day and month count as signed: an age is confirmed out of range on a date that nobody signed and that was read with low confidence |

A property of a passing run shows more when a constant is changed:

- `Process <- TwoProcesses` in `Announcements.cfg`: two processes give two entries the same predecessor, and the chain
  no longer verifies (`ChainIntact`; `config.py:36` scales out with processes).

Met while modelling, without a run:

- A registration for a shadow event takes back the VERIFIED of an enforced one (`pipeline/service.py:328`
  does not look at the mode).
- A crash between marking a verification and revoking its pass leaves the pass active for good
  (`pipeline/service.py:330`), which is why `FlaggedPassIsDead` speaks of executions without a crash.
- A call answered 202 earns a pass whose token nobody receives.
- A first attempt that failed for another reason counts as the retake for a missing QR
  (`checks/aadhaar_qr.py:43`). `QrIsAskedForOnce` states what is left: nobody is asked twice.
- A legacy unsigned QR, or a signed one without a certificate to check it, satisfies `require_aadhaar_qr` for
  an event with an age rule (`checks/aadhaar_qr.py:46-49`).
- A pass is not asked for a selfie or a QR that the new event requires, only for its level
  (`docs/WALKTHROUGH.md:127`: "re-checked against *this* event's rules").
- Webhooks carry no order: of two changes the older may arrive last, and the platform cannot tell. Deliveries live
  in memory, and the shutdown waits for the queue but not for them (`main.py:79-85`): an event that has not gone out by
  then is lost. An address that has moved ends a delivery (`webhooks.py:65`).
- An exception of `httpx` that is not an `HTTPError` ends a delivery without a log line.
- A label whose value is lost, but not its line, takes the date of the next line, whosever it is
  (`documents/parse.py:198`), and a father's name or an institution can pass for the name. The run of
  `CardReading` has such cards: a card valid until the day its owner was born, a school as a name.
  `FieldsHaveEvidence` does not forbid that, since the lines do not tell whose a value is; it confines every
  step of the parser to the label's line and the one below.
- The buckets belong to a process (`security.py:143` says Redis in production), and a limit of
  zero, which `config.py:18` admits, divides by zero.

## 4. Fairness

`VerificationService!Fairness`: a handler on the loop continues (weak fairness of the statements: the
loop runs it to the next await), a thread that reads the index ends, and a worker gets
its turn although other handlers keep taking the loop (strong fairness of `Start` and
of the first statement of `_finalise`: they are enabled again and again, and asyncio serves ready
tasks in the order they became ready). Nothing is assumed of callers, people, timeouts,
the sweeper or crashes.
`VerificationQueue!Fairness`: a free worker takes a job, a running job ends (checks are finite
computations and have no retry loop), a woken caller continues. Nothing is assumed of
timeouts and shutdown.
`Announcements!AnnouncementsFairness`: a handler on the loop goes on, a thread inside `audit` comes out of it, the
event loop runs every delivery, and a request to a platform that stays silent times out (`webhooks.py:54`; the five seconds
are for each connection, write and read, so this leaves out a platform that sends its answer byte by byte). The platform owes nothing.

## 5. Proofs

| theorem | module | property |
|---|---|---|
| `TypeCorrectness`, `Invariance` | `VerificationService_proofs` | `TypeOK`, `Inv` |
| `PersonsDecisionStands` | | `HumanDecisionStands` |
| `VerifiedWasEarned` | | `VerifiedIsEarned` |
| `KeyNamesOneVerification` | | `OneVerificationPerKey` |
| `ErasureIsComplete` | | `ErasedLeavesNothing` |
| `FlaggedPassesDie` | | `FlaggedPassIsDead` |
| `DecisionsAreAnnounced` | | `DecisionAnnounced` |
| `TrailIsComplete` | | `AuditComplete` |
| `ImagesAwaitReview` | | `KeptImagesAwaitReview` |
| `LivePassesVerify` | | `PassVerifiesOnlyWhileLive` |
| `FoundConflictsMarkBoth` | | `FoundConflictMarksBoth` |
| `OnlyOverlapHidesConflict` | | `ConflictFlaggedOnBothSides`, unless two checks overlap |
| `RecordIsKept` | | `KeepsRecord` |
| `AcceptedAnswers` | `AadhaarApp_proofs` | `AcceptedAnswerStands` |
| `SessionsCloseByTheirOwn` | | `ClosedByItsOwn` |
| `AppVerifiedAge` | | `AppVerifiedIsOfAge` |
| `AppRejectsOnlyOutOfRange` | | `AppRejectsOutOfRange` |
| `AppMarksMinors` | | `SharedMinorIsMarked` |
| `AppAskedAndAnswered` | | for which rules what is asked for is enough |
| `PassInvariant`, `PassTypesCorrect` | `Passes_proofs` | `PassInv`, `PassTypeOK` |
| `HonestStand` | | `HonestNeverRejected` |
| `OfAgeWhenVerified` | | `VerifiedIsOfAge` |
| `StudentsWhenVerified` | | `StudentOnTheDay` |
| `PassIsNoMore` | | `PassAddsNothing` |
| `BrokenCheckStops` | | `BrokenCheckNeverVerifies` |
| `DatesAgree` | | `VerifiedDatesAgree` |
| `PresentNeedsLife` | | `PresentIsLive` |
| `QrAskedOnce` | | `QrIsAskedForOnce` |
| `AttemptsAreHandedOver`, `PassesAreHandedOver` | | what `VerificationService` takes of the document and pass paths |
| `DuplicatesAreKnown`, `DocumentsAreHanded` | `VerificationService_proofs` | what `Pipeline` takes of the duplicates check, and conversely |
| `OneProcessChainIsIntact` | `AuditLog_proofs` | `ChainIntact` |
| `AnnouncedIsRecorded` | | `NothingUnrecorded` |
| `AnnouncementsAreBoth` | | what is proved of `AuditLog` and `Webhooks` holds of `Announcements` |
| `LimiterInvariant`, `LimitIsKept` | `Gateway_proofs` | `RateHolds` |
| `WaitingSuffices` | | `RetryAfterSuffices` |
| `HistoryIsKept` | | `PolicyHistory` |
| `DecidedByRules` | | `DecidedByRulesInForce` |
| `GatewayIsBoth`, `GatewayKeepsLimits` | | `RateHolds`, `RetryAfterSuffices` and `PolicyHistory` hold of `Gateway` |
| `QueueInvariant` | `EventLoop_proofs` | `QueueInv` |
| `QueueIsBounded` | | `Bounded` |
| `WaitingIsPolled` | | `WaitingIsRemembered` |
| `CallersAreToldTruth` | | `ToldTruth` |
| `WebhookInvariant`, `WebhookRepeatsBounded` | | `RepeatsAreBounded` |
| `ReadingInvariant` | `CardReading_proofs` | `ReadingInv` |
| `FieldsAreEvidenced` | | `FieldsHaveEvidence` |
| `SignedCodesSpeakTrue` | | `SignedQrIsFaithful` |

They hold for any finite or infinite set of calls, any requests, policies, submissions, uses, ledgers and
bounds that satisfy the named assumptions of the modules (calls of both kinds are distinct, a ledger maps
names to check results, what a card says of itself is consistent and a pass is not used before it was
earned, the settings are of their type; the jobs of the queue are finite in number, which its counting
needs); `OneProcessChainIsIntact` also assumes that all threads belong to one process, which `TwoProcesses` shows to be necessary, and `OnlyOverlapHidesConflict`
that no two checks of conflicting registrations overlap, which `DuplicateRace` shows to be necessary. The limiter
is taken to have a positive limit.

`Inv` is `TypeOK` and three facts on which the rest hangs: the call a handler works on has a row
(`LoopRows`: without it `EraseRow` could mark a verification that does not exist), a
call that is not yet decided has none (`NotYetRow`: the insert starts from a blank row), and a pass has a row
(`PassHasRow`). `VerifiedIsEarned` then follows from the lemma `OutcomeRow` about `decide`: VERIFIED means that no code with
effect review, action or reject was collected, hence the minimum level and no duplicate code. `ErasedLeavesNothing`
needs two more invariants: `Fresh` (what is still to be inserted by a
handler in progress belongs to a row that is not erased) and `Erasing` (which tables the handler of
an erasure has already cleared). `FlaggedPassIsDead` needs that no pass exists before the step that
issues it, and that crashes only grow.

`DecisionAnnounced`, `AuditComplete` and `KeptImagesAwaitReview` speak of the states between handlers, so
they are not inductive: a handler that has changed a row has yet to write the entry. The invariants say who
still owes what (`OwesHook`, `OwesCreated`, `OwesReviewed`, `OwesErased`, `Flagging`, `Awaiting`); one lemma,
`OwedStep`, shows that what is owed is still owed after a step or is done, and with nothing in
progress nothing is owed. `PassVerifiesOnlyWhileLive` adds to `FlaggedPassIsDead` the same for
erasure (`ErasedPassIsDead`), and that every refusal of a pass leaves a code that keeps `decide` from VERIFIED.

`FoundConflictMarksBoth` follows a conflict from the thread that reads the index to the webhook, on any number of workers: what
a check found exists and keeps a row (`FoundIsThere`), and once the verification is saved both sides are marked or on the
handler's list (`FoundIsMarked`). That a conflict is found at all is another matter: `DuplicateRace` shows two checks that
miss each other. `OnlyOverlapHidesConflict` proves that nothing else hides one. `Apart` says that two documents that would
conflict have never both read the index while neither is in it; then a document whose checks have ended knows every conflict
in the index (`CheckedKnows`), the handler that saves it still does, and from the moment it is indexed both sides
are marked or on the handler's list.

`RecordIsKept` maps each
action to an action of `DecisionRecord` or to a stutter, one lemma for each of its actions.

`Decision_proofs` holds what both ways into the decision engine need: a level and a decision exist, what a check finds is a
reason of the outcome, VERIFIED has no reason that blocks, a rejection has a finding that rejects.

The sessions of the Aadhaar App have an invariant of their own: what a handler carries was judged for the session it
names (`MadeRight`), a handler about to close has saved its verification (`SavedRight`), a closed session names one
made for it (`Linked`), and an accepted answer stands, which is inductive because only a pending
session is closed. The theorems about age need no induction: they hold of every presentation, resident and rule of the right
type, from the findings of the two checks and the lemmas about the decision. They assume that whoever
has a birthday between today and the event has it before an event that is still ahead (`ResidentsAssumption`, a fact of the calendar).

`AppAskedAndAnswered` says which rules `AskedIsEnough` holds for: by the kinds of rules there are (no age rule, a minimum that
has an attestation, 18 for guardian consent, anything else), what is asked for leaves the age never unknown, and a claim is
missing exactly under the minimum ages 50, 60 and 75, under which nobody is verified.

An attempt on the document path is the hardest to reason about, because nine checks share a context in an order that is
not fixed, and any of them may raise after half of its work. `PassInv` says that an attempt is fresh, at work
(the results are those of the earlier stages and of the checks done in this one) or ended, and that its evidence is
in order: each verdict is `Judged`, that is, bounded by what the submission shows, however the
context looked; if nothing raised and the image is clear, the context is the one that these checks leave
(`CleanContext`) and the verdicts are those of the pure functions `extract`, `identity`, `eligibility` and so on;
what the context takes for signed was signed in any case (`SignedRight`, what `LateQr` could break). So
`BrokenCheckNeverVerifies` comes first: a verified attempt is clean, and the properties of VERIFIED are then about
pure functions. `HonestNeverRejected` may not use that, since a rejection may come of a broken attempt: there
the part of `Judged` that holds of every verdict counts, a rejecting code only where the submission is not
`Honest`. A pass carries the claims of an ended attempt, and a use was decided on its ledger, so the properties of the pass
are those of the attempt and the same lemmas on the fields rebuilt from the claims. `PassInvariant` holds for any
number of attempts: only the first has none before it, which is all that `QrIsAskedForOnce` rests on. The proof of
`HonestNeverRejected` and `PresentIsLive` failed first: the verdict of the duplicates check was any check result, and one
that rejects or grants a level breaks both. `Known` says what the check can find (`checks/duplicates.py`).

`VerificationService` and `Passes` model the same code at two scales, and each takes as a constant what the other
computes: the service any ledgers of the other checks (`Ledgers`), the document path any finding of the duplicates check
(`Known`). Four theorems show that they fit. `DuplicatesAreKnown`: whatever the interleaving, the check of
the service finds a member of `Known`; this does not depend on the ledgers, so the argument is not circular.
`AttemptsAreHandedOver`: every attempt ends with a ledger that is `Handed` over, of the types `LedgersAssumption` asks
for; its invariant `HandInv` adds that a stage is left only with a usable image, so the quality check ends an attempt alone or
all nine have a result. `DocumentsAreHanded`: so is every ledger the service saves. The service keeps one
finding where the document path has several, and `DefectsAreOne` (unreadable or blurred) and `BrokenFindingsAreOne` (a
duplicates check that raised, or could not read the index) show that the row is the same.
`PassesAreHandedOver`: the use of a pass is decided on a refusal alone, or on an acceptance with the level of
the attempt that earned it, as `PassResults` of the service has it.

In the queue, `WaitingIsRemembered` is the property whose invariant is not obvious. The memory of jobs
drops its oldest entry, and an entry grows young again whenever its job moves on. `Order` says, of each job that waits, that its
entry is only overtaken by entries of jobs that were ahead of it when it was submitted (at most `Size - 1` in the queue and
`Workers` running) or that have come in behind it (at most `Size - 1`), each of which stands in the memory once: with
`2*Size + Workers - 1` entries there is always another one to drop first (`TailPassable`, a pigeonhole). Who was ahead is
existential, because the queue does not say it. `Held` and `Told` add that a job is
waiting, running or over, in one place, and what its entry and its caller know of it. TLC checked `QueueInv`
before it was proved, on four jobs and one worker and on five jobs and two workers.
For the webhooks the invariant counts: each attempt that is over has left at most one request that was taken or is still on
the wire.

In the audit log the inductive step is `ReadIsCurrent`: what a thread in the critical section has
read is still the last hash, which follows from `LocksHeld` (a thread that is in `audit` holds the lock).
`AnnouncedIsRecorded` counts the entries on a verification against the changes announced and the one that the handler in
progress has written but not sent (`Recorded`).

The books of a token bucket are the invariant of the limiter (`Books`): what was let in since the
i-th grant, and what is left, is at most a full bucket and the refill since then. It holds even when a
reading of the clock comes late, because the bucket's time is set back with it and the refill it
loses is given back later. In the table of rules a publication that is about to insert version v has seen version v - 1 of its own
tenant (`Grounded`), and an event with rules has a first version (`HasFirst`): so a free key is the next
one. `GatewayIsBoth` maps the composition to both components, and `DecidedByRules` adds what a call
carries (`Carries`): rows are never withdrawn, and the newest of an event is one row.

`ReadingInv` says that what the extract check knows at each stage is a function of the photograph and of what was read,
whichever of its two threads was first; TLC checked it before it was proved. `FieldsHaveEvidence` and `SignedQrIsFaithful`
are then about pure functions, for cards of any number of lines and payloads of any length. The first rests, for the lines, on
one relation, `Picks(v, shown)`: the value that a step of the parser gives is one that the lines show, and it gives none only
if they show none. One lemma per step proves it (`LabelledNameIsShown`, `NameNearIsShown`,
`DateAfterIsShown`, `AadhaarNumberIsShown`, ...): most fall to `PicksAmong` (the first of the values that some lines give),
the tallest name and the Aadhaar number to `FirstInOrder` (a finite set has an element that comes first in an order with
ties), the year of a passport to `CenturyOfMrz`. A field is a chain of such steps (`NameIsShown`, `DobIsShown`, ...), and
answers and codes only fill what is left (`AnswersFillGaps`, `MergeFillsGaps`), so that each field is what the best of
its three sources gives (`LinesAsShown`, `ThreeSources`). Of
the second the core is `EndOfField`: in a payload that is laid out as the format says, the i-th delimiter ends the i-th field
although photo, hashes and signature may hold the delimiter's byte, by counting the delimiters up to
it; `DecodedAsTold` takes the fields from there, and `CertificateFacts` says that the certificate is one whose key has
signed these bytes. `SelectInSeq` is a minimum over indices, so none of this needs an induction over lists.
What is assumed: a line has the types its patterns give (`Photographed`), keys' owners sign what the format
says and nothing that another owner signed (`IssuedAssumption`), the fields of the code have distinct names,
and `None` is no value. Nothing is assumed of what the lines say. That what they show is what is printed on the card is not
claimed: where a value is lost, the next line's is taken.

**Left to TLC.** `EveryJobEnds`, `EveryoneIsServed` and `EveryEventEnds`: liveness, and fairness is
about ENABLED, which the prover does not handle. All invariants and action properties
of the passing runs are proved. Of the four that find a disagreement, theorems say for two how far
the property does hold (`OnlyOverlapHidesConflict`, `AppAskedAndAnswered`). The
type invariants that no run lists document the variables; `PassTypeOK`, `LimiterTypeOK` and `PoliciesTypeOK` are
part of the proofs.

## 6. Plan

The order was: the service with its store (where most hazards are), its abstract
specification and proofs, the pipeline, the queue, the audit log, the Aadhaar App sessions, the pass path, the
limiter with the table of rules, webhooks and their place beside the audit log, and the reading of cards. What is left:

1. *Outcomes and two tenants* in the service: one field that no decision reads, and a column that
   every query filters by.
2. *Two processes* in the service: a review and a later duplicate that overwrite each other's row
   (`hazards`, `pipeline/service.py:313`).
3. *Composition*: `VerificationQueue` as the scheduler of `VerificationService`.
4. *Reading*: the other kinds of cards' number formats, classification, name similarity.
5. *Proofs*: that the pass a document earns in `Passes` is the one the service records (the two say `EarnsPass` each
   in the terms of their own state).

## 7. Not modelled

- Classification of cards, repair of misread digits and spelling, name similarity, the institution registry
  (`documents/classify.py`, `documents/dates.py`, `names.py`, `institutions.py`): functions of strings whose verdict
  (the kind, the date, match or not) is an input of the models.
- SD-JWT, JOSE and every signature: cryptography is assumed to do what it promises.
- OCR, face and image engines: numerical code.
- The copilot, summaries and metrics: they read only.
- The hourly loop around the sweep: `await` and sleep; its effect is `Purge`.
- Configuration and engines: settings are constants here.
- The web client, the evaluation scripts and demo data: they keep nothing of a verification.

## 8. Running

    tlc -workers 2 -config Service.cfg MCVerificationService
    tlc -workers 2 -config Retry.cfg MCVerificationService
    tlc -workers 2 -config DuplicateRace.cfg MCVerificationService
    tlc -workers 2 -config RetryRace.cfg MCVerificationService
    tlc -workers 2 -config Pipeline.cfg MCPipeline
    tlc -workers 2 -config HardEvidence.cfg MCPipeline
    tlc -workers 2 -config Queue.cfg MCVerificationQueue
    tlc -workers 2 -config AadhaarApp.cfg MCAadhaarApp
    tlc -workers 2 -config AppAsks.cfg MCAadhaarApp
    tlc -workers 2 -config Gateway.cfg MCGateway
    tlc -workers 2 -config Announcements.cfg MCAnnouncements
    tlc -workers 2 -config CardReading.cfg MCCardReading
    tlapm VerificationService_proofs.tla      (and the other modules of section 5)

`PROJECT.json` names the module and configuration of every run.
