# EventFoundry in TLA+

A verification project for EventFoundry, the platform that imports event announcements
(posters, texts, URLs, structured files), has them reviewed by people, and publishes them to
followers and a search index. The modules here model the parts of the backend and its workers
whose correctness depends on the order of things: requests served concurrently over one
PostgreSQL database, four BullMQ queues on Redis, two workers, a search index that follows the
rows, and decisions that several people take on one object.

Paths below are relative to the repository (`src/` in `PROJECT.json`); `backend/src/` is left out
when it is obvious.

## 1. Inventory

Every request handler of the backend is an `async` function over Prisma. Each awaited call is
one SQL statement or one transaction, and any other request, consumer or crash can happen between
two of them. There is no lock and no optimistic version column anywhere; unique constraints and
`$transaction` are what the code relies on. So the hard behaviours are nearly always the same:
a row is read, a decision is taken, and the row is written later as if nothing had happened.

| Component | State it keeps | Operations | Hard behaviour | What makes it correct |
|---|---|---|---|---|
| Import pipeline (`imports`, `ocr-worker`, `classifier-worker`, two consumers) | `import_jobs`, its journal, `event_candidates`, the object store, four queues | import a file or a text; OCR; classify; two consumers | redelivery, stalls, attempts used up, eviction of settled entries, request overtaken by its own job | provenance, bounded candidates, an import is ready or its failure is known |
| Events and editorial workflow (`events`) | `events`, `event_status_events`, `published_at` | create, correct, submit, publish, unpublish, archive, restore, duplicate | decisions on stale rows, two writers | transition table, rules of publication, journal, one announcement |
| Search index (`search`) | `search_documents` | index, remove, rebuild | load and insert in two calls, swallowed failures, rebuild against updates | the index holds what is published |
| Event candidates (`event-candidates`) | `event_candidates`, the Event made from one | correct, reject, validate | two reviewers, crash between Event and images | one Event at most, a decision is final |
| Moderation (`moderation`) | `moderation_logs`, terms, the status of any event | decide | bypasses the workflow | what it overrides is limited and traced |
| Structured, URL and AI imports, replay (`imports/services`, `imports/pipeline`) | `raw_events`, candidates | run the stages, replay | deduplication by check-then-insert, replay against a review | an object of a source gives one candidate |
| Case management (`cases`) | `cases`, `case_events` | open, assign, claim, change status, answer | stale write-back on assignment, check-then-write | transition table, journal |
| Organizations (`organizations`, `identity` for appointments) | memberships, functions, permissions of the functions, invitations | invite, accept, cancel, resend, change function, leave, remove, transfer, appoint | last Owner counted then removed, function replaced by two transactions at once, permissions deleted and created again | an organization has an Owner, a member one function and an invitation |
| Account (`account`, `users`) | tokens, password, address, recovery codes | reset, verify, change address, MFA | single-use links, two links alive, lists written back | a link works once, an address is unique |
| Identity (`identity`) | roles, active organization, operator invitations | effective identity, switch, invite | stale context | permissions follow memberships |
| Notifications (`notifications`) | notifications, preferences, digest marks | route, dispatch, daily and weekly digest | sent before marked | served once per track |
| Participation, follow (`participation`, `follow`) | one row per user and event | update, follow, unfollow | read-merge-write of three axes | no lost axis |
| Planning, recommendation | none | detect conflicts, score | pure algorithms | agree with their definitions |
| Secrets, AI and platform configuration | `secret_refs`, `secret_materials`, settings | put, rotate, revoke, test | two rows in two calls; a verdict that answers late | a reference describes its material |
| Reference data (`reference-data`) | referentials, aliases, GeoNames | provision, curate, import | search-or-create by name | no duplicate referential |
| Event bus, mail, statistics, discovery, public pages, auth guards, infrastructure, OCR engines, classification rules, frontend, schema, deployment | — | — | synchronous, read-only, pure I/O or string processing | see section 8 |

The interactions: a request of the import API puts a document in the object store, creates the
row, and publishes in the queue `OCR` or `CLASSIFICATION`; the OCR worker consumes `OCR` and
publishes in `OCR_RESULT`; a consumer in the backend stores the text and publishes in
`CLASSIFICATION`; the classifier worker publishes in `RESULT`; a second consumer creates the
EventCandidate. A reviewer validates the candidate, which creates an Event (draft) or opens a
Case. The Event goes through its workflow; each transition updates the index and publishes a
fact on the in-process bus, from which followers are notified. Moderation decides Cases and writes
the status of events directly.

`PROJECT.json` lists every component with its status and, under `hazards`, the forty places where
this code is hardest to test, each with the properties that watch it.

## 2. Plan, and where it stands

In the order of importance; each item was modelled, checked by TLC, then proved as far as said in
section 6.

1. **ImportPipeline** + **ImportContract** (abstract) — checked, proved, refinement proved.
2. **Publishing**: events, workflow, moderation's effect, index and rebuild — checked, proved.
3. **CandidateReview** + **CandidateLifecycle** (abstract) — checked, proved, refinement proved.
4. **Organizations**: last Owner, functions, transfer, invitations — checked, proved.
5. **StructuredImport**: the staged pipeline, deduplication of concurrent imports, replay composed
   with the review of the candidates it replaces — checked, its safety proved.
6. **CaseManagement**: workflow, assignment and journal of Cases, with the moderation log —
   checked, proved.
7. **AccountSecurity**: links, passwords, addresses, erasure, second factor — checked, proved.
8. **Notifications**: participation, what is told to whom, digests — checked, its safety proved.

What could come next: secrets and platform configuration (two rows written by two calls), operator
invitations (the pattern of the organization's, without functions), and the routing rules, the
planning conflicts and the effective identity as pure functions.

Modules written to be proved about use no RECURSIVE operator and none of the operators the provers
know nothing of (`@@`), name the assumptions on their constants, and state their invariant as a
conjunction of named parts.

## 3. Modules and the code

| Module | Models | Variables and the code |
|---|---|---|
| `ImportPipeline` | the pipeline of file and text imports | `request`: where a call of `importFile`/`importText` stands; `documents`: MinIO; `status`, `journal`: the row and `import_job_events`; `entry`, `step`, `tries`, `stalls`...: the state of a BullMQ entry and the call its processor has reached; `engine`: the engine a published OCRResult names; `candidates`, `aiCalls`: rows created |
| `ImportContract` | what a submission is promised | recorded, recognised, proposed, announced |
| `Publishing` | events, workflow, moderation's effect, index | `events`: the row; `journal`: `event_status_events`; `requests`: requests in flight with the row they have read; `index`, `rebuild`: `search_documents` and the rebuild; `firstPublished`: facts sent on the bus |
| `CandidateReview` | review and validation | `candidates`, `catalog` (events), `illustrated` (images taken over), `cases`, `requests` |
| `CandidateLifecycle` | what FSPEC.02 promises of a candidate | `status`, `produced`, `overtaken` |
| `Organizations` | members and invitations of one organization | `members`, `functions`: memberships and their roles; `granted`: functions whose role has its permissions; `invitations`, `late`: rows and those past their date; `requests`: with what each has read |
| `StructuredImport` | imports by file, URL and AI, stages, replay, reviews meanwhile | `jobs`: the row; `raws`: `raw_events`; `candidates`; `organizers`: provisional rows of one name; `requests`: runs and reviews in flight, with the objects kept so far and the snapshot of the DELETE |
| `CaseManagement` | Cases and decisions of moderation | `cases`, `journal` (`case_events`), `suspended` (organizations whose `is_active` is false), `log` (`moderation_logs`), `requests`: with the row read, the columns they will write and the entry they will add |
| `AccountSecurity` | accounts and what protects them | `users`, `links` (`account_tokens`), `requests`: with what they have read or were given |
| `Notifications` | participation, notifications, digests | `participations`, `notes`, `requests`, `passes`: digests being run |
| `MC*` | instances for TLC | constant values, symmetry of the slots |
| `*_proofs` | theorems and proofs | — |

One action is what a handler does up to the end of one awaited call that reads or writes shared
state; `PROJECT.json` maps each definition to its lines. What several awaited calls do without
anyone being able to tell them apart is one action (the resolution of referentials before
`updateWithRefs`, the notification of participants and the domain event).

Names of actions are the names of the methods (`EnforceDailyQuota`, `CreateWithAttachment`,
`ApplyTransition`, `CreateEventAndValidate`, `AttachImportSource`...). Where a name is written with
`Mutant of` in its comment it is not part of the specification: it is a plausible bug of the
definition that follows it, and the property named for it in `PROJECT.json` must catch it.

**BullMQ** (5.80.8, not in `src/`) is modelled from how the code uses it: an entry is waiting,
active, completed or failed; `add` with a `jobId` that is still known is ignored; a processor that
throws is retried `attempts` times; an active entry whose lock expires goes back to waiting
`maxStalledCount` times; only the newest completed and failed entries are kept
(`removeOnComplete`, `removeOnFail`). A worker whose lock expired while it is still running is not
modelled.

**PostgreSQL**: a statement and a `$transaction` are atomic, READ COMMITTED. Only
two transactions let that show: in the replacement of a member's function and in the persistence
of an import the DELETE spares the rows a concurrent transaction has inserted, so `Organizations`
and `StructuredImport` give each two actions (`OpenReplacement`, `CommitReplacement`;
`OpenPersist`, `CommitPersist`) and the snapshot between them.

**History variables.** In `ImportPipeline` `crowd` is the most requests that were between their
count and their row as one of them was counted, and `calls` the recognitions an assistant was asked
for. In `Publishing` `personal` holds the events created private. `raced` holds the objects over
which a request has written without having read them as they were; `doubtful` the events whose index
calls overlapped, failed or were not made; `ruled` and `restored` the events whose status moderation
wrote last, or ever put into diffusion; `ownersMoved`, `steppedDown`, `overlapped` and `appointed`
the ways an organization can lose its last Owner or a member get a second function. In
`StructuredImport` `overlapped` and `replayed` record the jobs with two runs at once or a replay,
`orphaned` the objects dropped as known from an import that was not proposing them, `stuck` the jobs
whose run ended without a status. In `CaseManagement` `opened` is the row of a Case as its opening
leaves it, `raced` records the Cases on which a request acted on a status that had changed,
`blurred` and `contested` the Cases and organizations written between another request's write and
its entry, or by a request lost before its entry (of an organization, only by decisions that have an
effect). In `AccountSecurity` `writes`, `proved`, `tried`, `spent` and `twice` record what happened
to passwords, links, secrets and recovery codes; `overlapped`, `interrupted`, `overtaken` and
`crossed` the interleavings and losses named in the properties. In `Notifications` `wished` is what
was asked of each axis last, `answered` what digests have dealt with, `raced` and `doubtful` where
two requests or two passes met, or one failed halfway. History variables record the past, are never
read by an action, and make it possible to say exactly under which condition a promise is kept.

## 4. Properties and runs

Bounds are constants named in each module (`MaxRequests`, `MaxFaults`, `Attempts`, `MaxStalled`,
`KeepCompleted`, `KeepFailed`). Deadlock is not checked because every run stops when its requests
and faults are used up, which is how the bounded instance ends, not a state of the program.

### Import pipeline

* `import_pipeline` — an AI-assisted image and a text share queues that keep a single settled entry,
  with a daily quota of one import, two attempts, one redelivery and one fault: an exception, a
  stalled entry, a lost request, an assistant that fails or a trace that is not written, anywhere
  (0.29 million states, liveness included). Evictions happen, so a `jobId` can be added again; two
  attempts are enough for a retry to overlap the next queue; one fault is enough for a redelivery,
  and for a result entry, which has a single attempt, to fail for good. The eviction of a failed
  entry takes two failures; the proof of `NothingDropped` says what it would do.
  - `CandidateHasProvenance`: no candidate of an image before its text was stored.
  - `CandidatesBounded`: candidates are multiplied only by redeliveries of a RESULT entry, once
    each.
  - `QuotaPassedByCrowdOnly`: nothing reserves an import between its count and its row, so the
    quota can be passed, by as many imports as were at once between the two, and no more.
  - `ImplementsContract`: the pipeline implements `ImportContract`.
  - `ReadyForGoodUnlessGivenUp` (liveness): a recorded import ends in READY_FOR_VALIDATION and stays
    there, unless its request was lost, BullMQ keeps a failed entry of it (`GivenUp`), or it was
    announced ready while its request or an earlier stage had still to write its status
    (`Overtaken`): these late writes are what takes an import back to OCR_RUNNING. It does not
    say that giving up is told to anyone, for it is not.
* `import_v_failed`, `import_v_traces` — findings: an import given up stays in the stage it had
  reached, and calls of an assistant leave no trace.

### Structured imports and replays

* `structured_replays` — two jobs of any provider whose sources hold a keyed, an unkeyed and an
  invalid object, two slots, three requests (imports, replays, reviews of their candidates), one
  throw or crash. Three requests give two imports and a replay of either, or an import, its replay
  and a review between the two.
  - `OneProposer`: of the imports of one provider one at most proposes a keyed object. It holds
    whatever the interleaving because Raw Events are written before those of others are read.
  - `ReadIsProposedUnlessOrphaned`: the other side of it. Two imports that read each other's Raw
    Events both drop the object, and an import that failed still makes others drop it: only those
    (`orphaned`) are lost.
  - `OnePendingUnlessOverlapped`, `DecisionsKept`: a replay replaces pending candidates, and never
    removes what a reviewer has written, even one that read the row before the replay began.
  - `FailedProposesNothing`: candidates and READY_FOR_VALIDATION are one transaction.
  - `OrganizersBounded`: search-or-create without a unique name makes as many rows of a name as
    requests can be between the two calls, no more.
  - `StageEnds` (liveness): no import stays in a stage, unless a process stopped, a replay failed
    (it has no catch block), or the transition to FAILED threw.

### Events, moderation and index

* `publishing_races` — one event, public or private, two contents (one incoherent), two concurrent
  requests out of five, rebuilds, moderation and one failure (1.43 million states). Races need two
  requests in flight and three to set them up (create, submit or publish, then the two that
  collide); events only interact through the rebuild, which the proof covers for any number.
  - `PrivateNeverDiffused`: an event created private stays private and is never announced, and is
    published or in the index only if moderation put it there. It speaks of how the event was
    created (`personal`), so that a publication that turned it public would not escape it.
  - `JournalTellsStatus`: the status is the one the last change in the journal tells, except while
    moderation was the last to write it. The line of the creation is a change of nothing: written
    by a call after the row's, it may come after the line of a transition, and be the last.
  - `WorkflowUnlessRaced`, `PublishedIsCoherentUnlessRaced`, `PublishedIsFrozenUnlessRaced`,
    `AnnouncedOnceUnlessRaced`: the table is followed, what is diffused is coherent and not
    corrected, and followers are told once, as long as no request has written over a row it had not
    read. Without the condition each of them is false in this code.
  - `IndexFaithful`: at rest, the index holds the content of a published event and nothing else,
    unless index calls overlapped, failed or were not made; a rebuild that nothing disturbs
    restores it.
* `publishing_v_private` — a finding.

### Candidates

* `candidate_races` — two candidates (one from an image), three drafts (sound, incoherent,
  prohibited), two concurrent requests out of four, one failure.
  - `EventLinked`: a candidate points to the last Event it gave, and no Event is without it.
  - `EventsCleared`: nothing the controls hold back becomes an Event; a public duplicate only if
    its controls ran before the other Event existed.
  - `ImagesTakenOver`: without failure, exactly the Events of image imports hold the image.
  - `ImplementsLifecycle`: the review implements `CandidateLifecycle`, which keeps the promise of
    FSPEC.02 (one Event at most, decisions are final) on every candidate not
    overtaken, and for the others that an Event is created exactly
    when VALIDATED is written.

### Organizations

* `organization_races` — two users (one has created the organization), one invitation, two
  concurrent requests out of four, one failure (0.6 million states). Four requests bring a second
  Owner in and set two more against each other.
  - `OwnerKeptUnlessRaced`: the last Owner is lost only by a request that unseats one after the
    Owners it had counted have changed, or by an Owner who takes the function of an invitation.
  - `OneFunctionUnlessOverlapped`: a member has two functions only after two replacements were open
    at once, or an appointment, which adds.
  - `MembersHoldFunctions`: functions go with the membership, and a member without one is about to
    receive it or its request was lost.
  - `SettledIsFinalUnlessRaced`: a settled invitation is not reopened, unless by a request that had
    read it pending.

### Cases and moderation

* `case_races` — one Case about one organization, one Operator, two routes (a domain and a work
  queue) of which one is in the catalogue of rerouting, rules that open it NEW or waiting with any
  route, priority and assignee, two concurrent requests out of four, one failure (4.6 million
  states). Four requests open a Case, make it wait, and set two more against each other. That a
  Case passes from one Operator to another is left to the proof.
  - `JournalTellsChanges`: the entries of the journal, told on the row as it was opened, give its
    status, assignee, priority, route and closure, and one of them says that the Case was created,
    unless two writes and their entries crossed, or one was lost. The row as it was opened is in no
    entry (section 7).
  - `TransitionsAllowedUnlessRaced`: after its opening a Case follows the table of transitions;
    what breaks it is a status decided on one that has changed, the write-back of `assign` included.
  - `AnswerResumesUnlessRaced`: a Case whose requester has answered does not wait.
  - `LogTellsSuspension`: the last effective decision of the log is the one in force.

### Accounts

* `account_races` — two accounts, each existing or to be registered, two addresses, two recovery
  codes, two concurrent requests out of four, one failure (0.4 million states up to symmetry). Four
  requests issue a link and consume it while two more meet.
  - `OneLinkUnlessOverlapped`: one open link of a kind for a user, unless two were being issued.
  - `PasswordClosesLinks`: no link of recovery older than the last password is open, unless the
    request that wrote it stopped before closing them.
  - `AddressProved`: a verified address is one its user has consumed a link from.
  - `ErasedUnlessRaced`: an erased account has no password, no open link and nothing verified,
    unless another request about it was under way.
  - `SecondFactorUnlessCrossed`: a recovery code logs in once, and a second factor that is on has a
    secret a code was verified against, unless two operations on it crossed.
* `account_v_status` — a finding.

### Notifications

* `notification_digests` — two users, one event with two axes, three notifications for a batch of
  two, two digest passes of one track, two requests, one failure (0.4 million states). Three
  notifications are the fewest that make a pass leave one behind; tracks have columns of their own
  and do not interact, which the definitions show.
  - `AxesKeptUnlessRaced`: a calendar says of each axis what was asked last.
  - `DigestsFaithful`: a notification is gathered once per track at most, and none is dated before
    it was gathered or found to have no vector to leave by, except where two passes met or one
    ended between sending and marking.
  - `AllDigestedInTheEnd` (liveness): whatever failed, all are dated in the end.

## 5. Fairness

`FairSpec` of `ImportPipeline` assumes weak fairness of: the calls of an accepted request, the
calls of a handler that runs, and the delivery of a waiting entry to a worker. Node runs a promise
that can go on, and a BullMQ worker polls for as long as its process is up, restarted by the
container platform otherwise. No client is obliged to submit anything, and no fault is obliged to
happen or to stop beyond the bound `MaxFaults`. The liveness property is stated from the creation
of the row: a request that dies before publishing leaves an import nobody takes up (`GivenUp`),
because the code has no recovery of such imports.

`StructuredImport` assumes weak fairness of the request of each slot once it has begun
(`Continue`), for the same reason; crashes and throws are bounded by `MaxFaults` and named in
`stuck`. `Notifications` assumes that a worker goes on with its pass (weak fairness), and strong
fairness of the start of a pass of each track: BullMQ repeats the job of a track for ever and
queues it when no worker is free, so the start is possible again and again rather than at all
times. Nothing forces a user to delete, or the faults to happen.

`Publishing`, `CandidateReview`, `Organizations`, `CaseManagement` and `AccountSecurity` assume no
fairness: all their properties are safety.

## 6. Proofs

Assumptions on the constants are those named in the modules: bounds are natural numbers (a batch of
a digest and a number of attempts not zero), the distinguished sets are subsets of what they
distinguish (the statuses routing may open a Case with are statuses of a Case, the catalogue's
routes are routes), `"none"` and `"manual"` are not ids or contents, the address of an erased
account is nobody's (`NoAddress`), and in `StructuredImport` alone the slots of requests are
finitely many, because `OrganizersBounded` counts them. Otherwise the sets of jobs, events, users,
contents, addresses and requests are arbitrary, finite or not, and no theorem but `NothingDropped`
(below) depends on a bound.

The invariance theorems have the same shape. None of the properties is inductive, since each depends
on what the requests in flight have read and may still write; `IInv` adds that, one action at a time
keeps it, and the property is a consequence of it (or, for an action property, of it on the state
before the step). What is worth reading in each module is what had to be added.

Many properties name an exception (`...UnlessRaced`, `...UnlessOverlapped`): an object a history
variable has noted. `UncontendedIsSound`, in seven modules, shows what these exceptions are worth.
Its hypothesis speaks of what happens and not of a history variable: the requests about *one* object
(an event, a candidate, a Case, a user, an import, a calendar entry, the passes of a track) are
never under way together — and, where the code writes and then notes what it wrote, none of them is
lost in between. The conclusion is the property of that object without the exception for
interleavings (decisions of moderation, an administrator's appointment and an Owner who takes a
lesser function by invitation are still named: they are what the code allows), however many slots
there are and whatever the requests about every other object do meanwhile. So each exception is an
interleaving on the object itself, or a loss, and a queue or a lock per object would be enough to
keep the promise. The hypothesis is a restriction on behaviours that the code does not enforce;
nothing else rests on it. Each proof goes through what the history variable cannot note while
requests come in turn (`Undisturbed`, `NotRaced`, `NotOverlapped`...), often with what the one
request in flight still knows of its object.

**`ImportPipeline_proofs`** — `TypeCorrect`, `Inductive`, `PipelineSafety`, `ProvenanceKept`,
`QuotaKept`, `NothingDropped`, `Refinement`. That a candidate has provenance depends on which
entries can exist: `IInv` adds what a request has done by the step it has reached and what an entry
rests on (`RecordInv`), that nothing of an image is past the OCR_RESULT consumer before its text is
stored (`ProvenanceInv`), and how many candidates the deliveries so far can have made
(`CandidateInv`): the count is one lower while the handler has not made its call, which is what
makes the bound survive a stall. `Refinement` proves `ImplementsContract` from it: each step maps to
a step of `ImportContract` or to a stutter. `QuotaKept` counts: the imports that have a row and
those between their count and their row never exceed the quota by more than `crowd`, and the lemmas
on cardinalities move one import from the latter to the former. `NothingDropped` is the safety half
of the liveness property: an import that has its row is being published, in a queue, ready, or given
up with a failed entry or a lost request (`Accounted`), because a stage settles its entry only once
the next one has its own (`HandOnInv`). It assumes `FailuresStay`: the queues keep as many failed
entries as there are imports. Without it the statement is false: an entry that has
failed for good and is then evicted leaves an import nothing speaks of any more.

**`Publishing_proofs`** — `TypeCorrect`, `Inductive`, `Privacy`, `JournalAgrees`,
`SoundUnlessRaced`, `CoherentUnlessRaced`, `FrozenUnlessRaced`, `AnnouncedOnce`, `IndexAgrees`,
`UncontendedIsSound`. `JournalTellsStatus` is a part of `IInv`: whoever but moderation writes a
status appends its change in the same transaction, and the line of the creation is not a change.
`IInv` states: what a request in flight may still do, relative to the row it has read (`FlightInv`;
visibility never changes, so what was read of it is still true); that an event created private is
still private, and has a document, in the index or in the rebuild's list, only if moderation put it
there (`PrivacyInv`); that a first publication is announced by one request, after it is written
(`AnnounceInv`); that an event whose index calls never overlapped has one request at most, and by
its step one knows what the index holds (`AloneInv`); and what a rebuild still has to insert of an
event nothing has touched since the load (`RebuildInv`).

**`CandidateReview_proofs`** — `TypeCorrect`, `Inductive`, `Linked`, `Controlled`, `ImagesComplete`,
`Refinement`, `UncontendedIsSound`. `IInv` adds the shape of requests, that every Event was cleared
against the Events older than itself (`CatalogCleared`), where an image can still come from
(`ImagesInHand`), and that an unraced candidate has given an Event only if it is VALIDATED
(`SingleEvent`), which is what the refinement of `CandidateLifecycle` needs.

**`StructuredImport_proofs`** — `TypeCorrect`, `ProposedOnce`, `ReadIsProposed`, `ReplayReplaces`,
`FailedIsEmpty`, `ReplayKeepsDecisions`, `NamesBounded`, `StagesAreAttended`, `UncontendedIsSound`.
The heart is `Exclusive`: of two imports of a provider only one claims a keyed object, where a claim
is a candidate or a run that is about to propose one; it rests on Raw Events being written before
those of the others are read. `DroppedKnown` says of a run in flight what it dropped and for whom,
and `RowsHeld` that the snapshot of an unoverlapped replay holds every pending row. `NamesBounded`
counts requests between the search and the creation with the cardinality lemmas of the library.
`StagesAreAttended` is the safety half of `StageEnds`: an import in a stage has a run under way, or
its run ended without a status.

**`Organizations_proofs`** — `TypeCorrect`, `OwnerKept`, `MembersAndFunctions`, `SingleFunction`,
`SettledIsFinal`, `UncontendedIsSound`. `IInv` adds that a request that may unseat a user has
counted other Owners (`Counted`), that the membership it has found is still there
(`FoundAreMembers`), and that the snapshot of a replacement that does not overlap covers the
functions there are (`SnapshotsCurrent`).

**`CaseManagement_proofs`** — `TypeCorrect`, `Inductive`, `TransitionsKept`, `ChangesAreTold`,
`AnswerResumes`, `LogAgrees`, `UncontendedIsSound`. What a request is about to write follows, in the
table, the status it has read (`Sound`). Three more invariants, each using `Inductive`, stand beside
it. `JournalInv` says of a Case neither raced nor blurred that one request at most has written it
and not told so, and that the row is what the journal gives, told on the row as it was opened, and
then what that request is to tell (`Calm`). A replay is a recursive function over the journal: that
it exists, that two journals agree on what they share and that an entry added is told last
(`TellsExists`, `TellsUnique`, `ReplayAppend`) are proved by induction on the naturals, stated over
a set of them (`SetInduction`), a form the provers can use. `AnswerInv` says of such a Case that it
waits after an answer only while some request is about to change its status or to tell of it
(`Moving`). `LogInv` says that of an object that is not contested one decision at most is effective
and not logged, that its effect is in force, and that the last effective decision of the log is the
one in force when there is none.

**`AccountSecurity_proofs`** — `TypeCorrect`, `Inductive`, `OneLink`, `PasswordCloses`,
`AddressIsProved`, `ErasedStays`, `SecondFactor`, `UncontendedIsSound`. `AddressProved` holds with
no condition on the interleaving, and shows why: `IdentityInv` says of each verification link that
the account's address is the one the link was mailed to or one proved since (`Bound`), which every
replacement of the address keeps because it writes a proved one. `OneInv` says a link is created
only when none of its kind is open, `ErasedInv` what may still go on about an erased account and
gives it nothing back (`EndSteps`), and `FactorInv` that what an operation on the second factor has
read is still there (`FactorSound`) as long as no other has met it.

**`Notifications_proofs`** — `TypeCorrect`, `Inductive`, `AxesKept`, `DigestsAreFaithful`,
`UncontendedIsSound`. Of a pair that is not raced one request at most is between its read and its
write, and what it has read is current (`AxesInv`); of a notification that is not doubtful one pass
at most has it at hand, what it is about to date is answered, and what was gathered is dated or
about to be (`DigestInv`).

## 7. Findings

Places where the code does not do what a document or a comment says; each is a run that TLC must
find violated, with the quotation in `PROJECT.json`.

* `import_v_failed` — the failure for good of an entry is logged and forgotten: its import stays in
  the stage it had reached, OCR_RUNNING for instance, where the specifications say that it passes to
  FAILED and is never blocked in silence.
* `import_v_traces` — an assistant that fails is replaced by the internal OCR and the call leaves no
  trace, where every call of an AI is to be traced; nor does a call repeated by a retry whose result
  the queue ignores, or one whose trace fails to be written.
* `publishing_v_private` — RESTORE publishes a private event.
* `account_v_status` — the link of a user suspended before he follows it leaves the status ACTIVE
  beside `isActive = false`.

Other places where the order of calls shows were met while modelling. They are in the models as they
are in the code, and have no run of their own because no document says otherwise, because a
conditional property already says exactly when they happen, or because they are plain in the text of
one function. The last are:

* an import by URL submitted for an organization belongs to none, so the agents of the organization
  do not see it: `UrlImportService.createJob` (url-import.service.ts:106) does not pass on the
  `organizationId` that imports.controller.ts:38-42 wants kept (`ImportUrl` has no organization);
* the entry CREATED of a Case tells its type, domain, queue, origin and rule
  (cases.service.ts:96-107), and nothing else tells the assignee, the status and the priority it was
  opened with, where FSPEC.21 wants assignments, priorities and all operations in the history (lines
  212, 270, 505): `JournalTellsChanges` starts from the row as it was opened because the journal
  cannot;
* a decision of moderation on an event writes its status and no line of `event_status_events`, where
  schema.prisma:1189 has one line for each passage: `JournalTellsStatus` excepts it.

The others, in the code as in the models:

* the request's own `OCR_RUNNING` is written after the entry is published and may take the import
  back; an OCR entry that has used up its attempts leaves the import `OCR_RUNNING`
  (`FailureEndsFailed`, `ReadyForGoodUnlessGivenUp`); a redelivered result creates a further
  candidate (`CandidatesBounded`); the daily quota is enforced for files and texts only, and passed
  by concurrent requests (`QuotaPassedByCrowdOnly`);
* the keys known to the deduplication include those of imports that failed
  (`ReadIsProposedUnlessOrphaned`); referentials have no unique name (`OrganizersBounded`);
* two transitions decided on one row compose into one the table forbids (`WorkflowUnlessRaced`), a
  correction lands on a published event (`PublishedIsFrozenUnlessRaced`), a first publication is
  announced twice (`AnnouncedOnceUnlessRaced`), an archival between the load and the insertion of a
  document leaves the event in the index (`IndexFaithful`), a decision of moderation is missing from
  the event's journal (`JournalTellsStatus`);
* two validations of one candidate create two Events, and a correction reopens a decided candidate
  (both excluded by `ImplementsLifecycle` for candidates not overtaken);
* the only Owner accepts an invitation with a lesser function, or two leave at once
  (`OwnerKeptUnlessRaced`);
* an assignment writes back the status it has read (`TransitionsAllowedUnlessRaced`), and an answer
  recorded while an Operator makes the Case wait does not relaunch it (`AnswerResumesUnlessRaced`);
* an account whose address is replaced before the first one was verified stays REGISTERED though
  verified; reactivating an erased account makes it REGISTERED again, with nothing to log in by;
  erasure leaves the columns of the second factor.

## 8. Only model-checked, and not modelled

*Only model-checked*: liveness, which is out of the prover's reach (`ReadyForGoodUnlessGivenUp`,
`StageEnds`, `AllDigestedInTheEnd`); of the first two the safety half is proved (`NothingDropped`,
`StagesAreAttended`). Every other property of a passing run is stated by a theorem, for all values
of the constants.

*Abstractions to keep in mind*:

* `ImportPipeline`: the quota is that of a single day; an orphan document in MinIO is harmless and
  not tracked; recognised text and extracted fields are the import they belong to; the passes of an
  assistant over the variants of an image are one call.
* `Publishing`: one rebuild at a time; `refreshVectors` is left out; the fields of an event are a
  content, coherent or not; a private event can be in the index after a RESTORE, and
  `archivePrivate` leaves it there (history `doubtful`).
* `CandidateReview`: equality of drafts stands for "same title and start date"; the pending
  candidates a replay deletes are in `StructuredImport`.
* `StructuredImport`: rows of a source found equal by the deduplication are one object; the
  organizer stands for the four referentials provisioned by name.
* `Organizations`: the general information, the covered activities, the organizer link and the slug
  are left out, and the two roles a transfer prepares are prepared together.
* `CaseManagement`: a Case may be opened with any route, priority, initial status and assignee, as
  rules may answer; a priority is critical or not; the types, templates and rules themselves are
  rows an administrator edits.
* `AccountSecurity`: a password given is right and a code is that of the secret read; links do not
  expire (expiry removes behaviours only); the audit and the mails change nothing that is modelled.
* `Notifications`: preferences and settings may answer anything at each look-up; notifications about
  imports and Cases are left out, being told in the same way.

*Not modelled, with state of its own*: follow (each operation is one idempotent statement), secrets,
AI and platform configuration (rows of one administrator; two hazards of theirs are listed without
a property), operator invitations (read, check, write, as those of organizations), reference data
other than its provisioning by imports, media and covers other than the image of a candidate.

*Not modelled, without state*: planning conflicts, recommendation, the effective identity,
statistics, discovery, calendar and public pages (computed from rows at each request); the event bus
(a synchronous call of isolated subscribers, inlined where it matters); mail; JWT guards
(stateless); the OCR engines and classification rules (text processing, out of TLC's reach); the
frontend (more than a third of the repository's code), whose requests are the nondeterministic
clients of every module; the schema and its migrations; deployment files. These are the reasons why
the map covers a small share of the repository's lines: the modelled services are nearly all of
those where two actors can meet, and they are a small part of its text.
