--------------------------- MODULE StructuredImport ---------------------------
(***************************************************************************)
(* The imports that need no worker (StructuredImportService for CSV and    *)
(* JSON, UrlImportService, AiExtractionImportService), the stages they     *)
(* share (PipelineRunnerService) and the replay of an import from its Raw  *)
(* Events (ImportReplayService), together with the reviews that go on over *)
(* the candidates a replay replaces.                                       *)
(*                                                                         *)
(* An import runs within one request.  One action is what happens up to    *)
(* the end of one awaited call that matters.  The result of a run is       *)
(* written by a transaction at READ COMMITTED: its DELETE removes the rows *)
(* its snapshot shows and holds them until the end, and the rows other     *)
(* transactions insert meanwhile stay.                                     *)
(*                                                                         *)
(* Two rows of one source that DeduplicateStage would find to be the same  *)
(* are one object here.                                                    *)
(***************************************************************************)
EXTENDS Naturals, FiniteSets

CONSTANTS
    Jobs,         \* ids of import jobs
    Objects,      \* objects of the sources: one event each
    Keyed,        \* the objects that carry a provider key
    Invalid,      \* the objects without title or start date
    Batches,      \* contents of the sources imported
    Requests,     \* requests in flight at one time
    MaxRequests,  \* bound of the model: requests served
    MaxFaults     \* bound of the model: calls that throw and lost processes

ASSUME ObjectsKnown == Keyed \subseteq Objects /\ Invalid \subseteq Objects
ASSUME BatchesKnown == Batches \subseteq SUBSET Objects
ASSUME BoundsAreNat == MaxRequests \in Nat /\ MaxFaults \in Nat
ASSUME RequestsFinite == IsFiniteSet(Requests)

VARIABLES
    jobs,        \* the ImportJob row of an id
    raws,        \* the objects of the Raw Events of a job
    candidates,  \* the EventCandidate rows
    organizers,  \* the Organizer rows of the name every object gives
    requests,    \* the request that occupies a slot
    overlapped,  \* history: jobs on which two runs were in flight at once
    replayed,    \* history: jobs a replay has begun on
    orphaned,    \* history: <<provider, object>> dropped though no other import proposed it
    stuck,       \* history: jobs whose run ended without a status
    served,      \* requests so far
    faults       \* faults so far

history == <<overlapped, replayed, orphaned, stuck>>
vars == <<jobs, raws, candidates, organizers, requests, history, served, faults>>

Providers == {"csv-json", "url", "ai-extraction"}
Stages    == {"PENDING", "EXTRACTING", "VALIDATING", "NORMALIZING", "DEDUPLICATING", "PERSISTING"}
Closed    == {"READY_FOR_VALIDATION", "FAILED"}
Decisions == {"CORRECTED", "VALIDATED", "REJECTED"}

Job   == [status: Stages \cup Closed, provider: Providers]
NoJob == [status |-> "NONE"]
\* run: which run has inserted the row
Row == [job: Jobs, object: Objects, run: Nat, status: {"PENDING"} \cup Decisions]

Idle    == [step |-> "idle"]
RunSteps == {"extract", "acquire", "validate", "normalize", "match", "resolve", "create", "open",
             "commit", "fail"}
\* objects: read from the source, then kept; rows: the snapshot of a persistence
Run    == [step: RunSteps, job: Jobs, replay: BOOLEAN, run: Nat, objects: SUBSET Objects,
           rows: SUBSET Row]
Review == [step: {"review"}, row: Row, decision: Decisions]

TypeOK ==
    /\ jobs \in [Jobs -> Job \cup {NoJob}]
    /\ raws \in [Jobs -> SUBSET Objects]
    /\ candidates \subseteq Row
    /\ organizers \in Nat
    /\ requests \in [Requests -> Run \cup Review \cup {Idle}]
    /\ overlapped \subseteq Jobs /\ replayed \subseteq Jobs /\ stuck \subseteq Jobs
    /\ orphaned \subseteq Providers \X Objects
    /\ served \in Nat /\ faults \in Nat

Init ==
    /\ jobs = [j \in Jobs |-> NoJob]
    /\ raws = [j \in Jobs |-> {}]
    /\ candidates = {}
    /\ organizers = 0
    /\ requests = [r \in Requests |-> Idle]
    /\ overlapped = {} /\ replayed = {} /\ orphaned = {} /\ stuck = {}
    /\ served = 0 /\ faults = 0

-----------------------------------------------------------------------------
(* Requests.                                                               *)

At(r, step) == requests[r].step = step

Runs(j) == {r \in Requests : requests[r].step \in RunSteps /\ requests[r].job = j}

Finish(r) == requests' = [requests EXCEPT ![r] = Idle]

Goto(r, step) == requests' = [requests EXCEPT ![r].step = step]

Serve(r) == requests[r] = Idle /\ served < MaxRequests /\ served' = served + 1

NewRun(j, at, replay, objects) ==
    [step |-> at, job |-> j, replay |-> replay, run |-> served, objects |-> objects, rows |-> {}]

-----------------------------------------------------------------------------
(* Imports: the source is stored, then the job is created.                 *)

CreateJob(r, j, p, b) ==
    /\ Serve(r)
    /\ jobs[j] = NoJob
    /\ jobs' = [jobs EXCEPT ![j] = [status |-> "PENDING", provider |-> p]]
    /\ requests' = [requests EXCEPT ![r] = NewRun(j, "extract", FALSE, b)]
    /\ UNCHANGED <<raws, candidates, organizers, history, faults>>

ImportStructured(r, j, b) == CreateJob(r, j, "csv-json", b)

\* The page is fetched first.
ImportUrl(r, j, b) == CreateJob(r, j, "url", b)

\* An assistant is required first; its answer is what the job holds.
ImportAi(r, j, b) == CreateJob(r, j, "ai-extraction", b)

Extract(r) ==
    /\ At(r, "extract")
    /\ jobs' = [jobs EXCEPT ![requests[r].job].status = "EXTRACTING"]
    /\ Goto(r, "acquire")
    /\ UNCHANGED <<raws, candidates, organizers, history, served, faults>>

CreateRawEvents(r) ==
    /\ At(r, "acquire")
    /\ raws' = [raws EXCEPT ![requests[r].job] = requests[r].objects]
    /\ Goto(r, "validate")
    /\ UNCHANGED <<jobs, candidates, organizers, history, served, faults>>

\* A replay looks at the Raw Events of the job, never at its status.
Replay(r, j) ==
    /\ Serve(r)
    /\ jobs[j] # NoJob /\ raws[j] # {}
    /\ requests' = [requests EXCEPT ![r] = NewRun(j, "validate", TRUE, raws[j])]
    /\ replayed' = replayed \cup {j}
    /\ overlapped' = IF Runs(j) # {} THEN overlapped \cup {j} ELSE overlapped
    /\ UNCHANGED <<jobs, raws, candidates, organizers, orphaned, stuck, faults>>

-----------------------------------------------------------------------------
(* The stages every import and every replay runs through.                  *)

\* Nothing reads the status of a job in between: it is written with what the stage does.
Enter(r, status) == jobs' = [jobs EXCEPT ![requests[r].job].status = status]

Validate(r) ==
    /\ At(r, "validate")
    /\ Enter(r, "VALIDATING")
    /\ requests' = [requests EXCEPT ![r].step = "normalize", ![r].objects = @ \ Invalid]
    /\ UNCHANGED <<raws, candidates, organizers, history, served, faults>>

Normalize(r) ==
    /\ At(r, "normalize")
    /\ Enter(r, "NORMALIZING")
    /\ Goto(r, "match")
    /\ UNCHANGED <<raws, candidates, organizers, history, served, faults>>

\* The jobs of the same provider.
Siblings(j) == {k \in Jobs \ {j} : jobs[k] # NoJob /\ jobs[k].provider = jobs[j].provider}

\* Mutant of KnownKeys: only the imports whose candidates are ready are looked at.
KnownOfReady(j) ==
    Keyed \cap UNION {raws[k] : k \in {l \in Siblings(j) : jobs[l].status = "READY_FOR_VALIDATION"}}

\* findKnownProviderKeys: from the Raw Events of every other import, whatever became of it.
KnownKeys(j) == Keyed \cap UNION {raws[k] : k \in Siblings(j)}

\* Some import of the same provider other than j holds a candidate of object o.
ProposedBySibling(j, o) == \E c \in candidates : c.job \in Siblings(j) /\ c.object = o

\* autoProvisionReferentials decides what comes next.
Deduplicate(r) ==
    LET j == requests[r].job
        known == requests[r].objects \cap KnownKeys(j)
    IN  /\ At(r, "match")
        /\ Enter(r, "DEDUPLICATING")
        /\ \E next \in {"resolve", "open"} :
              requests' = [requests EXCEPT ![r].objects = @ \ known, ![r].step = next]
        /\ orphaned' = orphaned \cup
              {<<jobs[j].provider, o>> : o \in {k \in known : ~ProposedBySibling(j, k)}}
        /\ UNCHANGED <<raws, candidates, organizers, overlapped, replayed, stuck, served, faults>>

\* Mutant of Resolve: an entry is created without a look at those there are.
ResolveNothing(r) ==
    /\ At(r, "resolve")
    /\ Goto(r, "create")
    /\ UNCHANGED <<jobs, raws, candidates, organizers, history, served, faults>>

\* resolveOrCreateOrganizer, its query.  A throw of either half is only logged.
Resolve(r) ==
    /\ At(r, "resolve")
    /\ \/ Goto(r, IF organizers = 0 /\ requests[r].objects # {} THEN "create" ELSE "open")
       \/ Goto(r, "open")
    /\ UNCHANGED <<jobs, raws, candidates, organizers, history, served, faults>>

\* No unique name holds a second row back.
CreateOrganizer(r) ==
    /\ At(r, "create")
    /\ organizers' = organizers + 1
    /\ Goto(r, "open")
    /\ UNCHANGED <<jobs, raws, candidates, history, served, faults>>

\* Mutants of Replaced: every candidate of the job is replaced; none is.
ReplacedAll(r) == {c \in candidates : requests[r].replay /\ c.job = requests[r].job}
ReplacedNone(r) == {}

\* The candidates the DELETE of a replay removes.
Replaced(r) ==
    {c \in candidates : requests[r].replay /\ c.job = requests[r].job /\ c.status = "PENDING"}

\* The transaction of persistResult begins; its DELETE is done.
OpenPersist(r) ==
    /\ At(r, "open")
    /\ Enter(r, "PERSISTING")
    /\ requests' = [requests EXCEPT ![r].step = "commit", ![r].rows = Replaced(r)]
    /\ UNCHANGED <<raws, candidates, organizers, history, served, faults>>

NewRows(r) ==
    {[job |-> requests[r].job, object |-> o, run |-> requests[r].run, status |-> "PENDING"] :
        o \in requests[r].objects}

\* Mutants of CommitPersist: the rows are inserted but the job is closed by a later call
\* that may fail; the job is closed without its rows.
CommitRowsOnly(r) ==
    /\ At(r, "commit")
    /\ candidates' = (candidates \ requests[r].rows) \cup NewRows(r)
    /\ requests' = [requests EXCEPT ![r].objects = {}]
    /\ jobs' = IF NewRows(r) = {}
               THEN [jobs EXCEPT ![requests[r].job].status = "READY_FOR_VALIDATION"] ELSE jobs
    /\ UNCHANGED <<raws, organizers, history, served, faults>>
CommitStatusOnly(r) ==
    /\ At(r, "commit")
    /\ jobs' = [jobs EXCEPT ![requests[r].job].status = "READY_FOR_VALIDATION"]
    /\ candidates' = candidates \ requests[r].rows
    /\ Finish(r)
    /\ UNCHANGED <<raws, organizers, history, served, faults>>

CommitPersist(r) ==
    /\ At(r, "commit")
    /\ candidates' = (candidates \ requests[r].rows) \cup NewRows(r)
    /\ jobs' = [jobs EXCEPT ![requests[r].job].status = "READY_FOR_VALIDATION"]
    /\ Finish(r)
    /\ UNCHANGED <<raws, organizers, history, served, faults>>

-----------------------------------------------------------------------------
(* Failures.                                                               *)

\* One of the calls throws: an import goes to its catch block, a replay has none.
Throw(r) ==
    /\ requests[r].step \in RunSteps \ {"fail"}
    /\ faults < MaxFaults /\ faults' = faults + 1
    /\ IF requests[r].replay
       THEN Finish(r) /\ stuck' = stuck \cup {requests[r].job}
       ELSE Goto(r, "fail") /\ UNCHANGED stuck
    /\ UNCHANGED <<jobs, raws, candidates, organizers, overlapped, replayed, orphaned, served>>

\* Mutant of MarkFailed: the error is passed on without a status.
FailSilently(r) ==
    /\ At(r, "fail")
    /\ Finish(r)
    /\ UNCHANGED <<jobs, raws, candidates, organizers, history, served, faults>>

MarkFailed(r) ==
    /\ At(r, "fail")
    /\ jobs' = [jobs EXCEPT ![requests[r].job].status = "FAILED"]
    /\ Finish(r)
    /\ UNCHANGED <<raws, candidates, organizers, history, served, faults>>

\* The process stops, or the transition to FAILED throws in its turn.
LoseRun(r) ==
    /\ requests[r].step \in RunSteps
    /\ faults < MaxFaults /\ faults' = faults + 1
    /\ Finish(r) /\ stuck' = stuck \cup {requests[r].job}
    /\ UNCHANGED <<jobs, raws, candidates, organizers, overlapped, replayed, orphaned, served>>

-----------------------------------------------------------------------------
(* Reviews of the candidates, as far as a replay sees them.                *)

\* assertMutable reads the candidate c.
ReadCandidate(r, c, d) ==
    /\ Serve(r)
    /\ c.status \in {"PENDING", "CORRECTED"}
    /\ requests' = [requests EXCEPT ![r] = [step |-> "review", row |-> c, decision |-> d]]
    /\ UNCHANGED <<jobs, raws, candidates, organizers, history, faults>>

SameRow(c, e) == c.job = e.job /\ c.object = e.object /\ c.run = e.run

\* The row is written by its id, once no transaction holds it; without it the call throws.
WriteDecision(r) ==
    LET target == {c \in candidates : SameRow(c, requests[r].row)}
    IN  /\ At(r, "review")
        /\ \A q \in Requests : At(q, "commit") => requests[q].rows \cap target = {}
        /\ candidates' = (candidates \ target) \cup
              {[c EXCEPT !.status = requests[r].decision] : c \in target}
        /\ Finish(r)
        /\ UNCHANGED <<jobs, raws, organizers, history, served, faults>>

-----------------------------------------------------------------------------
Begin(r) ==
    \/ \E j \in Jobs : \/ \E b \in Batches : \/ ImportStructured(r, j, b)
                                             \/ ImportUrl(r, j, b)
                                             \/ ImportAi(r, j, b)
                       \/ Replay(r, j)
    \/ \E c \in candidates, d \in Decisions : ReadCandidate(r, c, d)

Continue(r) ==
    \/ Extract(r) \/ CreateRawEvents(r)
    \/ Validate(r) \/ Normalize(r) \/ Deduplicate(r)
    \/ Resolve(r) \/ CreateOrganizer(r)
    \/ OpenPersist(r) \/ CommitPersist(r)
    \/ MarkFailed(r) \/ WriteDecision(r)

Next == \E r \in Requests : Begin(r) \/ Continue(r) \/ Throw(r) \/ LoseRun(r)

\* A request that has begun goes on unless its process stops.
Spec == Init /\ [][Next]_vars /\ \A r \in Requests : WF_vars(Continue(r))

-----------------------------------------------------------------------------
(* Safety.                                                                 *)

\* The Raw Events of an import are written before it reads those of the others and are
\* never deleted: of the imports of one provider, one at most ever proposes an object
\* that has a key, however they interleave, fail and are replayed.
OneProposer ==
    \A c, e \in candidates :
       c.object = e.object /\ c.object \in Keyed /\ jobs[c.job].provider = jobs[e.job].provider
          => c.job = e.job

\* An object an import has read with success is proposed by that import or another one,
\* unless some run dropped it as known from an import that was not proposing it.
ReadIsProposedUnlessOrphaned ==
    \A j \in Jobs : jobs[j].status = "READY_FOR_VALIDATION" =>
       \A o \in raws[j] \ Invalid :
          \/ <<jobs[j].provider, o>> \in orphaned
          \/ \E c \in candidates : c.object = o /\ c.job \in {j} \cup Siblings(j)

\* A replay replaces the pending candidates of its job: an object never has two of them,
\* unless two runs were in flight on the job.
OnePendingUnlessOverlapped ==
    \A c, e \in candidates :
       c.job = e.job /\ c.job \notin overlapped /\ c.object = e.object
          /\ c.status = "PENDING" /\ e.status = "PENDING" => c = e

\* What a reviewer has written is never removed by a replay, even one that had begun before.
DecisionsKept ==
    [][\A c \in candidates : c.status # "PENDING" => \E e \in candidates' : SameRow(c, e)]_vars

\* An import that failed has proposed nothing, unless a replay has come to its help.
FailedProposesNothing ==
    \A c \in candidates : jobs[c.job].status = "FAILED" => c.job \in replayed

\* The names are resolved before they are created, so the rows of one name are at most as
\* many as the requests that can be between these two calls.
OrganizersBounded == organizers <= Cardinality(Requests)

(* Liveness.                                                               *)

\* An import does not stay in a stage, unless a process stopped, a replay failed, or the
\* transition to FAILED did.
StageEnds ==
    \A j \in Jobs : (jobs[j].status \in Stages) ~> (jobs[j].status \in Closed \/ j \in stuck)

=============================================================================
