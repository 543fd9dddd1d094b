--------------------------- MODULE ImportPipeline ---------------------------
(***************************************************************************)
(* The asynchronous import pipeline: the Backend request that accepts an   *)
(* image or a text (ImportsService), the four BullMQ queues, the OCR and   *)
(* classification workers, and the two Backend consumers that take the     *)
(* workers' answers back (OcrResultConsumer, ImportResultConsumer).        *)
(*                                                                         *)
(* A request and a handler are sequences of awaited calls; one action is   *)
(* what happens up to the end of one such call, so every interleaving of   *)
(* the calls of different handlers is a behaviour.  A queue entry is named *)
(* by the id of its import job (the jobId option), and the handler that    *)
(* processes it is found in step.                                          *)
(***************************************************************************)
EXTENDS Naturals, Sequences, FiniteSets

CONSTANTS
    Jobs,             \* ids of import jobs
    Texts,            \* the jobs that import a text: no OCR
    Assisted,         \* the image jobs for which an AI OCR assistant is configured
    Attempts,         \* attempts of the queues the Backend creates (3)
    MaxStalled,       \* BullMQ's maxStalledCount: redeliveries after a stall (1)
    KeepCompleted,    \* removeOnComplete of the queues the Backend creates (1000)
    KeepFailed,       \* removeOnFail of the same queues (5000)
    Slots,            \* handlers one queue runs at a time, all replicas together
    MaxImportsPerDay, \* the platform's daily quota, 0 for none
    MaxFaults         \* bound of the model: exceptions, refusals of the assistant, stalls and
                      \* lost requests

ASSUME TextsAreJobs == Texts \subseteq Jobs /\ Assisted \subseteq Jobs \ Texts
ASSUME NumbersAreNat ==
    /\ Attempts \in Nat \ {0}
    /\ {MaxStalled, KeepCompleted, KeepFailed, MaxImportsPerDay, MaxFaults} \subseteq Nat

BackendQueues == {"OCR", "CLASSIFICATION"}   \* the Backend publishes, a worker consumes
ResultQueues  == {"OCR_RESULT", "RESULT"}    \* a worker publishes, the Backend consumes
Queues        == BackendQueues \cup ResultQueues

ASSUME SlotsAreNat == Slots \in [Queues -> Nat \ {0}]

VARIABLES
    request,    \* where the POST of an import stands
    documents,  \* the documents stored in MinIO, by the job they belong to
    crowd,      \* history: the most requests between their count and their row as one was counted
    status,     \* ImportJob.status, "NONE" before the row exists
    journal,    \* import_job_events of a job, oldest first
    entry,      \* the state BullMQ keeps for a job in a queue
    failures,   \* attempts an entry has used up (attemptsMade)
    stalls,     \* times an entry was found stalled
    step,       \* the next call of the handler of an active entry
    engine,     \* the engine named in the OCRResult of a job: published, or about to be
    calls,      \* history: recognitions an AI assistant was asked for
    aiCalls,    \* AiCallLog rows of a job
    candidates, \* EventCandidate rows created for a job
    faults      \* faults so far

requestVars == <<request, documents, crowd>>
jobVars     == <<status, journal>>
queueVars   == <<entry, failures, stalls>>
aiVars      == <<engine, calls, aiCalls>>
vars == <<requestVars, jobVars, queueVars, step, aiVars, candidates, faults>>

Status == {"PENDING", "OCR_RUNNING", "OCR_DONE", "CLASSIFICATION_RUNNING",
           "READY_FOR_VALIDATION"}
RequestSteps == {"idle", "store", "create", "enqueue", "mark", "done", "refused", "lost"}
EntryStates  == {"absent", "waiting", "active", "completed", "failed"}
HandlerSteps == {"idle", "recognise", "publish", "log", "ocrDone", "enqueue", "running",
                 "create", "ready", "return"}

TypeOK ==
    /\ request \in [Jobs -> RequestSteps]
    /\ documents \subseteq Jobs /\ crowd \in Nat
    /\ status \in [Jobs -> Status \cup {"NONE"}]
    /\ journal \in [Jobs -> Seq(Status)]
    /\ entry \in [Queues -> [Jobs -> EntryStates]]
    /\ failures \in [Queues -> [Jobs -> Nat]]
    /\ stalls \in [Queues -> [Jobs -> Nat]]
    /\ step \in [Queues -> [Jobs -> HandlerSteps]]
    /\ engine \in [Jobs -> {"none", "internal", "ai"}]
    /\ calls \in [Jobs -> Nat]
    /\ aiCalls \in [Jobs -> Nat]
    /\ candidates \in [Jobs -> Nat]
    /\ faults \in Nat

Init ==
    /\ request = [j \in Jobs |-> "idle"]
    /\ documents = {} /\ crowd = 0
    /\ status = [j \in Jobs |-> "NONE"]
    /\ journal = [j \in Jobs |-> << >>]
    /\ entry = [q \in Queues |-> [j \in Jobs |-> "absent"]]
    /\ failures = [q \in Queues |-> [j \in Jobs |-> 0]]
    /\ stalls = [q \in Queues |-> [j \in Jobs |-> 0]]
    /\ step = [q \in Queues |-> [j \in Jobs |-> "idle"]]
    /\ engine = [j \in Jobs |-> "none"]
    /\ calls = [j \in Jobs |-> 0]
    /\ aiCalls = [j \in Jobs |-> 0]
    /\ candidates = [j \in Jobs |-> 0]
    /\ faults = 0

-----------------------------------------------------------------------------
(* BullMQ and the repository, as the handlers use them.                    *)

\* Mutant of Add: a settled entry does not stop a new one, as without the jobId option.
AddAgain(q, j) ==
    IF entry[q][j] \in {"absent", "completed", "failed"}
    THEN /\ entry' = [entry EXCEPT ![q][j] = "waiting"]
         /\ failures' = [failures EXCEPT ![q][j] = 0]
         /\ stalls' = [stalls EXCEPT ![q][j] = 0]
    ELSE UNCHANGED queueVars

\* Queue.add with the jobId option: an id the queue still knows is ignored.
Add(q, j) ==
    IF entry[q][j] = "absent"
    THEN /\ entry' = [entry EXCEPT ![q][j] = "waiting"]
         /\ failures' = [failures EXCEPT ![q][j] = 0]
         /\ stalls' = [stalls EXCEPT ![q][j] = 0]
    ELSE UNCHANGED queueVars

\* ImportJobRepository.transition: the status and its journal line, in one
\* transaction and whatever the status was.
Transition(j, s) ==
    /\ status' = [status EXCEPT ![j] = s]
    /\ journal' = [journal EXCEPT ![j] = Append(@, s)]

\* Mutant of AttemptsOf: the workers' queues get the Backend's job options too.
SameAttempts(q) == Attempts

AttemptsOf(q) == IF q \in BackendQueues THEN Attempts ELSE 1

\* Mutant of Settlings: the workers' queues forget settled entries too.
SettlingsTrimAll(q, j, s) ==
    LET settled == [entry[q] EXCEPT ![j] = s]
        same    == {k \in Jobs : settled[k] = s}
        keep    == IF s = "completed" THEN KeepCompleted ELSE KeepFailed
    IN  IF Cardinality(same) <= keep
        THEN {settled}
        ELSE {[settled EXCEPT ![k] = "absent"] : k \in same \ {j}}

\* The entries of queue q once j is settled as s: the queues the Backend creates
\* keep a bounded number of settled entries.  The order of settling is not kept,
\* so which older entry is removed is left open.
Settlings(q, j, s) ==
    LET settled == [entry[q] EXCEPT ![j] = s]
        same    == {k \in Jobs : settled[k] = s}
        keep    == IF s = "completed" THEN KeepCompleted ELSE KeepFailed
    IN  IF q \in ResultQueues \/ Cardinality(same) <= keep
        THEN {settled}
        ELSE {[settled EXCEPT ![k] = "absent"] : k \in same \ {j}}

\* The handler of an entry is gone: BullMQ delivers the entry again or gives it up.
Release(q, j, again) ==
    /\ step' = [step EXCEPT ![q][j] = "idle"]
    /\ IF again
       THEN entry' = [entry EXCEPT ![q][j] = "waiting"]
       ELSE \E row \in Settlings(q, j, "failed") : entry' = [entry EXCEPT ![q] = row]

\* The first call of a handler; the OCR_RESULT consumer logs AI calls first.
FirstStep(q, j) ==
    CASE q = "OCR"            -> "recognise"
      [] q = "CLASSIFICATION" -> "publish"
      [] q = "RESULT"         -> "create"
      [] q = "OCR_RESULT"     -> IF engine[j] = "ai" THEN "log" ELSE "ocrDone"

\* The handler of entry j of queue q makes the call at and goes on with the call next.
Advance(q, j, at, next) ==
    /\ entry[q][j] = "active" /\ step[q][j] = at
    /\ step' = [step EXCEPT ![q][j] = next]

-----------------------------------------------------------------------------
(* POST /imports/file and /imports/text.                                   *)

\* The imports the daily quota counts, and those it lets in that are not recorded yet.
Recorded == {k \in Jobs : status[k] # "NONE"}
LetIn    == {k \in Jobs : request[k] \in {"store", "create"}}

\* Mutant of EnforceDailyQuota: the import that would be one too many is let in.
EnforceLate(j) ==
    /\ request[j] = "idle"
    /\ IF MaxImportsPerDay > 0 /\ Cardinality(Recorded) > MaxImportsPerDay
       THEN request' = [request EXCEPT ![j] = "refused"] /\ UNCHANGED crowd
       ELSE /\ request' = [request EXCEPT ![j] = "store"]
            /\ crowd' = IF Cardinality(LetIn) > crowd THEN Cardinality(LetIn) ELSE crowd
    /\ UNCHANGED <<documents, jobVars, queueVars, step, aiVars, candidates, faults>>

\* The quota is read, and nothing reserves the import that will use it.
EnforceDailyQuota(j) ==
    /\ request[j] = "idle"
    /\ IF MaxImportsPerDay > 0 /\ Cardinality(Recorded) >= MaxImportsPerDay
       THEN request' = [request EXCEPT ![j] = "refused"] /\ UNCHANGED crowd
       ELSE /\ request' = [request EXCEPT ![j] = "store"]
            /\ crowd' = IF Cardinality(LetIn) > crowd THEN Cardinality(LetIn) ELSE crowd
    /\ UNCHANGED <<documents, jobVars, queueVars, step, aiVars, candidates, faults>>

PutObject(j) ==
    /\ request[j] = "store"
    /\ request' = [request EXCEPT ![j] = "create"]
    /\ documents' = documents \cup {j}
    /\ UNCHANGED <<crowd, jobVars, queueVars, step, aiVars, candidates, faults>>

CreateWithAttachment(j) ==
    /\ request[j] = "create"
    /\ request' = [request EXCEPT ![j] = "enqueue"]
    /\ Transition(j, "PENDING")
    /\ UNCHANGED <<documents, crowd, queueVars, step, aiVars, candidates, faults>>

\* Mutant of EnqueueFirst: an image is sent to classification.
EnqueueClassificationOnly(j) ==
    /\ request[j] = "enqueue"
    /\ request' = [request EXCEPT ![j] = "mark"]
    /\ Add("CLASSIFICATION", j)
    /\ UNCHANGED <<documents, crowd, jobVars, step, aiVars, candidates, faults>>

\* enqueueImport for an image, enqueueClassification of a substitute OCRResult for a text.
EnqueueFirst(j) ==
    /\ request[j] = "enqueue"
    /\ request' = [request EXCEPT ![j] = "mark"]
    /\ Add(IF j \in Texts THEN "CLASSIFICATION" ELSE "OCR", j)
    /\ UNCHANGED <<documents, crowd, jobVars, step, aiVars, candidates, faults>>

\* The status is written after the entry is published, and unconditionally.
MarkRunning(j) ==
    /\ request[j] = "mark"
    /\ request' = [request EXCEPT ![j] = "done"]
    /\ Transition(j, IF j \in Texts THEN "CLASSIFICATION_RUNNING" ELSE "OCR_RUNNING")
    /\ UNCHANGED <<documents, crowd, queueVars, step, aiVars, candidates, faults>>

Request(j) ==
    PutObject(j) \/ CreateWithAttachment(j) \/ EnqueueFirst(j) \/ MarkRunning(j)

\* A call of the request throws, or the Backend stops: nothing resumes the request.
LoseRequest(j) ==
    /\ request[j] \in {"store", "create", "enqueue", "mark"}
    /\ request' = [request EXCEPT ![j] = "lost"]
    /\ faults < MaxFaults /\ faults' = faults + 1
    /\ UNCHANGED <<documents, crowd, jobVars, queueVars, step, aiVars, candidates>>

-----------------------------------------------------------------------------
(* BullMQ delivering entries to handlers.                                  *)

Take(q, j) ==
    /\ entry[q][j] = "waiting"
    /\ Cardinality({k \in Jobs : entry[q][k] = "active"}) < Slots[q]
    /\ entry' = [entry EXCEPT ![q][j] = "active"]
    /\ step' = [step EXCEPT ![q][j] = FirstStep(q, j)]
    /\ UNCHANGED <<requestVars, jobVars, failures, stalls, aiVars, candidates, faults>>

Complete(q, j) ==
    /\ Advance(q, j, "return", "idle")
    /\ \E row \in Settlings(q, j, "completed") : entry' = [entry EXCEPT ![q] = row]
    /\ UNCHANGED <<requestVars, jobVars, failures, stalls, aiVars, candidates, faults>>

\* A call of the handler throws (the AI call log never does): the entry is delivered
\* again while it has attempts left.
Throw(q, j) ==
    /\ entry[q][j] = "active" /\ step[q][j] \notin {"log", "return"}
    /\ failures' = [failures EXCEPT ![q][j] = @ + 1]
    /\ Release(q, j, failures[q][j] + 1 < AttemptsOf(q))
    /\ faults < MaxFaults /\ faults' = faults + 1
    /\ UNCHANGED <<requestVars, jobVars, stalls, aiVars, candidates>>

\* The process that runs the handler dies: the entry's lock expires and BullMQ
\* delivers it again, at most MaxStalled times.
Stall(q, j) ==
    /\ entry[q][j] = "active"
    /\ stalls' = [stalls EXCEPT ![q][j] = @ + 1]
    /\ Release(q, j, stalls[q][j] + 1 <= MaxStalled)
    /\ faults < MaxFaults /\ faults' = faults + 1
    /\ UNCHANGED <<requestVars, jobVars, failures, aiVars, candidates>>

-----------------------------------------------------------------------------
(* The two workers: process, then publish under the same id.               *)

\* The OCRResult names the engine of the text that is kept; the text of an import whose
\* OCRResult is published already will be ignored.
Recognised(j, e) ==
    engine' = [engine EXCEPT ![j] = IF entry["OCR_RESULT"][j] = "absent" THEN e ELSE @]

\* OcrProcessor.process: a configured assistant is asked first.
OcrWorkerRecognise(j) ==
    /\ Advance("OCR", j, "recognise", "publish")
    /\ j \in documents
    /\ Recognised(j, IF j \in Assisted THEN "ai" ELSE "internal")
    /\ calls' = IF j \in Assisted THEN [calls EXCEPT ![j] = @ + 1] ELSE calls
    /\ UNCHANGED <<requestVars, jobVars, queueVars, aiCalls, candidates, faults>>

\* The assistant fails, and the internal OCR is the fallback.
OcrWorkerFallback(j) ==
    /\ j \in Assisted
    /\ Advance("OCR", j, "recognise", "publish")
    /\ j \in documents
    /\ Recognised(j, "internal")
    /\ calls' = [calls EXCEPT ![j] = @ + 1]
    /\ faults < MaxFaults /\ faults' = faults + 1
    /\ UNCHANGED <<requestVars, jobVars, queueVars, aiCalls, candidates>>

OcrWorkerPublish(j) ==
    /\ Advance("OCR", j, "publish", "return")
    /\ Add("OCR_RESULT", j)
    /\ UNCHANGED <<requestVars, jobVars, aiVars, candidates, faults>>

ClassifierWorkerPublish(j) ==
    /\ Advance("CLASSIFICATION", j, "publish", "return")
    /\ Add("RESULT", j)
    /\ UNCHANGED <<requestVars, jobVars, aiVars, candidates, faults>>

(* OcrResultConsumer.handle. *)

OcrResultLog(j) ==
    /\ Advance("OCR_RESULT", j, "log", "ocrDone")
    /\ aiCalls' = [aiCalls EXCEPT ![j] = @ + 1]
    /\ UNCHANGED <<requestVars, jobVars, queueVars, engine, calls, candidates, faults>>

\* AiCallLogService.record is best effort: a failure of it is swallowed.
OcrResultLogFails(j) ==
    /\ Advance("OCR_RESULT", j, "log", "ocrDone")
    /\ faults < MaxFaults /\ faults' = faults + 1
    /\ UNCHANGED <<requestVars, jobVars, queueVars, aiVars, candidates>>

OcrResultDone(j) ==
    /\ Advance("OCR_RESULT", j, "ocrDone", "enqueue")
    /\ Transition(j, "OCR_DONE")
    /\ UNCHANGED <<requestVars, queueVars, aiVars, candidates, faults>>

\* Mutant of OcrResultEnqueue: the next stage is not asked for.
OcrResultNoEnqueue(j) ==
    /\ Advance("OCR_RESULT", j, "enqueue", "running")
    /\ UNCHANGED <<requestVars, jobVars, queueVars, aiVars, candidates, faults>>

OcrResultEnqueue(j) ==
    /\ Advance("OCR_RESULT", j, "enqueue", "running")
    /\ Add("CLASSIFICATION", j)
    /\ UNCHANGED <<requestVars, jobVars, aiVars, candidates, faults>>

OcrResultRunning(j) ==
    /\ Advance("OCR_RESULT", j, "running", "return")
    /\ Transition(j, "CLASSIFICATION_RUNNING")
    /\ UNCHANGED <<requestVars, queueVars, aiVars, candidates, faults>>

(* ImportResultConsumer.handle. *)

CreateFromClassification(j) ==
    /\ Advance("RESULT", j, "create", "ready")
    /\ candidates' = [candidates EXCEPT ![j] = @ + 1]
    /\ UNCHANGED <<requestVars, jobVars, queueVars, aiVars, faults>>

ReadyForValidation(j) ==
    /\ Advance("RESULT", j, "ready", "return")
    /\ Transition(j, "READY_FOR_VALIDATION")
    /\ UNCHANGED <<requestVars, queueVars, aiVars, candidates, faults>>

Handle(j) ==
    \/ OcrWorkerRecognise(j) \/ OcrWorkerPublish(j) \/ ClassifierWorkerPublish(j)
    \/ OcrResultLog(j) \/ OcrResultDone(j) \/ OcrResultEnqueue(j) \/ OcrResultRunning(j)
    \/ CreateFromClassification(j) \/ ReadyForValidation(j)

-----------------------------------------------------------------------------
Next ==
    \E j \in Jobs :
       \/ EnforceDailyQuota(j) \/ Request(j) \/ LoseRequest(j) \/ Handle(j)
       \/ OcrWorkerFallback(j) \/ OcrResultLogFails(j)
       \/ \E q \in Queues : Take(q, j) \/ Complete(q, j) \/ Throw(q, j) \/ Stall(q, j)

Spec == Init /\ [][Next]_vars

\* An accepted request, a delivered entry and a queue with work keep going; clients
\* and faults owe nothing.
Fairness ==
    \A j \in Jobs :
       /\ WF_vars(Request(j))
       /\ WF_vars(Handle(j))
       /\ \A q \in Queues : WF_vars(Take(q, j)) /\ WF_vars(Complete(q, j))

FairSpec == Spec /\ Fairness

-----------------------------------------------------------------------------
(* Safety.                                                                 *)

Logged(j, s) == \E i \in DOMAIN journal[j] : journal[j][i] = s

\* A worker or a consumer never runs ahead of the row and the document it works on:
\* an entry exists only for a recorded job whose document is stored, so that the
\* loader finds the document and transition finds the row it updates.
WorkHasRecord ==
    \A q \in Queues, j \in Jobs :
       entry[q][j] # "absent" => status[j] # "NONE" /\ j \in documents

\* A candidate is proposed only after the pipeline's earlier results were persisted: for
\* an image, the OCRResult (OCR_DONE) before its classification was asked for.
CandidateHasProvenance ==
    \A j \in Jobs :
       entry["RESULT"][j] # "absent" \/ candidates[j] > 0 =>
          /\ Logged(j, "PENDING")
          /\ j \notin Texts => Logged(j, "OCR_DONE")

\* Retries, republications and evicted entries upstream never multiply the candidates:
\* only a redelivered RESULT entry can, once per stall.
CandidatesBounded ==
    \A j \in Jobs : candidates[j] <= 1 + stalls["RESULT"][j]

\* OPE-005: the imports of a day exceed the quota by no more than the requests that stood
\* between their count and their row as another was counted.
QuotaPassedByCrowdOnly ==
    MaxImportsPerDay > 0 => Cardinality(Recorded) <= MaxImportsPerDay + crowd

\* READY_FOR_VALIDATION is only announced for a job that has a candidate.
ReadyHasCandidate ==
    \A j \in Jobs : Logged(j, "READY_FOR_VALIDATION") => candidates[j] > 0

-----------------------------------------------------------------------------
(* The inductive invariant behind the safety properties.                   *)

\* Only an active entry has a handler.
HandlerInv == \A q \in Queues, j \in Jobs : step[q][j] # "idle" => entry[q][j] = "active"

\* What a request has done by the step it has reached, and what an entry rests on.
RecordInv ==
    \A j \in Jobs :
       /\ request[j] \in {"create", "enqueue", "mark", "done"} => j \in documents
       /\ request[j] \in {"enqueue", "mark", "done"} => status[j] # "NONE"
       /\ status[j] # "NONE" => Logged(j, "PENDING")
       /\ \A q \in Queues : entry[q][j] # "absent" => status[j] # "NONE" /\ j \in documents

\* A text never enters the OCR queues (RM-007), and nothing of an image is past the
\* OCR_RESULT consumer before OCR_DONE is logged.
ProvenanceInv ==
    /\ \A j \in Texts : entry["OCR"][j] = "absent" /\ entry["OCR_RESULT"][j] = "absent"
    /\ \A j \in Jobs \ Texts :
          \/ Logged(j, "OCR_DONE")
          \/ /\ step["OCR_RESULT"][j] \notin {"enqueue", "running", "return"}
             /\ entry["CLASSIFICATION"][j] = "absent"
             /\ entry["RESULT"][j] = "absent"

\* How many candidates the deliveries of a RESULT entry can have created so far.
CandidateInv ==
    \A j \in Jobs :
       /\ entry["RESULT"][j] = "absent" => candidates[j] = 0 /\ stalls["RESULT"][j] = 0
       /\ entry["RESULT"][j] = "waiting" \/ step["RESULT"][j] = "create" =>
             candidates[j] <= stalls["RESULT"][j]
       /\ candidates[j] <= 1 + stalls["RESULT"][j]
       /\ step["RESULT"][j] \in {"ready", "return"} => candidates[j] > 0
       /\ Logged(j, "READY_FOR_VALIDATION") => candidates[j] > 0

\* All of it: what each step of the pipeline preserves.
IInv == TypeOK /\ HandlerInv /\ RecordInv /\ ProvenanceInv /\ CandidateInv

-----------------------------------------------------------------------------
(* The pipeline implements its contract.                                   *)

Contract == INSTANCE ImportContract WITH
    recorded    <- Recorded,
    recognised  <- {j \in Jobs : Logged(j, "OCR_DONE")},
    redelivered <- stalls["RESULT"],
    proposals   <- candidates,
    announced   <- {j \in Jobs : Logged(j, "READY_FOR_VALIDATION")}

\* Every behaviour of requests, queues, workers and consumers, with their failures and
\* redeliveries, is one the contract allows.
ImplementsContract == Contract!Spec

(* Liveness.                                                               *)

\* The import was given up: its request was lost before it published anything, or BullMQ has
\* used up the attempts or the redeliveries of one of its entries.
GivenUp(j) ==
    \/ request[j] = "lost" /\ \A q \in Queues : entry[q][j] = "absent"
    \/ \E q \in Queues : entry[q][j] = "failed"

\* READY_FOR_VALIDATION is announced while the request, or the handler of an earlier stage, has
\* still to write the status it is about.
Overtaken(j) ==
    /\ Logged(j, "READY_FOR_VALIDATION")
    /\ \/ request[j] = "mark"
       \/ entry["OCR_RESULT"][j] = "waiting"
       \/ step["OCR_RESULT"][j] \in {"log", "ocrDone", "enqueue", "running"}

\* The work on a recorded import is never dropped on the way: it ends in READY_FOR_VALIDATION
\* and stays there, unless it is given up or a late write of an earlier stage overtakes it.
ReadyForGoodUnlessGivenUp ==
    \A j \in Jobs :
       status[j] = "PENDING" ~>
          [](status[j] = "READY_FOR_VALIDATION") \/ GivenUp(j) \/ Overtaken(j)

-----------------------------------------------------------------------------
(* What documents say and the code does not do.                            *)

\* FSPEC.01 and TSPEC.04: an import one of whose stages fails for good passes to FAILED, if
\* another stage does not make it ready; it does not stay in the stage it had reached.
FailureEndsFailed ==
    \A j \in Jobs : (\E q \in Queues : entry[q][j] = "failed") ~>
                       status[j] \in {"READY_FOR_VALIDATION", "FAILED"}

\* ADR.16 and RG-AI-04: by the time its text is persisted, each AI call has left a trace.
EveryAiCallTraced ==
    \A j \in Jobs : Logged(j, "OCR_DONE") => aiCalls[j] >= calls[j]

=============================================================================
