----------------------- MODULE StructuredImport_proofs -----------------------
(***************************************************************************)
(* Proofs about StructuredImport, for every set of jobs, objects and       *)
(* requests: the safety of imports that run, fail and are replayed in      *)
(* parallel, from one inductive invariant.                                 *)
(***************************************************************************)
EXTENDS StructuredImport, FiniteSetTheorems, TLAPS

Early    == {"extract", "acquire"}
Reading  == {"validate", "normalize", "match"}
Claiming == {"resolve", "create", "open", "commit"}

InRun(r) == requests[r].step \in RunSteps

\* An import proposes an object, or a run of it is about to.
Claims(j, o) ==
    \/ \E c \in candidates : c.job = j /\ c.object = o
    \/ \E r \in Requests :
          requests[r].step \in Claiming /\ requests[r].job = j /\ o \in requests[r].objects

RunsKnown ==
    \A r \in Requests : InRun(r) =>
       LET j == requests[r].job
       IN  /\ jobs[j] # NoJob
           /\ requests[r].step \in Early =>
                 raws[j] = {} /\ jobs[j].status # "READY_FOR_VALIDATION"
           /\ requests[r].step \in Early \cup {"fail"} => ~requests[r].replay
           /\ requests[r].step \in Reading \cup Claiming => requests[r].objects \subseteq raws[j]
           /\ requests[r].replay => j \in replayed

RawsKnown == \A j \in Jobs : jobs[j] = NoJob => raws[j] = {}

CandidatesKnown == \A c \in candidates : jobs[c.job] # NoJob /\ c.object \in raws[c.job]

ReplaysKnown == overlapped \subseteq replayed /\ \A j \in replayed : jobs[j] # NoJob /\ raws[j] # {}

OneRun ==
    \A r, q \in Requests :
       InRun(r) /\ InRun(q) /\ requests[r].job = requests[q].job
          /\ requests[r].job \notin overlapped => r = q

\* As long as the import itself runs, it has proposed nothing.
NothingYet ==
    \A r \in Requests : InRun(r) /\ ~requests[r].replay /\ requests[r].job \notin overlapped =>
       \A c \in candidates : c.job # requests[r].job

RowsHeld ==
    \A r \in Requests : requests[r].step = "commit" =>
       /\ \A c \in requests[r].rows : c.status = "PENDING" /\ c.job = requests[r].job
       /\ requests[r].job \notin overlapped =>
             \A c \in candidates :
                c.job = requests[r].job /\ c.status = "PENDING" => c \in requests[r].rows

Exclusive ==
    \A j, k \in Jobs : \A o \in Keyed :
       j # k /\ jobs[j] # NoJob /\ jobs[k] # NoJob /\ jobs[j].provider = jobs[k].provider
          => ~(Claims(j, o) /\ Claims(k, o))

\* What a run has dropped is what another import of its provider proposes, or is orphaned.
Dropped(r) ==
    LET j == requests[r].job
    IN  /\ requests[r].step \in Reading => raws[j] \ Invalid \subseteq requests[r].objects
        /\ requests[r].step \in Claiming =>
              \A o \in (raws[j] \ Invalid) \ requests[r].objects :
                 /\ o \in Keyed
                 /\ <<jobs[j].provider, o>> \in orphaned \/ ProposedBySibling(j, o)

DroppedKnown == \A r \in Requests : Dropped(r)

IInv ==
    /\ TypeOK /\ RunsKnown /\ RawsKnown /\ CandidatesKnown /\ ReplaysKnown
    /\ OneRun /\ NothingYet /\ RowsHeld /\ Exclusive /\ DroppedKnown
    /\ FailedProposesNothing /\ OnePendingUnlessOverlapped /\ ReadIsProposedUnlessOrphaned

-----------------------------------------------------------------------------
(* Requests.                                                               *)

\* What the step of a request says of its record.
LEMMA RunTyped ==
    ASSUME TypeOK, NEW r \in Requests, requests[r].step \in RunSteps
    PROVE  requests[r] \in Run /\ requests[r].job \in Jobs
<1>1. requests[r] \in Run \cup Review \cup {Idle}
  BY DEF TypeOK
<1>2. \A x \in Review : x.step = "review"
  BY DEF Review
<1>3. Idle.step = "idle"
  BY DEF Idle
<1> QED BY <1>1, <1>2, <1>3 DEF RunSteps, Run

\* What the runs of no step but the first read of the jobs and write of the requests.
Quiet(r) ==
    /\ UNCHANGED <<raws, candidates, overlapped, replayed>> /\ orphaned' = orphaned
    /\ \A q \in Requests \ {r} : requests'[q] = requests[q]
    /\ requests'[r].step \in RunSteps =>
          /\ requests[r].step \in RunSteps
          /\ requests'[r].job = requests[r].job
          /\ requests'[r].replay = requests[r].replay
          /\ requests'[r].step \in Early => requests[r].step \in Early
          /\ requests'[r].step = "fail" => ~requests[r].replay
          /\ requests'[r].step \in Reading =>
                /\ requests[r].step \in Reading
                /\ requests'[r].objects \subseteq requests[r].objects
                /\ requests[r].objects \ Invalid \subseteq requests'[r].objects
          /\ requests'[r].step \in Claiming =>
                requests[r].step \in Claiming /\ requests'[r].objects = requests[r].objects
          /\ requests'[r].step # "commit"
    /\ \A j \in Jobs :
          /\ jobs[j] = NoJob <=> jobs'[j] = NoJob
          /\ jobs[j] # NoJob => jobs'[j].provider = jobs[j].provider
          /\ jobs'[j].status = "READY_FOR_VALIDATION" => jobs[j].status = "READY_FOR_VALIDATION"
          /\ jobs'[j].status = "FAILED" =>
                \/ jobs[j].status = "FAILED"
                \/ \A c \in candidates : c.job = j => j \in replayed

\* A quiet step keeps what relates imports, runs and candidates.
LEMMA QuietKeeps ==
    ASSUME IInv, TypeOK', NEW r \in Requests, Quiet(r)
    PROVE  IInv'
<1>0. /\ \A q \in Requests : InRun(q) => requests[q].job \in Jobs
      /\ \A c \in candidates : c.job \in Jobs
      /\ raws' = raws /\ candidates' = candidates /\ overlapped' = overlapped
      /\ replayed' = replayed /\ orphaned' = orphaned
      /\ overlapped \subseteq Jobs /\ replayed \subseteq Jobs
  BY RunTyped DEF InRun, IInv, TypeOK, Row, Quiet
<1>1. /\ \A q \in Requests : InRun(q)' =>
            InRun(q) /\ requests'[q].job = requests[q].job
                     /\ requests'[q].replay = requests[q].replay
      /\ \A q \in Requests : q # r => requests'[q] = requests[q]
  BY DEF Quiet, InRun
<1>2. \A j \in Jobs : Siblings(j)' = Siblings(j)
  BY DEF Quiet, Siblings
<1>3. \A j \in Jobs, o \in Objects : ProposedBySibling(j, o) => ProposedBySibling(j, o)'
  BY <1>0, <1>2 DEF ProposedBySibling
<1>4. \A j, o : Claims(j, o)' => Claims(j, o)
  BY <1>0, <1>1 DEF Claims, Quiet, Claiming, RunSteps
<1>5. RunsKnown'
  BY <1>0, <1>1 DEF RunsKnown, Quiet, IInv, InRun, Early, Reading, Claiming, RunSteps
<1>6. RawsKnown' /\ CandidatesKnown'
  BY <1>0 DEF RawsKnown, CandidatesKnown, Quiet, IInv
<1>7. ReplaysKnown'
  BY <1>0 DEF ReplaysKnown, Quiet, IInv
<1>8. OneRun'
  BY <1>0, <1>1 DEF OneRun, IInv
<1>9. NothingYet'
  BY <1>0, <1>1 DEF NothingYet, IInv
<1>10. RowsHeld'
  BY <1>0, <1>1 DEF RowsHeld, Quiet, IInv, RunSteps
<1>11. Exclusive'
  BY <1>0, <1>4 DEF Exclusive, Quiet, IInv
<1>12. DroppedKnown'
  BY <1>0, <1>1, <1>3 DEF DroppedKnown, Dropped, Quiet, IInv, Reading, Claiming, RunSteps, InRun,
     RunsKnown, TypeOK
<1>13. FailedProposesNothing'
  BY <1>0 DEF FailedProposesNothing, Quiet, IInv
<1>14. OnePendingUnlessOverlapped'
  BY <1>0 DEF OnePendingUnlessOverlapped, IInv
<1>15. ReadIsProposedUnlessOrphaned'
  BY <1>0, <1>2 DEF ReadIsProposedUnlessOrphaned, Quiet, IInv
<1> QED BY <1>5, <1>6, <1>7, <1>8, <1>9, <1>10, <1>11, <1>12, <1>13, <1>14, <1>15 DEF IInv

-----------------------------------------------------------------------------
(* The quiet steps.                                                        *)

\* What is written of a job that has a run changes its status only.
JobsKept(closing) ==
    /\ jobs' \in [Jobs -> Job \cup {NoJob}]
    /\ \A j \in Jobs :
          /\ jobs[j] = NoJob <=> jobs'[j] = NoJob
          /\ jobs[j] # NoJob => jobs'[j].provider = jobs[j].provider
          /\ jobs'[j].status \in Closed => jobs'[j].status = jobs[j].status \/ j \in closing

LEMMA EnterFacts ==
    ASSUME IInv, NEW r \in Requests, InRun(r), NEW s \in Stages \cup Closed, Enter(r, s)
    PROVE  /\ JobsKept(IF s \in Closed THEN {requests[r].job} ELSE {})
           /\ jobs'[requests[r].job].status = s
<1>1. requests[r].job \in Jobs
  BY RunTyped DEF InRun, IInv
<1>2. jobs[requests[r].job] \in Job /\ jobs \in [Jobs -> Job \cup {NoJob}]
  BY <1>1 DEF IInv, RunsKnown, TypeOK, InRun
<1>3. [jobs[requests[r].job] EXCEPT !.status = s] \in Job
  BY <1>2 DEF Job
<1>4. jobs' \in [Jobs -> Job \cup {NoJob}]
  BY <1>1, <1>2, <1>3 DEF Enter
<1>5. \A x \in Job : x # NoJob
  BY DEF Job, NoJob, Stages, Closed
<1>6. ASSUME NEW j \in Jobs
      PROVE  /\ jobs[j] = NoJob <=> jobs'[j] = NoJob
             /\ jobs[j] # NoJob => jobs'[j].provider = jobs[j].provider
             /\ jobs'[j].status \in Closed =>
                   jobs'[j].status = jobs[j].status \/ (s \in Closed /\ j = requests[r].job)
             /\ j = requests[r].job => jobs'[j].status = s
  <2>1. CASE j # requests[r].job
    <3>1. jobs'[j] = jobs[j]
      BY <1>2, <2>1 DEF Enter
    <3> QED BY <2>1, <3>1
  <2>2. CASE j = requests[r].job
    <3>1. jobs'[j] = [jobs[j] EXCEPT !.status = s]
      BY <1>2, <2>2 DEF Enter
    <3>2. jobs'[j].status = s /\ jobs'[j].provider = jobs[j].provider
      BY <1>2, <2>2, <3>1 DEF Job
    <3> QED BY <1>2, <1>3, <1>5, <2>2, <3>1, <3>2
  <2> QED BY <2>1, <2>2
<1> QED BY <1>1, <1>4, <1>6 DEF JobsKept

Untouched ==
    /\ UNCHANGED <<raws, candidates, overlapped, replayed, orphaned>>
    /\ organizers' \in Nat /\ stuck' \subseteq Jobs /\ served' \in Nat /\ faults' \in Nat

\* A request that writes nothing but its own record and the status of its job.
LEMMA MoveKeeps ==
    ASSUME IInv, NEW r \in Requests, NEW x \in Run \cup Review \cup {Idle},
           requests' = [requests EXCEPT ![r] = x],
           JobsKept({}),
           Untouched,
           x.step \in RunSteps =>
              /\ InRun(r)
              /\ x.job = requests[r].job /\ x.replay = requests[r].replay
              /\ x.step \in Early => requests[r].step \in Early
              /\ x.step = "fail" => ~requests[r].replay
              /\ x.step \in Reading =>
                    /\ requests[r].step \in Reading
                    /\ x.objects \subseteq requests[r].objects
                    /\ requests[r].objects \ Invalid \subseteq x.objects
              /\ x.step \in Claiming =>
                    requests[r].step \in Claiming /\ x.objects = requests[r].objects
              /\ x.step # "commit"
    PROVE  IInv'
<1>1. /\ requests' \in [Requests -> Run \cup Review \cup {Idle}]
      /\ requests'[r] = x
      /\ \A q \in Requests \ {r} : requests'[q] = requests[q]
  BY DEF IInv, TypeOK
<1>2. TypeOK'
  BY <1>1 DEF IInv, TypeOK, JobsKept, Untouched
<1>3. Quiet(r)
  BY <1>1 DEF Quiet, JobsKept, InRun, Closed, Untouched
<1> QED BY <1>2, <1>3, QuietKeeps

LEMMA JobsUntouched == ASSUME IInv, UNCHANGED jobs PROVE JobsKept({})
BY DEF IInv, TypeOK, JobsKept

LEMMA ExtractKeeps == ASSUME IInv, NEW r \in Requests, Extract(r) PROVE IInv'
<1> DEFINE x == [requests[r] EXCEPT !.step = "acquire"]
<1>1. InRun(r) /\ requests[r] \in Run /\ requests[r].step = "extract"
  BY RunTyped DEF InRun, IInv, Extract, At, RunSteps
<1>2. x \in Run /\ x.step = "acquire" /\ x.job = requests[r].job /\ x.replay = requests[r].replay
  BY <1>1 DEF Run, RunSteps
<1>3. requests' = [requests EXCEPT ![r] = x]
  BY DEF Extract, Goto
<1>4. JobsKept({})
  BY <1>1, EnterFacts DEF Extract, Enter, Stages, Closed
<1>5. Untouched
  BY DEF Extract, Untouched, history, IInv, TypeOK
<1> HIDE DEF x
<1> QED BY <1>1, <1>2, <1>3, <1>4, <1>5, MoveKeeps DEF Early, Reading, Claiming

LEMMA ValidateKeeps == ASSUME IInv, NEW r \in Requests, Validate(r) PROVE IInv'
<1> DEFINE x == [requests[r] EXCEPT !.step = "normalize", !.objects = @ \ Invalid]
<1>1. InRun(r) /\ requests[r] \in Run /\ requests[r].step = "validate"
  BY RunTyped DEF InRun, IInv, Validate, At, RunSteps
<1>2. x \in Run /\ x.step = "normalize" /\ x.job = requests[r].job
      /\ x.replay = requests[r].replay /\ x.objects = requests[r].objects \ Invalid
  BY <1>1 DEF Run, RunSteps
<1>3. requests' = [requests EXCEPT ![r] = x]
  BY DEF Validate
<1>4. JobsKept({})
  BY <1>1, EnterFacts DEF Validate, Stages, Closed
<1>5. Untouched
  BY DEF Validate, Untouched, history, IInv, TypeOK
<1> HIDE DEF x
<1> QED BY <1>1, <1>2, <1>3, <1>4, <1>5, MoveKeeps DEF Early, Reading, Claiming

LEMMA NormalizeKeeps == ASSUME IInv, NEW r \in Requests, Normalize(r) PROVE IInv'
<1> DEFINE x == [requests[r] EXCEPT !.step = "match"]
<1>1. InRun(r) /\ requests[r] \in Run /\ requests[r].step = "normalize"
  BY RunTyped DEF InRun, IInv, Normalize, At, RunSteps
<1>2. x \in Run /\ x.step = "match" /\ x.job = requests[r].job
      /\ x.replay = requests[r].replay /\ x.objects = requests[r].objects
  BY <1>1 DEF Run, RunSteps
<1>3. requests' = [requests EXCEPT ![r] = x]
  BY DEF Normalize, Goto
<1>4. JobsKept({})
  BY <1>1, EnterFacts DEF Normalize, Stages, Closed
<1>5. Untouched
  BY DEF Normalize, Untouched, history, IInv, TypeOK
<1> HIDE DEF x
<1> QED BY <1>1, <1>2, <1>3, <1>4, <1>5, MoveKeeps DEF Early, Reading, Claiming

LEMMA ResolveKeeps == ASSUME IInv, NEW r \in Requests, Resolve(r) PROVE IInv'
<1>1. InRun(r) /\ requests[r] \in Run /\ requests[r].step = "resolve"
  BY RunTyped DEF InRun, IInv, Resolve, At, RunSteps
<1>2. PICK next \in {"create", "open"} : Goto(r, next)
  BY DEF Resolve
<1> DEFINE x == [requests[r] EXCEPT !.step = next]
<1>3. x \in Run /\ x.step = next /\ x.job = requests[r].job
      /\ x.replay = requests[r].replay /\ x.objects = requests[r].objects
  BY <1>1 DEF Run, RunSteps
<1>4. requests' = [requests EXCEPT ![r] = x]
  BY <1>2 DEF Goto
<1>5. JobsKept({})
  BY JobsUntouched DEF Resolve
<1>6. Untouched
  BY DEF Resolve, Untouched, history, IInv, TypeOK
<1> HIDE DEF x
<1> QED BY <1>1, <1>3, <1>4, <1>5, <1>6, MoveKeeps DEF Early, Reading, Claiming

LEMMA CreateOrganizerKeeps == ASSUME IInv, NEW r \in Requests, CreateOrganizer(r) PROVE IInv'
<1> DEFINE x == [requests[r] EXCEPT !.step = "open"]
<1>1. InRun(r) /\ requests[r] \in Run /\ requests[r].step = "create"
  BY RunTyped DEF InRun, IInv, CreateOrganizer, At, RunSteps
<1>2. x \in Run /\ x.step = "open" /\ x.job = requests[r].job
      /\ x.replay = requests[r].replay /\ x.objects = requests[r].objects
  BY <1>1 DEF Run, RunSteps
<1>3. requests' = [requests EXCEPT ![r] = x]
  BY DEF CreateOrganizer, Goto
<1>4. JobsKept({})
  BY JobsUntouched DEF CreateOrganizer
<1>5. Untouched
  BY DEF CreateOrganizer, Untouched, history, IInv, TypeOK
<1> HIDE DEF x
<1> QED BY <1>1, <1>2, <1>3, <1>4, <1>5, MoveKeeps DEF Early, Reading, Claiming

\* A throw ends a replay and leads an import to its catch block.
LEMMA ThrowKeeps == ASSUME IInv, NEW r \in Requests, Throw(r) PROVE IInv'
<1>1. InRun(r) /\ requests[r] \in Run /\ requests[r].job \in Jobs
  BY RunTyped DEF InRun, IInv, Throw, RunSteps
<1>2. JobsKept({})
  BY JobsUntouched DEF Throw
<1>0. Untouched
  BY <1>1 DEF Throw, Untouched, IInv, TypeOK
<1>3. CASE requests[r].replay
  <2>1. requests' = [requests EXCEPT ![r] = Idle] /\ Idle.step \notin RunSteps
    BY <1>3 DEF Throw, Finish, Idle, RunSteps
  <2> QED BY <1>0, <1>2, <2>1, MoveKeeps
<1>4. CASE ~requests[r].replay
  <2> DEFINE x == [requests[r] EXCEPT !.step = "fail"]
  <2>1. x \in Run /\ x.step = "fail" /\ x.job = requests[r].job /\ x.replay = requests[r].replay
    BY <1>1 DEF Run, RunSteps
  <2>2. requests' = [requests EXCEPT ![r] = x]
    BY <1>4 DEF Throw, Goto
  <2> HIDE DEF x
  <2> QED BY <1>0, <1>1, <1>2, <1>4, <2>1, <2>2, MoveKeeps DEF Early, Reading, Claiming
<1> QED BY <1>3, <1>4

LEMMA LoseRunKeeps == ASSUME IInv, NEW r \in Requests, LoseRun(r) PROVE IInv'
<1>1. InRun(r) /\ requests[r].job \in Jobs
  BY RunTyped DEF InRun, IInv, LoseRun
<1>2. requests' = [requests EXCEPT ![r] = Idle] /\ Idle.step \notin RunSteps
  BY DEF LoseRun, Finish, Idle, RunSteps
<1>3. JobsKept({})
  BY JobsUntouched DEF LoseRun
<1>4. Untouched
  BY <1>1 DEF LoseRun, Untouched, IInv, TypeOK
<1> QED BY <1>2, <1>3, <1>4, MoveKeeps

LEMMA ReadCandidateKeeps ==
    ASSUME IInv, NEW r \in Requests, NEW c \in candidates, NEW d \in Decisions,
           ReadCandidate(r, c, d)
    PROVE  IInv'
<1> DEFINE x == [step |-> "review", row |-> c, decision |-> d]
<1>1. x \in Review /\ x.step \notin RunSteps
  BY DEF Review, RunSteps, IInv, TypeOK
<1>2. requests' = [requests EXCEPT ![r] = x]
  BY DEF ReadCandidate
<1>3. JobsKept({})
  BY JobsUntouched DEF ReadCandidate
<1>4. Untouched
  BY DEF ReadCandidate, Serve, Untouched, history, IInv, TypeOK
<1> HIDE DEF x
<1> QED BY <1>1, <1>2, <1>3, <1>4, MoveKeeps

\* An import that fails has proposed nothing, or a replay has begun.
LEMMA MarkFailedKeeps == ASSUME IInv, NEW r \in Requests, MarkFailed(r) PROVE IInv'
<1> DEFINE j == requests[r].job
<1>1. InRun(r) /\ requests[r].step = "fail" /\ j \in Jobs
  BY RunTyped DEF InRun, IInv, MarkFailed, At, RunSteps
<1>2. JobsKept({j}) /\ jobs'[j].status = "FAILED"
  BY <1>1, EnterFacts DEF MarkFailed, Enter, Closed
<1>3. \A c \in candidates : c.job = j => j \in replayed
  BY <1>1 DEF IInv, NothingYet, RunsKnown, ReplaysKnown
<1>4. requests' = [requests EXCEPT ![r] = Idle] /\ Idle.step \notin RunSteps
  BY DEF MarkFailed, Finish, Idle, RunSteps
<1> HIDE DEF j
<1>5. /\ requests' \in [Requests -> Run \cup Review \cup {Idle}]
      /\ requests'[r] = Idle
      /\ \A q \in Requests \ {r} : requests'[q] = requests[q]
  BY <1>4 DEF IInv, TypeOK
<1>6. TypeOK'
  BY <1>2, <1>5 DEF MarkFailed, history, IInv, TypeOK, JobsKept
<1>7. Quiet(r)
  BY <1>2, <1>3, <1>4, <1>5 DEF MarkFailed, history, Quiet, JobsKept, Closed
<1> QED BY <1>6, <1>7, QuietKeeps

-----------------------------------------------------------------------------
(* The steps that read or write what runs share.                           *)

LEMMA CreateJobKeeps ==
    ASSUME IInv, NEW r \in Requests, NEW j \in Jobs, NEW p \in Providers, NEW b \in Batches,
           CreateJob(r, j, p, b)
    PROVE  IInv'
<1> DEFINE x == NewRun(j, "extract", FALSE, b)
           y == [status |-> "PENDING", provider |-> p]
<1>1. x \in Run /\ x.step = "extract" /\ x.job = j /\ ~x.replay
  BY BatchesKnown DEF NewRun, Run, RunSteps, IInv, TypeOK
<1>2. y \in Job /\ y # NoJob /\ y.provider = p /\ y.status = "PENDING"
  BY DEF Job, NoJob, Stages
<1>3. requests[r] = Idle /\ jobs[j] = NoJob /\ ~InRun(r)
  BY DEF CreateJob, Serve, Idle, InRun, RunSteps
<1>4. requests' = [requests EXCEPT ![r] = x] /\ jobs' = [jobs EXCEPT ![j] = y]
      /\ UNCHANGED <<raws, candidates, organizers, overlapped, replayed, orphaned, stuck, faults>>
      /\ served' = served + 1
  BY DEF CreateJob, Serve, history
<1> HIDE DEF x, y
<1>5. /\ requests' \in [Requests -> Run \cup Review \cup {Idle}]
      /\ requests'[r] = x
      /\ \A q \in Requests \ {r} : requests'[q] = requests[q]
      /\ jobs' \in [Jobs -> Job \cup {NoJob}]
      /\ jobs'[j] = y
      /\ \A k \in Jobs \ {j} : jobs'[k] = jobs[k]
  BY <1>1, <1>2, <1>4 DEF IInv, TypeOK
<1>6. /\ \A q \in Requests : InRun(q) => requests[q].job \in Jobs \ {j}
      /\ \A c \in candidates : c.job \in Jobs \ {j}
      /\ j \notin replayed /\ j \notin overlapped
  BY <1>3, RunTyped DEF IInv, RunsKnown, CandidatesKnown, ReplaysKnown, InRun, TypeOK, Row
<1>7. /\ \A q \in Requests \ {r} : InRun(q)' <=> InRun(q)
      /\ InRun(r)' /\ requests'[r].step \notin Reading \cup Claiming
      /\ requests'[r].step # "commit" /\ requests'[r].step # "fail"
  BY <1>1, <1>5 DEF InRun, RunSteps, Reading, Claiming
<1>8. \A k \in Jobs \ {j} : Siblings(k) \subseteq Siblings(k)'
  BY <1>3, <1>5 DEF Siblings
<1>9. \A k \in Jobs \ {j} : \A o : ProposedBySibling(k, o) => ProposedBySibling(k, o)'
  BY <1>4, <1>8 DEF ProposedBySibling
<1>10. \A k, o : Claims(k, o)' => Claims(k, o)
  BY <1>4, <1>5, <1>7 DEF Claims
<1>11. \A o : ~Claims(j, o)
  BY <1>6 DEF Claims, InRun, Claiming, RunSteps
<1>12. TypeOK'
  BY <1>4, <1>5 DEF IInv, TypeOK
<1>13. raws[j] = {}
  BY <1>3 DEF IInv, RawsKnown
<1>14. RunsKnown'
  BY <1>1, <1>2, <1>4, <1>5, <1>6, <1>7, <1>13 DEF IInv, RunsKnown, Early
<1>15. RawsKnown' /\ CandidatesKnown' /\ ReplaysKnown'
  BY <1>2, <1>4, <1>5, <1>6 DEF IInv, RawsKnown, CandidatesKnown, ReplaysKnown, TypeOK
<1>16. OneRun' /\ NothingYet' /\ RowsHeld'
  BY <1>1, <1>4, <1>5, <1>6, <1>7 DEF IInv, OneRun, NothingYet, RowsHeld
<1>17. Exclusive'
  BY <1>5, <1>10, <1>11 DEF IInv, Exclusive
<1>18. DroppedKnown'
  BY <1>4, <1>5, <1>6, <1>7, <1>9
     DEF IInv, DroppedKnown, Dropped, InRun, Reading, Claiming, RunSteps, TypeOK
<1>19. FailedProposesNothing' /\ OnePendingUnlessOverlapped'
  BY <1>4, <1>5, <1>6 DEF IInv, FailedProposesNothing, OnePendingUnlessOverlapped
<1>20. ReadIsProposedUnlessOrphaned'
  BY <1>2, <1>4, <1>5, <1>8 DEF IInv, ReadIsProposedUnlessOrphaned
<1> QED BY <1>12, <1>14, <1>15, <1>16, <1>17, <1>18, <1>19, <1>20 DEF IInv

LEMMA CreateRawEventsKeeps == ASSUME IInv, NEW r \in Requests, CreateRawEvents(r) PROVE IInv'
<1> DEFINE x == [requests[r] EXCEPT !.step = "validate"]
           j == requests[r].job
<1>1. InRun(r) /\ requests[r] \in Run /\ requests[r].step = "acquire" /\ j \in Jobs
  BY RunTyped DEF InRun, IInv, CreateRawEvents, At, RunSteps
<1>2. x \in Run /\ x.step = "validate" /\ x.job = j /\ x.replay = requests[r].replay
      /\ x.objects = requests[r].objects
  BY <1>1 DEF Run, RunSteps
<1>3. /\ requests' = [requests EXCEPT ![r] = x] /\ raws' = [raws EXCEPT ![j] = x.objects]
      /\ UNCHANGED <<jobs, candidates, organizers, overlapped, replayed, orphaned, stuck>>
      /\ UNCHANGED <<served, faults>>
  BY <1>2 DEF CreateRawEvents, Goto, history
<1>4. /\ raws[j] = {} /\ ~requests[r].replay /\ jobs[j] # NoJob
      /\ j \notin replayed /\ j \notin overlapped
      /\ \A c \in candidates : c.job # j
  BY <1>1 DEF IInv, RunsKnown, ReplaysKnown, CandidatesKnown, Early
<1> HIDE DEF x, j
<1>5. /\ requests' \in [Requests -> Run \cup Review \cup {Idle}]
      /\ requests'[r] = x
      /\ \A q \in Requests \ {r} : requests'[q] = requests[q]
      /\ raws' \in [Jobs -> SUBSET Objects]
      /\ raws'[j] = x.objects
      /\ \A k \in Jobs \ {j} : raws'[k] = raws[k]
  BY <1>1, <1>2, <1>3 DEF IInv, TypeOK, Run
<1>6. \A q \in Requests \ {r} : InRun(q) => requests[q].job \in Jobs \ {j}
  BY <1>1, <1>4, RunTyped DEF IInv, OneRun, InRun, j
<1>7. /\ \A q \in Requests : InRun(q)' <=> InRun(q)
      /\ requests'[r].step \notin Early \cup {"fail"} \cup Claiming
      /\ requests'[r].step # "commit"
  BY <1>1, <1>2, <1>5 DEF InRun, RunSteps, Early, Claiming
<1>8. \A k \in Jobs : \A o : /\ Siblings(k)' = Siblings(k)
                             /\ ProposedBySibling(k, o)' <=> ProposedBySibling(k, o)
  BY <1>3 DEF Siblings, ProposedBySibling
<1>9. \A k, o : Claims(k, o)' => Claims(k, o)
  BY <1>3, <1>5, <1>7 DEF Claims
<1>10. TypeOK'
  BY <1>3, <1>5 DEF IInv, TypeOK
<1>11. RunsKnown'
  BY <1>2, <1>3, <1>4, <1>5, <1>6, <1>7 DEF IInv, RunsKnown
<1>12. RawsKnown' /\ CandidatesKnown' /\ ReplaysKnown'
  BY <1>1, <1>3, <1>4, <1>5 DEF IInv, RawsKnown, CandidatesKnown, ReplaysKnown, TypeOK, Row
<1>13. OneRun' /\ NothingYet' /\ RowsHeld'
  BY <1>2, <1>3, <1>4, <1>5, <1>6, <1>7 DEF IInv, OneRun, NothingYet, RowsHeld
<1>14. Exclusive'
  BY <1>3, <1>9 DEF IInv, Exclusive
<1>15. DroppedKnown'
  BY <1>2, <1>3, <1>5, <1>6, <1>7, <1>8
     DEF IInv, DroppedKnown, Dropped, InRun, Reading, Claiming, RunSteps, TypeOK
<1>16. FailedProposesNothing' /\ OnePendingUnlessOverlapped'
  BY <1>3 DEF IInv, FailedProposesNothing, OnePendingUnlessOverlapped
<1>17. jobs[j].status # "READY_FOR_VALIDATION"
  BY <1>1 DEF IInv, RunsKnown, Early, j
<1>18. ReadIsProposedUnlessOrphaned'
  BY <1>3, <1>5, <1>8, <1>17 DEF IInv, ReadIsProposedUnlessOrphaned
<1> QED BY <1>10, <1>11, <1>12, <1>13, <1>14, <1>15, <1>16, <1>18 DEF IInv

LEMMA ReplayKeeps ==
    ASSUME IInv, NEW r \in Requests, NEW j \in Jobs, Replay(r, j)
    PROVE  IInv'
<1> DEFINE x == NewRun(j, "validate", TRUE, raws[j])
<1>1. x \in Run /\ x.step = "validate" /\ x.job = j /\ x.replay /\ x.objects = raws[j]
  BY DEF NewRun, Run, RunSteps, IInv, TypeOK
<1>2. requests[r] = Idle /\ ~InRun(r) /\ jobs[j] # NoJob /\ raws[j] # {}
  BY DEF Replay, Serve, Idle, InRun, RunSteps
<1>3. /\ requests' = [requests EXCEPT ![r] = x] /\ replayed' = replayed \cup {j}
      /\ overlapped' = IF Runs(j) # {} THEN overlapped \cup {j} ELSE overlapped
      /\ UNCHANGED <<jobs, raws, candidates, organizers, orphaned, stuck, faults>>
      /\ served' = served + 1
  BY DEF Replay, Serve
<1> HIDE DEF x
<1>4. /\ requests' \in [Requests -> Run \cup Review \cup {Idle}]
      /\ requests'[r] = x
      /\ \A q \in Requests \ {r} : requests'[q] = requests[q]
  BY <1>1, <1>3 DEF IInv, TypeOK
<1>5. \A q \in Requests \ {r} : InRun(q) /\ requests[q].job = j => j \in overlapped'
  BY <1>3 DEF Runs, InRun
<1>6. overlapped \subseteq overlapped' /\ overlapped' \subseteq overlapped \cup {j}
  BY <1>3
<1>7. /\ \A q \in Requests \ {r} : InRun(q)' <=> InRun(q)
      /\ InRun(r)' /\ requests'[r].step \notin Early \cup {"fail"} \cup Claiming
      /\ requests'[r].step # "commit" /\ requests'[r].step \in Reading
  BY <1>1, <1>4 DEF InRun, RunSteps, Early, Claiming, Reading
<1>8. \A k \in Jobs : \A o : /\ Siblings(k)' = Siblings(k)
                             /\ ProposedBySibling(k, o)' <=> ProposedBySibling(k, o)
  BY <1>3 DEF Siblings, ProposedBySibling
<1>9. \A k, o : Claims(k, o)' => Claims(k, o)
  BY <1>3, <1>4, <1>7 DEF Claims
<1>10. TypeOK'
  BY <1>3, <1>4, <1>6 DEF IInv, TypeOK
<1>11. RunsKnown'
  BY <1>1, <1>2, <1>3, <1>4, <1>7 DEF IInv, RunsKnown
<1>12. RawsKnown' /\ CandidatesKnown' /\ ReplaysKnown'
  BY <1>2, <1>3, <1>6 DEF IInv, RawsKnown, CandidatesKnown, ReplaysKnown
<1>13. OneRun'
  BY <1>1, <1>4, <1>5, <1>6, <1>7 DEF IInv, OneRun
<1>14. NothingYet' /\ RowsHeld'
  BY <1>1, <1>3, <1>4, <1>6, <1>7 DEF IInv, NothingYet, RowsHeld
<1>15. Exclusive'
  BY <1>3, <1>9 DEF IInv, Exclusive
<1>16. DroppedKnown'
  BY <1>1, <1>3, <1>4, <1>7, <1>8, RunTyped
     DEF IInv, DroppedKnown, Dropped, InRun, Reading, Claiming, RunSteps
<1>17. FailedProposesNothing' /\ OnePendingUnlessOverlapped'
  BY <1>3, <1>6 DEF IInv, FailedProposesNothing, OnePendingUnlessOverlapped
<1>18. ReadIsProposedUnlessOrphaned'
  BY <1>3, <1>8 DEF IInv, ReadIsProposedUnlessOrphaned
<1> QED BY <1>10, <1>11, <1>12, <1>13, <1>14, <1>15, <1>16, <1>17, <1>18 DEF IInv

\* What a run drops has been read by another import of the provider, which alone may propose it;
\* what it keeps no other import has read.
LEMMA DeduplicateKeeps == ASSUME IInv, NEW r \in Requests, Deduplicate(r) PROVE IInv'
<1> DEFINE j == requests[r].job
           known == requests[r].objects \cap KnownKeys(j)
<1>1. PICK next \in {"resolve", "open"} :
         requests' = [requests EXCEPT ![r].objects = @ \ known, ![r].step = next]
  BY DEF Deduplicate
<1> DEFINE x == [requests[r] EXCEPT !.objects = @ \ known, !.step = next]
<1>2. InRun(r) /\ requests[r] \in Run /\ requests[r].step = "match" /\ j \in Jobs
  BY RunTyped DEF InRun, IInv, Deduplicate, At, RunSteps
<1>3. x \in Run /\ x.step = next /\ x.job = j /\ x.replay = requests[r].replay
      /\ x.objects = requests[r].objects \ known
  BY <1>2 DEF Run, RunSteps
<1>4. /\ requests' = [requests EXCEPT ![r] = x]
      /\ UNCHANGED <<raws, candidates, organizers, overlapped, replayed, stuck, served, faults>>
  BY <1>1 DEF Deduplicate
<1>5. JobsKept({})
  BY <1>2, EnterFacts DEF Deduplicate, Stages, Closed
<1>6. orphaned' = orphaned \cup
         {<<jobs[j].provider, o>> : o \in {k \in known : ~ProposedBySibling(j, k)}}
  BY DEF Deduplicate
<1>7. jobs[j] # NoJob /\ jobs[j].provider \in Providers /\ raws[j] \subseteq Objects
  BY <1>2 DEF IInv, RunsKnown, TypeOK, Job
<1>8. /\ known \subseteq Keyed
      /\ \A o \in Keyed, k \in Siblings(j) : o \in raws[k] => o \in KnownKeys(j)
  BY DEF KnownKeys
<1>9. requests[r].objects \subseteq raws[j] /\ raws[j] \ Invalid \subseteq requests[r].objects
  BY <1>2 DEF IInv, RunsKnown, DroppedKnown, Dropped, Reading
<1>10. \A o \in Keyed, k \in Siblings(j) : o \in x.objects => o \notin raws[k]
  BY <1>3, <1>8
<1> HIDE DEF x
<1>11. /\ requests' \in [Requests -> Run \cup Review \cup {Idle}]
       /\ requests'[r] = x
       /\ \A q \in Requests \ {r} : requests'[q] = requests[q]
  BY <1>3, <1>4 DEF IInv, TypeOK
<1>12. orphaned \subseteq orphaned' /\ orphaned' \subseteq Providers \X Objects
  BY <1>6, <1>7, <1>8, <1>9 DEF IInv, TypeOK
<1>13. \A o \in known : <<jobs[j].provider, o>> \in orphaned' \/ ProposedBySibling(j, o)
  BY <1>6
<1>14. \A o \in (raws[j] \ Invalid) \ x.objects : o \in known /\ o \in Keyed
  BY <1>3, <1>8, <1>9
<1> HIDE DEF j, known
<1>15. /\ \A q \in Requests : InRun(q)' <=> InRun(q)
       /\ requests'[r].step \notin Early \cup {"fail"} \cup Reading
       /\ requests'[r].step # "commit" /\ requests'[r].step \in Claiming
  BY <1>2, <1>3, <1>11 DEF InRun, RunSteps, Early, Reading, Claiming
<1>16. \A k \in Jobs : Siblings(k)' = Siblings(k)
  BY <1>5 DEF JobsKept, Siblings
<1>17. \A k \in Jobs : \A o : ProposedBySibling(k, o)' <=> ProposedBySibling(k, o)
  BY <1>4, <1>16 DEF ProposedBySibling
<1>18. \A k, o : Claims(k, o)' => Claims(k, o) \/ (k = j /\ o \in x.objects)
  BY <1>3, <1>4, <1>11, <1>15 DEF Claims
<1>19. \A k \in Jobs : \A o : Claims(k, o) => o \in raws[k]
  BY DEF IInv, Claims, CandidatesKnown, RunsKnown, InRun, RunSteps, Claiming
<1>20. TypeOK'
  BY <1>4, <1>5, <1>11, <1>12 DEF IInv, TypeOK, JobsKept
<1>21. RunsKnown'
  <2>1. \A k \in Jobs : jobs[k].status # "READY_FOR_VALIDATION"
                           => jobs'[k].status # "READY_FOR_VALIDATION"
    BY <1>5 DEF JobsKept, Closed
  <2>2. \A q \in Requests : InRun(q) => requests[q].job \in Jobs
    BY RunTyped DEF InRun, IInv
  <2>3. j = requests[r].job
    BY DEF j
  <2> QED BY <1>2, <1>3, <1>4, <1>5, <1>9, <1>11, <1>15, <2>1, <2>2, <2>3
          DEF IInv, RunsKnown, JobsKept
<1>22. RawsKnown' /\ CandidatesKnown' /\ ReplaysKnown'
  BY <1>4, <1>5 DEF IInv, RawsKnown, CandidatesKnown, ReplaysKnown, JobsKept, TypeOK, Row
<1>23. OneRun' /\ NothingYet' /\ RowsHeld'
  BY <1>2, <1>3, <1>4, <1>11, <1>15 DEF IInv, OneRun, NothingYet, RowsHeld, j
<1>24. Exclusive'
  <2> SUFFICES ASSUME NEW a \in Jobs, NEW b \in Jobs, NEW o \in Keyed, a # b,
                      jobs'[a] # NoJob, jobs'[b] # NoJob, jobs'[a].provider = jobs'[b].provider,
                      Claims(a, o)', Claims(b, o)'
               PROVE  FALSE
    BY DEF Exclusive
  <2>1. jobs[a] # NoJob /\ jobs[b] # NoJob /\ jobs[a].provider = jobs[b].provider
    BY <1>5 DEF JobsKept
  <2>2. a \in Siblings(b) /\ b \in Siblings(a)
    BY <2>1 DEF Siblings
  <2>3. CASE Claims(a, o) /\ Claims(b, o)
    BY <2>1, <2>3 DEF IInv, Exclusive
  <2>4. CASE a = j /\ o \in x.objects
    BY <1>10, <1>18, <1>19, <2>2, <2>4
  <2>5. CASE b = j /\ o \in x.objects
    BY <1>10, <1>18, <1>19, <2>2, <2>5
  <2> QED BY <1>18, <2>3, <2>4, <2>5
<1>25. DroppedKnown'
  <2> SUFFICES ASSUME NEW q \in Requests, InRun(q) PROVE Dropped(q)'
    BY <1>15 DEF DroppedKnown, Dropped, InRun, RunSteps, Reading, Claiming
  <2>1. requests[q].job \in Jobs /\ jobs[requests[q].job] # NoJob
    BY RunTyped DEF IInv, RunsKnown, InRun
  <2>2. jobs'[requests[q].job].provider = jobs[requests[q].job].provider
    BY <1>5, <2>1 DEF JobsKept
  <2>3. CASE q = r
    BY <1>3, <1>4, <1>11, <1>13, <1>14, <1>15, <1>17, <2>1, <2>2, <2>3 DEF j, Dropped
  <2>4. CASE q # r
    BY <1>4, <1>11, <1>12, <1>17, <2>1, <2>2, <2>4
       DEF IInv, DroppedKnown, Dropped
  <2> QED BY <2>3, <2>4
<1>26. FailedProposesNothing' /\ OnePendingUnlessOverlapped'
  BY <1>4, <1>5
     DEF IInv, FailedProposesNothing, OnePendingUnlessOverlapped, JobsKept, TypeOK, Row, Closed
<1>27. ReadIsProposedUnlessOrphaned'
  <2>1. \A k \in Jobs : jobs'[k].status = "READY_FOR_VALIDATION"
           => jobs[k].status = "READY_FOR_VALIDATION" /\ jobs[k] # NoJob
    BY <1>5 DEF JobsKept, Closed, NoJob
  <2> QED BY <1>4, <1>5, <1>12, <1>16, <2>1 DEF IInv, ReadIsProposedUnlessOrphaned, JobsKept
<1> QED BY <1>20, <1>21, <1>22, <1>23, <1>24, <1>25, <1>26, <1>27 DEF IInv

LEMMA OpenPersistKeeps == ASSUME IInv, NEW r \in Requests, OpenPersist(r) PROVE IInv'
<1> DEFINE x == [requests[r] EXCEPT !.step = "commit", !.rows = Replaced(r)]
           j == requests[r].job
<1>1. InRun(r) /\ requests[r] \in Run /\ requests[r].step = "open" /\ j \in Jobs
  BY RunTyped DEF InRun, IInv, OpenPersist, At, RunSteps
<1>2. Replaced(r) \subseteq Row
  BY DEF Replaced, IInv, TypeOK
<1>3. x \in Run /\ x.step = "commit" /\ x.job = j /\ x.replay = requests[r].replay
      /\ x.objects = requests[r].objects /\ x.rows = Replaced(r)
  BY <1>1, <1>2 DEF Run, RunSteps
<1>4. /\ requests' = [requests EXCEPT ![r] = x]
      /\ UNCHANGED <<raws, candidates, organizers, history, served, faults>>
  BY DEF OpenPersist
<1>5. JobsKept({})
  BY <1>1, EnterFacts DEF OpenPersist, Stages, Closed
<1>6. /\ \A c \in Replaced(r) : c.status = "PENDING" /\ c.job = j
      /\ j \notin overlapped =>
            \A c \in candidates : c.job = j /\ c.status = "PENDING" => c \in Replaced(r)
  BY <1>1 DEF Replaced, IInv, NothingYet
<1> HIDE DEF x
<1>7. /\ requests' \in [Requests -> Run \cup Review \cup {Idle}]
      /\ requests'[r] = x
      /\ \A q \in Requests \ {r} : requests'[q] = requests[q]
  BY <1>3, <1>4 DEF IInv, TypeOK
<1>8. /\ \A q \in Requests : InRun(q)' <=> InRun(q)
      /\ requests'[r].step \notin Early \cup {"fail"} \cup Reading
      /\ requests'[r].step \in Claiming /\ requests[r].step \in Claiming
  BY <1>1, <1>3, <1>7 DEF InRun, RunSteps, Early, Reading, Claiming
<1>9. \A k \in Jobs : Siblings(k)' = Siblings(k)
  BY <1>5 DEF JobsKept, Siblings
<1>10. \A k \in Jobs : \A o : ProposedBySibling(k, o)' <=> ProposedBySibling(k, o)
  BY <1>4, <1>9 DEF ProposedBySibling
<1>11. \A k, o : Claims(k, o)' => Claims(k, o)
  BY <1>3, <1>4, <1>7, <1>8 DEF Claims
<1>12. \A q \in Requests : InRun(q) => requests[q].job \in Jobs
  BY RunTyped DEF InRun, IInv
<1>13. UNCHANGED <<overlapped, replayed, orphaned, stuck>>
  BY <1>4 DEF history
<1>14. TypeOK'
  BY <1>4, <1>5, <1>7, <1>13 DEF IInv, TypeOK, JobsKept
<1>15. RunsKnown'
  <2>1. \A k \in Jobs : jobs[k].status # "READY_FOR_VALIDATION"
                           => jobs'[k].status # "READY_FOR_VALIDATION"
    BY <1>5 DEF JobsKept, Closed
  <2> QED BY <1>1, <1>3, <1>4, <1>5, <1>7, <1>8, <1>12, <1>13, <2>1 DEF IInv, RunsKnown, JobsKept
<1>16. RawsKnown' /\ CandidatesKnown' /\ ReplaysKnown'
  BY <1>4, <1>5, <1>13
     DEF IInv, RawsKnown, CandidatesKnown, ReplaysKnown, JobsKept, TypeOK, Row
<1>17. OneRun' /\ NothingYet'
  BY <1>1, <1>3, <1>4, <1>7, <1>8, <1>13 DEF IInv, OneRun, NothingYet
<1>18. RowsHeld'
  BY <1>3, <1>4, <1>6, <1>7, <1>13 DEF IInv, RowsHeld
<1>19. Exclusive'
  BY <1>5, <1>11 DEF IInv, Exclusive, JobsKept
<1>20. DroppedKnown'
  <2> SUFFICES ASSUME NEW q \in Requests, InRun(q) PROVE Dropped(q)'
    BY <1>8 DEF DroppedKnown, Dropped, InRun, RunSteps, Reading, Claiming
  <2>1. requests[q].job \in Jobs /\ jobs[requests[q].job] # NoJob
    BY <1>12 DEF IInv, RunsKnown
  <2>2. jobs'[requests[q].job].provider = jobs[requests[q].job].provider
    BY <1>5, <2>1 DEF JobsKept
  <2>3. /\ requests'[q].job = requests[q].job /\ requests'[q].objects = requests[q].objects
        /\ requests'[q].step \in Reading => requests[q].step \in Reading
        /\ requests'[q].step \in Claiming => requests[q].step \in Claiming
    BY <1>3, <1>7, <1>8
  <2> QED BY <1>4, <1>10, <1>13, <2>1, <2>2, <2>3 DEF IInv, DroppedKnown, Dropped
<1>21. FailedProposesNothing' /\ OnePendingUnlessOverlapped'
  BY <1>4, <1>5, <1>13
     DEF IInv, FailedProposesNothing, OnePendingUnlessOverlapped, JobsKept, TypeOK, Row, Closed
<1>22. ReadIsProposedUnlessOrphaned'
  <2>1. \A k \in Jobs : jobs'[k].status = "READY_FOR_VALIDATION"
           => jobs[k].status = "READY_FOR_VALIDATION" /\ jobs[k] # NoJob
    BY <1>5 DEF JobsKept, Closed, NoJob
  <2> QED BY <1>4, <1>5, <1>9, <1>13, <2>1 DEF IInv, ReadIsProposedUnlessOrphaned, JobsKept
<1> QED BY <1>14, <1>15, <1>16, <1>17, <1>18, <1>19, <1>20, <1>21, <1>22 DEF IInv

\* What a replay removes it proposes again, or has dropped, and then no other import of the
\* provider proposes it.
LEMMA CommitPersistKeeps == ASSUME IInv, NEW r \in Requests, CommitPersist(r) PROVE IInv'
<1> DEFINE j == requests[r].job
           kept == requests[r].objects
           gone == requests[r].rows
<1>1. InRun(r) /\ requests[r] \in Run /\ requests[r].step = "commit" /\ j \in Jobs
  BY RunTyped DEF InRun, IInv, CommitPersist, At, RunSteps
<1>2. /\ jobs[j] # NoJob /\ kept \subseteq raws[j] /\ requests[r].run \in Nat
      /\ kept \subseteq Objects
  BY <1>1 DEF IInv, RunsKnown, Claiming, Run
<1>3. /\ \A c \in gone : c.status = "PENDING" /\ c.job = j
      /\ j \notin overlapped =>
            \A c \in candidates : c.job = j /\ c.status = "PENDING" => c \in gone
  BY <1>1 DEF IInv, RowsHeld
<1>4. JobsKept({j}) /\ jobs'[j].status = "READY_FOR_VALIDATION"
  BY <1>1, EnterFacts DEF CommitPersist, Enter, Closed
<1>5. /\ requests' = [requests EXCEPT ![r] = Idle]
      /\ candidates' = (candidates \ gone) \cup NewRows(r)
      /\ UNCHANGED <<raws, organizers, overlapped, replayed, orphaned, stuck, served, faults>>
  BY DEF CommitPersist, Finish, history
<1>6. /\ NewRows(r) \subseteq Row
      /\ \A c \in NewRows(r) : c.job = j /\ c.object \in kept /\ c.status = "PENDING"
      /\ \A c, e \in NewRows(r) : c.object = e.object => c = e
      /\ \A o \in kept : \E c \in NewRows(r) : c.job = j /\ c.object = o
  <2> DEFINE row(o) == [job |-> j, object |-> o, run |-> requests[r].run, status |-> "PENDING"]
  <2>1. \A o \in kept : /\ row(o) \in Row /\ row(o).job = j /\ row(o).object = o
                       /\ row(o).status = "PENDING"
    BY <1>1, <1>2 DEF Row
  <2>2. NewRows(r) = {row(o) : o \in kept}
    BY DEF NewRows
  <2> HIDE DEF row
  <2> QED BY <2>1, <2>2
<1>7. \A o \in (raws[j] \ Invalid) \ kept :
         o \in Keyed /\ (<<jobs[j].provider, o>> \in orphaned \/ ProposedBySibling(j, o))
  BY <1>1 DEF IInv, DroppedKnown, Dropped, Claiming
<1>8. \A o \in kept : Claims(j, o)
  BY <1>1 DEF Claims, Claiming
<1>9. \A q \in Requests \ {r} : InRun(q) /\ requests[q].job = j =>
         j \in overlapped /\ requests[q].step \notin Early
  BY <1>1 DEF IInv, OneRun, RunsKnown, ReplaysKnown
<1> HIDE DEF j, kept, gone
<1>10. /\ requests' \in [Requests -> Run \cup Review \cup {Idle}]
       /\ requests'[r] = Idle
       /\ \A q \in Requests \ {r} : requests'[q] = requests[q]
  BY <1>5 DEF IInv, TypeOK
<1>11. /\ \A q \in Requests : InRun(q)' <=> InRun(q) /\ q # r
       /\ requests'[r].step \notin Reading \cup Claiming
       /\ requests'[r].step # "commit"
  BY <1>10 DEF InRun, RunSteps, Reading, Claiming, Idle
<1>12. /\ \A q \in Requests : InRun(q) => requests[q].job \in Jobs
       /\ \A c \in candidates : c.job \in Jobs
  BY RunTyped DEF InRun, IInv, TypeOK, Row
<1>13. \A k \in Jobs : Siblings(k)' = Siblings(k)
  BY <1>4 DEF JobsKept, Siblings
<1>14. \A k, o : Claims(k, o)' => Claims(k, o)
  BY <1>5, <1>6, <1>8, <1>10, <1>11 DEF Claims
\* What was proposed by another import still is, or was orphaned.
<1>15. ASSUME NEW k \in Jobs, jobs[k] # NoJob, NEW o, o \notin Invalid, ProposedBySibling(k, o)
       PROVE  ProposedBySibling(k, o)' \/ <<jobs[k].provider, o>> \in orphaned
  <2>1. PICK c \in candidates : c.job \in Siblings(k) /\ c.object = o
    BY <1>15 DEF ProposedBySibling
  <2>2. CASE c \notin gone
    BY <1>5, <1>13, <2>1, <2>2 DEF ProposedBySibling
  <2>3. CASE c \in gone /\ o \in kept
    BY <1>3, <1>5, <1>6, <1>13, <2>1, <2>3 DEF ProposedBySibling
  <2>4. CASE c \in gone /\ o \notin kept
    <3>1. c.job = j /\ o \in raws[j] /\ jobs[k].provider = jobs[j].provider /\ Claims(j, o)
      BY <1>3, <2>1, <2>4 DEF IInv, CandidatesKnown, Siblings, Claims
    <3>2. o \in Keyed /\ (<<jobs[j].provider, o>> \in orphaned \/ ProposedBySibling(j, o))
      BY <1>7, <1>15, <2>4, <3>1
    <3>3. ~ProposedBySibling(j, o)
      BY <1>1, <1>2, <3>1, <3>2
         DEF IInv, Exclusive, ProposedBySibling, Siblings, Claims, j
    <3> QED BY <3>1, <3>2, <3>3
  <2> QED BY <2>2, <2>3, <2>4
<1>16. TypeOK'
  BY <1>4, <1>5, <1>6, <1>10 DEF IInv, TypeOK, JobsKept
<1>17. RunsKnown'
  <2>1. \A k \in Jobs \ {j} : jobs[k].status # "READY_FOR_VALIDATION"
                           => jobs'[k].status # "READY_FOR_VALIDATION"
    BY <1>4 DEF JobsKept, Closed
  <2> QED BY <1>4, <1>5, <1>9, <1>10, <1>11, <1>12, <2>1 DEF IInv, RunsKnown, JobsKept
<1>18. RawsKnown' /\ CandidatesKnown' /\ ReplaysKnown'
  <2>1. \A c \in candidates' : c.job \in Jobs /\ jobs[c.job] # NoJob /\ c.object \in raws[c.job]
    BY <1>1, <1>2, <1>5, <1>6, <1>12 DEF IInv, CandidatesKnown, j
  <2>2. CandidatesKnown'
    BY <1>4, <1>5, <2>1 DEF CandidatesKnown, JobsKept
  <2> QED BY <1>4, <1>5, <2>2 DEF IInv, RawsKnown, ReplaysKnown, JobsKept, TypeOK
<1>19. OneRun' /\ NothingYet'
  BY <1>5, <1>6, <1>9, <1>10, <1>11 DEF IInv, OneRun, NothingYet
<1>20. RowsHeld'
  <2>1. \A q \in Requests : requests[q].step = "commit" => InRun(q)
    BY DEF InRun, RunSteps
  <2> QED BY <1>5, <1>6, <1>9, <1>10, <1>11, <2>1 DEF IInv, RowsHeld
<1>21. Exclusive'
  BY <1>4, <1>14 DEF IInv, Exclusive, JobsKept
<1>22. DroppedKnown'
  <2> SUFFICES ASSUME NEW q \in Requests \ {r}, InRun(q) PROVE Dropped(q)'
    BY <1>11 DEF DroppedKnown, Dropped, InRun, RunSteps, Reading, Claiming
  <2>1. requests[q].job \in Jobs /\ jobs[requests[q].job] # NoJob
    BY <1>12 DEF IInv, RunsKnown
  <2>2. jobs'[requests[q].job].provider = jobs[requests[q].job].provider
    BY <1>4, <2>1 DEF JobsKept
  <2> QED BY <1>5, <1>10, <1>15, <2>1, <2>2 DEF IInv, DroppedKnown, Dropped
<1>23. FailedProposesNothing'
  <2>1. \A c \in candidates : c.job # j /\ jobs'[c.job].status = "FAILED"
                                => jobs[c.job].status = "FAILED"
    BY <1>4, <1>12 DEF JobsKept, Closed
  <2> QED BY <1>4, <1>5, <1>6, <2>1 DEF IInv, FailedProposesNothing
<1>24. OnePendingUnlessOverlapped'
  BY <1>3, <1>5, <1>6 DEF IInv, OnePendingUnlessOverlapped
<1>25. ReadIsProposedUnlessOrphaned'
  <2> SUFFICES ASSUME NEW k \in Jobs, jobs'[k].status = "READY_FOR_VALIDATION",
                      NEW o \in raws[k] \ Invalid, <<jobs'[k].provider, o>> \notin orphaned
               PROVE  \E c \in candidates' : c.object = o /\ c.job \in {k} \cup Siblings(k)
    BY <1>5, <1>13 DEF ReadIsProposedUnlessOrphaned
  <2>1. jobs[k] # NoJob
    BY <1>4 DEF JobsKept, NoJob
  <2>2. jobs'[k].provider = jobs[k].provider
    BY <1>4, <2>1 DEF JobsKept
  <2>3. ProposedBySibling(k, o) =>
           \E c \in candidates' : c.object = o /\ c.job \in {k} \cup Siblings(k)
    BY <1>13, <1>15, <2>1, <2>2 DEF ProposedBySibling
  <2>4. CASE k = j
    <3>1. o \in kept \/ ProposedBySibling(k, o)
      BY <1>7, <2>2, <2>4
    <3>2. o \in kept => \E c \in candidates' : c.object = o /\ c.job \in {k} \cup Siblings(k)
      BY <1>5, <1>6, <2>4
    <3> QED BY <2>3, <3>1, <3>2
  <2>5. CASE k # j
    <3>1. jobs[k].status = "READY_FOR_VALIDATION"
      BY <1>4, <2>5 DEF JobsKept, Closed
    <3>2. PICK c \in candidates : c.object = o /\ c.job \in {k} \cup Siblings(k)
      BY <2>2, <3>1 DEF IInv, ReadIsProposedUnlessOrphaned
    <3>3. c.job = k => c \in candidates'
      BY <1>3, <1>5, <2>5
    <3>4. c.job \in Siblings(k) => ProposedBySibling(k, o)
      BY <3>2 DEF ProposedBySibling
    <3> QED BY <2>3, <3>2, <3>3, <3>4
  <2> QED BY <2>4, <2>5
<1> QED BY <1>16, <1>17, <1>18, <1>19, <1>20, <1>21, <1>22, <1>23, <1>24, <1>25 DEF IInv

\* A decision changes the status of a candidate, never to PENDING.
LEMMA WriteDecisionKeeps == ASSUME IInv, NEW r \in Requests, WriteDecision(r) PROVE IInv'
<1> DEFINE target == {c \in candidates : SameRow(c, requests[r].row)}
           decided(c) == [c EXCEPT !.status = requests[r].decision]
<1>1. requests[r].step = "review" /\ requests[r].decision \in Decisions
  <2>1. requests[r].step = "review" /\ requests[r] \in Run \cup Review \cup {Idle}
    BY DEF WriteDecision, At, IInv, TypeOK
  <2> QED BY <2>1 DEF Run, RunSteps, Review, Idle
<1>2. /\ candidates' = (candidates \ target) \cup {decided(c) : c \in target}
      /\ requests' = [requests EXCEPT ![r] = Idle]
      /\ UNCHANGED <<jobs, raws, organizers, history, served, faults>>
  BY DEF WriteDecision, Finish
<1>3. \A c \in Row : /\ decided(c) \in Row /\ decided(c).job = c.job
                     /\ decided(c).object = c.object /\ decided(c).run = c.run
                     /\ decided(c).status # "PENDING"
  BY <1>1 DEF Row, Decisions
<1>4. target \subseteq candidates /\ candidates \subseteq Row
  BY DEF IInv, TypeOK
<1> HIDE DEF target, decided
<1>5. /\ candidates' \subseteq Row
      /\ \A e \in candidates' : \E c \in candidates : c.job = e.job /\ c.object = e.object
      /\ \A e \in candidates' : e.status = "PENDING" => e \in candidates
      /\ \A c \in candidates : \E e \in candidates' : c.job = e.job /\ c.object = e.object
  BY <1>2, <1>3, <1>4
<1>6. /\ requests' \in [Requests -> Run \cup Review \cup {Idle}]
      /\ requests'[r] = Idle
      /\ \A q \in Requests \ {r} : requests'[q] = requests[q]
  BY <1>2 DEF IInv, TypeOK
<1>7. /\ \A q \in Requests : InRun(q)' => InRun(q) /\ q # r
      /\ requests'[r].step \notin Reading \cup Claiming
      /\ requests'[r].step # "commit"
  BY <1>6 DEF InRun, RunSteps, Reading, Claiming, Idle
<1>8. UNCHANGED <<overlapped, replayed, orphaned, stuck>>
  BY <1>2 DEF history
<1>9. \A k \in Jobs : \A o : /\ Siblings(k)' = Siblings(k)
                             /\ ProposedBySibling(k, o) => ProposedBySibling(k, o)'
  BY <1>2, <1>5 DEF Siblings, ProposedBySibling
<1>10. \A k, o : Claims(k, o)' => Claims(k, o)
  BY <1>5, <1>6, <1>7 DEF Claims
<1>11. TypeOK'
  BY <1>2, <1>5, <1>6, <1>8 DEF IInv, TypeOK
<1>12. RunsKnown'
  BY <1>2, <1>6, <1>7, <1>8 DEF IInv, RunsKnown
<1>13. RawsKnown' /\ CandidatesKnown' /\ ReplaysKnown'
  BY <1>2, <1>5, <1>8 DEF IInv, RawsKnown, CandidatesKnown, ReplaysKnown
<1>14. OneRun' /\ NothingYet'
  BY <1>5, <1>6, <1>7, <1>8 DEF IInv, OneRun, NothingYet
<1>15. RowsHeld'
  BY <1>5, <1>6, <1>7, <1>8 DEF IInv, RowsHeld
<1>16. Exclusive'
  BY <1>2, <1>10 DEF IInv, Exclusive
<1>17. DroppedKnown'
  <2> SUFFICES ASSUME NEW q \in Requests \ {r}, InRun(q) PROVE Dropped(q)'
    BY <1>7 DEF DroppedKnown, Dropped, InRun, RunSteps, Reading, Claiming
  <2>1. requests[q].job \in Jobs
    BY RunTyped DEF IInv, InRun
  <2> QED BY <1>2, <1>6, <1>8, <1>9, <2>1 DEF IInv, DroppedKnown, Dropped
<1>18. FailedProposesNothing' /\ OnePendingUnlessOverlapped'
  BY <1>2, <1>5, <1>8 DEF IInv, FailedProposesNothing, OnePendingUnlessOverlapped
<1>19. ReadIsProposedUnlessOrphaned'
  <2> SUFFICES ASSUME NEW k \in Jobs, jobs[k].status = "READY_FOR_VALIDATION",
                      NEW o \in raws[k] \ Invalid, <<jobs[k].provider, o>> \notin orphaned
               PROVE  \E c \in candidates' : c.object = o /\ c.job \in {k} \cup Siblings(k)
    BY <1>2, <1>8, <1>9 DEF ReadIsProposedUnlessOrphaned
  <2>1. PICK c \in candidates : c.object = o /\ c.job \in {k} \cup Siblings(k)
    BY DEF IInv, ReadIsProposedUnlessOrphaned
  <2> QED BY <1>5, <2>1
<1> QED BY <1>11, <1>12, <1>13, <1>14, <1>15, <1>16, <1>17, <1>18, <1>19 DEF IInv

-----------------------------------------------------------------------------
(* The theorems.                                                           *)

LEMMA InitIInv == Init => IInv
<1> SUFFICES ASSUME Init PROVE IInv
  OBVIOUS
<1>1. \A r \in Requests : requests[r] = Idle /\ ~InRun(r)
  BY DEF Init, InRun, Idle, RunSteps
<1>2. TypeOK
  BY DEF Init, TypeOK
<1>3. RunsKnown /\ OneRun /\ NothingYet
  BY <1>1 DEF RunsKnown, OneRun, NothingYet
<1>4. RawsKnown /\ CandidatesKnown /\ ReplaysKnown
  BY DEF Init, RawsKnown, CandidatesKnown, ReplaysKnown
<1>5. RowsHeld /\ DroppedKnown
  BY <1>1 DEF RowsHeld, DroppedKnown, Dropped, Idle, Reading, Claiming
<1>6. Exclusive
  BY DEF Init, Exclusive
<1>7. FailedProposesNothing /\ OnePendingUnlessOverlapped
  BY DEF Init, FailedProposesNothing, OnePendingUnlessOverlapped
<1>8. ReadIsProposedUnlessOrphaned
  BY DEF Init, ReadIsProposedUnlessOrphaned, NoJob
<1> QED BY <1>2, <1>3, <1>4, <1>5, <1>6, <1>7, <1>8 DEF IInv

LEMMA StutterKeeps == ASSUME IInv, UNCHANGED vars PROVE IInv'
<1>1. /\ UNCHANGED <<jobs, raws, candidates, organizers, requests, overlapped>>
      /\ UNCHANGED <<replayed, orphaned, stuck, served, faults>>
  BY DEF vars, history
<1>2. \A k \in Jobs : \A o : ProposedBySibling(k, o) => ProposedBySibling(k, o)'
  BY <1>1 DEF ProposedBySibling, Siblings
<1>3. TypeOK' /\ RunsKnown' /\ RawsKnown' /\ CandidatesKnown' /\ ReplaysKnown' /\ OneRun'
  BY <1>1 DEF IInv, TypeOK, RunsKnown, RawsKnown, CandidatesKnown, ReplaysKnown, OneRun, InRun
<1>4. NothingYet' /\ RowsHeld' /\ FailedProposesNothing' /\ OnePendingUnlessOverlapped'
  BY <1>1 DEF IInv, NothingYet, RowsHeld, FailedProposesNothing, OnePendingUnlessOverlapped, InRun
<1>5. Exclusive' /\ DroppedKnown' /\ ReadIsProposedUnlessOrphaned'
  BY <1>1 DEF IInv, Exclusive, Claims, DroppedKnown, Dropped, ReadIsProposedUnlessOrphaned,
              ProposedBySibling, Siblings
<1> QED BY <1>3, <1>4, <1>5 DEF IInv

LEMMA NextIInv == IInv /\ [Next]_vars => IInv'
<1> SUFFICES ASSUME IInv, [Next]_vars PROVE IInv'
  OBVIOUS
<1>1. CASE UNCHANGED vars
  BY <1>1, StutterKeeps
<1>2. ASSUME NEW r \in Requests, Begin(r) PROVE IInv'
  <2>1. ASSUME NEW j \in Jobs, NEW b \in Batches, ImportStructured(r, j, b) PROVE IInv'
    BY <2>1, CreateJobKeeps DEF ImportStructured, Providers
  <2>2. ASSUME NEW j \in Jobs, NEW b \in Batches, ImportUrl(r, j, b) PROVE IInv'
    BY <2>2, CreateJobKeeps DEF ImportUrl, Providers
  <2>3. ASSUME NEW j \in Jobs, NEW b \in Batches, ImportAi(r, j, b) PROVE IInv'
    BY <2>3, CreateJobKeeps DEF ImportAi, Providers
  <2> QED BY <1>2, <2>1, <2>2, <2>3, ReplayKeeps, ReadCandidateKeeps DEF Begin
<1>3. ASSUME NEW r \in Requests, Continue(r) PROVE IInv'
  BY <1>3, ExtractKeeps, CreateRawEventsKeeps, ValidateKeeps, NormalizeKeeps, DeduplicateKeeps,
     ResolveKeeps, CreateOrganizerKeeps, OpenPersistKeeps, CommitPersistKeeps, MarkFailedKeeps,
     WriteDecisionKeeps
     DEF Continue
<1> QED BY <1>1, <1>2, <1>3, ThrowKeeps, LoseRunKeeps DEF Next

\* Whatever imports, replays and reviews run in parallel, fail or are lost: the state is typed.
THEOREM TypeCorrect == Spec => []TypeOK
<1>1. IInv => TypeOK
  BY DEF IInv
<1> QED BY <1>1, InitIInv, NextIInv, PTL DEF Spec

\* Of the imports of a provider, one at most ever proposes an object with a key, however they
\* interleave, fail and are replayed.
THEOREM ProposedOnce == Spec => []OneProposer
<1>1. IInv => OneProposer
  <2> SUFFICES ASSUME IInv, NEW c \in candidates, NEW e \in candidates, c.object = e.object,
                      c.object \in Keyed, jobs[c.job].provider = jobs[e.job].provider
               PROVE  c.job = e.job
    BY DEF OneProposer
  <2>1. c.job \in Jobs /\ e.job \in Jobs /\ jobs[c.job] # NoJob /\ jobs[e.job] # NoJob
    BY DEF IInv, TypeOK, Row, CandidatesKnown
  <2>2. Claims(c.job, c.object) /\ Claims(e.job, c.object)
    BY DEF Claims
  <2> QED BY <2>1, <2>2 DEF IInv, Exclusive
<1> QED BY <1>1, InitIInv, NextIInv, PTL DEF Spec

\* What an import has read with success is proposed by it or by another one, unless a run dropped
\* it as known from an import that was not proposing it.
THEOREM ReadIsProposed == Spec => []ReadIsProposedUnlessOrphaned
<1>1. IInv => ReadIsProposedUnlessOrphaned
  BY DEF IInv
<1> QED BY <1>1, InitIInv, NextIInv, PTL DEF Spec

\* Replays never double a pending candidate, unless two runs were in flight on its import.
THEOREM ReplayReplaces == Spec => []OnePendingUnlessOverlapped
<1>1. IInv => OnePendingUnlessOverlapped
  BY DEF IInv
<1> QED BY <1>1, InitIInv, NextIInv, PTL DEF Spec

\* An import that failed has proposed nothing, unless a replay has come to its help.
THEOREM FailedIsEmpty == Spec => []FailedProposesNothing
<1>1. IInv => FailedProposesNothing
  BY DEF IInv
<1> QED BY <1>1, InitIInv, NextIInv, PTL DEF Spec

\* No step removes a candidate a reviewer has decided on: what a replay deletes was pending when
\* it looked, and is held until it ends.
THEOREM ReplayKeepsDecisions == Spec => DecisionsKept
<1>1. IInv /\ [Next]_vars =>
         [\A c \in candidates : c.status # "PENDING" => \E e \in candidates' : SameRow(c, e)]_vars
  <2> SUFFICES ASSUME IInv, Next, NEW c \in candidates, c.status # "PENDING"
               PROVE  \E e \in candidates' : SameRow(c, e)
    OBVIOUS
  <2>0. SameRow(c, c)
    BY DEF SameRow
  <2>1. PICK r \in Requests : Begin(r) \/ Continue(r) \/ Throw(r) \/ LoseRun(r)
    BY DEF Next
  <2>2. CASE UNCHANGED candidates
    BY <2>0, <2>2
  <2>3. CASE CommitPersist(r)
    <3>1. c \notin requests[r].rows
      BY <2>3 DEF CommitPersist, At, IInv, RowsHeld
    <3> QED BY <2>0, <2>3, <3>1 DEF CommitPersist
  <2>4. CASE WriteDecision(r)
    <3> DEFINE target == {e \in candidates : SameRow(e, requests[r].row)}
               d == [c EXCEPT !.status = requests[r].decision]
    <3>1. candidates' = (candidates \ target)
                           \cup {[e EXCEPT !.status = requests[r].decision] : e \in target}
      BY <2>4 DEF WriteDecision
    <3>2. SameRow(c, d)
      BY DEF SameRow, IInv, TypeOK, Row
    <3>3. c \in target => d \in candidates'
      BY <3>1
    <3>4. c \notin target => c \in candidates'
      BY <3>1
    <3> QED BY <2>0, <3>2, <3>3, <3>4
  <2> QED BY <2>1, <2>2, <2>3, <2>4
          DEF Begin, Continue, ImportStructured, ImportUrl, ImportAi, CreateJob, Replay,
              ReadCandidate, Extract, CreateRawEvents, Validate, Normalize, Deduplicate, Resolve,
              CreateOrganizer, OpenPersist, MarkFailed, Throw, LoseRun
<1> QED BY <1>1, InitIInv, NextIInv, PTL DEF Spec, DecisionsKept

-----------------------------------------------------------------------------
(* Rows of one name.                                                       *)

Creating == {r \in Requests : At(r, "create")}

CreatingInv ==
    organizers # 0 => organizers + Cardinality(Creating) <= Cardinality(Requests)

LEMMA CreatingFinite ==
    /\ IsFiniteSet(Creating) /\ Cardinality(Creating) \in Nat
    /\ Cardinality(Requests) \in Nat /\ Cardinality(Creating) <= Cardinality(Requests)
<1>1. Creating \subseteq Requests
  BY DEF Creating
<1> QED BY <1>1, RequestsFinite, FS_Subset, FS_CardinalityType

\* A request comes to create an entry only by having found none.
LEMMA CreatingStep ==
    ASSUME IInv, Next
    PROVE  \/ organizers' = organizers /\ Creating' \subseteq Creating
           \/ organizers' = 0
           \/ \E r \in Creating : organizers' = organizers + 1 /\ Creating' = Creating \ {r}
<1>1. PICK r \in Requests : Begin(r) \/ Continue(r) \/ Throw(r) \/ LoseRun(r)
  BY DEF Next
<1>2. requests \in [Requests -> Run \cup Review \cup {Idle}]
      /\ (requests[r].step \in RunSteps => requests[r] \in Run)
  BY RunTyped DEF IInv, TypeOK
<1>3. ASSUME NEW x, x.step # "create", requests' = [requests EXCEPT ![r] = x],
             organizers' = organizers
      PROVE  organizers' = organizers /\ Creating' \subseteq Creating
  BY <1>2, <1>3 DEF Creating, At
<1>4. Idle.step # "create"
  BY DEF Idle
<1>5. \A s : requests[r] \in Run => [requests[r] EXCEPT !.step = s].step = s
  BY DEF Run
<1>6. CASE Begin(r)
  <2>1. CASE \E j \in Jobs : \E p, b : CreateJob(r, j, p, b)
    <3>1. PICK j, p, b : CreateJob(r, j, p, b)
      BY <2>1
    <3>2. NewRun(j, "extract", FALSE, b).step # "create"
      BY DEF NewRun
    <3> QED BY <1>3, <3>1, <3>2 DEF CreateJob
  <2>2. CASE \E j \in Jobs : Replay(r, j)
    <3>1. PICK j \in Jobs : Replay(r, j)
      BY <2>2
    <3>2. NewRun(j, "validate", TRUE, raws[j]).step # "create"
      BY DEF NewRun
    <3> QED BY <1>3, <3>1, <3>2 DEF Replay
  <2>3. CASE \E c \in candidates, d \in Decisions : ReadCandidate(r, c, d)
    BY <1>3, <2>3 DEF ReadCandidate
  <2> QED BY <1>6, <2>1, <2>2, <2>3 DEF Begin, ImportStructured, ImportUrl, ImportAi
<1>7. CASE Extract(r) \/ CreateRawEvents(r) \/ Normalize(r)
  <2>1. PICK s : s # "create" /\ Goto(r, s)
    BY <1>7 DEF Extract, CreateRawEvents, Normalize
  <2>2. requests[r] \in Run /\ organizers' = organizers
    BY <1>2, <1>7 DEF Extract, CreateRawEvents, Normalize, At, RunSteps
  <2> QED BY <1>3, <1>5, <2>1, <2>2 DEF Goto
<1>8. CASE Validate(r) \/ Deduplicate(r) \/ OpenPersist(r)
  <2>1. requests[r] \in Run /\ organizers' = organizers
    BY <1>2, <1>8 DEF Validate, Deduplicate, OpenPersist, At, RunSteps
  <2>2. CASE Validate(r)
    <3> DEFINE x == [requests[r] EXCEPT !.step = "normalize", !.objects = @ \ Invalid]
    <3>1. x.step # "create"
      BY <2>1 DEF Run
    <3>2. requests' = [requests EXCEPT ![r] = x]
      BY <2>2 DEF Validate
    <3> HIDE DEF x
    <3> QED BY <1>3, <2>1, <3>1, <3>2
  <2>3. CASE Deduplicate(r)
    <3> DEFINE known == requests[r].objects \cap KnownKeys(requests[r].job)
    <3>1. PICK next \in {"resolve", "open"} :
             requests' = [requests EXCEPT ![r].objects = @ \ known, ![r].step = next]
      BY <2>3 DEF Deduplicate
    <3> DEFINE x == [requests[r] EXCEPT !.objects = @ \ known, !.step = next]
    <3>2. x.step # "create"
      BY <2>1 DEF Run
    <3>3. requests' = [requests EXCEPT ![r] = x]
      BY <3>1
    <3> HIDE DEF known, x
    <3> QED BY <1>3, <2>1, <3>2, <3>3
  <2>4. CASE OpenPersist(r)
    <3> DEFINE x == [requests[r] EXCEPT !.step = "commit", !.rows = Replaced(r)]
    <3>1. x.step # "create"
      BY <2>1 DEF Run
    <3>2. requests' = [requests EXCEPT ![r] = x]
      BY <2>4 DEF OpenPersist
    <3> HIDE DEF x
    <3> QED BY <1>3, <2>1, <3>1, <3>2
  <2> QED BY <1>8, <2>2, <2>3, <2>4
<1>9. CASE Resolve(r)
  <2>1. requests[r] \in Run /\ organizers' = organizers
    BY <1>2, <1>9 DEF Resolve, At, RunSteps
  <2>2. CASE organizers = 0
    BY <2>1, <2>2
  <2>3. CASE organizers # 0
    <3>1. Goto(r, "open")
      BY <1>9, <2>3 DEF Resolve
    <3> QED BY <1>3, <1>5, <2>1, <3>1 DEF Goto
  <2> QED BY <2>2, <2>3
<1>10. CASE CreateOrganizer(r)
  <2>1. requests[r] \in Run /\ r \in Creating /\ organizers' = organizers + 1
    BY <1>2, <1>10 DEF CreateOrganizer, At, RunSteps, Creating
  <2>2. requests'[r].step = "open" /\ \A q \in Requests \ {r} : requests'[q] = requests[q]
    BY <1>2, <1>5, <1>10, <2>1 DEF CreateOrganizer, Goto
  <2>3. Creating' = Creating \ {r}
    BY <2>2 DEF Creating, At
  <2> QED BY <2>1, <2>3
<1>11. CASE CommitPersist(r) \/ MarkFailed(r) \/ WriteDecision(r) \/ LoseRun(r)
  BY <1>3, <1>4, <1>11 DEF CommitPersist, MarkFailed, WriteDecision, LoseRun, Finish
<1>12. CASE Throw(r)
  <2>1. requests[r] \in Run /\ organizers' = organizers
    BY <1>2, <1>12 DEF Throw
  <2> QED BY <1>3, <1>4, <1>5, <1>12, <2>1 DEF Throw, Finish, Goto
<1> QED BY <1>1, <1>6, <1>7, <1>8, <1>9, <1>10, <1>11, <1>12 DEF Continue

\* The rows of one name are at most as many as the requests that can be between the query of the
\* name and its creation.
THEOREM NamesBounded == Spec => []OrganizersBounded
<1>1. Init => CreatingInv
  BY DEF Init, CreatingInv
<1>2. IInv /\ CreatingInv /\ [Next]_vars => CreatingInv'
  <2> SUFFICES ASSUME IInv, CreatingInv, [Next]_vars PROVE CreatingInv'
    OBVIOUS
  <2>1. organizers \in Nat
    BY DEF IInv, TypeOK
  <2>2. CASE UNCHANGED vars
    <3>1. organizers' = organizers /\ Creating' = Creating
      BY <2>2 DEF vars, Creating, At
    <3> QED BY <3>1 DEF CreatingInv
  <2>3. CASE organizers' = organizers /\ Creating' \subseteq Creating
    <3>1. Cardinality(Creating') <= Cardinality(Creating) /\ Cardinality(Creating') \in Nat
      BY <2>3, CreatingFinite, FS_Subset, FS_CardinalityType
    <3> QED BY <2>1, <2>3, <3>1, CreatingFinite DEF CreatingInv
  <2>4. CASE organizers' = 0
    BY <2>4 DEF CreatingInv
  <2>5. CASE \E r \in Creating : organizers' = organizers + 1 /\ Creating' = Creating \ {r}
    <3>1. PICK r \in Creating : organizers' = organizers + 1 /\ Creating' = Creating \ {r}
      BY <2>5
    <3>2. Cardinality(Creating') = Cardinality(Creating) - 1
      BY <3>1, CreatingFinite, FS_RemoveElement
    <3> QED BY <2>1, <3>1, <3>2, CreatingFinite DEF CreatingInv
  <2> QED BY <2>2, <2>3, <2>4, <2>5, CreatingStep
<1>3. IInv /\ CreatingInv => OrganizersBounded
  <2> SUFFICES ASSUME IInv, CreatingInv PROVE OrganizersBounded
    OBVIOUS
  <2>1. organizers \in Nat
    BY DEF IInv, TypeOK
  <2> QED BY <2>1, CreatingFinite DEF CreatingInv, OrganizersBounded
<1> QED BY <1>1, <1>2, <1>3, InitIInv, NextIInv, PTL DEF Spec

-----------------------------------------------------------------------------
(* Runs that do not meet.                                                  *)

\* The runs of job j follow each other: none begins while another is in flight.
RunInTurn(j) == \A r, q \in Runs(j) : r = q

\* What the exception of OnePendingUnlessOverlapped notes of job j.
Undisturbed(j) == j \notin overlapped

\* A replay that begins while job d has a run in flight makes two runs of d.
LEMMA ReplayMeets ==
    ASSUME IInv, NEW d \in Jobs, NEW r \in Requests, Replay(r, d), RunInTurn(d)'
    PROVE  Runs(d) = {}
<1> SUFFICES ASSUME NEW q \in Runs(d) PROVE FALSE
  OBVIOUS
<1>1. q \in Requests /\ requests[q].step \in RunSteps /\ requests[q].job = d
  BY DEF Runs
<1>2. q # r
  BY <1>1 DEF Replay, Serve, Idle, RunSteps
<1>3. requests'[q] = requests[q] /\ requests'[r] = NewRun(d, "validate", TRUE, raws[d])
  BY <1>1, <1>2 DEF Replay, IInv, TypeOK
<1>4. q \in Runs(d)' /\ r \in Runs(d)'
  BY <1>1, <1>3 DEF Runs, NewRun, RunSteps
<1> QED BY <1>2, <1>4 DEF RunInTurn

LEMMA UndisturbedKept ==
    ASSUME IInv, NEW d \in Jobs, RunInTurn(d)', Undisturbed(d), [Next]_vars
    PROVE  Undisturbed(d)'
<1> USE DEF history, Undisturbed
<1>1. ASSUME NEW r \in Requests, NEW j \in Jobs, Replay(r, j) PROVE Undisturbed(d)'
  <2>1. CASE j = d
    BY <1>1, <2>1, ReplayMeets DEF Replay
  <2>2. CASE j # d
    BY <1>1, <2>2 DEF Replay
  <2> QED BY <2>1, <2>2
<1>2. ASSUME NEW r \in Requests, Begin(r), \A j \in Jobs : ~Replay(r, j)
      PROVE  Undisturbed(d)'
  BY <1>2 DEF Begin, ImportStructured, ImportUrl, ImportAi, CreateJob, ReadCandidate
<1>3. ASSUME NEW r \in Requests, Continue(r) \/ Throw(r) \/ LoseRun(r)
      PROVE  Undisturbed(d)'
  BY <1>3 DEF Continue, Extract, CreateRawEvents, Validate, Normalize, Deduplicate, Resolve,
     CreateOrganizer, OpenPersist, CommitPersist, MarkFailed, WriteDecision, Throw, LoseRun
<1>4. CASE UNCHANGED vars
  BY <1>4 DEF vars
<1> QED BY <1>1, <1>2, <1>3, <1>4 DEF Next

\* OnePendingUnlessOverlapped without its exception, of job j.
Sound(j) ==
    \A c, e \in candidates :
       c.job = j /\ e.job = j /\ c.object = e.object
          /\ c.status = "PENDING" /\ e.status = "PENDING" => c = e

\* The exception of OnePendingUnlessOverlapped is an interleaving, nothing else: if no two
\* runs of an import are ever in flight together, a replay never leaves two pending
\* candidates of one of its objects, whatever the other imports, the reviews and the
\* failures do meanwhile.
THEOREM UncontendedIsSound ==
    ASSUME NEW d \in Jobs
    PROVE  Spec /\ []RunInTurn(d) => []Sound(d)
<1>1. Init => Undisturbed(d)
  BY DEF Init, Undisturbed
<1>2. IInv /\ RunInTurn(d)' /\ Undisturbed(d) /\ [Next]_vars => Undisturbed(d)'
  BY UndisturbedKept
<1>3. Undisturbed(d) /\ OnePendingUnlessOverlapped => Sound(d)
  BY DEF Undisturbed, OnePendingUnlessOverlapped, Sound
<1>4. Spec => []IInv
  BY InitIInv, NextIInv, PTL DEF Spec
<1>5. Spec /\ []RunInTurn(d) => []Undisturbed(d)
  BY <1>1, <1>2, <1>4, PTL DEF Spec
<1> QED BY <1>3, <1>5, ReplayReplaces, PTL

-----------------------------------------------------------------------------
(* No import stays in a stage unattended.                                  *)

\* The safety part of StageEnds: an import that is in a stage has a run under way, or its run
\* ended without a status.
StageAttended ==
    \A j \in Jobs : jobs[j].status \in Stages => Runs(j) # {} \/ j \in stuck

\* A run that goes on keeps attending its import, and touches the status of no other.
LEMMA RunGoesOn ==
    ASSUME TypeOK, StageAttended, NEW r \in Requests, InRun(r),
           NEW q, requests' = [requests EXCEPT ![r] = q],
           q.step \in RunSteps, q.job = requests[r].job,
           \A j \in Jobs : j # requests[r].job => jobs'[j] = jobs[j],
           stuck \subseteq stuck'
    PROVE  StageAttended'
<1> SUFFICES ASSUME NEW j \in Jobs, jobs'[j].status \in Stages, j \notin stuck'
             PROVE  Runs(j)' # {}
  BY DEF StageAttended
<1>1. requests'[r] = q /\ \A s \in Requests : s # r => requests'[s] = requests[s]
  BY DEF TypeOK
<1>2. CASE j = requests[r].job
  BY <1>1, <1>2 DEF Runs
<1>3. CASE j # requests[r].job
  <2>1. PICK s \in Requests : requests[s].step \in RunSteps /\ requests[s].job = j
    BY <1>3 DEF StageAttended, Runs
  <2>2. s # r
    BY <1>3, <2>1
  <2> QED BY <1>1, <2>1, <2>2 DEF Runs
<1> QED BY <1>2, <1>3

\* A run ends with a status that closes its import, or is noted.
LEMMA RunEnds ==
    ASSUME TypeOK, StageAttended, NEW r \in Requests, InRun(r), Finish(r),
           jobs'[requests[r].job].status \notin Stages \/ requests[r].job \in stuck',
           \A j \in Jobs : j # requests[r].job => jobs'[j] = jobs[j],
           stuck \subseteq stuck'
    PROVE  StageAttended'
<1> SUFFICES ASSUME NEW j \in Jobs, jobs'[j].status \in Stages, j \notin stuck'
             PROVE  Runs(j)' # {}
  BY DEF StageAttended
<1>1. \A s \in Requests : s # r => requests'[s] = requests[s]
  BY DEF TypeOK, Finish
<1>2. j # requests[r].job
  OBVIOUS
<1>3. PICK s \in Requests : requests[s].step \in RunSteps /\ requests[s].job = j
  BY <1>2 DEF StageAttended, Runs
<1>4. s # r
  BY <1>2, <1>3
<1> QED BY <1>1, <1>3, <1>4 DEF Runs

\* A request that is no run leaves every run and every status alone.
LEMMA RunsElsewhere ==
    ASSUME StageAttended, NEW r \in Requests, ~InRun(r),
           \A s \in Requests : s # r => requests'[s] = requests[s],
           UNCHANGED <<jobs, stuck>>
    PROVE  StageAttended'
  BY DEF StageAttended, Runs, InRun

LEMMA StageStep ==
    ASSUME IInv, StageAttended, [Next]_vars
    PROVE  StageAttended'
<1> USE DEF history
<1>0. TypeOK /\ requests \in [Requests -> Run \cup Review \cup {Idle}]
  BY DEF IInv, TypeOK
<1>a. \A r \in Requests : InRun(r) => requests[r].job \in Jobs /\ jobs[requests[r].job] \in Job
  <2> SUFFICES ASSUME NEW r \in Requests, InRun(r)
               PROVE  requests[r].job \in Jobs /\ jobs[requests[r].job] \in Job
    OBVIOUS
  <2>1. requests[r].job \in Jobs
    BY <1>0, RunTyped DEF InRun
  <2>2. jobs[requests[r].job] # NoJob
    BY DEF IInv, RunsKnown, InRun
  <2> QED BY <1>0, <2>1, <2>2 DEF TypeOK
<1>b. ASSUME NEW r \in Requests, Begin(r) PROVE StageAttended'
  <2>1. requests[r] = Idle
    BY <1>b DEF Begin, ImportStructured, ImportUrl, ImportAi, CreateJob, Replay, ReadCandidate,
       Serve
  <2>a. ~InRun(r)
    BY <2>1 DEF InRun, Idle, RunSteps
  <2>2. CASE \E j \in Jobs, p \in Providers, b \in Batches : CreateJob(r, j, p, b)
    <3>1. PICK j \in Jobs, p \in Providers, b \in Batches : CreateJob(r, j, p, b)
      BY <2>2
    <3>2. /\ requests'[r] = NewRun(j, "extract", FALSE, b)
          /\ \A s \in Requests : s # r => requests'[s] = requests[s]
          /\ \A k \in Jobs : k # j => jobs'[k] = jobs[k]
          /\ stuck' = stuck
      BY <1>0, <3>1 DEF CreateJob, TypeOK
    <3> QED BY <2>a, <3>2 DEF StageAttended, Runs, NewRun, RunSteps, InRun
  <2>3. CASE \E j \in Jobs : Replay(r, j)
    <3>1. /\ \A s \in Requests : s # r => requests'[s] = requests[s]
          /\ UNCHANGED <<jobs, stuck>>
      BY <1>0, <2>3 DEF Replay
    <3> QED BY <2>a, <3>1, RunsElsewhere
  <2>4. CASE \E c \in candidates, d \in Decisions : ReadCandidate(r, c, d)
    <3>1. /\ \A s \in Requests : s # r => requests'[s] = requests[s]
          /\ UNCHANGED <<jobs, stuck>>
      BY <1>0, <2>4 DEF ReadCandidate
    <3> QED BY <2>a, <3>1, RunsElsewhere
  <2>5. ASSUME NEW j \in Jobs, NEW b \in Batches,
               ImportStructured(r, j, b) \/ ImportUrl(r, j, b) \/ ImportAi(r, j, b)
        PROVE  StageAttended'
    <3>1. \E p \in Providers : CreateJob(r, j, p, b)
      BY <2>5 DEF ImportStructured, ImportUrl, ImportAi, Providers
    <3> QED BY <2>2, <3>1
  <2> QED BY <1>b, <2>3, <2>4, <2>5 DEF Begin
<1>c. ASSUME NEW r \in Requests,
             \/ Extract(r) \/ CreateRawEvents(r) \/ Validate(r) \/ Normalize(r) \/ Deduplicate(r)
             \/ Resolve(r) \/ CreateOrganizer(r) \/ OpenPersist(r)
             \/ Throw(r) /\ ~requests[r].replay
      PROVE  StageAttended'
  <2>1. InRun(r)
    BY <1>c DEF Extract, CreateRawEvents, Validate, Normalize, Deduplicate, Resolve,
       CreateOrganizer, OpenPersist, Throw, At, InRun, RunSteps
  <2>2. \E q : requests' = [requests EXCEPT ![r] = q]
               /\ q.step \in RunSteps /\ q.job = requests[r].job
    <3>1. requests[r] \in Run
      BY <1>0, <2>1 DEF InRun, Review, Idle, RunSteps, Run
    <3> QED BY <1>0, <1>c, <3>1
        DEF Extract, CreateRawEvents, Validate, Normalize, Deduplicate, Resolve,
            CreateOrganizer, OpenPersist, Throw, Goto, RunSteps, Run
  <2>3. \A j \in Jobs : j # requests[r].job => jobs'[j] = jobs[j]
    BY <1>0, <1>c DEF Extract, CreateRawEvents, Validate, Normalize, Deduplicate, Resolve,
       CreateOrganizer, OpenPersist, Throw, Enter, TypeOK
  <2>4. stuck \subseteq stuck'
    BY <1>c DEF Extract, CreateRawEvents, Validate, Normalize, Deduplicate, Resolve,
       CreateOrganizer, OpenPersist, Throw
  <2> QED BY <1>0, <2>1, <2>2, <2>3, <2>4, RunGoesOn
<1>d. ASSUME NEW r \in Requests,
             CommitPersist(r) \/ MarkFailed(r) \/ LoseRun(r) \/ (Throw(r) /\ requests[r].replay)
      PROVE  StageAttended'
  <2>1. InRun(r) /\ Finish(r) /\ stuck \subseteq stuck'
    BY <1>d DEF CommitPersist, MarkFailed, LoseRun, Throw, At, InRun, RunSteps
  <2>2. jobs'[requests[r].job].status \notin Stages \/ requests[r].job \in stuck'
    BY <1>0, <1>a, <1>d, <2>1 DEF CommitPersist, MarkFailed, LoseRun, Throw, TypeOK, Job, Stages
  <2>3. \A j \in Jobs : j # requests[r].job => jobs'[j] = jobs[j]
    BY <1>0, <1>d DEF CommitPersist, MarkFailed, LoseRun, Throw, TypeOK
  <2> QED BY <1>0, <2>1, <2>2, <2>3, RunEnds
<1>e. ASSUME NEW r \in Requests, WriteDecision(r) PROVE StageAttended'
  <2>1. ~InRun(r) /\ UNCHANGED <<jobs, stuck>>
    BY <1>e DEF WriteDecision, At, InRun, RunSteps
  <2>2. \A s \in Requests : s # r => requests'[s] = requests[s]
    BY <1>0, <1>e DEF WriteDecision, Finish
  <2> QED BY <2>1, <2>2, RunsElsewhere
<1>f. CASE UNCHANGED vars
  BY <1>f DEF vars, StageAttended, Runs
<1> QED BY <1>b, <1>c, <1>d, <1>e, <1>f DEF Next, Continue

\* What StageEnds rests on: an import in a stage is never left to itself, unless a process
\* stopped, a replay failed or the transition to FAILED did.
THEOREM StagesAreAttended == Spec => []StageAttended
<1>1. Init => StageAttended
  BY DEF Init, StageAttended, NoJob, Stages
<1>2. IInv /\ StageAttended /\ [Next]_vars => StageAttended'
  BY StageStep
<1> QED BY <1>1, <1>2, InitIInv, NextIInv, PTL DEF Spec

=============================================================================
