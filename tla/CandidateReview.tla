--------------------------- MODULE CandidateReview ---------------------------
(***************************************************************************)
(* The review of EventCandidates (EventCandidatesService): correction,     *)
(* rejection, and validation, which runs the submission controls, opens a  *)
(* Case for what they hold back, or creates the Event and takes over the   *)
(* image the import came from.                                             *)
(*                                                                         *)
(* Every request first reads the candidate (assertMutable) and writes it   *)
(* some awaited calls later without looking again.  One action is what     *)
(* happens up to the end of one awaited call that matters.  Requests of    *)
(* users assertOwnership turns away change nothing and are left out.       *)
(***************************************************************************)
EXTENDS Naturals, Sequences, FiniteSets

CONSTANTS
    Candidates,   \* ids of candidates
    Posters,      \* the candidates whose import is an image
    Drafts,       \* titles and dates of the forms sent
    Incoherent,   \* the drafts whose end date precedes their start date
    Prohibited,   \* the drafts in which a moderation term is found
    Requests,     \* requests in flight at one time
    MaxRequests,  \* bound of the model: requests served
    MaxFaults     \* bound of the model: storage failures and lost processes

ASSUME PostersKnown == Posters \subseteq Candidates
ASSUME DraftsKnown  == Incoherent \subseteq Drafts /\ Prohibited \subseteq Drafts
ASSUME BoundsAreNat == MaxRequests \in Nat /\ MaxFaults \in Nat
ASSUME ManualIsNoId == "manual" \notin Candidates

VARIABLES
    candidates,  \* the EventCandidate row of an id
    catalog,     \* the Events, in the order they were created: an id is a position
    illustrated, \* the Events that hold a copy of their import's image
    cases,       \* the Cases the controls opened, oldest first
    requests,    \* the request that occupies a slot
    raced,       \* history: candidates written by a request that had read another row
    served,      \* requests so far
    faults       \* faults so far

vars == <<candidates, catalog, illustrated, cases, requests, raced, served, faults>>

CandidateStatus == {"PENDING", "CORRECTED", "VALIDATED", "REJECTED"}
CaseType == {"ABUSE_REPORT", "CONTENT_REPORT", "DATA_CORRECTION"}
NoCandidate == "manual"   \* the origin of an Event entered by hand

Row   == [status: CandidateStatus, event: Nat]   \* event 0: eventId is null
\* knew: history, the length of the catalog when the duplicate control read it
Event == [from: Candidates \cup {NoCandidate}, draft: Drafts, public: BOOLEAN, knew: Nat]

Idle   == [step |-> "idle"]
Steps  == {"correct", "reject", "control", "hold", "create", "attach"}
Flight == [step: Steps, candidate: Candidates, seen: Row, draft: Drafts, public: BOOLEAN,
           knew: Nat, event: Nat, case: CaseType]

TypeOK ==
    /\ candidates \in [Candidates -> Row]
    /\ catalog \in Seq(Event)
    /\ illustrated \subseteq DOMAIN catalog
    /\ cases \in Seq([candidate: Candidates, type: CaseType])
    /\ requests \in [Requests -> Flight \cup {Idle}]
    /\ raced \subseteq Candidates
    /\ served \in Nat /\ faults \in Nat

Init ==
    /\ candidates = [c \in Candidates |-> [status |-> "PENDING", event |-> 0]]
    /\ catalog = << >>
    /\ illustrated = {}
    /\ cases = << >>
    /\ requests = [r \in Requests |-> Idle]
    /\ raced = {}
    /\ served = 0 /\ faults = 0

-----------------------------------------------------------------------------
(* Requests.                                                               *)

AssertMutable(c) == candidates[c].status \notin {"VALIDATED", "REJECTED"}

At(r, step) == requests[r].step = step

Finish(r) == requests' = [requests EXCEPT ![r] = Idle]

\* Slot r starts a request on candidate c; the row read is remembered.
Start(r, c, at, d, p) ==
    /\ requests[r] = Idle /\ AssertMutable(c)
    /\ served < MaxRequests /\ served' = served + 1
    /\ requests' = [requests EXCEPT ![r] =
          [step |-> at, candidate |-> c, seen |-> candidates[c], draft |-> d, public |-> p,
           knew |-> 0, event |-> 0, case |-> "DATA_CORRECTION"]]
    /\ UNCHANGED <<candidates, catalog, illustrated, cases, raced, faults>>

\* History: the row request r is about to write is not the one it has read.
Race(r) ==
    LET c == requests[r].candidate
    IN  raced' = IF candidates[c] # requests[r].seen THEN raced \cup {c} ELSE raced

\* Write status s over the candidate of r, whatever it is by now.
Write(r, s) ==
    /\ candidates' = [candidates EXCEPT ![requests[r].candidate].status = s]
    /\ Race(r) /\ Finish(r)
    /\ UNCHANGED <<catalog, illustrated, cases, served, faults>>

Correct(r, c, d) == Start(r, c, "correct", d, FALSE)

CorrectWrite(r) == At(r, "correct") /\ Write(r, "CORRECTED")

\* The draft of a rejection plays no part.
Reject(r, c, d) == Start(r, c, "reject", d, FALSE)

RejectWrite(r) == At(r, "reject") /\ Write(r, "REJECTED")

\* p: the validator may publish.
Validate(r, c, d, p) == Start(r, c, "control", d, p)

-----------------------------------------------------------------------------
(* Validation.                                                             *)

HasPublicDuplicate(d) == \E i \in DOMAIN catalog : catalog[i].public /\ catalog[i].draft = d

\* Mutant of Anomalies: the duplicates of private events are looked for instead.
AnomaliesPrivate(d, p) ==
    {k \in {"DATE_COHERENCE", "DUPLICATE", "PROHIBITED_CONTENT"} :
        \/ k = "DATE_COHERENCE" /\ d \in Incoherent
        \/ k = "DUPLICATE" /\ ~p /\ HasPublicDuplicate(d)
        \/ k = "PROHIBITED_CONTENT" /\ d \in Prohibited}

\* detectSubmissionAnomalies over what the two queries of the controls return.
Anomalies(d, p) ==
    {k \in {"DATE_COHERENCE", "DUPLICATE", "PROHIBITED_CONTENT"} :
        \/ k = "DATE_COHERENCE" /\ d \in Incoherent
        \/ k = "DUPLICATE" /\ p /\ HasPublicDuplicate(d)
        \/ k = "PROHIBITED_CONTENT" /\ d \in Prohibited}

CaseTypeOf(anomalies) ==
    IF "PROHIBITED_CONTENT" \in anomalies THEN "ABUSE_REPORT"
    ELSE IF "DUPLICATE" \in anomalies THEN "CONTENT_REPORT" ELSE "DATA_CORRECTION"

RunSubmissionControls(r) ==
    LET found == Anomalies(requests[r].draft, requests[r].public)
    IN  /\ At(r, "control")
        /\ requests' = [requests EXCEPT
              ![r].step = IF found = {} THEN "create" ELSE "hold",
              ![r].knew = Len(catalog),
              ![r].case = CaseTypeOf(found)]
        /\ UNCHANGED <<candidates, catalog, illustrated, cases, raced, served, faults>>

\* The Case is opened and the validation ends with an exception.
OpenCase(r) ==
    /\ At(r, "hold")
    /\ cases' = Append(cases, [candidate |-> requests[r].candidate, type |-> requests[r].case])
    /\ Finish(r)
    /\ UNCHANGED <<candidates, catalog, illustrated, raced, served, faults>>

NewEvent(r) ==
    [from |-> requests[r].candidate, draft |-> requests[r].draft,
     public |-> requests[r].public, knew |-> requests[r].knew]

\* Mutants of CreateEventAndValidate: the candidate does not point to its Event; the
\* status is left for a later call.
CreateUnlinked(r) ==
    /\ At(r, "create")
    /\ catalog' = Append(catalog, NewEvent(r))
    /\ candidates' = [candidates EXCEPT ![requests[r].candidate].status = "VALIDATED"]
    /\ Race(r)
    /\ requests' = [requests EXCEPT ![r].step = "attach", ![r].event = Len(catalog) + 1]
    /\ UNCHANGED <<illustrated, cases, served, faults>>
CreateUnvalidated(r) ==
    /\ At(r, "create")
    /\ catalog' = Append(catalog, NewEvent(r))
    /\ candidates' = [candidates EXCEPT ![requests[r].candidate].event = Len(catalog) + 1]
    /\ Race(r)
    /\ requests' = [requests EXCEPT ![r].step = "attach", ![r].event = Len(catalog) + 1]
    /\ UNCHANGED <<illustrated, cases, served, faults>>

\* One transaction: the Event, the candidate's status and its eventId.
CreateEventAndValidate(r) ==
    /\ At(r, "create")
    /\ catalog' = Append(catalog, NewEvent(r))
    /\ candidates' = [candidates EXCEPT
          ![requests[r].candidate] = [status |-> "VALIDATED", event |-> Len(catalog) + 1]]
    /\ Race(r)
    /\ requests' = [requests EXCEPT ![r].step = "attach", ![r].event = Len(catalog) + 1]
    /\ UNCHANGED <<illustrated, cases, served, faults>>

\* Mutant of AttachImportSource: the image goes to the Event created last.
AttachToLast(r) ==
    /\ At(r, "attach")
    /\ illustrated' = IF requests[r].candidate \in Posters
                      THEN illustrated \cup {Len(catalog)} ELSE illustrated
    /\ Finish(r)
    /\ UNCHANGED <<candidates, catalog, cases, raced, served, faults>>

\* importSource, then a copy of the document if it is an image.
AttachImportSource(r) ==
    /\ At(r, "attach")
    /\ illustrated' = IF requests[r].candidate \in Posters
                      THEN illustrated \cup {requests[r].event} ELSE illustrated
    /\ Finish(r)
    /\ UNCHANGED <<candidates, catalog, cases, raced, served, faults>>

\* The process that serves r stops, or one of its calls throws.  A failed copy of the
\* image, which is only logged, is the case of a request at "attach".
LoseRequest(r) ==
    /\ requests[r] # Idle
    /\ Finish(r)
    /\ faults < MaxFaults /\ faults' = faults + 1
    /\ UNCHANGED <<candidates, catalog, illustrated, cases, raced, served>>

\* EventsService.createManual: another public Event the duplicate control will see.
CreateManual(d) ==
    /\ served < MaxRequests /\ served' = served + 1
    /\ catalog' = Append(catalog, [from |-> NoCandidate, draft |-> d, public |-> TRUE, knew |-> 0])
    /\ UNCHANGED <<candidates, illustrated, cases, requests, raced, faults>>

-----------------------------------------------------------------------------
Begin(r) ==
    \E c \in Candidates, d \in Drafts :
       Correct(r, c, d) \/ Reject(r, c, d) \/ \E p \in BOOLEAN : Validate(r, c, d, p)

Continue(r) ==
    \/ CorrectWrite(r) \/ RejectWrite(r) \/ RunSubmissionControls(r) \/ OpenCase(r)
    \/ CreateEventAndValidate(r) \/ AttachImportSource(r) \/ LoseRequest(r)

Next ==
    \/ \E r \in Requests : Begin(r) \/ Continue(r)
    \/ \E d \in Drafts : CreateManual(d)

Spec == Init /\ [][Next]_vars

-----------------------------------------------------------------------------
(* Safety.                                                                 *)

EventsOf(c) == {i \in DOMAIN catalog : catalog[i].from = c}

\* Event and candidate are one transaction: a candidate always points to the last Event
\* it gave, a validated one always has one, and an Event is never left without candidate.
EventLinked ==
    \A c \in Candidates :
       /\ candidates[c].status = "VALIDATED" => candidates[c].event # 0
       /\ IF EventsOf(c) = {} THEN candidates[c].event = 0
          ELSE /\ candidates[c].event \in EventsOf(c)
               /\ \A i \in EventsOf(c) : i <= candidates[c].event

\* No Event comes from a draft the controls hold back, and a public duplicate only from a
\* validation that had looked for duplicates before the other Event was there.
EventsCleared ==
    \A i \in DOMAIN catalog :
       catalog[i].from # NoCandidate =>
          /\ catalog[i].draft \notin Incoherent \cup Prohibited
          /\ catalog[i].public =>
                \A j \in 1..catalog[i].knew : catalog[j].public => catalog[j].draft # catalog[i].draft

\* Once nothing is in flight and nothing has failed, exactly the Events that come from an
\* image hold a copy of it.
ImagesTakenOver ==
    faults = 0 /\ (\A r \in Requests : requests[r] = Idle) =>
       illustrated = {i \in DOMAIN catalog : catalog[i].from \in Posters}

\* The review keeps the promise of FSPEC.02 on every candidate no request has written over
\* unread, whatever fails, and creates an Event exactly when it validates in any case.
Lifecycle == INSTANCE CandidateLifecycle WITH
    status    <- [c \in Candidates |-> candidates[c].status],
    produced  <- [c \in Candidates |-> Cardinality(EventsOf(c))],
    overtaken <- raced

ImplementsLifecycle == Lifecycle!Spec

=============================================================================
