---------------------------- MODULE CaseManagement ----------------------------
(***************************************************************************)
(* The Cases handed to the Operators (CasesService) and the decisions of   *)
(* moderation taken on them (ModerationService).                           *)
(*                                                                         *)
(* A request reads the Case, writes some of its columns without looking    *)
(* again, and then adds an entry to the journal by a call of its own.  One *)
(* action is what happens up to the end of one awaited call that matters.  *)
(* The routing rules may answer anything: a Case is opened with any        *)
(* domain, work queue, priority, initial status and assignee.              *)
(***************************************************************************)
EXTENDS Naturals, Sequences

CONSTANTS
    Cases,           \* ids of Cases
    Operators,       \* users who handle Cases
    Routes,          \* a domain with a work queue; a rule may name any
    CatalogueRoutes, \* a domain of CASE_DOMAINS with its own queue, workQueueFor
    InitialStatuses, \* the statuses routing rules open Cases with
    Objects,         \* what Cases are about: organizations that may be suspended
    Requests,        \* requests in flight at one time
    MaxRequests,     \* bound of the model: requests served
    MaxFaults        \* bound of the model: requests lost on the way

VARIABLES
    cases,     \* the Case row of an id
    journal,   \* the case_events of a Case, oldest first
    suspended, \* the organizations whose isActive is false
    log,       \* the moderation log, oldest first
    requests,  \* the request that occupies a slot
    opened,    \* history: the row of a Case as its opening leaves it
    raced,     \* history: Cases on which a request acted on a status that had changed
    blurred,   \* history: Cases written during another write, or by a request lost after it
    contested, \* history: organizations likewise
    served,    \* requests so far
    faults     \* faults so far

history == <<opened, raced, blurred, contested>>
vars == <<cases, journal, suspended, log, requests, history, served, faults>>

CaseStatus == {"NEW", "ASSIGNED", "IN_PROGRESS", "WAITING_FOR_USER", "WAITING_FOR_ORGANIZER",
               "RESOLVED", "CLOSED", "ARCHIVED"}
WAITING_STATES == {"WAITING_FOR_USER", "WAITING_FOR_ORGANIZER"}

ASSUME InitialStatusesAssumption == InitialStatuses \subseteq CaseStatus

ASSUME CatalogueRoutesAssumption == CatalogueRoutes \subseteq Routes

ALLOWED_TRANSITIONS ==
    [NEW |-> {"ASSIGNED", "IN_PROGRESS"}, ASSIGNED |-> {"IN_PROGRESS", "NEW"},
     IN_PROGRESS |-> WAITING_STATES \cup {"RESOLVED"},
     WAITING_FOR_USER |-> {"IN_PROGRESS"}, WAITING_FOR_ORGANIZER |-> {"IN_PROGRESS"},
     RESOLVED |-> {"CLOSED", "IN_PROGRESS"}, CLOSED |-> {"ARCHIVED"}, ARCHIVED |-> {}]

CanTransition(from, to) == to \in ALLOWED_TRANSITIONS[from]

None   == "none"
NoCase == [status |-> "NONE"]
\* critical: the priority is CRITICAL; closed: closedAt and closeReason are set
Case == [status: CaseStatus, assignee: Operators \cup {None}, route: Routes,
         critical: BOOLEAN, closed: BOOLEAN, object: Objects]

MODERATION_DECISIONS == {"NO_ACTION", "SUSPEND", "RESTORE"}

Idle == [step |-> "idle"]
Steps == {"initial", "comment", "write", "effect", "log", "record"}

\* A row whose columns are overwritten by those of a change.
Changed(row, change) == [f \in DOMAIN row |-> IF f \in DOMAIN change THEN change[f] ELSE row[f]]

IsChange(change) == \A row \in Case : Changed(row, change) \in Case

\* A request under way: the Case it has read, the columns it writes, the entry it adds.
InFlightTyped(q) ==
    /\ q.step \in Steps /\ q.case \in Cases /\ q.seen \in Case
    /\ q.decision \in MODERATION_DECISIONS
    /\ IsChange(q.write) /\ IsChange(q.entry.tells)

At(r, step) == requests[r].step = step

TypeOK ==
    /\ cases \in [Cases -> Case \cup {NoCase}]
    /\ DOMAIN journal = Cases
    /\ \A c \in Cases : \A i \in DOMAIN journal[c] : IsChange(journal[c][i].tells)
    /\ suspended \subseteq Objects
    /\ log \in Seq([case: Cases, object: Objects, decision: MODERATION_DECISIONS])
    /\ DOMAIN requests = Requests
    /\ \A r \in Requests : requests[r] # Idle => InFlightTyped(requests[r])
    /\ opened \in [Cases -> Case \cup {NoCase}]
    /\ raced \subseteq Cases /\ blurred \subseteq Cases /\ contested \subseteq Objects
    /\ served \in Nat /\ faults \in Nat

Init ==
    /\ cases = [c \in Cases |-> NoCase]
    /\ journal = [c \in Cases |-> << >>]
    /\ suspended = {} /\ log = << >>
    /\ requests = [r \in Requests |-> Idle]
    /\ opened = cases /\ raced = {} /\ blurred = {} /\ contested = {}
    /\ served = 0 /\ faults = 0

-----------------------------------------------------------------------------
(* Requests.                                                               *)

Nothing == [f \in {} |-> None]

Entry(kind, tells) == [kind |-> kind, tells |-> tells]

Finish(r) == requests' = [requests EXCEPT ![r] = Idle]

Goto(r, step) == requests' = [requests EXCEPT ![r].step = step]

Serve(r) == requests[r] = Idle /\ served < MaxRequests /\ served' = served + 1

\* Slot r reads Case c and goes on at the given step; what it will write and tell is decided.
Start(r, c, at, write, entry, decision) ==
    /\ Serve(r) /\ cases[c] # NoCase
    /\ requests' = [requests EXCEPT ![r] =
          [step |-> at, case |-> c, seen |-> cases[c], write |-> write, entry |-> entry,
           decision |-> decision]]
    /\ UNCHANGED <<cases, journal, suspended, log, history, faults>>

\* History: request r acts on a status that is no longer the one it has read.
Race(r) ==
    LET c == requests[r].case
    IN  raced' = IF cases[c].status # requests[r].seen.status THEN raced \cup {c} ELSE raced

\* Some other request has written the Case of r and not told the journal yet.
Crosses(r) ==
    \E q \in Requests \ {r} :
       requests[q].step \in {"initial", "record"} /\ requests[q].case = requests[r].case
          /\ requests[q].write # Nothing

Write(r) == cases' = [cases EXCEPT ![requests[r].case] = Changed(@, requests[r].write)]

\* The columns are written; the entry follows.
Update(r) ==
    /\ At(r, "write")
    /\ Write(r)
    /\ IF "status" \in DOMAIN requests[r].write THEN Race(r) ELSE UNCHANGED raced
    /\ blurred' = IF Crosses(r) THEN blurred \cup {requests[r].case} ELSE blurred
    /\ Goto(r, "record")
    /\ UNCHANGED <<journal, suspended, log, opened, contested, served, faults>>

RecordEvent(r) ==
    /\ At(r, "record")
    /\ journal' = [journal EXCEPT ![requests[r].case] = Append(@, requests[r].entry)]
    /\ Finish(r)
    /\ UNCHANGED <<cases, suspended, log, history, served, faults>>

-----------------------------------------------------------------------------
(* Opening: the row, then what a rule adds to it, then the entry CREATED.  *)

\* The entry tells where the Case goes; neither its status, its assignee nor its priority.
Open(r, c, d, p, s, a, o) ==
    LET row == [status |-> "NEW", assignee |-> None, route |-> d, critical |-> p,
                closed |-> FALSE, object |-> o]
        added == [status |-> s, assignee |-> a]
    IN  /\ Serve(r) /\ cases[c] = NoCase
        /\ cases' = [cases EXCEPT ![c] = row]
        /\ opened' = [opened EXCEPT ![c] = Changed(row, added)]
        /\ requests' = [requests EXCEPT ![r] =
              [step |-> IF s # "NEW" \/ a # None THEN "initial" ELSE "record",
               case |-> c, seen |-> row, write |-> added,
               entry |-> Entry("CREATED", [route |-> d]), decision |-> "NO_ACTION"]]
        /\ UNCHANGED <<journal, suspended, log, raced, blurred, contested, faults>>

\* The assignee is written only if the rule gives one.
ApplyRule(r) ==
    LET c == requests[r].case
        added == requests[r].write
    IN  /\ At(r, "initial")
        /\ cases' = [cases EXCEPT ![c].status = added.status,
                        ![c].assignee = IF added.assignee = None THEN @ ELSE added.assignee]
        /\ Race(r)
        /\ Goto(r, "record")
        /\ UNCHANGED <<journal, suspended, log, opened, blurred, contested, served, faults>>

-----------------------------------------------------------------------------
(* The Operators.                                                          *)

\* Mutant of AssignedStatus: a Case that is being assigned stays in its status.
SameStatus(s) == s

AssignedStatus(s) == IF s = "NEW" THEN "ASSIGNED" ELSE s

\* assign and claim: any Case may be assigned, whatever its status, which is written back.
Assign(r, c, a) ==
    Start(r, c, "write", [assignee |-> a, status |-> AssignedStatus(cases[c].status)],
          Entry("ASSIGNED", [assignee |-> a]), "NO_ACTION")

\* Mutant of ChangeStatus: any other status may be chosen.
ChangeStatusFreely(r, c, to) ==
    /\ cases[c] # NoCase /\ cases[c].status # to
    /\ Start(r, c, "write", [status |-> to], Entry("STATUS_CHANGED", [status |-> to]), "NO_ACTION")

ChangeStatus(r, c, to) ==
    LET change == IF to = "CLOSED" THEN [status |-> to, closed |-> TRUE] ELSE [status |-> to]
    IN  /\ cases[c] # NoCase /\ CanTransition(cases[c].status, to)
        /\ Start(r, c, "write", change, Entry("STATUS_CHANGED", change), "NO_ACTION")

\* The assignment is reset with the queue.
Reroute(r, c, d) ==
    LET change == [route |-> d, assignee |-> None]
    IN  Start(r, c, "write", change, Entry("REROUTED", change), "NO_ACTION")

ChangePriority(r, c, p) ==
    Start(r, c, "write", [critical |-> p], Entry("PRIORITY_CHANGED", [critical |-> p]), "NO_ACTION")

Escalate(r, c) ==
    Start(r, c, "write", [critical |-> TRUE], Entry("ESCALATED", [critical |-> TRUE]), "NO_ACTION")

AddComment(r, c) == Start(r, c, "record", Nothing, Entry("COMMENT", Nothing), "NO_ACTION")

-----------------------------------------------------------------------------
(* The requester.                                                          *)

\* The requester answers; the status read decides what follows the comment.
AddRequesterComment(r, c) ==
    Start(r, c, "comment", [status |-> "IN_PROGRESS"],
          Entry("STATUS_CHANGED", [status |-> "IN_PROGRESS"]), "NO_ACTION")

\* Mutant of Resumes: an answer relaunches only what waits for a user.
ResumesUser(s) == s = "WAITING_FOR_USER"

Resumes(s) == s \in WAITING_STATES /\ CanTransition(s, "IN_PROGRESS")

RecordReply(r) ==
    /\ At(r, "comment")
    /\ journal' = [journal EXCEPT ![requests[r].case] = Append(@, Entry("REPLY", Nothing))]
    /\ IF Resumes(requests[r].seen.status) THEN Goto(r, "write") ELSE Finish(r)
    /\ Race(r)
    /\ UNCHANGED <<cases, suspended, log, opened, blurred, contested, served, faults>>

-----------------------------------------------------------------------------
(* Moderation: the effect, then the log, then the journal of the Case.     *)

Decide(r, c, d) ==
    Start(r, c, IF d = "NO_ACTION" THEN "log" ELSE "effect", Nothing,
          Entry("MODERATION_DECISION", Nothing), d)

\* Mutant of ApplyEffect: an organization that is restored is not made active again.
SuspendOnly(r) ==
    LET o == requests[r].seen.object
    IN  /\ At(r, "effect")
        /\ suspended' = suspended \cup {o}
        /\ Goto(r, "log")
        /\ UNCHANGED <<cases, journal, log, history, served, faults>>

ApplyEffect(r) ==
    LET o == requests[r].seen.object
    IN  /\ At(r, "effect")
        /\ suspended' = IF requests[r].decision = "RESTORE" THEN suspended \ {o}
                        ELSE suspended \cup {o}
        /\ contested' = IF \E q \in Requests \ {r} :
                              At(q, "log") /\ requests[q].seen.object = o
                                 /\ requests[q].decision # "NO_ACTION"
                        THEN contested \cup {o} ELSE contested
        /\ Goto(r, "log")
        /\ UNCHANGED <<cases, journal, log, opened, raced, blurred, served, faults>>

RecordLog(r) ==
    /\ At(r, "log")
    /\ log' = Append(log, [case |-> requests[r].case, object |-> requests[r].seen.object,
                           decision |-> requests[r].decision])
    /\ Goto(r, "record")
    /\ UNCHANGED <<cases, journal, suspended, history, served, faults>>

-----------------------------------------------------------------------------
\* A call throws or the process stops; what was written stays, untold.
LoseRequest(r) ==
    LET q == requests[r]
    IN  /\ q # Idle
        /\ faults < MaxFaults /\ faults' = faults + 1
        /\ blurred' = IF \/ q.step \in {"initial", "record"}
                         \/ q.step = "write" /\ q.entry.kind = "STATUS_CHANGED"
                      THEN blurred \cup {q.case} ELSE blurred
        /\ contested' = IF q.step = "log" /\ q.decision # "NO_ACTION"
                        THEN contested \cup {q.seen.object} ELSE contested
        /\ Finish(r)
        /\ UNCHANGED <<cases, journal, suspended, log, opened, raced, served>>

Begin(r) ==
    \E c \in Cases :
       \/ \E d \in Routes, p \in BOOLEAN, s \in InitialStatuses, a \in Operators \cup {None},
             o \in Objects : Open(r, c, d, p, s, a, o)
       \/ \E a \in Operators : Assign(r, c, a)
       \/ \E to \in CaseStatus : ChangeStatus(r, c, to)
       \/ \E d \in CatalogueRoutes : Reroute(r, c, d)
       \/ \E p \in BOOLEAN : ChangePriority(r, c, p)
       \/ Escalate(r, c) \/ AddComment(r, c) \/ AddRequesterComment(r, c)
       \/ \E d \in MODERATION_DECISIONS : Decide(r, c, d)

Continue(r) ==
    \/ ApplyRule(r) \/ Update(r) \/ RecordEvent(r) \/ RecordReply(r)
    \/ ApplyEffect(r) \/ RecordLog(r)

Next == \E r \in Requests : Begin(r) \/ Continue(r) \/ LoseRequest(r)

Spec == Init /\ [][Next]_vars

-----------------------------------------------------------------------------
(* Safety.                                                                 *)

InFlight(c) == {r \in Requests : requests[r] # Idle /\ requests[r].case = c}

\* What an entry tells of a Case; assigning a new Case is not told as a change of status.
Tell(row, entry) ==
    LET told == Changed(row, entry.tells)
    IN  IF entry.kind = "ASSIGNED" /\ row.status = "NEW"
        THEN [told EXCEPT !.status = "ASSIGNED"] ELSE told

\* A row on which the entries of a journal are told, from the first to the last.
Replay(row, entries) ==
    LET told[n \in 0..Len(entries)] == IF n = 0 THEN row ELSE Tell(told[n - 1], entries[n])
    IN  told[Len(entries)]

\* CASE-006: every change of a Case after its opening is told.  The entries of its journal, told
\* from the first to the last on the row as it was opened, give its status, its assignee, its
\* priority, its destination and its closure, and one of them says that it was created; unless
\* a request acted on a status that had changed, wrote between another's write and its entry,
\* or was lost.  The row as it was opened is in no entry.
JournalTellsChanges ==
    \A c \in Cases \ (raced \cup blurred) :
       cases[c] # NoCase /\ InFlight(c) = {} =>
          /\ \E i \in DOMAIN journal[c] : journal[c][i].kind = "CREATED"
          /\ Replay(opened[c], journal[c]) = cases[c]

\* Once it is open, a Case moves along the transitions of the catalogue only: none comes
\* back from CLOSED, unless a request acted on a status that had changed.
TransitionsAllowedUnlessRaced ==
    [][\A c \in Cases \ raced' :
          \/ cases[c] = NoCase
          \/ \E r \in InFlight(c) : At(r, "initial")
          \/ cases'[c].status = cases[c].status
          \/ CanTransition(cases[c].status, cases'[c].status)]_vars

\* The requester has answered, and no change of status is told after that.
Answered(c) ==
    \E i \in DOMAIN journal[c] :
       /\ journal[c][i].kind = "REPLY"
       /\ \A j \in DOMAIN journal[c] :
             j > i => journal[c][j].kind \notin {"CREATED", "STATUS_CHANGED"}

\* CASE-015: a Case does not wait when its requester has answered since its status last
\* changed, unless a request acted on a status that had changed or was lost.
AnswerResumesUnlessRaced ==
    \A c \in Cases \ (raced \cup blurred) :
       InFlight(c) = {} /\ Answered(c) => cases[c].status \notin WAITING_STATES

\* MOD-003: the last decision of the log that has an effect is the one in force, unless two
\* decisions crossed or one was lost between its effect and the log.
LogTellsSuspension ==
    \A o \in Objects \ contested :
       LET Decides(i) == log[i].object = o /\ log[i].decision # "NO_ACTION"
       IN  (\A r \in Requests : ~At(r, "log")) =>
              (o \in suspended <=>
                 \E i \in DOMAIN log :
                    /\ Decides(i) /\ log[i].decision = "SUSPEND"
                    /\ \A j \in DOMAIN log : j > i => ~Decides(j))

=============================================================================
