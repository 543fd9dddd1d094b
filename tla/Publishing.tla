----------------------------- MODULE Publishing -----------------------------
(***************************************************************************)
(* The editorial life of an Event: its creation and correction             *)
(* (EventsService), the publication workflow (PublishingService), the      *)
(* decisions of moderation that overrule it (ModerationService), the       *)
(* search index that follows both (SearchIndexService) and the fact        *)
(* "event published" that informs followers.                               *)
(*                                                                         *)
(* Each request reads the Event row, decides, and later writes it: the     *)
(* write (EventRepository.applyTransition, updateWithRefs) checks nothing  *)
(* of what was read.  One action is what happens up to the end of one      *)
(* awaited call.  History variables tell the properties which events       *)
(* concurrent requests and moderation have touched.                        *)
(***************************************************************************)
EXTENDS Naturals, Sequences, FiniteSets

CONSTANTS
    Events,       \* ids of events
    Contents,     \* what the form of an event can hold
    Incoherent,   \* the contents whose end date precedes their start date
    Requests,     \* requests in flight at one time
    MaxRequests,  \* bound of the model: requests and rebuilds served
    MaxFaults     \* bound of the model: index failures and lost processes

ASSUME ContentsKnown == Incoherent \subseteq Contents /\ "none" \notin Contents
ASSUME BoundsAreNat  == MaxRequests \in Nat /\ MaxFaults \in Nat

VARIABLES
    events,         \* the Event row of an id, NoRow before it is created
    personal,       \* history: the events created PRIVATE
    journal,        \* event_status_events of an event, oldest first
    requests,       \* the request that occupies a slot
    index,          \* the content search_documents holds for an event
    rebuild,        \* the rebuild of the index that is under way
    firstPublished, \* EVENT_PUBLISHED facts of an event that carry firstPublish
    raced,          \* history: events written by a request that had read another row
    doubtful,       \* history: events whose index calls failed, overlapped or were not made
    ruled,          \* history: events whose status moderation was the last to write
    restored,       \* history: events moderation has ever put back into diffusion
    served,         \* requests and rebuilds so far
    faults          \* faults so far

rowVars == <<events, personal, journal>>
rulings == <<ruled, restored>>
vars == <<rowVars, rulings, requests, index, rebuild, firstPublished, raced, doubtful, served, faults>>

EventStatus == {"DRAFT", "SUBMITTED", "PUBLISHED", "ARCHIVED"}
Row == [status: EventStatus, visibility: {"PUBLIC", "PRIVATE"},
        published: BOOLEAN,  \* publishedAt is set
        content: Contents]
NoRow == [status |-> "NONE"]
NoDoc == "none"
\* from: "NONE" is the null of the line that tells a creation
Line  == [from: EventStatus \cup {"NONE"}, to: EventStatus]
Created == [from |-> "NONE", to |-> "DRAFT"]

Idle   == [step |-> "idle"]
Steps  == {"apply", "applyPrivate", "update", "rule", "load", "upsert", "remove", "notify",
           "record"}
\* first: isFirstPublish, decided when the row was read
Flight == [step: Steps, event: Events, seen: Row, to: EventStatus, content: Contents,
           first: BOOLEAN]

TypeOK ==
    /\ events \in [Events -> Row \cup {NoRow}]
    /\ personal \subseteq Events
    /\ journal \in [Events -> Seq(Line)]
    /\ requests \in [Requests -> Flight \cup {Idle}]
    /\ index \in [Events -> Contents \cup {NoDoc}]
    /\ rebuild \in [step: {"idle", "clear", "upsert"},
                    docs: [Events -> Contents \cup {NoDoc}], clean: SUBSET Events]
    /\ firstPublished \in [Events -> Nat]
    /\ raced \subseteq Events /\ doubtful \subseteq Events
    /\ ruled \subseteq Events /\ restored \subseteq Events
    /\ served \in Nat /\ faults \in Nat

NoDocs == [e \in Events |-> NoDoc]

Init ==
    /\ events = [e \in Events |-> NoRow]
    /\ personal = {}
    /\ journal = [e \in Events |-> << >>]
    /\ requests = [r \in Requests |-> Idle]
    /\ index = NoDocs
    /\ rebuild = [step |-> "idle", docs |-> NoDocs, clean |-> {}]
    /\ firstPublished = [e \in Events |-> 0]
    /\ raced = {} /\ doubtful = {} /\ ruled = {} /\ restored = {}
    /\ served = 0 /\ faults = 0

-----------------------------------------------------------------------------
(* The rules of the workflow.                                              *)

Exists(e) == events[e] # NoRow

ALLOWED ==
    [DRAFT     |-> {"SUBMITTED", "PUBLISHED", "ARCHIVED"},
     SUBMITTED |-> {"PUBLISHED", "DRAFT", "ARCHIVED"},
     PUBLISHED |-> {"DRAFT", "ARCHIVED"},
     ARCHIVED  |-> {"DRAFT"}]

\* Mutants of ValidatePublishable: the dates are not looked at; nor is the visibility.
PublishesIncoherent(row) == row.visibility = "PUBLIC"
PublishesPrivate(row) == row.content \notin Incoherent

\* The deterministic rules of a publication; a title and a start date are always there.
ValidatePublishable(row) == row.visibility = "PUBLIC" /\ row.content \notin Incoherent

\* Mutant of EDITABLE_STATUSES: a correction is accepted while the event is diffused.
EditablePublished == {"DRAFT", "SUBMITTED", "PUBLISHED"}

EDITABLE_STATUSES == {"DRAFT", "SUBMITTED"}

\* Mutants of Published: every transition sets publishedAt; withdrawing an event forgets that it
\* was published.
PublishedAlways(row, to) ==
    [row EXCEPT !.status = to,
                !.published = TRUE,
                !.visibility = IF to = "PUBLISHED" THEN "PUBLIC" ELSE @]
PublishedForgets(row, to) ==
    [row EXCEPT !.status = to,
                !.published = (to = "PUBLISHED"),
                !.visibility = IF to = "PUBLISHED" THEN "PUBLIC" ELSE @]

\* What applyTransition writes over a row.
Published(row, to) ==
    [row EXCEPT !.status = to,
                !.published = @ \/ to = "PUBLISHED",
                !.visibility = IF to = "PUBLISHED" THEN "PUBLIC" ELSE @]

\* Mutant of SyncStep: an archived event keeps its document.
SyncSkipsArchived(to) ==
    IF to = "PUBLISHED" THEN "load" ELSE IF to = "DRAFT" THEN "remove" ELSE "notify"

\* The index call that follows a change of status.
SyncStep(to) == IF to = "PUBLISHED" THEN "load" ELSE "remove"

InFlight(e) == {r \in Requests : requests[r] # Idle /\ requests[r].event = e}

\* History: a request starts on e while another one, or a rebuild, is under way.
Overlap(e) ==
    /\ doubtful' = IF InFlight(e) # {} \/ rebuild.step # "idle"
                   THEN doubtful \cup {e} ELSE doubtful
    /\ rebuild' = [rebuild EXCEPT !.clean = @ \ {e}]

\* Slot r starts a request on event e whose next call is at.
Start(r, e, at, to, content) ==
    /\ requests[r] = Idle
    /\ served < MaxRequests /\ served' = served + 1
    /\ requests' = [requests EXCEPT ![r] = [step |-> at, event |-> e, seen |-> events[e],
                                            to |-> to, content |-> content,
                                            first |-> /\ at = "apply" /\ to = "PUBLISHED"
                                                      /\ ~events[e].published]]
    /\ Overlap(e)

\* Request r goes on with the call at.
Goto(r, at) == requests' = [requests EXCEPT ![r].step = at]

Finish(r) == requests' = [requests EXCEPT ![r] = Idle]

At(r, step) == requests[r].step = step

\* History: the row request r is about to write is not the one it has read.
Race(r) ==
    LET e == requests[r].event
    IN  raced' = IF events[e] # requests[r].seen THEN raced \cup {e} ELSE raced

-----------------------------------------------------------------------------
(* Creation.                                                               *)

NewRow(v, c) == [status |-> "DRAFT", visibility |-> v, published |-> FALSE, content |-> c]

Remember(e, v) == personal' = IF v = "PRIVATE" THEN personal \cup {e} ELSE personal

\* createManual and createPrivateManual: the row, then its journal line, in two calls.
CreateManual(r, e, v, c) ==
    /\ ~Exists(e) /\ requests[r] = Idle
    /\ served < MaxRequests /\ served' = served + 1
    /\ events' = [events EXCEPT ![e] = NewRow(v, c)]
    /\ requests' = [requests EXCEPT ![r] = [step |-> "record", event |-> e,
                       seen |-> NewRow(v, c), to |-> "DRAFT", content |-> c, first |-> FALSE]]
    /\ Remember(e, v)
    /\ Overlap(e)
    /\ UNCHANGED <<rulings, journal, index, firstPublished, raced, faults>>

\* Other requests may have written lines since the row was created.
RecordStatusEvent(r) ==
    /\ At(r, "record")
    /\ journal' = [journal EXCEPT ![requests[r].event] = Append(@, Created)]
    /\ Finish(r)
    /\ UNCHANGED <<events, personal, rulings, index, rebuild, firstPublished, raced, doubtful, served,
                   faults>>

\* createEventAndValidate: the row and its line in one transaction; the submission
\* controls have refused incoherent dates.
CreateFromCandidate(e, v, c) ==
    /\ ~Exists(e) /\ c \notin Incoherent
    /\ served < MaxRequests /\ served' = served + 1
    /\ events' = [events EXCEPT ![e] = NewRow(v, c)]
    /\ journal' = [journal EXCEPT ![e] = Append(@, Created)]
    /\ Remember(e, v)
    /\ UNCHANGED <<rulings, requests, index, rebuild, firstPublished, raced, doubtful, faults>>

-----------------------------------------------------------------------------
(* Correction: update and updatePrivate.                                   *)

Update(r, e, c) ==
    /\ Exists(e) /\ events[e].status \in EDITABLE_STATUSES
    /\ Start(r, e, "update", events[e].status, c)
    /\ UNCHANGED <<rowVars, rulings, index, firstPublished, raced, faults>>

\* The row keeps the status it has by now, whatever it was when it was read.
UpdateWithRefs(r) ==
    /\ At(r, "update")
    /\ events' = [events EXCEPT ![requests[r].event].content = requests[r].content]
    /\ Race(r)
    /\ Finish(r)
    /\ UNCHANGED <<personal, journal, rulings, index, rebuild, firstPublished, doubtful, served, faults>>

-----------------------------------------------------------------------------
(* Transitions.                                                            *)

\* Mutant of Transition: the table of transitions is not consulted.
TransitionUnchecked(r, e, to) ==
    /\ Exists(e) /\ to # events[e].status
    /\ to = "PUBLISHED" => ValidatePublishable(events[e])
    /\ Start(r, e, "apply", to, events[e].content)
    /\ UNCHANGED <<rowVars, rulings, index, firstPublished, raced, faults>>

\* submit, publish, unpublish, archive and restore, up to the write.
Transition(r, e, to) ==
    /\ Exists(e) /\ to \in ALLOWED[events[e].status]
    /\ to = "PUBLISHED" => ValidatePublishable(events[e])
    /\ Start(r, e, "apply", to, events[e].content)
    /\ UNCHANGED <<rowVars, rulings, index, firstPublished, raced, faults>>

\* archivePrivate and restorePrivate, up to the write.
TransitionPrivate(r, e, to) ==
    /\ Exists(e) /\ events[e].visibility = "PRIVATE"
    /\ to = IF events[e].status = "ARCHIVED" THEN "DRAFT" ELSE "ARCHIVED"
    /\ Start(r, e, "applyPrivate", to, events[e].content)
    /\ UNCHANGED <<rowVars, rulings, index, firstPublished, raced, faults>>

\* History: an archived private event is not taken out of the index, where only moderation
\* can have put it.
Unsynced(r) ==
    LET e == requests[r].event
    IN  doubtful' = IF At(r, "applyPrivate") /\ events[e].status = "PUBLISHED"
                    THEN doubtful \cup {e} ELSE doubtful

\* Mutant of ApplyTransition: the journal line is written the wrong way round.
ApplySwapped(r) ==
    LET e == requests[r].event
        to == requests[r].to
    IN  /\ At(r, "apply") \/ At(r, "applyPrivate")
        /\ events' = [events EXCEPT ![e] = Published(@, to)]
        /\ journal' = [journal EXCEPT ![e] = Append(@, [from |-> to, to |-> requests[r].seen.status])]
        /\ Race(r)
        /\ ruled' = ruled \ {e}
        /\ IF At(r, "apply") THEN Goto(r, SyncStep(to)) ELSE Finish(r)
        /\ Unsynced(r)
        /\ UNCHANGED <<personal, restored, index, rebuild, firstPublished, served, faults>>

\* applyTransition: the row and the journal line in one transaction, whatever the row is
\* by now; the line's origin is the status that was read.
ApplyTransition(r) ==
    LET e == requests[r].event
        to == requests[r].to
    IN  /\ At(r, "apply") \/ At(r, "applyPrivate")
        /\ events' = [events EXCEPT ![e] = Published(@, to)]
        /\ journal' = [journal EXCEPT ![e] = Append(@, [from |-> requests[r].seen.status, to |-> to])]
        /\ Race(r)
        /\ ruled' = ruled \ {e}
        /\ IF At(r, "apply") THEN Goto(r, SyncStep(to)) ELSE Finish(r)
        /\ Unsynced(r)
        /\ UNCHANGED <<personal, restored, index, rebuild, firstPublished, served, faults>>

\* ModerationService.decide on an event: HIDE and SUSPEND archive it, RESTORE publishes it.
\* Of the event it only reads that it exists.
Decide(r, e, to) ==
    /\ Exists(e) /\ to \in {"ARCHIVED", "PUBLISHED"}
    /\ Start(r, e, "rule", to, events[e].content)
    /\ UNCHANGED <<rowVars, rulings, index, firstPublished, raced, faults>>

\* The status alone is written: no rule, no journal line, no publishedAt.
SetEventStatus(r) ==
    LET e == requests[r].event
        to == requests[r].to
    IN  /\ At(r, "rule")
        /\ events' = [events EXCEPT ![e].status = to]
        /\ ruled' = ruled \cup {e}
        /\ restored' = IF to = "PUBLISHED" THEN restored \cup {e} ELSE restored
        /\ Goto(r, SyncStep(to))
        /\ UNCHANGED <<personal, journal, index, rebuild, firstPublished, raced, doubtful, served, faults>>

\* SearchIndexService.index: only a published row yields a document.
IndexLoad(r) ==
    LET row == events[requests[r].event]
    IN  /\ At(r, "load")
        /\ requests' = [requests EXCEPT ![r].step = IF row.status = "PUBLISHED" THEN "upsert" ELSE "remove",
                                        ![r].content = row.content]
        /\ UNCHANGED <<rowVars, rulings, index, rebuild, firstPublished, raced, doubtful, served, faults>>

IndexUpsert(r) ==
    /\ At(r, "upsert")
    /\ index' = [index EXCEPT ![requests[r].event] = requests[r].content]
    /\ Goto(r, "notify")
    /\ UNCHANGED <<rowVars, rulings, rebuild, firstPublished, raced, doubtful, served, faults>>

IndexRemove(r) ==
    /\ At(r, "remove")
    /\ index' = [index EXCEPT ![requests[r].event] = NoDoc]
    /\ Goto(r, "notify")
    /\ UNCHANGED <<rowVars, rulings, rebuild, firstPublished, raced, doubtful, served, faults>>

\* A failure of the index is logged and the transition goes on.
IndexFails(r) ==
    /\ requests[r].step \in {"load", "upsert", "remove"}
    /\ Goto(r, "notify")
    /\ doubtful' = doubtful \cup {requests[r].event}
    /\ faults < MaxFaults /\ faults' = faults + 1
    /\ UNCHANGED <<rowVars, rulings, index, rebuild, firstPublished, raced, served>>

\* The fact EVENT_PUBLISHED, with firstPublish as it was decided when the row was read; a
\* decision of moderation is logged instead and publishes no fact.
Notify(r) ==
    /\ At(r, "notify")
    /\ firstPublished' =
          IF requests[r].first
          THEN [firstPublished EXCEPT ![requests[r].event] = @ + 1] ELSE firstPublished
    /\ Finish(r)
    /\ UNCHANGED <<rowVars, rulings, index, rebuild, raced, doubtful, served, faults>>

\* The process that serves the request stops.
LoseRequest(r) ==
    /\ requests[r] # Idle
    /\ Finish(r)
    /\ doubtful' = IF requests[r].step \in {"load", "upsert", "remove"}
                   THEN doubtful \cup {requests[r].event} ELSE doubtful
    /\ faults < MaxFaults /\ faults' = faults + 1
    /\ UNCHANGED <<rowVars, rulings, index, rebuild, firstPublished, raced, served>>

-----------------------------------------------------------------------------
(* SearchIndexService.rebuild: load, clear, insert the documents in turn.  *)

RebuildLoad ==
    /\ rebuild.step = "idle"
    /\ served < MaxRequests /\ served' = served + 1
    /\ rebuild' =
          [step  |-> "clear",
           docs  |-> [e \in Events |-> IF events[e].status = "PUBLISHED"
                                       THEN events[e].content ELSE NoDoc],
           clean |-> {e \in Events : InFlight(e) = {}}]
    /\ doubtful' = doubtful \cup {e \in Events : InFlight(e) # {}}
    /\ UNCHANGED <<rowVars, rulings, requests, index, firstPublished, raced, faults>>

RebuildClear ==
    /\ rebuild.step = "clear"
    /\ index' = NoDocs
    /\ rebuild' = [rebuild EXCEPT !.step = "upsert"]
    /\ UNCHANGED <<rowVars, rulings, requests, firstPublished, raced, doubtful, served, faults>>

RebuildUpsert(e) ==
    /\ rebuild.step = "upsert" /\ rebuild.docs[e] # NoDoc
    /\ index' = [index EXCEPT ![e] = rebuild.docs[e]]
    /\ rebuild' = [rebuild EXCEPT !.docs[e] = NoDoc]
    /\ UNCHANGED <<rowVars, rulings, requests, firstPublished, raced, doubtful, served, faults>>

RebuildDone ==
    /\ rebuild.step = "upsert" /\ rebuild.docs = NoDocs
    /\ rebuild' = [step |-> "idle", docs |-> NoDocs, clean |-> {}]
    /\ doubtful' = doubtful \ rebuild.clean
    /\ UNCHANGED <<rowVars, rulings, requests, index, firstPublished, raced, served, faults>>

\* A rebuild that fails, or whose process stops, leaves the index as far as it got.
RebuildFails ==
    /\ rebuild.step # "idle"
    /\ rebuild' = [step |-> "idle", docs |-> NoDocs, clean |-> {}]
    /\ doubtful' = Events
    /\ faults < MaxFaults /\ faults' = faults + 1
    /\ UNCHANGED <<rowVars, rulings, requests, index, firstPublished, raced, served>>

-----------------------------------------------------------------------------
Begin(r, e) ==
    \/ \E v \in {"PUBLIC", "PRIVATE"}, c \in Contents : CreateManual(r, e, v, c)
    \/ \E c \in Contents : Update(r, e, c)
    \/ \E to \in EventStatus : Transition(r, e, to) \/ TransitionPrivate(r, e, to) \/ Decide(r, e, to)

Continue(r) ==
    \/ RecordStatusEvent(r) \/ UpdateWithRefs(r) \/ ApplyTransition(r) \/ SetEventStatus(r)
    \/ IndexLoad(r) \/ IndexUpsert(r) \/ IndexRemove(r) \/ IndexFails(r)
    \/ Notify(r) \/ LoseRequest(r)

Rebuild ==
    RebuildLoad \/ RebuildClear \/ (\E e \in Events : RebuildUpsert(e))
        \/ RebuildDone \/ RebuildFails

Next ==
    \/ \E r \in Requests, e \in Events : Begin(r, e)
    \/ \E r \in Requests : Continue(r)
    \/ \E e \in Events, v \in {"PUBLIC", "PRIVATE"}, c \in Contents : CreateFromCandidate(e, v, c)
    \/ Rebuild

Spec == Init /\ [][Next]_vars

-----------------------------------------------------------------------------
(* Safety.                                                                 *)

Is(e, s) == Exists(e) /\ events[e].status = s

\* An event created private is personal (ESUB-009): it stays private and nothing ever announces
\* it, and no interleaving of requests and rebuilds diffuses it or leaves a document of it in
\* the index, as long as moderation has not put it into diffusion itself.
PrivateNeverDiffused ==
    \A e \in personal :
       /\ Exists(e) /\ events[e].visibility = "PRIVATE"
       /\ ~events[e].published /\ firstPublished[e] = 0
       /\ e \notin restored => events[e].status # "PUBLISHED" /\ index[e] = NoDoc

\* The lines of the journal that tell a change of status.
Changes(e) == {i \in DOMAIN journal[e] : journal[e][i].from # "NONE"}

\* The status is the one the last change in the journal tells, or DRAFT when it tells none, except
\* while it is one moderation has written; the next transition makes it true again.  The line
\* of the creation tells nothing of it: written by a call of its own, it may be the last.
JournalTellsStatus ==
    \A e \in Events :
       Exists(e) /\ e \notin ruled =>
          \/ Changes(e) = {} /\ events[e].status = "DRAFT"
          \/ \E i \in Changes(e) :
                /\ \A k \in Changes(e) : k <= i
                /\ events[e].status = journal[e][i].to

\* As long as no request has written over a row it had not read, the workflow's table is
\* followed from status to status, the decisions of moderation excepted.
WorkflowUnlessRaced ==
    [][\A e \in Events :
          Exists(e) /\ events'[e].status # events[e].status /\ e \notin raced' \cup ruled' =>
             events'[e].status \in ALLOWED[events[e].status]]_vars

\* Likewise what is diffused satisfies the rules of publication.
PublishedIsCoherentUnlessRaced ==
    \A e \in Events :
       Is(e, "PUBLISHED") /\ e \notin raced \cup ruled => events[e].content \notin Incoherent

\* Likewise a correction never reaches an event while it is diffused.
PublishedIsFrozenUnlessRaced ==
    [][\A e \in Events : Is(e, "PUBLISHED") /\ e \notin raced' =>
                            events'[e].content = events[e].content]_vars

\* Likewise the followers of an event are informed of it at most once.
AnnouncedOnceUnlessRaced ==
    \A e \in Events : e \notin raced => firstPublished[e] <= 1

\* At rest, the index holds the published content of an event and nothing else, unless its
\* calls overlapped, failed or were not made; a rebuild nothing disturbs makes it faithful again.
IndexFaithful ==
    \A e \in Events :
       InFlight(e) = {} /\ rebuild.step = "idle" /\ e \notin doubtful =>
          index[e] = IF Is(e, "PUBLISHED") THEN events[e].content ELSE NoDoc

-----------------------------------------------------------------------------
(* The inductive invariant behind the safety properties.                   *)

Before  == {"apply", "applyPrivate", "update", "rule", "record"}   \* the write is still to come
After   == {"load", "upsert", "remove", "notify"}          \* the transition is written

\* Visibility never changes, so what request q has read of it is still true; what q will
\* write obeys the rules with respect to the row it has read.
FlightRule(q) ==
    /\ Exists(q.event)
    /\ events[q.event].visibility = q.seen.visibility
    /\ q.step \in {"apply", "applyPrivate"} => q.to \in ALLOWED[q.seen.status]
    /\ q.step = "applyPrivate" => q.seen.visibility = "PRIVATE" /\ q.to # "PUBLISHED"
    /\ q.step = "apply" /\ q.to = "PUBLISHED" => ValidatePublishable(q.seen)
    /\ q.step \in After /\ q.to = "PUBLISHED" =>
          q.seen.visibility = "PUBLIC" \/ q.event \in restored
    /\ q.first => /\ q.step \in {"apply"} \cup After /\ q.to = "PUBLISHED"
                  /\ q.seen.visibility = "PUBLIC" /\ ~q.seen.published
    /\ q.step \in {"load", "upsert"} => q.to = "PUBLISHED"
    /\ q.step = "update" => q.seen.status \in EDITABLE_STATUSES

FlightInv == \A r \in Requests : requests[r] # Idle => FlightRule(requests[r])

\* What a private row has never had, and what only public events have.
PrivacyInv ==
    /\ \A e \in personal : Exists(e) /\ events[e].visibility = "PRIVATE"
    /\ \A e \in Events :
          Exists(e) /\ events[e].visibility = "PRIVATE" =>
             /\ ~events[e].published /\ firstPublished[e] = 0
             /\ e \notin restored => events[e].status # "PUBLISHED" /\ index[e] = NoDoc
    /\ \A e \in Events :
          /\ rebuild.docs[e] # NoDoc =>
                Exists(e) /\ (events[e].visibility = "PUBLIC" \/ e \in restored)
          /\ index[e] # NoDoc \/ firstPublished[e] # 0 \/ journal[e] # << >> => Exists(e)

\* Request r has made the first publication of e and has not announced it yet.
Announcing(r, e) ==
    requests[r] # Idle /\ requests[r].event = e /\ requests[r].step \in After /\ requests[r].first

\* A first publication is announced by one request, and only after it is written.
AnnounceInv ==
    \A e \in Events \ raced :
       /\ firstPublished[e] <= 1
       /\ \A r \in Requests : Announcing(r, e) =>
             /\ firstPublished[e] = 0
             /\ \A s \in Requests : Announcing(s, e) => s = r
       /\ Exists(e) /\ ~events[e].published =>
             firstPublished[e] = 0 /\ \A r \in Requests : ~Announcing(r, e)

\* The document the index should hold.
Document(e) == IF Is(e, "PUBLISHED") THEN events[e].content ELSE NoDoc

\* An event whose index calls have not overlapped has one request at most, and it knows
\* what the index holds by the step the request has reached.
Alone(e) ==
    /\ rebuild.step # "idle" => e \in rebuild.clean
    /\ \A r \in InFlight(e) :
          /\ \A s \in InFlight(e) : s = r
          /\ requests[r].step \in Before => requests[r].seen = events[e]
          /\ requests[r].step \in After => requests[r].to = events[e].status
          /\ requests[r].step \in Before \cup {"notify"} => index[e] = Document(e)
          /\ requests[r].step = "upsert" => requests[r].content = events[e].content
          /\ requests[r].step = "remove" => events[e].status # "PUBLISHED"
    /\ InFlight(e) = {} /\ rebuild.step = "idle" => index[e] = Document(e)

AloneInv == \A e \in Events \ doubtful : Alone(e)

\* What a rebuild still has to insert for an event, and what it has done of it if nothing
\* has touched the event since the load.
RebuildRule(e) ==
    /\ rebuild.step = "idle" => rebuild.docs[e] = NoDoc
    /\ rebuild.step # "idle" /\ e \in rebuild.clean =>
          /\ InFlight(e) = {}
          /\ rebuild.step = "clear" => rebuild.docs[e] = Document(e)
          /\ rebuild.step = "upsert" =>
                \/ rebuild.docs[e] = Document(e) /\ index[e] = NoDoc
                \/ rebuild.docs[e] = NoDoc /\ index[e] = Document(e)

RebuildInv == \A e \in Events : RebuildRule(e)

\* All of it: what each step of the editorial workflow preserves.
IInv ==
    /\ TypeOK /\ FlightInv /\ PrivacyInv /\ JournalTellsStatus
    /\ PublishedIsCoherentUnlessRaced /\ AnnounceInv /\ AloneInv /\ RebuildInv

-----------------------------------------------------------------------------
(* What comments and documents say and the code does not do.               *)

\* ESUB-009: a private event is never diffused in the catalogue.
PrivateNeverInCatalogue ==
    \A e \in Events : Is(e, "PUBLISHED") => events[e].visibility = "PUBLIC"

=============================================================================
