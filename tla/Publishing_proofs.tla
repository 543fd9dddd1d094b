-------------------------- MODULE Publishing_proofs --------------------------
(***************************************************************************)
(* Proofs about Publishing, for every set of events, contents and requests *)
(* in flight: type correctness, the inductive invariant, and the safety    *)
(* properties the runs of the model check on small instances.              *)
(***************************************************************************)
EXTENDS Publishing, TLAPS

-----------------------------------------------------------------------------
(* What the operators do to rows, slots and documents.                     *)

\* A slot is idle or holds a request; a step in Steps tells which.
LEMMA FlightFacts ==
    ASSUME TypeOK, NEW r \in Requests
    PROVE  /\ requests[r] = Idle <=> requests[r].step = "idle"
           /\ requests[r] # Idle => requests[r] \in Flight
           /\ requests[r].step \in Steps => requests[r] # Idle
  BY DEF TypeOK, Flight, Idle, Steps

\* A row that exists is a row.
LEMMA RowFacts ==
    ASSUME TypeOK, NEW e \in Events
    PROVE  /\ Exists(e) <=> events[e] \in Row
           /\ Exists(e) => events[e].status # "NONE"
           /\ ~Exists(e) => events[e].status = "NONE"
  BY DEF TypeOK, Row, NoRow, Exists, EventStatus

LEMMA PublishedFacts ==
    ASSUME NEW row \in Row, NEW to \in EventStatus
    PROVE  /\ Published(row, to) \in Row
           /\ Published(row, to).status = to
           /\ Published(row, to).content = row.content
           /\ Published(row, to).published = (row.published \/ to = "PUBLISHED")
           /\ Published(row, to).visibility = (IF to = "PUBLISHED" THEN "PUBLIC" ELSE row.visibility)
  BY DEF Published, Row

LEMMA NewRowFacts ==
    ASSUME NEW v \in {"PUBLIC", "PRIVATE"}, NEW c \in Contents
    PROVE  /\ NewRow(v, c) \in Row /\ NewRow(v, c) # NoRow
           /\ NewRow(v, c).status = "DRAFT" /\ NewRow(v, c).visibility = v
           /\ NewRow(v, c).published = FALSE /\ NewRow(v, c).content = c
  BY DEF NewRow, Row, NoRow, EventStatus

\* A request starts in an idle slot and changes nothing else.
LEMMA StartFacts ==
    ASSUME TypeOK, NEW r \in Requests, NEW e \in Events, NEW at \in Steps,
           NEW to \in EventStatus, NEW c \in Contents, Exists(e), Start(r, e, at, to, c)
    PROVE  /\ requests[r] = Idle
           /\ requests' \in [Requests -> Flight \cup {Idle}]
           /\ requests'[r].step = at /\ requests'[r].event = e /\ requests'[r].seen = events[e]
           /\ requests'[r].to = to
           /\ requests'[r].first => at = "apply" /\ to = "PUBLISHED" /\ ~events[e].published
           /\ requests'[r] # Idle
           /\ \A s \in Requests \ {r} : requests'[s] = requests[s]
<1> DEFINE isFirst == at = "apply" /\ to = "PUBLISHED" /\ ~events[e].published
           q == [step |-> at, event |-> e, seen |-> events[e], to |-> to, content |-> c,
                 first |-> isFirst]
<1>1. events[e] \in Row
  BY RowFacts
<1>2. isFirst \in BOOLEAN
  OBVIOUS
<1>3. requests[r] = Idle /\ requests' = [requests EXCEPT ![r] = q]
  BY DEF Start
<1> HIDE DEF isFirst
<1>4. /\ q \in Flight /\ q.step = at /\ q.event = e /\ q.seen = events[e] /\ q.to = to
      /\ q.first = isFirst
  BY <1>1, <1>2 DEF Flight
<1>5. q # Idle
  BY DEF Idle, Steps
<1> HIDE DEF q
<1>6. /\ requests' \in [Requests -> Flight \cup {Idle}]
      /\ requests'[r] = q /\ \A s \in Requests \ {r} : requests'[s] = requests[s]
  BY <1>3, <1>4 DEF TypeOK
<1>7. requests'[r].first = isFirst
  BY <1>4, <1>6
<1> QED BY <1>3, <1>4, <1>5, <1>6, <1>7 DEF isFirst

LEMMA OverlapFacts ==
    ASSUME TypeOK, NEW e \in Events, Overlap(e)
    PROVE  /\ doubtful' \subseteq Events
           /\ doubtful \subseteq doubtful' /\ doubtful' \subseteq doubtful \cup {e}
           /\ e \notin doubtful' => InFlight(e) = {} /\ rebuild.step = "idle"
           /\ rebuild' \in [step: {"idle", "clear", "upsert"},
                            docs: [Events -> Contents \cup {NoDoc}], clean: SUBSET Events]
           /\ rebuild'.step = rebuild.step /\ rebuild'.docs = rebuild.docs
           /\ rebuild'.clean = rebuild.clean \ {e}
  BY DEF TypeOK, Overlap

\* A request goes on with its next call.
LEMMA GotoFacts ==
    ASSUME TypeOK, NEW r \in Requests, requests[r] # Idle, NEW at \in Steps, Goto(r, at)
    PROVE  /\ requests' \in [Requests -> Flight \cup {Idle}]
           /\ requests'[r] # Idle /\ requests'[r] \in Flight
           /\ requests'[r].step = at /\ requests'[r].event = requests[r].event
           /\ requests'[r].seen = requests[r].seen /\ requests'[r].to = requests[r].to
           /\ requests'[r].content = requests[r].content /\ requests'[r].first = requests[r].first
           /\ \A s \in Requests \ {r} : requests'[s] = requests[s]
<1>1. requests[r] \in Flight
  BY FlightFacts
<1> DEFINE q == [requests[r] EXCEPT !.step = at]
<1>2. /\ q \in Flight /\ q.step = at /\ q.event = requests[r].event
      /\ q.seen = requests[r].seen /\ q.to = requests[r].to /\ q.content = requests[r].content
      /\ q.first = requests[r].first
  BY <1>1 DEF Flight
<1>3. q # Idle
  BY <1>2 DEF Idle, Steps
<1>4. requests' = [requests EXCEPT ![r] = q]
  BY DEF Goto
<1> HIDE DEF q
<1>5. /\ requests' \in [Requests -> Flight \cup {Idle}]
      /\ requests'[r] = q /\ \A s \in Requests \ {r} : requests'[s] = requests[s]
  BY <1>2, <1>4 DEF TypeOK
<1> QED BY <1>2, <1>3, <1>5

LEMMA FinishFacts ==
    ASSUME TypeOK, NEW r \in Requests, Finish(r)
    PROVE  /\ requests' \in [Requests -> Flight \cup {Idle}]
           /\ requests'[r] = Idle
           /\ \A s \in Requests \ {r} : requests'[s] = requests[s]
  BY DEF TypeOK, Finish

\* What a request in flight refers to.
LEMMA InFlightFacts ==
    ASSUME TypeOK, FlightInv, NEW r \in Requests, requests[r] # Idle
    PROVE  /\ requests[r] \in Flight /\ requests[r].event \in Events
           /\ requests[r].to \in EventStatus /\ requests[r].content \in Contents
           /\ requests[r].seen \in Row /\ requests[r].step \in Steps
           /\ events[requests[r].event] \in Row /\ Exists(requests[r].event)
<1>1. requests[r] \in Flight
  BY FlightFacts
<1>2. Exists(requests[r].event) /\ requests[r].event \in Events
  BY <1>1 DEF FlightInv, FlightRule, Flight
<1> QED BY <1>1, <1>2, RowFacts DEF Flight

\* The row and the journal after a transition is written, and where the request goes.
LEMMA ApplyFacts ==
    ASSUME TypeOK, FlightInv, NEW r \in Requests, ApplyTransition(r)
    PROVE  LET q == requests[r] IN
           /\ q # Idle /\ q.step \in {"apply", "applyPrivate"}
           /\ events' \in [Events -> Row \cup {NoRow}]
           /\ events'[q.event] = Published(events[q.event], q.to)
           /\ \A e \in Events : e # q.event => events'[e] = events[e]
           /\ journal' \in [Events -> Seq(Line)]
           /\ journal'[q.event] = Append(journal[q.event], [from |-> q.seen.status, to |-> q.to])
           /\ \A e \in Events : e # q.event => journal'[e] = journal[e]
           /\ requests' \in [Requests -> Flight \cup {Idle}]
           /\ \A s \in Requests \ {r} : requests'[s] = requests[s]
           /\ q.step = "applyPrivate" => requests'[r] = Idle
           /\ q.step = "apply" =>
                 /\ requests'[r] # Idle
                 /\ requests'[r].step = SyncStep(q.to)
                 /\ requests'[r].event = q.event /\ requests'[r].seen = q.seen
                 /\ requests'[r].to = q.to /\ requests'[r].content = q.content
                 /\ requests'[r].first = q.first
<1> DEFINE q == requests[r]
<1>1. q # Idle /\ q.step \in {"apply", "applyPrivate"}
  BY FlightFacts DEF ApplyTransition, At, Steps
<1>2. /\ q \in Flight /\ q.event \in Events /\ q.to \in EventStatus /\ q.seen \in Row
      /\ events[q.event] \in Row
  BY <1>1, InFlightFacts
<1>3. Published(events[q.event], q.to) \in Row
  BY <1>2, PublishedFacts
<1>4. /\ events' = [events EXCEPT ![q.event] = Published(events[q.event], q.to)]
      /\ journal' = [journal EXCEPT ![q.event] =
                        Append(journal[q.event], [from |-> q.seen.status, to |-> q.to])]
  BY DEF ApplyTransition
<1>5. [from |-> q.seen.status, to |-> q.to] \in Line
  BY <1>2 DEF Row, Line
<1>6. journal[q.event] \in Seq(Line)
  BY <1>2 DEF TypeOK
<1>7. SyncStep(q.to) \in Steps
  BY DEF SyncStep, Steps
<1> DEFINE row == Published(events[q.event], q.to)
           line == [from |-> q.seen.status, to |-> q.to]
<1> HIDE DEF row, line
<1>a. /\ events' \in [Events -> Row \cup {NoRow}] /\ events'[q.event] = row
      /\ \A e \in Events : e # q.event => events'[e] = events[e]
  BY <1>2, <1>3, <1>4 DEF TypeOK, row
<1>b. /\ journal' \in [Events -> Seq(Line)]
      /\ journal'[q.event] = Append(journal[q.event], line)
      /\ \A e \in Events : e # q.event => journal'[e] = journal[e]
  <2>1. Append(journal[q.event], line) \in Seq(Line)
    BY <1>5, <1>6 DEF line
  <2> QED BY <1>2, <1>4, <2>1 DEF TypeOK, line
<1>8. CASE q.step = "apply"
  <2>1. Goto(r, SyncStep(q.to))
    BY <1>8 DEF ApplyTransition, At
  <2>2. /\ requests' \in [Requests -> Flight \cup {Idle}]
        /\ requests'[r] # Idle /\ requests'[r].step = SyncStep(q.to)
        /\ requests'[r].event = q.event /\ requests'[r].seen = q.seen
        /\ requests'[r].to = q.to /\ requests'[r].content = q.content
        /\ requests'[r].first = q.first
        /\ \A s \in Requests \ {r} : requests'[s] = requests[s]
    BY <1>1, <1>7, <2>1, GotoFacts
  <2> QED BY <1>1, <1>a, <1>b, <1>8, <2>2 DEF row, line
<1>9. CASE q.step = "applyPrivate"
  <2>1. Finish(r)
    BY <1>9 DEF ApplyTransition, At
  <2>2. /\ requests' \in [Requests -> Flight \cup {Idle}] /\ requests'[r] = Idle
        /\ \A s \in Requests \ {r} : requests'[s] = requests[s]
    BY <2>1, FinishFacts
  <2> QED BY <1>1, <1>a, <1>b, <1>9, <2>2 DEF row, line
<1> QED BY <1>1, <1>8, <1>9

\* The row after a correction.
LEMMA UpdateFacts ==
    ASSUME TypeOK, FlightInv, NEW r \in Requests, UpdateWithRefs(r)
    PROVE  LET q == requests[r] IN
           /\ q # Idle /\ q.step = "update"
           /\ events' \in [Events -> Row \cup {NoRow}]
           /\ events'[q.event] \in Row
           /\ events'[q.event].status = events[q.event].status
           /\ events'[q.event].visibility = events[q.event].visibility
           /\ events'[q.event].published = events[q.event].published
           /\ events'[q.event].content = q.content
           /\ \A e \in Events : e # q.event => events'[e] = events[e]
           /\ requests' \in [Requests -> Flight \cup {Idle}]
           /\ requests'[r] = Idle
           /\ \A s \in Requests \ {r} : requests'[s] = requests[s]
<1> DEFINE q == requests[r]
<1>1. q # Idle /\ q.step = "update"
  BY FlightFacts DEF UpdateWithRefs, At, Steps
<1>2. q.event \in Events /\ q.content \in Contents /\ events[q.event] \in Row
  BY <1>1, InFlightFacts
<1> DEFINE row == [events[q.event] EXCEPT !.content = q.content]
<1>3. /\ row \in Row /\ row.status = events[q.event].status
      /\ row.visibility = events[q.event].visibility
      /\ row.published = events[q.event].published /\ row.content = q.content
  BY <1>2 DEF Row
<1>4. events' = [events EXCEPT ![q.event] = row]
  BY DEF UpdateWithRefs
<1>5. /\ requests' \in [Requests -> Flight \cup {Idle}] /\ requests'[r] = Idle
      /\ \A s \in Requests \ {r} : requests'[s] = requests[s]
  BY FinishFacts DEF UpdateWithRefs
<1> HIDE DEF row
<1>6. /\ events' \in [Events -> Row \cup {NoRow}] /\ events'[q.event] = row
      /\ \A e \in Events : e # q.event => events'[e] = events[e]
  BY <1>2, <1>3, <1>4 DEF TypeOK
<1> QED BY <1>1, <1>3, <1>5, <1>6

\* The row after a decision of moderation, and where the request goes.
LEMMA RuleFacts ==
    ASSUME TypeOK, FlightInv, NEW r \in Requests, SetEventStatus(r)
    PROVE  LET q == requests[r] IN
           /\ q # Idle /\ q.step = "rule"
           /\ events' \in [Events -> Row \cup {NoRow}]
           /\ events'[q.event] \in Row
           /\ events'[q.event].status = q.to
           /\ events'[q.event].visibility = events[q.event].visibility
           /\ events'[q.event].published = events[q.event].published
           /\ events'[q.event].content = events[q.event].content
           /\ \A e \in Events : e # q.event => events'[e] = events[e]
           /\ q.event \in ruled'
           /\ q.to = "PUBLISHED" => q.event \in restored'
           /\ requests' \in [Requests -> Flight \cup {Idle}]
           /\ requests'[r] # Idle /\ requests'[r].step = SyncStep(q.to)
           /\ requests'[r].event = q.event /\ requests'[r].seen = q.seen
           /\ requests'[r].to = q.to /\ requests'[r].first = q.first
           /\ \A s \in Requests \ {r} : requests'[s] = requests[s]
<1> DEFINE q == requests[r]
<1>1. q # Idle /\ q.step = "rule"
  BY FlightFacts DEF SetEventStatus, At, Steps
<1>2. q.event \in Events /\ q.to \in EventStatus /\ events[q.event] \in Row
  BY <1>1, InFlightFacts
<1> DEFINE row == [events[q.event] EXCEPT !.status = q.to]
<1>3. /\ row \in Row /\ row.status = q.to
      /\ row.visibility = events[q.event].visibility
      /\ row.published = events[q.event].published /\ row.content = events[q.event].content
  BY <1>2 DEF Row
<1>4. /\ events' = [events EXCEPT ![q.event] = row]
      /\ q.event \in ruled' /\ (q.to = "PUBLISHED" => q.event \in restored')
  BY DEF SetEventStatus
<1>5. SyncStep(q.to) \in Steps /\ Goto(r, SyncStep(q.to))
  BY DEF SyncStep, Steps, SetEventStatus
<1>6. /\ requests' \in [Requests -> Flight \cup {Idle}]
      /\ requests'[r] # Idle /\ requests'[r].step = SyncStep(q.to)
      /\ requests'[r].event = q.event /\ requests'[r].seen = q.seen
      /\ requests'[r].to = q.to /\ requests'[r].first = q.first
      /\ \A s \in Requests \ {r} : requests'[s] = requests[s]
  BY <1>1, <1>5, GotoFacts
<1> HIDE DEF row
<1>7. /\ events' \in [Events -> Row \cup {NoRow}] /\ events'[q.event] = row
      /\ \A e \in Events : e # q.event => events'[e] = events[e]
  BY <1>2, <1>3, <1>4 DEF TypeOK
<1> QED BY <1>1, <1>3, <1>4, <1>6, <1>7

\* What the index call loads.
LEMMA LoadFacts ==
    ASSUME TypeOK, FlightInv, NEW r \in Requests, IndexLoad(r)
    PROVE  LET q == requests[r] IN
           /\ q # Idle /\ q.step = "load"
           /\ requests' \in [Requests -> Flight \cup {Idle}]
           /\ requests'[r] # Idle
           /\ requests'[r].step = (IF events[q.event].status = "PUBLISHED" THEN "upsert" ELSE "remove")
           /\ requests'[r].event = q.event /\ requests'[r].seen = q.seen /\ requests'[r].to = q.to
           /\ requests'[r].content = events[q.event].content /\ requests'[r].first = q.first
           /\ \A s \in Requests \ {r} : requests'[s] = requests[s]
<1> DEFINE q == requests[r]
           at == IF events[q.event].status = "PUBLISHED" THEN "upsert" ELSE "remove"
           next == [q EXCEPT !.step = at, !.content = events[q.event].content]
<1>1. q # Idle /\ q.step = "load"
  BY FlightFacts DEF IndexLoad, At, Steps
<1>2. q \in Flight /\ events[q.event] \in Row
  BY <1>1, InFlightFacts
<1>3. at \in Steps /\ at # "idle"
  BY DEF Steps
<1> HIDE DEF at
<1>4. /\ next \in Flight /\ next.step = at /\ next.event = q.event /\ next.seen = q.seen
      /\ next.to = q.to /\ next.content = events[q.event].content /\ next.first = q.first
  BY <1>2, <1>3 DEF Flight, Row
<1>5. next # Idle
  BY <1>3, <1>4 DEF Idle
<1>6. requests' = [requests EXCEPT ![r] = next]
  BY DEF IndexLoad, at
<1> HIDE DEF next
<1>7. /\ requests' \in [Requests -> Flight \cup {Idle}] /\ requests'[r] = next
      /\ \A s \in Requests \ {r} : requests'[s] = requests[s]
  BY <1>4, <1>6 DEF TypeOK
<1> QED BY <1>1, <1>4, <1>5, <1>7 DEF at

\* The journal with the line of a creation.
LEMMA CreatedFacts ==
    ASSUME TypeOK, NEW e \in Events, journal' = [journal EXCEPT ![e] = Append(@, Created)]
    PROVE  /\ journal' \in [Events -> Seq(Line)]
           /\ journal'[e] = Append(journal[e], Created)
           /\ \A d \in Events : d # e => journal'[d] = journal[d]
<1>1. Created \in Line
  BY DEF Created, Line, EventStatus
<1>2. journal \in [Events -> Seq(Line)] /\ Append(journal[e], Created) \in Seq(Line)
  BY <1>1 DEF TypeOK
<1> QED BY <1>2

\* The row of a creation.
LEMMA CreateFacts ==
    ASSUME TypeOK, NEW r \in Requests, NEW e \in Events, NEW v \in {"PUBLIC", "PRIVATE"},
           NEW c \in Contents, CreateManual(r, e, v, c)
    PROVE  /\ ~Exists(e)
           /\ events' \in [Events -> Row \cup {NoRow}]
           /\ events'[e] = NewRow(v, c)
           /\ \A d \in Events : d # e => events'[d] = events[d]
<1> DEFINE row == NewRow(v, c)
<1>1. row \in Row /\ events' = [events EXCEPT ![e] = row]
  BY NewRowFacts DEF CreateManual
<1> HIDE DEF row
<1>2. /\ events' \in [Events -> Row \cup {NoRow}] /\ events'[e] = row
      /\ \A d \in Events : d # e => events'[d] = events[d]
  BY <1>1 DEF TypeOK
<1> QED BY <1>2 DEF row, CreateManual

\* The slot of a creation.
LEMMA CreateSlot ==
    ASSUME TypeOK, NEW r \in Requests, NEW e \in Events, NEW v \in {"PUBLIC", "PRIVATE"},
           NEW c \in Contents, CreateManual(r, e, v, c)
    PROVE  /\ requests[r] = Idle
           /\ requests' \in [Requests -> Flight \cup {Idle}]
           /\ requests'[r] = [step |-> "record", event |-> e, seen |-> NewRow(v, c),
                              to |-> "DRAFT", content |-> c, first |-> FALSE]
           /\ requests'[r] # Idle
           /\ \A s \in Requests \ {r} : requests'[s] = requests[s]
<1> DEFINE q == [step |-> "record", event |-> e, seen |-> NewRow(v, c), to |-> "DRAFT",
                 content |-> c, first |-> FALSE]
<1>1. q \in Flight /\ q # Idle
  BY NewRowFacts DEF Flight, Steps, EventStatus, Idle
<1>2. requests[r] = Idle /\ requests' = [requests EXCEPT ![r] = q]
  BY DEF CreateManual
<1> HIDE DEF q
<1>3. /\ requests' \in [Requests -> Flight \cup {Idle}] /\ requests'[r] = q
      /\ \A s \in Requests \ {r} : requests'[s] = requests[s]
  BY <1>1, <1>2 DEF TypeOK
<1> QED BY <1>1, <1>2, <1>3 DEF q

\* A request that reads a row and decides: it takes a slot and remembers the row.
LEMMA BeginFacts ==
    ASSUME TypeOK, NEW r \in Requests, NEW e \in Events,
           (\E c \in Contents : Update(r, e, c))
              \/ (\E to \in EventStatus : Transition(r, e, to) \/ TransitionPrivate(r, e, to)
                                               \/ Decide(r, e, to))
    PROVE  /\ Exists(e)
           /\ UNCHANGED <<events, personal, journal, ruled, restored, index, firstPublished, raced, faults>>
           /\ \E at \in {"apply", "applyPrivate", "update", "rule"}, to \in EventStatus, c \in Contents :
                 /\ Start(r, e, at, to, c)
                 /\ at = "apply" => to \in ALLOWED[events[e].status]
                 /\ at = "applyPrivate" =>
                       events[e].visibility = "PRIVATE" /\ to # "PUBLISHED"
                          /\ to \in ALLOWED[events[e].status]
                 /\ at = "apply" /\ to = "PUBLISHED" => ValidatePublishable(events[e])
                 /\ at = "update" => events[e].status \in EDITABLE_STATUSES
<1> DEFINE Rules(at, to) ==
              /\ at = "apply" => to \in ALLOWED[events[e].status]
              /\ at = "applyPrivate" =>
                    events[e].visibility = "PRIVATE" /\ to # "PUBLISHED"
                       /\ to \in ALLOWED[events[e].status]
              /\ at = "apply" /\ to = "PUBLISHED" => ValidatePublishable(events[e])
              /\ at = "update" => events[e].status \in EDITABLE_STATUSES
           Same == UNCHANGED <<events, personal, journal, ruled, restored, index, firstPublished, raced, faults>>
<1>1. ASSUME NEW c \in Contents, Update(r, e, c)
      PROVE  Exists(e) /\ Same /\ events[e].status \in EventStatus
             /\ Start(r, e, "update", events[e].status, c) /\ Rules("update", events[e].status)
  BY <1>1, RowFacts DEF Update, Row, rowVars, rulings
<1>2. ASSUME NEW to \in EventStatus, Transition(r, e, to)
      PROVE  Exists(e) /\ Same /\ events[e].content \in Contents
             /\ Start(r, e, "apply", to, events[e].content) /\ Rules("apply", to)
  BY <1>2, RowFacts DEF Transition, Row, rowVars, rulings
<1>3. ASSUME NEW to \in EventStatus, TransitionPrivate(r, e, to)
      PROVE  Exists(e) /\ Same /\ events[e].content \in Contents
             /\ Start(r, e, "applyPrivate", to, events[e].content) /\ Rules("applyPrivate", to)
  <2>1. events[e] \in Row /\ events[e].status \in EventStatus
    BY <1>3, RowFacts DEF TransitionPrivate, Decide, Row
  <2>2. to # "PUBLISHED" /\ to \in ALLOWED[events[e].status]
    BY <1>3, <2>1 DEF TransitionPrivate, Decide, ALLOWED, EventStatus
  <2> QED BY <1>3, <2>1, <2>2 DEF TransitionPrivate, Decide, Row, rowVars, rulings
<1>4. ASSUME NEW to \in EventStatus, Decide(r, e, to)
      PROVE  Exists(e) /\ Same /\ events[e].content \in Contents
             /\ Start(r, e, "rule", to, events[e].content) /\ Rules("rule", to)
  BY <1>4, RowFacts DEF Decide, Row, rowVars, rulings
<1> HIDE DEF Rules
<1>5. Exists(e) /\ Same
  BY <1>1, <1>2, <1>3, <1>4
<1>6. \E at \in {"apply", "applyPrivate", "update", "rule"}, to \in EventStatus, c \in Contents :
         Start(r, e, at, to, c) /\ Rules(at, to)
  BY <1>1, <1>2, <1>3, <1>4
<1> QED BY <1>5, <1>6 DEF Rules

-----------------------------------------------------------------------------
(* Type correctness is preserved where requests refer to existing rows.    *)

LEMMA TypeStep ==
    ASSUME TypeOK, FlightInv, [Next]_vars
    PROVE  TypeOK'
<1> USE DEF rowVars, rulings
<1>1. ASSUME NEW r \in Requests, NEW e \in Events, NEW v \in {"PUBLIC", "PRIVATE"},
             NEW c \in Contents, CreateManual(r, e, v, c)
      PROVE  TypeOK'
  <2>1. /\ events' \in [Events -> Row \cup {NoRow}]
        /\ requests' \in [Requests -> Flight \cup {Idle}]
    BY <1>1, CreateFacts, CreateSlot
  <2>2. /\ doubtful' \subseteq Events
        /\ rebuild' \in [step: {"idle", "clear", "upsert"},
                         docs: [Events -> Contents \cup {NoDoc}], clean: SUBSET Events]
    BY <1>1, OverlapFacts DEF CreateManual
  <2>3. /\ UNCHANGED <<journal, ruled, restored, index, firstPublished, raced, faults>>
        /\ served' = served + 1 /\ personal' \subseteq Events
    BY <1>1 DEF CreateManual, Remember, TypeOK
  <2>4. served' \in Nat
    BY <2>3 DEF TypeOK
  <2> QED BY <2>1, <2>2, <2>3, <2>4 DEF TypeOK
<1>2. ASSUME NEW r \in Requests, NEW e \in Events,
             (\E c \in Contents : Update(r, e, c))
                \/ (\E to \in EventStatus : Transition(r, e, to) \/ TransitionPrivate(r, e, to)
                                               \/ Decide(r, e, to))
      PROVE  TypeOK'
  <2>1. /\ Exists(e)
        /\ UNCHANGED <<events, personal, journal, ruled, restored, index, firstPublished, raced, faults>>
        /\ \E at \in {"apply", "applyPrivate", "update", "rule"}, to \in EventStatus, c \in Contents :
              Start(r, e, at, to, c)
    BY <1>2, BeginFacts
  <2>2. PICK at \in {"apply", "applyPrivate", "update", "rule"}, to \in EventStatus, c \in Contents :
           Start(r, e, at, to, c)
    BY <2>1
  <2>3. requests' \in [Requests -> Flight \cup {Idle}]
    BY <2>1, <2>2, StartFacts DEF Steps
  <2>4. /\ doubtful' \subseteq Events
        /\ rebuild' \in [step: {"idle", "clear", "upsert"},
                         docs: [Events -> Contents \cup {NoDoc}], clean: SUBSET Events]
    BY <2>2, OverlapFacts DEF Start
  <2>5. served' \in Nat
    BY <2>2 DEF Start, TypeOK
  <2> QED BY <2>1, <2>3, <2>4, <2>5 DEF TypeOK
<1>3. ASSUME NEW r \in Requests, RecordStatusEvent(r) PROVE TypeOK'
  <2>1. requests[r].event \in Events
    BY <1>3, FlightFacts, InFlightFacts DEF RecordStatusEvent, At, Steps
  <2>2. requests' \in [Requests -> Flight \cup {Idle}]
    BY <1>3, FinishFacts DEF RecordStatusEvent
  <2>3. journal' \in [Events -> Seq(Line)]
    BY <1>3, <2>1, CreatedFacts DEF RecordStatusEvent
  <2> QED BY <1>3, <2>2, <2>3 DEF RecordStatusEvent, TypeOK
<1>4. ASSUME NEW r \in Requests, UpdateWithRefs(r) PROVE TypeOK'
  <2>1. /\ requests[r] # Idle /\ events' \in [Events -> Row \cup {NoRow}]
        /\ requests' \in [Requests -> Flight \cup {Idle}]
    BY <1>4, UpdateFacts
  <2>2. raced' \subseteq Events
    BY <1>4, <2>1, InFlightFacts DEF UpdateWithRefs, Race, TypeOK
  <2> QED BY <1>4, <2>1, <2>2 DEF UpdateWithRefs, TypeOK
<1>5. ASSUME NEW r \in Requests, ApplyTransition(r) PROVE TypeOK'
  <2>1. /\ requests[r] # Idle /\ events' \in [Events -> Row \cup {NoRow}]
        /\ journal' \in [Events -> Seq(Line)]
        /\ requests' \in [Requests -> Flight \cup {Idle}]
    BY <1>5, ApplyFacts
  <2>2. raced' \subseteq Events
    BY <1>5, <2>1, InFlightFacts DEF ApplyTransition, Race, SetEventStatus, TypeOK
  <2>3. ruled' \subseteq Events /\ doubtful' \subseteq Events
    BY <1>5, <2>1, InFlightFacts DEF ApplyTransition, Unsynced, TypeOK
  <2>4. UNCHANGED <<personal, restored, index, rebuild, firstPublished, served, faults>>
    BY <1>5 DEF ApplyTransition
  <2>5. /\ personal' \subseteq Events /\ restored' \subseteq Events
        /\ index' \in [Events -> Contents \cup {NoDoc}]
        /\ firstPublished' \in [Events -> Nat] /\ served' \in Nat /\ faults' \in Nat
    BY <2>4 DEF TypeOK
  <2>6. rebuild' \in [step: {"idle", "clear", "upsert"},
                     docs: [Events -> Contents \cup {NoDoc}], clean: SUBSET Events]
    BY <2>4 DEF TypeOK
  <2> HIDE DEF Flight, Row
  <2> QED BY <2>1, <2>2, <2>3, <2>5, <2>6 DEF TypeOK
<1>5a. ASSUME NEW r \in Requests, SetEventStatus(r) PROVE TypeOK'
  <2>1. /\ requests[r] # Idle /\ events' \in [Events -> Row \cup {NoRow}]
        /\ requests' \in [Requests -> Flight \cup {Idle}]
    BY <1>5a, RuleFacts
  <2>2. ruled' \subseteq Events /\ restored' \subseteq Events
    BY <1>5a, <2>1, InFlightFacts DEF SetEventStatus, TypeOK
  <2>3. UNCHANGED <<personal, journal, index, rebuild, firstPublished, raced, doubtful, served, faults>>
    BY <1>5a DEF SetEventStatus
  <2> QED BY <2>1, <2>2, <2>3 DEF TypeOK
<1>6. ASSUME NEW r \in Requests, IndexLoad(r) PROVE TypeOK'
  BY <1>6, LoadFacts DEF IndexLoad, TypeOK
<1>7. ASSUME NEW r \in Requests, IndexUpsert(r) PROVE TypeOK'
  <2>1. requests[r] # Idle /\ requests[r].content \in Contents
    BY <1>7, FlightFacts, InFlightFacts DEF IndexUpsert, At, Steps
  <2>2. requests' \in [Requests -> Flight \cup {Idle}]
    BY <1>7, <2>1, GotoFacts DEF IndexUpsert, Steps
  <2> QED BY <1>7, <2>1, <2>2 DEF IndexUpsert, TypeOK
<1>8. ASSUME NEW r \in Requests, IndexRemove(r) PROVE TypeOK'
  <2>1. requests[r] # Idle
    BY <1>8, FlightFacts DEF IndexRemove, At, Steps
  <2>2. requests' \in [Requests -> Flight \cup {Idle}]
    BY <1>8, <2>1, GotoFacts DEF IndexRemove, Steps
  <2> QED BY <1>8, <2>2 DEF IndexRemove, TypeOK
<1>9. ASSUME NEW r \in Requests, IndexFails(r) PROVE TypeOK'
  <2>1. requests[r] # Idle /\ requests[r].event \in Events
    BY <1>9, FlightFacts, InFlightFacts DEF IndexFails, Steps
  <2>2. requests' \in [Requests -> Flight \cup {Idle}]
    BY <1>9, <2>1, GotoFacts DEF IndexFails, Steps
  <2>3. faults' \in Nat
    BY <1>9 DEF IndexFails, TypeOK
  <2> QED BY <1>9, <2>1, <2>2, <2>3 DEF IndexFails, TypeOK
<1>10. ASSUME NEW r \in Requests, Notify(r) PROVE TypeOK'
  <2>1. requests' \in [Requests -> Flight \cup {Idle}]
    BY <1>10, FinishFacts DEF Notify
  <2>2. firstPublished' \in [Events -> Nat]
    <3>1. requests[r].event \in Events
      BY <1>10, FlightFacts, InFlightFacts DEF Notify, At, Steps
    <3>2. CASE firstPublished' = firstPublished
      BY <3>2 DEF TypeOK
    <3>3. CASE firstPublished' = [firstPublished EXCEPT ![requests[r].event] = @ + 1]
      <4>1. firstPublished[requests[r].event] + 1 \in Nat
        BY <3>1 DEF TypeOK
      <4> QED BY <3>3, <4>1 DEF TypeOK
    <3> QED BY <1>10, <3>2, <3>3 DEF Notify
  <2> QED BY <1>10, <2>1, <2>2 DEF Notify, TypeOK
<1>11. ASSUME NEW r \in Requests, LoseRequest(r) PROVE TypeOK'
  <2>1. requests[r].event \in Events
    BY <1>11, InFlightFacts DEF LoseRequest
  <2>2. requests' \in [Requests -> Flight \cup {Idle}]
    BY <1>11, FinishFacts DEF LoseRequest
  <2>3. faults' \in Nat
    BY <1>11 DEF LoseRequest, TypeOK
  <2> QED BY <1>11, <2>1, <2>2, <2>3 DEF LoseRequest, TypeOK
<1>12. ASSUME NEW e \in Events, NEW v \in {"PUBLIC", "PRIVATE"}, NEW c \in Contents,
              CreateFromCandidate(e, v, c)
       PROVE  TypeOK'
  <2> DEFINE row == NewRow(v, c)
  <2>1. row \in Row /\ events' = [events EXCEPT ![e] = row]
    BY <1>12, NewRowFacts DEF CreateFromCandidate
  <2> HIDE DEF row
  <2>2. events' \in [Events -> Row \cup {NoRow}]
    BY <2>1 DEF TypeOK
  <2>3. served' \in Nat
    BY <1>12 DEF CreateFromCandidate, TypeOK
  <2>4. journal' \in [Events -> Seq(Line)]
    BY <1>12, CreatedFacts DEF CreateFromCandidate
  <2>5. personal' \subseteq Events
    BY <1>12 DEF CreateFromCandidate, Remember, TypeOK
  <2> QED BY <1>12, <2>2, <2>3, <2>4, <2>5 DEF CreateFromCandidate, TypeOK
<1>13. CASE RebuildLoad
  <2>1. \A e \in Events : events[e].status = "PUBLISHED" => events[e].content \in Contents
    BY RowFacts DEF Row
  <2>2. served' \in Nat
    BY <1>13 DEF RebuildLoad, TypeOK
  <2> QED BY <1>13, <2>1, <2>2 DEF RebuildLoad, TypeOK
<1>14. CASE RebuildClear
  BY <1>14 DEF RebuildClear, NoDocs, TypeOK
<1>15. ASSUME NEW e \in Events, RebuildUpsert(e) PROVE TypeOK'
  BY <1>15 DEF RebuildUpsert, TypeOK
<1>16. CASE RebuildDone
  BY <1>16 DEF RebuildDone, NoDocs, TypeOK
<1>17. CASE RebuildFails
  <2>1. faults' \in Nat
    BY <1>17 DEF RebuildFails, TypeOK
  <2> QED BY <1>17, <2>1 DEF RebuildFails, NoDocs, TypeOK
<1>18. CASE UNCHANGED vars
  BY <1>18 DEF vars, TypeOK
<1> QED
  BY <1>1, <1>2, <1>3, <1>4, <1>5, <1>5a, <1>6, <1>7, <1>8, <1>9, <1>10, <1>11, <1>12, <1>13,
     <1>14, <1>15, <1>16, <1>17, <1>18 DEF Next, Begin, Continue, Rebuild

-----------------------------------------------------------------------------
(* Rows are never lost and never change visibility.                        *)

LEMMA RowsKept ==
    ASSUME TypeOK, FlightInv, [Next]_vars, NEW e \in Events, Exists(e)
    PROVE  Exists(e)' /\ events'[e].visibility = events[e].visibility
<1>0. events[e] \in Row /\ NoRow \notin Row
  BY RowFacts DEF Row, NoRow, EventStatus
<1>1. ASSUME NEW r \in Requests, NEW d \in Events, NEW v \in {"PUBLIC", "PRIVATE"},
             NEW c \in Contents, CreateManual(r, d, v, c)
      PROVE  events'[e] = events[e]
  BY <1>1, CreateFacts
<1>2. ASSUME NEW d \in Events, NEW v \in {"PUBLIC", "PRIVATE"}, NEW c \in Contents,
             CreateFromCandidate(d, v, c)
      PROVE  events'[e] = events[e]
  BY <1>2 DEF CreateFromCandidate, TypeOK
<1>3. ASSUME NEW r \in Requests, UpdateWithRefs(r)
      PROVE  \/ events'[e] = events[e]
             \/ events'[e] \in Row /\ events'[e].visibility = events[e].visibility
  BY <1>3, UpdateFacts
<1>4. ASSUME NEW r \in Requests, ApplyTransition(r)
      PROVE  \/ events'[e] = events[e]
             \/ events'[e] \in Row /\ events'[e].visibility = events[e].visibility
  <2> DEFINE q == requests[r]
  <2>1. /\ q # Idle /\ q.step \in {"apply", "applyPrivate"}
        /\ events'[q.event] = Published(events[q.event], q.to)
        /\ \A d \in Events : d # q.event => events'[d] = events[d]
    BY <1>4, ApplyFacts
  <2>2. q.to \in EventStatus
    BY <2>1, InFlightFacts
  <2>3. CASE e # q.event
    BY <2>1, <2>3
  <2>4. CASE e = q.event
    <3>1. FlightRule(q)
      BY <2>1 DEF FlightInv
    <3>2. q.to = "PUBLISHED" => events[e].visibility = "PUBLIC"
      BY <2>1, <2>4, <3>1 DEF FlightRule, ValidatePublishable
    <3> QED BY <1>0, <2>1, <2>2, <2>4, <3>2, PublishedFacts
  <2> QED BY <2>3, <2>4
<1>5. ASSUME NEW r \in Requests, SetEventStatus(r)
      PROVE  \/ events'[e] = events[e]
             \/ events'[e] \in Row /\ events'[e].visibility = events[e].visibility
  BY <1>5, RuleFacts
<1>6. CASE UNCHANGED events
  BY <1>6 DEF Exists
<1>7. \/ events'[e] = events[e]
      \/ events'[e] \in Row /\ events'[e].visibility = events[e].visibility
  BY <1>1, <1>2, <1>3, <1>4, <1>5, <1>6
     DEF Next, Begin, Continue, Rebuild, vars, rowVars, rulings, Update, Transition,
         TransitionPrivate, Decide, RecordStatusEvent, IndexLoad, IndexUpsert, IndexRemove,
         IndexFails, Notify, LoseRequest, RebuildLoad, RebuildClear, RebuildUpsert, RebuildDone,
         RebuildFails
<1> QED BY <1>0, <1>7 DEF Exists

\* What a request in flight relies on survives the steps of the others.
LEMMA RuleKept ==
    ASSUME TypeOK, FlightInv, [Next]_vars, NEW s \in Requests, requests[s] # Idle,
           NEW q, q.event = requests[s].event, q.seen = requests[s].seen
    PROVE  Exists(q.event)' /\ events'[q.event].visibility = q.seen.visibility
<1>1. FlightRule(requests[s]) /\ requests[s].event \in Events
  BY InFlightFacts DEF FlightInv
<1> QED BY <1>1, RowsKept DEF FlightRule

\* A request changes no slot but its own.
LEMMA OthersKept ==
    ASSUME TypeOK, FlightInv, NEW r \in Requests, NEW s \in Requests \ {r},
           (\E e \in Events : Begin(r, e)) \/ Continue(r)
    PROVE  requests'[s] = requests[s]
<1>1. ASSUME NEW e \in Events, NEW v \in {"PUBLIC", "PRIVATE"}, NEW c \in Contents,
             CreateManual(r, e, v, c)
      PROVE  requests'[s] = requests[s]
  <2>1. \A t \in Requests \ {r} : requests'[t] = requests[t]
    BY <1>1, CreateSlot
  <2> QED BY <2>1
<1>2. ASSUME NEW e \in Events,
             (\E c \in Contents : Update(r, e, c))
                \/ (\E to \in EventStatus : Transition(r, e, to) \/ TransitionPrivate(r, e, to)
                                               \/ Decide(r, e, to))
      PROVE  requests'[s] = requests[s]
  BY <1>2 DEF Update, Transition, TransitionPrivate, Decide, Start, TypeOK
<1>3. CASE ApplyTransition(r)
  BY <1>3, ApplyFacts
<1>3a. CASE SetEventStatus(r)
  BY <1>3a, RuleFacts
<1>4. CASE IndexLoad(r)
  BY <1>4, LoadFacts
<1>5. CASE IndexUpsert(r) \/ IndexRemove(r) \/ IndexFails(r)
  BY <1>5 DEF IndexUpsert, IndexRemove, IndexFails, Goto, TypeOK
<1>6. CASE RecordStatusEvent(r) \/ UpdateWithRefs(r) \/ Notify(r) \/ LoseRequest(r)
  BY <1>6, FinishFacts DEF RecordStatusEvent, UpdateWithRefs, Notify, LoseRequest
<1> QED BY <1>1, <1>2, <1>3, <1>3a, <1>4, <1>5, <1>6 DEF Begin, Continue

\* What moderation has restored stays known.
LEMMA RestoredGrows == ASSUME [Next]_vars PROVE restored \subseteq restored'
  BY DEF Next, Begin, Continue, Rebuild, vars, rowVars, rulings, CreateManual,
         CreateFromCandidate, Update, Transition, TransitionPrivate, Decide, RecordStatusEvent,
         UpdateWithRefs, ApplyTransition, SetEventStatus, IndexLoad, IndexUpsert, IndexRemove,
         IndexFails, Notify, LoseRequest, RebuildLoad, RebuildClear, RebuildUpsert, RebuildDone,
         RebuildFails

\* The status moderation was the last to write is forgotten by a transition only.
LEMMA RuledShrinks ==
    ASSUME [Next]_vars, NEW e \in Events, e \in ruled, e \notin ruled'
    PROVE  \E r \in Requests : ApplyTransition(r) /\ requests[r].event = e
  BY DEF Next, Begin, Continue, Rebuild, vars, rowVars, rulings, CreateManual,
         CreateFromCandidate, Update, Transition, TransitionPrivate, Decide, RecordStatusEvent,
         UpdateWithRefs, ApplyTransition, SetEventStatus, IndexLoad, IndexUpsert, IndexRemove,
         IndexFails, Notify, LoseRequest, RebuildLoad, RebuildClear, RebuildUpsert, RebuildDone,
         RebuildFails

LEMMA FlightStep ==
    ASSUME TypeOK, FlightInv, [Next]_vars
    PROVE  FlightInv'
<1> SUFFICES ASSUME NEW s \in Requests, requests'[s] # Idle
             PROVE  FlightRule(requests[s])'
  BY DEF FlightInv
<1>0. CASE requests'[s] = requests[s]
  <2>1. FlightRule(requests[s])
    BY <1>0 DEF FlightInv
  <2>2. /\ Exists(requests[s].event)'
        /\ events'[requests[s].event].visibility = requests[s].seen.visibility
    BY <1>0, RuleKept
  <2> QED BY <1>0, <2>1, <2>2, RestoredGrows DEF FlightRule
<1>1. ASSUME NEW r \in Requests, NEW e \in Events, NEW v \in {"PUBLIC", "PRIVATE"},
             NEW c \in Contents, CreateManual(r, e, v, c), s = r
      PROVE  FlightRule(requests[s])'
  <2>1. /\ events'[e] = NewRow(v, c)
        /\ requests'[r] = [step |-> "record", event |-> e, seen |-> NewRow(v, c),
                           to |-> "DRAFT", content |-> c, first |-> FALSE]
    BY <1>1, CreateFacts, CreateSlot
  <2>2. NewRow(v, c) # NoRow
    BY NewRowFacts
  <2> QED BY <1>1, <2>1, <2>2 DEF FlightRule, Exists, After
<1>2. ASSUME NEW r \in Requests, NEW e \in Events,
             (\E c \in Contents : Update(r, e, c))
                \/ (\E to \in EventStatus : Transition(r, e, to) \/ TransitionPrivate(r, e, to)
                                               \/ Decide(r, e, to)),
             s = r
      PROVE  FlightRule(requests[s])'
  <2>1. PICK at \in {"apply", "applyPrivate", "update", "rule"}, to \in EventStatus, c \in Contents :
           /\ Start(r, e, at, to, c)
           /\ at = "apply" => to \in ALLOWED[events[e].status]
           /\ at = "applyPrivate" =>
                 events[e].visibility = "PRIVATE" /\ to # "PUBLISHED"
                    /\ to \in ALLOWED[events[e].status]
           /\ at = "apply" /\ to = "PUBLISHED" => ValidatePublishable(events[e])
           /\ at = "update" => events[e].status \in EDITABLE_STATUSES
    BY <1>2, BeginFacts
  <2>2. Exists(e) /\ UNCHANGED events
    BY <1>2, BeginFacts
  <2>3. /\ requests'[s].step = at /\ requests'[s].event = e /\ requests'[s].seen = events[e]
        /\ requests'[s].to = to
        /\ requests'[s].first => at = "apply" /\ to = "PUBLISHED" /\ ~events[e].published
    BY <1>2, <2>1, <2>2, StartFacts DEF Steps
  <2>4. Exists(e)' /\ events'[e] = events[e] /\ requests'[s].step \notin After
    BY <2>2, <2>3 DEF Exists, After
  <2>5. requests'[s].first => events[e].visibility = "PUBLIC"
    BY <2>1, <2>3 DEF ValidatePublishable
  <2> QED BY <2>1, <2>3, <2>4, <2>5 DEF FlightRule
<1>3. ASSUME NEW r \in Requests, ApplyTransition(r), s = r
      PROVE  FlightRule(requests[s])'
  <2> DEFINE q == requests[s]
  <2>1. /\ q # Idle /\ q.step = "apply" /\ requests'[s].step = SyncStep(q.to)
        /\ requests'[s].event = q.event /\ requests'[s].seen = q.seen /\ requests'[s].to = q.to
        /\ requests'[s].first = q.first
    BY <1>3, ApplyFacts
  <2>2. FlightRule(q)
    BY <2>1 DEF FlightInv
  <2>3. Exists(requests[s].event)' /\ events'[q.event].visibility = q.seen.visibility
    BY <2>1, RuleKept
  <2> QED BY <2>1, <2>2, <2>3 DEF FlightRule, SyncStep, ValidatePublishable, After
<1>3a. ASSUME NEW r \in Requests, SetEventStatus(r), s = r
      PROVE  FlightRule(requests[s])'
  <2> DEFINE q == requests[s]
  <2>1. /\ q # Idle /\ q.step = "rule" /\ requests'[s].step = SyncStep(q.to)
        /\ requests'[s].event = q.event /\ requests'[s].seen = q.seen /\ requests'[s].to = q.to
        /\ requests'[s].first = q.first
        /\ q.to = "PUBLISHED" => q.event \in restored'
    BY <1>3a, RuleFacts
  <2>2. FlightRule(q) /\ ~q.first
    BY <2>1 DEF FlightInv, FlightRule, After
  <2>3. Exists(requests[s].event)' /\ events'[q.event].visibility = q.seen.visibility
    BY <2>1, RuleKept
  <2> QED BY <2>1, <2>2, <2>3 DEF FlightRule, SyncStep, After
<1>4. ASSUME NEW r \in Requests, IndexLoad(r), s = r
      PROVE  FlightRule(requests[s])'
  <2> DEFINE q == requests[s]
  <2>1. /\ q # Idle /\ q.step = "load" /\ requests'[s].step \in {"upsert", "remove"}
        /\ requests'[s].event = q.event /\ requests'[s].seen = q.seen /\ requests'[s].to = q.to
        /\ requests'[s].first = q.first
    BY <1>4, LoadFacts
  <2>2. FlightRule(q)
    BY <2>1 DEF FlightInv
  <2>3. Exists(requests[s].event)' /\ events'[q.event].visibility = q.seen.visibility
    BY <2>1, RuleKept
  <2> QED BY <2>1, <2>2, <2>3, RestoredGrows DEF FlightRule, After
<1>5. ASSUME NEW r \in Requests, IndexUpsert(r) \/ IndexRemove(r) \/ IndexFails(r), s = r
      PROVE  FlightRule(requests[s])'
  <2> DEFINE q == requests[s]
  <2>1. q # Idle /\ q.step \in {"load", "upsert", "remove"} /\ Goto(r, "notify")
    BY <1>5, FlightFacts DEF IndexUpsert, IndexRemove, IndexFails, At, Steps
  <2>2. /\ requests'[s].step = "notify"
        /\ requests'[s].event = q.event /\ requests'[s].seen = q.seen /\ requests'[s].to = q.to
        /\ requests'[s].first = q.first
    BY <1>5, <2>1, GotoFacts DEF Steps
  <2>3. FlightRule(q)
    BY <2>1 DEF FlightInv
  <2>4. Exists(requests[s].event)' /\ events'[q.event].visibility = q.seen.visibility
    BY <2>1, <2>2, RuleKept
  <2> QED BY <2>1, <2>2, <2>3, <2>4, RestoredGrows DEF FlightRule, After
<1>6. ASSUME NEW r \in Requests,
             RecordStatusEvent(r) \/ UpdateWithRefs(r) \/ Notify(r) \/ LoseRequest(r), s = r
      PROVE  FALSE
  <2>1. Finish(r)
    BY <1>6 DEF RecordStatusEvent, UpdateWithRefs, Notify, LoseRequest
  <2> QED BY <1>6, <2>1, FinishFacts
<1>7. ASSUME NEW r \in Requests, NEW e \in Events, Begin(r, e), s # r
      PROVE  requests'[s] = requests[s]
  BY <1>7, OthersKept
<1>8. ASSUME NEW r \in Requests, Continue(r), s # r
      PROVE  requests'[s] = requests[s]
  BY <1>8, OthersKept
<1>9. CASE UNCHANGED requests
  BY <1>0, <1>9
<1> QED
  BY <1>0, <1>1, <1>2, <1>3, <1>3a, <1>4, <1>5, <1>6, <1>7, <1>8, <1>9
     DEF Next, Begin, Continue, Rebuild, vars, CreateFromCandidate,
         RebuildLoad, RebuildClear, RebuildUpsert, RebuildDone, RebuildFails

-----------------------------------------------------------------------------
(* Privacy.                                                                *)

\* How a row that exists can change.
LEMMA RowChange ==
    ASSUME TypeOK, FlightInv, [Next]_vars, NEW e \in Events, Exists(e)
    PROVE  \/ events'[e] = events[e]
           \/ \E r \in Requests :
                 /\ requests[r] # Idle /\ requests[r].event = e
                 /\ \/ UpdateWithRefs(r) /\ events'[e].status = events[e].status
                       /\ events'[e].published = events[e].published
                       /\ events'[e].content = requests[r].content
                    \/ ApplyTransition(r) /\ events'[e].status = requests[r].to
                       /\ events'[e].published = (events[e].published \/ requests[r].to = "PUBLISHED")
                       /\ events'[e].content = events[e].content
                    \/ SetEventStatus(r) /\ events'[e].status = requests[r].to
                       /\ events'[e].published = events[e].published
                       /\ events'[e].content = events[e].content
                       /\ e \in ruled' /\ (requests[r].to = "PUBLISHED" => e \in restored')
<1>0. events[e] \in Row
  BY RowFacts
<1>1. ASSUME NEW r \in Requests, NEW d \in Events, NEW v \in {"PUBLIC", "PRIVATE"},
             NEW c \in Contents, CreateManual(r, d, v, c)
      PROVE  events'[e] = events[e]
  BY <1>1, CreateFacts
<1>2. ASSUME NEW d \in Events, NEW v \in {"PUBLIC", "PRIVATE"}, NEW c \in Contents,
             CreateFromCandidate(d, v, c)
      PROVE  events'[e] = events[e]
  BY <1>2 DEF CreateFromCandidate, TypeOK
<1>3. ASSUME NEW r \in Requests, UpdateWithRefs(r)
      PROVE  \/ events'[e] = events[e]
             \/ /\ requests[r] # Idle /\ requests[r].event = e
                /\ events'[e].status = events[e].status
                /\ events'[e].published = events[e].published
                /\ events'[e].content = requests[r].content
  BY <1>3, UpdateFacts
<1>4. ASSUME NEW r \in Requests, ApplyTransition(r)
      PROVE  \/ events'[e] = events[e]
             \/ /\ requests[r] # Idle /\ requests[r].event = e
                /\ events'[e].status = requests[r].to
                /\ events'[e].published = (events[e].published \/ requests[r].to = "PUBLISHED")
                /\ events'[e].content = events[e].content
  <2> DEFINE q == requests[r]
  <2>1. /\ q # Idle /\ events'[q.event] = Published(events[q.event], q.to)
        /\ \A d \in Events : d # q.event => events'[d] = events[d]
    BY <1>4, ApplyFacts
  <2>2. q.to \in EventStatus
    BY <2>1, InFlightFacts
  <2> QED BY <1>0, <2>1, <2>2, PublishedFacts
<1>5. ASSUME NEW r \in Requests, SetEventStatus(r)
      PROVE  \/ events'[e] = events[e]
             \/ /\ requests[r] # Idle /\ requests[r].event = e
                /\ events'[e].status = requests[r].to
                /\ events'[e].published = events[e].published
                /\ events'[e].content = events[e].content
                /\ e \in ruled' /\ (requests[r].to = "PUBLISHED" => e \in restored')
  BY <1>5, RuleFacts
<1>6. CASE UNCHANGED events
  BY <1>6
<1> QED
  BY <1>1, <1>2, <1>3, <1>4, <1>5, <1>6
     DEF Next, Begin, Continue, Rebuild, vars, rowVars, rulings, Update, Transition,
         TransitionPrivate, Decide, RecordStatusEvent, IndexLoad, IndexUpsert, IndexRemove,
         IndexFails, Notify, LoseRequest, RebuildLoad, RebuildClear, RebuildUpsert, RebuildDone,
         RebuildFails

\* How a row comes to exist.
LEMMA RowBirth ==
    ASSUME TypeOK, FlightInv, [Next]_vars, NEW e \in Events, ~Exists(e), Exists(e)'
    PROVE  \E v \in {"PUBLIC", "PRIVATE"}, c \in Contents :
              /\ events'[e] = NewRow(v, c)
              /\ UNCHANGED <<index, firstPublished, raced>>
              /\ \/ \E r \in Requests : CreateManual(r, e, v, c)
                 \/ CreateFromCandidate(e, v, c)
<1>1. ASSUME NEW r \in Requests, NEW d \in Events, NEW v \in {"PUBLIC", "PRIVATE"},
             NEW c \in Contents, CreateManual(r, d, v, c)
      PROVE  d = e /\ events'[e] = NewRow(v, c)
  <2>1. events'[d] = NewRow(v, c) /\ \A f \in Events : f # d => events'[f] = events[f]
    BY <1>1, CreateFacts
  <2> QED BY <2>1 DEF Exists
<1>2. ASSUME NEW d \in Events, NEW v \in {"PUBLIC", "PRIVATE"}, NEW c \in Contents,
             CreateFromCandidate(d, v, c)
      PROVE  d = e /\ events'[e] = NewRow(v, c)
  BY <1>2 DEF CreateFromCandidate, Exists, TypeOK
<1>3. ASSUME NEW r \in Requests, UpdateWithRefs(r) PROVE FALSE
  BY <1>3, UpdateFacts, InFlightFacts DEF Exists
<1>4. ASSUME NEW r \in Requests, ApplyTransition(r) PROVE FALSE
  BY <1>4, ApplyFacts, InFlightFacts DEF Exists
<1>4a. ASSUME NEW r \in Requests, SetEventStatus(r) PROVE FALSE
  BY <1>4a, RuleFacts, InFlightFacts DEF Exists
<1>5. ~UNCHANGED events
  BY DEF Exists
<1>6. \/ \E r \in Requests, d \in Events, v \in {"PUBLIC", "PRIVATE"}, c \in Contents :
            CreateManual(r, d, v, c)
      \/ \E d \in Events, v \in {"PUBLIC", "PRIVATE"}, c \in Contents : CreateFromCandidate(d, v, c)
  BY <1>3, <1>4, <1>4a, <1>5
     DEF Next, Begin, Continue, Rebuild, vars, rowVars, rulings, Update, Transition,
         TransitionPrivate, Decide, RecordStatusEvent, IndexLoad, IndexUpsert, IndexRemove,
         IndexFails, Notify, LoseRequest, RebuildLoad, RebuildClear, RebuildUpsert, RebuildDone,
         RebuildFails
<1> QED BY <1>1, <1>2, <1>6 DEF CreateManual, CreateFromCandidate

\* A row is born as a draft that was never published.
LEMMA BornDraft ==
    ASSUME TypeOK, FlightInv, [Next]_vars, NEW e \in Events, ~Exists(e), Exists(e)'
    PROVE  /\ events'[e].status = "DRAFT" /\ events'[e].published = FALSE
           /\ UNCHANGED <<index, firstPublished, raced>>
<1>1. PICK v \in {"PUBLIC", "PRIVATE"}, c \in Contents :
         /\ events'[e] = NewRow(v, c) /\ UNCHANGED <<index, firstPublished, raced>>
  BY RowBirth
<1>2. NewRow(v, c).status = "DRAFT" /\ NewRow(v, c).published = FALSE
  BY DEF NewRow
<1> QED BY <1>1, <1>2

\* A request that goes on past its write, towards the index, is that of a public event
\* or of one moderation has restored.
LEMMA PublishedIsPublic ==
    ASSUME TypeOK, FlightInv, NEW r \in Requests, requests[r].step \in After,
           requests[r].to = "PUBLISHED" \/ requests[r].step \in {"load", "upsert"}
    PROVE  /\ requests[r] # Idle /\ requests[r].event \in Events /\ Exists(requests[r].event)
           /\ events[requests[r].event].visibility = "PUBLIC" \/ requests[r].event \in restored
<1>1. requests[r] # Idle
  BY FlightFacts DEF After, Steps
<1> QED BY <1>1, InFlightFacts DEF FlightInv, FlightRule, After

\* Only public events and those moderation has restored gain a document.
LEMMA IndexChange ==
    ASSUME TypeOK, FlightInv, PrivacyInv, [Next]_vars, NEW e \in Events
    PROVE  \/ index'[e] = index[e] \/ index'[e] = NoDoc
           \/ Exists(e) /\ (events[e].visibility = "PUBLIC" \/ e \in restored)
<1>1. ASSUME NEW r \in Requests, IndexUpsert(r)
      PROVE  index'[e] = index[e] 
                \/ (Exists(e) /\ (events[e].visibility = "PUBLIC" \/ e \in restored))
  <2>1. /\ Exists(requests[r].event)
        /\ events[requests[r].event].visibility = "PUBLIC" \/ requests[r].event \in restored
    BY <1>1, PublishedIsPublic DEF IndexUpsert, At, After
  <2>2. index' = [index EXCEPT ![requests[r].event] = requests[r].content]
    BY <1>1 DEF IndexUpsert
  <2>3. CASE e = requests[r].event
    BY <2>1, <2>3
  <2>4. CASE e # requests[r].event
    <3>1. index \in [Events -> Contents \cup {NoDoc}]
      BY DEF TypeOK
    <3> QED BY <2>2, <2>4, <3>1
  <2> QED BY <2>3, <2>4
<1>2. ASSUME NEW r \in Requests, IndexRemove(r) PROVE index'[e] = index[e] \/ index'[e] = NoDoc
  BY <1>2 DEF IndexRemove, TypeOK
<1>3. CASE RebuildClear
  BY <1>3 DEF RebuildClear, NoDocs
<1>4. ASSUME NEW d \in Events, RebuildUpsert(d)
      PROVE  index'[e] = index[e] 
                \/ (Exists(e) /\ (events[e].visibility = "PUBLIC" \/ e \in restored))
  <2>1. Exists(d) /\ (events[d].visibility = "PUBLIC" \/ d \in restored)
    BY <1>4 DEF RebuildUpsert, PrivacyInv
  <2>2. index' = [index EXCEPT ![d] = rebuild.docs[d]]
    BY <1>4 DEF RebuildUpsert
  <2>3. CASE e = d
    BY <2>1, <2>3
  <2>4. CASE e # d
    <3>1. index \in [Events -> Contents \cup {NoDoc}]
      BY DEF TypeOK
    <3> QED BY <2>2, <2>4, <3>1
  <2> QED BY <2>3, <2>4
<1>5. CASE UNCHANGED index
  BY <1>5
<1> QED
  BY <1>1, <1>2, <1>3, <1>4, <1>5
     DEF Next, Begin, Continue, Rebuild, vars, rowVars, rulings, CreateManual,
         CreateFromCandidate, Update, Transition, TransitionPrivate, Decide, RecordStatusEvent,
         UpdateWithRefs, ApplyTransition, SetEventStatus, IndexLoad, IndexUpsert, IndexRemove,
         IndexFails, Notify, LoseRequest, RebuildLoad, RebuildClear, RebuildUpsert, RebuildDone,
         RebuildFails

\* Only the first publication of a public event is announced.
LEMMA AnnounceChange ==
    ASSUME TypeOK, FlightInv, [Next]_vars, NEW e \in Events
    PROVE  \/ firstPublished'[e] = firstPublished[e]
           \/ \E r \in Requests :
                 /\ Notify(r) /\ Announcing(r, e) /\ requests'[r] = Idle
                 /\ firstPublished'[e] = firstPublished[e] + 1
                 /\ Exists(e) /\ events[e].visibility = "PUBLIC"
<1>1. ASSUME NEW r \in Requests, Notify(r), firstPublished'[e] # firstPublished[e]
      PROVE  /\ Announcing(r, e) /\ requests'[r] = Idle
             /\ firstPublished'[e] = firstPublished[e] + 1
             /\ Exists(e) /\ events[e].visibility = "PUBLIC"
  <2>1. /\ requests[r].step \in After /\ requests[r].first
        /\ firstPublished' = [firstPublished EXCEPT ![requests[r].event] = @ + 1]
    BY <1>1 DEF Notify, At, After
  <2>2. /\ requests[r] # Idle /\ Exists(requests[r].event)
        /\ events[requests[r].event].visibility = "PUBLIC"
    BY <2>1, FlightFacts DEF After, Steps, FlightInv, FlightRule
  <2>3. requests[r].event = e /\ firstPublished'[e] = firstPublished[e] + 1
    BY <1>1, <2>1 DEF TypeOK
  <2>4. requests'[r] = Idle
    BY <1>1, FinishFacts DEF Notify
  <2> QED BY <2>1, <2>2, <2>3, <2>4 DEF Announcing
<1>2. UNCHANGED firstPublished \/ \E r \in Requests : Notify(r)
  BY DEF Next, Begin, Continue, Rebuild, vars, rowVars, rulings, CreateManual,
         CreateFromCandidate, Update, Transition, TransitionPrivate, Decide, RecordStatusEvent,
         UpdateWithRefs, ApplyTransition, SetEventStatus, IndexLoad, IndexUpsert, IndexRemove,
         IndexFails, Notify, LoseRequest, RebuildLoad, RebuildClear, RebuildUpsert, RebuildDone,
         RebuildFails
<1> QED BY <1>1, <1>2

LEMMA DocsChange ==
    ASSUME TypeOK, PrivacyInv, [Next]_vars, NEW e \in Events
    PROVE  \/ rebuild'.docs[e] = rebuild.docs[e] \/ rebuild'.docs[e] = NoDoc
           \/ Exists(e) /\ (events[e].visibility = "PUBLIC" \/ e \in restored)
<1>1. CASE RebuildLoad
  <2>1. events[e].status = "PUBLISHED" =>
           Exists(e) /\ (events[e].visibility = "PUBLIC" \/ e \in restored)
    BY RowFacts DEF PrivacyInv, Row
  <2> QED BY <1>1, <2>1 DEF RebuildLoad
<1>2. ASSUME NEW d \in Events, RebuildUpsert(d)
      PROVE  rebuild'.docs[e] = rebuild.docs[e] \/ rebuild'.docs[e] = NoDoc
  BY <1>2 DEF RebuildUpsert, TypeOK
<1>3. CASE RebuildClear
  BY <1>3 DEF RebuildClear, TypeOK
<1>4. CASE RebuildDone \/ RebuildFails
  BY <1>4 DEF RebuildDone, RebuildFails, NoDocs
<1>5. ASSUME NEW r \in Requests, NEW d \in Events, Begin(r, d)
      PROVE  rebuild'.docs[e] = rebuild.docs[e]
  <2>1. Overlap(d)
    BY <1>5 DEF Begin, CreateManual, Update, Transition, TransitionPrivate, Decide, Start
  <2> QED BY <2>1, OverlapFacts
<1>6. ASSUME NEW r \in Requests, Continue(r) PROVE rebuild' = rebuild
  BY <1>6 DEF Continue, RecordStatusEvent, UpdateWithRefs, ApplyTransition, SetEventStatus,
         IndexLoad, IndexUpsert, IndexRemove, IndexFails, Notify, LoseRequest
<1>7. UNCHANGED rebuild => rebuild'.docs[e] = rebuild.docs[e]
  OBVIOUS
<1> QED
  BY <1>1, <1>2, <1>3, <1>4, <1>5, <1>6, <1>7 DEF Next, Rebuild, vars, CreateFromCandidate

\* What is added to the journal of an event: the line of its creation, or that of a transition.
LEMMA JournalChange ==
    ASSUME TypeOK, FlightInv, [Next]_vars, NEW e \in Events
    PROVE  \/ journal'[e] = journal[e]
           \/ journal'[e] = Append(journal[e], Created) /\ Exists(e)'
           \/ \E r \in Requests :
                 /\ ApplyTransition(r) /\ requests[r] # Idle /\ requests[r].event = e /\ Exists(e)
                 /\ journal'[e] = Append(journal[e], [from |-> requests[r].seen.status,
                                                      to |-> requests[r].to])
<1>1. ASSUME NEW r \in Requests, ApplyTransition(r), journal'[e] # journal[e]
      PROVE  /\ requests[r] # Idle /\ requests[r].event = e /\ Exists(e)
             /\ journal'[e] = Append(journal[e], [from |-> requests[r].seen.status,
                                                  to |-> requests[r].to])
  BY <1>1, ApplyFacts, InFlightFacts
<1>2. ASSUME NEW r \in Requests, RecordStatusEvent(r), journal'[e] # journal[e]
      PROVE  journal'[e] = Append(journal[e], Created) /\ Exists(e)'
  <2>1. requests[r].event \in Events /\ Exists(requests[r].event) /\ events' = events
    BY <1>2, FlightFacts, InFlightFacts DEF RecordStatusEvent, At, Steps
  <2>2. e = requests[r].event /\ journal'[e] = Append(journal[e], Created)
    BY <1>2, <2>1, CreatedFacts DEF RecordStatusEvent
  <2> QED BY <2>1, <2>2 DEF Exists
<1>3. ASSUME NEW d \in Events, NEW v \in {"PUBLIC", "PRIVATE"}, NEW c \in Contents,
             CreateFromCandidate(d, v, c), journal'[e] # journal[e]
      PROVE  journal'[e] = Append(journal[e], Created) /\ Exists(e)'
  <2>1. e = d /\ journal'[e] = Append(journal[e], Created)
    BY <1>3, CreatedFacts DEF CreateFromCandidate
  <2>2. events'[d] = NewRow(v, c)
    BY <1>3 DEF CreateFromCandidate, TypeOK
  <2>3. NewRow(v, c) # NoRow
    BY NewRowFacts
  <2> QED BY <2>1, <2>2, <2>3 DEF Exists
<1>4. \/ UNCHANGED journal \/ \E r \in Requests : ApplyTransition(r) \/ RecordStatusEvent(r)
      \/ \E d \in Events, v \in {"PUBLIC", "PRIVATE"}, c \in Contents : CreateFromCandidate(d, v, c)
  BY DEF Next, Begin, Continue, Rebuild, vars, rowVars, rulings, CreateManual,
         Update, Transition, TransitionPrivate, Decide,
         UpdateWithRefs, SetEventStatus, IndexLoad, IndexUpsert, IndexRemove,
         IndexFails, Notify, LoseRequest, RebuildLoad, RebuildClear, RebuildUpsert, RebuildDone,
         RebuildFails
<1> QED BY <1>1, <1>2, <1>3, <1>4

\* An event becomes personal when its row is created private.
LEMMA PersonalChange ==
    ASSUME TypeOK, [Next]_vars, NEW e \in personal', e \notin personal
    PROVE  e \in Events /\ Exists(e)' /\ events'[e].visibility = "PRIVATE"
<1>1. ASSUME NEW r \in Requests, NEW d \in Events, NEW v \in {"PUBLIC", "PRIVATE"},
             NEW c \in Contents, CreateManual(r, d, v, c)
      PROVE  e \in Events /\ Exists(e)' /\ events'[e].visibility = "PRIVATE"
  <2>1. e = d /\ v = "PRIVATE"
    BY <1>1 DEF CreateManual, Remember
  <2>2. events'[d] = NewRow(v, c)
    BY <1>1, CreateFacts
  <2>3. NewRow(v, c) # NoRow
    BY NewRowFacts
  <2>4. NewRow(v, c).visibility = v
    BY NewRowFacts
  <2> QED BY <2>1, <2>2, <2>3, <2>4 DEF Exists
<1>2. ASSUME NEW d \in Events, NEW v \in {"PUBLIC", "PRIVATE"}, NEW c \in Contents,
             CreateFromCandidate(d, v, c)
      PROVE  e \in Events /\ Exists(e)' /\ events'[e].visibility = "PRIVATE"
  <2>1. e = d /\ v = "PRIVATE"
    BY <1>2 DEF CreateFromCandidate, Remember
  <2>2. events'[d] = NewRow(v, c)
    BY <1>2 DEF CreateFromCandidate, TypeOK
  <2>3. NewRow(v, c) # NoRow
    BY NewRowFacts
  <2>4. NewRow(v, c).visibility = v
    BY NewRowFacts
  <2> QED BY <2>1, <2>2, <2>3, <2>4 DEF Exists
<1>3. \/ \E r \in Requests, d \in Events, v \in {"PUBLIC", "PRIVATE"}, c \in Contents :
            CreateManual(r, d, v, c)
      \/ \E d \in Events, v \in {"PUBLIC", "PRIVATE"}, c \in Contents : CreateFromCandidate(d, v, c)
  BY DEF Next, Begin, Continue, Rebuild, vars, rowVars, rulings,
         Update, Transition, TransitionPrivate, Decide, RecordStatusEvent,
         UpdateWithRefs, ApplyTransition, SetEventStatus, IndexLoad, IndexUpsert, IndexRemove,
         IndexFails, Notify, LoseRequest, RebuildLoad, RebuildClear, RebuildUpsert, RebuildDone,
         RebuildFails
<1> QED BY <1>1, <1>2, <1>3

LEMMA PrivacyStep ==
    ASSUME TypeOK, FlightInv, PrivacyInv, [Next]_vars
    PROVE  PrivacyInv'
<1>0. \A e \in personal' : Exists(e)' /\ events'[e].visibility = "PRIVATE"
  BY PersonalChange, RowsKept DEF PrivacyInv, TypeOK
<1> SUFFICES ASSUME NEW e \in Events
             PROVE  /\ Exists(e)' /\ events'[e].visibility = "PRIVATE" =>
                          /\ ~events'[e].published /\ firstPublished'[e] = 0
                          /\ e \notin restored' =>
                                events'[e].status # "PUBLISHED" /\ index'[e] = NoDoc
                    /\ rebuild'.docs[e] # NoDoc =>
                          Exists(e)' /\ (events'[e].visibility = "PUBLIC" \/ e \in restored')
                    /\ index'[e] # NoDoc \/ firstPublished'[e] # 0 \/ journal'[e] # << >> => Exists(e)'
  BY <1>0 DEF PrivacyInv
<1>1. CASE Exists(e)
  <2>1. Exists(e)' /\ events'[e].visibility = events[e].visibility
    BY <1>1, RowsKept
  <2>2. rebuild'.docs[e] # NoDoc => events[e].visibility = "PUBLIC" \/ e \in restored'
    BY <1>1, DocsChange, RestoredGrows DEF PrivacyInv
  <2>3. ASSUME events[e].visibility = "PRIVATE"
        PROVE  /\ ~events'[e].published /\ firstPublished'[e] = 0
               /\ e \notin restored' => events'[e].status # "PUBLISHED" /\ index'[e] = NoDoc
    <3>1. /\ ~events[e].published /\ firstPublished[e] = 0
          /\ e \notin restored' => /\ e \notin restored /\ events[e].status # "PUBLISHED"
                                   /\ index[e] = NoDoc
      BY <1>1, <2>3, RestoredGrows DEF PrivacyInv
    <3>2. e \notin restored' => index'[e] = NoDoc
      BY <2>3, <3>1, IndexChange
    <3>3. firstPublished'[e] = 0
      BY <2>3, <3>1, AnnounceChange
    <3>4. ASSUME NEW r \in Requests, requests[r] # Idle, requests[r].event = e, ApplyTransition(r)
          PROVE  requests[r].to # "PUBLISHED"
      <4>1. requests[r].step \in {"apply", "applyPrivate"}
        BY <3>4, ApplyFacts
      <4>2. FlightRule(requests[r])
        BY <3>4 DEF FlightInv
      <4> QED BY <2>3, <3>4, <4>1, <4>2 DEF FlightRule, ValidatePublishable
    <3>5. /\ ~events'[e].published
          /\ e \notin restored' => events'[e].status # "PUBLISHED"
      BY <1>1, <3>1, <3>4, RowChange
    <3> QED BY <3>2, <3>3, <3>5
  <2> QED BY <2>1, <2>2, <2>3
<1>2. CASE ~Exists(e)
  <2>1. rebuild'.docs[e] = NoDoc
    BY <1>2, DocsChange DEF PrivacyInv
  <2>2. index'[e] = NoDoc
    BY <1>2, IndexChange DEF PrivacyInv
  <2>3. firstPublished'[e] = 0
    BY <1>2, AnnounceChange DEF PrivacyInv
  <2>4. journal'[e] # << >> => Exists(e)'
    BY <1>2, JournalChange DEF PrivacyInv
  <2>5. Exists(e)' => events'[e].status # "PUBLISHED" /\ ~events'[e].published
    BY <1>2, BornDraft
  <2> QED BY <2>1, <2>2, <2>3, <2>4, <2>5
<1> QED BY <1>1, <1>2

-----------------------------------------------------------------------------
(* Journal, coherence and announcements.                                   *)

\* The line of a creation tells of no change.
LEMMA CreatedTellsNothing ==
    ASSUME TypeOK, NEW e \in Events, journal'[e] = Append(journal[e], Created)
    PROVE  /\ Changes(e)' = Changes(e)
           /\ \A i \in Changes(e) : journal'[e][i] = journal[e][i]
<1> DEFINE old == journal[e]
<1>1. old \in Seq(Line) /\ Created \in Line /\ Created.from = "NONE"
  BY DEF TypeOK, Created, Line, EventStatus
<1>2. journal'[e] = Append(old, Created)
  OBVIOUS
<1>3. Changes(e) = {i \in DOMAIN old : old[i].from # "NONE"}
  BY DEF Changes
<1>4. Changes(e)' = {i \in DOMAIN Append(old, Created) : Append(old, Created)[i].from # "NONE"}
  BY <1>2 DEF Changes
<1> HIDE DEF old
<1>5. /\ DOMAIN Append(old, Created) = 1 .. Len(old) + 1 /\ DOMAIN old = 1 .. Len(old)
      /\ Len(old) \in Nat
      /\ \A i \in 1 .. Len(old) : Append(old, Created)[i] = old[i]
      /\ Append(old, Created)[Len(old) + 1] = Created
  BY <1>1
<1>6. Changes(e)' = Changes(e)
  BY <1>1, <1>3, <1>4, <1>5
<1>7. \A i \in Changes(e) : journal'[e][i] = old[i]
  BY <1>2, <1>3, <1>5
<1> QED BY <1>6, <1>7 DEF old

\* The line of a transition is the last change the journal tells.
LEMMA ChangeIsLast ==
    ASSUME TypeOK, NEW e \in Events, NEW line \in Line, line.from # "NONE",
           journal'[e] = Append(journal[e], line)
    PROVE  \E i \in Changes(e)' : /\ \A k \in Changes(e)' : k <= i
                                  /\ journal'[e][i] = line
<1> DEFINE old == journal[e]
<1>1. old \in Seq(Line) /\ journal'[e] = Append(old, line)
  BY DEF TypeOK
<1>2. Changes(e)' = {i \in DOMAIN Append(old, line) : Append(old, line)[i].from # "NONE"}
  BY <1>1 DEF Changes
<1> HIDE DEF old
<1>3. /\ DOMAIN Append(old, line) = 1 .. Len(old) + 1 /\ Len(old) \in Nat
      /\ Append(old, line)[Len(old) + 1] = line
  BY <1>1
<1>4. Len(old) + 1 \in Changes(e)' /\ \A k \in Changes(e)' : k <= Len(old) + 1
  BY <1>2, <1>3
<1> QED BY <1>1, <1>3, <1>4

LEMMA JournalStep ==
    ASSUME TypeOK, FlightInv, PrivacyInv, JournalTellsStatus, [Next]_vars
    PROVE  JournalTellsStatus'
<1> DEFINE Told(e) == \/ Changes(e) = {} /\ events[e].status = "DRAFT"
                      \/ \E i \in Changes(e) : /\ \A k \in Changes(e) : k <= i
                                                /\ events[e].status = journal[e][i].to
<1> SUFFICES ASSUME NEW e \in Events, Exists(e)', e \notin ruled'
             PROVE  Told(e)'
  BY DEF JournalTellsStatus
<1>1. CASE ~Exists(e)
  <2>1. journal[e] = << >> /\ events'[e].status = "DRAFT"
    BY <1>1, BornDraft DEF PrivacyInv
  <2>2. Changes(e) = {}
    BY <2>1 DEF Changes
  <2>3. journal'[e] = journal[e] \/ journal'[e] = Append(journal[e], Created)
    BY <1>1, JournalChange
  <2>4. Changes(e)' = {}
    BY <2>2, <2>3, CreatedTellsNothing DEF Changes
  <2> QED BY <2>1, <2>4
<1>2. ASSUME Exists(e), NEW r \in Requests, ApplyTransition(r), requests[r].event = e
      PROVE  Told(e)'
  <2> DEFINE q == requests[r]
             line == [from |-> q.seen.status, to |-> q.to]
  <2>1. /\ q # Idle /\ events'[e] = Published(events[e], q.to)
        /\ journal'[e] = Append(journal[e], line)
    BY <1>2, ApplyFacts
  <2>2. q.to \in EventStatus /\ q.seen.status \in EventStatus /\ events[e] \in Row
    BY <1>2, <2>1, InFlightFacts DEF Row
  <2>3. events'[e].status = q.to
    BY <2>1, <2>2, PublishedFacts
  <2>4. line \in Line /\ line.to = q.to /\ line.from # "NONE"
    BY <2>2 DEF Line, EventStatus
  <2> HIDE DEF line
  <2>5. \E i \in Changes(e)' : (\A k \in Changes(e)' : k <= i) /\ journal'[e][i] = line
    BY <2>1, <2>4, ChangeIsLast
  <2> QED BY <2>3, <2>4, <2>5
<1>3. ASSUME Exists(e), \A r \in Requests : ApplyTransition(r) => requests[r].event # e
      PROVE  Told(e)'
  <2>1. /\ e \notin ruled /\ events'[e].status = events[e].status
        /\ journal'[e] = journal[e] \/ journal'[e] = Append(journal[e], Created)
    BY <1>3, JournalChange, RowChange, RuledShrinks
  <2>2. Told(e)
    BY <1>3, <2>1 DEF JournalTellsStatus
  <2>3. Changes(e)' = Changes(e) /\ \A i \in Changes(e) : journal'[e][i] = journal[e][i]
    BY <2>1, CreatedTellsNothing DEF Changes
  <2> QED BY <2>1, <2>2, <2>3
<1> QED BY <1>1, <1>2, <1>3

\* Writing over a row that is not the one that was read leaves a trace.
LEMMA RaceFacts ==
    ASSUME NEW r \in Requests, ApplyTransition(r) \/ UpdateWithRefs(r), requests[r].event \notin raced'
    PROVE  events[requests[r].event] = requests[r].seen
  BY DEF ApplyTransition, UpdateWithRefs, Race

LEMMA RacedGrows == ASSUME [Next]_vars PROVE raced \subseteq raced'
  BY
     DEF Next, Begin, Continue, Rebuild, vars, rowVars, rulings, CreateManual,
         CreateFromCandidate, Update, Transition, TransitionPrivate, Decide, RecordStatusEvent,
         UpdateWithRefs, ApplyTransition, Race, SetEventStatus, IndexLoad, IndexUpsert,
         IndexRemove, IndexFails, Notify, LoseRequest, RebuildLoad, RebuildClear, RebuildUpsert,
         RebuildDone, RebuildFails

LEMMA CoherenceStep ==
    ASSUME TypeOK, FlightInv, PublishedIsCoherentUnlessRaced, [Next]_vars
    PROVE  PublishedIsCoherentUnlessRaced'
<1> SUFFICES ASSUME NEW e \in Events, Exists(e)', events'[e].status = "PUBLISHED",
                    e \notin raced', e \notin ruled'
             PROVE  events'[e].content \notin Incoherent
  BY DEF PublishedIsCoherentUnlessRaced, Is
<1>1. Exists(e)
  BY BornDraft
<1>2. CASE events'[e] = events[e] /\ e \notin ruled
  BY <1>1, <1>2, RacedGrows DEF PublishedIsCoherentUnlessRaced, Is
<1>3. ASSUME NEW r \in Requests, requests[r] # Idle, requests[r].event = e, UpdateWithRefs(r),
             events'[e].status = events[e].status
      PROVE  FALSE
  <2>1. requests[r].seen.status \in EDITABLE_STATUSES
    BY <1>3, UpdateFacts DEF FlightInv, FlightRule
  <2> QED BY <1>3, <2>1, RaceFacts DEF EDITABLE_STATUSES
<1>4. ASSUME NEW r \in Requests, ApplyTransition(r), requests[r].event = e
      PROVE  events'[e].content \notin Incoherent
  <2>1. /\ requests[r] # Idle /\ requests[r].step \in {"apply", "applyPrivate"}
        /\ events'[e] = Published(events[e], requests[r].to)
    BY <1>4, ApplyFacts
  <2>2. events'[e].status = requests[r].to /\ events'[e].content = events[e].content
    BY <1>4, <2>1, InFlightFacts, PublishedFacts
  <2>3. ValidatePublishable(requests[r].seen)
    BY <2>1, <2>2 DEF FlightInv, FlightRule
  <2> QED BY <1>4, <2>2, <2>3, RaceFacts DEF ValidatePublishable
<1> QED BY <1>1, <1>2, <1>3, <1>4, RowChange, RuledShrinks

\* Only the write of a first publication makes a request announce it.
LEMMA AnnouncingChange ==
    ASSUME TypeOK, FlightInv, [Next]_vars, NEW s \in Requests, NEW e \in Events, Announcing(s, e)'
    PROVE  /\ requests'[s] # Idle
           /\ \/ Announcing(s, e)
              \/ /\ ApplyTransition(s) /\ requests[s] # Idle /\ requests[s].event = e
                 /\ requests[s].to = "PUBLISHED" /\ ~requests[s].seen.published
<1>1. /\ requests'[s] # Idle /\ requests'[s].event = e /\ requests'[s].step \in After
      /\ requests'[s].first
  BY DEF Announcing
<1>2. CASE requests'[s] = requests[s]
  BY <1>1, <1>2 DEF Announcing
<1>3. ASSUME NEW d \in Events, Begin(s, d) PROVE FALSE
  <2>1. CASE \E v \in {"PUBLIC", "PRIVATE"}, c \in Contents : CreateManual(s, d, v, c)
    <3>1. PICK v \in {"PUBLIC", "PRIVATE"}, c \in Contents : CreateManual(s, d, v, c)
      BY <2>1
    <3>2. requests'[s] = [step |-> "record", event |-> d, seen |-> NewRow(v, c),
                          to |-> "DRAFT", content |-> c, first |-> FALSE]
      BY <3>1, CreateSlot
    <3> QED BY <1>1, <3>2 DEF After
  <2>2. CASE (\E c \in Contents : Update(s, d, c))
               \/ (\E to \in EventStatus : Transition(s, d, to) \/ TransitionPrivate(s, d, to)
                                               \/ Decide(s, d, to))
    <3>1. Exists(d) /\ \E at \in {"apply", "applyPrivate", "update", "rule"}, to \in EventStatus, c \in Contents :
                           Start(s, d, at, to, c)
      BY <2>2, BeginFacts
    <3>2. PICK at \in {"apply", "applyPrivate", "update", "rule"}, to \in EventStatus, c \in Contents :
             Start(s, d, at, to, c)
      BY <3>1
    <3>3. requests'[s].step = at
      BY <3>1, <3>2, StartFacts DEF Steps
    <3> QED BY <1>1, <3>3 DEF After
  <2> QED BY <1>3, <2>1, <2>2 DEF Begin
<1>4. CASE ApplyTransition(s)
  <2>1. /\ requests[s] # Idle /\ requests'[s].event = requests[s].event
        /\ requests'[s].first = requests[s].first
    BY <1>1, <1>4, ApplyFacts
  <2>2. requests[s].to = "PUBLISHED" /\ ~requests[s].seen.published
    BY <1>1, <2>1 DEF FlightInv, FlightRule
  <2> QED BY <1>1, <1>4, <2>1, <2>2
<1>4a. CASE SetEventStatus(s)
  <2>1. requests[s] # Idle /\ requests[s].step = "rule" /\ requests[s].first
    BY <1>1, <1>4a, RuleFacts
  <2> QED BY <2>1 DEF FlightInv, FlightRule, After
<1>5. CASE IndexLoad(s)
  BY <1>1, <1>5, LoadFacts DEF Announcing, After
<1>6. CASE IndexUpsert(s) \/ IndexRemove(s) \/ IndexFails(s)
  <2>1. requests[s] # Idle /\ requests[s].step \in After /\ Goto(s, "notify")
    BY <1>6, FlightFacts DEF IndexUpsert, IndexRemove, IndexFails, At, Steps, After
  <2> QED BY <1>1, <2>1, GotoFacts DEF Announcing, Steps
<1>7. CASE RecordStatusEvent(s) \/ UpdateWithRefs(s) \/ Notify(s) \/ LoseRequest(s)
  BY <1>1, <1>7, FinishFacts DEF RecordStatusEvent, UpdateWithRefs, Notify, LoseRequest
<1>8. \/ requests'[s] = requests[s]
      \/ (\E d \in Events : Begin(s, d)) \/ Continue(s)
  <2>1. CASE UNCHANGED requests
    BY <2>1
  <2>2. ASSUME NEW r \in Requests, (\E d \in Events : Begin(r, d)) \/ Continue(r), r # s
        PROVE  requests'[s] = requests[s]
    BY <2>2, OthersKept
  <2> QED BY <2>1, <2>2
    DEF Next, Rebuild, vars, CreateFromCandidate,
        RebuildLoad, RebuildClear, RebuildUpsert, RebuildDone, RebuildFails
<1> QED BY <1>1, <1>2, <1>3, <1>4, <1>4a, <1>5, <1>6, <1>7, <1>8 DEF Continue

LEMMA AnnounceStep ==
    ASSUME TypeOK, FlightInv, PrivacyInv, AnnounceInv, [Next]_vars
    PROVE  AnnounceInv'
<1> SUFFICES ASSUME NEW e \in Events, e \notin raced'
             PROVE  /\ firstPublished'[e] <= 1
                    /\ \A r \in Requests : Announcing(r, e)' =>
                          /\ firstPublished'[e] = 0
                          /\ \A s \in Requests : Announcing(s, e)' => s = r
                    /\ Exists(e)' /\ ~events'[e].published =>
                          firstPublished'[e] = 0 /\ \A r \in Requests : ~Announcing(r, e)'
  BY DEF AnnounceInv
<1>1. e \notin raced
  BY RacedGrows
<1>2. /\ firstPublished[e] <= 1 /\ firstPublished[e] \in Nat
      /\ \A r \in Requests : Announcing(r, e) =>
            firstPublished[e] = 0 /\ \A s \in Requests : Announcing(s, e) => s = r
      /\ Exists(e) /\ ~events[e].published =>
            firstPublished[e] = 0 /\ \A r \in Requests : ~Announcing(r, e)
  BY <1>1 DEF AnnounceInv, TypeOK
<1>3. CASE ~Exists(e)
  <2>1. firstPublished'[e] = 0
    BY <1>3, AnnounceChange DEF PrivacyInv
  <2>2. ASSUME NEW r \in Requests, Announcing(r, e)' PROVE FALSE
    <3>1. requests[r] # Idle /\ requests[r].event = e
      BY <2>2, AnnouncingChange DEF Announcing
    <3> QED BY <1>3, <3>1, InFlightFacts
  <2> QED BY <2>1, <2>2
<1>4. ASSUME Exists(e), NEW r \in Requests, ApplyTransition(r), requests[r] # Idle,
             requests[r].event = e, requests[r].to = "PUBLISHED"
      PROVE  /\ firstPublished'[e] <= 1
             /\ \A t \in Requests : Announcing(t, e)' =>
                   /\ firstPublished'[e] = 0
                   /\ \A s \in Requests : Announcing(s, e)' => s = t
             /\ events'[e].published
  <2>1. events[e] = requests[r].seen
    BY <1>4, RaceFacts
  <2>2. firstPublished' = firstPublished
    BY <1>4 DEF ApplyTransition
  <2>3. events'[e].published
    <3>1. events'[e] = Published(events[e], "PUBLISHED") /\ events[e] \in Row
      BY <1>4, ApplyFacts, InFlightFacts
    <3>2. Published(events[e], "PUBLISHED").published = TRUE
      BY <3>1 DEF Published, Row
    <3> QED BY <3>1, <3>2
  <2>4. \A s \in Requests : Announcing(s, e)' => s = r \/ Announcing(s, e)
    <3>1. ASSUME NEW s \in Requests, s # r, Announcing(s, e)' PROVE Announcing(s, e)
      BY <1>4, <3>1, ApplyFacts DEF Announcing
    <3> QED BY <3>1
  <2>5. CASE events[e].published
    <3>1. ~requests[r].first
      BY <1>4, <2>1, <2>5 DEF FlightInv, FlightRule
    <3>2. ~Announcing(r, e)'
      BY <1>4, <3>1, ApplyFacts DEF Announcing
    <3> QED BY <1>2, <2>2, <2>3, <2>4, <3>2
  <2>6. CASE ~events[e].published
    BY <1>2, <1>4, <2>2, <2>3, <2>4, <2>6
  <2> QED BY <2>5, <2>6
<1>5. ASSUME Exists(e),
             \A r \in Requests : ApplyTransition(r) /\ requests[r] # Idle /\ requests[r].event = e =>
                                   requests[r].to # "PUBLISHED"
      PROVE  /\ firstPublished'[e] <= 1
             /\ \A r \in Requests : Announcing(r, e)' =>
                   /\ firstPublished'[e] = 0
                   /\ \A s \in Requests : Announcing(s, e)' => s = r
             /\ ~events'[e].published =>
                   firstPublished'[e] = 0 /\ \A r \in Requests : ~Announcing(r, e)'
  <2>1. \A s \in Requests : Announcing(s, e)' => requests'[s] # Idle /\ Announcing(s, e)
    BY <1>5, AnnouncingChange
  <2>2. ~events'[e].published => ~events[e].published
    BY <1>5, RowChange
  <2>3. CASE firstPublished'[e] = firstPublished[e]
    BY <1>2, <1>5, <2>1, <2>2, <2>3
  <2>4. ASSUME NEW r \in Requests, Announcing(r, e), requests'[r] = Idle,
               firstPublished'[e] = firstPublished[e] + 1
        PROVE  /\ firstPublished'[e] = 1 /\ events'[e].published
               /\ \A s \in Requests : ~Announcing(s, e)'
    BY <1>2, <1>5, <2>1, <2>2, <2>4
  <2> QED BY <2>3, <2>4, AnnounceChange
<1> QED BY <1>3, <1>4, <1>5

-----------------------------------------------------------------------------
(* The index and its rebuild.                                              *)

\* A request that begins takes an idle slot for its event and leaves the index alone.
LEMMA BeginSlot ==
    ASSUME TypeOK, NEW r \in Requests, NEW d \in Events, Begin(r, d)
    PROVE  /\ requests[r] = Idle /\ requests'[r] # Idle /\ requests'[r].event = d
           /\ Overlap(d) /\ UNCHANGED index
           /\ requests'[r].step \in Before /\ requests'[r].seen = events'[d]
           /\ \A e \in Events \ {d} : events'[e] = events[e]
           /\ Exists(d) => events' = events
<1>1. CASE \E v \in {"PUBLIC", "PRIVATE"}, c \in Contents : CreateManual(r, d, v, c)
  <2>1. PICK v \in {"PUBLIC", "PRIVATE"}, c \in Contents : CreateManual(r, d, v, c)
    BY <1>1
  <2>2. /\ ~Exists(d) /\ events'[d] = NewRow(v, c)
        /\ \A e \in Events : e # d => events'[e] = events[e]
    BY <2>1, CreateFacts
  <2>3. /\ requests[r] = Idle /\ requests'[r] # Idle
        /\ requests'[r] = [step |-> "record", event |-> d, seen |-> NewRow(v, c),
                           to |-> "DRAFT", content |-> c, first |-> FALSE]
    BY <2>1, CreateSlot
  <2>4. Overlap(d) /\ UNCHANGED index
    BY <2>1 DEF CreateManual
  <2> QED BY <2>2, <2>3, <2>4 DEF Before
<1>2. CASE (\E c \in Contents : Update(r, d, c))
             \/ (\E to \in EventStatus : Transition(r, d, to) \/ TransitionPrivate(r, d, to)
                                               \/ Decide(r, d, to))
  <2>1. /\ Exists(d) /\ UNCHANGED <<events, index>>
        /\ \E at \in {"apply", "applyPrivate", "update", "rule"}, to \in EventStatus, c \in Contents :
              Start(r, d, at, to, c)
    BY <1>2, BeginFacts
  <2>2. PICK at \in {"apply", "applyPrivate", "update", "rule"}, to \in EventStatus, c \in Contents :
           Start(r, d, at, to, c)
    BY <2>1
  <2>3. /\ requests[r] = Idle /\ requests'[r] # Idle
        /\ requests'[r].step = at /\ requests'[r].event = d /\ requests'[r].seen = events[d]
    BY <2>1, <2>2, StartFacts DEF Steps
  <2>4. Overlap(d)
    BY <2>2 DEF Start
  <2> QED BY <2>1, <2>3, <2>4 DEF Before
<1> QED BY <1>1, <1>2 DEF Begin

\* A request that goes on concerns its own event only.
LEMMA ContinueSlot ==
    ASSUME TypeOK, FlightInv, NEW r \in Requests, Continue(r)
    PROVE  /\ requests[r] # Idle /\ requests[r].event \in Events /\ UNCHANGED rebuild
           /\ requests'[r] = Idle \/ requests'[r].event = requests[r].event
           /\ \A e \in Events \ {requests[r].event} :
                 /\ events'[e] = events[e] /\ index'[e] = index[e]
                 /\ e \in doubtful' <=> e \in doubtful
<1>1. requests[r] # Idle
  BY FlightFacts
     DEF Continue, At, Steps, RecordStatusEvent, UpdateWithRefs, ApplyTransition,
         SetEventStatus, IndexLoad, IndexUpsert, IndexRemove, IndexFails, Notify, LoseRequest
<1>2. requests[r].event \in Events
  BY <1>1, InFlightFacts
<1>3. UNCHANGED rebuild
  BY DEF Continue, RecordStatusEvent, UpdateWithRefs, ApplyTransition, SetEventStatus,
         IndexLoad, IndexUpsert, IndexRemove, IndexFails, Notify, LoseRequest
<1>4. requests'[r] = Idle \/ requests'[r].event = requests[r].event
  <2>1. CASE ApplyTransition(r)
    BY <2>1, ApplyFacts
  <2>1a. CASE SetEventStatus(r)
    BY <2>1a, RuleFacts
  <2>2. CASE IndexLoad(r)
    BY <2>2, LoadFacts
  <2>3. CASE IndexUpsert(r) \/ IndexRemove(r) \/ IndexFails(r)
    BY <1>1, <2>3, GotoFacts DEF IndexUpsert, IndexRemove, IndexFails, Steps
  <2>4. CASE RecordStatusEvent(r) \/ UpdateWithRefs(r) \/ Notify(r) \/ LoseRequest(r)
    BY <2>4, FinishFacts DEF RecordStatusEvent, UpdateWithRefs, Notify, LoseRequest
  <2> QED BY <2>1, <2>1a, <2>2, <2>3, <2>4 DEF Continue
<1>5. ASSUME NEW e \in Events, e # requests[r].event PROVE events'[e] = events[e]
  <2>1. CASE UpdateWithRefs(r)
    BY <1>5, <2>1, UpdateFacts
  <2>2. CASE ApplyTransition(r)
    BY <1>5, <2>2, ApplyFacts
  <2>3. CASE SetEventStatus(r)
    BY <1>5, <2>3, RuleFacts
  <2> QED BY <2>1, <2>2, <2>3
    DEF Continue, RecordStatusEvent, IndexLoad, IndexUpsert, IndexRemove, IndexFails, Notify,
        LoseRequest, rowVars, rulings
<1>6. ASSUME NEW e \in Events, e # requests[r].event PROVE index'[e] = index[e]
  <2>1. index \in [Events -> Contents \cup {NoDoc}]
    BY DEF TypeOK
  <2> QED BY <1>2, <1>6, <2>1
    DEF Continue, RecordStatusEvent, UpdateWithRefs, ApplyTransition, SetEventStatus, IndexLoad,
        IndexUpsert, IndexRemove, IndexFails, Notify, LoseRequest
<1>7. ASSUME NEW e \in Events, e # requests[r].event PROVE e \in doubtful' <=> e \in doubtful
  BY <1>7
    DEF Unsynced, Continue, RecordStatusEvent, UpdateWithRefs, ApplyTransition, SetEventStatus,
        IndexLoad, IndexUpsert, IndexRemove, IndexFails, Notify, LoseRequest
<1> QED BY <1>1, <1>2, <1>3, <1>4, <1>5, <1>6, <1>7

\* InFlight, request by request.
LEMMA InFlightMembers ==
    ASSUME NEW e \in Events
    PROVE  /\ \A r \in Requests : r \in InFlight(e) <=> requests[r] # Idle /\ requests[r].event = e
           /\ InFlight(e) = {} <=> \A r \in Requests : requests[r] # Idle => requests[r].event # e
           /\ InFlight(e) \subseteq Requests
  BY DEF InFlight

\* What an event and its index depend on is left alone.
LEMMA AloneKept ==
    ASSUME NEW e \in Events, Alone(e), events'[e] = events[e], index'[e] = index[e],
           rebuild'.step = rebuild.step, e \in rebuild.clean => e \in rebuild'.clean,
           \A s \in Requests : \/ requests'[s] = requests[s]
                               \/ /\ requests[s] = Idle \/ requests[s].event # e
                                  /\ requests'[s] = Idle \/ requests'[s].event # e
    PROVE  Alone(e)'
<1>1. InFlight(e)' = InFlight(e)
  BY DEF InFlight
<1>2. \A r \in InFlight(e) : requests'[r] = requests[r]
  BY DEF InFlight
<1>3. Document(e)' = Document(e)
  BY DEF Document, Is, Exists
<1> QED BY <1>1, <1>2, <1>3 DEF Alone

LEMMA RebuildKept ==
    ASSUME NEW e \in Events, RebuildRule(e), events'[e] = events[e], index'[e] = index[e],
           rebuild'.step = rebuild.step, rebuild'.docs[e] = rebuild.docs[e],
           e \in rebuild'.clean => e \in rebuild.clean,
           \A s \in Requests : \/ requests'[s] = requests[s]
                               \/ requests'[s] = Idle \/ requests'[s].event # e
    PROVE  RebuildRule(e)'
<1>1. InFlight(e) = {} => InFlight(e)' = {}
  BY DEF InFlight
<1>2. Document(e)' = Document(e)
  BY DEF Document, Is, Exists
<1> QED BY <1>1, <1>2 DEF RebuildRule

\* An event nobody has created has no request and no document.
LEMMA Unborn ==
    ASSUME TypeOK, FlightInv, PrivacyInv, NEW e \in Events, ~Exists(e)
    PROVE  InFlight(e) = {} /\ index[e] = NoDoc /\ Document(e) = NoDoc
<1>1. \A r \in Requests : requests[r] # Idle => requests[r].event # e
  BY InFlightFacts
<1> QED BY <1>1, InFlightMembers DEF PrivacyInv, Document, Is

\* The state of an event with one request and no rebuild.
LEMMA AloneSlot ==
    ASSUME NEW e \in Events, NEW r \in Requests, rebuild'.step = "idle",
           \A s \in Requests \ {r} : requests'[s] = Idle \/ requests'[s].event # e,
           requests'[r] = Idle => index'[e] = Document(e)',
           requests'[r] # Idle =>
              /\ requests'[r].event = e
              /\ requests'[r].step \in Before => requests'[r].seen = events'[e]
              /\ requests'[r].step \in After => requests'[r].to = events'[e].status
              /\ requests'[r].step \in Before \cup {"notify"} => index'[e] = Document(e)'
              /\ requests'[r].step = "upsert" => requests'[r].content = events'[e].content
              /\ requests'[r].step = "remove" => events'[e].status # "PUBLISHED"
    PROVE  Alone(e)'
<1>1. \A s \in InFlight(e)' : s = r /\ requests'[r] # Idle
  BY DEF InFlight
<1>2. InFlight(e)' = {} => requests'[r] = Idle
  BY DEF InFlight
<1> QED BY <1>1, <1>2 DEF Alone

\* A request alone on its event goes on.
LEMMA AloneContinue ==
    ASSUME TypeOK, FlightInv, PrivacyInv, RebuildInv, NEW r \in Requests, Continue(r),
           NEW e \in Events, requests[r].event = e, e \notin doubtful, Alone(e), e \notin doubtful'
    PROVE  Alone(e)'
<1> DEFINE q == requests[r]
<1>1. q # Idle /\ UNCHANGED rebuild
  BY ContinueSlot
<1>2. /\ q \in Flight /\ q.to \in EventStatus /\ q.content \in Contents /\ q.seen \in Row
      /\ events[e] \in Row /\ Exists(e) /\ FlightRule(q) /\ q.step \in Steps
  BY <1>1, InFlightFacts DEF FlightInv
<1>3. r \in InFlight(e)
  BY <1>1, InFlightMembers
<1>4. rebuild'.step = "idle"
  BY <1>1, <1>3 DEF RebuildInv, RebuildRule, Alone
<1>5. \A s \in Requests \ {r} : requests'[s] = Idle \/ requests'[s].event # e
  <2>1. ASSUME NEW s \in Requests \ {r} PROVE requests[s] = Idle \/ requests[s].event # e
    BY <1>3, InFlightMembers DEF Alone
  <2>2. \A s \in Requests \ {r} : requests'[s] = requests[s]
    BY OthersKept
  <2> QED BY <2>1, <2>2
<1>6. /\ q.step \in Before => q.seen = events[e]
      /\ q.step \in After => q.to = events[e].status
      /\ q.step \in Before \cup {"notify"} => index[e] = Document(e)
      /\ q.step = "upsert" => q.content = events[e].content
      /\ q.step = "remove" => events[e].status # "PUBLISHED"
  BY <1>3 DEF Alone
<1>7. events'[e] = events[e] => Document(e)' = Document(e)
  BY DEF Document, Is, Exists
<1>8. CASE RecordStatusEvent(r) \/ Notify(r) \/ LoseRequest(r)
  <2>1. q.step \in Before \cup {"notify"}
    BY <1>2, <1>8 DEF RecordStatusEvent, Notify, LoseRequest, At, Steps, Before
  <2>2. Finish(r) /\ UNCHANGED <<events, index>>
    BY <1>8 DEF RecordStatusEvent, Notify, LoseRequest, rowVars, rulings
  <2>3. requests'[r] = Idle
    BY <2>2, FinishFacts
  <2> QED BY <1>4, <1>5, <1>6, <1>7, <2>1, <2>2, <2>3, AloneSlot
<1>9. CASE UpdateWithRefs(r)
  <2>1. /\ q.step = "update" /\ requests'[r] = Idle /\ UNCHANGED index
        /\ events'[e].status = events[e].status
    BY <1>9, UpdateFacts DEF UpdateWithRefs
  <2>2. events[e].status # "PUBLISHED"
    BY <1>2, <1>6, <2>1 DEF FlightRule, EDITABLE_STATUSES, Before
  <2>3. index'[e] = Document(e)'
    BY <1>6, <2>1, <2>2 DEF Document, Is, Before
  <2> QED BY <1>4, <1>5, <2>1, <2>3, AloneSlot
<1>10. CASE ApplyTransition(r) /\ q.step = "applyPrivate"
  <2>1. requests'[r] = Idle /\ UNCHANGED index /\ events'[e] = Published(events[e], q.to)
    BY <1>10, ApplyFacts DEF ApplyTransition
  <2>2. events[e].visibility = "PRIVATE" /\ q.to # "PUBLISHED"
    BY <1>2, <1>10 DEF FlightRule
  <2>3. index[e] = NoDoc
    <3>1. events[e].status # "PUBLISHED"
      BY <1>10 DEF ApplyTransition, Unsynced, At
    <3> QED BY <1>6, <1>10, <3>1 DEF Document, Is, Before
  <2>4. events'[e].status # "PUBLISHED"
    BY <1>2, <2>1, <2>2, PublishedFacts
  <2>5. index'[e] = Document(e)'
    BY <2>1, <2>3, <2>4 DEF Document, Is
  <2> QED BY <1>4, <1>5, <2>1, <2>5, AloneSlot
<1>11. CASE ApplyTransition(r) /\ q.step # "applyPrivate"
  <2>1. /\ q.step = "apply" /\ events'[e] = Published(events[e], q.to)
        /\ requests'[r] # Idle /\ requests'[r].event = e /\ requests'[r].to = q.to
        /\ requests'[r].step = SyncStep(q.to)
    BY <1>11, ApplyFacts
  <2>2. events'[e].status = q.to
    BY <1>2, <2>1, PublishedFacts
  <2>3. /\ requests'[r].step \in {"load", "remove"}
        /\ requests'[r].step = "remove" => q.to # "PUBLISHED"
    BY <2>1 DEF SyncStep
  <2> QED BY <1>4, <1>5, <2>1, <2>2, <2>3, AloneSlot DEF Before
<1>11a. CASE SetEventStatus(r)
  <2>1. /\ q.step = "rule" /\ events'[e].status = q.to
        /\ requests'[r] # Idle /\ requests'[r].event = e /\ requests'[r].to = q.to
        /\ requests'[r].step = SyncStep(q.to)
    BY <1>11a, RuleFacts
  <2>2. /\ requests'[r].step \in {"load", "remove"}
        /\ requests'[r].step = "remove" => q.to # "PUBLISHED"
    BY <2>1 DEF SyncStep
  <2> QED BY <1>4, <1>5, <2>1, <2>2, AloneSlot DEF Before
<1>12. CASE IndexLoad(r)
  <2>1. /\ q.step = "load" /\ requests'[r] # Idle /\ requests'[r].event = e /\ requests'[r].to = q.to
        /\ requests'[r].step = (IF events[e].status = "PUBLISHED" THEN "upsert" ELSE "remove")
        /\ requests'[r].content = events[e].content
    BY <1>12, LoadFacts
  <2>1a. UNCHANGED events
    BY <1>12 DEF IndexLoad, rowVars
  <2>2. q.to = events[e].status
    BY <1>6, <2>1 DEF After
  <2> QED BY <1>4, <1>5, <2>1, <2>1a, <2>2, AloneSlot DEF Before
<1>13. CASE IndexUpsert(r) \/ IndexRemove(r)
  <2>1. /\ q.step \in {"upsert", "remove"} /\ Goto(r, "notify") /\ UNCHANGED events
        /\ index'[e] = IF q.step = "upsert" THEN q.content ELSE NoDoc
    <3>1. index \in [Events -> Contents \cup {NoDoc}]
      BY DEF TypeOK
    <3> QED BY <1>13, <3>1 DEF IndexUpsert, IndexRemove, At, rowVars, rulings
  <2>2. /\ requests'[r] # Idle /\ requests'[r].step = "notify" /\ requests'[r].event = e
        /\ requests'[r].to = q.to
    BY <1>1, <2>1, GotoFacts DEF Steps
  <2>3. q.to = events[e].status
    BY <1>6, <2>1 DEF After
  <2>4. index'[e] = Document(e)
    BY <1>2, <1>6, <2>1, <2>3 DEF Document, Is, FlightRule
  <2> QED BY <1>4, <1>5, <1>7, <2>1, <2>2, <2>3, <2>4, AloneSlot DEF Before
<1>14. CASE IndexFails(r)
  BY <1>14 DEF IndexFails
<1> QED BY <1>8, <1>9, <1>10, <1>11, <1>11a, <1>12, <1>13, <1>14 DEF Continue

LEMMA AloneBegin ==
    ASSUME TypeOK, FlightInv, PrivacyInv, AloneInv, NEW r \in Requests, NEW e \in Events,
           Begin(r, e), e \notin doubtful'
    PROVE  Alone(e)'
<1>1. /\ requests'[r] # Idle /\ requests'[r].event = e /\ UNCHANGED index
      /\ requests'[r].step \in Before /\ requests'[r].seen = events'[e]
      /\ Overlap(e)
      /\ Exists(e) => events' = events
  BY BeginSlot
<1>2. /\ InFlight(e) = {} /\ rebuild.step = "idle" /\ e \notin doubtful
      /\ rebuild'.step = "idle"
  BY <1>1, OverlapFacts
<1>3. index'[e] = Document(e)'
  <2>1. CASE Exists(e)
    BY <1>1, <1>2, <2>1 DEF AloneInv, Alone, Document, Is, Exists
  <2>2. CASE ~Exists(e)
    <3>1. PICK v \in {"PUBLIC", "PRIVATE"}, c \in Contents : CreateManual(r, e, v, c)
      BY <2>2 DEF Begin, Update, Transition, TransitionPrivate, Decide
    <3>2. events'[e] = NewRow(v, c)
      BY <3>1, CreateFacts
    <3> QED BY <1>1, <2>2, <3>2, Unborn DEF Document, Is, NewRow
  <2> QED BY <2>1, <2>2
<1>4. \A s \in Requests \ {r} : requests'[s] = Idle \/ requests'[s].event # e
  <2>1. \A s \in Requests \ {r} : requests'[s] = requests[s]
    BY OthersKept
  <2> QED BY <1>2, <2>1, InFlightMembers
<1> QED BY <1>1, <1>2, <1>3, <1>4, AloneSlot DEF Before, After

\* The steps of a rebuild, seen from one event.
LEMMA AloneRebuild ==
    ASSUME TypeOK, AloneInv, RebuildInv, Rebuild, NEW e \in Events, e \notin doubtful'
    PROVE  Alone(e)'
<1>1. Document(e)' = Document(e) /\ InFlight(e)' = InFlight(e)
  BY DEF Rebuild, RebuildLoad, RebuildClear, RebuildUpsert, RebuildDone, RebuildFails, rowVars,
         rulings, Document, Is, Exists, InFlight
<1>2. CASE RebuildLoad
  <2>1. InFlight(e) = {} /\ rebuild'.step = "clear" /\ e \in rebuild'.clean
    BY <1>2 DEF RebuildLoad
  <2> QED BY <1>1, <2>1 DEF Alone
<1>3. CASE RebuildClear \/ \E d \in Events : RebuildUpsert(d)
  <2>1. /\ rebuild.step \in {"clear", "upsert"} /\ rebuild'.step = "upsert"
        /\ rebuild'.clean = rebuild.clean /\ doubtful' = doubtful
    BY <1>3 DEF RebuildClear, RebuildUpsert, TypeOK
  <2>2. e \in rebuild.clean /\ InFlight(e) = {}
    BY <2>1 DEF AloneInv, Alone, RebuildInv, RebuildRule
  <2> QED BY <1>1, <2>1, <2>2 DEF Alone
<1>4. CASE RebuildDone
  <2>1. /\ rebuild.step = "upsert" /\ rebuild.docs[e] = NoDoc /\ UNCHANGED index
        /\ rebuild'.step = "idle" /\ doubtful' = doubtful \ rebuild.clean
    BY <1>4 DEF RebuildDone, NoDocs
  <2>2. e \in rebuild.clean
    BY <2>1 DEF AloneInv, Alone
  <2>3. InFlight(e) = {} /\ index[e] = Document(e)
    BY <2>1, <2>2 DEF RebuildInv, RebuildRule
  <2> QED BY <1>1, <2>1, <2>3 DEF Alone
<1>5. CASE RebuildFails
  BY <1>5 DEF RebuildFails
<1> QED BY <1>2, <1>3, <1>4, <1>5 DEF Rebuild

LEMMA AloneStep ==
    ASSUME TypeOK, FlightInv, PrivacyInv, AloneInv, RebuildInv, [Next]_vars
    PROVE  AloneInv'
<1> SUFFICES ASSUME NEW e \in Events, e \notin doubtful' PROVE Alone(e)'
  BY DEF AloneInv
<1>1. ASSUME NEW r \in Requests, NEW d \in Events, Begin(r, d) PROVE Alone(e)'
  <2>1. CASE d = e
    BY <1>1, <2>1, AloneBegin
  <2>2. CASE d # e
    <3>1. /\ requests[r] = Idle /\ requests'[r].event = d /\ Overlap(d) /\ UNCHANGED index
          /\ events'[e] = events[e]
      BY <1>1, <2>2, BeginSlot
    <3>2. /\ e \notin doubtful /\ rebuild'.step = rebuild.step
          /\ e \in rebuild.clean => e \in rebuild'.clean
      BY <2>2, <3>1, OverlapFacts
    <3>3. \A s \in Requests \ {r} : requests'[s] = requests[s]
      BY <1>1, OthersKept
    <3> QED BY <2>2, <3>1, <3>2, <3>3, AloneKept DEF AloneInv
  <2> QED BY <2>1, <2>2
<1>2. ASSUME NEW r \in Requests, Continue(r) PROVE Alone(e)'
  <2>1. /\ requests[r] # Idle /\ UNCHANGED rebuild
        /\ requests'[r] = Idle \/ requests'[r].event = requests[r].event
        /\ e # requests[r].event =>
              /\ events'[e] = events[e] /\ index'[e] = index[e]
              /\ e \in doubtful' <=> e \in doubtful
    BY <1>2, ContinueSlot
  <2>2. CASE requests[r].event = e
    <3>1. e \notin doubtful
      BY <1>2 DEF Unsynced, Continue, RecordStatusEvent, UpdateWithRefs, ApplyTransition,
                  SetEventStatus, IndexLoad, IndexUpsert, IndexRemove, IndexFails, Notify,
                  LoseRequest
    <3> QED BY <1>2, <2>2, <3>1, AloneContinue DEF AloneInv
  <2>3. CASE requests[r].event # e
    <3>1. \A s \in Requests \ {r} : requests'[s] = requests[s]
      BY <1>2, OthersKept
    <3> QED BY <2>1, <2>3, <3>1, AloneKept DEF AloneInv
  <2> QED BY <2>2, <2>3
<1>3. ASSUME NEW d \in Events, NEW v \in {"PUBLIC", "PRIVATE"}, NEW c \in Contents,
             CreateFromCandidate(d, v, c)
      PROVE  Alone(e)'
  <2>1. /\ ~Exists(d) /\ events' = [events EXCEPT ![d] = NewRow(v, c)]
        /\ UNCHANGED <<requests, index, rebuild, doubtful>>
    BY <1>3 DEF CreateFromCandidate
  <2>2. CASE d = e
    <3>1. InFlight(e) = {} /\ index[e] = NoDoc
      BY <2>1, <2>2, Unborn
    <3>2. InFlight(e)' = {} /\ index'[e] = NoDoc /\ rebuild' = rebuild
      BY <2>1, <3>1 DEF InFlight
    <3>3. events'[e].status = "DRAFT"
      BY <2>1, <2>2 DEF TypeOK, NewRow
    <3>4. Document(e)' = NoDoc
      BY <3>3 DEF Document, Is
    <3>5. rebuild.step # "idle" => e \in rebuild.clean
      BY <2>1 DEF AloneInv, Alone
    <3> QED BY <3>2, <3>4, <3>5 DEF Alone
  <2>3. CASE d # e
    <3>1. events'[e] = events[e]
      BY <2>1, <2>3 DEF TypeOK
    <3> QED BY <2>1, <3>1, AloneKept DEF AloneInv
  <2> QED BY <2>2, <2>3
<1>4. CASE Rebuild
  BY <1>4, AloneRebuild
<1>5. CASE UNCHANGED vars
  <2>1. UNCHANGED <<events, index, rebuild, requests, doubtful>>
    BY <1>5 DEF vars, rowVars, rulings
  <2> QED BY <2>1, AloneKept DEF AloneInv
<1> QED BY <1>1, <1>2, <1>3, <1>4, <1>5 DEF Next

LEMMA RebuildStep ==
    ASSUME TypeOK, FlightInv, PrivacyInv, RebuildInv, [Next]_vars
    PROVE  RebuildInv'
<1> SUFFICES ASSUME NEW e \in Events PROVE RebuildRule(e)'
  BY DEF RebuildInv
<1>0. RebuildRule(e)
  BY DEF RebuildInv
<1>1. ASSUME NEW r \in Requests, NEW d \in Events, Begin(r, d) PROVE RebuildRule(e)'
  <2>1. /\ requests'[r].event = d /\ Overlap(d) /\ UNCHANGED index
        /\ e # d => events'[e] = events[e]
    BY <1>1, BeginSlot
  <2>2. /\ rebuild'.step = rebuild.step /\ rebuild'.docs = rebuild.docs
        /\ rebuild'.clean = rebuild.clean \ {d}
    BY <2>1, OverlapFacts
  <2>3. CASE d = e
    BY <1>0, <2>2, <2>3 DEF RebuildRule
  <2>4. CASE d # e
    <3>1. \A s \in Requests \ {r} : requests'[s] = requests[s]
      BY <1>1, OthersKept
    <3> QED BY <1>0, <2>1, <2>2, <2>4, <3>1, RebuildKept
  <2> QED BY <2>3, <2>4
<1>2. ASSUME NEW r \in Requests, Continue(r) PROVE RebuildRule(e)'
  <2>1. /\ requests[r] # Idle /\ UNCHANGED rebuild
        /\ requests'[r] = Idle \/ requests'[r].event = requests[r].event
        /\ e # requests[r].event => events'[e] = events[e] /\ index'[e] = index[e]
    BY <1>2, ContinueSlot
  <2>2. CASE requests[r].event = e
    <3>1. r \in InFlight(e)
      BY <2>1, <2>2, InFlightMembers
    <3> QED BY <1>0, <2>1, <3>1 DEF RebuildRule
  <2>3. CASE requests[r].event # e
    <3>1. \A s \in Requests \ {r} : requests'[s] = requests[s]
      BY <1>2, OthersKept
    <3> QED BY <1>0, <2>1, <2>3, <3>1, RebuildKept
  <2> QED BY <2>2, <2>3
<1>3. ASSUME NEW d \in Events, NEW v \in {"PUBLIC", "PRIVATE"}, NEW c \in Contents,
             CreateFromCandidate(d, v, c)
      PROVE  RebuildRule(e)'
  <2>1. /\ ~Exists(d) /\ events' = [events EXCEPT ![d] = NewRow(v, c)]
        /\ UNCHANGED <<requests, index, rebuild>>
    BY <1>3 DEF CreateFromCandidate
  <2>2. CASE d = e
    <3>1. events'[e].status = "DRAFT"
      BY <2>1, <2>2 DEF TypeOK, NewRow
    <3>2. Document(e)' = NoDoc /\ Document(e) = NoDoc
      BY <2>1, <2>2, <3>1, Unborn DEF Document, Is
    <3>3. InFlight(e)' = InFlight(e)
      BY <2>1 DEF InFlight
    <3> QED BY <1>0, <2>1, <3>2, <3>3 DEF RebuildRule
  <2>3. CASE d # e
    <3>1. events'[e] = events[e]
      BY <2>1, <2>3 DEF TypeOK
    <3> QED BY <1>0, <2>1, <3>1, RebuildKept
  <2> QED BY <2>2, <2>3
<1>4. CASE Rebuild
  <2>1. Document(e)' = Document(e) /\ InFlight(e)' = InFlight(e)
    BY <1>4
       DEF Rebuild, RebuildLoad, RebuildClear, RebuildUpsert, RebuildDone, RebuildFails,
           rowVars, rulings, Document, Is, Exists, InFlight
  <2>2. CASE RebuildLoad
    <3>1. rebuild'.docs[e] = Document(e)
      BY <2>2, RowFacts DEF RebuildLoad, Document, Is
    <3>2. rebuild'.step = "clear" /\ (e \in rebuild'.clean => InFlight(e) = {})
      BY <2>2 DEF RebuildLoad
    <3> QED BY <2>1, <3>1, <3>2 DEF RebuildRule
  <2>3. CASE RebuildClear
    <3>1. /\ rebuild.step = "clear" /\ rebuild'.step = "upsert" /\ rebuild'.docs = rebuild.docs
          /\ rebuild'.clean = rebuild.clean /\ index'[e] = NoDoc
      BY <2>3 DEF RebuildClear, NoDocs, TypeOK
    <3> QED BY <1>0, <2>1, <3>1 DEF RebuildRule
  <2>4. ASSUME NEW d \in Events, RebuildUpsert(d) PROVE RebuildRule(e)'
    <3>1. /\ rebuild.step = "upsert" /\ rebuild'.step = "upsert" /\ rebuild'.clean = rebuild.clean
          /\ rebuild'.docs[e] = (IF d = e THEN NoDoc ELSE rebuild.docs[e])
          /\ d = e => rebuild.docs[e] # NoDoc
      BY <2>4 DEF RebuildUpsert, TypeOK
    <3>2. index'[e] = IF d = e THEN rebuild.docs[e] ELSE index[e]
      <4>1. index \in [Events -> Contents \cup {NoDoc}]
        BY DEF TypeOK
      <4> QED BY <2>4, <4>1 DEF RebuildUpsert
    <3> QED BY <1>0, <2>1, <3>1, <3>2 DEF RebuildRule
  <2>5. CASE RebuildDone \/ RebuildFails
    BY <2>5 DEF RebuildDone, RebuildFails, NoDocs, RebuildRule
  <2> QED BY <1>4, <2>2, <2>3, <2>4, <2>5 DEF Rebuild
<1>5. CASE UNCHANGED vars
  <2>1. UNCHANGED <<events, index, rebuild, requests>>
    BY <1>5 DEF vars, rowVars, rulings
  <2> QED BY <1>0, <2>1, RebuildKept
<1> QED BY <1>1, <1>2, <1>3, <1>4, <1>5 DEF Next

-----------------------------------------------------------------------------
(* The theorems.                                                           *)

LEMMA InitInv == Init => IInv
<1> SUFFICES ASSUME Init PROVE IInv
  OBVIOUS
<1>1. /\ \A e \in Events : ~Exists(e) /\ InFlight(e) = {} /\ Document(e) = NoDoc
      /\ \A r \in Requests : requests[r] = Idle
      /\ \A e \in Events : index[e] = NoDoc /\ firstPublished[e] = 0 /\ journal[e] = << >>
                           /\ rebuild.docs[e] = NoDoc
      /\ rebuild.step = "idle"
  BY DEF Init, NoDocs, Exists, InFlight, Document, Is
<1>2. TypeOK
  BY DEF Init, TypeOK, NoDocs
<1>3. FlightInv /\ PrivacyInv /\ JournalTellsStatus /\ PublishedIsCoherentUnlessRaced
  BY <1>1 DEF Init, FlightInv, PrivacyInv, JournalTellsStatus, PublishedIsCoherentUnlessRaced, Is
<1>4. AnnounceInv
  BY <1>1 DEF AnnounceInv, Announcing
<1>5. AloneInv /\ RebuildInv
  BY <1>1 DEF AloneInv, Alone, RebuildInv, RebuildRule
<1> QED BY <1>2, <1>3, <1>4, <1>5 DEF IInv

LEMMA StepInv == IInv /\ [Next]_vars => IInv'
<1> SUFFICES ASSUME IInv, [Next]_vars PROVE IInv'
  OBVIOUS
<1>1. /\ TypeOK /\ FlightInv /\ PrivacyInv /\ JournalTellsStatus
      /\ PublishedIsCoherentUnlessRaced /\ AnnounceInv /\ AloneInv /\ RebuildInv
  BY DEF IInv
<1>2. TypeOK' /\ FlightInv' /\ PrivacyInv'
  BY <1>1, TypeStep, FlightStep, PrivacyStep
<1>3. JournalTellsStatus' /\ PublishedIsCoherentUnlessRaced' /\ AnnounceInv'
  BY <1>1, JournalStep, CoherenceStep, AnnounceStep
<1>4. AloneInv' /\ RebuildInv'
  BY <1>1, AloneStep, RebuildStep
<1> QED BY <1>2, <1>3, <1>4 DEF IInv

\* The inductive invariant of the editorial workflow: rows, journal, requests in flight,
\* index and rebuild agree in every reachable state, whatever the interleaving.
THEOREM Inductive == Spec => []IInv
  BY InitInv, StepInv, PTL DEF Spec

\* Every variable of the editorial workflow keeps its type.
THEOREM TypeCorrect == Spec => []TypeOK
<1>1. IInv => TypeOK
  BY DEF IInv
<1> QED BY <1>1, Inductive, PTL

\* An event created private stays private and is never announced, and unless moderation has
\* restored it, it is neither published nor indexed: no interleaving of transitions,
\* corrections, decisions and rebuilds changes that.
THEOREM Privacy == Spec => []PrivateNeverDiffused
<1>1. IInv => PrivateNeverDiffused
  BY DEF IInv, PrivacyInv, PrivateNeverDiffused, TypeOK
<1> QED BY <1>1, Inductive, PTL

\* The last change an event's journal tells is the one that gave it its status, except while
\* the status is one moderation has written: the row and the line of a transition are written
\* in one transaction, and the line of the creation, wherever it comes, changes nothing of it.
THEOREM JournalAgrees == Spec => []JournalTellsStatus
<1>1. IInv => JournalTellsStatus
  BY DEF IInv
<1> QED BY <1>1, Inductive, PTL

\* For an event no request has written over unread: outside moderation's decisions the
\* workflow's table is followed, what
\* is diffused satisfies the rules and is not corrected, followers are informed once.
THEOREM SoundUnlessRaced ==
    Spec => /\ WorkflowUnlessRaced /\ PublishedIsFrozenUnlessRaced
            /\ []PublishedIsCoherentUnlessRaced /\ []AnnouncedOnceUnlessRaced
<1>1. ASSUME IInv, [Next]_vars, NEW e \in Events, Exists(e), e \notin raced'
      PROVE  /\ events'[e].status # events[e].status /\ e \notin ruled' =>
                   events'[e].status \in ALLOWED[events[e].status]
             /\ Is(e, "PUBLISHED") => events'[e].content = events[e].content
  <2>1. TypeOK /\ FlightInv
    BY <1>1 DEF IInv
  <2>2. ASSUME NEW r \in Requests, requests[r] # Idle, requests[r].event = e, UpdateWithRefs(r)
        PROVE  ~Is(e, "PUBLISHED")
    <3>1. requests[r].seen.status \in EDITABLE_STATUSES /\ events[e] = requests[r].seen
      BY <1>1, <2>1, <2>2, UpdateFacts, RaceFacts DEF FlightInv, FlightRule
    <3> QED BY <3>1 DEF EDITABLE_STATUSES, Is
  <2>3. ASSUME NEW r \in Requests, requests[r] # Idle, requests[r].event = e, ApplyTransition(r)
        PROVE  requests[r].to \in ALLOWED[events[e].status]
    BY <1>1, <2>1, <2>3, ApplyFacts, RaceFacts DEF FlightInv, FlightRule
  <2> QED BY <1>1, <2>1, <2>2, <2>3, RowChange
<1>2. IInv /\ [Next]_vars =>
         /\ [\A e \in Events :
                Exists(e) /\ events'[e].status # events[e].status /\ e \notin raced' \cup ruled' =>
                   events'[e].status \in ALLOWED[events[e].status]]_vars
         /\ [\A e \in Events : Is(e, "PUBLISHED") /\ e \notin raced' =>
                                  events'[e].content = events[e].content]_vars
  BY <1>1 DEF Is
<1>3. IInv => PublishedIsCoherentUnlessRaced /\ AnnouncedOnceUnlessRaced
  BY DEF IInv, AnnounceInv, AnnouncedOnceUnlessRaced
<1> QED BY <1>2, <1>3, Inductive, PTL
  DEF Spec, WorkflowUnlessRaced, PublishedIsFrozenUnlessRaced

\* What is diffused satisfies the rules of publication, as long as no request has written over
\* the event unread and moderation has not decided on it.
THEOREM CoherentUnlessRaced == Spec => []PublishedIsCoherentUnlessRaced
<1>1. IInv => PublishedIsCoherentUnlessRaced
  BY DEF IInv
<1> QED BY <1>1, Inductive, PTL

\* A correction never reaches an event while it is diffused, as long as no request has written
\* over the event unread.
THEOREM FrozenUnlessRaced == Spec => PublishedIsFrozenUnlessRaced
  BY SoundUnlessRaced, PTL

\* The followers of an event no request has written over unread are informed of it once at most.
THEOREM AnnouncedOnce == Spec => []AnnouncedOnceUnlessRaced
<1>1. IInv => AnnouncedOnceUnlessRaced
  BY DEF IInv, AnnounceInv, AnnouncedOnceUnlessRaced
<1> QED BY <1>1, Inductive, PTL

\* At rest the index holds the published content of every event whose index calls neither
\* overlapped nor failed since the last undisturbed rebuild.
THEOREM IndexAgrees == Spec => []IndexFaithful
<1>1. IInv => IndexFaithful
  BY DEF IInv, AloneInv, Alone, IndexFaithful, Document
<1> QED BY <1>1, Inductive, PTL

-----------------------------------------------------------------------------
(* Requests about an event that do not overlap.                            *)

\* Of the requests about e at most one is in flight.
Uncontended(e) == \A r, q \in InFlight(e) : r = q

\* The row of e that a request has read is still there when it is about to write over it.
Undisturbed(e) ==
    /\ e \notin raced
    /\ \A r \in InFlight(e) : requests[r].step \in Before => requests[r].seen = events[e]

\* A step touches one slot.
LEMMA OtherSlots ==
    ASSUME TypeOK, NEW r \in Requests, Continue(r) \/ \E d \in Events : Begin(r, d)
    PROVE  \A q \in Requests \ {r} : requests'[q] = requests[q]
<1>1. CASE Continue(r)
  BY <1>1 DEF TypeOK, Continue, RecordStatusEvent, UpdateWithRefs, ApplyTransition, SetEventStatus,
     IndexLoad, IndexUpsert, IndexRemove, IndexFails, Notify, LoseRequest, Goto, Finish
<1>2. CASE \E d \in Events : Begin(r, d)
  BY <1>2 DEF TypeOK, Begin, CreateManual, Update, Transition, TransitionPrivate, Decide, Start
<1> QED BY <1>1, <1>2

LEMMA UndisturbedKept ==
    ASSUME NEW e \in Events, TypeOK, FlightInv, Uncontended(e), Uncontended(e)', Undisturbed(e),
           [Next]_vars
    PROVE  Undisturbed(e)'
<1>1. ASSUME NEW r \in Requests, NEW d \in Events, Begin(r, d) PROVE Undisturbed(e)'
  <2>1. requests'[r] # Idle /\ requests'[r].event = d /\ requests'[r].seen = events'[d]
    BY <1>1, BeginSlot
  <2>2. raced' = raced
    BY <1>1 DEF Begin, CreateManual, Update, Transition, TransitionPrivate, Decide
  <2>3. CASE d = e
    <3>1. \A q \in InFlight(e)' : q = r
      BY <2>1, <2>3 DEF Uncontended, InFlight
    <3> QED BY <2>1, <2>2, <2>3, <3>1 DEF Undisturbed
  <2>4. CASE d # e
    <3>1. events'[e] = events[e]
      BY <1>1, <2>4, BeginSlot
    <3>2. \A q \in InFlight(e)' : q \in InFlight(e) /\ requests'[q] = requests[q]
      BY <1>1, <2>1, <2>4, OtherSlots DEF InFlight
    <3> QED BY <2>2, <3>1, <3>2 DEF Undisturbed
  <2> QED BY <2>3, <2>4
<1>2. ASSUME NEW r \in Requests, Continue(r) PROVE Undisturbed(e)'
  <2> DEFINE d == requests[r].event
  <2>0. /\ requests[r] # Idle /\ d \in Events
        /\ requests'[r] = Idle \/ requests'[r].event = d
        /\ d # e => events'[e] = events[e]
    BY <1>2, ContinueSlot
  <2>1. e \notin raced'
    <3>1. \/ raced' = raced
          \/ /\ requests[r].step \in Before
             /\ raced' = IF events[d] # requests[r].seen THEN raced \cup {d} ELSE raced
      <4>1. CASE UpdateWithRefs(r) \/ ApplyTransition(r)
        BY <4>1 DEF UpdateWithRefs, ApplyTransition, Race, At, Before
      <4> QED BY <1>2, <4>1 DEF Continue, RecordStatusEvent, SetEventStatus, IndexLoad, IndexUpsert,
                                IndexRemove, IndexFails, Notify, LoseRequest
    <3> QED BY <2>0, <3>1 DEF Undisturbed, InFlight
  <2>2. requests'[r].step \notin Before
    <3>1. CASE ApplyTransition(r)
      <4>1. requests'[r] = Idle \/ requests'[r].step = SyncStep(requests[r].to)
        BY <3>1, ApplyFacts
      <4>2. SyncStep(requests[r].to) \notin Before /\ Idle.step \notin Before
        BY DEF SyncStep, Before, Idle
      <4> QED BY <4>1, <4>2
    <3>2. CASE SetEventStatus(r)
      BY <3>2, RuleFacts DEF SyncStep, Before
    <3>3. CASE IndexLoad(r)
      BY <3>3, LoadFacts DEF Before
    <3>4. CASE IndexUpsert(r) \/ IndexRemove(r) \/ IndexFails(r)
      <4>1. requests[r] # Idle /\ Goto(r, "notify")
        BY <3>4, ContinueSlot DEF Continue, IndexUpsert, IndexRemove, IndexFails
      <4> QED BY <4>1, GotoFacts DEF Steps, Before
    <3>5. CASE RecordStatusEvent(r) \/ UpdateWithRefs(r) \/ Notify(r) \/ LoseRequest(r)
      BY <3>5, FinishFacts
         DEF RecordStatusEvent, UpdateWithRefs, Notify, LoseRequest, Before, Idle
    <3> QED BY <1>2, <3>1, <3>2, <3>3, <3>4, <3>5 DEF Continue
  <2>3. ASSUME NEW q \in InFlight(e)', q # r
        PROVE  q \in InFlight(e) /\ requests'[q] = requests[q] /\ events'[e] = events[e]
    <3>1. q \in InFlight(e) /\ requests'[q] = requests[q]
      BY <1>2, <2>3, OtherSlots DEF InFlight
    <3>2. d # e
      BY <2>0, <2>3, <3>1 DEF Uncontended, InFlight
    <3> QED BY <2>0, <3>1, <3>2
  <2> QED BY <2>1, <2>2, <2>3 DEF Undisturbed
<1>3. ASSUME NEW d \in Events, NEW v \in {"PUBLIC", "PRIVATE"}, NEW c \in Contents,
             CreateFromCandidate(d, v, c)
      PROVE  Undisturbed(e)'
  <2>1. requests' = requests /\ raced' = raced /\ (e # d => events'[e] = events[e])
    BY <1>3 DEF CreateFromCandidate, TypeOK
  <2>2. InFlight(e)' = InFlight(e)
    BY <2>1 DEF InFlight
  <2>3. ASSUME NEW r \in InFlight(e) PROVE e # d
    BY <1>3, <2>3, InFlightFacts DEF CreateFromCandidate, InFlight
  <2> QED BY <2>1, <2>2, <2>3 DEF Undisturbed
<1>4. CASE Rebuild \/ UNCHANGED vars
  <2>1. UNCHANGED <<requests, raced, events>>
    BY <1>4 DEF Rebuild, vars, rowVars, rulings, RebuildLoad, RebuildClear, RebuildUpsert,
       RebuildDone, RebuildFails
  <2> QED BY <2>1 DEF Undisturbed, InFlight
<1> QED BY <1>1, <1>2, <1>3, <1>4 DEF Next

\* The properties without their exceptions, the decisions of moderation apart.
Sound(e) ==
    /\ Is(e, "PUBLISHED") /\ e \notin ruled => events[e].content \notin Incoherent
    /\ firstPublished[e] <= 1

SoundStep(e) ==
    Exists(e) =>
       /\ events'[e].status # events[e].status /\ e \notin ruled' =>
             events'[e].status \in ALLOWED[events[e].status]
       /\ Is(e, "PUBLISHED") => events'[e].content = events[e].content

\* The exceptions of the properties above are overlapping requests, nothing else: of an event
\* whose requests never overlap, whatever happens to the others, whatever fails and whatever a
\* rebuild does meanwhile, the workflow's table is followed, what is diffused is coherent and
\* not corrected, and followers are informed once.
THEOREM UncontendedIsSound ==
    ASSUME NEW d \in Events
    PROVE  Spec /\ []Uncontended(d) => []Sound(d) /\ [][SoundStep(d)]_vars
<1>1. Init => Undisturbed(d)
  BY DEF Init, Undisturbed, InFlight
<1>2. IInv /\ Undisturbed(d) /\ Uncontended(d) /\ Uncontended(d)' /\ [Next]_vars => Undisturbed(d)'
  BY UndisturbedKept DEF IInv
<1>3. Undisturbed(d) /\ PublishedIsCoherentUnlessRaced /\ AnnouncedOnceUnlessRaced => Sound(d)
  BY DEF Undisturbed, PublishedIsCoherentUnlessRaced, AnnouncedOnceUnlessRaced, Sound
<1>4. /\ Undisturbed(d)'
      /\ [\A e \in Events :
             Exists(e) /\ events'[e].status # events[e].status /\ e \notin raced' \cup ruled' =>
                events'[e].status \in ALLOWED[events[e].status]]_vars
      /\ [\A e \in Events : Is(e, "PUBLISHED") /\ e \notin raced' =>
                               events'[e].content = events[e].content]_vars
      => [SoundStep(d)]_vars
  BY DEF Undisturbed, SoundStep
<1>5. Spec /\ []Uncontended(d) => []Undisturbed(d)
  BY <1>1, <1>2, Inductive, PTL DEF Spec
<1>6. Spec /\ []Uncontended(d) => []Sound(d)
  BY <1>3, <1>5, CoherentUnlessRaced, AnnouncedOnce, PTL
<1>7. Spec /\ []Uncontended(d) => [][SoundStep(d)]_vars
  BY <1>4, <1>5, SoundUnlessRaced, PTL DEF WorkflowUnlessRaced, PublishedIsFrozenUnlessRaced
<1> QED BY <1>6, <1>7

=============================================================================
