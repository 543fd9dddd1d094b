----------------------- MODULE CandidateReview_proofs -----------------------
(***************************************************************************)
(* Proofs about CandidateReview, for every set of candidates, drafts and   *)
(* requests: what the review keeps whatever requests interleave, and that  *)
(* it implements CandidateLifecycle.                                       *)
(***************************************************************************)
EXTENDS CandidateReview, FiniteSetTheorems, TLAPS

\* The draft was held back by nothing among the Events the controls had seen.
Cleared(draft, public, knew) ==
    /\ draft \notin Incoherent \cup Prohibited
    /\ public => \A j \in 1..knew : catalog[j].public => catalog[j].draft # draft

\* What the step of a request says of its record.
Shaped(q) ==
    /\ q.seen.status \in {"PENDING", "CORRECTED"}
    /\ q.step = "create" => q.knew <= Len(catalog) /\ Cleared(q.draft, q.public, q.knew)
    /\ q.step = "attach" => q.event \in DOMAIN catalog /\ catalog[q.event].from = q.candidate

Shapes == \A r \in Requests : requests[r] # Idle => Shaped(requests[r])

\* Every Event that comes from a candidate was cleared against Events older than itself.
CatalogCleared ==
    \A i \in DOMAIN catalog :
       /\ catalog[i].knew < i
       /\ catalog[i].from # NoCandidate
             => Cleared(catalog[i].draft, catalog[i].public, catalog[i].knew)

ImagesInHand ==
    /\ \A i \in illustrated : catalog[i].from \in Posters
    /\ faults = 0 =>
          \A i \in DOMAIN catalog : catalog[i].from \in Posters =>
             i \in illustrated \/ \E r \in Requests : At(r, "attach") /\ requests[r].event = i

\* Only a validated candidate has given an Event, and no more than one.
SingleEvent ==
    \A c \in Candidates \ raced :
       /\ EventsOf(c) # {} => candidates[c].status = "VALIDATED"
       /\ \A i, j \in EventsOf(c) : i = j

IInv == TypeOK /\ Shapes /\ CatalogCleared /\ ImagesInHand /\ SingleEvent /\ EventLinked

-----------------------------------------------------------------------------
(* Steps that leave candidates and Events alone.                           *)

LEMMA FlightTyped ==
    ASSUME TypeOK, NEW r \in Requests, requests[r].step \in Steps
    PROVE  requests[r] \in Flight /\ requests[r] # Idle
<1>1. requests[r] \in Flight \cup {Idle} /\ Idle.step \notin Steps
  BY DEF TypeOK, Idle, Steps
<1> QED BY <1>1

LEMMA MoveKeeps ==
    ASSUME IInv, NEW r \in Requests, NEW x \in Flight \cup {Idle},
           requests' = [requests EXCEPT ![r] = x],
           UNCHANGED <<candidates, catalog, raced>>,
           cases' \in Seq([candidate: Candidates, type: CaseType]),
           illustrated' \subseteq DOMAIN catalog,
           served' \in Nat, faults' \in Nat,
           x # Idle => Shaped(x), ImagesInHand'
    PROVE  IInv'
<1>1. /\ requests' \in [Requests -> Flight \cup {Idle}]
      /\ requests'[r] = x
      /\ \A q \in Requests \ {r} : requests'[q] = requests[q]
  BY DEF IInv, TypeOK
<1>2. TypeOK'
  BY <1>1 DEF IInv, TypeOK
<1>3. Shapes'
  BY <1>1 DEF IInv, Shapes, Shaped, Cleared
<1>4. CatalogCleared' /\ SingleEvent' /\ EventLinked'
  BY DEF IInv, CatalogCleared, Cleared, SingleEvent, EventLinked, EventsOf
<1> QED BY <1>2, <1>3, <1>4 DEF IInv

\* No image is in the hands of a request elsewhere than at "attach".
LEMMA ImagesStay ==
    ASSUME IInv, NEW r \in Requests, ~At(r, "attach"), NEW x,
           requests' = [requests EXCEPT ![r] = x],
           UNCHANGED <<catalog, illustrated, faults>>
    PROVE  ImagesInHand'
<1>1. \A q \in Requests \ {r} : requests'[q] = requests[q]
  BY DEF IInv, TypeOK
<1> QED BY <1>1 DEF IInv, ImagesInHand, At

LEMMA BeginKeeps == ASSUME IInv, NEW r \in Requests, Begin(r) PROVE IInv'
<1>1. ASSUME NEW c \in Candidates, NEW at \in {"correct", "reject", "control"}, NEW d \in Drafts,
             NEW p \in BOOLEAN, Start(r, c, at, d, p)
      PROVE  IInv'
  <2> DEFINE x == [step |-> at, candidate |-> c, seen |-> candidates[c], draft |-> d,
                   public |-> p, knew |-> 0, event |-> 0, case |-> "DATA_CORRECTION"]
  <2>1. candidates[c] \in Row /\ candidates[c].status \in {"PENDING", "CORRECTED"}
    BY <1>1 DEF IInv, TypeOK, Start, AssertMutable, Row, CandidateStatus
  <2>2. x \in Flight /\ x.step = at /\ x.seen = candidates[c]
    BY <2>1 DEF Flight, Steps, CaseType
  <2>3. requests' = [requests EXCEPT ![r] = x] /\ ~At(r, "attach")
    BY <1>1 DEF Start, At, Idle
  <2>4. /\ UNCHANGED <<candidates, catalog, raced, illustrated, cases, faults>>
        /\ served' \in Nat /\ faults \in Nat /\ illustrated \subseteq DOMAIN catalog
        /\ cases \in Seq([candidate: Candidates, type: CaseType])
    BY <1>1 DEF Start, IInv, TypeOK
  <2> HIDE DEF x
  <2>5. Shaped(x)
    BY <2>1, <2>2 DEF Shaped
  <2>6. ImagesInHand'
    BY <2>3, <2>4, ImagesStay
  <2> QED BY <2>2, <2>3, <2>4, <2>5, <2>6, MoveKeeps
<1>2. FALSE \in BOOLEAN
  OBVIOUS
<1> QED BY <1>1, <1>2 DEF Begin, Correct, Reject, Validate

\* Only what the controls let through comes to be created.
LEMMA RunSubmissionControlsKeeps ==
    ASSUME IInv, NEW r \in Requests, RunSubmissionControls(r) PROVE IInv'
<1> DEFINE q == requests[r]
           found == Anomalies(q.draft, q.public)
           x == [q EXCEPT !.step = IF found = {} THEN "create" ELSE "hold",
                          !.knew = Len(catalog), !.case = CaseTypeOf(found)]
<1>1. q \in Flight /\ q.step = "control" /\ Shaped(q)
  BY FlightTyped DEF IInv, Shapes, RunSubmissionControls, At, Steps
<1>2. Len(catalog) \in Nat /\ DOMAIN catalog = 1..Len(catalog)
  BY DEF IInv, TypeOK
<1>3. CaseTypeOf(found) \in CaseType
  BY DEF CaseTypeOf, CaseType
<1>4. found = {} => Cleared(q.draft, q.public, Len(catalog))
  BY <1>2 DEF Anomalies, HasPublicDuplicate, Cleared
<1>5. requests' = [requests EXCEPT ![r] = x]
  BY DEF RunSubmissionControls
<1> HIDE DEF found
<1>6. /\ x \in Flight /\ x.step = (IF found = {} THEN "create" ELSE "hold")
      /\ x.seen = q.seen /\ x.draft = q.draft /\ x.public = q.public /\ x.knew = Len(catalog)
  BY <1>1, <1>2, <1>3 DEF Flight, Steps
<1> HIDE DEF x
<1>7. Shaped(x)
  BY <1>1, <1>2, <1>4, <1>6 DEF Shaped
<1>8. ImagesInHand'
  BY <1>1, <1>5, ImagesStay DEF At, RunSubmissionControls
<1> QED BY <1>5, <1>6, <1>7, <1>8, MoveKeeps DEF RunSubmissionControls, IInv, TypeOK

LEMMA OpenCaseKeeps == ASSUME IInv, NEW r \in Requests, OpenCase(r) PROVE IInv'
<1> DEFINE new == [candidate |-> requests[r].candidate, type |-> requests[r].case]
<1>1. requests[r] \in Flight /\ requests[r].step = "hold"
  BY FlightTyped DEF IInv, OpenCase, At, Steps
<1>2. new \in [candidate: Candidates, type: CaseType]
  BY <1>1 DEF Flight
<1>3. cases' = Append(cases, new)
  BY DEF OpenCase
<1> HIDE DEF new
<1>4. cases' \in Seq([candidate: Candidates, type: CaseType])
  BY <1>2, <1>3 DEF IInv, TypeOK
<1>5. requests' = [requests EXCEPT ![r] = Idle]
  BY DEF OpenCase, Finish
<1>6. ImagesInHand'
  BY <1>1, <1>5, ImagesStay DEF At, OpenCase
<1> QED BY <1>4, <1>5, <1>6, MoveKeeps DEF OpenCase, IInv, TypeOK

LEMMA AttachImportSourceKeeps ==
    ASSUME IInv, NEW r \in Requests, AttachImportSource(r) PROVE IInv'
<1> DEFINE q == requests[r]
<1>1. q \in Flight /\ q.step = "attach" /\ Shaped(q)
  BY FlightTyped DEF IInv, Shapes, AttachImportSource, At, Steps
<1>2. q.event \in DOMAIN catalog /\ catalog[q.event].from = q.candidate
  BY <1>1 DEF Shaped
<1>3. /\ requests' = [requests EXCEPT ![r] = Idle]
      /\ illustrated' = IF q.candidate \in Posters THEN illustrated \cup {q.event} ELSE illustrated
      /\ UNCHANGED <<candidates, catalog, cases, raced, served, faults>>
  BY DEF AttachImportSource, Finish
<1>4. \A p \in Requests \ {r} : requests'[p] = requests[p]
  BY <1>3 DEF IInv, TypeOK
<1>5. illustrated' \subseteq DOMAIN catalog
  BY <1>2, <1>3 DEF IInv, TypeOK
<1>6. ImagesInHand'
  BY <1>2, <1>3, <1>4 DEF IInv, ImagesInHand, At
<1> QED BY <1>3, <1>5, <1>6, MoveKeeps DEF IInv, TypeOK

LEMMA LoseRequestKeeps == ASSUME IInv, NEW r \in Requests, LoseRequest(r) PROVE IInv'
<1>1. faults' = faults + 1 /\ faults \in Nat /\ faults' # 0 /\ faults' \in Nat
  BY DEF LoseRequest, IInv, TypeOK
<1>2. requests' = [requests EXCEPT ![r] = Idle]
      /\ UNCHANGED <<candidates, catalog, illustrated, cases, raced, served>>
  BY DEF LoseRequest, Finish
<1>3. ImagesInHand'
  BY <1>1, <1>2 DEF IInv, ImagesInHand
<1> QED BY <1>1, <1>2, <1>3, MoveKeeps DEF IInv, TypeOK

-----------------------------------------------------------------------------
(* Steps that write candidates or Events.                                  *)

\* A decision on a candidate that was read as it is leaves one that has given no Event.
LEMMA WriteKeeps ==
    ASSUME IInv, NEW r \in Requests, NEW s \in {"CORRECTED", "REJECTED"},
           requests[r].step \in {"correct", "reject"}, Write(r, s)
    PROVE  IInv'
<1> DEFINE c == requests[r].candidate
           row == [candidates[c] EXCEPT !.status = s]
<1>1. requests[r] \in Flight /\ Shaped(requests[r]) /\ c \in Candidates
  BY FlightTyped DEF IInv, Shapes, Steps, Flight
<1>2. candidates[c] \in Row
  BY <1>1 DEF IInv, TypeOK
<1>3. row \in Row /\ row.status = s /\ row.event = candidates[c].event
  BY <1>2 DEF Row, CandidateStatus
<1>4. /\ requests' = [requests EXCEPT ![r] = Idle] /\ candidates' = [candidates EXCEPT ![c] = row]
      /\ raced' = IF candidates[c] # requests[r].seen THEN raced \cup {c} ELSE raced
      /\ UNCHANGED <<catalog, illustrated, cases, served, faults>>
  BY DEF Write, Race, Finish
<1>5. c \notin raced' => candidates[c].status \in {"PENDING", "CORRECTED"}
  BY <1>1, <1>4 DEF Shaped
<1> HIDE DEF c, row
<1>6. /\ requests' \in [Requests -> Flight \cup {Idle}]
      /\ requests'[r] = Idle
      /\ \A q \in Requests \ {r} : requests'[q] = requests[q]
      /\ candidates' \in [Candidates -> Row]
      /\ candidates'[c] = row
      /\ \A d \in Candidates \ {c} : candidates'[d] = candidates[d]
      /\ raced \subseteq raced' /\ raced' \subseteq Candidates
  BY <1>1, <1>3, <1>4 DEF IInv, TypeOK
<1>7. TypeOK'
  BY <1>4, <1>6 DEF IInv, TypeOK
<1>8. Shapes' /\ CatalogCleared'
  BY <1>4, <1>6 DEF IInv, Shapes, Shaped, Cleared, CatalogCleared
<1>9. ImagesInHand'
  BY <1>4, ImagesStay DEF At
<1>10. \A d : EventsOf(d)' = EventsOf(d)
  BY <1>4 DEF EventsOf
<1>11. SingleEvent'
  BY <1>5, <1>6, <1>10 DEF IInv, SingleEvent
<1>12. EventLinked'
  BY <1>3, <1>6, <1>10 DEF IInv, EventLinked
<1> QED BY <1>7, <1>8, <1>9, <1>11, <1>12 DEF IInv

\* What one more Event changes.
LEMMA AppendFacts ==
    ASSUME TypeOK, NEW e \in Event, catalog' = Append(catalog, e)
    PROVE  /\ catalog' \in Seq(Event) /\ Len(catalog) \in Nat /\ Len(catalog') = Len(catalog) + 1
           /\ DOMAIN catalog = 1..Len(catalog) /\ DOMAIN catalog' = 1..(Len(catalog) + 1)
           /\ catalog'[Len(catalog) + 1] = e
           /\ \A i \in 1..Len(catalog) : catalog'[i] = catalog[i]
           /\ \A c : EventsOf(c)' =
                 EventsOf(c) \cup (IF e.from = c THEN {Len(catalog) + 1} ELSE {})
           /\ \A c : Len(catalog) + 1 \notin EventsOf(c)
<1>1. /\ catalog' \in Seq(Event) /\ Len(catalog) \in Nat /\ Len(catalog') = Len(catalog) + 1
      /\ DOMAIN catalog = 1..Len(catalog) /\ DOMAIN catalog' = 1..(Len(catalog) + 1)
      /\ catalog'[Len(catalog) + 1] = e
      /\ \A i \in 1..Len(catalog) : catalog'[i] = catalog[i]
  BY DEF TypeOK
<1>2. \A i \in 1..(Len(catalog) + 1) : i \in 1..Len(catalog) \/ i = Len(catalog) + 1
  BY <1>1
<1>3. Len(catalog) + 1 \notin 1..Len(catalog) /\ 1..Len(catalog) \subseteq 1..(Len(catalog) + 1)
      /\ Len(catalog) + 1 \in 1..(Len(catalog) + 1)
  BY <1>1
<1>4. ASSUME NEW c
      PROVE  EventsOf(c)' = EventsOf(c) \cup (IF e.from = c THEN {Len(catalog) + 1} ELSE {})
  BY <1>1, <1>2, <1>3 DEF EventsOf
<1> QED BY <1>1, <1>3, <1>4 DEF EventsOf

\* One more Event leaves what older Events and requests were cleared against.
LEMMA AppendKeeps ==
    ASSUME IInv, NEW e \in Event, catalog' = Append(catalog, e), e.knew <= Len(catalog),
           e.from # NoCandidate => Cleared(e.draft, e.public, e.knew)
    PROVE  /\ CatalogCleared'
           /\ \A q : Shaped(q) /\ q.knew \in Nat => Shaped(q)'
<1>1. /\ Len(catalog) \in Nat /\ DOMAIN catalog = 1..Len(catalog)
      /\ DOMAIN catalog' = 1..(Len(catalog) + 1) /\ catalog'[Len(catalog) + 1] = e
      /\ \A i \in 1..Len(catalog) : catalog'[i] = catalog[i]
      /\ Len(catalog') = Len(catalog) + 1
  BY AppendFacts DEF IInv
<1>2. ASSUME NEW d, NEW p, NEW n \in Nat, n <= Len(catalog), Cleared(d, p, n)
      PROVE  Cleared(d, p, n)'
  BY <1>1, <1>2 DEF Cleared
<1>3. e.knew \in Nat /\ \A i \in DOMAIN catalog : catalog[i].knew \in Nat
  <2>1. \A i \in DOMAIN catalog : catalog[i] \in Event
    BY DEF IInv, TypeOK
  <2>2. \A f \in Event : f.knew \in Nat
    BY DEF Event
  <2> QED BY <2>1, <2>2
<1>4. CatalogCleared'
  <2> SUFFICES ASSUME NEW i \in 1..(Len(catalog) + 1)
               PROVE  /\ catalog'[i].knew < i
                      /\ catalog'[i].from # NoCandidate =>
                            Cleared(catalog[i].draft, catalog[i].public, catalog[i].knew)'
    BY <1>1 DEF CatalogCleared
  <2>1. CASE i \in 1..Len(catalog)
    <3>1. /\ catalog[i].knew < i /\ catalog[i].knew <= Len(catalog)
          /\ catalog[i].from # NoCandidate =>
                Cleared(catalog[i].draft, catalog[i].public, catalog[i].knew)
      BY <1>1, <1>3, <2>1 DEF IInv, CatalogCleared
    <3> QED BY <1>1, <1>2, <1>3, <2>1, <3>1
  <2>2. CASE i = Len(catalog) + 1
    <3>1. e.from # NoCandidate => Cleared(e.draft, e.public, e.knew)'
      BY <1>2, <1>3
    <3> QED BY <1>1, <1>3, <2>2, <3>1
  <2> QED BY <1>1, <2>1, <2>2
<1>5. \A q : Shaped(q) /\ q.knew \in Nat => Shaped(q)'
  <2> SUFFICES ASSUME NEW q, Shaped(q), q.knew \in Nat PROVE Shaped(q)'
    OBVIOUS
  <2>1. q.step = "create" => q.knew <= Len(catalog') /\ Cleared(q.draft, q.public, q.knew)'
    BY <1>1, <1>2 DEF Shaped
  <2>2. q.step = "attach" => q.event \in DOMAIN catalog' /\ catalog'[q.event].from = q.candidate
    BY <1>1 DEF Shaped
  <2> QED BY <2>1, <2>2 DEF Shaped
<1> QED BY <1>4, <1>5

\* A validation that wrote over no unread row creates the only Event of its candidate.
LEMMA CreateEventAndValidateKeeps ==
    ASSUME IInv, NEW r \in Requests, CreateEventAndValidate(r) PROVE IInv'
<1> DEFINE q == requests[r]
           c == q.candidate
           n == Len(catalog) + 1
           e == NewEvent(r)
           row == [status |-> "VALIDATED", event |-> n]
           x == [q EXCEPT !.step = "attach", !.event = n]
<1>1. q \in Flight /\ q.step = "create" /\ Shaped(q)
  BY FlightTyped DEF IInv, Shapes, CreateEventAndValidate, At, Steps
<1>2. /\ c \in Candidates /\ q.knew <= Len(catalog) /\ Cleared(q.draft, q.public, q.knew)
      /\ q.seen.status \in {"PENDING", "CORRECTED"} /\ candidates[c] \in Row
      /\ q.knew \in Nat
  BY <1>1 DEF Flight, Shaped, IInv, TypeOK
<1>3. /\ e \in Event /\ e.from = c /\ e.draft = q.draft /\ e.public = q.public
      /\ e.knew = q.knew
  BY <1>1 DEF NewEvent, Event, Flight
<1>4. /\ requests' = [requests EXCEPT ![r] = x] /\ candidates' = [candidates EXCEPT ![c] = row]
      /\ raced' = IF candidates[c] # q.seen THEN raced \cup {c} ELSE raced
      /\ catalog' = Append(catalog, e)
      /\ UNCHANGED <<illustrated, cases, served, faults>>
  BY DEF CreateEventAndValidate, Race
<1>5. Len(catalog) \in Nat /\ n \in Nat /\ n # 0 /\ q.knew < n
  BY <1>2 DEF IInv, TypeOK
<1>6. x \in Flight /\ x # Idle /\ x.step = "attach" /\ x.event = n /\ x.candidate = c
      /\ x.seen = q.seen
  <2>1. x \in Flight /\ x.step = "attach" /\ x.event = n /\ x.candidate = c /\ x.seen = q.seen
    BY <1>1, <1>5 DEF Flight, Steps
  <2> HIDE DEF x
  <2> QED BY <2>1 DEF Idle
<1>7. row \in Row /\ row.status = "VALIDATED" /\ row.event = n
  BY <1>5 DEF Row, CandidateStatus
<1>8. c \notin raced' => candidates[c].status # "VALIDATED"
  BY <1>2, <1>4
<1> HIDE DEF q, c, n, e, row, x
<1>9. /\ catalog' \in Seq(Event) /\ DOMAIN catalog = 1..Len(catalog)
      /\ DOMAIN catalog' = 1..n /\ catalog'[n] = e
      /\ \A i \in 1..Len(catalog) : catalog'[i] = catalog[i]
      /\ \A d : EventsOf(d)' = EventsOf(d) \cup (IF d = c THEN {n} ELSE {})
  BY <1>3, <1>4, AppendFacts DEF IInv, n
<1>10. CatalogCleared' /\ \A p : Shaped(p) /\ p.knew \in Nat => Shaped(p)'
  BY <1>2, <1>3, <1>4, AppendKeeps DEF e
<1>11. /\ requests' \in [Requests -> Flight \cup {Idle}]
       /\ requests'[r] = x
       /\ \A p \in Requests \ {r} : requests'[p] = requests[p]
       /\ candidates' \in [Candidates -> Row]
       /\ candidates'[c] = row
       /\ \A d \in Candidates \ {c} : candidates'[d] = candidates[d]
       /\ raced \subseteq raced' /\ raced' \subseteq Candidates
  BY <1>2, <1>4, <1>6, <1>7 DEF IInv, TypeOK
<1>12. TypeOK'
  <2>1. illustrated' \subseteq DOMAIN catalog'
    BY <1>4, <1>5, <1>9 DEF IInv, TypeOK, n
  <2> QED BY <1>4, <1>9, <1>11, <2>1 DEF IInv, TypeOK
<1>13. Shapes'
  <2>1. \A y : y = x => Shaped(y)'
    BY <1>2, <1>3, <1>5, <1>6, <1>9, <1>7 DEF Shaped
  <2>2. ASSUME NEW p \in Requests \ {r}, requests[p] # Idle PROVE Shaped(requests[p])'
    <3>1. requests[p] \in Flight /\ Shaped(requests[p])
      BY <2>2 DEF IInv, TypeOK, Shapes
    <3>2. requests[p].knew \in Nat
      BY <3>1 DEF Flight
    <3>3. \A y : Shaped(y) /\ y.knew \in Nat => Shaped(y)'
      BY <1>10
    <3>4. requests'[p] = requests[p]
      BY <1>11
    <3> QED BY <3>1, <3>2, <3>3, <3>4
  <2> QED BY <1>11, <2>1, <2>2 DEF Shapes
<1>14. ImagesInHand'
  <2>1. \A i \in 1..n : i \in 1..Len(catalog) \/ i = n
    BY <1>5 DEF n
  <2>2. \A i \in illustrated' : catalog'[i].from \in Posters
    BY <1>4, <1>9 DEF IInv, TypeOK, ImagesInHand
  <2>3. ASSUME faults' = 0, NEW i \in 1..n, catalog'[i].from \in Posters
        PROVE  i \in illustrated' \/ \E p \in Requests : At(p, "attach")' /\ requests'[p].event = i
    <3>1. CASE i = n
      BY <3>1, <1>6, <1>11 DEF At
    <3>2. CASE i \in 1..Len(catalog)
      <4>1. i \in illustrated \/ \E p \in Requests : At(p, "attach") /\ requests[p].event = i
        BY <2>3, <3>2, <1>4, <1>9 DEF IInv, ImagesInHand
      <4>2. ~At(r, "attach")
        BY <1>1 DEF At, q
      <4> QED BY <4>1, <4>2, <1>4, <1>11 DEF At
    <3> QED BY <2>1, <3>1, <3>2
  <2> QED BY <2>2, <2>3, <1>9 DEF ImagesInHand, At
<1>15. SingleEvent'
  <2> SUFFICES ASSUME NEW d \in Candidates \ raced'
               PROVE  /\ EventsOf(d)' # {} => candidates'[d].status = "VALIDATED"
                      /\ \A i, j \in EventsOf(d)' : i = j
    BY DEF SingleEvent
  <2>1. CASE d = c
    <3>1. EventsOf(c) = {}
      BY <2>1, <1>2, <1>8, <1>11 DEF IInv, SingleEvent
    <3> QED BY <2>1, <3>1, <1>7, <1>9, <1>11
  <2>2. CASE d # c
    BY <2>2, <1>9, <1>11 DEF IInv, SingleEvent
  <2> QED BY <2>1, <2>2
<1>16. EventLinked'
  <2> SUFFICES ASSUME NEW d \in Candidates
               PROVE  /\ candidates'[d].status = "VALIDATED" => candidates'[d].event # 0
                      /\ IF EventsOf(d)' = {} THEN candidates'[d].event = 0
                         ELSE /\ candidates'[d].event \in EventsOf(d)'
                              /\ \A i \in EventsOf(d)' : i <= candidates'[d].event
    BY DEF EventLinked
  <2>1. CASE d = c
    <3>1. EventsOf(d)' = EventsOf(d) \cup {n} /\ candidates'[d].event = n
      BY <2>1, <1>7, <1>9, <1>11
    <3>2. \A i \in EventsOf(d) : i <= n
      BY <1>5, <1>9 DEF EventsOf, n
    <3> QED BY <3>1, <3>2, <1>5
  <2>2. CASE d # c
    <3>1. EventsOf(d)' = EventsOf(d) /\ candidates'[d] = candidates[d]
      BY <2>2, <1>9, <1>11
    <3> QED BY <3>1 DEF IInv, EventLinked
  <2> QED BY <2>1, <2>2
<1> QED BY <1>10, <1>12, <1>13, <1>14, <1>15, <1>16 DEF IInv

LEMMA CreateManualKeeps == ASSUME IInv, NEW d \in Drafts, CreateManual(d) PROVE IInv'
<1> DEFINE n == Len(catalog) + 1
           e == [from |-> NoCandidate, draft |-> d, public |-> TRUE, knew |-> 0]
<1>1. e \in Event /\ e.from = NoCandidate /\ e.knew = 0
  BY DEF Event
<1>2. NoCandidate \notin Candidates /\ NoCandidate \notin Posters
  BY ManualIsNoId, PostersKnown DEF NoCandidate
<1>3. /\ catalog' = Append(catalog, e) /\ served' \in Nat
      /\ UNCHANGED <<candidates, illustrated, cases, requests, raced, faults>>
  BY DEF CreateManual, IInv, TypeOK
<1>4. Len(catalog) \in Nat /\ e.knew <= Len(catalog)
  BY <1>1 DEF IInv, TypeOK
<1> HIDE DEF e
<1>5. /\ catalog' \in Seq(Event) /\ DOMAIN catalog = 1..Len(catalog)
      /\ DOMAIN catalog' = 1..n /\ catalog'[n] = e
      /\ \A i \in 1..Len(catalog) : catalog'[i] = catalog[i]
      /\ \A c \in Candidates : EventsOf(c)' = EventsOf(c)
  <2>1. IInv => TypeOK
    BY DEF IInv
  <2>2. \A c \in Candidates : c # e.from
    BY <1>1, <1>2
  <2>3. \A c : EventsOf(c)' = EventsOf(c) \cup (IF e.from = c THEN {n} ELSE {})
    BY <1>1, <1>3, <2>1, AppendFacts
  <2>4. \A c \in Candidates : EventsOf(c)' = EventsOf(c) \cup {}
    BY <2>2, <2>3
  <2> QED BY <1>1, <1>3, <2>1, <2>4, AppendFacts
<1>6. CatalogCleared' /\ \A p : Shaped(p) /\ p.knew \in Nat => Shaped(p)'
  BY <1>1, <1>3, <1>4, AppendKeeps
<1>7. TypeOK'
  BY <1>3, <1>4, <1>5 DEF IInv, TypeOK
<1>8. Shapes'
  <2>1. ASSUME NEW p \in Requests, requests[p] # Idle PROVE Shaped(requests[p])'
    <3>1. requests[p] \in Flight /\ Shaped(requests[p])
      BY <2>1 DEF IInv, TypeOK, Shapes
    <3>2. requests[p].knew \in Nat
      BY <3>1 DEF Flight
    <3>3. \A y : Shaped(y) /\ y.knew \in Nat => Shaped(y)'
      BY <1>6
    <3>4. requests'[p] = requests[p]
      BY <1>3
    <3> QED BY <3>1, <3>2, <3>3, <3>4
  <2> QED BY <1>3, <2>1 DEF Shapes
<1>9. ImagesInHand'
  <2>1. \A i \in 1..n : i \in 1..Len(catalog) \/ i = n
    BY <1>4
  <2> QED BY <1>1, <1>2, <1>3, <1>5, <2>1 DEF IInv, TypeOK, ImagesInHand, At
<1>10. SingleEvent' /\ EventLinked'
  BY <1>3, <1>5 DEF IInv, SingleEvent, EventLinked
<1> QED BY <1>6, <1>7, <1>8, <1>9, <1>10 DEF IInv

-----------------------------------------------------------------------------
(* The invariant.                                                          *)

LEMMA InitIInv == Init => IInv
<1> SUFFICES ASSUME Init PROVE IInv
  OBVIOUS
<1>1. TypeOK
  <2>1. [status |-> "PENDING", event |-> 0] \in Row
    BY DEF Row, CandidateStatus
  <2> QED BY <2>1, BoundsAreNat DEF Init, TypeOK
<1>2. DOMAIN catalog = {}
  BY DEF Init
<1>3. \A c : EventsOf(c) = {}
  BY <1>2 DEF EventsOf
<1> QED BY <1>1, <1>2, <1>3
        DEF Init, IInv, Shapes, CatalogCleared, ImagesInHand, SingleEvent, EventLinked

LEMMA StepKeeps == IInv /\ [Next]_vars => IInv'
<1> SUFFICES ASSUME IInv, [Next]_vars PROVE IInv'
  OBVIOUS
<1>1. ASSUME NEW r \in Requests, CorrectWrite(r) PROVE IInv'
  BY <1>1, WriteKeeps DEF CorrectWrite, At
<1>2. ASSUME NEW r \in Requests, RejectWrite(r) PROVE IInv'
  BY <1>2, WriteKeeps DEF RejectWrite, At
<1>3. ASSUME NEW r \in Requests, Continue(r) PROVE IInv'
  BY <1>1, <1>2, <1>3, RunSubmissionControlsKeeps, OpenCaseKeeps, CreateEventAndValidateKeeps,
     AttachImportSourceKeeps, LoseRequestKeeps DEF Continue
<1>4. CASE UNCHANGED vars
  BY <1>4 DEF vars, IInv, TypeOK, Shapes, Shaped, Cleared, CatalogCleared, ImagesInHand, At,
     SingleEvent, EventLinked, EventsOf
<1> QED BY <1>3, <1>4, BeginKeeps, CreateManualKeeps DEF Next

THEOREM Inductive == Spec => []IInv
<1> QED BY InitIInv, StepKeeps, PTL DEF Spec

\* Every variable keeps its type whatever the requests do.
THEOREM TypeCorrect == Spec => []TypeOK
<1>1. IInv => TypeOK
  BY DEF IInv
<1> QED BY <1>1, Inductive, PTL

\* A candidate points to the last Event it gave, whichever requests cross.
THEOREM Linked == Spec => []EventLinked
<1>1. IInv => EventLinked
  BY DEF IInv
<1> QED BY <1>1, Inductive, PTL

\* No Event comes from a draft that the controls hold back, nor from one a public Event
\* they had seen already had.
THEOREM Controlled == Spec => []EventsCleared
<1>1. IInv => EventsCleared
  BY DEF IInv, CatalogCleared, Cleared, EventsCleared
<1> QED BY <1>1, Inductive, PTL

\* At rest and without failures, exactly the Events of images hold their image.
THEOREM ImagesComplete == Spec => []ImagesTakenOver
<1>1. IInv => ImagesTakenOver
  <2>1. ASSUME IInv, faults = 0, \A r \in Requests : requests[r] = Idle
        PROVE  illustrated = {i \in DOMAIN catalog : catalog[i].from \in Posters}
    <3>1. \A r \in Requests : ~At(r, "attach")
      BY <2>1 DEF At, Idle
    <3> QED BY <2>1, <3>1 DEF IInv, TypeOK, ImagesInHand
  <2> QED BY <2>1 DEF ImagesTakenOver
<1> QED BY <1>1, Inductive, PTL

-----------------------------------------------------------------------------
(* The review implements CandidateLifecycle.                               *)

\* A finite set of Events has a number, and one Event more makes one more.
LEMMA Counted ==
    ASSUME TypeOK, NEW c
    PROVE  /\ IsFiniteSet(EventsOf(c)) /\ Cardinality(EventsOf(c)) \in Nat
           /\ Cardinality(EventsOf(c) \cup {Len(catalog) + 1}) = Cardinality(EventsOf(c)) + 1
<1>1. Len(catalog) \in Nat /\ EventsOf(c) \subseteq 1..Len(catalog)
  BY DEF TypeOK, EventsOf
<1>2. IsFiniteSet(1..Len(catalog)) /\ Len(catalog) + 1 \notin EventsOf(c)
  BY <1>1, FS_Interval
<1>3. IsFiniteSet(EventsOf(c))
  BY <1>1, <1>2, FS_Subset
<1> QED BY <1>2, <1>3, FS_CardinalityType, FS_AddElement

LEMMA LifecycleInit == Init => Lifecycle!Init
<1> SUFFICES ASSUME Init PROVE Lifecycle!Init
  OBVIOUS
<1>1. \A c : EventsOf(c) = {}
  BY DEF Init, EventsOf
<1>2. Cardinality({}) = 0
  BY FS_EmptySet
<1>3. [c \in Candidates |-> candidates[c].status] = [c \in Candidates |-> "PENDING"]
  BY DEF Init
<1>4. [c \in Candidates |-> Cardinality(EventsOf(c))] = [c \in Candidates |-> 0]
  BY <1>1, <1>2
<1> QED BY <1>3, <1>4 DEF Init, Lifecycle!Init

\* A step that writes no candidate and creates no Event of one is a stutter.
LEMMA LifecycleStutter ==
    ASSUME UNCHANGED <<candidates, raced>>, \A c \in Candidates : EventsOf(c)' = EventsOf(c)
    PROVE  UNCHANGED Lifecycle!vars
BY DEF Lifecycle!vars

LEMMA LifecycleWrite ==
    ASSUME IInv, NEW r \in Requests, NEW s \in {"CORRECTED", "REJECTED"},
           requests[r].step \in {"correct", "reject"}, Write(r, s)
    PROVE  Lifecycle!Next
<1> DEFINE status == [c \in Candidates |-> candidates[c].status]
           produced == [c \in Candidates |-> Cardinality(EventsOf(c))]
<1>1. PICK c \in Candidates : c = requests[r].candidate
  BY FlightTyped DEF IInv, Steps, Flight
<1>2. requests[r].seen.status \in {"PENDING", "CORRECTED"}
  BY FlightTyped DEF IInv, Shapes, Shaped, Steps
<1>3. /\ candidates' = [candidates EXCEPT ![c].status = s]
      /\ raced' = IF candidates[c] # requests[r].seen THEN raced \cup {c} ELSE raced
      /\ UNCHANGED catalog
  BY <1>1 DEF Write, Race
<1>4. status' = [status EXCEPT ![c] = s]
  BY <1>3 DEF IInv, TypeOK, Row
<1>5. produced' = produced
  BY <1>3 DEF EventsOf
<1>6. Lifecycle!Write(c, s)
  BY <1>4, <1>5 DEF Lifecycle!Write
<1>7. CASE c \in raced'
  <2>1. raced' = raced \cup {c}
    BY <1>3, <1>7
  <2> QED BY <1>6, <2>1 DEF Lifecycle!Next, Lifecycle!Overtake
<1>8. CASE c \notin raced'
  <2>1. raced' = raced /\ Lifecycle!Mutable(c)
    BY <1>2, <1>3, <1>8 DEF Lifecycle!Mutable
  <2> QED BY <1>6, <1>8, <2>1 DEF Lifecycle!Next, Lifecycle!Correct, Lifecycle!Reject
<1> QED BY <1>7, <1>8

LEMMA LifecycleValidate ==
    ASSUME IInv, NEW r \in Requests, CreateEventAndValidate(r)
    PROVE  Lifecycle!Next
<1> DEFINE status == [c \in Candidates |-> candidates[c].status]
           produced == [c \in Candidates |-> Cardinality(EventsOf(c))]
           e == NewEvent(r)
<1>1. requests[r] \in Flight /\ Shaped(requests[r])
  BY FlightTyped DEF IInv, Shapes, CreateEventAndValidate, At, Steps
<1>2. PICK c \in Candidates : c = requests[r].candidate
  BY <1>1 DEF Flight
<1>3. e \in Event /\ e.from = c
  BY <1>1, <1>2 DEF NewEvent, Event, Flight
<1>4. /\ candidates' = [candidates EXCEPT ![c] =
            [status |-> "VALIDATED", event |-> Len(catalog) + 1]]
      /\ raced' = IF candidates[c] # requests[r].seen THEN raced \cup {c} ELSE raced
      /\ catalog' = Append(catalog, e)
  BY <1>2 DEF CreateEventAndValidate, Race
<1> HIDE DEF e
<1>5. \A d : EventsOf(d)' =
         EventsOf(d) \cup (IF e.from = d THEN {Len(catalog) + 1} ELSE {})
  BY <1>3, <1>4, AppendFacts DEF IInv
<1>6. \A d \in Candidates : Cardinality(EventsOf(d)') =
         IF d = c THEN Cardinality(EventsOf(d)) + 1 ELSE Cardinality(EventsOf(d))
  BY <1>3, <1>5, Counted DEF IInv
<1>7. status' = [status EXCEPT ![c] = "VALIDATED"]
  BY <1>4 DEF IInv, TypeOK, Row
<1>8. produced' = [produced EXCEPT ![c] = @ + 1]
  BY <1>6
<1>9. Lifecycle!Write(c, "VALIDATED")
  BY <1>7, <1>8 DEF Lifecycle!Write
<1>10. CASE c \in raced'
  <2>1. raced' = raced \cup {c}
    BY <1>4, <1>10
  <2> QED BY <1>9, <2>1 DEF Lifecycle!Next, Lifecycle!Overtake
<1>11. CASE c \notin raced'
  <2>1. raced' = raced /\ candidates[c].status \in {"PENDING", "CORRECTED"}
    BY <1>1, <1>2, <1>4, <1>11 DEF Shaped
  <2>2. EventsOf(c) = {}
    BY <2>1, <1>11 DEF IInv, SingleEvent
  <2>3. Lifecycle!Mutable(c) /\ produced[c] = 0
    BY <2>1, <2>2, FS_EmptySet DEF Lifecycle!Mutable
  <2> QED BY <1>9, <1>11, <2>1, <2>3 DEF Lifecycle!Next, Lifecycle!Validate
<1> QED BY <1>10, <1>11

LEMMA LifecycleStep == IInv /\ [Next]_vars => [Lifecycle!Next]_(Lifecycle!vars)
<1> SUFFICES ASSUME IInv, [Next]_vars PROVE Lifecycle!Next \/ UNCHANGED Lifecycle!vars
  OBVIOUS
<1>1. ASSUME NEW r \in Requests, CorrectWrite(r) \/ RejectWrite(r) PROVE Lifecycle!Next
  BY <1>1, LifecycleWrite DEF CorrectWrite, RejectWrite, At
<1>2. CASE UNCHANGED <<candidates, raced, catalog>>
  BY <1>2, LifecycleStutter DEF EventsOf
<1>3. ASSUME NEW d \in Drafts, CreateManual(d) PROVE UNCHANGED Lifecycle!vars
  <2> DEFINE e == [from |-> NoCandidate, draft |-> d, public |-> TRUE, knew |-> 0]
  <2>1. e \in Event /\ \A c \in Candidates : c # e.from
    BY ManualIsNoId DEF Event, NoCandidate
  <2>2. catalog' = Append(catalog, e) /\ UNCHANGED <<candidates, raced>>
    BY <1>3 DEF CreateManual
  <2> HIDE DEF e
  <2>3. \A c : EventsOf(c)' = EventsOf(c) \cup (IF e.from = c THEN {Len(catalog) + 1} ELSE {})
    BY <2>1, <2>2, AppendFacts DEF IInv
  <2>4. \A c \in Candidates : EventsOf(c)' = EventsOf(c) \cup {}
    BY <2>1, <2>3
  <2>5. \A c \in Candidates : EventsOf(c)' = EventsOf(c)
    BY <2>4
  <2> QED BY <2>2, <2>5, LifecycleStutter
<1>4. ASSUME NEW r \in Requests, Begin(r) PROVE UNCHANGED <<candidates, raced, catalog>>
  BY <1>4 DEF Begin, Correct, Reject, Validate, Start
<1>5. ASSUME NEW r \in Requests, Continue(r)
      PROVE  Lifecycle!Next \/ UNCHANGED <<candidates, raced, catalog>>
  BY <1>1, <1>5, LifecycleValidate
     DEF Continue, RunSubmissionControls, OpenCase, AttachImportSource, LoseRequest
<1> QED BY <1>2, <1>3, <1>4, <1>5 DEF Next, vars

\* Every step of the review is a step its abstract lifecycle allows, or changes nothing of it.
THEOREM Refinement == Spec => ImplementsLifecycle
<1> QED BY LifecycleInit, StepKeeps, LifecycleStep, InitIInv, PTL
        DEF Spec, ImplementsLifecycle, Lifecycle!Spec

-----------------------------------------------------------------------------
(* Requests about a candidate that do not overlap.                         *)

InFlight(c) == {r \in Requests : requests[r] # Idle /\ requests[r].candidate = c}

\* Of the requests about candidate c at most one is in flight.
ReviewedInTurn(c) == \A r, q \in InFlight(c) : r = q

\* The row of c a request has read is still there when it is about to write over it.
Undisturbed(c) ==
    /\ c \notin raced
    /\ \A r \in InFlight(c) :
          requests[r].step \in {"correct", "reject", "control", "create"}
             => requests[r].seen = candidates[c]

\* A request that goes on: it ends, controls what it has read, or writes over it.
LEMMA ContinueSlot ==
    ASSUME TypeOK, NEW r \in Requests, Continue(r)
    PROVE  LET q == requests[r]
               x == requests'[r]
           IN  /\ q # Idle /\ q.candidate \in Candidates
               /\ \A s \in Requests \ {r} : requests'[s] = requests[s]
               /\ \A c \in Candidates \ {q.candidate} : candidates'[c] = candidates[c]
               /\ \/ raced' = raced
                  \/ /\ q.step \in {"correct", "reject", "create"}
                     /\ candidates[q.candidate] = q.seen => raced' = raced
                     /\ \A c : c # q.candidate /\ c \notin raced => c \notin raced'
               /\ \/ x = Idle \/ x.step = "attach"
                  \/ x.candidate = q.candidate /\ x.seen = q.seen /\ q.step = "control"
                        /\ UNCHANGED candidates
<1> DEFINE q == requests[r]
<1>1. q \in Flight /\ q # Idle
  BY FlightTyped
     DEF Continue, CorrectWrite, RejectWrite, RunSubmissionControls, OpenCase,
         CreateEventAndValidate, AttachImportSource, LoseRequest, At, Steps, TypeOK
<1>2. q.candidate \in Candidates
  BY <1>1 DEF Flight
<1>3. ASSUME Race(r)
      PROVE  /\ candidates[q.candidate] = q.seen => raced' = raced
             /\ \A c : c # q.candidate /\ c \notin raced => c \notin raced'
  BY <1>3 DEF Race
<1>4. CASE CorrectWrite(r) \/ RejectWrite(r)
  BY <1>1, <1>2, <1>3, <1>4 DEF CorrectWrite, RejectWrite, Write, Finish, At, TypeOK
<1>5. CASE OpenCase(r) \/ AttachImportSource(r) \/ LoseRequest(r)
  BY <1>1, <1>2, <1>5 DEF OpenCase, AttachImportSource, LoseRequest, Finish, TypeOK
<1>6. CASE RunSubmissionControls(r)
  <2> DEFINE found == Anomalies(q.draft, q.public)
             x == [q EXCEPT !.step = IF found = {} THEN "create" ELSE "hold",
                            !.knew = Len(catalog), !.case = CaseTypeOf(found)]
  <2>1. x.candidate = q.candidate /\ x.seen = q.seen
    BY <1>1 DEF Flight
  <2>2. /\ requests' = [requests EXCEPT ![r] = x] /\ UNCHANGED <<candidates, raced>>
        /\ q.step = "control"
    BY <1>6 DEF RunSubmissionControls, At
  <2> HIDE DEF x
  <2> QED BY <1>1, <1>2, <2>1, <2>2 DEF TypeOK
<1>7. CASE CreateEventAndValidate(r)
  <2> DEFINE x == [q EXCEPT !.step = "attach", !.event = Len(catalog) + 1]
             new == [status |-> "VALIDATED", event |-> Len(catalog) + 1]
  <2>1. x.step = "attach"
    BY <1>1 DEF Flight
  <2>2. /\ requests' = [requests EXCEPT ![r] = x] /\ q.step = "create" /\ Race(r)
        /\ candidates' = [candidates EXCEPT ![q.candidate] = new]
    BY <1>7 DEF CreateEventAndValidate, At
  <2> HIDE DEF x, new
  <2> QED BY <1>1, <1>2, <1>3, <2>1, <2>2 DEF TypeOK
<1> QED BY <1>4, <1>5, <1>6, <1>7 DEF Continue

LEMMA UndisturbedKept ==
    ASSUME NEW c \in Candidates, TypeOK, ReviewedInTurn(c), Undisturbed(c), [Next]_vars
    PROVE  Undisturbed(c)'
<1>1. ASSUME NEW r \in Requests, NEW d \in Candidates, NEW at, NEW e, NEW p, Start(r, d, at, e, p)
      PROVE  Undisturbed(c)'
  <2> DEFINE x == [step |-> at, candidate |-> d, seen |-> candidates[d], draft |-> e, public |-> p,
                   knew |-> 0, event |-> 0, case |-> "DATA_CORRECTION"]
  <2>1. /\ requests' = [requests EXCEPT ![r] = x] /\ x.candidate = d /\ x.seen = candidates[d]
        /\ UNCHANGED <<candidates, raced>>
    BY <1>1 DEF Start
  <2> HIDE DEF x
  <2> QED BY <2>1 DEF Undisturbed, InFlight, TypeOK
<1>2. ASSUME NEW r \in Requests, Continue(r) PROVE Undisturbed(c)'
  <2> DEFINE q == requests[r]
  <2>1. c \notin raced'
    BY <1>2, ContinueSlot DEF Undisturbed, InFlight
  <2>2. ASSUME NEW s \in InFlight(c)', s # r
        PROVE  s \in InFlight(c) /\ requests'[s] = requests[s] /\ candidates'[c] = candidates[c]
    <3>1. s \in InFlight(c) /\ requests'[s] = requests[s]
      BY <1>2, <2>2, ContinueSlot DEF InFlight
    <3>2. q.candidate # c
      BY <1>2, <2>2, <3>1, ContinueSlot DEF ReviewedInTurn, InFlight
    <3> QED BY <1>2, <3>1, <3>2, ContinueSlot
  <2>3. ASSUME r \in InFlight(c)',
               requests'[r].step \in {"correct", "reject", "control", "create"}
        PROVE  requests'[r].seen = candidates'[c]
    BY <1>2, <2>3, ContinueSlot DEF Undisturbed, InFlight
  <2> QED BY <2>1, <2>2, <2>3 DEF Undisturbed
<1>3. CASE UNCHANGED vars \/ \E d \in Drafts : CreateManual(d)
  BY <1>3 DEF vars, CreateManual, Undisturbed, InFlight
<1> QED BY <1>1, <1>2, <1>3 DEF Next, Begin, Correct, Reject, Validate

\* A candidate gives one Event at most.
Sound(c) == Cardinality(EventsOf(c)) <= 1

\* A candidate is corrected or rejected, or validated, which gives its Event; it is none of
\* these once it is validated or rejected.
SoundStep(c) ==
    LET Before == candidates[c].status
        After  == candidates'[c].status
        Gives(n) == Cardinality(EventsOf(c)') = Cardinality(EventsOf(c)) + n
    IN  \/ After = Before /\ Gives(0)
        \/ /\ Before \in {"PENDING", "CORRECTED"}
           /\ \/ After \in {"CORRECTED", "REJECTED"} /\ Gives(0)
              \/ After = "VALIDATED" /\ Gives(1)

\* What a step of the lifecycle that overtakes nobody means for candidate c.
LEMMA LifecycleOf ==
    ASSUME NEW c \in Candidates, IInv, c \notin raced', [Lifecycle!Next]_(Lifecycle!vars)
    PROVE  SoundStep(c)
<1> DEFINE status   == [d \in Candidates |-> candidates[d].status]
           produced == [d \in Candidates |-> Cardinality(EventsOf(d))]
<1>1. /\ status[c] = candidates[c].status /\ status'[c] = candidates'[c].status
      /\ produced[c] = Cardinality(EventsOf(c)) /\ produced'[c] = Cardinality(EventsOf(c)')
  OBVIOUS
<1>2. produced[c] \in Nat
  BY <1>1, Counted DEF IInv
<1>3. ASSUME NEW d \in Candidates, NEW s, Lifecycle!Write(d, s)
      PROVE  /\ d # c => status'[c] = status[c] /\ produced'[c] = produced[c]
             /\ d = c => /\ status'[c] = s
                         /\ produced'[c] = produced[c] + (IF s = "VALIDATED" THEN 1 ELSE 0)
  <2>1. /\ status' = [status EXCEPT ![d] = s]
        /\ produced' = IF s = "VALIDATED" THEN [produced EXCEPT ![d] = @ + 1] ELSE produced
    BY <1>3 DEF Lifecycle!Write
  <2>2. DOMAIN status = Candidates /\ DOMAIN produced = Candidates
    OBVIOUS
  <2> HIDE DEF status, produced
  <2> QED BY <1>2, <2>1, <2>2
<1>4. CASE UNCHANGED Lifecycle!vars
  <2>1. status' = status /\ produced' = produced
    BY <1>4 DEF Lifecycle!vars
  <2> QED BY <1>1, <1>2, <2>1 DEF SoundStep
<1>5. ASSUME NEW d \in Candidates, d \notin raced,
             Lifecycle!Correct(d) \/ Lifecycle!Reject(d) \/ Lifecycle!Validate(d)
      PROVE  SoundStep(c)
  <2>1. status[d] \in {"PENDING", "CORRECTED"}
    BY <1>5 DEF Lifecycle!Correct, Lifecycle!Reject, Lifecycle!Validate, Lifecycle!Mutable
  <2>2. PICK s \in {"CORRECTED", "REJECTED", "VALIDATED"} : Lifecycle!Write(d, s)
    BY <1>5 DEF Lifecycle!Correct, Lifecycle!Reject, Lifecycle!Validate
  <2> HIDE DEF status, produced
  <2> QED BY <1>1, <1>2, <1>3, <2>1, <2>2 DEF SoundStep
<1>6. ASSUME NEW d \in Candidates, Lifecycle!Overtake(d) PROVE SoundStep(c)
  <2>1. PICK s \in {"CORRECTED", "REJECTED", "VALIDATED"} : Lifecycle!Write(d, s)
    BY <1>6 DEF Lifecycle!Overtake
  <2>2. d # c
    BY <1>6 DEF Lifecycle!Overtake
  <2> HIDE DEF status, produced
  <2> QED BY <1>1, <1>2, <1>3, <2>1, <2>2 DEF SoundStep
<1> QED BY <1>4, <1>5, <1>6 DEF Lifecycle!Next

\* The exception of the lifecycle is overlapping requests, nothing else: a candidate whose requests
\* never overlap, whatever happens to the others and whatever fails, is corrected until it is
\* validated, which gives its only Event, or rejected, and never changes after that.
THEOREM UncontendedIsSound ==
    ASSUME NEW c \in Candidates
    PROVE  Spec /\ []ReviewedInTurn(c) => []Sound(c) /\ [][SoundStep(c)]_(Lifecycle!vars)
<1>1. Init => Undisturbed(c)
  BY DEF Init, Undisturbed, InFlight
<1>2. IInv /\ ReviewedInTurn(c) /\ Undisturbed(c) /\ [Next]_vars => Undisturbed(c)'
  BY UndisturbedKept DEF IInv
<1>3. Spec /\ []ReviewedInTurn(c) => []Undisturbed(c)
  BY <1>1, <1>2, Inductive, PTL DEF Spec
<1>4. IInv /\ Undisturbed(c) => Sound(c)
  <2> SUFFICES ASSUME IInv, Undisturbed(c) PROVE Cardinality(EventsOf(c)) <= 1
    BY DEF Sound
  <2>1. \A i, j \in EventsOf(c) : i = j
    BY DEF IInv, SingleEvent, Undisturbed
  <2>2. CASE EventsOf(c) = {}
    BY <2>2, FS_EmptySet
  <2>3. CASE EventsOf(c) # {}
    <3>1. PICK i : EventsOf(c) = {i}
      BY <2>1, <2>3
    <3>2. Cardinality({i}) = 1
      BY FS_Singleton
    <3> QED BY <3>1, <3>2
  <2> QED BY <2>2, <2>3
<1>5. IInv /\ [Next]_vars /\ Undisturbed(c)' => [SoundStep(c)]_(Lifecycle!vars)
  BY LifecycleStep, LifecycleOf DEF Undisturbed
<1> QED BY <1>3, <1>4, <1>5, Inductive, PTL DEF Spec

=============================================================================
