-------------------------- MODULE Notifications_proofs --------------------------
(***************************************************************************)
(* Proofs about Notifications, for every set of users, Events, axes,       *)
(* requests and workers, and every size of batch: the typing, that the     *)
(* axes of a participation are those asked for, and that digests gather    *)
(* what they should, no more than once.                                    *)
(***************************************************************************)
EXTENDS Notifications, TLAPS

AxesOf == [Axes -> BOOLEAN]
Dtos   == UNION {[xs -> BOOLEAN] : xs \in SUBSET Axes}

Writing == [step: {"write"}, pair: Pairs, dto: Dtos, seen: AxesOf]
Telling == [step: {"emit"}, todo: (SUBSET Users) \ {{}}]

Serving(is) == [step: {"serve"}, track: DigestTracks, todo: SUBSET is]
Marking(is) == [step: {"mark"}, track: DigestTracks, todo: SUBSET is, user: Users]
PassAt(is)  == Serving(is) \cup Marking(is) \cup {Idle}

Typed ==
    /\ participations \in [Pairs -> AxesOf] /\ wished \in [Pairs -> AxesOf]
    /\ notes \in Seq(Note)
    /\ requests \in [Requests -> Writing \cup Telling \cup {Idle}]
    /\ passes \in [Passes -> PassAt(DOMAIN notes)]
    /\ raced \subseteq Pairs
    /\ answered \subseteq (DOMAIN notes) \X DigestTracks
    /\ doubtful \subseteq (DOMAIN notes) \X DigestTracks
    /\ served \in Nat /\ faults \in Nat

\* The requests that have read the axes of a pair and not written them yet.
Writers(k) == {r \in Requests : At(r, "write") /\ requests[r].pair = k}

\* Of a pair that is not raced one request at most is being written, and it has read what is there.
AxesInv ==
    \A k \in Pairs \ raced :
       /\ participations[k] = wished[k]
       /\ \A r \in Writers(k) : requests[r].seen = participations[k]
       /\ \A r, q \in Writers(k) : r = q

\* Pass p of a track has notification i at hand, and is about to date it.
Holds(p, i, track) == passes[p] # Idle /\ passes[p].track = track /\ i \in passes[p].todo
Dates(p, i, track) ==
    Holds(p, i, track) /\ passes[p].step = "mark" /\ notes[i].user = passes[p].user

\* What is about to be dated is answered; what was gathered is dated or about to be; and nobody
\* else has it at hand.
DigestInv ==
    \A i \in DOMAIN notes : \A track \in DigestTracks :
       /\ track \in notes[i].digested => <<i, track>> \in answered
       /\ \A p \in Passes : Dates(p, i, track) => <<i, track>> \in answered
       /\ <<i, track>> \notin doubtful =>
             /\ notes[i].gathered[track] \in {0, 1}
             /\ notes[i].gathered[track] = 1 =>
                   track \in notes[i].digested \/ \E p \in Passes : Dates(p, i, track)
             /\ \A p, q \in Passes : Holds(p, i, track) /\ Holds(q, i, track) => p = q
             /\ \A p \in Passes : Holds(p, i, track) => track \notin notes[i].digested

IInv == Typed /\ AxesInv /\ DigestInv

-----------------------------------------------------------------------------
(* Participation.                                                          *)

LEMMA NoteFacts ==
    ASSUME Typed
    PROVE  /\ DOMAIN notes = 1..Len(notes) /\ Len(notes) \in Nat
           /\ \A i \in DOMAIN notes : notes[i] \in Note
BY DEF Typed

LEMMA PassFacts ==
    ASSUME Typed, NEW p \in Passes, passes[p] # Idle
    PROVE  /\ passes[p].step \in {"serve", "mark"} /\ passes[p].track \in DigestTracks
           /\ passes[p].todo \subseteq DOMAIN notes
           /\ passes[p].step = "mark" => passes[p].user \in Users
<1>1. passes[p] \in Serving(DOMAIN notes) \cup Marking(DOMAIN notes)
  BY DEF Typed, PassAt
<1> QED BY <1>1 DEF Serving, Marking

\* Digests are not disturbed by a step that leaves them and their notifications alone.
LEMMA DigestsRest ==
    ASSUME DigestInv, UNCHANGED <<notes, passes, answered, doubtful>>
    PROVE  DigestInv'
<1>1. /\ \A p : \A i : \A t : Holds(p, i, t)' <=> Holds(p, i, t)
      /\ \A p : \A i : \A t : Dates(p, i, t)' <=> Dates(p, i, t)
  BY DEF Holds, Dates
<1>2. ASSUME NEW i \in DOMAIN notes, NEW t \in DigestTracks
      PROVE  /\ t \in notes[i].digested => <<i, t>> \in answered
             /\ \A p \in Passes : Dates(p, i, t)' => <<i, t>> \in answered
             /\ <<i, t>> \notin doubtful =>
                   /\ notes[i].gathered[t] \in {0, 1}
                   /\ notes[i].gathered[t] = 1 =>
                         t \in notes[i].digested \/ \E p \in Passes : Dates(p, i, t)'
                   /\ \A p, q \in Passes : Holds(p, i, t)' /\ Holds(q, i, t)' => p = q
                   /\ \A p \in Passes : Holds(p, i, t)' => t \notin notes[i].digested
  BY <1>1 DEF DigestInv
<1> QED BY <1>2 DEF DigestInv

\* Nor participations by one that leaves them and the requests that write them alone.
LEMMA AxesRest ==
    ASSUME AxesInv, UNCHANGED <<participations, wished, raced>>,
           \A k : Writers(k)' = Writers(k),
           \A k : \A r \in Writers(k) : requests'[r] = requests[r]
    PROVE  AxesInv'
BY DEF AxesInv

LEMMA WritersStay ==
    ASSUME NEW r \in Requests, requests \in [Requests -> Writing \cup Telling \cup {Idle}],
           ~At(r, "write"), NEW x, x.step # "write", requests' = [requests EXCEPT ![r] = x]
    PROVE  /\ \A k : Writers(k)' = Writers(k)
           /\ \A k : \A q \in Writers(k) : requests'[q] = requests[q]
BY DEF Writers, At

LEMMA DtoFacts ==
    ASSUME NEW d \in Dtos
    PROVE  DOMAIN d \subseteq Axes /\ \A x \in DOMAIN d : d[x] \in BOOLEAN
BY DEF Dtos

LEMMA UpdateParticipationKeeps ==
    ASSUME IInv, NEW r \in Requests, NEW k \in Pairs, NEW dto \in Dtos,
           UpdateParticipation(r, k, dto)
    PROVE  IInv'
<1> DEFINE x == [step |-> "write", pair |-> k, dto |-> dto, seen |-> participations[k]]
<1>1. x \in Writing /\ x.step = "write" /\ x.pair = k /\ x.seen = participations[k]
  BY DEF Writing, IInv, Typed
<1>2. requests' = [requests EXCEPT ![r] = x] /\ requests[r] = Idle /\ ~At(r, "write")
  BY DEF UpdateParticipation, Start, At, Idle
<1> HIDE DEF x
<1>3. requests'[r] = x /\ \A q \in Requests \ {r} : requests'[q] = requests[q]
  BY <1>2 DEF IInv, Typed
<1>4. Typed'
  BY <1>1, <1>2 DEF UpdateParticipation, Start, IInv, Typed
<1>5. DigestInv'
  BY DigestsRest DEF UpdateParticipation, IInv
<1>6. Writers(k)' = Writers(k) \cup {r}
  BY <1>1, <1>2, <1>3 DEF Writers, At
<1>7. \A j \in Pairs \ {k} : Writers(j)' = Writers(j)
  BY <1>1, <1>2, <1>3 DEF Writers, At
<1>8. r \notin Writers(k) /\ (k \notin raced' => Writers(k) = {})
  BY <1>2 DEF UpdateParticipation, Writers
<1>9. raced \subseteq raced' /\ UNCHANGED <<participations, wished>>
  BY DEF UpdateParticipation
<1>10. ASSUME NEW j \in Pairs \ raced'
       PROVE  /\ participations'[j] = wished'[j]
              /\ \A q \in Writers(j)' : requests'[q].seen = participations'[j]
              /\ \A s, q \in Writers(j)' : s = q
  <2>1. CASE j = k
    BY <2>1, <1>1, <1>3, <1>6, <1>8, <1>9, <1>10 DEF IInv, AxesInv
  <2>2. CASE j # k
    <3>1. \A q \in Writers(j) : requests'[q] = requests[q]
      BY <1>2, <1>3 DEF Writers
    <3> QED BY <2>2, <3>1, <1>7, <1>9, <1>10 DEF IInv, AxesInv
  <2> QED BY <2>1, <2>2
<1> QED BY <1>4, <1>5, <1>10 DEF IInv, AxesInv

LEMMA WriteParticipationKeeps ==
    ASSUME IInv, NEW r \in Requests, WriteParticipation(r) PROVE IInv'
<1> DEFINE q == requests[r]
           k == q.pair
           w == Written(r)
<1>1. q \in Writing /\ q.step = "write"
  BY DEF WriteParticipation, At, IInv, Typed, Telling, Idle
<1>2. k \in Pairs /\ q.dto \in Dtos /\ q.seen \in AxesOf /\ r \in Writers(k)
  BY <1>1 DEF Writing, Writers, At
<1>3. w \in AxesOf
  BY <1>2, DtoFacts DEF Written, AxesOf
<1>4. /\ participations' = IF w = Neutral /\ q.seen = Neutral THEN participations
                           ELSE [participations EXCEPT ![k] = w]
      /\ wished' = [wished EXCEPT ![k] =
                      [x \in Axes |-> IF x \in DOMAIN q.dto THEN q.dto[x] ELSE wished[k][x]]]
      /\ requests' = [requests EXCEPT ![r] = Idle]
      /\ UNCHANGED <<notes, passes, raced, answered, doubtful, served, faults>>
  BY <1>2 DEF WriteParticipation, Finish, IInv, Typed
<1>5. [x \in Axes |-> IF x \in DOMAIN q.dto THEN q.dto[x] ELSE wished[k][x]] \in AxesOf
  BY <1>2, DtoFacts DEF AxesOf, IInv, Typed
<1>6. Typed'
  BY <1>2, <1>3, <1>4, <1>5 DEF IInv, Typed
<1>7. DigestInv'
  BY <1>4, DigestsRest DEF IInv
<1>8. k \notin raced => q.seen = participations[k] /\ participations[k] = wished[k]
                          /\ Writers(k) = {r}
  BY <1>2 DEF IInv, AxesInv
<1>9. k \notin raced => participations'[k] = wished'[k]
  <2> SUFFICES ASSUME k \notin raced PROVE participations'[k] = w /\ wished'[k] = w
    OBVIOUS
  <2>1. wished'[k] = w
    BY <1>2, <1>4, <1>8 DEF Written, IInv, Typed
  <2>2. participations'[k] = w
    BY <1>2, <1>4, <1>8 DEF IInv, Typed
  <2> QED BY <2>1, <2>2
<1>10. \A j \in Pairs \ {k} : participations'[j] = participations[j] /\ wished'[j] = wished[j]
  BY <1>4 DEF IInv, Typed
<1>11. /\ requests'[r] = Idle /\ \A s \in Requests \ {r} : requests'[s] = requests[s]
       /\ \A j : Writers(j)' = Writers(j) \ {r}
  BY <1>4 DEF IInv, Typed, Writers, At, Idle
<1> HIDE DEF k, q, w
<1>12. ASSUME NEW j \in Pairs \ raced
       PROVE  /\ participations'[j] = wished'[j]
              /\ \A p \in Writers(j)' : requests'[p].seen = participations'[j]
              /\ \A s, p \in Writers(j)' : s = p
  <2>1. CASE j = k
    BY <2>1, <1>8, <1>9, <1>11, <1>12
  <2>2. CASE j # k
    <3>1. \A p \in Writers(j)' : p \in Writers(j) /\ requests'[p] = requests[p]
      BY <1>11 DEF Writers
    <3> QED BY <2>2, <3>1, <1>10, <1>12 DEF IInv, AxesInv
  <2> QED BY <2>1, <2>2
<1> QED BY <1>4, <1>6, <1>7, <1>12 DEF IInv, AxesInv

-----------------------------------------------------------------------------
(* Telling.                                                                *)

LEMMA AnnounceKeeps ==
    ASSUME IInv, NEW r \in Requests, NEW told \in SUBSET Users, Announce(r, told) PROVE IInv'
<1> DEFINE x == [step |-> "emit", todo |-> told]
<1>1. x \in Telling /\ x.step # "write"
  BY DEF Telling, Announce
<1>2. /\ requests' = [requests EXCEPT ![r] = x] /\ ~At(r, "write") /\ served' \in Nat
      /\ UNCHANGED <<participations, notes, passes, wished, raced, answered, doubtful, faults>>
  BY DEF Announce, Start, At, Idle, history, IInv, Typed
<1> HIDE DEF x
<1>3. Typed'
  BY <1>1, <1>2 DEF IInv, Typed
<1>4. AxesInv'
  BY <1>1, <1>2, WritersStay, AxesRest DEF IInv, Typed
<1> QED BY <1>2, <1>3, <1>4, DigestsRest DEF IInv

LEMMA EmitKeeps ==
    ASSUME IInv, NEW r \in Requests, NEW u \in Users, Emit(r, u) PROVE IInv'
<1> DEFINE new == [user |-> u, digested |-> {}, removed |-> FALSE,
                   gathered |-> [track \in DigestTracks |-> 0]]
           x == IF requests[r].todo = {u} THEN Idle
                ELSE [requests[r] EXCEPT !.todo = @ \ {u}]
<1>1. requests[r] \in Telling /\ requests[r].step = "emit"
  BY DEF Emit, At, IInv, Typed, Writing, Idle
<1>2. x \in Telling \cup {Idle} /\ x.step # "write"
  BY <1>1 DEF Telling, Emit, Idle
<1>3. /\ requests' = [requests EXCEPT ![r] = x] /\ ~At(r, "write") /\ notes' = Append(notes, new)
      /\ UNCHANGED <<participations, passes, wished, raced, answered, doubtful, served, faults>>
  BY <1>1 DEF Emit, Finish, At, history, IInv, Typed
<1>4. new \in Note /\ new.digested = {} /\ \A t \in DigestTracks : new.gathered[t] = 0
  BY DEF Note
<1> HIDE DEF x, new
<1>5. /\ notes' \in Seq(Note) /\ DOMAIN notes \subseteq DOMAIN notes'
      /\ \A i \in DOMAIN notes : notes'[i] = notes[i]
      /\ \A i \in DOMAIN notes' \ DOMAIN notes : notes'[i] = new
  <2>1. /\ DOMAIN notes = 1..Len(notes) /\ DOMAIN notes' = 1..(Len(notes) + 1) /\ Len(notes) \in Nat
        /\ notes' \in Seq(Note)
        /\ notes'[Len(notes) + 1] = new /\ \A i \in 1..Len(notes) : notes'[i] = notes[i]
    BY <1>3, <1>4 DEF IInv, Typed
  <2>2. /\ 1..Len(notes) \subseteq 1..(Len(notes) + 1)
        /\ \A i \in 1..(Len(notes) + 1) : i \in 1..Len(notes) \/ i = Len(notes) + 1
    BY <2>1
  <2> QED BY <2>1, <2>2
<1>6. passes' \in [Passes -> PassAt(DOMAIN notes')]
  BY <1>3, <1>5 DEF IInv, Typed, PassAt, Serving, Marking
<1>7. Typed'
  BY <1>2, <1>3, <1>5, <1>6 DEF IInv, Typed
<1>8. AxesInv'
  BY <1>2, <1>3, WritersStay, AxesRest DEF IInv, Typed
<1>9. \A p \in Passes : \A i : \A t : Holds(p, i, t)' <=> Holds(p, i, t)
  BY <1>3 DEF Holds
<1>10. \A p \in Passes : \A i : \A t : Holds(p, i, t) => i \in DOMAIN notes
  BY PassFacts DEF Holds, IInv
<1>11. \A p \in Passes : \A i \in DOMAIN notes : \A t : Dates(p, i, t)' <=> Dates(p, i, t)
  BY <1>3, <1>5, <1>9 DEF Dates
<1>12. ASSUME NEW i \in DOMAIN notes', NEW t \in DigestTracks
       PROVE  /\ t \in notes'[i].digested => <<i, t>> \in answered'
              /\ \A p \in Passes : Dates(p, i, t)' => <<i, t>> \in answered'
              /\ <<i, t>> \notin doubtful' =>
                    /\ notes'[i].gathered[t] \in {0, 1}
                    /\ notes'[i].gathered[t] = 1 =>
                          t \in notes'[i].digested \/ \E p \in Passes : Dates(p, i, t)'
                    /\ \A p, q \in Passes : Holds(p, i, t)' /\ Holds(q, i, t)' => p = q
                    /\ \A p \in Passes : Holds(p, i, t)' => t \notin notes'[i].digested
  <2>1. CASE i \in DOMAIN notes
    BY <2>1, <1>3, <1>5, <1>9, <1>11 DEF IInv, DigestInv
  <2>2. CASE i \notin DOMAIN notes
    <3>1. notes'[i] = new /\ \A p \in Passes : ~Holds(p, i, t)'
      BY <2>2, <1>5, <1>9, <1>10
    <3>2. \A p \in Passes : ~Dates(p, i, t)'
      BY <3>1 DEF Dates
    <3> QED BY <3>1, <3>2, <1>4
  <2> QED BY <2>1, <2>2
<1> QED BY <1>7, <1>8, <1>12 DEF IInv, DigestInv

LEMMA LoseRequestKeeps == ASSUME IInv, NEW r \in Requests, LoseRequest(r) PROVE IInv'
<1>1. /\ requests' = [requests EXCEPT ![r] = Idle] /\ faults' \in Nat
      /\ UNCHANGED <<participations, notes, passes, wished, raced, answered, doubtful, served>>
  BY DEF LoseRequest, Finish, history, IInv, Typed
<1>2. Typed'
  BY <1>1 DEF IInv, Typed
<1>3. \A k : \A q \in Writers(k)' : q \in Writers(k) /\ requests'[q] = requests[q]
  BY <1>1 DEF IInv, Typed, Writers, At, Idle
<1>4. AxesInv'
  BY <1>1, <1>3 DEF IInv, AxesInv
<1> QED BY <1>1, <1>2, <1>4, DigestsRest DEF IInv

\* A step that changes notifications in place keeps them typed.
LEMMA NotesStay ==
    ASSUME Typed, NEW f, DOMAIN f = DOMAIN notes, f \in [DOMAIN notes -> Note]
    PROVE  f \in Seq(Note)
<1>1. DOMAIN notes = 1..Len(notes) /\ Len(notes) \in Nat
  BY NoteFacts
<1> QED BY <1>1

LEMMA RemoveKeeps == ASSUME IInv, NEW i \in DOMAIN notes, Remove(i) PROVE IInv'
<1>1. /\ notes' = [notes EXCEPT ![i].removed = TRUE] /\ served' \in Nat
      /\ UNCHANGED <<participations, requests, passes, wished, raced, answered, doubtful, faults>>
  BY DEF Remove, history, IInv, Typed
<1>2. /\ notes' \in Seq(Note) /\ DOMAIN notes' = DOMAIN notes
      /\ \A j \in DOMAIN notes : /\ notes'[j].user = notes[j].user
                                 /\ notes'[j].digested = notes[j].digested
                                 /\ notes'[j].gathered = notes[j].gathered
  BY <1>1, NoteFacts, NotesStay DEF IInv, Note
<1>3. Typed'
  BY <1>1, <1>2 DEF IInv, Typed
<1>4. AxesInv'
  BY <1>1 DEF IInv, AxesInv, Writers, At
<1>5. DigestInv'
  <2>1. \A p : \A j : \A t : Holds(p, j, t)' <=> Holds(p, j, t)
    BY <1>1 DEF Holds
  <2>2. \A p : \A j \in DOMAIN notes : \A t : Dates(p, j, t)' <=> Dates(p, j, t)
    BY <1>1, <1>2, <2>1 DEF Dates
  <2>3. ASSUME NEW j \in DOMAIN notes, NEW t \in DigestTracks
        PROVE  /\ t \in notes'[j].digested => <<j, t>> \in answered
               /\ \A p \in Passes : Dates(p, j, t)' => <<j, t>> \in answered
               /\ <<j, t>> \notin doubtful =>
                     /\ notes'[j].gathered[t] \in {0, 1}
                     /\ notes'[j].gathered[t] = 1 =>
                           t \in notes'[j].digested \/ \E p \in Passes : Dates(p, j, t)'
                     /\ \A p, q \in Passes : Holds(p, j, t)' /\ Holds(q, j, t)' => p = q
                     /\ \A p \in Passes : Holds(p, j, t)' => t \notin notes'[j].digested
    BY <1>2, <2>1, <2>2 DEF IInv, DigestInv
  <2> QED BY <1>1, <1>2, <2>3 DEF DigestInv
<1> QED BY <1>3, <1>4, <1>5 DEF IInv

-----------------------------------------------------------------------------
(* Digests.                                                                *)

\* Typing of a step of a pass: only notifications in place, the pass and its histories change.
LEMMA PassTyping ==
    ASSUME Typed, NEW p \in Passes, NEW x \in PassAt(DOMAIN notes),
           passes' = [passes EXCEPT ![p] = x],
           notes' \in Seq(Note), DOMAIN notes' = DOMAIN notes,
           answered' \subseteq (DOMAIN notes) \X DigestTracks,
           doubtful' \subseteq (DOMAIN notes) \X DigestTracks,
           UNCHANGED <<participations, wished, raced, requests, served>>, faults' \in Nat
    PROVE  Typed'
BY DEF Typed

LEMMA AxesElsewhere ==
    ASSUME AxesInv, UNCHANGED <<participations, wished, raced, requests>> PROVE AxesInv'
BY DEF AxesInv, Writers, At

LEMMA StartPassKeeps ==
    ASSUME IInv, NEW p \in Passes, NEW track \in DigestTracks, StartPass(p, track) PROVE IInv'
<1>1. PICK b \in Batches(track) :
         /\ passes' = [passes EXCEPT ![p] = [step |-> "serve", track |-> track, todo |-> b]]
         /\ LET met == {q \in Passes \ {p} : passes[q] # Idle /\ passes[q].track = track}
            IN  Blame({i \in b : \E q \in met : i \in passes[q].todo}, track)
  BY DEF StartPass
<1> DEFINE x == [step |-> "serve", track |-> track, todo |-> b]
           met == {i \in b : \E q \in Passes \ {p} : Holds(q, i, track)}
<1>2. b \subseteq DOMAIN notes /\ \A i \in b : track \notin notes[i].digested
  BY DEF Batches, Pending
<1>3. /\ x \in PassAt(DOMAIN notes) /\ x # Idle /\ x.step = "serve" /\ x.track = track
      /\ x.todo = b
  BY <1>2 DEF PassAt, Serving, Idle
<1>4. /\ passes' = [passes EXCEPT ![p] = x] /\ passes[p] = Idle
      /\ UNCHANGED <<participations, notes, requests, wished, raced, answered, served, faults>>
  BY <1>1 DEF StartPass
<1>5. doubtful' = doubtful \cup (met \X {track})
  BY <1>1 DEF Blame, Holds
<1> HIDE DEF x
<1>6. Typed'
  <2>1. met \X {track} \subseteq (DOMAIN notes) \X DigestTracks
    BY <1>2
  <2> HIDE DEF met
  <2>2. doubtful' \subseteq (DOMAIN notes) \X DigestTracks
    BY <2>1, <1>5 DEF IInv, Typed
  <2> QED BY <1>3, <1>4, <2>2, PassTyping DEF IInv, Typed
<1>7. AxesInv'
  BY <1>4, AxesElsewhere DEF IInv
<1>8. /\ passes'[p] = x /\ \A q \in Passes \ {p} : passes'[q] = passes[q]
  BY <1>4 DEF IInv, Typed
<1>9. /\ \A q \in Passes \ {p} : \A i : \A t : Holds(q, i, t)' <=> Holds(q, i, t)
      /\ \A i : \A t : Holds(p, i, t)' <=> (t = track /\ i \in b)
  BY <1>3, <1>4, <1>8 DEF Holds
<1>a. /\ \A q \in Passes \ {p} : \A i : \A t : Dates(q, i, t)' <=> Dates(q, i, t)
      /\ \A i : \A t : ~Dates(p, i, t)' /\ ~Dates(p, i, t)
  BY <1>3, <1>4, <1>8 DEF Holds, Dates
<1>10. ASSUME NEW i \in DOMAIN notes, NEW t \in DigestTracks
       PROVE  /\ t \in notes[i].digested => <<i, t>> \in answered
              /\ \A q \in Passes : Dates(q, i, t)' => <<i, t>> \in answered
              /\ <<i, t>> \notin doubtful' =>
                    /\ notes[i].gathered[t] \in {0, 1}
                    /\ notes[i].gathered[t] = 1 =>
                          t \in notes[i].digested \/ \E q \in Passes : Dates(q, i, t)'
                    /\ \A s, q \in Passes : Holds(s, i, t)' /\ Holds(q, i, t)' => s = q
                    /\ \A q \in Passes : Holds(q, i, t)' => t \notin notes[i].digested
  <2>1. <<i, t>> \notin doubtful' =>
           <<i, t>> \notin doubtful /\ (t = track /\ i \in b =>
              \A q \in Passes \ {p} : ~Holds(q, i, t))
    BY <1>5
  <2>2. /\ t \in notes[i].digested => <<i, t>> \in answered
        /\ \A q \in Passes : Dates(q, i, t) => <<i, t>> \in answered
        /\ <<i, t>> \notin doubtful =>
              /\ notes[i].gathered[t] \in {0, 1}
              /\ notes[i].gathered[t] = 1 =>
                    t \in notes[i].digested \/ \E q \in Passes : Dates(q, i, t)
              /\ \A s, q \in Passes : Holds(s, i, t) /\ Holds(q, i, t) => s = q
              /\ \A q \in Passes : Holds(q, i, t) => t \notin notes[i].digested
    BY DEF IInv, DigestInv
  <2>3. \A q \in Passes : Dates(q, i, t)' <=> Dates(q, i, t)
    BY <1>a
  <2>4. \A q \in Passes :
           Holds(q, i, t)' <=> (q = p /\ t = track /\ i \in b) \/ (q # p /\ Holds(q, i, t))
    BY <1>9
  <2> HIDE DEF met
  <2> QED BY <2>1, <2>2, <2>3, <2>4, <1>2
<1>11. DigestInv'
  BY <1>4, <1>10 DEF DigestInv
<1> QED BY <1>6, <1>7, <1>11 DEF IInv

\* Facts of the pass p, which has user u among its recipients.
LEMMA ItemFacts ==
    ASSUME Typed, NEW p \in Passes, NEW u, passes[p] # Idle
    PROVE  /\ Items(p, u) \subseteq DOMAIN notes
           /\ \A i : i \in Items(p, u) <=> i \in passes[p].todo /\ notes[i].user = u
BY PassFacts DEF Items

\* A recipient of p is served: its items are answered, and gathered if there is a vector.
LEMMA AnswerKeeps ==
    ASSUME IInv, NEW p \in Passes, NEW u \in Users, passes[p].step = "serve", Answer(p, u),
           NEW add \in {0, 1},
           notes' = [i \in DOMAIN notes |->
              IF i \in Items(p, u) /\ add = 1
                THEN [notes[i] EXCEPT !.gathered[passes[p].track] = @ + 1] ELSE notes[i]],
           UNCHANGED <<participations, requests, wished, raced, doubtful, served, faults>>
    PROVE  IInv'
<1> DEFINE track == passes[p].track
           x == [step |-> "mark", track |-> track, todo |-> passes[p].todo, user |-> u]
           is == Items(p, u)
<1>1. passes[p] # Idle
  BY DEF Idle
<1>2. track \in DigestTracks /\ passes[p].todo \subseteq DOMAIN notes
  BY <1>1, PassFacts DEF IInv
<1>3. is \subseteq DOMAIN notes /\ \A i : i \in is <=> i \in passes[p].todo /\ notes[i].user = u
  BY <1>1, ItemFacts DEF IInv
<1>4. /\ x \in PassAt(DOMAIN notes) /\ x # Idle /\ x.step = "mark" /\ x.track = track
      /\ x.todo = passes[p].todo /\ x.user = u
  BY <1>2 DEF PassAt, Marking, Idle
<1>5. passes' = [passes EXCEPT ![p] = x] /\ answered' = answered \cup (is \X {track})
  BY DEF Answer, IInv, Typed
<1>6. \A i \in DOMAIN notes : notes[i] \in Note
  BY NoteFacts DEF IInv
<1> HIDE DEF is, x
<1> DEFINE more(i) == [notes[i] EXCEPT !.gathered[track] = @ + 1]
<1>7. ASSUME NEW i \in DOMAIN notes
      PROVE  /\ more(i) \in Note /\ more(i).user = notes[i].user
             /\ more(i).digested = notes[i].digested
             /\ \A t \in DigestTracks : more(i).gathered[t] =
                  IF t = track THEN notes[i].gathered[t] + 1 ELSE notes[i].gathered[t]
  <2>1. notes[i].gathered \in [DigestTracks -> Nat] /\ notes[i] \in Note
    BY <1>6 DEF Note
  <2>2. [notes[i].gathered EXCEPT ![track] = @ + 1] \in [DigestTracks -> Nat]
    BY <2>1, <1>2
  <2> QED BY <2>1, <2>2, <1>2 DEF Note
<1>8. \A i \in DOMAIN notes : notes'[i] = IF i \in is /\ add = 1 THEN more(i) ELSE notes[i]
  BY DEF is
<1> HIDE DEF more
<1>9. DOMAIN notes' = DOMAIN notes /\ notes' \in Seq(Note)
  <2>1. DOMAIN notes' = DOMAIN notes
    OBVIOUS
  <2>2. \A i \in DOMAIN notes : notes'[i] \in Note
    BY <1>6, <1>7, <1>8
  <2>3. \E f : f = notes' /\ DOMAIN f = DOMAIN notes /\ f \in [DOMAIN notes -> Note]
    BY <2>1, <2>2
  <2> QED BY <2>1, <2>3, NotesStay DEF IInv
<1>10. /\ \A i \in DOMAIN notes : /\ notes'[i].user = notes[i].user
                                  /\ notes'[i].digested = notes[i].digested
       /\ \A i \in DOMAIN notes : \A t \in DigestTracks :
             notes'[i].gathered[t] = IF i \in is /\ t = track THEN notes[i].gathered[t] + add
                                                              ELSE notes[i].gathered[t]
  <2>1. \A i \in DOMAIN notes : \A t \in DigestTracks :
           notes[i].gathered[t] + 0 = notes[i].gathered[t]
    BY <1>6 DEF Note
  <2>2. ASSUME NEW i \in DOMAIN notes, i \in is, add = 1
        PROVE  /\ notes'[i].user = notes[i].user /\ notes'[i].digested = notes[i].digested
               /\ \A t \in DigestTracks : notes'[i].gathered[t] =
                    IF t = track THEN notes[i].gathered[t] + add ELSE notes[i].gathered[t]
    <3>1. notes'[i] = more(i)
      BY <2>2, <1>8
    <3>2. /\ more(i).user = notes[i].user /\ more(i).digested = notes[i].digested
          /\ \A t \in DigestTracks : more(i).gathered[t] =
               IF t = track THEN notes[i].gathered[t] + 1 ELSE notes[i].gathered[t]
      BY <1>7
    <3> QED BY <3>1, <3>2, <2>2
  <2>3. ASSUME NEW i \in DOMAIN notes, i \notin is \/ add = 0
        PROVE  notes'[i] = notes[i]
    BY <2>3, <1>8
  <2>4. ASSUME NEW i \in DOMAIN notes
        PROVE  /\ notes'[i].user = notes[i].user /\ notes'[i].digested = notes[i].digested
               /\ \A t \in DigestTracks :
                     notes'[i].gathered[t] = IF i \in is /\ t = track
                                               THEN notes[i].gathered[t] + add
                                               ELSE notes[i].gathered[t]
    <3>1. CASE i \in is /\ add = 1
      BY <3>1, <2>2
    <3>2. CASE i \notin is \/ add = 0
      BY <3>2, <2>1, <2>3
    <3> QED BY <3>1, <3>2
  <2> QED BY <2>4
<1>11. Typed'
  <2>1. answered' \subseteq (DOMAIN notes) \X DigestTracks
    BY <1>2, <1>3, <1>5 DEF IInv, Typed
  <2> QED BY <2>1, <1>4, <1>5, <1>9, PassTyping DEF IInv, Typed
<1>12. AxesInv'
  BY AxesElsewhere DEF IInv
<1>13. /\ passes'[p] = x /\ \A q \in Passes \ {p} : passes'[q] = passes[q]
  BY <1>5 DEF IInv, Typed
<1>14. /\ \A q \in Passes : \A i : \A t : Holds(q, i, t)' <=> Holds(q, i, t)
       /\ \A q \in Passes \ {p} : \A i \in DOMAIN notes : \A t :
             Dates(q, i, t)' <=> Dates(q, i, t)
       /\ \A i \in DOMAIN notes : \A t : Dates(p, i, t)' <=> i \in is /\ t = track
       /\ \A i : \A t : ~Dates(p, i, t)
       /\ \A i \in is : Holds(p, i, track)
  BY <1>1, <1>3, <1>4, <1>10, <1>13 DEF Holds, Dates
<1>15. ASSUME NEW i \in DOMAIN notes, NEW t \in DigestTracks
       PROVE  /\ t \in notes'[i].digested => <<i, t>> \in answered'
              /\ \A q \in Passes : Dates(q, i, t)' => <<i, t>> \in answered'
              /\ <<i, t>> \notin doubtful =>
                    /\ notes'[i].gathered[t] \in {0, 1}
                    /\ notes'[i].gathered[t] = 1 =>
                          t \in notes'[i].digested \/ \E q \in Passes : Dates(q, i, t)'
                    /\ \A s, q \in Passes : Holds(s, i, t)' /\ Holds(q, i, t)' => s = q
                    /\ \A q \in Passes : Holds(q, i, t)' => t \notin notes'[i].digested
  <2>1. /\ t \in notes[i].digested => <<i, t>> \in answered
        /\ \A q \in Passes : Dates(q, i, t) => <<i, t>> \in answered
        /\ <<i, t>> \notin doubtful =>
              /\ notes[i].gathered[t] \in {0, 1}
              /\ notes[i].gathered[t] = 1 =>
                    t \in notes[i].digested \/ \E q \in Passes : Dates(q, i, t)
              /\ \A s, q \in Passes : Holds(s, i, t) /\ Holds(q, i, t) => s = q
              /\ \A q \in Passes : Holds(q, i, t) => t \notin notes[i].digested
    BY DEF IInv, DigestInv
  <2>2. CASE i \in is /\ t = track
    <3>1. <<i, t>> \in answered'
      BY <2>2, <1>5
    <3>2. Holds(p, i, t) /\ Dates(p, i, t)'
      BY <2>2, <1>14
    <3>3. <<i, t>> \notin doubtful => \A q \in Passes : ~Dates(q, i, t)
      BY <3>2, <2>1, <1>14 DEF Dates
    <3>4. <<i, t>> \notin doubtful => notes[i].gathered[t] = 0
      BY <3>2, <3>3, <2>1
    <3> QED BY <2>1, <2>2, <3>1, <3>2, <3>4, <1>10, <1>14
  <2>3. CASE ~(i \in is /\ t = track)
    <3>1. \A q \in Passes : Dates(q, i, t)' <=> Dates(q, i, t)
      BY <2>3, <1>14
    <3> QED BY <2>1, <2>3, <3>1, <1>5, <1>10, <1>14
  <2> QED BY <2>2, <2>3
<1>16. DigestInv'
  BY <1>9, <1>15 DEF DigestInv
<1> QED BY <1>11, <1>12, <1>16 DEF IInv

LEMMA CreateDigestKeeps ==
    ASSUME IInv, NEW p \in Passes, NEW u \in Users, CreateDigest(p, u) PROVE IInv'
<1>1. notes' = [i \in DOMAIN notes |->
         IF i \in Items(p, u) /\ 1 = 1
           THEN [notes[i] EXCEPT !.gathered[passes[p].track] = @ + 1] ELSE notes[i]]
  BY DEF CreateDigest
<1> QED BY <1>1, AnswerKeeps DEF CreateDigest

LEMMA ServeSilentlyKeeps ==
    ASSUME IInv, NEW p \in Passes, NEW u \in Users, ServeSilently(p, u) PROVE IInv'
<1>1. notes' = [i \in DOMAIN notes |->
         IF i \in Items(p, u) /\ 0 = 1
           THEN [notes[i] EXCEPT !.gathered[passes[p].track] = @ + 1] ELSE notes[i]]
  <2>1. notes = [i \in DOMAIN notes |-> notes[i]]
    BY NoteFacts DEF IInv, Typed
  <2> QED BY <2>1 DEF ServeSilently
<1> QED BY <1>1, AnswerKeeps DEF ServeSilently

\* What a pass that is done with a recipient still has at hand.
LEMMA NextFacts ==
    ASSUME Typed, NEW p \in Passes, NEW u, passes[p] # Idle, NextRecipient(p, u)
    PROVE  \E x \in PassAt(DOMAIN notes) :
              /\ passes' = [passes EXCEPT ![p] = x]
              /\ x # Idle => /\ x.step = "serve" /\ x.track = passes[p].track
                             /\ x.todo \subseteq passes[p].todo
                             /\ x.todo \cap Items(p, u) = {}
              /\ \A i \in passes[p].todo \ Items(p, u) : x # Idle /\ i \in x.todo
<1> DEFINE x == IF passes[p].todo = Items(p, u) THEN Idle
                ELSE [step |-> "serve", track |-> passes[p].track,
                      todo |-> passes[p].todo \ Items(p, u)]
<1>1. passes' = [passes EXCEPT ![p] = x]
  BY DEF NextRecipient, Typed
<1>2. x \in PassAt(DOMAIN notes)
  BY PassFacts DEF PassAt, Serving
<1>3. x # Idle => /\ x.step = "serve" /\ x.track = passes[p].track
                  /\ x.todo = passes[p].todo \ Items(p, u)
  OBVIOUS
<1>4. ASSUME NEW i \in passes[p].todo \ Items(p, u) PROVE x # Idle
  BY <1>4 DEF Idle
<1> QED BY <1>1, <1>2, <1>3, <1>4

\* A pass lets go of notifications: those it was about to date are dated, or doubtful.
LEMMA LetGoKeeps ==
    ASSUME IInv, NEW p \in Passes, passes[p] # Idle, NEW x \in PassAt(DOMAIN notes),
           passes' = [passes EXCEPT ![p] = x],
           x # Idle => x.step = "serve" /\ x.track = passes[p].track
                          /\ x.todo \subseteq passes[p].todo,
           notes' \in Seq(Note), DOMAIN notes' = DOMAIN notes,
           \A i \in DOMAIN notes :
              notes'[i].user = notes[i].user /\ notes'[i].gathered = notes[i].gathered,
           \A i \in DOMAIN notes : \A t \in DigestTracks :
              /\ t \in notes[i].digested => t \in notes'[i].digested
              /\ t \in notes'[i].digested =>
                    \/ t \in notes[i].digested
                    \/ Dates(p, i, t) /\ (x # Idle => i \notin x.todo)
              /\ Dates(p, i, t) => t \in notes'[i].digested \/ <<i, t>> \in doubtful',
           doubtful \subseteq doubtful', doubtful' \subseteq (DOMAIN notes) \X DigestTracks,
           UNCHANGED <<participations, wished, raced, requests, answered, served>>, faults' \in Nat
    PROVE  IInv'
<1>1. Typed'
  BY PassTyping DEF IInv, Typed
<1>2. AxesInv'
  BY AxesElsewhere DEF IInv
<1>3. passes'[p] = x /\ \A q \in Passes \ {p} : passes'[q] = passes[q]
  BY DEF IInv, Typed
<1>4. /\ \A q \in Passes : \A i : \A t : Holds(q, i, t)' => Holds(q, i, t)
      /\ \A i : \A t : Holds(p, i, t)' => x # Idle /\ i \in x.todo
      /\ \A q \in Passes \ {p} : \A i \in DOMAIN notes : \A t :
            Dates(q, i, t)' <=> Dates(q, i, t)
      /\ \A i : \A t : ~Dates(p, i, t)'
  BY <1>3 DEF Holds, Dates
<1>5. ASSUME NEW i \in DOMAIN notes, NEW t \in DigestTracks
      PROVE  /\ t \in notes'[i].digested => <<i, t>> \in answered
             /\ \A q \in Passes : Dates(q, i, t)' => <<i, t>> \in answered
             /\ <<i, t>> \notin doubtful' =>
                   /\ notes'[i].gathered[t] \in {0, 1}
                   /\ notes'[i].gathered[t] = 1 =>
                         t \in notes'[i].digested \/ \E q \in Passes : Dates(q, i, t)'
                   /\ \A s, q \in Passes : Holds(s, i, t)' /\ Holds(q, i, t)' => s = q
                   /\ \A q \in Passes : Holds(q, i, t)' => t \notin notes'[i].digested
  <2>1. /\ t \in notes[i].digested => <<i, t>> \in answered
        /\ \A q \in Passes : Dates(q, i, t) => <<i, t>> \in answered
        /\ <<i, t>> \notin doubtful =>
              /\ notes[i].gathered[t] \in {0, 1}
              /\ notes[i].gathered[t] = 1 =>
                    t \in notes[i].digested \/ \E q \in Passes : Dates(q, i, t)
              /\ \A s, q \in Passes : Holds(s, i, t) /\ Holds(q, i, t) => s = q
              /\ \A q \in Passes : Holds(q, i, t) => t \notin notes[i].digested
    BY DEF IInv, DigestInv
  <2>2. /\ t \in notes[i].digested => t \in notes'[i].digested
        /\ t \in notes'[i].digested =>
              t \in notes[i].digested \/ (Dates(p, i, t) /\ ~Holds(p, i, t)')
        /\ Dates(p, i, t) => t \in notes'[i].digested \/ <<i, t>> \in doubtful'
    BY <1>4
  <2>3. \A q \in Passes : Dates(q, i, t)' => Dates(q, i, t)
    BY <1>4
  <2>4. notes'[i].gathered[t] = notes[i].gathered[t]
    OBVIOUS
  <2>5. /\ t \in notes'[i].digested => <<i, t>> \in answered
        /\ \A q \in Passes : Dates(q, i, t)' => <<i, t>> \in answered
    BY <2>1, <2>2, <2>3
  <2>6. ASSUME <<i, t>> \notin doubtful', NEW q \in Passes, Holds(q, i, t)'
        PROVE  t \notin notes'[i].digested
    <3>1. Holds(q, i, t) /\ <<i, t>> \notin doubtful
      BY <2>6, <1>4
    <3>2. t \notin notes[i].digested
      BY <3>1, <2>1
    <3>3. Dates(p, i, t) => q = p
      BY <3>1, <2>1 DEF Dates
    <3> QED BY <2>2, <2>6, <3>2, <3>3
  <2>7. ASSUME <<i, t>> \notin doubtful', notes'[i].gathered[t] = 1
        PROVE  t \in notes'[i].digested \/ \E q \in Passes : Dates(q, i, t)'
    <3>1. t \in notes[i].digested \/ \E q \in Passes : Dates(q, i, t)
      BY <2>1, <2>4, <2>7
    <3> QED BY <3>1, <2>2, <2>7, <1>4
  <2> QED BY <2>1, <2>4, <2>5, <2>6, <2>7, <1>4
<1>6. DigestInv'
  BY <1>5 DEF DigestInv
<1> QED BY <1>1, <1>2, <1>6 DEF IInv

LEMMA MarkDigestedKeeps ==
    ASSUME IInv, NEW p \in Passes, MarkDigested(p) PROVE IInv'
<1> DEFINE u == passes[p].user
           track == passes[p].track
           is == Items(p, u)
<1>1. passes[p] # Idle /\ passes[p].step = "mark"
  BY DEF MarkDigested, Idle
<1>2. track \in DigestTracks /\ passes[p].todo \subseteq DOMAIN notes
  BY <1>1, PassFacts DEF IInv
<1>3. is \subseteq DOMAIN notes /\ \A i : i \in is <=> i \in passes[p].todo /\ notes[i].user = u
  BY <1>1, ItemFacts DEF IInv
<1>4. PICK x \in PassAt(DOMAIN notes) :
         /\ passes' = [passes EXCEPT ![p] = x]
         /\ x # Idle => /\ x.step = "serve" /\ x.track = passes[p].track
                        /\ x.todo \subseteq passes[p].todo
                        /\ x.todo \cap Items(p, u) = {}
         /\ \A i \in passes[p].todo \ Items(p, u) : x # Idle /\ i \in x.todo
  BY <1>1, NextFacts DEF MarkDigested, IInv
<1>5. \A i \in DOMAIN notes : notes[i] \in Note
  BY NoteFacts DEF IInv
<1>6. /\ DOMAIN notes' = DOMAIN notes
      /\ \A i \in DOMAIN notes : notes'[i] =
            IF i \in is THEN [notes[i] EXCEPT !.digested = @ \cup {track}] ELSE notes[i]
  BY DEF MarkDigested, Marked
<1> HIDE DEF is
<1>7. ASSUME NEW i \in DOMAIN notes
      PROVE  /\ notes'[i] \in Note
             /\ notes'[i].user = notes[i].user /\ notes'[i].gathered = notes[i].gathered
             /\ notes'[i].digested = IF i \in is THEN notes[i].digested \cup {track}
                                                 ELSE notes[i].digested
  BY <1>2, <1>5, <1>6 DEF Note
<1>8. notes' \in Seq(Note)
  <2>1. \E f : f = notes' /\ DOMAIN f = DOMAIN notes /\ f \in [DOMAIN notes -> Note]
    BY <1>6, <1>7 DEF MarkDigested, Marked
  <2> QED BY <2>1, NotesStay DEF IInv
<1>9. \A i \in DOMAIN notes : \A t : Dates(p, i, t) <=> i \in is /\ t = track
  BY <1>1, <1>3 DEF Dates, Holds
<1>10. ASSUME NEW i \in DOMAIN notes, NEW t \in DigestTracks
       PROVE  /\ t \in notes[i].digested => t \in notes'[i].digested
              /\ t \in notes'[i].digested =>
                    \/ t \in notes[i].digested
                    \/ Dates(p, i, t) /\ (x # Idle => i \notin x.todo)
              /\ Dates(p, i, t) => t \in notes'[i].digested \/ <<i, t>> \in doubtful'
  BY <1>4, <1>7, <1>9 DEF is
<1>11. UNCHANGED <<participations, wished, raced, requests, answered, doubtful, served, faults>>
  BY DEF MarkDigested, history
<1> QED BY <1>1, <1>4, <1>6, <1>7, <1>8, <1>10, <1>11, LetGoKeeps DEF IInv, Typed

LEMMA FailRecipientKeeps ==
    ASSUME IInv, NEW p \in Passes, NEW u \in Users, FailRecipient(p, u) PROVE IInv'
<1> DEFINE is == Items(p, u)
           track == passes[p].track
<1>1. passes[p] # Idle
  BY DEF FailRecipient
<1>2. track \in DigestTracks /\ is \subseteq DOMAIN notes
  BY <1>1, PassFacts, ItemFacts DEF IInv
<1>3. \A i : i \in is <=> i \in passes[p].todo /\ notes[i].user = u
  BY <1>1, ItemFacts DEF IInv
<1>4. PICK x \in PassAt(DOMAIN notes) :
         /\ passes' = [passes EXCEPT ![p] = x]
         /\ x # Idle => /\ x.step = "serve" /\ x.track = passes[p].track
                        /\ x.todo \subseteq passes[p].todo
                        /\ x.todo \cap Items(p, u) = {}
         /\ \A i \in passes[p].todo \ Items(p, u) : x # Idle /\ i \in x.todo
  BY <1>1, NextFacts DEF FailRecipient, IInv
<1>5. /\ doubtful' = IF passes[p].step = "mark" THEN doubtful \cup (is \X {track}) ELSE doubtful
      /\ passes[p].step = "mark" => u = passes[p].user
      /\ UNCHANGED <<participations, notes, wished, raced, requests, answered, served>>
      /\ faults' \in Nat
  BY DEF FailRecipient, Blame, IInv, Typed
<1> HIDE DEF is
<1>6. doubtful \subseteq doubtful' /\ doubtful' \subseteq (DOMAIN notes) \X DigestTracks
  BY <1>2, <1>5 DEF IInv, Typed
<1>7. \A i \in DOMAIN notes : \A t \in DigestTracks : Dates(p, i, t) => <<i, t>> \in doubtful'
  BY <1>3, <1>5 DEF Dates, Holds
<1> QED BY <1>1, <1>4, <1>5, <1>6, <1>7, LetGoKeeps DEF IInv, Typed

LEMMA LosePassKeeps == ASSUME IInv, NEW p \in Passes, LosePass(p) PROVE IInv'
<1> DEFINE is == Items(p, passes[p].user)
           track == passes[p].track
<1>1. passes[p] # Idle
  BY DEF LosePass
<1>2. track \in DigestTracks /\ is \subseteq DOMAIN notes
  BY <1>1, PassFacts, ItemFacts DEF IInv
<1>3. \A i : i \in is <=> i \in passes[p].todo /\ notes[i].user = passes[p].user
  BY <1>1, ItemFacts DEF IInv
<1>4. /\ doubtful' = IF passes[p].step = "mark" THEN doubtful \cup (is \X {track}) ELSE doubtful
      /\ passes' = [passes EXCEPT ![p] = Idle] /\ Idle \in PassAt(DOMAIN notes)
      /\ UNCHANGED <<participations, notes, wished, raced, requests, answered, served>>
      /\ faults' \in Nat
  BY DEF LosePass, Blame, PassAt, IInv, Typed
<1> HIDE DEF is
<1>5. doubtful \subseteq doubtful' /\ doubtful' \subseteq (DOMAIN notes) \X DigestTracks
  BY <1>2, <1>4 DEF IInv, Typed
<1>6. \A i \in DOMAIN notes : \A t \in DigestTracks : Dates(p, i, t) => <<i, t>> \in doubtful'
  BY <1>3, <1>4 DEF Dates, Holds
<1> QED BY <1>1, <1>4, <1>5, <1>6, LetGoKeeps DEF IInv, Typed

-----------------------------------------------------------------------------
(* Theorems.                                                               *)

LEMMA InitKeeps == Init => IInv
<1> SUFFICES ASSUME Init PROVE IInv
  OBVIOUS
<1>1. notes = << >> /\ notes \in Seq(Note) /\ DOMAIN notes = {}
  BY DEF Init
<1>2. Typed
  BY <1>1 DEF Init, Typed, AxesOf, Neutral, PassAt
<1>3. AxesInv
  BY DEF Init, AxesInv, Writers, At, Idle
<1> QED BY <1>1, <1>2, <1>3 DEF IInv, DigestInv

LEMMA NextKeeps == ASSUME IInv, [Next]_vars PROVE IInv'
<1>1. ASSUME NEW r \in Requests, Serve(r) PROVE IInv'
  <2>1. ASSUME NEW k \in Pairs, NEW xs \in (SUBSET Axes) \ {{}}, NEW dto \in [xs -> BOOLEAN],
               UpdateParticipation(r, k, dto)
        PROVE  IInv'
    <3>1. dto \in Dtos
      BY DEF Dtos
    <3> QED BY <2>1, <3>1, UpdateParticipationKeeps
  <2>2. ASSUME NEW e \in Events, NEW actors \in SUBSET Users, AnnounceChange(r, e, actors)
        PROVE  IInv'
    <3>1. Participants(e) \ actors \in SUBSET Users
      BY DEF Participants
    <3> QED BY <2>2, <3>1, AnnounceKeeps DEF AnnounceChange
  <2> QED BY <1>1, <2>1, <2>2, WriteParticipationKeeps, AnnounceKeeps, EmitKeeps DEF Serve
<1>2. ASSUME NEW p \in Passes, Run(p) PROVE IInv'
  BY <1>2, CreateDigestKeeps, ServeSilentlyKeeps, MarkDigestedKeeps DEF Run
<1>3. CASE UNCHANGED vars
  <2>1. Typed' /\ AxesInv'
    BY <1>3, AxesElsewhere DEF vars, history, IInv, Typed
  <2> QED BY <1>3, <2>1, DigestsRest DEF vars, history, IInv
<1> QED BY <1>1, <1>2, <1>3, LoseRequestKeeps, RemoveKeeps, StartPassKeeps, LosePassKeeps,
           FailRecipientKeeps DEF Next

\* What IInv says is an invariant of participations and digests, whatever interleaves or fails.
THEOREM Inductive == Spec => []IInv
<1>1. Init => IInv
  BY InitKeeps
<1>2. IInv /\ [Next]_vars => IInv'
  BY NextKeeps
<1> QED BY <1>1, <1>2, PTL DEF Spec

\* Calendars, notifications and what requests and workers hold have their types.
THEOREM TypeCorrect == Spec => []TypeOK
<1>1. IInv => TypeOK
  <2> SUFFICES ASSUME IInv PROVE TypeOK
    OBVIOUS
  <2>1. ASSUME NEW r \in Requests, requests[r] # Idle PROVE InFlightTyped(requests[r])
    <3>1. requests[r] \in Writing \cup Telling
      BY <2>1 DEF IInv, Typed
    <3>2. CASE requests[r] \in Writing
      BY <3>2, DtoFacts DEF Writing, InFlightTyped, AxesOf
    <3>3. CASE requests[r] \in Telling
      BY <3>3 DEF Telling, InFlightTyped
    <3> QED BY <3>1, <3>2, <3>3
  <2>2. \A p \in Passes : passes[p] # Idle => PassTyped(passes[p])
    BY PassFacts DEF IInv, PassTyped
  <2> QED BY <2>1, <2>2 DEF IInv, Typed, TypeOK, AxesOf
<1> QED BY <1>1, Inductive, PTL

\* What a calendar says of an axis is what was last asked of it, unless two requests crossed.
THEOREM AxesKept == Spec => []AxesKeptUnlessRaced
<1>1. IInv => AxesKeptUnlessRaced
  BY DEF IInv, AxesInv, AxesKeptUnlessRaced
<1> QED BY <1>1, Inductive, PTL

\* RG-NOTIF-05: a notification is gathered once per track at most, but where two passes met or one
\* ended between sending and marking, and none is dated before it was answered: for every number
\* of workers and every size of batch.
THEOREM DigestsAreFaithful == Spec => []DigestsFaithful
<1>1. IInv => DigestsFaithful
  <2> SUFFICES ASSUME IInv, NEW i \in DOMAIN notes, NEW track \in DigestTracks
               PROVE  /\ <<i, track>> \notin doubtful => notes[i].gathered[track] <= 1
                      /\ track \in notes[i].digested => <<i, track>> \in answered
    BY DEF DigestsFaithful
  <2>1. <<i, track>> \notin doubtful => notes[i].gathered[track] \in {0, 1}
    BY DEF IInv, DigestInv
  <2>2. track \in notes[i].digested => <<i, track>> \in answered
    BY DEF IInv, DigestInv
  <2> QED BY <2>1, <2>2
<1> QED BY <1>1, Inductive, PTL

-----------------------------------------------------------------------------
(* Requests and passes that do not meet.                                   *)

\* The passes of track t.
Gathering(t) == {p \in Passes : passes[p] # Idle /\ passes[p].track = t}

\* Neither two requests write the calendar entry k together, nor do two passes of t meet.
WrittenInTurn(k)  == \A r, q \in Writers(k) : r = q
GatheredInTurn(t) == \A p, q \in Gathering(t) : p = q

\* A step that stops no pass of track t between sending and marking.
MarksWhatItSent(t) ==
    \A p \in Gathering(t) :
       passes[p].step = "mark" => ~LosePass(p) /\ \A u \in Users : ~FailRecipient(p, u)

\* What the exceptions of AxesKeptUnlessRaced and DigestsFaithful note of k and of t.
NotRaced(k)    == k \notin raced
NotDoubtful(t) == \A d \in doubtful : d[2] # t

\* A request that reads k while another has read it makes two writers of k.
LEMMA WriterMeets ==
    ASSUME TypeOK, NEW k \in Pairs, NEW r \in Requests, NEW dto,
           UpdateParticipation(r, k, dto), WrittenInTurn(k)',
           NEW q \in Requests \ {r}, At(q, "write"), requests[q].pair = k
    PROVE  FALSE
<1> DEFINE x == [step |-> "write", pair |-> k, dto |-> dto, seen |-> participations[k]]
<1>1. requests' = [requests EXCEPT ![r] = x] /\ DOMAIN requests = Requests
  BY DEF UpdateParticipation, Start, TypeOK
<1>2. requests'[r] = x /\ requests'[q] = requests[q]
  BY <1>1
<1>3. r \in Writers(k)' /\ q \in Writers(k)'
  BY <1>2 DEF Writers, At
<1> QED BY <1>3 DEF WrittenInTurn

LEMMA NotRacedKept ==
    ASSUME TypeOK, NEW k \in Pairs, WrittenInTurn(k)', NotRaced(k), [Next]_vars
    PROVE  NotRaced(k)'
<1> USE DEF history, NotRaced
<1>1. ASSUME NEW r \in Requests, NEW j \in Pairs, NEW dto, UpdateParticipation(r, j, dto)
      PROVE  NotRaced(k)'
  <2>1. CASE j = k
    <3>1. ~\E q \in Requests \ {r} : At(q, "write") /\ requests[q].pair = j
      BY <1>1, <2>1, WriterMeets
    <3> QED BY <1>1, <3>1 DEF UpdateParticipation
  <2>2. CASE j # k
    BY <1>1, <2>2 DEF UpdateParticipation
  <2> QED BY <2>1, <2>2
<1>2. ASSUME NEW r \in Requests, Serve(r) PROVE NotRaced(k)'
  BY <1>1, <1>2 DEF Serve, WriteParticipation, Announce, AnnounceChange, Emit
<1>3. ASSUME NEW r \in Requests, LoseRequest(r) PROVE NotRaced(k)'
  BY <1>3 DEF LoseRequest
<1>4. ASSUME NEW p \in Passes, NEW track \in DigestTracks, StartPass(p, track)
      PROVE  NotRaced(k)'
  BY <1>4 DEF StartPass
<1>5. ASSUME NEW p \in Passes, Run(p) \/ LosePass(p) \/ \E u \in Users : FailRecipient(p, u)
      PROVE  NotRaced(k)'
  BY <1>5 DEF Run, CreateDigest, ServeSilently, MarkDigested, LosePass, FailRecipient
<1>6. ASSUME NEW i \in DOMAIN notes, Remove(i) PROVE NotRaced(k)'
  BY <1>6 DEF Remove
<1>7. CASE UNCHANGED vars
  BY <1>7 DEF vars
<1> QED BY <1>2, <1>3, <1>4, <1>5, <1>6, <1>7 DEF Next

\* A pass that starts on t while another is at it makes two passes of t.
LEMMA PassMeets ==
    ASSUME TypeOK, NEW t \in DigestTracks, NEW p \in Passes, StartPass(p, t),
           GatheredInTurn(t)',
           NEW q \in Passes \ {p}, passes[q] # Idle, passes[q].track = t
    PROVE  FALSE
<1>1. PICK b \in Batches(t) :
         passes' = [passes EXCEPT ![p] = [step |-> "serve", track |-> t, todo |-> b]]
  BY DEF StartPass
<1>2. /\ passes'[p] = [step |-> "serve", track |-> t, todo |-> b]
      /\ passes'[q] = passes[q]
  BY <1>1 DEF TypeOK
<1>3. passes'[p].step # Idle.step
  BY <1>2 DEF Idle
<1>4. p \in Gathering(t)' /\ q \in Gathering(t)'
  BY <1>2, <1>3 DEF Gathering
<1> QED BY <1>4 DEF GatheredInTurn

LEMMA NotDoubtfulKept ==
    ASSUME TypeOK, NEW t \in DigestTracks, GatheredInTurn(t)', NotDoubtful(t),
           [MarksWhatItSent(t)]_vars, [Next]_vars
    PROVE  NotDoubtful(t)'
<1> USE DEF history, NotDoubtful
<1>1. ASSUME NEW p \in Passes, NEW track \in DigestTracks, StartPass(p, track)
      PROVE  NotDoubtful(t)'
  <2>1. CASE track = t
    <3>1. \A q \in Passes \ {p} : ~(passes[q] # Idle /\ passes[q].track = track)
      BY <1>1, <2>1, PassMeets
    <3>2. doubtful' = doubtful
      BY <1>1, <3>1 DEF StartPass, Blame
    <3> QED BY <3>2
  <2>2. CASE track # t
    <3>1. PICK is : doubtful' = doubtful \cup (is \X {track})
      BY <1>1 DEF StartPass, Blame
    <3> QED BY <2>2, <3>1
  <2> QED BY <2>1, <2>2
<1>2. ASSUME NEW p \in Passes, LosePass(p) \/ \E u \in Users : FailRecipient(p, u)
      PROVE  NotDoubtful(t)'
  <2>1. vars' # vars
    <3>1. faults' = faults + 1 /\ faults \in Nat
      BY <1>2 DEF LosePass, FailRecipient, TypeOK
    <3> QED BY <3>1 DEF vars
  <2>2. CASE passes[p].step = "mark"
    <3>1. passes[p].track # t
      BY <1>2, <2>1, <2>2 DEF MarksWhatItSent, Gathering, LosePass, FailRecipient
    <3>2. PICK is : doubtful' = doubtful \cup (is \X {passes[p].track})
      BY <1>2, <2>2 DEF LosePass, FailRecipient, Blame
    <3> QED BY <3>1, <3>2
  <2>3. CASE passes[p].step # "mark"
    BY <1>2, <2>3 DEF LosePass, FailRecipient
  <2> QED BY <2>2, <2>3
<1>3. ASSUME NEW r \in Requests, Serve(r) \/ LoseRequest(r) PROVE NotDoubtful(t)'
  BY <1>3 DEF Serve, UpdateParticipation, WriteParticipation, Announce, AnnounceChange, Emit,
              LoseRequest
<1>4. ASSUME NEW p \in Passes, Run(p) PROVE NotDoubtful(t)'
  BY <1>4 DEF Run, CreateDigest, ServeSilently, MarkDigested
<1>5. ASSUME NEW i \in DOMAIN notes, Remove(i) PROVE NotDoubtful(t)'
  BY <1>5 DEF Remove
<1>6. CASE UNCHANGED vars
  BY <1>6 DEF vars
<1> QED BY <1>1, <1>2, <1>3, <1>4, <1>5, <1>6 DEF Next

\* The properties without their exceptions.
CalendarSound(k) == participations[k] = wished[k]
GatheredOnce(t)  == \A i \in DOMAIN notes : notes[i].gathered[t] <= 1

\* The exceptions are interleavings and losses, nothing else.  Of an Event whose requests for one
\* user do not cross, the calendar keeps all that was asked, whatever the others do.  Of a track
\* whose passes neither meet nor end between sending and marking, no notification is gathered
\* twice, whatever else fails and whatever the passes of the other track do.
THEOREM UncontendedIsSound ==
    ASSUME NEW k \in Pairs, NEW t \in DigestTracks
    PROVE  /\ Spec /\ []WrittenInTurn(k) => []CalendarSound(k)
           /\ Spec /\ []GatheredInTurn(t) /\ [][MarksWhatItSent(t)]_vars => []GatheredOnce(t)
<1>1. Init => NotRaced(k) /\ NotDoubtful(t)
  BY DEF Init, NotRaced, NotDoubtful
<1>2. Spec /\ []WrittenInTurn(k) => []CalendarSound(k)
  <2>1. TypeOK /\ WrittenInTurn(k)' /\ NotRaced(k) /\ [Next]_vars => NotRaced(k)'
    BY NotRacedKept
  <2>2. NotRaced(k) /\ AxesKeptUnlessRaced => CalendarSound(k)
    BY DEF NotRaced, AxesKeptUnlessRaced, CalendarSound
  <2>3. Spec /\ []WrittenInTurn(k) => []NotRaced(k)
    BY <1>1, <2>1, TypeCorrect, PTL DEF Spec
  <2> QED BY <2>2, <2>3, AxesKept, PTL
<1>3. Spec /\ []GatheredInTurn(t) /\ [][MarksWhatItSent(t)]_vars => []GatheredOnce(t)
  <2>1. TypeOK /\ GatheredInTurn(t)' /\ NotDoubtful(t) /\ [MarksWhatItSent(t)]_vars /\ [Next]_vars
           => NotDoubtful(t)'
    BY NotDoubtfulKept
  <2>2. NotDoubtful(t) /\ DigestsFaithful => GatheredOnce(t)
    BY DEF NotDoubtful, DigestsFaithful, GatheredOnce
  <2>3. Spec /\ []GatheredInTurn(t) /\ [][MarksWhatItSent(t)]_vars => []NotDoubtful(t)
    BY <1>1, <2>1, TypeCorrect, PTL DEF Spec
  <2> QED BY <2>2, <2>3, DigestsAreFaithful, PTL
<1> QED BY <1>2, <1>3

=============================================================================
