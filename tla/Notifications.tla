----------------------------- MODULE Notifications -----------------------------
(***************************************************************************)
(* Participation in Events, and the notifications that follow from it:     *)
(* ParticipationService writes the calendar of a user, a transition of an  *)
(* Event is told to those who have it in theirs, its first publication to  *)
(* those who follow what it is about (NotificationsService), and the daily *)
(* and weekly digests gather what was not gathered yet                     *)
(* (NotificationDigestService, run by a repeated job).                     *)
(*                                                                         *)
(* Preferences and settings change at any time: a look-up finds any of     *)
(* them.  All notifications told here have the priority INFORMATION.       *)
(***************************************************************************)
EXTENDS Naturals, Sequences, FiniteSets, FiniteSetsExt

CONSTANTS
    Users,       \* ids of users
    Events,      \* ids of Events
    Axes,        \* the axes of a participation, each neutral (FALSE) or not
    Requests,    \* requests and subscribers in flight at one time
    DigestTracks, \* tracks that digests are run for, each with a column of its own
    Passes,      \* workers that may run a digest at one time
    BatchSize,   \* notifications findPendingForDigest takes at most
    MaxRequests, \* bound of the model: requests served
    MaxNotes,    \* bound of the model: notifications told
    MaxFaults    \* bound of the model: failed calls and crashes

ASSUME DigestTracksAssumption == DigestTracks \subseteq {"daily", "weekly"}
ASSUME BatchSizeAssumption == BatchSize \in Nat \ {0}

VARIABLES
    participations, \* the axes of a <<user, event>>; all neutral: there is no row
    notes,          \* the notifications told, in the order of their creation
    requests,       \* the request that occupies a slot
    passes,         \* the digest a worker is at
    wished,         \* history: what was last written for each axis of a <<user, event>>
    raced,          \* history: <<user, event>> that two requests wrote at one time
    answered,       \* history: <<note, track>> sent, or found to have no vector to send by
    doubtful,       \* history: <<note, track>> met by two passes, or by one that failed halfway
    served,         \* requests so far
    faults          \* faults so far

history == <<wished, raced, answered, doubtful>>
vars == <<participations, notes, requests, passes, history, served, faults>>

Pairs == Users \X Events
Neutral == [x \in Axes |-> FALSE]

None == "none"
FrequencyTrack == {"immediate", "daily", "weekly"}
VectorChoice   == {"email", "push", None}
NotificationUserPreferences == [FrequencyTrack -> VectorChoice]
NotificationGlobalSettings ==
    [vectors: [VectorChoice \ {None} -> BOOLEAN], frequencies: [FrequencyTrack -> BOOLEAN]]

\* The vector of a track: what the user has chosen, if the Operators leave both switched on.
ResolveOutboundVector(track, preferences, settings) ==
    LET choice == preferences[track]
    IN  IF choice # None /\ settings.frequencies[track] /\ settings.vectors[choice]
          THEN choice ELSE None

\* What a look-up may answer for a track, whatever the preferences and the settings.
Vectors ==
    [track \in FrequencyTrack |->
       {ResolveOutboundVector(track, p, s) :
          p \in NotificationUserPreferences, s \in NotificationGlobalSettings}]

Idle == [step |-> "idle"]

\* digested: the tracks it is dated on; removed: its user has deleted it; gathered: how many
\* notifications DIGEST_DAILY and DIGEST_WEEKLY speak of it (they are not gathered themselves)
Note == [user: Users, digested: SUBSET DigestTracks, removed: BOOLEAN,
         gathered: [DigestTracks -> Nat]]

At(r, step) == requests[r].step = step

\* A request has read the axes of a pair, or is telling a set of users.
InFlightTyped(q) ==
    \/ /\ q.step = "write" /\ q.pair \in Pairs /\ q.seen \in [Axes -> BOOLEAN]
       /\ DOMAIN q.dto \subseteq Axes /\ \A x \in DOMAIN q.dto : q.dto[x] \in BOOLEAN
    \/ q.step = "emit" /\ q.todo \subseteq Users /\ q.todo # {}

\* A pass holds the notifications of its batch it has not done with, and those of one user.
PassTyped(q) ==
    /\ q.step \in {"serve", "mark"} /\ q.track \in DigestTracks
    /\ q.todo \subseteq DOMAIN notes
    /\ q.step = "mark" => q.user \in Users

TypeOK ==
    /\ participations \in [Pairs -> [Axes -> BOOLEAN]] /\ wished \in [Pairs -> [Axes -> BOOLEAN]]
    /\ notes \in Seq(Note)
    /\ DOMAIN requests = Requests
    /\ \A r \in Requests : requests[r] # Idle => InFlightTyped(requests[r])
    /\ DOMAIN passes = Passes
    /\ \A p \in Passes : passes[p] # Idle => PassTyped(passes[p])
    /\ raced \subseteq Pairs
    /\ answered \cup doubtful \subseteq (DOMAIN notes) \X DigestTracks
    /\ served \in Nat /\ faults \in Nat

Init ==
    /\ participations = [k \in Pairs |-> Neutral] /\ wished = participations
    /\ notes = << >>
    /\ requests = [r \in Requests |-> Idle]
    /\ passes = [p \in Passes |-> Idle]
    /\ raced = {} /\ answered = {} /\ doubtful = {}
    /\ served = 0 /\ faults = 0

Finish(r) == requests' = [requests EXCEPT ![r] = Idle]

Start(r, request) ==
    /\ requests[r] = Idle /\ served < MaxRequests /\ served' = served + 1
    /\ requests' = [requests EXCEPT ![r] = request]

-----------------------------------------------------------------------------
(* Participation.                                                          *)

\* The row is read, and the axes the request does not speak of are those read.
UpdateParticipation(r, k, dto) ==
    /\ Start(r, [step |-> "write", pair |-> k, dto |-> dto, seen |-> participations[k]])
    /\ raced' = IF \E q \in Requests \ {r} : At(q, "write") /\ requests[q].pair = k
                THEN raced \cup {k} ELSE raced
    /\ UNCHANGED <<participations, notes, passes, wished, answered, doubtful, faults>>

\* Mutant of Written: what was read is not taken over.
WrittenAlone(r) ==
    [x \in Axes |-> x \in DOMAIN requests[r].dto /\ requests[r].dto[x]]

Written(r) ==
    LET q == requests[r]
    IN  [x \in Axes |-> IF x \in DOMAIN q.dto THEN q.dto[x] ELSE q.seen[x]]

\* upsert of all axes, or deletion when they are all neutral of the row that was read, if any.
WriteParticipation(r) ==
    LET q == requests[r]
    IN  /\ At(r, "write")
        /\ participations' = IF Written(r) = Neutral /\ q.seen = Neutral THEN participations
                             ELSE [participations EXCEPT ![q.pair] = Written(r)]
        /\ wished' = [wished EXCEPT ![q.pair] =
                        [x \in Axes |-> IF x \in DOMAIN q.dto THEN q.dto[x] ELSE @[x]]]
        /\ Finish(r)
        /\ UNCHANGED <<notes, passes, raced, answered, doubtful, served, faults>>

-----------------------------------------------------------------------------
(* Telling.                                                                *)

Participants(e) == {u \in Users : participations[<<u, e>>] # Neutral}

\* Notifications that are still to be told.
Due == MapThenSumSet(LAMBDA r : IF At(r, "emit") THEN Cardinality(requests[r].todo)
                                                            ELSE 0, Requests)

\* A first publication is told to those who follow what the Event is about, whoever they are; its
\* other transitions to those who take part; the actor, if any is known, is left out.
Announce(r, told) ==
    /\ told # {}
    /\ Len(notes) + Due + Cardinality(told) <= MaxNotes
    /\ Start(r, [step |-> "emit", todo |-> told])
    /\ UNCHANGED <<participations, notes, passes, history, faults>>

AnnounceChange(r, e, actors) ==
    Cardinality(actors) <= 1 /\ Announce(r, Participants(e) \ actors)

\* One recipient after the other; what leaves at once by the immediate track changes nothing here.
Emit(r, u) ==
    /\ At(r, "emit") /\ u \in requests[r].todo
    /\ notes' = Append(notes, [user |-> u, digested |-> {}, removed |-> FALSE,
                               gathered |-> [track \in DigestTracks |-> 0]])
    /\ IF requests[r].todo = {u} THEN Finish(r)
                                 ELSE requests' = [requests EXCEPT ![r].todo = @ \ {u}]
    /\ UNCHANGED <<participations, passes, history, served, faults>>

\* A failure ends the loop: those who were left are not told.
LoseRequest(r) ==
    /\ requests[r] # Idle /\ faults < MaxFaults
    /\ faults' = faults + 1
    /\ Finish(r)
    /\ UNCHANGED <<participations, notes, passes, history, served>>

Remove(i) ==
    /\ ~notes[i].removed
    /\ served < MaxRequests /\ served' = served + 1
    /\ notes' = [notes EXCEPT ![i].removed = TRUE]
    /\ UNCHANGED <<participations, requests, passes, history, faults>>

-----------------------------------------------------------------------------
(* Digests.                                                                *)

\* Mutant of Pending: a page too far, so that the first notification is passed over.
PendingSkipped(track) ==
    {i \in DOMAIN notes \ {1} : ~notes[i].removed /\ track \notin notes[i].digested}

Pending(track) == {i \in DOMAIN notes : ~notes[i].removed /\ track \notin notes[i].digested}

\* findPendingForDigest: BatchSize of them at most, a user's oldest first.
Batches(track) ==
    {b \in SUBSET Pending(track) :
       /\ Cardinality(b) = IF Cardinality(Pending(track)) < BatchSize
                             THEN Cardinality(Pending(track)) ELSE BatchSize
       /\ \A i \in b, j \in Pending(track) :
             notes[i].user = notes[j].user /\ j < i => j \in b}

Blame(is, track) == doubtful' = doubtful \cup (is \X {track})

\* A pass takes the pending notifications of its track: another may have the same at hand.
StartPass(p, track) ==
    /\ passes[p] = Idle
    /\ \E b \in Batches(track) :
          /\ b # {}
          /\ passes' = [passes EXCEPT ![p] = [step |-> "serve", track |-> track, todo |-> b]]
          /\ LET met == {q \in Passes \ {p} : passes[q] # Idle /\ passes[q].track = track}
             IN  Blame({i \in b : \E q \in met : i \in passes[q].todo}, track)
    /\ UNCHANGED <<participations, notes, requests, wished, raced, answered, served, faults>>

Items(p, u) == {i \in passes[p].todo : notes[i].user = u}

\* The recipient is done with, whether or not it went well.
NextRecipient(p, u) ==
    passes' = [passes EXCEPT ![p] =
        IF @.todo = Items(p, u) THEN Idle
        ELSE [step |-> "serve", track |-> @.track, todo |-> @.todo \ Items(p, u)]]

\* What the user's preferences ask for is done: the marking follows.
Answer(p, u) ==
    /\ answered' = answered \cup (Items(p, u) \X {passes[p].track})
    /\ passes' = [passes EXCEPT ![p] =
          [step |-> "mark", track |-> @.track, todo |-> @.todo, user |-> u]]

\* With a vector, the digest is created and dispatched before anything is marked.
CreateDigest(p, u) ==
    /\ passes[p].step = "serve" /\ Items(p, u) # {}
    /\ Vectors[passes[p].track] \ {None} # {}
    /\ notes' = [i \in DOMAIN notes |->
          IF i \in Items(p, u) THEN [notes[i] EXCEPT !.gathered[passes[p].track] = @ + 1]
                               ELSE notes[i]]
    /\ Answer(p, u)
    /\ UNCHANGED <<participations, requests, wished, raced, doubtful, served, faults>>

\* Without, the track is consumed all the same.
ServeSilently(p, u) ==
    /\ passes[p].step = "serve" /\ Items(p, u) # {}
    /\ None \in Vectors[passes[p].track]
    /\ Answer(p, u)
    /\ UNCHANGED <<participations, notes, requests, wished, raced, doubtful, served, faults>>

Marked(p) ==
    [i \in DOMAIN notes |->
       IF i \in Items(p, passes[p].user)
         THEN [notes[i] EXCEPT !.digested = @ \cup {passes[p].track}] ELSE notes[i]]

\* Mutant of MarkDigested: what was gathered is not dated.
MarkNothing(p) ==
    /\ passes[p].step = "mark"
    /\ NextRecipient(p, passes[p].user)
    /\ UNCHANGED <<participations, notes, requests, history, served, faults>>

MarkDigested(p) ==
    /\ passes[p].step = "mark"
    /\ notes' = Marked(p)
    /\ NextRecipient(p, passes[p].user)
    /\ UNCHANGED <<participations, requests, history, served, faults>>

\* An error about one recipient does not stop the others: its items stay pending.
FailRecipient(p, u) ==
    /\ passes[p] # Idle /\ Items(p, u) # {} /\ faults < MaxFaults
    /\ passes[p].step = "mark" => u = passes[p].user
    /\ faults' = faults + 1
    /\ IF passes[p].step = "mark" THEN Blame(Items(p, u), passes[p].track)
                                  ELSE UNCHANGED doubtful
    /\ NextRecipient(p, u)
    /\ UNCHANGED <<participations, notes, requests, wished, raced, answered, served>>

\* A crash ends the pass.
LosePass(p) ==
    /\ passes[p] # Idle /\ faults < MaxFaults
    /\ faults' = faults + 1
    /\ IF passes[p].step = "mark" THEN Blame(Items(p, passes[p].user), passes[p].track)
                                  ELSE UNCHANGED doubtful
    /\ passes' = [passes EXCEPT ![p] = Idle]
    /\ UNCHANGED <<participations, notes, requests, wished, raced, answered, served>>

-----------------------------------------------------------------------------
Serve(r) ==
    \/ \E k \in Pairs, xs \in (SUBSET Axes) \ {{}} :
          \E dto \in [xs -> BOOLEAN] : UpdateParticipation(r, k, dto)
    \/ WriteParticipation(r)
    \/ \E followers \in SUBSET Users : Announce(r, followers)
    \/ \E e \in Events, actors \in SUBSET Users : AnnounceChange(r, e, actors)
    \/ \E u \in Users : Emit(r, u)

Run(p) ==
    \/ \E u \in Users : CreateDigest(p, u) \/ ServeSilently(p, u)
    \/ MarkDigested(p)

Next ==
    \/ \E r \in Requests : Serve(r) \/ LoseRequest(r)
    \/ \E i \in DOMAIN notes : Remove(i)
    \/ \E p \in Passes :
          \/ \E track \in DigestTracks : StartPass(p, track)
          \/ Run(p) \/ LosePass(p)
          \/ \E u \in Users : FailRecipient(p, u)

\* The repeated job of each track is taken up by some worker, and a worker goes on with its pass.
Fairness ==
    /\ \A track \in DigestTracks : SF_vars(\E p \in Passes : StartPass(p, track))
    /\ \A p \in Passes : WF_vars(Run(p))

Spec == Init /\ [][Next]_vars /\ Fairness

-----------------------------------------------------------------------------
(* Properties.                                                             *)

\* What a calendar says of an axis is what was last asked of that axis, unless two requests about
\* the same Event crossed.
AxesKeptUnlessRaced ==
    \A k \in Pairs \ raced : participations[k] = wished[k]

\* A notification is in one digest of a track at most ("pas de double envoi", RG-NOTIF-05), unless
\* two passes had it at hand or one ended between sending and marking; and none is dated on a track
\* before a pass of it has sent the digest that gathers it, or found no vector to send it by:
\* whatever fails, nothing is passed over.
DigestsFaithful ==
    \A i \in DOMAIN notes, track \in DigestTracks :
       /\ <<i, track>> \notin doubtful => notes[i].gathered[track] <= 1
       /\ track \in notes[i].digested => <<i, track>> \in answered

\* Once no more is told, every notification is dated on all tracks in the end, or deleted by its
\* user, though calls fail and a pass takes fewer than are pending.
AllDigestedInTheEnd ==
    <>[](\A i \in DOMAIN notes : notes[i].removed \/ notes[i].digested = DigestTracks)

=============================================================================
