------------------------- MODULE CaseManagement_proofs -------------------------
(***************************************************************************)
(* Proofs about CaseManagement, for every set of Cases, Operators, routes, *)
(* objects and requests: the typing, the transitions of a Case, the log of *)
(* moderation, what the journal of a Case tells, and its answers.          *)
(***************************************************************************)
EXTENDS CaseManagement, TLAPS, WellFoundedInduction

\* The columns a request may write together, and the entries it may add.
Columns == {"status", "assignee", "route", "critical", "closed", "object"}
Values  == CaseStatus \cup Operators \cup {None} \cup Routes \cup BOOLEAN \cup Objects
Changes == {f \in UNION {[F -> Values] : F \in SUBSET Columns} : IsChange(f)}
Kinds   == {"CREATED", "ASSIGNED", "STATUS_CHANGED", "REROUTED", "PRIORITY_CHANGED", "ESCALATED",
            "COMMENT", "REPLY", "MODERATION_DECISION"}
Entries == [kind: Kinds, tells: Changes]

Flight == [step: Steps, case: Cases, seen: Case, write: Changes, entry: Entries,
           decision: MODERATION_DECISIONS]

Typed ==
    /\ cases \in [Cases -> Case \cup {NoCase}]
    /\ journal \in [Cases -> Seq(Entries)]
    /\ suspended \subseteq Objects
    /\ log \in Seq([case: Cases, object: Objects, decision: MODERATION_DECISIONS])
    /\ requests \in [Requests -> Flight \cup {Idle}]
    /\ opened \in [Cases -> Case \cup {NoCase}]
    /\ raced \subseteq Cases /\ blurred \subseteq Cases /\ contested \subseteq Objects
    /\ served \in Nat /\ faults \in Nat

\* A status that may be written over another: the same, or one the table leads to.
Follows(from, to) == to = from \/ CanTransition(from, to)

\* What a request is about to write follows what it has read.
Sound(q) ==
    /\ q.step = "comment" => q.write = [status |-> "IN_PROGRESS"]
    /\ q.step = "write" /\ "status" \in DOMAIN q.write => Follows(q.seen.status, q.write.status)
    /\ q.step = "initial" =>
          q.write.status \in CaseStatus /\ q.write.assignee \in Operators \cup {None}

RequestsSound ==
    \A r \in Requests : requests[r] # Idle =>
       Sound(requests[r]) /\ cases[requests[r].case] # NoCase

IInv == Typed /\ RequestsSound

-----------------------------------------------------------------------------
(* Columns that may be written together.                                   *)

LEMMA Columned ==
    ASSUME NEW f, DOMAIN f \subseteq Columns, f \in [DOMAIN f -> Values], IsChange(f)
    PROVE  f \in Changes
BY DEF Changes

LEMMA StatusChange == ASSUME NEW s \in CaseStatus PROVE [status |-> s] \in Changes
<1> DEFINE f == [status |-> s]
<1>1. DOMAIN f \subseteq Columns /\ f \in [DOMAIN f -> Values]
  BY DEF Columns, Values
<1>2. IsChange(f)
  BY DEF IsChange, Changed, Case
<1> QED BY <1>1, <1>2, Columned

LEMMA ClosingChange ==
    ASSUME NEW s \in CaseStatus, NEW b \in BOOLEAN
    PROVE  [status |-> s, closed |-> b] \in Changes
<1> DEFINE f == [status |-> s, closed |-> b]
<1>1. DOMAIN f \subseteq Columns /\ f \in [DOMAIN f -> Values]
  BY DEF Columns, Values
<1>2. IsChange(f)
  BY DEF IsChange, Changed, Case
<1> QED BY <1>1, <1>2, Columned

LEMMA AssigningChange ==
    ASSUME NEW s \in CaseStatus, NEW a \in Operators \cup {None}
    PROVE  [assignee |-> a, status |-> s] \in Changes /\ [assignee |-> a] \in Changes
<1> DEFINE f == [assignee |-> a, status |-> s]
           g == [assignee |-> a]
<1>1. /\ DOMAIN f \subseteq Columns /\ f \in [DOMAIN f -> Values]
      /\ DOMAIN g \subseteq Columns /\ g \in [DOMAIN g -> Values]
  BY DEF Columns, Values
<1>2. IsChange(f) /\ IsChange(g)
  BY DEF IsChange, Changed, Case
<1> QED BY <1>1, <1>2, Columned

LEMMA ReroutingChange ==
    ASSUME NEW d \in Routes
    PROVE  [route |-> d, assignee |-> None] \in Changes /\ [route |-> d] \in Changes
<1> DEFINE f == [route |-> d, assignee |-> None]
           g == [route |-> d]
<1>1. /\ DOMAIN f \subseteq Columns /\ f \in [DOMAIN f -> Values]
      /\ DOMAIN g \subseteq Columns /\ g \in [DOMAIN g -> Values]
  BY DEF Columns, Values
<1>2. IsChange(f) /\ IsChange(g)
  BY DEF IsChange, Changed, Case
<1> QED BY <1>1, <1>2, Columned

LEMMA PriorityChange == ASSUME NEW p \in BOOLEAN PROVE [critical |-> p] \in Changes
<1> DEFINE f == [critical |-> p]
<1>1. DOMAIN f \subseteq Columns /\ f \in [DOMAIN f -> Values]
  BY DEF Columns, Values
<1>2. IsChange(f)
  BY DEF IsChange, Changed, Case
<1> QED BY <1>1, <1>2, Columned

LEMMA NoChange == Nothing \in Changes
<1>1. DOMAIN Nothing \subseteq Columns /\ Nothing \in [DOMAIN Nothing -> Values]
  BY DEF Nothing
<1>2. IsChange(Nothing)
  BY DEF IsChange, Changed, Case, Nothing
<1> QED BY <1>1, <1>2, Columned

LEMMA NoCaseIsNoRow == NoCase \notin Case
BY DEF NoCase, Case, CaseStatus

\* A row keeps the status of one whose columns are overwritten, unless the status is among them.
LEMMA ChangedRow ==
    ASSUME NEW row \in Case, NEW f \in Changes
    PROVE  /\ Changed(row, f) \in Case
           /\ "status" \in DOMAIN f => Changed(row, f).status = f.status
           /\ "status" \notin DOMAIN f => Changed(row, f).status = row.status
BY DEF Changes, IsChange, Changed, Case

-----------------------------------------------------------------------------
(* Reading a journal: the rows told one after another are the only function *)
(* that starts with a row and goes on with Tell.                            *)

\* The natural numbers are well ordered: what holds of 0 and of n + 1 whenever of n holds of all.
LEMMA SetInduction ==
    ASSUME NEW S, 0 \in S, \A n \in Nat : n \in S => n + 1 \in S
    PROVE  Nat \subseteq S
<1> DEFINE T == Nat \ S
           R == {p \in Nat \X Nat : p[1] < p[2]}
<1> SUFFICES ASSUME T # {} PROVE FALSE
  OBVIOUS
<1>1. IsWellFoundedOn(R, Nat)
  BY NatLessThanWellFounded DEF OpToRel
<1>2. T \subseteq Nat
  OBVIOUS
<1> HIDE DEF T, R
<1>3. PICK x \in T : \A y \in T : ~(<<y, x>> \in R)
  BY <1>1, <1>2, WFMin
<1> USE DEF T, R
<1>4. x # 0 /\ x - 1 \in Nat /\ x - 1 < x
  OBVIOUS
<1>5. x - 1 \notin T
  BY <1>3, <1>4
<1> QED BY <1>4, <1>5

\* f is the sequence of rows that the first m entries tell, after a first row.
Tells(f, row, entries, m) ==
    f = [n \in 0..m |-> IF n = 0 THEN row ELSE Tell(f[n - 1], entries[n])]

LEMMA TellTyped == ASSUME NEW row \in Case, NEW e \in Entries PROVE Tell(row, e) \in Case
<1>1. e.tells \in Changes
  BY DEF Entries
<1>2. Changed(row, e.tells) \in Case
  BY <1>1, ChangedRow
<1> QED BY <1>2 DEF Tell, Case, CaseStatus

LEMMA TellsExists ==
    ASSUME NEW row, NEW entries \in Seq(Entries), NEW m \in Nat
    PROVE  \E f : Tells(f, row, entries, m)
<1> DEFINE S == {n \in Nat : \E f : Tells(f, row, entries, n)}
<1>1. 0 \in S
  <2> DEFINE f == [n \in 0..0 |-> row]
  <2>1. f = [n \in 0..0 |-> IF n = 0 THEN row ELSE Tell(f[n - 1], entries[n])]
    OBVIOUS
  <2> QED BY <2>1 DEF Tells
<1>2. ASSUME NEW n \in Nat, n \in S PROVE n + 1 \in S
  <2> PICK f : Tells(f, row, entries, n)
    BY <1>2
  <2> DEFINE g == [k \in 0..(n + 1) |-> IF k = n + 1 THEN Tell(f[n], entries[n + 1]) ELSE f[k]]
  <2>1. ASSUME NEW k \in 0..(n + 1)
        PROVE  g[k] = IF k = 0 THEN row ELSE Tell(g[k - 1], entries[k])
    <3>1. CASE k = n + 1
      BY <3>1
    <3>2. CASE k # n + 1
      <4>1. k \in 0..n /\ (k # 0 => k - 1 \in 0..n)
        BY <3>2
      <4>2. g[k] = f[k] /\ (k # 0 => g[k - 1] = f[k - 1])
        BY <4>1
      <4>3. f[k] = IF k = 0 THEN row ELSE Tell(f[k - 1], entries[k])
        BY <4>1 DEF Tells
      <4> QED BY <4>2, <4>3
    <3> QED BY <3>1, <3>2
  <2>2. g = [k \in 0..(n + 1) |-> IF k = 0 THEN row ELSE Tell(g[k - 1], entries[k])]
    BY <2>1
  <2> HIDE DEF g
  <2>3. Tells(g, row, entries, n + 1)
    BY <2>2 DEF Tells
  <2> QED BY <2>3
<1> HIDE DEF S
<1>3. Nat \subseteq S
  BY <1>1, <1>2, SetInduction
<1> QED BY <1>3 DEF S

\* Two journals that begin alike tell the same rows as far as they do.
LEMMA TellsUnique ==
    ASSUME NEW row \in Case, NEW s \in Seq(Entries), NEW t \in Seq(Entries), NEW l \in Nat,
           NEW m \in Nat, NEW f, NEW g, m <= l, m <= Len(s),
           Tells(f, row, s, m), Tells(g, row, t, l),
           \A i \in 1..m : s[i] = t[i]
    PROVE  \A n \in 0..m : f[n] = g[n] /\ f[n] \in Case
<1> DEFINE S == {n \in Nat : n <= m => f[n] = g[n] /\ f[n] \in Case}
<1>1. 0 \in S
  BY DEF Tells
<1>2. ASSUME NEW n \in Nat, n \in S PROVE n + 1 \in S
  <2> SUFFICES ASSUME n + 1 <= m PROVE f[n + 1] = g[n + 1] /\ f[n + 1] \in Case
    OBVIOUS
  <2>1. f[n] = g[n] /\ f[n] \in Case
    BY <1>2
  <2>2. n + 1 \in 0..m /\ n + 1 \in 0..l /\ n + 1 # 0 /\ n + 1 - 1 = n /\ n + 1 \in 1..m
    OBVIOUS
  <2>3. f[n + 1] = Tell(f[n], s[n + 1])
    BY <2>2, SMTT(30) DEF Tells
  <2>4. g[n + 1] = Tell(g[n], t[n + 1])
    BY <2>2, SMTT(30) DEF Tells
  <2>5. s[n + 1] \in Entries
    BY <2>2
  <2> QED BY <2>1, <2>2, <2>3, <2>4, <2>5, TellTyped
<1> HIDE DEF S
<1>3. Nat \subseteq S
  BY <1>1, <1>2, SetInduction
<1> QED BY <1>3 DEF S

\* What Replay gives is the last of the rows told.
LEMMA ReplayIsLast ==
    ASSUME NEW row, NEW s \in Seq(Entries)
    PROVE  \E f : Tells(f, row, s, Len(s)) /\ Replay(row, s) = f[Len(s)]
<1> DEFINE g == CHOOSE f : Tells(f, row, s, Len(s))
<1>1. Tells(g, row, s, Len(s))
  <2>1. \E f : Tells(f, row, s, Len(s))
    <3>1. Len(s) \in Nat
      OBVIOUS
    <3> HIDE DEF g
    <3> QED BY <3>1, TellsExists
  <2> QED BY <2>1, Zenon
<1>2. Replay(row, s) = g[Len(s)]
  BY DEF Replay, Tells
<1> QED BY <1>1, <1>2

LEMMA ReplayTyped ==
    ASSUME NEW row \in Case, NEW s \in Seq(Entries) PROVE Replay(row, s) \in Case
<1>1. PICK f : Tells(f, row, s, Len(s)) /\ Replay(row, s) = f[Len(s)]
  BY ReplayIsLast
<1>2. Len(s) \in Nat /\ Len(s) \in 0..Len(s) /\ Len(s) <= Len(s) /\ \A i \in 1..Len(s) : s[i] = s[i]
  OBVIOUS
<1>3. \A n \in 0..Len(s) : f[n] = f[n] /\ f[n] \in Case
  BY <1>1, <1>2, TellsUnique
<1> QED BY <1>1, <1>2, <1>3

\* An entry added to a journal is told last.
LEMMA ReplayAppend ==
    ASSUME NEW row \in Case, NEW s \in Seq(Entries), NEW e \in Entries
    PROVE  Replay(row, Append(s, e)) = Tell(Replay(row, s), e)
<1> DEFINE t == Append(s, e)
<1>1. /\ t \in Seq(Entries) /\ Len(s) \in Nat /\ Len(t) = Len(s) + 1 /\ t[Len(s) + 1] = e
      /\ \A i \in 1..Len(s) : s[i] = t[i]
  OBVIOUS
<1> HIDE DEF t
<1>2. PICK f : Tells(f, row, s, Len(s)) /\ Replay(row, s) = f[Len(s)]
  BY ReplayIsLast
<1>3. PICK g : Tells(g, row, t, Len(t)) /\ Replay(row, t) = g[Len(t)]
  BY <1>1, ReplayIsLast
<1>4. f[Len(s)] = g[Len(s)]
  <2>1. Len(s) <= Len(t) /\ Len(t) \in Nat /\ Len(s) \in 0..Len(s) /\ Len(s) <= Len(s)
    BY <1>1
  <2> QED BY <1>1, <1>2, <1>3, <2>1, TellsUnique
<1>5. g[Len(s) + 1] = Tell(g[Len(s)], t[Len(s) + 1])
  <2>1. Len(s) + 1 \in 0..Len(t) /\ Len(s) + 1 # 0 /\ Len(s) + 1 - 1 = Len(s)
    BY <1>1
  <2> QED BY <1>3, <2>1 DEF Tells
<1> QED BY <1>1, <1>2, <1>3, <1>4, <1>5 DEF t

-----------------------------------------------------------------------------
(* One step.                                                               *)

LEMMA InitTyped == Init => IInv
BY DEF Init, IInv, Typed, RequestsSound

LEMMA FlightTyped ==
    ASSUME Typed, NEW r \in Requests, requests[r] # Idle
    PROVE  requests[r] \in Flight
BY DEF Typed

LEMMA AtFlight ==
    ASSUME Typed, NEW r \in Requests, NEW step \in Steps, At(r, step)
    PROVE  requests[r] \in Flight /\ requests[r] # Idle
<1>1. requests[r] # Idle
  BY DEF At, Steps, Idle
<1> QED BY <1>1, FlightTyped

\* A request moves, and at most one Case is written: those that were there stay.
LEMMA MoveKeeps ==
    ASSUME IInv, NEW r \in Requests, NEW x \in Flight \cup {Idle},
           requests' = [requests EXCEPT ![r] = x],
           cases' \in [Cases -> Case \cup {NoCase}],
           \A c \in Cases : cases[c] # NoCase => cases'[c] # NoCase,
           journal' \in [Cases -> Seq(Entries)], suspended' \subseteq Objects,
           log' \in Seq([case: Cases, object: Objects, decision: MODERATION_DECISIONS]),
           opened' \in [Cases -> Case \cup {NoCase}],
           raced' \subseteq Cases, blurred' \subseteq Cases, contested' \subseteq Objects,
           served' \in Nat, faults' \in Nat,
           x # Idle => Sound(x) /\ cases'[x.case] # NoCase
    PROVE  IInv'
<1>1. /\ requests' \in [Requests -> Flight \cup {Idle}]
      /\ requests'[r] = x
      /\ \A q \in Requests \ {r} : requests'[q] = requests[q]
  BY DEF IInv, Typed
<1>2. Typed'
  BY <1>1 DEF IInv, Typed
<1>3. ASSUME NEW q \in Requests, requests'[q] # Idle
      PROVE  Sound(requests'[q]) /\ cases'[requests'[q].case] # NoCase
  <2>1. CASE q = r
    BY <2>1, <1>1, <1>3
  <2>2. CASE q # r
    <3>1. requests'[q] = requests[q] /\ requests[q] \in Flight
      BY <2>2, <1>1, <1>3 DEF IInv, Typed
    <3>2. Sound(requests[q]) /\ cases[requests[q].case] # NoCase /\ requests[q].case \in Cases
      BY <3>1, <1>3 DEF IInv, RequestsSound, Flight
    <3> QED BY <3>1, <3>2
  <2> QED BY <2>1, <2>2
<1>4. RequestsSound'
  BY <1>3 DEF RequestsSound, Sound, Follows, CanTransition
<1> QED BY <1>2, <1>4 DEF IInv

\* A request starts: what it will write follows what it reads.
LEMMA StartKeeps ==
    ASSUME IInv, NEW r \in Requests, NEW c \in Cases, NEW at \in {"comment", "write", "effect",
           "log", "record"}, NEW write \in Changes, NEW entry \in Entries,
           NEW d \in MODERATION_DECISIONS, Start(r, c, at, write, entry, d),
           at = "comment" => write = [status |-> "IN_PROGRESS"],
           at = "write" /\ "status" \in DOMAIN write => Follows(cases[c].status, write.status)
    PROVE  IInv'
<1> DEFINE x == [step |-> at, case |-> c, seen |-> cases[c], write |-> write, entry |-> entry,
                 decision |-> d]
<1>1. cases[c] \in Case /\ cases[c] # NoCase
  BY DEF Start, IInv, Typed
<1>2. /\ x \in Flight /\ x.step = at /\ x.seen = cases[c] /\ x.write = write /\ x.case = c
  BY <1>1 DEF Flight, Steps
<1>3. requests' = [requests EXCEPT ![r] = x]
  BY DEF Start
<1>4. /\ UNCHANGED <<cases, journal, suspended, log, history, faults>> /\ served' \in Nat
  BY DEF Start, Serve, IInv, Typed
<1> HIDE DEF x
<1>5. Sound(x)
  BY <1>2 DEF Sound
<1> QED BY <1>1, <1>2, <1>3, <1>4, <1>5, MoveKeeps DEF IInv, Typed, history

LEMMA BeginKeeps == ASSUME IInv, NEW r \in Requests, NEW c \in Cases PROVE
    /\ (\E a \in Operators : Assign(r, c, a)) => IInv'
    /\ (\E to \in CaseStatus : ChangeStatus(r, c, to)) => IInv'
    /\ (\E d \in CatalogueRoutes : Reroute(r, c, d)) => IInv'
    /\ (\E p \in BOOLEAN : ChangePriority(r, c, p)) => IInv'
    /\ (Escalate(r, c) \/ AddComment(r, c) \/ AddRequesterComment(r, c)) => IInv'
    /\ (\E d \in MODERATION_DECISIONS : Decide(r, c, d)) => IInv'
<1> USE NoChange
<1>1. ASSUME NEW a \in Operators, Assign(r, c, a) PROVE IInv'
  <2> DEFINE s == AssignedStatus(cases[c].status)
  <2>1. cases[c] \in Case
    BY <1>1 DEF Assign, Start, IInv, Typed
  <2>2. cases[c].status \in CaseStatus
    BY <2>1 DEF Case
  <2>3. s \in CaseStatus /\ Follows(cases[c].status, s)
    BY <2>2 DEF AssignedStatus, CaseStatus, Follows, CanTransition, ALLOWED_TRANSITIONS
  <2> HIDE DEF s
  <2>4. [assignee |-> a, status |-> s] \in Changes /\ [assignee |-> a] \in Changes
    BY <2>3, AssigningChange
  <2>5. Start(r, c, "write", [assignee |-> a, status |-> s], Entry("ASSIGNED", [assignee |-> a]),
              "NO_ACTION")
    BY <1>1 DEF Assign, s
  <2>6. Entry("ASSIGNED", [assignee |-> a]) \in Entries
    BY <2>4 DEF Entry, Entries, Kinds
  <2> QED BY <2>3, <2>4, <2>5, <2>6, StartKeeps DEF MODERATION_DECISIONS
<1>2. ASSUME NEW to \in CaseStatus, ChangeStatus(r, c, to) PROVE IInv'
  <2> DEFINE f == IF to = "CLOSED" THEN [status |-> to, closed |-> TRUE] ELSE [status |-> to]
  <2>1. f \in Changes /\ f.status = to
    BY StatusChange, ClosingChange
  <2>2. /\ CanTransition(cases[c].status, to)
        /\ Start(r, c, "write", f, Entry("STATUS_CHANGED", f), "NO_ACTION")
    BY <1>2 DEF ChangeStatus
  <2> HIDE DEF f
  <2>3. Entry("STATUS_CHANGED", f) \in Entries
    BY <2>1 DEF Entry, Entries, Kinds
  <2>4. Follows(cases[c].status, f.status)
    BY <2>1, <2>2 DEF Follows
  <2> QED BY <2>1, <2>2, <2>3, <2>4, StartKeeps DEF MODERATION_DECISIONS
<1>3. ASSUME NEW d \in CatalogueRoutes, Reroute(r, c, d) PROVE IInv'
  <2> DEFINE f == [route |-> d, assignee |-> None]
  <2>1. f \in Changes /\ "status" \notin DOMAIN f
    BY CatalogueRoutesAssumption, ReroutingChange
  <2>2. Start(r, c, "write", f, Entry("REROUTED", f), "NO_ACTION")
    BY <1>3 DEF Reroute
  <2> HIDE DEF f
  <2>3. Entry("REROUTED", f) \in Entries
    BY <2>1 DEF Entry, Entries, Kinds
  <2> QED BY <2>1, <2>2, <2>3, StartKeeps DEF MODERATION_DECISIONS
<1>4. ASSUME NEW p \in BOOLEAN, NEW k \in {"PRIORITY_CHANGED", "ESCALATED"},
             Start(r, c, "write", [critical |-> p], Entry(k, [critical |-> p]), "NO_ACTION")
      PROVE  IInv'
  <2> DEFINE f == [critical |-> p]
  <2>1. f \in Changes /\ "status" \notin DOMAIN f
    BY PriorityChange
  <2>2. Start(r, c, "write", f, Entry(k, f), "NO_ACTION")
    BY <1>4
  <2> HIDE DEF f
  <2>3. Entry(k, f) \in Entries
    BY <2>1 DEF Entry, Entries, Kinds
  <2> QED BY <2>1, <2>2, <2>3, StartKeeps DEF MODERATION_DECISIONS
<1>5. TRUE \in BOOLEAN
  OBVIOUS
<1>6. AddComment(r, c) => IInv'
  <2>1. Entry("COMMENT", Nothing) \in Entries
    BY DEF Entry, Entries, Kinds
  <2> QED BY <2>1, StartKeeps DEF AddComment, MODERATION_DECISIONS
<1>7. AddRequesterComment(r, c) => IInv'
  <2> DEFINE f == [status |-> "IN_PROGRESS"]
  <2>1. f \in Changes
    BY StatusChange DEF CaseStatus
  <2>2. Entry("STATUS_CHANGED", f) \in Entries
    BY <2>1 DEF Entry, Entries, Kinds
  <2> QED BY <2>1, <2>2, StartKeeps DEF AddRequesterComment, MODERATION_DECISIONS
<1>8. ASSUME NEW d \in MODERATION_DECISIONS, Decide(r, c, d) PROVE IInv'
  <2>1. Entry("MODERATION_DECISION", Nothing) \in Entries
    BY DEF Entry, Entries, Kinds
  <2> DEFINE at == IF d = "NO_ACTION" THEN "log" ELSE "effect"
  <2>2. at \in {"log", "effect"}
    OBVIOUS
  <2>3. Start(r, c, at, Nothing, Entry("MODERATION_DECISION", Nothing), d)
    BY <1>8 DEF Decide
  <2> HIDE DEF at
  <2> QED BY <2>1, <2>2, <2>3, StartKeeps
<1> QED BY <1>1, <1>2, <1>3, <1>4, <1>5, <1>6, <1>7, <1>8 DEF ChangePriority, Escalate

\* The row is opened NEW; what a rule adds to it follows.
LEMMA OpenKeeps ==
    ASSUME IInv, NEW r \in Requests, NEW c \in Cases, NEW d \in Routes, NEW p \in BOOLEAN,
           NEW s \in InitialStatuses, NEW a \in Operators \cup {None}, NEW o \in Objects,
           Open(r, c, d, p, s, a, o)
    PROVE  IInv'
<1> DEFINE row == [status |-> "NEW", assignee |-> None, route |-> d, critical |-> p,
                   closed |-> FALSE, object |-> o]
           added == [status |-> s, assignee |-> a]
           x == [step |-> IF s # "NEW" \/ a # None THEN "initial" ELSE "record",
                 case |-> c, seen |-> row, write |-> added,
                 entry |-> Entry("CREATED", [route |-> d]), decision |-> "NO_ACTION"]
<1>1. row \in Case
  BY DEF Case, CaseStatus
<1>2. s \in CaseStatus
  BY InitialStatusesAssumption
<1>3. added = [assignee |-> a, status |-> s]
  OBVIOUS
<1>4. added \in Changes /\ added.status = s /\ added.assignee = a
  BY <1>2, <1>3, AssigningChange
<1>5. /\ cases[c] = NoCase /\ cases' = [cases EXCEPT ![c] = row]
      /\ requests' = [requests EXCEPT ![r] = x]
      /\ opened' = [opened EXCEPT ![c] = Changed(row, added)]
      /\ UNCHANGED <<journal, suspended, log, raced, blurred, contested, faults>>
      /\ served' = served + 1
  BY DEF Open, Serve
<1> HIDE DEF row, added
<1>6. opened' \in [Cases -> Case \cup {NoCase}]
  <2>1. Changed(row, added) \in Case
    BY <1>1, <1>4, ChangedRow
  <2> QED BY <1>5, <2>1 DEF IInv, Typed
<1>7. Entry("CREATED", [route |-> d]) \in Entries
  BY ReroutingChange DEF Entry, Entries, Kinds
<1>8. /\ x \in Flight /\ x.step \in {"initial", "record"} /\ x.write = added /\ x.case = c
  BY <1>1, <1>4, <1>7 DEF Flight, Steps, MODERATION_DECISIONS
<1> HIDE DEF x
<1>9. Sound(x)
  BY <1>2, <1>4, <1>8 DEF Sound
<1>10. /\ cases' \in [Cases -> Case \cup {NoCase}] /\ cases'[c] = row /\ row # NoCase
       /\ \A d2 \in Cases \ {c} : cases'[d2] = cases[d2]
  BY <1>1, <1>5, NoCaseIsNoRow DEF IInv, Typed
<1>11. cases'[x.case] # NoCase /\ served' \in Nat
  BY <1>5, <1>8, <1>10 DEF IInv, Typed
<1>12. \A b \in Cases : cases[b] # NoCase => cases'[b] # NoCase
  BY <1>5, <1>10
<1> QED BY <1>5, <1>6, <1>8, <1>9, <1>10, <1>11, <1>12, MoveKeeps DEF IInv, Typed

\* What the next step of a request keeps of it.
LEMMA GotoFacts ==
    ASSUME Typed, NEW r \in Requests, requests[r] # Idle, NEW step \in Steps
    PROVE  LET x == [requests[r] EXCEPT !.step = step]
           IN  /\ x \in Flight /\ x.step = step /\ x.case = requests[r].case
               /\ x.seen = requests[r].seen /\ x.write = requests[r].write
               /\ x.decision = requests[r].decision
               /\ Goto(r, step) => requests' = [requests EXCEPT ![r] = x]
BY FlightTyped DEF Goto, Flight

LEMMA ApplyRuleKeeps == ASSUME IInv, NEW r \in Requests, ApplyRule(r) PROVE IInv'
<1> DEFINE q == requests[r]
           c == q.case
           added == q.write
           x == [q EXCEPT !.step = "record"]
           row == [cases[c] EXCEPT !.status = added.status,
                      !.assignee = IF added.assignee = None THEN @ ELSE added.assignee]
<1>1. q \in Flight /\ q # Idle /\ q.step = "initial"
  BY AtFlight DEF IInv, ApplyRule, At, Steps
<1>2. /\ cases[c] # NoCase /\ c \in Cases
      /\ added.status \in CaseStatus /\ added.assignee \in Operators \cup {None}
  BY <1>1 DEF IInv, RequestsSound, Sound, Flight
<1>3. cases[c] \in Case
  BY <1>2 DEF IInv, Typed
<1>4. cases' = [cases EXCEPT ![c] = row]
  BY <1>2, <1>3 DEF ApplyRule, IInv, Typed, Case
<1>5. row \in Case
  BY <1>2, <1>3 DEF Case
<1>6. /\ x \in Flight /\ x.step = "record" /\ x.case = c
      /\ requests' = [requests EXCEPT ![r] = x]
  BY <1>1, GotoFacts DEF IInv, ApplyRule, Steps
<1>7. /\ raced' \subseteq Cases
      /\ UNCHANGED <<journal, suspended, log, opened, blurred, contested, served, faults>>
  BY <1>2 DEF ApplyRule, Race, IInv, Typed
<1> HIDE DEF row, x
<1>8. Sound(x)
  BY <1>6 DEF Sound
<1>9. /\ cases' \in [Cases -> Case \cup {NoCase}] /\ cases'[c] = row /\ row # NoCase
      /\ \A d \in Cases \ {c} : cases'[d] = cases[d]
  BY <1>2, <1>4, <1>5, NoCaseIsNoRow DEF IInv, Typed
<1> QED BY <1>6, <1>7, <1>8, <1>9, MoveKeeps DEF IInv, Typed

LEMMA UpdateKeeps == ASSUME IInv, NEW r \in Requests, Update(r) PROVE IInv'
<1> DEFINE q == requests[r]
           c == q.case
           x == [q EXCEPT !.step = "record"]
           row == Changed(cases[c], q.write)
<1>1. q \in Flight /\ q # Idle
  BY AtFlight DEF IInv, Update, Steps
<1>2. cases[c] # NoCase /\ c \in Cases /\ q.write \in Changes
  BY <1>1 DEF IInv, RequestsSound, Flight
<1>3. row \in Case /\ cases' = [cases EXCEPT ![c] = row]
  BY <1>2, ChangedRow DEF Update, Write, IInv, Typed
<1>4. /\ x \in Flight /\ x.step = "record" /\ x.case = c
      /\ requests' = [requests EXCEPT ![r] = x]
  BY <1>1, GotoFacts DEF IInv, Update, Steps
<1>5. /\ raced' \subseteq Cases /\ blurred' \subseteq Cases
      /\ UNCHANGED <<journal, suspended, log, opened, contested, served, faults>>
  BY <1>2 DEF Update, Race, IInv, Typed
<1> HIDE DEF row, x
<1>6. Sound(x)
  BY <1>4 DEF Sound
<1>7. /\ cases' \in [Cases -> Case \cup {NoCase}] /\ cases'[c] = row /\ row # NoCase
      /\ \A d \in Cases \ {c} : cases'[d] = cases[d]
  BY <1>2, <1>3, NoCaseIsNoRow DEF IInv, Typed
<1> QED BY <1>4, <1>5, <1>6, <1>7, MoveKeeps DEF IInv, Typed

\* A journal to which an entry is added.
LEMMA JournalTyped ==
    ASSUME Typed, NEW c \in Cases, NEW e \in Entries,
           journal' = [journal EXCEPT ![c] = Append(@, e)]
    PROVE  journal' \in [Cases -> Seq(Entries)]
<1>1. Append(journal[c], e) \in Seq(Entries)
  BY DEF Typed
<1> QED BY <1>1 DEF Typed

LEMMA RecordEventKeeps == ASSUME IInv, NEW r \in Requests, RecordEvent(r) PROVE IInv'
<1>1. requests[r] \in Flight
  BY AtFlight DEF IInv, RecordEvent, Steps
<1>2. journal' \in [Cases -> Seq(Entries)]
  BY <1>1, JournalTyped DEF IInv, RecordEvent, Flight
<1>3. /\ requests' = [requests EXCEPT ![r] = Idle]
      /\ UNCHANGED <<cases, suspended, log, opened, raced, blurred, contested, served, faults>>
  BY DEF RecordEvent, Finish, history
<1> QED BY <1>2, <1>3, MoveKeeps DEF IInv, Typed

\* The status is relaunched only along the table.
LEMMA RecordReplyKeeps == ASSUME IInv, NEW r \in Requests, RecordReply(r) PROVE IInv'
<1> DEFINE q == requests[r]
           x == IF Resumes(q.seen.status) THEN [q EXCEPT !.step = "write"] ELSE Idle
<1>1. q \in Flight /\ q # Idle /\ q.step = "comment"
  BY AtFlight DEF IInv, RecordReply, At, Steps
<1>2. q.case \in Cases /\ cases[q.case] # NoCase /\ q.write = [status |-> "IN_PROGRESS"]
  BY <1>1 DEF IInv, RequestsSound, Sound, Flight
<1>3. Entry("REPLY", Nothing) \in Entries
  BY NoChange DEF Entry, Entries, Kinds
<1>4. journal' \in [Cases -> Seq(Entries)]
  BY <1>2, <1>3, JournalTyped DEF IInv, RecordReply
<1>5. /\ raced' \subseteq Cases
      /\ UNCHANGED <<cases, suspended, log, opened, blurred, contested, served, faults>>
  BY <1>2 DEF RecordReply, Race, IInv, Typed
<1>6. requests' = [requests EXCEPT ![r] = x] /\ x \in Flight \cup {Idle}
  BY <1>1, GotoFacts DEF IInv, RecordReply, Finish, Steps
<1>7. x # Idle => Sound(x) /\ x.case = q.case
  <2> SUFFICES ASSUME Resumes(q.seen.status)
               PROVE  Sound([q EXCEPT !.step = "write"])
                      /\ [q EXCEPT !.step = "write"].case = q.case
    OBVIOUS
  <2>1. LET y == [q EXCEPT !.step = "write"]
        IN  y.step = "write" /\ y.case = q.case /\ y.seen = q.seen /\ y.write = q.write
    BY <1>1, GotoFacts DEF IInv, Steps
  <2>2. Follows(q.seen.status, "IN_PROGRESS")
    BY DEF Resumes, Follows
  <2> QED BY <1>2, <2>1, <2>2 DEF Sound
<1> HIDE DEF x
<1> QED BY <1>2, <1>4, <1>5, <1>6, <1>7, MoveKeeps DEF IInv, Typed

LEMMA ApplyEffectKeeps == ASSUME IInv, NEW r \in Requests, ApplyEffect(r) PROVE IInv'
<1> DEFINE q == requests[r]
           x == [q EXCEPT !.step = "log"]
<1>1. q \in Flight /\ q # Idle
  BY AtFlight DEF IInv, ApplyEffect, Steps
<1>2. cases[q.case] # NoCase /\ q.case \in Cases /\ q.seen.object \in Objects
  BY <1>1 DEF IInv, RequestsSound, Flight, Case
<1>3. /\ x \in Flight /\ x.step = "log" /\ x.case = q.case
      /\ requests' = [requests EXCEPT ![r] = x]
  BY <1>1, GotoFacts DEF IInv, ApplyEffect, Steps
<1>4. /\ suspended' \subseteq Objects /\ contested' \subseteq Objects
      /\ UNCHANGED <<cases, journal, log, opened, raced, blurred, served, faults>>
  BY <1>2 DEF ApplyEffect, IInv, Typed
<1> HIDE DEF x
<1>5. Sound(x)
  BY <1>3 DEF Sound
<1> QED BY <1>2, <1>3, <1>4, <1>5, MoveKeeps DEF IInv, Typed

LEMMA RecordLogKeeps == ASSUME IInv, NEW r \in Requests, RecordLog(r) PROVE IInv'
<1> DEFINE q == requests[r]
           x == [q EXCEPT !.step = "record"]
           new == [case |-> q.case, object |-> q.seen.object, decision |-> q.decision]
<1>1. q \in Flight /\ q # Idle
  BY AtFlight DEF IInv, RecordLog, Steps
<1>2. /\ cases[q.case] # NoCase
      /\ new \in [case: Cases, object: Objects, decision: MODERATION_DECISIONS]
  BY <1>1 DEF IInv, RequestsSound, Flight, Case
<1>3. /\ x \in Flight /\ x.step = "record" /\ x.case = q.case
      /\ requests' = [requests EXCEPT ![r] = x]
  BY <1>1, GotoFacts DEF IInv, RecordLog, Steps
<1>4. log' = Append(log, new)
  BY DEF RecordLog
<1> HIDE DEF x, new
<1>5. log' \in Seq([case: Cases, object: Objects, decision: MODERATION_DECISIONS])
  BY <1>2, <1>4 DEF IInv, Typed
<1>6. UNCHANGED <<cases, journal, suspended, opened, raced, blurred, contested, served, faults>>
  BY DEF RecordLog, history
<1>7. Sound(x)
  BY <1>3 DEF Sound
<1> QED BY <1>2, <1>3, <1>5, <1>6, <1>7, MoveKeeps DEF IInv, Typed

LEMMA LoseRequestKeeps == ASSUME IInv, NEW r \in Requests, LoseRequest(r) PROVE IInv'
<1>1. requests[r] \in Flight
  BY FlightTyped DEF IInv, LoseRequest
<1>2. requests[r].case \in Cases /\ requests[r].seen.object \in Objects
  BY <1>1 DEF Flight, Case
<1>3. /\ blurred' \subseteq Cases /\ contested' \subseteq Objects /\ faults' \in Nat
      /\ requests' = [requests EXCEPT ![r] = Idle]
      /\ UNCHANGED <<cases, journal, suspended, log, opened, raced, served>>
  BY <1>2 DEF LoseRequest, Finish, IInv, Typed
<1> QED BY <1>3, MoveKeeps DEF IInv, Typed

LEMMA StutterKeeps == ASSUME IInv, UNCHANGED vars PROVE IInv'
BY DEF IInv, Typed, RequestsSound, Sound, Follows, CanTransition, vars, history

LEMMA NextKeeps == ASSUME IInv, [Next]_vars PROVE IInv'
<1>1. ASSUME NEW r \in Requests, Begin(r) PROVE IInv'
  BY <1>1, BeginKeeps, OpenKeeps DEF Begin
<1>2. ASSUME NEW r \in Requests, Continue(r) PROVE IInv'
  BY <1>2, ApplyRuleKeeps, UpdateKeeps, RecordEventKeeps, RecordReplyKeeps, ApplyEffectKeeps,
     RecordLogKeeps DEF Continue
<1> QED BY <1>1, <1>2, LoseRequestKeeps, StutterKeeps DEF Next

-----------------------------------------------------------------------------
(* Theorems.                                                               *)

\* What IInv says is an invariant of the Cases, whatever requests interleave or are lost.
THEOREM Inductive == Spec => []IInv
<1>1. Init => IInv
  BY InitTyped
<1>2. IInv /\ [Next]_vars => IInv'
  BY NextKeeps
<1> QED BY <1>1, <1>2, PTL DEF Spec

\* Rows, journals, the log and what requests hold have their types: whatever columns are
\* written over whatever row, the result is a row of the table.
THEOREM TypeCorrect == Spec => []TypeOK
<1>1. ASSUME NEW f \in Flight PROVE InFlightTyped(f)
  BY <1>1 DEF Flight, InFlightTyped, Changes, Entries
<1>2. IInv => TypeOK
  <2> SUFFICES ASSUME IInv PROVE TypeOK
    OBVIOUS
  <2>1. ASSUME NEW c \in Cases, NEW i \in DOMAIN journal[c] PROVE IsChange(journal[c][i].tells)
    <3>1. journal[c] \in Seq(Entries)
      BY DEF IInv, Typed
    <3>2. journal[c][i] \in Entries
      BY <3>1
    <3> QED BY <3>2 DEF Entries, Changes
  <2> QED BY <1>1, <2>1 DEF IInv, Typed, TypeOK
<1> QED BY <1>2, Inductive, PTL

\* CASE-004: once it is open, a Case moves along the transitions of the catalogue only, unless a
\* request acted on a status that had changed, the write-back of assign included.
THEOREM TransitionsKept == Spec => TransitionsAllowedUnlessRaced
<1> DEFINE Moves(c) ==
             \/ cases[c] = NoCase
             \/ \E r \in InFlight(c) : At(r, "initial")
             \/ cases'[c].status = cases[c].status
             \/ CanTransition(cases[c].status, cases'[c].status)
<1>1. ASSUME IInv, [Next]_vars, NEW c \in Cases \ raced' PROVE Moves(c)
  <2>1. CASE cases'[c] = cases[c]
    BY <2>1
  <2>2. ASSUME NEW r \in Requests, NEW b \in Cases, NEW d \in Routes, NEW p \in BOOLEAN,
               NEW s \in InitialStatuses, NEW a \in Operators \cup {None}, NEW o \in Objects,
               Open(r, b, d, p, s, a, o)
        PROVE  Moves(c)
    BY <2>2, <1>1 DEF Open, IInv, Typed
  <2>3. ASSUME NEW r \in Requests, ApplyRule(r) PROVE Moves(c)
    <3>1. requests[r] \in Flight /\ requests[r] # Idle
      BY <2>3, <1>1, AtFlight DEF IInv, ApplyRule, Steps
    <3>2. CASE requests[r].case = c
      BY <3>1, <3>2, <2>3 DEF ApplyRule, InFlight
    <3>3. CASE requests[r].case # c
      BY <3>3, <2>3, <1>1 DEF ApplyRule, IInv, Typed
    <3> QED BY <3>2, <3>3
  <2>4. ASSUME NEW r \in Requests, Update(r) PROVE Moves(c)
    <3>1. requests[r] \in Flight /\ requests[r] # Idle /\ requests[r].step = "write"
      BY <2>4, <1>1, AtFlight DEF IInv, Update, At, Steps
    <3>2. CASE requests[r].case = c
      <4>1. /\ cases[c] \in Case /\ requests[r].write \in Changes
            /\ cases'[c] = Changed(cases[c], requests[r].write)
        BY <3>1, <3>2, <2>4, <1>1 DEF IInv, Typed, RequestsSound, Flight, Update, Write
      <4>2. CASE "status" \in DOMAIN requests[r].write
        <5>1. cases[c].status = requests[r].seen.status
          BY <3>2, <4>2, <2>4, <1>1 DEF Update, Race
        <5>2. Follows(requests[r].seen.status, requests[r].write.status)
          BY <3>1, <4>2, <1>1 DEF IInv, RequestsSound, Sound
        <5> QED BY <4>1, <4>2, <5>1, <5>2, ChangedRow DEF Follows
      <4>3. CASE "status" \notin DOMAIN requests[r].write
        BY <4>1, <4>3, ChangedRow
      <4> QED BY <4>2, <4>3
    <3>3. CASE requests[r].case # c
      BY <3>3, <2>4, <1>1 DEF Update, Write, IInv, Typed
    <3> QED BY <3>2, <3>3
  <2> HIDE DEF Moves
  <2>5. ASSUME NEW r \in Requests, Begin(r) PROVE Moves(c)
    BY <2>5, <2>1, <2>2 DEF Begin, Start, Assign, ChangeStatus, Reroute, ChangePriority, Escalate,
       AddComment, AddRequesterComment, Decide
  <2>6. ASSUME NEW r \in Requests, Continue(r) PROVE Moves(c)
    BY <2>6, <2>1, <2>3, <2>4 DEF Continue, RecordEvent, RecordReply, ApplyEffect, RecordLog
  <2>7. ASSUME NEW r \in Requests, LoseRequest(r) PROVE Moves(c)
    BY <2>7, <2>1 DEF LoseRequest
  <2> QED BY <1>1, <2>1, <2>5, <2>6, <2>7 DEF Next, vars
<1>2. IInv /\ [Next]_vars =>
        [\A c \in Cases \ raced' :
           \/ cases[c] = NoCase
           \/ \E r \in InFlight(c) : At(r, "initial")
           \/ cases'[c].status = cases[c].status
           \/ CanTransition(cases[c].status, cases'[c].status)]_vars
  BY <1>1
<1> QED BY <1>2, Inductive, PTL DEF Spec, TransitionsAllowedUnlessRaced

-----------------------------------------------------------------------------
(* The log of moderation.                                                  *)

\* A decision of the log about an object that has an effect, and the last one being to suspend.
Decides(o, i) == log[i].object = o /\ log[i].decision # "NO_ACTION"

LastSuspends(o) ==
    \E i \in DOMAIN log :
       /\ Decides(o, i) /\ log[i].decision = "SUSPEND"
       /\ \A j \in DOMAIN log : j > i => ~Decides(o, j)

\* Request r has made a decision about an object effective and not logged it yet.
Deciding(r, o) ==
    At(r, "log") /\ requests[r].seen.object = o /\ requests[r].decision # "NO_ACTION"

LogInv ==
    /\ \A r \in Requests : At(r, "effect") => requests[r].decision # "NO_ACTION"
    /\ \A o \in Objects \ contested :
          /\ \A r, q \in Requests : Deciding(r, o) /\ Deciding(q, o) => r = q
          /\ \A r \in Requests : Deciding(r, o) =>
                (o \in suspended <=> requests[r].decision = "SUSPEND")
          /\ (\A r \in Requests : ~Deciding(r, o)) => (o \in suspended <=> LastSuspends(o))

\* What one more decision changes of the log.
LEMMA AppendDecision ==
    ASSUME Typed, NEW e \in [case: Cases, object: Objects, decision: MODERATION_DECISIONS],
           log' = Append(log, e), NEW o
    PROVE  LastSuspends(o)' <=> IF e.object = o /\ e.decision # "NO_ACTION"
                                  THEN e.decision = "SUSPEND" ELSE LastSuspends(o)
<1>1. /\ Len(log) \in Nat /\ DOMAIN log = 1..Len(log) /\ DOMAIN log' = 1..(Len(log) + 1)
      /\ log'[Len(log) + 1] = e /\ \A i \in 1..Len(log) : log'[i] = log[i]
  BY DEF Typed
<1>2. \A i \in 1..(Len(log) + 1) : i \in 1..Len(log) \/ i = Len(log) + 1
  BY <1>1
<1>3. Len(log) + 1 \in 1..(Len(log) + 1) /\ 1..Len(log) \subseteq 1..(Len(log) + 1)
  BY <1>1
<1>4. \A i \in 1..Len(log) : Len(log) + 1 > i /\ ~(i > Len(log) + 1)
  BY <1>1
<1>5. CASE e.object = o /\ e.decision # "NO_ACTION"
  BY <1>1, <1>2, <1>3, <1>4, <1>5 DEF LastSuspends, Decides
<1>6. CASE ~(e.object = o /\ e.decision # "NO_ACTION")
  <2>1. \A i : i = Len(log) + 1 => ~Decides(o, i)'
    BY <1>1, <1>6 DEF Decides
  <2>2. \A i \in 1..Len(log) : Decides(o, i)' <=> Decides(o, i)
    BY <1>1 DEF Decides
  <2>3. \A i \in 1..Len(log) : log'[i].decision = log[i].decision
    BY <1>1
  <2>4. \A i \in DOMAIN log' :
           Decides(o, i)' <=> i \in 1..Len(log) /\ Decides(o, i)
    BY <1>1, <1>2, <1>3, <2>1, <2>2
  <2>5. LastSuspends(o) => LastSuspends(o)'
    BY <1>1, <1>3, <2>3, <2>4 DEF LastSuspends
  <2>6. LastSuspends(o)' => LastSuspends(o)
    BY <1>1, <1>3, <2>3, <2>4 DEF LastSuspends
  <2> QED BY <1>6, <2>5, <2>6
<1> QED BY <1>5, <1>6

\* A step that neither makes nor logs a decision: who decides what stays.
LEMMA QuietKeepsLog ==
    ASSUME LogInv, NEW r \in Requests, ~At(r, "log"), NEW x,
           requests \in [Requests -> Flight \cup {Idle}],
           requests' = [requests EXCEPT ![r] = x],
           x.step = "log" => x.decision = "NO_ACTION",
           x.step = "effect" => x.decision # "NO_ACTION",
           UNCHANGED <<suspended, log, contested>>
    PROVE  LogInv'
<1>1. requests'[r] = x /\ \A q \in Requests \ {r} : requests'[q] = requests[q]
  OBVIOUS
<1>2. \A q \in Requests : \A o : Deciding(q, o)' <=> Deciding(q, o)
  BY <1>1 DEF Deciding, At
<1>3. \A o : LastSuspends(o)' <=> LastSuspends(o)
  BY DEF LastSuspends, Decides
<1>4. \A q \in Requests : At(q, "effect")' => requests'[q].decision # "NO_ACTION"
  BY <1>1 DEF At, LogInv
<1>5. \A q \in Requests : \A o : Deciding(q, o) => requests'[q].decision = requests[q].decision
  BY <1>1 DEF Deciding
<1> QED BY <1>2, <1>3, <1>4, <1>5 DEF LogInv

LEMMA ApplyEffectKeepsLog == ASSUME IInv, LogInv, NEW r \in Requests, ApplyEffect(r) PROVE LogInv'
<1> DEFINE o == requests[r].seen.object
<1>1. /\ requests[r] \in Flight /\ requests[r] # Idle /\ At(r, "effect")
  BY AtFlight DEF IInv, ApplyEffect, Steps
<1>2. /\ requests[r].decision \in {"SUSPEND", "RESTORE"} /\ ~At(r, "log")
  BY <1>1 DEF LogInv, Flight, MODERATION_DECISIONS, At
<1>3. /\ requests'[r].step = "log" /\ requests'[r].seen = requests[r].seen
      /\ requests'[r].decision = requests[r].decision
      /\ \A q \in Requests \ {r} : requests'[q] = requests[q]
  BY <1>1, GotoFacts DEF IInv, Typed, ApplyEffect, Steps, Flight, Goto
<1>4. \A q \in Requests \ {r} : \A p : Deciding(q, p)' <=> Deciding(q, p)
  BY <1>3 DEF Deciding, At
<1>5. \A p : LastSuspends(p)' <=> LastSuspends(p)
  BY DEF LastSuspends, Decides, ApplyEffect
<1>6. \A p : Deciding(r, p)' <=> p = o
  BY <1>2, <1>3 DEF Deciding, At
<1>7. ASSUME NEW p \in Objects \ contested', p # o
      PROVE  p \notin contested /\ (p \in suspended' <=> p \in suspended)
  BY <1>7 DEF ApplyEffect
<1>8. o \notin contested' => o \notin contested /\ \A q \in Requests \ {r} : ~Deciding(q, o)
  BY DEF ApplyEffect, Deciding
<1>9. o \in suspended' <=> requests[r].decision = "SUSPEND"
  BY <1>2 DEF ApplyEffect
<1>10. \A q \in Requests : At(q, "effect")' => requests'[q].decision # "NO_ACTION"
  BY <1>3 DEF At, LogInv
<1> HIDE DEF o
<1>11. ASSUME NEW p \in Objects \ contested'
       PROVE  /\ \A s, q \in Requests : Deciding(s, p)' /\ Deciding(q, p)' => s = q
              /\ \A s \in Requests : Deciding(s, p)' =>
                    (p \in suspended' <=> requests'[s].decision = "SUSPEND")
              /\ (\A s \in Requests : ~Deciding(s, p)') =>
                    (p \in suspended' <=> LastSuspends(p)')
  <2>1. CASE p = o
    BY <2>1, <1>3, <1>4, <1>6, <1>8, <1>9, <1>11
  <2>2. CASE p # o
    <3>1. /\ p \in Objects \ contested /\ (p \in suspended' <=> p \in suspended)
          /\ (LastSuspends(p)' <=> LastSuspends(p))
          /\ \A s \in Requests : Deciding(s, p)' <=> Deciding(s, p) /\ s # r
      BY <2>2, <1>4, <1>5, <1>6, <1>7, <1>11
    <3>2. ~Deciding(r, p)
      BY <1>2 DEF Deciding
    <3> QED BY <1>3, <3>1, <3>2 DEF LogInv
  <2> QED BY <2>1, <2>2
<1> QED BY <1>10, <1>11 DEF LogInv

LEMMA RecordLogKeepsLog == ASSUME IInv, LogInv, NEW r \in Requests, RecordLog(r) PROVE LogInv'
<1> DEFINE q == requests[r]
           new == [case |-> q.case, object |-> q.seen.object, decision |-> q.decision]
<1>1. q \in Flight /\ q # Idle /\ q.step = "log"
  BY AtFlight DEF IInv, RecordLog, At, Steps
<1>2. /\ new \in [case: Cases, object: Objects, decision: MODERATION_DECISIONS]
      /\ new.object = q.seen.object /\ new.decision = q.decision
  BY <1>1 DEF Flight, Case
<1>3. log' = Append(log, new) /\ UNCHANGED <<suspended, contested>>
  BY DEF RecordLog, history
<1> HIDE DEF new
<1>4. \A o : LastSuspends(o)' <=> IF Deciding(r, o) THEN q.decision = "SUSPEND" ELSE LastSuspends(o)
  BY <1>1, <1>2, <1>3, AppendDecision DEF IInv, Deciding, At
<1>5. /\ requests'[r].step = "record"
      /\ \A p \in Requests \ {r} : requests'[p] = requests[p]
  BY <1>1, GotoFacts DEF IInv, Typed, RecordLog, Steps, Goto
<1>6. /\ \A o : ~Deciding(r, o)'
      /\ \A p \in Requests \ {r} : \A o : Deciding(p, o)' <=> Deciding(p, o)
  BY <1>5 DEF Deciding, At
<1>7. \A p \in Requests : At(p, "effect")' => requests'[p].decision # "NO_ACTION"
  BY <1>5 DEF At, LogInv
<1>8. ASSUME NEW o \in Objects \ contested'
      PROVE  /\ \A s, p \in Requests : Deciding(s, o)' /\ Deciding(p, o)' => s = p
             /\ \A s \in Requests : Deciding(s, o)' =>
                   (o \in suspended' <=> requests'[s].decision = "SUSPEND")
             /\ (\A s \in Requests : ~Deciding(s, o)') =>
                   (o \in suspended' <=> LastSuspends(o)')
  BY <1>3, <1>4, <1>5, <1>6, <1>8 DEF LogInv
<1> QED BY <1>7, <1>8 DEF LogInv

LEMMA LoseRequestKeepsLog == ASSUME IInv, LogInv, NEW r \in Requests, LoseRequest(r) PROVE LogInv'
<1>1. /\ requests'[r] = Idle /\ \A q \in Requests \ {r} : requests'[q] = requests[q]
      /\ UNCHANGED <<suspended, log>> /\ contested \subseteq contested'
      /\ \A o : Deciding(r, o) => o \in contested'
  BY DEF LoseRequest, Finish, IInv, Typed, Deciding, At
<1>2. /\ \A o : ~Deciding(r, o)'
      /\ \A q \in Requests \ {r} : \A o : Deciding(q, o)' <=> Deciding(q, o)
  BY <1>1 DEF Deciding, At, Idle
<1>3. \A o : LastSuspends(o)' <=> LastSuspends(o)
  BY <1>1 DEF LastSuspends, Decides
<1>4. \A q \in Requests : At(q, "effect")' => requests'[q].decision # "NO_ACTION"
  BY <1>1 DEF At, LogInv, Idle
<1>5. ASSUME NEW o \in Objects \ contested'
      PROVE  /\ \A s, p \in Requests : Deciding(s, o)' /\ Deciding(p, o)' => s = p
             /\ \A s \in Requests : Deciding(s, o)' =>
                   (o \in suspended' <=> requests'[s].decision = "SUSPEND")
             /\ (\A s \in Requests : ~Deciding(s, o)') =>
                   (o \in suspended' <=> LastSuspends(o)')
  BY <1>1, <1>2, <1>3, <1>5 DEF LogInv
<1> QED BY <1>4, <1>5 DEF LogInv

LEMMA NextKeepsLog == ASSUME IInv, LogInv, [Next]_vars PROVE LogInv'
<1>0. requests \in [Requests -> Flight \cup {Idle}]
  BY DEF IInv, Typed
<1>1. ASSUME NEW r \in Requests, NEW c \in Cases, NEW at, NEW w, NEW e, NEW d,
             Start(r, c, at, w, e, d), at = "log" => d = "NO_ACTION",
             at = "effect" => d # "NO_ACTION"
      PROVE  LogInv'
  <2> DEFINE x == [step |-> at, case |-> c, seen |-> cases[c], write |-> w, entry |-> e,
                   decision |-> d]
  <2>1. requests' = [requests EXCEPT ![r] = x] /\ x.step = at /\ x.decision = d
    BY <1>1 DEF Start
  <2>2. ~At(r, "log") /\ UNCHANGED <<suspended, log, contested>>
    BY <1>1 DEF Start, Serve, At, Idle, history
  <2> HIDE DEF x
  <2> QED BY <1>0, <1>1, <2>1, <2>2, QuietKeepsLog
<1>2. ASSUME NEW r \in Requests, NEW c \in Cases, NEW d \in Routes, NEW p \in BOOLEAN,
             NEW s \in InitialStatuses, NEW a \in Operators \cup {None}, NEW o \in Objects,
             Open(r, c, d, p, s, a, o)
      PROVE  LogInv'
  <2> DEFINE row == [status |-> "NEW", assignee |-> None, route |-> d, critical |-> p,
                     closed |-> FALSE, object |-> o]
             added == [status |-> s, assignee |-> a]
             x == [step |-> IF s # "NEW" \/ a # None THEN "initial" ELSE "record",
                   case |-> c, seen |-> row, write |-> added,
                   entry |-> Entry("CREATED", [route |-> d]), decision |-> "NO_ACTION"]
  <2>1. requests' = [requests EXCEPT ![r] = x] /\ x.step \notin {"log", "effect"}
    BY <1>2 DEF Open
  <2>2. ~At(r, "log") /\ UNCHANGED <<suspended, log, contested>>
    BY <1>2 DEF Open, Serve, At, Idle, history
  <2> HIDE DEF x
  <2> QED BY <1>0, <2>1, <2>2, QuietKeepsLog
<1>3. ASSUME NEW r \in Requests, Begin(r) PROVE LogInv'
  <2> PICK c \in Cases :
         \/ \E d \in Routes, p \in BOOLEAN, s \in InitialStatuses, a \in Operators \cup {None},
               o \in Objects : Open(r, c, d, p, s, a, o)
         \/ \E a \in Operators : Assign(r, c, a)
         \/ \E to \in CaseStatus : ChangeStatus(r, c, to)
         \/ \E d \in CatalogueRoutes : Reroute(r, c, d)
         \/ \E p \in BOOLEAN : ChangePriority(r, c, p)
         \/ Escalate(r, c) \/ AddComment(r, c) \/ AddRequesterComment(r, c)
         \/ \E d \in MODERATION_DECISIONS : Decide(r, c, d)
    BY <1>3 DEF Begin
  <2>1. ASSUME NEW at \in {"comment", "write", "record"}, NEW w, NEW e,
               Start(r, c, at, w, e, "NO_ACTION")
        PROVE  LogInv'
    BY <1>1, <2>1
  <2>2. ASSUME NEW d \in MODERATION_DECISIONS, Decide(r, c, d) PROVE LogInv'
    <3> DEFINE at == IF d = "NO_ACTION" THEN "log" ELSE "effect"
    <3>1. /\ at = "log" => d = "NO_ACTION"
          /\ at = "effect" => d # "NO_ACTION"
      OBVIOUS
    <3>2. Start(r, c, at, Nothing, Entry("MODERATION_DECISION", Nothing), d)
      BY <2>2 DEF Decide
    <3> HIDE DEF at
    <3> QED BY <1>1, <3>1, <3>2
  <2>3. ASSUME NEW to, ChangeStatus(r, c, to) PROVE LogInv'
    <3> DEFINE f == IF to = "CLOSED" THEN [status |-> to, closed |-> TRUE] ELSE [status |-> to]
    <3>1. Start(r, c, "write", f, Entry("STATUS_CHANGED", f), "NO_ACTION")
      BY <2>3 DEF ChangeStatus
    <3> HIDE DEF f
    <3> QED BY <2>1, <3>1
  <2> QED BY <1>2, <2>1, <2>2, <2>3 DEF Assign, Reroute, ChangePriority, Escalate,
             AddComment, AddRequesterComment
<1>4. ASSUME NEW r \in Requests, ApplyRule(r) \/ Update(r) PROVE LogInv'
  <2>1. requests[r] # Idle /\ ~At(r, "log")
    BY <1>4 DEF ApplyRule, Update, At, Idle
  <2> DEFINE x == [requests[r] EXCEPT !.step = "record"]
  <2>2. requests' = [requests EXCEPT ![r] = x] /\ x.step = "record"
    BY <1>4, <2>1, GotoFacts DEF IInv, ApplyRule, Update, Steps
  <2> HIDE DEF x
  <2> QED BY <1>0, <1>4, <2>1, <2>2, QuietKeepsLog DEF ApplyRule, Update
<1>5. ASSUME NEW r \in Requests, RecordEvent(r) PROVE LogInv'
  BY <1>0, <1>5, QuietKeepsLog DEF RecordEvent, Finish, At, Idle, history
<1>6. ASSUME NEW r \in Requests, RecordReply(r) PROVE LogInv'
  <2> DEFINE x == IF Resumes(requests[r].seen.status)
                    THEN [requests[r] EXCEPT !.step = "write"] ELSE Idle
  <2>1. requests[r] # Idle /\ ~At(r, "log")
    BY <1>6 DEF RecordReply, At, Idle
  <2>2. requests' = [requests EXCEPT ![r] = x] /\ x.step \in {"write", "idle"}
    BY <1>6, <2>1, GotoFacts DEF IInv, RecordReply, Finish, Idle, Steps
  <2> HIDE DEF x
  <2> QED BY <1>0, <1>6, <2>1, <2>2, QuietKeepsLog DEF RecordReply
<1>7. CASE UNCHANGED vars
  BY <1>7 DEF LogInv, Deciding, At, LastSuspends, Decides, vars, history
<1> QED BY <1>3, <1>4, <1>5, <1>6, <1>7, ApplyEffectKeepsLog, RecordLogKeepsLog,
           LoseRequestKeepsLog DEF Next, Continue

\* The decisions under way and the log together tell who is suspended.
THEOREM LogInductive == Spec => []LogInv
<1>1. Init => LogInv
  BY DEF Init, LogInv, Deciding, At, Idle, LastSuspends
<1>2. IInv /\ LogInv /\ [Next]_vars => LogInv'
  BY NextKeepsLog
<1> QED BY <1>1, <1>2, Inductive, PTL DEF Spec

\* MOD-003: the last decision of the log that has an effect is the one in force, unless two
\* decisions crossed or one was lost between its effect and the log.
THEOREM LogAgrees == Spec => []LogTellsSuspension
<1>1. LogInv => LogTellsSuspension
  BY DEF LogInv, LogTellsSuspension, LastSuspends, Decides, Deciding, At
<1> QED BY <1>1, LogInductive, PTL

-----------------------------------------------------------------------------
(* The journal of a Case.                                                  *)

\* What a request writes and what the entry it adds tells of it agree, step by step.
ToldBy(step, seen, write, entry) ==
    /\ entry.kind # "REPLY"
    /\ entry.kind = "CREATED" => step \in {"initial", "record"}
    /\ step = "initial" =>
          /\ entry.kind = "CREATED" /\ seen.assignee = None /\ write # Nothing
          /\ DOMAIN write = {"status", "assignee"}
    /\ step = "comment" =>
          /\ entry.kind = "STATUS_CHANGED" /\ write # Nothing
          /\ entry.tells = write /\ DOMAIN write = {"status"}
    /\ step = "write" =>
          /\ write # Nothing
          /\ entry.kind = "ASSIGNED" =>
                \E a \in Operators :
                   /\ entry.tells = [assignee |-> a]
                   /\ write = [assignee |-> a, status |-> AssignedStatus(seen.status)]
          /\ entry.kind # "ASSIGNED" => entry.tells = write
          /\ "status" \in DOMAIN write => entry.kind \in {"ASSIGNED", "STATUS_CHANGED"}
    /\ step \in {"effect", "log"} => write = Nothing
    /\ write = Nothing =>
          entry.tells = Nothing /\ entry.kind \in {"COMMENT", "MODERATION_DECISION"}

Told(q) == ToldBy(q.step, q.seen, q.write, q.entry)

\* Request r has written Case c and not told the journal yet.
Telling(r, c) ==
    /\ requests[r].step \in {"initial", "record"} /\ requests[r].case = c
    /\ requests[r].write # Nothing

Creates(c, i) == i \in DOMAIN journal[c] /\ journal[c][i].kind = "CREATED"

\* The row that the journal of a Case gives, told on the row as it was opened.
Read(c) == Replay(opened[c], journal[c])

\* The row that a request which has written row c leaves: an opening may still add to it.
Leaves(q, c) == IF q.step = "initial" THEN Changed(q.seen, q.write) ELSE cases[c]

\* One request at most has written Case c and not told it, the one that opens it until the
\* journal says so; the row is what the journal gives, and what that request is to tell.
Calm(c) ==
    /\ \A r, q \in Requests : Telling(r, c) /\ Telling(q, c) => r = q
    /\ \/ \E i : Creates(c, i)
       \/ \E r \in Requests : Telling(r, c) /\ requests[r].entry.kind = "CREATED"
    /\ (\A r \in Requests : ~Telling(r, c)) => Read(c) = cases[c]
    /\ \A r \in Requests : Telling(r, c) =>
          /\ Tell(Read(c), requests[r].entry) = Leaves(requests[r], c)
          /\ requests[r].step = "initial" => cases[c] = requests[r].seen

JournalInv ==
    /\ \A r \in Requests : requests[r] # Idle => Told(requests[r])
    /\ \A c \in Cases : cases[c] = NoCase => journal[c] = << >>
    /\ \A c \in Cases : cases[c] # NoCase => opened[c] \in Case
    /\ \A c \in Cases \ (raced \cup blurred) : cases[c] # NoCase => Calm(c)

-----------------------------------------------------------------------------
(* What entries tell.                                                      *)

LEMMA TellNothing ==
    ASSUME NEW row \in Case, NEW e, e.tells = Nothing, e.kind # "ASSIGNED"
    PROVE  Tell(row, e) = row
<1>1. Changed(row, Nothing) = row
  BY DEF Changed, Nothing, Case
<1> QED BY <1>1 DEF Tell

\* The entry of an opening tells where the Case goes.
LEMMA TellRoute ==
    ASSUME NEW row \in Case, NEW e, e.tells = [route |-> row.route], e.kind = "CREATED"
    PROVE  Tell(row, e) = row
<1>1. Changed(row, e.tells) = row
  BY DEF Changed, Case
<1> QED BY <1>1 DEF Tell

\* A journal without entries gives the row as it was opened.
LEMMA ReplayEmpty == ASSUME NEW row PROVE Replay(row, << >>) = row
<1>1. << >> \in Seq(Entries) /\ Len(<< >>) = 0
  OBVIOUS
<1>2. PICK f : Tells(f, row, << >>, 0) /\ Replay(row, << >>) = f[0]
  BY <1>1, ReplayIsLast
<1> QED BY <1>2 DEF Tells

\* The entry of a write tells what the write does to the row it is told on.
LEMMA TellWrite ==
    ASSUME NEW row \in Case, NEW seen \in Case, NEW w, NEW e, ToldBy("write", seen, w, e),
           "status" \in DOMAIN w => row.status = seen.status
    PROVE  Tell(row, e) = Changed(row, w)
<1>1. CASE e.kind # "ASSIGNED"
  BY <1>1 DEF ToldBy, Tell
<1>2. CASE e.kind = "ASSIGNED"
  <2>1. PICK a \in Operators : /\ e.tells = [assignee |-> a]
                               /\ w = [assignee |-> a, status |-> AssignedStatus(seen.status)]
    BY <1>2 DEF ToldBy
  <2>2. row.status = seen.status /\ w.status = AssignedStatus(row.status) /\ w.assignee = a
    BY <2>1
  <2>3. Changed(row, w) = [row EXCEPT !.assignee = a, !.status = AssignedStatus(row.status)]
    BY <2>1, <2>2 DEF Changed, Case
  <2>4. Changed(row, e.tells) = [row EXCEPT !.assignee = a]
    BY <2>1 DEF Changed, Case
  <2>5. CASE row.status = "NEW"
    BY <1>2, <2>3, <2>4, <2>5 DEF Tell, AssignedStatus, Case
  <2>6. CASE row.status # "NEW"
    <3>1. [row EXCEPT !.assignee = a, !.status = row.status] = [row EXCEPT !.assignee = a]
      BY DEF Case
    <3> QED BY <2>3, <2>4, <2>6, <3>1 DEF Tell, AssignedStatus
  <2> QED BY <2>5, <2>6
<1> QED BY <1>1, <1>2

LEMMA SameJournal ==
    ASSUME NEW c, journal'[c] = journal[c], opened'[c] = opened[c]
    PROVE  (\A i : Creates(c, i)' <=> Creates(c, i)) /\ Read(c)' = Read(c)
BY DEF Creates, Read

\* What one more entry changes of what a journal says.
LEMMA AppendEntry ==
    ASSUME Typed, NEW c \in Cases, NEW e \in Entries, journal'[c] = Append(journal[c], e),
           opened'[c] = opened[c]
    PROVE  /\ \A i : Creates(c, i)' <=>
                 Creates(c, i) \/ (i = Len(journal[c]) + 1 /\ e.kind = "CREATED")
           /\ opened[c] \in Case => Read(c) \in Case /\ Read(c)' = Tell(Read(c), e)
<1> DEFINE s == journal[c]
<1>1. /\ s \in Seq(Entries) /\ Len(s) \in Nat /\ DOMAIN s = 1..Len(s)
  BY DEF Typed
<1>2. /\ DOMAIN journal'[c] = 1..(Len(s) + 1)
      /\ journal'[c][Len(s) + 1] = e /\ \A i \in 1..Len(s) : journal'[c][i] = s[i]
  BY <1>1
<1>3. \A i : i \in 1..(Len(s) + 1) <=> i \in 1..Len(s) \/ i = Len(s) + 1
  BY <1>1
<1>4. \A i : Creates(c, i)' <=>
                 Creates(c, i) \/ (i = Len(s) + 1 /\ e.kind = "CREATED")
  BY <1>1, <1>2, <1>3 DEF Creates
<1>5. ASSUME opened[c] \in Case
      PROVE  Read(c) \in Case /\ Read(c)' = Tell(Read(c), e)
  <2>1. Read(c)' = Replay(opened[c], Append(s, e)) /\ Read(c) = Replay(opened[c], s)
    BY DEF Read
  <2> HIDE DEF s
  <2> QED BY <1>1, <1>5, <2>1, ReplayAppend, ReplayTyped
<1> QED BY <1>4, <1>5

\* The entry of a request that tells nothing changes nothing of what the journal says.
LEMMA AppendQuiet ==
    ASSUME IInv, JournalInv, NEW c \in Cases, cases[c] # NoCase, NEW e \in Entries,
           journal'[c] = Append(journal[c], e), opened'[c] = opened[c],
           e.tells = Nothing, e.kind \notin {"CREATED", "ASSIGNED"}
    PROVE  (\A i : Creates(c, i)' <=> Creates(c, i)) /\ Read(c)' = Read(c)
<1>1. Read(c) \in Case /\ Read(c)' = Tell(Read(c), e)
  BY AppendEntry DEF IInv, JournalInv
<1>2. \A i : Creates(c, i)' <=> Creates(c, i)
  BY AppendEntry DEF IInv
<1> QED BY <1>1, <1>2, TellNothing

-----------------------------------------------------------------------------
(* One step, and what the journal says.                                    *)

\* A Case that a step does not touch stays as its journal says.
LEMMA CalmKept ==
    ASSUME NEW c, Calm(c), cases'[c] = cases[c],
           \A q \in Requests : Telling(q, c)' <=> Telling(q, c),
           \A q \in Requests : Telling(q, c) => requests'[q] = requests[q],
           \A i : Creates(c, i)' <=> Creates(c, i), Read(c)' = Read(c)
    PROVE  Calm(c)'
<1>1. /\ \A r, q \in Requests : Telling(r, c)' /\ Telling(q, c)' => r = q
      /\ \/ \E i : Creates(c, i)'
         \/ \E r \in Requests : Telling(r, c)' /\ requests'[r].entry.kind = "CREATED"
  BY DEF Calm
<1>2. (\A r \in Requests : ~Telling(r, c)') => Read(c)' = cases'[c]
  BY DEF Calm
<1>3. ASSUME NEW r \in Requests, Telling(r, c)'
      PROVE  /\ Tell(Read(c)', requests'[r].entry) = Leaves(requests[r], c)'
             /\ requests'[r].step = "initial" => cases'[c] = requests'[r].seen
  <2>1. Telling(r, c) /\ requests'[r] = requests[r]
    BY <1>3
  <2>2. Leaves(requests[r], c)' = Leaves(requests[r], c)
    BY <2>1 DEF Leaves
  <2> QED BY <2>1, <2>2 DEF Calm
<1> QED BY <1>1, <1>2, <1>3 DEF Calm, Tell, Changed

\* Request r moves to x; the others stay.
Moved(r, x) ==
    /\ requests' = [requests EXCEPT ![r] = x]
    /\ raced \subseteq raced' /\ blurred \subseteq blurred'

LEMMA MovedFacts ==
    ASSUME IInv, JournalInv, NEW r \in Requests, NEW x, Moved(r, x), x # Idle => Told(x)
    PROVE  /\ requests'[r] = x /\ \A q \in Requests \ {r} : requests'[q] = requests[q]
           /\ \A q \in Requests \ {r} : \A c : Telling(q, c)' <=> Telling(q, c)
           /\ \A q \in Requests : requests'[q] # Idle => Told(requests'[q])
<1>1. requests'[r] = x /\ \A q \in Requests \ {r} : requests'[q] = requests[q]
  BY DEF Moved, IInv, Typed
<1>2. \A q \in Requests \ {r} : \A c : Telling(q, c)' <=> Telling(q, c)
  BY <1>1 DEF Telling
<1> QED BY <1>1, <1>2 DEF JournalInv

\* A step that writes no row and tells nothing, by a request that has nothing to tell.
LEMMA QuietKeepsJournal ==
    ASSUME IInv, JournalInv, NEW r \in Requests, NEW x, Moved(r, x), x # Idle => Told(x),
           cases' = cases, opened' = opened,
           x.step \in {"initial", "record"} => x.write = Nothing,
           \A c \in Cases \ (raced' \cup blurred') : ~Telling(r, c),
           \/ journal' = journal
           \/ \E d \in Cases, e \in Entries :
                 /\ cases[d] # NoCase /\ journal' = [journal EXCEPT ![d] = Append(@, e)]
                 /\ e.tells = Nothing /\ e.kind \notin {"CREATED", "ASSIGNED"}
    PROVE  JournalInv'
<1>1. ASSUME NEW c \in Cases
      PROVE  /\ (\A i : Creates(c, i)' <=> Creates(c, i)) /\ Read(c)' = Read(c)
             /\ cases[c] = NoCase => journal'[c] = journal[c]
  <2>1. CASE journal'[c] = journal[c]
    BY <2>1, SameJournal
  <2>2. CASE journal'[c] # journal[c]
    <3> PICK d \in Cases, e \in Entries :
                 /\ cases[d] # NoCase /\ journal' = [journal EXCEPT ![d] = Append(@, e)]
                 /\ e.tells = Nothing /\ e.kind \notin {"CREATED", "ASSIGNED"}
      BY <2>2
    <3>1. d = c /\ journal'[c] = Append(journal[c], e)
      BY <2>2 DEF IInv, Typed
    <3> QED BY <3>1, AppendQuiet
  <2> QED BY <2>1, <2>2
<1>2. ASSUME NEW c \in Cases \ (raced' \cup blurred'), cases'[c] # NoCase PROVE Calm(c)'
  <2>1. c \notin raced \cup blurred /\ cases[c] # NoCase
    BY <1>2 DEF Moved
  <2>2. Calm(c) /\ ~Telling(r, c)
    BY <1>2, <2>1 DEF JournalInv
  <2>3. ~Telling(r, c)'
    BY MovedFacts DEF Telling
  <2>4. \A q \in Requests : Telling(q, c)' <=> Telling(q, c)
    BY <2>2, <2>3, MovedFacts
  <2>5. \A q \in Requests : Telling(q, c) => requests'[q] = requests[q]
    BY <2>2, MovedFacts
  <2> QED BY <1>1, <2>2, <2>4, <2>5, CalmKept
<1>3. \A c \in Cases : /\ cases'[c] = NoCase => journal'[c] = << >>
                       /\ cases'[c] # NoCase => opened'[c] \in Case
  BY <1>1 DEF JournalInv
<1> QED BY <1>2, <1>3, MovedFacts DEF JournalInv

\* A step about one Case by a request that writes it or tells of it.
LEMMA TellingKeepsJournal ==
    ASSUME IInv, JournalInv, NEW r \in Requests, NEW x, Moved(r, x), x # Idle => Told(x),
           NEW c \in Cases, NEW row \in Case, cases' = [cases EXCEPT ![c] = row],
           x # Idle => x.case = c, requests[r] # Idle => requests[r].case = c,
           \A d \in Cases \ {c} : journal'[d] = journal[d] /\ opened'[d] = opened[d],
           opened'[c] \in Case,
           c \notin raced' \cup blurred' => Calm(c)'
    PROVE  JournalInv'
<1>1. cases'[c] = row /\ row # NoCase /\ \A d \in Cases \ {c} : cases'[d] = cases[d]
  BY NoCaseIsNoRow DEF IInv, Typed
<1>2. ASSUME NEW d \in Cases \ (raced' \cup blurred'), d # c, cases'[d] # NoCase PROVE Calm(d)'
  <2>1. Calm(d) /\ cases'[d] = cases[d]
    BY <1>1, <1>2 DEF JournalInv, Moved
  <2>2. ~Telling(r, d)
    BY <1>2 DEF Telling, Idle
  <2>3. ~Telling(r, d)'
    BY <1>2, MovedFacts DEF Telling, Idle
  <2>4. \A q \in Requests : Telling(q, d)' <=> Telling(q, d)
    BY <2>2, <2>3, MovedFacts
  <2>5. \A q \in Requests : Telling(q, d) => requests'[q] = requests[q]
    BY <2>2, MovedFacts
  <2>6. /\ \A i : Creates(d, i)' <=> Creates(d, i)
        /\ Read(d)' = Read(d)
    BY <1>2, SameJournal
  <2> QED BY <2>1, <2>4, <2>5, <2>6, CalmKept
<1>3. \A d \in Cases : cases'[d] = NoCase => journal'[d] = << >>
  BY <1>1 DEF JournalInv
<1>4. \A d \in Cases : cases'[d] # NoCase => opened'[d] \in Case
  BY <1>1 DEF JournalInv
<1> QED BY <1>2, <1>3, <1>4, MovedFacts DEF JournalInv

\* The columns of a change that is not empty.
LEMMA SomeChange == ASSUME NEW w, NEW f \in DOMAIN w PROVE w # Nothing
BY DEF Nothing

\* A request that starts has written nothing yet.
LEMMA StartKeepsJournal ==
    ASSUME IInv, JournalInv, NEW r \in Requests, NEW c \in Cases, NEW at \in Steps, NEW w, NEW e,
           NEW d, Start(r, c, at, w, e, d),
           cases[c] \in Case => ToldBy(at, cases[c], w, e),
           at \in {"initial", "record"} => w = Nothing
    PROVE  JournalInv'
<1> DEFINE x == [step |-> at, case |-> c, seen |-> cases[c], write |-> w, entry |-> e,
                 decision |-> d]
<1>1. cases[c] \in Case
  BY DEF Start, IInv, Typed
<1>2. /\ requests' = [requests EXCEPT ![r] = x] /\ requests[r] = Idle
      /\ UNCHANGED <<cases, journal, opened, raced, blurred>>
  BY DEF Start, Serve, history
<1>3. /\ x.step = at /\ x.write = w /\ Told(x)
  BY <1>1 DEF Told
<1>4. \A b \in Cases : ~Telling(r, b)
  BY <1>2 DEF Telling, Idle
<1> HIDE DEF x
<1>5. Moved(r, x)
  BY <1>2 DEF Moved
<1> QED BY <1>2, <1>3, <1>4, <1>5, QuietKeepsJournal

LEMMA OpenKeepsJournal ==
    ASSUME IInv, JournalInv, NEW r \in Requests, NEW c \in Cases, NEW d \in Routes,
           NEW p \in BOOLEAN, NEW s \in InitialStatuses, NEW a \in Operators \cup {None},
           NEW o \in Objects, Open(r, c, d, p, s, a, o)
    PROVE  JournalInv'
<1> DEFINE row == [status |-> "NEW", assignee |-> None, route |-> d, critical |-> p,
                   closed |-> FALSE, object |-> o]
           added == [status |-> s, assignee |-> a]
           told == Changed(row, added)
           at == IF s # "NEW" \/ a # None THEN "initial" ELSE "record"
           e == Entry("CREATED", [route |-> d])
           x == [step |-> at, case |-> c, seen |-> row, write |-> added, entry |-> e,
                 decision |-> "NO_ACTION"]
<1>1. row \in Case /\ row.assignee = None
  BY DEF Case, CaseStatus
<1>2. added \in Changes /\ added # Nothing /\ DOMAIN added = {"status", "assignee"}
  <2>1. s \in CaseStatus
    BY InitialStatusesAssumption
  <2>2. added = [assignee |-> a, status |-> s] /\ DOMAIN added = {"status", "assignee"}
    OBVIOUS
  <2> HIDE DEF added
  <2> QED BY <2>1, <2>2, AssigningChange, SomeChange
<1>3. (at = "record" => told = row) /\ told.route = d
  BY DEF Changed
<1>4. /\ cases[c] = NoCase /\ cases' = [cases EXCEPT ![c] = row]
      /\ opened' = [opened EXCEPT ![c] = told]
      /\ requests' = [requests EXCEPT ![r] = x] /\ requests[r] = Idle
      /\ UNCHANGED <<journal, raced, blurred>>
  BY DEF Open, Serve
<1>5. at \in {"initial", "record"}
  OBVIOUS
<1>6. e.kind = "CREATED" /\ e.tells = [route |-> d]
  BY DEF Entry
<1> HIDE DEF e
<1>7. /\ x.step = at /\ x.case = c /\ x.seen = row /\ x.write = added
      /\ x.entry = e /\ x # Idle
  BY DEF Idle
<1> HIDE DEF row, added, at, x
<1>8. told \in Case /\ told = Changed(row, added)
  BY <1>1, <1>2, ChangedRow
<1> HIDE DEF told
<1>9. Told(x)
  BY <1>1, <1>2, <1>5, <1>6, <1>7 DEF Told, ToldBy
<1>10. Moved(r, x)
  BY <1>4 DEF Moved
<1>11. journal[c] = << >> /\ cases'[c] = row /\ opened'[c] = told
  BY <1>4 DEF JournalInv, IInv, Typed
<1>12. \A q \in Requests : ~Telling(q, c)
  BY <1>4 DEF IInv, RequestsSound, Telling, Idle
<1>13. Telling(r, c)' /\ requests'[r] = x
  BY <1>2, <1>5, <1>7, <1>9, <1>10, MovedFacts DEF Telling
<1>14. \A q \in Requests : Telling(q, c)' => q = r
  BY <1>9, <1>10, <1>12, MovedFacts
<1>15. Tell(Read(c)', e) = told
  <2>1. Read(c)' = told
    BY <1>4, <1>11, ReplayEmpty DEF Read
  <2> QED BY <1>3, <1>6, <1>8, <2>1, TellRoute
<1>16. (x.step = "initial" => cases'[c] = x.seen) /\ Leaves(requests[r], c)' = told
  BY <1>3, <1>5, <1>7, <1>8, <1>11, <1>13 DEF Leaves
<1>17. Calm(c)'
  <2>1. Tell(Read(c), requests[r].entry)' = Leaves(requests[r], c)'
    BY <1>7, <1>13, <1>15, <1>16 DEF Tell, Changed
  <2> QED BY <1>6, <1>7, <1>13, <1>14, <1>16, <2>1 DEF Calm
<1>18. \A b \in Cases \ {c} : journal'[b] = journal[b] /\ opened'[b] = opened[b]
  BY <1>4 DEF IInv, Typed
<1>19. /\ opened'[c] \in Case /\ cases' = [cases EXCEPT ![c] = row] /\ requests[r] = Idle
       /\ x.case = c
  BY <1>4, <1>7, <1>8, <1>11
<1> QED BY <1>1, <1>9, <1>10, <1>17, <1>18, <1>19, TellingKeepsJournal

\* What a rule adds to a row without an assignee.
LEMMA AddedRow ==
    ASSUME NEW row \in Case, row.assignee = None, NEW added,
           DOMAIN added = {"status", "assignee"}
    PROVE  [row EXCEPT !.status = added.status,
              !.assignee = IF added.assignee = None THEN @ ELSE added.assignee]
             = Changed(row, added)
<1>1. Changed(row, added) =
        [f \in DOMAIN row |-> IF f = "status" \/ f = "assignee" THEN added[f] ELSE row[f]]
  BY DEF Changed
<1> QED BY <1>1 DEF Case

LEMMA ApplyRuleKeepsJournal ==
    ASSUME IInv, JournalInv, NEW r \in Requests, ApplyRule(r) PROVE JournalInv'
<1> DEFINE q == requests[r]
           c == q.case
           added == q.write
           x == [q EXCEPT !.step = "record"]
           row == [cases[c] EXCEPT !.status = added.status,
                      !.assignee = IF added.assignee = None THEN @ ELSE added.assignee]
<1>1. q \in Flight /\ q # Idle /\ q.step = "initial"
  BY AtFlight DEF IInv, ApplyRule, At, Steps
<1>2. ToldBy("initial", q.seen, added, q.entry)
  BY <1>1 DEF JournalInv, Told
<1>3. /\ cases[c] # NoCase /\ c \in Cases /\ cases[c] \in Case /\ q.seen \in Case
      /\ added.status \in CaseStatus /\ added.assignee \in Operators \cup {None}
  BY <1>1 DEF IInv, RequestsSound, Sound, Flight, Typed
<1>4. cases' = [cases EXCEPT ![c] = row] /\ row \in Case
  BY <1>3 DEF ApplyRule, IInv, Typed, Case
<1>5. /\ x \in Flight /\ x.step = "record" /\ x.case = c /\ x.write = added
      /\ x.entry = q.entry /\ x # Idle
      /\ requests' = [requests EXCEPT ![r] = x]
  BY <1>1, GotoFacts DEF IInv, ApplyRule, Steps, Flight, Idle
<1>6. Told(x)
  BY <1>2, <1>5, SomeChange DEF Told, ToldBy
<1>7. /\ raced \subseteq raced' /\ UNCHANGED <<journal, opened, blurred>>
  BY DEF ApplyRule, Race
<1>8. cases[c] = q.seen => row = Changed(q.seen, added)
  BY <1>2, <1>3, AddedRow DEF ToldBy
<1> HIDE DEF row, x
<1>9. Moved(r, x)
  BY <1>5, <1>7 DEF Moved
<1>10. cases'[c] = row
  BY <1>3, <1>4 DEF IInv, Typed
<1>11. Telling(r, c) /\ Telling(r, c)' /\ requests'[r] = x
  BY <1>1, <1>2, <1>5, <1>6, <1>9, MovedFacts DEF Telling, ToldBy
<1>12. PICK b \in Cases : b = c
  BY <1>3
<1>13. ASSUME b \notin raced' \cup blurred' PROVE Calm(b)'
  <2>1. Calm(b) /\ Telling(r, b) /\ q.entry.kind = "CREATED"
    BY <1>2, <1>3, <1>7, <1>11, <1>12, <1>13 DEF JournalInv, ToldBy
  <2>2. cases[b] = q.seen /\ Tell(Read(b), q.entry) = Changed(q.seen, added)
    BY <1>1, <2>1 DEF Calm, Leaves
  <2>3. (\A i : Creates(b, i)' <=> Creates(b, i)) /\ Read(b)' = Read(b)
    BY <1>7, SameJournal
  <2>4. \A p \in Requests : Telling(p, b)' => p = r
    BY <1>6, <1>9, <2>1, MovedFacts DEF Calm
  <2>5. Telling(r, b)'
    BY <1>5, <1>11, <1>12 DEF Telling
  <2>6. Tell(Read(b), requests[r].entry)' = Leaves(requests[r], b)'
    <3>1. Leaves(requests[r], b)' = row
      BY <1>5, <1>10, <1>11, <1>12 DEF Leaves
    <3>2. Tell(Read(b)', x.entry) = row
      BY <1>5, <1>8, <1>12, <2>2, <2>3
    <3> QED BY <1>11, <3>1, <3>2 DEF Tell, Changed
  <2> QED BY <1>5, <1>11, <2>1, <2>4, <2>5, <2>6 DEF Calm
<1>14. opened'[b] \in Case
  BY <1>3, <1>7, <1>12 DEF JournalInv
<1> QED BY <1>4, <1>5, <1>6, <1>7, <1>9, <1>12, <1>13, <1>14, TellingKeepsJournal

LEMMA UpdateKeepsJournal ==
    ASSUME IInv, JournalInv, NEW r \in Requests, Update(r) PROVE JournalInv'
<1> DEFINE q == requests[r]
           c == q.case
           x == [q EXCEPT !.step = "record"]
           row == Changed(cases[c], q.write)
<1>1. q \in Flight /\ q # Idle /\ q.step = "write"
  BY AtFlight DEF IInv, Update, At, Steps
<1>2. ToldBy("write", q.seen, q.write, q.entry)
  BY <1>1 DEF JournalInv, Told
<1>3. cases[c] # NoCase /\ c \in Cases /\ cases[c] \in Case /\ q.seen \in Case
  BY <1>1 DEF IInv, RequestsSound, Flight, Typed
<1>4. cases' = [cases EXCEPT ![c] = row] /\ row \in Case
  BY <1>1, <1>3, ChangedRow DEF Update, Write, IInv, Typed, Flight
<1>5. /\ x \in Flight /\ x.step = "record" /\ x.case = c /\ x.write = q.write
      /\ x.entry = q.entry /\ x # Idle
      /\ requests' = [requests EXCEPT ![r] = x]
  BY <1>1, GotoFacts DEF IInv, Update, Steps, Flight, Idle
<1>6. Told(x)
  BY <1>2, <1>5 DEF Told, ToldBy
<1>7. raced \subseteq raced' /\ blurred \subseteq blurred' /\ UNCHANGED <<journal, opened>>
  BY DEF Update, Race
<1> HIDE DEF row, x
<1>8. Moved(r, x)
  BY <1>5, <1>7 DEF Moved
<1>9. cases'[c] = row
  BY <1>3, <1>4 DEF IInv, Typed
<1>10. requests'[r] = x /\ Telling(r, c)' /\ ~Telling(r, c)
  <2>1. requests'[r] = x
    BY <1>6, <1>8, MovedFacts
  <2>2. \A b : b = c => Telling(r, b)'
    BY <1>2, <1>5, <2>1 DEF Telling, ToldBy
  <2> QED BY <1>1, <1>5, <1>2, <2>1, <2>2 DEF Telling, ToldBy
<1>11. PICK b \in Cases : b = c
  BY <1>3
<1>12. ASSUME b \notin raced' \cup blurred' PROVE Calm(b)'
  <2>1. Calm(b)
    BY <1>3, <1>7, <1>11, <1>12 DEF JournalInv
  <2>2. \A p \in Requests : ~Telling(p, b)
    <3>1. ~Crosses(r)
      BY <1>11, <1>12 DEF Update
    <3> QED BY <1>10, <1>11, <3>1 DEF Crosses, Telling
  <2>3. Read(b) = cases[b]
    BY <2>1, <2>2 DEF Calm
  <2>4. "status" \in DOMAIN q.write => cases[b].status = q.seen.status
    BY <1>11, <1>12 DEF Update, Race
  <2>5. Tell(cases[b], q.entry) = row
    BY <1>2, <1>3, <1>11, <2>4, TellWrite DEF row
  <2>6. /\ \A i : Creates(b, i)' <=> Creates(b, i)
        /\ Read(b)' = Read(b)
    BY <1>7, SameJournal
  <2>7. \A p \in Requests : Telling(p, b)' => p = r
    BY <1>6, <1>8, <2>2, MovedFacts
  <2>8. \E i : Creates(b, i)
    BY <2>1, <2>2 DEF Calm
  <2>9. Telling(r, b)'
    BY <1>5, <1>10, <1>11 DEF Telling
  <2>10. Tell(Read(b), requests[r].entry)' = Leaves(requests[r], b)'
    <3>1. Leaves(requests[r], b)' = row
      BY <1>5, <1>9, <1>10, <1>11 DEF Leaves
    <3>2. Tell(Read(b)', x.entry) = row
      BY <1>5, <2>3, <2>5, <2>6
    <3> QED BY <1>10, <3>1, <3>2 DEF Tell, Changed
  <2> QED BY <1>5, <1>10, <2>6, <2>7, <2>8, <2>9, <2>10 DEF Calm
<1>13. opened'[b] \in Case
  BY <1>3, <1>7, <1>11 DEF JournalInv
<1> QED BY <1>4, <1>5, <1>6, <1>8, <1>7, <1>11, <1>12, <1>13, TellingKeepsJournal

\* The entry that a request had to tell is told.
LEMMA RecordEventKeepsJournal ==
    ASSUME IInv, JournalInv, NEW r \in Requests, RecordEvent(r) PROVE JournalInv'
<1> DEFINE q == requests[r]
           e == q.entry
<1>1. q \in Flight /\ q # Idle /\ q.step = "record" /\ q.write \in Changes /\ e \in Entries
  BY AtFlight DEF IInv, RecordEvent, At, Steps, Flight
<1>2. ToldBy("record", q.seen, q.write, e)
  BY <1>1 DEF JournalInv, Told
<1>3. PICK c \in Cases : c = q.case
  BY <1>1 DEF Flight
<1>4. cases[c] # NoCase /\ cases[c] \in Case
  BY <1>1, <1>3 DEF IInv, RequestsSound, Typed
<1>5. /\ journal' = [journal EXCEPT ![c] = Append(@, e)]
      /\ requests' = [requests EXCEPT ![r] = Idle]
      /\ UNCHANGED <<cases, opened, raced, blurred>>
  BY <1>3 DEF RecordEvent, Finish, history
<1>6. Moved(r, Idle) /\ Idle.step \notin {"initial", "record"}
  BY <1>5 DEF Moved, Idle
<1>7. CASE q.write = Nothing
  <2>1. e.tells = Nothing /\ e.kind \notin {"CREATED", "ASSIGNED"}
    BY <1>2, <1>7 DEF ToldBy
  <2>2. \A b : ~Telling(r, b)
    BY <1>7 DEF Telling
  <2> QED BY <1>1, <1>4, <1>5, <1>6, <2>1, <2>2, QuietKeepsJournal
<1>8. CASE q.write # Nothing
  <2>1. Telling(r, c)
    BY <1>1, <1>3, <1>8 DEF Telling
  <2>2. /\ journal'[c] = Append(journal[c], e) /\ opened'[c] = opened[c]
        /\ \A d \in Cases \ {c} : journal'[d] = journal[d] /\ opened'[d] = opened[d]
    BY <1>5 DEF IInv, Typed
  <2> HIDE DEF q
  <2>3. opened'[c] \in Case
    BY <1>4, <1>5 DEF JournalInv
  <2>4. ASSUME c \notin raced' \cup blurred' PROVE Calm(c)'
    <3>1. Calm(c)
      BY <1>4, <1>5, <2>4 DEF JournalInv
    <3>2. \A p \in Requests : ~Telling(p, c)'
      <4>1. ~Telling(r, c)'
        BY <1>6, MovedFacts DEF Telling
      <4>2. \A p \in Requests \ {r} : ~Telling(p, c)
        BY <2>1, <3>1 DEF Calm
      <4> QED BY <1>6, <4>1, <4>2, MovedFacts
    <3>3. \E i : Creates(c, i)'
      <4>1. PICK n : n = Len(journal[c]) + 1
        OBVIOUS
      <4>2. \A i : Creates(c, i)' <=> Creates(c, i) \/ (i = n /\ e.kind = "CREATED")
        BY <1>1, <2>2, <4>1, AppendEntry DEF IInv
      <4>3. (\E i : Creates(c, i)) \/ e.kind = "CREATED"
        BY <2>1, <3>1 DEF Calm, q
      <4> QED BY <4>2, <4>3
    <3>4. Read(c)' = cases[c]
      <4>1. Read(c)' = Tell(Read(c), e)
        BY <1>1, <1>4, <2>2, AppendEntry DEF IInv, JournalInv
      <4>2. Tell(Read(c), e) = cases[c]
        BY <1>1, <2>1, <3>1 DEF Calm, Leaves, q
      <4> QED BY <4>1, <4>2
    <3> QED BY <1>5, <3>2, <3>3, <3>4 DEF Calm
  <2>5. cases' = [cases EXCEPT ![c] = cases[c]]
    BY <1>5 DEF IInv, Typed
  <2>6. q # Idle /\ q.case = c
    BY <1>1, <1>3 DEF q
  <2> QED BY <1>4, <1>6, <2>2, <2>3, <2>4, <2>5, <2>6, TellingKeepsJournal DEF q
<1> QED BY <1>7, <1>8

\* The answer of the requester tells nothing of the row.
LEMMA RecordReplyKeepsJournal ==
    ASSUME IInv, JournalInv, NEW r \in Requests, RecordReply(r) PROVE JournalInv'
<1> DEFINE q == requests[r]
           e == Entry("REPLY", Nothing)
           x == IF Resumes(q.seen.status) THEN [q EXCEPT !.step = "write"] ELSE Idle
<1>1. q \in Flight /\ q # Idle /\ q.step = "comment"
  BY AtFlight DEF IInv, RecordReply, At, Steps
<1>2. ToldBy("comment", q.seen, q.write, q.entry)
  BY <1>1 DEF JournalInv, Told
<1>3. PICK c \in Cases : c = q.case /\ cases[c] # NoCase
  BY <1>1 DEF Flight, IInv, RequestsSound
<1>4. /\ journal' = [journal EXCEPT ![c] = Append(@, e)]
      /\ UNCHANGED <<cases, opened, blurred>> /\ raced \subseteq raced'
  BY <1>3 DEF RecordReply, Race
<1>5. e \in Entries /\ e.tells = Nothing /\ e.kind \notin {"CREATED", "ASSIGNED"}
  BY NoChange DEF Entry, Entries, Kinds
<1>6. requests' = [requests EXCEPT ![r] = x]
  BY <1>1, GotoFacts DEF IInv, RecordReply, Finish, Steps
<1>7. (x # Idle => Told(x)) /\ x.step \in {"idle", "write"}
  <2>1. LET y == [q EXCEPT !.step = "write"]
        IN  y.step = "write" /\ y.seen = q.seen /\ y.write = q.write /\ y.entry = q.entry
    BY <1>1 DEF Flight
  <2>2. ToldBy("write", q.seen, q.write, q.entry)
    BY <1>2 DEF ToldBy
  <2> QED BY <2>1, <2>2 DEF Told, Idle
<1>8. \A b : ~Telling(r, b)
  BY <1>1 DEF Telling
<1> HIDE DEF x, e
<1>9. Moved(r, x)
  BY <1>4, <1>6 DEF Moved
<1> QED BY <1>3, <1>4, <1>5, <1>7, <1>8, <1>9, QuietKeepsJournal

\* A moderation decision writes no row.
LEMMA DecisionKeepsJournal ==
    ASSUME IInv, JournalInv, NEW r \in Requests, NEW at \in {"log", "record"},
           At(r, "effect") \/ At(r, "log"), Goto(r, at),
           UNCHANGED <<cases, journal, opened, raced, blurred>>
    PROVE  JournalInv'
<1> DEFINE q == requests[r]
           x == [q EXCEPT !.step = at]
<1>1. q \in Flight /\ q # Idle /\ q.step \in {"effect", "log"}
  BY AtFlight DEF IInv, At, Steps
<1>2. ToldBy(q.step, q.seen, q.write, q.entry) /\ q.write = Nothing
  BY <1>1 DEF JournalInv, Told, ToldBy
<1>3. /\ requests' = [requests EXCEPT ![r] = x] /\ x.step = at /\ x.seen = q.seen
      /\ x.write = q.write /\ x.entry = q.entry
  <2>1. at \in Steps
    BY DEF Steps
  <2>2. /\ requests' = [requests EXCEPT ![r] = x] /\ x.step = at /\ x.seen = q.seen
        /\ x.write = q.write
    BY <1>1, <2>1, GotoFacts DEF IInv
  <2>3. x.entry = q.entry
    BY <1>1 DEF Flight
  <2> QED BY <2>2, <2>3
<1>4. Told(x)
  BY <1>1, <1>2, <1>3 DEF Told, ToldBy
<1>5. \A b : ~Telling(r, b)
  BY <1>2 DEF Telling
<1> HIDE DEF x
<1>6. Moved(r, x)
  BY <1>3 DEF Moved
<1> QED BY <1>2, <1>3, <1>4, <1>5, <1>6, QuietKeepsJournal

\* What is lost before it is told leaves a Case that its journal does not tell.
LEMMA LoseRequestKeepsJournal ==
    ASSUME IInv, JournalInv, NEW r \in Requests, LoseRequest(r) PROVE JournalInv'
<1>1. /\ requests' = [requests EXCEPT ![r] = Idle] /\ UNCHANGED <<cases, journal, opened>>
      /\ raced' = raced /\ blurred \subseteq blurred'
      /\ \A c : Telling(r, c) => c \in blurred'
  BY DEF LoseRequest, Finish, Telling
<1>2. Moved(r, Idle) /\ Idle.step \notin {"initial", "record"}
  BY <1>1 DEF Moved, Idle
<1> QED BY <1>1, <1>2, QuietKeepsJournal

LEMMA BeginKeepsJournal ==
    ASSUME IInv, JournalInv, NEW r \in Requests, Begin(r) PROVE JournalInv'
<1> PICK c \in Cases :
       \/ \E d \in Routes, p \in BOOLEAN, s \in InitialStatuses, a \in Operators \cup {None},
             o \in Objects : Open(r, c, d, p, s, a, o)
       \/ \E a \in Operators : Assign(r, c, a)
       \/ \E to \in CaseStatus : ChangeStatus(r, c, to)
       \/ \E d \in CatalogueRoutes : Reroute(r, c, d)
       \/ \E p \in BOOLEAN : ChangePriority(r, c, p)
       \/ Escalate(r, c) \/ AddComment(r, c) \/ AddRequesterComment(r, c)
       \/ \E d \in MODERATION_DECISIONS : Decide(r, c, d)
  BY DEF Begin
<1>1. ASSUME NEW a \in Operators, Assign(r, c, a) PROVE JournalInv'
  <2> DEFINE w == [assignee |-> a, status |-> AssignedStatus(cases[c].status)]
             e == Entry("ASSIGNED", [assignee |-> a])
  <2>1. e.kind = "ASSIGNED" /\ e.tells = [assignee |-> a] /\ "status" \in DOMAIN w
    BY DEF Entry
  <2>2. Start(r, c, "write", w, e, "NO_ACTION")
    BY <1>1 DEF Assign
  <2>3. w = [assignee |-> a, status |-> AssignedStatus(cases[c].status)]
    OBVIOUS
  <2> HIDE DEF w, e
  <2>4. ToldBy("write", cases[c], w, e)
    BY <2>1, <2>3, SomeChange DEF ToldBy
  <2> QED BY <2>2, <2>4, StartKeepsJournal DEF Steps
<1>2. ASSUME NEW w, NEW f \in DOMAIN w, NEW k \in {"STATUS_CHANGED", "REROUTED",
                "PRIORITY_CHANGED", "ESCALATED"},
             "status" \in DOMAIN w => k = "STATUS_CHANGED",
             Start(r, c, "write", w, Entry(k, w), "NO_ACTION")
      PROVE  JournalInv'
  <2>1. Entry(k, w).kind = k /\ Entry(k, w).tells = w
    BY DEF Entry
  <2>2. ToldBy("write", cases[c], w, Entry(k, w))
    BY <1>2, <2>1, SomeChange DEF ToldBy
  <2> QED BY <1>2, <2>2, StartKeepsJournal DEF Steps
<1>3. ASSUME NEW to, ChangeStatus(r, c, to) PROVE JournalInv'
  <2> DEFINE w == IF to = "CLOSED" THEN [status |-> to, closed |-> TRUE] ELSE [status |-> to]
  <2>1. Start(r, c, "write", w, Entry("STATUS_CHANGED", w), "NO_ACTION") /\ "status" \in DOMAIN w
    BY <1>3 DEF ChangeStatus
  <2> HIDE DEF w
  <2> QED BY <1>2, <2>1
<1>4. ASSUME NEW d, Reroute(r, c, d) PROVE JournalInv'
  <2> DEFINE w == [route |-> d, assignee |-> None]
  <2>1. /\ Start(r, c, "write", w, Entry("REROUTED", w), "NO_ACTION")
        /\ "route" \in DOMAIN w /\ "status" \notin DOMAIN w
    BY <1>4 DEF Reroute
  <2> HIDE DEF w
  <2> QED BY <1>2, <2>1
<1>5. ASSUME NEW p, NEW k \in {"PRIORITY_CHANGED", "ESCALATED"},
             Start(r, c, "write", [critical |-> p], Entry(k, [critical |-> p]), "NO_ACTION")
      PROVE  JournalInv'
  <2> DEFINE w == [critical |-> p]
  <2>1. /\ Start(r, c, "write", w, Entry(k, w), "NO_ACTION")
        /\ "critical" \in DOMAIN w /\ "status" \notin DOMAIN w
    BY <1>5
  <2> HIDE DEF w
  <2> QED BY <1>2, <2>1
<1>6. ASSUME NEW at \in {"record", "log", "effect"}, NEW k \in {"COMMENT", "MODERATION_DECISION"},
             NEW d, Start(r, c, at, Nothing, Entry(k, Nothing), d)
      PROVE  JournalInv'
  <2>1. Entry(k, Nothing).kind = k /\ Entry(k, Nothing).tells = Nothing
    BY DEF Entry
  <2>2. ToldBy(at, cases[c], Nothing, Entry(k, Nothing))
    BY <2>1 DEF ToldBy
  <2> QED BY <1>6, <2>2, StartKeepsJournal DEF Steps
<1>7. AddRequesterComment(r, c) => JournalInv'
  <2> DEFINE w == [status |-> "IN_PROGRESS"]
             e == Entry("STATUS_CHANGED", w)
  <2>1. /\ AddRequesterComment(r, c) => Start(r, c, "comment", w, e, "NO_ACTION")
        /\ "status" \in DOMAIN w /\ DOMAIN w = {"status"}
        /\ e.kind = "STATUS_CHANGED" /\ e.tells = w
    BY DEF AddRequesterComment, Entry
  <2> HIDE DEF w, e
  <2>2. ToldBy("comment", cases[c], w, e)
    BY <2>1, SomeChange DEF ToldBy
  <2> QED BY <2>1, <2>2, StartKeepsJournal DEF Steps
<1>8. ASSUME NEW d, Decide(r, c, d) PROVE JournalInv'
  <2> DEFINE at == IF d = "NO_ACTION" THEN "log" ELSE "effect"
  <2>1. at \in {"log", "effect"}
    OBVIOUS
  <2>2. Start(r, c, at, Nothing, Entry("MODERATION_DECISION", Nothing), d)
    BY <1>8 DEF Decide
  <2> HIDE DEF at
  <2> QED BY <1>6, <2>1, <2>2
<1> QED BY <1>1, <1>3, <1>4, <1>5, <1>6, <1>7, <1>8, OpenKeepsJournal
       DEF ChangePriority, Escalate, AddComment

LEMMA NextKeepsJournal == ASSUME IInv, JournalInv, [Next]_vars PROVE JournalInv'
<1>1. ASSUME NEW r \in Requests, ApplyEffect(r) \/ RecordLog(r) PROVE JournalInv'
  BY <1>1, DecisionKeepsJournal DEF ApplyEffect, RecordLog, history
<1>2. ASSUME NEW r \in Requests, Continue(r) PROVE JournalInv'
  BY <1>1, <1>2, ApplyRuleKeepsJournal, UpdateKeepsJournal, RecordEventKeepsJournal,
     RecordReplyKeepsJournal DEF Continue
<1>3. CASE UNCHANGED vars
  BY <1>3 DEF JournalInv, Calm, Telling, Creates, Read, Leaves, vars, history
<1> QED BY <1>2, <1>3, BeginKeepsJournal, LoseRequestKeepsJournal DEF Next

\* Who has written a Case and not told it is told apart, and what the journal gives is known.
THEOREM JournalInductive == Spec => []JournalInv
<1>1. Init => JournalInv
  BY DEF Init, JournalInv, Creates
<1>2. IInv /\ JournalInv /\ [Next]_vars => JournalInv'
  BY NextKeepsJournal
<1> QED BY <1>1, <1>2, Inductive, PTL DEF Spec

\* CASE-006: with no request about it under way, the journal of a Case says that it was
\* created, and its entries, told on the row as it was opened, give the row, unless a request
\* acted on a status that had changed, wrote between another's write and its entry, or was lost.
THEOREM ChangesAreTold == Spec => []JournalTellsChanges
<1>1. IInv /\ JournalInv => JournalTellsChanges
  <2> SUFFICES ASSUME IInv, JournalInv, NEW c \in Cases \ (raced \cup blurred),
                      cases[c] # NoCase, InFlight(c) = {}
               PROVE  /\ \E i \in DOMAIN journal[c] : journal[c][i].kind = "CREATED"
                      /\ Replay(opened[c], journal[c]) = cases[c]
    BY DEF JournalTellsChanges
  <2>1. \A r \in Requests : ~Telling(r, c)
    BY DEF InFlight, Telling, Idle
  <2>2. Calm(c)
    BY DEF JournalInv
  <2> QED BY <2>1, <2>2 DEF Calm, Creates, Read
<1> QED BY <1>1, Inductive, JournalInductive, PTL

-----------------------------------------------------------------------------
(* The answers of the requester.                                           *)

\* Request r changes the status of Case c, or is to tell of it, after the answers there are.
Moving(r, c) ==
    /\ requests[r].step \in {"initial", "write", "record"} /\ requests[r].case = c
    /\ requests[r].entry.kind \in {"CREATED", "STATUS_CHANGED"}

AnswerInv ==
    \A c \in Cases \ (raced \cup blurred) :
       Answered(c) /\ cases[c].status \in WAITING_STATES => \E r \in Requests : Moving(r, c)

\* An entry added to the journal is after every answer there is.
LEMMA AppendAnswered ==
    ASSUME Typed, NEW c \in Cases, NEW e, journal'[c] = Append(journal[c], e)
    PROVE  Answered(c)' => \/ e.kind = "REPLY"
                           \/ Answered(c) /\ e.kind \notin {"CREATED", "STATUS_CHANGED"}
<1>1. /\ Len(journal[c]) \in Nat /\ DOMAIN journal[c] = 1..Len(journal[c])
      /\ DOMAIN journal'[c] = 1..(Len(journal[c]) + 1)
      /\ journal'[c][Len(journal[c]) + 1] = e
      /\ \A i \in 1..Len(journal[c]) : journal'[c][i] = journal[c][i]
  BY DEF Typed
<1>2. PICK n \in Nat : n = Len(journal[c])
  BY <1>1
<1>3. SUFFICES ASSUME Answered(c)', e.kind # "REPLY"
               PROVE  Answered(c) /\ e.kind \notin {"CREATED", "STATUS_CHANGED"}
  OBVIOUS
<1>4. PICK i \in 1..(n + 1) :
         /\ journal'[c][i].kind = "REPLY"
         /\ \A j \in 1..(n + 1) : j > i => journal'[c][j].kind \notin {"CREATED", "STATUS_CHANGED"}
  BY <1>1, <1>2, <1>3 DEF Answered
<1>5. i # n + 1
  BY <1>1, <1>2, <1>3, <1>4
<1>6. i \in 1..n /\ n + 1 \in 1..(n + 1) /\ n + 1 > i
  BY <1>5
<1>7. e.kind \notin {"CREATED", "STATUS_CHANGED"}
  BY <1>1, <1>2, <1>4, <1>6
<1>8. \A j \in 1..n : j \in 1..(n + 1) /\ journal'[c][j] = journal[c][j]
  BY <1>1, <1>2
<1>9. Answered(c)
  BY <1>1, <1>2, <1>4, <1>6, <1>8 DEF Answered
<1> QED BY <1>7, <1>9

\* A step that adds no answer, and after which the requests that move a status still do.
LEMMA StillAnswered ==
    ASSUME IInv, AnswerInv, NEW c \in Cases \ (raced' \cup blurred'),
           raced \subseteq raced', blurred \subseteq blurred',
           Answered(c)' => Answered(c),
           cases'[c].status \in WAITING_STATES => cases[c].status \in WAITING_STATES,
           \A q \in Requests : Moving(q, c) => Moving(q, c)'
    PROVE  Answered(c)' /\ cases'[c].status \in WAITING_STATES => \E r \in Requests : Moving(r, c)'
BY DEF AnswerInv

\* What is left of the answers of a Case whose row and journal a step by request r leaves alone.
LEMMA QuietAnswered ==
    ASSUME IInv, AnswerInv, NEW c \in Cases \ (raced' \cup blurred'),
           raced \subseteq raced', blurred \subseteq blurred', NEW r \in Requests, NEW x,
           requests' = [requests EXCEPT ![r] = x], ~Moving(r, c),
           journal'[c] = journal[c], cases'[c] = cases[c]
    PROVE  Answered(c)' /\ cases'[c].status \in WAITING_STATES =>
                \E q \in Requests : Moving(q, c)'
<1>1. Answered(c)' => Answered(c)
  BY DEF Answered
<1>2. \A q \in Requests \ {r} : requests'[q] = requests[q]
  BY DEF IInv, Typed
<1>3. \A q \in Requests : Moving(q, c) => Moving(q, c)'
  BY <1>2 DEF Moving
<1> QED BY <1>1, <1>3, StillAnswered

\* A request that starts leaves the journals and every row there was.
Started(r) ==
    /\ requests[r] = Idle /\ UNCHANGED <<journal, raced, blurred>>
    /\ \E x : requests' = [requests EXCEPT ![r] = x]
    /\ \A c \in Cases : cases[c] # NoCase => cases'[c] = cases[c]

LEMMA BeginStarts == ASSUME IInv, NEW r \in Requests, Begin(r) PROVE Started(r)
<1>1. ASSUME NEW c, NEW at, NEW w, NEW e, NEW d, Start(r, c, at, w, e, d) PROVE Started(r)
  <2>1. \E x : requests' = [requests EXCEPT ![r] = x]
    BY <1>1, Zenon DEF Start
  <2> QED BY <1>1, <2>1 DEF Start, Started, Serve, history
<1>2. ASSUME NEW c \in Cases, NEW d, NEW p, NEW s, NEW a, NEW o, Open(r, c, d, p, s, a, o)
      PROVE  Started(r)
  <2>1. \E x : requests' = [requests EXCEPT ![r] = x]
    BY <1>2, Zenon DEF Open
  <2>2. /\ requests[r] = Idle /\ UNCHANGED <<journal, raced, blurred>>
        /\ cases[c] = NoCase /\ \E row : cases' = [cases EXCEPT ![c] = row]
    BY <1>2 DEF Open, Serve, history
  <2> QED BY <2>1, <2>2 DEF Started, IInv, Typed
<1> QED BY <1>1, <1>2 DEF Begin, Assign, ChangeStatus, Reroute, ChangePriority, Escalate,
       AddComment, AddRequesterComment, Decide

LEMMA BeginKeepsAnswer ==
    ASSUME IInv, JournalInv, AnswerInv, NEW r \in Requests, Begin(r) PROVE AnswerInv'
<1>1. Started(r)
  BY BeginStarts
<1>2. PICK x : requests' = [requests EXCEPT ![r] = x]
  BY <1>1 DEF Started
<1>3. /\ requests[r] = Idle /\ UNCHANGED <<journal, raced, blurred>>
      /\ \A c \in Cases : cases[c] # NoCase => cases'[c] = cases[c]
  BY <1>1 DEF Started
<1>4. ASSUME NEW c \in Cases \ (raced' \cup blurred')
      PROVE  Answered(c)' /\ cases'[c].status \in WAITING_STATES =>
                \E q \in Requests : Moving(q, c)'
  <2>1. CASE cases[c] = NoCase
    <3>1. ~Answered(c)'
      BY <1>3, <2>1 DEF JournalInv, Answered
    <3> QED BY <3>1
  <2>2. CASE cases[c] # NoCase
    <3>1. ~Moving(r, c)
      BY <1>3 DEF Moving, Idle
    <3> QED BY <1>2, <1>3, <1>4, <2>2, <3>1, QuietAnswered
  <2> QED BY <2>1, <2>2
<1> QED BY <1>4 DEF AnswerInv

LEMMA ApplyRuleKeepsAnswer ==
    ASSUME IInv, JournalInv, AnswerInv, NEW r \in Requests, ApplyRule(r) PROVE AnswerInv'
<1> DEFINE q == requests[r]
           x == [q EXCEPT !.step = "record"]
<1>1. q \in Flight /\ q # Idle /\ q.step = "initial"
  BY AtFlight DEF IInv, ApplyRule, At, Steps
<1>2. q.entry.kind = "CREATED"
  BY <1>1 DEF JournalInv, Told, ToldBy
<1>3. /\ x.step = "record" /\ x.case = q.case /\ x.entry = q.entry
      /\ requests' = [requests EXCEPT ![r] = x]
  BY <1>1, GotoFacts DEF IInv, ApplyRule, Steps, Flight
<1>4. raced \subseteq raced' /\ UNCHANGED <<journal, blurred>>
  BY DEF ApplyRule, Race
<1>5. \A c \in Cases \ {q.case} : cases'[c] = cases[c]
  BY <1>1 DEF ApplyRule, IInv, Typed
<1> HIDE DEF x
<1>6. ASSUME NEW c \in Cases \ (raced' \cup blurred')
      PROVE  Answered(c)' /\ cases'[c].status \in WAITING_STATES =>
                \E p \in Requests : Moving(p, c)'
  <2>1. CASE c = q.case
    <3>1. requests'[r] = x
      BY <1>3 DEF IInv, Typed
    <3>2. Moving(r, c)'
      BY <1>2, <1>3, <2>1, <3>1 DEF Moving
    <3> QED BY <3>2
  <2>2. CASE c # q.case
    <3>1. ~Moving(r, c)
      BY <2>2 DEF Moving
    <3> QED BY <1>3, <1>4, <1>5, <1>6, <2>2, <3>1, QuietAnswered
  <2> QED BY <2>1, <2>2
<1> QED BY <1>6 DEF AnswerInv

LEMMA UpdateKeepsAnswer ==
    ASSUME IInv, JournalInv, AnswerInv, NEW r \in Requests, Update(r) PROVE AnswerInv'
<1> DEFINE q == requests[r]
           x == [q EXCEPT !.step = "record"]
<1>1. q \in Flight /\ q # Idle /\ q.step = "write"
  BY AtFlight DEF IInv, Update, At, Steps
<1>2. ToldBy("write", q.seen, q.write, q.entry)
  BY <1>1 DEF JournalInv, Told
<1>3. /\ x.step = "record" /\ x.case = q.case /\ x.entry = q.entry
      /\ requests' = [requests EXCEPT ![r] = x]
  BY <1>1, GotoFacts DEF IInv, Update, Steps, Flight
<1>4. raced \subseteq raced' /\ blurred \subseteq blurred' /\ journal' = journal
  BY DEF Update, Race
<1>5. \A c \in Cases \ {q.case} : cases'[c] = cases[c]
  BY <1>1 DEF Update, Write, IInv, Typed
<1> HIDE DEF x
<1>6. ASSUME NEW c \in Cases \ (raced' \cup blurred')
      PROVE  Answered(c)' /\ cases'[c].status \in WAITING_STATES =>
                \E p \in Requests : Moving(p, c)'
  <2>1. CASE c = q.case
    <3>1. requests'[r] = x /\ \A p \in Requests \ {r} : requests'[p] = requests[p]
      BY <1>3 DEF IInv, Typed
    <3>2. CASE Moving(r, c)
      <4>1. Moving(r, c)'
        BY <1>3, <2>1, <3>1, <3>2 DEF Moving
      <4> QED BY <4>1
    <3>3. CASE ~Moving(r, c)
      <4>1. q.entry.kind \notin {"CREATED", "STATUS_CHANGED"}
        BY <1>1, <2>1, <3>3 DEF Moving
      <4>2. /\ cases[c] \in Case /\ q.write \in Changes
            /\ cases'[c] = Changed(cases[c], q.write)
        BY <1>1, <2>1 DEF IInv, Typed, RequestsSound, Flight, Update, Write
      <4>3. cases'[c].status \in WAITING_STATES => cases[c].status \in WAITING_STATES
        <5>1. CASE "status" \notin DOMAIN q.write
          BY <4>2, <5>1, ChangedRow
        <5>2. CASE "status" \in DOMAIN q.write
          <6>1. cases[c].status = q.seen.status
            BY <1>6, <2>1, <5>2 DEF Update, Race
          <6>2. q.write.status = AssignedStatus(q.seen.status)
            <7>1. q.entry.kind = "ASSIGNED"
              BY <1>2, <4>1, <5>2 DEF ToldBy
            <7>2. PICK a : q.write = [assignee |-> a, status |-> AssignedStatus(q.seen.status)]
              BY <1>2, <7>1 DEF ToldBy
            <7> QED BY <7>2
          <6>3. cases'[c].status = AssignedStatus(cases[c].status)
            BY <4>2, <5>2, <6>1, <6>2, ChangedRow
          <6> QED BY <6>3 DEF AssignedStatus, WAITING_STATES
        <5> QED BY <5>1, <5>2
      <4>4. Answered(c)' => Answered(c)
        BY <1>4 DEF Answered
      <4>5. \A p \in Requests : Moving(p, c) => Moving(p, c)'
        BY <3>1, <3>3 DEF Moving
      <4> QED BY <1>4, <1>6, <4>3, <4>4, <4>5, StillAnswered
    <3> QED BY <3>2, <3>3
  <2>2. CASE c # q.case
    <3>1. ~Moving(r, c)
      BY <2>2 DEF Moving
    <3> QED BY <1>3, <1>4, <1>5, <1>6, <2>2, <3>1, QuietAnswered
  <2> QED BY <2>1, <2>2
<1> QED BY <1>6 DEF AnswerInv

LEMMA RecordEventKeepsAnswer ==
    ASSUME IInv, JournalInv, AnswerInv, NEW r \in Requests, RecordEvent(r) PROVE AnswerInv'
<1> DEFINE q == requests[r]
           e == q.entry
<1>1. q \in Flight /\ q # Idle /\ q.step = "record"
  BY AtFlight DEF IInv, RecordEvent, At, Steps
<1>2. e.kind # "REPLY"
  BY <1>1 DEF JournalInv, Told, ToldBy
<1>3. /\ requests' = [requests EXCEPT ![r] = Idle] /\ UNCHANGED <<cases, raced, blurred>>
      /\ journal' = [journal EXCEPT ![q.case] = Append(@, e)]
  BY DEF RecordEvent, Finish, history
<1>4. ASSUME NEW c \in Cases \ (raced' \cup blurred')
      PROVE  Answered(c)' /\ cases'[c].status \in WAITING_STATES =>
                \E p \in Requests : Moving(p, c)'
  <2>1. CASE c = q.case
    <3>1. journal'[c] = Append(journal[c], e)
      BY <1>3, <2>1 DEF IInv, Typed
    <3>2. Answered(c)' => Answered(c) /\ e.kind \notin {"CREATED", "STATUS_CHANGED"}
      BY <1>2, <3>1, AppendAnswered DEF IInv
    <3>3. CASE e.kind \in {"CREATED", "STATUS_CHANGED"}
      BY <3>2, <3>3
    <3>4. CASE e.kind \notin {"CREATED", "STATUS_CHANGED"}
      <4>1. ~Moving(r, c) /\ \A p \in Requests \ {r} : requests'[p] = requests[p]
        BY <1>3, <3>4 DEF Moving, IInv, Typed
      <4>2. \A p \in Requests : Moving(p, c) => Moving(p, c)'
        BY <4>1 DEF Moving
      <4> QED BY <1>3, <1>4, <3>2, <4>2, StillAnswered
    <3> QED BY <3>3, <3>4
  <2>2. CASE c # q.case
    <3>1. ~Moving(r, c) /\ journal'[c] = journal[c]
      BY <1>3, <2>2 DEF Moving, IInv, Typed
    <3> QED BY <1>3, <1>4, <3>1, QuietAnswered
  <2> QED BY <2>1, <2>2
<1> QED BY <1>4 DEF AnswerInv

\* The answer to a Case that waits relaunches it.
LEMMA RecordReplyKeepsAnswer ==
    ASSUME IInv, JournalInv, AnswerInv, NEW r \in Requests, RecordReply(r) PROVE AnswerInv'
<1> DEFINE q == requests[r]
           x == IF Resumes(q.seen.status) THEN [q EXCEPT !.step = "write"] ELSE Idle
<1>1. q \in Flight /\ q # Idle /\ q.step = "comment"
  BY AtFlight DEF IInv, RecordReply, At, Steps
<1>2. q.entry.kind = "STATUS_CHANGED"
  BY <1>1 DEF JournalInv, Told, ToldBy
<1>3. requests' = [requests EXCEPT ![r] = x]
  BY <1>1, GotoFacts DEF IInv, RecordReply, Finish, Steps
<1>4. Resumes(q.seen.status) => x.step = "write" /\ x.case = q.case /\ x.entry = q.entry
  BY <1>1 DEF Flight
<1>5. q.seen.status \in WAITING_STATES => Resumes(q.seen.status)
  BY DEF Resumes, WAITING_STATES, CanTransition, ALLOWED_TRANSITIONS
<1>6. /\ raced \subseteq raced' /\ UNCHANGED <<cases, blurred>>
      /\ \A c \in Cases \ {q.case} : journal'[c] = journal[c]
  BY DEF RecordReply, Race, IInv, Typed
<1> HIDE DEF x
<1>7. ASSUME NEW c \in Cases \ (raced' \cup blurred')
      PROVE  Answered(c)' /\ cases'[c].status \in WAITING_STATES =>
                \E p \in Requests : Moving(p, c)'
  <2>1. CASE c = q.case
    <3>1. cases'[c].status = q.seen.status
      BY <1>6, <1>7, <2>1 DEF RecordReply, Race
    <3>2. ASSUME Resumes(q.seen.status) PROVE Moving(r, c)'
      <4>1. requests'[r] = x
        BY <1>3 DEF IInv, Typed
      <4> QED BY <1>2, <1>4, <2>1, <3>2, <4>1 DEF Moving
    <3> QED BY <1>5, <3>1, <3>2
  <2>2. CASE c # q.case
    <3>1. ~Moving(r, c)
      BY <2>2 DEF Moving
    <3> QED BY <1>3, <1>6, <1>7, <2>2, <3>1, QuietAnswered
  <2> QED BY <2>1, <2>2
<1> QED BY <1>7 DEF AnswerInv

\* A request that writes neither a row nor the journal, or that is lost.
LEMMA OtherKeepsAnswer ==
    ASSUME IInv, JournalInv, AnswerInv, NEW r \in Requests,
           ApplyEffect(r) \/ RecordLog(r) \/ LoseRequest(r)
    PROVE  AnswerInv'
<1>1. UNCHANGED <<cases, journal, raced>> /\ blurred \subseteq blurred'
  BY DEF ApplyEffect, RecordLog, LoseRequest, history
<1>2. PICK x : requests' = [requests EXCEPT ![r] = x]
  BY DEF ApplyEffect, RecordLog, LoseRequest, Goto, Finish
<1>3. ASSUME NEW c, Moving(r, c) PROVE c \in blurred'
  <2>1. LoseRequest(r)
    BY <1>3 DEF Moving, ApplyEffect, RecordLog, At
  <2>2. requests[r].step = "write" => requests[r].entry.kind # "CREATED"
    BY <2>1 DEF LoseRequest, JournalInv, Told, ToldBy
  <2> QED BY <1>3, <2>1, <2>2 DEF LoseRequest, Moving
<1>4. ASSUME NEW c \in Cases \ (raced' \cup blurred')
      PROVE  Answered(c)' /\ cases'[c].status \in WAITING_STATES =>
                \E p \in Requests : Moving(p, c)'
  BY <1>1, <1>2, <1>3, <1>4, QuietAnswered
<1> QED BY <1>4 DEF AnswerInv

LEMMA NextKeepsAnswer == ASSUME IInv, JournalInv, AnswerInv, [Next]_vars PROVE AnswerInv'
<1>1. CASE UNCHANGED vars
  BY <1>1 DEF AnswerInv, Answered, Moving, vars, history
<1> QED BY <1>1, BeginKeepsAnswer, ApplyRuleKeepsAnswer, UpdateKeepsAnswer,
       RecordEventKeepsAnswer, RecordReplyKeepsAnswer, OtherKeepsAnswer DEF Next, Continue

\* CASE-015: a Case does not wait when its requester has answered since its status last
\* changed, unless a request acted on a status that had changed or was lost.
THEOREM AnswerResumes == Spec => []AnswerResumesUnlessRaced
<1>1. Init => AnswerInv
  BY DEF Init, AnswerInv, Answered
<1>2. IInv /\ JournalInv /\ AnswerInv /\ [Next]_vars => AnswerInv'
  BY NextKeepsAnswer
<1>3. AnswerInv => AnswerResumesUnlessRaced
  <2> SUFFICES ASSUME AnswerInv, NEW c \in Cases \ (raced \cup blurred), InFlight(c) = {},
                      Answered(c)
               PROVE  cases[c].status \notin WAITING_STATES
    BY DEF AnswerResumesUnlessRaced
  <2>1. \A r \in Requests : ~Moving(r, c)
    BY DEF InFlight, Moving, Idle
  <2> QED BY <2>1 DEF AnswerInv
<1> QED BY <1>1, <1>2, <1>3, Inductive, JournalInductive, PTL DEF Spec

-----------------------------------------------------------------------------
(* Requests that do not overlap.                                           *)

\* The requests in flight whose decision acts on organization o.
Judging(o) == {r \in Requests : /\ requests[r] # Idle /\ requests[r].seen.object = o
                                /\ requests[r].decision # "NO_ACTION"}

\* Of the requests about Case c, of those that act on o, at most one is in flight.
HandledInTurn(c) == \A r, q \in InFlight(c) : r = q
JudgedInTurn(o)  == \A r, q \in Judging(o) : r = q

\* A step that loses none of them.
KeepsRequests(c)  == \A r \in InFlight(c) : ~LoseRequest(r)
KeepsDecisions(o) == \A r \in Judging(o) : ~LoseRequest(r)

\* The steps after which a request acts on the status it has read.
Acting == {"initial", "comment", "write"}

\* The status of c that a request has read is still there when it acts on it.
Undisturbed(c) ==
    /\ c \notin raced
    /\ \A r \in InFlight(c) :
          requests[r].step \in Acting => requests[r].seen.status = cases[c].status

\* A request that begins has read its Case as it is.
LEMMA BeginSlot ==
    ASSUME IInv, NEW r \in Requests, Begin(r)
    PROVE  /\ \A q \in Requests \ {r} : requests'[q] = requests[q]
           /\ UNCHANGED <<raced, blurred, contested>>
           /\ requests'[r].case \in Cases
           /\ requests'[r].seen.status = cases'[requests'[r].case].status
           /\ \A c \in Cases : cases'[c] = cases[c] \/ cases[c] = NoCase
<1>1. ASSUME NEW c \in Cases, NEW at, NEW w, NEW e, NEW d, Start(r, c, at, w, e, d)
      PROVE  /\ \A q \in Requests \ {r} : requests'[q] = requests[q]
             /\ UNCHANGED <<cases, raced, blurred, contested>>
             /\ requests'[r].case = c /\ requests'[r].seen = cases[c]
  <2> DEFINE x == [step |-> at, case |-> c, seen |-> cases[c], write |-> w, entry |-> e,
                   decision |-> d]
  <2>1. /\ requests' = [requests EXCEPT ![r] = x] /\ x.case = c /\ x.seen = cases[c]
        /\ UNCHANGED <<cases, raced, blurred, contested>>
    BY <1>1 DEF Start, history
  <2> HIDE DEF x
  <2> QED BY <2>1 DEF IInv, Typed
<1>2. ASSUME NEW c \in Cases, NEW d, NEW p, NEW s, NEW a, NEW o, Open(r, c, d, p, s, a, o)
      PROVE  /\ \A q \in Requests \ {r} : requests'[q] = requests[q]
             /\ UNCHANGED <<raced, blurred, contested>>
             /\ requests'[r].case = c /\ requests'[r].seen = cases'[c]
             /\ \A k \in Cases : cases'[k] = cases[k] \/ cases[k] = NoCase
  <2> DEFINE row == [status |-> "NEW", assignee |-> None, route |-> d, critical |-> p,
                     closed |-> FALSE, object |-> o]
             added == [status |-> s, assignee |-> a]
             x == [step |-> IF s # "NEW" \/ a # None THEN "initial" ELSE "record",
                   case |-> c, seen |-> row, write |-> added,
                   entry |-> Entry("CREATED", [route |-> d]), decision |-> "NO_ACTION"]
  <2>1. /\ requests' = [requests EXCEPT ![r] = x] /\ x.case = c /\ x.seen = row
        /\ cases' = [cases EXCEPT ![c] = row] /\ cases[c] = NoCase
        /\ UNCHANGED <<raced, blurred, contested>>
    BY <1>2 DEF Open, history
  <2> HIDE DEF x, row
  <2> QED BY <2>1 DEF IInv, Typed
<1> QED BY <1>1, <1>2 DEF Begin, Assign, ChangeStatus, Reroute, ChangePriority, Escalate,
                          AddComment, AddRequesterComment, Decide

\* A request that goes on or is lost touches its Case only, and acts on a status once.
LEMMA ContinueSlot ==
    ASSUME IInv, NEW r \in Requests, Continue(r) \/ LoseRequest(r)
    PROVE  LET q == requests[r]
               x == requests'[r]
           IN  /\ q \in Flight /\ q # Idle /\ q.case \in Cases
               /\ \A s \in Requests \ {r} : requests'[s] = requests[s]
               /\ \A c \in Cases \ {q.case} : cases'[c] = cases[c]
               /\ \/ raced' = raced
                  \/ q.step \in Acting /\ Race(r)
               /\ \/ x = Idle \/ x.step \notin Acting
                  \/ /\ x.case = q.case /\ x.seen = q.seen /\ q.step = "comment"
                     /\ UNCHANGED cases
<1> DEFINE q == requests[r]
<1>1. q \in Flight /\ q # Idle
  BY AtFlight, FlightTyped
     DEF Continue, ApplyRule, Update, RecordEvent, RecordReply, ApplyEffect, RecordLog,
         LoseRequest, IInv, Steps
<1>2. q.case \in Cases
  BY <1>1 DEF Flight
<1>3. CASE RecordEvent(r) \/ LoseRequest(r)
  BY <1>1, <1>2, <1>3 DEF RecordEvent, LoseRequest, Finish, IInv, Typed, history
<1>4. CASE ApplyRule(r) \/ Update(r) \/ ApplyEffect(r) \/ RecordLog(r)
  <2> DEFINE at == IF At(r, "effect") THEN "log" ELSE "record"
             x == [q EXCEPT !.step = at]
  <2>1. Goto(r, at)
    BY <1>4 DEF ApplyRule, Update, ApplyEffect, RecordLog, At
  <2>2. at \in Steps /\ at \notin Acting
    BY DEF Steps, Acting
  <2> HIDE DEF at
  <2>3. x.step = at /\ requests' = [requests EXCEPT ![r] = x]
    BY <1>1, <2>1, <2>2, GotoFacts DEF IInv, Goto
  <2>4. raced' = raced \/ (q.step \in Acting /\ Race(r))
    BY <1>4 DEF ApplyRule, Update, ApplyEffect, RecordLog, At, Acting, history
  <2>5. \A c \in Cases \ {q.case} : cases'[c] = cases[c]
    BY <1>4 DEF ApplyRule, Update, Write, ApplyEffect, RecordLog, IInv, Typed
  <2> HIDE DEF x
  <2> QED BY <1>1, <1>2, <2>2, <2>3, <2>4, <2>5 DEF IInv, Typed
<1>5. CASE RecordReply(r)
  <2> DEFINE x == [q EXCEPT !.step = "write"]
  <2>1. x.case = q.case /\ x.seen = q.seen
    BY <1>1, GotoFacts DEF IInv, Steps
  <2>2. requests' = [requests EXCEPT ![r] = x] \/ requests' = [requests EXCEPT ![r] = Idle]
    BY <1>5 DEF RecordReply, Goto, Finish
  <2>3. q.step = "comment" /\ Race(r) /\ UNCHANGED cases
    BY <1>5 DEF RecordReply, At
  <2> HIDE DEF x
  <2> QED BY <1>1, <1>2, <2>1, <2>2, <2>3 DEF IInv, Typed, Acting
<1> QED BY <1>3, <1>4, <1>5 DEF Continue

LEMMA UndisturbedKept ==
    ASSUME NEW c \in Cases, IInv, HandledInTurn(c), Undisturbed(c), [Next]_vars
    PROVE  Undisturbed(c)'
<1>1. ASSUME NEW r \in Requests, Begin(r) PROVE Undisturbed(c)'
  <2>1. ASSUME NEW s \in InFlight(c)', s # r
        PROVE  s \in InFlight(c) /\ requests'[s] = requests[s] /\ cases'[c] = cases[c]
    <3>1. s \in InFlight(c) /\ requests'[s] = requests[s]
      BY <1>1, <2>1, BeginSlot DEF InFlight
    <3>2. cases[c] # NoCase
      BY <3>1 DEF IInv, RequestsSound, InFlight
    <3> QED BY <1>1, <3>1, <3>2, BeginSlot
  <2>2. r \in InFlight(c)' => requests'[r].seen.status = cases'[c].status
    BY <1>1, BeginSlot DEF InFlight
  <2>3. c \notin raced'
    BY <1>1, BeginSlot DEF Undisturbed
  <2> QED BY <2>1, <2>2, <2>3 DEF Undisturbed
<1>2. ASSUME NEW r \in Requests, Continue(r) \/ LoseRequest(r) PROVE Undisturbed(c)'
  <2> DEFINE q == requests[r]
  <2>1. q # Idle /\ q.case \in Cases
    BY <1>2, ContinueSlot
  <2>2. c \notin raced'
    <3>1. CASE q.step \in Acting /\ Race(r)
      BY <2>1, <3>1 DEF Race, Undisturbed, InFlight
    <3> QED BY <1>2, <3>1, ContinueSlot DEF Undisturbed
  <2>3. ASSUME NEW s \in InFlight(c)', s # r
        PROVE  s \in InFlight(c) /\ requests'[s] = requests[s] /\ cases'[c] = cases[c]
    <3>1. s \in InFlight(c) /\ requests'[s] = requests[s]
      BY <1>2, <2>3, ContinueSlot DEF InFlight
    <3>2. q.case # c
      BY <2>1, <2>3, <3>1 DEF HandledInTurn, InFlight
    <3> QED BY <1>2, <3>1, <3>2, ContinueSlot
  <2>4. ASSUME r \in InFlight(c)', requests'[r].step \in Acting
        PROVE  requests'[r].seen.status = cases'[c].status
    <3>1. /\ q.case = c /\ requests'[r].seen = q.seen /\ q.step = "comment" /\ UNCHANGED cases
      BY <1>2, <2>4, ContinueSlot DEF InFlight
    <3> QED BY <2>1, <3>1 DEF Undisturbed, InFlight, Acting
  <2> QED BY <2>2, <2>3, <2>4 DEF Undisturbed
<1>3. CASE UNCHANGED vars
  BY <1>3 DEF vars, history, Undisturbed, InFlight
<1> QED BY <1>1, <1>2, <1>3 DEF Next

\* A Case is blurred by requests about it that overlap or are lost, an organization contested by
\* decisions on it that do.
NotBlurred(c)   == c \notin blurred
NotContested(o) == o \notin contested

LEMMA NotBlurredKept ==
    ASSUME NEW c \in Cases, IInv, HandledInTurn(c), KeepsRequests(c) \/ UNCHANGED vars,
           NotBlurred(c), [Next]_vars
    PROVE  NotBlurred(c)'
<1>1. ASSUME NEW r \in Requests, Update(r) PROVE c \notin blurred'
  <2>1. requests[r] # Idle
    BY <1>1, AtFlight DEF Update, IInv, Steps
  <2>2. Crosses(r) => requests[r].case # c
    <3> SUFFICES ASSUME NEW q \in Requests \ {r}, requests[q].step \in {"initial", "record"},
                        requests[q].case = requests[r].case, requests[r].case = c
                 PROVE  FALSE
      BY DEF Crosses
    <3>1. requests[q] # Idle
      BY DEF Idle
    <3> QED BY <2>1, <3>1 DEF HandledInTurn, InFlight
  <2> QED BY <1>1, <2>2 DEF Update, NotBlurred
<1>2. ASSUME NEW r \in Requests, LoseRequest(r) PROVE c \notin blurred'
  <2>1. requests[r].case # c \/ UNCHANGED vars
    BY <1>2 DEF KeepsRequests, InFlight, LoseRequest
  <2> QED BY <1>2, <2>1 DEF LoseRequest, NotBlurred, vars, history
<1>3. ASSUME NEW r \in Requests, ApplyRule(r) \/ RecordEvent(r) \/ RecordReply(r)
                \/ ApplyEffect(r) \/ RecordLog(r)
      PROVE  UNCHANGED blurred
  BY <1>3 DEF ApplyRule, RecordEvent, RecordReply, ApplyEffect, RecordLog, history
<1>4. CASE UNCHANGED vars
  BY <1>4 DEF vars, history, NotBlurred
<1> QED BY <1>1, <1>2, <1>3, <1>4, BeginSlot DEF Next, Continue, NotBlurred

LEMMA NotContestedKept ==
    ASSUME NEW o \in Objects, IInv, LogInv, JudgedInTurn(o),
           KeepsDecisions(o) \/ UNCHANGED vars, NotContested(o), [Next]_vars
    PROVE  NotContested(o)'
<1>1. ASSUME NEW r \in Requests, ApplyEffect(r) PROVE o \notin contested'
  <2>1. SUFFICES ASSUME o \in contested' PROVE FALSE
    OBVIOUS
  <2>2. PICK q \in Requests \ {r} : /\ At(q, "log") /\ requests[q].seen.object = o
                                    /\ requests[q].decision # "NO_ACTION"
                                    /\ requests[r].seen.object = o
    BY <1>1, <2>1 DEF ApplyEffect, NotContested
  <2>3. requests[q] # Idle /\ requests[r] # Idle /\ requests[r].step = "effect"
    BY <1>1, <2>2, AtFlight DEF ApplyEffect, IInv, Steps, At
  <2>4. requests[r].decision # "NO_ACTION"
    BY <2>3 DEF LogInv, At
  <2> QED BY <2>2, <2>3, <2>4 DEF JudgedInTurn, Judging
<1>2. ASSUME NEW r \in Requests, LoseRequest(r) PROVE o \notin contested'
  <2>1. CASE UNCHANGED vars
    BY <2>1 DEF vars, history, NotContested
  <2>2. CASE r \notin Judging(o)
    <3>1. requests[r].seen.object # o \/ requests[r].decision = "NO_ACTION"
      BY <1>2, <2>2 DEF Judging, LoseRequest
    <3> QED BY <1>2, <3>1 DEF LoseRequest, NotContested
  <2> QED BY <1>2, <2>1, <2>2 DEF KeepsDecisions
<1>3. ASSUME NEW r \in Requests, ApplyRule(r) \/ RecordEvent(r) \/ RecordReply(r)
                \/ Update(r) \/ RecordLog(r)
      PROVE  UNCHANGED contested
  BY <1>3 DEF ApplyRule, RecordEvent, RecordReply, Update, RecordLog, history
<1>4. CASE UNCHANGED vars
  BY <1>4 DEF vars, history, NotContested
<1> QED BY <1>1, <1>2, <1>3, <1>4, BeginSlot DEF Next, Continue, NotContested

\* The properties without their exceptions.
CaseTold(c) ==
    InFlight(c) = {} =>
       /\ cases[c] # NoCase =>
             (\E i \in DOMAIN journal[c] : Creates(c, i)) /\ Read(c) = cases[c]
       /\ Answered(c) => cases[c].status \notin WAITING_STATES

InForce(o) == (\A r \in Requests : ~At(r, "log")) => (o \in suspended <=> LastSuspends(o))

CaseMoves(c) ==
    \/ cases[c] = NoCase
    \/ \E r \in InFlight(c) : At(r, "initial")
    \/ cases'[c].status = cases[c].status
    \/ CanTransition(cases[c].status, cases'[c].status)

\* The exceptions above are overlapping and lost requests, nothing else.  A Case the requests about
\* which never overlap moves along the catalogue; if none of them is lost either, its journal tells
\* what changed after its opening and an answer resumes what waited for it.  When the decisions on
\* an organization never overlap and none is lost, the log tells whether it is suspended.
THEOREM UncontendedIsSound ==
    ASSUME NEW k \in Cases, NEW o \in Objects
    PROVE  /\ Spec /\ []HandledInTurn(k) => [][CaseMoves(k)]_vars
           /\ Spec /\ []HandledInTurn(k) /\ [][KeepsRequests(k)]_vars => []CaseTold(k)
           /\ Spec /\ []JudgedInTurn(o) /\ [][KeepsDecisions(o)]_vars => []InForce(o)
<1>1. Init => Undisturbed(k) /\ NotBlurred(k) /\ NotContested(o)
  BY DEF Init, Undisturbed, NotBlurred, NotContested, InFlight
<1>2. Spec /\ []HandledInTurn(k) => []Undisturbed(k)
  <2>1. IInv /\ HandledInTurn(k) /\ Undisturbed(k) /\ [Next]_vars => Undisturbed(k)'
    BY UndisturbedKept
  <2> QED BY <1>1, <2>1, Inductive, PTL DEF Spec
<1>3. Spec /\ []HandledInTurn(k) => [][CaseMoves(k)]_vars
  <2>1. /\ Undisturbed(k)'
        /\ [\A c \in Cases \ raced' :
               \/ cases[c] = NoCase
               \/ \E r \in InFlight(c) : At(r, "initial")
               \/ cases'[c].status = cases[c].status
               \/ CanTransition(cases[c].status, cases'[c].status)]_vars
        => [CaseMoves(k)]_vars
    BY DEF Undisturbed, CaseMoves
  <2> QED BY <1>2, <2>1, TransitionsKept, PTL DEF TransitionsAllowedUnlessRaced
<1>4. Spec /\ []HandledInTurn(k) /\ [][KeepsRequests(k)]_vars => []CaseTold(k)
  <2>1. IInv /\ HandledInTurn(k) /\ NotBlurred(k) /\ [KeepsRequests(k)]_vars /\ [Next]_vars
           => NotBlurred(k)'
    BY NotBlurredKept
  <2>2. Undisturbed(k) /\ NotBlurred(k) /\ JournalTellsChanges /\ AnswerResumesUnlessRaced
           => CaseTold(k)
    BY DEF Undisturbed, NotBlurred, JournalTellsChanges, AnswerResumesUnlessRaced, CaseTold,
           Creates, Read
  <2> QED BY <1>1, <1>2, <2>1, <2>2, Inductive, ChangesAreTold, AnswerResumes, PTL DEF Spec
<1>5. Spec /\ []JudgedInTurn(o) /\ [][KeepsDecisions(o)]_vars => []InForce(o)
  <2>1. IInv /\ LogInv /\ JudgedInTurn(o) /\ NotContested(o) /\ [KeepsDecisions(o)]_vars
             /\ [Next]_vars
           => NotContested(o)'
    BY NotContestedKept
  <2>2. NotContested(o) /\ LogTellsSuspension => InForce(o)
    BY DEF NotContested, LogTellsSuspension, InForce, LastSuspends, Decides
  <2> QED BY <1>1, <2>1, <2>2, Inductive, LogInductive, LogAgrees, PTL DEF Spec
<1> QED BY <1>3, <1>4, <1>5

=============================================================================
