------------------------ MODULE Organizations_proofs ------------------------
(***************************************************************************)
(* Proofs about Organizations, for every set of users, invitations and     *)
(* requests: what an organization keeps of its Owners, functions, members  *)
(* and invitations whatever requests interleave, from one invariant.       *)
(***************************************************************************)
EXTENDS Organizations, FiniteSetTheorems, TLAPS

\* What the step of a request says of its record.
Shaped(q) ==
    /\ q.step = "decide" => q.kind \in {"change", "remove", "transfer"}
                            /\ (q.kind = "transfer" => q.function = "Owner")
    /\ q.step = "remove" => q.kind = "remove"
    /\ q.step \in {"revoke", "grant", "open", "commit"}
          => q.kind \in {"change", "transfer", "accept"}
    /\ q.step = "join" => q.kind \in {"accept", "appoint"}
    /\ q.step = "add" => q.kind = "appoint" /\ q.subject \in appointed
    /\ q.step = "write" => q.kind \in DOMAIN Written /\ q.invitation \in Invitations
    /\ q.kind = "accept" => q.invitation \in Invitations
    /\ IF q.kind = "remove" THEN q.function = None ELSE q.function \in ORG_FUNCTIONS
    /\ q.kind = "transfer" => q.actor \in Users /\ (q.function = "Owner" => q.actor # q.subject)
    /\ q.row.status \in {"NONE", "PENDING"}

\* A request that may unseat a user has counted other Owners, or the user was none.
Counted(q) ==
    q.step \notin {"decide", "orphan"} /\ q.kind \in {"change", "remove", "transfer"}
       /\ q.function # "Owner" => q.owners # {q.subject}

Shapes == \A r \in Requests : requests[r] # Idle => Shaped(requests[r]) /\ Counted(requests[r])

FoundAreMembers == \A r \in Requests, u \in Users : HasFound(r, u) => u \in members

SnapshotsCurrent ==
    \A r \in Requests : At(r, "commit") /\ requests[r].subject \notin overlapped \cup appointed
       => functions[requests[r].subject] \subseteq requests[r].snapshot

SingleFunctions ==
    \A u \in Users : u \notin overlapped \cup appointed =>
       \E f \in ORG_FUNCTIONS : functions[u] \subseteq {f}

IInv ==
    /\ TypeOK /\ Shapes /\ FoundAreMembers /\ SnapshotsCurrent /\ SingleFunctions
    /\ OwnerKeptUnlessRaced /\ MembersHoldFunctions

-----------------------------------------------------------------------------
(* Steps that leave members and functions alone.                           *)

LEMMA FlightTyped ==
    ASSUME TypeOK, NEW r \in Requests, requests[r].step \in Steps
    PROVE  requests[r] \in Flight /\ requests[r] # Idle
<1>1. requests[r] \in Flight \cup {Idle} /\ Idle.step \notin Steps
  BY DEF TypeOK, Idle, Steps
<1> QED BY <1>1

LEMMA StepKnown ==
    ASSUME TypeOK, NEW r \in Requests, requests[r] # Idle
    PROVE  requests[r] \in Flight /\ requests[r].step \in Steps
BY DEF TypeOK, Flight

\* The membership a request in state q has found.
Holds(q, u) ==
    q.subject = u /\ (q.step = "commit" \/ q.step = "add" \/ (q.step = "open" /\ q.kind = "accept"))

Appoints(q) == q.kind \in {"accept", "appoint"}

Untouched ==
    /\ UNCHANGED <<members, functions, ownersMoved, steppedDown, overlapped, appointed>>
    /\ invitations' \in [Invitations -> Invitation \cup {NoInvitation}]
    /\ late' \subseteq Invitations /\ raced' \subseteq Invitations
    /\ granted' \subseteq ORG_FUNCTIONS
    /\ served' \in Nat /\ faults' \in Nat /\ faults <= faults'

LEMMA MoveKeeps ==
    ASSUME IInv, NEW r \in Requests, NEW x \in Flight \cup {Idle},
           requests' = [requests EXCEPT ![r] = x], Untouched,
           x # Idle => Shaped(x) /\ Counted(x),
           x # Idle => \A u \in Users : Holds(x, u) => u \in members,
           x.step = "commit" => functions[x.subject] \subseteq x.snapshot,
           \A u \in members : HasFound(r, u) /\ Appoints(requests[r]) /\ functions[u] = {} =>
              faults' > 0 \/ (x # Idle /\ Holds(x, u) /\ Appoints(x))
    PROVE  IInv'
<1>1. /\ requests' \in [Requests -> Flight \cup {Idle}]
      /\ requests'[r] = x
      /\ \A q \in Requests \ {r} : requests'[q] = requests[q]
  BY DEF IInv, TypeOK
<1>2. /\ UNCHANGED <<members, functions, ownersMoved, steppedDown, overlapped, appointed>>
      /\ members \subseteq Users
  BY DEF Untouched, IInv, TypeOK
<1>3. TypeOK'
  BY <1>1, <1>2 DEF IInv, TypeOK, Untouched
<1>4. Shapes'
  <2>1. \A q : Shaped(q) => Shaped(q)'
    BY <1>2 DEF Shaped
  <2> QED BY <1>1, <1>2, <2>1 DEF IInv, Shapes, Shaped, Counted
<1>5. \A u : /\ HasFound(r, u)' <=> x # Idle /\ Holds(x, u)
             /\ \A q \in Requests \ {r} : HasFound(q, u)' <=> HasFound(q, u)
  BY <1>1 DEF HasFound, At, Holds
<1>6. FoundAreMembers'
  BY <1>2, <1>5 DEF IInv, FoundAreMembers
<1>7. SnapshotsCurrent'
  BY <1>1, <1>2 DEF IInv, SnapshotsCurrent, At
<1>8. SingleFunctions' /\ OwnerKeptUnlessRaced'
  BY <1>2 DEF IInv, SingleFunctions, OwnerKeptUnlessRaced, Owners
<1>9. MembersHoldFunctions'
  <2> SUFFICES ASSUME NEW u \in members, functions[u] = {}, ~(faults' > 0)
               PROVE  \E q \in Requests : HasFound(q, u)' /\ Appoints(requests[q])'
    BY <1>2 DEF IInv, MembersHoldFunctions, Appoints
  <2>1. ~(faults > 0) /\ u \in Users
    BY <1>2 DEF Untouched, IInv, TypeOK
  <2>2. PICK q \in Requests : HasFound(q, u) /\ Appoints(requests[q])
    BY <2>1 DEF IInv, MembersHoldFunctions, Appoints
  <2> QED BY <1>1, <1>5, <2>2 DEF Appoints
<1> QED BY <1>3, <1>4, <1>6, <1>7, <1>8, <1>9 DEF IInv

\* A request that starts has found nothing yet.
LEMMA StartKeeps ==
    ASSUME IInv, NEW r \in Requests, NEW at \in {"decide", "join", "write", "revoke"},
           NEW kind \in Kinds, NEW actor \in Users \cup {None}, NEW subject \in Users,
           NEW function \in ORG_FUNCTIONS \cup {None}, NEW i \in Invitations \cup {None},
           Start(r, at, kind, actor, subject, function, i),
           at = "decide" => /\ kind \in {"change", "remove", "transfer"}
                            /\ kind = "transfer" => function = "Owner",
           at = "join" => kind = "appoint",
           at = "write" => kind \in DOMAIN Written \ {"accept"} /\ i \in Invitations,
           at = "revoke" => kind = "accept" /\ i \in Invitations,
           IF kind = "remove" THEN function = None ELSE function \in ORG_FUNCTIONS,
           kind = "transfer" => actor \in Users /\ actor # subject,
           i \in Invitations => invitations[i].status \in {"NONE", "PENDING"}
    PROVE  IInv'
<1> DEFINE x == [step |-> at, kind |-> kind, actor |-> actor, subject |-> subject,
                 function |-> function, invitation |-> i, owners |-> {},
                 row |-> IF i = None THEN NoInvitation ELSE invitations[i], snapshot |-> {}]
<1>1. /\ x.step = at /\ x.kind = kind /\ x.actor = actor /\ x.subject = subject
      /\ x.function = function /\ x.invitation = i /\ x.owners = {}
      /\ x.row = (IF i = None THEN NoInvitation ELSE invitations[i])
  OBVIOUS
<1>2. /\ (IF i = None THEN NoInvitation ELSE invitations[i]) \in Invitation \cup {NoInvitation}
      /\ (IF i = None THEN NoInvitation ELSE invitations[i]).status \in {"NONE", "PENDING"}
  BY NoneIsNoId DEF IInv, TypeOK, NoInvitation, None
<1>3. x \in Flight
  BY <1>2 DEF Flight, Steps
<1>4. requests' = [requests EXCEPT ![r] = x] /\ requests[r] = Idle
  BY DEF Start
<1> HIDE DEF x
<1>5. Shaped(x)
  BY <1>1, <1>2 DEF Shaped
<1>6. Counted(x)
  BY <1>1 DEF Counted
<1>7. Untouched
  BY DEF Start, memberVars, history, Untouched, IInv, TypeOK
<1>8. \A u : ~Holds(x, u)
  BY <1>1 DEF Holds
<1>9. \A u : ~HasFound(r, u)
  BY <1>4 DEF HasFound
<1> QED BY <1>1, <1>3, <1>4, <1>5, <1>6, <1>7, <1>8, <1>9, MoveKeeps

LEMMA BeginKeeps == ASSUME IInv, NEW r \in Requests, Begin(r) PROVE IInv'
<1> USE DEF Kinds, ORG_FUNCTIONS
<1>0. /\ None \in ORG_FUNCTIONS \cup {None} /\ None \in Users \cup {None}
      /\ None \in Invitations \cup {None} /\ None \notin Invitations
      /\ DOMAIN Written = {"invite", "resend", "cancel", "accept", "expire"}
  BY NoneIsNoId DEF None, Written
<1>1. ASSUME NEW u \in Users, NEW f \in ORG_FUNCTIONS, AddOrganizationMember(r, u, f) PROVE IInv'
  BY <1>0, <1>1, StartKeeps DEF AddOrganizationMember
<1>2. ASSUME NEW u \in Users, Leave(r, u) PROVE IInv'
  BY <1>0, <1>2, StartKeeps DEF Leave
<1>3. ASSUME NEW a \in Users, NEW u \in Users, RemoveMember(r, a, u) PROVE IInv'
  BY <1>0, <1>3, StartKeeps DEF RemoveMember
<1>4. ASSUME NEW a \in Users, NEW u \in Users, TransferOwnership(r, a, u) PROVE IInv'
  BY <1>0, <1>4, StartKeeps DEF TransferOwnership
<1>5. ASSUME NEW a \in Users, NEW u \in Users, NEW f \in ORG_FUNCTIONS,
             ChangeMemberFunction(r, a, u, f)
      PROVE  IInv'
  BY <1>0, <1>5, StartKeeps DEF ChangeMemberFunction
<1>6. ASSUME NEW a \in Users, NEW u \in Users, NEW f \in ORG_FUNCTIONS, NEW i \in Invitations,
             Invite(r, a, u, f, i)
      PROVE  IInv'
  <2>1. invitations[i].status = "NONE"
    <3>1. invitations[i] = NoInvitation
      BY <1>6 DEF Invite
    <3>2. NoInvitation.status = "NONE"
      BY DEF NoInvitation
    <3> QED BY <3>1, <3>2
  <2> QED BY <1>0, <1>6, <2>1, StartKeeps DEF Invite
<1>7. ASSUME NEW i \in Invitations, invitations[i].status = "PENDING"
      PROVE  invitations[i].user \in Users /\ invitations[i].function \in ORG_FUNCTIONS
  <2>1. invitations[i] \in Invitation \cup {NoInvitation} /\ NoInvitation.status = "NONE"
    BY DEF IInv, TypeOK, NoInvitation
  <2>2. invitations[i] \in Invitation
    BY <1>7, <2>1
  <2> QED BY <2>2 DEF Invitation
<1>8. ASSUME NEW a \in Users, NEW i \in Invitations, Cancel(r, a, i) PROVE IInv'
  BY <1>0, <1>7, <1>8, StartKeeps DEF Cancel
<1>9. ASSUME NEW a \in Users, NEW i \in Invitations, Resend(r, a, i) PROVE IInv'
  BY <1>0, <1>7, <1>9, StartKeeps DEF Resend
<1>10. ASSUME NEW i \in Invitations, Accept(r, i) PROVE IInv'
  BY <1>0, <1>7, <1>10, StartKeeps DEF Accept, StartAccept
<1> QED BY <1>1, <1>2, <1>3, <1>4, <1>5, <1>6, <1>8, <1>9, <1>10 DEF Begin

\* The Owners are counted where a removal is decided.
LEMMA DecideKeeps == ASSUME IInv, NEW r \in Requests, Decide(r) PROVE IInv'
<1> DEFINE q == requests[r]
           x == [q EXCEPT !.owners = Owners,
                          !.step = IF q.kind = "remove" THEN "remove" ELSE "revoke"]
<1>1. q \in Flight /\ q # Idle /\ q.step = "decide" /\ Shaped(q)
  BY FlightTyped DEF IInv, Shapes, Decide, At, Steps
<1>2. Owners \subseteq Users
  BY DEF Owners
<1>3. /\ x \in Flight
      /\ x.step = (IF q.kind = "remove" THEN "remove" ELSE "revoke") /\ x.owners = Owners
      /\ x.kind = q.kind /\ x.actor = q.actor /\ x.subject = q.subject
      /\ x.function = q.function /\ x.invitation = q.invitation /\ x.row = q.row
  BY <1>1, <1>2 DEF Flight, Steps
<1>4. requests' = [requests EXCEPT ![r] = x]
  BY DEF Decide
<1>5. q.kind = "remove" \/ q.function # "Owner" => ~(Owners = {q.subject})
  BY <1>1 DEF Decide, MayGoOn, LastOwner, Shaped
<1> HIDE DEF x
<1>6. Shaped(x)
  BY <1>1, <1>3 DEF Shaped
<1>7. Counted(x)
  BY <1>1, <1>3, <1>5 DEF Counted
<1>8. Untouched
  BY DEF Decide, memberVars, history, Untouched, IInv, TypeOK
<1>9. /\ \A u : ~Holds(x, u)
      /\ x.step # "commit"
      /\ \A u : ~HasFound(r, u)
  BY <1>1, <1>3 DEF Holds, HasFound, At
<1> QED BY <1>3, <1>4, <1>6, <1>7, <1>8, <1>9, MoveKeeps

LEMMA RevokePermissionsKeeps == ASSUME IInv, NEW r \in Requests, RevokePermissions(r) PROVE IInv'
<1> DEFINE q == requests[r]
           x == [q EXCEPT !.step = "grant"]
<1>1. q \in Flight /\ q # Idle /\ q.step = "revoke" /\ Shaped(q) /\ Counted(q)
  BY FlightTyped DEF IInv, Shapes, RevokePermissions, At, Steps
<1>2. /\ x \in Flight /\ x.step = "grant" /\ x.owners = q.owners
      /\ x.kind = q.kind /\ x.actor = q.actor /\ x.subject = q.subject
      /\ x.function = q.function /\ x.invitation = q.invitation /\ x.row = q.row
  BY <1>1 DEF Flight, Steps
<1>3. requests' = [requests EXCEPT ![r] = x]
  BY DEF RevokePermissions, Goto
<1> HIDE DEF x
<1>4. Shaped(x) /\ Counted(x)
  BY <1>1, <1>2 DEF Shaped, Counted
<1>5. Untouched
  BY DEF RevokePermissions, memberVars, history, Untouched, IInv, TypeOK
<1>6. /\ \A u : ~Holds(x, u)
      /\ x.step # "commit"
      /\ \A u : ~HasFound(r, u)
  BY <1>1, <1>2 DEF Holds, HasFound, At
<1> QED BY <1>2, <1>3, <1>4, <1>5, <1>6, MoveKeeps

LEMMA GrantPermissionsKeeps == ASSUME IInv, NEW r \in Requests, GrantPermissions(r) PROVE IInv'
<1> DEFINE q == requests[r]
           x == [q EXCEPT !.step = IF q.kind = "accept" THEN "join" ELSE "open"]
<1>1. q \in Flight /\ q # Idle /\ q.step = "grant" /\ Shaped(q) /\ Counted(q)
  BY FlightTyped DEF IInv, Shapes, GrantPermissions, At, Steps
<1>2. /\ x \in Flight /\ x.step = (IF q.kind = "accept" THEN "join" ELSE "open")
      /\ x.owners = q.owners
      /\ x.kind = q.kind /\ x.actor = q.actor /\ x.subject = q.subject
      /\ x.function = q.function /\ x.invitation = q.invitation /\ x.row = q.row
  BY <1>1 DEF Flight, Steps
<1>3. requests' = [requests EXCEPT ![r] = x]
  BY DEF GrantPermissions, Goto
<1>4. Ensured(q) \subseteq ORG_FUNCTIONS
  BY <1>1 DEF Ensured, Shaped, ORG_FUNCTIONS
<1> HIDE DEF x
<1>5. Shaped(x) /\ Counted(x)
  BY <1>1, <1>2 DEF Shaped, Counted
<1>6. Untouched
  BY <1>4 DEF GrantPermissions, memberVars, history, Untouched, IInv, TypeOK
<1>7. /\ \A u : ~Holds(x, u)
      /\ x.step # "commit"
      /\ \A u : ~HasFound(r, u)
  BY <1>1, <1>2 DEF Holds, HasFound, At
<1> QED BY <1>2, <1>3, <1>5, <1>6, <1>7, MoveKeeps

LEMMA OpenReplacementKeeps == ASSUME IInv, NEW r \in Requests, OpenReplacement(r) PROVE IInv'
<1> DEFINE q == requests[r]
           x == [q EXCEPT !.step = "commit", !.snapshot = functions[q.subject]]
<1>1. q \in Flight /\ q # Idle /\ q.step = "open" /\ Shaped(q) /\ Counted(q)
  BY FlightTyped DEF IInv, Shapes, OpenReplacement, At, Steps
<1>2. functions[q.subject] \subseteq ORG_FUNCTIONS /\ q.subject \in members
  BY <1>1 DEF IInv, TypeOK, Flight, OpenReplacement
<1>3. /\ x \in Flight /\ x.step = "commit" /\ x.owners = q.owners
      /\ x.kind = q.kind /\ x.actor = q.actor /\ x.subject = q.subject
      /\ x.function = q.function /\ x.invitation = q.invitation /\ x.row = q.row
      /\ x.snapshot = functions[q.subject] /\ x # Idle
  BY <1>1, <1>2 DEF Flight, Steps, Idle
<1>4. requests' = [requests EXCEPT ![r] = x]
  BY DEF OpenReplacement
<1> HIDE DEF x
<1>5. Shaped(x) /\ Counted(x)
  BY <1>1, <1>3 DEF Shaped, Counted
<1>6. Untouched
  BY DEF OpenReplacement, memberVars, history, Untouched, IInv, TypeOK
<1>7. \A u : Holds(x, u) <=> u = q.subject
  BY <1>3 DEF Holds
<1>8. \A u : HasFound(r, u) => u = q.subject
  BY DEF HasFound
<1>9. /\ \A u \in Users : Holds(x, u) => u \in members
      /\ \A u \in members : HasFound(r, u) /\ Appoints(q) => Holds(x, u) /\ Appoints(x)
  BY <1>2, <1>3, <1>7, <1>8 DEF Appoints
<1>10. x \in Flight /\ x # Idle /\ functions[x.subject] \subseteq x.snapshot
  BY <1>3
<1> HIDE DEF q
<1> QED BY <1>4, <1>5, <1>6, <1>9, <1>10, MoveKeeps DEF q

LEMMA TurnAwayKeeps == ASSUME IInv, NEW r \in Requests, TurnAway(r) PROVE IInv'
<1>1. requests' = [requests EXCEPT ![r] = Idle] /\ Idle.step # "commit"
  BY DEF TurnAway, Finish, Idle
<1>2. Untouched
  BY DEF TurnAway, memberVars, history, Untouched, IInv, TypeOK
<1>3. ASSUME NEW u \in members, HasFound(r, u) PROVE functions[u] # {}
  <2>1. requests[r].subject = u
    BY <1>3 DEF HasFound
  <2>2. At(r, "commit") /\ BreaksKey(requests[r])
    BY <1>3, <2>1 DEF HasFound, At, TurnAway
  <2> QED BY <2>1, <2>2 DEF BreaksKey
<1> QED BY <1>1, <1>2, <1>3, MoveKeeps

LEMMA LoseRequestKeeps == ASSUME IInv, NEW r \in Requests, LoseRequest(r) PROVE IInv'
<1>1. requests' = [requests EXCEPT ![r] = Idle] /\ Idle.step # "commit"
  BY DEF LoseRequest, Finish, Idle
<1>2. faults' = faults + 1 /\ faults \in Nat
  BY DEF LoseRequest, IInv, TypeOK
<1>3. granted' \subseteq ORG_FUNCTIONS
  <2>1. CASE At(r, "grant")
    <3>1. Ensured(requests[r]) \subseteq ORG_FUNCTIONS
      BY <2>1, FlightTyped DEF IInv, Shapes, Shaped, Ensured, At, Steps, ORG_FUNCTIONS
    <3> QED BY <2>1, <3>1 DEF LoseRequest, IInv, TypeOK
  <2>2. CASE ~At(r, "grant")
    BY <2>2 DEF LoseRequest, IInv, TypeOK
  <2> QED BY <2>1, <2>2
<1>4. Untouched
  BY <1>2, <1>3 DEF LoseRequest, memberVars, history, Untouched, IInv, TypeOK
<1>5. faults' > 0
  BY <1>2
<1> QED BY <1>1, <1>4, <1>5, MoveKeeps

LEMMA WriteInvitationKeeps == ASSUME IInv, NEW r \in Requests, WriteInvitation(r) PROVE IInv'
<1> DEFINE q == requests[r]
           row == [user |-> q.subject, function |-> q.function, status |-> Written[q.kind]]
<1>1. q \in Flight /\ q.step = "write" /\ Shaped(q)
  BY FlightTyped DEF IInv, Shapes, WriteInvitation, At, Steps
<1>2. q.invitation \in Invitations /\ q.subject \in Users /\ q.function \in ORG_FUNCTIONS
      /\ Written[q.kind] \in InvitationStatus
  BY <1>1 DEF Shaped, Flight, Written, InvitationStatus
<1>3. row \in Invitation
  BY <1>2 DEF Invitation
<1>4. requests' = [requests EXCEPT ![r] = Idle] /\ Idle.step # "commit"
      /\ invitations' = [invitations EXCEPT ![q.invitation] = row]
  BY DEF WriteInvitation, Finish, Idle
<1>5. \A u : ~HasFound(r, u)
  BY <1>1 DEF HasFound, At
<1> HIDE DEF row
<1>6. Untouched
  BY <1>2, <1>3, <1>4 DEF WriteInvitation, memberVars, Untouched, IInv, TypeOK
<1> QED BY <1>4, <1>5, <1>6, MoveKeeps

-----------------------------------------------------------------------------
(* Steps that change members or functions.                                 *)

LEMMA JoinKeeps == ASSUME IInv, NEW r \in Requests, Join(r) PROVE IInv'
<1> DEFINE q == requests[r]
           x == [q EXCEPT !.step = IF q.kind = "appoint" THEN "add" ELSE "open"]
<1>1. q \in Flight /\ q # Idle /\ q.step = "join" /\ Shaped(q) /\ Counted(q)
  BY FlightTyped DEF IInv, Shapes, Join, At, Steps
<1>2. /\ x \in Flight /\ x.step = (IF q.kind = "appoint" THEN "add" ELSE "open")
      /\ x.owners = q.owners /\ x # Idle /\ x.subject \in Users
      /\ x.kind = q.kind /\ x.actor = q.actor /\ x.subject = q.subject
      /\ x.function = q.function /\ x.invitation = q.invitation /\ x.row = q.row
  BY <1>1 DEF Flight, Steps, Idle
<1>3. /\ requests' = [requests EXCEPT ![r] = x]
      /\ members' = members \cup {x.subject}
      /\ appointed' = IF x.kind = "appoint" THEN appointed \cup {x.subject} ELSE appointed
      /\ UNCHANGED <<functions, invitations, late, granted, ownersMoved, steppedDown>>
      /\ UNCHANGED <<overlapped, raced, served, faults>>
  BY <1>2 DEF Join, Goto
<1>4. \A u : ~HasFound(r, u)
  BY <1>1 DEF HasFound, At
<1> HIDE DEF x
<1>5. x.kind \in {"accept", "appoint"} /\ Holds(x, x.subject)
  BY <1>1, <1>2 DEF Shaped, Holds
<1>6. /\ requests' \in [Requests -> Flight \cup {Idle}]
      /\ requests'[r] = x
      /\ \A p \in Requests \ {r} : requests'[p] = requests[p]
  BY <1>2, <1>3 DEF IInv, TypeOK
<1>7. TypeOK'
  BY <1>2, <1>3, <1>6 DEF IInv, TypeOK
<1>8. Shapes'
  <2>1. appointed \subseteq appointed'
    BY <1>3
  <2>2. \A p : Shaped(p) => Shaped(p)'
    BY <2>1 DEF Shaped
  <2>3. Shaped(requests[r])'
    BY <1>1, <1>2, <1>3, <1>6 DEF Shaped
  <2>4. Counted(requests[r])'
    BY <1>1, <1>2, <1>6 DEF Shaped, Counted
  <2> QED BY <1>6, <2>2, <2>3, <2>4 DEF IInv, Shapes, Shaped, Counted
<1>9. \A u : /\ HasFound(r, u)' <=> Holds(x, u)
             /\ \A p \in Requests \ {r} : HasFound(p, u)' <=> HasFound(p, u)
  BY <1>2, <1>6 DEF HasFound, At, Holds
<1>10. FoundAreMembers'
  BY <1>3, <1>9 DEF IInv, FoundAreMembers, Holds
<1>11. SnapshotsCurrent'
  BY <1>2, <1>3, <1>6 DEF IInv, SnapshotsCurrent, At
<1>12. SingleFunctions' /\ OwnerKeptUnlessRaced'
  BY <1>3 DEF IInv, SingleFunctions, OwnerKeptUnlessRaced, Owners
<1>13. MembersHoldFunctions'
  <2> SUFFICES ASSUME NEW u \in Users
               PROVE  /\ functions[u] # {} => u \in members'
                      /\ u \in members' /\ functions[u] = {} =>
                            \/ faults > 0
                            \/ \E p \in Requests : HasFound(p, u)' /\ Appoints(requests[p])'
    BY <1>3 DEF MembersHoldFunctions, Appoints
  <2>1. CASE u = x.subject
    BY <1>3, <1>5, <1>6, <1>9, <2>1 DEF Appoints
  <2>2. CASE u # x.subject
    <3>1. u \in members' <=> u \in members
      BY <1>3, <2>2
    <3> QED BY <1>4, <1>6, <1>9, <3>1 DEF IInv, MembersHoldFunctions, Appoints
  <2> QED BY <2>1, <2>2
<1> QED BY <1>7, <1>8, <1>10, <1>11, <1>12, <1>13 DEF IInv

LEMMA AddMembershipRoleKeeps == ASSUME IInv, NEW r \in Requests, AddMembershipRole(r) PROVE IInv'
<1> DEFINE u == requests[r].subject
           f == requests[r].function
<1>1. requests[r] \in Flight /\ requests[r] # Idle /\ requests[r].step = "add"
      /\ Shaped(requests[r])
  BY FlightTyped DEF IInv, Shapes, AddMembershipRole, At, Steps
<1>2. u \in Users /\ f \in ORG_FUNCTIONS /\ u \in appointed /\ HasFound(r, u)
  BY <1>1 DEF Shaped, Flight, HasFound, At
<1>3. u \in members
  BY <1>2 DEF IInv, FoundAreMembers
<1> HIDE DEF u, f
<1>4. /\ functions' = [functions EXCEPT ![u] = @ \cup {f}]
      /\ requests' = [requests EXCEPT ![r] = Idle]
      /\ UNCHANGED <<members, invitations, late, granted, ownersMoved, steppedDown, overlapped>>
      /\ UNCHANGED <<appointed, raced, served, faults>>
  BY DEF AddMembershipRole, Finish, history, u, f
<1>5. /\ functions' \in [Users -> SUBSET ORG_FUNCTIONS]
      /\ functions'[u] = functions[u] \cup {f}
      /\ \A v \in Users \ {u} : functions'[v] = functions[v]
      /\ requests' \in [Requests -> Flight \cup {Idle}]
      /\ requests'[r] = Idle
      /\ \A p \in Requests \ {r} : requests'[p] = requests[p]
  BY <1>2, <1>4 DEF IInv, TypeOK
<1>6. \A v : /\ ~HasFound(r, v)'
             /\ \A p \in Requests \ {r} : HasFound(p, v)' <=> HasFound(p, v)
             /\ HasFound(r, v) => v = u
  BY <1>5 DEF HasFound, At, u
<1>7. TypeOK'
  BY <1>4, <1>5 DEF IInv, TypeOK
<1>8. Shapes'
  BY <1>4, <1>5 DEF IInv, Shapes, Shaped, Counted
<1>9. FoundAreMembers'
  BY <1>4, <1>6 DEF IInv, FoundAreMembers
<1>10. SnapshotsCurrent'
  <2>1. \A p \in Requests : At(p, "commit")' => p # r /\ requests[p].subject \in Users
    BY <1>5, FlightTyped DEF At, Idle, IInv, Flight, Steps
  <2> QED BY <1>2, <1>4, <1>5, <2>1 DEF IInv, SnapshotsCurrent, At
<1>11. SingleFunctions'
  BY <1>2, <1>4, <1>5 DEF IInv, SingleFunctions
<1>12. OwnerKeptUnlessRaced'
  <2>1. Owners \subseteq Owners'
    BY <1>5 DEF Owners
  <2> QED BY <1>4, <2>1 DEF IInv, OwnerKeptUnlessRaced
<1>13. MembersHoldFunctions'
  <2> SUFFICES ASSUME NEW v \in Users
               PROVE  /\ functions'[v] # {} => v \in members
                      /\ v \in members /\ functions'[v] = {} =>
                            \/ faults > 0
                            \/ \E p \in Requests : HasFound(p, v)' /\ Appoints(requests[p])'
    BY <1>4 DEF MembersHoldFunctions, Appoints
  <2>1. CASE v = u
    BY <1>3, <1>5, <2>1
  <2>2. CASE v # u
    BY <1>5, <1>6, <2>2 DEF IInv, MembersHoldFunctions, Appoints
  <2> QED BY <2>1, <2>2
<1> QED BY <1>7, <1>8, <1>9, <1>10, <1>11, <1>12, <1>13 DEF IInv

LEMMA DeleteMembershipKeeps == ASSUME IInv, NEW r \in Requests, DeleteMembership(r) PROVE IInv'
<1> DEFINE u == requests[r].subject
<1>1. requests[r] \in Flight /\ requests[r] # Idle /\ requests[r].step = "remove"
      /\ Shaped(requests[r]) /\ Counted(requests[r])
  BY FlightTyped DEF IInv, Shapes, DeleteMembership, At, Steps
<1>2. u \in Users /\ requests[r].kind = "remove" /\ requests[r].owners # {u}
  BY <1>1 DEF Shaped, Counted, Flight, None
<1>3. /\ functions' = [functions EXCEPT ![u] = {}] /\ members' = members \ {u}
      /\ requests' = [s \in Requests |->
            IF s = r THEN Idle
            ELSE IF HasFound(s, u) THEN [requests[s] EXCEPT !.step = "orphan"] ELSE requests[s]]
      /\ Unseat(requests[r], u \in Owners)
      /\ UNCHANGED <<invitations, late, granted, overlapped, appointed, raced, served, faults>>
  BY DEF DeleteMembership
<1> HIDE DEF u
<1>4. /\ functions' \in [Users -> SUBSET ORG_FUNCTIONS]
      /\ functions'[u] = {}
      /\ \A v \in Users \ {u} : functions'[v] = functions[v]
  BY <1>2, <1>3 DEF IInv, TypeOK
<1>5. ASSUME NEW s \in Requests, HasFound(s, u)
      PROVE  LET x == [requests[s] EXCEPT !.step = "orphan"]
             IN  x \in Flight /\ x # Idle /\ Shaped(x) /\ Counted(x) /\ x.step = "orphan"
  <2> DEFINE x == [requests[s] EXCEPT !.step = "orphan"]
  <2>1. requests[s] \in Flight /\ Shaped(requests[s])
    BY <1>5, StepKnown DEF HasFound, IInv, Shapes
  <2>2. /\ x \in Flight /\ x.step = "orphan" /\ x # Idle
        /\ x.kind = requests[s].kind /\ x.actor = requests[s].actor
        /\ x.subject = requests[s].subject /\ x.function = requests[s].function
        /\ x.invitation = requests[s].invitation /\ x.row = requests[s].row
    BY <2>1 DEF Flight, Steps, Idle
  <2> HIDE DEF x
  <2>3. Shaped(x) /\ Counted(x)
    BY <2>1, <2>2 DEF Shaped, Counted
  <2> QED BY <2>2, <2>3 DEF x
<1>6. /\ requests'[r] = Idle
      /\ \A s \in Requests \ {r} :
            IF HasFound(s, u)
            THEN /\ requests'[s] \in Flight /\ requests'[s] # Idle /\ requests'[s].step = "orphan"
                 /\ Shaped(requests'[s]) /\ Counted(requests'[s])
            ELSE requests'[s] = requests[s]
  BY <1>3, <1>5
<1>7. requests' \in [Requests -> Flight \cup {Idle}]
  BY <1>3, <1>6 DEF IInv, TypeOK
<1>8. \A s \in Requests : \A v : HasFound(s, v)' <=> HasFound(s, v) /\ s # r /\ v # u
  <2>1. \A s \in Requests : \A v : HasFound(s, v) => requests[s].subject = v
    BY DEF HasFound
  <2> QED BY <1>6, <2>1 DEF HasFound, At
<1>9. ownersMoved' \in BOOLEAN /\ steppedDown' \in BOOLEAN
  BY <1>3 DEF Unseat, IInv, TypeOK
<1>10. TypeOK'
  BY <1>3, <1>4, <1>7, <1>9 DEF IInv, TypeOK
<1>11. Shapes'
  BY <1>3, <1>6 DEF IInv, Shapes, Shaped, Counted
<1>12. FoundAreMembers'
  BY <1>3, <1>8 DEF IInv, FoundAreMembers
<1>13. SnapshotsCurrent'
  <2> SUFFICES ASSUME NEW s \in Requests, At(s, "commit")',
                      requests'[s].subject \notin overlapped \cup appointed
               PROVE  functions'[requests'[s].subject] \subseteq requests'[s].snapshot
    BY <1>3 DEF SnapshotsCurrent
  <2>1. requests'[s] = requests[s] /\ ~HasFound(s, u)
    BY <1>6 DEF At, Idle
  <2>2. requests[s] \in Flight /\ requests[s].step = "commit" /\ requests[s] # Idle
    BY <2>1, FlightTyped DEF IInv, At, Steps
  <2>3. requests[s].subject \in Users \ {u}
    BY <2>1, <2>2 DEF HasFound, At, Flight
  <2> QED BY <1>4, <2>1, <2>2, <2>3 DEF IInv, SnapshotsCurrent, At
<1>14. SingleFunctions'
  BY <1>3, <1>4 DEF IInv, SingleFunctions
<1>15. OwnerKeptUnlessRaced'
  <2> SUFFICES ASSUME Owners' = {} PROVE ownersMoved' \/ steppedDown'
    BY DEF OwnerKeptUnlessRaced
  <2>1. CASE Owners = {}
    BY <1>3, <2>1 DEF IInv, OwnerKeptUnlessRaced, Unseat
  <2>2. CASE Owners # {}
    <3>1. Owners = {u}
      BY <1>4, <2>2 DEF Owners
    <3> QED BY <1>2, <1>3, <3>1 DEF Unseat
  <2> QED BY <2>1, <2>2
<1>16. MembersHoldFunctions'
  <2> SUFFICES ASSUME NEW v \in Users
               PROVE  /\ functions'[v] # {} => v \in members'
                      /\ v \in members' /\ functions'[v] = {} =>
                            \/ faults > 0
                            \/ \E p \in Requests : HasFound(p, v)' /\ Appoints(requests[p])'
    BY <1>3 DEF MembersHoldFunctions, Appoints
  <2>1. CASE v = u
    BY <1>3, <1>4, <2>1
  <2>2. CASE v # u
    <3>1. ~HasFound(r, v)
      BY <1>1 DEF HasFound, At
    <3>2. \A p \in Requests : HasFound(p, v) => requests'[p] = requests[p] /\ HasFound(p, v)'
      BY <1>6, <1>8, <2>2, <3>1 DEF HasFound
    <3>3. functions'[v] = functions[v] /\ (v \in members' <=> v \in members)
      BY <1>3, <1>4, <2>2
    <3> QED BY <3>2, <3>3 DEF IInv, MembersHoldFunctions, Appoints
  <2> QED BY <2>1, <2>2
<1> QED BY <1>10, <1>11, <1>12, <1>13, <1>14, <1>15, <1>16 DEF IInv

\* A transfer that has made its target an Owner goes on with its author, who is not the target.
LEMMA AfterReplacementFacts ==
    ASSUME TypeOK, NEW r \in Requests, At(r, "commit"),
           Shaped(requests[r]), NEW now \in [Users -> SUBSET ORG_FUNCTIONS],
           requests[r].function \in now[requests[r].subject]
    PROVE  LET x == AfterReplacement(requests[r], now)
           IN  /\ x \in Flight \cup {Idle} /\ x.step # "commit"
               /\ x # Idle => Shaped(x) /\ Counted(x) /\ \A u : ~Holds(x, u)
<1> DEFINE q == requests[r]
           others == {u \in Users : "Owner" \in now[u]}
           x == [q EXCEPT !.step = "open", !.subject = q.actor, !.function = "Administrator",
                          !.owners = others, !.snapshot = {}]
           y == [q EXCEPT !.step = "write", !.snapshot = {}]
<1>1. q \in Flight /\ q.step = "commit" /\ q.function \in ORG_FUNCTIONS /\ q.subject \in Users
  BY FlightTyped DEF At, Steps, Shaped, Flight, None, ORG_FUNCTIONS
<1>2. Idle \in Flight \cup {Idle} /\ Idle.step # "commit"
  BY DEF Idle
<1>3. CASE q.kind = "transfer" /\ q.function = "Owner"
  <2>1. q.actor \in Users /\ q.actor # q.subject /\ q.subject \in others
    BY <1>1, <1>3 DEF Shaped
  <2>2. AfterReplacement(q, now) = x
    BY <1>3 DEF AfterReplacement
  <2>3. /\ x \in Flight /\ x.step = "open" /\ x.owners = others /\ x.kind = "transfer"
        /\ x.actor = q.actor /\ x.subject = q.actor /\ x.function = "Administrator"
        /\ x.invitation = q.invitation /\ x.row = q.row
    BY <1>1, <1>3, <2>1 DEF Flight, Steps, ORG_FUNCTIONS
  <2> HIDE DEF x, others
  <2>4. Shaped(x) /\ Counted(x) /\ \A u : ~Holds(x, u)
    BY <2>1, <2>3 DEF Shaped, Counted, Holds, ORG_FUNCTIONS
  <2> QED BY <2>2, <2>3, <2>4
<1>4. CASE ~(q.kind = "transfer" /\ q.function = "Owner") /\ q.kind = "accept"
  <2>1. AfterReplacement(q, now) = y
    BY <1>4 DEF AfterReplacement
  <2>2. /\ y \in Flight /\ y.step = "write" /\ y.owners = q.owners /\ y.kind = "accept"
        /\ y.actor = q.actor /\ y.subject = q.subject /\ y.function = q.function
        /\ y.invitation = q.invitation /\ y.row = q.row
    BY <1>1, <1>4 DEF Flight, Steps
  <2> HIDE DEF y
  <2>3. Shaped(y) /\ Counted(y) /\ \A u : ~Holds(y, u)
    <3>1. "accept" \in DOMAIN Written
      BY DEF Written
    <3> QED BY <1>1, <1>4, <2>2, <3>1 DEF Shaped, Counted, Holds
  <2> QED BY <2>1, <2>2, <2>3
<1>5. CASE ~(q.kind = "transfer" /\ q.function = "Owner") /\ q.kind # "accept"
  BY <1>2, <1>5 DEF AfterReplacement
<1> QED BY <1>3, <1>4, <1>5

\* What two requests share of a record whose snapshot alone differs.
Same(p, q) ==
    /\ p.step = q.step /\ p.kind = q.kind /\ p.actor = q.actor /\ p.subject = q.subject
    /\ p.function = q.function /\ p.invitation = q.invitation /\ p.owners = q.owners
    /\ p.row = q.row

\* An Owner is unseated by a request that has counted another one, which has left since.
LEMMA CommitReplacementKeeps == ASSUME IInv, NEW r \in Requests, CommitReplacement(r) PROVE IInv'
<1> DEFINE q == requests[r]
           u == q.subject
           now == [functions EXCEPT ![u] = (@ \ q.snapshot) \cup {q.function}]
           open(s) == s # r /\ At(s, "commit") /\ requests[s].subject = u
           x == AfterReplacement(q, now)
<1>1. q \in Flight /\ q # Idle /\ At(r, "commit") /\ Shaped(q) /\ Counted(q) /\ q.step = "commit"
  BY FlightTyped DEF IInv, Shapes, CommitReplacement, At, Steps
<1>2. u \in Users /\ q.function \in ORG_FUNCTIONS /\ q.kind \in {"change", "transfer", "accept"}
  BY <1>1 DEF Shaped, Flight, None, ORG_FUNCTIONS
<1>3. now \in [Users -> SUBSET ORG_FUNCTIONS] /\ q.function \in now[u]
      /\ now[u] = (functions[u] \ q.snapshot) \cup {q.function}
      /\ \A v \in Users \ {u} : now[v] = functions[v]
  BY <1>2 DEF IInv, TypeOK
<1>4. /\ functions' = now
      /\ requests' = [s \in Requests |->
            IF s = r THEN x
            ELSE IF open(s) THEN [requests[s] EXCEPT !.snapshot = @ \ q.snapshot]
            ELSE requests[s]]
      /\ overlapped' = overlapped \cup {v \in {u} : \E s \in Requests : open(s)}
      /\ Unseat(q, u \in Owners /\ "Owner" \notin now[u])
      /\ UNCHANGED <<members, invitations, late, granted, appointed, raced, served, faults>>
  BY DEF CommitReplacement
<1>5. x \in Flight \cup {Idle} /\ x.step # "commit"
      /\ (x # Idle => Shaped(x) /\ Counted(x) /\ \A v : ~Holds(x, v))
  BY <1>1, <1>3, AfterReplacementFacts DEF IInv
<1>6. ASSUME NEW s \in Requests, open(s)
      PROVE  LET y == [requests[s] EXCEPT !.snapshot = @ \ q.snapshot]
             IN  y \in Flight /\ y # Idle /\ requests[s] # Idle /\ Same(y, requests[s])
  <2>1. requests[s] \in Flight /\ requests[s] # Idle /\ requests[s].step = "commit"
    BY <1>6, FlightTyped DEF IInv, At, Steps
  <2> QED BY <2>1 DEF Flight, Same, Idle
<1> HIDE DEF x
<1>7. /\ requests'[r] = x
      /\ \A s \in Requests \ {r} :
            IF open(s)
            THEN /\ requests'[s] \in Flight /\ requests'[s] # Idle /\ requests[s] # Idle
                 /\ Same(requests'[s], requests[s])
            ELSE requests'[s] = requests[s]
  BY <1>4, <1>6
<1>8. /\ requests' \in [Requests -> Flight \cup {Idle}]
      /\ \A s \in Requests \ {r} :
            (requests'[s] # Idle <=> requests[s] # Idle) /\ Same(requests'[s], requests[s])
  BY <1>4, <1>5, <1>7 DEF IInv, TypeOK, Same
<1>9. /\ overlapped \subseteq overlapped' /\ overlapped' \subseteq overlapped \cup {u}
      /\ \A s \in Requests \ {r} : At(s, "commit") /\ requests[s].subject = u => u \in overlapped'
  BY <1>4
<1>10. \A s \in Requests \ {r} : requests[s].subject # u => requests'[s] = requests[s]
  BY <1>7
<1> HIDE DEF open
<1>11. u \in members /\ HasFound(r, u)
  <2>1. HasFound(r, u)
    BY <1>1 DEF HasFound
  <2> QED BY <1>2, <2>1 DEF IInv, FoundAreMembers
<1>12. \A v : /\ ~HasFound(r, v)'
              /\ HasFound(r, v) => v = u
              /\ \A s \in Requests \ {r} : HasFound(s, v)' <=> HasFound(s, v)
  <2>1. \A v : HasFound(r, v)' => x # Idle /\ Holds(x, v)
    BY <1>7 DEF HasFound, At, Holds
  <2>2. \A v : ~HasFound(r, v)'
    BY <1>5, <2>1
  <2>3. \A v : HasFound(r, v) => v = u
    BY DEF HasFound
  <2>4. \A v : \A s \in Requests \ {r} : HasFound(s, v)' <=> HasFound(s, v)
    BY <1>8 DEF HasFound, At, Same
  <2> QED BY <2>2, <2>3, <2>4
<1>13. ownersMoved' \in BOOLEAN /\ steppedDown' \in BOOLEAN
  BY <1>4 DEF Unseat, IInv, TypeOK
<1> HIDE DEF now
<1>14. TypeOK'
  BY <1>2, <1>3, <1>4, <1>8, <1>9, <1>13 DEF IInv, TypeOK
<1>15. Shapes'
  <2>2. ASSUME NEW s \in Requests \ {r}, requests'[s] # Idle
        PROVE  Shaped(requests[s])' /\ Counted(requests[s])'
    <3>1. Same(requests'[s], requests[s]) /\ Shaped(requests[s]) /\ Counted(requests[s])
      BY <1>8, <2>2 DEF IInv, Shapes
    <3>2. Shaped(requests[s])'
      BY <1>4, <3>1 DEF Shaped, Same
    <3>3. Counted(requests[s])'
      BY <3>1 DEF Counted, Same
    <3> QED BY <3>2, <3>3
  <2>3. x # Idle => Shaped(requests[r])' /\ Counted(requests[r])'
    BY <1>4, <1>5, <1>7 DEF Shaped, Counted
  <2> QED BY <1>7, <2>2, <2>3 DEF Shapes
<1>16. FoundAreMembers'
  BY <1>4, <1>12 DEF IInv, FoundAreMembers
<1>17. SnapshotsCurrent'
  <2> SUFFICES ASSUME NEW s \in Requests, At(s, "commit")',
                      requests'[s].subject \notin overlapped' \cup appointed
               PROVE  functions'[requests'[s].subject] \subseteq requests'[s].snapshot
    BY <1>4 DEF SnapshotsCurrent
  <2>1. s # r /\ At(s, "commit") /\ requests'[s].subject = requests[s].subject
    BY <1>5, <1>7, <1>8 DEF At, Same
  <2>2. requests[s].subject # u /\ requests[s].subject \in Users
    BY <1>9, <2>1, FlightTyped DEF IInv, At, Steps, Flight
  <2>3. requests'[s] = requests[s]
    BY <1>10, <2>1, <2>2
  <2> QED BY <1>3, <1>4, <1>9, <2>1, <2>2, <2>3 DEF IInv, SnapshotsCurrent
<1>18. SingleFunctions'
  <2> SUFFICES ASSUME NEW v \in Users, v \notin overlapped' \cup appointed
               PROVE  \E f \in ORG_FUNCTIONS : functions'[v] \subseteq {f}
    BY <1>4 DEF SingleFunctions
  <2>1. CASE v = u
    <3>1. functions[u] \subseteq q.snapshot
      BY <1>1, <1>9, <2>1 DEF IInv, SnapshotsCurrent
    <3> QED BY <1>2, <1>3, <1>4, <2>1, <3>1
  <2>2. CASE v # u
    BY <1>3, <1>4, <1>9, <2>2 DEF IInv, SingleFunctions
  <2> QED BY <2>1, <2>2
<1>19. OwnerKeptUnlessRaced'
  <2> SUFFICES ASSUME Owners' = {} PROVE ownersMoved' \/ steppedDown'
    BY DEF OwnerKeptUnlessRaced
  <2>1. CASE Owners = {}
    BY <1>4, <2>1 DEF IInv, OwnerKeptUnlessRaced, Unseat
  <2>2. CASE Owners # {}
    <3>1. Owners = {u} /\ "Owner" \notin now[u]
      BY <1>2, <1>3, <1>4, <2>2 DEF Owners
    <3>2. q.function # "Owner"
      BY <1>3, <3>1
    <3>3. q.kind # "accept" => q.owners # {u}
      BY <1>1, <1>2, <3>2 DEF Counted
    <3> HIDE DEF q, u
    <3> QED BY <1>4, <3>1, <3>3 DEF Unseat
  <2> QED BY <2>1, <2>2
<1>20. MembersHoldFunctions'
  <2> SUFFICES ASSUME NEW v \in Users
               PROVE  /\ functions'[v] # {} => v \in members
                      /\ v \in members /\ functions'[v] = {} =>
                            \/ faults > 0
                            \/ \E p \in Requests : HasFound(p, v)' /\ Appoints(requests[p])'
    BY <1>4 DEF MembersHoldFunctions, Appoints
  <2>1. CASE v = u
    BY <1>3, <1>4, <1>11, <2>1
  <2>2. CASE v # u
    <3>1. functions'[v] = functions[v]
      BY <1>3, <1>4, <2>2
    <3>2. \A p \in Requests : HasFound(p, v) /\ Appoints(requests[p])
             => HasFound(p, v)' /\ Appoints(requests[p])'
      BY <1>8, <1>12, <2>2 DEF Appoints, Same
    <3> QED BY <3>1, <3>2 DEF IInv, MembersHoldFunctions, Appoints
  <2> QED BY <2>1, <2>2
<1> QED BY <1>14, <1>15, <1>16, <1>17, <1>18, <1>19, <1>20 DEF IInv

-----------------------------------------------------------------------------
(* The theorems.                                                           *)

LEMMA InitIInv == Init => IInv
<1> SUFFICES ASSUME Init PROVE IInv
  OBVIOUS
<1>1. \A r \in Requests : requests[r] = Idle
  BY DEF Init
<1>2. TypeOK
  BY CreatorIsUser DEF Init, TypeOK, ORG_FUNCTIONS
<1>3. Shapes /\ FoundAreMembers /\ SnapshotsCurrent
  BY <1>1 DEF Shapes, FoundAreMembers, HasFound, SnapshotsCurrent, At, Idle
<1>4. SingleFunctions
  BY CreatorIsUser DEF Init, SingleFunctions, ORG_FUNCTIONS
<1>5. OwnerKeptUnlessRaced
  BY CreatorIsUser DEF Init, OwnerKeptUnlessRaced, Owners
<1>6. MembersHoldFunctions
  BY CreatorIsUser DEF Init, MembersHoldFunctions
<1> QED BY <1>2, <1>3, <1>4, <1>5, <1>6 DEF IInv

\* Neither a stuttering step nor the passing of seven days is seen by a member.
LEMMA QuietKeeps ==
    ASSUME IInv, UNCHANGED <<memberVars, invitations, granted, requests, history, served, faults>>,
           late' \subseteq Invitations
    PROVE  IInv'
<1>1. /\ UNCHANGED <<members, functions, invitations, granted, requests, ownersMoved, steppedDown>>
      /\ UNCHANGED <<overlapped, appointed, raced, served, faults>>
  BY DEF memberVars, history
<1>2. TypeOK'
  BY <1>1 DEF IInv, TypeOK
<1>3. Shapes' /\ SnapshotsCurrent' /\ SingleFunctions'
  BY <1>1 DEF IInv, Shapes, Shaped, Counted, SnapshotsCurrent, SingleFunctions, At
<1>4. \A r, u : HasFound(r, u)' <=> HasFound(r, u)
  BY <1>1 DEF HasFound, At
<1>5. FoundAreMembers' /\ OwnerKeptUnlessRaced' /\ MembersHoldFunctions'
  BY <1>1, <1>4 DEF IInv, FoundAreMembers, OwnerKeptUnlessRaced, Owners, MembersHoldFunctions
<1> QED BY <1>2, <1>3, <1>5 DEF IInv

LEMMA NextIInv == IInv /\ [Next]_vars => IInv'
<1> SUFFICES ASSUME IInv, [Next]_vars PROVE IInv'
  OBVIOUS
<1>1. CASE UNCHANGED vars
  BY <1>1, QuietKeeps DEF vars, IInv, TypeOK
<1>2. ASSUME NEW i \in Invitations, Expire(i) PROVE IInv'
  BY <1>2, QuietKeeps DEF Expire, IInv, TypeOK
<1>3. ASSUME NEW r \in Requests, Continue(r) PROVE IInv'
  BY <1>3, DecideKeeps, RevokePermissionsKeeps, GrantPermissionsKeeps, OpenReplacementKeeps,
     CommitReplacementKeeps, DeleteMembershipKeeps, JoinKeeps, AddMembershipRoleKeeps,
     WriteInvitationKeeps, TurnAwayKeeps
     DEF Continue
<1> QED BY <1>1, <1>2, <1>3, BeginKeeps, LoseRequestKeeps DEF Next

\* Whatever requests interleave or are lost, the state is typed.
THEOREM TypeCorrect == Spec => []TypeOK
<1>1. IInv => TypeOK
  BY DEF IInv
<1> QED BY <1>1, InitIInv, NextIInv, PTL DEF Spec

\* The organization loses its last Owner only to a request that had counted Owners who have left
\* since, or to an Owner who accepts an invitation.
THEOREM OwnerKept == Spec => []OwnerKeptUnlessRaced
<1>1. IInv => OwnerKeptUnlessRaced
  BY DEF IInv
<1> QED BY <1>1, InitIInv, NextIInv, PTL DEF Spec

\* Functions belong to members, and members have one as soon as no request is about to give it.
THEOREM MembersAndFunctions == Spec => []MembersHoldFunctions
<1>1. IInv => MembersHoldFunctions
  BY DEF IInv
<1> QED BY <1>1, InitIInv, NextIInv, PTL DEF Spec

\* A member has several functions only through overlapping replacements or an appointment.
THEOREM SingleFunction == Spec => []OneFunctionUnlessOverlapped
<1>1. IInv => OneFunctionUnlessOverlapped
  <2> SUFFICES ASSUME IInv, NEW u \in Users, Cardinality(functions[u]) > 1,
                      u \notin overlapped \cup appointed
               PROVE  FALSE
    BY DEF OneFunctionUnlessOverlapped
  <2>1. PICK f \in ORG_FUNCTIONS : functions[u] \subseteq {f}
    BY DEF IInv, SingleFunctions
  <2>2. IsFiniteSet({f}) /\ Cardinality({f}) = 1
    BY FS_Singleton
  <2>3. Cardinality(functions[u]) <= 1 /\ Cardinality(functions[u]) \in Nat
    BY <2>1, <2>2, FS_Subset, FS_CardinalityType
  <2> QED BY <2>3
<1> QED BY <1>1, InitIInv, NextIInv, PTL DEF Spec

\* A settled invitation is written again only by a request that had read it before.
THEOREM SettledIsFinal == Spec => SettledIsFinalUnlessRaced
<1>1. IInv /\ [Next]_vars =>
         [\A i \in Invitations \ raced' :
             invitations[i].status \in {"ACCEPTED", "CANCELLED", "EXPIRED"}
                => invitations'[i] = invitations[i]]_vars
  <2> SUFFICES ASSUME IInv, Next, NEW i \in Invitations \ raced',
                      invitations[i].status \in {"ACCEPTED", "CANCELLED", "EXPIRED"}
               PROVE  invitations'[i] = invitations[i]
    OBVIOUS
  <2>1. CASE UNCHANGED invitations
    BY <2>1
  <2>2. ASSUME NEW r \in Requests, WriteInvitation(r) PROVE invitations'[i] = invitations[i]
    <3> DEFINE q == requests[r]
               new == [user |-> q.subject, function |-> q.function, status |-> Written[q.kind]]
    <3>1. invitations' = [invitations EXCEPT ![q.invitation] = new]
          /\ (invitations[q.invitation] # q.row => q.invitation \in raced')
      BY <2>2 DEF WriteInvitation
    <3>2. q.row.status \in {"NONE", "PENDING"}
      BY <2>2, FlightTyped DEF WriteInvitation, At, Steps, IInv, Shapes, Shaped
    <3>3. i # q.invitation
      BY <3>1, <3>2
    <3> HIDE DEF new
    <3> QED BY <3>1, <3>3 DEF IInv, TypeOK
  <2>3. ASSUME NEW r \in Requests, Begin(r) PROVE UNCHANGED invitations
    BY <2>3 DEF Begin, AddOrganizationMember, Leave, RemoveMember, TransferOwnership,
                ChangeMemberFunction, Invite, Cancel, Resend, Accept, StartAccept, Start
  <2>4. ASSUME NEW r \in Requests, Continue(r) PROVE UNCHANGED invitations \/ WriteInvitation(r)
    BY <2>4 DEF Continue, Decide, RevokePermissions, GrantPermissions, OpenReplacement,
                CommitReplacement, DeleteMembership, Join, AddMembershipRole, TurnAway
  <2> QED BY <2>1, <2>2, <2>3, <2>4 DEF Next, LoseRequest, Expire
<1> QED BY <1>1, InitIInv, NextIInv, PTL DEF Spec, SettledIsFinalUnlessRaced

-----------------------------------------------------------------------------
(* Requests that do not overlap.                                           *)

\* The requests in flight that may still change who the Owners are, that are about user u, and
\* that hold invitation i.
Managing   == {r \in Requests : requests[r] # Idle /\ requests[r].step # "write"}
About(u)   == {r \in Requests : requests[r] # Idle /\ requests[r].subject = u}
Holding(i) == {r \in Requests : requests[r] # Idle /\ requests[r].invitation = i}

ManagedInTurn == \A r, q \in Managing : r = q
UserInTurn(u) == \A r, q \in About(u) : r = q
HeldInTurn(i) == \A r, q \in Holding(i) : r = q

\* The steps at which a management request has counted the Owners.
Counting(q) == q.step \in {"revoke", "grant", "open", "commit", "remove"} /\ q.kind # "accept"

\* The row a request has read of its invitation.
ReadRow(i) == IF i = None THEN NoInvitation ELSE invitations[i]

\* The statements that change functions.
Writes(r) == CommitReplacement(r) \/ DeleteMembership(r) \/ AddMembershipRole(r)

\* What a step may do of the record of a request: p is what it was, q what it becomes.
Starts(q) ==
    ~Counting(q) /\ q.row = ReadRow(q.invitation) /\ UNCHANGED <<functions, invitations>>

GoesOn(p, q) ==
    /\ p # Idle /\ q.kind = p.kind /\ q.invitation = p.invitation /\ q.row = p.row
    /\ \/ q.owners = Owners'
       \/ q.owners = p.owners /\ (Counting(q) => Counting(p))

LEMMA SetSlot ==
    ASSUME TypeOK, NEW r \in Requests, NEW x, requests' = [requests EXCEPT ![r] = x],
           NEW s \in Requests, requests'[s] # Idle,
           x # Idle => Starts(x) \/ GoesOn(requests[r], x)
    PROVE  Starts(requests'[s]) \/ GoesOn(requests[s], requests'[s])
<1>1. CASE s = r
  BY <1>1 DEF TypeOK
<1>2. CASE s # r
  BY <1>2 DEF TypeOK, GoesOn
<1> QED BY <1>1, <1>2

LEMMA StartSlot ==
    ASSUME TypeOK, NEW r \in Requests, NEW at, NEW kind, NEW actor, NEW subject, NEW function,
           NEW i, Start(r, at, kind, actor, subject, function, i),
           at \in {"decide", "join", "write"} \/ kind = "accept", NEW s \in Requests,
           requests'[s] # Idle
    PROVE  Starts(requests'[s]) \/ GoesOn(requests[s], requests'[s])
<1> DEFINE x == [step |-> at, kind |-> kind, actor |-> actor, subject |-> subject,
                 function |-> function, invitation |-> i, owners |-> {},
                 row |-> IF i = None THEN NoInvitation ELSE invitations[i], snapshot |-> {}]
<1>1. requests' = [requests EXCEPT ![r] = x] /\ UNCHANGED <<functions, invitations>>
  BY DEF Start, memberVars
<1>2. /\ x.step = at /\ x.kind = kind /\ x.invitation = i
      /\ x.row = (IF i = None THEN NoInvitation ELSE invitations[i])
  OBVIOUS
<1> HIDE DEF x
<1>3. Starts(x)
  BY <1>1, <1>2 DEF Starts, Counting, ReadRow
<1> QED BY <1>1, <1>3, SetSlot

LEMMA CommitSlot ==
    ASSUME IInv, NEW r \in Requests, CommitReplacement(r), NEW s \in Requests, requests'[s] # Idle
    PROVE  /\ GoesOn(requests[s], requests'[s])
           /\ s = r => requests'[s].owners = Owners' \/ ~Counting(requests'[s])
<1> DEFINE q == requests[r]
           now == [functions EXCEPT ![q.subject] = (@ \ q.snapshot) \cup {q.function}]
           open(t) == t # r /\ At(t, "commit") /\ requests[t].subject = q.subject
<1>1. q \in Flight /\ q # Idle /\ q.step = "commit" /\ functions' = now
  BY FlightTyped DEF IInv, CommitReplacement, At, Steps
<1>2. requests'[s] = IF s = r THEN AfterReplacement(q, now)
                     ELSE IF open(s) THEN [requests[s] EXCEPT !.snapshot = @ \ q.snapshot]
                     ELSE requests[s]
  BY DEF CommitReplacement
<1> DEFINE others == {u \in Users : "Owner" \in now[u]}
           x == [q EXCEPT !.step = "open", !.subject = q.actor, !.function = "Administrator",
                          !.owners = others, !.snapshot = {}]
           y == [q EXCEPT !.step = "write", !.snapshot = {}]
<1>3. AfterReplacement(q, now) \in {x, y, Idle}
  BY DEF AfterReplacement
<1>4. x.owners = others /\ x.kind = q.kind /\ x.invitation = q.invitation /\ x.row = q.row
  BY <1>1 DEF Flight
<1>5. y.step = "write" /\ y.kind = q.kind /\ y.invitation = q.invitation /\ y.row = q.row
      /\ y.owners = q.owners
  BY <1>1 DEF Flight
<1>6. Owners' = others
  BY <1>1 DEF Owners
<1> HIDE DEF x, y, now, others
<1>7. CASE s = r
  BY <1>1, <1>2, <1>3, <1>4, <1>5, <1>6, <1>7 DEF GoesOn, Counting
<1>8. CASE s # r /\ open(s)
  <2> DEFINE z == [requests[s] EXCEPT !.snapshot = @ \ q.snapshot]
  <2>1. requests[s] \in Flight /\ requests[s] # Idle
    BY <1>8, FlightTyped DEF IInv, At, Steps
  <2>2. z.step = requests[s].step /\ z.kind = requests[s].kind /\ z.row = requests[s].row
        /\ z.invitation = requests[s].invitation /\ z.owners = requests[s].owners
    BY <2>1 DEF Flight
  <2>3. requests'[s] = z
    BY <1>2, <1>8
  <2> HIDE DEF z
  <2> QED BY <1>8, <2>1, <2>2, <2>3 DEF GoesOn, Counting
<1>9. CASE s # r /\ ~open(s)
  BY <1>2, <1>9 DEF GoesOn
<1> QED BY <1>7, <1>8, <1>9

LEMMA DeleteSlot ==
    ASSUME IInv, NEW r \in Requests, DeleteMembership(r), NEW s \in Requests, requests'[s] # Idle
    PROVE  GoesOn(requests[s], requests'[s]) /\ s # r
<1> DEFINE u == requests[r].subject
           z == [requests[s] EXCEPT !.step = "orphan"]
<1>1. requests'[s] = IF s = r THEN Idle ELSE IF HasFound(s, u) THEN z ELSE requests[s]
  BY DEF DeleteMembership
<1>2. CASE HasFound(s, u)
  <2>1. requests[s] \in Flight
    BY <1>2, StepKnown DEF IInv, HasFound
  <2>2. z.step = "orphan" /\ z.kind = requests[s].kind /\ z.row = requests[s].row
        /\ z.invitation = requests[s].invitation /\ z.owners = requests[s].owners
    BY <2>1 DEF Flight
  <2> HIDE DEF z
  <2> QED BY <1>1, <1>2, <2>1, <2>2 DEF GoesOn, Counting, HasFound
<1>3. CASE ~HasFound(s, u)
  BY <1>1, <1>3 DEF GoesOn
<1> QED BY <1>2, <1>3

\* Every step starts a request or lets it go on.
LEMMA SlotStep ==
    ASSUME IInv, [Next]_vars, NEW s \in Requests, requests'[s] # Idle
    PROVE  Starts(requests'[s]) \/ GoesOn(requests[s], requests'[s])
<1>0. TypeOK
  BY DEF IInv
<1>1. ASSUME NEW r \in Requests, Begin(r)
      PROVE  Starts(requests'[s]) \/ GoesOn(requests[s], requests'[s])
  BY <1>0, <1>1, StartSlot
     DEF Begin, AddOrganizationMember, Leave, RemoveMember, TransferOwnership,
         ChangeMemberFunction, Invite, Cancel, Resend, Accept, StartAccept
<1>2. ASSUME NEW r \in Requests, Decide(r)
      PROVE  Starts(requests'[s]) \/ GoesOn(requests[s], requests'[s])
  <2> DEFINE q == requests[r]
             x == [q EXCEPT !.owners = Owners,
                            !.step = IF q.kind = "remove" THEN "remove" ELSE "revoke"]
  <2>1. q \in Flight /\ q # Idle
    BY <1>0, <1>2, FlightTyped DEF Decide, At, Steps
  <2>2. x.owners = Owners /\ x.invitation = q.invitation /\ x.row = q.row /\ x.kind = q.kind
    BY <2>1 DEF Flight
  <2>3. requests' = [requests EXCEPT ![r] = x] /\ Owners' = Owners
    BY <1>2 DEF Decide, Owners, memberVars
  <2> HIDE DEF x
  <2>4. GoesOn(q, x)
    BY <2>1, <2>2, <2>3 DEF GoesOn
  <2> QED BY <1>0, <2>3, <2>4, SetSlot
<1>3. ASSUME NEW r \in Requests,
             RevokePermissions(r) \/ GrantPermissions(r) \/ OpenReplacement(r) \/ Join(r)
      PROVE  Starts(requests'[s]) \/ GoesOn(requests[s], requests'[s])
  <2> DEFINE q == requests[r]
             at == CASE q.step = "revoke" -> "grant"
                     [] q.step = "grant"  -> IF q.kind = "accept" THEN "join" ELSE "open"
                     [] q.step = "open"   -> "commit"
                     [] q.step = "join"   -> IF q.kind = "appoint" THEN "add" ELSE "open"
             x == [q EXCEPT !.step = at]
             y == [q EXCEPT !.step = at, !.snapshot = functions[q.subject]]
  <2>1. /\ q \in Flight /\ q # Idle /\ Shaped(q)
        /\ q.step \in {"revoke", "grant", "open", "join"}
    BY <1>0, <1>3, FlightTyped
       DEF IInv, Shapes, RevokePermissions, GrantPermissions, OpenReplacement, Join, At, Steps
  <2>2. requests' = [requests EXCEPT ![r] = x] \/ requests' = [requests EXCEPT ![r] = y]
    BY <1>3 DEF RevokePermissions, GrantPermissions, OpenReplacement, Join, At, Goto
  <2>3. /\ x.step = at /\ x.kind = q.kind /\ x.owners = q.owners
        /\ x.invitation = q.invitation /\ x.row = q.row
        /\ y.step = at /\ y.kind = q.kind /\ y.owners = q.owners
        /\ y.invitation = q.invitation /\ y.row = q.row
    BY <2>1 DEF Flight
  <2>4. at \in {"join", "add"} \/ q.kind = "accept" \/ q.step \in {"revoke", "grant", "open"}
    BY <2>1 DEF Shaped
  <2> HIDE DEF x, y, at
  <2>5. GoesOn(q, x) /\ GoesOn(q, y)
    BY <2>1, <2>3, <2>4 DEF GoesOn, Counting
  <2>6. CASE requests' = [requests EXCEPT ![r] = x]
    BY <1>0, <2>5, <2>6, SetSlot
  <2>7. CASE requests' = [requests EXCEPT ![r] = y]
    BY <1>0, <2>5, <2>7, SetSlot
  <2> QED BY <2>2, <2>6, <2>7
<1>4. ASSUME NEW r \in Requests,
             WriteInvitation(r) \/ AddMembershipRole(r) \/ TurnAway(r) \/ LoseRequest(r)
      PROVE  Starts(requests'[s]) \/ GoesOn(requests[s], requests'[s])
  <2>1. requests' = [requests EXCEPT ![r] = Idle]
    BY <1>4 DEF WriteInvitation, AddMembershipRole, TurnAway, LoseRequest, Finish
  <2> QED BY <1>0, <2>1, SetSlot
<1>5. CASE UNCHANGED vars \/ \E i \in Invitations : Expire(i)
  <2>1. UNCHANGED requests
    BY <1>5 DEF vars, Expire
  <2> QED BY <2>1 DEF GoesOn
<1> QED BY <1>1, <1>2, <1>3, <1>4, <1>5, CommitSlot, DeleteSlot DEF Next, Continue

\* Who changes the functions, and who writes an invitation.
LEMMA WhoWrites ==
    ASSUME [Next]_vars
    PROVE  /\ UNCHANGED <<functions, ownersMoved, overlapped>> \/ \E r \in Requests : Writes(r)
           /\ UNCHANGED <<invitations, raced>> \/ \E r \in Requests : WriteInvitation(r)
<1>1. ASSUME NEW r \in Requests, Begin(r)
      PROVE  UNCHANGED <<functions, invitations, ownersMoved, overlapped, raced>>
  BY <1>1 DEF Begin, AddOrganizationMember, Leave, RemoveMember, TransferOwnership,
              ChangeMemberFunction, Invite, Cancel, Resend, Accept, StartAccept, Start,
              memberVars, history
<1>2. ASSUME NEW r \in Requests,
             Decide(r) \/ RevokePermissions(r) \/ GrantPermissions(r) \/ OpenReplacement(r)
                \/ Join(r) \/ TurnAway(r) \/ LoseRequest(r)
      PROVE  UNCHANGED <<functions, invitations, ownersMoved, overlapped, raced>>
  BY <1>2 DEF Decide, RevokePermissions, GrantPermissions, OpenReplacement, Join, TurnAway,
              LoseRequest, memberVars, history
<1>3. ASSUME NEW r \in Requests, Writes(r) PROVE UNCHANGED <<invitations, raced>>
  BY <1>3 DEF Writes, CommitReplacement, DeleteMembership, AddMembershipRole, history
<1>4. ASSUME NEW r \in Requests, WriteInvitation(r)
      PROVE  UNCHANGED <<functions, ownersMoved, overlapped>>
  BY <1>4 DEF WriteInvitation, memberVars
<1>5. CASE UNCHANGED vars \/ \E i \in Invitations : Expire(i)
  BY <1>5 DEF vars, Expire, memberVars, history
<1> QED BY <1>1, <1>2, <1>3, <1>4, <1>5 DEF Next, Continue, Writes

-----------------------------------------------------------------------------
(* The Owners.                                                             *)

\* The Owners a management request has counted are the Owners, and no one was unseated but so.
CountsHold ==
    /\ ~ownersMoved
    /\ \A r \in Requests : requests[r] # Idle /\ Counting(requests[r]) => requests[r].owners = Owners

LEMMA CountsKept == ASSUME IInv, ManagedInTurn, CountsHold, [Next]_vars PROVE CountsHold'
<1>1. ASSUME NEW s \in Requests, requests'[s] # Idle, Counting(requests'[s])
      PROVE  requests'[s].owners = Owners'
  <2>1. CASE Starts(requests'[s])
    BY <1>1, <2>1 DEF Starts
  <2>2. CASE GoesOn(requests[s], requests'[s]) /\ requests'[s].owners # Owners'
    <3>1. /\ requests[s] # Idle /\ Counting(requests[s])
          /\ requests'[s].owners = Owners
      BY <1>1, <2>2 DEF GoesOn, CountsHold
    <3>2. PICK r \in Requests : Writes(r)
      BY <2>2, <3>1, WhoWrites DEF Owners
    <3>3. requests[r] # Idle /\ requests[r].step # "write"
      BY <3>2, FlightTyped
         DEF IInv, Writes, CommitReplacement, DeleteMembership, AddMembershipRole, At, Steps
    <3>4. s = r
      BY <3>1, <3>3 DEF ManagedInTurn, Managing, Counting
    <3>5. ~CommitReplacement(r) /\ ~DeleteMembership(r)
      BY <1>1, <2>2, <3>4, CommitSlot, DeleteSlot
    <3>6. ~AddMembershipRole(r)
      BY <1>1, <3>4 DEF AddMembershipRole, Finish, IInv, TypeOK
    <3> QED BY <3>2, <3>5, <3>6 DEF Writes
  <2> QED BY <1>1, <2>1, <2>2, SlotStep
<1>2. ~ownersMoved'
  <2>1. CASE \E r \in Requests : Writes(r)
    <3> PICK r \in Requests : Writes(r)
      BY <2>1
    <3>1. CASE CommitReplacement(r) \/ DeleteMembership(r)
      <4>1. /\ requests[r] # Idle /\ requests[r].step \in {"commit", "remove"}
        BY <3>1, FlightTyped DEF IInv, CommitReplacement, DeleteMembership, At, Steps
      <4>2. requests[r].kind # "accept" => requests[r].owners = Owners
        BY <4>1 DEF CountsHold, Counting
      <4> QED BY <3>1, <4>2 DEF CommitReplacement, DeleteMembership, Unseat, CountsHold
    <3>2. CASE AddMembershipRole(r)
      BY <3>2 DEF AddMembershipRole, history, CountsHold
    <3> QED BY <3>1, <3>2 DEF Writes
  <2> QED BY <2>1, WhoWrites DEF CountsHold
<1> QED BY <1>1, <1>2 DEF CountsHold

-----------------------------------------------------------------------------
(* The functions of a user, and an invitation.                             *)

NotOverlapped(u) == u \notin overlapped

LEMMA NotOverlappedKept ==
    ASSUME NEW u \in Users, IInv, UserInTurn(u), NotOverlapped(u), [Next]_vars
    PROVE  NotOverlapped(u)'
<1>1. ASSUME NEW r \in Requests, CommitReplacement(r) PROVE u \notin overlapped'
  <2>1. SUFFICES ASSUME u \in overlapped' PROVE FALSE
    OBVIOUS
  <2>2. PICK s \in Requests : /\ s # r /\ At(s, "commit") /\ requests[s].subject = u
                              /\ At(r, "commit") /\ requests[r].subject = u
    BY <1>1, <2>1 DEF CommitReplacement, NotOverlapped
  <2>3. s \in About(u) /\ r \in About(u)
    BY <2>2, FlightTyped DEF About, At, Steps, IInv
  <2> QED BY <2>2, <2>3 DEF UserInTurn
<1>2. ASSUME NEW r \in Requests, DeleteMembership(r) \/ AddMembershipRole(r)
      PROVE  UNCHANGED overlapped
  BY <1>2 DEF DeleteMembership, AddMembershipRole, history
<1> QED BY <1>1, <1>2, WhoWrites DEF NotOverlapped, Writes

\* What the requests that hold an invitation have read of it is still there.
RowsHold(i) ==
    /\ i \notin raced
    /\ \A r \in Holding(i) : requests[r].row = invitations[i]

LEMMA RowsKept ==
    ASSUME NEW i \in Invitations, IInv, HeldInTurn(i), RowsHold(i), [Next]_vars
    PROVE  RowsHold(i)'
<1>1. ASSUME NEW r \in Requests, WriteInvitation(r)
      PROVE  /\ requests[r] # Idle /\ requests' = [requests EXCEPT ![r] = Idle]
             /\ requests[r].invitation # i => invitations'[i] = invitations[i]
             /\ i \notin raced'
  <2> DEFINE q == requests[r]
             new == [user |-> q.subject, function |-> q.function, status |-> Written[q.kind]]
  <2>1. /\ q # Idle
        /\ invitations' = [invitations EXCEPT ![q.invitation] = new]
        /\ raced' = IF invitations[q.invitation] # q.row THEN raced \cup {q.invitation} ELSE raced
        /\ requests' = [requests EXCEPT ![r] = Idle]
    BY <1>1, FlightTyped DEF IInv, WriteInvitation, At, Steps, Finish
  <2> HIDE DEF new
  <2>2. q.invitation # i => invitations'[i] = invitations[i]
    BY <2>1 DEF IInv, TypeOK
  <2> QED BY <2>1, <2>2 DEF RowsHold, Holding
<1>2. ASSUME NEW s \in Holding(i)' PROVE requests'[s].row = invitations'[i]
  <2>0. s \in Requests /\ requests'[s] # Idle /\ requests'[s].invitation = i
    BY <1>2 DEF Holding
  <2>1. CASE Starts(requests'[s])
    BY <2>0, <2>1, NoneIsNoId DEF Starts, ReadRow, None
  <2>2. CASE GoesOn(requests[s], requests'[s])
    <3>1. requests'[s].row = invitations[i] /\ s \in Holding(i)
      BY <2>0, <2>2 DEF GoesOn, RowsHold, Holding
    <3>2. ASSUME NEW r \in Requests, WriteInvitation(r) PROVE invitations'[i] = invitations[i]
      <4>1. s # r
        BY <1>1, <2>0, <3>2 DEF IInv, TypeOK
      <4>2. requests[r].invitation # i
        BY <1>1, <3>1, <3>2, <4>1 DEF HeldInTurn, Holding
      <4> QED BY <1>1, <3>2, <4>2
    <3> QED BY <3>1, <3>2, WhoWrites
  <2> QED BY <2>0, <2>1, <2>2, SlotStep
<1>3. i \notin raced'
  BY <1>1, WhoWrites DEF RowsHold
<1> QED BY <1>2, <1>3 DEF RowsHold

\* What is left of the properties when their exceptions cannot happen: the Owner who steps down
\* by an invitation and the functions a platform administrator adds stay.
OwnerStays == Owners = {} => steppedDown

OneFunction(u) == Cardinality(functions[u]) > 1 => u \in appointed

SettledStays(i) ==
    invitations[i].status \in {"ACCEPTED", "CANCELLED", "EXPIRED"}
       => invitations'[i] = invitations[i]

\* The exceptions above are overlapping requests, nothing else.  An organization whose management
\* requests never overlap keeps an Owner unless the last one takes the function of an invitation;
\* a user the requests about whom never overlap has one function unless an administrator of the
\* platform adds another; an invitation whose requests never overlap is final once settled.  What
\* is lost on the way changes nothing of it.
THEOREM UncontendedIsSound ==
    ASSUME NEW u \in Users, NEW j \in Invitations
    PROVE  /\ Spec /\ []ManagedInTurn => []OwnerStays
           /\ Spec /\ []UserInTurn(u) => []OneFunction(u)
           /\ Spec /\ []HeldInTurn(j) => [][SettledStays(j)]_vars
<1>0. Spec => []IInv
  BY InitIInv, NextIInv, PTL DEF Spec
<1>1. Init => CountsHold /\ NotOverlapped(u) /\ RowsHold(j)
  BY DEF Init, CountsHold, NotOverlapped, RowsHold, Holding
<1>2. Spec /\ []ManagedInTurn => []OwnerStays
  <2>1. IInv /\ ManagedInTurn /\ CountsHold /\ [Next]_vars => CountsHold'
    BY CountsKept
  <2>2. CountsHold /\ OwnerKeptUnlessRaced => OwnerStays
    BY DEF CountsHold, OwnerKeptUnlessRaced, OwnerStays
  <2> QED BY <1>0, <1>1, <2>1, <2>2, OwnerKept, PTL DEF Spec
<1>3. Spec /\ []UserInTurn(u) => []OneFunction(u)
  <2>1. IInv /\ UserInTurn(u) /\ NotOverlapped(u) /\ [Next]_vars => NotOverlapped(u)'
    BY NotOverlappedKept
  <2>2. NotOverlapped(u) /\ OneFunctionUnlessOverlapped => OneFunction(u)
    BY DEF NotOverlapped, OneFunctionUnlessOverlapped, OneFunction
  <2> QED BY <1>0, <1>1, <2>1, <2>2, SingleFunction, PTL DEF Spec
<1>4. Spec /\ []HeldInTurn(j) => [][SettledStays(j)]_vars
  <2>1. IInv /\ HeldInTurn(j) /\ RowsHold(j) /\ [Next]_vars => RowsHold(j)'
    BY RowsKept
  <2>2. /\ RowsHold(j)'
        /\ [\A i \in Invitations \ raced' :
               invitations[i].status \in {"ACCEPTED", "CANCELLED", "EXPIRED"}
                  => invitations'[i] = invitations[i]]_vars
        => [SettledStays(j)]_vars
    BY DEF RowsHold, SettledStays
  <2>3. Spec /\ []HeldInTurn(j) => []RowsHold(j)
    BY <1>0, <1>1, <2>1, PTL DEF Spec
  <2> QED BY <2>2, <2>3, SettledIsFinal, PTL DEF SettledIsFinalUnlessRaced
<1> QED BY <1>2, <1>3, <1>4

=============================================================================
