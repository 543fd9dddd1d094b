---------------------------- MODULE Organizations ----------------------------
(***************************************************************************)
(* The members of one organization (OrganizationsService) and the          *)
(* invitations to join it (InvitationsService): change of function,        *)
(* removal, departure, transfer of ownership, the life of an invitation,   *)
(* and the member a platform administrator appoints (IdentityAdminService).*)
(*                                                                         *)
(* A request first checks the right of its actor, then reads what its      *)
(* decision rests on, then writes; nothing holds the rows in between.  The *)
(* replacement of a member's function is a transaction at READ COMMITTED:  *)
(* its DELETE removes those rows its snapshot shows that are still there   *)
(* and its INSERT adds one, so that a row a concurrent transaction has     *)
(* inserted is kept.  One action is what happens up to the end of one      *)
(* statement that matters.                                                 *)
(***************************************************************************)
EXTENDS Naturals, FiniteSets

CONSTANTS
    Users,        \* ids of users; an invitation is sent to the address of one
    Creator,      \* the user who has created the organization
    Invitations,  \* ids of invitations
    Requests,     \* requests in flight at one time
    MaxRequests,  \* bound of the model: requests served
    MaxFaults     \* bound of the model: lost processes

ASSUME CreatorIsUser == Creator \in Users
ASSUME BoundsAreNat  == MaxRequests \in Nat /\ MaxFaults \in Nat

ASSUME NoneIsNoId == "none" \notin Invitations

VARIABLES
    members,      \* the users with an organization_memberships row
    functions,    \* the functions (membership_roles) of a user
    invitations,  \* the organization_invitations row of an id
    late,         \* the invitations whose expiresAt is past
    granted,      \* the functions whose role has its permissions
    requests,     \* the request that occupies a slot
    ownersMoved,  \* history: an Owner was removed or replaced after the Owners had changed
    steppedDown,  \* history: an Owner has taken the function of an invitation
    overlapped,   \* history: users whose function two transactions were replacing at once
    appointed,    \* history: users a platform administrator has made members
    raced,        \* history: invitations written by a request that had read another row
    served,       \* requests so far
    faults        \* faults so far

memberVars == <<members, functions>>
history    == <<ownersMoved, steppedDown, overlapped, appointed, raced>>
vars == <<memberVars, invitations, late, granted, requests, history, served, faults>>

ORG_FUNCTIONS == {"Owner", "Administrator", "Event Manager"}
CAN_MANAGE_MEMBERS == {"Owner", "Administrator"}

InvitationStatus == {"PENDING", "ACCEPTED", "CANCELLED", "EXPIRED"}
Invitation   == [user: Users, function: ORG_FUNCTIONS, status: InvitationStatus]
NoInvitation == [status |-> "NONE"]

Idle  == [step |-> "idle"]
None  == "none"
Kinds == {"change", "remove", "transfer", "invite", "cancel", "resend", "accept", "expire",
          "appoint"}
Steps == {"decide", "revoke", "grant", "open", "commit", "remove", "join", "add", "write", "orphan"}
\* actor: the author of a transfer; owners, row, snapshot: what the request has read of the
\* Owners, of its invitation and of the roles its transaction replaces
Flight == [step: Steps, kind: Kinds, actor: Users \cup {None}, subject: Users,
           function: ORG_FUNCTIONS \cup {None}, invitation: Invitations \cup {None},
           owners: SUBSET Users, row: Invitation \cup {NoInvitation},
           snapshot: SUBSET ORG_FUNCTIONS]

TypeOK ==
    /\ members \subseteq Users
    /\ functions \in [Users -> SUBSET ORG_FUNCTIONS]
    /\ invitations \in [Invitations -> Invitation \cup {NoInvitation}]
    /\ late \subseteq Invitations /\ raced \subseteq Invitations
    /\ granted \subseteq ORG_FUNCTIONS
    /\ requests \in [Requests -> Flight \cup {Idle}]
    /\ ownersMoved \in BOOLEAN /\ steppedDown \in BOOLEAN 
    /\ overlapped \subseteq Users /\ appointed \subseteq Users
    /\ served \in Nat /\ faults \in Nat

\* createWithOwner: the organization and its only Owner, in one transaction.
Init ==
    /\ members = {Creator}
    /\ functions = [u \in Users |-> IF u = Creator THEN {"Owner"} ELSE {}]
    /\ invitations = [i \in Invitations |-> NoInvitation]
    /\ late = {} /\ raced = {} /\ overlapped = {} /\ appointed = {}
    /\ granted = ORG_FUNCTIONS
    /\ requests = [r \in Requests |-> Idle]
    /\ ownersMoved = FALSE /\ steppedDown = FALSE
    /\ served = 0 /\ faults = 0

-----------------------------------------------------------------------------
(* What the checks read.                                                   *)

Owners == {u \in Users : "Owner" \in functions[u]}

\* assertCanManage
CanManage(u) == u \in members /\ functions[u] \cap CAN_MANAGE_MEMBERS # {}

\* Mutant of LastOwner: the only Owner is taken for one among several.
LastOwnerForgotten(u) == u \in Owners /\ Owners = {}

\* The target is an Owner and the count of Owners is one.
LastOwner(u) == u \in Owners /\ Owners \ {u} = {}

At(r, step) == requests[r].step = step
Goto(r, step) == requests' = [requests EXCEPT ![r].step = step]
Finish(r) == requests' = [requests EXCEPT ![r] = Idle]

\* Slot r starts a request whose next call is at.
Start(r, at, kind, actor, subject, function, i) ==
    /\ requests[r] = Idle
    /\ served < MaxRequests /\ served' = served + 1
    /\ requests' = [requests EXCEPT ![r] =
          [step |-> at, kind |-> kind, actor |-> actor, subject |-> subject,
           function |-> function, invitation |-> i, owners |-> {},
           row |-> IF i = None THEN NoInvitation ELSE invitations[i], snapshot |-> {}]]
    /\ UNCHANGED <<memberVars, invitations, late, granted, history, faults>>

-----------------------------------------------------------------------------
(* OrganizationsService.                                                   *)

ChangeMemberFunction(r, a, u, f) ==
    CanManage(a) /\ Start(r, "decide", "change", None, u, f, None)

RemoveMember(r, a, u) ==
    CanManage(a) /\ Start(r, "decide", "remove", None, u, None, None)

\* A departure is the removal of oneself, which takes no right.
Leave(r, u) ==
    u \in members /\ Start(r, "decide", "remove", None, u, None, None)

TransferOwnership(r, a, u) ==
    a \in Owners /\ a # u /\ Start(r, "decide", "transfer", a, u, "Owner", None)

\* The target is a member and, if it is to be unseated, not the last Owner.
MayGoOn(q) ==
    /\ q.subject \in members
    /\ q.kind = "remove" \/ (q.kind = "change" /\ q.function # "Owner") => ~LastOwner(q.subject)

Decide(r) ==
    LET q == requests[r]
    IN  /\ At(r, "decide")
        /\ MayGoOn(q)
        /\ requests' = [requests EXCEPT ![r].owners = Owners,
              ![r].step = IF q.kind = "remove" THEN "remove" ELSE "revoke"]
        /\ UNCHANGED <<memberVars, invitations, late, granted, history, served, faults>>

\* ensureFunctionRole deletes the permissions of a role and creates them again; a transfer
\* does it for both functions it assigns.
Ensured(q) == IF q.kind = "transfer" THEN {"Owner", "Administrator"} ELSE {q.function}

RevokePermissions(r) ==
    /\ At(r, "revoke")
    /\ granted' = granted \ Ensured(requests[r])
    /\ Goto(r, "grant")
    /\ UNCHANGED <<memberVars, invitations, late, history, served, faults>>

GrantPermissions(r) ==
    /\ At(r, "grant")
    /\ granted' = granted \cup Ensured(requests[r])
    /\ Goto(r, IF requests[r].kind = "accept" THEN "join" ELSE "open")
    /\ UNCHANGED <<memberVars, invitations, late, history, served, faults>>

\* setMemberFunction finds the membership and its transaction takes its snapshot.
OpenReplacement(r) ==
    /\ At(r, "open")
    /\ requests[r].subject \in members
    /\ requests' = [requests EXCEPT ![r].step = "commit",
                                    ![r].snapshot = functions[requests[r].subject]]
    /\ UNCHANGED <<memberVars, invitations, late, granted, history, served, faults>>

\* History: request q is about to leave the Owners without subject.
Unseat(q, left) ==
    /\ ownersMoved' = (ownersMoved \/ (left /\ q.kind # "accept" /\ Owners # q.owners))
    /\ steppedDown' = (steppedDown \/ (left /\ q.kind = "accept"))

\* What follows the replacement: a transfer goes on with its author, who becomes
\* Administrator; an acceptance marks its invitation.
AfterReplacement(q, now) ==
    IF q.kind = "transfer" /\ q.function = "Owner"
    THEN [q EXCEPT !.step = "open", !.subject = q.actor, !.function = "Administrator",
                   !.owners = {u \in Users : "Owner" \in now[u]}, !.snapshot = {}]
    ELSE IF q.kind = "accept" THEN [q EXCEPT !.step = "write", !.snapshot = {}] ELSE Idle

\* The transaction of q inserts a row that is there and that it has not deleted.
BreaksKey(q) == q.function \in functions[q.subject] \ q.snapshot

\* Mutant of CommitReplacement: the former functions are not deleted.
CommitAdds(r) ==
    LET q   == requests[r]
        now == [functions EXCEPT ![q.subject] = @ \cup {q.function}]
        open(s) == s # r /\ At(s, "commit") /\ requests[s].subject = q.subject
    IN  /\ At(r, "commit")
        /\ ~BreaksKey(q)
        /\ functions' = now
        /\ requests' = [s \in Requests |->
              IF s = r THEN AfterReplacement(q, now)
              ELSE IF open(s) THEN [requests[s] EXCEPT !.snapshot = @ \ q.snapshot]
              ELSE requests[s]]
        /\ overlapped' = overlapped \cup {u \in {q.subject} : \E s \in Requests : open(s)}
        /\ Unseat(q, FALSE)
        /\ UNCHANGED <<members, invitations, late, granted, appointed, raced, served, faults>>

\* The transaction commits; what it has deleted, no other one can delete.
CommitReplacement(r) ==
    LET q   == requests[r]
        now == [functions EXCEPT ![q.subject] = (@ \ q.snapshot) \cup {q.function}]
        open(s) == s # r /\ At(s, "commit") /\ requests[s].subject = q.subject
    IN  /\ At(r, "commit")
        /\ ~BreaksKey(q)
        /\ functions' = now
        /\ requests' = [s \in Requests |->
              IF s = r THEN AfterReplacement(q, now)
              ELSE IF open(s) THEN [requests[s] EXCEPT !.snapshot = @ \ q.snapshot]
              ELSE requests[s]]
        /\ overlapped' = overlapped \cup {u \in {q.subject} : \E s \in Requests : open(s)}
        /\ Unseat(q, q.subject \in Owners /\ "Owner" \notin now[q.subject])
        /\ UNCHANGED <<members, invitations, late, granted, appointed, raced, served, faults>>

\* The membership of u that request s has found, if it has one in hand.
HasFound(s, u) ==
    /\ requests[s] # Idle /\ requests[s].subject = u
    /\ At(s, "commit") \/ At(s, "add") \/ (At(s, "open") /\ requests[s].kind = "accept")

\* Mutant of DeleteMembership: a transaction that has found the membership goes on.
DeleteAndGoOn(r) ==
    LET u == requests[r].subject
    IN  /\ At(r, "remove")
        /\ members' = members \ {u}
        /\ functions' = [functions EXCEPT ![u] = {}]
        /\ Finish(r)
        /\ Unseat(requests[r], u \in Owners)
        /\ UNCHANGED <<invitations, late, granted, overlapped, appointed, raced, served, faults>>

\* The membership goes with its roles; a request that has found it will break its foreign key.
DeleteMembership(r) ==
    LET u == requests[r].subject
    IN  /\ At(r, "remove")
        /\ members' = members \ {u}
        /\ functions' = [functions EXCEPT ![u] = {}]
        /\ requests' = [s \in Requests |->
              IF s = r THEN Idle
              ELSE IF HasFound(s, u) THEN [requests[s] EXCEPT !.step = "orphan"] ELSE requests[s]]
        /\ Unseat(requests[r], u \in Owners)
        /\ UNCHANGED <<invitations, late, granted, overlapped, appointed, raced, served, faults>>

-----------------------------------------------------------------------------
(* InvitationsService.                                                     *)

\* The row is created under a fresh id.
Invite(r, a, u, f, i) ==
    /\ CanManage(a) /\ invitations[i] = NoInvitation
    /\ \A s \in Requests : requests[s] # Idle => requests[s].invitation # i
    /\ Start(r, "write", "invite", None, u, f, i)

Cancel(r, a, i) ==
    /\ CanManage(a) /\ invitations[i].status = "PENDING"
    /\ Start(r, "write", "cancel", None, invitations[i].user, invitations[i].function, i)

Resend(r, a, i) ==
    /\ CanManage(a) /\ invitations[i].status = "PENDING"
    /\ Start(r, "write", "resend", None, invitations[i].user, invitations[i].function, i)

\* An acceptance of i by its addressee; one that comes too late only marks it.
StartAccept(r, i) ==
    LET to == invitations[i]
    IN  IF i \in late THEN Start(r, "write", "expire", None, to.user, to.function, i)
        ELSE Start(r, "revoke", "accept", None, to.user, to.function, i)

\* Mutant of Accept: the status of the invitation is not looked at.
AcceptAny(r, i) == invitations[i] # NoInvitation /\ StartAccept(r, i)

Accept(r, i) == invitations[i].status = "PENDING" /\ StartAccept(r, i)

\* joinWithFunction, and ensureMembership for an appointment: the membership is found or created.
Join(r) ==
    LET q == requests[r]
    IN  /\ At(r, "join")
        /\ members' = members \cup {q.subject}
        /\ appointed' = IF q.kind = "appoint" THEN appointed \cup {q.subject} ELSE appointed
        /\ Goto(r, IF q.kind = "appoint" THEN "add" ELSE "open")
        /\ UNCHANGED <<functions, invitations, late, granted, ownersMoved, steppedDown, overlapped,
                       raced, served, faults>>

\* The status each kind of request writes.
Written == [invite |-> "PENDING", resend |-> "PENDING", cancel |-> "CANCELLED",
            accept |-> "ACCEPTED", expire |-> "EXPIRED"]

\* The row is created, refreshed or settled, whatever it is by now.
WriteInvitation(r) ==
    LET q == requests[r]
        i == q.invitation
    IN  /\ At(r, "write")
        /\ invitations' = [invitations EXCEPT ![i] =
              [user |-> q.subject, function |-> q.function, status |-> Written[q.kind]]]
        /\ late' = IF q.kind \in {"invite", "resend"} THEN late \ {i} ELSE late
        /\ raced' = IF invitations[i] # q.row THEN raced \cup {i} ELSE raced
        /\ Finish(r)
        /\ UNCHANGED <<memberVars, granted, ownersMoved, steppedDown, overlapped, appointed,
                       served, faults>>

\* Seven days pass.
Expire(i) ==
    /\ invitations[i].status = "PENDING" /\ i \notin late
    /\ late' = late \cup {i}
    /\ UNCHANGED <<memberVars, invitations, granted, requests, history, served, faults>>

-----------------------------------------------------------------------------
(* IdentityAdminService: the role is added to those the member has.        *)

AddOrganizationMember(r, u, f) == Start(r, "join", "appoint", None, u, f, None)

AddMembershipRole(r) ==
    /\ At(r, "add")
    /\ functions' = [functions EXCEPT ![requests[r].subject] = @ \cup {requests[r].function}]
    /\ Finish(r)
    /\ UNCHANGED <<members, invitations, late, granted, history, served, faults>>

-----------------------------------------------------------------------------

\* The request is answered with an exception, and what it has written stays.
TurnAway(r) ==
    LET q == requests[r]
    IN  /\ \/ At(r, "decide") /\ ~MayGoOn(q)
           \/ At(r, "open") /\ q.subject \notin members
           \/ At(r, "commit") /\ BreaksKey(q)
           \/ At(r, "orphan")
        /\ Finish(r)
        /\ UNCHANGED <<memberVars, invitations, late, granted, history, served, faults>>

\* The process dies, or a call fails: some of the permissions being granted may be there.
LoseRequest(r) ==
    /\ requests[r] # Idle
    /\ faults < MaxFaults /\ faults' = faults + 1
    /\ IF At(r, "grant") THEN \E some \in SUBSET Ensured(requests[r]) : granted' = granted \cup some
                         ELSE UNCHANGED granted
    /\ Finish(r)
    /\ UNCHANGED <<memberVars, invitations, late, history, served>>

Begin(r) ==
    \/ \E u \in Users, f \in ORG_FUNCTIONS : AddOrganizationMember(r, u, f)
    \/ \E u \in Users : Leave(r, u)
    \/ \E a, u \in Users : RemoveMember(r, a, u) \/ TransferOwnership(r, a, u)
    \/ \E a, u \in Users, f \in ORG_FUNCTIONS : ChangeMemberFunction(r, a, u, f)
    \/ \E a, u \in Users, f \in ORG_FUNCTIONS, i \in Invitations : Invite(r, a, u, f, i)
    \/ \E a \in Users, i \in Invitations : Cancel(r, a, i) \/ Resend(r, a, i)
    \/ \E i \in Invitations : Accept(r, i)

Continue(r) ==
    \/ Decide(r) \/ RevokePermissions(r) \/ GrantPermissions(r)
    \/ OpenReplacement(r) \/ CommitReplacement(r) \/ DeleteMembership(r)
    \/ Join(r) \/ AddMembershipRole(r) \/ WriteInvitation(r) \/ TurnAway(r)

Next ==
    \/ \E r \in Requests : Begin(r) \/ Continue(r) \/ LoseRequest(r)
    \/ \E i \in Invitations : Expire(i)

Spec == Init /\ [][Next]_vars

-----------------------------------------------------------------------------
(* Properties.                                                             *)

\* Whatever removals, demotions, transfers and acceptances interleave, the organization has
\* lost its last Owner only if a request unseated one after the Owners it had counted had
\* changed, or if an Owner took the function of an invitation, which counts nothing.
OwnerKeptUnlessRaced == Owners = {} => ownersMoved \/ steppedDown

\* A member has several functions only if two replacements of them were open at once, or if
\* a platform administrator has added one.
OneFunctionUnlessOverlapped ==
    \A u \in Users : Cardinality(functions[u]) > 1 => u \in overlapped \cup appointed

\* Functions belong to members, and a member without one is a member whose request is about
\* to give it one, or was lost before it did.
MembersHoldFunctions ==
    \A u \in Users :
        /\ functions[u] # {} => u \in members
        /\ u \in members /\ functions[u] = {} =>
              \/ faults > 0
              \/ \E r \in Requests : HasFound(r, u) /\ requests[r].kind \in {"accept", "appoint"}

\* An invitation that is accepted, cancelled or expired stays so, unless a request writes it
\* that had read it before it was settled.
SettledIsFinalUnlessRaced ==
    [][\A i \in Invitations \ raced' :
          invitations[i].status \in {"ACCEPTED", "CANCELLED", "EXPIRED"}
             => invitations'[i] = invitations[i]]_vars

=============================================================================
