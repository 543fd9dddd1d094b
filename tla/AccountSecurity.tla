---------------------------- MODULE AccountSecurity ----------------------------
(***************************************************************************)
(* The accounts and what protects them: registration (AuthService), the    *)
(* links that verify an address, recover a password or confirm a new       *)
(* address (AccountLifecycleService, AccountSecurityService), suspension   *)
(* (UsersService), erasure (AccountPrivacyService) and the second factor   *)
(* (AccountMfaService).                                                    *)
(*                                                                         *)
(* Every request reads first and writes by later calls of its own, nothing *)
(* but the erasure being a transaction.  One action is what happens up to  *)
(* the end of one awaited call that matters: a mail sent and an entry of   *)
(* the security audit change nothing here.  A password given is right, a   *)
(* link presented exists, a TOTP code is that of the secret read.          *)
(***************************************************************************)
EXTENDS Naturals, Sequences

CONSTANTS
    Users,         \* ids of users
    Addresses,     \* e-mail addresses
    NoAddress,     \* the address of an erased account, which nobody else has or types
    RecoveryCodes, \* the recovery codes enableMfa draws, new ones each time
    Requests,      \* requests in flight at one time
    MaxRequests,   \* bound of the model: requests served
    MaxFaults      \* bound of the model: requests lost on the way

ASSUME NoAddressAssumption == NoAddress \notin Addresses

VARIABLES
    users,       \* the users row of an id
    links,       \* the account_tokens, in the order of their creation
    requests,    \* the request that occupies a slot
    writes,      \* history: how many times the password of a user was written
    proved,      \* history: the addresses a user has consumed a link from
    tried,       \* history: the secrets of a user a TOTP code was verified against
    spent,       \* history: the recovery codes in force a user has logged in with
    twice,       \* history: users who logged in twice with one recovery code
    overlapped,  \* history: <<user, kind>> for which two links were issued at one time
    interrupted, \* history: users whose password was written and whose links stayed open
    overtaken,   \* history: users erased while another request about them was under way
    crossed,     \* history: users with two operations on the second factor at one time
    served,      \* requests so far
    faults       \* faults so far

history == <<writes, proved, tried, spent, twice, overlapped, interrupted, overtaken, crossed>>
vars == <<users, links, requests, history, served, faults>>

AccountTokenType == {"EMAIL_VERIFICATION", "PASSWORD_RESET", "EMAIL_CHANGE"}
AccountStatus == {"REGISTERED", "ACTIVE", "SUSPENDED", "DELETED"}

NoAccount == [status |-> "NONE"]
\* verified, password, mfa: emailVerifiedAt, a passwordHash, mfaEnabledAt are there; secret 0: none
Account == [status: AccountStatus, isActive: BOOLEAN, email: Addresses \cup {NoAddress},
            verified: BOOLEAN, password: BOOLEAN, mfa: BOOLEAN, secret: Nat,
            codes: SUBSET RecoveryCodes]

\* to: where the link was mailed; address: the new one it would confirm; written: the passwords
\* its owner had been given when it was created
Link == [owner: Users, kind: AccountTokenType, to: Addresses \cup {NoAddress},
         address: Addresses \cup {NoAddress}, open: BOOLEAN, written: Nat]

Idle == [step |-> "idle"]
IssueSteps  == {"register", "invalidate", "create"}
FactorSteps == {"secret", "enable", "disable", "spend"}
Steps == IssueSteps \cup FactorSteps
           \cup {"verify", "confirm", "replace", "password", "close", "status", "erase"}

At(r, step) == requests[r].step = step
Exists(u)   == users[u] # NoAccount

\* A request under way, about a user: what it has read or was given, for the steps that follow.
InFlightTyped(q) ==
    /\ q.step \in Steps /\ q.user \in Users
    /\ q.step \in IssueSteps =>
          q.kind \in AccountTokenType /\ q.to \in Addresses /\ q.address \in Addresses
    /\ q.step \in {"confirm", "replace"} => q.address \in Addresses
    /\ q.step = "status" => q.isActive \in BOOLEAN /\ q.status \in AccountStatus
    /\ q.step = "secret" => q.secret \in Nat
    /\ q.step = "spend" => q.code \in RecoveryCodes /\ q.left \subseteq RecoveryCodes

TypeOK ==
    /\ users \in [Users -> Account \cup {NoAccount}]
    /\ links \in Seq(Link)
    /\ DOMAIN requests = Requests
    /\ \A r \in Requests : requests[r] # Idle => InFlightTyped(requests[r])
    /\ writes \in [Users -> Nat] /\ proved \in [Users -> SUBSET Addresses]
    /\ tried \in [Users -> SUBSET Nat] /\ spent \in [Users -> SUBSET RecoveryCodes]
    /\ overlapped \subseteq Users \X AccountTokenType
    /\ twice \cup interrupted \cup overtaken \cup crossed \subseteq Users
    /\ served \in Nat /\ faults \in Nat

\* Some people have an account already, active and verified.
Member(a) == [status |-> "ACTIVE", isActive |-> TRUE, email |-> a, verified |-> TRUE,
              password |-> TRUE, mfa |-> FALSE, secret |-> 0, codes |-> {}]

Init ==
    /\ \E at \in [Users -> Addresses \cup {NoAddress}] :
          /\ \A u, v \in Users : at[u] = at[v] => u = v \/ at[u] = NoAddress
          /\ users = [u \in Users |-> IF at[u] = NoAddress THEN NoAccount ELSE Member(at[u])]
          /\ proved = [u \in Users |-> {at[u]} \ {NoAddress}]
    /\ links = << >>
    /\ requests = [r \in Requests |-> Idle]
    /\ writes = [u \in Users |-> 0]
    /\ tried = [u \in Users |-> {}] /\ spent = [u \in Users |-> {}] /\ twice = {}
    /\ overlapped = {} /\ interrupted = {} /\ overtaken = {} /\ crossed = {}
    /\ served = 0 /\ faults = 0

-----------------------------------------------------------------------------
(* Requests.                                                               *)

Finish(r) == requests' = [requests EXCEPT ![r] = Idle]

Goto(r, step) == requests' = [requests EXCEPT ![r].step = step]

\* Some other request is at one of the steps for the user of r.
Meets(r, u, steps) ==
    \E q \in Requests \ {r} :
       requests[q] # Idle /\ requests[q].user = u /\ requests[q].step \in steps

\* Slot r takes up request q: its first write is that of its step.
Start(r, q) ==
    /\ requests[r] = Idle /\ served < MaxRequests /\ served' = served + 1
    /\ requests' = [requests EXCEPT ![r] = q]
    /\ UNCHANGED <<writes, spent, twice, interrupted, overtaken, faults>>

\* emailInUse: an account other than that of u has the address, be it suspended
EmailInUse(a, u) == \E v \in Users \ {u} : Exists(v) /\ users[v].email = a

\* invalidateTokens: the links of a kind a user has not used are used from now on.
Invalidated(u, kind) ==
    [i \in DOMAIN links |->
       IF links[i].owner = u /\ links[i].kind = kind THEN [links[i] EXCEPT !.open = FALSE]
                                                     ELSE links[i]]

-----------------------------------------------------------------------------
(* Links.                                                                  *)

\* A link of a kind is to be issued to the user: history notes another being issued.
StartIssue(r, u, step, kind, to, address) ==
    /\ Start(r, [step |-> step, user |-> u, kind |-> kind, to |-> to, address |-> address])
    /\ overlapped' = IF \E q \in Requests \ {r} : /\ requests[q].step \in IssueSteps
                                                  /\ requests[q].user = u
                                                  /\ requests[q].kind = kind
                     THEN overlapped \cup {<<u, kind>>} ELSE overlapped
    /\ UNCHANGED <<users, links, proved, tried, crossed>>

\* The address is free when looked up; no other request creates the same row.
Register(r, u, a) ==
    /\ ~Exists(u) /\ ~Meets(r, u, Steps) /\ ~EmailInUse(a, u)
    /\ StartIssue(r, u, "register", "EMAIL_VERIFICATION", a, a)

\* The address is unique: one taken meanwhile refuses the row.
CreateUser(r) ==
    LET u == requests[r].user
        a == requests[r].to
    IN  /\ At(r, "register")
        /\ IF EmailInUse(a, u)
             THEN Finish(r) /\ UNCHANGED users
             ELSE /\ users' = [users EXCEPT ![u] =
                        [Member(a) EXCEPT !.status = "REGISTERED", !.verified = FALSE]]
                  /\ Goto(r, "invalidate")
        /\ UNCHANGED <<links, history, served, faults>>

ResendVerification(r, u) ==
    /\ Exists(u) /\ ~users[u].verified /\ users[u].isActive /\ users[u].email # NoAddress
    /\ StartIssue(r, u, "invalidate", "EMAIL_VERIFICATION", users[u].email, users[u].email)

RequestPasswordReset(r, u) ==
    /\ Exists(u) /\ users[u].isActive /\ users[u].email # NoAddress
    /\ StartIssue(r, u, "invalidate", "PASSWORD_RESET", users[u].email, users[u].email)

\* Mutant of RequestEmailChange: the link goes to the address in force.
RequestEmailChangeAtOld(r, u, a) ==
    /\ Exists(u) /\ users[u].password /\ ~EmailInUse(a, u)
    /\ StartIssue(r, u, "invalidate", "EMAIL_CHANGE", users[u].email, a)

RequestEmailChange(r, u, a) ==
    /\ Exists(u) /\ users[u].password /\ ~EmailInUse(a, u)
    /\ StartIssue(r, u, "invalidate", "EMAIL_CHANGE", a, a)

\* Mutant of InvalidateLinks: the earlier links are left open.
InvalidateNothing(r) ==
    /\ At(r, "invalidate")
    /\ Goto(r, "create")
    /\ UNCHANGED <<users, links, history, served, faults>>

InvalidateLinks(r) ==
    /\ At(r, "invalidate")
    /\ links' = Invalidated(requests[r].user, requests[r].kind)
    /\ Goto(r, "create")
    /\ UNCHANGED <<users, history, served, faults>>

CreateToken(r) ==
    LET q == requests[r]
    IN  /\ At(r, "create")
        /\ links' = Append(links, [owner |-> q.user, kind |-> q.kind, to |-> q.to,
                                   address |-> q.address, open |-> TRUE,
                                   written |-> writes[q.user]])
        /\ Finish(r)
        /\ UNCHANGED <<users, history, served, faults>>

\* The step that follows the consumption of a link of a kind.
EffectOf == [EMAIL_VERIFICATION |-> "verify", PASSWORD_RESET |-> "password",
             EMAIL_CHANGE |-> "confirm"]

\* findValidToken and consumeToken: whoever marks the row of the link goes on, once.
ConsumeToken(r, i) ==
    LET l == links[i]
    IN  /\ l.open
        /\ Start(r, [step |-> EffectOf[l.kind], user |-> l.owner, address |-> l.address])
        /\ links' = [links EXCEPT ![i].open = FALSE]
        /\ proved' = [proved EXCEPT ![l.owner] = @ \cup ({l.to} \ {NoAddress})]
        /\ UNCHANGED <<users, tried, overlapped, crossed>>

MarkEmailVerified(r) ==
    /\ At(r, "verify")
    /\ users' = [users EXCEPT ![requests[r].user].verified = TRUE,
                              ![requests[r].user].status = "ACTIVE"]
    /\ Finish(r)
    /\ UNCHANGED <<links, history, served, faults>>

\* The address may have been taken since the link was asked for: the link is spent all the same.
CheckAddress(r) ==
    /\ At(r, "confirm")
    /\ IF EmailInUse(requests[r].address, requests[r].user)
         THEN Finish(r) ELSE Goto(r, "replace")
    /\ UNCHANGED <<users, links, history, served, faults>>

\* The address is unique: one taken since the check refuses the update.
ReplaceEmail(r) ==
    LET u == requests[r].user
        a == requests[r].address
    IN  /\ At(r, "replace")
        /\ users' = IF EmailInUse(a, u) THEN users
                    ELSE [users EXCEPT ![u].email = a, ![u].verified = TRUE]
        /\ Finish(r)
        /\ UNCHANGED <<links, history, served, faults>>

-----------------------------------------------------------------------------
(* Passwords, suspension, erasure.                                         *)

StartPlain(r, q) ==
    /\ Start(r, q)
    /\ UNCHANGED <<users, links, proved, tried, overlapped, crossed>>

ChangePassword(r, u) ==
    Exists(u) /\ users[u].password /\ StartPlain(r, [step |-> "password", user |-> u])

\* A password changed, or recovered by a link.
UpdatePassword(r) ==
    /\ At(r, "password")
    /\ users' = [users EXCEPT ![requests[r].user].password = TRUE]
    /\ writes' = [writes EXCEPT ![requests[r].user] = @ + 1]
    /\ Goto(r, "close")
    /\ UNCHANGED <<links, proved, tried, spent, twice, overlapped, interrupted, overtaken,
                   crossed, served, faults>>

\* Mutant of CloseRecovery: the links of recovery survive the new password.
CloseNothing(r) ==
    /\ At(r, "close") /\ Finish(r)
    /\ UNCHANGED <<users, links, history, served, faults>>

CloseRecovery(r) ==
    /\ At(r, "close")
    /\ links' = Invalidated(requests[r].user, "PASSWORD_RESET")
    /\ Finish(r)
    /\ UNCHANGED <<users, history, served, faults>>

\* setActive: the status that goes with isActive depends on the address being verified.
SetActive(r, u, on) ==
    /\ Exists(u)
    /\ StartPlain(r,
          [step |-> "status", user |-> u, isActive |-> on,
           status |-> IF ~on THEN "SUSPENDED"
                      ELSE IF users[u].verified THEN "ACTIVE" ELSE "REGISTERED"])

WriteStatus(r) ==
    /\ At(r, "status")
    /\ users' = [users EXCEPT ![requests[r].user].isActive = requests[r].isActive,
                              ![requests[r].user].status = requests[r].status]
    /\ Finish(r)
    /\ UNCHANGED <<links, history, served, faults>>

DeleteOwnAccount(r, u) ==
    Exists(u) /\ users[u].password /\ StartPlain(r, [step |-> "erase", user |-> u])

\* Mutant of LeftOf: the links of the erased account are not deleted.
LinksKept(u) == links

\* The links of an erased account are deleted: none of them is open any more.
LeftOf(u) ==
    [i \in DOMAIN links |->
       IF links[i].owner = u THEN [links[i] EXCEPT !.open = FALSE] ELSE links[i]]

\* One transaction; what is kept for the second factor stays.
AnonymizeAccount(r) ==
    LET u == requests[r].user
    IN  /\ At(r, "erase")
        /\ links' = LeftOf(u)
        /\ users' = [users EXCEPT ![u].email = NoAddress, ![u].password = FALSE,
                                  ![u].status = "DELETED", ![u].isActive = FALSE,
                                  ![u].verified = FALSE]
        /\ overtaken' = IF Meets(r, u, Steps) THEN overtaken \cup {u} ELSE overtaken
        /\ Finish(r)
        /\ UNCHANGED <<writes, proved, tried, spent, twice, overlapped, interrupted, crossed,
                       served, faults>>

-----------------------------------------------------------------------------
(* The second factor.                                                      *)

\* History: another operation on the second factor of the user is under way.
StartFactor(r, q) ==
    /\ Start(r, q)
    /\ crossed' = IF Meets(r, q.user, FactorSteps) THEN crossed \cup {q.user} ELSE crossed
    /\ UNCHANGED <<users, links, proved, overlapped>>

\* A new secret, which the number of the request stands for.
SetupMfa(r, u) ==
    /\ Exists(u) /\ ~users[u].mfa
    /\ StartFactor(r, [step |-> "secret", user |-> u, secret |-> served + 1])
    /\ UNCHANGED tried

SetMfaSecret(r) ==
    /\ At(r, "secret")
    /\ users' = [users EXCEPT ![requests[r].user].secret = requests[r].secret,
                              ![requests[r].user].mfa = FALSE]
    /\ Finish(r)
    /\ UNCHANGED <<links, history, served, faults>>

\* A first code of the secret read is verified.
VerifyFirstCode(r, u) ==
    /\ Exists(u) /\ users[u].secret # 0
    /\ StartFactor(r, [step |-> "enable", user |-> u])
    /\ tried' = [tried EXCEPT ![u] = @ \cup {users[u].secret}]

EnableMfa(r) ==
    LET u == requests[r].user
    IN  /\ At(r, "enable")
        /\ users' = [users EXCEPT ![u].mfa = TRUE, ![u].codes = RecoveryCodes]
        /\ spent' = [spent EXCEPT ![u] = {}]
        /\ Finish(r)
        /\ UNCHANGED <<links, writes, proved, tried, twice, overlapped, interrupted, overtaken,
                       crossed, served, faults>>

RequestDisable(r, u) ==
    /\ Exists(u) /\ users[u].password
    /\ StartFactor(r, [step |-> "disable", user |-> u])
    /\ UNCHANGED tried

DisableMfa(r) ==
    /\ At(r, "disable")
    /\ users' = [users EXCEPT ![requests[r].user].mfa = FALSE,
                              ![requests[r].user].secret = 0,
                              ![requests[r].user].codes = {}]
    /\ Finish(r)
    /\ UNCHANGED <<links, history, served, faults>>

\* A login with a recovery code of the row read; a login with a TOTP code writes nothing.
LoginWithRecoveryCode(r, u, c) ==
    /\ Exists(u) /\ users[u].isActive /\ users[u].password /\ users[u].mfa
    /\ c \in users[u].codes
    /\ StartFactor(r, [step |-> "spend", user |-> u, code |-> c,
                       left |-> users[u].codes \ {c}])
    /\ UNCHANGED tried

\* Mutant of SetRecoveryCodes: the code is accepted and stays.
AcceptCode(r) ==
    LET u == requests[r].user
        c == requests[r].code
    IN  /\ At(r, "spend")
        /\ spent' = [spent EXCEPT ![u] = @ \cup {c}]
        /\ twice' = IF c \in spent[u] THEN twice \cup {u} ELSE twice
        /\ Finish(r)
        /\ UNCHANGED <<users, links, writes, proved, tried, overlapped, interrupted, overtaken,
                       crossed, served, faults>>

\* The codes left of those read are written back, and the login succeeds.
SetRecoveryCodes(r) ==
    LET u == requests[r].user
        c == requests[r].code
    IN  /\ At(r, "spend")
        /\ users' = [users EXCEPT ![u].codes = requests[r].left]
        /\ spent' = [spent EXCEPT ![u] = @ \cup {c}]
        /\ twice' = IF c \in spent[u] THEN twice \cup {u} ELSE twice
        /\ Finish(r)
        /\ UNCHANGED <<links, writes, proved, tried, overlapped, interrupted, overtaken, crossed,
                       served, faults>>

-----------------------------------------------------------------------------
\* A crash or a failed call ends a request: what it has written stays.
Lose(r) ==
    /\ requests[r] # Idle /\ faults < MaxFaults
    /\ faults' = faults + 1
    /\ interrupted' = IF At(r, "close") THEN interrupted \cup {requests[r].user}
                                        ELSE interrupted
    /\ Finish(r)
    /\ UNCHANGED <<users, links, writes, proved, tried, spent, twice, overlapped, overtaken,
                   crossed, served>>

Ask(r, u) ==
    \/ \E a \in Addresses : Register(r, u, a) \/ RequestEmailChange(r, u, a)
    \/ ResendVerification(r, u) \/ RequestPasswordReset(r, u)
    \/ ChangePassword(r, u) \/ DeleteOwnAccount(r, u)
    \/ \E on \in BOOLEAN : SetActive(r, u, on)

AskFactor(r, u) ==
    \/ SetupMfa(r, u) \/ VerifyFirstCode(r, u) \/ RequestDisable(r, u)
    \/ \E c \in RecoveryCodes : LoginWithRecoveryCode(r, u, c)

Proceed(r) ==
    \/ CreateUser(r) \/ InvalidateLinks(r) \/ CreateToken(r)
    \/ MarkEmailVerified(r) \/ CheckAddress(r) \/ ReplaceEmail(r)
    \/ UpdatePassword(r) \/ CloseRecovery(r) \/ WriteStatus(r) \/ AnonymizeAccount(r)
    \/ SetMfaSecret(r) \/ EnableMfa(r) \/ DisableMfa(r) \/ SetRecoveryCodes(r)

Next ==
    \E r \in Requests :
       \/ \E u \in Users : Ask(r, u) \/ AskFactor(r, u)
       \/ \E i \in DOMAIN links : ConsumeToken(r, i)
       \/ Proceed(r) \/ Lose(r)

Spec == Init /\ [][Next]_vars

-----------------------------------------------------------------------------
(* Safety.                                                                 *)

\* A user has at most one valid link of a kind ("un seul lien valide a la fois"), unless two
\* links of the kind were being issued to her at one time.
OneLinkUnlessOverlapped ==
    \A i, j \in DOMAIN links :
       links[i].open /\ links[j].open /\ links[i].owner = links[j].owner
          /\ links[i].kind = links[j].kind
       => i = j \/ <<links[i].owner, links[i].kind>> \in overlapped

\* A link of recovery issued before the password was last written is not valid any more
\* (AC-IAM-006), but for the moment that ends the change, or the crash that keeps it from ending.
PasswordClosesLinks ==
    \A i \in DOMAIN links :
       LET l == links[i]
       IN  l.open /\ l.kind = "PASSWORD_RESET" /\ l.written < writes[l.owner]
           => l.owner \in interrupted
                \/ \E r \in Requests : At(r, "close") /\ requests[r].user = l.owner

\* The verified address of an account is one its owner has received a link at (IAM-004),
\* whatever links of other kinds and addresses she has asked for and used in between.
AddressProved ==
    \A u \in Users :
       Exists(u) /\ users[u].verified /\ users[u].email # NoAddress
       => users[u].email \in proved[u]

\* An erased account gets no address, password or verification back (IAM-007), unless a request
\* about it was under way when it was erased.
ErasedUnlessRaced ==
    \A u \in Users :
       Exists(u) /\ users[u].email = NoAddress /\ u \notin overtaken
       => ~users[u].password /\ ~users[u].verified
            /\ \A i \in DOMAIN links : links[i].owner = u => ~links[i].open

\* A recovery code logs in once, and the secret that a login is checked against is one its user has
\* proved to hold, unless two operations on the second factor overlapped.
SecondFactorUnlessCrossed ==
    /\ twice \subseteq crossed
    /\ \A u \in Users :
          Exists(u) /\ users[u].mfa /\ u \notin crossed => users[u].secret \in tried[u]

\* An account can be logged in to exactly when its status is REGISTERED or ACTIVE ("isActive
\* reste la vue << peut se connecter >> (synchronisee)").
StatusFollowsAccess ==
    \A u \in Users :
       Exists(u) => (users[u].isActive <=> users[u].status \in {"REGISTERED", "ACTIVE"})

=============================================================================
