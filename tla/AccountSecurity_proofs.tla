------------------------ MODULE AccountSecurity_proofs ------------------------
(***************************************************************************)
(* Proofs about AccountSecurity, for every set of users, addresses,        *)
(* recovery codes and requests: the typing, and what links, addresses,     *)
(* erasure and the second factor keep whatever requests interleave.        *)
(***************************************************************************)
EXTENDS AccountSecurity, TLAPS

\* Links are mailed to addresses, and confirm addresses.
Mailed == [owner: Users, kind: AccountTokenType, to: Addresses, address: Addresses,
           open: BOOLEAN, written: Nat]

Issuing   == [step: IssueSteps, user: Users, kind: AccountTokenType, to: Addresses,
              address: Addresses]
Consuming == [step: {"verify", "password", "close", "confirm", "replace"}, user: Users,
              address: Addresses]
Plain     == [step: {"password", "close", "erase", "enable", "disable"}, user: Users]
Switching == [step: {"status"}, user: Users, isActive: BOOLEAN, status: AccountStatus]
Keeping   == [step: {"secret"}, user: Users, secret: Nat]
Spending  == [step: {"spend"}, user: Users, code: RecoveryCodes, left: SUBSET RecoveryCodes]
Flight    == Issuing \cup Consuming \cup Plain \cup Switching \cup Keeping \cup Spending

Typed ==
    /\ users \in [Users -> Account \cup {NoAccount}]
    /\ links \in Seq(Mailed)
    /\ requests \in [Requests -> Flight \cup {Idle}]
    /\ writes \in [Users -> Nat] /\ proved \in [Users -> SUBSET Addresses]
    /\ tried \in [Users -> SUBSET Nat] /\ spent \in [Users -> SUBSET RecoveryCodes]
    /\ overlapped \subseteq Users \X AccountTokenType
    /\ twice \subseteq Users /\ interrupted \subseteq Users /\ overtaken \subseteq Users
    /\ crossed \subseteq Users
    /\ served \in Nat /\ faults \in Nat

\* The address of u is a, or one she has proved, or none: a link to a proves what it should.
Bound(u, a) == users[u].email \in proved[u] \cup {a, NoAddress}

LinkSound(l) ==
    /\ Exists(l.owner)
    /\ l.kind = "EMAIL_CHANGE" => l.to = l.address
    /\ l.kind = "EMAIL_VERIFICATION" => Bound(l.owner, l.to)

RequestSound(q) ==
    /\ q.step # "register" => Exists(q.user)
    /\ q.step = "register" => ~Exists(q.user) /\ q.kind = "EMAIL_VERIFICATION"
    /\ q.step \in IssueSteps /\ q.kind = "EMAIL_CHANGE" => q.to = q.address
    /\ q.step \in {"invalidate", "create"} /\ q.kind = "EMAIL_VERIFICATION" => Bound(q.user, q.to)
    /\ q.step = "verify" => Bound(q.user, NoAddress)
    /\ q.step \in {"confirm", "replace"} => q.address \in proved[q.user]

\* Nothing else is under way about a user who is being registered.
RegistersAlone ==
    \A r, q \in Requests :
       At(r, "register") /\ requests[q] # Idle /\ requests[q].user = requests[r].user => q = r

IdentityInv ==
    /\ \A i \in DOMAIN links : LinkSound(links[i])
    /\ \A r \in Requests : requests[r] # Idle => RequestSound(requests[r])
    /\ RegistersAlone /\ AddressProved

IssuesFor(r, u, k) ==
    requests[r].step \in IssueSteps /\ requests[r].user = u /\ requests[r].kind = k

OpenLink(i, u, k) ==
    i \in DOMAIN links /\ links[i].open /\ links[i].owner = u /\ links[i].kind = k

\* Of a user and a kind that are not overlapped one link at most is issued at a time, and
\* created when none is open.
OneInv ==
    \A u, k : <<u, k>> \notin overlapped =>
       /\ \A r, q \in Requests : IssuesFor(r, u, k) /\ IssuesFor(q, u, k) => r = q
       /\ \A r \in Requests : At(r, "create") /\ IssuesFor(r, u, k) => \A i : ~OpenLink(i, u, k)
       /\ \A i, j : OpenLink(i, u, k) /\ OpenLink(j, u, k) => i = j

\* What may go on about an erased account: it gives it nothing back.
EndSteps == {"status", "secret", "enable"}

Erased(u) == u \notin overtaken /\ Exists(u) /\ users[u].email = NoAddress

ErasedInv ==
    \A u \in Users : Erased(u) =>
       /\ ~users[u].password /\ ~users[u].verified
       /\ \A i \in DOMAIN links : links[i].owner = u => ~links[i].open
       /\ \A r \in Requests : requests[r] # Idle /\ requests[r].user = u => requests[r].step \in EndSteps

InFactor(r, u) == requests[r].step \in FactorSteps /\ requests[r].user = u

\* What an operation on the second factor has read is still there.
FactorSound(q) ==
    /\ q.step = "enable" => users[q.user].secret \in tried[q.user]
    /\ q.step = "spend" => /\ q.code \in users[q.user].codes
                          /\ q.left = users[q.user].codes \ {q.code}

FactorInv ==
    /\ twice \subseteq crossed
    /\ \A u \in Users \ crossed :
          /\ \A r, q \in Requests : InFactor(r, u) /\ InFactor(q, u) => r = q
          /\ \A r \in Requests : InFactor(r, u) => FactorSound(requests[r])
          /\ Exists(u) => /\ users[u].mfa => users[u].secret \in tried[u]
                          /\ users[u].codes \cap spent[u] = {}

IInv == Typed /\ IdentityInv /\ OneInv /\ PasswordClosesLinks /\ ErasedInv /\ FactorInv

-----------------------------------------------------------------------------
(* Requests and links.                                                     *)

LEMMA FlightFacts ==
    ASSUME NEW q \in Flight
    PROVE  /\ q.user \in Users /\ q.step \in Steps /\ q # Idle
           /\ q.step \in IssueSteps =>
                 q.kind \in AccountTokenType /\ q.to \in Addresses /\ q.address \in Addresses
           /\ q.step \in {"verify", "confirm", "replace"} => q.address \in Addresses
           /\ q.step = "status" => q.isActive \in BOOLEAN /\ q.status \in AccountStatus
           /\ q.step = "secret" => q.secret \in Nat
           /\ q.step = "spend" => q.code \in RecoveryCodes /\ q.left \subseteq RecoveryCodes
BY DEF Flight, Issuing, Consuming, Plain, Switching, Keeping, Spending, Steps, IssueSteps,
   FactorSteps, Idle

LEMMA InFlight ==
    ASSUME Typed, NEW r \in Requests, requests[r] # Idle
    PROVE  requests[r] \in Flight
BY DEF Typed

LEMMA AtFlight ==
    ASSUME Typed, NEW r \in Requests, NEW step \in Steps, At(r, step)
    PROVE  requests[r] \in Flight /\ requests[r] # Idle /\ requests[r].user \in Users
<1>1. requests[r] # Idle
  BY DEF At, Steps, IssueSteps, FactorSteps, Idle
<1> QED BY <1>1, InFlight, FlightFacts

LEMMA GotoFacts ==
    ASSUME Typed, NEW r \in Requests, requests[r] # Idle, NEW step,
           <<requests[r].step, step>> \in {<<"register", "invalidate">>, <<"invalidate", "create">>,
                                           <<"confirm", "replace">>, <<"password", "close">>}
    PROVE  LET x == [requests[r] EXCEPT !.step = step]
           IN  /\ x \in Flight /\ x.step = step /\ x.user = requests[r].user
               /\ step \in IssueSteps => x.kind = requests[r].kind /\ x.to = requests[r].to
                                            /\ x.address = requests[r].address
               /\ step = "replace" => x.address = requests[r].address
               /\ Goto(r, step) => requests' = [requests EXCEPT ![r] = x]
<1>1. requests[r] \in Flight
  BY InFlight
<1>2. CASE requests[r] \in Issuing
  BY <1>2 DEF Goto, Flight, Issuing, IssueSteps
<1>3. CASE requests[r] \in Consuming
  BY <1>3 DEF Goto, Flight, Consuming, IssueSteps
<1>4. CASE requests[r] \in Plain
  BY <1>4 DEF Goto, Flight, Plain, IssueSteps
<1>5. CASE requests[r] \in Switching \cup Keeping \cup Spending
  BY <1>5 DEF Switching, Keeping, Spending
<1> QED BY <1>1, <1>2, <1>3, <1>4, <1>5 DEF Flight

\* Links may be used, and nothing else changes of them.
LinksFall ==
    /\ DOMAIN links' = DOMAIN links
    /\ \A i \in DOMAIN links :
          /\ links'[i].owner = links[i].owner /\ links'[i].kind = links[i].kind
          /\ links'[i].to = links[i].to /\ links'[i].address = links[i].address
          /\ links'[i].written = links[i].written
          /\ links'[i].open => links[i].open

LEMMA LinkFacts ==
    ASSUME Typed
    PROVE  /\ DOMAIN links = 1..Len(links) /\ Len(links) \in Nat
           /\ \A i \in DOMAIN links : links[i] \in Mailed
BY DEF Typed

LEMMA InPlace ==
    ASSUME Typed, NEW f, DOMAIN f = DOMAIN links, f \in [DOMAIN links -> Mailed]
    PROVE  f \in Seq(Mailed)
<1>1. DOMAIN links = 1..Len(links) /\ Len(links) \in Nat
  BY LinkFacts
<1> QED BY <1>1

LEMMA ClosingLinks ==
    ASSUME Typed, NEW S,
           links' = [i \in DOMAIN links |-> IF i \in S THEN [links[i] EXCEPT !.open = FALSE]
                                                       ELSE links[i]]
    PROVE  /\ LinksFall /\ links' \in Seq(Mailed)
           /\ \A i \in DOMAIN links : i \in S => ~links'[i].open
<1>1. \A i \in DOMAIN links : links[i] \in Mailed
  BY LinkFacts
<1>2. \A i \in DOMAIN links :
         LET l == [links[i] EXCEPT !.open = FALSE]
         IN  /\ l \in Mailed /\ l.open = FALSE /\ l.owner = links[i].owner
             /\ l.kind = links[i].kind /\ l.to = links[i].to /\ l.address = links[i].address
             /\ l.written = links[i].written
  BY <1>1 DEF Mailed
<1>3. LinksFall
  BY <1>2 DEF LinksFall
<1>4. \E f : f = links' /\ DOMAIN f = DOMAIN links /\ f \in [DOMAIN links -> Mailed]
  BY <1>1, <1>2
<1> QED BY <1>2, <1>3, <1>4, InPlace

LEMMA NoLinkMoves ==
    ASSUME Typed, links' = links PROVE LinksFall /\ links' \in Seq(Mailed)
BY DEF LinksFall, Typed

LEMMA OpenFalls ==
    ASSUME LinksFall PROVE \A i : \A u : \A k : OpenLink(i, u, k)' => OpenLink(i, u, k)
BY DEF LinksFall, OpenLink

-----------------------------------------------------------------------------
(* Each part of the invariant, and the steps that leave it.                *)

LEMMA IdentityKeeps ==
    ASSUME Typed, IdentityInv, NEW r \in Requests, NEW x, requests' = [requests EXCEPT ![r] = x],
           \A v \in Users : proved[v] \subseteq proved'[v],
           \A v \in Users : Exists(v) =>
              Exists(v)' /\ users'[v].email \in proved'[v] \cup {users[v].email, NoAddress},
           \A v \in Users : Exists(v)' /\ ~Exists(v) => At(r, "register") /\ requests[r].user = v,
           \A i \in DOMAIN links' : \A l : l = links'[i] =>
              \/ LinkSound(l)'
              \/ /\ i \in DOMAIN links /\ l.owner = links[i].owner /\ l.kind = links[i].kind
                 /\ l.to = links[i].to /\ l.address = links[i].address,
           \A y : y = x /\ y # Idle => RequestSound(y)',
           x # Idle => \A q \in Requests \ {r} : requests[q] # Idle /\ requests[q].user = x.user =>
                          x.step # "register" /\ ~At(q, "register"),
           AddressProved'
    PROVE  IdentityInv'
<1>1. requests'[r] = x /\ \A q \in Requests \ {r} : requests'[q] = requests[q]
  BY DEF Typed
<1>2. \A v \in Users : \A a : Exists(v) /\ Bound(v, a) => Bound(v, a)'
  BY DEF Bound
<1>3. ASSUME NEW i \in DOMAIN links', NEW l, l = links'[i] PROVE LinkSound(l)'
  <2>1. CASE i \in DOMAIN links /\ l.owner = links[i].owner /\ l.kind = links[i].kind
             /\ l.to = links[i].to /\ l.address = links[i].address
    <3>1. LinkSound(links[i]) /\ links[i].owner \in Users
      BY <2>1, LinkFacts DEF IdentityInv, Mailed
    <3> QED BY <2>1, <3>1, <1>2 DEF LinkSound
  <2> QED BY <2>1, <1>3
<1>4. ASSUME NEW q \in Requests \ {r}, NEW y, y = requests[q], y # Idle PROVE RequestSound(y)'
  <2>1. RequestSound(y) /\ y.user \in Users
    BY <1>4, InFlight, FlightFacts DEF IdentityInv
  <2>2. Exists(y.user) => Exists(y.user)'
    BY <2>1
  <2>3. y.step = "register" => ~Exists(y.user)'
    BY <1>4, <2>1 DEF RequestSound, IdentityInv, RegistersAlone
  <2>4. y.step # "register" => Exists(y.user)
    BY <2>1 DEF RequestSound
  <2>5. /\ y.step \in {"invalidate", "create"} /\ y.kind = "EMAIL_VERIFICATION" =>
              Bound(y.user, y.to)'
        /\ y.step = "verify" => Bound(y.user, NoAddress)'
    BY <1>2, <2>1, <2>4 DEF RequestSound
  <2>6. y.step \in {"confirm", "replace"} => y.address \in proved'[y.user]
    BY <2>1 DEF RequestSound
  <2> QED BY <2>1, <2>2, <2>3, <2>4, <2>5, <2>6 DEF RequestSound
<1>5. RegistersAlone'
  BY <1>1 DEF IdentityInv, RegistersAlone, At, Idle
<1>6. \A q \in Requests : requests'[q] # Idle => \A y : y = requests'[q] => RequestSound(y)'
  BY <1>1, <1>4
<1>7. (\A q \in Requests : requests[q] # Idle => RequestSound(requests[q]))'
  BY <1>6 DEF RequestSound, Bound, Exists
<1>8. (\A i \in DOMAIN links : LinkSound(links[i]))'
  BY <1>3 DEF LinkSound, Bound, Exists
<1> QED BY <1>5, <1>7, <1>8 DEF IdentityInv

\* A request that goes on about its user meets nobody who registers her.
LEMMA SameUserAlone ==
    ASSUME IdentityInv, NEW r \in Requests, requests[r] # Idle, NEW x,
           x.user = requests[r].user, x.step # "register"
    PROVE  \A q \in Requests \ {r} : requests[q] # Idle /\ requests[q].user = x.user =>
              x.step # "register" /\ ~At(q, "register")
BY DEF IdentityInv, RegistersAlone

LEMMA AddressRests ==
    ASSUME AddressProved, \A v \in Users : proved[v] \subseteq proved'[v],
           \A v \in Users : Exists(v)' => /\ Exists(v) /\ users'[v].email = users[v].email
                                         /\ users'[v].verified = users[v].verified
    PROVE  AddressProved'
BY DEF AddressProved, Exists

LEMMA OneKeeps ==
    ASSUME Typed, OneInv, NEW r \in Requests, NEW x, requests' = [requests EXCEPT ![r] = x],
           overlapped \subseteq overlapped',
           \A i : \A u : \A k : OpenLink(i, u, k)' => OpenLink(i, u, k),
           x.step \in IssueSteps =>
              \/ IssuesFor(r, x.user, x.kind)
              \/ <<x.user, x.kind>> \in overlapped'
              \/ \A q \in Requests \ {r} : ~IssuesFor(q, x.user, x.kind),
           x.step = "create" => \A u : \A k : u = x.user /\ k = x.kind => \A i : ~OpenLink(i, u, k)'
    PROVE  OneInv'
<1>1. requests'[r] = x /\ \A q \in Requests \ {r} : requests'[q] = requests[q]
  BY DEF Typed
<1>2. ASSUME NEW u, NEW k, <<u, k>> \notin overlapped'
      PROVE  /\ \A p, q \in Requests : IssuesFor(p, u, k)' /\ IssuesFor(q, u, k)' => p = q
             /\ \A q \in Requests :
                   At(q, "create")' /\ IssuesFor(q, u, k)' => \A i : ~OpenLink(i, u, k)'
             /\ \A i, j : OpenLink(i, u, k)' /\ OpenLink(j, u, k)' => i = j
  <2>1. /\ \A p, q \in Requests : IssuesFor(p, u, k) /\ IssuesFor(q, u, k) => p = q
        /\ \A q \in Requests : At(q, "create") /\ IssuesFor(q, u, k) => \A i : ~OpenLink(i, u, k)
        /\ \A i, j : OpenLink(i, u, k) /\ OpenLink(j, u, k) => i = j
    BY <1>2 DEF OneInv
  <2>2. \A q \in Requests \ {r} : /\ IssuesFor(q, u, k)' <=> IssuesFor(q, u, k)
                                  /\ At(q, "create")' <=> At(q, "create")
    BY <1>1 DEF IssuesFor, At
  <2>3. IssuesFor(r, u, k)' => x.step \in IssueSteps /\ u = x.user /\ k = x.kind
    BY <1>1 DEF IssuesFor
  <2>4. At(r, "create")' => x.step = "create"
    BY <1>1 DEF At
  <2>5. ASSUME IssuesFor(r, u, k)', NEW q \in Requests \ {r} PROVE ~IssuesFor(q, u, k)
    BY <2>1, <2>3, <2>5, <1>2
  <2> QED BY <2>1, <2>2, <2>3, <2>4, <2>5
<1> QED BY <1>2 DEF OneInv

LEMMA ClosesRest ==
    ASSUME Typed, PasswordClosesLinks, NEW r \in Requests, NEW x,
           requests' = [requests EXCEPT ![r] = x], LinksFall, writes' = writes,
           interrupted \subseteq interrupted',
           At(r, "close") =>
              \/ requests[r].user \in interrupted'
              \/ \A u : u = requests[r].user => \A i : ~OpenLink(i, u, "PASSWORD_RESET")'
    PROVE  PasswordClosesLinks'
<1>1. \A q \in Requests \ {r} : requests'[q] = requests[q]
  BY DEF Typed
<1> SUFFICES ASSUME NEW i \in DOMAIN links', links'[i].open, links'[i].kind = "PASSWORD_RESET",
                    links'[i].written < writes'[links'[i].owner]
             PROVE  \/ links'[i].owner \in interrupted'
                    \/ \E q \in Requests : At(q, "close")' /\ requests'[q].user = links'[i].owner
  BY DEF PasswordClosesLinks
<1>2. /\ i \in DOMAIN links /\ links[i].open /\ links'[i].owner = links[i].owner
      /\ links[i].kind = "PASSWORD_RESET" /\ links[i].written < writes[links[i].owner]
  BY DEF LinksFall
<1>3. \/ links[i].owner \in interrupted
      \/ \E q \in Requests : At(q, "close") /\ requests[q].user = links[i].owner
  BY <1>2 DEF PasswordClosesLinks
<1>4. \A u : u = links[i].owner => OpenLink(i, u, "PASSWORD_RESET")'
  BY <1>2 DEF OpenLink
<1>5. ASSUME At(r, "close"), requests[r].user = links[i].owner PROVE links[i].owner \in interrupted'
  BY <1>4, <1>5
<1> QED BY <1>1, <1>2, <1>3, <1>5 DEF At

LEMMA ErasedKeeps ==
    ASSUME Typed, ErasedInv, NEW r \in Requests, NEW x, requests' = [requests EXCEPT ![r] = x],
           LinksFall,
           \A v \in Users : Erased(v)' => Erased(v) /\ ~users'[v].password /\ ~users'[v].verified,
           \A v \in Users : x # Idle /\ x.user = v /\ Erased(v) => x.step \in EndSteps
    PROVE  ErasedInv'
<1>1. requests'[r] = x /\ \A q \in Requests \ {r} : requests'[q] = requests[q]
  BY DEF Typed
<1> SUFFICES ASSUME NEW u \in Users, Erased(u)'
             PROVE  /\ ~users'[u].password /\ ~users'[u].verified
                    /\ \A i \in DOMAIN links' : links'[i].owner = u => ~links'[i].open
                    /\ \A q \in Requests : requests'[q] # Idle /\ requests'[q].user = u =>
                          requests'[q].step \in EndSteps
  BY DEF ErasedInv
<1>2. Erased(u)
  OBVIOUS
<1>3. \A i \in DOMAIN links' : links'[i].owner = u => ~links'[i].open
  BY <1>2 DEF ErasedInv, LinksFall
<1>4. \A q \in Requests : requests'[q] # Idle /\ requests'[q].user = u =>
         requests'[q].step \in EndSteps
  BY <1>1, <1>2 DEF ErasedInv
<1> QED BY <1>3, <1>4

LEMMA FactorKeeps ==
    ASSUME Typed, FactorInv, NEW r \in Requests, NEW x, requests' = [requests EXCEPT ![r] = x],
           \A v \in Users : Exists(v)' /\ Exists(v) =>
              /\ users'[v].mfa = users[v].mfa /\ users'[v].secret = users[v].secret
              /\ users'[v].codes = users[v].codes,
           \A v \in Users : Exists(v)' /\ ~Exists(v) => ~users'[v].mfa /\ users'[v].codes = {},
           \A v \in Users : tried[v] \subseteq tried'[v],
           \A v \in Users : Exists(v) => Exists(v)',
           \A q \in Requests : requests[q].step \in FactorSteps => Exists(requests[q].user),
           crossed \subseteq crossed', UNCHANGED <<spent, twice>>,
           x.step \in FactorSteps =>
              /\ x.user \in crossed' \/ \A q \in Requests \ {r} : ~InFactor(q, x.user)
              /\ \A y : y = x => FactorSound(y)'
    PROVE  FactorInv'
<1>1. requests'[r] = x /\ \A q \in Requests \ {r} : requests'[q] = requests[q]
  BY DEF Typed
<1> SUFFICES ASSUME NEW u \in Users \ crossed'
             PROVE  /\ \A p, q \in Requests : InFactor(p, u)' /\ InFactor(q, u)' => p = q
                    /\ \A q \in Requests : InFactor(q, u)' => FactorSound(requests[q])'
                    /\ Exists(u)' => /\ users'[u].mfa => users'[u].secret \in tried'[u]
                                     /\ users'[u].codes \cap spent'[u] = {}
  BY DEF FactorInv
<1>2. u \in Users \ crossed
  OBVIOUS
<1>3. /\ \A p, q \in Requests : InFactor(p, u) /\ InFactor(q, u) => p = q
      /\ \A q \in Requests : InFactor(q, u) => FactorSound(requests[q])
      /\ Exists(u) => /\ users[u].mfa => users[u].secret \in tried[u]
                      /\ users[u].codes \cap spent[u] = {}
  BY <1>2 DEF FactorInv
<1>4. /\ \A q \in Requests \ {r} : InFactor(q, u)' <=> InFactor(q, u)
      /\ InFactor(r, u)' <=> x.step \in FactorSteps /\ x.user = u
  BY <1>1 DEF InFactor
<1>5. ASSUME NEW q \in Requests \ {r}, InFactor(q, u), NEW y, y = requests[q] PROVE FactorSound(y)'
  <2>1. Exists(u)' /\ Exists(u) /\ y.user = u /\ FactorSound(y)
    BY <1>3, <1>5 DEF InFactor
  <2> QED BY <2>1 DEF FactorSound
<1>6. \A q \in Requests : InFactor(q, u)' => \A y : y = requests'[q] => FactorSound(y)'
  BY <1>1, <1>4, <1>5
<1>7. \A q \in Requests : InFactor(q, u)' => FactorSound(requests[q])'
  BY <1>6 DEF FactorSound
<1>8. \A p, q \in Requests : InFactor(p, u)' /\ InFactor(q, u)' => p = q
  BY <1>3, <1>4
<1>9. Exists(u)' => /\ users'[u].mfa => users'[u].secret \in tried'[u]
                    /\ users'[u].codes \cap spent'[u] = {}
  BY <1>3
<1> QED BY <1>7, <1>8, <1>9

-----------------------------------------------------------------------------
(* Steps that write no account: requests start, check, close links, or are *)
(* lost.                                                                   *)

LEMMA CalmKeeps ==
    ASSUME IInv, NEW r \in Requests, NEW x \in Flight \cup {Idle},
           requests' = [requests EXCEPT ![r] = x],
           UNCHANGED <<users, writes, spent, twice, overtaken>>,
           links' \in Seq(Mailed), LinksFall, served' \in Nat, faults' \in Nat,
           proved' \in [Users -> SUBSET Addresses], \A v \in Users : proved[v] \subseteq proved'[v],
           tried' \in [Users -> SUBSET Nat], \A v \in Users : tried[v] \subseteq tried'[v],
           overlapped \subseteq overlapped', overlapped' \subseteq Users \X AccountTokenType,
           crossed \subseteq crossed', crossed' \subseteq Users,
           interrupted \subseteq interrupted', interrupted' \subseteq Users,
           \A y : y = x /\ y # Idle => RequestSound(y)',
           x # Idle => \A q \in Requests \ {r} : requests[q] # Idle /\ requests[q].user = x.user =>
                          x.step # "register" /\ ~At(q, "register"),
           x.step \in IssueSteps =>
              \/ IssuesFor(r, x.user, x.kind)
              \/ <<x.user, x.kind>> \in overlapped'
              \/ \A q \in Requests \ {r} : ~IssuesFor(q, x.user, x.kind),
           x.step = "create" => \A u : \A k : u = x.user /\ k = x.kind => \A i : ~OpenLink(i, u, k)',
           At(r, "close") =>
              \/ requests[r].user \in interrupted'
              \/ \A u : u = requests[r].user => \A i : ~OpenLink(i, u, "PASSWORD_RESET")',
           x # Idle /\ Erased(x.user) => x.step \in EndSteps,
           x.step \in FactorSteps =>
              /\ x.user \in crossed' \/ \A q \in Requests \ {r} : ~InFactor(q, x.user)
              /\ \A y : y = x => FactorSound(y)'
    PROVE  IInv'
<1>1. Typed'
  BY DEF IInv, Typed
<1>2. \A v : Exists(v)' <=> Exists(v)
  BY DEF Exists
<1>3. AddressProved'
  BY <1>2, AddressRests DEF IInv, IdentityInv
<1>4. \A i \in DOMAIN links' : \A l : l = links'[i] =>
         /\ i \in DOMAIN links /\ l.owner = links[i].owner /\ l.kind = links[i].kind
         /\ l.to = links[i].to /\ l.address = links[i].address
  BY DEF LinksFall
<1>5. IdentityInv'
  BY <1>2, <1>3, <1>4, IdentityKeeps DEF IInv
<1>6. OneInv'
  BY OpenFalls, OneKeeps DEF IInv
<1>7. PasswordClosesLinks'
  BY ClosesRest DEF IInv
<1>8. \A v \in Users : Erased(v)' => Erased(v) /\ ~users'[v].password /\ ~users'[v].verified
  BY <1>2 DEF Erased, IInv, ErasedInv
<1>9. ErasedInv'
  BY <1>8, ErasedKeeps DEF IInv
<1>10. \A q \in Requests : requests[q].step \in FactorSteps => Exists(requests[q].user)
  BY DEF IInv, IdentityInv, RequestSound, FactorSteps, Idle
<1>11. FactorInv'
  BY <1>2, <1>10, FactorKeeps DEF IInv
<1> QED BY <1>1, <1>5, <1>6, <1>7, <1>9, <1>11 DEF IInv

\* A slot that is taken was free: nothing is closed by it.
LEMMA StartFacts ==
    ASSUME IInv, NEW r \in Requests, NEW q, Start(r, q)
    PROVE  /\ requests' = [requests EXCEPT ![r] = q] /\ ~At(r, "close") /\ requests[r] = Idle
           /\ served' \in Nat /\ faults' \in Nat
           /\ UNCHANGED <<writes, spent, twice, overtaken, interrupted, faults>>
BY DEF Start, At, Idle, IInv, Typed

\* A request that is not a registration starts about a user who exists.
LEMMA StartsAlone ==
    ASSUME IInv, NEW u, Exists(u)
    PROVE  \A q \in Requests : requests[q] # Idle /\ requests[q].user = u => ~At(q, "register")
BY DEF IInv, IdentityInv, RequestSound, At

LEMMA StartIssueKeeps ==
    ASSUME IInv, NEW r \in Requests, NEW u \in Users, NEW step \in {"register", "invalidate"},
           NEW kind \in AccountTokenType, NEW to \in Addresses, NEW address \in Addresses,
           StartIssue(r, u, step, kind, to, address),
           step = "register" => /\ ~Exists(u) /\ kind = "EMAIL_VERIFICATION" /\ ~Erased(u)
                                /\ \A q \in Requests \ {r} : requests[q] # Idle => requests[q].user # u,
           step = "invalidate" => Exists(u) /\ ~Erased(u),
           step = "invalidate" /\ kind = "EMAIL_VERIFICATION" => to = users[u].email,
           kind = "EMAIL_CHANGE" => to = address
    PROVE  IInv'
<1> DEFINE x == [step |-> step, user |-> u, kind |-> kind, to |-> to, address |-> address]
<1>1. Start(r, x)
  BY DEF StartIssue
<1>2. /\ x \in Flight /\ x # Idle /\ x.step = step /\ x.user = u /\ x.kind = kind
      /\ x.to = to /\ x.address = address
  BY DEF Flight, Issuing, IssueSteps, Idle
<1>3. /\ overlapped \subseteq overlapped' /\ overlapped' \subseteq Users \X AccountTokenType
      /\ <<u, kind>> \in overlapped' \/ \A q \in Requests \ {r} : ~IssuesFor(q, u, kind)
      /\ UNCHANGED <<users, links, proved, tried, crossed>>
  BY DEF StartIssue, IInv, Typed, IssuesFor
<1> HIDE DEF x
<1>4. \A y : y = x => RequestSound(y)'
  BY <1>2, <1>3 DEF RequestSound, Bound, Exists, IssueSteps
<1>5. \A q \in Requests \ {r} : requests[q] # Idle /\ requests[q].user = x.user =>
         x.step # "register" /\ ~At(q, "register")
  BY <1>2, StartsAlone
<1>6. LinksFall /\ links' \in Seq(Mailed)
  BY <1>3, NoLinkMoves DEF IInv
<1>7. x.step # "create" /\ x.step \notin FactorSteps /\ ~Erased(x.user)
  BY <1>2 DEF FactorSteps
<1> QED BY <1>1, <1>2, <1>3, <1>4, <1>5, <1>6, <1>7, StartFacts, CalmKeeps DEF IInv, Typed

LEMMA StartPlainKeeps ==
    ASSUME IInv, NEW r \in Requests, NEW x \in Plain \cup Switching, StartPlain(r, x),
           x.step \in {"password", "erase", "status"}, Exists(x.user),
           x.step # "status" => users[x.user].password
    PROVE  IInv'
<1>1. x \in Flight /\ x # Idle /\ x.user \in Users
  BY FlightFacts DEF Flight
<1>2. Start(r, x) /\ UNCHANGED <<users, links, proved, tried, overlapped, crossed>>
  BY DEF StartPlain
<1>3. \A y : y = x => RequestSound(y)'
  BY <1>2 DEF RequestSound, Exists, IssueSteps
<1>4. \A q \in Requests \ {r} : requests[q] # Idle /\ requests[q].user = x.user =>
         x.step # "register" /\ ~At(q, "register")
  BY StartsAlone
<1>5. LinksFall /\ links' \in Seq(Mailed)
  BY <1>2, NoLinkMoves DEF IInv
<1>6. x.step \notin IssueSteps /\ x.step \notin FactorSteps
  BY DEF IssueSteps, FactorSteps
<1>7. Erased(x.user) => x.step \in EndSteps
  BY <1>1 DEF IInv, ErasedInv, EndSteps
<1> QED BY <1>1, <1>2, <1>3, <1>4, <1>5, <1>6, <1>7, StartFacts, CalmKeeps
        DEF IInv, Typed, IssueSteps

LEMMA StartFactorKeeps ==
    ASSUME IInv, NEW r \in Requests, NEW x \in Flight, StartFactor(r, x),
           x.step \in FactorSteps, Exists(x.user), x.step \in EndSteps \/ users[x.user].password,
           tried' \in [Users -> SUBSET Nat], \A v \in Users : tried[v] \subseteq tried'[v],
           x.step = "enable" => users[x.user].secret \in tried'[x.user],
           x.step = "spend" => /\ x.code \in users[x.user].codes
                              /\ x.left = users[x.user].codes \ {x.code}
    PROVE  IInv'
<1>1. x # Idle /\ x.user \in Users /\ x.step \notin IssueSteps
  BY FlightFacts DEF FactorSteps, IssueSteps
<1>2. /\ Start(r, x) /\ UNCHANGED <<users, links, proved, overlapped>>
      /\ crossed' = IF Meets(r, x.user, FactorSteps) THEN crossed \cup {x.user} ELSE crossed
  BY DEF StartFactor
<1>3. /\ crossed \subseteq crossed' /\ crossed' \subseteq Users
      /\ x.user \in crossed' \/ \A q \in Requests \ {r} : ~InFactor(q, x.user)
  BY <1>1, <1>2 DEF Meets, InFactor, IInv, Typed, Idle, FactorSteps
<1>4. \A y : y = x => RequestSound(y)' /\ FactorSound(y)'
  BY <1>1, <1>2 DEF RequestSound, FactorSound, Exists, IssueSteps, FactorSteps
<1>5. \A q \in Requests \ {r} : requests[q] # Idle /\ requests[q].user = x.user =>
         x.step # "register" /\ ~At(q, "register")
  BY <1>1, StartsAlone DEF IssueSteps
<1>6. LinksFall /\ links' \in Seq(Mailed)
  BY <1>2, NoLinkMoves DEF IInv
<1>7. Erased(x.user) => x.step \in EndSteps
  BY <1>1 DEF IInv, ErasedInv
<1> QED BY <1>1, <1>2, <1>3, <1>4, <1>5, <1>6, <1>7, StartFacts, CalmKeeps
        DEF IInv, Typed, IssueSteps

LEMMA AskKeeps == ASSUME IInv, NEW r \in Requests, NEW u \in Users, Ask(r, u) PROVE IInv'
<1>0. /\ "EMAIL_VERIFICATION" \in AccountTokenType /\ "PASSWORD_RESET" \in AccountTokenType
      /\ "EMAIL_CHANGE" \in AccountTokenType
  BY DEF AccountTokenType
<1>1. ASSUME NEW a \in Addresses, Register(r, u, a) PROVE IInv'
  <2>1. /\ ~Exists(u) /\ ~Erased(u)
        /\ StartIssue(r, u, "register", "EMAIL_VERIFICATION", a, a)
    BY <1>1 DEF Register, Erased
  <2>2. \A q \in Requests \ {r} : requests[q] # Idle => requests[q].user # u
    BY <1>1, InFlight, FlightFacts DEF Register, Meets, IInv
  <2> QED BY <1>0, <2>1, <2>2, StartIssueKeeps
<1>2. ASSUME NEW a \in Addresses, RequestEmailChange(r, u, a) PROVE IInv'
  <2>1. ~Erased(u)
    BY <1>2 DEF RequestEmailChange, IInv, ErasedInv
  <2> QED BY <1>0, <1>2, <2>1, StartIssueKeeps DEF RequestEmailChange
<1>3. ASSUME Exists(u), users[u].email # NoAddress PROVE users[u].email \in Addresses /\ ~Erased(u)
  BY <1>3 DEF IInv, Typed, Account, Exists, Erased
<1>4. ResendVerification(r, u) => IInv'
  BY <1>0, <1>3, StartIssueKeeps DEF ResendVerification
<1>5. RequestPasswordReset(r, u) => IInv'
  BY <1>0, <1>3, StartIssueKeeps DEF RequestPasswordReset
<1>6. ASSUME NEW s \in {"password", "erase"}, Exists(u), users[u].password,
             StartPlain(r, [step |-> s, user |-> u])
      PROVE  IInv'
  <2> DEFINE x == [step |-> s, user |-> u]
  <2>1. x \in Plain /\ x.step = s /\ x.user = u
    BY DEF Plain
  <2>2. StartPlain(r, x)
    BY <1>6
  <2> HIDE DEF x
  <2> QED BY <1>6, <2>1, <2>2, StartPlainKeeps
<1>7. ASSUME NEW on \in BOOLEAN, SetActive(r, u, on) PROVE IInv'
  <2> DEFINE x == [step |-> "status", user |-> u, isActive |-> on,
                   status |-> IF ~on THEN "SUSPENDED"
                              ELSE IF users[u].verified THEN "ACTIVE" ELSE "REGISTERED"]
  <2>1. x \in Switching /\ x.step = "status" /\ x.user = u
    BY DEF Switching, AccountStatus
  <2>2. StartPlain(r, x) /\ Exists(u)
    BY <1>7 DEF SetActive
  <2> HIDE DEF x
  <2> QED BY <2>1, <2>2, StartPlainKeeps
<1> QED BY <1>1, <1>2, <1>4, <1>5, <1>6, <1>7 DEF Ask, ChangePassword, DeleteOwnAccount

LEMMA AskFactorKeeps ==
    ASSUME IInv, NEW r \in Requests, NEW u \in Users, AskFactor(r, u) PROVE IInv'
<1>0. tried \in [Users -> SUBSET Nat] /\ served + 1 \in Nat
  BY DEF IInv, Typed
<1>1. ASSUME SetupMfa(r, u) PROVE IInv'
  <2> DEFINE x == [step |-> "secret", user |-> u, secret |-> served + 1]
  <2>1. x \in Flight /\ x.step = "secret" /\ x.user = u
    BY <1>0 DEF Flight, Keeping
  <2>2. StartFactor(r, x) /\ Exists(u) /\ tried' = tried
    BY <1>1 DEF SetupMfa
  <2> HIDE DEF x
  <2> QED BY <1>0, <2>1, <2>2, StartFactorKeeps DEF FactorSteps, EndSteps
<1>2. ASSUME VerifyFirstCode(r, u) PROVE IInv'
  <2> DEFINE x == [step |-> "enable", user |-> u]
  <2>1. x \in Flight /\ x.step = "enable" /\ x.user = u
    BY DEF Flight, Plain
  <2>2. /\ StartFactor(r, x) /\ Exists(u)
        /\ tried' = [tried EXCEPT ![u] = @ \cup {users[u].secret}]
    BY <1>2 DEF VerifyFirstCode
  <2>3. users[u].secret \in Nat
    BY <2>2 DEF IInv, Typed, Account, Exists
  <2>4. /\ tried' \in [Users -> SUBSET Nat] /\ \A v \in Users : tried[v] \subseteq tried'[v]
        /\ users[u].secret \in tried'[u]
    BY <1>0, <2>2, <2>3
  <2> HIDE DEF x
  <2> QED BY <2>1, <2>2, <2>4, StartFactorKeeps DEF FactorSteps, EndSteps
<1>3. ASSUME RequestDisable(r, u) PROVE IInv'
  <2> DEFINE x == [step |-> "disable", user |-> u]
  <2>1. x \in Flight /\ x.step = "disable" /\ x.user = u
    BY DEF Flight, Plain
  <2>2. StartFactor(r, x) /\ Exists(u) /\ users[u].password /\ tried' = tried
    BY <1>3 DEF RequestDisable
  <2> HIDE DEF x
  <2> QED BY <1>0, <2>1, <2>2, StartFactorKeeps DEF FactorSteps
<1>4. ASSUME NEW c \in RecoveryCodes, LoginWithRecoveryCode(r, u, c) PROVE IInv'
  <2> DEFINE x == [step |-> "spend", user |-> u, code |-> c, left |-> users[u].codes \ {c}]
  <2>1. users[u].codes \subseteq RecoveryCodes
    BY <1>4 DEF LoginWithRecoveryCode, IInv, Typed, Account, Exists
  <2>2. /\ x \in Flight /\ x.step = "spend" /\ x.user = u /\ x.code = c
        /\ x.left = users[u].codes \ {c}
    BY <2>1 DEF Flight, Spending
  <2>3. StartFactor(r, x) /\ Exists(u) /\ users[u].password /\ tried' = tried /\ c \in users[u].codes
    BY <1>4 DEF LoginWithRecoveryCode
  <2> HIDE DEF x
  <2> QED BY <1>0, <2>2, <2>3, StartFactorKeeps DEF FactorSteps
<1> QED BY <1>1, <1>2, <1>3, <1>4 DEF AskFactor

\* Consuming a link proves the address it was mailed to.
LEMMA ConsumeTokenKeeps ==
    ASSUME IInv, NEW r \in Requests, NEW i \in DOMAIN links, ConsumeToken(r, i) PROVE IInv'
<1> DEFINE l == links[i]
           x == [step |-> EffectOf[l.kind], user |-> l.owner, address |-> l.address]
<1>1. l \in Mailed /\ LinkSound(l) /\ l.open
  BY LinkFacts DEF IInv, IdentityInv, ConsumeToken
<1>2. /\ l.owner \in Users /\ l.kind \in AccountTokenType /\ l.to \in Addresses
      /\ l.address \in Addresses /\ Exists(l.owner)
  BY <1>1 DEF Mailed, LinkSound
<1>3. /\ x.step \in {"verify", "password", "confirm"} /\ x.user = l.owner /\ x.address = l.address
      /\ x.step = "verify" => l.kind = "EMAIL_VERIFICATION"
      /\ x.step = "confirm" => l.kind = "EMAIL_CHANGE"
  BY <1>2 DEF EffectOf, AccountTokenType
<1>4. x \in Flight /\ x # Idle
  BY <1>2, <1>3 DEF Flight, Consuming, Idle
<1>5. /\ Start(r, x) /\ links' = [links EXCEPT ![i].open = FALSE]
      /\ proved' = [proved EXCEPT ![l.owner] = @ \cup ({l.to} \ {NoAddress})]
      /\ UNCHANGED <<users, tried, overlapped, crossed>>
  BY DEF ConsumeToken
<1>6. {l.to} \ {NoAddress} = {l.to}
  BY <1>2, NoAddressAssumption
<1>7. /\ proved' \in [Users -> SUBSET Addresses] /\ \A v \in Users : proved[v] \subseteq proved'[v]
      /\ l.to \in proved'[l.owner]
  BY <1>2, <1>5, <1>6 DEF IInv, Typed
<1>8. LinksFall /\ links' \in Seq(Mailed)
  <2>1. links' = [j \in DOMAIN links |-> IF j \in {i} THEN [links[j] EXCEPT !.open = FALSE]
                                                     ELSE links[j]]
    BY <1>5 DEF IInv, Typed
  <2> QED BY <2>1, ClosingLinks DEF IInv
<1>9. ~Erased(l.owner)
  BY <1>1, <1>2 DEF IInv, ErasedInv
<1> HIDE DEF l, x
<1>10. \A y : y = x => RequestSound(y)'
  <2>1. x.step = "verify" => users'[x.user].email \in proved'[x.user] \cup {NoAddress}
    BY <1>1, <1>2, <1>3, <1>5, <1>7 DEF LinkSound, Bound
  <2>2. x.step = "confirm" => x.address \in proved'[x.user]
    BY <1>1, <1>3, <1>7 DEF LinkSound
  <2>3. \A v : v = l.owner => Exists(v)'
    BY <1>2, <1>5 DEF Exists
  <2> QED BY <1>3, <2>1, <2>2, <2>3 DEF RequestSound, Bound, IssueSteps, Exists
<1>11. \A q \in Requests \ {r} : requests[q] # Idle /\ requests[q].user = x.user =>
          x.step # "register" /\ ~At(q, "register")
  BY <1>2, <1>3, StartsAlone
<1>12. x.step \notin IssueSteps /\ x.step \notin FactorSteps
  BY <1>3 DEF IssueSteps, FactorSteps
<1> QED BY <1>3, <1>4, <1>5, <1>7, <1>8, <1>9, <1>10, <1>11, <1>12, StartFacts, CalmKeeps
        DEF IInv, Typed, IssueSteps

LEMMA ExpandInvalidated ==
    ASSUME NEW u, NEW kind, links' = Invalidated(u, kind), Typed
    PROVE  /\ LinksFall /\ links' \in Seq(Mailed)
           /\ \A i : ~OpenLink(i, u, kind)'
<1> DEFINE S == {i \in DOMAIN links : links[i].owner = u /\ links[i].kind = kind}
<1>1. links' = [i \in DOMAIN links |-> IF i \in S THEN [links[i] EXCEPT !.open = FALSE]
                                               ELSE links[i]]
  BY DEF Invalidated
<1>2. \A i \in DOMAIN links : links[i].owner = u /\ links[i].kind = kind => i \in S
  OBVIOUS
<1> HIDE DEF S
<1>3. LinksFall /\ links' \in Seq(Mailed) /\ \A i \in DOMAIN links : i \in S => ~links'[i].open
  BY <1>1, ClosingLinks
<1> QED BY <1>2, <1>3 DEF OpenLink, LinksFall

\* A request goes on, without writing an account.
LEMMA GoOnKeeps ==
    ASSUME IInv, NEW r \in Requests, requests[r] # Idle, NEW x \in Flight \cup {Idle},
           requests' = [requests EXCEPT ![r] = x],
           x # Idle =>
              /\ x.user = requests[r].user
              /\ <<requests[r].step, x.step>> \in
                    {<<"invalidate", "create">>, <<"confirm", "replace">>}
              /\ x.step = "create" => x.kind = requests[r].kind /\ x.to = requests[r].to
                                         /\ x.address = requests[r].address
              /\ x.step = "replace" => x.address = requests[r].address,
           UNCHANGED <<users, writes, proved, tried, spent, twice, overlapped, overtaken, crossed,
                       served>>,
           links' \in Seq(Mailed), LinksFall, faults' \in Nat,
           interrupted \subseteq interrupted', interrupted' \subseteq Users,
           x.step = "create" => \A u : \A k : u = x.user /\ k = x.kind => \A i : ~OpenLink(i, u, k)',
           At(r, "close") =>
              \/ requests[r].user \in interrupted'
              \/ \A u : u = requests[r].user => \A i : ~OpenLink(i, u, "PASSWORD_RESET")'
    PROVE  IInv'
<1>1. RequestSound(requests[r]) /\ requests[r].user \in Users
  BY InFlight, FlightFacts DEF IInv, IdentityInv
<1>2. \A y : y = x /\ y # Idle => RequestSound(y)'
  BY <1>1 DEF RequestSound, Bound, Exists, IssueSteps
<1>3. x # Idle => x.step \notin {"register"} \cup FactorSteps \cup EndSteps
  BY DEF FactorSteps, EndSteps
<1>4. x # Idle => \A q \in Requests \ {r} : requests[q] # Idle /\ requests[q].user = x.user =>
                     x.step # "register" /\ ~At(q, "register")
  BY <1>3, SameUserAlone DEF IInv
<1>5. x.step \in IssueSteps => IssuesFor(r, x.user, x.kind)
  BY DEF IssuesFor, IssueSteps, Idle
<1>6. x # Idle => ~Erased(x.user)
  BY <1>1 DEF IInv, ErasedInv, EndSteps
<1>7. x.step \notin FactorSteps
  BY <1>3 DEF Idle, FactorSteps
<1> QED BY <1>2, <1>4, <1>5, <1>6, <1>7, CalmKeeps DEF IInv, Typed

LEMMA InvalidateLinksKeeps == ASSUME IInv, NEW r \in Requests, InvalidateLinks(r) PROVE IInv'
<1> DEFINE x == [requests[r] EXCEPT !.step = "create"]
<1>1. requests[r] # Idle /\ requests[r].step = "invalidate"
  BY AtFlight DEF InvalidateLinks, At, Steps, IssueSteps, IInv
<1>2. /\ x \in Flight /\ x.step = "create" /\ x.user = requests[r].user
      /\ x.kind = requests[r].kind /\ x.to = requests[r].to /\ x.address = requests[r].address
      /\ requests' = [requests EXCEPT ![r] = x]
  BY <1>1, GotoFacts DEF InvalidateLinks, IInv, IssueSteps
<1>3. /\ links' = Invalidated(requests[r].user, requests[r].kind)
      /\ UNCHANGED <<users, writes, proved, tried, spent, twice, overlapped, interrupted,
                     overtaken, crossed, served, faults>>
  BY DEF InvalidateLinks, history
<1>4. LinksFall /\ links' \in Seq(Mailed) /\ ~At(r, "close")
  BY <1>1, <1>3, ExpandInvalidated DEF IInv, At
<1>5. \A u : \A k : u = requests[r].user /\ k = requests[r].kind => \A i : ~OpenLink(i, u, k)'
  BY <1>3, ExpandInvalidated DEF IInv
<1> HIDE DEF x
<1> QED BY <1>1, <1>2, <1>3, <1>4, <1>5, GoOnKeeps DEF IInv, Typed

LEMMA CheckAddressKeeps == ASSUME IInv, NEW r \in Requests, CheckAddress(r) PROVE IInv'
<1> DEFINE x == IF EmailInUse(requests[r].address, requests[r].user) THEN Idle
                ELSE [requests[r] EXCEPT !.step = "replace"]
<1>1. requests[r] # Idle /\ requests[r].step = "confirm" /\ ~At(r, "close")
  BY AtFlight DEF CheckAddress, At, Steps, IInv
<1>2. /\ x \in Flight \cup {Idle} /\ requests' = [requests EXCEPT ![r] = x]
      /\ x # Idle => /\ x.step = "replace" /\ x.user = requests[r].user
                     /\ x.address = requests[r].address
  BY <1>1, GotoFacts DEF CheckAddress, Finish, IInv
<1>3. UNCHANGED <<users, links, writes, proved, tried, spent, twice, overlapped, interrupted,
                  overtaken, crossed, served, faults>>
  BY DEF CheckAddress, history
<1> HIDE DEF x
<1>4. LinksFall /\ links' \in Seq(Mailed)
  BY <1>3, NoLinkMoves DEF IInv
<1>5. x.step # "create"
  BY <1>2 DEF Idle
<1> QED BY <1>1, <1>2, <1>3, <1>4, <1>5, GoOnKeeps DEF IInv, Typed

LEMMA CloseRecoveryKeeps == ASSUME IInv, NEW r \in Requests, CloseRecovery(r) PROVE IInv'
<1>1. requests[r] # Idle /\ Idle.step # "create"
  BY AtFlight DEF CloseRecovery, Steps, IInv, Idle
<1>2. /\ requests' = [requests EXCEPT ![r] = Idle]
      /\ links' = Invalidated(requests[r].user, "PASSWORD_RESET")
      /\ UNCHANGED <<users, writes, proved, tried, spent, twice, overlapped, interrupted,
                     overtaken, crossed, served, faults>>
  BY DEF CloseRecovery, Finish, history
<1>3. LinksFall /\ links' \in Seq(Mailed)
  BY <1>2, ExpandInvalidated DEF IInv
<1>4. \A u : u = requests[r].user => \A i : ~OpenLink(i, u, "PASSWORD_RESET")'
  BY <1>2, ExpandInvalidated DEF IInv
<1> QED BY <1>1, <1>2, <1>3, <1>4, GoOnKeeps DEF IInv, Typed

LEMMA LoseKeeps == ASSUME IInv, NEW r \in Requests, Lose(r) PROVE IInv'
<1>1. requests[r] # Idle /\ Idle.step # "create" /\ requests[r].user \in Users
  BY InFlight, FlightFacts DEF Lose, Idle, IInv
<1>2. /\ requests' = [requests EXCEPT ![r] = Idle] /\ faults' \in Nat
      /\ UNCHANGED <<users, links, writes, proved, tried, spent, twice, overlapped, overtaken,
                     crossed, served>>
      /\ interrupted' = IF At(r, "close") THEN interrupted \cup {requests[r].user} ELSE interrupted
  BY DEF Lose, Finish, IInv, Typed
<1>3. LinksFall /\ links' \in Seq(Mailed)
  BY <1>2, NoLinkMoves DEF IInv
<1>4. /\ interrupted \subseteq interrupted' /\ interrupted' \subseteq Users
      /\ At(r, "close") => requests[r].user \in interrupted'
  BY <1>1, <1>2 DEF IInv, Typed
<1> QED BY <1>1, <1>2, <1>3, <1>4, GoOnKeeps

-----------------------------------------------------------------------------
(* Steps that write an account, or add a link.                             *)

\* The row of the user of r is written, and r ends or goes on to close links.
LEMMA WriteKeeps ==
    ASSUME IInv, NEW r \in Requests, requests[r] # Idle, NEW x \in Flight \cup {Idle},
           requests' = [requests EXCEPT ![r] = x],
           x # Idle => x.step = "close" /\ x.user = requests[r].user,
           ~At(r, "register"), NEW row \in Account,
           users' = [users EXCEPT ![requests[r].user] = row],
           row.email \in proved[requests[r].user] \cup {users[requests[r].user].email, NoAddress},
           row.verified /\ row.email # NoAddress => row.email \in proved[requests[r].user],
           links' \in Seq(Mailed), LinksFall,
           UNCHANGED <<proved, tried, overlapped, crossed, interrupted, served, faults>>,
           writes' \in [Users -> Nat], spent' \in [Users -> SUBSET RecoveryCodes],
           twice' \subseteq Users, overtaken' \subseteq Users,
           PasswordClosesLinks', ErasedInv', FactorInv'
    PROVE  IInv'
<1> DEFINE u == requests[r].user
<1>1. u \in Users /\ Exists(u) /\ users[u] \in Account /\ RequestSound(requests[r])
  BY InFlight, FlightFacts DEF IInv, IdentityInv, RequestSound, At, Typed, Exists
<1>2. NoAccount \notin Account
  BY DEF NoAccount, Account, AccountStatus
<1>3. Typed'
  BY <1>1 DEF IInv, Typed
<1>4. /\ users'[u] = row /\ \A v \in Users \ {u} : users'[v] = users[v]
      /\ \A v \in Users : Exists(v)' <=> Exists(v)
  BY <1>1, <1>2 DEF IInv, Typed, Exists
<1>5. AddressProved'
  BY <1>4 DEF IInv, IdentityInv, AddressProved, Exists
<1>6. \A i \in DOMAIN links' : \A l : l = links'[i] =>
         /\ i \in DOMAIN links /\ l.owner = links[i].owner /\ l.kind = links[i].kind
         /\ l.to = links[i].to /\ l.address = links[i].address
  BY DEF LinksFall
<1>7. \A v \in Users : users'[v].email \in proved'[v] \cup {users[v].email, NoAddress}
  BY <1>4
<1>8. \A y : y = x /\ y # Idle => RequestSound(y)'
  BY <1>1, <1>4 DEF RequestSound, IssueSteps
<1>9. x # Idle => \A q \in Requests \ {r} : requests[q] # Idle /\ requests[q].user = x.user =>
                     x.step # "register" /\ ~At(q, "register")
  BY SameUserAlone DEF IInv
<1>10. IdentityInv'
  BY <1>4, <1>5, <1>6, <1>7, <1>8, <1>9, IdentityKeeps DEF IInv
<1>11. x.step \notin IssueSteps
  BY DEF IssueSteps, Idle
<1>12. OneInv'
  BY <1>11, OpenFalls, OneKeeps DEF IInv, IssueSteps
<1> QED BY <1>3, <1>10, <1>12 DEF IInv

\* A request that is not one of those that outlive an erasure is about an account that stands.
LEMMA Standing ==
    ASSUME IInv, NEW r \in Requests, requests[r] # Idle, requests[r].step \notin EndSteps
    PROVE  ~Erased(requests[r].user)
BY InFlight, FlightFacts DEF IInv, ErasedInv

LEMMA UserFacts ==
    ASSUME IInv, NEW r \in Requests, requests[r] # Idle, requests[r].step # "register"
    PROVE  /\ requests[r].user \in Users /\ Exists(requests[r].user)
           /\ users[requests[r].user] \in Account
BY InFlight, FlightFacts DEF IInv, IdentityInv, RequestSound, Typed, Exists

\* A row written whose password, verification and address give an erased account nothing.
LEMMA ErasedAfterWrite ==
    ASSUME IInv, NEW r \in Requests, requests[r] # Idle, NEW x, x = Idle \/ x.step = "close",
           x # Idle => x.user = requests[r].user /\ requests[r].step \notin EndSteps,
           requests' = [requests EXCEPT ![r] = x], requests[r].step # "register",
           NEW row \in Account, users' = [users EXCEPT ![requests[r].user] = row],
           row.email = NoAddress => users[requests[r].user].email = NoAddress,
           requests[r].step \in EndSteps =>
              /\ row.password = users[requests[r].user].password
              /\ row.verified = users[requests[r].user].verified,
           LinksFall, overtaken' = overtaken
    PROVE  ErasedInv'
<1> DEFINE u == requests[r].user
<1>1. u \in Users /\ Exists(u)
  BY UserFacts
<1>2. users'[u] = row /\ \A v \in Users \ {u} : users'[v] = users[v]
  BY <1>1 DEF IInv, Typed
<1>3. requests[r].step \notin EndSteps => ~Erased(u)
  BY Standing
<1> HIDE DEF u
<1>4. ASSUME NEW v \in Users, Erased(v)'
      PROVE  Erased(v) /\ ~users'[v].password /\ ~users'[v].verified
  <2>1. Erased(v)
    BY <1>1, <1>2, <1>4 DEF Erased, Exists, u
  <2>2. CASE v = u
    BY <1>2, <1>3, <2>1, <2>2 DEF u, IInv, ErasedInv
  <2>3. CASE v # u
    BY <1>2, <2>1, <2>3 DEF IInv, ErasedInv
  <2> QED BY <2>1, <2>2, <2>3
<1>5. \A v \in Users : x # Idle /\ x.user = v /\ Erased(v) => x.step \in EndSteps
  BY <1>3 DEF u
<1> QED BY <1>4, <1>5, ErasedKeeps DEF IInv

\* A row written that leaves the second factor as it is, by a request that is not about it.
LEMMA FactorAfterWrite ==
    ASSUME IInv, NEW r \in Requests, requests[r] # Idle, NEW x, x = Idle \/ x.step = "close",
           requests' = [requests EXCEPT ![r] = x], requests[r].step # "register",
           NEW row \in Account, users' = [users EXCEPT ![requests[r].user] = row],
           row.mfa = users[requests[r].user].mfa, row.secret = users[requests[r].user].secret,
           row.codes = users[requests[r].user].codes,
           UNCHANGED <<tried, spent, twice, crossed>>
    PROVE  FactorInv'
<1> DEFINE u == requests[r].user
<1>1. u \in Users /\ Exists(u) /\ NoAccount \notin Account
  BY UserFacts DEF NoAccount, Account, AccountStatus
<1>2. /\ users'[u] = row /\ \A v \in Users \ {u} : users'[v] = users[v]
      /\ \A v \in Users : Exists(v)' <=> Exists(v)
  BY <1>1 DEF IInv, Typed, Exists
<1>3. \A q \in Requests : requests[q].step \in FactorSteps => Exists(requests[q].user)
  BY DEF IInv, IdentityInv, RequestSound, FactorSteps, Idle
<1>4. x.step \notin FactorSteps
  BY DEF FactorSteps, Idle
<1> QED BY <1>2, <1>3, <1>4, FactorKeeps DEF IInv

LEMMA MarkEmailVerifiedKeeps == ASSUME IInv, NEW r \in Requests, MarkEmailVerified(r) PROVE IInv'
<1> DEFINE u == requests[r].user
           row == [users[u] EXCEPT !.verified = TRUE, !.status = "ACTIVE"]
<1>1. requests[r] # Idle /\ requests[r].step = "verify" /\ ~At(r, "close") /\ ~At(r, "register")
  BY AtFlight DEF MarkEmailVerified, At, Steps, IInv
<1>2. u \in Users /\ Exists(u) /\ users[u] \in Account
  BY <1>1, UserFacts
<1>3. /\ users' = [users EXCEPT ![u] = row] /\ requests' = [requests EXCEPT ![r] = Idle]
      /\ UNCHANGED <<links, writes, proved, tried, spent, twice, overlapped, interrupted,
                     overtaken, crossed, served, faults>>
  BY <1>2 DEF MarkEmailVerified, Finish, history, IInv, Typed
<1>4. /\ row \in Account /\ row.email = users[u].email /\ row.mfa = users[u].mfa
      /\ row.secret = users[u].secret /\ row.codes = users[u].codes
  BY <1>2 DEF Account, AccountStatus
<1>5. users[u].email \in proved[u] \cup {NoAddress}
  BY <1>1 DEF IInv, IdentityInv, RequestSound, Bound
<1> HIDE DEF row
<1>6. LinksFall /\ links' \in Seq(Mailed)
  BY <1>3, NoLinkMoves DEF IInv
<1>7. PasswordClosesLinks'
  BY <1>1, <1>3, <1>6, ClosesRest DEF IInv
<1>8. ErasedInv'
  BY <1>1, <1>3, <1>4, <1>6, ErasedAfterWrite DEF EndSteps
<1>9. FactorInv'
  BY <1>1, <1>3, <1>4, FactorAfterWrite
<1> QED BY <1>1, <1>3, <1>4, <1>5, <1>6, <1>7, <1>8, <1>9, WriteKeeps DEF IInv, Typed

LEMMA ReplaceEmailKeeps == ASSUME IInv, NEW r \in Requests, ReplaceEmail(r) PROVE IInv'
<1> DEFINE u == requests[r].user
           a == requests[r].address
           row == IF EmailInUse(a, u) THEN users[u] ELSE [users[u] EXCEPT !.email = a, !.verified = TRUE]
<1>1. requests[r] # Idle /\ requests[r].step = "replace" /\ ~At(r, "close") /\ ~At(r, "register")
  BY AtFlight DEF ReplaceEmail, At, Steps, IInv
<1>2. u \in Users /\ Exists(u) /\ users[u] \in Account
  BY <1>1, UserFacts
<1>3. a \in Addresses /\ a # NoAddress /\ a \in proved[u]
  BY <1>1, InFlight, FlightFacts, NoAddressAssumption DEF IInv, IdentityInv, RequestSound
<1>4. /\ users' = [users EXCEPT ![u] = row] /\ requests' = [requests EXCEPT ![r] = Idle]
      /\ UNCHANGED <<links, writes, proved, tried, spent, twice, overlapped, interrupted,
                     overtaken, crossed, served, faults>>
  BY <1>2 DEF ReplaceEmail, Finish, history, IInv, Typed
<1>5. /\ row \in Account /\ row.mfa = users[u].mfa
      /\ row.secret = users[u].secret /\ row.codes = users[u].codes
      /\ \/ row.email = a
         \/ row.email = users[u].email /\ row.verified = users[u].verified
  BY <1>2, <1>3 DEF Account
<1> HIDE DEF row
<1>6. LinksFall /\ links' \in Seq(Mailed)
  BY <1>4, NoLinkMoves DEF IInv
<1>7. PasswordClosesLinks'
  BY <1>1, <1>4, <1>6, ClosesRest DEF IInv
<1>8. ErasedInv'
  BY <1>1, <1>3, <1>4, <1>5, <1>6, ErasedAfterWrite DEF EndSteps
<1>9. FactorInv'
  BY <1>1, <1>4, <1>5, FactorAfterWrite
<1>10. row.verified /\ row.email # NoAddress => row.email \in proved[u]
  BY <1>2, <1>3, <1>5 DEF IInv, IdentityInv, AddressProved
<1> QED BY <1>1, <1>3, <1>4, <1>5, <1>6, <1>7, <1>8, <1>9, <1>10, WriteKeeps DEF IInv, Typed

LEMMA UpdatePasswordKeeps == ASSUME IInv, NEW r \in Requests, UpdatePassword(r) PROVE IInv'
<1> DEFINE u == requests[r].user
           row == [users[u] EXCEPT !.password = TRUE]
           x == [requests[r] EXCEPT !.step = "close"]
<1>1. requests[r] # Idle /\ requests[r].step = "password" /\ ~At(r, "close") /\ ~At(r, "register")
  BY AtFlight DEF UpdatePassword, At, Steps, IInv
<1>2. u \in Users /\ Exists(u) /\ users[u] \in Account
  BY <1>1, UserFacts
<1>3. x \in Flight /\ x.step = "close" /\ x.user = u /\ requests' = [requests EXCEPT ![r] = x]
  BY <1>1, GotoFacts DEF UpdatePassword, IInv
<1>4. /\ users' = [users EXCEPT ![u] = row] /\ writes' = [writes EXCEPT ![u] = @ + 1]
      /\ UNCHANGED <<links, proved, tried, spent, twice, overlapped, interrupted,
                     overtaken, crossed, served, faults>>
  BY <1>2 DEF UpdatePassword, IInv, Typed
<1>5. /\ row \in Account /\ row.email = users[u].email /\ row.mfa = users[u].mfa
      /\ row.secret = users[u].secret /\ row.codes = users[u].codes
      /\ row.verified = users[u].verified
  BY <1>2 DEF Account
<1>6. /\ writes' \in [Users -> Nat] /\ \A v \in Users \ {u} : writes'[v] = writes[v]
  BY <1>2, <1>4 DEF IInv, Typed
<1> HIDE DEF row, x
<1>7. LinksFall /\ links' \in Seq(Mailed)
  BY <1>4, NoLinkMoves DEF IInv
<1>8. PasswordClosesLinks'
  <2> SUFFICES ASSUME NEW i \in DOMAIN links, links[i].open, links[i].kind = "PASSWORD_RESET",
                      links[i].written < writes'[links[i].owner]
               PROVE  \/ links[i].owner \in interrupted
                      \/ \E q \in Requests : At(q, "close")' /\ requests'[q].user = links[i].owner
    BY <1>4 DEF PasswordClosesLinks
  <2>1. requests'[r] = x /\ \A q \in Requests \ {r} : requests'[q] = requests[q]
    BY <1>3 DEF IInv, Typed
  <2>2. CASE links[i].owner = u
    BY <2>1, <2>2, <1>3 DEF At
  <2>3. CASE links[i].owner # u
    <3>1. links[i].owner \in Users
      BY LinkFacts DEF IInv, Mailed
    <3>2. \/ links[i].owner \in interrupted
          \/ \E q \in Requests : At(q, "close") /\ requests[q].user = links[i].owner
      BY <2>3, <3>1, <1>6 DEF IInv, PasswordClosesLinks
    <3> QED BY <2>1, <3>2, <1>1 DEF At
  <2> QED BY <2>2, <2>3
<1>9. ErasedInv'
  BY <1>1, <1>3, <1>4, <1>5, <1>7, ErasedAfterWrite DEF EndSteps
<1>10. FactorInv'
  BY <1>1, <1>3, <1>4, <1>5, FactorAfterWrite
<1>11. row.verified /\ row.email # NoAddress => row.email \in proved[u]
  BY <1>2, <1>5 DEF IInv, IdentityInv, AddressProved
<1> QED BY <1>1, <1>3, <1>4, <1>5, <1>6, <1>7, <1>8, <1>9, <1>10, <1>11, WriteKeeps
        DEF IInv, Typed

LEMMA WriteStatusKeeps == ASSUME IInv, NEW r \in Requests, WriteStatus(r) PROVE IInv'
<1> DEFINE u == requests[r].user
           row == [users[u] EXCEPT !.isActive = requests[r].isActive, !.status = requests[r].status]
<1>1. requests[r] # Idle /\ requests[r].step = "status" /\ ~At(r, "close") /\ ~At(r, "register")
  BY AtFlight DEF WriteStatus, At, Steps, IInv
<1>2. u \in Users /\ Exists(u) /\ users[u] \in Account
  BY <1>1, UserFacts
<1>3. requests[r].isActive \in BOOLEAN /\ requests[r].status \in AccountStatus
  BY <1>1, InFlight, FlightFacts DEF IInv
<1>4. /\ users' = [users EXCEPT ![u] = row] /\ requests' = [requests EXCEPT ![r] = Idle]
      /\ UNCHANGED <<links, writes, proved, tried, spent, twice, overlapped, interrupted,
                     overtaken, crossed, served, faults>>
  BY <1>2 DEF WriteStatus, Finish, history, IInv, Typed
<1>5. /\ row \in Account /\ row.email = users[u].email /\ row.mfa = users[u].mfa
      /\ row.secret = users[u].secret /\ row.codes = users[u].codes
      /\ row.verified = users[u].verified /\ row.password = users[u].password
  BY <1>2, <1>3 DEF Account
<1> HIDE DEF row
<1>6. LinksFall /\ links' \in Seq(Mailed)
  BY <1>4, NoLinkMoves DEF IInv
<1>7. PasswordClosesLinks'
  BY <1>1, <1>4, <1>6, ClosesRest DEF IInv
<1>8. ErasedInv'
  BY <1>1, <1>4, <1>5, <1>6, ErasedAfterWrite
<1>9. FactorInv'
  BY <1>1, <1>4, <1>5, FactorAfterWrite
<1>10. row.verified /\ row.email # NoAddress => row.email \in proved[u]
  BY <1>2, <1>5 DEF IInv, IdentityInv, AddressProved
<1> QED BY <1>1, <1>4, <1>5, <1>6, <1>7, <1>8, <1>9, <1>10, WriteKeeps DEF IInv, Typed

\* One transaction: an account erased while nothing else is under way about it has nothing left.
LEMMA AnonymizeAccountKeeps == ASSUME IInv, NEW r \in Requests, AnonymizeAccount(r) PROVE IInv'
<1> DEFINE u == requests[r].user
           row == [users[u] EXCEPT !.email = NoAddress, !.password = FALSE, !.status = "DELETED",
                                   !.isActive = FALSE, !.verified = FALSE]
           S == {i \in DOMAIN links : links[i].owner = u}
<1>1. requests[r] # Idle /\ requests[r].step = "erase" /\ ~At(r, "close") /\ ~At(r, "register")
  BY AtFlight DEF AnonymizeAccount, At, Steps, IInv
<1>2. u \in Users /\ Exists(u) /\ users[u] \in Account
  BY <1>1, UserFacts
<1>3. /\ users' = [users EXCEPT ![u] = row] /\ requests' = [requests EXCEPT ![r] = Idle]
      /\ UNCHANGED <<writes, proved, tried, spent, twice, overlapped, interrupted, crossed,
                     served, faults>>
      /\ overtaken' = IF Meets(r, u, Steps) THEN overtaken \cup {u} ELSE overtaken
      /\ links' = [i \in DOMAIN links |-> IF i \in S THEN [links[i] EXCEPT !.open = FALSE]
                                                   ELSE links[i]]
  BY <1>2 DEF AnonymizeAccount, Finish, LeftOf, IInv, Typed
<1>4. /\ row \in Account /\ row.email = NoAddress /\ row.mfa = users[u].mfa
      /\ row.secret = users[u].secret /\ row.codes = users[u].codes
      /\ ~row.verified /\ ~row.password
  BY <1>2 DEF Account, AccountStatus
<1>5. \A i \in DOMAIN links : i \in S <=> links[i].owner = u
  OBVIOUS
<1> HIDE DEF row, S, u
<1>6. LinksFall /\ links' \in Seq(Mailed) /\ \A i \in DOMAIN links : i \in S => ~links'[i].open
  BY <1>3, ClosingLinks DEF IInv
<1>7. PasswordClosesLinks'
  BY <1>1, <1>3, <1>6, ClosesRest DEF IInv
<1>8. FactorInv'
  BY <1>1, <1>3, <1>4, FactorAfterWrite DEF u
<1>9. /\ users'[u] = row /\ \A v \in Users \ {u} : users'[v] = users[v]
      /\ requests'[r] = Idle /\ \A q \in Requests \ {r} : requests'[q] = requests[q]
      /\ overtaken \subseteq overtaken' /\ overtaken' \subseteq Users
  BY <1>2, <1>3 DEF IInv, Typed
<1>10. ASSUME NEW v \in Users, Erased(v)'
       PROVE  /\ ~users'[v].password /\ ~users'[v].verified
              /\ \A i \in DOMAIN links' : links'[i].owner = v => ~links'[i].open
              /\ \A q \in Requests : requests'[q] # Idle /\ requests'[q].user = v =>
                    requests'[q].step \in EndSteps
  <2>1. CASE v = u
    <3>1. ~Meets(r, u, Steps)
      BY <1>3, <1>2, <1>10, <2>1 DEF Erased
    <3>2. \A q \in Requests \ {r} : requests[q] # Idle => requests[q].user # u
      BY <3>1, InFlight, FlightFacts DEF Meets, IInv
    <3> QED BY <2>1, <3>2, <1>4, <1>5, <1>6, <1>9 DEF LinksFall
  <2>2. CASE v # u
    <3>1. Erased(v)
      BY <2>2, <1>9, <1>10 DEF Erased, Exists
    <3> QED BY <2>2, <3>1, <1>6, <1>9 DEF IInv, ErasedInv, LinksFall
  <2> QED BY <2>1, <2>2
<1>11. ErasedInv'
  BY <1>10 DEF ErasedInv
<1> QED BY <1>1, <1>3, <1>4, <1>6, <1>7, <1>8, <1>9, <1>11, WriteKeeps DEF IInv, Typed, u

\* The one operation on the second factor of a user that is not crossed ends.
LEMMA FactorEnds ==
    ASSUME IInv, NEW r \in Requests, requests[r] # Idle, requests[r].step \in FactorSteps,
           requests' = [requests EXCEPT ![r] = Idle],
           NEW row \in Account, users' = [users EXCEPT ![requests[r].user] = row],
           UNCHANGED <<tried, crossed>>, twice' \subseteq crossed,
           \A v \in Users : v # requests[r].user => spent'[v] = spent[v],
           \A u : u = requests[r].user /\ u \notin crossed =>
              /\ row.mfa => row.secret \in tried[u]
              /\ row.codes \cap spent'[u] = {}
    PROVE  FactorInv'
<1> DEFINE u == requests[r].user
<1>1. u \in Users /\ Exists(u) /\ NoAccount \notin Account
  BY UserFacts DEF NoAccount, Account, AccountStatus, FactorSteps
<1>2. /\ users'[u] = row /\ \A v \in Users \ {u} : users'[v] = users[v]
      /\ \A v \in Users : Exists(v)' <=> Exists(v)
      /\ requests'[r] = Idle /\ \A q \in Requests \ {r} : requests'[q] = requests[q]
  BY <1>1 DEF IInv, Typed, Exists
<1>3. Idle.step \notin FactorSteps
  BY DEF FactorSteps, Idle
<1>4. InFactor(r, u)
  BY DEF InFactor
<1>5. \A v \in Users : v = u /\ v \notin crossed =>
         /\ row.mfa => row.secret \in tried[v]
         /\ row.codes \cap spent'[v] = {}
  OBVIOUS
<1>6. \A v \in Users : v # u => spent'[v] = spent[v]
  OBVIOUS
<1> HIDE DEF u
<1> SUFFICES ASSUME NEW v \in Users \ crossed
             PROVE  /\ \A p, q \in Requests : InFactor(p, v)' /\ InFactor(q, v)' => p = q
                    /\ \A q \in Requests : InFactor(q, v)' => FactorSound(requests[q])'
                    /\ Exists(v)' => /\ users'[v].mfa => users'[v].secret \in tried[v]
                                     /\ users'[v].codes \cap spent'[v] = {}
  BY DEF FactorInv
<1>7. \A q \in Requests : InFactor(q, v)' => q # r /\ InFactor(q, v)
  BY <1>2, <1>3 DEF InFactor
<1>8. \A p, q \in Requests : InFactor(p, v) /\ InFactor(q, v) => p = q
  BY DEF IInv, FactorInv
<1>9. CASE v = u
  BY <1>2, <1>4, <1>5, <1>7, <1>8, <1>9
<1>10. CASE v # u
  <2>1. ASSUME NEW q \in Requests, InFactor(q, v)' PROVE FactorSound(requests[q])'
    <3>1. requests'[q] = requests[q] /\ requests[q].user = v /\ FactorSound(requests[q])
      BY <1>2, <1>7, <2>1 DEF InFactor, IInv, FactorInv
    <3> QED BY <3>1, <1>2, <1>10 DEF FactorSound
  <2>2. Exists(v)' => /\ users'[v].mfa => users'[v].secret \in tried[v]
                      /\ users'[v].codes \cap spent'[v] = {}
    BY <1>2, <1>6, <1>10 DEF IInv, FactorInv
  <2> QED BY <1>7, <1>8, <2>1, <2>2
<1> QED BY <1>9, <1>10

\* What the four operations on the second factor have in common.
LEMMA FactorWriteKeeps ==
    ASSUME IInv, NEW r \in Requests, requests[r] # Idle, requests[r].step \in FactorSteps,
           requests' = [requests EXCEPT ![r] = Idle],
           NEW row \in Account, users' = [users EXCEPT ![requests[r].user] = row],
           row.email = users[requests[r].user].email,
           row.verified = users[requests[r].user].verified,
           row.password = users[requests[r].user].password,
           UNCHANGED <<links, writes, proved, tried, overlapped, interrupted, overtaken, crossed,
                       served, faults>>,
           spent' \in [Users -> SUBSET RecoveryCodes], twice' \subseteq Users,
           FactorInv'
    PROVE  IInv'
<1> DEFINE u == requests[r].user
<1>1. u \in Users /\ Exists(u) /\ users[u] \in Account /\ ~At(r, "close") /\ ~At(r, "register")
      /\ requests[r].step # "register"
  BY UserFacts DEF FactorSteps, At
<1>2. LinksFall /\ links' \in Seq(Mailed)
  BY NoLinkMoves DEF IInv
<1>3. PasswordClosesLinks'
  BY <1>1, <1>2, ClosesRest DEF IInv
<1>4. ErasedInv'
  BY <1>1, <1>2, ErasedAfterWrite DEF EndSteps
<1>5. row.verified /\ row.email # NoAddress => row.email \in proved[u]
  BY <1>1 DEF IInv, IdentityInv, AddressProved
<1> QED BY <1>1, <1>2, <1>3, <1>4, <1>5, WriteKeeps DEF IInv, Typed

LEMMA SetMfaSecretKeeps == ASSUME IInv, NEW r \in Requests, SetMfaSecret(r) PROVE IInv'
<1> DEFINE u == requests[r].user
           row == [users[u] EXCEPT !.secret = requests[r].secret, !.mfa = FALSE]
<1>1. requests[r] # Idle /\ requests[r].step = "secret" /\ requests[r].step \in FactorSteps
  BY AtFlight DEF SetMfaSecret, At, Steps, FactorSteps, IInv
<1>2. u \in Users /\ Exists(u) /\ users[u] \in Account /\ requests[r].secret \in Nat
  BY <1>1, UserFacts, InFlight, FlightFacts DEF IInv
<1>3. /\ users' = [users EXCEPT ![u] = row] /\ requests' = [requests EXCEPT ![r] = Idle]
      /\ UNCHANGED <<links, writes, proved, tried, spent, twice, overlapped, interrupted,
                     overtaken, crossed, served, faults>>
  BY <1>2 DEF SetMfaSecret, Finish, history, IInv, Typed
<1>4. /\ row \in Account /\ row.email = users[u].email /\ ~row.mfa
      /\ row.codes = users[u].codes
      /\ row.verified = users[u].verified /\ row.password = users[u].password
  BY <1>2 DEF Account
<1> HIDE DEF row
<1>5. FactorInv'
  <2>1. twice' \subseteq crossed
    BY <1>3 DEF IInv, FactorInv
  <2>2. u \notin crossed => users[u].codes \cap spent[u] = {}
    BY <1>2 DEF IInv, FactorInv
  <2> QED BY <1>1, <1>3, <1>4, <2>1, <2>2, FactorEnds
<1> QED BY <1>1, <1>3, <1>4, <1>5, FactorWriteKeeps DEF IInv, Typed

LEMMA EnableMfaKeeps == ASSUME IInv, NEW r \in Requests, EnableMfa(r) PROVE IInv'
<1> DEFINE u == requests[r].user
           row == [users[u] EXCEPT !.mfa = TRUE, !.codes = RecoveryCodes]
<1>1. requests[r] # Idle /\ requests[r].step = "enable" /\ requests[r].step \in FactorSteps
  BY AtFlight DEF EnableMfa, At, Steps, FactorSteps, IInv
<1>2. u \in Users /\ Exists(u) /\ users[u] \in Account
  BY <1>1, UserFacts
<1>3. /\ users' = [users EXCEPT ![u] = row] /\ requests' = [requests EXCEPT ![r] = Idle]
      /\ spent' = [spent EXCEPT ![u] = {}]
      /\ UNCHANGED <<links, writes, proved, tried, twice, overlapped, interrupted,
                     overtaken, crossed, served, faults>>
  BY <1>2 DEF EnableMfa, Finish, IInv, Typed
<1>4. /\ row \in Account /\ row.email = users[u].email /\ row.secret = users[u].secret
      /\ row.verified = users[u].verified /\ row.password = users[u].password
  BY <1>2 DEF Account
<1> HIDE DEF row
<1>5. /\ spent' \in [Users -> SUBSET RecoveryCodes] /\ spent'[u] = {}
      /\ \A v \in Users : v # u => spent'[v] = spent[v]
  BY <1>2, <1>3 DEF IInv, Typed
<1>6. FactorInv'
  <2>1. twice' \subseteq crossed
    BY <1>3 DEF IInv, FactorInv
  <2>2. u \notin crossed => users[u].secret \in tried[u]
    <3>1. u \notin crossed => FactorSound(requests[r])
      BY <1>1, <1>2 DEF IInv, FactorInv, InFactor
    <3> QED BY <1>1, <3>1 DEF FactorSound
  <2>3. \A v : v = u /\ v \notin crossed => /\ row.mfa => row.secret \in tried[v]
                                           /\ row.codes \cap spent'[v] = {}
    BY <1>4, <1>5, <2>2
  <2>4. /\ \A v \in Users : v # requests[r].user => spent'[v] = spent[v]
        /\ users' = [users EXCEPT ![requests[r].user] = row] /\ UNCHANGED <<tried, crossed>>
    BY <1>3, <1>5
  <2> QED BY <1>1, <1>3, <1>4, <2>1, <2>3, <2>4, FactorEnds
<1> QED BY <1>1, <1>3, <1>4, <1>5, <1>6, FactorWriteKeeps DEF IInv, Typed

LEMMA DisableMfaKeeps == ASSUME IInv, NEW r \in Requests, DisableMfa(r) PROVE IInv'
<1> DEFINE u == requests[r].user
           row == [users[u] EXCEPT !.mfa = FALSE, !.secret = 0, !.codes = {}]
<1>1. requests[r] # Idle /\ requests[r].step = "disable" /\ requests[r].step \in FactorSteps
  BY AtFlight DEF DisableMfa, At, Steps, FactorSteps, IInv
<1>2. u \in Users /\ Exists(u) /\ users[u] \in Account
  BY <1>1, UserFacts
<1>3. /\ users' = [users EXCEPT ![u] = row] /\ requests' = [requests EXCEPT ![r] = Idle]
      /\ UNCHANGED <<links, writes, proved, tried, spent, twice, overlapped, interrupted,
                     overtaken, crossed, served, faults>>
  BY <1>2 DEF DisableMfa, Finish, history, IInv, Typed
<1>4. /\ row \in Account /\ row.email = users[u].email /\ ~row.mfa /\ row.codes = {}
      /\ row.verified = users[u].verified /\ row.password = users[u].password
  BY <1>2 DEF Account
<1> HIDE DEF row
<1>5. FactorInv'
  <2>1. twice' \subseteq crossed
    BY <1>3 DEF IInv, FactorInv
  <2> QED BY <1>1, <1>3, <1>4, <2>1, FactorEnds
<1> QED BY <1>1, <1>3, <1>4, <1>5, FactorWriteKeeps DEF IInv, Typed

LEMMA SetRecoveryCodesKeeps == ASSUME IInv, NEW r \in Requests, SetRecoveryCodes(r) PROVE IInv'
<1> DEFINE u == requests[r].user
           c == requests[r].code
           row == [users[u] EXCEPT !.codes = requests[r].left]
<1>1. requests[r] # Idle /\ requests[r].step = "spend" /\ requests[r].step \in FactorSteps
  BY AtFlight DEF SetRecoveryCodes, At, Steps, FactorSteps, IInv
<1>2. /\ u \in Users /\ Exists(u) /\ users[u] \in Account
      /\ c \in RecoveryCodes /\ requests[r].left \subseteq RecoveryCodes
  BY <1>1, UserFacts, InFlight, FlightFacts DEF IInv
<1>3. /\ users' = [users EXCEPT ![u] = row] /\ requests' = [requests EXCEPT ![r] = Idle]
      /\ spent' = [spent EXCEPT ![u] = @ \cup {c}]
      /\ twice' = IF c \in spent[u] THEN twice \cup {u} ELSE twice
      /\ UNCHANGED <<links, writes, proved, tried, overlapped, interrupted,
                     overtaken, crossed, served, faults>>
  BY <1>2 DEF SetRecoveryCodes, Finish, IInv, Typed
<1>4. /\ row \in Account /\ row.email = users[u].email /\ row.secret = users[u].secret
      /\ row.mfa = users[u].mfa /\ row.codes = requests[r].left
      /\ row.verified = users[u].verified /\ row.password = users[u].password
  BY <1>2 DEF Account
<1> HIDE DEF row
<1>5. /\ spent' \in [Users -> SUBSET RecoveryCodes] /\ spent'[u] = spent[u] \cup {c}
      /\ \A v \in Users : v # u => spent'[v] = spent[v]
  BY <1>2, <1>3 DEF IInv, Typed
<1>6. u \notin crossed =>
         /\ users[u].mfa => users[u].secret \in tried[u]
         /\ users[u].codes \cap spent[u] = {}
         /\ c \in users[u].codes /\ requests[r].left = users[u].codes \ {c}
  <2>1. u \notin crossed => FactorSound(requests[r])
    BY <1>1, <1>2 DEF IInv, FactorInv, InFactor
  <2> QED BY <1>1, <1>2, <2>1 DEF IInv, FactorInv, FactorSound
<1>7. twice' \subseteq crossed /\ twice' \subseteq Users
  BY <1>2, <1>3, <1>6 DEF IInv, FactorInv, Typed
<1>8. FactorInv'
  <2>1. \A v : v = u /\ v \notin crossed => /\ row.mfa => row.secret \in tried[v]
                                           /\ row.codes \cap spent'[v] = {}
    BY <1>4, <1>5, <1>6
  <2>2. /\ \A v \in Users : v # requests[r].user => spent'[v] = spent[v]
        /\ users' = [users EXCEPT ![requests[r].user] = row] /\ UNCHANGED <<tried, crossed>>
    BY <1>3, <1>5
  <2> QED BY <1>1, <1>3, <1>4, <1>7, <2>1, <2>2, FactorEnds
<1> QED BY <1>1, <1>3, <1>4, <1>5, <1>7, <1>8, FactorWriteKeeps DEF IInv, Typed

\* A row refused ends the request; a row created is that of somebody nothing else is about.
LEMMA CreateUserKeeps == ASSUME IInv, NEW r \in Requests, CreateUser(r) PROVE IInv'
<1> DEFINE u == requests[r].user
           a == requests[r].to
           row == [Member(a) EXCEPT !.status = "REGISTERED", !.verified = FALSE]
           x == [requests[r] EXCEPT !.step = "invalidate"]
<1>1. requests[r] # Idle /\ requests[r].step = "register" /\ ~At(r, "close") /\ At(r, "register")
  BY AtFlight DEF CreateUser, At, Steps, IssueSteps, IInv
<1>2. /\ u \in Users /\ a \in Addresses /\ a # NoAddress /\ ~Exists(u)
      /\ requests[r].kind = "EMAIL_VERIFICATION"
  BY <1>1, InFlight, FlightFacts, NoAddressAssumption
     DEF IInv, IdentityInv, RequestSound, IssueSteps
<1>3. UNCHANGED <<links, writes, proved, tried, spent, twice, overlapped, interrupted, overtaken,
                  crossed, served, faults>>
  BY DEF CreateUser, history
<1>4. LinksFall /\ links' \in Seq(Mailed)
  BY <1>3, NoLinkMoves DEF IInv
<1>5. CASE requests' = [requests EXCEPT ![r] = Idle] /\ users' = users
  <2>1. Idle.step # "create"
    BY DEF Idle
  <2> QED BY <1>1, <1>3, <1>4, <1>5, <2>1, GoOnKeeps DEF IInv, Typed
<1>6. CASE Goto(r, "invalidate") /\ users' = [users EXCEPT ![u] = row]
  <2>1. /\ x \in Flight /\ x.step = "invalidate" /\ x.user = u /\ x.to = a
        /\ x.kind = "EMAIL_VERIFICATION" /\ requests' = [requests EXCEPT ![r] = x]
        /\ x # Idle
    BY <1>1, <1>2, <1>6, GotoFacts, FlightFacts DEF IInv, IssueSteps
  <2>2. /\ row \in Account /\ row.email = a /\ ~row.verified /\ ~row.mfa /\ row.codes = {}
    BY <1>2 DEF Account, AccountStatus, Member
  <2>3. NoAccount \notin Account
    BY DEF NoAccount, Account, AccountStatus
  <2>4. /\ users' = [users EXCEPT ![u] = row] /\ users'[u] = row
        /\ \A v \in Users \ {u} : users'[v] = users[v]
    BY <1>2, <1>6 DEF IInv, Typed
  <2> HIDE DEF x, row
  <2>5. /\ \A v : v = u => Exists(v)'
        /\ \A v \in Users : Exists(v) => Exists(v)'
        /\ \A v \in Users : Exists(v)' /\ ~Exists(v) => v = u
        /\ \A v \in Users : Exists(v) => users'[v] = users[v]
    <3>1. \A v \in Users : Exists(v) => v # u
      BY <1>2
    <3>2. \A v : v = u => Exists(v)'
      BY <2>2, <2>3, <2>4 DEF Exists
    <3>3. \A v \in Users : v # u => (Exists(v)' <=> Exists(v))
      BY <2>4 DEF Exists
    <3> QED BY <2>4, <3>1, <3>2, <3>3
  <2>6. AddressProved'
    BY <1>3, <2>2, <2>4, <2>5 DEF IInv, IdentityInv, AddressProved, Exists
  <2>7. \A y : y = x => RequestSound(y)'
    <3>1. \A y : y = x => Exists(y.user)' /\ Bound(y.user, y.to)'
      BY <2>1, <2>2, <2>4, <2>5 DEF Bound, Exists
    <3> QED BY <3>1, <2>1 DEF RequestSound
  <2>8. \A q \in Requests \ {r} : requests[q] # Idle => requests[q].user # u
    BY <1>1 DEF IInv, IdentityInv, RegistersAlone
  <2>9. \A i \in DOMAIN links' : \A l : l = links'[i] =>
           /\ i \in DOMAIN links /\ l.owner = links[i].owner /\ l.kind = links[i].kind
           /\ l.to = links[i].to /\ l.address = links[i].address
    BY <1>3
  <2>10. IdentityInv'
    BY <1>1, <1>3, <2>1, <2>5, <2>6, <2>7, <2>8, <2>9, IdentityKeeps DEF IInv
  <2>11. OneInv'
    <3>1. IssuesFor(r, x.user, x.kind)
      BY <1>1, <1>2, <2>1 DEF IssuesFor, IssueSteps
    <3> QED BY <1>3, <1>4, <2>1, <3>1, OpenFalls, OneKeeps DEF IInv
  <2>12. PasswordClosesLinks'
    BY <1>1, <1>3, <1>4, <2>1, ClosesRest DEF IInv
  <2>13. ErasedInv'
    <3>1. ASSUME NEW v \in Users, Erased(v)'
          PROVE  Erased(v) /\ ~users'[v].password /\ ~users'[v].verified
      <4>1. v # u
        BY <1>2, <2>2, <2>4, <3>1 DEF Erased
      <4>2. Erased(v)
        BY <1>3, <2>4, <3>1, <4>1 DEF Erased, Exists
      <4> QED BY <2>4, <4>1, <4>2 DEF IInv, ErasedInv
    <3>2. \A v \in Users : x # Idle /\ x.user = v /\ Erased(v) => x.step \in EndSteps
      BY <1>2, <2>1 DEF Erased
    <3> QED BY <1>4, <2>1, <3>1, <3>2, ErasedKeeps DEF IInv
  <2>14. FactorInv'
    <3>1. \A q \in Requests : requests[q].step \in FactorSteps => Exists(requests[q].user)
      BY DEF IInv, IdentityInv, RequestSound, FactorSteps, Idle
    <3>2. x.step \notin FactorSteps
      BY <2>1 DEF FactorSteps
    <3>3. \A v \in Users : Exists(v)' /\ ~Exists(v) => ~users'[v].mfa /\ users'[v].codes = {}
      BY <2>2, <2>4, <2>5
    <3> QED BY <1>3, <2>1, <2>5, <3>1, <3>2, <3>3, FactorKeeps DEF IInv
  <2>15. Typed'
    BY <1>2, <1>3, <2>1, <2>2, <2>4 DEF IInv, Typed
  <2> QED BY <2>10, <2>11, <2>12, <2>13, <2>14, <2>15 DEF IInv
<1> QED BY <1>5, <1>6 DEF CreateUser, Finish

\* A new link comes after the others, which it leaves as they are.
LEMMA CreateTokenKeeps == ASSUME IInv, NEW r \in Requests, CreateToken(r) PROVE IInv'
<1> DEFINE q == requests[r]
           u == q.user
           n == Len(links) + 1
           new == [owner |-> q.user, kind |-> q.kind, to |-> q.to, address |-> q.address,
                   open |-> TRUE, written |-> writes[q.user]]
<1>1. q # Idle /\ q.step = "create" /\ ~At(r, "close") /\ ~At(r, "register")
  BY AtFlight DEF CreateToken, At, Steps, IssueSteps, IInv
<1>2. /\ u \in Users /\ q.kind \in AccountTokenType /\ q.to \in Addresses
      /\ q.address \in Addresses /\ RequestSound(q) /\ Exists(u)
  BY <1>1, InFlight, FlightFacts DEF IInv, IdentityInv, RequestSound, IssueSteps
<1>3. /\ requests' = [requests EXCEPT ![r] = Idle] /\ links' = Append(links, new)
      /\ UNCHANGED <<users, writes, proved, tried, spent, twice, overlapped, interrupted,
                     overtaken, crossed, served, faults>>
  BY DEF CreateToken, Finish, history
<1>4. /\ new \in Mailed /\ new.owner = u /\ new.kind = q.kind /\ new.to = q.to
      /\ new.address = q.address /\ new.written = writes[u]
  BY <1>2 DEF Mailed, IInv, Typed
<1> HIDE DEF new
<1>5. /\ links' \in Seq(Mailed) /\ DOMAIN links' = DOMAIN links \cup {n} /\ links'[n] = new
      /\ n \notin DOMAIN links /\ \A i \in DOMAIN links : links'[i] = links[i]
  BY <1>3, <1>4 DEF IInv, Typed
<1>6. requests'[r] = Idle /\ \A p \in Requests \ {r} : requests'[p] = requests[p]
  BY <1>3 DEF IInv, Typed
<1> HIDE DEF n
<1>7. Typed'
  BY <1>3, <1>5 DEF IInv, Typed
<1>8. \A v : Exists(v)' <=> Exists(v)
  BY <1>3 DEF Exists
<1>9. AddressProved'
  BY <1>3, <1>8, AddressRests DEF IInv, IdentityInv
<1>10. \A l : l = new => LinkSound(l)'
  <2>1. \A l : l = new => LinkSound(l)
    BY <1>1, <1>2, <1>4 DEF LinkSound, RequestSound, IssueSteps
  <2> QED BY <1>3, <1>8, <2>1 DEF LinkSound, Bound
<1>11. \A i \in DOMAIN links' : \A l : l = links'[i] =>
          \/ LinkSound(l)'
          \/ /\ i \in DOMAIN links /\ l.owner = links[i].owner /\ l.kind = links[i].kind
             /\ l.to = links[i].to /\ l.address = links[i].address
  BY <1>5, <1>10
<1>12. IdentityInv'
  BY <1>3, <1>8, <1>9, <1>11, IdentityKeeps DEF IInv
<1>13. IssuesFor(r, u, q.kind) /\ At(r, "create")
  BY <1>1 DEF IssuesFor, At, IssueSteps
<1>14. \A i : \A v : \A k : OpenLink(i, v, k)' =>
          OpenLink(i, v, k) \/ (i = n /\ v = u /\ k = q.kind)
  BY <1>4, <1>5 DEF OpenLink
<1> HIDE DEF u, q
<1>15. OneInv'
  <2> SUFFICES ASSUME NEW v, NEW k, <<v, k>> \notin overlapped
               PROVE  /\ \A p, s \in Requests : IssuesFor(p, v, k)' /\ IssuesFor(s, v, k)' => p = s
                      /\ \A p \in Requests :
                            At(p, "create")' /\ IssuesFor(p, v, k)' => \A i : ~OpenLink(i, v, k)'
                      /\ \A i, j : OpenLink(i, v, k)' /\ OpenLink(j, v, k)' => i = j
    BY <1>3 DEF OneInv
  <2>1. /\ \A p, s \in Requests : IssuesFor(p, v, k) /\ IssuesFor(s, v, k) => p = s
        /\ \A p \in Requests : At(p, "create") /\ IssuesFor(p, v, k) => \A i : ~OpenLink(i, v, k)
        /\ \A i, j : OpenLink(i, v, k) /\ OpenLink(j, v, k) => i = j
    BY DEF IInv, OneInv
  <2>2. \A p \in Requests : /\ IssuesFor(p, v, k)' => p # r /\ IssuesFor(p, v, k)
                            /\ At(p, "create")' => p # r /\ At(p, "create")
    BY <1>6 DEF IssuesFor, At, Idle, IssueSteps
  <2>3. CASE v = u /\ k = q.kind
    <3>1. \A i : ~OpenLink(i, v, k)
      BY <1>13, <2>1, <2>3
    <3>2. \A p \in Requests : ~IssuesFor(p, v, k)'
      BY <1>13, <2>1, <2>2, <2>3
    <3> QED BY <1>14, <3>1, <3>2
  <2>4. CASE ~(v = u /\ k = q.kind)
    BY <1>14, <2>1, <2>2, <2>4
  <2> QED BY <2>3, <2>4
<1>16. PasswordClosesLinks'
  <2> SUFFICES ASSUME NEW i \in DOMAIN links', links'[i].open, links'[i].kind = "PASSWORD_RESET",
                      links'[i].written < writes[links'[i].owner]
               PROVE  \/ links'[i].owner \in interrupted
                      \/ \E p \in Requests : At(p, "close")' /\ requests'[p].user = links'[i].owner
    BY <1>3 DEF PasswordClosesLinks
  <2>1. i \in DOMAIN links
    <3>1. writes[u] \in Nat
      BY <1>2 DEF IInv, Typed
    <3> QED BY <3>1, <1>4, <1>5
  <2>2. \/ links[i].owner \in interrupted
        \/ \E p \in Requests : At(p, "close") /\ requests[p].user = links[i].owner
    BY <1>5, <2>1 DEF IInv, PasswordClosesLinks
  <2> QED BY <1>1, <1>5, <1>6, <2>1, <2>2 DEF At
<1>17. ErasedInv'
  <2>1. ~Erased(u)
    BY <1>1, Standing DEF EndSteps, q, u
  <2>2. \A v : Erased(v)' <=> Erased(v)
    BY <1>3 DEF Erased, Exists
  <2> SUFFICES ASSUME NEW v \in Users, Erased(v)
               PROVE  /\ ~users'[v].password /\ ~users'[v].verified
                      /\ \A i \in DOMAIN links' : links'[i].owner = v => ~links'[i].open
                      /\ \A p \in Requests : requests'[p] # Idle /\ requests'[p].user = v =>
                            requests'[p].step \in EndSteps
    BY <2>2 DEF ErasedInv
  <2>3. \A i \in DOMAIN links' : links'[i].owner = v => i \in DOMAIN links
    BY <1>4, <1>5, <2>1
  <2> QED BY <1>3, <1>5, <1>6, <2>3 DEF IInv, ErasedInv
<1>18. FactorInv'
  <2>1. \A p \in Requests : requests[p].step \in FactorSteps => Exists(requests[p].user)
    BY DEF IInv, IdentityInv, RequestSound, FactorSteps, Idle
  <2>2. Idle.step \notin FactorSteps
    BY DEF FactorSteps, Idle
  <2> QED BY <1>3, <1>8, <2>1, <2>2, FactorKeeps DEF IInv
<1> QED BY <1>7, <1>12, <1>15, <1>16, <1>17, <1>18 DEF IInv

-----------------------------------------------------------------------------
(* The invariant and what it implies.                                      *)

LEMMA InitKeeps == Init => IInv
<1> SUFFICES ASSUME Init PROVE IInv
  OBVIOUS
<1>1. PICK at \in [Users -> Addresses \cup {NoAddress}] :
         /\ users = [u \in Users |-> IF at[u] = NoAddress THEN NoAccount ELSE Member(at[u])]
         /\ proved = [u \in Users |-> {at[u]} \ {NoAddress}]
  BY DEF Init
<1>2. \A a \in Addresses \cup {NoAddress} :
         /\ Member(a) \in Account /\ Member(a).email = a /\ ~Member(a).mfa
         /\ Member(a).codes = {}
  BY DEF Member, Account, AccountStatus
<1>3. /\ links = << >> /\ requests = [r \in Requests |-> Idle]
      /\ writes = [u \in Users |-> 0]
      /\ tried = [u \in Users |-> {}] /\ spent = [u \in Users |-> {}] /\ twice = {}
      /\ overlapped = {} /\ interrupted = {} /\ overtaken = {} /\ crossed = {}
      /\ served = 0 /\ faults = 0
  BY DEF Init
<1> HIDE DEF Init
<1>4. /\ \A r \in Requests : requests[r] = Idle
      /\ DOMAIN links = {}
  BY <1>3
<1>5. \A u \in Users : Exists(u) => at[u] \in Addresses /\ users[u] = Member(at[u])
  BY <1>1 DEF Exists
<1>6. Typed
  <2>1. links \in Seq(Mailed) /\ requests \in [Requests -> Flight \cup {Idle}]
    BY <1>3
  <2>2. users \in [Users -> Account \cup {NoAccount}] /\ proved \in [Users -> SUBSET Addresses]
    BY <1>1, <1>2
  <2> QED BY <1>3, <2>1, <2>2 DEF Typed
<1>7. AddressProved
  BY <1>1, <1>2, <1>5, NoAddressAssumption DEF AddressProved
<1>8. IdentityInv
  BY <1>4, <1>7 DEF IdentityInv, RegistersAlone
<1>9. OneInv
  BY <1>4 DEF OneInv, IssuesFor, OpenLink, IssueSteps, Idle
<1>10. PasswordClosesLinks
  BY <1>4 DEF PasswordClosesLinks
<1>11. ErasedInv
  BY <1>2, <1>5, NoAddressAssumption DEF ErasedInv, Erased
<1>12. FactorInv
  BY <1>2, <1>3, <1>4, <1>5 DEF FactorInv, InFactor, FactorSteps, Idle
<1> QED BY <1>6, <1>8, <1>9, <1>10, <1>11, <1>12 DEF IInv

LEMMA StutterKeeps == IInv /\ UNCHANGED vars => IInv'
<1> SUFFICES ASSUME IInv, UNCHANGED vars PROVE IInv'
  OBVIOUS
<1>1. UNCHANGED <<users, links, requests, writes, proved, tried, spent, twice, overlapped,
                  interrupted, overtaken, crossed, served, faults>>
  BY DEF vars, history
<1>2. Typed'
  BY <1>1 DEF IInv, Typed
<1>3. IdentityInv'
  BY <1>1 DEF IInv, IdentityInv, LinkSound, RequestSound, Bound, Exists, RegistersAlone, At,
              AddressProved
<1>4. OneInv' /\ PasswordClosesLinks'
  BY <1>1 DEF IInv, OneInv, IssuesFor, OpenLink, At, PasswordClosesLinks
<1>5. ErasedInv' /\ FactorInv'
  BY <1>1 DEF IInv, ErasedInv, Erased, Exists, FactorInv, InFactor, FactorSound
<1> QED BY <1>2, <1>3, <1>4, <1>5 DEF IInv

LEMMA NextKeeps == IInv /\ [Next]_vars => IInv'
<1> SUFFICES ASSUME IInv, [Next]_vars PROVE IInv'
  OBVIOUS
<1>1. ASSUME NEW r \in Requests, Proceed(r) PROVE IInv'
  BY <1>1, CreateUserKeeps, InvalidateLinksKeeps, CreateTokenKeeps, MarkEmailVerifiedKeeps,
     CheckAddressKeeps, ReplaceEmailKeeps, UpdatePasswordKeeps, CloseRecoveryKeeps,
     WriteStatusKeeps, AnonymizeAccountKeeps, SetMfaSecretKeeps, EnableMfaKeeps, DisableMfaKeeps,
     SetRecoveryCodesKeeps DEF Proceed
<1>2. CASE Next
  BY <1>1, <1>2, AskKeeps, AskFactorKeeps, ConsumeTokenKeeps, LoseKeeps DEF Next
<1>3. CASE UNCHANGED vars
  BY <1>3, StutterKeeps
<1> QED BY <1>2, <1>3

\* The invariant holds in every state of every behaviour.
THEOREM Inductive == Spec => []IInv
BY InitKeeps, NextKeeps, PTL DEF Spec

LEMMA TypeFollows == IInv => TypeOK
<1> SUFFICES ASSUME IInv PROVE TypeOK
  OBVIOUS
<1>1. links \in Seq(Link)
  <2>1. \A i \in DOMAIN links : links[i] \in Link
    BY LinkFacts DEF IInv, Mailed, Link
  <2>2. DOMAIN links = 1..Len(links) /\ Len(links) \in Nat /\ links \in Seq(Mailed)
    BY LinkFacts DEF IInv, Typed
  <2> QED BY <2>1, <2>2
<1>2. \A r \in Requests : requests[r] # Idle => InFlightTyped(requests[r])
  <2>1. ASSUME NEW r \in Requests, requests[r] # Idle PROVE InFlightTyped(requests[r])
    BY <2>1, InFlight, FlightFacts DEF IInv, InFlightTyped
  <2> QED BY <2>1
<1> QED BY <1>1, <1>2 DEF IInv, Typed, TypeOK

\* Typing: accounts, links and requests have the columns and the arguments the code gives them.
THEOREM TypeCorrect == Spec => []TypeOK
BY Inductive, TypeFollows, PTL

LEMMA OneLinkFollows == IInv => OneLinkUnlessOverlapped
BY DEF IInv, OneInv, OpenLink, OneLinkUnlessOverlapped

\* One valid link of a kind for a user (invalidateTokens before create, account-security.service
\* and account-lifecycle.service), whatever requests and losses interleave.
THEOREM OneLink == Spec => []OneLinkUnlessOverlapped
BY Inductive, OneLinkFollows, PTL

\* A recovery link issued before the last password is closed (resetPassword and changePassword
\* invalidate them after they have written), or the request that closes it is not over.
THEOREM PasswordCloses == Spec => []PasswordClosesLinks
<1>1. IInv => PasswordClosesLinks
  BY DEF IInv
<1> QED BY <1>1, Inductive, PTL

\* A verified address has been proved by a link sent to it (verifyEmail, confirmEmailChange).
THEOREM AddressIsProved == Spec => []AddressProved
<1>1. IInv => AddressProved
  BY DEF IInv, IdentityInv
<1> QED BY <1>1, Inductive, PTL

LEMMA ErasedFollows == IInv => ErasedUnlessRaced
BY DEF IInv, ErasedInv, Erased, ErasedUnlessRaced

\* What the transaction of account-privacy.service removes does not come back.
THEOREM ErasedStays == Spec => []ErasedUnlessRaced
BY Inductive, ErasedFollows, PTL

LEMMA FactorFollows == IInv => SecondFactorUnlessCrossed
BY DEF IInv, FactorInv, SecondFactorUnlessCrossed

\* A recovery code serves once and the secret in force was proved (account-mfa.service), for
\* users whose operations on the second factor do not overlap.
THEOREM SecondFactor == Spec => []SecondFactorUnlessCrossed
BY Inductive, FactorFollows, PTL

-----------------------------------------------------------------------------
(* Requests about a user that do not meet.                                 *)

\* The requests under way about user u, of the steps given.
About(u, steps) ==
    {r \in Requests : requests[r] # Idle /\ requests[r].user = u /\ requests[r].step \in steps}

\* No two of those are ever under way together: of any steps, on the second factor, issuing a
\* link of a kind.
ServedInTurn(u)    == \A r, q \in About(u, Steps) : r = q
FactorInTurn(u)    == \A r, q \in About(u, FactorSteps) : r = q
IssuedInTurn(u, k) == \A r, q \in Requests : IssuesFor(r, u, k) /\ IssuesFor(q, u, k) => r = q

\* A step that loses no request which has written a password of u and not closed her links.
ClosesLinks(u) == \A r \in About(u, {"close"}) : ~Lose(r)

\* What the exceptions of the properties note of u.
NotOverlapped(u, k) == <<u, k>> \notin overlapped
NotOvertaken(u)     == u \notin overtaken
NotCrossed(u)       == u \notin crossed
NotInterrupted(u)   == u \notin interrupted

\* A slot that is taken up leaves the others as they were.
LEMMA SlotTaken ==
    ASSUME TypeOK, NEW r \in Requests, NEW x, Start(r, x)
    PROVE  requests'[r] = x /\ \A q \in Requests \ {r} : requests'[q] = requests[q]
BY DEF TypeOK, Start

LEMMA NotOverlappedKept ==
    ASSUME TypeOK, NEW u \in Users, NEW k \in AccountTokenType, IssuedInTurn(u, k)',
           NotOverlapped(u, k), [Next]_vars
    PROVE  NotOverlapped(u, k)'
<1> USE DEF history, NotOverlapped
<1>1. ASSUME NEW r \in Requests, NEW v \in Users, NEW step \in IssueSteps, NEW kind, NEW to,
             NEW address, StartIssue(r, v, step, kind, to, address)
      PROVE  NotOverlapped(u, k)'
  <2> DEFINE x == [step |-> step, user |-> v, kind |-> kind, to |-> to, address |-> address]
  <2>1. CASE v = u /\ kind = k
    <3>1. Start(r, x)
      BY <1>1 DEF StartIssue
    <3>2. IssuesFor(r, u, k)'
      BY <2>1, <3>1, SlotTaken DEF IssuesFor
    <3>3. ASSUME NEW q \in Requests \ {r}, IssuesFor(q, u, k) PROVE FALSE
      <4>1. IssuesFor(q, u, k)'
        BY <3>1, <3>3, SlotTaken DEF IssuesFor
      <4> QED BY <3>2, <4>1 DEF IssuedInTurn
    <3>4. overlapped' = overlapped
      BY <1>1, <2>1, <3>3 DEF StartIssue, IssuesFor
    <3> QED BY <3>4
  <2>2. CASE ~(v = u /\ kind = k)
    BY <1>1, <2>2 DEF StartIssue
  <2> QED BY <2>1, <2>2
<1>2. ASSUME NEW r \in Requests, NEW v \in Users, Ask(r, v) PROVE NotOverlapped(u, k)'
  BY <1>1, <1>2 DEF Ask, Register, RequestEmailChange, ResendVerification, RequestPasswordReset,
     ChangePassword, DeleteOwnAccount, SetActive, StartPlain, IssueSteps
<1>3. ASSUME NEW r \in Requests, NEW v \in Users, AskFactor(r, v) PROVE NotOverlapped(u, k)'
  BY <1>3 DEF AskFactor, SetupMfa, VerifyFirstCode, RequestDisable, LoginWithRecoveryCode,
     StartFactor
<1>4. ASSUME NEW r \in Requests, NEW i \in DOMAIN links, ConsumeToken(r, i)
      PROVE  NotOverlapped(u, k)'
  BY <1>4 DEF ConsumeToken
<1>5. ASSUME NEW r \in Requests, Proceed(r) \/ Lose(r) PROVE NotOverlapped(u, k)'
  BY <1>5 DEF Proceed, CreateUser, InvalidateLinks, CreateToken, MarkEmailVerified,
     CheckAddress, ReplaceEmail, UpdatePassword, CloseRecovery, WriteStatus, AnonymizeAccount,
     SetMfaSecret, EnableMfa, DisableMfa, SetRecoveryCodes, Lose
<1>6. CASE UNCHANGED vars
  BY <1>6 DEF vars
<1> QED BY <1>2, <1>3, <1>4, <1>5, <1>6 DEF Next

LEMMA NotOvertakenKept ==
    ASSUME TypeOK, NEW u \in Users, ServedInTurn(u), NotOvertaken(u), [Next]_vars
    PROVE  NotOvertaken(u)'
<1> USE DEF history, NotOvertaken
<1>1. ASSUME NEW r \in Requests, AnonymizeAccount(r) PROVE NotOvertaken(u)'
  <2>1. CASE requests[r].user = u
    <3>1. r \in About(u, Steps)
      BY <1>1, <2>1 DEF AnonymizeAccount, At, About, Steps, Idle
    <3>2. ~Meets(r, u, Steps)
      BY <3>1 DEF ServedInTurn, Meets, About
    <3> QED BY <1>1, <2>1, <3>2 DEF AnonymizeAccount
  <2>2. CASE requests[r].user # u
    BY <1>1, <2>2 DEF AnonymizeAccount
  <2> QED BY <2>1, <2>2
<1>2. ASSUME NEW r \in Requests, Proceed(r) \/ Lose(r) PROVE NotOvertaken(u)'
  BY <1>1, <1>2 DEF Proceed, CreateUser, InvalidateLinks, CreateToken, MarkEmailVerified,
     CheckAddress, ReplaceEmail, UpdatePassword, CloseRecovery, WriteStatus,
     SetMfaSecret, EnableMfa, DisableMfa, SetRecoveryCodes, Lose
<1>3. ASSUME NEW r \in Requests, NEW v \in Users, Ask(r, v) \/ AskFactor(r, v)
      PROVE  NotOvertaken(u)'
  BY <1>3 DEF Ask, Register, RequestEmailChange, ResendVerification, RequestPasswordReset,
     ChangePassword, DeleteOwnAccount, SetActive, StartIssue, StartPlain, AskFactor, SetupMfa,
     VerifyFirstCode, RequestDisable, LoginWithRecoveryCode, StartFactor, Start
<1>4. ASSUME NEW r \in Requests, NEW i \in DOMAIN links, ConsumeToken(r, i)
      PROVE  NotOvertaken(u)'
  BY <1>4 DEF ConsumeToken, Start
<1>5. CASE UNCHANGED vars
  BY <1>5 DEF vars
<1> QED BY <1>2, <1>3, <1>4, <1>5 DEF Next

LEMMA NotCrossedKept ==
    ASSUME TypeOK, NEW u \in Users, FactorInTurn(u)', NotCrossed(u), [Next]_vars
    PROVE  NotCrossed(u)'
<1> USE DEF history, NotCrossed
<1>1. ASSUME NEW r \in Requests, NEW x, x # Idle, x.step \in FactorSteps, StartFactor(r, x)
      PROVE  NotCrossed(u)'
  <2>1. CASE x.user = u
    <3>1. Start(r, x)
      BY <1>1 DEF StartFactor
    <3>2. r \in About(u, FactorSteps)'
      BY <1>1, <2>1, <3>1, SlotTaken DEF About
    <3>3. ASSUME NEW q \in Requests \ {r}, requests[q] # Idle, requests[q].user = u,
                 requests[q].step \in FactorSteps
          PROVE  FALSE
      <4>1. q \in About(u, FactorSteps)'
        BY <3>1, <3>3, SlotTaken DEF About
      <4> QED BY <3>2, <4>1 DEF FactorInTurn
    <3>4. ~Meets(r, x.user, FactorSteps)
      BY <2>1, <3>3 DEF Meets
    <3> QED BY <1>1, <3>4 DEF StartFactor
  <2>2. CASE x.user # u
    BY <1>1, <2>2 DEF StartFactor
  <2> QED BY <2>1, <2>2
<1>2. ASSUME NEW r \in Requests, NEW v \in Users, AskFactor(r, v) PROVE NotCrossed(u)'
  <2>1. PICK x : StartFactor(r, x) /\ x.step \in FactorSteps
    <3>1. CASE SetupMfa(r, v)
      BY <3>1 DEF SetupMfa, FactorSteps
    <3>2. CASE VerifyFirstCode(r, v)
      BY <3>2 DEF VerifyFirstCode, FactorSteps
    <3>3. CASE RequestDisable(r, v)
      BY <3>3 DEF RequestDisable, FactorSteps
    <3>4. CASE \E c \in RecoveryCodes : LoginWithRecoveryCode(r, v, c)
      BY <3>4 DEF LoginWithRecoveryCode, FactorSteps
    <3> QED BY <1>2, <3>1, <3>2, <3>3, <3>4 DEF AskFactor
  <2>2. x # Idle
    BY <2>1 DEF Idle, FactorSteps
  <2> QED BY <1>1, <2>1, <2>2
<1>3. ASSUME NEW r \in Requests, NEW v \in Users, Ask(r, v) PROVE NotCrossed(u)'
  BY <1>3 DEF Ask, Register, RequestEmailChange, ResendVerification, RequestPasswordReset,
     ChangePassword, DeleteOwnAccount, SetActive, StartIssue, StartPlain
<1>4. ASSUME NEW r \in Requests, NEW i \in DOMAIN links, ConsumeToken(r, i) PROVE NotCrossed(u)'
  BY <1>4 DEF ConsumeToken
<1>5. ASSUME NEW r \in Requests, Proceed(r) \/ Lose(r) PROVE NotCrossed(u)'
  BY <1>5 DEF Proceed, CreateUser, InvalidateLinks, CreateToken, MarkEmailVerified,
     CheckAddress, ReplaceEmail, UpdatePassword, CloseRecovery, WriteStatus, AnonymizeAccount,
     SetMfaSecret, EnableMfa, DisableMfa, SetRecoveryCodes, Lose
<1>6. CASE UNCHANGED vars
  BY <1>6 DEF vars
<1> QED BY <1>2, <1>3, <1>4, <1>5, <1>6 DEF Next

LEMMA NotInterruptedKept ==
    ASSUME TypeOK, NEW u \in Users, [ClosesLinks(u)]_vars, NotInterrupted(u), [Next]_vars
    PROVE  NotInterrupted(u)'
<1> USE DEF history, NotInterrupted
<1>1. ASSUME NEW r \in Requests, Lose(r) PROVE NotInterrupted(u)'
  <2>1. CASE At(r, "close") /\ requests[r].user = u
    <3>1. vars' # vars
      <4>1. faults' = faults + 1 /\ faults \in Nat
        BY <1>1 DEF Lose, TypeOK
      <4> QED BY <4>1 DEF vars
    <3>2. r \in About(u, {"close"})
      BY <1>1, <2>1 DEF Lose, At, About
    <3> QED BY <1>1, <3>1, <3>2 DEF ClosesLinks
  <2>2. CASE ~(At(r, "close") /\ requests[r].user = u)
    BY <1>1, <2>2 DEF Lose
  <2> QED BY <2>1, <2>2
<1>2. ASSUME NEW r \in Requests, Proceed(r) PROVE NotInterrupted(u)'
  BY <1>2 DEF Proceed, CreateUser, InvalidateLinks, CreateToken, MarkEmailVerified,
     CheckAddress, ReplaceEmail, UpdatePassword, CloseRecovery, WriteStatus, AnonymizeAccount,
     SetMfaSecret, EnableMfa, DisableMfa, SetRecoveryCodes
<1>3. ASSUME NEW r \in Requests, NEW v \in Users, Ask(r, v) \/ AskFactor(r, v)
      PROVE  NotInterrupted(u)'
  BY <1>3 DEF Ask, Register, RequestEmailChange, ResendVerification, RequestPasswordReset,
     ChangePassword, DeleteOwnAccount, SetActive, StartIssue, StartPlain, AskFactor, SetupMfa,
     VerifyFirstCode, RequestDisable, LoginWithRecoveryCode, StartFactor, Start
<1>4. ASSUME NEW r \in Requests, NEW i \in DOMAIN links, ConsumeToken(r, i)
      PROVE  NotInterrupted(u)'
  BY <1>4 DEF ConsumeToken, Start
<1>5. CASE UNCHANGED vars
  BY <1>5 DEF vars
<1> QED BY <1>1, <1>2, <1>3, <1>4, <1>5 DEF Next

\* The properties without their exceptions, of user u.
OneOpen(u, k) == \A i, j : OpenLink(i, u, k) /\ OpenLink(j, u, k) => i = j
StaysErased(u) ==
    Exists(u) /\ users[u].email = NoAddress =>
       /\ ~users[u].password /\ ~users[u].verified
       /\ \A i \in DOMAIN links : links[i].owner = u => ~links[i].open
FactorHeld(u) ==
    u \notin twice /\ (Exists(u) /\ users[u].mfa => users[u].secret \in tried[u])
RecoveryClosed(u) ==
    \A i : OpenLink(i, u, "PASSWORD_RESET") /\ links[i].written < writes[u]
       => About(u, {"close"}) # {}

\* The exceptions are interleavings and losses, nothing else, and of that user alone: whatever
\* goes on about the others, a user whose links of a kind are not issued together has one open
\* at most; one about whom requests do not overlap stays erased; one whose operations on the
\* second factor do not overlap logs in once with a code and by a secret she proved; and where
\* no request is lost between a password and its links, no recovery link survives it.
THEOREM UncontendedIsSound ==
    ASSUME NEW o \in Users, NEW k \in AccountTokenType
    PROVE  /\ Spec /\ []IssuedInTurn(o, k) => []OneOpen(o, k)
           /\ Spec /\ []ServedInTurn(o) => []StaysErased(o)
           /\ Spec /\ []FactorInTurn(o) => []FactorHeld(o)
           /\ Spec /\ [][ClosesLinks(o)]_vars => []RecoveryClosed(o)
<1>1. Init => NotOverlapped(o, k) /\ NotOvertaken(o) /\ NotCrossed(o) /\ NotInterrupted(o)
  BY DEF Init, NotOverlapped, NotOvertaken, NotCrossed, NotInterrupted
<1>2. Spec /\ []IssuedInTurn(o, k) => []OneOpen(o, k)
  <2>1. TypeOK /\ IssuedInTurn(o, k)' /\ NotOverlapped(o, k) /\ [Next]_vars
           => NotOverlapped(o, k)'
    BY NotOverlappedKept
  <2>2. Spec /\ []IssuedInTurn(o, k) => []NotOverlapped(o, k)
    BY <1>1, <2>1, TypeCorrect, PTL DEF Spec
  <2>3. NotOverlapped(o, k) /\ OneLinkUnlessOverlapped => OneOpen(o, k)
    BY DEF NotOverlapped, OneLinkUnlessOverlapped, OneOpen, OpenLink
  <2> QED BY <2>2, <2>3, OneLink, PTL
<1>3. Spec /\ []ServedInTurn(o) => []StaysErased(o)
  <2>1. TypeOK /\ ServedInTurn(o) /\ NotOvertaken(o) /\ [Next]_vars => NotOvertaken(o)'
    BY NotOvertakenKept
  <2>2. Spec /\ []ServedInTurn(o) => []NotOvertaken(o)
    BY <1>1, <2>1, TypeCorrect, PTL DEF Spec
  <2>3. NotOvertaken(o) /\ ErasedUnlessRaced => StaysErased(o)
    BY DEF NotOvertaken, ErasedUnlessRaced, StaysErased
  <2> QED BY <2>2, <2>3, ErasedStays, PTL
<1>4. Spec /\ []FactorInTurn(o) => []FactorHeld(o)
  <2>1. TypeOK /\ FactorInTurn(o)' /\ NotCrossed(o) /\ [Next]_vars => NotCrossed(o)'
    BY NotCrossedKept
  <2>2. Spec /\ []FactorInTurn(o) => []NotCrossed(o)
    BY <1>1, <2>1, TypeCorrect, PTL DEF Spec
  <2>3. NotCrossed(o) /\ SecondFactorUnlessCrossed => FactorHeld(o)
    BY DEF NotCrossed, SecondFactorUnlessCrossed, FactorHeld
  <2> QED BY <2>2, <2>3, SecondFactor, PTL
<1>5. Spec /\ [][ClosesLinks(o)]_vars => []RecoveryClosed(o)
  <2>1. TypeOK /\ [ClosesLinks(o)]_vars /\ NotInterrupted(o) /\ [Next]_vars => NotInterrupted(o)'
    BY NotInterruptedKept
  <2>2. Spec /\ [][ClosesLinks(o)]_vars => []NotInterrupted(o)
    BY <1>1, <2>1, TypeCorrect, PTL DEF Spec
  <2>3. NotInterrupted(o) /\ PasswordClosesLinks => RecoveryClosed(o)
    <3> SUFFICES ASSUME NotInterrupted(o), PasswordClosesLinks, NEW i,
                        OpenLink(i, o, "PASSWORD_RESET"), links[i].written < writes[o]
                 PROVE  About(o, {"close"}) # {}
      BY DEF RecoveryClosed
    <3>1. PICK r \in Requests : At(r, "close") /\ requests[r].user = o
      BY DEF NotInterrupted, PasswordClosesLinks, OpenLink
    <3>2. requests[r] # Idle
      BY <3>1 DEF At, Idle
    <3> QED BY <3>1, <3>2 DEF About, At
  <2> QED BY <2>2, <2>3, PasswordCloses, PTL
<1> QED BY <1>2, <1>3, <1>4, <1>5

=============================================================================
