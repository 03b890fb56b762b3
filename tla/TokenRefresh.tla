----------------------------- MODULE TokenRefresh -----------------------------
(***************************************************************************)
(* How the tabs of one surface keep their session with the hub: the        *)
(* refresh-on-401 path of VaultClient and createVaultSurface, and the      *)
(* single-flight refresh of ParachuteOAuth (packages/surface-client).      *)
(*                                                                         *)
(* The hub rotates refresh tokens: an exchange issues a new pair of access *)
(* and refresh token, and a refresh token that comes a second time is a    *)
(* replay that revokes its whole family.  Tabs share one stored pair; a    *)
(* tab exchanges at most once at a time (refreshInFlight), and takes turns *)
(* with the others where the browser has Web Locks.                        *)
(*                                                                         *)
(* A surface that no host serves registers itself as an OAuth client once  *)
(* and caches the id for all its tabs; what is issued to one client cannot *)
(* be refreshed by another.  Signing in leaves the page and comes back; a  *)
(* page may be left at any moment, with its exchange on the wire.          *)
(*                                                                         *)
(* A pair is the number of its issue.  One action is what a tab does from  *)
(* one answer of the network, or grant of the lock, to its next request:   *)
(* microtasks run to their end.                                            *)
(***************************************************************************)
EXTENDS Naturals, Sequences, FiniteSets

CONSTANTS
  Tabs,
  Callers,     \* requests a tab may have under way at once
  WebLocks,    \* navigator.locks is there
  Features,    \* what may happen besides: subset of FeatureKinds
  NoTab,
  MaxCalls,    \* bound: requests under way in all tabs
  MaxLogins,   \* bound: logins; nobody signs out of the last session
  MaxExpiries, \* bound: access tokens, and sessions, that stop being accepted
  MaxOrphans   \* bound: sessions with a lost exchange, before no more answers are lost

FeatureKinds ==
  { "login",     \* the user signs in (again) in some tab
    "logout",    \* the user signs out in some tab
    "condemn",   \* the hub ends a session (revoked, refresh token expired)
    "revoke",    \* an access token is refused before its expiry
    "reload",    \* a page is left or reloaded
    "refused" }  \* a request to the hub fails, or its answer breaks off

ASSUME ConstantsAssumption ==
  /\ WebLocks \in BOOLEAN /\ Features \subseteq FeatureKinds /\ NoTab \notin Tabs
  /\ MaxCalls \in Nat /\ MaxLogins \in Nat \ {0} /\ MaxExpiries \in Nat
  /\ MaxOrphans \in Nat

VARIABLES
  \* the hub and the vault
  family,      \* pair -> its family, in order of issue
  superseded,  \* pairs whose refresh token was exchanged
  dead,        \* families that were revoked
  replayed,    \* families revoked because a superseded token came back
  expired,     \* pairs whose access token is past its expiry
  revoked,     \* pairs whose access token is refused although unexpired
  client_id,   \* family -> the client it was issued to
  clients,     \* clients registered so far
  \* shared by the tabs
  storage,     \* the stored pair, or 0
  lock,        \* the tab that holds the refresh lock, or NoTab
  dcr,         \* the cached client id, or 0
  \* each tab
  token,       \* VaultClient.token, or 0 without a client
  seeded,      \* the client id of the page's driver, or 0
  signin,      \* login() and handleCallback(): [at, client]
  flight,      \* refreshInFlight
  caller,      \* the requests under way
  \* history
  raced,       \* two tabs registered at the same time
  orphaned     \* families an exchange of which lost its answer, or its page

hubVars == <<family, superseded, dead, replayed, expired, revoked, client_id, clients>>
pageVars == <<seeded, signin, dcr, raced, orphaned>>
vars == <<hubVars, pageVars, storage, lock, token, flight, caller>>

Pairs == 1..Len(family)
Logins == {p \in Pairs : family[p] = p}

Flight ==
  [stage : {"none", "lock", "sent", "answered"}, refresh : Nat,
   answer : {"none", "pair", "invalid_grant", "error"}, pair : Nat]
NoFlight == [stage |-> "none", refresh |-> 0, answer |-> "none", pair |-> 0]

\* A request: asked with a token (pair), or refused with 401: on its way to a refresh of
\* the stored pair, or joined to one.  The retry's answer is final and touches nothing,
\* so the request is over when its refresh is.
Caller == [stage : {"idle", "asked", "seeding", "joined"}, pair : Nat]
NoCall == [stage |-> "idle", pair |-> 0]

\* Signing in: looking for a client id, registering one, on the hub's pages, and back
\* with a code for the client that the pending flow names.
Signin == [at : {"no", "finding", "registering", "away", "exchanging"}, client : Nat]
NoSignin == [at |-> "no", client |-> 0]

Has(f) == f \in Features

-----------------------------------------------------------------------------
(* The hub and the vault (external).                                       *)

Accepts(p) == p \notin expired \cup revoked

Expire(p) ==
  /\ Cardinality(expired \cup revoked) < MaxExpiries /\ p \in Pairs /\ Accepts(p)
  /\ \/ expired' = expired \cup {p} /\ UNCHANGED revoked
     \/ Has("revoke") /\ revoked' = revoked \cup {p} /\ UNCHANGED expired
  /\ UNCHANGED <<family, superseded, dead, replayed, client_id, clients, pageVars,
                 storage, lock, token, flight, caller>>

Condemn(f) ==
  /\ Has("condemn") /\ f \in Logins \ (dead \cup orphaned) /\ Cardinality(dead) < MaxExpiries
  /\ dead' = dead \cup {f}
  /\ UNCHANGED <<family, superseded, replayed, expired, revoked, client_id, clients,
                 pageVars, storage, lock, token, flight, caller>>

Answer(t, answer, pair) ==
  flight' = [flight EXCEPT ![t].stage = "answered", ![t].answer = answer, ![t].pair = pair]

Foreign(t) == client_id[family[flight[t].refresh]] # seeded[t]

\* The token endpoint: rotation, replay detection, a family that is gone, or another
\* client's token.
HubAnswers(t) ==
  LET r == flight[t].refresh
      f == family[r]
  IN /\ flight[t].stage = "sent"
     /\ \/ /\ f \notin dead /\ r \notin superseded /\ ~Foreign(t)
           /\ family' = Append(family, f) /\ superseded' = superseded \cup {r}
           /\ Answer(t, "pair", Len(family) + 1)
           /\ UNCHANGED <<dead, replayed>>
        \/ /\ f \notin dead /\ r \in superseded /\ ~Foreign(t)
           /\ dead' = dead \cup {f} /\ replayed' = replayed \cup {f}
           /\ Answer(t, "invalid_grant", 0)
           /\ UNCHANGED <<family, superseded>>
        \/ /\ f \in dead \/ Foreign(t)
           /\ Answer(t, "invalid_grant", 0)
           /\ UNCHANGED <<family, superseded, dead, replayed>>
        \/ /\ Has("refused")
           /\ Answer(t, "error", 0)
           /\ UNCHANGED <<family, superseded, dead, replayed>>
     /\ UNCHANGED <<expired, revoked, client_id, clients, pageVars, storage, lock, token,
                    caller>>

\* The hub serves the exchange and the page does not learn it: fetch rejects, or the
\* body breaks off, and refreshExchange throws before it persists anything.
AnswerLost(t) ==
  LET r == flight[t].refresh
      f == family[r]
  IN /\ Has("refused") /\ flight[t].stage = "sent" /\ f \notin dead /\ ~Foreign(t)
     /\ \/ /\ r \notin superseded /\ Cardinality(orphaned) < MaxOrphans
           /\ superseded' = superseded \cup {r} /\ orphaned' = orphaned \cup {f}
           /\ UNCHANGED <<dead, replayed>>
        \/ /\ r \in superseded
           /\ dead' = dead \cup {f} /\ replayed' = replayed \cup {f}
           /\ UNCHANGED <<superseded, orphaned>>
     /\ Answer(t, "error", 0)
     /\ UNCHANGED <<family, expired, revoked, client_id, clients, seeded, signin, dcr, raced,
                    storage, lock, token, caller>>

-----------------------------------------------------------------------------
(* The single-flight refresh.                                              *)

\* refreshAccessToken: join the exchange in flight, or start one.
JoinOrStart(t, k, refresh) ==
  /\ flight' = IF flight[t] # NoFlight THEN flight ELSE
       [flight EXCEPT ![t] = [stage |-> IF WebLocks THEN "lock" ELSE "sent",
                              refresh |-> refresh, answer |-> "none", pair |-> 0]]
  /\ caller' = [caller EXCEPT ![t][k] = [NoCall EXCEPT !.stage = "joined"]]

Joined(t) == {k \in Callers : caller[t][k].stage = "joined"}

Released(t) ==
  /\ flight' = [flight EXCEPT ![t] = NoFlight]
  /\ caller' = [caller EXCEPT ![t] = [k \in Callers |->
       IF k \in Joined(t) THEN NoCall ELSE caller[t][k]]]

\* The flight ends: refreshInFlight and the lock are given up, and every caller
\* goes on, with pair p as its client's token, or with a failure.
Succeed(t, p) ==
  /\ Released(t)
  /\ lock' = IF lock = t THEN NoTab ELSE lock
  /\ token' = [token EXCEPT ![t] = p]

Fail(t) ==
  /\ Released(t)
  /\ lock' = IF lock = t THEN NoTab ELSE lock
  /\ UNCHANGED token

\* isWinnersToken: another tab rotated the pair, or it is still good by the clock.
IsWinnersToken(persisted, ours) == persisted # ours \/ persisted \notin expired

\* Mutant: the lock is granted, and storage is not read again.
NoReread(t) ==
  /\ WebLocks /\ lock = NoTab /\ flight[t].stage = "lock"
  /\ lock' = t /\ flight' = [flight EXCEPT ![t].stage = "sent"]
  /\ UNCHANGED <<hubVars, pageVars, storage, token, caller>>

\* refreshUnderLock: read the storage again; adopt a winner's pair or exchange ours.
LockGranted(t) ==
  /\ WebLocks /\ lock = NoTab /\ flight[t].stage = "lock"
  /\ IF storage # 0 /\ IsWinnersToken(storage, flight[t].refresh)
       THEN Succeed(t, storage)
       ELSE /\ lock' = t /\ flight' = [flight EXCEPT ![t].stage = "sent"]
            /\ UNCHANGED <<token, caller>>
  /\ UNCHANGED <<hubVars, pageVars, storage>>

\* Mutant: a failed exchange does not give the lock back.
LockKept(t) ==
  /\ flight[t].stage = "answered"
  /\ \/ flight[t].answer = "pair" /\ storage' = flight[t].pair /\ Succeed(t, flight[t].pair)
     \/ /\ flight[t].answer # "pair"
        /\ storage' = IF flight[t].answer = "error" THEN storage ELSE 0
        /\ Released(t) /\ UNCHANGED <<lock, token>>
  /\ UNCHANGED <<hubVars, pageVars>>

\* refreshExchange has its answer: persist the pair, or fail; onAuthError evicts the
\* stored pair when the failure is terminal.
Exchanged(t) ==
  /\ flight[t].stage = "answered"
  /\ \/ flight[t].answer = "pair" /\ storage' = flight[t].pair /\ Succeed(t, flight[t].pair)
     \/ flight[t].answer = "invalid_grant" /\ storage' = 0 /\ Fail(t)
     \/ flight[t].answer = "error" /\ UNCHANGED storage /\ Fail(t)
  /\ UNCHANGED <<hubVars, pageVars>>

-----------------------------------------------------------------------------
(* A request of a VaultClient.                                             *)

\* getClient(): a client on the stored pair
GetClient(t) ==
  /\ storage # 0 /\ token[t] # storage /\ signin[t].at # "away"
  /\ token' = [token EXCEPT ![t] = storage]
  /\ UNCHANGED <<hubVars, pageVars, storage, lock, flight, caller>>

Busy == {x \in Tabs \X Callers : caller[x[1]][x[2]] # NoCall}

Request(t, k) ==
  /\ token[t] # 0 /\ caller[t][k] = NoCall /\ Cardinality(Busy) < MaxCalls
  /\ caller' = [caller EXCEPT ![t][k] = [stage |-> "asked", pair |-> token[t]]]
  /\ UNCHANGED <<hubVars, pageVars, storage, lock, token, flight>>

Finish(t, k) == caller' = [caller EXCEPT ![t][k] = NoCall]

\* The answer, and on a 401 onAuthError up to its first wait for the network.
Answered(t, k) ==
  LET c == caller[t][k]
  IN /\ c.stage = "asked"
     /\ \/ (Accepts(c.pair) \/ storage = 0) /\ Finish(t, k) /\ UNCHANGED flight
        \/ /\ ~Accepts(c.pair) /\ storage # 0 /\ seeded[t] # 0
           /\ JoinOrStart(t, k, storage)
        \/ /\ ~Accepts(c.pair) /\ storage # 0 /\ seeded[t] = 0
           /\ caller' = [caller EXCEPT ![t][k] = [stage |-> "seeding", pair |-> storage]]
           /\ UNCHANGED flight
     /\ UNCHANGED <<hubVars, pageVars, storage, lock, token>>

\* seedClientIdFromCache has its metadata and reads the cache; or discovery failed, or
\* nothing is cached.
Seeded(t, k) ==
  /\ caller[t][k].stage = "seeding"
  /\ \/ dcr # 0 /\ seeded' = [seeded EXCEPT ![t] = dcr] /\ JoinOrStart(t, k, caller[t][k].pair)
     \/ (dcr = 0 \/ Has("refused")) /\ Finish(t, k) /\ UNCHANGED <<seeded, flight>>
  /\ UNCHANGED <<hubVars, signin, dcr, raced, orphaned, storage, lock, token>>

-----------------------------------------------------------------------------
(* Signing in and out.                                                     *)

\* The page is gone: its memory, its requests and its lock.  An exchange on the wire
\* the hub may have served; nobody will store the pair.
Unload(t) ==
  /\ token' = [token EXCEPT ![t] = 0] /\ flight' = [flight EXCEPT ![t] = NoFlight]
  /\ lock' = IF lock = t THEN NoTab ELSE lock
  /\ caller' = [caller EXCEPT ![t] = [k \in Callers |-> NoCall]]
  /\ IF flight[t].stage \notin {"sent", "answered"} THEN UNCHANGED <<orphaned, superseded>>
     ELSE /\ orphaned' = orphaned \cup {family[flight[t].refresh]}
          /\ superseded' \in {superseded, superseded \cup {flight[t].refresh}}
  /\ UNCHANGED <<family, dead, replayed, expired, revoked, client_id>>

Reload(t) ==
  /\ Has("reload") /\ Cardinality(orphaned) < MaxOrphans /\ Unload(t)
  /\ seeded' = [seeded EXCEPT ![t] = 0] /\ signin' = [signin EXCEPT ![t] = NoSignin]
  /\ UNCHANGED <<clients, dcr, raced, storage>>

\* beginFlow, and the browser leaves for the hub: the pending flow is in the tab's
\* session storage.
Departs(t, id) ==
  /\ Unload(t)
  /\ seeded' = [seeded EXCEPT ![t] = 0]
  /\ signin' = [signin EXCEPT ![t] = [at |-> "away", client |-> id]]

Stays(t, at) ==
  /\ signin' = [signin EXCEPT ![t].at = at]
  /\ UNCHANGED <<hubVars, seeded, lock, token, flight, caller, orphaned>>

\* login(), up to its first await; a driver with a client id needs none.
Login(t) ==
  /\ Has("login") /\ signin[t] = NoSignin
  /\ Cardinality(Logins) + Cardinality({u \in Tabs : signin[u] # NoSignin}) < MaxLogins
  /\ IF seeded[t] # 0 THEN Departs(t, seeded[t]) /\ UNCHANGED clients ELSE Stays(t, "finding")
  /\ UNCHANGED <<dcr, raced, storage>>

\* Mutant: the cached registration is not looked for.
RegistersAlways(t) ==
  /\ signin[t].at = "finding"
  /\ Stays(t, "registering")
  /\ UNCHANGED <<dcr, raced, storage>>

\* ensureClientId has the metadata: the cached id, or a registration.
Finds(t) ==
  /\ signin[t].at = "finding"
  /\ IF dcr # 0 THEN Departs(t, dcr) /\ UNCHANGED clients ELSE Stays(t, "registering")
  /\ UNCHANGED <<dcr, raced, storage>>

\* The hub registers the surface anew, whatever it registered before.
Registers(t) ==
  /\ signin[t].at = "registering"
  /\ clients' = clients + 1 /\ dcr' = clients + 1
  /\ raced' = (raced \/ \E u \in Tabs \ {t} : signin[u].at = "registering")
  /\ Departs(t, clients + 1)
  /\ UNCHANGED storage

LoginFails(t) ==
  /\ Has("refused") /\ signin[t].at \in {"finding", "registering"}
  /\ Stays(t, "no")
  /\ UNCHANGED <<dcr, raced, storage>>

\* The callback page loads and ensureClientId() reads the cache again.
Returns(t) ==
  /\ signin[t].at = "away"
  /\ seeded' = [seeded EXCEPT ![t] = dcr]
  /\ signin' = [signin EXCEPT ![t].at = "exchanging"]
  /\ UNCHANGED <<hubVars, dcr, raced, orphaned, storage, lock, token, flight, caller>>

\* handleCallback: the code is exchanged by the client of the pending flow, for a new
\* family; or the hub refuses it.
HandleCallback(t) ==
  /\ signin[t].at = "exchanging"
  /\ signin' = [signin EXCEPT ![t] = NoSignin]
  /\ \/ LET new == Len(family) + 1 IN
        /\ family' = Append(family, new)
        /\ client_id' = [f \in Logins \cup {new} |->
                           IF f = new THEN signin[t].client ELSE client_id[f]]
        /\ storage' = new
     \/ Has("refused") /\ UNCHANGED <<family, client_id, storage>>
  /\ UNCHANGED <<superseded, dead, replayed, expired, revoked, clients, seeded, dcr, raced,
                 orphaned, lock, token, flight, caller>>

Logout(t) ==
  /\ Has("logout") /\ storage # 0 /\ Cardinality(Logins) < MaxLogins
  /\ storage' = 0
  /\ UNCHANGED <<hubVars, pageVars, lock, token, flight, caller>>

-----------------------------------------------------------------------------
\* The surface is new to the browser, or the first login has happened; every tab
\* starts cold.
Init ==
  /\ \/ family = <<>> /\ client_id = <<>> /\ clients = 0 /\ storage = 0
     \/ family = <<1>> /\ client_id = <<1>> /\ clients = 1 /\ storage = 1
  /\ dcr = clients
  /\ superseded = {} /\ dead = {} /\ replayed = {}
  /\ expired = {} /\ revoked = {} /\ lock = NoTab
  /\ token = [t \in Tabs |-> 0] /\ seeded = [t \in Tabs |-> 0]
  /\ signin = [t \in Tabs |-> NoSignin]
  /\ flight = [t \in Tabs |-> NoFlight]
  /\ caller = [t \in Tabs |-> [k \in Callers |-> NoCall]]
  /\ raced = FALSE /\ orphaned = {}

Next ==
  \/ \E p \in Pairs : Expire(p) \/ Condemn(p)
  \/ \E t \in Tabs :
       \/ HubAnswers(t) \/ AnswerLost(t) \/ LockGranted(t) \/ Exchanged(t)
       \/ Login(t) \/ Finds(t) \/ Registers(t) \/ LoginFails(t)
       \/ Returns(t) \/ HandleCallback(t)
       \/ GetClient(t) \/ Logout(t) \/ Reload(t)
       \/ \E k \in Callers : Request(t, k) \/ Answered(t, k) \/ Seeded(t, k)

Spec == Init /\ [][Next]_vars

-----------------------------------------------------------------------------
(* Properties.                                                             *)

TypeOK ==
  /\ family \in Seq(Nat \ {0}) /\ \A p \in Pairs : family[p] <= p
  /\ superseded \subseteq Pairs /\ dead \subseteq Pairs /\ replayed \subseteq dead
  /\ expired \subseteq Pairs /\ revoked \subseteq Pairs /\ orphaned \subseteq Pairs
  /\ client_id \in [Logins -> 1..clients] /\ dcr \in 0..clients /\ raced \in BOOLEAN
  /\ storage \in {0} \cup Pairs
  /\ lock \in Tabs \cup {NoTab}
  /\ token \in [Tabs -> {0} \cup Pairs] /\ seeded \in [Tabs -> 0..clients]
  /\ signin \in [Tabs -> Signin]
  /\ flight \in [Tabs -> Flight] /\ caller \in [Tabs -> [Callers -> Caller]]
  /\ \A t \in Tabs : flight[t].stage # "none" => flight[t].refresh \in Pairs

\* With Web Locks the tabs' races never bring their session down: however their
\* requests, refreshes, logins and logouts interleave, the family of the stored
\* pair is never revoked because one of them replayed a superseded token - unless the
\* hub's answer to an exchange of it was lost, on its way or with the page that waited
\* for it (orphaned): then the superseded pair stays stored, and the next refresh does
\* replay it.
NeverReplayed ==
  storage # 0 => family[storage] \notin replayed \ orphaned

\* As long as no answer of an exchange was lost, a session ends only when the hub or the
\* user ended it: the stored pair is good for an exchange unless its successor is
\* coming, and it was issued to the client that a page opened later will find in the
\* cache (unless two tabs registered the surface at the same time).
StoredPairIsUsable ==
  storage # 0 =>
    /\ storage \in superseded /\ family[storage] \notin orphaned =>
         \E t \in Tabs : flight[t].stage = "answered" /\ flight[t].answer = "pair"
                         /\ family[flight[t].pair] = family[storage]
    /\ client_id[family[storage]] = dcr \/ raced

\* Nobody waits in vain: a request that waits for a refresh has one under way in its
\* tab, and the lock is held only by a tab whose exchange is on the wire.
WaitersAreServed ==
  /\ \A t \in Tabs : Joined(t) # {} <=> flight[t].stage # "none"
  /\ lock # NoTab => flight[lock].stage \in {"sent", "answered"}
=============================================================================
