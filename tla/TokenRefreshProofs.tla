-------------------------- MODULE TokenRefreshProofs --------------------------
(***************************************************************************)
(* Proofs about TokenRefresh, for any number of tabs, requests, logins,    *)
(* expiries, lost pages and lost answers: nobody waits for a refresh that  *)
(* is not under way and, where the browser has Web Locks, no session is    *)
(* lost to a race of its tabs: only a lost answer to an exchange lets a    *)
(* superseded pair stay where the next refresh finds it.                   *)
(***************************************************************************)
EXTENDS TokenRefresh, TLAPS

-----------------------------------------------------------------------------
(* The invariant.                                                          *)

\* A family is named by its first pair.
HubTypes ==
  /\ clients \in Nat
  /\ family \in Seq(Nat)
  /\ \A p \in Pairs : family[p] \in 1..p /\ family[family[p]] = family[p]
  /\ superseded \subseteq Pairs /\ dead \subseteq Pairs /\ replayed \subseteq dead
  /\ expired \subseteq Pairs /\ revoked \subseteq Pairs
  /\ client_id \in [Logins -> 1..clients]

SigninFits(s) ==
  s \in Signin /\ (s.at \in {"away", "exchanging"} => s.client \in 1..clients)

PageTypes ==
  /\ dcr \in 0..clients /\ raced \in BOOLEAN /\ orphaned \subseteq Pairs
  /\ seeded \in [Tabs -> 0..clients]
  /\ signin \in [Tabs -> Signin] /\ \A t \in Tabs : SigninFits(signin[t])

\* A refresh under way has a pair to exchange, and its answer is of the same family.
FlightFits(e, fam) ==
  /\ e.stage = "none" <=> e = NoFlight
  /\ e.stage # "none" => e.refresh \in 1..Len(fam)
  /\ e.answer = "pair" => e.pair \in 1..Len(fam) /\ fam[e.pair] = fam[e.refresh]

TabTypes ==
  /\ storage \in 0..Len(family) /\ lock \in Tabs \cup {NoTab}
  /\ token \in [Tabs -> 0..Len(family)]
  /\ flight \in [Tabs -> Flight] /\ \A t \in Tabs : FlightFits(flight[t], family)
  /\ caller \in [Tabs -> [Callers -> Caller]]
  /\ \A t \in Tabs : \A k \in Callers :
       /\ caller[t][k].stage = "idle" <=> caller[t][k] = NoCall
       /\ caller[t][k].stage = "asked" => caller[t][k].pair \in 1..Len(family)
       /\ caller[t][k].stage = "seeding" => caller[t][k].pair \in 1..Len(family)

RefreshTypes == HubTypes /\ PageTypes /\ TabTypes

\* Whoever is on the wire has the lock; it exchanges the stored pair, unless the tabs
\* have no pair or one of another family by now.
WireHasLock ==
  \A t \in Tabs :
    /\ flight[t].stage \in {"sent", "answered"} => lock = t
    /\ flight[t].stage = "sent" /\ storage # 0 =>
         storage = flight[t].refresh \/ family[storage] # family[flight[t].refresh]

\* A pair that comes is good for an exchange.
ComingPairsAreGood ==
  \A t \in Tabs : flight[t].stage = "answered" /\ flight[t].answer = "pair" =>
    flight[t].pair \notin superseded /\ family[flight[t].pair] \notin replayed

\* The stored pair was exchanged only if its successor is coming.
SuccessorComes ==
  storage # 0 /\ storage \in superseded /\ family[storage] \notin orphaned =>
    \E t \in Tabs : flight[t].stage = "answered" /\ flight[t].answer = "pair"
                    /\ family[flight[t].pair] = family[storage]

\* The surface is registered before anybody signs in, and once.
OneClient ==
  /\ raced \/ \A f \in Logins : client_id[f] = dcr
  /\ raced \/ \A t \in Tabs : /\ seeded[t] \in {0, dcr}
                              /\ signin[t].at \in {"away", "exchanging"} => signin[t].client = dcr
                              /\ signin[t].at = "registering" => dcr = 0
  /\ dcr = 0 => /\ clients = 0 /\ family = <<>>
                /\ \A t \in Tabs : signin[t].at \notin {"away", "exchanging"}

SessionInv == WireHasLock /\ ComingPairsAreGood /\ SuccessorComes /\ NeverReplayed

RefreshInv == RefreshTypes /\ WaitersAreServed /\ OneClient /\ SessionInv

-----------------------------------------------------------------------------
(* What the operators leave behind.                                        *)

\* A pair is issued: of family f, known or new.
LEMMA FamilyGrows ==
  ASSUME HubTypes, NEW f \in 1..(Len(family) + 1),
         f \in Logins \/ f = Len(family) + 1, family' = Append(family, f)
  PROVE  /\ family' \in Seq(Nat) /\ Len(family') = Len(family) + 1
         /\ \A p \in Pairs : family'[p] = family[p]
         /\ family'[Len(family) + 1] = f
         /\ \A p \in Pairs' : family'[p] \in 1..p /\ family'[family'[p]] = family'[p]
         /\ Pairs \subseteq Pairs'
         /\ Logins' = Logins \cup (IF f = Len(family) + 1 THEN {f} ELSE {})
<1>1. family \in Seq(Nat) /\ Len(family) \in Nat
  BY DEF HubTypes
<1>2. /\ family' \in Seq(Nat) /\ Len(family') = Len(family) + 1
      /\ \A p \in 1..Len(family) : family'[p] = family[p]
      /\ family'[Len(family) + 1] = f
  BY <1>1
<1>3. Pairs = 1..Len(family) /\ Pairs' = Pairs \cup {Len(family) + 1}
  BY <1>1, <1>2 DEF Pairs
<1>4. \A p \in Pairs : family[p] \in Pairs /\ family[p] \in 1..p /\ family[family[p]] = family[p]
  BY <1>1, <1>3 DEF HubTypes
<1>5. \A p \in Pairs' : family'[p] \in 1..p /\ family'[family'[p]] = family'[p]
  BY <1>1, <1>2, <1>3, <1>4 DEF Logins
<1>6. Logins' = Logins \cup (IF f = Len(family) + 1 THEN {f} ELSE {})
  BY <1>1, <1>2, <1>3, <1>4 DEF Logins
<1> QED BY <1>2, <1>3, <1>5, <1>6

\* What a tab has stays right when pairs are issued.
LEMMA FitsLater ==
  ASSUME HubTypes, NEW e, FlightFits(e, family),
         Len(family') = Len(family) + 1, \A p \in Pairs : family'[p] = family[p]
  PROVE  FlightFits(e, family')
BY DEF HubTypes, FlightFits, Pairs, NoFlight

LEMMA ReleasedKeeps ==
  ASSUME TabTypes, NEW t \in Tabs, Released(t)
  PROVE  /\ flight' \in [Tabs -> Flight] /\ flight'[t] = NoFlight
         /\ \A u \in Tabs \ {t} : flight'[u] = flight[u] /\ caller'[u] = caller[u]
         /\ caller' \in [Tabs -> [Callers -> Caller]]
         /\ \A k \in Callers : caller'[t][k] = IF k \in Joined(t) THEN NoCall ELSE caller[t][k]
BY DEF TabTypes, Released, Flight, NoFlight, Caller, NoCall, Joined

\* A call changes and nothing else.
LEMMA CallChanges ==
  ASSUME TabTypes, NEW t \in Tabs, NEW k \in Callers, NEW c \in Caller,
         caller' = [caller EXCEPT ![t][k] = c]
  PROVE  /\ caller' \in [Tabs -> [Callers -> Caller]] /\ caller'[t][k] = c
         /\ \A u \in Tabs, j \in Callers : u # t \/ j # k => caller'[u][j] = caller[u][j]
BY DEF TabTypes

LEMMA JoinOrStartKeeps ==
  ASSUME TabTypes, NEW t \in Tabs, NEW k \in Callers, NEW r \in Pairs, JoinOrStart(t, k, r)
  PROVE  /\ flight' \in [Tabs -> Flight] /\ \A u \in Tabs : FlightFits(flight'[u], family)
         /\ \A u \in Tabs \ {t} : flight'[u] = flight[u]
         /\ flight'[t].stage # "none"
         /\ flight[t] # NoFlight => flight' = flight
         /\ flight[t] = NoFlight =>
              flight'[t].stage = (IF WebLocks THEN "lock" ELSE "sent") /\ flight'[t].answer = "none"
         /\ caller' \in [Tabs -> [Callers -> Caller]]
         /\ caller'[t][k] = [NoCall EXCEPT !.stage = "joined"]
         /\ \A u \in Tabs, j \in Callers : u # t \/ j # k => caller'[u][j] = caller[u][j]
<1> DEFINE c == [NoCall EXCEPT !.stage = "joined"]
<1>1. c \in Caller
  BY DEF NoCall, Caller
<1>2. caller' = [caller EXCEPT ![t][k] = c]
  BY DEF JoinOrStart
<1> HIDE DEF c
<1>3. /\ caller' \in [Tabs -> [Callers -> Caller]]
      /\ caller'[t][k] = c
      /\ \A u \in Tabs, j \in Callers : u # t \/ j # k => caller'[u][j] = caller[u][j]
  BY <1>1, <1>2, CallChanges
<1>4. CASE flight[t] # NoFlight
  <2>1. flight' = flight
    BY <1>4 DEF JoinOrStart
  <2>2. flight[t].stage # "none"
    BY <1>4 DEF TabTypes, FlightFits
  <2> QED BY <2>1, <2>2, <1>3, <1>4 DEF TabTypes, c
<1>5. CASE flight[t] = NoFlight
  <2> DEFINE e == [stage |-> IF WebLocks THEN "lock" ELSE "sent",
                   refresh |-> r, answer |-> "none", pair |-> 0]
  <2>1. flight' = [flight EXCEPT ![t] = e]
    BY <1>5 DEF JoinOrStart
  <2>2. e \in Flight /\ e.stage \in {"lock", "sent"} /\ e.refresh = r /\ e.answer = "none"
        /\ e.stage = (IF WebLocks THEN "lock" ELSE "sent")
    BY DEF Flight, Pairs
  <2>3. FlightFits(e, family) /\ flight[t].stage = "none"
    BY <2>2, <1>5 DEF FlightFits, Pairs, NoFlight
  <2> HIDE DEF e
  <2>4. flight'[t] = e /\ flight' \in [Tabs -> Flight] /\ \A u \in Tabs \ {t} : flight'[u] = flight[u]
    BY <2>1, <2>2 DEF TabTypes
  <2>5. \A u \in Tabs : FlightFits(flight'[u], family)
    BY <2>3, <2>4 DEF TabTypes
  <2> QED BY <2>2, <2>4, <2>5, <1>3, <1>5 DEF c
<1> QED BY <1>4, <1>5

LEMMA UnloadKeeps ==
  ASSUME RefreshTypes, NEW t \in Tabs, Unload(t)
  PROVE  /\ token' \in [Tabs -> 0..Len(family)]
         /\ flight' \in [Tabs -> Flight] /\ flight'[t] = NoFlight
         /\ caller' \in [Tabs -> [Callers -> Caller]] /\ \A k \in Callers : caller'[t][k] = NoCall
         /\ \A u \in Tabs \ {t} : flight'[u] = flight[u] /\ caller'[u] = caller[u]
         /\ orphaned \subseteq orphaned' /\ orphaned' \subseteq Pairs
         /\ superseded \subseteq superseded' /\ superseded' \subseteq Pairs
         /\ lock' = (IF lock = t THEN NoTab ELSE lock)
         /\ IF flight[t].stage \in {"sent", "answered"}
              THEN /\ orphaned' = orphaned \cup {family[flight[t].refresh]}
                   /\ superseded' \subseteq superseded \cup {flight[t].refresh}
              ELSE orphaned' = orphaned /\ superseded' = superseded
         /\ UNCHANGED <<family, dead, replayed, expired, revoked, client_id>>
<1>1. NoFlight \in Flight /\ NoCall \in Caller
  BY DEF NoFlight, Flight, NoCall, Caller
<1>2. /\ token' \in [Tabs -> 0..Len(family)]
      /\ flight' \in [Tabs -> Flight] /\ flight'[t] = NoFlight
      /\ caller' \in [Tabs -> [Callers -> Caller]] /\ \A k \in Callers : caller'[t][k] = NoCall
      /\ \A u \in Tabs \ {t} : flight'[u] = flight[u] /\ caller'[u] = caller[u]
  <2>1. 0 \in 0..Len(family)
    BY DEF RefreshTypes, HubTypes
  <2> QED BY <1>1, <2>1 DEF Unload, RefreshTypes, TabTypes
<1>3. flight[t].stage \in {"sent", "answered"} =>
        flight[t].refresh \in Pairs /\ family[flight[t].refresh] \in Pairs
  BY DEF RefreshTypes, TabTypes, HubTypes, FlightFits, Pairs
<1> QED BY <1>2, <1>3 DEF Unload, RefreshTypes, PageTypes, HubTypes

-----------------------------------------------------------------------------
(* Types.                                                                  *)

LEMMA InitTypes == Init => RefreshTypes
<1> SUFFICES ASSUME Init PROVE RefreshTypes
  OBVIOUS
<1> USE DEF Init
<1>1. HubTypes
  <2>1. CASE family = <<>> /\ client_id = <<>> /\ clients = 0
    <3>1. Pairs = {} /\ Logins = {}
      BY <2>1 DEF Pairs, Logins
    <3> QED BY <2>1, <3>1 DEF HubTypes
  <2>2. CASE family = <<1>> /\ client_id = <<1>> /\ clients = 1
    <3>1. Pairs = {1} /\ Logins = {1} /\ family[1] = 1
      BY <2>2 DEF Pairs, Logins
    <3> QED BY <2>2, <3>1 DEF HubTypes
  <2> QED BY <2>1, <2>2
<1>2. PageTypes
  <2>1. NoSignin \in Signin /\ SigninFits(NoSignin)
    BY DEF Signin, NoSignin, SigninFits
  <2>2. dcr \in 0..clients /\ 0 \in 0..clients
    OBVIOUS
  <2> QED BY <2>1, <2>2 DEF PageTypes
<1>3. NoFlight \in Flight /\ FlightFits(NoFlight, family) /\ NoCall \in Caller /\ NoCall.stage = "idle"
  BY DEF NoFlight, Flight, FlightFits, NoCall, Caller
<1>4. storage \in 0..Len(family) /\ 0 \in 0..Len(family)
  <2>1. CASE family = <<>> /\ storage = 0
    BY <2>1
  <2>2. CASE family = <<1>> /\ storage = 1
    <3>1. Len(family) = 1
      BY <2>2
    <3> QED BY <2>2, <3>1
  <2> QED BY <2>1, <2>2
<1> QED BY <1>1, <1>2, <1>3, <1>4 DEF RefreshTypes, TabTypes

\* What a call may be, given the pairs that were issued.
CallFits(c, fam) ==
  /\ c \in Caller
  /\ c.stage = "idle" <=> c = NoCall
  /\ c.stage \in {"asked", "seeding"} => c.pair \in 1..Len(fam)

LEMMA CallsFit ==
  TabTypes <=> /\ storage \in 0..Len(family) /\ lock \in Tabs \cup {NoTab}
               /\ token \in [Tabs -> 0..Len(family)]
               /\ flight \in [Tabs -> Flight] /\ \A t \in Tabs : FlightFits(flight[t], family)
               /\ caller \in [Tabs -> [Callers -> Caller]]
               /\ \A t \in Tabs, k \in Callers : CallFits(caller[t][k], family)
BY DEF TabTypes, CallFits

LEMMA SigninChanges ==
  ASSUME PageTypes, NEW t \in Tabs, NEW at \in {"no", "finding", "registering"},
         signin' = [signin EXCEPT ![t].at = at], UNCHANGED <<dcr, raced, orphaned, seeded, clients, family>>
  PROVE  PageTypes'
BY DEF PageTypes, SigninFits, Signin, Pairs

LEMMA PageSame ==
  ASSUME PageTypes, UNCHANGED <<pageVars, clients>>, Len(family) <= Len(family'),
         Len(family) \in Nat, Len(family') \in Nat
  PROVE  PageTypes'
BY DEF PageTypes, SigninFits, pageVars, Pairs

\* The tabs of the others, and the page, when tab t leaves for the hub or is reloaded.
LEMMA LeavingKeepsTypes ==
  ASSUME RefreshTypes, NEW t \in Tabs, Unload(t), UNCHANGED storage,
         clients' \in {clients, clients + 1}, dcr' \in 0..clients', raced' \in BOOLEAN,
         seeded' = [seeded EXCEPT ![t] = 0],
         NEW s, signin' = [signin EXCEPT ![t] = s],
         s \in Signin, s.at \in {"away", "exchanging"} => s.client \in 1..clients'
  PROVE  RefreshTypes'
<1>1. /\ token' \in [Tabs -> 0..Len(family)]
      /\ flight' \in [Tabs -> Flight] /\ flight'[t] = NoFlight
      /\ caller' \in [Tabs -> [Callers -> Caller]] /\ \A k \in Callers : caller'[t][k] = NoCall
      /\ \A u \in Tabs \ {t} : flight'[u] = flight[u] /\ caller'[u] = caller[u]
      /\ orphaned' \subseteq Pairs
      /\ superseded' \subseteq Pairs
      /\ lock' = (IF lock = t THEN NoTab ELSE lock)
      /\ UNCHANGED <<family, dead, replayed, expired, revoked, client_id>>
  BY UnloadKeeps
<1>2. HubTypes'
  <2>1. clients' \in Nat /\ 1..clients \subseteq 1..clients'
    BY DEF RefreshTypes, HubTypes
  <2> QED BY <1>1, <2>1 DEF RefreshTypes, HubTypes, Pairs, Logins
<1>3. PageTypes'
  <2>1. clients \in Nat /\ 0 \in 0..clients' /\ 0..clients \subseteq 0..clients'
        /\ 1..clients \subseteq 1..clients'
    BY DEF RefreshTypes, HubTypes
  <2>2. seeded' \in [Tabs -> 0..clients']
    BY <2>1 DEF RefreshTypes, PageTypes
  <2>3. signin' \in [Tabs -> Signin] /\ signin'[t] = s /\ \A u \in Tabs \ {t} : signin'[u] = signin[u]
    BY DEF RefreshTypes, PageTypes
  <2>4. \A u \in Tabs : SigninFits(signin[u])'
    BY <2>1, <2>3 DEF RefreshTypes, PageTypes, SigninFits
  <2> QED BY <1>1, <2>2, <2>3, <2>4 DEF PageTypes, Pairs
<1>4. TabTypes'
  <2>1. FlightFits(NoFlight, family) /\ CallFits(NoCall, family)
    BY DEF FlightFits, NoFlight, CallFits, NoCall, Caller
  <2>2. \A u \in Tabs : FlightFits(flight'[u], family)
    BY <1>1, <2>1 DEF RefreshTypes, TabTypes
  <2>3. \A u \in Tabs, k \in Callers : CallFits(caller'[u][k], family)
    BY <1>1, <2>1, CallsFit DEF RefreshTypes
  <2>4. /\ storage' \in 0..Len(family') /\ lock' \in Tabs \cup {NoTab}
        /\ token' \in [Tabs -> 0..Len(family')]
        /\ flight' \in [Tabs -> Flight] /\ \A u \in Tabs : FlightFits(flight'[u], family')
        /\ caller' \in [Tabs -> [Callers -> Caller]]
        /\ \A u \in Tabs, k \in Callers : CallFits(caller'[u][k], family')
    BY <1>1, <2>2, <2>3 DEF RefreshTypes, TabTypes
  <2> QED BY <2>4 DEF TabTypes, CallFits
<1> QED BY <1>2, <1>3, <1>4 DEF RefreshTypes

\* What no flight or call of a tab changes.
LEMMA TabsKeepTypes ==
  ASSUME RefreshTypes, UNCHANGED <<hubVars, signin, dcr, raced, orphaned>>,
         seeded' \in [Tabs -> 0..clients], TabTypes'
  PROVE  RefreshTypes'
<1>1. HubTypes'
  BY DEF RefreshTypes, HubTypes, hubVars, Pairs, Logins
<1>2. PageTypes'
  BY DEF RefreshTypes, PageTypes, SigninFits, hubVars, Pairs
<1> QED BY <1>1, <1>2 DEF RefreshTypes

LEMMA StepTypes == RefreshTypes /\ [Next]_vars => RefreshTypes'
<1> SUFFICES ASSUME RefreshTypes, [Next]_vars PROVE RefreshTypes'
  OBVIOUS
<1>1. /\ HubTypes /\ PageTypes /\ TabTypes /\ Len(family) \in Nat /\ family \in Seq(Nat)
      /\ \A t \in Tabs, k \in Callers : CallFits(caller[t][k], family)
  BY CallsFit DEF RefreshTypes, HubTypes
<1>2. FlightFits(NoFlight, family) /\ CallFits(NoCall, family) /\ NoFlight \in Flight /\ NoCall \in Caller
  BY DEF FlightFits, NoFlight, Flight, CallFits, NoCall, Caller
\* The hub.
<1>3. ASSUME NEW p \in Pairs, Expire(p) PROVE RefreshTypes'
  <2>1. UNCHANGED <<family, superseded, dead, replayed, client_id, clients, pageVars,
                    storage, lock, token, flight, caller>>
        /\ expired' \subseteq Pairs /\ revoked' \subseteq Pairs
    BY <1>3, <1>1 DEF Expire, HubTypes
  <2>2. HubTypes'
    BY <2>1, <1>1 DEF HubTypes, Pairs, Logins
  <2>3. PageTypes'
    BY <2>1, <1>1, PageSame
  <2>4. TabTypes'
    BY <2>1, <1>1 DEF TabTypes
  <2> QED BY <2>2, <2>3, <2>4 DEF RefreshTypes
<1>4. ASSUME NEW p \in Pairs, Condemn(p) PROVE RefreshTypes'
  <2>1. UNCHANGED <<family, superseded, replayed, expired, revoked, client_id, clients,
                    pageVars, storage, lock, token, flight, caller>>
        /\ dead' = dead \cup {p}
    BY <1>4 DEF Condemn
  <2>2. HubTypes'
    BY <2>1, <1>1 DEF HubTypes, Pairs, Logins
  <2>3. PageTypes'
    BY <2>1, <1>1, PageSame
  <2>4. TabTypes'
    BY <2>1, <1>1 DEF TabTypes
  <2> QED BY <2>2, <2>3, <2>4 DEF RefreshTypes
<1>5. ASSUME NEW t \in Tabs, HubAnswers(t) PROVE RefreshTypes'
  <2> DEFINE r == flight[t].refresh
             f == family[r]
  <2>1. flight[t].stage = "sent" /\ r \in Pairs /\ f \in Pairs /\ family[f] = f
    BY <1>5, <1>1 DEF HubAnswers, TabTypes, FlightFits, HubTypes, Pairs
  <2>2. UNCHANGED <<expired, revoked, client_id, clients, pageVars, storage, lock, token, caller>>
    BY <1>5 DEF HubAnswers
  <2>3. ASSUME NEW answer \in {"pair", "invalid_grant", "error"}, NEW pair \in Nat,
               Answer(t, answer, pair)
        PROVE  /\ flight' \in [Tabs -> Flight] /\ \A u \in Tabs \ {t} : flight'[u] = flight[u]
               /\ flight'[t].stage = "answered" /\ flight'[t].refresh = r
               /\ flight'[t].answer = answer /\ flight'[t].pair = pair
    <3> DEFINE e == [flight[t] EXCEPT !.stage = "answered", !.answer = answer, !.pair = pair]
    <3>1. flight' = [flight EXCEPT ![t] = e]
      BY <2>3 DEF Answer
    <3>2. e \in Flight /\ e.stage = "answered" /\ e.refresh = r /\ e.answer = answer /\ e.pair = pair
      BY <1>1 DEF TabTypes, Flight
    <3> HIDE DEF e
    <3> QED BY <3>1, <3>2, <1>1 DEF TabTypes
  <2>4. CASE /\ family' = Append(family, f) /\ superseded' = superseded \cup {r}
             /\ Answer(t, "pair", Len(family) + 1)
             /\ UNCHANGED <<dead, replayed>>
    <3>1. f \in 1..(Len(family) + 1) /\ f \in Logins /\ f # Len(family) + 1
      BY <2>1, <1>1 DEF Logins, Pairs
    <3>2. /\ family' \in Seq(Nat) /\ Len(family') = Len(family) + 1
          /\ \A p \in Pairs : family'[p] = family[p]
          /\ family'[Len(family) + 1] = f
          /\ \A p \in Pairs' : family'[p] \in 1..p /\ family'[family'[p]] = family'[p]
          /\ Pairs \subseteq Pairs' /\ Logins' = Logins
      BY <3>1, <2>4, <1>1, FamilyGrows
    <3>3. HubTypes'
      BY <3>2, <2>1, <2>2, <2>4, <1>1 DEF HubTypes
    <3>4. PageTypes'
      BY <3>2, <2>2, <1>1, PageSame
    <3>5. /\ flight' \in [Tabs -> Flight] /\ \A u \in Tabs \ {t} : flight'[u] = flight[u]
          /\ flight'[t].stage = "answered" /\ flight'[t].refresh = r
          /\ flight'[t].answer = "pair" /\ flight'[t].pair = Len(family) + 1
      BY <2>3, <2>4, <1>1
    <3>6. FlightFits(flight'[t], family')
      BY <3>2, <3>5, <2>1, <1>1 DEF FlightFits, NoFlight, Pairs
    <3>7. \A u \in Tabs : FlightFits(flight'[u], family')
      BY <3>2, <3>5, <3>6, <1>1, FitsLater DEF TabTypes
    <3>8. \A u \in Tabs, k \in Callers : CallFits(caller[u][k], family')
      BY <3>2, <1>1 DEF CallFits
    <3>9. /\ storage' \in 0..Len(family') /\ lock' \in Tabs \cup {NoTab}
          /\ token' \in [Tabs -> 0..Len(family')] /\ caller' = caller
      BY <3>2, <2>2, <1>1 DEF TabTypes
    <3>10. TabTypes'
      BY <3>5, <3>7, <3>8, <3>9, <1>1 DEF TabTypes, CallFits
    <3> QED BY <3>3, <3>4, <3>10 DEF RefreshTypes
  <2>5. CASE UNCHANGED <<family, superseded>> /\ Answer(t, "invalid_grant", 0)
             /\ dead' \subseteq dead \cup {f} /\ dead \subseteq dead'
             /\ replayed' \subseteq replayed \cup {f} /\ replayed' \subseteq dead'
    <3>1. HubTypes'
      BY <2>1, <2>2, <2>5, <1>1 DEF HubTypes, Pairs, Logins
    <3>2. PageTypes'
      BY <2>2, <2>5, <1>1, PageSame
    <3>3. /\ flight' \in [Tabs -> Flight] /\ \A u \in Tabs \ {t} : flight'[u] = flight[u]
          /\ flight'[t].stage = "answered" /\ flight'[t].refresh = r
          /\ flight'[t].answer = "invalid_grant"
      BY <2>3, <2>5
    <3>4. FlightFits(flight'[t], family)
      BY <3>3, <2>1 DEF FlightFits, NoFlight, Pairs
    <3>5. TabTypes'
      BY <3>3, <3>4, <2>2, <2>5, <1>1 DEF TabTypes
    <3> QED BY <3>1, <3>2, <3>5 DEF RefreshTypes
  <2>6. CASE UNCHANGED <<family, superseded, dead, replayed>> /\ Answer(t, "error", 0)
    <3>1. HubTypes'
      BY <2>2, <2>6, <1>1 DEF HubTypes, Pairs, Logins
    <3>2. PageTypes'
      BY <2>2, <2>6, <1>1, PageSame
    <3>3. /\ flight' \in [Tabs -> Flight] /\ \A u \in Tabs \ {t} : flight'[u] = flight[u]
          /\ flight'[t].stage = "answered" /\ flight'[t].refresh = r
          /\ flight'[t].answer = "error"
      BY <2>3, <2>6
    <3>4. FlightFits(flight'[t], family)
      BY <3>3, <2>1 DEF FlightFits, NoFlight, Pairs
    <3>5. TabTypes'
      BY <3>3, <3>4, <2>2, <2>6, <1>1 DEF TabTypes
    <3> QED BY <3>1, <3>2, <3>5 DEF RefreshTypes
  <2>7. replayed \subseteq dead
    BY <1>1 DEF HubTypes
  <2> HIDE DEF r, f
  <2> QED BY <1>5, <2>4, <2>5, <2>6, <2>7 DEF HubAnswers, r, f
\* A flight and its callers.
<1>6. ASSUME NEW t \in Tabs, Released(t), UNCHANGED <<hubVars, pageVars>>,
             storage' \in 0..Len(family), lock' \in Tabs \cup {NoTab},
             token' = token \/ \E p \in 0..Len(family) : token' = [token EXCEPT ![t] = p]
      PROVE  RefreshTypes'
  <2>1. /\ flight' \in [Tabs -> Flight] /\ flight'[t] = NoFlight
        /\ \A u \in Tabs \ {t} : flight'[u] = flight[u] /\ caller'[u] = caller[u]
        /\ caller' \in [Tabs -> [Callers -> Caller]]
        /\ \A k \in Callers : caller'[t][k] = IF k \in Joined(t) THEN NoCall ELSE caller[t][k]
    BY <1>1, <1>6, ReleasedKeeps
  <2>2. \A u \in Tabs : FlightFits(flight'[u], family)
    BY <2>1, <1>1, <1>2 DEF TabTypes
  <2>3. \A u \in Tabs, k \in Callers : CallFits(caller'[u][k], family)
    BY <2>1, <1>1, <1>2
  <2>4. token' \in [Tabs -> 0..Len(family)] /\ family' = family
    BY <1>1, <1>6 DEF TabTypes, hubVars
  <2>5. TabTypes'
    BY <2>1, <2>2, <2>3, <2>4, <1>6 DEF TabTypes, CallFits
  <2> QED BY <2>5, <1>1, <1>6, TabsKeepTypes DEF PageTypes, pageVars
<1>7. ASSUME NEW t \in Tabs, LockGranted(t) PROVE RefreshTypes'
  <2>1. CASE Succeed(t, storage) /\ storage # 0
    <3>1. storage \in 0..Len(family) /\ lock' \in Tabs \cup {NoTab} /\ storage' = storage
      BY <2>1, <1>1, <1>7 DEF Succeed, TabTypes, LockGranted
    <3> QED BY <3>1, <2>1, <1>6, <1>7 DEF Succeed, LockGranted
  <2>2. CASE lock' = t /\ flight' = [flight EXCEPT ![t].stage = "sent"] /\ UNCHANGED <<token, caller>>
    <3>1. /\ flight' \in [Tabs -> Flight] /\ \A u \in Tabs \ {t} : flight'[u] = flight[u]
          /\ flight'[t].stage = "sent" /\ flight'[t].refresh = flight[t].refresh
          /\ flight'[t].answer = flight[t].answer /\ flight'[t].pair = flight[t].pair
      BY <2>2, <1>1 DEF TabTypes, Flight
    <3>2. FlightFits(flight[t], family) /\ flight[t].stage = "lock"
      BY <1>1, <1>7 DEF TabTypes, LockGranted
    <3>3. FlightFits(flight'[t], family)
      BY <3>1, <3>2 DEF FlightFits, NoFlight
    <3>4. UNCHANGED <<hubVars, pageVars, storage>>
      BY <1>7 DEF LockGranted
    <3>5. TabTypes'
      BY <3>1, <3>3, <3>4, <2>2, <1>1 DEF TabTypes, hubVars
    <3> QED BY <3>4, <3>5, <1>1, TabsKeepTypes DEF PageTypes, pageVars
  <2> QED BY <2>1, <2>2, <1>7 DEF LockGranted
<1>8. ASSUME NEW t \in Tabs, Exchanged(t) PROVE RefreshTypes'
  <2>1. flight[t].answer = "pair" => flight[t].pair \in 0..Len(family)
    BY <1>1 DEF TabTypes, FlightFits
  <2>2. 0 \in 0..Len(family) /\ storage \in 0..Len(family) /\ lock \in Tabs \cup {NoTab}
    BY <1>1 DEF TabTypes
  <2>3. /\ Released(t) /\ lock' \in Tabs \cup {NoTab} /\ storage' \in 0..Len(family)
        /\ token' = token \/ \E p \in 0..Len(family) : token' = [token EXCEPT ![t] = p]
    BY <2>1, <2>2, <1>8 DEF Exchanged, Succeed, Fail
  <2> QED BY <2>3, <1>6, <1>8 DEF Exchanged
\* A request.
<1>9. ASSUME NEW t \in Tabs, GetClient(t) PROVE RefreshTypes'
  <2>1. token' \in [Tabs -> 0..Len(family)]
    BY <1>1, <1>9 DEF GetClient, TabTypes
  <2>2. TabTypes'
    BY <2>1, <1>1, <1>9 DEF GetClient, TabTypes, hubVars
  <2> QED BY <2>2, <1>1, <1>9, TabsKeepTypes DEF PageTypes, pageVars, GetClient
<1>10. ASSUME NEW t \in Tabs, NEW k \in Callers, NEW c, CallFits(c, family),
              caller' = [caller EXCEPT ![t][k] = c],
              UNCHANGED <<hubVars, pageVars, storage, lock, token, flight>>
       PROVE  RefreshTypes'
  <2>1. c \in Caller
    BY <1>10 DEF CallFits
  <2>2. /\ caller' \in [Tabs -> [Callers -> Caller]] /\ caller'[t][k] = c
        /\ \A u \in Tabs, j \in Callers : u # t \/ j # k => caller'[u][j] = caller[u][j]
    BY <2>1, <1>1, <1>10, CallChanges
  <2>3. \A u \in Tabs, j \in Callers : CallFits(caller'[u][j], family)
    BY <2>2, <1>1, <1>10
  <2>4. TabTypes'
    BY <2>2, <2>3, <1>1, <1>10 DEF TabTypes, CallFits, hubVars
  <2> QED BY <2>4, <1>1, <1>10, TabsKeepTypes DEF PageTypes, pageVars
<1>11. ASSUME NEW t \in Tabs, NEW k \in Callers, Request(t, k) PROVE RefreshTypes'
  <2> DEFINE c == [stage |-> "asked", pair |-> token[t]]
  <2>1. token[t] \in 1..Len(family)
    BY <1>1, <1>11 DEF Request, TabTypes
  <2>2. CallFits(c, family)
    BY <2>1 DEF CallFits, Caller, NoCall
  <2>3. caller' = [caller EXCEPT ![t][k] = c]
    BY <1>11 DEF Request
  <2> HIDE DEF c
  <2> QED BY <2>2, <2>3, <1>10, <1>11 DEF Request
<1>12. ASSUME NEW t \in Tabs, NEW k \in Callers, NEW r \in Pairs, JoinOrStart(t, k, r),
              UNCHANGED <<hubVars, signin, dcr, raced, orphaned, storage, lock, token>>,
              seeded' \in [Tabs -> 0..clients]
       PROVE  RefreshTypes'
  <2>1. /\ flight' \in [Tabs -> Flight] /\ \A u \in Tabs : FlightFits(flight'[u], family)
        /\ caller' \in [Tabs -> [Callers -> Caller]]
        /\ caller'[t][k] = [NoCall EXCEPT !.stage = "joined"]
        /\ \A u \in Tabs, j \in Callers : u # t \/ j # k => caller'[u][j] = caller[u][j]
    BY <1>1, <1>12, JoinOrStartKeeps
  <2>2. CallFits([NoCall EXCEPT !.stage = "joined"], family)
    BY DEF CallFits, NoCall, Caller
  <2>3. \A u \in Tabs, j \in Callers : CallFits(caller'[u][j], family)
    BY <2>1, <2>2, <1>1
  <2>4. TabTypes'
    BY <2>1, <2>3, <1>1, <1>12 DEF TabTypes, CallFits, hubVars
  <2> QED BY <2>4, <1>12, TabsKeepTypes
<1>13. ASSUME NEW t \in Tabs, NEW k \in Callers, Answered(t, k) PROVE RefreshTypes'
  <2>1. UNCHANGED <<hubVars, pageVars, storage, lock, token>>
    BY <1>13 DEF Answered
  <2>2. CASE Finish(t, k) /\ UNCHANGED flight
    BY <2>1, <2>2, <1>2, <1>10 DEF Finish
  <2>3. CASE storage # 0 /\ JoinOrStart(t, k, storage)
    <3>1. storage \in Pairs /\ seeded' \in [Tabs -> 0..clients]
      BY <2>1, <2>3, <1>1 DEF TabTypes, Pairs, PageTypes, pageVars
    <3> QED BY <3>1, <2>1, <2>3, <1>12 DEF pageVars
  <2>4. CASE /\ storage # 0 /\ UNCHANGED flight
             /\ caller' = [caller EXCEPT ![t][k] = [stage |-> "seeding", pair |-> storage]]
    <3> DEFINE c == [stage |-> "seeding", pair |-> storage]
    <3>1. CallFits(c, family)
      BY <2>4, <1>1 DEF CallFits, Caller, NoCall, TabTypes
    <3>2. caller' = [caller EXCEPT ![t][k] = c]
      BY <2>4
    <3> HIDE DEF c
    <3> QED BY <3>1, <3>2, <2>1, <2>4, <1>10
  <2> QED BY <2>2, <2>3, <2>4, <1>13 DEF Answered
<1>14. ASSUME NEW t \in Tabs, NEW k \in Callers, Seeded(t, k) PROVE RefreshTypes'
  <2>1. UNCHANGED <<hubVars, signin, dcr, raced, orphaned, storage, lock, token>>
    BY <1>14 DEF Seeded
  <2>2. CASE seeded' = [seeded EXCEPT ![t] = dcr] /\ JoinOrStart(t, k, caller[t][k].pair)
    <3>1. caller[t][k].pair \in Pairs
      BY <1>1, <1>14 DEF Seeded, CallFits, Pairs
    <3>2. seeded' \in [Tabs -> 0..clients]
      BY <2>2, <1>1 DEF PageTypes
    <3> QED BY <3>1, <3>2, <2>1, <2>2, <1>12
  <2>3. CASE Finish(t, k) /\ UNCHANGED <<seeded, flight>>
    BY <2>1, <2>3, <1>2, <1>10 DEF Finish, pageVars
  <2> QED BY <2>2, <2>3, <1>14 DEF Seeded
\* Signing in and out.
<1>15. ASSUME NEW t \in Tabs, Reload(t) PROVE RefreshTypes'
  <2>1. NoSignin \in Signin /\ NoSignin.at = "no"
    BY DEF NoSignin, Signin
  <2> QED BY <2>1, <1>1, <1>15, LeavingKeepsTypes DEF Reload, PageTypes
<1>16. ASSUME NEW t \in Tabs, NEW id, Departs(t, id), UNCHANGED storage, raced' \in BOOLEAN,
              clients' \in {clients, clients + 1}, dcr' \in 0..clients', id \in 1..clients'
       PROVE  RefreshTypes'
  <2> DEFINE s == [at |-> "away", client |-> id]
  <2>1. id \in Nat
    BY <1>1, <1>16 DEF HubTypes
  <2>2. s \in Signin /\ s.client = id
    BY <2>1 DEF Signin
  <2>3. signin' = [signin EXCEPT ![t] = s] /\ seeded' = [seeded EXCEPT ![t] = 0] /\ Unload(t)
    BY <1>16 DEF Departs
  <2> HIDE DEF s
  <2> QED BY <2>2, <2>3, <1>16, LeavingKeepsTypes
<1>17. ASSUME NEW t \in Tabs, NEW at \in {"no", "finding", "registering"}, Stays(t, at),
              UNCHANGED <<dcr, raced, storage>>
       PROVE  RefreshTypes'
  <2>1. HubTypes'
    BY <1>1, <1>17 DEF Stays, HubTypes, hubVars, Pairs, Logins
  <2>2. PageTypes'
    BY <1>1, <1>17, SigninChanges DEF Stays, hubVars
  <2>3. TabTypes'
    BY <1>1, <1>17 DEF Stays, TabTypes, hubVars
  <2> QED BY <2>1, <2>2, <2>3 DEF RefreshTypes
<1>18. ASSUME NEW t \in Tabs, Login(t) PROVE RefreshTypes'
  <2>1. UNCHANGED <<dcr, raced, storage>> /\ dcr \in 0..clients /\ raced \in BOOLEAN
    BY <1>1, <1>18 DEF Login, PageTypes
  <2>2. CASE seeded[t] # 0 /\ Departs(t, seeded[t]) /\ UNCHANGED clients
    <3>1. seeded[t] \in 1..clients'
      BY <2>2, <1>1 DEF PageTypes, HubTypes
    <3> QED BY <3>1, <2>1, <2>2, <1>16
  <2>3. CASE Stays(t, "finding")
    BY <2>1, <2>3, <1>17
  <2> QED BY <2>2, <2>3, <1>18 DEF Login
<1>19. ASSUME NEW t \in Tabs, Finds(t) PROVE RefreshTypes'
  <2>1. UNCHANGED <<dcr, raced, storage>> /\ dcr \in 0..clients /\ raced \in BOOLEAN
    BY <1>1, <1>19 DEF Finds, PageTypes
  <2>2. CASE dcr # 0 /\ Departs(t, dcr) /\ UNCHANGED clients
    <3>1. dcr \in 1..clients'
      BY <2>1, <2>2, <1>1 DEF HubTypes
    <3> QED BY <3>1, <2>1, <2>2, <1>16
  <2>3. CASE Stays(t, "registering")
    BY <2>1, <2>3, <1>17
  <2> QED BY <2>2, <2>3, <1>19 DEF Finds
<1>20. ASSUME NEW t \in Tabs, Registers(t) PROVE RefreshTypes'
  <2>1. clients \in Nat /\ raced \in BOOLEAN
    BY <1>1 DEF HubTypes, PageTypes
  <2>2. raced' \in BOOLEAN
    BY <2>1, <1>20 DEF Registers
  <2> QED BY <2>1, <2>2, <1>16, <1>20 DEF Registers
<1>21. ASSUME NEW t \in Tabs, LoginFails(t) PROVE RefreshTypes'
  BY <1>17, <1>21 DEF LoginFails
<1>22. ASSUME NEW t \in Tabs, Returns(t) PROVE RefreshTypes'
  <2>1. UNCHANGED <<hubVars, dcr, raced, orphaned, storage, lock, token, flight, caller>>
    BY <1>22 DEF Returns
  <2>2. HubTypes'
    BY <1>1, <2>1 DEF HubTypes, hubVars, Pairs, Logins
  <2>3. TabTypes'
    BY <1>1, <2>1 DEF TabTypes, hubVars
  <2>4. seeded' \in [Tabs -> 0..clients]
    BY <1>1, <1>22 DEF Returns, PageTypes
  <2>5. /\ signin' \in [Tabs -> Signin] /\ \A u \in Tabs \ {t} : signin'[u] = signin[u]
        /\ signin'[t].client = signin[t].client /\ signin[t].at = "away"
    BY <1>1, <1>22 DEF Returns, PageTypes, Signin
  <2>6. \A u \in Tabs : SigninFits(signin'[u])
    BY <1>1, <2>5 DEF PageTypes, SigninFits
  <2>7. PageTypes'
    BY <1>1, <2>1, <2>4, <2>5, <2>6 DEF PageTypes, SigninFits, hubVars, Pairs
  <2> QED BY <2>2, <2>3, <2>7 DEF RefreshTypes
<1>23. ASSUME NEW t \in Tabs, HandleCallback(t) PROVE RefreshTypes'
  <2> DEFINE new == Len(family) + 1
  <2>1. UNCHANGED <<superseded, dead, replayed, expired, revoked, clients, seeded, dcr, raced,
                    orphaned, lock, token, flight, caller>>
        /\ signin' = [signin EXCEPT ![t] = NoSignin]
    BY <1>23 DEF HandleCallback
  <2>2. signin[t].client \in 1..clients
    BY <1>1, <1>23 DEF HandleCallback, PageTypes, SigninFits
  <2>3. NoSignin \in Signin /\ NoSignin.at = "no"
    BY DEF NoSignin, Signin
  <2>4. signin' \in [Tabs -> Signin] /\ \A u \in Tabs : signin'[u] \in {signin[u], NoSignin}
    BY <1>1, <2>1, <2>3 DEF PageTypes
  <2>5. \A u \in Tabs : SigninFits(signin'[u])
    BY <1>1, <2>3, <2>4 DEF PageTypes, SigninFits
  <2>6. CASE UNCHANGED <<family, client_id, storage>>
    <3>1. HubTypes' /\ TabTypes'
      BY <1>1, <2>1, <2>6 DEF HubTypes, Pairs, Logins, TabTypes
    <3>2. PageTypes'
      BY <1>1, <2>1, <2>4, <2>5, <2>6 DEF PageTypes, SigninFits, Pairs
    <3> QED BY <3>1, <3>2 DEF RefreshTypes
  <2>7. CASE /\ family' = Append(family, new) /\ storage' = new
             /\ client_id' = [f \in Logins \cup {new} |->
                               IF f = new THEN signin[t].client ELSE client_id[f]]
    <3>1. new \in 1..(Len(family) + 1)
      BY <1>1
    <3>2. /\ family' \in Seq(Nat) /\ Len(family') = Len(family) + 1
          /\ \A p \in Pairs : family'[p] = family[p]
          /\ \A p \in Pairs' : family'[p] \in 1..p /\ family'[family'[p]] = family'[p]
          /\ Pairs \subseteq Pairs' /\ Logins' = Logins \cup {new}
      BY <3>1, <2>7, <1>1, FamilyGrows
    <3>3. client_id' \in [Logins' -> 1..clients]
      BY <3>2, <2>2, <2>7, <1>1 DEF HubTypes
    <3>4. HubTypes'
      BY <3>2, <3>3, <2>1, <1>1 DEF HubTypes
    <3>5. PageTypes'
      BY <3>2, <2>1, <2>4, <2>5, <1>1 DEF PageTypes, SigninFits
    <3>6. \A u \in Tabs : FlightFits(flight[u], family')
      BY <3>2, <1>1, FitsLater DEF TabTypes
    <3>7. \A u \in Tabs, k \in Callers : CallFits(caller[u][k], family')
      BY <3>2, <1>1 DEF CallFits
    <3>8. /\ storage' \in 0..Len(family') /\ lock' \in Tabs \cup {NoTab}
          /\ token' \in [Tabs -> 0..Len(family')] /\ caller' = caller /\ flight' = flight
      BY <3>2, <2>1, <2>7, <1>1 DEF TabTypes
    <3>9. TabTypes'
      BY <3>6, <3>7, <3>8, <1>1 DEF TabTypes, CallFits
    <3> QED BY <3>4, <3>5, <3>9 DEF RefreshTypes
  <2> QED BY <2>6, <2>7, <1>23 DEF HandleCallback
<1>24. ASSUME NEW t \in Tabs, Logout(t) PROVE RefreshTypes'
  <2>1. UNCHANGED <<hubVars, pageVars, lock, token, flight, caller>> /\ storage' = 0
    BY <1>24 DEF Logout
  <2>2. TabTypes'
    BY <2>1, <1>1 DEF TabTypes, hubVars
  <2> QED BY <2>1, <2>2, <1>1, TabsKeepTypes DEF PageTypes, pageVars
<1>25. CASE UNCHANGED vars
  <2>1. TabTypes'
    BY <1>25, <1>1 DEF TabTypes, vars, hubVars
  <2> QED BY <2>1, <1>25, <1>1, TabsKeepTypes DEF PageTypes, pageVars, vars
<1>26. ASSUME NEW t \in Tabs, AnswerLost(t) PROVE RefreshTypes'
  <2> DEFINE r == flight[t].refresh
             f == family[r]
             e == [flight[t] EXCEPT !.stage = "answered", !.answer = "error", !.pair = 0]
  <2>1. flight[t].stage = "sent" /\ r \in Pairs /\ f \in Pairs
    BY <1>26, <1>1 DEF AnswerLost, TabTypes, FlightFits, HubTypes, Pairs
  <2>2. /\ UNCHANGED <<family, expired, revoked, client_id, clients, seeded, signin, dcr, raced,
                       storage, lock, token, caller>>
        /\ superseded' \subseteq superseded \cup {r} /\ orphaned' \subseteq orphaned \cup {f}
        /\ dead' \subseteq dead \cup {f} /\ replayed' \subseteq replayed \cup {f}
    BY <1>26 DEF AnswerLost
  <2>3. replayed' \subseteq dead'
    BY <1>26, <1>1 DEF AnswerLost, HubTypes
  <2>4. flight' = [flight EXCEPT ![t] = e]
    BY <1>26 DEF AnswerLost, Answer
  <2>5. e \in Flight /\ e.stage = "answered" /\ e.refresh = r /\ e.answer = "error"
    <3>1. flight[t] \in Flight /\ 0 \in Nat
      BY <1>1 DEF TabTypes
    <3> QED BY <3>1 DEF Flight
  <2>6. FlightFits(e, family)
    BY <2>1, <2>5 DEF FlightFits, NoFlight, Pairs
  <2>7. HubTypes'
    BY <2>1, <2>2, <2>3, <1>1 DEF HubTypes, Pairs, Logins
  <2>8. PageTypes'
    BY <2>1, <2>2, <1>1 DEF PageTypes, SigninFits, Pairs
  <2> HIDE DEF e, r, f
  <2>9. TabTypes'
    BY <2>2, <2>4, <2>5, <2>6, <1>1 DEF TabTypes
  <2> QED BY <2>7, <2>8, <2>9 DEF RefreshTypes
<1> QED BY <1>3, <1>4, <1>5, <1>7, <1>8, <1>9, <1>11, <1>13, <1>14, <1>15, <1>18, <1>19, <1>20,
           <1>21, <1>22, <1>23, <1>24, <1>25, <1>26 DEF Next

-----------------------------------------------------------------------------
(* Nobody waits in vain.                                                   *)

\* A tab's callers wait for the flight that is there; the lock is held on the wire.
ServedIn(t) == Joined(t) # {} <=> flight[t].stage # "none"
OnWire(t) == flight[t].stage \in {"sent", "answered"}

LEMMA ServedParts ==
  WaitersAreServed <=> (\A t \in Tabs : ServedIn(t)) /\ (lock # NoTab => OnWire(lock))
BY DEF WaitersAreServed, ServedIn, OnWire

LEMMA StepServes == RefreshTypes /\ WaitersAreServed /\ [Next]_vars => WaitersAreServed'
<1> SUFFICES ASSUME RefreshTypes, WaitersAreServed, [Next]_vars PROVE WaitersAreServed'
  OBVIOUS
<1>0. TabTypes
  BY DEF RefreshTypes
<1>1. /\ TabTypes /\ \A t \in Tabs : ServedIn(t)
      /\ lock # NoTab => lock \in Tabs /\ OnWire(lock)
      /\ NoTab \notin Tabs /\ flight \in [Tabs -> Flight]
      /\ \A t \in Tabs : flight[t].stage = "none" <=> flight[t] = NoFlight
      /\ \A t \in Tabs, k \in Callers : caller[t][k].stage = "idle" <=> caller[t][k] = NoCall
      /\ NoFlight.stage = "none" /\ NoCall.stage = "idle"
  BY ServedParts, ConstantsAssumption
     DEF RefreshTypes, TabTypes, FlightFits, NoFlight, NoCall
\* Enough for a step that leaves the other tabs alone.
<1>2. ASSUME NEW t \in Tabs,
             \A u \in Tabs \ {t} : /\ flight'[u].stage = flight[u].stage
                                   /\ \A k \in Callers : caller'[u][k] = caller[u][k],
             (Joined(t) # {})' <=> flight'[t].stage # "none",
             \/ lock' = lock /\ (OnWire(t) => flight'[t].stage \in {"sent", "answered"})
             \/ lock' = NoTab
             \/ lock' = lock /\ lock # t
             \/ lock' = t /\ flight'[t].stage \in {"sent", "answered"}
      PROVE  WaitersAreServed'
  <2>1. \A u \in Tabs : ServedIn(u)'
    <3>1. \A u \in Tabs \ {t} : Joined(u)' = Joined(u)
      BY <1>2 DEF Joined
    <3> QED BY <1>1, <1>2, <3>1 DEF ServedIn
  <2>2. lock' # NoTab => OnWire(lock)'
    BY <1>1, <1>2 DEF OnWire
  <2> QED BY <2>1, <2>2 DEF WaitersAreServed, ServedIn, OnWire
<1>3. ASSUME UNCHANGED <<flight, caller, lock>> PROVE WaitersAreServed'
  BY <1>3 DEF WaitersAreServed, Joined
<1>4. ASSUME NEW t \in Tabs, HubAnswers(t) \/ AnswerLost(t) PROVE WaitersAreServed'
  <2>1. \A u \in Tabs \ {t} : flight'[u] = flight[u]
    BY <1>1, <1>4 DEF HubAnswers, AnswerLost, Answer
  <2>2. flight'[t].stage = "answered" /\ flight[t].stage = "sent"
    BY <1>1, <1>4 DEF HubAnswers, AnswerLost, Answer, Flight
  <2>3. caller' = caller /\ lock' = lock /\ Joined(t)' = Joined(t)
    BY <1>4 DEF HubAnswers, AnswerLost, Joined
  <2> QED BY <1>1, <1>2, <2>1, <2>2, <2>3 DEF ServedIn
\* The flight is over for all its callers, and the lock is given up.
<1>5. ASSUME NEW t \in Tabs, Released(t), lock' = IF lock = t THEN NoTab ELSE lock
      PROVE  WaitersAreServed'
  <2>1. /\ flight'[t] = NoFlight
        /\ \A u \in Tabs \ {t} : flight'[u] = flight[u] /\ caller'[u] = caller[u]
        /\ \A k \in Callers : caller'[t][k] = IF k \in Joined(t) THEN NoCall ELSE caller[t][k]
    BY <1>1, <1>5, ReleasedKeeps
  <2>2. Joined(t)' = {}
    BY <1>1, <2>1 DEF Joined
  <2> QED BY <1>1, <1>2, <1>5, <2>1, <2>2
<1>6. ASSUME NEW t \in Tabs, LockGranted(t) PROVE WaitersAreServed'
  <2>1. CASE Succeed(t, storage)
    BY <2>1, <1>5 DEF Succeed
  <2>2. CASE lock' = t /\ flight' = [flight EXCEPT ![t].stage = "sent"] /\ UNCHANGED <<token, caller>>
    <3>1. flight'[t].stage = "sent" /\ \A u \in Tabs \ {t} : flight'[u] = flight[u]
      BY <2>2, <1>1 DEF Flight
    <3>2. Joined(t)' = Joined(t) /\ flight[t].stage = "lock"
      BY <2>2, <1>6 DEF Joined, LockGranted
    <3> QED BY <3>1, <3>2, <2>2, <1>1, <1>2 DEF ServedIn
  <2> QED BY <2>1, <2>2, <1>6 DEF LockGranted
<1>7. ASSUME NEW t \in Tabs, Exchanged(t) PROVE WaitersAreServed'
  BY <1>5, <1>7 DEF Exchanged, Succeed, Fail
<1>8. ASSUME NEW t \in Tabs, NEW k \in Callers, NEW c \in Caller,
             caller[t][k].stage # "joined", c.stage # "joined",
             caller' = [caller EXCEPT ![t][k] = c], UNCHANGED <<flight, lock>>
      PROVE  WaitersAreServed'
  <2>1. /\ caller' \in [Tabs -> [Callers -> Caller]] /\ caller'[t][k] = c
        /\ \A u \in Tabs, j \in Callers : u # t \/ j # k => caller'[u][j] = caller[u][j]
    BY <1>0, <1>8 DEF TabTypes
  <2>2. Joined(t)' = Joined(t)
    BY <2>1, <1>8 DEF Joined
  <2>3. ServedIn(t)
    BY <1>1
  <2>4. \A u \in Tabs \ {t} : flight'[u] = flight[u] /\ \A j \in Callers : caller'[u][j] = caller[u][j]
    BY <2>1, <1>8
  <2>5. (Joined(t)' # {} <=> flight'[t].stage # "none") /\ lock' = lock /\ flight' = flight
    BY <2>2, <2>3, <1>8 DEF ServedIn
  <2> QED BY <1>2, <2>4, <2>5 DEF OnWire
<1>9. ASSUME NEW t \in Tabs, NEW k \in Callers, NEW r \in Pairs, JoinOrStart(t, k, r), lock' = lock
      PROVE  WaitersAreServed'
  <2>1. /\ \A u \in Tabs \ {t} : flight'[u] = flight[u]
        /\ flight'[t].stage # "none"
        /\ flight[t] # NoFlight => flight' = flight
        /\ caller'[t][k] = [NoCall EXCEPT !.stage = "joined"]
        /\ \A u \in Tabs, j \in Callers : u # t \/ j # k => caller'[u][j] = caller[u][j]
    BY <1>1, <1>9, JoinOrStartKeeps
  <2>2. caller'[t][k].stage = "joined"
    BY <2>1 DEF NoCall
  <2>3. k \in Joined(t)'
    BY <2>2 DEF Joined
  <2>4. OnWire(t) => flight'[t].stage \in {"sent", "answered"}
    BY <2>1, <1>1 DEF OnWire
  <2> QED BY <1>2, <1>9, <2>1, <2>3, <2>4
<1>10. ASSUME NEW t \in Tabs, NEW k \in Callers, Request(t, k) PROVE WaitersAreServed'
  <2> DEFINE c == [stage |-> "asked", pair |-> token[t]]
  <2>1. c \in Caller /\ c.stage = "asked" /\ caller[t][k].stage = "idle"
    BY <1>1, <1>10 DEF Request, TabTypes, Caller
  <2>2. caller' = [caller EXCEPT ![t][k] = c] /\ UNCHANGED <<flight, lock>>
    BY <1>10 DEF Request
  <2> HIDE DEF c
  <2> QED BY <2>1, <2>2, <1>8
<1>11. ASSUME NEW t \in Tabs, NEW k \in Callers, Finish(t, k), UNCHANGED <<flight, lock>>,
              caller[t][k].stage # "joined"
       PROVE  WaitersAreServed'
  <2>1. NoCall \in Caller /\ NoCall.stage # "joined"
    BY DEF NoCall, Caller
  <2> QED BY <2>1, <1>8, <1>11 DEF Finish
<1>12. ASSUME NEW t \in Tabs, NEW k \in Callers, Answered(t, k) PROVE WaitersAreServed'
  <2>1. lock' = lock /\ caller[t][k].stage = "asked"
    BY <1>12 DEF Answered
  <2>2. CASE Finish(t, k) /\ UNCHANGED flight
    BY <2>1, <2>2, <1>11
  <2>3. CASE storage # 0 /\ JoinOrStart(t, k, storage)
    <3>1. storage \in Pairs
      BY <2>3, <1>1 DEF TabTypes, Pairs
    <3> QED BY <3>1, <2>1, <2>3, <1>9
  <2>4. CASE /\ storage # 0 /\ UNCHANGED flight
             /\ caller' = [caller EXCEPT ![t][k] = [stage |-> "seeding", pair |-> storage]]
    <3> DEFINE c == [stage |-> "seeding", pair |-> storage]
    <3>1. c \in Caller /\ c.stage = "seeding"
      BY <1>1 DEF Caller, TabTypes
    <3>2. caller' = [caller EXCEPT ![t][k] = c]
      BY <2>4
    <3> HIDE DEF c
    <3> QED BY <3>1, <3>2, <2>1, <2>4, <1>8
  <2> QED BY <2>2, <2>3, <2>4, <1>12 DEF Answered
<1>13. ASSUME NEW t \in Tabs, NEW k \in Callers, Seeded(t, k) PROVE WaitersAreServed'
  <2>1. lock' = lock /\ caller[t][k].stage = "seeding"
    BY <1>13 DEF Seeded
  <2>2. CASE JoinOrStart(t, k, caller[t][k].pair)
    <3>1. caller[t][k].pair \in Pairs
      BY <2>1, <1>1 DEF TabTypes, Pairs
    <3> QED BY <3>1, <2>1, <2>2, <1>9
  <2>3. CASE Finish(t, k) /\ UNCHANGED <<seeded, flight>>
    BY <2>1, <2>3, <1>11
  <2> QED BY <2>2, <2>3, <1>13 DEF Seeded
\* A page that is gone takes its callers, its flight and its lock along.
<1>14. ASSUME NEW t \in Tabs, Unload(t) PROVE WaitersAreServed'
  <2>1. /\ flight'[t] = NoFlight /\ \A k \in Callers : caller'[t][k] = NoCall
        /\ \A u \in Tabs \ {t} : flight'[u] = flight[u] /\ caller'[u] = caller[u]
        /\ lock' = (IF lock = t THEN NoTab ELSE lock)
    BY <1>14, UnloadKeeps
  <2>2. Joined(t)' = {}
    BY <1>1, <2>1 DEF Joined
  <2> QED BY <1>1, <1>2, <2>1, <2>2
<1>15. ASSUME NEW t \in Tabs,
              \/ Login(t) \/ Finds(t) \/ Registers(t) \/ LoginFails(t) \/ Returns(t)
              \/ HandleCallback(t) \/ GetClient(t) \/ Logout(t) \/ Reload(t)
       PROVE  WaitersAreServed'
  BY <1>3, <1>14, <1>15 DEF Login, Finds, Registers, LoginFails, Returns, HandleCallback,
                            GetClient, Logout, Reload, Departs, Stays
<1>16. ASSUME NEW p \in Pairs, Expire(p) \/ Condemn(p) PROVE WaitersAreServed'
  BY <1>3, <1>16 DEF Expire, Condemn
<1>17. CASE UNCHANGED vars
  BY <1>3, <1>17 DEF vars
<1> QED BY <1>4, <1>6, <1>7, <1>10, <1>12, <1>13, <1>15, <1>16, <1>17 DEF Next

-----------------------------------------------------------------------------
(* One client for the surface.                                             *)

LEMMA StepOneClient == RefreshTypes /\ OneClient /\ [Next]_vars => OneClient'
<1> SUFFICES ASSUME RefreshTypes, OneClient, [Next]_vars PROVE OneClient'
  OBVIOUS
<1>1. /\ HubTypes /\ PageTypes /\ Len(family) \in Nat /\ clients \in Nat /\ dcr \in Nat
      /\ seeded \in [Tabs -> Nat] /\ signin \in [Tabs -> Signin] /\ raced \in BOOLEAN
      /\ \A t \in Tabs : signin[t].at \in {"away", "exchanging"} => signin[t].client # 0
  BY DEF RefreshTypes, HubTypes, PageTypes, SigninFits
<1>2. ASSUME UNCHANGED <<family, client_id, clients, dcr, raced, seeded, signin>> PROVE OneClient'
  BY <1>2 DEF OneClient, Logins, Pairs
\* Of the pages, only one changes, and its part stays as it must be.
<1>3. ASSUME NEW t \in Tabs, UNCHANGED <<family, client_id, clients, dcr>>, raced => raced',
             \A u \in Tabs \ {t} : seeded'[u] = seeded[u] /\ signin'[u] = signin[u],
             raced' \/ seeded'[t] \in {0, seeded[t], dcr},
             signin'[t].at \in {"away", "exchanging"} =>
               dcr # 0 /\ (raced' \/ signin'[t].client = dcr),
             signin'[t].at = "registering" => raced' \/ dcr = 0
      PROVE  OneClient'
  <2>1. Logins' = Logins
    BY <1>3 DEF Logins, Pairs
  <2>2. raced' \/ \A f \in Logins' : client_id'[f] = dcr'
    BY <2>1, <1>3 DEF OneClient
  <2>3. raced' \/ \A u \in Tabs : /\ seeded'[u] \in {0, dcr'}
                                  /\ signin'[u].at \in {"away", "exchanging"} => signin'[u].client = dcr'
                                  /\ signin'[u].at = "registering" => dcr' = 0
    BY <1>3 DEF OneClient
  <2>4. dcr' = 0 => clients' = 0 /\ family' = <<>>
                    /\ \A u \in Tabs : signin'[u].at \notin {"away", "exchanging"}
    BY <1>3 DEF OneClient
  <2> QED BY <2>2, <2>3, <2>4 DEF OneClient
<1>4. ASSUME NEW t \in Tabs, Departs(t, dcr), dcr # 0, UNCHANGED <<clients, dcr, raced>>
      PROVE  OneClient'
  <2>1. UNCHANGED <<family, client_id>>
    BY <1>4 DEF Departs, Unload
  <2>2. /\ seeded'[t] = 0 /\ signin'[t].at = "away" /\ signin'[t].client = dcr
        /\ \A u \in Tabs \ {t} : seeded'[u] = seeded[u] /\ signin'[u] = signin[u]
    BY <1>1, <1>4 DEF Departs
  <2> QED BY <1>3, <1>4, <2>1, <2>2
<1>5. ASSUME NEW t \in Tabs, NEW at \in {"no", "finding", "registering"}, Stays(t, at),
             UNCHANGED <<dcr, raced>>, at = "registering" => dcr = 0
      PROVE  OneClient'
  <2>1. UNCHANGED <<family, client_id, clients, seeded>>
    BY <1>5 DEF Stays, hubVars
  <2>2. signin'[t].at = at /\ \A u \in Tabs \ {t} : signin'[u] = signin[u]
    BY <1>1, <1>5 DEF Stays, Signin
  <2> QED BY <1>3, <1>5, <2>1, <2>2
<1>6. ASSUME NEW t \in Tabs, Login(t) PROVE OneClient'
  <2>1. CASE seeded[t] # 0 /\ Departs(t, seeded[t])
    <3>1. UNCHANGED <<family, client_id, clients, dcr, raced>>
      BY <2>1, <1>6 DEF Login, Departs, Unload, Stays, hubVars
    <3>2. /\ seeded'[t] = 0 /\ signin'[t].at = "away" /\ signin'[t].client = seeded[t]
          /\ \A u \in Tabs \ {t} : seeded'[u] = seeded[u] /\ signin'[u] = signin[u]
      BY <2>1, <1>1 DEF Departs
    <3>3. dcr # 0
      <4>1. seeded[t] \in 0..clients
        BY <1>1 DEF PageTypes
      <4> QED BY <4>1, <2>1, <1>1 DEF OneClient
    <3> QED BY <3>1, <3>2, <3>3, <2>1, <1>3 DEF OneClient
  <2>2. CASE Stays(t, "finding")
    BY <2>2, <1>5, <1>6 DEF Login
  <2> QED BY <2>1, <2>2, <1>6 DEF Login
<1>7. ASSUME NEW t \in Tabs, Finds(t) PROVE OneClient'
  BY <1>4, <1>5, <1>7 DEF Finds
\* A registration while another tab registers is a race; the first one of all finds no
\* session and nobody on the hub's pages.
<1>8. ASSUME NEW t \in Tabs, Registers(t) PROVE OneClient'
  <2>1. UNCHANGED <<family, client_id>> /\ dcr' = clients + 1 /\ dcr' # 0 /\ raced \in BOOLEAN
    BY <1>1, <1>8 DEF Registers, Departs, Unload
  <2>2. /\ seeded'[t] = 0 /\ signin'[t].at = "away" /\ signin'[t].client = clients + 1
        /\ \A u \in Tabs \ {t} : seeded'[u] = seeded[u] /\ signin'[u] = signin[u]
    BY <1>1, <1>8 DEF Registers, Departs
  <2>3. CASE raced'
    BY <2>1, <2>3 DEF OneClient
  <2>4. CASE ~raced'
    <3>1. ~raced /\ \A u \in Tabs \ {t} : signin[u].at # "registering"
      BY <2>4, <1>8 DEF Registers
    <3>2. dcr = 0
      BY <3>1, <1>8 DEF OneClient, Registers
    <3>3. family = <<>> /\ \A u \in Tabs : signin[u].at \notin {"away", "exchanging"}
          /\ \A w \in Tabs : seeded[w] = 0
      BY <3>1, <3>2 DEF OneClient
    <3>4. Logins' = {}
      BY <3>3, <2>1 DEF Logins, Pairs
    <3>5. \A u \in Tabs \ {t} : signin'[u].at \notin {"away", "exchanging", "registering"}
                                /\ seeded'[u] = 0
      BY <3>1, <3>3, <2>2
    <3> QED BY <3>4, <3>5, <2>1, <2>2 DEF OneClient
  <2> QED BY <2>3, <2>4
<1>9. ASSUME NEW t \in Tabs, LoginFails(t) PROVE OneClient'
  BY <1>5, <1>9 DEF LoginFails
<1>10. ASSUME NEW t \in Tabs, Returns(t) PROVE OneClient'
  <2>1. UNCHANGED <<family, client_id, clients, dcr, raced>>
    BY <1>10 DEF Returns, hubVars
  <2>2. /\ seeded'[t] = dcr /\ signin'[t].at = "exchanging" /\ signin'[t].client = signin[t].client
        /\ \A u \in Tabs \ {t} : seeded'[u] = seeded[u] /\ signin'[u] = signin[u]
    BY <1>1, <1>10 DEF Returns, Signin
  <2>3. dcr # 0 /\ (raced \/ signin[t].client = dcr)
    BY <1>10 DEF Returns, OneClient
  <2> QED BY <1>3, <2>1, <2>2, <2>3
<1>11. ASSUME NEW t \in Tabs, HandleCallback(t) PROVE OneClient'
  <2> DEFINE new == Len(family) + 1
  <2>1. UNCHANGED <<seeded, dcr, raced>> /\ signin[t].at = "exchanging"
        /\ signin' = [signin EXCEPT ![t] = NoSignin]
    BY <1>11 DEF HandleCallback
  <2>2. dcr # 0 /\ (raced \/ signin[t].client = dcr)
    BY <2>1 DEF OneClient
  <2>3. \A u \in Tabs : signin'[u] = signin[u] \/ signin'[u].at = "no"
    BY <2>1, <1>1 DEF NoSignin
  <2>4. raced \/ \A u \in Tabs : /\ signin'[u].at \in {"away", "exchanging"} => signin'[u].client = dcr
                                 /\ signin'[u].at = "registering" => dcr = 0
    BY <2>3 DEF OneClient
  <2>5. raced \/ \A f \in Logins' : client_id'[f] = dcr
    <3>1. CASE UNCHANGED <<family, client_id>>
      BY <3>1 DEF OneClient, Logins, Pairs
    <3>2. CASE /\ family' = Append(family, new)
               /\ client_id' = [f \in Logins \cup {new} |->
                                 IF f = new THEN signin[t].client ELSE client_id[f]]
      <4>1. new \in 1..(Len(family) + 1)
        BY <1>1
      <4>2. Logins' = Logins \cup {new}
        BY <4>1, <3>2, <1>1, FamilyGrows
      <4> QED BY <4>2, <3>2, <2>2 DEF OneClient
    <3> QED BY <3>1, <3>2, <1>11 DEF HandleCallback
  <2> QED BY <2>1, <2>2, <2>4, <2>5 DEF OneClient
<1>12. ASSUME NEW t \in Tabs, Reload(t) PROVE OneClient'
  <2>1. UNCHANGED <<family, client_id, clients, dcr, raced>>
    BY <1>12 DEF Reload, Unload
  <2>2. /\ seeded'[t] = 0 /\ signin'[t].at = "no"
        /\ \A u \in Tabs \ {t} : seeded'[u] = seeded[u] /\ signin'[u] = signin[u]
    BY <1>1, <1>12 DEF Reload, NoSignin
  <2> QED BY <1>3, <2>1, <2>2
<1>13. ASSUME NEW t \in Tabs, HubAnswers(t) PROVE OneClient'
  <2>1. UNCHANGED <<client_id, seeded, signin, dcr, raced>>
    BY <1>13 DEF HubAnswers, pageVars
  <2>2. Pairs # {} /\ family # <<>> /\ Logins' = Logins
    <3> DEFINE f == family[flight[t].refresh]
    <3>1. flight[t].refresh \in Pairs /\ f \in Pairs /\ family[f] = f
      BY <1>1, <1>13 DEF HubAnswers, RefreshTypes, TabTypes, FlightFits, HubTypes, Pairs
    <3>2. f \in Logins /\ f \in 1..(Len(family) + 1) /\ f # Len(family) + 1
      BY <3>1, <1>1 DEF Logins, Pairs
    <3>3. family' = Append(family, f) => Logins' = Logins
      BY <3>2, <1>1, FamilyGrows
    <3>4. family' = family => Logins' = Logins
      BY DEF Logins, Pairs
    <3>5. family' = family \/ family' = Append(family, f)
      BY <1>13 DEF HubAnswers
    <3>6. family # <<>>
      BY <3>1 DEF Pairs
    <3> QED BY <3>1, <3>3, <3>4, <3>5, <3>6
  <2> QED BY <2>1, <2>2 DEF OneClient
<1>14. ASSUME NEW t \in Tabs, NEW k \in Callers, Seeded(t, k) PROVE OneClient'
  <2>1. UNCHANGED <<family, client_id, clients, signin, dcr, raced>>
    BY <1>14 DEF Seeded, hubVars
  <2>2. seeded' = seeded \/ seeded' = [seeded EXCEPT ![t] = dcr]
    BY <1>14 DEF Seeded
  <2>3. seeded'[t] \in {seeded[t], dcr} /\ \A u \in Tabs \ {t} : seeded'[u] = seeded[u]
    BY <2>2, <1>1
  <2> QED BY <1>3, <2>1, <2>3 DEF OneClient
<1>15. ASSUME NEW t \in Tabs,
              \/ LockGranted(t) \/ Exchanged(t) \/ GetClient(t) \/ Logout(t)
              \/ \E k \in Callers : Request(t, k) \/ Answered(t, k)
       PROVE  OneClient'
  BY <1>2, <1>15 DEF LockGranted, Exchanged, GetClient, Logout, Request, Answered, hubVars, pageVars
<1>16. ASSUME NEW p \in Pairs, Expire(p) \/ Condemn(p) PROVE OneClient'
  BY <1>2, <1>16 DEF Expire, Condemn, pageVars
<1>17. CASE UNCHANGED vars
  BY <1>2, <1>17 DEF vars, hubVars, pageVars
<1>18. ASSUME NEW t \in Tabs, AnswerLost(t) PROVE OneClient'
  BY <1>2, <1>18 DEF AnswerLost
<1> QED BY <1>6, <1>7, <1>8, <1>9, <1>10, <1>11, <1>12, <1>13, <1>14, <1>15, <1>16, <1>17, <1>18 DEF Next

-----------------------------------------------------------------------------
(* The session, where the browser has Web Locks.                           *)

Coming(t) == flight[t].stage = "answered" /\ flight[t].answer = "pair"

LEMMA SessionParts ==
  SessionInv <=>
    /\ \A t \in Tabs : OnWire(t) => lock = t
    /\ \A t \in Tabs : flight[t].stage = "sent" /\ storage # 0 =>
         storage = flight[t].refresh \/ family[storage] # family[flight[t].refresh]
    /\ \A t \in Tabs : Coming(t) =>
         flight[t].pair \notin superseded /\ family[flight[t].pair] \notin replayed
    /\ storage # 0 /\ storage \in superseded /\ family[storage] \notin orphaned =>
         \E t \in Tabs : Coming(t) /\ family[flight[t].pair] = family[storage]
    /\ storage # 0 => family[storage] \notin replayed \ orphaned
BY DEF SessionInv, WireHasLock, ComingPairsAreGood, SuccessorComes, NeverReplayed, OnWire, Coming

LEMMA StepSession ==
  ASSUME WebLocks, RefreshTypes, SessionInv, [Next]_vars
  PROVE  SessionInv'
<1>1. /\ TabTypes /\ HubTypes /\ Len(family) \in Nat /\ NoTab \notin Tabs
      /\ flight \in [Tabs -> Flight] /\ storage \in 0..Len(family)
      /\ NoFlight.stage = "none"
      /\ superseded \subseteq Pairs /\ replayed \subseteq dead /\ orphaned \subseteq Pairs
      /\ \A p \in Pairs : family[p] \in Pairs
      /\ \A t \in Tabs : flight[t].stage # "none" => flight[t].refresh \in Pairs
      /\ \A t \in Tabs : Coming(t) => /\ flight[t].pair \in Pairs
                                      /\ family[flight[t].pair] = family[flight[t].refresh]
  BY ConstantsAssumption
     DEF RefreshTypes, HubTypes, TabTypes, PageTypes, FlightFits, NoFlight, Pairs, Coming
<1>2. /\ \A t \in Tabs : OnWire(t) => lock = t
      /\ \A t \in Tabs : flight[t].stage = "sent" /\ storage # 0 =>
           storage = flight[t].refresh \/ family[storage] # family[flight[t].refresh]
      /\ \A t \in Tabs : Coming(t) =>
           flight[t].pair \notin superseded /\ family[flight[t].pair] \notin replayed
      /\ storage # 0 /\ storage \in superseded /\ family[storage] \notin orphaned =>
           \E t \in Tabs : Coming(t) /\ family[flight[t].pair] = family[storage]
      /\ storage # 0 => family[storage] \notin replayed \ orphaned
      /\ storage # 0 => storage \in Pairs
  BY SessionParts, <1>1 DEF Pairs
<1>3. \A t \in Tabs : Coming(t) => OnWire(t)
  BY DEF Coming, OnWire
\* Nothing of what counts changes: no storage, no lock, and nobody on the wire.
<1>4. ASSUME UNCHANGED <<family, superseded, replayed, storage, lock, orphaned>>,
             \A u \in Tabs : \/ flight'[u] = flight[u]
                             \/ ~OnWire(u) /\ flight'[u].stage \notin {"sent", "answered"}
      PROVE  SessionInv'
  <2>1. \A u \in Tabs : /\ OnWire(u)' => OnWire(u) /\ flight'[u] = flight[u]
                        /\ Coming(u)' => Coming(u) /\ flight'[u] = flight[u]
                        /\ Coming(u) => Coming(u)' /\ flight'[u] = flight[u]
    BY <1>3, <1>4 DEF OnWire, Coming
  <2>2. \A u \in Tabs : flight'[u].stage = "sent" => flight'[u] = flight[u]
    BY <1>4
  <2> QED BY <2>1, <2>2, <1>2, <1>4 DEF SessionInv, WireHasLock, ComingPairsAreGood,
                                        SuccessorComes, NeverReplayed, OnWire, Coming
\* One flight is on the wire, then none is.
<1>5. ASSUME NEW t \in Tabs, HubAnswers(t) PROVE SessionInv'
  <2> DEFINE r == flight[t].refresh
             f == family[r]
  <2>1. /\ flight[t].stage = "sent" /\ OnWire(t) /\ lock = t /\ r \in Pairs /\ f \in Pairs
        /\ \A u \in Tabs \ {t} : ~OnWire(u)
    BY <1>1, <1>2, <1>5 DEF HubAnswers, OnWire
  <2>2. \A u \in Tabs : ~Coming(u)
    BY <2>1, <1>3 DEF Coming
  <2>3. UNCHANGED <<storage, lock, orphaned>>
    BY <1>5 DEF HubAnswers, pageVars
  <2>4. \A u \in Tabs \ {t} : flight'[u] = flight[u]
    BY <1>1, <1>5 DEF HubAnswers, Answer
  <2>5. flight'[t].stage = "answered" /\ flight'[t].refresh = r
    BY <1>1, <1>5 DEF HubAnswers, Answer, Flight
  <2>6. \A u \in Tabs : OnWire(u)' => lock' = u
    BY <2>1, <2>3, <2>4 DEF OnWire
  <2>7. \A u \in Tabs : flight'[u].stage # "sent"
    BY <2>1, <2>4, <2>5 DEF OnWire
  <2>8. storage # 0 => storage = r \/ family[storage] # f
    BY <2>1, <1>2
  <2>9. storage # 0 => storage \notin superseded \/ family[storage] \in orphaned
    BY <2>2, <1>2
  <2>10. CASE /\ f \notin dead /\ r \notin superseded
              /\ family' = Append(family, f) /\ superseded' = superseded \cup {r}
              /\ Answer(t, "pair", Len(family) + 1)
              /\ UNCHANGED <<dead, replayed>>
    <3> DEFINE new == Len(family) + 1
    <3>1. flight'[t].answer = "pair" /\ flight'[t].pair = new
      BY <2>10, <1>1 DEF Answer, Flight
    <3>2. Coming(t)' /\ \A u \in Tabs \ {t} : ~Coming(u)'
      BY <2>2, <2>4, <2>5, <3>1 DEF Coming
    <3>3. f \in 1..new /\ f \in Logins
      BY <2>1, <1>1 DEF HubTypes, Logins, Pairs
    <3>4. family'[new] = f /\ \A p \in Pairs : family'[p] = family[p]
      BY <3>3, <2>10, <1>1, FamilyGrows
    <3>5. new \notin superseded' /\ f \notin replayed' /\ new \notin Pairs
      BY <2>1, <2>10, <1>1 DEF Pairs
    <3>6. storage # 0 => family'[storage] = family[storage]
      BY <3>4, <1>2
    <3>7. storage # 0 /\ storage \in superseded' /\ family'[storage] \notin orphaned =>
            family'[flight'[t].pair] = family'[storage]
      BY <2>8, <2>9, <2>10, <3>1, <3>4, <3>6
    <3>8. storage # 0 => family'[storage] \notin replayed' \ orphaned
      BY <2>10, <3>6, <1>2
    <3> HIDE DEF r, f, new
    <3> QED BY <2>3, <2>6, <2>7, <3>1, <3>2, <3>4, <3>5, <3>7, <3>8
         DEF SessionInv, WireHasLock, ComingPairsAreGood, SuccessorComes, NeverReplayed, OnWire, Coming
  <2>11. CASE /\ UNCHANGED <<family, superseded>>
              /\ replayed' = replayed \/ (r \in superseded /\ replayed' = replayed \cup {f})
              /\ flight'[t].answer # "pair"
    <3>1. \A u \in Tabs : ~Coming(u)'
      BY <2>2, <2>4, <2>11 DEF Coming
    <3>2. storage # 0 => family[storage] \notin replayed' \ orphaned
      BY <2>8, <2>9, <2>11, <1>2
    <3> HIDE DEF r, f
    <3> QED BY <2>3, <2>6, <2>7, <2>9, <2>11, <3>1, <3>2
         DEF SessionInv, WireHasLock, ComingPairsAreGood, SuccessorComes, NeverReplayed, OnWire, Coming
  <2>12. \A answer \in {"invalid_grant", "error"} :
           Answer(t, answer, 0) => flight'[t].answer # "pair"
    BY <1>1 DEF Answer, Flight
  <2> HIDE DEF r, f
  <2> QED BY <2>10, <2>11, <2>12, <1>5 DEF HubAnswers, r, f
<1>6. ASSUME NEW t \in Tabs, LockGranted(t) PROVE SessionInv'
  <2>1. /\ flight[t].stage = "lock" /\ lock = NoTab /\ UNCHANGED <<hubVars, pageVars, storage>>
        /\ UNCHANGED <<family, superseded, replayed, orphaned>>
    BY <1>6 DEF LockGranted, hubVars, pageVars
  <2>2. \A u \in Tabs : ~OnWire(u) /\ ~Coming(u)
    BY <2>1, <1>1, <1>2, <1>3
  <2>3. CASE Succeed(t, storage)
    <3>1. flight'[t] = NoFlight /\ \A u \in Tabs \ {t} : flight'[u] = flight[u]
      BY <2>3, <1>1, ReleasedKeeps DEF Succeed
    <3>2. lock' = lock
      BY <2>1, <2>3, <1>1 DEF Succeed
    <3> QED BY <2>1, <2>2, <3>1, <3>2, <1>1, <1>4
  <2>4. CASE /\ ~(storage # 0 /\ IsWinnersToken(storage, flight[t].refresh))
             /\ lock' = t /\ flight' = [flight EXCEPT ![t].stage = "sent"]
    <3>1. flight'[t].stage = "sent" /\ flight'[t].refresh = flight[t].refresh
          /\ \A u \in Tabs \ {t} : flight'[u] = flight[u]
      BY <2>4, <1>1 DEF Flight
    <3>2. storage # 0 => storage = flight[t].refresh
      BY <2>4 DEF IsWinnersToken
    <3>3. \A u \in Tabs : ~Coming(u)' /\ (OnWire(u)' => u = t)
      BY <2>2, <3>1 DEF Coming, OnWire
    <3>4. \A u \in Tabs : flight'[u].stage = "sent" => u = t
      BY <3>3 DEF OnWire
    <3> QED BY <2>1, <2>2, <2>4, <3>1, <3>2, <3>3, <3>4, <1>2
         DEF SessionInv, WireHasLock, ComingPairsAreGood, SuccessorComes, NeverReplayed, OnWire, Coming
  <2> QED BY <2>3, <2>4, <1>6 DEF LockGranted
<1>7. ASSUME NEW t \in Tabs, Exchanged(t) PROVE SessionInv'
  <2>1. /\ UNCHANGED <<family, superseded, replayed, orphaned>>
        /\ flight[t].stage = "answered" /\ OnWire(t) /\ lock = t
        /\ \A u \in Tabs \ {t} : ~OnWire(u) /\ ~Coming(u)
    BY <1>2, <1>3, <1>7 DEF Exchanged, OnWire, hubVars, pageVars
  <2>2. Released(t)
    BY <1>7 DEF Exchanged, Succeed, Fail
  <2>3. flight'[t] = NoFlight /\ \A u \in Tabs \ {t} : flight'[u] = flight[u]
    BY <2>2, <1>1, ReleasedKeeps
  <2>4. \A u \in Tabs : ~OnWire(u)' /\ ~Coming(u)' /\ flight'[u].stage # "sent"
    BY <2>1, <2>3, <1>1 DEF OnWire, Coming
  <2>5. CASE flight[t].answer = "pair" /\ storage' = flight[t].pair
    <3>1. storage' \notin superseded /\ family[storage'] \notin replayed
      BY <2>1, <2>5, <1>2 DEF Coming
    <3> QED BY <2>1, <2>4, <3>1
         DEF SessionInv, WireHasLock, ComingPairsAreGood, SuccessorComes, NeverReplayed, OnWire, Coming
  <2>6. CASE storage' = 0
    BY <2>4, <2>6
       DEF SessionInv, WireHasLock, ComingPairsAreGood, SuccessorComes, NeverReplayed, OnWire, Coming
  <2>7. CASE flight[t].answer = "error" /\ storage' = storage
    <3>1. ~Coming(t)
      BY <2>7 DEF Coming
    <3>2. storage # 0 => storage \notin superseded \/ family[storage] \in orphaned
      BY <2>1, <3>1, <1>2
    <3> QED BY <2>1, <2>4, <2>7, <3>2, <1>2
         DEF SessionInv, WireHasLock, ComingPairsAreGood, SuccessorComes, NeverReplayed, OnWire, Coming
  <2> QED BY <2>5, <2>6, <2>7, <1>7 DEF Exchanged
\* The page's exchange is lost with it, and its family counts as orphaned.
<1>8. ASSUME NEW t \in Tabs, Unload(t), storage' = storage PROVE SessionInv'
  <2>1. /\ flight'[t] = NoFlight /\ \A u \in Tabs \ {t} : flight'[u] = flight[u]
        /\ orphaned \subseteq orphaned'
        /\ lock' = (IF lock = t THEN NoTab ELSE lock)
        /\ IF OnWire(t)
             THEN /\ orphaned' = orphaned \cup {family[flight[t].refresh]}
                  /\ superseded \subseteq superseded'
                  /\ superseded' \subseteq superseded \cup {flight[t].refresh}
             ELSE orphaned' = orphaned /\ superseded' = superseded
        /\ UNCHANGED <<family, replayed>>
    BY <1>8, UnloadKeeps DEF OnWire
  <2>2. CASE ~OnWire(t)
    <3>1. \A u \in Tabs : \/ flight'[u] = flight[u]
                          \/ ~OnWire(u) /\ flight'[u].stage \notin {"sent", "answered"}
      BY <2>1, <2>2, <1>1
    <3>2. CASE lock # t
      BY <3>1, <3>2, <2>1, <2>2, <1>4, <1>8
    <3>3. CASE lock = t
      <4>1. \A u \in Tabs : ~OnWire(u) /\ ~Coming(u)
        BY <3>3, <2>2, <1>2, <1>3
      <4>2. \A u \in Tabs : ~OnWire(u)' /\ ~Coming(u)' /\ flight'[u].stage # "sent"
        BY <4>1, <3>1 DEF OnWire, Coming
      <4> QED BY <4>1, <4>2, <2>1, <2>2, <1>2, <1>8
           DEF SessionInv, WireHasLock, ComingPairsAreGood, SuccessorComes, NeverReplayed, OnWire, Coming
    <3> QED BY <3>2, <3>3
  <2>3. CASE OnWire(t)
    <3>1. \A u \in Tabs \ {t} : ~OnWire(u) /\ ~Coming(u)
      BY <2>3, <1>2, <1>3
    <3>2. \A u \in Tabs : ~OnWire(u)' /\ ~Coming(u)' /\ flight'[u].stage # "sent"
      BY <3>1, <2>1, <1>1 DEF OnWire, Coming
    <3>3. storage # 0 /\ storage \in superseded' => family[storage] \in orphaned'
      <4>1. CASE storage = flight[t].refresh
        BY <4>1, <2>1, <2>3
      <4>2. CASE storage # flight[t].refresh /\ ~Coming(t)
        BY <4>2, <2>1, <2>3, <3>1, <1>2
      <4>3. CASE Coming(t)
        BY <4>3, <2>1, <2>3, <3>1, <1>1, <1>2
      <4> QED BY <4>1, <4>2, <4>3
    <3> QED BY <3>2, <3>3, <2>1, <1>2, <1>8
         DEF SessionInv, WireHasLock, ComingPairsAreGood, SuccessorComes, NeverReplayed, OnWire, Coming
  <2> QED BY <2>2, <2>3
<1>9. ASSUME NEW t \in Tabs, NEW k \in Callers, NEW r \in Pairs, JoinOrStart(t, k, r),
             UNCHANGED <<family, superseded, replayed, storage, lock, orphaned>>
      PROVE  SessionInv'
  <2>1. /\ \A u \in Tabs \ {t} : flight'[u] = flight[u]
        /\ flight[t] # NoFlight => flight' = flight
        /\ flight[t] = NoFlight => flight'[t].stage = "lock"
    BY <1>1, <1>9, JoinOrStartKeeps
  <2> QED BY <2>1, <1>1, <1>4, <1>9 DEF OnWire
<1>10. ASSUME UNCHANGED <<family, superseded, replayed, storage, lock, orphaned, flight>>
       PROVE  SessionInv'
  BY <1>4, <1>10
<1>11. ASSUME NEW t \in Tabs, NEW k \in Callers, Answered(t, k) PROVE SessionInv'
  <2>1. storage # 0 => storage \in Pairs
    BY <1>2
  <2> QED BY <2>1, <1>9, <1>10, <1>11 DEF Answered, hubVars, pageVars
<1>12. ASSUME NEW t \in Tabs, NEW k \in Callers, Seeded(t, k) PROVE SessionInv'
  <2>1. caller[t][k].pair \in Pairs
    BY <1>1, <1>12 DEF Seeded, TabTypes, Pairs
  <2> QED BY <2>1, <1>9, <1>10, <1>12 DEF Seeded, hubVars
<1>13. ASSUME NEW t \in Tabs, HandleCallback(t) PROVE SessionInv'
  <2> DEFINE new == Len(family) + 1
  <2>1. UNCHANGED <<superseded, replayed, orphaned, lock, flight>>
    BY <1>13 DEF HandleCallback
  <2>2. CASE UNCHANGED <<family, storage>>
    BY <2>1, <2>2, <1>10
  <2>3. CASE family' = Append(family, new) /\ storage' = new
    <3>1. new \in 1..new /\ new \notin Pairs
      BY <1>1 DEF Pairs
    <3>2. family'[new] = new /\ \A p \in Pairs : family'[p] = family[p]
      BY <3>1, <2>3, <1>1, FamilyGrows
    <3>3. \A u \in Tabs : flight[u].stage = "sent" => family'[flight[u].refresh] # new
      BY <3>1, <3>2, <1>1
    <3>4. \A u \in Tabs : Coming(u) => family'[flight[u].pair] = family[flight[u].pair]
      BY <3>2, <1>1
    <3>5. replayed \subseteq Pairs
      BY <1>1 DEF HubTypes
    <3> HIDE DEF new
    <3> QED BY <2>1, <2>3, <3>1, <3>2, <3>3, <3>4, <3>5, <1>1, <1>2
         DEF SessionInv, WireHasLock, ComingPairsAreGood, SuccessorComes, NeverReplayed, OnWire, Coming
  <2> QED BY <2>2, <2>3, <1>13 DEF HandleCallback
<1>14. ASSUME NEW t \in Tabs, Logout(t) PROVE SessionInv'
  <2>1. UNCHANGED <<family, superseded, replayed, orphaned, lock, flight>> /\ storage' = 0
    BY <1>14 DEF Logout, hubVars, pageVars
  <2> QED BY <2>1, <1>2
       DEF SessionInv, WireHasLock, ComingPairsAreGood, SuccessorComes, NeverReplayed, OnWire, Coming
<1>15. ASSUME NEW t \in Tabs, Login(t) \/ Finds(t) \/ Registers(t) \/ LoginFails(t) \/ Reload(t)
       PROVE  SessionInv'
  BY <1>8, <1>10, <1>15 DEF Login, Finds, Registers, LoginFails, Reload, Departs, Stays, hubVars
<1>16. ASSUME NEW t \in Tabs, \/ Returns(t) \/ GetClient(t)
                              \/ \E k \in Callers : Request(t, k)
       PROVE  SessionInv'
  BY <1>10, <1>16 DEF Returns, GetClient, Request, hubVars, pageVars
<1>17. ASSUME NEW p \in Pairs, Expire(p) \/ Condemn(p) PROVE SessionInv'
  BY <1>10, <1>17 DEF Expire, Condemn, pageVars
<1>18. CASE UNCHANGED vars
  BY <1>10, <1>18 DEF vars, hubVars, pageVars
\* The answer is lost: the family of the stored pair, if it is that, counts as orphaned.
<1>19. ASSUME NEW t \in Tabs, AnswerLost(t) PROVE SessionInv'
  <2> DEFINE r == flight[t].refresh
             f == family[r]
  <2>1. /\ flight[t].stage = "sent" /\ OnWire(t) /\ lock = t /\ r \in Pairs /\ f \in Pairs
        /\ \A u \in Tabs \ {t} : ~OnWire(u)
    BY <1>1, <1>2, <1>19 DEF AnswerLost, OnWire
  <2>2. UNCHANGED <<family, storage, lock>>
    BY <1>19 DEF AnswerLost
  <2>3. /\ \A u \in Tabs \ {t} : flight'[u] = flight[u]
        /\ flight'[t].stage = "answered" /\ flight'[t].answer = "error"
    BY <1>1, <1>19 DEF AnswerLost, Answer, Flight
  <2>4. \A u \in Tabs : /\ ~Coming(u) /\ ~Coming(u)' /\ flight'[u].stage # "sent"
                        /\ OnWire(u)' => u = t
    BY <2>1, <2>3, <1>3 DEF Coming, OnWire
  <2>5. storage # 0 => /\ storage = r \/ family[storage] # f
                       /\ storage \notin superseded \/ family[storage] \in orphaned
    BY <2>1, <2>4, <1>2
  <2>6. \/ /\ superseded' = superseded \cup {r} /\ orphaned' = orphaned \cup {f}
           /\ replayed' = replayed
        \/ /\ r \in superseded /\ replayed' = replayed \cup {f}
           /\ UNCHANGED <<superseded, orphaned>>
    BY <1>19 DEF AnswerLost
  <2>7. storage # 0 => /\ storage \in superseded' => family[storage] \in orphaned'
                       /\ family[storage] \notin replayed' \ orphaned'
    <3> HIDE DEF r, f
    <3>1. storage = r => family[storage] = f
      BY DEF f
    <3> QED BY <2>5, <2>6, <3>1, <1>2
  <2> QED BY <2>1, <2>2, <2>4, <2>7
       DEF SessionInv, WireHasLock, ComingPairsAreGood, SuccessorComes, NeverReplayed, OnWire, Coming
<1> QED BY <1>5, <1>6, <1>7, <1>11, <1>12, <1>13, <1>14, <1>15, <1>16, <1>17, <1>18, <1>19 DEF Next

-----------------------------------------------------------------------------
(* The theorems.                                                           *)

LEMMA InitRest == Init => WaitersAreServed /\ OneClient /\ SessionInv
<1> SUFFICES ASSUME Init PROVE WaitersAreServed /\ OneClient /\ SessionInv
  OBVIOUS
<1>1. \A t \in Tabs : /\ flight[t] = NoFlight /\ flight[t].stage = "none"
                      /\ signin[t].at = "no" /\ seeded[t] = 0
                      /\ \A k \in Callers : caller[t][k].stage = "idle"
  BY DEF Init, NoFlight, NoSignin, NoCall
<1>2. WaitersAreServed
  BY <1>1 DEF WaitersAreServed, Joined, Init
<1>3. \A f \in Logins : client_id[f] = dcr
  BY DEF Init, Logins, Pairs
<1>4. OneClient
  BY <1>1, <1>3 DEF OneClient, Init
<1>5. SessionInv
  BY <1>1 DEF SessionInv, WireHasLock, ComingPairsAreGood, SuccessorComes, NeverReplayed, Init
<1> QED BY <1>2, <1>4, <1>5

(***************************************************************************)
(* Every variable keeps its range: a family is named by its first pair, a  *)
(* refresh under way has a pair that was issued, and the pair it brings is *)
(* of the same family.                                                     *)
(***************************************************************************)
THEOREM RefreshTypesHold == Spec => []TypeOK
<1>1. RefreshTypes => TypeOK
  <2> SUFFICES ASSUME RefreshTypes PROVE TypeOK
    OBVIOUS
  <2>1. HubTypes /\ PageTypes /\ TabTypes
    BY DEF RefreshTypes
  <2>2. family \in Seq(Nat \ {0}) /\ \A p \in Pairs : family[p] <= p
    BY <2>1 DEF HubTypes, Pairs
  <2>3. /\ superseded \subseteq Pairs /\ dead \subseteq Pairs /\ replayed \subseteq dead
        /\ expired \subseteq Pairs /\ revoked \subseteq Pairs /\ orphaned \subseteq Pairs
        /\ client_id \in [Logins -> 1..clients] /\ dcr \in 0..clients /\ raced \in BOOLEAN
    BY <2>1 DEF HubTypes, PageTypes
  <2>4. 0..Len(family) = {0} \cup Pairs
    BY <2>1 DEF HubTypes, Pairs
  <2> QED BY <2>1, <2>2, <2>3, <2>4 DEF TabTypes, PageTypes, FlightFits, Pairs, TypeOK
<1> QED BY <1>1, InitTypes, StepTypes, PTL DEF Spec

(***************************************************************************)
(* A request that waits for a refresh has one under way in its tab, and    *)
(* the refresh lock is held only by a tab whose exchange is on the wire -  *)
(* with or without Web Locks, whatever pages are left and sessions end.    *)
(***************************************************************************)
THEOREM NobodyWaitsInVain == Spec => []WaitersAreServed
<1>1. Init => RefreshTypes /\ WaitersAreServed
  BY InitTypes, InitRest
<1>2. RefreshTypes /\ WaitersAreServed /\ [Next]_vars => RefreshTypes' /\ WaitersAreServed'
  BY StepTypes, StepServes
<1> QED BY <1>1, <1>2, PTL DEF Spec

\* With Web Locks the whole invariant holds, through lost answers and pages left.
THEOREM RefreshIsSound == ASSUME WebLocks PROVE Spec => []RefreshInv
<1>1. Init => RefreshInv
  BY InitTypes, InitRest DEF RefreshInv
<1>2. RefreshInv /\ [Next]_vars => RefreshInv'
  BY StepTypes, StepServes, StepOneClient, StepSession DEF RefreshInv
<1> QED BY <1>1, <1>2, PTL DEF Spec

(***************************************************************************)
(* With Web Locks the tabs' races never bring their session down: the      *)
(* family of the stored pair is not revoked because a superseded token     *)
(* came back, unless the hub's answer to an exchange of it was lost, on    *)
(* its way or with the page that waited for it.                            *)
(***************************************************************************)
THEOREM TabsNeverReplay == ASSUME WebLocks PROVE Spec => []NeverReplayed
<1>1. RefreshInv => NeverReplayed
  BY DEF RefreshInv, SessionInv
<1> QED BY <1>1, RefreshIsSound, PTL

(***************************************************************************)
(* With Web Locks, and as long as no answer to an exchange of its family   *)
(* was lost, the stored pair can be exchanged, or its successor is on its  *)
(* way to the storage; and it was issued to the client that every page     *)
(* opened later finds in the cache, unless two tabs registered at once.    *)
(***************************************************************************)
THEOREM SessionStaysUsable == ASSUME WebLocks PROVE Spec => []StoredPairIsUsable
<1>1. RefreshInv => StoredPairIsUsable
  <2> SUFFICES ASSUME RefreshInv, storage # 0
               PROVE  /\ storage \in superseded /\ family[storage] \notin orphaned =>
                           \E t \in Tabs : flight[t].stage = "answered" /\ flight[t].answer = "pair"
                                           /\ family[flight[t].pair] = family[storage]
                      /\ client_id[family[storage]] = dcr \/ raced
    BY DEF StoredPairIsUsable
  <2>1. family[storage] \in Logins
    BY DEF RefreshInv, RefreshTypes, HubTypes, TabTypes, Logins, Pairs
  <2> QED BY <2>1 DEF RefreshInv, SessionInv, SuccessorComes, OneClient
<1> QED BY <1>1, RefreshIsSound, PTL

=============================================================================
