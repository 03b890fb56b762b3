------------------------- MODULE ParachuteMcpProofs -------------------------
(***************************************************************************)
(* Proofs about parachute-mcp.                                             *)
(*                                                                         *)
(* The bridge, for any number of calls, clients, forgotten sessions and    *)
(* outages: there is never a client beside the one in use, no call runs    *)
(* twice, and a call that the hub serves well and that overlaps no other   *)
(* succeeds.                                                               *)
(*                                                                         *)
(* The channel note, for any agents, vaults, windows and turns, and with   *)
(* any number of refusals, attachments and deletions: a turn lands once,   *)
(* first turns do not fail each other, a read reaches the note's end.      *)
(***************************************************************************)
EXTENDS HubBridge, ChannelContext, FiniteSetTheorems, SequenceTheorems, TLAPS

-----------------------------------------------------------------------------
(* The bridge.                                                             *)

Places == {"idle", "connect", "reconnect", "first", "second", "ok", "failed"}
AnswerKinds == {"none", "pending", "result", "404", "error", "closed"}
Call == [at : Places, on : Nat, answer : AnswerKinds]

BridgeTypes ==
  /\ client \in Nat /\ made \in Nat
  /\ connecting \subseteq Nat \ {0}
  /\ call \in [Callers -> Call]
  /\ ran \in [Callers -> Nat]
  /\ up \in BOOLEAN

\* One client at most is in use or being made.
OneAtATime == NoForgottenClient /\ \A c, d \in connecting : c = d

\* How often the tool of a call with these entries has run.
RunsFit(e, n) ==
  /\ n <= 1
  /\ e.at \in {"idle", "connect", "reconnect"} => n = 0
  /\ e.at \in {"first", "second"} /\ e.answer \in {"pending", "404"} => n = 0
  /\ e.at \in {"first", "second"} /\ e.answer = "result" => n = 1
  /\ e.at = "ok" => n = 1

Counted == \A k \in Callers : RunsFit(call[k], ran[k])

\* A call that nothing excuses is on its own: the hub is up, its attempt is the one
\* in progress, its client is the one in use, and the second time the hub knows its
\* session.
Untroubled(k) ==
  /\ call[k].at # "failed"
  /\ k \in Active => up /\ Active = {k}
  /\ k \in Waiting => call[k].on \in connecting
  /\ call[k].at = "first" => client # 0 /\ call[k].answer \in {"pending", "404", "result"}
  /\ call[k].at = "second" => \/ call[k].answer = "pending" /\ call[k].on \in sessions
                              \/ call[k].answer = "result"

LoneInv == \A k \in Callers \ excuse : Untroubled(k)

-----------------------------------------------------------------------------
(* Types and the one client.                                               *)

\* The attempt that a caller joins is the one in progress.
LEMMA JoinsAttempt ==
  ASSUME BridgeTypes, OneAtATime, connecting # {}
  PROVE  Max(connecting) \in connecting
<1>1. PICK c \in connecting : TRUE
  OBVIOUS
<1>2. \A d \in connecting : c >= d
  BY <1>1 DEF OneAtATime, BridgeTypes
<1> QED BY <1>1, <1>2 DEF Max

\* What connect() leaves behind.
LEMMA ConnectKeeps ==
  ASSUME BridgeTypes, OneAtATime, NEW k \in Callers, call[k].at = "idle", connect(k)
  PROVE  /\ made' \in Nat /\ connecting' \subseteq Nat \ {0}
         /\ call' \in [Callers -> Call]
         /\ \A j \in Callers \ {k} : call'[j] = call[j]
         /\ client # 0 => connecting' = connecting
         /\ \A c, d \in connecting' : c = d
         /\ \/ client # 0 /\ call'[k] = [at |-> "first", on |-> client, answer |-> "pending"]
            \/ call'[k].at = "connect" /\ call'[k].on \in connecting'
<1>1. CASE client # 0 /\ Uses(k, client)
  BY <1>1 DEF Uses, Sends, BridgeTypes, OneAtATime, Call, Places, AnswerKinds
<1>2. CASE /\ client = 0 /\ connecting # {}
           /\ call' = [call EXCEPT ![k] = [@ EXCEPT !.at = "connect", !.on = Max(connecting)]]
           /\ UNCHANGED <<connecting, made>>
  <2>1. Max(connecting) \in connecting
    BY <1>2, JoinsAttempt
  <2>2. Max(connecting) \in Nat
    BY <2>1 DEF BridgeTypes
  <2> DEFINE e == [call[k] EXCEPT !.at = "connect", !.on = Max(connecting)]
  <2>3. e \in Call /\ e.at = "connect" /\ e.on \in connecting
    BY <2>1, <2>2 DEF BridgeTypes, Call, Places, AnswerKinds
  <2>4. call' = [call EXCEPT ![k] = e]
    BY <1>2
  <2> HIDE DEF e
  <2>5. /\ call' \in [Callers -> Call] /\ call'[k] = e
        /\ \A j \in Callers \ {k} : call'[j] = call[j]
    BY <2>3, <2>4 DEF BridgeTypes
  <2> QED BY <1>2, <2>3, <2>5 DEF BridgeTypes, OneAtATime
<1>3. CASE client = 0 /\ connecting = {} /\ Attempt(k, [call[k] EXCEPT !.at = "connect"])
  <2> DEFINE e == [call[k] EXCEPT !.at = "connect", !.on = made + 1]
  <2> call[k] \in Call /\ made + 1 \in Nat
    BY DEF BridgeTypes
  <2>1. e \in Call /\ e.at = "connect" /\ e.on = made + 1
    BY DEF Call, Places, AnswerKinds
  <2>2. call' = [call EXCEPT ![k] = e] /\ made' = made + 1 /\ connecting' = {made + 1}
    BY <1>3 DEF Attempt
  <2> HIDE DEF e
  <2>3. /\ call' \in [Callers -> Call] /\ call'[k] = e
        /\ \A j \in Callers \ {k} : call'[j] = call[j]
    BY <2>1, <2>2 DEF BridgeTypes
  <2> QED BY <1>3, <2>1, <2>2, <2>3 DEF BridgeTypes
<1> QED BY <1>1, <1>2, <1>3 DEF connect

LEMMA InitKeepsOne == Init => BridgeTypes /\ OneAtATime
BY DEF Init, BridgeTypes, OneAtATime, NoForgottenClient, Call, Places, AnswerKinds

LEMMA StepKeepsOne == BridgeTypes /\ OneAtATime /\ [Next]_vars => BridgeTypes' /\ OneAtATime'
<1> SUFFICES ASSUME BridgeTypes, OneAtATime, [Next]_vars PROVE BridgeTypes' /\ OneAtATime'
  OBVIOUS
<1> USE DEF BridgeTypes, OneAtATime, NoForgottenClient
<1>1. ASSUME NEW k \in Callers, Begin(k) PROVE BridgeTypes' /\ OneAtATime'
  <2>1. connect(k) /\ call[k].at = "idle" /\ UNCHANGED <<client, open, ran, up>>
    BY <1>1 DEF Begin, hubVars
  <2>2. /\ made' \in Nat /\ connecting' \subseteq Nat \ {0}
        /\ call' \in [Callers -> Call]
        /\ client # 0 => connecting' = connecting
        /\ \A c, d \in connecting' : c = d
    BY <2>1, ConnectKeeps
  <2> QED BY <2>1, <2>2
<1>2. ASSUME NEW c \in connecting, Connected(c) PROVE BridgeTypes' /\ OneAtATime'
  <2>1. connecting = {c} /\ c \in Nat \ {0}
    OBVIOUS
  <2>2. client = 0 /\ open = {}
    BY <2>1
  <2>3. client' = c /\ connecting' = {} /\ open' = {c} /\ UNCHANGED <<made, ran, up>>
    BY <1>2, <2>1, <2>2 DEF Connected
  <2>4. call' \in [Callers -> Call]
    BY <1>2, <2>1 DEF Connected, Sends, Call, Places, AnswerKinds
  <2> QED BY <2>1, <2>3, <2>4
<1>3. ASSUME NEW c \in connecting, ConnectFails(c) PROVE BridgeTypes' /\ OneAtATime'
  <2>1. call' \in [Callers -> Call]
    BY <1>3 DEF ConnectFails, Ends, Call, Places, AnswerKinds
  <2> QED BY <1>3, <2>1 DEF ConnectFails, hubVars
<1>4. ASSUME NEW k \in Callers, Serve(k) PROVE BridgeTypes' /\ OneAtATime'
  <2>1. call' \in [Callers -> Call] /\ ran' \in [Callers -> Nat]
    BY <1>4 DEF Serve, Call, Places, AnswerKinds
  <2> QED BY <1>4, <2>1 DEF Serve, hubVars
<1>5. ASSUME NEW k \in Callers, Retries(k) PROVE BridgeTypes' /\ OneAtATime'
  <2>1. client # 0 /\ connecting = {} /\ open = {client}
    BY <1>5 DEF Retries, isSessionExpiry
  <2>2. /\ client' = 0 /\ open' = {} /\ made' = made + 1 /\ connecting' = {made + 1}
        /\ UNCHANGED <<ran, up>>
    BY <1>5, <2>1 DEF Retries, hubVars
  <2>3. call' \in [Callers -> Call]
    <3>1. PICK hit \in SUBSET {j \in InFlight \ {k} : call[j].on = client} :
            call' = [j \in Callers |->
              IF j = k THEN [call[k] EXCEPT !.at = "reconnect", !.on = made + 1]
              ELSE IF j \in hit THEN [call[j] EXCEPT !.answer = "closed"] ELSE call[j]]
      BY <1>5 DEF Retries
    <3> call[k] \in Call /\ made + 1 \in Nat
      OBVIOUS
    <3>2. [call[k] EXCEPT !.at = "reconnect", !.on = made + 1] \in Call
      BY DEF Call, Places, AnswerKinds
    <3>3. \A j \in Callers : [call[j] EXCEPT !.answer = "closed"] \in Call
      BY DEF Call, AnswerKinds
    <3> QED BY <3>1, <3>2, <3>3
  <2> QED BY <2>2, <2>3
<1>6. ASSUME NEW k \in Callers, Returns(k) \/ Throws(k) PROVE BridgeTypes' /\ OneAtATime'
  <2>1. call' \in [Callers -> Call]
    BY <1>6 DEF Returns, Throws, Ends, Call, Places, AnswerKinds
  <2> QED BY <1>6, <2>1 DEF Returns, Throws, hubVars
<1>7. CASE HubForgets \/ HubGoesDown \/ HubComesUp
  BY <1>7 DEF HubForgets, HubGoesDown, HubComesUp
<1>8. CASE UNCHANGED vars
  BY <1>8 DEF vars
<1> QED BY <1>1, <1>2, <1>3, <1>4, <1>5, <1>6, <1>7, <1>8 DEF Next

\* NoForgottenClient: whatever overlaps, no client of bridge.ts is left open beside
\* the one in use.
THEOREM ClientsAreClosed == Spec => []NoForgottenClient
<1>1. Init => BridgeTypes /\ OneAtATime
  BY InitKeepsOne
<1>2. BridgeTypes /\ OneAtATime /\ [Next]_vars => (BridgeTypes /\ OneAtATime)'
  BY StepKeepsOne
<1>3. OneAtATime => NoForgottenClient
  BY DEF OneAtATime
<1> QED BY <1>1, <1>2, <1>3, PTL DEF Spec

-----------------------------------------------------------------------------
(* A tool runs at most once.                                               *)

LEMMA InitKeepsCount == Init => Counted
BY DEF Init, Counted, RunsFit

LEMMA StepKeepsCount ==
  ASSUME BridgeTypes, OneAtATime, Counted, [Next]_vars PROVE Counted'
<1> USE DEF Counted, RunsFit, BridgeTypes
<1>1. ASSUME NEW k \in Callers, Begin(k) PROVE Counted'
  <2>1. connect(k) /\ call[k].at = "idle" /\ UNCHANGED ran
    BY <1>1 DEF Begin
  <2>2. /\ \A j \in Callers \ {k} : call'[j] = call[j]
        /\ \/ call'[k] = [at |-> "first", on |-> client, answer |-> "pending"]
           \/ call'[k].at = "connect"
    BY <2>1, ConnectKeeps
  <2> QED BY <2>1, <2>2
<1>2. ASSUME NEW c \in connecting, Connected(c) PROVE Counted'
  BY <1>2 DEF Connected, WaitsFor, Waiting, Sends
<1>3. ASSUME NEW c \in connecting, ConnectFails(c) PROVE Counted'
  BY <1>3 DEF ConnectFails, WaitsFor, Waiting, Ends, Call
<1>4. ASSUME NEW k \in Callers, Serve(k) PROVE Counted'
  <2>1. call[k].at \in {"first", "second"} /\ ran[k] = 0
    BY <1>4 DEF Serve, InFlight
  <2>2. \A j \in Callers \ {k} : call'[j] = call[j] /\ ran'[j] = ran[j]
    BY <1>4 DEF Serve
  <2>3. /\ call'[k].at = call[k].at
        /\ \/ call'[k].answer \in {"error", "404"} /\ ran'[k] = 0
           \/ call'[k].answer = "result" /\ ran'[k] = 1
    BY <1>4, <2>1 DEF Serve, Call
  <2> QED BY <2>1, <2>2, <2>3
<1>5. ASSUME NEW k \in Callers, Retries(k) PROVE Counted'
  <2>1. call[k].at = "first" /\ call[k].answer = "404" /\ UNCHANGED ran
    BY <1>5 DEF Retries, isSessionExpiry
  <2>2. PICK hit \in SUBSET {j \in InFlight \ {k} : call[j].on = client} :
          call' = [j \in Callers |->
            IF j = k THEN [call[k] EXCEPT !.at = "reconnect", !.on = made + 1]
            ELSE IF j \in hit THEN [call[j] EXCEPT !.answer = "closed"] ELSE call[j]]
    BY <1>5 DEF Retries
  <2>3. call'[k].at = "reconnect"
    BY <2>2 DEF Call
  <2>4. \A j \in hit : call'[j].at = call[j].at /\ call'[j].answer = "closed"
    <3> SUFFICES ASSUME NEW j \in hit
                 PROVE  call'[j].at = call[j].at /\ call'[j].answer = "closed"
      OBVIOUS
    <3>1. j \in Callers /\ j # k /\ call[j] \in Call
      BY DEF InFlight
    <3>2. call'[j] = [call[j] EXCEPT !.answer = "closed"]
      BY <2>2, <3>1
    <3> QED BY <3>1, <3>2 DEF Call
  <2>5. \A j \in hit : call[j].at \in {"first", "second"}
    BY DEF InFlight
  <2>6. \A j \in Callers \ (hit \cup {k}) : call'[j] = call[j]
    BY <2>2
  <2> QED BY <2>1, <2>3, <2>4, <2>5, <2>6
<1>6. ASSUME NEW k \in Callers, Returns(k) PROVE Counted'
  BY <1>6 DEF Returns, Ends, InFlight, Call
<1>7. ASSUME NEW k \in Callers, Throws(k) PROVE Counted'
  BY <1>7 DEF Throws, Ends, InFlight, Call
<1>8. CASE HubForgets \/ HubGoesDown \/ HubComesUp
  BY <1>8 DEF HubForgets, HubGoesDown, HubComesUp
<1>9. CASE UNCHANGED vars
  BY <1>9 DEF vars
<1> QED BY <1>1, <1>2, <1>3, <1>4, <1>5, <1>6, <1>7, <1>8, <1>9 DEF Next

\* CallsRunOnce: what withClient repeats was never served, whatever the calls of
\* other callers do to the connection meanwhile.
THEOREM NoCallRunsTwice == Spec => []CallsRunOnce
<1> DEFINE Inv == BridgeTypes /\ OneAtATime /\ Counted
<1>1. Init => Inv
  BY InitKeepsOne, InitKeepsCount
<1>2. Inv /\ [Next]_vars => Inv'
  BY StepKeepsOne, StepKeepsCount
<1>3. Inv => CallsRunOnce
  BY DEF Counted, RunsFit, CallsRunOnce
<1> QED BY <1>1, <1>2, <1>3, PTL DEF Spec

-----------------------------------------------------------------------------
(* A call on its own succeeds.                                             *)

LEMMA InitKeepsLone == Init => LoneInv
BY DEF Init, LoneInv, Untroubled, Active, Waiting, InFlight

\* While another call is active, one that nothing excuses is not.
LEMMA LoneIsAlone ==
  ASSUME NEW k \in Callers, Untroubled(k), NEW j \in Active, j # k
  PROVE  k \notin Active
BY DEF Untroubled

\* A call that has not begun, or is over, stays as it is.
LEMMA RestIsUntroubled ==
  ASSUME NEW k \in Callers, Untroubled(k), k \notin Active, call'[k] = call[k]
  PROVE  Untroubled(k)'
BY DEF Untroubled, Active, Waiting, InFlight

LEMMA StepKeepsLone ==
  ASSUME BridgeTypes, OneAtATime, LoneInv, [Next]_vars PROVE LoneInv'
<1> SUFFICES ASSUME NEW k \in Callers, k \notin excuse' PROVE Untroubled(k)'
  BY SMTT(30) DEF LoneInv
<1>0. excuse \subseteq excuse'
  BY DEF Next, vars, Begin, Connected, ConnectFails, Serve, Returns, Retries, Throws,
         HubForgets, HubGoesDown, HubComesUp
<1>1. Untroubled(k)
  BY <1>0 DEF LoneInv
<1>2. ASSUME NEW b \in Callers, Begin(b) PROVE Untroubled(k)'
  <2>1. connect(b) /\ call[b].at = "idle" /\ UNCHANGED <<client, up>>
    BY <1>2 DEF Begin, hubVars
  <2>2. /\ \A j \in Callers \ {b} : call'[j] = call[j]
        /\ \/ client # 0 /\ call'[b] = [at |-> "first", on |-> client, answer |-> "pending"]
           \/ call'[b].at = "connect" /\ call'[b].on \in connecting'
    BY <2>1, ConnectKeeps
  <2>3. k \notin Active
    BY <1>2 DEF Begin
  <2>4. CASE k # b
    BY <1>1, <2>2, <2>3, <2>4, RestIsUntroubled
  <2>5. CASE k = b
    <3>1. Active = {} /\ up
      BY <1>2, <2>5 DEF Begin
    <3>2. Active' = {k}
      BY <2>2, <2>5, <3>1 DEF Active, Waiting, InFlight
    <3> QED BY <2>1, <2>2, <2>5, <3>1, <3>2 DEF Untroubled, Waiting
  <2> QED BY <2>4, <2>5
<1>3. ASSUME NEW c \in connecting, Connected(c) PROVE Untroubled(k)'
  <2>0. up /\ up' = up /\ client' = c /\ sessions' = sessions \cup {c}
    BY <1>3 DEF Connected
  <2>1. client' = c /\ c # 0 /\ up /\ up' /\ sessions' = sessions \cup {c}
    BY <2>0 DEF BridgeTypes
  <2>2. \A j \in Callers : call'[j] = IF j \in WaitsFor(c) THEN Sends(j, c) ELSE call[j]
    BY <1>3 DEF Connected
  <2>3. Active' = Active
    <3>1. \A j \in WaitsFor(c) : j \in Active /\ call'[j].at \in {"first", "second"}
      <4> SUFFICES ASSUME NEW j \in WaitsFor(c)
                   PROVE  j \in Active /\ call'[j].at \in {"first", "second"}
        OBVIOUS
      <4>1. j \in Active /\ j \in Callers
        BY DEF WaitsFor, Waiting, Active
      <4>2. call'[j] = Sends(j, c)
        BY <2>2, <4>1
      <4>3. Sends(j, c).at \in {"first", "second"}
        BY DEF Sends
      <4> QED BY <4>1, <4>2, <4>3
    <3>2. \A j \in Callers \ WaitsFor(c) : call'[j] = call[j]
      BY <2>2
    <3> QED BY <3>1, <3>2 DEF Active, Waiting, InFlight
  <2>4. CASE k \in WaitsFor(c)
    <3>1. k \in Active /\ call'[k] = Sends(k, c)
      BY <2>2, <2>4 DEF WaitsFor, Active
    <3> QED BY <1>1, <2>1, <2>3, <3>1 DEF Untroubled, Sends, Waiting
  <2>5. CASE k \notin WaitsFor(c)
    <3>1. k \notin Waiting /\ call'[k] = call[k]
      BY <1>1, <2>2, <2>5 DEF Untroubled, WaitsFor, OneAtATime
    <3>2. k \notin Waiting'
      BY <3>1 DEF Waiting
    <3> QED BY <1>1, <2>1, <2>3, <3>1, <3>2 DEF Untroubled
  <2> QED BY <2>4, <2>5
<1>4. ASSUME NEW c \in connecting, ConnectFails(c) PROVE Untroubled(k)'
  <2>1. k \notin Active
    BY <1>1, <1>4 DEF ConnectFails, Untroubled
  <2>2. call'[k] = call[k]
    BY <1>4, <2>1 DEF ConnectFails, WaitsFor, Active
  <2> QED BY <1>1, <2>1, <2>2, RestIsUntroubled
<1>5. ASSUME NEW s \in Callers, Serve(s) PROVE Untroubled(k)'
  <2>1. s \in Active /\ call[s].at \in {"first", "second"} /\ call[s].answer = "pending"
    BY <1>5 DEF Serve, Active, InFlight
  <2>2. CASE k # s
    BY <1>1, <1>5, <2>1, <2>2, LoneIsAlone, RestIsUntroubled DEF Serve, BridgeTypes
  <2>3. CASE k = s
    <3>1. up /\ Active = {k} /\ UNCHANGED <<client, up, sessions, connecting>>
      BY <1>1, <1>5, <2>1, <2>3 DEF Untroubled, Serve, hubVars
    <3>2. \A j \in Callers : call'[j].at = call[j].at
      BY <1>5 DEF Serve, BridgeTypes, Call
    <3>3. Active' = Active /\ k \notin Waiting'
      BY <2>1, <2>3, <3>2 DEF Active, Waiting, InFlight
    <3>4. call'[k].answer = IF call[k].on \in sessions THEN "result" ELSE "404"
      BY <1>5, <2>3, <3>1 DEF Serve, BridgeTypes, Call
    <3> QED BY <1>1, <2>1, <2>3, <3>1, <3>2, <3>3, <3>4 DEF Untroubled
  <2> QED BY <2>2, <2>3
<1>6. ASSUME NEW r \in Callers, Returns(r) PROVE Untroubled(k)'
  <2>1. r \in Active
    BY <1>6 DEF Returns, Active
  <2>2. CASE k # r
    BY <1>1, <1>6, <2>1, <2>2, LoneIsAlone, RestIsUntroubled DEF Returns, BridgeTypes
  <2>3. CASE k = r
    <3>1. call'[k].at = "ok"
      BY <1>6, <2>3 DEF Returns, Ends, BridgeTypes, Call
    <3> QED BY <3>1 DEF Untroubled, Active, Waiting, InFlight
  <2> QED BY <2>2, <2>3
<1>7. ASSUME NEW r \in Callers, Retries(r) PROVE Untroubled(k)'
  <2>1. /\ r \in InFlight /\ r \in Active
        /\ connecting' = connecting \cup {made + 1} /\ up' = up
    BY <1>7 DEF Retries, Active, InFlight, hubVars
  <2>2. PICK hit \in SUBSET {j \in InFlight \ {r} : call[j].on = client} :
          call' = [j \in Callers |->
            IF j = r THEN [call[r] EXCEPT !.at = "reconnect", !.on = made + 1]
            ELSE IF j \in hit THEN [call[j] EXCEPT !.answer = "closed"] ELSE call[j]]
    BY <1>7 DEF Retries
  <2>3. CASE k # r
    <3>1. k \notin Active
      BY <1>1, <2>1, <2>3, LoneIsAlone
    <3>2. call'[k] = call[k]
      BY <2>2, <2>3, <3>1 DEF Active
    <3> QED BY <1>1, <3>1, <3>2, RestIsUntroubled
  <2>4. CASE k = r
    <3>1. up /\ Active = {k}
      BY <1>1, <2>1, <2>4 DEF Untroubled
    <3>2. call'[k].at = "reconnect" /\ call'[k].on = made + 1
      BY <2>2, <2>4 DEF BridgeTypes, Call
    <3>3. \A j \in Callers \ {k} : call'[j] = call[j]
      BY <2>2, <2>4, <3>1 DEF Active
    <3>4. Active' = {k}
      BY <3>1, <3>2, <3>3 DEF Active, Waiting, InFlight
    <3> QED BY <2>1, <3>1, <3>2, <3>4 DEF Untroubled
  <2> QED BY <2>3, <2>4
<1>8. ASSUME NEW r \in Callers, Throws(r) PROVE Untroubled(k)'
  <2>1. r \in Active
    BY <1>8 DEF Throws, Active
  <2>2. k # r
    BY <1>1, <1>8 DEF Throws, InFlight, isSessionExpiry, Untroubled
  <2> QED BY <1>1, <1>8, <2>1, <2>2, LoneIsAlone, RestIsUntroubled DEF Throws, BridgeTypes
<1>9. CASE HubForgets \/ HubGoesDown
  <2>1. k \notin Active /\ UNCHANGED call
    BY <1>9 DEF HubForgets, HubGoesDown
  <2> QED BY <1>1, <2>1, RestIsUntroubled
<1>10. CASE HubComesUp
  <2>1. up' /\ UNCHANGED <<client, connecting, sessions, call>>
    BY <1>10 DEF HubComesUp
  <2>2. UNCHANGED <<Active, Waiting>>
    BY <2>1 DEF Active, Waiting, InFlight
  <2> QED BY <1>1, <2>1, <2>2 DEF Untroubled
<1>11. CASE UNCHANGED vars
  BY <1>1, <1>11 DEF vars, hubVars, Untroubled, Active, Waiting, InFlight
<1> QED BY <1>2, <1>3, <1>4, <1>5, <1>6, <1>7, <1>8, <1>9, <1>10, <1>11 DEF Next

\* LoneCallsSucceed: whatever outages, failed attempts and expired sessions left
\* behind in bridge.ts, a call that the hub serves well and that overlaps no other
\* succeeds; the one retry is enough.
THEOREM LoneCallsDoNotFail == Spec => []LoneCallsSucceed
<1> DEFINE Inv == BridgeTypes /\ OneAtATime /\ LoneInv
<1>1. Init => Inv
  BY InitKeepsOne, InitKeepsLone
<1>2. Inv /\ [Next]_vars => Inv'
  BY StepKeepsOne, StepKeepsLone
<1>3. Inv => LoneCallsSucceed
  BY DEF LoneInv, Untroubled, LoneCallsSucceed
<1> QED BY <1>1, <1>2, <1>3, PTL DEF Spec

-----------------------------------------------------------------------------
(***************************************************************************)
(* The channel note.  Its characters are laid one behind the other, a      *)
(* request that is still on the wire is of a turn that was made and has    *)
(* not landed, and a command knows of the note what it was told, as long   *)
(* as nobody deletes under it.                                             *)
(***************************************************************************)
(* Types.                                                                  *)

CharType == [of : {<<"header", 0>>} \cup Agents \X Nat, width : 1..4, end : Nat]
WindowType == [offset : Nat, length : Nat]
SpanType == [from : Nat, to : Nat]

Kinds == {"none", "ok", "not_found", "path_conflict", "denied"}
NoteReply == [kind : {"note"}, vault : Vaults, length : Nat, total : Nat, text : SpanType]
ReplyType == [kind : Kinds] \cup NoteReply

Command ==
  [at : {"idle", "lookup", "head", "tail", "append", "create", "again", "done"},
   action : {"none", "read", "append", "init"}, vault : Vaults \cup {0}, tail : Nat,
   turn : Nat, exit : {"none", "ok", "usage", "transport", "toolError"},
   head : ReplyType, text : ReplyType]

Request ==
  [by : Agents, turn : Nat, tool : {"query-notes", "update-note", "create-note"},
   vault : Vaults \cup {0}, window : WindowType]

ChannelTypes ==
  /\ note \in [Vaults -> Seq(CharType)]
  /\ binding \in Vaults \cup {0}
  /\ proc \in [Agents -> Command]
  /\ wire \subseteq Request
  /\ reply \in [Agents -> ReplyType]
  /\ attached \in Nat /\ deleted \in Nat
  /\ excused \subseteq Agents

-----------------------------------------------------------------------------
(* The parts of the invariant.                                             *)

\* The characters of a note lie one behind the other.
Laid(c) ==
  /\ \A i, j \in 0..Len(c) : i < j => Bytes(c, i) < Bytes(c, j)
  /\ \A i \in 1..Len(c) : Bytes(c, i) <= Bytes(c, i - 1) + 4

NotesAreLaid ==
  \A v \in Vaults : Laid(note[v]) /\ (note[v] # <<>> => note[v][1] = initialContent[1])

Writing(a) == proc[a].at \in {"append", "create", "again"}
Reading(a) == proc[a].at \in {"head", "tail"}

\* A command calls what its action calls, of a vault where it must have one, and
\* gets the answers that its call can have.
CommandsFit ==
  \A a \in Agents :
    /\ Writing(a) => proc[a].vault # 0 /\ proc[a].action \in {"append", "init"}
    /\ proc[a].at \in {"append", "again"} => proc[a].action = "append"
    /\ proc[a].at = "lookup" => proc[a].action \in {"append", "init"}
    /\ Reading(a) => proc[a].action = "read"
    /\ Reading(a) => reply[a].kind \in {"none", "note", "not_found", "denied"}
    /\ proc[a].at \in {"append", "again"} =>
         reply[a].kind \in {"none", "ok", "not_found", "denied"}
    /\ proc[a].at = "create" => reply[a].kind \in {"none", "ok", "path_conflict", "denied"}
    /\ ~Calling(a) => reply[a] = NoReply
    /\ proc[a].at = "head" => proc[a].head = NoReply
    /\ proc[a].at = "idle" <=> proc[a].turn = 0
    /\ proc[a].at # "done" => proc[a].exit = "none"

\* Requests are of turns that were made, one per turn.  What a command awaits is
\* its own request; of a command that gave up, only what writes is left.
WireFits ==
  \A r \in wire :
    /\ r.turn \in 1..proc[r.by].turn
    /\ r.tool # "query-notes" => r.vault # 0
    /\ r.tool = "query-notes" => r.turn = proc[r.by].turn /\ Calling(r.by)
    /\ \A s \in wire : s.by = r.by /\ s.turn = r.turn => s = r
    /\ r.turn = proc[r.by].turn =>
         /\ proc[r.by].at \notin {"idle", "lookup"}
         /\ Calling(r.by) =>
              /\ r.tool = ToolOf(proc[r.by].at) /\ r.vault = proc[r.by].vault
              /\ reply[r.by].kind = "none"
              /\ proc[r.by].at = "head" => r.window = headWindow(proc[r.by].tail)
              /\ proc[r.by].at = "tail" =>
                   r.window = tailWindow(proc[r.by].head.total, proc[r.by].tail)

Landed(e) == \E v \in Vaults : \E i \in 1..Len(note[v]) : note[v][i].of = e

\* No entry starts twice in the notes n.
Distinct(n) ==
  \A v, w \in Vaults : \A i \in 1..Len(n[v]), j \in 1..Len(n[w]) :
    n[v][i].width = 1 /\ n[w][j].width = 1 /\ n[v][i].of = n[w][j].of => v = w /\ i = j

\* One that is there once, was made, is not on the wire again,
\* and its command, if it still calls, has the answer.
EntriesAreNew ==
  /\ Distinct(note)
  /\ \A a \in Agents, t \in Nat \ {0} : Landed(<<a, t>>) =>
       /\ t \in 1..proc[a].turn
       /\ \A r \in wire : ~(r.by = a /\ r.turn = t /\ r.tool = "update-note")
       /\ t = proc[a].turn =>
            \/ proc[a].at = "done"
            \/ proc[a].at \in {"append", "again"} /\ reply[a].kind = "ok"

There(a) == \E i \in 1..Len(note[proc[a].vault]) : Starts(Entry(a), proc[a].vault, i)

\* What a command that nobody troubled knows of its note.
WritersKnow ==
  \A a \in Agents \ excused :
    /\ proc[a].at \in {"append", "again"} /\ reply[a].kind = "ok" => There(a)
    /\ Done(a, "append", "ok") => proc[a].vault # 0 /\ There(a)
    /\ proc[a].at = "create" /\ reply[a].kind \in {"ok", "path_conflict"} =>
         note[proc[a].vault] # <<>>
    /\ proc[a].at = "again" =>
         note[proc[a].vault] # <<>> /\ reply[a].kind # "not_found"
    /\ reply[a].kind # "denied"
    /\ proc[a].exit # "toolError"

\* h is the note as a read found it, in the notes n.
HeadHolds(n, h, vault) ==
  /\ h \in NoteReply /\ n[h.vault] # <<>> /\ (vault # 0 => h.vault = vault)
  /\ h.length \in 1..Len(n[h.vault]) /\ h.total = Bytes(n[h.vault], h.length)

\* The window t covers what the read was to print of h.
Covers(n, h, t, tail) ==
  /\ t.to >= h.length
  /\ t.from \in 0..Len(n[h.vault])
  /\ h.total > tail => h.total - Bytes(n[h.vault], t.from) >= tail
  /\ h.total <= tail => t.from = 0

TextHolds(n, h, r, tail) ==
  r \in NoteReply /\ n[r.vault] # <<>> /\ (r.vault = h.vault => Covers(n, h, r.text, tail))

ReadersKnow ==
  \A a \in Agents \ excused :
    /\ proc[a].at = "head" /\ reply[a].kind = "note" =>
         /\ HeadHolds(note, reply[a], proc[a].vault)
         /\ reply[a].total <= proc[a].tail => Covers(note, reply[a], reply[a].text, proc[a].tail)
    /\ proc[a].at = "tail" =>
         /\ HeadHolds(note, proc[a].head, proc[a].vault) /\ proc[a].head.total > proc[a].tail
         /\ reply[a].kind # "not_found"
         /\ reply[a].kind = "note" => TextHolds(note, proc[a].head, reply[a], proc[a].tail)
    /\ Done(a, "read", "ok") /\ proc[a].head # NoReply =>
         /\ HeadHolds(note, proc[a].head, proc[a].vault)
         /\ TextHolds(note, proc[a].head, proc[a].text, proc[a].tail)

ChannelInv ==
  /\ ChannelTypes /\ NotesAreLaid /\ CommandsFit /\ WireFits /\ EntriesAreNew
  /\ WritersKnow /\ ReadersKnow

-----------------------------------------------------------------------------
(* The windows of a note.                                                  *)

\* Among the naturals up to a bound that satisfy something there is a greatest:
\* else their successors would map them into themselves, and miss the least.
LEMMA GreatestExists ==
  ASSUME NEW T \in SUBSET Nat, NEW b \in Nat, T # {}, \A y \in T : y <= b
  PROVE  Max(T) \in T /\ \A y \in T : y <= Max(T)
<1> SUFFICES ASSUME ~\E x \in T : \A y \in T : y <= x PROVE FALSE
  BY DEF Max
<1> DEFINE W == {z \in 0..b : \E y \in T : y >= z}
           f == [z \in W |-> z + 1]
<1>1. IsFiniteSet(W)
  <2>1. IsFiniteSet(0..b)
    BY FS_Interval, 0 \in Int, b \in Int
  <2>2. W \in SUBSET (0..b)
    OBVIOUS
  <2> HIDE DEF W
  <2> QED BY <2>1, <2>2, FS_Subset
<1>2. f \in [W -> W]
  <2> SUFFICES ASSUME NEW z \in W PROVE z + 1 \in W
    OBVIOUS
  <2>1. PICK y \in T : y >= z
    OBVIOUS
  <2>2. PICK x \in T : ~(x <= y)
    OBVIOUS
  <2> QED BY <2>1, <2>2
<1>3. f \in Injection(W, W)
  BY <1>2 DEF Injection, IsInjective
<1>4. f \in Surjection(W, W)
  <2> HIDE DEF W, f
  <2>1. Cardinality(W) = Cardinality(W)
    OBVIOUS
  <2> QED BY <1>1, <1>3, <2>1, FS_Injection
<1>5. 0 \in W
  <2>1. PICK y \in T : TRUE
    OBVIOUS
  <2> QED BY <2>1
<1>6. \A z \in W : f[z] # 0
  OBVIOUS
<1> QED BY <1>4, <1>5, <1>6 DEF Surjection

\* Boundary is the last character that ends at b or before.
LEMMA BoundaryIsLast ==
  ASSUME NEW c \in Seq(CharType), Laid(c), NEW b \in Nat
  PROVE  /\ Boundary(c, b) \in 0..Len(c) /\ Bytes(c, Boundary(c, b)) <= b
         /\ \A i \in 0..Len(c) : Bytes(c, i) <= b => i <= Boundary(c, b)
<1> DEFINE T == {i \in 0..Len(c) : Bytes(c, i) <= b}
<1>1. 0 \in T /\ T \in SUBSET Nat /\ \A i \in T : i <= Len(c)
  <2>1. Bytes(c, 0) = 0 /\ Len(c) \in Nat
    BY DEF Bytes
  <2> QED BY <2>1
<1>2. Max(T) \in T /\ \A i \in T : i <= Max(T)
  <2> HIDE DEF T
  <2>1. Len(c) \in Nat /\ T # {}
    BY <1>1
  <2> QED BY <1>1, <2>1, GreatestExists
<1> QED BY <1>2 DEF Boundary

LEMMA BytesAreNat ==
  ASSUME NEW c \in Seq(CharType), NEW i \in 0..Len(c)
  PROVE  Bytes(c, i) \in Nat
<1>1. CASE i = 0
  BY <1>1 DEF Bytes
<1>2. CASE i # 0
  <2>1. c[i] \in CharType
    BY <1>2
  <2> QED BY <1>2, <2>1 DEF Bytes, CharType
<1> QED BY <1>1, <1>2

\* A span of a note lies in it.
LEMMA SliceIsSpan ==
  ASSUME NEW c \in Seq(CharType), Laid(c), NEW o \in Nat, NEW l \in Nat
  PROVE  /\ Slice(c, o, l) \in SpanType
         /\ Slice(c, o, l).from = Boundary(c, o)
         /\ Slice(c, o, l).to = Boundary(c, Bytes(c, Boundary(c, o)) + l)
<1>1. Boundary(c, o) \in 0..Len(c)
  BY BoundaryIsLast
<1>2. Bytes(c, Boundary(c, o)) + l \in Nat
  BY <1>1, BytesAreNat
<1>3. Boundary(c, Bytes(c, Boundary(c, o)) + l) \in 0..Len(c)
  BY <1>2, BoundaryIsLast
<1> QED BY <1>1, <1>3 DEF Slice, SpanType

LEMMA GreaterIs ==
  ASSUME NEW x \in Nat, NEW y \in Nat
  PROVE  Max({x, y}) = IF x >= y THEN x ELSE y
<1> DEFINE m == IF x >= y THEN x ELSE y
<1>1. m \in {x, y} /\ \A z \in {x, y} : m >= z
  OBVIOUS
<1>2. \A n \in {x, y} : (\A z \in {x, y} : n >= z) => n = m
  OBVIOUS
<1> QED BY <1>1, <1>2 DEF Max

\* The first window holds the whole of a note that fits.
LEMMA HeadWindowCovers ==
  ASSUME NEW c \in Seq(CharType), Laid(c), NEW tail \in Nat, Bytes(c, Len(c)) <= tail
  PROVE  LET t == Slice(c, headWindow(tail).offset, headWindow(tail).length)
         IN  t.from = 0 /\ t.to >= Len(c)
<1> DEFINE l == Max({tail, MIN_CONTENT_LENGTH})
<1>1. l \in Nat /\ l >= tail
  BY GreaterIs DEF MIN_CONTENT_LENGTH
<1>2. Boundary(c, 0) = 0
  <2>1. Boundary(c, 0) \in 0..Len(c) /\ Bytes(c, Boundary(c, 0)) <= 0
    BY BoundaryIsLast
  <2>2. Bytes(c, 0) = 0
    BY DEF Bytes
  <2> QED BY <2>1, <2>2, BytesAreNat DEF Laid
<1>3. Bytes(c, 0) + l = l
  BY <1>1 DEF Bytes
<1>4. Len(c) <= Boundary(c, l)
  <2>1. Len(c) \in 0..Len(c) /\ Bytes(c, Len(c)) <= l
    BY <1>1, BytesAreNat
  <2> QED BY <1>1, <2>1, BoundaryIsLast
<1> QED BY <1>1, <1>2, <1>3, <1>4, SliceIsSpan DEF headWindow

\* The window of the second call holds the tail of the first total bytes of the
\* note, also when its offset falls within a character.
LEMMA TailWindowCovers ==
  ASSUME NEW c \in Seq(CharType), Laid(c), NEW k \in 0..Len(c), NEW tail \in Nat,
         Bytes(c, k) > tail
  PROVE  LET w == tailWindow(Bytes(c, k), tail)
             t == Slice(c, w.offset, w.length)
         IN  /\ t.to >= k /\ t.from \in 0..Len(c)
             /\ Bytes(c, k) - Bytes(c, t.from) >= tail
<1> DEFINE total == Bytes(c, k)
           o == total - tail
           l == Max({tail, MIN_CONTENT_LENGTH}) + MAX_CODEPOINT_BYTES
           f == Boundary(c, o)
<1>1. total \in Nat /\ o \in Nat /\ l \in Nat /\ l >= tail + 3
  BY BytesAreNat, GreaterIs DEF MIN_CONTENT_LENGTH, MAX_CODEPOINT_BYTES
<1>2. /\ f \in 0..Len(c) /\ Bytes(c, f) <= o
      /\ \A i \in 0..Len(c) : Bytes(c, i) <= o => i <= f
  BY <1>1, BoundaryIsLast
<1>3. Bytes(c, f) \in Nat
  BY <1>2, BytesAreNat
<1>4. total <= Bytes(c, f) + l
  <2>1. CASE f >= k
    <3>1. total <= Bytes(c, f)
      BY <2>1, <1>1, <1>2, <1>3 DEF Laid
    <3> QED BY <3>1, <1>1, <1>3
  <2>2. CASE f < k
    <3>1. f + 1 \in 1..Len(c) /\ f + 1 \in 0..Len(c) /\ (f + 1) - 1 = f
      BY <2>2, <1>2
    <3>2. Bytes(c, f + 1) > o /\ Bytes(c, f + 1) \in Nat
      BY <3>1, <1>1, <1>2, BytesAreNat
    <3>3. Bytes(c, f + 1) <= Bytes(c, f) + 4
      BY <3>1 DEF Laid
    <3> QED BY <3>2, <3>3, <1>1, <1>3
  <2> QED BY <2>1, <2>2, <1>2
<1>5. k <= Boundary(c, Bytes(c, f) + l)
  <2>1. Bytes(c, f) + l \in Nat
    BY <1>1, <1>3
  <2>2. k \in 0..Len(c) /\ Bytes(c, k) <= Bytes(c, f) + l
    BY <1>4
  <2> HIDE DEF f, l
  <2> QED BY <2>1, <2>2, BoundaryIsLast
<1>6. total - Bytes(c, f) >= tail
  BY <1>1, <1>2, <1>3
<1>7. tailWindow(total, tail) = [offset |-> o, length |-> l]
  BY DEF tailWindow
<1> QED BY <1>1, <1>2, <1>5, <1>6, <1>7, SliceIsSpan

-----------------------------------------------------------------------------
(* What an append does to a note.                                          *)

LEMMA NoteGrows ==
  ASSUME NEW c \in Seq(CharType), Laid(c), NEW e \in Agents \X Nat
  PROVE  LET d == c \o normalizeEntry(e, Bytes(c, Len(c)))
         IN  /\ d \in Seq(CharType) /\ Laid(d) /\ Len(d) = Len(c) + 2
             /\ \A i \in 1..Len(c) : d[i] = c[i]
             /\ \A i \in 0..Len(c) : Bytes(d, i) = Bytes(c, i)
             /\ d[Len(c) + 1].of = e /\ d[Len(c) + 1].width = 1
             /\ d[Len(c) + 2].of = e /\ d[Len(c) + 2].width = 4
<1> DEFINE n == Bytes(c, Len(c))
           x == normalizeEntry(e, n)
           d == c \o x
<1>0. n \in Nat
  BY BytesAreNat
<1>1. x[1] \in CharType /\ x[2] \in CharType /\ Len(x) = 2 /\ x \in Seq(CharType)
  BY <1>0 DEF normalizeEntry, Char, CharType
<1>2. /\ x[1].of = e /\ x[1].width = 1 /\ x[1].end = n + 1
      /\ x[2].of = e /\ x[2].width = 4 /\ x[2].end = n + 5
  BY <1>0 DEF normalizeEntry, Char
<1>3. /\ d \in Seq(CharType) /\ Len(d) = Len(c) + 2
      /\ \A i \in 1..Len(c) : d[i] = c[i]
      /\ d[Len(c) + 1] = x[1] /\ d[Len(c) + 2] = x[2]
  <2> HIDE DEF x
  <2>1. Len(c) + 1 \in 1..Len(c) + Len(x) /\ Len(c) + 2 \in 1..Len(c) + Len(x)
    BY <1>1
  <2>2. /\ d \in Seq(CharType) /\ Len(d) = Len(c) + Len(x)
        /\ \A i \in 1..Len(c) + Len(x) : d[i] = IF i <= Len(c) THEN c[i] ELSE x[i - Len(c)]
    BY <1>1, ConcatProperties
  <2>3. \A i \in 1..Len(c) : i \in 1..Len(c) + Len(x) /\ i <= Len(c)
    BY <1>1
  <2> HIDE DEF d
  <2> QED BY <1>1, <2>1, <2>2, <2>3
<1>4. \A i \in 0..Len(c) : Bytes(d, i) = Bytes(c, i)
  BY <1>3 DEF Bytes
<1>5. Bytes(d, Len(c) + 1) = n + 1 /\ Bytes(d, Len(c) + 2) = n + 5
  BY <1>2, <1>3 DEF Bytes
<1>6. Laid(d)
  <2>1. \A i \in 0..Len(c) : Bytes(d, i) \in Nat /\ Bytes(d, i) <= n
    BY <1>0, <1>4, BytesAreNat DEF Laid
  <2>2. \A i, j \in 0..Len(d) : i < j => Bytes(d, i) < Bytes(d, j)
    <3> SUFFICES ASSUME NEW i \in 0..Len(d), NEW j \in 0..Len(d), i < j
                 PROVE  Bytes(d, i) < Bytes(d, j)
      OBVIOUS
    <3>1. CASE j \in 0..Len(c)
      BY <3>1, <1>4 DEF Laid
    <3>2. CASE i \in 0..Len(c) /\ (j = Len(c) + 1 \/ j = Len(c) + 2)
      <4>1. Bytes(d, i) \in Nat /\ Bytes(d, i) <= n
        BY <3>2, <2>1
      <4>2. Bytes(d, j) = n + 1 \/ Bytes(d, j) = n + 5
        BY <3>2, <1>5
      <4> HIDE DEF n, d
      <4> QED BY <4>1, <4>2, <1>0
    <3>3. CASE i = Len(c) + 1 /\ j = Len(c) + 2
      <4> HIDE DEF n, d
      <4> QED BY <3>3, <1>0, <1>5
    <3>4. Len(c) \in Nat
      OBVIOUS
    <3> QED BY <3>1, <3>2, <3>3, <3>4, <1>3
  <2>3. \A i \in 1..Len(d) : Bytes(d, i) <= Bytes(d, i - 1) + 4
    <3> SUFFICES ASSUME NEW i \in 1..Len(d) PROVE Bytes(d, i) <= Bytes(d, i - 1) + 4
      OBVIOUS
    <3>1. CASE i \in 1..Len(c)
      BY <3>1, <1>4 DEF Laid
    <3>2. CASE i = Len(c) + 1
      BY <3>2, <1>0, <1>4, <1>5
    <3>3. CASE i = Len(c) + 2
      BY <3>3, <1>0, <1>5
    <3> QED BY <3>1, <3>2, <3>3, <1>3, SMTT(30)
  <2> QED BY <2>2, <2>3 DEF Laid
<1> QED BY <1>2, <1>3, <1>4, <1>6

LEMMA FirstNoteIsLaid ==
  /\ initialContent \in Seq(CharType) /\ Laid(initialContent) /\ Len(initialContent) = 1
  /\ initialContent # <<>> /\ initialContent[1].width = 2
  /\ initialContent[1].of = <<"header", 0>>
<1>1. initialContent[1] = [of |-> <<"header", 0>>, width |-> 2, end |-> 2]
  BY DEF initialContent, Char
<1>2. Len(initialContent) = 1 /\ initialContent \in Seq(CharType)
  BY <1>1 DEF initialContent, CharType, Char
<1>3. Bytes(initialContent, 0) = 0 /\ Bytes(initialContent, 1) = 2
  BY <1>1 DEF Bytes
<1>4. Laid(initialContent)
  BY <1>2, <1>3 DEF Laid
<1> QED BY <1>1, <1>2, <1>4

LEMMA NoNoteIsLaid == <<>> \in Seq(CharType) /\ Laid(<<>>) /\ Len(<<>>) = 0
BY DEF Laid

-----------------------------------------------------------------------------
(* What a reader knows outlives what is appended.                          *)

\* The notes only grow.
NotesGrow ==
  \A v \in Vaults :
    /\ Len(note[v]) <= Len(note'[v])
    /\ \A i \in 1..Len(note[v]) : note'[v][i] = note[v][i]

LEMMA HeadStaysTrue ==
  ASSUME note \in [Vaults -> Seq(CharType)], note' \in [Vaults -> Seq(CharType)], NotesGrow,
         NEW h, NEW vault, HeadHolds(note, h, vault)
  PROVE  HeadHolds(note', h, vault)
<1>1. h.vault \in Vaults
  BY DEF HeadHolds, NoteReply
<1>2. h.length \in 1..Len(note'[h.vault]) /\ note'[h.vault][h.length] = note[h.vault][h.length]
  BY <1>1 DEF HeadHolds, NotesGrow
<1>3. note'[h.vault] # <<>>
  BY <1>2
<1> QED BY <1>2, <1>3 DEF HeadHolds, Bytes

LEMMA CoverStaysTrue ==
  ASSUME note \in [Vaults -> Seq(CharType)], note' \in [Vaults -> Seq(CharType)], NotesGrow,
         NEW h \in NoteReply, NEW t, NEW tail, Covers(note, h, t, tail)
  PROVE  Covers(note', h, t, tail)
<1>1. h.vault \in Vaults
  BY DEF NoteReply
<1>2. t.from \in 0..Len(note'[h.vault])
  BY <1>1 DEF Covers, NotesGrow
<1>3. Bytes(note'[h.vault], t.from) = Bytes(note[h.vault], t.from)
  BY <1>1 DEF Covers, NotesGrow, Bytes
<1> QED BY <1>2, <1>3 DEF Covers

LEMMA TextStaysTrue ==
  ASSUME note \in [Vaults -> Seq(CharType)], note' \in [Vaults -> Seq(CharType)], NotesGrow,
         NEW h \in NoteReply, NEW r, NEW tail, TextHolds(note, h, r, tail)
  PROVE  TextHolds(note', h, r, tail)
<1>1. r.vault \in Vaults
  BY DEF TextHolds, NoteReply
<1>2. note'[r.vault] # <<>>
  <2>1. Len(note[r.vault]) # 0
    BY <1>1 DEF TextHolds
  <2> QED BY <1>1, <2>1 DEF NotesGrow
<1>3. r.vault = h.vault => Covers(note', h, r.text, tail)
  BY CoverStaysTrue DEF TextHolds
<1> QED BY <1>2, <1>3 DEF TextHolds

-----------------------------------------------------------------------------
(* A command ends.                                                         *)

LEMMA EndKeeps ==
  ASSUME ChannelInv, NEW a \in Agents, Calling(a) \/ proc[a].at = "lookup",
         NEW p \in Command,
         p.at = "done" /\ p.action = proc[a].action /\ p.vault = proc[a].vault
           /\ p.tail = proc[a].tail /\ p.turn = proc[a].turn,
         excused' \in {excused, excused \cup {a}},
         a \notin excused' =>
           /\ p.exit # "toolError"
           /\ p.exit = "ok" /\ p.action = "append" => p.vault # 0 /\ There(a)
           /\ p.exit = "ok" /\ p.action = "read" /\ p.head # NoReply =>
                HeadHolds(note, p.head, p.vault) /\ TextHolds(note, p.head, p.text, p.tail),
         proc' = [proc EXCEPT ![a] = p], reply' = [reply EXCEPT ![a] = NoReply],
         wire' = {r \in wire : r.by # a \/ r.tool # "query-notes"},
         UNCHANGED <<note, binding, attached, deleted>>
  PROVE  ChannelInv'
<1>0. ChannelTypes /\ NotesAreLaid /\ CommandsFit /\ WireFits /\ EntriesAreNew
      /\ WritersKnow /\ ReadersKnow
  BY DEF ChannelInv
<1>a. /\ proc'[a] = p /\ reply'[a] = NoReply
      /\ \A b \in Agents : b # a => proc'[b] = proc[b] /\ reply'[b] = reply[b]
  BY <1>0 DEF ChannelTypes
<1>1. ChannelTypes'
  BY <1>0 DEF ChannelTypes, ReplyType, NoReply, Kinds
<1>2. NotesAreLaid'
  BY <1>0 DEF NotesAreLaid
<1>3. CommandsFit'
  <2> SUFFICES ASSUME NEW b \in Agents PROVE CommandsFit!(b)'
    BY DEF CommandsFit
  <2>0. proc[a].turn # 0
    BY <1>0 DEF CommandsFit, Calling
  <2>1. CASE b = a
    BY <2>0, <2>1, <1>a DEF Writing, Reading, Calling
  <2>2. CASE b # a
    BY <2>2, <1>0, <1>a DEF CommandsFit, Writing, Reading, Calling
  <2> QED BY <2>1, <2>2
<1>4. WireFits'
  <2> SUFFICES ASSUME NEW r \in wire, r.by # a \/ r.tool # "query-notes" PROVE WireFits!(r)'
    BY DEF WireFits
  <2>0. r \in Request /\ r.by \in Agents
    BY <1>0 DEF ChannelTypes, Request
  <2>1. CASE r.by = a
    BY <2>0, <2>1, <1>0, <1>a DEF WireFits, Calling
  <2>2. CASE r.by # a
    BY <2>0, <2>2, <1>0, <1>a DEF WireFits, Calling, ToolOf
  <2> QED BY <2>1, <2>2
<1>5. EntriesAreNew'
  <2>1. Distinct(note')
    BY <1>0 DEF EntriesAreNew
  <2>2. ASSUME NEW b \in Agents, NEW t \in Nat \ {0}, Landed(<<b, t>>)'
        PROVE  /\ t \in 1..proc'[b].turn
               /\ \A r \in wire' : ~(r.by = b /\ r.turn = t /\ r.tool = "update-note")
               /\ t = proc'[b].turn =>
                    \/ proc'[b].at = "done"
                    \/ proc'[b].at \in {"append", "again"} /\ reply'[b].kind = "ok"
    <3>1. Landed(<<b, t>>)
      BY <2>2 DEF Landed
    <3>2. CASE b = a
      BY <3>1, <3>2, <1>0, <1>a DEF EntriesAreNew
    <3>3. CASE b # a
      BY <3>1, <3>3, <1>0, <1>a DEF EntriesAreNew
    <3> QED BY <3>2, <3>3
  <2> QED BY <2>1, <2>2 DEF EntriesAreNew
<1>6. WritersKnow'
  <2> SUFFICES ASSUME NEW b \in Agents, b \notin excused' PROVE WritersKnow!(b)'
    BY DEF WritersKnow
  <2>1. CASE b = a
    BY <2>1, <1>a DEF Done, There, Starts, Entry, NoReply
  <2>2. CASE b # a
    <3>1. There(b)' <=> There(b)
      BY <2>2, <1>a DEF There, Starts, Entry
    <3>2. b \in Agents \ excused /\ proc'[b] = proc[b] /\ reply'[b] = reply[b]
      BY <2>2, <1>a
    <3> QED BY <3>1, <3>2, <1>0 DEF WritersKnow, Done
  <2> QED BY <2>1, <2>2
<1>7. ReadersKnow'
  <2> SUFFICES ASSUME NEW b \in Agents, b \notin excused' PROVE ReadersKnow!(b)'
    BY DEF ReadersKnow
  <2>1. CASE b = a
    BY <2>1, <1>a DEF Done
  <2>2. CASE b # a
    BY <2>2, <1>0, <1>a DEF ReadersKnow, Done
  <2> QED BY <2>1, <2>2
<1> QED BY <1>1, <1>2, <1>3, <1>4, <1>5, <1>6, <1>7 DEF ChannelInv

-----------------------------------------------------------------------------
(* A command calls.                                                        *)

LEMMA CallKeeps ==
  ASSUME ChannelInv, NEW a \in Agents, NEW p \in Command, NEW window \in WindowType,
         p.turn >= proc[a].turn, p.turn # 0, p.exit = "none",
         p.at \in {"head", "tail", "append", "create", "again"},
         \A r \in wire : r.by = a => r.turn # p.turn /\ r.tool # "query-notes",
         ~Landed(<<a, p.turn>>),
         p.at \in {"append", "create", "again"} => p.vault # 0 /\ p.action \in {"append", "init"},
         p.at \in {"append", "again"} => p.action = "append",
         p.at \in {"head", "tail"} => p.action = "read",
         p.at = "head" => p.head = NoReply /\ window = headWindow(p.tail),
         p.at = "tail" => window = tailWindow(p.head.total, p.tail),
         excused' \in {excused, excused \ {a}},
         a \notin excused' /\ p.at = "again" => note[p.vault] # <<>>,
         a \notin excused' /\ p.at = "tail" =>
           HeadHolds(note, p.head, p.vault) /\ p.head.total > p.tail,
         Calls(a, p, window), UNCHANGED <<note, binding, attached, deleted>>
  PROVE  ChannelInv'
<1>0. ChannelTypes /\ NotesAreLaid /\ CommandsFit /\ WireFits /\ EntriesAreNew
      /\ WritersKnow /\ ReadersKnow
  BY DEF ChannelInv
<1> DEFINE q == [by |-> a, turn |-> p.turn, tool |-> ToolOf(p.at), vault |-> p.vault,
                 window |-> window]
<1>a. /\ proc'[a] = p /\ reply'[a] = NoReply /\ NoReply.kind = "none"
      /\ \A b \in Agents : b # a => proc'[b] = proc[b] /\ reply'[b] = reply[b]
      /\ wire' = wire \cup {q}
  BY <1>0 DEF ChannelTypes, Calls, Goes, NoReply
<1>b. ToolOf(p.at) \in {"query-notes", "update-note", "create-note"}
      /\ (ToolOf(p.at) = "query-notes" <=> p.at \in {"head", "tail"})
  BY DEF ToolOf
<1>c. q \in Request /\ q.by = a /\ q.turn = p.turn /\ q.tool = ToolOf(p.at)
      /\ q.vault = p.vault /\ q.window = window /\ p.turn \in Nat /\ proc[a].turn \in Nat
  BY <1>0, <1>b DEF Request, Command, ChannelTypes
<1> HIDE DEF q
<1>1. ChannelTypes'
  BY <1>0, <1>a, <1>c DEF ChannelTypes, ReplyType, NoReply, Kinds, Calls, Goes
<1>2. NotesAreLaid'
  BY <1>0 DEF NotesAreLaid
<1>3. CommandsFit'
  <2> SUFFICES ASSUME NEW b \in Agents PROVE CommandsFit!(b)'
    BY DEF CommandsFit
  <2>1. CASE b = a
    BY <2>1, <1>a DEF Writing, Reading, Calling
  <2>2. CASE b # a
    BY <2>2, <1>0, <1>a DEF CommandsFit, Writing, Reading, Calling
  <2> QED BY <2>1, <2>2
<1>4. WireFits'
  <2>1. ASSUME NEW r \in wire PROVE WireFits!(r)'
    <3>0. r \in Request /\ r.by \in Agents /\ r.turn \in Nat
      BY <1>0 DEF ChannelTypes, Request
    <3>1. CASE r.by = a
      BY <3>0, <3>1, <1>0, <1>a, <1>c DEF WireFits, Calling
    <3>2. CASE r.by # a
      BY <3>0, <3>2, <1>0, <1>a, <1>c DEF WireFits, Calling, ToolOf
    <3> QED BY <3>1, <3>2
  <2>2. WireFits!(q)'
    <3>1. \A s \in wire' : s.by = a /\ s.turn = p.turn => s = q
      BY <1>a
    <3> QED BY <3>1, <1>a, <1>b, <1>c DEF Calling, ToolOf
  <2> QED BY <2>1, <2>2, <1>a DEF WireFits
<1>5. EntriesAreNew'
  <2>1. Distinct(note')
    BY <1>0 DEF EntriesAreNew
  <2>2. ASSUME NEW b \in Agents, NEW t \in Nat \ {0}, Landed(<<b, t>>)'
        PROVE  /\ t \in 1..proc'[b].turn
               /\ \A r \in wire' : ~(r.by = b /\ r.turn = t /\ r.tool = "update-note")
               /\ t = proc'[b].turn =>
                    \/ proc'[b].at = "done"
                    \/ proc'[b].at \in {"append", "again"} /\ reply'[b].kind = "ok"
    <3>1. Landed(<<b, t>>)
      BY <2>2 DEF Landed
    <3>2. CASE b = a
      BY <3>1, <3>2, <1>0, <1>a, <1>c DEF EntriesAreNew
    <3>3. CASE b # a
      BY <3>1, <3>3, <1>0, <1>a, <1>c DEF EntriesAreNew
    <3> QED BY <3>2, <3>3
  <2> QED BY <2>1, <2>2 DEF EntriesAreNew
<1>6. WritersKnow'
  <2> SUFFICES ASSUME NEW b \in Agents, b \notin excused' PROVE WritersKnow!(b)'
    BY DEF WritersKnow
  <2>1. CASE b = a
    BY <2>1, <1>a DEF Done
  <2>2. CASE b # a
    <3>1. There(b)' <=> There(b)
      BY <2>2, <1>a DEF There, Starts, Entry
    <3>2. b \in Agents \ excused /\ proc'[b] = proc[b] /\ reply'[b] = reply[b]
      BY <2>2, <1>a
    <3> QED BY <3>1, <3>2, <1>0 DEF WritersKnow, Done
  <2> QED BY <2>1, <2>2
<1>7. ReadersKnow'
  <2> SUFFICES ASSUME NEW b \in Agents, b \notin excused' PROVE ReadersKnow!(b)'
    BY DEF ReadersKnow
  <2>1. CASE b = a
    BY <2>1, <1>a DEF Done
  <2>2. CASE b # a
    BY <2>2, <1>0, <1>a, SMTT(30) DEF ReadersKnow, Done
  <2> QED BY <2>1, <2>2
<1> QED BY <1>1, <1>2, <1>3, <1>4, <1>5, <1>6, <1>7 DEF ChannelInv

-----------------------------------------------------------------------------
(* A vault serves a request.                                               *)

LEMMA ThereStaysTrue ==
  ASSUME note \in [Vaults -> Seq(CharType)], note' \in [Vaults -> Seq(CharType)], NotesGrow,
         NEW a \in Agents, proc'[a] = proc[a], proc[a].vault \in Vaults, There(a)
  PROVE  There(a)'
<1>1. PICK i \in 1..Len(note[proc[a].vault]) : Starts(Entry(a), proc[a].vault, i)
  BY DEF There
<1>2. i \in 1..Len(note'[proc[a].vault]) /\ note'[proc[a].vault][i] = note[proc[a].vault][i]
  BY <1>1 DEF NotesGrow
<1> QED BY <1>1, <1>2 DEF There, Starts, Entry

LEMMA AnswerKeeps ==
  ASSUME ChannelInv, NEW r \in wire, NEW x \in ReplyType,
         note' \in [Vaults -> Seq(CharType)], NotesGrow, NotesAreLaid', Distinct(note'),
         \A b \in Agents, t \in Nat \ {0} : Landed(<<b, t>>)' =>
           \/ Landed(<<b, t>>)
           \/ /\ b = r.by /\ t = r.turn /\ r.tool = "update-note"
              /\ Awaited(r) => x.kind = "ok",
         Awaited(r) =>
           x.kind \in CASE r.tool = "query-notes" -> {"note", "not_found", "denied"}
                        [] r.tool = "update-note" -> {"ok", "not_found", "denied"}
                        [] r.tool = "create-note" -> {"ok", "path_conflict", "denied"},
         wire' = wire \ {r},
         reply' = IF Awaited(r) THEN [reply EXCEPT ![r.by] = x] ELSE reply,
         excused' = excused \/ (Awaited(r) /\ excused' = excused \cup {r.by}),
         UNCHANGED <<binding, proc, attached, deleted>>,
         Awaited(r) /\ r.by \notin excused' =>
           /\ x.kind # "denied"
           /\ r.tool = "update-note" /\ x.kind = "ok" => There(r.by)'
           /\ r.tool = "update-note" /\ x.kind = "not_found" => note[r.vault] = <<>>
           /\ r.tool = "create-note" => note'[r.vault] # <<>>
           /\ proc[r.by].at = "head" /\ x.kind = "note" =>
                /\ HeadHolds(note, x, r.vault)
                /\ x.total <= proc[r.by].tail => Covers(note, x, x.text, proc[r.by].tail)
           /\ proc[r.by].at = "tail" =>
                x.kind = "note" /\ TextHolds(note, proc[r.by].head, x, proc[r.by].tail)
  PROVE  ChannelInv'
<1>0. ChannelTypes /\ NotesAreLaid /\ CommandsFit /\ WireFits /\ EntriesAreNew
      /\ WritersKnow /\ ReadersKnow
  BY DEF ChannelInv
<1>a. /\ r.by \in Agents /\ r.turn \in 1..proc[r.by].turn /\ r.turn \in Nat /\ proc' = proc
      /\ \A b \in Agents : b # r.by => reply'[b] = reply[b]
      /\ ~Awaited(r) => reply' = reply
      /\ Awaited(r) => reply'[r.by] = x
  BY <1>0 DEF ChannelTypes, Request, WireFits
<1>b. Awaited(r) => /\ Calling(r.by) /\ proc[r.by].turn = r.turn /\ reply[r.by].kind = "none"
                    /\ r.tool = ToolOf(proc[r.by].at) /\ r.vault = proc[r.by].vault
  BY <1>0, <1>a DEF WireFits, Awaited
<1>c. Awaited(r) => /\ r.tool = "query-notes" <=> Reading(r.by)
                    /\ r.tool = "update-note" <=> proc[r.by].at \in {"append", "again"}
                    /\ r.tool = "create-note" <=> proc[r.by].at = "create"
  BY <1>b DEF ToolOf, Calling, Reading
<1>d. \A b \in Agents : b \notin excused' => b \notin excused
  OBVIOUS
<1>1. ChannelTypes'
  BY <1>0, <1>a DEF ChannelTypes
<1>3. CommandsFit'
  <2> SUFFICES ASSUME NEW b \in Agents PROVE CommandsFit!(b)'
    BY DEF CommandsFit
  <2>1. CASE b = r.by /\ Awaited(r)
    BY <2>1, <1>0, <1>a, <1>b, <1>c DEF CommandsFit, Writing, Reading, Calling
  <2>2. CASE ~(b = r.by /\ Awaited(r))
    BY <2>2, <1>0, <1>a DEF CommandsFit, Writing, Reading, Calling
  <2> QED BY <2>1, <2>2
<1>4. WireFits'
  <2> SUFFICES ASSUME NEW s \in wire, s # r PROVE WireFits!(s)'
    BY DEF WireFits
  <2>0. s \in Request /\ s.by \in Agents
    BY <1>0 DEF ChannelTypes, Request
  <2>1. CASE s.by = r.by /\ Awaited(r)
    <3>1. s.turn # proc[s.by].turn
      BY <2>1, <1>0, <1>b DEF WireFits
    <3> QED BY <2>0, <2>1, <3>1, <1>0, <1>a DEF WireFits
  <2>2. CASE ~(s.by = r.by /\ Awaited(r))
    <3>1. reply'[s.by] = reply[s.by]
      BY <2>0, <2>2, <1>a
    <3> QED BY <2>0, <3>1, <1>0, <1>a DEF WireFits, Calling
  <2> QED BY <2>1, <2>2
<1>5. EntriesAreNew'
  <2>2. ASSUME NEW b \in Agents, NEW t \in Nat \ {0}, Landed(<<b, t>>)'
        PROVE  /\ t \in 1..proc'[b].turn
               /\ \A s \in wire' : ~(s.by = b /\ s.turn = t /\ s.tool = "update-note")
               /\ t = proc'[b].turn =>
                    \/ proc'[b].at = "done"
                    \/ proc'[b].at \in {"append", "again"} /\ reply'[b].kind = "ok"
    <3>1. CASE Landed(<<b, t>>)
      <4>1. CASE b = r.by /\ Awaited(r)
        BY <3>1, <4>1, <1>0, <1>a, <1>b DEF EntriesAreNew, Calling
      <4>2. CASE ~(b = r.by /\ Awaited(r))
        BY <3>1, <4>2, <1>0, <1>a DEF EntriesAreNew
      <4> QED BY <4>1, <4>2
    <3>2. CASE b = r.by /\ t = r.turn /\ r.tool = "update-note" /\ (Awaited(r) => x.kind = "ok")
      <4>1. \A s \in wire' : ~(s.by = b /\ s.turn = t)
        BY <3>2, <1>0 DEF WireFits
      <4>2. ASSUME t = proc[b].turn
            PROVE  \/ proc'[b].at = "done"
                   \/ proc'[b].at \in {"append", "again"} /\ reply'[b].kind = "ok"
        <5>1. CASE Awaited(r)
          BY <5>1, <3>2, <1>a, <1>c
        <5>2. CASE ~Awaited(r)
          <6>1. ~Calling(b) /\ proc[b].at \notin {"idle", "lookup"}
            BY <5>2, <4>2, <3>2, <1>0 DEF WireFits, Awaited
          <6>2. proc[b] \in Command
            BY <1>0 DEF ChannelTypes
          <6> QED BY <6>1, <6>2 DEF Calling, Command
        <5> QED BY <5>1, <5>2
      <4> QED BY <3>2, <4>1, <4>2, <1>a
    <3> QED BY <2>2, <3>1, <3>2
  <2> QED BY <2>2 DEF EntriesAreNew
<1>6. WritersKnow'
  <2> SUFFICES ASSUME NEW b \in Agents, b \notin excused' PROVE WritersKnow!(b)'
    BY DEF WritersKnow
  <2>0. /\ b \in Agents \ excused /\ note \in [Vaults -> Seq(CharType)]
        /\ proc[b] \in Command /\ proc'[b] = proc[b]
    BY <1>0, <1>d, <1>a DEF ChannelTypes
  <2>1. \A v \in Vaults : note[v] # <<>> => note'[v] # <<>>
    <3> SUFFICES ASSUME NEW v \in Vaults, note[v] # <<>> PROVE note'[v] # <<>>
      OBVIOUS
    <3>1. Len(note[v]) # 0 /\ Len(note[v]) \in Nat
      BY <2>0
    <3> QED BY <3>1, <2>0 DEF NotesGrow
  <2>2. proc[b].vault # 0 /\ There(b) => There(b)'
    BY <2>0, ThereStaysTrue DEF Command
  <2>3. proc[b].vault # 0 => proc[b].vault \in Vaults
    BY <2>0 DEF Command
  <2>4. Writing(b) => proc[b].vault # 0
    BY <1>0 DEF CommandsFit
  <2>5. CASE b = r.by /\ Awaited(r)
    <3>1. /\ r.vault = proc[b].vault /\ reply'[b] = x /\ proc[b].at # "done"
          /\ x.kind # "denied" /\ proc[b].exit # "toolError"
      BY <2>0, <2>5, <1>0, <1>a, <1>b DEF WritersKnow, Calling
    <3>2. proc[b].at \in {"append", "again"} => r.tool = "update-note"
      BY <2>5, <1>c
    <3>3. proc[b].at = "create" => r.tool = "create-note"
      BY <2>5, <1>c
    <3>4. proc[b].at = "again" => note[proc[b].vault] # <<>> /\ note'[proc[b].vault] # <<>>
      BY <2>0, <2>1, <2>3, <2>4, <1>0 DEF WritersKnow, Writing
    <3> QED BY <2>0, <2>5, <3>1, <3>2, <3>3, <3>4 DEF Done
  <2>6. CASE ~(b = r.by /\ Awaited(r))
    <3>1. reply'[b] = reply[b]
      BY <2>6, <1>a
    <3> QED BY <2>0, <2>1, <2>2, <2>3, <2>4, <3>1, <1>0 DEF WritersKnow, Done, Writing
  <2> QED BY <2>5, <2>6
<1>7. ReadersKnow'
  <2> SUFFICES ASSUME NEW b \in Agents, b \notin excused' PROVE ReadersKnow!(b)'
    BY DEF ReadersKnow
  <2>0. /\ b \in Agents \ excused /\ note \in [Vaults -> Seq(CharType)]
        /\ proc[b] \in Command /\ proc'[b] = proc[b]
    BY <1>0, <1>d, <1>a DEF ChannelTypes
  <2>1. \A h, v : HeadHolds(note, h, v) => HeadHolds(note', h, v)
    BY <2>0, HeadStaysTrue
  <2>2. \A h, t, y : h \in NoteReply /\ Covers(note, h, t, y) => Covers(note', h, t, y)
    BY <2>0, CoverStaysTrue
  <2>3. \A h, t, y : h \in NoteReply /\ TextHolds(note, h, t, y) => TextHolds(note', h, t, y)
    BY <2>0, TextStaysTrue
  <2>4. \A h, v : HeadHolds(note, h, v) => h \in NoteReply
    BY DEF HeadHolds
  <2>5. CASE b = r.by /\ Awaited(r)
    <3>1. r.vault = proc[b].vault /\ reply'[b] = x /\ proc[b].at # "done"
      BY <2>5, <1>a, <1>b DEF Calling
    <3> QED BY <2>0, <2>1, <2>2, <2>3, <2>4, <2>5, <3>1, <1>0 DEF ReadersKnow, Done
  <2>6. CASE ~(b = r.by /\ Awaited(r))
    <3>1. reply'[b] = reply[b]
      BY <2>6, <1>a
    <3> QED BY <2>0, <2>1, <2>2, <2>3, <2>4, <3>1, <1>0 DEF ReadersKnow, Done
  <2> QED BY <2>5, <2>6
<1> QED BY <1>1, <1>3, <1>4, <1>5, <1>6, <1>7 DEF ChannelInv

LEMMA LeastExists ==
  ASSUME NEW T \in SUBSET Nat, T # {}
  PROVE  Min(T) \in T /\ \A y \in T : Min(T) <= y
<1> PICK t \in T : TRUE
  OBVIOUS
<1> DEFINE U == {z \in 0..t : \A y \in T : z <= y}
<1>1. U \in SUBSET Nat /\ 0 \in U /\ \A z \in U : z <= t
  OBVIOUS
<1>2. Max(U) \in U /\ \A z \in U : z <= Max(U)
  <2> HIDE DEF U
  <2> QED BY <1>1, GreatestExists, t \in Nat
<1>3. Max(U) \in T
  <2> SUFFICES ASSUME Max(U) \notin T PROVE FALSE
    OBVIOUS
  <2>1. Max(U) \in 0..t /\ \A y \in T : Max(U) <= y
    BY <1>2
  <2> DEFINE m == Max(U)
  <2> HIDE DEF m
  <2>2. m \in 0..t /\ m \notin T /\ \A y \in T : m <= y
    BY <2>1 DEF m
  <2>3. m + 1 \in U
    BY <2>2
  <2> QED BY <2>2, <2>3, <1>2 DEF m
<1> QED BY <1>2, <1>3 DEF Min

LEMMA ServeQueryKeeps ==
  ASSUME ChannelInv, NEW r \in wire, r.tool = "query-notes",
         Answer(r, IF Holders(r) = {} THEN "not_found" ELSE "note"),
         wire' = wire \ {r}, UNCHANGED <<note, binding, proc, attached, deleted, excused>>
  PROVE  ChannelInv'
<1>0. ChannelTypes /\ NotesAreLaid /\ CommandsFit /\ WireFits /\ EntriesAreNew
      /\ WritersKnow /\ ReadersKnow
  BY DEF ChannelInv
<1> DEFINE x == IF Holders(r) = {} THEN [kind |-> "not_found"] ELSE Found(r)
<1>1. /\ r \in Request /\ r.by \in Agents /\ r.window \in WindowType
      /\ note \in [Vaults -> Seq(CharType)]
  BY <1>0 DEF ChannelTypes, Request
<1>2. ASSUME Holders(r) # {}
      PROVE  LET v == Min(Holders(r))
             IN  /\ v \in Vaults /\ note[v] # <<>> /\ (r.vault # 0 => v = r.vault)
                 /\ Found(r) \in NoteReply /\ Found(r).vault = v
                 /\ Found(r).length = Len(note[v]) /\ Found(r).total = Bytes(note[v], Len(note[v]))
                 /\ Found(r).text = Slice(note[v], r.window.offset, r.window.length)
  <2> DEFINE v == Min(Holders(r))
  <2>1. Holders(r) \in SUBSET Nat
    BY <1>1 DEF Holders, Asked, Vaults, Request
  <2>2. v \in Holders(r)
    BY <1>2, <2>1, LeastExists
  <2>3. v \in Vaults /\ note[v] # <<>> /\ (r.vault # 0 => v = r.vault)
    BY <2>2, <1>1 DEF Holders, Asked, Request
  <2>4. note[v] \in Seq(CharType) /\ Laid(note[v])
    BY <2>3, <1>0, <1>1 DEF NotesAreLaid
  <2>5. Slice(note[v], r.window.offset, r.window.length) \in SpanType
    BY <2>4, <1>1, SliceIsSpan DEF WindowType
  <2>6. Len(note[v]) \in Nat /\ Bytes(note[v], Len(note[v])) \in Nat
    BY <2>4, BytesAreNat
  <2>7. /\ Found(r).vault = v /\ Found(r) \in NoteReply
        /\ Found(r).length = Len(note[v]) /\ Found(r).total = Bytes(note[v], Len(note[v]))
        /\ Found(r).text = Slice(note[v], r.window.offset, r.window.length)
    BY <2>3, <2>5, <2>6 DEF Found, NoteReply
  <2> QED BY <2>3, <2>7
<1>3. /\ x \in ReplyType /\ (Holders(r) = {} => x.kind = "not_found")
      /\ Holders(r) # {} => x = Found(r) /\ x.kind = "note"
  <2>1. CASE Holders(r) = {}
    BY <2>1 DEF ReplyType, Kinds
  <2>2. CASE Holders(r) # {}
    BY <2>2, <1>2 DEF ReplyType, NoteReply
  <2> QED BY <2>1, <2>2
<1>4. reply' = IF Awaited(r) THEN [reply EXCEPT ![r.by] = x] ELSE reply
  BY DEF Answer
<1>5. NotesGrow /\ NotesAreLaid' /\ Distinct(note') /\ \A e : Landed(e)' => Landed(e)
  BY <1>0, <1>1 DEF NotesGrow, NotesAreLaid, EntriesAreNew, Landed
<1>6. Awaited(r) =>
        /\ r.vault = proc[r.by].vault
        /\ proc[r.by].at \in {"head", "tail"}
        /\ proc[r.by].at = "head" => r.window = headWindow(proc[r.by].tail)
        /\ proc[r.by].at = "tail" =>
             r.window = tailWindow(proc[r.by].head.total, proc[r.by].tail)
  BY <1>0, <1>1 DEF WireFits, Awaited, ToolOf, Calling
<1>7. proc[r.by].tail \in Nat
  BY <1>0, <1>1 DEF ChannelTypes, Command
<1> HIDE DEF x
<1>8. ASSUME Awaited(r), r.by \notin excused, proc[r.by].at = "head", x.kind = "note"
      PROVE  /\ HeadHolds(note, x, r.vault)
             /\ x.total <= proc[r.by].tail => Covers(note, x, x.text, proc[r.by].tail)
  <2>1. Holders(r) # {}
    BY <1>3, <1>8
  <2> DEFINE v == Min(Holders(r))
  <2>2. /\ v \in Vaults /\ note[v] # <<>> /\ (r.vault # 0 => v = r.vault)
        /\ x \in NoteReply /\ x.vault = v
        /\ x.length = Len(note[v]) /\ x.total = Bytes(note[v], Len(note[v]))
        /\ x.text = Slice(note[v], r.window.offset, r.window.length)
    BY <2>1, <1>2, <1>3
  <2> HIDE DEF v
  <2>3. Len(note[v]) \in 1..Len(note[v]) /\ note[v] \in Seq(CharType) /\ Laid(note[v])
    BY <2>2, <1>0, <1>1 DEF NotesAreLaid
  <2>4. HeadHolds(note, x, r.vault)
    BY <2>2, <2>3 DEF HeadHolds
  <2>5. ASSUME x.total <= proc[r.by].tail PROVE x.text.from = 0 /\ x.text.to >= Len(note[v])
    BY <2>2, <2>3, <2>5, <1>6, <1>7, <1>8, HeadWindowCovers
  <2>6. x.total \in Nat
    BY <2>2 DEF NoteReply
  <2>7. x.total <= proc[r.by].tail => Covers(note, x, x.text, proc[r.by].tail)
    BY <2>2, <2>3, <2>5, <2>6, <1>7 DEF Covers
  <2> QED BY <2>4, <2>7
<1>9. ASSUME Awaited(r), r.by \notin excused, proc[r.by].at = "tail"
      PROVE  x.kind = "note" /\ TextHolds(note, proc[r.by].head, x, proc[r.by].tail)
  <2> DEFINE h == proc[r.by].head
             tail == proc[r.by].tail
  <2>0. HeadHolds(note, h, proc[r.by].vault) /\ h.total > tail
    BY <1>0, <1>1, <1>9 DEF ReadersKnow
  <2>1. h.vault \in Vaults
    BY <2>0 DEF HeadHolds, NoteReply
  <2>2. h.vault \in Holders(r)
    BY <2>0, <2>1, <1>6, <1>9 DEF HeadHolds, Holders, Asked
  <2> DEFINE v == Min(Holders(r))
  <2>3. /\ v \in Vaults /\ note[v] # <<>> /\ x \in NoteReply /\ x.vault = v /\ x.kind = "note"
        /\ x.text = Slice(note[v], r.window.offset, r.window.length)
    BY <2>2, <1>2, <1>3
  <2> HIDE DEF v
  <2>4. ASSUME v = h.vault PROVE Covers(note, h, x.text, tail)
    <3>1. note[v] \in Seq(CharType) /\ Laid(note[v])
      BY <2>3, <1>0, <1>1 DEF NotesAreLaid
    <3>2. h.length \in 0..Len(note[v]) /\ h.total = Bytes(note[v], h.length)
      BY <2>0, <2>4 DEF HeadHolds
    <3>3. /\ x.text.to >= h.length /\ x.text.from \in 0..Len(note[v])
          /\ h.total - Bytes(note[v], x.text.from) >= tail
      BY <3>1, <3>2, <2>0, <2>3, <1>6, <1>7, <1>9, TailWindowCovers
    <3>4. h.total \in Nat
      BY <2>0 DEF HeadHolds, NoteReply
    <3> QED BY <3>3, <3>4, <2>0, <2>4, <1>7 DEF Covers
  <2> QED BY <2>3, <2>4 DEF TextHolds
<1> QED BY <1>0, <1>1, <1>3, <1>4, <1>5, <1>6, <1>8, <1>9, AnswerKeeps

\* What is awaited, in the words of the request.
LEMMA AwaitedIs ==
  ASSUME ChannelTypes, WireFits, NEW r \in wire
  PROVE  /\ r \in Request /\ r.by \in Agents /\ r.turn \in 1..proc[r.by].turn
         /\ Awaited(r) =>
              /\ Calling(r.by) /\ r.vault = proc[r.by].vault
              /\ r.tool = "query-notes" <=> Reading(r.by)
              /\ r.tool = "update-note" <=> proc[r.by].at \in {"append", "again"}
              /\ r.tool = "create-note" <=> proc[r.by].at = "create"
BY DEF ChannelTypes, Request, WireFits, Awaited, ToolOf, Calling, Reading

\* A vault refuses, or has nothing to do: the notes stay.
LEMMA ServeRefusalKeeps ==
  ASSUME ChannelInv, NEW r \in wire, NEW kind \in {"not_found", "path_conflict", "denied"},
         Answer(r, kind), wire' = wire \ {r},
         UNCHANGED <<note, binding, proc, attached, deleted>>,
         kind = "not_found" => r.tool = "update-note" /\ note[r.vault] = <<>>,
         kind = "path_conflict" => r.tool = "create-note" /\ note[r.vault] # <<>>,
         excused' = IF kind = "denied" /\ Awaited(r) THEN excused \cup {r.by} ELSE excused
  PROVE  ChannelInv'
<1>0. ChannelTypes /\ NotesAreLaid /\ WireFits /\ EntriesAreNew
  BY DEF ChannelInv
<1> DEFINE x == [kind |-> kind]
<1>1. x \in ReplyType /\ x.kind = kind
  BY DEF ReplyType, Kinds
<1>2. reply' = IF Awaited(r) THEN [reply EXCEPT ![r.by] = x] ELSE reply
  BY DEF Answer
<1>3. note' \in [Vaults -> Seq(CharType)]
  BY <1>0 DEF ChannelTypes
<1>4. NotesGrow /\ NotesAreLaid' /\ Distinct(note') /\ \A e : Landed(e)' => Landed(e)
  BY <1>0, <1>3 DEF NotesGrow, NotesAreLaid, EntriesAreNew, Landed
<1>5. r.tool \in {"query-notes", "update-note", "create-note"}
  BY <1>0, AwaitedIs DEF Request
<1>6. kind = "denied" /\ Awaited(r) => r.by \in excused'
  OBVIOUS
<1> HIDE DEF x
<1> QED BY <1>0, <1>1, <1>2, <1>3, <1>4, <1>5, <1>6, AwaitedIs, AnswerKeeps DEF Reading

LEMMA ServeCreateKeeps ==
  ASSUME ChannelInv, NEW r \in wire, r.tool = "create-note", note[r.vault] = <<>>,
         note' = [note EXCEPT ![r.vault] = initialContent], Answer(r, "ok"),
         wire' = wire \ {r}, UNCHANGED <<binding, proc, attached, deleted, excused>>
  PROVE  ChannelInv'
<1>0. ChannelTypes /\ NotesAreLaid /\ WireFits /\ EntriesAreNew
  BY DEF ChannelInv
<1> DEFINE x == [kind |-> "ok"]
<1>1. x \in ReplyType /\ x.kind = "ok"
  BY DEF ReplyType, Kinds
<1>2. reply' = IF Awaited(r) THEN [reply EXCEPT ![r.by] = x] ELSE reply
  BY DEF Answer
<1>3. /\ r.vault \in Vaults /\ note \in [Vaults -> Seq(CharType)]
      /\ note' \in [Vaults -> Seq(CharType)]
      /\ note'[r.vault] = initialContent
      /\ \A v \in Vaults : v # r.vault => note'[v] = note[v]
  BY <1>0, AwaitedIs, FirstNoteIsLaid DEF ChannelTypes, WireFits, Request
<1>4. NotesGrow
  <2> SUFFICES ASSUME NEW v \in Vaults PROVE NotesGrow!(v)
    BY DEF NotesGrow
  <2>1. CASE v = r.vault
    BY <2>1, <1>3, FirstNoteIsLaid
  <2>2. CASE v # r.vault
    BY <2>2, <1>3
  <2> QED BY <2>1, <2>2
<1>5. NotesAreLaid'
  <2> SUFFICES ASSUME NEW v \in Vaults
               PROVE  Laid(note'[v]) /\ (note'[v] # <<>> => note'[v][1] = initialContent[1])
    BY DEF NotesAreLaid, Laid, Bytes
  <2>1. CASE v = r.vault
    BY <2>1, <1>3, FirstNoteIsLaid
  <2>2. CASE v # r.vault
    BY <2>2, <1>0, <1>3 DEF NotesAreLaid
  <2> QED BY <2>1, <2>2
<1>6. \A v \in Vaults : \A i \in 1..Len(note'[v]) :
        \/ v = r.vault /\ note'[v][i].width # 1 /\ note'[v][i].of = <<"header", 0>>
        \/ v # r.vault /\ i \in 1..Len(note[v]) /\ note'[v][i] = note[v][i]
  <2> SUFFICES ASSUME NEW v \in Vaults, NEW i \in 1..Len(note'[v])
               PROVE  \/ v = r.vault /\ note'[v][i].width # 1
                         /\ note'[v][i].of = <<"header", 0>>
                      \/ v # r.vault /\ i \in 1..Len(note[v]) /\ note'[v][i] = note[v][i]
    OBVIOUS
  <2>1. CASE v = r.vault
    <3>1. note'[v] = initialContent /\ Len(note'[v]) = 1
      BY <2>1, <1>3, FirstNoteIsLaid
    <3>2. i \in 1..1
      BY <3>1
    <3> QED BY <2>1, <3>1, <3>2, FirstNoteIsLaid
  <2>2. CASE v # r.vault
    BY <2>2, <1>3
  <2> QED BY <2>1, <2>2
<1>7. Distinct(note')
  BY <1>0, <1>6 DEF EntriesAreNew, Distinct
<1>8. ASSUME NEW b \in Agents, NEW t \in Nat \ {0}, Landed(<<b, t>>)' PROVE Landed(<<b, t>>)
  <2>1. PICK v \in Vaults : \E i \in 1..Len(note'[v]) : note'[v][i].of = <<b, t>>
    BY <1>8 DEF Landed
  <2>2. CASE v # r.vault
    BY <2>1, <2>2, <1>6 DEF Landed
  <2>3. CASE v = r.vault
    <3>1. <<b, t>> = <<"header", 0>>
      BY <2>1, <2>3, <1>6
    <3> QED BY <3>1
  <2> QED BY <2>2, <2>3
<1> HIDE DEF x
<1> QED BY <1>0, <1>1, <1>2, <1>3, <1>4, <1>5, <1>7, <1>8, AwaitedIs, FirstNoteIsLaid,
           AnswerKeeps DEF Reading

\* The entry of the request becomes the end of its note.
Lands(r) ==
  note' = [note EXCEPT ![r.vault] =
             @ \o normalizeEntry(<<r.by, r.turn>>, Bytes(@, Len(@)))]

LEMMA ServeUpdateKeeps ==
  ASSUME ChannelInv, NEW r \in wire, r.tool = "update-note", note[r.vault] # <<>>, Lands(r),
         Answer(r, "ok"), wire' = wire \ {r},
         UNCHANGED <<binding, proc, attached, deleted, excused>>
  PROVE  ChannelInv'
<1>0. ChannelTypes /\ NotesAreLaid /\ CommandsFit /\ WireFits /\ EntriesAreNew
  BY DEF ChannelInv
<1> DEFINE x == [kind |-> "ok"]
           c == note[r.vault]
           e == <<r.by, r.turn>>
           d == c \o normalizeEntry(e, Bytes(c, Len(c)))
<1>1. x \in ReplyType /\ x.kind = "ok"
  BY DEF ReplyType, Kinds
<1>2. reply' = IF Awaited(r) THEN [reply EXCEPT ![r.by] = x] ELSE reply
  BY DEF Answer
<1>3. /\ r.vault \in Vaults /\ note \in [Vaults -> Seq(CharType)] /\ c \in Seq(CharType)
      /\ Laid(c) /\ r.by \in Agents /\ r.turn \in Nat \ {0} /\ e \in Agents \X Nat
  BY <1>0, AwaitedIs DEF ChannelTypes, WireFits, Request, NotesAreLaid
<1>4. /\ d \in Seq(CharType) /\ Laid(d) /\ Len(d) = Len(c) + 2
      /\ \A i \in 1..Len(c) : d[i] = c[i]
      /\ d[Len(c) + 1].of = e /\ d[Len(c) + 1].width = 1
      /\ d[Len(c) + 2].of = e /\ d[Len(c) + 2].width = 4
  BY <1>3, NoteGrows, ZenonT(60)
<1>5. /\ note' \in [Vaults -> Seq(CharType)] /\ note'[r.vault] = d
      /\ \A v \in Vaults : v # r.vault => note'[v] = note[v]
  BY <1>3, <1>4 DEF Lands
<1>6. Len(c) \in Nat \ {0}
  BY <1>3
<1>e. ~Landed(e)
  BY <1>0, <1>3 DEF EntriesAreNew
<1> HIDE DEF x, e, d, c
<1>7. NotesGrow
  <2> SUFFICES ASSUME NEW v \in Vaults PROVE NotesGrow!(v)
    BY DEF NotesGrow
  <2>1. CASE v = r.vault
    <3>1. note'[v] = d /\ note[v] = c
      BY <2>1, <1>5 DEF c
    <3>2. Len(d) = Len(c) + 2
      BY <1>4
    <3>3. Len(note[v]) <= Len(note'[v])
      <4>1. Len(note[v]) = Len(c)
        BY <3>1
      <4>2. Len(note'[v]) = Len(d)
        BY <3>1
      <4>3. Len(c) \in Nat
        BY <1>6
      <4>4. Len(c) <= Len(c) + 2
        BY <4>3
      <4>5. Len(c) <= Len(d)
        BY <3>2, <4>4
      <4> QED BY <4>1, <4>2, <4>5
    <3>4. \A i \in 1..Len(c) : d[i] = c[i]
      BY <1>4
    <3>5. \A i \in 1..Len(note[v]) : note'[v][i] = note[v][i]
      BY <3>1, <3>4
    <3> QED BY <3>3, <3>5
  <2>2. CASE v # r.vault
    BY <2>2, <1>3, <1>5
  <2> QED BY <2>1, <2>2
<1>8. NotesAreLaid'
  <2> SUFFICES ASSUME NEW v \in Vaults
               PROVE  Laid(note'[v]) /\ (note'[v] # <<>> => note'[v][1] = initialContent[1])
    BY DEF NotesAreLaid, Laid, Bytes
  <2>1. CASE v = r.vault
    <3>1. 1 \in 1..Len(c) /\ d[1] = c[1]
      BY <1>4, <1>6
    <3>2. c[1] = initialContent[1]
      BY <1>0, <1>3 DEF NotesAreLaid, c
    <3> QED BY <2>1, <3>1, <3>2, <1>4, <1>5
  <2>2. CASE v # r.vault
    BY <2>2, <1>0, <1>5 DEF NotesAreLaid
  <2> QED BY <2>1, <2>2
<1>9. \A v \in Vaults : \A i \in 1..Len(note'[v]) :
        \/ i \in 1..Len(note[v]) /\ note'[v][i] = note[v][i]
        \/ v = r.vault /\ i = Len(c) + 1 /\ note'[v][i].of = e
        \/ v = r.vault /\ i = Len(c) + 2 /\ note'[v][i].of = e /\ note'[v][i].width = 4
  <2> SUFFICES ASSUME NEW v \in Vaults, NEW i \in 1..Len(note'[v])
               PROVE  \/ i \in 1..Len(note[v]) /\ note'[v][i] = note[v][i]
                      \/ v = r.vault /\ i = Len(c) + 1 /\ note'[v][i].of = e
                      \/ v = r.vault /\ i = Len(c) + 2 /\ note'[v][i].of = e
                         /\ note'[v][i].width = 4
    OBVIOUS
  <2>1. CASE v = r.vault
    <3>1. note'[v] = d /\ note[v] = c /\ i \in 1..(Len(c) + 2)
      BY <2>1, <1>4, <1>5 DEF c
    <3>2. i \in 1..Len(c) \/ i = Len(c) + 1 \/ i = Len(c) + 2
      BY <3>1, <1>6
    <3> QED BY <2>1, <3>1, <3>2, <1>4
  <2>2. CASE v # r.vault
    BY <2>2, <1>5
  <2> QED BY <2>1, <2>2
<1>10. Distinct(note')
  <2>1. ASSUME NEW v \in Vaults, NEW w \in Vaults,
               NEW i \in 1..Len(note'[v]), NEW j \in 1..Len(note'[w]),
               note'[v][i].width = 1 /\ note'[w][j].width = 1
               /\ note'[v][i].of = note'[w][j].of
        PROVE  v = w /\ i = j
    <3>1. CASE i \in 1..Len(note[v]) /\ note'[v][i] = note[v][i]
      <4>1. note'[w][j].of # e
        BY <3>1, <2>1, <1>e DEF Landed
      <4>2. j \in 1..Len(note[w]) /\ note'[w][j] = note[w][j]
        BY <4>1, <1>9
      <4>3. Distinct(note)
        BY <1>0 DEF EntriesAreNew
      <4>4. /\ note[v][i].width = 1 /\ note[w][j].width = 1
            /\ note[v][i].of = note[w][j].of
        BY <2>1, <3>1, <4>2
      <4> QED BY <3>1, <4>2, <4>3, <4>4, Zenon DEF Distinct
    <3>2. CASE ~(i \in 1..Len(note[v]) /\ note'[v][i] = note[v][i])
      <4>1. v = r.vault /\ i = Len(c) + 1 /\ note'[v][i].of = e
        <5>1. \/ v = r.vault /\ i = Len(c) + 1 /\ note'[v][i].of = e
              \/ v = r.vault /\ i = Len(c) + 2 /\ note'[v][i].of = e /\ note'[v][i].width = 4
          BY <3>2, <1>9
        <5>2. note'[v][i].width # 4
          BY <2>1
        <5> QED BY <5>1, <5>2, Zenon
      <4>2. ASSUME j \in 1..Len(note[w]), note'[w][j] = note[w][j] PROVE FALSE
        <5>1. note[w][j].of = e
          BY <4>1, <4>2, <2>1
        <5> QED BY <5>1, <4>2, <1>e DEF Landed
      <4>3. w = r.vault /\ j = Len(c) + 1
        <5>1. \/ w = r.vault /\ j = Len(c) + 1 /\ note'[w][j].of = e
              \/ w = r.vault /\ j = Len(c) + 2 /\ note'[w][j].of = e /\ note'[w][j].width = 4
          BY <4>2, <1>9
        <5>2. note'[w][j].width # 4
          BY <2>1
        <5> QED BY <5>1, <5>2, Zenon
      <4> QED BY <4>1, <4>3
    <3> QED BY <3>1, <3>2
  <2> QED BY <2>1, Zenon DEF Distinct
<1>11. ASSUME NEW b \in Agents, NEW t \in Nat \ {0}, Landed(<<b, t>>)'
       PROVE  Landed(<<b, t>>) \/ (b = r.by /\ t = r.turn)
  <2>1. PICK v \in Vaults : \E i \in 1..Len(note'[v]) : note'[v][i].of = <<b, t>>
    BY <1>11 DEF Landed
  <2>2. PICK i \in 1..Len(note'[v]) : note'[v][i].of = <<b, t>>
    BY <2>1
  <2>3. CASE i \in 1..Len(note[v]) /\ note'[v][i] = note[v][i]
    BY <2>2, <2>3 DEF Landed
  <2>4. CASE <<b, t>> = e
    BY <2>4 DEF e
  <2> QED BY <2>2, <2>3, <2>4, <1>9
<1>12. Awaited(r) => There(r.by)'
  <2> SUFFICES ASSUME Awaited(r) PROVE There(r.by)'
    OBVIOUS
  <2>1. proc[r.by].vault = r.vault /\ proc[r.by].turn = r.turn
    BY <1>0, AwaitedIs DEF Awaited
  <2>2. Len(c) + 1 \in 1..Len(d)
    BY <1>4, <1>6
  <2>3. note'[proc'[r.by].vault] = d /\ Entry(r.by)' = e /\ proc'[r.by].vault = r.vault
    BY <2>1, <1>5 DEF Entry, e
  <2>4. PICK k \in 1..Len(d) : d[k].of = e /\ d[k].width = 1
    BY <2>2, <1>4
  <2>5. k \in 1..Len(note'[proc'[r.by].vault])
    BY <2>3, <2>4
  <2>6. /\ note'[proc'[r.by].vault][k].of = Entry(r.by)'
        /\ note'[proc'[r.by].vault][k].width = 1
    BY <2>3, <2>4
  <2> QED BY <2>5, <2>6 DEF There, Starts
<1>13. r.tool # "create-note" /\ r.tool # "query-notes" /\ x.kind \in {"ok", "not_found", "denied"}
       /\ x.kind # "denied" /\ x.kind # "note" /\ x.kind # "not_found"
  BY <1>1
<1>14. Awaited(r) => proc[r.by].at # "head" /\ proc[r.by].at # "tail"
  BY <1>0, AwaitedIs DEF Reading
<1> QED BY <1>0, <1>1, <1>2, <1>5, <1>7, <1>8, <1>10, <1>11, <1>12, <1>13, <1>14, AnswerKeeps

LEMMA ServeKeeps ==
  ASSUME ChannelInv, NEW r \in wire, ServeCall(r)
  PROVE  ChannelInv'
<1>1. CASE Serves(r) /\ UNCHANGED excused
  <2>1. CASE Serves(r)!1
    BY <1>1, <2>1, ServeQueryKeeps DEF ServeCall
  <2>2. CASE Serves(r)!2
    BY <1>1, <2>2, ServeUpdateKeeps DEF ServeCall, Lands
  <2>3. CASE Serves(r)!3
    BY <1>1, <2>3, ServeRefusalKeeps DEF ServeCall
  <2>4. CASE Serves(r)!4
    BY <1>1, <2>4, ServeCreateKeeps DEF ServeCall
  <2>5. CASE Serves(r)!5
    BY <1>1, <2>5, ServeRefusalKeeps DEF ServeCall
  <2> QED BY <1>1, <2>1, <2>2, <2>3, <2>4, <2>5 DEF Serves
<1>2. CASE /\ Answer(r, "denied") /\ UNCHANGED note
           /\ excused' = IF Awaited(r) THEN excused \cup {r.by} ELSE excused
  BY <1>2, ServeRefusalKeeps DEF ServeCall
<1> QED BY <1>1, <1>2 DEF ServeCall

-----------------------------------------------------------------------------
(* The steps of a command.                                                 *)

\* What the parts say of a command that is about to act.
LEMMA CommandIs ==
  ASSUME ChannelInv, NEW a \in Agents
  PROVE  /\ proc[a] \in Command /\ reply[a] \in ReplyType /\ proc[a].turn \in Nat
         /\ \A r \in wire : r.by = a =>
              /\ r.turn \in Nat /\ r.turn <= proc[a].turn
              /\ proc[a].at \in {"idle", "lookup"} => r.turn # proc[a].turn
              /\ ~Calling(a) => r.tool # "query-notes"
              /\ reply[a].kind # "none" => r.turn # proc[a].turn \/ ~Calling(a)
              /\ reply[a].kind # "none" => r.tool # "query-notes"
         /\ \A t \in Nat : t > proc[a].turn => ~Landed(<<a, t>>)
         /\ proc[a].at \notin {"idle", "done"} =>
              /\ proc[a].turn # 0
              /\ (proc[a].at \in {"append", "again"} => reply[a].kind # "ok")
                   => ~Landed(<<a, proc[a].turn>>)
<1>1. ChannelTypes /\ CommandsFit /\ WireFits /\ EntriesAreNew
  BY DEF ChannelInv
<1>2. proc[a] \in Command /\ reply[a] \in ReplyType /\ proc[a].turn \in Nat
  BY <1>1 DEF ChannelTypes, Command
<1>3. ASSUME NEW r \in wire, r.by = a
      PROVE  /\ r.turn \in Nat /\ r.turn <= proc[a].turn
             /\ proc[a].at \in {"idle", "lookup"} => r.turn # proc[a].turn
             /\ ~Calling(a) => r.tool # "query-notes"
             /\ reply[a].kind # "none" => r.turn # proc[a].turn \/ ~Calling(a)
             /\ reply[a].kind # "none" => r.tool # "query-notes"
  BY <1>1, <1>2, <1>3 DEF WireFits
<1>4. ASSUME NEW t \in Nat, t > proc[a].turn PROVE ~Landed(<<a, t>>)
  BY <1>1, <1>2, <1>4 DEF EntriesAreNew
<1>5. ASSUME proc[a].at \notin {"idle", "done"}
      PROVE  /\ proc[a].turn # 0
             /\ (proc[a].at \in {"append", "again"} => reply[a].kind # "ok")
                  => ~Landed(<<a, proc[a].turn>>)
  <2>1. proc[a].turn # 0
    BY <1>1, <1>5 DEF CommandsFit
  <2> QED BY <2>1, <1>1, <1>2, <1>5 DEF EntriesAreNew
<1> QED BY <1>2, <1>3, <1>4, <1>5

LEMMA WindowsAreTyped ==
  /\ NoWindow \in WindowType
  /\ \A tail \in Nat : headWindow(tail) \in WindowType
  /\ \A tail, total \in Nat : tailWindow(total, tail) \in WindowType
<1>1. \A tail \in Nat : Max({tail, MIN_CONTENT_LENGTH}) \in Nat
  BY GreaterIs DEF MIN_CONTENT_LENGTH
<1>2. ASSUME NEW tail \in Nat, NEW total \in Nat PROVE tailWindow(total, tail) \in WindowType
  BY <1>1 DEF tailWindow, WindowType, MAX_CODEPOINT_BYTES
<1> QED BY <1>1, <1>2 DEF NoWindow, headWindow, WindowType

LEMMA InvokeKeeps ==
  ASSUME ChannelInv, NEW a \in Agents, NEW action \in {"read", "append", "init"},
         NEW v \in Vaults \cup {0}, NEW tail \in Nat, Invoke(a, action, v, tail)
  PROVE  ChannelInv'
<1> DEFINE At(at) == Fresh(at, action, v, tail, proc[a].turn + 1)
<1>0. ChannelTypes /\ CommandsFit /\ WireFits /\ EntriesAreNew
      /\ WritersKnow /\ ReadersKnow /\ NotesAreLaid
  BY DEF ChannelInv
<1>1. /\ proc[a].at \in {"idle", "done"} /\ excused' = excused \ {a}
      /\ UNCHANGED <<note, binding, attached, deleted>> /\ ~Calling(a)
  BY DEF Invoke, Calling
<1>2. proc[a].turn \in Nat
  BY CommandIs
<1>3. ASSUME NEW at \in {"head", "append", "create", "lookup"}
      PROVE  /\ At(at) \in Command /\ At(at).at = at /\ At(at).action = action
             /\ At(at).vault = v /\ At(at).tail = tail /\ At(at).turn = proc[a].turn + 1
             /\ At(at).exit = "none" /\ At(at).head = NoReply
  <2>1. NoReply \in ReplyType
    BY DEF NoReply, ReplyType, Kinds
  <2>3. proc[a].turn + 1 \in Nat
    BY <1>2
  <2> QED BY <2>1, <2>3 DEF Command, Fresh
<1> HIDE DEF At
<1>4. \A r \in wire : r.by = a => r.turn # proc[a].turn + 1 /\ r.tool # "query-notes"
  <2> SUFFICES ASSUME NEW r \in wire, r.by = a
               PROVE  r.turn # proc[a].turn + 1 /\ r.tool # "query-notes"
    OBVIOUS
  <2>1. r.turn \in Nat /\ r.turn <= proc[a].turn /\ r.tool # "query-notes"
    BY <1>1, CommandIs
  <2> QED BY <2>1, <1>2
<1>5. ~Landed(<<a, proc[a].turn + 1>>)
  <2>1. proc[a].turn + 1 \in Nat /\ proc[a].turn + 1 > proc[a].turn
    BY <1>2
  <2>2. \A t \in Nat : t > proc[a].turn => ~Landed(<<a, t>>)
    BY CommandIs
  <2> QED BY <2>1, <2>2
<1>6. CASE action = "read"
  <2>1. Calls(a, At("head"), headWindow(tail))
    BY <1>6 DEF Invoke, At
  <2> QED BY <2>1, <1>1, <1>2, <1>3, <1>4, <1>5, <1>6, WindowsAreTyped, CallKeeps
<1>7. CASE action # "read" /\ v # 0
  <2>1. \E at \in {"create", "append"} :
          Calls(a, At(at), NoWindow) /\ (at = "append" => action = "append")
    BY <1>7 DEF Invoke, At
  <2> QED BY <2>1, <1>1, <1>2, <1>3, <1>4, <1>5, <1>7, WindowsAreTyped, CallKeeps, SMTT(30)
<1>8. CASE action # "read" /\ v = 0
  <2>1. /\ proc' = [proc EXCEPT ![a] = At("lookup")] /\ UNCHANGED <<wire, reply>>
    BY <1>8 DEF Invoke, At, Goes
  <2>2. /\ proc'[a] = At("lookup") /\ reply' = reply /\ reply[a] = NoReply /\ NoReply.kind = "none"
        /\ \A b \in Agents : b # a => proc'[b] = proc[b]
        /\ proc'[a].at = "lookup" /\ proc'[a].action = action
        /\ proc'[a].turn = proc[a].turn + 1 /\ proc'[a].exit = "none"
    BY <2>1, <1>0, <1>1, <1>3 DEF ChannelTypes, CommandsFit, NoReply
  <2>3. ChannelTypes' /\ NotesAreLaid'
    BY <2>1, <1>0, <1>1, <1>3 DEF ChannelTypes, NotesAreLaid
  <2>4. CommandsFit'
    <3> SUFFICES ASSUME NEW b \in Agents PROVE CommandsFit!(b)'
      BY DEF CommandsFit
    <3>1. CASE b = a
      BY <3>1, <2>2, <1>2, <1>8 DEF Writing, Reading, Calling
    <3>2. CASE b # a
      BY <3>2, <2>2, <1>0 DEF CommandsFit, Writing, Reading, Calling
    <3> QED BY <3>1, <3>2
  <2>5. WireFits'
    <3> SUFFICES ASSUME NEW r \in wire PROVE WireFits!(r)'
      BY <2>1 DEF WireFits
    <3>0. r \in Request /\ r.by \in Agents /\ r.turn \in Nat /\ wire' = wire
      BY <2>1, <1>0 DEF ChannelTypes, Request
    <3>1. CASE r.by = a
      BY <3>0, <3>1, <2>2, <1>0, <1>2, <1>4 DEF WireFits
    <3>2. CASE r.by # a
      BY <3>0, <3>2, <2>2, <1>0 DEF WireFits, Calling
    <3> QED BY <3>1, <3>2
  <2>6. EntriesAreNew'
    <3>1. Distinct(note') /\ wire' = wire
      BY <2>1, <1>0, <1>1 DEF EntriesAreNew
    <3>2. ASSUME NEW b \in Agents, NEW t \in Nat \ {0}, Landed(<<b, t>>)'
          PROVE  /\ t \in 1..proc'[b].turn
                 /\ \A r \in wire' : ~(r.by = b /\ r.turn = t /\ r.tool = "update-note")
                 /\ t = proc'[b].turn =>
                      \/ proc'[b].at = "done"
                      \/ proc'[b].at \in {"append", "again"} /\ reply'[b].kind = "ok"
      <4>1. Landed(<<b, t>>)
        BY <3>2, <1>1 DEF Landed
      <4>2. CASE b = a
        BY <4>1, <4>2, <3>1, <2>2, <1>0, <1>2, <1>5 DEF EntriesAreNew
      <4>3. CASE b # a
        BY <4>1, <4>3, <3>1, <2>2, <1>0 DEF EntriesAreNew
      <4> QED BY <4>2, <4>3
    <3> QED BY <3>1, <3>2 DEF EntriesAreNew
  <2>7. WritersKnow'
    <3> SUFFICES ASSUME NEW b \in Agents, b \notin excused' PROVE WritersKnow!(b)'
      BY DEF WritersKnow
    <3>1. CASE b = a
      BY <3>1, <2>2 DEF Done
    <3>2. CASE b # a
      <4>1. There(b)' <=> There(b)
        BY <3>2, <2>2, <1>1 DEF There, Starts, Entry
      <4>2. b \in Agents \ excused /\ proc'[b] = proc[b] /\ reply'[b] = reply[b]
        BY <3>2, <2>2, <1>1
      <4> QED BY <4>1, <4>2, <1>0, <1>1 DEF WritersKnow, Done
    <3> QED BY <3>1, <3>2
  <2>8. ReadersKnow'
    <3> SUFFICES ASSUME NEW b \in Agents, b \notin excused' PROVE ReadersKnow!(b)'
      BY DEF ReadersKnow
    <3>1. CASE b = a
      BY <3>1, <2>2 DEF Done
    <3>2. CASE b # a
      BY <3>2, <2>2, <1>0, <1>1 DEF ReadersKnow, Done
    <3> QED BY <3>1, <3>2
  <2> QED BY <2>3, <2>4, <2>5, <2>6, <2>7, <2>8 DEF ChannelInv
<1> QED BY <1>6, <1>7, <1>8

LEMMA ExitKeeps ==
  ASSUME ChannelInv, NEW a \in Agents, Calling(a) \/ proc[a].at = "lookup",
         NEW code \in {"ok", "usage", "transport", "toolError"}, Exits(a, code),
         UNCHANGED <<note, binding, attached, deleted>>,
         excused' \in {excused, excused \cup {a}},
         a \notin excused' =>
           /\ code # "toolError"
           /\ code = "ok" /\ proc[a].action = "append" => proc[a].vault # 0 /\ There(a)
           /\ code = "ok" /\ proc[a].action = "read" => proc[a].head = NoReply
  PROVE  ChannelInv'
<1> DEFINE p == [proc[a] EXCEPT !.at = "done", !.exit = code]
<1>1. proc[a] \in Command
  BY CommandIs
<1>2. /\ p \in Command /\ p.at = "done" /\ p.action = proc[a].action
      /\ p.vault = proc[a].vault /\ p.tail = proc[a].tail /\ p.turn = proc[a].turn
      /\ p.exit = code /\ p.head = proc[a].head
  BY <1>1 DEF Command
<1>3. /\ proc' = [proc EXCEPT ![a] = p] /\ reply' = [reply EXCEPT ![a] = NoReply]
      /\ wire' = {r \in wire : r.by # a \/ r.tool # "query-notes"}
  BY DEF Exits
<1> HIDE DEF p
<1> QED BY <1>2, <1>3, EndKeeps

LEMMA AwaitKeeps ==
  ASSUME ChannelInv, NEW a \in Agents, NEW at \in {"create", "again"}, Writing(a),
         \/ reply[a].kind \notin {"none", "ok"}
         \/ proc[a].at = "create" /\ reply[a].kind # "none",
         at = "again" => proc[a].action = "append",
         a \notin excused /\ at = "again" => note[proc[a].vault] # <<>>,
         Await(a, at), UNCHANGED <<note, binding, attached, deleted, excused>>
  PROVE  ChannelInv'
<1> DEFINE p == [proc[a] EXCEPT !.at = at]
<1>0. ChannelTypes /\ CommandsFit /\ WireFits
  BY DEF ChannelInv
<1>1. proc[a] \in Command
  BY CommandIs
<1>2. /\ p \in Command /\ p.at = at /\ p.action = proc[a].action
      /\ p.vault = proc[a].vault /\ p.tail = proc[a].tail /\ p.turn = proc[a].turn
      /\ p.exit = proc[a].exit /\ p.head = proc[a].head
  BY <1>1 DEF Command
<1>3. /\ Calls(a, p, NoWindow) /\ Calling(a) /\ p.exit = "none" /\ p.turn \in Nat /\ p.turn # 0
      /\ p.vault # 0 /\ p.action \in {"append", "init"}
  BY <1>0, <1>1, <1>2 DEF Await, Writing, Calling, CommandsFit, Command
<1>4. \A r \in wire : r.by = a => r.turn # p.turn /\ r.tool # "query-notes"
  BY <1>2, <1>3, CommandIs
<1>5. ~Landed(<<a, p.turn>>)
  <2>1. proc[a].at \notin {"idle", "done"}
        /\ (proc[a].at \in {"append", "again"} => reply[a].kind # "ok")
    BY DEF Writing
  <2> QED BY <2>1, <1>2, CommandIs
<1> HIDE DEF p
<1> QED BY <1>1, <1>2, <1>3, <1>4, <1>5, WindowsAreTyped, CallKeeps

LEMMA LookupKeeps ==
  ASSUME ChannelInv, NEW a \in Agents, Lookup(a)
  PROVE  ChannelInv'
<1> DEFINE at == IF proc[a].action = "init" THEN "create" ELSE "append"
           p == [proc[a] EXCEPT !.vault = binding, !.at = at]
<1>0. ChannelTypes /\ CommandsFit
  BY DEF ChannelInv
<1>1. /\ proc[a] \in Command /\ proc[a].at = "lookup" /\ ~Calling(a)
      /\ UNCHANGED <<note, binding, attached, deleted, excused>>
  BY CommandIs DEF Lookup, Calling
<1>2. CASE binding # 0 /\ Calls(a, p, NoWindow)
  <2>0. binding \in Vaults \cup {0} /\ proc[a].action \in {"append", "init"}
        /\ proc[a].exit = "none"
    BY <1>0, <1>1 DEF ChannelTypes, CommandsFit
  <2>1. at \in {"append", "create"} /\ (at = "append" => proc[a].action = "append")
    BY <2>0
  <2> HIDE DEF at
  <2>2. /\ p \in Command /\ p.at = at /\ p.action = proc[a].action /\ p.vault = binding
        /\ p.turn = proc[a].turn /\ p.exit = "none"
    BY <2>0, <2>1, <1>1 DEF Command
  <2>3. p.turn \in Nat /\ p.turn # 0 /\ ~Landed(<<a, p.turn>>)
    BY <2>2, <1>1, CommandIs
  <2>4. \A r \in wire : r.by = a => r.turn # p.turn /\ r.tool # "query-notes"
    BY <2>2, <1>1, CommandIs
  <2> HIDE DEF p
  <2> QED BY <2>0, <2>1, <2>2, <2>3, <2>4, <1>1, <1>2, WindowsAreTyped, CallKeeps
<1>3. CASE Exits(a, "usage") \/ Exits(a, "transport")
  BY <1>1, <1>3, ExitKeeps
<1> QED BY <1>2, <1>3 DEF Lookup

LEMMA ReadHeadKeeps ==
  ASSUME ChannelInv, NEW a \in Agents, ReadHead(a),
         UNCHANGED <<note, binding, attached, deleted, excused>>
  PROVE  ChannelInv'
<1>0. ChannelTypes /\ CommandsFit /\ ReadersKnow /\ WritersKnow
  BY DEF ChannelInv
<1>1. /\ proc[a] \in Command /\ reply[a] \in ReplyType /\ Calling(a) /\ proc[a].at = "head"
      /\ proc[a].action = "read" /\ proc[a].head = NoReply /\ proc[a].exit = "none"
      /\ reply[a].kind \in {"not_found", "note"}
  BY <1>0, CommandIs DEF ReadHead, Got, CommandsFit, Calling, Reading
<1>w. wire = {r \in wire : r.by # a \/ r.tool # "query-notes"}
  BY <1>1, CommandIs
<1>2. CASE Exits(a, "ok")
  BY <1>1, <1>2, ExitKeeps
<1>3. CASE reply[a].kind = "note" /\ ~Exits(a, "ok")
  <2>1. reply[a] \in NoteReply /\ reply[a].total \in Nat /\ proc[a].tail \in Nat
    BY <1>1, <1>3 DEF ReplyType, Kinds, NoteReply, Command
  <2>2. a \notin excused =>
          /\ HeadHolds(note, reply[a], proc[a].vault)
          /\ reply[a].total <= proc[a].tail => Covers(note, reply[a], reply[a].text, proc[a].tail)
    BY <1>0, <1>1, <1>3 DEF ReadersKnow
  <2>3. CASE reply[a].total > proc[a].tail
    <3> DEFINE p == [proc[a] EXCEPT !.at = "tail", !.head = reply[a], !.text = reply[a]]
               w == tailWindow(reply[a].total, proc[a].tail)
    <3>1. /\ p \in Command /\ p.at = "tail" /\ p.action = "read" /\ p.exit = "none"
          /\ p.vault = proc[a].vault /\ p.tail = proc[a].tail /\ p.turn = proc[a].turn
          /\ p.head = reply[a]
      BY <1>1 DEF Command
    <3>2. Calls(a, p, w)
      BY <1>1, <1>3, <2>3 DEF ReadHead, Got
    <3>3. p.turn \in Nat /\ p.turn # 0 /\ ~Landed(<<a, p.turn>>)
      BY <3>1, <1>1, CommandIs
    <3>4. \A r \in wire : r.by = a => r.turn # p.turn /\ r.tool # "query-notes"
      BY <3>1, <1>1, CommandIs
    <3>5. w \in WindowType
      BY <2>1, WindowsAreTyped
    <3> HIDE DEF p, w
    <3> QED BY <3>1, <3>2, <3>3, <3>4, <3>5, <2>2, <2>3, <1>1, CallKeeps DEF w
  <2>4. CASE ~(reply[a].total > proc[a].tail)
    <3> DEFINE p == [proc[a] EXCEPT !.at = "done", !.exit = "ok", !.head = reply[a],
                                    !.text = reply[a]]
    <3>1. /\ p \in Command /\ p.at = "done" /\ p.action = "read" /\ p.exit = "ok"
          /\ p.vault = proc[a].vault /\ p.tail = proc[a].tail /\ p.turn = proc[a].turn
          /\ p.head = reply[a] /\ p.text = reply[a]
      BY <1>1 DEF Command
    <3>2. /\ proc' = [proc EXCEPT ![a] = p] /\ reply' = [reply EXCEPT ![a] = NoReply]
          /\ wire' = wire
      BY <1>1, <1>3, <2>4 DEF ReadHead, Got, Goes
    <3>3. wire' = {r \in wire : r.by # a \/ r.tool # "query-notes"}
      BY <3>2, <1>w
    <3>4. a \notin excused =>
            HeadHolds(note, p.head, p.vault) /\ TextHolds(note, p.head, p.text, p.tail)
      BY <3>1, <2>1, <2>2, <2>4 DEF TextHolds, HeadHolds
    <3> HIDE DEF p
    <3> QED BY <3>1, <3>2, <3>3, <3>4, <1>1, EndKeeps
  <2> QED BY <2>3, <2>4
<1> QED BY <1>1, <1>2, <1>3 DEF ReadHead, Got

LEMMA ReadTailKeeps ==
  ASSUME ChannelInv, NEW a \in Agents, ReadTail(a),
         UNCHANGED <<note, binding, attached, deleted, excused>>
  PROVE  ChannelInv'
<1>0. ChannelTypes /\ CommandsFit /\ ReadersKnow /\ WritersKnow
  BY DEF ChannelInv
<1>1. /\ proc[a] \in Command /\ reply[a] \in ReplyType /\ Calling(a) /\ proc[a].at = "tail"
      /\ proc[a].action = "read" /\ reply[a].kind \in {"not_found", "note"}
  BY <1>0, CommandIs DEF ReadTail, Got, CommandsFit, Calling, Reading
<1>2. CASE reply[a].kind = "not_found"
  <2>1. a \in excused
    BY <1>0, <1>1, <1>2 DEF ReadersKnow
  <2>2. Exits(a, "ok") \/ Exits(a, "toolError")
    BY <1>1, <1>2 DEF ReadTail, Got
  <2> QED BY <2>1, <2>2, <1>1, ExitKeeps
<1>3. CASE reply[a].kind = "note"
  <2> DEFINE p == [proc[a] EXCEPT !.at = "done", !.exit = "ok", !.text = reply[a]]
  <2>1. /\ p \in Command /\ p.at = "done" /\ p.action = "read" /\ p.exit = "ok"
        /\ p.vault = proc[a].vault /\ p.tail = proc[a].tail /\ p.turn = proc[a].turn
        /\ p.head = proc[a].head /\ p.text = reply[a]
    BY <1>1 DEF Command
  <2>2. /\ proc' = [proc EXCEPT ![a] = p] /\ reply' = [reply EXCEPT ![a] = NoReply]
        /\ wire' = wire
    BY <1>1, <1>3 DEF ReadTail, Got, Goes
  <2>3. wire' = {r \in wire : r.by # a \/ r.tool # "query-notes"}
    BY <2>2, <1>1, CommandIs
  <2>4. a \notin excused =>
          HeadHolds(note, p.head, p.vault) /\ TextHolds(note, p.head, p.text, p.tail)
    BY <2>1, <1>0, <1>1, <1>3 DEF ReadersKnow
  <2> HIDE DEF p
  <2> QED BY <2>1, <2>2, <2>3, <2>4, <1>1, EndKeeps
<1> QED BY <1>1, <1>2, <1>3

LEMMA CreatedKeeps ==
  ASSUME ChannelInv, NEW a \in Agents, Created(a),
         UNCHANGED <<note, binding, attached, deleted, excused>>
  PROVE  ChannelInv'
<1>0. CommandsFit /\ WritersKnow
  BY DEF ChannelInv
<1>1. /\ proc[a].at = "create" /\ reply[a].kind \in {"ok", "path_conflict"}
      /\ Calling(a) /\ Writing(a) /\ proc[a].action \in {"append", "init"}
  BY <1>0 DEF Created, Got, CommandsFit, Calling, Writing
<1>2. CASE proc[a].action = "init" /\ Exits(a, "ok")
  BY <1>1, <1>2, ExitKeeps
<1>3. CASE proc[a].action # "init" /\ Await(a, "again")
  <2>1. a \notin excused => note[proc[a].vault] # <<>>
    BY <1>0, <1>1 DEF WritersKnow
  <2> QED BY <2>1, <1>1, <1>3, AwaitKeeps
<1> QED BY <1>2, <1>3 DEF Created

LEMMA AppendedKeeps ==
  ASSUME ChannelInv, NEW a \in Agents, Appended(a),
         UNCHANGED <<note, binding, attached, deleted, excused>>
  PROVE  ChannelInv'
<1>0. CommandsFit /\ WritersKnow
  BY DEF ChannelInv
<1>1. /\ proc[a].at \in {"append", "again"} /\ reply[a].kind \in {"ok", "not_found"}
      /\ Calling(a) /\ Writing(a) /\ proc[a].action = "append" /\ proc[a].vault # 0
  BY <1>0 DEF Appended, Got, CommandsFit, Calling, Writing
<1>2. CASE reply[a].kind = "ok" /\ Exits(a, "ok")
  <2>1. a \notin excused => There(a)
    BY <1>0, <1>1, <1>2 DEF WritersKnow
  <2> QED BY <2>1, <1>1, <1>2, ExitKeeps
<1>3. CASE reply[a].kind = "not_found" /\ Await(a, "create")
  BY <1>1, <1>3, AwaitKeeps
<1>4. CASE proc[a].at = "again" /\ reply[a].kind = "not_found" /\ Exits(a, "toolError")
  <2>1. a \in excused
    BY <1>0, <1>4 DEF WritersKnow
  <2> QED BY <2>1, <1>1, <1>4, ExitKeeps
<1> QED BY <1>2, <1>3, <1>4 DEF Appended, Got

LEMMA ProceedKeeps ==
  ASSUME ChannelInv, NEW a \in Agents, Proceed(a)
  PROVE  ChannelInv'
<1>0. UNCHANGED <<note, binding, attached, deleted>> /\ WritersKnow
  BY DEF Proceed, ChannelInv
<1>1. CASE Denied(a) /\ UNCHANGED excused
  <2>1. a \in excused
    BY <1>0, <1>1 DEF Denied, WritersKnow
  <2> QED BY <2>1, <1>0, <1>1, ExitKeeps DEF Denied
<1>2. CASE TimedOut(a)
  <2>1. CASE Exits(a, "transport") /\ UNCHANGED excused
    BY <1>0, <1>2, <2>1, ExitKeeps DEF TimedOut
  <2>2. CASE Exits(a, "toolError") /\ excused' = excused \cup {a}
    BY <1>0, <1>2, <2>2, ExitKeeps DEF TimedOut
  <2> QED BY <1>2, <2>1, <2>2 DEF TimedOut
<1> QED BY <1>0, <1>1, <1>2, ReadHeadKeeps, ReadTailKeeps, CreatedKeeps, AppendedKeeps
     DEF Proceed, Answered

LEMMA AttachKeeps ==
  ASSUME ChannelInv, NEW v \in Vaults, Attach(v)
  PROVE  ChannelInv'
<1>1. ChannelTypes' /\ UNCHANGED <<note, proc, wire, reply, excused>>
  BY DEF ChannelInv, ChannelTypes, Attach
<1>2. /\ NotesAreLaid' = NotesAreLaid /\ CommandsFit' = CommandsFit
      /\ WireFits' = WireFits /\ EntriesAreNew' = EntriesAreNew
      /\ WritersKnow' = WritersKnow /\ ReadersKnow' = ReadersKnow
  BY <1>1 DEF NotesAreLaid, CommandsFit, Writing, Reading, Calling, WireFits, EntriesAreNew,
              Landed, WritersKnow, There, Starts, Entry, Done, ReadersKnow
<1> QED BY <1>1, <1>2 DEF ChannelInv

LEMMA DeleteKeeps ==
  ASSUME ChannelInv, NEW v \in Vaults, Delete(v)
  PROVE  ChannelInv'
<1>0. ChannelTypes /\ NotesAreLaid /\ CommandsFit /\ WireFits /\ EntriesAreNew
  BY DEF ChannelInv
<1>1. /\ note' = [note EXCEPT ![v] = <<>>] /\ UNCHANGED <<binding, proc, wire, reply, attached>>
      /\ deleted' = deleted + 1 /\ excused' = {a \in Agents : proc[a].at # "idle"}
  BY DEF Delete
<1>2. ChannelTypes'
  BY <1>0, <1>1, NoNoteIsLaid DEF ChannelTypes
<1>3. /\ note'[v] = <<>> /\ \A w \in Vaults : w # v => note'[w] = note[w]
      /\ \A w \in Vaults : \A i \in 1..Len(note'[w]) : w # v
  BY <1>0, <1>1, NoNoteIsLaid DEF ChannelTypes
<1>4. NotesAreLaid'
  <2> SUFFICES ASSUME NEW w \in Vaults
               PROVE  Laid(note'[w]) /\ (note'[w] # <<>> => note'[w][1] = initialContent[1])
    BY DEF NotesAreLaid, Laid, Bytes
  <2> QED BY <1>0, <1>3, NoNoteIsLaid DEF NotesAreLaid
<1>5. CommandsFit' /\ WireFits'
  BY <1>0, <1>1 DEF CommandsFit, Writing, Reading, Calling, WireFits
<1>6. EntriesAreNew'
  <2>1. Distinct(note')
    BY <1>0, <1>3 DEF EntriesAreNew, Distinct
  <2>2. ASSUME NEW b \in Agents, NEW t \in Nat \ {0}, Landed(<<b, t>>)' PROVE Landed(<<b, t>>)
    BY <2>2, <1>3 DEF Landed
  <2> QED BY <2>1, <2>2, <1>0, <1>1 DEF EntriesAreNew
<1>7. ASSUME NEW b \in Agents, b \notin excused'
      PROVE  proc'[b].at = "idle" /\ proc'[b].exit = "none" /\ reply'[b].kind = "none"
  BY <1>0, <1>1, <1>7 DEF CommandsFit, Calling, NoReply
<1>8. WritersKnow' /\ ReadersKnow'
  BY <1>7 DEF WritersKnow, ReadersKnow, Done
<1> QED BY <1>2, <1>4, <1>5, <1>6, <1>8 DEF ChannelInv

-----------------------------------------------------------------------------
(***************************************************************************)
(* The parts of the invariant hold together, whatever the agents, the      *)
(* vaults, the windows and the bounds are.                                 *)
(***************************************************************************)
THEOREM ChannelInvariant == ChannelSpec => []ChannelInv
<1>1. ChannelInit => ChannelInv
  <2> SUFFICES ASSUME ChannelInit PROVE ChannelInv
    OBVIOUS
  <2>1. NoReply \in ReplyType /\ NoReply.kind = "none"
    BY DEF NoReply, ReplyType, Kinds
  <2>2. NoProc \in Command /\ NoProc.at = "idle" /\ NoProc.turn = 0 /\ NoProc.exit = "none"
    BY <2>1 DEF NoProc, Fresh, Command
  <2>3. /\ \A v \in Vaults : note[v] = <<>> /\ note[v] \in Seq(CharType) /\ Laid(note[v])
        /\ \A v \in Vaults : Len(note[v]) = 0
        /\ \A a \in Agents : proc[a] = NoProc /\ reply[a] = NoReply
        /\ note \in [Vaults -> Seq(CharType)] /\ wire = {}
    BY NoNoteIsLaid DEF ChannelInit
  <2>4. ChannelTypes
    BY <2>1, <2>2, <2>3 DEF ChannelTypes, ChannelInit
  <2>5. NotesAreLaid /\ CommandsFit /\ WireFits
    BY <2>1, <2>2, <2>3 DEF NotesAreLaid, CommandsFit, WireFits, Writing, Reading, Calling
  <2>6. EntriesAreNew
    BY <2>3 DEF EntriesAreNew, Landed, Distinct
  <2>7. WritersKnow /\ ReadersKnow
    BY <2>1, <2>2, <2>3 DEF WritersKnow, ReadersKnow, Done
  <2> QED BY <2>4, <2>5, <2>6, <2>7 DEF ChannelInv
<1>2. ChannelInv /\ [ChannelNext]_channelVars => ChannelInv'
  <2> SUFFICES ASSUME ChannelInv, [ChannelNext]_channelVars PROVE ChannelInv'
    OBVIOUS
  <2>1. ASSUME NEW a \in Agents, NEW v \in Named \cup {0}, NEW t \in Tails, Invoke(a, "read", v, t)
        PROVE  ChannelInv'
    BY <2>1, ChannelAssumption, InvokeKeeps DEF Vaults
  <2>2. ASSUME NEW a \in Agents, NEW v \in Named \cup {0}, NEW act \in {"append", "init"},
               Invoke(a, act, v, 0)
        PROVE  ChannelInv'
    BY <2>2, ChannelAssumption, InvokeKeeps DEF Vaults
  <2>3. CASE UNCHANGED channelVars
    <3>1. UNCHANGED <<note, binding, proc, wire, reply, attached, deleted, excused>>
      BY <2>3 DEF channelVars
    <3>2. /\ ChannelTypes' = ChannelTypes /\ NotesAreLaid' = NotesAreLaid
          /\ CommandsFit' = CommandsFit
      BY <3>1 DEF ChannelTypes, NotesAreLaid, CommandsFit, Writing, Reading, Calling
    <3>3. /\ WireFits' = WireFits /\ EntriesAreNew' = EntriesAreNew
          /\ WritersKnow' = WritersKnow /\ ReadersKnow' = ReadersKnow
      BY <3>1 DEF WireFits, Calling, EntriesAreNew, Landed, WritersKnow, There, Starts, Entry,
                  Done, ReadersKnow
    <3> QED BY <3>2, <3>3 DEF ChannelInv
  <2> QED BY <2>1, <2>2, <2>3, LookupKeeps, ProceedKeeps, ServeKeeps, AttachKeeps, DeleteKeeps
       DEF ChannelNext
<1> QED BY <1>1, <1>2, PTL DEF ChannelSpec

(***************************************************************************)
(* A turn is neither lost nor doubled: of the invariant's part on entries  *)
(* and of what a writer knows.                                             *)
(***************************************************************************)
THEOREM TurnsAlwaysLandOnce == ChannelSpec => []TurnsLandOnce
<1>1. ASSUME ChannelInv PROVE TurnsLandOnce
  <2>0. ChannelTypes /\ NotesAreLaid /\ EntriesAreNew /\ WritersKnow
    BY <1>1 DEF ChannelInv
  <2>1. ASSUME NEW v \in Vaults, NEW w \in Vaults, NEW i \in 1..Len(note[v]),
               NEW j \in 1..Len(note[w]),
               Starts(note[v][i].of, v, i), Starts(note[v][i].of, w, j)
        PROVE  v = w /\ i = j
    <3>1. /\ note[v][i].width = 1 /\ note[w][j].width = 1
          /\ note[v][i].of = note[w][j].of
      BY <2>1 DEF Starts
    <3> QED BY <2>0, <3>1, ZenonT(60) DEF EntriesAreNew, Distinct
  <2>2. ASSUME NEW a \in Agents \ excused, Done(a, "append", "ok")
        PROVE  LET c == note[proc[a].vault]
               IN  /\ c # <<>> /\ c[1] = initialContent[1]
                   /\ \E i \in 1..Len(c) : Starts(Entry(a), proc[a].vault, i)
    <3>1. proc[a].vault # 0 /\ There(a)
      BY <2>0, <2>2 DEF WritersKnow
    <3>2. proc[a].vault \in Vaults
      BY <2>0, <3>1 DEF ChannelTypes, Command
    <3>3. note[proc[a].vault] # <<>>
      BY <3>1 DEF There
    <3> QED BY <2>0, <3>1, <3>2, <3>3 DEF NotesAreLaid, There
  <2> QED BY <2>1, <2>2 DEF TurnsLandOnce
<1> QED BY <1>1, ChannelInvariant, PTL

(***************************************************************************)
(* The first turns of a channel do not fail each other: of an agent whose  *)
(* call was not denied and not left without an answer, and under whom no   *)
(* note was deleted, no command exits with a tool error.                   *)
(***************************************************************************)
THEOREM NobodyEverLosesTheRace == ChannelSpec => []NobodyLosesTheRace
<1>1. ASSUME ChannelInv PROVE NobodyLosesTheRace
  BY <1>1 DEF ChannelInv, ChannelTypes, WritersKnow, NobodyLosesTheRace
<1> QED BY <1>1, ChannelInvariant, PTL

LEMMA LesserIs ==
  ASSUME NEW x \in Nat, NEW y \in Nat
  PROVE  Min({x, y}) = IF x <= y THEN x ELSE y
<1> DEFINE m == IF x <= y THEN x ELSE y
<1>1. m \in {x, y} /\ \A z \in {x, y} : m <= z
  OBVIOUS
<1>2. \A n \in {x, y} : (\A z \in {x, y} : n <= z) => n = m
  OBVIOUS
<1> QED BY <1>1, <1>2 DEF Min

(***************************************************************************)
(* A read loses nothing of the tail, also across its two calls.            *)
(***************************************************************************)
THEOREM ReadsAlwaysReachTheEnd == ChannelSpec => []ReadsReachTheEnd
<1>1. ASSUME ChannelInv PROVE ReadsReachTheEnd
  <2> DEFINE h(a) == proc[a].head
             t(a) == proc[a].text.text
             c(a) == note[h(a).vault]
  <2> SUFFICES ASSUME NEW a \in Agents \ excused,
                      Done(a, "read", "ok"), h(a) # NoReply, UniqueNote
               PROVE  /\ t(a).to >= h(a).length
                      /\ h(a).total - Bytes(c(a), t(a).from) >= Min({proc[a].tail, h(a).total})
    BY DEF ReadsReachTheEnd
  <2>1. HeadHolds(note, h(a), proc[a].vault)
        /\ TextHolds(note, h(a), proc[a].text, proc[a].tail)
    BY <1>1 DEF ChannelInv, ReadersKnow
  <2>2. /\ h(a).vault \in Vaults /\ h(a).total \in Nat /\ proc[a].text.vault \in Vaults
        /\ note[h(a).vault] # <<>> /\ note[proc[a].text.vault] # <<>>
    BY <2>1 DEF HeadHolds, TextHolds, NoteReply
  <2>3. proc[a].text.vault = h(a).vault
    BY <2>2 DEF UniqueNote
  <2>4. Covers(note, h(a), t(a), proc[a].tail)
    BY <2>1, <2>3 DEF TextHolds
  <2>5. proc[a].tail \in Nat
    BY <1>1 DEF ChannelInv, ChannelTypes, Command
  <2>6. Min({proc[a].tail, h(a).total}) =
          IF proc[a].tail <= h(a).total THEN proc[a].tail ELSE h(a).total
    BY <2>2, <2>5, LesserIs
  <2>7. CASE h(a).total > proc[a].tail
    BY <2>2, <2>4, <2>5, <2>6, <2>7 DEF Covers
  <2>8. CASE ~(h(a).total > proc[a].tail)
    <3>1. t(a).from = 0 /\ Bytes(c(a), 0) = 0
      BY <2>2, <2>4, <2>5, <2>8 DEF Covers, Bytes
    <3>2. Min({proc[a].tail, h(a).total}) = h(a).total
      BY <2>2, <2>5, <2>6, <2>8
    <3> QED BY <2>2, <2>4, <3>1, <3>2 DEF Covers
  <2> QED BY <2>7, <2>8
<1> QED BY <1>1, ChannelInvariant, PTL
=============================================================================
