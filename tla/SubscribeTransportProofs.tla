----------------------- MODULE SubscribeTransportProofs -----------------------
(***************************************************************************)
(* Proofs about SubscribeTransport, for any length of the vault's life and *)
(* of its snapshots, and any number of faults and tokens: "open" means     *)
(* that the vault accepted a token, the vault is never hammered, and what  *)
(* the consumer is given is a whole set of the vault, never an older one.  *)
(***************************************************************************)
EXTENDS SubscribeTransport, SequenceTheorems, TLAPS

-----------------------------------------------------------------------------
(* Types.                                                                  *)

SocketType ==
  [state : {"none", "connecting", "open"}, sent : Nat, got : BOOLEAN, ping : BOOLEAN,
   pong : BOOLEAN, acc : Seq(Nat)]

SubscribeTypes ==
  /\ TypeOK
  /\ Len(log) > 0
  /\ socket \in SocketType
  /\ pc # "connected" =>
       /\ socket = NoSocket /\ asked = <<>> /\ session = 0 /\ wire = <<>> /\ wedged = FALSE
  /\ wedged => wire = <<>>
  /\ pc = "connected" => socket.sent > 0

LEMMA NoSocketFits == NoSocket \in SocketType /\ NoSocket.state = "none" /\ NoSocket.sent = 0
                      /\ ~NoSocket.got /\ ~NoSocket.ping /\ ~NoSocket.pong /\ NoSocket.acc = <<>>
BY DEF NoSocket, SocketType

LEMMA InitTypes == Init => SubscribeTypes
<1> SUFFICES ASSUME Init PROVE SubscribeTypes
  OBVIOUS
<1>1. [p \in Parts |-> 0] \in [Parts -> Nat]
  OBVIOUS
<1>2. log \in Seq([Parts -> Nat]) /\ Len(log) = 1
  <2> DEFINE z == [p \in Parts |-> 0]
  <2>1. z \in [Parts -> Nat] /\ log = <<z>>
    BY DEF Init
  <2> HIDE DEF z
  <2> QED BY <2>1
<1>3. /\ asked \in Seq(1..token) /\ wire \in Seq(Frame) /\ view \in Seq(Nat)
      /\ asked = <<>> /\ wire = <<>>
  BY DEF Init
<1>4. token \in 1..MaxTokens /\ refused \in 0..token /\ session \in 0..token /\ socket.sent \in 0..token
  BY ConstantsAssumption, NoSocketFits DEF Init
<1>5. attempt \in 0..MaxAttempt /\ faults \in 0..MaxFaults /\ tries \in 0..3
  BY ConstantsAssumption DEF Init
<1>6. /\ pc = "resolving" /\ status = "connecting" /\ closed = FALSE
      /\ refreshedThisStreak = FALSE /\ socket = NoSocket /\ session = 0 /\ wedged = FALSE
      /\ error = "none"
  BY DEF Init
<1>7. TypeOK
  BY <1>2, <1>3, <1>4, <1>5, <1>6, NoSocketFits DEF TypeOK
<1> QED BY <1>2, <1>3, <1>6, <1>7, NoSocketFits DEF SubscribeTypes

\* What is left when the connection is over.
Ended ==
  /\ socket' = NoSocket /\ asked' = <<>> /\ session' = 0 /\ wire' = <<>> /\ wedged' = FALSE
  /\ pc' \in {"done", "refreshing", "sleeping"}
  /\ pc' = "refreshing" => ~refreshedThisStreak /\ ~closed
  /\ status' \in {status, "closed"} /\ error' \in {error, "refused", "auth"}
  /\ closed' \in BOOLEAN /\ attempt' \in 0..MaxAttempt /\ refreshedThisStreak' \in BOOLEAN

LEMMA OverEnds == ASSUME SubscribeTypes, NEW code, Over(code) PROVE Ended
<1>1. Disconnect
  BY DEF Over
<1>2. attempt \in Nat /\ MaxAttempt \in Nat /\ attempt <= MaxAttempt
  BY ConstantsAssumption DEF SubscribeTypes, TypeOK
<1>3. \A n \in Nat : Smaller(n + 1, MaxAttempt) \in 0..MaxAttempt
  BY <1>2 DEF Smaller
<1>4. closed \in BOOLEAN /\ refreshedThisStreak \in BOOLEAN
  BY DEF SubscribeTypes, TypeOK
<1>5. CASE closed
  <2>1. pc' = "done" /\ UNCHANGED <<closed, attempt, refreshedThisStreak, status, error>>
    BY <1>5 DEF Over
  <2> QED BY <1>1, <1>2, <1>4, <2>1 DEF Disconnect, Ended
<1>6. CASE ~closed /\ code \in {4400, 4403}
  <2>1. GivesUp("refused") /\ UNCHANGED <<attempt, refreshedThisStreak>>
    BY <1>6 DEF Over
  <2> QED BY <1>1, <1>2, <1>4, <2>1 DEF Disconnect, Ended, GivesUp, Closes
<1>7. CASE ~closed /\ code = 4401 /\ ~refreshedThisStreak
  <2>1. pc' = "refreshing" /\ UNCHANGED <<closed, attempt, refreshedThisStreak, status, error>>
    BY <1>7 DEF Over
  <2> QED BY <1>1, <1>2, <1>4, <1>7, <2>1 DEF Disconnect, Ended
<1>8. CASE ~closed /\ code = 4401 /\ refreshedThisStreak
  <2>1. GivesUp("auth") /\ UNCHANGED <<attempt, refreshedThisStreak>>
    BY <1>8 DEF Over
  <2> QED BY <1>1, <1>2, <1>4, <2>1 DEF Disconnect, Ended, GivesUp, Closes
<1>9. CASE ~closed /\ code \notin {4400, 4401, 4403}
  <2>1. Sleep(IF socket.got THEN 0 ELSE attempt)
        /\ refreshedThisStreak' = FALSE /\ UNCHANGED <<closed, status, error>>
    BY <1>9 DEF Over
  <2>2. pc' = "sleeping" /\ attempt' \in 0..MaxAttempt
    BY <2>1, <1>2, <1>3 DEF Sleep
  <2> QED BY <1>1, <1>4, <2>1, <2>2 DEF Disconnect, Ended
<1>10. \/ closed
       \/ ~closed /\ code \in {4400, 4403}
       \/ ~closed /\ code \notin {4400, 4401, 4403}
       \/ ~closed /\ code = 4401 /\ refreshedThisStreak
       \/ ~closed /\ code = 4401 /\ ~refreshedThisStreak
  OBVIOUS
<1> QED BY <1>5, <1>6, <1>7, <1>8, <1>9, <1>10

\* Frames are added at the end of the wire.
LEMMA WireGrows ==
  ASSUME NEW w \in Seq(Frame), NEW f \in Frame
  PROVE  /\ Append(w, f) \in Seq(Frame) /\ Len(Append(w, f)) = Len(w) + 1
         /\ \A i \in 1..Len(w) : Append(w, f)[i] = w[i]
         /\ Append(w, f)[Len(w) + 1] = f
OBVIOUS

\* Replacing one element of a sequence of numbers.
LEMMA ElementReplaced ==
  ASSUME NEW s \in Seq(Nat), NEW k, NEW n \in Nat
  PROVE  /\ [s EXCEPT ![k] = n] \in Seq(Nat) /\ Len([s EXCEPT ![k] = n]) = Len(s)
         /\ DOMAIN [s EXCEPT ![k] = n] = 1..Len(s)
<1> DEFINE e == [s EXCEPT ![k] = n]
<1>0. s \in [1..Len(s) -> Nat] /\ Len(s) \in Nat
  OBVIOUS
<1>1. e \in [1..Len(s) -> Nat]
  BY <1>0
<1> HIDE DEF e
<1>2. e \in Seq(Nat) /\ Len(e) = Len(s) /\ DOMAIN e = 1..Len(s)
  BY <1>0, <1>1
<1> QED BY <1>2 DEF e

LEMMA FramesFit ==
  /\ [type |-> "pong"] \in Frame
  /\ [type |-> "close", code |-> 4401] \in Frame
  /\ \A p \in Parts, v \in Nat : [type |-> "change", part |-> p, at |-> v] \in Frame
  /\ \A v \in Nat, b \in BOOLEAN : [type |-> "snapshot", at |-> v, done |-> b] \in Frame
BY DEF Frame

\* What a frame carries.
LEMMA FrameKinds ==
  \A f \in Frame :
    /\ f.type \in {"snapshot", "pong", "change", "close"}
    /\ f.type = "snapshot" => f.at \in Nat /\ f.done \in BOOLEAN
    /\ f.type = "change" => f.at \in Nat /\ f.part \in Parts
BY DEF Frame

LEMMA TokenGrows ==
  ASSUME SubscribeTypes, token' \in Nat, token <= token'
  PROVE  asked \in Seq(1..token') /\ session \in 0..token' /\ socket.sent \in 0..token'
         /\ refused \in 0..token'
<1>1. 1..token \subseteq 1..token' /\ 0..token \subseteq 0..token'
  BY DEF SubscribeTypes, TypeOK
<1>2. asked \in Seq(1..token')
  BY <1>1, SeqMonotonic DEF SubscribeTypes, TypeOK
<1> QED BY <1>1, <1>2 DEF SubscribeTypes, TypeOK

\* The vault's snapshot is a sequence of frames, one per part.
SnapshotFrames == [p \in Parts |-> [type |-> "snapshot", at |-> Vault[p], done |-> p = Chunks]]

LEMMA VaultIsAState == ASSUME SubscribeTypes PROVE Vault \in [Parts -> Nat] /\ Len(log) \in Nat \ {0}
BY DEF SubscribeTypes, TypeOK, Vault

LEMMA SnapshotFits ==
  ASSUME SubscribeTypes
  PROVE  /\ SnapshotFrames \in Seq(Frame) /\ Len(SnapshotFrames) = Chunks
         /\ \A p \in Parts : /\ SnapshotFrames[p].type = "snapshot"
                             /\ SnapshotFrames[p].at = Vault[p]
                             /\ SnapshotFrames[p].done <=> p = Chunks
<1>1. \A p \in Parts : SnapshotFrames[p] \in Frame
  <2> TAKE p \in Parts
  <2> DEFINE b == p = Chunks
  <2>1. Vault[p] \in Nat /\ b \in BOOLEAN
    BY VaultIsAState
  <2>2. SnapshotFrames[p] = [type |-> "snapshot", at |-> Vault[p], done |-> b]
    BY DEF SnapshotFrames
  <2> HIDE DEF b
  <2>3. [type |-> "snapshot", at |-> Vault[p], done |-> b] \in Frame
    BY <2>1, FramesFit
  <2> QED BY <2>2, <2>3
<1>2. SnapshotFrames \in [1..Chunks -> Frame] /\ Chunks \in Nat
  BY <1>1, ConstantsAssumption DEF SnapshotFrames, Parts
<1>3. SnapshotFrames \in Seq(Frame) /\ Len(SnapshotFrames) = Chunks
  BY <1>2
<1> QED BY <1>3 DEF SnapshotFrames

\* A connection that is over leaves nothing of a wrong type.
LEMMA NothingFits ==
  ASSUME SubscribeTypes
  PROVE  /\ NoSocket \in SocketType /\ NoSocket.state = "none" /\ NoSocket.sent \in 0..token
         /\ <<>> \in Seq(1..token) /\ <<>> \in Seq(Frame) /\ 0 \in 0..token
BY NoSocketFits DEF SubscribeTypes, TypeOK

LEMMA LoopTypes ==
  ASSUME SubscribeTypes, TokenResolved \/ Wake \/ Unsubscribe \/ Dropped \/ Breaks \/ PongTimeout
  PROVE  SubscribeTypes'
<1>1. /\ attempt \in Nat /\ MaxAttempt \in Nat /\ attempt <= MaxAttempt
      /\ faults \in Nat /\ MaxFaults \in Nat /\ faults <= MaxFaults
      /\ token \in Nat /\ token > 0 /\ tries \in 0..3 /\ closed \in BOOLEAN
  BY ConstantsAssumption DEF SubscribeTypes, TypeOK
<1>2. \A n \in Nat : Smaller(n + 1, MaxAttempt) \in 0..MaxAttempt
  BY <1>1 DEF Smaller
<1>3. Smaller(tries + 1, 3) \in 0..3
  BY <1>1 DEF Smaller
<1>4. Fault => faults' \in 0..MaxFaults
  BY <1>1 DEF Fault
<1>5. NewSocket(token) \in SocketType /\ NewSocket(token).state = "connecting" /\ NewSocket(token).sent = token
  BY <1>1, NoSocketFits DEF NewSocket, SocketType
<1>6. CASE TokenResolved
  <2>1. UNCHANGED <<log, token, refused, closed, refreshedThisStreak, asked, session, wire, wedged, status, view, error>>
        /\ pc = "resolving"
    BY <1>6 DEF TokenResolved, vaultVars, userVars
  <2>2. \/ /\ pc' = "connected" /\ socket' = NewSocket(token)
           /\ tries' = Smaller(tries + 1, 3) /\ UNCHANGED <<attempt, faults>>
        \/ /\ Fault /\ UNCHANGED <<socket, tries>>
           /\ pc' \in {"done", "sleeping"} /\ attempt' \in 0..MaxAttempt
    BY <1>6, <1>1, <1>2 DEF TokenResolved, Sleep, SubscribeTypes, TypeOK
  <2>3. attempt' \in 0..MaxAttempt /\ faults' \in 0..MaxFaults /\ tries' \in 0..3
    BY <2>2, <1>1, <1>3, <1>4
  <2>4. /\ socket' \in SocketType
        /\ socket.state' # "none" <=> pc' = "connected"
        /\ socket.sent' \in 0..token
    BY <2>1, <2>2, <1>1, <1>5, NoSocketFits DEF SubscribeTypes, TypeOK
  <2>5. pc' \in {"resolving", "connected", "sleeping", "refreshing", "done"}
    BY <2>2
  <2>6. TypeOK'
    BY <2>1, <2>3, <2>4, <2>5 DEF SubscribeTypes, TypeOK, SocketType
  <2>7. pc' = "connected" => socket.sent' > 0
    BY <2>2, <1>1, <1>5
  <2>8. pc' # "connected" =>
          socket' = NoSocket /\ asked' = <<>> /\ session' = 0 /\ wire' = <<>> /\ wedged' = FALSE
    BY <2>1, <2>2 DEF SubscribeTypes
  <2>9. Len(log') > 0 /\ (wedged' => wire' = <<>>)
    BY <2>1 DEF SubscribeTypes
  <2> QED BY <2>4, <2>6, <2>7, <2>8, <2>9 DEF SubscribeTypes
<1>7. CASE Wake
  <2>1. UNCHANGED <<log, token, refused, closed, attempt, refreshedThisStreak, socket, asked, session, wire, wedged, view, error, faults>>
        /\ pc = "sleeping" /\ tries' = 0
    BY <1>7 DEF Wake, vaultVars, netVars
  <2>2. pc' \in {"done", "resolving"} /\ status' \in {status, "reconnecting"}
    BY <1>7 DEF Wake, Again
  <2>3. TypeOK'
    BY <2>1, <2>2 DEF SubscribeTypes, TypeOK
  <2> QED BY <2>1, <2>2, <2>3 DEF SubscribeTypes
<1>8. CASE Unsubscribe
  <2>1. UNCHANGED <<log, token, refused, attempt, refreshedThisStreak, view, error, faults, tries>>
        /\ closed' = TRUE /\ status' = "closed"
    BY <1>8 DEF Unsubscribe, vaultVars, history, Closes
  <2>2. CASE pc = "connected"
    <3>1. Disconnect /\ pc' = "done"
      BY <2>2, <1>8 DEF Unsubscribe
    <3>2. TypeOK'
      BY <2>1, <3>1, NothingFits, <1>1 DEF Disconnect, SubscribeTypes, TypeOK
    <3> QED BY <2>1, <3>1, <3>2, NoSocketFits DEF Disconnect, SubscribeTypes
  <2>3. CASE pc # "connected"
    <3>1. UNCHANGED <<pc, socket, asked, session, wire, wedged>>
      BY <2>3, <1>8 DEF Unsubscribe, netVars
    <3> QED BY <2>1, <3>1 DEF SubscribeTypes, TypeOK
  <2> QED BY <2>2, <2>3
<1>9. ASSUME Ended, UNCHANGED <<log, token, refused, view, tries>>, faults' \in 0..MaxFaults
      PROVE  SubscribeTypes'
  <2>1. /\ socket' = NoSocket /\ asked' = <<>> /\ session' = 0 /\ wire' = <<>> /\ wedged' = FALSE
        /\ pc' \in {"done", "refreshing", "sleeping"}
        /\ status' \in {status, "closed"} /\ error' \in {error, "refused", "auth"}
        /\ closed' \in BOOLEAN /\ attempt' \in 0..MaxAttempt /\ refreshedThisStreak' \in BOOLEAN
    BY <1>9 DEF Ended
  <2>2. TypeOK'
    BY <1>1, <1>9, <2>1, NothingFits DEF SubscribeTypes, TypeOK
  <2> QED BY <1>9, <2>1, <2>2, NoSocketFits DEF SubscribeTypes
<1>10. CASE Dropped
  <2>1. Over(Head(wire).code) /\ UNCHANGED <<log, token, refused, view, faults, tries>>
    BY <1>10 DEF Dropped, vaultVars, history
  <2>2. faults' \in 0..MaxFaults
    BY <2>1, <1>1
  <2> QED BY <2>1, <2>2, <1>9, OverEnds
<1>11. CASE Breaks
  <2>1. Fault /\ UNCHANGED <<log, token, refused, view, tries>>
    BY <1>11 DEF Breaks, vaultVars
  <2>2. PICK code : Over(code)
    BY <1>11 DEF Breaks
  <2> QED BY <2>1, <2>2, <1>4, <1>9, OverEnds
<1>12. CASE PongTimeout
  <2>1. Over(0) /\ UNCHANGED <<log, token, refused, view, tries>> /\ (Fault \/ faults' = faults)
    BY <1>12 DEF PongTimeout, vaultVars
  <2>2. faults' \in 0..MaxFaults
    BY <2>1, <1>1, <1>4
  <2> QED BY <2>1, <2>2, <1>9, OverEnds
<1> QED BY <1>6, <1>7, <1>8, <1>10, <1>11, <1>12

LEMMA TokenTypes ==
  ASSUME SubscribeTypes, Refreshed \/ Rotate \/ Expire PROVE SubscribeTypes'
<1>1. token \in Nat /\ token > 0 /\ MaxTokens \in Nat /\ token <= MaxTokens /\ refused \in 0..token
  BY ConstantsAssumption DEF SubscribeTypes, TypeOK
<1>2. CASE Refreshed
  <2>1. UNCHANGED <<log, refused, attempt, socket, asked, session, wire, wedged, view, faults, tries>>
        /\ pc = "refreshing"
    BY <1>2 DEF Refreshed, netVars, history
  <2>2. /\ token' = token \/ (token < MaxTokens /\ token' = token + 1)
        /\ pc' \in {"resolving", "done"} /\ status' \in {"reconnecting", "closed"}
        /\ closed' \in {closed, TRUE} /\ error' \in {error, "auth"}
        /\ refreshedThisStreak' \in {refreshedThisStreak, TRUE}
    <3>1. \/ /\ ~closed /\ token < MaxTokens /\ token' = token + 1
             /\ refreshedThisStreak' = TRUE /\ Again(FALSE) /\ UNCHANGED <<closed, error>>
          \/ GivesUp("auth") /\ UNCHANGED <<token, refreshedThisStreak>>
          \/ /\ closed /\ token < MaxTokens /\ token' = token + 1
             /\ GivesUp("auth") /\ UNCHANGED refreshedThisStreak
      BY <1>2 DEF Refreshed
    <3> QED BY <3>1 DEF Again, GivesUp, Closes
  <2>3. token' \in 1..MaxTokens /\ token' \in Nat /\ token <= token'
    BY <1>1, <2>2
  <2>4. asked \in Seq(1..token') /\ session \in 0..token' /\ socket.sent \in 0..token' /\ refused \in 0..token'
    BY <2>3, TokenGrows
  <2>5. TypeOK'
    BY <2>1, <2>2, <2>3, <2>4 DEF SubscribeTypes, TypeOK
  <2> QED BY <2>1, <2>2, <2>5 DEF SubscribeTypes
<1>3. CASE Rotate
  <2>1. token < MaxTokens /\ token' = token + 1
        /\ UNCHANGED <<log, refused, pc, closed, attempt, refreshedThisStreak, socket, asked, session, wire, wedged, status, view, error, faults, tries>>
    BY <1>3 DEF Rotate, loopVars, netVars, userVars, history
  <2>2. token' \in 1..MaxTokens /\ token' \in Nat /\ token <= token'
    BY <1>1, <2>1
  <2>3. asked \in Seq(1..token') /\ session \in 0..token' /\ socket.sent \in 0..token' /\ refused \in 0..token'
    BY <2>2, TokenGrows
  <2>4. TypeOK'
    BY <2>1, <2>2, <2>3 DEF SubscribeTypes, TypeOK
  <2> QED BY <2>1, <2>4 DEF SubscribeTypes
<1>4. CASE Expire
  <2>1. refused < token /\ refused' = refused + 1
        /\ UNCHANGED <<log, token, pc, closed, attempt, refreshedThisStreak, socket, asked, session, wedged, status, view, error, faults, tries>>
    BY <1>4 DEF Expire, loopVars, userVars, history
  <2>2. refused' \in 0..token
    BY <1>1, <2>1
  <2>3. /\ wire' = wire \/ (session # 0 /\ ~wedged /\ wire' = Append(wire, [type |-> "close", code |-> 4401]))
    BY <1>4, <1>1 DEF Expire
  <2>4. wire' \in Seq(Frame)
    <3>1. wire \in Seq(Frame) /\ [type |-> "close", code |-> 4401] \in Frame
      BY FramesFit DEF SubscribeTypes, TypeOK
    <3> QED BY <2>3, <3>1, WireGrows
  <2>5. TypeOK'
    BY <2>1, <2>2, <2>4 DEF SubscribeTypes, TypeOK
  <2> QED BY <2>1, <2>3, <2>5 DEF SubscribeTypes
<1> QED BY <1>2, <1>3, <1>4

\* A message of the client is asked of the vault, or lost on a wedged socket.
LEMMA SendFits ==
  ASSUME SubscribeTypes, NEW tok \in 1..token, Send(tok)
  PROVE  asked' \in Seq(1..token)
<1>1. asked \in Seq(1..token) /\ (asked' = asked \/ asked' = Append(asked, tok))
  BY DEF Send, SubscribeTypes, TypeOK
<1>2. Append(asked, tok) \in Seq(1..token)
  BY <1>1, AppendProperties
<1> QED BY <1>1, <1>2

LEMMA SocketTypes ==
  ASSUME SubscribeTypes, Opens \/ Wedge \/ PingTick \/ Ping \/ Judge \/ (\E p \in Parts : Commit(p))
  PROVE  SubscribeTypes'
<1>1. /\ faults \in Nat /\ MaxFaults \in Nat /\ faults <= MaxFaults
      /\ token \in Nat /\ token > 0 /\ closed \in BOOLEAN /\ socket \in SocketType
      /\ socket.sent \in 0..token
  BY ConstantsAssumption DEF SubscribeTypes, TypeOK
<1>2. Fault => faults' \in 0..MaxFaults
  BY <1>1 DEF Fault
<1>3. ASSUME NEW tok \in Seq(1..token), asked' = tok, NEW w \in Seq(Frame), wire' = w,
             NEW s \in SocketType, socket' = s, s.state # "none" <=> socket.state # "none",
             s.sent \in 1..token, session' \in 0..token, wedged' \in BOOLEAN, faults' \in 0..MaxFaults,
             wedged' => wire' = <<>>, pc = "connected",
             UNCHANGED <<log, token, refused, pc, closed, attempt, refreshedThisStreak, status, view, error, tries>>
      PROVE  SubscribeTypes'
  <2>1. TypeOK'
    BY <1>3 DEF SubscribeTypes, TypeOK, SocketType
  <2> QED BY <1>3, <2>1 DEF SubscribeTypes
<1>4. CASE Opens
  <2>1. /\ UNCHANGED <<log, token, refused, pc, closed, attempt, refreshedThisStreak, session, wire, wedged, status, view, error, faults, tries>>
        /\ socket.state = "connecting" /\ socket' = [socket EXCEPT !.state = "open"]
        /\ Send(socket.sent)
    BY <1>4 DEF Opens, vaultVars, loopVars, userVars, history
  <2>2. /\ socket' \in SocketType /\ socket.state' = "open" /\ socket.sent' = socket.sent
    BY <2>1, <1>1 DEF SocketType
  <2>3. socket.sent \in 1..token
    BY <1>1, <2>1 DEF SubscribeTypes, TypeOK
  <2> QED BY <1>1, <1>3, <2>1, <2>2, <2>3, SendFits DEF SubscribeTypes, TypeOK
<1>5. CASE Wedge
  <2>1. /\ UNCHANGED <<log, token, refused, pc, closed, attempt, refreshedThisStreak, socket, asked, session, status, view, error, tries>>
        /\ socket.state = "open" /\ Fault /\ wedged' = TRUE /\ wire' = <<>>
    BY <1>5 DEF Wedge, vaultVars, loopVars, userVars
  <2> QED BY <1>1, <1>2, <1>3, <2>1, NothingFits DEF SubscribeTypes, TypeOK
<1>6. CASE PingTick
  <2>1. /\ UNCHANGED <<log, token, refused, pc, closed, attempt, refreshedThisStreak, asked, session, wire, wedged, status, view, error, faults, tries>>
        /\ socket.state = "open" /\ socket' = [socket EXCEPT !.ping = TRUE]
    BY <1>6 DEF PingTick, vaultVars, loopVars, userVars, history
  <2>2. /\ socket' \in SocketType /\ socket.state' = "open" /\ socket.sent' = socket.sent
    BY <2>1, <1>1 DEF SocketType
  <2> QED BY <1>1, <1>3, <2>1, <2>2 DEF SubscribeTypes, TypeOK
<1>7. CASE Ping
  <2>1. /\ UNCHANGED <<log, token, refused, pc, closed, attempt, refreshedThisStreak, session, wedged, status, view, error, tries>>
        /\ socket.ping
    BY <1>7 DEF Ping, vaultVars, loopVars, userVars
  <2>4. pc = "connected"
    BY <2>1, NoSocketFits DEF SubscribeTypes
  <2>5. socket.sent \in 1..token
    BY <1>1, <2>4 DEF SubscribeTypes, TypeOK
  <2>2. /\ socket' \in SocketType /\ socket.state' = socket.state /\ socket.sent' \in 1..token
        /\ asked' \in Seq(1..token) /\ faults' \in 0..MaxFaults
        /\ wire' = wire \/ (~wedged /\ wire' = Append(wire, [type |-> "pong"]))
    <3>1. CASE closed
      <4>1. socket' = [socket EXCEPT !.ping = FALSE] /\ UNCHANGED <<asked, wire, faults>>
        BY <1>7, <3>1 DEF Ping
      <4> QED BY <1>1, <2>5, <4>1 DEF SubscribeTypes, TypeOK, SocketType
    <3>2. CASE ~closed
      <4>1. /\ \/ /\ socket' = [socket EXCEPT !.ping = FALSE, !.pong = TRUE, !.sent = token]
                  /\ IF token # socket.sent THEN Send(token) ELSE UNCHANGED asked
                  /\ UNCHANGED faults
               \/ /\ Fault /\ UNCHANGED asked
                  /\ socket' = [socket EXCEPT !.ping = FALSE, !.pong = TRUE]
            /\ wire' = IF wedged THEN wire ELSE Append(wire, [type |-> "pong"])
        BY <1>7, <3>2 DEF Ping
      <4>2. \/ socket' = [socket EXCEPT !.ping = FALSE, !.pong = TRUE, !.sent = token]
            \/ socket' = [socket EXCEPT !.ping = FALSE, !.pong = TRUE]
        BY <4>1
      <4>5. /\ socket' \in SocketType /\ socket.state' = socket.state /\ socket.sent' \in 1..token
        <5>1. CASE socket' = [socket EXCEPT !.ping = FALSE, !.pong = TRUE, !.sent = token]
          <6>1. token \in 1..token /\ token \in Nat
            BY <1>1
          <6>2. socket' \in SocketType /\ socket.state' = socket.state /\ socket.sent' = token
            BY <1>1, <5>1 DEF SocketType
          <6> QED BY <6>1, <6>2
        <5>2. CASE socket' = [socket EXCEPT !.ping = FALSE, !.pong = TRUE]
          BY <1>1, <2>5, <5>2 DEF SocketType
        <5> QED BY <4>2, <5>1, <5>2
      <4>3. Send(token) => asked' \in Seq(1..token)
        BY <1>1, SendFits
      <4>4. asked' \in Seq(1..token) /\ faults' \in 0..MaxFaults
        BY <1>1, <1>2, <4>1, <4>3 DEF SubscribeTypes, TypeOK
      <4> QED BY <4>1, <4>5, <4>4
    <3> QED BY <3>1, <3>2
  <2>3. wire' \in Seq(Frame) /\ (wedged => wire' = <<>>)
    <3>1. wire \in Seq(Frame) /\ [type |-> "pong"] \in Frame /\ (wedged => wire = <<>>)
      BY FramesFit DEF SubscribeTypes, TypeOK
    <3> QED BY <2>2, <3>1, WireGrows
  <2> QED BY <1>1, <1>3, <2>1, <2>2, <2>3, <2>4 DEF SubscribeTypes, TypeOK
<1>8. CASE Judge
  <2> DEFINE tok == Head(asked)
  <2>1. /\ UNCHANGED <<log, token, refused, pc, closed, attempt, refreshedThisStreak, socket, wedged, status, view, error, faults, tries>>
        /\ asked # <<>> /\ ~wedged /\ asked' = Tail(asked)
        /\ \/ wire' = Append(wire, [type |-> "close", code |-> 4401]) /\ UNCHANGED session
           \/ session' = tok /\ wire' = wire \o (IF session = 0 THEN SnapshotFrames ELSE <<>>)
    BY <1>8 DEF Judge, vaultVars, loopVars, userVars, history, SnapshotFrames
  <2>2. tok \in 1..token /\ asked' \in Seq(1..token) /\ asked \in Seq(1..token)
    BY <2>1 DEF SubscribeTypes, TypeOK
  <2> HIDE DEF tok
  <2>3. wire \in Seq(Frame) /\ session \in 0..token
    BY DEF SubscribeTypes, TypeOK
  <2>4. wire \o (IF session = 0 THEN SnapshotFrames ELSE <<>>) \in Seq(Frame)
    BY <2>3, SnapshotFits, NothingFits
  <2>5. wire' \in Seq(Frame) /\ session' \in 0..token
    <3>1. [type |-> "close", code |-> 4401] \in Frame
      BY FramesFit
    <3>2. Append(wire, [type |-> "close", code |-> 4401]) \in Seq(Frame)
      BY <2>3, <3>1, WireGrows
    <3>3. tok \in 0..token
      BY <2>2, <1>1
    <3>4. CASE wire' = Append(wire, [type |-> "close", code |-> 4401]) /\ UNCHANGED session
      BY <2>3, <3>2, <3>4
    <3>5. CASE session' = tok /\ wire' = wire \o (IF session = 0 THEN SnapshotFrames ELSE <<>>)
      BY <2>4, <3>3, <3>5
    <3> QED BY <2>1, <3>4, <3>5
  <2>6. pc = "connected"
    BY <2>1 DEF SubscribeTypes
  <2> QED BY <1>1, <1>3, <2>1, <2>2, <2>5, <2>6 DEF SubscribeTypes, TypeOK
<1>9. ASSUME NEW p \in Parts, Commit(p) PROVE SubscribeTypes'
  <2>1. /\ UNCHANGED <<token, refused, pc, closed, attempt, refreshedThisStreak, socket, asked, session, wedged, status, view, error, faults, tries>>
        /\ log' = Append(log, [Vault EXCEPT ![p] = Len(log)])
        /\ wire' = wire \/ (session # 0 /\ ~wedged /\ wire' = Append(wire, [type |-> "change", part |-> p, at |-> Len(log)]))
    BY <1>9 DEF Commit, loopVars, userVars, history, Announce
  <2>2. /\ [Vault EXCEPT ![p] = Len(log)] \in [Parts -> Nat]
    BY VaultIsAState
  <2>3. log' \in Seq([Parts -> Nat]) /\ Len(log') > 0
    <3> DEFINE v == [Vault EXCEPT ![p] = Len(log)]
    <3>1. v \in [Parts -> Nat] /\ log' = Append(log, v) /\ log \in Seq([Parts -> Nat])
      BY <2>1, <2>2 DEF SubscribeTypes, TypeOK
    <3> HIDE DEF v
    <3> QED BY <3>1
  <2>4. wire' \in Seq(Frame)
    <3>1. [type |-> "change", part |-> p, at |-> Len(log)] \in Frame /\ wire \in Seq(Frame)
      BY VaultIsAState, FramesFit DEF SubscribeTypes, TypeOK
    <3> QED BY <2>1, <3>1, WireGrows
  <2>5. TypeOK'
    BY <2>1, <2>3, <2>4 DEF SubscribeTypes, TypeOK
  <2> QED BY <2>1, <2>3, <2>5 DEF SubscribeTypes
<1> QED BY <1>4, <1>5, <1>6, <1>7, <1>8, <1>9

LEMMA ArrivesTypes == ASSUME SubscribeTypes, Arrives PROVE SubscribeTypes'
<1> DEFINE f == Head(wire)
<1>1. /\ wire \in Seq(Frame) /\ wire # <<>> /\ wire' = Tail(wire)
      /\ UNCHANGED <<log, token, refused, pc, closed, attempt, refreshedThisStreak, asked, session, wedged, error, faults>>
      /\ Pong(f) \/ Chunk(f) \/ Change(f)
  BY DEF Arrives, SubscribeTypes, TypeOK, vaultVars, loopVars
<1>2. f \in Frame /\ wire' \in Seq(Frame)
  BY <1>1
<1> HIDE DEF f
<1>3. socket \in SocketType /\ view \in Seq(Nat) /\ pc = "connected" /\ socket.state # "none" /\ ~wedged
  BY <1>1, NoSocketFits DEF SubscribeTypes, TypeOK
<1>4. /\ socket' \in SocketType /\ socket.state' = socket.state /\ socket.sent' = socket.sent
      /\ view' \in Seq(Nat) /\ status' \in {status, "open"} /\ tries' \in {tries, 0}
  <2>1. CASE Pong(f)
    BY <1>3, <2>1 DEF Pong, SocketType
  <2>2. CASE Chunk(f)
    <3> DEFINE acc == Append(socket.acc, f.at)
    <3>1. f.at \in Nat /\ socket.acc \in Seq(Nat)
      BY <2>2, <1>2, <1>3, FrameKinds DEF Chunk, SocketType
    <3>2. acc \in Seq(Nat) /\ <<>> \in Seq(Nat)
      BY <3>1
    <3>3. socket' = [socket EXCEPT !.pong = FALSE, !.got = TRUE, !.acc = IF f.done THEN <<>> ELSE acc]
          /\ (view' = view \/ view' = acc) /\ FirstFrame
      BY <2>2 DEF Chunk
    <3> HIDE DEF acc
    <3> QED BY <1>3, <3>2, <3>3 DEF FirstFrame, SocketType
  <2>3. CASE Change(f)
    <3>1. f.at \in Nat
      BY <2>3, <1>2, FrameKinds DEF Change
    <3>2. socket' = [socket EXCEPT !.pong = FALSE, !.got = TRUE] /\ view' = [view EXCEPT ![f.part] = f.at]
          /\ FirstFrame
      BY <2>3 DEF Change
    <3>3. view' \in Seq(Nat)
      BY <1>3, <3>1, <3>2, ElementReplaced
    <3> QED BY <1>3, <3>2, <3>3 DEF FirstFrame, SocketType
  <2> QED BY <1>1, <2>1, <2>2, <2>3
<1>5. TypeOK'
  BY <1>1, <1>2, <1>3, <1>4 DEF SubscribeTypes, TypeOK
<1> QED BY <1>1, <1>3, <1>4, <1>5 DEF SubscribeTypes

LEMMA StepTypes == SubscribeTypes /\ [Next]_vars => SubscribeTypes'
<1> SUFFICES ASSUME SubscribeTypes, [Next]_vars PROVE SubscribeTypes'
  OBVIOUS
<1>1. CASE UNCHANGED vars
  BY <1>1 DEF vars, vaultVars, loopVars, netVars, userVars, history, SubscribeTypes, TypeOK
<1>2. CASE Next
  BY <1>2, LoopTypes, TokenTypes, SocketTypes, ArrivesTypes DEF Next
<1> QED BY <1>1, <1>2

\* The types of the client's, the vault's and the network's state hold for ever: what
\* the loop awaits, its counters and the frames on the wire stay within their ranges.
THEOREM TransportTypesHold == Spec => []TypeOK
<1>1. SubscribeTypes => TypeOK
  BY DEF SubscribeTypes
<1> QED BY <1>1, InitTypes, StepTypes, PTL DEF Spec

-----------------------------------------------------------------------------
(* What "open" says, and how often the loop tries.                         *)

\* Data frames come on an accepted socket only, and only the first of them opens the
\* subscription.
FirstFramesCome ==
  /\ \A i \in 1..Len(wire) : wire[i].type \in {"snapshot", "change"} => session # 0
  /\ socket.got => session # 0
  /\ pc = "connected" /\ status = "open" => socket.got
  /\ pc = "resolving" => status # "open"

\* The second connection in a row is the one a refresh allowed.
TriesAreCounted ==
  /\ pc = "resolving" => tries <= 1 /\ (tries = 1 => refreshedThisStreak)
  /\ pc = "connected" => tries <= 2 /\ (tries = 2 => refreshedThisStreak)
  /\ pc = "refreshing" => tries <= 1
  /\ tries <= 2

LoopInv == FirstFramesCome /\ TriesAreCounted

LEMMA InitLoop == Init => LoopInv
BY NoSocketFits DEF Init, LoopInv, FirstFramesCome, TriesAreCounted

\* A connection that ends leaves the counters within their bounds.
LEMMA EndedLoop == ASSUME SubscribeTypes, LoopInv, Ended, tries' = tries, pc = "connected" PROVE LoopInv'
<1>1. FirstFramesCome'
  BY NoSocketFits DEF Ended, FirstFramesCome
<1>2. tries \in 0..2 /\ (tries = 2 => refreshedThisStreak)
  BY DEF SubscribeTypes, TypeOK, LoopInv, TriesAreCounted
<1>3. TriesAreCounted'
  BY <1>2 DEF Ended, TriesAreCounted
<1> QED BY <1>1, <1>3 DEF LoopInv

LEMMA QuietLoop ==
  ASSUME SubscribeTypes, LoopInv,
         TokenResolved \/ Wake \/ Refreshed \/ Unsubscribe \/ Rotate \/ PingTick \/ Opens \/ Wedge
  PROVE  LoopInv'
<1>1. tries \in 0..3 /\ refreshedThisStreak \in BOOLEAN
  BY DEF SubscribeTypes, TypeOK
<1>2. CASE TokenResolved
  <2>1. pc = "resolving" /\ UNCHANGED <<session, wire, status, refreshedThisStreak>>
        /\ socket = NoSocket /\ tries \in 0..1
    BY <1>2, <1>1 DEF TokenResolved, userVars, SubscribeTypes, LoopInv, TriesAreCounted
  <2>2. \/ pc' = "connected" /\ socket' = NewSocket(token) /\ tries' = Smaller(tries + 1, 3)
        \/ pc' \in {"done", "sleeping"} /\ UNCHANGED <<socket, tries>>
    BY <1>2 DEF TokenResolved, Sleep
  <2>3. ~NewSocket(token).got
    BY NoSocketFits DEF NewSocket, SocketType
  <2>4. Smaller(tries + 1, 3) = tries + 1
    BY <2>1 DEF Smaller
  <2>5. FirstFramesCome'
    BY <2>1, <2>2, <2>3, NoSocketFits DEF LoopInv, FirstFramesCome
  <2>6. TriesAreCounted'
    BY <2>1, <2>2, <2>4 DEF LoopInv, TriesAreCounted
  <2> QED BY <2>5, <2>6 DEF LoopInv
<1>3. CASE Wake
  <2>1. /\ UNCHANGED <<session, wire, socket, refreshedThisStreak>> /\ tries' = 0
        /\ \/ pc' = "done"
           \/ pc' = "resolving" /\ status' = "reconnecting"
    BY <1>3 DEF Wake, netVars, Again
  <2> QED BY <2>1 DEF LoopInv, FirstFramesCome, TriesAreCounted
<1>4. CASE Refreshed
  <2>1. /\ UNCHANGED <<session, wire, socket, tries>> /\ tries \in 0..1
        /\ \/ pc' = "done"
           \/ pc' = "resolving" /\ status' = "reconnecting" /\ refreshedThisStreak' = TRUE
    BY <1>4, <1>1 DEF Refreshed, netVars, history, Again, GivesUp, LoopInv, TriesAreCounted
  <2> QED BY <2>1 DEF LoopInv, FirstFramesCome, TriesAreCounted
<1>5. CASE Unsubscribe
  <2>1. UNCHANGED <<refreshedThisStreak, tries>> /\ status' = "closed"
    BY <1>5 DEF Unsubscribe, history, Closes
  <2>2. CASE pc = "connected"
    <3>1. Disconnect /\ pc' = "done"
      BY <1>5, <2>2 DEF Unsubscribe
    <3> QED BY <1>1, <2>1, <2>2, <3>1, NoSocketFits DEF Disconnect, LoopInv, FirstFramesCome, TriesAreCounted
  <2>3. CASE pc # "connected"
    <3>1. UNCHANGED <<pc, socket, session, wire>>
      BY <1>5, <2>3 DEF Unsubscribe, netVars
    <3> QED BY <2>1, <2>3, <3>1 DEF LoopInv, FirstFramesCome, TriesAreCounted
  <2> QED BY <2>2, <2>3
<1>6. ASSUME UNCHANGED <<pc, session, status, tries, refreshedThisStreak>>, socket'.got = socket.got,
             wire' = wire \/ wire' = <<>>
      PROVE  LoopInv'
  <2>1. FirstFramesCome'
    BY <1>6 DEF LoopInv, FirstFramesCome
  <2> QED BY <1>6, <2>1 DEF LoopInv, TriesAreCounted
<1>7. CASE Rotate
  <2>1. UNCHANGED <<pc, session, status, tries, refreshedThisStreak, socket, wire>>
    BY <1>7 DEF Rotate, loopVars, netVars, userVars, history
  <2> QED BY <2>1, <1>6
<1>8. CASE PingTick
  <2>1. UNCHANGED <<pc, session, status, tries, refreshedThisStreak, wire>> /\ socket' = [socket EXCEPT !.ping = TRUE]
    BY <1>8 DEF PingTick, loopVars, userVars, history
  <2>2. socket'.got = socket.got
    BY <2>1 DEF SubscribeTypes, SocketType
  <2> QED BY <2>1, <2>2, <1>6
<1>9. CASE Opens
  <2>1. UNCHANGED <<pc, session, status, tries, refreshedThisStreak, wire>> /\ socket' = [socket EXCEPT !.state = "open"]
    BY <1>9 DEF Opens, loopVars, userVars, history
  <2>2. socket'.got = socket.got
    BY <2>1 DEF SubscribeTypes, SocketType
  <2> QED BY <2>1, <2>2, <1>6
<1>10. CASE Wedge
  <2>1. UNCHANGED <<pc, session, status, tries, refreshedThisStreak, socket>> /\ wire' = <<>>
    BY <1>10 DEF Wedge, loopVars, userVars
  <2> QED BY <2>1, <1>6
<1> QED BY <1>2, <1>3, <1>4, <1>5, <1>7, <1>8, <1>9, <1>10

\* Frames added to the wire: data only if the socket is accepted.
LEMMA GrowingLoop ==
  ASSUME SubscribeTypes, LoopInv, UNCHANGED <<pc, status, tries, refreshedThisStreak>>,
         socket'.got = socket.got, session # 0 => session' # 0, wire \in Seq(Frame),
         NEW more \in Seq(Frame), wire' = wire \o more,
         \A i \in 1..Len(more) : more[i].type \in {"snapshot", "change"} => session' # 0
  PROVE  LoopInv'
<1>1. \A i \in 1..Len(wire') : wire'[i].type \in {"snapshot", "change"} => session' # 0
  <2> TAKE i \in 1..Len(wire')
  <2>1. CASE i <= Len(wire)
    <3>1. wire'[i] = wire[i] /\ i \in 1..Len(wire)
      BY <2>1
    <3> QED BY <3>1 DEF LoopInv, FirstFramesCome
  <2>2. CASE i > Len(wire)
    <3>1. wire'[i] = more[i - Len(wire)] /\ i - Len(wire) \in 1..Len(more)
      BY <2>2
    <3> QED BY <3>1
  <2> QED BY <2>1, <2>2
<1>2. FirstFramesCome'
  BY <1>1 DEF LoopInv, FirstFramesCome
<1> QED BY <1>2 DEF LoopInv, TriesAreCounted

\* One more frame on the wire, or none.
LEMMA OneMoreLoop ==
  ASSUME SubscribeTypes, LoopInv, UNCHANGED <<pc, status, tries, refreshedThisStreak, session>>,
         socket'.got = socket.got, NEW f \in Frame,
         wire' = wire \/ wire' = Append(wire, f),
         f.type \in {"snapshot", "change"} => session # 0
  PROVE  LoopInv'
<1>1. CASE wire' = wire
  <2>1. FirstFramesCome'
    BY <1>1 DEF LoopInv, FirstFramesCome
  <2> QED BY <2>1 DEF LoopInv, TriesAreCounted
<1>2. CASE wire' = Append(wire, f)
  <2>1. wire \in Seq(Frame)
    BY DEF SubscribeTypes, TypeOK
  <2>2. /\ Len(wire') = Len(wire) + 1 /\ wire'[Len(wire) + 1] = f /\ Len(wire) \in Nat
        /\ \A i \in 1..Len(wire) : wire'[i] = wire[i]
    BY <1>2, <2>1, WireGrows
  <2>3. \A i \in 1..Len(wire') : i \in 1..Len(wire) \/ i = Len(wire) + 1
    BY <2>2
  <2>4. FirstFramesCome'
    BY <2>2, <2>3 DEF LoopInv, FirstFramesCome
  <2> QED BY <2>4 DEF LoopInv, TriesAreCounted
<1> QED BY <1>1, <1>2

LEMMA WireLoop ==
  ASSUME SubscribeTypes, LoopInv, Ping \/ Judge \/ Expire \/ (\E p \in Parts : Commit(p))
  PROVE  LoopInv'
<1>1. wire \in Seq(Frame)
  BY DEF SubscribeTypes, TypeOK
<1>2. CASE Ping
  <2> DEFINE f == [type |-> "pong"]
  <2>1. /\ UNCHANGED <<pc, status, tries, refreshedThisStreak, session>>
        /\ \/ socket' = [socket EXCEPT !.ping = FALSE]
           \/ socket' = [socket EXCEPT !.ping = FALSE, !.pong = TRUE, !.sent = token]
           \/ socket' = [socket EXCEPT !.ping = FALSE, !.pong = TRUE]
        /\ wire' = wire \/ wire' = Append(wire, f)
    BY <1>2 DEF Ping, loopVars, userVars
  <2>2. socket'.got = socket.got
    BY <2>1 DEF SubscribeTypes, SocketType
  <2>3. f \in Frame /\ f.type = "pong"
    BY FramesFit
  <2> HIDE DEF f
  <2> QED BY <2>1, <2>2, <2>3, OneMoreLoop
<1>3. CASE Expire
  <2> DEFINE f == [type |-> "close", code |-> 4401]
  <2>1. /\ UNCHANGED <<pc, status, tries, refreshedThisStreak, session, socket>>
        /\ wire' = wire \/ wire' = Append(wire, f)
    BY <1>3 DEF Expire, loopVars, userVars, history
  <2>2. f \in Frame /\ f.type = "close"
    BY FramesFit
  <2> HIDE DEF f
  <2> QED BY <2>1, <2>2, OneMoreLoop
<1>4. ASSUME NEW p \in Parts, Commit(p) PROVE LoopInv'
  <2> DEFINE f == [type |-> "change", part |-> p, at |-> Len(log)]
  <2>1. /\ UNCHANGED <<pc, status, tries, refreshedThisStreak, session, socket>>
        /\ wire' = wire \/ (wire' = Append(wire, f) /\ session # 0)
    BY <1>4 DEF Commit, Announce, loopVars, userVars, history
  <2>2. f \in Frame /\ [type |-> "pong"] \in Frame /\ [type |-> "pong"].type = "pong"
    BY FramesFit, VaultIsAState
  <2> HIDE DEF f
  <2>3. CASE session # 0
    BY <2>1, <2>2, <2>3, OneMoreLoop
  <2>4. CASE session = 0
    BY <2>1, <2>2, <2>4, OneMoreLoop
  <2> QED BY <2>3, <2>4
<1>5. CASE Judge
  <2> DEFINE f == [type |-> "close", code |-> 4401]
  <2>1. /\ UNCHANGED <<pc, status, tries, refreshedThisStreak, socket>> /\ asked # <<>>
        /\ \/ wire' = Append(wire, f) /\ UNCHANGED session
           \/ session' = Head(asked) /\ wire' = wire \o (IF session = 0 THEN SnapshotFrames ELSE <<>>)
    BY <1>5 DEF Judge, loopVars, userVars, history, SnapshotFrames
  <2>2. f \in Frame /\ f.type = "close"
    BY FramesFit
  <2> HIDE DEF f
  <2>3. CASE wire' = Append(wire, f) /\ UNCHANGED session
    BY <2>1, <2>2, <2>3, OneMoreLoop
  <2>4. CASE session' = Head(asked) /\ wire' = wire \o (IF session = 0 THEN SnapshotFrames ELSE <<>>)
    <3>1. session' # 0
      BY <2>1, <2>4 DEF SubscribeTypes, TypeOK
    <3>2. PICK more \in Seq(Frame) : wire' = wire \o more
      BY <2>4, SnapshotFits, NothingFits
    <3> QED BY <1>1, <2>1, <3>1, <3>2, GrowingLoop
  <2> QED BY <2>1, <2>3, <2>4
<1> QED BY <1>2, <1>3, <1>4, <1>5

LEMMA ArrivesLoop == ASSUME SubscribeTypes, LoopInv, Arrives PROVE LoopInv'
<1> DEFINE f == Head(wire)
<1>1. /\ wire \in Seq(Frame) /\ wire # <<>> /\ wire' = Tail(wire) /\ socket.state # "none"
      /\ UNCHANGED <<pc, session, refreshedThisStreak>>
      /\ Pong(f) \/ Chunk(f) \/ Change(f)
  BY DEF Arrives, SubscribeTypes, TypeOK, loopVars
<1>2. f = wire[1] /\ 1 \in 1..Len(wire) /\ (\A i \in 1..Len(wire') : wire'[i] = wire[i + 1] /\ i + 1 \in 1..Len(wire))
  BY <1>1
<1>3. pc = "connected" /\ socket \in SocketType
  BY <1>1 DEF SubscribeTypes, TypeOK
<1>4. \A i \in 1..Len(wire') : wire'[i].type \in {"snapshot", "change"} => session' # 0
  BY <1>1, <1>2 DEF LoopInv, FirstFramesCome
<1>5. f.type \in {"snapshot", "change"} => session # 0
  BY <1>2 DEF LoopInv, FirstFramesCome
<1> HIDE DEF f
<1>6. CASE Pong(f)
  <2>1. socket'.got = socket.got /\ UNCHANGED <<status, tries>>
    BY <1>3, <1>6 DEF Pong, SocketType
  <2> QED BY <1>1, <1>4, <2>1 DEF LoopInv, FirstFramesCome, TriesAreCounted
<1>7. CASE Chunk(f) \/ Change(f)
  <2>1. f.type \in {"snapshot", "change"} /\ tries' = 0 /\ socket'.got
    BY <1>3, <1>7 DEF Chunk, Change, FirstFrame, SocketType
  <2> QED BY <1>1, <1>3, <1>4, <1>5, <2>1 DEF LoopInv, FirstFramesCome, TriesAreCounted
<1> QED BY <1>1, <1>6, <1>7

LEMMA StepLoop == SubscribeTypes /\ LoopInv /\ [Next]_vars => LoopInv'
<1> SUFFICES ASSUME SubscribeTypes, LoopInv, [Next]_vars PROVE LoopInv'
  OBVIOUS
<1>1. CASE UNCHANGED vars
  BY <1>1 DEF vars, loopVars, netVars, userVars, history, LoopInv, FirstFramesCome, TriesAreCounted
<1>2. CASE Dropped \/ Breaks \/ PongTimeout
  <2>1. tries' = tries /\ \E code : Over(code)
    BY <1>2 DEF Dropped, Breaks, PongTimeout, history
  <2>2. pc = "connected"
    BY <1>2 DEF Dropped, Breaks, PongTimeout, SubscribeTypes, TypeOK, NoSocket
  <2> QED BY <2>1, <2>2, OverEnds, EndedLoop
<1>3. CASE Next
  BY <1>2, <1>3, QuietLoop, WireLoop, ArrivesLoop DEF Next
<1> QED BY <1>1, <1>3

\* Types and counters together: the inductive invariant of the loop.
LEMMA LoopIsInvariant == Spec => [](SubscribeTypes /\ LoopInv)
<1>1. Init => SubscribeTypes /\ LoopInv
  BY InitTypes, InitLoop
<1>2. SubscribeTypes /\ LoopInv /\ [Next]_vars => (SubscribeTypes /\ LoopInv)'
  BY StepTypes, StepLoop
<1> QED BY <1>1, <1>2, PTL DEF Spec

\* "open" is announced only on a socket the vault has accepted a token on: a pong,
\* which may come before the vault's answer, does not count as a first frame.
THEOREM OpenMeansAccepted == Spec => []OpenIsAccepted
<1>1. SubscribeTypes /\ LoopInv => OpenIsAccepted
  BY DEF LoopInv, FirstFramesCome, OpenIsAccepted
<1> QED BY <1>1, LoopIsInvariant, PTL

\* The vault is never hammered: however tokens, sockets and refreshes fail, there are
\* at most two connections between two delays, or two frames.
THEOREM VaultIsNotHammered == Spec => []NoHotLoop
<1>1. SubscribeTypes /\ LoopInv => NoHotLoop
  BY DEF LoopInv, TriesAreCounted, NoHotLoop
<1> QED BY <1>1, LoopIsInvariant, PTL

-----------------------------------------------------------------------------
(* What the consumer is given.                                             *)
(*                                                                         *)
(* Every frame of an accepted socket is read as a move of the reader: it   *)
(* has a state of the vault, by its number in log, and has taken some      *)
(* chunks of it.  A chunk takes one more of the same state, a change takes *)
(* a whole state to the next.  The moves on the wire lead from where the   *)
(* client is to where the vault is.                                        *)

Moves(f, l, g1, h1, g2, h2) ==
  /\ f.type = "snapshot" =>
       /\ h1 < Chunks /\ h2 = h1 + 1 /\ g2 = g1
       /\ f.at = l[g1][h1 + 1]
       /\ f.done <=> h2 = Chunks
  /\ f.type = "change" =>
       /\ h1 = Chunks /\ h2 = Chunks /\ g2 = g1 + 1
       /\ l[g2] = [l[g1] EXCEPT ![f.part] = f.at]
  /\ f.type \in {"pong", "close"} => g2 = g1 /\ h2 = h1

Stands(l, g1, h1) == g1 \in 1..Len(l) /\ h1 \in 0..Chunks

\* The frames of w lead the reader from g1, h1 to g2, h2: it stands at g[i], h[i] before
\* the i-th of them.
Reading(g, h, w, l) ==
  /\ \A i \in 1..Len(w) + 1 : Stands(l, g[i], h[i])
  /\ \A i \in 1..Len(w) : Moves(w[i], l, g[i], h[i], g[i + 1], h[i + 1])

Path(w, l, g1, h1, g2, h2) ==
  \E g, h \in [Nat -> Nat] :
    /\ Reading(g, h, w, l)
    /\ g[1] = g1 /\ h[1] = h1
    /\ g[Len(w) + 1] = g2 /\ h[Len(w) + 1] = h2

\* What the consumer has is nothing, or one of the first m states of the vault.
Past(v, l, m) == v = <<>> \/ \E k \in 1..m : v = l[k]

\* The client stands at g1, h1: a part of the snapshot is collected, or the whole state
\* is handed out.
Collected(a, v, l, g1, h1) ==
  /\ Past(v, l, g1)
  /\ h1 < Chunks => /\ Len(a) = h1
                    /\ \A i \in 1..h1 : a[i] = l[g1][i]
  /\ h1 = Chunks => a = <<>> /\ v = l[g1]

Followed(g1, h1, g2, h2) ==
  /\ Path(wire, log, g1, h1, g2, h2)
  /\ ~wedged => g2 = Len(log) /\ h2 = Chunks
  /\ Collected(socket.acc, view, log, g1, h1)

ViewInv ==
  /\ session = 0 => socket.acc = <<>> /\ Past(view, log, Len(log))
  /\ session # 0 => \E g1, h1, g2, h2 \in Nat : Followed(g1, h1, g2, h2)

LEMMA InitView == Init => ViewInv
BY NoSocketFits DEF Init, ViewInv, Past

\* Functions on the naturals: the rest after the first value.
LEMMA Shifted ==
  ASSUME NEW g \in [Nat -> Nat]
  PROVE  \E e \in [Nat -> Nat] : \A i \in Nat : e[i] = g[i + 1]
<1> DEFINE e == [i \in Nat |-> g[i + 1]]
<1>1. \A i \in Nat : g[i + 1] \in Nat
  OBVIOUS
<1>2. e \in [Nat -> Nat] /\ \A i \in Nat : e[i] = g[i + 1]
  BY <1>1
<1> HIDE DEF e
<1> QED BY <1>2

\* A function with one more value, after the first n + 1.
Longer(g, n, v) == [i \in Nat |-> IF i = n + 2 THEN v ELSE g[i]]

LEMMA OneMoreValue ==
  ASSUME NEW g \in [Nat -> Nat], NEW n \in Nat, NEW v \in Nat
  PROVE  /\ Longer(g, n, v) \in [Nat -> Nat] /\ Longer(g, n, v)[n + 2] = v
         /\ Longer(g, n, v)[1] = g[1]
         /\ \A i \in 1..n + 1 : Longer(g, n, v)[i] = g[i]
BY DEF Longer

LEMMA TailEnds ==
  ASSUME NEW w \in Seq(Frame), w # <<>>
  PROVE  Len(Tail(w)) + 1 = Len(w) /\ Len(w) \in Nat
OBVIOUS

LEMMA EndPositions ==
  ASSUME NEW w \in Seq(Frame)
  PROVE  1 \in 1..Len(w) + 1 /\ Len(w) + 1 \in 1..Len(w) + 1 /\ Len(w) + 1 \in Nat
OBVIOUS

\* Where the elements of a longer sequence are.
LEMMA OneMoreElement ==
  ASSUME NEW w \in Seq(Frame), NEW f \in Frame
  PROVE  /\ Len(w) \in Nat /\ Append(w, f)[Len(w) + 1] = f
         /\ \A i \in 1..Len(Append(w, f)) + 1 : i \in 1..Len(w) + 1 \/ i = Len(w) + 2
         /\ \A i \in 1..Len(Append(w, f)) : i \in 1..Len(w) \/ i = Len(w) + 1
         /\ \A i \in 1..Len(w) : /\ Append(w, f)[i] = w[i]
                                 /\ i \in 1..Len(w) + 1 /\ i + 1 \in 1..Len(w) + 1
         /\ Len(w) + 1 \in 1..Len(w) + 1 /\ (Len(w) + 1) + 1 = Len(w) + 2
<1>1. /\ Len(Append(w, f)) = Len(w) + 1 /\ Len(w) \in Nat /\ Append(w, f)[Len(w) + 1] = f
      /\ \A i \in 1..Len(w) : Append(w, f)[i] = w[i]
  BY WireGrows
<1> QED BY <1>1

\* No frames lead nowhere.
LEMMA PathStarts ==
  ASSUME NEW l, NEW g1 \in Nat, NEW h1 \in Nat, Stands(l, g1, h1)
  PROVE  Path(<<>>, l, g1, h1, g1, h1)
<1> DEFINE g == [i \in Nat |-> g1]
           h == [i \in Nat |-> h1]
<1>1. g \in [Nat -> Nat] /\ h \in [Nat -> Nat] /\ \A i \in Nat : g[i] = g1 /\ h[i] = h1
  OBVIOUS
<1> HIDE DEF g, h
<1>2. Len(<<>>) = 0 /\ 1..0 + 1 \subseteq Nat /\ 0 + 1 = 1 /\ 1 \in Nat
  OBVIOUS
<1>3. Reading(g, h, <<>>, l)
  BY <1>1, <1>2 DEF Reading
<1> QED BY <1>1, <1>2, <1>3 DEF Path

\* Where the reader begins and ends.
LEMMA PathEnds ==
  ASSUME NEW w \in Seq(Frame), NEW l, NEW g1, NEW h1, NEW g2, NEW h2, Path(w, l, g1, h1, g2, h2)
  PROVE  Stands(l, g1, h1) /\ Stands(l, g2, h2)
<1>1. PICK g, h \in [Nat -> Nat] :
        /\ Reading(g, h, w, l)
        /\ g[1] = g1 /\ h[1] = h1 /\ g[Len(w) + 1] = g2 /\ h[Len(w) + 1] = h2
  BY DEF Path
<1>2. 1 \in 1..Len(w) + 1 /\ Len(w) + 1 \in 1..Len(w) + 1
  BY EndPositions
<1> QED BY <1>1, <1>2 DEF Reading

\* One more frame, and one more move.
LEMMA PathExtends ==
  ASSUME NEW w \in Seq(Frame), NEW f \in Frame, NEW l, NEW g1, NEW h1, NEW g2, NEW h2,
         Path(w, l, g1, h1, g2, h2),
         NEW g3 \in Nat, NEW h3 \in Nat, Stands(l, g3, h3), Moves(f, l, g2, h2, g3, h3)
  PROVE  Path(Append(w, f), l, g1, h1, g3, h3)
<1>0. PICK g, h \in [Nat -> Nat] :
        /\ Reading(g, h, w, l)
        /\ g[1] = g1 /\ h[1] = h1 /\ g[Len(w) + 1] = g2 /\ h[Len(w) + 1] = h2
  BY DEF Path
<1> DEFINE gg == Longer(g, Len(w), g3)
           hh == Longer(h, Len(w), h3)
<1>1. Len(w) \in Nat
  OBVIOUS
<1>6. /\ gg \in [Nat -> Nat] /\ gg[Len(w) + 2] = g3
      /\ gg[1] = g[1]
      /\ \A i \in 1..Len(w) + 1 : gg[i] = g[i]
  BY <1>1, OneMoreValue
<1>7. /\ hh \in [Nat -> Nat] /\ hh[Len(w) + 2] = h3
      /\ hh[1] = h[1]
      /\ \A i \in 1..Len(w) + 1 : hh[i] = h[i]
  BY <1>1, OneMoreValue
<1> HIDE DEF gg, hh
<1>2. \A i \in 1..Len(w) + 1 : gg[i] = g[i] /\ hh[i] = h[i]
  BY <1>6, <1>7
<1>3. \A i \in 1..Len(Append(w, f)) + 1 : Stands(l, gg[i], hh[i])
  <2> TAKE i \in 1..Len(Append(w, f)) + 1
  <2>1. CASE i \in 1..Len(w) + 1
    BY <1>0, <1>2, <2>1 DEF Reading
  <2>2. CASE i = Len(w) + 2
    BY <1>6, <1>7, <2>2
  <2> QED BY <2>1, <2>2, OneMoreElement
<1>4. \A i \in 1..Len(Append(w, f)) : Moves(Append(w, f)[i], l, gg[i], hh[i], gg[i + 1], hh[i + 1])
  <2> TAKE i \in 1..Len(Append(w, f))
  <2>1. CASE i \in 1..Len(w)
    <3>1. i \in 1..Len(w) + 1 /\ i + 1 \in 1..Len(w) + 1 /\ Append(w, f)[i] = w[i]
      BY <2>1, OneMoreElement
    <3>2. gg[i] = g[i] /\ hh[i] = h[i] /\ gg[i + 1] = g[i + 1] /\ hh[i + 1] = h[i + 1]
      BY <1>2, <3>1
    <3>3. Moves(w[i], l, g[i], h[i], g[i + 1], h[i + 1])
      BY <1>0, <2>1 DEF Reading
    <3> QED BY <3>1, <3>2, <3>3
  <2>2. CASE i = Len(w) + 1
    <3>1. i \in 1..Len(w) + 1 /\ i + 1 = Len(w) + 2 /\ Append(w, f)[i] = f
      BY <2>2, OneMoreElement
    <3>2. gg[i] = g[Len(w) + 1] /\ hh[i] = h[Len(w) + 1] /\ gg[i + 1] = g3 /\ hh[i + 1] = h3
      BY <1>2, <1>6, <1>7, <2>2, <3>1
    <3> QED BY <1>0, <3>1, <3>2
  <2> QED BY <2>1, <2>2, OneMoreElement
<1>5. Reading(gg, hh, Append(w, f), l)
  BY <1>3, <1>4 DEF Reading
<1>8. Len(Append(w, f)) + 1 = Len(w) + 2
  BY OneMoreElement
<1> QED BY <1>0, <1>5, <1>6, <1>7, <1>8 DEF Path

\* The first frame is taken off the wire, and the reader stands after it.
LEMMA PathGoesOn ==
  ASSUME NEW w \in Seq(Frame), w # <<>>, NEW l, NEW g1, NEW h1, NEW g2, NEW h2,
         Path(w, l, g1, h1, g2, h2)
  PROVE  \E g3, h3 \in Nat : Moves(Head(w), l, g1, h1, g3, h3) /\ Path(Tail(w), l, g3, h3, g2, h2)
<1>0. PICK g, h \in [Nat -> Nat] :
        /\ Reading(g, h, w, l)
        /\ g[1] = g1 /\ h[1] = h1 /\ g[Len(w) + 1] = g2 /\ h[Len(w) + 1] = h2
  BY DEF Path
<1>1. Len(w) \in Nat \ {0} /\ Len(Tail(w)) = Len(w) - 1 /\ \A i \in 1..Len(w) - 1 : Tail(w)[i] = w[i + 1]
  OBVIOUS
<1>8. PICK gg \in [Nat -> Nat] : \A i \in Nat : gg[i] = g[i + 1]
  BY Shifted
<1>9. PICK hh \in [Nat -> Nat] : \A i \in Nat : hh[i] = h[i + 1]
  BY Shifted
<1>2. \A i \in Nat : gg[i] = g[i + 1] /\ hh[i] = h[i + 1]
  BY <1>8, <1>9
<1>3. \A i \in 1..Len(Tail(w)) + 1 : Stands(l, gg[i], hh[i])
  <2> TAKE i \in 1..Len(Tail(w)) + 1
  <2>1. i \in Nat /\ i + 1 \in 1..Len(w) + 1
    BY <1>1
  <2> QED BY <1>0, <1>2, <2>1 DEF Reading
<1>4. \A i \in 1..Len(Tail(w)) : Moves(Tail(w)[i], l, gg[i], hh[i], gg[i + 1], hh[i + 1])
  <2> TAKE i \in 1..Len(Tail(w))
  <2>1. i \in Nat /\ i + 1 \in 1..Len(w) /\ i + 1 \in Nat /\ Tail(w)[i] = w[i + 1]
    BY <1>1
  <2>2. Moves(w[i + 1], l, g[i + 1], h[i + 1], g[(i + 1) + 1], h[(i + 1) + 1])
    BY <1>0, <2>1 DEF Reading
  <2> QED BY <1>2, <2>1, <2>2
<1>5. Reading(gg, hh, Tail(w), l)
  BY <1>3, <1>4 DEF Reading
<1>6. gg[Len(Tail(w)) + 1] = g2 /\ hh[Len(Tail(w)) + 1] = h2
  <2>1. Len(Tail(w)) + 1 = Len(w) /\ Len(w) \in Nat
    BY TailEnds
  <2>2. gg[Len(w)] = g[Len(w) + 1] /\ hh[Len(w)] = h[Len(w) + 1]
    BY <1>2, <2>1
  <2> QED BY <1>0, <2>1, <2>2
<1>7. Path(Tail(w), l, gg[1], hh[1], g2, h2)
  BY <1>5, <1>6 DEF Path
<1>10. Moves(w[1], l, g1, h1, g[2], h[2]) /\ Head(w) = w[1]
  <2>1. 1 \in 1..Len(w) /\ 1 + 1 = 2 /\ Head(w) = w[1]
    BY <1>1
  <2> QED BY <1>0, <2>1 DEF Reading
<1>11. gg[1] = g[2] /\ hh[1] = h[2] /\ g[2] \in Nat /\ h[2] \in Nat
  BY <1>2
<1> QED BY <1>7, <1>10, <1>11

\* A longer history does not change where the reader stands.
LEMMA PathKeeps ==
  ASSUME NEW w \in Seq(Frame), NEW l \in Seq([Parts -> Nat]), NEW x \in [Parts -> Nat],
         NEW g1, NEW h1, NEW g2, NEW h2, Path(w, l, g1, h1, g2, h2)
  PROVE  Path(w, Append(l, x), g1, h1, g2, h2)
<1>0. PICK g, h \in [Nat -> Nat] :
        /\ Reading(g, h, w, l)
        /\ g[1] = g1 /\ h[1] = h1 /\ g[Len(w) + 1] = g2 /\ h[Len(w) + 1] = h2
  BY DEF Path
<1> DEFINE m == Append(l, x)
<1>1. Len(m) = Len(l) + 1 /\ Len(l) \in Nat /\ \A i \in 1..Len(l) : m[i] = l[i]
  BY AppendProperties
<1> HIDE DEF m
<1>2. \A i \in 1..Len(w) + 1 : Stands(m, g[i], h[i]) /\ m[g[i]] = l[g[i]]
  <2> TAKE i \in 1..Len(w) + 1
  <2>1. g[i] \in 1..Len(l) /\ h[i] \in 0..Chunks
    BY <1>0 DEF Reading, Stands
  <2>2. \A k \in 1..Len(l) : k \in 1..Len(m) /\ m[k] = l[k]
    BY <1>1
  <2> QED BY <2>1, <2>2 DEF Stands
<1>3. \A i \in 1..Len(w) : Moves(w[i], m, g[i], h[i], g[i + 1], h[i + 1])
  <2> TAKE i \in 1..Len(w)
  <2>1. i \in 1..Len(w) + 1 /\ i + 1 \in 1..Len(w) + 1
    OBVIOUS
  <2>2. m[g[i]] = l[g[i]] /\ m[g[i + 1]] = l[g[i + 1]]
    BY <1>2, <2>1
  <2>3. Moves(w[i], l, g[i], h[i], g[i + 1], h[i + 1])
    BY <1>0 DEF Reading
  <2> QED BY <2>2, <2>3 DEF Moves
<1>4. Reading(g, h, w, m)
  BY <1>2, <1>3 DEF Reading
<1> QED BY <1>0, <1>4 DEF Path, m

LEMMA PastKeeps ==
  ASSUME NEW l \in Seq([Parts -> Nat]), NEW x \in [Parts -> Nat], NEW v, NEW m \in 0..Len(l), Past(v, l, m)
  PROVE  Past(v, Append(l, x), m) /\ Past(v, Append(l, x), Len(l) + 1)
<1>1. Len(l) \in Nat /\ \A i \in 1..Len(l) : Append(l, x)[i] = l[i]
  BY AppendProperties
<1>2. CASE v = <<>>
  BY <1>2 DEF Past
<1>3. CASE v # <<>>
  <2>1. PICK k \in 1..m : v = l[k]
    BY <1>3 DEF Past
  <2>2. k \in 1..Len(l) /\ k \in 1..Len(l) + 1
    BY <1>1
  <2>3. v = Append(l, x)[k]
    BY <1>1, <2>1, <2>2
  <2> QED BY <2>2, <2>3 DEF Past
<1> QED BY <1>2, <1>3

\* Whatever is on its way, the consumer has nothing, or a state the vault has had.
LEMMA ViewIsPast == ASSUME SubscribeTypes, ViewInv PROVE Past(view, log, Len(log))
<1>1. CASE session # 0
  <2>1. PICK g1, h1, g2, h2 \in Nat : Followed(g1, h1, g2, h2)
    BY <1>1 DEF ViewInv
  <2>2. Stands(log, g1, h1) /\ Past(view, log, g1)
    BY <2>1, PathEnds DEF Followed, Collected, SubscribeTypes, TypeOK
  <2>3. 1..g1 \subseteq 1..Len(log)
    BY <2>2, VaultIsAState DEF Stands
  <2> QED BY <2>2, <2>3 DEF Past
<1> QED BY <1>1 DEF ViewInv

\* Without a session nothing is collected.
LEMMA EndedView ==
  ASSUME SubscribeTypes, ViewInv, session' = 0, socket'.acc = <<>>, UNCHANGED <<log, view>>
  PROVE  ViewInv'
BY ViewIsPast DEF ViewInv

\* Steps that touch neither the vault, nor the wire, nor what was collected.
LEMMA QuietView ==
  ASSUME ViewInv, UNCHANGED <<log, view, wire, wedged>>, socket'.acc = socket.acc,
         session' = 0 <=> session = 0
  PROVE  ViewInv'
<1>1. CASE session = 0
  BY <1>1 DEF ViewInv
<1>2. CASE session # 0
  BY <1>2 DEF ViewInv, Followed
<1> QED BY <1>1, <1>2

\* A pong or a close on the wire.
LEMMA OneMoreView ==
  ASSUME SubscribeTypes, ViewInv, UNCHANGED <<log, view, session>>, wedged = FALSE, wedged' = FALSE,
         socket'.acc = socket.acc,
         NEW f \in Frame, wire' = Append(wire, f), f.type \in {"pong", "close"}
  PROVE  ViewInv'
<1>1. CASE session = 0
  BY <1>1 DEF ViewInv
<1>2. CASE session # 0
  <2>1. PICK g1, h1, g2, h2 \in Nat : Followed(g1, h1, g2, h2)
    BY <1>2 DEF ViewInv
  <2>2. wire \in Seq(Frame) /\ Path(wire, log, g1, h1, g2, h2)
    BY <2>1 DEF SubscribeTypes, TypeOK, Followed
  <2>3. Stands(log, g2, h2) /\ Moves(f, log, g2, h2, g2, h2)
    BY <2>2, PathEnds DEF Moves
  <2>4. Path(wire', log, g1, h1, g2, h2)
    BY <2>2, <2>3, PathExtends
  <2>5. Followed(g1, h1, g2, h2)'
    BY <2>1, <2>4 DEF Followed
  <2> QED BY <1>2, <2>5 DEF ViewInv
<1> QED BY <1>1, <1>2

\* The vault changes: the next frame on an accepted socket takes the reader there.
LEMMA CommitView ==
  ASSUME SubscribeTypes, ViewInv, NEW p \in Parts, Commit(p)
  PROVE  ViewInv'
<1> DEFINE x == [Vault EXCEPT ![p] = Len(log)]
           f == [type |-> "change", part |-> p, at |-> Len(log)]
<1>1. /\ UNCHANGED <<socket, session, wedged, view>>
      /\ log' = Append(log, x)
      /\ wire' = IF session # 0 /\ ~wedged THEN Append(wire, f) ELSE wire
  BY DEF Commit, Announce, userVars
<1>2. /\ x \in [Parts -> Nat] /\ log \in Seq([Parts -> Nat]) /\ wire \in Seq(Frame) /\ f \in Frame
      /\ f.type = "change" /\ f.part = p /\ f.at = Len(log) /\ wedged \in BOOLEAN
  <2>1. x \in [Parts -> Nat] /\ f \in Frame
    BY VaultIsAState, FramesFit
  <2> HIDE DEF x
  <2> QED BY <2>1 DEF SubscribeTypes, TypeOK
<1>3. x = [log[Len(log)] EXCEPT ![f.part] = f.at]
  BY <1>2 DEF Vault
<1> HIDE DEF x, f
<1>4. /\ Len(log') = Len(log) + 1 /\ Len(log) \in Nat \ {0} /\ log'[Len(log) + 1] = x
      /\ \A i \in 1..Len(log) : log'[i] = log[i]
  BY <1>1, <1>2, AppendProperties, VaultIsAState
<1>5. CASE session = 0
  <2>1. Past(view, log, Len(log)) /\ Len(log) \in 0..Len(log) /\ socket.acc = <<>>
    BY <1>4, <1>5 DEF ViewInv
  <2>2. Past(view, log', Len(log) + 1)
    BY <1>1, <1>2, <2>1, PastKeeps
  <2> QED BY <1>1, <1>4, <1>5, <2>1, <2>2 DEF ViewInv
<1>6. CASE session # 0
  <2>1. PICK g1, h1, g2, h2 \in Nat : Followed(g1, h1, g2, h2)
    BY <1>6 DEF ViewInv
  <2>2. /\ Path(wire, log, g1, h1, g2, h2) /\ Collected(socket.acc, view, log, g1, h1)
        /\ ~wedged => g2 = Len(log) /\ h2 = Chunks
    BY <2>1 DEF Followed
  <2>3. Path(wire, log', g1, h1, g2, h2)
    BY <1>1, <1>2, <2>2, PathKeeps
  <2>4. Stands(log, g1, h1)
    BY <1>2, <2>2, PathEnds
  <2>5. g1 \in 1..Len(log) /\ g1 \in 0..Len(log)
    BY <1>4, <2>4 DEF Stands
  <2>6. Past(view, log', g1) /\ log'[g1] = log[g1]
    BY <1>1, <1>2, <1>4, <2>2, <2>5, PastKeeps DEF Collected
  <2>7. Collected(socket.acc, view, log', g1, h1)
    BY <2>2, <2>6 DEF Collected
  <2>8. CASE wedged
    <3>1. Followed(g1, h1, g2, h2)'
      BY <1>1, <1>2, <2>3, <2>7, <2>8 DEF Followed
    <3> QED BY <1>1, <1>6, <3>1 DEF ViewInv
  <2>9. CASE ~wedged
    <3>1. g2 = Len(log) /\ h2 = Chunks /\ wire' = Append(wire, f)
      BY <1>1, <1>6, <2>2, <2>9
    <3>0. PICK g3 \in Nat : g3 = Len(log) + 1
      BY <1>4
    <3>2. Stands(log', g3, Chunks) /\ Chunks \in Nat
      BY <1>4, <3>0, ConstantsAssumption DEF Stands
    <3>3. Moves(f, log', g2, h2, g3, Chunks)
      <4>1. Len(log) \in 1..Len(log)
        BY <1>4
      <4>2. log'[Len(log)] = log[Len(log)]
        BY <1>4, <4>1
      <4>3. log'[Len(log) + 1] = [log'[Len(log)] EXCEPT ![f.part] = f.at]
        BY <1>3, <1>4, <4>2
      <4> QED BY <1>2, <3>0, <3>1, <4>3 DEF Moves
    <3>6. Path(Append(wire, f), log', g1, h1, g3, Chunks)
      BY <1>2, <2>3, <3>2, <3>3, PathExtends
    <3>4. Path(wire', log', g1, h1, g3, Chunks)
      BY <3>1, <3>6
    <3>5. Followed(g1, h1, g3, Chunks)'
      BY <1>1, <1>4, <2>7, <3>0, <3>4 DEF Followed
    <3> QED BY <1>1, <1>6, <3>2, <3>5 DEF ViewInv
  <2> QED BY <2>8, <2>9
<1> QED BY <1>5, <1>6

\* The next frame: the reader moves by it, and so does the consumer.
Forward ==
  view' # view => \E j \in 1..Len(log') :
    log'[j] = view' /\ (view # <<>> => \E i \in 1..j : log'[i] = view)

LEMMA ArrivesView == ASSUME SubscribeTypes, LoopInv, ViewInv, Arrives PROVE ViewInv' /\ Forward
<1> DEFINE f == Head(wire)
<1>1. /\ wire # <<>> /\ wire' = Tail(wire) /\ UNCHANGED <<log, session, wedged>>
      /\ Pong(f) \/ Chunk(f) \/ Change(f)
  BY DEF Arrives, vaultVars
<1>2. /\ wire \in Seq(Frame) /\ f \in Frame /\ f = wire[1] /\ 1 \in 1..Len(wire)
      /\ socket \in SocketType /\ view \in Seq(Nat) /\ socket.acc \in Seq(Nat)
  BY <1>1 DEF SubscribeTypes, TypeOK, SocketType
<1>3. f.type \in {"snapshot", "change"} => session # 0
  BY <1>2 DEF LoopInv, FirstFramesCome
<1> HIDE DEF f
<1>4. CASE session = 0
  <2>1. Pong(f)
    BY <1>1, <1>3, <1>4 DEF Chunk, Change
  <2>2. socket'.acc = socket.acc /\ view' = view
    BY <1>2, <2>1 DEF Pong, SocketType
  <2> QED BY <1>1, <1>4, <2>2 DEF ViewInv, Forward
<1>5. CASE session # 0
  <2>1. PICK g1, h1, g2, h2 \in Nat : Followed(g1, h1, g2, h2)
    BY <1>5 DEF ViewInv
  <2>2. /\ Path(wire, log, g1, h1, g2, h2) /\ Collected(socket.acc, view, log, g1, h1)
        /\ ~wedged => g2 = Len(log) /\ h2 = Chunks
    BY <2>1 DEF Followed
  <2>3. PICK g3, h3 \in Nat : Moves(f, log, g1, h1, g3, h3) /\ Path(Tail(wire), log, g3, h3, g2, h2)
    BY <1>1, <1>2, <2>2, PathGoesOn DEF f
  <2>4. Tail(wire) \in Seq(Frame)
    BY <1>1, <1>2
  <2>5. Stands(log, g1, h1) /\ Stands(log, g3, h3)
    BY <1>2, <2>2, <2>3, <2>4, PathEnds
  <2>6. /\ g1 \in 1..Len(log) /\ g3 \in 1..Len(log) /\ h1 \in 0..Chunks /\ h3 \in 0..Chunks
        /\ Chunks \in Nat \ {0} /\ Len(log) \in Nat
        /\ log[g1] \in [1..Chunks -> Nat] /\ log[g3] \in [1..Chunks -> Nat]
    <3>1. /\ g1 \in 1..Len(log) /\ g3 \in 1..Len(log) /\ h1 \in 0..Chunks /\ h3 \in 0..Chunks
          /\ Chunks \in Nat \ {0} /\ Len(log) \in Nat
      BY <2>5, ConstantsAssumption, VaultIsAState DEF Stands
    <3>2. log \in Seq([1..Chunks -> Nat])
      BY DEF SubscribeTypes, TypeOK, Parts
    <3> QED BY <3>1, <3>2
  <2>7. Past(view, log, g1)
    BY <2>2 DEF Collected
  <2>8. ASSUME Collected(socket'.acc, view', log, g3, h3) PROVE ViewInv'
    <3>1. Followed(g3, h3, g2, h2)'
      BY <1>1, <2>2, <2>3, <2>8 DEF Followed
    <3> QED BY <1>1, <1>5, <3>1 DEF ViewInv
  <2>9. ASSUME NEW j \in 1..Len(log), g1 <= j, view' = log[j], view # <<>> => \E i \in 1..j : log[i] = view
        PROVE  Forward
    BY <1>1, <2>9 DEF Forward
  <2>10. CASE Pong(f)
    <3>1. socket'.acc = socket.acc /\ view' = view /\ g3 = g1 /\ h3 = h1
      BY <1>2, <2>3, <2>10 DEF Pong, SocketType, Moves
    <3> QED BY <2>2, <2>8, <3>1 DEF Forward
  <2>11. CASE Change(f)
    <3>1. /\ socket'.acc = socket.acc /\ view' = [view EXCEPT ![f.part] = f.at]
          /\ f.type = "change"
      BY <1>2, <2>11 DEF Change, SocketType
    <3>2. /\ h1 = Chunks /\ h3 = Chunks /\ g3 = g1 + 1
          /\ log[g3] = [log[g1] EXCEPT ![f.part] = f.at]
      BY <2>3, <3>1 DEF Moves
    <3>3. view = log[g1] /\ socket.acc = <<>>
      BY <2>2, <3>2 DEF Collected
    <3>4. view' = log[g3]
      BY <3>1, <3>2, <3>3
    <3>5. g3 \in 1..g3 /\ g1 \in 1..g3 /\ g1 <= g3
      BY <2>6, <3>2
    <3>6. Collected(socket'.acc, view', log, g3, h3)
      BY <2>6, <3>1, <3>2, <3>3, <3>4, <3>5 DEF Collected, Past
    <3> QED BY <2>6, <2>8, <2>9, <3>3, <3>4, <3>5, <3>6
  <2>12. CASE Chunk(f)
    <3> DEFINE acc == Append(socket.acc, f.at)
    <3>1. /\ f.type = "snapshot" /\ view' = (IF f.done THEN acc ELSE view)
          /\ socket'.acc = (IF f.done THEN <<>> ELSE acc)
      BY <1>2, <2>12 DEF Chunk, SocketType
    <3>2. /\ h1 < Chunks /\ h3 = h1 + 1 /\ g3 = g1
          /\ f.at = log[g1][h1 + 1]
          /\ f.done <=> h3 = Chunks
      BY <2>3, <3>1 DEF Moves
    <3>3. Len(socket.acc) = h1 /\ \A i \in 1..h1 : socket.acc[i] = log[g1][i]
      BY <2>2, <3>2 DEF Collected
    <3>4. f.at \in Nat
      BY <1>2, <3>1, FrameKinds
    <3>5. /\ acc \in Seq(Nat) /\ Len(acc) = h3 /\ acc[h1 + 1] = f.at
          /\ \A i \in 1..h1 : acc[i] = socket.acc[i]
      <4>1. /\ acc \in Seq(Nat) /\ Len(acc) = Len(socket.acc) + 1 /\ acc[Len(socket.acc) + 1] = f.at
            /\ \A i \in 1..Len(socket.acc) : acc[i] = socket.acc[i]
        BY <1>2, <3>4, AppendProperties
      <4> QED BY <3>2, <3>3, <4>1
    <3> HIDE DEF acc
    <3>6. \A i \in 1..h3 : acc[i] = log[g1][i]
      <4> TAKE i \in 1..h3
      <4>1. i \in 1..h1 \/ i = h1 + 1
        BY <3>2
      <4> QED BY <3>2, <3>3, <3>5, <4>1
    <3>7. CASE f.done
      <4>1. h3 = Chunks /\ view' = acc /\ socket'.acc = <<>>
        BY <3>1, <3>2, <3>7
      <4>2. acc \in [1..Chunks -> Nat]
        BY <3>5, <4>1
      <4>3. acc = log[g1]
        BY <2>6, <3>6, <4>1, <4>2
      <4>4. g1 \in 1..g1 /\ g1 <= g1
        BY <2>6
      <4>5. Collected(socket'.acc, view', log, g3, h3)
        BY <2>6, <3>2, <4>1, <4>3, <4>4 DEF Collected, Past
      <4>6. view # <<>> => \E i \in 1..g1 : log[i] = view
        BY <2>7 DEF Past
      <4> QED BY <2>6, <2>8, <2>9, <4>1, <4>3, <4>4, <4>5, <4>6
    <3>8. CASE ~f.done
      <4>1. h3 # Chunks /\ view' = view /\ socket'.acc = acc
        BY <3>1, <3>2, <3>8
      <4>2. Collected(socket'.acc, view', log, g3, h3)
        BY <2>7, <3>2, <3>5, <3>6, <4>1 DEF Collected
      <4> QED BY <2>8, <4>1, <4>2 DEF Forward
    <3> QED BY <3>7, <3>8
  <2> QED BY <1>1, <2>10, <2>11, <2>12
<1> QED BY <1>4, <1>5

LEMMA JoinedFrames ==
  ASSUME NEW w \in Seq(Frame), NEW more \in Seq(Frame)
  PROVE  /\ Len(w \o more) = Len(w) + Len(more)
         /\ \A i \in 1..Len(w) : (w \o more)[i] = w[i]
         /\ \A p \in 1..Len(more) : (w \o more)[Len(w) + p] = more[p]
OBVIOUS

\* The vault answers the first token it accepts with what it has.
LEMMA SnapshotView ==
  ASSUME SubscribeTypes, LoopInv, ViewInv, session = 0, session' # 0, wedged = FALSE, wedged' = FALSE,
         UNCHANGED <<log, view, socket>>, wire' = wire \o SnapshotFrames
  PROVE  ViewInv'
<1> DEFINE n == Len(wire)
           g == [i \in Nat |-> Len(log)]
           h == [i \in Nat |-> IF i <= n + 1 THEN 0 ELSE IF i <= n + 1 + Chunks THEN i - (n + 1) ELSE 0]
<1>1. /\ wire \in Seq(Frame) /\ n \in Nat /\ Chunks \in Nat \ {0} /\ Len(log) \in Nat \ {0}
      /\ \A i \in 1..n : wire[i].type \in {"pong", "close"}
  <2>1. wire \in Seq(Frame) /\ n \in Nat /\ Chunks \in Nat \ {0} /\ Len(log) \in Nat \ {0}
    BY ConstantsAssumption, VaultIsAState DEF SubscribeTypes, TypeOK
  <2>2. \A i \in 1..n : wire[i] \in Frame
    BY <2>1
  <2> QED BY <2>1, <2>2, FrameKinds DEF LoopInv, FirstFramesCome
<1>2. /\ Len(wire') = n + Chunks
      /\ \A i \in 1..n : wire'[i] = wire[i]
      /\ \A p \in 1..Chunks : wire'[n + p] = SnapshotFrames[p]
  <2>1. SnapshotFrames \in Seq(Frame) /\ Len(SnapshotFrames) = Chunks
    BY SnapshotFits
  <2> QED BY <1>1, <2>1, JoinedFrames
<1>3. \A p \in 1..Chunks : /\ SnapshotFrames[p].type = "snapshot"
                           /\ SnapshotFrames[p].at = log[Len(log)][p]
                           /\ SnapshotFrames[p].done <=> p = Chunks
  BY SnapshotFits DEF Parts, Vault
<1>4. g \in [Nat -> Nat] /\ h \in [Nat -> Nat] /\ \A i \in Nat : g[i] = Len(log)
  BY <1>1
<1>5. /\ \A i \in 1..n + 1 : h[i] = 0
      /\ \A p \in 0..Chunks : h[n + 1 + p] = p
  BY <1>1
<1> HIDE DEF g, h
<1>6. \A i \in 1..Len(wire') + 1 : Stands(log, g[i], h[i])
  <2> TAKE i \in 1..Len(wire') + 1
  <2>1. i \in 1..n + 1 \/ \E p \in 0..Chunks : i = n + 1 + p
    <3>1. CASE i > n + 1
      <4>1. i - (n + 1) \in 0..Chunks /\ i = n + 1 + (i - (n + 1))
        BY <1>1, <1>2, <3>1
      <4> QED BY <4>1
    <3> QED BY <1>1, <1>2, <3>1
  <2>2. h[i] \in 0..Chunks
    BY <1>1, <1>5, <2>1
  <2>3. i \in Nat /\ Len(log) \in 1..Len(log)
    BY <1>1, <1>2
  <2>4. g[i] \in 1..Len(log)
    BY <1>4, <2>3
  <2> QED BY <2>2, <2>4 DEF Stands
<1>7. \A i \in 1..Len(wire') : Moves(wire'[i], log, g[i], h[i], g[i + 1], h[i + 1])
  <2> TAKE i \in 1..Len(wire')
  <2>1. i \in Nat /\ i + 1 \in Nat
    BY <1>1, <1>2
  <2>2. g[i] = Len(log) /\ g[i + 1] = Len(log)
    BY <1>4, <2>1
  <2>3. CASE i \in 1..n
    <3>1. i \in 1..n + 1 /\ i + 1 \in 1..n + 1
      BY <1>1, <2>3
    <3>2. h[i] = 0 /\ h[i + 1] = 0 /\ wire'[i].type \in {"pong", "close"}
      BY <1>1, <1>2, <1>5, <2>3, <3>1
    <3> QED BY <2>2, <3>2 DEF Moves
  <2>4. CASE i > n
    <3>1. PICK p \in 1..Chunks : i = n + p
      <4>1. i - n \in 1..Chunks /\ i = n + (i - n)
        BY <1>1, <1>2, <2>4
      <4> QED BY <4>1
    <3>2. /\ wire'[i].type = "snapshot" /\ wire'[i].at = log[Len(log)][p]
          /\ wire'[i].done <=> p = Chunks
      BY <1>2, <1>3, <3>1
    <3>3. h[i] = p - 1 /\ h[i + 1] = p
      <4>1. p - 1 \in 0..Chunks /\ p \in 0..Chunks /\ i = n + 1 + (p - 1) /\ i + 1 = n + 1 + p
        BY <1>1, <3>1
      <4> QED BY <1>5, <4>1
    <3>4. p - 1 < Chunks /\ (p - 1) + 1 = p
      BY <1>1, <3>1
    <3> QED BY <2>2, <3>2, <3>3, <3>4 DEF Moves
  <2> QED BY <1>1, <1>2, <2>3, <2>4
<1>8. g[1] = Len(log) /\ h[1] = 0 /\ g[Len(wire') + 1] = Len(log) /\ h[Len(wire') + 1] = Chunks
  <2>1. 1 \in 1..n + 1 /\ Len(wire') + 1 = n + 1 + Chunks /\ Chunks \in 0..Chunks /\ n + 1 + Chunks \in Nat
    BY <1>1, <1>2
  <2> QED BY <1>4, <1>5, <2>1
<1>9. Path(wire', log, Len(log), 0, Len(log), Chunks)
  BY <1>4, <1>6, <1>7, <1>8 DEF Path, Reading
<1>10. Collected(socket.acc, view, log, Len(log), 0)
  BY <1>1 DEF ViewInv, Collected
<1>11. Followed(Len(log), 0, Len(log), Chunks)'
  BY <1>9, <1>10 DEF Followed
<1> QED BY <1>1, <1>11 DEF ViewInv

LEMMA JudgeView == ASSUME SubscribeTypes, LoopInv, ViewInv, Judge PROVE ViewInv'
<1> DEFINE f == [type |-> "close", code |-> 4401]
<1>1. /\ UNCHANGED <<log, socket, view>> /\ asked # <<>> /\ wedged = FALSE /\ wedged' = FALSE
      /\ \/ wire' = Append(wire, f) /\ UNCHANGED session
         \/ session' = Head(asked) /\ wire' = wire \o (IF session = 0 THEN SnapshotFrames ELSE <<>>)
  BY DEF Judge, vaultVars, userVars, SnapshotFrames, SubscribeTypes, TypeOK
<1>2. f \in Frame /\ f.type = "close"
  BY FramesFit
<1> HIDE DEF f
<1>3. CASE wire' = Append(wire, f) /\ UNCHANGED session
  BY <1>1, <1>2, <1>3, OneMoreView
<1>4. CASE session' = Head(asked) /\ wire' = wire \o (IF session = 0 THEN SnapshotFrames ELSE <<>>)
  <2>1. session' # 0 /\ wire \in Seq(Frame)
    BY <1>1, <1>4 DEF SubscribeTypes, TypeOK
  <2>2. CASE session = 0
    BY <1>1, <1>4, <2>1, <2>2, SnapshotView
  <2>3. CASE session # 0
    <3>1. wire' = wire
      BY <1>4, <2>1, <2>3, ConcatEmptySeq
    <3> QED BY <1>1, <2>1, <2>3, <3>1, QuietView
  <2> QED BY <2>2, <2>3
<1> QED BY <1>1, <1>3, <1>4

\* A wedged socket: the reader stays where the client is.
LEMMA WedgeView == ASSUME SubscribeTypes, ViewInv, Wedge PROVE ViewInv'
<1>1. UNCHANGED <<log, socket, session, view>> /\ wedged' = TRUE /\ wire' = <<>>
  BY DEF Wedge, vaultVars, userVars
<1>2. CASE session = 0
  BY <1>1, <1>2 DEF ViewInv
<1>3. CASE session # 0
  <2>1. PICK g1, h1, g2, h2 \in Nat : Followed(g1, h1, g2, h2)
    BY <1>3 DEF ViewInv
  <2>2. Stands(log, g1, h1)
    BY <2>1, PathEnds DEF Followed, SubscribeTypes, TypeOK
  <2>3. Path(wire', log, g1, h1, g1, h1)
    BY <1>1, <2>2, PathStarts
  <2>4. Followed(g1, h1, g1, h1)'
    BY <1>1, <2>1, <2>3 DEF Followed
  <2> QED BY <1>1, <1>3, <2>4 DEF ViewInv
<1> QED BY <1>2, <1>3

LEMMA StepView == SubscribeTypes /\ LoopInv /\ ViewInv /\ [Next]_vars => ViewInv' /\ Forward
<1> SUFFICES ASSUME SubscribeTypes, LoopInv, ViewInv, [Next]_vars PROVE ViewInv' /\ Forward
  OBVIOUS
<1>1. wire \in Seq(Frame) /\ session \in Nat /\ wedged \in BOOLEAN /\ socket \in SocketType
      /\ (wedged => wire = <<>>)
  BY DEF SubscribeTypes, TypeOK
<1>2. CASE UNCHANGED vars
  <2>1. UNCHANGED <<log, view, wire, wedged, session, socket>>
    BY <1>2 DEF vars, vaultVars, netVars, userVars
  <2> QED BY <2>1, QuietView DEF Forward
<1>3. CASE TokenResolved
  <2>1. UNCHANGED <<log, view, wire, wedged, session>> /\ pc = "resolving"
        /\ (UNCHANGED socket \/ socket' = NewSocket(token))
    BY <1>3 DEF TokenResolved, vaultVars, userVars
  <2>2. session = 0 /\ socket'.acc = <<>>
    BY <2>1, NoSocketFits DEF SubscribeTypes, NewSocket, SocketType
  <2> QED BY <2>1, <2>2, EndedView DEF Forward
<1>4. CASE Wake \/ Refreshed \/ Rotate
  <2>1. UNCHANGED <<log, view, wire, wedged, session, socket>>
    BY <1>4 DEF Wake, Refreshed, Rotate, vaultVars, netVars, userVars
  <2> QED BY <2>1, QuietView DEF Forward
<1>5. CASE Unsubscribe
  <2>1. UNCHANGED <<log, view>>
    BY <1>5 DEF Unsubscribe, vaultVars
  <2>2. CASE pc = "connected"
    <3>1. session' = 0 /\ socket'.acc = <<>>
      BY <1>5, <2>2, NoSocketFits DEF Unsubscribe, Disconnect
    <3> QED BY <2>1, <3>1, EndedView DEF Forward
  <2>3. CASE pc # "connected"
    <3>1. UNCHANGED <<wire, wedged, session, socket>>
      BY <1>5, <2>3 DEF Unsubscribe, netVars
    <3> QED BY <2>1, <3>1, QuietView DEF Forward
  <2> QED BY <2>2, <2>3
<1>6. CASE Dropped \/ Breaks \/ PongTimeout
  <2>1. UNCHANGED <<log, view>> /\ \E code : Over(code)
    BY <1>6 DEF Dropped, Breaks, PongTimeout, vaultVars
  <2>2. session' = 0 /\ socket'.acc = <<>>
    BY <2>1, NoSocketFits DEF Over, Disconnect
  <2> QED BY <2>1, <2>2, EndedView DEF Forward
<1>7. CASE Opens \/ PingTick
  <2>1. UNCHANGED <<log, view, wire, wedged, session>>
        /\ (socket' = [socket EXCEPT !.state = "open"] \/ socket' = [socket EXCEPT !.ping = TRUE])
    BY <1>7 DEF Opens, PingTick, vaultVars, userVars
  <2>2. socket'.acc = socket.acc
    BY <1>1, <2>1 DEF SocketType
  <2> QED BY <2>1, <2>2, QuietView DEF Forward
<1>8. CASE Ping
  <2> DEFINE f == [type |-> "pong"]
  <2>1. /\ UNCHANGED <<log, view, wedged, session>>
        /\ \/ socket' = [socket EXCEPT !.ping = FALSE]
           \/ socket' = [socket EXCEPT !.ping = FALSE, !.pong = TRUE, !.sent = token]
           \/ socket' = [socket EXCEPT !.ping = FALSE, !.pong = TRUE]
        /\ wire' = wire \/ (wire' = Append(wire, f) /\ ~wedged)
    BY <1>8 DEF Ping, vaultVars, userVars
  <2>2. socket'.acc = socket.acc
    BY <1>1, <2>1 DEF SocketType
  <2>3. f \in Frame /\ f.type = "pong"
    BY FramesFit
  <2> HIDE DEF f
  <2>4. CASE wire' = wire
    BY <2>1, <2>2, <2>4, QuietView DEF Forward
  <2>5. CASE wire' = Append(wire, f) /\ ~wedged
    <3>1. wedged = FALSE /\ wedged' = FALSE
      BY <1>1, <2>1, <2>5
    <3> QED BY <2>1, <2>2, <2>3, <2>5, <3>1, OneMoreView DEF Forward
  <2> QED BY <2>1, <2>4, <2>5
<1>9. CASE Expire
  <2> DEFINE f == [type |-> "close", code |-> 4401]
  <2>1. /\ UNCHANGED <<log, view, wedged, session, socket>>
        /\ wire' = wire \/ (wire' = Append(wire, f) /\ ~wedged)
    BY <1>9 DEF Expire, userVars
  <2>3. f \in Frame /\ f.type = "close"
    BY FramesFit
  <2> HIDE DEF f
  <2>4. CASE wire' = wire
    BY <2>1, <2>4, QuietView DEF Forward
  <2>5. CASE wire' = Append(wire, f) /\ ~wedged
    <3>1. wedged = FALSE /\ wedged' = FALSE
      BY <1>1, <2>1, <2>5
    <3> QED BY <2>1, <2>3, <2>5, <3>1, OneMoreView DEF Forward
  <2> QED BY <2>1, <2>4, <2>5
<1>10. CASE Judge
  <2>1. UNCHANGED view
    BY <1>10 DEF Judge, userVars
  <2> QED BY <1>10, <2>1, JudgeView DEF Forward
<1>11. CASE Wedge
  <2>1. UNCHANGED view
    BY <1>11 DEF Wedge, userVars
  <2> QED BY <1>11, <2>1, WedgeView DEF Forward
<1>12. ASSUME NEW p \in Parts, Commit(p) PROVE ViewInv' /\ Forward
  <2>1. UNCHANGED view
    BY <1>12 DEF Commit, userVars
  <2> QED BY <1>12, <2>1, CommitView DEF Forward
<1>13. CASE Arrives
  BY <1>13, ArrivesView
<1> QED BY <1>2, <1>3, <1>4, <1>5, <1>6, <1>7, <1>8, <1>9, <1>10, <1>11, <1>12, <1>13 DEF Next

\* What the consumer is given is always a set the vault once had, as a whole: chunks of
\* two snapshots, and changes before their snapshot, are never mixed into it, and
\* reconnections never take it back to an older set than it has seen.
THEOREM ViewNeverGoesBack == Spec => ViewGoesForward
<1> DEFINE Inv == SubscribeTypes /\ LoopInv /\ ViewInv
<1>1. Init => Inv
  BY InitTypes, InitLoop, InitView
<1>2. Inv /\ [Next]_vars => Inv'
  BY StepTypes, StepLoop, StepView
<1>3. Spec => []Inv
  BY <1>1, <1>2, PTL DEF Spec
<1>4. Inv /\ [Next]_vars =>
        [view' # view => \E j \in 1..Len(log') :
           log'[j] = view' /\ (view # <<>> => \E i \in 1..j : log'[i] = view)]_vars
  BY StepView DEF Forward
<1> QED BY <1>3, <1>4, PTL DEF Spec, ViewGoesForward

=============================================================================
