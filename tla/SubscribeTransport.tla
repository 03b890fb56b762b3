-------------------------- MODULE SubscribeTransport --------------------------
(***************************************************************************)
(* The live-query subscription of packages/surface-client: the connection  *)
(* loop of startWsSubscription, its socket, its pings and its handlers,    *)
(* against a vault that answers the first message with one chunked         *)
(* snapshot and then announces changes.                                    *)
(*                                                                         *)
(* What the vault holds is a function from Parts to version numbers; the   *)
(* snapshot comes in one chunk per part.  A token is the number of its     *)
(* issue.  A pass of the loop from one await to the next is one action.    *)
(***************************************************************************)
EXTENDS Naturals, Sequences, FiniteSets

CONSTANTS
  Chunks,      \* the chunks of a snapshot
  MaxChanges,  \* bound: changes of the vault
  MaxFaults,   \* bound: failures of tokens, network, server and pongs
  MaxTokens,   \* bound: tokens issued
  MaxAttempt   \* the backoff exponent at which the delay reaches maxBackoffMs

ASSUME ConstantsAssumption ==
  /\ Chunks \in Nat \ {0}
  /\ MaxChanges \in Nat /\ MaxFaults \in Nat /\ MaxTokens \in Nat \ {0} /\ MaxAttempt \in Nat

VARIABLES
  \* the vault and its tokens
  log,        \* every state the vault has had, the last one current
  token,      \* the token resolveToken returns
  refused,    \* the vault no longer accepts tokens up to this one
  \* the loop
  pc,         \* what the loop awaits
  closed,
  attempt,    \* the backoff exponent
  refreshedThisStreak,
  \* the connection
  socket,     \* the client's end of the socket
  asked,      \* auth messages the vault has not judged yet
  session,    \* the token the vault has authenticated the socket with, or 0
  wire,       \* frames from the vault, in order
  wedged,     \* the socket is open and nothing passes any more
  \* the consumer
  status,
  view,       \* what the handlers made of the snapshots and changes
  error,      \* the last terminal error of onError
  \* history
  faults,
  tries       \* connections since the last sleep or the last frame

vaultVars == <<log, token, refused>>
loopVars == <<pc, closed, attempt, refreshedThisStreak>>
netVars == <<socket, asked, session, wire, wedged>>
userVars == <<status, view, error>>
history == <<faults, tries>>
vars == <<vaultVars, loopVars, netVars, userVars, history>>

Parts == 1..Chunks
Vault == log[Len(log)]

\* sent is sessionToken, got is gotMessage, acc is snapshotAcc; ping says that a tick
\* awaits its token, and pong that pongTimer runs.
NoSocket == [state |-> "none", sent |-> 0, got |-> FALSE, ping |-> FALSE, pong |-> FALSE,
             acc |-> <<>>]
NewSocket(tok) == [NoSocket EXCEPT !.state = "connecting", !.sent = tok]

Smaller(a, b) == IF a < b THEN a ELSE b

-----------------------------------------------------------------------------
(* The loop, from one await to the next.                                   *)

\* The top of the loop: announce the attempt and ask for a token.
Again(first) ==
  /\ pc' = "resolving"
  /\ status' = IF first THEN "connecting" ELSE "reconnecting"

\* close(): the only place that announces "closed".
Closes ==
  /\ closed' = TRUE
  /\ status' = "closed"

\* onError with a terminal error, then close().
GivesUp(e) == Closes /\ pc' = "done" /\ error' = e

\* settle: the connection is over, for the loop and for the socket's timers.
Disconnect ==
  /\ socket' = NoSocket /\ asked' = <<>> /\ session' = 0 /\ wire' = <<>> /\ wedged' = FALSE

\* The delay before the next attempt, min(initialBackoffMs * 2^exponent, maxBackoffMs).
Sleep(exponent) ==
  /\ pc' = "sleeping"
  /\ attempt' = Smaller(exponent + 1, MaxAttempt)

Fault == /\ faults < MaxFaults /\ faults' = faults + 1

\* resolveToken() returned, or threw.
TokenResolved ==
  /\ pc = "resolving"
  /\ \/ /\ pc' = "connected" /\ socket' = NewSocket(token)
        /\ tries' = Smaller(tries + 1, 3)
        /\ UNCHANGED <<attempt, faults>>
     \/ /\ Fault
        /\ IF closed THEN pc' = "done" /\ UNCHANGED attempt ELSE Sleep(attempt)
        /\ UNCHANGED <<socket, tries>>
  /\ UNCHANGED <<vaultVars, closed, refreshedThisStreak, asked, session, wire, wedged, userVars>>

\* The delay is over.
Wake ==
  /\ pc = "sleeping"
  /\ IF closed THEN pc' = "done" /\ UNCHANGED status ELSE Again(FALSE)
  /\ tries' = 0
  /\ UNCHANGED <<vaultVars, closed, attempt, refreshedThisStreak, netVars, view, error, faults>>

\* Mutant: a refused token is refreshed as often as it takes.
OverAlways(code) ==
  /\ Disconnect
  /\ CASE closed ->
            pc' = "done" /\ UNCHANGED <<closed, attempt, refreshedThisStreak, status, error>>
       [] ~closed /\ code = 4401 ->
            pc' = "refreshing" /\ UNCHANGED <<closed, attempt, refreshedThisStreak, status, error>>
       [] ~closed /\ code \in {4400, 4403} ->
            GivesUp("refused") /\ UNCHANGED <<attempt, refreshedThisStreak>>
       [] OTHER -> /\ Sleep(IF socket.got THEN 0 ELSE attempt)
                   /\ refreshedThisStreak' = FALSE /\ UNCHANGED <<closed, status, error>>

\* The connection ended with a close code, or with none (0).
Over(code) ==
  /\ Disconnect
  /\ CASE closed ->
            pc' = "done" /\ UNCHANGED <<closed, attempt, refreshedThisStreak, status, error>>
       [] ~closed /\ code \in {4400, 4403} ->
            GivesUp("refused") /\ UNCHANGED <<attempt, refreshedThisStreak>>
       [] ~closed /\ code = 4401 /\ ~refreshedThisStreak ->
            pc' = "refreshing" /\ UNCHANGED <<closed, attempt, refreshedThisStreak, status, error>>
       [] ~closed /\ code = 4401 /\ refreshedThisStreak ->
            GivesUp("auth") /\ UNCHANGED <<attempt, refreshedThisStreak>>
       [] OTHER -> /\ Sleep(IF socket.got THEN 0 ELSE attempt)
                   /\ refreshedThisStreak' = FALSE /\ UNCHANGED <<closed, status, error>>

\* refreshToken() returned a fresh token, or none: the end of the subscription, which
\* is reported even if it was closed meanwhile.
Refreshed ==
  /\ pc = "refreshing"
  /\ \/ /\ ~closed /\ token < MaxTokens /\ token' = token + 1
        /\ refreshedThisStreak' = TRUE /\ Again(FALSE)
        /\ UNCHANGED <<closed, error>>
     \/ GivesUp("auth") /\ UNCHANGED <<token, refreshedThisStreak>>
     \/ /\ closed /\ token < MaxTokens /\ token' = token + 1
        /\ GivesUp("auth") /\ UNCHANGED refreshedThisStreak
  /\ UNCHANGED <<log, refused, attempt, netVars, view, history>>

\* The consumer unsubscribes, or its signal aborts: the socket at hand is closed, and
\* the loop goes on to its next look at closed.
Unsubscribe ==
  /\ ~closed /\ Closes
  /\ IF pc = "connected" THEN Disconnect /\ pc' = "done" ELSE UNCHANGED <<pc, netVars>>
  /\ UNCHANGED <<vaultVars, attempt, refreshedThisStreak, view, error, history>>

-----------------------------------------------------------------------------
(* The socket.                                                             *)

Send(tok) == asked' = IF wedged THEN asked ELSE Append(asked, tok)

\* onopen: the auth message is the first one.
Opens ==
  /\ socket.state = "connecting"
  /\ socket' = [socket EXCEPT !.state = "open"]
  /\ Send(socket.sent)
  /\ UNCHANGED <<vaultVars, loopVars, session, wire, wedged, userVars, history>>

\* The first frame that is not a pong says that the vault accepted the token.
FirstFrame ==
  /\ status' = IF socket.got THEN status ELSE "open"
  /\ tries' = 0

\* Mutant: a pong counts as the first frame.
ArrivesPong(f) ==
  /\ f.type = "pong"
  /\ socket' = [socket EXCEPT !.pong = FALSE, !.got = TRUE]
  /\ FirstFrame
  /\ UNCHANGED view

\* A liveness acknowledgement.
Pong(f) ==
  /\ f.type = "pong"
  /\ socket' = [socket EXCEPT !.pong = FALSE]
  /\ UNCHANGED <<status, view, tries>>

\* Mutant: every chunk is a snapshot.
EveryChunk(f) ==
  /\ f.type = "snapshot"
  /\ socket' = [socket EXCEPT !.pong = FALSE, !.got = TRUE, !.acc = Append(@, f.at)]
  /\ view' = Append(socket.acc, f.at)
  /\ FirstFrame

\* A chunk of the snapshot; the last one hands the whole to the consumer.
Chunk(f) ==
  LET acc == Append(socket.acc, f.at)
  IN /\ f.type = "snapshot"
     /\ socket' = [socket EXCEPT !.pong = FALSE, !.got = TRUE, !.acc = IF f.done THEN <<>> ELSE acc]
     /\ view' = IF f.done THEN acc ELSE view
     /\ FirstFrame

\* An upsert or a removal.
Change(f) ==
  /\ f.type = "change"
  /\ socket' = [socket EXCEPT !.pong = FALSE, !.got = TRUE]
  /\ view' = [view EXCEPT ![f.part] = f.at]
  /\ FirstFrame

\* The next frame arrives.
Arrives ==
  /\ socket.state = "open" /\ wire # <<>> /\ Head(wire).type # "close"
  /\ wire' = Tail(wire)
  /\ Pong(Head(wire)) \/ Chunk(Head(wire)) \/ Change(Head(wire))
  /\ UNCHANGED <<vaultVars, loopVars, asked, session, wedged, error, faults>>

\* onclose: the vault closed the socket.
Dropped ==
  /\ wire # <<>> /\ Head(wire).type = "close"
  /\ Over(Head(wire).code)
  /\ UNCHANGED <<vaultVars, view, history>>

\* onclose: the network or the vault gave up on the socket.
Breaks ==
  /\ socket.state # "none" /\ Fault
  /\ \E code \in {0, 4400, 4403} : (code # 0 => socket.state = "open") /\ Over(code)
  /\ UNCHANGED <<vaultVars, view, tries>>

\* The socket stays open, and nothing passes any more.
Wedge ==
  /\ socket.state = "open" /\ ~wedged /\ Fault
  /\ wedged' = TRUE /\ wire' = <<>>
  /\ UNCHANGED <<vaultVars, loopVars, socket, asked, session, userVars, tries>>

-----------------------------------------------------------------------------
(* Pings.                                                                  *)

\* onPingTick, up to its await.  With the defaults the pong's deadline, or the pong,
\* comes before the next tick.
PingTick ==
  /\ ~closed /\ socket.state = "open" /\ ~socket.ping /\ ~socket.pong
  /\ socket' = [socket EXCEPT !.ping = TRUE]
  /\ UNCHANGED <<vaultVars, loopVars, asked, session, wire, wedged, userVars, history>>

\* Mutant: the token is not sent again when it was rotated.
PingOnly ==
  /\ socket.ping
  /\ socket' = [socket EXCEPT !.ping = FALSE, !.pong = ~closed]
  /\ wire' = IF closed \/ wedged THEN wire ELSE Append(wire, [type |-> "pong"])
  /\ UNCHANGED <<vaultVars, loopVars, asked, session, wedged, userVars, history>>

\* The rest of onPingTick: a rotated token goes out before the ping, which the vault
\* answers without a look at the session.  A token that cannot be had is let be.
Ping ==
  /\ socket.ping
  /\ IF closed
       THEN socket' = [socket EXCEPT !.ping = FALSE] /\ UNCHANGED <<asked, wire, faults>>
       ELSE /\ \/ /\ socket' = [socket EXCEPT !.ping = FALSE, !.pong = TRUE, !.sent = token]
                  /\ IF token # socket.sent THEN Send(token) ELSE UNCHANGED asked
                  /\ UNCHANGED faults
               \/ /\ Fault /\ UNCHANGED asked
                  /\ socket' = [socket EXCEPT !.ping = FALSE, !.pong = TRUE]
            /\ wire' = IF wedged THEN wire ELSE Append(wire, [type |-> "pong"])
  /\ UNCHANGED <<vaultVars, loopVars, session, wedged, userVars, tries>>

\* Mutant: a missing pong is ignored.
PongIgnored ==
  /\ socket.pong
  /\ socket' = [socket EXCEPT !.pong = FALSE]
  /\ UNCHANGED <<vaultVars, loopVars, asked, session, wire, wedged, userVars, history>>

\* The pong's deadline: on a wedged socket, or before a frame that is too slow.
PongTimeout ==
  /\ socket.pong
  /\ \/ wedged /\ UNCHANGED faults
     \/ ~wedged /\ Fault
  /\ Over(0)
  /\ UNCHANGED <<vaultVars, view, tries>>

-----------------------------------------------------------------------------
(* The vault (external).                                                   *)

\* The vault judges an auth message; the first token it accepts is answered with the
\* snapshot, a later one with nothing.
Judge ==
  LET tok == Head(asked)
      snapshot == [p \in Parts |-> [type |-> "snapshot", at |-> Vault[p], done |-> p = Chunks]]
  IN /\ asked # <<>> /\ ~wedged
     /\ asked' = Tail(asked)
     /\ IF tok <= refused
          THEN wire' = Append(wire, [type |-> "close", code |-> 4401]) /\ UNCHANGED session
          ELSE session' = tok /\ wire' = wire \o IF session = 0 THEN snapshot ELSE <<>>
     /\ UNCHANGED <<vaultVars, loopVars, socket, wedged, userVars, history>>

Announce(p, v) ==
  wire' = IF session # 0 /\ ~wedged THEN Append(wire, [type |-> "change", part |-> p, at |-> v])
                                    ELSE wire

Commit(p) ==
  /\ Len(log) <= MaxChanges
  /\ log' = Append(log, [Vault EXCEPT ![p] = Len(log)])
  /\ Announce(p, Len(log))
  /\ UNCHANGED <<token, refused, loopVars, socket, asked, session, wedged, userVars, history>>

\* Another request of the client refreshes its token.
Rotate ==
  /\ token < MaxTokens /\ token' = token + 1
  /\ UNCHANGED <<log, refused, loopVars, netVars, userVars, history>>

\* The token of the session is refused from now on, and the vault closes the session.
Expire ==
  /\ refused < token
  /\ refused' = refused + 1
  /\ wire' = IF session = refused + 1 /\ ~wedged
               THEN Append(wire, [type |-> "close", code |-> 4401]) ELSE wire
  /\ UNCHANGED <<log, token, loopVars, socket, asked, session, wedged, userVars, history>>

-----------------------------------------------------------------------------
Init ==
  /\ log = <<[p \in Parts |-> 0]>> /\ token = 1 /\ refused = 0
  /\ pc = "resolving" /\ status = "connecting" /\ closed = FALSE
  /\ attempt = 0 /\ refreshedThisStreak = FALSE
  /\ socket = NoSocket /\ session = 0 /\ wire = <<>> /\ wedged = FALSE /\ asked = <<>>
  /\ view = <<>> /\ error = "none" /\ faults = 0 /\ tries = 0

Next ==
  \/ TokenResolved \/ Wake \/ Refreshed \/ Unsubscribe
  \/ Opens \/ Arrives \/ Dropped \/ Breaks \/ Wedge \/ Judge \/ PingTick \/ Ping \/ PongTimeout
  \/ (\E p \in Parts : Commit(p)) \/ Rotate \/ Expire

Spec == Init /\ [][Next]_vars

\* Promises settle, timers fire, and an open socket is served.
Fairness ==
  /\ WF_vars(TokenResolved) /\ WF_vars(Wake) /\ WF_vars(Refreshed)
  /\ WF_vars(Opens) /\ WF_vars(Arrives) /\ WF_vars(Dropped) /\ WF_vars(Judge)
  /\ WF_vars(PingTick) /\ WF_vars(Ping) /\ WF_vars(PongTimeout)

FairSpec == Spec /\ Fairness

-----------------------------------------------------------------------------
(* Properties.                                                             *)

Frame ==
  [type : {"snapshot"}, at : Nat, done : BOOLEAN] \cup [type : {"pong"}]
    \cup [type : {"change"}, part : Parts, at : Nat] \cup [type : {"close"}, code : {4401}]

TypeOK ==
  /\ log \in Seq([Parts -> Nat]) /\ token \in 1..MaxTokens /\ refused \in 0..token
  /\ pc \in {"resolving", "connected", "sleeping", "refreshing", "done"}
  /\ closed \in BOOLEAN /\ attempt \in 0..MaxAttempt /\ refreshedThisStreak \in BOOLEAN
  /\ socket.state \in {"none", "connecting", "open"} /\ socket.sent \in 0..token
  /\ socket.state # "none" <=> pc = "connected"
  /\ asked \in Seq(1..token) /\ session \in 0..token /\ wire \in Seq(Frame) /\ wedged \in BOOLEAN
  /\ status \in {"connecting", "open", "reconnecting", "closed"}
  /\ view \in Seq(Nat) /\ error \in {"none", "refused", "auth"}
  /\ faults \in 0..MaxFaults /\ tries \in 0..3

\* What the consumer is given is always a set the vault once had, as a whole (chunks
\* of two snapshots, and changes before their snapshot, are never mixed into it), and
\* reconnections never take it back to an older set than it has seen.
ViewGoesForward ==
  [][view' # view => \E j \in 1..Len(log') :
       log'[j] = view' /\ (view # <<>> => \E i \in 1..j : log'[i] = view)]_vars

\* "open" is announced only on a socket the vault has accepted a token on: a pong,
\* which may come earlier, does not count.
OpenIsAccepted == pc = "connected" /\ status = "open" => session # 0

\* The vault is never hammered: between two frames, or two delays, at most one refresh
\* is followed by an immediate reconnection.
NoHotLoop == tries <= 2

\* A dropped, refused or wedged connection never leaves the consumer behind for good:
\* again and again it has what the vault has, unless the subscription was closed.
ConsumerCatchesUp == []<>(closed \/ view = Vault)

\* A rotated token reaches the vault on the open socket, before the old one runs out
\* or by a reconnection after it.
SessionFollowsToken == []<>(closed \/ session = token)
=============================================================================
