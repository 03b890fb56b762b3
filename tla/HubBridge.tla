------------------------------ MODULE HubBridge ------------------------------
(***************************************************************************)
(* The connection of the parachute-mcp bridge to one hub                   *)
(* (packages/parachute-mcp/src/bridge.ts): a client opened on first use,   *)
(* one attempt shared by all who wait for it, and a call that meets an     *)
(* expired session made once more on a new one.  The calls of the harness  *)
(* overlap.  The hub and the MCP client are external: the hub forgets      *)
(* sessions and goes down; closing a client may fail what is in flight.    *)
(***************************************************************************)
EXTENDS Naturals, FiniteSets, FiniteSetsExt

CONSTANTS
  Callers,     \* calls of the harness, each made once
  MaxClients,  \* bound: clients ever made
  MaxForgets,  \* bound: times the hub forgets its sessions
  MaxOutages   \* bound: times the hub goes down

VARIABLES
  client,      \* HubConnection.client and .transport, 0 = null
  connecting,  \* the clients that attempts in progress make
  made,        \* clients made so far
  open,        \* clients connected and not closed
  sessions,    \* the hub: clients whose session it knows
  up, forgets, outages,
  call,        \* caller -> [at, on, answer]
  ran,         \* history: caller -> times the hub ran its tool
  excuse       \* history: calls the hub failed, or that overlapped another

vars == <<client, connecting, made, open, sessions, up, forgets, outages, call,
          ran, excuse>>

hubVars == <<sessions, up, forgets, outages>>

\* at: "idle", "connect" and "reconnect" (await connect), "first" and "second"
\* (await the answer on client on), "ok", "failed".
Waiting == {k \in Callers : call[k].at \in {"connect", "reconnect"}}
InFlight == {k \in Callers : call[k].at \in {"first", "second"}}
Active == Waiting \cup InFlight

Sends(k, on) ==
  [at |-> IF call[k].at = "reconnect" THEN "second" ELSE "first", on |-> on,
   answer |-> "pending"]
Ends(k, how) == [call[k] EXCEPT !.at = how]

\* A new attempt, for the caller whose entry is e.
Attempt(k, e) ==
  /\ made < MaxClients /\ made' = made + 1
  /\ connecting' = connecting \cup {made + 1}
  /\ call' = [call EXCEPT ![k] = [e EXCEPT !.on = made + 1]]

Uses(k, c) ==
  /\ call' = [call EXCEPT ![k] = Sends(k, c)]
  /\ UNCHANGED <<connecting, made>>

\* Mutant: the attempts of two callers are not coalesced.
connectAlone(k) ==
  \/ client # 0 /\ Uses(k, client)
  \/ client = 0 /\ Attempt(k, [call[k] EXCEPT !.at = "connect"])

\* connect(): the live connection, else the attempt in progress, else a new one.
connect(k) ==
  \/ client # 0 /\ Uses(k, client)
  \/ /\ client = 0 /\ connecting # {}
     /\ call' = [call EXCEPT ![k] = [@ EXCEPT !.at = "connect", !.on = Max(connecting)]]
     /\ UNCHANGED <<connecting, made>>
  \/ client = 0 /\ connecting = {} /\ Attempt(k, [call[k] EXCEPT !.at = "connect"])

\* withClient, up to its first await.
Begin(k) ==
  /\ call[k].at = "idle"
  /\ connect(k)
  /\ excuse' = (IF up THEN excuse ELSE excuse \cup {k})
               \cup (IF Active # {} THEN Active \cup {k} ELSE {})
  /\ UNCHANGED <<client, open, hubVars, ran>>

WaitsFor(c) == {k \in Waiting : call[k].on = c}

\* Initialize succeeds: everyone who waits sends its request.
Connected(c) ==
  /\ up
  /\ client' = c /\ connecting' = connecting \ {c}
  /\ open' = open \cup {c}
  /\ sessions' = sessions \cup {c}
  /\ call' = [k \in Callers |-> IF k \in WaitsFor(c) THEN Sends(k, c) ELSE call[k]]
  /\ UNCHANGED <<made, up, forgets, outages, ran, excuse>>

\* It fails: everyone who waits fails, the next caller starts afresh.
ConnectFails(c) ==
  /\ ~up
  /\ connecting' = connecting \ {c}
  /\ call' = [k \in Callers |-> IF k \in WaitsFor(c) THEN Ends(k, "failed") ELSE call[k]]
  /\ UNCHANGED <<client, made, open, hubVars, ran, excuse>>

-----------------------------------------------------------------------------
(***************************************************************************)
(* The hub (external).                                                     *)
(***************************************************************************)
Serve(k) ==
  /\ k \in InFlight /\ call[k].answer = "pending"
  /\ IF ~up THEN call' = [call EXCEPT ![k].answer = "error"] /\ UNCHANGED ran
     ELSE IF call[k].on \in sessions
     THEN call' = [call EXCEPT ![k].answer = "result"] /\ ran' = [ran EXCEPT ![k] = @ + 1]
     ELSE call' = [call EXCEPT ![k].answer = "404"] /\ UNCHANGED ran
  /\ UNCHANGED <<client, connecting, made, open, hubVars, excuse>>

HubForgets ==
  /\ up /\ forgets < MaxForgets /\ sessions # {}
  /\ sessions' = {} /\ forgets' = forgets + 1
  /\ excuse' = excuse \cup Active
  /\ UNCHANGED <<client, connecting, made, open, up, outages, call, ran>>

HubGoesDown ==
  /\ up /\ outages < MaxOutages
  /\ up' = FALSE /\ outages' = outages + 1
  /\ excuse' = excuse \cup Active
  /\ UNCHANGED <<client, connecting, made, open, sessions, forgets, call, ran>>

HubComesUp ==
  /\ ~up /\ up' = TRUE
  /\ UNCHANGED <<client, connecting, made, open, sessions, forgets, outages, call, ran,
                 excuse>>

-----------------------------------------------------------------------------
(***************************************************************************)
(* What withClient does with an answer.                                    *)
(***************************************************************************)
Returns(k) ==
  /\ k \in InFlight /\ call[k].answer = "result"
  /\ call' = [call EXCEPT ![k] = Ends(k, "ok")]
  /\ UNCHANGED <<client, connecting, made, open, hubVars, ran, excuse>>

\* Mutant: whatever ends the first attempt is taken for an expired session.
AnyFailure(k) == call[k].answer \in {"404", "closed", "error"} /\ client # 0

\* isSessionExpiry: the 404 of a connection that, by now, holds a session.
isSessionExpiry(k) == call[k].answer = "404" /\ client # 0

\* Mutant: the call is repeated without dropping the expired connection.
RetriesUnreset(k) ==
  /\ call[k].at = "first"
  /\ isSessionExpiry(k)
  /\ call' = [call EXCEPT ![k] = [at |-> "second", on |-> client, answer |-> "pending"]]
  /\ UNCHANGED <<client, connecting, made, open, hubVars, ran, excuse>>

\* reset(), then connect(): whatever client is current is closed, and what is
\* in flight on it may fail with it.  With a client there is no attempt.
Retries(k) ==
  /\ call[k].at = "first"
  /\ isSessionExpiry(k)
  /\ client' = 0
  /\ open' = open \ {client}
  /\ made < MaxClients /\ made' = made + 1
  /\ connecting' = connecting \cup {made + 1}
  /\ \E hit \in SUBSET {j \in InFlight \ {k} : call[j].on = client} :
       call' = [j \in Callers |->
         IF j = k THEN [call[k] EXCEPT !.at = "reconnect", !.on = made + 1]
         ELSE IF j \in hit THEN [call[j] EXCEPT !.answer = "closed"] ELSE call[j]]
  /\ UNCHANGED <<hubVars, ran, excuse>>

\* Every other error, and any error of the second attempt, is the caller's.
Throws(k) ==
  /\ k \in InFlight /\ call[k].answer \in {"404", "error", "closed"}
  /\ call[k].at = "second" \/ ~isSessionExpiry(k)
  /\ call' = [call EXCEPT ![k] = Ends(k, "failed")]
  /\ UNCHANGED <<client, connecting, made, open, hubVars, ran, excuse>>

Init ==
  /\ client = 0 /\ connecting = {} /\ made = 0
  /\ open = {} /\ sessions = {}
  /\ up \in BOOLEAN /\ forgets = 0 /\ outages = 0
  /\ call = [k \in Callers |-> [at |-> "idle", on |-> 0, answer |-> "none"]]
  /\ ran = [k \in Callers |-> 0]
  /\ excuse = {}

Next ==
  \/ \E k \in Callers : Begin(k) \/ Serve(k) \/ Returns(k) \/ Retries(k) \/ Throws(k)
  \/ \E c \in connecting : Connected(c) \/ ConnectFails(c)
  \/ HubForgets \/ HubGoesDown \/ HubComesUp

Spec == Init /\ [][Next]_vars

-----------------------------------------------------------------------------
(***************************************************************************)
(* However calls overlap with expiring sessions and with each other's      *)
(* resets, a tool runs at most once per call, and has run when the call    *)
(* succeeds: what the retry repeats was never served.                      *)
(***************************************************************************)
CallsRunOnce ==
  \A k \in Callers : ran[k] <= 1 /\ (call[k].at = "ok" => ran[k] = 1)

\* However calls overlap, no client is forgotten open: the one in use is the only
\* one, and while there is one, none is being made.
NoForgottenClient == open = {client} \ {0} /\ (client # 0 => connecting = {})

(***************************************************************************)
(* A call that the hub does not fail while it lasts succeeds, in whatever  *)
(* state earlier outages, failed attempts and expired sessions left the    *)
(* connection; only a call made together with others may fail with them.   *)
(***************************************************************************)
LoneCallsSucceed == \A k \in Callers \ excuse : call[k].at # "failed"

=============================================================================
