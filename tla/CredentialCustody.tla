-------------------------- MODULE CredentialCustody --------------------------
(***************************************************************************)
(* How the surface host keeps its vault credentials alive: deliveries of   *)
(* the hub (credential-store.ts, handleCredentialDelivery of               *)
(* admin-routes.ts) against the renewal sweeps of credential-renewal.ts.   *)
(* A sweep lists the store ONCE and then awaits one call per credential,   *)
(* so an answer meets a store that may have moved on; nothing keeps two    *)
(* sweeps apart.  The host has the tokens on disk, and a sweep at every    *)
(* boot.  The hub is external: it knows one current token per connection.  *)
(***************************************************************************)
EXTENDS Naturals, FiniteSets

CONSTANTS
  NConns,      \* hub connections, numbered in the order the store lists them
  MaxTokens,   \* bound: tokens the hub ever issues
  Sweeps       \* sweeps that may run at a time

ASSUME CustodyAssumption == NConns \in Nat /\ MaxTokens \in Nat

VARIABLES
  record,      \* the files: connection -> [token, status], token 0 = no file
  grant,       \* the hub: connection -> its current token, 0 = torn down
  life,        \* token -> "fresh" (renewal not due) | "due" | "expired"
  issued,      \* tokens issued so far
  sweep,       \* sweep -> its remaining list and the call it awaits
  refused      \* history: tokens whose renewal the host saw answered with 401

vars == <<record, grant, life, issued, sweep, refused>>

Conns == 1..NConns
Tokens == 1..MaxTokens
NoFile == [token |-> 0, status |-> "ok"]
Stored(t) == [token |-> t, status |-> "ok"]
Idle == [todo |-> {}, call |-> [conn |-> 0, token |-> 0], answer |-> "none", gift |-> 0]
Running == {s \in Sweeps : sweep[s] # Idle}

(***************************************************************************)
(* The loop body up to its next await: skip what is not within the         *)
(* horizon (by the expiry the list had, at the clock of now), post the     *)
(* captured token of the first that is.                                    *)
(***************************************************************************)
First(due, todo) ==
  IF due = {} THEN Idle
  ELSE LET r == CHOOSE q \in due : \A o \in due : q.conn <= o.conn
       IN  [todo |-> {q \in todo : q.conn > r.conn}, call |-> r,
            answer |-> "pending", gift |-> 0]

\* Mutant: what has expired is taken to be beyond renewal and passed over.
ContinueUnexpired(todo) == First({r \in todo : life[r.token] = "due"}, todo)

Continue(todo) == First({r \in todo : life[r.token] # "fresh"}, todo)

\* listCredentials, less the needs-operator ones: terminal for the sweep.
Listed == {[conn |-> c, token |-> record[c].token] :
             c \in {d \in Conns : record[d].token # 0 /\ record[d].status = "ok"}}

\* sweepCredentials: the boot sweep, or a tick of the interval.
StartSweep(s) ==
  /\ sweep[s] = Idle
  /\ Continue(Listed) # Idle
  /\ sweep' = [sweep EXCEPT ![s] = Continue(Listed)]
  /\ UNCHANGED <<record, grant, life, issued, refused>>

(***************************************************************************)
(* The hub (external).  It renews the current token of a connection; a     *)
(* superseded one it renews or refuses; an expired one, or one of a        *)
(* connection it has torn down, it refuses.                                *)
(***************************************************************************)
Answers(s, kind, t) ==
  sweep' = [sweep EXCEPT ![s].answer = kind, ![s].gift = t]

Issue(c) ==
  /\ issued < MaxTokens
  /\ issued' = issued + 1
  /\ grant' = [grant EXCEPT ![c] = issued + 1]

HubRenews(s) ==
  LET c == sweep[s].call.conn IN
  /\ sweep[s].answer = "pending"
  /\ grant[c] # 0
  /\ life[sweep[s].call.token] # "expired"
  /\ Issue(c)
  /\ Answers(s, "renewed", issued + 1)
  /\ UNCHANGED <<record, life, refused>>

HubRefuses(s) ==
  LET p == sweep[s].call IN
  /\ sweep[s].answer = "pending"
  /\ p.token # grant[p.conn] \/ life[p.token] = "expired"
  /\ Answers(s, "refused", 0)
  /\ UNCHANGED <<record, grant, life, issued, refused>>

-----------------------------------------------------------------------------
(***************************************************************************)
(* The host.                                                               *)
(***************************************************************************)
applyCredentialPayload(op, c, t) ==
  record' = [record EXCEPT ![c] = IF op = "removed" THEN NoFile ELSE Stored(t)]

\* Mutant: the status is written before the record is spread over it.
MarkSpreadLast(c) == record' = record

\* Reads the file of now, whatever token the refused call carried.
markCredentialNeedsOperator(c) ==
  record' = [record EXCEPT ![c] =
    IF @.token = 0 THEN @ ELSE [@ EXCEPT !.status = "needs-operator"]]

Resume(s) == sweep' = [sweep EXCEPT ![s] = Continue(@.todo)]

\* 200: the stored record is replaced from the body.
Renewed(s) ==
  /\ sweep[s].answer = "renewed"
  /\ applyCredentialPayload("renewed", sweep[s].call.conn, sweep[s].gift)
  /\ Resume(s)
  /\ UNCHANGED <<grant, life, issued, refused>>

\* 401: terminal.
Refused(s) ==
  /\ sweep[s].answer = "refused"
  /\ markCredentialNeedsOperator(sweep[s].call.conn)
  /\ refused' = refused \cup {sweep[s].call.token}
  /\ Resume(s)
  /\ UNCHANGED <<grant, life, issued>>

\* Mutant: a failing call ends its sweep.
FailedEndsSweep(s) ==
  /\ sweep[s].answer \in {"pending", "renewed"}
  /\ sweep' = [sweep EXCEPT ![s] = Idle]
  /\ UNCHANGED <<record, grant, life, issued, refused>>

\* Anything else - 5xx, no network, a 200 without a credential: logged, the
\* next sweep tries again.  Before the hub renewed, or after it did: the
\* answer is lost, and the file keeps a superseded token.
Failed(s) ==
  /\ sweep[s].answer \in {"pending", "renewed"}
  /\ Resume(s)
  /\ UNCHANGED <<record, grant, life, issued, refused>>

\* The operator (re-)approves a connection; the hub delivers the credential.
Provision(c) ==
  /\ Issue(c)
  /\ applyCredentialPayload("provisioned", c, issued + 1)
  /\ UNCHANGED <<life, sweep, refused>>

\* The operator tears a connection down; the hub's notice may not arrive.
Remove(c) ==
  /\ grant[c] # 0
  /\ grant' = [grant EXCEPT ![c] = 0]
  /\ applyCredentialPayload("removed", c, 0) \/ UNCHANGED record
  /\ UNCHANGED <<life, issued, sweep, refused>>

\* Time passes for a token that is stored or that a sweep holds.
Age(t) ==
  /\ \/ \E c \in Conns : record[c].token = t
     \/ \E s \in Sweeps : \E r \in sweep[s].todo \cup {sweep[s].call} : r.token = t
  /\ \/ life[t] = "fresh" /\ life' = [life EXCEPT ![t] = "due"]
     \/ life[t] = "due" /\ life' = [life EXCEPT ![t] = "expired"]
  /\ UNCHANGED <<record, grant, issued, sweep, refused>>

\* The daemon dies and boots: the files stay, calls in flight are forgotten.
Restart ==
  /\ Running # {}
  /\ sweep' = [s \in Sweeps |-> Idle]
  /\ UNCHANGED <<record, grant, life, issued, refused>>

Init ==
  /\ record = [c \in Conns |-> NoFile]
  /\ grant = [c \in Conns |-> 0]
  /\ life = [t \in Tokens |-> "fresh"]
  /\ issued = 0
  /\ sweep = [s \in Sweeps |-> Idle]
  /\ refused = {}

Next ==
  \/ \E c \in Conns : Provision(c) \/ Remove(c)
  \/ \E t \in Tokens : Age(t)
  \/ \E s \in Sweeps : StartSweep(s) \/ HubRenews(s) \/ HubRefuses(s)
                       \/ Renewed(s) \/ Refused(s) \/ Failed(s)
  \/ Restart

Spec == Init /\ [][Next]_vars

-----------------------------------------------------------------------------
(***************************************************************************)
(* Fairness: the interval keeps starting sweeps, the call of a sweep ends, *)
(* and the daemon comes to stay up.  Nothing is assumed of time, of the    *)
(* operator, and - but where a property says so - of the hub.              *)
(***************************************************************************)
Fairness ==
  /\ <>[][~Restart]_vars
  /\ \A s \in Sweeps : WF_vars(StartSweep(s)) /\ WF_vars(Renewed(s) \/ Refused(s) \/ Failed(s))

\* Asked about c again and again the hub answers, and not every renewal it
\* answers is lost.  Calls for other connections may fail for ever.
HubAnswersFor(c) ==
  /\ SF_vars(\E s \in Sweeps : sweep[s].call.conn = c /\ (HubRenews(s) \/ HubRefuses(s)))
  /\ SF_vars(\E s \in Sweeps : sweep[s].call.conn = c /\ Renewed(s))

FairSpec == Spec /\ Fairness

CustodyTypeOK ==
  /\ record \in [Conns -> {NoFile} \cup
                          [token : 1..issued, status : {"ok", "needs-operator"}]]
  /\ grant \in [Conns -> 0..issued]
  /\ life \in [Tokens -> {"fresh", "due", "expired"}]
  /\ issued \in 0..MaxTokens
  /\ refused \subseteq 1..issued
  /\ \A s \in Sweeps :
       /\ sweep[s].todo \subseteq [conn : Conns, token : 1..issued]
       /\ sweep[s].answer \in {"none", "pending", "renewed", "refused"}

(***************************************************************************)
(* The sweep never retries what was refused and no backend is handed it: a *)
(* token the hub answered with 401 is in no usable record, whatever other  *)
(* sweeps, late answers, deliveries and restarts did since.                *)
(***************************************************************************)
RefusedRests == \A c \in Conns : record[c].status = "ok" => record[c].token \notin refused

Usable(c) == record[c].token # 0 /\ record[c].status = "ok"
LifeOf(c) == life[record[c].token]

\* The credential of c rests on a token that no renewal can replace.
Doomed(c) ==
  Usable(c) /\ (LifeOf(c) = "expired" \/ (LifeOf(c) = "due" /\ grant[c] = 0))

(***************************************************************************)
(* A credential that cannot be renewed any more - expired, or of a torn    *)
(* down connection, the one a late renewal answer brought back after its   *)
(* removal among them - does not stay in use for ever, if the hub answers  *)
(* for it: it is marked for the operator, replaced or removed.             *)
(***************************************************************************)
DoomedIsNoticed ==
  \A c \in Conns : HubAnswersFor(c) => (Doomed(c) ~> ~Doomed(c))

\* The usable credential of c is due and its connection stands - be its token
\* the current one, or superseded by a renewal whose answer was lost - and
\* the hub of the model has a token left to renew it with.
Renewable(c) ==
  Usable(c) /\ grant[c] # 0 /\ LifeOf(c) = "due" /\ issued < MaxTokens

(***************************************************************************)
(* A due credential does not stay due for ever, if the hub answers for it: *)
(* calls that fail for ever for the other credentials of its sweeps do not *)
(* stop its renewal, nor does a sweep that overlaps - and where an answer  *)
(* was lost, the superseded token is renewed again, or refused and marked  *)
(* for the operator.                                                       *)
(***************************************************************************)
DueIsRenewed ==
  \A c \in Conns : HubAnswersFor(c) => (Renewable(c) ~> ~Renewable(c))

=============================================================================
