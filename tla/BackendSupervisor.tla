-------------------------- MODULE BackendSupervisor --------------------------
(***************************************************************************)
(* The backend supervisor of the surface host: mount, unmount, reload,     *)
(* sync and the retry of deferred mounts, each a chain of awaits during    *)
(* which the other operations of the daemon run; the containment of the    *)
(* requests and WebSocket events it hands to a backend; and the crash-loop *)
(* quarantine (packages/surface-host/src/backend-supervisor.ts).           *)
(*                                                                         *)
(* An operation is a task t.  call[t].plan is what its supervisor call has *)
(* still to do, one step per mount() or unmount() it awaits; a step is     *)
(* decided when its turn comes, on the list of surfaces captured when the  *)
(* call was made.  A MountRecord is an element of recs and its index the   *)
(* generation; mounts maps a name to the generation in the map, 0 for      *)
(* none, so a record that left the map is still there for the awaits and   *)
(* the requests that hold it.                                              *)
(***************************************************************************)
EXTENDS CredentialStore, Sequences, SequencesExt

CONSTANTS
  Bundles,      \* builds of a surface: meta.json, dist/ and server files
  ServerOf,     \* [Bundles -> server blocks \cup {None}]
  Gated,        \* the server blocks of surfaces that declare vault scopes
  Tasks,        \* operations that may be in flight together
  Busy,         \* surfaces whose backends get traffic
  CrashLoopMax, \* failures in the window that quarantine
  MaxInflight   \* requests, and socket events, in flight per backend

ASSUME SupervisorAssumption ==
  /\ CrashLoopMax \in Nat \ {0} /\ MaxInflight \in Nat /\ Busy \subseteq Names
  /\ None \notin Bundles /\ IsFiniteSet(Names)

VARIABLES
  disk,         \* uis/<name>: directory there, bundle of its meta.json and of
                \* its server files
  mounts,       \* name -> generation of its MountRecord, 0 if none
  recs,         \* all MountRecords made so far
  call,         \* the supervisor call each task is in
  sockets       \* name -> WebSocket connections open at the host

supVars == <<mounts, recs, call, sockets>>

BackedBundle(b) == b # None /\ ServerOf[b] # None

Record(n, b, status) ==
  [ui |-> n, spec |-> b, status |-> status, code |-> None, failures |-> 0,
   store |-> "none", aborted |-> FALSE, requests |-> 0, events |-> 0]

Idle == [at |-> "idle", plan |-> <<>>, gen |-> 0, code |-> None]
Step(do, n, b, g) == [do |-> do, ui |-> n, with |-> b, gen |-> g]

mountSpecOpen(n, b) ==
  ServerOf[b] \in Gated => resolveCredentialForSurface(n) # None

-----------------------------------------------------------------------------
(* Plans                                                                   *)

NamesOf(S) == SetToSeq(S)
Steps(names, Make(_)) == [i \in DOMAIN names |-> Make(names[i])]

\* The map hands its names out in the order in which they were entered.
OldestFirst(S) ==
  CHOOSE names \in SetToSeqs(S) :
    \A i, j \in DOMAIN names : i < j => mounts[names[i]] < mounts[names[j]]

\* First the names in the map, then the wanted surfaces.
syncPlan(uis) ==
  LET mounted == OldestFirst({n \in Names : mounts[n] # 0})
      wanted == NamesOf({n \in Names : BackedBundle(uis[n])})
  IN  Steps(mounted, LAMBDA n : Step("reconcile", n, uis[n], 0))
        \o Steps(wanted, LAMBDA n : Step("ensure", n, uis[n], 0))

reloadPlan(n, b) == <<Step("unmount", n, None, 0), Step("mount", n, b, 0)>>

retryPlan(uis) ==
  LET known == NamesOf({n \in Names : mounts[n] # 0 /\ BackedBundle(uis[n])})
  IN  Steps(known, LAMBDA n : Step("retry", n, uis[n], mounts[n]))

\* Nothing to await for a step: its record is not there, is unchanged, is
\* there already, or is not one to retry.
Moot(s) ==
  CASE s.do = "unmount" -> mounts[s.ui] = 0
    [] s.do = "reconcile" ->
         \/ mounts[s.ui] = 0
         \/ /\ BackedBundle(s.with)
            /\ ServerOf[recs[mounts[s.ui]].spec] = ServerOf[s.with]
    [] s.do = "ensure" -> mounts[s.ui] # 0
    [] s.do = "retry" ->
         recs[s.gen].status # "pending-credential" \/ ~ mountSpecOpen(s.ui, s.with)
    [] OTHER -> FALSE

Pending(plan) ==
  LET live == {i \in DOMAIN plan : ~ Moot(plan[i])}
  IN  IF live = {} THEN <<>>
      ELSE SubSeq(plan, CHOOSE i \in live : \A j \in live : i <= j, Len(plan))

-----------------------------------------------------------------------------
(* mount and unmount, up to their first await                              *)

\* What can still be seen of a record that left the map: its status, by a
\* retry that captured it; its store; what its factory returns; the socket
\* handlers that run.  Its requests and its failure window are nobody's.
Retired(r) ==
  [r EXCEPT !.aborted = TRUE, !.spec = None, !.failures = 0, !.requests = 0,
            !.status = IF @ = "pending-credential" THEN @ ELSE "backend-error",
            !.store = IF @ = "open" THEN "closed" ELSE @]

\* The record leaves the map, the shutdown signal fires (which closes the
\* state store) and shutdown() is called on the backend, if there is one.
unmount(t, n, rest) ==
  /\ mounts' = [mounts EXCEPT ![n] = 0]
  /\ recs' = [recs EXCEPT ![mounts[n]] = Retired(@)]
  /\ call' = [call EXCEPT ![t] = [Idle EXCEPT !.at = "unmount", !.plan = rest]]

\* The new record goes into the map whatever is there by now; the structural
\* check and the credential gate may leave it at that.
enter(t, n, b, rest) ==
  LET g == Len(recs) + 1
      missing == disk[n].entry = None
      deferred == ~ missing /\ ~ mountSpecOpen(n, b)
  IN  /\ mounts' = [mounts EXCEPT ![n] = g]
      /\ recs' = Append(recs, Record(n, b, IF deferred THEN "pending-credential"
                                           ELSE "backend-error"))
      /\ call' = [call EXCEPT ![t] =
                   IF missing \/ deferred THEN [Idle EXCEPT !.at = "next", !.plan = rest]
                   ELSE [Idle EXCEPT !.at = "import", !.plan = rest, !.gen = g]]

mount(t, n, b, rest) ==
  IF mounts[n] # 0 THEN unmount(t, n, <<Step("set", n, b, 0)>> \o rest)
  ELSE enter(t, n, b, rest)

\* What a task does in one go when its call has plan left to do.
Proceed(t, plan) ==
  LET todo == Pending(plan)
      s == Head(todo)
  IN  IF todo = <<>>
        THEN /\ call' = [call EXCEPT ![t] = [Idle EXCEPT !.at = "done"]]
             /\ UNCHANGED <<mounts, recs>>
        ELSE CASE s.do \in {"unmount", "reconcile"} -> unmount(t, s.ui, Tail(todo))
               [] s.do = "set" -> enter(t, s.ui, s.with, Tail(todo))
               [] OTHER -> mount(t, s.ui, s.with, Tail(todo))

-----------------------------------------------------------------------------
(* The awaits of a call                                                    *)

\* shutdown() settled, threw or ran into its bound, or mount() returned.
Resume(t) ==
  /\ call[t].at \in {"unmount", "next"}
  /\ Proceed(t, call[t].plan)
  /\ UNCHANGED sockets

\* The import evaluates the entry that is on disk now; buildContext opens the
\* store and listens for an abort that may be in the past.
ImportResolves(t) ==
  /\ call[t].at = "import"
  /\ LET c == call[t]
         entry == disk[recs[c.gen].ui].entry
     IN  /\ entry # None
         /\ recs' = [recs EXCEPT ![c.gen].store = "open"]
         /\ call' = [call EXCEPT ![t].at = "factory", ![t].code = entry]
  /\ UNCHANGED <<mounts, sockets>>

\* The result goes into the record the mount made, mounted or not.
FactoryReturns(t) ==
  /\ call[t].at = "factory"
  /\ recs' = [recs EXCEPT ![call[t].gen].code = call[t].code,
                          ![call[t].gen].status = "active"]
  /\ call' = [call EXCEPT ![t] = [Idle EXCEPT !.at = "next", !.plan = call[t].plan]]
  /\ UNCHANGED <<mounts, sockets>>

\* The import fails or exports no factory, or the factory throws or returns no
\* backend: the record stays backend-error.
MountFails(t) ==
  /\ call[t].at \in {"import", "factory"}
  /\ call' = [call EXCEPT ![t] = [Idle EXCEPT !.at = "next", !.plan = call[t].plan]]
  /\ UNCHANGED <<mounts, recs, sockets>>

SupervisorStep(t) ==
  Resume(t) \/ ImportResolves(t) \/ FactoryReturns(t) \/ MountFails(t)

-----------------------------------------------------------------------------
(* Traffic and containment                                                 *)

\* Mutants: the threshold off by one, quarantine forgotten by a late failure.
recordFailureLate(r) ==
  [r EXCEPT !.failures = @ + 1,
            !.status = IF @ = "backend-disabled" THEN @
                       ELSE IF r.failures + 1 > CrashLoopMax THEN "backend-disabled"
                       ELSE IF r.code # None THEN "failing" ELSE @]

recordFailureForgets(r) ==
  [r EXCEPT !.failures = @ + 1,
            !.status = IF r.failures + 1 >= CrashLoopMax THEN "backend-disabled"
                       ELSE IF r.code # None THEN "failing" ELSE @]

\* The record r after one more contained failure, counted whatever its status is.
recordFailure(r) ==
  [r EXCEPT !.failures = @ + 1,
            !.status = IF @ = "backend-disabled" THEN @
                       ELSE IF r.failures + 1 >= CrashLoopMax THEN "backend-disabled"
                       ELSE IF r.code # None THEN "failing" ELSE @]

Serving(n) ==
  LET g == mounts[n]
  IN  g # 0 /\ recs[g].code # None /\ recs[g].status # "backend-disabled"

RequestArrives(n) ==
  /\ n \in Busy /\ Serving(n) /\ recs[mounts[n]].requests < MaxInflight
  /\ recs' = [recs EXCEPT ![mounts[n]].requests = @ + 1]
  /\ UNCHANGED <<mounts, call, sockets>>

\* A throw, a bad answer or the timeout counts against the record the request
\* was dispatched to.
RequestEnds(n) ==
  /\ mounts[n] # 0 /\ recs[mounts[n]].requests > 0
  /\ \E failed \in BOOLEAN :
       LET r == [recs[mounts[n]] EXCEPT !.requests = @ - 1]
       IN  recs' = [recs EXCEPT ![mounts[n]] = IF failed THEN recordFailure(r) ELSE r]
  /\ UNCHANGED <<mounts, call, sockets>>

SocketOpens(n) ==
  /\ n \in Busy /\ Serving(n) /\ sockets[n] < MaxInflight
  /\ sockets' = [sockets EXCEPT ![n] = @ + 1]
  /\ UNCHANGED <<mounts, recs, call>>

\* An event of a connection, its closing included, goes to the backend mounted
\* now, whichever opened it; without one the connection is closed.
SocketEvent(n) ==
  /\ sockets[n] > 0
  /\ \E closing \in BOOLEAN :
       IF Serving(n)
         THEN /\ recs[mounts[n]].events < MaxInflight
              /\ recs' = [recs EXCEPT ![mounts[n]].events = @ + 1]
              /\ sockets' = IF closing THEN [sockets EXCEPT ![n] = @ - 1] ELSE sockets
         ELSE /\ sockets' = [sockets EXCEPT ![n] = @ - 1]
              /\ UNCHANGED recs
  /\ UNCHANGED <<mounts, call>>

\* A handler ends.  The failure of one is recorded by NAME: it counts against
\* the record mounted now, and the connection is closed.
EventEnds(g) ==
  /\ recs[g].events > 0
  /\ LET n == recs[g].ui
         ended == [recs EXCEPT ![g].events = @ - 1]
         cur == mounts[n]
     IN  \/ recs' = ended /\ UNCHANGED sockets
         \/ /\ recs' = IF cur = 0 THEN ended
                       ELSE [ended EXCEPT ![cur] = recordFailure(@)]
            /\ sockets' = [sockets EXCEPT ![n] = IF @ > 0 THEN @ - 1 ELSE 0]
  /\ UNCHANGED <<mounts, call>>

\* Failures leave the sliding window, noticed at the next prune.
pruneFailures(n) ==
  /\ mounts[n] # 0 /\ recs[mounts[n]].failures > 0
  /\ \E f \in 0..(recs[mounts[n]].failures - 1) :
       recs' = [recs EXCEPT ![mounts[n]].failures = f,
                  ![mounts[n]].status = IF @ = "failing" /\ f = 0 THEN "active" ELSE @]
  /\ UNCHANGED <<mounts, call, sockets>>

Traffic ==
  \/ \E n \in Names : \/ RequestArrives(n) \/ RequestEnds(n) \/ pruneFailures(n)
                      \/ SocketOpens(n) \/ SocketEvent(n)
  \/ \E g \in DOMAIN recs : EventEnds(g)

-----------------------------------------------------------------------------

Statuses == {"backend-error", "pending-credential", "active", "failing", "backend-disabled"}
Records ==
  [ui : Names, spec : Bundles \cup {None}, status : Statuses, code : Bundles \cup {None},
   failures : Nat, store : {"none", "open", "closed"}, aborted : BOOLEAN,
   requests : 0..MaxInflight, events : 0..MaxInflight]
Calls ==
  [at : {"idle", "next", "unmount", "import", "factory", "done"}, gen : Nat,
   code : Bundles \cup {None},
   plan : Seq([do : {"unmount", "mount", "set", "reconcile", "ensure", "retry"},
               ui : Names, with : Bundles \cup {None}, gen : Nat])]

SupervisorTypeOK ==
  /\ disk \in [Names -> [dir : BOOLEAN, meta : Bundles \cup {None},
                         entry : Bundles \cup {None}]]
  /\ recs \in Seq(Records)
  /\ mounts \in [Names -> 0..Len(recs)]
  /\ call \in [Tasks -> Calls]
  /\ sockets \in [Names -> 0..MaxInflight]
  /\ stored \subseteq Conns /\ binding \in [Names -> Conns \cup {None}]

=============================================================================
