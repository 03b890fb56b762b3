----------------------------- MODULE SurfaceHost -----------------------------
(***************************************************************************)
(* The surface host daemon: what is installed under uis/, the registry the *)
(* HTTP server routes by, the row of services.json the hub reads, and the  *)
(* admin operations that change them (packages/surface-host/src/           *)
(* admin-routes.ts, index.ts), each an asynchronous handler that shares    *)
(* the daemon with the others.  The backends are BackendSupervisor, the    *)
(* custodied credentials CredentialStore.                                  *)
(*                                                                         *)
(* A handler is a task from the moment it has authenticated and staged     *)
(* what it needs: nothing is read before that.  Its code up to an await is *)
(* one step.  op[t] says which handler t runs and what it does when the    *)
(* supervisor call it awaits is over.                                      *)
(***************************************************************************)
EXTENDS BackendSupervisor

CONSTANT MaxOps         \* handlers that may start in a behaviour

ASSUME HostAssumption == MaxOps \in Nat

VARIABLES
  registered,   \* state.registeredUis: name -> bundle of its meta, or None
  published,    \* the uis map in services.json
  op,           \* what each task is doing
  halfway,      \* history: surfaces whose last add broke off after it wrote
  behind,       \* history: those a broken-off add had replaced, until a remount
  started       \* handlers started so far

vars == <<credVars, disk, supVars, registered, published, op, halfway, behind, started>>

NoOp == [kind |-> "idle", ui |-> None, at |-> "none", replaced |-> FALSE, cred |-> None]
NoDir == [dir |-> FALSE, meta |-> None, entry |-> None]

\* A directory without meta.json is skipped.
scanUis(d) == [n \in Names |-> d[n].meta]

writeOauthClientFile(n) == disk' = [disk EXCEPT ![n].dir = TRUE]

Begin(t, kind, n) ==
  /\ op[t].kind = "idle" /\ started < MaxOps
  /\ started' = started + 1

-----------------------------------------------------------------------------
(* POST /surface/add: write, register with the hub, rescan, mount           *)

\* The files go in at once; the server files may be missing from the package.
AddWrites(t, n, b, force) ==
  /\ Begin(t, "add", n)
  /\ ~ disk[n].dir \/ force
  /\ \E entry \in IF BackedBundle(b) THEN {b, None} ELSE {None} :
       disk' = [disk EXCEPT ![n] = [dir |-> TRUE, meta |-> b, entry |-> entry]]
  /\ op' = [op EXCEPT ![t] = [NoOp EXCEPT !.kind = "add", !.ui = n, !.at = "hub",
                                          !.replaced = disk[n].dir]]
  /\ UNCHANGED <<credVars, supVars, registered, published, halfway, behind>>

\* Mutant: a replaced surface is reconciled like a new one.
AddMountsSync(t) ==
  /\ op[t].kind = "add" /\ op[t].at = "hub"
  /\ writeOauthClientFile(op[t].ui) \/ UNCHANGED disk
  /\ registered' = scanUis(disk)
  /\ Proceed(t, syncPlan(scanUis(disk)))
  /\ op' = [op EXCEPT ![t].at = "tail"]
  /\ halfway' = halfway \ {op[t].ui}
  /\ behind' = IF op[t].replaced THEN behind \ {op[t].ui} ELSE behind
  /\ UNCHANGED <<credVars, sockets, published, started>>

\* The hub registered the OAuth client, or did not; the backend of a surface
\* that was replaced is remounted, everything else reconciled.
AddMounts(t) ==
  /\ op[t].kind = "add" /\ op[t].at = "hub"
  /\ LET n == op[t].ui
         uis == scanUis(disk)
     IN  /\ writeOauthClientFile(n) \/ UNCHANGED disk
         /\ registered' = uis
         /\ Proceed(t, IF op[t].replaced /\ BackedBundle(uis[n])
                       THEN reloadPlan(n, uis[n]) ELSE syncPlan(uis))
  /\ op' = [op EXCEPT ![t].at = "tail"]
  /\ halfway' = halfway \ {op[t].ui}
  /\ behind' = IF op[t].replaced THEN behind \ {op[t].ui} ELSE behind
  /\ UNCHANGED <<credVars, sockets, published, started>>

\* The hub's answer broke off in its body: what registerOauthClient throws then
\* is no DcrError, and the handler ends with its files in place.
AddBreaksOff(t) ==
  /\ op[t].kind = "add" /\ op[t].at = "hub"
  /\ halfway' = halfway \cup {op[t].ui}
  /\ behind' = IF op[t].replaced THEN behind \cup {op[t].ui} ELSE behind
  /\ op' = [op EXCEPT ![t] = NoOp]
  /\ UNCHANGED <<credVars, disk, supVars, registered, published, started>>

-----------------------------------------------------------------------------
(* DELETE /surface/<name>: revoke, unmount, remove, reconcile               *)

DeleteStarts(t, n) ==
  /\ Begin(t, "delete", n)
  /\ disk[n].dir
  /\ op' = [op EXCEPT ![t] = [NoOp EXCEPT !.kind = "delete", !.ui = n, !.at = "hub"]]
  /\ UNCHANGED <<credVars, disk, supVars, registered, published, halfway, behind>>

\* The hub answered the revocation: note the credential, unmount.
DeleteUnmounts(t) ==
  /\ op[t].kind = "delete" /\ op[t].at = "hub"
  /\ LET n == op[t].ui IN
     /\ op' = [op EXCEPT ![t].at = "remove",
                         ![t].cred = IF BackedBundle(registered[n])
                                     THEN resolveCredentialForSurface(n) ELSE None]
     /\ Proceed(t, <<Step("unmount", n, None, 0)>>)
  /\ UNCHANGED <<credVars, disk, sockets, registered, published, halfway, behind, started>>

\* Mutant: the directory goes after the rescan.
DeleteRemovesLast(t) ==
  /\ op[t].kind = "delete" /\ op[t].at = "remove" /\ call[t].at = "done"
  /\ disk' = [disk EXCEPT ![op[t].ui] = NoDir]
  /\ registered' = scanUis(disk)
  /\ Proceed(t, syncPlan(registered'))
  /\ halfway' = halfway \ {op[t].ui} /\ behind' = behind \ {op[t].ui}
  /\ op' = [op EXCEPT ![t].at = "tail"]
  /\ UNCHANGED <<credVars, sockets, published, started>>

\* Then the files go, and what is left is rescanned and reconciled.
DeleteRemoves(t) ==
  /\ op[t].kind = "delete" /\ op[t].at = "remove" /\ call[t].at = "done"
  /\ disk' = [disk EXCEPT ![op[t].ui] = NoDir]
  /\ registered' = scanUis(disk')
  /\ Proceed(t, syncPlan(registered'))
  /\ halfway' = halfway \ {op[t].ui} /\ behind' = behind \ {op[t].ui}
  /\ op' = [op EXCEPT ![t].at = "tail"]
  /\ UNCHANGED <<credVars, sockets, published, started>>

\* The credential a delete drops: the one its surface used, if no backed
\* surface resolves to it any more.
DroppedCredentials(t) ==
  {c \in {op[t].cred} \cap stored :
     \A n \in Names : BackedBundle(registered[n]) => resolveCredentialForSurface(n) # c}

-----------------------------------------------------------------------------
(* The other handlers                                                       *)

Reload(t, n) ==
  /\ Begin(t, "reload", n)
  /\ disk[n].dir
  /\ registered' = scanUis(disk)
  /\ Proceed(t, IF BackedBundle(registered'[n]) THEN reloadPlan(n, registered'[n])
                ELSE syncPlan(registered'))
  /\ op' = [op EXCEPT ![t] = [NoOp EXCEPT !.kind = "reload", !.ui = n, !.at = "tail"]]
  /\ halfway' = halfway \ {n} /\ behind' = behind \ {n}
  /\ UNCHANGED <<credVars, disk, sockets, published>>

\* A delivery of the hub, and a change of the binding map, retry the mounts
\* that wait for a credential.
Deliver(t, o, c) ==
  /\ Begin(t, "deliver", None)
  /\ applyCredentialPayload(o, c)
  /\ call' = [call EXCEPT ![t] = [Idle EXCEPT !.at = "next", !.plan = retryPlan(registered)]]
  /\ op' = [op EXCEPT ![t] = [NoOp EXCEPT !.kind = "deliver", !.at = "tail"]]
  /\ UNCHANGED <<disk, mounts, recs, sockets, registered, published, halfway, behind>>

PatchConfig(t, n, c) ==
  /\ Begin(t, "bind", n)
  /\ binding' = [binding EXCEPT ![n] = c]
  /\ call' = [call EXCEPT ![t] = [Idle EXCEPT !.at = "next", !.plan = retryPlan(registered)]]
  /\ op' = [op EXCEPT ![t] = [NoOp EXCEPT !.kind = "bind", !.at = "tail"]]
  /\ UNCHANGED <<stored, disk, mounts, recs, sockets, registered, published, halfway, behind>>

\* POST register-oauth, and the boot self-heal of one surface: the answer of
\* the hub is written under the directory the surface had; the self-heal does
\* not refresh services.json.
RegisterOauth(t, n) ==
  /\ Begin(t, "oauth", n)
  /\ registered[n] # None
  /\ op' = [op EXCEPT ![t] = [NoOp EXCEPT !.kind = "oauth", !.ui = n, !.at = "hub"]]
  /\ UNCHANGED <<credVars, disk, supVars, registered, published, halfway, behind>>

OauthRegistered(t) ==
  /\ op[t].kind = "oauth" /\ op[t].at = "hub"
  /\ \/ /\ writeOauthClientFile(op[t].ui)
        /\ published' = registered \/ UNCHANGED published
     \/ UNCHANGED <<disk, published>>
  /\ op' = [op EXCEPT ![t] = NoOp]
  /\ UNCHANGED <<credVars, supVars, registered, halfway, behind, started>>

\* PATCH of the audience: meta.json, rescan, services.json in one go.
PatchUi(n) ==
  /\ disk[n].meta # None
  /\ registered' = scanUis(disk) /\ published' = registered'
  /\ UNCHANGED <<credVars, disk, supVars, op, halfway, behind, started>>

\* The end of a pull and build that succeeded: a static bundle is laid over
\* what is there and registered; the supervisor is not told.
GitPushed(n, b) ==
  /\ started < MaxOps /\ started' = started + 1
  /\ ~ BackedBundle(b)
  /\ disk' = [disk EXCEPT ![n].dir = TRUE, ![n].meta = b]
  /\ registered' = scanUis(disk') /\ published' = registered'
  /\ UNCHANGED <<credVars, supVars, op, halfway, behind>>

\* Mutant: services.json is refreshed by the handlers that mount, not by delete.
FinishQuietly(t) ==
  /\ op[t].at = "tail" /\ call[t].at = "done"
  /\ CASE op[t].kind \in {"add", "reload"} -> published' = registered
       [] op[t].kind \in {"boot", "bind", "delete"} -> UNCHANGED published
       [] OTHER -> published' = registered \/ UNCHANGED published
  /\ stored' = stored \ DroppedCredentials(t)
  /\ op' = [op EXCEPT ![t] = NoOp]
  /\ call' = [call EXCEPT ![t] = Idle]
  /\ UNCHANGED <<binding, disk, mounts, recs, sockets, registered, halfway, behind, started>>

\* The handler's last stretch.  A delivery refreshes services.json if it
\* mounted something; the binding change never does.  The write succeeds: when it
\* fails, the handler logs that and goes on.
Finish(t) ==
  /\ op[t].at = "tail" /\ call[t].at = "done"
  /\ CASE op[t].kind \in {"add", "delete", "reload"} -> published' = registered
       [] op[t].kind \in {"boot", "bind"} -> UNCHANGED published
       [] OTHER -> published' = registered \/ UNCHANGED published
  /\ stored' = stored \ DroppedCredentials(t)
  /\ op' = [op EXCEPT ![t] = NoOp]
  /\ call' = [call EXCEPT ![t] = Idle]
  /\ UNCHANGED <<binding, disk, mounts, recs, sockets, registered, halfway, behind, started>>

-----------------------------------------------------------------------------

\* serve(): scan, start the mount pass, publish; the task Boot runs the pass.
Init ==
  /\ disk \in [Names -> {NoDir} \cup {[dir |-> TRUE, meta |-> b,
                   entry |-> IF BackedBundle(b) THEN b ELSE None] : b \in Bundles}]
  /\ registered = scanUis(disk) /\ published = registered
  /\ stored \in SUBSET Conns /\ binding \in [Names -> Conns \cup {None}]
  /\ mounts = [n \in Names |-> 0] /\ recs = <<>> /\ sockets = [n \in Names |-> 0]
  /\ \E boot \in Tasks :
       /\ call = [t \in Tasks |-> IF t = boot
                    THEN [Idle EXCEPT !.at = "next", !.plan = syncPlan(registered)] ELSE Idle]
       /\ op = [t \in Tasks |-> IF t = boot
                    THEN [NoOp EXCEPT !.kind = "boot", !.at = "tail"] ELSE NoOp]
  /\ halfway = {} /\ behind = {} /\ started = 0

Start(t) ==
  \/ \E n \in Names, b \in Bundles, force \in BOOLEAN : AddWrites(t, n, b, force)
  \/ \E n \in Names : DeleteStarts(t, n) \/ Reload(t, n) \/ RegisterOauth(t, n)
  \/ \E c \in Conns, o \in {"provisioned", "removed"} : Deliver(t, o, c)
  \/ \E n \in Names, c \in Conns \cup {None} : PatchConfig(t, n, c)

Continue(t) ==
  \/ AddMounts(t) \/ AddBreaksOff(t) \/ DeleteUnmounts(t) \/ DeleteRemoves(t) \/ OauthRegistered(t)
  \/ SupervisorStep(t) /\ UNCHANGED <<credVars, disk, registered, published, op, halfway, behind, started>>
  \/ Finish(t)

Next ==
  \/ \E t \in Tasks : Start(t) \/ Continue(t)
  \/ \E n \in Names : PatchUi(n) \/ \E b \in Bundles : GitPushed(n, b)
  \/ Traffic /\ UNCHANGED <<credVars, disk, registered, published, op, halfway, behind, started>>

Spec == Init /\ [][Next]_vars

-----------------------------------------------------------------------------
(* Properties                                                               *)

Ops == [kind : {"idle", "boot", "add", "delete", "reload", "deliver", "bind", "oauth"},
        ui : Names \cup {None}, at : {"none", "hub", "remove", "tail"},
        replaced : BOOLEAN, cred : Conns \cup {None}]

\* The types of the daemon's state.
TypeOK ==
  /\ SupervisorTypeOK
  /\ registered \in [Names -> Bundles \cup {None}]
  /\ published \in [Names -> Bundles \cup {None}]
  /\ op \in [Tasks -> Ops]
  /\ halfway \subseteq Names /\ behind \subseteq Names
  /\ started \in 0..MaxOps

Quiet == \A t \in Tasks : op[t].kind = "idle"

\* What the HTTP server routes by is what is installed, whatever handlers are
\* in flight, except for a surface whose add has written its files and awaits
\* its OAuth registration, or whose last add broke off there: only then is a new
\* bundle under uis/ served with the registry entry of the old one (or none).
RoutesMatchDisk ==
  \A n \in Names : registered[n] # scanUis(disk)[n] =>
    \/ \E t \in Tasks : op[t].kind = "add" /\ op[t].ui = n /\ op[t].at = "hub"
    \/ n \in halfway

\* Once no handler is in flight, a backend that serves an installed backed
\* surface runs the code that is installed: no interleaving of adds, reloads,
\* deletes, deliveries and the boot pass leaves an old module behind, but for an
\* add that replaced the surface and broke off, until one that replaces it
\* again, a reload or a delete.  (The add of a new surface does not remount.)
QuietBackendsAreCurrent ==
  Quiet => \A n \in Names \ behind : mounts[n] # 0 /\ BackedBundle(registered[n]) =>
             recs[mounts[n]].code \in {None, disk[n].entry}

\* Once no handler is in flight, services.json lists what is registered: the
\* last refresh is never older than the last change of the registry.
ManifestIsCurrent == Quiet => published = registered

\* Quarantine is reached: a backend that is served though it failed since its
\* factory returned has fewer failures in its window than quarantine takes, and
\* one at least - also where the failures of sockets that an earlier backend
\* opened, requests under way when others failed, and expiries come in between.
\* (What is charged to a record before its factory returns does not quarantine
\* it: its backend starts as active.)
ServedShortOfQuarantine ==
  \A n \in Names :
    Serving(n) => \/ recs[mounts[n]].status = "active"
                  \/ /\ recs[mounts[n]].status = "failing"
                     /\ recs[mounts[n]].failures \in 1..(CrashLoopMax - 1)

\* A backend that runs and was quarantined stays so for as long as its record
\* is mounted: no late answer, expired window or socket event lifts it.
QuarantineHolds ==
  [][\A n \in Names : LET g == mounts[n] IN
       g # 0 /\ recs[g].status = "backend-disabled" /\ recs[g].code # None /\ mounts'[n] = g
         => recs'[g].status = "backend-disabled"]_vars
=============================================================================
