-------------------------- MODULE SurfaceHostProofs --------------------------
(***************************************************************************)
(* Proofs about SurfaceHost, for any surfaces, bundles, credentials, tasks *)
(* and bounds: the registry follows the disk, services.json follows the    *)
(* registry, the supervisor's state keeps its type, a quarantine lasts and *)
(* backends run the installed code, through every interleaving of the      *)
(* handlers, the mounts and the traffic.                                   *)
(***************************************************************************)
EXTENDS SurfaceHost, FiniteSetTheorems, SequenceTheorems, TLAPS

\* The types the two arguments need: those of the host's own state.
HostTypes ==
  /\ disk \in [Names -> [dir : BOOLEAN, meta : Bundles \cup {None},
                         entry : Bundles \cup {None}]]
  /\ op \in [Tasks -> Ops]
  /\ stored \subseteq Conns /\ binding \in [Names -> Conns \cup {None}]

\* Between a change of the registry and the end of the handler that made it,
\* that handler is in its last supervisor call.
PublisherIsComing ==
  published # registered =>
    \E t \in Tasks : op[t].kind \in {"add", "delete", "reload"} /\ op[t].at = "tail"

IInv == HostTypes /\ RoutesMatchDisk /\ PublisherIsComing

-----------------------------------------------------------------------------
(* What a step may do to the registry                                       *)

AddAwaits(t, n) == op[t].kind = "add" /\ op[t].ui = n /\ op[t].at = "hub"

\* A step that leaves the registry and the metas alone keeps the routes, if
\* no add leaves its await.
LEMMA RoutesKept ==
  ASSUME RoutesMatchDisk, registered' = registered,
         scanUis(disk)' = scanUis(disk),
         \A t \in Tasks, n \in Names : AddAwaits(t, n) => AddAwaits(t, n)',
         halfway' = halfway
  PROVE  RoutesMatchDisk'
BY DEF RoutesMatchDisk, AddAwaits

\* A step that takes the registry from the disk it leaves behind.
LEMMA RoutesRescanned ==
  ASSUME registered' = scanUis(disk)'
  PROVE  RoutesMatchDisk'
BY DEF RoutesMatchDisk

\* Writing the OAuth client file changes no meta.
LEMMA ScanIgnoresOauth ==
  ASSUME HostTypes, NEW n, writeOauthClientFile(n) \/ UNCHANGED disk
  PROVE  /\ scanUis(disk)' = scanUis(disk)
         /\ disk' \in [Names -> [dir : BOOLEAN, meta : Bundles \cup {None},
                                 entry : Bundles \cup {None}]]
<1>1. CASE UNCHANGED disk
  BY <1>1 DEF HostTypes, scanUis
<1>2. CASE writeOauthClientFile(n) /\ n \notin Names
  <2>1. disk' = disk
    BY <1>2 DEF writeOauthClientFile, HostTypes
  <2> QED BY <2>1 DEF HostTypes, scanUis
<1>3. CASE writeOauthClientFile(n) /\ n \in Names
  <2>1. disk' = [disk EXCEPT ![n] = [disk[n] EXCEPT !.dir = TRUE]]
    BY <1>3 DEF writeOauthClientFile
  <2>2. [disk[n] EXCEPT !.dir = TRUE] \in
          [dir : BOOLEAN, meta : Bundles \cup {None}, entry : Bundles \cup {None}]
    BY <1>3 DEF HostTypes
  <2>3. [disk[n] EXCEPT !.dir = TRUE].meta = disk[n].meta
    BY <1>3 DEF HostTypes
  <2> QED BY <1>3, <2>1, <2>2, <2>3 DEF HostTypes, scanUis
<1> QED BY <1>1, <1>2, <1>3

\* A credential that is resolved is a connection.
LEMMA ResolvedIsConn ==
  ASSUME HostTypes, NEW n
  PROVE  resolveCredentialForSurface(n) \in Conns \cup {None}
<1> DEFINE usable == IF binding[n] # None THEN {binding[n]} \cap stored
                     ELSE IF Cardinality(stored) = 1 THEN stored
                     ELSE stored \cap ReadConns
<1>1. usable \subseteq Conns
  BY DEF HostTypes
<1>2. Cardinality(usable) = 1 => usable # {}
  BY FS_EmptySet
<1>3. resolveCredentialForSurface(n) =
        IF Cardinality(usable) = 1 THEN CHOOSE c \in usable : TRUE ELSE None
  BY DEF resolveCredentialForSurface
<1> HIDE DEF usable
<1> QED BY <1>1, <1>2, <1>3

-----------------------------------------------------------------------------

\* The boot pass is under way, and everything is as scanned.
LEMMA InitHolds ==
  ASSUME Init
  PROVE  IInv
<1>1. PICK boot \in Tasks :
        op = [t \in Tasks |-> IF t = boot
                THEN [NoOp EXCEPT !.kind = "boot", !.at = "tail"] ELSE NoOp]
  BY DEF Init
<1>2. op \in [Tasks -> Ops]
  BY <1>1 DEF NoOp, Ops
<1>3. disk \in [Names -> [dir : BOOLEAN, meta : Bundles \cup {None},
                         entry : Bundles \cup {None}]]
  <2> DEFINE Dirs == {NoDir} \cup {[dir |-> TRUE, meta |-> b,
                       entry |-> IF BackedBundle(b) THEN b ELSE None] : b \in Bundles}
  <2>1. Dirs \subseteq [dir : BOOLEAN, meta : Bundles \cup {None}, entry : Bundles \cup {None}]
    <3> SUFFICES ASSUME NEW d \in Dirs
                 PROVE  d \in [dir : BOOLEAN, meta : Bundles \cup {None},
                               entry : Bundles \cup {None}]
      OBVIOUS
    <3>1. CASE d = NoDir
      BY <3>1 DEF NoDir
    <3>2. CASE d # NoDir
      <4>1. PICK b \in Bundles :
              d = [dir |-> TRUE, meta |-> b, entry |-> IF BackedBundle(b) THEN b ELSE None]
        BY <3>2
      <4> QED BY <4>1
    <3> QED BY <3>1, <3>2
  <2>2. disk \in [Names -> Dirs]
    BY DEF Init
  <2> HIDE DEF Dirs
  <2> QED BY <2>1, <2>2
<1>4. stored \subseteq Conns /\ binding \in [Names -> Conns \cup {None}]
  BY DEF Init
<1>5. RoutesMatchDisk /\ PublisherIsComing
  BY DEF Init, RoutesMatchDisk, PublisherIsComing
<1> QED
  BY <1>2, <1>3, <1>4, <1>5 DEF IInv, HostTypes

\* A handler begins: it writes files only as an add, or rescans.
LEMMA StartKeeps ==
  ASSUME IInv, NEW t \in Tasks, Start(t)
  PROVE  IInv'
<1> USE DEF IInv
<1>0. op[t].kind = "idle" /\ op \in [Tasks -> Ops]
  BY DEF Start, Begin, AddWrites, DeleteStarts, Reload, RegisterOauth, Deliver, PatchConfig,
         HostTypes
<1>1. ASSUME NEW n \in Names, NEW b \in Bundles, NEW force \in BOOLEAN,
             AddWrites(t, n, b, force)
      PROVE  IInv'
  <2>1. PICK entry \in Bundles \cup {None} :
          disk' = [disk EXCEPT ![n] = [dir |-> TRUE, meta |-> b, entry |-> entry]]
    BY <1>1 DEF AddWrites
  <2>2. op' = [op EXCEPT ![t] = [NoOp EXCEPT !.kind = "add", !.ui = n, !.at = "hub",
                                             !.replaced = disk[n].dir]]
    BY <1>1 DEF AddWrites
  <2>3. HostTypes'
    <3>1. [dir |-> TRUE, meta |-> b, entry |-> entry] \in
            [dir : BOOLEAN, meta : Bundles \cup {None}, entry : Bundles \cup {None}]
      OBVIOUS
    <3>2. [NoOp EXCEPT !.kind = "add", !.ui = n, !.at = "hub", !.replaced = disk[n].dir] \in Ops
      BY DEF HostTypes, Ops, NoOp
    <3> QED BY <1>1, <2>1, <2>2, <3>1, <3>2 DEF AddWrites, HostTypes, credVars
  <2>4. RoutesMatchDisk'
    <3> SUFFICES ASSUME NEW m \in Names, registered'[m] # scanUis(disk)'[m]
                 PROVE  m \in halfway' \/ \E u \in Tasks : AddAwaits(u, m)'
      BY DEF RoutesMatchDisk, AddAwaits
    <3>1. CASE m = n
      BY <1>0, <2>2, <3>1 DEF AddAwaits, NoOp
    <3>2. CASE m # n
      <4>1. registered[m] # scanUis(disk)[m]
        BY <1>1, <2>1, <3>2 DEF AddWrites, scanUis, HostTypes
      <4>2. CASE m \in halfway
        BY <1>1, <4>2 DEF AddWrites
      <4>3. CASE \E u \in Tasks : AddAwaits(u, m)
        <5>1. PICK u \in Tasks : AddAwaits(u, m)
          BY <4>3
        <5> QED BY <1>0, <2>2, <5>1 DEF AddAwaits
      <4> QED BY <4>1, <4>2, <4>3 DEF RoutesMatchDisk, AddAwaits
    <3> QED BY <3>1, <3>2
  <2>5. PublisherIsComing'
    BY <1>0, <1>1, <2>2 DEF AddWrites, PublisherIsComing
  <2> QED BY <2>3, <2>4, <2>5
<1>2. ASSUME NEW n \in Names, DeleteStarts(t, n)
      PROVE  IInv'
  <2>1. HostTypes'
    BY <1>2 DEF DeleteStarts, HostTypes, Ops, NoOp, credVars
  <2>2. RoutesMatchDisk'
    BY <1>0, <1>2, RoutesKept DEF DeleteStarts, AddAwaits, scanUis
  <2>3. PublisherIsComing'
    BY <1>0, <1>2 DEF DeleteStarts, PublisherIsComing
  <2> QED BY <2>1, <2>2, <2>3
<1>3. ASSUME NEW n \in Names, Reload(t, n)
      PROVE  IInv'
  <2>1. HostTypes'
    BY <1>3 DEF Reload, HostTypes, Ops, NoOp, credVars
  <2>2. RoutesMatchDisk'
    BY <1>3, RoutesRescanned DEF Reload, scanUis
  <2>3. op'[t].kind = "reload" /\ op'[t].at = "tail"
    BY <1>0, <1>3 DEF Reload, NoOp
  <2> QED BY <2>1, <2>2, <2>3 DEF PublisherIsComing
<1>4. ASSUME NEW n \in Names, RegisterOauth(t, n)
      PROVE  IInv'
  <2>1. HostTypes'
    BY <1>4 DEF RegisterOauth, HostTypes, Ops, NoOp, credVars
  <2>2. RoutesMatchDisk'
    BY <1>0, <1>4, RoutesKept DEF RegisterOauth, AddAwaits, scanUis
  <2>3. PublisherIsComing'
    BY <1>0, <1>4 DEF RegisterOauth, PublisherIsComing
  <2> QED BY <2>1, <2>2, <2>3
<1>5. ASSUME NEW c \in Conns, NEW o \in {"provisioned", "removed"}, Deliver(t, o, c)
      PROVE  IInv'
  <2>1. HostTypes'
    BY <1>5 DEF Deliver, applyCredentialPayload, HostTypes, Ops, NoOp
  <2>2. RoutesMatchDisk'
    BY <1>0, <1>5, RoutesKept DEF Deliver, AddAwaits, scanUis
  <2>3. PublisherIsComing'
    BY <1>0, <1>5 DEF Deliver, PublisherIsComing
  <2> QED BY <2>1, <2>2, <2>3
<1>6. ASSUME NEW n \in Names, NEW c \in Conns \cup {None}, PatchConfig(t, n, c)
      PROVE  IInv'
  <2>1. HostTypes'
    BY <1>6 DEF PatchConfig, HostTypes, Ops, NoOp
  <2>2. RoutesMatchDisk'
    BY <1>0, <1>6, RoutesKept DEF PatchConfig, AddAwaits, scanUis
  <2>3. PublisherIsComing'
    BY <1>0, <1>6 DEF PatchConfig, PublisherIsComing
  <2> QED BY <2>1, <2>2, <2>3
<1> QED BY <1>1, <1>2, <1>3, <1>4, <1>5, <1>6 DEF Start

-----------------------------------------------------------------------------

\* An add rescans when its registration is over.
LEMMA AddMountsKeeps ==
  ASSUME IInv, NEW t \in Tasks, AddMounts(t)
  PROVE  IInv'
<1>1. op \in [Tasks -> Ops] /\ op[t].kind = "add" /\ op[t].ui \in Names \cup {None}
  BY DEF IInv, HostTypes, AddMounts, Ops
<1>2. op' = [op EXCEPT ![t].at = "tail"]
  BY DEF AddMounts
<1>3. op' \in [Tasks -> Ops] /\ op'[t].kind = "add" /\ op'[t].at = "tail"
  BY <1>1, <1>2 DEF Ops
<1>4. HostTypes' /\ scanUis(disk)' = scanUis(disk)
  <2>1. HostTypes /\ (writeOauthClientFile(op[t].ui) \/ UNCHANGED disk)
    BY DEF AddMounts, IInv
  <2>2. scanUis(disk)' = scanUis(disk)
        /\ disk' \in [Names -> [dir : BOOLEAN, meta : Bundles \cup {None},
                               entry : Bundles \cup {None}]]
    BY <2>1, ScanIgnoresOauth
  <2> QED BY <1>3, <2>1, <2>2 DEF AddMounts, HostTypes, credVars
<1>5. RoutesMatchDisk'
  BY <1>4, RoutesRescanned DEF AddMounts
<1> QED BY <1>3, <1>4, <1>5 DEF IInv, PublisherIsComing

\* The add that breaks off leaves its name in halfway.
LEMMA AddBreaksOffKeeps ==
  ASSUME IInv, NEW t \in Tasks, AddBreaksOff(t)
  PROVE  IInv'
<1>1. op \in [Tasks -> Ops] /\ op[t].kind = "add" /\ op[t].at = "hub"
  BY DEF IInv, HostTypes, AddBreaksOff
<1>2. op' \in [Tasks -> Ops]
  BY <1>1 DEF AddBreaksOff, Ops, NoOp
<1>3. \A u \in Tasks : u # t => op'[u] = op[u]
  BY <1>1 DEF AddBreaksOff
<1>4. HostTypes'
  BY <1>2 DEF AddBreaksOff, IInv, HostTypes, credVars
<1>5. RoutesMatchDisk'
  <2> SUFFICES ASSUME NEW m \in Names, registered[m] # scanUis(disk)[m], m \notin halfway'
               PROVE  \E u \in Tasks : AddAwaits(u, m)'
    BY DEF RoutesMatchDisk, AddAwaits, AddBreaksOff, scanUis
  <2>1. m \notin halfway /\ m # op[t].ui
    BY DEF AddBreaksOff
  <2>2. PICK u \in Tasks : AddAwaits(u, m)
    BY <2>1 DEF IInv, RoutesMatchDisk, AddAwaits
  <2> QED BY <1>3, <2>1, <2>2 DEF AddAwaits
<1>6. PublisherIsComing'
  BY <1>1, <1>3 DEF AddBreaksOff, IInv, PublisherIsComing
<1> QED BY <1>4, <1>5, <1>6 DEF IInv

\* A delete unmounts before it removes,
LEMMA DeleteUnmountsKeeps ==
  ASSUME IInv, NEW t \in Tasks, DeleteUnmounts(t)
  PROVE  IInv'
<1>1. op \in [Tasks -> Ops] /\ op[t].kind = "delete" /\ op[t].at = "hub"
  BY DEF IInv, HostTypes, DeleteUnmounts
<1>2. PICK c \in Conns \cup {None} :
        op' = [op EXCEPT ![t].at = "remove", ![t].cred = c]
  BY ResolvedIsConn DEF DeleteUnmounts, IInv
<1>3. op' \in [Tasks -> Ops]
  BY <1>1, <1>2 DEF Ops
<1>4. \A u \in Tasks : u # t => op'[u] = op[u]
  BY <1>1, <1>2
<1>5. HostTypes'
  BY <1>3 DEF DeleteUnmounts, IInv, HostTypes, credVars
<1>6. RoutesMatchDisk'
  BY <1>1, <1>4, RoutesKept DEF DeleteUnmounts, AddAwaits, IInv, scanUis
<1>7. PublisherIsComing'
  BY <1>1, <1>4 DEF DeleteUnmounts, IInv, PublisherIsComing
<1> QED BY <1>5, <1>6, <1>7 DEF IInv

\* and rescans in the stretch that removes.
LEMMA DeleteRemovesKeeps ==
  ASSUME IInv, NEW t \in Tasks, DeleteRemoves(t)
  PROVE  IInv'
<1>1. op \in [Tasks -> Ops] /\ op[t].kind = "delete"
  BY DEF IInv, HostTypes, DeleteRemoves
<1>2. op' \in [Tasks -> Ops] /\ op'[t].kind = "delete" /\ op'[t].at = "tail"
  BY <1>1 DEF DeleteRemoves, Ops
<1>3. HostTypes'
  BY <1>2 DEF DeleteRemoves, IInv, HostTypes, credVars, NoDir
<1>4. RoutesMatchDisk'
  BY RoutesRescanned DEF DeleteRemoves
<1> QED BY <1>2, <1>3, <1>4 DEF IInv, PublisherIsComing

\* An OAuth registration changes no meta.
LEMMA OauthRegisteredKeeps ==
  ASSUME IInv, NEW t \in Tasks, OauthRegistered(t)
  PROVE  IInv'
<1>1. op \in [Tasks -> Ops] /\ op[t].kind = "oauth" /\ op[t].at = "hub"
  BY DEF IInv, HostTypes, OauthRegistered
<1>2. op' \in [Tasks -> Ops]
  BY <1>1 DEF OauthRegistered, Ops, NoOp
<1>3. \A u \in Tasks : u # t => op'[u] = op[u]
  BY <1>1 DEF OauthRegistered
<1>4. HostTypes' /\ scanUis(disk)' = scanUis(disk)
  <2>1. HostTypes /\ (writeOauthClientFile(op[t].ui) \/ UNCHANGED disk)
    BY DEF OauthRegistered, IInv
  <2>2. scanUis(disk)' = scanUis(disk)
        /\ disk' \in [Names -> [dir : BOOLEAN, meta : Bundles \cup {None},
                               entry : Bundles \cup {None}]]
    BY <2>1, ScanIgnoresOauth
  <2> QED BY <1>2, <2>1, <2>2 DEF OauthRegistered, HostTypes, credVars
<1>5. RoutesMatchDisk'
  BY <1>1, <1>3, <1>4, RoutesKept DEF OauthRegistered, AddAwaits, IInv
<1>6. PublisherIsComing'
  <2>1. CASE published' = registered
    BY <2>1 DEF OauthRegistered, PublisherIsComing
  <2>2. CASE UNCHANGED published
    BY <1>1, <1>3, <2>2 DEF OauthRegistered, IInv, PublisherIsComing
  <2> QED BY <2>1, <2>2 DEF OauthRegistered
<1> QED BY <1>4, <1>5, <1>6 DEF IInv

\* A handler that leaves services.json as it is has not changed the registry:
\* if somebody else has, that handler is still to come.
LEMMA FinishKeeps ==
  ASSUME IInv, NEW t \in Tasks, Finish(t)
  PROVE  IInv'
<1>1. op \in [Tasks -> Ops] /\ op[t].at = "tail"
  BY DEF IInv, HostTypes, Finish
<1>2. op' \in [Tasks -> Ops]
  BY <1>1 DEF Finish, Ops, NoOp
<1>3. \A u \in Tasks : u # t => op'[u] = op[u]
  BY <1>1 DEF Finish
<1>4. HostTypes'
  BY <1>2 DEF Finish, IInv, HostTypes
<1>5. RoutesMatchDisk'
  BY <1>1, <1>3, RoutesKept DEF Finish, AddAwaits, IInv, scanUis
<1>6. PublisherIsComing'
  <2>1. CASE published' = registered
    BY <2>1 DEF Finish, PublisherIsComing
  <2>2. CASE published' # registered
    <3>1. op[t].kind \notin {"add", "delete", "reload"} /\ UNCHANGED published
      BY <2>2 DEF Finish
    <3> QED BY <3>1, <1>3 DEF Finish, IInv, PublisherIsComing
  <2> QED BY <2>1, <2>2
<1> QED BY <1>4, <1>5, <1>6 DEF IInv

\* PATCH of the audience and a git push rescan and publish in one go.
LEMMA RepublishKeeps ==
  ASSUME IInv, NEW n \in Names, PatchUi(n) \/ \E b \in Bundles : GitPushed(n, b)
  PROVE  IInv'
<1>1. CASE PatchUi(n)
  <2>1. HostTypes'
    BY <1>1 DEF PatchUi, IInv, HostTypes, credVars
  <2>2. RoutesMatchDisk'
    BY <1>1, RoutesRescanned DEF PatchUi, scanUis
  <2> QED BY <1>1, <2>1, <2>2 DEF PatchUi, IInv, PublisherIsComing
<1>2. ASSUME NEW b \in Bundles, GitPushed(n, b)
      PROVE  IInv'
  <2>1. disk' = [disk EXCEPT ![n] = [disk[n] EXCEPT !.dir = TRUE, !.meta = b]]
    BY <1>2 DEF GitPushed
  <2>2. [disk[n] EXCEPT !.dir = TRUE, !.meta = b] \in
          [dir : BOOLEAN, meta : Bundles \cup {None}, entry : Bundles \cup {None}]
    BY DEF IInv, HostTypes
  <2>3. HostTypes'
    <3> DEFINE Dir == [dir : BOOLEAN, meta : Bundles \cup {None}, entry : Bundles \cup {None}]
               d == [disk[n] EXCEPT !.dir = TRUE, !.meta = b]
    <3>1. disk \in [Names -> Dir] /\ d \in Dir /\ disk' = [disk EXCEPT ![n] = d]
      BY <2>1, <2>2 DEF IInv, HostTypes
    <3> HIDE DEF Dir, d
    <3>2. disk' \in [Names -> Dir]
      BY <3>1
    <3>3. op' = op /\ stored' = stored /\ binding' = binding
      BY <1>2 DEF GitPushed, credVars
    <3> USE DEF Dir
    <3> QED BY <3>2, <3>3 DEF IInv, HostTypes
  <2>4. RoutesMatchDisk'
    BY <1>2, RoutesRescanned DEF GitPushed
  <2> QED BY <1>2, <2>3, <2>4 DEF GitPushed, IInv, PublisherIsComing
<1> QED BY <1>1, <1>2

\* A step that leaves disk, registry, services.json and handlers alone.
LEMMA QuietStepKeeps ==
  ASSUME IInv, UNCHANGED <<credVars, disk, registered, published, op, halfway>>
  PROVE  IInv'
BY DEF IInv, HostTypes, RoutesMatchDisk, PublisherIsComing, scanUis, credVars

\* Every step keeps the invariant.
LEMMA NextKeeps ==
  ASSUME IInv, [Next]_vars
  PROVE  IInv'
<1>1. ASSUME NEW t \in Tasks, Continue(t)
      PROVE  IInv'
  BY <1>1, AddMountsKeeps, AddBreaksOffKeeps, DeleteUnmountsKeeps, DeleteRemovesKeeps,
     OauthRegisteredKeeps, FinishKeeps, QuietStepKeeps DEF Continue
<1>2. CASE UNCHANGED vars
  BY <1>2, QuietStepKeeps DEF vars
<1> QED BY <1>1, <1>2, StartKeeps, RepublishKeeps, QuietStepKeeps DEF Next

\* The invariant of the registry holds in every state.
LEMMA Invariance == Spec => []IInv
BY InitHolds, NextKeeps, PTL DEF Spec

\* The registry the HTTP server routes by differs from what is installed only
\* while an add awaits its OAuth registration, or after it broke off there, for
\* every set of surfaces and handlers.
THEOREM RoutesFollowDisk == Spec => []RoutesMatchDisk
<1>1. IInv => RoutesMatchDisk
  BY DEF IInv
<1> QED BY <1>1, Invariance, PTL

\* With no handler in flight services.json lists what is registered.
THEOREM ManifestFollowsRegistry == Spec => []ManifestIsCurrent
<1>1. IInv => ManifestIsCurrent
  BY DEF IInv, PublisherIsComing, ManifestIsCurrent, Quiet
<1> QED BY <1>1, Invariance, PTL

-----------------------------------------------------------------------------
(* The supervisor: what a call, a record and the map may be                 *)

\* A step of a plan.
PlanSteps ==
  [do : {"unmount", "mount", "set", "reconcile", "ensure", "retry"},
   ui : Names, with : Bundles \cup {None}, gen : Nat]

Mounting(t) == call[t].at \in {"import", "factory"}

\* The types of the supervisor's state.
SupervisorTypes ==
  /\ recs \in Seq(Records)
  /\ mounts \in [Names -> 0..Len(recs)]
  /\ call \in [Tasks -> Calls]
  /\ sockets \in [Names -> 0..MaxInflight]

\* The map leads from a name to a record of that name.
MountsAreOwn == \A n \in Names : mounts[n] # 0 => recs[mounts[n]].ui = n

\* A mount that awaits its import or its factory has a record of its own, which
\* has no backend yet.
MountsInHand ==
  /\ \A t \in Tasks : Mounting(t) => /\ call[t].gen \in DOMAIN recs
                                     /\ recs[call[t].gen].code = None
  /\ \A t, u \in Tasks : Mounting(t) /\ Mounting(u) /\ t # u => call[t].gen # call[u].gen

\* What the map says is there.
MapSound ==
  recs \in Seq(Records) /\ mounts \in [Names -> 0..Len(recs)] /\ MountsAreOwn

\* The invariant of the supervisor.
SupInv == SupervisorTypes /\ MountsAreOwn /\ MountsInHand

\* What QuarantineHolds says of a step.
LiftsNone ==
  \A n \in Names : LET g == mounts[n] IN
    g # 0 /\ recs[g].status = "backend-disabled" /\ recs[g].code # None /\ mounts'[n] = g
      => recs'[g].status = "backend-disabled"

\* The status of a mounted record goes with its failure window.
Fits(r) ==
  /\ r.status = "failing" => r.failures \in 1..(CrashLoopMax - 1)
  /\ r.code # None => r.status \in {"active", "failing", "backend-disabled"}

StatusesFit == \A n \in Names : mounts[n] # 0 => Fits(recs[mounts[n]])

\* A step lifts no quarantine and keeps the statuses fitting.
QuarantineKept == LiftsNone /\ (StatusesFit => StatusesFit')

\* A step of the traffic neither makes nor ends a mount, nor gives a record another backend.
CodesKept ==
  UNCHANGED <<mounts, call>> /\ \A k \in DOMAIN recs : recs'[k].code = recs[k].code

-----------------------------------------------------------------------------
(* Plans                                                                    *)

\* A function on an initial segment is a sequence.
LEMMA SegmentIsSeq ==
  ASSUME NEW S, NEW n \in Nat, NEW f \in [1..n -> S]
  PROVE  f \in Seq(S)
OBVIOUS

\* A finite set can be written down.
LEMMA SetWrittenDown ==
  ASSUME NEW S, IsFiniteSet(S)
  PROVE  /\ Cardinality(S) \in Nat
         /\ SetToSeq(S) \in [1..Cardinality(S) -> S]
<1>1. Cardinality(S) \in Nat /\ ExistsBijection(1..Cardinality(S), S)
  BY FS_CardinalityType
<1>2. PICK f : f \in [1..Cardinality(S) -> S] /\ IsInjective(f)
  BY <1>1 DEF ExistsBijection, Bijection, Injection
<1> QED BY <1>1, <1>2 DEF SetToSeq

\* Names in the map can be ordered by their generations: a name comes at the
\* place that counts the names not younger than it.
LEMMA OrderedByAge ==
  ASSUME MapSound, NEW S \in SUBSET Names
  PROVE  /\ Cardinality(S) \in Nat
         /\ (\A n \in S : mounts[n] # 0) =>
              /\ OldestFirst(S) \in [1..Cardinality(S) -> S]
              /\ \A x \in S : \E i \in 1..Cardinality(S) : OldestFirst(S)[i] = x
<1> DEFINE N == Cardinality(S)
           upto(x) == {y \in S : mounts[y] <= mounts[x]}
           rank == [x \in S |-> Cardinality(upto(x))]
<1>1. IsFiniteSet(S) /\ N \in Nat
  BY FS_Subset, FS_CardinalityType, SupervisorAssumption
<1> SUFFICES ASSUME \A n \in S : mounts[n] # 0
             PROVE  /\ OldestFirst(S) \in [1..N -> S]
                    /\ \A x \in S : \E i \in 1..N : OldestFirst(S)[i] = x
  BY <1>1
<1>2. /\ \A x \in S : mounts[x] \in Nat
      /\ \A x, y \in S : mounts[x] = mounts[y] => x = y
  BY DEF MapSound, MountsAreOwn
<1>3. \A x \in S : /\ IsFiniteSet(upto(x)) /\ Cardinality(upto(x)) \in 1..N
  <2> SUFFICES ASSUME NEW x \in S
               PROVE  IsFiniteSet(upto(x)) /\ Cardinality(upto(x)) \in 1..N
    OBVIOUS
  <2>1. upto(x) \in SUBSET S /\ x \in upto(x)
    BY <1>2
  <2> HIDE DEF upto
  <2>2. IsFiniteSet(upto(x)) /\ Cardinality(upto(x)) <= N
    BY <1>1, <2>1, FS_Subset
  <2>3. Cardinality(upto(x)) \in Nat /\ Cardinality(upto(x)) # 0
    BY <2>1, <2>2, FS_CardinalityType, FS_EmptySet
  <2> QED BY <1>1, <2>2, <2>3
<1>4. \A x, y \in S : mounts[x] < mounts[y] => rank[x] < rank[y]
  <2> SUFFICES ASSUME NEW x \in S, NEW y \in S, mounts[x] < mounts[y]
               PROVE  Cardinality(upto(x)) < Cardinality(upto(y))
    OBVIOUS
  <2>1. upto(x) \in SUBSET upto(y) /\ y \in upto(y) /\ y \notin upto(x)
    BY <1>2
  <2>2. IsFiniteSet(upto(y)) /\ Cardinality(upto(y)) \in Nat /\ Cardinality(upto(x)) \in Nat
    BY <1>3
  <2> HIDE DEF upto
  <2>3. Cardinality(upto(x)) <= Cardinality(upto(y)) /\ Cardinality(upto(x)) # Cardinality(upto(y))
    BY <2>1, <2>2, FS_Subset
  <2> QED BY <2>2, <2>3
<1>5. rank \in [S -> 1..N]
  BY <1>3
<1> HIDE DEF rank
<1>6. \A x, y \in S : rank[x] = rank[y] => x = y
  <2> SUFFICES ASSUME NEW x \in S, NEW y \in S, rank[x] = rank[y], x # y
               PROVE  FALSE
    OBVIOUS
  <2>1. mounts[x] < mounts[y] \/ mounts[y] < mounts[x]
    BY <1>2
  <2>2. rank[x] \in 1..N /\ rank[y] \in 1..N
    BY <1>5
  <2> QED BY <1>1, <1>4, <2>1, <2>2
<1>7. rank \in Injection(S, 1..N)
  BY <1>5, <1>6 DEF Injection, IsInjective
<1>8. rank \in Surjection(S, 1..N)
  <2>1. IsFiniteSet(1..N) /\ Cardinality(1..N) = N
    BY <1>1, FS_Interval
  <2> QED BY <1>7, <2>1, FS_Injection
<1>9. \A i \in 1..N : \E x \in S : rank[x] = i
  BY <1>8 DEF Surjection
<1> DEFINE names == [i \in 1..N |-> CHOOSE x \in S : rank[x] = i]
<1>10. /\ names \in [1..N -> S]
       /\ \A i \in 1..N : rank[names[i]] = i
  BY <1>9
<1> HIDE DEF names
<1>11. \A i, j \in 1..N : i # j => names[i] # names[j]
  BY <1>10
<1>12. \A i, j \in 1..N : i < j => mounts[names[i]] < mounts[names[j]]
  <2> SUFFICES ASSUME NEW i \in 1..N, NEW j \in 1..N, i < j
               PROVE  mounts[names[i]] < mounts[names[j]]
    OBVIOUS
  <2>1. names[i] \in S /\ names[j] \in S /\ rank[names[i]] = i /\ rank[names[j]] = j
    BY <1>10
  <2>2. ~ (mounts[names[j]] < mounts[names[i]])
    BY <1>1, <1>4, <2>1
  <2>3. mounts[names[i]] # mounts[names[j]]
    BY <1>1, <1>2, <2>1
  <2> QED BY <1>2, <2>1, <2>2, <2>3
<1>13. /\ names \in SetToSeqs(S)
       /\ \A i, j \in DOMAIN names : i < j => mounts[names[i]] < mounts[names[j]]
  BY <1>10, <1>11, <1>12 DEF SetToSeqs
<1>14. OldestFirst(S) \in SetToSeqs(S)
  BY <1>13 DEF OldestFirst
<1> DEFINE oldest == OldestFirst(S)
<1>15. oldest \in [1..N -> S] /\ \A i, j \in 1..N : i # j => oldest[i] # oldest[j]
  BY <1>14 DEF SetToSeqs
<1> HIDE DEF oldest
<1>16. oldest \in Surjection(1..N, S)
  <2>1. oldest \in Injection(1..N, S)
    BY <1>15 DEF Injection, IsInjective
  <2>2. IsFiniteSet(1..N) /\ Cardinality(1..N) = N
    BY <1>1, FS_Interval
  <2> QED BY <1>1, <2>1, <2>2, FS_Injection
<1>17. \A x \in S : \E i \in 1..N : oldest[i] = x
  BY <1>16 DEF Surjection
<1> QED BY <1>15, <1>17 DEF oldest

\* What a registry may be.
Metas == [Names -> Bundles \cup {None}]

\* Surfaces can be put into some order.
LEMMA NamesWrittenDown ==
  ASSUME NEW S \in SUBSET Names
  PROVE  /\ Cardinality(S) \in Nat
         /\ NamesOf(S) \in [1..Cardinality(S) -> S]
<1>1. IsFiniteSet(S)
  BY FS_Subset, SupervisorAssumption
<1> QED BY <1>1, SetWrittenDown DEF NamesOf

\* A sync is a plan: of the names in the map and of those wanted.
LEMMA SyncPlanTyped ==
  ASSUME MapSound, NEW uis \in Metas
  PROVE  syncPlan(uis) \in Seq(PlanSteps)
<1> DEFINE M == {n \in Names : mounts[n] # 0}
           W == {n \in Names : BackedBundle(uis[n])}
           a == OldestFirst(M)
           b == NamesOf(W)
           s == Steps(a, LAMBDA n : Step("reconcile", n, uis[n], 0))
           t == Steps(b, LAMBDA n : Step("ensure", n, uis[n], 0))
<1>1. a \in [1..Cardinality(M) -> Names] /\ Cardinality(M) \in Nat
  BY OrderedByAge
<1>2. b \in [1..Cardinality(W) -> Names] /\ Cardinality(W) \in Nat
  BY NamesWrittenDown
<1>3. s = [i \in DOMAIN a |-> Step("reconcile", a[i], uis[a[i]], 0)]
  BY DEF Steps
<1>4. t = [i \in DOMAIN b |-> Step("ensure", b[i], uis[b[i]], 0)]
  BY DEF Steps
<1>5. \A n \in Names, do \in {"reconcile", "ensure"} : Step(do, n, uis[n], 0) \in PlanSteps
  BY DEF Step, PlanSteps, Metas
<1> HIDE DEF a, b, M, W
<1>6. s \in [1..Cardinality(M) -> PlanSteps]
  BY <1>1, <1>3, <1>5
<1>7. t \in [1..Cardinality(W) -> PlanSteps]
  BY <1>2, <1>4, <1>5
<1> HIDE DEF s, t
<1>8. s \in Seq(PlanSteps) /\ t \in Seq(PlanSteps)
  BY <1>1, <1>2, <1>6, <1>7, SegmentIsSeq
<1>9. syncPlan(uis) = s \o t
  BY DEF syncPlan, s, t, a, b, M, W
<1> QED BY <1>8, <1>9, ConcatProperties

\* So is a reload,
LEMMA ReloadPlanTyped ==
  ASSUME NEW n \in Names, NEW b \in Bundles \cup {None}
  PROVE  reloadPlan(n, b) \in Seq(PlanSteps)
<1>1. Step("unmount", n, None, 0) \in PlanSteps /\ Step("mount", n, b, 0) \in PlanSteps
  BY DEF Step, PlanSteps
<1> QED BY <1>1 DEF reloadPlan

\* and the retry of the deferred mounts.
LEMMA RetryPlanTyped ==
  ASSUME SupInv, NEW uis \in Metas
  PROVE  retryPlan(uis) \in Seq(PlanSteps)
<1> DEFINE W == {n \in Names : mounts[n] # 0 /\ BackedBundle(uis[n])}
           b == NamesOf(W)
<1>1. b \in [1..Cardinality(W) -> Names] /\ Cardinality(W) \in Nat
  BY NamesWrittenDown
<1>2. retryPlan(uis) = [i \in DOMAIN b |-> Step("retry", b[i], uis[b[i]], mounts[b[i]])]
  BY DEF retryPlan, Steps
<1>3. \A n \in Names : Step("retry", n, uis[n], mounts[n]) \in PlanSteps
  BY DEF Step, PlanSteps, Metas, SupInv, SupervisorTypes
<1> HIDE DEF b, W
<1>4. retryPlan(uis) \in [1..Cardinality(W) -> PlanSteps]
  BY <1>1, <1>2, <1>3
<1> QED BY <1>1, <1>4, SegmentIsSeq

\* A nonempty set of positions has a first one.
LEMMA FirstOf ==
  ASSUME NEW n \in Nat, NEW S, S \subseteq 1..n, S # {}
  PROVE  \E m \in S : \A k \in S : m <= k
<1> DEFINE R == StrictSubsetOrdering(Nat)
           T == {1..k : k \in S}
<1>1. IsWellFoundedOn(R, FiniteSubsetsOf(Nat))
  BY FS_StrictSubsetOrderingWellFounded
<1>2. \A k \in S : 1..k \subseteq Nat /\ IsFiniteSet(1..k)
  <2>1. \A k \in S : k \in Int
    OBVIOUS
  <2>2. \A a, b \in Int : IsFiniteSet(a..b)
    BY FS_Interval
  <2> QED BY <2>1, <2>2
<1>3. T \subseteq FiniteSubsetsOf(Nat) /\ T # {}
  BY <1>2 DEF FiniteSubsetsOf
<1> HIDE DEF R, T
<1>4. PICK I \in T : \A J \in T : ~ (<<J, I>> \in R)
  BY <1>1, <1>3, WFMin
<1>5. PICK m \in S : I = 1..m
  BY <1>4 DEF T
<1>6. ASSUME NEW k \in S, k < m
      PROVE  FALSE
  <2>1. 1..k \in T /\ 1..k \subseteq 1..m /\ m \in 1..m /\ m \notin 1..k
    BY <1>6 DEF T
  <2>2. <<1..k, I>> \in R
    BY <2>1, <1>2, <1>5 DEF R, StrictSubsetOrdering, FiniteSubsetsOf
  <2> QED BY <1>4, <2>1, <2>2
<1> QED BY <1>6

\* What is left of a plan is a plan.
LEMMA PendingTyped ==
  ASSUME NEW plan \in Seq(PlanSteps)
  PROVE  Pending(plan) \in Seq(PlanSteps)
<1> DEFINE live == {i \in DOMAIN plan : ~ Moot(plan[i])}
<1>1. CASE live = {}
  BY <1>1 DEF Pending
<1>2. CASE live # {}
  <2> DEFINE i0 == CHOOSE i \in live : \A j \in live : i <= j
  <2>1. live \subseteq 1..Len(plan) /\ Len(plan) \in Nat
    OBVIOUS
  <2> HIDE DEF live
  <2>2. \E i \in live : \A j \in live : i <= j
    BY <1>2, <2>1, FirstOf
  <2>3. i0 \in live
    BY <2>2
  <2>4. Pending(plan) = SubSeq(plan, i0, Len(plan))
    BY <1>2 DEF Pending, live
  <2> HIDE DEF i0
  <2> QED BY <2>1, <2>3, <2>4, SubSeqProperties
<1> QED BY <1>1, <1>2

-----------------------------------------------------------------------------
(* One stretch of a supervisor call                                         *)

\* Two names never share a record.
LEMMA RecordsAreOwn ==
  ASSUME SupInv, NEW m \in Names, NEW n \in Names, mounts[m] # 0, mounts[m] = mounts[n]
  PROVE  m = n
BY DEF SupInv, MountsAreOwn

\* Other tasks keep the records they wait for when no code is put into them.
LEMMA HandsKept ==
  ASSUME SupInv, DOMAIN recs \subseteq DOMAIN recs',
         NEW t \in Tasks,
         \A u \in Tasks : u # t => call'[u] = call[u],
         \A g \in DOMAIN recs :
           recs'[g].code = recs[g].code \/ (Mounting(t) /\ g = call[t].gen),
         Mounting(t)' => /\ call'[t].gen \in DOMAIN recs' /\ recs'[call'[t].gen].code = None
                         /\ call'[t].gen \notin DOMAIN recs
                              \/ (Mounting(t) /\ call'[t].gen = call[t].gen)
  PROVE  MountsInHand'
<1>1. \A u \in Tasks : u # t => (Mounting(u)' <=> Mounting(u)) /\ call'[u].gen = call[u].gen
  BY DEF Mounting
<1>2. MountsInHand
  BY DEF SupInv
<1>3. ASSUME NEW u \in Tasks, u # t, Mounting(u)'
      PROVE  call'[u].gen \in DOMAIN recs' /\ recs'[call'[u].gen].code = None
  BY <1>1, <1>2, <1>3 DEF MountsInHand
<1>4. ASSUME NEW u \in Tasks, NEW w \in Tasks, Mounting(u)', Mounting(w)', u # w
      PROVE  call'[u].gen # call'[w].gen
  BY <1>1, <1>2, <1>4 DEF MountsInHand
<1> QED BY <1>3, <1>4 DEF MountsInHand, Mounting

\* A record is replaced by one of the same name; whoever mounts still has none
\* but his own.
LEMMA RecordReplaced ==
  ASSUME SupInv, NEW g \in DOMAIN recs, NEW r \in Records,
         recs' = [recs EXCEPT ![g] = r], r.ui = recs[g].ui,
         \A n \in Names : mounts'[n] \in {0, mounts[n]},
         mounts' \in [Names -> Nat],
         call' \in [Tasks -> Calls], sockets' \in [Names -> 0..MaxInflight],
         MountsInHand'
  PROVE  SupInv'
<1>1. /\ recs' \in Seq(Records) /\ Len(recs') = Len(recs)
      /\ \A k \in 1..Len(recs) : recs'[k] = IF k = g THEN r ELSE recs[k]
  BY ExceptSeq DEF SupInv, SupervisorTypes
<1>2. mounts' \in [Names -> 0..Len(recs')]
  <2>1. mounts \in [Names -> 0..Len(recs)] /\ Len(recs) \in Nat
    BY DEF SupInv, SupervisorTypes
  <2>2. ASSUME NEW n \in Names
        PROVE  mounts'[n] \in 0..Len(recs)
    <3>1. mounts[n] \in 0..Len(recs) /\ mounts'[n] \in {0, mounts[n]}
      BY <2>1
    <3> QED BY <2>1, <3>1
  <2> QED BY <1>1, <2>2
<1>3. MountsAreOwn'
  <2> SUFFICES ASSUME NEW n \in Names, mounts'[n] # 0
               PROVE  recs'[mounts'[n]].ui = n
    BY DEF MountsAreOwn
  <2>1. mounts'[n] = mounts[n] /\ mounts[n] \in 1..Len(recs) /\ recs[mounts[n]].ui = n
    BY DEF SupInv, SupervisorTypes, MountsAreOwn
  <2> QED BY <1>1, <2>1
<1> QED BY <1>1, <1>2, <1>3 DEF SupInv, SupervisorTypes

\* What a supervisor call does up to its next await: it is over, or a record
\* leaves the map, or a new one is entered.
LEMMA ProceedKinds ==
  ASSUME NEW t \in Tasks, NEW plan \in Seq(PlanSteps), Proceed(t, plan)
  PROVE  \/ /\ call' = [call EXCEPT ![t] = [Idle EXCEPT !.at = "done"]]
            /\ UNCHANGED <<mounts, recs>>
         \/ \E n \in Names, rest \in Seq(PlanSteps) : unmount(t, n, rest)
         \/ \E n \in Names, b \in Bundles \cup {None}, rest \in Seq(PlanSteps) :
              enter(t, n, b, rest)
<1> DEFINE todo == Pending(plan)
           s == Head(todo)
<1>1. todo \in Seq(PlanSteps)
  BY PendingTyped
<1>2. CASE todo = <<>>
  BY <1>2 DEF Proceed
<1>3. CASE todo # <<>>
  <2>1. s \in PlanSteps /\ Tail(todo) \in Seq(PlanSteps)
    BY <1>1, <1>3, HeadTailProperties
  <2>2. s.ui \in Names /\ s.with \in Bundles \cup {None}
    BY <2>1 DEF PlanSteps
  <2>3. CASE s.do \in {"unmount", "reconcile"}
    <3>1. unmount(t, s.ui, Tail(todo))
      BY <1>3, <2>3 DEF Proceed
    <3> QED BY <2>1, <2>2, <3>1
  <2>4. CASE s.do = "set"
    <3>1. enter(t, s.ui, s.with, Tail(todo))
      BY <1>3, <2>4 DEF Proceed
    <3> QED BY <2>1, <2>2, <3>1
  <2>5. CASE s.do \notin {"unmount", "reconcile", "set"}
    <3>1. mount(t, s.ui, s.with, Tail(todo))
      BY <1>3, <2>5 DEF Proceed
    <3>2. CASE mounts[s.ui] # 0
      <4>1. <<Step("set", s.ui, s.with, 0)>> \in Seq(PlanSteps)
        BY <2>2 DEF Step, PlanSteps
      <4>2. <<Step("set", s.ui, s.with, 0)>> \o Tail(todo) \in Seq(PlanSteps)
        BY <2>1, <4>1, ConcatProperties
      <4>3. unmount(t, s.ui, <<Step("set", s.ui, s.with, 0)>> \o Tail(todo))
        BY <3>1, <3>2 DEF mount
      <4> QED BY <2>2, <4>2, <4>3
    <3>3. CASE mounts[s.ui] = 0
      <4>1. enter(t, s.ui, s.with, Tail(todo))
        BY <3>1, <3>3 DEF mount
      <4> QED BY <2>1, <2>2, <4>1
    <3> QED BY <3>2, <3>3
  <2> QED BY <2>3, <2>4, <2>5
<1> QED BY <1>2, <1>3

\* What a task may be at between two stretches of a call.
LEMMA CallsTyped ==
  ASSUME NEW rest \in Seq(PlanSteps), NEW at \in {"next", "unmount", "done", "import"},
         NEW g \in Nat
  PROVE  /\ [Idle EXCEPT !.at = at, !.plan = rest, !.gen = g] \in Calls
         /\ [Idle EXCEPT !.at = at, !.plan = rest] \in Calls
         /\ [Idle EXCEPT !.at = at] \in Calls
<1> DEFINE P == Seq(PlanSteps)
<1>1. Calls = [at : {"idle", "next", "unmount", "import", "factory", "done"}, gen : Nat,
               code : Bundles \cup {None}, plan : P]
  BY Zenon DEF Calls, PlanSteps
<1>2. <<>> \in P /\ rest \in P
  OBVIOUS
<1> HIDE DEF P
<1> QED BY <1>1, <1>2 DEF Idle

\* A call that does not wait for an import.
LEMMA WaitingCall ==
  ASSUME SupInv, NEW t \in Tasks, NEW c \in Calls, c.at \notin {"import", "factory"},
         call' = [call EXCEPT ![t] = c]
  PROVE  /\ call' \in [Tasks -> Calls] /\ ~ Mounting(t)'
         /\ \A u \in Tasks : u # t => call'[u] = call[u]
<1>1. call \in [Tasks -> Calls]
  BY DEF SupInv, SupervisorTypes
<1>2. /\ call' \in [Tasks -> Calls] /\ call'[t] = c
      /\ \A u \in Tasks : u # t => call'[u] = call[u]
  BY <1>1
<1> QED BY <1>2 DEF Mounting

\* The fields of a record that left the map.
LEMMA RetiredTyped ==
  ASSUME NEW q \in Records
  PROVE  /\ Retired(q) \in Records
         /\ Retired(q).ui = q.ui /\ Retired(q).code = q.code
<1>1. /\ q.status \in Statuses /\ q.store \in {"none", "open", "closed"}
      /\ 0 \in Nat /\ 0 \in 0..MaxInflight
  BY SupervisorAssumption DEF Records
<1> DEFINE st == IF q.status = "pending-credential" THEN q.status ELSE "backend-error"
           so == IF q.store = "open" THEN "closed" ELSE q.store
<1>2. st \in Statuses /\ so \in {"none", "open", "closed"}
  BY <1>1 DEF Statuses
<1>3. Retired(q) = [q EXCEPT !.aborted = TRUE, !.spec = None, !.failures = 0,
                             !.requests = 0, !.status = st, !.store = so]
  BY Zenon DEF Retired
<1> HIDE DEF st, so
<1> QED BY <1>1, <1>2, <1>3 DEF Records

\* A record leaves the map: no other name had it.
LEMMA UnmountKeeps ==
  ASSUME SupInv, NEW t \in Tasks, NEW n \in Names, NEW rest \in Seq(PlanSteps),
         unmount(t, n, rest), UNCHANGED sockets
  PROVE  SupInv' /\ QuarantineKept
<1> DEFINE g == mounts[n]
           r == Retired(recs[g])
<1>1. /\ call' \in [Tasks -> Calls] /\ ~ Mounting(t)'
      /\ \A u \in Tasks : u # t => call'[u] = call[u]
  <2> DEFINE c == [Idle EXCEPT !.at = "unmount", !.plan = rest]
  <2>1. call' = [call EXCEPT ![t] = c] /\ c \in Calls /\ c.at = "unmount"
    BY CallsTyped, 0 \in Nat DEF unmount, Idle
  <2> HIDE DEF c
  <2> QED BY <2>1, WaitingCall
<1>2. /\ mounts' = [mounts EXCEPT ![n] = 0] /\ recs' = [recs EXCEPT ![g] = r]
      /\ mounts \in [Names -> 0..Len(recs)] /\ recs \in Seq(Records)
      /\ sockets' \in [Names -> 0..MaxInflight]
  BY DEF unmount, SupInv, SupervisorTypes
<1>3. /\ mounts' \in [Names -> Nat] /\ mounts'[n] = 0
      /\ \A m \in Names : m # n => mounts'[m] = mounts[m]
  BY <1>2
<1>4. CASE g = 0
  <2>1. recs' = recs
    BY <1>2, <1>4
  <2>2. MountsInHand'
    BY <1>1, <2>1, HandsKept
  <2>3. mounts' = mounts
    BY <1>2, <1>4
  <2>4. SupInv'
    BY <1>1, <1>2, <2>1, <2>2, <2>3 DEF SupInv, SupervisorTypes, MountsAreOwn
  <2> QED BY <2>1, <2>3, <2>4 DEF QuarantineKept, LiftsNone, StatusesFit
<1>5. CASE g # 0
  <2>1. g \in DOMAIN recs /\ recs[g] \in Records
    BY <1>2, <1>5
  <2>2. r \in Records /\ r.ui = recs[g].ui /\ r.code = recs[g].code
    BY <2>1, RetiredTyped
  <2> HIDE DEF r
  <2>3. \A k \in DOMAIN recs : recs'[k] = IF k = g THEN r ELSE recs[k]
    BY <1>2, <2>1, ExceptSeq
  <2>4. MountsInHand'
    <3>1. DOMAIN recs' = DOMAIN recs /\ \A k \in DOMAIN recs : recs'[k].code = recs[k].code
      BY <1>2, <2>2, <2>3
    <3> QED BY <1>1, <3>1, HandsKept
  <2>5. SupInv'
    <3>1. \A m \in Names : mounts'[m] \in {0, mounts[m]}
      BY <1>3
    <3> QED BY <1>1, <1>2, <1>3, <2>1, <2>2, <2>4, <3>1, RecordReplaced
  <2>6. ASSUME NEW m \in Names, mounts[m] # 0, mounts'[m] # 0
        PROVE  mounts'[m] = mounts[m] /\ recs'[mounts[m]] = recs[mounts[m]]
    <3>1. m # n /\ mounts[m] # g /\ mounts[m] \in DOMAIN recs
      BY <1>2, <1>3, <2>6, RecordsAreOwn
    <3> QED BY <1>3, <2>3, <3>1
  <2>7. LiftsNone
    BY <2>6 DEF LiftsNone
  <2>8. ASSUME NEW m \in Names, mounts'[m] # 0 PROVE mounts[m] # 0
    BY <1>3, <2>8
  <2>9. StatusesFit => StatusesFit'
    BY <2>6, <2>8 DEF StatusesFit
  <2> QED BY <2>5, <2>7, <2>9 DEF QuarantineKept
<1> QED BY <1>4, <1>5

\* A new record is entered: nobody waits for it but the task that made it.
LEMMA EnterKeeps ==
  ASSUME SupInv, NEW t \in Tasks, NEW n \in Names, NEW b \in Bundles \cup {None},
         NEW rest \in Seq(PlanSteps), enter(t, n, b, rest), UNCHANGED sockets
  PROVE  SupInv' /\ QuarantineKept
<1> DEFINE g == Len(recs) + 1
           missing == disk[n].entry = None
           deferred == ~ missing /\ ~ mountSpecOpen(n, b)
           r == Record(n, b, IF deferred THEN "pending-credential" ELSE "backend-error")
           c == IF missing \/ deferred THEN [Idle EXCEPT !.at = "next", !.plan = rest]
                ELSE [Idle EXCEPT !.at = "import", !.plan = rest, !.gen = g]
<1>1. /\ mounts' = [mounts EXCEPT ![n] = g] /\ recs' = Append(recs, r)
      /\ call' = [call EXCEPT ![t] = c]
  BY DEF enter
<1>2. /\ mounts \in [Names -> 0..Len(recs)] /\ recs \in Seq(Records)
      /\ call \in [Tasks -> Calls] /\ Len(recs) \in Nat /\ DOMAIN recs = 1..Len(recs)
      /\ sockets' \in [Names -> 0..MaxInflight]
  BY DEF SupInv, SupervisorTypes
<1>3. r \in Records /\ r.ui = n /\ r.code = None /\ Fits(r)
  BY SupervisorAssumption DEF Record, Records, Statuses, Fits
<1>4. c \in Calls /\ (c.at \in {"import", "factory"} => c.gen = g)
  <2>1. [Idle EXCEPT !.at = "import", !.plan = rest, !.gen = g] \in Calls
    <3>1. g \in Nat
      BY <1>2
    <3> HIDE DEF g
    <3> QED BY <3>1, CallsTyped
  <2>2. [Idle EXCEPT !.at = "import", !.plan = rest, !.gen = g].gen = g
    BY DEF Idle
  <2>3. [Idle EXCEPT !.at = "next", !.plan = rest].at = "next"
    BY DEF Idle
  <2> QED BY <2>1, <2>2, <2>3, CallsTyped, 0 \in Nat
<1> HIDE DEF r, c
<1>5. /\ recs' \in Seq(Records) /\ Len(recs') = g /\ DOMAIN recs' = 1..g /\ recs'[g] = r
      /\ \A k \in 1..Len(recs) : recs'[k] = recs[k]
  BY <1>1, <1>2, <1>3, AppendProperties
<1>6. /\ mounts' \in [Names -> 0..g] /\ mounts'[n] = g
      /\ \A m \in Names : m # n => mounts'[m] = mounts[m]
  BY <1>1, <1>2
<1>7. /\ call' \in [Tasks -> Calls] /\ call'[t] = c
      /\ \A u \in Tasks : u # t => call'[u] = call[u]
  BY <1>1, <1>2, <1>4
<1>8. MountsInHand'
  <2>1. DOMAIN recs \subseteq DOMAIN recs' /\ \A k \in DOMAIN recs : recs'[k].code = recs[k].code
    BY <1>2, <1>5
  <2>2. Mounting(t)' => /\ call'[t].gen \in DOMAIN recs' /\ recs'[call'[t].gen].code = None
                        /\ call'[t].gen \notin DOMAIN recs
    BY <1>2, <1>3, <1>4, <1>5, <1>7 DEF Mounting
  <2> QED BY <1>7, <2>1, <2>2, HandsKept
<1>9. MountsAreOwn'
  <2> SUFFICES ASSUME NEW m \in Names, mounts'[m] # 0
               PROVE  recs'[mounts'[m]].ui = m
    BY DEF MountsAreOwn
  <2>1. CASE m = n
    BY <1>3, <1>5, <1>6, <2>1
  <2>2. CASE m # n
    <3>1. mounts'[m] = mounts[m] /\ mounts[m] \in 1..Len(recs) /\ recs[mounts[m]].ui = m
      BY <1>2, <1>6, <2>2 DEF SupInv, MountsAreOwn
    <3> QED BY <1>5, <3>1
  <2> QED BY <2>1, <2>2
<1>10. QuarantineKept
  <2>1. ASSUME NEW m \in Names, mounts[m] # 0
        PROVE  recs'[mounts[m]] = recs[mounts[m]]
    <3>1. mounts[m] \in 1..Len(recs)
      BY <1>2, <2>1
    <3> QED BY <1>5, <3>1
  <2>2. LiftsNone
    BY <2>1 DEF LiftsNone
  <2>3. StatusesFit => StatusesFit'
    BY <1>3, <1>5, <1>6, <2>1 DEF StatusesFit
  <2> QED BY <2>2, <2>3 DEF QuarantineKept
<1> QED
  BY <1>2, <1>5, <1>6, <1>7, <1>8, <1>9, <1>10 DEF SupInv, SupervisorTypes

\* A stretch of a supervisor call keeps the invariant and every quarantine.
LEMMA ProceedKeeps ==
  ASSUME SupInv, NEW t \in Tasks, NEW plan \in Seq(PlanSteps), Proceed(t, plan),
         UNCHANGED sockets
  PROVE  SupInv' /\ QuarantineKept
<1>1. CASE /\ call' = [call EXCEPT ![t] = [Idle EXCEPT !.at = "done"]]
           /\ UNCHANGED <<mounts, recs>>
  <2> DEFINE c == [Idle EXCEPT !.at = "done"]
  <2>1. c \in Calls /\ c.at = "done" /\ call' = [call EXCEPT ![t] = c]
    <3>1. <<>> \in Seq(PlanSteps)
      OBVIOUS
    <3> QED BY <1>1, <3>1, CallsTyped, 0 \in Nat DEF Idle
  <2> HIDE DEF c
  <2>3. /\ call' \in [Tasks -> Calls] /\ ~ Mounting(t)'
        /\ \A u \in Tasks : u # t => call'[u] = call[u]
    BY <2>1, WaitingCall
  <2>4. MountsInHand'
    BY <1>1, <2>3, HandsKept
  <2>5. SupInv'
    BY <1>1, <2>3, <2>4 DEF SupInv, SupervisorTypes, MountsAreOwn
  <2> QED BY <1>1, <2>5 DEF QuarantineKept, LiftsNone, StatusesFit
<1> QED BY <1>1, ProceedKinds, UnmountKeeps, EnterKeeps

-----------------------------------------------------------------------------
(* The awaits of a call                                                     *)

\* Records change in place, none gets or loses a backend, and no quarantine is
\* lifted.
LEMMA RecordsTouched ==
  ASSUME SupInv, recs' \in Seq(Records), Len(recs') = Len(recs),
         \A k \in DOMAIN recs :
           /\ recs'[k].ui = recs[k].ui /\ recs'[k].code = recs[k].code
           /\ recs[k].status = "backend-disabled" /\ recs[k].code # None
                => recs'[k].status = "backend-disabled"
           /\ Fits(recs[k]) => Fits(recs'[k]),
         UNCHANGED <<mounts, call>>, sockets' \in [Names -> 0..MaxInflight]
  PROVE  SupInv' /\ QuarantineKept /\ CodesKept
<1>1. /\ mounts \in [Names -> 0..Len(recs)] /\ call \in [Tasks -> Calls]
      /\ recs \in Seq(Records) /\ DOMAIN recs = 1..Len(recs) /\ DOMAIN recs' = DOMAIN recs
  BY DEF SupInv, SupervisorTypes
<1>2. SupervisorTypes'
  BY <1>1 DEF SupervisorTypes
<1>3. \A n \in Names : mounts[n] # 0 => mounts[n] \in DOMAIN recs
  BY <1>1
<1>4. MountsAreOwn'
  BY <1>3 DEF SupInv, MountsAreOwn
<1>5. MountsInHand'
  BY <1>1 DEF SupInv, MountsInHand, Mounting
<1>6. QuarantineKept
  BY <1>3 DEF QuarantineKept, LiftsNone, StatusesFit
<1> QED BY <1>2, <1>4, <1>5, <1>6 DEF SupInv, CodesKept

\* The import is over: the store opens, the backend is still to come.
LEMMA ImportKeeps ==
  ASSUME SupInv, HostTypes, NEW t \in Tasks, ImportResolves(t)
  PROVE  SupInv' /\ QuarantineKept
<1> DEFINE g == call[t].gen
           entry == disk[recs[g].ui].entry
           q == recs[g]
           r == [q EXCEPT !.store = "open"]
           c == [call[t] EXCEPT !.at = "factory", !.code = entry]
<1>1. /\ recs \in Seq(Records) /\ call \in [Tasks -> Calls] /\ mounts \in [Names -> 0..Len(recs)]
      /\ sockets \in [Names -> 0..MaxInflight] /\ Len(recs) \in Nat
  BY DEF SupInv, SupervisorTypes
<1>2. Mounting(t) /\ g \in DOMAIN recs /\ recs[g].code = None
  BY DEF ImportResolves, SupInv, MountsInHand, Mounting
<1>3. q \in Records /\ q.ui \in Names
  <2>1. q \in Records
    BY <1>1, <1>2
  <2> QED BY <2>1 DEF Records
<1>4. entry \in Bundles \cup {None}
  BY <1>3 DEF HostTypes
<1>5. /\ r \in Records /\ r.ui = q.ui /\ r.code = q.code /\ r.status = q.status
      /\ r.failures = q.failures
  BY <1>3 DEF Records
<1>6. c \in Calls /\ c.gen = g
  BY <1>1, <1>4 DEF Calls
<1>7. recs' = [recs EXCEPT ![g] = r] /\ UNCHANGED <<mounts, sockets>>
  BY DEF ImportResolves
<1>8. call' = [call EXCEPT ![t] = c]
  BY DEF ImportResolves
<1> HIDE DEF r, c
<1>9. call' \in [Tasks -> Calls] /\ call'[t] = c /\ \A u \in Tasks : u # t => call'[u] = call[u]
  BY <1>1, <1>6, <1>8
<1>10. /\ DOMAIN recs' = DOMAIN recs
       /\ \A k \in DOMAIN recs : recs'[k] = IF k = g THEN r ELSE recs[k]
  BY <1>1, <1>2, <1>7
<1>11. MountsInHand'
  BY <1>2, <1>5, <1>6, <1>9, <1>10, HandsKept
<1>12. SupInv'
  <2>1. /\ \A n \in Names : mounts'[n] \in {0, mounts[n]}
        /\ mounts' \in [Names -> Nat] /\ sockets' \in [Names -> 0..MaxInflight]
    BY <1>1, <1>7
  <2> QED BY <1>2, <1>5, <1>7, <1>9, <1>11, <2>1, RecordReplaced
<1>13. QuarantineKept
  <2>1. ASSUME NEW m \in Names, mounts[m] # 0
        PROVE  /\ recs'[mounts[m]].status = recs[mounts[m]].status
               /\ recs'[mounts[m]].code = recs[mounts[m]].code
               /\ recs'[mounts[m]].failures = recs[mounts[m]].failures
    <3>1. mounts[m] \in DOMAIN recs
      BY <1>1, <2>1
    <3> QED BY <1>5, <1>10, <3>1
  <2>2. LiftsNone
    BY <2>1 DEF LiftsNone
  <2>3. StatusesFit => StatusesFit'
    BY <1>7, <2>1 DEF StatusesFit, Fits
  <2> QED BY <2>2, <2>3 DEF QuarantineKept
<1> QED BY <1>12, <1>13

\* The record that gets the backend had none: no quarantine of a backend that
\* runs is lifted.
LEMMA FactoryKeeps ==
  ASSUME SupInv, HostTypes, NEW t \in Tasks, FactoryReturns(t)
  PROVE  SupInv' /\ QuarantineKept
<1> DEFINE g == call[t].gen
           q == recs[g]
           r == [q EXCEPT !.code = call[t].code, !.status = "active"]
           c == [Idle EXCEPT !.at = "next", !.plan = call[t].plan]
<1>1. /\ recs \in Seq(Records) /\ call \in [Tasks -> Calls] /\ mounts \in [Names -> 0..Len(recs)]
      /\ sockets \in [Names -> 0..MaxInflight] /\ Len(recs) \in Nat
  BY DEF SupInv, SupervisorTypes
<1>2. Mounting(t) /\ g \in DOMAIN recs /\ recs[g].code = None
  BY DEF FactoryReturns, SupInv, MountsInHand, Mounting
<1>3. q \in Records /\ call[t].code \in Bundles \cup {None} /\ call[t].plan \in Seq(PlanSteps)
  <2>1. q \in Records
    BY <1>1, <1>2
  <2>2. call[t] \in Calls
    BY <1>1
  <2> QED BY <2>1, <2>2 DEF Calls, PlanSteps
<1>4. r \in Records /\ r.ui = q.ui /\ Fits(r)
  BY <1>3 DEF Records, Statuses, Fits
<1>5. c \in Calls /\ c.at = "next"
  BY <1>3, CallsTyped, 0 \in Nat DEF Idle
<1>6. recs' = [recs EXCEPT ![g] = r] /\ UNCHANGED <<mounts, sockets>>
  BY DEF FactoryReturns
<1>7. call' = [call EXCEPT ![t] = c]
  BY DEF FactoryReturns
<1> HIDE DEF r, c
<1>8. /\ call' \in [Tasks -> Calls] /\ ~ Mounting(t)'
      /\ \A u \in Tasks : u # t => call'[u] = call[u]
  BY <1>5, <1>7, WaitingCall
<1>9. /\ DOMAIN recs' = DOMAIN recs
      /\ \A k \in DOMAIN recs : recs'[k] = IF k = g THEN r ELSE recs[k]
  BY <1>1, <1>2, <1>6
<1>10. MountsInHand'
  BY <1>2, <1>8, <1>9, HandsKept
<1>11. SupInv'
  <2>1. /\ \A n \in Names : mounts'[n] \in {0, mounts[n]}
        /\ mounts' \in [Names -> Nat] /\ sockets' \in [Names -> 0..MaxInflight]
    BY <1>1, <1>6
  <2> QED BY <1>2, <1>4, <1>6, <1>8, <1>10, <2>1, RecordReplaced
<1>12. QuarantineKept
  <2>1. ASSUME NEW m \in Names, mounts[m] # 0
        PROVE  recs'[mounts[m]] = IF mounts[m] = g THEN r ELSE recs[mounts[m]]
    <3>1. mounts[m] \in DOMAIN recs
      BY <1>1, <2>1
    <3> QED BY <1>9, <3>1
  <2>2. LiftsNone
    BY <1>2, <2>1 DEF LiftsNone
  <2>3. StatusesFit => StatusesFit'
    BY <1>4, <1>6, <2>1 DEF StatusesFit
  <2> QED BY <2>2, <2>3 DEF QuarantineKept
<1> QED BY <1>11, <1>12

\* A call is put aside, or another one begins: the records are left alone.
LEMMA CallReplaced ==
  ASSUME SupInv, NEW t \in Tasks, NEW c \in Calls, c.at \notin {"import", "factory"},
         call' = [call EXCEPT ![t] = c], UNCHANGED <<mounts, recs, sockets>>
  PROVE  SupInv' /\ QuarantineKept
<1>1. /\ call' \in [Tasks -> Calls] /\ ~ Mounting(t)'
      /\ \A u \in Tasks : u # t => call'[u] = call[u]
  BY WaitingCall
<1>2. MountsInHand'
  BY <1>1, HandsKept
<1> QED BY <1>1, <1>2 DEF SupInv, SupervisorTypes, MountsAreOwn, QuarantineKept, LiftsNone,
       StatusesFit

\* So do the continuations of a call.
LEMMA SupervisorKeeps ==
  ASSUME SupInv, HostTypes, NEW t \in Tasks, SupervisorStep(t)
  PROVE  SupInv' /\ QuarantineKept
<1>1. call[t].plan \in Seq(PlanSteps)
  BY DEF SupInv, SupervisorTypes, Calls, PlanSteps
<1>2. CASE Resume(t)
  BY <1>1, <1>2, ProceedKeeps DEF Resume
<1>3. CASE MountFails(t)
  <2> DEFINE c == [Idle EXCEPT !.at = "next", !.plan = call[t].plan]
  <2>1. c \in Calls /\ c.at = "next" /\ call' = [call EXCEPT ![t] = c]
    BY <1>1, <1>3, CallsTyped, 0 \in Nat DEF MountFails, Idle
  <2>2. UNCHANGED <<mounts, recs, sockets>>
    BY <1>3 DEF MountFails
  <2> HIDE DEF c
  <2> QED BY <2>1, <2>2, CallReplaced
<1> QED BY <1>2, <1>3, ImportKeeps, FactoryKeeps DEF SupervisorStep

-----------------------------------------------------------------------------
(* Traffic                                                                  *)

\* A counted failure keeps the type of a record, lifts no quarantine and imposes it
\* when the window is full.
LEMMA FailureTyped ==
  ASSUME NEW q \in Records
  PROVE  /\ recordFailure(q) \in Records
         /\ recordFailure(q).ui = q.ui /\ recordFailure(q).code = q.code
         /\ q.status = "backend-disabled" => recordFailure(q).status = "backend-disabled"
         /\ Fits(q) => Fits(recordFailure(q))
<1> DEFINE f == q.failures + 1
           st == IF q.status = "backend-disabled" THEN q.status
                 ELSE IF f >= CrashLoopMax THEN "backend-disabled"
                 ELSE IF q.code # None THEN "failing" ELSE q.status
<1>1. f \in Nat /\ f >= 1 /\ st \in Statuses /\ CrashLoopMax \in Nat
  BY SupervisorAssumption DEF Records, Statuses
<1>2. recordFailure(q) = [q EXCEPT !.failures = f, !.status = st]
  BY Zenon DEF recordFailure
<1>3. q.status = "backend-disabled" => st = "backend-disabled"
  OBVIOUS
<1>4. /\ st = "failing" => f < CrashLoopMax
      /\ q.code # None => st \in {"failing", "backend-disabled"}
  BY <1>1
<1> HIDE DEF f, st
<1>5. /\ recordFailure(q) \in Records /\ recordFailure(q).ui = q.ui
      /\ recordFailure(q).code = q.code
      /\ recordFailure(q).failures = f /\ recordFailure(q).status = st
  BY <1>1, <1>2 DEF Records
<1>6. Fits(recordFailure(q))
  BY <1>1, <1>4, <1>5 DEF Fits
<1> QED BY <1>3, <1>5, <1>6

\* One record is touched: its name, its backend and its quarantine stay, and its
\* status fits again.
LEMMA OneRecordTouched ==
  ASSUME SupInv, NEW g \in DOMAIN recs, NEW r \in Records, recs' = [recs EXCEPT ![g] = r],
         r.ui = recs[g].ui, r.code = recs[g].code,
         recs[g].status = "backend-disabled" => r.status = "backend-disabled",
         Fits(recs[g]) => Fits(r),
         UNCHANGED <<mounts, call>>, sockets' \in [Names -> 0..MaxInflight]
  PROVE  SupInv' /\ QuarantineKept /\ CodesKept
<1>1. recs \in Seq(Records)
  BY DEF SupInv, SupervisorTypes
<1>2. /\ recs' \in Seq(Records) /\ Len(recs') = Len(recs)
      /\ \A k \in DOMAIN recs : recs'[k] = IF k = g THEN r ELSE recs[k]
  BY <1>1, ExceptSeq
<1> QED BY <1>2, RecordsTouched

\* A name in the map has a record.
LEMMA MountedRecord ==
  ASSUME SupInv, NEW n \in Names, mounts[n] # 0
  PROVE  mounts[n] \in DOMAIN recs /\ recs[mounts[n]] \in Records
BY DEF SupInv, SupervisorTypes

\* Requests, the window of failures and socket events keep the invariant.
LEMMA RequestsKeep ==
  ASSUME SupInv, NEW n \in Names,
         RequestArrives(n) \/ RequestEnds(n) \/ pruneFailures(n) \/ SocketOpens(n) \/ SocketEvent(n)
  PROVE  SupInv' /\ QuarantineKept /\ CodesKept
<1> DEFINE g == mounts[n]
           q == recs[g]
<1>0. sockets \in [Names -> 0..MaxInflight] /\ MaxInflight \in Nat /\ recs \in Seq(Records)
  BY SupervisorAssumption DEF SupInv, SupervisorTypes
<1>1. CASE RequestArrives(n)
  <2>1. g \in DOMAIN recs /\ q \in Records
    BY <1>1, MountedRecord DEF RequestArrives, Serving
  <2>2. q.requests + 1 \in 0..MaxInflight
    BY <1>0, <1>1, <2>1 DEF RequestArrives, Records
  <2> DEFINE r == [q EXCEPT !.requests = q.requests + 1]
  <2>3. /\ r \in Records /\ r.ui = q.ui /\ r.code = q.code /\ r.status = q.status
        /\ Fits(q) => Fits(r)
    BY <2>1, <2>2 DEF Records, Fits
  <2>4. recs' = [recs EXCEPT ![g] = r] /\ UNCHANGED <<mounts, call, sockets>>
    BY <1>1 DEF RequestArrives
  <2> HIDE DEF r
  <2> QED BY <1>0, <2>1, <2>3, <2>4, OneRecordTouched
<1>2. CASE RequestEnds(n)
  <2>1. g \in DOMAIN recs /\ q \in Records
    BY <1>2, MountedRecord DEF RequestEnds
  <2>2. q.requests - 1 \in 0..MaxInflight
    BY <1>0, <1>2, <2>1 DEF RequestEnds, Records
  <2> DEFINE r == [q EXCEPT !.requests = q.requests - 1]
  <2>3. /\ r \in Records /\ r.ui = q.ui /\ r.code = q.code /\ r.status = q.status
        /\ Fits(q) => Fits(r)
    BY <2>1, <2>2 DEF Records, Fits
  <2>4. /\ UNCHANGED <<mounts, call, sockets>>
        /\ recs' = [recs EXCEPT ![g] = r] \/ recs' = [recs EXCEPT ![g] = recordFailure(r)]
    BY <1>2 DEF RequestEnds
  <2> HIDE DEF r
  <2>5. CASE recs' = [recs EXCEPT ![g] = r]
    BY <1>0, <2>1, <2>3, <2>4, <2>5, OneRecordTouched
  <2>6. CASE recs' = [recs EXCEPT ![g] = recordFailure(r)]
    <3> DEFINE f == recordFailure(r)
    <3>1. /\ f \in Records /\ f.ui = q.ui /\ f.code = q.code
          /\ (q.status = "backend-disabled" => f.status = "backend-disabled")
          /\ Fits(q) => Fits(f)
      BY <2>3, FailureTyped
    <3> HIDE DEF f
    <3>2. recs' = [recs EXCEPT ![g] = f]
      BY <2>6 DEF f
    <3> QED BY <1>0, <2>1, <2>4, <3>1, <3>2, OneRecordTouched
  <2> QED BY <2>4, <2>5, <2>6
<1>3. CASE pruneFailures(n)
  <2>1. g \in DOMAIN recs /\ q \in Records /\ UNCHANGED <<mounts, call, sockets>>
    BY <1>3, MountedRecord DEF pruneFailures
  <2>2. PICK f \in 0..(q.failures - 1) :
          recs' = [recs EXCEPT ![g].failures = f,
                     ![g].status = IF @ = "failing" /\ f = 0 THEN "active" ELSE @]
    BY <1>3 DEF pruneFailures
  <2> DEFINE st == IF q.status = "failing" /\ f = 0 THEN "active" ELSE q.status
             r == [q EXCEPT !.failures = f, !.status = st]
  <2>3. f \in Nat /\ f < q.failures /\ st \in Statuses /\ CrashLoopMax \in Nat
        /\ q.failures \in Nat
    BY <2>1, SupervisorAssumption DEF Records, Statuses
  <2>4. q.status = "backend-disabled" => st = "backend-disabled"
    OBVIOUS
  <2>5. recs' = [recs EXCEPT ![g] = r]
    BY <1>0, <2>1, <2>2
  <2>6. /\ st = "failing" => q.status = "failing" /\ f >= 1
        /\ q.status \in {"active", "failing", "backend-disabled"} =>
             st \in {"active", "failing", "backend-disabled"}
    BY <2>3
  <2> HIDE DEF st
  <2>7. /\ r \in Records /\ r.ui = q.ui /\ r.code = q.code /\ r.status = st
        /\ r.failures = f
    BY <2>1, <2>3 DEF Records
  <2> HIDE DEF r
  <2>8. Fits(q) => Fits(r)
    BY <2>3, <2>6, <2>7 DEF Fits
  <2> QED BY <1>0, <2>1, <2>4, <2>5, <2>7, <2>8, OneRecordTouched
<1>4. CASE SocketOpens(n)
  <2>1. sockets' \in [Names -> 0..MaxInflight]
    BY <1>0, <1>4 DEF SocketOpens
  <2> QED BY <1>0, <1>4, <2>1, RecordsTouched DEF SocketOpens
<1>5. CASE SocketEvent(n)
  <2>1. sockets' \in [Names -> 0..MaxInflight] /\ UNCHANGED <<mounts, call>>
    BY <1>0, <1>5 DEF SocketEvent
  <2>2. CASE Serving(n)
    <3>1. g \in DOMAIN recs /\ q \in Records
      BY <2>2, MountedRecord DEF Serving
    <3>2. q.events + 1 \in 0..MaxInflight
      <4>1. q.events < MaxInflight
        BY <1>5, <2>2 DEF SocketEvent
      <4>2. q.events \in 0..MaxInflight
        BY <3>1 DEF Records
      <4> QED BY <1>0, <4>1, <4>2
    <3> DEFINE r == [q EXCEPT !.events = q.events + 1]
    <3>3. /\ r \in Records /\ r.ui = q.ui /\ r.code = q.code /\ r.status = q.status
          /\ Fits(q) => Fits(r)
      BY <3>1, <3>2 DEF Records, Fits
    <3>4. recs' = [recs EXCEPT ![g] = r]
      BY <1>5, <2>2 DEF SocketEvent
    <3> HIDE DEF r
    <3> QED BY <2>1, <3>1, <3>3, <3>4, OneRecordTouched
  <2>3. CASE ~ Serving(n)
    <3>1. recs' = recs
      BY <1>5, <2>3 DEF SocketEvent
    <3> QED BY <1>0, <2>1, <3>1, RecordsTouched
  <2> QED BY <2>2, <2>3
<1> QED BY <1>1, <1>2, <1>3, <1>4, <1>5

\* A socket handler's failure counts against the record mounted now: that may be
\* another record than the one whose handler ends.
LEMMA EventKeeps ==
  ASSUME SupInv, NEW g \in DOMAIN recs, EventEnds(g)
  PROVE  SupInv' /\ QuarantineKept /\ CodesKept
<1> DEFINE q == recs[g]
           n == q.ui
           r == [q EXCEPT !.events = q.events - 1]
           ended == [recs EXCEPT ![g] = r]
           cur == mounts[n]
<1>0. /\ recs \in Seq(Records) /\ q \in Records /\ n \in Names /\ MaxInflight \in Nat
      /\ sockets \in [Names -> 0..MaxInflight] /\ UNCHANGED <<mounts, call>>
      /\ mounts \in [Names -> 0..Len(recs)]
  <2>1. /\ recs \in Seq(Records) /\ MaxInflight \in Nat
        /\ sockets \in [Names -> 0..MaxInflight] /\ UNCHANGED <<mounts, call>>
        /\ mounts \in [Names -> 0..Len(recs)]
    BY SupervisorAssumption DEF SupInv, SupervisorTypes, EventEnds
  <2>2. q \in Records
    BY <2>1
  <2>3. n \in Names
    BY <2>2 DEF Records
  <2> QED BY <2>1, <2>2, <2>3
<1>1. q.events - 1 \in 0..MaxInflight
  <2>1. q.events \in 0..MaxInflight
    BY <1>0 DEF Records
  <2>2. q.events > 0
    BY DEF EventEnds
  <2> QED BY <1>0, <2>1, <2>2
<1>2. /\ r \in Records /\ r.ui = q.ui /\ r.code = q.code /\ r.status = q.status
      /\ Fits(q) => Fits(r)
  BY <1>0, <1>1 DEF Records, Fits
<1>3. /\ ended = [recs EXCEPT ![g].events = @ - 1]
  OBVIOUS
<1>4. /\ recs' = ended \/ recs' = IF cur = 0 THEN ended ELSE [ended EXCEPT ![cur] = recordFailure(@)]
      /\ sockets' = sockets \/ sockets' = [sockets EXCEPT ![n] = IF @ > 0 THEN @ - 1 ELSE 0]
  BY <1>3 DEF EventEnds
<1>5. sockets' \in [Names -> 0..MaxInflight]
  <2>1. sockets[n] \in 0..MaxInflight
    BY <1>0
  <2>2. (IF sockets[n] > 0 THEN sockets[n] - 1 ELSE 0) \in 0..MaxInflight
    BY <1>0, <2>1
  <2> QED BY <1>0, <1>4, <2>2
<1> HIDE DEF r
<1>6. /\ ended \in Seq(Records) /\ Len(ended) = Len(recs)
      /\ \A k \in DOMAIN recs : ended[k] = IF k = g THEN r ELSE recs[k]
  BY <1>0, <1>2, ExceptSeq
<1>7. \A k \in DOMAIN recs : /\ ended[k] \in Records /\ ended[k].ui = recs[k].ui
                             /\ ended[k].code = recs[k].code /\ ended[k].status = recs[k].status
                             /\ Fits(recs[k]) => Fits(ended[k])
  BY <1>0, <1>2, <1>6
<1> HIDE DEF ended
<1>8. CASE recs' = ended
  BY <1>0, <1>5, <1>6, <1>7, <1>8, RecordsTouched
<1>9. CASE recs' # ended
  <2>1. cur # 0 /\ recs' = [ended EXCEPT ![cur] = recordFailure(ended[cur])]
    BY <1>4, <1>9
  <2>2. cur \in DOMAIN recs /\ ended[cur] \in Records
    BY <1>0, <1>7, <2>1
  <2> DEFINE f == recordFailure(ended[cur])
  <2>3. /\ f \in Records /\ f.ui = recs[cur].ui /\ f.code = recs[cur].code
        /\ recs[cur].status = "backend-disabled" => f.status = "backend-disabled"
        /\ Fits(recs[cur]) => Fits(f)
    BY <1>7, <2>2, FailureTyped
  <2> HIDE DEF f
  <2>4. /\ recs' \in Seq(Records) /\ Len(recs') = Len(recs)
        /\ \A k \in DOMAIN recs : recs'[k] = IF k = cur THEN f ELSE ended[k]
    <3>1. recs' = [ended EXCEPT ![cur] = f] /\ cur \in 1..Len(ended) /\ DOMAIN recs = 1..Len(ended)
      BY <1>0, <1>6, <2>1, <2>2 DEF f
    <3> QED BY <1>6, <2>3, <3>1, ExceptSeq
  <2> QED BY <1>0, <1>5, <1>7, <2>3, <2>4, RecordsTouched
<1> QED BY <1>8, <1>9

\* All traffic does.
LEMMA TrafficKeeps ==
  ASSUME SupInv, Traffic
  PROVE  SupInv' /\ QuarantineKept /\ CodesKept
BY RequestsKeep, EventKeeps DEF Traffic

-----------------------------------------------------------------------------
(* The handlers                                                             *)

\* A handler that works on a surface knows which.
OpsAreNamed ==
  \A t \in Tasks : op[t].kind \in {"add", "delete", "reload", "oauth"} => op[t].ui \in Names

\* The rest of the daemon's types.
DaemonTypes ==
  /\ registered \in Metas /\ published \in Metas
  /\ halfway \subseteq Names /\ behind \subseteq Names
  /\ started \in 0..MaxOps
  /\ OpsAreNamed

\* The invariant of the daemon.
DaemonInv == HostTypes /\ SupInv /\ DaemonTypes

\* What a scan of uis/ finds.
LEMMA ScanTyped ==
  ASSUME NEW d \in [Names -> [dir : BOOLEAN, meta : Bundles \cup {None},
                              entry : Bundles \cup {None}]]
  PROVE  scanUis(d) \in Metas
BY DEF scanUis, Metas

\* A step that does not call the supervisor.
LEMMA SupervisorAlone ==
  ASSUME SupInv, UNCHANGED supVars
  PROVE  SupInv' /\ QuarantineKept
<1>1. UNCHANGED <<mounts, recs, call, sockets>>
  BY DEF supVars
<1>2. SupervisorTypes' /\ MountsAreOwn'
  BY <1>1 DEF SupInv, SupervisorTypes, MountsAreOwn
<1>3. MountsInHand'
  BY <1>1 DEF SupInv, MountsInHand, Mounting
<1> QED BY <1>1, <1>2, <1>3 DEF SupInv, QuarantineKept, LiftsNone, StatusesFit

\* A handler's plan, whichever of the two it is.
LEMMA RemountKeeps ==
  ASSUME SupInv, NEW t \in Tasks, NEW n \in Names, NEW uis \in Metas, NEW remounts \in BOOLEAN,
         Proceed(t, IF remounts THEN reloadPlan(n, uis[n]) ELSE syncPlan(uis)),
         UNCHANGED sockets
  PROVE  SupInv' /\ QuarantineKept
<1> DEFINE plan == IF remounts THEN reloadPlan(n, uis[n]) ELSE syncPlan(uis)
<1>1. uis[n] \in Bundles \cup {None}
  BY DEF Metas
<1>2. plan \in Seq(PlanSteps)
  <2>1. MapSound
    BY DEF SupInv, SupervisorTypes, MapSound
  <2> QED BY <1>1, <2>1, ReloadPlanTyped, SyncPlanTyped
<1>3. PICK p \in Seq(PlanSteps) : p = plan
  BY <1>2
<1>4. Proceed(t, p)
  BY <1>3
<1> QED BY <1>4, ProceedKeeps

\* A task takes up another operation, or none; where it needs a name it has one.
LEMMA OpsNamedAgain ==
  ASSUME DaemonInv, NEW t \in Tasks, NEW o \in Ops, op' = [op EXCEPT ![t] = o],
         o.kind \in {"add", "delete", "reload", "oauth"} => o.ui \in Names
  PROVE  OpsAreNamed'
BY DEF DaemonInv, HostTypes, DaemonTypes, OpsAreNamed

\* A handler begins.
LEMMA StartTyped ==
  ASSUME DaemonInv, HostTypes', NEW t \in Tasks, Start(t)
  PROVE  SupInv' /\ DaemonTypes' /\ QuarantineKept
<1>0. /\ started < MaxOps /\ started' = started + 1
      /\ SupInv /\ HostTypes /\ DaemonTypes /\ started' \in 0..MaxOps
  <2>1. started < MaxOps /\ started' = started + 1
    BY DEF Start, Begin, AddWrites, DeleteStarts, Reload, RegisterOauth, Deliver, PatchConfig
  <2>2. started \in 0..MaxOps /\ MaxOps \in Nat
    BY HostAssumption DEF DaemonInv, DaemonTypes
  <2> QED BY <2>1, <2>2 DEF DaemonInv
<1>1. ASSUME NEW n \in Names, NEW b \in Bundles, NEW force \in BOOLEAN,
             AddWrites(t, n, b, force)
      PROVE  SupInv' /\ DaemonTypes' /\ QuarantineKept
  <2> DEFINE o == [NoOp EXCEPT !.kind = "add", !.ui = n, !.at = "hub", !.replaced = disk[n].dir]
  <2>1. op' = [op EXCEPT ![t] = o] /\ UNCHANGED <<credVars, supVars, registered, published, halfway, behind>>
    BY <1>1 DEF AddWrites
  <2>2. o \in Ops /\ o.ui = n
    BY <1>0 DEF HostTypes, Ops, NoOp
  <2> HIDE DEF o
  <2>3. OpsAreNamed'
    BY <2>1, <2>2, OpsNamedAgain
  <2> QED BY <1>0, <2>1, <2>3, SupervisorAlone DEF DaemonTypes
<1>2. ASSUME NEW n \in Names, DeleteStarts(t, n)
      PROVE  SupInv' /\ DaemonTypes' /\ QuarantineKept
  <2> DEFINE o == [NoOp EXCEPT !.kind = "delete", !.ui = n, !.at = "hub"]
  <2>1. op' = [op EXCEPT ![t] = o] /\ UNCHANGED <<supVars, registered, published, halfway, behind>>
    BY <1>2 DEF DeleteStarts
  <2>2. o \in Ops /\ o.ui = n
    BY DEF Ops, NoOp
  <2> HIDE DEF o
  <2>3. OpsAreNamed'
    BY <2>1, <2>2, OpsNamedAgain
  <2> QED BY <1>0, <2>1, <2>3, SupervisorAlone DEF DaemonTypes
<1>3. ASSUME NEW n \in Names, Reload(t, n)
      PROVE  SupInv' /\ DaemonTypes' /\ QuarantineKept
  <2> DEFINE o == [NoOp EXCEPT !.kind = "reload", !.ui = n, !.at = "tail"]
  <2>1. PICK uis \in Metas : uis = scanUis(disk)
    BY <1>0, ScanTyped DEF HostTypes
  <2>2. /\ op' = [op EXCEPT ![t] = o] /\ UNCHANGED <<sockets, published>>
        /\ registered' = uis /\ halfway' = halfway \ {n} /\ behind' = behind \ {n}
        /\ Proceed(t, IF BackedBundle(uis[n]) THEN reloadPlan(n, uis[n]) ELSE syncPlan(uis))
    BY <1>3, <2>1 DEF Reload
  <2>3. o \in Ops /\ o.ui = n
    BY DEF Ops, NoOp
  <2> HIDE DEF o
  <2>4. OpsAreNamed'
    BY <2>2, <2>3, OpsNamedAgain
  <2>5. BackedBundle(uis[n]) \in BOOLEAN
    BY DEF BackedBundle
  <2>6. SupInv' /\ QuarantineKept
    BY <1>0, <2>2, <2>5, RemountKeeps
  <2> QED BY <1>0, <2>2, <2>4, <2>6 DEF DaemonTypes
<1>4. ASSUME NEW n \in Names, RegisterOauth(t, n)
      PROVE  SupInv' /\ DaemonTypes' /\ QuarantineKept
  <2> DEFINE o == [NoOp EXCEPT !.kind = "oauth", !.ui = n, !.at = "hub"]
  <2>1. op' = [op EXCEPT ![t] = o] /\ UNCHANGED <<supVars, registered, published, halfway, behind>>
    BY <1>4 DEF RegisterOauth
  <2>2. o \in Ops /\ o.ui = n
    BY DEF Ops, NoOp
  <2> HIDE DEF o
  <2>3. OpsAreNamed'
    BY <2>1, <2>2, OpsNamedAgain
  <2> QED BY <1>0, <2>1, <2>3, SupervisorAlone DEF DaemonTypes
<1>5. ASSUME NEW o \in Ops, o.kind \in {"deliver", "bind"}, op' = [op EXCEPT ![t] = o],
             call' = [call EXCEPT ![t] = [Idle EXCEPT !.at = "next", !.plan = retryPlan(registered)]],
             UNCHANGED <<mounts, recs, sockets, registered, published, halfway, behind>>
      PROVE  SupInv' /\ DaemonTypes' /\ QuarantineKept
  <2> DEFINE c == [Idle EXCEPT !.at = "next", !.plan = retryPlan(registered)]
  <2>1. PICK plan \in Seq(PlanSteps) : plan = retryPlan(registered)
    BY <1>0, RetryPlanTyped DEF DaemonTypes
  <2>2. c \in Calls /\ c.at = "next" /\ call' = [call EXCEPT ![t] = c]
    BY <1>5, <2>1, CallsTyped, 0 \in Nat DEF Idle
  <2> HIDE DEF c
  <2>3. SupInv' /\ QuarantineKept
    BY <1>0, <1>5, <2>2, CallReplaced
  <2>4. OpsAreNamed'
    BY <1>5, OpsNamedAgain
  <2> QED BY <1>0, <1>5, <2>3, <2>4 DEF DaemonTypes
<1>6. ASSUME NEW c \in Conns, NEW a \in {"provisioned", "removed"}, Deliver(t, a, c)
      PROVE  SupInv' /\ DaemonTypes' /\ QuarantineKept
  <2>1. [NoOp EXCEPT !.kind = "deliver", !.at = "tail"] \in Ops
        /\ [NoOp EXCEPT !.kind = "deliver", !.at = "tail"].kind = "deliver"
    BY DEF Ops, NoOp
  <2> QED BY <1>5, <1>6, <2>1 DEF Deliver
<1>7. ASSUME NEW n \in Names, NEW c \in Conns \cup {None}, PatchConfig(t, n, c)
      PROVE  SupInv' /\ DaemonTypes' /\ QuarantineKept
  <2>1. [NoOp EXCEPT !.kind = "bind", !.at = "tail"] \in Ops
        /\ [NoOp EXCEPT !.kind = "bind", !.at = "tail"].kind = "bind"
    BY DEF Ops, NoOp
  <2> QED BY <1>5, <1>7, <2>1 DEF PatchConfig
<1> QED BY <1>1, <1>2, <1>3, <1>4, <1>6, <1>7 DEF Start

\* An operation goes on: it keeps its kind and its surface.
LEMMA OpGoesOn ==
  ASSUME DaemonInv, HostTypes', NEW t \in Tasks, \A u \in Tasks : u # t => op'[u] = op[u],
         op'[t].kind = "idle" \/ (op'[t].kind = op[t].kind /\ op'[t].ui = op[t].ui)
  PROVE  OpsAreNamed'
BY DEF DaemonInv, DaemonTypes, OpsAreNamed

\* A handler goes on after an await, or ends.
LEMMA ContinueTyped ==
  ASSUME DaemonInv, HostTypes', NEW t \in Tasks, Continue(t)
  PROVE  SupInv' /\ DaemonTypes' /\ QuarantineKept
<1>0. /\ SupInv /\ HostTypes /\ DaemonTypes /\ op \in [Tasks -> Ops]
      /\ op[t].kind \in {"add", "delete", "oauth"} => op[t].ui \in Names
  BY DEF DaemonInv, HostTypes, DaemonTypes, OpsAreNamed
<1>1. CASE AddMounts(t)
  <2>1. PICK n \in Names : n = op[t].ui
    BY <1>0, <1>1 DEF AddMounts
  <2>2. PICK uis \in Metas : uis = scanUis(disk)
    BY <1>0, ScanTyped DEF HostTypes
  <2>3. /\ registered' = uis /\ halfway' = halfway \ {n} /\ behind' \subseteq behind
        /\ UNCHANGED <<sockets, published, started>>
        /\ Proceed(t, IF op[t].replaced /\ BackedBundle(uis[n])
                       THEN reloadPlan(n, uis[n]) ELSE syncPlan(uis))
        /\ op' = [op EXCEPT ![t].at = "tail"]
    BY <1>1, <2>1, <2>2 DEF AddMounts
  <2>4. (op[t].replaced /\ BackedBundle(uis[n])) \in BOOLEAN
    BY DEF BackedBundle
  <2>5. SupInv' /\ QuarantineKept
    <3>1. PICK remounts \in BOOLEAN : remounts = (op[t].replaced /\ BackedBundle(uis[n]))
      BY <2>4
    <3>2. Proceed(t, IF remounts THEN reloadPlan(n, uis[n]) ELSE syncPlan(uis))
      BY <2>3, <3>1
    <3> QED BY <1>0, <2>3, <3>2, RemountKeeps
  <2>6. OpsAreNamed'
    <3>1. op'[t].kind = op[t].kind /\ op'[t].ui = op[t].ui /\ \A u \in Tasks : u # t => op'[u] = op[u]
      BY <1>0, <2>3 DEF Ops
    <3> QED BY <3>1, OpGoesOn
  <2> QED BY <1>0, <2>3, <2>5, <2>6 DEF DaemonTypes
<1>2. CASE AddBreaksOff(t)
  <2>1. /\ UNCHANGED <<supVars, registered, published, started>> /\ op' = [op EXCEPT ![t] = NoOp]
        /\ halfway' = halfway \cup {op[t].ui} /\ behind' \subseteq behind \cup {op[t].ui}
        /\ op[t].ui \in Names
    BY <1>0, <1>2 DEF AddBreaksOff
  <2>2. OpsAreNamed'
    <3>1. op'[t].kind = "idle" /\ \A u \in Tasks : u # t => op'[u] = op[u]
      BY <1>0, <2>1 DEF NoOp
    <3> QED BY <3>1, OpGoesOn
  <2> QED BY <1>0, <2>1, <2>2, SupervisorAlone DEF DaemonTypes
<1>3. CASE DeleteUnmounts(t)
  <2>1. PICK n \in Names : n = op[t].ui
    BY <1>0, <1>3 DEF DeleteUnmounts
  <2>2. PICK c : op' = [op EXCEPT ![t].at = "remove", ![t].cred = c]
    BY <1>3 DEF DeleteUnmounts
  <2>3. /\ Proceed(t, <<Step("unmount", n, None, 0)>>)
        /\ UNCHANGED <<sockets, registered, published, halfway, behind, started>>
    BY <1>3, <2>1 DEF DeleteUnmounts
  <2>4. <<Step("unmount", n, None, 0)>> \in Seq(PlanSteps)
    BY DEF Step, PlanSteps
  <2>5. SupInv' /\ QuarantineKept
    BY <1>0, <2>3, <2>4, ProceedKeeps
  <2>6. OpsAreNamed'
    <3>1. op'[t].kind = op[t].kind /\ op'[t].ui = op[t].ui /\ \A u \in Tasks : u # t => op'[u] = op[u]
      BY <1>0, <2>2 DEF Ops
    <3> QED BY <3>1, OpGoesOn
  <2> QED BY <1>0, <2>3, <2>5, <2>6 DEF DaemonTypes
<1>4. CASE DeleteRemoves(t)
  <2>1. PICK n \in Names : n = op[t].ui
    BY <1>0, <1>4 DEF DeleteRemoves
  <2>2. PICK uis \in Metas : uis = scanUis(disk')
    BY ScanTyped DEF HostTypes
  <2>3. /\ registered' = uis /\ Proceed(t, syncPlan(uis))
        /\ halfway' = halfway \ {n} /\ behind' = behind \ {n}
        /\ op' = [op EXCEPT ![t].at = "tail"]
        /\ UNCHANGED <<sockets, published, started>>
    BY <1>4, <2>1, <2>2 DEF DeleteRemoves
  <2>4. SupInv' /\ QuarantineKept
    <3>1. PICK plan \in Seq(PlanSteps) : plan = syncPlan(uis)
      BY <1>0, SyncPlanTyped DEF SupInv, SupervisorTypes, MapSound
    <3> QED BY <1>0, <2>3, <3>1, ProceedKeeps
  <2>5. OpsAreNamed'
    <3>1. op'[t].kind = op[t].kind /\ op'[t].ui = op[t].ui /\ \A u \in Tasks : u # t => op'[u] = op[u]
      BY <1>0, <2>3 DEF Ops
    <3> QED BY <3>1, OpGoesOn
  <2> QED BY <1>0, <2>3, <2>4, <2>5 DEF DaemonTypes
<1>5. CASE OauthRegistered(t)
  <2>1. /\ UNCHANGED <<supVars, registered, halfway, behind, started>> /\ op' = [op EXCEPT ![t] = NoOp]
        /\ published' = registered \/ UNCHANGED published
    BY <1>5 DEF OauthRegistered
  <2>2. OpsAreNamed'
    <3>1. op'[t].kind = "idle" /\ \A u \in Tasks : u # t => op'[u] = op[u]
      BY <1>0, <2>1 DEF NoOp
    <3> QED BY <3>1, OpGoesOn
  <2> QED BY <1>0, <2>1, <2>2, SupervisorAlone DEF DaemonTypes
<1>6. CASE SupervisorStep(t) /\ UNCHANGED <<credVars, disk, registered, published, op, halfway, behind, started>>
  <2>1. SupInv' /\ QuarantineKept
    BY <1>0, <1>6, SupervisorKeeps
  <2> QED BY <1>0, <1>6, <2>1 DEF DaemonTypes, OpsAreNamed
<1>7. CASE Finish(t)
  <2>1. /\ UNCHANGED <<mounts, recs, sockets, registered, halfway, behind, started>>
        /\ op' = [op EXCEPT ![t] = NoOp] /\ call' = [call EXCEPT ![t] = Idle]
        /\ published' = registered \/ UNCHANGED published
    BY <1>7 DEF Finish
  <2>2. Idle \in Calls /\ Idle.at = "idle"
    <3>1. <<>> \in Seq(PlanSteps)
      OBVIOUS
    <3> QED BY <3>1 DEF Idle, Calls, PlanSteps
  <2>3. SupInv' /\ QuarantineKept
    BY <1>0, <2>1, <2>2, CallReplaced
  <2>4. OpsAreNamed'
    <3>1. op'[t].kind = "idle" /\ \A u \in Tasks : u # t => op'[u] = op[u]
      BY <1>0, <2>1 DEF NoOp
    <3> QED BY <3>1, OpGoesOn
  <2> QED BY <1>0, <2>1, <2>3, <2>4 DEF DaemonTypes
<1> QED BY <1>1, <1>2, <1>3, <1>4, <1>5, <1>6, <1>7 DEF Continue

\* The boot pass begins with an empty map.
LEMMA DaemonInit ==
  ASSUME Init
  PROVE  DaemonInv
<1>1. HostTypes
  BY InitHolds DEF IInv
<1>2. recs = <<>> /\ mounts = [n \in Names |-> 0] /\ sockets = [n \in Names |-> 0]
      /\ registered = scanUis(disk) /\ published = registered
      /\ halfway = {} /\ behind = {} /\ started = 0
  BY DEF Init
<1>3. PICK uis \in Metas : uis = registered
  BY <1>1, <1>2, ScanTyped DEF HostTypes
<1>4. PICK boot \in Tasks :
        /\ call = [t \in Tasks |-> IF t = boot
                     THEN [Idle EXCEPT !.at = "next", !.plan = syncPlan(registered)] ELSE Idle]
        /\ op = [t \in Tasks |-> IF t = boot
                     THEN [NoOp EXCEPT !.kind = "boot", !.at = "tail"] ELSE NoOp]
  BY DEF Init
<1>5. MapSound
  <2>1. recs \in Seq(Records) /\ Len(recs) = 0
    BY <1>2
  <2>2. mounts \in [Names -> 0..Len(recs)] /\ \A n \in Names : mounts[n] = 0
    BY <1>2, <2>1
  <2> QED BY <2>1, <2>2 DEF MapSound, MountsAreOwn
<1>6. PICK plan \in Seq(PlanSteps) : plan = syncPlan(registered)
  BY <1>3, <1>5, SyncPlanTyped
<1>7. \A t \in Tasks : call[t] \in Calls /\ call[t].at \in {"idle", "next"}
  <2>1. <<>> \in Seq(PlanSteps)
    OBVIOUS
  <2>2. Idle \in Calls /\ Idle.at = "idle"
    BY <2>1 DEF Idle, Calls, PlanSteps
  <2>3. [Idle EXCEPT !.at = "next", !.plan = plan] \in Calls
        /\ [Idle EXCEPT !.at = "next", !.plan = plan].at = "next"
    BY CallsTyped, 0 \in Nat DEF Idle
  <2> QED BY <1>4, <1>6, <2>2, <2>3
<1>8. call \in [Tasks -> Calls]
  BY <1>4, <1>7
<1>9. SupInv
  <2>1. 0 \in 0..MaxInflight
    BY SupervisorAssumption
  <2>2. sockets \in [Names -> 0..MaxInflight]
    BY <1>2, <2>1
  <2>3. MountsInHand
    BY <1>7 DEF MountsInHand, Mounting
  <2> QED BY <1>5, <1>8, <2>2, <2>3 DEF SupInv, SupervisorTypes, MapSound
<1>10. DaemonTypes
  <2>1. started \in 0..MaxOps
    BY <1>2, HostAssumption
  <2>2. OpsAreNamed
    BY <1>4 DEF OpsAreNamed, NoOp
  <2> QED BY <1>2, <1>3, <2>1, <2>2 DEF DaemonTypes
<1> QED BY <1>1, <1>9, <1>10 DEF DaemonInv

\* A step of the supervisor or of its traffic leaves the rest alone.
LEMMA SameDaemon ==
  ASSUME DaemonTypes, registered' = registered, published' = published, op' = op,
         halfway' = halfway, behind' = behind, started' = started
  PROVE  DaemonTypes'
BY DEF DaemonTypes, OpsAreNamed

\* Every step keeps the invariant, and every quarantine.
LEMMA DaemonNext ==
  ASSUME DaemonInv, HostTypes', [Next]_vars
  PROVE  DaemonInv' /\ QuarantineKept
<1>0. SupInv /\ HostTypes /\ DaemonTypes
  BY DEF DaemonInv
<1>1. ASSUME NEW n \in Names, PatchUi(n) \/ \E b \in Bundles : GitPushed(n, b)
      PROVE  SupInv' /\ DaemonTypes' /\ QuarantineKept
  <2>1. registered' = published' /\ UNCHANGED <<supVars, op, halfway, behind>>
        /\ registered' \in {scanUis(disk), scanUis(disk')}
    BY <1>1 DEF PatchUi, GitPushed
  <2>2. scanUis(disk) \in Metas /\ scanUis(disk') \in Metas
    BY <1>0, ScanTyped DEF HostTypes
  <2>3. started' \in 0..MaxOps
    BY <1>0, <1>1, HostAssumption DEF PatchUi, GitPushed, DaemonTypes
  <2> QED BY <1>0, <2>1, <2>2, <2>3, SupervisorAlone DEF DaemonTypes, OpsAreNamed
<1>2. ASSUME Traffic /\ UNCHANGED <<credVars, disk, registered, published, op, halfway, behind, started>>
      PROVE  SupInv' /\ DaemonTypes' /\ QuarantineKept
  <2>1. SupInv' /\ QuarantineKept
    BY <1>0, <1>2, TrafficKeeps
  <2>2. UNCHANGED <<registered, published, op, halfway, behind, started>>
    BY <1>2
  <2>3. DaemonTypes'
    BY <1>0, <2>2, SameDaemon
  <2> QED BY <2>1, <2>3
<1>3. ASSUME UNCHANGED vars
      PROVE  SupInv' /\ DaemonTypes' /\ QuarantineKept
  <2>1. UNCHANGED <<supVars, registered, published, op, halfway, behind, started>>
    BY <1>3 DEF vars
  <2>2. SupInv' /\ QuarantineKept
    BY <1>0, <2>1, SupervisorAlone
  <2>3. DaemonTypes'
    BY <1>0, <2>1, SameDaemon
  <2> QED BY <2>2, <2>3
<1>4. SupInv' /\ DaemonTypes' /\ QuarantineKept
  <2>1. \A t \in Tasks : Start(t) \/ Continue(t) => SupInv' /\ DaemonTypes' /\ QuarantineKept
    BY StartTyped, ContinueTyped
  <2>2. \/ \E t \in Tasks : Start(t) \/ Continue(t)
        \/ \E n \in Names : PatchUi(n) \/ \E b \in Bundles : GitPushed(n, b)
        \/ Traffic /\ UNCHANGED <<credVars, disk, registered, published, op, halfway, behind, started>>
        \/ UNCHANGED vars
    BY DEF Next
  <2> HIDE DEF SupInv, DaemonTypes, QuarantineKept
  <2> QED BY <1>1, <1>2, <1>3, <2>1, <2>2
<1> QED BY <1>4 DEF DaemonInv

\* The invariants hold in every state.
LEMMA DaemonInvariance == Spec => [](IInv /\ DaemonInv)
<1>1. IInv /\ DaemonInv /\ [Next]_vars => IInv' /\ DaemonInv'
  <2>1. IInv' => HostTypes'
    BY DEF IInv
  <2> QED BY <2>1, NextKeeps, DaemonNext
<1> QED BY <1>1, InitHolds, DaemonInit, PTL DEF Spec

\* The daemon's state keeps its type whatever handlers, mounts and requests
\* overlap: the map never leads to a record that is not there.
THEOREM DaemonTypesHold == Spec => []TypeOK
<1>1. IInv /\ DaemonInv => TypeOK
  BY DEF IInv, DaemonInv, HostTypes, SupInv, SupervisorTypes, DaemonTypes, OpsAreNamed, TypeOK,
         SupervisorTypeOK, Metas
<1> QED BY <1>1, DaemonInvariance, PTL

\* The quarantine of a backend that runs is not lifted while its record is mounted:
\* only a factory makes a record active, and the records that wait for one have no
\* backend yet.
THEOREM QuarantineLasts == Spec => QuarantineHolds
<1>1. IInv /\ IInv' /\ DaemonInv /\ [Next]_vars => [QuarantineKept]_vars
  BY DaemonNext DEF IInv
<1>2. [QuarantineKept]_vars =>
        [\A n \in Names : LET g == mounts[n] IN
           g # 0 /\ recs[g].status = "backend-disabled" /\ recs[g].code # None /\ mounts'[n] = g
             => recs'[g].status = "backend-disabled"]_vars
  BY DEF QuarantineKept, LiftsNone
<1>3. Spec => [][QuarantineKept]_vars
  BY <1>1, DaemonInvariance, PTL DEF Spec
<1> QED BY <1>2, <1>3, PTL DEF QuarantineHolds

\* A backend that is served though it has failed since its factory returned is
\* short of quarantine: of every step the argument is that a failure is counted and
\* judged at once, at the record that is mounted, and that a record outside the map
\* is never mounted again.
THEOREM QuarantineIsReached == Spec => []ServedShortOfQuarantine
<1>1. Init => StatusesFit
  BY DEF Init, StatusesFit
<1>2. IInv' /\ DaemonInv /\ StatusesFit /\ [Next]_vars => StatusesFit'
  BY DaemonNext DEF IInv, QuarantineKept
<1>3. DaemonInv /\ StatusesFit => ServedShortOfQuarantine
  <2> SUFFICES ASSUME DaemonInv, StatusesFit, NEW n \in Names, Serving(n)
               PROVE  \/ recs[mounts[n]].status = "active"
                      \/ /\ recs[mounts[n]].status = "failing"
                         /\ recs[mounts[n]].failures \in 1..(CrashLoopMax - 1)
    BY DEF ServedShortOfQuarantine
  <2>1. mounts[n] # 0 /\ recs[mounts[n]].code # None
        /\ recs[mounts[n]].status # "backend-disabled"
    BY DEF Serving
  <2>2. Fits(recs[mounts[n]])
    BY <2>1 DEF StatusesFit
  <2> QED BY <2>1, <2>2 DEF Fits
<1> QED BY <1>1, <1>2, <1>3, DaemonInvariance, PTL DEF Spec

-----------------------------------------------------------------------------
(* The backend that serves runs the code that is installed                  *)

\* An add that has replaced the files and is still to remount.
ReplacementAwaits(n) ==
  \E t \in Tasks : AddAwaits(t, n) /\ op[t].replaced

\* A step that takes surface n out of the map for good.
Unmounts(s, n) == s.do = "reconcile" /\ s.ui = n /\ ~ BackedBundle(s.with)

\* A sync under way will come to it.
UnmountAhead(n) ==
  \E t \in Tasks : \E i \in DOMAIN call[t].plan : Unmounts(call[t].plan[i], n)

\* The record in the map has the installed code or none, and so has the factory
\* call whose result it waits for.
Current(n) ==
  /\ mounts[n] # 0 => recs[mounts[n]].code \in {None, disk[n].entry}
  /\ \A t \in Tasks : call[t].at = "factory" /\ call[t].gen = mounts[n] =>
       call[t].code = disk[n].entry /\ disk[n].entry # None

\* Without a directory there are no server files: what a first add finds in the
\* map can only be a record without a backend.
NoFilesLeft(n) == ~ disk[n].dir => disk[n].entry = None

\* Why a surface need not be current.
Excused(n) == n \in behind \/ ReplacementAwaits(n)

\* A handler makes a call when it has none, and drops none that has steps left.
PlansDone ==
  \A t \in Tasks : op[t].kind = "idle" \/ op[t].at = "hub" \/ call[t].at = "done" =>
    call[t].plan = <<>>

CurrentInv ==
  /\ PlansDone
  /\ \A n \in Names : NoFilesLeft(n) /\ (Excused(n) \/ UnmountAhead(n) \/ Current(n))

\* The surface has left the map, or has a record that nobody waits for but the
\* import to come.
Remounted(n) ==
  \/ mounts'[n] = 0
  \/ /\ mounts'[n] = Len(recs) + 1 /\ recs'[Len(recs) + 1].code = None
     /\ \A t \in Tasks : call'[t].at = "factory" => call'[t] = call[t]

\* It is where it was, and no factory is called.
LeftAlone(n) ==
  /\ mounts'[n] = mounts[n]
  /\ mounts[n] # 0 => recs'[mounts[n]].code = recs[mounts[n]].code
  /\ \A t \in Tasks : call'[t].at = "factory" => call'[t] = call[t]

\* A remounted surface is current, whatever it was.
LEMMA RemountedIsCurrent ==
  ASSUME SupInv, SupInv', NEW n \in Names, Remounted(n)
  PROVE  Current(n)'
<1>1. /\ \A t \in Tasks : call[t].at = "factory" => call[t].gen \in 1..Len(recs)
      /\ \A t \in Tasks : call'[t].at = "factory" => call'[t].gen \in 1..Len(recs')
      /\ Len(recs) \in Nat /\ Len(recs') \in Nat
  BY DEF SupInv, SupervisorTypes, MountsInHand, Mounting
<1>2. \A t \in Tasks : call'[t].at = "factory" => call'[t].gen # mounts'[n]
  BY <1>1 DEF Remounted
<1> QED BY <1>1, <1>2 DEF Remounted, Current

\* A surface that is left alone stays current, if its server files do.
LEMMA LeftAloneIsCurrent ==
  ASSUME NEW n \in Names, LeftAlone(n), disk'[n].entry = disk[n].entry, Current(n)
  PROVE  Current(n)'
BY DEF LeftAlone, Current

\* One stretch of a supervisor call remounts a surface or leaves it alone, and
\* the calls of the others.
LEMMA ProceedRemounts ==
  ASSUME SupInv, NEW n \in Names, NEW t \in Tasks, NEW plan \in Seq(PlanSteps),
         Proceed(t, plan)
  PROVE  /\ Remounted(n) \/ LeftAlone(n)
         /\ \A u \in Tasks : u # t => call'[u] = call[u]
<1>0. /\ call \in [Tasks -> Calls] /\ mounts \in [Names -> 0..Len(recs)] /\ recs \in Seq(Records)
      /\ Len(recs) \in Nat
  BY DEF SupInv, SupervisorTypes
<1>1. CASE /\ call' = [call EXCEPT ![t] = [Idle EXCEPT !.at = "done"]]
           /\ UNCHANGED <<mounts, recs>>
  <2> DEFINE c == [Idle EXCEPT !.at = "done"]
  <2>1. call' = [call EXCEPT ![t] = c] /\ c.at # "factory"
    BY <1>1 DEF Idle
  <2> HIDE DEF c
  <2> QED BY <1>0, <1>1, <2>1 DEF LeftAlone
<1>2. ASSUME NEW m \in Names, NEW rest \in Seq(PlanSteps), unmount(t, m, rest)
      PROVE  /\ Remounted(n) \/ LeftAlone(n)
             /\ \A u \in Tasks : u # t => call'[u] = call[u]
  <2> DEFINE c == [Idle EXCEPT !.at = "unmount", !.plan = rest]
             r == Retired(recs[mounts[m]])
  <2>1. /\ mounts' = [mounts EXCEPT ![m] = 0] /\ recs' = [recs EXCEPT ![mounts[m]] = r]
        /\ call' = [call EXCEPT ![t] = c] /\ c.at # "factory"
    BY <1>2 DEF unmount, Idle
  <2> HIDE DEF c, r
  <2>2. /\ \A u \in Tasks : u # t => call'[u] = call[u]
        /\ \A u \in Tasks : call'[u].at = "factory" => call'[u] = call[u]
    BY <1>0, <2>1
  <2>3. CASE m = n
    BY <1>0, <2>1, <2>2, <2>3 DEF Remounted
  <2>4. CASE m # n
    <3>1. mounts'[n] = mounts[n]
      BY <1>0, <2>1, <2>4
    <3>2. mounts[n] # 0 => mounts[n] # mounts[m] /\ mounts[n] \in 1..Len(recs)
      BY <1>0, <2>4, RecordsAreOwn
    <3>3. mounts[n] # 0 => recs'[mounts[n]] = recs[mounts[n]]
      BY <1>0, <2>1, <3>2
    <3> QED BY <2>2, <3>1, <3>3 DEF LeftAlone
  <2> QED BY <2>3, <2>4
<1>3. ASSUME NEW m \in Names, NEW b \in Bundles \cup {None}, NEW rest \in Seq(PlanSteps),
             enter(t, m, b, rest)
      PROVE  /\ Remounted(n) \/ LeftAlone(n)
             /\ \A u \in Tasks : u # t => call'[u] = call[u]
  <2> DEFINE g == Len(recs) + 1
             missing == disk[m].entry = None
             deferred == ~ missing /\ ~ mountSpecOpen(m, b)
             r == Record(m, b, IF deferred THEN "pending-credential" ELSE "backend-error")
             c == IF missing \/ deferred THEN [Idle EXCEPT !.at = "next", !.plan = rest]
                  ELSE [Idle EXCEPT !.at = "import", !.plan = rest, !.gen = g]
  <2>1. /\ mounts' = [mounts EXCEPT ![m] = g] /\ recs' = Append(recs, r)
        /\ call' = [call EXCEPT ![t] = c]
    BY <1>3 DEF enter
  <2>2. r.code = None /\ c.at # "factory"
    BY DEF Record, Idle
  <2> HIDE DEF r, c
  <2>3. recs'[g] = r /\ \A k \in 1..Len(recs) : recs'[k] = recs[k]
    BY <1>0, <2>1
  <2>4. /\ \A u \in Tasks : u # t => call'[u] = call[u]
        /\ \A u \in Tasks : call'[u].at = "factory" => call'[u] = call[u]
    BY <1>0, <2>1, <2>2
  <2>5. CASE m = n
    <3>1. mounts'[n] = g
      BY <1>0, <2>1, <2>5
    <3> QED BY <2>2, <2>3, <2>4, <3>1 DEF Remounted
  <2>6. CASE m # n
    <3>1. mounts'[n] = mounts[n]
      BY <1>0, <2>1, <2>6
    <3>2. mounts[n] # 0 => recs'[mounts[n]] = recs[mounts[n]]
      BY <1>0, <2>3
    <3> QED BY <2>4, <3>1, <3>2 DEF LeftAlone
  <2> QED BY <2>5, <2>6
<1> QED BY <1>1, <1>2, <1>3, ProceedKinds

\* A surface that is not in the map comes out of a stretch current.
LEMMA UnmountedIsCurrent ==
  ASSUME SupInv, SupInv', NEW n \in Names, mounts[n] = 0, NEW t \in Tasks,
         NEW plan \in Seq(PlanSteps), Proceed(t, plan)
  PROVE  Current(n)'
<1>1. Remounted(n)
  BY ProceedRemounts DEF Remounted, LeftAlone
<1> QED BY <1>1, RemountedIsCurrent

\* What is left of a plan begins with its first step that is not moot.
LEMMA PendingStarts ==
  ASSUME NEW plan \in Seq(PlanSteps), NEW k \in DOMAIN plan, ~ Moot(plan[k])
  PROVE  \E i \in 1..k : Pending(plan) = SubSeq(plan, i, Len(plan))
<1> DEFINE live == {i \in DOMAIN plan : ~ Moot(plan[i])}
           i0 == CHOOSE i \in live : \A j \in live : i <= j
<1>1. Len(plan) \in Nat /\ DOMAIN plan = 1..Len(plan)
  OBVIOUS
<1>2. live \subseteq 1..Len(plan) /\ k \in live
  BY <1>1
<1>3. Pending(plan) = SubSeq(plan, i0, Len(plan))
  BY <1>2 DEF Pending
<1> HIDE DEF live
<1>4. \E i \in live : \A j \in live : i <= j
  BY <1>1, <1>2, FirstOf
<1>5. i0 \in live /\ \A j \in live : i0 <= j
  BY <1>4
<1> HIDE DEF i0
<1>6. i0 \in 1..k
  <2>1. i0 \in 1..Len(plan) /\ i0 <= k /\ k \in 1..Len(plan)
    BY <1>2, <1>5
  <2> QED BY <1>1, <2>1
<1> QED BY <1>3, <1>6

\* What follows its first step is still ahead of the task afterwards.
LEMMA RestIsAhead ==
  ASSUME SupInv, NEW t \in Tasks, NEW plan \in Seq(PlanSteps), Proceed(t, plan),
         NEW todo \in Seq(PlanSteps), todo = Pending(plan), todo # <<>>,
         NEW j \in 2..Len(todo)
  PROVE  \E i \in DOMAIN call'[t].plan : call'[t].plan[i] = todo[j]
<1> DEFINE rest == Tail(todo)
           s == Head(todo)
           longer == <<Step("set", s.ui, s.with, 0)>> \o rest
<1>1. call \in [Tasks -> Calls]
  BY DEF SupInv, SupervisorTypes
<1>2. s \in PlanSteps /\ rest \in Seq(PlanSteps) /\ Len(rest) = Len(todo) - 1
      /\ \A i \in 1..Len(rest) : rest[i] = todo[i + 1]
  BY HeadTailProperties
<1>3. /\ j - 1 \in DOMAIN rest /\ rest[j - 1] = todo[j]
      /\ Len(todo) \in Nat
  BY <1>2
<1>4. j \in DOMAIN longer /\ longer[j] = todo[j]
  <2>1. <<Step("set", s.ui, s.with, 0)>> \in Seq(PlanSteps)
    BY <1>2 DEF Step, PlanSteps
  <2>2. Len(longer) = Len(todo) /\ longer[j] = rest[j - 1] /\ longer \in Seq(PlanSteps)
    BY <1>2, <1>3, <2>1, ConcatProperties
  <2> QED BY <1>3, <2>2
<1>5. call'[t].plan \in {rest, longer}
  <2>1. \A n, r : unmount(t, n, r) => call'[t].plan = r
    BY <1>1 DEF unmount, Idle
  <2>2. \A n, b, r : enter(t, n, b, r) => call'[t].plan = r
    BY <1>1 DEF enter, Idle
  <2> QED BY <2>1, <2>2 DEF Proceed, mount
<1> QED BY <1>3, <1>4, <1>5

\* A plan that unmounts a surface does so now, or is left with it to do, unless
\* the surface is not in the map.
LEMMA StepIsAhead ==
  ASSUME SupInv, SupInv', NEW n \in Names, NEW t \in Tasks, NEW plan \in Seq(PlanSteps),
         Proceed(t, plan), NEW k \in DOMAIN plan, Unmounts(plan[k], n)
  PROVE  UnmountAhead(n)' \/ Current(n)'
<1>1. CASE mounts[n] = 0
  BY <1>1, UnmountedIsCurrent
<1>2. CASE mounts[n] # 0
  <2>1. ~ Moot(plan[k]) /\ Len(plan) \in Nat /\ DOMAIN plan = 1..Len(plan)
    BY <1>2 DEF Moot, Unmounts
  <2>2. PICK i \in 1..k : Pending(plan) = SubSeq(plan, i, Len(plan))
    BY <2>1, PendingStarts
  <2>3. PICK todo \in Seq(PlanSteps) : todo = Pending(plan)
    BY PendingTyped
  <2> DEFINE j == k - i + 1
  <2>4. /\ j \in 1..Len(todo) /\ todo[j] = plan[k] /\ Len(todo) \in Nat
    <3>1. i \in 1..Len(plan) /\ k \in 1..Len(plan) /\ i <= k
      BY <2>1
    <3>2. todo = SubSeq(plan, i, Len(plan))
      BY <2>2, <2>3
    <3> QED BY <2>1, <3>1, <3>2
  <2>5. todo # <<>>
    BY <2>4
  <2>6. CASE j = 1
    <3>1. Head(todo) = plan[k]
      BY <2>4, <2>5, <2>6
    <3>2. unmount(t, n, Tail(todo))
      BY <2>3, <2>5, <3>1 DEF Proceed, Unmounts
    <3>3. Remounted(n)
      BY <3>2 DEF unmount, Remounted, SupInv, SupervisorTypes
    <3> QED BY <3>3, RemountedIsCurrent
  <2>7. CASE j # 1
    <3>1. j \in 2..Len(todo)
      BY <2>4, <2>7
    <3> HIDE DEF j
    <3>2. PICK i2 \in DOMAIN call'[t].plan : call'[t].plan[i2] = todo[j]
      BY <2>3, <2>5, <3>1, RestIsAhead
    <3>3. Unmounts(call'[t].plan[i2], n)
      BY <2>4, <3>2
    <3> QED BY <3>2, <3>3 DEF UnmountAhead, Unmounts
  <2> QED BY <2>6, <2>7
<1> QED BY <1>1, <1>2

\* So a stretch of a call keeps every surface current, or with an unmount ahead,
\* if the task goes on with its own plan, or had none.
LEMMA StretchKeeps ==
  ASSUME SupInv, SupInv', NEW n \in Names, NEW t \in Tasks, NEW plan \in Seq(PlanSteps),
         Proceed(t, plan), call[t].plan \in {<<>>, plan}, disk'[n].entry = disk[n].entry,
         UnmountAhead(n) \/ Current(n)
  PROVE  UnmountAhead(n)' \/ Current(n)'
<1>1. CASE Current(n)
  BY <1>1, ProceedRemounts, RemountedIsCurrent, LeftAloneIsCurrent
<1>2. CASE UnmountAhead(n)
  <2>1. PICK u \in Tasks : \E i \in DOMAIN call[u].plan : Unmounts(call[u].plan[i], n)
    BY <1>2 DEF UnmountAhead
  <2>2. CASE u = t
    <3>1. call[t].plan # <<>>
      BY <2>1, <2>2
    <3>2. PICK i \in DOMAIN plan : Unmounts(plan[i], n)
      BY <2>1, <2>2, <3>1
    <3> QED BY <3>2, StepIsAhead
  <2>3. CASE u # t
    <3>1. call'[u] = call[u]
      BY <2>3, ProceedRemounts
    <3> QED BY <2>1, <3>1 DEF UnmountAhead, Unmounts
  <2> QED BY <2>2, <2>3
<1> QED BY <1>1, <1>2

\* A reload remounts its surface in one stretch: it unmounts it, or enters it anew.
LEMMA ReloadRemounts ==
  ASSUME SupInv, SupInv', NEW n \in Names, NEW t \in Tasks, NEW b \in Bundles \cup {None},
         Proceed(t, reloadPlan(n, b))
  PROVE  Current(n)'
<1> DEFINE s1 == Step("unmount", n, None, 0)
           s2 == Step("mount", n, b, 0)
<1>1. /\ reloadPlan(n, b) = <<s1, s2>>
      /\ s1.do = "unmount" /\ s1.ui = n
  BY DEF reloadPlan, Step
<1>2. PICK plan \in Seq(PlanSteps) : plan = reloadPlan(n, b)
  BY ReloadPlanTyped
<1>3. Moot(s1) = (mounts[n] = 0)
  BY <1>1 DEF Moot
<1>4. plan = <<s1, s2>>
  BY <1>1, <1>2
<1> HIDE DEF s1, s2
<1>5. Proceed(t, plan)
  BY <1>2
<1>6. CASE mounts[n] # 0
  <2>1. plan[1] = s1 /\ 1 \in DOMAIN plan /\ Len(plan) = 2
    BY <1>4
  <2>2. PICK i \in 1..1 : Pending(plan) = SubSeq(plan, i, Len(plan))
    BY <1>3, <1>6, <2>1, PendingStarts
  <2>3. PICK todo \in Seq(PlanSteps) : todo = Pending(plan)
    BY PendingTyped
  <2>4. todo = SubSeq(plan, i, Len(plan)) /\ i \in Nat /\ i = 1
    BY <2>2, <2>3
  <2>5. todo # <<>> /\ Head(todo) = s1
    <3>1. Len(plan) \in Nat /\ i \in 1..Len(plan)
      BY <2>1, <2>4
    <3>2. Len(todo) = 2 /\ todo[1] = plan[i]
      BY <2>1, <2>4, <3>1
    <3>3. todo # <<>>
      <4>1. Len(todo) = 2
        BY <3>2
      <4>2. SUFFICES ASSUME todo = <<>> PROVE FALSE
        OBVIOUS
      <4>3. Len(todo) = 0
        BY <4>2, EmptySeq
      <4> QED BY <4>1, <4>3
    <3>4. Head(todo) = todo[1]
      BY <2>3, <3>2, <3>3, HeadTailProperties
    <3>5. plan[1] = s1 /\ i = 1
      BY <2>1, <2>4
    <3> QED BY <3>2, <3>3, <3>4, <3>5
  <2>6. unmount(t, n, Tail(todo))
    BY <1>1, <1>5, <2>3, <2>5 DEF Proceed
  <2>7. Remounted(n)
    BY <2>6 DEF unmount, Remounted, SupInv, SupervisorTypes
  <2> QED BY <2>7, RemountedIsCurrent
<1>7. CASE mounts[n] = 0
  BY <1>5, <1>7, UnmountedIsCurrent
<1> QED BY <1>6, <1>7

\* A sync that does not want a surface takes it out of the map in its turn.
LEMMA SyncUnmounts ==
  ASSUME SupInv, SupInv', NEW n \in Names, NEW t \in Tasks, NEW uis \in Metas,
         ~ BackedBundle(uis[n]), Proceed(t, syncPlan(uis))
  PROVE  UnmountAhead(n)' \/ Current(n)'
<1>1. MapSound
  BY DEF SupInv, SupervisorTypes, MapSound
<1>2. PICK plan \in Seq(PlanSteps) : plan = syncPlan(uis)
  BY <1>1, SyncPlanTyped
<1>3. Proceed(t, plan)
  BY <1>2
<1>4. CASE mounts[n] = 0
  BY <1>3, <1>4, UnmountedIsCurrent
<1>5. CASE mounts[n] # 0
  <2> DEFINE M == {m \in Names : mounts[m] # 0}
             W == {m \in Names : BackedBundle(uis[m])}
             a == OldestFirst(M)
             b == NamesOf(W)
             N == Cardinality(M)
             s == Steps(a, LAMBDA m : Step("reconcile", m, uis[m], 0))
             w == Steps(b, LAMBDA m : Step("ensure", m, uis[m], 0))
             s1 == Step("reconcile", n, uis[n], 0)
  <2>1. M \in SUBSET Names /\ n \in M /\ \A m \in M : mounts[m] # 0
    BY <1>5
  <2>2. a \in [1..N -> M] /\ N \in Nat /\ \E i \in 1..N : a[i] = n
    BY <1>1, <2>1, OrderedByAge
  <2>3. b \in [1..Cardinality(W) -> Names] /\ Cardinality(W) \in Nat
    BY NamesWrittenDown
  <2>4. syncPlan(uis) = s \o w
    BY DEF syncPlan
  <2>5. s = [i \in DOMAIN a |-> Step("reconcile", a[i], uis[a[i]], 0)]
    BY DEF Steps
  <2>6. w = [i \in DOMAIN b |-> Step("ensure", b[i], uis[b[i]], 0)]
    BY DEF Steps
  <2>7. \A m \in Names, do \in {"reconcile", "ensure"} : Step(do, m, uis[m], 0) \in PlanSteps
    BY DEF Step, PlanSteps, Metas
  <2>8. Unmounts(s1, n)
    BY DEF Unmounts, Step
  <2> HIDE DEF a, b, M, W, N
  <2>9. PICK i \in 1..N : a[i] = n
    BY <2>2
  <2>10. s \in [1..N -> PlanSteps] /\ s[i] = s1
    <3>1. \A k \in 1..N : a[k] \in Names
      BY <2>1, <2>2
    <3> QED BY <2>2, <2>5, <2>7, <2>9, <3>1
  <2>11. w \in [1..Cardinality(W) -> PlanSteps]
    BY <2>3, <2>6, <2>7
  <2> HIDE DEF s, w, s1
  <2>12. s \in Seq(PlanSteps) /\ w \in Seq(PlanSteps)
    BY <2>2, <2>3, <2>10, <2>11, SegmentIsSeq
  <2>13. i \in 1..Len(s) /\ Len(s) \in Nat /\ Len(w) \in Nat
    <3>1. DOMAIN s = 1..N /\ DOMAIN s = 1..Len(s) /\ Len(s) \in Nat
      BY <2>10, <2>12, LenProperties
    <3> QED BY <2>9, <2>12, <3>1, LenProperties
  <2>14. i \in DOMAIN plan /\ plan[i] = s1
    <3>1. plan = s \o w
      BY <1>2, <2>4
    <3>2. Len(s \o w) = Len(s) + Len(w) /\ (s \o w)[i] = s[i]
      BY <2>12, <2>13, ConcatProperties
    <3> QED BY <2>10, <2>13, <3>1, <3>2
  <2> QED BY <1>3, <2>8, <2>14, StepIsAhead
<1> QED BY <1>4, <1>5

\* A remount, whatever handler asks for it.
LEMMA RemountSettles ==
  ASSUME SupInv, SupInv', NEW n \in Names, NEW t \in Tasks, NEW uis \in Metas,
         Proceed(t, IF BackedBundle(uis[n]) THEN reloadPlan(n, uis[n]) ELSE syncPlan(uis))
  PROVE  UnmountAhead(n)' \/ Current(n)'
<1>1. uis[n] \in Bundles \cup {None}
  BY DEF Metas
<1>2. CASE BackedBundle(uis[n])
  <2>1. Proceed(t, reloadPlan(n, uis[n]))
    BY <1>2
  <2> QED BY <1>1, <2>1, ReloadRemounts
<1>3. CASE ~ BackedBundle(uis[n])
  <2>1. Proceed(t, syncPlan(uis))
    BY <1>3
  <2> QED BY <1>3, <2>1, SyncUnmounts
<1> QED BY <1>2, <1>3

-----------------------------------------------------------------------------

\* The state of one surface besides the plans.
Settled(n) == Excused(n) \/ UnmountAhead(n) \/ Current(n)

\* A step that leaves the task of every add in its await leaves the excuses, if
\* what is behind stays so.
LEMMA ExcusesKept ==
  ASSUME NEW n \in Names, NEW t \in Tasks, \A u \in Tasks : u # t => op'[u] = op[u],
         n \in behind => n \in behind', ~ (AddAwaits(t, n) /\ op[t].replaced), Excused(n)
  PROVE  Excused(n)'
BY DEF Excused, ReplacementAwaits, AddAwaits

\* A step that touches neither the map nor the calls but that of one task, which
\* had no step left.
LEMMA CallKeeps ==
  ASSUME SupInv, NEW n \in Names, NEW t \in Tasks, call[t].plan = <<>>, NEW c, c.at # "factory",
         call' = [call EXCEPT ![t] = c], UNCHANGED <<mounts, recs>>,
         disk'[n].entry = disk[n].entry, UnmountAhead(n) \/ Current(n)
  PROVE  UnmountAhead(n)' \/ Current(n)'
<1>1. /\ \A u \in Tasks : u # t => call'[u] = call[u]
      /\ \A u \in Tasks : call'[u].at = "factory" => call'[u] = call[u]
  BY DEF SupInv, SupervisorTypes
<1>2. CASE Current(n)
  BY <1>1, <1>2 DEF Current
<1>3. CASE UnmountAhead(n)
  <2>1. PICK u \in Tasks : \E i \in DOMAIN call[u].plan : Unmounts(call[u].plan[i], n)
    BY <1>3 DEF UnmountAhead
  <2>2. u # t
    BY <2>1
  <2> QED BY <1>1, <2>1, <2>2 DEF UnmountAhead, Unmounts
<1> QED BY <1>2, <1>3

\* A step that leaves map and calls alone.
LEMMA SupervisorIdle ==
  ASSUME NEW n \in Names, UNCHANGED <<mounts, recs, call>>, disk'[n].entry = disk[n].entry,
         UnmountAhead(n) \/ Current(n)
  PROVE  UnmountAhead(n)' \/ Current(n)'
BY DEF UnmountAhead, Unmounts, Current

\* The OAuth client file makes a directory and no server file.
LEMMA OauthKeepsEntry ==
  ASSUME HostTypes, NEW m, writeOauthClientFile(m) \/ UNCHANGED disk, NEW n \in Names
  PROVE  disk'[n].entry = disk[n].entry /\ (disk[n].dir => disk'[n].dir)
BY DEF HostTypes, writeOauthClientFile

\* A stretch leaves a plan behind only with something to await.
LEMMA PlansKept ==
  ASSUME SupInv, PlansDone, NEW t \in Tasks,
         \A u \in Tasks : u # t => op'[u] = op[u] /\ call'[u] = call[u],
         op'[t].kind = "idle" \/ op'[t].at = "hub" \/ call'[t].at = "done" => call'[t].plan = <<>>
  PROVE  PlansDone'
BY DEF PlansDone

\* A call that is over has no steps left.
LEMMA DoneIsDone ==
  ASSUME SupInv, NEW t \in Tasks, NEW plan \in Seq(PlanSteps), Proceed(t, plan)
  PROVE  call'[t].at = "done" => call'[t].plan = <<>>
<1>1. call \in [Tasks -> Calls]
  BY DEF SupInv, SupervisorTypes
<1>2. \A n, r : unmount(t, n, r) => call'[t].at # "done"
  BY <1>1 DEF unmount, Idle
<1>3. \A n, b, r : enter(t, n, b, r) => call'[t].at # "done"
  BY <1>1 DEF enter, Idle
<1>4. call' = [call EXCEPT ![t] = [Idle EXCEPT !.at = "done"]] => call'[t].plan = <<>>
  BY <1>1 DEF Idle
<1> QED BY <1>2, <1>3, <1>4, ProceedKinds

\* A handler begins.
LEMMA StartSettles ==
  ASSUME DaemonInv, DaemonInv', CurrentInv, NEW t \in Tasks, Start(t)
  PROVE  CurrentInv'
<1>0. /\ SupInv /\ SupInv' /\ HostTypes /\ op \in [Tasks -> Ops] /\ PlansDone
      /\ call \in [Tasks -> Calls]
      /\ disk \in [Names -> [dir : BOOLEAN, meta : Bundles \cup {None},
                             entry : Bundles \cup {None}]]
      /\ \A n \in Names : NoFilesLeft(n) /\ Settled(n)
  BY DEF DaemonInv, HostTypes, CurrentInv, Settled, SupInv, SupervisorTypes
<1>1. op[t].kind = "idle" /\ call[t].plan = <<>>
  <2>1. op[t].kind = "idle"
    BY DEF Start, Begin, AddWrites, DeleteStarts, Reload, RegisterOauth, Deliver, PatchConfig
  <2> QED BY <1>0, <2>1 DEF PlansDone
<1>2. ASSUME NEW n \in Names, NEW o, op' = [op EXCEPT ![t] = o], n \in behind => n \in behind',
             Excused(n)
      PROVE  Excused(n)'
  <2>1. \A u \in Tasks : u # t => op'[u] = op[u]
    BY <1>0, <1>2
  <2> QED BY <1>1, <1>2, <2>1, ExcusesKept DEF AddAwaits
<1>3. ASSUME NEW n \in Names, NEW b \in Bundles, NEW force \in BOOLEAN, AddWrites(t, n, b, force)
      PROVE  CurrentInv'
  <2> DEFINE o == [NoOp EXCEPT !.kind = "add", !.ui = n, !.at = "hub", !.replaced = disk[n].dir]
  <2>1. op' = [op EXCEPT ![t] = o] /\ UNCHANGED <<mounts, recs, call, behind>>
    BY <1>3 DEF AddWrites, supVars
  <2>2. o.kind = "add" /\ o.ui = n /\ o.at = "hub" /\ o.replaced = disk[n].dir
    BY DEF NoOp
  <2> HIDE DEF o
  <2>3. /\ disk'[n].dir
        /\ \A m \in Names : m # n => disk'[m] = disk[m]
    BY <1>0, <1>3 DEF AddWrites
  <2>4. op'[t] = o /\ \A u \in Tasks : u # t => op'[u] = op[u]
    BY <1>0, <2>1
  <2>5. PlansDone'
    BY <1>0, <1>1, <2>1, <2>4, PlansKept
  <2>6. \A m \in Names : NoFilesLeft(m)'
    BY <1>0, <2>3 DEF NoFilesLeft
  <2>7. ASSUME NEW m \in Names
        PROVE  Settled(m)'
    <3>1. CASE Excused(m)
      BY <1>2, <2>1, <3>1 DEF Settled
    <3>2. CASE m = n /\ disk[n].dir
      <4>1. ReplacementAwaits(n)'
        BY <2>2, <2>4, <3>2 DEF ReplacementAwaits, AddAwaits
      <4> QED BY <3>2, <4>1 DEF Settled, Excused
    <3>3. CASE ~ Excused(m) /\ m = n /\ ~ disk[n].dir
      <4>1. disk[n].entry = None
        BY <1>0, <3>3 DEF NoFilesLeft
      <4>2. UnmountAhead(n) => UnmountAhead(n)'
        BY <2>1 DEF UnmountAhead, Unmounts
      <4>3. Current(n) => Current(n)'
        BY <2>1, <4>1 DEF Current
      <4> QED BY <1>0, <3>3, <4>2, <4>3 DEF Settled
    <3>4. CASE ~ Excused(m) /\ m # n
      <4>1. disk'[m].entry = disk[m].entry
        BY <2>3, <3>4
      <4> QED BY <1>0, <2>1, <3>4, <4>1, SupervisorIdle DEF Settled
    <3> QED BY <3>1, <3>2, <3>3, <3>4
  <2> QED BY <2>5, <2>6, <2>7 DEF CurrentInv, Settled
<1>4. ASSUME NEW n \in Names, DeleteStarts(t, n) \/ RegisterOauth(t, n)
      PROVE  CurrentInv'
  <2>1. UNCHANGED <<disk, mounts, recs, call, behind>> /\ \E o : op' = [op EXCEPT ![t] = o]
    BY <1>4 DEF DeleteStarts, RegisterOauth, supVars
  <2>2. \A u \in Tasks : u # t => op'[u] = op[u]
    BY <1>0, <2>1
  <2>3. PlansDone'
    BY <1>0, <1>1, <2>1, <2>2, PlansKept
  <2>4. ASSUME NEW m \in Names
        PROVE  Settled(m)'
    <3>1. CASE Excused(m)
      BY <1>2, <2>1, <3>1 DEF Settled
    <3>2. CASE ~ Excused(m)
      BY <1>0, <2>1, <3>2, SupervisorIdle DEF Settled
    <3> QED BY <3>1, <3>2
  <2> QED BY <1>0, <2>1, <2>3, <2>4 DEF CurrentInv, Settled, NoFilesLeft
<1>5. ASSUME NEW n \in Names, Reload(t, n)
      PROVE  CurrentInv'
  <2> DEFINE o == [NoOp EXCEPT !.kind = "reload", !.ui = n, !.at = "tail"]
  <2>1. PICK uis \in Metas : uis = scanUis(disk)
    BY <1>0, ScanTyped
  <2>2. /\ Proceed(t, IF BackedBundle(uis[n]) THEN reloadPlan(n, uis[n]) ELSE syncPlan(uis))
        /\ UNCHANGED disk /\ behind' = behind \ {n} /\ op' = [op EXCEPT ![t] = o]
    BY <1>5, <2>1 DEF Reload
  <2>3. o.kind = "reload" /\ o.at = "tail"
    BY DEF NoOp
  <2> HIDE DEF o
  <2>4. PICK plan \in Seq(PlanSteps) :
          plan = IF BackedBundle(uis[n]) THEN reloadPlan(n, uis[n]) ELSE syncPlan(uis)
    <3>1. uis[n] \in Bundles \cup {None} /\ MapSound
      BY <1>0 DEF Metas, SupInv, SupervisorTypes, MapSound
    <3> QED BY <3>1, ReloadPlanTyped, SyncPlanTyped
  <2>5. Proceed(t, plan)
    BY <2>2, <2>4
  <2>6. PlansDone'
    <3>1. \A u \in Tasks : u # t => op'[u] = op[u] /\ call'[u] = call[u]
      BY <1>0, <2>2, <2>5, ProceedRemounts, <1>5
    <3>2. op'[t] = o
      BY <1>0, <2>2
    <3> QED BY <1>0, <2>3, <2>5, <3>1, <3>2, DoneIsDone, PlansKept
  <2>7. ASSUME NEW m \in Names
        PROVE  Settled(m)'
    <3>1. CASE m = n
      BY <1>0, <2>2, <3>1, RemountSettles DEF Settled
    <3>2. CASE m # n /\ Excused(m)
      BY <1>2, <2>2, <3>2 DEF Settled
    <3>3. CASE m # n /\ ~ Excused(m)
      BY <1>0, <1>1, <2>2, <2>5, <3>3, StretchKeeps DEF Settled
    <3> QED BY <3>1, <3>2, <3>3
  <2> QED BY <1>0, <2>2, <2>6, <2>7 DEF CurrentInv, Settled, NoFilesLeft
<1>6. ASSUME NEW c, c.at = "next", call' = [call EXCEPT ![t] = c],
             NEW o, o.kind # "idle", o.at = "tail", op' = [op EXCEPT ![t] = o],
             UNCHANGED <<disk, mounts, recs, behind>>
      PROVE  CurrentInv'
  <2>1. /\ op'[t] = o /\ call'[t] = c
        /\ \A u \in Tasks : u # t => op'[u] = op[u] /\ call'[u] = call[u]
    BY <1>0, <1>6
  <2>2. PlansDone'
    BY <1>0, <1>6, <2>1, PlansKept
  <2>3. ASSUME NEW m \in Names
        PROVE  Settled(m)'
    <3>1. CASE Excused(m)
      BY <1>2, <1>6, <3>1 DEF Settled
    <3>2. CASE ~ Excused(m)
      BY <1>0, <1>1, <1>6, <3>2, CallKeeps DEF Settled
    <3> QED BY <3>1, <3>2
  <2> QED BY <1>0, <1>6, <2>2, <2>3 DEF CurrentInv, Settled, NoFilesLeft
<1>7. ASSUME NEW c \in Conns, NEW a \in {"provisioned", "removed"}, Deliver(t, a, c)
      PROVE  CurrentInv'
  <2>1. /\ [Idle EXCEPT !.at = "next", !.plan = retryPlan(registered)].at = "next"
        /\ [NoOp EXCEPT !.kind = "deliver", !.at = "tail"].kind = "deliver"
        /\ [NoOp EXCEPT !.kind = "deliver", !.at = "tail"].at = "tail"
    BY DEF Idle, NoOp
  <2> QED BY <1>6, <1>7, <2>1 DEF Deliver
<1>8. ASSUME NEW m \in Names, NEW c \in Conns \cup {None}, PatchConfig(t, m, c)
      PROVE  CurrentInv'
  <2>1. /\ [Idle EXCEPT !.at = "next", !.plan = retryPlan(registered)].at = "next"
        /\ [NoOp EXCEPT !.kind = "bind", !.at = "tail"].kind = "bind"
        /\ [NoOp EXCEPT !.kind = "bind", !.at = "tail"].at = "tail"
    BY DEF Idle, NoOp
  <2> QED BY <1>6, <1>8, <2>1 DEF PatchConfig
<1> QED BY <1>3, <1>4, <1>5, <1>7, <1>8 DEF Start

\* A stretch leaves the calls of the others alone.
LEMMA OthersWait ==
  ASSUME SupInv, NEW t \in Tasks, NEW plan \in Seq(PlanSteps), Proceed(t, plan)
  PROVE  \A u \in Tasks : u # t => call'[u] = call[u]
<1>1. call \in [Tasks -> Calls]
  BY DEF SupInv, SupervisorTypes
<1>2. \A n, r : unmount(t, n, r) => \A u \in Tasks : u # t => call'[u] = call[u]
  BY <1>1 DEF unmount
<1>3. \A n, b, r : enter(t, n, b, r) => \A u \in Tasks : u # t => call'[u] = call[u]
  BY <1>1 DEF enter
<1> QED BY <1>1, <1>2, <1>3, ProceedKinds

\* The continuations of a call.
LEMMA CallStepSettles ==
  ASSUME SupInv, SupInv', HostTypes, PlansDone, NEW t \in Tasks, SupervisorStep(t),
         UNCHANGED <<disk, op>>
  PROVE  /\ PlansDone'
         /\ \A n \in Names : UnmountAhead(n) \/ Current(n) => UnmountAhead(n)' \/ Current(n)'
<1>0. /\ call \in [Tasks -> Calls] /\ recs \in Seq(Records) /\ mounts \in [Names -> 0..Len(recs)]
      /\ \A n \in Names : mounts[n] # 0 => mounts[n] \in DOMAIN recs
  BY DEF SupInv, SupervisorTypes
<1>1. CASE Resume(t)
  <2>1. PICK plan \in Seq(PlanSteps) : plan = call[t].plan
    BY <1>0 DEF Calls, PlanSteps
  <2>2. Proceed(t, plan)
    BY <1>1, <2>1 DEF Resume
  <2>3. \A u \in Tasks : u # t => op'[u] = op[u] /\ call'[u] = call[u]
    BY <2>2, OthersWait
  <2>4. CASE plan = <<>>
    <3>1. Pending(plan) = <<>>
      BY <2>4 DEF Pending
    <3>2. call'[t].plan = <<>>
      BY <1>0, <2>2, <3>1 DEF Proceed, Idle
    <3>3. PlansDone'
      BY <2>3, <3>2, PlansKept
    <3> QED BY <2>1, <2>2, <3>3, StretchKeeps
  <2>5. CASE plan # <<>>
    <3>1. ~ (op[t].kind = "idle" \/ op[t].at = "hub")
      BY <2>1, <2>5 DEF PlansDone
    <3>2. PlansDone'
      BY <2>2, <2>3, <3>1, DoneIsDone, PlansKept
    <3> QED BY <2>1, <2>2, <3>2, StretchKeeps
  <2> QED BY <2>4, <2>5
<1>2. ASSUME call'[t].plan = call[t].plan, call'[t].at # "done",
             \A u \in Tasks : u # t => call'[u] = call[u]
      PROVE  PlansDone' /\ \A n \in Names : UnmountAhead(n) => UnmountAhead(n)'
  <2>1. \A u \in Tasks : call'[u].plan = call[u].plan
    BY <1>2
  <2>2. \A n \in Names : UnmountAhead(n) => UnmountAhead(n)'
    BY <2>1 DEF UnmountAhead, Unmounts
  <2>3. op'[t].kind = "idle" \/ op'[t].at = "hub" \/ call'[t].at = "done" => call'[t].plan = <<>>
    BY <1>2 DEF PlansDone
  <2> QED BY <1>2, <2>2, <2>3, PlansKept
<1>3. CASE ImportResolves(t)
  <2> DEFINE g == call[t].gen
             entry == disk[recs[g].ui].entry
  <2>1. g \in DOMAIN recs
    BY <1>3 DEF ImportResolves, SupInv, MountsInHand, Mounting
  <2>2. /\ entry # None /\ UNCHANGED mounts
        /\ recs' = [recs EXCEPT ![g].store = "open"]
        /\ call' = [call EXCEPT ![t].at = "factory", ![t].code = entry]
    BY <1>3 DEF ImportResolves
  <2>3. \A k \in DOMAIN recs : recs'[k].code = recs[k].code
    BY <1>0, <2>1, <2>2
  <2>4. /\ call'[t].code = entry /\ call'[t].gen = g /\ call'[t].plan = call[t].plan
        /\ call'[t].at = "factory"
        /\ \A u \in Tasks : u # t => call'[u] = call[u]
    BY <1>0, <2>2 DEF Calls
  <2>5. ASSUME NEW n \in Names, Current(n)
        PROVE  Current(n)'
    <3>1. mounts[n] = g => recs[g].ui = n
      BY <1>0, <2>1 DEF SupInv, MountsAreOwn
    <3>2. mounts'[n] # 0 => recs'[mounts'[n]].code \in {None, disk'[n].entry}
      BY <1>0, <2>2, <2>3, <2>5 DEF Current
    <3>3. ASSUME NEW u \in Tasks, call'[u].at = "factory", call'[u].gen = mounts'[n]
          PROVE  call'[u].code = disk'[n].entry /\ disk'[n].entry # None
      <4>1. CASE u = t
        BY <2>2, <2>4, <3>1, <3>3, <4>1
      <4>2. CASE u # t
        BY <2>2, <2>4, <2>5, <3>3, <4>2 DEF Current
      <4> QED BY <4>1, <4>2
    <3> QED BY <3>2, <3>3 DEF Current
  <2> QED BY <1>2, <2>4, <2>5
<1>4. CASE FactoryReturns(t)
  <2> DEFINE g == call[t].gen
             c == [Idle EXCEPT !.at = "next", !.plan = call[t].plan]
  <2>1. g \in DOMAIN recs /\ recs[g] \in Records
    <3>1. g \in DOMAIN recs
      BY <1>4 DEF FactoryReturns, SupInv, MountsInHand, Mounting
    <3> QED BY <1>0, <3>1
  <2>2. /\ call[t].at = "factory" /\ UNCHANGED mounts
        /\ recs' = [recs EXCEPT ![g].code = call[t].code, ![g].status = "active"]
        /\ call' = [call EXCEPT ![t] = c]
    BY <1>4 DEF FactoryReturns
  <2>3. \A k \in DOMAIN recs : recs'[k].code = IF k = g THEN call[t].code ELSE recs[k].code
    BY <1>0, <2>1, <2>2 DEF Records
  <2>4. c.at = "next" /\ c.plan = call[t].plan
    BY DEF Idle
  <2> HIDE DEF c
  <2>5. /\ \A u \in Tasks : u # t => call'[u] = call[u]
        /\ \A u \in Tasks : call'[u].at = "factory" => call'[u] = call[u]
        /\ call'[t] = c
    BY <1>0, <2>2, <2>4
  <2>6. \A n \in Names : Current(n) => Current(n)'
    BY <1>0, <2>2, <2>3, <2>5 DEF Current
  <2> QED BY <1>2, <2>4, <2>5, <2>6
<1>5. CASE MountFails(t)
  <2> DEFINE c == [Idle EXCEPT !.at = "next", !.plan = call[t].plan]
  <2>1. call' = [call EXCEPT ![t] = c] /\ UNCHANGED <<mounts, recs>>
    BY <1>5 DEF MountFails
  <2>2. c.at = "next" /\ c.plan = call[t].plan
    BY DEF Idle
  <2> HIDE DEF c
  <2>3. /\ \A u \in Tasks : u # t => call'[u] = call[u]
        /\ \A u \in Tasks : call'[u].at = "factory" => call'[u] = call[u]
        /\ call'[t] = c
    BY <1>0, <2>1, <2>2
  <2>4. \A n \in Names : Current(n) => Current(n)'
    BY <2>1, <2>3 DEF Current
  <2> QED BY <1>2, <2>2, <2>3, <2>4
<1> QED BY <1>1, <1>3, <1>4, <1>5 DEF SupervisorStep

\* A handler goes on after an await, or ends.
LEMMA ContinueSettles ==
  ASSUME DaemonInv, DaemonInv', CurrentInv, NEW t \in Tasks, Continue(t)
  PROVE  CurrentInv'
<1>0. /\ SupInv /\ SupInv' /\ HostTypes /\ op \in [Tasks -> Ops] /\ PlansDone
      /\ call \in [Tasks -> Calls] /\ recs \in Seq(Records) /\ mounts \in [Names -> 0..Len(recs)]
      /\ disk \in [Names -> [dir : BOOLEAN, meta : Bundles \cup {None},
                             entry : Bundles \cup {None}]]
      /\ op[t].kind \in {"add", "delete", "oauth"} => op[t].ui \in Names
      /\ \A n \in Names : NoFilesLeft(n) /\ Settled(n)
  BY DEF DaemonInv, HostTypes, SupInv, SupervisorTypes, DaemonTypes, OpsAreNamed, CurrentInv,
         Settled
<1>1. CASE AddMounts(t)
  <2>1. PICK n \in Names : n = op[t].ui
    BY <1>0, <1>1 DEF AddMounts
  <2>2. PICK uis \in Metas : uis = scanUis(disk)
    BY <1>0, ScanTyped
  <2>3. /\ Proceed(t, IF op[t].replaced /\ BackedBundle(uis[n])
                       THEN reloadPlan(n, uis[n]) ELSE syncPlan(uis))
        /\ writeOauthClientFile(n) \/ UNCHANGED disk
        /\ behind' = IF op[t].replaced THEN behind \ {n} ELSE behind
        /\ op' = [op EXCEPT ![t].at = "tail"] /\ op[t].kind = "add" /\ op[t].at = "hub"
    BY <1>1, <2>1, <2>2 DEF AddMounts
  <2>4. \A m \in Names : disk'[m].entry = disk[m].entry /\ (disk[m].dir => disk'[m].dir)
    BY <1>0, <2>3, OauthKeepsEntry
  <2>5. PICK plan \in Seq(PlanSteps) :
          plan = IF op[t].replaced /\ BackedBundle(uis[n]) THEN reloadPlan(n, uis[n])
                 ELSE syncPlan(uis)
    <3>1. uis[n] \in Bundles \cup {None} /\ MapSound
      BY <1>0 DEF Metas, SupInv, SupervisorTypes, MapSound
    <3> QED BY <3>1, ReloadPlanTyped, SyncPlanTyped
  <2>6. Proceed(t, plan) /\ call[t].plan = <<>>
    BY <1>0, <2>3, <2>5 DEF PlansDone
  <2>7. /\ \A u \in Tasks : u # t => op'[u] = op[u] /\ call'[u] = call[u]
        /\ op'[t].kind = "add" /\ op'[t].at = "tail"
    <3>1. \A u \in Tasks : u # t => call'[u] = call[u]
      BY <1>0, <2>1, <2>6, ProceedRemounts
    <3> QED BY <1>0, <2>3, <3>1 DEF Ops
  <2>8. PlansDone'
    BY <1>0, <2>6, <2>7, DoneIsDone, PlansKept
  <2>9. ASSUME NEW m \in Names
        PROVE  Settled(m)'
    <3>1. CASE m = n /\ op[t].replaced
      <4>1. Proceed(t, IF BackedBundle(uis[n]) THEN reloadPlan(n, uis[n]) ELSE syncPlan(uis))
        BY <2>3, <3>1
      <4> QED BY <1>0, <3>1, <4>1, RemountSettles DEF Settled
    <3>2. CASE (m # n \/ ~ op[t].replaced) /\ Excused(m)
      <4>1. m \in behind => m \in behind'
        BY <2>3, <3>2
      <4>2. ~ (AddAwaits(t, m) /\ op[t].replaced)
        BY <2>1, <3>2 DEF AddAwaits
      <4> QED BY <2>7, <3>2, <4>1, <4>2, ExcusesKept DEF Settled
    <3>3. CASE ~ Excused(m)
      BY <1>0, <2>4, <2>6, <3>3, StretchKeeps DEF Settled
    <3> QED BY <3>1, <3>2, <3>3
  <2> QED BY <1>0, <2>4, <2>8, <2>9 DEF CurrentInv, Settled, NoFilesLeft
<1>2. CASE AddBreaksOff(t)
  <2>1. PICK n \in Names : n = op[t].ui
    BY <1>0, <1>2 DEF AddBreaksOff
  <2>2. /\ UNCHANGED <<disk, mounts, recs, call>> /\ op' = [op EXCEPT ![t] = NoOp]
        /\ behind' = IF op[t].replaced THEN behind \cup {n} ELSE behind
        /\ op[t].at = "hub"
    BY <1>2, <2>1 DEF AddBreaksOff, supVars
  <2>3. \A u \in Tasks : u # t => op'[u] = op[u]
    BY <1>0, <2>2
  <2>4. PlansDone'
    BY <1>0, <2>2, <2>3, PlansKept DEF PlansDone
  <2>5. ASSUME NEW m \in Names
        PROVE  Settled(m)'
    <3>1. CASE m = n /\ op[t].replaced
      BY <2>2, <3>1 DEF Settled, Excused
    <3>2. CASE (m # n \/ ~ op[t].replaced) /\ Excused(m)
      <4>1. m \in behind => m \in behind'
        BY <2>2
      <4>2. ~ (AddAwaits(t, m) /\ op[t].replaced)
        BY <2>1, <3>2 DEF AddAwaits
      <4> QED BY <2>3, <3>2, <4>1, <4>2, ExcusesKept DEF Settled
    <3>3. CASE ~ Excused(m)
      BY <1>0, <2>2, <3>3, SupervisorIdle DEF Settled
    <3> QED BY <3>1, <3>2, <3>3
  <2> QED BY <1>0, <2>2, <2>4, <2>5 DEF CurrentInv, Settled, NoFilesLeft
<1>3. ASSUME NEW m \in Names, op[t].kind # "add" \/ op[t].at # "hub",
             \A u \in Tasks : u # t => op'[u] = op[u], m \in behind => m \in behind', Excused(m)
      PROVE  Excused(m)'
  BY <1>3, ExcusesKept DEF AddAwaits
<1>4. CASE DeleteUnmounts(t)
  <2>1. PICK n \in Names : n = op[t].ui
    BY <1>0, <1>4 DEF DeleteUnmounts
  <2>2. PICK c : op' = [op EXCEPT ![t].at = "remove", ![t].cred = c]
    BY <1>4 DEF DeleteUnmounts
  <2>3. PICK plan \in Seq(PlanSteps) : plan = <<Step("unmount", n, None, 0)>>
    <3>1. <<Step("unmount", n, None, 0)>> \in Seq(PlanSteps)
      BY DEF Step, PlanSteps
    <3> QED BY <3>1
  <2>4. /\ op[t].kind = "delete" /\ op[t].at = "hub" /\ UNCHANGED <<disk, behind>>
        /\ Proceed(t, plan)
    BY <1>4, <2>1, <2>3 DEF DeleteUnmounts
  <2>5. call[t].plan = <<>>
    BY <1>0, <2>4 DEF PlansDone
  <2>6. /\ \A u \in Tasks : u # t => op'[u] = op[u] /\ call'[u] = call[u]
        /\ op'[t].kind = "delete" /\ op'[t].at = "remove"
    <3>1. \A u \in Tasks : u # t => call'[u] = call[u]
      BY <1>0, <2>1, <2>4, ProceedRemounts
    <3> QED BY <1>0, <2>2, <2>4, <3>1 DEF Ops
  <2>7. PlansDone'
    BY <1>0, <2>4, <2>6, DoneIsDone, PlansKept
  <2>8. ASSUME NEW m \in Names
        PROVE  Settled(m)'
    <3>1. CASE Excused(m)
      BY <1>3, <2>4, <2>6, <3>1 DEF Settled
    <3>2. CASE ~ Excused(m)
      BY <1>0, <2>4, <2>5, <3>2, StretchKeeps DEF Settled
    <3> QED BY <3>1, <3>2
  <2> QED BY <1>0, <2>4, <2>7, <2>8 DEF CurrentInv, Settled, NoFilesLeft
<1>5. CASE DeleteRemoves(t)
  <2>1. PICK n \in Names : n = op[t].ui
    BY <1>0, <1>5 DEF DeleteRemoves
  <2>2. /\ disk' = [disk EXCEPT ![n] = NoDir] /\ behind' = behind \ {n}
        /\ op[t].kind = "delete" /\ op[t].at = "remove" /\ call[t].at = "done"
        /\ op' = [op EXCEPT ![t].at = "tail"]
    BY <1>5, <2>1 DEF DeleteRemoves
  <2>3. disk'[n] = NoDir /\ \A m \in Names : m # n => disk'[m] = disk[m]
    BY <1>0, <2>2
  <2>4. PICK uis \in Metas : uis = scanUis(disk')
    BY ScanTyped DEF DaemonInv, HostTypes
  <2>5. PICK plan \in Seq(PlanSteps) : plan = syncPlan(uis)
    BY <1>0, SyncPlanTyped DEF SupInv, SupervisorTypes, MapSound
  <2>6. Proceed(t, syncPlan(uis)) /\ Proceed(t, plan) /\ call[t].plan = <<>>
    BY <1>0, <1>5, <2>2, <2>4, <2>5 DEF DeleteRemoves, PlansDone
  <2>7. ~ BackedBundle(uis[n])
    BY <1>0, <2>3, <2>4 DEF scanUis, NoDir, BackedBundle
  <2>8. /\ \A u \in Tasks : u # t => op'[u] = op[u] /\ call'[u] = call[u]
        /\ op'[t].kind = "delete" /\ op'[t].at = "tail"
    <3>1. \A u \in Tasks : u # t => call'[u] = call[u]
      BY <1>0, <2>1, <2>6, ProceedRemounts
    <3> QED BY <1>0, <2>2, <3>1 DEF Ops
  <2>9. PlansDone'
    BY <1>0, <2>6, <2>8, DoneIsDone, PlansKept
  <2>10. ASSUME NEW m \in Names
         PROVE  Settled(m)' /\ NoFilesLeft(m)'
    <3>1. CASE m = n
      <4>1. UnmountAhead(n)' \/ Current(n)'
        BY <1>0, <2>6, <2>7, SyncUnmounts
      <4> QED BY <2>3, <3>1, <4>1 DEF Settled, NoFilesLeft, NoDir
    <3>2. CASE m # n /\ Excused(m)
      <4>1. Excused(m)'
        BY <1>3, <2>2, <2>8, <3>2
      <4> QED BY <1>0, <2>3, <3>2, <4>1 DEF Settled, NoFilesLeft
    <3>3. CASE m # n /\ ~ Excused(m)
      <4>1. UnmountAhead(m)' \/ Current(m)'
        BY <1>0, <2>3, <2>6, <3>3, StretchKeeps DEF Settled
      <4> QED BY <1>0, <2>3, <3>3, <4>1 DEF Settled, NoFilesLeft
    <3> QED BY <3>1, <3>2, <3>3
  <2> QED BY <2>9, <2>10 DEF CurrentInv, Settled
<1>6. CASE OauthRegistered(t)
  <2>1. /\ op[t].kind = "oauth" /\ op[t].at = "hub" /\ UNCHANGED <<mounts, recs, call, behind>>
        /\ writeOauthClientFile(op[t].ui) \/ UNCHANGED disk
        /\ op' = [op EXCEPT ![t] = NoOp]
    BY <1>6 DEF OauthRegistered, supVars
  <2>2. \A m \in Names : disk'[m].entry = disk[m].entry /\ (disk[m].dir => disk'[m].dir)
    BY <1>0, <2>1, OauthKeepsEntry
  <2>3. \A u \in Tasks : u # t => op'[u] = op[u]
    BY <1>0, <2>1
  <2>4. PlansDone'
    BY <1>0, <2>1, <2>3, PlansKept DEF PlansDone
  <2>5. ASSUME NEW m \in Names
        PROVE  Settled(m)'
    <3>1. CASE Excused(m)
      BY <1>3, <2>1, <2>3, <3>1 DEF Settled
    <3>2. CASE ~ Excused(m)
      BY <1>0, <2>1, <2>2, <3>2, SupervisorIdle DEF Settled
    <3> QED BY <3>1, <3>2
  <2> QED BY <1>0, <2>2, <2>4, <2>5 DEF CurrentInv, Settled, NoFilesLeft
<1>7. CASE SupervisorStep(t) /\ UNCHANGED <<credVars, disk, registered, published, op, halfway, behind, started>>
  <2>1. UNCHANGED <<disk, op, behind>>
    BY <1>7
  <2>2. \A m \in Names : Excused(m) => Excused(m)'
    BY <2>1 DEF Excused, ReplacementAwaits, AddAwaits
  <2>3. PlansDone' /\ \A m \in Names : UnmountAhead(m) \/ Current(m) => UnmountAhead(m)' \/ Current(m)'
    BY <1>0, <1>7, <2>1, CallStepSettles
  <2> QED BY <1>0, <2>1, <2>2, <2>3 DEF CurrentInv, Settled, NoFilesLeft
<1>8. CASE Finish(t)
  <2>1. /\ op[t].at = "tail" /\ call[t].at = "done" /\ UNCHANGED <<disk, mounts, recs, behind>>
        /\ op' = [op EXCEPT ![t] = NoOp] /\ call' = [call EXCEPT ![t] = Idle]
    BY <1>8 DEF Finish
  <2>2. /\ \A u \in Tasks : u # t => op'[u] = op[u] /\ call'[u] = call[u]
        /\ call'[t].plan = <<>> /\ call[t].plan = <<>>
    BY <1>0, <2>1 DEF Idle, PlansDone
  <2>3. PlansDone'
    BY <1>0, <2>2, PlansKept
  <2>4. ASSUME NEW m \in Names
        PROVE  Settled(m)'
    <3>1. CASE Excused(m)
      BY <1>3, <2>1, <2>2, <3>1 DEF Settled
    <3>2. CASE ~ Excused(m)
      <4>1. Idle.at # "factory"
        BY DEF Idle
      <4> QED BY <1>0, <2>1, <2>2, <3>2, <4>1, CallKeeps DEF Settled
    <3> QED BY <3>1, <3>2
  <2> QED BY <1>0, <2>1, <2>3, <2>4 DEF CurrentInv, Settled, NoFilesLeft
<1> QED BY <1>1, <1>2, <1>4, <1>5, <1>6, <1>7, <1>8 DEF Continue

\* Every step of the daemon.
LEMMA NextSettles ==
  ASSUME DaemonInv, DaemonInv', CurrentInv, [Next]_vars
  PROVE  CurrentInv'
<1>0. /\ SupInv /\ mounts \in [Names -> 0..Len(recs)] /\ recs \in Seq(Records)
      /\ disk \in [Names -> [dir : BOOLEAN, meta : Bundles \cup {None},
                             entry : Bundles \cup {None}]]
      /\ PlansDone /\ \A n \in Names : NoFilesLeft(n) /\ Settled(n)
  BY DEF DaemonInv, HostTypes, SupInv, SupervisorTypes, CurrentInv, Settled
<1>1. ASSUME UNCHANGED <<call, op, behind, mounts>>,
             \A n \in Names : disk'[n].entry = disk[n].entry /\ (disk[n].dir => disk'[n].dir),
             \A n \in Names : Current(n) => Current(n)'
      PROVE  CurrentInv'
  <2>1. PlansDone'
    BY <1>0, <1>1 DEF PlansDone
  <2>2. \A n \in Names : /\ Excused(n) => Excused(n)'
                         /\ UnmountAhead(n) => UnmountAhead(n)'
                         /\ NoFilesLeft(n) => NoFilesLeft(n)'
    BY <1>1 DEF Excused, ReplacementAwaits, AddAwaits, UnmountAhead, Unmounts, NoFilesLeft
  <2> QED BY <1>0, <1>1, <2>1, <2>2 DEF CurrentInv, Settled
<1>2. ASSUME NEW m \in Names, PatchUi(m) \/ \E b \in Bundles : GitPushed(m, b)
      PROVE  CurrentInv'
  <2>1. UNCHANGED <<mounts, recs, call, op, behind>>
    BY <1>2 DEF PatchUi, GitPushed, supVars
  <2>2. \A n \in Names : disk'[n].entry = disk[n].entry /\ (disk[n].dir => disk'[n].dir)
    BY <1>0, <1>2 DEF PatchUi, GitPushed
  <2>3. \A n \in Names : Current(n) => Current(n)'
    BY <2>1, <2>2 DEF Current
  <2> QED BY <1>1, <2>1, <2>2, <2>3
<1>3. ASSUME Traffic /\ UNCHANGED <<credVars, disk, registered, published, op, halfway, behind, started>>
      PROVE  CurrentInv'
  <2>1. CodesKept /\ UNCHANGED <<disk, op, behind>>
    BY <1>0, <1>3, TrafficKeeps
  <2>2. \A n \in Names : mounts[n] # 0 => mounts[n] \in DOMAIN recs
    BY <1>0
  <2>3. \A n \in Names : Current(n) => Current(n)'
    BY <2>1, <2>2 DEF Current, CodesKept
  <2>4. UNCHANGED <<call, mounts>>
    BY <2>1 DEF CodesKept
  <2> QED BY <1>1, <2>1, <2>3, <2>4
<1>4. ASSUME UNCHANGED vars
      PROVE  CurrentInv'
  <2>1. UNCHANGED <<disk, mounts, recs, call, op, behind>>
    BY <1>4 DEF vars, supVars
  <2>2. \A n \in Names : Current(n) => Current(n)'
    BY <2>1 DEF Current
  <2> QED BY <1>1, <2>1, <2>2
<1>5. \/ \E t \in Tasks : Start(t) \/ Continue(t)
      \/ \E m \in Names : PatchUi(m) \/ \E b \in Bundles : GitPushed(m, b)
      \/ Traffic /\ UNCHANGED <<credVars, disk, registered, published, op, halfway, behind, started>>
      \/ UNCHANGED vars
  BY DEF Next
<1> QED BY <1>2, <1>3, <1>4, <1>5, StartSettles, ContinueSettles

\* The boot pass begins with an empty map.
LEMMA CurrentInit ==
  ASSUME Init
  PROVE  CurrentInv
<1>1. PICK boot \in Tasks :
        /\ call = [t \in Tasks |-> IF t = boot
                     THEN [Idle EXCEPT !.at = "next", !.plan = syncPlan(registered)] ELSE Idle]
        /\ op = [t \in Tasks |-> IF t = boot
                     THEN [NoOp EXCEPT !.kind = "boot", !.at = "tail"] ELSE NoOp]
  BY DEF Init
<1>2. PlansDone
  BY <1>1 DEF PlansDone, Idle, NoOp
<1>3. \A t \in Tasks : call[t].at # "factory"
  BY <1>1 DEF Idle
<1>4. ASSUME NEW n \in Names
      PROVE  NoFilesLeft(n) /\ Current(n)
  <2> DEFINE Dirs == {NoDir} \cup {[dir |-> TRUE, meta |-> b,
                       entry |-> IF BackedBundle(b) THEN b ELSE None] : b \in Bundles}
  <2>1. disk[n] \in Dirs /\ mounts[n] = 0
    BY DEF Init
  <2>2. NoFilesLeft(n)
    BY <2>1 DEF NoFilesLeft, NoDir
  <2> QED BY <1>3, <2>1, <2>2 DEF Current
<1> QED BY <1>2, <1>4 DEF CurrentInv

\* Once no handler is in flight, a backend that serves an installed backed surface
\* runs the code that is installed, unless an add that replaced the surface broke off
\* and nothing has remounted it: for any surfaces, bundles, credentials and handlers.
THEOREM BackendsAreCurrent == Spec => []QuietBackendsAreCurrent
<1>1. Init => CurrentInv
  BY CurrentInit
<1>2. DaemonInv /\ DaemonInv' /\ CurrentInv /\ [Next]_vars => CurrentInv'
  BY NextSettles
<1>3. CurrentInv => QuietBackendsAreCurrent
  <2> SUFFICES ASSUME CurrentInv, Quiet, NEW n \in Names \ behind, mounts[n] # 0
               PROVE  recs[mounts[n]].code \in {None, disk[n].entry}
    BY DEF QuietBackendsAreCurrent
  <2>1. ~ Excused(n)
    BY DEF Quiet, Excused, ReplacementAwaits, AddAwaits
  <2>2. ~ UnmountAhead(n)
    <3>1. \A t \in Tasks : call[t].plan = <<>>
      BY DEF CurrentInv, PlansDone, Quiet
    <3> QED BY <3>1 DEF UnmountAhead
  <2> QED BY <2>1, <2>2 DEF CurrentInv, Current
<1> QED BY <1>1, <1>2, <1>3, DaemonInvariance, PTL DEF Spec

=============================================================================
