------------------------------ MODULE CollabDocs ------------------------------
(***************************************************************************)
(* The documents of the docs editor between the engine (Hocuspocus), which *)
(* maps a Y.Doc while clients are connected to it, and the reconciler,     *)
(* which must track exactly that Y.Doc: the hooks of                       *)
(* packages/docs-editor/server/collab.ts over VaultReconciler.             *)
(*                                                                         *)
(* The engine is external; it is modelled from what the hooks rely on: an  *)
(* absent document is created once for all who wait for it, the last one   *)
(* who leaves has it stored and then unloaded, and after the unload hook   *)
(* the engine looks again whether somebody is connected.  A continuation   *)
(* that hangs on microtasks only runs before any other step: the engine's, *)
(* the hooks' and the reconciler's next queued operation.                  *)
(*                                                                         *)
(* The notes stay in scope and the state store works.  A note that is      *)
(* removed under its clients, and an unload whose snapshot could not be    *)
(* written, are left to the reconciler's own runs.                         *)
(***************************************************************************)
EXTENDS VaultReconciler

CONSTANT MaxConns   \* bound: connections to one document

ASSUME EngineAssumption == MaxConns \in Nat \ {0}

VARIABLES
  engine,   \* note -> its document in the engine
  basis     \* history: edit -> the note, and the version of it, that it was typed on

EngineStates == {"absent", "opening", "open", "storing", "unloading", "readopting"}

\* conns: clients that are connected, or wait for the document to open.
\* ahead: operations of the note's chain to the end of the one a hook awaits.
EngineDoc == [at : EngineStates, conns : 0..MaxConns, ahead : Nat]
Absent == [at |-> "absent", conns |-> 0, ahead |-> 0]

Queue(n) == Len(ops[n]) + (IF run[n] = Idle THEN 0 ELSE 1)

\* The bound on a chain leaves room for the operation of a hook.
Spare(n) == Len(ops[n]) + 1 < MaxOps

\* The reconciler has taken a step of its own.
EngineKept ==
  engine' = [n \in Notes |->
    IF Queue(n)' < Queue(n) /\ engine[n].ahead > 0
      THEN [engine[n] EXCEPT !.ahead = @ - 1] ELSE engine[n]]

\* A hook of n awaits the operation that it has just queued.
Hook(n, at, conns) ==
  engine' = [engine EXCEPT ![n] = [at |-> at, conns |-> conns, ahead |-> Queue(n)']]

Goes(n, at) == engine' = [engine EXCEPT ![n].at = at, ![n].ahead = 0]

\* The engine destroys the Y.Doc and forgets the document.
Destroyed(n) ==
  /\ engine' = [engine EXCEPT ![n] = Absent]
  /\ loose' = [loose EXCEPT ![n] = NoDoc]
  /\ UNCHANGED <<vaultVars, streamVars, phase, docs, ops, run, store, countVars, dropped>>

-----------------------------------------------------------------------------
(* The hooks, after what they await.                                       *)

\* createDocument, after onLoadDocument: if that threw, all who wait are refused.
Opened(n) ==
  /\ engine[n].at = "opening"
  /\ IF Tracked(n) THEN Goes(n, "open") /\ UNCHANGED vars ELSE Destroyed(n)

\* Mutant: the unload of a document whose writeback failed is aborted - what the
\* comment at collab.ts:175 describes.
StoredClean(n) ==
  /\ engine[n].at = "storing"
  /\ \/ /\ engine[n].conns > 0 \/ (Tracked(n) /\ docs[n].dirty)
        /\ Goes(n, "open") /\ UNCHANGED vars
     \/ /\ engine[n].conns = 0 /\ Tracked(n) /\ ~docs[n].dirty
        /\ Unload(n) /\ Hook(n, "unloading", 0)

\* The engine, after onStoreDocument, and beforeUnloadDocument up to the unload.
Stored(n) ==
  /\ engine[n].at = "storing"
  /\ \/ /\ engine[n].conns > 0
        /\ Goes(n, "open") /\ UNCHANGED vars
     \/ /\ engine[n].conns = 0 /\ Tracked(n)
        /\ Unload(n) /\ Hook(n, "unloading", 0)
     \/ /\ engine[n].conns = 0 /\ ~Tracked(n)
        /\ Destroyed(n)

\* Mutant: beforeUnloadDocument does not look at the connections again.
UnloadedBlind(n) ==
  /\ engine[n].at = "unloading"
  /\ IF engine[n].conns > 0 THEN Goes(n, "open") /\ UNCHANGED vars ELSE Destroyed(n)

\* beforeUnloadDocument, after reconciler.unload: whoever raced in has it adopted
\* again.
Unloaded(n) ==
  /\ engine[n].at = "unloading"
  /\ IF engine[n].conns > 0
       THEN Load(n, "adopt") /\ Hook(n, "readopting", engine[n].conns)
       ELSE Destroyed(n)

Readopted(n) == engine[n].at = "readopting" /\ Goes(n, "open") /\ UNCHANGED vars

HookDue(n)  == engine[n].at \notin {"absent", "open"} /\ engine[n].ahead = 0
BeginDue(n) == run[n] = Idle /\ ops[n] # <<>>

Microtask(n) ==
  \/ HookDue(n) /\ (Opened(n) \/ Stored(n) \/ Unloaded(n) \/ Readopted(n))
  \/ ~HookDue(n) /\ Begin(n) /\ EngineKept

AtRest == \A n \in Notes : ~HookDue(n) /\ ~BeginDue(n)

-----------------------------------------------------------------------------
(* The clients and the engine's timers.                                    *)

\* An authenticated connection arrives.
Join(n) ==
  /\ engine[n].conns < MaxConns
  /\ IF engine[n].at = "absent"
       THEN Load(n, "adopt") /\ Hook(n, "opening", 1)
       ELSE engine' = [engine EXCEPT ![n].conns = @ + 1] /\ UNCHANGED vars

\* A connection ends.  After the last one the engine stores at once.
Leave(n) ==
  /\ engine[n].at \in {"open", "storing", "unloading"} /\ engine[n].conns > 0
  /\ IF engine[n].at = "open" /\ engine[n].conns = 1
       THEN IF Tracked(n)
              THEN Flush(n) /\ Hook(n, "storing", 0)
              ELSE engine' = [engine EXCEPT ![n] = [Absent EXCEPT !.at = "storing"]] /\ UNCHANGED vars
       ELSE engine' = [engine EXCEPT ![n].conns = @ - 1] /\ UNCHANGED vars

Served(n) == engine[n].at \in {"open", "storing", "unloading"} /\ engine[n].conns > 0

\* An edit of a client; one to a document that nobody tracks is on the way out
\* with it.
ClientEdit(n) ==
  /\ Served(n) /\ nextEdit < MaxEdits
  /\ basis' = [basis EXCEPT ![nextEdit + 1] =
                 [note |-> n, version |-> IF Tracked(n) THEN docs[n].tracked ELSE 1]]
  /\ \/ LocalEdit(n)
     \/ /\ ~Tracked(n)
        /\ nextEdit' = nextEdit + 1
        /\ loose' = [loose EXCEPT ![n].edits = @ \cup {nextEdit + 1}]
        /\ UNCHANGED <<vaultVars, streamVars, phase, docs, ops, run, store, crashes, dropped>>
  /\ UNCHANGED engine

\* onStoreDocument of the engine's debounce.
StoreMoment(n) == engine[n].at = "open" /\ Spare(n) /\ Flush(n) /\ UNCHANGED engine

CollabInit ==
  /\ Init /\ engine = [n \in Notes |-> Absent]
  /\ basis = [e \in Edits |-> [note |-> CHOOSE n \in Notes : TRUE, version |-> 0]]

Environment(n) ==
  \/ ExternalEdit(n) \/ ServeGet(n) \/ ServePut(n) \/ LoseRequest(n) \/ LandStray(n)

EventComes == (\A n \in Notes : Spare(n)) /\ Deliver

CollabNext ==
  \/ /\ UNCHANGED basis
     /\ \E n \in Notes : Microtask(n)
  \/ /\ AtRest /\ UNCHANGED basis
     /\ \/ \E n \in Notes :
             \/ Join(n) \/ Leave(n) \/ StoreMoment(n)
             \/ (Environment(n) \/ Reply(n) \/ (Spare(n) /\ TimerFires(n))) /\ EngineKept
        \/ (Start \/ Connect \/ Disconnect \/ EventComes) /\ EngineKept
  \/ /\ AtRest
     /\ \E n \in Notes : ClientEdit(n)

collabVars == <<vars, engine, basis>>
CollabSpec == CollabInit /\ [][CollabNext]_collabVars

-----------------------------------------------------------------------------
(* Properties.                                                             *)

CollabTypeOK == TypeOK /\ engine \in [Notes -> EngineDoc]

\* A document that clients can edit is tracked, whoever came back while it was
\* being stored and unloaded; and one the engine has forgotten is not tracked,
\* or the next one who opens it would be refused.
ServedDocsAreAdopted ==
  AtRest => \A n \in Notes : /\ Served(n) => Tracked(n)
                             /\ engine[n].at = "absent" => ~Tracked(n)

\* Where an edit of a client is: only a snapshot that says it is still to be
\* written counts.
Fate(e) ==
  CASE e > nextEdit -> "unmade"
    [] e <= nextEdit /\ \E n \in Notes : e \in InVault(n) -> "kept"
    [] e <= nextEdit /\ ~\E n \in Notes : e \in InVault(n) ->
         IF \E n \in Notes : e \in InDoc(n) \/ (e \in InStore(n) /\ store[n].dirty)
           THEN "pending" ELSE "superseded"

Promise == INSTANCE SharedNote WITH
  history <- [n \in Notes |-> [v \in 1..Version(n) |->
                [ext |-> commits[n][v].ext, edits |-> commits[n][v].edits]]],
  fate    <- [e \in Edits |-> Fate(e)]

\* The documents keep the promise of SharedNote: clients that leave and come back,
\* other writers, failing writebacks and unloads that end with a failure, in any
\* order, never make an edit vanish, except in favour of a version of the note that
\* is newer than the one it was typed on, and never overwrite a version unseen.
KeepsPromise == Promise!Spec

CollabFairness ==
  \A n \in Notes :
    /\ WF_collabVars(Microtask(n) /\ UNCHANGED basis)
    /\ WF_collabVars(AtRest /\ Reply(n) /\ EngineKept /\ UNCHANGED basis)
    /\ SF_collabVars(AtRest /\ ServeGet(n) /\ EngineKept /\ UNCHANGED basis)
    /\ SF_collabVars(AtRest /\ ServePut(n) /\ EngineKept /\ UNCHANGED basis)
    /\ SF_collabVars(AtRest /\ Spare(n) /\ TimerFires(n) /\ EngineKept /\ UNCHANGED basis)
    /\ SF_collabVars(AtRest /\ EventComes /\ EngineKept /\ UNCHANGED basis)

FairCollabSpec == CollabSpec /\ CollabFairness

\* Whatever fails, a document that nobody is connected to is forgotten by the
\* engine unless somebody comes back: neither its store nor its unload hangs.  A
\* last writeback that fails does not keep it: the document goes with the write
\* undone, its edits in a dirty snapshot.  (collab.ts:175 says that reconciler.unload
\* throws there and that the unload is aborted; #flushNote never throws.)
LeftDocsAreReleased ==
  \A n \in Notes :
    engine[n].conns = 0 ~> engine[n].at = "absent" \/ (engine[n].at = "open" /\ engine[n].conns > 0)
=============================================================================
