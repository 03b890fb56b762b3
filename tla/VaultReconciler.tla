--------------------------- MODULE VaultReconciler ---------------------------
(***************************************************************************)
(* The reconciliation machine of packages/surface-server: one live Y.Doc   *)
(* per vault note, a persisted snapshot of each, and an event stream that  *)
(* says what everybody else did to the vault.                              *)
(*                                                                         *)
(* One action is one synchronous stretch of the JavaScript between two     *)
(* awaits on the network.  Everything the code chains through microtasks   *)
(* only (the end of one queued operation and the continuation of unload()) *)
(* is one step, as no socket event or timer can run in between.            *)
(*                                                                         *)
(* A vault version is the index of a commit; the machine only ever         *)
(* compares versions for equality.  What a document says is abstracted to  *)
(* a Content: which external commit it was seeded from, and which local    *)
(* edits were made on top.                                                 *)
(***************************************************************************)
EXTENDS Integers, Sequences, FiniteSets

CONSTANTS
  Notes,        \* note ids (documentName = note id)
  NoDoc,        \* #docs.get(noteId) === undefined
  NoEntry,      \* ctx.store.get(key) === null
  LoadKinds,    \* subset of {"load", "adopt"}: fresh Y.Doc, or the engine's own
  Faults,       \* subset of FaultKinds that may strike
  Scopes,       \* where a note may go: subset of ScopeKinds, with "tagged"
  MaxExternal,  \* bound: external edits per note
  MaxEdits,     \* bound: local edits over the whole run
  MaxOps,       \* bound: operations waiting in one note's chain when one is added
  MaxChan,      \* bound: undelivered events when somebody else writes
  MaxCrashes,   \* bound: process crashes
  MaxDrops      \* bound: stream drops

FaultKinds ==
  { "fetch",    \* a getNote fails (network, 5xx)
    "write",    \* an updateNote fails before the vault applied it
    "lostAck",  \* the vault applied an updateNote, the answer was lost
    "store",    \* a state-store put or delete throws
    "hook" }    \* a surface author's seed or serialize hook throws

ASSUME BoundsAssumption ==
  /\ MaxExternal \in Nat /\ MaxEdits \in Nat /\ MaxOps \in Nat \ {0}
  /\ MaxChan \in Nat /\ MaxCrashes \in Nat /\ MaxDrops \in Nat

ScopeKinds == {"tagged", "untagged", "gone"}

ASSUME KindsAssumption ==
  /\ LoadKinds \subseteq {"load", "adopt"} /\ Faults \subseteq FaultKinds
  /\ "tagged" \in Scopes /\ Scopes \subseteq ScopeKinds

Edits   == 1..MaxEdits
Content == [ext : Nat, edits : SUBSET Edits, torn : BOOLEAN]

OpKinds == {"load", "adopt", "flush", "uflush", "sflush", "check", "removed"}
Awaits  == {"loading", "checking", "revalidating", "writing", "winner"}
Answers == {"none", "sent", "note", "missing", "conflict", "error"}
Timers  == {"none", "debounce", "retry"}

\* A TrackedDoc.  mapped is FALSE once stop() cleared #docs under an operation
\* that still holds the object.
TrackedDoc ==
  [content : Content, tracked : Nat \ {0}, dirty : BOOLEAN, generation : Nat,
   timer : Timers, checkQueued : BOOLEAN, hint : Nat, mapped : BOOLEAN]

Entry == [blob : Content, sourceVersion : Nat \ {0}, dirty : BOOLEAN]

\* The operation at the head of a note's chain, parked on a request.
Running ==
  [op : OpKinds \cup {"none"}, at : Awaits \cup {"idle"}, net : Answers,
   ver : Nat, generation : Nat, body : Content, loose : Content \cup {NoDoc}]

\* An event of the stream.  It mentions the notes of about; a version 0 says the
\* note is not (or no longer) in the watched set.
Event == [snapshot : BOOLEAN, about : SUBSET Notes, vers : [Notes -> Nat]]

\* An updateNote whose caller is gone or has given up, and which may still land.
Stray == [ver : Nat, body : Content]

ASSUME SentinelAssumption ==
  /\ NoDoc \notin TrackedDoc /\ NoDoc \notin Content
  /\ NoEntry \notin Entry

VARIABLES
  \* the vault
  commits,    \* note -> every content it ever had, in order
  scope,      \* note -> "tagged", "untagged" or "gone"
  stray,      \* note -> writes on the wire that nobody waits for
  \* the stream
  conn,       \* "idle", "open", "down" or "closed"
  chan,       \* events on the wire, in order
  live,       \* #live
  \* the machine
  phase,      \* "running", "stopping" or "stopped"
  docs,       \* #docs
  ops,        \* #ops: the operations chained on each note, not yet begun
  run,        \* the operation of each note that awaits the network
  store,      \* the surface state store
  \* the engine
  loose,      \* the Y.Doc instance the engine still maps after a detach
  \* history and bounds
  nextEdit,   \* local edits made so far
  dropped,    \* edit -> why it disappeared
  crashes, drops

vaultVars   == <<commits, scope, stray>>
streamVars  == <<conn, chan, live, drops>>
machineVars == <<phase, docs, ops, run, store, loose>>
countVars   == <<nextEdit, crashes>>
vars == <<vaultVars, streamVars, machineVars, countVars, dropped>>

-----------------------------------------------------------------------------
(* Small operators.                                                        *)

Blank == [ext |-> 0, edits |-> {}, torn |-> FALSE]
Idle  == [op |-> "none", at |-> "idle", net |-> "none", ver |-> 0,
          generation |-> 0, body |-> Blank, loose |-> NoDoc]

Version(n)  == Len(commits[n])
Tracked(n)  == docs[n] # NoDoc /\ docs[n].mapped
Fault(f)    == f \in Faults
RoomFor(n)  == Len(ops[n]) < MaxOps

\* c was seeded from the same text as d and carries at least d's local edits.
Extends(c, d) == c.ext = d.ext /\ d.edits \subseteq c.edits

Snapshot(td) == [blob |-> td.content, sourceVersion |-> td.tracked, dirty |-> td.dirty]

\* #persist: a put replaces the whole entry; a throwing store is only logged.
Persisted(e, td) == {Snapshot(td)} \cup (IF Fault("store") THEN {e} ELSE {})

\* #schedule clears and re-arms; it reads #docs, so it does nothing for an
\* object that #docs no longer holds.
Schedule(td, kind) == IF td.mapped THEN [td EXCEPT !.timer = kind] ELSE td

Enqueue(n, op) == ops' = [ops EXCEPT ![n] = Append(@, op)]

\* History: why edits are no longer in the document.
Drop(edits, why) == dropped' = [e \in Edits |-> IF e \in edits THEN why ELSE dropped[e]]

Loosen(n, content) ==
  loose' = IF "adopt" \in LoadKinds THEN [loose EXCEPT ![n] = content] ELSE loose

-----------------------------------------------------------------------------
(* The vault and its other writers (external).                             *)

Emit(n, ver) ==
  IF conn = "open"
    THEN chan' = Append(chan, [snapshot |-> FALSE, about |-> {n},
                               vers |-> [m \in Notes |-> IF m = n THEN ver ELSE 0]])
    ELSE UNCHANGED chan

Commit(n, content) ==
  /\ commits' = [commits EXCEPT ![n] = Append(@, content)]
  /\ IF scope[n] = "tagged" THEN Emit(n, Version(n) + 1) ELSE UNCHANGED chan

Externals(n) == {v \in 1..Version(n) : commits[n][v].ext = v}

ExternalEdit(n) ==
  /\ scope[n] # "gone" /\ Cardinality(Externals(n)) <= MaxExternal /\ Len(chan) < MaxChan
  /\ Commit(n, [ext |-> Version(n) + 1, edits |-> {}, torn |-> FALSE])
  /\ UNCHANGED <<scope, stray, conn, live, drops, machineVars, countVars, dropped>>

\* The note is deleted, or loses or regains the working tag.
Rescope(n) ==
  \E s \in Scopes \ {scope[n]} :
    /\ scope[n] # "gone" /\ Len(chan) < MaxChan
    /\ scope' = [scope EXCEPT ![n] = s]
    /\ CASE s = "tagged"        -> Emit(n, Version(n))
         [] scope[n] = "tagged" -> Emit(n, 0)
         [] OTHER               -> UNCHANGED chan
    /\ UNCHANGED <<commits, stray, conn, live, drops, machineVars, countVars, dropped>>

-----------------------------------------------------------------------------
(* Requests on the wire.                                                   *)

Answer(n, net, ver) == run' = [run EXCEPT ![n].net = net, ![n].ver = ver]
Requested(n) == run[n].net = "sent"
\* only run and what the vault changed are touched by an answer
Untouched == <<scope, conn, live, drops, phase, docs, ops, store, loose, countVars, dropped>>

ServeGet(n) ==
  /\ Requested(n) /\ run[n].at # "writing"
  /\ IF scope[n] = "gone" THEN Answer(n, "missing", 0) ELSE Answer(n, "note", Version(n))
  /\ UNCHANGED <<commits, stray, chan, Untouched>>

\* The vault compares if_updated_at with the note's version; a note that is gone
\* answers 404, which is not a conflict.
ServePut(n) ==
  /\ Requested(n) /\ run[n].at = "writing"
  /\ UNCHANGED <<stray, Untouched>>
  /\ \/ /\ scope[n] # "gone" /\ run[n].ver = Version(n)
        /\ Commit(n, run[n].body)
        /\ Answer(n, "note", Version(n) + 1)
     \/ /\ scope[n] # "gone" /\ run[n].ver # Version(n)
        /\ Answer(n, "conflict", 0) /\ UNCHANGED <<commits, chan>>
     \/ /\ scope[n] = "gone"
        /\ Answer(n, "error", 0) /\ UNCHANGED <<commits, chan>>

LoseRequest(n) ==
  /\ Requested(n)
  /\ Answer(n, "error", 0)
  /\ \/ /\ Fault("fetch") /\ run[n].at # "writing" /\ UNCHANGED stray
     \/ /\ Fault("write") /\ run[n].at = "writing" /\ UNCHANGED stray
     \/ /\ Fault("lostAck") /\ run[n].at = "writing"
        /\ stray' = [stray EXCEPT ![n] = @ \cup {[ver |-> run[n].ver, body |-> run[n].body]}]
  /\ UNCHANGED <<commits, chan, Untouched>>

LandStray(n) ==
  \E w \in stray[n] :
    /\ stray' = [stray EXCEPT ![n] = @ \ {w}]
    /\ IF scope[n] # "gone" /\ w.ver = Version(n)
         THEN Commit(n, w.body) ELSE UNCHANGED <<commits, chan>>
    /\ UNCHANGED <<run, Untouched>>

-----------------------------------------------------------------------------
(* How a stretch of an operation ends.                                     *)

\* Mutant: unload() detaches without its own persist.
UnloadUnsaved(n, op, d, e) ==
  /\ run' = [run EXCEPT ![n] = Idle]
  /\ docs' = [docs EXCEPT ![n] = IF d # NoDoc /\ d.mapped /\ op # "uflush" THEN d ELSE NoDoc]
  /\ store' = [store EXCEPT ![n] = e]
  /\ UNCHANGED loose

\* The operation is over.  d is what it leaves in #docs, e in the store.  The
\* continuation of unload() runs before anything else on the chain.
Settle(n, op, d, e) ==
  /\ run' = [run EXCEPT ![n] = Idle]
  /\ IF op = "uflush" /\ d # NoDoc /\ d.mapped
       THEN /\ docs' = [docs EXCEPT ![n] = NoDoc]
            /\ \E f \in Persisted(e, d) : store' = [store EXCEPT ![n] = f]
            /\ Loosen(n, d.content)
       ELSE /\ docs' = [docs EXCEPT ![n] = IF d # NoDoc /\ d.mapped THEN d ELSE NoDoc]
            /\ store' = [store EXCEPT ![n] = e]
            /\ UNCHANGED loose

\* The operation sends a request and parks.
Await(n, op, at, td, e, provided) ==
  /\ run' = [run EXCEPT ![n] =
       [op |-> op, at |-> at, net |-> "sent", loose |-> provided,
        ver        |-> IF at = "writing" THEN td.tracked ELSE 0,
        generation |-> IF at = "writing" THEN td.generation ELSE 0,
        body       |-> IF at = "writing" THEN td.content ELSE Blank]]
  /\ docs' = [docs EXCEPT ![n] = td]
  /\ store' = [store EXCEPT ![n] = e]
  /\ UNCHANGED loose

\* #removeTracking.  Nothing happens once #docs no longer holds the note.
Remove(n, op) ==
  IF Tracked(n)
    THEN /\ run' = [run EXCEPT ![n] = Idle]
         /\ docs' = [docs EXCEPT ![n] = NoDoc]
         /\ \E e \in {NoEntry} \cup (IF Fault("store") THEN {store[n]} ELSE {}) :
              store' = [store EXCEPT ![n] = e]
         /\ Loosen(n, docs[n].content)
         /\ Drop(docs[n].content.edits, "removed")
    ELSE Settle(n, op, docs[n], store[n]) /\ UNCHANGED dropped

\* #reseed: one transaction swaps the text; a throwing seed leaves it torn.
Reseed(n, op, td, ver) ==
  LET winner == commits[n][ver]
      d == [td EXCEPT !.content = winner, !.tracked = ver, !.dirty = FALSE, !.timer = "none"]
  IN \/ /\ \E e \in Persisted(store[n], d) : Settle(n, op, d, e)
        /\ Drop(td.content.edits \ winner.edits,
                IF winner.ext = td.content.ext THEN "own" ELSE "external")
     \/ /\ Fault("hook")
        /\ Settle(n, op, [td EXCEPT !.content.torn = TRUE], store[n])
        /\ UNCHANGED dropped

\* Mutant: a failed writeback arms no retry.
NoRetry(n, op, td) == Settle(n, op, td, store[n]) /\ UNCHANGED dropped

\* #scheduleRetry
Retry(n, op, td) == Settle(n, op, Schedule(td, "retry"), store[n]) /\ UNCHANGED dropped

\* From the serialize hook of #flushNote to the updateNote call.
Serialize(n, op, td, e) ==
  /\ \/ Await(n, op, "writing", td, e, NoDoc)
     \/ Fault("hook") /\ Settle(n, op, td, e)
  /\ UNCHANGED dropped

-----------------------------------------------------------------------------
(* The operations, from the head of a note's chain to their first await.   *)

BeginFlush(n, op) ==
  IF Tracked(n) /\ docs[n].dirty
    THEN \E e \in Persisted(store[n], docs[n]) :
           IF live
             THEN Serialize(n, op, docs[n], e)
             ELSE Await(n, op, "revalidating", docs[n], e, NoDoc) /\ UNCHANGED dropped
    ELSE Settle(n, op, docs[n], store[n]) /\ UNCHANGED dropped

\* Mutant: a restored dirty snapshot does not resume its writeback.
RegisterIdle(n, op, content, tracked, dirty) ==
  LET td == [content |-> content, tracked |-> tracked, dirty |-> dirty, generation |-> 0,
             timer |-> "none", checkQueued |-> FALSE, hint |-> 0, mapped |-> TRUE]
  IN /\ run' = [run EXCEPT ![n] = Idle]
     /\ docs' = [docs EXCEPT ![n] = td]
     /\ store' = [store EXCEPT ![n] = Snapshot(td)]
     /\ Loosen(n, NoDoc)

\* The tail of #load: register the document, persist it, resume a dirty one.
Register(n, op, content, tracked, dirty) ==
  LET td == [content |-> content, tracked |-> tracked, dirty |-> dirty, generation |-> 0,
             timer |-> IF dirty THEN "debounce" ELSE "none", checkQueued |-> FALSE,
             hint |-> 0, mapped |-> TRUE]
  IN /\ run' = [run EXCEPT ![n] = Idle]
     /\ docs' = [docs EXCEPT ![n] = td]
     /\ \E e \in Persisted(store[n], td) : store' = [store EXCEPT ![n] = e]
     /\ Loosen(n, NoDoc)

BeginLoad(n, op) ==
  LET provided == IF op = "adopt" THEN loose[n] ELSE NoDoc
      entry    == store[n]
  IN /\ UNCHANGED dropped
     /\ \/ /\ Tracked(n)
           /\ Settle(n, op, docs[n], store[n])
        \/ /\ ~Tracked(n) /\ entry # NoEntry
           /\ Register(n, op, IF provided = NoDoc THEN entry.blob ELSE provided,
                       entry.sourceVersion, entry.dirty)
        \/ /\ ~Tracked(n) /\ entry = NoEntry
           /\ Await(n, op, "loading", docs[n], entry, provided)

\* Mutant: the version of the event is taken for the current one.
CheckByHint(n, op) ==
  LET td == [docs[n] EXCEPT !.checkQueued = FALSE]
  IN IF Tracked(n) /\ td.hint # td.tracked
       THEN Reseed(n, op, td, td.hint)
       ELSE Settle(n, op, IF Tracked(n) THEN td ELSE docs[n], store[n]) /\ UNCHANGED dropped

BeginCheck(n, op) ==
  LET td == [docs[n] EXCEPT !.checkQueued = FALSE]
  IN /\ UNCHANGED dropped
     /\ \/ /\ ~Tracked(n)
           /\ Settle(n, op, docs[n], store[n])
        \/ /\ Tracked(n) /\ td.hint = td.tracked
           /\ Settle(n, op, td, store[n])
        \/ /\ Tracked(n) /\ td.hint # td.tracked
           /\ Await(n, op, "checking", td, store[n], NoDoc)

Begin(n) ==
  LET op == Head(ops[n])
  IN /\ run[n] = Idle /\ ops[n] # <<>>
     /\ ops' = [ops EXCEPT ![n] = Tail(@)]
     /\ CASE op \in {"load", "adopt"}            -> BeginLoad(n, op)
          [] op \in {"flush", "uflush", "sflush"} -> BeginFlush(n, op)
          [] op = "check"                         -> BeginCheck(n, op)
          [] op = "removed"                       -> Remove(n, op)
     /\ UNCHANGED <<vaultVars, streamVars, phase, countVars>>

-----------------------------------------------------------------------------
(* The stretches after an answer.                                          *)

Answered(n, at) == run[n].at = at /\ run[n].net \notin {"none", "sent"}
Elsewhere == <<vaultVars, streamVars, phase, ops, countVars>>

LoadReply(n) ==
  LET r == run[n]
  IN /\ Answered(n, "loading") /\ UNCHANGED <<dropped, Elsewhere>>
     /\ \/ /\ r.net = "note"
           /\ Register(n, r.op, IF r.loose = NoDoc THEN commits[n][r.ver] ELSE r.loose,
                       r.ver, FALSE)
        \/ /\ r.net # "note" \/ (Fault("hook") /\ r.loose = NoDoc)   \* load() rejects
           /\ Settle(n, r.op, docs[n], store[n])

CheckReply(n) ==
  LET r == run[n]
      td == docs[n]
  IN /\ Answered(n, "checking") /\ UNCHANGED Elsewhere
     /\ \/ /\ r.net = "error" \/ (r.net = "note" /\ r.ver = td.tracked)
           /\ Settle(n, r.op, td, store[n]) /\ UNCHANGED dropped
        \/ r.net = "missing" /\ Remove(n, r.op)
        \/ r.net = "note" /\ r.ver # td.tracked /\ Reseed(n, r.op, td, r.ver)

RevalidateReply(n) ==
  LET r == run[n]
      td == docs[n]
  IN /\ Answered(n, "revalidating") /\ UNCHANGED Elsewhere
     /\ \/ r.net = "error" /\ Retry(n, r.op, td)
        \/ r.net = "missing" /\ Remove(n, r.op)
        \/ r.net = "note" /\ r.ver # td.tracked /\ Reseed(n, r.op, td, r.ver)
        \/ r.net = "note" /\ r.ver = td.tracked /\ Serialize(n, r.op, td, store[n])

\* Mutant: the acknowledgement also covers edits made while it was on its way.
AckedAll(td, r) == [td EXCEPT !.tracked = r.ver, !.dirty = FALSE]

\* Mutant: an answer without updatedAt is taken for an acknowledgement.
AckedBlind(td, r) == [td EXCEPT !.tracked = 0, !.dirty = FALSE]

\* An acknowledged writeback cleans only its own generation.
Acked(td, r) ==
  LET acked == [td EXCEPT !.tracked = r.ver]
  IN IF td.generation = r.generation THEN [acked EXCEPT !.dirty = FALSE] ELSE acked

WriteReply(n) ==
  LET r == run[n]
      td == docs[n]
      d == Acked(td, r)
  IN /\ Answered(n, "writing") /\ UNCHANGED <<dropped, Elsewhere>>
     /\ \/ /\ r.net = "note"
           /\ \E e \in Persisted(store[n], d) :
                Settle(n, r.op, IF d.dirty THEN Schedule(d, "debounce") ELSE d, e)
        \/ /\ r.net = "conflict"
           /\ Await(n, r.op, "winner", td, store[n], NoDoc)
        \/ /\ r.net = "error"
           /\ Settle(n, r.op, Schedule(td, "retry"), store[n])

\* Mutant: on a conflict only the baseline is refreshed, and the write retried.
ForceAfterConflict(n) ==
  LET r == run[n]
      td == docs[n]
  IN /\ Answered(n, "winner") /\ UNCHANGED Elsewhere
     /\ \/ r.net = "error" /\ Retry(n, r.op, td)
        \/ r.net = "missing" /\ Remove(n, r.op)
        \/ r.net = "note" /\ Retry(n, r.op, [td EXCEPT !.tracked = r.ver])

WinnerReply(n) ==
  LET r == run[n]
      td == docs[n]
  IN /\ Answered(n, "winner") /\ UNCHANGED Elsewhere
     /\ \/ r.net = "error" /\ Retry(n, r.op, td)
        \/ r.net = "missing" /\ Remove(n, r.op)
        \/ r.net = "note" /\ Reseed(n, r.op, td, r.ver)

-----------------------------------------------------------------------------
(* What the engine, the clients and the timers do.                         *)

\* load() after stop() rejects; otherwise the load joins the note's chain.
Load(n, op) ==
  /\ phase = "running" /\ RoomFor(n)
  /\ Enqueue(n, op)
  /\ UNCHANGED <<vaultVars, streamVars, phase, docs, run, store, loose, countVars, dropped>>

Edited(td, e) ==
  [td EXCEPT !.content.edits = td.content.edits \cup {e}, !.generation = td.generation + 1,
             !.dirty = TRUE, !.timer = "debounce"]

LocalEdit(n) ==
  /\ Tracked(n) /\ nextEdit < MaxEdits
  /\ nextEdit' = nextEdit + 1
  /\ docs' = [docs EXCEPT ![n] = Edited(docs[n], nextEdit + 1)]
  /\ UNCHANGED <<vaultVars, streamVars, phase, ops, run, store, loose, crashes, dropped>>

\* A timer, flush() and unload() all clear the timer and queue a flush.
QueueFlush(n, op) ==
  /\ Tracked(n) /\ RoomFor(n)
  /\ docs' = [docs EXCEPT ![n].timer = "none"]
  /\ Enqueue(n, op)
  /\ UNCHANGED <<vaultVars, streamVars, phase, run, store, loose, countVars, dropped>>

TimerFires(n) == docs[n] # NoDoc /\ docs[n].timer # "none" /\ QueueFlush(n, "flush")
Flush(n)  == QueueFlush(n, "flush")
Unload(n) == QueueFlush(n, "uflush")

-----------------------------------------------------------------------------
(* The event stream.                                                       *)

Start ==
  /\ conn = "idle" /\ phase = "running"
  /\ conn' = "down"
  /\ UNCHANGED <<vaultVars, chan, live, drops, machineVars, countVars, dropped>>

\* Every (re)connection begins with the complete matching set.
Connect ==
  /\ conn = "down"
  /\ conn' = "open"
  /\ chan' = <<[snapshot |-> TRUE, about |-> Notes,
                vers |-> [n \in Notes |-> IF scope[n] = "tagged" THEN Version(n) ELSE 0]]>>
  /\ UNCHANGED <<vaultVars, live, drops, machineVars, countVars, dropped>>

\* The transport drops (and reconnects), or closes for good.
Disconnect ==
  /\ conn \in {"open", "down"} /\ drops < MaxDrops
  /\ \E c \in {"down", "closed"} : conn' = c
  /\ drops' = drops + 1
  /\ chan' = <<>> /\ live' = FALSE
  /\ UNCHANGED <<vaultVars, machineVars, countVars, dropped>>

\* onSnapshot, onUpsert and onRemove.
Deliver ==
  LET ev == Head(chan)
      seen  == {n \in ev.about : Tracked(n) /\ ev.vers[n] # 0}
      check == {n \in seen : ev.vers[n] # docs[n].tracked /\ ~docs[n].checkQueued}
      gone  == {n \in ev.about : Tracked(n) /\ ev.vers[n] = 0}
  IN /\ chan # <<>> /\ \A n \in check \cup gone : RoomFor(n)
     /\ chan' = Tail(chan)
     /\ live' = (live \/ ev.snapshot)
     /\ docs' = [n \in Notes |->
          IF n \in seen
            THEN [docs[n] EXCEPT !.hint = ev.vers[n], !.checkQueued = @ \/ n \in check]
            ELSE docs[n]]
     /\ ops' = [n \in Notes |-> CASE n \in check -> Append(ops[n], "check")
                                  [] n \in gone  -> Append(ops[n], "removed")
                                  [] OTHER       -> ops[n]]
     /\ UNCHANGED <<vaultVars, conn, drops, phase, run, store, loose, countVars, dropped>>

-----------------------------------------------------------------------------
(* Shutdown and crash.                                                     *)

Stop ==
  /\ phase = "running" /\ \A n \in Notes : Tracked(n) => RoomFor(n)
  /\ phase' = "stopping"
  /\ conn' = "closed" /\ chan' = <<>> /\ live' = FALSE
  /\ docs' = [n \in Notes |-> IF Tracked(n) THEN [docs[n] EXCEPT !.timer = "none"] ELSE docs[n]]
  /\ ops' = [n \in Notes |-> IF Tracked(n) THEN Append(ops[n], "sflush") ELSE ops[n]]
  /\ UNCHANGED <<vaultVars, drops, run, store, loose, countVars, dropped>>

StopFlushDone(n) ==
  run[n].op # "sflush" /\ \A i \in DOMAIN ops[n] : ops[n][i] # "sflush"

\* The rest of stop(), after Promise.all of the flushes.
StopReturns ==
  /\ phase = "stopping" /\ \A n \in Notes : StopFlushDone(n)
  /\ phase' = "stopped"
  /\ \E failed \in SUBSET {n \in Notes : Tracked(n) /\ Fault("store")} :
       store' = [n \in Notes |->
         IF Tracked(n) /\ n \notin failed THEN Snapshot(docs[n]) ELSE store[n]]
  /\ docs' = [n \in Notes |->
       IF docs[n] # NoDoc /\ run[n] # Idle
         THEN [docs[n] EXCEPT !.mapped = FALSE, !.timer = "none"] ELSE NoDoc]
  /\ UNCHANGED <<vaultVars, streamVars, ops, run, loose, countVars, dropped>>

InVault(n) == UNION {commits[n][v].edits : v \in 1..Version(n)}
InDoc(n)   == IF docs[n] = NoDoc THEN {} ELSE docs[n].content.edits
InStore(n) == IF store[n] = NoEntry THEN {} ELSE store[n].blob.edits

\* The process dies and a new one comes up; what it had on the wire stays there.
Crash ==
  /\ crashes < MaxCrashes
  /\ crashes' = crashes + 1
  /\ phase' = "running"
  /\ docs' = [n \in Notes |-> NoDoc] /\ loose' = [n \in Notes |-> NoDoc]
  /\ ops' = [n \in Notes |-> <<>>] /\ run' = [n \in Notes |-> Idle]
  /\ conn' = "idle" /\ chan' = <<>> /\ live' = FALSE
  /\ stray' = [n \in Notes |->
       IF run[n].at = "writing" /\ run[n].net = "sent"
         THEN stray[n] \cup {[ver |-> run[n].ver, body |-> run[n].body]} ELSE stray[n]]
  /\ Drop(UNION {InDoc(n) \ (InStore(n) \cup InVault(n)) : n \in Notes}, "crash")
  /\ UNCHANGED <<commits, scope, drops, store, nextEdit>>

-----------------------------------------------------------------------------
Init ==
  /\ commits = [n \in Notes |-> <<[ext |-> 1, edits |-> {}, torn |-> FALSE]>>]
  /\ scope = [n \in Notes |-> "tagged"]
  /\ stray = [n \in Notes |-> {}]
  /\ conn = "idle" /\ chan = <<>> /\ live = FALSE
  /\ phase = "running"
  /\ docs = [n \in Notes |-> NoDoc]
  /\ ops = [n \in Notes |-> <<>>]
  /\ run = [n \in Notes |-> Idle]
  /\ store = [n \in Notes |-> NoEntry]
  /\ loose = [n \in Notes |-> NoDoc]
  /\ nextEdit = 0 /\ crashes = 0 /\ drops = 0
  /\ dropped = [e \in Edits |-> "no"]

Reply(n) == LoadReply(n) \/ CheckReply(n) \/ RevalidateReply(n) \/ WriteReply(n) \/ WinnerReply(n)

Next ==
  \/ \E n \in Notes :
       \/ ExternalEdit(n) \/ Rescope(n)
       \/ ServeGet(n) \/ ServePut(n) \/ LoseRequest(n) \/ LandStray(n)
       \/ Begin(n) \/ Reply(n)
       \/ \E op \in LoadKinds : Load(n, op)
       \/ LocalEdit(n) \/ TimerFires(n) \/ Flush(n) \/ Unload(n)
  \/ Start \/ Connect \/ Disconnect \/ Deliver
  \/ Stop \/ StopReturns \/ Crash

Spec == Init /\ [][Next]_vars

-----------------------------------------------------------------------------
(* Properties.                                                             *)

Reasons == {"no", "external", "own", "removed", "crash"}

TypeOK ==
  /\ commits \in [Notes -> Seq(Content)] /\ \A n \in Notes : commits[n] # <<>>
  /\ scope \in [Notes -> ScopeKinds]
  /\ stray \in [Notes -> SUBSET Stray]
  /\ conn \in {"idle", "open", "down", "closed"} /\ chan \in Seq(Event)
  /\ live \in BOOLEAN /\ drops \in Nat
  /\ phase \in {"running", "stopping", "stopped"}
  /\ docs \in [Notes -> TrackedDoc \cup {NoDoc}]
  /\ ops \in [Notes -> Seq(OpKinds)]
  /\ run \in [Notes -> Running]
  /\ store \in [Notes -> Entry \cup {NoEntry}]
  /\ loose \in [Notes -> Content \cup {NoDoc}]
  /\ nextEdit \in 0..MaxEdits /\ crashes \in Nat
  /\ dropped \in [Edits -> Reasons]

\* Every writeback that lands was made on top of the very text it replaces: the
\* vault never loses an external edit, nor a local edit it already has, to the
\* reconciler, and never receives a torn document (if_updated_at, verbatim, and
\* never force).
NoBlindOverwrite ==
  \A n \in Notes : \A v \in 2..Version(n) :
    commits[n][v].ext # v =>
      Extends(commits[n][v], commits[n][v - 1]) /\ ~commits[n][v].torn

\* A document, or a persisted snapshot, that is not dirty says exactly what the
\* vault said at the version it tracks (unless a seed hook threw over it).
CleanMeansWritten ==
  \A n \in Notes :
    /\ Tracked(n) /\ ~docs[n].dirty /\ ~docs[n].content.torn =>
         docs[n].content = commits[n][docs[n].tracked]
    /\ store[n] # NoEntry /\ ~store[n].dirty /\ ~store[n].blob.torn =>
         store[n].blob = commits[n][store[n].sourceVersion]

\* A document never falls back to an older version of its note, and it gives up
\* local edits only for a newer one, however late an echo of its own writes or a
\* check comes.
ReseedsGoForward ==
  [][\A n \in Notes : Tracked(n) /\ Tracked(n)' =>
       /\ docs[n].tracked <= docs'[n].tracked
       /\ ~(InDoc(n) \subseteq InDoc(n)') => docs[n].tracked < docs'[n].tracked]_vars

\* Why the two hold: what every copy of a note descends from.  It can be told where
\* the reconciler seeds every document itself, and where no note leaves and the store
\* works: then a document that the engine hands back is what its snapshot says.
Traceable == "adopt" \in LoadKinds => Scopes = {"tagged"} /\ ~Fault("store")

\* cs is the history of the note, c a content whose baseline is the version v of it.
Sound(cs, c, v, dirty) ==
  /\ v \in 1..Len(cs)
  /\ Traceable => IF c.torn THEN v < Len(cs)
                            ELSE Extends(c, cs[v]) /\ (~dirty => c = cs[v])

SoundCommits(cs) ==
  Traceable => /\ \A v \in 1..Len(cs) : ~cs[v].torn
               /\ \A v \in 2..Len(cs) : cs[v].ext # v => Extends(cs[v], cs[v - 1])

SoundDoc(cs, d)   == d # NoDoc => Sound(cs, d.content, d.tracked, d.dirty)
SoundEntry(cs, e) == e # NoEntry => Sound(cs, e.blob, e.sourceVersion, e.dirty)
SoundStray(cs, w) == Sound(cs, w.body, w.ver, TRUE)

\* The request on the wire against the document that waits for its answer.
SoundRead(cs, d, r) ==
  /\ r.net = "note" => r.ver \in 1..Len(cs)
  /\ r.at \in Awaits \ {"loading"} => d # NoDoc
  /\ r.at \in {"checking", "revalidating"} /\ r.net = "note" => d.tracked <= r.ver
  /\ r.at = "winner" => d.tracked < Len(cs) /\ (r.net = "note" => d.tracked < r.ver)

SoundWrite(cs, d, r) ==
  r.at = "writing" =>
    /\ r.net = "sent" => r.ver = d.tracked /\ Sound(cs, r.body, r.ver, TRUE)
    /\ r.net = "note" => cs[r.ver] = r.body
    /\ r.net = "conflict" => d.tracked < Len(cs)
    /\ r.generation <= d.generation
    /\ Extends(d.content, r.body) /\ d.content.torn = r.body.torn
    /\ IF d.generation = r.generation THEN d.content = r.body ELSE d.dirty

\* The engine has a Y.Doc of its own only while the snapshot says the same.
SoundLoose(d, e, l) ==
  l # NoDoc => "adopt" \in LoadKinds /\ d = NoDoc /\ e # NoEntry /\ e.blob = l

SoundNote(cs, ws, d, e, r, l) ==
  /\ SoundCommits(cs) /\ \A w \in ws : SoundStray(cs, w)
  /\ SoundDoc(cs, d) /\ SoundEntry(cs, e)
  /\ SoundRead(cs, d, r) /\ SoundWrite(cs, d, r)
  /\ Traceable => SoundLoose(d, e, l) /\ r.loose = NoDoc

Lineage ==
  \A n \in Notes : SoundNote(commits[n], stray[n], docs[n], store[n], run[n], loose[n])

FlushOps == {"flush", "uflush", "sflush"}
FlushWaits(n) == \E i \in DOMAIN ops[n] : ops[n][i] \in FlushOps

\* Nothing waits for ever: a dirty document has its writeback ahead of it (an armed
\* timer, a queued flush or a running one), and what a crash could lose is about to
\* be persisted (a document that differs from its snapshot has a timer armed or a
\* flush not yet begun), whatever retries, unloads and conflicts come in between.
WorkIsScheduled ==
  \A n \in Notes : Tracked(n) =>
    LET ahead == docs[n].timer # "none" \/ FlushWaits(n)
    IN /\ docs[n].dirty => ahead \/ run[n].op \in FlushOps
       /\ (store[n] # NoEntry /\ store[n].blob = docs[n].content) \/ ahead

\* A local edit is in a document, a snapshot or the vault until a re-seed, a
\* removal or a crash takes it; unload() and stop() lose none.
NoSilentLoss ==
  \A e \in 1..nextEdit : dropped[e] = "no" =>
    \E n \in Notes : e \in InDoc(n) \cup InStore(n) \cup InVault(n)

\* Timers fire, answers and events are handled, queued operations begin, and the
\* network does not fail for ever.  A timer and an event wait for nothing in the
\* code; in the model MaxOps can disable them again and again, hence SF.
Fairness ==
  /\ \A n \in Notes : /\ WF_vars(Begin(n)) /\ WF_vars(Reply(n)) /\ SF_vars(TimerFires(n))
                      /\ SF_vars(ServeGet(n)) /\ SF_vars(ServePut(n))
  /\ SF_vars(Deliver)

FairSpec == Spec /\ Fairness

\* Every local edit ends up in the vault, is superseded or removed, or rests in
\* the snapshot of a note nobody has open.
EditsSettle ==
  \A e \in Edits :
    (e <= nextEdit) ~>
      (dropped[e] # "no"
        \/ \E n \in Notes : e \in InVault(n) \/ (~Tracked(n) /\ e \in InStore(n)))
=============================================================================
