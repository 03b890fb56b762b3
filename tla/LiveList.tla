------------------------------- MODULE LiveList -------------------------------
(***************************************************************************)
(* createLiveList of packages/surface-client: the consumers of one live    *)
(* query of one client share one subscription (an entry), counted by the   *)
(* handles attached to it, and kept in a registry under the query's key.   *)
(*                                                                         *)
(* JavaScript is single-threaded, so what can interleave are callbacks:    *)
(* while an entry fans an event out, the listener being called may create  *)
(* and close consumers, and a transport may fail before subscribe() has    *)
(* returned.  The call stack is a variable; its top frame says what runs.  *)
(* A list is abstracted to its revision, a grace window to its presence,   *)
(* and the handles of a fan-out are visited in any order.                  *)
(***************************************************************************)
EXTENDS Naturals, Sequences, FiniteSets

CONSTANTS
  Entries,   \* subscriptions that may ever be opened for the query
  Handles,   \* consumers that may ever be created for it
  NoEntry,   \* registry.get(key) === undefined
  NoHandle,  \* no listener is running in this frame
  MaxRev     \* bound: list events per entry

ASSUME SentinelAssumption == NoEntry \notin Entries /\ NoHandle \notin Handles
ASSUME BoundAssumption == MaxRev \in Nat

Statuses == {"connecting", "live", "reconnecting", "closed"}

LiveListEntry ==
  [sock : {"none", "open", "closed"}, shared : BOOLEAN, rev : Nat, status : Statuses,
   handles : SUBSET Handles, delivering : BOOLEAN, releaseAfterDelivery : BOOLEAN,
   grace : BOOLEAN, releaseTimer : BOOLEAN, disposed : BOOLEAN]

\* A consumer.  "creating" until createLiveList has returned it to its caller.
EntryHandle ==
  [state : {"unused", "creating", "attached", "released"}, entry : Entries \cup {NoEntry},
   window : BOOLEAN, seenRev : Nat, seenStatus : Statuses]

\* A frame of the call stack: a fan-out ("sync", "error") or a microtask, the
\* handles it has yet to visit and the one whose callback runs; or what a caller
\* does after such a call: emit "closed" after a terminal error, or return.
Frame ==
  [kind : {"sync", "error", "microtask", "close", "return"}, entry : Entries,
   todo : SUBSET Handles, at : Handles \cup {NoHandle}]

VARIABLES
  registry,    \* the entry under the key
  entries,
  handles,
  microtasks,  \* late joiners whose first sync is queued
  stack

vars == <<registry, entries, handles, microtasks, stack>>

-----------------------------------------------------------------------------
(* Small operators.                                                        *)

Top == stack[Len(stack)]
Pop == SubSeq(stack, 1, Len(stack) - 1)
Fan(kind, e, todo) == [kind |-> kind, entry |-> e, todo |-> todo, at |-> NoHandle]
FanKinds == {"sync", "error", "microtask"}

\* Code of a consumer runs: from the event loop, or inside a callback.
ConsumerRuns == IF stack = <<>> THEN TRUE ELSE Top.at # NoHandle

\* The event loop takes a new task only once the microtasks have run.
LoopIdle == stack = <<>> /\ microtasks = {}

Unused(e) == entries[e].sock = "none"
Fresh(h)  == handles[h].state = "unused"

\* deregister: only if the registry still holds this very entry.
Deregister(e) == IF registry = e THEN NoEntry ELSE registry

\* Mutant: the grace window of an entry only ever grows.
StickyGrace(E, departing) == E.grace \/ \E h \in E.handles \cup departing : handles[h].window

\* recomputeReleaseDelay over the handles that stay; one that takes the count to
\* zero still gets its own window.
GraceOf(E, departing) ==
  LET asking == IF E.handles = {} THEN departing ELSE E.handles
  IN \E h \in asking : handles[h].window

-----------------------------------------------------------------------------
(* Releasing an entry.                                                     *)

\* disposeEntry, without the registry
Disposed(E) == [E EXCEPT !.disposed = TRUE, !.releaseTimer = FALSE, !.sock = "closed"]

\* Mutant: an entry with a consumer left is released like any other.
ReleasedAnyway(E) ==
  IF E.disposed THEN E
  ELSE IF E.delivering THEN [E EXCEPT !.releaseAfterDelivery = TRUE]
  ELSE IF E.grace THEN [E EXCEPT !.releaseTimer = TRUE]
  ELSE Disposed(E)

\* scheduleRelease
Released(E) ==
  IF E.disposed \/ E.handles # {} THEN E
  ELSE IF E.delivering THEN [E EXCEPT !.releaseAfterDelivery = TRUE]
  ELSE IF E.grace THEN [E EXCEPT !.releaseTimer = TRUE]
  ELSE Disposed(E)

\* The entry becomes E; if that disposed it, it leaves the registry.
Put(e, E) ==
  /\ entries' = [entries EXCEPT ![e] = E]
  /\ registry' = IF E.disposed /\ ~entries[e].disposed THEN Deregister(e) ELSE registry

-----------------------------------------------------------------------------
(* What a consumer does.                                                   *)

\* attachHandle, on the entry
Attached(E, h, window) ==
  [E EXCEPT !.handles = @ \cup {h}, !.releaseTimer = FALSE, !.releaseAfterDelivery = FALSE,
            !.grace = window \/ \E k \in E.handles : handles[k].window]

\* Mutant: a late joiner waits for the next event.
NoLateSync(e, h) == UNCHANGED microtasks

\* A handle that joins a stream that has delivered gets its state on a microtask.
LateSync(e, h) ==
  microtasks' = IF entries[e].rev # 0 \/ entries[e].status # "connecting"
                  THEN microtasks \cup {h} ELSE microtasks

Handle(h, e, window, state) ==
  handles' = [handles EXCEPT ![h] = [state |-> state, entry |-> e, window |-> window,
                                     seenRev |-> 0, seenStatus |-> "connecting"]]

\* createLiveList, the registry hit
Join(h) ==
  /\ ConsumerRuns /\ Fresh(h) /\ registry # NoEntry
  /\ LET E == entries[registry]
     IN /\ ~E.disposed /\ E.status # "closed"
        /\ \E window \in BOOLEAN :
             /\ entries' = [entries EXCEPT ![registry] = Attached(E, h, window)]
             /\ Handle(h, registry, window, "attached")
        /\ LateSync(registry, h)
  /\ UNCHANGED <<registry, stack>>

NewEntry(h, shared, window) ==
  [sock |-> "open", shared |-> shared, rev |-> 0, status |-> "connecting", handles |-> {h},
   delivering |-> FALSE, releaseAfterDelivery |-> FALSE, grace |-> window,
   releaseTimer |-> FALSE, disposed |-> FALSE]

\* createLiveList, the miss (or a consumer that shares nothing).  subscribe()
\* returns with the first attempt under way; or it rejects the query; or it
\* reports that there is no WebSocket, a terminal error, before it returns.
Open(h, e) ==
  /\ ConsumerRuns /\ Fresh(h) /\ Unused(e)
  /\ \E shared, window \in BOOLEAN :
       LET E == NewEntry(h, shared, window)
           owned == IF shared THEN e ELSE registry
       IN /\ shared /\ registry # NoEntry =>
               entries[registry].disposed \/ entries[registry].status = "closed"
          /\ \/ /\ entries' = [entries EXCEPT ![e] = E]
                /\ registry' = owned
                /\ Handle(h, e, window, "attached")
                /\ UNCHANGED stack
             \/ /\ entries' = [entries EXCEPT ![e] = [Disposed(E) EXCEPT !.handles = {}]]
                /\ UNCHANGED <<registry, stack>>
                /\ Handle(h, e, window, "released")
             \/ /\ entries' = [entries EXCEPT ![e] = [E EXCEPT !.delivering = TRUE]]
                /\ registry' = owned
                /\ Handle(h, e, window, "creating")
                /\ stack' = stack \o <<Fan("return", e, {h}), Fan("close", e, {}),
                                       Fan("error", e, {h})>>
  /\ UNCHANGED microtasks

\* close()
Close(h) ==
  /\ ConsumerRuns /\ handles[h].state = "attached"
  /\ handles' = [handles EXCEPT ![h].state = "released"]
  /\ LET e == handles[h].entry
         left == [entries[e] EXCEPT !.handles = @ \ {h}]
     IN Put(e, Released([left EXCEPT !.grace = GraceOf(left, {h})]))
  /\ UNCHANGED <<microtasks, stack>>

\* The grace window ends.
ReleaseTimer(e) ==
  /\ LoopIdle /\ entries[e].releaseTimer
  /\ LET E == [entries[e] EXCEPT !.releaseTimer = FALSE]
     IN Put(e, IF E.handles = {} THEN Disposed(E) ELSE E)
  /\ UNCHANGED <<handles, microtasks, stack>>

-----------------------------------------------------------------------------
(* Fanning out.                                                            *)

\* The entry becomes E and every handle of it is to be visited.
Deliver(e, E, kind, rest) ==
  /\ entries' = [entries EXCEPT ![e] = [E EXCEPT !.delivering = TRUE]]
  /\ stack' = rest \o <<Fan(kind, e, E.handles)>>

\* Mutant: a closed consumer is visited like any other.
NeverSilent(h) == FALSE

\* released: close() was called, whoever still has the handle in a copied list.
Silent(h) == handles[h].state = "released"

Current(h) ==
  LET E == entries[handles[h].entry]
  IN handles[h].seenRev = E.rev /\ handles[h].seenStatus = E.status

\* One handle is visited: sync() or error().  Its callbacks run unless it has been
\* closed, has nothing new to see, or has not been returned to anyone yet.
Visit(h) ==
  /\ stack # <<>> /\ Top.kind \in FanKinds /\ h \in Top.todo
  /\ LET f == Top
         E == entries[f.entry]
         deaf == Silent(h) \/ (f.kind # "error" /\ Current(h))
         calls == ~deaf /\ (f.kind = "error" \/ handles[h].state = "attached")
     IN /\ stack' = Append(Pop, [f EXCEPT !.todo = @ \ {h}, !.at = IF calls THEN h ELSE NoHandle])
        /\ handles' = IF deaf \/ f.kind = "error" THEN handles
                        ELSE [handles EXCEPT ![h].seenRev = E.rev, ![h].seenStatus = E.status]
  /\ UNCHANGED <<registry, entries, microtasks>>

\* The end of the loop and the finally clause of deliver(); a microtask has none.
Unwind ==
  /\ stack # <<>> /\ Top.kind \in FanKinds /\ Top.todo = {}
  /\ stack' = Pop
  /\ LET e == Top.entry
         E == [entries[e] EXCEPT !.delivering = FALSE, !.releaseAfterDelivery = FALSE]
     IN IF Top.kind = "microtask" THEN UNCHANGED <<registry, entries>>
          ELSE Put(e, IF entries[e].releaseAfterDelivery THEN Released(E) ELSE E)
  /\ UNCHANGED <<handles, microtasks>>

Microtask(h) ==
  /\ stack = <<>> /\ h \in microtasks
  /\ microtasks' = microtasks \ {h}
  /\ stack' = <<Fan("microtask", handles[h].entry, {h})>>
  /\ UNCHANGED <<registry, entries, handles>>

\* createLiveList returns after all.
Return ==
  /\ stack # <<>> /\ Top.kind = "return"
  /\ stack' = Pop
  /\ handles' = [h \in Handles |->
       IF h \in Top.todo THEN [handles[h] EXCEPT !.state = "attached"] ELSE handles[h]]
  /\ UNCHANGED <<registry, entries, microtasks>>

-----------------------------------------------------------------------------
(* What the transport reports.                                             *)

Receives(e) == LoopIdle /\ entries[e].sock = "open" /\ ~entries[e].disposed

\* onSnapshot, onUpsert, or onRemove of a note in the list
ListEvent(e) ==
  /\ Receives(e) /\ entries[e].rev < MaxRev
  /\ Deliver(e, [entries[e] EXCEPT !.rev = @ + 1], "sync", stack)
  /\ UNCHANGED <<registry, handles, microtasks>>

StatusEvent(e) ==
  /\ Receives(e)
  /\ \E s \in {"live", "reconnecting"} \ {entries[e].status} :
       Deliver(e, [entries[e] EXCEPT !.status = s], "sync", stack)
  /\ UNCHANGED <<registry, handles, microtasks>>

ErrorEvent(e) ==
  /\ Receives(e)
  /\ \E rest \in {stack, Append(stack, Fan("close", e, {}))} :  \* transient or terminal
       Deliver(e, entries[e], "error", rest)
  /\ UNCHANGED <<registry, handles, microtasks>>

\* A terminally closed entry is no cache hit: it leaves the registry first.
Retire(e) == registry' = Deregister(e)

\* onStatus("closed"), after the terminal error.  A disposed entry ignores it.
Closed ==
  /\ stack # <<>> /\ Top.kind = "close"
  /\ LET e == Top.entry
         E == [entries[e] EXCEPT !.status = "closed", !.sock = "closed"]
     IN IF entries[e].disposed
          THEN stack' = Pop /\ UNCHANGED <<registry, entries>>
          ELSE Retire(e) /\ Deliver(e, E, "sync", Pop)
  /\ UNCHANGED <<handles, microtasks>>

-----------------------------------------------------------------------------
Init ==
  /\ registry = NoEntry
  /\ entries = [e \in Entries |->
       [sock |-> "none", shared |-> FALSE, rev |-> 0, status |-> "connecting", handles |-> {},
        delivering |-> FALSE, releaseAfterDelivery |-> FALSE, grace |-> FALSE,
        releaseTimer |-> FALSE, disposed |-> FALSE]]
  /\ handles = [h \in Handles |->
       [state |-> "unused", entry |-> NoEntry, window |-> FALSE, seenRev |-> 0,
        seenStatus |-> "connecting"]]
  /\ microtasks = {}
  /\ stack = <<>>

Next ==
  \/ \E h \in Handles :
       \/ Join(h) \/ Close(h) \/ Visit(h) \/ Microtask(h)
       \/ \E e \in Entries : Open(h, e)
  \/ \E e \in Entries : ReleaseTimer(e) \/ ListEvent(e) \/ StatusEvent(e) \/ ErrorEvent(e)
  \/ Unwind \/ Return \/ Closed

Spec == Init /\ [][Next]_vars

-----------------------------------------------------------------------------
(* Properties.                                                             *)

TypeOK ==
  /\ registry \in Entries \cup {NoEntry}
  /\ entries \in [Entries -> LiveListEntry]
  /\ handles \in [Handles -> EntryHandle]
  /\ \A h \in Handles : handles[h].state = "unused" <=> handles[h].entry = NoEntry
  /\ microtasks \in SUBSET Handles
  /\ stack \in Seq(Frame)

Fanning(e) == \E i \in 1..Len(stack) : stack[i].entry = e /\ stack[i].kind \in {"sync", "error"}

\* Whatever callbacks create and close, and in whatever order old entries die,
\* the registry holds exactly the shared subscription that is alive: there is
\* never a second stream for the query, and no consumer joins a dead one.
OneLiveStream ==
  \A e \in Entries :
    (entries[e].sock = "open" /\ entries[e].shared /\ entries[e].status # "closed") <=> registry = e

\* No consumer's stream is taken from it, however its peers' releases, grace
\* windows and deferred teardowns interleave with its arrival.
NeverTornFromUnder ==
  \A h \in Handles : handles[h].state \in {"creating", "attached"} =>
    ~entries[handles[h].entry].disposed

\* No socket outlives its consumers: without any, it is closed, in its grace
\* window, or in the middle of a fan-out that will see to it.
NoLeakedSocket ==
  \A e \in Entries : entries[e].sock = "open" /\ entries[e].handles = {} =>
    entries[e].releaseTimer \/ (entries[e].releaseAfterDelivery /\ Fanning(e))

\* The stream lives exactly as long as it has consumers: one live stream for the
\* query, never torn from under a consumer, and none left without one.
StreamFollowsConsumers == TypeOK /\ OneLiveStream /\ NeverTornFromUnder /\ NoLeakedSocket

\* A grace window never outlives the consumer that asked for it: a socket is held
\* back only if the last consumer to leave asked for that.
WindowLeavesWithConsumer ==
  [][\A e \in Entries : ~entries[e].releaseTimer /\ entries'[e].releaseTimer =>
       \E h \in Handles : handles[h].entry = e /\ handles[h].window /\ handles'[h].state = "released"
         /\ (handles[h].state = "attached" \/ entries[e].releaseAfterDelivery)]_vars

\* Once the callbacks and microtasks have run, every consumer has seen the
\* current list and status, late joiners and those who joined in a callback too.
AttachedAreCurrent ==
  LoopIdle => \A h \in Handles : handles[h].state = "attached" => Current(h)

\* The step calls into h's code.
Calls(h) ==
  /\ stack # <<>> /\ Len(stack') = Len(stack)
  /\ Top.at # h /\ stack'[Len(stack')].at = h

\* Fan-outs survive what their callbacks do.  A closed consumer is never called
\* again, nor its state touched, also when a peer's callback closes it while a
\* fan-out has yet to visit it; and a transport is never released from inside its
\* own fan-out, also when its last consumer closes there.
FanOutsAreSafe ==
  [][/\ \A h \in Handles : handles[h].state = "released" =>
          handles'[h] = handles[h] /\ ~Calls(h)
     /\ \A e \in Entries : ~entries[e].disposed /\ entries'[e].disposed =>
          ~\E i \in 1..Len(stack') :
             stack'[i].entry = e /\ stack'[i].kind \in {"sync", "error"}]_vars
=============================================================================
